-------------------------- MODULE StateMachineFactory --------------------------
(***************************************************************************)
(* The factory of protocol machines                                        *)
(* (src/src/conversation_monitor/statemachine_factory.cpp): static         *)
(* members, shared by all conversations and guarded by no mutex, that keep *)
(* the directories to look for protocol files in and the machines loaded   *)
(* from them on first use.                                                 *)
(*                                                                         *)
(* A machine stands for the content of the file it was loaded from (what   *)
(* becomes of the content is ProtocolLoader's); a file's name is the       *)
(* protocol's.  The files change while the factory works.                  *)
(***************************************************************************)
EXTENDS Naturals, Sequences, SequencesExt

CONSTANTS
  Threads,         \* the threads that call the factory
  Dirs,            \* the paths given to it
  Protocols,       \* the names of files, hence of protocols
  Machines,        \* the contents a file may have that can be loaded
  Unloadable,      \* the content of a file that loadSpecification refuses
  NoMachine        \* no file; no entry

ASSUME FactoryAssumption ==
  /\ NoMachine \notin Machines /\ Unloadable \notin Machines
  /\ NoMachine # Unloadable

VARIABLES
  (* the file system *)
  directories,     \* the paths that are directories
  content,         \* content[d][p]: what is in the file p of d
  (* the static members *)
  msResourceDirs,
  msPreparedResourceDir,
  msStateMachines, \* NoMachine where there is no entry
  (* the threads' calls *)
  pc,              \* "idle", or where in a call the thread is
  protocol,        \* the argument of getStateMachine
  dir,             \* the argument of prepareProtocolsFromResourceDir
  at,              \* the iterator over msResourceDirs, 0 in a direct call
  files,           \* the files of dir that are still to be loaded
  (* history *)
  kept,            \* <<d, p>>: d was added and has held a p that can be
                   \* loaded ever since
  hidden,          \* a direct call marked the factory as prepared
                   \* before the directories added were read
  asRead           \* the files are as they were when the last reading of
                   \* all directories began, and no other was read since

fileSystem == <<directories, content>>
statics    == <<msResourceDirs, msPreparedResourceDir, msStateMachines>>
calls      == <<pc, protocol, dir, at, files>>
history    == <<kept, hidden, asRead>>
vars       == <<fileSystem, statics, calls, history>>

Contents == Machines \cup {Unloadable, NoMachine}

(* d has a file p, and one that can be loaded.                             *)
HasFile(d, p) == d \in directories /\ content[d][p] # NoMachine
Holds(d, p)   == d \in directories /\ content[d][p] \in Machines

Init ==
  /\ directories \in SUBSET Dirs
  /\ content \in [Dirs -> [Protocols -> Contents]]
  /\ msResourceDirs = <<>>
  /\ msPreparedResourceDir = FALSE
  /\ msStateMachines = [p \in Protocols |-> NoMachine]
  /\ pc = [t \in Threads |-> "idle"]
  /\ protocol \in [Threads -> Protocols]
  /\ dir \in [Threads -> Dirs]
  /\ at = [t \in Threads |-> 0]
  /\ files = [t \in Threads |-> {}]
  /\ kept = {}
  /\ hidden = FALSE
  /\ asRead = FALSE

------------------------------------------------------------------------------
(***************************************************************************)
(* The directories                                                         *)
(***************************************************************************)
(* addProtocolResourceDir after the list became dirs.  A path that is no   *)
(* directory makes it throw and leaves the list as it is; one that is      *)
(* there already is left alone.  (A slip: the factory still counts as      *)
(* prepared.)                                                              *)
AddedStillPrepared(dirs, d) ==
  /\ msResourceDirs' = IF d \in directories /\ d \notin Range(dirs)
                       THEN Append(dirs, d) ELSE dirs
  /\ UNCHANGED msPreparedResourceDir

Added(dirs, d) ==
  IF d \in directories /\ d \notin Range(dirs)
  THEN msResourceDirs' = Append(dirs, d) /\ msPreparedResourceDir' = FALSE
  ELSE msResourceDirs' = dirs /\ UNCHANGED msPreparedResourceDir

(* What of the list, and with d in it, is kept.                            *)
KeptIn(dirs, d) ==
  {k \in kept : k[1] \in Range(dirs)} \cup
  {k \in {d} \X Protocols : d \notin Range(dirs) /\ Holds(d, k[2])}

SetProtocolResourceDir(t, d) ==
  /\ pc[t] = "idle"
  /\ Added(<<>>, d)
  /\ kept' = KeptIn(<<>>, d)
  /\ hidden' = (hidden /\ d \notin directories)
  /\ UNCHANGED <<fileSystem, msStateMachines, calls, asRead>>

AddProtocolResourceDir(t, d) ==
  /\ pc[t] = "idle"
  /\ Added(msResourceDirs, d)
  /\ kept' = KeptIn(msResourceDirs, d)
  /\ hidden' = (hidden /\ (d \notin directories \/ d \in Range(msResourceDirs)))
  /\ UNCHANGED <<fileSystem, msStateMachines, calls, asRead>>

------------------------------------------------------------------------------
(***************************************************************************)
(* The machines                                                            *)
(***************************************************************************)
(* The files that prepareProtocolsFromResourceDir finds in d, whatever is  *)
(* in them.  (A path that is no directory any more is passed over.)  (A    *)
(* slip: a file's name keeps its path.)                                    *)
PathsOf(d) == {<<d, p>> : p \in {q \in Protocols : HasFile(d, q)}}

FilesOf(d) == {p \in Protocols : HasFile(d, p)}

(* A direct call: the function is public.                                  *)
PrepareDirectly(t, d) ==
  /\ pc[t] = "idle"
  /\ pc' = [pc EXCEPT ![t] = "load"]
  /\ dir' = [dir EXCEPT ![t] = d]
  /\ at' = [at EXCEPT ![t] = 0]
  /\ files' = [files EXCEPT ![t] = FilesOf(d)]
  /\ asRead' = FALSE
  /\ UNCHANGED <<fileSystem, statics, protocol, kept, hidden>>

GetStateMachine(t, p) ==
  /\ pc[t] = "idle"
  /\ protocol' = [protocol EXCEPT ![t] = p]
  /\ IF msPreparedResourceDir
     THEN /\ pc' = [pc EXCEPT ![t] = "find"]
          /\ UNCHANGED <<at, asRead>>
     ELSE /\ pc' = [pc EXCEPT ![t] = "prepare"]
          /\ at' = [at EXCEPT ![t] = 1]
          /\ asRead' = TRUE
  /\ UNCHANGED <<fileSystem, statics, dir, files, kept, hidden>>

(* prepareProtocolsFromResourceDirs: the next directory of the list, or    *)
(* its end.                                                                *)
NextDirectory(t) ==
  /\ pc[t] = "prepare"
  /\ IF at[t] \in DOMAIN msResourceDirs
     THEN /\ pc' = [pc EXCEPT ![t] = "load"]
          /\ dir' = [dir EXCEPT ![t] = msResourceDirs[at[t]]]
          /\ files' = [files EXCEPT ![t] = FilesOf(msResourceDirs[at[t]])]
     ELSE /\ pc' = [pc EXCEPT ![t] = "find"]
          /\ UNCHANGED <<dir, files>>
  /\ UNCHANGED <<fileSystem, statics, protocol, at, history>>

(* A file that was replaced since it was listed is loaded as it is now;    *)
(* one that is gone or cannot be loaded is passed over.  A machine of the  *)
(* name, from whichever directory, is replaced.  (A slip: it is kept.)     *)
RegisteredFirst(p, machine) ==
  IF msStateMachines[p] # NoMachine THEN msStateMachines
  ELSE [msStateMachines EXCEPT ![p] = machine]

Registered(p, machine) == [msStateMachines EXCEPT ![p] = machine]

LoadFile(t, p) ==
  /\ pc[t] = "load"
  /\ p \in files[t]
  /\ files' = [files EXCEPT ![t] = @ \ {p}]
  /\ msStateMachines' = IF Holds(dir[t], p) THEN Registered(p, content[dir[t]][p])
                        ELSE msStateMachines
  /\ UNCHANGED <<fileSystem, msResourceDirs, msPreparedResourceDir, pc, protocol,
                 dir, at, history>>

(* The end of prepareProtocolsFromResourceDir: the factory counts as       *)
(* prepared after each directory.                                          *)
DirectoryDone(t) ==
  /\ pc[t] = "load"
  /\ files[t] = {}
  /\ msPreparedResourceDir' = TRUE
  /\ IF at[t] = 0
     THEN /\ pc' = [pc EXCEPT ![t] = "idle"]
          /\ hidden' = (hidden \/ ~msPreparedResourceDir)
          /\ UNCHANGED at
     ELSE /\ pc' = [pc EXCEPT ![t] = "prepare"]
          /\ at' = [at EXCEPT ![t] = @ + 1]
          /\ UNCHANGED hidden
  /\ UNCHANGED <<fileSystem, msResourceDirs, msStateMachines, protocol, dir,
                 files, kept, asRead>>

(* What getStateMachine returns is a copy; where there is none it throws.  *)
Answer(t) == msStateMachines[protocol[t]]

Find(t) ==
  /\ pc[t] = "find"
  /\ pc' = [pc EXCEPT ![t] = "idle"]
  /\ UNCHANGED <<fileSystem, statics, protocol, dir, at, files, history>>

------------------------------------------------------------------------------
(***************************************************************************)
(* The file system: somebody writes or removes a file, or a directory.     *)
(***************************************************************************)
Changed ==
  /\ kept' = {k \in kept : k[1] \in directories' /\ content'[k[1]][k[2]] \in Machines}
  /\ asRead' = FALSE
  /\ UNCHANGED <<statics, calls, hidden>>

ChangeFile(d, p, machine) ==
  /\ d \in directories
  /\ content' = [content EXCEPT ![d][p] = machine]
  /\ UNCHANGED directories
  /\ Changed

MoveDirectory(d) ==
  /\ directories' = IF d \in directories THEN directories \ {d}
                    ELSE directories \cup {d}
  /\ UNCHANGED content
  /\ Changed

------------------------------------------------------------------------------
Call(t) ==
  \/ \E d \in Dirs : SetProtocolResourceDir(t, d)
  \/ \E d \in Dirs : AddProtocolResourceDir(t, d)
  \/ \E d \in Dirs : PrepareDirectly(t, d)
  \/ \E p \in Protocols : GetStateMachine(t, p)
  \/ NextDirectory(t)
  \/ \E p \in Protocols : LoadFile(t, p)
  \/ DirectoryDone(t)
  \/ Find(t)

Next ==
  \/ \E t \in Threads : Call(t)
  \/ \E d \in Dirs, p \in Protocols, m \in Contents : ChangeFile(d, p, m)
  \/ \E d \in Dirs : MoveDirectory(d)

Spec == Init /\ [][Next]_vars

------------------------------------------------------------------------------
(***************************************************************************)
(* Properties                                                              *)
(***************************************************************************)
FactoryTypeOK ==
  /\ directories \in SUBSET Dirs
  /\ content \in [Dirs -> [Protocols -> Contents]]
  /\ msResourceDirs \in Seq(Dirs)
  /\ msPreparedResourceDir \in BOOLEAN
  /\ msStateMachines \in [Protocols -> Machines \cup {NoMachine}]
  /\ pc \in [Threads -> {"idle", "prepare", "load", "find"}]
  /\ protocol \in [Threads -> Protocols]
  /\ dir \in [Threads -> Dirs]
  /\ at \in [Threads -> Nat]
  /\ files \in [Threads -> SUBSET Protocols]
  /\ kept \in SUBSET (Dirs \X Protocols)
  /\ hidden \in BOOLEAN
  /\ asRead \in BOOLEAN

(* A protocol with a file in a directory that could be loaded ever since   *)
(* that directory was added is found, whichever directories were added, read or removed since *)
(* and whatever else changed in the files, also while they were read,      *)
(* unless a direct call marked the factory as prepared too early (see      *)
(* NothingHidden) or calls overlap (see factory_threads.cfg).              *)
FoundIfKept ==
  \A t \in Threads :
    pc[t] = "find" /\ ~hidden /\ (\E d \in Dirs : <<d, protocol[t]>> \in kept) =>
      Answer(t) # NoMachine

(* The machine handed out is that of the directory added last which has    *)
(* the protocol in a file that can be loaded ("already registered - will   *)
(* use statemachine specification from" the new one), as long as the files *)
(* stay as they were read.                                                 *)
LastAddedWins ==
  \A t \in Threads :
    LET holding == {i \in DOMAIN msResourceDirs : Holds(msResourceDirs[i], protocol[t])}
    IN pc[t] = "find" /\ asRead =>
         \A i \in holding :
           (\A j \in holding : j <= i) =>
              Answer(t) = content[msResourceDirs[i]][protocol[t]]

(* "Instanciates all available machines a resource directory"              *)
(* (statemachine_factory.h): a direct call adds machines and takes none    *)
(* away.                                                                   *)
NothingHidden ==
  \A t \in Threads :
    pc[t] = "find" /\ (\E d \in Dirs : <<d, protocol[t]>> \in kept) =>
      Answer(t) # NoMachine

(* "Set the resource dir where to search for the protocol definitions      *)
(* (implies a clearing of all previous entries)" (statemachine_factory.h): *)
(* what is found was found in a directory of the list.                     *)
FoundWhereSearched ==
  \A t \in Threads :
    pc[t] = "find" /\ asRead /\ Answer(t) # NoMachine =>
      \E d \in Range(msResourceDirs) : Answer(t) = content[d][protocol[t]]

(* No thread enters a machine while another enters or looks for one: the   *)
(* map has no mutex.                                                       *)
NoDataRace ==
  \A t, u \in Threads :
    t # u /\ pc[t] = "load" /\ files[t] # {} => pc[u] \notin {"load", "find"}

==============================================================================
