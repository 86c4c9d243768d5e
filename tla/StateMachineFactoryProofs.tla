----------------------- MODULE StateMachineFactoryProofs -----------------------
(***************************************************************************)
(* What the factory finds, for any number of directories, protocols and    *)
(* machines, and whatever happens to the files, as long as one thread at a *)
(* time is in it.                                                          *)
(***************************************************************************)
EXTENDS StateMachineFactory, TLAPS

OneThread == \A t, u \in Threads : t = u

-----------------------------------------------------------------------------
(* Types                                                                   *)

\* A directory is put at the end of the list, or the list stays.
LEMMA AddedType ==
  ASSUME NEW dirs \in Seq(Dirs), NEW d \in Dirs, Added(dirs, d)
  PROVE  /\ \/ msResourceDirs' = Append(dirs, d) /\ msPreparedResourceDir' = FALSE
            \/ msResourceDirs' = dirs /\ UNCHANGED msPreparedResourceDir
         /\ msResourceDirs' \in Seq(Dirs)
BY DEF Added

LEMMA InitTyped == Init => FactoryTypeOK
<1>1. <<>> \in Seq(Dirs) /\ 0 \in Nat
  OBVIOUS
<1> QED BY <1>1, Zenon DEF Init, FactoryTypeOK

\* What holds a protocol is a listed file, which can be loaded.
LEMMA HoldsListed ==
  ASSUME NEW d \in Dirs, NEW p \in Protocols, Holds(d, p)
  PROVE  p \in FilesOf(d) /\ content[d][p] \in Machines
BY FactoryAssumption DEF Holds, HasFile, FilesOf

LEMMA TypeNext == ASSUME FactoryTypeOK, [Next]_vars PROVE FactoryTypeOK'
<1> USE DEF FactoryTypeOK
<1>1. CASE UNCHANGED vars
  BY <1>1 DEF vars, fileSystem, statics, calls, history
<1>2. ASSUME NEW t \in Threads, NEW d \in Dirs, SetProtocolResourceDir(t, d)
      PROVE  FactoryTypeOK'
  <2>1. msResourceDirs' \in Seq(Dirs) /\ msPreparedResourceDir' \in BOOLEAN
    <3>1. <<>> \in Seq(Dirs) /\ Added(<<>>, d)
      BY <1>2 DEF SetProtocolResourceDir
    <3> QED BY <3>1, AddedType
  <2>2. kept' \in SUBSET (Dirs \X Protocols) /\ hidden' \in BOOLEAN
    BY <1>2 DEF SetProtocolResourceDir, KeptIn
  <2> QED BY <1>2, <2>1, <2>2 DEF SetProtocolResourceDir, fileSystem, calls
<1>3. ASSUME NEW t \in Threads, NEW d \in Dirs, AddProtocolResourceDir(t, d)
      PROVE  FactoryTypeOK'
  <2>1. msResourceDirs' \in Seq(Dirs) /\ msPreparedResourceDir' \in BOOLEAN
    BY <1>3, AddedType DEF AddProtocolResourceDir
  <2>2. kept' \in SUBSET (Dirs \X Protocols) /\ hidden' \in BOOLEAN
    BY <1>3 DEF AddProtocolResourceDir, KeptIn
  <2> QED BY <1>3, <2>1, <2>2 DEF AddProtocolResourceDir, fileSystem, calls
<1>4. ASSUME NEW t \in Threads, NEW d \in Dirs, PrepareDirectly(t, d)
      PROVE  FactoryTypeOK'
  BY <1>4 DEF PrepareDirectly, FilesOf, fileSystem, statics
<1>5. ASSUME NEW t \in Threads, NEW p \in Protocols, GetStateMachine(t, p)
      PROVE  FactoryTypeOK'
  <2>1. CASE msPreparedResourceDir
    BY <1>5, <2>1 DEF GetStateMachine, fileSystem, statics
  <2>2. CASE ~msPreparedResourceDir
    <3>1. pc' \in [Threads -> {"idle", "prepare", "load", "find"}]
      BY <1>5, <2>2 DEF GetStateMachine
    <3>2. at' \in [Threads -> Nat]
      <4>1. at' = [at EXCEPT ![t] = 1]
        BY <1>5, <2>2, Zenon DEF GetStateMachine
      <4> QED BY <4>1
    <3>0. protocol' \in [Threads -> Protocols]
      BY <1>5 DEF GetStateMachine
    <3>3. asRead' \in BOOLEAN
      BY <1>5, <2>2, Zenon DEF GetStateMachine
    <3> QED BY <1>5, <3>0, <3>1, <3>2, <3>3 DEF GetStateMachine, fileSystem, statics
  <2> QED BY <2>1, <2>2
<1>6. ASSUME NEW t \in Threads, NextDirectory(t) PROVE FactoryTypeOK'
  <2>1. at[t] \in DOMAIN msResourceDirs => msResourceDirs[at[t]] \in Dirs
    OBVIOUS
  <2>2. \A d \in Dirs : FilesOf(d) \in SUBSET Protocols
    BY DEF FilesOf
  <2>3. CASE at[t] \in DOMAIN msResourceDirs
    BY <1>6, <2>1, <2>2, <2>3 DEF NextDirectory, fileSystem, statics, history
  <2>4. CASE at[t] \notin DOMAIN msResourceDirs
    BY <1>6, <2>4 DEF NextDirectory, fileSystem, statics, history
  <2> QED BY <2>3, <2>4
<1>7. ASSUME NEW t \in Threads, NEW p \in Protocols, LoadFile(t, p)
      PROVE  FactoryTypeOK'
  <2>1. msStateMachines' \in [Protocols -> Machines \cup {NoMachine}]
    BY <1>7 DEF LoadFile, Registered, Holds
  <2> QED BY <1>7, <2>1 DEF LoadFile, fileSystem, history
<1>8. ASSUME NEW t \in Threads, DirectoryDone(t) PROVE FactoryTypeOK'
  <2>1. pc' \in [Threads -> {"idle", "prepare", "load", "find"}]
    BY <1>8 DEF DirectoryDone
  <2>3. at' \in [Threads -> Nat]
    <3>1. at[t] \in Nat /\ at[t] + 1 \in Nat
      OBVIOUS
    <3>2. at' = at \/ at' = [at EXCEPT ![t] = at[t] + 1]
      BY <1>8, Zenon DEF DirectoryDone
    <3> QED BY <3>1, <3>2
  <2>2. hidden' \in BOOLEAN /\ msPreparedResourceDir' \in BOOLEAN
    <3>1. msPreparedResourceDir' = TRUE
      BY <1>8, Zenon DEF DirectoryDone
    <3>2. hidden' = (hidden \/ ~msPreparedResourceDir) \/ hidden' = hidden
      BY <1>8, Zenon DEF DirectoryDone
    <3> QED BY <3>1, <3>2, Zenon
  <2> QED BY <1>8, <2>1, <2>2, <2>3 DEF DirectoryDone, fileSystem
<1>9. ASSUME NEW t \in Threads, Find(t) PROVE FactoryTypeOK'
  BY <1>9 DEF Find, fileSystem, statics, history
<1>10. ASSUME NEW d \in Dirs, NEW p \in Protocols, NEW m \in Contents,
              ChangeFile(d, p, m)
       PROVE  FactoryTypeOK'
  BY <1>10 DEF ChangeFile, Changed, Contents, statics, calls
<1>11. ASSUME NEW d \in Dirs, MoveDirectory(d) PROVE FactoryTypeOK'
  BY <1>11 DEF MoveDirectory, Changed, statics, calls
<1> QED BY <1>1, <1>2, <1>3, <1>4, <1>5, <1>6, <1>7, <1>8, <1>9, <1>10, <1>11
        DEF Next, Call

\* The list of directories, the machines and the calls keep their types,
\* whichever threads call and whatever changes in the files.
THEOREM FactoryTypes == Spec => []FactoryTypeOK
BY InitTyped, TypeNext, PTL DEF Spec

-----------------------------------------------------------------------------
(* What is kept is found.  A kept protocol that is not known yet is in a   *)
(* file, or in a directory, that the call in progress has still to read;   *)
(* without a call, the factory does not count as prepared.                 *)

KeptListed ==
  \A k \in kept : /\ \E i \in DOMAIN msResourceDirs : msResourceDirs[i] = k[1]
                  /\ Holds(k[1], k[2])

Known(p) == msStateMachines[p] # NoMachine

Due(t, d, p) ==
  \/ /\ pc[t] = "idle" \/ (pc[t] = "load" /\ at[t] = 0)
     /\ ~msPreparedResourceDir
  \/ /\ pc[t] = "prepare"
     /\ \E i \in DOMAIN msResourceDirs : i >= at[t] /\ msResourceDirs[i] = d
  \/ /\ pc[t] = "load"
     /\ at[t] > 0
     /\ \/ \E i \in DOMAIN msResourceDirs : i > at[t] /\ msResourceDirs[i] = d
        \/ dir[t] = d /\ p \in files[t]

FoundOrDue ==
  \A t \in Threads, d \in Dirs, p \in Protocols :
    <<d, p>> \in kept /\ ~hidden => Known(p) \/ Due(t, d, p)

Begun == \A t \in Threads : pc[t] = "prepare" => at[t] > 0

FoundInv == FactoryTypeOK /\ KeptListed /\ FoundOrDue /\ Begun

LEMMA KeptListedNext ==
  ASSUME FactoryTypeOK, KeptListed, [Next]_vars PROVE KeptListed'
<1>1. ASSUME UNCHANGED <<fileSystem, msResourceDirs, kept>> PROVE KeptListed'
  BY <1>1 DEF KeptListed, Holds, fileSystem
<1>2. ASSUME NEW d \in Dirs, NEW dirs \in Seq(Dirs),
             dirs = msResourceDirs \/ dirs = <<>>,
             Added(dirs, d), kept' = KeptIn(dirs, d), UNCHANGED fileSystem
      PROVE  KeptListed'
  <2> SUFFICES ASSUME NEW k \in kept'
               PROVE  /\ \E i \in DOMAIN msResourceDirs' : msResourceDirs'[i] = k[1]
                      /\ Holds(k[1], k[2])
    BY <1>2 DEF KeptListed, Holds, fileSystem
  <2>1. CASE k \in kept /\ k[1] \in Range(dirs)
    <3>1. PICK i \in DOMAIN dirs : dirs[i] = k[1]
      BY <2>1 DEF Range
    <3>2. msResourceDirs' = dirs \/ msResourceDirs' = Append(dirs, d)
      BY <1>2, AddedType
    <3>3. i \in DOMAIN msResourceDirs' /\ msResourceDirs'[i] = k[1]
      BY <3>1, <3>2
    <3> QED BY <2>1, <3>3 DEF KeptListed
  <2>2. CASE k \in {d} \X Protocols /\ d \notin Range(dirs) /\ Holds(d, k[2])
    <3>1. d \in directories /\ k[1] = d
      BY <2>2 DEF Holds
    <3>2. msResourceDirs' = Append(dirs, d)
      BY <1>2, <2>2, <3>1 DEF Added
    <3>3. /\ Len(dirs) + 1 \in DOMAIN msResourceDirs'
          /\ msResourceDirs'[Len(dirs) + 1] = k[1]
      BY <3>1, <3>2
    <3> QED BY <2>2, <3>1, <3>3
  <2> QED BY <1>2, <2>1, <2>2 DEF KeptIn
<1>3. ASSUME Changed PROVE KeptListed'
  BY <1>3 DEF Changed, KeptListed, Holds, statics
<1>4. ASSUME NEW t \in Threads, Call(t) PROVE KeptListed'
  <2>1. ASSUME NEW d \in Dirs, SetProtocolResourceDir(t, d) PROVE KeptListed'
    <3>1. <<>> \in Seq(Dirs)
      OBVIOUS
    <3> QED BY <1>2, <2>1, <3>1 DEF SetProtocolResourceDir
  <2>2. ASSUME NEW d \in Dirs, AddProtocolResourceDir(t, d) PROVE KeptListed'
    <3>1. msResourceDirs \in Seq(Dirs)
      BY DEF FactoryTypeOK
    <3> QED BY <1>2, <2>2, <3>1 DEF AddProtocolResourceDir
  <2> QED BY <1>1, <1>4, <2>1, <2>2
          DEF Call, PrepareDirectly, GetStateMachine, NextDirectory, LoadFile,
              DirectoryDone, Find, statics, history
<1> QED BY <1>1, <1>3, <1>4
        DEF Next, ChangeFile, MoveDirectory, vars, statics, history

LEMMA BegunNext == ASSUME FactoryTypeOK, Begun, [Next]_vars PROVE Begun'
<1>1. ASSUME UNCHANGED <<pc, at>> PROVE Begun'
  BY <1>1 DEF Begun
<1>2. ASSUME NEW t \in Threads, Call(t) PROVE Begun'
  BY <1>2
  DEF Begun, FactoryTypeOK, Call, SetProtocolResourceDir, AddProtocolResourceDir,
      PrepareDirectly, GetStateMachine, NextDirectory, LoadFile, DirectoryDone,
      Find, calls
<1> QED BY <1>1, <1>2
        DEF Next, ChangeFile, MoveDirectory, Changed, vars, calls

LEMMA FoundOrDueNext ==
  ASSUME OneThread, FoundInv, [Next]_vars PROVE FoundOrDue'
<1> USE FactoryAssumption DEF FoundInv
<1>1. ASSUME UNCHANGED <<statics, calls, hidden>>, kept' \subseteq kept
      PROVE  FoundOrDue'
  BY <1>1 DEF FoundOrDue, Known, Due, statics, calls
<1>2. ASSUME NEW t \in Threads, Call(t) PROVE FoundOrDue'
  <2> SUFFICES ASSUME NEW d \in Dirs, NEW p \in Protocols,
                      <<d, p>> \in kept', ~hidden'
               PROVE  Known(p)' \/ Due(t, d, p)'
    BY <1>2 DEF FoundOrDue, OneThread
  <2> USE DEF FactoryTypeOK
  <2>1. <<d, p>> \in kept /\ ~hidden => Known(p) \/ Due(t, d, p)
    BY DEF FoundOrDue
  <2>2. ASSUME NEW e \in Dirs, SetProtocolResourceDir(t, e)
        PROVE  Known(p)' \/ Due(t, d, p)'
    <3>1. e \in directories
      BY <2>2 DEF SetProtocolResourceDir, KeptIn, Range, Holds
    <3>2. msPreparedResourceDir' = FALSE /\ pc'[t] = "idle"
      BY <2>2, <3>1 DEF SetProtocolResourceDir, Added, Range, calls
    <3> QED BY <3>2 DEF Due
  <2>3. ASSUME NEW e \in Dirs, AddProtocolResourceDir(t, e)
        PROVE  Known(p)' \/ Due(t, d, p)'
    <3>1. CASE e \in directories /\ e \notin Range(msResourceDirs)
      <4>1. msPreparedResourceDir' = FALSE /\ pc'[t] = "idle"
        BY <2>3, <3>1 DEF AddProtocolResourceDir, Added, calls
      <4> QED BY <4>1 DEF Due
    <3>2. CASE ~(e \in directories /\ e \notin Range(msResourceDirs))
      <4>1. UNCHANGED <<statics, calls, hidden>> /\ kept' \subseteq kept
        BY <2>3, <3>2
        DEF AddProtocolResourceDir, Added, KeptIn, Holds, statics
      <4> QED BY <1>1, <4>1 DEF FoundOrDue
    <3> QED BY <3>1, <3>2
  <2>4. ASSUME NEW e \in Dirs, PrepareDirectly(t, e)
        PROVE  Known(p)' \/ Due(t, d, p)'
    BY <2>1, <2>4 DEF PrepareDirectly, Known, Due, statics
  <2>5. ASSUME NEW q \in Protocols, GetStateMachine(t, q)
        PROVE  Known(p)' \/ Due(t, d, p)'
    <3>1. CASE msPreparedResourceDir
      BY <2>1, <2>5, <3>1 DEF GetStateMachine, Known, Due, statics
    <3>2. CASE ~msPreparedResourceDir
      <4>1. PICK i \in DOMAIN msResourceDirs : msResourceDirs[i] = d
        BY <2>5 DEF GetStateMachine, KeptListed
      <4>2. pc'[t] = "prepare" /\ at'[t] = 1 /\ msResourceDirs' = msResourceDirs
        BY <2>5, <3>2 DEF GetStateMachine, statics
      <4>3. i >= 1
        OBVIOUS
      <4> QED BY <4>1, <4>2, <4>3 DEF Due
    <3> QED BY <3>1, <3>2
  <2>6. ASSUME NextDirectory(t) PROVE Known(p)' \/ Due(t, d, p)'
    <3>1. CASE at[t] \in DOMAIN msResourceDirs
      <4>1. Holds(d, p)
        BY <2>6 DEF NextDirectory, KeptListed, history
      <4>2. d = msResourceDirs[at[t]] => p \in files'[t] /\ dir'[t] = d
        BY <2>6, <3>1, <4>1, HoldsListed DEF NextDirectory
      <4>3. at'[t] > 0 /\ pc'[t] = "load"
        BY <2>6, <3>1 DEF NextDirectory
      <4> QED BY <2>1, <2>6, <4>2, <4>3
              DEF NextDirectory, Known, Due, statics, history
    <3>2. CASE at[t] \notin DOMAIN msResourceDirs
      BY <2>1, <2>6, <3>2 DEF NextDirectory, Known, Due, Begun, statics, history
    <3> QED BY <3>1, <3>2
  <2>7. ASSUME NEW q \in Protocols, LoadFile(t, q)
        PROVE  Known(p)' \/ Due(t, d, p)'
    <3>1. Known(p) => Known(p)'
      BY <2>7 DEF LoadFile, Registered, Known, Holds
    <3>2. CASE p = q /\ d = dir[t]
      <4>1. Holds(d, p)
        BY <2>7 DEF LoadFile, KeptListed, history
      <4> QED BY <2>7, <3>2, <4>1 DEF LoadFile, Registered, Known, Holds
    <3>3. CASE ~(p = q /\ d = dir[t])
      BY <2>1, <2>7, <3>1, <3>3 DEF LoadFile, Due, history
    <3> QED BY <3>2, <3>3
  <2>8. ASSUME DirectoryDone(t) PROVE Known(p)' \/ Due(t, d, p)'
    <3>1. CASE at[t] = 0
      <4>1. /\ pc[t] = "load" /\ files[t] = {}
            /\ hidden' = (hidden \/ ~msPreparedResourceDir)
            /\ UNCHANGED <<msStateMachines, kept>>
        BY <2>8, <3>1 DEF DirectoryDone
      <4>2. ~hidden /\ msPreparedResourceDir
        BY <4>1, Zenon
      <4>3. ~Due(t, d, p)
        BY <3>1, <4>1, <4>2 DEF Due
      <4> QED BY <2>1, <4>1, <4>2, <4>3, Zenon DEF Known
    <3>2. CASE at[t] > 0
      <4>1. /\ pc[t] = "load" /\ files[t] = {}
            /\ pc'[t] = "prepare" /\ at'[t] = at[t] + 1
            /\ UNCHANGED <<msResourceDirs, msStateMachines, kept, hidden>>
        <5>1. at[t] # 0 /\ at \in [Threads -> Nat]
          BY <3>2
        <5> QED BY <2>8, <5>1 DEF DirectoryDone
      <4>2. CASE Known(p)
        BY <4>1, <4>2 DEF Known
      <4>3. CASE ~Known(p)
        <5>1. ~hidden /\ <<d, p>> \in kept
          BY <4>1, Zenon
        <5>2. Due(t, d, p)
          BY <2>1, <4>3, <5>1, Zenon
        <5>3. PICK i \in DOMAIN msResourceDirs : i > at[t] /\ msResourceDirs[i] = d
          <6>1. pc[t] = "load" /\ at[t] # 0 /\ p \notin files[t]
            BY <3>2, <4>1
          <6> QED BY <5>2, <6>1, Zenon DEF Due
        <5>4. i >= at'[t]
          BY <4>1, <5>3
        <5> QED BY <4>1, <5>3, <5>4 DEF Due
      <4> QED BY <4>2, <4>3
    <3> QED BY <3>1, <3>2
  <2>9. ASSUME Find(t) PROVE Known(p)' \/ Due(t, d, p)'
    BY <2>1, <2>9 DEF Find, Known, Due, statics, history
  <2> QED BY <1>2, <2>2, <2>3, <2>4, <2>5, <2>6, <2>7, <2>8, <2>9 DEF Call
<1> QED BY <1>1, <1>2
        DEF Next, ChangeFile, MoveDirectory, Changed, vars, history

\* A protocol with a file in a directory that could be loaded ever since the
\* directory was added is found: getStateMachine reads all directories before it says there is no
\* such protocol, whenever they were added and whatever happened to other
\* files (if one call at a time is made, and no directory is prepared alone).
THEOREM KeptIsFound == ASSUME OneThread PROVE Spec => []FoundIfKept
<1>1. Init => FoundInv
  <2>1. Init => FactoryTypeOK
    BY InitTyped
  <2>2. Init => KeptListed /\ FoundOrDue /\ Begun
    BY DEF Init, KeptListed, FoundOrDue, Begun
  <2> QED BY <2>1, <2>2 DEF FoundInv
<1>2. FoundInv /\ [Next]_vars => FoundInv'
  BY OneThread, TypeNext, KeptListedNext, BegunNext, FoundOrDueNext DEF FoundInv
<1>3. FoundInv => FoundIfKept
  BY DEF FoundInv, FactoryTypeOK, FoundOrDue, Known, Due, FoundIfKept, Answer
<1> QED BY <1>1, <1>2, <1>3, PTL DEF Spec

-----------------------------------------------------------------------------
(* The directory added last wins.  While the files stay as they were read, *)
(* a machine is that of the last holding directory among those read so far *)
(* - the directory being read counts once its file is loaded.              *)

ReadUpTo(n, p) ==
  \A i \in DOMAIN msResourceDirs :
    /\ i <= n
    /\ Holds(msResourceDirs[i], p)
    /\ \A j \in DOMAIN msResourceDirs :
         i < j /\ j <= n => ~Holds(msResourceDirs[j], p)
    => msStateMachines[p] = content[msResourceDirs[i]][p]

LoadingListed(t) ==
  /\ at[t] > 0
  /\ at[t] \in DOMAIN msResourceDirs
  /\ dir[t] = msResourceDirs[at[t]]
  /\ files[t] \subseteq FilesOf(dir[t])

Progress(t, p) ==
  /\ pc[t] = "prepare" => ReadUpTo(at[t] - 1, p)
  /\ pc[t] = "load" => /\ LoadingListed(t)
                       /\ p \in files[t] => ReadUpTo(at[t] - 1, p)
                       /\ p \notin files[t] => ReadUpTo(at[t], p)
  /\ pc[t] = "find" => ReadUpTo(Len(msResourceDirs), p)
  /\ pc[t] = "idle" /\ msPreparedResourceDir => ReadUpTo(Len(msResourceDirs), p)

ReadSoFar == asRead => \A t \in Threads, p \in Protocols : Progress(t, p)

WinInv == FactoryTypeOK /\ Begun /\ ReadSoFar

\* Nothing is read of no directories, and reading the directory n that does
\* not hold p changes nothing.
LEMMA ReadingOn ==
  ASSUME FactoryTypeOK, NEW p \in Protocols, NEW n \in Nat
  PROVE  /\ ReadUpTo(0, p)
         /\ n >= Len(msResourceDirs) /\ ReadUpTo(n, p)
              => ReadUpTo(Len(msResourceDirs), p)
         /\ n > 0 /\ n \in DOMAIN msResourceDirs /\ ~Holds(msResourceDirs[n], p)
              /\ ReadUpTo(n - 1, p) => ReadUpTo(n, p)
<1> USE DEF FactoryTypeOK
<1>1. ReadUpTo(0, p)
  BY DEF ReadUpTo
<1>2. ASSUME n >= Len(msResourceDirs), ReadUpTo(n, p)
      PROVE  ReadUpTo(Len(msResourceDirs), p)
  <2>1. \A i \in DOMAIN msResourceDirs : i <= n /\ i <= Len(msResourceDirs)
    BY <1>2
  <2> QED BY <1>2, <2>1 DEF ReadUpTo
<1>3. ASSUME n > 0, n \in DOMAIN msResourceDirs, ~Holds(msResourceDirs[n], p),
             ReadUpTo(n - 1, p)
      PROVE  ReadUpTo(n, p)
  <2>1. \A i \in DOMAIN msResourceDirs : i <= n => i = n \/ i <= n - 1
    OBVIOUS
  <2>2. \A j \in DOMAIN msResourceDirs : j <= n - 1 => j <= n
    OBVIOUS
  <2> QED BY <1>3, <2>1, <2>2 DEF ReadUpTo
<1> QED BY <1>1, <1>2, <1>3

\* Once the file of directory n is loaded, n is the last holding directory
\* among the first n.
LEMMA Loaded ==
  ASSUME FactoryTypeOK, NEW p \in Protocols, NEW n \in DOMAIN msResourceDirs,
         Holds(msResourceDirs[n], p), UNCHANGED <<fileSystem, msResourceDirs>>,
         msStateMachines'[p] = content[msResourceDirs[n]][p]
  PROVE  ReadUpTo(n, p)'
<1> USE DEF FactoryTypeOK
<1>1. \A i \in DOMAIN msResourceDirs : i <= n => i = n \/ i < n
  OBVIOUS
<1>2. n <= n
  OBVIOUS
<1> QED BY <1>1, <1>2 DEF ReadUpTo, Holds, fileSystem

LEMMA ReadSoFarNext == ASSUME OneThread, WinInv, [Next]_vars PROVE ReadSoFar'
<1> USE DEF WinInv
<1>1. ASSUME UNCHANGED vars PROVE ReadSoFar'
  BY <1>1
  DEF vars, fileSystem, statics, calls, history, ReadSoFar, Progress, ReadUpTo,
      LoadingListed, FilesOf, HasFile, Holds
<1>2. ASSUME Changed PROVE ReadSoFar'
  BY <1>2, Zenon DEF Changed, ReadSoFar
<1>3. ASSUME NEW t \in Threads, Call(t) PROVE ReadSoFar'
  <2> SUFFICES ASSUME asRead', NEW p \in Protocols PROVE Progress(t, p)'
    BY DEF ReadSoFar, OneThread
  <2> USE DEF FactoryTypeOK
  <2>1. ASSUME asRead' = asRead PROVE Progress(t, p)
    BY <2>1 DEF ReadSoFar
  <2>2. ASSUME NEW e \in Dirs, SetProtocolResourceDir(t, e) PROVE Progress(t, p)'
    <3>1. pc'[t] = "idle"
      BY <2>2 DEF SetProtocolResourceDir, calls
    <3>2. CASE e \in directories
      <4>1. msPreparedResourceDir' = FALSE
        BY <2>2, <3>2 DEF SetProtocolResourceDir, Added, Range
      <4> QED BY <3>1, <4>1 DEF Progress
    <3>3. CASE e \notin directories
      <4>1. msResourceDirs' = <<>>
        BY <2>2, <3>3 DEF SetProtocolResourceDir, Added
      <4>2. ReadUpTo(Len(msResourceDirs), p)'
        BY <4>1 DEF ReadUpTo
      <4> QED BY <3>1, <4>2 DEF Progress
    <3> QED BY <3>2, <3>3
  <2>3. ASSUME NEW e \in Dirs, AddProtocolResourceDir(t, e) PROVE Progress(t, p)'
    <3>1. pc[t] = "idle" /\ pc'[t] = "idle" /\ Progress(t, p)
      BY <2>1, <2>3 DEF AddProtocolResourceDir, calls
    <3>2. CASE e \in directories /\ e \notin Range(msResourceDirs)
      <4>1. msPreparedResourceDir' = FALSE
        BY <2>3, <3>2 DEF AddProtocolResourceDir, Added
      <4> QED BY <3>1, <4>1 DEF Progress
    <3>3. CASE ~(e \in directories /\ e \notin Range(msResourceDirs))
      <4>1. UNCHANGED <<fileSystem, statics>>
        BY <2>3, <3>3 DEF AddProtocolResourceDir, Added, statics
      <4> QED BY <3>1, <4>1 DEF Progress, ReadUpTo, Holds, fileSystem, statics
    <3> QED BY <3>2, <3>3
  <2>4. ASSUME NEW e \in Dirs, PrepareDirectly(t, e) PROVE Progress(t, p)'
    BY <2>4, Zenon DEF PrepareDirectly
  <2>5. ASSUME NEW q \in Protocols, GetStateMachine(t, q) PROVE Progress(t, p)'
    <3>1. CASE msPreparedResourceDir
      <4>1. Progress(t, p)
        BY <2>1, <2>5, <3>1, Zenon DEF GetStateMachine
      <4>2. ReadUpTo(Len(msResourceDirs), p)
        BY <2>5, <3>1, <4>1 DEF GetStateMachine, Progress
      <4>3. pc'[t] = "find" /\ UNCHANGED <<fileSystem, statics>>
        BY <2>5, <3>1 DEF GetStateMachine
      <4> QED BY <4>2, <4>3 DEF Progress, ReadUpTo, Holds, fileSystem, statics
    <3>2. CASE ~msPreparedResourceDir
      <4>1. pc' = [pc EXCEPT ![t] = "prepare"] /\ at' = [at EXCEPT ![t] = 1]
        BY <2>5, <3>2, Zenon DEF GetStateMachine
      <4>2. pc'[t] = "prepare" /\ at'[t] - 1 = 0
        BY <4>1
      <4>3. UNCHANGED <<fileSystem, statics>>
        BY <2>5 DEF GetStateMachine
      <4>4. ReadUpTo(0, p)'
        BY <4>3 DEF ReadUpTo, statics
      <4> QED BY <4>2, <4>4 DEF Progress
    <3> QED BY <3>1, <3>2
  <2>6. ASSUME NextDirectory(t) PROVE Progress(t, p)'
    <3>1. pc[t] = "prepare" /\ Progress(t, p) /\ at[t] \in Nat /\ at[t] > 0
      BY <2>1, <2>6 DEF NextDirectory, history, Begun
    <3>2. ReadUpTo(at[t] - 1, p)
      BY <3>1 DEF Progress
    <3>3. UNCHANGED <<fileSystem, statics, at>>
      BY <2>6 DEF NextDirectory
    <3>4. \A n : ReadUpTo(n, p) => ReadUpTo(n, p)'
      BY <3>3 DEF ReadUpTo, Holds, fileSystem, statics
    <3>5. CASE at[t] \in DOMAIN msResourceDirs
      <4>1. /\ pc'[t] = "load" /\ dir'[t] = msResourceDirs[at[t]]
            /\ files'[t] = FilesOf(msResourceDirs[at[t]])
        BY <2>6, <3>5 DEF NextDirectory
      <4>2. LoadingListed(t)'
        BY <3>1, <3>3, <3>5, <4>1
        DEF LoadingListed, FilesOf, HasFile, fileSystem, statics
      <4>3. p \notin files'[t] => ReadUpTo(at[t], p)
        <5>1. msResourceDirs[at[t]] \in Dirs
          BY <3>5
        <5>2. p \notin files'[t] => ~Holds(msResourceDirs[at[t]], p)
          BY <4>1, <5>1, HoldsListed
        <5> QED BY <3>1, <3>2, <3>5, <5>2, ReadingOn
      <4> QED BY <3>2, <3>3, <3>4, <4>1, <4>2, <4>3 DEF Progress
    <3>6. CASE at[t] \notin DOMAIN msResourceDirs
      <4>1. at[t] - 1 \in Nat /\ at[t] - 1 >= Len(msResourceDirs)
        BY <3>1, <3>6
      <4>2. ReadUpTo(Len(msResourceDirs), p)
        BY <3>2, <4>1, ReadingOn
      <4>3. pc'[t] = "find" /\ msResourceDirs' = msResourceDirs
        BY <2>6, <3>6 DEF NextDirectory, statics
      <4> QED BY <3>4, <4>2, <4>3 DEF Progress
    <3> QED BY <3>5, <3>6
  <2>7. ASSUME NEW q \in Protocols, LoadFile(t, q) PROVE Progress(t, p)'
    <3>1. pc[t] = "load" /\ q \in files[t] /\ Progress(t, p)
      BY <2>1, <2>7 DEF LoadFile, history
    <3>2. LoadingListed(t)
      BY <3>1 DEF Progress
    <3>3. /\ UNCHANGED <<fileSystem, msResourceDirs, pc, dir, at>>
          /\ files'[t] = files[t] \ {q}
          /\ msStateMachines' = IF Holds(dir[t], q)
                                THEN [msStateMachines EXCEPT ![q] = content[dir[t]][q]]
                                ELSE msStateMachines
      BY <2>7 DEF LoadFile, Registered
    <3>4. LoadingListed(t)' /\ pc'[t] = "load"
      BY <3>1, <3>2, <3>3 DEF LoadingListed, FilesOf, HasFile, fileSystem
    <3>5. CASE p = q /\ Holds(dir[t], q)
      <4>1. ReadUpTo(at[t], p)'
        BY <3>2, <3>3, <3>5, Loaded DEF LoadingListed
      <4> QED BY <3>3, <3>4, <3>5, <4>1 DEF Progress
    <3>6. CASE ~(p = q /\ Holds(dir[t], q))
      <4>1. msStateMachines'[p] = msStateMachines[p]
        BY <3>3, <3>6
      <4>2. \A n : ReadUpTo(n, p) => ReadUpTo(n, p)'
        BY <3>3, <4>1 DEF ReadUpTo, Holds, fileSystem
      <4>3. /\ p \in files[t] => ReadUpTo(at[t] - 1, p)
            /\ p \notin files[t] => ReadUpTo(at[t], p)
        BY <3>1 DEF Progress
      <4>4. CASE p # q
        BY <3>3, <3>4, <4>2, <4>3, <4>4 DEF Progress
      <4>5. CASE p = q /\ ~Holds(dir[t], q)
        <5>1. ReadUpTo(at[t], p)
          BY <3>1, <3>2, <4>3, <4>5, ReadingOn DEF LoadingListed
        <5>2. ReadUpTo(at[t], p)'
          BY <3>3, <4>2, <5>1
        <5> QED BY <3>3, <3>4, <4>5, <5>2 DEF Progress
      <4> QED BY <3>6, <4>4, <4>5
    <3> QED BY <3>5, <3>6
  <2>8. ASSUME DirectoryDone(t) PROVE Progress(t, p)'
    <3>1. pc[t] = "load" /\ files[t] = {} /\ Progress(t, p)
      BY <2>1, <2>8 DEF DirectoryDone
    <3>2. at[t] # 0 /\ at[t] \in Nat /\ ReadUpTo(at[t], p)
      BY <3>1 DEF Progress, LoadingListed
    <3>3. pc' = [pc EXCEPT ![t] = "prepare"] /\ at' = [at EXCEPT ![t] = at[t] + 1]
      BY <2>8, <3>2, Zenon DEF DirectoryDone
    <3>4. pc'[t] = "prepare" /\ at'[t] - 1 = at[t]
      BY <3>2, <3>3
    <3>5. UNCHANGED <<fileSystem, msResourceDirs, msStateMachines>>
      BY <2>8 DEF DirectoryDone
    <3>6. \A n : ReadUpTo(n, p) => ReadUpTo(n, p)'
      BY <3>5 DEF ReadUpTo, Holds, fileSystem
    <3> QED BY <3>2, <3>4, <3>6 DEF Progress
  <2>9. ASSUME Find(t) PROVE Progress(t, p)'
    <3>1. pc[t] = "find" /\ Progress(t, p) /\ pc'[t] = "idle"
      BY <2>1, <2>9 DEF Find, history
    <3>2. UNCHANGED <<fileSystem, statics>>
      BY <2>9 DEF Find
    <3> QED BY <3>1, <3>2 DEF Progress, ReadUpTo, Holds, fileSystem, statics
  <2> QED BY <1>3, <2>2, <2>3, <2>4, <2>5, <2>6, <2>7, <2>8, <2>9 DEF Call
<1> QED BY <1>1, <1>2, <1>3 DEF Next, ChangeFile, MoveDirectory

\* What getStateMachine hands out is the machine of the directory added last
\* among those that have the protocol in a file that can be loaded, as long as the files are as they were
\* when the directories were read (one call at a time).
THEOREM LastWins == ASSUME OneThread PROVE Spec => []LastAddedWins
<1>1. Init => WinInv
  BY InitTyped DEF Init, WinInv, Begun, ReadSoFar
<1>2. WinInv /\ [Next]_vars => WinInv'
  BY OneThread, TypeNext, BegunNext, ReadSoFarNext DEF WinInv
<1>3. WinInv => LastAddedWins
  <2> SUFFICES ASSUME WinInv, NEW t \in Threads, pc[t] = "find", asRead,
                      NEW i \in DOMAIN msResourceDirs,
                      Holds(msResourceDirs[i], protocol[t]),
                      \A j \in DOMAIN msResourceDirs :
                        Holds(msResourceDirs[j], protocol[t]) => j <= i
               PROVE  Answer(t) = content[msResourceDirs[i]][protocol[t]]
    BY DEF LastAddedWins
  <2> USE DEF WinInv, FactoryTypeOK
  <2>1. protocol[t] \in Protocols
    OBVIOUS
  <2>2. ReadUpTo(Len(msResourceDirs), protocol[t])
    BY <2>1 DEF ReadSoFar, Progress
  <2>3. i <= Len(msResourceDirs)
    OBVIOUS
  <2>4. \A j \in DOMAIN msResourceDirs : i < j => ~Holds(msResourceDirs[j], protocol[t])
    OBVIOUS
  <2> QED BY <2>2, <2>3, <2>4 DEF ReadUpTo, Answer
<1> QED BY <1>1, <1>2, <1>3, PTL DEF Spec
=============================================================================
