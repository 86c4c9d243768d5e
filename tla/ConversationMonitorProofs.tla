---------------------- MODULE ConversationMonitorProofs ----------------------
(***************************************************************************)
(* What holds of ConversationMonitor for any conversations, messages and   *)
(* protocols: type correctness, that conversations are found by their id,  *)
(* that no two with one id run, that cleanup drops what has ended, and the *)
(* lifecycle of conversations updated through the monitor only.            *)
(***************************************************************************)
EXTENDS ConversationMonitor, ConversationProofs

-----------------------------------------------------------------------------
(* What the monitor's steps do to the objects                              *)

\* The monitor is at work on an update or on a cleanup, not on both.
LEMMA WorkIs ==
  ASSUME MonitorTypeOK
  PROVE  /\ Updating => /\ working.conv \in Handle
                        /\ working.msg \in Traffic
                        /\ ~Cleaning
         /\ Cleaning => /\ working.left \subseteq Key
                        /\ working.ended \subseteq Key
<1> DEFINE W1 == [conv : Handle, msg : Traffic]
           W2 == [left : SUBSET Key, ended : SUBSET Key]
<1>1. working = Nothing \/ working \in W1 \/ working \in W2
  BY DEF MonitorTypeOK, Work
<1>2. \A w \in W1 : /\ w.conv \in Handle /\ w.msg \in Traffic
                    /\ "left" \notin DOMAIN w
  OBVIOUS
<1>3. \A w \in W2 : /\ w.left \subseteq Key /\ w.ended \subseteq Key
                    /\ "msg" \notin DOMAIN w
  OBVIOUS
<1> HIDE DEF W1, W2
<1> QED BY <1>1, <1>2, <1>3 DEF Updating, Cleaning

\* One object is replaced by a well-formed one.
Replaces(h, d) == conv' = [conv EXCEPT ![h] = d] /\ ObjectOK(d)

Setting(h) ==
  \/ \E n \in Plans : SetNumberOfSubConversations(h, n)
  \/ \E p \in ForcedProtocols : SetProtocol(h, p)
  \/ \E id \in ForcedIds : SetConversationId(h, id)
  \/ \E lang \in ForcedLanguages : SetContentLanguage(h, lang)

LEMMA CreateReplaces ==
  ASSUME NEW h \in Handle, NEW id \in ConversationId \cup Handle, Create(h, id)
  PROVE  \E d : d = Fresh(id) /\ Replaces(h, d) /\ ~Live(h)
BY FreshOK DEF Create, Replaces

LEMMA AcceptReplaces ==
  ASSUME IInv, NEW h \in Handle, NEW msg \in Traffic, Accept(h, msg)
  PROVE  \E d : Replaces(h, d) /\ Live(h)
<1>1. /\ garbage \in [Protocol -> BOOLEAN] /\ Owner \in Agent
      /\ msg \in Message /\ ObjectOK(conv[h])
  BY TrafficAssumption DEF IInv, TypeOK, Objects, Accept
<1> QED BY <1>1, AcceptEffect DEF Accept, Replaces

LEMMA RefuseReplaces ==
  ASSUME IInv, NEW h \in Handle, NEW msg \in Traffic, Refuse(h, msg)
  PROVE  \E d : d = Prepared(conv[h], msg) /\ Replaces(h, d) /\ Live(h)
<1>1. /\ garbage \in [Protocol -> BOOLEAN] /\ Owner \in Agent
      /\ msg \in Message /\ ObjectOK(conv[h])
  BY TrafficAssumption DEF IInv, TypeOK, Objects, Refuse
<1> QED BY <1>1, PreparedOK DEF Refuse, Replaces

LEMMA SettingReplaces ==
  ASSUME IInv, NEW h \in Handle, Setting(h)
  PROVE  \E d : /\ Replaces(h, d) /\ Live(h)
                /\ d.machine = conv[h].machine
                /\ d.subs = conv[h].subs
                /\ d.status = conv[h].status
                /\ ForcedIds = {} => d.id = conv[h].id
<1>1. Live(h) /\ ObjectOK(conv[h])
  BY DEF Setting, SetNumberOfSubConversations, SetProtocol, SetConversationId,
         SetContentLanguage, IInv, Objects
<1>2. ASSUME NEW n \in Plans, SetNumberOfSubConversations(h, n)
      PROVE  \E d : /\ Replaces(h, d)
                    /\ d.machine = conv[h].machine
                    /\ d.subs = conv[h].subs
                    /\ d.status = conv[h].status
                    /\ d.id = conv[h].id
  <2>1. PICK d : d = [conv[h] EXCEPT !.planned = n]
    OBVIOUS
  <2>2. n \in Int /\ conv' = [conv EXCEPT ![h] = d]
    BY <1>2, <2>1, TrafficAssumption DEF SetNumberOfSubConversations
  <2>3. d.id = conv[h].id
    BY <1>1, <2>1 DEF ObjectOK, ConversationState
  <2>4. /\ ObjectOK(d)
        /\ d.machine = conv[h].machine
        /\ d.subs = conv[h].subs
        /\ d.status = conv[h].status
    BY <1>1, <2>1, <2>2, SetterOK
  <2> QED BY <2>2, <2>3, <2>4 DEF Replaces
<1>3. ASSUME NEW p \in ForcedProtocols, SetProtocol(h, p)
      PROVE  \E d : /\ Replaces(h, d)
                    /\ d.machine = conv[h].machine
                    /\ d.subs = conv[h].subs
                    /\ d.status = conv[h].status
                    /\ d.id = conv[h].id
  <2>1. PICK d : d = [conv[h] EXCEPT !.proto = p]
    OBVIOUS
  <2>2. p \in Protocol \cup {NoProtocol} /\ conv' = [conv EXCEPT ![h] = d]
    BY <1>3, <2>1, TrafficAssumption DEF SetProtocol
  <2>3. d.id = conv[h].id
    BY <1>1, <2>1 DEF ObjectOK, ConversationState
  <2>4. /\ ObjectOK(d)
        /\ d.machine = conv[h].machine
        /\ d.subs = conv[h].subs
        /\ d.status = conv[h].status
    BY <1>1, <2>1, <2>2, SetterOK
  <2> QED BY <2>2, <2>3, <2>4 DEF Replaces
<1>4. ASSUME NEW id \in ForcedIds, SetConversationId(h, id)
      PROVE  \E d : /\ Replaces(h, d)
                    /\ d.machine = conv[h].machine
                    /\ d.subs = conv[h].subs
                    /\ d.status = conv[h].status
  <2>1. PICK d : d = [conv[h] EXCEPT !.id = id]
    OBVIOUS
  <2>2. id \in ConversationId /\ conv' = [conv EXCEPT ![h] = d]
    BY <1>4, <2>1, TrafficAssumption DEF SetConversationId
  <2>3. /\ ObjectOK(d)
        /\ d.machine = conv[h].machine
        /\ d.subs = conv[h].subs
        /\ d.status = conv[h].status
    BY <1>1, <2>1, <2>2, SetterOK
  <2> QED BY <2>2, <2>3 DEF Replaces
<1>5. ASSUME NEW lang \in ForcedLanguages, SetContentLanguage(h, lang)
      PROVE  \E d : /\ Replaces(h, d)
                    /\ d.machine = conv[h].machine
                    /\ d.subs = conv[h].subs
                    /\ d.status = conv[h].status
                    /\ d.id = conv[h].id
  <2>1. PICK d : d = [conv[h] EXCEPT !.lang = lang]
    OBVIOUS
  <2>2. lang \in Language /\ conv' = [conv EXCEPT ![h] = d]
    BY <1>5, <2>1, TrafficAssumption DEF SetContentLanguage
  <2>3. d.id = conv[h].id
    BY <1>1, <2>1 DEF ObjectOK, ConversationState
  <2>4. /\ ObjectOK(d)
        /\ d.machine = conv[h].machine
        /\ d.subs = conv[h].subs
        /\ d.status = conv[h].status
    BY <1>1, <2>1, <2>2, SetterOK
  <2> QED BY <2>2, <2>3, <2>4 DEF Replaces
<1> QED BY <1>1, <1>2, <1>3, <1>4, <1>5 DEF Setting

\* Objects never vanish, and a replaced one is alive.
LEMMA Living ==
  ASSUME IInv, NEW h \in Handle, NEW d, Replaces(h, d)
  PROVE  /\ conv'[h] = d
         /\ Live(h)'
         /\ \A g \in Handle : g # h => conv'[g] = conv[g]
         /\ \A g \in Handle : Live(g) => Live(g)'
<1>1. /\ conv'[h] = d
      /\ \A g \in Handle : g # h => conv'[g] = conv[g]
  BY DEF Replaces, IInv, TypeOK
<1>2. d # NoConversation
  BY ObjectAssumption DEF Replaces, ObjectOK
<1> QED BY <1>1, <1>2 DEF Live

\* Every step of the monitor and of its users is one of these.
LEMMA StepKinds ==
  ASSUME IInv, MonitorTypeOK, [MonitorNext]_allVars
  PROVE  \/ UNCHANGED vars
         \/ \E h \in Handle, id \in ConversationId \cup Handle : Create(h, id)
         \/ \E h \in Handle, msg \in Traffic : Accept(h, msg) \/ Refuse(h, msg)
         \/ \E h \in Handle : Setting(h)
<1>1. ASSUME NEW h \in Handle, StartConversation(h)
      PROVE  \E id \in ConversationId \cup Handle : Create(h, id)
  BY <1>1 DEF StartConversation, GeneratedId
<1>2. ASSUME NEW h \in Handle, NEW id \in Key, CreateConversation(h, id)
      PROVE  \E i \in ConversationId \cup Handle : Create(h, i)
  <2>1. (IF id = EmptyId THEN GeneratedId(h) ELSE id) \in ConversationId \cup Handle
    BY DEF Key, GeneratedId
  <2> QED BY <1>2, <2>1 DEF CreateConversation
<1>3. ASSUME UpdateConversation
      PROVE  \E h \in Handle, msg \in Traffic : Accept(h, msg) \/ Refuse(h, msg)
  BY <1>3, WorkIs DEF UpdateConversation
<1>4. ASSUME DirectStep
      PROVE  \/ \E h \in Handle, msg \in Traffic : Accept(h, msg) \/ Refuse(h, msg)
             \/ \E h \in Handle : Setting(h)
  BY <1>4, MonitorAssumption DEF DirectStep, DirectUpdate, DirectSetting, Setting
<1> QED BY <1>1, <1>2, <1>3, <1>4
        DEF MonitorNext, MonitorStep, FindConversation, RemoveConversation,
            LookAt, BeginCleanup, FinishCleanup, allVars

LEMMA ObjectsNext ==
  ASSUME IInv, MonitorTypeOK, [MonitorNext]_allVars
  PROVE  IInv' /\ \A g \in Handle : Live(g) => Live(g)'
<1>1. CASE UNCHANGED vars
  BY <1>1, NextInv DEF Live, vars
<1>2. ASSUME NEW h \in Handle, NEW id \in ConversationId \cup Handle, Create(h, id)
      PROVE  IInv' /\ \A g \in Handle : Live(g) => Live(g)'
  BY <1>2, CreateInv, CreateReplaces, Living
<1>3. ASSUME NEW h \in Handle, NEW msg \in Traffic,
             Accept(h, msg) \/ Refuse(h, msg)
      PROVE  IInv' /\ \A g \in Handle : Live(g) => Live(g)'
  <2>1. [Next]_vars
    BY <1>3 DEF Next
  <2> QED BY <1>3, <2>1, NextInv, AcceptReplaces, RefuseReplaces, Living
<1>4. ASSUME NEW h \in Handle, Setting(h)
      PROVE  IInv' /\ \A g \in Handle : Live(g) => Live(g)'
  <2>1. [Next]_vars
    BY <1>4 DEF Next, Setting
  <2> QED BY <1>4, <2>1, NextInv, SettingReplaces, Living
<1> QED BY <1>1, <1>2, <1>3, <1>4, StepKinds

-----------------------------------------------------------------------------
(* The registry.  No conversation is registered twice, no generated id     *)
(* before its conversation exists, and what the holder of the mutex is     *)
(* about to do still fits the registry.                                    *)

LEMMA Inserts ==
  ASSUME NEW k, NEW h, k \notin DOMAIN active, active' = Insert(k, h)
  PROVE  /\ DOMAIN active' = DOMAIN active \cup {k}
         /\ \A l \in DOMAIN active : active'[l] = active[l]
         /\ active'[k] = h
<1>1. PICK f : f = Insert(k, h)
  OBVIOUS
<1>2. f = [l \in DOMAIN active \cup {k} |-> IF l \in DOMAIN active THEN active[l] ELSE h]
  BY <1>1 DEF Insert
<1> QED BY <1>1, <1>2

LEMMA Erased ==
  ASSUME NEW ks
  PROVE  /\ DOMAIN Erase(ks) = DOMAIN active \ ks
         /\ \A l \in DOMAIN active \ ks : Erase(ks)[l] = active[l]
BY DEF Erase

KeysOK ==
  /\ \A k, l \in DOMAIN active : active[k] = active[l] => k = l
  /\ \A k \in DOMAIN active \cap Handle : Live(k)
  /\ EmptyId \in DOMAIN active => EmptyId \in Requested
  /\ Updating => /\ working.msg.id \in DOMAIN active
                 /\ active[working.msg.id] = working.conv
  /\ Cleaning => working.left \cup working.ended \subseteq DOMAIN active

KInv == IInv /\ MonitorTypeOK /\ KeysOK

\* A new conversation is registered, under its id unless that was empty.
Registers(k, h) ==
  /\ working = Nothing
  /\ k \in Key \ DOMAIN active
  /\ k \in Handle => k = h \/ Live(k)
  /\ k = EmptyId => EmptyId \in Requested
  /\ \E id \in ConversationId \cup Handle :
       Create(h, id) /\ (k # EmptyId => id = k)
  /\ active' = Insert(k, h)
  /\ UNCHANGED <<working, closed>>

LEMMA StartRegisters ==
  ASSUME KInv, NEW h \in Handle, StartConversation(h)
  PROVE  Registers(h, h)
<1>1. ~Live(h) /\ Create(h, h)
  BY DEF StartConversation, Create, GeneratedId
<1>2. h \notin DOMAIN active
  BY <1>1 DEF KInv, KeysOK
<1> QED BY <1>1, <1>2, MonitorAssumption
        DEF StartConversation, GeneratedId, Registers, Key

LEMMA CreateRegisters ==
  ASSUME NEW h \in Handle, NEW id \in Key, CreateConversation(h, id)
  PROVE  Registers(id, h)
<1>1. PICK i : i = IF id = EmptyId THEN GeneratedId(h) ELSE id
  OBVIOUS
<1>2. /\ Create(h, i)
      /\ i \in ConversationId \cup Handle
      /\ id # EmptyId => i = id
  BY <1>1 DEF CreateConversation, Key, GeneratedId
<1> QED BY <1>2 DEF CreateConversation, Registers, Known

LEMMA RegistersKeys ==
  ASSUME KInv, NEW h \in Handle, NEW k, Registers(k, h), IInv',
         \A g \in Handle : Live(g) => Live(g)'
  PROVE  MonitorTypeOK' /\ KeysOK'
<1>1. /\ ~Live(h) /\ Live(h)'
      /\ k \in Key \ DOMAIN active
      /\ working = Nothing /\ working' = Nothing
      /\ active' = Insert(k, h) /\ closed' = closed
  BY CreateReplaces, Living DEF Registers, KInv, Create
<1>2. /\ DOMAIN active' = DOMAIN active \cup {k}
      /\ \A l \in DOMAIN active : active'[l] = active[l]
      /\ active'[k] = h
  <2>1. k \notin DOMAIN active /\ active' = Insert(k, h)
    BY <1>1
  <2> QED BY <2>1, Inserts
<1>3. MonitorTypeOK'
  BY <1>1, <1>2 DEF KInv, MonitorTypeOK, IInv
<1>4. \A l \in DOMAIN active : active[l] # h
  BY <1>1 DEF KInv, MonitorTypeOK
<1>5. \A l, n \in DOMAIN active' : active'[l] = active'[n] => l = n
  BY <1>2, <1>4 DEF KInv, KeysOK
<1>6. \A l \in DOMAIN active' \cap Handle : Live(l)'
  BY <1>1, <1>2 DEF KInv, KeysOK, Registers
<1>7. EmptyId \in DOMAIN active' => EmptyId \in Requested
  BY <1>2 DEF KInv, KeysOK, Registers
<1> QED BY <1>1, <1>3, <1>5, <1>6, <1>7 DEF KeysOK, Updating, Cleaning

\* Nothing is registered, and work does not begin.
LEMMA SameKeys ==
  ASSUME KInv, IInv', \A g \in Handle : Live(g) => Live(g)',
         active' = active, closed' = closed, working' \in {working, Nothing}
  PROVE  MonitorTypeOK' /\ KeysOK'
<1>1. MonitorTypeOK'
  BY DEF KInv, MonitorTypeOK, IInv
<1>2. KeysOK'
  BY DEF KInv, KeysOK, Updating, Cleaning
<1> QED BY <1>1, <1>2

\* Keys are erased, when nobody is at work afterwards.
LEMMA FewerKeys ==
  ASSUME KInv, NEW ks, active' = Erase(ks), working' = Nothing,
         closed' \subseteq Handle, UNCHANGED vars
  PROVE  MonitorTypeOK' /\ KeysOK'
<1>1. /\ DOMAIN active' = DOMAIN active \ ks
      /\ \A l \in DOMAIN active' : active'[l] = active[l]
  BY Erased
<1>2. IInv' /\ \A g \in Handle : Live(g)' <=> Live(g)
  BY NextInv DEF KInv, Live, vars
<1>3. MonitorTypeOK'
  BY <1>1, <1>2 DEF KInv, MonitorTypeOK, IInv
<1>4. KeysOK'
  BY <1>1, <1>2 DEF KInv, KeysOK, Updating, Cleaning
<1> QED BY <1>3, <1>4

\* The holder of the mutex makes up its mind.
LEMMA WorkBegun ==
  ASSUME KInv, UNCHANGED vars, active' = active, closed' = closed,
         \/ \E msg \in Traffic :
              /\ msg.id \in DOMAIN active
              /\ working' = [conv |-> active[msg.id], msg |-> msg]
         \/ \E left, ended \in SUBSET DOMAIN active :
              working' = [left |-> left, ended |-> ended]
  PROVE  MonitorTypeOK' /\ KeysOK'
<1>1. IInv' /\ \A g \in Handle : Live(g)' <=> Live(g)
  BY NextInv DEF KInv, Live, vars
<1>2. working' \in Work
  BY DEF Work, KInv, MonitorTypeOK
<1>3. MonitorTypeOK'
  BY <1>1, <1>2 DEF KInv, MonitorTypeOK, IInv
<1>4. /\ Updating' => /\ working'.msg.id \in DOMAIN active
                      /\ active[working'.msg.id] = working'.conv
      /\ Cleaning' => working'.left \cup working'.ended \subseteq DOMAIN active
  <2>1. CASE \E msg \in Traffic :
               /\ msg.id \in DOMAIN active
               /\ working' = [conv |-> active[msg.id], msg |-> msg]
    BY <2>1 DEF Updating, Cleaning
  <2>2. CASE \E left, ended \in SUBSET DOMAIN active :
               working' = [left |-> left, ended |-> ended]
    BY <2>2 DEF Updating, Cleaning
  <2> QED BY <2>1, <2>2
<1>5. KeysOK'
  BY <1>1, <1>4 DEF KInv, KeysOK, Updating, Cleaning
<1> QED BY <1>3, <1>5

LEMMA LookAtWork ==
  ASSUME KInv, NEW k \in Key, LookAt(k)
  PROVE  \E left, ended \in SUBSET DOMAIN active :
           working' = [left |-> left, ended |-> ended]
<1>1. /\ working.left \subseteq DOMAIN active
      /\ working.ended \subseteq DOMAIN active
      /\ k \in working.left
  BY DEF LookAt, KInv, KeysOK
<1> QED BY <1>1 DEF LookAt

LEMMA KInit == MonitorInit => KInv
<1> SUFFICES ASSUME MonitorInit PROVE KInv
  OBVIOUS
<1>1. IInv /\ DOMAIN active = {} /\ working = Nothing /\ closed = {}
  BY InitInv DEF MonitorInit
<1> QED BY <1>1 DEF KInv, MonitorTypeOK, IInv, KeysOK, Updating, Cleaning

LEMMA KNext == KInv /\ [MonitorNext]_allVars => KInv'
<1> SUFFICES ASSUME KInv, [MonitorNext]_allVars
             PROVE  MonitorTypeOK' /\ KeysOK' /\ IInv'
  BY DEF KInv
<1>0. IInv' /\ \A g \in Handle : Live(g) => Live(g)'
  BY ObjectsNext DEF KInv
<1>1. ASSUME NEW h \in Handle, StartConversation(h)
      PROVE  MonitorTypeOK' /\ KeysOK'
  BY <1>0, <1>1, StartRegisters, RegistersKeys
<1>2. ASSUME NEW h \in Handle, NEW id \in Key, CreateConversation(h, id)
      PROVE  MonitorTypeOK' /\ KeysOK'
  BY <1>0, <1>2, CreateRegisters, RegistersKeys
<1>3. ASSUME NEW msg \in Traffic, FindConversation(msg)
      PROVE  MonitorTypeOK' /\ KeysOK'
  BY <1>3, WorkBegun DEF FindConversation
<1>4. ASSUME UpdateConversation
      PROVE  MonitorTypeOK' /\ KeysOK'
  BY <1>0, <1>4, SameKeys DEF UpdateConversation
<1>5. ASSUME NEW id \in Key, RemoveConversation(id)
      PROVE  MonitorTypeOK' /\ KeysOK'
  <2>1. closed' \subseteq Handle
    BY <1>5 DEF RemoveConversation, KInv, MonitorTypeOK
  <2> QED BY <1>5, <2>1, FewerKeys DEF RemoveConversation
<1>6. ASSUME NEW id \in Key, LookAt(id)
      PROVE  MonitorTypeOK' /\ KeysOK'
  BY <1>6, LookAtWork, WorkBegun DEF LookAt
<1>7. ASSUME BeginCleanup
      PROVE  MonitorTypeOK' /\ KeysOK'
  <2>1. \E left, ended \in SUBSET DOMAIN active :
          working' = [left |-> left, ended |-> ended]
    BY <1>7 DEF BeginCleanup
  <2> QED BY <1>7, <2>1, WorkBegun DEF BeginCleanup
<1>8. ASSUME FinishCleanup
      PROVE  MonitorTypeOK' /\ KeysOK'
  <2>1. closed' \subseteq Handle
    BY <1>8 DEF FinishCleanup, KInv, MonitorTypeOK
  <2> QED BY <1>8, <2>1, FewerKeys DEF FinishCleanup
<1>9. ASSUME DirectStep
      PROVE  MonitorTypeOK' /\ KeysOK'
  <2>1. UNCHANGED monitorVars
    BY <1>9 DEF DirectStep, DirectUpdate, DirectSetting
  <2> QED BY <1>0, <2>1, SameKeys DEF monitorVars
<1>10. CASE UNCHANGED allVars
  <2>1. UNCHANGED monitorVars
    BY <1>10 DEF allVars
  <2> QED BY <1>0, <2>1, SameKeys DEF monitorVars
<1> QED BY <1>0, <1>1, <1>2, <1>3, <1>4, <1>5, <1>6, <1>7, <1>8, <1>9, <1>10
        DEF MonitorNext, MonitorStep

LEMMA MonitorInvariance == MonitorSpec => []KInv
BY KInit, KNext, PTL DEF MonitorSpec

\* The monitor never holds a pointer to nothing, and what it is about to do,
\* found under its mutex, still makes sense when it does it, whatever is
\* done meanwhile to the conversations by those who hold them: for any
\* messages, protocols and settings.
THEOREM MonitorTypeCorrect == MonitorSpec => []MonitorTypeOK
<1>1. KInv => MonitorTypeOK
  BY DEF KInv
<1> QED BY <1>1, MonitorInvariance, PTL

-----------------------------------------------------------------------------
(* What the monitor does to conversations, anybody may do to them.         *)

LEMMA MonitorStepIsStep ==
  ASSUME KInv, [MonitorNext]_allVars
  PROVE  [Next]_vars
<1>1. ASSUME NEW h \in Handle, StartConversation(h) PROVE Next
  BY <1>1 DEF StartConversation, Next, IdSources
<1>2. ASSUME NEW h \in Handle, NEW id \in Key, CreateConversation(h, id)
      PROVE  Next
  <2>1. PICK i : i = IF id = EmptyId THEN GeneratedId(h) ELSE id
    OBVIOUS
  <2>2. /\ Create(h, i)
        /\ i \in ConversationId \cup {GeneratedId(g) : g \in IdSources(h)}
    BY <1>2, <2>1 DEF CreateConversation, Key, Known, GeneratedId, IdSources
  <2> QED BY <2>2 DEF Next
<1>3. ASSUME UpdateConversation PROVE Next
  <2>1. \E h \in Handle, msg \in Traffic : Accept(h, msg) \/ Refuse(h, msg)
    BY <1>3, WorkIs DEF UpdateConversation, KInv
  <2> QED BY <2>1 DEF Next
<1>4. ASSUME DirectStep PROVE Next
  BY <1>4, MonitorAssumption DEF DirectStep, DirectUpdate, DirectSetting, Next
<1> QED BY <1>1, <1>2, <1>3, <1>4
        DEF MonitorNext, MonitorStep, FindConversation, RemoveConversation,
            LookAt, BeginCleanup, FinishCleanup, allVars

\* The conversations of a monitor, with whatever is done to them directly,
\* are conversations: every theorem about Conversation holds of them.
THEOREM MonitorImplementsConversation == MonitorSpec => Spec
<1>1. MonitorInit => Init
  BY DEF MonitorInit
<1>2. KInv /\ [MonitorNext]_allVars => [Next]_vars
  BY MonitorStepIsStep
<1> QED BY <1>1, <1>2, MonitorInvariance, PTL DEF MonitorSpec, Spec

-----------------------------------------------------------------------------
(* The id under which a conversation is found.  It holds of conversations  *)
(* that only the monitor updates and whose id nobody forces.               *)

\* c goes by the id k, and was opened with it.
IdIs(c, k) ==
  /\ c.id = k
  /\ c.machine # NoMachine /\ c.machine.init # NoMessage => c.machine.init.id = k

LEMMA PreparedId ==
  ASSUME garbage \in [Protocol -> BOOLEAN], Owner \in Agent,
         NEW c, ObjectOK(c), NEW msg \in Message, IdIs(c, msg.id)
  PROVE  IdIs(Prepared(c, msg), msg.id)
<1>1. CASE c.proto = NoProtocol /\ msg.proto \in Protocol
  <2>1. PICK m : m = NewMachine(msg.proto, Owner, garbage)
    OBVIOUS
  <2>2. m.init = NoMessage
    BY <2>1 DEF NewMachine
  <2>3. Prepared(c, msg).id = msg.id /\ Prepared(c, msg).machine = m
    BY <1>1, <2>1 DEF Prepared, ObjectOK, ConversationState
  <2> QED BY <2>2, <2>3 DEF IdIs
<1>2. CASE ~(c.proto = NoProtocol /\ msg.proto \in Protocol)
  BY <1>2 DEF Prepared
<1> QED BY <1>1, <1>2

\* Whatever consumes the message, the machine is opened by it or was opened
\* before.
LEMMA ConsumedInit ==
  ASSUME NEW c, ObjectOK(c), NEW msg \in Message, NEW r \in Consumed(c, msg)
  PROVE  r.machine.init \in {c.machine.init, msg}
<1>1. c.machine # NoMachine /\ WellFormed(c.machine) /\ c.machine \in Machine
  BY DEF Consumed, ObjectOK, WellFormed
<1>2. CASE msg.proto = c.proto
  <2>1. PICK m \in ConsumeMessage(c.machine, msg) :
          r = [machine |-> m, subs |-> SubsOf(c)]
    BY <1>1, <1>2 DEF Consumed
  <2> QED BY <1>1, <2>1, ConsumeMessageGrows DEF Grown
<1>3. CASE msg.proto # c.proto
  <2>1. r \in ConsumeSubMessage(c.machine, SubsOf(c), msg, c.planned, garbage)
    BY <1>1, <1>3 DEF Consumed
  <2> QED BY <1>1, <2>1, SubMessageSame
<1> QED BY <1>2, <1>3

\* An update through a conversation's own id leaves it that id.
LEMMA UpdateKeepsId ==
  ASSUME IInv, NEW h \in Handle, NEW msg \in Traffic,
         Accept(h, msg) \/ Refuse(h, msg), IdIs(conv[h], msg.id)
  PROVE  IdIs(conv'[h], msg.id)
<1>0. /\ garbage \in [Protocol -> BOOLEAN] /\ Owner \in Agent
      /\ msg \in Message /\ ObjectOK(conv[h])
  BY TrafficAssumption DEF IInv, TypeOK, Objects, Accept, Refuse
<1>1. PICK c : c = Prepared(conv[h], msg)
  OBVIOUS
<1>2. IdIs(c, msg.id) /\ ObjectOK(c)
  BY <1>0, <1>1, PreparedId, PreparedOK
<1>3. CASE Accept(h, msg)
  <2>1. PICK r \in Consumed(c, msg) :
          conv' = [conv EXCEPT ![h] = [Stored(c, r) EXCEPT !.status =
                     StatusAfter(Classify(Stored(c, r), conv[h].proto = NoProtocol))]]
    BY <1>1, <1>3 DEF Accept, AcceptInto
  <2>2. PICK d : d = [Stored(c, r) EXCEPT !.status =
                        StatusAfter(Classify(Stored(c, r), conv[h].proto = NoProtocol))]
    OBVIOUS
  <2>3. conv'[h] = d
    BY <2>1, <2>2 DEF IInv, TypeOK
  <2>4. d.id = c.id /\ d.machine = r.machine
    BY <1>2, <2>2 DEF Stored, ObjectOK, ConversationState
  <2>5. r.machine.init \in {c.machine.init, msg} /\ c.machine # NoMachine
    BY <1>0, <1>2, ConsumedInit DEF Consumed
  <2> QED BY <1>2, <2>3, <2>4, <2>5 DEF IdIs
<1>4. CASE Refuse(h, msg)
  <2>1. conv'[h] = c
    BY <1>1, <1>4 DEF Refuse, IInv, TypeOK
  <2> QED BY <1>2, <2>1
<1> QED BY <1>3, <1>4

\* The monitor as the only one who updates and names conversations.
OnlyThroughMonitor == DirectTraffic = {} /\ ForcedIds = {}

LEMMA SettingKeepsId ==
  ASSUME IInv, ForcedIds = {}, NEW h \in Handle, Setting(h), NEW g \in Handle
  PROVE  /\ conv'[g].id = conv[g].id
         /\ conv'[g].machine = conv[g].machine
         /\ conv'[g].subs = conv[g].subs
         /\ Live(g)' <=> Live(g)
<1>1. PICK d : /\ Replaces(h, d) /\ Live(h)
               /\ d.machine = conv[h].machine
               /\ d.subs = conv[h].subs
               /\ d.id = conv[h].id
  BY SettingReplaces
<1> QED BY <1>1, Living DEF Live

\* A step of the monitor and its users, as far as the registered
\* conversations tell steps apart.
RegistryStep ==
  \/ \E h \in Handle, k \in Key : Registers(k, h)
  \/ \E ks \in SUBSET Key : UNCHANGED vars /\ active' = Erase(ks)
  \/ UNCHANGED <<vars, active>>
  \/ UpdateConversation
  \/ \E h \in Handle : Setting(h) /\ UNCHANGED monitorVars

LEMMA RegistrySteps ==
  ASSUME KInv, DirectTraffic = {}, [MonitorNext]_allVars
  PROVE  RegistryStep
<1>1. ASSUME NEW h \in Handle, StartConversation(h) PROVE RegistryStep
  BY <1>1, StartRegisters DEF RegistryStep, Key
<1>2. ASSUME NEW h \in Handle, NEW id \in Key, CreateConversation(h, id)
      PROVE  RegistryStep
  BY <1>2, CreateRegisters DEF RegistryStep
<1>3. ASSUME NEW id \in Key, RemoveConversation(id) PROVE RegistryStep
  BY <1>3 DEF RemoveConversation, RegistryStep
<1>4. ASSUME FinishCleanup PROVE RegistryStep
  <2>1. working.ended \subseteq Key
    BY <1>4, WorkIs DEF FinishCleanup, KInv
  <2> QED BY <1>4, <2>1 DEF FinishCleanup, RegistryStep
<1>5. ASSUME DirectStep PROVE RegistryStep
  BY <1>5 DEF DirectStep, DirectSetting, Setting, RegistryStep
<1> QED BY <1>1, <1>2, <1>3, <1>4, <1>5
        DEF MonitorNext, MonitorStep, FindConversation, LookAt, BeginCleanup,
            allVars, monitorVars, RegistryStep

LEMMA FoundNext ==
  ASSUME OnlyThroughMonitor, KInv, FoundByItsId, [MonitorNext]_allVars
  PROVE  FoundByItsId'
<1> SUFFICES ASSUME NEW k \in DOMAIN active', k # EmptyId
             PROVE  IdIs(conv'[active'[k]], k)
  BY DEF FoundByItsId, IdIs
<1>0. /\ \A l \in DOMAIN active \ {EmptyId} : IdIs(conv[active[l]], l)
      /\ \A l \in DOMAIN active : active[l] \in Handle /\ Live(active[l])
      /\ IInv
  BY DEF FoundByItsId, IdIs, KInv, MonitorTypeOK
<1>1. ASSUME NEW h \in Handle, NEW n \in Key, Registers(n, h)
      PROVE  IdIs(conv'[active'[k]], k)
  <2>1. /\ DOMAIN active' = DOMAIN active \cup {n}
        /\ \A l \in DOMAIN active : active'[l] = active[l]
        /\ active'[n] = h
    <3>1. n \notin DOMAIN active /\ active' = Insert(n, h)
      BY <1>1 DEF Registers
    <3> QED BY <3>1, Inserts
  <2>2. PICK id \in ConversationId \cup Handle :
          Create(h, id) /\ (n # EmptyId => id = n)
    BY <1>1 DEF Registers
  <2>3. PICK d : d = Fresh(id) /\ Replaces(h, d) /\ ~Live(h)
    BY <2>2, CreateReplaces
  <2>4. conv'[h] = d /\ \A g \in Handle : g # h => conv'[g] = conv[g]
    BY <1>0, <2>3, Living
  <2>5. CASE k = n
    <3>1. d.id = k /\ d.machine = NoMachine
      BY <2>2, <2>3, <2>5 DEF Fresh
    <3> QED BY <2>1, <2>4, <2>5, <3>1 DEF IdIs
  <2>6. CASE k # n
    BY <1>0, <2>1, <2>3, <2>4, <2>6
  <2> QED BY <2>5, <2>6
<1>2. ASSUME NEW ks \in SUBSET Key, UNCHANGED vars, active' = Erase(ks)
      PROVE  IdIs(conv'[active'[k]], k)
  BY <1>0, <1>2, Erased DEF vars
<1>3. CASE UNCHANGED <<vars, active>>
  BY <1>0, <1>3 DEF vars
<1>4. ASSUME UpdateConversation
      PROVE  IdIs(conv'[active'[k]], k)
  <2>1. PICK h, msg : h = working.conv /\ msg = working.msg
    OBVIOUS
  <2>2. /\ h \in Handle /\ msg \in Traffic
        /\ Accept(h, msg) \/ Refuse(h, msg)
        /\ active[msg.id] = h /\ msg.id \in DOMAIN active
        /\ active' = active
    BY <1>4, <2>1, WorkIs DEF UpdateConversation, KInv, KeysOK
  <2>3. CASE active[k] = h
    <3>1. k = msg.id
      BY <2>2, <2>3 DEF KInv, KeysOK
    <3> QED BY <1>0, <2>2, <2>3, <3>1, UpdateKeepsId
  <2>4. CASE active[k] # h
    <3>1. conv'[active[k]] = conv[active[k]]
      BY <1>0, <2>2, <2>4, AcceptReplaces, RefuseReplaces, Living
    <3> QED BY <1>0, <2>2, <3>1
  <2> QED BY <2>3, <2>4
<1>5. ASSUME NEW h \in Handle, Setting(h), UNCHANGED monitorVars
      PROVE  IdIs(conv'[active'[k]], k)
  <2>1. active' = active
    BY <1>5 DEF monitorVars
  <2> QED BY <1>0, <1>5, <2>1, SettingKeepsId DEF IdIs, OnlyThroughMonitor
<1>6. RegistryStep
  BY RegistrySteps DEF OnlyThroughMonitor
<1> QED BY <1>1, <1>2, <1>3, <1>4, <1>5, <1>6 DEF RegistryStep

\* A conversation that the monitor finds under an id has that id and was
\* opened by a message of that id: an update through the monitor gives a
\* conversation no other id than the one it is registered under.
THEOREM MonitorFindsItsId ==
  ASSUME OnlyThroughMonitor
  PROVE  MonitorSpec => []FoundByItsId
<1>1. MonitorInit => FoundByItsId
  BY DEF MonitorInit, FoundByItsId
<1>2. KInv /\ FoundByItsId /\ [MonitorNext]_allVars => FoundByItsId'
  BY FoundNext
<1> QED BY <1>1, <1>2, MonitorInvariance, PTL DEF MonitorSpec

-----------------------------------------------------------------------------
(* Cleanup.  What was found ended is still ended when it is erased.        *)

EndedFound ==
  Cleaning => \A k \in working.ended : Ended(conv[active[k]])

\* Nothing that has ended goes on while the monitor cleans up.
EndedStays ==
  Cleaning => \A g \in Handle : Live(g) /\ Ended(conv[g]) => Ended(conv'[g])

LEMMA EndedFoundNext ==
  ASSUME KInv, EndedFound, EndedStays, [MonitorNext]_allVars
  PROVE  EndedFound'
<1>0. /\ Cleaning => \A k \in working.ended :
           /\ k \in DOMAIN active
           /\ active[k] \in Handle /\ Live(active[k])
           /\ Ended(conv[active[k]])
      /\ Updating => ~Cleaning
  BY WorkIs DEF KInv, KeysOK, MonitorTypeOK, EndedFound
<1>1. ASSUME working' = working, active' = active
      PROVE  EndedFound'
  BY <1>0, <1>1 DEF EndedFound, EndedStays, Cleaning
<1>2. ASSUME NEW h \in Handle, NEW k \in Key, Registers(k, h)
      PROVE  EndedFound'
  BY <1>2 DEF Registers, EndedFound, Cleaning
<1>3. ASSUME NEW k \in Key, LookAt(k)
      PROVE  EndedFound'
  <2>1. \A g \in Handle : conv'[g] = conv[g]
    BY <1>3 DEF LookAt, vars
  <2>2. /\ working'.ended =
             working.ended \cup {l \in {k} : Ended(conv[active[l]])}
        /\ active' = active /\ conv' = conv /\ Cleaning
    BY <1>3 DEF LookAt, vars
  <2> QED BY <1>0, <2>2 DEF EndedFound
<1>4. ASSUME BeginCleanup PROVE EndedFound'
  BY <1>4 DEF BeginCleanup, EndedFound
<1>5. ASSUME NEW msg \in Traffic, FindConversation(msg) PROVE EndedFound'
  BY <1>5 DEF FindConversation, EndedFound, Cleaning
<1>6. ASSUME UpdateConversation \/ FinishCleanup PROVE EndedFound'
  BY <1>6 DEF UpdateConversation, FinishCleanup, EndedFound, Cleaning
<1>7. ASSUME NEW k \in Key, RemoveConversation(k) PROVE EndedFound'
  BY <1>7 DEF RemoveConversation, EndedFound, Cleaning
<1>8. ASSUME DirectStep PROVE EndedFound'
  BY <1>1, <1>8 DEF DirectStep, DirectUpdate, DirectSetting, monitorVars
<1>9. CASE UNCHANGED allVars
  BY <1>1, <1>9 DEF allVars, monitorVars
<1> QED BY <1>2, <1>3, <1>4, <1>5, <1>6, <1>7, <1>8, <1>9, StartRegisters,
           CreateRegisters DEF MonitorNext, MonitorStep, Key

\* What cleanup drops is what it found ended.
LEMMA DropsFound ==
  ASSUME KInv, EndedFound, [MonitorNext]_allVars, Cleaning, working' = Nothing,
         NEW k \in DOMAIN active \ DOMAIN active'
  PROVE  Ended(conv[active[k]])
<1>1. working # Nothing /\ ~Updating
  BY WorkIs DEF Cleaning, KInv
<1>2. active' # active
  OBVIOUS
<1>3. FinishCleanup
  BY <1>1, <1>2
  DEF MonitorNext, MonitorStep, StartConversation, CreateConversation,
      FindConversation, UpdateConversation, RemoveConversation, LookAt,
      BeginCleanup, DirectStep, DirectUpdate, DirectSetting, monitorVars, allVars
<1>4. k \in working.ended
  BY <1>3, Erased DEF FinishCleanup
<1> QED BY <1>4 DEF EndedFound

\* Settings do not touch what hasEnded() reads.
LEMMA SettingKeepsEnd ==
  ASSUME IInv, NEW h \in Handle, Setting(h), NEW g \in Handle
  PROVE  Ended(conv'[g]) <=> Ended(conv[g])
<1>1. PICK d : /\ Replaces(h, d)
               /\ d.machine = conv[h].machine
               /\ d.subs = conv[h].subs
  BY SettingReplaces
<1> QED BY <1>1, Living DEF Ended, SubsOf

\* Nobody updates a conversation behind the monitor's back.
LEMMA StaysAlone ==
  ASSUME DirectTraffic = {}, KInv, [MonitorNext]_allVars
  PROVE  EndedStays
<1> SUFFICES ASSUME Cleaning, NEW g \in Handle, Ended(conv[g])
             PROVE  Ended(conv'[g])
  BY DEF EndedStays
<1>1. working # Nothing /\ ~Updating
  BY WorkIs DEF Cleaning, KInv
<1>2. CASE UNCHANGED vars
  BY <1>2 DEF vars
<1>3. CASE \E h \in Handle : Setting(h)
  BY <1>3, SettingKeepsEnd DEF KInv
<1>4. UNCHANGED vars \/ \E h \in Handle : Setting(h)
  <2>1. RegistryStep
    BY RegistrySteps
  <2> QED BY <1>1, <2>1 DEF RegistryStep, Registers, UpdateConversation
<1> QED BY <1>2, <1>3, <1>4

\* The steps of the monitor and its users are steps of the conversations as
\* far as status and event tell them apart.
LEMMA MonitorStatusStep ==
  ASSUME NoProtocol \notin ForcedProtocols, SInv, MonitorTypeOK,
         [MonitorNext]_allVars
  PROVE  StatusStep
<1>1. CASE UNCHANGED vars
  BY <1>1 DEF vars, StatusStep
<1>2. ASSUME NEW h \in Handle, NEW id \in ConversationId \cup Handle, Create(h, id)
      PROVE  StatusStep
  BY <1>2, CreateBears DEF StatusStep
<1>3. ASSUME NEW h \in Handle, NEW msg \in Traffic, Accept(h, msg)
      PROVE  StatusStep
  BY <1>3, AcceptAnnounces DEF StatusStep
<1>4. ASSUME NEW h \in Handle, NEW msg \in Traffic, Refuse(h, msg)
      PROVE  StatusStep
  BY <1>4, RefuseChanges DEF StatusStep
<1>5. ASSUME NEW h \in Handle, Setting(h)
      PROVE  StatusStep
  BY <1>5, SettersChange DEF StatusStep, Setting
<1> QED BY <1>1, <1>2, <1>3, <1>4, <1>5, StepKinds DEF SInv

LEMMA MonitorSInv ==
  ASSUME NoProtocol \notin ForcedProtocols
  PROVE  MonitorSpec => [](KInv /\ SInv)
<1>1. MonitorInit => SInv
  BY InitInv DEF MonitorInit, Init, SInv, Live, NoEvent
<1>2. KInv /\ SInv /\ [MonitorNext]_allVars => SInv'
  BY MonitorStatusStep, SInvNext, ObjectsNext DEF KInv
<1> QED BY <1>1, <1>2, MonitorInvariance, PTL DEF MonitorSpec

\* No protocol in use goes on after a final state: what has ended accepts
\* nothing from whomever.
LEMMA StaysForGood ==
  ASSUME EndIsFinal, NoProtocol \notin ForcedProtocols,
         KInv, SInv, [MonitorNext]_allVars
  PROVE  EndedStays
<1> SUFFICES ASSUME NEW g \in Handle, Live(g), Ended(conv[g])
             PROVE  Ended(conv'[g])
  BY DEF EndedStays
<1>0. /\ ObjectOK(conv[g]) /\ conv[g].machine # NoMachine
      /\ conv[g].proto # NoProtocol
  BY DEF SInv, IInv, Objects, Kept, ProtocolKept, Ended
<1>1. AtDeadEnd(conv[g].machine)
  <2>1. /\ conv[g].machine.cur \in FinalStatesOf(conv[g].machine.proto)
        /\ conv[g].machine.proto \in Protocol
    BY <1>0 DEF Ended, InFinalState, ObjectOK, WellFormed, Machine
  <2> QED BY <2>1 DEF AtDeadEnd, EndIsFinal
<1>2. ASSUME NEW h \in Handle, NEW d, Replaces(h, d), h # g
      PROVE  Ended(conv'[g])
  BY <1>2, Living DEF KInv
<1>3. ASSUME NEW h \in Handle, NEW id \in ConversationId \cup Handle, Create(h, id)
      PROVE  Ended(conv'[g])
  BY <1>2, <1>3, CreateReplaces
<1>4. ASSUME NEW h \in Handle, NEW msg \in Traffic, Accept(h, msg)
      PROVE  Ended(conv'[g])
  <2>1. PICK d, e : Announced(h, conv[h], d, e)
    BY <1>4, AcceptAnnounces
  <2>2. h # g
    BY <1>0, <1>1, <2>1 DEF Announced, Notified
  <2> QED BY <1>2, <1>4, <2>2, AcceptReplaces DEF KInv
<1>5. ASSUME NEW h \in Handle, NEW msg \in Traffic, Refuse(h, msg)
      PROVE  Ended(conv'[g])
  <2>1. CASE h = g
    <3>1. conv' = [conv EXCEPT ![g] = conv[g]]
      BY <1>0, <1>5, <2>1 DEF Refuse, Prepared
    <3>2. conv'[g] = conv[g]
      BY <3>1 DEF KInv, IInv, TypeOK
    <3> QED BY <3>2
  <2>2. CASE h # g
    BY <1>2, <1>5, <2>2, RefuseReplaces DEF KInv
  <2> QED BY <2>1, <2>2
<1>6. ASSUME NEW h \in Handle, Setting(h)
      PROVE  Ended(conv'[g])
  BY <1>6, SettingKeepsEnd DEF KInv
<1>7. CASE UNCHANGED vars
  BY <1>7 DEF vars
<1> QED BY <1>3, <1>4, <1>5, <1>6, <1>7, StepKinds DEF KInv

\* Whatever is done to the conversations between the test and the erasure,
\* cleanup() drops only what is over: if no one else updates them, with any
\* protocols; with others who do, if no protocol goes on after its end.
THEOREM CleanupDropsOnlyEnded ==
  ASSUME \/ DirectTraffic = {}
         \/ EndIsFinal /\ NoProtocol \notin ForcedProtocols
  PROVE  MonitorSpec => CleanupDropsEnded
<1>1. MonitorInit => EndedFound
  BY DEF MonitorInit, EndedFound, Cleaning
<1>2. KInv /\ EndedFound /\ [MonitorNext]_allVars =>
        [Cleaning /\ working' = Nothing =>
           \A k \in DOMAIN active \ DOMAIN active' : Ended(conv[active[k]])]_allVars
  BY DropsFound
<1>3. CASE DirectTraffic = {}
  <2>1. KInv /\ EndedFound /\ [MonitorNext]_allVars => EndedFound'
    BY <1>3, StaysAlone, EndedFoundNext
  <2> QED BY <1>1, <1>2, <2>1, MonitorInvariance, PTL
          DEF MonitorSpec, CleanupDropsEnded
<1>4. CASE EndIsFinal /\ NoProtocol \notin ForcedProtocols
  <2>1. KInv /\ SInv /\ EndedFound /\ [MonitorNext]_allVars => EndedFound'
    BY <1>4, StaysForGood, EndedFoundNext
  <2>2. MonitorSpec => [](KInv /\ SInv)
    BY <1>4, MonitorSInv
  <2> QED BY <1>1, <1>2, <2>1, <2>2, PTL DEF MonitorSpec, CleanupDropsEnded
<1> QED BY <1>3, <1>4

-----------------------------------------------------------------------------
(* An id is used for one running conversation.                             *)

\* A conversation leaves the registry only after its end or when the user
\* closes it.
Registered ==
  \A h \in Handle : Live(h) =>
    \/ h \in closed
    \/ Ended(conv[h])
    \/ conv[h].id \in DOMAIN active /\ active[conv[h].id] = h

RInv == KInv /\ FoundByItsId /\ EndedFound /\ Registered

LEMMA RegisteredNext ==
  ASSUME OnlyThroughMonitor, EmptyId \notin Requested, RInv,
         [MonitorNext]_allVars, KInv', FoundByItsId'
  PROVE  Registered'
<1> SUFFICES ASSUME NEW g \in Handle, Live(g)', g \notin closed',
                    ~Ended(conv'[g])
             PROVE  conv'[g].id \in DOMAIN active' /\ active'[conv'[g].id] = g
  BY DEF Registered
<1>0. IInv /\ KInv /\ EmptyId \notin DOMAIN active
  BY DEF RInv, KInv, KeysOK
<1>1. ASSUME NEW h \in Handle, NEW k \in Key, Registers(k, h)
      PROVE  conv'[g].id \in DOMAIN active' /\ active'[conv'[g].id] = g
  <2>1. /\ DOMAIN active' = DOMAIN active \cup {k}
        /\ \A l \in DOMAIN active : active'[l] = active[l]
        /\ active'[k] = h
        /\ k # EmptyId
        /\ closed' = closed
    <3>1. k \notin DOMAIN active /\ active' = Insert(k, h) /\ closed' = closed
      BY <1>1 DEF Registers
    <3>2. k # EmptyId
      BY <1>0, <1>1 DEF Registers, RInv, KInv, KeysOK
    <3> QED BY <3>1, <3>2, Inserts
  <2>2. PICK d : /\ d = Fresh(k) /\ Replaces(h, d) /\ ~Live(h)
    BY <1>1, <2>1, CreateReplaces DEF Registers
  <2>3. conv'[h] = d /\ \A f \in Handle : f # h => conv'[f] = conv[f]
    BY <1>0, <2>2, Living
  <2>4. CASE g = h
    <3>1. d.id = k
      BY <2>2 DEF Fresh
    <3> QED BY <2>1, <2>3, <2>4, <3>1
  <2>5. CASE g # h
    <3>1. conv'[g] = conv[g]
      BY <2>3, <2>5
    <3> QED BY <2>1, <3>1 DEF RInv, Registered, Live
  <2> QED BY <2>4, <2>5
<1>2. ASSUME UpdateConversation
      PROVE  conv'[g].id \in DOMAIN active' /\ active'[conv'[g].id] = g
  <2>1. PICK h, msg : h = working.conv /\ msg = working.msg
    OBVIOUS
  <2>2. /\ h \in Handle /\ msg \in Traffic
        /\ Accept(h, msg) \/ Refuse(h, msg)
        /\ active[msg.id] = h /\ msg.id \in DOMAIN active
        /\ active' = active /\ closed' = closed
    BY <1>2, <2>1, <1>0, WorkIs DEF UpdateConversation, KInv, KeysOK
  <2>3. CASE g = h
    <3>1. conv'[h].id = msg.id
      BY <1>0, <2>2 DEF FoundByItsId
    <3> QED BY <2>2, <2>3, <3>1
  <2>4. CASE g # h
    <3>1. conv'[g] = conv[g]
      BY <1>0, <2>2, <2>4, AcceptReplaces, RefuseReplaces, Living
    <3> QED BY <2>2, <3>1 DEF RInv, Registered, Live
  <2> QED BY <2>3, <2>4
<1>3. ASSUME NEW h \in Handle, Setting(h), UNCHANGED monitorVars
      PROVE  conv'[g].id \in DOMAIN active' /\ active'[conv'[g].id] = g
  <2>1. /\ active' = active /\ closed' = closed
        /\ conv'[g].id = conv[g].id /\ Live(g) /\ ~Ended(conv[g])
    BY <1>0, <1>3, SettingKeepsId, SettingKeepsEnd
    DEF monitorVars, OnlyThroughMonitor
  <2> QED BY <2>1 DEF RInv, Registered
<1>4. ASSUME NEW k \in Key, RemoveConversation(k)
      PROVE  conv'[g].id \in DOMAIN active' /\ active'[conv'[g].id] = g
  <2>1. /\ conv' = conv /\ active[k] # g /\ g \notin closed
        /\ active' = Erase({k})
    BY <1>4 DEF RemoveConversation, vars
  <2>2. conv[g].id \in DOMAIN active /\ active[conv[g].id] = g
    BY <2>1 DEF RInv, Registered, Live
  <2> QED BY <2>1, <2>2, Erased
<1>5. ASSUME FinishCleanup
      PROVE  conv'[g].id \in DOMAIN active' /\ active'[conv'[g].id] = g
  <2>1. /\ conv' = conv /\ closed' = closed
        /\ active' = Erase(working.ended)
        /\ \A k \in working.ended : Ended(conv[active[k]])
    BY <1>5 DEF FinishCleanup, vars, RInv, EndedFound
  <2>2. conv[g].id \in DOMAIN active /\ active[conv[g].id] = g
    BY <2>1 DEF RInv, Registered, Live
  <2> QED BY <2>1, <2>2, Erased
<1>6. ASSUME UNCHANGED <<vars, active, closed>>
      PROVE  conv'[g].id \in DOMAIN active' /\ active'[conv'[g].id] = g
  BY <1>6 DEF vars, RInv, Registered, Live
<1>7. ASSUME DirectStep
      PROVE  conv'[g].id \in DOMAIN active' /\ active'[conv'[g].id] = g
  BY <1>3, <1>7 DEF DirectStep, DirectSetting, Setting, OnlyThroughMonitor
<1> QED BY <1>0, <1>1, <1>2, <1>3, <1>4, <1>5, <1>6, <1>7, StartRegisters,
           CreateRegisters
        DEF MonitorNext, MonitorStep, FindConversation, LookAt, BeginCleanup,
            allVars, monitorVars, Key

LEMMA RegisteredInvariance ==
  ASSUME OnlyThroughMonitor, EmptyId \notin Requested
  PROVE  MonitorSpec => []RInv
<1>1. MonitorInit => FoundByItsId /\ EndedFound /\ Registered
  BY DEF MonitorInit, Init, FoundByItsId, EndedFound, Cleaning, Registered, Live
<1>2. RInv /\ KInv' /\ [MonitorNext]_allVars => RInv'
  BY FoundNext, StaysAlone, EndedFoundNext, RegisteredNext
  DEF RInv, OnlyThroughMonitor
<1> QED BY <1>1, <1>2, MonitorInvariance, PTL DEF MonitorSpec, RInv

\* Of two conversations with one id only one can still be running and open,
\* for any messages, requests, removals and cleanups: a conversation leaves
\* the registry, and frees its id, only when it has ended or was closed.
THEOREM OneRunsPerId ==
  ASSUME OnlyThroughMonitor, EmptyId \notin Requested
  PROVE  MonitorSpec => []OneRunningPerId
<1>1. RInv => OneRunningPerId
  BY DEF RInv, Registered, OneRunningPerId
<1> QED BY <1>1, RegisteredInvariance, PTL

-----------------------------------------------------------------------------
(* The lifecycle of conversations that only the monitor updates.           *)

\* What was found running is still running when it is updated.
StillRuns == Updating => ~Ended(conv[working.conv])

LEMMA StillRunsNext ==
  ASSUME DirectTraffic = {}, KInv, StillRuns, [MonitorNext]_allVars
  PROVE  StillRuns'
<1>1. ASSUME NEW msg \in Traffic, FindConversation(msg) PROVE StillRuns'
  <2>1. /\ conv' = conv /\ ~Ended(conv[active[msg.id]])
        /\ working' = [conv |-> active[msg.id], msg |-> msg]
    BY <1>1 DEF FindConversation, vars
  <2> QED BY <2>1 DEF StillRuns
<1>2. CASE working' = working
  <2>1. Updating => working.conv \in Handle /\ working # Nothing /\ ~Cleaning
    BY WorkIs DEF Updating, KInv
  <2>2. CASE ~Updating
    BY <1>2, <2>2 DEF StillRuns, Updating
  <2>3. CASE Updating
    <3>1. CASE UNCHANGED vars
      BY <1>2, <3>1 DEF StillRuns, vars, Updating
    <3>2. CASE \E h \in Handle : Setting(h)
      BY <1>2, <2>1, <3>2, SettingKeepsEnd DEF StillRuns, Updating, KInv
    <3>3. UpdateConversation => FALSE
      BY <1>2, <2>1, <2>3 DEF UpdateConversation
    <3>4. RegistryStep
      BY RegistrySteps
    <3> QED BY <2>1, <2>3, <3>1, <3>2, <3>3, <3>4 DEF RegistryStep, Registers
  <2> QED BY <2>2, <2>3
<1>3. CASE working' = Nothing
  BY <1>3 DEF StillRuns, Updating
<1>4. ASSUME NEW left, NEW ended, working' = [left |-> left, ended |-> ended]
      PROVE  StillRuns'
  BY <1>4 DEF StillRuns, Updating
<1> QED BY <1>1, <1>2, <1>3, <1>4
        DEF MonitorNext, MonitorStep, StartConversation, CreateConversation,
            UpdateConversation, RemoveConversation, LookAt, BeginCleanup,
            FinishCleanup, DirectStep, DirectUpdate, DirectSetting, allVars,
            monitorVars

MInv == KInv /\ SInv /\ StillRuns

LEMMA MonitoredInvariance ==
  ASSUME DirectTraffic = {}, NoProtocol \notin ForcedProtocols
  PROVE  MonitorSpec => []MInv
<1>1. MonitorInit => StillRuns
  BY DEF MonitorInit, StillRuns, Updating
<1>2. MInv /\ [MonitorNext]_allVars => StillRuns'
  BY StillRunsNext DEF MInv
<1> QED BY <1>1, <1>2, MonitorSInv, PTL DEF MonitorSpec, MInv

LEMMA MonitoredStep ==
  ASSUME DirectTraffic = {}, NoProtocol \notin ForcedProtocols,
         MInv, [MonitorNext]_allVars
  PROVE  \/ StatusSeen(conv') = StatusSeen(conv) /\ event' = event
         \/ \E h \in Handle :
              /\ StatusSeen(conv)[h] = "ABSENT"
              /\ StatusSeen(conv') =
                   [StatusSeen(conv) EXCEPT ![h] = "UNINITIALIZED"]
              /\ event' = event
         \/ \E h \in Handle, e \in EventType, s \in {"RUNNING", "ENDED", "FAILED"} :
              /\ Lifecycle!Leads(e, s)
              /\ e = "START_OF_CONVERSATION" =>
                   StatusSeen(conv)[h] \in {"ABSENT", "UNINITIALIZED"}
              /\ StatusSeen(conv)[h] # "FAILED"
              /\ StatusSeen(conv)[h] # "ENDED"
              /\ StatusSeen(conv') = [StatusSeen(conv) EXCEPT ![h] = s]
              /\ event' = [event EXCEPT ![h] = e]
<1>0. SInv /\ KInv /\ StillRuns
  BY DEF MInv
<1>1. CASE UNCHANGED vars
  BY <1>1 DEF vars
<1>2. ASSUME NEW h \in Handle, NEW id \in ConversationId \cup Handle, Create(h, id)
      PROVE  /\ StatusSeen(conv)[h] = "ABSENT"
             /\ StatusSeen(conv') =
                  [StatusSeen(conv) EXCEPT ![h] = "UNINITIALIZED"]
             /\ event' = event
  BY <1>0, <1>2, CreateBears, BornSeen
<1>3. ASSUME NEW h \in Handle, NEW d, Changed(h, d)
      PROVE  StatusSeen(conv') = StatusSeen(conv) /\ event' = event
  BY <1>0, <1>3, ChangedSeen
<1>4. ASSUME NEW h \in Handle, NEW msg \in Traffic, Accept(h, msg),
             ~Ended(conv[h])
      PROVE  \E e \in EventType, s \in {"RUNNING", "ENDED", "FAILED"} :
               /\ Lifecycle!Leads(e, s)
               /\ e = "START_OF_CONVERSATION" =>
                    StatusSeen(conv)[h] \in {"ABSENT", "UNINITIALIZED"}
               /\ StatusSeen(conv)[h] # "FAILED"
               /\ StatusSeen(conv)[h] # "ENDED"
               /\ StatusSeen(conv') = [StatusSeen(conv) EXCEPT ![h] = s]
               /\ event' = [event EXCEPT ![h] = e]
  <2>1. PICK d, e : Announced(h, conv[h], d, e)
    BY <1>0, <1>4, AcceptAnnounces
  <2>2. StatusSeen(conv)[h] # "ENDED"
    <3>1. Live(h) /\ StatusOfMachine(conv[h])
      BY <1>0, <1>4 DEF Accept, SInv, Kept
    <3>2. conv[h].status # "ENDED"
      BY <1>4, <3>1 DEF StatusOfMachine, StatusByMachine
    <3> QED BY <3>1, <3>2, SeenOf DEF Live
  <2> QED BY <1>0, <2>1, <2>2, AnnouncedSeen
<1>5. UpdateConversation =>
        \E h \in Handle, msg \in Traffic :
          (Accept(h, msg) /\ ~Ended(conv[h])) \/ Refuse(h, msg)
  BY <1>0, WorkIs DEF UpdateConversation, StillRuns, KInv
<1>6. RegistryStep
  BY <1>0, RegistrySteps
<1>7. \/ UNCHANGED vars
      \/ \E h \in Handle, id \in ConversationId \cup Handle : Create(h, id)
      \/ \E h \in Handle, msg \in Traffic : Accept(h, msg) /\ ~Ended(conv[h])
      \/ \E h \in Handle : \E d : Changed(h, d)
  BY <1>0, <1>5, <1>6, RefuseChanges, SettersChange
  DEF RegistryStep, Registers, Setting
<1> QED BY <1>1, <1>2, <1>3, <1>4, <1>7

\* A conversation that only the monitor updates ends for good, even with a
\* protocol that provides a way out of its final state: between the test of
\* hasEnded() and the update nothing can end it or reopen it.
THEOREM MonitoredImplementsLifecycle ==
  ASSUME DirectTraffic = {}, NoProtocol \notin ForcedProtocols
  PROVE  MonitorSpec => MonitoredLifecycleSpec
<1>1. MonitorInit => MonitoredLifecycle!Init
  BY DEF MonitorInit, Init, MonitoredLifecycle!Init, Live, NoEvent
<1>2. MInv /\ [MonitorNext]_allVars =>
        [MonitoredLifecycle!Next]_(MonitoredLifecycle!vars)
  BY MonitoredStep
  DEF MonitoredLifecycle!Next, MonitoredLifecycle!vars,
      MonitoredLifecycle!Create, MonitoredLifecycle!Notify, StatusSeen, Live,
      EventType, Lifecycle!Leads, MonitoredLifecycle!Leads
<1> QED BY <1>1, <1>2, MonitoredInvariance, PTL
        DEF MonitorSpec, MonitoredLifecycleSpec, MonitoredLifecycle!Spec
=============================================================================
