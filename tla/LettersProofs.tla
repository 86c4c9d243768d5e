--------------------------- MODULE LettersProofs ----------------------------
(***************************************************************************)
(* What holds of a letter for any agents, messages and texts and any number *)
(* of operations and transmissions in either representation.               *)
(***************************************************************************)
EXTENDS EnvelopeProofs

-----------------------------------------------------------------------------
(* Stamps survive their way.                                               *)

(* A letter that was sent, read and passed on.                             *)
Deliver(r) ==
  /\ Deserializable(letter, r)
  /\ letter' = Transmitted(letter, r)
  /\ sentAs' = r
  /\ UNCHANGED <<stampCounter, steps, stamps, latest, shadowed, plain>>

\* Any other letter stays as it is.
LEMMA DeliveredOrNot ==
  ASSUME NEW r, Transmit(r) PROVE Deliver(r) \/ UNCHANGED vars
BY DEF Transmit, Deliver, vars

Overlays(s) == s \in Seq(Range(s)) /\ \A i \in DOMAIN s : Overlay(s[i])

WellMade ==
  /\ DOMAIN letter = {"base", "extra", "payload"}
  /\ Overlays(letter.extra)
  /\ stamps \in Seq(Range(stamps))
  /\ stampCounter \in Nat

KnownInv == WellMade /\ StampsKnown

\* One more envelope brings one more stamp, or none.
LEMMA LaidOver ==
  ASSUME NEW s, Overlays(s), NEW env, Overlay(env), NEW a
  PROVE  /\ Overlays(Append(s, env))
         /\ (\E i \in DOMAIN Append(s, env) :
               Stamped(Append(s, env)[i]) /\ StampedBy(Append(s, env)[i]) = a)
            <=> \/ \E i \in DOMAIN s : Stamped(s[i]) /\ StampedBy(s[i]) = a
                \/ Stamped(env) /\ StampedBy(env) = a
<1> DEFINE t == Append(s, env)
<1>1. /\ t \in Seq(Range(t))
      /\ DOMAIN t = DOMAIN s \cup {Len(s) + 1}
      /\ \A i \in DOMAIN s : t[i] = s[i]
      /\ t[Len(s) + 1] = env
  BY Appended DEF Overlays
<1> HIDE DEF t
<1>2. Overlays(t)
  BY <1>1 DEF Overlays
<1>3. (\E i \in DOMAIN t : Stamped(t[i]) /\ StampedBy(t[i]) = a)
      <=> \/ \E i \in DOMAIN s : Stamped(s[i]) /\ StampedBy(s[i]) = a
          \/ Stamped(env) /\ StampedBy(env) = a
  BY <1>1
<1> QED BY <1>2, <1>3 DEF t

\* An operation that lays no stamp over the letter.
LEMMA UnstampedStep ==
  ASSUME KnownInv, UNCHANGED <<stampCounter, stamps>>,
         DOMAIN letter' = {"base", "extra", "payload"},
         \/ letter'.extra = letter.extra
         \/ \E f \in Field \ {"RECEIVED_OBJECT"} : \E v :
              letter'.extra = Append(letter.extra, Set(NewEnvelope, f, v))
  PROVE  KnownInv'
<1> USE DEF KnownInv, WellMade
<1>1. CASE letter'.extra = letter.extra
  BY <1>1 DEF StampsKnown, HasStamp
<1>2. ASSUME NEW f \in Field \ {"RECEIVED_OBJECT"}, NEW v,
             letter'.extra = Append(letter.extra, Set(NewEnvelope, f, v))
      PROVE  KnownInv'
  <2> DEFINE env == Set(NewEnvelope, f, v)
  <2>1. ~Stamped(env) /\ Overlay(env)
    BY NewUnstamped
  <2> HIDE DEF env
  <2>2. letter'.extra = Append(letter.extra, env)
    BY <1>2 DEF env
  <2>3. Overlays(letter'.extra)
    BY <2>1, <2>2, LaidOver
  <2>4. ASSUME NEW a \in Agents PROVE HasStamp(letter', a) <=> HasStamp(letter, a)
    BY <2>1, <2>2, LaidOver DEF HasStamp, Stamped, StampedBy
  <2> QED BY <2>3, <2>4 DEF StampsKnown
<1> QED BY <1>1, <1>2

LEMMA StampStep ==
  ASSUME KnownInv, NEW agent \in Agents, StampLetter(agent) PROVE KnownInv'
<1> USE DEF KnownInv, WellMade
<1> DEFINE receipt == Receipt(agent, stampCounter + 1)
           env == Set(NewEnvelope, "RECEIVED_OBJECT", receipt)
<1>1. receipt.by = agent /\ receipt.id = stampCounter + 1
  BY DEF Receipt, NoReceipt
<1>2. Stamped(env) /\ StampedBy(env) = agent
  BY <1>1 DEF Set, NewEnvelope, Field, Stamped, StampedBy
<1>3. /\ letter' = [letter EXCEPT !.extra = Append(@, env)]
      /\ stampCounter' = stampCounter + 1
      /\ stamps' = Append(stamps, receipt)
  BY <1>1 DEF StampLetter, Stamp, AddExtraEnvelope
<1> HIDE DEF env, receipt
<1>4. letter'.extra = Append(letter.extra, env) /\ DOMAIN letter' = DOMAIN letter
  BY <1>3
<1>5. Overlays(letter'.extra)
  BY <1>2, <1>4, LaidOver DEF Overlay
<1>6. /\ stamps' \in Seq(Range(stamps'))
      /\ DOMAIN stamps' = DOMAIN stamps \cup {Len(stamps) + 1}
      /\ \A i \in DOMAIN stamps : stamps'[i] = stamps[i]
      /\ stamps'[Len(stamps) + 1] = receipt
  BY <1>3, Appended
<1>7. receipt.id > 0
  BY <1>1
<1>8. ASSUME NEW a \in Agents
      PROVE  HasStamp(letter', a) <=>
               \E i \in DOMAIN stamps' : stamps'[i].by = a /\ stamps'[i].id > 0
  <2>1. HasStamp(letter', a) <=> HasStamp(letter, a) \/ agent = a
    BY <1>2, <1>4, LaidOver DEF HasStamp, Stamped, StampedBy, Overlay
  <2>2. (\E i \in DOMAIN stamps' : stamps'[i].by = a /\ stamps'[i].id > 0)
          <=> (\E i \in DOMAIN stamps : stamps[i].by = a /\ stamps[i].id > 0)
                \/ agent = a
    BY <1>1, <1>6, <1>7
  <2> QED BY <2>1, <2>2 DEF StampsKnown
<1>9. StampsKnown'
  BY <1>8 DEF StampsKnown
<1>10. WellMade'
  <2>1. stampCounter' \in Nat
    BY <1>3
  <2> QED BY <1>4, <1>5, <1>6, <2>1
<1> QED BY <1>9, <1>10

\* The base envelope's own receipt has no id and is looked for by nobody.
LEMMA StampBaseStep ==
  ASSUME KnownInv, NEW agent \in Agents, NEW via, StampBaseEnvelope(agent, via)
  PROVE  KnownInv'
<1> USE DEF KnownInv, WellMade
<1> DEFINE receipt == [Receipt(agent, 0) EXCEPT !.via = via]
<1>1. receipt.id = 0
  BY DEF Receipt, NoReceipt
<1>2. /\ letter' = [letter EXCEPT !.base = Set(@, "RECEIVED_OBJECT", receipt)]
      /\ stamps' = Append(stamps, receipt)
      /\ stampCounter' = stampCounter
  BY DEF StampBaseEnvelope
<1> HIDE DEF receipt
<1>3. letter'.extra = letter.extra /\ DOMAIN letter' = DOMAIN letter
  BY <1>2
<1>4. /\ stamps' \in Seq(Range(stamps'))
      /\ DOMAIN stamps' = DOMAIN stamps \cup {Len(stamps) + 1}
      /\ \A i \in DOMAIN stamps : stamps'[i] = stamps[i]
      /\ stamps'[Len(stamps) + 1] = receipt
  BY <1>2, Appended
<1>5. ASSUME NEW a \in Agents
      PROVE  (\E i \in DOMAIN stamps' : stamps'[i].by = a /\ stamps'[i].id > 0)
               <=> \E i \in DOMAIN stamps : stamps[i].by = a /\ stamps[i].id > 0
  BY <1>1, <1>4
<1> QED BY <1>2, <1>3, <1>4, <1>5 DEF StampsKnown, HasStamp

LEMMA DeliverStep ==
  ASSUME KnownInv, NEW r, Deliver(r) PROVE KnownInv'
<1> USE DEF KnownInv, WellMade
<1>1. /\ letter'.extra = [i \in DOMAIN letter.extra |-> SentEnvelope(letter.extra[i], r)]
      /\ DOMAIN letter' = {"base", "extra", "payload"}
      /\ UNCHANGED <<stampCounter, stamps>>
  BY DEF Deliver, Transmitted
<1>2. \A i \in DOMAIN letter.extra :
        letter'.extra[i] = SentEnvelope(letter.extra[i], r)
  BY <1>1
<1>3. DOMAIN letter'.extra = DOMAIN letter.extra
  BY <1>1
<1>4. letter'.extra \in Seq(Range(letter'.extra))
  <2>1. DOMAIN letter.extra = 1..Len(letter.extra) /\ Len(letter.extra) \in Nat
    BY DEF Overlays
  <2>2. \A i \in 1..Len(letter.extra) :
          SentEnvelope(letter.extra[i], r) \in Range(letter'.extra)
    BY <1>2, <1>3, <2>1 DEF Range
  <2> QED BY <1>1, <2>1, <2>2
<1>5. \A i \in DOMAIN letter.extra : Overlay(letter.extra[i])
  BY DEF Overlays
<1>6. Overlays(letter'.extra)
  BY <1>2, <1>3, <1>4, <1>5, SentKeepsStamp DEF Overlays
<1>7. ASSUME NEW a \in Agents PROVE HasStamp(letter', a) <=> HasStamp(letter, a)
  BY <1>2, <1>3, <1>5, SentKeepsStamp DEF HasStamp, Stamped, StampedBy
<1> QED BY <1>1, <1>6, <1>7 DEF StampsKnown

LEMMA KnownNext == ASSUME KnownInv, [Next]_vars PROVE KnownInv'
<1>0. DOMAIN letter = {"base", "extra", "payload"}
  BY DEF KnownInv, WellMade
<1>1. CASE UNCHANGED vars
  BY <1>1, <1>0, UnstampedStep DEF vars
<1>2. ASSUME NEW m \in Messages, NEW r, InsertMessage(m, r) PROVE KnownInv'
  BY <1>2, UnstampedStep DEF InsertMessage, Insert
<1>3. ASSUME EditBase PROVE KnownInv'
  <2>1. letter'.extra = letter.extra /\ DOMAIN letter' = DOMAIN letter
    BY <1>0, <1>3 DEF EditBase
  <2> QED BY <1>0, <1>3, <2>1, UnstampedStep DEF EditBase
<1>4. ASSUME NEW c, Comment(c) PROVE KnownInv'
  <2>1. /\ letter'.extra = Append(letter.extra, Set(NewEnvelope, "COMMENTS", c))
        /\ DOMAIN letter' = DOMAIN letter
    BY <1>0, <1>4 DEF Comment, AddExtraEnvelope
  <2>2. "COMMENTS" \in Field \ {"RECEIVED_OBJECT"}
    BY DEF Field
  <2> QED BY <1>0, <1>4, <2>1, <2>2, UnstampedStep DEF Comment
<1>5. ASSUME NEW r, Reencode(r) PROVE KnownInv'
  <2>1. /\ letter'.extra = Append(letter.extra, Set(NewEnvelope, "ACL_REPRESENTATION", r))
        /\ DOMAIN letter' = DOMAIN letter
    BY <1>0, <1>5 DEF Reencode, AddExtraEnvelope
  <2>2. "ACL_REPRESENTATION" \in Field \ {"RECEIVED_OBJECT"}
    BY DEF Field
  <2> QED BY <1>0, <1>5, <2>1, <2>2, UnstampedStep DEF Reencode
<1>6. ASSUME NEW a \in Agents, Dedicate(a) PROVE KnownInv'
  <2>1. /\ letter'.extra = Append(letter.extra, Set(NewEnvelope, "INTENDED_RECEIVERS", <<a>>))
        /\ DOMAIN letter' = DOMAIN letter
    BY <1>0, <1>6 DEF Dedicate, CreateDedicatedEnvelope, AddExtraEnvelope
  <2>2. "INTENDED_RECEIVERS" \in Field \ {"RECEIVED_OBJECT"}
    BY DEF Field
  <2> QED BY <1>0, <1>6, <2>1, <2>2, UnstampedStep DEF Dedicate
<1> QED BY <1>1, <1>2, <1>3, <1>4, <1>5, <1>6, StampStep, StampBaseStep,
           DeliverStep, DeliveredOrNot DEF Next

LEMMA KnownInit == Init => KnownInv
<1>1. <<>> \in Seq(Range(<<>>)) /\ DOMAIN <<>> = {}
  OBVIOUS
<1> QED BY <1>1 DEF Init, KnownInv, WellMade, Overlays, StampsKnown, HasStamp, NewLetter

\* An agent finds its stamp on a letter exactly if it has stamped the letter:
\* however many services lay envelopes over it, and however often and in
\* whichever representation it is sent, a loop is found out.
THEOREM StampsStay == Spec => []StampsKnown
<1>1. Init => KnownInv
  BY KnownInit
<1>2. KnownInv => StampsKnown
  BY DEF KnownInv
<1> QED BY <1>1, <1>2, KnownNext, PTL DEF Spec

-----------------------------------------------------------------------------
(* The letter tells what it was last told.                                 *)

Settable == Tracked \ {"TRANSPORT_BEHAVIOUR"}

(* What XML makes of a text is a version of it, and so is what it makes of *)
(* that; none of them is empty.                                            *)
LEMMA SameVersion == ASSUME NEW f, NEW v PROVE v \in Versions(f, v)
BY DEF Versions, XMLVersions

LEMMA NextVersion ==
  ASSUME NEW f \in TextElement, NEW v, NEW w \in Versions(f, v), w \in DOMAIN AsElement,
         AsElement[w] # UnreadableText
  PROVE  AsElement[w] \in Versions(f, v)
<1>1. v \in DOMAIN AsElement /\ w \in XMLVersions[v]
  BY DEF Versions
<1>2. AsElement[w] \in DOMAIN AsElement
  BY ReadText
<1>3. ASSUME NEW T \in SUBSET DOMAIN AsElement, v \in T,
             \A u \in T : AsElement[u] \in T \cup {UnreadableText}
      PROVE  AsElement[w] \in T
  <2>1. w \in T
    BY <1>1, <1>3 DEF XMLVersions
  <2> QED BY <1>3, <2>1
<1>4. AsElement[w] \in XMLVersions[v]
  BY <1>1, <1>2, <1>3 DEF XMLVersions
<1> QED BY <1>1, <1>4 DEF Versions

LEMMA NoEmptyVersion ==
  ASSUME NEW f \in TextElement, NEW v, v # "", NEW w \in Versions(f, v)
  PROVE  w # ""
<1>1. CASE v \notin DOMAIN AsElement
  BY <1>1 DEF Versions
<1>2. CASE v \in DOMAIN AsElement
  <2> DEFINE T == DOMAIN AsElement \ {""}
  <2>1. \A u \in T : AsElement[u] \in T \cup {UnreadableText}
    BY ReadText
  <2>2. w \in XMLVersions[v] /\ v \in T /\ T \in SUBSET DOMAIN AsElement
    BY <1>2 DEF Versions
  <2> HIDE DEF T
  <2>3. w \in T
    BY <1>2, <2>1, <2>2 DEF XMLVersions
  <2> QED BY <2>3 DEF T
<1> QED BY <1>1, <1>2

(* The texts in a letter are ones whose reading is known.                  *)
TextsKnown == \A env \in Envelopes(letter) : KnownTexts(env)

\* Texts that could be read are known as well.
LEMMA SentTexts ==
  ASSUME NEW env, KnownTexts(env), NEW r, r = "XML" => XMLReadable(XMLParameters(env))
  PROVE  KnownTexts(SentEnvelope(env, r)) /\ KnownTexts(SentBaseEnvelope(env, r))
<1>1. ASSUME NEW f \in TextElement \cap env.set, r = "XML" => Carried(env.val[f], f)
      PROVE  ReadAs(r, f, env.val[f]) \in DOMAIN AsElement
  <2>1. CASE r = "XML"
    <3>1. f \in DOMAIN XMLParameters(env) /\ XMLParameters(env)[f] = env.val[f]
      BY <1>1, <2>1 DEF XMLParameters, TextElement, Carried
    <3>2. AsElement[env.val[f]] # UnreadableText /\ env.val[f] \in DOMAIN AsElement
      BY <2>1, <3>1 DEF XMLReadable, KnownTexts
    <3> QED BY <2>1, <3>2, ReadText DEF ReadAs
  <2>2. CASE r # "XML"
    BY <2>2 DEF ReadAs, KnownTexts
  <2> QED BY <2>1, <2>2
<1>2. \A f \in TextElement : f # "ACL_REPRESENTATION"
  BY DEF TextElement
<1>3. KnownTexts(SentEnvelope(env, r))
  BY <1>1, TextFields, SentTells DEF KnownTexts
<1>4. KnownTexts(SentBaseEnvelope(env, r))
  BY <1>1, <1>2, TextFields, SentBaseTells DEF KnownTexts
<1> QED BY <1>3, <1>4

InsertedNames == {"TO", "INTENDED_RECEIVERS", "FROM", "ACL_REPRESENTATION",
                  "PAYLOAD_LENGTH", "PAYLOAD_ENCODING", "DATE"}

(* The transport behaviour, which the XML writer leaves out, is never set; *)
(* a field that no insertion or edit set is as in a new envelope, but for  *)
(* the addressees, which are added to without being set.                   *)
BaseMade ==
  /\ DOMAIN letter.base = {"set", "val"} /\ DOMAIN letter.base.val = Field
  /\ "TRANSPORT_BEHAVIOUR" \notin letter.base.set
  /\ letter.base.val["TRANSPORT_BEHAVIOUR"] = Untold("TRANSPORT_BEHAVIOUR")
  /\ \A f \in Settable \ {"TO"} : Plain(letter.base, f)

LaidMade ==
  \A i \in DOMAIN letter.extra : "TRANSPORT_BEHAVIOUR" \notin letter.extra[i].set

(* A field that is not shadowed tells the latest value or what XML made of *)
(* it, unless the encodings do not carry that.                             *)
TellsLatest ==
  \A f \in Settable \ shadowed : NotCarried(f) \/ Told(letter, f) \in Versions(f, latest[f])

ToldInv ==
  /\ BaseMade
  /\ LaidMade
  /\ TextsKnown
  /\ TellsLatest
  /\ DOMAIN latest = Field
  /\ latest["TRANSPORT_BEHAVIOUR"] = Untold("TRANSPORT_BEHAVIOUR")
  /\ shadowed \subseteq InsertedNames
  /\ letter.payload # NoPayload => latest["ACL_REPRESENTATION"] = letter.payload.representation

\* An envelope laid over the letter.
LEMMA LayOverTold ==
  ASSUME ToldInv, letter.extra \in Seq(Range(letter.extra)),
         NEW f \in Field \ {"TRANSPORT_BEHAVIOUR"}, NEW v, Given(f, v),
         f \in TextElement => v \in DOMAIN AsElement,
         letter'.base = letter.base,
         letter'.extra = Append(letter.extra, Set(NewEnvelope, f, v)),
         letter'.payload # NoPayload
           => latest'["ACL_REPRESENTATION"] = letter'.payload.representation
  PROVE  ToldInv'
<1> USE DEF ToldInv
<1> DEFINE env == Set(NewEnvelope, f, v)
<1>1. env.set = {f} /\ env.val[f] = v
  BY DEF Set, NewEnvelope
<1> HIDE DEF env
<1>2. letter'.extra = Append(letter.extra, env)
  BY DEF env
<1>3. LaidMade' /\ TextsKnown'
  <2>1. /\ DOMAIN letter'.extra = DOMAIN letter.extra \cup {Len(letter.extra) + 1}
        /\ \A i \in DOMAIN letter.extra : letter'.extra[i] = letter.extra[i]
        /\ letter'.extra[Len(letter.extra) + 1] = env
    BY <1>2, Appended
  <2>2. LaidMade'
    BY <1>1, <2>1 DEF LaidMade
  <2>3. Envelopes(letter') \subseteq Envelopes(letter) \cup {env}
    BY <2>1 DEF Envelopes, Range
  <2>4. KnownTexts(env)
    BY <1>1 DEF KnownTexts
  <2> QED BY <2>2, <2>3, <2>4 DEF TextsKnown
<1>4. BaseMade'
  BY DEF BaseMade
<1>5. ASSUME NEW g PROVE Told(letter', g) = IF g = f THEN v ELSE Told(letter, g)
  <2>1. Told(letter', g) = IF g \in env.set THEN env.val[g] ELSE Told(letter, g)
    BY <1>2, ToldOver
  <2> QED BY <1>1, <2>1
<1>6. /\ DOMAIN latest' = Field /\ latest'[f] = v
      /\ \A g \in Field \ {f} : latest'[g] = latest[g]
      /\ shadowed' = shadowed \ {f}
  BY DEF Given
<1>7. TellsLatest'
  <2> SUFFICES ASSUME NEW g \in Settable, g \notin shadowed'
               PROVE  NotCarried(g)' \/ Told(letter', g) \in Versions(g, latest'[g])
    BY DEF TellsLatest
  <2>1. CASE g = f
    BY <1>5, <1>6, <2>1, SameVersion
  <2>2. CASE g # f
    <3>1. g \notin shadowed /\ latest'[g] = latest[g] /\ Told(letter', g) = Told(letter, g)
      BY <1>5, <1>6, <2>2 DEF Settable, Tracked
    <3>2. NotCarried(g) => NotCarried(g)'
      BY <3>1 DEF NotCarried
    <3> QED BY <3>1, <3>2 DEF TellsLatest
  <2> QED BY <2>1, <2>2
<1>8. latest'["TRANSPORT_BEHAVIOUR"] = latest["TRANSPORT_BEHAVIOUR"]
  BY <1>6 DEF Field
<1> QED BY <1>3, <1>4, <1>6, <1>7, <1>8

\* A field of the base envelope set or added to.
LEMMA EditBaseTold ==
  ASSUME ToldInv, NEW f \in Field \ {"TRANSPORT_BEHAVIOUR", "ACL_REPRESENTATION"},
         NEW v, Given(f, v), f \in TextElement => v \in DOMAIN AsElement,
         letter.extra = <<>>, letter'.extra = <<>>, letter'.payload = letter.payload,
         DOMAIN letter'.base = {"set", "val"},
         DOMAIN letter'.base.val = Field, letter'.base.val[f] = v,
         \A g \in Field \ {f} : letter'.base.val[g] = letter.base.val[g],
         \/ letter'.base.set = letter.base.set \cup {f}
         \/ letter'.base.set = letter.base.set /\ f = "TO"
  PROVE  ToldInv'
<1> USE DEF ToldInv
<1>1. /\ DOMAIN latest' = Field /\ latest'[f] = v
      /\ \A g \in Field \ {f} : latest'[g] = latest[g]
      /\ shadowed' = shadowed \ {f}
  BY DEF Given
<1>2. /\ DOMAIN letter'.base.val = Field /\ letter'.base.val[f] = v
      /\ \A g \in Field \ {f} : letter'.base.val[g] = letter.base.val[g]
  OBVIOUS
<1>3. BaseMade'
  <2>1. ASSUME NEW g \in Settable \ {"TO"} PROVE Plain(letter'.base, g)
    BY <1>2 DEF BaseMade, Plain, Settable, Tracked
  <2> QED BY <1>2, <2>1 DEF BaseMade, Field
<1>4. LaidMade' /\ TextsKnown'
  <2>1. KnownTexts(letter.base)
    BY DEF TextsKnown, Envelopes
  <2>2. ASSUME NEW g \in letter'.base.set \cap TextElement
        PROVE  letter'.base.val[g] \in DOMAIN AsElement
    <3>1. g # "TO" /\ g \in Field
      BY DEF TextElement, Field
    <3> QED BY <1>2, <2>1, <3>1 DEF KnownTexts
  <2>3. Envelopes(letter') = {letter'.base}
    BY DEF Envelopes, Range
  <2> QED BY <2>2, <2>3 DEF LaidMade, TextsKnown, KnownTexts
<1>5. \A g : Told(letter, g) = letter.base.val[g] /\ Told(letter', g) = letter'.base.val[g]
  BY DEF Told, Over
<1>6. TellsLatest'
  <2> SUFFICES ASSUME NEW g \in Settable, g \notin shadowed'
               PROVE  NotCarried(g)' \/ Told(letter', g) \in Versions(g, latest'[g])
    BY DEF TellsLatest
  <2>1. CASE g = f
    BY <1>1, <1>2, <1>5, <2>1, SameVersion
  <2>2. CASE g # f
    <3>1. g \notin shadowed /\ latest'[g] = latest[g] /\ Told(letter', g) = Told(letter, g)
      BY <1>1, <1>2, <1>5, <2>2 DEF Settable, Tracked
    <3>2. NotCarried(g) => NotCarried(g)'
      BY <2>2, <3>1 DEF NotCarried
    <3> QED BY <3>1, <3>2 DEF TellsLatest
  <2> QED BY <2>1, <2>2
<1>7. /\ latest'["TRANSPORT_BEHAVIOUR"] = latest["TRANSPORT_BEHAVIOUR"]
      /\ latest'["ACL_REPRESENTATION"] = latest["ACL_REPRESENTATION"]
  BY <1>1 DEF Field
<1> QED BY <1>1, <1>3, <1>4, <1>6, <1>7

\* A message inserted.
LEMMA InsertTold ==
  ASSUME ToldInv, NEW m \in Messages, NEW r, InsertMessage(m, r)
  PROVE  ToldInv'
<1> USE DEF ToldInv
<1> DEFINE fields == InsertedFields(m, r, steps)
<1>1. /\ DOMAIN fields = InsertedNames /\ fields["ACL_REPRESENTATION"] = r
      /\ \A f \in InsertedNames \cap TextElement : fields[f] \in DOMAIN AsElement
  BY GivenTextsAssumption DEF InsertedFields, InsertedNames, TextElement
<1>2. /\ letter'.payload.representation = r
      /\ letter'.extra = letter.extra
      /\ DOMAIN letter'.base = {"set", "val"}
      /\ letter'.base.set = letter.base.set \cup DOMAIN fields
      /\ letter'.base.val = [f \in Field |-> IF f \in DOMAIN fields THEN fields[f]
                                             ELSE letter.base.val[f]]
  BY DEF InsertMessage, Insert, PayloadOf
<1>3. /\ latest' = [f \in Field |-> IF f \in DOMAIN fields THEN fields[f] ELSE latest[f]]
      /\ shadowed' = DOMAIN fields \cap UNION {e.set : e \in Range(letter.extra)}
  BY DEF InsertMessage
<1> HIDE DEF fields
<1>4. \A f \in Field :
        /\ f \in InsertedNames => /\ letter'.base.val[f] = fields[f] /\ latest'[f] = fields[f]
                                  /\ f \in letter'.base.set
        /\ f \notin InsertedNames => /\ letter'.base.val[f] = letter.base.val[f]
                                     /\ latest'[f] = latest[f]
                                     /\ f \in letter'.base.set <=> f \in letter.base.set
  BY <1>1, <1>2, <1>3
<1>5. BaseMade'
  <2>1. ASSUME NEW f \in Settable \ {"TO"} PROVE Plain(letter'.base, f)
    BY <1>4 DEF BaseMade, Plain, Settable, Tracked
  <2>2. "TRANSPORT_BEHAVIOUR" \in Field \ InsertedNames
    BY DEF Field, InsertedNames
  <2>3. DOMAIN letter'.base.val = Field
    BY <1>2
  <2>4. /\ "TRANSPORT_BEHAVIOUR" \notin letter'.base.set
        /\ letter'.base.val["TRANSPORT_BEHAVIOUR"] = letter.base.val["TRANSPORT_BEHAVIOUR"]
    BY <1>4, <2>2 DEF BaseMade
  <2> QED BY <1>2, <2>1, <2>3, <2>4 DEF BaseMade
<1>6. LaidMade' /\ TextsKnown'
  <2>1. KnownTexts(letter.base)
    BY DEF TextsKnown, Envelopes
  <2>2. KnownTexts(letter'.base)
    <3>1. TextElement \subseteq Field
      BY DEF TextElement, Field
    <3> QED BY <1>1, <1>4, <2>1, <3>1 DEF KnownTexts
  <2>3. Envelopes(letter') \subseteq Envelopes(letter) \cup {letter'.base}
    BY <1>2 DEF Envelopes
  <2> QED BY <1>2, <2>2, <2>3 DEF LaidMade, TextsKnown
<1>7. TellsLatest'
  <2> SUFFICES ASSUME NEW g \in Settable, g \notin shadowed'
               PROVE  NotCarried(g)' \/ Told(letter', g) \in Versions(g, latest'[g])
    BY DEF TellsLatest
  <2>1. g \in Field
    BY DEF Settable, Tracked
  <2>2. CASE g \in InsertedNames
    <3>1. Over(letter'.extra, DOMAIN letter'.extra, g) = {}
      BY <1>1, <1>2, <1>3, <2>2 DEF Over, Range
    <3> QED BY <1>4, <2>1, <2>2, <3>1, SameVersion DEF Told
  <2>3. CASE g \notin InsertedNames
    <3>1. Told(letter', g) = Told(letter, g) /\ latest'[g] = latest[g] /\ g \notin shadowed
      BY <1>2, <1>4, <2>1, <2>3 DEF Told
    <3>2. NotCarried(g) => NotCarried(g)'
      BY <2>3, <3>1 DEF NotCarried, InsertedNames
    <3> QED BY <3>1, <3>2 DEF TellsLatest
  <2> QED BY <2>2, <2>3
<1>8. /\ DOMAIN latest' = Field
      /\ shadowed' \subseteq InsertedNames
      /\ latest'["TRANSPORT_BEHAVIOUR"] = latest["TRANSPORT_BEHAVIOUR"]
      /\ latest'["ACL_REPRESENTATION"] = letter'.payload.representation
  BY <1>1, <1>2, <1>3 DEF Field, InsertedNames
<1> QED BY <1>5, <1>6, <1>7, <1>8

\* The letter sent and received.
LEMMA DeliverTold ==
  ASSUME ToldInv, letter.extra \in Seq(Range(letter.extra)), NEW r, Deliver(r)
  PROVE  ToldInv'
<1> USE DEF ToldInv
<1> DEFINE n == Len(letter.extra)
<1>1. n \in Nat /\ DOMAIN letter.extra = 1..n
  OBVIOUS
<1> HIDE DEF n
<1>2. letter' = Transmitted(letter, r) /\ UNCHANGED <<latest, shadowed>>
  BY DEF Deliver
<1>3. /\ letter'.base = SentBaseEnvelope(letter.base, r)
      /\ DOMAIN letter'.extra = DOMAIN letter.extra
      /\ \A i \in DOMAIN letter.extra : letter'.extra[i] = SentEnvelope(letter.extra[i], r)
      /\ letter'.payload = letter.payload
  BY <1>2 DEF Transmitted
<1>4. BaseMade'
  <2>1. ASSUME NEW f \in Settable \ {"TO"} PROVE Plain(letter'.base, f)
    <3>1. f \in Tracked \ {"TRANSPORT_BEHAVIOUR"}
      BY DEF Settable
    <3> QED BY <1>3, <3>1, SentPlain
  <2> QED BY <1>3, <2>1, SentShape DEF BaseMade
<1>5. LaidMade' /\ TextsKnown'
  <2>1. r = "XML" => \A env \in Envelopes(letter) : XMLReadable(XMLParameters(env))
    BY DEF Deliver, Deserializable
  <2>2. \A env \in Envelopes(letter') :
          \E old \in Envelopes(letter) :
            env = SentEnvelope(old, r) \/ env = SentBaseEnvelope(old, r)
    BY <1>3 DEF Envelopes, Range
  <2>3. TextsKnown'
    BY <2>1, <2>2, SentTexts DEF TextsKnown
  <2> QED BY <1>3, <2>3, SentShape DEF LaidMade
<1>6. TellsLatest'
  <2> SUFFICES ASSUME NEW g \in Settable, g \notin shadowed, ~NotCarried(g)'
               PROVE  Told(letter', g) \in Versions(g, latest[g])
    BY <1>2 DEF TellsLatest
  <2>1. g \notin letter.base.set /\ g = "TO" => g \notin letter'.base.set
    BY <1>3, SentBaseTells DEF Settable
  <2>2. ~NotCarried(g)
    BY <1>2, <2>1 DEF NotCarried
  <2>3. Told(letter, g) \in Versions(g, latest[g])
    BY <2>2 DEF TellsLatest
  <2>4. Carried(Told(letter, g), g)
    BY <2>2, <2>3, NoEmptyVersion DEF NotCarried, Carried
  <2>5. Plain(letter.base, g)
    BY <2>2 DEF NotCarried, Plain, BaseMade
  <2>6. PICK env \in Envelopes(letter) :
          ReadFrom(env, r, g, Told(letter, g), Told(letter', g))
    BY <1>1, <1>2, <2>4, <2>5, ToldSent DEF Settable
  <2>7. CASE Told(letter', g) = Told(letter, g)
    BY <2>3, <2>7
  <2>8. CASE Told(letter', g) # Told(letter, g)
    <3>1. /\ g \in env.set /\ env.val[g] = Told(letter, g) /\ r = "XML"
          /\ g \in TextElement /\ Told(letter', g) = AsElement[env.val[g]]
      BY <2>6, <2>8 DEF ReadFrom
    <3>2. env.val[g] \in DOMAIN AsElement /\ XMLReadable(XMLParameters(env))
      BY <3>1 DEF TextsKnown, KnownTexts, Deliver, Deserializable
    <3>3. g \in DOMAIN XMLParameters(env) /\ XMLParameters(env)[g] = env.val[g]
      BY <2>4, <3>1 DEF XMLParameters, Carried, TextElement
    <3>4. AsElement[env.val[g]] # UnreadableText
      BY <3>1, <3>2, <3>3 DEF XMLReadable
    <3> QED BY <2>3, <3>1, <3>2, <3>4, NextVersion
  <2> QED BY <2>7, <2>8
<1> QED BY <1>2, <1>3, <1>4, <1>5, <1>6

LEMMA ToldNext == ASSUME KnownInv, ToldInv, [Next]_vars PROVE ToldInv'
<1>0. /\ DOMAIN letter = {"base", "extra", "payload"}
      /\ letter.extra \in Seq(Range(letter.extra))
      /\ DOMAIN letter.base = {"set", "val"}
      /\ DOMAIN letter.base.val = Field
  BY DEF KnownInv, WellMade, Overlays, ToldInv, BaseMade
<1>1. CASE UNCHANGED vars
  <2>1. letter' = letter /\ latest' = latest /\ shadowed' = shadowed
    BY <1>1 DEF vars
  <2> QED BY <2>1 DEF ToldInv, BaseMade, LaidMade, TextsKnown, TellsLatest, NotCarried
<1>3. ASSUME EditBase PROVE ToldInv'
  <2>0. letter.extra = <<>>
    BY <1>3 DEF EditBase
  <2>1. ASSUME NEW f \in {"COMMENTS", "USERDEFINED_PARAMETERS"}, NEW v,
               letter' = [letter EXCEPT !.base = Set(@, f, v)], Given(f, v),
               f = "COMMENTS" => v \in Comments
        PROVE  ToldInv'
    <3>1. f \in Field \ {"TRANSPORT_BEHAVIOUR", "ACL_REPRESENTATION"}
      BY DEF Field
    <3>2. /\ letter'.extra = letter.extra /\ letter'.payload = letter.payload
          /\ letter'.base = Set(letter.base, f, v)
      BY <1>0, <2>1
    <3>3. /\ DOMAIN letter'.base = {"set", "val"}
          /\ DOMAIN letter'.base.val = Field /\ letter'.base.val[f] = v
          /\ \A g \in Field \ {f} : letter'.base.val[g] = letter.base.val[g]
          /\ letter'.base.set = letter.base.set \cup {f}
      BY <1>0, <3>1, <3>2 DEF Set
    <3>4. f \in TextElement => v \in DOMAIN AsElement
      BY <2>1, GivenTextsAssumption DEF TextElement
    <3> QED BY <2>0, <2>1, <3>1, <3>2, <3>3, <3>4, EditBaseTold
  <2>2. ASSUME NEW a, NEW base, base \in {AddTo(letter.base, a), RemoveTo(letter.base, a)},
               letter' = [letter EXCEPT !.base = base], Given("TO", base.val["TO"])
        PROVE  ToldInv'
    <3>1. "TO" \in Field \ ({"TRANSPORT_BEHAVIOUR", "ACL_REPRESENTATION"} \cup TextElement)
      BY DEF Field, TextElement
    <3>2. /\ letter'.extra = letter.extra /\ letter'.payload = letter.payload
          /\ letter'.base = base
      BY <1>0, <2>2
    <3>3. /\ DOMAIN base = {"set", "val"}
          /\ base.set = letter.base.set /\ DOMAIN base.val = Field
          /\ \A g \in Field \ {"TO"} : base.val[g] = letter.base.val[g]
      <4>1. CASE base = letter.base
        BY <1>0, <4>1
      <4>2. ASSUME NEW w, base = [letter.base EXCEPT !.val["TO"] = w]
            PROVE  /\ DOMAIN base = {"set", "val"} /\ base.set = letter.base.set
                   /\ base.val = [letter.base.val EXCEPT !["TO"] = w]
        BY <1>0, <4>2
      <4>3. ASSUME NEW w, base = [letter.base EXCEPT !.val["TO"] = w]
            PROVE  /\ DOMAIN base.val = Field
                   /\ \A g \in Field \ {"TO"} : base.val[g] = letter.base.val[g]
        BY <1>0, <4>2, <4>3
      <4>4. base = letter.base \/ \E w : base = [letter.base EXCEPT !.val["TO"] = w]
        BY <2>2 DEF AddTo, RemoveTo
      <4> QED BY <4>1, <4>2, <4>3, <4>4
    <3> QED BY <2>0, <2>2, <3>1, <3>2, <3>3, EditBaseTold
  <2> QED BY <1>3, <2>1, <2>2 DEF EditBase
<1>4. ASSUME NEW c \in Comments, Comment(c) PROVE ToldInv'
  <2>1. /\ letter'.extra = Append(letter.extra, Set(NewEnvelope, "COMMENTS", c))
        /\ letter'.base = letter.base /\ letter'.payload = letter.payload
        /\ Given("COMMENTS", c)
    BY <1>0, <1>4 DEF Comment, AddExtraEnvelope
  <2>2. "COMMENTS" \in Field \ {"TRANSPORT_BEHAVIOUR"}
        /\ latest'["ACL_REPRESENTATION"] = latest["ACL_REPRESENTATION"]
    BY <2>1 DEF Field, Given
  <2> QED BY <1>0, <2>1, <2>2, GivenTextsAssumption, LayOverTold DEF ToldInv
<1>5. ASSUME NEW r, Reencode(r) PROVE ToldInv'
  <2>1. /\ letter'.extra = Append(letter.extra, Set(NewEnvelope, "ACL_REPRESENTATION", r))
        /\ letter'.base = letter.base /\ letter'.payload.representation = r
        /\ Given("ACL_REPRESENTATION", r)
    BY <1>0, <1>5 DEF Reencode, AddExtraEnvelope, PayloadOf
  <2>2. "ACL_REPRESENTATION" \in Field \ ({"TRANSPORT_BEHAVIOUR"} \cup TextElement)
        /\ latest'["ACL_REPRESENTATION"] = r
    BY <2>1 DEF Field, TextElement, Given, ToldInv
  <2> QED BY <1>0, <2>1, <2>2, LayOverTold
<1>6. ASSUME NEW a \in Agents, Dedicate(a) PROVE ToldInv'
  <2>1. /\ letter'.extra = Append(letter.extra, Set(NewEnvelope, "INTENDED_RECEIVERS", <<a>>))
        /\ letter'.base = letter.base /\ letter'.payload = letter.payload
        /\ Given("INTENDED_RECEIVERS", <<a>>)
    BY <1>0, <1>6 DEF Dedicate, CreateDedicatedEnvelope, AddExtraEnvelope
  <2>2. "INTENDED_RECEIVERS" \in Field \ ({"TRANSPORT_BEHAVIOUR"} \cup TextElement)
        /\ latest'["ACL_REPRESENTATION"] = latest["ACL_REPRESENTATION"]
    BY <2>1 DEF Field, TextElement, Given
  <2> QED BY <1>0, <2>1, <2>2, LayOverTold DEF ToldInv
<1>7. ASSUME NEW a \in Agents, StampLetter(a) PROVE ToldInv'
  <2> DEFINE receipt == Receipt(a, stampCounter + 1)
  <2>1. /\ letter'.extra = Append(letter.extra, Set(NewEnvelope, "RECEIVED_OBJECT", receipt))
        /\ letter'.base = letter.base /\ letter'.payload = letter.payload
        /\ Given("RECEIVED_OBJECT", receipt)
    <3>1. receipt.id = stampCounter + 1
      BY DEF Receipt, NoReceipt
    <3> QED BY <1>0, <1>7, <3>1 DEF StampLetter, Stamp, AddExtraEnvelope
  <2> HIDE DEF receipt
  <2>2. "RECEIVED_OBJECT" \in Field \ ({"TRANSPORT_BEHAVIOUR"} \cup TextElement)
        /\ latest'["ACL_REPRESENTATION"] = latest["ACL_REPRESENTATION"]
    BY <2>1 DEF Field, TextElement, Given
  <2> QED BY <1>0, <2>1, <2>2, LayOverTold DEF ToldInv
<1>8. ASSUME NEW a \in Agents, NEW via, StampBaseEnvelope(a, via) PROVE ToldInv'
  <2> DEFINE receipt == [Receipt(a, 0) EXCEPT !.via = via]
  <2>1. /\ letter' = [letter EXCEPT !.base = Set(@, "RECEIVED_OBJECT", receipt)]
        /\ letter.extra = <<>> /\ Given("RECEIVED_OBJECT", receipt)
    BY <1>8 DEF StampBaseEnvelope
  <2> HIDE DEF receipt
  <2>2. /\ letter'.extra = letter.extra /\ letter'.payload = letter.payload
        /\ letter'.base = Set(letter.base, "RECEIVED_OBJECT", receipt)
    BY <1>0, <2>1
  <2>3. /\ DOMAIN letter'.base = {"set", "val"}
        /\ letter'.base.set = letter.base.set \cup {"RECEIVED_OBJECT"}
        /\ DOMAIN letter'.base.val = Field /\ letter'.base.val["RECEIVED_OBJECT"] = receipt
        /\ \A g \in Field \ {"RECEIVED_OBJECT"} : letter'.base.val[g] = letter.base.val[g]
    BY <1>0, <2>2 DEF Set, Field
  <2>4. "RECEIVED_OBJECT"
          \in Field \ ({"TRANSPORT_BEHAVIOUR", "ACL_REPRESENTATION"} \cup TextElement)
    BY DEF Field, TextElement
  <2> QED BY <2>1, <2>2, <2>3, <2>4, EditBaseTold
<1> QED BY <1>0, <1>1, <1>3, <1>4, <1>5, <1>6, <1>7, <1>8, InsertTold, DeliverTold,
           DeliveredOrNot DEF Next

LEMMA ToldInit == Init => ToldInv
<1> SUFFICES ASSUME Init PROVE ToldInv
  OBVIOUS
<1>1. /\ letter.base = NewEnvelope /\ letter.extra = <<>> /\ letter.payload = NoPayload
      /\ latest = NewEnvelope.val /\ shadowed = {}
  BY DEF Init, NewLetter
<1>2. DOMAIN NewEnvelope = {"set", "val"} /\ DOMAIN NewEnvelope.val = Field
      /\ NewEnvelope.set = {}
  BY DEF NewEnvelope
<1>3. \A f : Untold(f) = NewEnvelope.val[f]
  BY DEF Untold
<1>4. BaseMade
  BY <1>1, <1>2, <1>3 DEF BaseMade, Plain
<1>5. LaidMade
  BY <1>1 DEF LaidMade
<1>6. TellsLatest /\ TextsKnown
  <2>1. Envelopes(letter) = {NewEnvelope}
    BY <1>1 DEF Envelopes, Range
  <2> QED BY <1>1, <1>2, <2>1, SameVersion DEF TellsLatest, Told, Over, TextsKnown, KnownTexts
<1> QED BY <1>1, <1>2, <1>3, <1>4, <1>5, <1>6 DEF ToldInv

\* What the invariant is for.
LEMMA ToldEverywhere ==
  ASSUME KnownInv, ToldInv PROVE LatestWins /\ Readable
<1> DEFINE n == Len(letter.extra)
<1>1. n \in Nat /\ DOMAIN letter.extra = 1..n
  BY DEF KnownInv, WellMade, Overlays
<1> HIDE DEF n
<1>2. \A f \in Field : Flattened(letter).val[f] = Told(letter, f)
  BY <1>1, FlattenedTells
<1>3. Told(letter, "TRANSPORT_BEHAVIOUR") = latest["TRANSPORT_BEHAVIOUR"]
  <2>1. Over(letter.extra, DOMAIN letter.extra, "TRANSPORT_BEHAVIOUR") = {}
    BY DEF ToldInv, LaidMade, Over
  <2> QED BY <2>1 DEF ToldInv, BaseMade, Told
<1>4. LatestWins
  BY <1>2, <1>3, SameVersion DEF LatestWins, ToldInv, TellsLatest, Settable, Tracked
<1>5. Readable
  <2> SUFFICES ASSUME letter.payload # NoPayload, "ACL_REPRESENTATION" \notin shadowed
               PROVE  GetACLMessage(letter) = letter.payload.message
    BY DEF Readable
  <2>1. "ACL_REPRESENTATION" \in Settable /\ "ACL_REPRESENTATION" \in Field
    BY DEF Settable, Tracked, Field
  <2>2. Told(letter, "ACL_REPRESENTATION") = latest["ACL_REPRESENTATION"]
    BY <2>1 DEF ToldInv, TellsLatest, NotCarried, Versions, TextElement
  <2> QED BY <1>2, <2>1, <2>2 DEF GetACLMessage, ToldInv
<1> QED BY <1>4, <1>5

\* Whatever the letter went through, inserting and editing, services laying their
\* envelopes over it, transmissions in either representation: flattened() tells of
\* every field the value it was given last, but for what an
\* encoding does not carry (NotCarried) or an earlier envelope shadows.
THEOREM LatestValueTold == Spec => []LatestWins
<1>1. Init => KnownInv /\ ToldInv
  BY KnownInit, ToldInit
<1> QED BY <1>1, KnownNext, ToldNext, ToldEverywhere, PTL DEF Spec

\* ACLEnvelope::getACLMessage decodes the payload in the representation it
\* was encoded in, as long as no service laid its own representation over it.
THEOREM MessageReadable == Spec => []Readable
<1>1. Init => KnownInv /\ ToldInv
  BY KnownInit, ToldInit
<1> QED BY <1>1, KnownNext, ToldNext, ToldEverywhere, PTL DEF Spec

-----------------------------------------------------------------------------
(* The delivery path                                                       *)

\* The stamps, in order, are the hops of the letter.
PathInv == Alike(stamps, Hops(Row(letter)))

\* One more envelope adds its hop.
LEMMA LayOverPath ==
  ASSUME IsSeq(letter.extra), NEW env, letter'.base = letter.base,
         letter'.extra = Append(letter.extra, env)
  PROVE  IsSeq(Hops(Row(letter))) /\ Hops(Row(letter')) = Hops(Row(letter)) \o Hop(env)
<1>1. IsSeq(Row(letter))
  BY RowIs
<1>2. IsSeq(Path(Row(letter))) /\ IsSeq(Hops(Row(letter)))
  BY <1>1, RowPath
<1>3. Row(letter') = Append(Row(letter), env)
  <2> DEFINE T == Range(letter.extra) \cup {letter.base, env}
  <2>1. \A i \in DOMAIN letter.extra : letter.extra[i] \in T
    BY DEF Range
  <2>2. letter.base \in T /\ env \in T
    OBVIOUS
  <2> HIDE DEF T
  <2>3. letter.extra \in Seq(T)
    BY <2>1 DEF IsSeq
  <2>4. <<letter.base>> \o Append(letter.extra, env)
          = Append(<<letter.base>> \o letter.extra, env)
    BY <2>2, <2>3
  <2> QED BY <2>4 DEF Row
<1> QED BY <1>1, <1>2, <1>3, HopsAppend

\* Where no envelope lost or won a hop, the path is as it was.
LEMMA SameRowPath ==
  ASSUME PathInv, stamps' = stamps, IsSeq(letter.extra), IsSeq(letter'.extra),
         Len(letter'.extra) = Len(letter.extra),
         Alike(Hop(letter.base), Hop(letter'.base)),
         \A i \in DOMAIN letter.extra : Alike(Hop(letter.extra[i]), Hop(letter'.extra[i]))
  PROVE  PathInv'
<1> DEFINE e == Row(letter)
           d == Row(letter')
<1>1. IsSeq(e) /\ IsSeq(d) /\ Len(e) = Len(d)
  BY RowIs
<1>2. DOMAIN letter'.extra = DOMAIN letter.extra
  BY DEF IsSeq
<1>3. /\ e[1] = letter.base /\ d[1] = letter'.base
      /\ \A i \in DOMAIN letter.extra : e[i + 1] = letter.extra[i]
      /\ \A i \in DOMAIN letter'.extra : d[i + 1] = letter'.extra[i]
      /\ \A i \in DOMAIN e : i = 1 \/ i - 1 \in DOMAIN letter.extra
  BY RowIs
<1> HIDE DEF e, d
<1>4. ASSUME NEW i \in DOMAIN e PROVE Alike(Hop(e[i]), Hop(d[i]))
  <2>1. CASE i = 1
    BY <1>3, <2>1
  <2>2. CASE i # 1
    <3>1. PICK k : k = i - 1
      OBVIOUS
    <3>2. k \in DOMAIN letter.extra /\ i = k + 1
      <4>1. i \in Nat
        BY <1>1 DEF IsSeq
      <4> QED BY <1>3, <2>2, <3>1, <4>1
    <3>3. e[i] = letter.extra[k] /\ d[i] = letter'.extra[k]
      BY <1>2, <1>3, <3>2
    <3> QED BY <3>2, <3>3
  <2> QED BY <2>1, <2>2
<1>5. Alike(Hops(e), Hops(d))
  BY <1>1, <1>4, AlikeRows
<1> QED BY <1>5, AlikeThen DEF PathInv, e, d

LEMMA DeliverPath ==
  ASSUME WellMade, PathInv, NEW r, Deliver(r) PROVE PathInv'
<1>1. IsSeq(letter.extra) /\ \A i \in DOMAIN letter.extra : Overlay(letter.extra[i])
  BY DEF WellMade, Overlays, IsSeq
<1>2. /\ letter'.base = SentBaseEnvelope(letter.base, r)
      /\ letter'.extra = [i \in DOMAIN letter.extra |-> SentEnvelope(letter.extra[i], r)]
      /\ stamps' = stamps
  BY DEF Deliver, Transmitted
<1>3. IsSeq(letter'.extra) /\ Len(letter'.extra) = Len(letter.extra)
  <2>1. DOMAIN letter.extra = 1..Len(letter.extra) /\ Len(letter.extra) \in Nat
    BY <1>1 DEF IsSeq
  <2>2. \A i \in 1..Len(letter.extra) :
          SentEnvelope(letter.extra[i], r) \in Range(letter'.extra)
    BY <1>2, <2>1 DEF Range
  <2> QED BY <1>2, <2>1, <2>2 DEF IsSeq
<1>4. Alike(Hop(letter.base), Hop(letter'.base))
  BY <1>2, SentHop
<1>5. \A i \in DOMAIN letter.extra : Alike(Hop(letter.extra[i]), Hop(letter'.extra[i]))
  BY <1>1, <1>2, SentHop
<1> QED BY <1>1, <1>2, <1>3, <1>4, <1>5, SameRowPath

\* An operation that neither stamps the letter nor sends it.
LEMMA UnstampedPath ==
  ASSUME WellMade, PathInv, stamps' = stamps,
         \/ letter'.extra = letter.extra /\ Hop(letter'.base) = Hop(letter.base)
         \/ /\ letter'.base = letter.base
            /\ \E f \in Field \ {"RECEIVED_OBJECT"} : \E v :
                 letter'.extra = Append(letter.extra, Set(NewEnvelope, f, v))
  PROVE  PathInv'
<1>1. IsSeq(letter.extra)
  BY DEF WellMade, Overlays, IsSeq
<1>2. CASE letter'.extra = letter.extra /\ Hop(letter'.base) = Hop(letter.base)
  <2>1. Alike(Hop(letter.base), Hop(letter'.base))
    BY <1>2, AtMostOne, AlikeSame
  <2>2. \A i \in DOMAIN letter.extra : Alike(Hop(letter.extra[i]), Hop(letter'.extra[i]))
    BY <1>2, AtMostOne, AlikeSame
  <2> QED BY <1>1, <1>2, <2>1, <2>2, SameRowPath
<1>3. ASSUME letter'.base = letter.base, NEW f \in Field \ {"RECEIVED_OBJECT"}, NEW v,
             letter'.extra = Append(letter.extra, Set(NewEnvelope, f, v))
      PROVE  PathInv'
  <2>1. Hop(Set(NewEnvelope, f, v)) = <<>>
    BY NewUnstamped DEF Hop
  <2>2. Hops(Row(letter')) = Hops(Row(letter))
    BY <1>1, <1>3, <2>1, LayOverPath, Joined
  <2> QED BY <2>2 DEF PathInv
<1> QED BY <1>2, <1>3

LEMMA StampPath ==
  ASSUME WellMade, PathInv, NEW agent \in Agents, StampLetter(agent) PROVE PathInv'
<1> DEFINE receipt == Receipt(agent, stampCounter + 1)
           env == Set(NewEnvelope, "RECEIVED_OBJECT", receipt)
<1>0. receipt.id = stampCounter + 1 /\ receipt.by = agent
  BY DEF Receipt, NoReceipt
<1>1. /\ letter' = [letter EXCEPT !.extra = Append(@, env)]
      /\ stamps' = Append(stamps, receipt)
  BY <1>0 DEF StampLetter, Stamp, AddExtraEnvelope
<1>2. Hop(env) = <<receipt>>
  <2>1. Stamped(env) /\ env.val["RECEIVED_OBJECT"] = receipt
    BY DEF Set, NewEnvelope, Field, Stamped
  <2>2. agent # Nobody
    BY LettersAssumption
  <2> HIDE DEF env, receipt
  <2> QED BY <1>0, <2>1, <2>2 DEF Hop, StampedBy
<1> HIDE DEF env, receipt
<1>3. letter'.base = letter.base /\ letter'.extra = Append(letter.extra, env)
      /\ IsSeq(letter.extra)
  BY <1>1 DEF WellMade, Overlays, IsSeq
<1>4. Hops(Row(letter')) = Append(Hops(Row(letter)), receipt)
  <2>1. IsSeq(Hops(Row(letter))) /\ Hops(Row(letter')) = Hops(Row(letter)) \o Hop(env)
    BY <1>3, LayOverPath
  <2>2. Hops(Row(letter)) \o <<receipt>> = Append(Hops(Row(letter)), receipt)
    BY <2>1, Joined
  <2> QED BY <1>2, <2>1, <2>2
<1> QED BY <1>1, <1>4, AlikeAppend DEF PathInv, SameHop

LEMMA StampBasePath ==
  ASSUME WellMade, PathInv, NEW agent \in Agents, NEW via, StampBaseEnvelope(agent, via),
         DOMAIN letter.base.val = Field
  PROVE  PathInv'
<1> DEFINE receipt == [Receipt(agent, 0) EXCEPT !.via = via]
           base == Set(letter.base, "RECEIVED_OBJECT", receipt)
<1>0. receipt.by = agent
  BY DEF Receipt, NoReceipt
<1>1. /\ letter' = [letter EXCEPT !.base = base] /\ letter.extra = <<>>
      /\ stamps' = Append(stamps, receipt)
      /\ ~Stamped(letter.base)
  BY DEF StampBaseEnvelope, Stamped
<1>2. Hop(base) = <<receipt>>
  <2>1. Stamped(base) /\ base.val["RECEIVED_OBJECT"] = receipt
    BY DEF Set, Field, Stamped
  <2>2. agent # Nobody
    BY LettersAssumption
  <2> HIDE DEF base, receipt
  <2> QED BY <1>0, <2>1, <2>2 DEF Hop, StampedBy
<1> HIDE DEF base, receipt
<1>3. letter'.base = base /\ letter'.extra = <<>>
  BY <1>1 DEF WellMade
<1>4. \A l : l.extra = <<>> => Hops(Row(l)) = Hop(l.base)
  <2> TAKE l
  <2> HAVE l.extra = <<>>
  <2>1. Row(l) = Append(<<>>, l.base)
    BY DEF Row
  <2>2. Hops(Row(l)) = <<>> \o Hop(l.base)
    BY <2>1, NoHopsSeq, HopsAppend
  <2>3. <<>> \o Hop(l.base) = Hop(l.base)
    BY AtMostOne DEF IsSeq
  <2> QED BY <2>2, <2>3
<1>5. Hops(Row(letter)) = <<>> /\ Hops(Row(letter')) = Append(<<>>, receipt)
  <2>1. Hop(letter.base) = <<>>
    BY <1>1 DEF Hop
  <2>2. Append(<<>>, receipt) = <<receipt>>
    OBVIOUS
  <2>3. Hops(Row(letter)) = Hop(letter.base) /\ Hops(Row(letter')) = Hop(letter'.base)
    BY <1>1, <1>3, <1>4
  <2> QED BY <1>2, <1>3, <2>1, <2>2, <2>3
<1> QED BY <1>1, <1>5, AlikeAppend DEF PathInv, SameHop

LEMMA PathNext ==
  ASSUME WellMade, DOMAIN letter.base.val = Field, PathInv, [Next]_vars PROVE PathInv'
<1>0. DOMAIN letter = {"base", "extra", "payload"}
  BY DEF WellMade
<1>1. CASE UNCHANGED vars
  BY <1>1 DEF vars, PathInv
<1>2. ASSUME NEW m \in Messages, NEW r, InsertMessage(m, r) PROVE PathInv'
  <2>1. "RECEIVED_OBJECT" \in Field \ DOMAIN InsertedFields(m, r, steps)
    BY DEF Field, InsertedFields
  <2>2. /\ letter'.extra = letter.extra /\ stamps' = stamps
        /\ letter'.base.set = letter.base.set \cup DOMAIN InsertedFields(m, r, steps)
        /\ letter'.base.val["RECEIVED_OBJECT"] = letter.base.val["RECEIVED_OBJECT"]
    BY <1>2, <2>1 DEF InsertMessage, Insert
  <2>3. Hop(letter'.base) = Hop(letter.base)
    BY <2>1, <2>2 DEF Hop, Stamped, StampedBy
  <2> QED BY <2>2, <2>3, UnstampedPath
<1>3. ASSUME EditBase PROVE PathInv'
  <2>1. stamps' = stamps /\ letter'.extra = letter.extra
    BY <1>0, <1>3 DEF EditBase
  <2>2. ASSUME NEW f \in Field \ {"RECEIVED_OBJECT"}, NEW v,
               letter' = [letter EXCEPT !.base = Set(@, f, v)]
        PROVE  Hop(letter'.base) = Hop(letter.base)
    <3>1. letter'.base = Set(letter.base, f, v)
      BY <1>0, <2>2
    <3>2. /\ letter'.base.set = letter.base.set \cup {f}
          /\ letter'.base.val["RECEIVED_OBJECT"] = letter.base.val["RECEIVED_OBJECT"]
      BY <3>1 DEF Set, Field
    <3> QED BY <3>2 DEF Hop, Stamped, StampedBy
  <2>3. ASSUME NEW a, NEW base, base \in {AddTo(letter.base, a), RemoveTo(letter.base, a)},
               letter' = [letter EXCEPT !.base = base]
        PROVE  Hop(letter'.base) = Hop(letter.base)
    <3>1. letter'.base = base
      BY <1>0, <2>3
    <3>2. /\ base.set = letter.base.set
          /\ base.val["RECEIVED_OBJECT"] = letter.base.val["RECEIVED_OBJECT"]
      <4>1. CASE base = letter.base
        BY <4>1
      <4>2. ASSUME NEW w, base = [letter.base EXCEPT !.val["TO"] = w]
            PROVE  /\ base.set = letter.base.set
                   /\ base.val["RECEIVED_OBJECT"] = letter.base.val["RECEIVED_OBJECT"]
        BY <4>2 DEF Field
      <4>3. base = letter.base \/ \E w : base = [letter.base EXCEPT !.val["TO"] = w]
        BY <2>3 DEF AddTo, RemoveTo
      <4> QED BY <4>1, <4>2, <4>3
    <3> QED BY <3>1, <3>2 DEF Hop, Stamped, StampedBy
  <2>4. {"COMMENTS", "USERDEFINED_PARAMETERS"} \subseteq Field \ {"RECEIVED_OBJECT"}
    BY DEF Field
  <2>5. Hop(letter'.base) = Hop(letter.base)
    BY <1>3, <2>2, <2>3, <2>4 DEF EditBase
  <2> QED BY <2>1, <2>5, UnstampedPath
<1>4. ASSUME NEW f \in Field \ {"RECEIVED_OBJECT"}, NEW v,
             letter'.extra = Append(letter.extra, Set(NewEnvelope, f, v)),
             letter'.base = letter.base, stamps' = stamps
      PROVE  PathInv'
  BY <1>4, UnstampedPath
<1>5. {"COMMENTS", "ACL_REPRESENTATION", "INTENDED_RECEIVERS"} \subseteq Field \ {"RECEIVED_OBJECT"}
  BY DEF Field
<1>6. ASSUME NEW c, Comment(c) PROVE PathInv'
  <2>1. /\ letter'.extra = Append(letter.extra, Set(NewEnvelope, "COMMENTS", c))
        /\ letter'.base = letter.base /\ stamps' = stamps
    BY <1>0, <1>6 DEF Comment, AddExtraEnvelope
  <2> QED BY <1>4, <1>5, <2>1
<1>7. ASSUME NEW r, Reencode(r) PROVE PathInv'
  <2>1. /\ letter'.extra = Append(letter.extra, Set(NewEnvelope, "ACL_REPRESENTATION", r))
        /\ letter'.base = letter.base /\ stamps' = stamps
    BY <1>0, <1>7 DEF Reencode, AddExtraEnvelope
  <2> QED BY <1>4, <1>5, <2>1
<1>8. ASSUME NEW a \in Agents, Dedicate(a) PROVE PathInv'
  <2>1. /\ letter'.extra = Append(letter.extra, Set(NewEnvelope, "INTENDED_RECEIVERS", <<a>>))
        /\ letter'.base = letter.base /\ stamps' = stamps
    BY <1>0, <1>8 DEF Dedicate, CreateDedicatedEnvelope, AddExtraEnvelope
  <2> QED BY <1>4, <1>5, <2>1
<1> QED BY <1>1, <1>2, <1>3, <1>6, <1>7, <1>8, StampPath, StampBasePath, DeliverPath,
           DeliveredOrNot DEF Next

LEMMA PathInit == Init => PathInv
<1> SUFFICES ASSUME Init PROVE PathInv
  OBVIOUS
<1>1. letter.base = NewEnvelope /\ letter.extra = <<>> /\ stamps = <<>>
  BY DEF Init, NewLetter
<1>2. Row(letter) = Append(<<>>, NewEnvelope)
  BY <1>1 DEF Row
<1>3. Hop(NewEnvelope) = <<>>
  BY NewUnstamped DEF Hop
<1>4. Hops(Row(letter)) = <<>> \o <<>>
  BY <1>2, <1>3, NoHopsSeq, HopsAppend
<1>5. Hops(Row(letter)) = <<>>
  BY <1>4
<1> QED BY <1>1, <1>5, NoHopsSeq, AlikeSame DEF PathInv

\* ACLEnvelope::getDeliveryPath names the services that stamped the letter,
\* each once and in the order of their stamps, over any number of transmissions.
THEOREM PathTold == Spec => []PathInTimeOrder
<1>1. Init => KnownInv /\ ToldInv /\ PathInv
  BY KnownInit, ToldInit, PathInit
<1>2. KnownInv /\ ToldInv /\ PathInv /\ [Next]_vars => PathInv'
  BY PathNext DEF KnownInv, ToldInv, BaseMade
<1>3. KnownInv /\ PathInv => PathInTimeOrder
  <2> SUFFICES ASSUME KnownInv, PathInv PROVE PathInTimeOrder
    OBVIOUS
  <2>1. NamedHops(DeliveryPath(letter)) = Hops(Row(letter))
    BY RowIs DEF KnownInv, WellMade, Overlays, IsSeq, Hops
  <2> QED BY <2>1 DEF PathInTimeOrder, PathInv, Alike, SameHop
<1> QED BY <1>1, <1>2, <1>3, KnownNext, ToldNext, PTL DEF Spec

-----------------------------------------------------------------------------
(* Forwarding                                                              *)

(* Once a letter was sent, it is what its encoding carries, until the next *)
(* operation.                                                              *)
SentInv ==
  sentAs # "UNKNOWN" =>
    \E l : /\ \A env \in Envelopes(l) : KnownTexts(env)
          /\ letter = Transmitted(l, sentAs)

(* The texts that are left are ones that XML keeps.                        *)
Untouched ==
  /\ sentAs # "UNKNOWN" /\ sentAs' = sentAs
  /\ sentAs = "XML" =>
       \A env \in Envelopes(letter) : \A f \in env.set : XMLKeeps(f, env.val[f])

LEMMA SentNext ==
  ASSUME TextsKnown, SentInv, [Next]_vars
  PROVE  SentInv' /\ (Untouched => letter' = letter)
<1>1. CASE UNCHANGED vars
  BY <1>1 DEF vars, SentInv
<1>2. CASE Step
  BY <1>2 DEF Step, SentInv, Untouched
<1>3. ASSUME NEW r, Deliver(r)
      PROVE  SentInv' /\ (Untouched => letter' = letter)
  <2>1. letter' = Transmitted(letter, r) /\ sentAs' = r
    BY <1>3 DEF Deliver
  <2>2. SentInv'
    BY <2>1 DEF SentInv, TextsKnown
  <2>3. ASSUME Untouched PROVE letter' = letter
    <3>1. PICK l : /\ \A env \in Envelopes(l) : KnownTexts(env)
                   /\ letter = Transmitted(l, r)
      BY <2>1, <2>3 DEF SentInv, Untouched
    <3>2. r = "XML" => \A env \in Envelopes(letter) : Keeps(env)
      BY <2>1, <2>3 DEF Untouched, Keeps
    <3>3. Transmitted(Transmitted(l, r), r) = Transmitted(l, r)
      BY <3>1, <3>2, SentTwice
    <3> QED BY <2>1, <3>1, <3>3
  <2> QED BY <2>2, <2>3
<1>4. Step \/ UNCHANGED vars \/ \E r : Deliver(r)
  BY DeliveredOrNot
  DEF Next, InsertMessage, EditBase, Comment, Reencode, StampLetter, Dedicate,
      StampBaseEnvelope
<1> QED BY <1>1, <1>2, <1>3, <1>4

\* A letter that is passed on as it was received, in the same representation, is
\* the letter that was received: nothing more is lost at the next hop, but for
\* texts that XML would go on to alter.
THEOREM ForwardingKeeps == Spec => ForwardedUnchanged
<1>1. Init => KnownInv /\ ToldInv /\ SentInv
  BY KnownInit, ToldInit DEF Init, SentInv
<1>2. ToldInv /\ SentInv /\ [Next]_vars => SentInv' /\ [Untouched => letter' = letter]_vars
  BY SentNext DEF ToldInv
<1> QED BY <1>1, <1>2, KnownNext, ToldNext, PTL DEF Spec, ForwardedUnchanged, Untouched

-----------------------------------------------------------------------------
(* Type correctness                                                        *)

(* The values a field of an envelope may take.                             *)
Fits(f, v) ==
  /\ f = "ACL_REPRESENTATION" => v \in Representation
  /\ f = "RECEIVED_OBJECT" => v.by \in Agents \cup {Nobody}
  /\ f = "TO" => v \in Seq(Agents)
  /\ f = "INTENDED_RECEIVERS" => Range(v) \subseteq Agents

FitEnvelope(env) ==
  /\ env.set \subseteq Field
  /\ DOMAIN env.val = Field
  /\ \A f \in Field : Fits(f, env.val[f])

(* Who is twice among the addressees is so among the intended receivers,   *)
(* which are set, and so sent, with the addressees.                        *)
Addressed(env) ==
  /\ Doubled(env.val["TO"]) \subseteq Doubled(env.val["INTENDED_RECEIVERS"])
  /\ "TO" \in env.set => "INTENDED_RECEIVERS" \in env.set

EnvelopeInv(env) == FitEnvelope(env) /\ Addressed(env)

TypeInv ==
  /\ DOMAIN letter = {"base", "extra", "payload"}
  /\ DOMAIN letter.base = {"set", "val"}
  /\ EnvelopeInv(letter.base)
  /\ IsSeq(letter.extra)
  /\ \A i \in DOMAIN letter.extra : EnvelopeInv(letter.extra[i])
  /\ steps \in 0..MaxSteps
  /\ stampCounter \in 0..steps
  /\ shadowed \subseteq Field
  /\ plain \in BOOLEAN

LEMMA DoubledIs ==
  ASSUME NEW list, NEW x
  PROVE  x \in Doubled(list) <=>
           \E j \in DOMAIN list : x = list[j] /\ \E k \in 1..(j - 1) : list[k] = list[j]
BY DEF Doubled

LEMMA NoneDoubled == Doubled(<<>>) = {}
BY DEF Doubled

(* A list of agents in which nobody is twice who is not so in s.           *)
NoMoreDoubled(s, t) == t \in Seq(Agents) /\ Doubled(t) \subseteq Doubled(s)

\* addTo enters an agent only once and removeTo removes one entry, so that nobody
\* becomes an addressee twice.
LEMMA EntersOnce ==
  ASSUME NEW s \in Seq(Agents), NEW a \in Agents
  PROVE  /\ a \notin Range(s) => NoMoreDoubled(s, Append(s, a))
         /\ NoMoreDoubled(s, RemoveFirst(s, a))
<1>1. s \in Seq(Agents)
  OBVIOUS
<1>2. ASSUME a \notin Range(s) PROVE NoMoreDoubled(s, Append(s, a))
  <2>1. Append(s, a) \in Seq(Agents)
    BY <1>1
  <2>2. \A i \in DOMAIN s : s[i] # a
    BY <1>2 DEF Range
  <2>3. ASSUME NEW x \in Doubled(Append(s, a)) PROVE x \in Doubled(s)
    <3> DEFINE t == Append(s, a)
    <3>1. /\ DOMAIN t = 1..(Len(s) + 1) /\ DOMAIN s = 1..Len(s) /\ Len(s) \in Nat
          /\ \A i \in 1..Len(s) : t[i] = s[i]
          /\ t[Len(s) + 1] = a
      OBVIOUS
    <3> HIDE DEF t
    <3>2. PICK j \in DOMAIN t : x = t[j] /\ \E k \in 1..(j - 1) : t[k] = t[j]
      BY <2>3, DoubledIs DEF t
    <3>p. PICK k \in 1..(j - 1) : t[k] = t[j]
      BY <3>2
    <3>3. k \in 1..Len(s) /\ t[k] = s[k] /\ k \in 1..(j - 1)
      BY <3>1
    <3>4. j # Len(s) + 1
      BY <2>2, <3>1, <3>p, <3>3
    <3>5. j \in DOMAIN s /\ t[j] = s[j]
      BY <3>1, <3>4
    <3>6. x = s[j] /\ \E i \in 1..(j - 1) : s[i] = s[j]
      BY <3>2, <3>p, <3>3, <3>5
    <3> QED BY <3>5, <3>6, DoubledIs
  <2> QED BY <2>1, <2>3 DEF NoMoreDoubled
<1>3. NoMoreDoubled(s, RemoveFirst(s, a))
  <2>1. CASE ~ \E i \in 1..Len(s) : s[i] = a
    BY <2>1 DEF RemoveFirst, NoMoreDoubled
  <2>2. CASE \E i \in 1..Len(s) : s[i] = a
    <3> DEFINE I == {i \in 1..Len(s) : s[i] = a}
               k == Min(I)
               rest == RemoveAt(s, k)
    <3>1. I # {} /\ I \subseteq Nat
      BY <2>2
    <3>2. k \in I
      <4>1. PICK m \in I : \A i \in I : m <= i
        <5> HIDE DEF I
        <5> QED BY <3>1, Smallest
      <4>2. k = CHOOSE x \in I : \A y \in I : x <= y
        BY DEF Min
      <4> HIDE DEF I, k
      <4> QED BY <4>1, <4>2
    <3>3. RemoveFirst(s, a) = rest
      BY <2>2, <3>1 DEF RemoveFirst, SelectInSeq
    <3>4. k \in 1..Len(s)
      BY <3>2
    <3> HIDE DEF k, I
    <3>5. rest = SubSeq(s, 1, k - 1) \o SubSeq(s, k + 1, Len(s))
      BY DEF RemoveAt
    <3> HIDE DEF rest
    <3>6. SubSeq(s, 1, k - 1) \in Seq(Agents) /\ SubSeq(s, k + 1, Len(s)) \in Seq(Agents)
      BY <1>1, <3>4
    <3>7. /\ Len(SubSeq(s, 1, k - 1)) = k - 1 /\ Len(SubSeq(s, k + 1, Len(s))) = Len(s) - k
          /\ \A i \in 1..(k - 1) : SubSeq(s, 1, k - 1)[i] = s[i]
          /\ \A i \in 1..(Len(s) - k) : SubSeq(s, k + 1, Len(s))[i] = s[i + k]
      BY <1>1, <3>4
    <3> DEFINE front == SubSeq(s, 1, k - 1)
               back == SubSeq(s, k + 1, Len(s))
               n == Len(s)
    <3>a. /\ front \in Seq(Agents) /\ back \in Seq(Agents) /\ rest = front \o back
          /\ Len(front) = k - 1 /\ Len(back) = n - k /\ n \in Nat /\ k \in 1..n
          /\ \A i \in 1..(k - 1) : front[i] = s[i]
          /\ \A i \in 1..(n - k) : back[i] = s[i + k]
      BY <1>1, <3>4, <3>5, <3>6, <3>7
    <3> HIDE DEF front, back, n
    <3>b. rest \in Seq(Agents) /\ Len(rest) = Len(front) + Len(back)
      <4>1. \A A : \A u, v \in Seq(A) : u \o v \in Seq(A) /\ Len(u \o v) = Len(u) + Len(v)
        OBVIOUS
      <4>2. front \o back \in Seq(Agents) /\ Len(front \o back) = Len(front) + Len(back)
        BY <3>a, <4>1
      <4> QED BY <3>a, <4>2
    <3>8. rest \in Seq(Agents) /\ Len(rest) = n - 1
      BY <3>a, <3>b
    <3>9. ASSUME NEW i \in 1..(n - 1)
          PROVE  rest[i] = s[IF i < k THEN i ELSE i + 1]
      <4>1. CASE i < k
        <5>1. i \in 1..(k - 1)
          BY <3>a, <4>1
        <5>2. rest[i] = front[i]
          BY <3>a, <3>8, <5>1
        <5> QED BY <3>a, <4>1, <5>1, <5>2
      <4>2. CASE ~(i < k)
        <5>1. i - (k - 1) \in 1..(n - k) /\ i - (k - 1) + k = i + 1
          BY <3>a, <4>2
        <5>2. rest[i] = back[i - (k - 1)]
          BY <3>a, <3>8, <4>2
        <5>3. back[i - (k - 1)] = s[i - (k - 1) + k]
          BY <3>a, <5>1
        <5> QED BY <4>2, <5>1, <5>2, <5>3
      <4> QED BY <4>1, <4>2
    <3>10. ASSUME NEW x \in Doubled(rest) PROVE x \in Doubled(s)
      <4>1. DOMAIN rest = 1..(n - 1) /\ DOMAIN s = 1..n
        BY <1>1, <3>8, <3>a DEF n
      <4>2. PICK j \in DOMAIN rest : x = rest[j] /\ \E i \in 1..(j - 1) : rest[i] = rest[j]
        BY <3>10, DoubledIs
      <4>p. PICK i \in 1..(j - 1) : rest[i] = rest[j]
        BY <4>2
      <4>3. j \in 1..(n - 1) /\ i \in 1..(n - 1) /\ i < j
        BY <3>a, <4>1, <4>2
      <4> DEFINE Old(y) == IF y < k THEN y ELSE y + 1
      <4>4. rest[j] = s[Old(j)] /\ rest[i] = s[Old(i)]
        BY <3>9, <4>3
      <4>5. Old(j) \in DOMAIN s /\ Old(i) \in 1..(Old(j) - 1)
        BY <3>a, <4>1, <4>3
      <4> HIDE DEF Old
      <4>6. x = s[Old(j)] /\ \E y \in 1..(Old(j) - 1) : s[y] = s[Old(j)]
        BY <4>2, <4>p, <4>4, <4>5
      <4> QED BY <4>5, <4>6, DoubledIs
    <3> QED BY <3>3, <3>8, <3>10 DEF NoMoreDoubled
  <2> QED BY <2>1, <2>2
<1> QED BY <1>2, <1>3

\* New envelopes and envelopes with a fitting value set are well typed,
LEMMA NewOK ==
  /\ EnvelopeInv(NewEnvelope)
  /\ DOMAIN NewEnvelope = {"set", "val"}
<1>1. <<>> \in Seq(Agents) /\ Range(<<>>) = {}
  BY DEF Range
<1>2. /\ NewEnvelope.set = {} /\ DOMAIN NewEnvelope.val = Field
      /\ NewEnvelope.val["TO"] = <<>> /\ NewEnvelope.val["INTENDED_RECEIVERS"] = <<>>
      /\ NewEnvelope.val["ACL_REPRESENTATION"] = "UNKNOWN"
      /\ NewEnvelope.val["RECEIVED_OBJECT"] = NoReceipt
  BY DEF NewEnvelope, Field
<1>3. NoReceipt.by = Nobody
  BY DEF NoReceipt
<1>4. FitEnvelope(NewEnvelope)
  BY <1>1, <1>2, <1>3 DEF FitEnvelope, Fits, Representation
<1>5. Addressed(NewEnvelope)
  BY <1>2 DEF Addressed
<1> QED BY <1>4, <1>5 DEF EnvelopeInv, NewEnvelope

LEMMA SetFits ==
  ASSUME NEW env, FitEnvelope(env), NEW f \in Field, NEW v, Fits(f, v)
  PROVE  FitEnvelope(Set(env, f, v))
<1> DEFINE new == Set(env, f, v)
<1>1. /\ new.set \subseteq Field /\ DOMAIN new.val = Field
      /\ \A g \in Field : new.val[g] = IF g = f THEN v ELSE env.val[g]
  BY DEF Set, FitEnvelope
<1> HIDE DEF new
<1>2. \A g \in Field : Fits(g, new.val[g])
  BY <1>1 DEF FitEnvelope
<1>3. FitEnvelope(new)
  BY <1>1, <1>2 DEF FitEnvelope
<1> QED BY <1>3 DEF new

LEMMA SetAddressed ==
  ASSUME NEW env, DOMAIN env.val = Field, Addressed(env), NEW f, NEW v,
         \/ f \notin {"TO", "INTENDED_RECEIVERS"}
         \/ f = "INTENDED_RECEIVERS" /\ env = NewEnvelope
  PROVE  Addressed(Set(env, f, v))
<1>1. {"TO", "INTENDED_RECEIVERS"} \subseteq Field
  BY DEF Field
<1>2. CASE f \notin {"TO", "INTENDED_RECEIVERS"}
  <2>1. /\ Set(env, f, v).val["TO"] = env.val["TO"]
        /\ Set(env, f, v).val["INTENDED_RECEIVERS"] = env.val["INTENDED_RECEIVERS"]
        /\ Set(env, f, v).set = env.set \cup {f}
    BY <1>1, <1>2 DEF Set
  <2> QED BY <1>2, <2>1 DEF Addressed
<1>3. CASE f = "INTENDED_RECEIVERS" /\ env = NewEnvelope
  <2>1. Set(env, f, v).val["TO"] = <<>> /\ f \in Set(env, f, v).set
    BY <1>1, <1>3 DEF Set, NewEnvelope
  <2> QED BY <1>3, <2>1, NoneDoubled DEF Addressed
<1> QED BY <1>2, <1>3

\* and so are envelopes that were sent.
LEMMA SentAddressed ==
  ASSUME NEW env, Addressed(env), NEW r
  PROVE  Addressed(SentEnvelope(env, r)) /\ Addressed(SentBaseEnvelope(env, r))
<1> DEFINE Lists == {"TO", "INTENDED_RECEIVERS"}
<1>1. ASSUME NEW sent,
             \A f \in Lists : f \in sent.set <=> f \in env.set,
             \A f \in Lists : sent.val[f] = IF f \in env.set THEN env.val[f] ELSE <<>>
      PROVE  Addressed(sent)
  BY <1>1, NoneDoubled DEF Addressed
<1>2. ASSUME NEW f \in Lists
      PROVE  /\ f \in Tracked \ {"TRANSPORT_BEHAVIOUR"} /\ NewEnvelope.val[f] = <<>>
             /\ f # "ACL_REPRESENTATION"
             /\ \A v : ReadAs(r, f, v) = v /\ Carried(v, f)
  BY DEF Tracked, Field, NewEnvelope, ReadAs, Carried, TextElement
<1> HIDE DEF Lists
<1>3. Addressed(SentEnvelope(env, r))
  <2> DEFINE sent == SentEnvelope(env, r)
  <2>1. ASSUME NEW f \in Lists
        PROVE  /\ f \in sent.set <=> f \in env.set
               /\ sent.val[f] = IF f \in env.set THEN env.val[f] ELSE <<>>
    BY <1>2, SentTells
  <2> HIDE DEF sent
  <2>2. Addressed(sent)
    BY <1>1, <2>1
  <2> QED BY <2>2 DEF sent
<1>4. Addressed(SentBaseEnvelope(env, r))
  <2> DEFINE sent == SentBaseEnvelope(env, r)
  <2>1. ASSUME NEW f \in Lists
        PROVE  /\ f \in sent.set <=> f \in env.set
               /\ sent.val[f] = IF f \in env.set THEN env.val[f] ELSE <<>>
    BY <1>2, SentBaseTells DEF Untold
  <2> HIDE DEF sent
  <2>2. Addressed(sent)
    BY <1>1, <2>1
  <2> QED BY <2>2 DEF sent
<1> QED BY <1>3, <1>4

LEMMA SentFits ==
  ASSUME NEW env, FitEnvelope(env), NEW r
  PROVE  /\ FitEnvelope(SentEnvelope(env, r))
         /\ FitEnvelope(SentBaseEnvelope(env, r))
         /\ DOMAIN SentBaseEnvelope(env, r) = {"set", "val"}
<1>1. env.set \subseteq Field /\ \A f \in Field : Fits(f, env.val[f])
  BY DEF FitEnvelope
<1>2. /\ \A f \in Field : Fits(f, Untold(f))
      /\ FitEnvelope(NewEnvelope)
  BY NewOK DEF Untold, EnvelopeInv, FitEnvelope
<1>3. CASE r = "XML"
  <2> DEFINE p == XMLParameters(env)
             sent == ParseParameters(p)
  <2>1. DOMAIN p \subseteq env.set /\ \A f \in DOMAIN p : p[f] = env.val[f]
    BY DEF XMLParameters
  <2>2. SentEnvelope(env, r) = sent /\ SentBaseEnvelope(env, r) = sent
    BY <1>3 DEF SentEnvelope, SentBaseEnvelope
  <2> HIDE DEF p
  <2>3. /\ DOMAIN sent = {"set", "val"} /\ DOMAIN sent.val = Field
        /\ sent.set = DOMAIN p \cup {"USERDEFINED_PARAMETERS"}
        /\ \A f \in Field :
             sent.val[f] = IF f \in DOMAIN p THEN ParseElement(f, p[f]) ELSE Untold(f)
    BY DEF ParseParameters, Untold
  <2> HIDE DEF sent
  <2>4. ASSUME NEW f, NEW v, Fits(f, v) PROVE Fits(f, ParseElement(f, v))
    <3>1. CASE f = "RECEIVED_OBJECT"
      <4>1. ReadReceipt(v).by = v.by
        BY DEF ReadReceipt, NoReceipt
      <4> QED BY <2>4, <3>1, <4>1, ParsedReceipt DEF Fits
    <3>2. CASE f \in {"TO", "INTENDED_RECEIVERS", "ACL_REPRESENTATION"}
      BY <2>4, <3>2 DEF ParseElement, TextElement
    <3>3. CASE f \notin {"RECEIVED_OBJECT", "TO", "INTENDED_RECEIVERS", "ACL_REPRESENTATION"}
      BY <3>3 DEF Fits
    <3> QED BY <3>1, <3>2, <3>3
  <2>5. ASSUME NEW f \in Field PROVE Fits(f, sent.val[f])
    BY <1>1, <1>2, <2>1, <2>3, <2>4
  <2>6. "USERDEFINED_PARAMETERS" \in Field
    BY DEF Field
  <2>7. FitEnvelope(sent)
    BY <1>1, <2>1, <2>3, <2>5, <2>6 DEF FitEnvelope
  <2> QED BY <2>2, <2>3, <2>7
<1>4. CASE r # "XML"
  <2> DEFINE p == GetParameters(env)
             ext == Set(NewEnvelope, "RECEIVED_OBJECT", env.val["RECEIVED_OBJECT"])
             base == Set(Set(NewEnvelope, "ACL_REPRESENTATION", env.val["ACL_REPRESENTATION"]),
                         "DATE", env.val["DATE"])
  <2>1. DOMAIN p \subseteq env.set /\ \A f \in DOMAIN p : p[f] = env.val[f]
    BY DEF GetParameters
  <2>2. /\ SentEnvelope(env, r) = MergeParameters(ext, p)
        /\ SentBaseEnvelope(env, r) = MergeParameters(base, p)
    BY <1>4 DEF SentEnvelope, SentBaseEnvelope, DecodedExt, DecodedBase, EncodedExt, EncodedBase
  <2>3. {"RECEIVED_OBJECT", "ACL_REPRESENTATION", "DATE", "PAYLOAD_LENGTH"} \subseteq Field
    BY DEF Field
  <2>4. FitEnvelope(ext) /\ FitEnvelope(base)
    <3>1. FitEnvelope(ext)
      BY <1>1, <1>2, <2>3, SetFits
    <3>2. FitEnvelope(Set(NewEnvelope, "ACL_REPRESENTATION", env.val["ACL_REPRESENTATION"]))
      BY <1>1, <1>2, <2>3, SetFits
    <3> QED BY <1>1, <2>3, <3>1, <3>2, SetFits
  <2> HIDE DEF p, ext, base
  <2>5. ASSUME NEW header, FitEnvelope(header)
        PROVE  /\ FitEnvelope(MergeParameters(header, p))
               /\ DOMAIN MergeParameters(header, p) = {"set", "val"}
    <3> DEFINE read == MergeParameters(header, p)
    <3>1. /\ header.set \subseteq Field /\ DOMAIN header.val = Field
          /\ \A f \in Field : Fits(f, header.val[f])
      BY <2>5 DEF FitEnvelope
    <3>2. /\ read = [set |-> header.set \cup {"PAYLOAD_LENGTH"} \cup DOMAIN p, val |-> read.val]
          /\ read.val = [f \in Field |-> read.val[f]]
          /\ \A f \in Field :
               read.val[f] = IF f \in DOMAIN p THEN p[f]
                             ELSE IF f = "PAYLOAD_LENGTH" THEN HeaderLength ELSE header.val[f]
      BY <3>1, MergedIs
    <3> HIDE DEF read
    <3>3. Fits("PAYLOAD_LENGTH", HeaderLength)
      BY DEF Fits
    <3>4. \A f \in Field : Fits(f, read.val[f])
      BY <1>1, <2>1, <3>1, <3>2, <3>3
    <3>5. read.set \subseteq Field /\ DOMAIN read.val = Field /\ DOMAIN read = {"set", "val"}
      BY <1>1, <2>1, <2>3, <3>1, <3>2
    <3>6. FitEnvelope(read)
      BY <3>4, <3>5 DEF FitEnvelope
    <3> QED BY <3>5, <3>6 DEF read
  <2> QED BY <2>2, <2>4, <2>5
<1> QED BY <1>3, <1>4

\* An envelope laid over the letter.
LEMMA LayOverType ==
  ASSUME TypeInv, NEW f \in Field \ {"TO"}, NEW v, Fits(f, v), Step, Given(f, v),
         DOMAIN letter' = DOMAIN letter, letter'.base = letter.base,
         letter'.extra = Append(letter.extra, Set(NewEnvelope, f, v)),
         stampCounter' \in {stampCounter, stampCounter + 1}
  PROVE  TypeInv'
<1> DEFINE env == Set(NewEnvelope, f, v)
<1>1. EnvelopeInv(env)
  BY NewOK, SetFits, SetAddressed DEF EnvelopeInv, FitEnvelope
<1> HIDE DEF env
<1>2. /\ IsSeq(letter'.extra)
      /\ DOMAIN letter'.extra = DOMAIN letter.extra \cup {Len(letter.extra) + 1}
      /\ \A i \in DOMAIN letter.extra : letter'.extra[i] = letter.extra[i]
      /\ letter'.extra[Len(letter.extra) + 1] = env
  BY Appended DEF TypeInv, IsSeq, env
<1>3. \A i \in DOMAIN letter'.extra : EnvelopeInv(letter'.extra[i])
  BY <1>1, <1>2 DEF TypeInv
<1>4. steps' \in 0..MaxSteps /\ stampCounter' \in 0..steps' /\ shadowed' \subseteq Field
  BY LettersAssumption DEF TypeInv, Step, Given
<1>5. plain' \in BOOLEAN
  BY DEF Given
<1> QED BY <1>2, <1>3, <1>4, <1>5 DEF TypeInv

\* An operation on the base envelope alone.
LEMMA BaseType ==
  ASSUME TypeInv, Step, stampCounter' = stampCounter, shadowed' \subseteq Field,
         plain' \in BOOLEAN,
         DOMAIN letter' = DOMAIN letter, letter'.extra = letter.extra,
         DOMAIN letter'.base = {"set", "val"}, EnvelopeInv(letter'.base)
  PROVE  TypeInv'
<1>1. steps' \in 0..MaxSteps /\ stampCounter' \in 0..steps'
  BY LettersAssumption DEF TypeInv, Step
<1> QED BY <1>1 DEF TypeInv

LEMMA TypeNext == ASSUME TypeInv, [Next]_vars PROVE TypeInv'
<1>0. /\ DOMAIN letter = {"base", "extra", "payload"} /\ DOMAIN letter.base = {"set", "val"}
      /\ EnvelopeInv(letter.base) /\ IsSeq(letter.extra) /\ shadowed \subseteq Field
  BY DEF TypeInv
<1>1. CASE UNCHANGED vars
  BY <1>1 DEF vars, TypeInv
<1>2. ASSUME NEW m \in Messages, NEW r \in Representation, InsertMessage(m, r) PROVE TypeInv'
  <2> DEFINE fields == InsertedFields(m, r, steps)
  <2>1. /\ DOMAIN fields = {"TO", "INTENDED_RECEIVERS", "FROM", "ACL_REPRESENTATION",
                            "PAYLOAD_LENGTH", "PAYLOAD_ENCODING", "DATE"}
        /\ fields["TO"] = m.receivers /\ fields["INTENDED_RECEIVERS"] = m.receivers
        /\ fields["ACL_REPRESENTATION"] = r
    BY DEF InsertedFields
  <2>2. /\ letter'.extra = letter.extra /\ DOMAIN letter' = DOMAIN letter
        /\ DOMAIN letter'.base = {"set", "val"}
        /\ letter'.base.set = letter.base.set \cup DOMAIN fields
        /\ letter'.base.val = [f \in Field |-> IF f \in DOMAIN fields THEN fields[f]
                                               ELSE letter.base.val[f]]
        /\ Step /\ stampCounter' = stampCounter
        /\ shadowed' \subseteq DOMAIN fields
    BY <1>0, <1>2 DEF InsertMessage, Insert
  <2> HIDE DEF fields
  <2>3. m.receivers \in Seq(Agents) /\ Range(m.receivers) \subseteq Agents
    BY ReceiversAssumption DEF Range
  <2>4. /\ DOMAIN fields \subseteq Field /\ \A f \in DOMAIN fields : Fits(f, fields[f])
        /\ {"TO", "INTENDED_RECEIVERS"} \subseteq Field \cap DOMAIN fields
    BY <2>1, <2>3 DEF Field, Fits
  <2>5. letter.base.set \subseteq Field /\ \A f \in Field : Fits(f, letter.base.val[f])
    BY <1>0 DEF EnvelopeInv, FitEnvelope
  <2>6. EnvelopeInv(letter'.base)
    <3>1. \A f \in Field : Fits(f, letter'.base.val[f])
      BY <2>2, <2>4, <2>5
    <3>2. letter'.base.set \subseteq Field /\ DOMAIN letter'.base.val = Field
      BY <2>2, <2>4, <2>5
    <3>3. Addressed(letter'.base)
      BY <2>1, <2>2, <2>4 DEF Addressed
    <3> QED BY <3>1, <3>2, <3>3 DEF EnvelopeInv, FitEnvelope
  <2>7. plain' \in BOOLEAN
    BY <1>2 DEF InsertMessage
  <2> QED BY <2>2, <2>4, <2>6, <2>7, BaseType
<1>3. ASSUME EditBase PROVE TypeInv'
  <2>1. /\ Step /\ letter'.extra = letter.extra /\ DOMAIN letter' = DOMAIN letter
        /\ stampCounter' = stampCounter /\ shadowed' \subseteq Field /\ plain' \in BOOLEAN
    BY <1>0, <1>3 DEF EditBase, Given
  <2>2. ASSUME NEW f \in {"COMMENTS", "USERDEFINED_PARAMETERS"}, NEW v,
               letter' = [letter EXCEPT !.base = Set(@, f, v)]
        PROVE  TypeInv'
    <3>1. letter'.base = Set(letter.base, f, v)
      BY <1>0, <2>2
    <3>2. f \in Field /\ Fits(f, v)
      BY DEF Field, Fits
    <3>3. EnvelopeInv(letter'.base)
      BY <1>0, <3>1, <3>2, SetFits, SetAddressed DEF EnvelopeInv, FitEnvelope
    <3>4. DOMAIN letter'.base = {"set", "val"}
      BY <3>1 DEF Set
    <3> QED BY <2>1, <3>3, <3>4, BaseType
  <2>3. ASSUME NEW a \in Agents, NEW base,
               base \in {AddTo(letter.base, a), RemoveTo(letter.base, a)},
               letter' = [letter EXCEPT !.base = base]
        PROVE  TypeInv'
    <3>1. letter'.base = base
      BY <1>0, <2>3
    <3>2. /\ letter.base.set \subseteq Field /\ DOMAIN letter.base.val = Field
          /\ \A f \in Field : Fits(f, letter.base.val[f])
          /\ {"TO", "INTENDED_RECEIVERS"} \subseteq Field
          /\ letter.base.val["TO"] \in Seq(Agents)
      BY <1>0 DEF EnvelopeInv, FitEnvelope, Fits, Field
    <3>3. \/ base = letter.base
          \/ \E w : /\ NoMoreDoubled(letter.base.val["TO"], w)
                    /\ base = [letter.base EXCEPT !.val["TO"] = w]
      BY <2>3, <3>2, EntersOnce DEF AddTo, RemoveTo
    <3>4. ASSUME NEW w, NoMoreDoubled(letter.base.val["TO"], w),
                 base = [letter.base EXCEPT !.val["TO"] = w]
          PROVE  DOMAIN base = {"set", "val"} /\ EnvelopeInv(base)
      <4>1. /\ DOMAIN base = {"set", "val"} /\ base.set = letter.base.set
            /\ base.val = [letter.base.val EXCEPT !["TO"] = w]
        BY <1>0, <3>4
      <4>2. Fits("TO", w)
        BY <3>4 DEF Fits, NoMoreDoubled
      <4>3. FitEnvelope(base)
        BY <3>2, <4>1, <4>2 DEF FitEnvelope
      <4>4. Addressed(base)
        BY <1>0, <3>2, <3>4, <4>1 DEF EnvelopeInv, Addressed, NoMoreDoubled
      <4> QED BY <4>1, <4>3, <4>4 DEF EnvelopeInv
    <3> QED BY <1>0, <2>1, <3>1, <3>3, <3>4, BaseType
  <2> QED BY <1>3, <2>2, <2>3 DEF EditBase
<1>4. ASSUME NEW c, Comment(c) PROVE TypeInv'
  <2>1. /\ letter'.extra = Append(letter.extra, Set(NewEnvelope, "COMMENTS", c))
        /\ letter'.base = letter.base /\ DOMAIN letter' = DOMAIN letter
        /\ Step /\ Given("COMMENTS", c) /\ stampCounter' = stampCounter
    BY <1>0, <1>4 DEF Comment, AddExtraEnvelope
  <2>2. "COMMENTS" \in Field \ {"TO"} /\ Fits("COMMENTS", c)
    BY DEF Field, Fits
  <2> QED BY <2>1, <2>2, LayOverType
<1>5. ASSUME NEW r \in Representation, Reencode(r) PROVE TypeInv'
  <2>1. /\ letter'.extra = Append(letter.extra, Set(NewEnvelope, "ACL_REPRESENTATION", r))
        /\ letter'.base = letter.base /\ DOMAIN letter' = DOMAIN letter
        /\ Step /\ Given("ACL_REPRESENTATION", r) /\ stampCounter' = stampCounter
    BY <1>0, <1>5 DEF Reencode, AddExtraEnvelope
  <2>2. "ACL_REPRESENTATION" \in Field \ {"TO"} /\ Fits("ACL_REPRESENTATION", r)
    BY DEF Field, Fits
  <2> QED BY <2>1, <2>2, LayOverType
<1>6. ASSUME NEW a \in Agents, Dedicate(a) PROVE TypeInv'
  <2>1. /\ letter'.extra = Append(letter.extra, Set(NewEnvelope, "INTENDED_RECEIVERS", <<a>>))
        /\ letter'.base = letter.base /\ DOMAIN letter' = DOMAIN letter
        /\ Step /\ Given("INTENDED_RECEIVERS", <<a>>) /\ stampCounter' = stampCounter
    BY <1>0, <1>6 DEF Dedicate, CreateDedicatedEnvelope, AddExtraEnvelope
  <2>2. "INTENDED_RECEIVERS" \in Field \ {"TO"} /\ Fits("INTENDED_RECEIVERS", <<a>>)
    BY DEF Field, Fits, Range
  <2> QED BY <2>1, <2>2, LayOverType
<1>7. ASSUME NEW a \in Agents, StampLetter(a) PROVE TypeInv'
  <2> DEFINE receipt == Receipt(a, stampCounter + 1)
  <2>1. receipt.id = stampCounter + 1 /\ receipt.by = a
    BY DEF Receipt, NoReceipt
  <2>2. /\ letter'.extra = Append(letter.extra, Set(NewEnvelope, "RECEIVED_OBJECT", receipt))
        /\ letter'.base = letter.base /\ DOMAIN letter' = DOMAIN letter
        /\ Step /\ Given("RECEIVED_OBJECT", receipt) /\ stampCounter' = stampCounter + 1
    BY <1>0, <1>7, <2>1 DEF StampLetter, Stamp, AddExtraEnvelope
  <2> HIDE DEF receipt
  <2>3. "RECEIVED_OBJECT" \in Field \ {"TO"} /\ Fits("RECEIVED_OBJECT", receipt)
    BY <2>1 DEF Field, Fits
  <2> QED BY <2>2, <2>3, LayOverType
<1>8. ASSUME NEW a \in Agents, NEW via, StampBaseEnvelope(a, via) PROVE TypeInv'
  <2> DEFINE receipt == [Receipt(a, 0) EXCEPT !.via = via]
  <2>1. receipt.by = a
    BY DEF Receipt, NoReceipt
  <2>2. /\ letter' = [letter EXCEPT !.base = Set(@, "RECEIVED_OBJECT", receipt)]
        /\ Step /\ Given("RECEIVED_OBJECT", receipt) /\ stampCounter' = stampCounter
    BY <1>8 DEF StampBaseEnvelope
  <2> HIDE DEF receipt
  <2>3. /\ letter'.extra = letter.extra /\ DOMAIN letter' = DOMAIN letter
        /\ letter'.base = Set(letter.base, "RECEIVED_OBJECT", receipt)
        /\ shadowed' \subseteq Field /\ plain' \in BOOLEAN
    BY <1>0, <2>2 DEF Given
  <2>4. "RECEIVED_OBJECT" \in Field /\ Fits("RECEIVED_OBJECT", receipt)
    BY <2>1 DEF Field, Fits
  <2>5. EnvelopeInv(letter'.base)
    BY <1>0, <2>3, <2>4, SetFits, SetAddressed DEF EnvelopeInv, FitEnvelope
  <2>6. DOMAIN letter'.base = {"set", "val"}
    BY <2>3 DEF Set
  <2> QED BY <2>2, <2>3, <2>5, <2>6, BaseType
<1>9. ASSUME NEW r, Deliver(r) PROVE TypeInv'
  <2>1. /\ letter'.base = SentBaseEnvelope(letter.base, r)
        /\ letter'.extra = [i \in DOMAIN letter.extra |-> SentEnvelope(letter.extra[i], r)]
        /\ DOMAIN letter' = {"base", "extra", "payload"}
        /\ UNCHANGED <<stampCounter, steps, shadowed, plain>>
    BY <1>9 DEF Deliver, Transmitted
  <2>2. IsSeq(letter'.extra)
    <3>1. DOMAIN letter.extra = 1..Len(letter.extra) /\ Len(letter.extra) \in Nat
      BY <1>0 DEF IsSeq
    <3>2. \A i \in 1..Len(letter.extra) :
            SentEnvelope(letter.extra[i], r) \in Range(letter'.extra)
      BY <2>1, <3>1 DEF Range
    <3> QED BY <2>1, <3>1, <3>2 DEF IsSeq
  <2>3. \A i \in DOMAIN letter'.extra : EnvelopeInv(letter'.extra[i])
    BY <2>1, SentFits, SentAddressed DEF TypeInv, EnvelopeInv
  <2>4. EnvelopeInv(letter'.base) /\ DOMAIN letter'.base = {"set", "val"}
    BY <1>0, <2>1, SentFits, SentAddressed DEF EnvelopeInv
  <2> QED BY <2>1, <2>2, <2>3, <2>4 DEF TypeInv
<1> QED BY <1>1, <1>2, <1>3, <1>4, <1>5, <1>6, <1>7, <1>8, <1>9, DeliveredOrNot DEF Next

\* Every envelope of a letter holds fitting values of known fields, over every
\* operation and either encoding; and nobody comes to be twice among the addressees
\* who is not so among the receivers of the message.
THEOREM LettersTypeCorrect == Spec => []LettersTypeOK
<1>1. Init => TypeInv
  <2> SUFFICES ASSUME Init PROVE TypeInv
    OBVIOUS
  <2>1. /\ DOMAIN letter = {"base", "extra", "payload"}
        /\ letter.base = NewEnvelope /\ letter.extra = <<>>
        /\ steps = 0 /\ stampCounter = 0 /\ shadowed = {} /\ plain = TRUE
    BY DEF Init, NewLetter
  <2> QED BY <2>1, NewOK, NoHopsSeq, LettersAssumption DEF TypeInv
<1>2. TypeInv => LettersTypeOK
  <2> SUFFICES ASSUME TypeInv PROVE LettersTypeOK
    OBVIOUS
  <2>0. ASSUME NEW env, EnvelopeInv(env) PROVE EnvelopeOK(env)
    <3>1. /\ {"ACL_REPRESENTATION", "RECEIVED_OBJECT", "TO", "INTENDED_RECEIVERS"} \subseteq Field
          /\ \A list \in Seq(Agents) : Range(list) \subseteq Agents
      BY DEF Field, Range
    <3> QED BY <2>0, <3>1 DEF EnvelopeInv, FitEnvelope, Addressed, Fits, EnvelopeOK
  <2>1. \A e \in Range(letter.extra) : EnvelopeOK(e)
    BY <2>0 DEF TypeInv, Range
  <2>2. stampCounter \in 0..MaxSteps
    BY LettersAssumption DEF TypeInv
  <2> QED BY <2>0, <2>1, <2>2 DEF TypeInv, LettersTypeOK
<1> QED BY <1>1, <1>2, TypeNext, PTL DEF Spec
-----------------------------------------------------------------------------
(* Refused letters                                                         *)

(* A list of user-defined parameters whose texts are known.                *)
KnownParameters(env) ==
  "USERDEFINED_PARAMETERS" \in env.set =>
    env.val["USERDEFINED_PARAMETERS"]
      \in Seq([name : DOMAIN AsAttribute, value : DOMAIN AsElement])

PlainEnvelope(env) == Keeps(env) /\ KnownParameters(env)

PlainInv == plain => \A env \in Envelopes(letter) : PlainEnvelope(env)

(* What the fields with texts of an envelope come to.                      *)
LEMMA KeepsTexts ==
  ASSUME NEW env
  PROVE  Keeps(env) <=>
           /\ \A f \in TextElement \cap env.set : XMLKeeps(f, env.val[f])
           /\ "USERDEFINED_PARAMETERS" \in env.set =>
                XMLKeeps("USERDEFINED_PARAMETERS", env.val["USERDEFINED_PARAMETERS"])
<1>1. \A f, v : f \notin TextElement \cup {"USERDEFINED_PARAMETERS"} => XMLKeeps(f, v)
  BY DEF XMLKeeps
<1> QED BY <1>1 DEF Keeps

\* An envelope whose texts XML keeps can be read,
LEMMA PlainReadable ==
  ASSUME NEW env, PlainEnvelope(env), KnownTexts(env)
  PROVE  XMLReadable(XMLParameters(env))
<1> DEFINE p == XMLParameters(env)
<1>1. /\ DOMAIN p \subseteq env.set
      /\ \A f \in DOMAIN p : p[f] = env.val[f] /\ (f \in TextElement => env.val[f] # "")
  BY DEF XMLParameters
<1> HIDE DEF p
<1>2. ASSUME NEW f \in DOMAIN p \cap TextElement PROVE AsElement[p[f]] # UnreadableText
  <2>1. XMLKeeps(f, env.val[f]) /\ env.val[f] \in DOMAIN AsElement
    BY <1>1 DEF PlainEnvelope, Keeps, KnownTexts
  <2>2. AsElement[p[f]] \in DOMAIN AsElement
    BY <1>1, <2>1 DEF XMLKeeps
  <2> QED BY <2>2, TextAssumption
<1>3. ASSUME "USERDEFINED_PARAMETERS" \in DOMAIN p,
             NEW x \in Range(p["USERDEFINED_PARAMETERS"])
      PROVE  AsElement[x.value] # UnreadableText
  <2> DEFINE list == env.val["USERDEFINED_PARAMETERS"]
  <2>1. /\ p["USERDEFINED_PARAMETERS"] = list
        /\ list \in Seq([name : DOMAIN AsAttribute, value : DOMAIN AsElement])
        /\ ParseUserdefinedParameters(list) = list
    BY <1>1, <1>3 DEF PlainEnvelope, Keeps, KnownParameters, XMLKeeps
  <2> HIDE DEF list
  <2>2. PICK i \in DOMAIN list : x = list[i]
    BY <1>3, <2>1 DEF Range
  <2>3. list[i] \in [name : DOMAIN AsAttribute, value : DOMAIN AsElement]
    <3>1. \A S : \A l \in Seq(S) : \A k \in DOMAIN l : l[k] \in S
      OBVIOUS
    <3> QED BY <2>1, <2>2, <3>1
  <2>4. list[i] = [name |-> AsAttribute[list[i].name], value |-> AsElement[list[i].value]]
    BY <2>1 DEF ParseUserdefinedParameters
  <2>5. AsElement[x.value] = x.value /\ x.value \in DOMAIN AsElement
    BY <2>2, <2>3, <2>4
  <2> QED BY <2>5, TextAssumption
<1>4. XMLReadable(p)
  BY <1>2, <1>3 DEF XMLReadable
<1> QED BY <1>4 DEF p

\* and once sent in either encoding it still is such an envelope.
LEMMA SentPlainEnvelope ==
  ASSUME NEW env, PlainEnvelope(env), NEW r
  PROVE  PlainEnvelope(SentEnvelope(env, r)) /\ PlainEnvelope(SentBaseEnvelope(env, r))
<1> DEFINE U == "USERDEFINED_PARAMETERS"
<1>1. ASSUME NEW f \in TextElement \cap env.set, r = "XML" => Carried(env.val[f], f)
      PROVE  XMLKeeps(f, ReadAs(r, f, env.val[f]))
  <2>1. XMLKeeps(f, env.val[f])
    BY DEF PlainEnvelope, Keeps
  <2>2. r = "XML" => AsElement[env.val[f]] = env.val[f]
    BY <1>1, <2>1 DEF XMLKeeps, Carried
  <2> QED BY <2>1, <2>2 DEF ReadAs
<1>2. \A f \in TextElement : f # "ACL_REPRESENTATION"
  BY DEF TextElement
<1>3. ASSUME NEW sent,
             U \in sent.set => \/ U \in env.set /\ sent.val[U] = env.val[U]
                              \/ sent.val[U] = <<>>
      PROVE  /\ U \in sent.set => XMLKeeps(U, sent.val[U])
             /\ KnownParameters(sent)
  <2>1. XMLKeeps(U, <<>>)
    BY DEF XMLKeeps, ParseUserdefinedParameters, TextElement
  <2>2. <<>> \in Seq([name : DOMAIN AsAttribute, value : DOMAIN AsElement])
    OBVIOUS
  <2>3. U \in env.set => XMLKeeps(U, env.val[U])
    BY DEF PlainEnvelope, Keeps
  <2> QED BY <1>3, <2>1, <2>2, <2>3 DEF PlainEnvelope, KnownParameters
<1>4. CASE r = "XML"
  <2> DEFINE p == XMLParameters(env)
             sent == ParseParameters(p)
  <2>1. \A f \in DOMAIN p : f \in env.set /\ p[f] = env.val[f]
    BY DEF XMLParameters
  <2>2. U \in Field /\ U \notin TextElement /\ U # "RECEIVED_OBJECT" /\ NewEnvelope.val[U] = <<>>
    BY DEF Field, TextElement, NewEnvelope
  <2>3. sent.val[U] = IF U \in DOMAIN p THEN ParseElement(U, p[U]) ELSE <<>>
    BY <2>2 DEF ParseParameters
  <2>4. U \in DOMAIN p => ParseElement(U, p[U]) = env.val[U]
    <3>1. U \in DOMAIN p => ParseUserdefinedParameters(env.val[U]) = env.val[U]
      BY <2>1 DEF PlainEnvelope, Keeps, XMLKeeps
    <3> QED BY <2>1, <2>2, <3>1 DEF ParseElement
  <2>5. \A f \in TextElement \cap sent.set : XMLKeeps(f, sent.val[f])
    BY <1>1, <1>4, TextFields, SentTells DEF SentEnvelope
  <2> HIDE DEF p, sent
  <2>6. PlainEnvelope(sent)
    <3>1. /\ U \in sent.set => XMLKeeps(U, sent.val[U])
          /\ KnownParameters(sent)
      BY <1>3, <2>1, <2>3, <2>4
    <3> QED BY <2>5, <3>1, KeepsTexts DEF PlainEnvelope
  <2> QED BY <1>4, <2>6 DEF SentEnvelope, SentBaseEnvelope, p, sent
<1>5. CASE r # "XML"
  <2> DEFINE p == GetParameters(env)
             ext == Set(NewEnvelope, "RECEIVED_OBJECT", env.val["RECEIVED_OBJECT"])
             base == Set(Set(NewEnvelope, "ACL_REPRESENTATION", env.val["ACL_REPRESENTATION"]),
                         "DATE", env.val["DATE"])
  <2>1. U \notin DOMAIN p /\ U \notin ext.set /\ U \notin base.set /\ U # "PAYLOAD_LENGTH"
    BY DEF GetParameters, WrittenFields, Set, NewEnvelope
  <2>2. DOMAIN ext.val = Field /\ DOMAIN base.val = Field
    BY DEF Set, NewEnvelope
  <2>3. /\ SentEnvelope(env, r) = MergeParameters(ext, p)
        /\ SentBaseEnvelope(env, r) = MergeParameters(base, p)
    BY <1>5 DEF SentEnvelope, SentBaseEnvelope, DecodedExt, DecodedBase, EncodedExt, EncodedBase
  <2> HIDE DEF p, ext, base
  <2>4. U \notin SentEnvelope(env, r).set /\ U \notin SentBaseEnvelope(env, r).set
    <3>1. ASSUME NEW header, DOMAIN header.val = Field, U \notin header.set
          PROVE  U \notin MergeParameters(header, p).set
      <4> DEFINE read == MergeParameters(header, p)
      <4>1. read = [set |-> header.set \cup {"PAYLOAD_LENGTH"} \cup DOMAIN p, val |-> read.val]
        BY <3>1, MergedIs
      <4> HIDE DEF read
      <4>2. read.set = header.set \cup {"PAYLOAD_LENGTH"} \cup DOMAIN p
        BY <4>1
      <4> QED BY <2>1, <3>1, <4>2 DEF read
    <3> QED BY <2>1, <2>2, <2>3, <3>1
  <2>5. /\ \A f \in TextElement \cap SentEnvelope(env, r).set :
             XMLKeeps(f, SentEnvelope(env, r).val[f])
        /\ \A f \in TextElement \cap SentBaseEnvelope(env, r).set :
             XMLKeeps(f, SentBaseEnvelope(env, r).val[f])
    BY <1>1, <1>2, TextFields, SentTells, SentBaseTells
  <2> QED BY <2>4, <2>5, KeepsTexts DEF PlainEnvelope, KnownParameters
<1> QED BY <1>4, <1>5

\* An operation that sets the field f of a new or of the base envelope.
LEMMA GivenPlain ==
  ASSUME PlainInv, NEW f \in Field, NEW v, plain' = (plain /\ XMLKeeps(f, v)),
         f = "USERDEFINED_PARAMETERS"
           => v \in Seq([name : DOMAIN AsAttribute, value : DOMAIN AsElement]),
         NEW old, old = NewEnvelope \/ old \in Envelopes(letter),
         DOMAIN old.val = Field,
         Envelopes(letter') \subseteq Envelopes(letter) \cup {Set(old, f, v)}
  PROVE  PlainInv'
<1> SUFFICES ASSUME plain' PROVE PlainEnvelope(Set(old, f, v))
  BY DEF PlainInv
<1>1. XMLKeeps(f, v) /\ PlainEnvelope(old)
  <2>1. plain /\ XMLKeeps(f, v)
    OBVIOUS
  <2>2. PlainEnvelope(NewEnvelope)
    BY DEF PlainEnvelope, Keeps, KnownParameters, NewEnvelope
  <2> QED BY <2>1, <2>2 DEF PlainInv
<1> DEFINE new == Set(old, f, v)
<1>2. new.set = old.set \cup {f} /\ new.val[f] = v
      /\ \A g \in DOMAIN old.val : g # f => new.val[g] = old.val[g]
  BY DEF Set
<1> HIDE DEF new
<1>3. TextElement \cup {"USERDEFINED_PARAMETERS"} \subseteq DOMAIN old.val
  BY DEF TextElement, Field
<1>4. Keeps(new)
  BY <1>1, <1>2, <1>3, KeepsTexts DEF PlainEnvelope
<1>5. KnownParameters(new)
  BY <1>1, <1>2, <1>3 DEF PlainEnvelope, KnownParameters
<1> QED BY <1>4, <1>5 DEF PlainEnvelope, new

\* An envelope laid over the letter.
LEMMA LayOverPlain ==
  ASSUME PlainInv, NEW f \in Field \ {"USERDEFINED_PARAMETERS"}, NEW v, Given(f, v),
         IsSeq(letter.extra), letter'.base = letter.base,
         letter'.extra = Append(letter.extra, Set(NewEnvelope, f, v))
  PROVE  PlainInv'
<1>1. DOMAIN NewEnvelope.val = Field
  BY DEF NewEnvelope
<1>2. Envelopes(letter') \subseteq Envelopes(letter) \cup {Set(NewEnvelope, f, v)}
  <2> DEFINE env == Set(NewEnvelope, f, v)
  <2> HIDE DEF env
  <2>1. /\ DOMAIN letter'.extra = DOMAIN letter.extra \cup {Len(letter.extra) + 1}
        /\ \A i \in DOMAIN letter.extra : letter'.extra[i] = letter.extra[i]
        /\ letter'.extra[Len(letter.extra) + 1] = env
    BY Appended DEF env, IsSeq
  <2>2. Envelopes(letter') \subseteq Envelopes(letter) \cup {env}
    BY <2>1 DEF Envelopes, Range
  <2> QED BY <2>2 DEF env
<1>3. plain' = (plain /\ XMLKeeps(f, v))
  BY DEF Given
<1> QED BY <1>1, <1>2, <1>3, GivenPlain

LEMMA PlainNext ==
  ASSUME KnownInv, ToldInv, PlainInv, [Next]_vars PROVE PlainInv'
<1>0. /\ DOMAIN letter = {"base", "extra", "payload"} /\ IsSeq(letter.extra)
      /\ DOMAIN letter.base = {"set", "val"} /\ DOMAIN letter.base.val = Field
      /\ letter.base \in Envelopes(letter)
  BY DEF KnownInv, WellMade, Overlays, ToldInv, BaseMade, IsSeq, Envelopes
<1>1. CASE UNCHANGED vars
  BY <1>1 DEF vars, PlainInv
<1>2. ASSUME NEW m \in Messages, NEW r, InsertMessage(m, r) PROVE PlainInv'
  <2> DEFINE fields == InsertedFields(m, r, steps)
  <2>1. /\ "USERDEFINED_PARAMETERS" \in Field \ DOMAIN fields
        /\ "PAYLOAD_ENCODING" \in DOMAIN fields /\ fields["PAYLOAD_ENCODING"] = m.encoding
        /\ \A f \in TextElement : f \in DOMAIN fields => f = "PAYLOAD_ENCODING"
        /\ TextElement \subseteq Field
    BY DEF InsertedFields, TextElement, Field
  <2>2. /\ letter'.extra = letter.extra
        /\ letter'.base.set = letter.base.set \cup DOMAIN fields
        /\ letter'.base.val = [f \in Field |-> IF f \in DOMAIN fields THEN fields[f]
                                               ELSE letter.base.val[f]]
        /\ plain' = (plain /\ XMLKeeps("PAYLOAD_ENCODING", m.encoding))
    BY <1>2 DEF InsertMessage, Insert
  <2> HIDE DEF fields
  <2> SUFFICES ASSUME plain' PROVE PlainEnvelope(letter'.base)
    BY <2>2 DEF PlainInv, Envelopes
  <2>3. plain /\ XMLKeeps("PAYLOAD_ENCODING", m.encoding)
    BY <2>2
  <2>4. PlainEnvelope(letter.base)
    BY <1>0, <2>3 DEF PlainInv
  <2>5. /\ \A f \in TextElement \cap letter'.base.set : XMLKeeps(f, letter'.base.val[f])
        /\ "USERDEFINED_PARAMETERS" \in letter'.base.set
             => /\ "USERDEFINED_PARAMETERS" \in letter.base.set
                /\ letter'.base.val["USERDEFINED_PARAMETERS"]
                     = letter.base.val["USERDEFINED_PARAMETERS"]
    BY <2>1, <2>2, <2>3, <2>4, KeepsTexts DEF PlainEnvelope
  <2> QED BY <2>4, <2>5, KeepsTexts DEF PlainEnvelope, KnownParameters
<1>3. ASSUME EditBase PROVE PlainInv'
  <2>1. letter.extra = <<>>
    BY <1>3 DEF EditBase
  <2>2. ASSUME NEW f \in {"COMMENTS", "USERDEFINED_PARAMETERS"}, NEW v,
               letter' = [letter EXCEPT !.base = Set(@, f, v)], Given(f, v),
               f = "USERDEFINED_PARAMETERS" => v \in Parameters
        PROVE  PlainInv'
    <3>1. f \in Field
      BY DEF Field
    <3>2. Envelopes(letter') \subseteq Envelopes(letter) \cup {Set(letter.base, f, v)}
      BY <1>0, <2>2 DEF Envelopes
    <3>3. plain' = (plain /\ XMLKeeps(f, v))
      BY <2>2 DEF Given
    <3>4. f = "USERDEFINED_PARAMETERS"
            => v \in Seq([name : DOMAIN AsAttribute, value : DOMAIN AsElement])
      BY <2>2, GivenTextsAssumption
    <3> QED BY <1>0, <3>1, <3>2, <3>3, <3>4, GivenPlain
  <2>3. ASSUME NEW a, NEW base, base \in {AddTo(letter.base, a), RemoveTo(letter.base, a)},
               letter' = [letter EXCEPT !.base = base], Given("TO", base.val["TO"])
        PROVE  PlainInv'
    <3>1. letter'.base = base /\ letter'.extra = letter.extra
      BY <1>0, <2>3
    <3>2. base.set = letter.base.set /\ \A g \in Field \ {"TO"} : base.val[g] = letter.base.val[g]
      <4>1. CASE base = letter.base
        BY <4>1
      <4>2. ASSUME NEW w, base = [letter.base EXCEPT !.val["TO"] = w]
            PROVE  base.set = letter.base.set /\ base.val = [letter.base.val EXCEPT !["TO"] = w]
        BY <1>0, <4>2
      <4>3. base = letter.base \/ \E w : base = [letter.base EXCEPT !.val["TO"] = w]
        BY <2>3 DEF AddTo, RemoveTo
      <4> QED BY <1>0, <4>1, <4>2, <4>3
    <3>3. plain' => plain
      BY <2>3 DEF Given
    <3>4. TextElement \cup {"USERDEFINED_PARAMETERS"} \subseteq Field \ {"TO"}
      BY DEF TextElement, Field
    <3>5. PlainEnvelope(letter.base) => PlainEnvelope(base)
      BY <3>2, <3>4, KeepsTexts DEF PlainEnvelope, KnownParameters
    <3>6. Envelopes(letter') \subseteq Envelopes(letter) \cup {base}
      BY <3>1 DEF Envelopes
    <3> QED BY <1>0, <3>3, <3>5, <3>6 DEF PlainInv
  <2> QED BY <1>3, <2>2, <2>3 DEF EditBase
<1>4. {"COMMENTS", "ACL_REPRESENTATION", "RECEIVED_OBJECT", "INTENDED_RECEIVERS"}
        \subseteq Field \ {"USERDEFINED_PARAMETERS"}
  BY DEF Field
<1>5. ASSUME NEW c, Comment(c) PROVE PlainInv'
  <2>1. /\ letter'.extra = Append(letter.extra, Set(NewEnvelope, "COMMENTS", c))
        /\ letter'.base = letter.base /\ Given("COMMENTS", c)
    BY <1>0, <1>5 DEF Comment, AddExtraEnvelope
  <2> QED BY <1>0, <1>4, <2>1, LayOverPlain
<1>6. ASSUME NEW r, Reencode(r) PROVE PlainInv'
  <2>1. /\ letter'.extra = Append(letter.extra, Set(NewEnvelope, "ACL_REPRESENTATION", r))
        /\ letter'.base = letter.base /\ Given("ACL_REPRESENTATION", r)
    BY <1>0, <1>6 DEF Reencode, AddExtraEnvelope
  <2> QED BY <1>0, <1>4, <2>1, LayOverPlain
<1>7. ASSUME NEW a \in Agents, Dedicate(a) PROVE PlainInv'
  <2>1. /\ letter'.extra = Append(letter.extra, Set(NewEnvelope, "INTENDED_RECEIVERS", <<a>>))
        /\ letter'.base = letter.base /\ Given("INTENDED_RECEIVERS", <<a>>)
    BY <1>0, <1>7 DEF Dedicate, CreateDedicatedEnvelope, AddExtraEnvelope
  <2> QED BY <1>0, <1>4, <2>1, LayOverPlain
<1>8. ASSUME NEW a \in Agents, StampLetter(a) PROVE PlainInv'
  <2> DEFINE receipt == Receipt(a, stampCounter + 1)
  <2>1. receipt.id = stampCounter + 1
    BY DEF Receipt, NoReceipt
  <2>2. /\ letter'.extra = Append(letter.extra, Set(NewEnvelope, "RECEIVED_OBJECT", receipt))
        /\ letter'.base = letter.base /\ Given("RECEIVED_OBJECT", receipt)
    BY <1>0, <1>8, <2>1 DEF StampLetter, Stamp, AddExtraEnvelope
  <2> HIDE DEF receipt
  <2> QED BY <1>0, <1>4, <2>2, LayOverPlain
<1>9. ASSUME NEW a \in Agents, NEW via, StampBaseEnvelope(a, via) PROVE PlainInv'
  <2> DEFINE receipt == [Receipt(a, 0) EXCEPT !.via = via]
  <2>1. /\ letter' = [letter EXCEPT !.base = Set(@, "RECEIVED_OBJECT", receipt)]
        /\ Given("RECEIVED_OBJECT", receipt)
    BY <1>9 DEF StampBaseEnvelope
  <2> HIDE DEF receipt
  <2>2. Envelopes(letter') \subseteq Envelopes(letter) \cup {Set(letter.base, "RECEIVED_OBJECT", receipt)}
    BY <1>0, <2>1 DEF Envelopes
  <2>3. plain' = (plain /\ XMLKeeps("RECEIVED_OBJECT", receipt))
    BY <2>1 DEF Given
  <2> QED BY <1>0, <1>4, <2>2, <2>3, GivenPlain
<1>10. ASSUME NEW r, Deliver(r) PROVE PlainInv'
  <2>1. \A env \in Envelopes(letter') :
          \E old \in Envelopes(letter) :
            env = SentEnvelope(old, r) \/ env = SentBaseEnvelope(old, r)
    BY <1>10 DEF Deliver, Transmitted, Envelopes, Range
  <2>2. plain' = plain
    BY <1>10 DEF Deliver
  <2> QED BY <2>1, <2>2, SentPlainEnvelope DEF PlainInv
<1> QED BY <1>1, <1>2, <1>3, <1>5, <1>6, <1>7, <1>8, <1>9, <1>10, DeliveredOrNot DEF Next

\* A letter all of whose texts XML carries as they are is never refused: what either
\* encoding makes of a letter can be read again, however often it is sent, and
\* neither empty comments nor an empty encoding stop it.
THEOREM PlainLettersRead == Spec => []PlainIsRead
<1>1. Init => KnownInv /\ ToldInv /\ PlainInv
  <2> SUFFICES ASSUME Init PROVE PlainInv
    BY KnownInit, ToldInit
  <2>1. Envelopes(letter) = {NewEnvelope}
    BY DEF Init, NewLetter, Envelopes, Range
  <2> QED BY <2>1 DEF PlainInv, PlainEnvelope, Keeps, KnownParameters, NewEnvelope
<1>2. ToldInv /\ PlainInv => PlainIsRead
  <2> SUFFICES ASSUME ToldInv, PlainInv, plain, NEW r PROVE Deserializable(letter, r)
    BY DEF PlainIsRead
  <2>1. \A env \in Envelopes(letter) : PlainEnvelope(env) /\ KnownTexts(env)
    BY DEF PlainInv, ToldInv, TextsKnown
  <2> QED BY <2>1, PlainReadable DEF Deserializable
<1> QED BY <1>1, <1>2, KnownNext, ToldNext, PlainNext, PTL DEF Spec

=============================================================================
