-------------------------------- MODULE Letters --------------------------------
(***************************************************************************)
(* A letter on its way: an agent inserts a message and edits the base      *)
(* envelope, message transport services lay envelopes over it, stamp it,   *)
(* dedicate it to one receiver, and send it on.                            *)
(***************************************************************************)
EXTENDS Envelope

CONSTANTS
  Agents,          \* the agents that stamp and receive letters
  Messages,        \* records of receivers, sender and encoding
  Comments,        \* the comments given to setComments, "" for empty ones
  Vias,            \* the texts given to a receipt's setVia
  Parameters,      \* the lists given to setUserdefinedParameters
  MaxSteps         \* operations on a letter, transmissions not counted

ASSUME LettersAssumption ==
  /\ Nobody \notin Agents
  /\ Vias \subseteq Nat
  /\ MaxSteps \in Nat

(* setAllReceivers lets an agent be twice among the receivers.             *)
ASSUME ReceiversAssumption == \A m \in Messages : m.receivers \in Seq(Agents)

ASSUME GivenTextsAssumption ==
  /\ Comments \cup {m.encoding : m \in Messages} \subseteq DOMAIN AsElement
  /\ \A params \in Parameters :
       params \in Seq([name : DOMAIN AsAttribute, value : DOMAIN AsElement])

VARIABLES
  letter,
  stampCounter,    \* mStampCounter
  steps,
  (* history *)
  stamps,          \* the receipts given, in time order
  latest,          \* for each field the value it was last given
  shadowed,        \* the fields an older envelope still lay over when a
                   \* message was inserted
  plain,           \* XML carries all texts given so far as they are
  sentAs           \* the representation the letter was last sent in, if
                   \* nothing was done to it since ("UNKNOWN" otherwise)

vars == <<letter, stampCounter, steps, stamps, latest, shadowed, plain, sentAs>>

Init ==
  /\ letter = NewLetter
  /\ stampCounter = 0
  /\ steps = 0
  /\ stamps = <<>>
  /\ latest = NewEnvelope.val
  /\ shadowed = {}
  /\ plain = TRUE
  /\ sentAs = "UNKNOWN"

Step ==
  /\ steps < MaxSteps
  /\ steps' = steps + 1
  /\ sentAs' = "UNKNOWN"

(* An XML reader of the field f gets the value v, if it was written.       *)
XMLKeeps(f, v) ==
  /\ f \in TextElement /\ v # "" => AsElement[v] = v
  /\ f = "USERDEFINED_PARAMETERS" => ParseUserdefinedParameters(v) = v

(* f was given the value v on top of everything.                           *)
Given(f, v) ==
  /\ latest' = [latest EXCEPT ![f] = v]
  /\ shadowed' = shadowed \ {f}
  /\ plain' = (plain /\ XMLKeeps(f, v))

InsertMessage(message, representation) ==
  LET fields == InsertedFields(message, representation, steps) IN
  /\ Step
  /\ letter' = Insert(letter, message, representation, steps)
  /\ latest' = [f \in Field |-> IF f \in DOMAIN fields THEN fields[f] ELSE latest[f]]
  /\ shadowed' = DOMAIN fields \cap UNION {e.set : e \in Range(letter.extra)}
  /\ plain' = (plain /\ XMLKeeps("PAYLOAD_ENCODING", message.encoding))
  /\ UNCHANGED <<stampCounter, stamps>>

(* The author edits the base envelope before any other is laid over it.    *)
EditBase ==
  /\ Step
  /\ letter.extra = <<>>
  /\ \/ \E c \in Comments :
          /\ letter' = [letter EXCEPT !.base = Set(@, "COMMENTS", c)]
          /\ Given("COMMENTS", c)
     \/ \E p \in Parameters :
          /\ letter' = [letter EXCEPT !.base = Set(@, "USERDEFINED_PARAMETERS", p)]
          /\ Given("USERDEFINED_PARAMETERS", p)
     \/ \E a \in Agents, change \in {"add", "remove"} :
          LET base == IF change = "add" THEN AddTo(letter.base, a)
                                        ELSE RemoveTo(letter.base, a)
          IN /\ letter' = [letter EXCEPT !.base = base]
             /\ Given("TO", base.val["TO"])
  /\ UNCHANGED <<stampCounter, stamps>>

(* A service comments, or writes the payload in another representation.    *)
Comment(c) ==
  /\ Step
  /\ letter' = AddExtraEnvelope(letter, Set(NewEnvelope, "COMMENTS", c))
  /\ Given("COMMENTS", c)
  /\ UNCHANGED <<stampCounter, stamps>>

Reencode(representation) ==
  /\ Step
  /\ GetACLMessage(letter) # NotRead
  /\ letter' = [AddExtraEnvelope(letter,
                  Set(NewEnvelope, "ACL_REPRESENTATION", representation))
                EXCEPT !.payload = PayloadOf(@.message, representation)]
  /\ Given("ACL_REPRESENTATION", representation)
  /\ UNCHANGED <<stampCounter, stamps>>

StampLetter(agent) ==
  LET receipt == Receipt(agent, stampCounter + 1) IN
  /\ Step
  /\ letter' = Stamp(letter, agent, receipt.id)
  /\ stampCounter' = receipt.id
  /\ stamps' = Append(stamps, receipt)
  /\ Given("RECEIVED_OBJECT", receipt)

(* The base envelope's own stamp method, with a receipt that has no id     *)
(* and may tell the service it came through.                               *)
StampBaseEnvelope(agent, via) ==
  LET receipt == [Receipt(agent, 0) EXCEPT !.via = via] IN
  /\ Step
  /\ letter.extra = <<>>
  /\ "RECEIVED_OBJECT" \notin letter.base.set
  /\ letter' = [letter EXCEPT !.base = Set(@, "RECEIVED_OBJECT", receipt)]
  /\ stamps' = Append(stamps, receipt)
  /\ Given("RECEIVED_OBJECT", receipt)
  /\ UNCHANGED stampCounter

(* The copy that createDedicatedEnvelope returns goes on in its place.     *)
Dedicate(agent) ==
  /\ Step
  /\ letter' = CreateDedicatedEnvelope(letter, agent)
  /\ Given("INTENDED_RECEIVERS", <<agent>>)
  /\ UNCHANGED <<stampCounter, stamps>>

(* A letter that cannot be read stays with the sender.                     *)
Transmit(representation) ==
  /\ Sendable(letter, representation)
  /\ IF Deserializable(letter, representation)
     THEN /\ letter' = Transmitted(letter, representation)
          /\ sentAs' = representation
     ELSE UNCHANGED <<letter, sentAs>>
  /\ UNCHANGED <<stampCounter, steps, stamps, latest, shadowed, plain>>

Next ==
  \/ \E m \in Messages, r \in Representation \ {"UNKNOWN"} : InsertMessage(m, r)
  \/ EditBase
  \/ \E c \in Comments : Comment(c)
  \/ \E r \in Representation \ {"UNKNOWN"} : Reencode(r)
  \/ \E a \in Agents : StampLetter(a) \/ Dedicate(a)
  \/ \E a \in Agents, v \in Vias : StampBaseEnvelope(a, v)
  \/ \E r \in Representation : Transmit(r)

Spec == Init /\ [][Next]_vars

------------------------------------------------------------------------------
(***************************************************************************)
(* Properties                                                              *)
(***************************************************************************)
(* The agents that are more than once in a list.                           *)
Doubled(list) == {list[i] : i \in {j \in DOMAIN list : \E k \in 1..(j - 1) : list[k] = list[j]}}

(* Every envelope has a receipt, a representation and lists of agents; who *)
(* is twice among the addressees is so in the message, whose receivers are *)
(* the intended ones.                                                      *)
EnvelopeOK(env) ==
  /\ env.set \subseteq Field
  /\ DOMAIN env.val = Field
  /\ env.val["ACL_REPRESENTATION"] \in Representation
  /\ env.val["RECEIVED_OBJECT"].by \in Agents \cup {Nobody}
  /\ Range(env.val["TO"]) \cup Range(env.val["INTENDED_RECEIVERS"]) \subseteq Agents
  /\ Doubled(env.val["TO"]) \subseteq Doubled(env.val["INTENDED_RECEIVERS"])

LettersTypeOK ==
  /\ EnvelopeOK(letter.base)
  /\ \A e \in Range(letter.extra) : EnvelopeOK(e)
  /\ stampCounter \in 0..MaxSteps
  /\ steps \in 0..MaxSteps
  /\ shadowed \subseteq Field
  /\ plain \in BOOLEAN

NamedHops(path) ==
  FlattenSeq([i \in DOMAIN path |-> IF path[i].by # Nobody THEN <<path[i]>> ELSE <<>>])

(* The delivery path tells who stamped the letter, in time order, however  *)
(* often and in whichever representation it was sent and whatever was laid *)
(* over it in between, and each receipt still has its id.  (Hops without a *)
(* name are left out here, see PathIsStamps; and so are the ids of the     *)
(* receipts that came through some service, see ReceiptsKept.)             *)
PathInTimeOrder ==
  LET path == NamedHops(DeliveryPath(letter)) IN
  /\ Len(path) = Len(stamps)
  /\ \A i \in DOMAIN stamps :
       /\ path[i].by = stamps[i].by
       /\ stamps[i].via = 0 => path[i].id = stamps[i].id

(* An agent finds its stamp on a letter if and only if it stamped it:      *)
(* after any number of transmissions loops are still found out.  (Stamps   *)
(* in the base envelope are left out here: see StampsOfAnyEnvelope.)       *)
StampsKnown ==
  \A a \in Agents :
    HasStamp(letter, a) <=>
      \E i \in DOMAIN stamps : stamps[i].by = a /\ stamps[i].id > 0

(* The message that was inserted last can be read from the letter, also    *)
(* after its payload was written in another representation and sent,       *)
(* unless an older envelope still says how the payload before it was       *)
(* written.                                                                *)
Readable ==
  letter.payload # NoPayload /\ "ACL_REPRESENTATION" \notin shadowed =>
    GetACLMessage(letter) = letter.payload.message

(* What the encodings do not carry: empty comments or an empty encoding of *)
(* the payload (XML), and addressees that were added where none were set   *)
(* before (both).                                                          *)
NotCarried(f) ==
  \/ f \in TextElement /\ latest[f] = ""
  \/ f = "TO" /\ f \notin letter.base.set

(* XMLVersions[t] are the texts that XML makes of t, sent any number of    *)
(* times: the elements of every set that holds t and what is read back of  *)
(* its elements.                                                           *)
XMLVersions ==
  [t \in DOMAIN AsElement |->
     {u \in DOMAIN AsElement :
        \A T \in SUBSET DOMAIN AsElement :
          t \in T /\ (\A v \in T : AsElement[v] \in T \cup {UnreadableText}) => u \in T}]

(* What may be told of a field that was given the value v: that value, or  *)
(* what XML made of it.                                                    *)
Versions(f, v) ==
  IF f \in TextElement /\ v \in DOMAIN AsElement THEN XMLVersions[v] ELSE {v}

(* Base and extra envelopes together tell the value that each field was    *)
(* last given, as far as XML keeps the text of comments and encoding, and  *)
(* where transmission is meant to carry it: the overlay only ever hides    *)
(* what is older.  (User-defined parameters are left out here: see         *)
(* ParametersKept.)                                                        *)
LatestWins ==
  \A f \in Field \ (shadowed \cup {"PAYLOAD_LENGTH", "RECEIVED_OBJECT", "DATE",
                                   "USERDEFINED_PARAMETERS"}) :
    NotCarried(f) \/ Flattened(letter).val[f] \in Versions(f, latest[f])

(* A letter is refused only on account of a text that XML alters, or of a  *)
(* user-defined parameter with an empty value, though that may long have   *)
(* been hidden by a later overlay: empty comments, an empty encoding or    *)
(* what the encodings make of a letter never get it refused.               *)
PlainIsRead == plain => \A r \in Representation : Deserializable(letter, r)

(* What transmission does to a letter it does at once: a letter that is    *)
(* forwarded untouched in the representation it came in stays as it was    *)
(* received, where the texts that are left are ones that XML keeps.  (A    *)
(* reference may have hidden another one.)                                 *)
ForwardedUnchanged ==
  [][/\ sentAs # "UNKNOWN" /\ sentAs' = sentAs
     /\ sentAs = "XML" =>
          \A env \in Envelopes(letter) : \A f \in env.set : XMLKeeps(f, env.val[f])
     => letter' = letter]_vars

(* "Retrieve the delivery path from the received object in base and extra  *)
(* envelopes, i.e. will not include the current hop (unless stamped)"      *)
(* (acl_envelope.h): every hop is somebody's stamp.                        *)
PathIsStamps == DeliveryPath(letter) = stamps

(* "True, if the agent id is set in one of the received objects, false     *)
(* otherwise" (acl_envelope.h).                                            *)
StampsOfAnyEnvelope ==
  \A i \in DOMAIN stamps : HasStamp(letter, stamps[i].by)

(* A receipt keeps its id ("The unique identifier of a message", received_ *)
(* object.h) and the service it came through ("The type of MTP the message *)
(* was delivered over").                                                   *)
ReceiptsKept == NamedHops(DeliveryPath(letter)) = stamps

(* The user-defined parameters are those that were set ("Userdefined       *)
(* parameter than can be set for an envelope", acl_envelope.h).            *)
ParametersKept ==
  Flattened(letter).val["USERDEFINED_PARAMETERS"] = latest["USERDEFINED_PARAMETERS"]

(* An agent added with addTo is among the addressees once the letter is    *)
(* read ("Add an agent identifier to the destination list",                *)
(* acl_envelope.h).                                                        *)
AddresseesKept == Flattened(letter).val["TO"] = latest["TO"] \/ "TO" \in shadowed

(* "Existing settings will be overwritten" (acl_envelope.h, insert): what  *)
(* an insertion sets is what the letter tells.                             *)
InsertOverwrites ==
  [][\A m \in Messages, r \in Representation :
       InsertMessage(m, r) =>
         LET fields == InsertedFields(m, r, steps) IN
         \A f \in DOMAIN fields : Flattened(letter').val[f] = fields[f]]_vars

(* The payload length is that of the payload, where there is one ("The ACC *)
(* may use this information to improve parsing efficiency",                *)
(* acl_envelope.h).                                                        *)
LengthOfPayload ==
  Flattened(letter).val["PAYLOAD_LENGTH"] # HeaderLength

==============================================================================
