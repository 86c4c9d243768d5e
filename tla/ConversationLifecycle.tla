------------------------ MODULE ConversationLifecycle ------------------------
(***************************************************************************)
(* What a conversation promises those who watch it, and nothing of how it  *)
(* validates messages: the sequence of event classes it notifies and the   *)
(* status they lead to.  Conversation implements it.                       *)
(***************************************************************************)
CONSTANTS
  Handle,      \* the conversations
  EndIsFinal   \* no protocol in use goes on after a final state

VARIABLES
  status,  \* [Handle -> status, or "ABSENT" before the object exists]
  event    \* [Handle -> last event class, or "none"]

vars == <<status, event>>

\* Some of the objects may exist from the start.
Init ==
  /\ status \in [Handle -> {"ABSENT", "UNINITIALIZED"}]
  /\ event = [h \in Handle |-> "none"]

\* The one status each event class leads to.
Leads(e, s) ==
  \/ e \in {"START_OF_CONVERSATION", "INTERMEDIATE_UPDATE"} /\ s = "RUNNING"
  \/ e = "END_OF_CONVERSATION" /\ s = "ENDED"
  \/ e = "FAILURE" /\ s = "FAILED"

Create(h) ==
  /\ status[h] = "ABSENT"
  /\ status' = [status EXCEPT ![h] = "UNINITIALIZED"]
  /\ UNCHANGED event

\* A conversation starts once, never goes on after a failure, and after its
\* end only if the protocol provides for it.
Notify(h, e, s) ==
  /\ Leads(e, s)
  /\ e = "START_OF_CONVERSATION" => status[h] \in {"ABSENT", "UNINITIALIZED"}
  /\ status[h] # "FAILED"
  /\ status[h] = "ENDED" => ~EndIsFinal
  /\ status' = [status EXCEPT ![h] = s]
  /\ event' = [event EXCEPT ![h] = e]

Copy(h, g) ==
  /\ status[h] # "ABSENT"
  /\ status[g] = "ABSENT"
  /\ status' = [status EXCEPT ![g] = status[h]]
  /\ event' = [event EXCEPT ![g] = event[h]]

Next ==
  \E h \in Handle :
    \/ Create(h)
    \/ \E e \in {"START_OF_CONVERSATION", "INTERMEDIATE_UPDATE",
                 "END_OF_CONVERSATION", "FAILURE"},
          s \in {"RUNNING", "ENDED", "FAILED"} : Notify(h, e, s)
    \/ \E g \in Handle : Copy(h, g)

Spec == Init /\ [][Next]_vars
=============================================================================
