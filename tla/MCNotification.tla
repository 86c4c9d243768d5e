--------------------------- MODULE MCNotification ---------------------------
(***************************************************************************)
(* Instances of Notification for TLC.                                      *)
(***************************************************************************)
EXTENDS Notification

\* Waiting threads wait for an observer that nobody polls.
WaitsAlone == [w \in Waiter |-> CHOOSE o \in Observer \ Polled : TRUE]

\* Every waiting thread waits for the same observer.
WaitsForAny == [w \in Waiter |-> CHOOSE o \in Observer : TRUE]
=============================================================================
