------------------------------ MODULE MCMonitor ------------------------------
(***************************************************************************)
(* Instances of ConversationMonitor for TLC; see MCConversation.           *)
(***************************************************************************)
EXTENDS MCConversation, ConversationMonitor

\* Everything may be inserted directly as well, or nothing.
Everything == Sendable
NoDirect   == {}

\* The owner as the only initiator, one partner.
OwnerRoutes == {<<p, Owner, Agent \ {Owner}>> : p \in Protocol}
=============================================================================
