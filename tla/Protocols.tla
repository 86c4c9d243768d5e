------------------------------ MODULE Protocols ------------------------------
(***************************************************************************)
(* The interaction protocols shipped in configuration/protocols, as the    *)
(* files parse: initial state "1", roles "initiator" and "B".              *)
(***************************************************************************)
EXTENDS ProtocolLoader, TLC

ToB(perf, target)         == Trans(perf, "initiator", "B", target)
ToInitiator(perf, target) == Trans(perf, "B", "initiator", target)
AnyToB(target) == Transition(AllPerformatives, "initiator", "B", target)

\* No <subprotocol> anywhere.
NoSubprotocol == [s \in {} |-> <<>>]

\* The answers of request, request-when and (under other names) query.
RefuseOrAgree == <<ToInitiator("refuse", "3"), ToInitiator("agree", "4")>>

inform == File({"2"}, "1" :> <<ToB("inform", "2")>>, NoSubprotocol)

RequestLike(perf) ==
  File({"3", "5"},
       ("1" :> <<ToB(perf, "2")>>) @@
       ("2" :> RefuseOrAgree) @@
       ("4" :> <<ToInitiator("failure", "3"), ToInitiator("inform", "5")>>),
       NoSubprotocol)

request == RequestLike("request")

request_when == RequestLike("request-when")

query ==
  File({"4", "7"},
       ("1" :> <<ToB("query-if", "2"), ToB("query-ref", "3")>>) @@
       ("2" :> <<ToInitiator("refuse", "4"), ToInitiator("agree", "5")>>) @@
       ("3" :> <<ToInitiator("refuse", "4"), ToInitiator("agree", "6")>>) @@
       ("5" :> <<ToInitiator("inform-if", "7"), ToInitiator("failure", "4")>>) @@
       ("6" :> <<ToInitiator("inform-ref", "7"), ToInitiator("failure", "4")>>),
       NoSubprotocol)

subscribe ==
  File({"3", "4", "5"},
       ("1" :> <<ToB("subscribe", "2")>>) @@
       ("2" :> RefuseOrAgree) @@
       ("4" :> <<ToInitiator("inform", "4"), ToInitiator("failure", "5")>>),
       NoSubprotocol)

ContractNetLike(afterProposal) ==
  File({"3", "6"},
       ("1" :> <<ToB("cfp", "2")>>) @@
       ("2" :> <<ToInitiator("refuse", "3"), ToInitiator("propose", "4")>>) @@
       ("4" :> <<ToB("accept-proposal", "5"), ToB("reject-proposal", "3")>>
                 \o afterProposal) @@
       ("5" :> <<ToInitiator("failure", "3"), ToInitiator("inform", "6")>>),
       NoSubprotocol)

contractNet == ContractNetLike(<<>>)

iteratedContractNet == ContractNetLike(<<ToB("cfp", "2")>>)

dutchAuction ==
  File({"5", "7"},
       ("1" :> <<ToB("inform", "2")>>) @@
       ("2" :> <<ToB("cfp", "3")>>) @@
       ("3" :> <<ToInitiator("propose", "4")>>) @@
       ("4" :> <<ToB("reject-proposal", "5"), ToB("accept-proposal", "6")>>) @@
       ("5" :> <<ToB("cfp", "3"), ToB("inform", "7")>>) @@
       ("6" :> <<ToB("cfp", "3"), ToB("inform", "7")>>),
       NoSubprotocol)

brokering ==
  File({"3", "5", "6", "7"},
       ("1" :> <<ToB("proxy", "2")>>) @@
       ("2" :> RefuseOrAgree) @@
       ("4" :> <<ToInitiator("failure", "5"), ToInitiator("inform", "6")>>) @@
       ("6" :> <<ToInitiator("failure", "7")>>),
       "6" :> <<AnySubprotocol("B", "initiator")>>)

with_single_subprotocol_and_not_proxied ==
  File({"2"}, "1" :> <<ToB("propagate", "2")>>,
       "2" :> <<AnySubprotocol("B", "no_role")>>)

test_any_performative ==
  File({"3"},
       ("1" :> <<ToB("inform", "2")>>) @@
       ("2" :> <<AnyToB("3")>>) @@
       ("3" :> <<AnyToB("3")>>),
       NoSubprotocol)

Shipped ==
  ("inform" :> inform) @@ ("request" :> request) @@
  ("request-when" :> request_when) @@ ("query" :> query) @@
  ("subscribe" :> subscribe) @@ ("contractNet" :> contractNet) @@
  ("iteratedContractNet" :> iteratedContractNet) @@
  ("dutchAuction" :> dutchAuction) @@ ("brokering" :> brokering) @@
  ("with_single_subprotocol_and_not_proxied" :>
      with_single_subprotocol_and_not_proxied) @@
  ("test_any_performative" :> test_any_performative)
=============================================================================
