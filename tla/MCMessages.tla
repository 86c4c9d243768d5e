------------------------------ MODULE MCMessages ------------------------------
(***************************************************************************)
(* Messages over a handful of texts, agents built by the program's own     *)
(* calls, and contents at the limits of the length fields.                 *)
(***************************************************************************)
EXTENDS MessageExchange

(* "a\tb" passes the setters but is no word, "x:sender" is a word with a   *)
(* keyword in it; "say \"" ends a literal early, "\\\"" is read back       *)
(* without its backslash; XML turns "&#x20;" into a blank, "&#x2d;" into a *)
(* dash and "a  b" into "a b".                                             *)
MCPlainWord == {"alice", "bob", "tcp://a", "tcp://b", "request", "x-order",
                "agent_id:undefined", "fipa", "language", "sender", "protocol",
                "x&#x2d;order", "a&#x20;b", "a&#x26;#x20;b", Garbled} \cup Range(PerformativeTxt)
MCWord      == MCPlainWord \cup {"x:sender"}
MCChecked   == MCWord \cup {"", "a\tb"}
MCText      == MCChecked \cup {"en", "\"", "say \"", "\\\"", "a b", "a  b", " "}
MCEndsWord  == {"a\tb", "a b", "a  b", " ", "say \""}
MCLiteral   == [t \in MCText |->
                  CASE t \in {"\"", "say \""} -> UnreadableText
                    [] t = "\\\""   -> "\""
                    [] OTHER        -> t]
MCAttribute == [t \in MCText |->
                  CASE t = "x&#x2d;order" -> "x-order"
                    [] t = "a&#x20;b"     -> "a b"
                    [] t = "a&#x26;#x20;b" -> "a&#x20;b"
                    [] OTHER              -> t]
MCElement   == [t \in MCText |->
                  CASE t \in {"", " "}    -> UnreadableText
                    [] t = "a  b"         -> "a b"
                    [] OTHER              -> MCAttribute[t]]

Alice   == Named("alice")
Bob     == Named("bob")
AliceAB == AddAddress(AddAddress(Alice, "tcp://a"), "tcp://b")
AliceBA == AddAddress(AddAddress(Alice, "tcp://b"), "tcp://a")
AliceAA == AddAddress(AddAddress(Alice, "tcp://a"), "tcp://a")
BobVia(resolver) == AddResolver(Bob, resolver)
(* What XML reads of the name below the resolver is a reference again.     *)
BobFar == BobVia(AddResolver(Alice, Named("a&#x26;#x20;b")))
(* Two resolvers that only their own resolvers tell apart.                 *)
BobTwice == AddResolver(BobVia(Alice), AddResolver(Alice, Bob))
AliceEn  == AddAgentParam(Alice, [name |-> "x-order", value |-> "en"])
AliceEsc == AddAgentParam(Alice, [name |-> "x-order", value |-> "\\\""])

MCAgents == {Alice, AliceAB, AliceBA, AliceAA, BobVia(AliceAB),
             BobFar, BobTwice, AliceEn, AliceEsc,
             Named(""), Named("a\tb"), Named("x:sender"), Named("a&#x20;b"),
             AddAddress(UndefinedAgent, "tcp://a")}
MCAgentLists == { <<>>, <<Alice, Alice>>, <<AliceAB, BobVia(Alice)>> }
MCParams == {[name |-> n, value |-> v] :
               n \in {"x-order", "language", "sender", "protocol", ""},
               v \in {"en", "\\\"", "a  b"}}
MCParamLists == { <<>>, <<[name |-> "x-order", value |-> "en"],
                          [name |-> "x-order", value |-> "a b"]>> }
(* A content with a NUL byte ends with it.                                 *)
MCContents == {NoContent} \cup
  UNION {{[nul |-> 0, size |-> n], [nul |-> n, size |-> n]} :
           n \in {1, 255, 256, 65535, 65536}}
MCNoContent == [nul |-> 0, size |-> 0]
MCTexts == {"", "en", "say \"", "\\\"", " "}
MCNoTime == TimeOf(<<>>)
Noon == TimeOf(<<2,0,1,1, 0,9, 3,0, 1,2, 0,0, 5,9, 0,0,7>>)
MCTimes == {MCNoTime, Noon, [Noon EXCEPT !.rest = 999]}

(* What is received when no message is.                                    *)
MCUnreadable == [outcome |-> "unreadable"]
MCNotWritten == [outcome |-> "not written"]
MCEscaped    == [outcome |-> "escaped"]
MCNotSent    == [outcome |-> "not sent"]
MCWords == Range(PerformativeTxt) \cup {"", "x-order", "a\tb", "(x)",
                                        "x&#x2d;order", "a&#x20;b", "x:sender"}

==============================================================================
