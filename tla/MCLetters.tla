------------------------------- MODULE MCLetters -------------------------------
(***************************************************************************)
(* Two agents; three messages, one of them with two receivers and one      *)
(* with the same receiver twice; texts of each kind that TinyXML tells     *)
(* apart, on the left as they are written and on the right as they are     *)
(* read: blanks are condensed, one that is written as a character          *)
(* reference is not, and a reference may hide another one.                 *)
(***************************************************************************)
EXTENDS Letters

CONSTANTS a1, a2

MCAgents == {a1, a2}

MCMessages ==
  { [receivers |-> <<a2>>,     sender |-> a1, encoding |-> "utf-8"],
    [receivers |-> <<a1, a2>>, sender |-> a1, encoding |-> ""],
    [receivers |-> <<a2, a2>>, sender |-> a1, encoding |-> "very  urgent"] }

MCParameters ==
  { << [name |-> "trace", value |-> "urgent"] >>,
    << [name |-> "trace", value |-> ""] >> }

MCAsAttribute == [t \in {"trace"} |-> t]

MCAsElement ==
  "urgent" :> "urgent" @@ "utf-8" :> "utf-8" @@ "very urgent" :> "very urgent"
  @@ "very  urgent" :> "very urgent"
  @@ "very&#x20;&#x20;urgent" :> "very  urgent"
  @@ "" :> UnreadableText @@ " " :> UnreadableText @@ "&#x20;" :> UnreadableText
  @@ "&#x26;#x20;" :> "&#x20;"

==============================================================================
