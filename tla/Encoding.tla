------------------------------- MODULE Encoding -------------------------------
(***************************************************************************)
(* What the three encodings of a message share                             *)
(* (src/src/message_generator/message_format.h,                            *)
(* src/src/message_parser/grammar/grammar_common.h): a message is written  *)
(* as a sequence of coded items, one for each field that has something to  *)
(* write, and read item by item into a new message.                        *)
(***************************************************************************)
EXTENDS ACLMessage

CONSTANTS
  Word,            \* the texts the grammars read as a word: at least one
                   \* character, none below 0x21, no parenthesis, no "#",
                   \* "-", "@" or digit at the start
  UnreadableText,  \* a text that the grammar or TinyXML does not take
  Unreadable,      \* parseData returned false
  NotWritten,      \* the generator threw
  Escaped          \* an exception left parseData

ASSUME EncodingAssumption == Word \subseteq Checked /\ EmptyText \notin Word

(* An item is written only when there is something to write.               *)
Item(present, code, data) ==
  IF present THEN << [code |-> code, data |-> data] >> ELSE <<>>

(* A time is written as the digits of the local time, year to millisecond; *)
(* what they do not tell, microseconds and which of two equal hours at the *)
(* end of summer time is meant, is its rest.                               *)
DateDigits(time) == time.digits
TimeOf(digits) == [digits |-> digits, rest |-> 0]

(* AgentID::isValid: the other senders are not written as text or XML.     *)
IsValid(aid) == aid.name \notin {UndefinedName, EmptyText}

==============================================================================
