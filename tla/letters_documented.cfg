SPECIFICATION Spec
CONSTANTS
  a1 = a1
  a2 = a2
  NoAgent = NoAgent
  Nobody = Nobody
  NoPayload = NoPayload
  NoValue = NoValue
  HeaderLength = HeaderLength
  NotRead = NotRead
  Agents <- MCAgents
  Messages <- MCMessages
  AsAttribute <- MCAsAttribute
  AsElement <- MCAsElement
  UnreadableText = UnreadableText
  Comments = {"urgent", "", "very&#x20;&#x20;urgent", "&#x26;#x20;"}
  Vias = {0, 99}
  Parameters <- MCParameters
  MaxSteps = 4
INVARIANTS
  PathIsStamps
  StampsOfAnyEnvelope
  LengthOfPayload
  ReceiptsKept
  ParametersKept
  AddresseesKept
PROPERTY InsertOverwrites
CHECK_DEADLOCK FALSE
