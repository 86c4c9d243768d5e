SPECIFICATION MonitorSpec
INVARIANT FoundAgain
CONSTANTS
  Agent = {"a", "b"}
  Owner = "a"
  Protocol = {"inform"}
  Performative = {"inform", "failure", "cancel", "not-understood"}
  Sent = {"inform", "failure"}
  Routes <- PairRoutes
  ConversationId = {x, h1}
  Language = {"en"}
  Handle = {h1}
  Plans = {}
  ForcedProtocols = {}
  ForcedIds = {}
  ForcedLanguages = {}
  SizeWrap = 1000
  NoMessage = NoMessage
  NoMachine = NoMachine
  NoConversation = NoConversation
  Specification <- MCSpecification
  Traffic <- MCTraffic
  DirectTraffic <- NoDirect
  MayRemove = FALSE
  Requested = {EmptyId}
  EmptyId = EmptyId
  Nothing = Nothing
CHECK_DEADLOCK FALSE
