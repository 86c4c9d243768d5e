SPECIFICATION MonitorSpec
PROPERTY CleanupDropsEnded
CONSTANTS
  Agent = {"a", "b"}
  Owner = "a"
  Protocol = {"inform"}
  Performative = {"inform", "failure", "cancel", "not-understood"}
  Sent = {"inform", "failure", "cancel"}
  Routes <- PairRoutes
  ConversationId = {x}
  Language = {"en"}
  Handle = {h1, h2}
  Plans = {1}
  ForcedProtocols = {"inform"}
  ForcedIds = {x}
  ForcedLanguages = {"en"}
  SizeWrap = 1000
  NoMessage = NoMessage
  NoMachine = NoMachine
  NoConversation = NoConversation
  Specification <- MCSpecification
  Traffic <- MCTraffic
  DirectTraffic <- Everything
  MayRemove = TRUE
  Requested = {x}
  EmptyId = EmptyId
  Nothing = Nothing
CHECK_DEADLOCK FALSE
