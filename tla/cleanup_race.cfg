SPECIFICATION MonitorSpec
PROPERTY CleanupDropsEnded
CONSTANTS
  Agent = {"a", "b"}
  Owner = "a"
  Protocol = {"dutchAuction"}
  Performative = {"inform", "failure", "cancel", "not-understood", "cfp", "propose", "accept-proposal", "reject-proposal"}
  Sent = {"inform", "cfp", "propose", "reject-proposal"}
  Routes <- PairRoutes
  ConversationId = {x}
  Language = {"en"}
  Handle = {h1}
  Plans = {}
  ForcedProtocols = {}
  ForcedIds = {}
  ForcedLanguages = {}
  SizeWrap = 1000
  NoMessage = NoMessage
  NoMachine = NoMachine
  NoConversation = NoConversation
  Specification <- MCSpecification
  Traffic <- MCTraffic
  DirectTraffic <- Everything
  MayRemove = FALSE
  Requested = {x}
  EmptyId = EmptyId
  Nothing = Nothing
CHECK_DEADLOCK FALSE
