SPECIFICATION MonitorSpec
INVARIANTS MonitorTypeOK FoundByItsId OneRunningPerId
PROPERTY MonitoredLifecycleSpec
CONSTANTS
  Agent = {"a", "b"}
  Owner = "a"
  Protocol = {"inform", "dutchAuction"}
  Performative = {"inform", "failure", "cancel", "not-understood", "cfp", "propose", "accept-proposal", "reject-proposal"}
  Sent = {"inform", "cfp", "propose", "reject-proposal"}
  Routes <- PairRoutes
  ConversationId = {x, h1}
  Language = {"en"}
  Handle = {h1, h2}
  Plans = {}
  ForcedProtocols = {}
  ForcedIds = {}
  ForcedLanguages = {}
  SizeWrap = 1000
  NoMessage = NoMessage
  NoMachine = NoMachine
  NoConversation = NoConversation
  Specification <- MCSpecification
  Traffic <- MCTraffic
  DirectTraffic <- NoDirect
  MayRemove = TRUE
  Requested = {x, h1}
  EmptyId = EmptyId
  Nothing = Nothing
CHECK_DEADLOCK FALSE
