SPECIFICATION Spec
INVARIANT ProtocolHasMachine
CONSTANTS
  Agent = {"a", "b"}
  Owner = "a"
  Protocol = {"request", "inform"}
  Performative = {"request", "refuse", "agree", "inform", "failure", "cancel", "not-understood"}
  Sent = {"request", "refuse", "agree", "inform", "failure", "cancel", "not-understood"}
  Routes <- PairRoutes
  ConversationId = {"x"}
  Language = {"en"}
  Handle = {h1}
  Plans = {}
  ForcedProtocols = {"request"}
  ForcedIds = {}
  ForcedLanguages = {}
  SizeWrap = 1000
  NoMessage = NoMessage
  NoMachine = NoMachine
  NoConversation = NoConversation
  Specification <- MCSpecification
  Traffic <- MCTraffic
CHECK_DEADLOCK FALSE
