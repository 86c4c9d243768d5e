SPECIFICATION Spec
INVARIANTS TypeOK StatusTracksMachine OneReplyForwarded SubsStartedByEmbeddingRole
PROPERTIES ForcedStandsStill FailureIsFinal CancelIsAnswered SubsWithinPlan
CONSTANTS
  Agent = {"i", "b", "c"}
  Owner = "i"
  Protocol = {"brokering", "request", "inform"}
  Performative = {"proxy", "agree", "refuse", "inform", "failure", "request", "cancel", "not-understood"}
  Sent = {"proxy", "agree", "refuse", "inform", "failure", "request", "cancel"}
  Routes <- BrokeringRoutes
  ConversationId = {"x"}
  Language = {"en"}
  Handle = {h1}
  Plans <- BrokeringPlans
  ForcedProtocols = {"inform"}
  ForcedIds = {}
  ForcedLanguages = {}
  SizeWrap = 3
  NoMessage = NoMessage
  NoMachine = NoMachine
  NoConversation = NoConversation
  Specification <- MCSpecification
  Traffic <- MCTraffic
CHECK_DEADLOCK FALSE
