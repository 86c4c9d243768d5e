SPECIFICATION Spec
INVARIANT OpenedByItsProtocol
PROPERTIES RolesStayAssigned LifecycleSpec
CONSTANTS
  Agent = {"a", "b", "c"}
  Owner = "a"
  Protocol = {"request", "inform"}
  Performative = {"request", "agree", "refuse", "inform", "failure", "cancel", "not-understood"}
  Sent = {"request", "agree", "inform", "failure", "cancel"}
  Routes <- PeerRoutes
  ConversationId = {"x"}
  Language = {"en"}
  Handle = {h1, h2}
  Plans = {}
  ForcedProtocols = {}
  ForcedIds = {"x"}
  ForcedLanguages = {"en"}
  SizeWrap = 1000
  NoMessage = NoMessage
  NoMachine = NoMachine
  NoConversation = NoConversation
  Specification <- MCSpecification
  Traffic <- MCTraffic
CHECK_DEADLOCK FALSE
