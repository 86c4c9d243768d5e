SPECIFICATION Spec
INVARIANT NoReplyToInform
CONSTANTS
  Agent = {"i", "b", "c"}
  Owner = "i"
  Protocol = {"brokering", "request", "inform"}
  Performative = {"proxy", "agree", "refuse", "inform", "failure", "request", "cancel", "not-understood"}
  Sent = {"proxy", "agree", "refuse", "inform", "failure", "request", "cancel"}
  Routes <- BrokeringRoutes
  ConversationId = {"x"}
  Language = {"en"}
  Handle = {h1}
  Plans = {0, 1, 2}
  ForcedProtocols = {}
  ForcedIds = {}
  ForcedLanguages = {}
  SizeWrap = 1000
  NoMessage = NoMessage
  NoMachine = NoMachine
  NoConversation = NoConversation
  Specification <- MCSpecification
  Traffic <- MCTraffic
CHECK_DEADLOCK FALSE
