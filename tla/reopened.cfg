SPECIFICATION Spec
PROPERTY EndedIsTerminal
CONSTANTS
  Agent = {"a", "b"}
  Owner = "a"
  Protocol = {"dutchAuction"}
  Performative = {"inform", "cfp", "propose", "reject-proposal", "accept-proposal", "failure", "cancel", "not-understood"}
  Sent = {"inform", "cfp", "propose", "reject-proposal", "accept-proposal", "failure", "cancel", "not-understood"}
  Routes <- PairRoutes
  ConversationId = {"x"}
  Language = {"en"}
  Handle = {h1}
  Plans = {}
  ForcedProtocols = {}
  ForcedIds = {}
  ForcedLanguages = {}
  SizeWrap = 1000
  NoMessage = NoMessage
  NoMachine = NoMachine
  NoConversation = NoConversation
  Specification <- MCSpecification
  Traffic <- MCTraffic
CHECK_DEADLOCK FALSE
