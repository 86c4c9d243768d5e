SPECIFICATION Spec
INVARIANT SubsStartedByEmbeddingRole
PROPERTIES SubsWithinPlan ForcedStandsStill
CONSTANTS
  Agent = {"i", "b", "c"}
  Owner = "b"
  Protocol = {"with_single_subprotocol_and_not_proxied", "subscribe"}
  Performative = {"propagate", "subscribe", "refuse", "agree", "inform", "failure", "cancel", "not-understood"}
  Sent = {"propagate", "subscribe", "agree", "refuse", "inform", "failure"}
  Routes <- PropagateRoutes
  ConversationId = {"x"}
  Language = {"en"}
  Handle = {h1}
  Plans <- PropagatePlans
  ForcedProtocols = {"subscribe", "with_single_subprotocol_and_not_proxied"}
  ForcedIds = {"x"}
  ForcedLanguages = {"en"}
  SizeWrap = 4
  NoMessage = NoMessage
  NoMachine = NoMachine
  NoConversation = NoConversation
  Specification <- MCSpecification
  Traffic <- MCTraffic
CHECK_DEADLOCK FALSE
