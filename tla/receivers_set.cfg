SPECIFICATION Spec
CONSTANTS
  UndefinedName = "agent_id:undefined"
  ComparisonDepth = 1
  Nesting = 2
  ResolverDepth = 1
  EmptyText = ""
  NoTime <- MCNoTime
  NoContent <- MCNoContent
  Checked <- MCChecked
  Word <- MCWord
  AsLiteral <- MCLiteral
  AsAttribute <- MCAttribute
  AsElement <- MCElement
  PlainWord <- MCPlainWord
  EndsWord <- MCEndsWord
  Garbled = Garbled
  UnreadableText = UnreadableText
  Unreadable <- MCUnreadable
  NotWritten <- MCNotWritten
  Escaped <- MCEscaped
  NotSent <- MCNotSent
  Agents <- MCAgents
  AgentLists <- MCAgentLists
  Texts <- MCTexts
  Words <- MCWords
  Params <- MCParams
  ParamLists <- MCParamLists
  Times <- MCTimes
  Contents <- MCContents
  MaxEdits = 2
  MaxHops = 2
INVARIANTS
  TypeOK
  ReceiversAreASet
CHECK_DEADLOCK FALSE
