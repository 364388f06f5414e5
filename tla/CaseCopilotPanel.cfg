SPECIFICATION Spec
CONSTANTS
  r1 = r1  r2 = r2
  burst = burst  script = script
  Requests <- TwoRequests
  NoRequest = NoRequest
  Alerts <- TwoAlerts
  NoAlert = NoAlert
  AlertRow <- AlertRows
  Events <- EventIds
  EventRow <- EventRows
  Precedes <- Before
  Chars <- Length
  Replies <- SomeReplies
  NoteCount = 0
  QuestionLength = 10
  MAX_HISTORY_MESSAGES = 2
  MAX_HISTORY_TOTAL_CHARS = 20000
  MAX_CASE_ALERTS_IN_CONTEXT = 2
  MAX_CASE_AUDIT_IN_CONTEXT = 1
  MaxMoves = 2
SYMMETRY Symmetry
INVARIANTS
  TypeOK
  AuditTellsEachCall
  AnswersStayInContext
  MockAnswersAreValid
  ConversationStartsWithBrief
  AnswerFollowsItsHistory
  ConversationIsBounded
PROPERTIES
  TrailExplainsAlerts
