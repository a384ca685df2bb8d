SPECIFICATION Spec
CONSTANTS
  Caller = {c1, c2}
  Method = {"add", "Zadd", "bytes"}
  Unparsable = {"bytes"}
  MaxCalls = 2
  None = None
CHECK_DEADLOCK FALSE
INVARIANTS
  OwnAnswer
  AnswerFindsCall
  NoCallLeftBehind
PROPERTIES
  CallsReturn
