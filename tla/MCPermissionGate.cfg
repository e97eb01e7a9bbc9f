SPECIFICATION Spec
CONSTANTS
  Calls = {c1, c2, c3}
  None = None
  BoundBuilds = 2
INVARIANTS ConsentIsForThisCall
PROPERTIES LivePromptStays PromptIsSettled
CHECK_DEADLOCK FALSE
