CONSTANTS
  Callers = {c1}
  Apis = {START_PREVIEW, TAKE_PICTURE}
  MaxCalls = 3
  MaxEvts = 2
  MaxSpurious = 1
SPECIFICATION FairSpec
CHECK_DEADLOCK FALSE
INVARIANT TypeOK
INVARIANT AnswerIsForThisCall
PROPERTY EveryCallReturns
PROPERTY EventsAreHandled
