CONSTANTS
  Thread = {t1, t2}
  NoThread = nobody
  MaxCalls = 4
  MaxInterrupts = 2
SPECIFICATION FairSpec
PROPERTIES ImplementsRequestReply CallsEnd HandlerEnds
CHECK_DEADLOCK FALSE
