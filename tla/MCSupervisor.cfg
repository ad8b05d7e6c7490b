CONSTANTS
  MaxRestarts = 2
  Window = 4
SPECIFICATION SupSpec
INVARIANTS CrashLoopCapped NoEarlyGiveUp
PROPERTIES StopObeyed
CHECK_DEADLOCK FALSE
