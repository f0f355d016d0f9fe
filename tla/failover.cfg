SPECIFICATION FairSpec
CONSTANTS
  Conns = {k1, k2}
  Poller = Poller
  NoOne = NoOne
  Null = Null
  Solutions = {s1}
  Blocks = {b1}
  CompilerOf <- OneCompiler
  Announces <- EveryoneHasIt
  Pads = {0}
  ResultCodes = {0, 9}
  RECV_TIMEOUT_SEC = 5
  RECV_MAX_TIMEOUT = 5
  SEND_TIMEOUT_SEC = 6
  SEND_MAX_TIMEOUT = 6
  MaxPending = 1
  MaxFaults <- LostOrStray
  MaxAllFaults = 2
CHECK_DEADLOCK FALSE
PROPERTIES VerdictEventually CheckedIsJudged
