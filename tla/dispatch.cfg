SPECIFICATION Spec
CONSTANTS
  Conns = {k1, k2}
  Poller = Poller
  NoOne = NoOne
  Null = Null
  Solutions = {s1, s2}
  Blocks = {b1, b2}
  CompilerOf <- OneCompiler
  Announces <- EveryoneHasIt
  Pads = {0}
  ResultCodes = {0}
  RECV_TIMEOUT_SEC = 5
  RECV_MAX_TIMEOUT = 5
  SEND_TIMEOUT_SEC = 6
  SEND_MAX_TIMEOUT = 6
  MaxPending = 2
  MaxFaults <- LostStrayDb
  MaxAllFaults = 2
CHECK_DEADLOCK FALSE
SYMMETRY Symmetry
INVARIANTS TypeOK OnlyLaterRowsDangle NoDeadlock
PROPERTIES VerdictFinal
