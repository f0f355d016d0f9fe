SPECIFICATION FairSpec
CONSTANTS
  Workers = {w1, w2}
  NoTask = NoTask
  Poll = Poll
  Control = Control
  Tasks = {Poll, Control, c1, c2}
  Clients = {c1, c2}
  Mock = Mock
  Backlog = 2
  MaxRequests = 2
CHECK_DEADLOCK FALSE
INVARIANTS CleanupAlone NoLostWakeup OwnTask
PROPERTIES StopEnds KeepsPromise DestroyReturns
