SPECIFICATION FairSpec
CONSTANTS
  Solutions = {s1, s2, s3}
  MaxFaults <- TwoFailures
CHECK_DEADLOCK FALSE
INVARIANTS HandedIsMarked PostedStays NoRowStranded
PROPERTIES RowsForward ExtractedEventually
