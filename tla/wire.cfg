SPECIFICATION FairSpec
CONSTANTS
  Short = Short
  Full = Full
  Long = Long
  Solutions = {Short, Full, Long}
  Welcome = Welcome
  NoMessage = NoMessage
  Length <- SmallLengths
  AnswerLength = 1
  LengthModulus = 4
  SocketBuffer = 4
  RECV_TIMEOUT_SEC = 5
  RECV_MAX_TIMEOUT = 10
  SEND_TIMEOUT_SEC = 6
  SEND_MAX_TIMEOUT = 12
  MaxErrors = 1
CHECK_DEADLOCK FALSE
INVARIANTS CheckerInStep ResultsAreAnswers 
PROPERTIES SendEnds AnswerTaken
