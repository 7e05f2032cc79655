CONSTANTS
  Count = 3
  Threads = 2
  PerWorker = 1
SPECIFICATION FairSpec
INVARIANTS OutputInOrder AnswerIsTheSame 
PROPERTY RunsEnd
CHECK_DEADLOCK FALSE
