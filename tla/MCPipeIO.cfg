\* A batch of two queries fills the buffer exactly, one of three needs two
\* reads at least; the pipes hold one batch and a half, and one answer.
CONSTANTS
  InitFiles <- MCInitFiles
  Workloads <- MCWorkloads
  Result <- MCResult
  MaxBuffer = 8
  PipeSize = 12
  OutSize = 1
  WordBits = 8
  MaxFailed = 1
SPECIFICATION FairSpec
INVARIANTS TypeOK TextAsSent FittingIsSafe AnswersInOrder
PROPERTY Completed
\* After a mishap the two may wait for each other; both may end.
CHECK_DEADLOCK FALSE
