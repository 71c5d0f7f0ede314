CONSTANTS
  w1 = w1
  w2 = w2
  Nobody = Nobody
  Workers = {w1, w2}
  NumJobs = 1
  MaxSpurious = 0
SPECIFICATION FairSpec
PROPERTY ShutdownEnds
CHECK_DEADLOCK FALSE
