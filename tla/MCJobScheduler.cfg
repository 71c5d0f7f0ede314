\* Three readers and one writer: two workers can be inside, asleep and woken
\* at once while the third is reading.
CONSTANTS
  w1 = w1
  w2 = w2
  w3 = w3
  Nobody = Nobody
  Workers = {w1, w2, w3}
  NumJobs = 3
  MaxSpurious = 1
SPECIFICATION FairSpec
INVARIANTS TypeOK OneReaderOrOneWriter NeverPopsNull SizeIsLength EachJobInOnePlace
PROPERTIES ImplementsPool EveryJobStarts WriterGetsIn ShutdownEndsOutsideTheWindow
\* The program ends, and shutdown may hang: see MCJobScheduler_shutdown.cfg.
CHECK_DEADLOCK FALSE
