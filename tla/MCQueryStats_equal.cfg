\* The constants of MCQueryStats.cfg.
CONSTANTS
  WordBits = 6
  IntBits = 5
  N = 8
  Accuracy = 8
  Databases <- MCDatabases
  Batches <- MCBatches
SPECIFICATION Spec
INVARIANT EqualTestsExistence
