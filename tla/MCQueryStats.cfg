\* Words of six bits, ints of five, a bit vector of eight bits.
CONSTANTS
  WordBits = 6
  IntBits = 5
  N = 8
  Accuracy = 8
  Databases <- MCDatabases
  Batches <- MCBatches
SPECIFICATION Spec
INVARIANTS TypeOK StatsExact ParsedAsWritten EstimatesSound
