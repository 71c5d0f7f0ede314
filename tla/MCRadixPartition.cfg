\* Three threads over four tuples: shares of 1, 1 and 2, so the remainder goes
\* to the last; three hash values, so that the first, a middle or the last
\* bucket may be empty and one bucket may be fed by several jobs.
CONSTANTS
  Size = 4
  Threads = 3
  HashRange = 3
SPECIFICATION FairSpec
INVARIANTS TypeOK BarriersHold Reordered
PROPERTIES NoSlotWrittenTwice Terminates
