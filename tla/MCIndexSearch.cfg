\* A piece holds two tuples, so a bucket of three or more is cut in several,
\* with chains of up to two links; keys may or may not collide in the second
\* hash; a result node holds one pair.
CONSTANTS
  Relations <- MCRelations
  HashRange = 3
  Hash2Range = 2
  Cap = 2
  MaxTuples = 1
SPECIFICATION FairSpec
INVARIANTS TypeOK ConnectsFinishedLists JoinExact
PROPERTY SearchEnds
