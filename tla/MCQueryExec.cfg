\* All tables of two and three rows and two values; every order of the joins;
\* sums wrap at 3.
CONSTANTS
  Tables <- MCTables
  Queries <- MCQueries
  WordRange = 3
SPECIFICATION Spec
INVARIANTS TypeOK IntermediatesSound
PROPERTY ImplementsQuery
