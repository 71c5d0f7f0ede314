\* Every connected query of four relations and up to four joins, and of three
\* relations and up to five joins: trees, cycles, self joins, joins of the same
\* pair either way round, identical joins.
CONSTANT Queries <- MCQueries
SPECIFICATION Spec
INVARIANTS TypeOK LeftDeep OneMoreIsScheduled RestAreFilters
