\* Three relations and up to four joins, so that two may be left over.
CONSTANT Queries <- TwoLeftOver
SPECIFICATION Spec
INVARIANT EveryJoinIsScheduled
