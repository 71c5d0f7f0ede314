--------------------------- MODULE MCIndexSearch ---------------------------
EXTENDS IndexSearch

Sequences(n, keys) == [1..n -> keys]

(* Two buckets probed by two jobs: keys 0 and 3 share a bucket, 1 has its  *)
(* own.  One bucket of five tuples, in pieces of 2, 2 and 1.  And three    *)
(* buckets probed by three jobs, any of which may find nothing.            *)
MCRelations ==
  {[r |-> r, s |-> s] : r \in Sequences(4, {0, 1, 3}), s \in Sequences(2, {0, 1, 3})}
  \cup {[r |-> r, s |-> s] : r \in Sequences(5, {0, 3}), s \in Sequences(2, {0, 3})}
  \cup {[r |-> r, s |-> <<2, 0, 1>>] : r \in Sequences(3, {0, 1, 2})}
=============================================================================
