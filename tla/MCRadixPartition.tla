-------------------------- MODULE MCRadixPartition --------------------------
EXTENDS RadixPartition
=============================================================================
