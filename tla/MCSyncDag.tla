------------------------------ MODULE MCSyncDag ------------------------------
EXTENDS SyncDag, TLC

Symmetric == Permutations(Runs) \union Permutations(Rows)
=============================================================================
