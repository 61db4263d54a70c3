------------------------- MODULE MCWarehouseMigration -------------------------
EXTENDS WarehouseMigration, TLC

Symmetry == Permutations(Batches)
===============================================================================
