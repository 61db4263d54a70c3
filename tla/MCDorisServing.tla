---------------------------- MODULE MCDorisServing ----------------------------
EXTENDS DorisServing, TLC

Symmetry == Permutations(Syncs) \union Permutations(Transforms)
===============================================================================
