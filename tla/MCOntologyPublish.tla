--------------------------- MODULE MCOntologyPublish ---------------------------
EXTENDS OntologyPublish, TLC

Symmetry == Permutations(Tables \ Unsure) \union Permutations(Relations)
================================================================================
