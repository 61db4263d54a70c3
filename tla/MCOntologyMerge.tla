---- MODULE MCOntologyMerge ----
EXTENDS OntologyMerge, TLC

Symmetric == Permutations(Values)
====
