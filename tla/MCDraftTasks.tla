---- MODULE MCDraftTasks ----
EXTENDS DraftTasks, TLC

Symmetric == Permutations(Tasks) \union Permutations(Clients)
====
