---- MODULE MCArtifactPipeline ----
EXTENDS ArtifactPipeline, TLC

Symmetric == Permutations(Clients) \union Permutations(Executions) \union Permutations(Specs)
====
