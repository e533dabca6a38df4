----------------------------- MODULE MCRegistry -----------------------------
EXTENDS Registry, TLC
\* The same allowance for every Safe: none, or one node of the two.
Uniform == {[s \in Safe |-> k] : k \in 0..1}
Interchangeable == Permutations(Node) \cup Permutations(Safe)
=============================================================================
