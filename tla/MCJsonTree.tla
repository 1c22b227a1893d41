----------------------------- MODULE MCJsonTree -----------------------------
EXTENDS JsonTree, TLC

\* Two keys that differ in case only.
FoldOf == [k \in {"k", "K"} |-> "k"]

\* The contents of strings are only compared.
ValueSymmetry == Permutations(Values)

=============================================================================
