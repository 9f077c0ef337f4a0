---------------------------- MODULE MCQueryBridge ----------------------------
EXTENDS QueryBridge, TLC

\* Statements are only compared; addresses as well.
Symmetry == Permutations(Statements)
            \cup Permutations(PlanAddresses) \cup Permutations(DescAddresses)
==============================================================================
