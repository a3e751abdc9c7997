------------------------------ MODULE MCWebSession ------------------------------
EXTENDS WebSession, TLC
Symmetry == Permutations(Requests) \cup Permutations(Sids) \cup Permutations(Runners)
=============================================================================
