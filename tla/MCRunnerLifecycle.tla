------------------------- MODULE MCRunnerLifecycle -------------------------
(* Three cycles after each other, two directories, one registration more than   *)
(* cycles that finish.                                                        *)
EXTENDS RunnerLifecycle, TLC

Symmetry == Permutations(Instances) \cup Permutations(RunnerIds)
            \cup Permutations(Inodes)
=============================================================================
