------------------------ MODULE MCLifecycleAuthority ------------------------
(* A small instance of the ledger: enough instances for an orphan, a closed   *)
(* cycle and an open one, two directories, a registration and one without id. *)
EXTENDS LifecycleAuthority, TLC

\* The operations treat instances and registrations alike.
Symmetry == Permutations(Instances) \cup Permutations(RunnerIds)
            \cup Permutations(Inodes)
=============================================================================
