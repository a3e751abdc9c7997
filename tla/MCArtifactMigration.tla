-------------------------- MODULE MCArtifactMigration --------------------------
(* Two artifacts, one of them without a digest; two runs at a time.            *)
EXTENDS ArtifactMigration, TLC
Symmetry == Permutations(Procs)
=============================================================================
