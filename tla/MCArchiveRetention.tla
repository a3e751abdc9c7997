------------------------- MODULE MCArchiveRetention -------------------------
(* Two hooks, an attempt of the run and a later one, of one or two jobs.      *)
EXTENDS ArchiveRetention
=============================================================================
