--------------------------- MODULE MCFreshInstall ---------------------------
(* As many runs of the installer as it takes, with at most two interruptions. *)
EXTENDS FreshInstall
=============================================================================
