---------------------------- MODULE MCOperationalLog ----------------------------
(* One script that may not act unlogged and one that may.                     *)
EXTENDS OperationalLog
=============================================================================
