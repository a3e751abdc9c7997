-------------------------- MODULE MCExecutorMutation --------------------------
(* Two Web threads and a backlog of one, so that one request is served, the   *)
(* next one waits behind it, and one that comes while another waits is        *)
(* refused; a deadline of two ticks, which a mutation client outlasts by one. *)
EXTENDS ExecutorMutation
===============================================================================
