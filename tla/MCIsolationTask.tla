-------------------------- MODULE MCIsolationTask --------------------------
(* One task with at most two live processes in its tree. *)
EXTENDS IsolationTask
=============================================================================
