-------------------------- MODULE MCTaskLifecycle --------------------------
(* TaskLifecycle on two or three blocks.                                   *)
EXTENDS TaskLifecycle
=============================================================================
