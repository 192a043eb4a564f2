---------------------------- MODULE MCAresWorker ----------------------------
(* AresWorker on two channels.                                             *)
EXTENDS AresWorker
=============================================================================
