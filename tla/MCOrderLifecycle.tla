-------------------------- MODULE MCOrderLifecycle --------------------------
(* A model of the life of one live order for TLC.                           *)
EXTENDS OrderLifecycle
=============================================================================
