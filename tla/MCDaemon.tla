------------------------------ MODULE MCDaemon ------------------------------
(***************************************************************************)
(* Instances of DaemonLifecycle, and of the invariants behind it, for TLC: *)
(* their configurations give every constant its value.                     *)
(***************************************************************************)
EXTENDS LifecycleInvariants
=============================================================================
