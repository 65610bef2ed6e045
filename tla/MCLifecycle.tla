----------------------------- MODULE MCLifecycle -----------------------------
(* A small instance of Lifecycle: two mixes, started with and without        *)
(* address files, two runs and two crashes.                          *)
EXTENDS Lifecycle

MCRemote == BOOLEAN
==============================================================================
