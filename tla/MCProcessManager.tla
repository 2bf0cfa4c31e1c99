-------------------------- MODULE MCProcessManager --------------------------
(* ProcessManager for TLC: one or two names, all of them restarted unless  *)
(* named in Once.                                                          *)
EXTENDS ProcessManager, TLC

CONSTANT Once   \* the names started with autorestart false

MCAutoRestart == [n \in Name |-> n \notin Once]
=============================================================================
