------------------------------ MODULE MCDaemon ------------------------------
(* Daemon for TLC: every name is restarted unless named in Once.           *)
EXTENDS Daemon, TLC

CONSTANT Once   \* the names started with autorestart false

MCAutoRestart == [n \in Name |-> n \notin Once]
=============================================================================
