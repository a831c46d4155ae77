-------------------------- MODULE MCDaemonLifecycle --------------------------
(* The instances of DaemonLifecycle that TLC checks: two pids, which are reused *)
(* as soon as their process is gone.                                            *)
EXTENDS DaemonLifecycle
=============================================================================
