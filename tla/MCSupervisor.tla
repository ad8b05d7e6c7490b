---------------------------- MODULE MCSupervisor ----------------------------
(* Two restarts within four units: the third death in a row gives up.             *)
EXTENDS Supervisor
=============================================================================
