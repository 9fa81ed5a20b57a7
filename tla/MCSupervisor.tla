---------------------------- MODULE MCSupervisor ----------------------------
(* Supervisor with a few targets for TLC.                                    *)
EXTENDS Supervisor
=============================================================================
