---------------------------- MODULE MCHostMonitor ----------------------------
(* Main and one worker.                                                    *)
EXTENDS HostMonitor

=============================================================================
