--------------------------- MODULE MCCoordinator ---------------------------
(***************************************************************************)
(* Two channels, the heartbeat and the shutdown, a few messages each, and  *)
(* a few faults of the app-server.                                         *)
(***************************************************************************)
EXTENDS Coordinator

MCCaller  == Channel \cup {Heartbeat, Main}
MCUntimed == {Heartbeat, Main}
=============================================================================
