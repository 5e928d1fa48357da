---------------------------- MODULE MCTurnStream ----------------------------
(***************************************************************************)
(* One channel, the heartbeat and the shutdown, two turns, a fault of the  *)
(* app-server and a message too many.                                      *)
(***************************************************************************)
EXTENDS TurnStream

MCCaller  == Channel \cup {Heartbeat, Main}
MCUntimed == {Heartbeat, Main}
=============================================================================
