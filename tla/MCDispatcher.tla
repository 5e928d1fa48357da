---------------------------- MODULE MCDispatcher ----------------------------
(***************************************************************************)
(* Small instances of Dispatcher: three messages of one channel against a  *)
(* queue of one or two, and one message of a second channel.               *)
(***************************************************************************)
EXTENDS Dispatcher

CONSTANTS m1, m2, m3, other, busy, quiet

MCChannelOf == [m \in Msg |-> IF m = other THEN quiet ELSE busy]
=============================================================================
