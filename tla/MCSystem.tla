------------------------------ MODULE MCSystem ------------------------------
EXTENDS System

CONSTANTS m1, m2, m3, chA, chB

MCCaller    == Channel \cup {Heartbeat, Main}
MCUntimed   == {Heartbeat, Main}
MCChannelOf == [m \in Msg |-> IF m = m3 THEN chB ELSE chA]
MCMaxTurns  == Cardinality(Msg) + MaxBeats
=============================================================================
