----------------------------- MODULE MCGateway -----------------------------
(***************************************************************************)
(* Instances of the gateway: two goroutines, one channel, a text, the same *)
(* in other letters, and a different one; and the typing loops.            *)
(***************************************************************************)
EXTENDS Typing, TLC

CONSTANTS s1, s2, hello, HELLO, bye, greeting, farewell

TwoSenders == {s1, s2}
MCSignatureOf == hello :> greeting @@ HELLO :> greeting @@ bye :> farewell

\* Senders are compared for equality only.
Symmetry == Permutations(TwoSenders)

\* Posts and typing loops have no state in common, so they are run apart: a
\* bound on what is interleaved, not on what either does.
Apart == (begun = 0 /\ clock = 0) \/ loops = <<>>

MCInit == Init /\ TypingInit

MCSpec == MCInit /\ [][GatewayNext /\ Apart']_<<vars, typingVars>>
=============================================================================
