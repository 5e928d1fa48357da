---------------------------- MODULE MCToolUsage ----------------------------
(***************************************************************************)
(* Instances of ToolUsage.  The limits are the code's own, three calls and *)
(* two with the same arguments; the idle limit is one unit of time.        *)
(***************************************************************************)
EXTENDS ToolUsage, TLC

CONSTANTS h1, h2, t1, t2, a1, a2, denied, s1, none

TwoHandlers == {h1, h2}
TwoTokens == {t1, t2}
TwoArgs == {a1, a2}
ThreeArgs == {a1, a2, denied}
OneSession == {s1}
\* No call carries a token.
NoTokens == {}

\* Handlers, tokens and arguments are compared for equality only.
Symmetry == Permutations(TwoHandlers) \cup Permutations(TwoTokens) \cup Permutations(TwoArgs)
=============================================================================
