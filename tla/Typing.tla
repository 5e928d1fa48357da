------------------------------- MODULE Typing -------------------------------
(***************************************************************************)
(* The typing display, StartTyping in src/internal/discordx/gateway.go as  *)
(* handleStartTyping in src/internal/mcpserver/server.go calls it, beside  *)
(* the posting of Gateway.                                                 *)
(*                                                                         *)
(* Each call starts a loop, a goroutine that shows "typing" until its      *)
(* deadline or until it is cancelled, and then, in a critical section of   *)
(* its own, deletes its channel's cancel function from typingStops: the    *)
(* one that is there, which may belong to a later loop.                    *)
(*                                                                         *)
(* Deadlines are of any length and come at any time.  Nothing but the next *)
(* call for the channel cancels a loop.                                    *)
(***************************************************************************)
EXTENDS Gateway

CONSTANT MaxLoops  \* bound: calls of StartTyping

ASSUME TypingAssumption == MaxLoops \in Nat

VARIABLES
    loops,       \* loops[l]: the l-th loop: its channel, stage, whether cancelled,
                 \* and (history) whether an older one had not ended when it began
    typingStops  \* typingStops[c]: the loop whose cancel function is stored, or NoLoop

typingVars == <<loops, typingStops>>

NoLoop == 0

TypingInit == /\ loops = <<>>
              /\ typingStops = [c \in Channel |-> NoLoop]

\* A goroutine for channel c.
NewLoop(c) == [channel |-> c, stage |-> "showing", cancelled |-> FALSE,
               overlaps |-> \E l \in DOMAIN loops : /\ loops[l].channel = c
                                                    /\ loops[l].stage # "gone"]

\* stop(), of the loop whose cancel function is there.
Stopped(before) == [l \in DOMAIN loops |->
                      IF l = before THEN [loops[l] EXCEPT !.cancelled = TRUE] ELSE loops[l]]

\* Slip: the loop before goes on.
StartWithoutStop(c) ==
    /\ Len(loops) < MaxLoops
    /\ loops' = Append(loops, NewLoop(c))
    /\ typingStops' = [typingStops EXCEPT ![c] = Len(loops) + 1]

\* Slip: the new cancel function is stored only where there is none.
StartStoringOnce(c) ==
    /\ Len(loops) < MaxLoops
    /\ loops' = Append(Stopped(typingStops[c]), NewLoop(c))
    /\ typingStops' = [typingStops EXCEPT ![c] = IF @ = NoLoop THEN Len(loops) + 1 ELSE @]

\* One critical section of typingMu: the loop whose cancel function is there is
\* cancelled, and the new loop's takes its place.
StartTyping(c) ==
    /\ Len(loops) < MaxLoops
    /\ loops' = Append(Stopped(typingStops[c]), NewLoop(c))
    /\ typingStops' = [typingStops EXCEPT ![c] = Len(loops) + 1]

\* The select finds the context done, or the deadline.
LeaveLoop(l) ==
    /\ loops[l].stage = "showing"
    /\ loops' = [loops EXCEPT ![l].stage = "leaving"]
    /\ UNCHANGED typingStops

\* The deferred delete.
DeleteStop(l) ==
    /\ loops[l].stage = "leaving"
    /\ loops' = [loops EXCEPT ![l].stage = "gone"]
    /\ typingStops' = [typingStops EXCEPT ![loops[l].channel] = NoLoop]

TypingNext == \/ \E c \in Channel : StartTyping(c)
              \/ \E l \in DOMAIN loops : LeaveLoop(l) \/ DeleteStop(l)

\* The two parts of the gateway have a mutex each and no state in common.
GatewayNext == \/ Next /\ UNCHANGED typingVars
               \/ TypingNext /\ UNCHANGED vars

GatewaySpec == Init /\ TypingInit /\ [][GatewayNext]_<<vars, typingVars>>

-----------------------------------------------------------------------------
(* Properties *)

\* The loops that nobody told to stop.
Uncancelled == {l \in DOMAIN loops : loops[l].stage = "showing" /\ ~loops[l].cancelled}

\* A loop that shows "typing" can be stopped by the next call for its channel,
\* unless an older loop of the channel had not ended yet when it began, which may
\* since have deleted its cancel function.
OthersAreStopped ==
    \A l \in Uncancelled : typingStops[loops[l].channel] = l \/ loops[l].overlaps

\* A cancel function that is stored is the newest loop's of its channel, which
\* has not been cancelled and has its own delete before it.
StopIsNewest ==
    \A c \in Channel : LET l == typingStops[c] IN
        l # NoLoop => /\ l \in DOMAIN loops
                      /\ loops[l].channel = c
                      /\ ~loops[l].cancelled
                      /\ loops[l].stage # "gone"
                      /\ \A n \in DOMAIN loops : loops[n].channel = c => n <= l
=============================================================================
