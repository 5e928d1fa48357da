----------------------------- MODULE ToolUsage -----------------------------
(***************************************************************************)
(* The tool handlers and the budget of tool calls, enforceToolUsage and    *)
(* the functions it uses in src/internal/mcpserver/server.go.              *)
(*                                                                         *)
(* Every tool handler runs in a goroutine of its own.  It asks the policy  *)
(* (module ToolPolicy), reads the clock, then takes toolUsageMu, decides   *)
(* whether a new turn began, and admits or refuses the call; an admitted   *)
(* call does its work.  The server does not know turns: it tells them apart*)
(* by a token the request may carry, and without one by a pause longer     *)
(* than toolUsageTurnIdleReset.  The turns themselves are history here:    *)
(* the budget is meant per turn, and a turn of an MCP session ends when    *)
(* its calls have returned.                                                *)
(*                                                                         *)
(* Arguments stand for toolUsageArgumentSignature (tool name and payload), *)
(* tokens for toolUsageTurnToken up to case and blanks.                    *)
(***************************************************************************)
EXTENDS Integers, FiniteSets

CONSTANTS Handler,      \* goroutines that handle calls at the same time
          McpSession,   \* the keys of toolUsageSessionKey
          Token,        \* turn tokens a request may carry
          NoToken,      \* a request without one
          Args,         \* argument signatures
          Permitted,    \* those of tools that enforceToolPolicy lets through
          MaxCalls,     \* defaultMaxToolCallsPerTurn
          MaxSameArgs,  \* defaultMaxSameArgsRetryCalls
          IdleReset,    \* toolUsageTurnIdleReset
          LastTime,     \* bound: the clock's last value
          MaxIssued     \* bound: calls made

ASSUME UsageAssumption == /\ NoToken \notin Token
                          /\ Permitted \subseteq Args
                          /\ MaxCalls \in Nat \ {0}
                          /\ MaxSameArgs \in Nat \ {0}
                          /\ IdleReset \in Nat
                          /\ LastTime \in Nat
                          /\ MaxIssued \in Nat

VARIABLES
    clock,    \* time
    call,     \* call[h]: the call h is handling, or NoCall
    usage,    \* toolUsageBySess
    issued,   \* calls made so far
    \* History of the turn each session is in:
    admitted, \* admitted[s]: calls admitted in it
    spent,    \* spent[s]: these by their arguments
    tokens,   \* tokens[s]: the tokens they carried
    reads     \* reads[s]: the clock readings of its calls

vars == <<clock, call, usage, issued, admitted, spent, tokens, reads>>
turnVars == <<admitted, spent, tokens, reads>>

NoCall == [at |-> "none"]

\* A session that was not seen yet: the zero toolUsageState.  Its lastCallAt is
\* not read before the first admitted call sets it.
Unused == [turnToken |-> NoToken, lastCallAt |-> 0, callCount |-> 0,
           argumentHit |-> [a \in Args |-> 0]]

Init == /\ clock = 0
        /\ call = [h \in Handler |-> NoCall]
        /\ usage = [s \in McpSession |-> Unused]
        /\ issued = 0
        /\ admitted = [s \in McpSession |-> 0]
        /\ spent = [s \in McpSession |-> [a \in Args |-> 0]]
        /\ tokens = [s \in McpSession |-> {}]
        /\ reads = [s \in McpSession |-> {}]

\* shouldResetToolUsageState: does the call begin a new turn?
ShouldReset(u, token, now) ==
    \/ u.callCount = 0
    \/ token # NoToken /\ u.turnToken # token
    \/ token = NoToken /\ now - u.lastCallAt > IdleReset

\* Slip: the hits of the turn before are kept.
ResetKeepingHits(u, token, now) ==
    IF ShouldReset(u, token, now)
    THEN [u EXCEPT !.callCount = 0, !.turnToken = token]
    ELSE u

\* The state the limits are checked against.
AfterReset(u, token, now) ==
    IF ShouldReset(u, token, now)
    THEN [u EXCEPT !.callCount = 0,
                   !.argumentHit = [a \in Args |-> 0],
                   !.turnToken = token]
    ELSE u

\* Slip: the limits are checked with the count before the call.
AdmissibleLate(u, args) == u.callCount <= MaxCalls /\ u.argumentHit[args] <= MaxSameArgs

\* Slip: only the number of calls is limited.
AdmissibleAnyArgs(u, args) == u.callCount + 1 <= MaxCalls

Admissible(u, args) == /\ u.callCount + 1 <= MaxCalls
                       /\ u.argumentHit[args] + 1 <= MaxSameArgs

-----------------------------------------------------------------------------
(* A tool handler *)

\* What the handler knows of its call: toolUsageSessionKey, toolUsageTurnToken,
\* toolUsageArgumentSignature, and the time.
CallOf(s, token, args) == [at |-> "usage", session |-> s, token |-> token,
                           args |-> args, now |-> clock]

\* The policy permits the tool; the handler has read the clock and waits for
\* toolUsageMu.  A call that is not permitted returns before and costs nothing.
ReadClock(h, s, token, args) ==
    /\ call[h] = NoCall
    /\ args \in Permitted
    /\ issued < MaxIssued
    /\ issued' = issued + 1
    /\ call' = [call EXCEPT ![h] = CallOf(s, token, args)]
    /\ reads' = [reads EXCEPT ![s] = @ \cup {clock}]
    /\ UNCHANGED <<clock, usage, admitted, spent, tokens>>

Admit(h) ==
    LET k == call[h]
        u == AfterReset(usage[k.session], k.token, k.now)
    IN  /\ k # NoCall /\ k.at = "usage"
        /\ Admissible(u, k.args)
        /\ usage' = [usage EXCEPT ![k.session] =
                       [turnToken   |-> IF k.token # NoToken THEN k.token ELSE u.turnToken,
                        lastCallAt  |-> k.now,
                        callCount   |-> u.callCount + 1,
                        argumentHit |-> [u.argumentHit EXCEPT ![k.args] = @ + 1]]]
        /\ call' = [call EXCEPT ![h].at = "work"]
        /\ admitted' = [admitted EXCEPT ![k.session] = @ + 1]
        /\ spent' = [spent EXCEPT ![k.session][k.args] = @ + 1]
        /\ tokens' = [tokens EXCEPT ![k.session] = @ \cup {k.token}]
        /\ UNCHANGED <<clock, issued, reads>>

\* A refused call leaves what the reset did, and not its time.
Refuse(h) ==
    LET k == call[h]
        u == AfterReset(usage[k.session], k.token, k.now)
    IN  /\ k # NoCall /\ k.at = "usage"
        /\ ~Admissible(u, k.args)
        /\ usage' = [usage EXCEPT ![k.session] = u]
        /\ call' = [call EXCEPT ![h] = NoCall]
        /\ UNCHANGED <<clock, issued, turnVars>>

\* The handler's work, on Discord or elsewhere, is done or has failed: either
\* way the call is spent.
FinishWork(h) ==
    /\ call[h] # NoCall /\ call[h].at = "work"
    /\ call' = [call EXCEPT ![h] = NoCall]
    /\ UNCHANGED <<clock, usage, issued, turnVars>>

HandleTool(h) == \/ \E s \in McpSession, t \in Token \cup {NoToken}, a \in Args :
                      ReadClock(h, s, t, a)
                 \/ Admit(h)
                 \/ Refuse(h)
                 \/ FinishWork(h)

-----------------------------------------------------------------------------

\* A turn of session s ends and its next one begins: codex has the results of
\* the calls it made.
NextTurn(s) ==
    /\ \A h \in Handler : call[h] # NoCall => call[h].session # s
    /\ reads[s] # {}
    /\ admitted' = [admitted EXCEPT ![s] = 0]
    /\ spent' = [spent EXCEPT ![s] = [a \in Args |-> 0]]
    /\ tokens' = [tokens EXCEPT ![s] = {}]
    /\ reads' = [reads EXCEPT ![s] = {}]
    /\ UNCHANGED <<clock, call, usage, issued>>

Tick == /\ clock < LastTime
        /\ clock' = clock + 1
        /\ UNCHANGED <<call, usage, issued, turnVars>>

Next == \/ \E h \in Handler : HandleTool(h)
        \/ \E s \in McpSession : NextTurn(s)
        \/ Tick

Spec == Init /\ [][Next]_vars

-----------------------------------------------------------------------------
(* Properties *)

Usage == [turnToken : Token \cup {NoToken}, lastCallAt : Nat, callCount : 0..MaxCalls,
          argumentHit : [Args -> 0..MaxSameArgs]]

CallRecord == [at : {"usage", "work"}, session : McpSession, token : Token \cup {NoToken}, args : Permitted,
               now : Nat]

\* With it: no count of the server ever exceeds its limit.
TypeOK == /\ clock \in 0..LastTime
          /\ call \in [Handler -> CallRecord \cup {NoCall}]
          /\ usage \in [McpSession -> Usage]
          /\ issued \in 0..MaxIssued
          /\ admitted \in [McpSession -> Nat]
          /\ spent \in [McpSession -> [Args -> Nat]]
          /\ tokens \in [McpSession -> SUBSET (Token \cup {NoToken})]
          /\ reads \in [McpSession -> SUBSET Nat]

\* The calls that the hits of u stand for.
Hits(u) == UNION {{a} \X (1..u.argumentHit[a]) : a \in Args}

\* The call count of a session is the sum of its argument hits: a reset, a
\* refusal or two handlers at once never let the two limits drift apart.
CountsAgree == \A s \in McpSession : usage[s].callCount = Cardinality(Hits(usage[s]))

\* The turn of s looked like one turn to the server: one token, or none and all
\* its calls within the idle limit.
Recognisable(s) ==
    \/ \E t \in Token : tokens[s] = {t}
    \/ /\ tokens[s] = {NoToken}
       /\ \A x, y \in reads[s] : x - y <= IdleReset

\* Such a turn stays within its budget, in whatever order its concurrent calls
\* get the mutex, with whatever old clock readings, and whatever the turn before
\* left behind: three calls, and no arguments more than twice.
RecognisableTurnInBudget ==
    \A s \in McpSession : Recognisable(s) =>
        /\ admitted[s] <= MaxCalls
        /\ \A a \in Args : spent[s][a] <= MaxSameArgs

\* What docs/MAJOR_UPDATE.md and docs/SPEC.md say of any turn: at most three
\* tool calls.
TurnInBudget == \A s \in McpSession : admitted[s] <= MaxCalls
=============================================================================
