---------------------------- MODULE Coordinator ----------------------------
(***************************************************************************)
(* The turn coordinator, src/internal/orchestrator/coordinator.go, on top  *)
(* of the codex client, with the two other callers the program gives the   *)
(* client: the heartbeat's turn and the Close of the shutdown.             *)
(*                                                                         *)
(* A channel has one RunMessageTurn at a time, because the dispatcher      *)
(* calls the handler in the worker of the channel.  Its steps hold c.mu of *)
(* the coordinator only to read or write the session, and the mutex of the *)
(* client one operation at a time: operations of other channels, and of    *)
(* the heartbeat, come between the steer, the start that is its fallback,  *)
(* the new thread and the turn in it.                                      *)
(***************************************************************************)
EXTENDS CodexClient

CONSTANTS Channel,    \* the channel keys
          Heartbeat,  \* the heartbeat's goroutine
          Main,       \* the goroutine that shuts the program down
          MaxTurns    \* bound: messages handled and heartbeats, in all

ASSUME CoordinatorAssumption ==
    /\ Heartbeat \notin Channel /\ Main \notin Channel /\ Heartbeat # Main
    /\ Caller = Channel \cup {Heartbeat, Main}
    /\ Untimed = {Heartbeat, Main}
    /\ MaxTurns \in Nat

VARIABLES
    sessions,  \* sessions[c]: ThreadID and LastTurnID, NoThread for ""
    at,        \* at[c]: where RunMessageTurn of channel c is
    turns      \* messages handled and heartbeats so far

vars == <<lock, session, procs, started, made, op, step, attempt, expired,
          ctxDone, closed, faults, ran, sessions, at, turns>>

Places  == {"idle", "start", "steer", "steerFallback", "newThread", "newTurn"}
Session == [thread : Thread \cup {NoThread}, turn : Thread \cup {NoThread}]

Init == /\ ClientInit
        /\ sessions = [c \in Channel |-> [thread |-> NoThread, turn |-> NoThread]]
        /\ at = [c \in Channel |-> "idle"]
        /\ turns = 0

\* What an action of the coordinator leaves alone when it only calls the client.
Calling == UNCHANGED <<lock, session, procs, started, made, attempt, ctxDone, closed, faults>>

\* The channel's message got no further: its handler logs the error and returns.
\* Or it is done.
TurnOver(c) ==
    /\ at' = [at EXCEPT ![c] = "idle"]
    /\ op' = [op EXCEPT ![c] = NoOp]
    /\ step' = [step EXCEPT ![c] = "idle"]
    /\ expired' = [expired EXCEPT ![c] = FALSE]
    /\ ran' = [ran EXCEPT ![c] = 0]

-----------------------------------------------------------------------------
(* RunMessageTurn of channel c *)

\* Slip: the key of the lookup does not tell channels apart.
RunMessageTurnOfAny(c) ==
    \E d \in Channel :
      LET s == sessions[d]
      IN  /\ at[c] = "idle"
          /\ turns < MaxTurns
          /\ turns' = turns + 1
          /\ \/ /\ s.thread = NoThread
                /\ at' = [at EXCEPT ![c] = "newThread"]
                /\ Invoke(c, "startThread", NoThread, NoThread)
             \/ /\ s.thread # NoThread /\ s.turn # NoThread
                /\ at' = [at EXCEPT ![c] = "steer"]
                /\ Invoke(c, "steerTurn", s.thread, s.turn)
          /\ UNCHANGED <<expired, ran, sessions>>
          /\ Calling

\* The session is looked up, and says which operation comes first.
RunMessageTurn(c) ==
    LET s == sessions[c]
    IN  /\ at[c] = "idle"
        /\ turns < MaxTurns
        /\ turns' = turns + 1
        /\ \/ /\ s.thread = NoThread
              /\ at' = [at EXCEPT ![c] = "newThread"]
              /\ Invoke(c, "startThread", NoThread, NoThread)
           \/ /\ s.thread # NoThread /\ s.turn = NoThread
              /\ at' = [at EXCEPT ![c] = "start"]
              /\ Invoke(c, "startTurn", s.thread, NoThread)
           \/ /\ s.thread # NoThread /\ s.turn # NoThread
              /\ at' = [at EXCEPT ![c] = "steer"]
              /\ Invoke(c, "steerTurn", s.thread, s.turn)
        /\ UNCHANGED <<expired, ran, sessions>>
        /\ Calling

\* Slip: a LastTurnID that is there stays.
StoreKeepingTurn(c, thread, turn) ==
    sessions' = [sessions EXCEPT ![c] =
        [thread |-> thread, turn |-> IF @.turn = NoThread THEN turn ELSE @.turn]]

\* storeSession: a turn id that did not come leaves the previous one in place.
StoreSession(c, thread, turn) ==
    sessions' = [sessions EXCEPT ![c] =
        [thread |-> thread, turn |-> IF turn = NoThread THEN @.turn ELSE turn]]

\* A turn succeeded, steered or started: the session is stored.
TurnDone(c) ==
    /\ at[c] \in {"start", "steer", "steerFallback", "newTurn"}
    /\ step[c] = "ok"
    /\ StoreSession(c, op[c].thread, op[c].turn)
    /\ TurnOver(c)
    /\ UNCHANGED turns
    /\ Calling

\* The steer failed: a turn is started in the same thread.
SteerFailed(c) ==
    /\ at[c] = "steer"
    /\ step[c] = "failed"
    /\ at' = [at EXCEPT ![c] = "steerFallback"]
    /\ Invoke(c, "startTurn", op[c].thread, NoThread)
    /\ UNCHANGED <<expired, ran, sessions, turns>>
    /\ Calling

\* No turn could be started in the thread: a new thread is.
StartFailed(c) ==
    /\ at[c] \in {"start", "steerFallback"}
    /\ step[c] = "failed"
    /\ at' = [at EXCEPT ![c] = "newThread"]
    /\ Invoke(c, "startThread", NoThread, NoThread)
    /\ UNCHANGED <<expired, ran, sessions, turns>>
    /\ Calling

\* Slip: the turn is started in the thread of the session.
NewThreadMadeForNothing(c) ==
    /\ at[c] = "newThread"
    /\ step[c] = "ok"
    /\ at' = [at EXCEPT ![c] = "newTurn"]
    /\ Invoke(c, "startTurn", sessions[c].thread, NoThread)
    /\ UNCHANGED <<expired, ran, sessions, turns>>
    /\ Calling

\* startNewThreadTurn: the turn in the new thread is an operation of its own.
NewThreadMade(c) ==
    /\ at[c] = "newThread"
    /\ step[c] = "ok"
    /\ at' = [at EXCEPT ![c] = "newTurn"]
    /\ Invoke(c, "startTurn", op[c].thread, NoThread)
    /\ UNCHANGED <<expired, ran, sessions, turns>>
    /\ Calling

\* RunMessageTurn returns the error.  The session stays as it was.
TurnFailed(c) ==
    /\ at[c] \in {"newThread", "newTurn"}
    /\ step[c] = "failed"
    /\ TurnOver(c)
    /\ UNCHANGED <<sessions, turns>>
    /\ Calling

\* ResetSession, between the turns of any channel.
ResetSession(c) ==
    /\ sessions[c].thread # NoThread
    /\ sessions' = [sessions EXCEPT ![c] = [thread |-> NoThread, turn |-> NoThread]]
    /\ UNCHANGED <<op, step, expired, ran, at, turns>>
    /\ Calling

-----------------------------------------------------------------------------
(* The other callers *)

HeartbeatTick ==
    /\ step[Heartbeat] = "idle"
    /\ turns < MaxTurns
    /\ turns' = turns + 1
    /\ Invoke(Heartbeat, "runTurn", NoThread, NoThread)
    /\ UNCHANGED <<expired, ran, sessions, at>>
    /\ Calling

HeartbeatDone ==
    /\ step[Heartbeat] \in {"ok", "failed"}
    /\ op' = [op EXCEPT ![Heartbeat] = NoOp]
    /\ step' = [step EXCEPT ![Heartbeat] = "idle"]
    /\ ran' = [ran EXCEPT ![Heartbeat] = 0]
    /\ UNCHANGED <<expired, sessions, at, turns>>
    /\ Calling

\* The root context is cancelled, and then the client is closed.
Shutdown ==
    /\ ~ctxDone
    /\ ctxDone' = TRUE
    /\ Invoke(Main, "close", NoThread, NoThread)
    /\ UNCHANGED <<lock, session, procs, started, made, attempt, closed, faults,
                   expired, ran, sessions, at, turns>>

\* Nothing is left to do.
Finished == /\ closed
            /\ \A k \in Caller \ {Main} : step[k] = "idle"
            /\ UNCHANGED vars

Next == \/ \E c \in Channel : \/ RunMessageTurn(c)
                              \/ TurnDone(c)
                              \/ SteerFailed(c)
                              \/ StartFailed(c)
                              \/ NewThreadMade(c)
                              \/ TurnFailed(c)
                              \/ ResetSession(c)
        \/ HeartbeatTick
        \/ HeartbeatDone
        \/ Shutdown
        \/ /\ \/ \E k \in Caller : Operation(k)
              \/ Crash
           /\ UNCHANGED <<sessions, at, turns>>
        \/ Finished

Spec == Init /\ [][Next]_vars

-----------------------------------------------------------------------------
(* Properties *)

TypeOK == /\ ClientTypeOK
          /\ sessions \in [Channel -> Session]
          /\ at \in [Channel -> Places]
          /\ turns \in Nat

\* A server that names every turn leaves a session whose turn is one of its
\* thread, whatever mixture of steers, fallbacks and new threads stored it; the
\* next steer can then be served.
StoredPairMatches ==
    TurnNames = {"own"} =>
        \A c \in Channel : sessions[c].turn = sessions[c].thread

\* Retries in the client times fallbacks in the coordinator: still the server
\* takes up the prompt of a message, or of a heartbeat, at most twice.  A thread
\* that died with its process takes nothing up.
TakenUpAtMostTwice == \A k \in Caller : ran[k] <= 2

\* A turn is given the thread its channel holds or the one just made for it,
\* never one that another channel's session refers to.
ThreadsNotShared ==
    \A c \in Channel, d \in Channel :
        c # d /\ op[c].thread # NoThread => op[c].thread # sessions[d].thread

\* What docs/REARCHITECTURE.md:18 says of a failed steer: fall back to
\* turn/start.  The thread that is asked for the turn is there to run it.
FallbackThreadAlive ==
    \A c \in Channel : at[c] = "steerFallback" /\ step[c] = "turn" => Reachable(op[c].thread)

\* Whatever fails and whoever else uses the client, a message's turn ends.
TurnsEnd == \A c \in Channel : at[c] # "idle" ~> at[c] = "idle"

\* The shutdown's Close gets its turn at the client and returns.
CloseReturns == ctxDone ~> closed
=============================================================================
