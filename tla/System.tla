------------------------------- MODULE System -------------------------------
(***************************************************************************)
(* The program that src/cmd/yururi puts together (app_runtime.go): the     *)
(* workers of module Dispatcher run handleMessage, which runs a turn of    *)
(* module Coordinator and returns when it is over; the heartbeat runs      *)
(* beside them (heartbeat/runner.go); one root context stops all of it.    *)
(*                                                                         *)
(* The calls of a channel's handler, the operations of the client they     *)
(* wait for, and the messages that arrive meanwhile interleave.  What      *)
(* policy.Evaluate says of a message (module Intake) is a constant here.   *)
(***************************************************************************)
EXTENDS Coordinator, Sequences

CONSTANTS Msg, ChannelOf, QueueSize, NoMsg,  \* as in Dispatcher
          Allowed,                           \* the messages policy.Evaluate lets through
          MaxBeats                           \* bound: ticks of the heartbeat

\* No bound keeps a message from its turn.
ASSUME SystemAssumption == /\ ChannelOf \in [Msg -> Channel]
                           /\ QueueSize \in Nat \ {0}
                           /\ NoMsg \notin Msg
                           /\ Allowed \subseteq Msg
                           /\ MaxBeats \in Nat
                           /\ MaxTurns = Cardinality(Msg) + MaxBeats

VARIABLES
    place, dropped, queue, worker, first, latest, mergedCount,  \* of Dispatcher,
    fate, sent, batch, calls,                                   \* place for its at
    handler,  \* handler[c]: where handleMessage of the worker of c is
    beats,    \* ticks of the heartbeat so far
    \* History:
    taken,    \* taken[m]: how often the server took up the prompt about m
    robbed    \* robbed[c]: another caller stopped the process that had the
              \* thread just made for the turn of c

D == INSTANCE Dispatcher WITH at <- place

dispatcherVars == <<place, dropped, queue, worker, first, latest, mergedCount,
                    fate, sent, batch, calls>>
systemVars == <<vars, dispatcherVars, handler, beats, taken, robbed>>

SystemInit == /\ Init
              /\ D!Init
              /\ handler = [c \in Channel |-> "none"]
              /\ beats = 0
              /\ taken = [m \in Msg |-> 0]
              /\ robbed = [c \in Channel |-> FALSE]

-----------------------------------------------------------------------------
(* handleMessage, in the worker of channel c *)

\* The dispatcher calls it, and it asks policy.Evaluate.
Handle(c) ==
    /\ D!CallHandler(c)
    /\ handler' = [handler EXCEPT ![c] = IF latest[c] \in Allowed THEN "prepare" ELSE "return"]
    /\ UNCHANGED <<vars, beats, taken, robbed>>

\* The instruction files cannot be read: no turn.
CannotPrepare(c) ==
    /\ handler[c] = "prepare"
    /\ handler' = [handler EXCEPT ![c] = "return"]
    /\ UNCHANGED <<vars, dispatcherVars, beats, taken, robbed>>

\* Slip: the turn runs in a goroutine of its own, and the handler returns at once.
AskWithoutWaiting(c) ==
    /\ handler[c] = "prepare"
    /\ RunMessageTurn(c)
    /\ handler' = [handler EXCEPT ![c] = "return"]
    /\ robbed' = [robbed EXCEPT ![c] = FALSE]
    /\ UNCHANGED <<dispatcherVars, beats, taken>>

\* The prompt is built, and the coordinator is asked for a turn.
AskForTurn(c) ==
    /\ handler[c] = "prepare"
    /\ RunMessageTurn(c)
    /\ handler' = [handler EXCEPT ![c] = "turn"]
    /\ robbed' = [robbed EXCEPT ![c] = FALSE]
    /\ UNCHANGED <<dispatcherVars, beats, taken>>

\* What RunMessageTurn does between two operations of the client.
GoOn(c) ==
    /\ SteerFailed(c) \/ StartFailed(c) \/ NewThreadMade(c)
    /\ UNCHANGED <<dispatcherVars, handler, beats, taken, robbed>>

\* RunMessageTurn returns, and so does handleMessage after some logging.
TurnReturns(c) ==
    /\ TurnDone(c) \/ TurnFailed(c)
    /\ handler' = [handler EXCEPT ![c] = "return"]
    /\ UNCHANGED <<dispatcherVars, beats, taken, robbed>>

HandlerReturns(c) ==
    /\ handler[c] = "return"
    /\ D!HandlerReturns(c)
    /\ handler' = [handler EXCEPT ![c] = "none"]
    /\ UNCHANGED <<vars, beats, taken, robbed>>

HandleMessage(c) == \/ Handle(c)
                    \/ CannotPrepare(c)
                    \/ AskForTurn(c)
                    \/ GoOn(c)
                    \/ TurnReturns(c)
                    \/ HandlerReturns(c)

-----------------------------------------------------------------------------
(* The other goroutines *)

\* The event handler's calls, and a worker between two calls of the handler.
EventArrives(m) == /\ D!Enqueue(m)
                   /\ UNCHANGED <<vars, handler, beats, taken, robbed>>

WorkerStops(c) == /\ D!ExitIdle(c) \/ D!ExitCollecting(c)
                  /\ UNCHANGED <<vars, handler, beats, taken, robbed>>

WorkerTakes(c) == /\ D!TakeFirst(c) \/ D!TakeNext(c)
                  /\ UNCHANGED <<vars, handler, beats, taken, robbed>>

\* A tick while the last one is running is skipped, without effect.
Tick == /\ beats < MaxBeats
        /\ beats' = beats + 1
        /\ HeartbeatTick
        /\ UNCHANGED <<dispatcherVars, handler, taken, robbed>>

TickReturns == /\ HeartbeatDone
               /\ UNCHANGED <<dispatcherVars, handler, beats, taken, robbed>>

\* One step of the client for the caller k.
Serve(k) ==
    /\ Operation(k)
    /\ taken' = [m \in Msg |-> IF k \in Channel /\ ran'[k] # ran[k] /\ m = latest[k]
                               THEN taken[m] + 1 ELSE taken[m]]
    /\ robbed' = [c \in Channel |->
                    \/ robbed[c]
                    \/ /\ at[c] \in {"newThread", "newTurn"} /\ c # k
                       /\ op[c].thread.home = session /\ session' # session]
    /\ UNCHANGED <<sessions, at, turns, dispatcherVars, handler, beats>>

ServerDies == /\ Crash
              /\ UNCHANGED <<sessions, at, turns, dispatcherVars, handler, beats, taken, robbed>>

\* The root context, and the shutdown of runApplication.
Stop == /\ Shutdown
        /\ D!Cancel
        /\ UNCHANGED <<handler, beats, taken, robbed>>

AllOver == /\ D!Finished
           /\ closed
           /\ step[Heartbeat] = "idle"
           /\ UNCHANGED systemVars

SystemNext == \/ \E m \in Msg : EventArrives(m)
              \/ \E c \in Channel : \/ HandleMessage(c)
                                    \/ WorkerTakes(c)
                                    \/ WorkerStops(c)
              \/ Tick
              \/ TickReturns
              \/ \E k \in Caller : Serve(k)
              \/ ServerDies
              \/ Stop
              \/ AllOver

SystemSpec == SystemInit /\ [][SystemNext]_systemVars

\* A goroutine that can run does, and the app-server answers or dies.  c.mu is a
\* Go mutex, which lets no caller wait for ever while others come and go.
SystemFairSpec ==
    /\ SystemSpec
    /\ \A c \in Channel : /\ WF_systemVars(HandleMessage(c))
                          /\ WF_systemVars(WorkerTakes(c) \/ WorkerStops(c))
    /\ \A k \in Caller : SF_systemVars(Serve(k))
    /\ WF_systemVars(TickReturns)

-----------------------------------------------------------------------------
(* Properties *)

\* The handler's call for m has returned.
CallOver(m) ==
    LET c == ChannelOf[m]
    IN  \E i \in 1..Len(calls[c]) : /\ D!Holds(calls[c][i].batch, m)
                                    /\ i < Len(calls[c]) \/ worker[c] # "handling"

\* A message in the queue is evicted by a newer one, or its turn, alone or merged
\* behind a newer one, comes and ends, whatever the other channels and the
\* heartbeat ask of the client meanwhile; only the end of the program is earlier.
QueuedGetsItsTurn ==
    \A m \in Msg : fate[m] = "queued" ~> fate[m] = "evicted" \/ CallOver(m) \/ ctxDone

\* Once the root context is cancelled the client is closed and every worker
\* exits, those too that were in a turn or waited for another channel's.
ShutdownCompletes ==
    ctxDone ~> closed /\ \A c \in Channel : worker[c] \in {"none", "exited"}

\* A turn that ends without the server ever having taken up its prompt had a
\* reason: the deadline, the shutdown or a fault; or another channel's failed
\* steer stopped the process between the new thread and the turn in it.  That
\* last is nobody's failure, and the message is lost to it all the same.
TurnReachesServer ==
    \A c \in Channel :
        at[c] \in {"newThread", "newTurn"} /\ step[c] = "failed" /\ ran[c] = 0
            => expired[c] \/ ctxDone \/ faults > 0 \/ robbed[c]

\* Coalescing, fallbacks and retries together: the server takes up no prompt about
\* a message that was merged behind another, or lost, or not let through; one
\* about any other; and a second only after a fault.
OnePromptPerMessage ==
    \A m \in Msg : taken[m] <= IF fate[m] # "handled" \/ m \notin Allowed THEN 0
                               ELSE IF faults = 0 THEN 1 ELSE 2

\* What has become of m, as PromptService tells it.
Attended(m) == worker[ChannelOf[m]] = "handling" /\ latest[ChannelOf[m]] = m

StoryOf(m) == CASE fate[m] = "outside" -> "unseen"
                [] fate[m] \in {"queued", "batched"} -> "waiting"
                [] fate[m] = "merged" -> "merged"
                [] fate[m] = "handled" -> IF Attended(m) THEN "attended" ELSE "over"
                [] OTHER -> "lost"

Service == INSTANCE PromptService WITH story  <- [m \in Msg |-> StoryOf(m)],
                                       faulty <- faults > 0,
                                       ended  <- closed

\* The program keeps its promises: the places of Enqueue, of the turn and of the
\* client's operations, its attempts, the sessions and the heartbeat are invisible.
\* In particular nothing is taken up about a message the handler has done with.
KeepsItsPromises == Service!Spec
=============================================================================
