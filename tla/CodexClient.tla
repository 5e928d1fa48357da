---------------------------- MODULE CodexClient ----------------------------
(***************************************************************************)
(* The codex client, src/internal/codex/client.go, and the app-server      *)
(* process it drives.                                                      *)
(*                                                                         *)
(* Every operation holds c.mu from its first line to its return, reads of  *)
(* the process included; it starts the process if there is none, sends its *)
(* request, and on any error kills the process and tries once more in a    *)
(* fresh one.  Threads are started ephemeral: they live in the process     *)
(* that made them and die with it.  A caller runs one operation at a time. *)
(*                                                                         *)
(* A process is named by its generation, a thread by the process that made *)
(* it and a number, and a turn by its thread: nothing here tells two turns *)
(* of a thread apart.  An id the server did not send is NoThread.          *)
(*                                                                         *)
(* The app-server is not part of the repository; it is modelled from how   *)
(* client.go uses it.  It answers each request or dies.  Its own failures  *)
(* (a crash, a process that does not start, an error for a request it      *)
(* could have served) are counted and bounded by MaxFaults, but it may     *)
(* refuse any steer, since the turn to steer has always completed.         *)
(***************************************************************************)
EXTENDS Integers, FiniteSets

CONSTANTS Caller,      \* the goroutines that call the client
          Untimed,     \* those whose context has no deadline of its own
          Nobody,      \* nobody holds c.mu
          MaxFaults,   \* bound: faults of the app-server
          TurnNames    \* what the server may name when a turn completes: that
                       \* turn ("own"), nothing ("none"), or another ("other")

ASSUME CallerAssumption == /\ Nobody \notin Caller
                           /\ Untimed \subseteq Caller
                           /\ MaxFaults \in Nat
                           /\ TurnNames \subseteq {"own", "none", "other"}
                           /\ TurnNames # {}

VARIABLES
    lock,      \* the caller that holds c.mu, or Nobody
    session,   \* the process c.session refers to, 0 for nil
    procs,     \* the app-server processes that are running
    started,   \* how many processes were started
    made,      \* how many threads the server made
    op,        \* op[k]: the operation k called: its kind, thread and turn
    step,      \* step[k]: where the operation of k is
    attempt,   \* attempt[k]: the loop variable of runWithSessionRetryLocked
    expired,   \* expired[k]: k found the deadline of its context passed
    ctxDone,   \* the root context is cancelled
    closed,    \* Close has returned
    faults,    \* faults of the server so far
    ran        \* history: ran[k], how often the server took up k's prompt

clientVars == <<lock, session, procs, started, made, op, step, attempt, expired,
                ctxDone, closed, faults, ran>>

Thread   == [home : Nat \ {0}, n : Nat \ {0}]
NoThread == [home |-> 0, n |-> 0]
Kinds    == {"none", "startThread", "startTurn", "steerTurn", "runTurn", "close"}
Steps    == {"idle", "lock", "try", "thread", "turn", "stream", "ok", "failed"}
Busy     == {"try", "thread", "turn", "stream"}

NoOp == [kind |-> "none", thread |-> NoThread, turn |-> NoThread]

ClientInit ==
    /\ lock = Nobody
    /\ session = 0
    /\ procs = {}
    /\ started = 0
    /\ made = 0
    /\ op = [k \in Caller |-> NoOp]
    /\ step = [k \in Caller |-> "idle"]
    /\ attempt = [k \in Caller |-> 0]
    /\ expired = [k \in Caller |-> FALSE]
    /\ ctxDone = FALSE
    /\ closed = FALSE
    /\ faults = 0
    /\ ran = [k \in Caller |-> 0]

\* The process that is running and made the thread can serve it.
Reachable(t) == session # 0 /\ session \in procs /\ t.home = session

\* A call of one of the client's operations.  It waits for c.mu.
Invoke(k, kind, thread, turn) ==
    /\ op' = [op EXCEPT ![k] = [kind |-> kind, thread |-> thread, turn |-> turn]]
    /\ step' = [step EXCEPT ![k] = "lock"]

\* stopSessionLocked: the process is killed and waited for.
StopSession == /\ procs' = procs \ {session}
               /\ session' = 0

-----------------------------------------------------------------------------
(* The retry loop *)

Acquire(k) ==
    /\ step[k] = "lock"
    /\ lock = Nobody
    /\ op[k].kind # "close"
    /\ lock' = k
    /\ step' = [step EXCEPT ![k] = "try"]
    /\ attempt' = [attempt EXCEPT ![k] = 1]
    /\ UNCHANGED <<session, procs, started, made, op, expired, ctxDone, closed, faults, ran>>

\* The operation returns and c.mu is released.
Return(k, outcome) ==
    /\ step' = [step EXCEPT ![k] = outcome]
    /\ attempt' = [attempt EXCEPT ![k] = 0]
    /\ lock' = Nobody

\* ctx.Err() is read at the start of an attempt, and nowhere else: this is where
\* a deadline that passed at any moment before is found, or was found already.
FindExpired(k) ==
    /\ step[k] = "try"
    /\ ctxDone \/ k \notin Untimed
    /\ expired' = [expired EXCEPT ![k] = k \notin Untimed]
    /\ Return(k, "failed")
    /\ UNCHANGED <<session, procs, started, made, op, ctxDone, closed, faults, ran>>

\* The first request of the operation: thread/start, turn/start or turn/steer.
FirstRequest(k) == IF op[k].kind \in {"startThread", "runTurn"} THEN "thread" ELSE "turn"

\* Slip: the attempt starts a process without a look at the context.
EnsureSessionAnyway(k) ==
    /\ step[k] = "try"
    /\ IF session # 0
       THEN UNCHANGED <<session, procs, started>>
       ELSE /\ session' = started + 1
            /\ procs' = procs \cup {started + 1}
            /\ started' = started + 1
    /\ step' = [step EXCEPT ![k] = FirstRequest(k)]
    /\ UNCHANGED <<lock, made, op, attempt, expired, ctxDone, closed, faults, ran>>

\* ensureSessionLocked: the session there is, or a new process that started and
\* answered initialize.
EnsureSession(k) ==
    /\ step[k] = "try"
    /\ ~expired[k] /\ ~ctxDone
    /\ IF session # 0
       THEN UNCHANGED <<session, procs, started>>
       ELSE /\ session' = started + 1
            /\ procs' = procs \cup {started + 1}
            /\ started' = started + 1
    /\ step' = [step EXCEPT ![k] = FirstRequest(k)]
    /\ UNCHANGED <<lock, made, op, attempt, expired, ctxDone, closed, faults, ran>>

\* The process does not start, or is stopped because initialize failed: the
\* operation returns the error at once.
CannotStart(k) ==
    /\ step[k] = "try"
    /\ ~expired[k] /\ ~ctxDone
    /\ session = 0
    /\ faults < MaxFaults
    /\ faults' = faults + 1
    /\ Return(k, "failed")
    /\ UNCHANGED <<session, procs, started, made, op, expired, ctxDone, closed, ran>>

\* Slip: the session is forgotten, its process left running.
ForgetSession(k) ==
    /\ session' = 0
    /\ IF attempt[k] < 2
       THEN /\ attempt' = [attempt EXCEPT ![k] = @ + 1]
            /\ step' = [step EXCEPT ![k] = "try"]
            /\ UNCHANGED lock
       ELSE Return(k, "failed")
    /\ UNCHANGED <<procs, started, made, op, expired, ctxDone, closed, ran>>

\* Slip: one more attempt.
FailThird(k) ==
    /\ StopSession
    /\ IF attempt[k] < 3
       THEN /\ attempt' = [attempt EXCEPT ![k] = @ + 1]
            /\ step' = [step EXCEPT ![k] = "try"]
            /\ UNCHANGED lock
       ELSE Return(k, "failed")
    /\ UNCHANGED <<started, made, op, expired, ctxDone, closed, ran>>

\* run() returned an error, whatever it was: stopSessionLocked kills the process
\* and waits for it, and there is a second attempt or the error is returned.
Fail(k) ==
    /\ StopSession
    /\ IF attempt[k] < 2
       THEN /\ attempt' = [attempt EXCEPT ![k] = @ + 1]
            /\ step' = [step EXCEPT ![k] = "try"]
            /\ UNCHANGED lock
       ELSE Return(k, "failed")
    /\ UNCHANGED <<started, made, op, expired, ctxDone, closed, ran>>

-----------------------------------------------------------------------------
(* thread/start, turn/start, turn/steer *)

\* startThreadLocked got a thread id.  RunTurn goes on with a turn in it.
ThreadStarted(k) ==
    /\ step[k] = "thread"
    /\ session \in procs
    /\ made' = made + 1
    /\ op' = [op EXCEPT ![k].thread = [home |-> session, n |-> made + 1]]
    /\ IF op[k].kind = "runTurn"
       THEN /\ step' = [step EXCEPT ![k] = "turn"]
            /\ UNCHANGED <<lock, attempt>>
       ELSE Return(k, "ok")
    /\ UNCHANGED <<session, procs, started, expired, ctxDone, closed, faults, ran>>

\* What the server can serve: a turn/start in a thread it made, a turn/steer of
\* a turn of such a thread.
Served(o) == Reachable(o.thread) /\ (o.kind = "steerTurn" => o.turn = o.thread)

\* The response to the turn request; the prompt is taken up.
TurnAccepted(k) ==
    /\ step[k] = "turn"
    /\ Served(op[k])
    /\ step' = [step EXCEPT ![k] = "stream"]
    /\ ran' = [ran EXCEPT ![k] = @ + 1]
    /\ UNCHANGED <<lock, session, procs, started, made, op, attempt, expired, ctxDone, closed, faults>>

\* The server has no such thread or turn, or will not steer a completed turn.
TurnRefused(k) ==
    /\ step[k] = "turn"
    /\ session \in procs
    /\ ~Served(op[k]) \/ op[k].kind = "steerTurn"
    /\ Fail(k)
    /\ UNCHANGED faults

\* An error answer to a request the server could have served, or an answer or
\* a notification that cannot be decoded.
RequestFaults(k) ==
    /\ step[k] \in {"thread", "turn", "stream"}
    /\ session \in procs
    /\ faults < MaxFaults
    /\ faults' = faults + 1
    /\ Fail(k)

\* A write or a read finds the process dead.
FindDead(k) ==
    /\ step[k] \in {"thread", "turn", "stream"}
    /\ session \notin procs
    /\ Fail(k)
    /\ UNCHANGED faults

\* What is known of the turn once it has completed: the id that the response or
\* the turn/completed notification had, if they had one.  The notification is
\* not compared with the turn, so it may be one of another turn.
CompletedTurns(k) ==
    UNION {CASE named = "own"   -> {op[k].thread}
             [] named = "none"  -> {NoThread}
             [] named = "other" -> [home : {session}, n : 1..made] : named \in TurnNames}

\* Slip: a turn whose status is failed counts as an error of the operation.
TurnCompletedOrFail(k) ==
    /\ step[k] = "stream"
    /\ session \in procs
    /\ \/ /\ \E turn \in CompletedTurns(k) : op' = [op EXCEPT ![k].turn = turn]
          /\ Return(k, "ok")
          /\ UNCHANGED <<session, procs, started, made, expired, ctxDone, closed, ran>>
       \/ Fail(k)
    /\ UNCHANGED faults

\* turn/completed arrived.
TurnCompleted(k) ==
    /\ step[k] = "stream"
    /\ session \in procs
    /\ \E turn \in CompletedTurns(k) : op' = [op EXCEPT ![k].turn = turn]
    /\ Return(k, "ok")
    /\ UNCHANGED <<session, procs, started, made, expired, ctxDone, closed, faults, ran>>

-----------------------------------------------------------------------------
(* Close, and the process *)

\* Close stops the session, once it has c.mu.
Close(k) ==
    /\ step[k] = "lock"
    /\ op[k].kind = "close"
    /\ lock = Nobody
    /\ StopSession
    /\ closed' = TRUE
    /\ step' = [step EXCEPT ![k] = "ok"]
    /\ UNCHANGED <<lock, started, made, op, attempt, expired, ctxDone, faults, ran>>

\* The process dies by itself.
Crash ==
    /\ session \in procs
    /\ faults < MaxFaults
    /\ faults' = faults + 1
    /\ procs' = procs \ {session}
    /\ UNCHANGED <<lock, session, started, made, op, step, attempt, expired, ctxDone,
                   closed, ran>>

\* One step of the operation k is in.
Operation(k) == \/ Acquire(k)
                \/ FindExpired(k)
                \/ EnsureSession(k)
                \/ CannotStart(k)
                \/ ThreadStarted(k)
                \/ TurnAccepted(k)
                \/ TurnRefused(k)
                \/ RequestFaults(k)
                \/ FindDead(k)
                \/ TurnCompleted(k)
                \/ Close(k)

-----------------------------------------------------------------------------
(* Properties *)

ClientTypeOK ==
    /\ lock \in Caller \cup {Nobody}
    /\ session \in Nat
    /\ procs \in SUBSET (Nat \ {0})
    /\ started \in Nat
    /\ made \in Nat
    /\ op \in [Caller -> [kind : Kinds, thread : Thread \cup {NoThread},
                          turn : Thread \cup {NoThread}]]
    /\ step \in [Caller -> Steps]
    /\ attempt \in [Caller -> 0..2]
    /\ expired \in [Caller -> BOOLEAN]
    /\ ctxDone \in BOOLEAN
    /\ closed \in BOOLEAN
    /\ faults \in 0..MaxFaults
    /\ ran \in [Caller -> Nat]

\* No process is left behind: whatever fails, and whichever caller stops it, the
\* only process that may be running is the one c.session refers to.
NoOrphan == procs \subseteq {session}

\* Once Close has returned no process is running, and none starts again: what
\* still waits for c.mu finds the root context cancelled.
NothingAfterClose == closed => session = 0 /\ procs = {}
=============================================================================
