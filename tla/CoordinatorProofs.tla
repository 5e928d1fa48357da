-------------------------- MODULE CoordinatorProofs --------------------------
(***************************************************************************)
(* Proofs about Coordinator, for every set of channels and every bound on  *)
(* turns and on the faults of the app-server.                              *)
(***************************************************************************)
EXTENDS Coordinator, TLAPS

-----------------------------------------------------------------------------
(* The inductive invariant, in parts. *)

KindAt(place) == CASE place = "newThread" -> "startThread"
                   [] place = "steer"     -> "steerTurn"
                   [] OTHER               -> "startTurn"

\* Who calls what: a channel the operation of its place in RunMessageTurn, the
\* heartbeat RunTurn, and the shutdown Close, after the cancellation.
Calls ==
    /\ \A c \in Channel : /\ at[c] = "idle" <=> step[c] = "idle"
                          /\ at[c] # "idle" => op[c].kind = KindAt(at[c])
    /\ step[Heartbeat] # "idle" => op[Heartbeat].kind = "runTurn"
    /\ step[Main] # "idle" => op[Main].kind = "close" /\ ctxDone

\* Who is at work holds c.mu, has a request fit for its operation, and streams
\* from the process that made its thread.
Working ==
    \A k \in Caller :
      /\ step[k] \in Busy => lock = k
      /\ step[k] = "thread" => op[k].kind \in {"startThread", "runTurn"}
      /\ step[k] \in {"turn", "stream"} => op[k].kind \in {"startTurn", "steerTurn", "runTurn"}
      /\ step[k] = "stream" => op[k].thread.home = session /\ session # 0
      /\ step[k] \in Busy => op[k].kind # "close"

\* After Close no operation is beyond the look at its context.
Closing == closed => /\ ctxDone
                     /\ \A k \in Caller : step[k] \notin {"thread", "turn", "stream"}

\* The threads a channel knows, and that no two channels know one.
ThreadsOf(c) == {op[c].thread, sessions[c].thread}

Owned ==
    /\ session <= started
    /\ \A c \in Channel : \A t \in ThreadsOf(c) : t.n <= made /\ t.home <= started
    /\ \A c, d \in Channel :
         c # d => \A t \in ThreadsOf(c) : t \in ThreadsOf(d) => t = NoThread

TurnPlaces == {"start", "steer", "steerFallback", "newTurn"}

\* A turn that succeeded was in a thread, and has its id.
Named == TurnNames = {"own"} =>
    \A c \in Channel : at[c] \in TurnPlaces /\ step[c] = "ok"
        => op[c].turn = op[c].thread /\ op[c].thread # NoThread

\* The process that made the thread is gone for good.
Dead(t) == t.home \in 1..started /\ t.home # session

\* How often the prompt may have been taken up before its turn in this thread.
Before(place) == IF place = "newTurn" THEN 1 ELSE 0

\* A prompt is taken up once in the channel's thread and once in a new one: who
\* is past the first has a thread that is dead, or a turn that goes on.
Budget ==
    /\ \A c \in Channel :
         /\ at[c] = "idle" => ran[c] = 0
         /\ at[c] = "newThread" => ran[c] <= 1
         /\ at[c] \in TurnPlaces => /\ ran[c] <= Before(at[c]) + 1
                                    /\ \/ step[c] \in {"stream", "ok"}
                                       \/ Dead(op[c].thread)
                                       \/ ran[c] <= Before(at[c])
    /\ step[Heartbeat] \in {"idle", "lock"} => ran[Heartbeat] = 0
    /\ step[Heartbeat] \in {"try", "thread", "turn"} => ran[Heartbeat] <= attempt[Heartbeat] - 1
    /\ step[Heartbeat] = "stream" => ran[Heartbeat] <= attempt[Heartbeat]
    /\ ran[Heartbeat] <= 2
    /\ ran[Main] = 0

-----------------------------------------------------------------------------

LEMMA ThreadFacts ==
    /\ NoThread \notin Thread
    /\ NoThread \in Thread \cup {NoThread}
    /\ NoThread.n = 0 /\ NoThread.home = 0
    /\ \A t \in Thread \cup {NoThread} : t.n \in Nat /\ t.home \in Nat
    /\ \A t \in Thread \cup {NoThread} : t.home # 0 => t \in Thread
    /\ NoOp.kind = "none" /\ NoOp.thread = NoThread /\ NoOp.turn = NoThread
    /\ NoOp \in [kind : Kinds, thread : Thread \cup {NoThread}, turn : Thread \cup {NoThread}]
  BY DEF Thread, NoThread, NoOp, Kinds

\* A failed attempt leaves well-typed variables.
LEMMA FailTyped ==
    ASSUME ClientTypeOK, NEW k \in Caller, Fail(k)
    PROVE  /\ session' \in Nat /\ procs' \in SUBSET (Nat \ {0})
           /\ lock' \in Caller \cup {Nobody}
           /\ step' \in [Caller -> Steps]
           /\ attempt' \in [Caller -> 0..2]
           /\ UNCHANGED <<started, made, op, expired, ctxDone, closed, ran>>
  BY DEF Fail, StopSession, Return, ClientTypeOK, Steps
-----------------------------------------------------------------------------
(* Types. *)

LEMMA CallersAre ==
    /\ Channel \subseteq Caller
    /\ Heartbeat \in Caller \ Channel
    /\ Main \in Caller \ Channel
    /\ Heartbeat # Main
    /\ Caller = Channel \cup {Heartbeat, Main}
    /\ Untimed = {Heartbeat, Main}
    /\ Nobody \notin Caller
  BY CoordinatorAssumption, CallerAssumption

\* A step of one operation, or a crash, keeps the client's types.
LEMMA ClientTypeStep ==
    ASSUME ClientTypeOK, (\E k \in Caller : Operation(k)) \/ Crash
    PROVE  ClientTypeOK'
  <1> USE CallerAssumption DEF ClientTypeOK, Kinds, Steps, Busy
  <1>1. ASSUME NEW k \in Caller, Operation(k) PROVE ClientTypeOK'
    <2>1. CASE Acquire(k)
      BY <2>1 DEF Acquire
    <2>2. CASE FindExpired(k)
      BY <2>2 DEF FindExpired, Return
    <2>3. CASE EnsureSession(k)
      <3>1. FirstRequest(k) \in Steps
        BY DEF FirstRequest
      <3>2. started + 1 \in Nat \ {0}
        OBVIOUS
      <3>3. session' \in Nat /\ started' \in Nat /\ procs' \in SUBSET (Nat \ {0})
        BY <2>3, <3>2 DEF EnsureSession
      <3>4. step' \in [Caller -> Steps]
        BY <2>3, <3>1 DEF EnsureSession
      <3> QED
        BY <2>3, <3>3, <3>4 DEF EnsureSession
    <2>4. CASE CannotStart(k)
      BY <2>4 DEF CannotStart, Return
    <2>5. CASE ThreadStarted(k)
      <3>1. [home |-> session, n |-> made + 1] \in Thread
        BY <2>5 DEF ThreadStarted, Thread
      <3>2. op' \in [Caller -> [kind : Kinds, thread : Thread \cup {NoThread},
                                turn : Thread \cup {NoThread}]]
        BY <2>5, <3>1 DEF ThreadStarted
      <3>3. /\ step' \in [Caller -> Steps]
            /\ attempt' \in [Caller -> 0..2]
            /\ lock' \in Caller \cup {Nobody}
        <4>1. CASE op[k].kind = "runTurn"
          BY <2>5, <4>1 DEF ThreadStarted
        <4>2. CASE op[k].kind # "runTurn"
          <5>1. Return(k, "ok")
            BY <2>5, <4>2 DEF ThreadStarted
          <5> QED
            BY <5>1 DEF Return
        <4> QED
          BY <4>1, <4>2
      <3>4. /\ made' \in Nat
            /\ UNCHANGED <<session, procs, started, expired, ctxDone, closed, faults, ran>>
        BY <2>5 DEF ThreadStarted
      <3> QED
        BY ONLY ClientTypeOK, <3>2, <3>3, <3>4 DEF ClientTypeOK
    <2>6. CASE TurnAccepted(k)
      BY <2>6 DEF TurnAccepted
    <2>7. CASE TurnRefused(k)
      BY <2>7, FailTyped DEF TurnRefused
    <2>8. CASE RequestFaults(k)
      BY <2>8, FailTyped DEF RequestFaults
    <2>9. CASE FindDead(k)
      BY <2>9, FailTyped DEF FindDead
    <2>10. CASE TurnCompleted(k)
      <3>1. session \in Nat \ {0}
        BY <2>10 DEF TurnCompleted
      <3>2. CompletedTurns(k) \subseteq Thread \cup {NoThread}
        BY <3>1 DEF CompletedTurns, Thread
      <3>3. op' \in [Caller -> [kind : Kinds, thread : Thread \cup {NoThread},
                                turn : Thread \cup {NoThread}]]
        BY <2>10, <3>2 DEF TurnCompleted
      <3>4. /\ step' \in [Caller -> Steps]
            /\ attempt' \in [Caller -> 0..2]
            /\ lock' \in Caller \cup {Nobody}
        BY <2>10 DEF TurnCompleted, Return
      <3> QED
        BY <2>10, <3>3, <3>4 DEF TurnCompleted
    <2>11. CASE Close(k)
      BY <2>11 DEF Close, StopSession
    <2> QED
      BY <1>1, <2>1, <2>2, <2>3, <2>4, <2>5, <2>6, <2>7, <2>8, <2>9, <2>10, <2>11 DEF Operation
  <1>2. CASE Crash
    BY <1>2 DEF Crash
  <1> QED
    BY <1>1, <1>2

LEMMA InvokeTyped ==
    ASSUME ClientTypeOK, NEW k \in Caller, NEW kind \in Kinds,
           NEW thread \in Thread \cup {NoThread}, NEW turn \in Thread \cup {NoThread},
           Invoke(k, kind, thread, turn)
    PROVE  /\ op' \in [Caller -> [kind : Kinds, thread : Thread \cup {NoThread},
                                  turn : Thread \cup {NoThread}]]
           /\ step' \in [Caller -> Steps]
  BY DEF Invoke, ClientTypeOK, Steps

\* What a channel's session and operation are made of.
LEMMA ChannelTyped ==
    ASSUME TypeOK, NEW c \in Channel
    PROVE  /\ op[c].kind \in Kinds
           /\ op[c].thread \in Thread \cup {NoThread}
           /\ op[c].turn \in Thread \cup {NoThread}
           /\ sessions[c] \in Session
           /\ sessions[c].thread \in Thread \cup {NoThread}
           /\ sessions[c].turn \in Thread \cup {NoThread}
  BY CallersAre DEF TypeOK, ClientTypeOK, Session

LEMMA TypeStep ==
    ASSUME TypeOK, [Next]_vars
    PROVE  TypeOK'
  <1> USE CallersAre DEF TypeOK, ClientTypeOK, Kinds, Steps, Places
  <1>1. ASSUME NEW c \in Channel, RunMessageTurn(c) PROVE TypeOK'
    <2>1. PICK kind \in Kinds, thread \in Thread \cup {NoThread},
               turn \in Thread \cup {NoThread} : Invoke(c, kind, thread, turn)
      <3>1. /\ sessions[c].thread \in Thread \cup {NoThread}
            /\ sessions[c].turn \in Thread \cup {NoThread}
        BY ChannelTyped
      <3>2. \/ Invoke(c, "startThread", NoThread, NoThread)
            \/ Invoke(c, "startTurn", sessions[c].thread, NoThread)
            \/ Invoke(c, "steerTurn", sessions[c].thread, sessions[c].turn)
        BY <1>1 DEF RunMessageTurn
      <3> QED
        BY <3>1, <3>2
    <2>2. at' \in [Channel -> Places]
      BY <1>1 DEF RunMessageTurn
    <2>3. /\ op' \in [Caller -> [kind : Kinds, thread : Thread \cup {NoThread},
                                   turn : Thread \cup {NoThread}]]
          /\ step' \in [Caller -> Steps]
      <3>1. c \in Caller /\ ClientTypeOK
        OBVIOUS
      <3> HIDE DEF ClientTypeOK, Kinds, Steps
      <3> QED
        BY <2>1, <3>1, InvokeTyped
    <2>4. UNCHANGED <<expired, ran, sessions>> /\ turns' = turns + 1 /\ Calling
      BY <1>1 DEF RunMessageTurn
    <2> QED
      BY <2>2, <2>3, <2>4 DEF Calling
  <1>2. ASSUME NEW c \in Channel, TurnOver(c)
        PROVE  /\ at' \in [Channel -> Places]
               /\ op' \in [Caller -> [kind : Kinds, thread : Thread \cup {NoThread},
                                      turn : Thread \cup {NoThread}]]
               /\ step' \in [Caller -> Steps]
               /\ expired' \in [Caller -> BOOLEAN]
               /\ ran' \in [Caller -> Nat]
    BY <1>2, ThreadFacts DEF TurnOver
  <1>3. ASSUME NEW c \in Channel, TurnDone(c) PROVE TypeOK'
    <2>1. sessions' \in [Channel -> Session]
      BY <1>3, ChannelTyped DEF TurnDone, StoreSession, Session
    <2> QED
      BY <1>2, <1>3, <2>1 DEF TurnDone, Calling
  <1>4. ASSUME NEW c \in Channel, TurnFailed(c) PROVE TypeOK'
    BY <1>2, <1>4 DEF TurnFailed, Calling
  <1>5. ASSUME NEW c \in Channel, SteerFailed(c) \/ StartFailed(c) \/ NewThreadMade(c)
        PROVE  TypeOK'
    <2>1. PICK kind \in Kinds, thread \in Thread \cup {NoThread} :
             Invoke(c, kind, thread, NoThread)
      <3>1. op[c].thread \in Thread \cup {NoThread}
        BY ChannelTyped
      <3>2. \/ Invoke(c, "startTurn", op[c].thread, NoThread)
            \/ Invoke(c, "startThread", NoThread, NoThread)
        BY <1>5 DEF SteerFailed, StartFailed, NewThreadMade
      <3> QED
        BY <3>1, <3>2
    <2>2. at' \in [Channel -> Places]
      BY <1>5 DEF SteerFailed, StartFailed, NewThreadMade
    <2>3. UNCHANGED <<expired, ran, sessions, turns>> /\ Calling
      BY <1>5 DEF SteerFailed, StartFailed, NewThreadMade
    <2>4. /\ op' \in [Caller -> [kind : Kinds, thread : Thread \cup {NoThread},
                                   turn : Thread \cup {NoThread}]]
          /\ step' \in [Caller -> Steps]
      <3>1. c \in Caller /\ ClientTypeOK /\ NoThread \in Thread \cup {NoThread}
        OBVIOUS
      <3> HIDE DEF ClientTypeOK, Kinds, Steps
      <3> QED
        BY <2>1, <3>1, InvokeTyped
    <2> QED
      BY <2>2, <2>3, <2>4 DEF Calling
  <1>6. ASSUME NEW c \in Channel, ResetSession(c) PROVE TypeOK'
    BY <1>6, ThreadFacts DEF ResetSession, Session, Calling
  <1>7. CASE HeartbeatTick
    BY <1>7, InvokeTyped, ThreadFacts DEF HeartbeatTick, Calling
  <1>8. CASE HeartbeatDone
    BY <1>8, ThreadFacts DEF HeartbeatDone, Calling
  <1>9. CASE Shutdown
    BY <1>9, InvokeTyped, ThreadFacts DEF Shutdown
  <1>10. CASE /\ (\E k \in Caller : Operation(k)) \/ Crash
              /\ UNCHANGED <<sessions, at, turns>>
    <2>1. ClientTypeOK'
      BY <1>10, ClientTypeStep
    <2> QED
      BY <1>10, <2>1
  <1>11. CASE Finished \/ UNCHANGED vars
    BY <1>11 DEF Finished, vars
  <1> QED
    BY <1>1, <1>3, <1>4, <1>5, <1>6, <1>7, <1>8, <1>9, <1>10, <1>11 DEF Next
-----------------------------------------------------------------------------
(* Who calls what. *)

\* A step of an operation leaves the other callers' alone, and its own kind.
LEMMA OperationFrame ==
    ASSUME ClientTypeOK, NEW k \in Caller, Operation(k)
    PROVE  /\ \A j \in Caller \ {k} : /\ op'[j] = op[j]
                                      /\ step'[j] = step[j]
                                      /\ attempt'[j] = attempt[j]
                                      /\ ran'[j] = ran[j]
           /\ op'[k].kind = op[k].kind
           /\ step[k] \notin {"idle", "ok", "failed"}
           /\ step'[k] # "idle"
           /\ ctxDone' = ctxDone
  <1> USE DEF ClientTypeOK, Steps
  <1>1. CASE Acquire(k)
    BY <1>1 DEF Acquire
  <1>2. CASE FindExpired(k)
    BY <1>2 DEF FindExpired, Return
  <1>3. CASE EnsureSession(k)
    BY <1>3 DEF EnsureSession, FirstRequest
  <1>4. CASE CannotStart(k)
    BY <1>4 DEF CannotStart, Return
  <1>5. CASE ThreadStarted(k)
    BY <1>5 DEF ThreadStarted, Return
  <1>6. CASE TurnAccepted(k)
    BY <1>6 DEF TurnAccepted
  <1>7. CASE TurnRefused(k)
    BY <1>7 DEF TurnRefused, Fail, Return
  <1>8. CASE RequestFaults(k)
    BY <1>8 DEF RequestFaults, Fail, Return
  <1>9. CASE FindDead(k)
    BY <1>9 DEF FindDead, Fail, Return
  <1>10. CASE TurnCompleted(k)
    BY <1>10 DEF TurnCompleted, CompletedTurns, Return
  <1>11. CASE Close(k)
    BY <1>11 DEF Close
  <1> QED
    BY <1>1, <1>2, <1>3, <1>4, <1>5, <1>6, <1>7, <1>8, <1>9, <1>10, <1>11 DEF Operation

LEMMA CallsStep ==
    ASSUME TypeOK, Calls, [Next]_vars
    PROVE  Calls'
  <1> USE CallersAre DEF TypeOK, ClientTypeOK, Calls, Calling
  <1>1. ASSUME NEW c \in Channel, RunMessageTurn(c) PROVE Calls'
    BY <1>1 DEF RunMessageTurn, Invoke, KindAt
  <1>2. ASSUME NEW c \in Channel, TurnDone(c) PROVE Calls'
    BY <1>2 DEF TurnDone, TurnOver
  <1>3. ASSUME NEW c \in Channel, TurnFailed(c) PROVE Calls'
    BY <1>3 DEF TurnFailed, TurnOver
  <1>4. ASSUME NEW c \in Channel, SteerFailed(c) PROVE Calls'
    BY <1>4 DEF SteerFailed, Invoke, KindAt
  <1>5. ASSUME NEW c \in Channel, StartFailed(c) PROVE Calls'
    BY <1>5 DEF StartFailed, Invoke, KindAt
  <1>6. ASSUME NEW c \in Channel, NewThreadMade(c) PROVE Calls'
    BY <1>6 DEF NewThreadMade, Invoke, KindAt
  <1>7. ASSUME NEW c \in Channel, ResetSession(c) PROVE Calls'
    BY <1>7 DEF ResetSession
  <1>8. CASE HeartbeatTick
    BY <1>8 DEF HeartbeatTick, Invoke
  <1>9. CASE HeartbeatDone
    BY <1>9 DEF HeartbeatDone
  <1>10. CASE Shutdown
    BY <1>10 DEF Shutdown, Invoke
  <1>11. ASSUME NEW k \in Caller, Operation(k), UNCHANGED <<sessions, at, turns>>
         PROVE  Calls'
    BY <1>11, OperationFrame
  <1>12. CASE Crash /\ UNCHANGED <<sessions, at, turns>>
    BY <1>12 DEF Crash
  <1>13. CASE Finished \/ UNCHANGED vars
    BY <1>13 DEF Finished, vars
  <1> QED
    BY <1>1, <1>2, <1>3, <1>4, <1>5, <1>6, <1>7, <1>8, <1>9, <1>10, <1>11, <1>12, <1>13
      DEF Next
-----------------------------------------------------------------------------
(* Who is at work. *)

\* c.mu: while one operation goes on, no other is past the mutex.
LEMMA OperationAlone ==
    ASSUME ClientTypeOK, Working, NEW k \in Caller, Operation(k)
    PROVE  \A j \in Caller \ {k} : step[j] \notin Busy /\ step'[j] \notin Busy
  <1>1. step[k] \in Busy \/ lock = Nobody
    BY DEF Operation, Acquire, FindExpired, EnsureSession, CannotStart, ThreadStarted,
           TurnAccepted, TurnRefused, RequestFaults, FindDead, TurnCompleted, Close, Busy
  <1>2. \A j \in Caller \ {k} : step[j] \notin Busy
    BY <1>1, CallerAssumption DEF Working
  <1> QED
    BY <1>2, OperationFrame

\* After an error the caller is back at the head of an attempt, or done.
LEMMA FailLeads ==
    ASSUME ClientTypeOK, NEW k \in Caller, Fail(k)
    PROVE  /\ session' = 0
           /\ \/ /\ step'[k] = "try"
                 /\ attempt[k] < 2
                 /\ attempt'[k] = attempt[k] + 1
                 /\ lock' = lock
              \/ /\ step'[k] = "failed"
                 /\ attempt[k] >= 2
                 /\ lock' = Nobody
           /\ UNCHANGED <<started, made, op, expired, ctxDone, closed, ran>>
  BY DEF Fail, StopSession, Return, ClientTypeOK

LEMMA WorkingOperation ==
    ASSUME ClientTypeOK, Working, NEW k \in Caller, Operation(k), op[k].kind # "none"
    PROVE  Working'
  <1> DEFINE W(j) ==
        /\ step[j] \in Busy => lock = j
        /\ step[j] = "thread" => op[j].kind \in {"startThread", "runTurn"}
        /\ step[j] \in {"turn", "stream"} => op[j].kind \in {"startTurn", "steerTurn", "runTurn"}
        /\ step[j] = "stream" => op[j].thread.home = session /\ session # 0
        /\ step[j] \in Busy => op[j].kind # "close"
  <1>1. ASSUME NEW j \in Caller \ {k} PROVE W(j)'
    BY OperationAlone DEF Busy
  <1>2. W(k)
    BY DEF Working
  <1> USE DEF ClientTypeOK, Busy, Kinds
  <1>3. W(k)'
    <2>1. CASE Acquire(k)
      BY <2>1 DEF Acquire
    <2>2. CASE FindExpired(k)
      BY <2>2 DEF FindExpired, Return
    <2>3. CASE EnsureSession(k)
      <3>1. op[k].kind \in Kinds \ {"none", "close"}
        BY <2>3, <1>2 DEF EnsureSession
      <3> QED
        BY <2>3, <1>2, <3>1 DEF EnsureSession, FirstRequest
    <2>4. CASE CannotStart(k)
      BY <2>4 DEF CannotStart, Return
    <2>5. CASE ThreadStarted(k)
      BY <2>5, <1>2 DEF ThreadStarted, Return
    <2>6. CASE TurnAccepted(k)
      BY <2>6, <1>2 DEF TurnAccepted, Served, Reachable
    <2>7. CASE TurnRefused(k) \/ RequestFaults(k) \/ FindDead(k)
      BY <2>7, <1>2, FailLeads DEF TurnRefused, RequestFaults, FindDead
    <2>8. CASE TurnCompleted(k)
      BY <2>8 DEF TurnCompleted, Return
    <2>9. CASE Close(k)
      BY <2>9 DEF Close
    <2> QED
      BY <2>1, <2>2, <2>3, <2>4, <2>5, <2>6, <2>7, <2>8, <2>9 DEF Operation
  <1> QED
    BY <1>1, <1>3 DEF Working

\* What a caller does between two operations.
Between(k) ==
    /\ \A j \in Caller \ {k} : /\ op'[j] = op[j]
                               /\ step'[j] = step[j]
                               /\ ran'[j] = ran[j]
    /\ step[k] \in {"idle", "ok", "failed"}
    /\ step'[k] \in {"idle", "lock"}
    /\ UNCHANGED <<lock, session, procs, started, made, attempt, closed, faults>>

LEMMA CallersBetween ==
    ASSUME TypeOK, Calls
    PROVE  /\ \A c \in Channel : \/ RunMessageTurn(c) \/ TurnDone(c) \/ SteerFailed(c)
                                 \/ StartFailed(c) \/ NewThreadMade(c) \/ TurnFailed(c)
                                 => Between(c)
           /\ HeartbeatTick \/ HeartbeatDone => Between(Heartbeat)
           /\ Shutdown => Between(Main)
  BY CallersAre DEF TypeOK, ClientTypeOK, Calls, Calling, Invoke, TurnOver, Between, RunMessageTurn, TurnDone,
     SteerFailed, StartFailed, NewThreadMade, TurnFailed, HeartbeatTick, HeartbeatDone, Shutdown
LEMMA WorkingBetween ==
    ASSUME Working, NEW k \in Caller, Between(k)
    PROVE  Working'
  BY DEF Working, Between, Busy

LEMMA WorkingStep ==
    ASSUME TypeOK, Calls, Working, [Next]_vars
    PROVE  Working'
  <1> USE CallersAre
  <1>1. ASSUME NEW k \in Caller, Between(k) PROVE Working'
    BY <1>1, WorkingBetween
  <1>2. ASSUME NEW k \in Caller, Operation(k) PROVE Working'
    <2>1. op[k].kind # "none"
      BY <1>2, OperationFrame DEF TypeOK, Calls, KindAt
    <2> QED
      BY <1>2, <2>1, WorkingOperation DEF TypeOK
  <1>3. CASE \/ \E c \in Channel : ResetSession(c)
             \/ Crash \/ Finished \/ UNCHANGED vars
    BY <1>3 DEF ResetSession, Calling, Crash, Finished, vars, Working
  <1> QED
    BY <1>1, <1>2, <1>3, CallersBetween DEF Next
-----------------------------------------------------------------------------
(* Processes, and what there is after Close. *)

LEMMA NoOrphanStep ==
    ASSUME TypeOK, Calls, NoOrphan, [Next]_vars
    PROVE  NoOrphan'
  <1> USE DEF TypeOK, ClientTypeOK, NoOrphan
  <1>1. ASSUME NEW k \in Caller, Between(k) PROVE NoOrphan'
    BY <1>1 DEF Between
  <1>2. ASSUME NEW k \in Caller, Operation(k) PROVE NoOrphan'
    <2>1. CASE EnsureSession(k)
      BY <2>1 DEF EnsureSession
    <2>2. CASE Acquire(k) \/ FindExpired(k) \/ CannotStart(k)
      BY <2>2 DEF Acquire, FindExpired, CannotStart
    <2>3. CASE ThreadStarted(k) \/ TurnAccepted(k) \/ TurnCompleted(k)
      BY <2>3 DEF ThreadStarted, TurnAccepted, TurnCompleted
    <2>4. CASE TurnRefused(k) \/ RequestFaults(k) \/ FindDead(k) \/ Close(k)
      BY <2>4 DEF TurnRefused, RequestFaults, FindDead, Close, Fail, StopSession
    <2> QED
      BY <1>2, <2>1, <2>2, <2>3, <2>4 DEF Operation
  <1>3. CASE \/ \E c \in Channel : ResetSession(c)
             \/ Crash \/ Finished \/ UNCHANGED vars
    BY <1>3 DEF ResetSession, Calling, Crash, Finished, vars
  <1> QED
    BY <1>1, <1>2, <1>3, CallersBetween, CallersAre DEF Next

LEMMA ClosingStep ==
    ASSUME TypeOK, Calls, Working, NoOrphan, Closing, NothingAfterClose, [Next]_vars
    PROVE  Closing' /\ NothingAfterClose'
  <1> USE DEF TypeOK, ClientTypeOK, Closing, NothingAfterClose
  <1>1. ASSUME NEW k \in Caller, Between(k), ctxDone => ctxDone'
        PROVE  Closing' /\ NothingAfterClose'
    BY <1>1 DEF Between
  <1>2. ASSUME NEW k \in Caller, Operation(k) PROVE Closing' /\ NothingAfterClose'
    <2>1. CASE Acquire(k)
      BY <2>1 DEF Acquire
    <2>2. CASE FindExpired(k)
      BY <2>2 DEF FindExpired, Return
    <2>3. CASE EnsureSession(k) \/ CannotStart(k)
      BY <2>3 DEF EnsureSession, CannotStart
    <2>4. CASE ThreadStarted(k) \/ TurnAccepted(k) \/ TurnCompleted(k)
      BY <2>4 DEF ThreadStarted, TurnAccepted, TurnCompleted
    <2>5. CASE TurnRefused(k) \/ RequestFaults(k) \/ FindDead(k)
      BY <2>5, FailLeads DEF TurnRefused, RequestFaults, FindDead
    <2>6. CASE Close(k)
      <3>1. ctxDone
        BY <2>6, CallersAre DEF Close, Calls, KindAt
      <3>2. \A j \in Caller \ {k} : step'[j] \notin {"thread", "turn", "stream"}
        BY <1>2, OperationAlone DEF Busy
      <3> QED
        BY <2>6, <3>1, <3>2 DEF Close, StopSession, NoOrphan
    <2> QED
      BY <1>2, <2>1, <2>2, <2>3, <2>4, <2>5, <2>6 DEF Operation
  <1>3. CASE \/ \E c \in Channel : ResetSession(c)
             \/ Crash \/ Finished \/ UNCHANGED vars
    BY <1>3 DEF ResetSession, Calling, Crash, Finished, vars
  <1>4. ASSUME NEW c \in Channel,
               \/ RunMessageTurn(c) \/ TurnDone(c) \/ SteerFailed(c)
               \/ StartFailed(c) \/ NewThreadMade(c) \/ TurnFailed(c)
        PROVE  Between(c) /\ ctxDone' = ctxDone
    BY <1>4, CallersBetween DEF RunMessageTurn, TurnDone, SteerFailed, StartFailed,
         NewThreadMade, TurnFailed, Calling
  <1>5. ASSUME HeartbeatTick \/ HeartbeatDone
        PROVE  Between(Heartbeat) /\ ctxDone' = ctxDone
    BY <1>5, CallersBetween DEF HeartbeatTick, HeartbeatDone, Calling
  <1>6. ASSUME Shutdown PROVE Between(Main) /\ ctxDone'
    BY <1>6, CallersBetween DEF Shutdown
  <1> QED
    BY <1>1, <1>2, <1>3, <1>4, <1>5, <1>6, CallersAre DEF Next
-----------------------------------------------------------------------------
(* Threads and the channels that know them. *)

\* A channel that keeps to what it knew, or forgets it.
LEMMA OwnedKept ==
    ASSUME TypeOK, Owned, NEW c \in Channel,
           UNCHANGED <<session, made, started>>,
           \A d \in Channel \ {c} : op'[d] = op[d] /\ sessions'[d] = sessions[d],
           ThreadsOf(c)' \subseteq ThreadsOf(c) \cup {NoThread}
    PROVE  Owned'
  <1>1. made \in Nat /\ started \in Nat
    BY DEF TypeOK, ClientTypeOK
  <1>2. \A d \in Channel \ {c} : ThreadsOf(d)' = ThreadsOf(d)
    BY DEF ThreadsOf
  <1>3. ASSUME NEW d \in Channel, NEW t \in ThreadsOf(d)' PROVE t.n <= made /\ t.home <= started
    BY <1>1, <1>2, <1>3, ThreadFacts DEF Owned
  <1>4. ASSUME NEW d \in Channel, NEW e \in Channel, d # e,
               NEW t \in ThreadsOf(d)', t \in ThreadsOf(e)'
        PROVE  t = NoThread
    BY <1>2, <1>4 DEF Owned
  <1> QED
    BY <1>3, <1>4 DEF Owned

\* Which steps of an operation make a process or a thread.
LEMMA NumbersStep ==
    ASSUME ClientTypeOK, session <= started, NEW k \in Caller, Operation(k)
    PROVE  /\ started' \in Nat /\ session' \in Nat /\ made' \in Nat
           /\ started <= started' /\ session' <= started'
           /\ \/ session' \in {session, 0} /\ started' = started
              \/ session' = started + 1 /\ started' = started + 1
           /\ \/ made' = made /\ op'[k].thread = op[k].thread
              \/ /\ made' = made + 1 /\ started' = started
                 /\ op'[k].thread = [home |-> session, n |-> made + 1]
  <1> USE DEF ClientTypeOK
  <1>1. CASE EnsureSession(k)
    BY <1>1 DEF EnsureSession
  <1>2. CASE Acquire(k) \/ FindExpired(k) \/ CannotStart(k)
    BY <1>2 DEF Acquire, FindExpired, CannotStart
  <1>3. CASE ThreadStarted(k)
    BY <1>3 DEF ThreadStarted
  <1>4. CASE TurnAccepted(k) \/ TurnCompleted(k)
    BY <1>4 DEF TurnAccepted, TurnCompleted
  <1>5. CASE TurnRefused(k) \/ RequestFaults(k) \/ FindDead(k)
    BY <1>5 DEF TurnRefused, RequestFaults, FindDead, Fail, StopSession
  <1>6. CASE Close(k)
    BY <1>6 DEF Close, StopSession
  <1> QED
    BY <1>1, <1>2, <1>3, <1>4, <1>5, <1>6 DEF Operation

LEMMA OwnedOperation ==
    ASSUME TypeOK, Owned, NEW k \in Caller, Operation(k), UNCHANGED sessions
    PROVE  Owned'
  <1> DEFINE new == [home |-> session, n |-> made + 1]
  <1>1. /\ made \in Nat /\ started \in Nat /\ session \in Nat
        /\ made' \in Nat /\ started' \in Nat /\ session' \in Nat
        /\ made <= made' /\ started <= started' /\ session <= started /\ session' <= started'
    BY NumbersStep DEF TypeOK, ClientTypeOK, Owned
  <1>2. \A c \in Channel \ {k} : ThreadsOf(c)' = ThreadsOf(c)
    BY OperationFrame, CallersAre DEF TypeOK, ThreadsOf
  <1>3. \A c \in Channel : \A t \in ThreadsOf(c) :
          /\ t.n \in Nat /\ t.home \in Nat
          /\ t.n <= made /\ t.home <= started
    BY ThreadFacts, ChannelTyped DEF ThreadsOf, Owned
  <1>4. CASE made' = made /\ op'[k].thread = op[k].thread
    <2>1. \A c \in Channel : ThreadsOf(c)' = ThreadsOf(c)
      BY <1>2, <1>4 DEF ThreadsOf
    <2> QED
      BY <1>1, <1>3, <2>1 DEF Owned
  <1>5. CASE /\ made' = made + 1
             /\ op'[k].thread = new
    <2>1. new.n = made + 1 /\ new.home = session
      OBVIOUS
    <2>2. \A c \in Channel : new \notin ThreadsOf(c)
      BY <1>1, <1>3, <2>1
    <2>3. \A c \in Channel : ThreadsOf(c)' \subseteq ThreadsOf(c) \cup {new}
      BY <1>2, <1>5 DEF ThreadsOf
    <2>4. \A c \in Channel \ {k} : new \notin ThreadsOf(c)'
      BY <1>2, <2>2
    <2>5. ASSUME NEW c \in Channel, NEW t \in ThreadsOf(c)'
          PROVE  t.n <= made' /\ t.home <= started'
      BY <1>1, <1>3, <1>5, <2>1, <2>3, <2>5
    <2>6. ASSUME NEW c \in Channel, NEW d \in Channel, c # d,
                 NEW t \in ThreadsOf(c)', t \in ThreadsOf(d)'
          PROVE  t = NoThread
      BY <2>3, <2>4, <2>6 DEF Owned
    <2> QED
      BY <1>1, <2>5, <2>6 DEF Owned
  <1> QED
    BY <1>4, <1>5, NumbersStep DEF TypeOK, Owned

LEMMA OwnedStep ==
    ASSUME TypeOK, Calls, Owned, [Next]_vars
    PROVE  Owned'
  <1> USE CallersAre
  <1>1. ASSUME NEW c \in Channel,
               \/ RunMessageTurn(c) \/ SteerFailed(c) \/ StartFailed(c)
               \/ NewThreadMade(c) \/ TurnFailed(c)
        PROVE  Owned'
    <2>1. Between(c) /\ UNCHANGED sessions
      BY <1>1, CallersBetween DEF RunMessageTurn, SteerFailed, StartFailed, NewThreadMade,
           TurnFailed
    <2>2. op'[c].thread \in ThreadsOf(c) \cup {NoThread}
      BY <1>1, ThreadFacts DEF RunMessageTurn, SteerFailed, StartFailed, NewThreadMade,
           TurnFailed, TurnOver, Invoke, ThreadsOf, TypeOK, ClientTypeOK
    <2> QED
      BY <2>1, <2>2, OwnedKept DEF Between, ThreadsOf
  <1>2. ASSUME NEW c \in Channel, TurnDone(c) PROVE Owned'
    <2>1. Between(c)
      BY <1>2, CallersBetween
    <2>2. op'[c].thread = NoThread /\ sessions'[c].thread = op[c].thread
      BY <1>2, ThreadFacts DEF TurnDone, StoreSession, TurnOver, TypeOK, ClientTypeOK
    <2>3. \A d \in Channel \ {c} : sessions'[d] = sessions[d]
      BY <1>2 DEF TurnDone, StoreSession, TypeOK
    <2> QED
      BY <2>1, <2>2, <2>3, OwnedKept DEF Between, ThreadsOf
  <1>3. ASSUME NEW c \in Channel, ResetSession(c) PROVE Owned'
    <2>1. sessions'[c].thread = NoThread /\ UNCHANGED <<op, session, made, started>>
      BY <1>3 DEF ResetSession, TypeOK, Calling
    <2>2. \A d \in Channel \ {c} : sessions'[d] = sessions[d]
      BY <1>3 DEF ResetSession, TypeOK
    <2> QED
      BY <2>1, <2>2, OwnedKept DEF ThreadsOf
  <1>4. CASE HeartbeatTick \/ HeartbeatDone \/ Shutdown
    <2>1. /\ \A c \in Channel : op'[c] = op[c]
          /\ UNCHANGED <<sessions, session, made, started>>
      BY <1>4, CallersBetween DEF HeartbeatTick, HeartbeatDone, Shutdown, Between
    <2> QED
      BY <2>1 DEF Owned, ThreadsOf
  <1>5. ASSUME NEW k \in Caller, Operation(k), UNCHANGED <<sessions, at, turns>>
        PROVE  Owned'
    BY <1>5, OwnedOperation
  <1>6. CASE Crash /\ UNCHANGED <<sessions, at, turns>>
    BY <1>6 DEF Crash, Owned, ThreadsOf
  <1>7. CASE Finished \/ UNCHANGED vars
    BY <1>7 DEF Finished, vars, Owned, ThreadsOf
  <1> QED
    BY <1>1, <1>2, <1>3, <1>4, <1>5, <1>6, <1>7 DEF Next
-----------------------------------------------------------------------------
(* The pair a session stores. *)

LEMMA NamedBetween ==
    ASSUME Named, UNCHANGED at, NEW k \in Caller, Between(k)
    PROVE  Named'
  BY CallersAre DEF Named, Between

LEMMA NamedOperation ==
    ASSUME TypeOK, Calls, Working, Named, NEW k \in Caller, Operation(k), UNCHANGED at
    PROVE  Named'
  <1> SUFFICES ASSUME TurnNames = {"own"},
                      NEW c \in Channel, at[c] \in TurnPlaces, step'[c] = "ok"
               PROVE  op'[c].turn = op'[c].thread /\ op'[c].thread # NoThread
    BY DEF Named
  <1>1. CASE c # k
    BY <1>1, OperationFrame, CallersAre DEF Named, TypeOK
  <1>2. CASE c = k
    <2>1. op[k].kind \in {"startTurn", "steerTurn"}
      BY <1>2 DEF Calls, KindAt, TurnPlaces
    <2>2. TurnCompleted(k)
      BY <1>2, <2>1, FailLeads
        DEF Operation, Acquire, FindExpired, EnsureSession, FirstRequest, CannotStart, ThreadStarted,
            TurnAccepted, TurnRefused, RequestFaults, FindDead, Close, Return, TypeOK,
            ClientTypeOK, Working
    <2>3. op[k].thread # NoThread
      BY <2>2, ThreadFacts DEF TurnCompleted, Working
    <2>4. op'[k].turn = op[k].thread /\ op'[k].thread = op[k].thread
      BY <2>2 DEF TurnCompleted, CompletedTurns, TypeOK, ClientTypeOK
    <2> QED
      BY <1>2, <2>3, <2>4
  <1> QED
    BY <1>1, <1>2

LEMMA PairStep ==
    ASSUME TypeOK, Calls, Working, Named, StoredPairMatches, [Next]_vars
    PROVE  Named' /\ StoredPairMatches'
  <1> USE CallersAre
  <1>1. ASSUME NEW c \in Channel,
               \/ RunMessageTurn(c) \/ SteerFailed(c) \/ StartFailed(c)
               \/ NewThreadMade(c) \/ TurnFailed(c)
        PROVE  Named' /\ StoredPairMatches'
    <2>1. /\ Between(c) /\ UNCHANGED sessions
          /\ \A d \in Channel \ {c} : at'[d] = at[d]
      BY <1>1, CallersBetween DEF RunMessageTurn, SteerFailed, StartFailed, NewThreadMade,
           TurnFailed, TurnOver, TypeOK
    <2> QED
      BY <2>1 DEF Between, Named, StoredPairMatches
  <1>2. ASSUME NEW c \in Channel, TurnDone(c) PROVE Named' /\ StoredPairMatches'
    <2>1. /\ Between(c)
          /\ \A d \in Channel \ {c} : at'[d] = at[d] /\ sessions'[d] = sessions[d]
      BY <1>2, CallersBetween DEF TurnDone, TurnOver, StoreSession, TypeOK
    <2>2. Named'
      BY <2>1 DEF Between, Named
    <2>3. ASSUME TurnNames = {"own"} PROVE sessions'[c].turn = sessions'[c].thread
      <3>1. op[c].turn = op[c].thread /\ op[c].thread # NoThread
        BY <1>2, <2>3 DEF TurnDone, Named, TurnPlaces
      <3> QED
        BY <1>2, <3>1 DEF TurnDone, StoreSession, TypeOK
    <2> QED
      BY <2>1, <2>2, <2>3 DEF StoredPairMatches
  <1>3. ASSUME NEW c \in Channel, ResetSession(c) PROVE Named' /\ StoredPairMatches'
    BY <1>3 DEF ResetSession, TypeOK, Named, StoredPairMatches
  <1>4. CASE HeartbeatTick \/ HeartbeatDone \/ Shutdown
    <2>1. /\ Between(Heartbeat) \/ Between(Main)
          /\ UNCHANGED <<sessions, at>>
      BY <1>4, CallersBetween DEF HeartbeatTick, HeartbeatDone, Shutdown
    <2> QED
      BY <2>1, NamedBetween DEF StoredPairMatches
  <1>5. ASSUME NEW k \in Caller, Operation(k), UNCHANGED <<sessions, at, turns>>
        PROVE  Named' /\ StoredPairMatches'
    BY <1>5, NamedOperation DEF StoredPairMatches
  <1>6. CASE \/ Crash /\ UNCHANGED <<sessions, at, turns>>
             \/ Finished \/ UNCHANGED vars
    BY <1>6 DEF Crash, Finished, vars, Named, StoredPairMatches
  <1> QED
    BY <1>1, <1>2, <1>3, <1>4, <1>5, <1>6 DEF Next
-----------------------------------------------------------------------------
(* How often a prompt is taken up. *)

LEMMA DeadStays ==
    ASSUME ClientTypeOK, session <= started, NEW k \in Caller, Operation(k)
    PROVE  \A t \in Thread \cup {NoThread} :
               Dead(t) => t.home \in 1..started' /\ t.home # session'
  BY NumbersStep, ThreadFacts DEF ClientTypeOK, Dead

\* A channel's budget, as one caller's part of Budget.
ChannelBudget(c) ==
    /\ at[c] = "idle" => ran[c] = 0
    /\ at[c] = "newThread" => ran[c] <= 1
    /\ at[c] \in TurnPlaces => /\ ran[c] <= Before(at[c]) + 1
                               /\ \/ step[c] \in {"stream", "ok"}
                                  \/ Dead(op[c].thread)
                                  \/ ran[c] <= Before(at[c])

HeartbeatBudget ==
    /\ step[Heartbeat] \in {"idle", "lock"} => ran[Heartbeat] = 0
    /\ step[Heartbeat] \in {"try", "thread", "turn"} => ran[Heartbeat] <= attempt[Heartbeat] - 1
    /\ step[Heartbeat] = "stream" => ran[Heartbeat] <= attempt[Heartbeat]
    /\ ran[Heartbeat] <= 2

LEMMA BudgetParts ==
    Budget <=> /\ \A c \in Channel : ChannelBudget(c)
               /\ HeartbeatBudget
               /\ ran[Main] = 0
  BY DEF Budget, ChannelBudget, HeartbeatBudget

\* The operation of a channel in one of its turns.
LEMMA TurnBudget ==
    ASSUME TypeOK, Calls, Working, session <= started,
           NEW c \in Channel, ChannelBudget(c), at[c] \in TurnPlaces,
           Operation(c), UNCHANGED at
    PROVE  ChannelBudget(c)'
  <1> USE CallersAre DEF TypeOK, ClientTypeOK
  <1>1. op[c].kind \in {"startTurn", "steerTurn"}
    BY DEF Calls, KindAt, TurnPlaces
  <1>2. at[c] \notin {"idle", "newThread"}
    BY DEF TurnPlaces
  <1>3. ran[c] \in Nat /\ Before(at[c]) \in Nat
    BY DEF Before
  <1>4. CASE Acquire(c) \/ FindExpired(c) \/ EnsureSession(c) \/ CannotStart(c)
    <2>1. step[c] \notin {"stream", "ok"} /\ ran'[c] = ran[c] /\ op'[c] = op[c]
      BY <1>4 DEF Acquire, FindExpired, EnsureSession, CannotStart
    <2>2. Dead(op[c].thread) => Dead(op[c].thread)'
      BY <2>1, DeadStays, ChannelTyped DEF Dead
    <2> QED
      BY <1>2, <2>1, <2>2 DEF ChannelBudget, Dead
  <1>5. CASE TurnAccepted(c)
    <2>1. ~Dead(op[c].thread) /\ step[c] = "turn"
      BY <1>5 DEF TurnAccepted, Served, Reachable, Dead
    <2>2. ran[c] <= Before(at[c])
      BY <2>1 DEF ChannelBudget
    <2>3. ran'[c] = ran[c] + 1 /\ step'[c] = "stream"
      BY <1>5 DEF TurnAccepted
    <2> QED
      BY <1>2, <1>3, <2>2, <2>3 DEF ChannelBudget
  <1>6. CASE TurnRefused(c) \/ RequestFaults(c) \/ FindDead(c)
    <2>1. /\ step[c] \in {"turn", "stream"}
          /\ ran'[c] = ran[c] /\ op'[c] = op[c]
          /\ session' = 0 /\ started' = started
      BY <1>1, <1>6, FailLeads
        DEF TurnRefused, RequestFaults, FindDead, Working
    <2>2. CASE step[c] = "stream"
      <3>1. op[c].thread.home = session /\ session \in 1..started
        BY <2>2 DEF Working
      <3>2. Dead(op[c].thread)'
        BY <2>1, <3>1 DEF Dead
      <3> QED
        BY <1>2, <2>1, <3>2 DEF ChannelBudget
    <2>3. CASE step[c] = "turn"
      <3>1. Dead(op[c].thread) => Dead(op[c].thread)'
        BY <2>1, DeadStays, ChannelTyped DEF Dead
      <3> QED
        BY <1>2, <2>1, <2>3, <3>1 DEF ChannelBudget
    <2> QED
      BY <2>1, <2>2, <2>3
  <1>7. CASE TurnCompleted(c)
    <2>1. step'[c] = "ok" /\ ran'[c] = ran[c]
      BY <1>7 DEF TurnCompleted, Return
    <2> QED
      BY <1>2, <2>1 DEF ChannelBudget
  <1>8. ~ThreadStarted(c) /\ ~Close(c)
    BY <1>1 DEF ThreadStarted, Close, Working
  <1> QED
    BY <1>4, <1>5, <1>6, <1>7, <1>8 DEF Operation
\* The heartbeat's: each attempt makes a thread and has one turn in it.
LEMMA HeartbeatOperation ==
    ASSUME TypeOK, Calls, Working, HeartbeatBudget, Operation(Heartbeat)
    PROVE  HeartbeatBudget'
  <1> USE CallersAre DEF TypeOK, ClientTypeOK, HeartbeatBudget
  <1>1. op[Heartbeat].kind = "runTurn"
    BY OperationFrame DEF Calls
  <1>2. ran[Heartbeat] \in Nat /\ attempt[Heartbeat] \in 0..2
    OBVIOUS
  <1>3. CASE Acquire(Heartbeat)
    BY <1>2, <1>3 DEF Acquire
  <1>4. CASE FindExpired(Heartbeat) \/ CannotStart(Heartbeat)
    BY <1>2, <1>4 DEF FindExpired, CannotStart, Return
  <1>5. CASE EnsureSession(Heartbeat)
    BY <1>2, <1>5 DEF EnsureSession, FirstRequest
  <1>6. CASE ThreadStarted(Heartbeat)
    BY <1>1, <1>2, <1>6 DEF ThreadStarted
  <1>7. CASE TurnAccepted(Heartbeat)
    BY <1>2, <1>7 DEF TurnAccepted
  <1>8. CASE TurnRefused(Heartbeat) \/ RequestFaults(Heartbeat) \/ FindDead(Heartbeat)
    <2>1. /\ ran'[Heartbeat] = ran[Heartbeat]
          /\ ran[Heartbeat] <= attempt[Heartbeat]
          /\ \/ step'[Heartbeat] = "try" /\ attempt'[Heartbeat] = attempt[Heartbeat] + 1
             \/ step'[Heartbeat] = "failed"
      BY <1>2, <1>8, FailLeads DEF TurnRefused, RequestFaults, FindDead
    <2> QED
      BY <1>2, <2>1
  <1>9. CASE TurnCompleted(Heartbeat)
    BY <1>2, <1>9 DEF TurnCompleted, Return
  <1>10. CASE Close(Heartbeat)
    BY <1>1, <1>10 DEF Close
  <1> QED
    BY <1>3, <1>4, <1>5, <1>6, <1>7, <1>8, <1>9, <1>10 DEF Operation

\* Whose operation it is, and who only watches.
LEMMA BudgetOperation ==
    ASSUME TypeOK, Calls, Working, session <= started, Budget,
           NEW k \in Caller, Operation(k), UNCHANGED at
    PROVE  Budget'
  <1> USE CallersAre, BudgetParts
  <1>1. ASSUME NEW c \in Channel PROVE ChannelBudget(c)'
    <2>1. CASE c # k
      <3>1. op'[c] = op[c] /\ step'[c] = step[c] /\ ran'[c] = ran[c]
        BY <2>1, OperationFrame DEF TypeOK
      <3>2. Dead(op[c].thread) => Dead(op[c].thread)'
        BY <3>1, DeadStays, ChannelTyped DEF TypeOK, Dead
      <3> QED
        BY <3>1, <3>2 DEF ChannelBudget
    <2>2. CASE c = k /\ at[c] \in TurnPlaces
      BY <2>2, TurnBudget
    <2>3. CASE c = k /\ at[c] = "newThread"
      <3>1. ran'[c] = ran[c]
        <4>1. ~TurnAccepted(c)
          BY <2>3 DEF TurnAccepted, Calls, KindAt, Working
        <4> QED
          BY <2>3, <4>1 DEF Operation, Acquire, FindExpired, EnsureSession, CannotStart,
               ThreadStarted, TurnRefused, RequestFaults, FindDead, Fail, TurnCompleted, Close
      <3> QED
        BY <2>3, <3>1 DEF ChannelBudget, TurnPlaces
    <2>4. at[c] # "idle" \/ c # k
      BY OperationFrame DEF Calls, TypeOK
    <2> QED
      BY <2>1, <2>2, <2>3, <2>4 DEF TypeOK, Places, TurnPlaces
  <1>2. HeartbeatBudget'
    <2>1. CASE k = Heartbeat
      BY <2>1, HeartbeatOperation
    <2>2. CASE k # Heartbeat
      BY <2>2, OperationFrame DEF TypeOK, HeartbeatBudget
    <2> QED
      BY <2>1, <2>2
  <1>3. ran'[Main] = 0
    <2>1. CASE k # Main
      BY <2>1, OperationFrame DEF TypeOK
    <2>2. CASE k = Main
      <3>1. Close(Main) \/ FindExpired(Main) \/ EnsureSession(Main) \/ CannotStart(Main)
        BY <2>2, OperationFrame
          DEF Operation, Acquire, ThreadStarted, TurnAccepted, TurnRefused, RequestFaults,
              FindDead, TurnCompleted, TypeOK, Calls, Working
      <3> QED
        BY <3>1 DEF Close, FindExpired, EnsureSession, CannotStart
    <2> QED
      BY <2>1, <2>2
  <1> QED
    BY <1>1, <1>2, <1>3 DEF Budget, ChannelBudget, HeartbeatBudget

LEMMA BudgetStep ==
    ASSUME TypeOK, Calls, Working, session <= started, Budget, [Next]_vars
    PROVE  Budget'
  <1> USE CallersAre, BudgetParts
  <1>1. ASSUME NEW c \in Channel,
               \/ RunMessageTurn(c) \/ TurnDone(c) \/ SteerFailed(c)
               \/ StartFailed(c) \/ NewThreadMade(c) \/ TurnFailed(c)
        PROVE  Budget'
    <2>1. /\ Between(c)
          /\ \A d \in Channel \ {c} : at'[d] = at[d]
      BY <1>1, CallersBetween DEF RunMessageTurn, TurnDone, SteerFailed, StartFailed,
           NewThreadMade, TurnFailed, TurnOver, TypeOK
    <2>2. \A d \in Channel \ {c} : ChannelBudget(d)'
      BY <2>1 DEF Between, ChannelBudget, Dead
    <2>3. HeartbeatBudget' /\ ran'[Main] = 0
      BY <2>1 DEF Between, HeartbeatBudget
    <2>4. ran[c] \in Nat
      BY DEF TypeOK, ClientTypeOK
    <2> SUFFICES ChannelBudget(c)'
      BY <2>2, <2>3 DEF Budget, ChannelBudget, HeartbeatBudget
    <2>5. CASE RunMessageTurn(c)
      BY <2>4, <2>5 DEF RunMessageTurn, ChannelBudget, Before, TypeOK
    <2>6. CASE TurnDone(c) \/ TurnFailed(c)
      BY <2>6 DEF TurnDone, TurnFailed, TurnOver, ChannelBudget, TurnPlaces, TypeOK, ClientTypeOK
    <2>7. CASE SteerFailed(c)
      <3>1. op'[c].thread = op[c].thread /\ ran'[c] = ran[c] /\ at'[c] = "steerFallback"
        BY <2>7 DEF SteerFailed, Invoke, TypeOK, ClientTypeOK
      <3>2. Dead(op[c].thread) \/ ran[c] <= 0
        BY <2>7 DEF SteerFailed, ChannelBudget, TurnPlaces, Before
      <3>3. ran[c] <= 1
        BY <2>7 DEF SteerFailed, ChannelBudget, TurnPlaces, Before
      <3>4. Dead(op[c].thread) => Dead(op[c].thread)'
        BY <3>1, <2>1 DEF Between, Dead
      <3> QED
        BY <3>1, <3>2, <3>3, <3>4 DEF ChannelBudget, Before
    <2>8. CASE StartFailed(c)
      BY <2>4, <2>8 DEF StartFailed, ChannelBudget, TurnPlaces, Before, TypeOK
    <2>9. CASE NewThreadMade(c)
      BY <2>4, <2>9 DEF NewThreadMade, ChannelBudget, Before, TypeOK
    <2> QED
      BY <1>1, <2>5, <2>6, <2>7, <2>8, <2>9
  <1>2. CASE HeartbeatTick
    BY <1>2 DEF HeartbeatTick, Invoke, Calling, Budget, Dead, TypeOK, ClientTypeOK
  <1>3. CASE HeartbeatDone
    BY <1>3 DEF HeartbeatDone, Calling, Budget, Dead, TypeOK, ClientTypeOK
  <1>4. CASE Shutdown
    BY <1>4 DEF Shutdown, Invoke, Budget, Dead, TypeOK, ClientTypeOK
  <1>5. ASSUME NEW k \in Caller, Operation(k), UNCHANGED <<sessions, at, turns>>
        PROVE  Budget'
    BY <1>5, BudgetOperation
  <1>6. CASE \/ \E c \in Channel : ResetSession(c)
             \/ Crash /\ UNCHANGED <<sessions, at, turns>>
             \/ Finished \/ UNCHANGED vars
    BY <1>6 DEF ResetSession, Calling, Crash, Finished, vars, Budget, Dead
  <1> QED
    BY <1>1, <1>2, <1>3, <1>4, <1>5, <1>6 DEF Next
-----------------------------------------------------------------------------
(* The theorems. *)

Inv == /\ TypeOK /\ Calls /\ Working
       /\ NoOrphan /\ Closing /\ NothingAfterClose
       /\ Owned /\ Named /\ StoredPairMatches
       /\ Budget

LEMMA InitInv == Init => Inv
  <1> SUFFICES ASSUME Init PROVE Inv
    OBVIOUS
  <1> USE CallersAre, CallerAssumption, ThreadFacts DEF Init, ClientInit
  <1>1. TypeOK
    <2>1. op \in [Caller -> [kind : Kinds, thread : Thread \cup {NoThread},
                             turn : Thread \cup {NoThread}]]
      BY ONLY ThreadFacts, Init DEF Init, ClientInit
    <2>2. sessions \in [Channel -> Session] /\ at \in [Channel -> Places] /\ turns \in Nat
      BY DEF Session, Places
    <2>3. /\ lock \in Caller \cup {Nobody}
          /\ session \in Nat /\ started \in Nat /\ made \in Nat
          /\ procs \in SUBSET (Nat \ {0})
          /\ faults \in 0..MaxFaults
      OBVIOUS
    <2>4. /\ step \in [Caller -> Steps]
          /\ attempt \in [Caller -> 0..2]
          /\ ran \in [Caller -> Nat]
      BY ONLY Init DEF Init, ClientInit, Steps
    <2>5. expired \in [Caller -> BOOLEAN] /\ ctxDone \in BOOLEAN /\ closed \in BOOLEAN
      BY ONLY Init DEF Init, ClientInit
    <2> QED
      BY <2>1, <2>2, <2>3, <2>4, <2>5 DEF TypeOK, ClientTypeOK
  <1>2. Calls /\ Working
    BY DEF Calls, Working, Busy
  <1>3. NoOrphan /\ Closing /\ NothingAfterClose
    BY DEF NoOrphan, Closing, NothingAfterClose
  <1>4. Owned
    <2>1. \A c \in Channel : ThreadsOf(c) = {NoThread}
      BY DEF ThreadsOf
    <2> QED
      BY <2>1 DEF Owned
  <1>5. Named /\ StoredPairMatches
    BY DEF Named, StoredPairMatches, TurnPlaces
  <1>6. Budget
    BY DEF Budget, TurnPlaces
  <1> QED
    BY <1>1, <1>2, <1>3, <1>4, <1>5, <1>6 DEF Inv

LEMMA StepInv == Inv /\ [Next]_vars => Inv'
  <1> SUFFICES ASSUME Inv, [Next]_vars PROVE Inv'
    OBVIOUS
  <1>1. session <= started
    BY DEF Inv, Owned
  <1> QED
    BY <1>1, TypeStep, CallsStep, WorkingStep, NoOrphanStep, ClosingStep, OwnedStep, PairStep,
       BudgetStep DEF Inv

LEMMA AlwaysInv == Spec => []Inv
  BY InitInv, StepInv, PTL DEF Spec

\* In every reachable state the variables have their types.
THEOREM CoordinatorTypes == Spec => []TypeOK
  <1>1. Inv => TypeOK
    BY DEF Inv
  <1> QED
    BY <1>1, AlwaysInv, PTL

\* However operations fail and whoever retries, stopSessionLocked kills the only
\* app-server there is: no process runs that c.session does not refer to.
THEOREM NoProcessIsLeft == Spec => []NoOrphan
  <1>1. Inv => NoOrphan
    BY DEF Inv
  <1> QED
    BY <1>1, AlwaysInv, PTL

\* After Close there is no process, and no operation that waited for c.mu meanwhile
\* starts another.
THEOREM NothingStartsAfterClose == Spec => []NothingAfterClose
  <1>1. Inv => NothingAfterClose
    BY DEF Inv
  <1> QED
    BY <1>1, AlwaysInv, PTL

\* With a server that names its turns, the LastTurnID that storeSession keeps is a
\* turn of the ThreadID it keeps.
THEOREM StoredPairsMatch == Spec => []StoredPairMatches
  <1>1. Inv => StoredPairMatches
    BY DEF Inv
  <1> QED
    BY <1>1, AlwaysInv, PTL

\* Two attempts in the client, three operations in the coordinator, any number of
\* faults: the prompt is taken up twice at most.
THEOREM PromptsRunAtMostTwice == Spec => []TakenUpAtMostTwice
  <1>1. Inv => TakenUpAtMostTwice
    BY CallersAre DEF Inv, TypeOK, ClientTypeOK, Places, Budget, TurnPlaces, Before,
       TakenUpAtMostTwice
  <1> QED
    BY <1>1, AlwaysInv, PTL

\* No channel's turn is started in a thread that another channel's session holds.
THEOREM ThreadsAreNotShared == Spec => []ThreadsNotShared
  <1>1. Inv => ThreadsNotShared
    BY DEF Inv, Owned, ThreadsOf, ThreadsNotShared
  <1> QED
    BY <1>1, AlwaysInv, PTL
=============================================================================
