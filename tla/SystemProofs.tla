---------------------------- MODULE SystemProofs ----------------------------
(***************************************************************************)
(* Proofs about System, for every set of channels and messages and every   *)
(* bound: the program is the dispatcher and the coordinator of the other   *)
(* theorems, and together they do what neither shows alone.                *)
(***************************************************************************)
EXTENDS System, CoordinatorProofs

DP == INSTANCE DispatcherProofs WITH at <- place

-----------------------------------------------------------------------------
(* The parts. *)

LEMMA StepIsCoordinators == [SystemNext]_systemVars => [Next]_vars
  <1> SUFFICES ASSUME [SystemNext]_systemVars PROVE [Next]_vars
    OBVIOUS
  <1>1. CASE UNCHANGED systemVars
    BY <1>1 DEF systemVars
  <1>2. ASSUME NEW m \in Msg, EventArrives(m) PROVE UNCHANGED vars
    BY <1>2 DEF EventArrives
  <1>3. ASSUME NEW c \in Channel, HandleMessage(c) PROVE Next \/ UNCHANGED vars
    BY <1>3 DEF HandleMessage, Handle, CannotPrepare, AskForTurn, GoOn, TurnReturns,
                HandlerReturns, Next
  <1>4. ASSUME NEW c \in Channel, WorkerTakes(c) \/ WorkerStops(c) PROVE UNCHANGED vars
    BY <1>4 DEF WorkerTakes, WorkerStops
  <1>5. ASSUME NEW k \in Caller, Serve(k) PROVE Next
    BY <1>5 DEF Serve, Next
  <1>6. CASE Tick \/ TickReturns \/ ServerDies \/ Stop
    BY <1>6 DEF Tick, TickReturns, ServerDies, Stop, Next
  <1>7. CASE AllOver
    BY <1>7 DEF AllOver, systemVars
  <1> QED
    BY <1>1, <1>2, <1>3, <1>4, <1>5, <1>6, <1>7 DEF SystemNext

\* One worker per channel, which waits for its handler, is all that the coordinator
\* takes for granted: the program's turns are turns of Coordinator.
THEOREM SystemIsCoordinator == SystemSpec => Spec
  <1>1. SystemInit => Init
    BY DEF SystemInit
  <1> QED
    BY <1>1, StepIsCoordinators, PTL DEF SystemSpec, Spec

LEMMA TurnsInv == SystemSpec => []Inv
  BY SystemIsCoordinator, AlwaysInv, PTL

\* The same for the dispatcher, in the two names its definitions have here.
LEMMA SameInit == D!Init <=> DP!Init
  BY DEF D!Init, DP!Init

LEMMA SameEnqueue == \A m \in Msg : D!Enqueue(m) <=> DP!Enqueue(m)
  BY DEF D!Enqueue, D!GetOrCreateWorker, D!RefuseAtShutdown, D!PassShutdownCheck, D!Send, D!FindFull,
         D!DrainOldest, D!FindNothingToDrain, D!Resend, D!GiveUp, D!Put,
         DP!Enqueue, DP!GetOrCreateWorker, DP!RefuseAtShutdown, DP!PassShutdownCheck, DP!Send, DP!FindFull,
         DP!DrainOldest, DP!FindNothingToDrain, DP!Resend, DP!GiveUp, DP!Put,
         D!callVars, D!workerVars, D!historyVars, DP!callVars, DP!workerVars, DP!historyVars

LEMMA SameWorker ==
    \A c \in Channel : /\ D!TakeFirst(c) <=> DP!TakeFirst(c)
                       /\ D!TakeNext(c) <=> DP!TakeNext(c)
                       /\ D!CallHandler(c) <=> DP!CallHandler(c)
                       /\ D!HandlerReturns(c) <=> DP!HandlerReturns(c)
                       /\ D!ExitIdle(c) <=> DP!ExitIdle(c)
                       /\ D!ExitCollecting(c) <=> DP!ExitCollecting(c)
  BY DEF D!TakeFirst, D!TakeNext, D!CallHandler, D!HandlerReturns, D!ExitIdle, D!ExitCollecting,
         D!Receive, DP!TakeFirst, DP!TakeNext, DP!CallHandler, DP!HandlerReturns, DP!ExitIdle,
         DP!ExitCollecting, DP!Receive,
         D!callVars, D!workerVars, D!historyVars, DP!callVars, DP!workerVars, DP!historyVars

LEMMA SameCancel == D!Cancel <=> DP!Cancel
  BY DEF D!Cancel, DP!Cancel, D!callVars, D!workerVars, D!historyVars,
         DP!callVars, DP!workerVars, DP!historyVars

\* What leaves the dispatcher and ctxDone alone is no step of it.
LEMMA DispatcherRests == UNCHANGED <<ctxDone, dispatcherVars>> => UNCHANGED DP!vars
  BY DEF dispatcherVars, DP!vars

LEMMA StepIsDispatchers == Inv /\ [SystemNext]_systemVars => [DP!Next]_DP!vars
  <1> SUFFICES ASSUME Inv, [SystemNext]_systemVars PROVE DP!Next \/ UNCHANGED DP!vars
    OBVIOUS
  <1>1. CASE UNCHANGED systemVars
    BY <1>1, DispatcherRests DEF systemVars, vars
  <1>2. ASSUME NEW m \in Msg, EventArrives(m) PROVE DP!Next
    BY <1>2, SameEnqueue DEF EventArrives, DP!Next
  <1>3. ASSUME NEW c \in Channel,
               \/ Handle(c) \/ HandlerReturns(c) \/ WorkerTakes(c) \/ WorkerStops(c)
        PROVE  DP!Next
    BY <1>3, SameWorker DEF Handle, HandlerReturns, WorkerTakes, WorkerStops, DP!Next, DP!RunWorker
  <1>4. ASSUME NEW c \in Channel,
               CannotPrepare(c) \/ AskForTurn(c) \/ GoOn(c) \/ TurnReturns(c)
        PROVE  UNCHANGED DP!vars
    <2>1. UNCHANGED <<ctxDone, dispatcherVars>>
      BY <1>4 DEF CannotPrepare, AskForTurn, GoOn, TurnReturns, vars, Calling, RunMessageTurn,
                  SteerFailed, StartFailed, NewThreadMade, TurnDone, TurnFailed
    <2> QED
      BY <2>1, DispatcherRests
  <1>5. ASSUME NEW k \in Caller, Serve(k) PROVE UNCHANGED DP!vars
    <2>1. UNCHANGED <<ctxDone, dispatcherVars>>
      BY <1>5, OperationFrame DEF Serve, Inv, TypeOK
    <2> QED
      BY <2>1, DispatcherRests
  <1>6. CASE Tick \/ TickReturns \/ ServerDies
    <2>1. UNCHANGED <<ctxDone, dispatcherVars>>
      BY <1>6 DEF Tick, TickReturns, ServerDies, HeartbeatTick, HeartbeatDone, Crash, Calling
    <2> QED
      BY <2>1, DispatcherRests
  <1>7. CASE Stop
    BY <1>7, SameCancel DEF Stop, DP!Next
  <1>8. CASE AllOver
    BY <1>8, DispatcherRests DEF AllOver, systemVars, vars
  <1> QED
    BY <1>1, <1>2, <1>3, <1>4, <1>5, <1>6, <1>7, <1>8 DEF SystemNext, HandleMessage

\* handleMessage and the client do nothing to the dispatcher: what is proved of
\* every dispatcher holds of the program's.
THEOREM SystemIsDispatcher == SystemSpec => DP!Spec
  <1>1. SystemInit => DP!Init
    BY SameInit DEF SystemInit
  <1> QED
    BY <1>1, StepIsDispatchers, TurnsInv, PTL DEF SystemSpec, DP!Spec

QueueInv == DP!TypeOK /\ DP!LocalsMatchBatch /\ DP!OnePlace

LEMMA QueuesInv == SystemSpec => []QueueInv
  <1>1. DP!ConstantsAssumption
    BY SystemAssumption DEF DP!ConstantsAssumption
  <1>2. DP!Spec => [](DP!TypeOK /\ DP!LocalsMatchBatch)
    BY <1>1, DP!TypesAndLocals
  <1>3. DP!Spec => []DP!OnePlace
    BY <1>1, DP!MessagesInOnePlace
  <1> QED
    BY SystemIsDispatcher, <1>2, <1>3, PTL DEF QueueInv

-----------------------------------------------------------------------------
(* Handlers and turns. *)

\* Where handleMessage of a channel is, the worker and the coordinator agree: the
\* worker waits for it, and the channel has a turn exactly while it waits for one.
Handlers ==
    /\ handler \in [Channel -> {"none", "prepare", "turn", "return"}]
    /\ \A c \in Channel :
         /\ handler[c] # "none" <=> worker[c] = "handling"
         /\ handler[c] = "turn" <=> at[c] # "idle"
         /\ handler[c] # "none" => /\ latest[c] \in Msg
                                  /\ ChannelOf[latest[c]] = c /\ fate[latest[c]] = "handled"
         /\ handler[c] \in {"prepare", "turn"} => latest[c] \in Allowed

\* The newest message of the batch a worker collects.
LEMMA LatestIsBatched ==
    ASSUME QueueInv, NEW c \in Channel, worker[c] = "collect"
    PROVE  latest[c] \in Msg /\ ChannelOf[latest[c]] = c /\ fate[latest[c]] = "batched"
  <1>1. batch[c] \in Seq(Msg) /\ batch[c] # <<>> /\ latest[c] = batch[c][Len(batch[c])]
    BY DEF QueueInv, DP!TypeOK, DP!LocalsMatchBatch
  <1>2. Len(batch[c]) \in 1..Len(batch[c]) /\ latest[c] \in Msg
    BY <1>1, DP!EndsFacts
  <1>3. DP!Holds(batch[c], latest[c])
    BY <1>1, <1>2 DEF DP!Holds
  <1> QED
    BY <1>2, <1>3 DEF QueueInv, DP!OnePlace

LEMMA HandledKept ==
    ASSUME QueueInv, Inv, [SystemNext]_systemVars, NEW m \in Msg, fate[m] = "handled"
    PROVE  fate'[m] = "handled"
  <1>1. DP!ConstantsAssumption
    BY SystemAssumption DEF DP!ConstantsAssumption
  <1> QED
    BY <1>1, StepIsDispatchers, DP!HandledStays DEF QueueInv

LEMMA HandlersStep ==
    ASSUME Inv, QueueInv, Handlers, [SystemNext]_systemVars
    PROVE  Handlers'
  <1> USE SystemAssumption, CallersAre
  <1>0. /\ worker \in [Channel -> DP!Stages] /\ latest \in [Channel -> Msg \cup {NoMsg}]
        /\ at \in [Channel -> Places] /\ fate \in [Msg -> DP!Fates]
    BY DEF QueueInv, DP!TypeOK, Inv, TypeOK
  <1>1. \A m \in Msg : fate[m] = "handled" => fate'[m] = "handled"
    BY HandledKept
  <1> DEFINE H(c) ==
         /\ handler[c] \in {"none", "prepare", "turn", "return"}
         /\ handler[c] # "none" <=> worker[c] = "handling"
         /\ handler[c] = "turn" <=> at[c] # "idle"
         /\ handler[c] # "none" => /\ latest[c] \in Msg
                                  /\ ChannelOf[latest[c]] = c /\ fate[latest[c]] = "handled"
         /\ handler[c] \in {"prepare", "turn"} => latest[c] \in Allowed
  <1>2. \A c \in Channel : H(c)
    BY DEF Handlers
  <1>3. ASSUME UNCHANGED <<handler, at>>,
               \A c \in Channel : /\ worker[c] = "handling" <=> worker'[c] = "handling"
                                  /\ worker[c] = "handling" => latest'[c] = latest[c]
        PROVE  Handlers'
    <2>1. ASSUME NEW c \in Channel PROVE H(c)'
      BY <1>1, <1>2, <1>3
    <2> QED
      BY <2>1, <1>3 DEF Handlers
  <1>4. ASSUME NEW m \in Msg, EventArrives(m) PROVE Handlers'
    <2>1. UNCHANGED <<handler, at, latest>>
      BY <1>4 DEF EventArrives, vars, D!Enqueue, D!GetOrCreateWorker, D!RefuseAtShutdown,
           D!PassShutdownCheck, D!Send, D!FindFull, D!DrainOldest, D!FindNothingToDrain, D!Resend,
           D!GiveUp, D!workerVars
    <2>2. worker' = worker \/ worker' = [worker EXCEPT ![ChannelOf[m]] = IF @ = "none" THEN "select" ELSE @]
      BY <1>4 DEF EventArrives, D!Enqueue, D!GetOrCreateWorker, D!RefuseAtShutdown,
           D!PassShutdownCheck, D!Send, D!FindFull, D!DrainOldest, D!FindNothingToDrain, D!Resend,
           D!GiveUp, D!workerVars
    <2> QED
      BY <2>1, <2>2, <1>0, <1>3
  <1>5. ASSUME NEW c \in Channel, WorkerTakes(c) \/ WorkerStops(c) PROVE Handlers'
    <2>1. UNCHANGED <<handler, at>>
      BY <1>5 DEF WorkerTakes, WorkerStops, vars
    <2>2. /\ worker[c] # "handling" /\ worker'[c] # "handling"
          /\ \A d \in Channel \ {c} : worker'[d] = worker[d] /\ latest'[d] = latest[d]
      BY <1>5, <1>0 DEF WorkerTakes, WorkerStops, D!TakeFirst, D!TakeNext, D!ExitIdle,
           D!ExitCollecting, D!Receive
    <2> QED
      BY <2>1, <2>2, <1>3
  <1>6. ASSUME NEW c \in Channel, Handle(c) PROVE Handlers'
    <2>1. /\ worker[c] = "collect" /\ worker' = [worker EXCEPT ![c] = "handling"]
          /\ latest' = latest
          /\ fate'[latest[c]] = "handled"
      BY <1>6, <1>0, LatestIsBatched DEF Handle, D!CallHandler
    <2>2. /\ handler' = [handler EXCEPT ![c] = IF latest[c] \in Allowed THEN "prepare" ELSE "return"]
          /\ at' = at
      BY <1>6 DEF Handle, vars
    <2>3. ASSUME NEW d \in Channel PROVE H(d)'
      BY <2>1, <2>2, <1>0, <1>1, <1>2, LatestIsBatched DEF Handlers
    <2> QED
      BY <2>2, <2>3 DEF Handlers
  <1>7. ASSUME NEW c \in Channel, HandlerReturns(c) PROVE Handlers'
    <2>1. /\ handler[c] = "return" /\ handler' = [handler EXCEPT ![c] = "none"]
          /\ worker' = [worker EXCEPT ![c] = "select"]
          /\ UNCHANGED <<at, latest>>
      BY <1>7 DEF HandlerReturns, D!HandlerReturns, vars
    <2>2. ASSUME NEW d \in Channel PROVE H(d)'
      BY <2>1, <1>0, <1>1, <1>2 DEF Handlers
    <2> QED
      BY <2>1, <2>2 DEF Handlers
  <1>8. ASSUME NEW c \in Channel, CannotPrepare(c) \/ AskForTurn(c) \/ GoOn(c) \/ TurnReturns(c)
        PROVE  Handlers'
    <2>1. UNCHANGED <<worker, latest>>
      BY <1>8 DEF CannotPrepare, AskForTurn, GoOn, TurnReturns, dispatcherVars
    <2>2. /\ \A d \in Channel \ {c} : handler'[d] = handler[d] /\ at'[d] = at[d]
          /\ handler'[c] \in {"turn", "return"} /\ handler[c] # "none"
          /\ handler'[c] = "turn" <=> at'[c] # "idle"
          /\ handler'[c] = "turn" => handler[c] \in {"prepare", "turn"}
          /\ handler' \in [Channel -> {"none", "prepare", "turn", "return"}]
      <3>1. CASE CannotPrepare(c)
        BY <3>1, <1>2 DEF CannotPrepare, vars, Handlers
      <3>2. CASE AskForTurn(c)
        <4>1. \E p \in {"newThread", "start", "steer"} : at' = [at EXCEPT ![c] = p]
          BY <3>2 DEF AskForTurn, RunMessageTurn
        <4>2. handler[c] = "prepare" /\ handler' = [handler EXCEPT ![c] = "turn"]
          BY <3>2 DEF AskForTurn
        <4> QED
          BY <4>1, <4>2, <1>0 DEF Handlers
      <3>3. CASE GoOn(c)
        BY <3>3, <1>0, <1>2 DEF GoOn, SteerFailed, StartFailed, NewThreadMade, Handlers
      <3>4. CASE TurnReturns(c)
        <4>1. at[c] # "idle" /\ at' = [at EXCEPT ![c] = "idle"]
          BY <3>4 DEF TurnReturns, TurnDone, TurnFailed, TurnOver
        <4>2. handler' = [handler EXCEPT ![c] = "return"]
          BY <3>4 DEF TurnReturns
        <4> QED
          BY <4>1, <4>2, <1>0, <1>2 DEF Handlers
      <3> QED
        BY <1>8, <3>1, <3>2, <3>3, <3>4
    <2>3. ASSUME NEW d \in Channel PROVE H(d)'
      BY <2>1, <2>2, <1>1, <1>2
    <2> QED
      BY <2>2, <2>3 DEF Handlers
  <1>9. ASSUME UNCHANGED <<handler, at, worker, latest>> PROVE Handlers'
    BY <1>3, <1>9
  <1>10. CASE \/ Tick \/ TickReturns \/ ServerDies \/ Stop \/ AllOver \/ UNCHANGED systemVars
              \/ \E k \in Caller : Serve(k)
    BY <1>9, <1>10 DEF Tick, TickReturns, ServerDies, Stop, AllOver, Serve, systemVars, vars,
         dispatcherVars, HeartbeatTick, HeartbeatDone, Shutdown, D!Cancel, D!workerVars
  <1> QED
    BY <1>4, <1>5, <1>6, <1>7, <1>8, <1>10 DEF SystemNext, HandleMessage

-----------------------------------------------------------------------------
(* Without a fault. *)

\* A request is sent to a process.
Connected == \A k \in Caller : step[k] \in {"thread", "turn", "stream"} => session # 0

\* Until the first fault the session's process runs; a prompt is taken up in the
\* operation that succeeds; and the thread just made for a turn is in the session's
\* process, unless another caller stopped that one.
Faultless == faults = 0 =>
    /\ session # 0 => session \in procs
    /\ \A c \in Channel :
         /\ step[c] \notin {"stream", "ok"} => ran[c] = 0
         /\ at[c] = "newThread" => ran[c] = 0
         /\ ran[c] <= 1
         /\ \/ at[c] = "newTurn"
            \/ at[c] = "newThread" /\ step[c] = "ok"
            => robbed[c] \/ (op[c].thread.home = session /\ session # 0)
         /\ at[c] \in {"newThread", "newTurn"} /\ step[c] = "failed"
            => expired[c] \/ ctxDone \/ robbed[c]

\* One caller's part of it.
FaultlessOf(c) ==
    /\ step[c] \notin {"stream", "ok"} => ran[c] = 0
    /\ at[c] = "newThread" => ran[c] = 0
    /\ ran[c] <= 1
    /\ \/ at[c] = "newTurn"
       \/ at[c] = "newThread" /\ step[c] = "ok"
       => robbed[c] \/ (op[c].thread.home = session /\ session # 0)
    /\ at[c] \in {"newThread", "newTurn"} /\ step[c] = "failed"
       => expired[c] \/ ctxDone \/ robbed[c]

LEMMA ConnectedStep ==
    ASSUME Inv, Connected, [Next]_vars
    PROVE  Connected'
  <1> USE CallersAre DEF Inv, TypeOK, ClientTypeOK, Connected
  <1>1. ASSUME NEW k \in Caller, Between(k) PROVE Connected'
    BY <1>1 DEF Between
  <1>2. ASSUME NEW k \in Caller, Operation(k) PROVE Connected'
    <2>1. \A j \in Caller \ {k} : step'[j] \notin Busy
      BY <1>2, OperationAlone
    <2>2. step'[k] \in {"thread", "turn", "stream"} => session' # 0
      <3>1. CASE Acquire(k) \/ FindExpired(k) \/ CannotStart(k) \/ Close(k) \/ TurnCompleted(k)
        BY <3>1 DEF Acquire, FindExpired, CannotStart, Close, TurnCompleted, Return
      <3>2. CASE EnsureSession(k)
        BY <3>2 DEF EnsureSession
      <3>3. CASE ThreadStarted(k) \/ TurnAccepted(k)
        BY <3>3 DEF ThreadStarted, TurnAccepted, Return
      <3>4. CASE TurnRefused(k) \/ RequestFaults(k) \/ FindDead(k)
        BY <3>4, FailLeads DEF TurnRefused, RequestFaults, FindDead
      <3> QED
        BY <1>2, <3>1, <3>2, <3>3, <3>4 DEF Operation
    <2> QED
      BY <2>1, <2>2 DEF Busy
  <1>3. CASE \/ \E c \in Channel : ResetSession(c)
             \/ Crash \/ Finished \/ UNCHANGED vars
    BY <1>3 DEF ResetSession, Calling, Crash, Finished, vars
  <1> QED
    BY <1>1, <1>2, <1>3, CallersBetween DEF Next

\* An operation of channel c, while there is no fault.
LEMMA FaultlessOperation ==
    ASSUME Inv, Connected, Faultless, faults = 0, NEW c \in Channel, Operation(c),
           UNCHANGED <<at>>, faults' = 0, robbed'[c] = robbed[c]
    PROVE  FaultlessOf(c)' /\ (session' # 0 => session' \in procs')
  <1> USE CallersAre DEF Inv, TypeOK, ClientTypeOK
  <1>1. FaultlessOf(c) /\ (session # 0 => session \in procs)
    BY DEF Faultless, FaultlessOf
  <1>2. /\ at[c] # "idle" /\ op[c].kind = KindAt(at[c])
        /\ step[c] \in Busy => lock = c
    BY OperationFrame DEF Calls, Working
  <1>3. /\ procs \subseteq Nat \ {0} /\ ran[c] \in Nat /\ step \in [Caller -> Steps]
        /\ ran \in [Caller -> Nat] /\ started \in Nat /\ c \in Caller
    OBVIOUS
  <1>4. CASE Acquire(c)
    BY <1>1, <1>3, <1>4 DEF Acquire, FaultlessOf
  <1>5. CASE FindExpired(c)
    <2>1. ctxDone' \/ expired'[c]
      BY <1>5 DEF FindExpired
    <2> QED
      BY <1>1, <1>3, <1>5, <2>1 DEF FindExpired, FaultlessOf, Return
  <1>6. CASE EnsureSession(c)
    <2>1. at[c] = "newTurn" /\ ~robbed[c] => session' = session
      BY <1>1, <1>6 DEF EnsureSession, FaultlessOf
    <2>2. step[c] = "try" /\ step'[c] \in {"thread", "turn"} /\ UNCHANGED <<op, ran, expired, ctxDone>>
      BY <1>3, <1>6 DEF EnsureSession, FirstRequest
    <2>3. session' # 0 => session' \in procs'
      BY <1>1, <1>6 DEF EnsureSession
    <2> QED
      BY <1>1, <2>1, <2>2, <2>3 DEF FaultlessOf
  <1>7. CASE CannotStart(c) \/ RequestFaults(c)
    BY <1>7 DEF CannotStart, RequestFaults
  <1>8. CASE ThreadStarted(c)
    <2>1. at[c] = "newThread" /\ op[c].kind = "startThread"
      BY <1>2, <1>8 DEF ThreadStarted, Working, KindAt
    <2>2. /\ step'[c] = "ok" /\ op'[c].thread.home = session /\ session # 0
          /\ UNCHANGED <<session, procs, ran>>
      BY <1>3, <1>8, <2>1 DEF ThreadStarted, Return
    <2> QED
      BY <1>1, <2>1, <2>2 DEF FaultlessOf
  <1>9. CASE TurnAccepted(c)
    <2>1. at[c] # "newThread"
      BY <1>2, <1>9 DEF TurnAccepted, Working, KindAt
    <2>2. /\ step[c] = "turn" /\ step'[c] = "stream" /\ ran'[c] = ran[c] + 1
          /\ UNCHANGED <<session, procs, op>>
      BY <1>3, <1>9 DEF TurnAccepted
    <2> QED
      BY <1>1, <2>1, <2>2 DEF FaultlessOf
  <1>10. CASE TurnRefused(c)
    <2>1. at[c] \in {"newThread", "newTurn"} => at[c] = "newTurn" /\ robbed[c]
      <3>1. CASE at[c] = "newThread"
        BY <1>2, <1>10, <3>1 DEF TurnRefused, Working, KindAt
      <3>2. CASE at[c] = "newTurn"
        BY <1>1, <1>2, <1>10, <3>2 DEF TurnRefused, Served, Reachable, FaultlessOf, KindAt
      <3> QED
        BY <3>1, <3>2
    <2>2. /\ step[c] = "turn" /\ step'[c] \in {"try", "failed"} /\ session' = 0
          /\ UNCHANGED <<op, ran, expired, ctxDone>>
      BY <1>10, FailLeads DEF TurnRefused
    <2> QED
      BY <1>1, <2>1, <2>2 DEF FaultlessOf
  <1>11. CASE FindDead(c)
    BY <1>1, <1>11 DEF FindDead, Connected
  <1>12. CASE TurnCompleted(c)
    <2>1. at[c] # "newThread"
      BY <1>2, <1>12 DEF TurnCompleted, Working, KindAt
    <2>2. /\ step[c] = "stream" /\ step'[c] = "ok" /\ UNCHANGED <<session, procs, ran>>
          /\ op'[c].thread = op[c].thread
      BY <1>3, <1>12 DEF TurnCompleted, Return
    <2> QED
      BY <1>1, <2>1, <2>2 DEF FaultlessOf
  <1>13. CASE Close(c)
    BY <1>2, <1>13 DEF Close, KindAt
  <1> QED
    BY <1>4, <1>5, <1>6, <1>7, <1>8, <1>9, <1>10, <1>11, <1>12, <1>13 DEF Operation

\* What a step of the caller k does to the history of channel c.
Robbery(c, k) ==
    robbed'[c] <=> \/ robbed[c]
                   \/ /\ at[c] \in {"newThread", "newTurn"} /\ c # k
                      /\ op[c].thread.home = session /\ session' # session

\* The others' operations: all they can do to channel c is to stop the process.
LEMMA FaultlessOthers ==
    ASSUME Inv, faults = 0, faults' = 0, NEW k \in Caller, Operation(k),
           NEW c \in Channel, c # k, FaultlessOf(c), UNCHANGED <<at>>,
           Robbery(c, k)
    PROVE  FaultlessOf(c)'
  <1>1. /\ op'[c] = op[c] /\ step'[c] = step[c] /\ ran'[c] = ran[c] /\ ctxDone' = ctxDone
    BY OperationFrame, CallersAre DEF Inv, TypeOK
  <1>2. expired'[c] = expired[c]
    BY CallersAre DEF Inv, TypeOK, ClientTypeOK, Operation, Acquire, FindExpired, EnsureSession, CannotStart,
         ThreadStarted, TurnAccepted, TurnRefused, RequestFaults, FindDead, TurnCompleted, Close, Fail
  <1> QED
    BY <1>1, <1>2 DEF FaultlessOf, Robbery

LEMMA SessionAlive ==
    ASSUME Inv, Connected, faults = 0, session # 0 => session \in procs,
           NEW k \in Caller, Operation(k), faults' = 0
    PROVE  session' # 0 => session' \in procs'
  <1> USE DEF Inv, TypeOK, ClientTypeOK
  <1>1. CASE \/ Acquire(k) \/ FindExpired(k) \/ ThreadStarted(k) \/ TurnAccepted(k) \/ TurnCompleted(k)
             \/ CannotStart(k)
    BY <1>1 DEF Acquire, FindExpired, ThreadStarted, TurnAccepted, TurnCompleted, CannotStart
  <1>2. CASE EnsureSession(k)
    BY <1>2 DEF EnsureSession
  <1>3. CASE TurnRefused(k) \/ RequestFaults(k) \/ FindDead(k) \/ Close(k)
    BY <1>3, FailLeads DEF TurnRefused, RequestFaults, FindDead, Close, StopSession
  <1> QED
    BY <1>1, <1>2, <1>3 DEF Operation

LEMMA FaultlessStep ==
    ASSUME Inv, Connected, Handlers, Faultless, robbed \in [Channel -> BOOLEAN],
           [SystemNext]_systemVars
    PROVE  Faultless' /\ robbed' \in [Channel -> BOOLEAN]
  <1> USE CallersAre DEF Inv, TypeOK, ClientTypeOK
  <1>0. Faultless <=> (faults = 0 => /\ session # 0 => session \in procs
                                     /\ \A c \in Channel : FaultlessOf(c))
    BY DEF Faultless, FaultlessOf
  <1>00. Faultless' <=> (faults' = 0 => /\ session' # 0 => session' \in procs'
                                        /\ \A c \in Channel : FaultlessOf(c)')
    BY DEF Faultless, FaultlessOf
  <1> HIDE DEF Inv, TypeOK, ClientTypeOK
  <1>1. ASSUME UNCHANGED <<vars, robbed>> PROVE Faultless' /\ robbed' \in [Channel -> BOOLEAN]
    BY <1>1 DEF Faultless, vars
  <1>2. ASSUME NEW c \in Channel, AskForTurn(c) \/ GoOn(c) \/ TurnReturns(c)
        PROVE  Faultless' /\ robbed' \in [Channel -> BOOLEAN]
    <2>1. /\ UNCHANGED <<session, procs, faults, ctxDone>>
          /\ \A d \in Channel \ {c} : /\ at'[d] = at[d] /\ step'[d] = step[d] /\ op'[d] = op[d]
                                       /\ ran'[d] = ran[d] /\ expired'[d] = expired[d]
                                       /\ robbed'[d] = robbed[d]
          /\ robbed' \in [Channel -> BOOLEAN]
      <3> USE DEF Calling, Invoke, Inv, TypeOK, ClientTypeOK
      <3>1. CASE AskForTurn(c)
        <4>1. robbed' = [robbed EXCEPT ![c] = FALSE]
          BY <3>1 DEF AskForTurn
        <4>2. /\ robbed' \in [Channel -> BOOLEAN]
              /\ \A d \in Channel \ {c} : robbed'[d] = robbed[d]
          BY ONLY <4>1, robbed \in [Channel -> BOOLEAN]
        <4>3. /\ UNCHANGED <<session, procs, faults, ctxDone>>
              /\ \A d \in Channel \ {c} : /\ at'[d] = at[d] /\ step'[d] = step[d] /\ op'[d] = op[d]
                                           /\ ran'[d] = ran[d] /\ expired'[d] = expired[d]
          BY <3>1 DEF AskForTurn, RunMessageTurn
        <4> QED
          BY <4>2, <4>3
      <3>2. CASE GoOn(c)
        BY <3>2 DEF GoOn, SteerFailed, StartFailed, NewThreadMade
      <3>3. CASE TurnReturns(c)
        BY <3>3 DEF TurnReturns, TurnDone, TurnFailed, TurnOver
      <3> QED
        BY <1>2, <3>1, <3>2, <3>3
    <2>2. ASSUME NEW d \in Channel, d # c, FaultlessOf(d) PROVE FaultlessOf(d)'
      BY <2>1, <2>2 DEF FaultlessOf
    <2>3. ASSUME FaultlessOf(c) PROVE FaultlessOf(c)'
      <3>1. CASE AskForTurn(c)
        <4>1. step[c] = "idle"
          BY <3>1 DEF AskForTurn, RunMessageTurn, Inv, Calls
        <4>2. at'[c] # "newTurn" /\ step'[c] = "lock" /\ ran'[c] = ran[c]
          BY <3>1 DEF AskForTurn, RunMessageTurn, Invoke, Inv, TypeOK, ClientTypeOK
        <4> QED
          BY <2>3, <4>1, <4>2 DEF FaultlessOf
      <3>2. CASE SteerFailed(c) \/ StartFailed(c)
        <4>1. step[c] = "failed" /\ at'[c] # "newTurn" /\ step'[c] = "lock" /\ ran'[c] = ran[c]
          BY <3>2 DEF SteerFailed, StartFailed, Invoke, Inv, TypeOK, ClientTypeOK
        <4> QED
          BY <2>3, <4>1 DEF FaultlessOf
      <3>3. CASE NewThreadMade(c) /\ robbed' = robbed
        <4>1. /\ at[c] = "newThread" /\ step[c] = "ok" /\ at'[c] = "newTurn" /\ step'[c] = "lock"
              /\ ran'[c] = ran[c] /\ op'[c].thread = op[c].thread
          BY <3>3 DEF NewThreadMade, Invoke, Inv, TypeOK, ClientTypeOK
        <4> QED
          BY <2>1, <2>3, <3>3, <4>1 DEF FaultlessOf
      <3>4. CASE TurnReturns(c)
        <4>1. at'[c] = "idle" /\ ran'[c] = 0
          BY <3>4 DEF TurnReturns, TurnDone, TurnFailed, TurnOver, Inv, TypeOK, ClientTypeOK
        <4> QED
          BY <4>1 DEF FaultlessOf
      <3> QED
        BY <1>2, <3>1, <3>2, <3>3, <3>4 DEF GoOn
    <2> QED
      BY <1>0, <1>00, <2>1, <2>2, <2>3
  <1>3. CASE Tick \/ TickReturns \/ Stop
    <2>1. /\ UNCHANGED <<session, procs, faults, robbed, at>>
          /\ ctxDone => ctxDone'
          /\ \A d \in Channel : /\ step'[d] = step[d] /\ op'[d] = op[d]
                                /\ ran'[d] = ran[d] /\ expired'[d] = expired[d]
      BY <1>3, CoordinatorAssumption DEF Tick, TickReturns, Stop, HeartbeatTick, HeartbeatDone, Shutdown,
           Invoke, Calling, Inv, TypeOK, ClientTypeOK
    <2>2. ASSUME NEW d \in Channel, FaultlessOf(d) PROVE FaultlessOf(d)'
      BY <2>1, <2>2 DEF FaultlessOf
    <2> QED
      BY <1>0, <1>00, <2>1, <2>2
  <1>4. CASE ServerDies
    BY <1>4, <1>00 DEF ServerDies, Crash, Inv, TypeOK, ClientTypeOK
  <1>5. ASSUME NEW k \in Caller, Serve(k) PROVE Faultless' /\ robbed' \in [Channel -> BOOLEAN]
    <2>1. /\ Operation(k) /\ UNCHANGED at
          /\ \A c \in Channel : Robbery(c, k)
      BY <1>5 DEF Serve, Robbery
    <2>5. robbed' \in [Channel -> BOOLEAN]
      <3> DEFINE F(c) == \/ robbed[c]
                         \/ /\ at[c] \in {"newThread", "newTurn"} /\ c # k
                            /\ op[c].thread.home = session /\ session' # session
      <3>1. robbed' = [c \in Channel |-> F(c)]
        BY <1>5 DEF Serve
      <3>2. \A c \in Channel : F(c) \in BOOLEAN
        BY Zenon
      <3> HIDE DEF F
      <3> QED
        BY <3>1, <3>2
    <2>2. faults' = 0 => faults = 0
      BY <2>1 DEF Operation, Acquire, FindExpired, EnsureSession, CannotStart, ThreadStarted, TurnAccepted,
           TurnRefused, RequestFaults, FindDead, TurnCompleted, Close, Inv, TypeOK, ClientTypeOK
    <2>3. ASSUME faults' = 0 PROVE session' # 0 => session' \in procs'
      BY <1>0, <2>1, <2>2, <2>3, SessionAlive
    <2>4. ASSUME faults' = 0, NEW c \in Channel PROVE FaultlessOf(c)'
      <3>1. CASE c = k
        <4>1. robbed'[c] = robbed[c]
          BY <2>1, <2>5, <3>1 DEF Robbery
        <4> QED
          BY <2>1, <2>2, <2>4, <3>1, <4>1, FaultlessOperation
      <3>2. CASE c # k
        <4>1. faults = 0 /\ FaultlessOf(c)
          BY <1>0, <2>2, <2>4
        <4> QED
          BY <2>1, <2>4, <3>2, <4>1, FaultlessOthers
      <3> QED
        BY <3>1, <3>2
    <2> QED
      BY <1>00, <2>5, <2>3, <2>4
  <1>6. CASE AllOver \/ UNCHANGED systemVars
    BY <1>1, <1>6 DEF AllOver, systemVars
  <1>7. ASSUME NEW c \in Channel, \/ Handle(c) \/ CannotPrepare(c) \/ HandlerReturns(c)
                                  \/ WorkerTakes(c) \/ WorkerStops(c)
        PROVE  UNCHANGED <<vars, robbed>>
    BY <1>7 DEF Handle, CannotPrepare, HandlerReturns, WorkerTakes, WorkerStops
  <1>8. ASSUME NEW m \in Msg, EventArrives(m) PROVE UNCHANGED <<vars, robbed>>
    BY <1>8 DEF EventArrives
  <1> QED
    BY <1>1, <1>2, <1>3, <1>4, <1>5, <1>6, <1>7, <1>8 DEF SystemNext, HandleMessage

-----------------------------------------------------------------------------
(* What the server takes up. *)

\* The count of a message is its turn's count while the turn goes on, and zero
\* before; and a message that was not handed over has none.
Counted == \A c \in Channel : /\ handler[c] = "prepare" => taken[latest[c]] = 0
                              /\ handler[c] = "turn" => taken[latest[c]] = ran[c]

Taken ==
    /\ taken \in [Msg -> Nat]
    /\ OnePromptPerMessage
    /\ Counted

\* A step that takes nothing up.
LEMMA NothingTaken ==
    ASSUME Inv, QueueInv, Handlers, Taken, [SystemNext]_systemVars, taken' = taken,
           faults' = 0 => faults = 0,
           Counted'
    PROVE  Taken'
  <1>1. ASSUME NEW m \in Msg
        PROVE  taken'[m] <= IF fate'[m] # "handled" \/ m \notin Allowed THEN 0
                            ELSE IF faults' = 0 THEN 1 ELSE 2
    <2>1. taken[m] \in Nat /\ taken'[m] = taken[m]
      BY DEF Taken
    <2>2. taken[m] <= IF fate[m] # "handled" \/ m \notin Allowed THEN 0
                      ELSE IF faults = 0 THEN 1 ELSE 2
      BY DEF Taken, OnePromptPerMessage
    <2>3. fate[m] = "handled" => fate'[m] = "handled"
      BY HandledKept
    <2> QED
      BY <2>1, <2>2, <2>3
  <1>2. OnePromptPerMessage'
    BY <1>1 DEF OnePromptPerMessage
  <1> QED
    BY <1>2 DEF Taken

\* A worker in its handler receives nothing.
LEMMA LatestKept ==
    ASSUME QueueInv, Handlers, [SystemNext]_systemVars, NEW c \in Channel,
           handler[c] # "none"
    PROVE  latest'[c] = latest[c]
  <1> USE DEF QueueInv, DP!TypeOK
  <1>1. worker[c] = "handling"
    BY DEF Handlers
  <1>2. ASSUME NEW m \in Msg, EventArrives(m) PROVE latest' = latest
    BY <1>2 DEF EventArrives, D!Enqueue, D!GetOrCreateWorker, D!RefuseAtShutdown,
         D!PassShutdownCheck, D!Send, D!FindFull, D!DrainOldest, D!FindNothingToDrain, D!Resend,
         D!GiveUp, D!workerVars
  <1>3. ASSUME NEW d \in Channel, WorkerTakes(d) PROVE latest'[c] = latest[c]
    BY <1>1, <1>3 DEF WorkerTakes, D!TakeFirst, D!TakeNext, D!Receive
  <1>4. ASSUME NEW d \in Channel, WorkerStops(d) \/ HandleMessage(d) PROVE latest' = latest
    BY <1>4 DEF WorkerStops, D!ExitIdle, D!ExitCollecting, HandleMessage, Handle, CannotPrepare, AskForTurn, GoOn,
         TurnReturns, HandlerReturns, D!CallHandler, D!HandlerReturns, dispatcherVars
  <1>5. CASE \/ Tick \/ TickReturns \/ ServerDies \/ Stop \/ AllOver \/ UNCHANGED systemVars
             \/ \E k \in Caller : Serve(k)
    BY <1>5 DEF Tick, TickReturns, ServerDies, Stop, AllOver, Serve, systemVars, dispatcherVars,
         D!Cancel, D!workerVars
  <1> QED
    BY <1>2, <1>3, <1>4, <1>5 DEF SystemNext

LEMMA TakenStep ==
    ASSUME Inv, QueueInv, Handlers, Faultless, Taken, [SystemNext]_systemVars,
           Inv', Handlers', Faultless'
    PROVE  Taken'
  <1>0. /\ taken \in [Msg -> Nat] /\ ran \in [Caller -> Nat] /\ Channel \subseteq Caller
        /\ faults \in Nat /\ faults' \in Nat
    BY CallersAre DEF Taken, Inv, TypeOK, ClientTypeOK
  <1>1. \A c \in Channel : handler[c] # "none" => latest'[c] = latest[c]
    BY LatestKept
  <1>2. \A c \in Channel : /\ handler[c] = "prepare" => taken[latest[c]] = 0
                           /\ handler[c] = "turn" => taken[latest[c]] = ran[c]
    BY DEF Taken, Counted
  <1>3. ASSUME UNCHANGED <<taken, handler>>, faults' = 0 => faults = 0,
               \A c \in Channel : ran'[c] = ran[c]
        PROVE  Taken'
    <2>1. Counted'
      BY <1>1, <1>2, <1>3 DEF Counted
    <2> QED
      BY <1>3, <2>1, NothingTaken
  <1>4. ASSUME NEW m \in Msg, EventArrives(m) PROVE Taken'
    BY <1>3, <1>4 DEF EventArrives, vars
  <1>5. ASSUME NEW c \in Channel, WorkerTakes(c) \/ WorkerStops(c) PROVE Taken'
    BY <1>3, <1>5 DEF WorkerTakes, WorkerStops, vars
  <1>6. ASSUME NEW c \in Channel, Handle(c) PROVE Taken'
    <2>1. worker[c] = "collect" /\ latest' = latest
      BY <1>6 DEF Handle, D!CallHandler
    <2>2. /\ UNCHANGED <<taken, faults, ran>>
          /\ handler' \in {[handler EXCEPT ![c] = "prepare"], [handler EXCEPT ![c] = "return"]}
      BY <1>6 DEF Handle, vars
    <2>3. taken[latest[c]] = 0
      BY <2>1, <1>0, LatestIsBatched DEF Taken, OnePromptPerMessage
    <2>4. Counted'
      BY <1>2, <2>1, <2>2, <2>3 DEF Handlers, Counted
    <2> QED
      BY <2>2, <2>4, NothingTaken
  <1>7. ASSUME NEW c \in Channel, CannotPrepare(c) \/ HandlerReturns(c) PROVE Taken'
    <2>1. /\ UNCHANGED <<taken, faults, ran, latest>>
          /\ handler' \in {[handler EXCEPT ![c] = "none"], [handler EXCEPT ![c] = "return"]}
      BY <1>7 DEF CannotPrepare, HandlerReturns, vars, dispatcherVars, D!HandlerReturns
    <2>2. Counted'
      BY <1>2, <2>1 DEF Handlers, Counted
    <2> QED
      BY <2>1, <2>2, NothingTaken
  <1>8. ASSUME NEW c \in Channel, AskForTurn(c) PROVE Taken'
    <2>1. /\ UNCHANGED <<taken, faults, ran, latest>> /\ handler[c] = "prepare" /\ at[c] = "idle"
          /\ handler' = [handler EXCEPT ![c] = "turn"]
      BY <1>8 DEF AskForTurn, RunMessageTurn, dispatcherVars, Calling
    <2>2. ran[c] = 0
      BY <2>1 DEF Inv, Budget
    <2>3. handler'[c] = "turn" /\ \A d \in Channel \ {c} : handler'[d] = handler[d]
      BY <2>1 DEF Handlers
    <2>4. latest' = latest /\ taken' = taken /\ ran' = ran
      BY <2>1
    <2>5. taken[latest[c]] = 0
      <3>1. handler[c] = "prepare"
        BY <2>1
      <3> QED
        BY <1>2, <3>1
    <2>6. Counted'
      BY <1>2, <2>2, <2>3, <2>4, <2>5 DEF Counted
    <2> QED
      BY <2>1, <2>6, NothingTaken
  <1>9. ASSUME NEW c \in Channel, GoOn(c) PROVE Taken'
    BY <1>3, <1>9 DEF GoOn, SteerFailed, StartFailed, NewThreadMade, Calling
  <1>10. ASSUME NEW c \in Channel, TurnReturns(c) PROVE Taken'
    <2>1. /\ UNCHANGED <<taken, faults, latest>>
          /\ handler' = [handler EXCEPT ![c] = "return"]
          /\ \A d \in Channel \ {c} : ran'[d] = ran[d]
      BY <1>0, <1>10 DEF TurnReturns, TurnDone, TurnFailed, TurnOver, dispatcherVars, Calling
    <2>2. Counted'
      BY <1>2, <2>1 DEF Handlers, Counted
    <2> QED
      BY <2>1, <2>2, NothingTaken
  <1>11. CASE Tick \/ TickReturns \/ ServerDies \/ Stop
    <2>1. UNCHANGED <<taken, handler>> /\ (faults' = 0 => faults = 0)
      BY <1>0, <1>11 DEF Tick, TickReturns, ServerDies, Stop, HeartbeatTick, HeartbeatDone, Crash, Shutdown, Calling
    <2>2. \A c \in Channel : ran'[c] = ran[c]
      BY <1>0, <1>11, CoordinatorAssumption DEF Tick, TickReturns, ServerDies, Stop, HeartbeatTick,
           HeartbeatDone, Crash, Shutdown
    <2> QED
      BY <1>3, <2>1, <2>2
  <1>12. ASSUME NEW k \in Caller, Serve(k) PROVE Taken'
    <2>1. /\ Operation(k)
          /\ taken' = [m \in Msg |-> IF k \in Channel /\ ran'[k] # ran[k] /\ m = latest[k]
                                     THEN taken[m] + 1 ELSE taken[m]]
          /\ UNCHANGED <<handler, latest, fate, at>>
      BY <1>12 DEF Serve, dispatcherVars
    <2>2. faults' = 0 => faults = 0
      BY <2>1 DEF Operation, Acquire, FindExpired, EnsureSession, CannotStart, ThreadStarted, TurnAccepted,
           TurnRefused, RequestFaults, FindDead, TurnCompleted, Close, Inv, TypeOK, ClientTypeOK
    <2>3. \A c \in Channel \ {k} : ran'[c] = ran[c]
      BY <2>1, <1>0, OperationFrame DEF Inv, TypeOK
    <2>4. CASE k \in Channel /\ ran'[k] # ran[k]
      <3>1. TurnAccepted(k)
        BY <2>1, <2>4 DEF Operation, Acquire, FindExpired, EnsureSession, CannotStart, ThreadStarted,
             TurnRefused, RequestFaults, FindDead, TurnCompleted, Close, Fail
      <3>2. ran'[k] = ran[k] + 1 /\ step[k] = "turn"
        BY <1>0, <3>1 DEF TurnAccepted
      <3>3. handler[k] = "turn"
        BY <2>4, <3>2 DEF Handlers, Inv, Calls
      <3> DEFINE l == latest[k]
      <3>4. l \in Msg /\ l \in Allowed /\ ChannelOf[l] = k /\ fate[l] = "handled" /\ taken[l] = ran[k]
        BY SystemAssumption, <1>2, <2>4, <3>3 DEF Handlers
      <3>5. taken'[l] = ran'[k] /\ taken'[l] \in Nat
        BY <1>0, <2>1, <2>4, <3>2, <3>4
      <3>6. \A m \in Msg \ {l} : taken'[m] = taken[m]
        BY <2>1
      <3>7. taken' \in [Msg -> Nat]
        BY <1>0, <2>1
      <3>8. ran'[k] <= 2 /\ (faults' = 0 => ran'[k] <= 1)
        <4>1. at'[k] # "idle"
          BY <2>1, <2>4, <3>3 DEF Handlers
        <4>2. at'[k] \in Places /\ ran'[k] \in Nat
          BY <2>4 DEF Inv, TypeOK, ClientTypeOK
        <4>3. ran'[k] <= 2
          BY <2>4, <4>1, <4>2 DEF Inv, Budget, Places, TurnPlaces, Before
        <4> QED
          BY <2>4, <4>3 DEF Faultless
      <3>9. ASSUME NEW m \in Msg
            PROVE  taken'[m] <= IF fate'[m] # "handled" \/ m \notin Allowed THEN 0
                                ELSE IF faults' = 0 THEN 1 ELSE 2
        <4>1. CASE m = l
          BY <2>1, <3>4, <3>5, <3>8, <4>1
        <4>2. CASE m # l
          <5>1. taken'[m] = taken[m] /\ fate'[m] = fate[m] /\ taken[m] \in Nat
            BY <1>0, <2>1, <3>6, <4>2
          <5>2. taken[m] <= IF fate[m] # "handled" \/ m \notin Allowed THEN 0
                            ELSE IF faults = 0 THEN 1 ELSE 2
            BY DEF Taken, OnePromptPerMessage
          <5> QED
            BY <2>2, <5>1, <5>2
        <4> QED
          BY <4>1, <4>2
      <3>10. ASSUME NEW c \in Channel, handler[c] \in {"prepare", "turn"}, c # k
             PROVE  taken'[latest[c]] = taken[latest[c]]
        <4>1. latest[c] \in Msg /\ ChannelOf[latest[c]] = c
          BY SystemAssumption, <3>10 DEF Handlers
        <4> QED
          BY <3>4, <3>6, <3>10, <4>1
      <3>11. Counted'
        BY <1>2, <2>1, <2>3, <3>3, <3>5, <3>10 DEF Counted
      <3>12. OnePromptPerMessage'
        BY <3>9 DEF OnePromptPerMessage
      <3> QED
        BY <3>7, <3>11, <3>12 DEF Taken
    <2>5. CASE k \notin Channel \/ ran'[k] = ran[k]
      <3>1. taken' = taken
        BY <1>0, <2>1, <2>5
      <3> QED
        BY <1>3, <2>1, <2>2, <2>3, <2>5, <3>1
    <2> QED
      BY <2>4, <2>5
  <1>13. CASE AllOver \/ UNCHANGED systemVars
    BY <1>3, <1>13 DEF AllOver, systemVars, vars
  <1> QED
    BY <1>4, <1>5, <1>6, <1>7, <1>8, <1>9, <1>10, <1>11, <1>12, <1>13 DEF SystemNext, HandleMessage

-----------------------------------------------------------------------------
(* The theorems. *)

SystemInv == /\ Connected /\ Handlers /\ Faultless /\ Taken
             /\ robbed \in [Channel -> BOOLEAN]

LEMMA InitSystemInv == SystemInit => SystemInv
  <1> SUFFICES ASSUME SystemInit PROVE SystemInv
    OBVIOUS
  <1> USE CallersAre DEF SystemInit, Init, ClientInit
  <1>1. Connected
    BY DEF Connected
  <1>2. Handlers
    BY DEF Handlers, D!Init
  <1>3. Faultless
    BY DEF Faultless
  <1>4. Taken
    BY DEF Taken, Counted, OnePromptPerMessage, D!Init
  <1> QED
    BY <1>1, <1>2, <1>3, <1>4 DEF SystemInv

LEMMA StepSystemInv ==
    Inv /\ QueueInv /\ SystemInv /\ [SystemNext]_systemVars => SystemInv'
  <1> SUFFICES ASSUME Inv, QueueInv, SystemInv, [SystemNext]_systemVars PROVE SystemInv'
    OBVIOUS
  <1>1. Connected /\ Handlers /\ Faultless /\ Taken /\ robbed \in [Channel -> BOOLEAN]
    BY DEF SystemInv
  <1>2. [Next]_vars
    BY StepIsCoordinators
  <1>3. Inv'
    BY <1>2, StepInv
  <1>4. Connected'
    BY <1>1, <1>2, ConnectedStep
  <1>5. Handlers'
    BY <1>1, HandlersStep
  <1>6. Faultless' /\ robbed' \in [Channel -> BOOLEAN]
    BY <1>1, FaultlessStep
  <1>7. Taken'
    BY <1>1, <1>3, <1>5, <1>6, TakenStep
  <1> QED
    BY <1>4, <1>5, <1>6, <1>7 DEF SystemInv

LEMMA AlwaysSystemInv == SystemSpec => []SystemInv
  BY InitSystemInv, StepSystemInv, TurnsInv, QueuesInv, PTL DEF SystemSpec

\* What the coordinator takes for granted: a channel is in a turn exactly while its
\* worker waits in handleMessage for it, so it is never asked for a second.
THEOREM TurnsBelongToHandlers == SystemSpec => []Handlers
  <1>1. SystemInv => Handlers
    BY DEF SystemInv
  <1> QED
    BY <1>1, AlwaysSystemInv, PTL

\* A turn that never reached the server: the deadline, the shutdown, a fault, or
\* another channel's failed steer at the wrong moment, and nothing else.
THEOREM TurnsReachTheServer == SystemSpec => []TurnReachesServer
  <1>1. SystemInv /\ Inv => TurnReachesServer
    BY CallersAre DEF SystemInv, Faultless, TurnReachesServer, Inv, TypeOK, ClientTypeOK
  <1> QED
    BY <1>1, AlwaysSystemInv, TurnsInv, PTL

\* Six attempts at most for a message, and still the server takes it up once, or
\* twice after a fault; and no message behind which a newer one was merged.
THEOREM PromptsAreTakenOnce == SystemSpec => []OnePromptPerMessage
  <1>1. SystemInv => OnePromptPerMessage
    BY DEF SystemInv, Taken
  <1> QED
    BY <1>1, AlwaysSystemInv, PTL

-----------------------------------------------------------------------------
(* The service: every step of the program is one of PromptService, or none. *)

\* The cases of StoryOf, which exclude each other.
Tells(m) == /\ StoryOf(m) \in {"unseen", "waiting", "merged", "attended", "over", "lost"}
            /\ StoryOf(m) = "unseen" <=> fate[m] = "outside"
            /\ StoryOf(m) = "waiting" <=> fate[m] \in {"queued", "batched"}
            /\ StoryOf(m) = "merged" <=> fate[m] = "merged"
            /\ StoryOf(m) = "attended" <=> fate[m] = "handled" /\ Attended(m)
            /\ StoryOf(m) = "over" <=> fate[m] = "handled" /\ ~Attended(m)

LEMMA StoriesTell == ASSUME NEW m \in Msg PROVE Tells(m)
  BY DEF Tells, StoryOf

\* Fate and attention of m stay, or the fate changes where nobody is told.
LEMMA StoryStays ==
    ASSUME NEW m \in Msg,
           \/ fate'[m] = fate[m]
           \/ {fate[m], fate'[m]} \subseteq {"queued", "batched"},
           fate[m] = "handled" => (Attended(m)' <=> Attended(m))
    PROVE  StoryOf(m)' = StoryOf(m)
  BY DEF StoryOf

\* A step that PromptService does not see.
LEMMA InvisibleStep ==
    ASSUME \A m \in Msg : StoryOf(m)' = StoryOf(m),
           UNCHANGED taken, faults' > 0 <=> faults > 0, UNCHANGED closed
    PROVE  UNCHANGED Service!serviceVars
  BY DEF Service!serviceVars

LEMMA ServiceStarts == SystemInit => Service!Init
  <1> SUFFICES ASSUME SystemInit PROVE Service!Init
    OBVIOUS
  <1>1. \A m \in Msg : StoryOf(m) = "unseen"
    BY DEF SystemInit, D!Init, StoryOf
  <1>2. taken = [m \in Msg |-> 0] /\ ~(faults > 0) /\ closed = FALSE
    BY DEF SystemInit, Init, ClientInit
  <1> QED
    BY <1>1, <1>2 DEF Service!Init

-----------------------------------------------------------------------------
(* ... in Enqueue *)

LEMMA CallsLeaveAttention ==
    ASSUME QueueInv, NEW m \in Msg, EventArrives(m)
    PROVE  \A n \in Msg : Attended(n)' <=> Attended(n)
  <1>0. worker \in [Channel -> DP!Stages] /\ \A n \in Msg : ChannelOf[n] \in Channel
    BY SystemAssumption DEF QueueInv, DP!TypeOK
  <1>1. latest' = latest
    BY DEF EventArrives, vars, D!Enqueue, D!GetOrCreateWorker, D!RefuseAtShutdown,
         D!PassShutdownCheck, D!Send, D!FindFull, D!DrainOldest, D!FindNothingToDrain, D!Resend,
         D!GiveUp, D!workerVars
  <1>2. worker' = worker \/ worker' = [worker EXCEPT ![ChannelOf[m]] = IF @ = "none" THEN "select" ELSE @]
    BY DEF EventArrives, D!Enqueue, D!GetOrCreateWorker, D!RefuseAtShutdown,
         D!PassShutdownCheck, D!Send, D!FindFull, D!DrainOldest, D!FindNothingToDrain, D!Resend,
         D!GiveUp, D!workerVars
  <1>3. \A c \in Channel : worker'[c] = "handling" <=> worker[c] = "handling"
    BY <1>0, <1>2
  <1> QED
    BY <1>0, <1>1, <1>3 DEF Attended

LEMMA CallsAreServed ==
    ASSUME QueueInv, NEW m \in Msg, EventArrives(m)
    PROVE  Service!Next \/ UNCHANGED Service!serviceVars
  <1>0. /\ UNCHANGED <<taken, faults, closed>>
        /\ fate \in [Msg -> DP!Fates]
        /\ place[m] # "returned" => fate[m] = "outside"
    BY DEF EventArrives, vars, QueueInv, DP!TypeOK, DP!OnePlace, DP!Fates
  <1>1. \A n \in Msg : Attended(n)' <=> Attended(n)
    BY CallsLeaveAttention
  <1>2. ASSUME NEW n \in Msg, fate'[n] = fate[n] PROVE StoryOf(n)' = StoryOf(n)
    BY <1>1, <1>2, StoryStays
  <1>3. CASE \/ D!GetOrCreateWorker(m) \/ D!PassShutdownCheck(m)
             \/ D!FindFull(m) \/ D!FindNothingToDrain(m)
    <2>1. fate' = fate
      BY <1>3 DEF D!GetOrCreateWorker, D!PassShutdownCheck, D!FindFull, D!FindNothingToDrain, D!historyVars
    <2> QED
      BY <1>0, <1>2, <2>1, InvisibleStep
  <1>4. CASE D!RefuseAtShutdown(m) \/ D!GiveUp(m)
    <2>1. /\ fate[m] = "outside" /\ fate'[m] \in {"refused", "rejected"}
          /\ \A n \in Msg \ {m} : fate'[n] = fate[n]
      BY <1>0, <1>4 DEF D!RefuseAtShutdown, D!GiveUp
    <2>2. StoryOf(m) = "unseen" /\ StoryOf(m)' = "lost"
      BY <2>1 DEF StoryOf
    <2>3. \A n \in Msg : StoryOf(n)' = IF n \in {m} THEN "lost" ELSE StoryOf(n)
      BY <1>2, <2>1, <2>2
    <2>4. Service!Lose({m})
      BY <1>0, <2>2, <2>3 DEF Service!Lose, Service!Becomes
    <2> QED
      BY <2>4 DEF Service!Next
  <1>5. CASE D!Send(m) \/ D!Resend(m)
    <2>1. /\ fate[m] = "outside" /\ fate'[m] = "queued"
          /\ \A n \in Msg \ {m} : fate'[n] = fate[n]
      BY <1>0, <1>5 DEF D!Send, D!Resend, D!Put
    <2>2. StoryOf(m) = "unseen" /\ StoryOf(m)' = "waiting"
      BY <2>1 DEF StoryOf
    <2>3. \A n \in Msg : StoryOf(n)' = IF n \in {m} THEN "waiting" ELSE StoryOf(n)
      BY <1>2, <2>1, <2>2
    <2>4. Service!Accept(m)
      BY <1>0, <2>2, <2>3 DEF Service!Accept, Service!Becomes
    <2> QED
      BY <2>4 DEF Service!Next
  <1>6. CASE D!DrainOldest(m)
    <2>1. queue[ChannelOf[m]] \in Seq(Msg) /\ queue[ChannelOf[m]] # <<>>
      BY <1>6, SystemAssumption DEF D!DrainOldest, QueueInv, DP!TypeOK
    <2>2. PICK h \in Msg : /\ h = Head(queue[ChannelOf[m]]) /\ h = queue[ChannelOf[m]][1]
                           /\ 1 \in 1..Len(queue[ChannelOf[m]])
      BY <2>1, DP!TailFacts
    <2>3. fate[h] = "queued"
      BY <2>2, SystemAssumption DEF QueueInv, DP!OnePlace, DP!Holds
    <2>4. fate'[h] = "evicted" /\ \A n \in Msg \ {h} : fate'[n] = fate[n]
      BY <1>0, <1>6, <2>2 DEF D!DrainOldest
    <2>5. StoryOf(h) = "waiting" /\ StoryOf(h)' = "lost"
      BY <2>3, <2>4 DEF StoryOf
    <2>6. \A n \in Msg : StoryOf(n)' = IF n \in {h} THEN "lost" ELSE StoryOf(n)
      BY <1>2, <2>4, <2>5
    <2>7. Service!Lose({h})
      BY <1>0, <2>5, <2>6 DEF Service!Lose, Service!Becomes
    <2> QED
      BY <2>7 DEF Service!Next
  <1> QED
    BY <1>3, <1>4, <1>5, <1>6 DEF EventArrives, D!Enqueue

-----------------------------------------------------------------------------
(* ... in the worker and handleMessage *)

LEMMA WorkersAreServed ==
    ASSUME QueueInv, NEW c \in Channel, WorkerTakes(c) \/ WorkerStops(c)
    PROVE  Service!Next \/ UNCHANGED Service!serviceVars
  <1>0. /\ UNCHANGED <<taken, faults, closed>>
        /\ fate \in [Msg -> DP!Fates]
        /\ latest \in [Channel -> Msg \cup {NoMsg}]
        /\ worker \in [Channel -> DP!Stages] /\ \A n \in Msg : ChannelOf[n] \in Channel
    BY SystemAssumption DEF WorkerTakes, WorkerStops, vars, QueueInv, DP!TypeOK
  <1>1. /\ worker[c] # "handling" /\ worker'[c] # "handling"
        /\ \A d \in Channel \ {c} : worker'[d] = worker[d] /\ latest'[d] = latest[d]
    BY <1>0 DEF WorkerTakes, WorkerStops, D!TakeFirst, D!TakeNext, D!ExitIdle, D!ExitCollecting, D!Receive
  <1>2. \A n \in Msg : Attended(n)' <=> Attended(n)
    BY <1>0, <1>1 DEF Attended
  <1>3. CASE WorkerTakes(c)
    <2>1. queue[c] \in Seq(Msg) /\ queue[c] # <<>>
      BY <1>3 DEF WorkerTakes, D!TakeFirst, D!TakeNext, D!Receive, QueueInv, DP!TypeOK
    <2>2. PICK h \in Msg : /\ h = Head(queue[c]) /\ h = queue[c][1]
                           /\ 1 \in 1..Len(queue[c])
      BY <2>1, DP!TailFacts
    <2>3. fate[h] = "queued"
      BY <2>2 DEF QueueInv, DP!OnePlace, DP!Holds
    <2>4. fate'[h] = "batched" /\ \A n \in Msg \ {h} : fate'[n] = fate[n]
      BY <1>0, <1>3, <2>2 DEF WorkerTakes, D!TakeFirst, D!TakeNext, D!Receive
    <2>5. \A n \in Msg : StoryOf(n)' = StoryOf(n)
      BY <1>2, <2>3, <2>4, StoryStays
    <2> QED
      BY <1>0, <2>5, InvisibleStep
  <1>4. CASE WorkerStops(c) /\ D!ExitIdle(c)
    <2>1. fate' = fate
      BY <1>4 DEF D!ExitIdle, D!historyVars
    <2>2. \A n \in Msg : StoryOf(n)' = StoryOf(n)
      BY <1>2, <2>1, StoryStays
    <2> QED
      BY <1>0, <2>2, InvisibleStep
  <1>5. CASE WorkerStops(c) /\ D!ExitCollecting(c)
    <2>1. PICK left \in SUBSET Msg : left = {n \in Msg : fate[n] = "batched" /\ ChannelOf[n] = c}
      OBVIOUS
    <2>2. \A n \in Msg : fate'[n] = IF n \in left THEN "abandoned" ELSE fate[n]
      BY <1>5, <2>1 DEF D!ExitCollecting
    <2>3. \A n \in left : StoryOf(n) = "waiting" /\ StoryOf(n)' = "lost"
      BY <2>1, <2>2 DEF StoryOf
    <2>4. \A n \in Msg : StoryOf(n)' = IF n \in left THEN "lost" ELSE StoryOf(n)
      BY <1>2, <2>2, <2>3, StoryStays
    <2>5. Service!Lose(left)
      BY <1>0, <2>3, <2>4 DEF Service!Lose, Service!Becomes
    <2> QED
      BY <2>5 DEF Service!Next
  <1> QED
    BY <1>3, <1>4, <1>5 DEF WorkerStops

\* The handler is called with the newest message of the batch: the channel's last
\* one was done with, for its worker was not in the handler.
LEMMA HandlingIsAttending ==
    ASSUME QueueInv, Handlers, NEW c \in Channel, Handle(c)
    PROVE  Service!Next
  <1>0. /\ UNCHANGED <<taken, faults, closed>>
        /\ fate \in [Msg -> DP!Fates]
        /\ worker \in [Channel -> DP!Stages] /\ \A n \in Msg : ChannelOf[n] \in Channel
    BY SystemAssumption DEF Handle, vars, QueueInv, DP!TypeOK
  <1>1. /\ worker[c] = "collect" /\ worker' = [worker EXCEPT ![c] = "handling"]
        /\ latest' = latest
        /\ fate' = [m \in Msg |->
                      IF fate[m] # "batched" \/ ChannelOf[m] # c THEN fate[m]
                      ELSE IF m = latest[c] THEN "handled" ELSE "merged"]
    BY DEF Handle, D!CallHandler
  <1>2. PICK l \in Msg : l = latest[c] /\ ChannelOf[l] = c /\ fate[l] = "batched"
    BY <1>1, LatestIsBatched
  <1>3. PICK merged \in SUBSET Msg :
            merged = {n \in Msg : fate[n] = "batched" /\ ChannelOf[n] = c} \ {l}
    OBVIOUS
  <1>4. /\ fate'[l] = "handled"
        /\ \A n \in merged : fate'[n] = "merged"
        /\ \A n \in Msg : n # l /\ n \notin merged => fate'[n] = fate[n]
    BY <1>1, <1>2, <1>3
  <1>5. /\ \A n \in Msg : ChannelOf[n] = c => ~Attended(n)
        /\ \A n \in Msg : ChannelOf[n] # c => (Attended(n)' <=> Attended(n))
        /\ \A n \in Msg : ChannelOf[n] = c => (Attended(n)' <=> n = l)
    BY <1>0, <1>1, <1>2 DEF Attended
  <1>6. StoryOf(l) = "waiting" /\ StoryOf(l)' = "attended"
    BY <1>2, <1>4, <1>5 DEF StoryOf
  <1>7. \A n \in merged : StoryOf(n) = "waiting" /\ StoryOf(n)' = "merged"
    BY <1>3, <1>4 DEF StoryOf
  <1>8. \A n \in Msg : n # l /\ n \notin merged => StoryOf(n)' = StoryOf(n)
    <2> SUFFICES ASSUME NEW n \in Msg, n # l, n \notin merged PROVE StoryOf(n)' = StoryOf(n)
      OBVIOUS
    <2>1. Attended(n)' <=> Attended(n)
      BY <1>5
    <2> QED
      BY <1>4, <2>1, StoryStays
  <1>9. \A n \in Msg : ChannelOf[n] = c => StoryOf(n) # "attended"
    BY <1>5, StoriesTell DEF Tells
  <1>10. Service!Attend(l, merged)
    BY <1>0, <1>2, <1>3, <1>6, <1>7, <1>8, <1>9 DEF Service!Attend
  <1> QED
    BY <1>10 DEF Service!Next

LEMMA ReturningIsFinishing ==
    ASSUME QueueInv, Handlers, NEW c \in Channel, HandlerReturns(c)
    PROVE  Service!Next
  <1>0. /\ UNCHANGED <<taken, faults, closed, fate, latest>>
        /\ worker \in [Channel -> DP!Stages] /\ \A n \in Msg : ChannelOf[n] \in Channel
    BY SystemAssumption DEF HandlerReturns, D!HandlerReturns, D!historyVars, vars, QueueInv, DP!TypeOK
  <1>1. /\ worker[c] = "handling" /\ worker' = [worker EXCEPT ![c] = "select"]
        /\ handler[c] # "none"
    BY DEF HandlerReturns, D!HandlerReturns
  <1>2. PICK l \in Msg : l = latest[c] /\ ChannelOf[l] = c /\ fate[l] = "handled"
    BY <1>1 DEF Handlers
  <1>3. /\ Attended(l) /\ ~Attended(l)'
        /\ \A n \in Msg \ {l} : Attended(n)' <=> Attended(n)
    BY <1>0, <1>1, <1>2 DEF Attended
  <1>4. StoryOf(l) = "attended" /\ StoryOf(l)' = "over"
    BY <1>0, <1>2, <1>3 DEF StoryOf
  <1>5. \A n \in Msg : StoryOf(n)' = IF n \in {l} THEN "over" ELSE StoryOf(n)
    BY <1>0, <1>3, <1>4, StoryStays
  <1>6. Service!Finish(l)
    BY <1>0, <1>4, <1>5 DEF Service!Finish, Service!Becomes
  <1> QED
    BY <1>6 DEF Service!Next

-----------------------------------------------------------------------------
(* ... in the client, and the rest *)

\* What leaves the dispatcher alone changes no story.
LEMMA StoriesRest ==
    ASSUME UNCHANGED dispatcherVars
    PROVE  \A m \in Msg : StoryOf(m)' = StoryOf(m)
  BY DEF dispatcherVars, StoryOf, Attended

LEMMA TurnsAreInvisible ==
    ASSUME NEW c \in Channel, CannotPrepare(c) \/ AskForTurn(c) \/ GoOn(c) \/ TurnReturns(c)
    PROVE  UNCHANGED Service!serviceVars
  <1>1. UNCHANGED <<dispatcherVars, taken, faults, closed>>
    BY DEF CannotPrepare, AskForTurn, GoOn, TurnReturns, vars, Calling, RunMessageTurn,
           SteerFailed, StartFailed, NewThreadMade, TurnDone, TurnFailed, TurnOver
  <1> QED
    BY <1>1, StoriesRest, InvisibleStep

LEMMA FaultIsFault ==
    ASSUME UNCHANGED <<dispatcherVars, taken, closed>>, faults \in Nat, faults' = faults + 1
    PROVE  Service!Next
  <1>1. \A m \in Msg : StoryOf(m)' = StoryOf(m)
    BY StoriesRest
  <1>2. faults' > 0
    OBVIOUS
  <1>3. (faults > 0)' = TRUE
    BY <1>2
  <1>4. Service!Fault
    BY <1>1, <1>3 DEF Service!Fault
  <1> QED
    BY <1>4 DEF Service!Next

\* The step of the client that has a prompt taken up.
LEMMA AcceptingIsTakingUp ==
    ASSUME Inv, Handlers, Taken, Taken', NEW k \in Channel, Serve(k), TurnAccepted(k)
    PROVE  Service!Next
  <1>0. /\ taken \in [Msg -> Nat] /\ ran \in [Caller -> Nat] /\ Channel \subseteq Caller
        /\ UNCHANGED <<dispatcherVars, faults, closed>> /\ faults \in Nat
    BY CallersAre DEF Taken, Inv, TypeOK, ClientTypeOK, Serve, TurnAccepted
  <1>1. ran'[k] = ran[k] + 1 /\ step[k] = "turn"
    BY <1>0 DEF TurnAccepted
  <1>2. handler[k] = "turn"
    BY <1>1 DEF Handlers, Inv, Calls
  <1>3. PICK l \in Msg : /\ l = latest[k] /\ ChannelOf[l] = k /\ fate[l] = "handled"
                         /\ l \in Allowed
    BY <1>2 DEF Handlers
  <1>4. /\ taken'[l] = taken[l] + 1
        /\ \A m \in Msg \ {l} : taken'[m] = taken[m]
        /\ taken' \in [Msg -> Nat]
    BY <1>0, <1>1, <1>3 DEF Serve
  <1>5. taken' = [taken EXCEPT ![l] = @ + 1]
    BY <1>0, <1>4
  <1>6. taken'[l] <= IF faults = 0 THEN 1 ELSE 2
    BY <1>0, <1>3 DEF Taken, OnePromptPerMessage, dispatcherVars
  <1>7. taken[l] < IF faults > 0 THEN 2 ELSE 1
    BY <1>0, <1>4, <1>6
  <1>8. ~closed
    BY <1>0, <1>1 DEF Inv, Closing
  <1>9. StoryOf(l) = "attended"
    BY <1>2, <1>3 DEF Handlers, StoryOf, Attended
  <1>10. \A m \in Msg : StoryOf(m)' = StoryOf(m)
    BY <1>0, StoriesRest
  <1>11. Service!TakeUp(l)
    BY <1>0, <1>3, <1>5, <1>7, <1>8, <1>9, <1>10 DEF Service!TakeUp
  <1> QED
    BY <1>11 DEF Service!Next

LEMMA OperationsAreServed ==
    ASSUME Inv, Handlers, Taken, Taken', NEW k \in Caller, Serve(k)
    PROVE  Service!Next \/ UNCHANGED Service!serviceVars
  <1>0. /\ UNCHANGED dispatcherVars /\ faults \in Nat
        /\ taken \in [Msg -> Nat]
        /\ taken' = [m \in Msg |-> IF k \in Channel /\ ran'[k] # ran[k] /\ m = latest[k]
                                   THEN taken[m] + 1 ELSE taken[m]]
    BY DEF Serve, Inv, TypeOK, ClientTypeOK, Taken
  <1>1. \A m \in Msg : StoryOf(m)' = StoryOf(m)
    BY <1>0, StoriesRest
  <1>2. ASSUME k \notin Channel \/ ran' = ran PROVE taken' = taken
    BY <1>0, <1>2
  <1>3. CASE TurnAccepted(k)
    <2>1. CASE k \in Channel
      BY <1>3, <2>1, AcceptingIsTakingUp
    <2>2. CASE k \notin Channel
      BY <1>1, <1>2, <1>3, <2>2, InvisibleStep DEF TurnAccepted
    <2> QED
      BY <2>1, <2>2
  <1>4. CASE CannotStart(k) \/ RequestFaults(k)
    <2>1. ran' = ran /\ closed' = closed /\ faults' = faults + 1
      BY <1>4 DEF CannotStart, RequestFaults, Fail
    <2> QED
      BY <1>0, <1>2, <2>1, FaultIsFault
  <1>5. CASE Close(k)
    <2>1. closed' = TRUE /\ ran' = ran /\ faults' = faults
      BY <1>5 DEF Close
    <2>2. Service!End
      BY <1>1, <1>2, <2>1 DEF Service!End
    <2> QED
      BY <2>2 DEF Service!Next
  <1>6. CASE \/ Acquire(k) \/ FindExpired(k) \/ EnsureSession(k) \/ ThreadStarted(k)
             \/ TurnRefused(k) \/ FindDead(k) \/ TurnCompleted(k)
    <2>1. UNCHANGED <<ran, closed, faults>>
      BY <1>6 DEF Acquire, FindExpired, EnsureSession, ThreadStarted, TurnRefused, FindDead,
           TurnCompleted, Fail
    <2> QED
      BY <1>1, <1>2, <2>1, InvisibleStep
  <1> QED
    BY <1>3, <1>4, <1>5, <1>6 DEF Serve, Operation

LEMMA StepIsServed ==
    ASSUME Inv, QueueInv, SystemInv, SystemInv', [SystemNext]_systemVars
    PROVE  [Service!Next]_(Service!serviceVars)
  <1>0. Handlers /\ Taken /\ Taken' /\ faults \in Nat
    BY DEF SystemInv, Inv, TypeOK, ClientTypeOK
  <1>1. ASSUME NEW m \in Msg, EventArrives(m)
        PROVE  Service!Next \/ UNCHANGED Service!serviceVars
    BY <1>1, CallsAreServed
  <1>2. ASSUME NEW c \in Channel, HandleMessage(c)
        PROVE  Service!Next \/ UNCHANGED Service!serviceVars
    <2>1. CASE Handle(c)
      BY <1>0, <2>1, HandlingIsAttending
    <2>2. CASE HandlerReturns(c)
      BY <1>0, <2>2, ReturningIsFinishing
    <2>3. CASE CannotPrepare(c) \/ AskForTurn(c) \/ GoOn(c) \/ TurnReturns(c)
      BY <2>3, TurnsAreInvisible
    <2> QED
      BY <1>2, <2>1, <2>2, <2>3 DEF HandleMessage
  <1>3. ASSUME NEW c \in Channel, WorkerTakes(c) \/ WorkerStops(c)
        PROVE  Service!Next \/ UNCHANGED Service!serviceVars
    BY <1>3, WorkersAreServed
  <1>4. CASE Tick \/ TickReturns \/ Stop
    <2>1. /\ UNCHANGED <<taken, faults, closed>>
          /\ UNCHANGED <<fate, worker, latest>>
      BY <1>4 DEF Tick, TickReturns, Stop, HeartbeatTick, HeartbeatDone, Shutdown, Calling,
           dispatcherVars, D!Cancel, D!workerVars, D!historyVars
    <2>2. \A m \in Msg : StoryOf(m)' = StoryOf(m)
      BY <2>1 DEF StoryOf, Attended
    <2> QED
      BY <2>1, <2>2, InvisibleStep
  <1>5. CASE ServerDies
    <2>1. UNCHANGED <<dispatcherVars, taken, closed>> /\ faults' = faults + 1
      BY <1>5 DEF ServerDies, Crash
    <2> QED
      BY <1>0, <2>1, FaultIsFault
  <1>6. ASSUME NEW k \in Caller, Serve(k)
        PROVE  Service!Next \/ UNCHANGED Service!serviceVars
    BY <1>0, <1>6, OperationsAreServed
  <1>7. CASE AllOver \/ UNCHANGED systemVars
    <2>1. UNCHANGED <<dispatcherVars, taken, faults, closed>>
      BY <1>7 DEF AllOver, systemVars, vars
    <2> QED
      BY <2>1, StoriesRest, InvisibleStep
  <1> QED
    BY <1>1, <1>2, <1>3, <1>4, <1>5, <1>6, <1>7 DEF SystemNext

\* The whole program, for every number of channels, messages, turns and faults, is
\* the service: a channel's messages are attended to one at a time, and the server
\* takes up nothing but the prompt about one that is.
THEOREM TheProgramKeepsItsPromises == SystemSpec => KeepsItsPromises
  BY ServiceStarts, StepIsServed, TurnsInv, QueuesInv, AlwaysSystemInv, PTL
     DEF SystemSpec, KeepsItsPromises, Service!Spec
=============================================================================
