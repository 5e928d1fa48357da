---------------------------- MODULE StreamProofs ----------------------------
(***************************************************************************)
(* Proofs about TurnStream, for every set of channels and every bound on   *)
(* turns, faults, notifications and messages about what is over.           *)
(***************************************************************************)
EXTENDS TurnStream, CoordinatorProofs, FiniteSetTheorems

-----------------------------------------------------------------------------
(* The stream's steps are the coordinator's, or not seen by it. *)

LEMMA StreamStepIsStep == [StreamNext]_allVars => [Next]_vars
  <1> SUFFICES ASSUME [StreamNext]_allVars PROVE [Next]_vars
    OBVIOUS
  <1>1. CASE UNCHANGED allVars
    BY <1>1 DEF allVars
  <1>2. CASE CallerGoesOn
    BY <1>2 DEF CallerGoesOn, Next
  <1>3. ASSUME NEW k \in Caller, CallerIsDone(k) PROVE Next
    BY <1>3 DEF CallerIsDone, Next
  <1>4. ASSUME NEW k \in Caller, Acquire(k) \/ ClientWorks(k) \/ ClientReads(k) \/ CloseStream(k)
        PROVE  Operation(k) \/ UNCHANGED vars
    BY <1>4 DEF ClientWorks, ClientReads, CloseStream, SendFirst, ReadAsk, ReadNotification,
         SkipResponse, ReadThread, ReadTurn, ReadRefusal, ReadCompleted, LoopEnds, EndTurn,
         ReadFaulty, ReadEOF, Operation
  <1>5. ServerCrash => Crash
    BY DEF ServerCrash
  <1>6. ServerGoesOn \/ SendExtra => UNCHANGED vars
    BY DEF ServerGoesOn, SendExtra, StartThread, TakeUp, Refuse, TakeAnswer, Work, Respond,
         Notify, Ask, Complete
  <1>7. CASE /\ \/ \E k \in Caller : \/ (Acquire(k) /\ UNCHANGED streamVars)
                                     \/ ClientWorks(k)
                                     \/ ClientReads(k)
                                     \/ CloseStream(k)
                \/ ServerCrash
                \/ ServerGoesOn
                \/ SendExtra
             /\ UNCHANGED <<sessions, at, turns>>
    BY <1>4, <1>5, <1>6, <1>7 DEF Next
  <1> QED
    BY <1>1, <1>2, <1>3, <1>7 DEF StreamNext

\* Message by message the client and its callers do what Coordinator says of whole
\* operations; so everything proved of Coordinator holds here.
THEOREM StreamIsCoordinator == StreamSpec => Spec
  <1>1. StreamInit => Init
    BY DEF StreamInit
  <1> QED
    BY <1>1, StreamStepIsStep, PTL DEF StreamSpec, Spec

LEMMA StreamInv == StreamSpec => []Inv
  BY StreamIsCoordinator, AlwaysInv, PTL

-----------------------------------------------------------------------------
(* Queues. *)

LEMMA AppendFacts ==
    ASSUME NEW S, NEW s \in Seq(S), NEW e \in S
    PROVE  /\ Append(s, e) \in Seq(S)
           /\ DOMAIN Append(s, e) = DOMAIN s \cup {Len(s) + 1}
           /\ Len(s) + 1 \notin DOMAIN s
           /\ \A i \in DOMAIN s : Append(s, e)[i] = s[i] /\ i < Len(s) + 1
           /\ Append(s, e)[Len(s) + 1] = e
  OBVIOUS

LEMMA TailFacts ==
    ASSUME NEW S, NEW s \in Seq(S), s # <<>>
    PROVE  /\ Tail(s) \in Seq(S)
           /\ 1 \in DOMAIN s /\ Head(s) = s[1] /\ Head(s) \in S
           /\ \A i \in DOMAIN Tail(s) : i \in Nat \ {0} /\ i + 1 \in DOMAIN s /\ Tail(s)[i] = s[i + 1]
           /\ \A i \in DOMAIN s : i = 1 \/ (i - 1 \in DOMAIN Tail(s) /\ Tail(s)[i - 1] = s[i])
  OBVIOUS

LEMMA EmptyFacts ==
    /\ DOMAIN << >> = {}
    /\ \A S : << >> \in Seq(S)
  OBVIOUS

LEMMA SeqWiden ==
    ASSUME NEW S, NEW T, S \subseteq T, NEW s \in Seq(S)
    PROVE  s \in Seq(T)
  OBVIOUS

\* A queue without any element is the empty queue.
LEMMA NoElement ==
    ASSUME NEW S, NEW s \in Seq(S), DOMAIN s = {}
    PROVE  s = << >>
  OBVIOUS

-----------------------------------------------------------------------------
(* The inductive invariant, in parts. *)

Waits(k) == step[k] \in {"thread", "turn", "stream"}

\* The ids of the session's requests; and without a process nothing is under way.
Silent ==
    /\ session # 0 => nextID > initRequestID
    /\ \A k \in Caller : Waits(k) => session # 0
    /\ session \notin procs => /\ toServer = << >> /\ toClient = << >>
                               /\ tasks = {} /\ ~mixed

\* A request that the server has not taken is the last one, its caller waits for
\* it, and nothing was said about it yet.
Requests ==
    \A i \in DOMAIN toServer :
        toServer[i].kind # "answer" =>
            /\ toServer[i].id = nextID - 1
            /\ step[toServer[i].who] = toServer[i].kind
            /\ \A j \in DOMAIN toServer : toServer[j].kind # "answer" => i = j
            /\ \A t \in tasks : t.id # nextID - 1
            /\ \A j \in DOMAIN toClient : toClient[j].id # nextID - 1

TasksApart == \A t, u \in tasks : t.id = u.id => t = u

\* The server has not taken a turn/start or turn/steer yet.
Pending == \E i \in DOMAIN toServer : toServer[i].kind = "turn"

\* The server works on k's turn, or has: it made k's thread, and took the request.
Underway(k) == /\ step[k] \in {"turn", "stream"}
               /\ op[k].thread.home = session
               /\ ~Pending

\* Budget, counted where the server executes.
ChannelExec(c) ==
    /\ at[c] = "idle" => executed[c] = 0
    /\ at[c] = "newThread" => executed[c] <= 1
    /\ at[c] \in TurnPlaces => /\ executed[c] <= Before(at[c]) + 1
                               /\ \/ Underway(c)
                                  \/ step[c] = "ok"
                                  \/ Dead(op[c].thread)
                                  \/ executed[c] <= Before(at[c])

HeartbeatExec ==
    /\ step[Heartbeat] \in {"idle", "lock"} => executed[Heartbeat] = 0
    /\ step[Heartbeat] \in {"try", "thread"} => executed[Heartbeat] <= attempt[Heartbeat] - 1
    /\ step[Heartbeat] = "turn" /\ Pending => executed[Heartbeat] <= attempt[Heartbeat] - 1
    /\ step[Heartbeat] = "turn" => executed[Heartbeat] <= attempt[Heartbeat]
    /\ step[Heartbeat] = "stream" => executed[Heartbeat] <= attempt[Heartbeat]
    /\ executed[Heartbeat] <= 2

Exec == /\ \A c \in Channel : ChannelExec(c)
        /\ HeartbeatExec
        /\ executed[Main] = 0

\* Its turn goes on, or went well: the server has taken the request, and not
\* refused it.
Undisturbed(k) ==
    \/ /\ step[k] \in {"turn", "stream"}
       /\ ~Pending
       /\ \A i \in DOMAIN toClient : toClient[i].kind = "refusal" => toClient[i].id # nextID - 1
    \/ step[k] = "ok" /\ op[k].kind # "startThread"

\* As long as the server is faultless, its process lives on, and a prompt is
\* executed once.
Faultless == faults = 0 => /\ session \in procs \cup {0}
                           /\ \A k \in Caller : /\ executed[k] <= 1
                                                /\ executed[k] = 1 => Undisturbed(k)

\* Whose the messages are, while the server has sent nothing extra.  Either nobody
\* waits and nothing is under way, ...
Quiet == toServer = << >> /\ toClient = << >> /\ tasks = {}

\* ... or a thread/start is, or its response, ...
OwnThread ==
    /\ tasks = {}
    /\ \/ toServer = << >> /\ toClient = <<Message("response", nextID - 1, NoThread)>>
       \/ toClient = << >> /\ \E k \in Caller : toServer = <<Request("thread", nextID - 1, k)>>

\* ... or a request for a turn, ...
OwnRequest(k) == /\ tasks = {} /\ toClient = << >> /\ agg = NewAggregator
                 /\ toServer = <<Request("turn", nextID - 1, k)>>

\* ... or the turn: one response, before which the task is not answered; one
\* turn/completed, after which there is the response at most; and one question
\* or answer at a time.
Asking == \E t \in tasks : t.asking /\ ~t.done

OwnNames(k) == {op[k].thread, NoThread}

Answer(m) == m.kind \in {"response", "refusal"}

OwnMessages(k) ==
    /\ \A i \in DOMAIN toClient : toClient[i].id = nextID - 1 /\ toClient[i].names \in OwnNames(k)
    /\ \A t \in tasks : t.id = nextID - 1 /\ t.thread = op[k].thread /\ ~(t.answered /\ t.done)
    /\ agg.turn \in OwnNames(k)
    /\ agg.from \subseteq {nextID - 1}
    /\ agg.completed => agg.from = {nextID - 1}

OneResponse(k) ==
    /\ \A i, j \in DOMAIN toClient : Answer(toClient[i]) /\ Answer(toClient[j]) => i = j
    /\ (\E t \in tasks : ~t.answered) \/ step[k] = "stream"
          => \A i \in DOMAIN toClient : ~Answer(toClient[i])
    /\ step[k] = "stream" => \A t \in tasks : t.answered

OneCompletion ==
    /\ \A i \in DOMAIN toClient : toClient[i].kind = "done" =>
          /\ \A j \in DOMAIN toClient : j > i => Answer(toClient[j])
          /\ \A t \in tasks : t.done
          /\ ~agg.completed
    /\ agg.completed => /\ \A i \in DOMAIN toClient : Answer(toClient[i])
                        /\ \A t \in tasks : t.done

OneQuestion ==
    /\ \A i, j \in DOMAIN toClient :
          toClient[i].kind = "ask" => Asking /\ (toClient[j].kind = "ask" => i = j)
    /\ \A i \in DOMAIN toServer :
          /\ toServer[i].kind = "answer"
          /\ i = 1 /\ Len(toServer) = 1
          /\ Asking
          /\ \A j \in DOMAIN toClient : toClient[j].kind # "ask"

OwnTurn(k) == OwnMessages(k) /\ OneResponse(k) /\ OneCompletion /\ OneQuestion

Own ==
    session \in procs /\ ~mixed =>
        \/ Quiet /\ \A k \in Caller : ~Waits(k)
        \/ \E k \in Caller : (step[k] = "thread" /\ OwnThread)
                            \/ (step[k] = "turn" /\ OwnRequest(k))
                            \/ (step[k] \in {"turn", "stream"} /\ OwnTurn(k))

-----------------------------------------------------------------------------
(* The kinds of steps. *)

\* One that the pipes and the server do not see, nor anyone who waits.
Still == /\ UNCHANGED <<toServer, toClient, nextID, agg, tasks, said, extras, mixed, session, procs>>
         /\ \A j \in Caller : Waits(j) \/ Waits(j)' => op'[j] = op[j] /\ step'[j] = step[j]

\* One that loses what was under way, with the process.
Gone == /\ PipesGone
        /\ UNCHANGED <<nextID, agg>>
        /\ session' \in {session, 0} /\ session' \notin procs'
        /\ \A j \in Caller : Waits(j)' => /\ session' = session
                                          /\ op'[j] = op[j] /\ step'[j] = step[j]

StillStep == \/ CallerGoesOn /\ UNCHANGED streamVars
             \/ \E k \in Caller : CallerIsDone(k)
             \/ \E k \in Caller : /\ Acquire(k) \/ FindExpired(k) \/ CannotStart(k)
                                  /\ UNCHANGED streamVars
             \/ UNCHANGED allVars

GoneStep == \/ \E k \in Caller : ReadRefusal(k) \/ ReadFaulty(k) \/ ReadEOF(k) \/ CloseStream(k)
            \/ ServerCrash

\* The steps that move a message.
Moves == \/ \E k \in Caller : \/ SendFirst(k) \/ ReadAsk(k) \/ ReadNotification(k)
                              \/ SkipResponse(k) \/ ReadThread(k) \/ ReadTurn(k)
                              \/ ReadCompleted(k) \/ LoopEnds(k)
         \/ StartThread \/ TakeUp \/ Refuse \/ TakeAnswer \/ SendExtra
         \/ Alive /\ \E t \in tasks : Respond(t) \/ Notify(t) \/ Ask(t) \/ Complete(t)

LEMMA StreamSteps ==
    ASSUME [StreamNext]_allVars
    PROVE  StillStep \/ GoneStep \/ Moves
  <1>1. \A k \in Caller : ClientWorks(k) \/ ClientReads(k) => StillStep \/ GoneStep \/ Moves
    BY DEF ClientWorks, ClientReads, StillStep, GoneStep, Moves
  <1>2. ServerGoesOn \/ SendExtra => Moves
    BY DEF ServerGoesOn, Work, Moves
  <1>3. CallerGoesOn /\ UNCHANGED streamVars => StillStep
    BY DEF StillStep
  <1>4. \A k \in Caller : CallerIsDone(k) \/ (Acquire(k) /\ UNCHANGED streamVars) => StillStep
    BY DEF StillStep
  <1>5. (\E k \in Caller : CloseStream(k)) \/ ServerCrash => GoneStep
    BY DEF GoneStep
  <1>6. UNCHANGED allVars => StillStep
    BY DEF StillStep
  <1> QED
    BY <1>1, <1>2, <1>3, <1>4, <1>5, <1>6 DEF StreamNext

LEMMA BetweenStill ==
    ASSUME NEW k \in Caller, Between(k)
    PROVE  /\ UNCHANGED <<session, procs>>
           /\ \A j \in Caller : Waits(j) \/ Waits(j)' => op'[j] = op[j] /\ step'[j] = step[j]
  BY DEF Between, Waits

LEMMA StillIsStill ==
    ASSUME Inv, StillStep
    PROVE  Still
  <1> USE CallersAre
  <1>1. CASE CallerGoesOn /\ UNCHANGED streamVars
    <2>1. ASSUME NEW c \in Channel, RunMessageTurn(c) \/ SteerFailed(c) \/ StartFailed(c)
                                     \/ NewThreadMade(c)
          PROVE  Still
      <3>1. Between(c)
        BY <2>1, CallersBetween DEF Inv
      <3> QED
        BY <1>1, <3>1, BetweenStill DEF Still, streamVars
    <2>2. CASE HeartbeatTick \/ Shutdown
      <3>1. Between(Heartbeat) \/ Between(Main)
        BY <2>2, CallersBetween DEF Inv
      <3> QED
        BY <1>1, <3>1, BetweenStill DEF Still, streamVars
    <2>3. CASE Finished \/ \E c \in Channel : ResetSession(c)
      BY <1>1, <2>3 DEF Finished, vars, ResetSession, Calling, Still, streamVars, Waits
    <2> QED
      BY <1>1, <2>1, <2>2, <2>3 DEF CallerGoesOn
  <1>2. ASSUME NEW k \in Caller, CallerIsDone(k) PROVE Still
    <2>1. Between(k)
      BY <1>2, CallersBetween DEF CallerIsDone, Inv
    <2> QED
      BY <1>2, <2>1, BetweenStill DEF CallerIsDone, Still
  <1>3. ASSUME NEW k \in Caller, UNCHANGED streamVars,
               Acquire(k) \/ FindExpired(k) \/ CannotStart(k)
        PROVE  Still
    <2>1. /\ ~Waits(k) /\ ~Waits(k)'
          /\ UNCHANGED <<session, procs, op>>
          /\ \A j \in Caller \ {k} : step'[j] = step[j]
      BY <1>3 DEF Acquire, FindExpired, CannotStart, Return, Waits, Inv, TypeOK, ClientTypeOK
    <2> QED
      BY <1>3, <2>1 DEF Still, streamVars, Waits
  <1>4. CASE UNCHANGED allVars
    BY <1>4 DEF allVars, vars, streamVars, Still
  <1> QED
    BY <1>1, <1>2, <1>3, <1>4 DEF StillStep

LEMMA GoneIsGone ==
    ASSUME Inv, GoneStep
    PROVE  Gone
  <1>1. NoOrphan /\ session \in Nat /\ procs \in SUBSET (Nat \ {0})
    BY DEF Inv, TypeOK, ClientTypeOK
  <1>2. ASSUME NEW k \in Caller, Fail(k), Operation(k), PipesGone, UNCHANGED <<nextID, agg>>
        PROVE  Gone
    <2>1. session' = 0 /\ session' \notin procs'
      BY <1>1, <1>2 DEF Fail, StopSession
    <2>2. \A j \in Caller : ~Waits(j)'
      BY <1>2, OperationAlone, FailLeads DEF Inv, TypeOK, Waits, Busy
    <2> QED
      BY <1>2, <2>1, <2>2 DEF Gone
  <1>3. ASSUME NEW k \in Caller, ReadRefusal(k) \/ ReadFaulty(k) \/ ReadEOF(k) PROVE Gone
    <2>1. Fail(k) /\ Operation(k) /\ PipesGone /\ UNCHANGED <<nextID, agg>>
      BY <1>3 DEF ReadRefusal, ReadFaulty, ReadEOF, TurnRefused, RequestFaults, FindDead, Operation
    <2> QED
      BY <2>1, <1>2
  <1>4. ASSUME NEW k \in Caller, CloseStream(k) PROVE Gone
    <2>1. Operation(k) /\ Close(k)
      BY <1>4 DEF CloseStream, Operation
    <2>2. session' = 0 /\ session' \notin procs' /\ ~Waits(k)'
      BY <1>1, <2>1 DEF Close, StopSession, Waits, Inv, TypeOK, ClientTypeOK
    <2>3. \A j \in Caller : ~Waits(j)'
      BY <2>1, <2>2, OperationAlone DEF Inv, TypeOK, Waits, Busy
    <2> QED
      BY <1>4, <2>2, <2>3 DEF CloseStream, Gone
  <1>5. CASE ServerCrash
    BY <1>5 DEF ServerCrash, Crash, Gone, Waits
  <1> QED
    BY <1>3, <1>4, <1>5 DEF GoneStep

\* What a read does to the pipe, and the turn it is done in.
LEMMA ReadFacts ==
    ASSUME NEW S, toClient \in Seq(S), NEW k \in Caller, Read(k)
    PROVE  /\ Waits(k)
           /\ 1 \in DOMAIN toClient /\ Received = toClient[1] /\ Received \in S
           /\ toClient' \in Seq(S)
           /\ \A i \in DOMAIN toClient' : i \in Nat \ {0} /\ i + 1 \in DOMAIN toClient
                                        /\ toClient'[i] = toClient[i + 1]
           /\ \A i \in DOMAIN toClient :
                i = 1 \/ (i - 1 \in DOMAIN toClient' /\ toClient'[i - 1] = toClient[i])
  <1>1. toClient # << >> /\ toClient' = Tail(toClient) /\ Waits(k)
    BY DEF Read, CanRead, Reading, Waits
  <1> QED
    BY <1>1, TailFacts DEF Received

\* And taking a request, or an answer.
LEMMA TakeFacts ==
    ASSUME NEW S, toServer \in Seq(S), NEW kind, Takes(kind)
    PROVE  /\ session # 0 /\ session \in procs
           /\ 1 \in DOMAIN toServer /\ Incoming = toServer[1] /\ Incoming \in S
           /\ Incoming.kind = kind
           /\ toServer' \in Seq(S)
           /\ \A i \in DOMAIN toServer' : i \in Nat \ {0} /\ i + 1 \in DOMAIN toServer
                                        /\ toServer'[i] = toServer[i + 1]
           /\ \A i \in DOMAIN toServer :
                i = 1 \/ (i - 1 \in DOMAIN toServer' /\ toServer'[i - 1] = toServer[i])
  <1>1. toServer # << >> /\ toServer' = Tail(toServer)
    BY DEF Takes
  <1> QED
    BY <1>1, TailFacts DEF Takes, Alive, Incoming

-----------------------------------------------------------------------------
(* Types. *)

ServerMessages(n) == [kind : {"thread", "turn", "answer"}, id : (initRequestID + 1)..(n - 1),
                      who : Caller]
ClientMessages(n) == [kind : {"response", "refusal", "note", "done", "ask"},
                      id : (initRequestID + 1)..(n - 1), names : Thread \cup {NoThread}]
Tasks(n)          == [id : (initRequestID + 1)..(n - 1), thread : Thread \cup {NoThread},
                      asking : BOOLEAN, answered : BOOLEAN, done : BOOLEAN]
Aggregators       == [completed : BOOLEAN, turn : Thread \cup {NoThread}, from : SUBSET Nat]

StreamTyped == /\ toServer \in Seq(ServerMessages(nextID))
               /\ toClient \in Seq(ClientMessages(nextID))
               /\ nextID \in Nat
               /\ agg \in Aggregators
               /\ tasks \subseteq Tasks(nextID)
               /\ said \in 0..MaxSaid
               /\ extras \in 0..MaxExtra
               /\ mixed \in BOOLEAN
               /\ executed \in [Caller -> Nat]

LEMMA StreamTypeParts == (StreamTypeOK <=> StreamTyped) /\ (StreamTypeOK' <=> StreamTyped')
  BY DEF StreamTypeOK, StreamTyped, ServerMessages, ClientMessages, Tasks, Aggregators

LEMMA LaterMessages ==
    ASSUME NEW m \in Nat, NEW n \in Nat, m <= n
    PROVE  /\ ServerMessages(m) \subseteq ServerMessages(n)
           /\ ClientMessages(m) \subseteq ClientMessages(n)
           /\ Tasks(m) \subseteq Tasks(n)
  BY DEF ServerMessages, ClientMessages, Tasks, initRequestID

\* sendRequest.
LEMMA SendTyped ==
    ASSUME StreamTypeOK, NEW k \in Caller, NEW kind \in {"thread", "turn"}, NEW id \in Nat,
           id > initRequestID, id = nextID \/ Quiet, Send(k, kind, id)
    PROVE  /\ toServer' \in Seq(ServerMessages(nextID'))
           /\ toClient \in Seq(ClientMessages(nextID'))
           /\ tasks \subseteq Tasks(nextID')
           /\ nextID' \in Nat
           /\ agg' \in Aggregators
  <1> USE StreamTypeParts DEF StreamTyped
  <1>1. nextID' = id + 1 /\ nextID' \in Nat
    BY DEF Send
  <1>2. Request(kind, id, k) \in ServerMessages(nextID')
    BY <1>1 DEF Request, ServerMessages, initRequestID
  <1>3. /\ toServer \in Seq(ServerMessages(nextID'))
        /\ toClient \in Seq(ClientMessages(nextID'))
        /\ tasks \subseteq Tasks(nextID')
    <2>1. CASE id = nextID
      <3>1. /\ ServerMessages(nextID) \subseteq ServerMessages(nextID')
            /\ ClientMessages(nextID) \subseteq ClientMessages(nextID')
            /\ Tasks(nextID) \subseteq Tasks(nextID')
        BY <1>1, <2>1, LaterMessages
      <3>2. toServer \in Seq(ServerMessages(nextID'))
        BY <3>1, SeqWiden
      <3>3. toClient \in Seq(ClientMessages(nextID'))
        BY <3>1, SeqWiden
      <3> QED
        BY <3>1, <3>2, <3>3
    <2>2. CASE Quiet
      BY <2>2, EmptyFacts DEF Quiet
    <2> QED
      BY <2>1, <2>2
  <1>4. toServer' \in Seq(ServerMessages(nextID'))
    BY <1>2, <1>3, AppendFacts DEF Send
  <1>5. agg' \in Aggregators
    BY ThreadFacts DEF Send, NewAggregator, Aggregators
  <1> QED
    BY <1>1, <1>3, <1>4, <1>5

\* Who sends a message for a known request keeps the pipe's type.
LEMMA SendsTyped ==
    ASSUME StreamTypeOK, NEW id \in (initRequestID + 1)..(nextID - 1),
           NEW kind \in {"response", "refusal", "note", "done", "ask"},
           NEW names \in Thread \cup {NoThread}, Sends(kind, id, names)
    PROVE  toClient' \in Seq(ClientMessages(nextID))
  <1>1. Message(kind, id, names) \in ClientMessages(nextID)
    BY DEF Message, ClientMessages
  <1> QED
    BY <1>1, StreamTypeParts, AppendFacts DEF Sends, StreamTyped

\* A task goes on as the same task.
LEMMA TaskTyped ==
    ASSUME StreamTypeOK, NEW t \in tasks
    PROVE  /\ t \in Tasks(nextID)
           /\ t.id \in (initRequestID + 1)..(nextID - 1)
           /\ t.thread \in Thread \cup {NoThread}
           /\ Names(t) \subseteq {t.thread, NoThread}
           /\ [t EXCEPT !.asking = TRUE] \in Tasks(nextID)
           /\ [t EXCEPT !.asking = FALSE] \in Tasks(nextID)
           /\ [t EXCEPT !.answered = TRUE] \in Tasks(nextID)
           /\ [t EXCEPT !.done = TRUE] \in Tasks(nextID)
  BY StreamTypeParts DEF StreamTyped, Tasks, Names

LEMMA StreamTypeStep ==
    ASSUME Inv, StreamTypeOK, Silent, [StreamNext]_allVars
    PROVE  StreamTypeOK'
  <1> USE StreamTypeParts DEF StreamTyped
  <1>0. nextID \in Nat /\ session \in Nat
    BY DEF Inv, TypeOK, ClientTypeOK
  <1>1. CASE StillStep
    <2>1. executed' = executed \/ \E k \in Caller : executed' = [executed EXCEPT ![k] = 0]
      BY <1>1 DEF StillStep, CallerIsDone, streamVars, allVars
    <2> QED
      BY <1>1, <2>1, StillIsStill DEF Still
  <1>2. CASE GoneStep
    BY <1>2, GoneIsGone, EmptyFacts DEF Gone, PipesGone
  <1>3. ASSUME NEW k \in Caller, SendFirst(k) PROVE StreamTypeOK'
    <2> DEFINE id == IF session = 0 THEN initRequestID + 1 ELSE nextID
    <2>1. id \in Nat /\ id > initRequestID
      BY <1>0 DEF Silent, initRequestID
    <2>2. id = nextID \/ Quiet
      BY DEF Silent, Quiet, Inv, TypeOK, ClientTypeOK
    <2>3. Send(k, FirstRequest(k), id) /\ FirstRequest(k) \in {"thread", "turn"}
      BY <1>3 DEF SendFirst, FirstRequest
    <2> HIDE DEF id
    <2> QED
      BY <1>3, <2>1, <2>2, <2>3, SendTyped DEF SendFirst
  <1>4. ASSUME NEW k \in Caller, Read(k), UNCHANGED <<tasks, said, extras, mixed, executed>>
        PROVE  /\ toClient' \in Seq(ClientMessages(nextID))
               /\ Received \in ClientMessages(nextID)
               /\ Consume(agg, Received) \in Aggregators
    <2>1. toClient' \in Seq(ClientMessages(nextID)) /\ Received \in ClientMessages(nextID)
      BY <1>4, ReadFacts
    <2>2. Received.id \in Nat /\ Received.names \in Thread \cup {NoThread}
      BY <1>0, <2>1 DEF ClientMessages, initRequestID
    <2>3. Consume(agg, Received) \in Aggregators
      BY <2>2 DEF Consume, Aggregators
    <2> QED
      BY <2>1, <2>3
  <1>5. ASSUME NEW k \in Caller, ReadAsk(k) PROVE StreamTypeOK'
    <2>1. Read(k) /\ UNCHANGED <<nextID, agg, tasks, said, extras, mixed, executed>>
      BY <1>5 DEF ReadAsk
    <2>2. Request("answer", Received.id, k) \in ServerMessages(nextID)
      BY <2>1, <1>4 DEF Request, ServerMessages, ClientMessages
    <2>3. toServer' \in Seq(ServerMessages(nextID))
      BY <1>5, <2>2, AppendFacts DEF ReadAsk
    <2> QED
      BY <1>4, <2>1, <2>3
  <1>6. ASSUME NEW k \in Caller, ReadNotification(k) \/ SkipResponse(k) \/ ReadCompleted(k)
        PROVE  StreamTypeOK'
    BY <1>4, <1>6 DEF ReadNotification, SkipResponse, ReadCompleted
  <1>7. ASSUME NEW k \in Caller, ReadTurn(k) PROVE StreamTypeOK'
    <2>1. Received.names \in Thread \cup {NoThread} /\ toClient' \in Seq(ClientMessages(nextID))
      BY <1>4, <1>7 DEF ReadTurn, ClientMessages
    <2>2. agg' \in Aggregators
      BY <1>7, <2>1 DEF ReadTurn, Aggregators
    <2> QED
      BY <1>7, <2>1, <2>2 DEF ReadTurn
  <1>8. ASSUME NEW k \in Caller, ReadThread(k) PROVE StreamTypeOK'
    <2>1. toClient' \in Seq(ClientMessages(nextID))
      BY <1>4, <1>8 DEF ReadThread
    <2>2. CASE op[k].kind = "runTurn"
      <3>1. nextID > initRequestID
        BY <1>8 DEF ReadThread, ThreadStarted, Silent, Inv, TypeOK, ClientTypeOK
      <3>2. Send(k, "turn", nextID)
        BY <1>8, <2>2 DEF ReadThread
      <3>3. /\ toServer' \in Seq(ServerMessages(nextID'))
            /\ tasks \subseteq Tasks(nextID')
            /\ nextID' \in Nat
            /\ agg' \in Aggregators
        BY <1>0, <3>1, <3>2, SendTyped
      <3>4. toClient' \in Seq(ClientMessages(nextID'))
        BY <1>0, <2>1, <3>2, LaterMessages, SeqWiden DEF Send
      <3> QED
        BY <1>8, <3>3, <3>4 DEF ReadThread
    <2>3. CASE op[k].kind # "runTurn"
      BY <1>8, <2>1, <2>3 DEF ReadThread
    <2> QED
      BY <2>2, <2>3
  <1>9. ASSUME NEW k \in Caller, LoopEnds(k) PROVE StreamTypeOK'
    BY <1>9 DEF LoopEnds, streamVars
  <1>10. ASSUME NEW kind, Takes(kind)
         PROVE  /\ toServer' \in Seq(ServerMessages(nextID))
                /\ Incoming.id \in (initRequestID + 1)..(nextID - 1) /\ Incoming.who \in Caller
    <2>1. toServer \in Seq(ServerMessages(nextID))
      OBVIOUS
    <2>2. toServer' \in Seq(ServerMessages(nextID)) /\ Incoming \in ServerMessages(nextID)
      BY <1>10, <2>1, TakeFacts
    <2> QED
      BY <2>2 DEF ServerMessages
  <1>11. CASE StartThread \/ Refuse
    <2>1. /\ toServer' \in Seq(ServerMessages(nextID))
          /\ toClient' \in Seq(ClientMessages(nextID))
      BY <1>10, <1>11, SendsTyped DEF StartThread, Refuse
    <2> QED
      BY <1>11, <2>1 DEF StartThread, Refuse
  <1>12. CASE TakeUp
    <2>1. op[Incoming.who].thread \in Thread \cup {NoThread} /\ Incoming.who \in Caller
      BY <1>10, <1>12 DEF TakeUp, Inv, TypeOK, ClientTypeOK
    <2>2. NewTask(Incoming.id, Incoming.who) \in Tasks(nextID)
      BY <1>10, <1>12, <2>1 DEF TakeUp, NewTask, Tasks
    <2>3. executed' \in [Caller -> Nat]
      <3>1. executed' = [executed EXCEPT ![Incoming.who] = @ + 1]
        BY <1>12 DEF TakeUp
      <3> QED
        BY <2>1, <3>1
    <2> QED
      BY <1>10, <1>12, <2>2, <2>3 DEF TakeUp
  <1>13. ASSUME NEW t \in tasks, Respond(t) \/ Notify(t) \/ Ask(t) \/ Complete(t)
         PROVE  StreamTypeOK'
    <2>1. toClient' \in Seq(ClientMessages(nextID))
      <3>1. \E kind \in {"response", "note", "done", "ask"}, names \in {t.thread, NoThread} :
               Sends(kind, t.id, names)
        BY <1>13, TaskTyped DEF Respond, Notify, Ask, Complete
      <3>2. t.thread \in Thread \cup {NoThread} /\ t.id \in (initRequestID + 1)..(nextID - 1)
        BY TaskTyped
      <3> QED
        BY <3>1, <3>2, SendsTyped
    <2>2. tasks' \subseteq Tasks(nextID)
      BY <1>13, TaskTyped DEF Respond, Notify, Ask, Complete, Goes
    <2>3. said' \in 0..MaxSaid
      <3>1. said' = said \/ (said < MaxSaid /\ said' = said + 1)
        BY <1>13 DEF Respond, Notify, Ask, Complete
      <3> QED
        BY <3>1, StreamAssumption
    <2> QED
      BY <1>13, <2>1, <2>2, <2>3 DEF Respond, Notify, Ask, Complete
  <1>14. CASE TakeAnswer
    <2>1. tasks' \subseteq Tasks(nextID)
      BY <1>14, TaskTyped DEF TakeAnswer, Goes
    <2> QED
      BY <1>10, <1>14, <2>1 DEF TakeAnswer
  <1>15. CASE SendExtra
    <2>1. /\ nextID - 1 \in (initRequestID + 1)..(nextID - 1)
          /\ session \in Nat \ {0} /\ made \in Nat
      BY <1>0, <1>15 DEF SendExtra, Alive, initRequestID, Inv, TypeOK, ClientTypeOK
    <2>2. ExtraMessages(nextID - 1) \subseteq ClientMessages(nextID)
      <3>1. [home : {session}, n : 1..made] \subseteq Thread
        BY <2>1 DEF Thread
      <3> QED
        BY <2>1, <3>1 DEF ExtraMessages, Message, ClientMessages
    <2>3. toClient' \in Seq(ClientMessages(nextID))
      <3>1. PICK m \in ExtraMessages(nextID - 1) : toClient' = Append(toClient, m)
        BY <1>15 DEF SendExtra
      <3> QED
        BY <2>2, <3>1, AppendFacts
    <2>4. extras' \in 0..MaxExtra
      <3>1. extras < MaxExtra /\ extras' = extras + 1
        BY <1>15 DEF SendExtra
      <3> QED
        BY <3>1, StreamAssumption
    <2> QED
      BY <1>15, <2>3, <2>4 DEF SendExtra
  <1> QED
    BY <1>1, <1>2, <1>3, <1>5, <1>6, <1>7, <1>8, <1>9, <1>11, <1>12, <1>13, <1>14, <1>15,
       StreamSteps DEF Moves

-----------------------------------------------------------------------------
(* Requests and tasks. *)

\* What the type says of one message or task.
LEMMA MessageTyped ==
    ASSUME StreamTypeOK
    PROVE  /\ nextID \in Nat
           /\ \A i \in DOMAIN toServer : /\ toServer[i].kind \in {"thread", "turn", "answer"}
                                         /\ toServer[i].id \in 2..(nextID - 1)
                                         /\ toServer[i].who \in Caller
           /\ \A i \in DOMAIN toClient : toClient[i].id \in 2..(nextID - 1)
           /\ \A t \in tasks : t.id \in 2..(nextID - 1)
  <1>1. \A i \in DOMAIN toServer : toServer[i] \in ServerMessages(nextID)
    BY StreamTypeParts DEF StreamTyped
  <1>2. \A i \in DOMAIN toClient : toClient[i] \in ClientMessages(nextID)
    BY StreamTypeParts DEF StreamTyped
  <1> QED
    BY <1>1, <1>2, StreamTypeParts
      DEF StreamTyped, ServerMessages, ClientMessages, Tasks, initRequestID

\* All that is in the pipe to the server is answers.
Unasked == \A i \in DOMAIN toServer : toServer[i].kind = "answer"

LEMMA OneWaits ==
    ASSUME Inv, NEW k \in Caller, step[k] \in Busy
    PROVE  /\ \A j \in Caller \ {k} : step[j] \notin Busy /\ ~Waits(j)
           /\ lock = k
  BY DEF Inv, Working, Waits, Busy

LEMMA WhenUnasked ==
    ASSUME Inv, StreamTypeOK, Requests,
           \/ \E k \in Caller : step[k] \in {"try", "stream"}
           \/ \E i \in DOMAIN toClient : toClient[i].id = nextID - 1
           \/ \A i \in DOMAIN toServer : toServer[i].id # nextID - 1
    PROVE  Unasked
  <1> SUFFICES ASSUME NEW i \in DOMAIN toServer, toServer[i].kind # "answer" PROVE FALSE
    BY DEF Unasked
  <1>1. toServer[i].who \in Caller /\ step[toServer[i].who] \in {"thread", "turn"}
    BY MessageTyped DEF Requests
  <1>2. ASSUME NEW k \in Caller, step[k] \in {"try", "stream"} PROVE FALSE
    BY <1>1, <1>2, OneWaits DEF Busy
  <1> QED
    BY <1>2 DEF Requests

\* Who moves a message has a process, and keeps it.
LEMMA MovesAlive ==
    ASSUME Inv, StreamTypeOK, Silent, Moves
    PROVE  \/ \E k \in Caller : SendFirst(k)
           \/ /\ session \in procs /\ session # 0
              /\ UNCHANGED <<session, procs>>
              /\ nextID' \in Nat /\ nextID' >= nextID
  <1> USE StreamTypeParts DEF StreamTyped
  <1>1. session \in procs => session # 0
    BY DEF Inv, TypeOK, ClientTypeOK
  <1>2. ASSUME NEW k \in Caller, Read(k) PROVE session \in procs
    BY <1>2 DEF Read, CanRead, Silent
  <1>3. ASSUME NEW k \in Caller, ReadAsk(k) \/ ReadNotification(k) \/ SkipResponse(k)
        PROVE  session \in procs /\ UNCHANGED <<session, procs, nextID>>
    BY <1>2, <1>3 DEF ReadAsk, ReadNotification, SkipResponse, vars
  <1>4. ASSUME NEW k \in Caller, ReadTurn(k) \/ ReadCompleted(k) \/ LoopEnds(k)
        PROVE  session \in procs /\ UNCHANGED <<session, procs, nextID>>
    BY <1>2, <1>4 DEF ReadTurn, TurnAccepted, ReadCompleted, LoopEnds, EndTurn, TurnCompleted,
         streamVars
  <1>5. ASSUME NEW k \in Caller, ReadThread(k)
        PROVE  /\ session \in procs /\ UNCHANGED <<session, procs>>
               /\ nextID' = nextID \/ nextID' = nextID + 1
    BY <1>2, <1>5 DEF ReadThread, ThreadStarted, Send
  <1>6. ASSUME StartThread \/ TakeUp \/ Refuse \/ TakeAnswer \/ SendExtra
        PROVE  session \in procs /\ UNCHANGED <<session, procs, nextID>>
    BY <1>6 DEF StartThread, TakeUp, Refuse, TakeAnswer, SendExtra, Takes, Alive, vars
  <1>7. ASSUME Alive, NEW t \in tasks, Respond(t) \/ Notify(t) \/ Ask(t) \/ Complete(t)
        PROVE  session \in procs /\ UNCHANGED <<session, procs, nextID>>
    BY <1>7 DEF Alive, Respond, Notify, Ask, Complete, vars
  <1> QED
    BY <1>1, <1>3, <1>4, <1>5, <1>6, <1>7 DEF Moves

\* The process for the first request, and the id it has.
LEMMA SendFirstFacts ==
    ASSUME Inv, StreamTypeOK, Silent, NEW k \in Caller, SendFirst(k)
    PROVE  /\ step[k] = "try" /\ step'[k] = FirstRequest(k) /\ op' = op
           /\ \A j \in Caller \ {k} : step'[j] = step[j]
           /\ FirstRequest(k) \in {"thread", "turn"}
           /\ session' # 0
           /\ \/ session' = session /\ procs' = procs
              \/ session = 0 /\ session' \in procs' /\ session \notin procs
           /\ \E id \in Nat : /\ id > initRequestID
                              /\ id = nextID \/ Quiet
                              /\ Send(k, FirstRequest(k), id)
           /\ UNCHANGED <<toClient, tasks, said, extras, mixed, executed, lock, faults, attempt>>
  <1> DEFINE id == IF session = 0 THEN initRequestID + 1 ELSE nextID
  <1>1. /\ session \in Nat /\ started \in Nat /\ procs \in SUBSET (Nat \ {0}) /\ nextID \in Nat
        /\ step \in [Caller -> Steps]
    BY MessageTyped DEF Inv, TypeOK, ClientTypeOK
  <1>2. id \in Nat /\ id > initRequestID /\ (id = nextID \/ Quiet)
    BY <1>1 DEF Silent, initRequestID, Quiet
  <1>3. Send(k, FirstRequest(k), id)
    BY DEF SendFirst
  <1> HIDE DEF id
  <1>4. EnsureSession(k) /\ UNCHANGED <<toClient, tasks, said, extras, mixed, executed>>
    BY DEF SendFirst
  <1>5. /\ step[k] = "try" /\ step'[k] = FirstRequest(k) /\ op' = op
        /\ \A j \in Caller \ {k} : step'[j] = step[j]
        /\ UNCHANGED <<lock, faults, attempt>>
    BY <1>1, <1>4 DEF EnsureSession
  <1>6. /\ session' # 0
        /\ \/ session' = session /\ procs' = procs
           \/ session = 0 /\ session' \in procs' /\ session \notin procs
    BY <1>1, <1>4 DEF EnsureSession
  <1>7. FirstRequest(k) \in {"thread", "turn"}
    BY DEF FirstRequest
  <1> QED
    BY <1>2, <1>3, <1>4, <1>5, <1>6, <1>7

LEMMA SilentStep ==
    ASSUME Inv, StreamTypeOK, Silent, [StreamNext]_allVars
    PROVE  Silent'
  <1> USE StreamTypeParts DEF StreamTyped
  <1>0. session \in Nat /\ procs \in SUBSET (Nat \ {0})
    BY DEF Inv, TypeOK, ClientTypeOK
  <1>1. CASE Still
    BY <1>1 DEF Still, Silent, Waits
  <1>2. CASE Gone
    BY <1>2, <1>0 DEF Gone, PipesGone, Silent, Waits
  <1>3. ASSUME NEW k \in Caller, SendFirst(k) PROVE Silent'
    <2>1. PICK id \in Nat : id > initRequestID /\ Send(k, FirstRequest(k), id)
      BY <1>3, SendFirstFacts
    <2>2. nextID' > initRequestID
      BY <2>1 DEF Send, initRequestID
    <2>3. session' # 0
      BY <1>3, SendFirstFacts
    <2>4. ASSUME session' \notin procs'
          PROVE  toServer' = << >> /\ toClient' = << >> /\ tasks' = {} /\ ~mixed'
      <3>1. session \notin procs
        BY <1>3, <2>4, SendFirstFacts
      <3> QED
        BY <1>3, <2>1, <2>4, <3>1, SendFirstFacts DEF Send, Silent
    <2> QED
      BY <2>2, <2>3, <2>4 DEF Silent
  <1>4. CASE /\ session \in procs /\ session # 0
             /\ UNCHANGED <<session, procs>>
             /\ nextID' \in Nat /\ nextID' >= nextID
    BY <1>4 DEF Silent, initRequestID
  <1> QED
    BY <1>1, <1>2, <1>3, <1>4, StreamSteps, StillIsStill, GoneIsGone, MovesAlive

\* Of one task only what is said of it changes.
LEMMA GoesFacts ==
    ASSUME TasksApart, NEW t \in tasks, NEW u, u.id = t.id, Goes(t, u)
    PROVE  /\ \A v \in tasks' : \/ v \in tasks \ {t}
                                \/ v = u /\ ~(u.answered /\ u.done)
           /\ \A v \in tasks \ {t} : v \in tasks' /\ v.id # t.id
           /\ u.answered /\ u.done => tasks' = tasks \ {t}
           /\ ~(u.answered /\ u.done) => u \in tasks'
           /\ \A v \in tasks' : \E w \in tasks : w.id = v.id
           /\ TasksApart'
  <1>1. tasks' = (tasks \ {t}) \cup (IF u.answered /\ u.done THEN {} ELSE {u})
    BY DEF Goes
  <1>2. \A v \in tasks \ {t} : v.id # t.id
    BY DEF TasksApart
  <1>3. \A v \in tasks' : v \in tasks \ {t} \/ (v = u /\ ~(u.answered /\ u.done))
    BY <1>1
  <1>4. TasksApart'
    BY <1>2, <1>3 DEF TasksApart
  <1> QED
    BY <1>1, <1>2, <1>3, <1>4

LEMMA TaskAfter ==
    ASSUME StreamTypeOK, NEW t \in tasks
    PROVE  /\ \A b \in BOOLEAN : LET u == [t EXCEPT !.asking = b]
                                 IN  /\ u.id = t.id /\ u.thread = t.thread /\ u.asking = b
                                     /\ u.answered = t.answered /\ u.done = t.done
           /\ LET u == [t EXCEPT !.answered = TRUE]
              IN  /\ u.id = t.id /\ u.thread = t.thread /\ u.asking = t.asking
                  /\ u.answered /\ u.done = t.done
           /\ LET u == [t EXCEPT !.done = TRUE]
              IN  /\ u.id = t.id /\ u.thread = t.thread /\ u.asking = t.asking
                  /\ u.answered = t.answered /\ u.done
  BY TaskTyped DEF Tasks

\* What the server says of a task leaves requests and ids alone.
LEMMA WorkFacts ==
    ASSUME StreamTypeOK, TasksApart, NEW t \in tasks,
           Respond(t) \/ Notify(t) \/ Ask(t) \/ Complete(t)
    PROVE  /\ \A v \in tasks' : \E w \in tasks : w.id = v.id
           /\ TasksApart'
           /\ \E kind, names : toClient' = Append(toClient, Message(kind, t.id, names))
           /\ UNCHANGED <<vars, toServer, nextID, agg, mixed, executed>>
  <1>1. CASE Respond(t)
    <2> DEFINE u == [t EXCEPT !.answered = TRUE]
    <2>1. u.id = t.id
      BY TaskAfter
    <2>2. Goes(t, u) /\ UNCHANGED <<vars, toServer, nextID, agg, mixed, executed>>
      BY <1>1 DEF Respond
    <2>3. \E names : toClient' = Append(toClient, Message("response", t.id, names))
      BY <1>1 DEF Respond, Sends
    <2> HIDE DEF u
    <2> QED
      BY <2>1, <2>2, <2>3, GoesFacts
  <1>2. CASE Notify(t)
    BY <1>2 DEF Notify, Sends, TasksApart
  <1>3. CASE Ask(t)
    BY <1>3, TaskAfter, GoesFacts DEF Ask, Sends
  <1>4. CASE Complete(t)
    <2> DEFINE u == [t EXCEPT !.done = TRUE]
    <2>1. u.id = t.id
      BY TaskAfter
    <2>2. Goes(t, u) /\ UNCHANGED <<vars, toServer, nextID, agg, mixed, executed>>
      BY <1>4 DEF Complete
    <2>3. \E names : toClient' = Append(toClient, Message("done", t.id, names))
      BY <1>4 DEF Complete, Sends
    <2> HIDE DEF u
    <2> QED
      BY <2>1, <2>2, <2>3, GoesFacts
  <1> QED
    BY <1>1, <1>2, <1>3, <1>4

LEMMA TakeAnswerFacts ==
    ASSUME StreamTypeOK, TasksApart, TakeAnswer
    PROVE  /\ \A v \in tasks' : \E w \in tasks : w.id = v.id
           /\ TasksApart'
  BY TaskAfter, GoesFacts DEF TakeAnswer

\* A new request, after the last one.
LEMMA SendRequests ==
    ASSUME StreamTypeOK, Unasked, NEW k \in Caller, NEW kind \in {"thread", "turn"},
           NEW id \in Nat, id > initRequestID, id = nextID \/ Quiet, Send(k, kind, id),
           step'[k] = kind, UNCHANGED tasks,
           \A i \in DOMAIN toClient' : \E j \in DOMAIN toClient : toClient'[i] = toClient[j]
    PROVE  Requests'
  <1>1. nextID' - 1 = id
    BY DEF Send
  <1>2. /\ \A t \in tasks' : t.id # id
        /\ \A i \in DOMAIN toClient' : toClient'[i].id # id
    BY MessageTyped, EmptyFacts DEF Quiet
  <1>3. CASE toServer' = toServer
    BY <1>3 DEF Requests, Unasked
  <1>4. CASE toServer' = Append(toServer, Request(kind, id, k))
    <2> DEFINE m == Request(kind, id, k)
    <2>1. m \in ServerMessages(id + 1) /\ m.kind = kind /\ m.id = id /\ m.who = k
      BY DEF Request, ServerMessages, initRequestID
    <2>2. toServer \in Seq(ServerMessages(nextID) \cup {m})
      BY StreamTypeParts, SeqWiden DEF StreamTyped
    <2> HIDE DEF m
    <2>3. \A i \in DOMAIN toServer' : \/ toServer'[i] = m /\ i = Len(toServer) + 1
                                      \/ i \in DOMAIN toServer /\ toServer'[i] = toServer[i]
      BY <1>4, <2>2, AppendFacts DEF m
    <2>4. \A i \in DOMAIN toServer' :
             toServer'[i].kind # "answer" => toServer'[i] = m /\ i = Len(toServer) + 1
      BY <2>3 DEF Unasked
    <2> QED
      BY <1>1, <1>2, <2>1, <2>4 DEF Requests
  <1> QED
    BY <1>3, <1>4 DEF Send

LEMMA RequestsStep ==
    ASSUME Inv, StreamTypeOK, Silent, Requests, TasksApart, [StreamNext]_allVars
    PROVE  Requests'
  <1> USE StreamTypeParts DEF StreamTyped
  <1>1. CASE Still
    BY <1>1, MessageTyped DEF Still, Requests, Waits
  <1>2. CASE Gone
    BY <1>2, EmptyFacts DEF Gone, PipesGone, Requests
  <1>3. ASSUME NEW k \in Caller, SendFirst(k) PROVE Requests'
    <2>1. PICK id \in Nat : /\ id > initRequestID
                            /\ id = nextID \/ Quiet
                            /\ Send(k, FirstRequest(k), id)
      BY <1>3, SendFirstFacts
    <2>2. Unasked
      BY <1>3, SendFirstFacts, WhenUnasked
    <2>3. /\ step'[k] = FirstRequest(k) /\ FirstRequest(k) \in {"thread", "turn"}
          /\ UNCHANGED <<tasks, toClient>>
      BY <1>3, SendFirstFacts
    <2> QED
      BY <2>1, <2>2, <2>3, SendRequests
  <1>4. ASSUME NEW k \in Caller, Read(k)
        PROVE  /\ \A i \in DOMAIN toClient' : \E j \in DOMAIN toClient : toClient'[i] = toClient[j]
               /\ \E j \in DOMAIN toClient : Received = toClient[j]
    BY <1>4, ReadFacts
  <1>5. ASSUME NEW k \in Caller, ReadAsk(k) PROVE Requests'
    <2> DEFINE m == Request("answer", Received.id, k)
    <2>1. /\ toServer' = Append(toServer, m)
          /\ UNCHANGED <<step, nextID, tasks>>
      BY <1>5 DEF ReadAsk, vars
    <2>2. toServer \in Seq(ServerMessages(nextID) \cup {m}) /\ m.kind = "answer"
      BY SeqWiden DEF Request
    <2> HIDE DEF m
    <2>3. \A i \in DOMAIN toServer' : \/ toServer'[i] = m
                                      \/ i \in DOMAIN toServer /\ toServer'[i] = toServer[i]
      BY <2>1, <2>2, AppendFacts
    <2>4. \A i \in DOMAIN toServer' : toServer'[i].kind # "answer" =>
                                         i \in DOMAIN toServer /\ toServer'[i] = toServer[i]
      BY <2>2, <2>3
    <2> QED
      BY <1>4, <1>5, <2>1, <2>4 DEF Requests, ReadAsk
  <1>6. ASSUME NEW k \in Caller, ReadNotification(k) \/ SkipResponse(k) PROVE Requests'
    <2>1. Read(k) /\ UNCHANGED <<step, toServer, nextID, tasks>>
      BY <1>6 DEF ReadNotification, SkipResponse, vars
    <2> QED
      BY <1>4, <2>1 DEF Requests
  <1>7. ASSUME NEW k \in Caller, ReadThread(k) PROVE Requests'
    <2>1. Read(k) /\ Received.id = nextID - 1 /\ UNCHANGED tasks
      BY <1>7 DEF ReadThread, Matches
    <2>2. Unasked
      BY <1>4, <2>1, WhenUnasked
    <2>3. CASE op[k].kind = "runTurn"
      <3>1. Send(k, "turn", nextID) /\ step'[k] = "turn"
        BY <1>7, <2>3 DEF ReadThread, ThreadStarted, Inv, TypeOK, ClientTypeOK
      <3>2. nextID \in Nat /\ nextID > initRequestID
        BY <1>7 DEF ReadThread, ThreadStarted, Silent, Inv, TypeOK, ClientTypeOK
      <3> QED
        BY <1>4, <2>1, <2>2, <3>1, <3>2, SendRequests
    <2>4. CASE op[k].kind # "runTurn"
      BY <1>7, <2>2, <2>4 DEF ReadThread, Requests, Unasked
    <2> QED
      BY <2>3, <2>4
  <1>8. ASSUME NEW k \in Caller, ReadTurn(k) \/ ReadCompleted(k) \/ LoopEnds(k) PROVE Requests'
    <2>1. UNCHANGED toServer
      BY <1>8 DEF ReadTurn, ReadCompleted, LoopEnds, streamVars
    <2>2. Unasked
      <3>1. CASE ReadTurn(k)
        <4>1. Read(k) /\ Received.id = nextID - 1
          BY <3>1 DEF ReadTurn, Matches
        <4>2. \E i \in DOMAIN toClient : toClient[i].id = nextID - 1
          BY <1>4, <4>1
        <4> QED
          BY <4>2, WhenUnasked
      <3>2. CASE ReadCompleted(k) \/ LoopEnds(k)
        <4>1. step[k] = "stream"
          BY <3>2 DEF ReadCompleted, LoopEnds, EndTurn, TurnCompleted
        <4> QED
          BY <4>1, WhenUnasked
      <3> QED
        BY <1>8, <3>1, <3>2
    <2> QED
      BY <2>1, <2>2 DEF Requests, Unasked
  <1>9. ASSUME NEW kind \in {"thread", "turn"}, Takes(kind)
        PROVE  Unasked'
    <2>1. /\ 1 \in DOMAIN toServer /\ toServer[1].kind # "answer"
          /\ \A i \in DOMAIN toServer' : i \in Nat \ {0} /\ i + 1 \in DOMAIN toServer
                                       /\ toServer'[i] = toServer[i + 1]
      BY <1>9, TakeFacts
    <2>2. ASSUME NEW i \in DOMAIN toServer', toServer'[i].kind # "answer" PROVE FALSE
      <3>1. i + 1 \in DOMAIN toServer /\ toServer[i + 1].kind # "answer" /\ i + 1 # 1
        BY <2>1, <2>2
      <3> QED
        BY <2>1, <3>1 DEF Requests
    <2> QED
      BY <2>2 DEF Unasked
  <1>10. CASE StartThread \/ TakeUp \/ Refuse
    BY <1>9, <1>10 DEF StartThread, TakeUp, Refuse, Requests, Unasked
  <1>11. CASE TakeAnswer
    <2>1. /\ \A i \in DOMAIN toServer' : /\ i + 1 \in DOMAIN toServer /\ i \in Nat
                                         /\ toServer'[i] = toServer[i + 1]
          /\ UNCHANGED <<step, nextID, toClient>>
      BY <1>11, TakeFacts DEF TakeAnswer, vars
    <2>2. \A v \in tasks' : \E w \in tasks : w.id = v.id
      BY <1>11, TakeAnswerFacts
    <2> QED
      BY <2>1, <2>2 DEF Requests
  <1>12. ASSUME NEW t \in tasks, Respond(t) \/ Notify(t) \/ Ask(t) \/ Complete(t)
         PROVE  Requests'
    <2>1. PICK m : toClient' = Append(toClient, m) /\ m.id = t.id
      <3>1. \A kind, names : Message(kind, t.id, names).id = t.id
        BY DEF Message
      <3>2. \E kind, names : toClient' = Append(toClient, Message(kind, t.id, names))
        BY <1>12, WorkFacts
      <3> QED
        BY <3>1, <3>2
    <2>2. \A i \in DOMAIN toClient' : \/ toClient'[i].id = t.id
                                      \/ i \in DOMAIN toClient /\ toClient'[i] = toClient[i]
      <3>1. toClient \in Seq(ClientMessages(nextID) \cup {m})
        BY SeqWiden
      <3> QED
        BY <2>1, <3>1, AppendFacts
    <2>3. UNCHANGED <<step, toServer, nextID>> /\ \A v \in tasks' : \E w \in tasks : w.id = v.id
      BY <1>12, WorkFacts DEF vars
    <2> QED
      BY <2>2, <2>3 DEF Requests
  <1>13. CASE SendExtra
    <2>1. Unasked
      BY <1>13, WhenUnasked DEF SendExtra
    <2> QED
      BY <1>13, <2>1 DEF SendExtra, Unasked, Requests
  <1> QED
    BY <1>1, <1>2, <1>3, <1>5, <1>6, <1>7, <1>8, <1>10, <1>11, <1>12, <1>13,
       StreamSteps, StillIsStill, GoneIsGone DEF Moves

LEMMA TasksApartStep ==
    ASSUME Inv, StreamTypeOK, Requests, TasksApart, [StreamNext]_allVars
    PROVE  TasksApart'
  <1>1. CASE TakeUp
    <2>1. Incoming.id = nextID - 1 /\ \A t \in tasks : t.id # nextID - 1
      BY <1>1, TakeFacts, StreamTypeParts DEF TakeUp, StreamTyped, Requests
    <2>2. NewTask(Incoming.id, Incoming.who).id = nextID - 1
      BY <2>1 DEF NewTask
    <2> QED
      BY <1>1, <2>1, <2>2 DEF TakeUp, TasksApart
  <1>2. CASE TakeAnswer
    BY <1>2, TakeAnswerFacts
  <1>3. ASSUME NEW t \in tasks, Respond(t) \/ Notify(t) \/ Ask(t) \/ Complete(t)
        PROVE  TasksApart'
    BY <1>3, WorkFacts
  <1>4. ASSUME NEW k \in Caller,
               \/ SendFirst(k) \/ ReadAsk(k) \/ ReadNotification(k) \/ SkipResponse(k)
               \/ ReadThread(k) \/ ReadTurn(k) \/ ReadCompleted(k) \/ LoopEnds(k)
        PROVE  UNCHANGED tasks
    BY <1>4 DEF SendFirst, ReadAsk, ReadNotification, SkipResponse, ReadThread, ReadTurn,
         ReadCompleted, LoopEnds, streamVars
  <1>5. StartThread \/ Refuse \/ SendExtra => UNCHANGED tasks
    BY DEF StartThread, Refuse, SendExtra
  <1>6. Still \/ Gone => TasksApart'
    BY DEF Still, Gone, PipesGone, TasksApart
  <1>7. UNCHANGED tasks => TasksApart'
    BY DEF TasksApart
  <1> QED
    BY <1>1, <1>2, <1>3, <1>4, <1>5, <1>6, <1>7, StreamSteps, StillIsStill, GoneIsGone DEF Moves

-----------------------------------------------------------------------------
(* Questions are answered. *)

\* The question of the request id, or its answer, is in a pipe.
Asked(id) == \/ \E i \in DOMAIN toClient : toClient[i].kind = "ask" /\ toClient[i].id = id
             \/ \E i \in DOMAIN toServer : toServer[i].kind = "answer" /\ toServer[i].id = id

\* Appending keeps what a queue holds.
LEMMA AppendKeeps ==
    ASSUME NEW S, NEW s \in Seq(S), NEW e
    PROVE  /\ \A i \in DOMAIN s : i \in DOMAIN Append(s, e) /\ Append(s, e)[i] = s[i]
           /\ Len(s) + 1 \in DOMAIN Append(s, e) /\ Append(s, e)[Len(s) + 1] = e
           /\ \A i \in DOMAIN Append(s, e) : i \in DOMAIN s \/ i = Len(s) + 1
           /\ \A i \in DOMAIN s : i \in Nat \ {0} /\ i < Len(s) + 1
  <1>1. s \in Seq(S \cup {e})
    BY SeqWiden
  <1> QED
    BY <1>1, AppendFacts

\* Where something is only added, and where what is read or taken is something else.
LEMMA AskedLong ==
    ASSUME StreamTypeOK,
           \/ toClient' = toClient
           \/ \E m : toClient' = Append(toClient, m)
           \/ \E k \in Caller : Read(k) /\ Received.kind # "ask",
           \/ toServer' = toServer
           \/ \E m : toServer' = Append(toServer, m)
           \/ \E kind : Takes(kind) /\ kind # "answer"
    PROVE  \A id : Asked(id) => Asked(id)'
  <1>1. ASSUME NEW i \in DOMAIN toClient, toClient[i].kind = "ask"
        PROVE  \E j \in DOMAIN toClient' : toClient'[j] = toClient[i]
    <2>1. CASE \E m : toClient' = Append(toClient, m)
      BY <1>1, <2>1, AppendKeeps, StreamTypeParts DEF StreamTyped
    <2>2. CASE \E k \in Caller : Read(k) /\ Received.kind # "ask"
      BY <1>1, <2>2, ReadFacts, StreamTypeParts DEF StreamTyped
    <2> QED
      BY <2>1, <2>2
  <1>2. ASSUME NEW i \in DOMAIN toServer, toServer[i].kind = "answer"
        PROVE  \E j \in DOMAIN toServer' : toServer'[j] = toServer[i]
    <2>1. ASSUME NEW m, toServer' = Append(toServer, m)
          PROVE  \E j \in DOMAIN toServer' : toServer'[j] = toServer[i]
      <3>1. toServer \in Seq(ServerMessages(nextID))
        BY StreamTypeParts DEF StreamTyped
      <3> QED
        BY <1>2, <2>1, <3>1, AppendKeeps
    <2>2. CASE \E kind : Takes(kind) /\ kind # "answer"
      BY <1>2, <2>2, TakeFacts, StreamTypeParts DEF StreamTyped
    <2> QED
      BY <2>1, <2>2
  <1> QED
    BY <1>1, <1>2 DEF Asked

LEMMA AskStep ==
    ASSUME Inv, StreamTypeOK, TasksApart, AskIsUnderway, [StreamNext]_allVars
    PROVE  AskIsUnderway'
  <1> USE DEF Asked
  <1>0. \A t \in tasks : t.asking => Asked(t.id)
    BY DEF AskIsUnderway
  <1> SUFFICES ASSUME NEW t \in tasks', t.asking PROVE Asked(t.id)'
    BY DEF AskIsUnderway
  <1> HIDE DEF Asked
  <1>1. CASE Still \/ Gone
    BY <1>0, <1>1 DEF Still, Gone, PipesGone, Asked
  <1>2. ASSUME NEW k \in Caller, SendFirst(k) PROVE Asked(t.id)'
    <2>1. \A id : Asked(id) => Asked(id)'
      BY <1>2, AskedLong DEF SendFirst, Send
    <2> QED
      BY <1>0, <1>2, <2>1 DEF SendFirst
  <1>3. ASSUME NEW k \in Caller, ReadAsk(k) PROVE Asked(t.id)'
    <2>1. /\ Received = toClient[1]
          /\ \A i \in DOMAIN toClient :
                i = 1 \/ (i - 1 \in DOMAIN toClient' /\ toClient'[i - 1] = toClient[i])
      BY <1>3, ReadFacts, StreamTypeParts DEF ReadAsk, StreamTyped
    <2>2. PICK m : toServer' = Append(toServer, m) /\ m = Request("answer", Received.id, k)
      BY <1>3 DEF ReadAsk
    <2>3. m.kind = "answer" /\ m.id = Received.id
      BY <2>2 DEF Request
    <2>4. /\ \A i \in DOMAIN toServer : i \in DOMAIN toServer' /\ toServer'[i] = toServer[i]
          /\ \E i \in DOMAIN toServer' : toServer'[i] = m
      BY <2>2, AppendKeeps, StreamTypeParts DEF StreamTyped
    <2>5. Asked(t.id)
      BY <1>0, <1>3 DEF ReadAsk
    <2> QED
      BY <2>1, <2>3, <2>4, <2>5 DEF Asked
  <1>4. ASSUME NEW k \in Caller,
               \/ ReadNotification(k) \/ SkipResponse(k)
               \/ ReadThread(k) \/ ReadTurn(k) \/ ReadCompleted(k)
        PROVE  Asked(t.id)'
    <2>1. Read(k) /\ Received.kind # "ask" /\ UNCHANGED tasks
      BY <1>4 DEF ReadNotification, SkipResponse, ReadThread, ReadTurn, ReadCompleted, IsResponse
    <2>2. toServer' = toServer \/ \E m : toServer' = Append(toServer, m)
      BY <1>4 DEF ReadNotification, SkipResponse, ReadThread, Send, ReadTurn, ReadCompleted
    <2>3. \A id : Asked(id) => Asked(id)'
      BY <2>1, <2>2, AskedLong
    <2> QED
      BY <1>0, <2>1, <2>3
  <1>5. ASSUME NEW k \in Caller, LoopEnds(k) PROVE Asked(t.id)'
    BY <1>0, <1>5 DEF LoopEnds, streamVars, Asked
  <1>6. CASE StartThread \/ TakeUp \/ Refuse \/ SendExtra
    <2>1. t \in tasks
      BY <1>6 DEF StartThread, TakeUp, Refuse, SendExtra, NewTask
    <2>2. toServer' = toServer \/ \E kind : Takes(kind) /\ kind # "answer"
      BY <1>6 DEF StartThread, TakeUp, Refuse, SendExtra
    <2>3. toClient' = toClient \/ \E m : toClient' = Append(toClient, m)
      BY <1>6 DEF StartThread, TakeUp, Refuse, Sends, SendExtra
    <2>4. \A id : Asked(id) => Asked(id)'
      BY <2>2, <2>3, AskedLong
    <2> QED
      BY <1>0, <2>1, <2>4
  <1>7. CASE TakeAnswer
    <2>1. PICK s \in tasks : s.id = Incoming.id /\ Goes(s, [s EXCEPT !.asking = FALSE])
      BY <1>7 DEF TakeAnswer
    <2>2. t \in tasks /\ t.id # Incoming.id
      <3> DEFINE u == [s EXCEPT !.asking = FALSE]
      <3>1. u.id = s.id /\ ~u.asking /\ Goes(s, u)
        BY <2>1, TaskAfter
      <3> HIDE DEF u
      <3>2. t \in tasks \ {s}
        BY <3>1, GoesFacts
      <3> QED
        BY <2>1, <3>2 DEF TasksApart
    <2>3. Asked(t.id)
      BY <1>0, <2>2
    <2>4. /\ Incoming = toServer[1]
          /\ \A i \in DOMAIN toServer :
                i = 1 \/ (i - 1 \in DOMAIN toServer' /\ toServer'[i - 1] = toServer[i])
      BY <1>7, TakeFacts, StreamTypeParts DEF TakeAnswer, StreamTyped
    <2>5. toClient' = toClient
      BY <1>7 DEF TakeAnswer
    <2> QED
      BY <2>2, <2>3, <2>4, <2>5 DEF Asked
  <1>8. ASSUME NEW s \in tasks, Respond(s) \/ Notify(s) \/ Ask(s) \/ Complete(s)
        PROVE  Asked(t.id)'
    <2>1. PICK kind, names : toClient' = Append(toClient, Message(kind, s.id, names))
      BY <1>8, WorkFacts
    <2>2. toServer' = toServer
      BY <1>8, WorkFacts
    <2>3. \A id : Asked(id) => Asked(id)'
      BY <2>1, <2>2, AskedLong
    <2>4. CASE Respond(s)
      <3> DEFINE u == [s EXCEPT !.answered = TRUE]
      <3>1. u.id = s.id /\ u.asking = s.asking /\ Goes(s, u)
        BY <2>4, TaskAfter DEF Respond
      <3> HIDE DEF u
      <3>2. t \in tasks \/ (t.id = s.id /\ s.asking)
        BY <3>1, GoesFacts
      <3> QED
        BY <1>0, <2>3, <3>2
    <2>5. CASE Notify(s)
      BY <1>0, <2>3, <2>5 DEF Notify
    <2>6. CASE Complete(s)
      <3> DEFINE u == [s EXCEPT !.done = TRUE]
      <3>1. u.id = s.id /\ u.asking = s.asking /\ Goes(s, u)
        BY <2>6, TaskAfter DEF Complete
      <3> HIDE DEF u
      <3>2. t \in tasks \/ (t.id = s.id /\ s.asking)
        BY <3>1, GoesFacts
      <3> QED
        BY <1>0, <2>3, <3>2
    <2>7. CASE Ask(s)
      <3> DEFINE u == [s EXCEPT !.asking = TRUE]
      <3>1. u.id = s.id /\ Goes(s, u)
        BY <2>7, TaskAfter DEF Ask
      <3>2. t \in tasks \/ t.id = s.id
        BY <3>1, GoesFacts
      <3>3. Asked(s.id)'
        <4> DEFINE m == Message("ask", s.id, NoThread)
        <4>1. toClient' = Append(toClient, m) /\ m.kind = "ask" /\ m.id = s.id
          BY <2>7 DEF Ask, Sends, Message
        <4> HIDE DEF m
        <4>2. \E i \in DOMAIN toClient' : toClient'[i] = m
          BY <4>1, AppendKeeps, StreamTypeParts DEF StreamTyped
        <4> QED
          BY <4>1, <4>2 DEF Asked
      <3> QED
        BY <1>0, <2>3, <3>2, <3>3
    <2> QED
      BY <1>8, <2>4, <2>5, <2>6, <2>7
  <1> QED
    BY <1>1, <1>2, <1>3, <1>4, <1>5, <1>6, <1>7, <1>8, StreamSteps, StillIsStill, GoneIsGone
      DEF Moves

-----------------------------------------------------------------------------
(* How often a prompt is executed. *)

\* A step that neither the callers see nor the counts.
Unseen == /\ UNCHANGED <<vars, nextID, executed>>
          /\ Pending' => Pending
          /\ \A i \in DOMAIN toClient' :
                toClient'[i].kind = "refusal" =>
                    Pending \/ \E j \in DOMAIN toClient : toClient[j] = toClient'[i]

LEMMA TakesPending ==
    ASSUME StreamTypeOK, Requests, NEW kind, Takes(kind)
    PROVE  /\ Pending' => Pending
           /\ kind = "turn" => Pending /\ ~Pending'
           /\ Incoming.who \in Caller
           /\ kind # "answer" => /\ step[Incoming.who] = kind
                                 /\ \A i \in DOMAIN toClient : toClient[i].id # nextID - 1
  <1>1. /\ 1 \in DOMAIN toServer /\ Incoming = toServer[1] /\ Incoming.kind = kind
        /\ \A i \in DOMAIN toServer' : i \in Nat \ {0} /\ i + 1 \in DOMAIN toServer
                                     /\ toServer'[i] = toServer[i + 1]
    BY TakeFacts, StreamTypeParts DEF StreamTyped
  <1>2. Pending' => Pending
    BY <1>1 DEF Pending
  <1>3. ASSUME kind = "turn", Pending' PROVE FALSE
    <2>1. PICK i \in DOMAIN toServer' : toServer'[i].kind = "turn"
      BY <1>3 DEF Pending
    <2>2. i + 1 \in DOMAIN toServer /\ toServer[i + 1].kind = "turn" /\ i + 1 # 1
      BY <1>1, <2>1
    <2> QED
      BY <1>1, <1>3, <2>2 DEF Requests
  <1> QED
    BY <1>1, <1>2, <1>3, MessageTyped DEF Pending, Requests

UnseenStep == \/ \E k \in Caller : ReadAsk(k) \/ ReadNotification(k) \/ SkipResponse(k)
              \/ StartThread \/ Refuse \/ TakeAnswer \/ SendExtra
              \/ \E t \in tasks : Respond(t) \/ Notify(t) \/ Ask(t) \/ Complete(t)

LEMMA UnseenIsUnseen ==
    ASSUME StreamTypeOK, Requests, TasksApart, UnseenStep
    PROVE  Unseen
  <1>0. toClient \in Seq(ClientMessages(nextID)) /\ toServer \in Seq(ServerMessages(nextID))
    BY StreamTypeParts DEF StreamTyped
  <1>1. ASSUME NEW m, toClient' = Append(toClient, m), m.kind # "refusal" \/ Pending
        PROVE  \A i \in DOMAIN toClient' :
                  toClient'[i].kind = "refusal" =>
                    Pending \/ \E j \in DOMAIN toClient : toClient[j] = toClient'[i]
    <2>1. /\ toClient'[Len(toClient) + 1] = m
          /\ \A i \in DOMAIN toClient : toClient'[i] = toClient[i]
          /\ \A i \in DOMAIN toClient' : i \in DOMAIN toClient \/ i = Len(toClient) + 1
      BY <1>0, <1>1, AppendKeeps
    <2> QED
      BY <1>1, <2>1
  <1>2. ASSUME NEW k \in Caller, ReadAsk(k) \/ ReadNotification(k) \/ SkipResponse(k)
        PROVE  Unseen
    <2>1. UNCHANGED <<vars, nextID, executed>> /\ Read(k)
      BY <1>2 DEF ReadAsk, ReadNotification, SkipResponse
    <2>2. \A i \in DOMAIN toClient' : i + 1 \in DOMAIN toClient /\ toClient'[i] = toClient[i + 1]
      BY <1>0, <2>1, ReadFacts
    <2>3. Pending' => Pending
      <3>1. CASE ReadAsk(k)
        <4> DEFINE m == Request("answer", Received.id, k)
        <4>1. toServer' = Append(toServer, m) /\ m.kind = "answer"
          BY <3>1 DEF ReadAsk, Request
        <4> HIDE DEF m
        <4> QED
          BY <1>0, <4>1, AppendKeeps DEF Pending
      <3>2. CASE toServer' = toServer
        BY <3>2 DEF Pending
      <3> QED
        BY <1>2, <3>1, <3>2 DEF ReadNotification, SkipResponse
    <2> QED
      BY <2>1, <2>2, <2>3 DEF Unseen
  <1>3. CASE StartThread
    <2> DEFINE m == Message("response", Incoming.id, NoThread)
    <2>1. toClient' = Append(toClient, m) /\ m.kind = "response" /\ Takes("thread")
      BY <1>3 DEF StartThread, Sends, Message
    <2> HIDE DEF m
    <2>2. Pending' => Pending
      BY <2>1, TakesPending
    <2> QED
      BY <1>1, <1>3, <2>1, <2>2 DEF Unseen, StartThread
  <1>4. CASE Refuse
    <2>1. Takes("turn") /\ \E m : toClient' = Append(toClient, m)
      BY <1>4 DEF Refuse, Sends
    <2>2. Pending /\ ~Pending'
      BY <2>1, TakesPending
    <2> QED
      BY <1>4, <2>2 DEF Unseen, Refuse
  <1>5. CASE TakeAnswer
    <2>1. Takes("answer") /\ UNCHANGED <<vars, nextID, executed, toClient>>
      BY <1>5 DEF TakeAnswer
    <2>2. Pending' => Pending
      BY <2>1, TakesPending
    <2> QED
      BY <2>1, <2>2 DEF Unseen
  <1>6. CASE SendExtra
    <2>1. PICK m \in ExtraMessages(nextID - 1) : toClient' = Append(toClient, m)
      BY <1>6 DEF SendExtra
    <2>2. m.kind # "refusal"
      BY <2>1 DEF ExtraMessages, Message
    <2>3. UNCHANGED <<vars, nextID, executed, toServer>>
      BY <1>6 DEF SendExtra
    <2> QED
      BY <1>1, <2>1, <2>2, <2>3 DEF Unseen, Pending
  <1>7. ASSUME NEW t \in tasks, Respond(t) \/ Notify(t) \/ Ask(t) \/ Complete(t)
        PROVE  Unseen
    <2>1. PICK kind \in {"response", "note", "ask", "done"} :
             \E names : toClient' = Append(toClient, Message(kind, t.id, names))
      BY <1>7 DEF Respond, Notify, Ask, Complete, Sends
    <2>2. \A names : Message(kind, t.id, names).kind # "refusal"
      BY <2>1 DEF Message
    <2>3. UNCHANGED <<vars, nextID, executed, toServer>>
      BY <1>7, WorkFacts
    <2> QED
      BY <1>1, <2>1, <2>2, <2>3 DEF Unseen, Pending
  <1> QED
    BY <1>2, <1>3, <1>4, <1>5, <1>6, <1>7 DEF UnseenStep

\* Whose prompt is taken up.
LEMMA TakeUpFacts ==
    ASSUME Inv, StreamTypeOK, Requests, TakeUp
    PROVE  \E k \in Caller :
             /\ step[k] = "turn" /\ Pending /\ ~Pending'
             /\ op[k].thread.home = session /\ session # 0
             /\ executed' = [executed EXCEPT ![k] = @ + 1]
             /\ UNCHANGED <<vars, toClient, nextID>>
             /\ \A i \in DOMAIN toClient : toClient[i].id # nextID - 1
             /\ k # Main
             /\ k \in Channel => at[k] \in TurnPlaces
             /\ \A j \in Caller \ {k} : step[j] \notin Busy
  <1> DEFINE k == Incoming.who
  <1>1. /\ k \in Caller /\ step[k] = "turn" /\ Pending /\ ~Pending'
        /\ \A i \in DOMAIN toClient : toClient[i].id # nextID - 1
    BY TakesPending DEF TakeUp
  <1>2. /\ Served(op[k])
        /\ executed' = [executed EXCEPT ![k] = @ + 1]
        /\ UNCHANGED <<vars, toClient, nextID>>
    BY DEF TakeUp
  <1> HIDE DEF k
  <1>3. op[k].thread.home = session /\ session # 0
    BY <1>2 DEF Served, Reachable
  <1>4. \A j \in Caller \ {k} : step[j] \notin Busy
    BY <1>1, OneWaits DEF Busy
  <1>5. op[k].kind \in {"startTurn", "steerTurn", "runTurn"}
    BY <1>1 DEF Inv, Working
  <1>6. k # Main
    BY <1>1, <1>5 DEF Inv, Calls
  <1>7. k \in Channel => at[k] \in TurnPlaces
    BY <1>1, <1>5 DEF Inv, Calls, KindAt, TypeOK, Places, TurnPlaces
  <1> QED
    BY <1>1, <1>2, <1>3, <1>4, <1>6, <1>7

\* The client's steps in the operation of k that the counts see.
OperationStep(k) ==
    \/ (Acquire(k) \/ FindExpired(k) \/ CannotStart(k)) /\ UNCHANGED streamVars
    \/ SendFirst(k) \/ ReadThread(k) \/ ReadTurn(k) \/ ReadCompleted(k) \/ LoopEnds(k)
    \/ ReadRefusal(k) \/ ReadFaulty(k) \/ ReadEOF(k) \/ CloseStream(k)

LEMMA OperationSteps ==
    ASSUME Inv, StreamTypeOK, Silent, NEW k \in Caller, OperationStep(k)
    PROVE  /\ Operation(k)
           /\ executed' = executed
           /\ ReadTurn(k) => ~Pending' \/ ~Requests
  <1>1. Operation(k)
    BY DEF OperationStep, SendFirst, ReadThread, ReadTurn, ReadCompleted, LoopEnds, EndTurn, ReadRefusal,
       ReadFaulty, ReadEOF, CloseStream, Operation
  <1>2. executed' = executed
    BY DEF OperationStep, SendFirst, ReadThread, ReadTurn, ReadCompleted, LoopEnds, ReadRefusal,
       ReadFaulty, ReadEOF, CloseStream, PipesGone, streamVars
  <1>3. ASSUME ReadTurn(k), Requests PROVE ~Pending'
    <2>1. Read(k) /\ Received.id = nextID - 1 /\ toServer' = toServer
      BY <1>3 DEF ReadTurn, Matches
    <2>2. \E i \in DOMAIN toClient : toClient[i].id = nextID - 1
      BY <2>1, ReadFacts, StreamTypeParts DEF StreamTyped
    <2>3. Unasked
      BY <1>3, <2>2, WhenUnasked
    <2> QED
      BY <2>1, <2>3 DEF Unasked, Pending
  <1> QED
    BY <1>1, <1>2, <1>3

\* A channel that has no step, or whose step is unseen, while someone else's is not.
LEMMA ExecFrame ==
    ASSUME Inv, StreamTypeOK, Exec, NEW k \in Caller, Operation(k), UNCHANGED at,
           executed' = executed
    PROVE  /\ \A c \in Channel \ {k} : ChannelExec(c)'
           /\ k # Heartbeat => HeartbeatExec'
           /\ executed'[Main] = 0
  <1>1. \A j \in Caller \ {k} : /\ op'[j] = op[j] /\ step'[j] = step[j] /\ attempt'[j] = attempt[j]
                                /\ step[j] \notin Busy
    BY OperationFrame, OperationAlone DEF Inv, TypeOK
  <1>2. \A c \in Channel \ {k} : Dead(op[c].thread) => Dead(op[c].thread)'
    <2>1. ClientTypeOK /\ session <= started
      BY DEF Inv, TypeOK, Owned
    <2>2. \A c \in Channel : op[c].thread \in Thread \cup {NoThread}
      BY ChannelTyped DEF Inv
    <2>3. \A t \in Thread \cup {NoThread} : Dead(t) => t.home \in 1..started' /\ t.home # session'
      BY <2>1, DeadStays
    <2> QED
      BY <1>1, <2>2, <2>3, CallersAre DEF Dead
  <1>3. \A c \in Channel \ {k} : ChannelExec(c)'
    BY <1>1, <1>2, CallersAre DEF Exec, ChannelExec, Underway, Busy
  <1>4. k # Heartbeat => HeartbeatExec'
    BY <1>1, CallersAre DEF Exec, HeartbeatExec, Busy
  <1> QED
    BY <1>3, <1>4 DEF Exec

LEMMA ChannelExecOperation ==
    ASSUME Inv, StreamTypeOK, Silent, Requests, Exec, NEW c \in Channel, OperationStep(c), UNCHANGED at
    PROVE  ChannelExec(c)'
  <1> USE CallersAre
  <1>1. /\ Operation(c) /\ executed' = executed
        /\ ReadTurn(c) => ~Pending'
    BY OperationSteps
  <1>2. TypeOK /\ ClientTypeOK /\ Calls /\ Working /\ session <= started /\ ChannelExec(c)
    BY DEF Inv, TypeOK, Owned, Exec
  <1>3. CASE at[c] = "idle"
    BY <1>1, <1>2, <1>3, OperationFrame DEF Calls
  <1>4. CASE at[c] = "newThread"
    BY <1>1, <1>2, <1>4 DEF ChannelExec, TurnPlaces
  <1>5. CASE at[c] \in TurnPlaces
    <2>1. op[c].kind \in {"startTurn", "steerTurn"} /\ at[c] \notin {"idle", "newThread"}
      BY <1>2, <1>5 DEF Calls, KindAt, TurnPlaces
    <2>2. /\ executed[c] <= Before(at[c]) + 1
          /\ \/ Underway(c) \/ step[c] = "ok" \/ Dead(op[c].thread)
             \/ executed[c] <= Before(at[c])
      BY <1>2, <1>5 DEF ChannelExec
    <2>3. \A t \in Thread \cup {NoThread} : Dead(t) => t.home \in 1..started' /\ t.home # session'
      BY <1>1, <1>2, DeadStays
    <2>4. op[c].thread \in Thread \cup {NoThread}
      BY <1>2, ChannelTyped
    <2> SUFFICES \/ Underway(c)' \/ step'[c] = "ok" \/ Dead(op[c].thread)'
                 \/ executed[c] <= Before(at[c])
      BY <1>1, <2>1, <2>2 DEF ChannelExec
    <2>5. CASE Acquire(c) \/ FindExpired(c) \/ EnsureSession(c) \/ CannotStart(c)
      <3>1. step[c] \in {"lock", "try"} /\ op' = op
        BY <2>5 DEF Acquire, FindExpired, EnsureSession, CannotStart
      <3> QED
        BY <2>2, <2>3, <2>4, <3>1 DEF Underway, Dead
    <2>6. CASE ReadTurn(c)
      <3>1. TurnAccepted(c) /\ ~Pending'
        BY <1>1, <2>6 DEF ReadTurn
      <3>2. step'[c] = "stream" /\ op' = op /\ session' = session /\ op[c].thread.home = session
        BY <1>2, <3>1 DEF TurnAccepted, Served, Reachable, ClientTypeOK
      <3> QED
        BY <3>1, <3>2 DEF Underway
    <2>7. CASE TurnRefused(c) \/ RequestFaults(c) \/ FindDead(c)
      <3>1. /\ step[c] \in {"turn", "stream"}
            /\ op'[c] = op[c] /\ session' = 0 /\ started' = started
        BY <1>2, <2>1, <2>7, FailLeads DEF TurnRefused, RequestFaults, FindDead, Working
      <3>2. CASE Underway(c)
        <4>1. op[c].thread.home = session /\ session # 0 /\ session \in Nat
          BY <1>2, <3>1, <3>2 DEF Underway, Silent, Waits, ClientTypeOK
        <4> QED
          BY <1>2, <3>1, <4>1 DEF Dead, ClientTypeOK
      <3>3. CASE Dead(op[c].thread)
        BY <2>3, <2>4, <3>1, <3>3 DEF Dead
      <3> QED
        BY <2>2, <3>1, <3>2, <3>3
    <2>8. CASE TurnCompleted(c)
      BY <1>2, <2>8 DEF TurnCompleted, Return, ClientTypeOK
    <2>9. ~ThreadStarted(c) /\ ~Close(c)
      BY <1>2, <2>1 DEF ThreadStarted, Close, Working
    <2> QED
      BY <2>5, <2>6, <2>7, <2>8, <2>9 DEF OperationStep, SendFirst, ReadThread, ReadCompleted,
         LoopEnds, EndTurn, ReadRefusal, ReadFaulty, ReadEOF, CloseStream
  <1> QED
    BY <1>2, <1>3, <1>4, <1>5 DEF TypeOK, Places, TurnPlaces

LEMMA HeartbeatExecOperation ==
    ASSUME Inv, StreamTypeOK, Silent, Requests, Exec, OperationStep(Heartbeat)
    PROVE  HeartbeatExec'
  <1> USE CallersAre
  <1>1. /\ Operation(Heartbeat) /\ executed' = executed
        /\ ReadTurn(Heartbeat) => ~Pending'
    BY OperationSteps
  <1>2. TypeOK /\ ClientTypeOK /\ Calls /\ Working /\ HeartbeatExec
    BY DEF Inv, TypeOK, Exec
  <1>3. op[Heartbeat].kind = "runTurn"
    BY <1>1, <1>2, OperationFrame DEF Calls
  <1>4. executed[Heartbeat] \in Nat /\ attempt[Heartbeat] \in 0..2
    BY <1>2, StreamTypeParts DEF StreamTyped, ClientTypeOK
  <1>5. CASE \/ Acquire(Heartbeat) \/ FindExpired(Heartbeat) \/ CannotStart(Heartbeat)
             \/ EnsureSession(Heartbeat)
    BY <1>1, <1>2, <1>3, <1>4, <1>5 DEF Acquire, FindExpired, CannotStart, Return, EnsureSession,
       FirstRequest, HeartbeatExec, ClientTypeOK
  <1>6. CASE ThreadStarted(Heartbeat)
    BY <1>1, <1>2, <1>3, <1>4, <1>6 DEF ThreadStarted, HeartbeatExec, ClientTypeOK
  <1>7. CASE TurnAccepted(Heartbeat) \/ TurnCompleted(Heartbeat)
    BY <1>1, <1>2, <1>4, <1>7 DEF TurnAccepted, TurnCompleted, Return, HeartbeatExec, ClientTypeOK
  <1>8. CASE TurnRefused(Heartbeat) \/ RequestFaults(Heartbeat) \/ FindDead(Heartbeat)
    <2>1. /\ executed[Heartbeat] <= attempt[Heartbeat]
          /\ \/ step'[Heartbeat] = "try" /\ attempt'[Heartbeat] = attempt[Heartbeat] + 1
             \/ step'[Heartbeat] = "failed"
      BY <1>2, <1>4, <1>8, FailLeads DEF TurnRefused, RequestFaults, FindDead, HeartbeatExec
    <2> QED
      BY <1>1, <1>2, <1>4, <2>1 DEF HeartbeatExec
  <1>9. ~Close(Heartbeat)
    BY <1>3 DEF Close
  <1> QED
    BY <1>1, <1>5, <1>6, <1>7, <1>8, <1>9 DEF Operation

\* Between two operations a prompt's count stays, or starts anew.
LEMMA ExecBetween ==
    ASSUME Inv, StreamTypeOK, Exec,
           (CallerGoesOn /\ UNCHANGED streamVars) \/ \E k \in Caller : CallerIsDone(k)
    PROVE  Exec'
  <1> USE CallersAre DEF TypeOK, ClientTypeOK, Exec
  <1>0. /\ TypeOK /\ Calls /\ executed \in [Caller -> Nat]
        /\ (Pending' <=> Pending)
    BY StreamTypeParts DEF Inv, StreamTyped, streamVars, CallerIsDone, Pending
  <1>1. ASSUME NEW c \in Channel,
               \/ RunMessageTurn(c) \/ TurnDone(c) \/ SteerFailed(c)
               \/ StartFailed(c) \/ NewThreadMade(c) \/ TurnFailed(c),
               executed' = IF TurnDone(c) \/ TurnFailed(c) THEN [executed EXCEPT ![c] = 0] ELSE executed
        PROVE  Exec'
    <2>1. /\ Between(c)
          /\ \A d \in Channel \ {c} : at'[d] = at[d]
          /\ \A k \in Caller \ {c} : executed'[k] = executed[k]
      BY <1>0, <1>1, CallersBetween DEF RunMessageTurn, TurnDone, SteerFailed, StartFailed,
           NewThreadMade, TurnFailed, TurnOver
    <2>2. \A d \in Channel \ {c} : ChannelExec(d)'
      BY <1>0, <2>1 DEF Between, ChannelExec, Dead, Underway
    <2>3. HeartbeatExec' /\ executed'[Main] = 0
      BY <1>0, <2>1 DEF Between, HeartbeatExec
    <2>4. executed[c] \in Nat /\ ChannelExec(c) /\ ~Underway(c)
      BY <1>0, <2>1 DEF Between, Underway
    <2> SUFFICES ChannelExec(c)'
      BY <2>2, <2>3
    <2>5. CASE TurnDone(c) \/ TurnFailed(c)
      BY <1>0, <1>1, <2>5 DEF TurnDone, TurnFailed, TurnOver, ChannelExec, TurnPlaces
    <2>6. CASE executed' = executed /\ RunMessageTurn(c)
      BY <1>0, <2>4, <2>6 DEF RunMessageTurn, ChannelExec, Before
    <2>7. CASE executed' = executed /\ SteerFailed(c)
      <3>1. op'[c].thread = op[c].thread /\ at'[c] = "steerFallback"
        BY <1>0, <2>7 DEF SteerFailed, Invoke
      <3>2. (Dead(op[c].thread) \/ executed[c] <= 0) /\ executed[c] <= 1
        BY <2>4, <2>7 DEF SteerFailed, ChannelExec, TurnPlaces, Before
      <3>3. Dead(op[c].thread) => Dead(op[c].thread)'
        BY <3>1, <2>1 DEF Between, Dead
      <3> QED
        BY <2>7, <3>1, <3>2, <3>3 DEF ChannelExec, Before
    <2>8. CASE executed' = executed /\ StartFailed(c)
      BY <1>0, <2>4, <2>8 DEF StartFailed, ChannelExec, TurnPlaces, Before
    <2>9. CASE executed' = executed /\ NewThreadMade(c)
      BY <1>0, <2>4, <2>9 DEF NewThreadMade, ChannelExec, Before
    <2> QED
      BY <1>1, <2>5, <2>6, <2>7, <2>8, <2>9
  <1>2. CASE HeartbeatTick /\ executed' = executed
    <2>1. /\ step[Heartbeat] = "idle" /\ step'[Heartbeat] = "lock"
          /\ \A k \in Caller \ {Heartbeat} : op'[k] = op[k] /\ step'[k] = step[k]
          /\ UNCHANGED <<at, session, started, attempt>>
      BY <1>0, <1>2 DEF HeartbeatTick, Invoke, Calling
    <2>2. \A c \in Channel : ChannelExec(c)'
      BY <1>0, <1>2, <2>1 DEF ChannelExec, Dead, Underway
    <2> QED
      BY <1>2, <2>1, <2>2 DEF HeartbeatExec
  <1>3. CASE HeartbeatDone /\ executed' = [executed EXCEPT ![Heartbeat] = 0]
    <2>1. /\ step'[Heartbeat] = "idle"
          /\ \A k \in Caller \ {Heartbeat} : op'[k] = op[k] /\ step'[k] = step[k]
          /\ UNCHANGED <<at, session, started, attempt>>
      BY <1>0, <1>3 DEF HeartbeatDone, Calling
    <2>2. \A c \in Channel : ChannelExec(c)'
      BY <1>0, <1>3, <2>1 DEF ChannelExec, Dead, Underway
    <2> QED
      BY <1>0, <1>3, <2>1, <2>2 DEF HeartbeatExec
  <1>4. CASE (Shutdown \/ Finished \/ \E c \in Channel : ResetSession(c)) /\ executed' = executed
    <2>1. /\ \A k \in Caller \ {Main} : op'[k] = op[k] /\ step'[k] = step[k]
          /\ UNCHANGED <<at, session, started, attempt>>
      BY <1>0, <1>4 DEF Shutdown, Invoke, Finished, vars, ResetSession, Calling
    <2>2. \A c \in Channel : ChannelExec(c)'
      BY <1>0, <1>4, <2>1 DEF ChannelExec, Dead, Underway
    <2> QED
      BY <1>0, <1>4, <2>1, <2>2 DEF HeartbeatExec
  <1>5. CASE CallerGoesOn /\ UNCHANGED streamVars
    <2>1. executed' = executed
      BY <1>5 DEF streamVars
    <2>2. ASSUME NEW c \in Channel, RunMessageTurn(c) \/ SteerFailed(c) \/ StartFailed(c)
                                     \/ NewThreadMade(c)
          PROVE  ~TurnDone(c) /\ ~TurnFailed(c)
      <3>1. at'[c] # "idle"
        BY <1>0, <2>2 DEF RunMessageTurn, SteerFailed, StartFailed, NewThreadMade
      <3> QED
        BY <1>0, <3>1 DEF TurnDone, TurnFailed, TurnOver
    <2> QED
      BY <1>1, <1>2, <1>4, <1>5, <2>1, <2>2 DEF CallerGoesOn
  <1>6. ASSUME NEW k \in Caller, CallerIsDone(k) PROVE Exec'
    BY <1>1, <1>3, <1>6 DEF CallerIsDone
  <1> QED
    BY <1>5, <1>6

\* Every step once more, as the counts see it.
LEMMA StreamCases ==
    ASSUME StreamTypeOK, Requests, TasksApart, [StreamNext]_allVars
    PROVE  \/ (CallerGoesOn /\ UNCHANGED streamVars) \/ \E k \in Caller : CallerIsDone(k)
           \/ UNCHANGED at /\ \E k \in Caller : OperationStep(k)
           \/ Unseen \/ TakeUp \/ UNCHANGED allVars
           \/ ServerCrash /\ UNCHANGED at
  <1>1. UnseenStep => Unseen
    BY UnseenIsUnseen
  <1>2. \A k \in Caller : (Acquire(k) /\ UNCHANGED streamVars) \/ ClientWorks(k) \/ ClientReads(k)
                            \/ CloseStream(k)
                         => OperationStep(k) \/ UnseenStep
    BY DEF ClientWorks, ClientReads, OperationStep, UnseenStep
  <1>3. ServerGoesOn \/ SendExtra => TakeUp \/ UnseenStep
    BY DEF ServerGoesOn, Work, UnseenStep
  <1> QED
    BY <1>1, <1>2, <1>3 DEF StreamNext

LEMMA ExecStep ==
    ASSUME Inv, StreamTypeOK, Silent, Requests, TasksApart, Exec, [StreamNext]_allVars
    PROVE  Exec'
  <1> USE CallersAre
  <1>0. /\ executed \in [Caller -> Nat] /\ TypeOK
        /\ \A k \in Caller : attempt[k] \in 0..2
    BY StreamTypeParts DEF StreamTyped, Inv, TypeOK, ClientTypeOK
  <1>1. CASE (CallerGoesOn /\ UNCHANGED streamVars) \/ \E k \in Caller : CallerIsDone(k)
    BY <1>1, ExecBetween
  <1>2. ASSUME NEW k \in Caller, OperationStep(k), UNCHANGED at PROVE Exec'
    <2>1. Operation(k) /\ executed' = executed
      BY <1>2, OperationSteps
    <2>2. /\ \A c \in Channel \ {k} : ChannelExec(c)'
          /\ k # Heartbeat => HeartbeatExec'
          /\ executed'[Main] = 0
      BY <1>2, <2>1, ExecFrame
    <2>3. k \in Channel => ChannelExec(k)'
      BY <1>2, ChannelExecOperation
    <2>4. k = Heartbeat => HeartbeatExec'
      BY <1>2, HeartbeatExecOperation
    <2> QED
      BY <2>2, <2>3, <2>4 DEF Exec
  <1>3. CASE Unseen
    BY <1>3 DEF Unseen, vars, Exec, ChannelExec, HeartbeatExec, Underway, Dead
  <1>4. CASE TakeUp
    <2>1. PICK k \in Caller :
             /\ step[k] = "turn" /\ Pending /\ ~Pending'
             /\ op[k].thread.home = session /\ session # 0
             /\ executed' = [executed EXCEPT ![k] = @ + 1]
             /\ UNCHANGED <<vars, toClient, nextID>>
             /\ k # Main
             /\ k \in Channel => at[k] \in TurnPlaces
             /\ \A j \in Caller \ {k} : step[j] \notin Busy
      BY <1>4, TakeUpFacts
    <2>2. \A j \in Caller \ {k} : executed'[j] = executed[j]
      BY <1>0, <2>1
    <2>3. executed'[k] = executed[k] + 1 /\ executed[k] \in Nat
      BY <1>0, <2>1
    <2>4. UNCHANGED <<step, op, at, attempt, session, started>>
      BY <2>1 DEF vars
    <2>5. \A c \in Channel \ {k} : ChannelExec(c)'
      BY <2>1, <2>2, <2>4 DEF Exec, ChannelExec, Underway, Dead
    <2>6. ASSUME k \in Channel PROVE ChannelExec(k)'
      <3>1. executed[k] <= Before(at[k]) /\ Before(at[k]) \in Nat
        BY <2>1, <2>6 DEF Exec, ChannelExec, Underway, Dead, Before
      <3> QED
        BY <2>1, <2>3, <2>4, <2>6, <3>1 DEF ChannelExec, Underway, TurnPlaces
    <2>7. HeartbeatExec'
      <3>1. CASE k = Heartbeat
        <4>1. executed[k] <= attempt[k] - 1
          BY <2>1, <3>1 DEF Exec, HeartbeatExec
        <4> QED
          BY <1>0, <2>1, <2>3, <2>4, <3>1, <4>1 DEF HeartbeatExec
      <3>2. CASE k # Heartbeat
        BY <2>1, <2>2, <2>4, <3>2 DEF Exec, HeartbeatExec
      <3> QED
        BY <3>1, <3>2
    <2>8. executed'[Main] = 0
      BY <2>1, <2>2 DEF Exec
    <2> QED
      BY <2>5, <2>6, <2>7, <2>8 DEF Exec
  <1>5. CASE ServerCrash /\ UNCHANGED at
    <2>1. /\ UNCHANGED <<step, op, at, attempt, session, started, executed>>
          /\ ~Pending'
      BY <1>5, EmptyFacts DEF ServerCrash, Crash, PipesGone, Pending
    <2> QED
      BY <2>1 DEF Exec, ChannelExec, HeartbeatExec, Underway, Dead
  <1>6. CASE UNCHANGED allVars
    BY <1>6 DEF allVars, vars, streamVars, Exec, ChannelExec, HeartbeatExec, Underway, Dead, Pending
  <1> QED
    BY <1>1, <1>2, <1>3, <1>4, <1>5, <1>6, StreamCases

\* Where the server is faultless, what it executed is not lost.
LEMMA FaultlessOperation ==
    ASSUME Inv, StreamTypeOK, Silent, Requests, NEW k \in Caller, OperationStep(k),
           faults = 0, faults' = 0, session \in procs \cup {0}, Undisturbed(k)
    PROVE  Undisturbed(k)'
  <1>1. Operation(k) /\ (ReadTurn(k) => ~Pending')
    BY OperationSteps
  <1>2. step[k] \notin {"ok", "lock", "try", "thread"}
    BY <1>1 DEF Undisturbed, Operation, Acquire, FindExpired, EnsureSession, CannotStart,
       ThreadStarted, TurnAccepted, TurnRefused, RequestFaults, FindDead, TurnCompleted, Close
  <1>3. /\ step[k] \in {"turn", "stream"}
        /\ \A i \in DOMAIN toClient : toClient[i].kind = "refusal" => toClient[i].id # nextID - 1
    BY <1>2 DEF Undisturbed
  <1>4. /\ session # 0 /\ op[k].kind # "startThread"
        /\ step \in [Caller -> Steps]
        /\ op \in [Caller -> [kind : Kinds, thread : Thread \cup {NoThread},
                              turn : Thread \cup {NoThread}]]
    BY <1>3 DEF Silent, Waits, Inv, TypeOK, ClientTypeOK, Working
  <1>5. CASE ReadTurn(k)
    <2>1. Read(k) /\ TurnAccepted(k) /\ nextID' = nextID
      BY <1>5 DEF ReadTurn
    <2>2. \A i \in DOMAIN toClient' : i + 1 \in DOMAIN toClient /\ toClient'[i] = toClient[i + 1]
      BY <2>1, ReadFacts, StreamTypeParts DEF StreamTyped
    <2>3. step'[k] = "stream"
      BY <1>4, <2>1 DEF TurnAccepted
    <2> QED
      BY <1>1, <1>3, <1>5, <2>1, <2>2, <2>3 DEF Undisturbed
  <1>6. CASE ReadCompleted(k) \/ LoopEnds(k)
    <2>1. TurnCompleted(k)
      BY <1>6 DEF ReadCompleted, LoopEnds, EndTurn
    <2> QED
      BY <1>4, <2>1 DEF TurnCompleted, Return, Undisturbed
  <1>7. ~ReadRefusal(k)
    BY <1>3, TailFacts, StreamTypeParts DEF ReadRefusal, CanRead, Received, Matches, StreamTyped
  <1>8. ~ReadFaulty(k) /\ ~ReadEOF(k)
    BY <1>4 DEF ReadFaulty, RequestFaults, ReadEOF, FindDead
  <1>9. /\ ~SendFirst(k) /\ ~ReadThread(k) /\ ~CloseStream(k)
        /\ ~Acquire(k) /\ ~FindExpired(k) /\ ~CannotStart(k)
    BY <1>2 DEF SendFirst, EnsureSession, ReadThread, ThreadStarted, CloseStream, Close, Acquire,
       FindExpired, CannotStart
  <1> QED
    BY <1>5, <1>6, <1>7, <1>8, <1>9 DEF OperationStep

LEMMA FaultlessBetween ==
    ASSUME Inv, StreamTypeOK, Exec, Faultless, faults = 0,
           (CallerGoesOn /\ UNCHANGED streamVars) \/ \E k \in Caller : CallerIsDone(k)
    PROVE  Faultless'
  <1> USE CallersAre
  <1>0. /\ TypeOK /\ ClientTypeOK /\ Calls /\ executed \in [Caller -> Nat]
        /\ (Pending' <=> Pending) /\ UNCHANGED <<toClient, nextID>>
        /\ session \in procs \cup {0}
    BY StreamTypeParts DEF Inv, TypeOK, StreamTyped, streamVars, CallerIsDone, Pending, Faultless
  <1>1. ASSUME NEW k \in Caller, Between(k), executed'[k] # 1, executed'[k] <= 1,
               \A j \in Caller \ {k} : executed'[j] = executed[j]
        PROVE  Faultless'
    BY <1>0, <1>1 DEF Between, Faultless, Undisturbed
  <1>2. ASSUME NEW k \in Caller, executed[k] = 1, ~Undisturbed(k) PROVE FALSE
    BY <1>2 DEF Faultless
  <1>3. ASSUME NEW k \in Caller, step[k] \in {"idle", "failed"} PROVE executed[k] # 1
    BY <1>2, <1>3 DEF Undisturbed
  <1>4. CASE CallerGoesOn /\ UNCHANGED streamVars
    <2>0. executed' = executed /\ \A k \in Caller : executed[k] <= 1
      <3>1. executed' = executed
        BY <1>4 DEF streamVars
      <3>2. \A k \in Caller : executed[k] <= 1
        BY DEF Faultless
      <3> QED
        BY <3>1, <3>2
    <2>1. ASSUME NEW c \in Channel, RunMessageTurn(c) \/ SteerFailed(c) \/ StartFailed(c)
                                     \/ NewThreadMade(c)
          PROVE  Faultless'
      <3>1. Between(c)
        BY <1>0, <2>1, CallersBetween
      <3>2. CASE NewThreadMade(c)
        <4>1. op[c].kind = "startThread" /\ step[c] = "ok"
          BY <1>0, <3>2 DEF NewThreadMade, Calls, KindAt
        <4>2. executed[c] # 1
          BY <1>2, <4>1 DEF Undisturbed
        <4> QED
          BY <1>1, <2>0, <3>1, <4>2
      <3>3. CASE RunMessageTurn(c) \/ SteerFailed(c) \/ StartFailed(c)
        <4>1. step[c] \in {"idle", "failed"}
          BY <1>0, <3>3 DEF RunMessageTurn, SteerFailed, StartFailed, Calls
        <4> QED
          BY <1>1, <1>3, <2>0, <3>1, <4>1
      <3> QED
        BY <2>1, <3>2, <3>3
    <2>2. CASE HeartbeatTick
      <3>1. Between(Heartbeat) /\ step[Heartbeat] = "idle"
        BY <1>0, <2>2, CallersBetween DEF HeartbeatTick
      <3> QED
        BY <1>1, <1>3, <2>0, <3>1
    <2>3. CASE Shutdown
      <3>1. Between(Main) /\ executed[Main] = 0
        BY <1>0, <2>3, CallersBetween DEF Exec
      <3> QED
        BY <1>1, <2>0, <3>1
    <2>4. CASE Finished \/ \E c \in Channel : ResetSession(c)
      <3>1. UNCHANGED <<step, op, session, procs, faults>>
        BY <2>4 DEF Finished, vars, ResetSession, Calling
      <3> QED
        BY <1>0, <2>0, <3>1 DEF Faultless, Undisturbed
    <2> QED
      BY <1>4, <2>1, <2>2, <2>3, <2>4 DEF CallerGoesOn
  <1>5. ASSUME NEW k \in Caller, CallerIsDone(k) PROVE Faultless'
    <2>1. Between(k)
      BY <1>0, <1>5, CallersBetween DEF CallerIsDone
    <2>2. executed'[k] = 0 /\ \A j \in Caller \ {k} : executed'[j] = executed[j]
      BY <1>0, <1>5 DEF CallerIsDone
    <2> QED
      BY <1>1, <2>1, <2>2
  <1> QED
    BY <1>4, <1>5

\* The server's faults are counted, never forgotten.
LEMMA FaultsGrow ==
    ASSUME Inv, [StreamNext]_allVars
    PROVE  faults \in Nat /\ faults' \in Nat /\ (faults' = 0 => faults = 0)
  <1> USE DEF Inv, TypeOK, ClientTypeOK
  <1>1. [Next]_vars /\ faults \in Nat
    BY StreamStepIsStep, CallerAssumption
  <1>2. faults' = faults \/ faults' = faults + 1
    <2>1. ASSUME NEW k \in Caller, Operation(k) PROVE faults' = faults \/ faults' = faults + 1
      BY <2>1 DEF Operation, Acquire, FindExpired, EnsureSession, CannotStart, ThreadStarted,
         TurnAccepted, TurnRefused, RequestFaults, FindDead, TurnCompleted, Close
    <2>2. ASSUME NEW c \in Channel, RunMessageTurn(c) \/ TurnDone(c) \/ SteerFailed(c) \/ StartFailed(c)
                   \/ NewThreadMade(c) \/ TurnFailed(c) \/ ResetSession(c)
          PROVE faults' = faults
      BY <2>2 DEF RunMessageTurn, TurnDone, SteerFailed, StartFailed, NewThreadMade, TurnFailed,
         ResetSession, Calling
    <2>3. HeartbeatTick \/ HeartbeatDone \/ Shutdown \/ Finished \/ UNCHANGED vars => faults' = faults
      BY DEF HeartbeatTick, HeartbeatDone, Shutdown, Finished, Calling, vars
    <2>4. Crash => faults' = faults + 1
      BY DEF Crash
    <2> QED
      BY <1>1, <2>1, <2>2, <2>3, <2>4 DEF Next
  <1> QED
    BY <1>1, <1>2

LEMMA FaultlessStep ==
    ASSUME Inv, StreamTypeOK, Silent, Requests, TasksApart, Exec, Faultless, [StreamNext]_allVars
    PROVE  Faultless'
  <1> SUFFICES ASSUME faults' = 0 PROVE Faultless'
    BY DEF Faultless
  <1>0. /\ faults = 0 /\ TypeOK /\ ClientTypeOK /\ Working
        /\ session \in procs \cup {0}
        /\ executed \in [Caller -> Nat]
        /\ \A j \in Caller : executed[j] <= 1 /\ (executed[j] = 1 => Undisturbed(j))
    <2>1. faults = 0
      BY FaultsGrow
    <2>2. TypeOK /\ ClientTypeOK /\ Working /\ executed \in [Caller -> Nat]
      BY StreamTypeParts DEF StreamTyped, Inv, TypeOK
    <2> QED
      BY <2>1, <2>2 DEF Faultless
  <1>1. CASE (CallerGoesOn /\ UNCHANGED streamVars) \/ \E k \in Caller : CallerIsDone(k)
    BY <1>0, <1>1, FaultlessBetween
  <1>2. ASSUME NEW k \in Caller, OperationStep(k) PROVE Faultless'
    <2>1. Operation(k) /\ executed' = executed
      BY <1>2, OperationSteps
    <2>2. Undisturbed(k) => Undisturbed(k)'
      BY <1>0, <1>2, FaultlessOperation
    <2>3. \A j \in Caller \ {k} : /\ op'[j] = op[j] /\ step'[j] = step[j]
                                  /\ step[j] \notin Busy
      BY <1>0, <2>1, OperationFrame, OperationAlone
    <2>4. \A j \in Caller \ {k} : Undisturbed(j) => Undisturbed(j)'
      BY <2>3 DEF Undisturbed, Busy
    <2>5. session' \in procs' \cup {0}
      BY <1>0, <2>1 DEF Operation, Acquire, FindExpired, EnsureSession, CannotStart, ThreadStarted,
         TurnAccepted, TurnRefused, RequestFaults, FindDead, TurnCompleted, Close, Fail, StopSession
    <2> QED
      BY <1>0, <2>1, <2>2, <2>4, <2>5 DEF Faultless
  <1>3. CASE Unseen
    <2>1. UNCHANGED <<step, op, session, procs, nextID, executed>>
      BY <1>3 DEF Unseen, vars
    <2>2. ASSUME NEW k \in Caller, Undisturbed(k) PROVE Undisturbed(k)'
      <3>1. CASE step[k] = "ok"
        BY <2>1, <2>2, <3>1 DEF Undisturbed
      <3>2. CASE step[k] # "ok"
        <4>1. ~Pending /\ ~Pending'
          BY <1>3, <2>2, <3>2 DEF Undisturbed, Unseen
        <4> QED
          BY <1>3, <2>1, <2>2, <3>2, <4>1 DEF Undisturbed, Unseen
      <3> QED
        BY <3>1, <3>2
    <2> QED
      BY <1>0, <2>1, <2>2 DEF Faultless
  <1>4. CASE TakeUp
    <2>1. PICK k \in Caller :
             /\ step[k] = "turn" /\ Pending /\ ~Pending'
             /\ executed' = [executed EXCEPT ![k] = @ + 1]
             /\ UNCHANGED <<vars, toClient, nextID>>
             /\ \A i \in DOMAIN toClient : toClient[i].id # nextID - 1
             /\ \A j \in Caller \ {k} : step[j] \notin Busy
      BY <1>4, TakeUpFacts
    <2>2. UNCHANGED <<step, op, session, procs, toClient, nextID>>
      BY <2>1 DEF vars
    <2>3. executed[k] = 0 /\ executed'[k] = 1
      BY <1>0, <2>1 DEF Undisturbed
    <2>4. Undisturbed(k)'
      BY <2>1, <2>2 DEF Undisturbed
    <2>5. \A j \in Caller \ {k} : executed'[j] = executed[j] /\ (Undisturbed(j) => Undisturbed(j)')
      BY <1>0, <2>1, <2>2 DEF Undisturbed, Busy
    <2> QED
      BY <1>0, <2>2, <2>3, <2>4, <2>5 DEF Faultless
  <1>5. ~ServerCrash
    BY <1>0 DEF ServerCrash, Crash
  <1>6. CASE UNCHANGED allVars
    BY <1>6 DEF allVars, vars, streamVars, Faultless, Undisturbed, Pending
  <1> QED
    BY <1>1, <1>2, <1>3, <1>4, <1>5, <1>6, StreamCases
-----------------------------------------------------------------------------
(* Whose the messages are. *)

LEMMA SingleFacts ==
    ASSUME NEW e
    PROVE  /\ Head(<<e>>) = e /\ Tail(<<e>>) = << >> /\ Append(<< >>, e) = <<e>>
           /\ DOMAIN <<e>> = {1} /\ <<e>>[1] = e /\ <<e>> # << >>
  OBVIOUS

\* The fields of what is sent.
LEMMA MessageFacts ==
    /\ \A kind, id, names : LET m == Message(kind, id, names)
                           IN  m.kind = kind /\ m.id = id /\ m.names = names
    /\ \A kind, id, k : LET m == Request(kind, id, k)
                       IN  m.kind = kind /\ m.id = id /\ m.who = k
  BY DEF Message, Request

\* Nothing is under way when a request is sent.
LEMMA OwnSend ==
    ASSUME NEW k \in Caller, NEW kind \in {"thread", "turn"}, NEW id \in Nat,
           Send(k, kind, id), session' \in procs', step'[k] = kind,
           toServer = << >>, toClient' = << >>, tasks' = {}
    PROVE  Own'
  <1>1. toServer' = <<Request(kind, id, k)>> /\ nextID' - 1 = id
    BY SingleFacts DEF Send
  <1>2. CASE kind = "thread"
    <2>1. OwnThread'
      BY <1>1, <1>2 DEF OwnThread
    <2> QED
      BY <1>2, <2>1 DEF Own
  <1>3. CASE kind = "turn"
    <2>1. OwnRequest(k)'
      BY <1>1, <1>3 DEF OwnRequest, Send
    <2> QED
      BY <1>3, <2>1 DEF Own
  <1> QED
    BY <1>2, <1>3

\* There is one task, and it goes on as another.
LEMMA OneTask ==
    ASSUME TasksApart, NEW k, OwnMessages(k), NEW t \in tasks
    PROVE  /\ tasks = {t} /\ t.id = nextID - 1 /\ t.thread = op[k].thread
           /\ \A u : Goes(t, u) => tasks' = IF u.answered /\ u.done THEN {} ELSE {u}
  <1>1. \A v \in tasks : v = t
    BY DEF TasksApart, OwnMessages
  <1> QED
    BY <1>1 DEF OwnMessages, Goes

\* A message of k's turn is the last in the pipe, which holds what it held.
Appended(k, m) ==
    /\ m.id = nextID - 1 /\ m.names \in OwnNames(k)
    /\ \A i \in DOMAIN toClient : /\ i \in DOMAIN toClient' /\ toClient'[i] = toClient[i]
                                 /\ i \in Nat /\ i < Len(toClient) + 1
    /\ Len(toClient) + 1 \in DOMAIN toClient' /\ toClient'[Len(toClient) + 1] = m
    /\ Len(toClient) \in Nat
    /\ \A i \in DOMAIN toClient' : i \in DOMAIN toClient \/ i = Len(toClient) + 1

LEMMA OwnAppend ==
    ASSUME StreamTypeOK, NEW k \in Caller, OwnMessages(k), NEW t \in tasks, TasksApart,
           NEW m, m.id = t.id, m.names \in {t.thread, NoThread},
           toClient' = Append(toClient, m)
    PROVE  Appended(k, m)
  <1>1. t.id = nextID - 1 /\ t.thread = op[k].thread
    BY OneTask
  <1>2. m.id = nextID - 1 /\ m.names \in OwnNames(k)
    BY <1>1 DEF OwnNames
  <1>3. toClient \in Seq(ClientMessages(nextID)) /\ Len(toClient) \in Nat
    BY StreamTypeParts DEF StreamTyped
  <1> QED
    BY <1>2, <1>3, AppendKeeps DEF Appended

LEMMA OwnRespond ==
    ASSUME StreamTypeOK, TasksApart, NEW k \in Caller, step[k] \in {"turn", "stream"}, OwnTurn(k),
           NEW t \in tasks, Respond(t)
    PROVE  OwnTurn(k)'
  <1> USE DEF OwnTurn
  <1> DEFINE u == [t EXCEPT !.answered = TRUE]
  <1>1. /\ u.id = t.id /\ u.thread = t.thread /\ u.asking = t.asking /\ u.answered /\ u.done = t.done
        /\ Goes(t, u) /\ ~t.answered
        /\ UNCHANGED <<step, op, toServer, nextID, agg>>
    BY TaskAfter DEF Respond, vars
  <1> HIDE DEF u
  <1>2. PICK names \in {t.thread, NoThread} : toClient' = Append(toClient, Message("response", t.id, names))
    BY TaskTyped DEF Respond, Sends
  <1> DEFINE m == Message("response", t.id, names)
  <1>3. m.kind = "response" /\ Appended(k, m)
    <2>1. m.kind = "response" /\ m.id = t.id /\ m.names \in {t.thread, NoThread}
      BY MessageFacts
    <2>2. toClient' = Append(toClient, m)
      BY <1>2
    <2> HIDE DEF m
    <2> QED
      BY <2>1, <2>2, OwnAppend
  <1> HIDE DEF m
  <1>4. /\ tasks = {t} /\ t.id = nextID - 1 /\ t.thread = op[k].thread
        /\ tasks' = IF t.done THEN {} ELSE {u}
    BY <1>1, OneTask
  <1>5. /\ step[k] = "turn"
        /\ \A i \in DOMAIN toClient : ~Answer(toClient[i])
    BY <1>1 DEF OneResponse
  <1>6. OwnMessages(k)'
    BY <1>1, <1>3, <1>4 DEF OwnMessages, Appended, OwnNames
  <1>7. OneResponse(k)'
    BY <1>1, <1>3, <1>4, <1>5 DEF OneResponse, Appended, Answer
  <1>8. OneCompletion'
    BY <1>1, <1>3, <1>4 DEF OneCompletion, Appended, Answer
  <1>9. OneQuestion'
    <2>1. Asking => Asking'
      BY <1>1, <1>4 DEF Asking
    <2> QED
      BY <1>1, <1>3, <2>1 DEF OneQuestion, Appended
  <1> QED
    BY <1>6, <1>7, <1>8, <1>9

\* What it says before it is done is the last so far.
LEMMA NotDone ==
    ASSUME NEW k, OwnTurn(k), NEW t \in tasks, ~t.done, ~t.asking, TasksApart
    PROVE  /\ ~agg.completed
           /\ \A i \in DOMAIN toClient : toClient[i].kind \notin {"done", "ask"}
           /\ DOMAIN toServer = {}
  <1>1. ~Asking
    BY OneTask DEF OwnTurn, Asking
  <1> QED
    BY <1>1 DEF OwnTurn, OneCompletion, OneQuestion

LEMMA OwnNotify ==
    ASSUME StreamTypeOK, TasksApart, NEW k \in Caller, OwnTurn(k),
           NEW t \in tasks, Notify(t) \/ Ask(t) \/ Complete(t)
    PROVE  OwnTurn(k)'
  <1> USE DEF OwnTurn
  <1>0. /\ ~agg.completed
        /\ \A i \in DOMAIN toClient : toClient[i].kind \notin {"done", "ask"}
        /\ DOMAIN toServer = {}
        /\ tasks = {t} /\ ~t.done
        /\ t.id = nextID - 1 /\ t.thread = op[k].thread
        /\ UNCHANGED <<step, op, toServer, nextID, agg>>
    BY NotDone, OneTask DEF Notify, Ask, Complete, vars
  <1>1. ASSUME NEW kind \in {"note", "ask", "done"}, NEW names \in {t.thread, NoThread}, NEW u,
               toClient' = Append(toClient, Message(kind, t.id, names)),
               u.id = t.id, u.thread = t.thread, u.answered = t.answered,
               kind = "done" <=> u.done,
               kind = "ask" => u.asking,
               tasks' = IF u.answered /\ u.done THEN {} ELSE {u}
        PROVE  OwnTurn(k)'
    <2> DEFINE m == Message(kind, t.id, names)
    <2>3. m.kind = kind /\ Appended(k, m)
      <3>1. m.kind = kind /\ m.id = t.id /\ m.names \in {t.thread, NoThread}
        BY MessageFacts
      <3>2. toClient' = Append(toClient, m)
        BY <1>1
      <3> HIDE DEF m
      <3> QED
        BY <3>1, <3>2, OwnAppend
    <2> HIDE DEF m
    <2>4. OwnMessages(k)'
      BY <1>0, <1>1, <2>3 DEF OwnMessages, Appended, OwnNames
    <2>5. OneResponse(k)'
      BY <1>0, <1>1, <2>3 DEF OneResponse, Appended, Answer
    <2>6. OneCompletion'
      BY <1>0, <1>1, <2>3 DEF OneCompletion, Appended
    <2>7. OneQuestion'
      <3>1. kind = "ask" => Asking'
        BY <1>1 DEF Asking
      <3> QED
        BY <1>0, <1>1, <2>3, <3>1 DEF OneQuestion, Appended
    <2> QED
      BY <2>4, <2>5, <2>6, <2>7
  <1>2. CASE Notify(t)
    <2>1. tasks' = tasks /\ toClient' = Append(toClient, Message("note", t.id, NoThread))
      BY <1>2 DEF Notify, Sends
    <2>2. ~(t.answered /\ t.done)
      BY <1>0
    <2> QED
      BY <1>0, <1>1, <2>1, <2>2
  <1>3. CASE Ask(t)
    <2> DEFINE u == [t EXCEPT !.asking = TRUE]
    <2>1. /\ u.id = t.id /\ u.thread = t.thread /\ u.answered = t.answered /\ u.asking /\ u.done = t.done
          /\ Goes(t, u)
          /\ toClient' = Append(toClient, Message("ask", t.id, NoThread))
      BY <1>3, TaskAfter DEF Ask, Sends
    <2> HIDE DEF u
    <2>2. tasks' = IF u.answered /\ u.done THEN {} ELSE {u}
      BY <2>1, OneTask
    <2> QED
      BY <1>0, <1>1, <2>1, <2>2
  <1>4. CASE Complete(t)
    <2> DEFINE u == [t EXCEPT !.done = TRUE]
    <2>1. /\ u.id = t.id /\ u.thread = t.thread /\ u.answered = t.answered /\ u.done
          /\ Goes(t, u)
      BY <1>4, TaskAfter DEF Complete
    <2> HIDE DEF u
    <2>2. tasks' = IF u.answered /\ u.done THEN {} ELSE {u}
      BY <2>1, OneTask
    <2>3. PICK names \in {t.thread, NoThread} : toClient' = Append(toClient, Message("done", t.id, names))
      BY <1>4, TaskTyped DEF Complete, Sends
    <2> QED
      BY <1>0, <1>1, <2>1, <2>2, <2>3
  <1> QED
    BY <1>2, <1>3, <1>4

LEMMA OwnTakeAnswer ==
    ASSUME StreamTypeOK, TasksApart, NEW k \in Caller, OwnTurn(k), TakeAnswer
    PROVE  OwnTurn(k)'
  <1> USE DEF OwnTurn
  <1>1. PICK t \in tasks : Goes(t, [t EXCEPT !.asking = FALSE])
    BY DEF TakeAnswer
  <1> DEFINE u == [t EXCEPT !.asking = FALSE]
  <1>2. /\ u.id = t.id /\ u.thread = t.thread /\ u.answered = t.answered /\ u.done = t.done
        /\ Goes(t, u)
        /\ UNCHANGED <<step, op, toClient, nextID, agg>>
    BY <1>1, TaskAfter DEF TakeAnswer, vars
  <1> HIDE DEF u
  <1>3. tasks = {t} /\ tasks' = IF u.answered /\ u.done THEN {} ELSE {u}
    BY <1>2, OneTask
  <1>4. /\ 1 \in DOMAIN toServer
        /\ \A i \in DOMAIN toServer' : i \in Nat \ {0} /\ i + 1 \in DOMAIN toServer
    BY TakeFacts, StreamTypeParts DEF TakeAnswer, StreamTyped
  <1>5. DOMAIN toServer' = {}
    <2>1. \A i \in DOMAIN toServer' : i \in Nat \ {0} /\ i + 1 = 1
      BY <1>4 DEF OneQuestion
    <2>2. \A i \in DOMAIN toServer' : FALSE
      BY <2>1
    <2> QED
      BY <2>2
  <1>6. \A j \in DOMAIN toClient : toClient[j].kind # "ask"
    BY <1>4 DEF OneQuestion
  <1>7. OwnMessages(k)'
    BY <1>2, <1>3 DEF OwnMessages, OwnNames
  <1>8. OneResponse(k)'
    BY <1>2, <1>3 DEF OneResponse
  <1>9. OneCompletion'
    BY <1>2, <1>3 DEF OneCompletion
  <1>10. OneQuestion'
    BY <1>2, <1>5, <1>6 DEF OneQuestion
  <1> QED
    BY <1>7, <1>8, <1>9, <1>10

\* A read of k's turn leaves its rest.
LEMMA OwnTail ==
    ASSUME StreamTypeOK, NEW k \in Caller, Read(k)
    PROVE  /\ 1 \in DOMAIN toClient /\ Received = toClient[1]
           /\ \A i \in DOMAIN toClient' : /\ i \in Nat \ {0} /\ i + 1 \in DOMAIN toClient
                                         /\ toClient'[i] = toClient[i + 1] /\ i + 1 > 1
  BY ReadFacts, StreamTypeParts DEF StreamTyped

LEMMA OwnReadAsk ==
    ASSUME StreamTypeOK, NEW k \in Caller, OwnTurn(k), ReadAsk(k)
    PROVE  OwnTurn(k)'
  <1> USE DEF OwnTurn
  <1>1. /\ 1 \in DOMAIN toClient /\ Received = toClient[1] /\ Received.kind = "ask"
        /\ \A i \in DOMAIN toClient' : /\ i \in Nat \ {0} /\ i + 1 \in DOMAIN toClient
                                      /\ toClient'[i] = toClient[i + 1] /\ i + 1 > 1
        /\ UNCHANGED <<step, op, nextID, agg, tasks>>
    BY OwnTail DEF ReadAsk, vars
  <1>2. Asking /\ DOMAIN toServer = {}
    BY <1>1 DEF OneQuestion
  <1>3. \A i \in DOMAIN toClient' : toClient'[i].kind # "ask"
    BY <1>1 DEF OneQuestion
  <1> DEFINE m == Request("answer", Received.id, k)
  <1>4. toServer' = <<m>> /\ m.kind = "answer"
    BY <1>2, NoElement, SingleFacts, MessageFacts, StreamTypeParts DEF ReadAsk, StreamTyped
  <1> HIDE DEF m
  <1>5. DOMAIN toServer' = {1} /\ toServer'[1] = m /\ Len(toServer') = 1
    BY <1>4
  <1>6. OwnMessages(k)'
    BY <1>1 DEF OwnMessages, OwnNames
  <1>7. OneResponse(k)'
    BY <1>1 DEF OneResponse
  <1>8. OneCompletion'
    BY <1>1 DEF OneCompletion
  <1>9. Asking' /\ OneQuestion'
    BY <1>1, <1>2, <1>3, <1>4, <1>5 DEF OneQuestion, Asking
  <1> QED
    BY <1>6, <1>7, <1>8, <1>9

LEMMA OwnReadNotification ==
    ASSUME StreamTypeOK, NEW k \in Caller, step[k] \in {"turn", "stream"}, OwnTurn(k), ReadNotification(k)
    PROVE  OwnTurn(k)'
  <1> USE DEF OwnTurn
  <1>1. /\ 1 \in DOMAIN toClient /\ Received = toClient[1] /\ Received.kind \in {"note", "done"}
        /\ \A i \in DOMAIN toClient' : /\ i \in Nat \ {0} /\ i + 1 \in DOMAIN toClient
                                      /\ toClient'[i] = toClient[i + 1] /\ i + 1 > 1
        /\ UNCHANGED <<step, op, nextID, toServer, tasks>>
        /\ agg' = Consume(agg, Received)
    BY OwnTail DEF ReadNotification, vars
  <1>2. /\ Received.id = nextID - 1 /\ Received.names \in OwnNames(k)
        /\ ~Answer(Received) /\ ~agg.completed
    BY <1>1 DEF OwnMessages, OneCompletion, Answer
  <1>3. /\ agg'.completed <=> Received.kind = "done"
        /\ agg'.turn \in OwnNames(k)
        /\ agg'.from = {nextID - 1}
    BY <1>1, <1>2 DEF Consume, OwnMessages
  <1>4. OwnMessages(k)'
    BY <1>1, <1>3 DEF OwnMessages, OwnNames
  <1>5. OneResponse(k)'
    BY <1>1 DEF OneResponse
  <1>6. OneCompletion'
    <2>1. CASE Received.kind = "note"
      BY <1>1, <1>3, <2>1 DEF OneCompletion
    <2>2. CASE Received.kind = "done"
      <3>1. (\A i \in DOMAIN toClient' : Answer(toClient'[i])) /\ \A t \in tasks : t.done
        BY <1>1, <2>2 DEF OneCompletion
      <3> QED
        BY <1>1, <3>1 DEF OneCompletion, Answer
    <2> QED
      BY <1>1, <2>1, <2>2
  <1>7. OneQuestion'
    BY <1>1 DEF OneQuestion, Asking
  <1> QED
    BY <1>4, <1>5, <1>6, <1>7

LEMMA OwnReadTurn ==
    ASSUME Inv, StreamTypeOK, NEW k \in Caller, OwnTurn(k), ReadTurn(k)
    PROVE  OwnTurn(k)' /\ step'[k] = "stream"
  <1> USE DEF OwnTurn
  <1>1. /\ 1 \in DOMAIN toClient /\ Received = toClient[1] /\ Answer(Received)
        /\ \A i \in DOMAIN toClient' : /\ i \in Nat \ {0} /\ i + 1 \in DOMAIN toClient
                                      /\ toClient'[i] = toClient[i + 1] /\ i + 1 > 1
        /\ UNCHANGED <<op, nextID, toServer, tasks>>
        /\ agg' = [agg EXCEPT !.turn = Received.names]
    BY OwnTail DEF ReadTurn, TurnAccepted, Answer
  <1>2. step'[k] = "stream"
    BY DEF ReadTurn, TurnAccepted, Inv, TypeOK, ClientTypeOK
  <1>3. /\ agg'.completed = agg.completed /\ agg'.from = agg.from
        /\ agg'.turn = Received.names
    BY <1>1, StreamTypeParts DEF StreamTyped, Aggregators
  <1>4. OwnMessages(k)'
    BY <1>1, <1>3 DEF OwnMessages, OwnNames
  <1>5. OneResponse(k)'
    <2>1. /\ \A t \in tasks : t.answered
          /\ \A i \in DOMAIN toClient' : ~Answer(toClient'[i])
      BY <1>1 DEF OneResponse
    <2> QED
      BY <1>1, <2>1 DEF OneResponse
  <1>6. OneCompletion'
    BY <1>1, <1>3 DEF OneCompletion
  <1>7. OneQuestion'
    BY <1>1 DEF OneQuestion, Asking
  <1> QED
    BY <1>2, <1>4, <1>5, <1>6, <1>7

\* Everything is over with the turn.
LEMMA OwnEnd ==
    ASSUME StreamTypeOK, NEW k \in Caller, step[k] = "stream", OwnTurn(k),
           ReadCompleted(k) \/ LoopEnds(k)
    PROVE  Quiet'
  <1> USE DEF OwnTurn
  <1>1. \A i \in DOMAIN toClient : ~Answer(toClient[i])
    BY DEF OneResponse
  <1>2. (\A t \in tasks : t.done) /\ DOMAIN toClient' = {}
    <2>1. CASE ReadCompleted(k)
      <3>1. /\ 1 \in DOMAIN toClient /\ toClient[1].kind = "done"
            /\ \A i \in DOMAIN toClient' : /\ i \in Nat \ {0} /\ i + 1 \in DOMAIN toClient
                                          /\ toClient'[i] = toClient[i + 1] /\ i + 1 > 1
        BY <2>1, OwnTail DEF ReadCompleted
      <3>2. \A i \in DOMAIN toClient' : FALSE
        BY <1>1, <3>1 DEF OneCompletion
      <3> QED
        BY <3>1, <3>2 DEF OneCompletion
    <2>2. CASE LoopEnds(k)
      BY <1>1, <2>2 DEF LoopEnds, streamVars, OneCompletion
    <2> QED
      BY <2>1, <2>2
  <1>3. tasks = {}
    BY <1>2 DEF OneResponse, OwnMessages
  <1>4. DOMAIN toServer = {}
    BY <1>3 DEF OneQuestion, Asking
  <1>5. UNCHANGED <<toServer, tasks>>
    BY DEF ReadCompleted, LoopEnds, streamVars
  <1>6. toClient' \in Seq(ClientMessages(nextID)) /\ toServer \in Seq(ServerMessages(nextID))
    BY ReadFacts, StreamTypeParts DEF StreamTyped, ReadCompleted, LoopEnds, streamVars
  <1> QED
    BY <1>2, <1>3, <1>4, <1>5, <1>6, NoElement DEF Quiet

\* All the client does in its turn, and the server for it.
LEMMA OwnTurnStep ==
    ASSUME Inv, StreamTypeOK, Requests, TasksApart, session \in procs,
           NEW k \in Caller, step[k] \in {"turn", "stream"}, OwnTurn(k), Moves, ~mixed',
           UNCHANGED <<session, procs>>
    PROVE  Own'
  <1>1. \A j \in Caller \ {k} : ~Waits(j) /\ step[j] # "try"
    BY OneWaits DEF Busy
  <1>2. \A i \in DOMAIN toServer : toServer[i].kind = "answer"
    BY DEF OwnTurn, OneQuestion
  <1>3. ~StartThread /\ ~TakeUp /\ ~Refuse /\ ~SendExtra
    <2>1. ASSUME NEW kind, Takes(kind) PROVE kind = "answer"
      BY <1>2, <2>1, TakeFacts, StreamTypeParts DEF StreamTyped
    <2> QED
      BY <2>1 DEF StartThread, TakeUp, Refuse, SendExtra
  <1>4. OwnTurn(k)' /\ step'[k] \in {"turn", "stream"} => Own'
    BY DEF Own
  <1>5. ASSUME NEW j \in Caller,
               \/ SendFirst(j) \/ ReadAsk(j) \/ ReadNotification(j) \/ SkipResponse(j)
               \/ ReadThread(j) \/ ReadTurn(j) \/ ReadCompleted(j) \/ LoopEnds(j)
        PROVE  Own'
    <2>1. j = k
      BY <1>1, <1>5, ReadFacts, StreamTypeParts DEF StreamTyped, SendFirst, EnsureSession, ReadAsk,
         ReadNotification, SkipResponse, ReadThread, ReadTurn, ReadCompleted, LoopEnds, EndTurn,
         TurnCompleted, Waits
    <2>2. CASE ReadAsk(k) \/ ReadNotification(k)
      BY <1>4, <2>2, OwnReadAsk, OwnReadNotification DEF ReadAsk, ReadNotification, vars
    <2>3. ~SkipResponse(k)
      <3>1. ASSUME SkipResponse(k) PROVE FALSE
        <4>1. Received = toClient[1] /\ 1 \in DOMAIN toClient /\ Answer(Received)
          BY <3>1, OwnTail DEF SkipResponse, IsResponse, Answer
        <4> QED
          BY <3>1, <4>1 DEF SkipResponse, Matches, OwnTurn, OwnMessages, OneResponse
      <3> QED
        BY <3>1
    <2>4. CASE ReadTurn(k)
      BY <1>4, <2>4, OwnReadTurn
    <2>5. CASE ReadCompleted(k) \/ LoopEnds(k)
      <3>1. Operation(k) /\ TurnCompleted(k)
        BY <2>5 DEF ReadCompleted, LoopEnds, EndTurn, Operation
      <3>2. Quiet'
        BY <2>5, <3>1, OwnEnd DEF TurnCompleted
      <3>3. step'[k] = "ok"
        BY <3>1 DEF TurnCompleted, Return, Inv, TypeOK, ClientTypeOK
      <3>4. \A i \in Caller \ {k} : step'[i] \notin Busy
        BY <3>1, OperationAlone DEF Inv, TypeOK
      <3> QED
        BY <3>2, <3>3, <3>4 DEF Own, Waits, Busy
    <2>6. ~SendFirst(k) /\ ~ReadThread(k)
      BY DEF SendFirst, EnsureSession, ReadThread, ThreadStarted
    <2> QED
      BY <1>5, <2>1, <2>2, <2>3, <2>4, <2>5, <2>6
  <1>6. CASE TakeAnswer
    BY <1>4, <1>6, OwnTakeAnswer DEF TakeAnswer, vars
  <1>7. ASSUME NEW t \in tasks, Respond(t) \/ Notify(t) \/ Ask(t) \/ Complete(t)
        PROVE  Own'
    <2>1. UNCHANGED step
      BY <1>7, WorkFacts DEF vars
    <2> QED
      BY <1>4, <1>7, <2>1, OwnRespond, OwnNotify
  <1> QED
    BY <1>3, <1>5, <1>6, <1>7 DEF Moves

\* Before the server has the request for a turn.
LEMMA OwnRequestStep ==
    ASSUME Inv, StreamTypeOK, session \in procs,
           NEW k \in Caller, step[k] = "turn", OwnRequest(k), Moves, ~mixed',
           UNCHANGED <<session, procs>>
    PROVE  Own'
  <1>1. \A j \in Caller \ {k} : ~Waits(j) /\ step[j] # "try"
    BY OneWaits DEF Busy
  <1> DEFINE m == Request("turn", nextID - 1, k)
  <1>2. m.kind = "turn" /\ m.id = nextID - 1 /\ m.who = k
    BY MessageFacts
  <1>3. /\ toServer = <<m>> /\ Tail(toServer) = << >> /\ Incoming = m
        /\ toClient = << >> /\ tasks = {} /\ agg = NewAggregator
    BY SingleFacts DEF OwnRequest, Incoming
  <1> HIDE DEF m
  <1>4. ~StartThread /\ ~TakeAnswer /\ ~SendExtra
    BY <1>2, <1>3 DEF StartThread, TakeAnswer, Takes, SendExtra
  <1>5. ASSUME NEW j \in Caller,
               \/ SendFirst(j) \/ ReadAsk(j) \/ ReadNotification(j) \/ SkipResponse(j)
               \/ ReadThread(j) \/ ReadTurn(j) \/ ReadCompleted(j) \/ LoopEnds(j)
        PROVE  FALSE
    <2>1. ~Read(j)
      BY <1>3 DEF Read, CanRead
    <2>2. step[j] \notin {"try", "stream"}
      BY <1>1 DEF Waits
    <2> QED
      BY <1>5, <2>1, <2>2 DEF SendFirst, EnsureSession, ReadAsk, ReadNotification, SkipResponse,
         ReadThread, ReadTurn, ReadCompleted, LoopEnds, EndTurn, TurnCompleted
  <1>7. CASE TakeUp
    <2> DEFINE u == NewTask(nextID - 1, k)
    <2>1. /\ u.id = nextID - 1 /\ u.thread = op[k].thread
          /\ ~u.answered /\ ~u.done /\ ~u.asking
      BY DEF NewTask
    <2>2. tasks' = {u} /\ toServer' = << >> /\ UNCHANGED <<step, op, toClient, nextID, agg>>
      BY <1>2, <1>3, <1>7 DEF TakeUp, Takes, vars
    <2> HIDE DEF u
    <2>3. DOMAIN toServer' = {} /\ DOMAIN toClient' = {}
      BY <1>3, <2>2, EmptyFacts
    <2>4. agg'.turn = NoThread /\ agg'.from = {} /\ ~agg'.completed
      BY <1>3, <2>2 DEF NewAggregator
    <2>5. OwnTurn(k)'
      BY <2>1, <2>2, <2>3, <2>4
        DEF OwnTurn, OwnMessages, OwnNames, OneResponse, OneCompletion, OneQuestion
    <2> QED
      BY <2>2, <2>5 DEF Own
  <1>8. CASE Refuse
    <2> DEFINE r == Message("refusal", nextID - 1, NoThread)
    <2>1. r.kind = "refusal" /\ r.id = nextID - 1 /\ r.names = NoThread
      BY MessageFacts
    <2>2. toClient' = <<r>> /\ toServer' = << >> /\ UNCHANGED <<step, op, tasks, nextID, agg>>
      BY <1>2, <1>3, <1>8, SingleFacts DEF Refuse, Takes, Sends, vars
    <2> HIDE DEF r
    <2>3. DOMAIN toServer' = {} /\ DOMAIN toClient' = {1} /\ toClient'[1] = r
      BY <1>3, <2>2, EmptyFacts, SingleFacts
    <2>4. agg'.turn = NoThread /\ agg'.from = {} /\ ~agg'.completed
      BY <1>3, <2>2 DEF NewAggregator
    <2>5. OwnTurn(k)'
      BY <1>3, <2>1, <2>2, <2>3, <2>4
        DEF OwnTurn, OwnMessages, OwnNames, OneResponse, OneCompletion, OneQuestion
    <2> QED
      BY <2>2, <2>5 DEF Own
  <1>9. ~(\E t \in tasks : Respond(t) \/ Notify(t) \/ Ask(t) \/ Complete(t))
    BY <1>3
  <1> QED
    BY <1>4, <1>5, <1>7, <1>8, <1>9 DEF Moves

\* While a thread is made.
LEMMA OwnThreadStep ==
    ASSUME Inv, StreamTypeOK, Silent, session \in procs,
           NEW k \in Caller, step[k] = "thread", OwnThread, Moves, ~mixed',
           UNCHANGED <<session, procs>>
    PROVE  Own'
  <1>1. \A j \in Caller \ {k} : ~Waits(j) /\ step[j] # "try"
    BY OneWaits DEF Busy
  <1>2. tasks = {}
    BY DEF OwnThread
  <1>3. CASE toClient = << >> /\ \E j \in Caller : toServer = <<Request("thread", nextID - 1, j)>>
    <2>1. PICK j \in Caller : toServer = <<Request("thread", nextID - 1, j)>>
      BY <1>3
    <2>2. Tail(toServer) = << >> /\ Incoming.kind = "thread" /\ Incoming.id = nextID - 1
      BY <2>1, SingleFacts, MessageFacts DEF Incoming
    <2>3. ASSUME NEW i \in Caller,
                 \/ SendFirst(i) \/ ReadAsk(i) \/ ReadNotification(i) \/ SkipResponse(i)
                 \/ ReadThread(i) \/ ReadTurn(i) \/ ReadCompleted(i) \/ LoopEnds(i)
          PROVE  FALSE
      <3>1. ~Read(i)
        BY <1>3 DEF Read, CanRead
      <3>2. step[i] \notin {"try", "stream"}
        BY <1>1 DEF Waits
      <3> QED
        BY <2>3, <3>1, <3>2 DEF SendFirst, EnsureSession, ReadAsk, ReadNotification, SkipResponse,
           ReadThread, ReadTurn, ReadCompleted, LoopEnds, EndTurn, TurnCompleted
    <2>4. ~TakeUp /\ ~Refuse /\ ~TakeAnswer /\ ~SendExtra
      BY <2>2 DEF TakeUp, Refuse, TakeAnswer, Takes, SendExtra
    <2>5. CASE StartThread
      <3>1. /\ toServer' = << >> /\ tasks' = {}
            /\ toClient' = Append(<< >>, Message("response", nextID - 1, NoThread))
            /\ UNCHANGED <<step, nextID>>
        BY <1>2, <1>3, <2>2, <2>5 DEF StartThread, Takes, Sends, vars
      <3>2. toClient' = <<Message("response", nextID - 1, NoThread)>>
        BY <3>1, SingleFacts
      <3>3. OwnThread'
        BY <3>1, <3>2 DEF OwnThread
      <3> QED
        BY <3>1, <3>3 DEF Own
    <2> QED
      BY <1>2, <2>3, <2>4, <2>5 DEF Moves
  <1>4. CASE toServer = << >> /\ toClient = <<Message("response", nextID - 1, NoThread)>>
    <2>1. Received.kind = "response" /\ Received.id = nextID - 1 /\ Tail(toClient) = << >>
      BY <1>4, SingleFacts, MessageFacts DEF Received
    <2>2. ~StartThread /\ ~TakeUp /\ ~Refuse /\ ~TakeAnswer /\ ~SendExtra
      BY <1>4 DEF StartThread, TakeUp, Refuse, TakeAnswer, Takes, SendExtra
    <2>3. ASSUME NEW i \in Caller,
                 \/ SendFirst(i) \/ ReadAsk(i) \/ ReadNotification(i) \/ SkipResponse(i)
                 \/ ReadTurn(i) \/ ReadCompleted(i) \/ LoopEnds(i)
          PROVE  FALSE
      <3>1. step[i] \notin {"try", "turn", "stream"}
        BY <1>1 DEF Waits
      <3> QED
        BY <2>1, <2>3, <3>1 DEF SendFirst, EnsureSession, ReadAsk, ReadNotification, SkipResponse,
           Matches, ReadTurn, TurnAccepted, ReadCompleted, LoopEnds, EndTurn, TurnCompleted
    <2>4. ASSUME NEW i \in Caller, ReadThread(i) PROVE Own'
      <3>1. /\ toClient' = << >> /\ tasks' = {} /\ ThreadStarted(i)
        BY <1>2, <2>1, <2>4 DEF ReadThread, Read
      <3>2. /\ step \in [Caller -> Steps] /\ nextID \in Nat /\ i = k
        BY <1>1, <3>1, MessageTyped DEF ThreadStarted, Waits, Inv, TypeOK, ClientTypeOK
      <3>3. CASE op[i].kind = "runTurn"
        <4>1. Send(i, "turn", nextID) /\ step'[i] = "turn"
          BY <2>4, <3>1, <3>2, <3>3 DEF ReadThread, ThreadStarted
        <4> QED
          BY <1>4, <3>1, <3>2, <4>1, OwnSend
      <3>4. CASE op[i].kind # "runTurn"
        <4>1. step'[i] = "ok" /\ toServer' = << >>
          BY <1>4, <2>4, <3>1, <3>2, <3>4 DEF ReadThread, ThreadStarted, Return
        <4>2. \A j \in Caller \ {i} : step'[j] \notin Busy
          BY <3>1, OperationAlone DEF Operation, Inv, TypeOK
        <4> QED
          BY <3>1, <4>1, <4>2 DEF Own, Quiet, Waits, Busy
      <3> QED
        BY <3>3, <3>4
    <2> QED
      BY <1>2, <2>2, <2>3, <2>4 DEF Moves
  <1> QED
    BY <1>3, <1>4 DEF OwnThread

LEMMA OwnStep ==
    ASSUME Inv, StreamTypeOK, Silent, Requests, TasksApart, Own, [StreamNext]_allVars
    PROVE  Own'
  <1> SUFFICES ASSUME session' \in procs', ~mixed' PROVE Own'
    BY DEF Own
  <1>1. CASE Still
    <2>1. /\ UNCHANGED <<toServer, toClient, nextID, agg, tasks, mixed, session, procs>>
          /\ \A j \in Caller : Waits(j) \/ Waits(j)' => op'[j] = op[j] /\ step'[j] = step[j]
      BY <1>1 DEF Still
    <2>2. session \in procs /\ ~mixed
      BY <2>1
    <2>3. CASE Quiet /\ \A k \in Caller : ~Waits(k)
      <3>1. Quiet' /\ \A k \in Caller : ~Waits(k)'
        BY <2>1, <2>3 DEF Quiet, Waits
      <3> QED
        BY <3>1 DEF Own
    <2>4. ASSUME NEW k \in Caller, step[k] = "thread", OwnThread PROVE Own'
      <3>1. step'[k] = "thread" /\ OwnThread'
        BY <2>1, <2>4 DEF OwnThread, Waits
      <3> QED
        BY <3>1 DEF Own
    <2>5. ASSUME NEW k \in Caller, step[k] = "turn", OwnRequest(k) PROVE Own'
      <3>1. step'[k] = "turn" /\ OwnRequest(k)'
        BY <2>1, <2>5 DEF OwnRequest, Waits
      <3> QED
        BY <3>1 DEF Own
    <2>6. ASSUME NEW k \in Caller, step[k] \in {"turn", "stream"}, OwnTurn(k) PROVE Own'
      <3>1. step'[k] = step[k] /\ op'[k] = op[k]
        BY <2>1, <2>6 DEF Waits
      <3>2. OwnTurn(k)'
        BY <2>1, <2>6, <3>1 DEF OwnTurn, OwnMessages, OwnNames, OneResponse, OneCompletion,
           OneQuestion, Asking
      <3> QED
        BY <2>6, <3>1, <3>2 DEF Own
    <2> QED
      BY <2>2, <2>3, <2>4, <2>5, <2>6 DEF Own
  <1>2. ~Gone
    BY DEF Gone
  <1>3. ASSUME NEW k \in Caller, SendFirst(k) PROVE Own'
    <2>1. /\ step[k] = "try" /\ step'[k] = FirstRequest(k) /\ FirstRequest(k) \in {"thread", "turn"}
          /\ UNCHANGED <<toClient, tasks, mixed>>
          /\ session \in procs => session' = session
          /\ \E id \in Nat : Send(k, FirstRequest(k), id)
      BY <1>3, SendFirstFacts
    <2>2. \A j \in Caller : ~Waits(j)
      BY <2>1, OneWaits DEF Waits, Busy
    <2>3. toServer = << >> /\ toClient = << >> /\ tasks = {}
      <3>1. CASE session \notin procs
        BY <3>1 DEF Silent
      <3>2. CASE session \in procs
        BY <2>1, <2>2, <3>2 DEF Own, Quiet, Waits
      <3> QED
        BY <3>1, <3>2
    <2> QED
      BY <2>1, <2>3, OwnSend
  <1>4. ASSUME Moves, session \in procs, UNCHANGED <<session, procs>>, nextID' >= nextID PROVE Own'
    <2>1. ~mixed
      <3>1. mixed' = mixed \/ mixed' = TRUE
        BY <1>4, WorkFacts DEF Moves, SendFirst, ReadAsk, ReadNotification, SkipResponse, ReadThread,
           ReadTurn, ReadCompleted, LoopEnds, streamVars, StartThread, TakeUp, Refuse, TakeAnswer,
           SendExtra
      <3> QED
        BY <3>1
    <2>2. CASE Quiet /\ \A k \in Caller : ~Waits(k)
      <3>1. \A k \in Caller : /\ ~Read(k)
                              /\ step[k] # "stream"
        BY <2>2 DEF Quiet, Read, CanRead, Waits
      <3>2. \A kind : ~Takes(kind)
        BY <2>2 DEF Quiet, Takes
      <3>3. \E k \in Caller : SendFirst(k)
        BY <1>4, <2>2, <3>1, <3>2 DEF Moves, ReadAsk, ReadNotification, SkipResponse, ReadThread,
           ReadTurn, ReadCompleted, LoopEnds, EndTurn, TurnCompleted, StartThread, TakeUp, Refuse,
           TakeAnswer, SendExtra, Quiet
      <3> QED
        BY <1>3, <3>3
    <2>3. ASSUME NEW k \in Caller, step[k] = "thread", OwnThread PROVE Own'
      BY <1>4, <2>3, OwnThreadStep
    <2>4. ASSUME NEW k \in Caller, step[k] = "turn", OwnRequest(k) PROVE Own'
      BY <1>4, <2>4, OwnRequestStep
    <2>5. ASSUME NEW k \in Caller, step[k] \in {"turn", "stream"}, OwnTurn(k) PROVE Own'
      BY <1>4, <2>5, OwnTurnStep
    <2> QED
      BY <1>4, <2>1, <2>2, <2>3, <2>4, <2>5 DEF Own
  <1>5. Still \/ Moves
    BY <1>2, StreamSteps, StillIsStill, GoneIsGone
  <1>6. \/ \E k \in Caller : SendFirst(k)
        \/ session \in procs /\ UNCHANGED <<session, procs>> /\ nextID' >= nextID
        \/ Still
    BY <1>5, MovesAlive
  <1> QED
    BY <1>1, <1>3, <1>4, <1>5, <1>6
-----------------------------------------------------------------------------
(* The invariant, and what follows. *)

StreamInvariant ==
    /\ Inv /\ StreamTypeOK /\ Silent /\ Requests /\ TasksApart
    /\ AskIsUnderway /\ Exec /\ Faultless /\ Own

LEMMA InitStream == StreamInit => StreamInvariant
  <1> SUFFICES ASSUME StreamInit PROVE StreamInvariant
    OBVIOUS
  <1> USE CallersAre
  <1>1. Init /\ Inv
    BY InitInv DEF StreamInit
  <1>2. /\ session = 0 /\ procs = {} /\ faults = 0
        /\ \A k \in Caller : step[k] = "idle" /\ executed[k] = 0
        /\ \A c \in Channel : at[c] = "idle"
        /\ attempt = [k \in Caller |-> 0]
    BY <1>1 DEF Init, ClientInit, StreamInit
  <1>3. /\ toServer = << >> /\ toClient = << >> /\ DOMAIN toServer = {} /\ DOMAIN toClient = {}
        /\ tasks = {} /\ ~mixed
    BY EmptyFacts DEF StreamInit
  <1>4. StreamTypeOK
    <2>1. nextID \in Nat /\ said \in 0..MaxSaid /\ extras \in 0..MaxExtra /\ mixed \in BOOLEAN
      <3>1. nextID = 1 /\ said = 0 /\ extras = 0 /\ mixed = FALSE
        BY DEF StreamInit, initRequestID
      <3>2. 0 \in 0..MaxSaid /\ 0 \in 0..MaxExtra
        BY ONLY StreamAssumption
      <3> QED
        BY ONLY <3>1, <3>2
    <2>2. executed \in [Caller -> Nat]
      BY DEF StreamInit
    <2>3. agg \in Aggregators
      BY ThreadFacts DEF StreamInit, NewAggregator, Aggregators
    <2> QED
      BY <1>3, <2>1, <2>2, <2>3, EmptyFacts, StreamTypeParts DEF StreamTyped
  <1>5. Silent /\ Requests /\ TasksApart /\ AskIsUnderway /\ Own
    BY <1>2, <1>3 DEF Silent, Waits, Requests, TasksApart, AskIsUnderway, Own
  <1>6. Exec
    BY <1>2 DEF Exec, ChannelExec, HeartbeatExec, TurnPlaces
  <1>7. Faultless
    BY <1>2 DEF Faultless
  <1> QED
    BY <1>1, <1>4, <1>5, <1>6, <1>7 DEF StreamInvariant

LEMMA StreamInvariantStep == StreamInvariant /\ [StreamNext]_allVars => StreamInvariant'
  <1> SUFFICES ASSUME StreamInvariant, [StreamNext]_allVars PROVE StreamInvariant'
    OBVIOUS
  <1> USE DEF StreamInvariant
  <1>1. Inv'
    BY StreamStepIsStep, StepInv
  <1>2. StreamTypeOK'
    BY StreamTypeStep
  <1>3. Silent'
    BY SilentStep
  <1>4. Requests'
    BY RequestsStep
  <1>5. TasksApart'
    BY TasksApartStep
  <1>6. AskIsUnderway'
    BY AskStep
  <1>7. Exec'
    BY ExecStep
  <1>8. Faultless'
    BY FaultlessStep
  <1>9. Own'
    BY OwnStep
  <1> QED
    BY <1>1, <1>2, <1>3, <1>4, <1>5, <1>6, <1>7, <1>8, <1>9

LEMMA AlwaysStream == StreamSpec => []StreamInvariant
  BY InitStream, StreamInvariantStep, PTL DEF StreamSpec

\* A pipe holds nothing about a request that was not sent yet.
THEOREM StreamTypes == StreamSpec => []StreamTypeOK
  <1>1. StreamInvariant => StreamTypeOK
    BY DEF StreamInvariant
  <1> QED
    BY <1>1, AlwaysStream, PTL

\* handleServerRequest answers in every read: what the app-server asked for a turn,
\* or the answer, is under way, whoever holds c.mu.
THEOREM QuestionsAreUnderway == StreamSpec => []AskIsUnderway
  <1>1. StreamInvariant => AskIsUnderway
    BY DEF StreamInvariant
  <1> QED
    BY <1>1, AlwaysStream, PTL

\* Counted where it is executed: once as long as the app-server is faultless, twice
\* at most after any number of faults and retries.
THEOREM ExecutionIsBounded == StreamSpec => []ExecutedAgainAfterFault
  <1>1. ASSUME StreamInvariant PROVE ExecutedAgainAfterFault
    <2> USE CallersAre
    <2>1. /\ executed \in [Caller -> Nat] /\ faults \in Nat
          /\ \A c \in Channel : at[c] \in TurnPlaces \cup {"idle", "newThread"}
      BY <1>1, CallerAssumption, StreamTypeParts DEF StreamInvariant, StreamTyped, Inv, TypeOK,
         ClientTypeOK, Places, TurnPlaces
    <2>2. \A c \in Channel : executed[c] <= 2
      BY <1>1, <2>1 DEF StreamInvariant, Exec, ChannelExec, Before
    <2>3. \A k \in Caller : executed[k] \in Nat /\ executed[k] <= 2
      BY <1>1, <2>1, <2>2 DEF StreamInvariant, Exec, HeartbeatExec
    <2>4. faults = 0 => \A k \in Caller : executed[k] <= 1
      BY <1>1 DEF StreamInvariant, Faultless
    <2> QED
      BY <2>1, <2>3, <2>4 DEF ExecutedAgainAfterFault
  <1> QED
    BY <1>1, AlwaysStream, PTL

\* Only its completion ends a turn well.
LEMMA EndsWell ==
    ASSUME Inv, StreamTypeOK, TasksApart, [StreamNext]_allVars,
           NEW k \in Caller, step[k] = "stream", step'[k] = "ok"
    PROVE  ReadCompleted(k) \/ LoopEnds(k)
  <1>0. TypeOK /\ ClientTypeOK /\ step \in [Caller -> Steps]
    BY DEF Inv, TypeOK, ClientTypeOK
  <1>1. ASSUME NEW j \in Caller, Operation(j), j # k PROVE FALSE
    BY <1>0, <1>1, OperationFrame
  <1>2. ~Still
    BY DEF Still, Waits
  <1>3. ~GoneStep
    <2>1. ASSUME NEW j \in Caller, ReadRefusal(j) \/ ReadFaulty(j) \/ ReadEOF(j) PROVE FALSE
      <3>1. Operation(j) /\ Fail(j)
        BY <2>1 DEF ReadRefusal, ReadFaulty, ReadEOF, TurnRefused, RequestFaults, FindDead, Operation
      <3>2. j = k
        BY <1>1, <3>1
      <3>3. step'[k] \in {"try", "failed"}
        BY <1>0, <3>1, <3>2, FailLeads
      <3> QED
        BY <3>3
    <2>2. ASSUME NEW j \in Caller, CloseStream(j) PROVE FALSE
      BY <1>1, <2>2 DEF CloseStream, Close, Operation
    <2>3. ~ServerCrash
      BY DEF ServerCrash, Crash
    <2> QED
      BY <2>1, <2>2, <2>3 DEF GoneStep
  <1>4. CASE Moves
    <2>1. UNCHANGED vars => FALSE
      BY DEF vars
    <2>2. ASSUME NEW t \in tasks, Respond(t) \/ Notify(t) \/ Ask(t) \/ Complete(t) PROVE FALSE
      BY <2>1, <2>2, WorkFacts
    <2>3. ~StartThread /\ ~TakeUp /\ ~Refuse /\ ~TakeAnswer /\ ~SendExtra
      BY <2>1 DEF StartThread, TakeUp, Refuse, TakeAnswer, SendExtra
    <2>4. ASSUME NEW j \in Caller,
                 SendFirst(j) \/ ReadThread(j) \/ ReadTurn(j)
          PROVE  FALSE
      <3>1. Operation(j) /\ step[j] # "stream"
        BY <2>4 DEF SendFirst, EnsureSession, ReadThread, ThreadStarted, ReadTurn, TurnAccepted, Operation
      <3> QED
        BY <1>1, <3>1
    <2>5. ASSUME NEW j \in Caller, ReadAsk(j) \/ ReadNotification(j) \/ SkipResponse(j) PROVE FALSE
      BY <2>1, <2>5 DEF ReadAsk, ReadNotification, SkipResponse
    <2>6. ASSUME NEW j \in Caller, ReadCompleted(j) \/ LoopEnds(j) PROVE j = k
      <3>1. Operation(j)
        BY <2>6 DEF ReadCompleted, LoopEnds, EndTurn, Operation
      <3> QED
        BY <1>1, <3>1
    <2> QED
      BY <1>4, <2>2, <2>3, <2>4, <2>5, <2>6 DEF Moves
  <1> QED
    BY <1>2, <1>3, <1>4, StreamSteps, StillIsStill

\* turnAggregator compares nothing with the turn that waits, and yet: as long as the
\* app-server sends nothing about what is over, a turn that ends well has its own
\* content, all of one request, and its own id or none.
THEOREM ResultsAreTheTurns == StreamSpec => ResultsAreOwn
  <1>1. ASSUME StreamInvariant, [StreamNext]_allVars, NEW k \in Caller,
               step[k] = "stream", step'[k] = "ok", ~mixed
        PROVE  /\ agg'.from = {nextID - 1}
               /\ op'[k].turn \in {op[k].thread, NoThread}
    <2> USE DEF StreamInvariant
    <2>1. ReadCompleted(k) \/ LoopEnds(k)
      BY <1>1, EndsWell
    <2>2. session \in procs /\ op'[k].turn = agg'.turn
      BY <2>1 DEF ReadCompleted, LoopEnds, EndTurn, TurnCompleted, streamVars
    <2>3. \A j \in Caller \ {k} : ~Waits(j)
      BY <1>1, OneWaits DEF Busy
    <2>4. OwnMessages(k)
      BY <1>1, <2>2, <2>3 DEF Own, Waits, OwnTurn
    <2>5. CASE ReadCompleted(k)
      <3>1. 1 \in DOMAIN toClient /\ Received = toClient[1] /\ agg' = Consume(agg, Received)
        BY <1>1, <2>5, OwnTail DEF ReadCompleted
      <3>2. Received.id = nextID - 1 /\ Received.names \in OwnNames(k)
        BY <2>4, <3>1 DEF OwnMessages
      <3> QED
        BY <2>2, <2>4, <3>1, <3>2 DEF Consume, OwnMessages, OwnNames
    <2>6. CASE LoopEnds(k)
      BY <2>2, <2>4, <2>6 DEF LoopEnds, streamVars, OwnMessages, OwnNames
    <2> QED
      BY <2>1, <2>5, <2>6
  <1>2. StreamInvariant /\ [StreamNext]_allVars
          => [\A k \in Caller :
                 /\ step[k] = "stream" /\ step'[k] = "ok" /\ ~mixed
                 => /\ agg'.from = {nextID - 1}
                    /\ op'[k].turn \in {op[k].thread, NoThread}]_allVars
    BY <1>1
  <1> QED
    BY <1>2, AlwaysStream, PTL DEF StreamSpec, ResultsAreOwn
-----------------------------------------------------------------------------
(* What is left over between two operations. *)

\* The messages of one kind in a pipe.
At(s, kind) == {i \in DOMAIN s : s[i].kind = kind}
Count(s, kind) == Cardinality(At(s, kind))

LEMMA CountType ==
    ASSUME NEW S, NEW s \in Seq(S), NEW kind
    PROVE  IsFiniteSet(At(s, kind)) /\ Count(s, kind) \in Nat
  <1>1. IsFiniteSet(1..Len(s))
    BY FS_Interval
  <1>2. At(s, kind) \in SUBSET (1..Len(s))
    BY DEF At
  <1>3. IsFiniteSet(At(s, kind))
    BY <1>1, <1>2, FS_Subset
  <1> QED
    BY <1>3, FS_CardinalityType DEF Count

LEMMA CountEmpty == \A kind : Count(<< >>, kind) = 0
  <1>1. \A kind : At(<< >>, kind) = {}
    BY DEF At
  <1> QED
    BY <1>1, FS_EmptySet DEF Count

LEMMA CountAppend ==
    ASSUME NEW S, NEW s \in Seq(S), NEW e, NEW kind
    PROVE  /\ e.kind = kind => Count(Append(s, e), kind) = Count(s, kind) + 1
           /\ e.kind # kind => Count(Append(s, e), kind) = Count(s, kind)
  <1> DEFINE n == Len(s) + 1
  <1>1. IsFiniteSet(At(s, kind)) /\ n \notin At(s, kind)
    <2>1. IsFiniteSet(At(s, kind))
      BY CountType
    <2>2. n \notin DOMAIN s
      OBVIOUS
    <2> QED
      BY <2>1, <2>2 DEF At
  <1>2. /\ DOMAIN Append(s, e) = DOMAIN s \cup {n}
        /\ \A i \in DOMAIN s : Append(s, e)[i] = s[i]
        /\ Append(s, e)[n] = e
    <2>1. s \in Seq(S \cup {e}) /\ e \in S \cup {e}
      BY SeqWiden
    <2> QED
      BY <2>1, AppendFacts
  <1> HIDE DEF n
  <1>3. CASE e.kind = kind
    <2>1. At(Append(s, e), kind) = At(s, kind) \cup {n}
      BY <1>2, <1>3 DEF At
    <2> QED
      BY <1>1, <1>3, <2>1, FS_AddElement DEF Count
  <1>4. CASE e.kind # kind
    <2>1. At(Append(s, e), kind) = At(s, kind)
      <3>1. n \notin DOMAIN s \/ n \in DOMAIN s
        OBVIOUS
      <3>2. n \notin DOMAIN s
        BY DEF n
      <3> QED
        BY <1>2, <1>4, <3>2 DEF At
    <2> QED
      BY <1>4, <2>1 DEF Count
  <1> QED
    BY <1>3, <1>4

LEMMA CountTail ==
    ASSUME NEW S, NEW s \in Seq(S), s # << >>, NEW kind
    PROVE  /\ Head(s).kind = kind => Count(s, kind) = Count(Tail(s), kind) + 1
           /\ Head(s).kind # kind => Count(s, kind) = Count(Tail(s), kind)
  <1>1. /\ Tail(s) \in Seq(S)
        /\ 1 \in DOMAIN s /\ Head(s) = s[1]
        /\ \A i \in DOMAIN Tail(s) : i \in Nat \ {0} /\ i + 1 \in DOMAIN s /\ Tail(s)[i] = s[i + 1]
        /\ \A i \in DOMAIN s : i = 1 \/ (i - 1 \in DOMAIN Tail(s) /\ Tail(s)[i - 1] = s[i])
    BY TailFacts
  <1> DEFINE rest == At(s, kind) \ {1}
             shift == [i \in At(Tail(s), kind) |-> i + 1]
  <1>2. IsFiniteSet(At(s, kind)) /\ IsFiniteSet(At(Tail(s), kind))
    BY <1>1, CountType
  <1>3. shift \in Bijection(At(Tail(s), kind), rest)
    <2>1. \A i \in At(Tail(s), kind) : i \in Nat \ {0} /\ i + 1 \in rest
      BY <1>1 DEF At
    <2>2. \A i \in rest : i - 1 \in At(Tail(s), kind) /\ (i - 1) + 1 = i
      <3> SUFFICES ASSUME NEW i \in DOMAIN s, s[i].kind = kind, i # 1
                   PROVE  i - 1 \in At(Tail(s), kind) /\ (i - 1) + 1 = i
        BY DEF At
      <3>1. i - 1 \in DOMAIN Tail(s) /\ Tail(s)[i - 1] = s[i] /\ i \in Int
        BY <1>1
      <3> QED
        BY <3>1 DEF At
    <2> HIDE DEF rest
    <2>3. shift \in [At(Tail(s), kind) -> rest]
      BY <2>1
    <2>4. \A i, j \in At(Tail(s), kind) : shift[i] = shift[j] => i = j
      BY <2>1
    <2>5. \A y \in rest : \E x \in At(Tail(s), kind) : shift[x] = y
      <3> SUFFICES ASSUME NEW y \in rest PROVE \E x \in At(Tail(s), kind) : shift[x] = y
        OBVIOUS
      <3>1. y - 1 \in At(Tail(s), kind) /\ shift[y - 1] = y
        BY <2>2
      <3> QED
        BY <3>1
    <2> HIDE DEF shift
    <2> QED
      BY <2>3, <2>4, <2>5 DEF Bijection, Injection, Surjection, IsInjective
  <1> HIDE DEF shift
  <1>4. Cardinality(rest) = Count(Tail(s), kind)
    BY <1>2, <1>3, FS_Bijection DEF ExistsBijection, Count
  <1>5. Cardinality(rest) = IF 1 \in At(s, kind) THEN Count(s, kind) - 1 ELSE Count(s, kind)
    BY <1>2, FS_RemoveElement DEF Count
  <1>6. Count(s, kind) \in Nat /\ Count(Tail(s), kind) \in Nat
    BY <1>1, CountType
  <1>7. 1 \in At(s, kind) <=> Head(s).kind = kind
    BY <1>1 DEF At
  <1> HIDE DEF rest
  <1> QED
    BY <1>4, <1>5, <1>6, <1>7

\* The turns that will end, have ended in a message, or have not been taken up.
Undone == {t \in tasks : ~t.done}
Outstanding == Cardinality(Undone) + Count(toClient, "done") + Count(toServer, "turn")

\* One of them belongs to the operation that waits, until it finds its turn completed.
Owed == \E k \in Caller : step[k] \in {"turn", "stream"} /\ ~agg.completed

LeftOver == /\ IsFiniteSet(tasks)
            /\ Outstanding <= extras + (IF Owed THEN 1 ELSE 0)

\* A task without its response is the last request's, and its caller waits for that.
AnswersKnown ==
    /\ \A t \in tasks : /\ ~(t.answered /\ t.done)
                        /\ ~t.answered => /\ t.id = nextID - 1
                                          /\ \E k \in Caller : step[k] = "turn"
    /\ \A i \in DOMAIN toClient :
          Answer(toClient[i]) /\ toClient[i].id = nextID - 1
          => \A t \in tasks : t.id = nextID - 1 => t.answered

LEMMA CountsTyped ==
    ASSUME StreamTypeOK, IsFiniteSet(tasks)
    PROVE  /\ IsFiniteSet(Undone) /\ Cardinality(Undone) \in Nat
           /\ Count(toClient, "done") \in Nat /\ Count(toServer, "turn") \in Nat
           /\ extras \in Nat
           /\ Outstanding \in Nat
  <1>1. Undone \in SUBSET tasks
    BY DEF Undone
  <1>2. IsFiniteSet(Undone) /\ Cardinality(Undone) \in Nat
    BY <1>1, FS_Subset, FS_CardinalityType
  <1>3. /\ toServer \in Seq(ServerMessages(nextID)) /\ toClient \in Seq(ClientMessages(nextID))
        /\ extras \in Nat
    BY StreamTypeParts DEF StreamTyped
  <1>4. Count(toClient, "done") \in Nat /\ Count(toServer, "turn") \in Nat
    BY <1>3, CountType
  <1> QED
    BY <1>2, <1>3, <1>4 DEF Outstanding

\* A task that goes on is counted as long as it is not done.
LEMMA UndoneGoes ==
    ASSUME StreamTypeOK, TasksApart, IsFiniteSet(tasks), NEW t \in tasks, NEW u,
           u.id = t.id, t.done \in BOOLEAN, u.done \in BOOLEAN, Goes(t, u)
    PROVE  /\ IsFiniteSet(tasks')
           /\ u.done = t.done => Cardinality(Undone') = Cardinality(Undone)
           /\ ~t.done /\ u.done => Cardinality(Undone') = Cardinality(Undone) - 1
  <1>1. \A v \in tasks \ {t} : v.id # t.id
    BY DEF TasksApart
  <1>2. tasks' = (tasks \ {t}) \cup (IF u.answered /\ u.done THEN {} ELSE {u})
    BY DEF Goes
  <1>3. IsFiniteSet(tasks')
    <2>1. IsFiniteSet(tasks \ {t})
      BY FS_RemoveElement
    <2>2. IsFiniteSet((tasks \ {t}) \cup {u})
      BY <2>1, FS_AddElement
    <2> QED
      BY <1>2, <2>1, <2>2
  <1>4. IsFiniteSet(Undone) /\ Cardinality(Undone) \in Nat
    BY CountsTyped
  <1>5. u \notin tasks \ {t}
    BY <1>1
  <1> DEFINE rest == Undone \ {t}
  <1>6. IsFiniteSet(rest) /\ u \notin rest
    BY <1>4, <1>5, FS_RemoveElement DEF Undone
  <1>7. CASE ~t.done
    <2>1. t \in Undone
      BY <1>7 DEF Undone
    <2>2. Cardinality(rest) = Cardinality(Undone) - 1
      BY <1>4, <2>1, FS_RemoveElement
    <2>3. CASE ~u.done
      <3>1. Undone' = rest \cup {u}
        BY <1>2, <2>3 DEF Undone
      <3>2. Cardinality(rest \cup {u}) = Cardinality(rest) + 1
        BY <1>6, FS_AddElement
      <3> QED
        BY <1>3, <1>4, <1>7, <2>2, <2>3, <3>1, <3>2
    <2>4. CASE u.done
      <3>1. Undone' = rest
        BY <1>2, <2>4 DEF Undone
      <3> QED
        BY <1>3, <1>7, <2>2, <2>4, <3>1
    <2> QED
      BY <2>3, <2>4
  <1>8. CASE t.done
    <2>1. u.done = t.done => Undone' = Undone
      BY <1>2, <1>8 DEF Undone
    <2> QED
      BY <1>3, <1>8, <2>1
  <1> QED
    BY <1>7, <1>8

\* What a read leaves.
LEMMA ReadCounts ==
    ASSUME StreamTypeOK, NEW k \in Caller, Read(k)
    PROVE  /\ Count(toClient', "done") \in Nat
           /\ Count(toClient, "done") = Count(toClient', "done")
                 + (IF Received.kind = "done" THEN 1 ELSE 0)
  <1>1. toClient \in Seq(ClientMessages(nextID)) /\ toClient # << >>
        /\ toClient' = Tail(toClient) /\ Received = Head(toClient)
    BY StreamTypeParts DEF StreamTyped, Read, CanRead, Received
  <1>2. Tail(toClient) \in Seq(ClientMessages(nextID))
    BY <1>1
  <1>3. Count(Tail(toClient), "done") \in Nat
    BY <1>2, CountType
  <1> QED
    BY <1>1, <1>3, CountTail

LEMMA TakeCounts ==
    ASSUME StreamTypeOK, NEW kind, Takes(kind)
    PROVE  /\ Count(toServer', "turn") \in Nat
           /\ Count(toServer, "turn") = Count(toServer', "turn")
                 + (IF kind = "turn" THEN 1 ELSE 0)
  <1>1. toServer \in Seq(ServerMessages(nextID)) /\ toServer # << >>
        /\ toServer' = Tail(toServer) /\ Head(toServer).kind = kind
    BY StreamTypeParts DEF StreamTyped, Takes, Incoming
  <1>2. Tail(toServer) \in Seq(ServerMessages(nextID))
    BY <1>1
  <1>3. Count(Tail(toServer), "turn") \in Nat
    BY <1>2, CountType
  <1> QED
    BY <1>1, <1>3, CountTail

LEMMA SendCounts ==
    ASSUME StreamTypeOK, NEW kind, NEW id, NEW names, Sends(kind, id, names)
    PROVE  Count(toClient', "done") = Count(toClient, "done") + (IF kind = "done" THEN 1 ELSE 0)
  <1>1. toClient \in Seq(ClientMessages(nextID))
    BY StreamTypeParts DEF StreamTyped
  <1>2. Message(kind, id, names).kind = kind
    BY DEF Message
  <1>3. toClient' = Append(toClient, Message(kind, id, names))
    BY DEF Sends
  <1>4. Count(toClient, "done") \in Nat
    BY <1>1, CountType
  <1> HIDE DEF Message
  <1> QED
    BY <1>1, <1>2, <1>3, <1>4, CountAppend

LEMMA RequestCounts ==
    ASSUME StreamTypeOK, NEW k \in Caller, NEW kind \in {"thread", "turn"}, NEW id,
           Send(k, kind, id)
    PROVE  /\ Count(toServer', "turn") <= Count(toServer, "turn") + (IF kind = "turn" THEN 1 ELSE 0)
           /\ Count(toServer', "turn") \in Nat
  <1>1. toServer \in Seq(ServerMessages(nextID))
    BY StreamTypeParts DEF StreamTyped
  <1>2. Count(toServer, "turn") \in Nat
    BY <1>1, CountType
  <1>3. Request(kind, id, k).kind = kind
    BY DEF Request
  <1>4. /\ kind = "turn" => Count(Append(toServer, Request(kind, id, k)), "turn")
                                = Count(toServer, "turn") + 1
        /\ kind # "turn" => Count(Append(toServer, Request(kind, id, k)), "turn")
                                = Count(toServer, "turn")
    BY <1>1, <1>3, CountAppend
  <1> HIDE DEF Request
  <1>5. CASE toServer' = toServer
    BY <1>2, <1>5
  <1>6. CASE toServer' = Append(toServer, Request(kind, id, k))
    BY <1>2, <1>4, <1>6
  <1> QED
    BY <1>5, <1>6 DEF Send

LEMMA ClientAppend ==
    ASSUME StreamTypeOK, NEW m, toClient' = Append(toClient, m)
    PROVE  \A i \in DOMAIN toClient' : \/ toClient'[i] = m
                                       \/ i \in DOMAIN toClient /\ toClient'[i] = toClient[i]
  <1>1. toClient \in Seq(ClientMessages(nextID) \cup {m})
    BY StreamTypeParts, SeqWiden DEF StreamTyped
  <1> QED
    BY <1>1, AppendFacts

\* Who has sent nothing, or streams, leaves no task without its response.
LEMMA AllAnswered ==
    ASSUME Inv, AnswersKnown, NEW k \in Caller, step[k] \in {"try", "thread", "stream"}
    PROVE  \A t \in tasks : t.answered
  <1>1. \A j \in Caller : step[j] # "turn"
    BY OneWaits DEF Waits, Busy
  <1> QED
    BY <1>1 DEF AnswersKnown

LEMMA AnswersKnownStep ==
    ASSUME Inv, StreamTypeOK, Silent, Requests, TasksApart, AnswersKnown, [StreamNext]_allVars
    PROVE  AnswersKnown'
  <1>1. CASE Still
    BY <1>1 DEF Still, AnswersKnown, Waits
  <1>2. CASE Gone
    BY <1>2, EmptyFacts DEF Gone, PipesGone, AnswersKnown
  <1>3. ASSUME UNCHANGED tasks, \A t \in tasks : t.answered
        PROVE  AnswersKnown'
    BY <1>3 DEF AnswersKnown
  <1>4. ASSUME NEW k \in Caller, SendFirst(k) \/ ReadThread(k) \/ ReadCompleted(k) \/ LoopEnds(k)
        PROVE  AnswersKnown'
    <2>1. UNCHANGED tasks /\ step[k] \in {"try", "thread", "stream"}
      BY <1>4 DEF SendFirst, EnsureSession, ReadThread, ThreadStarted, ReadCompleted, LoopEnds,
         EndTurn, TurnCompleted, streamVars
    <2> QED
      BY <1>3, <2>1, AllAnswered
  <1>5. ASSUME NEW k \in Caller, Read(k)
        PROVE  /\ \A i \in DOMAIN toClient' : \E j \in DOMAIN toClient : toClient'[i] = toClient[j]
               /\ 1 \in DOMAIN toClient /\ Received = toClient[1]
    BY <1>5, ReadFacts, StreamTypeParts DEF StreamTyped
  <1>6. ASSUME NEW k \in Caller, ReadAsk(k) \/ ReadNotification(k) \/ SkipResponse(k)
        PROVE  AnswersKnown'
    <2>1. Read(k) /\ UNCHANGED <<step, nextID, tasks>>
      BY <1>6 DEF ReadAsk, ReadNotification, SkipResponse, vars
    <2> QED
      BY <1>5, <2>1 DEF AnswersKnown
  <1>7. ASSUME NEW k \in Caller, ReadTurn(k) PROVE AnswersKnown'
    <2>1. Read(k) /\ Received.kind = "response" /\ Received.id = nextID - 1 /\ UNCHANGED tasks
      BY <1>7 DEF ReadTurn, Matches
    <2>2. \A t \in tasks : t.answered
      BY <1>5, <2>1 DEF AnswersKnown, Answer
    <2> QED
      BY <1>3, <2>1, <2>2
  <1>8. ASSUME NEW m, toClient' = Append(toClient, m), UNCHANGED <<step, nextID, tasks>>,
               Answer(m) => \A t \in tasks : t.id # m.id
        PROVE  AnswersKnown'
    BY <1>8, ClientAppend DEF AnswersKnown
  <1>9. CASE StartThread \/ Refuse
    <2>1. Takes("thread") \/ Takes("turn")
      BY <1>9 DEF StartThread, Refuse
    <2>2. \A t \in tasks : t.id # Incoming.id
      BY <2>1, TakeFacts, StreamTypeParts DEF StreamTyped, Requests
    <2>3. \E m : toClient' = Append(toClient, m) /\ m.id = Incoming.id
      BY <1>9 DEF StartThread, Refuse, Sends, Message
    <2> QED
      BY <1>8, <1>9, <2>2, <2>3 DEF StartThread, Refuse, vars
  <1>10. CASE SendExtra
    <2>1. \A m \in ExtraMessages(nextID - 1) : m.id = nextID - 1
      BY DEF ExtraMessages, Message
    <2>2. \E m : toClient' = Append(toClient, m) /\ m.id = nextID - 1
      BY <1>10, <2>1 DEF SendExtra
    <2>3. /\ \A t \in tasks : t.id # nextID - 1
          /\ UNCHANGED <<step, nextID, tasks>>
      BY <1>10 DEF SendExtra, vars
    <2> QED
      BY <1>8, <2>2, <2>3
  <1>11. CASE TakeUp
    <2> DEFINE new == NewTask(Incoming.id, Incoming.who)
    <2>1. /\ 1 \in DOMAIN toServer /\ Incoming = toServer[1] /\ toServer[1].kind = "turn"
      BY <1>11, TakeFacts, StreamTypeParts DEF TakeUp, StreamTyped
    <2>2. /\ Incoming.id = nextID - 1
          /\ Incoming.who \in Caller /\ step[Incoming.who] = "turn"
          /\ \A j \in DOMAIN toClient : toClient[j].id # nextID - 1
      BY <2>1, MessageTyped DEF Requests
    <2>3. new.id = nextID - 1 /\ ~new.answered
      BY <2>2 DEF NewTask
    <2>4. tasks' = tasks \cup {new} /\ UNCHANGED <<step, nextID, toClient>>
      BY <1>11 DEF TakeUp, vars
    <2> HIDE DEF new
    <2> QED
      BY <2>2, <2>3, <2>4 DEF AnswersKnown
  <1>12. CASE TakeAnswer
    <2>1. PICK t \in tasks : Goes(t, [t EXCEPT !.asking = FALSE])
      BY <1>12 DEF TakeAnswer
    <2> DEFINE u == [t EXCEPT !.asking = FALSE]
    <2>2. u.id = t.id /\ u.answered = t.answered
      BY TaskAfter
    <2>3. Goes(t, u) /\ UNCHANGED <<step, nextID, toClient>>
      BY <1>12, <2>1 DEF TakeAnswer, vars
    <2> HIDE DEF u
    <2>4. \A v \in tasks' : /\ ~(v.answered /\ v.done)
                            /\ \E w \in tasks : w.id = v.id /\ w.answered = v.answered
      BY <2>2, <2>3, GoesFacts DEF AnswersKnown
    <2> QED
      BY <2>3, <2>4 DEF AnswersKnown
  <1>13. ASSUME NEW t \in tasks, Respond(t) PROVE AnswersKnown'
    <2> DEFINE u == [t EXCEPT !.answered = TRUE]
    <2>1. u.id = t.id /\ u.answered
      BY TaskAfter
    <2>2. Goes(t, u) /\ UNCHANGED <<step, nextID>>
      BY <1>13 DEF Respond, vars
    <2>3. \E m : toClient' = Append(toClient, m) /\ m.id = t.id
      BY <1>13 DEF Respond, Sends, Message
    <2> HIDE DEF u
    <2>4. \A v \in tasks' : /\ ~(v.answered /\ v.done)
                            /\ v \in tasks \/ v.answered
                            /\ v.id = t.id => v.answered
      BY <2>1, <2>2, GoesFacts DEF AnswersKnown
    <2>5. \A i \in DOMAIN toClient' : \/ toClient'[i].id = t.id
                                      \/ i \in DOMAIN toClient /\ toClient'[i] = toClient[i]
      BY <2>3, ClientAppend
    <2> QED
      BY <2>2, <2>4, <2>5 DEF AnswersKnown
  <1>14. ASSUME NEW t \in tasks, Notify(t) PROVE AnswersKnown'
    <2>1. \E m : toClient' = Append(toClient, m) /\ m.kind = "note"
      BY <1>14 DEF Notify, Sends, Message
    <2> QED
      BY <1>8, <1>14, <2>1 DEF Notify, vars, Answer
  <1>15. ASSUME NEW t \in tasks, NEW u, NEW m, Goes(t, u),
                u.id = t.id, u.answered = t.answered,
                toClient' = Append(toClient, m), ~Answer(m), UNCHANGED <<step, nextID>>
         PROVE  AnswersKnown'
    <2>1. \A v \in tasks' : /\ ~(v.answered /\ v.done)
                            /\ \E w \in tasks : w.id = v.id /\ w.answered = v.answered
      BY <1>15, GoesFacts DEF AnswersKnown
    <2>2. \A i \in DOMAIN toClient' : Answer(toClient'[i]) =>
                                        i \in DOMAIN toClient /\ toClient'[i] = toClient[i]
      BY <1>15, ClientAppend
    <2> QED
      BY <1>15, <2>1, <2>2 DEF AnswersKnown
  <1>16. ASSUME NEW t \in tasks, Ask(t) PROVE AnswersKnown'
    <2> DEFINE u == [t EXCEPT !.asking = TRUE]
    <2>1. u.id = t.id /\ u.answered = t.answered
      BY TaskAfter
    <2>2. Goes(t, u) /\ UNCHANGED <<step, nextID>>
      BY <1>16 DEF Ask, vars
    <2>3. \E m : toClient' = Append(toClient, m) /\ m.kind = "ask"
      BY <1>16 DEF Ask, Sends, Message
    <2> HIDE DEF u
    <2> QED
      BY <1>15, <2>1, <2>2, <2>3 DEF Answer
  <1>17. ASSUME NEW t \in tasks, Complete(t) PROVE AnswersKnown'
    <2> DEFINE u == [t EXCEPT !.done = TRUE]
    <2>1. u.id = t.id /\ u.answered = t.answered
      BY TaskAfter
    <2>2. Goes(t, u) /\ UNCHANGED <<step, nextID>>
      BY <1>17 DEF Complete, vars
    <2>3. \E m : toClient' = Append(toClient, m) /\ m.kind = "done"
      BY <1>17 DEF Complete, Sends, Message
    <2> HIDE DEF u
    <2> QED
      BY <1>15, <2>1, <2>2, <2>3 DEF Answer
  <1> QED
    BY <1>1, <1>2, <1>4, <1>6, <1>7, <1>9, <1>10, <1>11, <1>12, <1>13, <1>14, <1>16, <1>17,
       StreamSteps, StillIsStill, GoneIsGone DEF Moves

\* The counts of a step, put together.
LEMMA LeftOverBy ==
    ASSUME StreamTypeOK, LeftOver, IsFiniteSet(tasks'), extras' = extras,
           Cardinality(Undone') \in Nat, Count(toClient', "done") \in Nat,
           Count(toServer', "turn") \in Nat,
           \/ /\ Owed <=> Owed'
              /\ Cardinality(Undone') + Count(toClient', "done") + Count(toServer', "turn")
                    <= Outstanding
           \/ /\ ~Owed /\ Owed'
              /\ Cardinality(Undone') + Count(toClient', "done") + Count(toServer', "turn")
                    <= Outstanding + 1
           \/ /\ ~Owed
              /\ Cardinality(Undone') + Count(toClient', "done") + Count(toServer', "turn")
                    <= Outstanding
           \/ /\ Owed
              /\ Cardinality(Undone') + Count(toClient', "done") + Count(toServer', "turn")
                    <= Outstanding - 1
    PROVE  LeftOver'
  <1>1. Outstanding' = Cardinality(Undone') + Count(toClient', "done") + Count(toServer', "turn")
    BY DEF Outstanding, Count, At
  <1>2. Outstanding \in Nat /\ extras \in Nat
    BY CountsTyped DEF LeftOver
  <1>3. Outstanding <= extras + (IF Owed THEN 1 ELSE 0)
    BY DEF LeftOver
  <1> HIDE DEF Owed
  <1>4. Outstanding' \in Nat
    BY <1>1
  <1>5. Outstanding' <= extras + (IF Owed' THEN 1 ELSE 0)
    <2> DEFINE c == Cardinality(Undone') + Count(toClient', "done") + Count(toServer', "turn")
    <2>1. c \in Nat /\ Outstanding' = c
      BY <1>1
    <2> HIDE DEF c
    <2>2. CASE (Owed <=> Owed') /\ c <= Outstanding
      BY <1>2, <1>3, <2>1, <2>2
    <2>3. CASE ~Owed /\ Owed' /\ c <= Outstanding + 1
      BY <1>2, <1>3, <2>1, <2>3
    <2>4. CASE ~Owed /\ c <= Outstanding
      BY <1>2, <1>3, <2>1, <2>4
    <2>5. CASE Owed /\ c <= Outstanding - 1
      BY <1>2, <1>3, <2>1, <2>5
    <2> QED
      BY <2>2, <2>3, <2>4, <2>5 DEF c
  <1> QED
    BY <1>5 DEF LeftOver

\* Nobody who sends a first request, or waits for a thread, has a turn.
LEMMA NothingOwed ==
    ASSUME Inv, NEW k \in Caller, step[k] \in {"try", "thread"}
    PROVE  ~Owed
  <1>1. \A j \in Caller : step[j] \notin {"turn", "stream"}
    BY OneWaits DEF Waits, Busy
  <1> QED
    BY <1>1 DEF Owed

\* The client's steps: each takes a message, or sends a request.
LEMMA LeftOverRead ==
    ASSUME Inv, StreamTypeOK, LeftOver, NEW k \in Caller, Read(k),
           UNCHANGED <<tasks, extras>>, Count(toServer', "turn") = Count(toServer, "turn"),
           \/ ~Owed
           \/ Owed' <=> Owed
           \/ Received.kind = "done"
    PROVE  LeftOver'
  <1>1. /\ IsFiniteSet(tasks) /\ IsFiniteSet(tasks') /\ Undone' = Undone
    BY DEF LeftOver, Undone
  <1>2. /\ Cardinality(Undone) \in Nat
        /\ Count(toClient, "done") \in Nat /\ Count(toServer, "turn") \in Nat
    BY <1>1, CountsTyped
  <1>3. /\ Count(toClient', "done") \in Nat
        /\ Count(toClient, "done") = Count(toClient', "done")
              + (IF Received.kind = "done" THEN 1 ELSE 0)
    BY ReadCounts
  <1> DEFINE u == Cardinality(Undone)
             d == Count(toClient, "done")
             e == Count(toClient', "done")
             t == Count(toServer, "turn")
  <1>4. /\ u \in Nat /\ d \in Nat /\ e \in Nat /\ t \in Nat
        /\ Outstanding = u + d + t
        /\ d = e + (IF Received.kind = "done" THEN 1 ELSE 0)
        /\ Cardinality(Undone') = u /\ Count(toServer', "turn") = t
    BY <1>1, <1>2, <1>3 DEF Outstanding
  <1> HIDE DEF u, d, e, t
  <1>5. u + e + t <= u + d + t
    BY <1>4
  <1>6. Received.kind = "done" => u + e + t <= (u + d + t) - 1
    BY <1>4
  <1>7. \/ (Owed <=> Owed') /\ u + e + t <= Outstanding
        \/ ~Owed /\ u + e + t <= Outstanding
        \/ Owed /\ u + e + t <= Outstanding - 1
    BY <1>4, <1>5, <1>6
  <1>8. u + e + t = Cardinality(Undone') + Count(toClient', "done") + Count(toServer', "turn")
    BY <1>4 DEF e
  <1> QED
    BY <1>1, <1>3, <1>4, <1>7, <1>8, LeftOverBy DEF e

LEMMA LeftOverSend ==
    ASSUME Inv, StreamTypeOK, LeftOver, NEW k \in Caller, step[k] \in {"try", "thread"},
           UNCHANGED <<tasks, extras>>, NEW kind \in {"thread", "turn"}, NEW id,
           Send(k, kind, id), step'[k] = kind,
           Count(toClient', "done") \in Nat, Count(toClient', "done") <= Count(toClient, "done")
    PROVE  LeftOver'
  <1>1. /\ IsFiniteSet(tasks) /\ IsFiniteSet(tasks') /\ Undone' = Undone
    BY DEF LeftOver, Undone
  <1>2. /\ Cardinality(Undone) \in Nat
        /\ Count(toClient, "done") \in Nat /\ Count(toServer, "turn") \in Nat
    BY <1>1, CountsTyped
  <1>3. /\ Count(toServer', "turn") <= Count(toServer, "turn") + (IF kind = "turn" THEN 1 ELSE 0)
        /\ Count(toServer', "turn") \in Nat
    BY RequestCounts
  <1>4. ~Owed
    BY NothingOwed
  <1>5. kind = "turn" => Owed'
    BY DEF Send, NewAggregator, Owed
  <1> DEFINE u == Cardinality(Undone)
             d == Count(toClient, "done")
             e == Count(toClient', "done")
             t == Count(toServer, "turn")
             r == Count(toServer', "turn")
  <1>6. /\ u \in Nat /\ d \in Nat /\ e \in Nat /\ t \in Nat /\ r \in Nat
        /\ Outstanding = u + d + t
        /\ e <= d /\ r <= t + (IF kind = "turn" THEN 1 ELSE 0)
        /\ Cardinality(Undone') = u
    BY <1>1, <1>2, <1>3 DEF Outstanding
  <1> HIDE DEF u, d, e, t, r
  <1>7. /\ kind = "turn" => u + e + r <= Outstanding + 1
        /\ kind # "turn" => u + e + r <= Outstanding
    BY <1>6
  <1>8. u + e + r = Cardinality(Undone') + Count(toClient', "done") + Count(toServer', "turn")
    BY <1>6 DEF e, r
  <1> QED
    BY <1>1, <1>3, <1>4, <1>5, <1>6, <1>7, <1>8, LeftOverBy DEF e

\* The server's: what is left over only changes its place.
LEMMA LeftOverServes ==
    ASSUME StreamTypeOK, LeftOver, UNCHANGED <<step, agg, extras>>, IsFiniteSet(tasks'),
           Cardinality(Undone') \in Nat, Count(toClient', "done") \in Nat,
           Count(toServer', "turn") \in Nat,
           Cardinality(Undone') + Count(toClient', "done") + Count(toServer', "turn")
              <= Cardinality(Undone) + Count(toClient, "done") + Count(toServer, "turn")
    PROVE  LeftOver'
  <1>1. Owed' <=> Owed
    BY DEF Owed
  <1>2. Outstanding = Cardinality(Undone) + Count(toClient, "done") + Count(toServer, "turn")
    BY DEF Outstanding
  <1> QED
    BY <1>1, <1>2, LeftOverBy

LEMMA LeftOverExtra ==
    ASSUME StreamTypeOK, LeftOver, SendExtra
    PROVE  LeftOver'
  <1>1. PICK m : toClient' = Append(toClient, m)
    BY DEF SendExtra
  <1>2. toClient \in Seq(ClientMessages(nextID))
    BY StreamTypeParts DEF StreamTyped
  <1>3. Count(toClient', "done") \in {Count(toClient, "done"), Count(toClient, "done") + 1}
    BY <1>1, <1>2, CountAppend
  <1>4. UNCHANGED <<step, toServer, agg, tasks>> /\ extras' = extras + 1
    BY DEF SendExtra, vars
  <1>5. /\ IsFiniteSet(tasks) /\ IsFiniteSet(tasks') /\ Undone' = Undone
        /\ Owed' <=> Owed
    BY <1>4 DEF LeftOver, Undone, Owed
  <1>6. /\ Cardinality(Undone) \in Nat
        /\ Count(toClient, "done") \in Nat /\ Count(toServer, "turn") \in Nat
        /\ extras \in Nat
    BY <1>5, CountsTyped
  <1> DEFINE u == Cardinality(Undone)
             d == Count(toClient, "done")
             e == Count(toClient', "done")
             t == Count(toServer, "turn")
             o == IF Owed THEN 1 ELSE 0
  <1>7. /\ u \in Nat /\ d \in Nat /\ t \in Nat /\ o \in Nat /\ e \in {d, d + 1}
        /\ u + d + t <= extras + o
        /\ Outstanding' = u + e + t
    BY <1>3, <1>4, <1>5, <1>6 DEF LeftOver, Outstanding, Count, At
  <1>8. (IF Owed' THEN 1 ELSE 0) = o
    BY <1>5
  <1> HIDE DEF u, d, e, t, o
  <1>9. Outstanding' <= extras' + o
    BY <1>4, <1>6, <1>7
  <1> QED
    BY <1>5, <1>8, <1>9 DEF LeftOver

LEMMA LeftOverStep ==
    ASSUME Inv, StreamTypeOK, Silent, Requests, TasksApart, LeftOver, [StreamNext]_allVars
    PROVE  LeftOver'
  <1>0. /\ IsFiniteSet(tasks) /\ IsFiniteSet(Undone) /\ Cardinality(Undone) \in Nat
        /\ Count(toClient, "done") \in Nat /\ Count(toServer, "turn") \in Nat
    BY CountsTyped DEF LeftOver
  <1>1. CASE Still
    <2>1. UNCHANGED <<toServer, toClient, agg, tasks, extras>>
      BY <1>1 DEF Still
    <2>2. \A j \in Caller : step'[j] \in {"turn", "stream"} <=> step[j] \in {"turn", "stream"}
      BY <1>1 DEF Still, Waits
    <2>3. Owed' <=> Owed
      BY <2>1, <2>2 DEF Owed
    <2>4. Outstanding' = Outstanding
      BY <2>1 DEF Outstanding, Undone, Count, At
    <2> HIDE DEF Owed
    <2> QED
      BY <2>1, <2>3, <2>4 DEF LeftOver
  <1>2. CASE Gone
    <2>1. toServer' = << >> /\ toClient' = << >> /\ tasks' = {} /\ extras' = extras
      BY <1>2 DEF Gone, PipesGone
    <2>2. Undone' = {}
      BY <2>1 DEF Undone
    <2>3. Outstanding' = 0
      <3>1. Outstanding' = Cardinality(Undone') + Count(toClient', "done") + Count(toServer', "turn")
        BY DEF Outstanding, Count, At
      <3> QED
        BY <2>1, <2>2, <3>1, CountEmpty, FS_EmptySet
    <2>4. IsFiniteSet(tasks')
      BY <2>1, FS_EmptySet
    <2>5. extras \in Nat
      BY <1>0, CountsTyped
    <2>6. extras' \in Nat
      BY <2>1, <2>5
    <2> DEFINE o == IF Owed' THEN 1 ELSE 0
    <2>7. o \in Nat
      OBVIOUS
    <2> HIDE DEF o
    <2>8. 0 <= extras' + o
      <3>1. \A m, n \in Nat : 0 <= m + n
        OBVIOUS
      <3> QED
        BY <2>6, <2>7, <3>1
    <2>9. Outstanding' <= extras' + o
      BY <2>3, <2>8
    <2> QED
      BY <2>4, <2>9 DEF LeftOver, o
  <1>3. ASSUME NEW k \in Caller, SendFirst(k) PROVE LeftOver'
    <2>1. /\ step[k] = "try" /\ step'[k] = FirstRequest(k)
          /\ FirstRequest(k) \in {"thread", "turn"}
          /\ \E id \in Nat : Send(k, FirstRequest(k), id)
          /\ UNCHANGED <<toClient, tasks, extras>>
      BY <1>3, SendFirstFacts
    <2>2. Count(toClient', "done") \in Nat /\ Count(toClient', "done") <= Count(toClient, "done")
      BY <1>0, <2>1
    <2> QED
      BY <2>1, <2>2, LeftOverSend
  <1>4. ASSUME NEW k \in Caller, ReadThread(k) PROVE LeftOver'
    <2>1. /\ Read(k) /\ step[k] = "thread" /\ UNCHANGED <<tasks, extras>>
      BY <1>4 DEF ReadThread, ThreadStarted
    <2>2. Count(toClient', "done") \in Nat /\ Count(toClient', "done") <= Count(toClient, "done")
      BY <1>0, <2>1, ReadCounts
    <2>3. CASE op[k].kind = "runTurn"
      <3>1. Send(k, "turn", nextID) /\ step'[k] = "turn"
        BY <1>4, <2>3 DEF ReadThread, ThreadStarted, Inv, TypeOK, ClientTypeOK
      <3> QED
        BY <2>1, <2>2, <3>1, LeftOverSend
    <2>4. CASE op[k].kind # "runTurn"
      <3>1. toServer' = toServer
        BY <1>4, <2>4 DEF ReadThread
      <3> QED
        BY <2>1, <3>1, NothingOwed, LeftOverRead
    <2> QED
      BY <2>3, <2>4
  <1>5. ASSUME NEW k \in Caller, ReadAsk(k) PROVE LeftOver'
    <2>1. Count(toServer', "turn") = Count(toServer, "turn")
      <3>1. toServer \in Seq(ServerMessages(nextID))
        BY StreamTypeParts DEF StreamTyped
      <3>2. toServer' = Append(toServer, Request("answer", Received.id, k))
        BY <1>5 DEF ReadAsk
      <3>3. Request("answer", Received.id, k).kind # "turn"
        BY DEF Request
      <3> QED
        BY <3>1, <3>2, <3>3, CountAppend
    <2>2. Read(k) /\ UNCHANGED <<tasks, extras>> /\ UNCHANGED <<step, agg>>
      BY <1>5 DEF ReadAsk, vars
    <2>3. Owed' <=> Owed
      BY <2>2 DEF Owed
    <2> QED
      BY <2>1, <2>2, <2>3, LeftOverRead
  <1>6. ASSUME NEW k \in Caller, SkipResponse(k) \/ ReadNotification(k) PROVE LeftOver'
    <2>1. Read(k) /\ UNCHANGED <<step, toServer, tasks, extras>>
      BY <1>6 DEF SkipResponse, ReadNotification, vars
    <2>2. Received.kind = "done" \/ (agg'.completed <=> agg.completed)
      <3>1. Received.kind # "done" => Consume(agg, Received).completed <=> agg.completed
        BY DEF Consume
      <3>2. agg' = agg \/ agg' = Consume(agg, Received)
        BY <1>6 DEF SkipResponse, ReadNotification
      <3> QED
        BY <3>1, <3>2
    <2>3. Received.kind = "done" \/ (Owed' <=> Owed)
      BY <2>1, <2>2 DEF Owed
    <2> QED
      BY <2>1, <2>3, LeftOverRead
  <1>7. ASSUME NEW k \in Caller, ReadTurn(k) PROVE LeftOver'
    <2>1. Read(k) /\ UNCHANGED <<toServer, tasks, extras>>
      BY <1>7 DEF ReadTurn
    <2>2. step[k] = "turn" /\ step' = [step EXCEPT ![k] = "stream"] /\ step \in [Caller -> Steps]
      BY <1>7 DEF ReadTurn, TurnAccepted, Inv, TypeOK, ClientTypeOK
    <2>3. agg'.completed = agg.completed
      <3>1. agg \in Aggregators
        BY StreamTypeParts DEF StreamTyped
      <3> QED
        BY <1>7, <3>1 DEF ReadTurn, Aggregators
    <2>4. \A j \in Caller : step'[j] \in {"turn", "stream"} <=> step[j] \in {"turn", "stream"}
      BY <2>2
    <2>5. Owed' <=> Owed
      BY <2>3, <2>4 DEF Owed
    <2> QED
      BY <2>1, <2>5, LeftOverRead
  <1>8. ASSUME NEW k \in Caller, ReadCompleted(k) PROVE LeftOver'
    <2>1. Read(k) /\ UNCHANGED <<toServer, tasks, extras>> /\ Received.kind = "done"
      BY <1>8 DEF ReadCompleted
    <2> QED
      BY <2>1, LeftOverRead
  <1>9. ASSUME NEW k \in Caller, LoopEnds(k) PROVE LeftOver'
    <2>1. UNCHANGED <<toServer, toClient, tasks, extras>> /\ agg.completed
      BY <1>9 DEF LoopEnds, streamVars
    <2>2. ~Owed
      BY <2>1 DEF Owed
    <2>3. Outstanding' = Outstanding
      BY <2>1 DEF Outstanding, Undone, Count, At
    <2>4. Outstanding \in Nat /\ extras \in Nat
      BY <1>0, CountsTyped
    <2>5. Outstanding <= extras + (IF Owed THEN 1 ELSE 0)
      BY DEF LeftOver
    <2> HIDE DEF Owed
    <2>6. Outstanding' <= extras' + (IF Owed' THEN 1 ELSE 0)
      BY <2>1, <2>2, <2>3, <2>4, <2>5
    <2> QED
      BY <1>0, <2>1, <2>6 DEF LeftOver
  <1>10. CASE StartThread \/ Refuse
    <2>1. PICK kind \in {"response", "refusal"} : Sends(kind, Incoming.id, NoThread)
      BY <1>10 DEF StartThread, Refuse
    <2>2. PICK request : Takes(request)
      BY <1>10 DEF StartThread, Refuse
    <2>3. Count(toClient', "done") = Count(toClient, "done") + (IF kind = "done" THEN 1 ELSE 0)
      BY <2>1, SendCounts
    <2>4. /\ Count(toServer', "turn") \in Nat
          /\ Count(toServer, "turn") = Count(toServer', "turn") + (IF request = "turn" THEN 1 ELSE 0)
      BY <2>2, TakeCounts
    <2>5. UNCHANGED <<step, agg, extras, tasks>> /\ Undone' = Undone
      BY <1>10 DEF StartThread, Refuse, vars, Undone
    <2>6. /\ Count(toClient', "done") = Count(toClient, "done")
          /\ Count(toServer', "turn") <= Count(toServer, "turn")
      BY <1>0, <2>3, <2>4
    <2>7. Cardinality(Undone') + Count(toClient', "done") + Count(toServer', "turn")
              <= Cardinality(Undone) + Count(toClient, "done") + Count(toServer, "turn")
      BY <1>0, <2>4, <2>5, <2>6
    <2> QED
      BY <1>0, <2>4, <2>5, <2>6, <2>7, LeftOverServes
  <1>11. CASE TakeUp
    <2> DEFINE new == NewTask(Incoming.id, Incoming.who)
    <2>1. /\ Count(toServer', "turn") \in Nat
          /\ Count(toServer, "turn") = Count(toServer', "turn") + 1
      BY <1>11, TakeCounts DEF TakeUp
    <2>2. UNCHANGED <<step, agg, extras, toClient>> /\ tasks' = tasks \cup {new}
      BY <1>11 DEF TakeUp, vars
    <2>3. ~new.done
      BY DEF NewTask
    <2> HIDE DEF new
    <2>4. Undone' = Undone \cup {new}
      BY <2>2, <2>3 DEF Undone
    <2>5. /\ IsFiniteSet(tasks') /\ IsFiniteSet(Undone')
          /\ Cardinality(Undone') \in {Cardinality(Undone), Cardinality(Undone) + 1}
      BY <1>0, <2>2, <2>4, FS_AddElement
    <2>6. Count(toClient', "done") = Count(toClient, "done")
      BY <2>2
    <2>7. Cardinality(Undone') + Count(toClient', "done") + Count(toServer', "turn")
              <= Cardinality(Undone) + Count(toClient, "done") + Count(toServer, "turn")
      BY <1>0, <2>1, <2>5, <2>6
    <2> QED
      BY <1>0, <2>1, <2>2, <2>5, <2>6, <2>7, LeftOverServes
  <1>12. CASE TakeAnswer
    <2>1. PICK t \in tasks : Goes(t, [t EXCEPT !.asking = FALSE])
      BY <1>12 DEF TakeAnswer
    <2>2. [t EXCEPT !.asking = FALSE].id = t.id /\ [t EXCEPT !.asking = FALSE].done = t.done
      BY TaskAfter
    <2>3. t.done \in BOOLEAN
      BY TaskTyped DEF Tasks
    <2>4. IsFiniteSet(tasks') /\ Cardinality(Undone') = Cardinality(Undone)
      BY <1>0, <2>1, <2>2, <2>3, UndoneGoes
    <2>5. UNCHANGED <<step, agg, extras, toClient>>
      BY <1>12 DEF TakeAnswer, vars
    <2>6. /\ Count(toServer', "turn") \in Nat
          /\ Count(toServer, "turn") = Count(toServer', "turn") + 0
      BY <1>12, TakeCounts DEF TakeAnswer
    <2>7. Count(toClient', "done") = Count(toClient, "done")
      BY <2>5
    <2>8. Cardinality(Undone') + Count(toClient', "done") + Count(toServer', "turn")
              <= Cardinality(Undone) + Count(toClient, "done") + Count(toServer, "turn")
      BY <1>0, <2>4, <2>6, <2>7
    <2> QED
      BY <1>0, <2>4, <2>5, <2>6, <2>7, <2>8, LeftOverServes
  <1>13. ASSUME NEW t \in tasks, NEW u, NEW kind, NEW id, NEW names,
                Sends(kind, id, names), kind # "done",
                \/ Goes(t, u) /\ u.id = t.id /\ u.done = t.done
                \/ UNCHANGED tasks,
                UNCHANGED <<step, agg, extras, toServer>>
         PROVE  LeftOver'
    <2>1. t.done \in BOOLEAN
      BY TaskTyped DEF Tasks
    <2>2. IsFiniteSet(tasks') /\ Cardinality(Undone') = Cardinality(Undone)
      <3>1. CASE UNCHANGED tasks
        BY <1>0, <3>1 DEF Undone
      <3>2. CASE Goes(t, u) /\ u.id = t.id /\ u.done = t.done
        BY <1>0, <2>1, <3>2, UndoneGoes
      <3> QED
        BY <1>13, <3>1, <3>2
    <2>3. Count(toClient', "done") = Count(toClient, "done") + (IF kind = "done" THEN 1 ELSE 0)
      BY <1>13, SendCounts
    <2>4. Count(toClient', "done") = Count(toClient, "done")
      BY <1>0, <1>13, <2>3
    <2>5. Count(toServer', "turn") = Count(toServer, "turn")
      BY <1>13
    <2>6. Cardinality(Undone') + Count(toClient', "done") + Count(toServer', "turn")
              <= Cardinality(Undone) + Count(toClient, "done") + Count(toServer, "turn")
      BY <1>0, <2>2, <2>4, <2>5
    <2> QED
      BY <1>0, <1>13, <2>2, <2>4, <2>5, <2>6, LeftOverServes
  <1>14. ASSUME NEW t \in tasks, Respond(t) PROVE LeftOver'
    <2> DEFINE u == [t EXCEPT !.answered = TRUE]
    <2>1. u.id = t.id /\ u.done = t.done
      BY TaskAfter
    <2>2. Goes(t, u) /\ UNCHANGED <<step, agg, extras, toServer>>
      BY <1>14 DEF Respond, vars
    <2>3. \E names : Sends("response", t.id, names)
      BY <1>14 DEF Respond
    <2> HIDE DEF u
    <2> QED
      BY <1>13, <2>1, <2>2, <2>3
  <1>15. ASSUME NEW t \in tasks, Notify(t) PROVE LeftOver'
    <2>1. Sends("note", t.id, NoThread) /\ UNCHANGED <<step, agg, extras, toServer, tasks>>
      BY <1>15 DEF Notify, vars
    <2> QED
      BY <1>13, <2>1
  <1>16. ASSUME NEW t \in tasks, Ask(t) PROVE LeftOver'
    <2> DEFINE u == [t EXCEPT !.asking = TRUE]
    <2>1. u.id = t.id /\ u.done = t.done
      BY TaskAfter
    <2>2. Goes(t, u) /\ UNCHANGED <<step, agg, extras, toServer>>
      BY <1>16 DEF Ask, vars
    <2>3. Sends("ask", t.id, NoThread)
      BY <1>16 DEF Ask
    <2> HIDE DEF u
    <2> QED
      BY <1>13, <2>1, <2>2, <2>3
  <1>17. ASSUME NEW t \in tasks, Complete(t) PROVE LeftOver'
    <2> DEFINE u == [t EXCEPT !.done = TRUE]
    <2>1. u.id = t.id /\ u.done = TRUE
      BY TaskAfter
    <2>2. Goes(t, u) /\ UNCHANGED <<step, agg, extras, toServer>> /\ ~t.done
      BY <1>17 DEF Complete, vars
    <2>3. PICK names : Sends("done", t.id, names)
      BY <1>17 DEF Complete
    <2>4. t.done \in BOOLEAN
      BY TaskTyped DEF Tasks
    <2> HIDE DEF u
    <2>5. IsFiniteSet(tasks') /\ Cardinality(Undone') = Cardinality(Undone) - 1
      BY <1>0, <2>1, <2>2, <2>4, UndoneGoes
    <2>6. Count(toClient', "done") = Count(toClient, "done") + 1
      BY <2>3, SendCounts
    <2>7. Count(toServer', "turn") = Count(toServer, "turn")
      BY <2>2
    <2>8. Undone' \in SUBSET tasks'
      BY DEF Undone
    <2>9. Cardinality(Undone') \in Nat
      BY <2>5, <2>8, FS_Subset, FS_CardinalityType
    <2>10. Cardinality(Undone') + Count(toClient', "done") + Count(toServer', "turn")
              <= Cardinality(Undone) + Count(toClient, "done") + Count(toServer, "turn")
      BY <1>0, <2>5, <2>6, <2>7
    <2> QED
      BY <1>0, <2>2, <2>5, <2>6, <2>7, <2>9, <2>10, LeftOverServes
  <1> QED
    BY <1>1, <1>2, <1>3, <1>4, <1>5, <1>6, <1>7, <1>8, <1>9, <1>10, <1>11, <1>12, <1>14, <1>15,
       <1>16, <1>17, LeftOverExtra, StreamSteps, StillIsStill, GoneIsGone DEF Moves

\* Both, with the stream's invariant.
LagInvariant == StreamInvariant /\ LeftOver /\ AnswersKnown

LEMMA InitLag == StreamInit => LagInvariant
  <1> SUFFICES ASSUME StreamInit PROVE LagInvariant
    OBVIOUS
  <1>1. StreamInvariant
    BY InitStream
  <1>2. toServer = << >> /\ toClient = << >> /\ tasks = {} /\ extras = 0
    BY DEF StreamInit
  <1>3. LeftOver
    <2>1. Undone = {}
      BY <1>2 DEF Undone
    <2>2. Outstanding = 0 + 0 + 0
      BY <1>2, <2>1, CountEmpty, FS_EmptySet DEF Outstanding
    <2> QED
      BY <1>2, <2>2, FS_EmptySet DEF LeftOver
  <1>4. AnswersKnown
    BY <1>2, EmptyFacts DEF AnswersKnown
  <1> QED
    BY <1>1, <1>3, <1>4 DEF LagInvariant

LEMMA LagInvariantStep == LagInvariant /\ [StreamNext]_allVars => LagInvariant'
  <1> SUFFICES ASSUME LagInvariant, [StreamNext]_allVars PROVE LagInvariant'
    OBVIOUS
  <1>1. /\ StreamInvariant /\ LeftOver /\ AnswersKnown
        /\ Inv /\ StreamTypeOK /\ Silent /\ Requests /\ TasksApart
    BY DEF LagInvariant, StreamInvariant
  <1>2. StreamInvariant'
    BY <1>1, StreamInvariantStep
  <1>3. LeftOver'
    BY <1>1, LeftOverStep
  <1>4. AnswersKnown'
    BY <1>1, AnswersKnownStep
  <1> QED
    BY <1>2, <1>3, <1>4 DEF LagInvariant

LEMMA AlwaysLag == StreamSpec => []LagInvariant
  BY InitLag, LagInvariantStep, PTL DEF StreamSpec

\* Between two operations what the app-server has still to send, and the ends of
\* turns that nobody has read, are as many as the messages it sent about what was
\* over, and no more: a turn/completed too early leaves the next one behind.
THEOREM LagIsBounded == StreamSpec => []LagBounded
  <1>1. ASSUME LagInvariant, \A k \in Caller : step[k] \notin {"thread", "turn", "stream"}
        PROVE  Unfinished <= extras
    <2>1. StreamTypeOK /\ LeftOver /\ AnswersKnown
      BY <1>1 DEF LagInvariant, StreamInvariant
    <2>2. \A t \in tasks : ~t.done
      BY <1>1, <2>1 DEF AnswersKnown
    <2>3. Undone = tasks
      BY <2>2 DEF Undone
    <2>4. ~Owed
      BY <1>1 DEF Owed
    <2>5. /\ Cardinality(Undone) \in Nat
          /\ Count(toClient, "done") \in Nat /\ Count(toServer, "turn") \in Nat
          /\ extras \in Nat
      BY <2>1, CountsTyped DEF LeftOver
    <2>6. Unfinished = Cardinality(Undone) + Count(toClient, "done")
      BY <2>3 DEF Unfinished, Count, At
    <2>7. Cardinality(Undone) + Count(toClient, "done") + Count(toServer, "turn") <= extras + 0
      BY <2>1, <2>4 DEF LeftOver, Outstanding
    <2> QED
      BY <2>5, <2>6, <2>7
  <1>2. LagInvariant => LagBounded
    BY <1>1 DEF LagBounded
  <1> QED
    BY <1>2, AlwaysLag, PTL
=============================================================================
