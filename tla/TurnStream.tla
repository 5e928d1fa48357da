----------------------------- MODULE TurnStream -----------------------------
(***************************************************************************)
(* The messages between the codex client and the app-server: the requests, *)
(* responses, notifications and server requests that readUntilResponse,    *)
(* runTurnRequestLocked and turnAggregator of src/internal/codex/client.go *)
(* send, read and match, as a refinement of the operations of CodexClient  *)
(* under the callers of Coordinator.                                       *)
(*                                                                         *)
(* Both pipes are queues.  Nobody reads between two operations, and what   *)
(* is left in a pipe then is read by the next operation.  Nothing compares *)
(* a notification with the thread or the turn that waits: what keeps turns *)
(* apart is that one operation ends when the server is done with it.       *)
(*                                                                         *)
(* The app-server is external.  It takes requests in order, works on turns *)
(* side by side, and sends a turn's response, notifications and completion *)
(* as they come, the completion possibly before the response.  It waits    *)
(* for the answer to what it asks.  And it may send something extra about  *)
(* a request that is over.                                                 *)
(***************************************************************************)
EXTENDS Coordinator, Sequences

CONSTANTS MaxSaid,  \* bound: notifications and server requests of turns
          MaxExtra  \* bound: messages about what is over

ASSUME StreamAssumption == MaxSaid \in Nat /\ MaxExtra \in Nat

VARIABLES
    toServer,   \* the process's stdin: requests and answers
    toClient,   \* its stdout
    nextID,     \* nextRequestID of the session
    agg,        \* the turnAggregator of the last turn request
    tasks,      \* the turns the server has not finished sending about
    said,       \* notifications and server requests of turns so far
    extras,     \* messages about what was over so far
    mixed,      \* this process has sent one
    executed    \* history: how often the server took up k's prompt

streamVars == <<toServer, toClient, nextID, agg, tasks, said, extras, mixed, executed>>
allVars    == <<vars, streamVars>>

initRequestID == 1

\* What it has collected: whether turn/completed came, the turn it names, and
\* the requests whose texts and tool calls it holds.
NewAggregator == [completed |-> FALSE, turn |-> NoThread, from |-> {}]

\* consume, for notifications with content and for turn/completed.
Consume(a, m) ==
    [completed |-> a.completed \/ m.kind = "done",
     turn      |-> IF m.kind = "done" /\ m.names # NoThread THEN m.names ELSE a.turn,
     from      |-> a.from \cup {m.id}]

\* A turn the server works on, for the request id of caller who.
NewTask(id, who) == [id |-> id, thread |-> op[who].thread, asking |-> FALSE,
                     answered |-> FALSE, done |-> FALSE]

StreamInit ==
    /\ Init
    /\ toServer = <<>>
    /\ toClient = <<>>
    /\ nextID = initRequestID
    /\ agg = NewAggregator
    /\ tasks = {}
    /\ said = 0
    /\ extras = 0
    /\ mixed = FALSE
    /\ executed = [k \in Caller |-> 0]

Request(kind, id, k) == [kind |-> kind, id |-> id, who |-> k]
Message(kind, id, names) == [kind |-> kind, id |-> id, names |-> names]

\* Slip: what the process had sent is read on from the next one.
PipesKept == /\ toServer' = <<>>
             /\ tasks' = {}
             /\ mixed' = FALSE
             /\ UNCHANGED <<toClient, said, extras, executed>>

\* The process is gone, and all that was under way with it.
PipesGone == /\ toServer' = <<>>
             /\ toClient' = <<>>
             /\ tasks' = {}
             /\ mixed' = FALSE
             /\ UNCHANGED <<said, extras, executed>>

-----------------------------------------------------------------------------
(* The client *)

\* k waits in a read: before the response, or for turn/completed.
Reading(k) == \/ step[k] \in {"thread", "turn"}
              \/ step[k] = "stream" /\ ~agg.completed

\* Slip: the next request has the same id.
SendSameID(k, kind, id) ==
    /\ toServer' = IF session' \in procs' THEN Append(toServer, Request(kind, id, k))
                                          ELSE toServer
    /\ nextID' = id
    /\ agg' = IF kind = "turn" THEN NewAggregator ELSE agg

\* sendRequest, to a process that may be dead.  A turn has a new aggregator.
Send(k, kind, id) ==
    /\ toServer' = IF session' \in procs' THEN Append(toServer, Request(kind, id, k))
                                          ELSE toServer
    /\ nextID' = id + 1
    /\ agg' = IF kind = "turn" THEN NewAggregator ELSE agg

\* The session's process, and the first request.  A new one has answered
\* initialize, whose request took the first id.
SendFirst(k) ==
    /\ EnsureSession(k)
    /\ Send(k, FirstRequest(k), IF session = 0 THEN initRequestID + 1 ELSE nextID)
    /\ UNCHANGED <<toClient, tasks, said, extras, mixed, executed>>

\* readOneMessage: there is a message for k, which takes it from the pipe.
Received == Head(toClient)
CanRead(k) == Reading(k) /\ toClient # <<>>
Read(k)    == CanRead(k) /\ toClient' = Tail(toClient)

\* A response, and whether it is the one to the last request.
IsResponse == Received.kind \in {"response", "refusal"}
Matches    == Received.id = nextID - 1

\* Slip: what is asked before the response is not answered.
ReadAskLate(k) ==
    /\ Read(k)
    /\ Received.kind = "ask"
    /\ toServer' = IF step[k] = "stream"
                   THEN Append(toServer, Request("answer", Received.id, k)) ELSE toServer
    /\ UNCHANGED <<vars, nextID, agg, tasks, said, extras, mixed, executed>>

\* handleServerRequest: approved, answered or declined, but always answered, in
\* whichever of its reads the client finds it.
ReadAsk(k) ==
    /\ Read(k)
    /\ Received.kind = "ask"
    /\ toServer' = Append(toServer, Request("answer", Received.id, k))
    /\ UNCHANGED <<vars, nextID, agg, tasks, said, extras, mixed, executed>>

\* A notification that does not end the operation: before the response of
\* thread/start nothing looks at it, otherwise the aggregator consumes it.
ReadNotification(k) ==
    /\ Read(k)
    /\ \/ Received.kind = "note"
       \/ Received.kind = "done" /\ step[k] # "stream"
    /\ agg' = IF step[k] = "thread" THEN agg ELSE Consume(agg, Received)
    /\ UNCHANGED <<vars, toServer, nextID, tasks, said, extras, mixed, executed>>

\* A response to another request; once the turn streams, any response.
SkipResponse(k) ==
    /\ Read(k)
    /\ IsResponse
    /\ step[k] = "stream" \/ ~Matches
    /\ UNCHANGED <<vars, toServer, nextID, agg, tasks, said, extras, mixed, executed>>

\* The thread's id arrived.  RunTurn sends its turn.
ReadThread(k) ==
    /\ Read(k)
    /\ Received.kind = "response" /\ Matches
    /\ ThreadStarted(k)
    /\ IF op[k].kind = "runTurn" THEN Send(k, "turn", nextID)
                                 ELSE UNCHANGED <<toServer, nextID, agg>>
    /\ UNCHANGED <<tasks, said, extras, mixed, executed>>

\* Slip: the aggregator is new only once the response is there.
ReadTurnAfresh(k) ==
    /\ Read(k)
    /\ Received.kind = "response" /\ Matches
    /\ TurnAccepted(k)
    /\ agg' = [NewAggregator EXCEPT !.turn = Received.names]
    /\ UNCHANGED <<toServer, nextID, tasks, said, extras, mixed, executed>>

\* Slip: the response counts as the completion.
ReadTurnAsDone(k) ==
    /\ Read(k)
    /\ Received.kind = "response" /\ Matches
    /\ TurnAccepted(k)
    /\ agg' = [agg EXCEPT !.turn = Received.names, !.completed = TRUE]
    /\ UNCHANGED <<toServer, nextID, tasks, said, extras, mixed, executed>>

\* The turn's response.  Its id replaces what the aggregator had, also when
\* turn/completed came first and had one.
ReadTurn(k) ==
    /\ Read(k)
    /\ Received.kind = "response" /\ Matches
    /\ TurnAccepted(k)
    /\ agg' = [agg EXCEPT !.turn = Received.names]
    /\ UNCHANGED <<toServer, nextID, tasks, said, extras, mixed, executed>>

\* An error response to the turn.
ReadRefusal(k) ==
    /\ CanRead(k)
    /\ Received.kind = "refusal" /\ Matches
    /\ TurnRefused(k)
    /\ PipesGone
    /\ UNCHANGED <<nextID, agg>>

\* The turn is over, for the client, as the aggregator says.
EndTurn(k, a) == /\ TurnCompleted(k)
                 /\ op'[k].turn = a.turn

\* Slip: a turn that sent no text is an error.
ReadCompletedOrFail(k) ==
    /\ Read(k)
    /\ Received.kind = "done"
    /\ agg' = Consume(agg, Received)
    /\ \/ agg.from # {} /\ EndTurn(k, agg')
       \/ agg.from = {} /\ step[k] = "stream" /\ Fail(k) /\ UNCHANGED faults
    /\ UNCHANGED <<toServer, nextID, tasks, said, extras, mixed, executed>>

\* turn/completed.
ReadCompleted(k) ==
    /\ Read(k)
    /\ Received.kind = "done"
    /\ agg' = Consume(agg, Received)
    /\ EndTurn(k, agg')
    /\ UNCHANGED <<toServer, nextID, tasks, said, extras, mixed, executed>>

\* It had come before the response: nothing more is read.
LoopEnds(k) ==
    /\ agg.completed
    /\ EndTurn(k, agg)
    /\ UNCHANGED streamVars

\* A message that cannot be decoded, or an error response without need.
ReadFaulty(k) ==
    /\ Reading(k)
    /\ RequestFaults(k)
    /\ PipesGone
    /\ UNCHANGED <<nextID, agg>>

\* The pipe is closed.
ReadEOF(k) ==
    /\ FindDead(k)
    /\ PipesGone
    /\ UNCHANGED <<nextID, agg>>

ClientReads(k) == \/ ReadAsk(k)
                  \/ ReadNotification(k)
                  \/ SkipResponse(k)
                  \/ ReadThread(k)
                  \/ ReadTurn(k)
                  \/ ReadRefusal(k)
                  \/ ReadCompleted(k)
                  \/ LoopEnds(k)
                  \/ ReadFaulty(k)
                  \/ ReadEOF(k)

\* Without a message.
ClientWorks(k) == \/ /\ FindExpired(k) \/ CannotStart(k)
                     /\ UNCHANGED streamVars
                  \/ SendFirst(k)

CloseStream(k) == /\ Close(k)
                  /\ PipesGone
                  /\ UNCHANGED <<nextID, agg>>

-----------------------------------------------------------------------------
(* The app-server *)

Alive == session # 0 /\ session \in procs

\* What it may call a turn, in a response or in turn/completed.
Names(t) == {IF named = "own" THEN t.thread ELSE NoThread : named \in TurnNames \ {"other"}}

Sends(kind, id, names) == toClient' = Append(toClient, Message(kind, id, names))

\* The next request or answer, which it takes from the pipe.
Incoming == Head(toServer)
Takes(kind) == /\ Alive
               /\ toServer # <<>>
               /\ Incoming.kind = kind
               /\ toServer' = Tail(toServer)

\* A task goes on; it is forgotten when there is nothing more to say of it.
Goes(t, u) == tasks' = (tasks \ {t}) \cup (IF u.answered /\ u.done THEN {} ELSE {u})

StartThread ==
    /\ Takes("thread")
    /\ Sends("response", Incoming.id, NoThread)
    /\ UNCHANGED <<vars, nextID, agg, tasks, said, extras, mixed, executed>>

\* The prompt is taken up.
TakeUp ==
    /\ Takes("turn")
    /\ Served(op[Incoming.who])
    /\ tasks' = tasks \cup {NewTask(Incoming.id, Incoming.who)}
    /\ executed' = [executed EXCEPT ![Incoming.who] = @ + 1]
    /\ UNCHANGED <<vars, toClient, nextID, agg, said, extras, mixed>>

Refuse ==
    /\ Takes("turn")
    /\ ~Served(op[Incoming.who]) \/ op[Incoming.who].kind = "steerTurn"
    /\ Sends("refusal", Incoming.id, NoThread)
    /\ UNCHANGED <<vars, nextID, agg, tasks, said, extras, mixed, executed>>

Respond(t) ==
    /\ ~t.answered
    /\ \E names \in Names(t) : Sends("response", t.id, names)
    /\ Goes(t, [t EXCEPT !.answered = TRUE])
    /\ UNCHANGED <<vars, toServer, nextID, agg, said, extras, mixed, executed>>

\* A text or a tool call of the turn.
Notify(t) ==
    /\ ~t.done /\ ~t.asking
    /\ said < MaxSaid
    /\ said' = said + 1
    /\ Sends("note", t.id, NoThread)
    /\ UNCHANGED <<vars, toServer, nextID, agg, tasks, extras, mixed, executed>>

\* An approval or a choice is asked for; the turn waits for it.
Ask(t) ==
    /\ ~t.done /\ ~t.asking
    /\ said < MaxSaid
    /\ said' = said + 1
    /\ Sends("ask", t.id, NoThread)
    /\ Goes(t, [t EXCEPT !.asking = TRUE])
    /\ UNCHANGED <<vars, toServer, nextID, agg, extras, mixed, executed>>

TakeAnswer ==
    /\ Takes("answer")
    /\ \E t \in tasks : /\ t.id = Incoming.id
                        /\ Goes(t, [t EXCEPT !.asking = FALSE])
    /\ UNCHANGED <<vars, toClient, nextID, agg, said, extras, mixed, executed>>

Complete(t) ==
    /\ ~t.done /\ ~t.asking
    /\ \E names \in Names(t) : Sends("done", t.id, names)
    /\ Goes(t, [t EXCEPT !.done = TRUE])
    /\ UNCHANGED <<vars, toServer, nextID, agg, said, extras, mixed, executed>>

\* Something more about the last request, which is over: a response again, a
\* text, or a turn/completed that names any thread's turn.  Nobody reads it
\* before the next operation does.
ExtraMessages(id) ==
    {Message(kind, id, NoThread) : kind \in {"response", "note"}}
    \cup {Message("done", id, t) : t \in [home : {session}, n : 1..made]}

SendExtra ==
    LET last == nextID - 1
    IN  /\ Alive
        /\ "other" \in TurnNames
        /\ last > initRequestID
        /\ \A t \in tasks : t.id # last
        /\ \A i \in DOMAIN toServer : toServer[i].id # last
        /\ extras < MaxExtra
        /\ extras' = extras + 1
        /\ mixed' = TRUE
        /\ \E m \in ExtraMessages(last) : toClient' = Append(toClient, m)
        /\ UNCHANGED <<vars, toServer, nextID, agg, tasks, said, executed>>

\* What it sends of a turn.
Work(t) == Respond(t) \/ Notify(t) \/ Ask(t) \/ Complete(t)

\* A crash loses what was not read.  One in the moment in which a turn has ended
\* and the client does not read any more is the same as one a moment later.
ServerCrash ==
    /\ Crash
    /\ \A k \in Caller : step[k] = "stream" => ~agg.completed
    /\ PipesGone
    /\ UNCHANGED <<nextID, agg>>

ServerGoesOn == \/ StartThread
                \/ TakeUp
                \/ Refuse
                \/ TakeAnswer
                \/ /\ Alive
                   /\ \E t \in tasks : Work(t)

-----------------------------------------------------------------------------

\* What a caller does between two operations.
CallerGoesOn == \/ \E c \in Channel : \/ RunMessageTurn(c)
                                      \/ SteerFailed(c)
                                      \/ StartFailed(c)
                                      \/ NewThreadMade(c)
                                      \/ ResetSession(c)
                \/ HeartbeatTick
                \/ Shutdown
                \/ Finished

\* The message, or the heartbeat, is over.
CallerIsDone(k) ==
    /\ \/ k \in Channel /\ (TurnDone(k) \/ TurnFailed(k))
       \/ k = Heartbeat /\ HeartbeatDone
    /\ executed' = [executed EXCEPT ![k] = 0]
    /\ UNCHANGED <<toServer, toClient, nextID, agg, tasks, said, extras, mixed>>

StreamNext == \/ CallerGoesOn /\ UNCHANGED streamVars
              \/ \E k \in Caller : CallerIsDone(k)
              \/ /\ \/ \E k \in Caller : \/ (Acquire(k) /\ UNCHANGED streamVars)
                                         \/ ClientWorks(k)
                                         \/ ClientReads(k)
                                         \/ CloseStream(k)
                    \/ ServerCrash
                    \/ ServerGoesOn
                    \/ SendExtra
                 /\ UNCHANGED <<sessions, at, turns>>

StreamSpec == StreamInit /\ [][StreamNext]_allVars

\* sync.Mutex hands itself to a goroutine that waits too long, so a waiting call
\* gets c.mu; a call that holds it reads what is there; and a caller whose
\* operation returned goes on.  The server takes up what it is sent, and goes on
\* with a turn that does not wait for an answer.  Messages and ticks need not
\* come, nor does the server have to crash.
StreamFairSpec ==
    /\ StreamSpec
    /\ \A k \in Caller :
          /\ SF_allVars(/\ (Acquire(k) /\ UNCHANGED streamVars) \/ CloseStream(k)
                        /\ UNCHANGED <<sessions, at, turns>>)
          /\ WF_allVars((ClientWorks(k) \/ ClientReads(k)) /\ UNCHANGED <<sessions, at, turns>>)
          /\ WF_allVars(CallerIsDone(k))
    /\ \A c \in Channel : WF_allVars(/\ \/ SteerFailed(c)
                                        \/ StartFailed(c)
                                        \/ NewThreadMade(c)
                                      /\ UNCHANGED streamVars)
    /\ WF_allVars(ServerGoesOn /\ UNCHANGED <<sessions, at, turns>>)

-----------------------------------------------------------------------------
(* Properties *)

\* The types, and that a pipe holds nothing about a request that was not sent.
StreamTypeOK ==
    LET ids == (initRequestID + 1)..(nextID - 1)
    IN  /\ toServer \in Seq([kind : {"thread", "turn", "answer"}, id : ids, who : Caller])
        /\ toClient \in Seq([kind : {"response", "refusal", "note", "done", "ask"}, id : ids,
                              names : Thread \cup {NoThread}])
        /\ nextID \in Nat
        /\ agg \in [completed : BOOLEAN, turn : Thread \cup {NoThread}, from : SUBSET Nat]
        /\ tasks \subseteq [id : ids, thread : Thread \cup {NoThread}, asking : BOOLEAN,
                             answered : BOOLEAN, done : BOOLEAN]
        /\ said \in 0..MaxSaid
        /\ extras \in 0..MaxExtra
        /\ mixed \in BOOLEAN
        /\ executed \in [Caller -> Nat]

\* Notifications are matched with a turn by nothing but their place in the
\* stream.  It is enough, while the server sends nothing extra: a turn that ends
\* well has all its own content and no other, and names no other turn.
ResultsAreOwn ==
    [][\A k \in Caller :
         /\ step[k] = "stream" /\ step'[k] = "ok" /\ ~mixed
         => /\ agg'.from = {nextID - 1}
            /\ op'[k].turn \in {op[k].thread, NoThread}]_allVars

\* A turn that waits for an answer gets it: what it asked, or the answer, is in
\* a pipe, although nobody reads between two operations.
AskIsUnderway ==
    \A t \in tasks : t.asking =>
        \/ \E i \in DOMAIN toClient : toClient[i].kind = "ask" /\ toClient[i].id = t.id
        \/ \E i \in DOMAIN toServer : toServer[i].kind = "answer" /\ toServer[i].id = t.id

\* A turn/start whose response was not read may have been executed, and is sent
\* again.  Still a prompt is executed again only after a fault of the server, and
\* at most twice, counted where it is executed.
ExecutedAgainAfterFault ==
    \A k \in Caller : executed[k] <= 1 + faults /\ executed[k] <= 2

\* Between two operations the pipes are empty and the server works on nothing,
\* but for one turn for each message it sent about something that was over.
Unfinished == Cardinality(tasks) + Cardinality({i \in DOMAIN toClient : toClient[i].kind = "done"})
LagBounded == (\A k \in Caller : step[k] \notin {"thread", "turn", "stream"})
                 => Unfinished <= extras
=============================================================================
