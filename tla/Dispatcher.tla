----------------------------- MODULE Dispatcher -----------------------------
(***************************************************************************)
(* The per-channel message dispatcher, src/internal/dispatch/dispatcher.go.*)
(*                                                                         *)
(* Discord events arrive in goroutines of their own, one per message, and  *)
(* each calls Enqueue: a process per message, whose place in Enqueue is    *)
(* at[m].  Enqueue never blocks, and it takes up to four separate steps on *)
(* the channel's queue (send, drain one, send again), so the calls for one *)
(* channel interleave with each other and with the worker that receives    *)
(* from the queue.  The worker of a channel takes a first message, keeps   *)
(* collecting until its timer fires, and calls the handler with the latest *)
(* message and the number it stands for.                                   *)
(*                                                                         *)
(* Time is abstract: the timer of coalesceWindow may fire at any moment of *)
(* the collection.  A nil message (Enqueue's and runWorker's nil checks)   *)
(* never reaches the queue and is left out.                                *)
(***************************************************************************)
EXTENDS Integers, Sequences, FiniteSets, SequencesExt

CONSTANTS Msg,        \* the messages that may be posted
          Channel,    \* the keys of workerKey, guild:channel
          ChannelOf,  \* the key of each message
          QueueSize,  \* the buffer of a worker's queue, d.queueSize
          NoMsg       \* what a local holds before it is first assigned

ASSUME ConstantsAssumption == /\ ChannelOf \in [Msg -> Channel]
                              /\ QueueSize \in Nat \ {0}
                              /\ NoMsg \notin Msg

VARIABLES
    ctxDone,      \* d.ctx is cancelled
    at,           \* at[m]: the place of the call Enqueue(m)
    dropped,      \* dropped[m]: the call's local and result
    queue,        \* queue[c]: w.queue of the worker of c
    worker,       \* worker[c]: the place of runWorker; "none" when d.workers has no c
    first,        \* first[c]: the message enqueuedAt was taken from
    latest,       \* latest[c]: the worker's local
    mergedCount,  \* mergedCount[c]: the worker's local
    \* History, written but never read by the actions:
    fate,         \* fate[m]: what became of m
    sent,         \* sent[c]: the messages in the order they entered queue[c]
    batch,        \* batch[c]: the messages the collection has received
    calls         \* calls[c]: what the handler was called with, in order

callVars    == <<at, dropped>>
workerVars  == <<worker, first, latest, mergedCount>>
historyVars == <<fate, sent, batch, calls>>
vars == <<ctxDone, at, dropped, queue, worker, first, latest, mergedCount,
          fate, sent, batch, calls>>

Init == /\ ctxDone = FALSE
        /\ at = [m \in Msg |-> "start"]
        /\ dropped = [m \in Msg |-> FALSE]
        /\ queue = [c \in Channel |-> <<>>]
        /\ worker = [c \in Channel |-> "none"]
        /\ first = [c \in Channel |-> NoMsg]
        /\ latest = [c \in Channel |-> NoMsg]
        /\ mergedCount = [c \in Channel |-> 0]
        /\ fate = [m \in Msg |-> "outside"]
        /\ sent = [c \in Channel |-> <<>>]
        /\ batch = [c \in Channel |-> <<>>]
        /\ calls = [c \in Channel |-> <<>>]

-----------------------------------------------------------------------------
(* Enqueue(m) *)

\* getOrCreateWorker, one critical section of d.mu: the first message of a
\* channel starts its worker.  A worker that exited stays in d.workers.
GetOrCreateWorker(m) ==
    /\ at[m] = "start"
    /\ at' = [at EXCEPT ![m] = "ctx"]
    /\ worker' = [worker EXCEPT ![ChannelOf[m]] = IF @ = "none" THEN "select" ELSE @]
    /\ UNCHANGED <<ctxDone, dropped, queue, first, latest, mergedCount, historyVars>>

\* The select on d.ctx.Done: a call that finds it closed returns FALSE.
RefuseAtShutdown(m) ==
    /\ at[m] = "ctx"
    /\ ctxDone
    /\ at' = [at EXCEPT ![m] = "returned"]
    /\ fate' = [fate EXCEPT ![m] = "refused"]
    /\ UNCHANGED <<ctxDone, dropped, queue, workerVars, sent, batch, calls>>

PassShutdownCheck(m) ==
    /\ at[m] = "ctx"
    /\ ~ctxDone
    /\ at' = [at EXCEPT ![m] = "send"]
    /\ UNCHANGED <<ctxDone, dropped, queue, workerVars, historyVars>>

\* w.queue <- m, at either of the two sends.
Put(m) ==
    /\ Len(queue[ChannelOf[m]]) < QueueSize
    /\ queue' = [queue EXCEPT ![ChannelOf[m]] = Append(@, m)]
    /\ sent' = [sent EXCEPT ![ChannelOf[m]] = Append(@, m)]
    /\ fate' = [fate EXCEPT ![m] = "queued"]
    /\ at' = [at EXCEPT ![m] = "returned"]

\* Slip: no return after the first send, which falls through to the drain.
SendFallsThrough(m) ==
    /\ at[m] = "send"
    /\ Len(queue[ChannelOf[m]]) < QueueSize
    /\ queue' = [queue EXCEPT ![ChannelOf[m]] = Append(@, m)]
    /\ sent' = [sent EXCEPT ![ChannelOf[m]] = Append(@, m)]
    /\ fate' = [fate EXCEPT ![m] = "queued"]
    /\ at' = [at EXCEPT ![m] = "drain"]
    /\ UNCHANGED <<ctxDone, dropped, workerVars, batch, calls>>

\* The first send, and the return FALSE after it.
Send(m) ==
    /\ at[m] = "send"
    /\ Put(m)
    /\ UNCHANGED <<ctxDone, dropped, workerVars, batch, calls>>

FindFull(m) ==
    /\ at[m] = "send"
    /\ Len(queue[ChannelOf[m]]) = QueueSize
    /\ at' = [at EXCEPT ![m] = "drain"]
    /\ UNCHANGED <<ctxDone, dropped, queue, workerVars, historyVars>>

\* Slip: the call returns after the drain, its own message unsent.
DrainAndReturn(m) ==
    LET c == ChannelOf[m]
    IN  /\ at[m] = "drain"
        /\ queue[c] # <<>>
        /\ queue' = [queue EXCEPT ![c] = Tail(@)]
        /\ fate' = [fate EXCEPT ![Head(queue[c])] = "evicted", ![m] = "rejected"]
        /\ dropped' = [dropped EXCEPT ![m] = TRUE]
        /\ at' = [at EXCEPT ![m] = "returned"]
        /\ UNCHANGED <<ctxDone, workerVars, sent, batch, calls>>

\* Slip: the drain is not reported.
DrainUnreported(m) ==
    LET c == ChannelOf[m]
    IN  /\ at[m] = "drain"
        /\ queue[c] # <<>>
        /\ queue' = [queue EXCEPT ![c] = Tail(@)]
        /\ fate' = [fate EXCEPT ![Head(queue[c])] = "evicted"]
        /\ at' = [at EXCEPT ![m] = "resend"]
        /\ UNCHANGED <<ctxDone, dropped, workerVars, sent, batch, calls>>

\* Slip: the newest waiting item is drained, not the oldest.
DrainNewest(m) ==
    LET c == ChannelOf[m]
    IN  /\ at[m] = "drain"
        /\ queue[c] # <<>>
        /\ queue' = [queue EXCEPT ![c] = Front(@)]
        /\ fate' = [fate EXCEPT ![Last(queue[c])] = "evicted"]
        /\ dropped' = [dropped EXCEPT ![m] = TRUE]
        /\ at' = [at EXCEPT ![m] = "resend"]
        /\ UNCHANGED <<ctxDone, workerVars, sent, batch, calls>>

\* Drain one item.  It need not be one the call found there, nor need the
\* queue still be full.
DrainOldest(m) ==
    LET c == ChannelOf[m]
    IN  /\ at[m] = "drain"
        /\ queue[c] # <<>>
        /\ queue' = [queue EXCEPT ![c] = Tail(@)]
        /\ fate' = [fate EXCEPT ![Head(queue[c])] = "evicted"]
        /\ dropped' = [dropped EXCEPT ![m] = TRUE]
        /\ at' = [at EXCEPT ![m] = "resend"]
        /\ UNCHANGED <<ctxDone, workerVars, sent, batch, calls>>

FindNothingToDrain(m) ==
    /\ at[m] = "drain"
    /\ queue[ChannelOf[m]] = <<>>
    /\ at' = [at EXCEPT ![m] = "resend"]
    /\ UNCHANGED <<ctxDone, dropped, queue, workerVars, historyVars>>

\* The second send, and the return of dropped after it.
Resend(m) ==
    /\ at[m] = "resend"
    /\ Put(m)
    /\ UNCHANGED <<ctxDone, dropped, workerVars, batch, calls>>

\* The queue is full again: the call returns TRUE without its message.
GiveUp(m) ==
    /\ at[m] = "resend"
    /\ Len(queue[ChannelOf[m]]) = QueueSize
    /\ dropped' = [dropped EXCEPT ![m] = TRUE]
    /\ fate' = [fate EXCEPT ![m] = "rejected"]
    /\ at' = [at EXCEPT ![m] = "returned"]
    /\ UNCHANGED <<ctxDone, queue, workerVars, sent, batch, calls>>

Enqueue(m) == \/ GetOrCreateWorker(m)
              \/ RefuseAtShutdown(m)
              \/ PassShutdownCheck(m)
              \/ Send(m)
              \/ FindFull(m)
              \/ DrainOldest(m)
              \/ FindNothingToDrain(m)
              \/ Resend(m)
              \/ GiveUp(m)

-----------------------------------------------------------------------------
(* runWorker of channel c *)

\* Slip: the worker serves the newest waiting message first.
ReceiveNewest(c) ==
    /\ queue[c] # <<>>
    /\ queue' = [queue EXCEPT ![c] = Front(@)]
    /\ latest' = [latest EXCEPT ![c] = Last(queue[c])]
    /\ batch' = [batch EXCEPT ![c] = Append(@, Last(queue[c]))]
    /\ fate' = [fate EXCEPT ![Last(queue[c])] = "batched"]

\* A receive from w.queue by the worker.
Receive(c) ==
    /\ queue[c] # <<>>
    /\ queue' = [queue EXCEPT ![c] = Tail(@)]
    /\ latest' = [latest EXCEPT ![c] = Head(queue[c])]
    /\ batch' = [batch EXCEPT ![c] = Append(@, Head(queue[c]))]
    /\ fate' = [fate EXCEPT ![Head(queue[c])] = "batched"]

\* Slip: enqueuedAt is not taken from the first message.
TakeFirstUndated(c) ==
    /\ worker[c] = "select"
    /\ Receive(c)
    /\ worker' = [worker EXCEPT ![c] = "collect"]
    /\ mergedCount' = [mergedCount EXCEPT ![c] = 1]
    /\ UNCHANGED <<ctxDone, callVars, first, sent, calls>>

TakeFirst(c) ==
    /\ worker[c] = "select"
    /\ Receive(c)
    /\ worker' = [worker EXCEPT ![c] = "collect"]
    /\ first' = [first EXCEPT ![c] = Head(queue[c])]
    /\ mergedCount' = [mergedCount EXCEPT ![c] = 1]
    /\ UNCHANGED <<ctxDone, callVars, sent, calls>>

TakeNext(c) ==
    /\ worker[c] = "collect"
    /\ Receive(c)
    /\ mergedCount' = [mergedCount EXCEPT ![c] = @ + 1]
    /\ UNCHANGED <<ctxDone, callVars, worker, first, sent, calls>>

\* Slip: the handler gets the oldest message of the batch.
CallHandlerWithFirst(c) ==
    /\ worker[c] = "collect"
    /\ worker' = [worker EXCEPT ![c] = "handling"]
    /\ calls' = [calls EXCEPT ![c] = Append(@,
                   [msg |-> first[c], mergedCount |-> mergedCount[c],
                    enqueuedAt |-> first[c], batch |-> batch[c]])]
    /\ fate' = [m \in Msg |->
                  IF fate[m] # "batched" \/ ChannelOf[m] # c THEN fate[m]
                  ELSE IF m = first[c] THEN "handled" ELSE "merged"]
    /\ batch' = [batch EXCEPT ![c] = <<>>]
    /\ UNCHANGED <<ctxDone, callVars, queue, first, latest, mergedCount, sent>>

\* The timer fires and the handler is called, in the worker's goroutine.
CallHandler(c) ==
    /\ worker[c] = "collect"
    /\ worker' = [worker EXCEPT ![c] = "handling"]
    /\ calls' = [calls EXCEPT ![c] = Append(@,
                   [msg |-> latest[c], mergedCount |-> mergedCount[c],
                    enqueuedAt |-> first[c], batch |-> batch[c]])]
    /\ fate' = [m \in Msg |->
                  IF fate[m] # "batched" \/ ChannelOf[m] # c THEN fate[m]
                  ELSE IF m = latest[c] THEN "handled" ELSE "merged"]
    /\ batch' = [batch EXCEPT ![c] = <<>>]
    /\ UNCHANGED <<ctxDone, callVars, queue, first, latest, mergedCount, sent>>

\* Slip: the worker serves one batch and returns.
HandlerReturnsForGood(c) ==
    /\ worker[c] = "handling"
    /\ worker' = [worker EXCEPT ![c] = "exited"]
    /\ UNCHANGED <<ctxDone, callVars, queue, first, latest, mergedCount, historyVars>>

HandlerReturns(c) ==
    /\ worker[c] = "handling"
    /\ worker' = [worker EXCEPT ![c] = "select"]
    /\ UNCHANGED <<ctxDone, callVars, queue, first, latest, mergedCount, historyVars>>

\* Slip: a break in place of the return only leaves the select.
BreakIdle(c) ==
    /\ ctxDone
    /\ worker[c] = "select"
    /\ UNCHANGED vars

\* Both selects may take d.ctx.Done, also when a message is waiting.
ExitIdle(c) ==
    /\ ctxDone
    /\ worker[c] = "select"
    /\ worker' = [worker EXCEPT ![c] = "exited"]
    /\ UNCHANGED <<ctxDone, callVars, queue, first, latest, mergedCount, historyVars>>

\* The batch in hand is given up.
ExitCollecting(c) ==
    /\ ctxDone
    /\ worker[c] = "collect"
    /\ worker' = [worker EXCEPT ![c] = "exited"]
    /\ fate' = [m \in Msg |->
                  IF fate[m] = "batched" /\ ChannelOf[m] = c THEN "abandoned" ELSE fate[m]]
    /\ batch' = [batch EXCEPT ![c] = <<>>]
    /\ UNCHANGED <<ctxDone, callVars, queue, first, latest, mergedCount, sent, calls>>

RunWorker(c) == \/ TakeFirst(c)
                \/ TakeNext(c)
                \/ CallHandler(c)
                \/ HandlerReturns(c)
                \/ ExitIdle(c)
                \/ ExitCollecting(c)

\* The root context is cancelled by a signal or a failure of the MCP server.
Cancel == /\ ~ctxDone
          /\ ctxDone' = TRUE
          /\ UNCHANGED <<callVars, queue, workerVars, historyVars>>

\* Nothing is left to do: every call has returned and every worker is gone.
Finished == /\ ctxDone
            /\ \A m \in Msg : at[m] = "returned"
            /\ \A c \in Channel : worker[c] \in {"none", "exited"}
            /\ UNCHANGED vars

Next == \/ \E m \in Msg : Enqueue(m)
        \/ \E c \in Channel : RunWorker(c)
        \/ Cancel
        \/ Finished

Spec == Init /\ [][Next]_vars

-----------------------------------------------------------------------------
(* Properties *)

Places  == {"start", "ctx", "send", "drain", "resend", "returned"}
Stages  == {"none", "select", "collect", "handling", "exited"}
Fates   == {"outside", "queued", "batched", "handled", "merged",
            "evicted", "rejected", "refused", "abandoned"}

\* A callback: the message and its CallbackMetadata, with the batch behind it.
Call == [msg : Msg, mergedCount : Nat, enqueuedAt : Msg, batch : Seq(Msg)]

TypeOK ==
    /\ ctxDone \in BOOLEAN
    /\ at \in [Msg -> Places]
    /\ dropped \in [Msg -> BOOLEAN]
    /\ queue \in [Channel -> Seq(Msg)]
    /\ worker \in [Channel -> Stages]
    /\ first \in [Channel -> Msg \cup {NoMsg}]
    /\ latest \in [Channel -> Msg \cup {NoMsg}]
    /\ mergedCount \in [Channel -> Nat]
    /\ fate \in [Msg -> Fates]
    /\ sent \in [Channel -> Seq(Msg)]
    /\ batch \in [Channel -> Seq(Msg)]
    /\ calls \in [Channel -> Seq(Call)]

\* The queue of a channel never holds more than its buffer, whatever calls and
\* receives interleave between the full check, the drain and the second send.
QueueBounded == \A c \in Channel : Len(queue[c]) <= QueueSize

Holds(s, m) == \E i \in 1..Len(s) : s[i] = m
Distinct(s) == \A i, j \in 1..Len(s) : s[i] = s[j] => i = j

\* Every message is in one place: the queue and the batch of a channel hold only
\* messages of that channel, each once, exactly those whose fate says so, and
\* only once their Enqueue has returned.
OnePlace ==
    /\ \A c \in Channel :
         /\ \A m \in Msg : Holds(queue[c], m) <=> fate[m] = "queued" /\ ChannelOf[m] = c
         /\ \A m \in Msg : Holds(batch[c], m) <=> fate[m] = "batched" /\ ChannelOf[m] = c
         /\ Distinct(queue[c])
         /\ Distinct(batch[c])
    /\ \A m \in Msg : at[m] = "returned" <=> fate[m] # "outside"

\* While a batch is collected, the worker's locals say what it is: enqueuedAt
\* comes from its oldest message, latest is its newest, mergedCount its size.
LocalsMatchBatch ==
    \A c \in Channel :
        IF worker[c] = "collect"
        THEN /\ batch[c] # <<>>
             /\ first[c] = batch[c][1]
             /\ latest[c] = batch[c][Len(batch[c])]
             /\ mergedCount[c] = Len(batch[c])
        ELSE batch[c] = <<>>

\* The handler is told the truth: the message it gets is the newest of the
\* messages it stands for, MergedCount their number, EnqueuedAt of the oldest.
HandlerToldTruth ==
    \A c \in Channel : \A i \in 1..Len(calls[c]) :
        LET call == calls[c][i]
        IN  /\ call.batch # <<>>
            /\ call.msg = call.batch[Len(call.batch)]
            /\ call.mergedCount = Len(call.batch)
            /\ call.enqueuedAt = call.batch[1]

\* A message is lost to a full queue only while others of its channel survive:
\* one that is queued, collected or handed over, or that an Enqueue is about to
\* put in the place it made.  Evicting can never silence a channel.
LossLeavesOthers ==
    \A m \in Msg : fate[m] \in {"evicted", "rejected"} =>
        \E n \in Msg : /\ ChannelOf[n] = ChannelOf[m]
                       /\ \/ fate[n] \in {"queued", "batched", "handled", "abandoned"}
                          \/ at[n] = "resend"

Losses  == {m \in Msg : fate[m] \in {"evicted", "rejected"}}
Reports == {m \in Msg : dropped[m]}

\* Each call of Enqueue that returns TRUE, the "dispatcher queue drop" log line,
\* stands for one lost message or for two (it drained one, and lost its own to
\* another sender); no loss to a full queue goes without such a call.
ReportsCoverLosses ==
    /\ Cardinality(Reports) <= Cardinality(Losses)
    /\ Cardinality(Losses) <= 2 * Cardinality(Reports)

\* What the sends of a channel have come to: the batches handed over, the batch
\* in hand, the queue.
Line(c) == FlattenSeq([i \in 1..Len(calls[c]) |-> calls[c][i].batch]) \o batch[c] \o queue[c]

InOrderOf(s, line) ==
    \A x, y \in 1..Len(line) : \A i, j \in 1..Len(s) :
        s[i] = line[x] /\ s[j] = line[y] => (i < j <=> x < y)

\* What entered the queue of a channel leaves it in that order, once, and none of
\* it disappears: the handler calls, the batch in hand and the queue hold it all
\* but for the evicted and the abandoned.
ExactOrder ==
    \A c \in Channel :
        /\ \A m \in Msg : Holds(Line(c), m) <=>
                            Holds(sent[c], m) /\ fate[m] \notin {"evicted", "abandoned"}
        /\ InOrderOf(sent[c], Line(c))

\* What the comment at dispatcher.go:81 says of a full queue: "drop one oldest
\* item and prefer the newest message".  A call that drained an item to make
\* room for its own message does get it in.
PrefersNewest == \A m \in Msg : fate[m] # "rejected"

\* The dispatcher implements the mailbox: Enqueue's first steps, the calls'
\* places, the worker's locals and the handler's return are invisible.
Mailbox == INSTANCE ChannelMailbox
             WITH Capacity  <- QueueSize,
                  unseen    <- {m \in Msg : fate[m] = "outside"},
                  inbox     <- queue,
                  current   <- batch,
                  delivered <- [c \in Channel |->
                                  [i \in 1..Len(calls[c]) |-> calls[c][i].batch]],
                  lost      <- {m \in Msg : fate[m] \in {"evicted", "rejected",
                                                         "refused", "abandoned"}},
                  closed    <- ctxDone

ImplementsMailbox == Mailbox!Spec
=============================================================================
