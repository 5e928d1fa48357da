-------------------------- MODULE DispatcherProofs --------------------------
(***************************************************************************)
(* Proofs about Dispatcher, for every set of messages and channels and     *)
(* every queue size.                                                       *)
(***************************************************************************)
EXTENDS Dispatcher, SequenceTheorems, FiniteSetTheorems, WellFoundedInduction, TLAPS

-----------------------------------------------------------------------------
(* The operators the model is built from. *)

\* Appending to a bounded queue one short of its bound keeps it a bounded queue.
LEMMA AppendFacts ==
    ASSUME NEW S, NEW s \in Seq(S), NEW e \in S
    PROVE  /\ Append(s, e) \in Seq(S)
           /\ Len(Append(s, e)) = Len(s) + 1
           /\ \A i \in 1..Len(s) : Append(s, e)[i] = s[i]
           /\ Append(s, e)[Len(s) + 1] = e
  OBVIOUS

\* What is left after the oldest item went.
LEMMA TailFacts ==
    ASSUME NEW S, NEW s \in Seq(S), s # <<>>
    PROVE  /\ Head(s) \in S
           /\ Head(s) = s[1]
           /\ Tail(s) \in Seq(S)
           /\ Len(s) \in Nat \ {0}
           /\ Len(Tail(s)) = Len(s) - 1
           /\ \A i \in 1..Len(Tail(s)) : Tail(s)[i] = s[i + 1]
  OBVIOUS

\* A batch that is not empty has a first and a last message.
LEMMA EndsFacts ==
    ASSUME NEW S, NEW s \in Seq(S), s # <<>>
    PROVE  /\ Len(s) \in Nat \ {0}
           /\ s[1] \in S
           /\ s[Len(s)] \in S
  OBVIOUS

LEMMA AppendPlaces ==
    ASSUME NEW S, NEW s \in Seq(S), NEW e \in S
    PROVE  /\ \A x \in S : Holds(Append(s, e), x) <=> Holds(s, x) \/ x = e
           /\ Distinct(s) /\ ~Holds(s, e) => Distinct(Append(s, e))
  BY AppendFacts DEF Holds, Distinct

LEMMA TailPlaces ==
    ASSUME NEW S, NEW s \in Seq(S), s # <<>>, Distinct(s)
    PROVE  /\ Holds(s, Head(s))
           /\ \A x \in S : Holds(Tail(s), x) <=> Holds(s, x) /\ x # Head(s)
           /\ Distinct(Tail(s))
  <1>1. /\ Head(s) = s[1]
        /\ Len(s) \in Nat \ {0}
        /\ Len(Tail(s)) = Len(s) - 1
        /\ \A i \in 1..Len(Tail(s)) : Tail(s)[i] = s[i + 1]
    BY TailFacts
  <1>2. Holds(s, Head(s))
    BY <1>1 DEF Holds
  <1>3. ASSUME NEW x \in S, Holds(Tail(s), x) PROVE Holds(s, x) /\ x # Head(s)
    BY <1>1, <1>3 DEF Holds, Distinct
  <1>4. ASSUME NEW x \in S, Holds(s, x), x # Head(s) PROVE Holds(Tail(s), x)
    <2>1. PICK i \in 1..Len(s) : s[i] = x
      BY <1>4 DEF Holds
    <2>2. i - 1 \in 1..Len(Tail(s)) /\ Tail(s)[i - 1] = x
      BY <1>1, <1>4, <2>1
    <2> QED
      BY <2>2 DEF Holds
  <1>5. Distinct(Tail(s))
    BY <1>1 DEF Distinct
  <1> QED
    BY <1>2, <1>3, <1>4, <1>5

LEMMA EmptyPlaces ==
    /\ \A x : ~Holds(<<>>, x)
    /\ Distinct(<<>>)
  BY DEF Holds, Distinct

\* What a receive of the worker does to the types.
LEMMA ReceiveTyped ==
    ASSUME TypeOK, NEW c \in Channel, Receive(c)
    PROVE  /\ Head(queue[c]) \in Msg
           /\ queue' \in [Channel -> Seq(Msg)]
           /\ latest' \in [Channel -> Msg \cup {NoMsg}]
           /\ batch' \in [Channel -> Seq(Msg)]
           /\ fate' \in [Msg -> Fates]
  <1>1. Head(queue[c]) \in Msg /\ Tail(queue[c]) \in Seq(Msg)
    BY TailFacts DEF Receive, TypeOK
  <1>2. Append(batch[c], Head(queue[c])) \in Seq(Msg)
    BY <1>1, AppendFacts DEF TypeOK
  <1> QED
    BY <1>1, <1>2 DEF Receive, TypeOK, Fates

-----------------------------------------------------------------------------
(* Types and the worker's locals.  The two are proved together: the record  *)
(* of a handler call is well typed because a collection has a first and a   *)
(* latest message.                                                          *)

LEMMA TypeStep ==
    ASSUME TypeOK, LocalsMatchBatch, [Next]_vars
    PROVE  TypeOK'
  <1> USE ConstantsAssumption DEF TypeOK, Places, Stages, Fates, callVars, workerVars, historyVars
  <1>1. ASSUME NEW m \in Msg, Enqueue(m) PROVE TypeOK'
    <2>1. CASE GetOrCreateWorker(m)
      BY <2>1 DEF GetOrCreateWorker
    <2>2. CASE RefuseAtShutdown(m)
      BY <2>2 DEF RefuseAtShutdown
    <2>3. CASE PassShutdownCheck(m)
      BY <2>3 DEF PassShutdownCheck
    <2>4. CASE Send(m)
      BY <2>4, AppendFacts DEF Send, Put
    <2>5. CASE FindFull(m)
      BY <2>5 DEF FindFull
    <2>6. CASE DrainOldest(m)
      BY <2>6, TailFacts DEF DrainOldest
    <2>7. CASE FindNothingToDrain(m)
      BY <2>7 DEF FindNothingToDrain
    <2>8. CASE Resend(m)
      BY <2>8, AppendFacts DEF Resend, Put
    <2>9. CASE GiveUp(m)
      BY <2>9 DEF GiveUp
    <2> QED
      BY <1>1, <2>1, <2>2, <2>3, <2>4, <2>5, <2>6, <2>7, <2>8, <2>9 DEF Enqueue
  <1>2. ASSUME NEW c \in Channel, RunWorker(c) PROVE TypeOK'
    <2>1. CASE TakeFirst(c)
      BY <2>1, ReceiveTyped DEF TakeFirst
    <2>2. CASE TakeNext(c)
      BY <2>2, ReceiveTyped DEF TakeNext
    <2>3. CASE CallHandler(c)
      <3> DEFINE call == [msg |-> latest[c], mergedCount |-> mergedCount[c],
                          enqueuedAt |-> first[c], batch |-> batch[c]]
      <3>1. call \in Call
        <4>1. first[c] \in Msg /\ latest[c] \in Msg
          BY <2>3, EndsFacts DEF CallHandler, LocalsMatchBatch
        <4> QED
          BY <4>1 DEF Call
      <3>2. calls' \in [Channel -> Seq(Call)]
        BY <2>3, <3>1, AppendFacts DEF CallHandler
      <3> QED
        BY <2>3, <3>2 DEF CallHandler
    <2>4. CASE HandlerReturns(c)
      BY <2>4 DEF HandlerReturns
    <2>5. CASE ExitIdle(c)
      BY <2>5 DEF ExitIdle
    <2>6. CASE ExitCollecting(c)
      <3>1. fate' \in [Msg -> Fates]
        BY <2>6 DEF ExitCollecting
      <3>2. batch' \in [Channel -> Seq(Msg)]
        BY <2>6 DEF ExitCollecting
      <3> QED
        BY <2>6, <3>1, <3>2 DEF ExitCollecting
    <2> QED
      BY <1>2, <2>1, <2>2, <2>3, <2>4, <2>5, <2>6 DEF RunWorker
  <1>3. CASE Cancel
    BY <1>3 DEF Cancel
  <1>4. CASE Finished
    BY <1>4 DEF Finished, vars
  <1>5. CASE UNCHANGED vars
    BY <1>5 DEF vars
  <1> QED
    BY <1>1, <1>2, <1>3, <1>4, <1>5 DEF Next

\* No call of Enqueue touches the worker's locals, and no worker another's.
LEMMA LocalsStep ==
    ASSUME TypeOK, LocalsMatchBatch, [Next]_vars
    PROVE  LocalsMatchBatch'
  <1> USE DEF TypeOK, LocalsMatchBatch, callVars, workerVars, historyVars
  <1>1. ASSUME NEW m \in Msg, Enqueue(m) PROVE LocalsMatchBatch'
    <2>1. CASE GetOrCreateWorker(m)
      BY <2>1 DEF GetOrCreateWorker
    <2>2. CASE ~GetOrCreateWorker(m)
      <3>1. UNCHANGED <<worker, first, latest, mergedCount, batch>>
        BY <1>1, <2>2 DEF Enqueue, RefuseAtShutdown, PassShutdownCheck, Send, FindFull,
                          DrainOldest, FindNothingToDrain, Resend, GiveUp
      <3> QED
        BY <3>1
    <2> QED
      BY <2>1, <2>2
  <1>2. ASSUME NEW c \in Channel, RunWorker(c) PROVE LocalsMatchBatch'
    <2>1. CASE TakeFirst(c)
      <3>1. Head(queue[c]) \in Msg
        BY <2>1, ReceiveTyped DEF TakeFirst
      <3>2. batch[c] = <<>>
        BY <2>1 DEF TakeFirst
      <3>3. batch'[c] = <<Head(queue[c])>>
        BY <2>1, <3>1, <3>2 DEF TakeFirst, Receive
      <3> QED
        BY <2>1, <3>3 DEF TakeFirst, Receive
    <2>2. CASE TakeNext(c)
      <3>1. Head(queue[c]) \in Msg
        BY <2>2, ReceiveTyped DEF TakeNext
      <3>2. /\ batch'[c] = Append(batch[c], Head(queue[c]))
            /\ mergedCount'[c] = mergedCount[c] + 1
            /\ latest'[c] = Head(queue[c])
            /\ first'[c] = first[c]
            /\ worker'[c] = "collect"
        BY <2>2 DEF TakeNext, Receive
      <3>3. /\ batch'[c] # <<>>
            /\ batch'[c][1] = batch[c][1]
            /\ Len(batch'[c]) = Len(batch[c]) + 1
            /\ batch'[c][Len(batch'[c])] = Head(queue[c])
        BY <2>2, <3>1, <3>2, AppendFacts DEF TakeNext
      <3>4. \A d \in Channel \ {c} : /\ worker'[d] = worker[d]
                                     /\ batch'[d] = batch[d]
                                     /\ first'[d] = first[d]
                                     /\ latest'[d] = latest[d]
                                     /\ mergedCount'[d] = mergedCount[d]
        BY <2>2 DEF TakeNext, Receive
      <3> QED
        BY <2>2, <3>2, <3>3, <3>4 DEF TakeNext
    <2>3. CASE CallHandler(c)
      BY <2>3 DEF CallHandler
    <2>4. CASE HandlerReturns(c)
      BY <2>4 DEF HandlerReturns
    <2>5. CASE ExitIdle(c)
      BY <2>5 DEF ExitIdle
    <2>6. CASE ExitCollecting(c)
      BY <2>6 DEF ExitCollecting
    <2> QED
      BY <1>2, <2>1, <2>2, <2>3, <2>4, <2>5, <2>6 DEF RunWorker
  <1>3. CASE Cancel
    BY <1>3 DEF Cancel
  <1>4. CASE Finished
    BY <1>4 DEF Finished, vars
  <1>5. CASE UNCHANGED vars
    BY <1>5 DEF vars
  <1> QED
    BY <1>1, <1>2, <1>3, <1>4, <1>5 DEF Next

LEMMA InitTyped == Init => TypeOK /\ LocalsMatchBatch
  <1> SUFFICES ASSUME Init PROVE TypeOK /\ LocalsMatchBatch
    OBVIOUS
  <1>1. <<>> \in Seq(Msg) /\ <<>> \in Seq(Call)
    OBVIOUS
  <1>2. TypeOK
    BY <1>1 DEF Init, TypeOK, Places, Stages, Fates
  <1>3. LocalsMatchBatch
    BY DEF Init, LocalsMatchBatch
  <1> QED
    BY <1>2, <1>3

\* The dispatcher's state and the record of its handler calls stay of their
\* types, and while a batch is collected enqueuedAt, latest and mergedCount
\* describe exactly that batch.
THEOREM TypesAndLocals == Spec => [](TypeOK /\ LocalsMatchBatch)
  <1>1. TypeOK /\ LocalsMatchBatch /\ [Next]_vars => (TypeOK /\ LocalsMatchBatch)'
    BY TypeStep, LocalsStep
  <1> QED
    BY InitTyped, <1>1, PTL DEF Spec

-----------------------------------------------------------------------------
(* The queue's bound *)

\* No interleaving of calls and receives puts more into a queue than fits.
THEOREM QueueIsBounded == Spec => []QueueBounded
  <1>1. Init => QueueBounded
    BY ConstantsAssumption DEF Init, QueueBounded
  <1>2. TypeOK /\ QueueBounded /\ [Next]_vars => QueueBounded'
    <2> SUFFICES ASSUME TypeOK, QueueBounded, [Next]_vars PROVE QueueBounded'
      OBVIOUS
    <2> USE ConstantsAssumption DEF TypeOK, QueueBounded
    <2>1. ASSUME NEW m \in Msg, Put(m) PROVE QueueBounded'
      BY <2>1, AppendFacts DEF Put
    <2>2. ASSUME NEW c \in Channel, queue[c] # <<>>, queue' = [queue EXCEPT ![c] = Tail(@)]
          PROVE  QueueBounded'
      BY <2>2, TailFacts
    <2>3. ASSUME UNCHANGED queue PROVE QueueBounded'
      BY <2>3
    <2>4. ASSUME NEW m \in Msg, Enqueue(m) PROVE QueueBounded'
      BY <2>4, <2>1, <2>2, <2>3
         DEF Enqueue, GetOrCreateWorker, RefuseAtShutdown, PassShutdownCheck, Send,
             FindFull, DrainOldest, FindNothingToDrain, Resend, GiveUp
    <2>5. ASSUME NEW c \in Channel, RunWorker(c) PROVE QueueBounded'
      BY <2>5, <2>2, <2>3
         DEF RunWorker, TakeFirst, TakeNext, Receive, CallHandler, HandlerReturns,
             ExitIdle, ExitCollecting
    <2> QED
      BY <2>3, <2>4, <2>5 DEF Next, Cancel, Finished, vars
  <1> QED
    BY <1>1, <1>2, TypesAndLocals, PTL DEF Spec

-----------------------------------------------------------------------------
(* What the handler is told *)

\* Every call of the handler was told the truth about the batch behind it.
THEOREM HandlerIsToldTruth == Spec => []HandlerToldTruth
  <1>1. Init => HandlerToldTruth
    BY DEF Init, HandlerToldTruth
  <1>2. TypeOK /\ LocalsMatchBatch /\ HandlerToldTruth /\ [Next]_vars => HandlerToldTruth'
    <2> SUFFICES ASSUME TypeOK, LocalsMatchBatch, HandlerToldTruth, [Next]_vars
                 PROVE  HandlerToldTruth'
      OBVIOUS
    <2>1. ASSUME NEW c \in Channel, CallHandler(c) PROVE HandlerToldTruth'
      <3> DEFINE call == [msg |-> latest[c], mergedCount |-> mergedCount[c],
                          enqueuedAt |-> first[c], batch |-> batch[c]]
      <3>1. /\ call.batch # <<>>
            /\ call.msg = call.batch[Len(call.batch)]
            /\ call.mergedCount = Len(call.batch)
            /\ call.enqueuedAt = call.batch[1]
        BY <2>1 DEF CallHandler, LocalsMatchBatch
      <3>2. call \in Call
        <4>1. first[c] \in Msg /\ latest[c] \in Msg
          BY <2>1, EndsFacts DEF CallHandler, LocalsMatchBatch, TypeOK
        <4> QED
          BY <4>1 DEF Call, TypeOK
      <3> HIDE DEF call
      <3>3. calls' = [calls EXCEPT ![c] = Append(@, call)]
        BY <2>1 DEF CallHandler, call
      <3>4. /\ Len(calls'[c]) = Len(calls[c]) + 1
            /\ \A i \in 1..Len(calls[c]) : calls'[c][i] = calls[c][i]
            /\ calls'[c][Len(calls[c]) + 1] = call
            /\ Len(calls[c]) \in Nat
        BY <3>2, <3>3, AppendFacts DEF TypeOK
      <3>5. \A d \in Channel \ {c} : calls'[d] = calls[d]
        BY <3>3 DEF TypeOK
      <3>6. ASSUME NEW i \in 1..Len(calls'[c])
            PROVE  i \in 1..Len(calls[c]) \/ calls'[c][i] = call
        BY <3>4
      <3>7. ASSUME NEW i \in 1..Len(calls'[c])
            PROVE  /\ calls'[c][i].batch # <<>>
                   /\ calls'[c][i].msg = calls'[c][i].batch[Len(calls'[c][i].batch)]
                   /\ calls'[c][i].mergedCount = Len(calls'[c][i].batch)
                   /\ calls'[c][i].enqueuedAt = calls'[c][i].batch[1]
        <4>1. CASE calls'[c][i] = call
          BY <3>1, <4>1
        <4>2. CASE i \in 1..Len(calls[c])
          <5>1. calls'[c][i] = calls[c][i]
            BY <3>4, <4>2
          <5> QED
            BY <4>2, <5>1 DEF HandlerToldTruth
        <4> QED
          BY <3>6, <4>1, <4>2
      <3> QED
        BY <3>5, <3>7 DEF HandlerToldTruth
    <2>2. ASSUME UNCHANGED calls PROVE HandlerToldTruth'
      BY <2>2 DEF HandlerToldTruth
    <2>3. ASSUME NEW m \in Msg, Enqueue(m) PROVE UNCHANGED calls
      BY <2>3
         DEF Enqueue, GetOrCreateWorker, RefuseAtShutdown, PassShutdownCheck, Send,
             FindFull, DrainOldest, FindNothingToDrain, Resend, GiveUp, historyVars
    <2>4. ASSUME NEW c \in Channel, RunWorker(c), ~CallHandler(c) PROVE UNCHANGED calls
      BY <2>4 DEF RunWorker, TakeFirst, TakeNext, HandlerReturns, ExitIdle,
                  ExitCollecting, historyVars
    <2> QED
      BY <2>1, <2>2, <2>3, <2>4 DEF Next, Cancel, Finished, vars, historyVars
  <1> QED
    BY <1>1, <1>2, TypesAndLocals, PTL DEF Spec

-----------------------------------------------------------------------------
(* Every message is in one place *)

\* A send puts a message, so far outside, in the queue of its channel.
LEMMA PutPlaces ==
    ASSUME TypeOK, OnePlace, NEW m \in Msg, at[m] # "returned", Put(m), UNCHANGED batch
    PROVE  OnePlace'
  <1> USE ConstantsAssumption DEF TypeOK
  <1> DEFINE c == ChannelOf[m]
  <1>1. ChannelOf[m] = c /\ c \in Channel /\ fate[m] = "outside"
    BY DEF OnePlace
  <1>2. ~Holds(queue[c], m)
    BY <1>1 DEF OnePlace
  <1>3. /\ \A x \in Msg : Holds(queue'[c], x) <=> Holds(queue[c], x) \/ x = m
        /\ Distinct(queue'[c])
    BY <1>1, <1>2, AppendPlaces DEF Put, OnePlace
  <1>4. \A d \in Channel \ {c} : queue'[d] = queue[d]
    BY <1>1 DEF Put
  <1>5. /\ \A x \in Msg : fate'[x] = IF x = m THEN "queued" ELSE fate[x]
        /\ \A x \in Msg : at'[x] = IF x = m THEN "returned" ELSE at[x]
    BY DEF Put
  <1> HIDE DEF c
  <1>6. \A d \in Channel, x \in Msg : Holds(queue'[d], x) <=> fate'[x] = "queued" /\ ChannelOf[x] = d
    <2> SUFFICES ASSUME NEW d \in Channel, NEW x \in Msg
                 PROVE  Holds(queue'[d], x) <=> fate'[x] = "queued" /\ ChannelOf[x] = d
      OBVIOUS
    <2>1. Holds(queue[d], x) <=> fate[x] = "queued" /\ ChannelOf[x] = d
      BY DEF OnePlace
    <2>2. CASE d = c
      BY <1>1, <1>3, <1>5, <2>1, <2>2
    <2>3. CASE d # c
      BY <1>1, <1>4, <1>5, <2>1, <2>3
    <2> QED
      BY <2>2, <2>3
  <1>7. \A d \in Channel, x \in Msg : Holds(batch'[d], x) <=> fate'[x] = "batched" /\ ChannelOf[x] = d
    BY <1>1, <1>5 DEF OnePlace
  <1>8. \A d \in Channel : Distinct(queue'[d]) /\ Distinct(batch'[d])
    BY <1>3, <1>4 DEF OnePlace
  <1>9. \A x \in Msg : at'[x] = "returned" <=> fate'[x] # "outside"
    BY <1>5 DEF OnePlace
  <1> QED
    BY <1>6, <1>7, <1>8, <1>9 DEF OnePlace

\* The oldest message of a queue goes, to the fate its taker gives it.
LEMMA HeadPlaces ==
    ASSUME TypeOK, OnePlace, NEW c \in Channel, queue[c] # <<>>,
           queue' = [queue EXCEPT ![c] = Tail(@)]
    PROVE  /\ Head(queue[c]) \in Msg
           /\ fate[Head(queue[c])] = "queued"
           /\ ChannelOf[Head(queue[c])] = c
           /\ at[Head(queue[c])] = "returned"
           /\ \A d \in Channel : Distinct(queue'[d])
           /\ \A d \in Channel, x \in Msg :
                Holds(queue'[d], x) <=>
                    fate[x] = "queued" /\ ChannelOf[x] = d /\ x # Head(queue[c])
  <1> USE DEF TypeOK
  <1> DEFINE h == Head(queue[c])
  <1>1. h \in Msg /\ Holds(queue[c], h)
    BY TailFacts, TailPlaces DEF OnePlace
  <1>2. fate[h] = "queued" /\ ChannelOf[h] = c /\ at[h] = "returned"
    BY <1>1 DEF OnePlace
  <1>3. /\ Distinct(queue'[c])
        /\ \A x \in Msg : Holds(queue'[c], x) <=> Holds(queue[c], x) /\ x # h
    BY TailPlaces DEF OnePlace
  <1>4. \A d \in Channel \ {c} : queue'[d] = queue[d]
    OBVIOUS
  <1> HIDE DEF h
  <1>5. \A d \in Channel, x \in Msg :
          Holds(queue'[d], x) <=> fate[x] = "queued" /\ ChannelOf[x] = d /\ x # h
    BY <1>2, <1>3, <1>4 DEF OnePlace
  <1>6. \A d \in Channel : Distinct(queue'[d])
    BY <1>3, <1>4 DEF OnePlace
  <1> QED
    BY <1>1, <1>2, <1>5, <1>6 DEF h

\* A receive moves it to the batch.
LEMMA ReceivePlaces ==
    ASSUME TypeOK, OnePlace, NEW c \in Channel, Receive(c), UNCHANGED at
    PROVE  OnePlace'
  <1> USE DEF TypeOK
  <1> DEFINE h == Head(queue[c])
  <1>1. /\ h \in Msg /\ fate[h] = "queued" /\ ChannelOf[h] = c /\ at[h] = "returned"
        /\ \A d \in Channel : Distinct(queue'[d])
        /\ \A d \in Channel, x \in Msg :
             Holds(queue'[d], x) <=> fate[x] = "queued" /\ ChannelOf[x] = d /\ x # h
    BY HeadPlaces DEF Receive
  <1>2. /\ batch' = [batch EXCEPT ![c] = Append(@, h)]
        /\ fate' = [fate EXCEPT ![h] = "batched"]
    BY DEF Receive
  <1> HIDE DEF h
  <1>3. ~Holds(batch[c], h)
    BY <1>1 DEF OnePlace
  <1>4. /\ \A x \in Msg : Holds(batch'[c], x) <=> Holds(batch[c], x) \/ x = h
        /\ Distinct(batch'[c])
    BY <1>1, <1>2, <1>3, AppendPlaces DEF OnePlace
  <1>5. \A d \in Channel \ {c} : batch'[d] = batch[d]
    BY <1>2
  <1>6. \A x \in Msg : fate'[x] = IF x = h THEN "batched" ELSE fate[x]
    BY <1>1, <1>2
  <1>7. \A d \in Channel, x \in Msg : Holds(queue'[d], x) <=> fate'[x] = "queued" /\ ChannelOf[x] = d
    BY <1>1, <1>6
  <1>8. \A d \in Channel, x \in Msg : Holds(batch'[d], x) <=> fate'[x] = "batched" /\ ChannelOf[x] = d
    <2> SUFFICES ASSUME NEW d \in Channel, NEW x \in Msg
                 PROVE  Holds(batch'[d], x) <=> fate'[x] = "batched" /\ ChannelOf[x] = d
      OBVIOUS
    <2>1. Holds(batch[d], x) <=> fate[x] = "batched" /\ ChannelOf[x] = d
      BY DEF OnePlace
    <2>2. CASE d = c
      BY <1>1, <1>4, <1>6, <2>1, <2>2
    <2>3. CASE d # c
      BY <1>1, <1>5, <1>6, <2>1, <2>3
    <2> QED
      BY <2>2, <2>3
  <1>9. \A d \in Channel : Distinct(batch'[d])
    BY <1>4, <1>5 DEF OnePlace
  <1>10. \A x \in Msg : at'[x] = "returned" <=> fate'[x] # "outside"
    BY <1>1, <1>6 DEF OnePlace
  <1> QED
    BY <1>1, <1>7, <1>8, <1>9, <1>10 DEF OnePlace

\* A whole batch goes, to fates that are neither a queue's nor a batch's.
LEMMA BatchPlaces ==
    ASSUME TypeOK, OnePlace, NEW c \in Channel,
           batch' = [batch EXCEPT ![c] = <<>>],
           \A x \in Msg : IF fate[x] = "batched" /\ ChannelOf[x] = c
                          THEN fate'[x] \notin {"outside", "queued", "batched"}
                          ELSE fate'[x] = fate[x],
           UNCHANGED <<queue, at>>
    PROVE  OnePlace'
  <1> USE DEF TypeOK
  <1>1. /\ batch'[c] = <<>>
        /\ \A d \in Channel \ {c} : batch'[d] = batch[d]
    OBVIOUS
  <1>2. \A d \in Channel, x \in Msg : Holds(batch'[d], x) <=> fate'[x] = "batched" /\ ChannelOf[x] = d
    BY <1>1, EmptyPlaces DEF OnePlace
  <1>3. \A d \in Channel, x \in Msg : Holds(queue'[d], x) <=> fate'[x] = "queued" /\ ChannelOf[x] = d
    BY DEF OnePlace
  <1>4. \A d \in Channel : Distinct(batch'[d]) /\ Distinct(queue'[d])
    BY <1>1, EmptyPlaces DEF OnePlace
  <1>5. \A x \in Msg : at'[x] = "returned" <=> fate'[x] # "outside"
    BY DEF OnePlace
  <1> QED
    BY <1>2, <1>3, <1>4, <1>5 DEF OnePlace

\* A call's own message leaves the call without entering the queue.
LEMMA CallPlaces ==
    ASSUME TypeOK, OnePlace, NEW m \in Msg, NEW p, NEW f, at[m] # "returned",
           at' = [at EXCEPT ![m] = p],
           fate' = [fate EXCEPT ![m] = f],
           \/ p # "returned" /\ f = fate[m]
           \/ p = "returned" /\ f \notin {"outside", "queued", "batched"},
           UNCHANGED <<queue, batch>>
    PROVE  OnePlace'
  <1> USE DEF TypeOK
  <1>1. fate[m] = "outside"
    BY DEF OnePlace
  <1>2. /\ \A x \in Msg : fate'[x] = IF x = m THEN f ELSE fate[x]
        /\ \A x \in Msg : at'[x] = IF x = m THEN p ELSE at[x]
    OBVIOUS
  <1>3. \A x \in Msg : /\ fate'[x] = "queued" <=> fate[x] = "queued"
                       /\ fate'[x] = "batched" <=> fate[x] = "batched"
                       /\ at'[x] = "returned" <=> fate'[x] # "outside"
    BY <1>1, <1>2 DEF OnePlace
  <1> QED
    BY <1>3 DEF OnePlace

LEMMA OnePlaceStep ==
    ASSUME TypeOK, LocalsMatchBatch, OnePlace, [Next]_vars
    PROVE  OnePlace'
  <1> USE ConstantsAssumption DEF TypeOK
  <1>1. ASSUME UNCHANGED <<at, queue, fate, batch>> PROVE OnePlace'
    BY <1>1 DEF OnePlace
  <1>2. ASSUME NEW m \in Msg, Enqueue(m) PROVE OnePlace'
    <2>1. ASSUME NEW p, p # "returned", at[m] # "returned", at' = [at EXCEPT ![m] = p],
                 UNCHANGED <<queue, fate, batch>>
          PROVE  OnePlace'
      BY <2>1 DEF OnePlace
    <2>2. CASE GetOrCreateWorker(m)
      BY <2>1, <2>2 DEF GetOrCreateWorker, historyVars
    <2>3. CASE RefuseAtShutdown(m)
      BY <2>3, CallPlaces DEF RefuseAtShutdown
    <2>4. CASE PassShutdownCheck(m)
      BY <2>1, <2>4 DEF PassShutdownCheck, historyVars
    <2>5. CASE Send(m)
      BY <2>5, PutPlaces DEF Send
    <2>6. CASE FindFull(m)
      BY <2>1, <2>6 DEF FindFull, historyVars
    <2>7. CASE DrainOldest(m)
      <3> DEFINE c == ChannelOf[m]
                 h == Head(queue[c])
      <3>0. c \in Channel /\ queue[c] # <<>> /\ queue' = [queue EXCEPT ![c] = Tail(@)]
        BY <2>7 DEF DrainOldest
      <3>1. /\ h \in Msg /\ fate[h] = "queued" /\ ChannelOf[h] = c /\ at[h] = "returned"
            /\ \A d \in Channel : Distinct(queue'[d])
            /\ \A d \in Channel, x \in Msg :
                 Holds(queue'[d], x) <=> fate[x] = "queued" /\ ChannelOf[x] = d /\ x # h
        BY <3>0, HeadPlaces
      <3>2. /\ fate' = [fate EXCEPT ![h] = "evicted"]
            /\ at' = [at EXCEPT ![m] = "resend"]
            /\ at[m] = "drain"
            /\ batch' = batch
        BY <2>7 DEF DrainOldest
      <3> HIDE DEF c, h
      <3>3. \A x \in Msg : /\ fate'[x] = IF x = h THEN "evicted" ELSE fate[x]
                           /\ at'[x] = IF x = m THEN "resend" ELSE at[x]
        BY <3>1, <3>2
      <3>4. \A x \in Msg : at'[x] = "returned" <=> fate'[x] # "outside"
        BY <3>1, <3>2, <3>3 DEF OnePlace
      <3>5. \A d \in Channel, x \in Msg : Holds(batch'[d], x) <=> fate'[x] = "batched" /\ ChannelOf[x] = d
        <4> SUFFICES ASSUME NEW d \in Channel, NEW x \in Msg
                     PROVE  Holds(batch[d], x) <=> fate'[x] = "batched" /\ ChannelOf[x] = d
          BY <3>2
        <4>1. fate'[x] = "batched" <=> fate[x] = "batched"
          BY <3>1, <3>3
        <4> QED
          BY <4>1 DEF OnePlace
      <3>6. \A d \in Channel, x \in Msg : Holds(queue'[d], x) <=> fate'[x] = "queued" /\ ChannelOf[x] = d
        BY <3>1, <3>3
      <3> QED
        BY <3>1, <3>2, <3>4, <3>5, <3>6 DEF OnePlace
    <2>8. CASE FindNothingToDrain(m)
      BY <2>1, <2>8 DEF FindNothingToDrain, historyVars
    <2>9. CASE Resend(m)
      BY <2>9, PutPlaces DEF Resend
    <2>10. CASE GiveUp(m)
      BY <2>10, CallPlaces DEF GiveUp
    <2> QED
      BY <1>2, <2>2, <2>3, <2>4, <2>5, <2>6, <2>7, <2>8, <2>9, <2>10 DEF Enqueue
  <1>3. ASSUME NEW c \in Channel, RunWorker(c) PROVE OnePlace'
    <2>1. CASE TakeFirst(c)
      BY <2>1, ReceivePlaces DEF TakeFirst, callVars
    <2>2. CASE TakeNext(c)
      BY <2>2, ReceivePlaces DEF TakeNext, callVars
    <2>3. CASE CallHandler(c)
      BY <2>3, BatchPlaces DEF CallHandler, callVars
    <2>4. CASE HandlerReturns(c)
      BY <1>1, <2>4 DEF HandlerReturns, callVars, historyVars
    <2>5. CASE ExitIdle(c)
      BY <1>1, <2>5 DEF ExitIdle, callVars, historyVars
    <2>6. CASE ExitCollecting(c)
      BY <2>6, BatchPlaces DEF ExitCollecting, callVars
    <2> QED
      BY <1>3, <2>1, <2>2, <2>3, <2>4, <2>5, <2>6 DEF RunWorker
  <1> QED
    BY <1>1, <1>2, <1>3 DEF Next, Cancel, Finished, vars, callVars, historyVars

LEMMA InitOnePlace == Init => OnePlace
  BY EmptyPlaces DEF Init, OnePlace

\* At every moment each message is in exactly one place: with its caller, in the
\* queue of its own channel, in the batch of its own channel, or done with.
THEOREM MessagesInOnePlace == Spec => []OnePlace
  <1>1. TypeOK /\ LocalsMatchBatch /\ OnePlace /\ [Next]_vars => OnePlace'
    BY OnePlaceStep
  <1> QED
    BY InitOnePlace, <1>1, TypesAndLocals, PTL DEF Spec

\* A message whose handler was called never gets another fate.
LEMMA HandledStays ==
    ASSUME TypeOK, OnePlace, [Next]_vars,
           NEW m \in Msg, fate[m] = "handled"
    PROVE  fate'[m] = "handled"
  <1> USE DEF TypeOK
  <1>1. at[m] = "returned"
    BY DEF OnePlace
  <1>2. ASSUME NEW c \in Channel, queue[c] # <<>> PROVE Head(queue[c]) # m
    <2>1. queue[c] \in Seq(Msg)
      OBVIOUS
    <2>2. Len(queue[c]) \in Nat \ {0} /\ Head(queue[c]) = queue[c][1]
      BY <2>1, <1>2, TailFacts
    <2>3. Head(queue[c]) = m => Holds(queue[c], m)
      BY <2>2 DEF Holds
    <2> QED
      BY <2>3 DEF OnePlace
  <1>3. ASSUME NEW n \in Msg, Enqueue(n) PROVE fate'[m] = "handled"
    <2>1. ChannelOf[n] \in Channel
      BY ConstantsAssumption
    <2>2. CASE GetOrCreateWorker(n) \/ PassShutdownCheck(n) \/ FindFull(n) \/ FindNothingToDrain(n)
      BY <2>2 DEF GetOrCreateWorker, PassShutdownCheck, FindFull, FindNothingToDrain, historyVars
    <2>3. CASE RefuseAtShutdown(n) \/ Send(n) \/ Resend(n) \/ GiveUp(n)
      BY <2>3, <1>1 DEF RefuseAtShutdown, Send, Resend, Put, GiveUp
    <2>4. CASE DrainOldest(n)
      BY <2>1, <2>4, <1>2 DEF DrainOldest
    <2> QED
      BY <1>3, <2>2, <2>3, <2>4 DEF Enqueue
  <1>4. ASSUME NEW c \in Channel, RunWorker(c) PROVE fate'[m] = "handled"
    <2>1. CASE TakeFirst(c) \/ TakeNext(c)
      BY <2>1, <1>2 DEF TakeFirst, TakeNext, Receive
    <2>2. CASE CallHandler(c) \/ ExitCollecting(c)
      BY <2>2 DEF CallHandler, ExitCollecting
    <2>3. CASE HandlerReturns(c) \/ ExitIdle(c)
      BY <2>3 DEF HandlerReturns, ExitIdle, historyVars
    <2> QED
      BY <1>4, <2>1, <2>2, <2>3 DEF RunWorker
  <1>5. CASE Cancel \/ Finished \/ UNCHANGED vars
    BY <1>5 DEF Cancel, Finished, vars, historyVars
  <1> QED
    BY <1>3, <1>4, <1>5 DEF Next

-----------------------------------------------------------------------------
(* Losses leave others *)

Survives(n) == \/ fate[n] \in {"queued", "batched", "handled", "abandoned"}
               \/ at[n] = "resend"

IsLost(m) == fate[m] \in {"evicted", "rejected"}

\* A step that loses nothing and ends no survivor keeps the invariant.
LEMMA SurvivorsStay ==
    ASSUME LossLeavesOthers,
           \A m \in Msg : IsLost(m)' => IsLost(m),
           \A n \in Msg : Survives(n) => Survives(n)'
    PROVE  LossLeavesOthers'
  BY DEF LossLeavesOthers, IsLost, Survives

\* So does one that changes a single channel and leaves a survivor there.
LEMMA SurvivorFound ==
    ASSUME LossLeavesOthers, NEW c, NEW k \in Msg, ChannelOf[k] = c, Survives(k)',
           \A m \in Msg : ChannelOf[m] # c /\ IsLost(m)' => IsLost(m),
           \A n \in Msg : ChannelOf[n] # c /\ Survives(n) => Survives(n)'
    PROVE  LossLeavesOthers'
  <1> SUFFICES ASSUME NEW m \in Msg, IsLost(m)'
               PROVE  \E n \in Msg : ChannelOf[n] = ChannelOf[m] /\ Survives(n)'
    BY DEF LossLeavesOthers, IsLost, Survives
  <1>1. CASE ChannelOf[m] = c
    BY <1>1
  <1>2. CASE ChannelOf[m] # c
    <2>1. IsLost(m)
      BY <1>2
    <2>2. PICK n \in Msg : ChannelOf[n] = ChannelOf[m] /\ Survives(n)
      BY <2>1 DEF LossLeavesOthers, IsLost, Survives
    <2>3. Survives(n)'
      BY <1>2, <2>2
    <2> QED
      BY <2>2, <2>3
  <1> QED
    BY <1>1, <1>2

LEMMA LossStep ==
    ASSUME TypeOK, LocalsMatchBatch, OnePlace, LossLeavesOthers, [Next]_vars
    PROVE  LossLeavesOthers'
  <1> USE ConstantsAssumption DEF TypeOK
  <1>1. ASSUME UNCHANGED <<at, fate>> PROVE LossLeavesOthers'
    BY <1>1, SurvivorsStay DEF IsLost, Survives
  <1>2. ASSUME NEW m \in Msg, Enqueue(m) PROVE LossLeavesOthers'
    <2>1. ASSUME NEW p, at[m] # "resend", at' = [at EXCEPT ![m] = p], UNCHANGED fate
          PROVE  LossLeavesOthers'
      BY <2>1, SurvivorsStay DEF IsLost, Survives
    <2>2. ASSUME Put(m) PROVE LossLeavesOthers'
      <3>1. /\ fate' = [fate EXCEPT ![m] = "queued"]
            /\ at' = [at EXCEPT ![m] = "returned"]
        BY <2>2 DEF Put
      <3> QED
        BY <3>1, SurvivorsStay DEF IsLost, Survives
    <2>3. CASE GetOrCreateWorker(m)
      BY <2>1, <2>3 DEF GetOrCreateWorker, historyVars
    <2>4. CASE RefuseAtShutdown(m)
      <3>1. fate[m] = "outside"
        BY <2>4 DEF RefuseAtShutdown, OnePlace
      <3>2. /\ fate' = [fate EXCEPT ![m] = "refused"]
            /\ at' = [at EXCEPT ![m] = "returned"]
            /\ at[m] = "ctx"
        BY <2>4 DEF RefuseAtShutdown
      <3> QED
        BY <3>1, <3>2, SurvivorsStay DEF IsLost, Survives
    <2>5. CASE PassShutdownCheck(m)
      BY <2>1, <2>5 DEF PassShutdownCheck, historyVars
    <2>6. CASE Send(m)
      BY <2>2, <2>6 DEF Send
    <2>7. CASE FindFull(m)
      BY <2>1, <2>7 DEF FindFull, historyVars
    <2>8. CASE DrainOldest(m)
      <3> DEFINE c == ChannelOf[m]
                 h == Head(queue[c])
      <3>1. c \in Channel /\ queue[c] # <<>> /\ queue' = [queue EXCEPT ![c] = Tail(@)]
        BY <2>8 DEF DrainOldest
      <3>2. h \in Msg /\ fate[h] = "queued" /\ ChannelOf[h] = c /\ at[h] = "returned"
        BY <3>1, HeadPlaces
      <3>3. /\ fate' = [fate EXCEPT ![h] = "evicted"]
            /\ at' = [at EXCEPT ![m] = "resend"]
        BY <2>8 DEF DrainOldest
      <3>4. c = ChannelOf[m]
        OBVIOUS
      <3> HIDE DEF c, h
      <3>5. Survives(m)'
        BY <3>3 DEF Survives
      <3>6. \A x \in Msg : ChannelOf[x] # c => fate'[x] = fate[x] /\ at'[x] = at[x]
        BY <3>2, <3>3, <3>4
      <3> QED
        <4>1. \A x \in Msg : ChannelOf[x] # c /\ IsLost(x)' => IsLost(x)
          BY <3>6 DEF IsLost
        <4>2. \A x \in Msg : ChannelOf[x] # c /\ Survives(x) => Survives(x)'
          BY <3>6 DEF Survives
        <4> QED
          BY <3>4, <3>5, <4>1, <4>2, SurvivorFound
    <2>9. CASE FindNothingToDrain(m)
      BY <2>1, <2>9 DEF FindNothingToDrain, historyVars
    <2>10. CASE Resend(m)
      BY <2>2, <2>10 DEF Resend
    <2>11. CASE GiveUp(m)
      <3> DEFINE c == ChannelOf[m]
      <3>1. c \in Channel /\ Len(queue[c]) = QueueSize
        BY <2>11 DEF GiveUp
      <3>2. PICK k \in Msg : Holds(queue[c], k)
        <4>1. queue[c][1] \in Msg /\ Holds(queue[c], queue[c][1])
          BY <3>1 DEF Holds
        <4> QED
          BY <4>1
      <3>3. fate[k] = "queued" /\ ChannelOf[k] = c
        BY <3>1, <3>2 DEF OnePlace
      <3>4. /\ fate' = [fate EXCEPT ![m] = "rejected"]
            /\ at' = [at EXCEPT ![m] = "returned"]
            /\ at[m] = "resend"
        BY <2>11 DEF GiveUp
      <3>5. fate[m] = "outside"
        BY <3>4 DEF OnePlace
      <3>6. c = ChannelOf[m]
        OBVIOUS
      <3> HIDE DEF c
      <3>7. Survives(k)'
        BY <3>2, <3>3, <3>4, <3>5 DEF Survives
      <3>8. \A x \in Msg : ChannelOf[x] # c => fate'[x] = fate[x] /\ at'[x] = at[x]
        BY <3>4, <3>6
      <3> QED
        <4>1. \A x \in Msg : ChannelOf[x] # c /\ IsLost(x)' => IsLost(x)
          BY <3>8 DEF IsLost
        <4>2. \A x \in Msg : ChannelOf[x] # c /\ Survives(x) => Survives(x)'
          BY <3>8 DEF Survives
        <4> QED
          BY <3>2, <3>3, <3>7, <4>1, <4>2, SurvivorFound
    <2> QED
      BY <1>2, <2>3, <2>4, <2>5, <2>6, <2>7, <2>8, <2>9, <2>10, <2>11 DEF Enqueue
  <1>3. ASSUME NEW c \in Channel, RunWorker(c) PROVE LossLeavesOthers'
    <2>1. ASSUME Receive(c), UNCHANGED at PROVE LossLeavesOthers'
      <3>1. Head(queue[c]) \in Msg
        BY <2>1, TailFacts DEF Receive
      <3>2. fate' = [fate EXCEPT ![Head(queue[c])] = "batched"]
        BY <2>1 DEF Receive
      <3> QED
        BY <2>1, <3>1, <3>2, SurvivorsStay DEF IsLost, Survives
    <2>2. CASE TakeFirst(c)
      BY <2>1, <2>2 DEF TakeFirst, callVars
    <2>3. CASE TakeNext(c)
      BY <2>1, <2>3 DEF TakeNext, callVars
    <2>4. CASE CallHandler(c)
      <3>1. PICK k \in Msg : k = latest[c] /\ Holds(batch[c], k)
        <4>1. /\ batch[c] # <<>>
              /\ latest[c] = batch[c][Len(batch[c])]
          BY <2>4 DEF CallHandler, LocalsMatchBatch
        <4>2. Len(batch[c]) \in Nat \ {0} /\ latest[c] \in Msg
          BY <4>1, EndsFacts
        <4> QED
          BY <4>1, <4>2 DEF Holds
      <3>2. fate[k] = "batched" /\ ChannelOf[k] = c
        BY <3>1 DEF OnePlace
      <3>3. /\ fate' = [x \in Msg |->
                          IF fate[x] # "batched" \/ ChannelOf[x] # c THEN fate[x]
                          ELSE IF x = k THEN "handled" ELSE "merged"]
            /\ at' = at
        BY <2>4, <3>1 DEF CallHandler, callVars
      <3>4. Survives(k)'
        BY <3>1, <3>2, <3>3 DEF Survives
      <3>5. \A x \in Msg : ChannelOf[x] # c => fate'[x] = fate[x] /\ at'[x] = at[x]
        BY <3>3
      <3> QED
        <4>1. \A x \in Msg : ChannelOf[x] # c /\ IsLost(x)' => IsLost(x)
          BY <3>5 DEF IsLost
        <4>2. \A x \in Msg : ChannelOf[x] # c /\ Survives(x) => Survives(x)'
          BY <3>5 DEF Survives
        <4> QED
          BY <3>2, <3>4, <4>1, <4>2, SurvivorFound
    <2>5. CASE HandlerReturns(c)
      BY <1>1, <2>5 DEF HandlerReturns, callVars, historyVars
    <2>6. CASE ExitIdle(c)
      BY <1>1, <2>6 DEF ExitIdle, callVars, historyVars
    <2>7. CASE ExitCollecting(c)
      <3>1. /\ fate' = [x \in Msg |->
                          IF fate[x] = "batched" /\ ChannelOf[x] = c THEN "abandoned" ELSE fate[x]]
            /\ at' = at
        BY <2>7 DEF ExitCollecting, callVars
      <3> QED
        BY <3>1, SurvivorsStay DEF IsLost, Survives
    <2> QED
      BY <1>3, <2>2, <2>3, <2>4, <2>5, <2>6, <2>7 DEF RunWorker
  <1> QED
    BY <1>1, <1>2, <1>3 DEF Next, Cancel, Finished, vars, callVars, historyVars

\* Losing messages to a full queue never silences a channel: another message of
\* the channel is always queued, collected or handed over, or about to be queued.
THEOREM LossesLeaveOthers == Spec => []LossLeavesOthers
  <1>1. Init => LossLeavesOthers
    BY DEF Init, LossLeavesOthers
  <1>2. TypeOK /\ LocalsMatchBatch /\ OnePlace /\ LossLeavesOthers /\ [Next]_vars
          => LossLeavesOthers'
    BY LossStep
  <1> QED
    BY <1>1, <1>2, TypesAndLocals, MessagesInOnePlace, PTL DEF Spec

-----------------------------------------------------------------------------
(* Reports cover losses *)

Evicted  == {m \in Msg : fate[m] = "evicted"}
Rejected == {m \in Msg : fate[m] = "rejected"}

\* The invariant: a call reports nothing before it has drained, a message that
\* was given up has reported it, and there is an eviction for every other report
\* and a report for every eviction.
Accounted ==
    /\ \A m \in Msg : at[m] \in {"start", "ctx", "send", "drain"} => ~dropped[m]
    /\ Rejected \subseteq Reports
    /\ IsFiniteSet(Evicted)
    /\ IsFiniteSet(Reports)
    /\ Cardinality(Reports \ Rejected) <= Cardinality(Evicted)
    /\ Cardinality(Evicted) <= Cardinality(Reports)

\* A step that evicts, rejects and reports nothing.
LEMMA AccountStays ==
    ASSUME Accounted,
           \A m \in Msg : /\ fate'[m] = "evicted" <=> fate[m] = "evicted"
                          /\ fate'[m] = "rejected" <=> fate[m] = "rejected"
                          /\ at'[m] \in {"start", "ctx", "send", "drain"}
                               => at[m] \in {"start", "ctx", "send", "drain"},
           UNCHANGED dropped
    PROVE  Accounted'
  <1>1. Evicted' = Evicted /\ Rejected' = Rejected /\ Reports' = Reports
    BY DEF Evicted, Rejected, Reports
  <1> QED
    BY <1>1 DEF Accounted

\* The drain: a message more is evicted, and a call more reports.
LEMMA AccountDrain ==
    ASSUME TypeOK, OnePlace, Accounted, NEW m \in Msg, DrainOldest(m)
    PROVE  Accounted'
  <1> USE DEF TypeOK
  <1> DEFINE c == ChannelOf[m]
             h == Head(queue[c])
  <1>1. c \in Channel /\ queue[c] # <<>> /\ queue' = [queue EXCEPT ![c] = Tail(@)]
    BY ConstantsAssumption DEF DrainOldest
  <1>2. h \in Msg /\ fate[h] = "queued"
    BY <1>1, HeadPlaces
  <1>3. /\ at[m] = "drain"
        /\ fate' = [fate EXCEPT ![h] = "evicted"]
        /\ dropped' = [dropped EXCEPT ![m] = TRUE]
        /\ at' = [at EXCEPT ![m] = "resend"]
    BY DEF DrainOldest
  <1> HIDE DEF c, h
  <1>4. /\ \A x \in Msg : fate'[x] = IF x = h THEN "evicted" ELSE fate[x]
        /\ \A x \in Msg : at'[x] = IF x = m THEN "resend" ELSE at[x]
    BY <1>2, <1>3
  <1>5. \A x \in Msg : dropped'[x] <=> x = m \/ dropped[x]
    <2>1. dropped \in [Msg -> BOOLEAN]
      OBVIOUS
    <2> QED
      BY <1>3, <2>1
  <1>6. /\ h \notin Evicted /\ Evicted' = Evicted \cup {h}
        /\ Rejected' = Rejected
    BY <1>2, <1>4 DEF Evicted, Rejected
  <1>7. m \notin Reports /\ Reports' = Reports \cup {m}
    BY <1>3, <1>5 DEF Accounted, Reports
  <1>8. m \notin Rejected
    BY <1>7 DEF Accounted
  <1>9. /\ IsFiniteSet(Evicted') /\ Cardinality(Evicted') = Cardinality(Evicted) + 1
        /\ IsFiniteSet(Reports') /\ Cardinality(Reports') = Cardinality(Reports) + 1
    BY <1>6, <1>7, FS_AddElement DEF Accounted
  <1>10. Cardinality(Reports' \ Rejected') = Cardinality(Reports \ Rejected) + 1
    <2>1. Reports' \ Rejected' = (Reports \ Rejected) \cup {m} /\ m \notin Reports \ Rejected
      BY <1>6, <1>7, <1>8
    <2>2. IsFiniteSet(Reports \ Rejected)
      BY FS_Difference DEF Accounted
    <2> QED
      BY <2>1, <2>2, FS_AddElement
  <1>11. /\ Cardinality(Evicted) \in Nat /\ Cardinality(Reports) \in Nat
         /\ Cardinality(Reports \ Rejected) \in Nat
    BY FS_CardinalityType, FS_Difference DEF Accounted
  <1>12. /\ Cardinality(Reports' \ Rejected') <= Cardinality(Evicted')
         /\ Cardinality(Evicted') <= Cardinality(Reports')
    BY <1>9, <1>10, <1>11 DEF Accounted
  <1>13. \A x \in Msg : at'[x] \in {"start", "ctx", "send", "drain"} => ~dropped'[x]
    BY <1>4, <1>5 DEF Accounted
  <1>14. Rejected' \subseteq Reports'
    BY <1>6, <1>7 DEF Accounted
  <1> QED
    BY <1>9, <1>12, <1>13, <1>14 DEF Accounted

\* Giving up: a message more is rejected, by a call that reports it.
LEMMA AccountGiveUp ==
    ASSUME TypeOK, OnePlace, Accounted, NEW m \in Msg, GiveUp(m)
    PROVE  Accounted'
  <1> USE DEF TypeOK
  <1>1. /\ at[m] = "resend"
        /\ fate' = [fate EXCEPT ![m] = "rejected"]
        /\ dropped' = [dropped EXCEPT ![m] = TRUE]
        /\ at' = [at EXCEPT ![m] = "returned"]
    BY DEF GiveUp
  <1>2. fate[m] = "outside"
    BY <1>1 DEF OnePlace
  <1>3. /\ \A x \in Msg : fate'[x] = IF x = m THEN "rejected" ELSE fate[x]
        /\ \A x \in Msg : at'[x] = IF x = m THEN "returned" ELSE at[x]
    BY <1>1
  <1>4. \A x \in Msg : dropped'[x] <=> x = m \/ dropped[x]
    <2>1. dropped \in [Msg -> BOOLEAN]
      OBVIOUS
    <2> QED
      BY <1>1, <2>1
  <1>5. /\ Evicted' = Evicted
        /\ Rejected' = Rejected \cup {m}
        /\ Reports' = Reports \cup {m}
    BY <1>2, <1>3, <1>4 DEF Evicted, Rejected, Reports
  <1>6. /\ IsFiniteSet(Reports')
        /\ Cardinality(Reports) <= Cardinality(Reports')
    <2>1. IsFiniteSet(Reports')
      BY <1>5, FS_AddElement DEF Accounted
    <2>2. Reports \in SUBSET Reports'
      BY <1>5
    <2> QED
      BY <2>1, <2>2, FS_Subset
  <1>7. /\ IsFiniteSet(Reports \ Rejected)
        /\ Cardinality(Reports' \ Rejected') <= Cardinality(Reports \ Rejected)
    <2>1. IsFiniteSet(Reports \ Rejected)
      BY FS_Difference DEF Accounted
    <2>2. Reports' \ Rejected' \in SUBSET (Reports \ Rejected)
      BY <1>5
    <2> QED
      BY <2>1, <2>2, FS_Subset
  <1>8. /\ Cardinality(Evicted) \in Nat /\ Cardinality(Reports) \in Nat
        /\ Cardinality(Reports') \in Nat
        /\ Cardinality(Reports \ Rejected) \in Nat
        /\ Cardinality(Reports' \ Rejected') \in Nat
    BY <1>6, <1>7, FS_CardinalityType, FS_Difference DEF Accounted
  <1>9. /\ Cardinality(Reports' \ Rejected') <= Cardinality(Evicted')
        /\ Cardinality(Evicted') <= Cardinality(Reports')
    BY <1>5, <1>6, <1>7, <1>8 DEF Accounted
  <1>10. \A x \in Msg : at'[x] \in {"start", "ctx", "send", "drain"} => ~dropped'[x]
    BY <1>3, <1>4 DEF Accounted
  <1>11. Rejected' \subseteq Reports' /\ IsFiniteSet(Evicted')
    BY <1>5 DEF Accounted
  <1> QED
    BY <1>6, <1>9, <1>10, <1>11 DEF Accounted

LEMMA AccountStep ==
    ASSUME TypeOK, OnePlace, Accounted, [Next]_vars
    PROVE  Accounted'
  <1> USE DEF TypeOK
  <1>1. ASSUME UNCHANGED <<at, dropped, fate>> PROVE Accounted'
    BY <1>1, AccountStays
  <1>2. ASSUME NEW m \in Msg, Enqueue(m) PROVE Accounted'
    <2>1. ASSUME NEW p, at[m] \in {"start", "ctx", "send", "drain"},
                 at' = [at EXCEPT ![m] = p], UNCHANGED <<dropped, fate>>
          PROVE  Accounted'
      <3>1. \A x \in Msg : at'[x] = IF x = m THEN p ELSE at[x]
        BY <2>1
      <3> QED
        BY <2>1, <3>1, AccountStays
    <2>2. ASSUME NEW f, fate' = [fate EXCEPT ![m] = f], f \notin {"evicted", "rejected"},
                 at' = [at EXCEPT ![m] = "returned"], at[m] # "returned", UNCHANGED dropped
          PROVE  Accounted'
      <3>1. fate[m] = "outside"
        BY <2>2 DEF OnePlace
      <3>2. /\ \A x \in Msg : fate'[x] = IF x = m THEN f ELSE fate[x]
            /\ \A x \in Msg : at'[x] = IF x = m THEN "returned" ELSE at[x]
        BY <2>2
      <3> QED
        BY <2>2, <3>1, <3>2, AccountStays
    <2>3. CASE GetOrCreateWorker(m) \/ PassShutdownCheck(m) \/ FindFull(m) \/ FindNothingToDrain(m)
      BY <2>1, <2>3 DEF GetOrCreateWorker, PassShutdownCheck, FindFull, FindNothingToDrain, historyVars
    <2>4. CASE RefuseAtShutdown(m) \/ Send(m) \/ Resend(m)
      BY <2>2, <2>4 DEF RefuseAtShutdown, Send, Resend, Put
    <2>5. CASE DrainOldest(m)
      BY <2>5, AccountDrain
    <2>6. CASE GiveUp(m)
      BY <2>6, AccountGiveUp
    <2> QED
      BY <1>2, <2>3, <2>4, <2>5, <2>6 DEF Enqueue
  <1>3. ASSUME NEW c \in Channel, RunWorker(c) PROVE Accounted'
    <2>1. ASSUME Receive(c), UNCHANGED <<at, dropped>> PROVE Accounted'
      <3> DEFINE h == Head(queue[c])
      <3>1. h \in Msg /\ fate[h] = "queued"
        BY <2>1, HeadPlaces DEF Receive
      <3>2. fate' = [fate EXCEPT ![h] = "batched"]
        BY <2>1 DEF Receive
      <3> HIDE DEF h
      <3>3. \A x \in Msg : fate'[x] = IF x = h THEN "batched" ELSE fate[x]
        BY <3>1, <3>2
      <3> QED
        BY <2>1, <3>1, <3>3, AccountStays
    <2>2. CASE TakeFirst(c) \/ TakeNext(c)
      BY <2>1, <2>2 DEF TakeFirst, TakeNext, callVars
    <2>3. CASE CallHandler(c) \/ ExitCollecting(c)
      <3>1. UNCHANGED <<at, dropped>>
        BY <2>3 DEF CallHandler, ExitCollecting, callVars
      <3>2. \A x \in Msg : \/ fate'[x] = fate[x]
                           \/ /\ fate[x] = "batched"
                              /\ fate'[x] \in {"handled", "merged", "abandoned"}
        <4>1. CASE CallHandler(c)
          <5>1. fate' = [x \in Msg |->
                           IF fate[x] # "batched" \/ ChannelOf[x] # c THEN fate[x]
                           ELSE IF x = latest[c] THEN "handled" ELSE "merged"]
            BY <4>1 DEF CallHandler
          <5> QED
            BY <5>1
        <4>2. CASE ExitCollecting(c)
          <5>1. fate' = [x \in Msg |->
                           IF fate[x] = "batched" /\ ChannelOf[x] = c THEN "abandoned"
                           ELSE fate[x]]
            BY <4>2 DEF ExitCollecting
          <5> QED
            BY <5>1
        <4> QED
          BY <2>3, <4>1, <4>2
      <3> QED
        BY <3>1, <3>2, AccountStays
    <2>4. CASE HandlerReturns(c) \/ ExitIdle(c)
      BY <1>1, <2>4 DEF HandlerReturns, ExitIdle, callVars, historyVars
    <2> QED
      BY <1>3, <2>2, <2>3, <2>4 DEF RunWorker
  <1> QED
    BY <1>1, <1>2, <1>3 DEF Next, Cancel, Finished, vars, callVars, historyVars

LEMMA InitAccounted == Init => Accounted
  <1> SUFFICES ASSUME Init PROVE Accounted
    OBVIOUS
  <1>1. Evicted = {} /\ Rejected = {} /\ Reports = {}
    BY DEF Init, Evicted, Rejected, Reports
  <1>2. Reports \ Rejected = {}
    BY <1>1
  <1>3. \A m \in Msg : ~dropped[m]
    BY DEF Init
  <1> QED
    BY <1>1, <1>2, <1>3, FS_EmptySet DEF Accounted

LEMMA AccountCovers == Accounted => ReportsCoverLosses
  <1> SUFFICES ASSUME Accounted PROVE ReportsCoverLosses
    OBVIOUS
  <1>1. Losses = Evicted \cup Rejected /\ Evicted \cap Rejected = {}
    BY DEF Losses, Evicted, Rejected
  <1>2. IsFiniteSet(Rejected) /\ Cardinality(Rejected) <= Cardinality(Reports)
    <2>1. Rejected \in SUBSET Reports /\ IsFiniteSet(Reports)
      BY DEF Accounted
    <2> QED
      BY <2>1, FS_Subset
  <1>3. Cardinality(Losses) = Cardinality(Evicted) + Cardinality(Rejected)
    <2>1. Cardinality(Evicted \cup Rejected)
            = Cardinality(Evicted) + Cardinality(Rejected) - Cardinality(Evicted \cap Rejected)
      BY <1>2, FS_Union DEF Accounted
    <2>2. Cardinality(Evicted) \in Nat /\ Cardinality(Rejected) \in Nat
      BY <1>2, FS_CardinalityType DEF Accounted
    <2>3. Cardinality(Evicted \cap Rejected) = 0
      BY <1>1, FS_EmptySet
    <2> QED
      BY <1>1, <2>1, <2>2, <2>3
  <1>4. Cardinality(Reports \ Rejected) = Cardinality(Reports) - Cardinality(Rejected)
    <2>1. Reports \cap Rejected = Rejected
      BY DEF Accounted
    <2> QED
      BY <2>1, FS_Difference DEF Accounted
  <1>5. /\ Cardinality(Evicted) \in Nat /\ Cardinality(Rejected) \in Nat
        /\ Cardinality(Reports) \in Nat
    BY <1>2, FS_CardinalityType DEF Accounted
  <1> QED
    BY <1>2, <1>3, <1>4, <1>5 DEF Accounted, ReportsCoverLosses

\* However the calls interleave, a loss to a full queue is always reported by
\* some call, and a report always stands for one loss or two.
THEOREM ReportsCover == Spec => []ReportsCoverLosses
  <1>1. TypeOK /\ OnePlace /\ Accounted /\ [Next]_vars => Accounted'
    BY AccountStep
  <1> QED
    BY InitAccounted, <1>1, AccountCovers, TypesAndLocals, MessagesInOnePlace, PTL DEF Spec

-----------------------------------------------------------------------------
(* The dispatcher implements the mailbox *)

\* The mapped variables, by the names they have in ChannelMailbox.
Unseen    == {m \in Msg : fate[m] = "outside"}
Gone      == {m \in Msg : fate[m] \in {"evicted", "rejected", "refused", "abandoned"}}
Delivered == [c \in Channel |-> [i \in 1..Len(calls[c]) |-> calls[c][i].batch]]

LEMMA MapsInit == Init => Mailbox!Init
  <1> SUFFICES ASSUME Init PROVE Mailbox!Init
    OBVIOUS
  <1>1. Unseen = Msg /\ Gone = {}
    BY DEF Init, Unseen, Gone
  <1>2. \A c \in Channel : [i \in 1..Len(calls[c]) |-> calls[c][i].batch] = <<>>
    BY DEF Init
  <1>3. Delivered = [c \in Channel |-> <<>>]
    BY <1>2 DEF Delivered
  <1> QED
    BY <1>1, <1>3 DEF Mailbox!Init, Init, Unseen, Gone, Delivered

\* A send is the mailbox accepting the message.
LEMMA MapsPut ==
    ASSUME TypeOK, OnePlace, NEW m \in Msg, at[m] # "returned", Put(m),
           UNCHANGED <<batch, calls, ctxDone>>
    PROVE  Mailbox!Accept(m)
  <1> USE DEF TypeOK
  <1>1. fate[m] = "outside"
    BY DEF OnePlace
  <1>2. m \in Unseen
    BY <1>1 DEF Unseen
  <1>3. Unseen' = Unseen \ {m}
    BY DEF Put, Unseen
  <1>4. Gone' = Gone
    BY <1>1 DEF Put, Gone
  <1>5. Delivered' = Delivered
    BY DEF Delivered
  <1> QED
    BY <1>2, <1>3, <1>4, <1>5 DEF Mailbox!Accept, Put, Unseen, Gone, Delivered

\* A receive of the worker is the mailbox collecting.
LEMMA MapsReceive ==
    ASSUME TypeOK, OnePlace, NEW c \in Channel, Receive(c),
           UNCHANGED <<calls, ctxDone>>
    PROVE  Mailbox!Collect(c)
  <1> USE DEF TypeOK
  <1>1. Head(queue[c]) \in Msg /\ fate[Head(queue[c])] = "queued"
    BY HeadPlaces DEF Receive
  <1>2. Unseen' = Unseen /\ Gone' = Gone
    BY <1>1 DEF Receive, Unseen, Gone
  <1>3. Delivered' = Delivered
    BY DEF Delivered
  <1> QED
    BY <1>2, <1>3 DEF Mailbox!Collect, Receive, Unseen, Gone, Delivered

\* A call's message that never enters the queue is turned away.
LEMMA MapsTurnAway ==
    ASSUME TypeOK, OnePlace, NEW m \in Msg, at[m] # "returned",
           NEW f \in {"rejected", "refused"},
           fate' = [fate EXCEPT ![m] = f],
           ctxDone \/ Len(queue[ChannelOf[m]]) = QueueSize,
           UNCHANGED <<queue, batch, calls, ctxDone>>
    PROVE  Mailbox!TurnAway(m)
  <1> USE DEF TypeOK
  <1>1. fate[m] = "outside"
    BY DEF OnePlace
  <1>2. m \in Unseen
    BY <1>1 DEF Unseen
  <1>3. Unseen' = Unseen \ {m} /\ Gone' = Gone \cup {m}
    BY <1>1 DEF Unseen, Gone
  <1>4. Delivered' = Delivered
    BY DEF Delivered
  <1> QED
    BY <1>2, <1>3, <1>4 DEF Mailbox!TurnAway, Unseen, Gone, Delivered

LEMMA MapsDrain ==
    ASSUME TypeOK, OnePlace, NEW m \in Msg, DrainOldest(m)
    PROVE  Mailbox!Evict(ChannelOf[m])
  <1> USE ConstantsAssumption DEF TypeOK
  <1> DEFINE c == ChannelOf[m]
  <1>1. c \in Channel /\ queue[c] # <<>> /\ queue' = [queue EXCEPT ![c] = Tail(@)]
    BY DEF DrainOldest
  <1>2. Head(queue[c]) \in Msg /\ fate[Head(queue[c])] = "queued"
    BY <1>1, HeadPlaces
  <1>3. Unseen' = Unseen /\ Gone' = Gone \cup {Head(queue[c])}
    BY <1>2 DEF DrainOldest, Unseen, Gone
  <1>4. Delivered' = Delivered
    BY DEF DrainOldest, Delivered
  <1> QED
    BY <1>1, <1>3, <1>4 DEF Mailbox!Evict, DrainOldest, Unseen, Gone, Delivered

LEMMA DeliveredTyped ==
    ASSUME TypeOK
    PROVE  Delivered \in [Channel -> Seq(Seq(Msg))]
  <1> SUFFICES ASSUME NEW c \in Channel PROVE Delivered[c] \in Seq(Seq(Msg))
    BY DEF Delivered
  <1>1. calls[c] \in Seq(Call) /\ Len(calls[c]) \in Nat
    BY DEF TypeOK
  <1>2. ASSUME NEW i \in 1..Len(calls[c]) PROVE calls[c][i].batch \in Seq(Msg)
    <2>1. calls[c][i] \in Call
      BY <1>1
    <2> QED
      BY <2>1 DEF Call
  <1>3. Delivered[c] = [i \in 1..Len(calls[c]) |-> calls[c][i].batch]
    BY DEF Delivered
  <1> QED
    BY <1>1, <1>2, <1>3

LEMMA DeliveredGrows ==
    ASSUME TypeOK, LocalsMatchBatch, NEW c \in Channel, CallHandler(c)
    PROVE  Delivered' = [Delivered EXCEPT ![c] = Append(@, batch[c])]
  <1> USE DEF TypeOK
  <1> DEFINE call == [msg |-> latest[c], mergedCount |-> mergedCount[c],
                      enqueuedAt |-> first[c], batch |-> batch[c]]
  <1>1. call \in Call
    <2>1. first[c] \in Msg /\ latest[c] \in Msg
      BY EndsFacts DEF CallHandler, LocalsMatchBatch
    <2> QED
      BY <2>1 DEF Call
  <1>2. calls' = [calls EXCEPT ![c] = Append(@, call)] /\ call.batch = batch[c]
    BY DEF CallHandler
  <1> HIDE DEF call
  <1>3. Delivered'[c] = Append(Delivered[c], batch[c])
    <2>1. Len(calls[c]) \in Nat /\ Len(calls'[c]) = Len(calls[c]) + 1
      BY <1>1, <1>2, AppendFacts
    <2>2. /\ \A i \in 1..Len(calls[c]) : calls'[c][i] = calls[c][i]
          /\ calls'[c][Len(calls[c]) + 1] = call
      BY <1>1, <1>2, AppendFacts
    <2>3. Delivered[c] = [i \in 1..Len(calls[c]) |-> calls[c][i].batch]
      BY DEF Delivered
    <2>4. Delivered'[c] = [i \in 1..Len(calls'[c]) |-> calls'[c][i].batch]
      BY DEF Delivered
    <2>5. Delivered[c] \in Seq(Seq(Msg)) /\ Len(Delivered[c]) = Len(calls[c])
      BY <2>1, <2>3, DeliveredTyped
    <2>6. Append(Delivered[c], batch[c])
            = [i \in 1..Len(calls[c]) + 1 |-> IF i = Len(calls[c]) + 1 THEN batch[c]
                                              ELSE Delivered[c][i]]
      BY <2>1, <2>5
    <2> QED
      BY <1>2, <2>1, <2>2, <2>3, <2>4, <2>6
  <1>4. \A d \in Channel \ {c} : Delivered'[d] = Delivered[d]
    BY <1>2 DEF Delivered
  <1> QED
    BY <1>3, <1>4 DEF Delivered

LEMMA MapsCallHandler ==
    ASSUME TypeOK, LocalsMatchBatch, OnePlace, NEW c \in Channel, CallHandler(c)
    PROVE  Mailbox!Deliver(c)
  <1>1. batch[c] # <<>>
    BY DEF CallHandler, LocalsMatchBatch
  <1>2. Unseen' = Unseen /\ Gone' = Gone
    BY DEF CallHandler, TypeOK, Unseen, Gone
  <1>3. Delivered' = [Delivered EXCEPT ![c] = Append(@, batch[c])]
    BY DeliveredGrows
  <1> QED
    BY <1>1, <1>2, <1>3 DEF Mailbox!Deliver, CallHandler, Unseen, Gone, Delivered

LEMMA MapsExitCollecting ==
    ASSUME TypeOK, LocalsMatchBatch, OnePlace, NEW c \in Channel, ExitCollecting(c)
    PROVE  Mailbox!Abandon(c)
  <1> USE DEF TypeOK
  <1>1. batch[c] # <<>>
    BY DEF ExitCollecting, LocalsMatchBatch
  <1>2. {batch[c][i] : i \in 1..Len(batch[c])}
          = {m \in Msg : fate[m] = "batched" /\ ChannelOf[m] = c}
    <2>1. batch[c] \in Seq(Msg)
      OBVIOUS
    <2>2. \A m \in Msg : (\E i \in 1..Len(batch[c]) : batch[c][i] = m)
                          <=> fate[m] = "batched" /\ ChannelOf[m] = c
      BY DEF OnePlace, Holds
    <2>3. \A i \in 1..Len(batch[c]) : batch[c][i] \in Msg
      BY <2>1
    <2> HIDE DEF TypeOK
    <2> QED
      BY <2>2, <2>3
  <1>3. Unseen' = Unseen
    BY DEF ExitCollecting, Unseen
  <1>4. Gone' = Gone \cup {m \in Msg : fate[m] = "batched" /\ ChannelOf[m] = c}
    BY DEF ExitCollecting, Gone
  <1>5. Delivered' = Delivered
    BY DEF ExitCollecting, Delivered
  <1> QED
    BY <1>1, <1>2, <1>3, <1>4, <1>5
       DEF Mailbox!Abandon, ExitCollecting, Unseen, Gone, Delivered

\* The dispatcher implements the mailbox, for every queue size and every set of
\* messages and channels: whatever the calls of Enqueue and the workers
\* interleave to, a channel's messages are taken in the order they entered, each
\* once, in batches delivered whole, or are lost for a reason the mailbox allows.
THEOREM DispatcherImplementsMailbox == Spec => ImplementsMailbox
  <1>1. TypeOK /\ LocalsMatchBatch /\ OnePlace /\ [Next]_vars
          => [Mailbox!Next]_(Mailbox!mailboxVars)
    <2> SUFFICES ASSUME TypeOK, LocalsMatchBatch, OnePlace, [Next]_vars
                 PROVE  Mailbox!Next \/ UNCHANGED Mailbox!mailboxVars
      OBVIOUS
    <2> USE ConstantsAssumption
    <2>1. ASSUME UNCHANGED <<fate, queue, batch, calls, ctxDone>>
          PROVE  UNCHANGED Mailbox!mailboxVars
      BY <2>1 DEF Mailbox!mailboxVars
    <2>2. ASSUME NEW m \in Msg, Enqueue(m)
          PROVE  Mailbox!Next \/ UNCHANGED Mailbox!mailboxVars
      <3>1. CASE Send(m)
        BY <3>1, MapsPut DEF Send, Mailbox!Next
      <3>2. CASE Resend(m)
        BY <3>2, MapsPut DEF Resend, Mailbox!Next
      <3>3. CASE DrainOldest(m)
        BY <3>3, MapsDrain DEF Mailbox!Next
      <3>4. CASE RefuseAtShutdown(m)
        BY <3>4, MapsTurnAway DEF RefuseAtShutdown, Mailbox!Next
      <3>5. CASE GiveUp(m)
        BY <3>5, MapsTurnAway DEF GiveUp, Mailbox!Next
      <3> QED
        BY <2>1, <2>2, <3>1, <3>2, <3>3, <3>4, <3>5
           DEF Enqueue, GetOrCreateWorker, PassShutdownCheck, FindFull,
               FindNothingToDrain, historyVars
    <2>3. ASSUME NEW c \in Channel, RunWorker(c)
          PROVE  Mailbox!Next \/ UNCHANGED Mailbox!mailboxVars
      <3>1. CASE TakeFirst(c)
        BY <3>1, MapsReceive DEF TakeFirst, Mailbox!Next
      <3>2. CASE TakeNext(c)
        BY <3>2, MapsReceive DEF TakeNext, Mailbox!Next
      <3>3. CASE CallHandler(c)
        BY <3>3, MapsCallHandler DEF Mailbox!Next
      <3>4. CASE ExitCollecting(c)
        BY <3>4, MapsExitCollecting DEF Mailbox!Next
      <3> QED
        BY <2>1, <2>3, <3>1, <3>2, <3>3, <3>4
           DEF RunWorker, HandlerReturns, ExitIdle, historyVars
    <2>4. CASE Cancel
      BY <2>4 DEF Cancel, Mailbox!Next, Mailbox!Close, historyVars
    <2>5. CASE Finished \/ UNCHANGED vars
      BY <2>1, <2>5 DEF Finished, vars
    <2> QED
      BY <2>2, <2>3, <2>4, <2>5 DEF Next
  <1> QED
    BY MapsInit, <1>1, TypesAndLocals, MessagesInOnePlace, PTL
       DEF Spec, ImplementsMailbox, Mailbox!Spec

-----------------------------------------------------------------------------
(* Induction, for FlattenSeq.  That < is well founded on Nat is used with a  *)
(* set in the place of a predicate.                                          *)

\* A set of numbers that is not empty has a least member.
LEMMA LeastMember ==
    ASSUME NEW T \in SUBSET Nat, T # {}
    PROVE  \E n \in T : \A m \in T : n <= m
  <1>1. IsWellFoundedOn(OpToRel(<, Nat), Nat)
    BY NatLessThanWellFounded
  <1>2. PICK n \in T : \A m \in T : ~(<<m, n>> \in OpToRel(<, Nat))
    BY <1>1, WFMin
  <1>3. \A m \in T : ~(m < n)
    BY <1>2 DEF OpToRel
  <1> QED
    BY <1>3

\* A set that has 0, and a number's successor with it up to n, has all these.
LEMMA UpToInduction ==
    ASSUME NEW n \in Nat, NEW S, 0 \in S,
           \A i \in 0..n : i < n /\ i \in S => i + 1 \in S
    PROVE  \A i \in 0..n : i \in S
  <1> DEFINE T == {i \in Nat : i \in 0..n /\ i \notin S}
  <1> SUFFICES ASSUME T # {} PROVE FALSE
    OBVIOUS
  <1>1. T \in SUBSET Nat
    OBVIOUS
  <1> HIDE DEF T
  <1>2. PICK i \in T : \A j \in T : i <= j
    BY <1>1, LeastMember
  <1>3. i \in Nat /\ i \in 0..n /\ i \notin S
    BY <1>2 DEF T
  <1>4. i - 1 \in 0..n /\ i - 1 < n
    BY <1>3
  <1>5. i - 1 \notin T
    BY <1>2, <1>3
  <1>6. i - 1 \in S
    BY <1>4, <1>5 DEF T
  <1>7. i - 1 + 1 \in S
    BY <1>4, <1>6
  <1> QED
    BY <1>3, <1>7

\* K begins with a and goes on as step says.
Steps(K, n, a, step) == K[0] = a /\ \A i \in 1..n : K[i] = step[i][K[i - 1]]

\* There is such a function for every step.
LEMMA StepsDefine ==
    ASSUME NEW n \in Nat, NEW V, NEW a \in V, NEW step \in [1..n -> [V -> V]]
    PROVE  \E K \in [0..n -> V] : Steps(K, n, a, step)
  <1> DEFINE Has(m) == \E K \in [0..m -> V] : Steps(K, m, a, step)
  <1>1. Has(0)
    <2> DEFINE K == [i \in 0..0 |-> a]
    <2>1. K \in [0..0 -> V] /\ Steps(K, 0, a, step)
      BY DEF Steps
    <2> QED
      BY <2>1
  <1>2. ASSUME NEW m \in 0..n, m < n, Has(m)
        PROVE  Has(m + 1)
    <2>1. PICK K \in [0..m -> V] : Steps(K, m, a, step)
      BY <1>2
    <2> DEFINE L == [i \in 0..(m + 1) |-> IF i = m + 1 THEN step[m + 1][K[m]] ELSE K[i]]
    <2>2. m \in Nat /\ m \in 0..m /\ m + 1 \in 1..n
      BY <1>2
    <2>3. step[m + 1][K[m]] \in V
      BY <2>2
    <2>4. L \in [0..(m + 1) -> V] /\ L[0] = a
      BY <2>1, <2>2, <2>3 DEF Steps
    <2>5. \A i \in 1..(m + 1) : L[i] = step[i][L[i - 1]]
      <3> SUFFICES ASSUME NEW i \in 1..(m + 1) PROVE L[i] = step[i][L[i - 1]]
        OBVIOUS
      <3>1. L[i - 1] = K[i - 1]
        BY <2>2
      <3>2. CASE i = m + 1
        BY <2>2, <3>1, <3>2
      <3>3. CASE i # m + 1
        <4>1. i \in 1..m /\ L[i] = K[i]
          BY <2>2, <3>3
        <4> QED
          BY <2>1, <3>1, <4>1 DEF Steps
      <3> QED
        BY <3>2, <3>3
    <2> HIDE DEF L
    <2> QED
      BY <2>4, <2>5 DEF Steps
  <1> HIDE DEF Has
  <1> DEFINE S == {m \in 0..n : Has(m)}
  <1>3. 0 \in S
    BY <1>1
  <1>4. \A i \in 0..n : i < n /\ i \in S => i + 1 \in S
    BY <1>2
  <1> HIDE DEF S
  <1>5. \A i \in 0..n : i \in S
    BY <1>3, <1>4, UpToInduction
  <1>6. Has(n)
    BY <1>5 DEF S
  <1> QED
    BY <1>6 DEF Has

-----------------------------------------------------------------------------
(* FlattenSeq *)

\* What the first parts of ss come to.
Flattens(K, ss) == K[0] = <<>> /\ \A i \in 1..Len(ss) : K[i] = K[i - 1] \o ss[i]

\* The function inside FlattenSeq is the one its equation describes.
LEMMA FlattenSteps ==
    ASSUME NEW T, NEW ss \in Seq(Seq(T))
    PROVE  \E K \in [0..Len(ss) -> Seq(T)] : Flattens(K, ss) /\ FlattenSeq(ss) = K[Len(ss)]
  <1> DEFINE n == Len(ss)
             step == [i \in 1..n |-> [z \in Seq(T) |-> z \o ss[i]]]
             Eq(F) == F = [i \in 1..n |-> IF i = 1 THEN ss[i] ELSE F[i - 1] \o ss[i]]
  <1>1. n \in Nat /\ (\A i \in 1..n : ss[i] \in Seq(T)) /\ <<>> \in Seq(T)
    OBVIOUS
  <1>2. step \in [1..n -> [Seq(T) -> Seq(T)]]
    BY <1>1, ConcatProperties
  <1>3. \A i \in 1..n, z \in Seq(T) : step[i][z] = z \o ss[i]
    OBVIOUS
  <1> HIDE DEF n, step
  <1>4. PICK K \in [0..n -> Seq(T)] : Steps(K, n, <<>>, step)
    BY <1>1, <1>2, StepsDefine
  <1>5. \A i \in 1..n : i - 1 \in 0..n /\ K[i - 1] \in Seq(T)
    BY <1>1
  <1>6. \A i \in 1..n : K[i] = K[i - 1] \o ss[i]
    BY <1>3, <1>4, <1>5 DEF Steps
  <1>7. K[0] = <<>>
    BY <1>4 DEF Steps
  <1>8. CASE n = 0
    <2>1. FlattenSeq(ss) = <<>>
      BY <1>8 DEF FlattenSeq, n
    <2> QED
      BY <1>6, <1>7, <1>8, <2>1 DEF n, Flattens
  <1>9. CASE n # 0
    <2> DEFINE F == [i \in 1..n |-> K[i]]
    <2>1. Eq(F)
      <3>1. ASSUME NEW i \in 1..n
            PROVE  K[i] = IF i = 1 THEN ss[i] ELSE F[i - 1] \o ss[i]
        <4>1. CASE i = 1
          <5>1. 1 \in 1..n /\ 1 - 1 = 0
            BY <4>1
          <5>2. ss[1] \in Seq(T) /\ K[1] = <<>> \o ss[1]
            BY <1>1, <1>6, <1>7, <5>1
          <5> QED
            BY <4>1, <5>2, ConcatEmptySeq
        <4>2. CASE i # 1
          <5>1. i - 1 \in 1..n
            BY <1>1, <4>2
          <5> QED
            BY <1>6, <4>2, <5>1
        <4> QED
          BY <4>1, <4>2
      <3> QED
        BY <3>1
    <2> DEFINE C == CHOOSE X : Eq(X)
    <2>2. Eq(C)
      <3> HIDE DEF F
      <3> QED
        BY <2>1
    <2>3. FlattenSeq(ss) = C[n]
      BY <1>9 DEF FlattenSeq, n
    <2> HIDE DEF C, F
    <2> DEFINE S == {i \in 0..n : i = 0 \/ C[i] = K[i]}
    <2>4. 0 \in S
      BY <1>1
    <2>5. ASSUME NEW i \in 0..n, i < n, i = 0 \/ C[i] = K[i]
          PROVE  C[i + 1] = K[i + 1]
      <3>1. i + 1 \in 1..n /\ (i + 1) - 1 = i
        BY <1>1, <2>5
      <3>2. C[i + 1] = IF i + 1 = 1 THEN ss[i + 1] ELSE C[i] \o ss[i + 1]
        BY <2>2, <3>1
      <3>3. K[i + 1] = K[i] \o ss[i + 1]
        BY <1>6, <3>1
      <3>4. CASE i = 0
        <4>1. ss[1] \in Seq(T)
          BY <1>1, <3>1, <3>4
        <4>2. <<>> \o ss[1] = ss[1]
          BY <4>1, ConcatEmptySeq
        <4>3. i + 1 = 1
          BY <3>4
        <4>4. C[1] = ss[1]
          BY <3>2, <4>3
        <4>5. K[1] = <<>> \o ss[1]
          BY <1>7, <3>3, <3>4, <4>3
        <4> QED
          BY <4>2, <4>3, <4>4, <4>5
      <3>5. CASE i # 0
        <4>1. i + 1 # 1 /\ C[i] = K[i]
          BY <1>1, <2>5, <3>5
        <4> QED
          BY <3>2, <3>3, <4>1
      <3> QED
        BY <3>4, <3>5
    <2>6. \A i \in 0..n : i < n /\ i \in S => i + 1 \in S
      BY <1>1, <2>5
    <2>7. n \in S
      <3> HIDE DEF S
      <3>1. n \in 0..n
        BY <1>1
      <3> QED
        BY <1>1, <2>4, <2>6, <3>1, UpToInduction
    <2>8. C[n] = K[n]
      BY <1>9, <2>7
    <2> QED
      BY <1>6, <1>7, <2>3, <2>8 DEF n, Flattens
  <1> QED
    BY <1>8, <1>9

LEMMA FlattenType ==
    ASSUME NEW T, NEW ss \in Seq(Seq(T))
    PROVE  FlattenSeq(ss) \in Seq(T)
  <1>1. PICK K \in [0..Len(ss) -> Seq(T)] : Flattens(K, ss) /\ FlattenSeq(ss) = K[Len(ss)]
    BY FlattenSteps
  <1>2. Len(ss) \in 0..Len(ss)
    OBVIOUS
  <1> QED
    BY <1>1, <1>2

\* A further part comes behind the others.
LEMMA FlattenAppend ==
    ASSUME NEW T, NEW ss \in Seq(Seq(T)), NEW b \in Seq(T)
    PROVE  FlattenSeq(Append(ss, b)) = FlattenSeq(ss) \o b
  <1> DEFINE tt == Append(ss, b)
             n == Len(ss)
  <1>1. /\ tt \in Seq(Seq(T)) /\ Len(tt) = n + 1 /\ n \in Nat
        /\ \A i \in 1..n : tt[i] = ss[i]
        /\ tt[n + 1] = b
    BY AppendFacts
  <1>2. PICK K \in [0..n -> Seq(T)] : Flattens(K, ss) /\ FlattenSeq(ss) = K[n]
    BY FlattenSteps
  <1> HIDE DEF tt
  <1>3. PICK L \in [0..(n + 1) -> Seq(T)] : Flattens(L, tt) /\ FlattenSeq(tt) = L[n + 1]
    <2>1. \E L \in [0..Len(tt) -> Seq(T)] : Flattens(L, tt) /\ FlattenSeq(tt) = L[Len(tt)]
      BY <1>1, FlattenSteps
    <2> QED
      BY <1>1, <2>1
  <1> HIDE DEF n
  <1> DEFINE S == {i \in 0..n : L[i] = K[i]}
  <1>4. 0 \in S
    BY <1>1, <1>2, <1>3 DEF Flattens
  <1>5. ASSUME NEW i \in 0..n, i < n, L[i] = K[i]
        PROVE  L[i + 1] = K[i + 1]
    <2>1. i + 1 \in 1..n /\ i + 1 \in 1..(n + 1) /\ (i + 1) - 1 = i
      BY <1>1, <1>5
    <2>2. K[i + 1] = K[i] \o ss[i + 1]
      BY <1>2, <2>1 DEF Flattens, n
    <2>3. L[i + 1] = L[i] \o tt[i + 1]
      BY <1>1, <1>3, <2>1 DEF Flattens
    <2> QED
      BY <1>1, <1>5, <2>1, <2>2, <2>3
  <1>6. \A i \in 0..n : i < n /\ i \in S => i + 1 \in S
    BY <1>1, <1>5
  <1>7. L[n] = K[n]
    <2> HIDE DEF S
    <2>1. \A i \in 0..n : i \in S
      BY <1>1, <1>4, <1>6, UpToInduction
    <2>2. n \in 0..n
      BY <1>1
    <2> QED
      BY <2>1, <2>2 DEF S
  <1>8. L[n + 1] = L[n] \o b
    <2>1. n + 1 \in 1..(n + 1) /\ (n + 1) - 1 = n
      BY <1>1
    <2> QED
      BY <1>1, <1>3, <2>1 DEF Flattens
  <1> QED
    BY <1>2, <1>3, <1>7, <1>8 DEF tt

-----------------------------------------------------------------------------
(* The order *)

LEMMA ConcatPlaces ==
    ASSUME NEW T, NEW u \in Seq(T), NEW v \in Seq(T)
    PROVE  /\ u \o v \in Seq(T)
           /\ Len(u \o v) = Len(u) + Len(v)
           /\ \A i \in 1..Len(u) : (u \o v)[i] = u[i]
           /\ \A i \in 1..Len(v) : (u \o v)[Len(u) + i] = v[i]
           /\ \A x : Holds(u \o v, x) <=> Holds(u, x) \/ Holds(v, x)
  <1> DEFINE w == u \o v
  <1>1. /\ w \in Seq(T)
        /\ Len(w) = Len(u) + Len(v)
        /\ Len(u) \in Nat /\ Len(v) \in Nat
        /\ \A i \in 1..Len(u) + Len(v) : w[i] = IF i <= Len(u) THEN u[i] ELSE v[i - Len(u)]
    BY ConcatProperties
  <1> HIDE DEF w
  <1>2. \A i \in 1..Len(u) : i \in 1..Len(w) /\ w[i] = u[i]
    BY <1>1
  <1>3. ASSUME NEW i \in 1..Len(v)
        PROVE  Len(u) + i \in 1..Len(w) /\ w[Len(u) + i] = v[i]
    <2>1. /\ Len(u) + i \in 1..Len(u) + Len(v)
          /\ ~(Len(u) + i <= Len(u))
          /\ (Len(u) + i) - Len(u) = i
      BY <1>1
    <2> QED
      BY <1>1, <2>1
  <1>4. ASSUME NEW i \in 1..Len(w), ~(i <= Len(u))
        PROVE  i - Len(u) \in 1..Len(v) /\ w[i] = v[i - Len(u)]
    BY <1>1, <1>4
  <1>5. ASSUME NEW x PROVE Holds(w, x) <=> Holds(u, x) \/ Holds(v, x)
    <2>1. Holds(u, x) => Holds(w, x)
      BY <1>2 DEF Holds
    <2>2. Holds(v, x) => Holds(w, x)
      BY <1>3 DEF Holds
    <2>3. ASSUME Holds(w, x) PROVE Holds(u, x) \/ Holds(v, x)
      <3>1. PICK i \in 1..Len(w) : w[i] = x
        BY <2>3 DEF Holds
      <3>2. CASE i <= Len(u)
        <4>1. i \in 1..Len(u)
          BY <1>1, <3>2
        <4> QED
          BY <1>2, <3>1, <4>1 DEF Holds
      <3>3. CASE ~(i <= Len(u))
        BY <1>4, <3>1, <3>3 DEF Holds
      <3> QED
        BY <3>2, <3>3
    <2> QED
      BY <2>1, <2>2, <2>3
  <1> QED
    BY <1>1, <1>2, <1>3, <1>5 DEF w

\* A part taken out of a line leaves the others in their order, and takes along
\* what it holds, for a line in the order of s has everything once.
LEMMA PartGoes ==
    ASSUME NEW T, NEW s \in Seq(T), NEW u \in Seq(T), NEW v \in Seq(T), NEW w \in Seq(T),
           InOrderOf(s, u \o v \o w),
           \A x \in T : Holds(u \o v \o w, x) => Holds(s, x)
    PROVE  /\ InOrderOf(s, u \o w)
           /\ \A x \in T : Holds(u \o w, x) <=> Holds(u \o v \o w, x) /\ ~Holds(v, x)
  <1> DEFINE uv == u \o v
             all == uv \o w
             rest == u \o w
             f[i \in 1..Len(rest)] == IF i <= Len(u) THEN i ELSE i + Len(v)
  <1>1. Len(u) \in Nat /\ Len(v) \in Nat /\ Len(w) \in Nat
    OBVIOUS
  <1>2. /\ uv \in Seq(T) /\ Len(uv) = Len(u) + Len(v)
        /\ \A i \in 1..Len(u) : uv[i] = u[i]
        /\ \A i \in 1..Len(v) : uv[Len(u) + i] = v[i]
        /\ \A x : Holds(uv, x) <=> Holds(u, x) \/ Holds(v, x)
    BY ConcatPlaces
  <1>3. /\ rest \in Seq(T) /\ Len(rest) = Len(u) + Len(w)
        /\ \A i \in 1..Len(u) : rest[i] = u[i]
        /\ \A i \in 1..Len(w) : rest[Len(u) + i] = w[i]
        /\ \A x : Holds(rest, x) <=> Holds(u, x) \/ Holds(w, x)
    BY ConcatPlaces
  <1> HIDE DEF uv, rest
  <1>4. /\ all \in Seq(T) /\ Len(all) = Len(uv) + Len(w)
        /\ \A i \in 1..Len(uv) : all[i] = uv[i]
        /\ \A i \in 1..Len(w) : all[Len(uv) + i] = w[i]
        /\ \A x : Holds(all, x) <=> Holds(uv, x) \/ Holds(w, x)
    <2>1. uv \in Seq(T)
      BY <1>2
    <2> QED
      BY <2>1, ConcatPlaces
  <1>5. InOrderOf(s, all) /\ \A x \in T : Holds(all, x) => Holds(s, x)
    BY DEF uv
  <1> HIDE DEF all
  <1>6. ASSUME NEW i \in 1..Len(u)
        PROVE  i \in 1..Len(all) /\ all[i] = u[i]
    <2>1. i \in 1..Len(uv) /\ i \in 1..Len(all)
      BY <1>1, <1>2, <1>4
    <2> QED
      BY <1>2, <1>4, <2>1
  <1>7. ASSUME NEW i \in 1..Len(v)
        PROVE  Len(u) + i \in 1..Len(all) /\ all[Len(u) + i] = v[i]
    <2>1. Len(u) + i \in 1..Len(uv) /\ Len(u) + i \in 1..Len(all)
      BY <1>1, <1>2, <1>4
    <2> QED
      BY <1>2, <1>4, <2>1
  <1>8. ASSUME NEW i \in 1..Len(w)
        PROVE  Len(u) + Len(v) + i \in 1..Len(all) /\ all[Len(u) + Len(v) + i] = w[i]
    <2>1. Len(u) + Len(v) + i \in 1..Len(all)
      BY <1>1, <1>2, <1>4
    <2> QED
      BY <1>2, <1>4, <2>1
  <1>9. ASSUME NEW i \in 1..Len(rest), ~(i <= Len(u))
        PROVE  i - Len(u) \in 1..Len(w) /\ rest[i] = w[i - Len(u)]
    <2>1. i - Len(u) \in 1..Len(w) /\ Len(u) + (i - Len(u)) = i
      BY <1>1, <1>3, <1>9
    <2> QED
      BY <1>3, <2>1
  <1>10. ASSUME NEW i \in 1..Len(rest)
         PROVE  f[i] \in 1..Len(all) /\ all[f[i]] = rest[i]
    <2>1. CASE i <= Len(u)
      <3>1. i \in 1..Len(u) /\ f[i] = i
        BY <1>1, <2>1
      <3> QED
        BY <1>3, <1>6, <3>1
    <2>2. CASE ~(i <= Len(u))
      <3>1. f[i] = Len(u) + Len(v) + (i - Len(u))
        BY <1>1, <2>2
      <3> QED
        BY <1>8, <1>9, <2>2, <3>1
    <2> QED
      BY <2>1, <2>2
  <1>11. \A i, j \in 1..Len(rest) : i < j <=> f[i] < f[j]
    BY <1>1
  <1> HIDE DEF f
  <1>12. InOrderOf(s, rest)
    <2> SUFFICES ASSUME NEW x \in 1..Len(rest), NEW y \in 1..Len(rest),
                        NEW i \in 1..Len(s), NEW j \in 1..Len(s),
                        s[i] = rest[x], s[j] = rest[y]
                 PROVE  i < j <=> x < y
      BY DEF InOrderOf
    <2>1. s[i] = all[f[x]] /\ s[j] = all[f[y]] /\ f[x] \in 1..Len(all) /\ f[y] \in 1..Len(all)
      BY <1>10
    <2>2. i < j <=> f[x] < f[y]
      BY <1>5, <2>1 DEF InOrderOf
    <2> QED
      BY <1>11, <2>2
  <1>13. ASSUME NEW p \in 1..Len(all), NEW q \in 1..Len(all), all[p] = all[q]
         PROVE  p = q
    <2>1. all[p] \in T
      BY <1>4
    <2>2. Holds(s, all[p])
      BY <1>5, <2>1 DEF Holds
    <2>3. PICK i \in 1..Len(s) : s[i] = all[p]
      BY <2>2 DEF Holds
    <2>4. (i < i <=> p < q) /\ (i < i <=> q < p)
      BY <1>5, <1>13, <2>3 DEF InOrderOf
    <2> QED
      BY <2>4
  <1>14. ASSUME NEW x \in T, Holds(rest, x), Holds(v, x)
         PROVE  FALSE
    <2>1. PICK k \in 1..Len(v) : v[k] = x
      BY <1>14 DEF Holds
    <2>2. PICK i \in 1..Len(rest) : rest[i] = x
      BY <1>14 DEF Holds
    <2>3. f[i] \in 1..Len(all) /\ all[f[i]] = x
      BY <1>10, <2>2
    <2>4. Len(u) + k \in 1..Len(all) /\ all[Len(u) + k] = x
      BY <1>7, <2>1
    <2>5. f[i] = Len(u) + k
      BY <1>13, <2>3, <2>4
    <2> QED
      BY <1>1, <2>5 DEF f
  <1> QED
    BY <1>2, <1>3, <1>4, <1>12, <1>14 DEF uv, all, rest

\* A message new to both comes last in both.
LEMMA LastOfBoth ==
    ASSUME NEW T, NEW s \in Seq(T), NEW line \in Seq(T), NEW e \in T,
           InOrderOf(s, line), ~Holds(s, e), ~Holds(line, e)
    PROVE  InOrderOf(Append(s, e), Append(line, e))
  <1> DEFINE t == Append(s, e)
             more == Append(line, e)
  <1>1. Len(s) \in Nat /\ Len(line) \in Nat
    OBVIOUS
  <1>2. /\ Len(t) = Len(s) + 1 /\ t[Len(s) + 1] = e
        /\ \A i \in 1..Len(s) : t[i] = s[i]
    BY AppendFacts
  <1>3. /\ Len(more) = Len(line) + 1 /\ more[Len(line) + 1] = e
        /\ \A i \in 1..Len(line) : more[i] = line[i]
    BY AppendFacts
  <1> HIDE DEF t, more
  <1>4. ASSUME NEW i \in 1..Len(t), NEW x \in 1..Len(more), t[i] = more[x]
        PROVE  \/ i = Len(s) + 1 /\ x = Len(line) + 1
               \/ i \in 1..Len(s) /\ x \in 1..Len(line) /\ s[i] = line[x]
    <2>1. i = Len(s) + 1 \/ i \in 1..Len(s)
      BY <1>1, <1>2
    <2>2. x = Len(line) + 1 \/ x \in 1..Len(line)
      BY <1>1, <1>3
    <2>3. i \in 1..Len(s) => t[i] = s[i] /\ s[i] # e
      BY <1>2 DEF Holds
    <2>4. x \in 1..Len(line) => more[x] = line[x] /\ line[x] # e
      BY <1>3 DEF Holds
    <2> QED
      BY <1>2, <1>3, <1>4, <2>1, <2>2, <2>3, <2>4
  <1>5. ASSUME NEW x \in 1..Len(more), NEW y \in 1..Len(more),
               NEW i \in 1..Len(t), NEW j \in 1..Len(t), t[i] = more[x], t[j] = more[y]
        PROVE  i < j <=> x < y
    <2>1. \/ i = Len(s) + 1 /\ x = Len(line) + 1
          \/ i \in 1..Len(s) /\ x \in 1..Len(line) /\ s[i] = line[x]
      BY <1>4, <1>5
    <2>2. \/ j = Len(s) + 1 /\ y = Len(line) + 1
          \/ j \in 1..Len(s) /\ y \in 1..Len(line) /\ s[j] = line[y]
      BY <1>4, <1>5
    <2> QED
      BY <1>1, <2>1, <2>2 DEF InOrderOf
  <1> QED
    BY <1>5 DEF InOrderOf, t, more

LEMMA ConcatAppend ==
    ASSUME NEW T, NEW u \in Seq(T), NEW v \in Seq(T), NEW e \in T
    PROVE  u \o Append(v, e) = Append(u \o v, e)
  <1>1. <<e>> \in Seq(T) /\ u \o v \in Seq(T)
    BY ConcatProperties
  <1>2. Append(v, e) = v \o <<e>> /\ Append(u \o v, e) = (u \o v) \o <<e>>
    BY <1>1, AppendIsConcat
  <1>3. (u \o v) \o <<e>> = u \o (v \o <<e>>)
    BY <1>1, ConcatAssociative
  <1> QED
    BY <1>2, <1>3

LEMMA HeadThenTail ==
    ASSUME NEW T, NEW s \in Seq(T), s # <<>>
    PROVE  Tail(s) \in Seq(T) /\ <<Head(s)>> \in Seq(T) /\ s = <<Head(s)>> \o Tail(s)
  <1>1. /\ Head(s) \in T /\ Head(s) = s[1] /\ Tail(s) \in Seq(T)
        /\ Len(s) \in Nat \ {0} /\ Len(Tail(s)) = Len(s) - 1
        /\ \A i \in 1..Len(Tail(s)) : Tail(s)[i] = s[i + 1]
    BY TailFacts
  <1> DEFINE h == <<Head(s)>>
             t == h \o Tail(s)
  <1>2. h \in Seq(T) /\ Len(h) = 1 /\ h[1] = s[1]
    BY <1>1
  <1> HIDE DEF h
  <1>3. /\ t \in Seq(T) /\ Len(t) = 1 + Len(Tail(s))
        /\ \A i \in 1..1 + Len(Tail(s)) : t[i] = IF i <= 1 THEN h[i] ELSE Tail(s)[i - 1]
    BY <1>1, <1>2, ConcatProperties
  <1>4. ASSUME NEW i \in 1..Len(s) PROVE t[i] = s[i]
    <2>1. i \in 1..1 + Len(Tail(s))
      BY <1>1
    <2>2. CASE i = 1
      BY <1>2, <1>3, <2>1, <2>2
    <2>3. CASE i # 1
      <3>1. i - 1 \in 1..Len(Tail(s)) /\ (i - 1) + 1 = i /\ ~(i <= 1)
        BY <1>1, <2>3
      <3> QED
        BY <1>1, <1>3, <2>1, <3>1
    <2> QED
      BY <2>2, <2>3
  <1>5. Len(t) = Len(s)
    BY <1>1, <1>3
  <1> HIDE DEF t
  <1>6. t = s
    BY <1>3, <1>4, <1>5, SeqEqual
  <1> QED
    BY <1>1, <1>2, <1>6 DEF t, h

\* The order of one channel, and that what it was sent is its own and known.
InOrder(c) ==
    /\ \A m \in Msg : Holds(sent[c], m) => fate[m] # "outside" /\ ChannelOf[m] = c
    /\ \A m \in Msg : Holds(Line(c), m) <=>
                        Holds(sent[c], m) /\ fate[m] \notin {"evicted", "abandoned"}
    /\ InOrderOf(sent[c], Line(c))

LEMMA LineParts ==
    ASSUME TypeOK, NEW c \in Channel
    PROVE  /\ Line(c) = FlattenSeq(Delivered[c]) \o batch[c] \o queue[c]
           /\ FlattenSeq(Delivered[c]) \in Seq(Msg)
           /\ Line(c) \in Seq(Msg)
           /\ sent[c] \in Seq(Msg) /\ batch[c] \in Seq(Msg) /\ queue[c] \in Seq(Msg)
  <1>1. Line(c) = FlattenSeq(Delivered[c]) \o batch[c] \o queue[c]
    BY DEF Line, Delivered
  <1>2. FlattenSeq(Delivered[c]) \in Seq(Msg)
    BY DeliveredTyped, FlattenType
  <1>3. sent[c] \in Seq(Msg) /\ batch[c] \in Seq(Msg) /\ queue[c] \in Seq(Msg)
    BY DEF TypeOK
  <1>4. FlattenSeq(Delivered[c]) \o batch[c] \in Seq(Msg)
    BY <1>2, <1>3, ConcatProperties
  <1>5. (FlattenSeq(Delivered[c]) \o batch[c]) \o queue[c] \in Seq(Msg)
    BY <1>3, <1>4, ConcatProperties
  <1> QED
    BY <1>1, <1>2, <1>3, <1>5

\* A channel whose line stays, and whose messages are lost or not as before.
LEMMA OrderStays ==
    ASSUME TypeOK, NEW c \in Channel, InOrder(c),
           Line(c)' = Line(c), sent'[c] = sent[c],
           \A m \in Msg : ChannelOf[m] = c /\ fate[m] # "outside" =>
               /\ fate'[m] # "outside"
               /\ fate'[m] \in {"evicted", "abandoned"} <=> fate[m] \in {"evicted", "abandoned"}
    PROVE  InOrder(c)'
  BY DEF InOrder

\* A send puts its message last.
LEMMA PutOrder ==
    ASSUME TypeOK, TypeOK', OnePlace, NEW m \in Msg, at[m] # "returned", Put(m),
           UNCHANGED <<batch, calls>>, \A d \in Channel : InOrder(d),
           NEW d \in Channel
    PROVE  InOrder(d)'
  <1> USE ConstantsAssumption
  <1>0. PICK c \in Channel : c = ChannelOf[m]
    OBVIOUS
  <1>1. fate[m] = "outside" /\ c \in Channel
    BY DEF OnePlace
  <1>2. /\ \A x \in Msg : fate'[x] = IF x = m THEN "queued" ELSE fate[x]
        /\ queue' = [queue EXCEPT ![c] = Append(@, m)]
        /\ sent' = [sent EXCEPT ![c] = Append(@, m)]
        /\ queue \in [Channel -> Seq(Msg)] /\ sent \in [Channel -> Seq(Msg)]
    BY <1>0 DEF Put, TypeOK
  <1>3. Delivered' = Delivered
    BY DEF Delivered
  <1>4. CASE d # c
    <2>1. queue'[d] = queue[d] /\ sent'[d] = sent[d]
      BY <1>1, <1>2, <1>4
    <2>2. Line(d)' = Line(d)
      BY <2>1 DEF Line
    <2> QED
      BY <1>0, <1>1, <1>2, <1>4, <2>1, <2>2, OrderStays
  <1>5. CASE d = c
    <2> DEFINE u == FlattenSeq(Delivered[c]) \o batch[c]
    <2>1. u \in Seq(Msg) /\ Line(c) = u \o queue[c] /\ Line(c) \in Seq(Msg) /\ sent[c] \in Seq(Msg)
      BY <1>1, LineParts, ConcatProperties
    <2>2. queue'[c] = Append(queue[c], m) /\ sent'[c] = Append(sent[c], m)
      BY <1>1, <1>2
    <2>3. Line(c)' = u \o Append(queue[c], m)
      <3>1. Line(c)' = FlattenSeq(Delivered'[c]) \o batch'[c] \o queue'[c]
        BY DEF Line, Delivered
      <3> QED
        BY <1>3, <2>2, <3>1
    <2> HIDE DEF u
    <2>4. Line(c)' = Append(Line(c), m)
      BY <1>1, <1>2, <2>1, <2>3, ConcatAppend
    <2>5. ~Holds(sent[c], m) /\ ~Holds(Line(c), m)
      BY <1>1 DEF InOrder
    <2>6. InOrderOf(sent'[c], Line(c)')
      <3>1. InOrderOf(sent[c], Line(c))
        BY <1>1 DEF InOrder
      <3> QED
        <4> DEFINE s == sent[c]
                   line == Line(c)
        <4>1. s \in Seq(Msg) /\ line \in Seq(Msg)
          BY <2>1
        <4>2. ~Holds(s, m) /\ ~Holds(line, m) /\ InOrderOf(s, line)
          BY <2>5, <3>1
        <4>3. sent'[c] = Append(s, m) /\ Line(c)' = Append(line, m)
          BY <2>2, <2>4
        <4> HIDE DEF s, line
        <4>4. InOrderOf(Append(s, m), Append(line, m))
          BY <4>1, <4>2, LastOfBoth
        <4> QED
          BY <4>3, <4>4
    <2>7. \A x \in Msg : /\ Holds(sent'[c], x) <=> Holds(sent[c], x) \/ x = m
                         /\ Holds(Line(c)', x) <=> Holds(Line(c), x) \/ x = m
      <3>1. \A x \in Msg : Holds(Append(sent[c], m), x) <=> Holds(sent[c], x) \/ x = m
        BY <2>1, AppendPlaces
      <3>2. \A x \in Msg : Holds(Append(Line(c), m), x) <=> Holds(Line(c), x) \/ x = m
        BY <2>1, AppendPlaces
      <3> QED
        BY <2>2, <2>4, <3>1, <3>2
    <2>8. ASSUME NEW x \in Msg
          PROVE  /\ Holds(sent'[c], x) => fate'[x] # "outside" /\ ChannelOf[x] = c
                 /\ Holds(Line(c)', x) <=>
                      Holds(sent'[c], x) /\ fate'[x] \notin {"evicted", "abandoned"}
      <3>1. /\ Holds(sent[c], x) => fate[x] # "outside" /\ ChannelOf[x] = c
            /\ Holds(Line(c), x) <=> Holds(sent[c], x) /\ fate[x] \notin {"evicted", "abandoned"}
        BY <1>1 DEF InOrder
      <3>2. ChannelOf[m] = c
        BY <1>0
      <3> QED
        BY <1>2, <2>7, <3>1, <3>2
    <2> QED
      BY <1>5, <2>6, <2>8 DEF InOrder
  <1> QED
    BY <1>4, <1>5

\* A part of a channel's line goes and with it the fates of what it held.
LEMMA PartGoesOrder ==
    ASSUME TypeOK, NEW c \in Channel, InOrder(c), sent'[c] = sent[c],
           NEW u \in Seq(Msg), NEW v \in Seq(Msg), NEW w \in Seq(Msg),
           Line(c) = u \o v \o w, Line(c)' = u \o w,
           \A m \in Msg : IF Holds(v, m) THEN fate'[m] \in {"evicted", "abandoned"}
                                         ELSE fate'[m] = fate[m]
    PROVE  InOrder(c)'
  <1>1. sent[c] \in Seq(Msg)
    BY LineParts
  <1>2. InOrderOf(sent[c], u \o v \o w)
    BY DEF InOrder
  <1>3. \A x \in Msg : Holds(u \o v \o w, x) => Holds(sent[c], x)
    BY DEF InOrder
  <1>4. /\ InOrderOf(sent[c], u \o w)
        /\ \A x \in Msg : Holds(u \o w, x) <=> Holds(u \o v \o w, x) /\ ~Holds(v, x)
    BY <1>1, <1>2, <1>3, PartGoes
  <1>5. ASSUME NEW x \in Msg
        PROVE  /\ Holds(sent'[c], x) => fate'[x] # "outside" /\ ChannelOf[x] = c
               /\ Holds(Line(c)', x) <=>
                    Holds(sent'[c], x) /\ fate'[x] \notin {"evicted", "abandoned"}
    <2>1. /\ Holds(sent[c], x) => fate[x] # "outside" /\ ChannelOf[x] = c
          /\ Holds(Line(c), x) <=> Holds(sent[c], x) /\ fate[x] \notin {"evicted", "abandoned"}
      BY DEF InOrder
    <2>2. Holds(Line(c)', x) <=> Holds(Line(c), x) /\ ~Holds(v, x)
      BY <1>4
    <2>3. CASE Holds(v, x)
      BY <2>1, <2>2, <2>3
    <2>4. CASE ~Holds(v, x)
      BY <2>1, <2>2, <2>4
    <2> QED
      BY <2>3, <2>4
  <1> QED
    BY <1>4, <1>5 DEF InOrder

\* The oldest of the queue moves to the batch, and stays where it is in line.
LEMMA ReceiveOrder ==
    ASSUME TypeOK, OnePlace, NEW c \in Channel, Receive(c), UNCHANGED <<sent, calls>>,
           \A d \in Channel : InOrder(d), NEW d \in Channel
    PROVE  InOrder(d)'
  <1> DEFINE h == Head(queue[c])
  <1>1. /\ h \in Msg /\ fate[h] = "queued" /\ ChannelOf[h] = c
        /\ queue[c] # <<>>
    BY HeadPlaces DEF Receive
  <1>2. /\ \A x \in Msg : fate'[x] = IF x = h THEN "batched" ELSE fate[x]
        /\ queue' = [queue EXCEPT ![c] = Tail(@)]
        /\ batch' = [batch EXCEPT ![c] = Append(@, h)]
        /\ queue \in [Channel -> Seq(Msg)] /\ batch \in [Channel -> Seq(Msg)]
    BY DEF Receive, TypeOK
  <1>3. Delivered' = Delivered
    BY DEF Delivered
  <1>4. Line(d)' = FlattenSeq(Delivered[d]) \o batch'[d] \o queue'[d]
    BY <1>3 DEF Line, Delivered
  <1> HIDE DEF h
  <1>5. Line(d)' = Line(d)
    <2>1. CASE d # c
      BY <1>2, <1>4, <2>1 DEF Line, Delivered
    <2>2. CASE d = c
      <3> DEFINE u == FlattenSeq(Delivered[c])
      <3>1. u \in Seq(Msg) /\ batch[c] \in Seq(Msg) /\ queue[c] \in Seq(Msg)
        BY LineParts
      <3>2. Tail(queue[c]) \in Seq(Msg) /\ queue[c] = <<h>> \o Tail(queue[c]) /\ <<h>> \in Seq(Msg)
        BY <1>1, <3>1, HeadThenTail DEF h
      <3>3. batch'[c] = batch[c] \o <<h>> /\ queue'[c] = Tail(queue[c])
        BY <1>1, <1>2, <3>1, AppendIsConcat
      <3>4. Line(c)' = u \o (batch[c] \o <<h>>) \o Tail(queue[c])
        BY <1>4, <2>2, <3>3
      <3>5. Line(c) = u \o batch[c] \o (<<h>> \o Tail(queue[c]))
        BY <3>2, LineParts
      <3> HIDE DEF u
      <3> QED
        <4>1. u \o (batch[c] \o <<h>>) \o Tail(queue[c])
                = u \o batch[c] \o (<<h>> \o Tail(queue[c]))
          <5> DEFINE b == batch[c]
                     g == <<h>>
                     t == Tail(queue[c])
          <5>1. b \in Seq(Msg) /\ g \in Seq(Msg) /\ t \in Seq(Msg)
            BY <3>1, <3>2
          <5> HIDE DEF b, g, t
          <5>2. u \o (b \o g) = (u \o b) \o g
            BY <3>1, <5>1, ConcatAssociative
          <5>3. u \o b \in Seq(Msg)
            BY <3>1, <5>1, ConcatProperties
          <5>4. ((u \o b) \o g) \o t = (u \o b) \o (g \o t)
            BY <5>1, <5>3, ConcatAssociative
          <5> QED
            BY <5>2, <5>4 DEF b, g, t
        <4> QED
          BY <2>2, <3>4, <3>5, <4>1
    <2> QED
      BY <2>1, <2>2
  <1> QED
    BY <1>1, <1>2, <1>5, OrderStays

\* The oldest of the queue is evicted: it goes out of the line.
LEMMA DrainOrder ==
    ASSUME TypeOK, OnePlace, NEW m \in Msg, DrainOldest(m),
           \A d \in Channel : InOrder(d), NEW d \in Channel
    PROVE  InOrder(d)'
  <1> USE ConstantsAssumption
  <1> DEFINE c == ChannelOf[m]
             h == Head(queue[c])
  <1>1. /\ c \in Channel /\ queue[c] # <<>>
        /\ queue' = [queue EXCEPT ![c] = Tail(@)]
        /\ sent' = sent /\ batch' = batch /\ calls' = calls
        /\ fate' = [fate EXCEPT ![h] = "evicted"]
    BY DEF DrainOldest
  <1>2. h \in Msg /\ fate[h] = "queued" /\ ChannelOf[h] = c
    BY <1>1, HeadPlaces
  <1>3. \A x \in Msg : fate'[x] = IF x = h THEN "evicted" ELSE fate[x]
    BY <1>1, <1>2 DEF TypeOK
  <1>4. Line(d)' = FlattenSeq(Delivered[d]) \o batch[d] \o queue'[d]
    BY <1>1 DEF Line, Delivered
  <1>5. CASE d # c
    <2>1. queue'[d] = queue[d]
      BY <1>1, <1>5 DEF TypeOK
    <2>2. Line(d)' = Line(d)
      BY <1>4, <2>1 DEF Line, Delivered
    <2> HIDE DEF c, h
    <2> QED
      BY <1>1, <1>2, <1>3, <1>5, <2>2, OrderStays
  <1>6. CASE d = c
    <2> DEFINE u == FlattenSeq(Delivered[c]) \o batch[c]
               v == <<h>>
               w == Tail(queue[c])
    <2>1. u \in Seq(Msg) /\ queue[c] \in Seq(Msg) /\ Line(c) = u \o queue[c]
      BY <1>1, LineParts, ConcatProperties
    <2>2. w \in Seq(Msg) /\ v \in Seq(Msg) /\ queue[c] = v \o w
      BY <1>1, <2>1, HeadThenTail
    <2>3. Line(c)' = u \o w
      BY <1>1, <1>4, <1>6 DEF TypeOK
    <2>4. \A x \in Msg : Holds(v, x) <=> x = h
      BY DEF Holds
    <2> HIDE DEF u, v, w, h, c
    <2>5. Line(c) = u \o v \o w
      <3>1. (u \o v) \o w = u \o (v \o w)
        BY <2>1, <2>2, ConcatAssociative
      <3> QED
        BY <2>1, <2>2, <3>1
    <2>6. \A x \in Msg : IF Holds(v, x) THEN fate'[x] \in {"evicted", "abandoned"}
                                        ELSE fate'[x] = fate[x]
      BY <1>3, <2>4
    <2>7. InOrder(c)'
      BY <1>1, <2>1, <2>2, <2>3, <2>5, <2>6, PartGoesOrder
    <2> QED
      BY <1>6, <2>7
  <1> QED
    BY <1>5, <1>6

\* The batch is given up: it goes out of the line.
LEMMA ExitOrder ==
    ASSUME TypeOK, OnePlace, NEW c \in Channel, ExitCollecting(c),
           \A d \in Channel : InOrder(d), NEW d \in Channel
    PROVE  InOrder(d)'
  <1>1. /\ queue' = queue /\ sent' = sent /\ calls' = calls
        /\ batch' = [batch EXCEPT ![c] = <<>>]
        /\ \A x \in Msg : fate'[x] = IF fate[x] = "batched" /\ ChannelOf[x] = c
                                     THEN "abandoned" ELSE fate[x]
    BY DEF ExitCollecting
  <1>2. Line(d)' = FlattenSeq(Delivered[d]) \o batch'[d] \o queue[d]
    BY <1>1 DEF Line, Delivered
  <1>3. CASE d # c
    <2>1. batch'[d] = batch[d]
      BY <1>1, <1>3 DEF TypeOK
    <2>2. Line(d)' = Line(d)
      BY <1>2, <2>1 DEF Line, Delivered
    <2> QED
      BY <1>1, <1>3, <2>2, OrderStays
  <1>4. CASE d = c
    <2> DEFINE u == FlattenSeq(Delivered[c])
               v == batch[c]
               w == queue[c]
    <2>1. u \in Seq(Msg) /\ v \in Seq(Msg) /\ w \in Seq(Msg) /\ Line(c) = u \o v \o w
      BY LineParts
    <2>2. Line(c)' = u \o <<>> \o w
      BY <1>1, <1>2, <1>4 DEF TypeOK
    <2>3. \A x \in Msg : Holds(v, x) <=> fate[x] = "batched" /\ ChannelOf[x] = c
      BY DEF OnePlace
    <2> HIDE DEF u, v, w
    <2>4. Line(c)' = u \o w
      BY <2>1, <2>2, ConcatEmptySeq
    <2>5. \A x \in Msg : IF Holds(v, x) THEN fate'[x] \in {"evicted", "abandoned"}
                                        ELSE fate'[x] = fate[x]
      BY <1>1, <2>3
    <2>6. sent'[c] = sent[c]
      BY <1>1
    <2>7. InOrder(c)'
      BY <2>1, <2>4, <2>5, <2>6, PartGoesOrder
    <2> QED
      BY <1>4, <2>7
  <1> QED
    BY <1>3, <1>4

\* The batch is handed over, and stays where it is in line.
LEMMA CallOrder ==
    ASSUME TypeOK, LocalsMatchBatch, NEW c \in Channel, CallHandler(c),
           \A d \in Channel : InOrder(d), NEW d \in Channel
    PROVE  InOrder(d)'
  <1>1. /\ queue' = queue /\ sent' = sent
        /\ batch' = [batch EXCEPT ![c] = <<>>]
    BY DEF CallHandler
  <1>0. ASSUME NEW x \in Msg
        PROVE  \/ fate'[x] = fate[x]
               \/ fate[x] = "batched" /\ fate'[x] \in {"handled", "merged"}
    BY DEF CallHandler
  <1>2. /\ Delivered \in [Channel -> Seq(Seq(Msg))]
        /\ Delivered' = [Delivered EXCEPT ![c] = Append(@, batch[c])]
    BY DeliveredTyped, DeliveredGrows
  <1>3. Line(d)' = FlattenSeq(Delivered'[d]) \o batch'[d] \o queue[d]
    BY <1>1 DEF Line, Delivered
  <1>4. Line(d)' = Line(d)
    <2>1. CASE d # c
      <3>1. Delivered'[d] = Delivered[d] /\ batch'[d] = batch[d]
        BY <1>1, <1>2, <2>1 DEF TypeOK
      <3> QED
        BY <1>3, <3>1, LineParts
    <2>2. CASE d = c
      <3> DEFINE u == FlattenSeq(Delivered[c]) \o batch[c]
      <3>1. u \in Seq(Msg) /\ Line(c) = u \o queue[c]
        BY LineParts, ConcatProperties
      <3>2. batch'[c] = <<>> /\ Delivered'[c] = Append(Delivered[c], batch[c])
        BY <1>1, <1>2 DEF TypeOK
      <3>3. FlattenSeq(Append(Delivered[c], batch[c])) = u
        <4>1. Delivered[c] \in Seq(Seq(Msg)) /\ batch[c] \in Seq(Msg)
          BY <1>2, LineParts
        <4> QED
          BY <4>1, FlattenAppend
      <3> HIDE DEF u
      <3>4. u \o <<>> = u
        BY <3>1, ConcatEmptySeq
      <3> QED
        BY <1>3, <2>2, <3>1, <3>2, <3>3, <3>4
    <2> QED
      BY <2>1, <2>2
  <1> QED
    BY <1>0, <1>1, <1>4, OrderStays

LEMMA OrderStep ==
    ASSUME TypeOK, TypeOK', LocalsMatchBatch, OnePlace, \A d \in Channel : InOrder(d),
           [Next]_vars, NEW d \in Channel
    PROVE  InOrder(d)'
  <1>1. ASSUME UNCHANGED <<sent, calls, batch, queue, fate>> PROVE InOrder(d)'
    <2>1. Line(d)' = Line(d)
      BY <1>1 DEF Line
    <2> QED
      BY <1>1, <2>1, OrderStays
  <1>2. ASSUME NEW m \in Msg, Enqueue(m) PROVE InOrder(d)'
    <2>1. ASSUME NEW f \in {"refused", "rejected"}, at[m] # "returned",
                 fate' = [fate EXCEPT ![m] = f], UNCHANGED <<sent, calls, batch, queue>>
          PROVE  InOrder(d)'
      <3>1. fate[m] = "outside" /\ \A x \in Msg : fate'[x] = IF x = m THEN f ELSE fate[x]
        BY <2>1 DEF OnePlace, TypeOK
      <3>2. Line(d)' = Line(d)
        BY <2>1 DEF Line
      <3> QED
        BY <2>1, <3>1, <3>2, OrderStays
    <2>2. CASE GetOrCreateWorker(m) \/ PassShutdownCheck(m) \/ FindFull(m) \/ FindNothingToDrain(m)
      BY <1>1, <2>2 DEF GetOrCreateWorker, PassShutdownCheck, FindFull, FindNothingToDrain,
                        historyVars
    <2>3. CASE RefuseAtShutdown(m)
      BY <2>1, <2>3 DEF RefuseAtShutdown
    <2>4. CASE GiveUp(m)
      BY <2>1, <2>4 DEF GiveUp
    <2>5. CASE Send(m)
      BY <2>5, PutOrder DEF Send
    <2>6. CASE Resend(m)
      BY <2>6, PutOrder DEF Resend
    <2>7. CASE DrainOldest(m)
      BY <2>7, DrainOrder
    <2> QED
      BY <1>2, <2>2, <2>3, <2>4, <2>5, <2>6, <2>7 DEF Enqueue
  <1>3. ASSUME NEW c \in Channel, RunWorker(c) PROVE InOrder(d)'
    <2>1. CASE TakeFirst(c)
      BY <2>1, ReceiveOrder DEF TakeFirst
    <2>2. CASE TakeNext(c)
      BY <2>2, ReceiveOrder DEF TakeNext
    <2>3. CASE CallHandler(c)
      BY <2>3, CallOrder
    <2>4. CASE ExitCollecting(c)
      BY <2>4, ExitOrder
    <2>5. CASE HandlerReturns(c) \/ ExitIdle(c)
      BY <1>1, <2>5 DEF HandlerReturns, ExitIdle, historyVars
    <2> QED
      BY <1>3, <2>1, <2>2, <2>3, <2>4, <2>5 DEF RunWorker
  <1> QED
    BY <1>1, <1>2, <1>3 DEF Next, Cancel, Finished, vars, historyVars

LEMMA InitOrder ==
    ASSUME Init, NEW c \in Channel
    PROVE  InOrder(c)
  <1>1. sent[c] = <<>> /\ batch[c] = <<>> /\ queue[c] = <<>> /\ calls[c] = <<>>
    BY DEF Init
  <1>2. [i \in 1..Len(calls[c]) |-> calls[c][i].batch] = <<>>
    BY <1>1
  <1>3. FlattenSeq(<<>>) = <<>>
    BY DEF FlattenSeq
  <1>4. Line(c) = <<>>
    BY <1>1, <1>2, <1>3, ConcatEmptySeq DEF Line
  <1> QED
    BY <1>1, <1>4, EmptyPlaces DEF InOrder, InOrderOf

\* What entered the queue of a channel leaves it in the order it entered, each
\* message once, and none but the evicted and the abandoned disappears: however
\* the sends, the drains, the receives and the handler calls interleave.
THEOREM TheOrderIsExact == Spec => []ExactOrder
  <1> DEFINE Ordered == \A c \in Channel : InOrder(c)
  <1>1. Init => Ordered
    BY InitOrder
  <1>2. TypeOK /\ TypeOK' /\ LocalsMatchBatch /\ OnePlace /\ Ordered /\ [Next]_vars => Ordered'
    BY OrderStep
  <1>3. Ordered => ExactOrder
    BY DEF ExactOrder, InOrder
  <1> HIDE DEF Ordered
  <1> QED
    BY <1>1, <1>2, <1>3, TypesAndLocals, MessagesInOnePlace, PTL DEF Spec
=============================================================================
