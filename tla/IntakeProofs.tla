---------------------------- MODULE IntakeProofs ----------------------------
(***************************************************************************)
(* Proofs about Intake, for every set of messages and every configuration. *)
(***************************************************************************)
EXTENDS Intake, DispatcherProofs, FiniteSetTheorems, FunctionTheorems

LEMMA StepsAreSteps == [IntakeNext]_<<vars, intakeVars>> => [Next]_vars
  <1> SUFFICES ASSUME [IntakeNext]_<<vars, intakeVars>> PROVE [Next]_vars
    OBVIOUS
  <1>1. ASSUME NEW m \in Msg, Enqueue(m) PROVE Next
    BY <1>1 DEF Next
  <1>2. ASSUME NEW c \in Channel,
               CallHandler(c) \/ TakeFirst(c) \/ TakeNext(c) \/ HandlerReturns(c)
                   \/ ExitIdle(c) \/ ExitCollecting(c)
        PROVE  Next
    BY <1>2 DEF Next, RunWorker
  <1>3. Cancel \/ Finished => Next
    BY DEF Next
  <1> QED
    BY <1>1, <1>2, <1>3 DEF IntakeNext, HandleMessage

\* The handler of src/cmd/yururi changes nothing about the dispatcher: what is
\* proved of every dispatcher holds of this one.
THEOREM IntakeIsDispatcher == IntakeSpec => Spec
  <1>1. IntakeInit => Init
    BY DEF IntakeInit
  <1> QED
    BY <1>1, StepsAreSteps, PTL DEF IntakeSpec, Spec

-----------------------------------------------------------------------------

\* Messages of one batch come from one place.
LEMMA BatchHasOnePlace ==
    ASSUME TypeOK, LocalsMatchBatch, OnePlace,
           NEW c \in Channel, worker[c] = "collect",
           NEW i \in 1..Len(batch[c])
    PROVE  /\ batch[c][i] \in Msg
           /\ PlaceAllowed(Incoming[latest[c]]) => PlaceAllowed(Incoming[batch[c][i]])
  <1> DEFINE m == batch[c][i]
             n == latest[c]
  <1>1. batch[c] \in Seq(Msg) /\ batch[c] # <<>>
    BY DEF TypeOK, LocalsMatchBatch
  <1>2. Len(batch[c]) \in 1..Len(batch[c]) /\ n = batch[c][Len(batch[c])]
    BY <1>1, EndsFacts DEF LocalsMatchBatch
  <1>3. m \in Msg /\ n \in Msg
    BY <1>1, <1>2, EndsFacts
  <1>4. Holds(batch[c], m) /\ Holds(batch[c], n)
    BY <1>2 DEF Holds
  <1>5. ChannelOf[m] = c /\ ChannelOf[n] = c
    BY <1>3, <1>4 DEF OnePlace
  <1>6. WorkerKey(Incoming[m]) = WorkerKey(Incoming[n])
    BY <1>3, <1>5, IntakeAssumption
  <1>7. /\ Incoming[m].guildID = Incoming[n].guildID
        /\ Incoming[m].channelID = Incoming[n].channelID
    BY <1>6 DEF WorkerKey
  <1> QED
    BY <1>3, <1>7 DEF PlaceAllowed

\* One verdict for a whole batch never lets a message of a place that is not to
\* be read into a turn, whatever arrives, however it is merged.
THEOREM PassedFromAllowedPlaces == IntakeSpec => []PassedPlacesAllowed
  <1>1. IntakeInit => PassedPlacesAllowed
    BY DEF IntakeInit, PassedPlacesAllowed
  <1>2. /\ TypeOK /\ LocalsMatchBatch /\ OnePlace
        /\ PassedPlacesAllowed
        /\ [IntakeNext]_<<vars, intakeVars>>
        => PassedPlacesAllowed'
    <2> SUFFICES ASSUME TypeOK, LocalsMatchBatch, OnePlace, PassedPlacesAllowed,
                        [IntakeNext]_<<vars, intakeVars>>
                 PROVE  PassedPlacesAllowed'
      OBVIOUS
    <2>1. ASSUME NEW c \in Channel, HandleMessage(c) PROVE PassedPlacesAllowed'
      <3>1. worker[c] = "collect"
        BY <2>1 DEF HandleMessage, CallHandler
      <3>2. CASE Evaluate(Incoming[latest[c]])
        <4>1. passed' = passed \cup Members(c)
          BY <2>1, <3>2 DEF HandleMessage
        <4>2. \A m \in Members(c) : PlaceAllowed(Incoming[m])
          BY <3>1, <3>2, BatchHasOnePlace DEF Evaluate, Members
        <4> QED
          BY <4>1, <4>2 DEF PassedPlacesAllowed, PlaceAllowed
      <3>3. CASE ~Evaluate(Incoming[latest[c]])
        BY <2>1, <3>3 DEF HandleMessage, PassedPlacesAllowed, PlaceAllowed
      <3> QED
        BY <3>2, <3>3
    <2>2. CASE UNCHANGED intakeVars
      BY <2>2 DEF intakeVars, PassedPlacesAllowed, PlaceAllowed
    <2> QED
      BY <2>1, <2>2 DEF IntakeNext
  <1> QED
    BY <1>1, <1>2, IntakeIsDispatcher, TypesAndLocals, MessagesInOnePlace, PTL
      DEF IntakeSpec

-----------------------------------------------------------------------------
(* Numbers of messages. *)

\* Finitely many messages can have been posted between two.
LEMMA BetweenIsFinite ==
    ASSUME NEW m \in Msg, NEW n \in Msg
    PROVE  IsFiniteSet(Between(m, n))
  <1> DEFINE ids == {MessageID[x] : x \in Between(m, n)}
             id  == [x \in Between(m, n) |-> MessageID[x]]
             interval == MessageID[m]..MessageID[n]
  <1>1. MessageID[m] \in Int /\ MessageID[n] \in Int
    BY HistoryAssumption
  <1>2. IsFiniteSet(interval)
    BY <1>1, FS_Interval
  <1>3. id \in [Between(m, n) -> interval]
    BY <1>1, HistoryAssumption DEF Between
  <1>4. \A x, y \in Between(m, n) : id[x] = id[y] => x = y
    BY HistoryAssumption DEF Between
  <1>5. id \in Injection(Between(m, n), interval)
    BY <1>3, <1>4 DEF Injection, IsInjective
  <1> HIDE DEF id, interval
  <1> QED
    BY <1>2, <1>5, FS_Injection

\* A sequence has no more members than places.
LEMMA MembersAreFew ==
    ASSUME NEW c \in Channel, batch[c] \in Seq(Msg)
    PROVE  /\ IsFiniteSet(Members(c))
           /\ Cardinality(Members(c)) \in Nat
           /\ Cardinality(Members(c)) <= Len(batch[c])
  <1> DEFINE f == [i \in 1..Len(batch[c]) |-> batch[c][i]]
  <1>1. Len(batch[c]) \in Nat
    OBVIOUS
  <1>2. f \in Surjection(1..Len(batch[c]), Members(c))
    BY DEF Surjection, Members
  <1>3. IsFiniteSet(1..Len(batch[c])) /\ Cardinality(1..Len(batch[c])) = Len(batch[c])
    BY <1>1, FS_Interval
  <1> HIDE DEF f
  <1>4. IsFiniteSet(Members(c)) /\ Cardinality(Members(c)) <= Cardinality(1..Len(batch[c]))
    BY <1>2, <1>3, FS_Surjection
  <1> QED
    BY <1>3, <1>4, FS_CardinalityType

\* Two members of a batch are not between themselves.
LEMMA BetweenIsFew ==
    ASSUME NEW M, IsFiniteSet(M), NEW m \in M \cap Msg, NEW n \in M \cap Msg, m # n
    PROVE  /\ Cardinality(M) \in Nat
           /\ Cardinality(Between(m, n) \ M) \in Nat
           /\ Cardinality(Between(m, n)) \in Nat
           /\ Cardinality(Between(m, n))
                  <= Cardinality(M) - 2 + Cardinality(Between(m, n) \ M)
  <1> DEFINE B == Between(m, n)
             N == (M \ {m}) \ {n}
  <1>1. IsFiniteSet(B)
    BY BetweenIsFinite
  <1>2. IsFiniteSet(B \ M) /\ Cardinality(B \ M) \in Nat /\ Cardinality(B) \in Nat
    BY <1>1, FS_Difference, FS_CardinalityType
  <1>3. m \notin B /\ n \notin B
    BY HistoryAssumption DEF Between
  <1> HIDE DEF B
  <1>4. /\ IsFiniteSet(N)
        /\ Cardinality(N) = Cardinality(M) - 2
        /\ Cardinality(M) \in Nat /\ Cardinality(N) \in Nat
    <2>1. IsFiniteSet(M \ {m}) /\ Cardinality(M \ {m}) = Cardinality(M) - 1
      BY FS_RemoveElement
    <2>2. IsFiniteSet(N) /\ Cardinality(N) = Cardinality(M \ {m}) - 1
      BY <2>1, FS_RemoveElement
    <2>3. Cardinality(M) \in Nat /\ Cardinality(N) \in Nat
      BY <2>2, FS_CardinalityType
    <2> QED
      BY <2>1, <2>2, <2>3
  <1> HIDE DEF N
  <1>5. B \subseteq N \cup (B \ M)
    BY <1>3 DEF N
  <1>6. /\ IsFiniteSet(N \cup (B \ M))
        /\ Cardinality(N \cup (B \ M)) \in Nat
        /\ Cardinality(N \cup (B \ M)) <= Cardinality(N) + Cardinality(B \ M)
    <2>1. IsFiniteSet(N \cup (B \ M)) /\ IsFiniteSet(N \cap (B \ M))
      BY <1>2, <1>4, FS_Union, FS_Intersection
    <2>2. Cardinality(N \cup (B \ M))
            = Cardinality(N) + Cardinality(B \ M) - Cardinality(N \cap (B \ M))
      BY <1>2, <1>4, FS_Union
    <2>3. Cardinality(N \cap (B \ M)) \in Nat /\ Cardinality(N \cup (B \ M)) \in Nat
      BY <2>1, FS_CardinalityType
    <2> QED
      BY <1>2, <1>4, <2>1, <2>2, <2>3
  <1>7. Cardinality(B) <= Cardinality(N \cup (B \ M))
    BY <1>5, <1>6, FS_Subset
  <1> QED
    BY <1>2, <1>4, <1>6, <1>7 DEF B

-----------------------------------------------------------------------------
(* What the prompt shows. *)

Fits(p) ==
    \A m \in p.members \ {p.current} :
        LET strangers == Cardinality(Between(m, p.current) \ p.members)
        IN  \/ m \in p.recent
            \/ ~p.read
            \/ MessageID[m] > MessageID[p.current]
            \/ strangers > Margin
            \/ Cardinality(p.members) - 1 + strangers > MaxLimit

LEMMA PromptFits ==
    ASSUME TypeOK, LocalsMatchBatch, OnePlace,
           NEW c \in Channel, worker[c] = "collect", NEW read \in BOOLEAN
    PROVE  Fits(Prompt(c, read))
  <1> DEFINE n == latest[c]
             k == Len(batch[c])
             p == Prompt(c, read)
  <1>1. batch[c] \in Seq(Msg) /\ batch[c] # <<>>
    BY DEF TypeOK, LocalsMatchBatch
  <1>2. k \in Nat \ {0} /\ n = batch[c][k] /\ mergedCount[c] = k
    BY <1>1, EndsFacts DEF LocalsMatchBatch
  <1>3. n \in Members(c) /\ n \in Msg
    BY <1>1, <1>2, EndsFacts DEF Members
  <1>4. /\ p.members = Members(c) /\ p.current = n /\ p.read = read
        /\ read => p.recent = MessageHistory(n, CalculateHistoryLimit(k))
    BY <1>2 DEF Prompt
  <1> SUFFICES Fits(p)
    OBVIOUS
  <1> HIDE DEF p
  <1>5. SUFFICES ASSUME NEW m \in p.members \ {p.current}, p.read,
                        ~(MessageID[m] > MessageID[p.current]),
                        ~(Cardinality(Between(m, p.current) \ p.members) > Margin),
                        ~(Cardinality(p.members) - 1
                            + Cardinality(Between(m, p.current) \ p.members) > MaxLimit)
                 PROVE  m \in p.recent
    BY DEF Fits
  <1>6. SUFFICES m \in MessageHistory(n, CalculateHistoryLimit(k))
    BY <1>4, <1>5
  <1>7. /\ m \in Members(c) \ {n}
        /\ ~(MessageID[m] > MessageID[n])
        /\ ~(Cardinality(Between(m, n) \ Members(c)) > Margin)
        /\ ~(Cardinality(Members(c)) - 1
                + Cardinality(Between(m, n) \ Members(c)) > MaxLimit)
    BY <1>4, <1>5
  <1>8. m \in Msg
    BY <1>1, <1>7, EndsFacts DEF Members
  <1>9. ChannelOf[m] = ChannelOf[n]
    BY <1>3, <1>7, <1>8 DEF OnePlace, Holds, Members
  <1>10. MessageID[m] < MessageID[n]
    BY <1>3, <1>7, <1>8, HistoryAssumption
  <1>11. /\ IsFiniteSet(Members(c))
        /\ Cardinality(Members(c)) \in Nat
        /\ Cardinality(Members(c)) <= k
    BY <1>1, MembersAreFew
  <1>12. /\ Cardinality(Between(m, n) \ Members(c)) \in Nat
         /\ Cardinality(Between(m, n)) \in Nat
         /\ Cardinality(Between(m, n))
                <= Cardinality(Members(c)) - 2 + Cardinality(Between(m, n) \ Members(c))
    BY <1>3, <1>7, <1>8, <1>11, BetweenIsFew
  <1>13. k > 1
    <2>1. PICK i \in 1..k : batch[c][i] = m
      BY <1>7 DEF Members
    <2> QED
      BY <1>2, <1>7, <2>1
  <1>14. /\ Margin \in Nat /\ MaxLimit \in Nat /\ MinLimit \in Nat
         /\ \/ CalculateHistoryLimit(k) \in Nat /\ CalculateHistoryLimit(k) >= k + Margin
            \/ CalculateHistoryLimit(k) = MaxLimit
    BY <1>2, <1>13, HistoryAssumption DEF CalculateHistoryLimit
  <1> DEFINE limit == CalculateHistoryLimit(k)
             between == Cardinality(Between(m, n))
             strangers == Cardinality(Between(m, n) \ Members(c))
             members == Cardinality(Members(c))
  <1>15. between < limit
    <2>1. strangers <= Margin /\ members - 1 + strangers <= MaxLimit
      BY <1>7, <1>11, <1>12, <1>14
    <2>2. between \in Nat /\ strangers \in Nat /\ members \in Nat /\ members <= k
      BY <1>11, <1>12
    <2>3. between <= members - 2 + strangers
      BY <1>12
    <2>4. limit = MaxLimit \/ (limit \in Nat /\ limit >= k + Margin)
      BY <1>14
    <2>5. k \in Nat /\ Margin \in Nat /\ MaxLimit \in Nat
      BY <1>2, <1>14
    <2> HIDE DEF limit, between, strangers, members, k
    <2> QED
      BY <2>1, <2>2, <2>3, <2>4, <2>5
  <1> QED
    BY <1>8, <1>9, <1>10, <1>15 DEF MessageHistory

\* Every prompt shows the messages merged behind the one it quotes, but for the
\* reasons given: the margin of calculateHistoryLimit is a margin for strangers.
THEOREM MergedAreShown == IntakeSpec => []MergedIsShown
  <1>1. IntakeInit => MergedIsShown
    BY DEF IntakeInit, MergedIsShown
  <1>2. MergedIsShown <=> \A p \in prompts : Fits(p)
    BY DEF MergedIsShown, Fits
  <1>3. TypeOK /\ LocalsMatchBatch /\ OnePlace /\ MergedIsShown
        /\ [IntakeNext]_<<vars, intakeVars>>
        => MergedIsShown'
    <2> SUFFICES ASSUME TypeOK, LocalsMatchBatch, OnePlace, MergedIsShown,
                        [IntakeNext]_<<vars, intakeVars>>
                 PROVE  MergedIsShown'
      OBVIOUS
    <2>1. ASSUME NEW p \in prompts' PROVE Fits(p)
      <3>1. CASE p \in prompts
        BY <1>2, <3>1
      <3>2. CASE p \notin prompts
        <4>1. PICK c \in Channel : HandleMessage(c)
          BY <2>1, <3>2 DEF IntakeNext, intakeVars
        <4>2. worker[c] = "collect"
          BY <4>1 DEF HandleMessage, CallHandler
        <4>3. \E read \in BOOLEAN : p = Prompt(c, read)
          BY <2>1, <3>2, <4>1 DEF HandleMessage
        <4> QED
          BY <4>2, <4>3, PromptFits
      <3> QED
        BY <3>1, <3>2
    <2> QED
      BY <2>1 DEF MergedIsShown, Fits
  <1> QED
    BY <1>1, <1>3, IntakeIsDispatcher, TypesAndLocals, MessagesInOnePlace, PTL
      DEF IntakeSpec
=============================================================================
