------------------------------- MODULE Intake -------------------------------
(***************************************************************************)
(* From a Discord event to a turn: the dispatcher with the handler that    *)
(* src/cmd/yururi gives it.  The event handler of app_runtime.go enqueues  *)
(* every message; only handleMessage (handler_message.go), which gets the  *)
(* latest message of a batch, asks policy.Evaluate (policy/filter.go)      *)
(* whether there is to be a turn.  The turn's prompt quotes that message;  *)
(* the others of its batch are in it only as part of the channel's recent  *)
(* history, which Discord is asked for.                                    *)
(***************************************************************************)
EXTENDS Dispatcher

CONSTANTS Incoming,          \* policy.Incoming of each message
          GuildID, ReadChannelIDs, ExcludedChannelIDs,
          AllowedBotUserIDs, \* config.DiscordConfig
          Blank,             \* an empty id
          MessageID,         \* message ids, which grow as messages are posted
          MinLimit, Margin, MaxLimit  \* of calculateHistoryLimit

VARIABLES passed,   \* messages of batches that go on to a turn
          filtered, \* messages of batches that were filtered
          prompts   \* the batches that went on, each with the history read for it

intakeVars == <<passed, filtered, prompts>>

\* Slip: a worker per guild.
KeyOfGuild(in) == in.guildID

\* workerKey: guild and channel.  A blank one is given a name of its own there.
WorkerKey(in) == <<in.guildID, in.channelID>>

\* The dispatcher is given the messages as they are.
ASSUME IntakeAssumption == \A m \in Msg : ChannelOf[m] = WorkerKey(Incoming[m])

\* The part of Evaluate that looks at the place, ...
PlaceAllowed(in) == /\ in.guildID # Blank
                    /\ in.channelID # Blank
                    /\ in.guildID = GuildID
                    /\ in.channelID \in ReadChannelIDs
                    /\ in.channelID \notin ExcludedChannelIDs

\* ... and at the author.
AuthorAllowed(in) == /\ in.authorID # Blank
                     /\ in.authorIsBot \/ in.webhookID # Blank
                          => in.authorID \in AllowedBotUserIDs

Evaluate(in) == PlaceAllowed(in) /\ AuthorAllowed(in)

-----------------------------------------------------------------------------
(* The history of the channel *)

ASSUME HistoryAssumption ==
    /\ MessageID \in [Msg -> Nat]
    /\ \A m, n \in Msg : MessageID[m] = MessageID[n] => m = n
    /\ MinLimit \in Nat /\ Margin \in Nat /\ MaxLimit \in Nat

\* Slip: a batch is treated as one message.
LimitOfOne(count) == MinLimit

CalculateHistoryLimit(count) ==
    IF count <= 1 THEN MinLimit
    ELSE LET wanted == IF count + Margin < MinLimit THEN MinLimit ELSE count + Margin
         IN  IF wanted > MaxLimit THEN MaxLimit ELSE wanted

\* What was posted in the channel after m and before n.
Between(m, n) == {x \in Msg : /\ ChannelOf[x] = ChannelOf[n]
                             /\ MessageID[m] < MessageID[x]
                             /\ MessageID[x] < MessageID[n]}

\* ReadMessageHistory: the newest messages before n, whether the dispatcher has
\* handed them over, holds them still or lost them.
MessageHistory(n, limit) == {m \in Msg : /\ ChannelOf[m] = ChannelOf[n]
                                        /\ MessageID[m] < MessageID[n]
                                        /\ Cardinality(Between(m, n)) < limit}

-----------------------------------------------------------------------------

IntakeInit == /\ Init
              /\ passed = {}
              /\ filtered = {}
              /\ prompts = {}

Members(c) == {batch[c][i] : i \in 1..Len(batch[c])}

\* The prompt of a batch; it goes without a history that cannot be read.
Prompt(c, read) ==
    [members |-> Members(c),
     current |-> latest[c],
     read    |-> read,
     recent  |-> IF read
                 THEN MessageHistory(latest[c], CalculateHistoryLimit(mergedCount[c]))
                 ELSE {}]

\* handleMessage: one verdict, on the latest message, for the whole batch.  The
\* turn that follows is module Coordinator.
HandleMessage(c) ==
    /\ CallHandler(c)
    /\ IF Evaluate(Incoming[latest[c]])
       THEN /\ passed' = passed \cup Members(c)
            /\ \E read \in BOOLEAN : prompts' = prompts \cup {Prompt(c, read)}
            /\ UNCHANGED filtered
       ELSE /\ filtered' = filtered \cup Members(c)
            /\ UNCHANGED <<passed, prompts>>

IntakeNext ==
    \/ \E m \in Msg : Enqueue(m) /\ UNCHANGED intakeVars
    \/ \E c \in Channel :
         \/ HandleMessage(c)
         \/ /\ TakeFirst(c) \/ TakeNext(c) \/ HandlerReturns(c)
                 \/ ExitIdle(c) \/ ExitCollecting(c)
            /\ UNCHANGED intakeVars
    \/ (Cancel \/ Finished) /\ UNCHANGED intakeVars

IntakeSpec == IntakeInit /\ [][IntakeNext]_<<vars, intakeVars>>

-----------------------------------------------------------------------------
(* Properties *)

\* The verdict on one message carries the others of its batch with it, and still
\* no message of a place that is not to be read gets into a turn: a batch never
\* mixes channels, so the place's part of the verdict is right for all of it.
PassedPlacesAllowed == \A m \in passed : PlaceAllowed(Incoming[m])

\* Only the latest message of a batch is quoted; the others are in the history the
\* prompt shows, unless it could not be read or is too short for the batch and
\* the messages posted in between, more than Margin of which it does not allow
\* for.  A message that was posted later than the latest of its batch (the event
\* handlers race) is in no history.
MergedIsShown ==
    \A p \in prompts : \A m \in p.members \ {p.current} :
        LET strangers == Cardinality(Between(m, p.current) \ p.members)
        IN  \/ m \in p.recent
            \/ ~p.read
            \/ MessageID[m] > MessageID[p.current]
            \/ strangers > Margin
            \/ Cardinality(p.members) - 1 + strangers > MaxLimit

\* What docs/REARCHITECTURE.md fixes, filter before queue: no message that the
\* policy lets through is filtered.
AllowedArePassed == \A m \in filtered : ~Evaluate(Incoming[m])
=============================================================================
