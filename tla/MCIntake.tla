------------------------------ MODULE MCIntake ------------------------------
(***************************************************************************)
(* Instances of Intake: four messages of a channel that is read, one of    *)
(* them the bot's own, and one of a channel that is not, all in one guild. *)
(***************************************************************************)
EXTENDS Intake

CONSTANTS m1, m2, m3, m4, other, guild, readable, unreadable, human, self, none

MCIncoming ==
    [m \in Msg |-> [guildID |-> guild,
                    channelID |-> IF m = other THEN unreadable ELSE readable,
                    authorID |-> IF m = m3 THEN self ELSE human,
                    authorIsBot |-> m = m3,
                    webhookID |-> none]]

\* The order of posting; the events may come in any.
MCMessageID ==
    LET order == <<m1, m2, m3, m4, other>>
    IN  [m \in Msg |-> CHOOSE i \in 1..Len(order) : order[i] = m]

MCChannelOf == [m \in Msg |-> WorkerKey(MCIncoming[m])]
MCChannel == {MCChannelOf[m] : m \in Msg}
=============================================================================
