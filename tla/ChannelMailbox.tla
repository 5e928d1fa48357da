--------------------------- MODULE ChannelMailbox ---------------------------
(***************************************************************************)
(* What the dispatcher promises, without goroutines, locks or timers: each *)
(* channel has a bounded mailbox.  A message is offered once.  It enters   *)
(* the mailbox of its channel at the tail, leaves it at the head, joins    *)
(* the batch being collected, and the whole batch is delivered in one go;  *)
(* or it is lost.  Nothing is delivered twice, nothing moves to another    *)
(* channel and nothing overtakes.                                          *)
(***************************************************************************)
EXTENDS Integers, Sequences

CONSTANTS Msg,        \* the messages that may be posted
          Channel,    \* the guild:channel keys
          ChannelOf,  \* the channel each message is posted in
          Capacity    \* the size of a mailbox

VARIABLES unseen,     \* messages not offered yet
          inbox,      \* channel -> messages waiting, oldest first
          current,    \* channel -> the batch being collected
          delivered,  \* channel -> the batches delivered, in order
          lost,       \* messages that will never be delivered
          closed      \* the program is shutting down

mailboxVars == <<unseen, inbox, current, delivered, lost, closed>>

Init == /\ unseen = Msg
        /\ inbox = [c \in Channel |-> <<>>]
        /\ current = [c \in Channel |-> <<>>]
        /\ delivered = [c \in Channel |-> <<>>]
        /\ lost = {}
        /\ closed = FALSE

\* A message enters the mailbox of its channel.
Accept(m) ==
    /\ m \in unseen
    /\ Len(inbox[ChannelOf[m]]) < Capacity
    /\ unseen' = unseen \ {m}
    /\ inbox' = [inbox EXCEPT ![ChannelOf[m]] = Append(@, m)]
    /\ UNCHANGED <<current, delivered, lost, closed>>

\* A message is turned away, because its mailbox is full or at shutdown.
TurnAway(m) ==
    /\ m \in unseen
    /\ closed \/ Len(inbox[ChannelOf[m]]) = Capacity
    /\ unseen' = unseen \ {m}
    /\ lost' = lost \cup {m}
    /\ UNCHANGED <<inbox, current, delivered, closed>>

\* The oldest waiting message of a channel makes room for a newer one.
Evict(c) ==
    /\ inbox[c] # <<>>
    /\ inbox' = [inbox EXCEPT ![c] = Tail(@)]
    /\ lost' = lost \cup {Head(inbox[c])}
    /\ UNCHANGED <<unseen, current, delivered, closed>>

\* The oldest waiting message joins the batch.
Collect(c) ==
    /\ inbox[c] # <<>>
    /\ inbox' = [inbox EXCEPT ![c] = Tail(@)]
    /\ current' = [current EXCEPT ![c] = Append(@, Head(inbox[c]))]
    /\ UNCHANGED <<unseen, delivered, lost, closed>>

\* The batch is delivered as a whole.
Deliver(c) ==
    /\ current[c] # <<>>
    /\ delivered' = [delivered EXCEPT ![c] = Append(@, current[c])]
    /\ current' = [current EXCEPT ![c] = <<>>]
    /\ UNCHANGED <<unseen, inbox, lost, closed>>

\* At shutdown the batch being collected may be given up as a whole.
Abandon(c) ==
    /\ closed
    /\ current[c] # <<>>
    /\ lost' = lost \cup {current[c][i] : i \in 1..Len(current[c])}
    /\ current' = [current EXCEPT ![c] = <<>>]
    /\ UNCHANGED <<unseen, inbox, delivered, closed>>

Close == /\ closed' = TRUE
         /\ UNCHANGED <<unseen, inbox, current, delivered, lost>>

Next == \/ \E m \in Msg : Accept(m) \/ TurnAway(m)
        \/ \E c \in Channel : Evict(c) \/ Collect(c) \/ Deliver(c) \/ Abandon(c)
        \/ Close

Spec == Init /\ [][Next]_mailboxVars
=============================================================================
