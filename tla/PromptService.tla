--------------------------- MODULE PromptService ---------------------------
(***************************************************************************)
(* What the program promises about the messages it hears, without queues,  *)
(* goroutines, sessions, a client or a process.  A channel is attended to  *)
(* one message at a time; the ones merged behind it share its prompt.      *)
(* Only while a message is attended to, and only if the policy lets it     *)
(* through, does the server take up the prompt about it: once, or a second *)
(* time after a fault, and never after the end.                            *)
(***************************************************************************)
EXTENDS Integers

CONSTANTS Msg,        \* the messages that may be posted
          ChannelOf,  \* the channel each message is posted in
          Allowed     \* the messages the policy lets through

VARIABLES story,   \* what has become of each message
          taken,   \* how often the server has taken up the prompt about it
          faulty,  \* there was a fault
          ended    \* the client is closed

serviceVars == <<story, taken, faulty, ended>>

Init == /\ story = [m \in Msg |-> "unseen"]
        /\ taken = [m \in Msg |-> 0]
        /\ faulty = FALSE
        /\ ended = FALSE

\* All messages of S have the same new story; the others keep theirs.
Becomes(S, new) == story' = [m \in Msg |-> IF m \in S THEN new ELSE story[m]]

Accept(m) == /\ story[m] = "unseen"
             /\ Becomes({m}, "waiting")
             /\ UNCHANGED <<taken, faulty, ended>>

\* To a full queue or at the shutdown, before the program turned to them.
Lose(lost) == /\ \A m \in lost : story[m] \in {"unseen", "waiting"}
              /\ Becomes(lost, "lost")
              /\ UNCHANGED <<taken, faulty, ended>>

\* The program turns to m, which waits in its channel with the messages merged
\* behind it, and it has done with the channel's last one.
Attend(m, merged) ==
    /\ m \notin merged
    /\ \A n \in merged \cup {m} : story[n] = "waiting" /\ ChannelOf[n] = ChannelOf[m]
    /\ \A n \in Msg : ChannelOf[n] = ChannelOf[m] => story[n] # "attended"
    /\ story' = [n \in Msg |-> IF n = m THEN "attended"
                               ELSE IF n \in merged THEN "merged" ELSE story[n]]
    /\ UNCHANGED <<taken, faulty, ended>>

TakeUp(m) == /\ story[m] = "attended"
             /\ m \in Allowed
             /\ ~ended
             /\ taken[m] < IF faulty THEN 2 ELSE 1
             /\ taken' = [taken EXCEPT ![m] = @ + 1]
             /\ UNCHANGED <<story, faulty, ended>>

Finish(m) == /\ story[m] = "attended"
             /\ Becomes({m}, "over")
             /\ UNCHANGED <<taken, faulty, ended>>

Fault == /\ faulty' = TRUE
         /\ UNCHANGED <<story, taken, ended>>

End == /\ ended' = TRUE
       /\ UNCHANGED <<story, taken, faulty>>

Next == \/ \E m \in Msg : Accept(m) \/ TakeUp(m) \/ Finish(m)
        \/ \E lost \in SUBSET Msg : Lose(lost)
        \/ \E m \in Msg : \E merged \in SUBSET Msg : Attend(m, merged)
        \/ Fault
        \/ End

Spec == Init /\ [][Next]_serviceVars
=============================================================================
