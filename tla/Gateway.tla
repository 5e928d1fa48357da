------------------------------ MODULE Gateway ------------------------------
(***************************************************************************)
(* Posting to Discord and the suppression of duplicates, SendMessage,      *)
(* ReplyMessage, isDuplicateContent and rememberContent in                 *)
(* src/internal/discordx/gateway.go.                                       *)
(*                                                                         *)
(* The tool handlers that post run in goroutines of their own: a turn may  *)
(* call tools side by side, and a retried turn may repeat a call that the  *)
(* handler of the killed codex process is still working on.  A call looks  *)
(* the content up in one critical section of dedupMu and records it in     *)
(* another; the post lies between them.  Both sections use a time that was *)
(* read before the mutex was taken.                                        *)
(*                                                                         *)
(* SendMessage and ReplyMessage take the same steps.  A call that is       *)
(* refused before the look-up (channel not writable, no content, context   *)
(* done) changes nothing and is left out.                                  *)
(***************************************************************************)
EXTENDS Integers, Sequences, FiniteSets

CONSTANTS Sender,       \* goroutines that post at the same time
          Channel,      \* writable channels
          Content,      \* texts
          Signature,    \* hashes of normalised texts
          SignatureOf,  \* dedupSignature: texts may differ in case and blanks only
          Window,       \* duplicateWindow
          Never,        \* no time: the content is not in the map
          LastTime,     \* bound: the clock's last value
          MaxSends      \* bound: calls made

ASSUME GatewayAssumption == /\ SignatureOf \in [Content -> Signature]
                            /\ Window \in Nat
                            /\ Never \notin Int
                            /\ LastTime \in Nat
                            /\ MaxSends \in Nat

VARIABLES
    clock,    \* time
    op,       \* op[s]: the call s is in, or Idle
    recent,   \* recentContentMap
    \* History:
    posts,    \* posts[c][g]: when contents of signature g were posted to c
    muddled,  \* <<c, g>> whose calls overlapped, or had the answer to a post lost
    begun     \* calls made so far

vars == <<clock, op, recent, posts, muddled, begun>>

Idle == [at |-> "idle"]

Init == /\ clock = 0
        /\ op = [s \in Sender |-> Idle]
        /\ recent = [c \in Channel |-> [g \in Signature |-> Never]]
        /\ posts = [c \in Channel |-> [g \in Signature |-> <<>>]]
        /\ muddled = {}
        /\ begun = 0

\* The call s is at stage a of posting g to c.
Doing(s, a) == op[s].at = a

-----------------------------------------------------------------------------

\* Slip: texts are compared as they are.
RawText(x) == x

DedupSignature(x) == SignatureOf[x]

\* A call passes its checks and reads the clock for isDuplicateContent.
Begin(s, c, x) ==
    LET g == DedupSignature(x)
    IN  /\ Doing(s, "idle")
        /\ begun < MaxSends
        /\ begun' = begun + 1
        /\ op' = [op EXCEPT ![s] = [at |-> "check", channel |-> c, signature |-> g,
                                    now |-> clock]]
        /\ muddled' = IF \E r \in Sender : /\ ~Doing(r, "idle")
                                           /\ op[r].channel = c
                                           /\ op[r].signature = g
                      THEN muddled \cup {<<c, g>>}
                      ELSE muddled
        /\ UNCHANGED <<clock, recent, posts>>

\* Slip: the time is compared the wrong way round at the window's end.
StaleEarly(ts, now) == ts # Never /\ ts <= now - Window

\* ts.Before(threshold)
Stale(ts, now) == ts # Never /\ ts < now - Window

\* Slip: one stale entry takes the whole map of its channel with it.
PurgedWhole(c, now) == [g \in Signature |->
                          IF \E f \in Signature : Stale(recent[c][f], now) THEN Never
                          ELSE recent[c][g]]

\* The first critical section deletes the stale entries of the channel ...
Purged(c, now) == [g \in Signature |-> IF Stale(recent[c][g], now) THEN Never
                                       ELSE recent[c][g]]

\* ... and the call is refused when its content is still there,
Suppress(s) ==
    LET k == op[s]
    IN  /\ Doing(s, "check")
        /\ recent' = [recent EXCEPT ![k.channel] = Purged(k.channel, k.now)]
        /\ recent'[k.channel][k.signature] # Never
        /\ op' = [op EXCEPT ![s] = Idle]
        /\ UNCHANGED <<clock, posts, muddled, begun>>

\* or goes on to post it.
Pass(s) ==
    LET k == op[s]
    IN  /\ Doing(s, "check")
        /\ recent' = [recent EXCEPT ![k.channel] = Purged(k.channel, k.now)]
        /\ recent'[k.channel][k.signature] = Never
        /\ op' = [op EXCEPT ![s].at = "post"]
        /\ UNCHANGED <<clock, posts, muddled, begun>>

\* ChannelMessageSendComplex: the message is in the channel.
Posted(k) == posts' = [posts EXCEPT ![k.channel][k.signature] = Append(@, clock)]

PostSucceeds(s) ==
    /\ Doing(s, "post")
    /\ Posted(op[s])
    /\ op' = [op EXCEPT ![s].at = "posted"]
    /\ UNCHANGED <<clock, recent, muddled, begun>>

\* Slip: the content of a failed post is remembered like any other.
PostFailsRemembered(s) ==
    /\ Doing(s, "post")
    /\ op' = [op EXCEPT ![s].at = "posted"]
    /\ UNCHANGED <<clock, recent, posts, muddled, begun>>

PostFails(s) ==
    /\ Doing(s, "post")
    /\ op' = [op EXCEPT ![s] = Idle]
    /\ UNCHANGED <<clock, recent, posts, muddled, begun>>

\* The message is in the channel and the call returns an error all the same.
AnswerLost(s) ==
    /\ Doing(s, "post")
    /\ Posted(op[s])
    /\ op' = [op EXCEPT ![s] = Idle]
    /\ muddled' = muddled \cup {<<op[s].channel, op[s].signature>>}
    /\ UNCHANGED <<clock, recent, begun>>

\* rememberContent reads the clock ...
ReadClock(s) ==
    /\ Doing(s, "posted")
    /\ op' = [op EXCEPT ![s].at = "remember", ![s].now = clock]
    /\ UNCHANGED <<clock, recent, posts, muddled, begun>>

\* ... and records it in the second critical section.
Record(s) ==
    LET k == op[s]
    IN  /\ Doing(s, "remember")
        /\ recent' = [recent EXCEPT ![k.channel][k.signature] = k.now]
        /\ op' = [op EXCEPT ![s] = Idle]
        /\ UNCHANGED <<clock, posts, muddled, begun>>

Tick == /\ clock < LastTime
        /\ clock' = clock + 1
        /\ UNCHANGED <<op, recent, posts, muddled, begun>>

Next == \/ \E s \in Sender :
             \/ \E c \in Channel, x \in Content : Begin(s, c, x)
             \/ Suppress(s)
             \/ Pass(s)
             \/ PostSucceeds(s)
             \/ PostFails(s)
             \/ AnswerLost(s)
             \/ ReadClock(s)
             \/ Record(s)
        \/ Tick

Spec == Init /\ [][Next]_vars

-----------------------------------------------------------------------------
(* Properties *)

Call == [at : {"check", "post", "posted", "remember"}, channel : Channel,
         signature : Signature, now : 0..clock]

\* No time is from the future.
TypeOK == /\ clock \in 0..LastTime
          /\ op \in [Sender -> Call \cup {Idle}]
          /\ recent \in [Channel -> [Signature -> (0..clock) \cup {Never}]]
          /\ posts \in [Channel -> [Signature -> Seq(Nat)]]
          /\ muddled \subseteq Channel \X Signature
          /\ begun \in 0..MaxSends

\* What the map remembers was posted, and not later than it says: nothing is
\* suppressed for a message that failed to reach the channel.
RememberedWasPosted ==
    \A c \in Channel, g \in Signature :
        recent[c][g] # Never =>
            \E i \in 1..Len(posts[c][g]) : posts[c][g][i] <= recent[c][g]

\* Two posts of one content to a channel within the window of each other.
Repeats(c, g) == \E i, j \in 1..Len(posts[c][g]) :
                     i < j /\ posts[c][g][j] - posts[c][g][i] <= Window

\* No content is repeated within the window unless calls that post it overlap or
\* the answer to a post is lost: calls one after the other are always caught,
\* whatever other contents and old clock readings come between.
RepeatsNeedOverlap ==
    \A c \in Channel, g \in Signature : Repeats(c, g) => <<c, g>> \in muddled

\* No purge forgets too much: at rest, the newest post of a content whose calls
\* did not overlap is remembered, with a time not before it, until it is older
\* than the window.
NewestIsRemembered ==
    \A c \in Channel, g \in Signature :
        LET n == Len(posts[c][g])
        IN  /\ \A s \in Sender : Doing(s, "idle")
            /\ <<c, g>> \notin muddled
            /\ n > 0
            /\ posts[c][g][n] >= clock - Window
            => recent[c][g] # Never /\ recent[c][g] >= posts[c][g][n]
=============================================================================
