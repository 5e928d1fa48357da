---------------------------- MODULE GatewayProofs ----------------------------
(***************************************************************************)
(* Proofs about Gateway and Typing, for every number of senders, channels, *)
(* contents and calls, and every window.                                   *)
(***************************************************************************)
EXTENDS Typing, SequenceTheorems, TLAPS

-----------------------------------------------------------------------------
(* The inductive invariant, in parts. *)

\* The call of s posts a content of signature g to c.
Active(s, c, g) == op[s].at # "idle" /\ op[s].channel = c /\ op[s].signature = g

\* Two calls at once for one content of a channel were noted.
Overlaps == \A c \in Channel, g \in Signature : \A r, s \in Sender :
                r # s /\ Active(r, c, g) /\ Active(s, c, g) => <<c, g>> \in muddled

Newest(c, g) == posts[c][g][Len(posts[c][g])]

\* Posts are in the order of their times, the last not later than now.
Ordered == \A c \in Channel, g \in Signature : \A i \in 1..Len(posts[c][g]) :
               posts[c][g][i] <= Newest(c, g) /\ Newest(c, g) <= clock

\* What is about to be recorded was posted before.
AboutToRecord ==
    \A s \in Sender, c \in Channel, g \in Signature : Active(s, c, g) =>
      /\ op[s].at = "posted" => posts[c][g] # <<>>
      /\ op[s].at = "remember" =>
           \E i \in 1..Len(posts[c][g]) : posts[c][g][i] <= op[s].now

\* A content whose calls did not overlap: its newest post ...
Clear(c, g) == <<c, g>> \notin muddled /\ posts[c][g] # <<>>
Old(c, g) == Newest(c, g) < clock - Window

\* ... is about to be recorded, or remembered, or older than the window; it is
\* old when another call may post, and not later than the time to be recorded.
Tracked ==
    /\ \A c \in Channel, g \in Signature : Clear(c, g) =>
         \/ \E s \in Sender : Active(s, c, g) /\ op[s].at \in {"posted", "remember"}
         \/ recent[c][g] # Never /\ recent[c][g] >= Newest(c, g)
         \/ Old(c, g)
    /\ \A s \in Sender, c \in Channel, g \in Signature : Active(s, c, g) /\ Clear(c, g) =>
         /\ op[s].at = "post" => Old(c, g)
         /\ op[s].at = "remember" => op[s].now >= Newest(c, g)

History == /\ Overlaps /\ Ordered /\ AboutToRecord /\ Tracked
           /\ RememberedWasPosted /\ RepeatsNeedOverlap
-----------------------------------------------------------------------------

\* A post is the newest of its content; the others are as before.
LEMMA PostFacts ==
    ASSUME NEW p \in Seq(Nat), NEW t \in Nat
    PROVE  /\ Append(p, t) \in Seq(Nat)
           /\ Append(p, t) # <<>>
           /\ Len(Append(p, t)) = Len(p) + 1
           /\ Append(p, t)[Len(p) + 1] = t
           /\ \A i \in 1..Len(p) : Append(p, t)[i] = p[i]
  OBVIOUS

\* Every post has a time.
LEMMA EntryFacts ==
    ASSUME NEW p \in Seq(Nat), NEW i \in 1..Len(p)
    PROVE  p[i] \in Nat /\ p # <<>>
  OBVIOUS

\* A call that is not idle is a record of its channel, signature and time.
LEMMA CallFacts ==
    ASSUME TypeOK, NEW s \in Sender, op[s].at # "idle"
    PROVE  /\ op[s] \in Call
           /\ op[s].channel \in Channel /\ op[s].signature \in Signature
           /\ op[s].now \in 0..clock
  BY DEF TypeOK, Call, Idle

\* What a purge keeps it keeps as it was; what it deletes is older than the window.
LEMMA PurgeFacts ==
    ASSUME TypeOK, NEW c \in Channel, NEW now \in 0..clock, NEW g \in Signature
    PROVE  /\ Purged(c, now)[g] \in {recent[c][g], Never}
           /\ recent[c][g] # Never /\ Purged(c, now)[g] = Never => recent[c][g] < clock - Window
  BY GatewayAssumption DEF TypeOK, Purged, Stale

LEMMA TypeStep ==
    ASSUME TypeOK, [Next]_vars
    PROVE  TypeOK'
  <1> USE GatewayAssumption
  <1>1. clock \in 0..LastTime /\ clock \in Nat
    BY DEF TypeOK
  <1>2. ASSUME NEW s \in Sender, NEW c \in Channel, NEW x \in Content, Begin(s, c, x)
        PROVE  TypeOK'
    <2> DEFINE new == [at |-> "check", channel |-> c, signature |-> DedupSignature(x),
                       now |-> clock]
    <2>1. new \in Call /\ DedupSignature(x) \in Signature
      BY <1>1 DEF Call, DedupSignature
    <2>2. op' = [op EXCEPT ![s] = new] /\ muddled' \subseteq muddled \cup {<<c, DedupSignature(x)>>}
      BY <1>2 DEF Begin
    <2>3. op' \in [Sender -> Call \cup {Idle}]
      BY <2>1, <2>2 DEF TypeOK
    <2>4. begun' \in 0..MaxSends
      BY <1>2 DEF Begin, TypeOK
    <2>5. UNCHANGED <<clock, recent, posts>>
      BY <1>2 DEF Begin
    <2> QED
      BY <2>1, <2>2, <2>3, <2>4, <2>5 DEF TypeOK, Call
  <1>3. ASSUME NEW s \in Sender, Suppress(s) \/ Pass(s) PROVE TypeOK'
    <2> DEFINE k == op[s]
    <2>1. k \in Call /\ k.channel \in Channel /\ k.now \in 0..clock
      BY <1>3, CallFacts DEF Suppress, Pass, Doing
    <2>2. Purged(k.channel, k.now) \in [Signature -> (0..clock) \cup {Never}]
      BY <2>1 DEF Purged, TypeOK
    <2>3. recent' = [recent EXCEPT ![k.channel] = Purged(k.channel, k.now)]
      BY <1>3 DEF Suppress, Pass
    <2>4. recent' \in [Channel -> [Signature -> (0..clock) \cup {Never}]]
      BY <2>2, <2>3 DEF TypeOK
    <2>5. [k EXCEPT !.at = "post"] \in Call
      BY <2>1 DEF Call
    <2>6. op' \in [Sender -> Call \cup {Idle}]
      BY <1>3, <2>5 DEF Suppress, Pass, TypeOK
    <2>7. UNCHANGED <<clock, posts, muddled, begun>>
      BY <1>3 DEF Suppress, Pass
    <2> QED
      BY <2>4, <2>6, <2>7 DEF TypeOK, Call
  <1>4. ASSUME NEW s \in Sender, PostSucceeds(s) \/ PostFails(s) \/ AnswerLost(s) PROVE TypeOK'
    <2> DEFINE k == op[s]
    <2>1. k \in Call /\ k.channel \in Channel /\ k.signature \in Signature
      BY <1>4, CallFacts DEF PostSucceeds, PostFails, AnswerLost, Doing
    <2>2. Append(posts[k.channel][k.signature], clock) \in Seq(Nat)
      BY <1>1, <2>1, PostFacts DEF TypeOK
    <2>3. posts' \in [Channel -> [Signature -> Seq(Nat)]]
      <3>1. [posts[k.channel] EXCEPT ![k.signature] = Append(@, clock)]
               \in [Signature -> Seq(Nat)]
        BY <2>1, <2>2 DEF TypeOK
      <3>2. \/ UNCHANGED posts
            \/ posts' = [posts EXCEPT ![k.channel] =
                           [posts[k.channel] EXCEPT ![k.signature] = Append(@, clock)]]
        BY <1>4, <2>1 DEF PostSucceeds, PostFails, AnswerLost, Posted, TypeOK
      <3> QED
        BY <3>1, <3>2 DEF TypeOK
    <2>4. [k EXCEPT !.at = "posted"] \in Call
      BY <2>1 DEF Call
    <2>5. op' \in [Sender -> Call \cup {Idle}]
      BY <1>4, <2>4 DEF PostSucceeds, PostFails, AnswerLost, TypeOK
    <2>6. muddled' \subseteq Channel \X Signature
      BY <1>4, <2>1 DEF PostSucceeds, PostFails, AnswerLost, TypeOK
    <2>7. UNCHANGED <<clock, recent, begun>>
      BY <1>4 DEF PostSucceeds, PostFails, AnswerLost
    <2> QED
      BY <2>3, <2>5, <2>6, <2>7 DEF TypeOK, Call
  <1>5. ASSUME NEW s \in Sender, ReadClock(s) PROVE TypeOK'
    <2>1. [op[s] EXCEPT !.at = "remember", !.now = clock] \in Call
      <3>1. op[s] \in Call
        BY <1>5, CallFacts DEF ReadClock, Doing
      <3>2. clock \in 0..clock
        BY <1>1
      <3> QED
        BY <3>1, <3>2 DEF Call
    <2>2. op' \in [Sender -> Call \cup {Idle}]
      BY <1>5, <2>1 DEF ReadClock, TypeOK
    <2> QED
      BY <1>5, <2>2 DEF ReadClock, TypeOK, Call
  <1>6. ASSUME NEW s \in Sender, Record(s) PROVE TypeOK'
    <2>1. op[s].channel \in Channel /\ op[s].now \in 0..clock
      BY <1>6, CallFacts DEF Record, Doing
    <2>2. recent' \in [Channel -> [Signature -> (0..clock) \cup {Never}]]
      BY <1>6, <2>1 DEF Record, TypeOK
    <2>3. op' \in [Sender -> Call \cup {Idle}]
      BY <1>6 DEF Record, TypeOK
    <2> QED
      BY <1>6, <2>2, <2>3 DEF Record, TypeOK, Call
  <1>7. CASE Tick
    <2>1. clock' \in 0..LastTime /\ 0..clock \subseteq 0..clock'
      BY <1>1, <1>7 DEF Tick
    <2>2. Call \subseteq Call'
      BY <2>1 DEF Call
    <2>3. recent \in [Channel -> [Signature -> (0..clock') \cup {Never}]]
      BY <2>1 DEF TypeOK
    <2> QED
      BY <1>7, <2>1, <2>2, <2>3 DEF Tick, TypeOK
  <1>8. CASE UNCHANGED vars
    BY <1>8 DEF vars, TypeOK, Call
  <1> QED
    BY <1>2, <1>3, <1>4, <1>5, <1>6, <1>7, <1>8 DEF Next
-----------------------------------------------------------------------------
(* One lemma per step. *)

\* What is known of the contents of a channel.
LEMMA ContentFacts ==
    ASSUME TypeOK, NEW c \in Channel, NEW g \in Signature
    PROVE  /\ posts[c][g] \in Seq(Nat)
           /\ Len(posts[c][g]) \in Nat
           /\ posts[c][g] # <<>> => Len(posts[c][g]) > 0 /\ Newest(c, g) \in Nat
           /\ recent[c][g] # Never => recent[c][g] \in 0..clock
           /\ clock \in Nat /\ Window \in Nat
  BY GatewayAssumption DEF TypeOK, Newest

\* A call begins.
LEMMA BeginStep ==
    ASSUME TypeOK, History, NEW s \in Sender, NEW c \in Channel, NEW x \in Content, Begin(s, c, x)
    PROVE  History'
  <1> USE DEF History
  <1> DEFINE f == DedupSignature(x)
  <1>1. /\ op[s].at = "idle"
        /\ op'[s].at = "check" /\ op'[s].channel = c /\ op'[s].signature = f
        /\ \A r \in Sender \ {s} : op'[r] = op[r]
        /\ UNCHANGED <<clock, recent, posts>>
    BY DEF Begin, Doing, TypeOK
  <1>2. /\ muddled \subseteq muddled'
        /\ \A r \in Sender \ {s} : Active(r, c, f) => <<c, f>> \in muddled'
    BY DEF Begin, Doing, Active
  <1>3. \A d \in Channel, g \in Signature : /\ Newest(d, g)' = Newest(d, g)
                                            /\ Clear(d, g)' => Clear(d, g)
                                            /\ Old(d, g)' = Old(d, g)
    BY <1>1, <1>2 DEF Newest, Clear, Old
  <1>4. Overlaps'
    BY <1>1, <1>2 DEF Overlaps, Active
  <1>5. Ordered' /\ RememberedWasPosted'
    <2>1. Ordered'
      BY <1>1 DEF Ordered, Newest
    <2>2. RememberedWasPosted'
      BY <1>1 DEF RememberedWasPosted
    <2> QED
      BY <2>1, <2>2
  <1>6. RepeatsNeedOverlap'
    BY <1>1, <1>2 DEF RepeatsNeedOverlap, Repeats
  <1>7. AboutToRecord'
    BY <1>1 DEF AboutToRecord, Active
  <1>8. Tracked'
    <2>1. ASSUME NEW d \in Channel, NEW g \in Signature, Clear(d, g)'
          PROVE  \/ \E r \in Sender : Active(r, d, g)' /\ op'[r].at \in {"posted", "remember"}
                 \/ recent'[d][g] # Never /\ recent'[d][g] >= Newest(d, g)
                 \/ Old(d, g)
      <3>1. ASSUME NEW r \in Sender, Active(r, d, g), op[r].at \in {"posted", "remember"}
            PROVE  Active(r, d, g)' /\ op'[r].at \in {"posted", "remember"}
        <4>1. r # s
          BY <1>1, <3>1 DEF Active
        <4> QED
          BY <1>1, <3>1, <4>1 DEF Active
      <3>2. Clear(d, g)
        BY <1>1, <1>2, <2>1 DEF Clear
      <3>3. \/ \E r \in Sender : Active(r, d, g) /\ op[r].at \in {"posted", "remember"}
            \/ recent[d][g] # Never /\ recent[d][g] >= Newest(d, g)
            \/ Old(d, g)
        BY <3>2 DEF Tracked
      <3> QED
        BY <1>1, <3>1, <3>3
    <2>2. ASSUME NEW r \in Sender, NEW d \in Channel, NEW g \in Signature,
                 Active(r, d, g)', Clear(d, g)'
          PROVE  /\ op'[r].at = "post" => Old(d, g)
                 /\ op'[r].at = "remember" => op'[r].now >= Newest(d, g)
      <3>1. CASE r # s
        <4>1. op'[r] = op[r] /\ Active(r, d, g) /\ Clear(d, g)
          BY <1>1, <1>2, <2>2, <3>1 DEF Active, Clear
        <4> QED
          BY <4>1 DEF Tracked
      <3> QED
        BY <1>1, <3>1
    <2> QED
      BY <1>1, <2>1, <2>2 DEF Tracked, Newest, Old
  <1> QED
    BY <1>4, <1>5, <1>6, <1>7, <1>8

\* A call looks its content up, and purges what is older than the window.
LEMMA LookUpStep ==
    ASSUME TypeOK, History, NEW s \in Sender, Suppress(s) \/ Pass(s)
    PROVE  History'
  <1> USE DEF History
  <1> DEFINE k == op[s]
  <1>1. /\ k.at = "check"
        /\ k.channel \in Channel /\ k.signature \in Signature /\ k.now \in 0..clock
    BY CallFacts DEF Suppress, Pass, Doing
  <1>2. /\ \A r \in Sender \ {s} : op'[r] = op[r]
        /\ UNCHANGED <<clock, posts, muddled>>
    BY DEF Suppress, Pass, TypeOK
  <1>3. \/ op'[s].at = "idle"
        \/ /\ op'[s].at = "post" /\ op'[s].channel = k.channel /\ op'[s].signature = k.signature
           /\ recent'[k.channel][k.signature] = Never
    <2>1. CASE Suppress(s)
      BY <2>1 DEF Suppress, TypeOK, Idle
    <2>2. CASE Pass(s)
      <3>1. op'[s] = [op[s] EXCEPT !.at = "post"]
        BY <2>2 DEF Pass, TypeOK
      <3>2. op[s] \in Call
        BY <1>1, CallFacts
      <3> QED
        BY <2>2, <3>1, <3>2 DEF Pass, Call
    <2> QED
      BY <2>1, <2>2
  <1>4. \A d \in Channel, g \in Signature :
           /\ recent'[d][g] \in {recent[d][g], Never}
           /\ recent[d][g] # Never /\ recent'[d][g] = Never => recent[d][g] < clock - Window
    <2>1. recent' = [recent EXCEPT ![k.channel] = Purged(k.channel, k.now)]
      BY DEF Suppress, Pass
    <2>2. \A g \in Signature :
            /\ Purged(k.channel, k.now)[g] \in {recent[k.channel][g], Never}
            /\ recent[k.channel][g] # Never /\ Purged(k.channel, k.now)[g] = Never
                  => recent[k.channel][g] < clock - Window
      BY <1>1, PurgeFacts
    <2> QED
      BY <1>1, <2>1, <2>2 DEF TypeOK
  <1>5. \A d \in Channel, g \in Signature : /\ Newest(d, g)' = Newest(d, g)
                                            /\ Clear(d, g)' = Clear(d, g)
                                            /\ Old(d, g)' = Old(d, g)
                                            /\ \A r \in Sender : Active(r, d, g)' => Active(r, d, g)
    BY <1>1, <1>2, <1>3 DEF Newest, Clear, Old, Active
  <1>6. Overlaps'
    BY <1>2, <1>5 DEF Overlaps
  <1>7. Ordered' /\ RepeatsNeedOverlap'
    BY <1>2, <1>5 DEF Ordered, RepeatsNeedOverlap, Repeats
  <1>8. AboutToRecord'
    BY <1>2, <1>3 DEF AboutToRecord, Active
  <1>9. RememberedWasPosted'
    BY <1>2, <1>4 DEF RememberedWasPosted
  <1>10. ASSUME NEW d \in Channel, NEW g \in Signature, Clear(d, g)'
         PROVE  \/ \E r \in Sender : Active(r, d, g)' /\ op'[r].at \in {"posted", "remember"}
                \/ recent'[d][g] # Never /\ recent'[d][g] >= Newest(d, g)
                \/ Old(d, g)
    <2>1. CASE \E r \in Sender : Active(r, d, g) /\ op[r].at \in {"posted", "remember"}
      BY <1>1, <1>2, <2>1 DEF Active
    <2>2. CASE recent[d][g] # Never /\ recent[d][g] >= Newest(d, g)
      BY <1>4, <1>5, <1>10, <2>2, ContentFacts DEF Old, Clear
    <2>3. CASE Old(d, g)
      BY <2>3
    <2> QED
      BY <1>5, <1>10, <2>1, <2>2, <2>3 DEF Tracked
  <1>11. ASSUME NEW r \in Sender, NEW d \in Channel, NEW g \in Signature,
                Active(r, d, g)', Clear(d, g)'
         PROVE  /\ op'[r].at = "post" => Old(d, g)
                /\ op'[r].at = "remember" => op'[r].now >= Newest(d, g)
    <2>1. CASE r # s
      BY <1>2, <1>5, <1>11, <2>1 DEF Tracked
    <2>2. CASE r = s
      <3> SUFFICES ASSUME op'[s].at = "post" PROVE Old(d, g)
        BY <1>3, <2>2 DEF Active
      <3>1. d = k.channel /\ g = k.signature /\ recent'[d][g] = Never
        BY <1>3, <1>11, <2>2 DEF Active
      <3>2. Active(s, d, g)
        BY <1>5, <1>11, <2>2
      <3>3. \A q \in Sender : Active(q, d, g)' => q = s
        BY <1>5, <1>11, <3>2 DEF Overlaps, Clear
      <3> QED
        BY <1>10, <1>11, <3>1, <3>3
    <2> QED
      BY <2>1, <2>2
  <1>12. Tracked'
    BY <1>5, <1>10, <1>11 DEF Tracked
  <1> QED
    BY <1>6, <1>7, <1>8, <1>9, <1>12

\* A post adds its time to its content's, and to no other's.
LEMMA PostedFacts ==
    ASSUME TypeOK, History, NEW s \in Sender, op[s].at = "post", Posted(op[s])
    PROVE  LET c == op[s].channel
               g == op[s].signature
               n == Len(posts[c][g])
           IN  /\ c \in Channel /\ g \in Signature /\ n \in Nat
               /\ posts'[c][g] \in Seq(Nat) /\ posts'[c][g] # <<>>
               /\ Len(posts'[c][g]) = n + 1
               /\ posts'[c][g][n + 1] = clock
               /\ \A i \in 1..n : posts'[c][g][i] = posts[c][g][i] /\ posts[c][g][i] <= clock
               /\ \A d \in Channel, f \in Signature :
                     <<d, f>> # <<c, g>> => posts'[d][f] = posts[d][f]
  <1> DEFINE c == op[s].channel
             g == op[s].signature
             n == Len(posts[c][g])
  <1>1. c \in Channel /\ g \in Signature
    BY CallFacts
  <1>2. posts[c][g] \in Seq(Nat) /\ clock \in Nat /\ n \in Nat
    BY <1>1, ContentFacts
  <1>3. posts'[c][g] = Append(posts[c][g], clock)
    BY <1>1 DEF Posted, TypeOK
  <1>4. \A d \in Channel, f \in Signature :
           <<d, f>> # <<c, g>> => posts'[d][f] = posts[d][f]
    BY <1>1 DEF Posted, TypeOK
  <1>5. \A i \in 1..n : posts[c][g][i] <= clock
    <2> TAKE i \in 1..n
    <2>1. posts[c][g][i] <= Newest(c, g) /\ Newest(c, g) <= clock
      BY <1>1 DEF History, Ordered
    <2>2. posts[c][g][i] \in Nat /\ posts[c][g] # <<>>
      BY <1>2, EntryFacts
    <2>3. Newest(c, g) \in Nat
      BY <1>1, <2>2, ContentFacts
    <2> QED
      BY <1>2, <2>1, <2>2, <2>3
  <1>6. /\ posts'[c][g] \in Seq(Nat) /\ posts'[c][g] # <<>>
        /\ Len(posts'[c][g]) = n + 1
        /\ posts'[c][g][n + 1] = clock
        /\ \A i \in 1..n : posts'[c][g][i] = posts[c][g][i]
    <2> DEFINE p == posts[c][g]
    <2>1. /\ Append(p, clock) \in Seq(Nat)
          /\ Append(p, clock) # <<>>
          /\ Len(Append(p, clock)) = Len(p) + 1
          /\ Append(p, clock)[Len(p) + 1] = clock
          /\ \A i \in 1..Len(p) : Append(p, clock)[i] = p[i]
      <3>1. p \in Seq(Nat)
        BY <1>2
      <3> HIDE DEF p
      <3> QED
        BY <1>2, <3>1, PostFacts
    <2> QED
      BY <1>3, <2>1
  <1> QED
    BY <1>1, <1>2, <1>4, <1>5, <1>6

\* The message is posted, and the answer comes or is lost.
LEMMA PostStep ==
    ASSUME TypeOK, History, NEW s \in Sender, PostSucceeds(s) \/ AnswerLost(s)
    PROVE  History'
  <1> DEFINE c == op[s].channel
             g == op[s].signature
             n == Len(posts[c][g])
  <1>1. op[s].at = "post" /\ Posted(op[s])
    BY DEF PostSucceeds, AnswerLost, Doing
  <1>2. /\ c \in Channel /\ g \in Signature /\ n \in Nat /\ n = Len(posts[c][g])
        /\ posts'[c][g] \in Seq(Nat) /\ posts'[c][g] # <<>>
        /\ Len(posts'[c][g]) = n + 1
        /\ posts'[c][g][n + 1] = clock
        /\ \A i \in 1..n : posts'[c][g][i] = posts[c][g][i] /\ posts[c][g][i] <= clock
        /\ \A d \in Channel, f \in Signature :
              <<d, f>> # <<c, g>> => posts'[d][f] = posts[d][f]
    BY <1>1, PostedFacts
  <1>3. /\ \A r \in Sender \ {s} : op'[r] = op[r]
        /\ UNCHANGED <<clock, recent>>
        /\ muddled \subseteq muddled'
    BY DEF PostSucceeds, AnswerLost, TypeOK
  <1>4. \/ op'[s].at = "posted" /\ op'[s].channel = c /\ op'[s].signature = g
        \/ op'[s].at = "idle" /\ <<c, g>> \in muddled'
    <2>1. CASE PostSucceeds(s)
      <3>1. op[s] \in Call /\ op'[s] = [op[s] EXCEPT !.at = "posted"]
        BY <1>1, <2>1, CallFacts DEF PostSucceeds, TypeOK
      <3> QED
        BY <3>1 DEF Call
    <2>2. CASE AnswerLost(s)
      BY <2>2 DEF AnswerLost, TypeOK, Idle
    <2> QED
      BY <2>1, <2>2
  <1>5. clock \in Nat /\ Window \in Nat
    BY <1>2, ContentFacts
  <1>6. Active(s, c, g)
    BY <1>1 DEF Active
  <1>7. \A r \in Sender, d \in Channel, f \in Signature : Active(r, d, f)' => Active(r, d, f)
    BY <1>1, <1>3, <1>4 DEF Active
  <1>8. <<c, g>> \notin muddled => \A r \in Sender \ {s} : ~Active(r, c, g)
    BY <1>2, <1>6 DEF History, Overlaps
  <1> HIDE DEF c, g, n
  <1>9. Overlaps'
    BY <1>3, <1>7 DEF History, Overlaps
  <1>10. Ordered'
    <2> SUFFICES ASSUME NEW d \in Channel, NEW f \in Signature, NEW i \in 1..Len(posts'[d][f])
                 PROVE  /\ posts'[d][f][i] <= posts'[d][f][Len(posts'[d][f])]
                        /\ posts'[d][f][Len(posts'[d][f])] <= clock
      BY <1>3 DEF Ordered, Newest
    <2>1. CASE d = c /\ f = g
      <3>1. i \in 1..n \/ i = n + 1
        <4>1. i \in 1..(n + 1) /\ n \in Nat
          BY <1>2, <2>1
        <4> QED
          BY <4>1
      <3>2. posts'[d][f][Len(posts'[d][f])] = clock
        BY <1>2, <2>1
      <3>3. posts'[d][f][i] <= clock
        <4>1. CASE i \in 1..n
          BY <1>2, <2>1, <4>1
        <4>2. CASE i = n + 1
          BY <1>2, <1>5, <2>1, <4>2
        <4> QED
          BY <3>1, <4>1, <4>2
      <3> QED
        BY <1>5, <3>2, <3>3
    <2>2. CASE ~(d = c /\ f = g)
      BY <1>2, <2>2 DEF History, Ordered, Newest
    <2> QED
      BY <2>1, <2>2
  <1>11. AboutToRecord'
    <2> SUFFICES ASSUME NEW r \in Sender, NEW d \in Channel, NEW f \in Signature,
                        Active(r, d, f)'
                 PROVE  /\ op'[r].at = "posted" => posts'[d][f] # <<>>
                        /\ op'[r].at = "remember" =>
                             \E i \in 1..Len(posts'[d][f]) : posts'[d][f][i] <= op'[r].now
      BY DEF AboutToRecord
    <2>1. CASE r = s
      BY <1>2, <1>4, <2>1 DEF Active
    <2>2. CASE r # s
      <3>1. /\ op'[r] = op[r]
            /\ op[r].at = "posted" => posts[d][f] # <<>>
            /\ op[r].at = "remember" =>
                 \E i \in 1..Len(posts[d][f]) : posts[d][f][i] <= op[r].now
        BY <1>3, <1>7, <2>2 DEF History, AboutToRecord
      <3>2. CASE <<d, f>> = <<c, g>>
        BY <1>2, <3>1, <3>2
      <3>3. CASE <<d, f>> # <<c, g>>
        BY <1>2, <3>1, <3>3
      <3> QED
        BY <3>2, <3>3
    <2> QED
      BY <2>1, <2>2
  <1>12. RememberedWasPosted'
    <2> SUFFICES ASSUME NEW d \in Channel, NEW f \in Signature, recent[d][f] # Never
                 PROVE  \E i \in 1..Len(posts'[d][f]) : posts'[d][f][i] <= recent[d][f]
      BY <1>3 DEF RememberedWasPosted
    <2>1. PICK i \in 1..Len(posts[d][f]) : posts[d][f][i] <= recent[d][f]
      BY DEF History, RememberedWasPosted
    <2>2. CASE <<d, f>> = <<c, g>>
      BY <1>2, <2>1, <2>2
    <2>3. CASE <<d, f>> # <<c, g>>
      BY <1>2, <2>1, <2>3
    <2> QED
      BY <2>2, <2>3
  <1>13. ASSUME NEW d \in Channel, NEW f \in Signature, <<d, f>> # <<c, g>>
         PROVE  /\ posts'[d][f] = posts[d][f]
                /\ Clear(d, f)' => Clear(d, f)
                /\ Newest(d, f)' = Newest(d, f)
                /\ Old(d, f)' = Old(d, f)
    BY <1>2, <1>3, <1>13 DEF Clear, Newest, Old
  <1>14. RepeatsNeedOverlap'
    <2> SUFFICES ASSUME NEW d \in Channel, NEW f \in Signature, <<d, f>> \notin muddled',
                        NEW i \in 1..Len(posts'[d][f]), NEW j \in 1..Len(posts'[d][f]), i < j
                 PROVE  ~(posts'[d][f][j] - posts'[d][f][i] <= Window)
      BY DEF RepeatsNeedOverlap, Repeats
    <2>1. ~Repeats(d, f)
      BY <1>3 DEF History, RepeatsNeedOverlap
    <2>2. CASE ~(d = c /\ f = g)
      BY <1>13, <2>1, <2>2 DEF Repeats
    <2>3. CASE d = c /\ f = g /\ j <= n
      <3>1. i \in 1..n /\ j \in 1..n
        <4>1. i \in 1..(n + 1) /\ j \in 1..(n + 1) /\ n \in Nat
          BY <1>2, <2>3
        <4> QED
          BY <2>3, <4>1
      <3>2. posts'[d][f][i] = posts[c][g][i] /\ posts'[d][f][j] = posts[c][g][j]
        BY <1>2, <2>3, <3>1
      <3>3. ~(posts[c][g][j] - posts[c][g][i] <= Window)
        BY <1>2, <2>1, <2>3, <3>1 DEF Repeats
      <3> QED
        BY <3>2, <3>3
    <2>4. CASE d = c /\ f = g /\ j = n + 1
      <3>1. i \in 1..n /\ posts[c][g] # <<>> /\ posts[c][g] \in Seq(Nat)
        <4>1. i \in 1..(n + 1) /\ n \in Nat /\ posts[c][g] \in Seq(Nat)
          BY <1>2, <2>4, ContentFacts
        <4>2. i \in 1..n
          BY <2>4, <4>1
        <4> QED
          BY <1>2, <4>1, <4>2, EntryFacts
      <3>2. Clear(c, g)
        BY <1>3, <2>4, <3>1 DEF Clear
      <3>3. Newest(c, g) < clock - Window
        BY <1>1, <1>2, <1>6, <3>2 DEF History, Tracked, Old
      <3>4. posts[c][g][i] <= Newest(c, g)
        BY <1>2, <3>1 DEF History, Ordered
      <3>5. posts[c][g][i] \in Nat /\ Newest(c, g) \in Nat
        BY <1>2, <3>1, ContentFacts, EntryFacts
      <3>6. posts'[d][f][i] = posts[c][g][i] /\ posts'[d][f][j] = clock
        BY <1>2, <2>4, <3>1
      <3>7. ~(clock - posts[c][g][i] <= Window)
        BY <1>5, <3>3, <3>4, <3>5
      <3> QED
        BY <3>6, <3>7
    <2>5. ASSUME d = c, f = g PROVE j <= n \/ j = n + 1
      <3>1. j \in 1..(n + 1) /\ n \in Nat
        BY <1>2, <2>5
      <3> QED
        BY <3>1
    <2> QED
      BY <2>2, <2>3, <2>4, <2>5
  <1>15. Tracked'
    <2>1. ASSUME NEW d \in Channel, NEW f \in Signature, Clear(d, f)'
          PROVE  \/ \E r \in Sender : Active(r, d, f)' /\ op'[r].at \in {"posted", "remember"}
                 \/ recent'[d][f] # Never /\ recent'[d][f] >= Newest(d, f)'
                 \/ Old(d, f)'
      <3>1. CASE <<d, f>> = <<c, g>>
        BY <1>4, <2>1, <3>1 DEF Active, Clear
      <3>2. CASE <<d, f>> # <<c, g>>
        <4>1. Clear(d, f)
          BY <1>13, <2>1, <3>2
        <4>2. ASSUME NEW r \in Sender, Active(r, d, f)
              PROVE  Active(r, d, f)' /\ op'[r] = op[r]
          BY <1>3, <1>6, <3>2, <4>2 DEF Active
        <4>3. \/ \E r \in Sender : Active(r, d, f) /\ op[r].at \in {"posted", "remember"}
              \/ recent[d][f] # Never /\ recent[d][f] >= Newest(d, f)
              \/ Old(d, f)
          BY <4>1 DEF History, Tracked
        <4> QED
          BY <1>3, <1>13, <3>2, <4>2, <4>3
      <3> QED
        BY <3>1, <3>2
    <2>2. ASSUME NEW r \in Sender, NEW d \in Channel, NEW f \in Signature,
                 Active(r, d, f)', Clear(d, f)'
          PROVE  /\ op'[r].at = "post" => Old(d, f)'
                 /\ op'[r].at = "remember" => op'[r].now >= Newest(d, f)'
      <3>1. CASE r = s
        BY <1>4, <3>1
      <3>2. CASE r # s /\ <<d, f>> # <<c, g>>
        <4>1. op'[r] = op[r] /\ Active(r, d, f) /\ Clear(d, f)
          BY <1>3, <1>7, <1>13, <2>2, <3>2
        <4> QED
          BY <1>13, <3>2, <4>1 DEF History, Tracked
      <3>3. CASE r # s /\ <<d, f>> = <<c, g>>
        <4>1. Active(r, c, g) /\ <<c, g>> \notin muddled
          BY <1>3, <1>7, <2>2, <3>3 DEF Clear
        <4> QED
          BY <1>8, <3>3, <4>1
      <3> QED
        BY <3>1, <3>2, <3>3
    <2> QED
      BY <2>1, <2>2 DEF Tracked
  <1> QED
    BY <1>9, <1>10, <1>11, <1>12, <1>14, <1>15 DEF History

\* The post fails and the call returns its error.
LEMMA FailStep ==
    ASSUME TypeOK, History, NEW s \in Sender, PostFails(s)
    PROVE  History'
  <1> USE DEF History
  <1>1. /\ op[s].at = "post" /\ op'[s].at = "idle"
        /\ \A r \in Sender \ {s} : op'[r] = op[r]
        /\ UNCHANGED <<clock, recent, posts, muddled>>
    BY DEF PostFails, Doing, TypeOK, Idle
  <1>2. \A d \in Channel, g \in Signature : /\ Newest(d, g)' = Newest(d, g)
                                            /\ Clear(d, g)' = Clear(d, g)
                                            /\ Old(d, g)' = Old(d, g)
    BY <1>1 DEF Newest, Clear, Old
  <1>3. \A r \in Sender, d \in Channel, g \in Signature :
           /\ Active(r, d, g)' => r # s /\ Active(r, d, g)
           /\ r # s /\ Active(r, d, g) => Active(r, d, g)'
    BY <1>1 DEF Active
  <1>4. Overlaps'
    BY <1>1, <1>3 DEF Overlaps
  <1>5. Ordered'
    BY <1>1, <1>2 DEF Ordered
  <1>6. RememberedWasPosted' /\ RepeatsNeedOverlap'
    BY <1>1 DEF RememberedWasPosted, RepeatsNeedOverlap, Repeats
  <1>7. AboutToRecord'
    BY <1>1, <1>3 DEF AboutToRecord
  <1>8. Tracked'
    <2>1. ASSUME NEW d \in Channel, NEW g \in Signature, Clear(d, g)'
          PROVE  \/ \E r \in Sender : Active(r, d, g)' /\ op'[r].at \in {"posted", "remember"}
                 \/ recent'[d][g] # Never /\ recent'[d][g] >= Newest(d, g)
                 \/ Old(d, g)
      <3>1. \/ \E r \in Sender : Active(r, d, g) /\ op[r].at \in {"posted", "remember"}
            \/ recent[d][g] # Never /\ recent[d][g] >= Newest(d, g)
            \/ Old(d, g)
        BY <1>2, <2>1 DEF Tracked
      <3> QED
        BY <1>1, <1>3, <3>1
    <2>2. ASSUME NEW r \in Sender, NEW d \in Channel, NEW g \in Signature,
                 Active(r, d, g)', Clear(d, g)'
          PROVE  /\ op'[r].at = "post" => Old(d, g)
                 /\ op'[r].at = "remember" => op'[r].now >= Newest(d, g)
      BY <1>1, <1>2, <1>3, <2>2 DEF Tracked
    <2> QED
      BY <1>2, <2>1, <2>2 DEF Tracked
  <1> QED
    BY <1>4, <1>5, <1>6, <1>7, <1>8

\* The call reads the time it will record: not before its own post.
LEMMA ReadClockStep ==
    ASSUME TypeOK, History, NEW s \in Sender, ReadClock(s)
    PROVE  History'
  <1> USE DEF History
  <1>1. /\ op[s].at = "posted"
        /\ op'[s].at = "remember" /\ op'[s].now = clock
        /\ op'[s].channel = op[s].channel /\ op'[s].signature = op[s].signature
    <2>1. op[s].at = "posted" /\ op'[s] = [op[s] EXCEPT !.at = "remember", !.now = clock]
      BY DEF ReadClock, Doing, TypeOK
    <2>2. op[s] \in Call
      BY <2>1, CallFacts
    <2> QED
      BY <2>1, <2>2 DEF Call
  <1>2. /\ \A r \in Sender \ {s} : op'[r] = op[r]
        /\ UNCHANGED <<clock, recent, posts, muddled>>
    BY DEF ReadClock, TypeOK
  <1>3. \A d \in Channel, g \in Signature : /\ Newest(d, g)' = Newest(d, g)
                                            /\ Clear(d, g)' = Clear(d, g)
                                            /\ Old(d, g)' = Old(d, g)
                                            /\ \A r \in Sender : Active(r, d, g)' = Active(r, d, g)
    BY <1>1, <1>2 DEF Newest, Clear, Old, Active
  <1>4. Overlaps'
    BY <1>2, <1>3 DEF Overlaps
  <1>5. Ordered'
    BY <1>2, <1>3 DEF Ordered
  <1>6. RememberedWasPosted' /\ RepeatsNeedOverlap'
    BY <1>2 DEF RememberedWasPosted, RepeatsNeedOverlap, Repeats
  <1>7. ASSUME NEW d \in Channel, NEW g \in Signature, posts[d][g] # <<>>
        PROVE  /\ \E i \in 1..Len(posts[d][g]) : posts[d][g][i] <= clock
               /\ Newest(d, g) \in Nat /\ Newest(d, g) <= clock
    <2>1. Len(posts[d][g]) \in Nat /\ Len(posts[d][g]) > 0 /\ Newest(d, g) \in Nat
      BY <1>7, ContentFacts
    <2>2. Len(posts[d][g]) \in 1..Len(posts[d][g])
      BY <2>1
    <2> QED
      BY <2>1, <2>2 DEF Ordered, Newest
  <1>8. AboutToRecord'
    <2> SUFFICES ASSUME NEW r \in Sender, NEW d \in Channel, NEW g \in Signature,
                        Active(r, d, g)
                 PROVE  /\ op'[r].at = "posted" => posts[d][g] # <<>>
                        /\ op'[r].at = "remember" =>
                             \E i \in 1..Len(posts[d][g]) : posts[d][g][i] <= op'[r].now
      BY <1>2, <1>3 DEF AboutToRecord
    <2>1. CASE r # s
      BY <1>2, <2>1 DEF AboutToRecord
    <2>2. CASE r = s
      BY <1>1, <1>7, <2>2 DEF AboutToRecord
    <2> QED
      BY <2>1, <2>2
  <1>9. Tracked'
    <2>1. ASSUME NEW d \in Channel, NEW g \in Signature, Clear(d, g)'
          PROVE  \/ \E r \in Sender : Active(r, d, g)' /\ op'[r].at \in {"posted", "remember"}
                 \/ recent'[d][g] # Never /\ recent'[d][g] >= Newest(d, g)
                 \/ Old(d, g)
      <3>1. \/ \E r \in Sender : Active(r, d, g) /\ op[r].at \in {"posted", "remember"}
            \/ recent[d][g] # Never /\ recent[d][g] >= Newest(d, g)
            \/ Old(d, g)
        BY <1>3, <2>1 DEF Tracked
      <3>2. ASSUME NEW r \in Sender, op[r].at \in {"posted", "remember"}
            PROVE  op'[r].at \in {"posted", "remember"}
        BY <1>1, <1>2, <3>2
      <3> QED
        BY <1>2, <1>3, <3>1, <3>2
    <2>2. ASSUME NEW r \in Sender, NEW d \in Channel, NEW g \in Signature,
                 Active(r, d, g)', Clear(d, g)'
          PROVE  /\ op'[r].at = "post" => Old(d, g)
                 /\ op'[r].at = "remember" => op'[r].now >= Newest(d, g)
      <3>1. Active(r, d, g) /\ Clear(d, g) /\ posts[d][g] # <<>>
        BY <1>3, <2>2 DEF Clear
      <3>2. CASE r # s
        BY <1>2, <3>1, <3>2 DEF Tracked
      <3>3. CASE r = s
        BY <1>1, <1>7, <3>1, <3>3, ContentFacts
      <3> QED
        BY <3>2, <3>3
    <2> QED
      BY <1>3, <2>1, <2>2 DEF Tracked
  <1> QED
    BY <1>4, <1>5, <1>6, <1>8, <1>9

\* The call records its time.
LEMMA RecordStep ==
    ASSUME TypeOK, History, NEW s \in Sender, Record(s)
    PROVE  History'
  <1> USE DEF History
  <1> DEFINE c == op[s].channel
             g == op[s].signature
             now == op[s].now
  <1>1. /\ op[s].at = "remember" /\ op'[s].at = "idle"
        /\ \A r \in Sender \ {s} : op'[r] = op[r]
        /\ UNCHANGED <<clock, posts, muddled>>
    BY DEF Record, Doing, TypeOK, Idle
  <1>2. c \in Channel /\ g \in Signature /\ now \in 0..clock /\ now # Never /\ Active(s, c, g)
    <2>1. c \in Channel /\ g \in Signature /\ now \in 0..clock /\ Active(s, c, g)
      BY <1>1, CallFacts DEF Active
    <2>2. clock \in Nat
      BY <2>1, ContentFacts
    <2> QED
      BY <2>1, <2>2, GatewayAssumption
  <1>3. /\ recent'[c][g] = now
        /\ \A d \in Channel, f \in Signature : ~(d = c /\ f = g) => recent'[d][f] = recent[d][f]
    BY <1>2 DEF Record, TypeOK
  <1>4. \A d \in Channel, f \in Signature : /\ Newest(d, f)' = Newest(d, f)
                                            /\ Clear(d, f)' = Clear(d, f)
                                            /\ Old(d, f)' = Old(d, f)
    BY <1>1 DEF Newest, Clear, Old
  <1>5. \A r \in Sender, d \in Channel, f \in Signature :
           /\ Active(r, d, f)' => r # s /\ Active(r, d, f)
           /\ r # s /\ Active(r, d, f) => Active(r, d, f)'
    BY <1>1 DEF Active
  <1>6. Overlaps'
    BY <1>1, <1>5 DEF Overlaps
  <1>7. Ordered' /\ RepeatsNeedOverlap'
    <2>1. Ordered'
      BY <1>1, <1>4 DEF Ordered
    <2>2. RepeatsNeedOverlap'
      BY <1>1 DEF RepeatsNeedOverlap, Repeats
    <2> QED
      BY <2>1, <2>2
  <1>8. AboutToRecord'
    BY <1>1, <1>5 DEF AboutToRecord
  <1>9. RememberedWasPosted'
    <2> SUFFICES ASSUME NEW d \in Channel, NEW f \in Signature, recent'[d][f] # Never
                 PROVE  \E i \in 1..Len(posts[d][f]) : posts[d][f][i] <= recent'[d][f]
      BY <1>1 DEF RememberedWasPosted
    <2>1. CASE d = c /\ f = g
      BY <1>1, <1>2, <1>3, <2>1 DEF AboutToRecord
    <2>2. CASE ~(d = c /\ f = g)
      BY <1>3, <2>2 DEF RememberedWasPosted
    <2> QED
      BY <2>1, <2>2
  <1>10. Tracked'
    <2>1. ASSUME NEW d \in Channel, NEW f \in Signature, Clear(d, f)'
          PROVE  \/ \E r \in Sender : Active(r, d, f)' /\ op'[r].at \in {"posted", "remember"}
                 \/ recent'[d][f] # Never /\ recent'[d][f] >= Newest(d, f)
                 \/ Old(d, f)
      <3>1. Clear(d, f)
        BY <1>4, <2>1
      <3>2. CASE d = c /\ f = g
        BY <1>1, <1>2, <1>3, <3>1, <3>2 DEF Tracked
      <3>3. CASE ~(d = c /\ f = g)
        <4>1. \/ \E r \in Sender : Active(r, d, f) /\ op[r].at \in {"posted", "remember"}
              \/ recent[d][f] # Never /\ recent[d][f] >= Newest(d, f)
              \/ Old(d, f)
          BY <3>1 DEF Tracked
        <4>2. ASSUME NEW r \in Sender, Active(r, d, f)
              PROVE  Active(r, d, f)' /\ op'[r] = op[r]
          BY <1>1, <1>5, <3>3, <4>2 DEF Active
        <4> QED
          BY <1>3, <3>3, <4>1, <4>2
      <3> QED
        BY <3>2, <3>3
    <2>2. ASSUME NEW r \in Sender, NEW d \in Channel, NEW f \in Signature,
                 Active(r, d, f)', Clear(d, f)'
          PROVE  /\ op'[r].at = "post" => Old(d, f)
                 /\ op'[r].at = "remember" => op'[r].now >= Newest(d, f)
      BY <1>1, <1>4, <1>5, <2>2 DEF Tracked
    <2> QED
      BY <1>4, <2>1, <2>2 DEF Tracked
  <1> QED
    BY <1>6, <1>7, <1>8, <1>9, <1>10

\* Time goes on: what is old stays old.
LEMMA TickStep ==
    ASSUME TypeOK, History, Tick
    PROVE  History'
  <1> USE DEF History
  <1>1. clock \in Nat /\ clock' = clock + 1 /\ Window \in Nat
    BY GatewayAssumption DEF Tick, TypeOK
  <1>2. UNCHANGED <<op, recent, posts, muddled, begun>>
    BY DEF Tick
  <1>3. \A d \in Channel, f \in Signature :
           /\ Newest(d, f)' = Newest(d, f)
           /\ Clear(d, f)' = Clear(d, f)
           /\ \A r \in Sender : Active(r, d, f)' = Active(r, d, f)
    BY <1>2 DEF Newest, Clear, Active
  <1>4. ASSUME NEW d \in Channel, NEW f \in Signature, Clear(d, f), Old(d, f)
        PROVE  Old(d, f)'
    <2>1. Newest(d, f) \in Nat
      BY <1>4, ContentFacts DEF Clear
    <2> QED
      BY <1>1, <1>3, <1>4, <2>1 DEF Old
  <1>5. Overlaps'
    BY <1>2, <1>3 DEF Overlaps
  <1>6. Ordered'
    <2> SUFFICES ASSUME NEW d \in Channel, NEW f \in Signature, NEW i \in 1..Len(posts[d][f])
                 PROVE  posts[d][f][i] <= Newest(d, f) /\ Newest(d, f) <= clock'
      BY <1>2, <1>3 DEF Ordered
    <2>1. posts[d][f][i] <= Newest(d, f) /\ Newest(d, f) <= clock
      BY DEF Ordered
    <2>2. Newest(d, f) \in Nat
      BY ContentFacts, EntryFacts
    <2> QED
      BY <1>1, <2>1, <2>2
  <1>7. RememberedWasPosted' /\ RepeatsNeedOverlap'
    BY <1>2 DEF RememberedWasPosted, RepeatsNeedOverlap, Repeats
  <1>8. AboutToRecord'
    BY <1>2, <1>3 DEF AboutToRecord
  <1>9. Tracked'
    BY <1>2, <1>3, <1>4 DEF Tracked
  <1> QED
    BY <1>5, <1>6, <1>7, <1>8, <1>9

LEMMA Induction == Spec => [](TypeOK /\ History)
  <1>1. Init => TypeOK /\ History
    <2> SUFFICES ASSUME Init PROVE TypeOK /\ History
      OBVIOUS
    <2>1. TypeOK
      BY GatewayAssumption DEF Init, TypeOK
    <2>2. /\ \A c \in Channel, g \in Signature : posts[c][g] = <<>> /\ recent[c][g] = Never
          /\ \A s \in Sender, c \in Channel, g \in Signature : ~Active(s, c, g)
      BY DEF Init, Active, Idle
    <2>3. Overlaps /\ AboutToRecord /\ Tracked
      BY <2>2 DEF Overlaps, AboutToRecord, Tracked, Clear
    <2>4. Ordered /\ RememberedWasPosted /\ RepeatsNeedOverlap
      <3>1. \A c \in Channel, g \in Signature : 1..Len(posts[c][g]) = {}
        BY <2>2
      <3> QED
        BY <2>2, <3>1 DEF Ordered, RememberedWasPosted, RepeatsNeedOverlap, Repeats
    <2> QED
      BY <2>1, <2>3, <2>4 DEF History
  <1>2. TypeOK /\ History /\ [Next]_vars => (TypeOK /\ History)'
    <2> SUFFICES ASSUME TypeOK, History, [Next]_vars PROVE TypeOK' /\ History'
      OBVIOUS
    <2>1. TypeOK'
      BY TypeStep
    <2>2. ASSUME NEW s \in Sender, NEW c \in Channel, NEW x \in Content, Begin(s, c, x)
          PROVE  History'
      BY <2>2, BeginStep
    <2>3. ASSUME NEW s \in Sender, Suppress(s) \/ Pass(s) PROVE History'
      BY <2>3, LookUpStep
    <2>4. ASSUME NEW s \in Sender, PostSucceeds(s) \/ AnswerLost(s) PROVE History'
      BY <2>4, PostStep
    <2>5. ASSUME NEW s \in Sender, PostFails(s) PROVE History'
      BY <2>5, FailStep
    <2>6. ASSUME NEW s \in Sender, ReadClock(s) PROVE History'
      BY <2>6, ReadClockStep
    <2>7. ASSUME NEW s \in Sender, Record(s) PROVE History'
      BY <2>7, RecordStep
    <2>8. ASSUME Tick PROVE History'
      BY <2>8, TickStep
    <2>9. ASSUME UNCHANGED vars PROVE History'
      <3>1. UNCHANGED <<clock, op, recent, posts, muddled>>
        BY <2>9 DEF vars
      <3>2. Overlaps' /\ AboutToRecord'
        BY <3>1 DEF History, Overlaps, AboutToRecord, Active
      <3>3. Ordered'
        BY <3>1 DEF History, Ordered, Newest
      <3>4. Tracked'
        BY <3>1 DEF History, Tracked, Active, Clear, Old, Newest
      <3>5. RememberedWasPosted' /\ RepeatsNeedOverlap'
        BY <3>1 DEF History, RememberedWasPosted, RepeatsNeedOverlap, Repeats
      <3> QED
        BY <3>2, <3>3, <3>4, <3>5 DEF History
    <2> QED
      BY <2>1, <2>2, <2>3, <2>4, <2>5, <2>6, <2>7, <2>8, <2>9 DEF Next
  <1> QED
    BY <1>1, <1>2, PTL DEF Spec
-----------------------------------------------------------------------------

\* The variables have their types: no time that a call or the map holds is
\* later than the clock.
THEOREM GatewayTypes == Spec => []TypeOK
  BY Induction, PTL

\* What is remembered was posted: a failed post suppresses nothing.
THEOREM NothingElseIsRemembered == Spec => []RememberedWasPosted
  <1>1. TypeOK /\ History => RememberedWasPosted
    BY DEF History
  <1> QED
    BY <1>1, Induction, PTL

\* A content is posted twice within the window only if calls for it overlapped or
\* the answer to a post was lost: the look-up, the post and the record are three
\* steps, and two calls one after the other are caught none the less.
THEOREM RepeatsTakeOverlap == Spec => []RepeatsNeedOverlap
  <1>1. TypeOK /\ History => RepeatsNeedOverlap
    BY DEF History
  <1> QED
    BY <1>1, Induction, PTL

\* The purge of stale entries forgets nothing that is still within the window.
THEOREM NewestIsKept == Spec => []NewestIsRemembered
  <1>1. TypeOK /\ History => NewestIsRemembered
    <2> SUFFICES ASSUME TypeOK, Tracked, NEW c \in Channel, NEW g \in Signature,
                        \A s \in Sender : Doing(s, "idle"),
                        <<c, g>> \notin muddled, Len(posts[c][g]) > 0,
                        Newest(c, g) >= clock - Window
                 PROVE  recent[c][g] # Never /\ recent[c][g] >= Newest(c, g)
      BY DEF History, NewestIsRemembered, Newest
    <2>1. posts[c][g] # <<>>
      OBVIOUS
    <2>2. Clear(c, g)
      BY <2>1 DEF Clear
    <2>3. \A s \in Sender : ~Active(s, c, g)
      BY DEF Active, Doing
    <2>4. ~Old(c, g)
      BY <2>1, ContentFacts DEF Old
    <2> QED
      BY <2>2, <2>3, <2>4 DEF Tracked
  <1> QED
    BY <1>1, Induction, PTL

-----------------------------------------------------------------------------
(* The typing loops, for any number of calls. *)

Loop == [channel : Channel, stage : {"showing", "leaving", "gone"},
         cancelled : BOOLEAN, overlaps : BOOLEAN]

TypingTypeOK == /\ loops \in Seq(Loop)
                /\ typingStops \in [Channel -> Nat]

\* What overlaps says: without it every older loop of the channel has ended, its
\* delete included.
OlderAreGone ==
    \A l, k \in DOMAIN loops :
        /\ k < l
        /\ loops[k].channel = loops[l].channel
        /\ ~loops[l].overlaps
        => loops[k].stage = "gone"

TypingInv == TypingTypeOK /\ StopIsNewest /\ OlderAreGone /\ OthersAreStopped

-----------------------------------------------------------------------------

\* What StartTyping leaves: the loops there were, one of them cancelled, and the
\* new one.
LEMMA AfterStart ==
    ASSUME TypingTypeOK, NEW c \in Channel, StartTyping(c)
    PROVE  /\ TypingTypeOK'
           /\ Len(loops) \in Nat
           /\ DOMAIN loops = 1..Len(loops)
           /\ DOMAIN loops' = 1..(Len(loops) + 1)
           /\ loops'[Len(loops) + 1] = NewLoop(c)
           /\ \A l \in DOMAIN loops :
                /\ loops'[l].channel = loops[l].channel
                /\ loops'[l].stage = loops[l].stage
                /\ loops'[l].overlaps = loops[l].overlaps
                /\ loops'[l].cancelled <=> loops[l].cancelled \/ l = typingStops[c]
  <1> DEFINE s == Stopped(typingStops[c])
  <1>1. Len(loops) \in Nat /\ DOMAIN loops = 1..Len(loops)
    BY DEF TypingTypeOK
  <1>2. \A l \in 1..Len(loops) : loops[l] \in Loop
    BY DEF TypingTypeOK
  <1>3. \A l \in 1..Len(loops) : [loops[l] EXCEPT !.cancelled = TRUE] \in Loop
    BY <1>2 DEF Loop
  <1>4. s \in [1..Len(loops) -> Loop]
    BY <1>1, <1>2, <1>3 DEF Stopped
  <1>5. s \in Seq(Loop) /\ Len(s) = Len(loops)
    <2>1. DOMAIN s = 1..Len(loops)
      BY <1>4
    <2>2. s \in Seq(Loop)
      BY <1>1, <1>4, IsASeq
    <2> QED
      BY ONLY <1>1, <2>1, <2>2, LenProperties
  <1>6. NewLoop(c) \in Loop
    BY DEF NewLoop, Loop
  <1>7. loops' = Append(s, NewLoop(c)) /\ typingStops' = [typingStops EXCEPT ![c] = Len(loops) + 1]
    BY DEF StartTyping
  <1>8. /\ loops' \in Seq(Loop)
        /\ Len(loops') = Len(loops) + 1
        /\ \A l \in 1..Len(loops) : loops'[l] = s[l]
        /\ loops'[Len(loops) + 1] = NewLoop(c)
    <2> HIDE DEF s
    <2> QED
      BY ONLY <1>1, <1>5, <1>6, <1>7, AppendProperties
  <1>9. TypingTypeOK'
    BY <1>1, <1>7, <1>8 DEF TypingTypeOK
  <1>10. ASSUME NEW l \in 1..Len(loops)
         PROVE  /\ loops'[l].channel = loops[l].channel
                /\ loops'[l].stage = loops[l].stage
                /\ loops'[l].overlaps = loops[l].overlaps
                /\ loops'[l].cancelled <=> loops[l].cancelled \/ l = typingStops[c]
    <2>1. loops'[l] = IF l = typingStops[c] THEN [loops[l] EXCEPT !.cancelled = TRUE] ELSE loops[l]
      BY <1>1, <1>8 DEF Stopped
    <2> QED
      BY <1>2, <2>1 DEF Loop
  <1> QED
    BY <1>1, <1>8, <1>9, <1>10

\* What a loop's own steps leave: only its stage changes.
LEMMA AfterStage ==
    ASSUME TypingTypeOK, NEW l \in DOMAIN loops, NEW stage \in {"leaving", "gone"},
           loops' = [loops EXCEPT ![l].stage = stage]
    PROVE  /\ loops' \in Seq(Loop)
           /\ DOMAIN loops' = DOMAIN loops
           /\ DOMAIN loops \subseteq Nat
           /\ loops'[l].stage = stage
           /\ \A k \in DOMAIN loops : /\ loops'[k].channel = loops[k].channel
                                      /\ loops'[k].cancelled = loops[k].cancelled
                                      /\ loops'[k].overlaps = loops[k].overlaps
                                      /\ k # l => loops'[k].stage = loops[k].stage
  <1>1. loops \in [1..Len(loops) -> Loop] /\ Len(loops) \in Nat
    BY DEF TypingTypeOK
  <1>2. [loops[l] EXCEPT !.stage = stage] \in Loop
    BY <1>1 DEF Loop
  <1>3. loops' \in [1..Len(loops) -> Loop]
    BY <1>1, <1>2
  <1>4. loops' \in Seq(Loop)
    BY <1>1, <1>3, IsASeq
  <1> QED
    BY <1>1, <1>3, <1>4 DEF Loop

LEMMA TypingStart ==
    ASSUME TypingInv, NEW c \in Channel, StartTyping(c)
    PROVE  TypingInv'
  <1> DEFINE new == Len(loops) + 1
             before == typingStops[c]
  <1>1. TypingTypeOK
    BY DEF TypingInv
  <1>2. /\ TypingTypeOK'
        /\ Len(loops) \in Nat
        /\ DOMAIN loops = 1..Len(loops)
        /\ DOMAIN loops' = 1..new
        /\ loops'[new] = NewLoop(c)
        /\ \A l \in DOMAIN loops :
             /\ loops'[l].channel = loops[l].channel
             /\ loops'[l].stage = loops[l].stage
             /\ loops'[l].overlaps = loops[l].overlaps
             /\ loops'[l].cancelled <=> loops[l].cancelled \/ l = before
    BY <1>1, AfterStart
  <1>3. typingStops' = [typingStops EXCEPT ![c] = new] /\ typingStops \in [Channel -> Nat]
    BY <1>1 DEF StartTyping, TypingTypeOK
  <1>4. before # NoLoop => loops[before].channel = c
    BY DEF TypingInv, StopIsNewest
  <1> HIDE DEF before
  <1>5. StopIsNewest'
    <2> SUFFICES ASSUME NEW d \in Channel, typingStops'[d] # NoLoop
                 PROVE  /\ typingStops'[d] \in DOMAIN loops'
                        /\ loops'[typingStops'[d]].channel = d
                        /\ ~loops'[typingStops'[d]].cancelled
                        /\ loops'[typingStops'[d]].stage # "gone"
                        /\ \A n \in DOMAIN loops' : loops'[n].channel = d => n <= typingStops'[d]
      BY DEF StopIsNewest
    <2>1. CASE d = c
      <3>1. typingStops'[d] = new
        BY <1>3, <2>1
      <3> QED
        BY <1>2, <2>1, <3>1 DEF NewLoop
    <2>2. CASE d # c
      <3>1. typingStops'[d] = typingStops[d]
        BY <1>3, <2>2
      <3>2. /\ typingStops[d] \in DOMAIN loops
            /\ loops[typingStops[d]].channel = d
            /\ ~loops[typingStops[d]].cancelled
            /\ loops[typingStops[d]].stage # "gone"
            /\ \A n \in DOMAIN loops : loops[n].channel = d => n <= typingStops[d]
        BY <3>1 DEF TypingInv, StopIsNewest
      <3>3. typingStops[d] # before
        BY <1>4, <2>2, <3>1, <3>2
      <3>4. loops'[new].channel = c
        BY <1>2 DEF NewLoop
      <3> QED
        BY <1>2, <2>2, <3>1, <3>2, <3>3, <3>4
    <2> QED
      BY <2>1, <2>2
  <1>6. OlderAreGone'
    <2> SUFFICES ASSUME NEW l \in DOMAIN loops', NEW k \in DOMAIN loops',
                        k < l, loops'[k].channel = loops'[l].channel, ~loops'[l].overlaps
                 PROVE  loops'[k].stage = "gone"
      BY DEF OlderAreGone
    <2>1. CASE l = new
      BY <1>2, <2>1 DEF NewLoop
    <2>2. CASE l # new
      BY <1>2, <2>2 DEF TypingInv, OlderAreGone
    <2> QED
      BY <2>1, <2>2
  <1>7. OthersAreStopped'
    <2> SUFFICES ASSUME NEW l \in DOMAIN loops', loops'[l].stage = "showing", ~loops'[l].cancelled,
                        ~loops'[l].overlaps
                 PROVE  typingStops'[loops'[l].channel] = l
      BY DEF OthersAreStopped, Uncancelled
    <2>1. CASE l = new
      BY <1>2, <1>3, <2>1 DEF NewLoop
    <2>2. CASE l # new
      <3>1. /\ l \in DOMAIN loops
            /\ loops[l].stage = "showing"
            /\ ~loops[l].cancelled
            /\ ~loops[l].overlaps
            /\ l # before
            /\ loops'[l].channel = loops[l].channel
        BY <1>2, <2>2
      <3>2. typingStops[loops[l].channel] = l
        BY <3>1 DEF TypingInv, OthersAreStopped, Uncancelled
      <3>3. loops[l].channel # c
        BY <3>1, <3>2 DEF before
      <3> QED
        BY <1>3, <3>1, <3>2, <3>3
    <2> QED
      BY <2>1, <2>2
  <1> QED
    BY <1>2, <1>5, <1>6, <1>7 DEF TypingInv

LEMMA TypingLeave ==
    ASSUME TypingInv, NEW l \in DOMAIN loops, LeaveLoop(l)
    PROVE  TypingInv'
  <1>1. loops' = [loops EXCEPT ![l].stage = "leaving"] /\ typingStops' = typingStops
    BY DEF LeaveLoop
  <1>2. /\ loops' \in Seq(Loop)
        /\ DOMAIN loops' = DOMAIN loops
        /\ loops'[l].stage = "leaving"
        /\ \A k \in DOMAIN loops : /\ loops'[k].channel = loops[k].channel
                                   /\ loops'[k].cancelled = loops[k].cancelled
                                   /\ loops'[k].overlaps = loops[k].overlaps
                                   /\ k # l => loops'[k].stage = loops[k].stage
    BY <1>1, AfterStage DEF TypingInv
  <1>3. TypingTypeOK'
    BY <1>1, <1>2 DEF TypingInv, TypingTypeOK
  <1>4. StopIsNewest'
    BY <1>1, <1>2 DEF TypingInv, StopIsNewest
  <1>5. OlderAreGone'
    <2>1. loops[l].stage # "gone"
      BY DEF LeaveLoop
    <2> QED
      BY <1>2, <2>1 DEF TypingInv, OlderAreGone
  <1>6. OthersAreStopped'
    BY <1>1, <1>2 DEF TypingInv, OthersAreStopped, Uncancelled
  <1> QED
    BY <1>3, <1>4, <1>5, <1>6 DEF TypingInv

LEMMA TypingDelete ==
    ASSUME TypingInv, NEW l \in DOMAIN loops, DeleteStop(l)
    PROVE  TypingInv'
  <1> DEFINE c == loops[l].channel
  <1>1. /\ loops' = [loops EXCEPT ![l].stage = "gone"]
        /\ typingStops' = [typingStops EXCEPT ![c] = NoLoop]
        /\ loops[l].stage = "leaving"
    BY DEF DeleteStop
  <1>2. /\ loops' \in Seq(Loop)
        /\ DOMAIN loops' = DOMAIN loops
        /\ DOMAIN loops \subseteq Nat
        /\ loops'[l].stage = "gone"
        /\ \A k \in DOMAIN loops : /\ loops'[k].channel = loops[k].channel
                                   /\ loops'[k].cancelled = loops[k].cancelled
                                   /\ loops'[k].overlaps = loops[k].overlaps
                                   /\ k # l => loops'[k].stage = loops[k].stage
    BY <1>1, AfterStage DEF TypingInv
  <1>3. /\ typingStops \in [Channel -> Nat]
        /\ \A d \in Channel : typingStops'[d] = IF d = c THEN NoLoop ELSE typingStops[d]
    BY <1>1 DEF TypingInv, TypingTypeOK
  <1>4. TypingTypeOK'
    BY <1>1, <1>2, <1>3 DEF TypingTypeOK, NoLoop
  <1>5. StopIsNewest'
    <2> SUFFICES ASSUME NEW d \in Channel, typingStops'[d] # NoLoop
                 PROVE  /\ typingStops'[d] \in DOMAIN loops'
                        /\ loops'[typingStops'[d]].channel = d
                        /\ ~loops'[typingStops'[d]].cancelled
                        /\ loops'[typingStops'[d]].stage # "gone"
                        /\ \A n \in DOMAIN loops' : loops'[n].channel = d => n <= typingStops'[d]
      BY DEF StopIsNewest
    <2>1. d # c /\ typingStops'[d] = typingStops[d]
      BY <1>3
    <2>2. /\ typingStops[d] \in DOMAIN loops
          /\ loops[typingStops[d]].channel = d
          /\ ~loops[typingStops[d]].cancelled
          /\ loops[typingStops[d]].stage # "gone"
          /\ \A n \in DOMAIN loops : loops[n].channel = d => n <= typingStops[d]
      BY <2>1 DEF TypingInv, StopIsNewest
    <2>3. typingStops[d] # l
      BY <2>1, <2>2
    <2> QED
      BY <1>2, <2>1, <2>2, <2>3
  <1>6. OlderAreGone'
    BY <1>2 DEF TypingInv, OlderAreGone
  <1>7. OthersAreStopped'
    <2> SUFFICES ASSUME NEW k \in DOMAIN loops', loops'[k].stage = "showing", ~loops'[k].cancelled,
                        ~loops'[k].overlaps
                 PROVE  typingStops'[loops'[k].channel] = k
      BY DEF OthersAreStopped, Uncancelled
    <2>1. /\ k \in DOMAIN loops
          /\ k # l
          /\ loops[k].stage = "showing"
          /\ ~loops[k].cancelled
          /\ ~loops[k].overlaps
          /\ loops'[k].channel = loops[k].channel
      BY <1>2
    <2>2. typingStops[loops[k].channel] = k
      BY <2>1 DEF TypingInv, OthersAreStopped, Uncancelled
    <2>3. loops[k].channel \in Channel
      <3>1. loops[k] \in Loop
        BY <2>1 DEF TypingInv, TypingTypeOK
      <3> QED
        BY <3>1 DEF Loop
    <2>4. loops[k].channel # c
      <3> SUFFICES ASSUME loops[k].channel = c PROVE FALSE
        OBVIOUS
      <3>1. k # NoLoop
        BY <2>1 DEF NoLoop, TypingInv, TypingTypeOK
      <3>2. l <= k
        BY <2>2, <2>3, <3>1 DEF TypingInv, StopIsNewest
      <3>3. l < k
        BY <1>2, <2>1, <3>2
      <3> QED
        BY <1>1, <2>1, <3>3 DEF TypingInv, OlderAreGone
    <2> QED
      BY <1>3, <2>1, <2>2, <2>3, <2>4
  <1> QED
    BY <1>4, <1>5, <1>6, <1>7 DEF TypingInv

LEMMA TypingInvHolds == GatewaySpec => []TypingInv
  <1>1. TypingInit => TypingInv
    BY DEF TypingInit, TypingInv, TypingTypeOK, StopIsNewest, OlderAreGone, OthersAreStopped,
           Uncancelled, NoLoop
  <1>2. ASSUME TypingInv, [GatewayNext]_<<vars, typingVars>> PROVE TypingInv'
    <2>1. CASE UNCHANGED typingVars
      BY <1>2, <2>1 DEF typingVars, TypingInv, TypingTypeOK, StopIsNewest, OlderAreGone,
                        OthersAreStopped, Uncancelled
    <2>2. CASE TypingNext
      BY <1>2, <2>2, TypingStart, TypingLeave, TypingDelete DEF TypingNext
    <2> QED
      BY <1>2, <2>1, <2>2 DEF GatewayNext
  <1> QED
    BY <1>1, <1>2, PTL DEF GatewaySpec

\* A typing loop that nobody told to stop can be stopped by the next call, unless
\* an older loop had not ended when it began: StartTyping's critical section and
\* the deferred delete, in any order, for any channels.
THEOREM TypingIsStopped == GatewaySpec => []OthersAreStopped
  <1>1. TypingInv => OthersAreStopped
    BY DEF TypingInv
  <1> QED
    BY <1>1, TypingInvHolds, PTL

\* A stored cancel function is always the newest loop's of its channel, not
\* called and not deleted.
THEOREM StopsAreNewest == GatewaySpec => []StopIsNewest
  <1>1. TypingInv => StopIsNewest
    BY DEF TypingInv
  <1> QED
    BY <1>1, TypingInvHolds, PTL

\* Typing loops leave posting alone: the gateway with them is the gateway that
\* the theorems about posts and duplicates are about.
THEOREM TypingLeavesPosting == GatewaySpec => Spec
  <1>1. [GatewayNext]_<<vars, typingVars>> => [Next]_vars
    BY DEF GatewayNext, vars, typingVars
  <1> QED
    BY <1>1, PTL DEF GatewaySpec, Spec
=============================================================================
