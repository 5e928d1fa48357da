--------------------------- MODULE ToolUsageProofs ---------------------------
(***************************************************************************)
(* Proofs about ToolUsage, for every number of handlers and sessions and   *)
(* for all limits.                                                         *)
(***************************************************************************)
EXTENDS ToolUsage, FiniteSetTheorems, TLAPS

-----------------------------------------------------------------------------
(* The reset rule *)

AnyToken == Token \cup {NoToken}

LEMMA ResetTyped ==
    ASSUME NEW u \in Usage, NEW t \in AnyToken, NEW now
    PROVE  AfterReset(u, t, now) \in Usage
  <1>1. CASE ShouldReset(u, t, now)
    <2>1. 0 \in 0..MaxCalls /\ [a \in Args |-> 0] \in [Args -> 0..MaxSameArgs]
      BY UsageAssumption
    <2>2. AfterReset(u, t, now) = [u EXCEPT !.callCount = 0,
                                            !.argumentHit = [a \in Args |-> 0],
                                            !.turnToken = t]
      BY <1>1 DEF AfterReset
    <2> QED
      BY <2>1, <2>2 DEF Usage, AnyToken
  <1>2. CASE ~ShouldReset(u, t, now)
    BY <1>2 DEF AfterReset
  <1> QED
    BY <1>1, <1>2

\* What AfterReset leaves and what it sets.
LEMMA ResetFacts ==
    ASSUME NEW u \in Usage, NEW t \in AnyToken, NEW now
    PROVE  IF ShouldReset(u, t, now)
           THEN /\ AfterReset(u, t, now).callCount = 0
                /\ \A a \in Args : AfterReset(u, t, now).argumentHit[a] = 0
           ELSE AfterReset(u, t, now) = u
  BY DEF AfterReset, Usage

\* A turn that has just begun admits any call: so a refusal resets nothing.
LEMMA FreshAdmits ==
    ASSUME NEW u \in Usage, NEW t \in AnyToken, NEW now, NEW a \in Args,
           ~Admissible(AfterReset(u, t, now), a)
    PROVE  AfterReset(u, t, now) = u
  BY ResetFacts, UsageAssumption DEF Admissible

-----------------------------------------------------------------------------
(* Types *)

\* The call that is admitted or refused, and what the server knows of its session.
LEMMA CallTyped ==
    ASSUME TypeOK, NEW h \in Handler, call[h] # NoCall
    PROVE  /\ call[h] \in CallRecord
           /\ call[h].session \in McpSession /\ call[h].token \in AnyToken
           /\ call[h].args \in Args /\ call[h].now \in Nat
           /\ usage[call[h].session] \in Usage
  <1>1. call[h] \in CallRecord
    BY DEF TypeOK
  <1> QED
    BY <1>1, UsageAssumption DEF TypeOK, CallRecord, AnyToken

LEMMA AdmitTyped ==
    ASSUME NEW u \in Usage, NEW t \in AnyToken, NEW a \in Args, NEW now \in Nat,
           Admissible(u, a)
    PROVE  [turnToken   |-> IF t # NoToken THEN t ELSE u.turnToken,
            lastCallAt  |-> now,
            callCount   |-> u.callCount + 1,
            argumentHit |-> [u.argumentHit EXCEPT ![a] = @ + 1]] \in Usage
  <1>1. /\ u.callCount \in 0..MaxCalls /\ u.turnToken \in AnyToken
        /\ u.argumentHit \in [Args -> 0..MaxSameArgs]
    BY DEF Usage, AnyToken
  <1>2. u.callCount + 1 \in 0..MaxCalls
    BY <1>1, UsageAssumption DEF Admissible
  <1>3. u.argumentHit[a] + 1 \in 0..MaxSameArgs
    BY <1>1, UsageAssumption DEF Admissible
  <1>4. [u.argumentHit EXCEPT ![a] = @ + 1] \in [Args -> 0..MaxSameArgs]
    BY <1>1, <1>3
  <1> QED
    BY <1>1, <1>2, <1>4 DEF Usage, AnyToken

LEMMA TypeStep == ASSUME TypeOK, [Next]_vars PROVE TypeOK'
  <1> USE UsageAssumption
  <1>1. ASSUME NEW h \in Handler, NEW s \in McpSession, NEW t \in AnyToken, NEW a \in Args,
               ReadClock(h, s, t, a)
        PROVE  TypeOK'
    <2>1. CallOf(s, t, a) \in CallRecord
      BY <1>1 DEF ReadClock, CallOf, CallRecord, AnyToken, TypeOK
    <2>2. issued' \in 0..MaxIssued
      BY <1>1 DEF ReadClock, TypeOK
    <2> QED
      BY <1>1, <2>1, <2>2 DEF ReadClock, TypeOK
  <1>2. ASSUME NEW h \in Handler, Admit(h) PROVE TypeOK'
    <2> DEFINE k == call[h]
               s == k.session
               u == AfterReset(usage[s], k.token, k.now)
    <2>1. /\ k \in CallRecord /\ s \in McpSession /\ k.token \in AnyToken
          /\ k.args \in Args /\ k.now \in Nat /\ usage[s] \in Usage
      BY <1>2, CallTyped DEF Admit
    <2>2. u \in Usage
      BY <2>1, ResetTyped
    <2>3. usage' \in [McpSession -> Usage]
      <3> DEFINE v == [turnToken   |-> IF k.token # NoToken THEN k.token ELSE u.turnToken,
                       lastCallAt  |-> k.now,
                       callCount   |-> u.callCount + 1,
                       argumentHit |-> [u.argumentHit EXCEPT ![k.args] = @ + 1]]
      <3>1. Admissible(u, k.args)
        BY <1>2 DEF Admit
      <3>2. v \in Usage
        BY <2>1, <2>2, <3>1, AdmitTyped
      <3>3. usage' = [usage EXCEPT ![s] = v]
        BY <1>2 DEF Admit
      <3> HIDE DEF v
      <3> QED
        BY <2>1, <3>2, <3>3 DEF TypeOK
    <2>4. call' \in [Handler -> CallRecord \cup {NoCall}]
      <3>1. [k EXCEPT !.at = "work"] \in CallRecord
        BY <2>1 DEF CallRecord
      <3>2. call' = [call EXCEPT ![h] = [k EXCEPT !.at = "work"]]
        BY <1>2 DEF Admit
      <3> QED
        BY <3>1, <3>2 DEF TypeOK
    <2>5. /\ admitted' \in [McpSession -> Nat]
          /\ spent' \in [McpSession -> [Args -> Nat]]
          /\ tokens' \in [McpSession -> SUBSET AnyToken]
      <3>1. admitted' = [admitted EXCEPT ![s] = admitted[s] + 1]
        BY <1>2 DEF Admit
      <3>2. tokens' = [tokens EXCEPT ![s] = tokens[s] \cup {k.token}]
        BY <1>2 DEF Admit
      <3>3. spent' = [spent EXCEPT ![s] = [spent[s] EXCEPT ![k.args] = spent[s][k.args] + 1]]
        BY <1>2 DEF Admit
      <3>4. admitted[s] + 1 \in Nat /\ tokens[s] \cup {k.token} \in SUBSET AnyToken
        BY <2>1 DEF TypeOK, AnyToken
      <3>5. [spent[s] EXCEPT ![k.args] = spent[s][k.args] + 1] \in [Args -> Nat]
        BY <2>1 DEF TypeOK
      <3>6. /\ admitted \in [McpSession -> Nat]
            /\ spent \in [McpSession -> [Args -> Nat]]
            /\ tokens \in [McpSession -> SUBSET AnyToken]
        BY DEF TypeOK, AnyToken
      <3> HIDE DEF k, s
      <3> QED
        BY <2>1, <3>1, <3>2, <3>3, <3>4, <3>5, <3>6
    <2> QED
      BY <1>2, <2>3, <2>4, <2>5 DEF Admit, TypeOK, AnyToken
  <1>3. ASSUME NEW h \in Handler, Refuse(h) PROVE TypeOK'
    <2>1. AfterReset(usage[call[h].session], call[h].token, call[h].now) \in Usage
      BY <1>3, CallTyped, ResetTyped DEF Refuse
    <2> QED
      BY <1>3, <2>1 DEF Refuse, turnVars, TypeOK
  <1>4. ASSUME NEW h \in Handler, FinishWork(h) PROVE TypeOK'
    BY <1>4 DEF FinishWork, turnVars, TypeOK
  <1>5. ASSUME NEW s \in McpSession, NextTurn(s) PROVE TypeOK'
    BY <1>5 DEF NextTurn, TypeOK
  <1>6. CASE Tick
    BY <1>6 DEF Tick, turnVars, TypeOK
  <1>7. CASE UNCHANGED vars
    BY <1>7 DEF vars, TypeOK
  <1> QED
    BY <1>1, <1>2, <1>3, <1>4, <1>5, <1>6, <1>7 DEF Next, HandleTool, AnyToken

LEMMA InitTyped == Init => TypeOK
  BY UsageAssumption DEF Init, TypeOK, Unused, Usage, NoCall

\* Whatever the limits are, no count of the server ever exceeds its limit.
THEOREM UsageTypes == Spec => []TypeOK
  <1>1. TypeOK /\ [Next]_vars => TypeOK'
    BY TypeStep
  <1> QED
    BY InitTyped, <1>1, PTL DEF Spec

-----------------------------------------------------------------------------
(* A recognisable turn *)

\* What the server's state and the turn of s have to do with each other: a turn that
\* has admitted a call has left its time and its one token there; and as long as it
\* looks like one turn to the server, the counts were not reset since it began.
Followed(s) ==
    /\ admitted[s] = 0 => /\ tokens[s] = {}
                          /\ \A a \in Args : spent[s][a] = 0
    /\ admitted[s] # 0 => /\ tokens[s] # {}
                          /\ usage[s].callCount # 0
                          /\ usage[s].lastCallAt \in reads[s]
    /\ \A t \in Token : tokens[s] = {t} => usage[s].turnToken = t
    /\ Recognisable(s) => /\ admitted[s] <= usage[s].callCount
                          /\ \A a \in Args : spent[s][a] <= usage[s].argumentHit[a]

\* And a call's time is one of its turn's.
CallsAreRead == \A h \in Handler : call[h] # NoCall => call[h].now \in reads[call[h].session]

TurnsFollowed == CallsAreRead /\ \A s \in McpSession : Followed(s)

\* A step that changes nothing of session s but adds a time to its turn.
LEMMA FollowedStays ==
    ASSUME TypeOK, NEW s \in McpSession, Followed(s),
           usage'[s] = usage[s], admitted'[s] = admitted[s], spent'[s] = spent[s],
           tokens'[s] = tokens[s], reads[s] \subseteq reads'[s]
    PROVE  Followed(s)'
  <1>1. Recognisable(s)' => Recognisable(s)
    BY DEF Recognisable
  <1> QED
    BY <1>1 DEF Followed

\* The call that a recognisable turn makes after its first is no new turn to the server.
LEMMA NoResetWithin ==
    ASSUME TypeOK, NEW s \in McpSession, Followed(s), admitted[s] # 0,
           NEW t \in AnyToken, NEW now \in reads[s],
           \/ \E x \in Token : tokens[s] \cup {t} = {x}
           \/ tokens[s] \cup {t} = {NoToken} /\ \A x, y \in reads[s] : x - y <= IdleReset
    PROVE  ~ShouldReset(usage[s], t, now) /\ Recognisable(s)
  <1>1. tokens[s] # {} /\ usage[s].callCount # 0 /\ usage[s].lastCallAt \in reads[s]
    BY DEF Followed
  <1>2. CASE \E x \in Token : tokens[s] \cup {t} = {x}
    <2>1. t \in Token /\ tokens[s] = {t}
      BY <1>1, <1>2
    <2>2. usage[s].turnToken = t /\ t # NoToken
      BY <2>1, UsageAssumption DEF Followed
    <2> QED
      BY <1>1, <2>1, <2>2 DEF ShouldReset, Recognisable
  <1>3. CASE tokens[s] \cup {t} = {NoToken} /\ \A x, y \in reads[s] : x - y <= IdleReset
    <2>1. t = NoToken /\ tokens[s] = {NoToken}
      BY <1>1, <1>3
    <2>2. now - usage[s].lastCallAt <= IdleReset
      BY <1>1, <1>3
    <2>3. now \in Nat /\ usage[s].lastCallAt \in Nat
      BY <1>1 DEF TypeOK
    <2>4. ~(now - usage[s].lastCallAt > IdleReset)
      BY <2>2, <2>3, UsageAssumption
    <2> QED
      BY <1>1, <1>3, <2>1, <2>4 DEF ShouldReset, Recognisable
  <1> QED
    BY <1>2, <1>3

LEMMA AdmitFollowed ==
    ASSUME TypeOK, TurnsFollowed, NEW h \in Handler, Admit(h)
    PROVE  TurnsFollowed'
  <1>0. PICK s \in McpSession : s = call[h].session
    BY CallTyped DEF Admit
  <1> DEFINE k == call[h]
             u == AfterReset(usage[s], k.token, k.now)
  <1>1. /\ k \in CallRecord /\ k.token \in AnyToken
        /\ k.args \in Args /\ k.now \in Nat /\ usage[s] \in Usage
    BY <1>0, CallTyped DEF Admit
  <1>2. u \in Usage
    BY <1>1, ResetTyped
  <1>3. k.now \in reads[s]
    BY <1>0 DEF Admit, TurnsFollowed, CallsAreRead
  <1>4. /\ usage' = [usage EXCEPT ![s] =
                       [turnToken   |-> IF k.token # NoToken THEN k.token ELSE u.turnToken,
                        lastCallAt  |-> k.now,
                        callCount   |-> u.callCount + 1,
                        argumentHit |-> [u.argumentHit EXCEPT ![k.args] = @ + 1]]]
        /\ call' = [call EXCEPT ![h] = [k EXCEPT !.at = "work"]]
        /\ admitted' = [admitted EXCEPT ![s] = admitted[s] + 1]
        /\ tokens' = [tokens EXCEPT ![s] = tokens[s] \cup {k.token}]
        /\ reads' = reads
    BY <1>0 DEF Admit
  <1>5. spent' = [spent EXCEPT ![s] = [spent[s] EXCEPT ![k.args] = spent[s][k.args] + 1]]
    BY <1>0 DEF Admit
  <1>6. /\ admitted[s] \in Nat /\ u.callCount \in Nat
        /\ \A a \in Args : spent[s][a] \in Nat /\ u.argumentHit[a] \in Nat
    BY <1>1, <1>2, UsageAssumption DEF TypeOK, Usage
  <1>7. Followed(s)
    BY <1>1 DEF TurnsFollowed
  <1>8. /\ admitted'[s] = admitted[s] + 1
        /\ tokens'[s] = tokens[s] \cup {k.token}
        /\ reads'[s] = reads[s]
        /\ \A a \in Args : spent'[s][a] = spent[s][a] + (IF a = k.args THEN 1 ELSE 0)
    <2>1. spent'[s] = [spent[s] EXCEPT ![k.args] = spent[s][k.args] + 1]
      BY <1>1, <1>5 DEF TypeOK
    <2>2. spent[s] \in [Args -> Nat]
      BY <1>1 DEF TypeOK
    <2>3. \A a \in Args : spent'[s][a] = spent[s][a] + (IF a = k.args THEN 1 ELSE 0)
      BY <2>1, <2>2
    <2> QED
      BY <1>1, <1>4, <2>3 DEF TypeOK
  <1>9. /\ usage'[s].turnToken = IF k.token # NoToken THEN k.token ELSE u.turnToken
        /\ usage'[s].lastCallAt = k.now
        /\ usage'[s].callCount = u.callCount + 1
        /\ \A a \in Args : usage'[s].argumentHit[a]
                             = u.argumentHit[a] + (IF a = k.args THEN 1 ELSE 0)
    <2>1. usage'[s] = [turnToken   |-> IF k.token # NoToken THEN k.token ELSE u.turnToken,
                       lastCallAt  |-> k.now,
                       callCount   |-> u.callCount + 1,
                       argumentHit |-> [u.argumentHit EXCEPT ![k.args] = @ + 1]]
      BY <1>1, <1>4 DEF TypeOK
    <2>2. u.argumentHit \in [Args -> 0..MaxSameArgs]
      BY <1>2 DEF Usage
    <2> HIDE DEF u
    <2>3. \A a \in Args : usage'[s].argumentHit[a]
                            = u.argumentHit[a] + (IF a = k.args THEN 1 ELSE 0)
      BY <2>1, <2>2, <1>6
    <2> QED
      BY <2>1, <2>3
  <1>10. \A r \in McpSession : r # s => Followed(r)'
    <2> SUFFICES ASSUME NEW r \in McpSession, r # s PROVE Followed(r)'
      OBVIOUS
    <2>1. /\ usage'[r] = usage[r] /\ admitted'[r] = admitted[r] /\ spent'[r] = spent[r]
          /\ tokens'[r] = tokens[r] /\ reads'[r] = reads[r]
      BY <1>4, <1>5 DEF TypeOK
    <2> QED
      BY <2>1, FollowedStays DEF TurnsFollowed
  <1>11. Recognisable(s)' => /\ admitted'[s] <= usage'[s].callCount
                             /\ \A a \in Args : spent'[s][a] <= usage'[s].argumentHit[a]
    <2> SUFFICES ASSUME Recognisable(s)'
                 PROVE  /\ admitted[s] <= u.callCount
                        /\ \A a \in Args : spent[s][a] <= u.argumentHit[a]
      BY <1>6, <1>8, <1>9
    <2>1. CASE admitted[s] = 0
      BY <1>6, <1>7, <2>1 DEF Followed
    <2>2. CASE admitted[s] # 0
      <3>1. \/ \E x \in Token : tokens[s] \cup {k.token} = {x}
            \/ /\ tokens[s] \cup {k.token} = {NoToken}
               /\ \A x, y \in reads[s] : x - y <= IdleReset
        BY <1>8 DEF Recognisable
      <3>2. ~ShouldReset(usage[s], k.token, k.now) /\ Recognisable(s)
        BY <1>1, <1>3, <1>7, <2>2, <3>1, NoResetWithin
      <3>3. u = usage[s]
        BY <1>1, <3>2, ResetFacts
      <3> QED
        BY <1>7, <3>2, <3>3 DEF Followed
    <2> QED
      BY <2>1, <2>2
  <1> HIDE DEF u
  <1>12. Followed(s)'
    <2>1. admitted'[s] # 0 /\ tokens'[s] # {}
      BY <1>6, <1>8
    <2>2. usage'[s].callCount # 0 /\ usage'[s].lastCallAt \in reads'[s]
      BY <1>3, <1>6, <1>8, <1>9
    <2>3. \A t \in Token : tokens'[s] = {t} => usage'[s].turnToken = t
      BY <1>8, <1>9, UsageAssumption
    <2> QED
      BY <1>11, <2>1, <2>2, <2>3 DEF Followed
  <1>13. CallsAreRead'
    <2> SUFFICES ASSUME NEW g \in Handler, call'[g] # NoCall
                 PROVE  call'[g].now \in reads[call'[g].session]
      BY <1>4 DEF CallsAreRead
    <2>1. CASE g = h
      <3>1. call'[g] = [k EXCEPT !.at = "work"]
        BY <1>4, <2>1 DEF TypeOK
      <3>2. call'[g].now = k.now /\ call'[g].session = s
        BY <1>0, <1>1, <3>1 DEF CallRecord
      <3> QED
        BY <1>3, <3>2
    <2>2. CASE g # h
      <3>1. call'[g] = call[g]
        BY <1>4, <2>2 DEF TypeOK
      <3> QED
        BY <3>1 DEF TurnsFollowed, CallsAreRead
    <2> QED
      BY <2>1, <2>2
  <1> QED
    BY <1>10, <1>12, <1>13 DEF TurnsFollowed

LEMMA FollowedStep == ASSUME TypeOK, TurnsFollowed, [Next]_vars PROVE TurnsFollowed'
  <1>1. ASSUME NEW h \in Handler, NEW s \in McpSession, NEW t \in AnyToken, NEW a \in Args,
               ReadClock(h, s, t, a)
        PROVE  TurnsFollowed'
    <2>1. /\ call' = [call EXCEPT ![h] = CallOf(s, t, a)]
          /\ reads' = [reads EXCEPT ![s] = @ \cup {clock}]
          /\ UNCHANGED <<usage, admitted, spent, tokens>>
      BY <1>1 DEF ReadClock
    <2>2. \A r \in McpSession : reads[r] \subseteq reads'[r]
      BY <2>1 DEF TypeOK
    <2>3. \A r \in McpSession : Followed(r)'
      BY <2>1, <2>2, FollowedStays DEF TurnsFollowed
    <2>4. CallsAreRead'
      <3> SUFFICES ASSUME NEW g \in Handler, call'[g] # NoCall
                   PROVE  call'[g].now \in reads'[call'[g].session]
        BY DEF CallsAreRead
      <3>1. CASE g = h
        <4>1. call'[g].now = clock /\ call'[g].session = s
          BY <2>1, <3>1 DEF TypeOK, CallOf
        <4> QED
          BY <2>1, <4>1 DEF TypeOK
      <3>2. CASE g # h
        <4>1. call'[g] = call[g]
          BY <2>1, <3>2 DEF TypeOK
        <4>2. call[g].session \in McpSession
          BY <4>1, CallTyped
        <4> QED
          BY <2>2, <4>1, <4>2 DEF TurnsFollowed, CallsAreRead
      <3> QED
        BY <3>1, <3>2
    <2> QED
      BY <2>3, <2>4 DEF TurnsFollowed
  <1>2. ASSUME NEW h \in Handler, Admit(h) PROVE TurnsFollowed'
    BY <1>2, AdmitFollowed
  <1>3. ASSUME NEW h \in Handler, call' = [call EXCEPT ![h] = NoCall],
               UNCHANGED <<usage, admitted, spent, tokens, reads>>
        PROVE  TurnsFollowed'
    <2>1. \A s \in McpSession : Followed(s)'
      BY <1>3, FollowedStays DEF TurnsFollowed
    <2>2. CallsAreRead'
      BY <1>3 DEF TurnsFollowed, CallsAreRead, TypeOK
    <2> QED
      BY <2>1, <2>2 DEF TurnsFollowed
  <1>4. ASSUME NEW h \in Handler, Refuse(h) PROVE TurnsFollowed'
    <2> DEFINE k == call[h]
               u == AfterReset(usage[k.session], k.token, k.now)
    <2>1. /\ usage' = [usage EXCEPT ![k.session] = u]
          /\ ~Admissible(u, k.args)
          /\ call' = [call EXCEPT ![h] = NoCall]
          /\ UNCHANGED <<admitted, spent, tokens, reads>>
      BY <1>4 DEF Refuse, turnVars
    <2>2. u = usage[k.session]
      BY <1>4, <2>1, CallTyped, FreshAdmits DEF Refuse
    <2>3. usage' = usage
      <3> HIDE DEF u
      <3> QED
        BY <2>1, <2>2 DEF TypeOK
    <2> QED
      BY <1>3, <2>1, <2>3
  <1>5. ASSUME NEW h \in Handler, FinishWork(h) PROVE TurnsFollowed'
    BY <1>3, <1>5 DEF FinishWork, turnVars
  <1>6. ASSUME NEW s \in McpSession, NextTurn(s) PROVE TurnsFollowed'
    <2>1. /\ \A h \in Handler : call[h] # NoCall => call[h].session # s
          /\ admitted' = [admitted EXCEPT ![s] = 0]
          /\ spent' = [spent EXCEPT ![s] = [a \in Args |-> 0]]
          /\ tokens' = [tokens EXCEPT ![s] = {}]
          /\ reads' = [reads EXCEPT ![s] = {}]
          /\ UNCHANGED <<call, usage>>
      BY <1>6 DEF NextTurn
    <2>2. Followed(s)'
      <3>1. /\ admitted'[s] = 0 /\ tokens'[s] = {}
            /\ \A a \in Args : spent'[s][a] = 0
        BY <2>1 DEF TypeOK
      <3>2. ~Recognisable(s)'
        BY <3>1 DEF Recognisable
      <3> QED
        BY <3>1, <3>2 DEF Followed
    <2>3. \A r \in McpSession : r # s => Followed(r)'
      <3> SUFFICES ASSUME NEW r \in McpSession, r # s PROVE Followed(r)'
        OBVIOUS
      <3>1. /\ usage'[r] = usage[r] /\ admitted'[r] = admitted[r] /\ spent'[r] = spent[r]
            /\ tokens'[r] = tokens[r] /\ reads'[r] = reads[r]
        BY <2>1 DEF TypeOK
      <3> QED
        BY <3>1, FollowedStays DEF TurnsFollowed
    <2>4. CallsAreRead'
      <3> SUFFICES ASSUME NEW h \in Handler, call[h] # NoCall
                   PROVE  call[h].now \in reads'[call[h].session]
        BY <2>1 DEF CallsAreRead
      <3>1. call[h].session # s /\ call[h].session \in McpSession
        BY <2>1, CallTyped
      <3> QED
        BY <2>1, <3>1 DEF TurnsFollowed, CallsAreRead, TypeOK
    <2> QED
      BY <2>2, <2>3, <2>4 DEF TurnsFollowed
  <1>7. CASE Tick \/ UNCHANGED vars
    <2>1. UNCHANGED <<call, usage, admitted, spent, tokens, reads>>
      BY <1>7 DEF Tick, vars, turnVars
    <2>2. \A s \in McpSession : Followed(s)'
      BY <2>1, FollowedStays DEF TurnsFollowed
    <2>3. CallsAreRead'
      BY <2>1 DEF TurnsFollowed, CallsAreRead
    <2> QED
      BY <2>2, <2>3 DEF TurnsFollowed
  <1> QED
    BY <1>1, <1>2, <1>4, <1>5, <1>6, <1>7 DEF Next, HandleTool, AnyToken

LEMMA InitFollowed == Init => TurnsFollowed
  BY UsageAssumption DEF Init, TurnsFollowed, CallsAreRead, Followed, Recognisable, NoCall

LEMMA FollowedInBudget == TypeOK /\ TurnsFollowed => RecognisableTurnInBudget
  <1> SUFFICES ASSUME TypeOK, TurnsFollowed, NEW s \in McpSession, Recognisable(s)
               PROVE  /\ admitted[s] <= MaxCalls
                      /\ \A a \in Args : spent[s][a] <= MaxSameArgs
    BY DEF RecognisableTurnInBudget
  <1>1. /\ admitted[s] <= usage[s].callCount
        /\ \A a \in Args : spent[s][a] <= usage[s].argumentHit[a]
    BY DEF TurnsFollowed, Followed
  <1>2. /\ usage[s].callCount \in 0..MaxCalls /\ admitted[s] \in Nat
        /\ usage[s].argumentHit \in [Args -> 0..MaxSameArgs]
        /\ spent[s] \in [Args -> Nat]
    BY DEF TypeOK, Usage
  <1> QED
    BY <1>1, <1>2, UsageAssumption

\* Whatever the limits, the pause and the number of concurrent handlers: a turn that
\* looks like one turn to the server never has a call above its limits admitted.
THEOREM RecognisableTurnsInBudget == Spec => []RecognisableTurnInBudget
  <1>1. TypeOK /\ TurnsFollowed /\ [Next]_vars => TurnsFollowed'
    BY FollowedStep
  <1> QED
    BY InitFollowed, <1>1, FollowedInBudget, UsageTypes, PTL DEF Spec
-----------------------------------------------------------------------------
(* The two limits *)

\* A hit is counted by its arguments and its number.
LEMMA HitsAre ==
    ASSUME NEW u, NEW a, NEW n
    PROVE  <<a, n>> \in Hits(u) <=> a \in Args /\ n \in 1..u.argumentHit[a]
  BY DEF Hits

LEMMA HitsArePairs ==
    ASSUME NEW u, NEW p \in Hits(u)
    PROVE  \E a, n : p = <<a, n>>
  BY DEF Hits

LEMMA NoHits ==
    ASSUME NEW u, \A a \in Args : u.argumentHit[a] = 0
    PROVE  Hits(u) = {}
  <1> SUFFICES ASSUME NEW p \in Hits(u) PROVE FALSE
    OBVIOUS
  <1>1. PICK a, n : p = <<a, n>>
    BY HitsArePairs
  <1>2. a \in Args /\ n \in 1..0
    BY <1>1, HitsAre
  <1> QED
    BY <1>2

LEMMA OneMoreHit ==
    ASSUME NEW u, NEW v, NEW k \in Args, \A a \in Args : u.argumentHit[a] \in Nat,
           \A a \in Args : v.argumentHit[a] = u.argumentHit[a] + (IF a = k THEN 1 ELSE 0)
    PROVE  /\ Hits(v) = Hits(u) \cup {<<k, u.argumentHit[k] + 1>>}
           /\ <<k, u.argumentHit[k] + 1>> \notin Hits(u)
  <1> DEFINE new == <<k, u.argumentHit[k] + 1>>
  <1>1. new \notin Hits(u)
    <2>1. u.argumentHit[k] \in Nat
      OBVIOUS
    <2> QED
      BY <2>1, HitsAre
  <1>2. ASSUME NEW a, NEW n
        PROVE  <<a, n>> \in Hits(v) <=> <<a, n>> \in Hits(u) \/ <<a, n>> = new
    <2>1. CASE a \in Args /\ a # k
      BY <2>1, HitsAre
    <2>2. CASE a = k
      <3>1. u.argumentHit[k] \in Nat /\ v.argumentHit[k] = u.argumentHit[k] + 1
        OBVIOUS
      <3>2. n \in 1..(u.argumentHit[k] + 1) <=> n \in 1..u.argumentHit[k] \/ n = u.argumentHit[k] + 1
        BY <3>1
      <3> QED
        BY <2>2, <3>1, <3>2, HitsAre
    <2>3. CASE a \notin Args
      BY <2>3, HitsAre
    <2> QED
      BY <2>1, <2>2, <2>3
  <1> HIDE DEF new
  <1>3. \A p \in Hits(v) : p \in Hits(u) \cup {new}
    BY <1>2, HitsArePairs
  <1>4. \A p \in Hits(u) : p \in Hits(v)
    BY <1>2, HitsArePairs
  <1>5. new \in Hits(v)
    BY <1>2 DEF new
  <1> QED
    BY <1>1, <1>3, <1>4, <1>5 DEF new

\* The counts of one session agree; there are finitely many hits, whatever Args is.
Agrees(u) == /\ IsFiniteSet(Hits(u))
             /\ u.callCount = Cardinality(Hits(u))

LEMMA ResetAgrees ==
    ASSUME NEW u \in Usage, NEW t \in AnyToken, NEW now, Agrees(u)
    PROVE  Agrees(AfterReset(u, t, now))
  <1>1. CASE ShouldReset(u, t, now)
    <2>1. /\ AfterReset(u, t, now).callCount = 0
          /\ \A a \in Args : AfterReset(u, t, now).argumentHit[a] = 0
      BY <1>1, ResetFacts
    <2>2. Hits(AfterReset(u, t, now)) = {}
      BY <2>1, NoHits
    <2> QED
      BY <2>1, <2>2, FS_EmptySet DEF Agrees
  <1>2. CASE ~ShouldReset(u, t, now)
    BY <1>2, ResetFacts
  <1> QED
    BY <1>1, <1>2

LEMMA CountingAgrees ==
    ASSUME NEW u \in Usage, NEW v, NEW k \in Args, Agrees(u),
           v.callCount = u.callCount + 1,
           \A a \in Args : v.argumentHit[a] = u.argumentHit[a] + (IF a = k THEN 1 ELSE 0)
    PROVE  Agrees(v)
  <1>1. \A a \in Args : u.argumentHit[a] \in Nat
    BY UsageAssumption DEF Usage
  <1>2. /\ Hits(v) = Hits(u) \cup {<<k, u.argumentHit[k] + 1>>}
        /\ <<k, u.argumentHit[k] + 1>> \notin Hits(u)
    BY <1>1, OneMoreHit
  <1> QED
    BY <1>2, FS_AddElement DEF Agrees

SessionsAgree == \A s \in McpSession : Agrees(usage[s])

LEMMA AgreeStep == ASSUME TypeOK, SessionsAgree, [Next]_vars PROVE SessionsAgree'
  <1>1. ASSUME NEW h \in Handler, Admit(h) PROVE SessionsAgree'
    <2> DEFINE k == call[h]
               s == k.session
               u == AfterReset(usage[s], k.token, k.now)
               v == [turnToken   |-> IF k.token # NoToken THEN k.token ELSE u.turnToken,
                     lastCallAt  |-> k.now,
                     callCount   |-> u.callCount + 1,
                     argumentHit |-> [u.argumentHit EXCEPT ![k.args] = @ + 1]]
    <2>1. /\ s \in McpSession /\ k.token \in AnyToken /\ k.args \in Args /\ usage[s] \in Usage
      BY <1>1, CallTyped DEF Admit
    <2>2. u \in Usage /\ Agrees(u)
      BY <2>1, ResetTyped, ResetAgrees DEF SessionsAgree
    <2>3. usage' = [usage EXCEPT ![s] = v]
      BY <1>1 DEF Admit
    <2>4. v.callCount = u.callCount + 1
      OBVIOUS
    <2>5. \A a \in Args : v.argumentHit[a] = u.argumentHit[a] + (IF a = k.args THEN 1 ELSE 0)
      <3>1. u.argumentHit \in [Args -> 0..MaxSameArgs]
        BY <2>2 DEF Usage
      <3>2. \A a \in Args : u.argumentHit[a] + 0 = u.argumentHit[a]
        BY <3>1, UsageAssumption
      <3>3. v.argumentHit = [u.argumentHit EXCEPT ![k.args] = @ + 1]
        OBVIOUS
      <3> HIDE DEF u, v
      <3> QED
        BY <3>1, <3>2, <3>3
    <2> HIDE DEF u, v
    <2>6. Agrees(v)
      BY <2>1, <2>2, <2>4, <2>5, CountingAgrees
    <2> QED
      BY <2>1, <2>3, <2>6 DEF SessionsAgree, TypeOK
  <1>2. ASSUME NEW h \in Handler, Refuse(h) PROVE SessionsAgree'
    <2> DEFINE k == call[h]
               s == k.session
               u == AfterReset(usage[s], k.token, k.now)
    <2>1. s \in McpSession /\ k.token \in AnyToken /\ usage[s] \in Usage
      BY <1>2, CallTyped DEF Refuse
    <2>2. Agrees(u)
      BY <2>1, ResetAgrees DEF SessionsAgree
    <2>3. usage' = [usage EXCEPT ![s] = u]
      BY <1>2 DEF Refuse
    <2> HIDE DEF u
    <2> QED
      BY <2>1, <2>2, <2>3 DEF SessionsAgree, TypeOK
  <1>3. CASE UNCHANGED usage
    BY <1>3 DEF SessionsAgree
  <1>4. \/ \E h \in Handler : Admit(h) \/ Refuse(h)
        \/ UNCHANGED usage
    BY DEF Next, HandleTool, ReadClock, FinishWork, NextTurn, Tick, vars
  <1> QED
    BY <1>1, <1>2, <1>3, <1>4

LEMMA InitAgrees == Init => SessionsAgree
  <1> SUFFICES ASSUME Init, NEW s \in McpSession PROVE Agrees(usage[s])
    BY DEF SessionsAgree
  <1>1. usage[s].callCount = 0 /\ \A a \in Args : usage[s].argumentHit[a] = 0
    BY DEF Init, Unused
  <1>2. Hits(usage[s]) = {}
    BY <1>1, NoHits
  <1> QED
    BY <1>1, <1>2, FS_EmptySet DEF Agrees

\* The number of calls and the hits by arguments are two counts of the same calls:
\* resets, refusals and concurrent handlers never let them drift apart.
THEOREM TheCountsAgree == Spec => []CountsAgree
  <1>1. TypeOK /\ SessionsAgree /\ [Next]_vars => SessionsAgree'
    BY AgreeStep
  <1>2. SessionsAgree => CountsAgree
    BY DEF SessionsAgree, Agrees, CountsAgree
  <1> QED
    BY InitAgrees, <1>1, <1>2, UsageTypes, PTL DEF Spec
=============================================================================
