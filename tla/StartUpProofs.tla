--------------------------- MODULE StartUpProofs ---------------------------
(***************************************************************************)
(* Proofs about ToolPolicy, Config and Workspace, for all patterns and     *)
(* names, all configurations and environments, and all files.              *)
(***************************************************************************)
EXTENDS ToolPolicy, Config, Workspace, SequenceTheorems, WellFoundedInduction, TLAPS

-----------------------------------------------------------------------------
(* Induction.  That < is well founded on Nat is used with a set in the place *)
(* of a predicate.                                                           *)

\* A set of numbers that is not empty has a least member.
LEMMA LeastMember ==
    ASSUME NEW T \in SUBSET Nat, T # {}
    PROVE  \E n \in T : \A m \in T : n <= m
  <1>1. IsWellFoundedOn(OpToRel(<, Nat), Nat)
    BY NatLessThanWellFounded
  <1>2. PICK n \in T : \A m \in T : ~(<<m, n>> \in OpToRel(<, Nat))
    BY <1>1, WFMin
  <1>3. \A m \in T : ~(m < n)
    BY <1>2 DEF OpToRel
  <1> QED
    BY <1>3

\* A set that has 0, and a number's successor with it up to n, has all these.
LEMMA UpToInduction ==
    ASSUME NEW n \in Nat, NEW S, 0 \in S,
           \A i \in 0..n : i < n /\ i \in S => i + 1 \in S
    PROVE  \A i \in 0..n : i \in S
  <1> DEFINE T == {i \in Nat : i \in 0..n /\ i \notin S}
  <1> SUFFICES ASSUME T # {} PROVE FALSE
    OBVIOUS
  <1>1. T \in SUBSET Nat
    OBVIOUS
  <1> HIDE DEF T
  <1>2. PICK i \in T : \A j \in T : i <= j
    BY <1>1, LeastMember
  <1>3. i \in Nat /\ i \in 0..n /\ i \notin S
    BY <1>2 DEF T
  <1>4. i - 1 \in 0..n /\ i - 1 < n
    BY <1>3
  <1>5. i - 1 \notin T
    BY <1>2, <1>3
  <1>6. i - 1 \in S
    BY <1>4, <1>5 DEF T
  <1>7. i - 1 + 1 \in S
    BY <1>4, <1>6
  <1> QED
    BY <1>3, <1>7

\* K begins with a and goes on as step says.
Steps(K, n, a, step) == K[0] = a /\ \A i \in 1..n : K[i] = step[i][K[i - 1]]

\* There is such a function for every step.
LEMMA StepsDefine ==
    ASSUME NEW n \in Nat, NEW V, NEW a \in V, NEW step \in [1..n -> [V -> V]]
    PROVE  \E K \in [0..n -> V] : Steps(K, n, a, step)
  <1> DEFINE Has(m) == \E K \in [0..m -> V] : Steps(K, m, a, step)
  <1>1. Has(0)
    <2> DEFINE K == [i \in 0..0 |-> a]
    <2>1. K \in [0..0 -> V] /\ Steps(K, 0, a, step)
      BY DEF Steps
    <2> QED
      BY <2>1
  <1>2. ASSUME NEW m \in 0..n, m < n, Has(m)
        PROVE  Has(m + 1)
    <2>1. PICK K \in [0..m -> V] : Steps(K, m, a, step)
      BY <1>2
    <2> DEFINE L == [i \in 0..(m + 1) |-> IF i = m + 1 THEN step[m + 1][K[m]] ELSE K[i]]
    <2>2. m \in Nat /\ m \in 0..m /\ m + 1 \in 1..n
      BY <1>2
    <2>3. step[m + 1][K[m]] \in V
      BY <2>2
    <2>4. L \in [0..(m + 1) -> V] /\ L[0] = a
      BY <2>1, <2>2, <2>3 DEF Steps
    <2>5. \A i \in 1..(m + 1) : L[i] = step[i][L[i - 1]]
      <3> SUFFICES ASSUME NEW i \in 1..(m + 1) PROVE L[i] = step[i][L[i - 1]]
        OBVIOUS
      <3>1. L[i - 1] = K[i - 1]
        BY <2>2
      <3>2. CASE i = m + 1
        BY <2>2, <3>1, <3>2
      <3>3. CASE i # m + 1
        <4>1. i \in 1..m /\ L[i] = K[i]
          BY <2>2, <3>3
        <4> QED
          BY <2>1, <3>1, <4>1 DEF Steps
      <3> QED
        BY <3>2, <3>3
    <2> HIDE DEF L
    <2> QED
      BY <2>4, <2>5 DEF Steps
  <1> HIDE DEF Has
  <1> DEFINE S == {m \in 0..n : Has(m)}
  <1>3. 0 \in S
    BY <1>1
  <1>4. \A i \in 0..n : i < n /\ i \in S => i + 1 \in S
    BY <1>2
  <1> HIDE DEF S
  <1>5. \A i \in 0..n : i \in S
    BY <1>3, <1>4, UpToInduction
  <1>6. Has(n)
    BY <1>5 DEF S
  <1> QED
    BY <1>6 DEF Has

-----------------------------------------------------------------------------
(* Without *)

\* What the first elements of s leave.
Keeps(K, s, e) == K[0] = <<>> /\ \A i \in 1..Len(s) : K[i] = IF s[i] = e THEN K[i - 1]
                                                           ELSE Append(K[i - 1], s[i])

\* The function inside Without is the one its equation describes.
LEMMA WithoutSteps ==
    ASSUME NEW T, NEW s \in Seq(T), NEW e
    PROVE  \E K \in [0..Len(s) -> Seq(T)] : Keeps(K, s, e) /\ Without(s, e) = K[Len(s)]
  <1> DEFINE n == Len(s)
             step == [i \in 1..n |-> [z \in Seq(T) |-> IF s[i] = e THEN z ELSE Append(z, s[i])]]
             Eq(K) == K = [i \in 0..n |-> IF i = 0 THEN <<>>
                                          ELSE IF s[i] = e THEN K[i - 1]
                                          ELSE Append(K[i - 1], s[i])]
  <1>1. n \in Nat /\ (\A i \in 1..n : s[i] \in T) /\ <<>> \in Seq(T)
    OBVIOUS
  <1>2. step \in [1..n -> [Seq(T) -> Seq(T)]]
    BY <1>1
  <1>3. \A i \in 1..n, z \in Seq(T) : step[i][z] = IF s[i] = e THEN z ELSE Append(z, s[i])
    OBVIOUS
  <1> HIDE DEF n, step
  <1>4. PICK K \in [0..n -> Seq(T)] : Steps(K, n, <<>>, step)
    BY <1>1, <1>2, StepsDefine
  <1>5. \A i \in 1..n : i - 1 \in 0..n /\ K[i - 1] \in Seq(T)
    BY <1>1
  <1>6. \A i \in 1..n : K[i] = IF s[i] = e THEN K[i - 1] ELSE Append(K[i - 1], s[i])
    BY <1>3, <1>4, <1>5 DEF Steps
  <1>7. Eq(K)
    <2>1. \A i \in 0..n : i = 0 \/ i \in 1..n
      BY <1>1
    <2>2. \A i \in 0..n : K[i] = IF i = 0 THEN <<>> ELSE IF s[i] = e THEN K[i - 1]
                                                    ELSE Append(K[i - 1], s[i])
      BY <1>4, <1>6, <2>1 DEF Steps
    <2> QED
      BY <2>2
  <1> DEFINE C == CHOOSE X : Eq(X)
  <1>8. Eq(C)
    BY <1>7
  <1>9. Without(s, e) = C[n]
    BY DEF Without, n
  <1> HIDE DEF C
  <1>10. C = K
    <2> DEFINE S == {i \in 0..n : C[i] = K[i]}
    <2>1. 0 \in S
      BY <1>1, <1>4, <1>8 DEF Steps
    <2>2. ASSUME NEW i \in 0..n, i < n, C[i] = K[i]
          PROVE  C[i + 1] = K[i + 1]
      <3>1. i + 1 \in 1..n /\ i + 1 \in 0..n /\ i + 1 # 0 /\ (i + 1) - 1 = i
        BY <1>1, <2>2
      <3>2. C[i + 1] = IF s[i + 1] = e THEN C[i] ELSE Append(C[i], s[i + 1])
        BY <1>8, <3>1
      <3> QED
        BY <1>6, <2>2, <3>1, <3>2
    <2>3. \A i \in 0..n : i < n /\ i \in S => i + 1 \in S
      BY <1>1, <2>2
    <2>4. \A i \in 0..n : C[i] = K[i]
      <3> HIDE DEF S
      <3>1. \A i \in 0..n : i \in S
        BY <1>1, <2>1, <2>3, UpToInduction
      <3> QED
        BY <3>1 DEF S
    <2> QED
      BY <1>8, <2>4
  <1> QED
    BY <1>4, <1>6, <1>9, <1>10 DEF n, Steps, Keeps

\* It leaves nothing else out of the list, and e altogether.
LEMMA WithoutType ==
    ASSUME NEW T, NEW s \in Seq(T), NEW e
    PROVE  Without(s, e) \in Seq(T \ {e})
  <1> DEFINE n == Len(s)
  <1>1. PICK K \in [0..n -> Seq(T)] : Keeps(K, s, e) /\ Without(s, e) = K[n]
    BY WithoutSteps
  <1>2. n \in Nat /\ \A i \in 1..n : s[i] \in T
    OBVIOUS
  <1> DEFINE S == {i \in 0..n : K[i] \in Seq(T \ {e})}
  <1>3. 0 \in S
    BY <1>1, <1>2 DEF Keeps
  <1>4. ASSUME NEW i \in 0..n, i < n, K[i] \in Seq(T \ {e})
        PROVE  K[i + 1] \in Seq(T \ {e})
    <2>1. i + 1 \in 1..n /\ (i + 1) - 1 = i
      BY <1>2, <1>4
    <2>2. K[i + 1] = IF s[i + 1] = e THEN K[i] ELSE Append(K[i], s[i + 1])
      BY <1>1, <2>1 DEF Keeps
    <2>3. s[i + 1] \in T
      BY <1>2, <2>1
    <2> QED
      BY <1>4, <2>2, <2>3
  <1>5. \A i \in 0..n : i < n /\ i \in S => i + 1 \in S
    BY <1>2, <1>4
  <1> HIDE DEF S
  <1>6. \A i \in 0..n : i \in S
    BY <1>2, <1>3, <1>5, UpToInduction
  <1> QED
    BY <1>1, <1>2, <1>6 DEF S

-----------------------------------------------------------------------------
(* Patterns *)

NoStar(p, x, k) == \A i \in 1..k : p[x + i] # Star

\* Behind a cut the ends go on: by one for each character that is not a star, ...
LEMMA CutsStep ==
    ASSUME NEW p, NEW v, NEW m \in Nat, NEW n \in Nat, NEW j,
           NEW ends \in [0..m -> 0..n], Cuts(ends, p, m, v, j),
           NEW x \in 0..m, NEW k \in Nat, x + k <= m,
           NoStar(p, x, k)
    PROVE  ends[x + k] = ends[x] + k
  <1> DEFINE S == {i \in 0..k : ends[x + i] = ends[x] + i}
  <1>1. 0 \in S
    OBVIOUS
  <1>2. ASSUME NEW i \in 0..k, i < k, ends[x + i] = ends[x] + i
        PROVE  ends[x + (i + 1)] = ends[x] + (i + 1)
    <2>1. x + (i + 1) \in 1..m /\ x + (i + 1) - 1 = x + i /\ i + 1 \in 1..k
      BY <1>2
    <2>2. p[x + (i + 1)] # Star
      BY <2>1 DEF NoStar
    <2>3. ends[x + (i + 1)] = ends[x + i] + 1
      BY <2>1, <2>2 DEF Cuts
    <2>4. ends[x] \in Int /\ x + i + 1 = x + (i + 1)
      OBVIOUS
    <2> QED
      BY <1>2, <2>3, <2>4
  <1>3. \A i \in 0..k : i < k /\ i \in S => i + 1 \in S
    BY <1>2
  <1> HIDE DEF S
  <1>4. \A i \in 0..k : i \in S
    BY <1>1, <1>3, UpToInduction
  <1> QED
    BY <1>4 DEF S

\* ... and never back.
LEMMA CutsRise ==
    ASSUME NEW p, NEW v, NEW m \in Nat, NEW n \in Nat, NEW j,
           NEW ends \in [0..m -> 0..n], Cuts(ends, p, m, v, j),
           NEW x \in 0..m, NEW k \in Nat, x + k <= m
    PROVE  ends[x] <= ends[x + k]
  <1> DEFINE S == {i \in 0..k : ends[x] <= ends[x + i]}
  <1>1. 0 \in S
    OBVIOUS
  <1>2. ASSUME NEW i \in 0..k, i < k, ends[x] <= ends[x + i]
        PROVE  ends[x] <= ends[x + (i + 1)]
    <2>1. x + (i + 1) \in 1..m /\ x + (i + 1) - 1 = x + i
      BY <1>2
    <2>2. ends[x + i] <= ends[x + (i + 1)]
      BY <2>1 DEF Cuts
    <2> QED
      BY <1>2, <2>1, <2>2
  <1>3. \A i \in 0..k : i < k /\ i \in S => i + 1 \in S
    BY <1>2
  <1> HIDE DEF S
  <1>4. \A i \in 0..k : i \in S
    BY <1>1, <1>3, UpToInduction
  <1> QED
    BY <1>4 DEF S

\* A round of matchToolPattern: i characters of p and j of v are behind it, the last
\* star is at a (none is when a = 0), and what is before and in it took s characters.
Behind(p, v, i, j, a, s) ==
    /\ i \in 0..Len(p) /\ j \in 0..Len(v) /\ a \in 0..i /\ s \in 0..j
    /\ i - a = j - s
    /\ a > 0 => p[a] = Star

\* The characters since the star are equal, ...
EqualSince(p, v, i, a, s) == \A k \in 1..(i - a) : p[a + k] # Star /\ p[a + k] = v[s + k]

\* ... v can be cut up to the star, ...
CanEnd(p, v, a, s) == \E ends \in [0..a -> 0..Len(v)] : Cuts(ends, p, a, v, s)

\* ... and no way of cutting all of v has the star end earlier: that is why going back
\* to an earlier star is never needed.
EndsNoEarlier(p, v, a, s) ==
    \A ends \in [0..Len(p) -> 0..Len(v)] : Cuts(ends, p, Len(p), v, Len(v)) => ends[a] >= s

Round(p, v, i, j, a, s) == /\ Behind(p, v, i, j, a, s)
                           /\ EqualSince(p, v, i, a, s)
                           /\ CanEnd(p, v, a, s)
                           /\ EndsNoEarlier(p, v, a, s)

\* The loop begins with nothing behind it.
LEMMA RoundFirst ==
    ASSUME NEW C, NEW p \in Seq(C), NEW v \in Seq(C)
    PROVE  Round(p, v, 0, 0, 0, 0)
  <1>1. Len(p) \in Nat /\ Len(v) \in Nat
    OBVIOUS
  <1> DEFINE none == [k \in 0..0 |-> 0]
  <1>2. none \in [0..0 -> 0..Len(v)] /\ Cuts(none, p, 0, v, 0)
    BY <1>1 DEF Cuts
  <1>3. \A ends \in [0..Len(p) -> 0..Len(v)] : ends[0] >= 0
    BY <1>1
  <1> HIDE DEF none
  <1> QED
    BY <1>1, <1>2, <1>3 DEF Round, Behind, EqualSince, CanEnd, EndsNoEarlier

\* Any way of cutting has the characters since the star where they are, or later.
LEMMA RoundEnds ==
    ASSUME NEW C, NEW p \in Seq(C), NEW v \in Seq(C),
           NEW i, NEW j, NEW a, NEW s, Round(p, v, i, j, a, s),
           NEW ends \in [0..Len(p) -> 0..Len(v)], Cuts(ends, p, Len(p), v, Len(v))
    PROVE  ends[i] = ends[a] + (i - a) /\ ends[a] >= s /\ ends[i] >= j
  <1>1. /\ Len(p) \in Nat /\ Len(v) \in Nat
        /\ i \in 0..Len(p) /\ j \in 0..Len(v) /\ a \in 0..i /\ s \in 0..j /\ i - a = j - s
    BY DEF Round, Behind
  <1>2. PICK n \in Nat : n = i - a /\ a + n = i /\ a \in 0..Len(p) /\ a + n <= Len(p)
    BY <1>1
  <1>3. NoStar(p, a, n)
    BY <1>2 DEF Round, EqualSince, NoStar
  <1>4. ends[a + n] = ends[a] + n
    <2>1. /\ Len(p) \in Nat /\ Len(v) \in Nat
          /\ n \in Nat /\ a \in 0..Len(p) /\ a + n <= Len(p)
      BY <1>1, <1>2
    <2> QED
      BY <1>3, <2>1, CutsStep, Zenon
  <1>5. ends[a] >= s
    BY DEF Round, EndsNoEarlier
  <1>6. ends[a] \in 0..Len(v)
    BY <1>2
  <1> QED
    BY <1>1, <1>2, <1>4, <1>5, <1>6

\* A star: it may stand for nothing so far.
LEMMA RoundStar ==
    ASSUME NEW C, NEW p \in Seq(C), NEW v \in Seq(C),
           NEW i, NEW j, NEW a, NEW s, Round(p, v, i, j, a, s),
           i < Len(p), p[i + 1] = Star
    PROVE  Round(p, v, i + 1, j, i + 1, j)
  <1>1. /\ Len(p) \in Nat /\ Len(v) \in Nat
        /\ i \in 0..Len(p) /\ j \in 0..Len(v) /\ a \in 0..i /\ s \in 0..j /\ i - a = j - s
        /\ \A k \in 1..(i - a) : p[a + k] # Star /\ p[a + k] = v[s + k]
    BY DEF Round, Behind, EqualSince
  <1>2. PICK ends \in [0..a -> 0..Len(v)] : Cuts(ends, p, a, v, s)
    BY DEF Round, CanEnd
  <1> DEFINE more == [k \in 0..(i + 1) |-> IF k <= a THEN ends[k]
                                           ELSE IF k <= i THEN s + (k - a) ELSE j]
  <1>3. /\ \A k \in 0..a : more[k] = ends[k]
        /\ \A k \in 0..(i + 1) : a < k /\ k <= i => more[k] = s + (k - a)
        /\ more[i + 1] = j
    BY <1>1
  <1>4. more \in [0..(i + 1) -> 0..Len(v)]
    <2>1. ASSUME NEW k \in 0..(i + 1) PROVE more[k] \in 0..Len(v)
      <3>1. CASE k <= a
        BY <1>1, <1>2, <3>1
      <3>2. CASE a < k /\ k <= i
        BY <1>1, <3>2
      <3>3. CASE k = i + 1
        BY <1>1, <1>3, <3>3
      <3> QED
        BY <1>1, <3>1, <3>2, <3>3
    <2> QED
      BY <2>1
  <1> HIDE DEF more
  <1>5. Cuts(more, p, i + 1, v, j)
    <2>1. more[0] = 0 /\ ends[a] = s
      BY <1>1, <1>2, <1>3 DEF Cuts
    <2>2. ASSUME NEW k \in 1..(i + 1)
          PROVE  IF p[k] = Star THEN more[k - 1] <= more[k]
                 ELSE more[k] = more[k - 1] + 1 /\ v[more[k]] = p[k]
      <3>1. CASE k <= a
        <4>1. k \in 1..a /\ k \in 0..a /\ k - 1 \in 0..a
          BY <1>1, <3>1
        <4>2. more[k] = ends[k] /\ more[k - 1] = ends[k - 1]
          BY <1>3, <4>1
        <4> QED
          BY <1>2, <4>1, <4>2 DEF Cuts
      <3>2. CASE a < k /\ k <= i
        <4>1. k - a \in 1..(i - a) /\ a + (k - a) = k
          BY <1>1, <3>2
        <4>2. p[k] # Star /\ p[k] = v[s + (k - a)]
          BY <1>1, <4>1
        <4>3. more[k] = s + (k - a)
          BY <1>1, <1>3, <3>2
        <4>4. more[k - 1] = s + (k - a) - 1
          <5>1. CASE k - 1 = a
            BY <1>1, <1>3, <2>1, <5>1
          <5>2. CASE k - 1 # a
            <6>1. a < k - 1 /\ k - 1 <= i /\ k - 1 \in 0..i
              BY <1>1, <3>2, <5>2
            <6> QED
              BY <1>1, <1>3, <6>1
          <5> QED
            BY <5>1, <5>2
        <4> QED
          BY <1>1, <4>1, <4>2, <4>3, <4>4
      <3>3. CASE k = i + 1
        <4>1. more[i] = j
          <5>1. CASE i = a
            BY <1>1, <1>3, <2>1, <5>1
          <5>2. CASE i # a
            <6>1. a < i /\ i \in 0..(i + 1) /\ more[i] = s + (i - a)
              BY <1>1, <1>3, <5>2
            <6> QED
              BY <1>1, <6>1
          <5> QED
            BY <5>1, <5>2
        <4> QED
          BY <1>1, <1>3, <3>3, <4>1
      <3> QED
        BY <1>1, <3>1, <3>2, <3>3
    <2> QED
      BY <1>3, <2>1, <2>2 DEF Cuts
  <1>6. ASSUME NEW all \in [0..Len(p) -> 0..Len(v)], Cuts(all, p, Len(p), v, Len(v))
        PROVE  all[i + 1] >= j
    <2>1. all[i] >= j
      BY <1>6, RoundEnds
    <2>2. i + 1 \in 1..Len(p) /\ (i + 1) - 1 = i /\ i \in 0..Len(p) /\ i + 1 \in 0..Len(p)
      BY <1>1
    <2>3. all[i] <= all[i + 1]
      BY <1>6, <2>2 DEF Cuts
    <2>4. all[i] \in 0..Len(v) /\ all[i + 1] \in 0..Len(v)
      BY <2>2
    <2> QED
      BY <1>1, <2>1, <2>3, <2>4
  <1>7. i + 1 \in 0..Len(p) /\ i + 1 \in 0..(i + 1) /\ (i + 1) - (i + 1) = 0 /\ j - j = 0
    BY <1>1
  <1>8. j \in 0..j
    BY <1>1
  <1>9. \E e \in [0..(i + 1) -> 0..Len(v)] : Cuts(e, p, i + 1, v, j)
    BY <1>4, <1>5
  <1>10. Behind(p, v, i + 1, j, i + 1, j)
    BY <1>1, <1>7, <1>8 DEF Behind
  <1>11. EqualSince(p, v, i + 1, i + 1, j)
    BY <1>7 DEF EqualSince
  <1> QED
    BY <1>6, <1>9, <1>10, <1>11 DEF Round, CanEnd, EndsNoEarlier

\* Equal characters.
LEMMA RoundEqual ==
    ASSUME NEW C, NEW p \in Seq(C), NEW v \in Seq(C),
           NEW i, NEW j, NEW a, NEW s, Round(p, v, i, j, a, s),
           i < Len(p), j < Len(v), p[i + 1] # Star, p[i + 1] = v[j + 1]
    PROVE  Round(p, v, i + 1, j + 1, a, s)
  <1>1. /\ Len(p) \in Nat /\ Len(v) \in Nat
        /\ i \in 0..Len(p) /\ j \in 0..Len(v) /\ a \in 0..i /\ s \in 0..j /\ i - a = j - s
        /\ \A k \in 1..(i - a) : p[a + k] # Star /\ p[a + k] = v[s + k]
    BY DEF Round, Behind, EqualSince
  <1>2. ASSUME NEW k \in 1..((i + 1) - a)
        PROVE  p[a + k] # Star /\ p[a + k] = v[s + k]
    <2>1. CASE k \in 1..(i - a)
      BY <1>1, <2>1
    <2>2. CASE k = (i + 1) - a
      BY <1>1, <2>2
    <2> QED
      BY <1>1, <2>1, <2>2
  <1>3. /\ i + 1 \in 0..Len(p) /\ j + 1 \in 0..Len(v) /\ a \in 0..(i + 1) /\ s \in 0..(j + 1)
        /\ (i + 1) - a = (j + 1) - s
    BY <1>1
  <1> QED
    BY <1>2, <1>3 DEF Round, Behind, EqualSince

\* Where characters differ, or p is used up, no way of cutting has the star end here.
LEMMA RoundDiffers ==
    ASSUME NEW C, NEW p \in Seq(C), NEW v \in Seq(C),
           NEW i, NEW j, NEW a, NEW s, Round(p, v, i, j, a, s), j < Len(v),
           i < Len(p) => p[i + 1] # Star /\ p[i + 1] # v[j + 1],
           NEW ends \in [0..Len(p) -> 0..Len(v)], Cuts(ends, p, Len(p), v, Len(v))
    PROVE  ends[a] > s
  <1>1. /\ Len(p) \in Nat /\ Len(v) \in Nat
        /\ i \in 0..Len(p) /\ j \in 0..Len(v) /\ a \in 0..i /\ s \in 0..j /\ i - a = j - s
    BY DEF Round, Behind, EqualSince
  <1>2. ends[i] = ends[a] + (i - a) /\ ends[a] >= s
    BY RoundEnds
  <1>3. ends[a] \in Nat /\ ends[i] \in Nat
    <2>1. a \in 0..Len(p)
      BY <1>1
    <2> QED
      BY <1>1, <2>1
  <1> SUFFICES ASSUME ends[a] = s PROVE FALSE
    BY <1>1, <1>2, <1>3
  <1>4. ends[i] = j
    BY <1>1, <1>2
  <1>5. CASE i < Len(p)
    <2>1. i + 1 \in 1..Len(p) /\ (i + 1) - 1 = i
      BY <1>1, <1>5
    <2>2. ends[i + 1] = ends[i] + 1 /\ v[ends[i + 1]] = p[i + 1]
      BY <1>5, <2>1 DEF Cuts
    <2> QED
      BY <1>4, <1>5, <2>2
  <1>6. CASE i = Len(p)
    BY <1>1, <1>4, <1>6 DEF Cuts
  <1> QED
    BY <1>1, <1>5, <1>6

\* Then the star takes a character more, ...
LEMMA RoundRetry ==
    ASSUME NEW C, NEW p \in Seq(C), NEW v \in Seq(C),
           NEW i, NEW j, NEW a, NEW s, Round(p, v, i, j, a, s), j < Len(v), a > 0,
           i < Len(p) => p[i + 1] # Star /\ p[i + 1] # v[j + 1]
    PROVE  Round(p, v, a, s + 1, a, s + 1)
  <1>1. /\ Len(p) \in Nat /\ Len(v) \in Nat
        /\ i \in 0..Len(p) /\ j \in 0..Len(v) /\ a \in 0..i /\ s \in 0..j /\ i - a = j - s
        /\ p[a] = Star
    BY DEF Round, Behind, EqualSince
  <1>2. PICK ends \in [0..a -> 0..Len(v)] : Cuts(ends, p, a, v, s)
    BY DEF Round, CanEnd
  <1> DEFINE longer == [ends EXCEPT ![a] = s + 1]
  <1>3. longer \in [0..a -> 0..Len(v)] /\ longer[a] = s + 1
        /\ \A k \in 0..a : k # a => longer[k] = ends[k]
    BY <1>1
  <1> HIDE DEF longer
  <1>4. Cuts(longer, p, a, v, s + 1)
    <2>1. longer[0] = 0
      BY <1>1, <1>2, <1>3 DEF Cuts
    <2>2. ASSUME NEW k \in 1..a
          PROVE  IF p[k] = Star THEN longer[k - 1] <= longer[k]
                 ELSE longer[k] = longer[k - 1] + 1 /\ v[longer[k]] = p[k]
      <3>1. k - 1 \in 0..a /\ k \in 0..a /\ k - 1 # a /\ longer[k - 1] = ends[k - 1]
        BY <1>1, <1>3
      <3>2. CASE k = a
        <4>1. a \in 1..a /\ p[a] = Star
          BY <1>1, <3>2
        <4>2. ends[a - 1] <= ends[a] /\ ends[a] = s
          BY <1>2, <4>1 DEF Cuts
        <4>3. ends[a - 1] \in 0..Len(v)
          BY <3>1, <3>2
        <4> QED
          BY <1>1, <1>3, <3>1, <3>2, <4>2, <4>3
      <3>3. CASE k # a
        <4>1. longer[k] = ends[k]
          BY <1>3, <3>1, <3>3
        <4> QED
          BY <1>2, <3>1, <4>1 DEF Cuts
      <3> QED
        BY <3>2, <3>3
    <2> QED
      BY <1>3, <2>1, <2>2 DEF Cuts
  <1>5. ASSUME NEW all \in [0..Len(p) -> 0..Len(v)], Cuts(all, p, Len(p), v, Len(v))
        PROVE  all[a] >= s + 1
    <2>1. all[a] > s
      BY <1>5, RoundDiffers
    <2>2. a \in 0..Len(p)
      BY <1>1
    <2>3. all[a] \in 0..Len(v)
      BY <2>2
    <2> QED
      BY <1>1, <2>1, <2>3
  <1>6. /\ a \in 0..Len(p) /\ s + 1 \in 0..Len(v) /\ a \in 0..a /\ s + 1 \in 0..(s + 1)
        /\ a - a = (s + 1) - (s + 1) /\ 1..(a - a) = {}
    BY <1>1
  <1>7. \E e \in [0..a -> 0..Len(v)] : Cuts(e, p, a, v, s + 1)
    BY <1>3, <1>4
  <1> QED
    BY <1>1, <1>5, <1>6, <1>7 DEF Round, Behind, EqualSince, CanEnd, EndsNoEarlier

\* ... and without a star there is no match.
LEMMA RoundFails ==
    ASSUME NEW C, NEW p \in Seq(C), NEW v \in Seq(C),
           NEW i, NEW j, NEW s, Round(p, v, i, j, 0, s), j < Len(v),
           i < Len(p) => p[i + 1] # Star /\ p[i + 1] # v[j + 1]
    PROVE  ~Matches(p, v)
  <1> SUFFICES ASSUME NEW ends \in [0..Len(p) -> 0..Len(v)], Cuts(ends, p, Len(p), v, Len(v))
               PROVE  FALSE
    BY DEF Matches
  <1>1. ends[0] > s /\ s \in Nat
    BY RoundDiffers DEF Round, Behind
  <1> QED
    BY <1>1 DEF Cuts

\* At the end of v there is a match when only stars are left of p.
LEMMA RoundLast ==
    ASSUME NEW C, NEW p \in Seq(C), NEW v \in Seq(C),
           NEW i, NEW a, NEW s, Round(p, v, i, Len(v), a, s)
    PROVE  Matches(p, v) <=> \A k \in (i + 1)..Len(p) : p[k] = Star
  <1>1. /\ Len(p) \in Nat /\ Len(v) \in Nat
        /\ i \in 0..Len(p) /\ a \in 0..i /\ s \in 0..Len(v) /\ i - a = Len(v) - s
        /\ \A k \in 1..(i - a) : p[a + k] # Star /\ p[a + k] = v[s + k]
    BY DEF Round, Behind, EqualSince
  <1>2. ASSUME NEW ends \in [0..Len(p) -> 0..Len(v)], Cuts(ends, p, Len(p), v, Len(v)),
               NEW q \in (i + 1)..Len(p), p[q] # Star
        PROVE  FALSE
    <2>1. ends[i] >= Len(v)
      BY <1>2, RoundEnds
    <2>2. q - 1 - i \in Nat /\ i + (q - 1 - i) = q - 1 /\ q - 1 <= Len(p) /\ q \in 1..Len(p)
          /\ q - 1 \in 0..Len(p) /\ q \in 0..Len(p)
      BY <1>1
    <2>3. ends[i] <= ends[i + (q - 1 - i)]
      BY <1>1, <1>2, <2>2, CutsRise
    <2>4. ends[q] = ends[q - 1] + 1
      BY <1>2, <2>2 DEF Cuts
    <2>5. ends[q] \in 0..Len(v) /\ ends[q - 1] \in 0..Len(v) /\ ends[i] \in 0..Len(v)
      BY <1>1, <2>2
    <2> QED
      BY <1>1, <2>1, <2>2, <2>3, <2>4, <2>5
  <1>3. ASSUME \A k \in (i + 1)..Len(p) : p[k] = Star
        PROVE  Matches(p, v)
    <2>1. PICK ends \in [0..a -> 0..Len(v)] : Cuts(ends, p, a, v, s)
      BY DEF Round, CanEnd
    <2> DEFINE more == [k \in 0..Len(p) |-> IF k <= a THEN ends[k]
                                            ELSE IF k <= i THEN s + (k - a) ELSE Len(v)]
    <2>2. /\ \A k \in 0..a : more[k] = ends[k]
          /\ \A k \in 0..Len(p) : a < k /\ k <= i => more[k] = s + (k - a)
          /\ \A k \in 0..Len(p) : k > i => more[k] = Len(v)
      BY <1>1
    <2>3. more \in [0..Len(p) -> 0..Len(v)]
      <3>1. ASSUME NEW k \in 0..Len(p) PROVE more[k] \in 0..Len(v)
        <4>1. CASE k <= a
          BY <1>1, <2>1, <4>1
        <4>2. CASE a < k /\ k <= i
          BY <1>1, <4>2
        <4>3. CASE k > i
          BY <1>1, <2>2, <4>3
        <4> QED
          BY <1>1, <4>1, <4>2, <4>3
      <3> QED
        BY <3>1
    <2> HIDE DEF more
    <2>4. more[0] = 0 /\ ends[a] = s
      BY <1>1, <2>1, <2>2 DEF Cuts
    <2>5. more[i] = Len(v)
      <3>1. CASE i = a
        BY <1>1, <2>2, <2>4, <3>1
      <3>2. CASE i # a
        BY <1>1, <2>2, <3>2
      <3> QED
        BY <3>1, <3>2
    <2>6. more[Len(p)] = Len(v)
      BY <1>1, <2>2, <2>5
    <2>7. ASSUME NEW k \in 1..Len(p)
          PROVE  IF p[k] = Star THEN more[k - 1] <= more[k]
                 ELSE more[k] = more[k - 1] + 1 /\ v[more[k]] = p[k]
      <3>1. CASE k <= a
        <4>1. k \in 1..a /\ k \in 0..a /\ k - 1 \in 0..a
          BY <1>1, <3>1
        <4>2. more[k] = ends[k] /\ more[k - 1] = ends[k - 1]
          BY <2>2, <4>1
        <4> QED
          BY <2>1, <4>1, <4>2 DEF Cuts
      <3>2. CASE a < k /\ k <= i
        <4>1. k - a \in 1..(i - a) /\ a + (k - a) = k
          BY <1>1, <3>2
        <4>2. p[k] # Star /\ p[k] = v[s + (k - a)]
          BY <1>1, <4>1
        <4>3. more[k] = s + (k - a)
          BY <1>1, <2>2, <3>2
        <4>4. more[k - 1] = s + (k - a) - 1
          <5>1. CASE k - 1 = a
            BY <1>1, <2>2, <2>4, <5>1
          <5>2. CASE k - 1 # a
            <6>1. a < k - 1 /\ k - 1 <= i /\ k - 1 \in 0..i
              BY <1>1, <3>2, <5>2
            <6> QED
              BY <1>1, <2>2, <6>1
          <5> QED
            BY <5>1, <5>2
        <4> QED
          BY <1>1, <4>1, <4>2, <4>3, <4>4
      <3>3. CASE k > i
        <4>1. k \in (i + 1)..Len(p) /\ k \in 0..Len(p) /\ k - 1 \in 0..Len(p)
          BY <1>1, <3>3
        <4>2. p[k] = Star
          BY <1>3, <4>1
        <4>3. more[k] = Len(v) /\ more[k - 1] = Len(v)
          BY <1>1, <2>2, <2>5, <3>3, <4>1
        <4> QED
          BY <1>1, <4>2, <4>3
      <3> QED
        BY <1>1, <3>1, <3>2, <3>3
    <2>8. Cuts(more, p, Len(p), v, Len(v))
      BY <2>4, <2>6, <2>7 DEF Cuts
    <2> QED
      BY <2>3, <2>8 DEF Matches
  <1> QED
    BY <1>2, <1>3 DEF Matches

-----------------------------------------------------------------------------
(* ToolPolicy *)

Character == Letter \cup {Star}

\* The state's own round.
AtRound == Round(Pattern, name, patternIndex, valueIndex, starPatternIndex + 1, starValueIndex)

\* None of the first n patterns matches the name.
NoneOf(patterns, n) == \A i \in 1..n : ~Matches(patterns[i], name)

\* How many patterns of the list have been tried to the end.
Failed == IF matching THEN tried - 1 ELSE tried

Searching ==
    /\ matching => verdict = "open" /\ AtRound
    /\ tried > 0 => name # <<>>
    /\ verdict = "open" =>
          \/ list = "deny" /\ NoneOf(deny, Failed)
          \/ /\ list = "allow" /\ allow # <<>> /\ name # <<>>
             /\ NoneOf(deny, Len(deny)) /\ NoneOf(allow, Failed)

PolicyInv == TypeOK /\ Searching /\ VerdictIsRight

\* What the types say of the pattern that is being tried.
LEMMA PatternType ==
    ASSUME TypeOK, tried \in 1..Len(Patterns)
    PROVE  Pattern \in Seq(Character) /\ name \in Seq(Character)
  <1>1. Patterns \in Seq(Seq(Character) \ {<<>>})
    BY DEF TypeOK, Patterns, Character
  <1>2. name \in Seq(Letter)
    BY PolicyAssumption DEF TypeOK
  <1>3. name \in Seq(Character)
    BY <1>2 DEF Character
  <1>4. Patterns[tried] \in Seq(Character) \ {<<>>}
    BY <1>1
  <1> QED
    BY <1>3, <1>4 DEF Pattern

LEMMA PolicyInit == Init => PolicyInv
  <1> SUFFICES ASSUME Init PROVE PolicyInv
    OBVIOUS
  <1> USE DEF Init
  <1>1. PICK x \in AllowList, y \in DenyList : allow = Normalized(x) /\ deny = Normalized(y)
    OBVIOUS
  <1>2. x \in Seq(Seq(Character)) /\ y \in Seq(Seq(Character))
    BY PolicyAssumption DEF Character
  <1>3. /\ allow \in Seq(Seq(Character) \ {<<>>})
        /\ deny \in Seq(Seq(Character) \ {<<>>})
    BY <1>1, <1>2, WithoutType DEF Normalized
  <1>4. Len(deny) \in Nat /\ Patterns = deny
    BY <1>3 DEF Patterns
  <1>5. TypeOK
    <2>1. tried \in 0..Len(Patterns)
      BY <1>4
    <2>2. name \in Name /\ list \in {"allow", "deny"} /\ matching \in BOOLEAN
          /\ verdict \in {"open", "allowed", "denied"} /\ ~matching
      OBVIOUS
    <2> QED
      BY <1>3, <2>1, <2>2, Zenon DEF TypeOK, Character
  <1>6. Searching
    BY DEF Searching, NoneOf, Failed
  <1>7. VerdictIsRight
    BY DEF VerdictIsRight
  <1> QED
    BY <1>5, <1>6, <1>7 DEF PolicyInv

\* What the round says when the loop goes on with the pattern it has.
LEMMA RoundType ==
    ASSUME TypeOK, matching, Searching
    PROVE  /\ tried \in 1..Len(Patterns)
           /\ Pattern \in Seq(Character) /\ name \in Seq(Character)
           /\ Len(Pattern) \in Nat /\ Len(name) \in Nat
           /\ patternIndex \in 0..Len(Pattern) /\ valueIndex \in 0..Len(name)
           /\ starPatternIndex \in Int /\ starPatternIndex >= -1
           /\ starPatternIndex < patternIndex
           /\ starValueIndex \in 0..valueIndex
           /\ AtRound
           /\ verdict = "open"
           /\ name # <<>>
  <1>1. tried \in 1..Len(Patterns)
    <2>1. Len(Patterns) \in Nat
      BY DEF TypeOK, Patterns
    <2> QED
      BY <2>1 DEF TypeOK
  <1>2. Pattern \in Seq(Character) /\ name \in Seq(Character)
    BY <1>1, PatternType
  <1>3. Len(Pattern) \in Nat /\ Len(name) \in Nat
    BY <1>2
  <1>4. AtRound /\ verdict = "open"
    BY DEF Searching
  <1>5. starValueIndex \in 0..valueIndex
    BY <1>4 DEF AtRound, Round, Behind
  <1>6. name # <<>>
    BY <1>1 DEF Searching
  <1> QED
    BY <1>1, <1>2, <1>3, <1>4, <1>5, <1>6 DEF TypeOK

\* Nothing is left to show of a step that keeps the pattern but the new round.
LEMMA RoundGoesOn ==
    ASSUME PolicyInv, matching, matching', verdict' = verdict,
           UNCHANGED <<policyVars, list, tried>>,
           patternIndex' \in 0..Len(Pattern), valueIndex' \in 0..Len(name),
           starPatternIndex' \in -1..patternIndex' - 1, starValueIndex' \in 0..Len(name),
           Round(Pattern, name, patternIndex', valueIndex', starPatternIndex' + 1,
                 starValueIndex')
    PROVE  PolicyInv'
  <1>1. UNCHANGED <<allow, deny, name, list, tried>>
    BY DEF policyVars
  <1>2. Patterns' = Patterns /\ Pattern' = Pattern
    BY <1>1 DEF Patterns, Pattern
  <1>3. TypeOK'
    BY <1>1, <1>2 DEF PolicyInv, TypeOK
  <1>4. AtRound'
    BY <1>1, <1>2 DEF AtRound
  <1>5. verdict = "open"
    BY DEF PolicyInv, Searching
  <1>6. Searching'
    BY <1>1, <1>4, <1>5 DEF PolicyInv, Searching, NoneOf, Failed
  <1>7. VerdictIsRight'
    BY <1>5 DEF VerdictIsRight
  <1> QED
    BY <1>3, <1>6, <1>7 DEF PolicyInv

\* A pattern that does not match adds one to those that failed.
LEMMA OneMoreFails ==
    ASSUME PolicyInv, matching, matching' = FALSE, verdict' = "open",
           UNCHANGED <<policyVars, list, tried>>, ~Matches(Pattern, name)
    PROVE  PolicyInv'
  <1>1. UNCHANGED <<allow, deny, name, list, tried>>
    BY DEF policyVars
  <1>2. Patterns' = Patterns
    BY <1>1 DEF Patterns
  <1>3. TypeOK'
    BY <1>1, <1>2 DEF PolicyInv, TypeOK
  <1>4. tried \in 1..Len(Patterns) /\ Len(Patterns) \in Nat /\ name # <<>> /\ verdict = "open"
    BY RoundType DEF PolicyInv
  <1>5. ASSUME NoneOf(Patterns, tried - 1)
        PROVE  NoneOf(Patterns, tried)
    <2> SUFFICES ASSUME NEW i \in 1..tried PROVE ~Matches(Patterns[i], name)
      BY DEF NoneOf
    <2>1. CASE i = tried
      BY <2>1 DEF Pattern
    <2>2. CASE i # tried
      BY <1>4, <1>5, <2>2 DEF NoneOf
    <2> QED
      BY <2>1, <2>2
  <1>6. Searching'
    <2>1. CASE list = "deny"
      BY <1>1, <1>4, <1>5, <2>1 DEF PolicyInv, Searching, Failed, NoneOf, Patterns
    <2>2. CASE list # "deny"
      BY <1>1, <1>4, <1>5, <2>2 DEF PolicyInv, Searching, Failed, NoneOf, Patterns
    <2> QED
      BY <2>1, <2>2
  <1>7. VerdictIsRight'
    BY DEF VerdictIsRight
  <1> QED
    BY <1>3, <1>6, <1>7 DEF PolicyInv

LEMMA RefuseNoNameStep == PolicyInv /\ RefuseNoName => PolicyInv'
  <1> SUFFICES ASSUME PolicyInv, RefuseNoName PROVE PolicyInv'
    OBVIOUS
  <1>1. /\ UNCHANGED <<allow, deny, name, list, tried, matching>>
        /\ UNCHANGED <<patternIndex, valueIndex, starPatternIndex, starValueIndex>>
        /\ name = <<>> /\ verdict' = "denied"
    BY DEF RefuseNoName, policyVars, indexVars
  <1>2. ~matching
    BY <1>1, RoundType DEF PolicyInv
  <1>3. TypeOK'
    BY <1>1, <1>2 DEF PolicyInv, TypeOK, Patterns
  <1>4. Searching'
    BY <1>1, <1>2 DEF PolicyInv, Searching
  <1>5. VerdictIsRight'
    BY <1>1 DEF VerdictIsRight
  <1> QED
    BY <1>3, <1>4, <1>5 DEF PolicyInv

LEMMA TryNextStep == PolicyInv /\ TryNext => PolicyInv'
  <1> SUFFICES ASSUME PolicyInv, TryNext PROVE PolicyInv'
    OBVIOUS
  <1> USE DEF TryNext
  <1>1. UNCHANGED <<allow, deny, name, list, verdict>>
    BY DEF policyVars
  <1>2. Patterns' = Patterns
    BY <1>1 DEF Patterns
  <1>3. tried \in 0..Len(Patterns) /\ Len(Patterns) \in Nat
    BY DEF PolicyInv, TypeOK, Patterns
  <1>4. tried + 1 \in 1..Len(Patterns) /\ Len(Patterns)' = Len(Patterns)
    BY <1>2, <1>3
  <1>5. Pattern' \in Seq(Character) /\ name \in Seq(Character)
    <2>1. Patterns \in Seq(Seq(Character) \ {<<>>})
      BY DEF PolicyInv, TypeOK, Patterns, Character
    <2>2. name \in Seq(Letter)
      BY PolicyAssumption DEF PolicyInv, TypeOK
    <2>3. name \in Seq(Character)
      BY <2>2 DEF Character
    <2>4. Patterns[tried + 1] \in Seq(Character) \ {<<>>}
      BY <1>4, <2>1
    <2> QED
      BY <1>2, <2>3, <2>4 DEF Pattern
  <1>6. Len(Pattern') \in Nat /\ Len(name) \in Nat
    BY <1>5
  <1>7. TypeOK'
    BY <1>1, <1>2, <1>4, <1>6 DEF PolicyInv, TypeOK
  <1>8. AtRound'
    <2>1. Round(Pattern', name, 0, 0, 0, 0)
      BY <1>5, RoundFirst
    <2> QED
      BY <1>1, <2>1 DEF AtRound
  <1>9. Searching'
    <2>1. Failed' = Failed
      BY <1>3 DEF Failed
    <2> QED
      BY <1>1, <1>8, <2>1 DEF PolicyInv, Searching, NoneOf
  <1>10. VerdictIsRight'
    BY <1>1 DEF VerdictIsRight
  <1> QED
    BY <1>7, <1>9, <1>10 DEF PolicyInv

LEMMA EndOfListStep == PolicyInv /\ EndOfList => PolicyInv'
  <1> SUFFICES ASSUME PolicyInv, EndOfList PROVE PolicyInv'
    OBVIOUS
  <1>1. /\ UNCHANGED <<allow, deny, name, matching>>
        /\ ~matching /\ verdict = "open" /\ name # <<>> /\ tried = Len(Patterns)
    BY DEF EndOfList, policyVars
  <1>2. Len(deny) \in Nat /\ Len(allow) \in Nat
    BY DEF PolicyInv, TypeOK
  <1>3. list = "deny" => NoneOf(deny, Len(deny))
    BY <1>1 DEF PolicyInv, Searching, Failed, Patterns
  <1>4. list = "allow" => /\ NoneOf(deny, Len(deny)) /\ allow # <<>>
                          /\ NoneOf(allow, Len(allow))
    BY <1>1 DEF PolicyInv, Searching, Failed, Patterns
  <1>5. CASE list = "deny" /\ allow = <<>> /\ verdict' = "allowed" /\ UNCHANGED <<list, tried>>
    <2>1. TypeOK'
      BY <1>1, <1>5 DEF PolicyInv, TypeOK, Patterns
    <2>2. Searching'
      BY <1>1, <1>5 DEF Searching
    <2>3. VerdictIsRight'
      BY <1>1, <1>3, <1>5 DEF VerdictIsRight, MatchesOneOf, NoneOf
    <2> QED
      BY <2>1, <2>2, <2>3 DEF PolicyInv
  <1>6. CASE list = "deny" /\ allow # <<>> /\ list' = "allow" /\ tried' = 0 /\ UNCHANGED verdict
    <2>1. Patterns' = allow
      BY <1>1, <1>6 DEF Patterns
    <2>2. TypeOK'
      BY <1>1, <1>2, <1>6, <2>1 DEF PolicyInv, TypeOK
    <2>3. Searching'
      BY <1>1, <1>3, <1>6 DEF Searching, NoneOf, Failed
    <2>4. VerdictIsRight'
      BY <1>1, <1>6 DEF VerdictIsRight
    <2> QED
      BY <2>2, <2>3, <2>4 DEF PolicyInv
  <1>7. CASE list = "allow" /\ verdict' = "denied" /\ UNCHANGED <<list, tried>>
    <2>1. TypeOK'
      BY <1>1, <1>7 DEF PolicyInv, TypeOK, Patterns
    <2>2. Searching'
      BY <1>1, <1>7 DEF Searching
    <2>3. VerdictIsRight'
      BY <1>1, <1>4, <1>7 DEF VerdictIsRight, MatchesOneOf, NoneOf
    <2> QED
      BY <2>1, <2>2, <2>3 DEF PolicyInv
  <1> QED
    BY <1>5, <1>6, <1>7 DEF EndOfList

LEMMA TakeStarStep == PolicyInv /\ TakeStar => PolicyInv'
  <1> SUFFICES ASSUME PolicyInv, TakeStar PROVE PolicyInv'
    OBVIOUS
  <1> USE DEF TakeStar, InLoop, AtStar
  <1>1. /\ Pattern \in Seq(Character) /\ name \in Seq(Character)
        /\ Len(Pattern) \in Nat /\ Len(name) \in Nat
        /\ patternIndex \in 0..Len(Pattern) /\ valueIndex \in 0..Len(name)
        /\ AtRound
    BY RoundType DEF PolicyInv
  <1>2. Round(Pattern, name, patternIndex + 1, valueIndex, patternIndex + 1, valueIndex)
    BY <1>1, RoundStar DEF AtRound
  <1>3. /\ patternIndex' \in 0..Len(Pattern) /\ valueIndex' \in 0..Len(name)
        /\ starPatternIndex' \in -1..patternIndex' - 1 /\ starValueIndex' \in 0..Len(name)
    BY <1>1
  <1>4. Round(Pattern, name, patternIndex', valueIndex', starPatternIndex' + 1, starValueIndex')
    BY <1>2
  <1> QED
    BY <1>3, <1>4, RoundGoesOn

LEMMA TakeEqualStep == PolicyInv /\ TakeEqual => PolicyInv'
  <1> SUFFICES ASSUME PolicyInv, TakeEqual PROVE PolicyInv'
    OBVIOUS
  <1> USE DEF TakeEqual, InLoop, AtStar, AtEqual
  <1>1. /\ Pattern \in Seq(Character) /\ name \in Seq(Character)
        /\ Len(Pattern) \in Nat /\ Len(name) \in Nat
        /\ patternIndex \in 0..Len(Pattern) /\ valueIndex \in 0..Len(name)
        /\ starPatternIndex \in Int /\ starPatternIndex >= -1
        /\ starPatternIndex < patternIndex /\ starValueIndex \in 0..valueIndex
        /\ AtRound
    BY RoundType DEF PolicyInv
  <1>2. Round(Pattern, name, patternIndex + 1, valueIndex + 1, starPatternIndex + 1,
              starValueIndex)
    BY <1>1, RoundEqual DEF AtRound
  <1>3. /\ patternIndex' \in 0..Len(Pattern) /\ valueIndex' \in 0..Len(name)
        /\ starPatternIndex' \in -1..patternIndex' - 1 /\ starValueIndex' \in 0..Len(name)
    BY <1>1
  <1>4. Round(Pattern, name, patternIndex', valueIndex', starPatternIndex' + 1, starValueIndex')
    BY <1>2
  <1> QED
    BY <1>3, <1>4, RoundGoesOn

LEMMA MismatchStep == PolicyInv /\ Mismatch => PolicyInv'
  <1> SUFFICES ASSUME PolicyInv, Mismatch PROVE PolicyInv'
    OBVIOUS
  <1> USE DEF Mismatch, InLoop, AtStar, AtEqual
  <1>1. /\ Pattern \in Seq(Character) /\ name \in Seq(Character)
        /\ AtRound /\ verdict = "open"
    BY RoundType DEF PolicyInv
  <1>2. Round(Pattern, name, patternIndex, valueIndex, 0, starValueIndex)
    BY <1>1 DEF AtRound
  <1>3. ~Matches(Pattern, name)
    BY <1>1, <1>2, RoundFails
  <1> QED
    BY <1>1, <1>3, OneMoreFails

LEMMA RetryStep == PolicyInv /\ Retry => PolicyInv'
  <1> SUFFICES ASSUME PolicyInv, Retry PROVE PolicyInv'
    OBVIOUS
  <1> USE DEF Retry, InLoop, AtStar, AtEqual
  <1>1. /\ Pattern \in Seq(Character) /\ name \in Seq(Character)
        /\ Len(Pattern) \in Nat /\ Len(name) \in Nat
        /\ patternIndex \in 0..Len(Pattern) /\ valueIndex \in 0..Len(name)
        /\ starPatternIndex \in Int /\ starPatternIndex >= -1
        /\ starPatternIndex < patternIndex /\ starValueIndex \in 0..valueIndex
        /\ AtRound
    BY RoundType DEF PolicyInv
  <1>2. Round(Pattern, name, starPatternIndex + 1, starValueIndex + 1, starPatternIndex + 1,
              starValueIndex + 1)
    BY <1>1, RoundRetry DEF AtRound
  <1>3. /\ patternIndex' \in 0..Len(Pattern) /\ valueIndex' \in 0..Len(name)
        /\ starPatternIndex' \in -1..patternIndex' - 1 /\ starValueIndex' \in 0..Len(name)
    BY <1>1
  <1>4. Round(Pattern, name, patternIndex', valueIndex', starPatternIndex' + 1, starValueIndex')
    BY <1>2
  <1> QED
    BY <1>3, <1>4, RoundGoesOn

LEMMA EndOfNameStep == PolicyInv /\ EndOfName => PolicyInv'
  <1> SUFFICES ASSUME PolicyInv, EndOfName PROVE PolicyInv'
    OBVIOUS
  <1> USE DEF EndOfName
  <1>1. /\ Pattern \in Seq(Character) /\ name \in Seq(Character)
        /\ AtRound /\ verdict = "open" /\ tried \in 1..Len(Patterns) /\ name # <<>>
    BY RoundType DEF PolicyInv
  <1>2. Matches(Pattern, name)
            <=> \A k \in (patternIndex + 1)..Len(Pattern) : Pattern[k] = Star
    BY <1>1, RoundLast DEF AtRound
  <1>3. CASE ~Matches(Pattern, name)
    <2>1. verdict' = "open"
      BY <1>2, <1>3
    <2> QED
      BY <1>3, <2>1, OneMoreFails
  <1>4. CASE Matches(Pattern, name)
    <2>1. verdict' = IF list = "deny" THEN "denied" ELSE "allowed"
      BY <1>2, <1>4
    <2>2. UNCHANGED <<allow, deny, name, list, tried>>
      BY DEF policyVars
    <2>3. TypeOK'
      BY <2>1, <2>2 DEF PolicyInv, TypeOK, Patterns
    <2>4. Searching'
      BY <1>1, <2>1, <2>2 DEF Searching
    <2>5. VerdictIsRight'
      <3>1. MatchesOneOf(Patterns, name)
        BY <1>1, <1>4 DEF MatchesOneOf, Pattern
      <3>2. CASE list = "deny"
        BY <2>1, <2>2, <3>1, <3>2 DEF VerdictIsRight, Patterns
      <3>3. CASE list # "deny"
        <4>1. NoneOf(deny, Len(deny)) /\ list = "allow"
          BY <1>1, <3>3 DEF PolicyInv, Searching, TypeOK
        <4>2. ~MatchesOneOf(deny, name) /\ MatchesOneOf(allow, name)
          BY <3>1, <3>3, <4>1 DEF NoneOf, MatchesOneOf, Patterns
        <4> QED
          BY <1>1, <2>1, <2>2, <3>3, <4>2 DEF VerdictIsRight
      <3> QED
        BY <3>2, <3>3
    <2> QED
      BY <2>3, <2>4, <2>5 DEF PolicyInv
  <1> QED
    BY <1>3, <1>4

LEMMA PolicyUnchanged == PolicyInv /\ UNCHANGED vars => PolicyInv'
  BY DEF PolicyInv, TypeOK, Searching, VerdictIsRight, vars, policyVars, indexVars, Patterns,
         Pattern, AtRound, Failed, NoneOf

LEMMA PolicyStep == PolicyInv /\ [Next]_vars => PolicyInv'
  BY RefuseNoNameStep, TryNextStep, EndOfListStep, TakeStarStep, TakeEqualStep, MismatchStep,
     RetryStep, EndOfNameStep, PolicyUnchanged DEF Next, Finished

LEMMA PolicyAlways == Spec => []PolicyInv
  BY PolicyInit, PolicyStep, PTL DEF Spec

\* For all patterns and names the loop's indices stay within the pattern and the name.
THEOREM PolicyTypeCorrect == Spec => []TypeOK
  BY PolicyAlways, PTL DEF PolicyInv

\* For all patterns and names the loop that goes back to the last star only decides what
\* the patterns mean: going back to an earlier star would never find more.
THEOREM ThePolicyDecidesRightly == Spec => []VerdictIsRight
  BY PolicyAlways, PTL DEF PolicyInv

\* For all patterns and names no round of the loop comes back to where one was.
THEOREM TheLoopAdvances == Spec => LoopAdvances
  <1> DEFINE Advances == matching /\ matching' =>
               \/ starPatternIndex' > starPatternIndex
               \/ /\ starPatternIndex' = starPatternIndex
                  /\ \/ starValueIndex' > starValueIndex
                     \/ /\ starValueIndex' = starValueIndex
                        /\ patternIndex' > patternIndex
  <1>1. PolicyInv /\ [Next]_vars => [Advances]_vars
    <2> SUFFICES ASSUME PolicyInv, Next, matching, matching', vars' # vars
                 PROVE  Advances
      OBVIOUS
    <2>1. /\ patternIndex \in Int /\ starPatternIndex \in Int /\ starValueIndex \in Int
          /\ starPatternIndex < patternIndex
      BY RoundType DEF PolicyInv
    <2>2. TakeStar \/ TakeEqual \/ Retry
      <3>1. ~RefuseNoName
        BY RoundType DEF PolicyInv, RefuseNoName
      <3> QED
        BY <3>1 DEF Next, TryNext, EndOfList, Mismatch, EndOfName, Finished
    <2> QED
      BY <2>1, <2>2 DEF TakeStar, TakeEqual, Retry
  <1> QED
    BY <1>1, PolicyAlways, PTL DEF Spec, LoopAdvances

-----------------------------------------------------------------------------
(* Config: the lists *)

Stages == {"start", "override", "validate", "resolve", "running", "refused", "panicked"}

ConfigTypeOK == /\ conf \in Configuration
                /\ stage \in Stages
                /\ looked \in 1..(Len(Keys) + 1)

\* No entry is blank or has blanks around it.
Clean(entries) == \A raw \in entries : raw.padded = FALSE /\ raw.id # Blank

\* What normalize makes of the lists and Validate asks of them.
ListsValid ==
    /\ stage \in {"validate", "resolve", "running"} =>
          Clean(conf.read) /\ Clean(conf.write) /\ Clean(conf.observe) /\ Clean(conf.excluded)
    /\ stage \in {"resolve", "running"} =>
          /\ conf.write \subseteq conf.read
          /\ conf.guild # Plain(Blank)
    /\ stage = "running" => resolved \subseteq Channel \cup {GuildID}

LEMMA CleanListCleans ==
    ASSUME NEW entries \in SUBSET Raw
    PROVE  CleanList(entries) \in SUBSET Raw /\ Clean(CleanList(entries))
  <1> SUFFICES ASSUME NEW raw \in entries, Trim(raw) # Plain(Blank)
               PROVE  Trim(raw) \in Raw /\ Trim(raw).padded = FALSE /\ Trim(raw).id # Blank
    BY DEF CleanList, Clean
  <1>1. raw \in Raw
    OBVIOUS
  <1>2. Trim(raw) \in Raw /\ Trim(raw).padded = FALSE /\ Trim(raw).id = raw.id
    BY <1>1 DEF Trim, Raw
  <1>3. ASSUME raw.id = Blank PROVE Trim(raw) = Plain(Blank)
    BY <1>1, <1>2, <1>3 DEF Raw, Plain
  <1> QED
    BY <1>2, <1>3

\* A clean list has a channel's entry as it is, and no other of the channel.
LEMMA CleanListHas ==
    ASSUME NEW entries \in SUBSET Raw, Clean(entries), NEW c \in Channel
    PROVE  c \in Trimmed(entries) <=> Plain(c) \in entries
  <1>1. c # Blank
    BY ConfigAssumption
  <1>2. ASSUME NEW raw \in entries, raw.id = c
        PROVE  raw = Plain(c)
    <2>1. raw \in Raw /\ raw.padded = FALSE
      BY DEF Clean
    <2> QED
      BY <1>2, <2>1 DEF Raw, Plain
  <1>3. Plain(c).id = c
    BY DEF Plain
  <1> QED
    BY <1>1, <1>2, <1>3 DEF Trimmed

LEMMA WithHeaderType ==
    ASSUME NEW args \in Seq(Arg), NEW t \in Token
    PROVE  WithHeader(args, t) \in Seq(Arg)
  <1> DEFINE out == [i \in 1..Len(args) |-> IF IsAuthorization(args, i)
                                            THEN <<args[i][1], t>> ELSE args[i]]
  <1>1. ASSUME NEW i \in 1..Len(args), IsAuthorization(args, i)
        PROVE  <<args[i][1], t>> \in Arg
    <2>1. args[i][1] \in {"auth", "header=auth"}
      BY <1>1 DEF IsAuthorization
    <2> QED
      BY <2>1 DEF Arg
  <1>2. \A i \in 1..Len(args) : out[i] \in Arg
    BY <1>1
  <1>3. out \in Seq(Arg)
    BY <1>2
  <1>4. <<"header">> \in Arg /\ <<"auth", t>> \in Arg
    BY DEF Arg
  <1>5. out \o << <<"header">>, <<"auth", t>> >> \in Seq(Arg)
    BY <1>3, <1>4
  <1> QED
    BY <1>3, <1>5 DEF WithHeader

LEMMA ApplyBearerTokenType ==
    ASSUME NEW c \in Configuration
    PROVE  /\ ApplyBearerToken(c) \in Configuration
           /\ \A key \in {"guild", "read", "write", "observe", "excluded", "servers",
                          "remote", "bearer"} : ApplyBearerToken(c)[key] = c[key]
  <1>1. CASE c.bearer = NoToken
    BY <1>1 DEF ApplyBearerToken
  <1>2. CASE c.bearer # NoToken
    <2>1. c.bearer \in Token /\ c.args \in Seq(Arg)
      BY <1>2 DEF Configuration
    <2>2. WithHeader(c.args, c.bearer) \in Seq(Arg)
      BY <2>1, WithHeaderType
    <2> DEFINE args == IF UsesMCPRemote(c) THEN WithHeader(c.args, c.bearer) ELSE c.args
    <2>3. args \in Seq(Arg)
      BY <2>1, <2>2
    <2>4. ApplyBearerToken(c) = [c EXCEPT !.header = c.bearer, !.args = args]
      BY <1>2 DEF ApplyBearerToken
    <2> HIDE DEF args
    <2> QED
      BY <2>1, <2>3, <2>4 DEF Configuration
  <1> QED
    BY <1>1, <1>2

CleanedConf == [conf EXCEPT !.read = CleanList(@), !.write = CleanList(@),
                            !.observe = CleanList(@), !.excluded = CleanList(@),
                            !.args = CleanArgs(@)]

LEMMA CleanedConfType ==
    ASSUME ConfigTypeOK
    PROVE  /\ CleanedConf \in Configuration
           /\ Clean(CleanedConf.read) /\ Clean(CleanedConf.write)
           /\ Clean(CleanedConf.observe) /\ Clean(CleanedConf.excluded)
           /\ CleanedConf.guild = conf.guild
           /\ CleanedConf.servers = conf.servers /\ CleanedConf.remote = conf.remote
           /\ CleanedConf.bearer = conf.bearer
           /\ CleanedConf.args = CleanArgs(conf.args)
  <1>1. conf \in Configuration
    BY DEF ConfigTypeOK
  <1>2. /\ conf.read \in SUBSET Raw /\ conf.write \in SUBSET Raw
        /\ conf.observe \in SUBSET Raw /\ conf.excluded \in SUBSET Raw
        /\ conf.args \in Seq(Arg)
    BY <1>1 DEF Configuration
  <1>3. /\ CleanList(conf.read) \in SUBSET Raw /\ Clean(CleanList(conf.read))
        /\ CleanList(conf.write) \in SUBSET Raw /\ Clean(CleanList(conf.write))
        /\ CleanList(conf.observe) \in SUBSET Raw /\ Clean(CleanList(conf.observe))
        /\ CleanList(conf.excluded) \in SUBSET Raw /\ Clean(CleanList(conf.excluded))
    BY <1>2, CleanListCleans
  <1>4. CleanArgs(conf.args) \in Seq(Arg)
    <2>1. CleanArgs(conf.args) \in Seq(Arg \ {<<"blank">>})
      BY <1>2, WithoutType DEF CleanArgs
    <2> QED
      BY <2>1
  <1> QED
    BY <1>1, <1>3, <1>4 DEF CleanedConf, Configuration

LEMMA ConfigStart == ConfigInit => ConfigTypeOK /\ ListsValid
  BY DEF ConfigInit, ConfigTypeOK, ListsValid, Nothing, Configuration, RawGuild, Stages, Keys

LEMMA OverrideListType ==
    ASSUME ConfigTypeOK, OverrideList
    PROVE  conf' \in Configuration /\ conf'.bearer = conf.bearer /\ conf'.args = conf.args
           /\ conf'.servers = conf.servers /\ conf'.remote = conf.remote
  <1> DEFINE key == Keys[looked]
  <1>1. key \in {"guild"} \cup Lists
    BY DEF ConfigTypeOK, OverrideList, Keys, Lists
  <1>2. PICK value \in Environment[key] :
           conf' = IF value = Unset THEN conf
                   ELSE [conf EXCEPT ![key] = IF key = "guild" THEN Trim(value)
                                                               ELSE CleanList(value)]
    BY DEF OverrideList
  <1>3. conf \in Configuration
    BY DEF ConfigTypeOK
  <1> HIDE DEF key
  <1>4. CASE value = Unset
    BY <1>2, <1>3, <1>4
  <1>5. CASE value # Unset /\ key = "guild"
    <2>1. value \in RawGuild
      BY <1>5, ConfigAssumption
    <2>2. Trim(value) \in RawGuild
      BY <2>1 DEF Trim, RawGuild
    <2>3. conf' = [conf EXCEPT !.guild = Trim(value)]
      BY <1>2, <1>5
    <2> QED
      BY <1>3, <2>2, <2>3 DEF Configuration
  <1>6. CASE value # Unset /\ key \in Lists
    <2>1. value \in SUBSET Raw
      BY <1>6, ConfigAssumption
    <2>2. CleanList(value) \in SUBSET Raw
      BY <2>1, CleanListCleans
    <2>3. conf' = [conf EXCEPT ![key] = CleanList(value)]
      BY <1>2, <1>6 DEF Lists
    <2>4. CASE key = "read"
      BY <1>3, <2>2, <2>3, <2>4 DEF Configuration
    <2>5. CASE key = "write"
      BY <1>3, <2>2, <2>3, <2>5 DEF Configuration
    <2>6. CASE key = "observe"
      BY <1>3, <2>2, <2>3, <2>6 DEF Configuration
    <2>7. CASE key = "excluded"
      BY <1>3, <2>2, <2>3, <2>7 DEF Configuration
    <2> QED
      BY <1>6, <2>4, <2>5, <2>6, <2>7 DEF Lists
  <1> QED
    BY <1>1, <1>4, <1>5, <1>6

\* The variable of the token, when it is set.
LEMMA OverrideTokenType ==
    ASSUME ConfigTypeOK, NEW value \in Token
    PROVE  /\ [conf EXCEPT !.bearer = value] \in Configuration
           /\ [ApplyBearerToken([conf EXCEPT !.bearer = value]) EXCEPT !.servers = "twilog"]
                 \in Configuration
  <1>1. [conf EXCEPT !.bearer = value] \in Configuration
    BY DEF ConfigTypeOK, Configuration
  <1>2. ApplyBearerToken([conf EXCEPT !.bearer = value]) \in Configuration
    BY <1>1, ApplyBearerTokenType
  <1> QED
    BY <1>1, <1>2 DEF Configuration

LEMMA ConfigListsStep ==
    ConfigTypeOK /\ ListsValid /\ [ConfigNext]_configVars => ConfigTypeOK' /\ ListsValid'
  <1> SUFFICES ASSUME ConfigTypeOK, ListsValid, [ConfigNext]_configVars
               PROVE  ConfigTypeOK' /\ ListsValid'
    OBVIOUS
  <1>1. CASE ReadFile
    BY <1>1, ConfigAssumption DEF ReadFile, ConfigTypeOK, ListsValid, Stages
  <1>2. CASE OverrideList
    <2>1. conf' \in Configuration
      BY <1>2, OverrideListType
    <2> QED
      BY <1>2, <2>1 DEF OverrideList, ConfigTypeOK, ListsValid
  <1>3. CASE OverrideToken
    <2>1. PICK value \in Environment["token"] :
             IF value \in {Unset, NoToken}
             THEN UNCHANGED <<stage, conf, token>>
             ELSE /\ stage' = IF conf.servers = "nil" THEN "panicked" ELSE stage
                  /\ conf' = IF conf.servers = "nil" THEN conf
                             ELSE [ApplyBearerToken([conf EXCEPT !.bearer = value])
                                     EXCEPT !.servers = "twilog"]
      BY <1>3 DEF OverrideToken
    <2>2. looked' \in 1..(Len(Keys) + 1) /\ stage = "override"
      BY <1>3 DEF OverrideToken, ConfigTypeOK
    <2>3. CASE value \in {Unset, NoToken}
      BY <2>1, <2>2, <2>3 DEF ConfigTypeOK, ListsValid
    <2>4. CASE value \notin {Unset, NoToken}
      <3>1. value \in Token
        BY <2>4, ConfigAssumption
      <3>2. conf' \in Configuration /\ stage' \in {"panicked", "override"}
        BY <2>1, <2>2, <2>4, <3>1, OverrideTokenType DEF ConfigTypeOK
      <3> QED
        BY <2>2, <3>2 DEF ConfigTypeOK, ListsValid, Stages
    <2> QED
      BY <2>3, <2>4
  <1>4. CASE Normalize
    <2>1. conf' = IF CleanedConf.servers = "twilog" THEN ApplyBearerToken(CleanedConf)
                                                    ELSE CleanedConf
      BY <1>4 DEF Normalize, CleanedConf
    <2>2. /\ conf' \in Configuration
          /\ \A key \in {"read", "write", "observe", "excluded"} : conf'[key] = CleanedConf[key]
      BY <2>1, CleanedConfType, ApplyBearerTokenType
    <2> QED
      BY <1>4, <2>2, CleanedConfType DEF Normalize, ConfigTypeOK, ListsValid, Stages
  <1>5. CASE Validate
    BY <1>5 DEF Validate, ConfigTypeOK, ListsValid, Stages
  <1>6. CASE ResolveObserve
    <2>1. PICK discovered \in SUBSET Channel : resolved' = Trimmed(conf.observe) \cup discovered
      BY <1>6 DEF ResolveObserve
    <2>2. \A raw \in conf.observe : raw.id \in Channel \cup {GuildID, Blank}
      BY DEF ConfigTypeOK, Configuration, Raw
    <2>3. resolved' \subseteq Channel \cup {GuildID}
      BY <2>1, <2>2 DEF Trimmed
    <2> QED
      BY <1>6, <2>3 DEF ResolveObserve, ConfigTypeOK, ListsValid, Stages
  <1>7. CASE UNCHANGED configVars
    BY <1>7 DEF configVars, ConfigTypeOK, ListsValid
  <1> QED
    BY <1>1, <1>2, <1>3, <1>4, <1>5, <1>6, <1>7 DEF ConfigNext

LEMMA AccessFollows == ConfigTypeOK /\ ListsValid => AccessIsNested
  <1> SUFFICES ASSUME ConfigTypeOK, ListsValid, stage = "running", NEW c \in Channel
               PROVE  /\ Writable(c) /\ ~conf.guild.padded => Heard(c)
                      /\ Heard(c) => Readable(c)
                      /\ Heard(c) => c \in Trimmed(conf.read)
    BY DEF AccessIsNested
  <1>1. /\ conf.read \in SUBSET Raw /\ conf.write \in SUBSET Raw
        /\ conf.excluded \in SUBSET Raw /\ conf.guild \in RawGuild
    BY DEF ConfigTypeOK, Configuration
  <1>2. /\ c \in Trimmed(conf.read) <=> Plain(c) \in conf.read
        /\ c \in Trimmed(conf.write) <=> Plain(c) \in conf.write
        /\ c \in Trimmed(conf.excluded) <=> Plain(c) \in conf.excluded
    BY <1>1, CleanListHas DEF ListsValid
  <1>3. ~conf.guild.padded => conf.guild = Plain(GuildID)
    BY <1>1 DEF ListsValid, RawGuild, Plain
  <1> QED
    BY <1>2, <1>3 DEF Writable, Heard, Readable, ListsValid

LEMMA ConfigAlways == ConfigSpec => [](ConfigTypeOK /\ ListsValid)
  BY ConfigStart, ConfigListsStep, PTL DEF ConfigSpec

\* For all configurations, environments and answers of Discord: where the program may
\* post lies in what it answers, and that in what it may read.
THEOREM AccessAlwaysNested == ConfigSpec => []AccessIsNested
  BY ConfigAlways, AccessFollows, PTL

-----------------------------------------------------------------------------
(* Config: the token *)

\* The function inside IsValue is the one its equation describes.
LEMMA ValueEquation ==
    ASSUME NEW T, NEW args \in Seq(T)
    PROVE  /\ IsValue(args) \in [1..Len(args) -> BOOLEAN]
           /\ \A i \in 1..Len(args) :
                IsValue(args)[i] <=> i > 1 /\ args[i - 1] = <<"header">> /\ ~IsValue(args)[i - 1]
  <1> DEFINE n == Len(args)
             step == [i \in 1..n |-> [b \in BOOLEAN |-> i > 1 /\ args[i - 1] = <<"header">> /\ ~b]]
             Eq(f) == f = [i \in 1..n |-> i > 1 /\ args[i - 1] = <<"header">> /\ ~f[i - 1]]
  <1>1. n \in Nat
    OBVIOUS
  <1>2. step \in [1..n -> [BOOLEAN -> BOOLEAN]]
    OBVIOUS
  <1>3. \A i \in 1..n, b \in BOOLEAN : step[i][b] = (i > 1 /\ args[i - 1] = <<"header">> /\ ~b)
    OBVIOUS
  <1> HIDE DEF step
  <1>4. PICK K \in [0..n -> BOOLEAN] : Steps(K, n, FALSE, step)
    BY <1>1, <1>2, StepsDefine
  <1>5. \A i \in 1..n : K[i] = step[i][K[i - 1]] /\ i - 1 \in 0..n /\ K[i - 1] \in BOOLEAN
    BY <1>1, <1>4 DEF Steps
  <1>6. \A i \in 1..n : K[i] = (i > 1 /\ args[i - 1] = <<"header">> /\ ~K[i - 1])
    BY <1>3, <1>5
  <1> DEFINE g == [i \in 1..n |-> K[i]]
  <1>7. Eq(g)
    <2>1. \A i \in 1..n : i > 1 => g[i - 1] = K[i - 1]
      BY <1>1
    <2>2. \A i \in 1..n : K[i] = (i > 1 /\ args[i - 1] = <<"header">> /\ ~g[i - 1])
      BY <1>6, <2>1
    <2> QED
      BY <2>2
  <1> DEFINE C == CHOOSE f : Eq(f)
  <1>8. Eq(C)
    BY <1>7
  <1>9. IsValue(args) = C
    BY DEF IsValue
  <1> HIDE DEF C
  <1> QED
    BY <1>8, <1>9

\* The word --header stands at the same places among the first n.
Headers(s, t, n) == \A i \in 1..n : s[i] = <<"header">> <=> t[i] = <<"header">>

\* It decides which arguments are taken for its value.
LEMMA HeadersPair ==
    ASSUME NEW T, NEW s \in Seq(T), NEW t \in Seq(T),
           NEW n \in Nat, n <= Len(s), n <= Len(t), Headers(s, t, n)
    PROVE  \A i \in 1..n : IsValue(s)[i] = IsValue(t)[i]
  <1> DEFINE S == {i \in 0..n : i > 0 => IsValue(s)[i] = IsValue(t)[i]}
  <1>1. 0 \in S
    OBVIOUS
  <1>2. ASSUME NEW i \in 0..n, i < n, i > 0 => IsValue(s)[i] = IsValue(t)[i]
        PROVE  IsValue(s)[i + 1] = IsValue(t)[i + 1]
    <2>1. i + 1 \in 1..Len(s) /\ i + 1 \in 1..Len(t) /\ (i + 1) - 1 = i
      BY <1>2
    <2>2. /\ IsValue(s)[i + 1] <=> i + 1 > 1 /\ s[i] = <<"header">> /\ ~IsValue(s)[i]
          /\ IsValue(t)[i + 1] <=> i + 1 > 1 /\ t[i] = <<"header">> /\ ~IsValue(t)[i]
          /\ IsValue(s)[i + 1] \in BOOLEAN /\ IsValue(t)[i + 1] \in BOOLEAN
      BY <2>1, ValueEquation
    <2>3. CASE i = 0
      BY <2>2, <2>3
    <2>4. CASE i > 0
      <3>1. s[i] = <<"header">> <=> t[i] = <<"header">>
        BY <2>4 DEF Headers
      <3> QED
        BY <1>2, <2>2, <2>4, <3>1
    <2> QED
      BY <2>3, <2>4
  <1>3. \A i \in 0..n : i < n /\ i \in S => i + 1 \in S
    BY <1>2
  <1> HIDE DEF S
  <1>4. \A i \in 0..n : i \in S
    BY <1>1, <1>3, UpToInduction
  <1> QED
    BY <1>4 DEF S

\* The tokens that arguments send.
Sent(args) == {args[i][2] : i \in {j \in 1..Len(args) : IsAuthorization(args, j)}}

\* The arguments with every Authorization given the token t.
Marked(args, t) == [i \in 1..Len(args) |-> IF IsAuthorization(args, i)
                                           THEN <<args[i][1], t>> ELSE args[i]]

LEMMA MarkedType ==
    ASSUME NEW args \in Seq(Arg), NEW t \in Token
    PROVE  /\ Marked(args, t) \in Seq(Arg) /\ Len(Marked(args, t)) = Len(args)
           /\ \A i \in 1..Len(args) : /\ Marked(args, t)[i][1] = args[i][1]
                                      /\ IsAuthorization(args, i) => Marked(args, t)[i][2] = t
                                      /\ Marked(args, t)[i] = <<"blank">> <=> args[i] = <<"blank">>
           /\ Headers(Marked(args, t), args, Len(args))
  <1>1. ASSUME NEW i \in 1..Len(args), IsAuthorization(args, i)
        PROVE  /\ <<args[i][1], t>> \in Arg
               /\ args[i] # <<"blank">> /\ args[i] # <<"header">>
               /\ <<args[i][1], t>> # <<"blank">> /\ <<args[i][1], t>> # <<"header">>
    <2>1. args[i][1] \in {"auth", "header=auth"}
      BY <1>1 DEF IsAuthorization
    <2>2. <<args[i][1], t>> \in Arg
      BY <2>1 DEF Arg
    <2>3. <<args[i][1], t>>[1] = args[i][1]
      OBVIOUS
    <2>4. <<"blank">>[1] = "blank" /\ <<"header">>[1] = "header"
      OBVIOUS
    <2>5. args[i] # <<"blank">> /\ args[i] # <<"header">>
      BY <2>1, <2>4
    <2>6. <<args[i][1], t>> # <<"blank">> /\ <<args[i][1], t>> # <<"header">>
      BY <2>1, <2>3, <2>4
    <2> QED
      BY <2>2, <2>5, <2>6
  <1>2. \A i \in 1..Len(args) : Marked(args, t)[i] = IF IsAuthorization(args, i)
                                                     THEN <<args[i][1], t>> ELSE args[i]
    BY DEF Marked
  <1>3. ASSUME NEW i \in 1..Len(args)
        PROVE  /\ Marked(args, t)[i] \in Arg
               /\ Marked(args, t)[i][1] = args[i][1]
               /\ IsAuthorization(args, i) => Marked(args, t)[i][2] = t
               /\ Marked(args, t)[i] = <<"blank">> <=> args[i] = <<"blank">>
               /\ Marked(args, t)[i] = <<"header">> <=> args[i] = <<"header">>
    <2>1. CASE IsAuthorization(args, i)
      <3>1. Marked(args, t)[i] = <<args[i][1], t>>
        BY <1>2, <2>1
      <3> QED
        BY <1>1, <2>1, <3>1
    <2>2. CASE ~IsAuthorization(args, i)
      <3>1. Marked(args, t)[i] = args[i]
        BY <1>2, <2>2
      <3>2. args[i] \in Arg
        OBVIOUS
      <3> QED
        BY <2>2, <3>1, <3>2
    <2> QED
      BY <2>1, <2>2
  <1>4. Marked(args, t) \in Seq(Arg) /\ Len(Marked(args, t)) = Len(args)
    BY <1>3 DEF Marked
  <1> QED
    BY <1>3, <1>4 DEF Headers

\* An appended header is paired with the Authorization behind it, unless the arguments
\* end with a header that has no value.
LEMMA HeaderSends ==
    ASSUME NEW args \in Seq(Arg), NEW t \in Token, ~Dangling(args)
    PROVE  Sent(WithHeader(args, t)) = {t}
  <1> DEFINE n == Len(args)
             out == Marked(args, t)
  <1>1. /\ out \in Seq(Arg) /\ Len(out) = n /\ n \in Nat
        /\ \A i \in 1..n : /\ out[i][1] = args[i][1]
                           /\ IsAuthorization(args, i) => out[i][2] = t
        /\ Headers(out, args, n)
    BY MarkedType
  <1>2. CASE \E i \in 1..n : IsAuthorization(args, i)
    <2>1. WithHeader(args, t) = out
      BY <1>2 DEF WithHeader, Marked
    <2>2. \A i \in 1..n : IsValue(out)[i] = IsValue(args)[i]
      BY <1>1, HeadersPair
    <2>3. \A i \in 1..n : IsAuthorization(out, i) <=> IsAuthorization(args, i)
      BY <1>1, <2>2 DEF IsAuthorization
    <2> HIDE DEF out
    <2> QED
      BY <1>1, <1>2, <2>1, <2>3 DEF Sent
  <1>3. CASE ~\E i \in 1..n : IsAuthorization(args, i)
    <2> DEFINE w == out \o << <<"header">>, <<"auth", t>> >>
    <2>1. WithHeader(args, t) = w
      BY <1>3 DEF WithHeader, Marked
    <2>2. /\ w \in Seq(Arg) /\ Len(w) = n + 2
          /\ \A i \in 1..n : w[i] = out[i]
          /\ w[n + 1] = <<"header">> /\ w[n + 2] = <<"auth", t>>
      <3>1. <<"header">> \in Arg /\ <<"auth", t>> \in Arg
        BY DEF Arg
      <3> HIDE DEF out
      <3> QED
        BY <1>1, <3>1
    <2> HIDE DEF w, out
    <2>3. Headers(w, args, n)
      BY <1>1, <2>2 DEF Headers
    <2>4. \A i \in 1..n : IsValue(w)[i] = IsValue(args)[i]
      BY <1>1, <2>2, <2>3, HeadersPair
    <2>5. ASSUME NEW i \in 1..n PROVE ~IsAuthorization(w, i)
      BY <1>1, <1>3, <2>2, <2>4 DEF IsAuthorization
    <2>6. /\ n + 1 \in 1..Len(w) /\ n + 2 \in 1..Len(w)
          /\ (n + 1) - 1 = n /\ (n + 2) - 1 = n + 1 /\ n + 2 > 1
      BY <1>1, <2>2
    <2> HIDE DEF n
    <2>7. /\ IsValue(w)[n + 1] <=> n + 1 > 1 /\ w[n] = <<"header">> /\ ~IsValue(w)[n]
          /\ IsValue(w)[n + 2] <=> n + 2 > 1 /\ w[n + 1] = <<"header">> /\ ~IsValue(w)[n + 1]
      <3>1. /\ IsValue(w)[n + 1] <=>
                   n + 1 > 1 /\ w[(n + 1) - 1] = <<"header">> /\ ~IsValue(w)[(n + 1) - 1]
            /\ IsValue(w)[n + 2] <=>
                   n + 2 > 1 /\ w[(n + 2) - 1] = <<"header">> /\ ~IsValue(w)[(n + 2) - 1]
        BY <2>2, <2>6, ValueEquation
      <3> QED
        BY <2>6, <3>1
    <2> USE DEF n
    <2>8. ~IsValue(w)[n + 1]
      <3>1. CASE n = 0
        BY <2>7, <3>1
      <3>2. CASE n > 0
        <4>1. n \in 1..n /\ IsValue(w)[n] = IsValue(args)[n]
              /\ (w[n] = <<"header">> <=> args[n] = <<"header">>)
          BY <1>1, <2>3, <2>4, <3>2 DEF Headers
        <4>2. ~(args[n] = <<"header">> /\ ~IsValue(args)[n])
          BY <3>2 DEF Dangling
        <4> QED
          BY <2>7, <4>1, <4>2
      <3> QED
        BY <1>1, <3>1, <3>2
    <2>9. ~IsAuthorization(w, n + 1)
      BY <2>2, <2>8 DEF IsAuthorization
    <2>10. IsAuthorization(w, n + 2) /\ w[n + 2][2] = t
      BY <2>2, <2>6, <2>7, <2>8 DEF IsAuthorization
    <2>11. \A i \in 1..Len(w) : i \in 1..n \/ i = n + 1 \/ i = n + 2
      BY <1>1, <2>2
    <2>12. {j \in 1..Len(w) : IsAuthorization(w, j)} = {n + 2}
      BY <2>5, <2>6, <2>9, <2>10, <2>11
    <2> QED
      BY <2>1, <2>10, <2>12 DEF Sent
  <1> QED
    BY <1>2, <1>3

\* Cleaning keeps the places of the headers among what is left.
LEMMA CleaningKeepsHeaders ==
    ASSUME NEW s \in Seq(Arg), NEW t \in Seq(Arg), Len(s) = Len(t),
           Headers(s, t, Len(s)),
           \A i \in 1..Len(s) : s[i] = <<"blank">> <=> t[i] = <<"blank">>
    PROVE  /\ Len(CleanArgs(s)) = Len(CleanArgs(t))
           /\ Headers(CleanArgs(s), CleanArgs(t), Len(CleanArgs(s)))
  <1> DEFINE n == Len(s)
  <1>1. PICK K \in [0..n -> Seq(Arg)] : Keeps(K, s, <<"blank">>) /\ CleanArgs(s) = K[n]
    BY WithoutSteps DEF CleanArgs
  <1>2. PICK L \in [0..n -> Seq(Arg)] : Keeps(L, t, <<"blank">>) /\ CleanArgs(t) = L[n]
    BY WithoutSteps DEF CleanArgs
  <1> DEFINE Alike(i) == Len(K[i]) = Len(L[i]) /\ Headers(K[i], L[i], Len(K[i]))
             S == {i \in 0..n : Alike(i)}
  <1>3. n \in Nat
    OBVIOUS
  <1>4. Alike(0)
    BY <1>1, <1>2 DEF Keeps, Headers
  <1>5. ASSUME NEW i \in 0..n, i < n, Alike(i)
        PROVE  Alike(i + 1)
    <2>1. i + 1 \in 1..n /\ (i + 1) - 1 = i /\ s[i + 1] \in Arg /\ t[i + 1] \in Arg
      BY <1>3, <1>5
    <2>2. K[i] \in Seq(Arg) /\ L[i] \in Seq(Arg)
      OBVIOUS
    <2>3. K[i + 1] = IF s[i + 1] = <<"blank">> THEN K[i] ELSE Append(K[i], s[i + 1])
      BY <1>1, <2>1 DEF Keeps
    <2>4. L[i + 1] = IF t[i + 1] = <<"blank">> THEN L[i] ELSE Append(L[i], t[i + 1])
      BY <1>2, <2>1 DEF Keeps
    <2>5. s[i + 1] = <<"header">> <=> t[i + 1] = <<"header">>
      BY <2>1 DEF Headers
    <2>6. CASE s[i + 1] = <<"blank">>
      BY <1>5, <2>1, <2>3, <2>4, <2>6
    <2>7. CASE s[i + 1] # <<"blank">>
      <3>1. K[i + 1] = Append(K[i], s[i + 1]) /\ L[i + 1] = Append(L[i], t[i + 1])
        BY <2>1, <2>3, <2>4, <2>7
      <3>2. /\ Len(K[i + 1]) = Len(K[i]) + 1 /\ Len(L[i + 1]) = Len(L[i]) + 1
            /\ \A k \in 1..(Len(K[i]) + 1) :
                 K[i + 1][k] = IF k = Len(K[i]) + 1 THEN s[i + 1] ELSE K[i][k]
            /\ \A k \in 1..(Len(L[i]) + 1) :
                 L[i + 1][k] = IF k = Len(L[i]) + 1 THEN t[i + 1] ELSE L[i][k]
        BY <2>1, <2>2, <3>1
      <3>3. Len(K[i]) \in Nat
        BY <2>2
      <3>4. \A k \in 1..(Len(K[i]) + 1) : k # Len(K[i]) + 1 => k \in 1..Len(K[i])
        BY <3>3
      <3> QED
        BY <1>5, <2>5, <3>2, <3>4 DEF Headers
    <2> QED
      BY <2>6, <2>7
  <1> HIDE DEF Alike
  <1>6. 0 \in S /\ \A i \in 0..n : i < n /\ i \in S => i + 1 \in S
    BY <1>3, <1>4, <1>5
  <1> HIDE DEF S
  <1>7. \A i \in 0..n : i \in S
    BY <1>3, <1>6, UpToInduction
  <1>8. Alike(n)
    BY <1>3, <1>7 DEF S
  <1> QED
    BY <1>1, <1>2, <1>8 DEF Alike

\* What the token's variable adds leaves no header without a value that had one.
LEMMA HeaderKeepsPairs ==
    ASSUME NEW args \in Seq(Arg), NEW t \in Token,
           Dangling(CleanArgs(WithHeader(args, t)))
    PROVE  Dangling(CleanArgs(args))
  <1> DEFINE out == Marked(args, t)
  <1>1. /\ out \in Seq(Arg) /\ Len(out) = Len(args)
        /\ Headers(out, args, Len(out))
        /\ \A i \in 1..Len(out) : out[i] = <<"blank">> <=> args[i] = <<"blank">>
    BY MarkedType
  <1> HIDE DEF out
  <1>2. CASE \E i \in 1..Len(args) : IsAuthorization(args, i)
    <2>1. WithHeader(args, t) = out
      BY <1>2 DEF WithHeader, Marked, out
    <2> DEFINE x == CleanArgs(out)
               y == CleanArgs(args)
    <2>2. Len(x) = Len(y) /\ Headers(x, y, Len(x))
      BY <1>1, CleaningKeepsHeaders
    <2>3. x \in Seq(Arg) /\ y \in Seq(Arg)
      <3>1. x \in Seq(Arg \ {<<"blank">>}) /\ y \in Seq(Arg \ {<<"blank">>})
        BY <1>1, WithoutType DEF CleanArgs
      <3> QED
        BY <3>1
    <2>4. Dangling(x)
      BY <2>1
    <2> HIDE DEF x, y
    <2>5. \A i \in 1..Len(x) : IsValue(x)[i] = IsValue(y)[i]
      BY <2>2, <2>3, HeadersPair
    <2>6. Len(x) \in 1..Len(x)
      BY <2>3, <2>4 DEF Dangling
    <2>7. Dangling(y)
      BY <2>2, <2>4, <2>5, <2>6 DEF Dangling, Headers
    <2> QED
      BY <2>7 DEF y
  <1>3. CASE ~\E i \in 1..Len(args) : IsAuthorization(args, i)
    <2> DEFINE w == out \o << <<"header">>, <<"auth", t>> >>
               m == Len(out) + 2
    <2>1. WithHeader(args, t) = w
      BY <1>3 DEF WithHeader, Marked, out
    <2>2. w \in Seq(Arg) /\ Len(w) = m /\ w[m] = <<"auth", t>> /\ m \in Nat /\ m > 0
      <3>1. <<"header">> \in Arg /\ <<"auth", t>> \in Arg
        BY DEF Arg
      <3> QED
        BY <1>1, <3>1
    <2> HIDE DEF w, m
    <2>3. PICK K \in [0..m -> Seq(Arg)] : Keeps(K, w, <<"blank">>) /\ CleanArgs(w) = K[m]
      BY <2>2, WithoutSteps DEF CleanArgs
    <2>4. <<"auth", t>> # <<"blank">> /\ <<"auth", t>> # <<"header">>
      <3>1. <<"auth", t>>[1] = "auth" /\ <<"blank">>[1] = "blank" /\ <<"header">>[1] = "header"
        OBVIOUS
      <3> QED
        BY <3>1
    <2>5. m \in 1..Len(w) /\ m - 1 \in 0..m
      BY <2>2
    <2>6. CleanArgs(w) = Append(K[m - 1], <<"auth", t>>)
      BY <2>2, <2>3, <2>4, <2>5 DEF Keeps
    <2>7. K[m - 1] \in Seq(Arg)
      BY <2>5
    <2>8. CleanArgs(w)[Len(CleanArgs(w))] = <<"auth", t>>
      BY <2>6, <2>7
    <2> QED
      BY <2>1, <2>4, <2>8 DEF Dangling
  <1> QED
    BY <1>2, <1>3

\* The token reaches the arguments by way of the configuration.
TokenCarried ==
    /\ stage # "panicked" => conf.bearer = token
    /\ stage = "override" => (Dangling(CleanArgs(conf.args)) => dangling)
    /\ stage \in {"validate", "resolve", "running"} /\ conf.servers = "twilog"
       /\ token # NoToken =>
          /\ conf.header = token
          /\ UsesMCPRemote(conf) => \/ Sent(conf.args) = {token}
                                    \/ dangling

LEMMA TokenStart == ConfigInit => TokenCarried
  BY DEF ConfigInit, TokenCarried, Nothing

LEMMA TokenStep ==
    ConfigTypeOK /\ TokenCarried /\ [ConfigNext]_configVars => TokenCarried'
  <1> SUFFICES ASSUME ConfigTypeOK, TokenCarried, [ConfigNext]_configVars
               PROVE  TokenCarried'
    OBVIOUS
  <1>1. CASE ReadFile
    BY <1>1 DEF ReadFile, TokenCarried
  <1>2. CASE OverrideList
    <2>1. conf'.bearer = conf.bearer /\ conf'.args = conf.args
      BY <1>2, OverrideListType
    <2> QED
      BY <1>2, <2>1 DEF OverrideList, TokenCarried
  <1>3. CASE OverrideToken
    <2>1. PICK value \in Environment["token"] :
             IF value \in {Unset, NoToken}
             THEN UNCHANGED <<stage, conf, token>>
             ELSE /\ stage' = IF conf.servers = "nil" THEN "panicked" ELSE stage
                  /\ conf' = IF conf.servers = "nil" THEN conf
                             ELSE [ApplyBearerToken([conf EXCEPT !.bearer = value])
                                     EXCEPT !.servers = "twilog"]
                  /\ token' = value
      BY <1>3 DEF OverrideToken
    <2>2. stage = "override" /\ UNCHANGED dangling
      BY <1>3 DEF OverrideToken
    <2>3. CASE value \in {Unset, NoToken}
      BY <2>1, <2>2, <2>3 DEF TokenCarried
    <2>4. CASE value \notin {Unset, NoToken} /\ conf.servers = "nil"
      BY <2>1, <2>2, <2>4 DEF TokenCarried
    <2>5. CASE value \notin {Unset, NoToken} /\ conf.servers # "nil"
      <3>1. value \in Token
        BY <2>5, ConfigAssumption
      <3> DEFINE c == [conf EXCEPT !.bearer = value]
      <3>2. /\ conf \in Configuration /\ c \in Configuration /\ conf.args \in Seq(Arg)
            /\ c.bearer = value /\ c.args = conf.args
        BY <3>1 DEF ConfigTypeOK, Configuration
      <3>3. conf' = [ApplyBearerToken(c) EXCEPT !.servers = "twilog"]
            /\ stage' = "override" /\ token' = value
        BY <2>1, <2>2, <2>5
      <3> HIDE DEF c
      <3>4. ApplyBearerToken(c) \in Configuration /\ ApplyBearerToken(c).bearer = value
        BY <3>2, ApplyBearerTokenType
      <3>5. conf'.bearer = value /\ conf'.args = ApplyBearerToken(c).args
        BY <3>3, <3>4 DEF Configuration
      <3>6. ApplyBearerToken(c).args \in {conf.args, WithHeader(conf.args, value)}
        <4>1. value # NoToken
          BY <2>5
        <4> QED
          BY <3>2, <4>1 DEF ApplyBearerToken, Configuration
      <3>7. Dangling(CleanArgs(conf'.args)) => Dangling(CleanArgs(conf.args))
        BY <3>1, <3>2, <3>5, <3>6, HeaderKeepsPairs
      <3> QED
        BY <2>2, <3>3, <3>5, <3>7 DEF TokenCarried
    <2> QED
      BY <2>3, <2>4, <2>5
  <1>4. CASE Normalize
    <2>1. /\ conf' = IF CleanedConf.servers = "twilog" THEN ApplyBearerToken(CleanedConf)
                                                       ELSE CleanedConf
          /\ UNCHANGED <<token, dangling>> /\ stage = "override" /\ stage' = "validate"
      BY <1>4 DEF Normalize, CleanedConf
    <2> DEFINE c == CleanedConf
    <2>2. /\ c \in Configuration /\ c.servers = conf.servers /\ c.remote = conf.remote
          /\ c.bearer = conf.bearer /\ c.args = CleanArgs(conf.args)
      BY CleanedConfType
    <2>3. c.bearer = token
      BY <2>1, <2>2 DEF TokenCarried
    <2>4. conf' = IF c.servers = "twilog" THEN ApplyBearerToken(c) ELSE c
      BY <2>1
    <2> HIDE DEF c
    <2>5. conf'.bearer = token /\ conf'.servers = c.servers /\ conf'.remote = c.remote
      BY <2>2, <2>3, <2>4, ApplyBearerTokenType
    <2>6. ASSUME c.servers = "twilog", token # NoToken
          PROVE  /\ conf'.header = token
                 /\ UsesMCPRemote(conf') => Sent(conf'.args) = {token} \/ dangling
      <3>1. conf' = [c EXCEPT !.header = token,
                              !.args = IF UsesMCPRemote(c) THEN WithHeader(c.args, token) ELSE @]
        BY <2>3, <2>4, <2>6 DEF ApplyBearerToken
      <3>2. /\ conf'.header = token
            /\ conf'.args = IF UsesMCPRemote(c) THEN WithHeader(c.args, token) ELSE c.args
        BY <2>2, <3>1 DEF Configuration
      <3>3. CASE UsesMCPRemote(c)
        <4>1. c.args \in Seq(Arg) /\ token \in Token
          BY <2>2, <2>3, <2>6 DEF Configuration
        <4>2. ~Dangling(c.args) => Sent(WithHeader(c.args, token)) = {token}
          BY <4>1, HeaderSends
        <4>3. Dangling(c.args) => dangling
          BY <2>1, <2>2 DEF TokenCarried
        <4> QED
          BY <3>2, <3>3, <4>2, <4>3
      <3>4. CASE ~UsesMCPRemote(c)
        BY <2>5, <3>2, <3>4 DEF UsesMCPRemote
      <3> QED
        BY <3>2, <3>3, <3>4
    <2> QED
      BY <2>1, <2>5, <2>6 DEF TokenCarried
  <1>5. CASE Validate
    BY <1>5 DEF Validate, TokenCarried
  <1>6. CASE ResolveObserve
    BY <1>6 DEF ResolveObserve, TokenCarried
  <1>7. CASE UNCHANGED configVars
    BY <1>7 DEF configVars, TokenCarried
  <1> QED
    BY <1>1, <1>2, <1>3, <1>4, <1>5, <1>6, <1>7 DEF ConfigNext

LEMMA TokenAlways == ConfigSpec => []TokenCarried
  <1>1. TokenCarried /\ (ConfigTypeOK /\ ListsValid) /\ [ConfigNext]_configVars => TokenCarried'
    BY TokenStep
  <1> QED
    BY <1>1, TokenStart, ConfigAlways, PTL DEF ConfigSpec

\* For all configurations, arguments and tokens: the server is asked with the token
\* that was to be used and no other one, unless the file's arguments end with a header
\* that has no value.
THEOREM TheTokenIsSent == ConfigSpec => []TokenIsSent
  <1>1. TokenCarried => TokenIsSent
    BY DEF TokenCarried, TokenIsSent, SentTokens, Sent
  <1> QED
    BY <1>1, TokenAlways, PTL

-----------------------------------------------------------------------------
(* Workspace *)

Positions == 1..Len(Order)

\* The file that is being written by EnsureWorkspaceInstructionFiles.
BeingWritten == IF program = "write" THEN {Order[pos]} ELSE {}

WorkspaceTypeOK ==
    /\ file \in [File -> {Absent, Empty, Template, "edited"}]
    /\ program \in {"down", "prepare", "write", "running"}
    /\ pos \in 1..(Len(Order) + 1)
    /\ reading \in 0..Len(Order)
    /\ editing \subseteq File

\* A file that is empty is being written or was left so by a death; a file that a
\* start has passed is there.
FilesAccounted ==
    /\ \A f \in File : file[f] = Empty => f \in editing \cup torn \cup BeingWritten
    /\ \A f \in editing : file[f] = Empty
    /\ program = "write" => /\ pos \in Positions
                            /\ file[Order[pos]] = Empty /\ Order[pos] \notin editing
    /\ program \in {"prepare", "write"} => \A i \in Positions : i < pos => file[Order[i]] # Absent
    /\ program = "running" => \A f \in File : file[f] # Absent

WorkspaceInv == WorkspaceTypeOK /\ FilesAccounted /\ InstructionsComplete

LEMMA Names == /\ Len(Order) \in Nat
               /\ \A i \in Positions : Order[i] \in File
               /\ \A f \in File : \E i \in Positions : f = Order[i]
  BY WorkspaceAssumption DEF File, Positions

LEMMA WorkspaceStart == WorkspaceInit => WorkspaceInv
  BY Names DEF WorkspaceInit, WorkspaceInv, WorkspaceTypeOK, FilesAccounted, InstructionsComplete,
               BeingWritten, Absent, Empty

LEMMA WorkspaceStep == WorkspaceInv /\ [WorkspaceNext]_workspaceVars => WorkspaceInv'
  <1> SUFFICES ASSUME WorkspaceInv, [WorkspaceNext]_workspaceVars
               PROVE  WorkspaceInv'
    OBVIOUS
  <1> USE Names DEF WorkspaceInv, Absent, Empty, Template, Positions
  <1>1. CASE StartProgram
    BY <1>1 DEF StartProgram, WorkspaceTypeOK, FilesAccounted, InstructionsComplete, BeingWritten
  <1>2. CASE Find
    BY <1>2 DEF Find, WorkspaceTypeOK, FilesAccounted, InstructionsComplete, BeingWritten
  <1>3. CASE Create
    <2>1. pos \in Positions /\ Order[pos] \in File
      BY <1>3 DEF Create, WorkspaceTypeOK
    <2>2. Order[pos] \notin editing
      BY <1>3 DEF Create, FilesAccounted
    <2>3. WorkspaceTypeOK'
      BY <1>3 DEF Create, WorkspaceTypeOK
    <2>4. \A f \in File : file'[f] = IF f = Order[pos] THEN Empty ELSE file[f]
      BY <1>3 DEF Create, WorkspaceTypeOK
    <2>5. FilesAccounted'
      BY <1>3, <2>1, <2>2, <2>4 DEF Create, WorkspaceTypeOK, FilesAccounted, BeingWritten
    <2>6. InstructionsComplete'
      BY <1>3 DEF Create, InstructionsComplete
    <2> QED
      BY <2>3, <2>5, <2>6
  <1>4. CASE Fill
    <2>1. pos \in Positions /\ Order[pos] \in File /\ Order[pos] \notin editing
      BY <1>4 DEF Fill, FilesAccounted
    <2>2. WorkspaceTypeOK'
      BY <1>4, <2>1 DEF Fill, WorkspaceTypeOK
    <2>3. \A f \in File : file'[f] = IF f = Order[pos] THEN Template ELSE file[f]
      BY <1>4 DEF Fill, WorkspaceTypeOK
    <2>4. FilesAccounted'
      <3>1. \A f \in File : file'[f] = Empty => f \in editing' \cup torn' \cup BeingWritten'
        BY <1>4, <2>1, <2>3 DEF Fill, FilesAccounted, BeingWritten
      <3>2. \A f \in editing' : file'[f] = Empty
        BY <1>4, <2>1, <2>3 DEF Fill, FilesAccounted, WorkspaceTypeOK
      <3>3. \A i \in Positions : i < pos' => file'[Order[i]] # Absent
        <4> SUFFICES ASSUME NEW i \in Positions, i < pos + 1, file'[Order[i]] = Absent
                     PROVE  FALSE
          BY <1>4 DEF Fill
        <4>1. i = pos \/ i < pos
          BY <2>1
        <4> QED
          BY <1>4, <2>1, <2>3, <4>1 DEF Fill, FilesAccounted
      <3> QED
        BY <1>4, <3>1, <3>2, <3>3 DEF Fill, FilesAccounted
    <2>5. InstructionsComplete'
      BY <1>4 DEF Fill, InstructionsComplete
    <2> QED
      BY <2>2, <2>4, <2>5
  <1>5. CASE Prepared
    <2>1. ASSUME NEW f \in File PROVE file[f] # Absent
      <3>1. PICK i \in 1..Len(Order) : f = Order[i]
        BY DEF File
      <3>2. i < pos
        BY <1>5, <3>1 DEF Prepared, WorkspaceTypeOK
      <3> QED
        BY <1>5, <3>1, <3>2 DEF Prepared, FilesAccounted
    <2> QED
      BY <1>5, <2>1 DEF Prepared, WorkspaceTypeOK, FilesAccounted, InstructionsComplete,
                        BeingWritten
  <1>6. CASE ReadNext
    <2> DEFINE f == Order[reading + 1]
    <2>1. reading + 1 \in Positions /\ f \in File
      BY <1>6 DEF ReadNext, WorkspaceTypeOK
    <2>2. f \in content' \cup cut'
      BY <1>6, <2>1 DEF ReadNext, FilesAccounted, BeingWritten
    <2>3. content \subseteq content' /\ cut \subseteq cut'
      BY <1>6 DEF ReadNext
    <2>4. InstructionsComplete'
      <3> SUFFICES ASSUME NEW i \in 1..(reading + 1)
                   PROVE  Order[i] \in content' \cup cut'
        BY <1>6 DEF ReadNext, InstructionsComplete
      <3>1. CASE i = reading + 1
        BY <2>2, <3>1
      <3>2. CASE i # reading + 1
        BY <1>6, <2>1, <2>3, <3>2 DEF ReadNext, InstructionsComplete, WorkspaceTypeOK
      <3> QED
        BY <3>1, <3>2
    <2> HIDE DEF f
    <2> QED
      BY <1>6, <2>1, <2>4 DEF ReadNext, WorkspaceTypeOK, FilesAccounted, BeingWritten
  <1>7. CASE NextTurn
    BY <1>7 DEF NextTurn, WorkspaceTypeOK, FilesAccounted, InstructionsComplete, BeingWritten
  <1>8. ASSUME NEW f \in File, BeginEdit(f)
        PROVE  WorkspaceInv'
    <2>1. \A g \in File : file'[g] = IF g = f THEN Empty ELSE file[g]
      BY <1>8 DEF BeginEdit, WorkspaceTypeOK
    <2>2. WorkspaceTypeOK'
      BY <1>8 DEF BeginEdit, WorkspaceTypeOK
    <2>3. FilesAccounted'
      BY <1>8, <2>1 DEF BeginEdit, FilesAccounted, BeingWritten, WorkspaceTypeOK
    <2>4. InstructionsComplete'
      BY <1>8 DEF BeginEdit, InstructionsComplete
    <2> QED
      BY <2>2, <2>3, <2>4
  <1>9. ASSUME NEW f \in File, EndEdit(f)
        PROVE  WorkspaceInv'
    <2>1. \A g \in File : file'[g] = IF g = f THEN "edited" ELSE file[g]
      BY <1>9 DEF EndEdit, WorkspaceTypeOK
    <2>2. WorkspaceTypeOK'
      BY <1>9 DEF EndEdit, WorkspaceTypeOK
    <2>3. FilesAccounted'
      BY <1>9, <2>1 DEF EndEdit, FilesAccounted, BeingWritten, WorkspaceTypeOK
    <2>4. InstructionsComplete'
      BY <1>9 DEF EndEdit, InstructionsComplete
    <2> QED
      BY <2>2, <2>3, <2>4
  <1>10. CASE KillServer
    BY <1>10 DEF KillServer, WorkspaceTypeOK, FilesAccounted, InstructionsComplete, BeingWritten
  <1>11. CASE Die
    BY <1>11 DEF Die, WorkspaceTypeOK, FilesAccounted, InstructionsComplete, BeingWritten
  <1>12. CASE UNCHANGED workspaceVars
    BY <1>12 DEF workspaceVars, WorkspaceTypeOK, FilesAccounted, InstructionsComplete, BeingWritten
  <1> QED
    BY <1>1, <1>2, <1>3, <1>4, <1>5, <1>6, <1>7, <1>8, <1>9, <1>10, <1>11, <1>12
       DEF WorkspaceNext

LEMMA WorkspaceAlways == WorkspaceSpec => []WorkspaceInv
  BY WorkspaceStart, WorkspaceStep, PTL DEF WorkspaceSpec

\* For all files, edits and deaths: the instructions of a turn have every file in them,
\* but for one that was being written or whose writing a death cut short.
THEOREM TheInstructionsAreComplete == WorkspaceSpec => []InstructionsComplete
  BY WorkspaceAlways, PTL DEF WorkspaceInv

\* For all files, edits and deaths: no start puts a template in the place of what the
\* model has written.
THEOREM TheMemoryIsKept == WorkspaceSpec => MemoryIsKept
  <1> DEFINE Kept == \A f \in File : file[f] = "edited" /\ file'[f] # "edited" => f \in editing'
  <1>1. WorkspaceInv /\ [WorkspaceNext]_workspaceVars => [Kept]_workspaceVars
    <2> SUFFICES ASSUME WorkspaceInv, WorkspaceNext, NEW f \in File,
                        file[f] = "edited", file'[f] # "edited"
                 PROVE  f \in editing'
      BY DEF workspaceVars
    <2> USE Names DEF WorkspaceInv, FilesAccounted, WorkspaceTypeOK, Absent, Empty
    <2>1. CASE Create
      BY <2>1 DEF Create
    <2>2. CASE Fill
      BY <2>2 DEF Fill
    <2>3. CASE \E g \in File : BeginEdit(g) \/ EndEdit(g)
      BY <2>3 DEF BeginEdit, EndEdit
    <2> QED
      BY <2>1, <2>2, <2>3 DEF WorkspaceNext, StartProgram, Find, Prepared, ReadNext, NextTurn,
                              KillServer, Die
  <1> QED
    BY <1>1, WorkspaceAlways, PTL DEF WorkspaceSpec, MemoryIsKept
=============================================================================
