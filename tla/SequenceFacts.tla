--------------------------- MODULE SequenceFacts ---------------------------
(***************************************************************************)
(* Facts about sequences and numbers that the proofs about more than one   *)
(* component need.                                                         *)
(***************************************************************************)
EXTENDS Integers, SequencesExt, WellFoundedInduction, TLAPS

\* The elements of joined lists are those of both.
LEMMA RangeConcat ==
  ASSUME NEW S, NEW s \in Seq(S), NEW t \in Seq(S)
  PROVE  s \o t \in Seq(S) /\ Range(s \o t) = Range(s) \cup Range(t)
<1>1. s \o t \in Seq(S) /\ Len(s \o t) = Len(s) + Len(t)
  OBVIOUS
<1>2. \A i \in DOMAIN s : i \in DOMAIN (s \o t) /\ (s \o t)[i] = s[i]
  OBVIOUS
<1>3. \A i \in DOMAIN t : i + Len(s) \in DOMAIN (s \o t) /\ (s \o t)[i + Len(s)] = t[i]
  OBVIOUS
<1>4. \A i \in DOMAIN (s \o t) :
        (s \o t)[i] \in Range(s) \/ (s \o t)[i] \in Range(t)
  BY <1>1 DEF Range
<1>5. Range(s \o t) \subseteq Range(s) \cup Range(t)
  BY <1>4 DEF Range
<1>6. Range(s) \subseteq Range(s \o t)
  BY <1>2 DEF Range
<1>7. Range(t) \subseteq Range(s \o t)
  BY <1>3 DEF Range
<1> QED
  BY <1>1, <1>5, <1>6, <1>7

\* Numbers have a least one.
LEMMA LeastElement ==
  ASSUME NEW T, T \subseteq Nat, T # {}
  PROVE  \E least \in T : \A n \in T : least <= n
<1> DEFINE R == {pair \in Nat \X Nat : pair[1] < pair[2]}
<1>1. IsWellFoundedOn(R, Nat)
  BY NatLessThanWellFounded DEF OpToRel
<1>2. \A m, n \in Nat : <<m, n>> \in R <=> m < n
  OBVIOUS
<1> HIDE DEF R
<1>3. PICK least \in T : \A n \in T : ~(<<n, least>> \in R)
  BY <1>1, WFMin
<1>4. ASSUME NEW n \in T
      PROVE  least <= n
  <2>1. least \in Nat /\ n \in Nat
    OBVIOUS
  <2>2. ~(n < least)
    BY <1>2, <1>3, <2>1, Zenon
  <2> QED
    BY <2>1, <2>2
<1> QED
  BY <1>4

\* Induction, over a set of numbers.
LEMMA SetInduction ==
  ASSUME NEW G, 0 \in G, \A n \in Nat : n \in G => n + 1 \in G
  PROVE  Nat \subseteq G
<1> DEFINE T == Nat \ G
<1> SUFFICES ASSUME T # {}
             PROVE  FALSE
  OBVIOUS
<1>1. PICK m \in T : \A n \in T : m <= n
  BY LeastElement
<1>2. m # 0 /\ m - 1 \in Nat
  BY <1>1
<1>3. m - 1 \in G
  BY <1>1, <1>2
<1>4. (m - 1) + 1 \in G
  BY <1>2, <1>3
<1> QED
  BY <1>1, <1>4

\* The recursive function FlattenSeq is built from exists.
LEMMA FlattenExists ==
  ASSUME NEW lists, NEW N \in Nat
  PROVE  \E f : f = [n \in 1 .. N |-> IF n = 1 THEN lists[n] ELSE f[n - 1] \o lists[n]]
<1> DEFINE Joined(f, m) ==
             f = [n \in 1 .. m |-> IF n = 1 THEN lists[n] ELSE f[n - 1] \o lists[n]]
           G == {m \in Nat : \E f : Joined(f, m)}
<1>1. 0 \in G
  <2>1. Joined([n \in 1 .. 0 |-> <<>>], 0)
    OBVIOUS
  <2> QED
    BY <2>1
<1>2. ASSUME NEW m \in Nat, m \in G
      PROVE  m + 1 \in G
  <2>1. PICK f : Joined(f, m)
    BY <1>2
  <2> DEFINE g == [n \in 1 .. m + 1 |->
                     IF n <= m THEN f[n]
                     ELSE IF m = 0 THEN lists[1] ELSE f[m] \o lists[m + 1]]
  <2>2. Joined(g, m + 1)
    <3>1. ASSUME NEW n \in 1 .. m + 1
          PROVE  g[n] = IF n = 1 THEN lists[n] ELSE g[n - 1] \o lists[n]
      <4>1. CASE n = 1
        BY <2>1, <4>1
      <4>2. CASE n # 1 /\ n <= m
        <5>1. n \in 1 .. m /\ n - 1 \in 1 .. m + 1 /\ n - 1 <= m
          BY <4>2
        <5>2. g[n] = f[n] /\ g[n - 1] = f[n - 1]
          BY <4>2, <5>1
        <5>3. f[n] = f[n - 1] \o lists[n]
          BY <2>1, <4>2, <5>1
        <5> HIDE DEF g
        <5> QED
          BY <4>2, <5>2, <5>3
      <4>3. CASE n # 1 /\ n = m + 1
        <5>1. /\ n - 1 = m /\ m # 0 /\ ~(m + 1 <= m)
              /\ m \in 1 .. m + 1 /\ m + 1 \in 1 .. m + 1
          BY <4>3
        <5>2. g[m + 1] = f[m] \o lists[m + 1]
          BY <5>1
        <5>3. g[m] = f[m]
          BY <5>1
        <5> HIDE DEF g
        <5> QED
          BY <4>3, <5>1, <5>2, <5>3
      <4> QED
        BY <4>1, <4>2, <4>3
    <3>2. g = [n \in 1 .. m + 1 |-> g[n]]
      OBVIOUS
    <3> HIDE DEF g
    <3>3. [n \in 1 .. m + 1 |-> g[n]] =
            [n \in 1 .. m + 1 |-> IF n = 1 THEN lists[n] ELSE g[n - 1] \o lists[n]]
      BY <3>1
    <3> QED
      BY <3>2, <3>3
  <2> HIDE DEF Joined, g
  <2> QED
    BY <2>2
<1> HIDE DEF G
<1>3. N \in G
  BY <1>1, <1>2, SetInduction
<1> QED
  BY <1>3 DEF G

\* The elements of flattened lists are those of each.
LEMMA FlattenRange ==
  ASSUME NEW S, NEW lists \in Seq(Seq(S))
  PROVE  Range(FlattenSeq(lists)) = UNION {Range(lists[n]) : n \in 1 .. Len(lists)}
<1> DEFINE N == Len(lists)
           Joined(f) ==
             f = [n \in 1 .. N |-> IF n = 1 THEN lists[n] ELSE f[n - 1] \o lists[n]]
           flatten == CHOOSE f : Joined(f)
           all(m) == UNION {Range(lists[n]) : n \in 1 .. m}
           Good(m) == flatten[m] \in Seq(S) /\ Range(flatten[m]) = all(m)
           G == {m \in Nat : m + 1 <= N => Good(m + 1)}
<1>1. N \in Nat /\ \A n \in 1 .. N : lists[n] \in Seq(S)
  OBVIOUS
<1>2. CASE N = 0
  <2>1. FlattenSeq(lists) = lists
    BY <1>2 DEF FlattenSeq
  <2>2. Range(lists) = {}
    BY <1>2 DEF Range
  <2>3. 1 .. N = {}
    BY <1>2
  <2> QED
    BY <2>1, <2>2, <2>3
<1>3. CASE N # 0
  <2>1. FlattenSeq(lists) = flatten[N]
    BY <1>3, Zenon DEF FlattenSeq
  <2> HIDE DEF N
  <2>2. Joined(flatten)
    <3>1. \E f : Joined(f)
      BY <1>1, FlattenExists
    <3> HIDE DEF Joined
    <3> QED
      BY <3>1
  <2> HIDE DEF flatten
  <2>3. \A n \in 1 .. N :
          flatten[n] = IF n = 1 THEN lists[n] ELSE flatten[n - 1] \o lists[n]
    BY <2>2
  <2>4. Good(1)
    <3>1. 1 \in 1 .. N
      BY <1>1, <1>3
    <3>2. flatten[1] = lists[1]
      BY <2>3, <3>1
    <3>3. 1 .. 1 = {1}
      OBVIOUS
    <3>4. all(1) = Range(lists[1])
      BY <3>3
    <3> QED
      BY <1>1, <3>1, <3>2, <3>4
  <2>5. ASSUME NEW m \in Nat, m + 1 <= N, m # 0, Good(m)
        PROVE  Good(m + 1)
    <3>1. m + 1 \in 1 .. N /\ m + 1 # 1 /\ (m + 1) - 1 = m
      BY <2>5
    <3> DEFINE s == flatten[m]
               e == lists[m + 1]
    <3>2. flatten[m + 1] = s \o e
      BY <2>3, <3>1
    <3>3. s \in Seq(S) /\ e \in Seq(S)
      BY <1>1, <2>5, <3>1
    <3>4. all(m + 1) = all(m) \cup Range(e)
      <4>1. 1 .. m + 1 = (1 .. m) \cup {m + 1}
        OBVIOUS
      <4> QED
        BY <4>1
    <3> HIDE DEF s, e, all
    <3>5. s \o e \in Seq(S) /\ Range(s \o e) = Range(s) \cup Range(e)
      BY <3>3, RangeConcat
    <3> QED
      BY <2>5, <3>2, <3>4, <3>5 DEF s
  <2> HIDE DEF Good
  <2>6. 0 \in G
    BY <2>4
  <2>7. ASSUME NEW m \in Nat, m \in G
        PROVE  m + 1 \in G
    BY <1>1, <2>5, <2>7
  <2> HIDE DEF G
  <2>8. N - 1 \in Nat /\ (N - 1) + 1 = N
    BY <1>1, <1>3
  <2>9. N - 1 \in G
    BY <2>6, <2>7, <2>8, SetInduction
  <2>10. Good(N)
    <3>1. N - 1 + 1 <= N => Good(N - 1 + 1)
      BY <2>9 DEF G
    <3> QED
      BY <2>8, <3>1
  <2> QED
    BY <2>1, <2>10 DEF Good, N
<1> QED
  BY <1>2, <1>3
=============================================================================
