------------------------- MODULE LimiterBucketsProofs -------------------------
(***************************************************************************)
(* What one call to the limiter does to its buckets, for any keys, limits, *)
(* windows, capacity and time stamps: which events it drops, that it keeps *)
(* the documented size, and whom it evicts.                                *)
(***************************************************************************)
EXTENDS LimiterBuckets, SequenceTheorems, FiniteSetTheorems, WellFoundedInduction, TLAPS

Events(bs, k) == IF k \in DOMAIN bs THEN bs[k].events ELSE <<>>

(* F is what is left of E when leading events up to the cutoff are dropped. *)
Pruned(E, F, cutoff) ==
  /\ F \in Seq(Nat) /\ Len(F) <= Len(E)
  /\ \A i \in 1 .. Len(F) : F[i] = E[Len(E) - Len(F) + i]
  /\ \A i \in 1 .. Len(E) - Len(F) : E[i] <= cutoff
------------------------------------------------------------------------------
(* LEADING EVENTS.                                                         *)

LEMMA LeastNumber ==
  ASSUME NEW T \in SUBSET Nat, T # {}
  PROVE  \E x \in T : \A y \in T : x <= y
<1>1. PICK x \in T : \A y \in T : ~ (<<y, x>> \in OpToRel(<, Nat))
  BY WFMin, NatLessThanWellFounded
<1>2. ASSUME NEW y \in T PROVE x <= y
  <2>1. x \in Nat /\ y \in Nat
    OBVIOUS
  <2>2. ~ (y < x)
    BY <1>1, <2>1 DEF OpToRel
  <2>3. QED BY <2>1, <2>2
<1>3. QED BY <1>2

(* The value the CHOOSE of activeEvents looks for exists.                  *)
LEMMA FirstActiveExists ==
  ASSUME NEW E \in Seq(Nat), NEW cutoff \in Int
  PROVE  \E n \in 0 .. Len(E) :
           /\ \A i \in 1 .. n : E[i] <= cutoff
           /\ n < Len(E) => E[n + 1] > cutoff
<1> DEFINE T == {n \in 0 .. Len(E) : n < Len(E) => E[n + 1] > cutoff}
<1>1. Len(E) \in Nat
  BY LenProperties
<1>2. T \in SUBSET Nat /\ Len(E) \in T
  BY <1>1
<1>3. PICK n \in T : \A y \in T : n <= y
  BY <1>2, LeastNumber
<1>4. ASSUME NEW i \in 1 .. n PROVE E[i] <= cutoff
  <2>1. i - 1 \in 0 .. Len(E) /\ i - 1 < n /\ i - 1 < Len(E) /\ (i - 1) + 1 = i
    BY <1>1
  <2>2. i - 1 \notin T
    BY <1>3, <2>1
  <2>3. ~ (E[i] > cutoff)
    BY <2>1, <2>2
  <2>4. E[i] \in Nat
    BY <1>1, ElementOfSeq
  <2>5. QED BY <2>3, <2>4
<1>5. QED BY <1>4

LEMMA ActiveEventsPrune ==
  ASSUME NEW E \in Seq(Nat), NEW cutoff \in Int
  PROVE  /\ Pruned(E, ActiveEvents(E, cutoff), cutoff)
         /\ Len(ActiveEvents(E, cutoff)) > 0 => ActiveEvents(E, cutoff)[1] > cutoff
<1> DEFINE first == CHOOSE n \in 0 .. Len(E) :
                     /\ \A i \in 1 .. n : E[i] <= cutoff
                     /\ n < Len(E) => E[n + 1] > cutoff
           F == SubSeq(E, first + 1, Len(E))
<1>1. /\ first \in 0 .. Len(E) /\ \A i \in 1 .. first : E[i] <= cutoff
      /\ first < Len(E) => E[first + 1] > cutoff
  BY FirstActiveExists
<1>2. ActiveEvents(E, cutoff) = F
  BY DEF ActiveEvents
<1> HIDE DEF first
<1>3. Len(E) \in Nat /\ \A i \in 1 .. Len(E) : E[i] \in Nat
  BY LenProperties, ElementOfSeq
<1>4. /\ first + 1 \in Int /\ Len(E) \in Int
      /\ \A i \in first + 1 .. Len(E) : E[i] \in Nat
  BY <1>1, <1>3
<1>5. /\ F \in Seq(Nat)
      /\ Len(F) = IF first + 1 <= Len(E) THEN Len(E) - (first + 1) + 1 ELSE 0
      /\ \A i \in 1 .. Len(E) - (first + 1) + 1 : F[i] = E[(first + 1) + i - 1]
  BY <1>4, SubSeqProperties
<1> HIDE DEF F
<1>6. Len(F) = Len(E) - first /\ first \in Nat /\ Len(E) - Len(F) = first
  BY <1>1, <1>3, <1>5
<1>7. \A i \in 1 .. Len(F) : F[i] = E[first + i]
  <2>1. ASSUME NEW i \in 1 .. Len(F) PROVE F[i] = E[first + i]
    <3>1. i \in 1 .. Len(E) - (first + 1) + 1 /\ (first + 1) + i - 1 = first + i
      BY <1>3, <1>6
    <3>2. QED BY <1>5, <3>1
  <2>2. QED BY <2>1
<1>8. Pruned(E, F, cutoff)
  <2>1. F \in Seq(Nat) /\ Len(F) <= Len(E)
    BY <1>3, <1>5, <1>6
  <2>2. \A i \in 1 .. Len(E) - Len(F) : E[i] <= cutoff
    BY <1>1, <1>6
  <2>3. \A i \in 1 .. Len(F) : F[i] = E[Len(E) - Len(F) + i]
    BY <1>6, <1>7
  <2>4. QED BY <2>1, <2>2, <2>3 DEF Pruned
<1>9. Len(F) > 0 => F[1] > cutoff
  BY <1>1, <1>3, <1>6, <1>7
<1>10. QED BY <1>2, <1>8, <1>9

LEMMA PrunedSelf ==
  ASSUME NEW E \in Seq(Nat), NEW cutoff \in Int
  PROVE  Pruned(E, E, cutoff)
BY LenProperties DEF Pruned

LEMMA PrunedMore ==
  ASSUME NEW E \in Seq(Nat), NEW F, NEW low \in Int, NEW high \in Int, low <= high,
         Pruned(E, F, low)
  PROVE  Pruned(E, F, high)
<1>1. Len(E) \in Nat /\ Len(F) \in Nat /\ \A i \in 1 .. Len(E) : E[i] \in Nat
  BY LenProperties, ElementOfSeq DEF Pruned
<1>2. \A i \in 1 .. Len(E) - Len(F) : E[i] <= low /\ E[i] \in Nat
  BY <1>1 DEF Pruned
<1>3. QED BY <1>1, <1>2 DEF Pruned

LEMMA PrunedTwice ==
  ASSUME NEW E \in Seq(Nat), NEW F, NEW G, NEW cutoff \in Int,
         Pruned(E, F, cutoff), Pruned(F, G, cutoff)
  PROVE  Pruned(E, G, cutoff)
<1>1. /\ F \in Seq(Nat) /\ G \in Seq(Nat)
      /\ Len(E) \in Nat /\ Len(F) \in Nat /\ Len(G) \in Nat
      /\ Len(F) <= Len(E) /\ Len(G) <= Len(F)
  BY LenProperties DEF Pruned
<1>2. ASSUME NEW i \in 1 .. Len(G) PROVE G[i] = E[Len(E) - Len(G) + i]
  <2>1. G[i] = F[Len(F) - Len(G) + i]
    BY <1>1 DEF Pruned
  <2>2. Len(F) - Len(G) + i \in 1 .. Len(F)
    BY <1>1
  <2>3. F[Len(F) - Len(G) + i] = E[Len(E) - Len(F) + (Len(F) - Len(G) + i)]
    BY <2>2 DEF Pruned
  <2>4. Len(E) - Len(F) + (Len(F) - Len(G) + i) = Len(E) - Len(G) + i
    BY <1>1
  <2>5. QED BY <2>1, <2>3, <2>4
<1>3. ASSUME NEW i \in 1 .. Len(E) - Len(G) PROVE E[i] <= cutoff
  <2>1. CASE i <= Len(E) - Len(F)
    BY <1>1, <2>1 DEF Pruned
  <2>2. CASE ~ (i <= Len(E) - Len(F))
    <3> DEFINE j == i - (Len(E) - Len(F))
    <3>1. j \in 1 .. Len(F) - Len(G) /\ j \in 1 .. Len(F) /\ Len(E) - Len(F) + j = i
      BY <1>1, <2>2
    <3>2. F[j] <= cutoff
      BY <3>1 DEF Pruned
    <3>3. F[j] = E[Len(E) - Len(F) + j]
      BY <3>1 DEF Pruned
    <3>4. QED BY <3>1, <3>2, <3>3
  <2>3. QED BY <2>1, <2>2
<1>4. QED BY <1>1, <1>2, <1>3 DEF Pruned

(* A list that was full and stays full has lost nothing.                   *)
LEMMA PrunedNothing ==
  ASSUME NEW E \in Seq(Nat), NEW F, NEW cutoff \in Int, Pruned(E, F, cutoff), Len(F) = Len(E)
  PROVE  F = E
<1>1. F \in Seq(Nat) /\ Len(E) \in Nat
  BY LenProperties DEF Pruned
<1>2. \A i \in 1 .. Len(F) : F[i] = E[i]
  BY <1>1 DEF Pruned
<1>3. QED BY <1>1, <1>2, SeqEqual

(* An event newer than the cutoff is kept, and something is active exactly *)
(* when there is one.                                                      *)
HasNewer(E, cutoff) == \E i \in 1 .. Len(E) : E[i] > cutoff

LEMMA NewerSurvives ==
  ASSUME NEW E \in Seq(Nat), NEW F, NEW cutoff \in Int, Pruned(E, F, cutoff), HasNewer(E, cutoff)
  PROVE  HasNewer(F, cutoff)
<1>1. /\ F \in Seq(Nat) /\ Len(E) \in Nat /\ Len(F) \in Nat /\ Len(F) <= Len(E)
      /\ \A i \in 1 .. Len(E) : E[i] \in Nat
  BY LenProperties, ElementOfSeq DEF Pruned
<1>2. PICK i \in 1 .. Len(E) : E[i] > cutoff
  BY DEF HasNewer
<1>3. ~ (i \in 1 .. Len(E) - Len(F))
  <2>1. SUFFICES ASSUME i \in 1 .. Len(E) - Len(F) PROVE FALSE
    OBVIOUS
  <2>2. E[i] <= cutoff /\ E[i] \in Nat
    BY <1>1, <2>1 DEF Pruned
  <2>3. QED BY <1>2, <2>2
<1> DEFINE j == i - (Len(E) - Len(F))
<1>4. j \in 1 .. Len(F) /\ Len(E) - Len(F) + j = i
  BY <1>1, <1>3
<1>5. F[j] = E[i]
  BY <1>4 DEF Pruned
<1>6. QED BY <1>2, <1>4, <1>5 DEF HasNewer

LEMMA ActiveExactly ==
  ASSUME NEW E \in Seq(Nat), NEW cutoff \in Int
  PROVE  ActiveEvents(E, cutoff) # <<>> <=> HasNewer(E, cutoff)
<1> DEFINE F == ActiveEvents(E, cutoff)
<1>1. Pruned(E, F, cutoff) /\ (Len(F) > 0 => F[1] > cutoff)
  BY ActiveEventsPrune
<1> HIDE DEF F
<1>2. F \in Seq(Nat) /\ Len(E) \in Nat /\ Len(F) \in Nat /\ Len(F) <= Len(E)
  BY <1>1, LenProperties DEF Pruned
<1>3. F # <<>> <=> Len(F) > 0
  BY <1>2, EmptySeq
<1>4. ASSUME Len(F) > 0 PROVE HasNewer(E, cutoff)
  <2>1. 1 \in 1 .. Len(F) /\ Len(E) - Len(F) + 1 \in 1 .. Len(E)
    BY <1>2, <1>4
  <2>2. E[Len(E) - Len(F) + 1] > cutoff
    BY <1>1, <1>4, <2>1 DEF Pruned
  <2>3. QED BY <2>1, <2>2 DEF HasNewer
<1>5. ASSUME HasNewer(E, cutoff) PROVE Len(F) > 0
  <2>1. HasNewer(F, cutoff)
    BY <1>1, <1>5, NewerSurvives
  <2>2. QED BY <1>2, <2>1 DEF HasNewer
<1>6. QED BY <1>3, <1>4, <1>5 DEF F

LEMMA NothingNewer ==
  ASSUME NEW E \in Seq(Nat), NEW cutoff \in Int, ~ HasNewer(E, cutoff)
  PROVE  Pruned(E, <<>>, cutoff)
<1>1. Len(E) \in Nat /\ \A i \in 1 .. Len(E) : E[i] \in Nat
  BY LenProperties, ElementOfSeq
<1>2. <<>> \in Seq(Nat) /\ Len(<<>>) = 0
  BY EmptySeq
<1>3. \A i \in 1 .. Len(E) : E[i] <= cutoff
  BY <1>1 DEF HasNewer
<1>4. QED BY <1>1, <1>2, <1>3 DEF Pruned
------------------------------------------------------------------------------
(* FULL BUCKETS.                                                           *)

LEMMA RuleTypes ==
  ASSUME NEW k \in Key, NEW now \in Nat
  PROVE  /\ Limit[k] \in Nat /\ Limit[k] > 0 /\ Window[k] \in Nat /\ Window[k] > 0
         /\ now - Window[k] \in Int
<1>1. Limit[k] \in Nat \ {0} /\ Window[k] \in Nat \ {0}
  BY RuleAssumption
<1>2. QED BY <1>1

LEMMA BucketTypes ==
  ASSUME NEW bs, BucketsOK(bs), NEW k \in DOMAIN bs
  PROVE  /\ k \in Key /\ bs[k] \in Bucket /\ bs[k].events \in Seq(Nat) /\ bs[k].lastSeen \in Nat
         /\ Len(bs[k].events) \in Nat /\ Len(bs[k].events) <= Limit[k]
         /\ \A i \in 1 .. Len(bs[k].events) : bs[k].events[i] \in Nat
<1>1. k \in Key /\ bs[k] \in Bucket /\ Len(bs[k].events) <= Limit[k]
  BY DEF BucketsOK
<1>2. bs[k].events \in Seq(Nat) /\ bs[k].lastSeen \in Nat
  BY <1>1 DEF Bucket
<1>3. QED BY <1>1, <1>2, LenProperties, ElementOfSeq

LEMMA EventsAreStamps ==
  ASSUME NEW bs, BucketsOK(bs), NEW k \in Key
  PROVE  Events(bs, k) \in Seq(Nat) /\ Len(Events(bs, k)) \in Nat /\ Len(Events(bs, k)) <= Limit[k]
<1>1. CASE k \in DOMAIN bs
  BY <1>1, BucketTypes DEF Events
<1>2. CASE k \notin DOMAIN bs
  BY <1>2, EmptySeq, RuleAssumption DEF Events
<1>3. QED BY <1>1, <1>2

(* The store is within its limits, so the newest `limit` are all.          *)
LEMMA EventsAtAreActive ==
  ASSUME NEW bs, BucketsOK(bs), NEW k \in DOMAIN bs, NEW now \in Nat
  PROVE  /\ EventsAt(bs, k, now) = ActiveEvents(bs[k].events, now - Window[k])
         /\ Pruned(bs[k].events, EventsAt(bs, k, now), now - Window[k])
         /\ EventsAt(bs, k, now) \in Seq(Nat) /\ Len(EventsAt(bs, k, now)) \in Nat
         /\ Len(EventsAt(bs, k, now)) <= Limit[k]
<1> DEFINE E == bs[k].events  F == ActiveEvents(E, now - Window[k])
<1>1. k \in Key /\ E \in Seq(Nat) /\ Len(E) \in Nat /\ Len(E) <= Limit[k]
  BY BucketTypes
<1>2. Limit[k] \in Nat /\ now - Window[k] \in Int
  BY <1>1, RuleTypes
<1>3. Pruned(E, F, now - Window[k])
  BY <1>1, <1>2, ActiveEventsPrune
<1>4. EventsAt(bs, k, now) = Newest(F, Limit[k])
  BY DEF EventsAt
<1> HIDE DEF F
<1>5. F \in Seq(Nat) /\ Len(F) \in Nat /\ Len(F) <= Limit[k]
  BY <1>1, <1>2, <1>3, LenProperties DEF Pruned
<1>6. Newest(F, Limit[k]) = SubSeq(F, 1, Len(F))
  BY <1>2, <1>5 DEF Newest
<1>7. Newest(F, Limit[k]) = F
  BY <1>5, <1>6, SubSeqFull
<1>8. QED BY <1>3, <1>4, <1>5, <1>7 DEF F

(* A key is refused exactly when its bucket holds its limit of events and  *)
(* the first is still in the window, and then has to wait for that one.    *)
LEMMA FullExactly ==
  ASSUME NEW bs, BucketsOK(bs), NEW k \in Key, NEW now \in Nat
  PROVE  /\ Full(bs, k, now) <=>
              /\ k \in DOMAIN bs /\ Len(bs[k].events) = Limit[k]
              /\ bs[k].events[1] > now - Window[k]
         /\ Full(bs, k, now) =>
              RetryDuration(bs, k, now) = bs[k].events[1] + Window[k] - now
<1>1. CASE k \notin DOMAIN bs
  BY <1>1 DEF Full
<1>2. CASE k \in DOMAIN bs
  <2> DEFINE E == bs[k].events  F == EventsAt(bs, k, now)  cutoff == now - Window[k]
  <2>1. /\ E \in Seq(Nat) /\ Len(E) \in Nat /\ Len(E) <= Limit[k]
        /\ \A i \in 1 .. Len(E) : E[i] \in Nat
    BY <1>2, BucketTypes
  <2>2. Limit[k] \in Nat /\ Limit[k] > 0 /\ Window[k] \in Nat /\ cutoff \in Int
    BY RuleTypes
  <2>3. /\ Pruned(E, F, cutoff) /\ F \in Seq(Nat) /\ Len(F) \in Nat /\ Len(F) <= Limit[k]
        /\ F = ActiveEvents(E, cutoff)
    BY <1>2, EventsAtAreActive
  <2>4. Len(F) > 0 => F[1] > cutoff
    BY <2>1, <2>2, <2>3, ActiveEventsPrune
  <2>5. Full(bs, k, now) <=> Len(F) >= Limit[k]
    BY <1>2 DEF Full
  <2>6. RetryDuration(bs, k, now) = IF F[1] + Window[k] - now < 0 THEN 0 ELSE F[1] + Window[k] - now
    BY DEF RetryDuration
  <2> HIDE DEF E, F, cutoff
  <2>7. ASSUME Len(F) >= Limit[k]
        PROVE  F = E /\ Len(E) = Limit[k] /\ E[1] > cutoff
    <3>1. Len(F) <= Len(E)
      BY <2>3 DEF Pruned
    <3>2. Len(F) = Len(E) /\ Len(E) = Limit[k] /\ Len(F) > 0
      BY <2>1, <2>2, <2>3, <2>7, <3>1
    <3>3. F = E
      BY <2>1, <2>2, <2>3, <3>2, PrunedNothing
    <3>4. QED BY <2>4, <3>2, <3>3
  <2>8. ASSUME Len(E) = Limit[k], E[1] > cutoff
        PROVE  Len(F) >= Limit[k]
    <3>1. SUFFICES ASSUME Len(F) < Limit[k] PROVE FALSE
      BY <2>2, <2>3
    <3>2. 1 \in 1 .. Len(E) - Len(F) /\ 1 \in 1 .. Len(E)
      BY <2>1, <2>2, <2>3, <2>8, <3>1
    <3>3. E[1] <= cutoff /\ E[1] \in Nat
      BY <2>1, <2>3, <3>2 DEF Pruned
    <3>4. QED BY <2>2, <2>8, <3>3
  <2>9. Full(bs, k, now) <=> Len(E) = Limit[k] /\ E[1] > cutoff
    BY <2>5, <2>7, <2>8
  <2>10. ASSUME Full(bs, k, now)
         PROVE  RetryDuration(bs, k, now) = E[1] + Window[k] - now
    <3>1. F = E /\ E[1] > cutoff /\ 1 \in 1 .. Len(E)
      BY <2>1, <2>2, <2>5, <2>7, <2>10
    <3>2. E[1] \in Nat
      BY <2>1, <3>1
    <3>3. ~ (E[1] + Window[k] - now < 0)
      BY <2>2, <3>1, <3>2 DEF cutoff
    <3>4. QED BY <2>6, <3>1, <3>3
  <2>11. QED BY <1>2, <2>9, <2>10 DEF E, cutoff
<1>3. QED BY <1>1, <1>2
------------------------------------------------------------------------------
(* WHO IS EVICTED.                                                         *)

Preceding(C, B, k) == {j \in C : <<j, k>> \in B}

IsTotalOrder(C, B) ==
  /\ \A k \in C : <<k, k>> \notin B
  /\ \A i, j, k \in C : <<i, j>> \in B /\ <<j, k>> \in B => <<i, k>> \in B
  /\ \A j, k \in C : j # k => <<j, k>> \in B \/ <<k, j>> \in B

(* In a finite set under a strict total order, the elements with fewer     *)
(* than `count` others before them are `count` many, and come first.       *)
LEMMA FirstInOrder ==
  ASSUME NEW C, IsFiniteSet(C), NEW B, IsTotalOrder(C, B),
         NEW count \in Nat, count <= Cardinality(C),
         NEW R \in SUBSET C,
         \A k \in C : k \in R <=> Cardinality(Preceding(C, B, k)) < count
  PROVE  /\ Cardinality(R) = count
         /\ \A k \in R, j \in C \ R : <<j, k>> \notin B
<1> DEFINE P(k) == {j \in C : <<j, k>> \in B}
<1> USE DEF IsTotalOrder
<1>1. \A k \in C : IsFiniteSet(P(k)) /\ Cardinality(P(k)) \in Nat
  <2>1. ASSUME NEW k \in C PROVE IsFiniteSet(P(k)) /\ Cardinality(P(k)) \in Nat
    <3>1. P(k) \in SUBSET C
      OBVIOUS
    <3>2. QED BY <3>1, FS_Subset, FS_CardinalityType
  <2>2. QED BY <2>1
<1>2. ASSUME NEW j \in C, NEW k \in C, <<j, k>> \in B
      PROVE  Cardinality(P(j)) < Cardinality(P(k))
  <2>1. P(j) \in SUBSET P(k) /\ j \in P(k) /\ j \notin P(j)
    BY <1>2
  <2>2. Cardinality(P(j)) <= Cardinality(P(k)) /\ Cardinality(P(j)) # Cardinality(P(k))
    <3> HIDE DEF P
    <3>1. P(j) # P(k) /\ IsFiniteSet(P(k))
      BY <1>1, <2>1
    <3>2. QED BY <2>1, <3>1, FS_Subset
  <2> HIDE DEF P
  <2>3. QED BY <1>1, <2>2
<1>3. R \in SUBSET C /\ \A k \in C : k \in R <=> Cardinality(P(k)) < count
  BY DEF Preceding
<1>4. IsFiniteSet(R) /\ Cardinality(R) \in Nat /\ Cardinality(C) \in Nat
  BY <1>3, FS_Subset, FS_CardinalityType
<1>5. \A k \in R, j \in C \ R : <<j, k>> \notin B
  <2>1. SUFFICES ASSUME NEW k \in R, NEW j \in C \ R, <<j, k>> \in B PROVE FALSE
    OBVIOUS
  <2>2. k \in C /\ j \in C
    BY <1>3
  <2>3. Cardinality(P(j)) < Cardinality(P(k))
    BY <1>2, <2>1, <2>2
  <2> HIDE DEF P
  <2>4. Cardinality(P(k)) < count /\ ~ (Cardinality(P(j)) < count)
    BY <1>3, <2>2
  <2>5. QED BY <1>1, <2>2, <2>3, <2>4
<1>6. ~ (Cardinality(R) < count)
  <2>1. SUFFICES ASSUME Cardinality(R) < count PROVE FALSE
    OBVIOUS
  <2>2. C \ R # {}
    <3>1. SUFFICES ASSUME C \ R = {} PROVE FALSE
      OBVIOUS
    <3>2. R = C
      BY <1>3, <3>1
    <3>3. Cardinality(R) = Cardinality(C)
      BY <3>2
    <3> HIDE DEF P
    <3>4. count <= Cardinality(R)
      BY <3>3
    <3>5. QED BY <1>4, <2>1, <3>4
  <2> DEFINE T == {Cardinality(P(u)) : u \in C \ R}
  <2>3. T \in SUBSET Nat /\ T # {}
    <3> HIDE DEF P
    <3>1. \A u \in C \ R : Cardinality(P(u)) \in Nat
      BY <1>1
    <3>2. \A y \in T : y \in Nat
      BY <3>1
    <3>3. PICK u \in C \ R : TRUE
      BY <2>2
    <3>4. Cardinality(P(u)) \in T
      BY <3>3
    <3> HIDE DEF T
    <3>5. QED BY <3>2, <3>4
  <2>4. PICK x \in T : \A y \in T : x <= y
    BY <2>3, LeastNumber
  <2>5. PICK u \in C \ R : x = Cardinality(P(u))
    BY <2>4
  <2>6. ASSUME NEW j \in P(u) PROVE j \in R
    <3>1. j \in C /\ Cardinality(P(j)) < x
      BY <1>2, <2>5
    <3>2. Cardinality(P(j)) \in Nat /\ x \in Nat
      BY <1>1, <2>3, <3>1
    <3>3. SUFFICES ASSUME j \notin R PROVE FALSE
      OBVIOUS
    <3>4. Cardinality(P(j)) \in T
      BY <3>1, <3>3
    <3>5. x <= Cardinality(P(j))
      BY <2>4, <3>4
    <3>6. QED BY <3>1, <3>2, <3>5
  <2>7. P(u) \in SUBSET R
    BY <2>6
  <2>8. Cardinality(P(u)) <= Cardinality(R) /\ Cardinality(P(u)) \in Nat
    <3> HIDE DEF P
    <3>1. QED BY <1>1, <1>4, <2>7, FS_Subset
  <2> HIDE DEF P
  <2>9. Cardinality(P(u)) < count
    BY <1>4, <2>1, <2>8
  <2>10. QED BY <1>3, <2>9
<1>7. Cardinality(R) <= count
  <2>1. CASE R = {}
    <3>1. Cardinality(R) = 0
      BY <2>1, FS_EmptySet
    <3>2. QED BY <3>1
  <2>2. CASE R # {}
    <3> DEFINE T == {count - Cardinality(P(u)) : u \in R}
    <3>1. \A u \in R : u \in C /\ Cardinality(P(u)) \in Nat /\ Cardinality(P(u)) < count
      BY <1>1, <1>3
    <3>2. T \in SUBSET Nat /\ T # {}
      <4>1. \A u \in R : count - Cardinality(P(u)) \in Nat
        <5> HIDE DEF P
        <5>1. ASSUME NEW u \in R PROVE count - Cardinality(P(u)) \in Nat
          <6>1. Cardinality(P(u)) \in Nat /\ Cardinality(P(u)) < count
            BY <3>1
          <6>2. QED BY <6>1
        <5>2. QED BY <5>1
      <4> HIDE DEF P
      <4>2. \A y \in T : y \in Nat
        BY <4>1
      <4>3. PICK u \in R : TRUE
        BY <2>2
      <4>4. count - Cardinality(P(u)) \in T
        BY <4>3
      <4> HIDE DEF T
      <4>5. QED BY <4>2, <4>4
    <3>3. PICK x \in T : \A y \in T : x <= y
      BY <3>2, LeastNumber
    <3>4. PICK m \in R : x = count - Cardinality(P(m))
      BY <3>3
    <3>5. ASSUME NEW j \in R PROVE j \in P(m) \cup {m}
      <4>1. SUFFICES ASSUME j # m, <<j, m>> \notin B PROVE FALSE
        BY <3>1
      <4>2. <<m, j>> \in B
        BY <3>1, <4>1
      <4>3. Cardinality(P(m)) < Cardinality(P(j))
        BY <1>2, <3>1, <4>2
      <4>4. count - Cardinality(P(j)) \in T
        BY ZenonT(60)
      <4>5. x <= count - Cardinality(P(j))
        BY <3>3, <4>4
      <4> HIDE DEF P
      <4>6. QED BY <3>1, <3>4, <4>3, <4>5
    <3>6. R \in SUBSET (P(m) \cup {m}) /\ m \notin P(m)
      BY <3>1, <3>5
    <3> HIDE DEF P
    <3> DEFINE Q == P(m) \cup {m}
    <3>7. IsFiniteSet(Q) /\ Cardinality(Q) = Cardinality(P(m)) + 1
      BY <1>1, <3>1, <3>6, FS_AddElement
    <3>8. R \in SUBSET Q
      BY <3>6
    <3> HIDE DEF Q
    <3>9. Cardinality(R) <= Cardinality(Q)
      BY <3>7, <3>8, FS_Subset
    <3>10. Cardinality(R) <= Cardinality(P(m)) + 1
      BY <3>7, <3>9
    <3>11. QED BY <1>4, <3>1, <3>10
  <2>3. QED BY <2>1, <2>2
<1>8. QED BY <1>4, <1>5, <1>6, <1>7

LEMMA EvictsTheStalest ==
  ASSUME NEW bs, BucketsOK(bs), NEW protected, NEW count \in Nat,
         count <= Cardinality(DOMAIN bs \ protected),
         NEW R, R = LeastRecentlySeen(bs, protected, count)
  PROVE  /\ R \subseteq DOMAIN bs \ protected /\ Cardinality(R) = count
         /\ \A k \in R, j \in (DOMAIN bs \ protected) \ R : bs[k].lastSeen <= bs[j].lastSeen
<1> DEFINE C == DOMAIN bs \ protected
           Before(j, k) == \/ bs[j].lastSeen < bs[k].lastSeen
                           \/ bs[j].lastSeen = bs[k].lastSeen /\ j < k
           B == {p \in C \X C : Before(p[1], p[2])}
<1>1. IsFiniteSet(C)
  <2>1. C \in SUBSET Key
    BY DEF BucketsOK
  <2>2. QED BY <2>1, KeyAssumption, FS_Subset
<1>2. \A k \in C : k \in Nat /\ bs[k].lastSeen \in Nat
  BY BucketTypes, KeyAssumption
<1>3. \A j, k \in C : <<j, k>> \in B <=> Before(j, k)
  OBVIOUS
<1>4. R \in SUBSET C /\ \A k \in C : k \in R <=> Cardinality({j \in C : Before(j, k)}) < count
  BY DEF LeastRecentlySeen
<1>5. \A k \in C : {j \in C : Before(j, k)} = Preceding(C, B, k)
  BY <1>3 DEF Preceding
<1>6. \A k \in C : k \in R <=> Cardinality(Preceding(C, B, k)) < count
  BY <1>4, <1>5
<1> HIDE DEF B
<1>7. IsTotalOrder(C, B)
  <2>1. \A k \in C : <<k, k>> \notin B
    BY <1>2, <1>3
  <2>2. \A i, j, k \in C : <<i, j>> \in B /\ <<j, k>> \in B => <<i, k>> \in B
    BY <1>2, <1>3
  <2>3. \A j, k \in C : j # k => <<j, k>> \in B \/ <<k, j>> \in B
    BY <1>2, <1>3
  <2>4. QED BY <2>1, <2>2, <2>3 DEF IsTotalOrder
<1>8. R \in SUBSET C
  BY <1>4
<1>9. count <= Cardinality(C)
  OBVIOUS
<1> HIDE DEF C
<1>10. /\ Cardinality(R) = count
       /\ \A k \in R, j \in C \ R : <<j, k>> \notin B
  BY <1>1, <1>6, <1>7, <1>8, <1>9, FirstInOrder
<1>11. ASSUME NEW k \in R, NEW j \in C \ R PROVE bs[k].lastSeen <= bs[j].lastSeen
  <2>1. k \in C /\ j \in C /\ ~ Before(j, k)
    BY <1>3, <1>4, <1>10
  <2>2. QED BY <1>2, <2>1
<1>12. QED BY <1>4, <1>10, <1>11 DEF C
------------------------------------------------------------------------------
(* WHAT A CALL LEAVES.                                                     *)

(* cs is bs after some expired events, and some keys, have been dropped.   *)
Shrunk(bs, cs, now) ==
  /\ DOMAIN cs \subseteq DOMAIN bs /\ BucketsOK(cs)
  /\ \A k \in DOMAIN cs : /\ cs[k].lastSeen = bs[k].lastSeen
                          /\ Pruned(bs[k].events, cs[k].events, now - Window[k])

LEMMA FewerKeys ==
  ASSUME NEW bs, BucketsOK(bs), NEW S \in SUBSET DOMAIN bs
  PROVE  /\ IsFiniteSet(DOMAIN bs) /\ IsFiniteSet(S)
         /\ Cardinality(S) \in Nat /\ Cardinality(S) <= MaxKeys
<1>1. DOMAIN bs \in SUBSET Key /\ Cardinality(DOMAIN bs) <= MaxKeys
  BY DEF BucketsOK
<1>2. IsFiniteSet(DOMAIN bs)
  BY <1>1, KeyAssumption, FS_Subset
<1>3. IsFiniteSet(S) /\ Cardinality(S) <= Cardinality(DOMAIN bs)
  BY <1>2, FS_Subset
<1>4. Cardinality(S) \in Nat /\ Cardinality(DOMAIN bs) \in Nat
  BY <1>2, <1>3, FS_CardinalityType
<1>5. QED BY <1>1, <1>2, <1>3, <1>4, MaxKeysAssumption

LEMMA ShrunkIntro ==
  ASSUME NEW bs, BucketsOK(bs), NEW cs, NEW now \in Nat,
         DOMAIN cs \subseteq DOMAIN bs,
         \A k \in DOMAIN cs : /\ cs[k] \in Bucket
                              /\ cs[k].lastSeen = bs[k].lastSeen
                              /\ Pruned(bs[k].events, cs[k].events, now - Window[k])
  PROVE  Shrunk(bs, cs, now)
<1>1. DOMAIN cs \subseteq Key /\ Cardinality(DOMAIN cs) <= MaxKeys
  BY FewerKeys DEF BucketsOK
<1>2. ASSUME NEW k \in DOMAIN cs PROVE Len(cs[k].events) <= Limit[k]
  <2>1. k \in DOMAIN bs /\ cs[k].events \in Seq(Nat)
    BY DEF Bucket
  <2>2. /\ k \in Key /\ Len(bs[k].events) <= Limit[k] /\ Len(bs[k].events) \in Nat
        /\ Len(cs[k].events) <= Len(bs[k].events)
    BY <2>1, BucketTypes DEF Pruned
  <2>3. Len(cs[k].events) \in Nat /\ Limit[k] \in Nat
    BY <2>1, <2>2, LenProperties, RuleTypes
  <2>4. QED BY <2>2, <2>3
<1>3. BucketsOK(cs)
  BY <1>1, <1>2 DEF BucketsOK
<1>4. QED BY <1>3 DEF Shrunk

LEMMA ShrunkSelf ==
  ASSUME NEW bs, BucketsOK(bs), NEW now \in Nat
  PROVE  Shrunk(bs, bs, now)
<1>1. ASSUME NEW k \in DOMAIN bs PROVE Pruned(bs[k].events, bs[k].events, now - Window[k])
  BY BucketTypes, RuleTypes, PrunedSelf
<1>2. QED BY <1>1 DEF Shrunk

LEMMA ShrunkTwice ==
  ASSUME NEW bs, BucketsOK(bs), NEW cs, NEW ds, NEW now \in Nat,
         Shrunk(bs, cs, now), Shrunk(cs, ds, now)
  PROVE  Shrunk(bs, ds, now)
<1>1. DOMAIN ds \subseteq DOMAIN cs /\ DOMAIN cs \subseteq DOMAIN bs /\ BucketsOK(ds)
  BY DEF Shrunk
<1>2. ASSUME NEW k \in DOMAIN ds
      PROVE  /\ ds[k].lastSeen = bs[k].lastSeen
             /\ Pruned(bs[k].events, ds[k].events, now - Window[k])
  <2>1. /\ k \in DOMAIN cs /\ k \in DOMAIN bs
        /\ Pruned(bs[k].events, cs[k].events, now - Window[k])
        /\ Pruned(cs[k].events, ds[k].events, now - Window[k])
        /\ ds[k].lastSeen = cs[k].lastSeen /\ cs[k].lastSeen = bs[k].lastSeen
    BY <1>1 DEF Shrunk
  <2>2. bs[k].events \in Seq(Nat) /\ now - Window[k] \in Int
    BY <2>1, BucketTypes, RuleTypes
  <2>3. QED BY <2>1, <2>2, PrunedTwice
<1>3. QED BY <1>1, <1>2 DEF Shrunk

LEMMA ForgettingShrinks ==
  ASSUME NEW bs, BucketsOK(bs), NEW S, NEW now \in Nat
  PROVE  Shrunk(bs, Without(bs, S), now) /\ DOMAIN Without(bs, S) = DOMAIN bs \ S
<1>1. /\ DOMAIN Without(bs, S) = DOMAIN bs \ S
      /\ \A k \in DOMAIN bs \ S : Without(bs, S)[k] = bs[k]
  BY DEF Without
<1>2. \A k \in DOMAIN bs : /\ bs[k] \in Bucket
                           /\ Pruned(bs[k].events, bs[k].events, now - Window[k])
  BY BucketTypes, RuleTypes, PrunedSelf
<1> DEFINE cs == Without(bs, S)
<1> HIDE DEF cs
<1>3. Shrunk(bs, cs, now)
  BY <1>1, <1>2, ShrunkIntro DEF cs
<1>4. QED BY <1>1, <1>3 DEF cs

(* Cleanup drops expired leading events and the keys left without any: it  *)
(* keeps exactly the keys that have an event in their window.              *)
LEMMA CleanupShrinks ==
  ASSUME NEW bs, BucketsOK(bs), NEW now \in Nat
  PROVE  /\ Shrunk(bs, CleanupExpired(bs, now), now)
         /\ \A k \in DOMAIN bs : k \in DOMAIN CleanupExpired(bs, now)
                                   <=> HasNewer(bs[k].events, now - Window[k])
<1> DEFINE Rest(k) == ActiveEvents(bs[k].events, now - Window[k])
           cs == CleanupExpired(bs, now)
<1>1. /\ DOMAIN cs = {j \in DOMAIN bs : Rest(j) # <<>>}
      /\ \A k \in DOMAIN cs : cs[k] = [bs[k] EXCEPT !.events = Rest(k)]
  BY DEF CleanupExpired
<1> HIDE DEF cs
<1>2. ASSUME NEW k \in DOMAIN bs
      PROVE  /\ Rest(k) # <<>> <=> HasNewer(bs[k].events, now - Window[k])
             /\ Pruned(bs[k].events, Rest(k), now - Window[k])
  <2>1. k \in Key /\ bs[k].events \in Seq(Nat) /\ now - Window[k] \in Int
    BY BucketTypes, RuleTypes
  <2>2. QED BY <2>1, ActiveExactly, ActiveEventsPrune
<1>3. ASSUME NEW k \in DOMAIN cs
      PROVE  /\ cs[k] \in Bucket /\ cs[k].lastSeen = bs[k].lastSeen
             /\ Pruned(bs[k].events, cs[k].events, now - Window[k])
  <2>1. k \in DOMAIN bs /\ bs[k] \in Bucket
    BY <1>1, BucketTypes
  <2>2. Pruned(bs[k].events, Rest(k), now - Window[k])
    BY <1>2, <2>1
  <2>3. Rest(k) \in Seq(Nat)
    BY <2>2 DEF Pruned
  <2> HIDE DEF Rest
  <2>4. cs[k].events = Rest(k) /\ cs[k].lastSeen = bs[k].lastSeen /\ cs[k] \in Bucket
    BY <1>1, <2>1, <2>3 DEF Bucket
  <2>5. QED BY <2>2, <2>4
<1>4. DOMAIN cs \subseteq DOMAIN bs
  BY <1>1
<1>5. Shrunk(bs, cs, now)
  BY <1>3, <1>4, ShrunkIntro
<1>6. \A k \in DOMAIN bs : k \in DOMAIN cs <=> HasNewer(bs[k].events, now - Window[k])
  <2>1. \A k \in DOMAIN bs : k \in DOMAIN cs <=> Rest(k) # <<>>
    BY <1>1
  <2>2. QED BY <1>2, <2>1
<1>7. QED BY <1>5, <1>6 DEF cs

(* Dropping expired events fills no bucket.                                *)
LEMMA ShrinkingFillsNothing ==
  ASSUME NEW bs, BucketsOK(bs), NEW cs, NEW now \in Nat, Shrunk(bs, cs, now),
         NEW k \in Key, ~ Full(bs, k, now)
  PROVE  ~ Full(cs, k, now)
<1>1. SUFFICES ASSUME Full(cs, k, now) PROVE FALSE
  OBVIOUS
<1>2. BucketsOK(cs) /\ DOMAIN cs \subseteq DOMAIN bs
  BY DEF Shrunk
<1>3. /\ k \in DOMAIN cs /\ Len(cs[k].events) = Limit[k]
      /\ cs[k].events[1] > now - Window[k]
  BY <1>1, <1>2, FullExactly
<1>4. /\ k \in DOMAIN bs /\ Pruned(bs[k].events, cs[k].events, now - Window[k])
      /\ now - Window[k] \in Int /\ Limit[k] \in Nat
  BY <1>2, <1>3, RuleTypes DEF Shrunk
<1>5. /\ bs[k].events \in Seq(Nat)
      /\ Len(bs[k].events) \in Nat /\ Len(bs[k].events) <= Limit[k]
  BY <1>4, BucketTypes
<1>6. Len(cs[k].events) <= Len(bs[k].events)
  BY <1>4 DEF Pruned
<1>7. Len(cs[k].events) = Len(bs[k].events)
  BY <1>3, <1>4, <1>5, <1>6
<1>8. cs[k].events = bs[k].events
  BY <1>4, <1>5, <1>7, PrunedNothing
<1>9. QED BY <1>3, <1>4, <1>8, FullExactly

(* Room is made for the request's keys: expired events go first, and only  *)
(* when that is not enough the stalest keys of nobody in the request.      *)
LEMMA MakingRoom ==
  ASSUME NEW bs, BucketsOK(bs), NEW keys \in SUBSET Key, Cardinality(keys) <= MaxKeys,
         NEW now \in Nat, NEW cs, cs = MakeRoom(bs, keys, now)
  PROVE  /\ Shrunk(bs, cs, now)
         /\ IsFiniteSet(DOMAIN cs \cup keys) /\ Cardinality(DOMAIN cs \cup keys) <= MaxKeys
         /\ \A k \in DOMAIN CleanupExpired(bs, now) \ (DOMAIN cs \cup keys) :
              /\ Cardinality(DOMAIN cs \cup keys) = MaxKeys
              /\ \A j \in DOMAIN cs \ keys : bs[k].lastSeen <= bs[j].lastSeen
         /\ keys \cap DOMAIN CleanupExpired(bs, now) \subseteq DOMAIN cs
<1> DEFINE cleaned == CleanupExpired(bs, now)
           excess  == Cardinality(DOMAIN cleaned \cup keys) - MaxKeys
<1>1. /\ Shrunk(bs, cleaned, now) /\ BucketsOK(cleaned) /\ DOMAIN cleaned \subseteq DOMAIN bs
      /\ \A k \in DOMAIN cleaned : cleaned[k].lastSeen = bs[k].lastSeen
  BY CleanupShrinks DEF Shrunk
<1>2. cs = IF Cardinality(DOMAIN bs \cup keys) <= MaxKeys THEN bs
           ELSE IF excess <= 0 THEN cleaned
           ELSE Without(cleaned, LeastRecentlySeen(cleaned, keys, excess))
  BY DEF MakeRoom
<1>3. MaxKeys \in Nat
  BY MaxKeysAssumption
<1>4. IsFiniteSet(keys) /\ Cardinality(keys) \in Nat
  BY KeyAssumption, FS_Subset, FS_CardinalityType
<1>5. \A bb : BucketsOK(bb) => /\ IsFiniteSet(DOMAIN bb \cup keys)
                               /\ Cardinality(DOMAIN bb \cup keys) \in Nat
  BY <1>4, FewerKeys, FS_Union, FS_CardinalityType
<1> HIDE DEF cleaned, excess
<1>6. CASE Cardinality(DOMAIN bs \cup keys) <= MaxKeys
  BY <1>1, <1>2, <1>5, <1>6, ShrunkSelf DEF cleaned
<1>7. CASE ~ (Cardinality(DOMAIN bs \cup keys) <= MaxKeys) /\ excess <= 0
  <2>1. cs = cleaned
    BY <1>2, <1>7
  <2>2. Cardinality(DOMAIN cleaned \cup keys) <= MaxKeys
    <3>1. Cardinality(DOMAIN cleaned \cup keys) \in Nat
      BY <1>1, <1>5
    <3>2. Cardinality(DOMAIN cleaned \cup keys) - MaxKeys <= 0
      BY <1>7 DEF excess
    <3>3. QED BY <1>3, <3>1, <3>2
  <2>3. QED BY <1>1, <1>5, <2>1, <2>2 DEF cleaned
<1>8. CASE ~ (Cardinality(DOMAIN bs \cup keys) <= MaxKeys) /\ ~ (excess <= 0)
  <2> DEFINE R == LeastRecentlySeen(cleaned, keys, excess)
             C == DOMAIN cleaned \ keys
             A == DOMAIN cleaned \cup keys
  <2>1. cs = Without(cleaned, R)
    BY <1>2, <1>8
  <2>2. IsFiniteSet(A) /\ Cardinality(A) \in Nat /\ excess \in Nat /\ Cardinality(A) = MaxKeys + excess
    BY <1>1, <1>3, <1>5, <1>8 DEF excess
  <2>3. excess <= Cardinality(C)
    <3>1. C \in SUBSET DOMAIN cleaned
      OBVIOUS
    <3> HIDE DEF A
    <3>2. IsFiniteSet(C) /\ Cardinality(C) \in Nat
      BY <1>1, <3>1, FewerKeys
    <3>3. A = C \cup keys /\ C \cap keys = {}
      BY DEF A
    <3> HIDE DEF C
    <3>4. Cardinality(A) = Cardinality(C) + Cardinality(keys)
      <4>1. Cardinality(C \cap keys) = 0
        BY <3>3, FS_EmptySet
      <4>2. Cardinality(C \cup keys) = Cardinality(C) + Cardinality(keys) - Cardinality(C \cap keys)
        BY <1>4, <3>2, FS_Union
      <4>3. QED BY <1>4, <3>2, <3>3, <4>1, <4>2
    <3>5. QED BY <1>3, <1>4, <2>2, <3>2, <3>4
  <2>4. /\ R \subseteq C /\ Cardinality(R) = excess
        /\ \A k \in R, j \in C \ R : cleaned[k].lastSeen <= cleaned[j].lastSeen
    BY <1>1, <2>2, <2>3, EvictsTheStalest
  <2> HIDE DEF R
  <2>5. Shrunk(cleaned, cs, now) /\ DOMAIN cs = DOMAIN cleaned \ R
    <3>1. Shrunk(cleaned, Without(cleaned, R), now) /\ DOMAIN Without(cleaned, R) = DOMAIN cleaned \ R
      BY <1>1, ForgettingShrinks
    <3>2. QED BY <2>1, <3>1
  <2>6. Shrunk(bs, cs, now) /\ BucketsOK(cs)
    BY <1>1, <2>5, ShrunkTwice DEF Shrunk
  <2>7. DOMAIN cs \cup keys = A \ R /\ A \cap R = R
    BY <2>4, <2>5
  <2>8. Cardinality(DOMAIN cs \cup keys) = MaxKeys
    <3> HIDE DEF A
    <3>1. Cardinality(A \ R) = Cardinality(A) - Cardinality(A \cap R)
      BY <2>2, FS_Difference
    <3>2. Cardinality(A \cap R) = excess
      BY <2>4, <2>7
    <3>3. Cardinality(A \ R) = MaxKeys
      BY <1>3, <2>2, <3>1, <3>2
    <3>4. QED BY <2>7, <3>3
  <2>9. ASSUME NEW k \in DOMAIN cleaned \ (DOMAIN cs \cup keys), NEW j \in DOMAIN cs \ keys
        PROVE  bs[k].lastSeen <= bs[j].lastSeen
    <3>1. k \in R /\ j \in C \ R /\ k \in DOMAIN cleaned /\ j \in DOMAIN cleaned
      BY <2>5
    <3>2. cleaned[k].lastSeen <= cleaned[j].lastSeen
      BY <2>4, <3>1
    <3>3. QED BY <1>1, <3>1, <3>2
  <2>10. IsFiniteSet(DOMAIN cs \cup keys) /\ Cardinality(DOMAIN cs \cup keys) <= MaxKeys
    BY <1>3, <1>5, <2>6, <2>8
  <2>11. keys \cap DOMAIN cleaned \subseteq DOMAIN cs
    BY <2>4, <2>5
  <2>12. QED BY <2>6, <2>8, <2>9, <2>10, <2>11 DEF cleaned
<1>9. QED BY <1>6, <1>7, <1>8

Gained(bs, cs, k, now) ==
  \E F : /\ Pruned(Events(bs, k), F, now - Window[k]) /\ Len(F) < Limit[k]
         /\ Events(cs, k) = Append(F, now)

(* The request's keys get one more event each, the others are untouched.   *)
LEMMA Recording ==
  ASSUME NEW bs, BucketsOK(bs), NEW keys \in SUBSET Key, NEW now \in Nat,
         Cardinality(DOMAIN bs \cup keys) <= MaxKeys,
         \A k \in keys : ~ Full(bs, k, now),
         NEW cs, cs = Recorded(bs, keys, now)
  PROVE  /\ BucketsOK(cs) /\ DOMAIN cs = DOMAIN bs \cup keys
         /\ \A k \in DOMAIN bs \ keys : cs[k] = bs[k]
         /\ \A k \in keys : Gained(bs, cs, k, now)
<1> DEFINE Kept(k) == IF k \in DOMAIN bs THEN EventsAt(bs, k, now) ELSE <<>>
<1>1. /\ DOMAIN cs = DOMAIN bs \cup keys
      /\ \A k \in DOMAIN bs \ keys : cs[k] = bs[k]
      /\ \A k \in keys : cs[k] = [events |-> Append(Kept(k), now), lastSeen |-> now]
  BY DEF Recorded
<1>2. ASSUME NEW k \in keys
      PROVE  /\ Pruned(Events(bs, k), Kept(k), now - Window[k])
             /\ Len(Kept(k)) < Limit[k]
  <2>1. now - Window[k] \in Int /\ Limit[k] \in Nat /\ Limit[k] > 0
    BY RuleTypes
  <2>2. CASE k \in DOMAIN bs
    <3>1. /\ Kept(k) = EventsAt(bs, k, now) /\ Events(bs, k) = bs[k].events
          /\ Pruned(bs[k].events, EventsAt(bs, k, now), now - Window[k])
          /\ Len(EventsAt(bs, k, now)) \in Nat
      BY <2>2, EventsAtAreActive DEF Events
    <3>2. ~ (Len(EventsAt(bs, k, now)) >= Limit[k])
      BY <2>2 DEF Full
    <3> HIDE DEF Kept
    <3>3. QED BY <2>1, <3>1, <3>2
  <2>3. CASE k \notin DOMAIN bs
    <3>1. Kept(k) = <<>> /\ Events(bs, k) = <<>> /\ <<>> \in Seq(Nat) /\ Len(<<>>) = 0
      BY <2>3, EmptySeq DEF Events
    <3>2. Pruned(<<>>, <<>>, now - Window[k])
      BY <2>1, <3>1, PrunedSelf
    <3> HIDE DEF Kept
    <3>3. QED BY <2>1, <3>1, <3>2
  <2>4. QED BY <2>2, <2>3
<1> HIDE DEF Kept
<1>3. ASSUME NEW k \in keys
      PROVE  cs[k] \in Bucket /\ cs[k].events = Append(Kept(k), now) /\ Len(cs[k].events) <= Limit[k]
  <2>1. Kept(k) \in Seq(Nat) /\ Len(Kept(k)) \in Nat /\ Limit[k] \in Nat
    BY <1>2, RuleTypes, LenProperties DEF Pruned
  <2>2. /\ Append(Kept(k), now) \in Seq(Nat)
        /\ Len(Append(Kept(k), now)) = Len(Kept(k)) + 1
    BY <2>1, AppendProperties
  <2>3. cs[k] = [events |-> Append(Kept(k), now), lastSeen |-> now]
    BY <1>1
  <2>4. cs[k] \in Bucket /\ cs[k].events = Append(Kept(k), now)
    BY <2>2, <2>3 DEF Bucket
  <2>5. QED BY <1>2, <2>1, <2>2, <2>4
<1>4. BucketsOK(cs)
  BY <1>1, <1>3, FewerKeys DEF BucketsOK
<1>5. ASSUME NEW k \in keys PROVE Gained(bs, cs, k, now)
  <2>1. Events(cs, k) = Append(Kept(k), now)
    BY <1>1, <1>3 DEF Events
  <2>2. QED BY <1>2, <2>1 DEF Gained
<1>6. QED BY <1>1, <1>4, <1>5

(* A bucket that was looked at.                                            *)
LEMMA Seeing ==
  ASSUME NEW bs, BucketsOK(bs), NEW k \in DOMAIN bs, NEW now \in Nat,
         NEW cs, cs = Seen(bs, k, now)
  PROVE  /\ BucketsOK(cs) /\ DOMAIN cs = DOMAIN bs
         /\ \A j \in DOMAIN bs \ {k} : cs[j] = bs[j]
         /\ Pruned(bs[k].events, cs[k].events, now - Window[k])
<1> DEFINE new == [events |-> EventsAt(bs, k, now), lastSeen |-> now]
<1>1. cs = [bs EXCEPT ![k] = new]
  BY DEF Seen
<1>2. /\ Pruned(bs[k].events, new.events, now - Window[k]) /\ new \in Bucket
      /\ Len(new.events) <= Limit[k]
  BY EventsAtAreActive DEF Bucket
<1> HIDE DEF new
<1>3. DOMAIN cs = DOMAIN bs /\ cs[k] = new /\ \A j \in DOMAIN bs \ {k} : cs[j] = bs[j]
  BY <1>1
<1>4. BucketsOK(cs)
  BY <1>2, <1>3 DEF BucketsOK
<1>5. QED BY <1>2, <1>3, <1>4
------------------------------------------------------------------------------
(* ALLOW, CHECK AND ALLOWALL. What each does to one key: the key may have  *)
(* lost expired events (Lessened), or has been given one event more, below *)
(* its limit (Gained above), or was live and has been evicted.             *)

Lessened(bs, cs, k, now) == Pruned(Events(bs, k), Events(cs, k), now - Window[k])

Live(bs, k, now) == HasNewer(Events(bs, k), now - Window[k])

LEMMA LiveKeys ==
  ASSUME NEW bs, BucketsOK(bs), NEW k \in Key, NEW now \in Nat
  PROVE  k \in DOMAIN CleanupExpired(bs, now) <=> Live(bs, k, now)
<1>1. CASE k \in DOMAIN bs
  BY <1>1, CleanupShrinks DEF Live, Events
<1>2. CASE k \notin DOMAIN bs
  <2>1. k \notin DOMAIN CleanupExpired(bs, now)
    BY <1>2 DEF CleanupExpired
  <2>2. Events(bs, k) = <<>> /\ Len(<<>>) = 0
    BY <1>2, EmptySeq DEF Events
  <2>3. QED BY <2>1, <2>2 DEF Live, HasNewer
<1>3. QED BY <1>1, <1>2

LEMMA LessenedSelf ==
  ASSUME NEW bs, BucketsOK(bs), NEW k \in Key, NEW now \in Nat
  PROVE  Lessened(bs, bs, k, now)
BY EventsAreStamps, RuleTypes, PrunedSelf DEF Lessened

LEMMA LessenedTwice ==
  ASSUME NEW bs, BucketsOK(bs), NEW cs, NEW ds, NEW k \in Key, NEW now \in Nat,
         Lessened(bs, cs, k, now), Lessened(cs, ds, k, now)
  PROVE  Lessened(bs, ds, k, now)
BY EventsAreStamps, RuleTypes, PrunedTwice DEF Lessened

LEMMA LessenedThenGained ==
  ASSUME NEW bs, BucketsOK(bs), NEW cs, NEW ds, NEW k \in Key, NEW now \in Nat,
         Lessened(bs, cs, k, now), Gained(cs, ds, k, now)
  PROVE  Gained(bs, ds, k, now)
<1>1. PICK F : /\ Pruned(Events(cs, k), F, now - Window[k]) /\ Len(F) < Limit[k]
               /\ Events(ds, k) = Append(F, now)
  BY DEF Gained
<1>2. Pruned(Events(bs, k), F, now - Window[k])
  BY <1>1, EventsAreStamps, RuleTypes, PrunedTwice DEF Lessened
<1>3. QED BY <1>1, <1>2 DEF Gained

(* What is live for a later clock is live for an earlier stamp, and losing *)
(* expired events does not change that.                                    *)
LEMMA StaysLive ==
  ASSUME NEW bs, BucketsOK(bs), NEW cs, NEW k \in Key, NEW now \in Nat, NEW later \in Nat,
         now <= later, Lessened(bs, cs, k, now), Live(bs, k, later)
  PROVE  Live(cs, k, now)
<1> DEFINE E == Events(bs, k)  F == Events(cs, k)  low == now - Window[k]  high == later - Window[k]
<1>1. E \in Seq(Nat) /\ Len(E) \in Nat /\ \A i \in 1 .. Len(E) : E[i] \in Nat
  BY EventsAreStamps, ElementOfSeq
<1>2. low \in Int /\ high \in Int /\ low <= high
  BY RuleTypes
<1>3. Pruned(E, F, low) /\ HasNewer(E, high)
  BY DEF Lessened, Live
<1> HIDE DEF E, F, low, high
<1>4. HasNewer(E, low)
  BY <1>1, <1>2, <1>3 DEF HasNewer
<1>5. HasNewer(F, low)
  BY <1>1, <1>2, <1>3, <1>4, NewerSurvives
<1>6. QED BY <1>5 DEF Live, F, low

LEMMA WasLive ==
  ASSUME NEW bs, BucketsOK(bs), NEW cs, NEW k \in Key, NEW now \in Nat,
         Lessened(bs, cs, k, now), Live(cs, k, now)
  PROVE  Live(bs, k, now)
<1> DEFINE E == Events(bs, k)  F == Events(cs, k)  cutoff == now - Window[k]
<1>1. /\ E \in Seq(Nat) /\ Len(E) \in Nat
      /\ Pruned(E, F, cutoff) /\ HasNewer(F, cutoff)
  BY EventsAreStamps DEF Lessened, Live
<1>2. F \in Seq(Nat) /\ Len(F) \in Nat /\ Len(F) <= Len(E)
  BY <1>1, LenProperties DEF Pruned
<1> HIDE DEF E, F, cutoff
<1>3. PICK i \in 1 .. Len(F) : F[i] > cutoff
  BY <1>1 DEF HasNewer
<1>4. Len(E) - Len(F) + i \in 1 .. Len(E) /\ F[i] = E[Len(E) - Len(F) + i]
  BY <1>1, <1>2 DEF Pruned
<1>5. HasNewer(E, cutoff)
  BY <1>3, <1>4 DEF HasNewer
<1>6. QED BY <1>5 DEF Live, E, cutoff

LEMMA ShrinkingLessens ==
  ASSUME NEW bs, BucketsOK(bs), NEW cs, NEW now \in Nat, Shrunk(bs, cs, now), NEW k \in Key,
         k \in DOMAIN cs \/ ~ Live(bs, k, now)
  PROVE  Lessened(bs, cs, k, now)
<1>1. now - Window[k] \in Int /\ Events(bs, k) \in Seq(Nat)
  BY RuleTypes, EventsAreStamps
<1>2. CASE k \in DOMAIN cs
  BY <1>2 DEF Shrunk, Events, Lessened
<1>3. CASE k \notin DOMAIN cs /\ ~ Live(bs, k, now)
  <2>1. Events(cs, k) = <<>> /\ ~ HasNewer(Events(bs, k), now - Window[k])
    BY <1>3 DEF Events, Live
  <2>2. QED BY <1>1, <2>1, NothingNewer DEF Lessened
<1>4. QED BY <1>2, <1>3

LEMMA CleanupLessens ==
  ASSUME NEW bs, BucketsOK(bs), NEW k \in Key, NEW now \in Nat
  PROVE  Lessened(bs, CleanupExpired(bs, now), k, now)
<1>1. Shrunk(bs, CleanupExpired(bs, now), now)
  BY CleanupShrinks
<1>2. QED BY <1>1, LiveKeys, ShrinkingLessens

(* Allow and AllowAll when no rule is full.                                *)
LEMMA Admitting ==
  ASSUME NEW bs, BucketsOK(bs), NEW keys \in SUBSET Key, Cardinality(keys) <= MaxKeys,
         NEW now \in Nat, \A k \in keys : ~ Full(bs, k, now),
         NEW cs, cs = Recorded(MakeRoom(bs, keys, now), keys, now)
  PROVE  /\ BucketsOK(cs) /\ keys \subseteq DOMAIN cs
         /\ \A k \in keys : Gained(bs, cs, k, now)
         /\ \A k \in Key \ keys : \/ Lessened(bs, cs, k, now)
                                  \/ Live(bs, k, now) /\ k \notin DOMAIN cs
         /\ \A k \in Key \ DOMAIN cs : Live(bs, k, now) =>
              /\ Cardinality(DOMAIN cs) = MaxKeys
              /\ \A j \in DOMAIN cs \ keys : /\ j \in DOMAIN bs
                                             /\ bs[k].lastSeen <= bs[j].lastSeen
<1> DEFINE ms == MakeRoom(bs, keys, now)
<1>1. /\ Shrunk(bs, ms, now)
      /\ IsFiniteSet(DOMAIN ms \cup keys) /\ Cardinality(DOMAIN ms \cup keys) <= MaxKeys
      /\ \A k \in DOMAIN CleanupExpired(bs, now) \ (DOMAIN ms \cup keys) :
           /\ Cardinality(DOMAIN ms \cup keys) = MaxKeys
           /\ \A j \in DOMAIN ms \ keys : bs[k].lastSeen <= bs[j].lastSeen
      /\ keys \cap DOMAIN CleanupExpired(bs, now) \subseteq DOMAIN ms
  BY MakingRoom
<1>2. cs = Recorded(ms, keys, now)
  OBVIOUS
<1> HIDE DEF ms
<1>3. BucketsOK(ms) /\ DOMAIN ms \subseteq DOMAIN bs
  BY <1>1 DEF Shrunk
<1>4. \A k \in keys : ~ Full(ms, k, now)
  BY <1>1, ShrinkingFillsNothing
<1>5. /\ BucketsOK(cs) /\ DOMAIN cs = DOMAIN ms \cup keys
      /\ \A k \in DOMAIN ms \ keys : cs[k] = ms[k]
      /\ \A k \in keys : Gained(ms, cs, k, now)
  BY <1>1, <1>2, <1>3, <1>4, Recording
<1>6. ASSUME NEW k \in keys PROVE Gained(bs, cs, k, now)
  <2>1. k \in DOMAIN ms \/ ~ Live(bs, k, now)
    BY <1>1, LiveKeys
  <2>2. Lessened(bs, ms, k, now)
    BY <1>1, <2>1, ShrinkingLessens
  <2>3. QED BY <1>5, <2>2, LessenedThenGained
<1>7. ASSUME NEW k \in Key \ keys, k \in DOMAIN cs \/ ~ Live(bs, k, now)
      PROVE  Lessened(bs, cs, k, now)
  <2>1. Lessened(bs, ms, k, now)
    BY <1>1, <1>5, <1>7, ShrinkingLessens
  <2>2. Events(cs, k) = Events(ms, k)
    BY <1>5 DEF Events
  <2>3. QED BY <2>1, <2>2 DEF Lessened
<1>8. ASSUME NEW k \in Key \ DOMAIN cs, Live(bs, k, now)
      PROVE  /\ Cardinality(DOMAIN cs) = MaxKeys
             /\ \A j \in DOMAIN cs \ keys : /\ j \in DOMAIN bs
                                            /\ bs[k].lastSeen <= bs[j].lastSeen
  <2>1. k \in DOMAIN CleanupExpired(bs, now) \ (DOMAIN ms \cup keys)
    BY <1>5, <1>8, LiveKeys
  <2>2. DOMAIN cs \ keys = DOMAIN ms \ keys
    BY <1>5
  <2>3. QED BY <1>1, <1>3, <1>5, <2>1, <2>2
<1>9. QED BY <1>5, <1>6, <1>7, <1>8

(* A refused Allow, and a Check, which also drops a bucket that is empty.  *)
LEMMA Looking ==
  ASSUME NEW bs, BucketsOK(bs), NEW k \in Key, NEW now \in Nat, NEW cs,
         \/ Full(bs, k, now) /\ cs = Seen(bs, k, now)
         \/ cs = AfterCheck(bs, k, now)
  PROVE  BucketsOK(cs) /\ \A j \in Key : Lessened(bs, cs, j, now)
<1>1. CASE k \in DOMAIN bs /\ cs = Seen(bs, k, now)
  <2>1. /\ BucketsOK(cs) /\ DOMAIN cs = DOMAIN bs
        /\ \A j \in DOMAIN bs \ {k} : cs[j] = bs[j]
        /\ Pruned(bs[k].events, cs[k].events, now - Window[k])
    BY <1>1, Seeing
  <2>2. Lessened(bs, cs, k, now)
    BY <1>1, <2>1 DEF Lessened, Events
  <2>3. ASSUME NEW j \in Key \ {k} PROVE Lessened(bs, cs, j, now)
    <3>1. Events(cs, j) = Events(bs, j)
      BY <2>1 DEF Events
    <3>2. Lessened(bs, bs, j, now)
      BY LessenedSelf
    <3>3. QED BY <3>1, <3>2 DEF Lessened
  <2>4. QED BY <2>1, <2>2, <2>3
<1>2. CASE k \in DOMAIN bs /\ EventsAt(bs, k, now) = <<>> /\ cs = Without(bs, {k})
  <2>1. Shrunk(bs, cs, now) /\ DOMAIN cs = DOMAIN bs \ {k} /\ BucketsOK(cs)
    <3>1. /\ Shrunk(bs, Without(bs, {k}), now)
          /\ DOMAIN Without(bs, {k}) = DOMAIN bs \ {k}
      BY ForgettingShrinks
    <3>2. QED BY <1>2, <3>1 DEF Shrunk
  <2>2. ~ Live(bs, k, now)
    <3>1. ActiveEvents(bs[k].events, now - Window[k]) = <<>>
      BY <1>2, EventsAtAreActive
    <3>2. bs[k].events \in Seq(Nat) /\ now - Window[k] \in Int /\ Events(bs, k) = bs[k].events
      BY <1>2, BucketTypes, RuleTypes DEF Events
    <3>3. QED BY <3>1, <3>2, ActiveExactly DEF Live
  <2>3. ASSUME NEW j \in Key PROVE Lessened(bs, cs, j, now)
    <3>1. CASE j \in DOMAIN cs \/ j = k
      BY <2>1, <2>2, <3>1, ShrinkingLessens
    <3>2. CASE j \notin DOMAIN bs
      <4>1. Events(cs, j) = Events(bs, j)
        BY <2>1, <3>2 DEF Events
      <4>2. QED BY <4>1, LessenedSelf DEF Lessened
    <3>3. QED BY <2>1, <3>1, <3>2
  <2>4. QED BY <2>1, <2>3
<1>3. CASE k \notin DOMAIN bs /\ cs = bs
  BY <1>3, LessenedSelf
<1>4. QED BY <1>1, <1>2, <1>3 DEF AfterCheck, Full
=============================================================================
