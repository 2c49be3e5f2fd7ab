---------------------- MODULE SlidingWindowLimiterProofs ----------------------
(***************************************************************************)
(* The sliding-window limiter for any keys, limits, windows, capacity and  *)
(* callers: the rate it admits, the refusals it gives, the Retry-After it  *)
(* announces and the keys it evicts. The bounds of the model are constants *)
(* like the others, so MaxTime may be any number of readings and MaxDelay  *)
(* any wait for the mutex.                                                 *)
(***************************************************************************)
EXTENDS SlidingWindowLimiter, LimiterBucketsProofs

(* A key's events E and its remembered admissions A at time t. The events  *)
(* are the stamps of the newest admissions, in the order of the critical   *)
(* sections, so E need not be sorted where A is; every older admission has *)
(* left the window, up to MaxDelay.                                        *)
StampsOf(E, A) ==
  \A i \in 1 .. Len(E) : /\ E[i] <= A[Len(A) - Len(E) + i]
                         /\ A[Len(A) - Len(E) + i] <= E[i] + MaxDelay

OthersAreOld(E, A, window, t) ==
  \A j \in 1 .. Len(A) - Len(E) : A[j] + window <= t + MaxDelay

InOrder(A, t) ==
  /\ \A i, j \in 1 .. Len(A) : i <= j => A[i] <= A[j]
  /\ \A i \in 1 .. Len(A) : A[i] <= t

KeyInv(E, A, k, t) ==
  /\ E \in Seq(Nat) /\ A \in Seq(Nat)
  /\ Len(E) <= Limit[k] /\ Len(E) <= Len(A) /\ Len(A) <= Limit[k] + 1
  /\ StampsOf(E, A) /\ OthersAreOld(E, A, Window[k], t) /\ InOrder(A, t)
  /\ Len(A) = Limit[k] + 1 => A[Len(A)] - A[1] >= Window[k] - MaxDelay

(* A call is never longer than MaxDelay between its clock read and now.    *)
StampsAreRecent ==
  \A c \in Caller : pending[c] # None =>
    pending[c].stamp <= clock /\ clock <= pending[c].stamp + MaxDelay

(* A full bucket opens again no later than anybody was promised.           *)
PromiseInv(bs, ks, due) ==
  \A k \in ks : Len(Events(bs, k)) = Limit[k] => Events(bs, k)[1] + Window[k] <= due

IInv ==
  /\ TypeOK
  /\ \A k \in Key : KeyInv(Events(buckets, k), admitted[k], k, clock)
  /\ StampsAreRecent
  /\ \A ks \in KeySets : promise[ks] # None => PromiseInv(buckets, ks, promise[ks])
------------------------------------------------------------------------------
(* ONE KEY.                                                                *)

LEMMA KeyTypes ==
  ASSUME NEW k \in Key, NEW t \in Nat, NEW E, NEW A, KeyInv(E, A, k, t)
  PROVE  /\ Limit[k] \in Nat /\ Limit[k] > 0 /\ Window[k] \in Nat /\ Window[k] > 0
         /\ MaxDelay \in Nat
         /\ Len(E) \in Nat /\ \A i \in 1 .. Len(E) : E[i] \in Nat
         /\ Len(A) \in Nat /\ \A i \in 1 .. Len(A) : A[i] \in Nat
<1>1. E \in Seq(Nat) /\ A \in Seq(Nat) /\ MaxDelay \in Nat
  BY BoundAssumption DEF KeyInv
<1>2. QED BY <1>1, RuleTypes, LenProperties, ElementOfSeq

(* Dropping events up to now - Window, for a stamp that is in the past.    *)
LEMMA KeyLessened ==
  ASSUME NEW k \in Key, NEW t \in Nat, NEW now \in Nat, now <= t, NEW E, NEW F, NEW A,
         KeyInv(E, A, k, t), Pruned(E, F, now - Window[k])
  PROVE  KeyInv(F, A, k, t)
<1> DEFINE w == Window[k]
<1>1. /\ Limit[k] \in Nat /\ w \in Nat /\ MaxDelay \in Nat
      /\ Len(E) \in Nat /\ \A i \in 1 .. Len(E) : E[i] \in Nat
      /\ Len(A) \in Nat /\ \A i \in 1 .. Len(A) : A[i] \in Nat
  BY KeyTypes
<1>2. /\ Len(E) <= Limit[k] /\ Len(E) <= Len(A) /\ Len(A) <= Limit[k] + 1
      /\ A \in Seq(Nat) /\ InOrder(A, t)
      /\ Len(A) = Limit[k] + 1 => A[Len(A)] - A[1] >= w - MaxDelay
  BY DEF KeyInv
<1>3. \A i \in 1 .. Len(E) : /\ E[i] <= A[Len(A) - Len(E) + i]
                             /\ A[Len(A) - Len(E) + i] <= E[i] + MaxDelay
  BY DEF KeyInv, StampsOf
<1>4. \A j \in 1 .. Len(A) - Len(E) : A[j] + w <= t + MaxDelay
  BY DEF KeyInv, OthersAreOld
<1>5. /\ F \in Seq(Nat) /\ Len(F) <= Len(E)
      /\ \A i \in 1 .. Len(F) : F[i] = E[Len(E) - Len(F) + i]
      /\ \A i \in 1 .. Len(E) - Len(F) : E[i] <= now - w
  BY DEF Pruned
<1>6. Len(F) \in Nat
  BY <1>5, LenProperties
<1> DEFINE e == Len(E)  f == Len(F)  a == Len(A)
<1>11. e \in Nat /\ f \in Nat /\ a \in Nat /\ f <= e /\ e <= a
  BY <1>1, <1>2, <1>5, <1>6
<1> HIDE DEF w, e, f, a
<1>7. StampsOf(F, A)
  <2>1. ASSUME NEW i \in 1 .. Len(F)
        PROVE  /\ F[i] <= A[Len(A) - Len(F) + i]
               /\ A[Len(A) - Len(F) + i] <= F[i] + MaxDelay
    <3> DEFINE j == Len(E) - Len(F) + i
    <3>1. j \in 1 .. Len(E) /\ F[i] = E[j] /\ Len(A) - Len(E) + j = Len(A) - Len(F) + i
      BY <1>1, <1>5, <1>6
    <3>2. E[j] <= A[Len(A) - Len(E) + j] /\ A[Len(A) - Len(E) + j] <= E[j] + MaxDelay
      BY <1>3, <3>1
    <3>3. QED BY <3>1, <3>2
  <2>2. QED BY <2>1 DEF StampsOf
<1>8. OthersAreOld(F, A, w, t)
  <2>1. ASSUME NEW j \in 1 .. Len(A) - Len(F) PROVE A[j] + w <= t + MaxDelay
    <3>1. CASE j <= Len(A) - Len(E)
      BY <1>1, <1>2, <1>4, <3>1
    <3>2. CASE ~ (j <= Len(A) - Len(E))
      <4> DEFINE i == j - (Len(A) - Len(E))
      <4>1. i \in 1 .. Len(E) - Len(F) /\ i \in 1 .. Len(E) /\ Len(A) - Len(E) + i = j /\ j \in 1 .. Len(A)
        <5>1. j \in 1 .. a - f /\ ~ (j <= a - e)
          BY <3>2 DEF a, e, f
        <5>2. i = j - (a - e)
          BY DEF a, e
        <5> HIDE DEF i
        <5>3. i \in 1 .. e - f /\ i \in 1 .. e /\ a - e + i = j /\ j \in 1 .. a
          BY <1>11, <5>1, <5>2
        <5>4. QED BY <5>3 DEF a, e, f
      <4>2. E[i] <= now - w /\ A[j] <= E[i] + MaxDelay
        BY <1>3, <1>5, <4>1
      <4>3. E[i] \in Nat /\ A[j] \in Nat
        BY <1>1, <4>1
      <4>4. QED BY <1>1, <4>2, <4>3
    <3>3. QED BY <3>1, <3>2
  <2>2. QED BY <2>1 DEF OthersAreOld
<1>9. Len(F) <= Limit[k] /\ Len(F) <= Len(A)
  BY <1>1, <1>2, <1>5, <1>6
<1>10. QED BY <1>2, <1>5, <1>7, <1>8, <1>9 DEF KeyInv, w

LEMMA KeyForgotten ==
  ASSUME NEW k \in Key, NEW t \in Nat
  PROVE  KeyInv(<<>>, <<>>, k, t)
<1>1. <<>> \in Seq(Nat) /\ Len(<<>>) = 0 /\ Limit[k] \in Nat /\ Limit[k] > 0
  BY EmptySeq, RuleTypes
<1>2. QED BY <1>1 DEF KeyInv, StampsOf, OthersAreOld, InOrder

LEMMA KeyLater ==
  ASSUME NEW k \in Key, NEW t \in Nat, NEW E, NEW A, KeyInv(E, A, k, t)
  PROVE  KeyInv(E, A, k, t + 1)
<1>1. /\ MaxDelay \in Nat /\ Window[k] \in Nat
      /\ Len(E) \in Nat /\ Len(A) \in Nat /\ \A i \in 1 .. Len(A) : A[i] \in Nat
  BY KeyTypes
<1>2. InOrder(A, t + 1)
  BY <1>1 DEF KeyInv, InOrder
<1>3. OthersAreOld(E, A, Window[k], t + 1)
  <2>1. \A j \in 1 .. Len(A) - Len(E) : j \in 1 .. Len(A)
    BY <1>1
  <2>2. QED BY <1>1, <2>1 DEF KeyInv, OthersAreOld
<1>4. QED BY <1>2, <1>3 DEF KeyInv

(* What history remembers after one more admission.                        *)
Remembered(A, t, limit) == Newest(Append(A, t), limit + 1)

IsRemembered(B, A, t, limit) ==
  /\ B \in Seq(Nat) /\ Len(B) \in Nat /\ Len(B) > 0 /\ B[Len(B)] = t
  /\ Len(B) = IF Len(A) = limit + 1 THEN limit + 1 ELSE Len(A) + 1
  /\ \A i \in 1 .. Len(B) - 1 : B[i] = A[Len(A) + 1 - Len(B) + i]

LEMMA NewestAdmissions ==
  ASSUME NEW A \in Seq(Nat), NEW t \in Nat, NEW limit \in Nat, Len(A) <= limit + 1,
         NEW B, B = Remembered(A, t, limit)
  PROVE  IsRemembered(B, A, t, limit)
<1> DEFINE C == Append(A, t)
           first == IF Len(C) > limit + 1 THEN Len(C) - (limit + 1) + 1 ELSE 1
<1>1. /\ C \in Seq(Nat) /\ Len(C) = Len(A) + 1 /\ Len(A) \in Nat /\ Len(C) \in Nat
      /\ \A i \in 1 .. Len(A) : C[i] = A[i]
      /\ C[Len(A) + 1] = t
  BY AppendProperties, LenProperties
<1>2. B = SubSeq(C, first, Len(C))
  BY DEF Remembered, Newest
<1>3. \A i \in 1 .. Len(C) : C[i] \in Nat
  BY <1>1, ElementOfSeq
<1> HIDE DEF C
<1> DEFINE a == Len(A)  b == Len(B)  c == Len(C)
<1>4. /\ a \in Nat /\ c = a + 1 /\ a <= limit + 1
      /\ first \in Int /\ first = (IF a = limit + 1 THEN 2 ELSE 1)
  <2>1. a \in Nat /\ c = a + 1 /\ a <= limit + 1
    BY <1>1
  <2>2. first = IF c > limit + 1 THEN c - (limit + 1) + 1 ELSE 1
    OBVIOUS
  <2> HIDE DEF a, c, first
  <2>3. CASE a = limit + 1
    BY <2>1, <2>2, <2>3
  <2>4. CASE a < limit + 1
    BY <2>1, <2>2, <2>4
  <2>5. QED BY <2>1, <2>3, <2>4
<1> HIDE DEF first
<1>5. /\ B \in Seq(Nat)
      /\ b = IF first <= c THEN c - first + 1 ELSE 0
      /\ \A i \in 1 .. c - first + 1 : B[i] = C[first + i - 1]
  <2>1. \A i \in first .. c : C[i] \in Nat
    <3>1. \A i \in first .. c : i \in 1 .. Len(C)
      BY <1>4
    <3>2. QED BY <1>3, <3>1
  <2>2. first \in Int /\ c \in Int
    BY <1>4
  <2> DEFINE D == SubSeq(C, first, c)
  <2>3. /\ D \in Seq(Nat)
        /\ Len(D) = IF first <= c THEN c - first + 1 ELSE 0
        /\ \A i \in 1 .. c - first + 1 : D[i] = C[first + i - 1]
    <3> HIDE DEF c
    <3>1. QED BY <2>1, <2>2, SubSeqProperties
  <2>4. B = D
    BY <1>2
  <2>5. QED BY <2>3, <2>4
<1> HIDE DEF a, b, c
<1>6. /\ b = IF a = limit + 1 THEN limit + 1 ELSE a + 1
      /\ b = c - first + 1 /\ b \in Nat /\ b > 0
  BY <1>4, <1>5
<1>7. \A i \in 1 .. b : B[i] = C[first + i - 1]
  BY <1>5, <1>6
<1>8. B[b] = t
  <2>1. b \in 1 .. b /\ first + b - 1 = a + 1
    BY <1>4, <1>6
  <2>2. QED BY <1>1, <1>7, <2>1 DEF a
<1>9. ASSUME NEW i \in 1 .. b - 1 PROVE B[i] = A[a + 1 - b + i]
  <2>1. i \in 1 .. b /\ first + i - 1 \in 1 .. a /\ first + i - 1 = a + 1 - b + i
    BY <1>4, <1>6
  <2>2. QED BY <1>1, <1>7, <2>1 DEF a
<1>10. QED BY <1>5, <1>6, <1>8, <1>9 DEF a, b, IsRemembered

(* One admission more: its stamp is recent, and what it pushes out of the  *)
(* remembered admissions had left the window.                              *)
LEMMA KeyGained ==
  ASSUME NEW k \in Key, NEW t \in Nat, NEW now \in Nat, now <= t, t <= now + MaxDelay,
         NEW E, NEW F, NEW A, NEW B,
         KeyInv(E, A, k, t), Pruned(E, F, now - Window[k]), Len(F) < Limit[k],
         B = Remembered(A, t, Limit[k])
  PROVE  KeyInv(Append(F, now), B, k, t)
<1> DEFINE w == Window[k]  l == Limit[k]  G == Append(F, now)
           f == Len(F)  a == Len(A)  b == Len(B)  g == Len(G)
<1>1. KeyInv(F, A, k, t)
  BY KeyLessened
<1>2. /\ l \in Nat /\ l > 0 /\ w \in Nat /\ MaxDelay \in Nat
      /\ f \in Nat /\ \A i \in 1 .. f : F[i] \in Nat
      /\ a \in Nat /\ \A i \in 1 .. a : A[i] \in Nat
  BY <1>1, KeyTypes
<1>3. /\ F \in Seq(Nat) /\ A \in Seq(Nat) /\ f < l /\ f <= a /\ a <= l + 1
      /\ \A i \in 1 .. f : F[i] <= A[a - f + i] /\ A[a - f + i] <= F[i] + MaxDelay
      /\ \A j \in 1 .. a - f : A[j] + w <= t + MaxDelay
      /\ \A i, j \in 1 .. a : i <= j => A[i] <= A[j]
      /\ \A i \in 1 .. a : A[i] <= t
  BY <1>1 DEF KeyInv, StampsOf, OthersAreOld, InOrder
<1>4. /\ G \in Seq(Nat) /\ g = f + 1
      /\ \A i \in 1 .. f : G[i] = F[i]
      /\ G[f + 1] = now
  BY <1>3, AppendProperties
<1>5. /\ B \in Seq(Nat) /\ b \in Nat /\ b > 0 /\ B[b] = t
      /\ b = IF a = l + 1 THEN l + 1 ELSE a + 1
      /\ \A i \in 1 .. b - 1 : B[i] = A[a + 1 - b + i]
  <2>1. B = Remembered(A, t, l) /\ Len(A) <= l + 1
    BY <1>3
  <2>2. A \in Seq(Nat) /\ l \in Nat
    BY <1>2, <1>3
  <2> HIDE DEF l
  <2>3. IsRemembered(B, A, t, l)
    BY <2>1, <2>2, NewestAdmissions
  <2>4. QED BY <2>3 DEF IsRemembered
<1> DEFINE o == a + 1 - b
<1> HIDE DEF w, l, G, f, a, b, g
<1>6. /\ o \in 0 .. 1 /\ b <= l + 1 /\ g <= b /\ g <= l
      /\ \A i \in 1 .. b - 1 : i + o \in 1 .. a /\ B[i] = A[i + o]
  <2>1. o \in 0 .. 1 /\ b <= l + 1 /\ g <= b /\ g <= l
    <3>1. CASE a = l + 1
      BY <1>2, <1>3, <1>4, <1>5, <3>1
    <3>2. CASE a # l + 1
      BY <1>2, <1>3, <1>4, <1>5, <3>2
    <3>3. QED BY <3>1, <3>2
  <2>2. ASSUME NEW i \in 1 .. b - 1 PROVE i + o \in 1 .. a /\ B[i] = A[i + o]
    <3>1. i + o \in 1 .. a /\ i + o = a + 1 - b + i
      BY <1>2, <1>5, <2>1
    <3>2. QED BY <1>5, <3>1
  <2>3. QED BY <2>1, <2>2
<1>7. /\ a = b - 1 + o /\ a - f = b - g + o
  BY <1>2, <1>4, <1>5
<1> HIDE DEF o
<1>8. ASSUME NEW i \in 1 .. g PROVE G[i] <= B[b - g + i] /\ B[b - g + i] <= G[i] + MaxDelay
  <2>1. CASE i = g
    <3>1. b - g + i = b /\ i = f + 1
      BY <1>2, <1>4, <1>5, <2>1
    <3>2. QED BY <1>4, <1>5, <3>1
  <2>2. CASE i # g
    <3>1. i \in 1 .. f /\ b - g + i \in 1 .. b - 1 /\ b - g + i + o = a - f + i
      <4>1. /\ f \in Nat /\ b \in Nat /\ a \in Nat /\ g = f + 1 /\ g <= b
            /\ o \in 0 .. 1 /\ a - f = b - g + o
        BY <1>2, <1>4, <1>5, <1>6, <1>7
      <4>2. i \in 1 .. f
        BY <2>2, <4>1
      <4>3. QED BY <4>1, <4>2
    <3>2. G[i] = F[i] /\ B[b - g + i] = A[a - f + i]
      BY <1>4, <1>6, <3>1
    <3>3. QED BY <1>3, <3>1, <3>2
  <2>3. QED BY <2>1, <2>2
<1>9. ASSUME NEW j \in 1 .. b - g PROVE B[j] + w <= t + MaxDelay
  <2>1. j \in 1 .. b - 1 /\ j + o \in 1 .. a - f
    <3>1. /\ f \in Nat /\ b \in Nat /\ a \in Nat /\ g = f + 1 /\ g <= b
          /\ o \in 0 .. 1 /\ a - f = b - g + o
      BY <1>2, <1>4, <1>5, <1>6, <1>7
    <3>2. QED BY <3>1
  <2>2. B[j] = A[j + o]
    BY <1>6, <2>1
  <2>3. QED BY <1>3, <2>1, <2>2
<1>10. ASSUME NEW i \in 1 .. b PROVE B[i] <= t /\ B[i] \in Nat
  <2>1. CASE i = b
    BY <1>5, <2>1
  <2>2. CASE i # b
    <3>1. i \in 1 .. b - 1
      BY <1>5, <2>2
    <3>2. i + o \in 1 .. a /\ B[i] = A[i + o]
      BY <1>6, <3>1
    <3>3. QED BY <1>2, <1>3, <3>2
  <2>3. QED BY <2>1, <2>2
<1>11. ASSUME NEW i \in 1 .. b, NEW j \in 1 .. b, i <= j PROVE B[i] <= B[j]
  <2>1. CASE j = b
    BY <1>5, <1>10, <2>1
  <2>2. CASE j # b
    <3>1. i \in 1 .. b - 1 /\ j \in 1 .. b - 1
      BY SMTT(30), <1>5, <1>11, <2>2
    <3>2. /\ i + o \in 1 .. a /\ B[i] = A[i + o]
          /\ j + o \in 1 .. a /\ B[j] = A[j + o]
      BY <1>6, <3>1
    <3>3. i + o <= j + o
      BY <1>6, <1>11
    <3>4. QED BY <1>3, <3>2, <3>3
  <2>3. QED BY <2>1, <2>2
<1>12. ASSUME b = l + 1 PROVE B[b] - B[1] >= w - MaxDelay
  <2>1. 1 \in 1 .. b - g /\ 1 \in 1 .. b
    BY <1>2, <1>4, <1>6, <1>12
  <2>2. B[1] + w <= t + MaxDelay /\ B[1] \in Nat
    BY <1>9, <1>10, <2>1
  <2>3. QED BY <1>2, <1>5, <2>2
<1>13. StampsOf(G, B) /\ OthersAreOld(G, B, w, t) /\ InOrder(B, t)
  BY <1>8, <1>9, <1>10, <1>11 DEF StampsOf, OthersAreOld, InOrder, b, g
<1>14. QED BY <1>4, <1>5, <1>6, <1>12, <1>13 DEF KeyInv, w, l, G, b, g
------------------------------------------------------------------------------
(* PROMISES.                                                               *)

LEMMA PromiseKept ==
  ASSUME NEW bs, BucketsOK(bs), NEW cs, NEW now \in Nat, NEW ks \in SUBSET Key, NEW due,
         PromiseInv(bs, ks, due),
         \A k \in ks : Lessened(bs, cs, k, now) \/ Events(cs, k) = <<>>
  PROVE  PromiseInv(cs, ks, due)
<1>1. ASSUME NEW k \in ks, Len(Events(cs, k)) = Limit[k] PROVE Events(cs, k) = Events(bs, k)
  <2>1. Limit[k] \in Nat /\ Limit[k] > 0 /\ now - Window[k] \in Int
    BY RuleTypes
  <2>2. /\ Events(bs, k) \in Seq(Nat) /\ Len(Events(bs, k)) \in Nat
        /\ Len(Events(bs, k)) <= Limit[k]
    BY EventsAreStamps
  <2>3. Events(cs, k) # <<>>
    BY <1>1, <2>1, EmptySeq
  <2>4. Pruned(Events(bs, k), Events(cs, k), now - Window[k])
    BY <2>3 DEF Lessened
  <2>5. Len(Events(cs, k)) <= Len(Events(bs, k))
    BY <2>4 DEF Pruned
  <2>6. Len(Events(cs, k)) = Len(Events(bs, k))
    BY <1>1, <2>1, <2>2, <2>5
  <2>7. QED BY <2>1, <2>2, <2>4, <2>6, PrunedNothing
<1>2. QED BY <1>1 DEF PromiseInv

(* handler.go rounds up, and clamps only to a whole window.                *)
LEMMA RetryAfterRoundsUp ==
  ASSUME NEW wait \in Nat, wait > 0, NEW window \in Nat, window > 0,
         NEW r, r = RetryAfterSeconds(wait, window)
  PROVE  /\ r \in Nat /\ Second * r \in Nat
         /\ Second * r >= wait \/ Second * r >= window
<1> DEFINE seconds == (wait + Second - 1) \div Second
           maximum == (window + Second - 1) \div Second
<1>1. Second \in Nat /\ Second > 0
  BY SizeAssumption
<1>2. \A x \in Nat : /\ (x + Second - 1) \div Second \in Nat
                     /\ Second * ((x + Second - 1) \div Second) >= x
  BY <1>1
<1>3. /\ seconds \in Nat /\ Second * seconds >= wait
      /\ maximum \in Nat /\ Second * maximum >= window
  BY <1>2
<1>4. r = IF seconds < 1 THEN 1 ELSE IF seconds > maximum THEN maximum ELSE seconds
  BY DEF RetryAfterSeconds
<1> HIDE DEF seconds, maximum
<1>5. r \in Nat
  BY <1>3, <1>4
<1>6. Second * r \in Nat
  BY <1>1, <1>5
<1>7. CASE seconds < 1
  <2>1. seconds = 0 /\ Second * seconds = 0
    BY <1>1, <1>3, <1>7
  <2>2. QED BY <1>3, <2>1
<1>8. CASE ~ (seconds < 1)
  <2>1. CASE seconds > maximum
    <3>1. r = maximum
      BY <1>4, <1>8, <2>1
    <3>2. QED BY <1>3, <1>5, <1>6, <3>1
  <2>2. CASE ~ (seconds > maximum)
    <3>1. r = seconds
      BY <1>4, <1>8, <2>2
    <3>2. QED BY <1>3, <1>5, <1>6, <3>1
  <2>3. QED BY <2>1, <2>2
<1>9. QED BY <1>5, <1>6, <1>7, <1>8

(* Whoever is refused waits for the rule with the longest wait, so that    *)
(* none of the request's rules is still full then.                         *)
LEMMA DueIsEnough ==
  ASSUME NEW bs, BucketsOK(bs), NEW t \in Nat, NEW now \in Nat, now <= t,
         NEW keys \in SUBSET Key, NEW k \in keys, LongestWait(bs, keys, k, now),
         Events(bs, k)[1] <= t,
         NEW due, due = t + Second * RetryAfterSeconds(RetryDuration(bs, k, now), Window[k])
  PROVE  due \in Nat /\ PromiseInv(bs, keys, due)
<1> DEFINE wait == RetryDuration(bs, k, now)
           length == Second * RetryAfterSeconds(wait, Window[k])
<1>1. Limit[k] \in Nat /\ Limit[k] > 0 /\ Window[k] \in Nat /\ Window[k] > 0
  BY RuleTypes
<1>2. Full(bs, k, now)
  BY DEF LongestWait
<1>3. /\ k \in DOMAIN bs /\ Len(bs[k].events) = Limit[k]
      /\ bs[k].events[1] > now - Window[k] /\ wait = bs[k].events[1] + Window[k] - now
  BY <1>2, FullExactly
<1>4. bs[k].events[1] \in Nat /\ Events(bs, k)[1] = bs[k].events[1]
  BY <1>1, <1>3, BucketTypes DEF Events
<1>5. wait \in Nat /\ wait > 0 /\ now + wait <= t + Window[k]
  BY <1>1, <1>3, <1>4
<1> HIDE DEF wait
<1>6. length \in Nat /\ (length >= wait \/ length >= Window[k])
  BY <1>1, <1>5, RetryAfterRoundsUp
<1>7. due = t + length
  BY DEF wait
<1> HIDE DEF length
<1>8. due \in Nat /\ now + wait <= due
  BY <1>1, <1>5, <1>6, <1>7
<1>9. ASSUME NEW j \in keys, Len(Events(bs, j)) = Limit[j] PROVE Events(bs, j)[1] + Window[j] <= due
  <2>1. Limit[j] \in Nat /\ Limit[j] > 0 /\ Window[j] \in Nat
    BY RuleTypes
  <2>2. j \in DOMAIN bs
    BY <1>9, <2>1, EmptySeq DEF Events
  <2>3. /\ Events(bs, j) = bs[j].events /\ bs[j].events[1] \in Nat
    BY <1>9, <2>1, <2>2, BucketTypes DEF Events
  <2>4. CASE Full(bs, j, now)
    <3>1. RetryDuration(bs, j, now) = bs[j].events[1] + Window[j] - now
      BY <2>4, FullExactly
    <3>2. RetryDuration(bs, j, now) <= wait
      BY <2>4 DEF LongestWait, wait
    <3>3. QED BY <1>5, <1>8, <2>1, <2>3, <3>1, <3>2
  <2>5. CASE ~ Full(bs, j, now)
    <3>1. ~ (bs[j].events[1] > now - Window[j])
      BY <1>9, <2>2, <2>3, <2>5, FullExactly
    <3>2. QED BY <1>5, <1>8, <2>1, <2>3, <3>1
  <2>6. QED BY <2>4, <2>5
<1>10. QED BY <1>8, <1>9 DEF PromiseInv
------------------------------------------------------------------------------
(* CALLS.                                                                  *)

LEMMA KeySetsAreKeys == KeySets \subseteq SUBSET Key
BY GroupAssumption DEF KeySets

LEMMA CallTypes ==
  ASSUME TypeOK, StampsAreRecent, NEW c \in Caller, pending[c] # None
  PROVE  /\ pending[c].keys \in KeySets /\ pending[c].keys \in SUBSET Key
         /\ Cardinality(pending[c].keys) <= MaxKeys
         /\ pending[c].stamp \in Nat /\ clock \in Nat
         /\ pending[c].stamp <= clock /\ clock <= pending[c].stamp + MaxDelay
         /\ pending[c].op # "allowAll" => \E k \in Single : pending[c].keys = {k}
<1>1. pending[c] \in Call /\ clock \in Nat
  BY DEF TypeOK
<1>2. /\ pending[c].keys \in KeySets /\ pending[c].stamp \in Nat
      /\ pending[c].op # "allowAll" => pending[c].keys \in {{k} : k \in Single}
  BY <1>1 DEF Call, KeySets
<1>3. Cardinality(pending[c].keys) <= MaxKeys
  <2>1. CASE pending[c].keys \in Group
    BY <2>1, GroupAssumption
  <2>2. CASE pending[c].keys \in {{k} : k \in Single}
    <3>1. PICK k \in Single : pending[c].keys = {k}
      BY <2>2
    <3>2. Cardinality({k}) = 1
      BY FS_Singleton
    <3>3. QED BY <3>1, <3>2, MaxKeysAssumption
  <2>3. QED BY <1>2, <2>1, <2>2 DEF KeySets
<1>4. pending[c].keys \in SUBSET Key
  BY <1>2, KeySetsAreKeys
<1>5. pending[c].stamp <= clock /\ clock <= pending[c].stamp + MaxDelay
  BY DEF StampsAreRecent
<1>6. QED BY <1>1, <1>2, <1>3, <1>4, <1>5

LEMMA Maintaining ==
  ASSUME BucketsOK(buckets), NEW now \in Nat
  PROVE  /\ BucketsOK(Maintained(now)) /\ Shrunk(buckets, Maintained(now), now)
         /\ \A k \in Key : Lessened(buckets, Maintained(now), k, now)
<1>1. CASE Maintained(now) = buckets
  BY <1>1, ShrunkSelf, LessenedSelf
<1>2. CASE Maintained(now) = CleanupExpired(buckets, now)
  BY <1>2, CleanupShrinks, CleanupLessens DEF Shrunk
<1>3. QED BY <1>1, <1>2 DEF Maintained

(* The caller is done: what Leave is responsible for.                      *)
LEMMA Leaving ==
  ASSUME TypeOK, StampsAreRecent, NEW c \in Caller, Leave(c)
  PROVE  /\ clock' = clock /\ operations' \in 0 .. CleanupInterval - 1
         /\ pending' \in [Caller -> Call \cup {None}] /\ StampsAreRecent'
         /\ \A d \in Caller : pending[d] # None /\ pending'[d] = None => d = c
<1>1. /\ clock' = clock /\ operations' = (operations + 1) % CleanupInterval
      /\ pending' = [pending EXCEPT ![c] = None]
      /\ pending \in [Caller -> Call \cup {None}]
  BY DEF Leave, TypeOK
<1>2. operations' \in 0 .. CleanupInterval - 1
  <2>1. CleanupInterval \in Nat /\ CleanupInterval > 0 /\ operations + 1 \in Nat
    BY SizeAssumption DEF TypeOK
  <2>2. QED BY <1>1, <2>1
<1>3. pending' \in [Caller -> Call \cup {None}]
  BY <1>1
<1>4. \A d \in Caller : pending'[d] # None => d # c /\ pending'[d] = pending[d]
  BY <1>1
<1>5. StampsAreRecent'
  BY <1>1, <1>4 DEF StampsAreRecent
<1>6. \A d \in Caller : d # c => pending'[d] = pending[d]
  BY <1>1
<1>7. QED BY <1>1, <1>2, <1>3, <1>5, <1>6

(* No key loses an event that is in its window: nobody is evicted.         *)
LEMMA NobodyEvicted ==
  ASSUME BucketsOK(buckets), clock \in Nat, NEW now \in Nat, now <= clock,
         \A k \in Key : Lessened(buckets, buckets', k, now)
  PROVE  DOMAIN CleanupExpired(buckets, clock) \subseteq DOMAIN buckets'
<1>1. ASSUME NEW k \in DOMAIN CleanupExpired(buckets, clock) PROVE k \in DOMAIN buckets'
  <2>1. k \in Key
    BY DEF BucketsOK, CleanupExpired
  <2>2. Live(buckets', k, now)
    BY <2>1, LiveKeys, StaysLive
  <2>3. Events(buckets', k) # <<>>
    BY <2>2, EmptySeq DEF Live, HasNewer
  <2>4. QED BY <2>3 DEF Events
<1>2. QED BY <1>1

(* What a step may evict, for EvictsOnlyStalest.                           *)
Eviction ==
  \A k \in DOMAIN CleanupExpired(buckets, clock) \ DOMAIN buckets' :
    \A c \in Caller : pending[c] # None /\ pending'[c] = None =>
      /\ Cardinality(DOMAIN buckets') = MaxKeys
      /\ \A j \in DOMAIN buckets' \ pending[c].keys : buckets[j].lastSeen >= buckets[k].lastSeen

(* A call that does not admit: Check, or a refusal.                        *)
LEMMA Passing ==
  ASSUME IInv, NEW c \in Caller, pending[c] # None, Leave(c),
         NEW now, now = pending[c].stamp, NEW bs, bs = Maintained(now),
         BucketsOK(buckets'), \A k \in Key : Lessened(bs, buckets', k, now),
         admitted' = admitted,
         promise' \in [KeySets -> Nat \cup {None}],
         \A ks \in KeySets : promise'[ks] # promise[ks] =>
            (promise'[ks] # None => PromiseInv(bs, ks, promise'[ks]))
  PROVE  IInv' /\ Eviction
<1>1. /\ TypeOK /\ StampsAreRecent /\ BucketsOK(buckets)
      /\ \A k \in Key : KeyInv(Events(buckets, k), admitted[k], k, clock)
      /\ \A ks \in KeySets : promise[ks] # None => PromiseInv(buckets, ks, promise[ks])
  BY DEF IInv, TypeOK
<1>2. now \in Nat /\ clock \in Nat /\ now <= clock
  BY <1>1, CallTypes
<1>3. /\ clock' = clock /\ operations' \in 0 .. CleanupInterval - 1
      /\ pending' \in [Caller -> Call \cup {None}] /\ StampsAreRecent'
  BY <1>1, Leaving
<1>4. BucketsOK(bs) /\ \A k \in Key : Lessened(buckets, bs, k, now)
  BY <1>1, <1>2, Maintaining
<1>5. \A k \in Key : Lessened(buckets, buckets', k, now)
  BY <1>1, <1>2, <1>4, LessenedTwice
<1>6. TypeOK'
  BY <1>1, <1>3 DEF TypeOK
<1>7. \A k \in Key : KeyInv(Events(buckets', k), admitted'[k], k, clock')
  BY <1>1, <1>2, <1>3, <1>5, KeyLessened DEF Lessened
<1>8. ASSUME NEW ks \in KeySets, promise'[ks] # None PROVE PromiseInv(buckets', ks, promise'[ks])
  <2>1. ks \in SUBSET Key
    BY KeySetsAreKeys
  <2>2. CASE promise'[ks] = promise[ks]
    BY <1>1, <1>2, <1>5, <1>8, <2>1, <2>2, PromiseKept
  <2>3. CASE promise'[ks] # promise[ks]
    <3>1. PromiseInv(bs, ks, promise'[ks])
      BY <1>8, <2>3
    <3>2. QED BY <1>2, <1>4, <2>1, <3>1, PromiseKept
  <2>4. QED BY <2>2, <2>3
<1>9. IInv'
  <2>1. \A k \in Key : KeyInv(Events(buckets, k)', admitted'[k], k, clock')
    BY <1>7 DEF Events
  <2>2. \A ks \in KeySets : promise'[ks] # None => PromiseInv(buckets, ks, promise[ks])'
    BY <1>8 DEF PromiseInv, Events
  <2>3. QED BY <1>3, <1>6, <2>1, <2>2 DEF IInv
<1>10. Eviction
  BY <1>1, <1>2, <1>5, NobodyEvicted DEF Eviction
<1>11. QED BY <1>9, <1>10

(* A refusal promises a time at which nothing of the request is full.      *)
LEMMA Refusing ==
  ASSUME IInv, NEW c \in Caller, pending[c] # None, Leave(c),
         NEW now, now = pending[c].stamp, NEW bs, bs = Maintained(now),
         NEW keys, keys = pending[c].keys, NEW k \in keys, LongestWait(bs, keys, k, now),
         BucketsOK(buckets'), \A j \in Key : Lessened(bs, buckets', j, now),
         RememberRefusal(keys, k, RetryDuration(bs, k, now))
  PROVE  IInv' /\ Eviction
<1> DEFINE due == clock + Second * RetryAfterSeconds(RetryDuration(bs, k, now), Window[k])
<1>1. /\ TypeOK /\ StampsAreRecent /\ BucketsOK(buckets)
      /\ promise \in [KeySets -> Nat \cup {None}]
      /\ \A j \in Key : KeyInv(Events(buckets, j), admitted[j], j, clock)
  BY DEF IInv, TypeOK
<1>2. /\ now \in Nat /\ clock \in Nat /\ now <= clock
      /\ keys \in KeySets /\ keys \in SUBSET Key /\ k \in Key
  BY <1>1, CallTypes
<1>3. BucketsOK(bs) /\ \A j \in Key : Lessened(buckets, bs, j, now)
  BY <1>1, <1>2, Maintaining
<1>4. KeyInv(Events(bs, k), admitted[k], k, clock)
  BY <1>1, <1>2, <1>3, KeyLessened DEF Lessened
<1>5. Events(bs, k)[1] <= clock
  <2> DEFINE E == Events(bs, k)  A == admitted[k]
  <2>1. /\ Len(E) \in Nat /\ \A i \in 1 .. Len(E) : E[i] \in Nat
        /\ Len(A) \in Nat /\ \A i \in 1 .. Len(A) : A[i] \in Nat
        /\ Limit[k] \in Nat /\ Limit[k] > 0
    BY <1>2, <1>4, KeyTypes
  <2>2. Full(bs, k, now)
    BY DEF LongestWait
  <2>3. Len(E) = Limit[k]
    BY <1>2, <1>3, <2>2, FullExactly DEF Events
  <2>4. Len(E) <= Len(A) /\ StampsOf(E, A) /\ InOrder(A, clock)
    BY <1>4 DEF KeyInv
  <2> HIDE DEF E, A
  <2>5. 1 \in 1 .. Len(E) /\ Len(A) - Len(E) + 1 \in 1 .. Len(A)
    BY <2>1, <2>3, <2>4
  <2>6. E[1] <= A[Len(A) - Len(E) + 1] /\ A[Len(A) - Len(E) + 1] <= clock
    BY <2>4, <2>5 DEF StampsOf, InOrder
  <2>7. E[1] <= clock
    BY <1>2, <2>1, <2>5, <2>6
  <2>8. QED BY <2>7 DEF E
<1>6. due \in Nat /\ PromiseInv(bs, keys, due)
  BY <1>2, <1>3, <1>5, DueIsEnough
<1>7. /\ admitted' = admitted
      /\ promise' = [promise EXCEPT ![keys] = IF @ = None \/ due < @ THEN due ELSE @]
  BY DEF RememberRefusal
<1> HIDE DEF due
<1>8. promise'[keys] \in {due, promise[keys]} /\ \A ks \in KeySets \ {keys} : promise'[ks] = promise[ks]
  BY <1>1, <1>2, <1>7
<1>9. promise' \in [KeySets -> Nat \cup {None}]
  BY <1>1, <1>2, <1>6, <1>7
<1>10. ASSUME NEW ks \in KeySets, promise'[ks] # promise[ks] PROVE PromiseInv(bs, ks, promise'[ks])
  <2>1. ks = keys /\ promise'[ks] = due
    BY <1>8, <1>10
  <2>2. QED BY <1>6, <2>1
<1>11. QED BY <1>7, <1>9, <1>10, Passing

(* An admission: each of the request's keys was below its limit.           *)
LEMMA Admission ==
  ASSUME IInv, NEW c \in Caller, pending[c] # None, Leave(c),
         NEW now, now = pending[c].stamp, NEW bs, bs = Maintained(now),
         NEW keys, keys = pending[c].keys, \A k \in keys : ~ Full(bs, k, now),
         buckets' = Recorded(MakeRoom(bs, keys, now), keys, now),
         RememberAdmission(keys, now)
  PROVE  IInv' /\ Eviction
<1>1. /\ TypeOK /\ StampsAreRecent /\ BucketsOK(buckets)
      /\ admitted \in [Key -> Seq(Nat)] /\ promise \in [KeySets -> Nat \cup {None}]
      /\ \A k \in Key : KeyInv(Events(buckets, k), admitted[k], k, clock)
      /\ \A ks \in KeySets : promise[ks] # None => PromiseInv(buckets, ks, promise[ks])
  BY DEF IInv, TypeOK
<1>2. /\ now \in Nat /\ clock \in Nat /\ now <= clock /\ clock <= now + MaxDelay
      /\ keys \in KeySets /\ keys \in SUBSET Key /\ Cardinality(keys) <= MaxKeys
  BY <1>1, CallTypes
<1>3. /\ clock' = clock /\ operations' \in 0 .. CleanupInterval - 1
      /\ pending' \in [Caller -> Call \cup {None}] /\ StampsAreRecent'
      /\ \A d \in Caller : pending[d] # None /\ pending'[d] = None => d = c
  BY <1>1, Leaving
<1>4. /\ BucketsOK(bs) /\ Shrunk(buckets, bs, now)
      /\ \A k \in Key : Lessened(buckets, bs, k, now)
  BY <1>1, <1>2, Maintaining
<1>5. /\ BucketsOK(buckets') /\ keys \subseteq DOMAIN buckets'
      /\ \A k \in keys : Gained(bs, buckets', k, now)
      /\ \A k \in Key \ keys : \/ Lessened(bs, buckets', k, now)
                               \/ Live(bs, k, now) /\ k \notin DOMAIN buckets'
      /\ \A k \in Key \ DOMAIN buckets' : Live(bs, k, now) =>
           /\ Cardinality(DOMAIN buckets') = MaxKeys
           /\ \A j \in DOMAIN buckets' \ keys : /\ j \in DOMAIN bs
                                                /\ bs[k].lastSeen <= bs[j].lastSeen
  BY <1>2, <1>4, Admitting
<1> DEFINE forgotten == DOMAIN CleanupExpired(buckets, now) \ DOMAIN buckets'
<1>6. /\ admitted' = [k \in Key |->
            IF k \in keys THEN Newest(Append(admitted[k], clock), Limit[k] + 1)
            ELSE IF k \in forgotten THEN <<>> ELSE admitted[k]]
      /\ promise' = [ks \in KeySets |-> IF ks \cap keys # {} THEN None ELSE promise[ks]]
  BY DEF RememberAdmission
<1>7. ASSUME NEW k \in Key PROVE KeyInv(Events(buckets', k), admitted'[k], k, clock)
  <2>1. CASE k \in keys
    <3>1. admitted'[k] = Remembered(admitted[k], clock, Limit[k])
      BY <1>6, <2>1 DEF Remembered
    <3>2. Gained(buckets, buckets', k, now)
      BY <1>1, <1>2, <1>4, <1>5, <2>1, LessenedThenGained
    <3>3. PICK F : /\ Pruned(Events(buckets, k), F, now - Window[k]) /\ Len(F) < Limit[k]
                   /\ Events(buckets', k) = Append(F, now)
      BY <3>2 DEF Gained
    <3>4. KeyInv(Append(F, now), admitted'[k], k, clock)
      BY <1>1, <1>2, <3>1, <3>3, KeyGained
    <3>5. QED BY <3>3, <3>4
  <2>2. CASE k \notin keys /\ Lessened(bs, buckets', k, now) /\ k \notin forgotten
    <3>1. admitted'[k] = admitted[k]
      BY <1>6, <2>2
    <3>2. Lessened(buckets, buckets', k, now)
      BY <1>1, <1>2, <1>4, <2>2, LessenedTwice
    <3>3. QED BY <1>1, <1>2, <3>1, <3>2, KeyLessened DEF Lessened
  <2>3. CASE k \notin keys /\ k \in forgotten
    <3>1. admitted'[k] = <<>> /\ Events(buckets', k) = <<>>
      BY <1>6, <2>3 DEF Events
    <3>2. QED BY <1>2, <3>1, KeyForgotten
  <2>4. CASE k \notin keys /\ Live(bs, k, now) /\ k \notin DOMAIN buckets'
    <3>1. Live(buckets, k, now)
      BY <1>1, <1>2, <1>4, <2>4, WasLive
    <3>2. k \in forgotten
      BY <1>1, <1>2, <2>4, <3>1, LiveKeys
    <3>3. QED BY <2>3, <2>4, <3>2
  <2>5. QED BY <1>5, <2>1, <2>2, <2>3, <2>4
<1>8. admitted' \in [Key -> Seq(Nat)]
  <2>1. \A k \in Key : admitted'[k] \in Seq(Nat)
    BY <1>7 DEF KeyInv
  <2>2. QED BY <1>6, <2>1
<1>9. promise' \in [KeySets -> Nat \cup {None}]
  BY <1>1, <1>6
<1>10. ASSUME NEW ks \in KeySets, promise'[ks] # None PROVE PromiseInv(buckets', ks, promise'[ks])
  <2>1. ks \in SUBSET Key
    BY KeySetsAreKeys
  <2>2. ks \cap keys = {} /\ promise'[ks] = promise[ks]
    BY <1>6, <1>10
  <2>3. PromiseInv(bs, ks, promise'[ks])
    BY <1>1, <1>2, <1>4, <1>10, <2>1, <2>2, PromiseKept
  <2>4. \A k \in ks : Lessened(bs, buckets', k, now) \/ Events(buckets', k) = <<>>
    BY <1>5, <2>1, <2>2 DEF Events
  <2>5. QED BY <1>2, <1>4, <2>1, <2>3, <2>4, PromiseKept
<1>11. IInv'
  <2>1. TypeOK'
    BY <1>1, <1>3, <1>5, <1>8, <1>9 DEF TypeOK
  <2>2. \A k \in Key : KeyInv(Events(buckets, k)', admitted'[k], k, clock')
    BY <1>3, <1>7 DEF Events
  <2>3. \A ks \in KeySets : promise'[ks] # None => PromiseInv(buckets, ks, promise[ks])'
    BY <1>10 DEF PromiseInv, Events
  <2>4. QED BY <1>3, <2>1, <2>2, <2>3 DEF IInv
<1>12. Eviction
  <2>1. ASSUME NEW k \in DOMAIN CleanupExpired(buckets, clock) \ DOMAIN buckets',
               NEW d \in Caller, pending[d] # None, pending'[d] = None
        PROVE  /\ Cardinality(DOMAIN buckets') = MaxKeys
               /\ \A j \in DOMAIN buckets' \ pending[d].keys :
                    buckets[j].lastSeen >= buckets[k].lastSeen
    <3>1. d = c /\ pending[d].keys = keys
      BY <1>3, <2>1
    <3>2. k \in Key /\ k \in DOMAIN buckets
      BY <1>1 DEF BucketsOK, CleanupExpired
    <3>3. Live(bs, k, now)
      BY <1>1, <1>2, <1>4, <3>2, LiveKeys, StaysLive
    <3>4. k \in DOMAIN bs
      BY <3>3, EmptySeq DEF Live, HasNewer, Events
    <3>5. /\ Cardinality(DOMAIN buckets') = MaxKeys
          /\ \A j \in DOMAIN buckets' \ keys : j \in DOMAIN bs /\ bs[k].lastSeen <= bs[j].lastSeen
      BY <1>5, <3>2, <3>3
    <3>6. \A j \in DOMAIN bs : bs[j].lastSeen = buckets[j].lastSeen /\ buckets[j].lastSeen \in Nat
      BY <1>1, <1>4, BucketTypes DEF Shrunk
    <3>7. QED BY <3>1, <3>4, <3>5, <3>6
  <2>2. QED BY <2>1 DEF Eviction
<1>13. QED BY <1>11, <1>12
------------------------------------------------------------------------------
(* STEPS.                                                                  *)

LEMMA AllowKeeps ==
  ASSUME IInv, NEW c \in Caller, Allow(c)
  PROVE  IInv' /\ Eviction
<1> DEFINE now == pending[c].stamp  bs == Maintained(now)
<1>1. pending[c] # None /\ pending[c].op = "allow" /\ Leave(c)
  BY DEF Allow
<1>2. PICK k \in pending[c].keys :
        /\ buckets' = AfterAllow(bs, k, now)
        /\ IF Full(bs, k, now) THEN RememberRefusal({k}, k, RetryDuration(bs, k, now))
           ELSE RememberAdmission({k}, now)
  BY DEF Allow
<1>3. /\ now \in Nat /\ k \in Key /\ pending[c].keys = {k} /\ BucketsOK(buckets)
  BY <1>1, CallTypes DEF IInv, TypeOK
<1>4. BucketsOK(bs)
  BY <1>3, Maintaining
<1> HIDE DEF bs
<1>5. CASE Full(bs, k, now)
  <2>1. buckets' = Seen(bs, k, now)
    BY <1>2, <1>5 DEF AfterAllow
  <2>2. BucketsOK(buckets') /\ \A j \in Key : Lessened(bs, buckets', j, now)
    BY <1>3, <1>4, <1>5, <2>1, Looking
  <2>3. LongestWait(bs, {k}, k, now)
    <3>1. RetryDuration(bs, k, now) <= RetryDuration(bs, k, now)
      <4>1. RetryDuration(bs, k, now) = bs[k].events[1] + Window[k] - now /\ k \in DOMAIN bs
            /\ Len(bs[k].events) = Limit[k]
        BY <1>3, <1>4, <1>5, FullExactly
      <4>2. bs[k].events[1] \in Nat /\ Window[k] \in Nat
        BY <1>3, <1>4, <4>1, BucketTypes, RuleTypes
      <4>3. QED BY <1>3, <4>1, <4>2
    <3>2. QED BY <1>5, <3>1 DEF LongestWait
  <2>4. RememberRefusal({k}, k, RetryDuration(bs, k, now))
    BY <1>2, <1>5
  <2>5. QED BY <1>1, <1>3, <2>2, <2>3, <2>4, Refusing DEF bs
<1>6. CASE ~ Full(bs, k, now)
  <2> DEFINE keys == pending[c].keys
  <2>1. buckets' = Recorded(MakeRoom(bs, keys, now), keys, now)
    BY <1>2, <1>3, <1>6 DEF AfterAllow
  <2>2. RememberAdmission(keys, now) /\ \A j \in keys : ~ Full(bs, j, now)
    BY <1>2, <1>3, <1>6
  <2>3. QED BY <1>1, <2>1, <2>2, Admission DEF bs
<1>7. QED BY <1>5, <1>6

LEMMA CheckKeeps ==
  ASSUME IInv, NEW c \in Caller, Check(c)
  PROVE  IInv' /\ Eviction
<1> DEFINE now == pending[c].stamp  bs == Maintained(now)
<1>1. pending[c] # None /\ pending[c].op = "check" /\ Leave(c)
  BY DEF Check
<1>2. PICK k \in pending[c].keys :
        /\ buckets' = AfterCheck(bs, k, now)
        /\ IF Full(bs, k, now) THEN RememberRefusal({k}, k, RetryDuration(bs, k, now))
           ELSE UNCHANGED <<admitted, promise>>
  BY DEF Check
<1>3. /\ now \in Nat /\ k \in Key /\ pending[c].keys = {k} /\ BucketsOK(buckets)
      /\ promise \in [KeySets -> Nat \cup {None}]
  BY <1>1, CallTypes DEF IInv, TypeOK
<1>4. BucketsOK(bs)
  BY <1>3, Maintaining
<1> HIDE DEF bs
<1>5. BucketsOK(buckets') /\ \A j \in Key : Lessened(bs, buckets', j, now)
  BY <1>2, <1>3, <1>4, Looking
<1>6. CASE Full(bs, k, now)
  <2>1. LongestWait(bs, {k}, k, now)
    <3>1. RetryDuration(bs, k, now) <= RetryDuration(bs, k, now)
      <4>1. RetryDuration(bs, k, now) = bs[k].events[1] + Window[k] - now /\ k \in DOMAIN bs
            /\ Len(bs[k].events) = Limit[k]
        BY <1>3, <1>4, <1>6, FullExactly
      <4>2. bs[k].events[1] \in Nat /\ Window[k] \in Nat
        BY <1>3, <1>4, <4>1, BucketTypes, RuleTypes
      <4>3. QED BY <1>3, <4>1, <4>2
    <3>2. QED BY <1>6, <3>1 DEF LongestWait
  <2>2. RememberRefusal({k}, k, RetryDuration(bs, k, now))
    BY <1>2, <1>6
  <2>3. QED BY <1>1, <1>3, <1>5, <2>1, <2>2, Refusing DEF bs
<1>7. CASE ~ Full(bs, k, now)
  <2>1. admitted' = admitted /\ promise' = promise
    BY <1>2, <1>7
  <2>2. QED BY <1>1, <1>3, <1>5, <2>1, Passing DEF bs
<1>8. QED BY <1>6, <1>7

LEMMA AllowAllKeeps ==
  ASSUME IInv, NEW c \in Caller, AllowAll(c)
  PROVE  IInv' /\ Eviction
<1> DEFINE now == pending[c].stamp  bs == Maintained(now)  keys == pending[c].keys
<1>1. /\ pending[c] # None /\ Leave(c)
      /\ buckets' = AfterAllowAll(bs, keys, now)
      /\ IF \E k \in keys : Full(bs, k, now)
         THEN \E k \in keys : /\ LongestWait(bs, keys, k, now)
                             /\ RememberRefusal(keys, k, RetryDuration(bs, k, now))
         ELSE RememberAdmission(keys, now)
  BY DEF AllowAll
<1>2. now \in Nat /\ BucketsOK(buckets)
  BY <1>1, CallTypes DEF IInv, TypeOK
<1>3. BucketsOK(bs)
  BY <1>2, Maintaining
<1>4. CASE \E k \in keys : Full(bs, k, now)
  <2>1. PICK k \in keys : /\ LongestWait(bs, keys, k, now)
                          /\ RememberRefusal(keys, k, RetryDuration(bs, k, now))
    BY <1>1, <1>4
  <2>2. buckets' = bs
    BY <1>1, <1>4 DEF AfterAllowAll
  <2>3. BucketsOK(buckets') /\ \A j \in Key : Lessened(bs, buckets', j, now)
    BY <1>2, <1>3, <2>2, LessenedSelf
  <2>4. QED BY <1>1, <2>1, <2>3, Refusing
<1>5. CASE ~ \E k \in keys : Full(bs, k, now)
  <2>1. buckets' = Recorded(MakeRoom(bs, keys, now), keys, now)
    BY <1>1, <1>5 DEF AfterAllowAll
  <2>2. RememberAdmission(keys, now) /\ \A k \in keys : ~ Full(bs, k, now)
    BY <1>1, <1>5
  <2>3. QED BY <1>1, <2>1, <2>2, Admission
<1>6. QED BY <1>4, <1>5

LEMMA ReadClockKeeps ==
  ASSUME IInv, NEW c \in Caller, NEW op, NEW keys, ReadClock(c, op, keys),
         [op |-> op, keys |-> keys, stamp |-> clock] \in Call
  PROVE  IInv' /\ Eviction
<1> DEFINE call == [op |-> op, keys |-> keys, stamp |-> clock]
<1>1. /\ pending[c] = None /\ pending' = [pending EXCEPT ![c] = call]
      /\ UNCHANGED <<clock, buckets, operations, admitted, promise>>
      /\ TypeOK /\ StampsAreRecent /\ clock \in Nat /\ MaxDelay \in Nat
      /\ pending \in [Caller -> Call \cup {None}]
  BY BoundAssumption DEF ReadClock, IInv, TypeOK
<1>2. call \in Call /\ call.stamp = clock
  OBVIOUS
<1> HIDE DEF call
<1>3. pending'[c] = call /\ \A d \in Caller \ {c} : pending'[d] = pending[d]
  BY <1>1
<1>4. pending' \in [Caller -> Call \cup {None}]
  BY <1>1, <1>2
<1>5. TypeOK'
  BY <1>1, <1>4 DEF TypeOK
<1>6. StampsAreRecent'
  <2>1. ASSUME NEW d \in Caller, pending'[d] # None
        PROVE  pending'[d].stamp <= clock /\ clock <= pending'[d].stamp + MaxDelay
    <3>1. CASE d = c
      BY <1>1, <1>2, <1>3, <3>1
    <3>2. CASE d # c
      BY <1>1, <1>3, <2>1, <3>2 DEF StampsAreRecent
    <3>3. QED BY <3>1, <3>2
  <2>2. QED BY <1>1, <2>1 DEF StampsAreRecent
<1>7. IInv'
  <2>1. \A k \in Key : KeyInv(Events(buckets, k), admitted[k], k, clock)'
    BY ZenonT(60), <1>1 DEF IInv, Events, KeyInv, StampsOf, OthersAreOld, InOrder
  <2>2. \A ks \in KeySets : promise'[ks] # None => PromiseInv(buckets, ks, promise[ks])'
    BY <1>1 DEF IInv, PromiseInv, Events
  <2>3. QED BY <1>5, <1>6, <2>1, <2>2 DEF IInv
<1>8. Eviction
  <2>1. ASSUME NEW k \in DOMAIN CleanupExpired(buckets, clock) PROVE k \in DOMAIN buckets'
    BY <1>1 DEF CleanupExpired
  <2>2. QED BY <2>1 DEF Eviction
<1>9. QED BY <1>7, <1>8

LEMMA ResetKeeps ==
  ASSUME IInv, NEW k \in Single, Reset(k)
  PROVE  IInv' /\ Eviction
<1>1. /\ buckets' = Without(buckets, {k}) /\ admitted' = [admitted EXCEPT ![k] = <<>>]
      /\ UNCHANGED <<clock, operations, pending, promise>>
      /\ TypeOK /\ StampsAreRecent /\ BucketsOK(buckets) /\ clock \in Nat
      /\ admitted \in [Key -> Seq(Nat)] /\ k \in Key
  BY GroupAssumption DEF Reset, IInv, TypeOK
<1>2. Shrunk(buckets, buckets', clock) /\ BucketsOK(buckets') /\ DOMAIN buckets' = DOMAIN buckets \ {k}
  <2>1. /\ Shrunk(buckets, Without(buckets, {k}), clock)
        /\ DOMAIN Without(buckets, {k}) = DOMAIN buckets \ {k}
    BY <1>1, ForgettingShrinks
  <2>2. QED BY <1>1, <2>1 DEF Shrunk
<1>3. \A j \in Key \ {k} : Events(buckets', j) = Events(buckets, j)
  BY <1>1 DEF Events, Without
<1>4. Events(buckets', k) = <<>>
  BY <1>2 DEF Events
<1>5. <<>> \in Seq(Nat)
  BY EmptySeq
<1>6. TypeOK'
  BY <1>1, <1>2, <1>5 DEF TypeOK
<1>7. ASSUME NEW j \in Key PROVE KeyInv(Events(buckets', j), admitted'[j], j, clock)
  <2>1. CASE j = k
    <3>1. admitted'[j] = <<>>
      BY <1>1, <2>1
    <3>2. QED BY <1>1, <1>4, <2>1, <3>1, KeyForgotten
  <2>2. CASE j # k
    <3>1. admitted'[j] = admitted[j] /\ Events(buckets', j) = Events(buckets, j)
      BY <1>1, <1>3, <2>2
    <3>2. QED BY <3>1 DEF IInv
  <2>3. QED BY <2>1, <2>2
<1>8. ASSUME NEW ks \in KeySets, promise[ks] # None PROVE PromiseInv(buckets', ks, promise[ks])
  <2>1. ks \in SUBSET Key /\ PromiseInv(buckets, ks, promise[ks])
    BY <1>8, KeySetsAreKeys DEF IInv
  <2>2. \A j \in ks : Lessened(buckets, buckets', j, clock) \/ Events(buckets', j) = <<>>
    <3>1. ASSUME NEW j \in ks PROVE Lessened(buckets, buckets', j, clock) \/ Events(buckets', j) = <<>>
      <4>1. CASE j = k
        BY <1>4, <4>1
      <4>2. CASE j # k
        <5>1. Lessened(buckets, buckets, j, clock)
          BY <1>1, <2>1, LessenedSelf
        <5>2. QED BY <1>3, <2>1, <4>2, <5>1 DEF Lessened
      <4>3. QED BY <4>1, <4>2
    <3>2. QED BY <3>1
  <2>3. QED BY <1>1, <2>1, <2>2, PromiseKept
<1>9. IInv'
  <2>1. \A j \in Key : KeyInv(Events(buckets, j)', admitted'[j], j, clock')
    BY <1>1, <1>7 DEF Events
  <2>2. \A ks \in KeySets : promise'[ks] # None => PromiseInv(buckets, ks, promise[ks])'
    BY <1>1, <1>8 DEF PromiseInv, Events
  <2>3. StampsAreRecent'
    BY <1>1 DEF StampsAreRecent
  <2>4. QED BY <1>1, <1>6, <2>1, <2>2, <2>3 DEF IInv
<1>10. Eviction
  BY <1>1 DEF Eviction
<1>11. QED BY <1>9, <1>10

LEMMA TickKeeps ==
  ASSUME IInv, Tick
  PROVE  IInv' /\ Eviction
<1>1. /\ clock < MaxTime /\ clock' = clock + 1
      /\ \A c \in Caller : pending[c] # None => clock < pending[c].stamp + MaxDelay
      /\ promise' = [ks \in KeySets |->
            IF promise[ks] # None /\ promise[ks] <= clock THEN None ELSE promise[ks]]
      /\ UNCHANGED <<buckets, operations, pending, admitted>>
  BY DEF Tick
<1>2. /\ TypeOK /\ StampsAreRecent /\ clock \in Nat /\ MaxTime \in Nat /\ MaxDelay \in Nat
      /\ pending \in [Caller -> Call \cup {None}]
      /\ promise \in [KeySets -> Nat \cup {None}]
  BY BoundAssumption DEF IInv, TypeOK
<1>3. TypeOK'
  <2>1. clock' \in 0 .. MaxTime
    BY <1>1, <1>2 DEF TypeOK
  <2>2. promise' \in [KeySets -> Nat \cup {None}]
    BY <1>1, <1>2
  <2>3. QED BY <1>1, <1>2, <2>1, <2>2 DEF TypeOK
<1>4. StampsAreRecent'
  <2>1. ASSUME NEW c \in Caller, pending[c] # None
        PROVE  pending[c].stamp <= clock + 1 /\ clock + 1 <= pending[c].stamp + MaxDelay
    <3>1. /\ pending[c].stamp \in Nat /\ pending[c].stamp <= clock
          /\ clock < pending[c].stamp + MaxDelay
      BY <1>1, <1>2, <2>1, CallTypes
    <3>2. QED BY <1>2, <3>1
  <2>2. QED BY <1>1, <2>1 DEF StampsAreRecent
<1>5. IInv'
  <2>1. ASSUME NEW k \in Key PROVE KeyInv(Events(buckets, k), admitted[k], k, clock + 1)
    BY <1>2, KeyLater DEF IInv
  <2>2. \A k \in Key : KeyInv(Events(buckets, k)', admitted'[k], k, clock')
    BY <1>1, <2>1 DEF Events
  <2>3. \A ks \in KeySets : promise'[ks] # None => promise'[ks] = promise[ks]
    BY <1>1
  <2>4. \A ks \in KeySets : promise'[ks] # None => PromiseInv(buckets, ks, promise[ks])'
    BY <1>1, <2>3 DEF IInv, PromiseInv, Events
  <2>5. QED BY <1>3, <1>4, <2>2, <2>4 DEF IInv
<1>6. Eviction
  <2>1. DOMAIN CleanupExpired(buckets, clock) \subseteq DOMAIN buckets'
    BY <1>1 DEF CleanupExpired
  <2>2. QED BY <2>1 DEF Eviction
<1>7. QED BY <1>5, <1>6

LEMMA NextKeeps ==
  ASSUME IInv, Next
  PROVE  IInv' /\ Eviction
<1>1. CASE Tick
  BY <1>1, TickKeeps
<1>2. ASSUME NEW k \in Single, Reset(k) PROVE IInv' /\ Eviction
  BY <1>2, ResetKeeps
<1>3. ASSUME NEW c \in Caller, NEW k \in Single,
             ReadClock(c, "allow", {k}) \/ ReadClock(c, "check", {k})
      PROVE  IInv' /\ Eviction
  <2>1. clock \in Nat /\ {k} \in {{j} : j \in Single}
    BY BoundAssumption DEF IInv, TypeOK
  <2>2. ASSUME NEW op \in {"allow", "check"}, ReadClock(c, op, {k}) PROVE IInv' /\ Eviction
    <3>1. [op |-> op, keys |-> {k}, stamp |-> clock] \in Call
      BY <2>1 DEF Call
    <3>2. QED BY <2>2, <3>1, ReadClockKeeps
  <2>3. QED BY <1>3, <2>2
<1>4. ASSUME NEW c \in Caller, NEW g \in Group, ReadClock(c, "allowAll", g)
      PROVE  IInv' /\ Eviction
  <2>1. clock \in Nat
    BY BoundAssumption DEF IInv, TypeOK
  <2>2. [op |-> "allowAll", keys |-> g, stamp |-> clock] \in Call
    BY <2>1 DEF Call
  <2>3. QED BY <1>4, <2>2, ReadClockKeeps
<1>5. ASSUME NEW c \in Caller, Allow(c) \/ Check(c) \/ AllowAll(c) PROVE IInv' /\ Eviction
  BY <1>5, AllowKeeps, CheckKeeps, AllowAllKeeps
<1>6. QED BY <1>1, <1>2, <1>3, <1>4, <1>5 DEF Next

LEMMA StutterKeeps ==
  ASSUME IInv, UNCHANGED vars
  PROVE  IInv'
<1>1. TypeOK' /\ StampsAreRecent'
  BY DEF IInv, vars, TypeOK, StampsAreRecent
<1>2. \A k \in Key : KeyInv(Events(buckets, k)', admitted'[k], k, clock')
  BY DEF IInv, vars, Events
<1>3. \A ks \in KeySets : promise'[ks] # None => PromiseInv(buckets, ks, promise[ks])'
  BY DEF IInv, vars, PromiseInv, Events
<1>4. QED BY <1>1, <1>2, <1>3 DEF IInv

LEMMA InitEstablishes == Init => IInv
<1> SUFFICES ASSUME Init PROVE IInv
  OBVIOUS
<1> USE DEF Init
<1>1. DOMAIN buckets = {} /\ \A k \in Key : Events(buckets, k) = <<>>
  BY DEF Events
<1>2. BucketsOK(buckets)
  BY <1>1, FS_EmptySet, MaxKeysAssumption DEF BucketsOK
<1>3. <<>> \in Seq(Nat)
  BY EmptySeq
<1>4. clock \in 0 .. MaxTime /\ operations \in 0 .. CleanupInterval - 1
  BY BoundAssumption, SizeAssumption
<1>5. /\ pending \in [Caller -> Call \cup {None}]
      /\ admitted \in [Key -> Seq(Nat)] /\ promise \in [KeySets -> Nat \cup {None}]
  BY <1>3
<1>6. TypeOK
  BY <1>2, <1>4, <1>5 DEF TypeOK
<1>7. \A k \in Key : KeyInv(Events(buckets, k), admitted[k], k, clock)
  BY <1>1, KeyForgotten
<1>8. QED BY <1>6, <1>7 DEF IInv, StampsAreRecent
------------------------------------------------------------------------------
(* WHAT THE INVARIANT GIVES.                                               *)

LEMMA RateFollows == IInv => RateHolds
<1> SUFFICES ASSUME IInv, NEW k \in Key, Len(admitted[k]) > Limit[k]
             PROVE  admitted[k][Len(admitted[k])] - admitted[k][Len(admitted[k]) - Limit[k]]
                      >= Window[k] - MaxDelay
  BY DEF RateHolds
<1> DEFINE A == admitted[k]
<1>1. KeyInv(Events(buckets, k), A, k, clock) /\ clock \in Nat
  BY BoundAssumption DEF IInv, TypeOK
<1>2. Len(A) \in Nat /\ Limit[k] \in Nat
  BY <1>1, KeyTypes
<1>3. Len(A) <= Limit[k] + 1 /\ (Len(A) = Limit[k] + 1 => A[Len(A)] - A[1] >= Window[k] - MaxDelay)
  BY <1>1 DEF KeyInv
<1>4. Len(A) = Limit[k] + 1 /\ Len(A) - Limit[k] = 1
  BY <1>2, <1>3
<1>5. QED BY <1>3, <1>4

LEMMA EarnedFollows == IInv => RefusalsAreEarned
<1> SUFFICES ASSUME IInv, NEW c \in Caller, NEW k \in Key,
                    pending[c] # None, k \in pending[c].keys, Full(buckets, k, pending[c].stamp)
             PROVE  /\ Len(admitted[k]) >= Limit[k]
                    /\ admitted[k][Len(admitted[k]) - Limit[k] + 1] > clock - Window[k] - MaxDelay
  BY DEF RefusalsAreEarned
<1> DEFINE A == admitted[k]  E == Events(buckets, k)  now == pending[c].stamp
<1>1. /\ TypeOK /\ StampsAreRecent /\ BucketsOK(buckets) /\ KeyInv(E, A, k, clock)
  BY DEF IInv, TypeOK
<1>2. now \in Nat /\ clock \in Nat /\ clock <= now + MaxDelay
  BY <1>1, CallTypes
<1>3. /\ Limit[k] \in Nat /\ Limit[k] > 0 /\ Window[k] \in Nat /\ MaxDelay \in Nat
      /\ Len(E) \in Nat /\ \A i \in 1 .. Len(E) : E[i] \in Nat
      /\ Len(A) \in Nat /\ \A i \in 1 .. Len(A) : A[i] \in Nat
  BY <1>1, <1>2, KeyTypes
<1>4. Len(E) = Limit[k] /\ E[1] > now - Window[k]
  BY <1>1, <1>2, FullExactly DEF Events
<1>5. Len(E) <= Len(A) /\ StampsOf(E, A)
  BY <1>1 DEF KeyInv
<1> HIDE DEF A, E, now
<1>6. 1 \in 1 .. Len(E) /\ Len(A) - Limit[k] + 1 \in 1 .. Len(A)
  BY <1>3, <1>4, <1>5
<1>7. E[1] <= A[Len(A) - Limit[k] + 1]
  BY <1>4, <1>5, <1>6 DEF StampsOf
<1>8. A[Len(A) - Limit[k] + 1] > clock - Window[k] - MaxDelay
  <2>1. E[1] \in Nat /\ A[Len(A) - Limit[k] + 1] \in Nat
    BY <1>3, <1>6
  <2>2. QED BY SMTT(30), <1>2, <1>3, <1>4, <1>7, <2>1
<1>9. QED BY <1>3, <1>4, <1>5, <1>8 DEF A

LEMMA RetryFollows == IInv => RetryIsEnough
<1> SUFFICES ASSUME IInv, NEW ks \in KeySets, promise[ks] # None, clock >= promise[ks],
                    NEW k \in ks, Full(buckets, k, clock)
             PROVE  FALSE
  BY DEF RetryIsEnough
<1>1. /\ BucketsOK(buckets) /\ clock \in Nat /\ promise[ks] \in Nat
      /\ PromiseInv(buckets, ks, promise[ks]) /\ k \in Key
  BY BoundAssumption, KeySetsAreKeys DEF IInv, TypeOK
<1>2. /\ k \in DOMAIN buckets /\ Len(buckets[k].events) = Limit[k]
      /\ buckets[k].events[1] > clock - Window[k] /\ Events(buckets, k) = buckets[k].events
  BY <1>1, FullExactly DEF Events
<1>3. Limit[k] \in Nat /\ Limit[k] > 0 /\ Window[k] \in Nat
  BY <1>1, RuleTypes
<1>4. buckets[k].events[1] \in Nat
  BY <1>1, <1>2, <1>3, BucketTypes
<1>5. buckets[k].events[1] + Window[k] <= promise[ks]
  BY <1>1, <1>2 DEF PromiseInv
<1>6. QED BY <1>1, <1>2, <1>3, <1>4, <1>5

LEMMA Invariance == Spec => []IInv
<1>1. Init => IInv
  BY InitEstablishes
<1>2. IInv /\ [Next]_vars => IInv'
  BY NextKeeps, StutterKeeps
<1>3. QED BY <1>1, <1>2, PTL DEF Spec

(* Every variable keeps its kind: the store never exceeds maxLimiterKeys   *)
(* nor a bucket its limit (limiter.go:49-255), whatever the calls.         *)
THEOREM LimiterTypeCorrect == Spec => []TypeOK
<1>1. IInv => TypeOK
  BY DEF IInv
<1>2. QED BY <1>1, Invariance, PTL

(* Allow and AllowAll (limiter.go:49-176) keep to the limit in real time,  *)
(* although stamps are taken before the mutex and reach the buckets out of *)
(* order: Limit + 1 admissions take a window, less the longest wait.       *)
THEOREM TheRateHolds == Spec => []RateHolds
<1>1. QED BY RateFollows, Invariance, PTL

(* Nobody is refused who was not at the limit within the window: a refused *)
(* AllowAll and a Check charge nothing, and no event outlives its window.  *)
THEOREM RefusalsAreAlwaysEarned == Spec => []RefusalsAreEarned
<1>1. QED BY EarnedFollows, Invariance, PTL

(* The Retry-After of a refusal (handler.go retryAfterSeconds, and the     *)
(* longest wait of AllowAll's full rules) is long enough.                  *)
THEOREM RetryAfterIsAlwaysEnough == Spec => []RetryIsEnough
<1>1. QED BY RetryFollows, Invariance, PTL

(* makeRoomForKey and makeRoomForRules (limiter.go:217-289): a key with an *)
(* unexpired event goes only from a full store, and no key stays that was  *)
(* seen longer ago, save the request's own.                                *)
THEOREM EvictionTakesTheStalest == Spec => EvictsOnlyStalest
<1>1. IInv /\ [Next]_vars =>
        [\A k \in DOMAIN CleanupExpired(buckets, clock) \ DOMAIN buckets' :
           \A c \in Caller : pending[c] # None /\ pending'[c] = None =>
             /\ Cardinality(DOMAIN buckets') = MaxKeys
             /\ \A j \in DOMAIN buckets' \ pending[c].keys :
                  buckets[j].lastSeen >= buckets[k].lastSeen]_vars
  BY NextKeeps DEF Eviction
<1>2. QED BY <1>1, Invariance, PTL DEF Spec, EvictsOnlyStalest
=============================================================================
