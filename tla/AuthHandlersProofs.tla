-------------------------- MODULE AuthHandlersProofs ---------------------------
(***************************************************************************)
(* The handlers of AuthHandlers, for any requests, keys, limits, windows   *)
(* and capacity.                                                           *)
(*                                                                         *)
(* The gate: every call either stays on its side of it, enters by          *)
(* TryAcquire or leaves by returning, so that the slots taken are the      *)
(* requests inside. Nothing is assumed of the limiter, nor that there are  *)
(* finitely many requests: only finitely many get in.                      *)
(*                                                                         *)
(* The failures: the events of an identifier's bucket are the newest times *)
(* of its failures; evicting a bucket can only make them fewer.            *)
(***************************************************************************)
EXTENDS AuthHandlers, LimiterBucketsProofs

(* THE GATE.                                                               *)

Inside == {r \in Request : pc[r] \in Guarded}

GateInv ==
  /\ pc \in [Request -> Pc]
  /\ IsFiniteSet(Inside)
  /\ slots = Cardinality(Inside)
  /\ slots <= Capacity

------------------------------------------------------------------------------
(* The three ways in which one request's next call can change.             *)
LEMMA StaysOnItsSide ==
  ASSUME GateInv, NEW r \in Request, NEW label \in Pc, Goto(r, label),
         label \in Guarded <=> pc[r] \in Guarded
  PROVE  GateInv'
<1>1. pc' = [pc EXCEPT ![r] = label] /\ slots' = slots
  BY DEF Goto
<1>2. pc' \in [Request -> Pc]
  BY <1>1 DEF GateInv
<1>3. Inside' = Inside
  BY <1>1 DEF GateInv, Inside
<1> QED
  BY <1>1, <1>2, <1>3 DEF GateInv

LEMMA Enters ==
  ASSUME GateInv, NEW r \in Request, NEW label \in Guarded, pc[r] \notin Guarded,
         slots < Capacity, slots' = slots + 1, pc' = [pc EXCEPT ![r] = label]
  PROVE  GateInv'
<1>1. pc' \in [Request -> Pc]
  BY DEF GateInv, Pc
<1>2. Inside' = Inside \cup {r} /\ r \notin Inside
  BY DEF GateInv, Inside
<1>3. /\ IsFiniteSet(Inside \cup {r})
      /\ Cardinality(Inside \cup {r}) = Cardinality(Inside) + 1
  BY <1>2, FS_AddElement DEF GateInv
<1>4. slots' <= Capacity
  BY CapacityAssumption, FS_CardinalityType DEF GateInv
<1> QED
  BY <1>1, <1>2, <1>3, <1>4 DEF GateInv

LEMMA Returns ==
  ASSUME GateInv, NEW r \in Request, Answer(r)
  PROVE  GateInv'
<1>1. pc' = [pc EXCEPT ![r] = "idle"] /\ "idle" \notin Guarded /\ "idle" \in Pc
  BY DEF Answer, Guarded, Pc
<1>2. pc' \in [Request -> Pc]
  BY <1>1 DEF GateInv
<1>3. Inside' = Inside \ {r}
  BY <1>1 DEF GateInv, Inside
<1>4. Cardinality(Inside) \in Nat
  BY FS_CardinalityType DEF GateInv
<1>5. CASE pc[r] \in Guarded
  <2>1. r \in Inside /\ slots' = slots - 1
    BY <1>5 DEF Inside, Answer
  <2>2. IsFiniteSet(Inside \ {r}) /\ Cardinality(Inside \ {r}) = Cardinality(Inside) - 1
    BY <2>1, FS_RemoveElement DEF GateInv
  <2> QED
    BY <1>2, <1>3, <1>4, <2>1, <2>2, CapacityAssumption DEF GateInv
<1>6. CASE pc[r] \notin Guarded
  <2>1. Inside \ {r} = Inside /\ slots' = slots
    BY <1>6 DEF Inside, Answer
  <2> QED
    BY <1>2, <1>3, <2>1 DEF GateInv
<1> QED
  BY <1>5, <1>6

LEMMA Tries ==
  ASSUME GateInv, NEW r \in Request, NEW label \in Guarded, pc[r] \notin Guarded,
         TryAcquire(r, label)
  PROVE  GateInv'
<1>1. CASE slots < Capacity
  BY <1>1, Enters DEF TryAcquire
<1>2. CASE ~(slots < Capacity)
  BY <1>2, Returns DEF TryAcquire
<1> QED
  BY <1>1, <1>2

LEMMA GateUntouched ==
  ASSUME GateInv, UNCHANGED <<pc, slots>>
  PROVE  GateInv'
BY DEF GateInv, Inside

------------------------------------------------------------------------------
LEMMA SignInKeepsGate ==
  ASSUME GateInv, NEW r \in Request, SignIn(r)
  PROVE  GateInv'
<1>1. ASSUME NEW i \in Identifier, Arrive(r, "allowGlobal", [NoRequest EXCEPT !.id = i])
      PROVE  GateInv'
  <2>1. pc' = [pc EXCEPT ![r] = "allowGlobal"] /\ pc[r] = "idle" /\ slots' = slots
    BY <1>1 DEF Arrive
  <2>2. Inside' = Inside /\ pc' \in [Request -> Pc]
    BY <2>1 DEF GateInv, Inside, Guarded, Pc
  <2> QED
    BY <2>1, <2>2 DEF GateInv
<1>2. CASE AllowGlobal(r)
  <2>1. Answer(r) \/ Goto(r, "checkIdentifier")
    BY <1>2 DEF AllowGlobal
  <2>2. pc[r] = "allowGlobal"
    BY <1>2 DEF AllowGlobal
  <2> QED
    BY <2>1, <2>2, Returns, StaysOnItsSide DEF Guarded, Pc
<1>3. CASE CheckIdentifier(r)
  <2>1. Answer(r) \/ Goto(r, "acquireSignIn")
    BY <1>3 DEF CheckIdentifier
  <2>2. pc[r] = "checkIdentifier"
    BY <1>3 DEF CheckIdentifier
  <2> QED
    BY <2>1, <2>2, Returns, StaysOnItsSide DEF Guarded, Pc
<1>4. CASE AcquireSignIn(r)
  <2>1. pc[r] \notin Guarded /\ "findUser" \in Guarded /\ TryAcquire(r, "findUser")
    BY <1>4 DEF AcquireSignIn, Guarded
  <2> QED
    BY <2>1, Tries
<1>5. CASE FindUser(r)
  <2>1. Goto(r, "verify") \/ Goto(r, "verifyDummy") \/ Answer(r)
    BY <1>5 DEF FindUser
  <2>2. pc[r] = "findUser"
    BY <1>5 DEF FindUser
  <2> QED
    BY <2>1, <2>2, Returns, StaysOnItsSide DEF Guarded, Pc
<1>6. CASE Verify(r)
  <2>1. Goto(r, "createSession") \/ Goto(r, "recordFailure") \/ Answer(r)
    BY <1>6 DEF Verify
  <2>2. pc[r] = "verify"
    BY <1>6 DEF Verify
  <2> QED
    BY <2>1, <2>2, Returns, StaysOnItsSide DEF Guarded, Pc
<1>7. CASE VerifyDummy(r)
  <2>1. Goto(r, "recordFailure") /\ pc[r] = "verifyDummy"
    BY <1>7 DEF VerifyDummy
  <2> QED
    BY <2>1, StaysOnItsSide DEF Guarded, Pc
<1>8. CASE RecordFailure(r)
  BY <1>8, Returns DEF RecordFailure
<1>9. CASE CreateSession(r)
  <2>1. Goto(r, "resetFailures") \/ Answer(r)
    BY <1>9 DEF CreateSession
  <2>2. pc[r] = "createSession"
    BY <1>9 DEF CreateSession
  <2> QED
    BY <2>1, <2>2, Returns, StaysOnItsSide DEF Guarded, Pc
<1>10. CASE ResetFailures(r)
  BY <1>10, Returns DEF ResetFailures
<1> QED
  BY <1>1, <1>2, <1>3, <1>4, <1>5, <1>6, <1>7, <1>8, <1>9, <1>10 DEF SignIn

LEMMA RegisterKeepsGate ==
  ASSUME GateInv, NEW r \in Request, Register(r)
  PROVE  GateInv'
<1>1. ASSUME NEW u \in Username, NEW e \in Email,
             Arrive(r, "allowRegister", [NoRequest EXCEPT !.username = u, !.email = e])
      PROVE  GateInv'
  <2>1. pc' = [pc EXCEPT ![r] = "allowRegister"] /\ pc[r] = "idle" /\ slots' = slots
    BY <1>1 DEF Arrive
  <2>2. Inside' = Inside /\ pc' \in [Request -> Pc]
    BY <2>1 DEF GateInv, Inside, Guarded, Pc
  <2> QED
    BY <2>1, <2>2 DEF GateInv
<1>2. CASE AllowRegister(r)
  <2>1. Answer(r) \/ Goto(r, "acquireRegister")
    BY <1>2 DEF AllowRegister
  <2>2. pc[r] = "allowRegister"
    BY <1>2 DEF AllowRegister
  <2> QED
    BY <2>1, <2>2, Returns, StaysOnItsSide DEF Guarded, Pc
<1>3. CASE AcquireRegister(r)
  <2>1. pc[r] \notin Guarded /\ "hash" \in Guarded /\ TryAcquire(r, "hash")
    BY <1>3 DEF AcquireRegister, Guarded
  <2> QED
    BY <2>1, Tries
<1>4. CASE Hash(r)
  <2>1. Goto(r, "createUser") \/ Answer(r)
    BY <1>4 DEF Hash
  <2>2. pc[r] = "hash"
    BY <1>4 DEF Hash
  <2> QED
    BY <2>1, <2>2, Returns, StaysOnItsSide DEF Guarded, Pc
<1>5. CASE CreateUser(r)
  BY <1>5, Returns DEF CreateUser
<1> QED
  BY <1>1, <1>2, <1>3, <1>4, <1>5 DEF Register

------------------------------------------------------------------------------
(* THE FAILURES.                                                           *)

SignInPc   == {"allowGlobal", "checkIdentifier", "acquireSignIn", "findUser", "verify",
               "verifyDummy", "recordFailure", "createSession", "resetFailures"}
RegisterPc == {"allowRegister", "acquireRegister", "hash", "createUser"}

(* A request brings what the calls of its handler use.                     *)
RequestInv ==
  /\ req \in [Request -> {NoRequest} \cup SignInRequest \cup RegisterRequest]
  /\ \A r \in Request : /\ pc[r] \in SignInPc => req[r] \in SignInRequest
                        /\ pc[r] \in RegisterPc => req[r] \in RegisterRequest

Ascending(T, now) ==
  /\ T \in Seq(0 .. MaxTime)
  /\ \A m, n \in 1 .. Len(T) : m <= n => T[m] <= T[n]
  /\ \A n \in 1 .. Len(T) : T[n] <= now

(* The bucket of i has lost the failures up to c, at most, and has made    *)
(* none up.                                                                *)
Knows(i, c) == Pruned(failures[i], Events(buckets, FailureKey[i]), c)

History(f) == f = [i \in Identifier |-> f[i]]

IInv ==
  /\ GateInv /\ RequestInv
  /\ clock \in 0 .. MaxTime /\ BucketsOK(buckets) /\ users \subseteq User
  /\ History(failures)
  /\ \A i \in Identifier : Ascending(failures[i], clock) /\ Knows(i, clock)

(* Nothing is missing that still counts.                                   *)
KnowsAll == \A i \in Identifier : Knows(i, clock - Window[FailureKey[i]])

(* A bucket that refuses a sign-in has its reason in the identifier's own  *)
(* failures.                                                               *)
ThrottledForTheirOwn ==
  \A i \in Identifier :
    Full(buckets, FailureKey[i], clock) =>
      Len(Recent(failures[i], Window[FailureKey[i]])) >= Limit[FailureKey[i]]
------------------------------------------------------------------------------
(* One failure more: the history and the bucket get the same time, and the *)
(* history stays long enough for a bucket that was not full.               *)
LEMMA BothAppend ==
  ASSUME NEW T \in Seq(Nat), NEW E, NEW c \in Int, NEW L \in Nat, NEW x \in Nat,
         Pruned(T, E, c), Len(E) < L
  PROVE  Pruned(Newest(Append(T, x), L + 1), Append(E, x), c)
<1> DEFINE U == Append(T, x)  G == Append(E, x)  q == IF Len(U) > L + 1 THEN Len(U) - (L + 1) ELSE 0
           V == Newest(U, L + 1)
<1>1. E \in Seq(Nat) /\ Len(T) \in Nat /\ Len(E) \in Nat /\ Len(E) <= Len(T)
  BY LenProperties DEF Pruned
<1>2. /\ U \in Seq(Nat) /\ Len(U) = Len(T) + 1 /\ U[Len(T) + 1] = x
      /\ \A i \in 1 .. Len(T) : U[i] = T[i]
  BY AppendProperties
<1>3. /\ G \in Seq(Nat) /\ Len(G) = Len(E) + 1 /\ G[Len(E) + 1] = x
      /\ \A i \in 1 .. Len(E) : G[i] = E[i]
  BY <1>1, AppendProperties
<1>4. /\ \A i \in 1 .. Len(E) : E[i] = T[Len(T) - Len(E) + i]
      /\ \A i \in 1 .. Len(T) - Len(E) : T[i] <= c
  BY DEF Pruned
<1> HIDE DEF U, G
<1>5. V = SubSeq(U, q + 1, Len(U)) /\ q \in Nat /\ Len(G) <= Len(U) - q /\ q <= Len(U)
  <2>1. Len(U) \in Nat /\ Len(U) = Len(T) + 1 /\ Len(G) \in Nat /\ Len(G) = Len(E) + 1
    BY <1>1, <1>2, <1>3
  <2>2. CASE Len(U) > L + 1
    <3>1. q = Len(U) - (L + 1) /\ q + 1 = Len(U) - (L + 1) + 1
      BY <2>1, <2>2
    <3>2. QED BY SMTT(30), <1>1, <2>1, <2>2, <3>1 DEF Newest
  <2>3. CASE ~ (Len(U) > L + 1)
    <3>1. q = 0 /\ q + 1 = 1
      BY <2>1, <2>3
    <3>2. QED BY <1>1, <2>1, <2>3, <3>1 DEF Newest
  <2>4. QED BY <2>2, <2>3
<1> HIDE DEF V, q
<1>6. \A i \in 1 .. Len(U) : U[i] \in Nat
  BY <1>2, ElementOfSeq
<1>7. Len(V) = Len(U) - q /\ \A i \in 1 .. Len(U) - q : V[i] = U[q + i]
  <2>1. /\ Len(SubSeq(U, q + 1, Len(U))) =
             IF q + 1 <= Len(U) THEN Len(U) - (q + 1) + 1 ELSE 0
        /\ \A i \in 1 .. Len(U) - (q + 1) + 1 : SubSeq(U, q + 1, Len(U))[i] = U[(q + 1) + i - 1]
    BY <1>1, <1>2, <1>5, <1>6, SubSeqProperties
  <2>2. QED BY <1>1, <1>2, <1>5, <2>1
<1>8. ASSUME NEW i \in 1 .. Len(G) PROVE G[i] = V[Len(V) - Len(G) + i]
  <2>1. /\ Len(V) - Len(G) + i \in 1 .. Len(U) - q
        /\ q + (Len(V) - Len(G) + i) = Len(T) - Len(E) + i
    <3>1. /\ Len(V) = Len(U) - q /\ Len(U) = Len(T) + 1 /\ Len(G) = Len(E) + 1
          /\ Len(T) \in Nat /\ Len(E) \in Nat /\ q \in Nat /\ Len(G) <= Len(U) - q
      BY <1>1, <1>2, <1>3, <1>5, <1>7
    <3>2. QED BY <3>1
  <2>2. V[Len(V) - Len(G) + i] = U[Len(T) - Len(E) + i]
    BY <1>7, <2>1
  <2>3. CASE i = Len(E) + 1
    BY <1>1, <1>2, <1>3, <2>2, <2>3
  <2>4. CASE i \in 1 .. Len(E)
    <3>1. Len(T) - Len(E) + i \in 1 .. Len(T)
      BY <1>1, <2>4
    <3>2. QED BY <1>2, <1>3, <1>4, <2>2, <2>4, <3>1
  <2>5. QED BY <1>1, <1>3, <2>3, <2>4
<1>9. ASSUME NEW i \in 1 .. Len(V) - Len(G) PROVE V[i] <= c
  <2>1. i \in 1 .. Len(U) - q /\ q + i \in 1 .. Len(T) - Len(E) /\ q + i \in 1 .. Len(T)
    <3>1. /\ Len(V) = Len(U) - q /\ Len(U) = Len(T) + 1 /\ Len(G) = Len(E) + 1
          /\ Len(T) \in Nat /\ Len(E) \in Nat /\ q \in Nat /\ Len(G) <= Len(U) - q
      BY <1>1, <1>2, <1>3, <1>5, <1>7
    <3>2. QED BY <3>1
  <2>2. QED BY <1>2, <1>4, <1>7, <2>1
<1>10. QED BY <1>1, <1>2, <1>3, <1>5, <1>7, <1>8, <1>9 DEF Pruned, U, G, V

LEMMA AscendingTypes ==
  ASSUME NEW T, NEW now \in 0 .. MaxTime, Ascending(T, now)
  PROVE  /\ MaxTime \in Nat /\ T \in Seq(Nat) /\ Len(T) \in Nat
         /\ \A n \in 1 .. Len(T) : T[n] \in Nat
<1>1. MaxTime \in Nat /\ T \in Seq(0 .. MaxTime)
  BY BoundAssumption DEF Ascending
<1>2. Len(T) \in Nat /\ \A n \in 1 .. Len(T) : T[n] \in 0 .. MaxTime
  BY <1>1, LenProperties, ElementOfSeq
<1>3. T \in Seq(Nat)
  BY <1>1, <1>2, SeqDef
<1>4. QED BY <1>1, <1>2, <1>3

LEMMA AscendingAppend ==
  ASSUME NEW T, NEW now \in 0 .. MaxTime, NEW L \in Nat, Ascending(T, now)
  PROVE  Ascending(Newest(Append(T, now), L + 1), now)
<1> DEFINE U == Append(T, now)  q == IF Len(U) > L + 1 THEN Len(U) - (L + 1) ELSE 0
           V == Newest(U, L + 1)
<1>1. /\ MaxTime \in Nat /\ T \in Seq(0 .. MaxTime) /\ Len(T) \in Nat
      /\ \A n \in 1 .. Len(T) : T[n] \in Nat /\ T[n] <= now
      /\ \A m, n \in 1 .. Len(T) : m <= n => T[m] <= T[n]
  BY AscendingTypes DEF Ascending
<1>2. /\ U \in Seq(0 .. MaxTime) /\ Len(U) = Len(T) + 1 /\ U[Len(T) + 1] = now
      /\ \A n \in 1 .. Len(T) : U[n] = T[n]
  BY <1>1, AppendProperties
<1>3. V = SubSeq(U, q + 1, Len(U)) /\ q \in Nat /\ q <= Len(U)
  BY <1>1, <1>2 DEF Newest
<1> HIDE DEF U, V, q
<1>4. \A n \in 1 .. Len(U) : U[n] \in 0 .. MaxTime
  BY <1>2, ElementOfSeq
<1>5. /\ V \in Seq(0 .. MaxTime) /\ Len(V) = Len(U) - q
      /\ \A n \in 1 .. Len(U) - q : V[n] = U[q + n]
  <2>1. /\ SubSeq(U, q + 1, Len(U)) \in Seq(0 .. MaxTime)
        /\ Len(SubSeq(U, q + 1, Len(U))) =
             IF q + 1 <= Len(U) THEN Len(U) - (q + 1) + 1 ELSE 0
        /\ \A n \in 1 .. Len(U) - (q + 1) + 1 : SubSeq(U, q + 1, Len(U))[n] = U[(q + 1) + n - 1]
    BY <1>1, <1>2, <1>3, <1>4, SubSeqProperties
  <2>2. QED BY <1>1, <1>2, <1>3, <2>1
<1>6. \A n \in 1 .. Len(U) : U[n] <= now
  <2> SUFFICES ASSUME NEW n \in 1 .. Len(U) PROVE U[n] <= now
    OBVIOUS
  <2>1. CASE n = Len(T) + 1
    BY <1>1, <1>2, <2>1
  <2>2. CASE n \in 1 .. Len(T)
    BY <1>1, <1>2, <2>2
  <2>3. QED BY <1>1, <1>2, <2>1, <2>2
<1>7. ASSUME NEW m \in 1 .. Len(U), NEW n \in 1 .. Len(U), m <= n PROVE U[m] <= U[n]
  <2>1. CASE n = Len(T) + 1
    BY <1>2, <1>6, <2>1
  <2>2. CASE n \in 1 .. Len(T)
    <3>1. m \in 1 .. Len(T) /\ U[m] = T[m] /\ U[n] = T[n]
      BY SMTT(30), <1>1, <1>2, <1>7, <2>2
    <3>2. QED BY <1>1, <1>7, <2>2, <3>1
  <2>3. QED BY <1>1, <1>2, <2>1, <2>2
<1>8. ASSUME NEW m \in 1 .. Len(V), NEW n \in 1 .. Len(V), m <= n PROVE V[m] <= V[n]
  <2>1. q + m \in 1 .. Len(U) /\ q + n \in 1 .. Len(U) /\ q + m <= q + n
    BY <1>1, <1>2, <1>3, <1>5, <1>8
  <2>2. QED BY <1>5, <1>7, <2>1
<1>9. ASSUME NEW n \in 1 .. Len(V) PROVE V[n] <= now
  <2>1. q + n \in 1 .. Len(U)
    BY <1>1, <1>2, <1>3, <1>5
  <2>2. QED BY <1>5, <1>6, <2>1
<1>10. QED BY <1>5, <1>8, <1>9 DEF Ascending, U, V

LEMMA AscendingLater ==
  ASSUME NEW T, NEW now \in 0 .. MaxTime, NEW later \in 0 .. MaxTime, now <= later, Ascending(T, now)
  PROVE  Ascending(T, later)
<1>1. \A n \in 1 .. Len(T) : T[n] \in Nat /\ T[n] <= now
  BY AscendingTypes DEF Ascending
<1>2. \A n \in 1 .. Len(T) : T[n] <= later
  BY <1>1, BoundAssumption
<1>3. QED BY <1>2 DEF Ascending
------------------------------------------------------------------------------
(* One bucket and its history across one call of the limiter.              *)
LEMMA KeepsKnowing ==
  ASSUME NEW bs, BucketsOK(bs), NEW cs, NEW k \in Key, NEW now \in Nat, NEW T \in Seq(Nat),
         NEW c \in Int, now - Window[k] <= c,
         Pruned(T, Events(bs, k), c), Lessened(bs, cs, k, now)
  PROVE  Pruned(T, Events(cs, k), c)
<1>1. Events(bs, k) \in Seq(Nat) /\ now - Window[k] \in Int
  BY EventsAreStamps, RuleTypes
<1>2. Pruned(Events(bs, k), Events(cs, k), c)
  BY <1>1, PrunedMore DEF Lessened
<1>3. QED BY <1>2, PrunedTwice

LEMMA NothingIsKnown ==
  ASSUME NEW c \in Int PROVE Pruned(<<>>, <<>>, c)
<1>1. <<>> \in Seq(Nat) /\ Len(<<>>) = 0
  BY EmptySeq
<1>2. QED BY <1>1 DEF Pruned

LEMMA LosesAll ==
  ASSUME NEW T \in Seq(Nat), NEW now \in Nat, \A n \in 1 .. Len(T) : T[n] <= now
  PROVE  Pruned(T, <<>>, now)
<1>1. Len(T) \in Nat /\ \A n \in 1 .. Len(T) : T[n] \in Nat
  BY LenProperties, ElementOfSeq
<1>2. ~ HasNewer(T, now)
  BY <1>1 DEF HasNewer
<1>3. QED BY <1>2, NothingNewer

LEMMA LearnsOne ==
  ASSUME NEW bs, BucketsOK(bs), NEW cs, NEW k \in Key, NEW now \in Nat, NEW T \in Seq(Nat),
         NEW c \in Int, now - Window[k] <= c,
         Pruned(T, Events(bs, k), c), Gained(bs, cs, k, now)
  PROVE  Pruned(Newest(Append(T, now), Limit[k] + 1), Events(cs, k), c)
<1>1. PICK F : /\ Pruned(Events(bs, k), F, now - Window[k]) /\ Len(F) < Limit[k]
               /\ Events(cs, k) = Append(F, now)
  BY DEF Gained
<1>2. /\ Events(bs, k) \in Seq(Nat) /\ now - Window[k] \in Int
      /\ Limit[k] \in Nat
  BY EventsAreStamps, RuleTypes
<1>3. Pruned(Events(bs, k), F, c)
  BY <1>1, <1>2, PrunedMore
<1>4. Pruned(T, F, c)
  BY <1>3, PrunedTwice
<1>5. QED BY <1>1, <1>2, <1>4, BothAppend

(* What the limiter makes of a bucket's events now: the failures that are  *)
(* in the window, for the ones it still has.                               *)
Counted(bs, k, now) == IF k \in DOMAIN bs THEN EventsAt(bs, k, now) ELSE <<>>

LEMMA CountedAreActive ==
  ASSUME NEW bs, BucketsOK(bs), NEW k \in Key, NEW now \in 0 .. MaxTime, NEW T, Ascending(T, now),
         NEW c \in Int, Pruned(T, Events(bs, k), c)
  PROVE  LET F == Counted(bs, k, now) IN
         /\ Pruned(Events(bs, k), F, now - Window[k])
         /\ F \in Seq(Nat) /\ Len(F) \in Nat /\ Len(F) <= Limit[k] /\ Len(F) <= Len(T)
         /\ \A n \in 1 .. Len(F) : F[n] = T[Len(T) - Len(F) + n] /\ F[n] > now - Window[k]
<1> DEFINE E == Events(bs, k)  F == Counted(bs, k, now)  low == now - Window[k]
<1>1. /\ now \in Nat /\ low \in Int /\ Limit[k] \in Nat
      /\ T \in Seq(Nat) /\ Len(T) \in Nat /\ \A n \in 1 .. Len(T) : T[n] \in Nat
  BY SMTT(30), RuleTypes, AscendingTypes
<1>2. E \in Seq(Nat) /\ Len(E) \in Nat
  BY EventsAreStamps
<1>3. Pruned(E, F, low) /\ Len(F) <= Limit[k] /\ (Len(F) > 0 => F[1] > low)
  <2>1. CASE k \in DOMAIN bs
    <3>1. E = bs[k].events /\ F = EventsAt(bs, k, now)
      BY <2>1 DEF Events, Counted
    <3>2. /\ EventsAt(bs, k, now) = ActiveEvents(bs[k].events, low)
          /\ Pruned(bs[k].events, EventsAt(bs, k, now), low)
          /\ Len(EventsAt(bs, k, now)) <= Limit[k]
      BY <1>1, <2>1, EventsAtAreActive
    <3>3. Len(ActiveEvents(E, low)) > 0 => ActiveEvents(E, low)[1] > low
      BY <1>1, <1>2, ActiveEventsPrune
    <3>4. QED BY <3>1, <3>2, <3>3
  <2>2. CASE k \notin DOMAIN bs
    <3>1. E = <<>> /\ F = <<>> /\ Len(<<>>) = 0
      BY <2>2, EmptySeq DEF Events, Counted
    <3>2. Pruned(<<>>, <<>>, low)
      BY <1>1, <1>2, <3>1, PrunedSelf
    <3>3. QED BY <1>1, <3>1, <3>2
  <2>3. QED BY <2>1, <2>2
<1> HIDE DEF E, F, low
<1>4. /\ F \in Seq(Nat) /\ Len(F) \in Nat /\ Len(F) <= Len(E) /\ Len(E) <= Len(T)
      /\ \A n \in 1 .. Len(F) : F[n] = E[Len(E) - Len(F) + n]
      /\ \A n \in 1 .. Len(E) : E[n] = T[Len(T) - Len(E) + n]
  BY <1>3, LenProperties DEF Pruned, E
<1>5. ASSUME NEW n \in 1 .. Len(F) PROVE F[n] = T[Len(T) - Len(F) + n]
  <2>1. /\ Len(E) - Len(F) + n \in 1 .. Len(E)
        /\ Len(T) - Len(E) + (Len(E) - Len(F) + n) = Len(T) - Len(F) + n
    BY <1>1, <1>2, <1>4
  <2>2. QED BY <1>4, <2>1
<1>6. ASSUME NEW n \in 1 .. Len(F) PROVE F[n] > low
  <2>1. /\ 1 \in 1 .. Len(F) /\ Len(T) - Len(F) + 1 \in 1 .. Len(T)
        /\ Len(T) - Len(F) + n \in 1 .. Len(T) /\ Len(T) - Len(F) + 1 <= Len(T) - Len(F) + n
    <3>1. Len(T) \in Nat /\ Len(E) \in Nat /\ Len(F) \in Nat /\ Len(F) <= Len(T)
      BY <1>1, <1>2, <1>4
    <3>2. QED BY <3>1
  <2>2. T[Len(T) - Len(F) + 1] <= T[Len(T) - Len(F) + n]
    BY <2>1 DEF Ascending
  <2>3. F[1] <= F[n] /\ F[1] \in Nat /\ F[n] \in Nat
    BY <1>1, <1>5, <2>1, <2>2
  <2>4. F[1] > low
    BY <1>3, <1>4, <2>1
  <2>5. QED BY <1>1, <2>3, <2>4
<1>7. QED BY <1>3, <1>4, <1>1, <1>2, <1>5, <1>6 DEF E, F, low

(* The length of a history's recent part, and the part itself.             *)
LEMMA RecentPart ==
  ASSUME NEW T \in Seq(Nat), NEW window \in Nat, clock \in Nat, NEW F \in Seq(Nat),
         Len(F) <= Len(T),
         \A n \in 1 .. Len(F) : F[n] = T[Len(T) - Len(F) + n] /\ F[n] > clock - window
  PROVE  /\ Len(Recent(T, window)) \in Nat /\ Len(Recent(T, window)) >= Len(F)
         /\ (\A n \in 1 .. Len(T) - Len(F) : T[n] <= clock - window) => Recent(T, window) = F
<1> DEFINE low == clock - window  d == Len(T) - Len(F)
           Old == {n \in DOMAIN T : T[n] <= low}  old == Cardinality(Old)
<1>1. /\ Len(T) \in Nat /\ Len(F) \in Nat /\ d \in Nat /\ low \in Int /\ DOMAIN T = 1 .. Len(T)
      /\ \A n \in 1 .. Len(T) : T[n] \in Nat
  BY LenProperties, ElementOfSeq
<1>2. Old \subseteq 1 .. d
  <2> SUFFICES ASSUME NEW n \in 1 .. Len(T), T[n] <= low, ~ (n \in 1 .. d) PROVE FALSE
    BY <1>1
  <2>1. n - d \in 1 .. Len(F) /\ d + (n - d) = n
    BY <1>1
  <2>2. F[n - d] = T[n] /\ F[n - d] > low
    BY <2>1
  <2>3. QED BY <1>1, <2>2
<1>3. IsFiniteSet(1 .. d) /\ Cardinality(1 .. d) = d
  <2>1. 1 \in Int /\ d \in Int
    BY <1>1
  <2>2. IsFiniteSet(1 .. d) /\ Cardinality(1 .. d) = IF 1 > d THEN 0 ELSE d - 1 + 1
    BY <2>1, FS_Interval
  <2>3. QED BY <1>1, <2>2
<1>4. old \in Nat /\ old <= d
  BY <1>2, <1>3, FS_Subset, FS_CardinalityType
<1>5. Recent(T, window) = SubSeq(T, old + 1, Len(T))
  BY DEF Recent
<1> HIDE DEF old, low
<1>6. /\ SubSeq(T, old + 1, Len(T)) \in Seq(Nat)
      /\ Len(SubSeq(T, old + 1, Len(T))) = Len(T) - old
      /\ \A n \in 1 .. Len(T) - old : SubSeq(T, old + 1, Len(T))[n] = T[old + n]
  <2>1. /\ SubSeq(T, old + 1, Len(T)) \in Seq(Nat)
        /\ Len(SubSeq(T, old + 1, Len(T))) =
             IF old + 1 <= Len(T) THEN Len(T) - (old + 1) + 1 ELSE 0
        /\ \A n \in 1 .. Len(T) - (old + 1) + 1 : SubSeq(T, old + 1, Len(T))[n] = T[(old + 1) + n - 1]
    <3>1. \A n \in old + 1 .. Len(T) : T[n] \in Nat
      BY <1>1, <1>4
    <3>2. QED BY <1>1, <1>4, <3>1, SubSeqProperties
  <2>2. old \in Nat /\ old <= Len(T) /\ Len(T) \in Nat
    BY <1>1, <1>4
  <2>3. \A n \in 1 .. Len(T) - old : (old + 1) + n - 1 = old + n
    BY <2>2
  <2>4. QED BY <2>1, <2>2, <2>3
<1>7. Len(Recent(T, window)) \in Nat /\ Len(Recent(T, window)) >= Len(F)
  <2>1. Len(Recent(T, window)) = Len(T) - old
    BY <1>5, <1>6
  <2>2. QED BY <1>1, <1>4, <2>1
<1>8. ASSUME \A n \in 1 .. d : T[n] <= low PROVE Recent(T, window) = F
  <2>1. Old = 1 .. d
    BY <1>1, <1>2, <1>8
  <2>2. old = d
    BY <1>3, <2>1 DEF old
  <2>3. Len(Recent(T, window)) = Len(F)
    BY <1>1, <1>5, <1>6, <2>2
  <2>4. ASSUME NEW n \in 1 .. Len(F) PROVE Recent(T, window)[n] = F[n]
    BY <1>1, <1>5, <1>6, <2>2
  <2>5. QED BY <1>5, <1>6, <2>3, <2>4, SeqEqual
<1>9. QED BY <1>7, <1>8 DEF low
------------------------------------------------------------------------------
(* WHAT ONE STEP DOES.                                                     *)

LEMMA RequestMoves ==
  ASSUME GateInv, RequestInv, NEW r \in Request, NEW label, pc' = [pc EXCEPT ![r] = label],
         req' = req,
         \/ pc[r] \in SignInPc /\ label \in SignInPc
         \/ pc[r] \in RegisterPc /\ label \in RegisterPc
  PROVE  RequestInv'
<1>1. pc \in [Request -> Pc] /\ SignInPc \cap RegisterPc = {}
  BY DEF GateInv, SignInPc, RegisterPc
<1>2. req' \in [Request -> {NoRequest} \cup SignInRequest \cup RegisterRequest]
  BY DEF RequestInv
<1>3. ASSUME NEW q \in Request
      PROVE  /\ pc'[q] \in SignInPc => req'[q] \in SignInRequest
             /\ pc'[q] \in RegisterPc => req'[q] \in RegisterRequest
  <2>1. CASE q # r
    BY <1>1, <2>1 DEF RequestInv
  <2>2. CASE q = r
    BY <1>1, <2>2 DEF RequestInv
  <2>3. QED BY <2>1, <2>2
<1>4. QED BY <1>2, <1>3 DEF RequestInv

LEMMA RequestIs ==
  ASSUME GateInv, RequestInv, NEW r \in Request, NEW label, pc' = [pc EXCEPT ![r] = label],
         NEW request \in {NoRequest} \cup SignInRequest \cup RegisterRequest,
         req' = [req EXCEPT ![r] = request],
         label \in SignInPc => request \in SignInRequest,
         label \in RegisterPc => request \in RegisterRequest
  PROVE  RequestInv'
<1>1. pc \in [Request -> Pc] /\ req \in [Request -> {NoRequest} \cup SignInRequest \cup RegisterRequest]
  BY DEF GateInv, RequestInv
<1>2. req' \in [Request -> {NoRequest} \cup SignInRequest \cup RegisterRequest]
  BY <1>1
<1>3. ASSUME NEW q \in Request
      PROVE  /\ pc'[q] \in SignInPc => req'[q] \in SignInRequest
             /\ pc'[q] \in RegisterPc => req'[q] \in RegisterRequest
  <2>1. CASE q # r
    BY <1>1, <2>1 DEF RequestInv
  <2>2. CASE q = r
    BY <1>1, <2>2
  <2>3. QED BY <2>1, <2>2
<1>4. QED BY <1>2, <1>3 DEF RequestInv

LEMMA RequestReturns ==
  ASSUME GateInv, RequestInv, NEW r \in Request, Answer(r)
  PROVE  RequestInv'
<1>1. "idle" \notin SignInPc /\ "idle" \notin RegisterPc
  BY DEF SignInPc, RegisterPc
<1>2. pc' = [pc EXCEPT ![r] = "idle"] /\ req' = [req EXCEPT ![r] = NoRequest]
  BY DEF Answer
<1>3. QED BY <1>1, <1>2, RequestIs

LEMMA RequestsStay ==
  ASSUME RequestInv, UNCHANGED <<pc, req>>
  PROVE  RequestInv'
BY DEF RequestInv

LEMMA SignInKeepsRequests ==
  ASSUME GateInv, RequestInv, NEW r \in Request, SignIn(r)
  PROVE  RequestInv'
<1>1. ASSUME NEW i \in Identifier, Arrive(r, "allowGlobal", [NoRequest EXCEPT !.id = i])
      PROVE  RequestInv'
  <2> DEFINE request == [NoRequest EXCEPT !.id = i]
  <2>1. request = [id |-> i, username |-> None, email |-> None] /\ request \in SignInRequest
    BY DEF NoRequest, SignInRequest
  <2>2. pc' = [pc EXCEPT ![r] = "allowGlobal"] /\ req' = [req EXCEPT ![r] = request]
    BY <1>1 DEF Arrive
  <2>3. "allowGlobal" \notin RegisterPc
    BY DEF RegisterPc
  <2> HIDE DEF request
  <2>4. QED BY <2>1, <2>2, <2>3, RequestIs
<1>2. CASE \/ Goto(r, "checkIdentifier") /\ pc[r] = "allowGlobal"
           \/ Goto(r, "acquireSignIn") /\ pc[r] = "checkIdentifier"
           \/ (Goto(r, "verify") \/ Goto(r, "verifyDummy")) /\ pc[r] = "findUser"
           \/ (Goto(r, "createSession") \/ Goto(r, "recordFailure")) /\ pc[r] = "verify"
           \/ Goto(r, "recordFailure") /\ pc[r] = "verifyDummy"
           \/ Goto(r, "resetFailures") /\ pc[r] = "createSession"
  <2>1. PICK label \in SignInPc : Goto(r, label) /\ pc[r] \in SignInPc
    BY <1>2 DEF SignInPc
  <2>2. QED BY <2>1, RequestMoves DEF Goto
<1>3. CASE TryAcquire(r, "findUser") /\ pc[r] = "acquireSignIn"
  <2>1. CASE slots < Capacity
    <3>1. pc' = [pc EXCEPT ![r] = "findUser"] /\ req' = req
      BY <1>3, <2>1 DEF TryAcquire
    <3>2. QED BY <1>3, <3>1, RequestMoves DEF SignInPc
  <2>2. CASE ~ (slots < Capacity)
    BY <1>3, <2>2, RequestReturns DEF TryAcquire
  <2>3. QED BY <2>1, <2>2
<1>4. CASE Answer(r)
  BY <1>4, RequestReturns
<1>5. QED BY <1>1, <1>2, <1>3, <1>4 DEF SignIn, AllowGlobal, CheckIdentifier, AcquireSignIn,
                FindUser, Verify, VerifyDummy, RecordFailure, CreateSession, ResetFailures

LEMMA RegisterKeepsRequests ==
  ASSUME GateInv, RequestInv, NEW r \in Request, Register(r)
  PROVE  RequestInv'
<1>1. ASSUME NEW u \in Username, NEW e \in Email,
             Arrive(r, "allowRegister", [NoRequest EXCEPT !.username = u, !.email = e])
      PROVE  RequestInv'
  <2> DEFINE request == [NoRequest EXCEPT !.username = u, !.email = e]
  <2>1. request \in RegisterRequest
    <3>1. request = [[NoRequest EXCEPT !.username = u] EXCEPT !.email = e]
      OBVIOUS
    <3>2. [NoRequest EXCEPT !.username = u] = [id |-> None, username |-> u, email |-> None]
      BY DEF NoRequest
    <3>3. [[id |-> None, username |-> u, email |-> None] EXCEPT !.email = e]
            = [id |-> None, username |-> u, email |-> e]
      OBVIOUS
    <3>4. request = [id |-> None, username |-> u, email |-> e]
      BY <3>1, <3>2, <3>3
    <3>5. QED BY <3>4 DEF RegisterRequest
  <2>2. pc' = [pc EXCEPT ![r] = "allowRegister"] /\ req' = [req EXCEPT ![r] = request]
    BY <1>1 DEF Arrive
  <2>3. "allowRegister" \notin SignInPc
    BY DEF SignInPc
  <2> HIDE DEF request
  <2>4. QED BY <2>1, <2>2, <2>3, RequestIs
<1>2. CASE \/ Goto(r, "acquireRegister") /\ pc[r] = "allowRegister"
           \/ Goto(r, "createUser") /\ pc[r] = "hash"
  <2>1. PICK label \in RegisterPc : Goto(r, label) /\ pc[r] \in RegisterPc
    BY <1>2 DEF RegisterPc
  <2>2. QED BY <2>1, RequestMoves DEF Goto
<1>3. CASE TryAcquire(r, "hash") /\ pc[r] = "acquireRegister"
  <2>1. CASE slots < Capacity
    <3>1. pc' = [pc EXCEPT ![r] = "hash"] /\ req' = req
      BY <1>3, <2>1 DEF TryAcquire
    <3>2. QED BY <1>3, <3>1, RequestMoves DEF RegisterPc
  <2>2. CASE ~ (slots < Capacity)
    BY <1>3, <2>2, RequestReturns DEF TryAcquire
  <2>3. QED BY <2>1, <2>2
<1>4. CASE Answer(r)
  BY <1>4, RequestReturns
<1>5. QED BY <1>1, <1>2, <1>3, <1>4 DEF Register, AllowRegister, AcquireRegister, Hash, CreateUser

(* What becomes of an identifier's failures and of its bucket in one step. *)
Untouched(i) ==
  /\ failures'[i] = failures[i]
  /\ Lessened(buckets, buckets', FailureKey[i], clock)

Evicted(i) ==
  /\ failures'[i] = failures[i]
  /\ Live(buckets, FailureKey[i], clock) /\ FailureKey[i] \notin DOMAIN buckets'
  /\ \A r \in Request : pc[r] = "resetFailures" => pc'[r] = "resetFailures"

Failed(i) ==
  /\ failures'[i] = Newest(Append(failures[i], clock), Limit[FailureKey[i]] + 1)
  /\ Gained(buckets, buckets', FailureKey[i], clock)

Cleared(i) == failures'[i] = <<>> /\ FailureKey[i] \notin DOMAIN buckets'

StoreStep ==
  /\ BucketsOK(buckets') /\ clock' = clock
  /\ History(failures') /\ users' \subseteq User
  /\ \A i \in Identifier : Untouched(i) \/ Evicted(i) \/ Failed(i) \/ Cleared(i)

LEMMA KeysDiffer ==
  ASSUME NEW i \in Identifier, NEW j \in Identifier
  PROVE  /\ FailureKey[i] \in Key /\ RegisterKey[j] \in Key
         /\ GlobalLogin \in Key /\ GlobalRegister \in Key
         /\ FailureKey[i] # RegisterKey[j]
         /\ FailureKey[i] # GlobalLogin /\ FailureKey[i] # GlobalRegister
         /\ i # j => FailureKey[i] # FailureKey[j]
<1>1. FailureKey[i] # RegisterKey[j] /\ (i # j => FailureKey[i] # FailureKey[j])
  <2>1. \A x, y \in Identifier : FailureKey[x] # RegisterKey[y]
    BY KeysAssumption
  <2>2. \A x, y \in Identifier : x # y => FailureKey[x] # FailureKey[y]
    BY KeysAssumption
  <2>3. QED BY <2>1, <2>2
<1>2. {FailureKey[i], RegisterKey[i]} \cap {GlobalLogin, GlobalRegister} = {}
  BY KeysAssumption
<1>3. /\ FailureKey[i] \in Key /\ RegisterKey[j] \in Key
      /\ {GlobalLogin, GlobalRegister} \subseteq Key
  BY KeysAssumption
<1>4. QED BY <1>1, <1>2, <1>3

LEMMA HistoryExcept ==
  ASSUME NEW f, History(f), NEW x, NEW y
  PROVE  DOMAIN f = Identifier /\ History([f EXCEPT ![x] = y])
<1>1. DOMAIN f = Identifier
  BY DEF History
<1>2. [f EXCEPT ![x] = y] = [i \in Identifier |-> [f EXCEPT ![x] = y][i]]
  BY <1>1
<1>3. QED BY <1>1, <1>2 DEF History

LEMMA StoreUntouched ==
  ASSUME IInv, UNCHANGED <<clock, buckets, failures>>, users' \subseteq User
  PROVE  StoreStep
<1>1. ASSUME NEW i \in Identifier PROVE Untouched(i)
  <2>1. FailureKey[i] \in Key /\ clock \in Nat
    BY KeysAssumption, BoundAssumption DEF IInv
  <2>2. Lessened(buckets, buckets, FailureKey[i], clock)
    BY <2>1, LessenedSelf DEF IInv
  <2>3. QED BY <2>2 DEF Untouched
<1>2. QED BY <1>1 DEF StoreStep, IInv

(* A call that looked, or was refused.                                     *)
LEMMA StoreLookedAt ==
  ASSUME IInv, NEW k \in Key,
         \/ Full(buckets, k, clock) /\ buckets' = Seen(buckets, k, clock)
         \/ buckets' = AfterCheck(buckets, k, clock),
         UNCHANGED <<clock, failures, users>>
  PROVE  StoreStep
<1>1. BucketsOK(buckets) /\ clock \in Nat
  BY BoundAssumption DEF IInv
<1>2. BucketsOK(buckets') /\ \A j \in Key : Lessened(buckets, buckets', j, clock)
  BY <1>1, Looking
<1>3. ASSUME NEW i \in Identifier PROVE Untouched(i)
  BY <1>2, KeysAssumption DEF Untouched
<1>4. QED BY <1>2, <1>3 DEF StoreStep, IInv

(* A call that was admitted, on keys that count no failures.               *)
LEMMA StoreAdmits ==
  ASSUME IInv, NEW keys \in SUBSET Key, Cardinality(keys) <= MaxKeys,
         \A k \in keys : ~ Full(buckets, k, clock),
         buckets' = Recorded(MakeRoom(buckets, keys, clock), keys, clock),
         UNCHANGED <<clock, users>>, History(failures'),
         \A i \in Identifier : IF FailureKey[i] \in keys
            THEN failures'[i] = Newest(Append(failures[i], clock), Limit[FailureKey[i]] + 1)
            ELSE failures'[i] = failures[i],
         NEW r \in Request, NEW label, pc[r] # "resetFailures", pc' = [pc EXCEPT ![r] = label]
  PROVE  StoreStep
<1>1. BucketsOK(buckets) /\ clock \in Nat /\ pc \in [Request -> Pc]
  BY BoundAssumption DEF IInv, GateInv
<1>2. /\ BucketsOK(buckets')
      /\ \A k \in keys : Gained(buckets, buckets', k, clock)
      /\ \A k \in Key \ keys : \/ Lessened(buckets, buckets', k, clock)
                               \/ Live(buckets, k, clock) /\ k \notin DOMAIN buckets'
  BY <1>1, Admitting
<1>3. \A q \in Request : pc[q] = "resetFailures" => pc'[q] = "resetFailures"
  BY <1>1
<1>4. ASSUME NEW i \in Identifier
      PROVE  Untouched(i) \/ Evicted(i) \/ Failed(i)
  <2>1. FailureKey[i] \in Key
    BY KeysAssumption
  <2>2. CASE FailureKey[i] \in keys
    BY <1>2, <2>2 DEF Failed
  <2>3. CASE FailureKey[i] \notin keys
    BY <1>2, <1>3, <2>1, <2>3 DEF Untouched, Evicted
  <2>4. QED BY <2>2, <2>3
<1>5. QED BY <1>2, <1>4 DEF StoreStep, IInv

LEMMA AtMostThree ==
  ASSUME NEW x, NEW y, NEW z
  PROVE  Cardinality({x, y, z}) <= MaxKeys /\ Cardinality({x}) <= MaxKeys
<1>1. IsFiniteSet({x}) /\ Cardinality({x}) = 1
  BY FS_Singleton
<1>2. IsFiniteSet({x} \cup {y}) /\ Cardinality({x} \cup {y}) \in {1, 2}
  BY <1>1, FS_AddElement
<1>3. Cardinality(({x} \cup {y}) \cup {z}) \in {1, 2, 3}
  BY <1>2, FS_AddElement
<1>4. {x, y, z} = ({x} \cup {y}) \cup {z}
  OBVIOUS
<1>5. QED BY <1>1, <1>3, <1>4, RoomAssumption, MaxKeysAssumption

LEMMA AnswerMoves ==
  ASSUME NEW r \in Request, Answer(r) PROVE pc' = [pc EXCEPT ![r] = "idle"]
BY DEF Answer

LEMMA AllowGlobalStore ==
  ASSUME IInv, NEW r \in Request, AllowGlobal(r)
  PROVE  StoreStep
<1>1. GlobalLogin \in Key /\ \A i \in Identifier : FailureKey[i] # GlobalLogin
  BY KeysAssumption
<1>2. UNCHANGED <<clock, failures, users>> /\ pc[r] = "allowGlobal"
      /\ buckets' = AfterAllow(buckets, GlobalLogin, clock)
  BY DEF AllowGlobal
<1>3. CASE Full(buckets, GlobalLogin, clock)
  BY <1>1, <1>2, <1>3, StoreLookedAt DEF AfterAllow
<1>4. CASE ~ Full(buckets, GlobalLogin, clock)
  <2> DEFINE keys == {GlobalLogin}
  <2>1. keys \in SUBSET Key /\ Cardinality(keys) <= MaxKeys
    BY <1>1, AtMostThree
  <2>2. buckets' = Recorded(MakeRoom(buckets, keys, clock), keys, clock)
    BY <1>2, <1>4 DEF AfterAllow
  <2>3. pc' = [pc EXCEPT ![r] = "checkIdentifier"]
    BY <1>4 DEF AllowGlobal, Goto
  <2>4. /\ History(failures')
        /\ \A i \in Identifier : FailureKey[i] \notin keys /\ failures'[i] = failures[i]
    BY <1>1, <1>2 DEF IInv
  <2>5. \A k \in keys : ~ Full(buckets, k, clock)
    BY <1>4
  <2> HIDE DEF keys
  <2>6. QED BY <1>2, <2>1, <2>2, <2>3, <2>4, <2>5, StoreAdmits
<1>5. QED BY <1>3, <1>4

LEMMA AllowRegisterStore ==
  ASSUME IInv, NEW r \in Request, AllowRegister(r)
  PROVE  StoreStep
<1> DEFINE keys == {GlobalRegister, RegisterKey[req[r].username], RegisterKey[req[r].email]}
<1>1. /\ UNCHANGED <<clock, failures, users>> /\ pc[r] = "allowRegister"
      /\ buckets' = AfterAllowAll(buckets, keys, clock)
      /\ Answer(r) \/ Goto(r, "acquireRegister")
  BY DEF AllowRegister
<1>2. req[r].username \in Identifier /\ req[r].email \in Identifier
  BY <1>1 DEF IInv, RequestInv, RegisterPc, RegisterRequest, Identifier
<1>3. /\ keys \in SUBSET Key /\ Cardinality(keys) <= MaxKeys
      /\ \A i \in Identifier : FailureKey[i] \notin keys
  <2>1. Cardinality(keys) <= MaxKeys
    BY AtMostThree
  <2>2. keys \in SUBSET Key
    BY <1>2, KeysDiffer
  <2>3. \A i \in Identifier : FailureKey[i] \notin keys
    BY <1>2, KeysDiffer
  <2>4. QED BY <2>1, <2>2, <2>3
<1> HIDE DEF keys
<1>4. CASE \E k \in keys : Full(buckets, k, clock)
  <2>1. buckets' = buckets
    BY <1>1, <1>4 DEF AfterAllowAll
  <2>2. QED BY <1>1, <2>1, StoreUntouched DEF IInv
<1>5. CASE ~ \E k \in keys : Full(buckets, k, clock)
  <2>1. buckets' = Recorded(MakeRoom(buckets, keys, clock), keys, clock)
    BY <1>1, <1>5 DEF AfterAllowAll
  <2>2. \E label : pc' = [pc EXCEPT ![r] = label]
    BY <1>1, AnswerMoves DEF Goto
  <2>3. /\ History(failures')
        /\ \A i \in Identifier : failures'[i] = failures[i]
    BY <1>1 DEF IInv
  <2>4. QED BY <1>1, <1>3, <1>5, <2>1, <2>2, <2>3, StoreAdmits
<1>6. QED BY <1>4, <1>5

LEMMA RecordFailureStore ==
  ASSUME IInv, NEW r \in Request, RecordFailure(r)
  PROVE  StoreStep
<1> DEFINE id == req[r].id  key == FailureKey[id]
<1>1. /\ UNCHANGED <<clock, users>> /\ pc[r] = "recordFailure"
      /\ buckets' = AfterAllow(buckets, key, clock) /\ Answer(r)
      /\ failures' = IF Full(buckets, key, clock) THEN failures
                     ELSE [failures EXCEPT ![id] = Newest(Append(@, clock), Limit[key] + 1)]
  BY DEF RecordFailure
<1>2. id \in Identifier
  BY <1>1 DEF IInv, RequestInv, SignInPc, SignInRequest
<1> HIDE DEF id
<1>3. key \in Key
  BY <1>2, KeysAssumption
<1>4. CASE Full(buckets, key, clock)
  <2>1. buckets' = Seen(buckets, key, clock) /\ failures' = failures
    BY <1>1, <1>4 DEF AfterAllow
  <2>2. QED BY <1>1, <1>3, <1>4, <2>1, StoreLookedAt
<1>5. CASE ~ Full(buckets, key, clock)
  <2> DEFINE keys == {key}
  <2>1. keys \in SUBSET Key /\ Cardinality(keys) <= MaxKeys
    BY <1>3, AtMostThree
  <2>2. buckets' = Recorded(MakeRoom(buckets, keys, clock), keys, clock)
    BY <1>1, <1>5 DEF AfterAllow
  <2>3. History(failures) /\ DOMAIN failures = Identifier
    BY HistoryExcept DEF IInv
  <2>4. failures' = [failures EXCEPT ![id] = Newest(Append(failures[id], clock), Limit[key] + 1)]
    BY <1>1, <1>5
  <2>5. ASSUME NEW i \in Identifier
        PROVE  IF FailureKey[i] \in keys
               THEN failures'[i] = Newest(Append(failures[i], clock), Limit[FailureKey[i]] + 1)
               ELSE failures'[i] = failures[i]
    <3>1. CASE i = id
      BY <1>2, <2>3, <2>4, <3>1
    <3>2. CASE i # id
      <4>1. FailureKey[i] \notin keys
        BY <1>2, <3>2, KeysDiffer
      <4>2. failures'[i] = failures[i]
        BY <2>3, <2>4, <3>2
      <4>3. QED BY <4>1, <4>2
    <3>3. QED BY <3>1, <3>2
  <2>6. History(failures')
    BY <2>3, <2>4, HistoryExcept
  <2>7. pc' = [pc EXCEPT ![r] = "idle"]
    BY <1>1, AnswerMoves
  <2>8. \A k \in keys : ~ Full(buckets, k, clock)
    BY <1>5
  <2> HIDE DEF keys, key
  <2>9. QED BY <1>1, <2>1, <2>2, <2>5, <2>6, <2>7, <2>8, StoreAdmits
<1>6. QED BY <1>4, <1>5

LEMMA ResetFailuresStore ==
  ASSUME IInv, NEW r \in Request, ResetFailures(r)
  PROVE  StoreStep
<1> DEFINE id == req[r].id  key == FailureKey[id]
<1>1. /\ UNCHANGED <<clock, users>> /\ pc[r] = "resetFailures"
      /\ buckets' = Without(buckets, {key})
      /\ failures' = [failures EXCEPT ![id] = <<>>]
  BY DEF ResetFailures
<1>2. id \in Identifier
  BY <1>1 DEF IInv, RequestInv, SignInPc, SignInRequest
<1>3. /\ BucketsOK(buckets) /\ clock \in Nat
      /\ History(failures) /\ DOMAIN failures = Identifier
  <2>1. History(failures)
    BY DEF IInv
  <2>2. DOMAIN failures = Identifier
    BY <2>1, HistoryExcept
  <2>3. QED BY <2>1, <2>2, BoundAssumption DEF IInv
<1> HIDE DEF id
<1>4. /\ Shrunk(buckets, buckets', clock) /\ DOMAIN buckets' = DOMAIN buckets \ {key}
      /\ BucketsOK(buckets')
  <2>1. /\ Shrunk(buckets, Without(buckets, {key}), clock)
        /\ DOMAIN Without(buckets, {key}) = DOMAIN buckets \ {key}
    BY <1>3, ForgettingShrinks
  <2>2. QED BY <1>1, <2>1 DEF Shrunk
<1>5. ASSUME NEW i \in Identifier PROVE Untouched(i) \/ Cleared(i)
  <2>1. CASE i = id
    BY <1>1, <1>2, <1>3, <1>4, <2>1 DEF Cleared
  <2>2. CASE i # id
    <3>1. FailureKey[i] # key /\ FailureKey[i] \in Key
      BY <1>2, <2>2, KeysDiffer
    <3>2. failures'[i] = failures[i]
      BY <1>1, <1>3, <2>2
    <3>3. Lessened(buckets, buckets', FailureKey[i], clock)
      <4>1. CASE FailureKey[i] \in DOMAIN buckets
        BY <1>3, <1>4, <3>1, <4>1, ShrinkingLessens
      <4>2. CASE FailureKey[i] \notin DOMAIN buckets
        <5>1. Events(buckets', FailureKey[i]) = Events(buckets, FailureKey[i])
          BY <1>4, <4>2 DEF Events
        <5>2. Lessened(buckets, buckets, FailureKey[i], clock)
          BY <1>3, <3>1, LessenedSelf
        <5>3. QED BY <5>1, <5>2 DEF Lessened
      <4>3. QED BY <4>1, <4>2
    <3>4. QED BY <3>2, <3>3 DEF Untouched
  <2>3. QED BY <2>1, <2>2
<1>6. History(failures')
  BY <1>1, <1>3, HistoryExcept
<1>7. QED BY <1>1, <1>4, <1>5, <1>6 DEF StoreStep, IInv

LEMMA CallStore ==
  ASSUME IInv, NEW r \in Request, SignIn(r) \/ Register(r)
  PROVE  StoreStep
<1>1. users \subseteq User
  BY DEF IInv
<1>2. CASE UNCHANGED <<clock, buckets, failures>> /\ users' = users
  BY <1>1, <1>2, StoreUntouched
<1>3. CASE AllowGlobal(r)
  BY <1>3, AllowGlobalStore
<1>4. CASE CheckIdentifier(r)
  <2> DEFINE key == FailureKey[req[r].id]
  <2>1. /\ UNCHANGED <<clock, failures, users>> /\ pc[r] = "checkIdentifier"
        /\ buckets' = AfterCheck(buckets, key, clock)
    BY <1>4 DEF CheckIdentifier
  <2>2. req[r].id \in Identifier
    BY <2>1 DEF IInv, RequestInv, SignInPc, SignInRequest
  <2>3. key \in Key
    BY <2>2, KeysDiffer
  <2> HIDE DEF key
  <2>4. QED BY <2>1, <2>3, StoreLookedAt
<1>5. CASE RecordFailure(r)
  BY <1>5, RecordFailureStore
<1>6. CASE ResetFailures(r)
  BY <1>6, ResetFailuresStore
<1>7. CASE AllowRegister(r)
  BY <1>7, AllowRegisterStore
<1>8. CASE CreateUser(r)
  <2>1. UNCHANGED <<clock, buckets, failures>> /\ pc[r] = "createUser"
    BY <1>8 DEF CreateUser
  <2>2. req[r].username \in Username /\ req[r].email \in Email
    BY <2>1 DEF IInv, RequestInv, RegisterPc, RegisterRequest
  <2>3. users' \subseteq User
    BY <1>1, <1>8, <2>2 DEF CreateUser, User
  <2>4. QED BY <2>1, <2>3, StoreUntouched
<1>9. QED BY <1>2, <1>3, <1>4, <1>5, <1>6, <1>7, <1>8
          DEF SignIn, Register, Arrive, AcquireSignIn, AcquireRegister, TryAcquire, FindUser,
              Verify, VerifyDummy, CreateSession, Hash

------------------------------------------------------------------------------
(* THE INVARIANTS.                                                         *)

LEMMA Initially ==
  ASSUME Init PROVE IInv /\ KnowsAll
<1>1. GateInv
  <2>1. Inside = {} /\ pc \in [Request -> Pc]
    BY DEF Init, Inside, Guarded, Pc
  <2>2. QED BY <2>1, FS_EmptySet, CapacityAssumption DEF Init, GateInv
<1>2. RequestInv
  BY DEF Init, RequestInv, SignInPc, RegisterPc
<1>3. BucketsOK(buckets) /\ DOMAIN buckets = {}
  <2>1. DOMAIN buckets = {} /\ Cardinality({}) = 0
    BY FS_EmptySet DEF Init
  <2>2. QED BY <2>1, MaxKeysAssumption DEF BucketsOK
<1>4. ASSUME NEW i \in Identifier
      PROVE  /\ Ascending(failures[i], clock) /\ Knows(i, clock)
             /\ Knows(i, clock - Window[FailureKey[i]])
  <2>1. failures[i] = <<>> /\ Events(buckets, FailureKey[i]) = <<>> /\ clock = 0
    BY <1>3 DEF Init, Events
  <2>2. <<>> \in Seq(0 .. MaxTime) /\ <<>> \in Seq(Nat) /\ Len(<<>>) = 0
    BY EmptySeq
  <2>3. clock - Window[FailureKey[i]] \in Int
    BY <2>1, KeysDiffer, RuleTypes
  <2>4. Ascending(<<>>, clock)
    BY <2>2 DEF Ascending
  <2>5. Pruned(<<>>, <<>>, clock) /\ Pruned(<<>>, <<>>, clock - Window[FailureKey[i]])
    BY <2>1, <2>3, NothingIsKnown
  <2>6. QED BY <2>1, <2>4, <2>5 DEF Knows
<1>5. clock \in 0 .. MaxTime /\ users \subseteq User /\ History(failures)
  BY BoundAssumption DEF Init, History
<1>6. QED BY <1>1, <1>2, <1>3, <1>4, <1>5 DEF IInv, KnowsAll

(* A step that evicts nothing live keeps what a bucket knows, and any step *)
(* keeps that it makes nothing up.                                         *)
LEMMA KnowingStep ==
  ASSUME IInv, StoreStep, NEW i \in Identifier,
         NEW c \in Int, clock - Window[FailureKey[i]] <= c, Knows(i, c),
         c = clock \/ ~ Evicted(i)
  PROVE  /\ Ascending(failures'[i], clock)
         /\ Pruned(failures'[i], Events(buckets', FailureKey[i]), c)
<1> DEFINE T == failures[i]  k == FailureKey[i]
<1>1. /\ BucketsOK(buckets) /\ k \in Key /\ clock \in 0 .. MaxTime /\ clock \in Nat
      /\ Ascending(T, clock) /\ Pruned(T, Events(buckets, k), c)
  BY KeysDiffer, BoundAssumption DEF IInv, Knows
<1>2. T \in Seq(Nat) /\ Limit[k] \in Nat /\ \A n \in 1 .. Len(T) : T[n] <= clock
  BY <1>1, AscendingTypes, RuleTypes DEF Ascending
<1>3. CASE Untouched(i)
  <2>1. Pruned(T, Events(buckets', k), c)
    BY <1>1, <1>2, <1>3, KeepsKnowing DEF Untouched
  <2>2. QED BY <1>1, <1>3, <2>1 DEF Untouched
<1>4. CASE Evicted(i)
  <2>1. c = clock /\ failures'[i] = T /\ Events(buckets', k) = <<>>
    BY <1>4 DEF Evicted, Events
  <2>2. Pruned(T, <<>>, clock)
    BY <1>1, <1>2, LosesAll
  <2>3. QED BY <1>1, <2>1, <2>2
<1>5. CASE Failed(i)
  <2>1. Pruned(Newest(Append(T, clock), Limit[k] + 1), Events(buckets', k), c)
    BY <1>1, <1>2, <1>5, LearnsOne DEF Failed
  <2>2. Ascending(Newest(Append(T, clock), Limit[k] + 1), clock)
    BY <1>1, <1>2, AscendingAppend
  <2>3. QED BY <1>5, <2>1, <2>2 DEF Failed
<1>6. CASE Cleared(i)
  <2>1. failures'[i] = <<>> /\ Events(buckets', k) = <<>>
    BY <1>6 DEF Cleared, Events
  <2>2. <<>> \in Seq(0 .. MaxTime) /\ <<>> \in Seq(Nat) /\ Len(<<>>) = 0
    BY EmptySeq
  <2>3. Ascending(<<>>, clock) /\ Pruned(<<>>, <<>>, c)
    BY <2>2, NothingIsKnown DEF Ascending
  <2>4. QED BY <2>1, <2>3
<1>7. QED BY <1>3, <1>4, <1>5, <1>6 DEF StoreStep

(* Time passes: what has been lost is only longer ago.                     *)
LEMMA KnowingLater ==
  ASSUME IInv, Tick, NEW i \in Identifier, NEW c \in Int, Knows(i, c)
  PROVE  /\ Ascending(failures[i], clock + 1)
         /\ Pruned(failures[i], Events(buckets, FailureKey[i]), c + 1)
<1>1. /\ clock \in 0 .. MaxTime /\ clock + 1 \in 0 .. MaxTime /\ clock <= clock + 1
      /\ Ascending(failures[i], clock)
  BY BoundAssumption DEF IInv, Tick
<1>2. failures[i] \in Seq(Nat)
  BY <1>1, AscendingTypes
<1>3. c + 1 \in Int /\ c <= c + 1
  OBVIOUS
<1>4. QED BY <1>1, <1>2, <1>3, AscendingLater, PrunedMore DEF Knows

LEMMA Stays ==
  ASSUME IInv, [Next]_vars PROVE IInv'
<1>1. CASE Tick
  <2>1. /\ UNCHANGED <<buckets, slots, users, pc, req, failures>>
        /\ clock' = clock + 1 /\ clock' \in 0 .. MaxTime /\ clock \in Int
    BY <1>1, BoundAssumption DEF Tick, IInv
  <2>2. GateInv' /\ RequestInv'
    BY <2>1, GateUntouched, RequestsStay DEF IInv
  <2>3. \A i \in Identifier : Ascending(failures[i], clock + 1)
                             /\ Pruned(failures[i], Events(buckets, FailureKey[i]), clock + 1)
    BY <1>1, <2>1, KnowingLater DEF IInv
  <2>4. QED BY <2>1, <2>2, <2>3 DEF IInv, Knows
<1>2. CASE \E r \in Request : SignIn(r) \/ Register(r)
  <2>1. GateInv' /\ RequestInv'
    BY <1>2, SignInKeepsGate, RegisterKeepsGate, SignInKeepsRequests, RegisterKeepsRequests
       DEF IInv
  <2>2. StoreStep
    BY <1>2, CallStore
  <2>3. ASSUME NEW i \in Identifier
        PROVE  /\ Ascending(failures'[i], clock)
               /\ Pruned(failures'[i], Events(buckets', FailureKey[i]), clock)
    <3>1. clock \in Int /\ clock - Window[FailureKey[i]] <= clock /\ Knows(i, clock)
      <4>1. clock \in Nat /\ Knows(i, clock)
        BY BoundAssumption DEF IInv
      <4>2. Window[FailureKey[i]] \in Nat
        BY <4>1, KeysDiffer, RuleTypes
      <4>3. QED BY <4>1, <4>2
    <3>2. QED BY <2>2, <3>1, KnowingStep
  <2>4. QED BY <2>1, <2>2, <2>3 DEF IInv, StoreStep, Knows
<1>3. CASE UNCHANGED vars
  <2>1. UNCHANGED <<clock, buckets, slots, users, pc, req, failures>>
    BY <1>3 DEF vars
  <2>2. GateInv' /\ RequestInv'
    BY <2>1, GateUntouched, RequestsStay DEF IInv
  <2>3. QED BY <2>1, <2>2 DEF IInv, Knows
<1>4. QED BY <1>1, <1>2, <1>3 DEF Next

(* What NothingLiveIsEvicted says of a step.                               *)
EvictsNothingLive ==
  \A k \in DOMAIN CleanupExpired(buckets, clock) \ DOMAIN buckets' :
     \E r \in Request : /\ pc[r] = "resetFailures" /\ pc'[r] = "idle"
                        /\ k = FailureKey[req[r].id]

LEMMA StaysInformed ==
  ASSUME IInv, KnowsAll, [Next]_vars, [EvictsNothingLive]_vars
  PROVE  KnowsAll'
<1>0. ASSUME NEW i \in Identifier
      PROVE  /\ clock \in Nat /\ FailureKey[i] \in Key /\ Window[FailureKey[i]] \in Nat
             /\ clock - Window[FailureKey[i]] \in Int
             /\ Knows(i, clock - Window[FailureKey[i]])
  <2>1. clock \in Nat
    BY BoundAssumption DEF IInv
  <2>2. QED BY <2>1, KeysDiffer, RuleTypes DEF KnowsAll
<1>1. CASE Tick
  <2>1. UNCHANGED <<buckets, failures>> /\ clock' = clock + 1
    BY <1>1 DEF Tick
  <2>2. ASSUME NEW i \in Identifier
        PROVE  Pruned(failures'[i], Events(buckets', FailureKey[i]), clock' - Window[FailureKey[i]])
    <3>1. Pruned(failures[i], Events(buckets, FailureKey[i]), (clock - Window[FailureKey[i]]) + 1)
      BY <1>0, <1>1, KnowingLater
    <3>2. (clock - Window[FailureKey[i]]) + 1 = clock' - Window[FailureKey[i]]
      BY <1>0, <2>1
    <3>3. QED BY <2>1, <3>1, <3>2
  <2>3. QED BY <2>2 DEF KnowsAll, Knows
<1>2. CASE (\E r \in Request : SignIn(r) \/ Register(r)) /\ EvictsNothingLive
  <2>1. StoreStep
    BY <1>2, CallStore
  <2>2. ASSUME NEW i \in Identifier
        PROVE  Pruned(failures'[i], Events(buckets', FailureKey[i]), clock - Window[FailureKey[i]])
    <3>1. ~ Evicted(i)
      <4> SUFFICES ASSUME Evicted(i) PROVE FALSE
        OBVIOUS
      <4>1. FailureKey[i] \in DOMAIN CleanupExpired(buckets, clock) \ DOMAIN buckets'
        BY <1>0, LiveKeys DEF Evicted, IInv
      <4>2. PICK r \in Request : pc[r] = "resetFailures" /\ pc'[r] = "idle"
        BY <1>2, <4>1 DEF EvictsNothingLive
      <4>3. QED BY <4>2 DEF Evicted
    <3>2. QED BY <1>0, <2>1, <3>1, KnowingStep
  <2>3. QED BY <2>1, <2>2 DEF KnowsAll, Knows, StoreStep
<1>3. CASE UNCHANGED vars
  BY <1>3 DEF vars, KnowsAll, Knows
<1>4. QED BY <1>1, <1>2, <1>3 DEF Next
------------------------------------------------------------------------------
LEMMA Always == Spec => []IInv
<1>1. Init => IInv
  BY Initially
<1>2. IInv /\ [Next]_vars => IInv'
  BY Stays
<1>3. QED BY <1>1, <1>2, PTL DEF Spec

(* The slots taken from the Argon2 gate are always exactly those of the    *)
(* requests between TryAcquire and their return (auth/handler.go:93-112    *)
(* and 199-262, auth/argon_gate.go:19), for any number of concurrent       *)
(* requests: no return path leaks a slot or frees one twice.               *)
THEOREM NoSlotIsLost == Spec => []GateIsExact
<1>1. IInv => GateIsExact
  BY DEF IInv, GateInv, GateIsExact, Inside
<1>2. QED BY <1>1, Always, PTL

(* Whatever the interleaving, every call finds the identifiers it needs,   *)
(* the shared store stays within its capacity and every bucket within its  *)
(* limit, and the gate within its slots (auth/handler.go:79-262).          *)
THEOREM AuthTypeCorrect == Spec => []TypeOK
<1>1. IInv => TypeOK
  <2> SUFFICES ASSUME IInv PROVE TypeOK
    OBVIOUS
  <2>1. slots \in 0 .. Capacity
    BY FS_CardinalityType, CapacityAssumption DEF IInv, GateInv
  <2>2. failures \in [Identifier -> Seq(0 .. MaxTime)]
    <3>1. \A i \in Identifier : failures[i] \in Seq(0 .. MaxTime)
      BY DEF IInv, Ascending
    <3>2. failures = [i \in Identifier |-> failures[i]]
      BY DEF IInv, History
    <3>3. QED BY <3>1, <3>2
  <2>3. QED BY <2>1, <2>2 DEF TypeOK, IInv, GateInv, RequestInv
<1>2. QED BY <1>1, Always, PTL

(* An identifier that checkIdentifier or recordInvalidLoginFailure refuses *)
(* (auth/handler.go:191, 244) has had its limit of invalid-credential      *)
(* answers within the window and since its last success. Nothing done for  *)
(* other identifiers, and no eviction, can put somebody over the limit.    *)
THEOREM NobodyPaysForOthers == Spec => []ThrottledForTheirOwn
<1>1. IInv => ThrottledForTheirOwn
  <2> SUFFICES ASSUME IInv, NEW i \in Identifier, Full(buckets, FailureKey[i], clock)
               PROVE  Len(Recent(failures[i], Window[FailureKey[i]])) >= Limit[FailureKey[i]]
    BY DEF ThrottledForTheirOwn
  <2> DEFINE T == failures[i]  k == FailureKey[i]  F == Counted(buckets, k, clock)
  <2>1. /\ BucketsOK(buckets) /\ k \in Key /\ clock \in 0 .. MaxTime /\ clock \in Nat
        /\ Ascending(T, clock) /\ Pruned(T, Events(buckets, k), clock)
    BY KeysDiffer, BoundAssumption DEF IInv, Knows
  <2>2. T \in Seq(Nat) /\ Len(T) \in Nat /\ Limit[k] \in Nat /\ Window[k] \in Nat
    BY <2>1, AscendingTypes, RuleTypes
  <2>3. /\ F \in Seq(Nat) /\ Len(F) \in Nat /\ Len(F) <= Len(T)
        /\ \A n \in 1 .. Len(F) : F[n] = T[Len(T) - Len(F) + n] /\ F[n] > clock - Window[k]
    <3>1. clock \in Int
      BY <2>1
    <3>2. QED BY <2>1, <2>2, <3>1, CountedAreActive
  <2>4. Len(F) >= Limit[k]
    BY DEF Full, Counted
  <2> HIDE DEF F
  <2>5. Len(Recent(T, Window[k])) \in Nat /\ Len(Recent(T, Window[k])) >= Len(F)
    BY <2>1, <2>2, <2>3, RecentPart
  <2>6. QED BY <2>2, <2>3, <2>4, <2>5
<1>2. QED BY <1>1, Always, PTL

(* The failure limiter is exact for any limits, windows and interleavings, *)
(* although sign-ins check, verify and record in separate calls            *)
(* (auth/handler.go:191-255): the bucket of an identifier counts all of    *)
(* its recent invalid-credential answers and nothing else, as long as the  *)
(* store has not had to evict a bucket that still counts something.        *)
THEOREM EveryFailureCounts == Spec /\ NothingLiveIsEvicted => []FailuresAreCounted
<1>1. IInv /\ KnowsAll => FailuresAreCounted
  <2> SUFFICES ASSUME IInv, KnowsAll, NEW i \in Identifier
               PROVE  LET F == Counted(buckets, FailureKey[i], clock)
                      IN /\ F = Recent(failures[i], Window[FailureKey[i]])
                         /\ Len(F) <= Limit[FailureKey[i]]
    BY DEF FailuresAreCounted, Counted
  <2> DEFINE T == failures[i]  k == FailureKey[i]  low == clock - Window[k]
             E == Events(buckets, k)  F == Counted(buckets, k, clock)
  <2>1. /\ BucketsOK(buckets) /\ k \in Key /\ clock \in 0 .. MaxTime /\ clock \in Nat
        /\ Ascending(T, clock) /\ Pruned(T, E, low)
    BY KeysDiffer, BoundAssumption DEF IInv, KnowsAll, Knows
  <2>2. T \in Seq(Nat) /\ Window[k] \in Nat /\ low \in Int
    BY <2>1, AscendingTypes, RuleTypes
  <2>3. /\ Pruned(E, F, low)
        /\ F \in Seq(Nat) /\ Len(F) <= Limit[k] /\ Len(F) <= Len(T)
        /\ \A n \in 1 .. Len(F) : F[n] = T[Len(T) - Len(F) + n] /\ F[n] > low
    BY <2>1, <2>2, CountedAreActive
  <2> HIDE DEF F, E
  <2>4. Pruned(T, F, low)
    BY <2>1, <2>2, <2>3, PrunedTwice
  <2>5. \A n \in 1 .. Len(T) - Len(F) : T[n] <= low
    BY <2>4 DEF Pruned
  <2>6. Recent(T, Window[k]) = F
    BY <2>1, <2>2, <2>3, <2>5, RecentPart
  <2>7. QED BY <2>3, <2>6 DEF F
<1>2. Init => KnowsAll
  BY Initially
<1>3. IInv /\ KnowsAll /\ [Next]_vars /\ [EvictsNothingLive]_vars => KnowsAll'
  BY StaysInformed
<1>4. NothingLiveIsEvicted <=> [][EvictsNothingLive]_vars
  BY DEF NothingLiveIsEvicted, EvictsNothingLive
<1>5. QED BY <1>1, <1>2, <1>3, <1>4, Always, PTL DEF Spec
=============================================================================
