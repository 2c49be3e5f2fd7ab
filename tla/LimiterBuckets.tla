---------------------------- MODULE LimiterBuckets ----------------------------
(***************************************************************************)
(* The data structure inside backend/internal/auth/limiter.go: a map from  *)
(* keys to buckets of time stamps, and what one call does to it. Modules   *)
(* that share a limiter keep the map in a variable of their own and apply  *)
(* these operators to it.                                                  *)
(*                                                                         *)
(* Every handler uses a key with one limit and one window (auth/model.go,  *)
(* parties/handler.go), so both are constants of the key here.             *)
(***************************************************************************)
EXTENDS Integers, Sequences, FiniteSets, SequencesExt

CONSTANTS
  Key,            \* bucket keys; their order stands for that of the strings
  Limit, Window,  \* LimitRule.Limit and LimitRule.Window of a key
  MaxKeys         \* maxLimiterKeys

ASSUME KeyAssumption  == Key \subseteq Nat /\ IsFiniteSet(Key)
ASSUME RuleAssumption == /\ Limit \in [Key -> Nat \ {0}]
                         /\ Window \in [Key -> Nat \ {0}]
ASSUME MaxKeysAssumption == MaxKeys \in Nat \ {0}

Bucket == [events: Seq(Nat), lastSeen: Nat]

(* At most maxLimiterKeys buckets, each with at most its limit of events   *)
(* (T-018 DESIGN.md: "event slices capped at their bucket limit").         *)
BucketsOK(bs) ==
  /\ DOMAIN bs \subseteq Key /\ Cardinality(DOMAIN bs) <= MaxKeys
  /\ \A k \in DOMAIN bs : bs[k] \in Bucket /\ Len(bs[k].events) <= Limit[k]
------------------------------------------------------------------------------
Without(f, S) == [k \in DOMAIN f \ S |-> f[k]]

(* activeEvents drops leading events only; one that is out of order stays  *)
(* until the events before it are gone.                                    *)
ActiveEvents(events, cutoff) ==
  LET firstActive == CHOOSE n \in 0 .. Len(events) :
        /\ \A i \in 1 .. n : events[i] <= cutoff
        /\ n < Len(events) => events[n + 1] > cutoff
  IN SubSeq(events, firstActive + 1, Len(events))

Newest(events, limit) ==
  SubSeq(events, IF Len(events) > limit THEN Len(events) - limit + 1 ELSE 1, Len(events))

EventsAt(bs, k, now) == Newest(ActiveEvents(bs[k].events, now - Window[k]), Limit[k])

(* Mutant: one event more than the limit.                                  *)
FullLate(bs, k, now) == k \in DOMAIN bs /\ Len(EventsAt(bs, k, now)) > Limit[k]

Full(bs, k, now) == k \in DOMAIN bs /\ Len(EventsAt(bs, k, now)) >= Limit[k]

(* retryDuration of a full bucket's first event.                           *)
RetryDuration(bs, k, now) ==
  LET wait == EventsAt(bs, k, now)[1] + Window[k] - now
  IN IF wait < 0 THEN 0 ELSE wait

(* Mutant: bucket.window is never stored, so cleanup takes it for zero.    *)
CleanupExpiredNoWindow(bs, now) ==
  LET Rest(k) == ActiveEvents(bs[k].events, now)
  IN [k \in {j \in DOMAIN bs : Rest(j) # <<>>} |-> [bs[k] EXCEPT !.events = Rest(k)]]

CleanupExpired(bs, now) ==
  LET Rest(k) == ActiveEvents(bs[k].events, now - Window[k])
  IN [k \in {j \in DOMAIN bs : Rest(j) # <<>>} |-> [bs[k] EXCEPT !.events = Rest(k)]]

(* Mutant: the most recently seen keys go first.                           *)
MostRecentlySeen(bs, protected, count) ==
  LET After(j, k) == \/ bs[j].lastSeen > bs[k].lastSeen
                     \/ bs[j].lastSeen = bs[k].lastSeen /\ j < k
      candidates == DOMAIN bs \ protected
  IN {k \in candidates : Cardinality({j \in candidates : After(j, k)}) < count}

(* The first `count` keys outside `protected` by lastSeen, then by key.    *)
LeastRecentlySeen(bs, protected, count) ==
  LET Before(j, k) == \/ bs[j].lastSeen < bs[k].lastSeen
                      \/ bs[j].lastSeen = bs[k].lastSeen /\ j < k
      candidates == DOMAIN bs \ protected
  IN {k \in candidates : Cardinality({j \in candidates : Before(j, k)}) < count}

(* makeRoomForKey and makeRoomForRules.                                    *)
MakeRoom(bs, keys, now) ==
  IF Cardinality(DOMAIN bs \cup keys) <= MaxKeys THEN bs
  ELSE LET cleaned == CleanupExpired(bs, now)
           excess  == Cardinality(DOMAIN cleaned \cup keys) - MaxKeys
       IN IF excess <= 0 THEN cleaned
          ELSE Without(cleaned, LeastRecentlySeen(cleaned, keys, excess))

(* One event at `now` in the bucket of every key, made if missing.         *)
Recorded(bs, keys, now) ==
  [k \in DOMAIN bs \cup keys |->
     IF k \notin keys THEN bs[k]
     ELSE [events |-> Append(IF k \in DOMAIN bs THEN EventsAt(bs, k, now) ELSE <<>>, now),
           lastSeen |-> now]]

(* A bucket looked at by Allow or Check and left without a new event.      *)
Seen(bs, k, now) ==
  [bs EXCEPT ![k] = [events |-> EventsAt(bs, k, now), lastSeen |-> now]]

(* What Allow leaves behind. *)
AfterAllow(bs, k, now) ==
  IF Full(bs, k, now) THEN Seen(bs, k, now)
  ELSE Recorded(MakeRoom(bs, {k}, now), {k}, now)

(* What Check leaves behind: it never records, and a bucket without active *)
(* events is dropped.                                                      *)
AfterCheck(bs, k, now) ==
  IF k \notin DOMAIN bs THEN bs
  ELSE IF EventsAt(bs, k, now) = <<>> THEN Without(bs, {k})
  ELSE Seen(bs, k, now)

(* What AllowAll leaves behind: one full rule refuses the call and nothing *)
(* is recorded.                                                            *)
AfterAllowAll(bs, keys, now) ==
  IF \E k \in keys : Full(bs, k, now) THEN bs
  ELSE Recorded(MakeRoom(bs, keys, now), keys, now)
=============================================================================
