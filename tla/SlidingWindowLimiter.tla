------------------------ MODULE SlidingWindowLimiter ------------------------
(***************************************************************************)
(* backend/internal/auth/limiter.go: the in-memory rate limiter shared by  *)
(* the authentication and the Party handlers. Allow, Check and AllowAll    *)
(* read the clock before they take the mutex, so calls enter the critical  *)
(* section in an order that need not be the order of their time stamps,    *)
(* and buckets may hold events that are not sorted. What a call does to    *)
(* the buckets is in LimiterBuckets.                                       *)
(***************************************************************************)
EXTENDS LimiterBuckets

CONSTANTS
  Single,           \* keys that handlers use with Allow, Check and Reset
  Group,            \* sets of keys that handlers use with one AllowAll
  CleanupInterval,  \* limiterCleanupInterval
  Second,           \* clock readings per second
  Caller,           \* handler goroutines
  MaxTime,          \* bound: the clock stops here
  MaxDelay,         \* bound: readings between a caller's clock read and its lock
  None

ASSUME GroupAssumption  == /\ Single \subseteq Key
                           /\ \A g \in Group : g \subseteq Key /\ g # {} /\ Cardinality(g) <= MaxKeys
ASSUME SizeAssumption   == CleanupInterval \in Nat \ {0} /\ Second \in Nat \ {0}
ASSUME BoundAssumption  == MaxTime \in Nat /\ MaxDelay \in Nat /\ None \notin Nat

VARIABLES
  clock,       \* real time
  buckets,     \* limiter.buckets: its domain is the keys present
  operations,  \* limiter.operations modulo limiterCleanupInterval
  pending,     \* a caller between its clock read and its critical section
  admitted,    \* history: real times of a key's last admissions, while remembered
  promise      \* history: when a refused caller was told to come back

vars == <<clock, buckets, operations, pending, admitted, promise>>

Call == [op: {"allow", "check"}, keys: {{k} : k \in Single}, stamp: Nat]
          \cup [op: {"allowAll"}, keys: Group, stamp: Nat]
KeySets == {{k} : k \in Single} \cup Group

(* Every variable keeps its kind, and the store its documented size.       *)
TypeOK ==
  /\ clock \in 0 .. MaxTime
  /\ BucketsOK(buckets)
  /\ operations \in 0 .. CleanupInterval - 1
  /\ pending \in [Caller -> Call \cup {None}]
  /\ admitted \in [Key -> Seq(Nat)]
  /\ promise \in [KeySets -> Nat \cup {None}]
------------------------------------------------------------------------------
(* Mutant: truncating division.                                            *)
RetryAfterSecondsTruncated(retryAfter, window) ==
  LET seconds == retryAfter \div Second
      maximum == (window + Second - 1) \div Second
  IN IF seconds < 1 THEN 1 ELSE IF seconds > maximum THEN maximum ELSE seconds

(* handler.go retryAfterSeconds: rounded up, between a second and a window. *)
RetryAfterSeconds(retryAfter, window) ==
  LET seconds == (retryAfter + Second - 1) \div Second
      maximum == (window + Second - 1) \div Second
  IN IF seconds < 1 THEN 1 ELSE IF seconds > maximum THEN maximum ELSE seconds

(* maintain, with the operation counter already increased.                 *)
Maintained(now) ==
  IF (operations + 1) % CleanupInterval = 0 THEN CleanupExpired(buckets, now) ELSE buckets
------------------------------------------------------------------------------
Init ==
  /\ clock = 0
  /\ buckets = <<>>
  /\ operations = 0
  /\ pending = [c \in Caller |-> None]
  /\ admitted = [k \in Key |-> <<>>]
  /\ promise = [ks \in KeySets |-> None]

(* now := limiter.now(), before the mutex.                                 *)
ReadClock(c, op, keys) ==
  /\ pending[c] = None
  /\ pending' = [pending EXCEPT ![c] = [op |-> op, keys |-> keys, stamp |-> clock]]
  /\ UNCHANGED <<clock, buckets, operations, admitted, promise>>

Leave(c) == /\ pending' = [pending EXCEPT ![c] = None]
            /\ operations' = (operations + 1) % CleanupInterval
            /\ UNCHANGED clock

(* A key evicted with unexpired events is forgotten, and starts afresh.    *)
RememberAdmission(keys, now) ==
  LET forgotten == DOMAIN CleanupExpired(buckets, now) \ DOMAIN buckets'
  IN /\ admitted' = [k \in Key |->
          IF k \in keys
          THEN Newest(Append(admitted[k], clock), Limit[k] + 1)
          ELSE IF k \in forgotten THEN <<>> ELSE admitted[k]]
     /\ promise' = [ks \in KeySets |-> IF ks \cap keys # {} THEN None ELSE promise[ks]]

(* The caller is told to wait for the rule with the longest RetryAfter.    *)
RememberRefusal(keys, k, retryAfter) ==
  LET due == clock + Second * RetryAfterSeconds(retryAfter, Window[k])
  IN /\ promise' = [promise EXCEPT ![keys] = IF @ = None \/ due < @ THEN due ELSE @]
     /\ UNCHANGED admitted

LongestWait(bs, keys, k, now) ==
  /\ Full(bs, k, now)
  /\ \A j \in keys : Full(bs, j, now) =>
       RetryDuration(bs, j, now) <= RetryDuration(bs, k, now)

(* Allow, for the key of c's call.                                         *)
Allow(c) ==
  /\ pending[c] # None /\ pending[c].op = "allow"
  /\ LET now == pending[c].stamp
         bs == Maintained(now)
     IN \E k \in pending[c].keys :
          /\ buckets' = AfterAllow(bs, k, now)
          /\ IF Full(bs, k, now)
             THEN RememberRefusal({k}, k, RetryDuration(bs, k, now))
             ELSE RememberAdmission({k}, now)
  /\ Leave(c)

Check(c) ==
  /\ pending[c] # None /\ pending[c].op = "check"
  /\ LET now == pending[c].stamp
         bs == Maintained(now)
     IN \E k \in pending[c].keys :
          /\ buckets' = AfterCheck(bs, k, now)
          /\ IF Full(bs, k, now)
             THEN RememberRefusal({k}, k, RetryDuration(bs, k, now))
             ELSE UNCHANGED <<admitted, promise>>
  /\ Leave(c)

(* Mutant: AllowAll records rule by rule and stops at the full one.        *)
AllowAllPartly(c) ==
  /\ pending[c] # None /\ pending[c].op = "allowAll"
  /\ LET now == pending[c].stamp
         keys == pending[c].keys
         bs == Maintained(now)
         full == {k \in keys : Full(bs, k, now)}
     IN IF full # {}
        THEN \E k \in full :
               /\ LongestWait(bs, keys, k, now)
               /\ buckets' = Recorded(MakeRoom(bs, keys \ full, now), keys \ full, now)
               /\ RememberRefusal(keys, k, RetryDuration(bs, k, now))
        ELSE /\ buckets' = Recorded(MakeRoom(bs, keys, now), keys, now)
             /\ RememberAdmission(keys, now)
  /\ Leave(c)

AllowAll(c) ==
  /\ pending[c] # None /\ pending[c].op = "allowAll"
  /\ LET now == pending[c].stamp
         keys == pending[c].keys
         bs == Maintained(now)
     IN /\ buckets' = AfterAllowAll(bs, keys, now)
        /\ IF \E k \in keys : Full(bs, k, now)
           THEN \E k \in keys : /\ LongestWait(bs, keys, k, now)
                               /\ RememberRefusal(keys, k, RetryDuration(bs, k, now))
           ELSE RememberAdmission(keys, now)
  /\ Leave(c)

(* Reset takes no time stamp and does not count as an operation.           *)
Reset(k) ==
  /\ k \in DOMAIN buckets
  /\ buckets' = Without(buckets, {k})
  /\ admitted' = [admitted EXCEPT ![k] = <<>>]
  /\ UNCHANGED <<clock, operations, pending, promise>>

(* Time passes, but no caller waits for the mutex longer than MaxDelay. A  *)
(* promise that has been kept is done with.                                *)
Tick ==
  /\ clock < MaxTime
  /\ \A c \in Caller : pending[c] # None => clock < pending[c].stamp + MaxDelay
  /\ clock' = clock + 1
  /\ promise' = [ks \in KeySets |->
       IF promise[ks] # None /\ promise[ks] <= clock THEN None ELSE promise[ks]]
  /\ UNCHANGED <<buckets, operations, pending, admitted>>

Next ==
  \/ Tick
  \/ \E k \in Single : Reset(k)
  \/ \E c \in Caller :
       \/ \E k \in Single : ReadClock(c, "allow", {k}) \/ ReadClock(c, "check", {k})
       \/ \E g \in Group : ReadClock(c, "allowAll", g)
       \/ Allow(c) \/ Check(c) \/ AllowAll(c)

Spec == Init /\ [][Next]_vars
------------------------------------------------------------------------------
(* The limit holds in real time: as long as a key is remembered, Limit + 1 *)
(* consecutive admissions take a whole window, less what a caller may lose *)
(* between reading the clock and taking the mutex.                         *)
RateHolds ==
  \A k \in Key : Len(admitted[k]) > Limit[k] =>
    admitted[k][Len(admitted[k])] - admitted[k][Len(admitted[k]) - Limit[k]]
      >= Window[k] - MaxDelay

(* Nobody is refused for less: a key that would refuse a caller now, even  *)
(* one whose stamp is old, had Limit admissions in the last window plus    *)
(* MaxDelay. So a refused AllowAll costs its other keys nothing, Check     *)
(* costs nothing, and unsorted events do not outlive the real window.      *)
RefusalsAreEarned ==
  \A c \in Caller, k \in Key :
    pending[c] # None /\ k \in pending[c].keys /\ Full(buckets, k, pending[c].stamp) =>
      /\ Len(admitted[k]) >= Limit[k]
      /\ admitted[k][Len(admitted[k]) - Limit[k] + 1] > clock - Window[k] - MaxDelay

(* The Retry-After a refused caller is given is long enough: unless one of *)
(* its keys admits another call first, it is not refused when it returns,  *)
(* also for AllowAll with several full rules and for clamped waits.        *)
RetryIsEnough ==
  \A ks \in KeySets : promise[ks] # None /\ clock >= promise[ks] =>
    \A k \in ks : ~Full(buckets, k, clock)

(* At capacity the limiter forgets a live key only when it is full, and    *)
(* then keeps no key that was seen longer ago, save those of the request.  *)
EvictsOnlyStalest ==
  [][\A k \in DOMAIN CleanupExpired(buckets, clock) \ DOMAIN buckets' :
       \A c \in Caller : pending[c] # None /\ pending'[c] = None =>
         /\ Cardinality(DOMAIN buckets') = MaxKeys
         /\ \A j \in DOMAIN buckets' \ pending[c].keys :
              buckets[j].lastSeen >= buckets[k].lastSeen]_vars
=============================================================================
