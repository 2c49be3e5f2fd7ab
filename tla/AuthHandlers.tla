----------------------------- MODULE AuthHandlers -----------------------------
(***************************************************************************)
(* Register and SignIn of backend/internal/auth/handler.go. Requests run   *)
(* concurrently and meet in three places: the sliding-window limiter, the  *)
(* two slots of the Argon2 gate, and the users table. Each call of one of  *)
(* them is an action; a request that returns writes its status and runs    *)
(* its deferred Release in the same step.                                  *)
(*                                                                         *)
(* What the limiter does with one call is in LimiterBuckets; clock reads   *)
(* outside its mutex are the business of SlidingWindowLimiter, so here a   *)
(* call reads the clock when it is made.                                   *)
(***************************************************************************)
EXTENDS LimiterBuckets

CONSTANTS
  Request,          \* handler goroutines, reused for one request after another
  Username, Email,  \* canonical identifiers
  Capacity,         \* NewArgonGate(2)
  GlobalLogin,      \* limiter key of every sign-in
  GlobalRegister,   \* limiter key of every registration
  FailureKey,       \* limiter key of an identifier's failed sign-ins
  RegisterKey,      \* limiter key of an identifier's registrations
  MaxTime,          \* bound: the clock stops here
  None

Identifier == Username \cup Email

ASSUME CapacityAssumption == Capacity \in Nat \ {0}
ASSUME KeysAssumption ==
  /\ FailureKey \in [Identifier -> Key] /\ RegisterKey \in [Identifier -> Key]
  /\ {GlobalLogin, GlobalRegister} \subseteq Key /\ GlobalLogin # GlobalRegister
  /\ \A i \in Identifier : {FailureKey[i], RegisterKey[i]} \cap {GlobalLogin, GlobalRegister} = {}
  /\ \A i, j \in Identifier :
       /\ FailureKey[i] # RegisterKey[j]
       /\ i # j => FailureKey[i] # FailureKey[j] /\ RegisterKey[i] # RegisterKey[j]
ASSUME RoomAssumption == MaxKeys >= 3  \* a registration has three rules; the code allows 10000
ASSUME BoundAssumption == MaxTime \in Nat /\ None \notin Identifier

VARIABLES
  clock,
  buckets,   \* authLimiter
  slots,     \* length of the channel argonGate.slots
  users,     \* users rows
  pc,        \* the call a request makes next
  req,       \* the identifiers it came with
  failures   \* history: times of an identifier's invalid-credential answers
             \* since its last success, at most Limit + 1 of them

vars == <<clock, buckets, slots, users, pc, req, failures>>

User == [username: Username, email: Email]
SignInRequest == [id: Identifier, username: {None}, email: {None}]
RegisterRequest == [id: {None}, username: Username, email: Email]
NoRequest == [id |-> None, username |-> None, email |-> None]

(* The calls made between TryAcquire and the deferred Release. *)
Guarded == {"findUser", "verify", "verifyDummy", "recordFailure", "createSession",
            "resetFailures", "hash", "createUser"}
Pc == {"idle", "allowGlobal", "checkIdentifier", "acquireSignIn",
       "allowRegister", "acquireRegister"} \cup Guarded

(* Every variable keeps its kind; the bucket store keeps its bounds.       *)
TypeOK ==
  /\ clock \in 0 .. MaxTime
  /\ BucketsOK(buckets)
  /\ slots \in 0 .. Capacity
  /\ users \subseteq User
  /\ pc \in [Request -> Pc]
  /\ req \in [Request -> {NoRequest} \cup SignInRequest \cup RegisterRequest]
  /\ failures \in [Identifier -> Seq(0 .. MaxTime)]
------------------------------------------------------------------------------
Goto(r, label) == pc' = [pc EXCEPT ![r] = label] /\ UNCHANGED <<slots, req>>

(* Mutant: Release is called by hand and the early returns miss it.        *)
AnswerKeepingSlot(r) ==
  /\ pc' = [pc EXCEPT ![r] = "idle"]
  /\ req' = [req EXCEPT ![r] = NoRequest]
  /\ slots' = IF pc[r] \in {"resetFailures", "createUser"} THEN slots - 1 ELSE slots

(* The handler returns; the slot it holds, if any, is given back.          *)
Answer(r) ==
  /\ pc' = [pc EXCEPT ![r] = "idle"]
  /\ req' = [req EXCEPT ![r] = NoRequest]
  /\ slots' = IF pc[r] \in Guarded THEN slots - 1 ELSE slots

Arrive(r, label, request) ==
  /\ pc[r] = "idle"
  /\ pc' = [pc EXCEPT ![r] = label]
  /\ req' = [req EXCEPT ![r] = request]
  /\ UNCHANGED <<clock, buckets, slots, users, failures>>

(* Mutant: one slot more than the channel has room for.                    *)
TryAcquireOverfull(r, label) ==
  /\ IF slots <= Capacity
     THEN /\ slots' = slots + 1
          /\ pc' = [pc EXCEPT ![r] = label]
          /\ UNCHANGED req
     ELSE Answer(r)
  /\ UNCHANGED <<clock, buckets, users, failures>>

(* argonGate.TryAcquire never waits: a full gate answers 429.              *)
TryAcquire(r, label) ==
  /\ IF slots < Capacity
     THEN /\ slots' = slots + 1
          /\ pc' = [pc EXCEPT ![r] = label]
          /\ UNCHANGED req
     ELSE Answer(r)
  /\ UNCHANGED <<clock, buckets, users, failures>>
------------------------------------------------------------------------------
AllowGlobal(r) ==
  /\ pc[r] = "allowGlobal"
  /\ buckets' = AfterAllow(buckets, GlobalLogin, clock)
  /\ IF Full(buckets, GlobalLogin, clock) THEN Answer(r) ELSE Goto(r, "checkIdentifier")
  /\ UNCHANGED <<clock, users, failures>>

CheckIdentifier(r) ==
  LET key == FailureKey[req[r].id]
  IN /\ pc[r] = "checkIdentifier"
     /\ buckets' = AfterCheck(buckets, key, clock)
     /\ IF Full(buckets, key, clock) THEN Answer(r) ELSE Goto(r, "acquireSignIn")
     /\ UNCHANGED <<clock, users, failures>>

AcquireSignIn(r) == pc[r] = "acquireSignIn" /\ TryAcquire(r, "findUser")

(* findUserForSignIn; the query may fail, which answers 500.               *)
FindUser(r) ==
  /\ pc[r] = "findUser"
  /\ \/ IF \E u \in users : req[r].id \in {u.username, u.email}
        THEN Goto(r, "verify") ELSE Goto(r, "verifyDummy")
     \/ Answer(r)
  /\ UNCHANGED <<clock, buckets, users, failures>>

(* verifyPassword with the account's hash: a match, a mismatch, or a hash  *)
(* that cannot be decoded (500).                                           *)
Verify(r) ==
  /\ pc[r] = "verify"
  /\ Goto(r, "createSession") \/ Goto(r, "recordFailure") \/ Answer(r)
  /\ UNCHANGED <<clock, buckets, users, failures>>

(* The dummy hash is well formed, so verifying it never fails.             *)
VerifyDummy(r) ==
  /\ pc[r] = "verifyDummy"
  /\ Goto(r, "recordFailure")
  /\ UNCHANGED <<clock, buckets, users, failures>>

(* Mutant: the failure is counted without asking whether it may be.        *)
RecordFailureUnasked(r) ==
  LET id == req[r].id
  IN /\ pc[r] = "recordFailure"
     /\ buckets' = AfterAllow(buckets, FailureKey[id], clock)
     /\ failures' = [failures EXCEPT ![id] = Newest(Append(@, clock), Limit[FailureKey[id]] + 1)]
     /\ Answer(r)
     /\ UNCHANGED <<clock, users>>

(* recordInvalidLoginFailure: 401 while the identifier has failures left,  *)
(* 429 once it has not.                                                    *)
RecordFailure(r) ==
  LET id  == req[r].id
      key == FailureKey[id]
  IN /\ pc[r] = "recordFailure"
     /\ buckets' = AfterAllow(buckets, key, clock)
     /\ failures' = IF Full(buckets, key, clock) THEN failures
                    ELSE [failures EXCEPT ![id] = Newest(Append(@, clock), Limit[key] + 1)]
     /\ Answer(r)
     /\ UNCHANGED <<clock, users>>

(* createSessionCookie; the INSERT may fail, which answers 500.            *)
CreateSession(r) ==
  /\ pc[r] = "createSession"
  /\ Goto(r, "resetFailures") \/ Answer(r)
  /\ UNCHANGED <<clock, buckets, users, failures>>

ResetFailures(r) ==
  /\ pc[r] = "resetFailures"
  /\ buckets' = Without(buckets, {FailureKey[req[r].id]})
  /\ failures' = [failures EXCEPT ![req[r].id] = <<>>]
  /\ Answer(r)
  /\ UNCHANGED <<clock, users>>
------------------------------------------------------------------------------
(* Mutant: the global rule is left out.                                    *)
AllowRegisterIdentityOnly(r) ==
  LET keys == {RegisterKey[req[r].username], RegisterKey[req[r].email]}
  IN /\ pc[r] = "allowRegister"
     /\ buckets' = AfterAllowAll(buckets, keys, clock)
     /\ IF \E k \in keys : Full(buckets, k, clock) THEN Answer(r) ELSE Goto(r, "acquireRegister")
     /\ UNCHANGED <<clock, users, failures>>

AllowRegister(r) ==
  LET keys == {GlobalRegister, RegisterKey[req[r].username], RegisterKey[req[r].email]}
  IN /\ pc[r] = "allowRegister"
     /\ buckets' = AfterAllowAll(buckets, keys, clock)
     /\ IF \E k \in keys : Full(buckets, k, clock) THEN Answer(r) ELSE Goto(r, "acquireRegister")
     /\ UNCHANGED <<clock, users, failures>>

AcquireRegister(r) == pc[r] = "acquireRegister" /\ TryAcquire(r, "hash")

(* hashPassword, which fails only when the system has no random bytes.     *)
Hash(r) ==
  /\ pc[r] = "hash"
  /\ Goto(r, "createUser") \/ Answer(r)
  /\ UNCHANGED <<clock, buckets, users, failures>>

(* CreateUser meets the unique indexes on username and email. The answer   *)
(* of an INSERT that took effect may be lost, and is then a 500 as well.   *)
CreateUser(r) ==
  /\ pc[r] = "createUser"
  /\ \/ /\ \A u \in users : u.username # req[r].username /\ u.email # req[r].email
        /\ users' = users \cup {[username |-> req[r].username, email |-> req[r].email]}
     \/ UNCHANGED users
  /\ Answer(r)
  /\ UNCHANGED <<clock, buckets, failures>>

Tick == clock < MaxTime /\ clock' = clock + 1
        /\ UNCHANGED <<buckets, slots, users, pc, req, failures>>

SignIn(r) ==
  \/ \E i \in Identifier : Arrive(r, "allowGlobal", [NoRequest EXCEPT !.id = i])
  \/ AllowGlobal(r) \/ CheckIdentifier(r) \/ AcquireSignIn(r) \/ FindUser(r)
  \/ Verify(r) \/ VerifyDummy(r) \/ RecordFailure(r) \/ CreateSession(r) \/ ResetFailures(r)

Register(r) ==
  \/ \E u \in Username, e \in Email :
       Arrive(r, "allowRegister", [NoRequest EXCEPT !.username = u, !.email = e])
  \/ AllowRegister(r) \/ AcquireRegister(r) \/ Hash(r) \/ CreateUser(r)

Init ==
  /\ clock = 0
  /\ buckets = <<>>
  /\ slots = 0
  /\ users = {}
  /\ pc = [r \in Request |-> "idle"]
  /\ req = [r \in Request |-> NoRequest]
  /\ failures = [i \in Identifier |-> <<>>]

Next == Tick \/ \E r \in Request : SignIn(r) \/ Register(r)

Spec == Init /\ [][Next]_vars
------------------------------------------------------------------------------
(* The slots taken from the gate are those of the requests between their   *)
(* TryAcquire and their return: whichever way a handler is left, errors of *)
(* the database and of the hash included, no slot is lost or freed twice.  *)
GateIsExact == slots = Cardinality({r \in Request : pc[r] \in Guarded})

(* The times of an ascending list that are still in the window.            *)
Recent(times, window) ==
  LET old == Cardinality({n \in DOMAIN times : times[n] <= clock - window})
  IN SubSeq(times, old + 1, Len(times))

(* The limiter counts exactly the invalid-credential answers of the last   *)
(* window, for every identifier, although checking and recording are       *)
(* separate calls of concurrent requests: no more of them than the limit   *)
(* are given, a throttled user had them all, a success clears the user's   *)
(* own and nobody else's, and no flood of other identifiers makes the      *)
(* store forget one.                                                       *)
FailuresAreCounted ==
  \A i \in Identifier :
    LET key == FailureKey[i]
        counted == IF key \in DOMAIN buckets THEN EventsAt(buckets, key, clock) ELSE <<>>
    IN /\ counted = Recent(failures[i], Window[key])
       /\ Len(counted) <= Limit[key]

(* The global limits keep the store away from maxLimiterKeys: an           *)
(* identifier's key is made only by a request the global key admitted, so  *)
(* eviction never has to pick a key that still counts something.           *)
NothingLiveIsEvicted ==
  [][\A k \in DOMAIN CleanupExpired(buckets, clock) \ DOMAIN buckets' :
       \E r \in Request : /\ pc[r] = "resetFailures" /\ pc'[r] = "idle"
                          /\ k = FailureKey[req[r].id]]_vars
=============================================================================
