-------------------------- MODULE PartyTransactions --------------------------
(***************************************************************************)
(* backend/internal/parties/repository.go as concurrent PostgreSQL         *)
(* transactions at READ COMMITTED. Every SQL statement is one action: it   *)
(* reads the committed rows of that moment, FOR UPDATE waits for the row's *)
(* lock, and uncommitted writes stay with the transaction until its        *)
(* commit. The unique indexes and CHECKs of migration 000003 are modelled  *)
(* where the statements meet them: a conflicting uncommitted row makes the *)
(* INSERT wait, a committed one makes it fail with "constraint".           *)
(*                                                                         *)
(* A transaction slot runs any number of requests, one after another; a    *)
(* client that lost the answer repeats its request like any other client.  *)
(***************************************************************************)
EXTENDS PartyRegistry

CONSTANTS
  Txn,          \* the transactions that may be open at once
  MaxAttempts,  \* maxInviteCredentialAttempts
  MaxTime       \* bound: the clock stops here

ASSUME MaxAttemptsAssumption == MaxAttempts \in Nat \ {0}
ASSUME MaxTimeAssumption     == MaxTime \in Nat
ASSUME ClockAssumption       == Times = 0 .. MaxTime

VARIABLES
  now,      \* the backend's clock
  pc,       \* the statement a transaction executes next
  req,      \* its arguments, and the Party or credential it found on the way
  at,       \* joinedAt or createdAt: the clock as the transaction read it
  attempt,  \* credential pairs drawn so far by this regeneration
  held,     \* rows it has locked
  outcome   \* the answer of a transaction that is rolling back

locals == <<pc, req, at, attempt, held, outcome>>
allVars == <<parties, members, invites, now, pc, req, at, attempt, held, outcome>>

Request == [user: User \cup {None}, party: Party \cup {None},
            code: Code \cup {None}, character: Character \cup {None}]
NoRequest == [user |-> None, party |-> None, code |-> None, character |-> None]

(* Rows that statements lock; a membership row is named by its unique key. *)
Row == Party \cup Code \cup Character \cup (Party \X User)

(* They are rows of four tables.                                           *)
ASSUME RowsApartAssumption ==
  /\ Party \cap Code = {} /\ Party \cap Character = {} /\ Code \cap Character = {}
  /\ (Party \X User) \cap (Party \cup Code \cup Character) = {}

Refusal == {"replayed", "invite_unavailable", "character_not_found", "already_member",
            "character_already_linked", "not_found", "forbidden", "server_error",
            "constraint"}
ASSUME RefusalAssumption == None \notin Refusal

JoinPc == {"findInvite", "lockParty", "checkInvite", "lockCharacter", "loadMember",
           "findLinked", "insertMember", "commitMember"}
InvitePc == {"readRole", "lockPartyAsGm", "lockPartyAsPlayer", "revoke", "mint",
             "commitInvite"}
Pc == {"idle", "commitParty", "rollback"} \cup JoinPc \cup InvitePc

(* Every variable keeps its kind; in particular a regeneration never draws *)
(* more than MaxAttempts credential pairs.                                 *)
TxTypeOK ==
  /\ TypeOK
  /\ now \in 0 .. MaxTime
  /\ pc \in [Txn -> Pc]
  /\ req \in [Txn -> Request]
  /\ at \in [Txn -> 0 .. MaxTime]
  /\ attempt \in [Txn -> 0 .. MaxAttempts]
  /\ held \in [Txn -> SUBSET Row]
  /\ outcome \in [Txn -> Refusal \cup {None}]
------------------------------------------------------------------------------
MembersOf(p, u) == {m \in members : m.party = p /\ m.user = u}
MembersWith(c) == {m \in members : m.character = c}
RowsOf(memberships) == {<<m.party, m.user>> : m \in memberships}
ActiveInvites(p) == {k \in Code : Active(k, p)}

(* The rows t's next statement locks: what its WHERE clause selects FOR    *)
(* UPDATE, or what its UPDATE writes.                                      *)
Wants(t) ==
  LET r == req[t]
  IN CASE pc[t] \in {"lockParty", "lockPartyAsGm", "lockPartyAsPlayer"} -> {r.party}
       [] pc[t] = "revoke" -> ActiveInvites(r.party)
       [] pc[t] = "checkInvite" -> {k \in {r.code} : Current(k, r.party, now)}
       [] pc[t] = "lockCharacter" -> {c \in {r.character} : Owner[c] = r.user}
       [] pc[t] = "loadMember" -> RowsOf(MembersOf(r.party, r.user))
       [] pc[t] = "findLinked" -> RowsOf(MembersWith(r.character))
       [] OTHER -> {}

WaitsFor(t, s) == held[s] \cap Wants(t) # {}

(* Mutant: lockOwnedCharacter without its FOR UPDATE.                      *)
LockAllButCharacter(t) ==
  IF pc[t] = "lockCharacter" THEN UNCHANGED held
  ELSE /\ \A s \in Txn \ {t} : ~WaitsFor(t, s)
       /\ held' = [held EXCEPT ![t] = @ \cup Wants(t)]

(* Take those locks, waiting while another transaction holds one of them.  *)
Lock(t) == /\ \A s \in Txn \ {t} : ~WaitsFor(t, s)
           /\ held' = [held EXCEPT ![t] = @ \cup Wants(t)]

Goto(t, label) == pc' = [pc EXCEPT ![t] = label]

(* Return with an answer; the deferred Rollback has yet to run.            *)
Return(t, answer) == /\ Goto(t, "rollback")
                     /\ outcome' = [outcome EXCEPT ![t] = answer]

(* The transaction is over: its locks are gone and the slot is free.       *)
Close(t) == /\ pc' = [pc EXCEPT ![t] = "idle"]
            /\ req' = [req EXCEPT ![t] = NoRequest]
            /\ at' = [at EXCEPT ![t] = 0]
            /\ attempt' = [attempt EXCEPT ![t] = 0]
            /\ held' = [held EXCEPT ![t] = {}]
            /\ outcome' = [outcome EXCEPT ![t] = None]

Begin(t, label, request) ==
  /\ pc[t] = "idle"
  /\ Goto(t, label)
  /\ req' = [req EXCEPT ![t] = request]
  /\ UNCHANGED <<vars, now, at, attempt, held, outcome>>
------------------------------------------------------------------------------
(* CreateParty. A fresh UUID: no committed or uncommitted Party has it.    *)
BeginCreate(t, u, p) ==
  /\ p \notin parties
  /\ \A s \in Txn : pc[s] = "commitParty" => req[s].party # p
  /\ Begin(t, "commitParty", [NoRequest EXCEPT !.user = u, !.party = p])

CommitParty(t) ==
  /\ pc[t] = "commitParty"
  /\ parties' = parties \cup {req[t].party}
  /\ members' = members \cup {GmOf(req[t].user, req[t].party)}
  /\ Close(t)
  /\ UNCHANGED <<invites, now>>
------------------------------------------------------------------------------
(* CreateOrRegenerateInvite.                                               *)
BeginRegenerate(t, u, p) ==
  Begin(t, "readRole", [NoRequest EXCEPT !.user = u, !.party = p])

(* lockPartyAndLoadRole reads the role in its snapshot, before it waits;   *)
(* no row means no lock and ErrPartyNotFound.                              *)
ReadRole(t) ==
  /\ pc[t] = "readRole"
  /\ \/ /\ MembersOf(req[t].party, req[t].user) = {}
        /\ Return(t, "not_found")
     \/ \E m \in MembersOf(req[t].party, req[t].user) :
          /\ Goto(t, IF m.role = "gm" THEN "lockPartyAsGm" ELSE "lockPartyAsPlayer")
          /\ UNCHANGED outcome
  /\ UNCHANGED <<vars, now, req, at, attempt, held>>

LockPartyForInvite(t) ==
  /\ \/ pc[t] = "lockPartyAsGm" /\ Goto(t, "revoke") /\ UNCHANGED outcome
     \/ pc[t] = "lockPartyAsPlayer" /\ Return(t, "forbidden")
  /\ Lock(t)
  /\ UNCHANGED <<vars, now, req, at, attempt>>

(* createdAt is read once the Party is locked. The UPDATE locks the rows   *)
(* it revokes; party_invites_revocation_order_check fails the statement if *)
(* one of them is younger than that.                                       *)
RevokeActiveInvite(t) ==
  /\ pc[t] = "revoke"
  /\ at' = [at EXCEPT ![t] = now]
  /\ Lock(t)
  /\ IF \A k \in ActiveInvites(req[t].party) : invites[k].createdAt <= now
     THEN Goto(t, "mint") /\ UNCHANGED outcome
     ELSE Return(t, "constraint")
  /\ UNCHANGED <<vars, now, req, attempt>>

(* Mutant: the loop runs once more than maxInviteCredentialAttempts.       *)
LastAttemptLate(t) == attempt[t] = MaxAttempts
LastAttempt(t) == attempt[t] + 1 = MaxAttempts

(* INSERT ... ON CONFLICT (code_hash) DO NOTHING, with a fresh pair for    *)
(* every attempt. Any row that ever had the code is a conflict, whichever  *)
(* Party it belongs to.                                                    *)
MintInvite(t, k) ==
  /\ pc[t] = "mint"
  /\ \A s \in Txn \ {t} : pc[s] = "commitInvite" => /\ req[s].code # k
                                                    /\ req[s].party # req[t].party
  /\ attempt' = [attempt EXCEPT ![t] = @ + 1]
  /\ \/ /\ invites[k] # None
        /\ ~LastAttempt(t)
        /\ UNCHANGED <<pc, req, outcome>>
     \/ /\ invites[k] # None
        /\ LastAttempt(t)
        /\ Return(t, "server_error")
        /\ UNCHANGED req
     \/ /\ invites[k] = None
        /\ IF ActiveInvites(req[t].party) \ held[t] # {}
           THEN Return(t, "constraint") /\ UNCHANGED req
           ELSE /\ Goto(t, "commitInvite")
                /\ req' = [req EXCEPT ![t].code = k]
                /\ UNCHANGED outcome
  /\ UNCHANGED <<vars, now, at, held>>

CommitInvite(t) ==
  /\ pc[t] = "commitInvite"
  /\ invites' = Rotated(req[t].party, req[t].code, at[t])
  /\ Close(t)
  /\ UNCHANGED <<parties, members, now>>
------------------------------------------------------------------------------
(* joinPartyByCredentialHash.                                              *)
BeginJoin(t, u, k, c) ==
  Begin(t, "findInvite", [NoRequest EXCEPT !.user = u, !.code = k, !.character = c])

(* findInvitePartyQuery: any invite with the credential, revoked or not,   *)
(* names the Party to lock.                                                *)
FindInviteParty(t) ==
  /\ pc[t] = "findInvite"
  /\ IF invites[req[t].code] = None
     THEN Return(t, "invite_unavailable") /\ UNCHANGED req
     ELSE /\ Goto(t, "lockParty")
          /\ req' = [req EXCEPT ![t].party = invites[req[t].code].party]
          /\ UNCHANGED outcome
  /\ UNCHANGED <<vars, now, at, attempt, held>>

LockParty(t) ==
  /\ pc[t] = "lockParty"
  /\ Lock(t)
  /\ Goto(t, "checkInvite")
  /\ UNCHANGED <<vars, now, req, at, attempt, outcome>>

(* Mutant: the invite is looked at again, but not its expiry.              *)
CheckInviteIgnoringExpiry(t) ==
  /\ pc[t] = "checkInvite"
  /\ at' = [at EXCEPT ![t] = now]
  /\ Lock(t)
  /\ IF Active(req[t].code, req[t].party)
     THEN Goto(t, "lockCharacter") /\ UNCHANGED outcome
     ELSE Return(t, "invite_unavailable")
  /\ UNCHANGED <<vars, now, req, attempt>>

(* joinedAt is read under the Party lock and the invite is judged by it.   *)
CheckInvite(t) ==
  /\ pc[t] = "checkInvite"
  /\ at' = [at EXCEPT ![t] = now]
  /\ Lock(t)
  /\ IF Current(req[t].code, req[t].party, now)
     THEN Goto(t, "lockCharacter") /\ UNCHANGED outcome
     ELSE Return(t, "invite_unavailable")
  /\ UNCHANGED <<vars, now, req, attempt>>

(* Mutant: the character is locked by id alone.                            *)
LockAnyCharacter(t) ==
  /\ pc[t] = "lockCharacter"
  /\ Lock(t)
  /\ Goto(t, "loadMember")
  /\ UNCHANGED <<vars, now, req, at, attempt, outcome>>

(* lockOwnedCharacter: id and owner_subject_id must both match.            *)
LockCharacter(t) ==
  /\ pc[t] = "lockCharacter"
  /\ Lock(t)
  /\ IF Owner[req[t].character] = req[t].user
     THEN Goto(t, "loadMember") /\ UNCHANGED outcome
     ELSE Return(t, "character_not_found")
  /\ UNCHANGED <<vars, now, req, at, attempt>>

(* Mutant: every request of an existing player counts as a replay.         *)
LoadMemberIgnoringCharacter(t) ==
  LET mine == MembersOf(req[t].party, req[t].user)
  IN /\ pc[t] = "loadMember"
     /\ Lock(t)
     /\ IF mine = {}
        THEN Goto(t, "findLinked") /\ UNCHANGED outcome
        ELSE Return(t, IF \E m \in mine : m.role = "player"
                       THEN "replayed" ELSE "already_member")
     /\ UNCHANGED <<vars, now, req, at, attempt>>

(* Mutant: a linked character is reported before the user's membership, so *)
(* one transaction locks two membership rows.                              *)
LoadMemberLinkedFirst(t) ==
  LET mine == MembersOf(req[t].party, req[t].user)
  IN /\ pc[t] = "loadMember"
     /\ Lock(t)
     /\ IF mine = {} \/ \E m \in MembersWith(req[t].character) : m \notin mine
        THEN Goto(t, "findLinked") /\ UNCHANGED outcome
        ELSE Return(t, IF PlayerOf(req[t].user, req[t].party, req[t].character) \in mine
                       THEN "replayed" ELSE "already_member")
     /\ UNCHANGED <<vars, now, req, at, attempt>>

(* loadExistingPartyMembership: the identical request is a replay, any     *)
(* other membership of the user in this Party a conflict.                  *)
LoadMember(t) ==
  LET mine == MembersOf(req[t].party, req[t].user)
  IN /\ pc[t] = "loadMember"
     /\ Lock(t)
     /\ IF mine = {}
        THEN Goto(t, "findLinked") /\ UNCHANGED outcome
        ELSE Return(t, IF PlayerOf(req[t].user, req[t].party, req[t].character) \in mine
                       THEN "replayed" ELSE "already_member")
     /\ UNCHANGED <<vars, now, req, at, attempt>>

FindLinkedCharacter(t) ==
  /\ pc[t] = "findLinked"
  /\ Lock(t)
  /\ IF MembersWith(req[t].character) = {}
     THEN Goto(t, "insertMember") /\ UNCHANGED outcome
     ELSE Return(t, "character_already_linked")
  /\ UNCHANGED <<vars, now, req, at, attempt>>

(* The INSERT meets the unique indexes on (party_id, user_id) and on       *)
(* character_id.                                                           *)
InsertMember(t) ==
  LET Clash(p, u, c) == \/ p = req[t].party /\ u = req[t].user
                        \/ c = req[t].character
  IN /\ pc[t] = "insertMember"
     /\ \A s \in Txn \ {t} : pc[s] = "commitMember" =>
          ~Clash(req[s].party, req[s].user, req[s].character)
     /\ IF \E m \in members : Clash(m.party, m.user, m.character)
        THEN Return(t, "constraint")
        ELSE Goto(t, "commitMember") /\ UNCHANGED outcome
     /\ UNCHANGED <<vars, now, req, at, attempt, held>>

CommitMember(t) ==
  /\ pc[t] = "commitMember"
  /\ members' = members \cup {PlayerOf(req[t].user, req[t].party, req[t].character)}
  /\ Close(t)
  /\ UNCHANGED <<parties, invites, now>>
------------------------------------------------------------------------------
(* Mutant: a return path without its deferred Rollback leaks the locks.    *)
RollbackLeakingLocks(t) ==
  /\ pc[t] = "rollback"
  /\ pc' = [pc EXCEPT ![t] = "idle"]
  /\ req' = [req EXCEPT ![t] = NoRequest]
  /\ outcome' = [outcome EXCEPT ![t] = None]
  /\ UNCHANGED <<vars, now, at, attempt, held>>

(* The deferred Rollback of every path that returned without a commit.     *)
Rollback(t) == pc[t] = "rollback" /\ Close(t) /\ UNCHANGED <<vars, now>>

(* The connection, the request context or the backend dies: PostgreSQL     *)
(* drops the transaction and its locks. A commit whose answer is lost is   *)
(* the commit action followed by a client that repeats the request.        *)
Abort(t) == pc[t] # "idle" /\ Close(t) /\ UNCHANGED <<vars, now>>

Tick == now < MaxTime /\ now' = now + 1 /\ UNCHANGED <<vars, locals>>

(* What a transaction does on its own once a request has started.          *)
Step(t) ==
  \/ CommitParty(t)
  \/ ReadRole(t) \/ LockPartyForInvite(t) \/ RevokeActiveInvite(t)
  \/ (\E k \in Code : MintInvite(t, k)) \/ CommitInvite(t)
  \/ FindInviteParty(t) \/ LockParty(t) \/ CheckInvite(t) \/ LockCharacter(t)
  \/ LoadMember(t) \/ FindLinkedCharacter(t) \/ InsertMember(t) \/ CommitMember(t)
  \/ Rollback(t)

Arrive(t) ==
  \E u \in User :
    \/ \E p \in Party : BeginCreate(t, u, p) \/ BeginRegenerate(t, u, p)
    \/ \E k \in Code, c \in Character : BeginJoin(t, u, k, c)

TxNext == Tick \/ \E t \in Txn : Arrive(t) \/ Step(t) \/ Abort(t)

TxInit ==
  /\ Init
  /\ now = 0
  /\ pc = [t \in Txn |-> "idle"]
  /\ req = [t \in Txn |-> NoRequest]
  /\ at = [t \in Txn |-> 0]
  /\ attempt = [t \in Txn |-> 0]
  /\ held = [t \in Txn |-> {}]
  /\ outcome = [t \in Txn |-> None]

TxSpec == TxInit /\ [][TxNext]_allVars

(* A transaction that can run does, and PostgreSQL queues the waiters of a *)
(* row, so a lock that keeps coming free is granted in the end.            *)
FairTxSpec == TxSpec /\ \A t \in Txn : SF_allVars(Step(t))
------------------------------------------------------------------------------
(* The row locks alone keep the tables consistent: no request ever runs    *)
(* into a unique index or a CHECK, so the two constraint errors that       *)
(* joinPartyByCredentialHash maps to 409 after its INSERT stay a backstop. *)
ConstraintsNeverFire == \A t \in Txn : outcome[t] # "constraint"

(* A player row is only ever inserted and committed under an invite of its *)
(* Party that is still the active one at that moment and had not expired   *)
(* when the request was admitted, whatever regenerations run next to it.   *)
JoinsUnderCurrentInvite ==
  \A t \in Txn : pc[t] \in {"insertMember", "commitMember"} =>
    /\ Current(req[t].code, req[t].party, at[t])
    /\ at[t] <= now

(* A refusal tells the truth while it is being returned: an identical      *)
(* replay is never called a conflict, and a conflict names a real one.     *)
RefusalsAreTrue ==
  \A t \in Txn :
    LET r == req[t]
        same == PlayerOf(r.user, r.party, r.character)
    IN /\ outcome[t] = "replayed" => same \in members
       /\ outcome[t] = "already_member" =>
            /\ \E m \in members : m.party = r.party /\ m.user = r.user
            /\ same \notin members
       /\ outcome[t] = "character_already_linked" =>
            /\ \E m \in members : m.character = r.character
            /\ same \notin members

(* The committed tables change only as PartyRegistry allows: the detailed  *)
(* transactions implement its Spec under the mapping that keeps the three  *)
(* tables and hides clocks, locks and transactions.                        *)
ImplementsRegistry == Spec

(* No transactions wait for one another in a circle: the lock order Party, *)
(* invite, character, membership and the return as soon as a membership    *)
(* row is found leave PostgreSQL's deadlock detector nothing to abort.     *)
NoDeadlock ==
  \A waiting \in (SUBSET Txn) \ {{}} :
    \E t \in waiting : \A s \in waiting \ {t} : ~WaitsFor(t, s)

(* No request waits for ever: the lock order Party, invite, character,     *)
(* membership leaves no cycle, and every path out releases its locks.      *)
EveryRequestEnds == \A t \in Txn : pc[t] # "idle" ~> pc[t] = "idle"
=============================================================================
