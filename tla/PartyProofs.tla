----------------------------- MODULE PartyProofs ------------------------------
(***************************************************************************)
(* The Party tables and the two ways the code is seen to use them, for any *)
(* users, Parties, characters and credentials.                             *)
(*                                                                         *)
(* First the statements of concurrent transactions (PartyTransactions),    *)
(* for any number of open transactions: the row locks keep every statement *)
(* clear of the constraints, the refusals are true, nobody waits in a      *)
(* circle, and every behaviour is one of the registry. Then the operations *)
(* of the registry by themselves, and the handlers and pages that use them *)
(* (PartyPages), for any number of requests under way: what a page shows,  *)
(* and that every behaviour is one of the registry. The clock of the       *)
(* transactions (ClockAssumption) is used by the first part only.          *)
(***************************************************************************)
EXTENDS PartyTransactions, PartyPages, TLAPS

(* THE TRANSACTIONS.                                                       *)

AfterFind   == {"lockParty", "checkInvite", "lockCharacter", "loadMember", "findLinked",
                "insertMember", "commitMember"}
AfterLock   == AfterFind \ {"lockParty"}
AfterCheck  == AfterLock \ {"checkInvite"}
AfterOwned  == AfterCheck \ {"lockCharacter"}
AfterMember == AfterOwned \ {"loadMember"}
AfterLinked == AfterMember \ {"findLinked"}

AfterRole   == {"lockPartyAsGm", "revoke", "mint", "commitInvite"}
AfterGmLock == AfterRole \ {"lockPartyAsGm"}
AfterRevoke == AfterGmLock \ {"revoke"}

(* What a joining transaction may rely on once it is past a statement: the *)
(* locks it holds freeze the facts it has read.                            *)
JoinKnows(t) ==
  LET r == req[t]
  IN /\ pc[t] \in JoinPc => r.user \in User /\ r.code \in Code /\ r.character \in Character
     /\ pc[t] \in AfterFind => r.party \in Party
     /\ pc[t] \in AfterLock => r.party \in held[t]
     /\ pc[t] \in AfterCheck => Current(r.code, r.party, at[t]) /\ at[t] <= now
     /\ pc[t] \in AfterOwned => r.character \in held[t] /\ Owner[r.character] = r.user
     /\ pc[t] \in AfterMember => MembersOf(r.party, r.user) = {}
     /\ pc[t] \in AfterLinked => MembersWith(r.character) = {}

(* The same for a regenerating transaction.                                *)
InviteKnows(t) ==
  LET r == req[t]
  IN /\ pc[t] \in InvitePc => r.user \in User /\ r.party \in Party
     /\ pc[t] \in AfterRole => GmOf(r.user, r.party) \in members
     /\ pc[t] \in AfterGmLock => r.party \in held[t]
     /\ pc[t] \in AfterRevoke =>
          /\ at[t] <= now
          /\ \A k \in Code : Active(k, r.party) =>
                k \in held[t] /\ invites[k].createdAt <= at[t]
     /\ pc[t] \in {"idle", "readRole", "lockPartyAsGm", "revoke", "mint"} =>
          attempt[t] < MaxAttempts
     /\ pc[t] = "commitInvite" => r.code \in Code /\ invites[r.code] = None

(* And for a creating one.                                                 *)
CreateKnows(t) ==
  pc[t] = "commitParty" =>
    req[t].user \in User /\ req[t].party \in Party /\ req[t].party \notin parties

Exclusive == \A s, t \in Txn : s # t => held[s] \cap held[t] = {}

(* Uncommitted rows of two transactions never share a key.                 *)
PendingDiffer ==
  \A s, t \in Txn : s # t =>
    /\ pc[s] = "commitInvite" /\ pc[t] = "commitInvite" => req[s].code # req[t].code
    /\ pc[s] = "commitParty" /\ pc[t] = "commitParty" => req[s].party # req[t].party

TableFacts ==
  /\ \A m \in members : m.role = "gm" => m.character = None
  /\ \A k \in Code : invites[k] # None => invites[k].createdAt <= now
  /\ NoOrphans

IInv ==
  /\ TxTypeOK
  /\ Exclusive
  /\ PendingDiffer
  /\ TableFacts
  /\ \A t \in Txn : /\ JoinKnows(t)
                    /\ InviteKnows(t)
                    /\ CreateKnows(t)
                    /\ outcome[t] # "constraint"
------------------------------------------------------------------------------
(* The statement locks rows only. *)
LEMMA WantsRows ==
  ASSUME TxTypeOK, NEW t \in Txn, JoinKnows(t), InviteKnows(t)
  PROVE  Wants(t) \in SUBSET Row
<1>1. \A S \in SUBSET members : RowsOf(S) \subseteq Row
  BY DEF TxTypeOK, TypeOK, RowsOf, Row, Membership
<1>2. MembersOf(req[t].party, req[t].user) \subseteq members /\ MembersWith(req[t].character) \subseteq members
  BY DEF MembersOf, MembersWith
<1>3. CASE pc[t] \in {"lockParty", "lockPartyAsGm", "lockPartyAsPlayer"}
  BY <1>3 DEF JoinKnows, InviteKnows, Wants, Row, AfterFind, InvitePc
<1>4. CASE pc[t] = "revoke"
  BY <1>4 DEF Wants, Row, ActiveInvites
<1>5. CASE pc[t] \in {"checkInvite", "lockCharacter"}
  BY <1>5 DEF JoinKnows, Wants, Row, JoinPc
<1>6. CASE pc[t] \in {"loadMember", "findLinked"}
  BY <1>1, <1>2, <1>6 DEF Wants
<1>7. CASE pc[t] \notin {"lockParty", "lockPartyAsGm", "lockPartyAsPlayer", "revoke",
                         "checkInvite", "lockCharacter", "loadMember", "findLinked"}
  BY <1>7 DEF Wants
<1>8. QED BY <1>3, <1>4, <1>5, <1>6, <1>7

(* No transaction is open, and the tables are empty.                       *)
LEMMA InitEstablishes == TxInit => IInv
<1> SUFFICES ASSUME TxInit PROVE IInv OBVIOUS
<1> USE DEF TxInit, Init
<1>1. TxTypeOK
  BY MaxTimeAssumption, MaxAttemptsAssumption
  DEF TxTypeOK, TypeOK, Request, NoRequest, Pc
<1>2. Exclusive /\ PendingDiffer /\ TableFacts
  BY DEF Exclusive, PendingDiffer, TableFacts, NoOrphans
<1>3. \A t \in Txn : JoinKnows(t) /\ InviteKnows(t) /\ CreateKnows(t) /\ outcome[t] # "constraint"
  BY RefusalAssumption, MaxAttemptsAssumption DEF JoinKnows, InviteKnows, CreateKnows, Refusal, JoinPc, InvitePc, AfterFind, AfterLock,
     AfterCheck, AfterOwned, AfterMember, AfterLinked, AfterRole, AfterGmLock, AfterRevoke
<1>4. QED BY <1>1, <1>2, <1>3 DEF IInv
------------------------------------------------------------------------------
(* What transaction t alone may change, and what its new state must show:  *)
(* then every other transaction still knows what it knew.                  *)
OnlyLocals(t) ==
  /\ UNCHANGED <<vars, now>>
  /\ \A s \in Txn \ {t} :
       /\ pc'[s] = pc[s] /\ req'[s] = req[s] /\ at'[s] = at[s]
       /\ attempt'[s] = attempt[s] /\ held'[s] = held[s] /\ outcome'[s] = outcome[s]

PendingDiffers(t, s) ==
  /\ pc[s] = "commitInvite" /\ pc[t] = "commitInvite" => req[s].code # req[t].code
  /\ pc[s] = "commitParty" /\ pc[t] = "commitParty" => req[s].party # req[t].party

(* A step that changes the locals of t only, and takes no row that another *)
(* slot holds, preserves the invariant if t itself knows enough afterwards. *)
LEMMA Frame ==
  ASSUME IInv, NEW t \in Txn, OnlyLocals(t), TxTypeOK',
         \A s \in Txn \ {t} : held[s] \cap held'[t] = {},
         \A s \in Txn \ {t} : PendingDiffers(t, s)',
         JoinKnows(t)', InviteKnows(t)', CreateKnows(t)', outcome'[t] # "constraint"
  PROVE  IInv'
<1>1. Exclusive'
  BY DEF IInv, Exclusive, OnlyLocals
<1>2. PendingDiffer'
  BY DEF IInv, PendingDiffer, PendingDiffers, OnlyLocals
<1>3. TableFacts'
  BY DEF IInv, TableFacts, NoOrphans, OnlyLocals, vars
<1>4. ASSUME NEW s \in Txn
      PROVE  JoinKnows(s)' /\ InviteKnows(s)' /\ CreateKnows(s)' /\ outcome'[s] # "constraint"
  <2>1. CASE s = t BY <2>1
  <2>2. CASE s # t
    <3>1. JoinKnows(s) /\ InviteKnows(s) /\ CreateKnows(s) /\ outcome[s] # "constraint"
      BY DEF IInv
    <3>2. /\ pc'[s] = pc[s] /\ req'[s] = req[s] /\ at'[s] = at[s] /\ now' = now
          /\ attempt'[s] = attempt[s] /\ held'[s] = held[s] /\ outcome'[s] = outcome[s]
          /\ members' = members /\ invites' = invites /\ parties' = parties
      BY <2>2 DEF OnlyLocals, vars
    <3>3. JoinKnows(s)'
      BY <3>1, <3>2 DEF JoinKnows, Current, Active, ExpiresAt, MembersOf, MembersWith
    <3>4. InviteKnows(s)'
      BY <3>1, <3>2 DEF InviteKnows, Active, GmOf
    <3>5. CreateKnows(s)'
      BY <3>1, <3>2 DEF CreateKnows
    <3>6. QED BY <3>1, <3>2, <3>3, <3>4, <3>5
  <2>3. QED BY <2>1, <2>2
<1>5. QED BY <1>1, <1>2, <1>3, <1>4 DEF IInv

(* What the shapes shared by the actions do to the slot that takes them.   *)
LEMMA CloseLocal ==
  ASSUME TxTypeOK, NEW t \in Txn, Close(t)
  PROVE  /\ pc'[t] = "idle" /\ held'[t] = {} /\ outcome'[t] = None /\ attempt'[t] = 0
         /\ \A s \in Txn \ {t} :
              /\ pc'[s] = pc[s] /\ req'[s] = req[s] /\ at'[s] = at[s]
              /\ attempt'[s] = attempt[s] /\ held'[s] = held[s] /\ outcome'[s] = outcome[s]
         /\ pc' \in [Txn -> Pc] /\ req' \in [Txn -> Request] /\ at' \in [Txn -> 0 .. MaxTime]
         /\ attempt' \in [Txn -> 0 .. MaxAttempts] /\ held' \in [Txn -> SUBSET Row]
         /\ outcome' \in [Txn -> Refusal \cup {None}]
BY MaxTimeAssumption, MaxAttemptsAssumption
   DEF Close, TxTypeOK, Pc, Request, NoRequest

(* What Return does to its slot.                                           *)
LEMMA ReturnLocal ==
  ASSUME TxTypeOK, NEW t \in Txn, NEW answer \in Refusal, Return(t, answer)
  PROVE  /\ pc'[t] = "rollback" /\ outcome'[t] = answer
         /\ \A s \in Txn \ {t} : pc'[s] = pc[s] /\ outcome'[s] = outcome[s]
         /\ pc' \in [Txn -> Pc] /\ outcome' \in [Txn -> Refusal \cup {None}]
BY DEF Return, Goto, TxTypeOK, Pc

(* What Goto does to its slot.                                             *)
LEMMA GotoLocal ==
  ASSUME TxTypeOK, NEW t \in Txn, NEW label \in Pc, Goto(t, label)
  PROVE  /\ pc'[t] = label
         /\ \A s \in Txn \ {t} : pc'[s] = pc[s]
         /\ pc' \in [Txn -> Pc]
BY DEF Goto, TxTypeOK

(* What Lock does to its slot, and whose rows it cannot take.              *)
LEMMA LockLocal ==
  ASSUME IInv, NEW t \in Txn, Lock(t)
  PROVE  /\ held'[t] = held[t] \cup Wants(t)
         /\ \A s \in Txn \ {t} : held'[s] = held[s] /\ held[s] \cap held'[t] = {}
         /\ held' \in [Txn -> SUBSET Row]
<1>1. TxTypeOK /\ JoinKnows(t) /\ InviteKnows(t) /\ Exclusive
  BY DEF IInv
<1>2. Wants(t) \in SUBSET Row
  BY <1>1, WantsRows
<1>3. held \in [Txn -> SUBSET Row]
  BY <1>1 DEF TxTypeOK
<1>4. \A s \in Txn \ {t} : held[s] \cap held[t] = {} /\ held[s] \cap Wants(t) = {}
  BY <1>1 DEF Lock, WaitsFor, Exclusive
<1>5. held' = [held EXCEPT ![t] = held[t] \cup Wants(t)]
  BY DEF Lock
<1> HIDE DEF Wants
<1>6. QED BY <1>2, <1>3, <1>4, <1>5

(* A transaction that rolls back or dies takes nothing with it but its     *)
(* locks.                                                                  *)
LEMMA EndPreserves ==
  ASSUME IInv, NEW t \in Txn, Rollback(t) \/ Abort(t)
  PROVE  IInv'
<1>1. Close(t) /\ UNCHANGED <<vars, now>> /\ TxTypeOK
  BY DEF Rollback, Abort, IInv
<1>2. OnlyLocals(t)
  BY <1>1, CloseLocal DEF OnlyLocals
<1>3. TxTypeOK'
  BY <1>1, CloseLocal DEF TxTypeOK, TypeOK, vars
<1>4. JoinKnows(t)' /\ InviteKnows(t)' /\ CreateKnows(t)' /\ \A s \in Txn : PendingDiffers(t, s)'
  BY <1>1, CloseLocal, MaxAttemptsAssumption DEF JoinKnows, InviteKnows, CreateKnows, PendingDiffers, JoinPc, InvitePc,
     AfterFind, AfterLock, AfterCheck, AfterOwned, AfterMember, AfterLinked, AfterRole,
     AfterGmLock, AfterRevoke
<1>5. outcome'[t] # "constraint" /\ \A s \in Txn \ {t} : held[s] \cap held'[t] = {}
  BY <1>1, CloseLocal, RefusalAssumption DEF Refusal
<1>6. QED BY <1>2, <1>3, <1>4, <1>5, Frame

(* A request that has only begun knows nothing yet.                        *)
LEMMA BeginPreserves ==
  ASSUME IInv, NEW t \in Txn, NEW label, NEW asked \in Request,
         Begin(t, label, asked),
         asked.user \in User,
         \/ /\ label = "commitParty" /\ asked.party \in Party /\ asked.party \notin parties
            /\ \A s \in Txn : pc[s] = "commitParty" => req[s].party # asked.party
         \/ label = "readRole" /\ asked.party \in Party
         \/ label = "findInvite" /\ asked.code \in Code /\ asked.character \in Character
  PROVE  IInv'
<1>1. /\ TxTypeOK /\ Exclusive /\ outcome[t] # "constraint" /\ InviteKnows(t)
      /\ pc[t] = "idle" /\ UNCHANGED <<vars, now, at, attempt, held, outcome>>
      /\ Goto(t, label) /\ req' = [req EXCEPT ![t] = asked]
  BY DEF IInv, Begin
<1>2. /\ pc'[t] = label /\ pc' \in [Txn -> Pc] /\ \A s \in Txn \ {t} : pc'[s] = pc[s]
  BY <1>1, GotoLocal DEF Pc, JoinPc, InvitePc
<1>3. req'[t] = asked /\ req' \in [Txn -> Request] /\ \A s \in Txn \ {t} : req'[s] = req[s]
  BY <1>1 DEF TxTypeOK
<1>4. OnlyLocals(t)
  BY <1>1, <1>2, <1>3 DEF OnlyLocals
<1>5. TxTypeOK'
  BY <1>1, <1>2, <1>3 DEF TxTypeOK, TypeOK, vars
<1>6. /\ JoinKnows(t)' /\ InviteKnows(t)' /\ CreateKnows(t)'
      /\ \A s \in Txn \ {t} : PendingDiffers(t, s)'
  BY <1>1, <1>2, <1>3 DEF vars, JoinKnows, InviteKnows, CreateKnows, PendingDiffers, JoinPc,
     InvitePc, AfterFind, AfterLock, AfterCheck, AfterOwned, AfterMember, AfterLinked, AfterRole,
     AfterGmLock, AfterRevoke
<1>7. outcome'[t] # "constraint" /\ \A s \in Txn \ {t} : held[s] \cap held'[t] = {}
  BY <1>1 DEF Exclusive
<1>8. QED BY <1>4, <1>5, <1>6, <1>7, Frame

(* The same for every kind of request that may arrive.                     *)
LEMMA ArrivePreserves ==
  ASSUME IInv, NEW t \in Txn, Arrive(t)
  PROVE  IInv'
<1>1. CASE \E u \in User, p \in Party : BeginCreate(t, u, p)
  <2>1. PICK u \in User, p \in Party : BeginCreate(t, u, p)
    BY <1>1
  <2> DEFINE asked == [NoRequest EXCEPT !.user = u, !.party = p]
  <2>2. asked \in Request /\ asked.user = u /\ asked.party = p
    BY DEF Request, NoRequest
  <2>3. Begin(t, "commitParty", asked)
    BY <2>1 DEF BeginCreate
  <2>4. p \notin parties /\ \A s \in Txn : pc[s] = "commitParty" => req[s].party # p
    BY <2>1 DEF BeginCreate
  <2> HIDE DEF asked
  <2>5. QED BY <2>2, <2>3, <2>4, BeginPreserves
<1>2. CASE \E u \in User, p \in Party : BeginRegenerate(t, u, p)
  <2>1. PICK u \in User, p \in Party : BeginRegenerate(t, u, p)
    BY <1>2
  <2> DEFINE asked == [NoRequest EXCEPT !.user = u, !.party = p]
  <2>2. asked \in Request /\ asked.user = u /\ asked.party = p
    BY DEF Request, NoRequest
  <2>3. Begin(t, "readRole", asked)
    BY <2>1 DEF BeginRegenerate
  <2> HIDE DEF asked
  <2>4. QED BY <2>2, <2>3, BeginPreserves
<1>3. CASE \E u \in User, k \in Code, c \in Character : BeginJoin(t, u, k, c)
  <2>1. PICK u \in User, k \in Code, c \in Character : BeginJoin(t, u, k, c)
    BY <1>3
  <2> DEFINE asked == [NoRequest EXCEPT !.user = u, !.code = k, !.character = c]
  <2>2. asked \in Request /\ asked.user = u /\ asked.code = k /\ asked.character = c
    BY DEF Request, NoRequest
  <2>3. Begin(t, "findInvite", asked)
    BY <2>1 DEF BeginJoin
  <2> HIDE DEF asked
  <2>4. QED BY <2>2, <2>3, BeginPreserves
<1>4. QED BY <1>1, <1>2, <1>3 DEF Arrive
------------------------------------------------------------------------------
(* A statement of t that leaves tables and clock alone and, apart from pc  *)
(* and outcome, changes t's own locals only.                               *)
Moved(t) ==
  /\ UNCHANGED <<vars, now>>
  /\ req' \in [Txn -> Request] /\ at' \in [Txn -> 0 .. MaxTime]
  /\ attempt' \in [Txn -> 0 .. MaxAttempts] /\ held' \in [Txn -> SUBSET Row]
  /\ \A s \in Txn \ {t} :
       /\ req'[s] = req[s] /\ at'[s] = at[s] /\ attempt'[s] = attempt[s]
       /\ held'[s] = held[s] /\ held[s] \cap held'[t] = {}

(* A transaction that returns with a refusal keeps its locks until its     *)
(* Rollback.                                                               *)
LEMMA ReturnPreserves ==
  ASSUME IInv, NEW t \in Txn, Moved(t), NEW answer \in Refusal \ {"constraint"},
         Return(t, answer)
  PROVE  IInv'
<1>1. /\ pc'[t] = "rollback" /\ outcome'[t] = answer
      /\ \A s \in Txn \ {t} : pc'[s] = pc[s] /\ outcome'[s] = outcome[s]
      /\ pc' \in [Txn -> Pc] /\ outcome' \in [Txn -> Refusal \cup {None}]
  BY ReturnLocal DEF IInv
<1>2. OnlyLocals(t) /\ TxTypeOK'
  BY <1>1 DEF Moved, OnlyLocals, IInv, TxTypeOK, TypeOK, vars
<1>3. JoinKnows(t)' /\ InviteKnows(t)' /\ CreateKnows(t)' /\ \A s \in Txn : PendingDiffers(t, s)'
  BY <1>1 DEF JoinKnows, InviteKnows, CreateKnows, PendingDiffers, JoinPc, InvitePc,
     AfterFind, AfterLock, AfterCheck, AfterOwned, AfterMember, AfterLinked, AfterRole,
     AfterGmLock, AfterRevoke
<1>4. QED BY <1>1, <1>2, <1>3, Frame DEF Moved

(* A transaction goes on to its next statement, given what it knows by     *)
(* then.                                                                   *)
LEMMA GotoPreserves ==
  ASSUME IInv, NEW t \in Txn, Moved(t), NEW label \in JoinPc \cup InvitePc,
         Goto(t, label), UNCHANGED outcome,
         pc'[t] = label => JoinKnows(t)' /\ InviteKnows(t)',
         label = "commitInvite" =>
           \A s \in Txn \ {t} : pc[s] = "commitInvite" => req[s].code # req'[t].code
  PROVE  IInv'
<1>1. /\ pc'[t] = label /\ pc' \in [Txn -> Pc] /\ \A s \in Txn \ {t} : pc'[s] = pc[s]
  BY GotoLocal DEF IInv, Pc
<1>2. OnlyLocals(t) /\ TxTypeOK'
  BY <1>1 DEF Moved, OnlyLocals, IInv, TxTypeOK, TypeOK, vars
<1>3. CreateKnows(t)' /\ \A s \in Txn \ {t} : PendingDiffers(t, s)'
  BY <1>1 DEF Moved, CreateKnows, PendingDiffers, JoinPc, InvitePc
<1>4. outcome'[t] # "constraint"
  BY DEF IInv
<1>5. QED BY <1>1, <1>2, <1>3, <1>4, Frame DEF Moved

(* What a transaction that goes on or returns with its locks starts from.  *)
LEMMA Premises ==
  ASSUME IInv, NEW t \in Txn
  PROVE  /\ TxTypeOK /\ TableFacts
         /\ JoinKnows(t) /\ InviteKnows(t)
         /\ req[t] \in Request /\ held[t] \subseteq Row /\ at[t] \in 0 .. MaxTime
         /\ \A s \in Txn \ {t} : held[s] \cap held[t] = {}
         /\ now \in 0 .. MaxTime
BY DEF IInv, TxTypeOK, Exclusive

(* Only the locks of t change. *)
LEMMA LockMoves ==
  ASSUME IInv, NEW t \in Txn, Lock(t), UNCHANGED <<vars, now, req, at, attempt>>
  PROVE  Moved(t) /\ held'[t] = held[t] \cup Wants(t)
BY LockLocal, Premises DEF Moved, TxTypeOK

(* Nothing but pc and outcome changes. *)
LEMMA StandMoves ==
  ASSUME IInv, NEW t \in Txn, UNCHANGED <<vars, now, req, at, attempt, held>>
  PROVE  Moved(t)
BY Premises DEF Moved, TxTypeOK

(* findInvitePartyQuery reads without a lock, so all it tells is which     *)
(* Party to lock.                                                          *)
LEMMA FindInvitePartyPreserves ==
  ASSUME IInv, NEW t \in Txn, FindInviteParty(t)
  PROVE  IInv'
<1>1. pc[t] = "findInvite" /\ UNCHANGED <<vars, now, at, attempt, held>>
  BY DEF FindInviteParty
<1>2. CASE invites[req[t].code] = None
  <2>1. Return(t, "invite_unavailable") /\ UNCHANGED <<vars, now, req, at, attempt, held>>
    BY <1>1, <1>2 DEF FindInviteParty
  <2>2. QED BY <2>1, StandMoves, ReturnPreserves DEF Refusal
<1>3. CASE invites[req[t].code] # None
  <2>1. /\ Goto(t, "lockParty") /\ UNCHANGED outcome
        /\ req' = [req EXCEPT ![t].party = invites[req[t].code].party]
    BY <1>3 DEF FindInviteParty
  <2>2. req[t].user \in User /\ req[t].code \in Code /\ req[t].character \in Character
    BY <1>1, Premises DEF JoinKnows, JoinPc
  <2>3. invites[req[t].code].party \in Party
    BY <1>3, <2>2, Premises DEF TxTypeOK, TypeOK, Invite
  <2>4. /\ req'[t].user = req[t].user /\ req'[t].code = req[t].code
        /\ req'[t].character = req[t].character /\ req'[t].party \in Party
        /\ req' \in [Txn -> Request] /\ \A s \in Txn \ {t} : req'[s] = req[s]
    BY <2>1, <2>3, Premises DEF TxTypeOK, Request
  <2>5. Moved(t)
    BY <1>1, <2>4, Premises DEF Moved, TxTypeOK
  <2>6. pc'[t] = "lockParty" => JoinKnows(t)' /\ InviteKnows(t)'
    BY <2>2, <2>4 DEF JoinKnows, InviteKnows, JoinPc, InvitePc, AfterFind, AfterLock, AfterCheck,
       AfterOwned, AfterMember, AfterLinked, AfterRole, AfterGmLock, AfterRevoke
  <2>7. QED BY <2>1, <2>5, <2>6, GotoPreserves DEF JoinPc
<1>4. QED BY <1>2, <1>3

(* The joining transaction now holds the Party.                            *)
LEMMA LockPartyPreserves ==
  ASSUME IInv, NEW t \in Txn, LockParty(t)
  PROVE  IInv'
<1>1. /\ pc[t] = "lockParty" /\ Lock(t) /\ Goto(t, "checkInvite")
      /\ UNCHANGED <<vars, now, req, at, attempt>> /\ UNCHANGED outcome
  BY DEF LockParty
<1>2. Moved(t) /\ req[t].party \in held'[t] /\ UNCHANGED req
  BY <1>1, LockMoves DEF Wants
<1>3. pc'[t] = "checkInvite" => JoinKnows(t)' /\ InviteKnows(t)'
  BY <1>1, <1>2, Premises DEF JoinKnows, InviteKnows, JoinPc, InvitePc, AfterFind, AfterLock,
     AfterCheck, AfterOwned, AfterMember, AfterLinked, AfterRole, AfterGmLock, AfterRevoke
<1>4. QED BY <1>1, <1>2, <1>3, GotoPreserves DEF JoinPc

(* The invite is current, and stays so while the Party is held.            *)
LEMMA CheckInvitePreserves ==
  ASSUME IInv, NEW t \in Txn, CheckInvite(t)
  PROVE  IInv'
<1>1. /\ pc[t] = "checkInvite" /\ Lock(t) /\ at' = [at EXCEPT ![t] = now]
      /\ UNCHANGED <<vars, now, req, attempt>>
  BY DEF CheckInvite
<1>2. at'[t] = now /\ at' \in [Txn -> 0 .. MaxTime] /\ \A s \in Txn \ {t} : at'[s] = at[s]
  BY <1>1, Premises DEF TxTypeOK
<1>3. Moved(t) /\ held'[t] = held[t] \cup Wants(t)
  BY <1>1, <1>2, LockLocal, Premises DEF Moved, TxTypeOK
<1>4. CASE Current(req[t].code, req[t].party, now)
  <2>1. Goto(t, "lockCharacter") /\ UNCHANGED outcome
    BY <1>4 DEF CheckInvite
  <2>2. Current(req[t].code, req[t].party, at[t])'
    BY <1>1, <1>2, <1>4 DEF Current, Active, ExpiresAt, vars
  <2>3. pc'[t] = "lockCharacter" => JoinKnows(t)' /\ InviteKnows(t)'
    BY <1>1, <1>2, <1>3, <2>2, Premises DEF JoinKnows, InviteKnows, JoinPc, InvitePc, AfterFind,
       AfterLock, AfterCheck, AfterOwned, AfterMember, AfterLinked, AfterRole, AfterGmLock,
       AfterRevoke
  <2>4. QED BY <1>3, <2>1, <2>3, GotoPreserves DEF JoinPc
<1>5. CASE ~Current(req[t].code, req[t].party, now)
  <2>1. Return(t, "invite_unavailable")
    BY <1>5 DEF CheckInvite
  <2>2. QED BY <1>3, <2>1, ReturnPreserves DEF Refusal
<1>6. QED BY <1>4, <1>5

(* The character is owned by the user, and held.                           *)
LEMMA LockCharacterPreserves ==
  ASSUME IInv, NEW t \in Txn, LockCharacter(t)
  PROVE  IInv'
<1>1. pc[t] = "lockCharacter" /\ Lock(t) /\ UNCHANGED <<vars, now, req, at, attempt>>
  BY DEF LockCharacter
<1>2. Moved(t) /\ held'[t] = held[t] \cup Wants(t)
  BY <1>1, LockMoves
<1>3. CASE Owner[req[t].character] = req[t].user
  <2>1. Goto(t, "loadMember") /\ UNCHANGED outcome
    BY <1>3 DEF LockCharacter
  <2>2. req[t].character \in held'[t]
    BY <1>1, <1>2, <1>3 DEF Wants
  <2>3. Current(req[t].code, req[t].party, at[t])' = Current(req[t].code, req[t].party, at[t])
    BY <1>1 DEF Current, Active, ExpiresAt, vars
  <2>4. pc'[t] = "loadMember" => JoinKnows(t)' /\ InviteKnows(t)'
    BY <1>1, <1>2, <1>3, <2>2, <2>3, Premises DEF JoinKnows, InviteKnows, JoinPc, InvitePc,
       AfterFind, AfterLock, AfterCheck, AfterOwned, AfterMember, AfterLinked, AfterRole,
       AfterGmLock, AfterRevoke
  <2>5. QED BY <1>2, <2>1, <2>4, GotoPreserves DEF JoinPc
<1>4. CASE Owner[req[t].character] # req[t].user
  BY <1>2, <1>4, ReturnPreserves DEF LockCharacter, Refusal
<1>5. QED BY <1>3, <1>4

(* The user has no membership in the Party, and the held Party keeps it    *)
(* so.                                                                     *)
LEMMA LoadMemberPreserves ==
  ASSUME IInv, NEW t \in Txn, LoadMember(t)
  PROVE  IInv'
<1>1. pc[t] = "loadMember" /\ Lock(t) /\ UNCHANGED <<vars, now, req, at, attempt>>
  BY DEF LoadMember
<1>2. Moved(t) /\ held'[t] = held[t] \cup Wants(t)
  BY <1>1, LockMoves
<1>3. CASE MembersOf(req[t].party, req[t].user) = {}
  <2>1. Goto(t, "findLinked") /\ UNCHANGED outcome
    BY <1>3 DEF LoadMember
  <2>2. /\ Current(req[t].code, req[t].party, at[t])' = Current(req[t].code, req[t].party, at[t])
        /\ MembersOf(req[t].party, req[t].user)' = {}
    BY <1>1, <1>3 DEF Current, Active, ExpiresAt, MembersOf, vars
  <2>3. pc'[t] = "findLinked" => JoinKnows(t)' /\ InviteKnows(t)'
    BY <1>1, <1>2, <2>2, Premises DEF JoinKnows, InviteKnows, JoinPc, InvitePc,
       AfterFind, AfterLock, AfterCheck, AfterOwned, AfterMember, AfterLinked, AfterRole,
       AfterGmLock, AfterRevoke
  <2>4. QED BY <1>2, <2>1, <2>3, GotoPreserves DEF JoinPc
<1>4. CASE MembersOf(req[t].party, req[t].user) # {}
  <2>1. PICK answer \in {"replayed", "already_member"} : Return(t, answer)
    BY <1>4 DEF LoadMember
  <2>2. QED BY <1>2, <2>1, ReturnPreserves DEF Refusal
<1>5. QED BY <1>3, <1>4

(* The character is in no Party, and the held character keeps it so.       *)
LEMMA FindLinkedPreserves ==
  ASSUME IInv, NEW t \in Txn, FindLinkedCharacter(t)
  PROVE  IInv'
<1>1. pc[t] = "findLinked" /\ Lock(t) /\ UNCHANGED <<vars, now, req, at, attempt>>
  BY DEF FindLinkedCharacter
<1>2. Moved(t) /\ held'[t] = held[t] \cup Wants(t)
  BY <1>1, LockMoves
<1>3. CASE MembersWith(req[t].character) = {}
  <2>1. Goto(t, "insertMember") /\ UNCHANGED outcome
    BY <1>3 DEF FindLinkedCharacter
  <2>2. /\ Current(req[t].code, req[t].party, at[t])' = Current(req[t].code, req[t].party, at[t])
        /\ MembersOf(req[t].party, req[t].user)' = MembersOf(req[t].party, req[t].user)
        /\ MembersWith(req[t].character)' = {}
    BY <1>1, <1>3 DEF Current, Active, ExpiresAt, MembersOf, MembersWith, vars
  <2>3. pc'[t] = "insertMember" => JoinKnows(t)' /\ InviteKnows(t)'
    BY <1>1, <1>2, <2>2, Premises DEF JoinKnows, InviteKnows, JoinPc, InvitePc,
       AfterFind, AfterLock, AfterCheck, AfterOwned, AfterMember, AfterLinked, AfterRole,
       AfterGmLock, AfterRevoke
  <2>4. QED BY <1>2, <2>1, <2>3, GotoPreserves DEF JoinPc
<1>4. CASE MembersWith(req[t].character) # {}
  BY <1>2, <1>4, ReturnPreserves DEF FindLinkedCharacter, Refusal
<1>5. QED BY <1>3, <1>4

(* Neither unique index has a conflicting row: the locks have kept the     *)
(* membership and the character free since they were looked up.            *)
LEMMA InsertMemberPreserves ==
  ASSUME IInv, NEW t \in Txn, InsertMember(t)
  PROVE  IInv'
<1>1. pc[t] = "insertMember" /\ UNCHANGED <<vars, now, req, at, attempt, held>>
  BY DEF InsertMember
<1>2. MembersOf(req[t].party, req[t].user) = {} /\ MembersWith(req[t].character) = {}
  BY <1>1, Premises DEF JoinKnows, AfterFind, AfterLock, AfterCheck, AfterOwned, AfterMember,
     AfterLinked
<1>3. Goto(t, "commitMember") /\ UNCHANGED outcome
  BY <1>2 DEF InsertMember, MembersOf, MembersWith
<1>4. /\ Current(req[t].code, req[t].party, at[t])' = Current(req[t].code, req[t].party, at[t])
      /\ MembersOf(req[t].party, req[t].user)' = {} /\ MembersWith(req[t].character)' = {}
  BY <1>1, <1>2 DEF Current, Active, ExpiresAt, MembersOf, MembersWith, vars
<1>5. pc'[t] = "commitMember" => JoinKnows(t)' /\ InviteKnows(t)'
  BY <1>1, <1>4, Premises DEF JoinKnows, InviteKnows, JoinPc, InvitePc,
     AfterFind, AfterLock, AfterCheck, AfterOwned, AfterMember, AfterLinked, AfterRole,
     AfterGmLock, AfterRevoke
<1>6. QED BY <1>1, <1>3, <1>5, StandMoves, GotoPreserves DEF JoinPc
------------------------------------------------------------------------------
(* The role was read without a lock, but a GM row is never taken away.     *)
LEMMA ReadRolePreserves ==
  ASSUME IInv, NEW t \in Txn, ReadRole(t)
  PROVE  IInv'
<1>1. pc[t] = "readRole" /\ UNCHANGED <<vars, now, req, at, attempt, held>>
  BY DEF ReadRole
<1>2. Moved(t)
  BY <1>1, StandMoves
<1>3. CASE Return(t, "not_found")
  BY <1>2, <1>3, ReturnPreserves DEF Refusal
<1>4. CASE \E m \in MembersOf(req[t].party, req[t].user) :
             m.role = "gm" /\ Goto(t, "lockPartyAsGm") /\ UNCHANGED outcome
  <2>1. PICK m \in MembersOf(req[t].party, req[t].user) : m.role = "gm"
    BY <1>4
  <2>2. m \in members /\ m.party = req[t].party /\ m.user = req[t].user /\ m.character = None
    BY <2>1, Premises DEF MembersOf, TableFacts
  <2>3. m = GmOf(req[t].user, req[t].party)
    BY <2>1, <2>2, Premises DEF TxTypeOK, TypeOK, Membership, GmOf
  <2>4. GmOf(req[t].user, req[t].party) \in members'
    BY <1>1, <2>2, <2>3 DEF vars
  <2>5. pc'[t] = "lockPartyAsGm" => JoinKnows(t)' /\ InviteKnows(t)'
    BY <1>1, <2>4, Premises DEF JoinKnows, InviteKnows, GmOf, JoinPc, InvitePc, AfterFind,
       AfterLock, AfterCheck, AfterOwned, AfterMember, AfterLinked, AfterRole, AfterGmLock,
       AfterRevoke
  <2>6. QED BY <1>2, <1>4, <2>5, GotoPreserves DEF InvitePc
<1>5. CASE \E m \in MembersOf(req[t].party, req[t].user) :
             m.role # "gm" /\ Goto(t, "lockPartyAsPlayer") /\ UNCHANGED outcome
  <2>1. pc'[t] = "lockPartyAsPlayer" => JoinKnows(t)' /\ InviteKnows(t)'
    BY <1>1, Premises DEF JoinKnows, InviteKnows, JoinPc, InvitePc, AfterFind,
       AfterLock, AfterCheck, AfterOwned, AfterMember, AfterLinked, AfterRole, AfterGmLock,
       AfterRevoke
  <2>2. QED BY <1>2, <1>5, <2>1, GotoPreserves DEF InvitePc
<1>6. QED BY <1>3, <1>4, <1>5 DEF ReadRole

(* The regenerating transaction now holds the Party.                       *)
LEMMA LockPartyForInvitePreserves ==
  ASSUME IInv, NEW t \in Txn, LockPartyForInvite(t)
  PROVE  IInv'
<1>1. Lock(t) /\ UNCHANGED <<vars, now, req, at, attempt>>
  BY DEF LockPartyForInvite
<1>2. Moved(t) /\ held'[t] = held[t] \cup Wants(t)
  BY <1>1, LockMoves
<1>3. CASE pc[t] = "lockPartyAsGm" /\ Goto(t, "revoke") /\ UNCHANGED outcome
  <2>1. req[t].party \in held'[t]
    BY <1>2, <1>3 DEF Wants
  <2>2. pc'[t] = "revoke" => JoinKnows(t)' /\ InviteKnows(t)'
    BY <1>1, <1>3, <2>1, Premises DEF JoinKnows, InviteKnows, GmOf, vars, JoinPc, InvitePc,
       AfterFind, AfterLock, AfterCheck, AfterOwned, AfterMember, AfterLinked, AfterRole,
       AfterGmLock, AfterRevoke
  <2>3. QED BY <1>2, <1>3, <2>2, GotoPreserves DEF InvitePc
<1>4. CASE Return(t, "forbidden")
  BY <1>2, <1>4, ReturnPreserves DEF Refusal
<1>5. QED BY <1>3, <1>4 DEF LockPartyForInvite

(* No invite is younger than the clock, so the CHECK lets every UPDATE     *)
(* through, and t now holds all active invites of the Party.               *)
LEMMA RevokeActiveInvitePreserves ==
  ASSUME IInv, NEW t \in Txn, RevokeActiveInvite(t)
  PROVE  IInv'
<1>1. /\ pc[t] = "revoke" /\ Lock(t) /\ at' = [at EXCEPT ![t] = now]
      /\ UNCHANGED <<vars, now, req, attempt>>
  BY DEF RevokeActiveInvite
<1>2. at'[t] = now /\ at' \in [Txn -> 0 .. MaxTime] /\ \A s \in Txn \ {t} : at'[s] = at[s]
  BY <1>1, Premises DEF TxTypeOK
<1>3. Moved(t) /\ held'[t] = held[t] \cup Wants(t)
  BY <1>1, <1>2, LockLocal, Premises DEF Moved, TxTypeOK
<1>4. \A k \in Code : Active(k, req[t].party) => k \in held'[t] /\ invites[k].createdAt <= now
  BY <1>1, <1>3, Premises DEF Wants, ActiveInvites, TableFacts, Active
<1>5. Goto(t, "mint") /\ UNCHANGED outcome
  BY <1>4 DEF RevokeActiveInvite, ActiveInvites
<1>6. \A k \in Code : Active(k, req[t].party)' =>
        k \in held'[t] /\ invites'[k].createdAt <= at'[t]
  BY <1>1, <1>2, <1>4 DEF Active, vars
<1>7. GmOf(req[t].user, req[t].party) \in members /\ req[t].party \in held'[t]
  BY <1>1, <1>3, Premises DEF InviteKnows, AfterRole, AfterGmLock
<1>8. now \in Nat
  BY Premises, MaxTimeAssumption
<1>9. pc'[t] = "mint" => JoinKnows(t)' /\ InviteKnows(t)'
  BY <1>1, <1>2, <1>6, <1>7, <1>8, Premises DEF JoinKnows, InviteKnows, GmOf, vars, Active,
     JoinPc, InvitePc, AfterFind, AfterLock, AfterCheck, AfterOwned, AfterMember, AfterLinked,
     AfterRole, AfterGmLock, AfterRevoke
<1>10. QED BY <1>3, <1>5, <1>9, GotoPreserves DEF InvitePc

(* The index party_invites_one_non_revoked_per_party_idx has nothing to    *)
(* object to: t holds the active invites it is about to revoke.            *)
LEMMA MintInvitePreserves ==
  ASSUME IInv, NEW t \in Txn, NEW k \in Code, MintInvite(t, k)
  PROVE  IInv'
<1>1. /\ pc[t] = "mint" /\ UNCHANGED <<vars, now, at, held>>
      /\ attempt' = [attempt EXCEPT ![t] = @ + 1]
      /\ \A s \in Txn \ {t} : pc[s] = "commitInvite" => req[s].code # k
  BY DEF MintInvite
<1>2. attempt[t] < MaxAttempts /\ attempt \in [Txn -> 0 .. MaxAttempts]
  BY <1>1, Premises DEF InviteKnows, TxTypeOK
<1>3. /\ attempt' \in [Txn -> 0 .. MaxAttempts] /\ attempt'[t] = attempt[t] + 1
      /\ \A s \in Txn \ {t} : attempt'[s] = attempt[s]
  BY <1>1, <1>2, MaxAttemptsAssumption
<1>4. UNCHANGED req => Moved(t)
  BY <1>1, <1>3, Premises DEF Moved, TxTypeOK
<1>5. CASE ~LastAttempt(t) /\ UNCHANGED <<pc, req, outcome>>
  <2>1. attempt'[t] < MaxAttempts
    BY <1>2, <1>3, <1>5, MaxAttemptsAssumption DEF LastAttempt
  <2>2. Goto(t, "mint")
    BY <1>1, <1>5, Premises DEF Goto, TxTypeOK
  <2>3. JoinKnows(t)'
    BY <1>1, <1>5 DEF JoinKnows, JoinPc, AfterFind, AfterLock, AfterCheck, AfterOwned,
       AfterMember, AfterLinked
  <2>4. InviteKnows(t)'
    BY <1>1, <1>5, <2>1, Premises DEF InviteKnows, GmOf, Active, vars
  <2>5. QED BY <1>4, <1>5, <2>2, <2>3, <2>4, GotoPreserves DEF InvitePc
<1>6. CASE Return(t, "server_error") /\ UNCHANGED req
  BY <1>4, <1>6, ReturnPreserves DEF Refusal
<1>7. CASE invites[k] = None
  <2>1. ActiveInvites(req[t].party) \ held[t] = {}
    BY <1>1, Premises DEF InviteKnows, ActiveInvites, AfterRole, AfterGmLock, AfterRevoke
  <2>2. Goto(t, "commitInvite") /\ req' = [req EXCEPT ![t].code = k] /\ UNCHANGED outcome
    BY <1>7, <2>1 DEF MintInvite
  <2>3. /\ req'[t].code = k /\ req'[t].user = req[t].user /\ req'[t].party = req[t].party
        /\ req' \in [Txn -> Request] /\ \A s \in Txn \ {t} : req'[s] = req[s]
    BY <2>2, Premises DEF TxTypeOK, Request
  <2>4. Moved(t)
    BY <1>1, <1>3, <2>3, Premises DEF Moved, TxTypeOK
  <2>5. pc'[t] = "commitInvite" => JoinKnows(t)'
    BY DEF JoinKnows, JoinPc, AfterFind, AfterLock, AfterCheck, AfterOwned, AfterMember,
       AfterLinked
  <2>6. pc'[t] = "commitInvite" => InviteKnows(t)'
    BY <1>1, <1>7, <2>3, Premises DEF InviteKnows, GmOf, Active, vars, InvitePc, AfterRole,
       AfterGmLock, AfterRevoke
  <2>7. QED BY <1>1, <2>2, <2>3, <2>4, <2>5, <2>6, GotoPreserves DEF InvitePc
<1>8. CASE invites[k] # None
  <2>1. \/ ~LastAttempt(t) /\ UNCHANGED <<pc, req, outcome>>
        \/ Return(t, "server_error") /\ UNCHANGED req
    BY <1>8 DEF MintInvite
  <2>2. QED BY <1>5, <1>6, <2>1
<1>9. QED BY <1>7, <1>8
------------------------------------------------------------------------------
(* Time only makes the instants that were read older.                      *)
LEMMA TickPreserves ==
  ASSUME IInv, Tick
  PROVE  IInv'
<1>1. now' = now + 1 /\ now < MaxTime /\ UNCHANGED <<vars, locals>>
  BY DEF Tick
<1>2. TxTypeOK'
  BY <1>1, MaxTimeAssumption DEF IInv, TxTypeOK, TypeOK, vars, locals
<1>3. Exclusive' /\ PendingDiffer'
  BY <1>1 DEF IInv, Exclusive, PendingDiffer, locals
<1>4. now \in Nat /\ \A t \in Txn : at[t] \in Nat
  BY MaxTimeAssumption DEF IInv, TxTypeOK
<1>5. \A k \in Code : invites[k] # None => invites[k].createdAt \in Nat
  BY DEF IInv, TxTypeOK, TypeOK, Invite
<1>6. TableFacts'
  BY <1>1, <1>4, <1>5 DEF IInv, TableFacts, NoOrphans, vars
<1>7. ASSUME NEW t \in Txn
      PROVE  JoinKnows(t)' /\ InviteKnows(t)' /\ CreateKnows(t)' /\ outcome'[t] # "constraint"
  <2>1. JoinKnows(t) /\ InviteKnows(t) /\ CreateKnows(t) /\ outcome[t] # "constraint"
    BY DEF IInv
  <2>2. JoinKnows(t)'
    BY <1>1, <1>4, <2>1 DEF JoinKnows, Current, Active, ExpiresAt, MembersOf, MembersWith, vars,
       locals
  <2>3. InviteKnows(t)'
    BY <1>1, <1>4, <2>1 DEF InviteKnows, Active, GmOf, vars, locals
  <2>4. CreateKnows(t)' /\ outcome'[t] # "constraint"
    BY <1>1, <2>1 DEF CreateKnows, vars, locals
  <2>5. QED BY <2>2, <2>3, <2>4
<1>8. QED BY <1>2, <1>3, <1>6, <1>7 DEF IInv

(* What a commit has to show: its rows are well formed and what the other  *)
(* transactions know survives them.                                        *)
LEMMA CommitPreserves ==
  ASSUME IInv, NEW t \in Txn, Close(t), now' = now, TypeOK', TableFacts',
         \A s \in Txn \ {t} : JoinKnows(s)' /\ InviteKnows(s)' /\ CreateKnows(s)'
  PROVE  IInv'
<1>1. TxTypeOK /\ Exclusive /\ PendingDiffer /\ \A s \in Txn : outcome[s] # "constraint"
  BY DEF IInv
<1>2. TxTypeOK'
  BY <1>1, CloseLocal DEF TxTypeOK
<1>3. Exclusive' /\ PendingDiffer'
  BY <1>1, CloseLocal DEF Exclusive, PendingDiffer
<1>4. JoinKnows(t)' /\ InviteKnows(t)' /\ CreateKnows(t)'
  BY <1>1, CloseLocal, MaxAttemptsAssumption DEF JoinKnows, InviteKnows, CreateKnows, JoinPc,
     InvitePc, AfterFind, AfterLock, AfterCheck, AfterOwned, AfterMember, AfterLinked, AfterRole,
     AfterGmLock, AfterRevoke
<1>5. \A s \in Txn : outcome'[s] # "constraint"
  BY <1>1, CloseLocal, RefusalAssumption DEF Refusal
<1>6. QED BY <1>2, <1>3, <1>4, <1>5 DEF IInv

(* Two transactions past the same lock are past it for different rows.     *)
LEMMA LocksApart ==
  ASSUME IInv, NEW s \in Txn, NEW t \in Txn, s # t
  PROVE  /\ pc[s] \in AfterLock \cup AfterGmLock /\ pc[t] \in AfterLock \cup AfterGmLock =>
              req[s].party # req[t].party
         /\ pc[s] \in AfterOwned /\ pc[t] \in AfterOwned =>
              req[s].character # req[t].character
BY DEF IInv, Exclusive, JoinKnows, InviteKnows

(* Nothing is known yet about a Party that is not committed.               *)
LEMMA CommitPartyPreserves ==
  ASSUME IInv, NEW t \in Txn, CommitParty(t)
  PROVE  IInv'
<1> DEFINE p == req[t].party
           u == req[t].user
<1>1. /\ Close(t) /\ now' = now /\ invites' = invites
      /\ parties' = parties \cup {p} /\ members' = members \cup {GmOf(u, p)}
  BY DEF CommitParty
<1>2. u \in User /\ p \in Party /\ p \notin parties
  BY DEF CommitParty, IInv, CreateKnows
<1> HIDE DEF p, u
<1>3. TypeOK'
  BY <1>1, <1>2, Premises DEF TxTypeOK, TypeOK, Membership, GmOf
<1>4. TableFacts'
  BY <1>1, <1>2, Premises DEF TableFacts, NoOrphans, GmOf
<1>5. ASSUME NEW s \in Txn \ {t}
      PROVE  JoinKnows(s)' /\ InviteKnows(s)' /\ CreateKnows(s)'
  <2>1. /\ pc'[s] = pc[s] /\ req'[s] = req[s] /\ at'[s] = at[s]
        /\ attempt'[s] = attempt[s] /\ held'[s] = held[s]
    BY <1>1, CloseLocal, Premises
  <2>2. JoinKnows(s) /\ InviteKnows(s) /\ CreateKnows(s)
    BY DEF IInv
  <2>3. pc[s] \in AfterMember =>
          MembersOf(req[s].party, req[s].user)' = MembersOf(req[s].party, req[s].user)
    <3>1. pc[s] \in AfterMember => req[s].party \in parties /\ req[s].code \in Code
      BY <2>2, Premises DEF JoinKnows, Current, Active, TableFacts, NoOrphans, JoinPc, AfterFind,
         AfterLock, AfterCheck, AfterOwned, AfterMember
    <3>2. QED BY <1>1, <1>2, <2>1, <3>1 DEF MembersOf, GmOf
  <2>4. pc[s] \in AfterLinked => MembersWith(req[s].character)' = MembersWith(req[s].character)
    <3>1. pc[s] \in AfterLinked => req[s].character # None
      BY <2>2, NoneAssumption DEF JoinKnows, JoinPc, AfterFind, AfterLock, AfterCheck, AfterOwned,
         AfterMember, AfterLinked
    <3>2. QED BY <1>1, <2>1, <3>1 DEF MembersWith, GmOf
  <2>5. JoinKnows(s)'
    BY <1>1, <2>1, <2>2, <2>3, <2>4 DEF JoinKnows, Current, Active, ExpiresAt
  <2>6. InviteKnows(s)'
    BY <1>1, <2>1, <2>2 DEF InviteKnows, Active, GmOf
  <2>7. CreateKnows(s)'
    <3>1. pc[s] = "commitParty" => req[s].party # p
      BY DEF IInv, PendingDiffer, CommitParty, p
    <3>2. QED BY <1>1, <2>1, <2>2, <3>1 DEF CreateKnows
  <2>8. QED BY <2>5, <2>6, <2>7
<1>6. QED BY <1>1, <1>3, <1>4, <1>5, CommitPreserves

(* The Party's lock keeps its other invites and its joins out of the way.  *)
LEMMA CommitInvitePreserves ==
  ASSUME IInv, NEW t \in Txn, CommitInvite(t)
  PROVE  IInv'
<1> DEFINE p == req[t].party
           k == req[t].code
<1>1. /\ Close(t) /\ now' = now /\ parties' = parties /\ members' = members
      /\ invites' = Rotated(p, k, at[t]) /\ pc[t] = "commitInvite"
  BY DEF CommitInvite
<1>2. /\ p \in Party /\ k \in Code /\ invites[k] = None /\ at[t] <= now
      /\ GmOf(req[t].user, p) \in members
  BY <1>1, Premises DEF InviteKnows, InvitePc, AfterRole, AfterGmLock, AfterRevoke
<1>3. at[t] \in Nat /\ now \in Nat
  BY Premises, MaxTimeAssumption
<1>4. p \in parties
  BY <1>2, Premises DEF TableFacts, NoOrphans, GmOf
<1> HIDE DEF p, k
<1>5. invites \in [Code -> Invite \cup {None}]
  BY Premises DEF TxTypeOK, TypeOK
<1>6. /\ invites' \in [Code -> Invite \cup {None}]
      /\ invites'[k] = [party |-> p, createdAt |-> at[t], revokedAt |-> None]
  BY <1>1, <1>2, <1>3, <1>5 DEF Rotated, Active, Invite
<1>7. ASSUME NEW c \in Code, c # k
      PROVE  /\ Active(c, p) => invites'[c] = [invites[c] EXCEPT !.revokedAt = at[t]]
             /\ ~Active(c, p) => invites'[c] = invites[c]
  BY <1>1, <1>7 DEF Rotated
<1>8. TypeOK'
  BY <1>1, <1>6, Premises DEF TxTypeOK, TypeOK
<1>9. TableFacts'
  <2>1. ASSUME NEW c \in Code, invites'[c] # None
        PROVE  invites'[c].createdAt <= now /\ invites'[c].party \in parties
    <3>1. CASE c = k
      BY <1>2, <1>4, <1>6, <3>1
    <3>2. CASE c # k
      <4>1. invites[c] # None
        BY <1>7, <2>1, <3>2 DEF Active
      <4>2. invites[c] \in Invite /\ invites[c].createdAt <= now /\ invites[c].party \in parties
        BY <1>5, <4>1, Premises DEF TableFacts, NoOrphans
      <4>3. invites'[c].createdAt = invites[c].createdAt /\ invites'[c].party = invites[c].party
        BY <1>7, <3>2, <4>2 DEF Invite
      <4>4. QED BY <4>2, <4>3
    <3>3. QED BY <3>1, <3>2
  <2>2. QED BY <1>1, <2>1, Premises DEF TableFacts, NoOrphans
<1>10. ASSUME NEW s \in Txn \ {t}
       PROVE  JoinKnows(s)' /\ InviteKnows(s)' /\ CreateKnows(s)'
  <2> DEFINE q == req[s].party
  <2>1. /\ pc'[s] = pc[s] /\ req'[s] = req[s] /\ at'[s] = at[s]
        /\ attempt'[s] = attempt[s] /\ held'[s] = held[s]
    BY <1>1, CloseLocal, Premises
  <2>2. JoinKnows(s) /\ InviteKnows(s) /\ CreateKnows(s)
    BY DEF IInv
  <2>3. pc[s] \in AfterLock \cup AfterGmLock => q # p
    BY <1>1, LocksApart DEF p, AfterRole, AfterGmLock
  <2>4. pc[s] \in AfterCheck => Current(req[s].code, q, at[s])'
    <3>1. SUFFICES ASSUME pc[s] \in AfterCheck PROVE Current(req[s].code, q, at[s])'
      OBVIOUS
    <3>2. q # p /\ req[s].code \in Code /\ Current(req[s].code, q, at[s])
      BY <2>2, <2>3, <3>1 DEF JoinKnows, JoinPc, AfterFind, AfterLock, AfterCheck
    <3>3. req[s].code # k /\ ~Active(req[s].code, p)
      BY <1>2, <3>2 DEF Current, Active
    <3>4. invites'[req[s].code] = invites[req[s].code]
      BY <1>7, <3>2, <3>3
    <3>5. QED BY <2>1, <3>2, <3>4 DEF Current, Active, ExpiresAt
  <2>5. JoinKnows(s)'
    BY <1>1, <2>1, <2>2, <2>4 DEF JoinKnows, MembersOf, MembersWith
  <2>6. pc[s] \in AfterGmLock =>
          \A c \in Code : Active(c, q)' => invites'[c] = invites[c] /\ Active(c, q)
    <3>1. SUFFICES ASSUME q # p, NEW c \in Code, Active(c, q)'
                   PROVE  invites'[c] = invites[c] /\ Active(c, q)
      BY <2>3
    <3>2. c # k
      BY <1>6, <2>1, <3>1 DEF Active
    <3>3. ~Active(c, p)
      BY ZenonT(60), <1>5, <1>7, <2>1, <3>1, <3>2 DEF Active, Invite
    <3>4. QED BY <1>7, <2>1, <3>1, <3>2, <3>3 DEF Active
  <2>7. pc[s] = "commitInvite" => invites'[req[s].code] = None
    <3>1. SUFFICES ASSUME pc[s] = "commitInvite" PROVE invites'[req[s].code] = None
      OBVIOUS
    <3>2. req[s].code # k
      BY <1>1, <3>1 DEF IInv, PendingDiffer, k
    <3>3. req[s].code \in Code /\ invites[req[s].code] = None
      BY <2>2, <3>1 DEF InviteKnows
    <3>4. QED BY <1>7, <3>2, <3>3 DEF Active
  <2>8. InviteKnows(s)'
    BY <1>1, <2>1, <2>2, <2>6, <2>7 DEF InviteKnows, GmOf, AfterRevoke
  <2>9. CreateKnows(s)'
    BY <1>1, <2>1, <2>2 DEF CreateKnows
  <2>10. QED BY <2>5, <2>8, <2>9
<1>11. QED BY <1>1, <1>8, <1>9, <1>10, CommitPreserves

(* The locks on the Party and on the character keep every other join away  *)
(* from the two keys of the new row.                                       *)
LEMMA CommitMemberPreserves ==
  ASSUME IInv, NEW t \in Txn, CommitMember(t)
  PROVE  IInv'
<1> DEFINE new == PlayerOf(req[t].user, req[t].party, req[t].character)
<1>1. /\ Close(t) /\ now' = now /\ parties' = parties /\ invites' = invites
      /\ members' = members \cup {new} /\ pc[t] = "commitMember"
  BY DEF CommitMember
<1>2. /\ req[t].user \in User /\ req[t].party \in Party /\ req[t].code \in Code
      /\ req[t].character \in Character /\ Current(req[t].code, req[t].party, at[t])
  BY <1>1, Premises DEF JoinKnows, JoinPc, AfterFind, AfterLock, AfterCheck
<1>3. req[t].party \in parties
  BY <1>2, Premises DEF Current, Active, TableFacts, NoOrphans
<1>4. TypeOK'
  BY <1>1, <1>2, Premises DEF TxTypeOK, TypeOK, Membership, PlayerOf
<1>5. TableFacts'
  BY <1>1, <1>3, Premises DEF TableFacts, NoOrphans, PlayerOf
<1>6. ASSUME NEW s \in Txn \ {t}
      PROVE  JoinKnows(s)' /\ InviteKnows(s)' /\ CreateKnows(s)'
  <2>1. /\ pc'[s] = pc[s] /\ req'[s] = req[s] /\ at'[s] = at[s]
        /\ attempt'[s] = attempt[s] /\ held'[s] = held[s]
    BY <1>1, CloseLocal, Premises
  <2>2. JoinKnows(s) /\ InviteKnows(s) /\ CreateKnows(s)
    BY DEF IInv
  <2>3. pc[s] \in AfterMember =>
          MembersOf(req[s].party, req[s].user)' = MembersOf(req[s].party, req[s].user)
    <3>1. pc[s] \in AfterMember => req[s].party # req[t].party
      BY <1>1, LocksApart DEF AfterFind, AfterLock, AfterCheck, AfterOwned, AfterMember
    <3>2. QED BY <1>1, <2>1, <3>1 DEF MembersOf, PlayerOf
  <2>4. pc[s] \in AfterLinked => MembersWith(req[s].character)' = MembersWith(req[s].character)
    <3>1. pc[s] \in AfterLinked => req[s].character # req[t].character
      BY <1>1, LocksApart DEF AfterFind, AfterLock, AfterCheck, AfterOwned, AfterMember,
         AfterLinked
    <3>2. QED BY <1>1, <2>1, <3>1 DEF MembersWith, PlayerOf
  <2>5. JoinKnows(s)'
    BY <1>1, <2>1, <2>2, <2>3, <2>4 DEF JoinKnows, Current, Active, ExpiresAt
  <2>6. InviteKnows(s)'
    BY <1>1, <2>1, <2>2 DEF InviteKnows, Active, GmOf
  <2>7. CreateKnows(s)'
    BY <1>1, <2>1, <2>2 DEF CreateKnows
  <2>8. QED BY <2>5, <2>6, <2>7
<1>7. QED BY <1>1, <1>4, <1>5, <1>6, CommitPreserves
------------------------------------------------------------------------------
(* Every action of the transactions preserves the invariant.               *)
LEMMA NextPreserves ==
  ASSUME IInv, [TxNext]_allVars
  PROVE  IInv'
<1>1. CASE Tick
  BY <1>1, TickPreserves
<1>2. ASSUME NEW t \in Txn, Arrive(t) \/ Step(t) \/ Abort(t)
      PROVE  IInv'
  <2>1. CASE Arrive(t)
    BY <2>1, ArrivePreserves
  <2>2. CASE Abort(t) \/ Rollback(t)
    BY <2>2, EndPreserves
  <2>3. CASE CommitParty(t) \/ CommitInvite(t) \/ CommitMember(t)
    BY <2>3, CommitPartyPreserves, CommitInvitePreserves, CommitMemberPreserves
  <2>4. CASE ReadRole(t) \/ LockPartyForInvite(t) \/ RevokeActiveInvite(t)
    BY <2>4, ReadRolePreserves, LockPartyForInvitePreserves, RevokeActiveInvitePreserves
  <2>5. CASE \E k \in Code : MintInvite(t, k)
    BY <2>5, MintInvitePreserves
  <2>6. CASE FindInviteParty(t) \/ LockParty(t) \/ CheckInvite(t) \/ LockCharacter(t)
    BY <2>6, FindInvitePartyPreserves, LockPartyPreserves, CheckInvitePreserves,
       LockCharacterPreserves
  <2>7. CASE LoadMember(t) \/ FindLinkedCharacter(t) \/ InsertMember(t)
    BY <2>7, LoadMemberPreserves, FindLinkedPreserves, InsertMemberPreserves
  <2>8. QED BY <1>2, <2>1, <2>2, <2>3, <2>4, <2>5, <2>6, <2>7 DEF Step
<1>3. CASE UNCHANGED allVars
  <2>1. /\ parties' = parties /\ members' = members /\ invites' = invites /\ now' = now
        /\ pc' = pc /\ req' = req /\ at' = at /\ attempt' = attempt /\ held' = held
        /\ outcome' = outcome
    BY <1>3 DEF allVars
  <2>2. TxTypeOK' /\ Exclusive' /\ PendingDiffer' /\ TableFacts'
    BY <2>1 DEF IInv, TxTypeOK, TypeOK, Exclusive, PendingDiffer, TableFacts, NoOrphans
  <2>3. ASSUME NEW t \in Txn
        PROVE  JoinKnows(t)' /\ InviteKnows(t)' /\ CreateKnows(t)' /\ outcome'[t] # "constraint"
    <3>1. JoinKnows(t) /\ InviteKnows(t) /\ CreateKnows(t) /\ outcome[t] # "constraint"
      BY DEF IInv
    <3>2. JoinKnows(t)'
      BY <2>1, <3>1 DEF JoinKnows, Current, Active, ExpiresAt, MembersOf, MembersWith
    <3>3. InviteKnows(t)' /\ CreateKnows(t)'
      BY <2>1, <3>1 DEF InviteKnows, CreateKnows, Active, GmOf
    <3>4. QED BY <2>1, <3>1, <3>2, <3>3
  <2>4. QED BY <2>2, <2>3 DEF IInv
<1>4. QED BY <1>1, <1>2, <1>3 DEF TxNext

(* The invariant holds in every behaviour.                                 *)
LEMMA Invariance == TxSpec => []IInv
<1>1. TxInit => IInv
  BY InitEstablishes
<1>2. IInv /\ [TxNext]_allVars => IInv'
  BY NextPreserves
<1>3. QED BY <1>1, <1>2, PTL DEF TxSpec

(* The clock, the statements and the rows they hold stay what the code     *)
(* means them to be, however many requests run: no regeneration draws more *)
(* than maxInviteCredentialAttempts credential pairs.                      *)
THEOREM TypeCorrect == TxSpec => []TxTypeOK
<1>1. IInv => TxTypeOK
  BY DEF IInv
<1>2. QED BY <1>1, Invariance, PTL

(* The row locks of joinPartyByCredentialHash and of                       *)
(* CreateOrRegenerateInvite suffice: no interleaving of any number of      *)
(* requests ever makes an INSERT or UPDATE fail on a unique index or a     *)
(* CHECK of migration 000003.                                              *)
THEOREM LocksSuffice == TxSpec => []ConstraintsNeverFire
<1>1. IInv => ConstraintsNeverFire
  BY DEF IInv, ConstraintsNeverFire
<1>2. QED BY <1>1, Invariance, PTL

(* A join is inserted and committed under the invite it named, while that  *)
(* is still the Party's active invite, and was admitted before its expiry, *)
(* whatever regenerations run next to it.                                  *)
THEOREM JoinsAreInvited == TxSpec => []JoinsUnderCurrentInvite
<1>1. IInv => JoinsUnderCurrentInvite
  BY DEF IInv, JoinKnows, JoinsUnderCurrentInvite, AfterFind, AfterLock, AfterCheck
<1>2. QED BY <1>1, Invariance, PTL

(* Each commit is the one step of PartyRegistry it stands for, and every   *)
(* other statement leaves the committed tables alone: so the concurrent    *)
(* transactions implement the registry for any number of requests.         *)
LEMMA StepRefines ==
  ASSUME IInv, [TxNext]_allVars
  PROVE  [Next]_vars
<1>1. ASSUME NEW t \in Txn, CommitParty(t)
      PROVE  Next
  <2>1. req[t].user \in User /\ req[t].party \in Party /\ req[t].party \notin parties
    BY <1>1 DEF CommitParty, IInv, CreateKnows
  <2>2. CreateParty(req[t].user, req[t].party)
    BY <1>1, <2>1 DEF CommitParty, CreateParty
  <2>3. QED BY <2>1, <2>2 DEF Next
<1>2. ASSUME NEW t \in Txn, CommitInvite(t)
      PROVE  Next
  <2>1. /\ req[t].user \in User /\ req[t].party \in Party /\ req[t].code \in Code
        /\ invites[req[t].code] = None /\ GmOf(req[t].user, req[t].party) \in members
        /\ \A c \in Code : Active(c, req[t].party) => invites[c].createdAt <= at[t]
        /\ at[t] \in Times
    BY <1>2, Premises, ClockAssumption DEF CommitInvite, InviteKnows, InvitePc, AfterRole,
       AfterGmLock, AfterRevoke
  <2>2. ReplaceInvite(req[t].user, req[t].party, req[t].code, at[t])
    BY <1>2, <2>1 DEF CommitInvite, ReplaceInvite
  <2>3. QED BY <2>1, <2>2 DEF Next
<1>3. ASSUME NEW t \in Txn, CommitMember(t)
      PROVE  Next
  <2>1. /\ req[t].user \in User /\ req[t].party \in Party /\ req[t].code \in Code
        /\ req[t].character \in Character /\ at[t] \in Times
        /\ Current(req[t].code, req[t].party, at[t])
        /\ Owner[req[t].character] = req[t].user
        /\ MembersOf(req[t].party, req[t].user) = {} /\ MembersWith(req[t].character) = {}
    BY <1>3, Premises, ClockAssumption DEF CommitMember, JoinKnows, JoinPc, AfterFind, AfterLock,
       AfterCheck, AfterOwned, AfterMember, AfterLinked
  <2>2. Join(req[t].user, req[t].party, req[t].code, req[t].character, at[t])
    BY <1>3, <2>1 DEF CommitMember, Join, MembersOf, MembersWith
  <2>3. QED BY <2>1, <2>2 DEF Next
<1>4. CASE Tick \/ UNCHANGED allVars
  BY <1>4 DEF Tick, allVars, vars
<1>5. ASSUME NEW t \in Txn, Arrive(t) \/ Abort(t)
      PROVE  UNCHANGED vars
  BY <1>5 DEF Arrive, BeginCreate, BeginRegenerate, BeginJoin, Begin, Abort
<1>6. ASSUME NEW t \in Txn, Step(t), ~CommitParty(t), ~CommitInvite(t), ~CommitMember(t)
      PROVE  UNCHANGED vars
  BY <1>6 DEF Step, ReadRole, LockPartyForInvite, RevokeActiveInvite, MintInvite,
     FindInviteParty, LockParty, CheckInvite, LockCharacter, LoadMember, FindLinkedCharacter,
     InsertMember, Rollback
<1>7. QED BY <1>1, <1>2, <1>3, <1>4, <1>5, <1>6 DEF TxNext

(* The transactions implement PartyRegistry: its Spec holds of the three   *)
(* tables in every behaviour, for every value of the constants.            *)
THEOREM Refinement == TxSpec => ImplementsRegistry
<1>1. TxInit => Init
  BY DEF TxInit
<1>2. IInv /\ [TxNext]_allVars => [Next]_vars
  BY StepRefines
<1>3. QED BY <1>1, <1>2, Invariance, PTL DEF TxSpec, Spec, ImplementsRegistry
------------------------------------------------------------------------------
(* THE ANSWERS. A joining transaction's answer is true while it is         *)
(* returned: the membership that backs it is never taken away, and by the  *)
(* keys of the tables no later commit can turn a conflict into a replay.   *)
Same(t) == PlayerOf(req[t].user, req[t].party, req[t].character)

(* Only a transaction that rolls back has an answer, and some committed    *)
(* membership backs it: the requested one, or another with one of its      *)
(* keys.                                                                   *)
Backed(t) ==
  /\ pc[t] # "rollback" => outcome[t] = None
  /\ outcome[t] = "replayed" => Same(t) \in members
  /\ outcome[t] = "already_member" =>
       \E m \in members \ {Same(t)} : m.party = req[t].party /\ m.user = req[t].user
  /\ outcome[t] = "character_already_linked" =>
       /\ req[t].character # None
       /\ \E m \in members \ {Same(t)} : m.character = req[t].character

BackedAnswers == \A t \in Txn : Backed(t)

Conflicts == {"replayed", "already_member", "character_already_linked"}
(* No membership is ever deleted.                                          *)
LEMMA MembersGrow ==
  ASSUME [TxNext]_allVars
  PROVE  members \subseteq members'
<1>1. ASSUME NEW t \in Txn, CommitParty(t) \/ CommitMember(t)
      PROVE  members \subseteq members'
  BY <1>1 DEF CommitParty, CommitMember
<1>2. ASSUME NEW t \in Txn, Step(t), ~CommitParty(t), ~CommitMember(t)
      PROVE  members' = members
  BY <1>2 DEF vars, Step, ReadRole, LockPartyForInvite, RevokeActiveInvite, MintInvite,
     CommitInvite, FindInviteParty, LockParty, CheckInvite, LockCharacter, LoadMember,
     FindLinkedCharacter, InsertMember, Rollback
<1>3. ASSUME NEW t \in Txn, Arrive(t) \/ Abort(t)
      PROVE  members' = members
  BY <1>3 DEF vars, Arrive, BeginCreate, BeginRegenerate, BeginJoin, Begin, Abort
<1>4. CASE Tick \/ UNCHANGED allVars
  BY <1>4 DEF Tick, allVars, vars
<1>5. QED BY <1>1, <1>2, <1>3, <1>4 DEF TxNext

(* A slot is never written by another slot's statement.                    *)
LEMMA OthersStand ==
  ASSUME TxTypeOK, NEW t \in Txn, Arrive(t) \/ Step(t) \/ Abort(t), NEW s \in Txn \ {t}
  PROVE  pc'[s] = pc[s] /\ req'[s] = req[s] /\ outcome'[s] = outcome[s]
<1> USE DEF TxTypeOK, Goto, Return, Close
<1>1. CASE Arrive(t)
  BY <1>1 DEF Arrive, BeginCreate, BeginRegenerate, BeginJoin, Begin
<1>2. CASE Abort(t) \/ Rollback(t) \/ CommitParty(t) \/ CommitInvite(t) \/ CommitMember(t)
  BY <1>2 DEF Abort, Rollback, CommitParty, CommitInvite, CommitMember
<1>3. CASE ReadRole(t) \/ LockPartyForInvite(t) \/ RevokeActiveInvite(t)
  BY <1>3 DEF ReadRole, LockPartyForInvite, RevokeActiveInvite
<1>4. CASE \E k \in Code : MintInvite(t, k)
  BY <1>4 DEF MintInvite
<1>5. CASE FindInviteParty(t) \/ LockParty(t) \/ CheckInvite(t) \/ LockCharacter(t)
  BY <1>5 DEF FindInviteParty, LockParty, CheckInvite, LockCharacter
<1>6. CASE LoadMember(t) \/ FindLinkedCharacter(t) \/ InsertMember(t)
  BY <1>6 DEF LoadMember, FindLinkedCharacter, InsertMember
<1>7. QED BY <1>1, <1>2, <1>3, <1>4, <1>5, <1>6 DEF Step

(* Answers that name no membership need none.                              *)
LEMMA OtherAnswersBacked ==
  ASSUME TxTypeOK, NEW t \in Txn, NEW answer \in Refusal \ Conflicts, Return(t, answer)
  PROVE  Backed(t)'
BY ReturnLocal DEF Backed, Conflicts

(* Nor does a transaction that has not answered.                           *)
LEMMA SilentBacked ==
  ASSUME NEW t \in Txn, outcome'[t] = None
  PROVE  Backed(t)'
BY RefusalAssumption DEF Backed, Refusal

(* A transaction that goes on had no answer yet.                           *)
LEMMA GoingOnBacked ==
  ASSUME NEW t \in Txn, Backed(t), pc[t] # "rollback", outcome' = outcome
  PROVE  Backed(t)'
BY SilentBacked DEF Backed

(* loadExistingPartyMembership answers from the row it has just read.      *)
LEMMA LoadMemberBacked ==
  ASSUME IInv, NEW t \in Txn, Backed(t), LoadMember(t)
  PROVE  Backed(t)'
<1> DEFINE mine == MembersOf(req[t].party, req[t].user)
<1>1. pc[t] = "loadMember" /\ req' = req /\ members' = members /\ TxTypeOK
  BY DEF LoadMember, vars, IInv
<1>2. Same(t)' = Same(t)
  BY <1>1 DEF Same, PlayerOf
<1>3. CASE mine = {}
  BY <1>1, <1>3, GoingOnBacked DEF LoadMember
<1>4. CASE Same(t) \in mine
  <2>1. Return(t, "replayed") /\ Same(t) \in members
    BY <1>4 DEF LoadMember, MembersOf, Same
  <2>2. pc'[t] = "rollback" /\ outcome'[t] = "replayed"
    BY <1>1, <2>1, ReturnLocal DEF Refusal
  <2>3. QED BY <1>1, <1>2, <2>1, <2>2 DEF Backed
<1>5. CASE mine # {} /\ Same(t) \notin mine
  <2>1. Return(t, "already_member")
    BY <1>5 DEF LoadMember, Same
  <2>2. pc'[t] = "rollback" /\ outcome'[t] = "already_member"
    BY <1>1, <2>1, ReturnLocal DEF Refusal
  <2>3. \E m \in members \ {Same(t)} : m.party = req[t].party /\ m.user = req[t].user
    BY <1>5 DEF MembersOf
  <2>4. QED BY <1>1, <1>2, <2>2, <2>3 DEF Backed
<1>6. QED BY <1>3, <1>4, <1>5

(* The user has no membership in the Party here, so the linked one is      *)
(* another.                                                                *)
LEMMA FindLinkedBacked ==
  ASSUME IInv, NEW t \in Txn, Backed(t), FindLinkedCharacter(t)
  PROVE  Backed(t)'
<1>1. pc[t] = "findLinked" /\ req' = req /\ members' = members /\ TxTypeOK
  BY DEF FindLinkedCharacter, vars, IInv
<1>2. Same(t)' = Same(t)
  BY <1>1 DEF Same, PlayerOf
<1>3. CASE MembersWith(req[t].character) = {}
  BY <1>1, <1>3, GoingOnBacked DEF FindLinkedCharacter
<1>4. CASE MembersWith(req[t].character) # {}
  <2>1. Return(t, "character_already_linked")
    BY <1>4 DEF FindLinkedCharacter
  <2>2. pc'[t] = "rollback" /\ outcome'[t] = "character_already_linked"
    BY <1>1, <2>1, ReturnLocal DEF Refusal
  <2>3. req[t].character \in Character /\ MembersOf(req[t].party, req[t].user) = {}
    BY <1>1, Premises DEF JoinKnows, JoinPc, AfterFind, AfterLock, AfterCheck, AfterOwned,
       AfterMember
  <2>4. Same(t) \notin members
    BY <2>3 DEF MembersOf, Same, PlayerOf
  <2>5. \E m \in members \ {Same(t)} : m.character = req[t].character
    BY <1>4, <2>4 DEF MembersWith
  <2>6. req[t].character # None
    BY <2>3, NoneAssumption
  <2>7. QED BY <1>1, <1>2, <2>2, <2>5, <2>6 DEF Backed
<1>5. QED BY <1>3, <1>4

(* Whatever statement a slot executes, its answer is backed.               *)
LEMMA OwnStepBacked ==
  ASSUME IInv, NEW t \in Txn, Backed(t), Arrive(t) \/ Step(t) \/ Abort(t)
  PROVE  Backed(t)'
<1>1. TxTypeOK
  BY DEF IInv
<1>2. CASE Arrive(t)
  <2>1. pc[t] = "idle" /\ outcome' = outcome
    BY <1>2 DEF Arrive, BeginCreate, BeginRegenerate, BeginJoin, Begin
  <2>2. QED BY <2>1, GoingOnBacked
<1>3. CASE Abort(t) \/ Rollback(t) \/ CommitParty(t) \/ CommitInvite(t) \/ CommitMember(t)
  <2>1. Close(t)
    BY <1>3 DEF Abort, Rollback, CommitParty, CommitInvite, CommitMember
  <2>2. QED BY <1>1, <2>1, CloseLocal, SilentBacked
<1>4. CASE \/ ReadRole(t) \/ LockPartyForInvite(t) \/ RevokeActiveInvite(t)
           \/ \E k \in Code : MintInvite(t, k)
           \/ FindInviteParty(t) \/ LockParty(t) \/ CheckInvite(t) \/ LockCharacter(t)
           \/ InsertMember(t)
  <2>1. pc[t] # "rollback"
    BY <1>4 DEF ReadRole, LockPartyForInvite, RevokeActiveInvite, MintInvite, FindInviteParty,
       LockParty, CheckInvite, LockCharacter, InsertMember
  <2>2. outcome' = outcome \/ \E answer \in Refusal \ Conflicts : Return(t, answer)
    BY <1>4 DEF ReadRole, LockPartyForInvite, RevokeActiveInvite, MintInvite, FindInviteParty,
       LockParty, CheckInvite, LockCharacter, InsertMember, Refusal, Conflicts
  <2>3. QED BY <1>1, <2>1, <2>2, GoingOnBacked, OtherAnswersBacked
<1>5. CASE LoadMember(t) \/ FindLinkedCharacter(t)
  BY <1>5, LoadMemberBacked, FindLinkedBacked
<1>6. QED BY <1>2, <1>3, <1>4, <1>5 DEF Step

(* An answer outlives the other slots' steps: memberships only grow.       *)
LEMMA StaysBacked ==
  ASSUME NEW t \in Txn, Backed(t), members \subseteq members',
         pc'[t] = pc[t], req'[t] = req[t], outcome'[t] = outcome[t]
  PROVE  Backed(t)'
<1>1. Same(t)' = Same(t)
  BY DEF Same, PlayerOf
<1>2. QED BY <1>1 DEF Backed

(* So every step keeps every answer backed.                                *)
LEMMA NextKeepsBacked ==
  ASSUME IInv, BackedAnswers, [TxNext]_allVars
  PROVE  BackedAnswers'
<1>1. members \subseteq members'
  BY MembersGrow
<1>2. ASSUME NEW t \in Txn, Arrive(t) \/ Step(t) \/ Abort(t), NEW s \in Txn
      PROVE  Backed(s)'
  <2>1. Backed(s)
    BY DEF BackedAnswers
  <2>2. CASE s = t
    BY <1>2, <2>1, <2>2, OwnStepBacked
  <2>3. CASE s # t
    <3>1. pc'[s] = pc[s] /\ req'[s] = req[s] /\ outcome'[s] = outcome[s]
      BY <1>2, <2>3, OthersStand DEF IInv
    <3>2. QED BY <1>1, <2>1, <3>1, StaysBacked
  <2>4. QED BY <2>2, <2>3
<1>3. ASSUME Tick \/ UNCHANGED allVars, NEW s \in Txn
      PROVE  Backed(s)'
  <2>1. pc' = pc /\ req' = req /\ outcome' = outcome
    BY <1>3 DEF Tick, allVars, locals
  <2>2. QED BY <1>1, <2>1, StaysBacked DEF BackedAnswers
<1>4. QED BY <1>2, <1>3 DEF TxNext, BackedAnswers

(* The keys of the memberships hold: a new Party has none yet, and a join  *)
(* is committed only when neither of its keys is taken.                    *)
LEMMA NextKeepsKeys ==
  ASSUME IInv, MembershipKeys, [TxNext]_allVars
  PROVE  MembershipKeys'
<1>1. CASE UNCHANGED vars
  BY <1>1 DEF vars, MembershipKeys
<1>2. ASSUME NEW u \in User, NEW p \in Party, CreateParty(u, p)
      PROVE  MembershipKeys'
  <2>1. \A m \in members : m.party # p
    BY <1>2 DEF CreateParty, IInv, TableFacts, NoOrphans
  <2>2. GmOf(u, p).party = p /\ GmOf(u, p).character = None
    BY DEF GmOf
  <2>3. members' = members \cup {GmOf(u, p)}
    BY <1>2 DEF CreateParty
  <2>4. QED BY <2>1, <2>2, <2>3 DEF MembershipKeys
<1>3. ASSUME NEW u \in User, NEW p \in Party, NEW k \in Code, NEW c \in Character,
             NEW instant \in Times, Join(u, p, k, c, instant)
      PROVE  MembershipKeys'
  <2>1. /\ PlayerOf(u, p, c).party = p /\ PlayerOf(u, p, c).user = u
        /\ PlayerOf(u, p, c).character = c
    BY DEF PlayerOf
  <2>2. /\ \A m \in members : ~(m.party = p /\ m.user = u) /\ m.character # c
        /\ members' = members \cup {PlayerOf(u, p, c)}
    BY <1>3 DEF Join
  <2>3. QED BY <2>1, <2>2 DEF MembershipKeys
<1>4. ASSUME NEW u \in User, NEW p \in Party, NEW k \in Code, NEW instant \in Times,
             ReplaceInvite(u, p, k, instant)
      PROVE  MembershipKeys'
  BY <1>4 DEF ReplaceInvite, MembershipKeys
<1>5. QED BY <1>1, <1>2, <1>3, <1>4, StepRefines DEF Next

(* With the keys of the tables, a backed answer is a true one.             *)
LEMMA BackedIsTrue ==
  ASSUME BackedAnswers, MembershipKeys
  PROVE  RefusalsAreTrue
<1>1. ASSUME NEW t \in Txn, outcome[t] = "replayed"
      PROVE  Same(t) \in members
  BY <1>1 DEF BackedAnswers, Backed
<1>2. ASSUME NEW t \in Txn, outcome[t] = "already_member"
      PROVE  /\ \E m \in members : m.party = req[t].party /\ m.user = req[t].user
             /\ Same(t) \notin members
  <2>1. PICK m \in members \ {Same(t)} : m.party = req[t].party /\ m.user = req[t].user
    BY <1>2 DEF BackedAnswers, Backed
  <2>2. Same(t).party = req[t].party /\ Same(t).user = req[t].user
    BY DEF Same, PlayerOf
  <2>3. QED BY <2>1, <2>2 DEF MembershipKeys
<1>3. ASSUME NEW t \in Txn, outcome[t] = "character_already_linked"
      PROVE  /\ \E m \in members : m.character = req[t].character
             /\ Same(t) \notin members
  <2>1. /\ req[t].character # None
        /\ \E m \in members \ {Same(t)} : m.character = req[t].character
    BY <1>3 DEF BackedAnswers, Backed
  <2>2. PICK m \in members \ {Same(t)} : m.character = req[t].character
    BY <2>1
  <2>3. Same(t).character = req[t].character
    BY DEF Same, PlayerOf
  <2>4. QED BY <2>1, <2>2, <2>3 DEF MembershipKeys
<1>4. QED BY <1>1, <1>2, <1>3 DEF RefusalsAreTrue, Same

(* An identical replay is never called a conflict, and a conflict names a  *)
(* real one, at every moment until joinPartyByCredentialHash has rolled    *)
(* back and whatever other requests commit meanwhile.                      *)
THEOREM AnswersAreTrue == TxSpec => []RefusalsAreTrue
<1>1. TxInit => BackedAnswers
  BY SilentBacked, RefusalAssumption DEF TxInit, BackedAnswers, Backed, Refusal
<1>2. IInv /\ BackedAnswers /\ [TxNext]_allVars => BackedAnswers'
  BY NextKeepsBacked
<1>3. TxSpec => []BackedAnswers
  BY <1>1, <1>2, Invariance, PTL DEF TxSpec
<1>4. TxInit => MembershipKeys
  BY DEF TxInit, Init, MembershipKeys
<1>5. TxSpec => []MembershipKeys
  BY <1>4, NextKeepsKeys, Invariance, PTL DEF TxSpec
<1>6. BackedAnswers /\ MembershipKeys => RefusalsAreTrue
  BY BackedIsTrue
<1>7. QED BY <1>3, <1>5, <1>6, PTL
------------------------------------------------------------------------------
(* THE LOCK ORDER. The transactions never wait for one another in a        *)
(* circle: a statement only ever waits for rows of a table that comes      *)
(* later in the lock order than every row its transaction holds.           *)
Memberships == Party \X User

(* What a transaction holds when its next statement may wait. The others   *)
(* never wait.                                                             *)
InOrder(t) ==
  /\ pc[t] \in {"idle", "commitParty", "readRole", "findInvite", "lockParty",
                "lockPartyAsGm", "lockPartyAsPlayer"} => held[t] = {}
  /\ pc[t] \in {"checkInvite", "revoke"} => held[t] \subseteq Party
  /\ pc[t] = "lockCharacter" => held[t] \subseteq Party \cup Code
  /\ pc[t] \in {"loadMember", "findLinked"} => held[t] \subseteq Party \cup Code \cup Character

LocksInOrder == \A t \in Txn : InOrder(t)

(* Of which table the rows are that the statement locks.                   *)
WantsParty(t)      == pc[t] \in {"lockParty", "lockPartyAsGm", "lockPartyAsPlayer"}
WantsInvite(t)     == pc[t] \in {"checkInvite", "revoke"}
WantsCharacter(t)  == pc[t] = "lockCharacter"
WantsMembership(t) == pc[t] \in {"loadMember", "findLinked"}
(* Every statement locks rows of one table.                                *)
LEMMA WantsOneTable ==
  ASSUME TxTypeOK, NEW t \in Txn, JoinKnows(t), InviteKnows(t)
  PROVE  /\ WantsParty(t) => Wants(t) \subseteq Party
         /\ WantsInvite(t) => Wants(t) \subseteq Code
         /\ WantsCharacter(t) => Wants(t) \subseteq Character
         /\ WantsMembership(t) => Wants(t) \subseteq Memberships
         /\ Wants(t) # {} =>
              WantsParty(t) \/ WantsInvite(t) \/ WantsCharacter(t) \/ WantsMembership(t)
<1>1. \A S \in SUBSET members : RowsOf(S) \subseteq Memberships
  BY DEF TxTypeOK, TypeOK, RowsOf, Memberships, Membership
<1>2. /\ MembersOf(req[t].party, req[t].user) \subseteq members
      /\ MembersWith(req[t].character) \subseteq members
  BY DEF MembersOf, MembersWith
<1>3. WantsParty(t) => Wants(t) \subseteq Party
  BY DEF WantsParty, JoinKnows, InviteKnows, Wants, AfterFind, InvitePc
<1>4. WantsInvite(t) => Wants(t) \subseteq Code
  BY DEF WantsInvite, JoinKnows, Wants, JoinPc, ActiveInvites
<1>5. WantsCharacter(t) => Wants(t) \subseteq Character
  BY DEF WantsCharacter, JoinKnows, Wants, JoinPc
<1>6. WantsMembership(t) => Wants(t) \subseteq Memberships
  BY <1>1, <1>2 DEF WantsMembership, Wants
<1>7. Wants(t) # {} => WantsParty(t) \/ WantsInvite(t) \/ WantsCharacter(t) \/ WantsMembership(t)
  BY DEF Wants, WantsParty, WantsInvite, WantsCharacter, WantsMembership
<1>8. QED BY <1>3, <1>4, <1>5, <1>6, <1>7

(* A statement that locks leaves its transaction within the order, and so  *)
(* does one that returns.                                                  *)
LEMMA LockStepInOrder ==
  ASSUME IInv, NEW t \in Txn, InOrder(t), Lock(t),
         WantsParty(t) => pc'[t] \in {"checkInvite", "revoke", "rollback"},
         WantsInvite(t) => pc'[t] \in {"lockCharacter", "mint", "rollback"},
         WantsCharacter(t) => pc'[t] \in {"loadMember", "rollback"},
         WantsParty(t) \/ WantsInvite(t) \/ WantsCharacter(t)
  PROVE  InOrder(t)'
<1>1. held'[t] = held[t] \cup Wants(t)
  BY LockLocal
<1>2. /\ WantsParty(t) => Wants(t) \subseteq Party
      /\ WantsInvite(t) => Wants(t) \subseteq Code
      /\ WantsCharacter(t) => Wants(t) \subseteq Character
  BY WantsOneTable DEF IInv
<1> HIDE DEF Wants
<1>3. CASE WantsParty(t)
  BY <1>1, <1>2, <1>3 DEF InOrder, WantsParty
<1>4. CASE WantsInvite(t)
  BY <1>1, <1>2, <1>4 DEF InOrder, WantsInvite, WantsParty
<1>5. CASE WantsCharacter(t)
  BY <1>1, <1>2, <1>5 DEF InOrder, WantsCharacter, WantsInvite, WantsParty
<1>6. QED BY <1>3, <1>4, <1>5

(* A transaction that holds nothing is within the order.                   *)
LEMMA EmptyInOrder ==
  ASSUME NEW t \in Txn, held'[t] = {}
  PROVE  InOrder(t)'
BY DEF InOrder

(* loadExistingPartyMembership returns as soon as it finds a row, so the   *)
(* transaction that goes on has locked no membership.                      *)
LEMMA LoadMemberInOrder ==
  ASSUME IInv, NEW t \in Txn, InOrder(t), LoadMember(t)
  PROVE  InOrder(t)'
<1>1. pc[t] = "loadMember" /\ Lock(t) /\ TxTypeOK
  BY DEF LoadMember, IInv
<1>2. CASE MembersOf(req[t].party, req[t].user) = {}
  <2>1. Goto(t, "findLinked")
    BY <1>2 DEF LoadMember
  <2>2. pc'[t] = "findLinked"
    BY <1>1, <2>1, GotoLocal DEF Pc, JoinPc
  <2>3. Wants(t) = {}
    BY <1>1, <1>2 DEF Wants, RowsOf
  <2>4. held'[t] = held[t]
    BY <1>1, <2>3, LockLocal
  <2>5. QED BY <1>1, <2>2, <2>4 DEF InOrder
<1>3. CASE MembersOf(req[t].party, req[t].user) # {}
  <2>1. PICK answer \in {"replayed", "already_member"} : Return(t, answer)
    BY <1>3 DEF LoadMember
  <2>2. pc'[t] = "rollback"
    BY <1>1, <2>1, ReturnLocal DEF Refusal
  <2>3. QED BY <2>2 DEF InOrder
<1>4. QED BY <1>2, <1>3

(* Whatever statement a transaction executes, it stays within the order.   *)
LEMMA OwnStepInOrder ==
  ASSUME IInv, NEW t \in Txn, InOrder(t), Arrive(t) \/ Step(t) \/ Abort(t)
  PROVE  InOrder(t)'
<1>1. TxTypeOK
  BY DEF IInv
<1>2. CASE Arrive(t)
  <2>1. pc[t] = "idle" /\ held' = held
    BY <1>2 DEF Arrive, BeginCreate, BeginRegenerate, BeginJoin, Begin
  <2>2. QED BY <2>1, EmptyInOrder DEF InOrder
<1>3. CASE Abort(t) \/ Rollback(t) \/ CommitParty(t) \/ CommitInvite(t) \/ CommitMember(t)
  <2>1. Close(t)
    BY <1>3 DEF Abort, Rollback, CommitParty, CommitInvite, CommitMember
  <2>2. QED BY <1>1, <2>1, CloseLocal, EmptyInOrder
<1>4. CASE ReadRole(t) \/ FindInviteParty(t)
  <2>1. held[t] = {} /\ held' = held
    BY <1>4 DEF ReadRole, FindInviteParty, InOrder
  <2>2. QED BY <2>1, EmptyInOrder
<1>5. CASE LockPartyForInvite(t) \/ LockParty(t)
  <2>1. Lock(t) /\ WantsParty(t) /\ ~WantsInvite(t) /\ ~WantsCharacter(t)
    BY <1>5 DEF LockPartyForInvite, LockParty, WantsParty, WantsInvite, WantsCharacter
  <2>2. pc'[t] \in {"checkInvite", "revoke", "rollback"}
    BY <1>1, <1>5 DEF LockPartyForInvite, LockParty, Goto, Return, TxTypeOK
  <2>3. QED BY <2>1, <2>2, LockStepInOrder
<1>6. CASE RevokeActiveInvite(t) \/ CheckInvite(t)
  <2>1. Lock(t) /\ WantsInvite(t) /\ ~WantsParty(t) /\ ~WantsCharacter(t)
    BY <1>6 DEF RevokeActiveInvite, CheckInvite, WantsInvite, WantsParty, WantsCharacter
  <2>2. pc'[t] \in {"lockCharacter", "mint", "rollback"}
    BY <1>1, <1>6 DEF RevokeActiveInvite, CheckInvite, Goto, Return, TxTypeOK
  <2>3. QED BY <2>1, <2>2, LockStepInOrder
<1>7. CASE LockCharacter(t)
  <2>1. Lock(t) /\ WantsCharacter(t) /\ ~WantsParty(t) /\ ~WantsInvite(t)
    BY <1>7 DEF LockCharacter, WantsCharacter, WantsInvite, WantsParty
  <2>2. pc'[t] \in {"loadMember", "rollback"}
    BY <1>1, <1>7 DEF LockCharacter, Goto, Return, TxTypeOK
  <2>3. QED BY <2>1, <2>2, LockStepInOrder
<1>8. CASE LoadMember(t)
  BY <1>8, LoadMemberInOrder
<1>9. CASE FindLinkedCharacter(t) \/ InsertMember(t) \/ \E k \in Code : MintInvite(t, k)
  <2>1. pc'[t] \in {"insertMember", "commitMember", "mint", "commitInvite", "rollback"}
    BY <1>1, <1>9 DEF FindLinkedCharacter, InsertMember, MintInvite, Goto, Return, TxTypeOK
  <2>2. QED BY <2>1 DEF InOrder
<1>10. QED BY <1>2, <1>3, <1>4, <1>5, <1>6, <1>7, <1>8, <1>9 DEF Step

(* No statement of t touches the locks of another slot.                    *)
LEMMA LocksStand ==
  ASSUME IInv, NEW t \in Txn, Arrive(t) \/ Step(t) \/ Abort(t), NEW s \in Txn \ {t}
  PROVE  pc'[s] = pc[s] /\ held'[s] = held[s]
<1> USE DEF IInv, TxTypeOK, Goto, Return, Close, Lock
<1>1. CASE Arrive(t)
  BY <1>1 DEF Arrive, BeginCreate, BeginRegenerate, BeginJoin, Begin
<1>2. CASE Abort(t) \/ Rollback(t) \/ CommitParty(t) \/ CommitInvite(t) \/ CommitMember(t)
  BY <1>2 DEF Abort, Rollback, CommitParty, CommitInvite, CommitMember
<1>3. CASE ReadRole(t) \/ LockPartyForInvite(t) \/ RevokeActiveInvite(t)
  BY <1>3 DEF ReadRole, LockPartyForInvite, RevokeActiveInvite
<1>4. CASE \E k \in Code : MintInvite(t, k)
  BY <1>4 DEF MintInvite
<1>5. CASE FindInviteParty(t) \/ LockParty(t) \/ CheckInvite(t) \/ LockCharacter(t)
  BY <1>5 DEF FindInviteParty, LockParty, CheckInvite, LockCharacter
<1>6. CASE LoadMember(t) \/ FindLinkedCharacter(t) \/ InsertMember(t)
  BY <1>6 DEF LoadMember, FindLinkedCharacter, InsertMember
<1>7. QED BY <1>1, <1>2, <1>3, <1>4, <1>5, <1>6 DEF Step

(* So every step keeps the order.                                          *)
LEMMA NextKeepsOrder ==
  ASSUME IInv, LocksInOrder, [TxNext]_allVars
  PROVE  LocksInOrder'
<1>1. ASSUME NEW t \in Txn, Arrive(t) \/ Step(t) \/ Abort(t), NEW s \in Txn
      PROVE  InOrder(s)'
  <2>1. CASE s = t
    BY <1>1, <2>1, OwnStepInOrder DEF LocksInOrder
  <2>2. CASE s # t
    <3>1. pc'[s] = pc[s] /\ held'[s] = held[s]
      BY <1>1, <2>2, LocksStand
    <3>2. QED BY <3>1 DEF LocksInOrder, InOrder
  <2>3. QED BY <2>1, <2>2
<1>2. ASSUME Tick \/ UNCHANGED allVars, NEW s \in Txn
      PROVE  InOrder(s)'
  <2>1. pc' = pc /\ held' = held
    BY <1>2 DEF Tick, allVars, locals
  <2>2. QED BY <2>1 DEF LocksInOrder, InOrder
<1>3. QED BY <1>1, <1>2 DEF TxNext, LocksInOrder

(* Whoever is waited for and waits as well, waits further along the order: *)
(* so in a set where everyone waits for another of its members nobody      *)
(* could wait for a membership, hence nobody for a character, an invite or *)
(* a Party.                                                                *)
LEMMA OrderPreventsCircles ==
  ASSUME IInv, LocksInOrder
  PROVE  NoDeadlock
<1> SUFFICES ASSUME NEW waiting \in SUBSET Txn,
                    \A t \in waiting : \E s \in waiting \ {t} : WaitsFor(t, s)
             PROVE  waiting = {}
  BY DEF NoDeadlock
<1>1. ASSUME NEW t \in waiting
      PROVE  /\ Wants(t) # {}
             /\ InOrder(t)
             /\ WantsParty(t) => Wants(t) \subseteq Party
             /\ WantsInvite(t) => Wants(t) \subseteq Code
             /\ WantsCharacter(t) => Wants(t) \subseteq Character
             /\ WantsMembership(t) => Wants(t) \subseteq Memberships
             /\ WantsParty(t) \/ WantsInvite(t) \/ WantsCharacter(t) \/ WantsMembership(t)
  <2>1. Wants(t) # {}
    BY DEF WaitsFor
  <2>2. TxTypeOK /\ JoinKnows(t) /\ InviteKnows(t)
    BY DEF IInv
  <2>3. QED BY <2>1, <2>2, WantsOneTable DEF LocksInOrder
<1>2. ASSUME NEW t \in waiting
      PROVE  \E s \in waiting : held[s] \cap Wants(t) # {}
  BY DEF WaitsFor
<1>3. ASSUME NEW s \in waiting
      PROVE  /\ WantsParty(s) => held[s] = {}
             /\ WantsInvite(s) => held[s] \subseteq Party
             /\ WantsCharacter(s) => held[s] \subseteq Party \cup Code
             /\ held[s] \subseteq Party \cup Code \cup Character
  BY <1>1 DEF InOrder, WantsParty, WantsInvite, WantsCharacter, WantsMembership
<1>4. ASSUME NEW t \in waiting PROVE ~WantsMembership(t)
  <2>1. PICK s \in waiting : held[s] \cap Wants(t) # {}
    BY <1>2
  <2>2. held[s] \cap Memberships = {}
    BY <1>3, RowsApartAssumption DEF Memberships
  <2>3. QED BY <1>1, <2>1, <2>2
<1>5. ASSUME NEW t \in waiting PROVE ~WantsCharacter(t)
  <2>1. PICK s \in waiting : held[s] \cap Wants(t) # {}
    BY <1>2
  <2>2. held[s] \subseteq Party \cup Code
    BY <1>1, <1>3, <1>4
  <2>3. QED BY <1>1, <2>1, <2>2, RowsApartAssumption
<1>6. ASSUME NEW t \in waiting PROVE ~WantsInvite(t)
  <2>1. PICK s \in waiting : held[s] \cap Wants(t) # {}
    BY <1>2
  <2>2. held[s] \subseteq Party
    BY <1>1, <1>3, <1>4, <1>5
  <2>3. QED BY <1>1, <2>1, <2>2, RowsApartAssumption
<1>7. \A t \in waiting : ~WantsParty(t)
  BY <1>1, <1>2, <1>3, <1>4, <1>5, <1>6
<1>8. QED BY <1>1, <1>4, <1>5, <1>6, <1>7

(* The lock order Party, invite, character, membership, and the return as  *)
(* soon as joinPartyByCredentialHash finds a membership, leave PostgreSQL  *)
(* no circle of waiters to break, however many requests run.               *)
THEOREM NobodyWaitsInACircle == TxSpec => []NoDeadlock
<1>1. TxInit => LocksInOrder
  BY DEF TxInit, LocksInOrder, InOrder
<1>2. IInv /\ LocksInOrder /\ [TxNext]_allVars => LocksInOrder'
  BY NextKeepsOrder
<1>3. IInv /\ LocksInOrder => NoDeadlock
  BY OrderPreventsCircles
<1>4. QED BY <1>1, <1>2, <1>3, Invariance, PTL DEF TxSpec
------------------------------------------------------------------------------
(* THE TABLES. PartyRegistry by itself.                                    *)

(* The empty tables.                                                       *)
LEMMA InitIntegrity == Init => TypeOK /\ Integrity
BY DEF Init, TypeOK, Integrity, OneGmPerParty, MembershipKeys, LinkedCharacterIsOwned,
   OneActiveInvite, NoOrphans, Active

(* A new Party has no rows yet, so its GM's row is the only one.           *)
LEMMA CreatePartyIntegrity ==
  ASSUME TypeOK, Integrity, NEW u \in User, NEW p \in Party, CreateParty(u, p)
  PROVE  TypeOK' /\ Integrity'
<1> DEFINE gm == GmOf(u, p)
<1>1. /\ p \notin parties /\ invites' = invites
      /\ parties' = parties \cup {p} /\ members' = members \cup {gm}
      /\ gm.party = p /\ gm.user = u /\ gm.role = "gm" /\ gm.character = None
      /\ gm \in Membership
  BY DEF CreateParty, GmOf, Membership
<1>2. \A m \in members : m.party # p
  BY <1>1 DEF Integrity, NoOrphans
<1>3. GmOf(u, p) \in members'
  BY <1>1
<1> HIDE DEF gm
<1>4. TypeOK'
  BY <1>1 DEF TypeOK
<1>5. OneGmPerParty'
  <2>1. ASSUME NEW q \in parties PROVE \E v \in User : GmOf(v, q) \in members'
    <3>1. PICK v \in User : GmOf(v, q) \in members
      BY DEF Integrity, OneGmPerParty
    <3>2. GmOf(v, q) \in members'
      BY <1>1, <3>1
    <3>3. QED BY <3>2
  <2>2. ASSUME NEW q \in parties', NEW m \in members', NEW n \in members',
               m.party = q, n.party = q, m.role = "gm", n.role = "gm"
        PROVE  m = n
    <3>1. CASE q = p
      BY <1>1, <1>2, <2>2, <3>1
    <3>2. CASE q # p
      <4>1. q \in parties /\ m \in members /\ n \in members
        BY <1>1, <2>2, <3>2
      <4>2. QED BY <2>2, <4>1 DEF Integrity, OneGmPerParty
    <3>3. QED BY <3>1, <3>2
  <2>3. \A q \in parties' : \E v \in User : GmOf(v, q) \in members'
    BY <1>1, <1>3, <2>1
  <2>4. \A q \in parties' : \E v \in User : GmOf(v, q)' \in members'
    BY <2>3 DEF GmOf
  <2>5. QED BY <2>2, <2>4 DEF OneGmPerParty
<1>6. MembershipKeys'
  BY <1>1, <1>2 DEF Integrity, MembershipKeys
<1>7. LinkedCharacterIsOwned'
  BY <1>1 DEF Integrity, LinkedCharacterIsOwned
<1>8. OneActiveInvite' /\ NoOrphans'
  BY <1>1 DEF Integrity, OneActiveInvite, NoOrphans, Active
<1>9. QED BY <1>4, <1>5, <1>6, <1>7, <1>8 DEF Integrity

(* Every earlier active invite of the Party is revoked as the new one      *)
(* appears, and no other Party's invites change.                           *)
LEMMA ReplaceInviteIntegrity ==
  ASSUME TypeOK, Integrity,
         NEW u \in User, NEW p \in Party, NEW k \in Code, NEW time \in Times,
         ReplaceInvite(u, p, k, time)
  PROVE  TypeOK' /\ Integrity'
<1>1. /\ GmOf(u, p) \in members /\ invites[k] = None
      /\ \A c \in Code : Active(c, p) => invites[c].createdAt <= time
      /\ invites' = Rotated(p, k, time) /\ parties' = parties /\ members' = members
  BY DEF ReplaceInvite
<1>2. time \in Nat /\ time # None
  BY TimesAssumption, NoneAssumption
<1>3. invites \in [Code -> Invite \cup {None}] /\ invites' \in [Code -> Invite \cup {None}]
  BY <1>1, <1>2 DEF TypeOK, Rotated, Active, Invite
<1>4. invites'[k] = [party |-> p, createdAt |-> time, revokedAt |-> None]
  BY <1>1 DEF Rotated
<1>5. ASSUME NEW c \in Code, c # k, Active(c, p)
      PROVE  /\ invites'[c] = [invites[c] EXCEPT !.revokedAt = time]
             /\ invites'[c].party = p /\ invites'[c].createdAt <= time
             /\ invites'[c].revokedAt = time
  <2>1. invites'[c] = [invites[c] EXCEPT !.revokedAt = time]
    BY <1>1, <1>5 DEF Rotated
  <2>2. invites[c] \in Invite /\ invites[c].party = p /\ invites[c].createdAt <= time
    BY <1>1, <1>3, <1>5 DEF Active
  <2>3. QED BY <2>1, <2>2 DEF Invite
<1>6. ASSUME NEW c \in Code, c # k, ~Active(c, p)
      PROVE  invites'[c] = invites[c]
  BY <1>1, <1>6 DEF Rotated
<1>7. TypeOK'
  BY <1>1, <1>3 DEF TypeOK
<1>8. OneActiveInvite'
  <2>1. ASSUME NEW q \in Party, NEW c \in Code, Active(c, q)'
        PROVE  IF c = k THEN q = p ELSE q # p /\ Active(c, q)
    <3>1. CASE c = k
      BY <1>4, <2>1, <3>1 DEF Active
    <3>2. CASE c # k
      <4>1. ~Active(c, p)
        BY <1>2, <1>5, <2>1, <3>2 DEF Active
      <4>2. invites'[c] = invites[c]
        BY <1>6, <3>2, <4>1
      <4>3. QED BY <2>1, <3>2, <4>1, <4>2 DEF Active
    <3>3. QED BY <3>1, <3>2
  <2>2. \A q \in Party, c, d \in Code : Active(c, q)' /\ Active(d, q)' => c = d
    BY <2>1 DEF Integrity, OneActiveInvite
  <2>3. ASSUME NEW c \in Code, invites'[c] # None, invites'[c].revokedAt # None
        PROVE  invites'[c].createdAt <= invites'[c].revokedAt
    <3>1. CASE c = k
      BY <1>4, <2>3, <3>1
    <3>2. CASE c # k /\ Active(c, p)
      BY <1>5, <3>2
    <3>3. CASE c # k /\ ~Active(c, p)
      BY <1>6, <2>3, <3>3 DEF Integrity, OneActiveInvite
    <3>4. QED BY <3>1, <3>2, <3>3
  <2>4. QED BY <2>2, <2>3 DEF OneActiveInvite
<1>9. NoOrphans'
  <2>1. p \in parties
    BY <1>1 DEF Integrity, NoOrphans, GmOf
  <2>2. ASSUME NEW c \in Code, invites'[c] # None
        PROVE  invites'[c].party \in parties
    <3>1. CASE c = k
      BY <1>4, <2>1, <3>1
    <3>2. CASE c # k /\ Active(c, p)
      BY <1>5, <2>1, <3>2
    <3>3. CASE c # k /\ ~Active(c, p)
      BY <1>6, <2>2, <3>3 DEF Integrity, NoOrphans
    <3>4. QED BY <3>1, <3>2, <3>3
  <2>3. QED BY <1>1, <2>2 DEF Integrity, NoOrphans
<1>10. OneGmPerParty' /\ MembershipKeys' /\ LinkedCharacterIsOwned'
  BY SMTT(30), <1>1 DEF Integrity, OneGmPerParty, MembershipKeys, LinkedCharacterIsOwned, GmOf
<1>11. QED BY <1>7, <1>8, <1>9, <1>10 DEF Integrity

(* The new row shares neither of its keys with an older one.               *)
LEMMA JoinIntegrity ==
  ASSUME TypeOK, Integrity,
         NEW u \in User, NEW p \in Party, NEW k \in Code, NEW c \in Character, NEW time \in Times,
         Join(u, p, k, c, time)
  PROVE  TypeOK' /\ Integrity'
<1> DEFINE new == PlayerOf(u, p, c)
<1>1. /\ Active(k, p) /\ Owner[c] = u /\ parties' = parties /\ invites' = invites
      /\ \A m \in members : ~(m.party = p /\ m.user = u) /\ m.character # c
      /\ members' = members \cup {new}
      /\ new.party = p /\ new.user = u /\ new.role = "player" /\ new.character = c
      /\ new \in Membership /\ c # None
  BY NoneAssumption DEF Join, Current, PlayerOf, Membership
<1>2. p \in parties
  BY <1>1 DEF Active, Integrity, NoOrphans
<1> HIDE DEF new
<1>3. TypeOK'
  BY <1>1 DEF TypeOK
<1>4. OneGmPerParty'
  <2>1. ASSUME NEW q \in parties PROVE \E v \in User : GmOf(v, q)' \in members'
    <3>1. PICK v \in User : GmOf(v, q) \in members
      BY DEF Integrity, OneGmPerParty
    <3>2. GmOf(v, q)' \in members'
      BY <1>1, <3>1 DEF GmOf
    <3>3. QED BY <3>2
  <2>2. ASSUME NEW m \in members', NEW n \in members',
               m.party \in parties, m.party = n.party, m.role = "gm", n.role = "gm"
        PROVE  m = n
    <3>1. m \in members /\ n \in members
      BY <1>1, <2>2
    <3>2. QED BY <2>2, <3>1 DEF Integrity, OneGmPerParty
  <2>3. QED BY <1>1, <2>1, <2>2 DEF OneGmPerParty
<1>5. MembershipKeys'
  BY <1>1 DEF Integrity, MembershipKeys
<1>6. LinkedCharacterIsOwned'
  BY <1>1 DEF Integrity, LinkedCharacterIsOwned
<1>7. OneActiveInvite' /\ NoOrphans'
  BY <1>1, <1>2 DEF Integrity, OneActiveInvite, NoOrphans, Active
<1>8. QED BY <1>3, <1>4, <1>5, <1>6, <1>7 DEF Integrity

LEMMA StepKeepsIntegrity ==
  ASSUME TypeOK, Integrity, [Next]_vars
  PROVE  TypeOK' /\ Integrity'
<1>1. CASE Next
  BY <1>1, CreatePartyIntegrity, ReplaceInviteIntegrity, JoinIntegrity DEF Next
<1>2. CASE UNCHANGED vars
  BY SMTT(30), <1>2 DEF vars, TypeOK, Integrity, OneGmPerParty, MembershipKeys, LinkedCharacterIsOwned,
     OneActiveInvite, NoOrphans, Active, GmOf
<1>3. QED BY <1>1, <1>2

(* Whatever requests the Party API serves, every Party keeps exactly one   *)
(* GM and at most one active invite, no user or character is a member      *)
(* twice, and every linked character belongs to its member.                *)
THEOREM TablesKeepIntegrity == Spec => [](TypeOK /\ Integrity)
<1>1. TypeOK /\ Integrity /\ [Next]_vars => (TypeOK /\ Integrity)'
  BY StepKeepsIntegrity
<1>2. QED BY <1>1, InitIntegrity, PTL DEF Spec
------------------------------------------------------------------------------
(* THE PAGES. What the tab and its requests know is said of any membership *)
(* rows `ms`, invite rows `inv`, tab `t` and requests `rq`, so that it can *)
(* be said of two states at once.                                          *)
PanelState ==
  [invite  : [status : {"idle", "loading", "loaded", "error"}, code : Code \cup {None}],
   given   : SUBSET Code,
   copy    : Copy \cup {None},
   active  : Credential \cup {None},
   holds   : Credential \cup {None},
   contested : BOOLEAN]

TabState ==
  [user : User \cup {None}, page : Pages,
   load : [status : {"loading", "loaded", "error"}, answer : Answers],
   panel : PanelState, creating : {"idle", "submitting", "error"}]

WriteState == [credential : Credential, done : BOOLEAN] \cup {Stray}

RequestState ==
  [kind : Gets \cup {"create", "invite"}, user : User, page : Pages,
   mounted : BOOLEAN, answer : Answers \cup {None}]

(* What a load was granted: the requester's memberships and the linked     *)
(* characters the answer was read from are still there.                    *)
Joined(ms, user, p)      == \E m \in ms : m.party = p /\ m.user = user
Plays(ms, user, p, role) == \E m \in ms : m.party = p /\ m.user = user /\ m.role = role
LinkedTo(ms, p, c)       == \E m \in ms : m.party = p /\ m.role = "player" /\ m.character = c

Granted(ms, user, page, answer) ==
  /\ page.name = "home" => \A p \in answer.items : Joined(ms, user, p)
  /\ page.name = "party" =>
       /\ Plays(ms, user, page.party, answer.role)
       /\ \A c \in answer.items : LinkedTo(ms, page.party, c)
  /\ page.name = "party-character" =>
       /\ Plays(ms, user, page.party, "gm")
       /\ answer.items = {page.character} /\ LinkedTo(ms, page.party, page.character)

(* An invite of the Party exists. It is spent once it is not active: no    *)
(* invite becomes active again and no credential is issued twice.          *)
Issued(inv, k, p) == k \in Code /\ inv[k] # None /\ inv[k].party = p
Spent(inv, k, p)  == Issued(inv, k, p) /\ inv[k].revokedAt # None

PanelShown(t) == t.page.name = "party" /\ t.load.status = "loaded" /\ t.load.answer.role = "gm"

LoadKnows(ms, t) ==
  /\ t.load.status # "loading" => t.user \in User
  /\ t.load.status = "loaded" => Granted(ms, t.user, t.page, t.load.answer)
  /\ ~PanelShown(t) => t.panel = Fresh

(* Of the credentials the panel had answers with only the one it shows may *)
(* be active.                                                              *)
PanelKnows(inv, t) ==
  /\ \A k \in t.panel.given : Issued(inv, k, t.page.party)
  /\ t.panel.invite.status = "loaded" =>
       /\ t.panel.invite.code \in t.panel.given
       /\ \A k \in t.panel.given \ {t.panel.invite.code} : Spent(inv, k, t.page.party)

(* What is said of a copy is said of the invite shown, and what is being   *)
(* copied is what is said to be.                                           *)
CopyKnows(panel) ==
  /\ panel.copy # None =>
       panel.invite.status = "loaded" /\ panel.copy.credential.code = panel.invite.code
  /\ panel.active # None => panel.copy # None /\ panel.copy.credential = panel.active

(* Unless the clipboard is contested, every write under way is of the      *)
(* credential the panel speaks of, and the clipboard holds that once one   *)
(* of them is done; a panel that has copied nothing is heard by none.      *)
WritesKnow(panel, wr) ==
  ~panel.contested =>
    /\ panel.copy = None => \A w \in Write : wr[w] # None => wr[w] = Stray
    /\ panel.copy # None =>
         /\ \A w \in Write : wr[w] # None =>
              wr[w].credential = panel.copy.credential /\ (wr[w].done => panel.holds = panel.copy.credential)
         /\ panel.copy.status = "success" => panel.holds = panel.copy.credential

TabKnows(ms, inv, t) == LoadKnows(ms, t) /\ PanelKnows(inv, t) /\ CopyKnows(t.panel)

(* A request of the page that is shown, whose answer the page hears.       *)
OfThePage(r, t) == r.mounted /\ r.user = t.user /\ r.page = t.page

LoadAwaited(ms, t, r) ==
  r.kind \in Gets =>
    /\ OfThePage(r, t) /\ r.kind = r.page.name /\ t.load.status = "loading"
    /\ r.answer # None /\ r.answer.ok => Granted(ms, r.user, r.page, r.answer)

InviteAwaited(inv, t, r) ==
  r.kind = "invite" =>
    /\ OfThePage(r, t) /\ PanelShown(t) /\ t.panel.invite.status = "loading"
    /\ r.answer # None /\ ~r.answer.ok => r.answer.items = {}
    /\ r.answer # None /\ r.answer.ok =>
         /\ \E k \in Code : r.answer.items = {k} /\ Issued(inv, k, r.page.party)
         /\ \A k \in t.panel.given : Spent(inv, k, r.page.party)

CreationAwaited(r) == r.kind = "create" /\ r.answer # None => r.answer.items \subseteq Party

Awaits(ms, inv, t, r) == LoadAwaited(ms, t, r) /\ InviteAwaited(inv, t, r) /\ CreationAwaited(r)

(* One load and one generation of an invite are under way at a time.       *)
Rivals(q, r) == (q.kind \in Gets /\ r.kind \in Gets) \/ (q.kind = "invite" /\ r.kind = "invite")

RequestsKnow(ms, inv, t, rq) ==
  /\ \A s \in Slot : rq[s] # None => Awaits(ms, inv, t, rq[s])
  /\ \A s, u \in Slot : rq[s] # None /\ rq[u] # None /\ Rivals(rq[s], rq[u]) => s = u

PagesInv ==
  /\ TypeOK /\ Integrity
  /\ tab \in TabState /\ TabKnows(members, invites, tab)
  /\ request \in [Slot -> RequestState \cup {None}]
  /\ RequestsKnow(members, invites, tab, request)
  /\ write \in [Write -> WriteState \cup {None}] /\ WritesKnow(tab.panel, write)
------------------------------------------------------------------------------
(* Memberships are never deleted; an invite keeps its Party, and once      *)
(* revoked it stays revoked.                                               *)
InvitesStand(inv, next) ==
  \A k \in Code : inv[k] # None =>
    /\ next[k] # None /\ next[k].party = inv[k].party
    /\ inv[k].revokedAt # None => next[k].revokedAt # None

LEMMA TablesGrow ==
  ASSUME TypeOK, Integrity, [Next]_vars
  PROVE  /\ TypeOK' /\ Integrity'
         /\ members \subseteq members' /\ InvitesStand(invites, invites')
<1>1. ASSUME NEW u \in User, NEW p \in Party, CreateParty(u, p)
      PROVE  members \subseteq members' /\ invites' = invites
  BY <1>1 DEF CreateParty
<1>2. ASSUME NEW u \in User, NEW p \in Party, NEW k \in Code, NEW c \in Character,
             NEW time \in Times, Join(u, p, k, c, time)
      PROVE  members \subseteq members' /\ invites' = invites
  BY <1>2 DEF Join
<1>3. ASSUME NEW u \in User, NEW p \in Party, NEW k \in Code, NEW time \in Times,
             ReplaceInvite(u, p, k, time)
      PROVE  members' = members /\ InvitesStand(invites, invites')
  <2>1. invites[k] = None /\ invites' = Rotated(p, k, time) /\ members' = members
    BY <1>3 DEF ReplaceInvite
  <2>2. ASSUME NEW c \in Code, invites[c] # None
        PROVE  /\ invites'[c] # None /\ invites'[c].party = invites[c].party
               /\ invites[c].revokedAt # None => invites'[c].revokedAt # None
    <3>1. c # k /\ invites[c] \in Invite
      BY <2>1, <2>2 DEF TypeOK
    <3>2. CASE Active(c, p)
      <4>1. invites'[c] = [invites[c] EXCEPT !.revokedAt = time]
        BY <2>1, <3>1, <3>2 DEF Rotated
      <4>2. invites'[c] \in Invite /\ invites'[c].party = invites[c].party
        BY <3>1, <4>1, TimesAssumption DEF Invite
      <4>3. QED BY <3>2, <4>2, NoneIsNoRecord DEF Active
    <3>3. CASE ~Active(c, p)
      <4>1. invites'[c] = invites[c]
        BY <2>1, <3>1, <3>3 DEF Rotated
      <4>2. QED BY <2>2, <4>1
    <3>4. QED BY <3>2, <3>3
  <2>3. QED BY <2>1, <2>2 DEF InvitesStand
<1>4. ASSUME UNCHANGED vars
      PROVE  members' = members /\ invites' = invites
  BY <1>4 DEF vars
<1>5. members \subseteq members' /\ InvitesStand(invites, invites')
  <2>1. invites' = invites => InvitesStand(invites, invites')
    BY DEF InvitesStand
  <2>2. QED BY <1>1, <1>2, <1>3, <1>4, <2>1 DEF Next
<1>6. TypeOK' /\ Integrity'
  BY StepKeepsIntegrity
<1>7. QED BY <1>5, <1>6

(* So what was granted, issued or spent stays so.                          *)
LEMMA FactsStand ==
  ASSUME NEW ms, NEW inv, NEW ms2, NEW inv2, ms \subseteq ms2, InvitesStand(inv, inv2)
  PROVE  /\ \A user, page, answer : Granted(ms, user, page, answer) => Granted(ms2, user, page, answer)
         /\ \A k, p : /\ Issued(inv, k, p) => Issued(inv2, k, p)
                      /\ Spent(inv, k, p) => Spent(inv2, k, p)
<1>1. ASSUME NEW user, NEW page, NEW answer, Granted(ms, user, page, answer)
      PROVE  Granted(ms2, user, page, answer)
  <2>1. \A p : Joined(ms, user, p) => Joined(ms2, user, p)
    BY DEF Joined
  <2>2. \A p, role : Plays(ms, user, p, role) => Plays(ms2, user, p, role)
    BY DEF Plays
  <2>3. \A p, c : LinkedTo(ms, p, c) => LinkedTo(ms2, p, c)
    BY DEF LinkedTo
  <2>4. QED BY <1>1, <2>1, <2>2, <2>3 DEF Granted
<1>2. ASSUME NEW k, NEW p
      PROVE  /\ Issued(inv, k, p) => Issued(inv2, k, p)
             /\ Spent(inv, k, p) => Spent(inv2, k, p)
  BY DEF InvitesStand, Issued, Spent
<1>3. QED BY <1>1, <1>2

LEMMA KnowledgeStands ==
  ASSUME NEW ms, NEW inv, NEW ms2, NEW inv2, ms \subseteq ms2, InvitesStand(inv, inv2),
         NEW t, NEW rq
  PROVE  /\ TabKnows(ms, inv, t) => TabKnows(ms2, inv2, t)
         /\ RequestsKnow(ms, inv, t, rq) => RequestsKnow(ms2, inv2, t, rq)
<1>1. TabKnows(ms, inv, t) => TabKnows(ms2, inv2, t)
  BY FactsStand DEF TabKnows, LoadKnows, PanelKnows
<1>2. ASSUME NEW r, Awaits(ms, inv, t, r)
      PROVE  Awaits(ms2, inv2, t, r)
  <2>1. LoadAwaited(ms2, t, r)
    BY <1>2, FactsStand DEF Awaits, LoadAwaited
  <2>2. InviteAwaited(inv2, t, r)
    BY <1>2, FactsStand DEF Awaits, InviteAwaited
  <2>3. QED BY <1>2, <2>1, <2>2 DEF Awaits
<1>3. QED BY <1>1, <1>2 DEF RequestsKnow
------------------------------------------------------------------------------
(* The pages, their fields and the answers.                                *)
LEMMA PageFields ==
  ASSUME NEW page \in Pages
  PROVE  /\ page.name \in {"home", "new-party", "elsewhere", "party", "party-character"}
         /\ page.name \in {"party", "party-character"} => page.party \in Party
         /\ page.name = "party-character" => page.character \in Character
BY DEF Pages, Home, NewParty, Elsewhere, PartyAt, CharacterAt, Page

LEMMA PartyPage ==
  ASSUME NEW p \in Party
  PROVE  PartyAt(p) \in Pages /\ PartyAt(p).name = "party" /\ PartyAt(p).party = p
BY DEF Pages, PartyAt, Page

LEMMA AnswerTypes ==
  /\ Failed \in Answers /\ ~Failed.ok /\ Failed.items = {}
  /\ \A role \in {"gm", "player", None}, items \in SUBSET (Party \cup Character \cup Code) :
       /\ Done(role, items) \in Answers /\ Done(role, items).ok
       /\ Done(role, items).role = role /\ Done(role, items).items = items
<1>1. TRUE \in BOOLEAN /\ FALSE \in BOOLEAN
  OBVIOUS
<1>2. QED BY <1>1 DEF Failed, Done, Answers

(* A page that has just been shown knows nothing yet.                      *)
LEMMA FreshPanel ==
  /\ Fresh \in PanelState /\ Fresh.given = {} /\ Fresh.invite.status = "idle"
  /\ CopyKnows(Fresh) /\ Fresh.copy = None /\ Fresh.holds = None /\ Fresh.contested = FALSE
<1>1. FALSE \in BOOLEAN
  OBVIOUS
<1>2. Idle \in [status : {"idle", "loading", "loaded", "error"}, code : Code \cup {None}]
  BY DEF Idle
<1>3. QED BY <1>1, <1>2 DEF Fresh, PanelState, Idle, CopyKnows

LEMMA FreshTab ==
  ASSUME NEW user \in User \cup {None}, NEW page \in Pages, NEW ms, NEW inv
  PROVE  LET t == At(user, page) IN
         /\ t \in TabState /\ TabKnows(ms, inv, t)
         /\ t.user = user /\ t.page = page /\ t.load.status = "loading" /\ ~PanelShown(t)
         /\ t.panel = Fresh
<1> DEFINE t == At(user, page)
<1>1. Loading \in [status : {"loading", "loaded", "error"}, answer : Answers]
  BY AnswerTypes DEF Loading
<1>2. /\ t.user = user /\ t.page = page /\ t.load = Loading /\ t.panel = Fresh
      /\ t \in TabState
  BY <1>1, FreshPanel DEF At, TabState
<1>3. Loading.status = "loading"
  BY DEF Loading
<1> HIDE DEF t
<1>4. TabKnows(ms, inv, t) /\ ~PanelShown(t)
  BY <1>2, <1>3, FreshPanel DEF TabKnows, LoadKnows, PanelKnows, PanelShown
<1>5. QED BY <1>2, <1>3, <1>4 DEF t

(* A request that has just been sent.                                      *)
LEMMA SentType ==
  ASSUME NEW kind \in Gets \cup {"create", "invite"}, NEW user \in User, NEW page \in Pages
  PROVE  LET r == Sent(kind, user, page) IN
         /\ r \in RequestState
         /\ r.kind = kind /\ r.user = user /\ r.page = page /\ r.mounted /\ r.answer = None
<1>1. TRUE \in BOOLEAN
  OBVIOUS
<1>2. QED BY <1>1 DEF Sent, RequestState

(* Of the requests of a page that is left, only creations are awaited.     *)
LEMMA DeafenedAwait ==
  ASSUME NEW ms, NEW inv, NEW t, NEW t2, NEW settled, RequestsKnow(ms, inv, t, request),
         request \in [Slot -> RequestState \cup {None}]
  PROVE  /\ Deafened(settled) \in [Slot -> RequestState \cup {None}]
         /\ RequestsKnow(ms, inv, t2, Deafened(settled))
         /\ \A s \in Slot : Deafened(settled)[s] # None => Deafened(settled)[s].kind = "create"
<1> DEFINE d == Deafened(settled)
<1>1. FALSE \in BOOLEAN
  OBVIOUS
<1>2. ASSUME NEW s \in Slot, d[s] # None
      PROVE  d[s] \in RequestState /\ d[s].kind = "create" /\ CreationAwaited(d[s])
  <2>1. /\ request[s] # None /\ request[s].kind = "create"
        /\ d[s] = [request[s] EXCEPT !.mounted = FALSE]
    BY <1>2 DEF Deafened
  <2>2. request[s] \in RequestState /\ CreationAwaited(request[s])
    BY <2>1 DEF RequestsKnow, Awaits
  <2>3. d[s] \in RequestState /\ d[s].kind = "create" /\ d[s].answer = request[s].answer
    BY <1>1, <2>1, <2>2 DEF RequestState
  <2>4. QED BY <2>1, <2>2, <2>3 DEF CreationAwaited
<1>3. d \in [Slot -> RequestState \cup {None}]
  <2>1. DOMAIN d = Slot /\ \A s \in Slot : d[s] \in RequestState \cup {None}
    BY <1>2 DEF Deafened
  <2>2. d = [s \in Slot |-> d[s]]
    BY DEF Deafened
  <2>3. QED BY <2>1, <2>2
<1> HIDE DEF d
<1>4. RequestsKnow(ms, inv, t2, d)
  BY <1>2 DEF RequestsKnow, Awaits, LoadAwaited, InviteAwaited, Rivals, Gets
<1>5. QED BY <1>2, <1>3, <1>4 DEF d

(* One request more, answered, settled or given up.                        *)
LEMMA OneChanges ==
  ASSUME NEW ms, NEW inv, NEW t, NEW rq \in [Slot -> RequestState \cup {None}],
         RequestsKnow(ms, inv, t, rq),
         NEW s \in Slot, NEW r \in RequestState \cup {None},
         r # None => /\ Awaits(ms, inv, t, r)
                     /\ \A u \in Slot \ {s} : rq[u] # None => ~Rivals(rq[u], r) /\ ~Rivals(r, rq[u])
  PROVE  /\ [rq EXCEPT ![s] = r] \in [Slot -> RequestState \cup {None}]
         /\ RequestsKnow(ms, inv, t, [rq EXCEPT ![s] = r])
<1> DEFINE next == [rq EXCEPT ![s] = r]
<1>1. /\ next \in [Slot -> RequestState \cup {None}] /\ next[s] = r
      /\ \A u \in Slot \ {s} : next[u] = rq[u]
  OBVIOUS
<1> HIDE DEF next
<1>2. QED BY <1>1 DEF RequestsKnow, next

(* The requests under way do not care about the rest of the tab.           *)
LEMMA SamePage ==
  ASSUME NEW ms, NEW inv, NEW t, NEW t2, NEW rq, RequestsKnow(ms, inv, t, rq),
         t2.user = t.user, t2.page = t.page, t2.load = t.load,
         t2.panel.invite = t.panel.invite, t2.panel.given = t.panel.given
  PROVE  RequestsKnow(ms, inv, t2, rq)
BY DEF RequestsKnow, Awaits, LoadAwaited, InviteAwaited, OfThePage, PanelShown

(* A page is shown.                                                        *)
LEMMA ShowKeeps ==
  ASSUME PagesInv, NEW user \in User \cup {None}, NEW page \in Pages, NEW settled,
         Show(user, page, Deafened(settled))
  PROVE  PagesInv'
<1> DEFINE d == Deafened(settled)
           t == At(user, page)
<1>1. /\ TypeOK' /\ Integrity' /\ members' = members /\ invites' = invites
      /\ tab' = t
  <2>1. UNCHANGED vars /\ tab' = t
    BY DEF Show
  <2>2. members' = members /\ invites' = invites /\ [Next]_vars
    BY <2>1 DEF vars
  <2>3. QED BY <2>1, <2>2, StepKeepsIntegrity DEF PagesInv
<1>2. /\ t \in TabState /\ TabKnows(members, invites, t)
      /\ t.user = user /\ t.page = page /\ t.load.status = "loading" /\ ~PanelShown(t)
      /\ t.panel = Fresh
  BY FreshTab
<1>3. /\ d \in [Slot -> RequestState \cup {None}] /\ RequestsKnow(members, invites, t, d)
      /\ \A s \in Slot : d[s] # None => d[s].kind = "create"
  BY DeafenedAwait DEF PagesInv
<1> HIDE DEF d, t
<1>4. ASSUME Loads(user, page), NEW s \in Slot, request' = [d EXCEPT ![s] = Sent(page.name, user, page)]
      PROVE  /\ request' \in [Slot -> RequestState \cup {None}]
             /\ RequestsKnow(members, invites, t, request')
  <2> DEFINE r == Sent(page.name, user, page)
  <2>1. page.name \in Gets /\ user \in User
    BY <1>4 DEF Loads
  <2>2. /\ r \in RequestState
        /\ r.kind = page.name /\ r.user = user /\ r.page = page /\ r.mounted /\ r.answer = None
    BY <2>1, SentType
  <2> HIDE DEF r
  <2>3. Awaits(members, invites, t, r)
    BY <1>2, <2>1, <2>2 DEF Awaits, LoadAwaited, InviteAwaited, CreationAwaited, OfThePage, Gets
  <2>4. \A u \in Slot \ {s} : d[u] # None => ~Rivals(d[u], r) /\ ~Rivals(r, d[u])
    BY <1>3, <2>1, <2>2 DEF Rivals, Gets
  <2>5. request' = [d EXCEPT ![s] = r]
    BY <1>4 DEF r
  <2>6. QED BY <1>3, <2>2, <2>3, <2>4, <2>5, OneChanges
<1>5. /\ request' \in [Slot -> RequestState \cup {None}]
      /\ RequestsKnow(members, invites, t, request')
  BY <1>3, <1>4 DEF Show, d
<1>6. write' \in [Write -> WriteState \cup {None}] /\ WritesKnow(t.panel, write')
  <2>1. /\ write' \in [Write -> {Stray, None}]
        /\ \A w \in Write : write'[w] # None => write'[w] = Stray
    BY DEF Show, Unheard
  <2>2. WritesKnow(t.panel, write')
    BY <1>2, <2>1, FreshPanel DEF WritesKnow
  <2>3. QED BY <2>1, <2>2 DEF WriteState
<1>7. QED BY <1>1, <1>2, <1>5, <1>6 DEF PagesInv
------------------------------------------------------------------------------
(* An answer that says what the tables say is true as long as it is        *)
(* awaited.                                                                *)
LEMMA AnswerKeeps ==
  ASSUME PagesInv, TypeOK', Integrity', members \subseteq members', InvitesStand(invites, invites'),
         NEW s \in Slot, Pending(s), NEW a \in Answers, Answer(s, a), tab' = tab, write' = write,
         request[s].kind \in Gets /\ a.ok => Granted(members', request[s].user, request[s].page, a),
         request[s].kind = "create" => a.items \subseteq Party,
         request[s].kind = "invite" /\ ~a.ok => a.items = {},
         request[s].kind = "invite" /\ a.ok =>
           /\ \E k \in Code : a.items = {k} /\ Issued(invites', k, request[s].page.party)
           /\ \A k \in tab.panel.given : Spent(invites', k, request[s].page.party)
  PROVE  PagesInv'
<1> DEFINE r == [request[s] EXCEPT !.answer = a]
<1>1. /\ TabKnows(members', invites', tab) /\ RequestsKnow(members', invites', tab, request)
      /\ request \in [Slot -> RequestState \cup {None}] /\ tab \in TabState
  BY KnowledgeStands DEF PagesInv
<1>2. /\ request[s] \in RequestState /\ request[s] # None /\ Awaits(members', invites', tab, request[s])
      /\ \A u \in Slot \ {s} : request[u] # None =>
           ~Rivals(request[u], request[s]) /\ ~Rivals(request[s], request[u])
  BY <1>1 DEF Pending, RequestsKnow
<1>3. /\ r \in RequestState /\ r.kind = request[s].kind /\ r.user = request[s].user
      /\ r.page = request[s].page /\ r.mounted = request[s].mounted /\ r.answer = a
  BY <1>2 DEF RequestState
<1>4. request' = [request EXCEPT ![s] = r]
  BY <1>1 DEF Answer
<1> HIDE DEF r
<1>5. Awaits(members', invites', tab, r)
  BY <1>2, <1>3 DEF Awaits, LoadAwaited, InviteAwaited, CreationAwaited, OfThePage
<1>6. \A u \in Slot \ {s} : request[u] # None => ~Rivals(request[u], r) /\ ~Rivals(r, request[u])
  BY <1>2, <1>3 DEF Rivals
<1>7. /\ request' \in [Slot -> RequestState \cup {None}]
      /\ RequestsKnow(members', invites', tab, request')
  BY <1>1, <1>3, <1>4, <1>5, <1>6, OneChanges
<1>8. QED BY <1>1, <1>7 DEF PagesInv

(* What the handlers read from the tables.                                 *)
LEMMA TablesRead ==
  ASSUME TypeOK, Integrity, NEW user, NEW p
  PROVE  /\ PartiesOf(user) \subseteq Party /\ \A q \in PartiesOf(user) : Joined(members, user, q)
         /\ MemberRole(user, p) \subseteq {"gm", "player"}
         /\ \A role : role \in MemberRole(user, p) <=> Plays(members, user, p, role)
         /\ Linked(p) \subseteq Character
         /\ \A c : c \in Linked(p) <=> LinkedTo(members, p, c)
<1>1. members \subseteq Membership
  BY DEF TypeOK
<1>2. \A m \in members : m.role = "player" => m.character \in Character
  BY <1>1 DEF Integrity, LinkedCharacterIsOwned, Membership
<1>3. PartiesOf(user) \subseteq Party /\ \A q \in PartiesOf(user) : Joined(members, user, q)
  BY <1>1 DEF PartiesOf, Joined, Membership
<1>4. /\ MemberRole(user, p) \subseteq {"gm", "player"}
      /\ \A role : role \in MemberRole(user, p) <=> Plays(members, user, p, role)
  BY <1>1 DEF MemberRole, Plays, Membership
<1>5. Linked(p) \subseteq Character /\ \A c : c \in Linked(p) <=> LinkedTo(members, p, c)
  BY <1>2 DEF Linked, LinkedTo
<1>6. QED BY <1>3, <1>4, <1>5

(* A handler that leaves the tables alone.                                 *)
LEMMA ReadAnswerKeeps ==
  ASSUME PagesInv, UNCHANGED vars,
         NEW s \in Slot, Pending(s), NEW a \in Answers, Answer(s, a), tab' = tab, write' = write,
         request[s].kind \in Gets /\ a.ok => Granted(members, request[s].user, request[s].page, a),
         request[s].kind \in {"create", "invite"} => ~a.ok /\ a.items = {}
  PROVE  PagesInv'
<1>1. members' = members /\ invites' = invites /\ [Next]_vars
  BY DEF vars
<1>2. TypeOK' /\ Integrity' /\ members \subseteq members' /\ InvitesStand(invites, invites')
  BY <1>1, TablesGrow DEF PagesInv
<1>3. QED BY <1>1, <1>2, AnswerKeeps

LEMMA ListKeeps ==
  ASSUME PagesInv, NEW s \in Slot, Pending(s), tab' = tab, write' = write, List(s)
  PROVE  PagesInv'
<1> DEFINE a == Done(None, PartiesOf(request[s].user))
<1>1. /\ request[s] # None /\ request[s] \in RequestState /\ Awaits(members, invites, tab, request[s])
      /\ TypeOK /\ Integrity
  BY DEF PagesInv, Pending, RequestsKnow
<1>2. /\ PartiesOf(request[s].user) \subseteq Party
      /\ \A p \in PartiesOf(request[s].user) : Joined(members, request[s].user, p)
  BY <1>1, TablesRead
<1>3. a \in Answers /\ a.items = PartiesOf(request[s].user)
  BY <1>2, AnswerTypes
<1>4. request[s].kind = "home" /\ Answer(s, a) /\ UNCHANGED vars
  BY DEF List
<1>5. request[s].page.name = "home"
  BY <1>1, <1>4 DEF Awaits, LoadAwaited, Gets
<1> HIDE DEF a
<1>6. Granted(members, request[s].user, request[s].page, a)
  BY <1>2, <1>3, <1>5 DEF Granted
<1>7. QED BY <1>3, <1>4, <1>6, ReadAnswerKeeps

LEMMA RefuseKeeps ==
  ASSUME PagesInv, NEW s \in Slot, Pending(s), tab' = tab, write' = write, Answer(s, Failed), UNCHANGED vars
  PROVE  PagesInv'
<1>1. Failed \in Answers /\ ~Failed.ok /\ Failed.items = {}
  BY AnswerTypes
<1>2. QED BY <1>1, ReadAnswerKeeps

LEMMA GetForMemberKeeps ==
  ASSUME PagesInv, NEW s \in Slot, Pending(s), tab' = tab, write' = write, GetForMember(s)
  PROVE  PagesInv'
<1> DEFINE user == request[s].user
           p == request[s].page.party
<1>1. /\ request[s] # None /\ request[s] \in RequestState /\ Awaits(members, invites, tab, request[s])
      /\ TypeOK /\ Integrity
  BY DEF PagesInv, Pending, RequestsKnow
<1>2. request[s].kind = "party" /\ UNCHANGED vars
  BY DEF GetForMember
<1>3. request[s].page.name = "party"
  BY <1>1, <1>2 DEF Awaits, LoadAwaited, Gets
<1>4. ASSUME NEW role \in MemberRole(user, p), Answer(s, Done(role, Linked(p)))
      PROVE  PagesInv'
  <2> DEFINE a == Done(role, Linked(p))
  <2>1. /\ role \in {"gm", "player"} /\ Plays(members, user, p, role)
        /\ Linked(p) \subseteq Character /\ \A c \in Linked(p) : LinkedTo(members, p, c)
    BY <1>1, <1>4, TablesRead
  <2>2. a \in Answers /\ a.role = role /\ a.items = Linked(p)
    BY <2>1, AnswerTypes
  <2> HIDE DEF a
  <2>3. Granted(members, user, request[s].page, a)
    BY <1>3, <2>1, <2>2 DEF Granted
  <2>4. Answer(s, a)
    BY <1>4 DEF a
  <2>5. QED BY <1>2, <2>2, <2>3, <2>4, ReadAnswerKeeps
<1>5. CASE Answer(s, Failed)
  BY <1>2, <1>5, RefuseKeeps
<1>6. QED BY <1>4, <1>5 DEF GetForMember

LEMMA GetByIDForPartyGMKeeps ==
  ASSUME PagesInv, NEW s \in Slot, Pending(s), tab' = tab, write' = write, GetByIDForPartyGM(s)
  PROVE  PagesInv'
<1> DEFINE page == request[s].page
           a == Done(None, {page.character})
<1>1. /\ request[s] # None /\ request[s] \in RequestState /\ Awaits(members, invites, tab, request[s])
      /\ TypeOK /\ Integrity
  BY DEF PagesInv, Pending, RequestsKnow
<1>2. request[s].kind = "party-character" /\ UNCHANGED vars
  BY DEF GetByIDForPartyGM
<1>3. page.name = "party-character"
  BY <1>1, <1>2 DEF Awaits, LoadAwaited, Gets
<1>4. CASE "gm" \in MemberRole(request[s].user, page.party) /\ page.character \in Linked(page.party)
  <2>1. /\ Plays(members, request[s].user, page.party, "gm")
        /\ page.character \in Character /\ LinkedTo(members, page.party, page.character)
    BY <1>1, <1>4, TablesRead
  <2>2. a \in Answers /\ a.items = {page.character}
    BY <2>1, AnswerTypes
  <2>3. Answer(s, a)
    BY <1>4 DEF GetByIDForPartyGM
  <2> HIDE DEF a
  <2>4. Granted(members, request[s].user, page, a)
    BY <1>3, <2>1, <2>2 DEF Granted
  <2>5. QED BY <1>2, <2>2, <2>3, <2>4, ReadAnswerKeeps
<1>5. CASE ~("gm" \in MemberRole(request[s].user, page.party) /\ page.character \in Linked(page.party))
  <2>1. Answer(s, Failed)
    BY <1>5 DEF GetByIDForPartyGM
  <2>2. QED BY <1>2, <2>1, RefuseKeeps
<1>6. QED BY <1>4, <1>5
LEMMA CreateKeeps ==
  ASSUME PagesInv, NEW s \in Slot, Pending(s), tab' = tab, write' = write, Create(s)
  PROVE  PagesInv' /\ [Next]_vars
<1>1. request[s] # None /\ request[s] \in RequestState /\ TypeOK /\ Integrity
  BY DEF PagesInv, Pending
<1>2. PICK p \in Party : CreateParty(request[s].user, p) /\ Answer(s, Done("gm", {p}))
  BY DEF Create
<1>3. request[s].kind = "create" /\ request[s].user \in User
  BY <1>1 DEF Create, RequestState
<1>4. Next
  BY <1>2, <1>3 DEF Next
<1>5. TypeOK' /\ Integrity' /\ members \subseteq members' /\ InvitesStand(invites, invites')
  BY <1>1, <1>4, TablesGrow
<1>6. Done("gm", {p}) \in Answers /\ Done("gm", {p}).items = {p}
  BY AnswerTypes
<1>7. QED BY <1>2, <1>3, <1>4, <1>5, <1>6, AnswerKeeps DEF Gets

(* The new invite is the Party's, and every invite of the Party that the   *)
(* panel had an answer with has just been revoked or was so before.        *)
LEMMA CreateOrRegenerateInviteKeeps ==
  ASSUME PagesInv, NEW s \in Slot, Pending(s), tab' = tab, write' = write, CreateOrRegenerateInvite(s)
  PROVE  PagesInv' /\ [Next]_vars
<1> DEFINE user == request[s].user
           p == request[s].page.party
<1>1. /\ request[s] # None /\ request[s] \in RequestState /\ Awaits(members, invites, tab, request[s])
      /\ TypeOK /\ Integrity /\ TabKnows(members, invites, tab)
  BY DEF PagesInv, Pending, RequestsKnow
<1>2. request[s].kind = "invite"
  BY DEF CreateOrRegenerateInvite
<1>3. request[s].page = tab.page /\ request[s].page.name = "party"
  BY <1>1, <1>2 DEF Awaits, InviteAwaited, OfThePage, PanelShown
<1>4. user \in User /\ p \in Party
  BY <1>1, <1>3, PageFields DEF RequestState
<1>5. CASE Answer(s, Failed) /\ UNCHANGED vars
  BY <1>5, RefuseKeeps
<1>6. ASSUME NEW k \in Code, NEW time \in Times, ReplaceInvite(user, p, k, time), Answer(s, Done("gm", {k}))
      PROVE  PagesInv' /\ [Next]_vars
  <2> DEFINE a == Done("gm", {k})
  <2>1. Next
    BY <1>4, <1>6 DEF Next
  <2>2. TypeOK' /\ Integrity' /\ members \subseteq members' /\ InvitesStand(invites, invites')
    BY <1>1, <2>1, TablesGrow
  <2>3. a \in Answers /\ a.ok /\ a.items = {k}
    BY AnswerTypes
  <2>4. invites[k] = None /\ invites' = Rotated(p, k, time)
    BY <1>6 DEF ReplaceInvite
  <2>5. Issued(invites', k, p)
    <3>1. invites'[k] = [party |-> p, createdAt |-> time, revokedAt |-> None]
      BY <2>4 DEF Rotated
    <3>2. invites'[k] \in Invite
      BY <1>4, <3>1, TimesAssumption DEF Invite
    <3>3. QED BY <3>1, <3>2, NoneIsNoRecord DEF Issued
  <2>6. ASSUME NEW j \in tab.panel.given PROVE Spent(invites', j, p)
    <3>1. Issued(invites, j, p)
      BY <1>1, <1>3 DEF TabKnows, PanelKnows
    <3>2. j # k /\ j \in Code /\ Issued(invites', j, p)
      BY <2>2, <2>4, <3>1 DEF Issued, InvitesStand
    <3>3. CASE Active(j, p)
      <4>1. invites'[j] = [invites[j] EXCEPT !.revokedAt = time]
        BY <2>4, <3>2, <3>3 DEF Rotated
      <4>2. invites[j] \in Invite
        BY <1>1, <3>1 DEF TypeOK, Issued
      <4>3. invites'[j].revokedAt = time /\ time # None
        BY <4>1, <4>2, TimesAssumption, NoneAssumption DEF Invite
      <4>4. QED BY <3>2, <4>3 DEF Spent
    <3>4. CASE ~Active(j, p)
      BY <2>2, <3>1, <3>2, <3>4 DEF Active, Issued, Spent, InvitesStand
    <3>5. QED BY <3>3, <3>4
  <2>7. Answer(s, a)
    BY <1>6
  <2> HIDE DEF a
  <2>8. QED BY <1>2, <2>1, <2>2, <2>3, <2>5, <2>6, <2>7, AnswerKeeps DEF Gets
<1>7. QED BY <1>5, <1>6 DEF CreateOrRegenerateInvite

LEMMA HandleKeeps ==
  ASSUME PagesInv, NEW s \in Slot, Handle(s)
  PROVE  PagesInv' /\ [Next]_vars
<1>1. Pending(s) /\ tab' = tab /\ write' = write
  BY DEF Handle
<1>2. CASE List(s) \/ GetForMember(s) \/ GetByIDForPartyGM(s) \/ Refuse(s)
  <2>1. UNCHANGED vars
    BY <1>2 DEF List, GetForMember, GetByIDForPartyGM, Refuse
  <2>2. PagesInv'
    BY <1>1, <1>2, ListKeeps, GetForMemberKeeps, GetByIDForPartyGMKeeps, RefuseKeeps DEF Refuse
  <2>3. QED BY <2>1, <2>2
<1>3. CASE Create(s) \/ CreateOrRegenerateInvite(s)
  BY <1>1, <1>3, CreateKeeps, CreateOrRegenerateInviteKeeps
<1>4. QED BY <1>2, <1>3 DEF Handle
------------------------------------------------------------------------------
(* The page's own steps leave the tables alone.                            *)
LEMMA TabStep ==
  ASSUME PagesInv, UNCHANGED vars, tab' \in TabState, TabKnows(members, invites, tab'),
         request' \in [Slot -> RequestState \cup {None}],
         RequestsKnow(members, invites, tab', request'),
         write' \in [Write -> WriteState \cup {None}], WritesKnow(tab'.panel, write')
  PROVE  PagesInv'
<1>1. members' = members /\ invites' = invites /\ [Next]_vars
  BY DEF vars
<1>2. TypeOK' /\ Integrity'
  BY <1>1, StepKeepsIntegrity DEF PagesInv
<1>3. QED BY <1>1, <1>2 DEF PagesInv

LEMMA SubmitPartyKeeps ==
  ASSUME PagesInv, SubmitParty
  PROVE  PagesInv'
<1>1. /\ tab \in TabState /\ TabKnows(members, invites, tab)
      /\ request \in [Slot -> RequestState \cup {None}]
      /\ RequestsKnow(members, invites, tab, request)
  BY DEF PagesInv
<1>2. /\ tab.user # None /\ tab' = [tab EXCEPT !.creating = "submitting"] /\ UNCHANGED << vars, write >>
  BY DEF SubmitParty
<1>3. PICK s \in Free : request' = [request EXCEPT ![s] = Sent("create", tab.user, tab.page)]
  BY DEF SubmitParty, Send
<1> DEFINE r == Sent("create", tab.user, tab.page)
<1>4. /\ tab' \in TabState /\ tab'.user = tab.user /\ tab'.page = tab.page /\ tab'.load = tab.load
      /\ tab'.panel = tab.panel
  BY <1>1, <1>2 DEF TabState
<1>5. TabKnows(members, invites, tab') /\ RequestsKnow(members, invites, tab', request)
  BY <1>1, <1>4, SamePage DEF TabKnows, LoadKnows, PanelKnows, PanelShown
<1>6. r \in RequestState /\ r.kind = "create" /\ r.answer = None
  BY <1>1, <1>2, SentType DEF TabState
<1> HIDE DEF r
<1>7. /\ request' \in [Slot -> RequestState \cup {None}]
      /\ RequestsKnow(members, invites, tab', request')
  <2>1. s \in Slot /\ request' = [request EXCEPT ![s] = r]
    BY <1>3 DEF Free, r
  <2>2. Awaits(members, invites, tab', r)
    BY <1>6 DEF Awaits, LoadAwaited, InviteAwaited, CreationAwaited, Gets
  <2>3. \A q : ~Rivals(q, r) /\ ~Rivals(r, q)
    BY <1>6 DEF Rivals, Gets
  <2>4. QED BY <1>1, <1>5, <1>6, <2>1, <2>2, <2>3, OneChanges
<1>8. write' \in [Write -> WriteState \cup {None}] /\ WritesKnow(tab'.panel, write')
  BY <1>2, <1>4 DEF PagesInv
<1>9. QED BY <1>2, <1>4, <1>5, <1>7, <1>8, TabStep

(* The panel is shown of a loaded Party to its user, and nothing else of   *)
(* the page is under way.                                                  *)
LEMMA PanelStands ==
  ASSUME PagesInv, HasPanel
  PROVE  /\ PanelShown(tab) /\ tab.user \in User /\ tab.load.status = "loaded"
         /\ \A s \in Slot : request[s] # None => request[s].kind \notin Gets
<1>1. LoadKnows(members, tab) /\ \A s \in Slot : request[s] # None => LoadAwaited(members, tab, request[s])
  BY DEF PagesInv, TabKnows, RequestsKnow, Awaits
<1>2. QED BY <1>1 DEF HasPanel, PanelShown, LoadKnows, LoadAwaited

LEMMA GenerateInviteKeeps ==
  ASSUME PagesInv, GenerateInvite
  PROVE  PagesInv'
<1>1. /\ tab \in TabState /\ TabKnows(members, invites, tab)
      /\ request \in [Slot -> RequestState \cup {None}]
      /\ RequestsKnow(members, invites, tab, request)
  BY DEF PagesInv
<1>2. /\ HasPanel /\ tab.panel.invite.status # "loading" /\ UNCHANGED << vars, write >>
      /\ tab' = [tab EXCEPT !.panel.invite = [status |-> "loading", code |-> None],
                            !.panel.copy = None, !.panel.active = None,
                            !.panel.holds = None, !.panel.contested = UnderWay # {}]
  BY DEF GenerateInvite, MayGenerate
<1>3. PICK s \in Free : request' = [request EXCEPT ![s] = Sent("invite", tab.user, tab.page)]
  BY DEF GenerateInvite, Send
<1>4. /\ PanelShown(tab) /\ tab.user \in User
      /\ \A u \in Slot : request[u] # None => request[u].kind \notin Gets
  BY <1>2, PanelStands
<1>5. \A u \in Slot : request[u] # None => request[u].kind # "invite"
  BY <1>1, <1>2 DEF RequestsKnow, Awaits, InviteAwaited
<1> DEFINE r == Sent("invite", tab.user, tab.page)
           panel == tab'.panel
           contested == UnderWay # {}
<1>6. tab.panel \in PanelState
  BY <1>1 DEF TabState
<1>7. /\ tab' \in TabState /\ tab'.user = tab.user /\ tab'.page = tab.page /\ tab'.load = tab.load
      /\ panel.invite.status = "loading" /\ panel.copy = None /\ panel.active = None
      /\ panel.given = tab.panel.given /\ panel.contested = contested
  <2>1. panel = [tab.panel EXCEPT !.invite = [status |-> "loading", code |-> None],
                                  !.copy = None, !.active = None, !.holds = None, !.contested = contested]
    BY <1>1, <1>2 DEF TabState, PanelState
  <2>2. /\ panel \in PanelState /\ panel.invite.status = "loading"
        /\ panel.copy = None /\ panel.active = None /\ panel.given = tab.panel.given
        /\ panel.contested = contested
    <3> DEFINE loading == [status |-> "loading", code |-> None]
    <3>1. /\ loading \in [status : {"idle", "loading", "loaded", "error"}, code : Code \cup {None}]
          /\ loading.status = "loading"
      OBVIOUS
    <3> HIDE DEF loading
    <3>2. panel = [tab.panel EXCEPT !.invite = loading, !.copy = None, !.active = None,
                                    !.holds = None, !.contested = contested]
      BY <2>1 DEF loading
    <3>3. contested \in BOOLEAN
      OBVIOUS
    <3> HIDE DEF contested
    <3>4. QED BY ZenonT(60), <1>6, <3>1, <3>2, <3>3 DEF PanelState
  <2>3. tab' = [tab EXCEPT !.panel = panel]
    BY <1>1, <1>2 DEF TabState, PanelState
  <2> HIDE DEF panel
  <2>4. QED BY <1>1, <2>2, <2>3 DEF TabState
<1> HIDE DEF panel
<1>8. PanelShown(tab') /\ LoadKnows(members, tab')
  BY <1>1, <1>4, <1>7 DEF PanelShown, TabKnows, LoadKnows
<1>9. TabKnows(members, invites, tab')
  BY <1>1, <1>7, <1>8 DEF TabKnows, PanelKnows, CopyKnows, panel
<1>10. /\ r \in RequestState
       /\ r.kind = "invite" /\ r.user = tab.user /\ r.page = tab.page /\ r.mounted /\ r.answer = None
  BY <1>1, <1>4, SentType DEF TabState
<1> HIDE DEF r
<1>11. RequestsKnow(members, invites, tab', request)
  BY <1>1, <1>4, <1>5 DEF RequestsKnow, Awaits, LoadAwaited, InviteAwaited
<1>12. Awaits(members, invites, tab', r)
  BY <1>7, <1>8, <1>10 DEF Awaits, LoadAwaited, InviteAwaited, CreationAwaited, OfThePage, Gets, panel
<1>13. \A u \in Slot : request[u] # None => ~Rivals(request[u], r) /\ ~Rivals(r, request[u])
  BY <1>4, <1>5 DEF Rivals
<1>14. /\ request' \in [Slot -> RequestState \cup {None}]
       /\ RequestsKnow(members, invites, tab', request')
  <2>1. s \in Slot /\ request' = [request EXCEPT ![s] = r]
    BY <1>3 DEF Free, r
  <2>2. QED BY <1>1, <1>10, <1>11, <1>12, <1>13, <2>1, OneChanges
<1>15. WritesKnow(tab'.panel, write')
  BY <1>2, <1>7 DEF WritesKnow, UnderWay, panel
<1>16. write' \in [Write -> WriteState \cup {None}]
  BY <1>2 DEF PagesInv
<1>17. QED BY <1>2, <1>7, <1>9, <1>14, <1>15, <1>16, TabStep

(* A copy is begun. If nothing else was under way, nothing contests it.    *)
LEMMA CopyCredentialKeeps ==
  ASSUME PagesInv, CopyCredential
  PROVE  PagesInv'
<1>1. /\ tab \in TabState /\ TabKnows(members, invites, tab)
      /\ request \in [Slot -> RequestState \cup {None}]
      /\ RequestsKnow(members, invites, tab, request)
      /\ write \in [Write -> WriteState \cup {None}] /\ WritesKnow(tab.panel, write)
  BY DEF PagesInv
<1>2. HasPanel /\ tab.panel.invite.status = "loaded" /\ UNCHANGED << vars, request >>
  BY DEF CopyCredential
<1> DEFINE credential(kind) == [kind |-> kind, code |-> tab.panel.invite.code]
           copying(kind) == [status |-> "copying", credential |-> credential(kind)]
           sent(kind) == [credential |-> credential(kind), done |-> FALSE]
<1>3. PICK kind \in {"code", "link"}, v \in Write \ UnderWay :
        /\ tab' = [tab EXCEPT !.panel.active = credential(kind), !.panel.copy = copying(kind),
                              !.panel.contested = Rivalled(credential(kind)) \/ (@ /\ UnderWay # {})]
        /\ write' = [write EXCEPT ![v] = sent(kind)]
  BY DEF CopyCredential
<1> DEFINE c == credential(kind)
           copy == copying(kind)
           begun == sent(kind)
           contested == Rivalled(c) \/ (tab.panel.contested /\ UnderWay # {})
           next == [tab.panel EXCEPT !.active = c, !.copy = copy, !.contested = contested]
<1>4. tab.panel \in PanelState /\ tab.panel.given \subseteq Code /\ tab.panel.invite.code \in tab.panel.given
  BY <1>1, <1>2 DEF TabState, PanelState, TabKnows, PanelKnows
<1>5. c \in Credential /\ c.code = tab.panel.invite.code /\ c # None
  BY <1>4, NoneIsNoRecord DEF Credential
<1>6. /\ copy \in Copy /\ copy # None /\ copy.status = "copying" /\ copy.credential = c
      /\ begun \in WriteState /\ begun.credential = c /\ ~begun.done
  <2>1. /\ copy \in Copy /\ copy.status = "copying" /\ copy.credential = c
        /\ begun \in WriteState /\ begun.credential = c /\ ~begun.done
    BY <1>5 DEF WriteState, Copy
  <2>2. QED BY <2>1, NoneIsNoRecord
<1>7. tab' = [tab EXCEPT !.panel = next]
  BY <1>1, <1>3, <1>4 DEF TabState, PanelState
<1>8. /\ write' \in [Write -> WriteState \cup {None}] /\ write'[v] = begun
      /\ \A w \in Write : w # v => write'[w] = write[w]
  BY <1>1, <1>3, <1>6
<1>9. contested \in BOOLEAN
  BY <1>4 DEF PanelState, Rivalled
<1> HIDE DEF c, copy, begun, contested
<1>10. /\ next \in PanelState /\ next.invite = tab.panel.invite /\ next.given = tab.panel.given
       /\ next.active = c /\ next.copy = copy /\ next.contested = contested /\ next.holds = tab.panel.holds
  BY ZenonT(60), <1>4, <1>5, <1>6, <1>9 DEF PanelState
<1> HIDE DEF next
<1>11. /\ tab' \in TabState /\ tab'.user = tab.user /\ tab'.page = tab.page /\ tab'.load = tab.load
       /\ tab'.panel = next
  BY <1>1, <1>7, <1>10 DEF TabState
<1>12. LoadKnows(members, tab')
  <2>1. PanelShown(tab)
    BY <1>2, PanelStands
  <2>2. QED BY <1>1, <1>11, <2>1 DEF PanelShown, TabKnows, LoadKnows
<1>13. PanelKnows(invites, tab')
  BY <1>1, <1>10, <1>11 DEF TabKnows, PanelKnows
<1>14. CopyKnows(next)
  BY <1>2, <1>5, <1>6, <1>10 DEF CopyKnows
<1>15. WritesKnow(next, write')
  <2> SUFFICES ASSUME ~contested, NEW w \in Write, write'[w] # None
               PROVE  write'[w].credential = c /\ (write'[w].done => tab.panel.holds = c)
    BY <1>6, <1>8, <1>10 DEF WritesKnow
  <2>1. CASE w = v
    BY <1>6, <1>8, <2>1
  <2>2. CASE w # v
    <3>1. write'[w] = write[w] /\ w \in UnderWay
      BY <1>8, <2>2 DEF UnderWay
    <3>2. write[w].credential = c /\ ~tab.panel.contested
      BY <3>1 DEF contested, Rivalled
    <3>3. tab.panel.copy # None
      BY <1>1, <1>5, <3>1, <3>2 DEF WritesKnow, Stray
    <3>4. QED BY <1>1, <3>1, <3>2, <3>3 DEF WritesKnow
  <2>3. QED BY <2>1, <2>2
<1>16. RequestsKnow(members, invites, tab', request)
  BY <1>1, <1>10, <1>11, SamePage
<1>17. UNCHANGED vars /\ request' = request
  BY <1>2
<1>18. QED BY <1>1, <1>8, <1>11, <1>12, <1>13, <1>14, <1>15, <1>16, <1>17, TabStep DEF TabKnows

(* The browser puts a text on the clipboard: that of the credential the    *)
(* panel speaks of, unless the clipboard is contested or it says nothing.  *)
LEMMA ClipboardTakesKeeps ==
  ASSUME PagesInv, NEW v \in Write, ClipboardTakes(v)
  PROVE  PagesInv'
<1> DEFINE old == tab.panel
           c == write[v].credential
           next == [old EXCEPT !.holds = c]
<1>1. /\ tab \in TabState /\ TabKnows(members, invites, tab)
      /\ request \in [Slot -> RequestState \cup {None}]
      /\ RequestsKnow(members, invites, tab, request)
      /\ write \in [Write -> WriteState \cup {None}] /\ WritesKnow(old, write)
  BY DEF PagesInv
<1>2. /\ write[v] # None /\ UNCHANGED vars /\ request' = request
      /\ tab' = [tab EXCEPT !.panel.holds = c]
  BY DEF ClipboardTakes
<1>3. old \in PanelState /\ write[v] \in WriteState
  BY <1>1, <1>2 DEF TabState
<1>4. c \in Credential \cup {None}
  BY <1>3 DEF WriteState, Stray
<1>5. /\ write' \in [Write -> WriteState \cup {None}]
      /\ \A w \in Write : w # v => write'[w] = write[w]
      /\ write'[v] = None \/ (write'[v].credential = c /\ write[v] # Stray)
  <2>1. CASE write[v] = Stray
    <3>1. write' = [write EXCEPT ![v] = None]
      BY <2>1 DEF ClipboardTakes
    <3>2. QED BY <1>1, <3>1
  <2>2. CASE write[v] # Stray
    <3> DEFINE done == [write[v] EXCEPT !.done = TRUE]
    <3>1. write' = [write EXCEPT ![v] = done]
      BY <2>2 DEF ClipboardTakes
    <3>2. TRUE \in BOOLEAN
      OBVIOUS
    <3>3. done \in WriteState /\ done.credential = c
      BY <1>3, <2>2, <3>2 DEF WriteState
    <3> HIDE DEF done
    <3>4. QED BY <1>1, <2>2, <3>1, <3>3
  <2>3. QED BY <2>1, <2>2
<1>6. tab' = [tab EXCEPT !.panel = next]
  BY <1>1, <1>2, <1>3 DEF TabState, PanelState
<1> HIDE DEF c
<1>7. /\ next \in PanelState /\ next.invite = old.invite /\ next.given = old.given
      /\ next.active = old.active /\ next.copy = old.copy /\ next.contested = old.contested
      /\ next.holds = c
  BY <1>3, <1>4 DEF PanelState
<1>8. old = Fresh => next = Fresh
  <2> SUFFICES ASSUME old = Fresh PROVE next = Fresh
    OBVIOUS
  <2>1. write[v] = Stray
    BY <1>1, <1>2, FreshPanel DEF WritesKnow
  <2>2. c = None
    BY <2>1 DEF Stray, c
  <2>3. old.holds = c
    BY <2>2, FreshPanel
  <2>4. QED BY <1>3, <2>3 DEF PanelState
<1> HIDE DEF next
<1>9. /\ tab' \in TabState /\ tab'.user = tab.user /\ tab'.page = tab.page /\ tab'.load = tab.load
      /\ tab'.panel = next
  BY <1>1, <1>6, <1>7 DEF TabState
<1>10. LoadKnows(members, tab') /\ PanelKnows(invites, tab') /\ CopyKnows(next)
  BY <1>1, <1>7, <1>8, <1>9 DEF TabKnows, LoadKnows, PanelKnows, CopyKnows, PanelShown
<1>11. WritesKnow(next, write')
  <2>1. CASE old.contested
    BY <1>7, <2>1 DEF WritesKnow
  <2>2. CASE ~old.contested /\ old.copy = None
    BY <1>1, <1>2, <1>5, <1>7, <2>2 DEF WritesKnow
  <2>3. CASE ~old.contested /\ old.copy # None
    <3>1. c = old.copy.credential
      BY <1>1, <1>2, <2>3 DEF WritesKnow, c
    <3>2. QED BY <1>1, <1>5, <1>7, <2>3, <3>1 DEF WritesKnow
  <2>4. QED BY <2>1, <2>2, <2>3
<1>12. RequestsKnow(members, invites, tab', request)
  BY <1>1, <1>7, <1>9, SamePage
<1>13. QED BY <1>1, <1>2, <1>5, <1>9, <1>10, <1>11, <1>12, TabStep DEF TabKnows

(* A write ends. The panel hears the one of the credential it is copying   *)
(* and goes on speaking of that: of a success only if the write was done.  *)
LEMMA WriteSettlesKeeps ==
  ASSUME PagesInv, NEW v \in Write, WriteSettles(v)
  PROVE  PagesInv'
<1> DEFINE old == tab.panel
           c == write[v].credential
           copy == [status |-> Outcome(v), credential |-> c]
           heard == [old EXCEPT !.active = None, !.copy = copy]
<1>1. /\ tab \in TabState /\ TabKnows(members, invites, tab)
      /\ request \in [Slot -> RequestState \cup {None}]
      /\ RequestsKnow(members, invites, tab, request)
      /\ write \in [Write -> WriteState \cup {None}] /\ WritesKnow(old, write)
  BY DEF PagesInv
<1>2. /\ write[v] # None /\ UNCHANGED vars /\ request' = request
      /\ write' = [write EXCEPT ![v] = None]
      /\ IF old.active # None /\ old.active = c
         THEN tab' = [tab EXCEPT !.panel.active = None, !.panel.copy = copy] ELSE tab' = tab
  BY DEF WriteSettles, copyKeysMatch
<1>3. /\ write' \in [Write -> WriteState \cup {None}]
      /\ \A w \in Write : write'[w] # None => write'[w] = write[w]
  BY <1>1, <1>2
<1>4. CASE old.active = None \/ old.active # c
  <2>1. tab' = tab
    BY <1>2, <1>4
  <2>2. WritesKnow(tab'.panel, write')
    BY <1>1, <1>3, <2>1 DEF WritesKnow
  <2>3. QED BY <1>1, <1>2, <1>3, <2>1, <2>2, TabStep
<1>5. CASE old.active # None /\ old.active = c
  <2>1. old \in PanelState /\ CopyKnows(old) /\ PanelKnows(invites, tab) /\ LoadKnows(members, tab)
    BY <1>1 DEF TabState, TabKnows
  <2>2. c \in Credential /\ c # None
    BY <1>5, <2>1, NoneIsNoRecord DEF PanelState
  <2>3. old.copy # None /\ old.copy.credential = c /\ old.invite.status = "loaded" /\ c.code = old.invite.code
    BY <1>5, <2>1 DEF CopyKnows
  <2>4. Outcome(v) \in {"success", "error"} /\ (Outcome(v) = "success" => write[v].done)
    BY DEF Outcome
  <2>5. copy \in Copy /\ copy # None /\ copy.status = Outcome(v) /\ copy.credential = c
    <3>1. copy \in Copy /\ copy.status = Outcome(v) /\ copy.credential = c
      BY <2>2, <2>4 DEF Copy
    <3>2. QED BY <3>1, NoneIsNoRecord
  <2>6. tab' = [tab EXCEPT !.panel = heard]
    BY <1>1, <1>2, <1>5, <2>1 DEF TabState, PanelState
  <2> HIDE DEF copy, c
  <2>7. /\ heard \in PanelState /\ heard.invite = old.invite /\ heard.given = old.given
        /\ heard.active = None /\ heard.copy = copy
        /\ heard.contested = old.contested /\ heard.holds = old.holds
    BY <2>1, <2>5 DEF PanelState
  <2> HIDE DEF heard
  <2>8. /\ tab' \in TabState /\ tab'.user = tab.user /\ tab'.page = tab.page /\ tab'.load = tab.load
        /\ tab'.panel = heard
    BY <1>1, <2>6, <2>7 DEF TabState
  <2>9. LoadKnows(members, tab')
    <3>1. old # Fresh
      BY <2>3, FreshPanel
    <3>2. QED BY <2>1, <2>8, <3>1 DEF LoadKnows, PanelShown
  <2>10. PanelKnows(invites, tab') /\ CopyKnows(heard)
    BY <2>1, <2>3, <2>5, <2>7, <2>8 DEF PanelKnows, CopyKnows
  <2>11. WritesKnow(heard, write')
    <3> SUFFICES ASSUME ~old.contested PROVE WritesKnow(heard, write')
      BY <2>7 DEF WritesKnow
    <3>1. \A w \in Write : write[w] # None => write[w].credential = c /\ (write[w].done => old.holds = c)
      BY <1>1, <2>3 DEF WritesKnow
    <3>2. Outcome(v) = "success" => old.holds = c
      BY <1>2, <2>4, <3>1
    <3>3. QED BY <1>3, <2>5, <2>7, <3>1, <3>2 DEF WritesKnow
  <2>12. RequestsKnow(members, invites, tab', request)
    BY <1>1, <2>7, <2>8, SamePage
  <2>13. QED BY <1>1, <1>2, <1>3, <2>8, <2>9, <2>10, <2>11, <2>12, TabStep DEF TabKnows
<1>6. QED BY <1>4, <1>5
------------------------------------------------------------------------------
(* The page hears an answer, or that its request was lost. `rq` are the    *)
(* requests without the one that has ended.                                *)
LEMMA HeardKeeps ==
  ASSUME PagesInv, NEW s \in Slot, request[s] # None, request[s].mounted, NEW a \in Answers,
         request[s].kind \in Gets /\ a.ok => Granted(members, request[s].user, request[s].page, a),
         request[s].kind = "invite" /\ ~a.ok => a.items = {},
         request[s].kind = "invite" /\ a.ok =>
           /\ \E k \in Code : a.items = {k} /\ Issued(invites, k, request[s].page.party)
           /\ \A k \in tab.panel.given : Spent(invites, k, request[s].page.party)
  PROVE  LET t == Heard(request[s].kind, a)
             rq == [request EXCEPT ![s] = None]
         IN /\ t \in TabState /\ TabKnows(members, invites, t)
            /\ rq \in [Slot -> RequestState \cup {None}]
            /\ RequestsKnow(members, invites, t, rq) /\ WritesKnow(t.panel, write)
<1> DEFINE rq == [request EXCEPT ![s] = None]
           r == request[s]
<1>1. /\ tab \in TabState /\ TabKnows(members, invites, tab)
      /\ request \in [Slot -> RequestState \cup {None}]
      /\ RequestsKnow(members, invites, tab, request)
      /\ r \in RequestState /\ Awaits(members, invites, tab, r)
      /\ WritesKnow(tab.panel, write)
  BY DEF PagesInv, RequestsKnow
<1>2. /\ rq \in [Slot -> RequestState \cup {None}] /\ RequestsKnow(members, invites, tab, rq)
      /\ \A u \in Slot : rq[u] # None => u # s /\ rq[u] = request[u] /\ ~Rivals(request[u], r)
  <2>1. RequestsKnow(members, invites, tab, rq) /\ rq \in [Slot -> RequestState \cup {None}]
    BY <1>1, OneChanges
  <2>2. \A u \in Slot : rq[u] # None => u # s /\ rq[u] = request[u]
    BY <1>1
  <2>3. QED BY <1>1, <2>1, <2>2 DEF RequestsKnow
<1> HIDE DEF rq
<1>3. r.kind \in {"home", "party", "party-character", "create", "invite"}
  BY <1>1 DEF RequestState, Gets
<1>4. CASE r.kind \in Gets
  <2> DEFINE load == [status |-> IF a.ok THEN "loaded" ELSE "error", answer |-> a]
             t == [tab EXCEPT !.load = load]
  <2>1. Heard(r.kind, a) = t
    BY <1>4 DEF Heard, Loaded, Gets
  <2>2. load \in [status : {"loading", "loaded", "error"}, answer : Answers] /\ load.answer = a
        /\ load.status = (IF a.ok THEN "loaded" ELSE "error")
    OBVIOUS
  <2> HIDE DEF load
  <2>3. /\ t \in TabState /\ t.user = tab.user /\ t.page = tab.page /\ t.panel = tab.panel /\ t.load = load
    BY <1>1, <2>2 DEF TabState
  <2> HIDE DEF t
  <2>4. /\ r.user = tab.user /\ r.page = tab.page /\ tab.load.status = "loading" /\ r.user \in User
    BY <1>1, <1>4 DEF Awaits, LoadAwaited, OfThePage, RequestState
  <2>5. tab.panel = Fresh
    BY <1>1, <2>4 DEF TabKnows, LoadKnows, PanelShown
  <2>6. TabKnows(members, invites, t)
    BY <1>4, <2>2, <2>3, <2>4, <2>5, FreshPanel DEF TabKnows, LoadKnows, PanelKnows
  <2>7. RequestsKnow(members, invites, t, rq)
    <3>1. ASSUME NEW u \in Slot, rq[u] # None PROVE Awaits(members, invites, t, rq[u])
      <4>1. Awaits(members, invites, tab, rq[u]) /\ ~Rivals(rq[u], r)
        BY <1>2, <3>1 DEF RequestsKnow
      <4>2. rq[u].kind \notin Gets
        BY <1>4, <4>1 DEF Rivals
      <4>3. rq[u].kind # "invite"
        BY <2>4, <4>1 DEF Awaits, InviteAwaited, PanelShown
      <4>4. QED BY <4>1, <4>2, <4>3 DEF Awaits, LoadAwaited, InviteAwaited
    <3>2. QED BY <1>2, <3>1 DEF RequestsKnow
  <2>8. QED BY <1>1, <1>2, <2>1, <2>3, <2>6, <2>7 DEF rq
<1>5. CASE r.kind = "create"
  <2> DEFINE t == [tab EXCEPT !.creating = "error"]
  <2>1. Heard(r.kind, a) = t
    BY <1>5 DEF Heard
  <2>2. /\ t \in TabState /\ t.user = tab.user /\ t.page = tab.page /\ t.panel = tab.panel
        /\ t.load = tab.load
    BY <1>1 DEF TabState
  <2> HIDE DEF t
  <2>3. TabKnows(members, invites, t)
    BY <1>1, <2>2 DEF TabKnows, LoadKnows, PanelKnows, PanelShown
  <2>4. RequestsKnow(members, invites, t, rq)
    BY <1>2, <2>2, SamePage
  <2>5. QED BY <1>1, <1>2, <2>1, <2>2, <2>3, <2>4 DEF rq
<1>6. CASE r.kind = "invite"
  <2> DEFINE code == IF a.ok THEN CHOOSE k \in Code : k \in a.items ELSE None
             invite == [status |-> IF a.ok THEN "loaded" ELSE "error", code |-> code]
             panel == [tab.panel EXCEPT !.invite = invite, !.given = tab.panel.given \cup a.items]
             t == [tab EXCEPT !.panel = panel]
  <2>1. /\ PanelShown(tab) /\ tab.panel.invite.status = "loading" /\ r.page = tab.page
    BY <1>1, <1>6 DEF Awaits, InviteAwaited, OfThePage
  <2>2. a.ok => code \in Code /\ a.items = {code} /\ Issued(invites, code, tab.page.party)
    <3>1. ASSUME a.ok PROVE code \in Code /\ a.items = {code} /\ Issued(invites, code, tab.page.party)
      <4>1. PICK k \in Code : a.items = {k} /\ Issued(invites, k, tab.page.party)
        BY <1>6, <2>1, <3>1
      <4>2. code = k
        BY <3>1, <4>1
      <4>3. QED BY <4>1, <4>2
    <3>2. QED BY <3>1
  <2>3. ~a.ok => code = None /\ a.items = {}
    BY <1>6
  <2>4. tab.panel \in PanelState /\ tab.panel.given \subseteq Code
    BY <1>1 DEF TabState, PanelState
  <2>5. Heard(r.kind, a) = t
    BY <1>1, <1>6, <2>4 DEF Heard, Invited, TabState, PanelState
  <2> HIDE DEF code
  <2>6. /\ invite \in [status : {"idle", "loading", "loaded", "error"}, code : Code \cup {None}]
        /\ invite.status = (IF a.ok THEN "loaded" ELSE "error") /\ invite.code = code
    BY <2>2, <2>3
  <2> HIDE DEF invite
  <2>7. tab.panel.given \cup a.items \subseteq Code
    BY <2>2, <2>3, <2>4
  <2>8. /\ panel \in PanelState /\ panel.invite = invite /\ panel.given = tab.panel.given \cup a.items
        /\ panel.copy = tab.panel.copy /\ panel.active = tab.panel.active
        /\ panel.holds = tab.panel.holds /\ panel.contested = tab.panel.contested
    BY <2>4, <2>6, <2>7 DEF PanelState
  <2> HIDE DEF panel
  <2>9. /\ t \in TabState /\ t.user = tab.user /\ t.page = tab.page /\ t.load = tab.load
        /\ t.panel = panel
    BY <1>1, <2>8 DEF TabState
  <2> HIDE DEF t
  <2>10. LoadKnows(members, t) /\ PanelShown(t)
    BY <1>1, <2>1, <2>9 DEF TabKnows, LoadKnows, PanelShown
  <2>11. PanelKnows(invites, t)
    <3>1. \A k \in panel.given : Issued(invites, k, t.page.party)
      BY <1>1, <2>2, <2>3, <2>8, <2>9 DEF TabKnows, PanelKnows
    <3>2. ASSUME panel.invite.status = "loaded"
          PROVE  /\ panel.invite.code \in panel.given
                 /\ \A k \in panel.given \ {panel.invite.code} : Spent(invites, k, t.page.party)
      <4>1. a.ok /\ panel.invite.code = code /\ panel.given = tab.panel.given \cup {code}
        BY <2>2, <2>6, <2>8, <3>2
      <4>2. \A k \in tab.panel.given : Spent(invites, k, t.page.party)
        BY <1>6, <2>1, <2>9, <4>1
      <4>3. QED BY <4>1, <4>2
    <3>3. QED BY <2>9, <3>1, <3>2 DEF PanelKnows
  <2>12. CopyKnows(panel)
    BY <1>1, <2>1, <2>8 DEF TabKnows, CopyKnows
  <2>13. RequestsKnow(members, invites, t, rq)
    <3>1. ASSUME NEW u \in Slot, rq[u] # None PROVE Awaits(members, invites, t, rq[u])
      <4>1. Awaits(members, invites, tab, rq[u]) /\ ~Rivals(rq[u], r)
        BY <1>2, <3>1 DEF RequestsKnow
      <4>2. rq[u].kind # "invite"
        BY <1>6, <4>1 DEF Rivals
      <4>3. QED BY <2>9, <4>1, <4>2 DEF Awaits, LoadAwaited, InviteAwaited, OfThePage
    <3>2. QED BY <1>2, <3>1 DEF RequestsKnow
  <2>14. WritesKnow(panel, write)
    BY <1>1, <2>8 DEF WritesKnow
  <2>15. QED BY <1>2, <2>5, <2>9, <2>10, <2>11, <2>12, <2>13, <2>14 DEF TabKnows, rq
<1>7. QED BY <1>3, <1>4, <1>5, <1>6 DEF Gets

(* The answer of a request is settled, or it is lost. What was answered is *)
(* as true as when it was.                                                 *)
LEMMA SettleKeeps ==
  ASSUME PagesInv, NEW s \in Slot, Settle(s)
  PROVE  PagesInv'
<1> DEFINE r == request[s]
           rq == [request EXCEPT ![s] = None]
<1>1. /\ tab \in TabState /\ TabKnows(members, invites, tab)
      /\ request \in [Slot -> RequestState \cup {None}]
      /\ RequestsKnow(members, invites, tab, request)
      /\ r # None /\ r.answer # None /\ r \in RequestState /\ Awaits(members, invites, tab, r)
      /\ r.answer \in Answers
      /\ write \in [Write -> WriteState \cup {None}] /\ WritesKnow(tab.panel, write)
  BY DEF PagesInv, Settle, RequestsKnow, RequestState
<1>2. /\ rq \in [Slot -> RequestState \cup {None}] /\ RequestsKnow(members, invites, tab, rq)
  BY <1>1, OneChanges
<1>3. CASE OpensParty(s)
  <2>1. PICK p \in r.answer.items :
          IF tab.page = PartyAt(p) THEN tab' = tab /\ request' = rq /\ write' = write /\ UNCHANGED vars
          ELSE Show(tab.user, PartyAt(p), Deafened({s}))
    BY <1>3 DEF Settle
  <2>2. p \in Party /\ PartyAt(p) \in Pages /\ tab.user \in User \cup {None}
    BY <1>1, <1>3, <2>1, PartyPage DEF OpensParty, Awaits, CreationAwaited, TabState
  <2>3. CASE tab.page = PartyAt(p)
    <3>1. tab' = tab /\ request' = rq /\ write' = write /\ UNCHANGED vars
      BY <2>1, <2>3
    <3>2. QED BY <1>1, <1>2, <3>1, TabStep
  <2>4. CASE tab.page # PartyAt(p)
    BY <2>1, <2>2, <2>4, ShowKeeps
  <2>5. QED BY <2>3, <2>4
<1>4. CASE ~OpensParty(s)
  <2>1. /\ tab' = IF r.mounted THEN Heard(r.kind, r.answer) ELSE tab
        /\ request' = rq /\ write' = write /\ UNCHANGED vars
    BY <1>4 DEF Settle
  <2>2. CASE r.mounted
    <3>1. /\ r.kind \in Gets /\ r.answer.ok => Granted(members, r.user, r.page, r.answer)
          /\ r.kind = "invite" /\ ~r.answer.ok => r.answer.items = {}
          /\ r.kind = "invite" /\ r.answer.ok =>
               /\ \E k \in Code : r.answer.items = {k} /\ Issued(invites, k, r.page.party)
               /\ \A k \in tab.panel.given : Spent(invites, k, r.page.party)
      BY <1>1 DEF Awaits, LoadAwaited, InviteAwaited
    <3> DEFINE t == Heard(r.kind, r.answer)
    <3>2. /\ t \in TabState /\ TabKnows(members, invites, t)
          /\ rq \in [Slot -> RequestState \cup {None}]
          /\ RequestsKnow(members, invites, t, rq) /\ WritesKnow(t.panel, write)
      <4>1. r # None /\ r.answer \in Answers
        BY <1>1
      <4>2. QED BY <2>2, <3>1, <4>1, HeardKeeps
    <3>3. tab' = t /\ request' = rq
      BY <2>1, <2>2
    <3> HIDE DEF t, rq
    <3>4. QED BY <1>1, <2>1, <3>2, <3>3, TabStep
  <2>3. CASE ~r.mounted
    BY <1>1, <1>2, <2>1, <2>3, TabStep
  <2>4. QED BY <2>2, <2>3
<1>5. QED BY <1>3, <1>4

LEMMA GiveUpKeeps ==
  ASSUME PagesInv, NEW s \in Slot, GiveUp(s)
  PROVE  PagesInv'
<1> DEFINE r == request[s]
           rq == [request EXCEPT ![s] = None]
<1>1. /\ tab \in TabState /\ TabKnows(members, invites, tab)
      /\ request \in [Slot -> RequestState \cup {None}]
      /\ RequestsKnow(members, invites, tab, request)
      /\ write \in [Write -> WriteState \cup {None}] /\ WritesKnow(tab.panel, write)
      /\ r # None /\ UNCHANGED vars /\ request' = rq /\ write' = write
      /\ tab' = IF r.mounted THEN Heard(r.kind, Failed) ELSE tab
  BY DEF PagesInv, GiveUp
<1>2. /\ rq \in [Slot -> RequestState \cup {None}] /\ RequestsKnow(members, invites, tab, rq)
  BY <1>1, OneChanges
<1>3. Failed \in Answers /\ ~Failed.ok /\ Failed.items = {}
  BY AnswerTypes
<1> HIDE DEF rq
<1>4. CASE r.mounted
  <2>1. tab' = Heard(r.kind, Failed)
    BY <1>1, <1>4
  <2>2. /\ tab' \in TabState /\ TabKnows(members, invites, tab')
        /\ request' \in [Slot -> RequestState \cup {None}]
        /\ RequestsKnow(members, invites, tab', request') /\ WritesKnow(tab'.panel, write)
    BY <1>1, <1>3, <1>4, <2>1, HeardKeeps DEF rq
  <2>3. QED BY <1>1, <2>2, TabStep
<1>5. CASE ~r.mounted
  BY <1>1, <1>2, <1>5, TabStep
<1>6. QED BY <1>4, <1>5
------------------------------------------------------------------------------
LEMMA PagesInitEstablishes == PagesInit => PagesInv
<1> SUFFICES ASSUME PagesInit PROVE PagesInv
  OBVIOUS
<1>1. Init /\ tab = At(None, Home) /\ request = [s \in Slot |-> None] /\ write = [w \in Write |-> None]
  BY DEF PagesInit
<1>2. TypeOK /\ Integrity
  BY <1>1, InitIntegrity
<1>3. Home \in Pages
  BY DEF Pages
<1>4. tab \in TabState /\ TabKnows(members, invites, tab) /\ tab.panel = Fresh
  BY <1>1, <1>3, FreshTab
<1>5. /\ request \in [Slot -> RequestState \cup {None}]
      /\ RequestsKnow(members, invites, tab, request)
  BY <1>1 DEF RequestsKnow
<1>6. write \in [Write -> WriteState \cup {None}] /\ WritesKnow(tab.panel, write)
  BY <1>1, <1>4, FreshPanel DEF WritesKnow
<1>7. QED BY <1>2, <1>4, <1>5, <1>6 DEF PagesInv

(* Whatever the tab and the other clients do keeps what is known, and is a *)
(* step of the registry.                                                   *)
LEMMA PagesNextKeeps ==
  ASSUME PagesInv, [PagesNext]_tabVars
  PROVE  PagesInv' /\ [Next]_vars
<1>1. ASSUME [Next]_vars, UNCHANGED pageVars
      PROVE  PagesInv'
  <2>1. /\ TypeOK' /\ Integrity' /\ members \subseteq members' /\ InvitesStand(invites, invites')
    BY <1>1, TablesGrow DEF PagesInv
  <2>2. tab' = tab /\ request' = request /\ write' = write
    BY <1>1 DEF pageVars
  <2>3. TabKnows(members', invites', tab) /\ RequestsKnow(members', invites', tab, request)
    BY <2>1, KnowledgeStands DEF PagesInv
  <2>4. QED BY <2>1, <2>2, <2>3 DEF PagesInv
<1>2. CASE Others \/ UNCHANGED tabVars
  BY <1>1, <1>2 DEF Others, tabVars
<1>3. tab.user \in User \cup {None} /\ tab.page \in Pages
  BY DEF PagesInv, TabState
<1>4. CASE Open \/ SignOut \/ SignIn \/ Retry
  <2>1. PICK user \in User \cup {None}, page \in Pages : Show(user, page, Deafened({}))
    <3>1. Home \in Pages
      BY DEF Pages
    <3>2. QED BY <1>3, <1>4, <3>1 DEF Open, SignOut, SignIn, Retry
  <2>2. UNCHANGED vars
    BY <2>1 DEF Show
  <2>3. QED BY <2>1, <2>2, ShowKeeps
<1>5. CASE SubmitParty \/ GenerateInvite \/ CopyCredential \/ \E w \in Write : ClipboardTakes(w) \/ WriteSettles(w)
  <2>1. UNCHANGED vars
    BY <1>5 DEF SubmitParty, GenerateInvite, CopyCredential, ClipboardTakes, WriteSettles
  <2>2. QED BY <1>5, <2>1, SubmitPartyKeeps, GenerateInviteKeeps, CopyCredentialKeeps,
              ClipboardTakesKeeps, WriteSettlesKeeps
<1>6. ASSUME NEW s \in Slot, Settle(s) \/ GiveUp(s)
      PROVE  PagesInv' /\ [Next]_vars
  <2>1. UNCHANGED vars
    BY <1>6 DEF Settle, GiveUp, Show
  <2>2. QED BY <1>6, <2>1, SettleKeeps, GiveUpKeeps
<1>7. ASSUME NEW s \in Slot, Handle(s)
      PROVE  PagesInv' /\ [Next]_vars
  BY <1>7, HandleKeeps
<1>8. QED BY <1>2, <1>4, <1>5, <1>6, <1>7 DEF PagesNext

LEMMA PagesInvariance == PagesSpec => []PagesInv
BY PagesInitEstablishes, PagesNextKeeps, PTL DEF PagesSpec

(* The page's requests and those of the other clients change the tables    *)
(* only as the registry promises (handler.go, over the repository that     *)
(* PartyTransactions shows to implement it): whatever is late, lost or     *)
(* given up, every behaviour of the pages is one of PartyRegistry.         *)
THEOREM PagesImplementRegistry == PagesSpec => Spec
<1>1. PagesInit => Init
  BY DEF PagesInit
<1>2. PagesInv /\ [PagesNext]_tabVars => [Next]_vars
  BY PagesNextKeeps
<1>3. QED BY <1>1, <1>2, PagesInvariance, PTL DEF PagesSpec, Spec

(* Every variable keeps its kind.                                          *)
THEOREM PagesTypeCorrect == PagesSpec => []PagesTypeOK
<1>1. PagesInv => PagesTypeOK
  BY DEF PagesInv, PagesTypeOK, TabState, PanelState, RequestState, WriteState, UnderWay
<1>2. QED BY <1>1, PagesInvariance, PTL

(* The handlers in handler.go change the tables by operations of the       *)
(* registry only, so the tables keep their integrity under the pages too.  *)
THEOREM PagesKeepIntegrity == PagesSpec => []Integrity
<1>1. PagesInv => Integrity
  BY DEF PagesInv
<1>2. QED BY <1>1, PagesInvariance, PTL

(* Whatever is answered late, lost or abandoned, a Party page shows only   *)
(* what is the signed-in user's to see: every answer is of a membership    *)
(* that is still there, and a page that is left hears nothing any more     *)
(* (the cleanup of PartyPage.tsx's load effect).                           *)
THEOREM PagesAreTheirs == PagesSpec => []PagesShowWhatIsTheirs
<1>1. PagesInv => PagesShowWhatIsTheirs
  <2> SUFFICES ASSUME PagesInv, tab.load.status = "loaded"
               PROVE  LET page  == tab.page
                          shown == tab.load.answer
                          roles == MemberRole(tab.user, page.party)
                      IN /\ page.name = "home" => \A p \in shown.items : MemberRole(tab.user, p) # {}
                         /\ page.name = "party" => shown.role \in roles /\ shown.items \subseteq Linked(page.party)
                         /\ page.name = "party-character" =>
                              /\ "gm" \in roles
                              /\ shown.items = {page.character} /\ page.character \in Linked(page.party)
                         /\ tab.panel.invite.status # "idle" => GmOf(tab.user, page.party) \in members
                         /\ tab.panel.invite.status = "loaded" =>
                              invites[tab.panel.invite.code].party = page.party
    BY DEF PagesShowWhatIsTheirs
  <2>1. TypeOK /\ Integrity /\ TabKnows(members, invites, tab)
    BY DEF PagesInv
  <2>2. Granted(members, tab.user, tab.page, tab.load.answer)
    BY <2>1 DEF TabKnows, LoadKnows
  <2>3. \A p : Joined(members, tab.user, p) => MemberRole(tab.user, p) # {}
    BY DEF Joined, MemberRole
  <2>4. /\ \A role : role \in MemberRole(tab.user, tab.page.party) <=> Plays(members, tab.user, tab.page.party, role)
        /\ \A c : c \in Linked(tab.page.party) <=> LinkedTo(members, tab.page.party, c)
    BY <2>1, TablesRead
  <2>5. ASSUME tab.panel.invite.status # "idle"
        PROVE  GmOf(tab.user, tab.page.party) \in members
    <3>1. tab.panel # Fresh
      BY <2>5, FreshPanel
    <3>2. PanelShown(tab)
      BY <2>1, <3>1 DEF TabKnows, LoadKnows
    <3>3. PICK m \in members : m.party = tab.page.party /\ m.user = tab.user /\ m.role = "gm"
      BY <2>2, <3>2 DEF PanelShown, Granted, Plays
    <3>4. m \in Membership /\ m.character = None
      BY <2>1, <3>3 DEF TypeOK, Integrity, LinkedCharacterIsOwned
    <3>5. m = GmOf(tab.user, tab.page.party)
      BY <3>3, <3>4 DEF GmOf, Membership
    <3>6. QED BY <3>5
  <2>6. tab.panel.invite.status = "loaded" => invites[tab.panel.invite.code].party = tab.page.party
    BY <2>1 DEF TabKnows, PanelKnows, Issued
  <2>7. QED BY <2>2, <2>3, <2>4, <2>5, <2>6 DEF Granted
<1>2. QED BY <1>1, PagesInvariance, PTL

(* PartyInvitePanel.tsx shows no invite that it could know to be revoked,  *)
(* and says "copied" of what the tab has put on the clipboard last, except *)
(* while writes of two credentials have overlapped: one generation is under*)
(* way at a time, its answer comes after those before it, and all writes   *)
(* are of the credential the panel speaks of.                              *)
THEOREM PanelIsTruthful == PagesSpec => []PanelTellsTheTruth
<1>1. PagesInv => PanelTellsTheTruth
  <2> SUFFICES ASSUME PagesInv PROVE PanelTellsTheTruth
    OBVIOUS
  <2>1. PanelKnows(invites, tab) /\ CopyKnows(tab.panel)
    BY DEF PagesInv, TabKnows
  <2>2. ASSUME tab.panel.invite.status = "loaded", NEW k \in Code, Active(k, tab.page.party)
        PROVE  k = tab.panel.invite.code \/ k \notin tab.panel.given
    BY <2>1, <2>2 DEF PanelKnows, Spent, Active
  <2>3. ASSUME tab.panel.copy # None
        PROVE  /\ tab.panel.invite.status = "loaded"
               /\ tab.panel.copy.credential.code = tab.panel.invite.code
    BY <2>1, <2>3 DEF CopyKnows
  <2>4. ASSUME tab.panel.copy # None, tab.panel.copy.status = "success", ~tab.panel.contested
        PROVE  tab.panel.holds = tab.panel.copy.credential
    BY <2>4 DEF PagesInv, WritesKnow
  <2>5. QED BY <2>2, <2>3, <2>4 DEF PanelTellsTheTruth
<1>2. QED BY <1>1, PagesInvariance, PTL
=============================================================================
