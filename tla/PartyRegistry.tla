---------------------------- MODULE PartyRegistry ----------------------------
(***************************************************************************)
(* What the Party tables promise to the rest of Hunin, with every request  *)
(* taking effect in one indivisible step: a Party starts with its GM, an   *)
(* invite is replaced by its successor in the same instant, and a player   *)
(* joins once, with one owned character, under an invite that was current. *)
(* backend/internal/parties/repository.go reaches this with transactions   *)
(* and row locks; PartyTransactions models those and implements this       *)
(* module.                                                                 *)
(***************************************************************************)
EXTENDS Naturals

CONSTANTS
  User,       \* users.id
  Party,      \* the UUIDs parties.id is drawn from
  Character,  \* characters.id
  Code,       \* invite credentials: the row's token hash and code hash
  Owner,      \* characters.owner_subject_id, fixed when the row is created
  Lifetime,   \* the seven days between created_at and expires_at
  Times,      \* the instants the repository clock may read
  None        \* SQL NULL, or the absence of a row

ASSUME OwnerAssumption    == Owner \in [Character -> User]
ASSUME LifetimeAssumption == Lifetime \in Nat \ {0}
ASSUME TimesAssumption    == Times \subseteq Nat
ASSUME NoneAssumption     == None \notin Nat /\ None \notin Character

VARIABLES
  parties,    \* committed parties rows
  members,    \* committed party_memberships rows
  invites     \* committed party_invites rows, by credential

vars == <<parties, members, invites>>

Membership ==
  [party: Party, user: User, role: {"gm", "player"}, character: Character \cup {None}]
Invite == [party: Party, createdAt: Nat, revokedAt: Nat \cup {None}]

TypeOK ==
  /\ parties \in SUBSET Party
  /\ members \in SUBSET Membership
  /\ invites \in [Code -> Invite \cup {None}]

GmOf(u, p) == [party |-> p, user |-> u, role |-> "gm", character |-> None]
(* Mutant: a role the CHECK on party_memberships does not know.            *)
MemberOf(u, p, c) == [party |-> p, user |-> u, role |-> "member", character |-> c]
PlayerOf(u, p, c) == [party |-> p, user |-> u, role |-> "player", character |-> c]

ExpiresAt(invite) == invite.createdAt + Lifetime

(* The invite of credential k belongs to p and is not revoked. *)
Active(k, p) == /\ invites[k] # None
                /\ invites[k].party = p
                /\ invites[k].revokedAt = None

(* Current as the joining request sees it: active and unexpired at `at`. *)
Current(k, p, at) == Active(k, p) /\ at < ExpiresAt(invites[k])

(* Mutant: the new invite does not revoke the old one.                     *)
RotatedKeepingOld(p, k, at) ==
  [invites EXCEPT ![k] = [party |-> p, createdAt |-> at, revokedAt |-> None]]

(* The invite table after p's active invites are revoked at `at` and k is  *)
(* inserted.                                                               *)
Rotated(p, k, at) ==
  [c \in Code |->
     IF c = k THEN [party |-> p, createdAt |-> at, revokedAt |-> None]
     ELSE IF Active(c, p) THEN [invites[c] EXCEPT !.revokedAt = at]
     ELSE invites[c]]
------------------------------------------------------------------------------
Init == /\ parties = {}
        /\ members = {}
        /\ invites = [k \in Code |-> None]

(* repository.go CreateParty: the Party and its GM membership appear       *)
(* together.                                                               *)
CreateParty(u, p) ==
  /\ p \notin parties
  /\ parties' = parties \cup {p}
  /\ members' = members \cup {GmOf(u, p)}
  /\ UNCHANGED invites

(* repository.go CreateOrRegenerateInvite: only the GM, with a credential  *)
(* no invite ever had, and never revoking an invite before its creation.   *)
ReplaceInvite(u, p, k, at) ==
  /\ GmOf(u, p) \in members
  /\ invites[k] = None
  /\ \A c \in Code : Active(c, p) => invites[c].createdAt <= at
  /\ invites' = Rotated(p, k, at)
  /\ UNCHANGED <<parties, members>>

(* repository.go JoinParty and JoinPartyByCode, when they create a row.    *)
Join(u, p, k, c, at) ==
  /\ Current(k, p, at)
  /\ Owner[c] = u
  /\ \A m \in members : /\ ~(m.party = p /\ m.user = u)
                        /\ m.character # c
  /\ members' = members \cup {PlayerOf(u, p, c)}
  /\ UNCHANGED <<parties, invites>>

Next ==
  \E u \in User, p \in Party :
    \/ CreateParty(u, p)
    \/ \E k \in Code, at \in Times :
         \/ ReplaceInvite(u, p, k, at)
         \/ \E c \in Character : Join(u, p, k, c, at)

Spec == Init /\ [][Next]_vars
------------------------------------------------------------------------------
(* A Party has one GM and the GM brings no character.                      *)
OneGmPerParty ==
  \A p \in parties :
    /\ \E u \in User : GmOf(u, p) \in members
    /\ \A m, n \in members :
         m.party = p /\ n.party = p /\ m.role = "gm" /\ n.role = "gm" => m = n

(* A user has one membership in a Party and a character is in one Party.   *)
MembershipKeys ==
  \A m, n \in members :
    /\ m.party = n.party /\ m.user = n.user => m = n
    /\ m.character # None /\ m.character = n.character => m = n

(* A linked character belongs to the member who linked it: the rule the    *)
(* tables cannot express and the join transaction has to keep.             *)
LinkedCharacterIsOwned ==
  \A m \in members : /\ m.role = "gm" <=> m.character = None
                     /\ m.character # None => Owner[m.character] = m.user

(* At most one invite of a Party is not revoked, and none was revoked      *)
(* before it was created.                                                  *)
OneActiveInvite ==
  /\ \A p \in Party, k, l \in Code : Active(k, p) /\ Active(l, p) => k = l
  /\ \A k \in Code : invites[k] # None /\ invites[k].revokedAt # None =>
       invites[k].createdAt <= invites[k].revokedAt

(* Every membership and invite belongs to a Party that exists.             *)
NoOrphans == /\ \A m \in members : m.party \in parties
             /\ \A k \in Code : invites[k] # None => invites[k].party \in parties

(* The integrity of the Party tables: the state every Party screen and     *)
(* every authorization query of the backend takes for granted.             *)
Integrity ==
  /\ OneGmPerParty
  /\ MembershipKeys
  /\ LinkedCharacterIsOwned
  /\ OneActiveInvite
  /\ NoOrphans
=============================================================================
