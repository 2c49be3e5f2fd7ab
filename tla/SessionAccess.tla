---------------------------- MODULE SessionAccess ----------------------------
(***************************************************************************)
(* What the session store of the backend promises to the rest of the       *)
(* system, with no cookie, no request in flight and no database row:       *)
(*                                                                         *)
(*  - a session is opened once, for one user and until one deadline;       *)
(*  - it is closed at most once and never opened again;                    *)
(*  - a client is vouched for as a user only by a session of that user     *)
(*    that is open now and had not run out when the client asked;          *)
(*  - a client is told that it signed out of a session only when that      *)
(*    session is closed.                                                   *)
(*                                                                         *)
(* Sessions implements it: see Implements there, and the theorem in        *)
(* SessionsProofs.                                                         *)
(***************************************************************************)
EXTENDS Naturals

CONSTANTS Client, Token, User, Time, None

VARIABLES
  life,      \* a session's state: "unborn", "open" or "closed"
  owner,     \* whose session it is
  deadline,  \* when it runs out
  since,     \* when a client asked
  vouched,   \* the user a client was recognised as, or None
  released   \* the session a client was told it signed out of, or None

vars == <<life, owner, deadline, since, vouched, released>>

Init ==
  /\ life = [t \in Token |-> "unborn"]
  /\ owner = [t \in Token |-> None]
  /\ deadline = [t \in Token |-> 0]
  /\ since = [c \in Client |-> 0]
  /\ vouched = [c \in Client |-> None]
  /\ released = [c \in Client |-> None]

(* A client asks again once it has dropped what it was told before. *)
Ask(c) ==
  /\ vouched[c] = None /\ released[c] = None
  /\ \E now \in Time : since' = [since EXCEPT ![c] = now]
  /\ UNCHANGED <<life, owner, deadline, vouched, released>>

Forget(c) ==
  /\ vouched' = [vouched EXCEPT ![c] = None]
  /\ released' = [released EXCEPT ![c] = None]
  /\ since' \in {since, [since EXCEPT ![c] = 0]}
  /\ UNCHANGED <<life, owner, deadline>>

Open(t, u) ==
  /\ life[t] = "unborn"
  /\ life' = [life EXCEPT ![t] = "open"]
  /\ owner' = [owner EXCEPT ![t] = u]
  /\ \E d \in Time : deadline' = [deadline EXCEPT ![t] = d]
  /\ UNCHANGED <<since, vouched, released>>

Close(t) ==
  /\ life[t] = "open"
  /\ life' = [life EXCEPT ![t] = "closed"]
  /\ UNCHANGED <<owner, deadline, since, vouched, released>>

Vouch(c, t) ==
  /\ life[t] = "open"
  /\ deadline[t] > since[c]
  /\ vouched' = [vouched EXCEPT ![c] = owner[t]]
  /\ UNCHANGED <<life, owner, deadline, since, released>>

(* Signing out closes the session if it is still open; the client is told  *)
(* in the same step.                                                       *)
Release(c, t) ==
  /\ life[t] # "unborn"
  /\ life' = [life EXCEPT ![t] = "closed"]
  /\ released' = [released EXCEPT ![c] = t]
  /\ UNCHANGED <<owner, deadline, since, vouched>>

Next ==
  \/ \E c \in Client : Ask(c) \/ Forget(c)
  \/ \E t \in Token, u \in User : Open(t, u)
  \/ \E t \in Token : Close(t)
  \/ \E c \in Client, t \in Token : Vouch(c, t) \/ Release(c, t)

Spec == Init /\ [][Next]_vars
=============================================================================
