------------------------------- MODULE Sessions -------------------------------
(***************************************************************************)
(* A browser and its session: the rows of user_sessions, the cookie jar    *)
(* its tabs share, and the four requests that carry or move the cookie --  *)
(* the restoration a page load makes, a sign-in, a sign-out and a private  *)
(* request behind RequireSession.                                          *)
(*                                                                         *)
(* A request takes the cookie when it is sent. The server reads the clock, *)
(* makes one statement and answers; the browser stores or clears the       *)
(* cookie when the answer arrives, whatever the jar holds by then; the     *)
(* App of the tab acts on it later still. Requests of one tab and of       *)
(* several interleave at all of these points, and any answer can be lost.  *)
(* Whether a sign-in's password is right is the business of AuthHandlers.  *)
(***************************************************************************)
EXTENDS Naturals, FiniteSets

CONSTANTS
  Tab, User,
  Kind,       \* the requests tabs make: "restore", "signIn", "signOut", "private"
  Token,      \* bound: sessions that can be opened
  Lifetime,   \* sessionConfig.Lifetime, in ticks
  MaxTime,    \* bound: the clock stops here
  MaxInFlight, \* bound: requests in flight at a time
  Clear,      \* the Set-Cookie of ClearSessionCookie
  None

ASSUME LifetimeAssumption == Lifetime \in Nat \ {0} /\ MaxTime \in Nat
ASSUME KindAssumption == Kind \subseteq {"restore", "signIn", "signOut", "private"}
ASSUME InFlightAssumption == MaxInFlight \in Nat \ {0}

Time == 0 .. (MaxTime + Lifetime)

(* A row of user_sessions. *)
Session == [user : User, expiresAt : Time, revoked : BOOLEAN]

ASSUME NoneAssumption ==
  /\ None \notin User \cup Token \cup Session
  /\ Clear \notin Token \cup {None}

(* Bound: a tab has one request of a kind in flight at a time. *)
Call == Tab \X Kind

VARIABLES
  clock,
  rows,     \* user_sessions, by token
  jar,      \* the hunin_session cookie
  tabs,     \* App state of a tab
  calls,    \* requests in flight
  overlap   \* history: a restoration met a request that moves the cookie

vars == <<clock, rows, jar, tabs, calls, overlap>>

TabState == [user : User \cup {None}, loading : BOOLEAN, error : BOOLEAN]
Pc == {"idle", "sent", "stamped", "granted", "answered", "received"}
CallState ==
  [pc : Pc,
   cookie : Token \cup {None},            \* the cookie it was sent with
   user : User \cup {None},               \* signing in, or recognised as
   at : 0 .. MaxTime,                          \* the handler's now
   answer : {"ok", "denied", "failed"},   \* 2xx, 401, or any other end
   setCookie : Token \cup {None, Clear},
   heard : BOOLEAN]                       \* the page that sent it is still open

(* A request that ended, or never was: nothing of it is left but that. *)
Ended(pc, answer, at, heard) ==
  [pc |-> pc, cookie |-> None, user |-> None, at |-> at, answer |-> answer,
   setCookie |-> None, heard |-> heard]
Idle == Ended("idle", "failed", 0, TRUE)
Sent(u) == [pc |-> "sent", cookie |-> jar, user |-> u, at |-> 0, answer |-> "failed",
            setCookie |-> None, heard |-> TRUE]

Kinds(k) == {c \in Call : c[2] = k}

(* Mutant: FindActiveSession without revoked_at IS NULL. *)
ActiveThoughRevoked(t, now) == rows[t] # None /\ rows[t].expiresAt > now

Active(t, now) ==
  rows[t] # None /\ ~rows[t].revoked /\ rows[t].expiresAt > now

(* A success, and the cookie it sets if any; the end of a request that did *)
(* not succeed, which sets none and says nothing of what was done.         *)
Succeed(c, setCookie) ==
  calls' = [calls EXCEPT ![c].pc = "answered", ![c].answer = "ok",
                         ![c].setCookie = setCookie]
Fail(c, pc, answer) ==
  calls' = [calls EXCEPT ![c] = Ended(pc, answer, calls[c].at, calls[c].heard)]

-----------------------------------------------------------------------------
(* The browser sends a request. *)

InFlight == {c \in Call : calls[c].pc # "idle"}
CanSend(c) == c \in Call \ InFlight /\ Cardinality(InFlight) < MaxInFlight
Busy(tab) == \E c \in InFlight : c[1] = tab

(* A page load: the App starts again and restores its session. Requests of *)
(* the page it replaces are no longer heard; the server still gets them.   *)
Load(tab) ==
  /\ CanSend(<<tab, "restore">>)
  /\ tabs' = [tabs EXCEPT ![tab] = [user |-> None, loading |-> TRUE, error |-> FALSE]]
  /\ calls' = [c \in Call |->
       IF c = <<tab, "restore">> THEN Sent(None)
       ELSE IF c[1] = tab /\ calls[c].pc # "idle" THEN [calls[c] EXCEPT !.heard = FALSE]
       ELSE calls[c]]
  /\ overlap' = (overlap \/ Busy(tab))
  /\ UNCHANGED <<clock, rows, jar>>

(* The account page shows its form while nobody is signed in, whether or   *)
(* not the restoration is still pending.                                   *)
SendSignIn(tab, u) ==
  /\ tabs[tab].user = None
  /\ CanSend(<<tab, "signIn">>)
  /\ calls' = [calls EXCEPT ![<<tab, "signIn">>] = Sent(u)]
  /\ overlap' = (overlap \/ tabs[tab].loading)
  /\ UNCHANGED <<clock, rows, jar, tabs>>

SendSignOut(tab) ==
  /\ tabs[tab].user # None
  /\ CanSend(<<tab, "signOut">>)
  /\ calls' = [calls EXCEPT ![<<tab, "signOut">>] = Sent(None)]
  /\ UNCHANGED <<clock, rows, jar, tabs, overlap>>

SendPrivate(tab) ==
  /\ tabs[tab].user # None
  /\ CanSend(<<tab, "private">>)
  /\ calls' = [calls EXCEPT ![<<tab, "private">>] = Sent(None)]
  /\ UNCHANGED <<clock, rows, jar, tabs, overlap>>

-----------------------------------------------------------------------------
(* The server. *)

(* Without a cookie nothing is looked up: Authenticate returns             *)
(* http.ErrNoCookie, and Logout clears the cookie and answers 204.         *)
NoCookie(c) ==
  /\ calls[c].pc = "sent" /\ c[2] # "signIn" /\ calls[c].cookie = None
  /\ IF c[2] = "signOut" THEN Succeed(c, Clear) ELSE Fail(c, "answered", "denied")
  /\ UNCHANGED <<clock, rows, jar, tabs, overlap>>

(* now() is read before the statement it is a parameter of. *)
Stamp(c) ==
  /\ calls[c].pc = "sent"
  /\ c[2] = "signIn" \/ calls[c].cookie # None
  /\ calls' = [calls EXCEPT ![c].pc = "stamped", ![c].at = clock]
  /\ UNCHANGED <<clock, rows, jar, tabs, overlap>>

(* Authenticate: FindActiveSession as of the time read; an error is a 500. *)
FindActiveSession(c) ==
  /\ calls[c].pc = "stamped" /\ c[2] \in {"restore", "private"}
  /\ LET t == calls[c].cookie IN
       \/ /\ Active(t, calls[c].at)
          /\ calls' = [calls EXCEPT
                 ![c].user = rows[t].user,
                 ![c].pc = IF c[2] = "private" THEN "granted" ELSE "answered",
                 ![c].answer = "ok"]
       \/ ~Active(t, calls[c].at) /\ Fail(c, "answered", "denied")
       \/ Fail(c, "answered", "failed")
  /\ UNCHANGED <<clock, rows, jar, tabs, overlap>>

(* The handler behind RequireSession runs as the user of the context. *)
Serve(c) ==
  /\ calls[c].pc = "granted"
  /\ Succeed(c, None)
  /\ UNCHANGED <<clock, rows, jar, tabs, overlap>>

(* Mutant: the cookie is set although the INSERT failed. *)
CreateSessionCookieFirst(c) ==
  /\ calls[c].pc = "stamped" /\ c[2] = "signIn"
  /\ \E t \in Token : rows[t] = None /\ Succeed(c, t)
  /\ UNCHANGED <<clock, rows, jar, tabs, overlap>>

(* createSessionCookie; an INSERT that reports an error may have happened. *)
CreateSession(c) ==
  /\ calls[c].pc = "stamped" /\ c[2] = "signIn"
  /\ \/ \E t \in Token :
          /\ rows[t] = None
          /\ rows' = [rows EXCEPT ![t] = [user |-> calls[c].user,
                                          expiresAt |-> calls[c].at + Lifetime,
                                          revoked |-> FALSE]]
          /\ Succeed(c, t) \/ Fail(c, "answered", "failed")
     \/ Fail(c, "answered", "failed") /\ UNCHANGED rows
  /\ UNCHANGED <<clock, jar, tabs, overlap>>

(* Sign-in refused before createSessionCookie. *)
Refuse(c) ==
  /\ calls[c].pc = "sent" /\ c[2] = "signIn"
  /\ Fail(c, "answered", "denied")
  /\ UNCHANGED <<clock, rows, jar, tabs, overlap>>

(* Mutant: sign-out deletes the row, so that its token can be used anew. *)
RevokedByDelete(t) == [rows EXCEPT ![t] = None]

(* Logout with a cookie. The UPDATE leaves a row that is already revoked   *)
(* alone and no row is not an error; when it reports an error the answer   *)
(* is a 503 that keeps the cookie, though the UPDATE may have happened.    *)
Revoked(t) == [rows EXCEPT ![t].revoked = TRUE]

(* Mutant: the error of the UPDATE is dropped. *)
RevokeSessionUnchecked(c) ==
  /\ calls[c].pc = "stamped" /\ c[2] = "signOut"
  /\ rows' = Revoked(calls[c].cookie) \/ UNCHANGED rows
  /\ Succeed(c, Clear)
  /\ UNCHANGED <<clock, jar, tabs, overlap>>

RevokeSession(c) ==
  /\ calls[c].pc = "stamped" /\ c[2] = "signOut"
  /\ \/ /\ rows' = Revoked(calls[c].cookie) /\ (Succeed(c, Clear) \/ Fail(c, "answered", "failed"))
     \/ UNCHANGED rows /\ Fail(c, "answered", "failed")
  /\ UNCHANGED <<clock, jar, tabs, overlap>>

-----------------------------------------------------------------------------
(* The network and the browser. *)

(* The request never arrives, or its answer never does: fetch rejects. *)
Lose(c) ==
  /\ calls[c].pc \in {"sent", "answered"}
  /\ Fail(c, "received", "failed")
  /\ UNCHANGED <<clock, rows, jar, tabs, overlap>>

(* Mutant: cookies of an older Path stay and are sent first. *)
ReceiveBesideOld(c) ==
  /\ calls[c].pc = "answered"
  /\ calls' = [calls EXCEPT ![c].pc = "received", ![c].setCookie = None]
  /\ jar' = CASE calls[c].setCookie = Clear -> None
              [] calls[c].setCookie # Clear /\ jar = None -> calls[c].setCookie
              [] OTHER -> jar
  /\ UNCHANGED <<clock, rows, tabs, overlap>>

(* Mutant: the clearing cookie has no Max-Age and is stored as a value. *)
ReceiveClearAsValue(c) ==
  /\ calls[c].pc = "answered"
  /\ calls' = [calls EXCEPT ![c].pc = "received", ![c].setCookie = None]
  /\ jar' = IF calls[c].setCookie = None THEN jar ELSE calls[c].setCookie
  /\ UNCHANGED <<clock, rows, tabs, overlap>>

(* The answer arrives: its Set-Cookie replaces whatever the jar holds. The *)
(* answer to a page that is gone may or may not be stored.                 *)
Receive(c) ==
  /\ calls[c].pc = "answered"
  /\ calls' = [calls EXCEPT ![c].pc = "received", ![c].setCookie = None]
  /\ \/ jar' = CASE calls[c].setCookie = None -> jar
                 [] calls[c].setCookie = Clear -> None
                 [] OTHER -> calls[c].setCookie
     \/ ~calls[c].heard /\ jar' = jar
  /\ UNCHANGED <<clock, rows, tabs, overlap>>

(* Max-Age counts from the answer, so the cookie may outlive its row. *)
CookieExpires ==
  /\ jar # None /\ rows[jar].expiresAt <= clock
  /\ jar' = None
  /\ UNCHANGED <<clock, rows, tabs, calls, overlap>>

Tick ==
  /\ clock < MaxTime
  /\ clock' = clock + 1
  /\ UNCHANGED <<rows, jar, tabs, calls, overlap>>

-----------------------------------------------------------------------------
(* The App acts on the answer. *)

(* user ?? existingUser, the error, and the finally that ends the loading. *)
Restored(tab, call) ==
  [tab EXCEPT !.user = IF call.answer = "ok" THEN call.user ELSE tab.user,
              !.error = call.answer = "failed",
              !.loading = FALSE]

(* handleAuthenticated; a failure only shows in the form. *)
SignedIn(tab, call) ==
  IF call.answer = "ok" THEN [tab EXCEPT !.user = call.user, !.error = FALSE] ELSE tab

(* handleSignOut: a failure leaves the user signed in, with the error. *)
SignedOut(tab, call) ==
  IF call.answer = "ok" THEN [tab EXCEPT !.user = None, !.error = FALSE]
  ELSE [tab EXCEPT !.error = TRUE]

Settle(c) ==
  /\ calls[c].pc = "received"
  /\ calls' = [calls EXCEPT ![c] = Idle]
  /\ tabs' = IF ~calls[c].heard THEN tabs
             ELSE [tabs EXCEPT ![c[1]] =
               CASE c[2] = "restore" -> Restored(@, calls[c])
                 [] c[2] = "signIn"  -> SignedIn(@, calls[c])
                 [] c[2] = "signOut" -> SignedOut(@, calls[c])
                 [] OTHER -> @]
  /\ UNCHANGED <<clock, rows, jar, overlap>>

-----------------------------------------------------------------------------
Init ==
  /\ clock = 0
  /\ rows = [t \in Token |-> None]
  /\ jar = None
  /\ tabs = [tab \in Tab |-> [user |-> None, loading |-> FALSE, error |-> FALSE]]
  /\ calls = [c \in Call |-> Idle]
  /\ overlap = FALSE

Server(c) ==
  \/ NoCookie(c) \/ Stamp(c) \/ FindActiveSession(c) \/ Serve(c)
  \/ CreateSession(c) \/ Refuse(c) \/ RevokeSession(c)

Browser(c) == Lose(c) \/ Receive(c) \/ Settle(c)

Send(tab) ==
  \/ Load(tab) \/ SendSignOut(tab) \/ SendPrivate(tab)
  \/ \E u \in User : SendSignIn(tab, u)

Next ==
  \/ \E tab \in Tab : Send(tab)
  \/ \E c \in Call : Server(c) \/ Browser(c)
  \/ CookieExpires
  \/ Tick

Spec == Init /\ [][Next]_vars

-----------------------------------------------------------------------------
TypeOK ==
  /\ clock \in 0 .. MaxTime
  /\ rows \in [Token -> Session \cup {None}]
  /\ jar \in Token \cup {None}
  /\ tabs \in [Tab -> TabState]
  /\ calls \in [Call -> CallState]
  /\ overlap \in BOOLEAN

(* createSessionCookie inserts the row before it sets the cookie: every    *)
(* cookie that is stored, sent or on its way has a row.                    *)
CookiesHaveRows ==
  \A t \in Token :
    \/ rows[t] # None
    \/ jar # t /\ \A c \in Call : calls[c].cookie # t /\ calls[c].setCookie # t

(* A sign-out answered 204 has ended its session, and no request is        *)
(* recognised by it any more, whoever repeats it and whatever was lost:    *)
(* "Logout does not silently report successful server revocation when      *)
(* revocation fails."                                                      *)
SignedOutIsOver ==
  \A c \in Kinds("signOut") :
    calls[c].pc \in {"answered", "received"} /\ calls[c].answer = "ok" /\ calls[c].cookie # None
      => rows[calls[c].cookie].revoked

(* With one tab whose restoration ends before anything else is sent, the   *)
(* user a quiet page shows is the user the cookie signs in -- over lost    *)
(* answers, failed statements, expiry and page loads.                      *)
ShowsTheCookiesUser ==
  \A tab \in Tab :
    ~overlap /\ ~Busy(tab) /\ tabs[tab].user # None /\ jar # None
      => rows[jar].user = tabs[tab].user

(* "A signed-in profile page must show the authenticated username": with   *)
(* nothing in flight, the user shown is the one the cookie signs in.       *)
ProfileShowsTheAuthenticatedUser ==
  \A tab \in Tab :
    /\ ~Busy(tab) /\ ~tabs[tab].loading /\ ~tabs[tab].error /\ tabs[tab].user # None
    /\ jar # None
    => rows[jar].user = tabs[tab].user

(* A row's user and expiry never change, and a revocation is final,        *)
(* whichever requests of the session are answered after it.                *)
RowsOnlyClose ==
  [][\A t \in Token : rows[t] # None =>
       /\ rows'[t] # None
       /\ rows'[t].user = rows[t].user /\ rows'[t].expiresAt = rows[t].expiresAt
       /\ rows[t].revoked => rows'[t].revoked]_vars

-----------------------------------------------------------------------------
(* Sessions implements SessionAccess: a row is an open session until it is *)
(* revoked, a request asks when the server reads its clock, is vouched for *)
(* from FindActiveSession to the end, and released by a 204.               *)
Told(c) == calls[c].pc \in {"granted", "answered", "received"} /\ calls[c].answer = "ok"

LifeOf(t) == IF rows[t] = None THEN "unborn" ELSE IF rows[t].revoked THEN "closed" ELSE "open"
VouchedFor(c) == IF Told(c) /\ c[2] \in {"restore", "private"} THEN calls[c].user ELSE None
ReleasedFrom(c) == IF Told(c) /\ c[2] = "signOut" THEN calls[c].cookie ELSE None

Access == INSTANCE SessionAccess WITH
  Client <- Call,
  life <- [t \in Token |-> LifeOf(t)],
  owner <- [t \in Token |-> IF rows[t] = None THEN None ELSE rows[t].user],
  deadline <- [t \in Token |-> IF rows[t] = None THEN 0 ELSE rows[t].expiresAt],
  since <- [c \in Call |-> calls[c].at],
  vouched <- [c \in Call |-> VouchedFor(c)],
  released <- [c \in Call |-> ReleasedFrom(c)]

(* What the code behind the cookie promises its callers. *)
Implements == Access!Spec
=============================================================================
