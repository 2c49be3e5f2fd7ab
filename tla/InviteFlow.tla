------------------------------ MODULE InviteFlow ------------------------------
(***************************************************************************)
(* One tab of the browser application, frontend/src/App.tsx: which page it *)
(* shows, the private invite the user holds in memory, where sign-in shall *)
(* return to, and the automatic join of a character saved for an invite.   *)
(* Every request is answered at a moment of its own, after any number of   *)
(* further clicks, and the handlers of pages that are gone still run.      *)
(*                                                                         *)
(* App keeps each of these in a ref and a state that are set together, so  *)
(* one field stands for both. Back and Forward lead to any page that was   *)
(* shown since the document was loaded. "home" stands for the profile      *)
(* page, "party" for the three Party pages that sign-in returns to, and    *)
(* "character" for the pages of saved and sample characters.               *)
(***************************************************************************)
EXTENDS FiniteSets

CONSTANTS
  Token, Code,  \* invite credentials: links and codes
  Call,         \* requests under way
  None

Credential == Token \cup Code

ASSUME CredentialAssumption == None \notin Credential /\ Token \cap Code = {}
ASSUME CallAssumption == None \notin Call

VARIABLES
  route,     \* App's route
  seen,      \* the pages that the history holds
  app,       \* App's invite state
  signedIn,  \* currentUser is not null
  page,      \* the state of the mounted page
  joining,   \* the join page's activeJoinKeyRef
  restoring, \* the session restoration has not been answered
  call,      \* the requests
  wanted,    \* history: the invite the user last supplied and has not given up
  current    \* history: the automatic joins that nothing made stale

vars == <<route, seen, app, signedIn, page, joining, restoring, call, wanted, current>>

Route == {"home", "account", "new-character", "join-party", "party", "character"}
Destination == [route: {"new-character", "party"}, credential: {None}]
                 \cup [route: {"join-party"}, credential: Credential]
SavedJoin == [credential: Credential, status: {"joining", "error"}]
App == [invite: Credential \cup {None}, unavailable: BOOLEAN,
        pending: Destination \cup {None}, saved: SavedJoin \cup {None},
        attempt: Call \cup {None}]
Page == {"ready", "busy", "saved", "idle", "loading", "form", "empty", "error"}
Request == [kind: {"signIn", "register", "createParty", "signOut", "save", "join", "autoJoin"},
            credential: Credential \cup {None}, live: BOOLEAN]

ASSUME NoneIsNoRecord == None \notin SavedJoin \cup Request

(* Every variable keeps its kind; an unavailable invite is no longer held, *)
(* and only automatic joins are attempts. "Joining party" is shown exactly *)
(* while the request that ends it is under way: the user never waits for   *)
(* an answer that nobody listens to (App.tsx:501-573).                     *)
TypeOK ==
  /\ seen \subseteq Route /\ route \in seen
  /\ app \in App /\ (app.unavailable => app.invite = None)
  /\ signedIn \in BOOLEAN /\ restoring \in BOOLEAN
  /\ page \in Page
  /\ joining \in Credential \cup {None}
  /\ call \in [Call -> Request \cup {None}]
  /\ wanted \in Credential \cup {None}
  /\ current \subseteq {c \in Call : call[c] # None /\ call[c].kind = "autoJoin"}
  /\ app.attempt # None <=> app.saved # None /\ app.saved.status = "joining"
  /\ app.attempt # None =>
       LET request == call[app.attempt] IN
       request # None /\ request.kind = "autoJoin" /\ request.credential = app.saved.credential
------------------------------------------------------------------------------
(* App's helpers, as functions of its state.                               *)

(* Mutant: the attempt of the join that is forgotten stays active.         *)
InvalidatedKeepingAttempt(a) == [a EXCEPT !.saved = None]

Invalidated(a) == [a EXCEPT !.saved = None, !.attempt = None]
Holding(a, credential) == [a EXCEPT !.invite = credential, !.unavailable = FALSE]

(* Mutant: the destination of a sign-in that was begun survives.           *)
ClearedKeepingPending(a) == Holding(Invalidated(a), None)

(* clearInviteState *)
Cleared(a) == [Holding(Invalidated(a), None) EXCEPT !.pending = None]

(* Mutant: an invite that is shown unavailable is still held.              *)
ClearedButHeld(a, credential, unavailable) ==
  [Invalidated(a) EXCEPT !.unavailable = IF a.invite = credential THEN unavailable ELSE @,
                         !.pending = None]

(* clearMatchingInviteState *)
ClearedMatching(a, credential, unavailable) ==
  [invite      |-> IF a.invite = credential THEN None ELSE a.invite,
   unavailable |-> IF a.invite = credential THEN unavailable ELSE a.unavailable,
   pending     |-> IF a.pending # None /\ a.pending.credential = credential
                   THEN None ELSE a.pending,
   saved       |-> IF a.saved # None /\ a.saved.credential = credential
                   THEN None ELSE a.saved,
   attempt     |-> IF a.attempt # None /\ call[a.attempt].credential = credential
                   THEN None ELSE a.attempt]

(* beginAuthentication *)
Authenticating(a, destination) == [Holding(a, None) EXCEPT !.pending = destination]

(* restoreAuthenticationDestination, after the destination was taken out.  *)
Restored(a, destination) == Holding([a EXCEPT !.pending = None], destination.credential)

(* What the join page is given as savedCharacterJoinState. *)
JoinShown(a) == a.saved # None /\ a.saved.credential = a.invite

(* What a mounted page and its effects depend on: another value means a    *)
(* new page, or a new load whose predecessor is cleaned up and ignored.    *)
Key(r, a, s) == CASE r = "join-party" -> <<r, s, a.invite, JoinShown(a)>>
                  [] r = "account" -> <<r, s>>
                  [] OTHER -> <<r>>

Mounted(r, a, s) ==
  CASE r = "join-party" -> IF s /\ a.invite # None /\ ~JoinShown(a) THEN "loading" ELSE "idle"
    [] OTHER -> "ready"

(* A request whose page is gone is not live any more. Sign-in and          *)
(* registration share a form that is gone as soon as the user is signed in.*)
Orphaned(request, r, s) ==
  IF request = None THEN None
  ELSE [request EXCEPT !.live =
          @ /\ CASE request.kind \in {"signIn", "register"} -> r = "account" /\ ~s
                 [] request.kind = "save" -> r = "new-character"
                 [] request.kind = "join" -> r = "join-party"
                 [] request.kind = "createParty" -> r = "party"
                 [] OTHER -> FALSE]

(* The state after a handler: r is shown with invite state a, and cs are   *)
(* the requests.                                                           *)
ShowAs(p, r, a, s, cs) ==
  /\ route' = r /\ seen' = seen \cup {r} /\ app' = a /\ signedIn' = s
  /\ page' = IF Key(r, a, s) = Key(route, app, signedIn) THEN p ELSE Mounted(r, a, s)
  /\ joining' = IF r = "join-party" THEN joining ELSE None
  /\ call' = [c \in Call |-> Orphaned(cs[c], r, s)]
Show(r, a, s, cs) == ShowAs(page, r, a, s, cs)

Answered(c) == [call EXCEPT ![c] = None]
OfKind(c, kinds) == call[c] # None /\ call[c].kind \in kinds

(* History: the user supplies an invite, or gives up the one there was.    *)
Want(credential) == wanted' = credential /\ current' = {}
WantAsBefore == UNCHANGED <<wanted, current>>

(* The mounted page sends a request, and shows that it is busy.            *)
Send(c, kind, credential, p) ==
  /\ call[c] = None
  /\ call' = [call EXCEPT ![c] = [kind |-> kind, credential |-> credential, live |-> TRUE]]
  /\ page' = p
  /\ UNCHANGED <<route, seen, app, signedIn, restoring>> /\ WantAsBefore
------------------------------------------------------------------------------
(* Navigation.                                                             *)

(* showHome and showProfile, from the header and from every Cancel.        *)
GoHome ==
  /\ Show("home", Cleared(app), signedIn, call)
  /\ Want(None) /\ UNCHANGED restoring

(* showJoinParty *)
OpenJoin ==
  /\ route = "home"
  /\ Show("join-party", Cleared(app), signedIn, call)
  /\ Want(None) /\ UNCHANGED restoring

(* showParty, showNewParty, showSavedCharacter, showSampleCharacter        *)
OpenPage(r) ==
  /\ route = "home" /\ r \in {"party", "character"}
  /\ Show(r, app, signedIn, call)
  /\ WantAsBefore /\ UNCHANGED restoring

(* showNewCharacter, from Home or from an invite without a character.      *)
OpenCreation ==
  /\ route = "home" \/ (route = "join-party" /\ page = "empty")
  /\ Show("new-character", app, signedIn, call)
  /\ WantAsBefore /\ UNCHANGED restoring

(* openAccount, handleInviteSignIn, handleInviteCreateAccount: where there *)
(* is nothing to return to, showAccount forgets an earlier destination.    *)
OpenAccount ==
  /\ ~signedIn
  /\ Show("account",
          IF route \in {"new-character", "party"}
          THEN Authenticating(app, [route |-> route, credential |-> None])
          ELSE IF route = "join-party" /\ app.invite # None
          THEN Authenticating(app, [route |-> route, credential |-> app.invite])
          ELSE [app EXCEPT !.pending = None],
          signedIn, call)
  /\ WantAsBefore /\ UNCHANGED restoring

(* handleAccountBack: a code is given up, a link's token is restored.      *)
AccountBack ==
  /\ route = "account"
  /\ IF app.pending = None
     THEN Show("home", Cleared(app), signedIn, call) /\ Want(None)
     ELSE IF app.pending.credential \in Code
     THEN Show("join-party", Cleared(app), signedIn, call) /\ Want(None)
     ELSE Show(app.pending.route, Restored(app, app.pending), signedIn, call) /\ WantAsBefore
  /\ UNCHANGED restoring

(* handlePopState. Its last branch, which would make the invite of the     *)
(* join page the destination of the login page, is never taken: the invite *)
(* was set to null before.                                                 *)
PopState(r) ==
  /\ r \in seen
  /\ Show(r,
          IF r # "join-party" THEN Holding(Invalidated(app), None)
          ELSE IF app.pending # None /\ app.pending.route = r
          THEN Holding(app, app.pending.credential)
          ELSE app,
          signedIn, call)
  /\ current' = IF r = "join-party" THEN current ELSE {}
  /\ UNCHANGED <<restoring, wanted>>

(* handleHashChange on the join page: another link, a malformed fragment,  *)
(* or none. On other pages the fragment is scrubbed and that is all.       *)
FollowLink(t, fragment) ==
  /\ route = "join-party" /\ (t # None => fragment)
  /\ Show(route,
          [Holding(Invalidated(app), t)
             EXCEPT !.pending = None, !.unavailable = (t = None /\ fragment)],
          signedIn, call)
  /\ Want(t) /\ UNCHANGED restoring

(* handleInviteCodeSubmitted *)
SubmitCode(k) ==
  /\ route = "join-party" /\ app.invite = None /\ ~app.unavailable
  /\ Show(route, [Holding(Invalidated(app), k) EXCEPT !.pending = None], signedIn, call)
  /\ Want(k) /\ UNCHANGED restoring

TryAnotherCode ==
  /\ route = "join-party" /\ app.unavailable
  /\ Show(route, Cleared(app), signedIn, call)
  /\ Want(None) /\ UNCHANGED restoring
------------------------------------------------------------------------------
(* Accounts.                                                               *)

(* The session restoration keeps a user who has signed in meanwhile.       *)
Restore(found) ==
  /\ restoring /\ restoring' = FALSE
  /\ Show(route, app, signedIn \/ found, call)
  /\ WantAsBefore

SubmitAccount(c, kind) ==
  /\ route = "account" /\ ~signedIn /\ page = "ready"
  /\ Send(c, kind, None, "busy") /\ UNCHANGED joining

(* handleAuthenticated, also after the form is gone.                       *)
SignInSucceeds(c) ==
  /\ OfKind(c, {"signIn"})
  /\ IF app.pending = None
     THEN Show("home", Holding(app, None), TRUE, Answered(c))
     ELSE Show(app.pending.route, Restored(app, app.pending), TRUE, Answered(c))
  /\ WantAsBefore /\ UNCHANGED restoring

(* handleAuthenticationFailure gives up the invite that waits for it. The  *)
(* late failure of a form that is gone is no decision of the user; nor is  *)
(* one while the invite is being joined, which the code lets go on.        *)
AccountFails(c) ==
  /\ OfKind(c, {"signIn", "register"})
  /\ LET waiting == app.pending # None /\ app.pending.route = "join-party"
         p == IF call[c].live THEN "ready" ELSE page
     IN IF waiting
        THEN /\ ShowAs(p, route, [Holding(app, None) EXCEPT !.pending = None], signedIn, Answered(c))
             /\ IF call[c].live /\ app.saved = None THEN Want(None) ELSE WantAsBefore
        ELSE /\ ShowAs(p, route, app, signedIn, Answered(c))
             /\ WantAsBefore
  /\ UNCHANGED restoring

(* onModeChange: registration ends on the login page, wherever the user is.*)
RegistrationSucceeds(c) ==
  /\ OfKind(c, {"register"})
  /\ ShowAs(IF call[c].live THEN "ready" ELSE page, "account", app, signedIn, Answered(c))
  /\ WantAsBefore /\ UNCHANGED restoring

SubmitSignOut(c) == signedIn /\ Send(c, "signOut", None, page) /\ UNCHANGED joining

(* handleSignOut; after a failure the user is told and stays signed in.    *)
SignOutEnds(c) ==
  /\ OfKind(c, {"signOut"})
  /\ \/ Show("home", Cleared(app), FALSE, Answered(c)) /\ Want(None)
     \/ Show(route, app, signedIn, Answered(c)) /\ WantAsBefore
  /\ UNCHANGED restoring
------------------------------------------------------------------------------
(* The join page.                                                          *)

(* The load effect is answered: characters to choose from, none, or an     *)
(* error other than an unavailable invite.                                 *)
LoadEnds(p) ==
  /\ page = "loading" /\ p \in {"form", "empty", "error"}
  /\ page' = p
  /\ UNCHANGED <<route, seen, app, signedIn, joining, restoring, call>> /\ WantAsBefore

LoadFindsUnavailable ==
  /\ page = "loading"
  /\ Show(route, ClearedMatching(app, app.invite, TRUE), signedIn, call)
  /\ Want(None) /\ UNCHANGED restoring

(* Another load attempt: joins of the page before it do not match it.      *)
RetryLoad ==
  /\ page = "error"
  /\ page' = "loading" /\ joining' = None
  /\ call' = [c \in Call |-> IF OfKind(c, {"join"}) THEN [call[c] EXCEPT !.live = FALSE] ELSE call[c]]
  /\ UNCHANGED <<route, seen, app, signedIn, restoring>> /\ WantAsBefore

(* submitJoin *)
SubmitJoin(c) ==
  /\ page = "form" /\ joining # app.invite
  /\ Send(c, "join", app.invite, page)
  /\ joining' = app.invite

Matches(c) == call[c].live /\ app.invite = call[c].credential /\ signedIn

Unlocked(c) == IF call[c].live /\ joining = call[c].credential THEN None ELSE joining

JoinSucceeds(c) ==
  /\ OfKind(c, {"join"})
  /\ IF Matches(c)
     THEN Show("party", Cleared(app), signedIn, Answered(c)) /\ Want(None)
     ELSE /\ call' = Answered(c) /\ joining' = Unlocked(c)
          /\ UNCHANGED <<route, seen, app, signedIn, page>> /\ WantAsBefore
  /\ UNCHANGED restoring

JoinFails(c, unavailable) ==
  /\ OfKind(c, {"join"})
  /\ joining' = Unlocked(c)
  /\ IF Matches(c) /\ unavailable
     THEN LET cleared == ClearedMatching(app, app.invite, TRUE)
          IN /\ app' = cleared /\ page' = Mounted(route, cleared, signedIn)
             /\ Want(None)
     ELSE UNCHANGED <<app, page>> /\ WantAsBefore
  /\ call' = Answered(c)
  /\ UNCHANGED <<route, seen, signedIn, restoring>>
------------------------------------------------------------------------------
(* Saving a character, creating a Party, and the automatic join.           *)

(* The save remembers the invite it was launched for.                      *)
SubmitSave(c) ==
  /\ route = "new-character" /\ signedIn /\ page = "ready"
  /\ Send(c, "save", app.invite, "busy") /\ UNCHANGED joining

(* startSavedCharacterJoin, with c as the new attempt.                     *)
StartJoin(c, credential) ==
  LET attempt == [kind |-> "autoJoin", credential |-> credential, live |-> FALSE]
  IN /\ Show("join-party",
             [app EXCEPT !.attempt = c,
                         !.saved = [credential |-> credential, status |-> "joining"]],
             signedIn, [call EXCEPT ![c] = attempt])
     /\ current' = current \cup {c} /\ UNCHANGED wanted

(* handleCharacterSaved. The page keeps its save lock.                     *)
SaveSucceeds(c) ==
  /\ OfKind(c, {"save"})
  /\ LET source == call[c].credential
     IN IF source = None
        THEN Show("character", app, signedIn, Answered(c)) /\ WantAsBefore
        ELSE IF app.invite = source
        THEN StartJoin(c, source)
        ELSE /\ ShowAs(IF call[c].live THEN "saved" ELSE page, route, app, signedIn, Answered(c))
             /\ WantAsBefore
  /\ UNCHANGED restoring

SaveFails(c) ==
  /\ OfKind(c, {"save"})
  /\ ShowAs(IF call[c].live THEN "ready" ELSE page, route, app, signedIn, Answered(c))
  /\ WantAsBefore /\ UNCHANGED restoring

(* Mutant: an attempt is recognised by its invite.                         *)
AutoJoinSucceedsByInvite(c) ==
  /\ OfKind(c, {"autoJoin"})
  /\ IF app.saved # None /\ app.saved.credential = call[c].credential
     THEN Show("party", Cleared(app), signedIn, Answered(c)) /\ Want(None)
     ELSE /\ call' = Answered(c) /\ current' = current \ {c}
          /\ UNCHANGED <<route, seen, app, signedIn, page, joining, wanted>>
  /\ UNCHANGED restoring

AutoJoinSucceeds(c) ==
  /\ OfKind(c, {"autoJoin"})
  /\ IF app.attempt = c
     THEN Show("party", Cleared(app), signedIn, Answered(c)) /\ Want(None)
     ELSE /\ call' = Answered(c) /\ current' = current \ {c}
          /\ UNCHANGED <<route, seen, app, signedIn, page, joining, wanted>>
  /\ UNCHANGED restoring

(* An unavailable invite is dropped; after another error the user may      *)
(* retry.                                                                  *)
AutoJoinFails(c, unavailable) ==
  LET ended == [app EXCEPT !.attempt = None]
      credential == call[c].credential
  IN /\ OfKind(c, {"autoJoin"})
     /\ IF app.attempt # c
        THEN /\ call' = Answered(c) /\ current' = current \ {c}
             /\ UNCHANGED <<route, seen, app, signedIn, page, joining, wanted>>
        ELSE IF unavailable
        THEN /\ Show(route, ClearedMatching(ended, credential, TRUE), signedIn, Answered(c))
             /\ Want(None)
        ELSE /\ Show(route, [ended EXCEPT !.saved.status = "error"], signedIn, Answered(c))
             /\ current' = current \ {c} /\ UNCHANGED wanted
     /\ UNCHANGED restoring

(* retrySavedCharacterJoin; its button is there for a failed join only.    *)
RetryAutoJoin(c) ==
  /\ route = "join-party" /\ signedIn /\ JoinShown(app) /\ app.saved.status = "error"
  /\ call[c] = None
  /\ StartJoin(c, app.saved.credential) /\ UNCHANGED restoring

SubmitParty(c) ==
  /\ route = "party" /\ signedIn /\ page = "ready"
  /\ Send(c, "createParty", None, "busy") /\ UNCHANGED joining

(* handlePartyCreated *)
CreatePartyEnds(c) ==
  /\ OfKind(c, {"createParty"})
  /\ \/ ShowAs("ready", "party", Cleared(app), signedIn, Answered(c)) /\ Want(None)
     \/ /\ ShowAs(IF call[c].live THEN "ready" ELSE page, route, app, signedIn, Answered(c))
        /\ WantAsBefore
  /\ UNCHANGED restoring
------------------------------------------------------------------------------
(* prepareInitialNavigation: a page is loaded, the join page maybe with a  *)
(* link's token.                                                           *)
Init ==
  /\ route \in Route /\ seen = {route}
  /\ wanted \in IF route = "join-party" THEN Token \cup {None} ELSE {None}
  /\ app = [invite |-> wanted, unavailable |-> FALSE, pending |-> None,
            saved |-> None, attempt |-> None]
  /\ signedIn = FALSE /\ restoring = TRUE
  /\ page = Mounted(route, app, FALSE)
  /\ joining = None
  /\ call = [c \in Call |-> None]
  /\ current = {}

Navigate ==
  \/ GoHome \/ OpenJoin \/ OpenCreation \/ OpenAccount \/ AccountBack \/ TryAnotherCode
  \/ \E r \in Route : OpenPage(r) \/ PopState(r)
  \/ \E t \in Token \cup {None}, fragment \in BOOLEAN : FollowLink(t, fragment)
  \/ \E k \in Code : SubmitCode(k)

Submit(c) ==
  \/ SubmitAccount(c, "signIn") \/ SubmitAccount(c, "register") \/ SubmitSignOut(c)
  \/ SubmitJoin(c) \/ SubmitSave(c) \/ SubmitParty(c) \/ RetryAutoJoin(c)

Answer(c) ==
  \/ SignInSucceeds(c) \/ RegistrationSucceeds(c) \/ AccountFails(c) \/ SignOutEnds(c)
  \/ JoinSucceeds(c) \/ SaveSucceeds(c) \/ SaveFails(c) \/ AutoJoinSucceeds(c)
  \/ CreatePartyEnds(c)
  \/ \E unavailable \in BOOLEAN : JoinFails(c, unavailable) \/ AutoJoinFails(c, unavailable)

Next ==
  \/ Navigate
  \/ \E found \in BOOLEAN : Restore(found)
  \/ \E p \in Page : LoadEnds(p)
  \/ LoadFindsUnavailable \/ RetryLoad
  \/ \E c \in Call : Submit(c) \/ Answer(c)

Spec == Init /\ [][Next]_vars
------------------------------------------------------------------------------
(* Once the user has given an invite up, or replaced it, it is never held  *)
(* again: not by the page, not as the destination of a sign-in, not by a   *)
(* join under way or one to be retried, whatever comes back late and       *)
(* wherever Back and Forward lead (T-028 REQUIREMENTS.md: "Cancellation,   *)
(* replacement, failed authentication, an unavailable invitation, and a    *)
(* completed join clear the pending credential from memory").              *)
NoResurrection ==
  /\ app.invite \in {None, wanted}
  /\ app.pending # None => app.pending.credential \in {None, wanted}
  /\ app.saved # None => app.saved.credential = wanted

(* A join whose invite was replaced or given up since it began changes     *)
(* nothing when it is answered, even if the user holds the same invite     *)
(* again (T-021 REQUIREMENTS.md: "Stale success or failure must not alter  *)
(* current state").                                                        *)
StaleJoinsChangeNothing ==
  [][\A c \in Call : OfKind(c, {"autoJoin"}) /\ c \notin current /\ call'[c] = None =>
       UNCHANGED <<route, app, page>>]_vars

(* A successful automatic join whose invite was neither replaced nor given *)
(* up opens the Party (T-021 REQUIREMENTS.md: "Successful join clears      *)
(* active and pending invite state and navigates to Party detail").        *)
JoinSuccessOpensParty ==
  [][\A c \in Call : c \in current /\ AutoJoinSucceeds(c) => route' = "party"]_vars

(* A sign-in on the page that is shown returns to the invite the user came *)
(* with (T-017 REQUIREMENTS.md: "After authentication, the typed invite    *)
(* destination remains available instead of always returning home").       *)
SignInReturnsToInvite ==
  [][\A c \in Call : call[c] # None /\ call[c].live /\ wanted # None /\ SignInSucceeds(c) =>
       route' = "join-party" /\ app'.invite = wanted]_vars
=============================================================================
