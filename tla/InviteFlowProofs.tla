--------------------------- MODULE InviteFlowProofs ----------------------------
(***************************************************************************)
(* The invite flow of the browser, for any tokens, codes and requests: an  *)
(* invite that was given up never comes back, and a stale automatic join   *)
(* changes nothing. Almost every handler ends in ShowAs, so the invariant  *)
(* is stated about the values a handler passes to it: an invite state, the *)
(* requests, the history.                                                  *)
(***************************************************************************)
EXTENDS InviteFlow, TLAPS

(* The invite state a may hold only the wanted invite w.                   *)
AppFits(a, w) ==
  /\ a \in App /\ (a.unavailable => a.invite = None)
  /\ a.invite \in {None, w}
  /\ a.pending # None => a.pending.credential \in {None, w}
  /\ a.saved # None => a.saved.credential = w

(* The active attempt is a request that nothing made stale.                *)
AttemptFits(a, cs, cur) ==
  /\ a.attempt # None <=> (a.saved # None /\ a.saved.status = "joining")
  /\ a.attempt # None => /\ cs[a.attempt] # None /\ cs[a.attempt].kind = "autoJoin"
                         /\ cs[a.attempt].credential = a.saved.credential
                         /\ a.attempt \in cur

CallsFit(cs, cur) ==
  /\ cs \in [Call -> Request \cup {None}]
  /\ cur \subseteq {c \in Call : cs[c] # None /\ cs[c].kind = "autoJoin"}
  /\ \A c \in Call : cs[c] # None /\ cs[c].kind = "join" => cs[c].credential # None

(* The pages that show an invite are there only while there is one.        *)
InvitePages == {"loading", "form", "empty", "error"}
PageFits(p, r, a) == p \in Page /\ (p \in InvitePages => r = "join-party" /\ a.invite # None)

IInv ==
  /\ route \in Route /\ seen \subseteq Route /\ route \in seen
  /\ signedIn \in BOOLEAN /\ restoring \in BOOLEAN
  /\ joining \in Credential \cup {None} /\ wanted \in Credential \cup {None}
  /\ AppFits(app, wanted)
  /\ AttemptFits(app, call, current)
  /\ CallsFit(call, current)
  /\ PageFits(page, route, app)

LEMMA InvariantSuffices == IInv => TypeOK /\ NoResurrection
BY DEF IInv, AppFits, AttemptFits, CallsFit, PageFits, TypeOK, NoResurrection
------------------------------------------------------------------------------
(* The helpers of App.                                                     *)
LEMMA InvalidatedFields ==
  ASSUME NEW a \in App
  PROVE  LET i == Invalidated(a)
         IN /\ i \in App /\ i.invite = a.invite /\ i.unavailable = a.unavailable
            /\ i.pending = a.pending /\ i.saved = None /\ i.attempt = None
BY DEF Invalidated, App

LEMMA HoldingFields ==
  ASSUME NEW a \in App, NEW x \in Credential \cup {None}
  PROVE  LET h == Holding(a, x)
         IN /\ h \in App /\ h.invite = x /\ h.unavailable = FALSE
            /\ h.pending = a.pending /\ h.saved = a.saved /\ h.attempt = a.attempt
BY DEF Holding, App

LEMMA PendingFields ==
  ASSUME NEW a \in App, NEW d \in Destination \cup {None}
  PROVE  LET q == [a EXCEPT !.pending = d]
         IN /\ q \in App /\ q.invite = a.invite /\ q.unavailable = a.unavailable
            /\ q.pending = d /\ q.saved = a.saved /\ q.attempt = a.attempt
BY DEF App

LEMMA ClearedFields ==
  ASSUME NEW a \in App
  PROVE  LET z == Cleared(a)
         IN /\ z \in App /\ z.invite = None /\ z.unavailable = FALSE
            /\ z.pending = None /\ z.saved = None /\ z.attempt = None
<1>1. Invalidated(a) \in App /\ Invalidated(a).saved = None /\ Invalidated(a).attempt = None
  BY InvalidatedFields
<1>2. LET h == Holding(Invalidated(a), None)
      IN h \in App /\ h.invite = None /\ h.unavailable = FALSE /\ h.saved = None /\ h.attempt = None
  BY <1>1, HoldingFields
<1> QED
  BY <1>2, PendingFields DEF Cleared

LEMMA ClearedFits ==
  ASSUME NEW a \in App, NEW cs
  PROVE  AppFits(Cleared(a), None) /\ AttemptFits(Cleared(a), cs, {})
BY ClearedFields DEF AppFits, AttemptFits

(* Whatever held the wanted invite no longer does.                         *)
LEMMA MatchingClears ==
  ASSUME IInv, wanted # None, NEW a, NEW unavailable \in BOOLEAN,
         AppFits(a, wanted),
         \/ a = app
         \/ a.attempt = None
  PROVE  LET z == ClearedMatching(a, wanted, unavailable)
         IN AppFits(z, None) /\ z.saved = None /\ z.attempt = None
<1> DEFINE z == ClearedMatching(a, wanted, unavailable)
<1>1. a \in App
  BY DEF AppFits
<1>2. z.attempt = None
  BY DEF ClearedMatching, IInv, AttemptFits, AppFits
<1>3. z.saved = None /\ z.invite = None
  BY DEF ClearedMatching, AppFits
<1>4. z.pending # None => z.pending = a.pending /\ z.pending.credential = None
  BY DEF ClearedMatching, AppFits
<1>5. z.unavailable \in BOOLEAN
  BY <1>1 DEF ClearedMatching, App
<1>6. z \in App
  BY <1>1, <1>2, <1>3, <1>4, <1>5 DEF ClearedMatching, App
<1> QED
  BY <1>2, <1>3, <1>4, <1>6 DEF AppFits
------------------------------------------------------------------------------
(* The requests.                                                           *)
LEMMA NothingCurrent ==
  ASSUME NEW cs, NEW cur, CallsFit(cs, cur)
  PROVE  CallsFit(cs, {})
BY DEF CallsFit

LEMMA OrphanFields ==
  ASSUME NEW x \in Request \cup {None}, NEW r, NEW s
  PROVE  LET y == Orphaned(x, r, s)
         IN /\ y \in Request \cup {None} /\ (y = None <=> x = None)
            /\ x # None => y.kind = x.kind /\ y.credential = x.credential
<1>1. CASE x = None
  BY <1>1 DEF Orphaned
<1>2. CASE x # None
  <2> DEFINE y == Orphaned(x, r, s)
  <2>1. PICK l \in BOOLEAN : y = [x EXCEPT !.live = l]
    <3> DEFINE l == /\ x.live
                    /\ CASE x.kind \in {"signIn", "register"} -> r = "account" /\ ~s
                         [] x.kind = "save" -> r = "new-character"
                         [] x.kind = "join" -> r = "join-party"
                         [] x.kind = "createParty" -> r = "party"
                         [] OTHER -> FALSE
    <3>1. y = [x EXCEPT !.live = l]
      BY <1>2 DEF Orphaned
    <3>2. l \in BOOLEAN
      OBVIOUS
    <3> QED
      BY <3>1, <3>2
  <2>2. x \in Request
    BY <1>2
  <2>3. y \in Request /\ y.kind = x.kind /\ y.credential = x.credential
    BY <2>1, <2>2 DEF Request
  <2> QED
    BY <1>2, <2>3, NoneIsNoRecord
<1> QED
  BY <1>1, <1>2

LEMMA AnswerFits ==
  ASSUME IInv, NEW c \in Call, call[c] # None
  PROVE  /\ CallsFit(Answered(c), current \ {c})
         /\ call[c].kind # "autoJoin" => CallsFit(Answered(c), current)
         /\ app.attempt # c => AttemptFits(app, Answered(c), current) /\ AttemptFits(app, Answered(c), current \ {c})
BY DEF IInv, CallsFit, AttemptFits, AppFits, App, Answered

------------------------------------------------------------------------------
(* What a handler owes: fitting values, and a page of its own only if it   *)
(* is none that shows an invite.                                           *)
LEMMA KeyFields ==
  ASSUME NEW r, NEW a, NEW s, Key(r, a, s) = Key(route, app, signedIn)
  PROVE  r = route /\ (r = "join-party" => a.invite = app.invite)
<1>1. Key(r, a, s)[1] = r /\ Key(route, app, signedIn)[1] = route
  BY DEF Key
<1>2. r = "join-party" => Key(r, a, s)[3] = a.invite
  BY DEF Key
<1>3. route = "join-party" => Key(route, app, signedIn)[3] = app.invite
  BY DEF Key
<1> QED
  BY <1>1, <1>2, <1>3

LEMMA ShowKeeps ==
  ASSUME IInv, NEW p \in Page, p \notin InvitePages \/ p = page,
         NEW r \in Route, NEW a, NEW s \in BOOLEAN, NEW cs,
         NEW w \in Credential \cup {None}, NEW cur,
         AppFits(a, w), AttemptFits(a, cs, cur), CallsFit(cs, cur),
         ShowAs(p, r, a, s, cs), wanted' = w, current' = cur, restoring' \in BOOLEAN
  PROVE  IInv'
<1>1. /\ route' = r /\ seen' = seen \cup {r} /\ app' = a /\ signedIn' = s
      /\ page' = IF Key(r, a, s) = Key(route, app, signedIn) THEN p ELSE Mounted(r, a, s)
      /\ joining' = IF r = "join-party" THEN joining ELSE None
      /\ call' = [c \in Call |-> Orphaned(cs[c], r, s)]
  BY DEF ShowAs
<1>2. \A c \in Call : /\ call'[c] \in Request \cup {None} /\ (call'[c] = None <=> cs[c] = None)
                      /\ cs[c] # None => call'[c].kind = cs[c].kind /\ call'[c].credential = cs[c].credential
  BY <1>1, OrphanFields DEF CallsFit
<1>3. CallsFit(call', cur)
  BY <1>1, <1>2 DEF CallsFit
<1>4. AttemptFits(a, call', cur)
  BY <1>2 DEF AttemptFits, AppFits, App
<1>5. PageFits(page', r, a)
  <2>1. CASE Key(r, a, s) = Key(route, app, signedIn)
    BY <1>1, <2>1, KeyFields DEF IInv, PageFits
  <2>2. CASE Key(r, a, s) # Key(route, app, signedIn)
    BY <1>1, <2>2 DEF Mounted, PageFits, Page, InvitePages
  <2> QED
    BY <2>1, <2>2
<1> QED
  BY <1>1, <1>3, <1>4, <1>5 DEF IInv, AppFits, AttemptFits, CallsFit, PageFits

(* A handler that gives every invite up, for the requests cs.              *)
LEMMA ClearingKeeps ==
  ASSUME IInv, NEW p \in Page, p \notin InvitePages \/ p = page,
         NEW r \in Route, NEW s \in BOOLEAN, NEW cs, NEW cur, CallsFit(cs, cur),
         ShowAs(p, r, Cleared(app), s, cs), Want(None), restoring' \in BOOLEAN
  PROVE  IInv'
<1>1. app \in App /\ CallsFit(cs, {})
  BY NothingCurrent DEF IInv, AppFits
<1>2. wanted' = None /\ current' = {}
  BY DEF Want
<1> QED
  BY <1>1, <1>2, ClearedFits, ShowKeeps

(* A handler that leaves the invite state alone.                           *)
LEMMA StayingKeeps ==
  ASSUME IInv, NEW p \in Page, p \notin InvitePages \/ p = page,
         NEW r \in Route, NEW s \in BOOLEAN, NEW cs, CallsFit(cs, current),
         AttemptFits(app, cs, current),
         ShowAs(p, r, app, s, cs), WantAsBefore, restoring' \in BOOLEAN
  PROVE  IInv'
<1>1. wanted' = wanted /\ current' = current
  BY DEF WantAsBefore
<1> QED
  BY <1>1, ShowKeeps DEF IInv

LEMMA SendKeeps ==
  ASSUME IInv, NEW c \in Call,
         NEW kind \in {"signIn", "register", "createParty", "signOut", "save", "join"},
         NEW x \in Credential \cup {None}, kind = "join" => x # None,
         NEW p \in Page, p \notin InvitePages \/ p = page,
         Send(c, kind, x, p), joining' \in Credential \cup {None}
  PROVE  IInv'
<1> DEFINE sent == [kind |-> kind, credential |-> x, live |-> TRUE]
<1>1. /\ call[c] = None /\ call' = [call EXCEPT ![c] = sent] /\ page' = p
      /\ UNCHANGED <<route, seen, app, signedIn, restoring, wanted, current>>
  BY DEF Send, WantAsBefore
<1>2. sent \in Request /\ sent # None /\ sent.kind = kind /\ sent.credential = x
  <2>1. TRUE \in BOOLEAN
    OBVIOUS
  <2>2. sent \in Request
    BY <2>1 DEF Request
  <2> QED
    BY <2>2, NoneIsNoRecord
<1>3. call'[c] = sent /\ (\A d \in Call : d # c => call'[d] = call[d]) /\ call' \in [Call -> Request \cup {None}]
  BY <1>1, <1>2 DEF IInv, CallsFit
<1>4. CallsFit(call', current)
  BY <1>1, <1>2, <1>3 DEF IInv, CallsFit
<1>5. AttemptFits(app, call', current)
  BY <1>1, <1>3 DEF IInv, AttemptFits, AppFits, App
<1>6. PageFits(page', route, app)
  BY <1>1 DEF IInv, PageFits
<1> QED
  BY <1>1, <1>4, <1>5, <1>6 DEF IInv, AppFits, AttemptFits, CallsFit, PageFits

------------------------------------------------------------------------------
(* Invite states that handlers pass to ShowAs.                             *)
LEMMA SameAttempt ==
  ASSUME NEW a, NEW b, NEW cs, NEW cur, AttemptFits(b, cs, cur), a.saved = b.saved, a.attempt = b.attempt
  PROVE  AttemptFits(a, cs, cur)
BY DEF AttemptFits

LEMMA NoAttempt ==
  ASSUME NEW a, NEW cs, NEW cur, a.saved = None, a.attempt = None
  PROVE  AttemptFits(a, cs, cur)
BY DEF AttemptFits

LEMMA ReadyPages ==
  /\ {"ready", "busy", "saved"} \subseteq Page \ InvitePages
  /\ IInv => page \in Page
BY DEF Page, InvitePages, IInv, PageFits

(* An invite state that holds x instead of what it held.                   *)
LEMMA HoldingFits ==
  ASSUME NEW a, NEW w \in Credential \cup {None}, AppFits(a, w), NEW x \in {None, w}
  PROVE  AppFits(Holding(a, x), w)
BY HoldingFields DEF AppFits

LEMMA RestoredFits ==
  ASSUME IInv, app.pending # None, NEW cs, NEW cur, AttemptFits(app, cs, cur)
  PROVE  /\ app.pending.route \in Route
         /\ AppFits(Restored(app, app.pending), wanted)
         /\ AttemptFits(Restored(app, app.pending), cs, cur)
<1> DEFINE q == [app EXCEPT !.pending = None]
           x == app.pending.credential
<1>1. app \in App /\ app.pending \in Destination /\ x \in {None, wanted}
  BY DEF IInv, AppFits, App
<1>2. app.pending.route \in Route
  BY <1>1 DEF Destination, Route
<1>3. AppFits(q, wanted) /\ q.saved = app.saved /\ q.attempt = app.attempt
  BY <1>1, PendingFields DEF IInv, AppFits
<1>4. wanted \in Credential \cup {None}
  BY DEF IInv
<1>5. AppFits(Holding(q, x), wanted)
  BY <1>1, <1>3, <1>4, HoldingFits
<1>6. q \in App /\ x \in Credential \cup {None}
  BY <1>1, <1>3, <1>4 DEF AppFits
<1>7. Holding(q, x).saved = app.saved /\ Holding(q, x).attempt = app.attempt
  BY <1>3, <1>6, HoldingFields
<1> QED
  BY <1>2, <1>5, <1>7, SameAttempt DEF Restored
------------------------------------------------------------------------------
(* Navigation.                                                             *)
LEMMA HomeKeeps ==
  ASSUME IInv, GoHome \/ OpenJoin \/ TryAnotherCode
  PROVE  IInv'
<1>1. PICK r \in Route : /\ Show(r, Cleared(app), signedIn, call) /\ Want(None) /\ restoring' = restoring
  BY DEF GoHome, OpenJoin, TryAnotherCode, IInv, Route
<1>2. page \in Page /\ signedIn \in BOOLEAN /\ restoring' \in BOOLEAN /\ CallsFit(call, current)
  BY <1>1, ReadyPages DEF IInv
<1> QED
  BY <1>1, <1>2, ClearingKeeps DEF Show

LEMMA OpenKeeps ==
  ASSUME IInv, OpenCreation \/ \E r \in Route : OpenPage(r)
  PROVE  IInv'
<1>1. PICK r \in Route : Show(r, app, signedIn, call) /\ WantAsBefore /\ restoring' = restoring
  BY DEF OpenCreation, OpenPage, Route
<1>2. /\ page \in Page /\ signedIn \in BOOLEAN /\ restoring' \in BOOLEAN
      /\ CallsFit(call, current) /\ AttemptFits(app, call, current)
  BY <1>1, ReadyPages DEF IInv
<1> QED
  BY <1>1, <1>2, StayingKeeps DEF Show

LEMMA AccountKeeps ==
  ASSUME IInv, OpenAccount
  PROVE  IInv'
<1> DEFINE a == IF route \in {"new-character", "party"}
                THEN Authenticating(app, [route |-> route, credential |-> None])
                ELSE IF route = "join-party" /\ app.invite # None
                THEN Authenticating(app, [route |-> route, credential |-> app.invite])
                ELSE [app EXCEPT !.pending = None]
<1>1. Show("account", a, signedIn, call) /\ WantAsBefore /\ restoring' = restoring
  BY DEF OpenAccount
<1>2. /\ page \in Page /\ signedIn \in BOOLEAN /\ restoring' \in BOOLEAN /\ "account" \in Route
      /\ CallsFit(call, current) /\ AttemptFits(app, call, current)
      /\ AppFits(app, wanted) /\ app \in App /\ wanted \in Credential \cup {None}
  BY <1>1, ReadyPages DEF IInv, AppFits, Route
<1>3. ASSUME NEW d \in Destination, d.credential \in {None, wanted}
      PROVE  LET h == Authenticating(app, d)
             IN AppFits(h, wanted) /\ AttemptFits(h, call, current)
  <2> DEFINE h == Holding(app, None)
  <2>1. AppFits(h, wanted) /\ h \in App /\ h.saved = app.saved /\ h.attempt = app.attempt
    BY <1>2, HoldingFits, HoldingFields
  <2>2. LET q == [h EXCEPT !.pending = d]
        IN AppFits(q, wanted) /\ q.saved = app.saved /\ q.attempt = app.attempt
    BY <1>3, <2>1, PendingFields DEF AppFits
  <2> QED
    BY <1>2, <2>2, SameAttempt DEF Authenticating
<1>4. CASE route \in {"new-character", "party"}
  <2>1. [route |-> route, credential |-> None] \in Destination
    BY <1>4 DEF Destination
  <2> QED
    BY <1>1, <1>2, <1>3, <1>4, <2>1, ShowKeeps DEF Show, WantAsBefore
<1>5. CASE route = "join-party" /\ app.invite # None
  <2>1. [route |-> route, credential |-> app.invite] \in Destination /\ app.invite = wanted
    BY <1>2, <1>5 DEF Destination, AppFits
  <2> QED
    BY <1>1, <1>2, <1>3, <1>5, <2>1, ShowKeeps DEF Show, WantAsBefore
<1>6. CASE route \notin {"new-character", "party"} /\ ~(route = "join-party" /\ app.invite # None)
  <2>1. LET q == [app EXCEPT !.pending = None]
        IN AppFits(q, wanted) /\ q.saved = app.saved /\ q.attempt = app.attempt
    BY <1>2, PendingFields DEF AppFits
  <2>2. AttemptFits([app EXCEPT !.pending = None], call, current)
    BY <1>2, <2>1, SameAttempt
  <2> QED
    BY <1>1, <1>2, <1>6, <2>1, <2>2, ShowKeeps DEF Show, WantAsBefore
<1> QED
  BY <1>4, <1>5, <1>6

LEMMA BackKeeps ==
  ASSUME IInv, AccountBack
  PROVE  IInv'
<1>1. /\ page \in Page /\ signedIn \in BOOLEAN /\ restoring' \in BOOLEAN
      /\ {"home", "join-party"} \subseteq Route
      /\ CallsFit(call, current) /\ AttemptFits(app, call, current) /\ wanted \in Credential \cup {None}
  BY ReadyPages DEF AccountBack, IInv, Route
<1>2. CASE (\E r \in {"home", "join-party"} : Show(r, Cleared(app), signedIn, call)) /\ Want(None)
  BY <1>1, <1>2, ClearingKeeps DEF Show
<1>3. CASE app.pending # None /\ Show(app.pending.route, Restored(app, app.pending), signedIn, call) /\ WantAsBefore
  BY <1>1, <1>3, RestoredFits, ShowKeeps DEF Show, WantAsBefore
<1> QED
  BY <1>2, <1>3 DEF AccountBack

LEMMA PopKeeps ==
  ASSUME IInv, NEW r \in Route, PopState(r)
  PROVE  IInv'
<1>1. /\ page \in Page /\ signedIn \in BOOLEAN /\ restoring' \in BOOLEAN /\ wanted' = wanted
      /\ CallsFit(call, current) /\ AttemptFits(app, call, current) /\ AppFits(app, wanted)
      /\ app \in App /\ wanted \in Credential \cup {None}
  BY ReadyPages DEF PopState, IInv, AppFits
<1>2. CASE r # "join-party"
  <2> DEFINE i == Invalidated(app)
  <2>1. AppFits(i, wanted) /\ i \in App /\ i.saved = None /\ i.attempt = None
    BY <1>1, InvalidatedFields DEF AppFits
  <2>2. LET h == Holding(i, None) IN AppFits(h, wanted) /\ h.saved = None /\ h.attempt = None
    BY ZenonT(60), <1>1, <2>1, HoldingFits, HoldingFields
  <2>3. AttemptFits(Holding(i, None), call, {}) /\ CallsFit(call, {})
    BY <1>1, <2>2, NoAttempt, NothingCurrent
  <2>4. Show(r, Holding(i, None), signedIn, call) /\ current' = {}
    BY <1>2 DEF PopState
  <2> QED
    BY <1>1, <2>2, <2>3, <2>4, ShowKeeps DEF Show
<1>3. CASE r = "join-party" /\ app.pending # None /\ app.pending.route = r
  <2> DEFINE x == app.pending.credential
  <2>1. x \in {None, wanted} /\ x \in Credential \cup {None}
    BY <1>1, <1>3 DEF AppFits
  <2>2. LET h == Holding(app, x) IN AppFits(h, wanted) /\ h.saved = app.saved /\ h.attempt = app.attempt
    BY <1>1, <2>1, HoldingFits, HoldingFields
  <2>3. AttemptFits(Holding(app, x), call, current)
    BY <1>1, <2>2, SameAttempt
  <2>4. Show(r, Holding(app, x), signedIn, call) /\ current' = current
    BY <1>3 DEF PopState
  <2> QED
    BY <1>1, <2>2, <2>3, <2>4, ShowKeeps DEF Show
<1>4. CASE r = "join-party" /\ ~(app.pending # None /\ app.pending.route = r)
  <2>1. Show(r, app, signedIn, call) /\ current' = current
    BY <1>4 DEF PopState
  <2> QED
    BY <1>1, <2>1, ShowKeeps DEF Show
<1> QED
  BY <1>2, <1>3, <1>4

(* Another invite takes the place of the old one.                          *)
LEMMA ReplacingKeeps ==
  ASSUME IInv, NEW x \in Credential \cup {None}, NEW u \in BOOLEAN, u => x = None, NEW a,
         \/ a = [Holding(Invalidated(app), x) EXCEPT !.pending = None, !.unavailable = u]
         \/ a = [Holding(Invalidated(app), x) EXCEPT !.pending = None],
         Show(route, a, signedIn, call), Want(x), restoring' = restoring
  PROVE  IInv'
<1>1. /\ page \in Page /\ signedIn \in BOOLEAN /\ restoring' \in BOOLEAN /\ route \in Route
      /\ CallsFit(call, {}) /\ app \in App
  BY ReadyPages, NothingCurrent DEF IInv, AppFits
<1> DEFINE h == Holding(Invalidated(app), x)
<1>2. h \in App /\ h.invite = x /\ h.unavailable = FALSE /\ h.saved = None /\ h.attempt = None
  <2>1. LET i == Invalidated(app) IN i \in App /\ i.saved = None /\ i.attempt = None
    BY <1>1, InvalidatedFields
  <2> QED
    BY <2>1, HoldingFields
<1>3. /\ a \in App /\ a.invite = x /\ a.pending = None /\ a.unavailable \in {FALSE, u}
      /\ a.saved = None /\ a.attempt = None
  BY <1>2 DEF App
<1>4. AppFits(a, x) /\ AttemptFits(a, call, {})
  BY <1>3 DEF AppFits, AttemptFits
<1> QED
  BY <1>1, <1>4, ShowKeeps DEF Show, Want

LEMMA LinkKeeps ==
  ASSUME IInv, NEW t \in Token \cup {None}, NEW fragment \in BOOLEAN, FollowLink(t, fragment)
  PROVE  IInv'
<1> DEFINE u == t = None /\ fragment
<1>1. u \in BOOLEAN /\ (u => t = None) /\ t \in Credential \cup {None}
  BY DEF Credential
<1>2. /\ Show(route, [Holding(Invalidated(app), t) EXCEPT !.pending = None, !.unavailable = u], signedIn, call)
      /\ Want(t) /\ restoring' = restoring
  BY DEF FollowLink
<1> QED
  BY <1>1, <1>2, ReplacingKeeps

LEMMA CodeKeeps ==
  ASSUME IInv, NEW k \in Code, SubmitCode(k)
  PROVE  IInv'
BY ReplacingKeeps DEF SubmitCode, Credential

------------------------------------------------------------------------------
(* Accounts.                                                               *)
LEMMA RestoreKeeps ==
  ASSUME IInv, NEW found \in BOOLEAN, Restore(found)
  PROVE  IInv'
<1>1. /\ page \in Page /\ (signedIn \/ found) \in BOOLEAN /\ restoring' \in BOOLEAN /\ route \in Route
      /\ CallsFit(call, current) /\ AttemptFits(app, call, current)
  BY ReadyPages DEF IInv, Restore
<1>2. Show(route, app, signedIn \/ found, call) /\ WantAsBefore
  BY DEF Restore
<1> QED
  BY <1>1, <1>2, StayingKeeps DEF Show

LEMMA SignInKeeps ==
  ASSUME IInv, NEW c \in Call, SignInSucceeds(c)
  PROVE  IInv'
<1>1. call[c] # None /\ call[c].kind = "signIn"
  BY DEF SignInSucceeds, OfKind
<1>2. CallsFit(Answered(c), current) /\ AttemptFits(app, Answered(c), current)
  BY <1>1, AnswerFits DEF IInv, AttemptFits
<1>3. /\ page \in Page /\ TRUE \in BOOLEAN /\ restoring' \in BOOLEAN /\ "home" \in Route
      /\ wanted \in Credential \cup {None} /\ AppFits(app, wanted) /\ app \in App
      /\ wanted' = wanted /\ current' = current
  BY ReadyPages DEF IInv, SignInSucceeds, Route, WantAsBefore, AppFits
<1>4. CASE app.pending = None
  <2>1. LET h == Holding(app, None) IN AppFits(h, wanted) /\ h.saved = app.saved /\ h.attempt = app.attempt
    BY <1>3, HoldingFits, HoldingFields
  <2>2. AttemptFits(Holding(app, None), Answered(c), current)
    BY <1>2, <2>1, SameAttempt
  <2>3. Show("home", Holding(app, None), TRUE, Answered(c))
    BY <1>4 DEF SignInSucceeds
  <2> QED
    BY <1>2, <1>3, <2>1, <2>2, <2>3, ShowKeeps DEF Show
<1>5. CASE app.pending # None
  <2>1. Show(app.pending.route, Restored(app, app.pending), TRUE, Answered(c))
    BY <1>5 DEF SignInSucceeds
  <2> QED
    BY <1>2, <1>3, <1>5, <2>1, RestoredFits, ShowKeeps DEF Show
<1> QED
  BY <1>4, <1>5

LEMMA AccountFailsKeeps ==
  ASSUME IInv, NEW c \in Call, AccountFails(c)
  PROVE  IInv'
<1> DEFINE p == IF call[c].live THEN "ready" ELSE page
           waiting == app.pending # None /\ app.pending.route = "join-party"
           h == Holding(app, None)
           q == [h EXCEPT !.pending = None]
<1>1. call[c] # None /\ call[c].kind \in {"signIn", "register"}
  BY DEF AccountFails, OfKind
<1>2. CallsFit(Answered(c), current) /\ AttemptFits(app, Answered(c), current)
  BY <1>1, AnswerFits DEF IInv, AttemptFits
<1>3. /\ p \in Page /\ (p \notin InvitePages \/ p = page)
      /\ signedIn \in BOOLEAN /\ restoring' \in BOOLEAN /\ route \in Route
      /\ wanted \in Credential \cup {None} /\ AppFits(app, wanted) /\ app \in App
  BY ReadyPages DEF IInv, AccountFails, AppFits
<1>4. CASE waiting
  <2>1. /\ AppFits(h, wanted) /\ h \in App /\ h.saved = app.saved /\ h.attempt = app.attempt
        /\ h.invite = None /\ h.unavailable = FALSE
    <3>1. AppFits(h, wanted)
      BY <1>3, HoldingFits
    <3>2. app \in App
      BY <1>3
    <3> QED
      BY ZenonT(60), <3>1, <3>2, HoldingFields
  <2>2. /\ AppFits(q, wanted) /\ q.saved = app.saved /\ q.attempt = app.attempt
        /\ q.invite = None /\ q.pending = None /\ q \in App /\ ~q.unavailable
    BY <2>1, PendingFields DEF AppFits
  <2>3. ShowAs(p, route, q, signedIn, Answered(c))
    BY <1>4 DEF AccountFails
  <2>4. CASE app.saved = None /\ Want(None)
    <3>1. AppFits(q, None) /\ q.saved = None /\ q.attempt = None
      BY <1>2, <2>2, <2>4 DEF AppFits, AttemptFits
    <3>2. AttemptFits(q, Answered(c), {}) /\ CallsFit(Answered(c), {})
      BY <1>2, <3>1, NoAttempt, NothingCurrent
    <3> QED
      BY <1>3, <2>3, <2>4, <3>1, <3>2, ShowKeeps DEF Want
  <2>5. CASE WantAsBefore
    <3>1. AttemptFits(q, Answered(c), current)
      BY <1>2, <2>2, SameAttempt
    <3> QED
      BY <1>2, <1>3, <2>2, <2>3, <2>5, <3>1, ShowKeeps DEF WantAsBefore
  <2> QED
    BY <1>4, <2>4, <2>5 DEF AccountFails
<1>5. CASE ~waiting
  <2>1. ShowAs(p, route, app, signedIn, Answered(c)) /\ WantAsBefore
    BY <1>5 DEF AccountFails
  <2> QED
    BY <1>2, <1>3, <2>1, StayingKeeps
<1> QED
  BY <1>4, <1>5

(* Answers after which the invite state is either kept or cleared.         *)
LEMMA PlainAnswersKeep ==
  ASSUME IInv, NEW c \in Call,
         RegistrationSucceeds(c) \/ SignOutEnds(c) \/ SaveFails(c) \/ CreatePartyEnds(c)
  PROVE  IInv'
<1>1. call[c] # None /\ call[c].kind \in {"register", "signOut", "save", "createParty"}
  BY DEF RegistrationSucceeds, SignOutEnds, SaveFails, CreatePartyEnds, OfKind
<1>2. CallsFit(Answered(c), current) /\ AttemptFits(app, Answered(c), current)
  BY <1>1, AnswerFits DEF IInv, AttemptFits
<1>3. restoring' \in BOOLEAN /\ route \in Route /\ {"account", "home", "party"} \subseteq Route /\ page \in Page
  BY ReadyPages DEF RegistrationSucceeds, SignOutEnds, SaveFails, CreatePartyEnds, IInv, Route
<1>4. PICK p \in {"ready", page}, r \in Route, s \in BOOLEAN :
        \/ ShowAs(p, r, Cleared(app), s, Answered(c)) /\ Want(None)
        \/ ShowAs(p, r, app, s, Answered(c)) /\ WantAsBefore
  <2>1. CASE RegistrationSucceeds(c)
    BY <1>3, <2>1 DEF RegistrationSucceeds, IInv
  <2>2. CASE SignOutEnds(c)
    BY <1>3, <2>2 DEF SignOutEnds, Show, IInv
  <2>3. CASE SaveFails(c)
    BY <1>3, <2>3 DEF SaveFails, IInv
  <2>4. CASE CreatePartyEnds(c)
    BY <1>3, <2>4 DEF CreatePartyEnds, IInv
  <2> QED
    BY <2>1, <2>2, <2>3, <2>4
<1>5. p \in Page /\ (p \notin InvitePages \/ p = page)
  BY <1>3, ReadyPages
<1> QED
  BY <1>2, <1>3, <1>4, <1>5, ClearingKeeps, StayingKeeps

------------------------------------------------------------------------------
(* The join page.                                                          *)
LEMMA LoadKeeps ==
  ASSUME IInv, (\E p \in Page : LoadEnds(p)) \/ RetryLoad
  PROVE  IInv'
<1>1. CASE \E p \in Page : LoadEnds(p)
  <2>1. /\ page = "loading" /\ page' \in {"form", "empty", "error"}
        /\ UNCHANGED <<route, seen, app, signedIn, joining, restoring, call, wanted, current>>
    BY <1>1 DEF LoadEnds, WantAsBefore
  <2>2. PageFits(page', route, app)
    BY <2>1 DEF IInv, PageFits, Page, InvitePages
  <2> QED
    BY <2>1, <2>2 DEF IInv, AppFits, AttemptFits, CallsFit, PageFits
<1>2. CASE RetryLoad
  <2>1. /\ page = "error" /\ page' = "loading" /\ joining' = None
        /\ call' = [c \in Call |-> IF OfKind(c, {"join"}) THEN [call[c] EXCEPT !.live = FALSE] ELSE call[c]]
        /\ UNCHANGED <<route, seen, app, signedIn, restoring, wanted, current>>
    BY <1>2 DEF RetryLoad, WantAsBefore
  <2>2. \A c \in Call : /\ call'[c] \in Request \cup {None} /\ (call'[c] = None <=> call[c] = None)
                        /\ call[c] # None => call'[c].kind = call[c].kind /\ call'[c].credential = call[c].credential
    <3> SUFFICES ASSUME NEW c \in Call
                 PROVE  /\ call'[c] \in Request \cup {None} /\ (call'[c] = None <=> call[c] = None)
                        /\ call[c] # None => call'[c].kind = call[c].kind /\ call'[c].credential = call[c].credential
      OBVIOUS
    <3>1. CASE OfKind(c, {"join"})
      <4>1. call[c] \in Request /\ call[c] # None
        BY <3>1 DEF OfKind, IInv, CallsFit
      <4>2. call'[c] = [call[c] EXCEPT !.live = FALSE]
        BY <2>1, <3>1
      <4>3. call'[c] \in Request /\ call'[c].kind = call[c].kind /\ call'[c].credential = call[c].credential
        BY <4>1, <4>2 DEF Request
      <4> QED
        BY <4>1, <4>3, NoneIsNoRecord
    <3>2. CASE ~OfKind(c, {"join"})
      BY <2>1, <3>2 DEF IInv, CallsFit
    <3> QED
      BY <3>1, <3>2
  <2>3. CallsFit(call', current)
    BY <2>1, <2>2 DEF IInv, CallsFit
  <2>4. AttemptFits(app, call', current)
    BY <2>2 DEF IInv, AttemptFits, AppFits, App
  <2>5. PageFits(page', route, app)
    BY <2>1 DEF IInv, PageFits, Page, InvitePages
  <2> QED
    BY <2>1, <2>3, <2>4, <2>5 DEF IInv, AppFits, AttemptFits, CallsFit, PageFits
<1> QED
  BY <1>1, <1>2

LEMMA UnavailableKeeps ==
  ASSUME IInv, LoadFindsUnavailable
  PROVE  IInv'
<1>1. /\ page \in Page /\ signedIn \in BOOLEAN /\ restoring' \in BOOLEAN /\ route \in Route
      /\ CallsFit(call, {}) /\ AppFits(app, wanted)
  BY ReadyPages, NothingCurrent DEF IInv, LoadFindsUnavailable
<1>2. app.invite = wanted /\ wanted # None
  BY <1>1 DEF LoadFindsUnavailable, IInv, PageFits, InvitePages, AppFits
<1> DEFINE z == ClearedMatching(app, wanted, TRUE)
<1>3. AppFits(z, None) /\ z.saved = None /\ z.attempt = None
  BY <1>1, <1>2, MatchingClears
<1>4. AttemptFits(z, call, {})
  BY <1>3, NoAttempt
<1>5. Show(route, z, signedIn, call) /\ wanted' = None /\ current' = {}
  BY <1>2 DEF LoadFindsUnavailable, Want
<1> QED
  BY <1>1, <1>3, <1>4, <1>5, ShowKeeps DEF Show

LEMMA JoinSucceedsKeeps ==
  ASSUME IInv, NEW c \in Call, JoinSucceeds(c)
  PROVE  IInv'
<1>1. call[c] # None /\ call[c].kind = "join"
  BY DEF JoinSucceeds, OfKind
<1>2. CallsFit(Answered(c), current) /\ AttemptFits(app, Answered(c), current)
  BY <1>1, AnswerFits DEF IInv, AttemptFits
<1>3. CASE Matches(c)
  <2>1. Show("party", Cleared(app), signedIn, Answered(c)) /\ Want(None) /\ restoring' = restoring
    BY <1>3 DEF JoinSucceeds
  <2>2. page \in Page /\ signedIn \in BOOLEAN /\ restoring' \in BOOLEAN /\ "party" \in Route
    BY <2>1, ReadyPages DEF IInv, Route
  <2> QED
    BY <1>2, <2>1, <2>2, ClearingKeeps DEF Show
<1>4. CASE ~Matches(c)
  <2>1. /\ call' = Answered(c) /\ joining' = Unlocked(c)
        /\ UNCHANGED <<route, seen, app, signedIn, page, wanted, current, restoring>>
    BY <1>4 DEF JoinSucceeds, WantAsBefore
  <2>2. joining' \in Credential \cup {None}
    BY <2>1 DEF Unlocked, IInv
  <2> QED
    BY <1>2, <2>1, <2>2 DEF IInv, AppFits, AttemptFits, CallsFit, PageFits
<1> QED
  BY <1>3, <1>4

LEMMA JoinFailsKeeps ==
  ASSUME IInv, NEW c \in Call, NEW unavailable \in BOOLEAN, JoinFails(c, unavailable)
  PROVE  IInv'
<1>1. /\ call[c] # None /\ call[c].kind = "join" /\ call' = Answered(c) /\ joining' = Unlocked(c)
      /\ UNCHANGED <<route, seen, signedIn, restoring>>
  BY DEF JoinFails, OfKind
<1>2. CallsFit(Answered(c), current) /\ AttemptFits(app, Answered(c), current)
  BY <1>1, AnswerFits DEF IInv, AttemptFits
<1>3. joining' \in Credential \cup {None}
  BY <1>1 DEF Unlocked, IInv
<1>4. CASE Matches(c) /\ unavailable
  <2>1. app.invite = wanted /\ wanted # None
    BY <1>1, <1>4 DEF Matches, IInv, CallsFit, AppFits
  <2> DEFINE z == ClearedMatching(app, wanted, TRUE)
  <2>2. app' = z /\ page' = Mounted(route, z, signedIn) /\ wanted' = None /\ current' = {}
    BY <1>4, <2>1 DEF JoinFails, Want
  <2>3. AppFits(z, None) /\ z.saved = None /\ z.attempt = None
    BY <2>1, MatchingClears DEF IInv
  <2>4. AttemptFits(z, Answered(c), {}) /\ CallsFit(Answered(c), {})
    BY <1>2, <2>3, NoAttempt, NothingCurrent
  <2>5. PageFits(page', route, z)
    BY <2>2 DEF Mounted, PageFits, Page, InvitePages
  <2> QED
    BY <1>1, <1>3, <2>2, <2>3, <2>4, <2>5 DEF IInv, AppFits, AttemptFits, CallsFit, PageFits
<1>5. CASE ~(Matches(c) /\ unavailable)
  <2>1. UNCHANGED <<app, page, wanted, current>>
    BY <1>5 DEF JoinFails, WantAsBefore
  <2> QED
    BY <1>1, <1>2, <1>3, <2>1 DEF IInv, AppFits, AttemptFits, CallsFit, PageFits
<1> QED
  BY <1>4, <1>5

------------------------------------------------------------------------------
(* The automatic join.                                                     *)
LEMMA StartKeeps ==
  ASSUME IInv, NEW c \in Call, NEW x \in Credential, app.invite = x, StartJoin(c, x), restoring' = restoring
  PROVE  IInv'
<1> DEFINE attempt == [kind |-> "autoJoin", credential |-> x, live |-> FALSE]
           join == [credential |-> x, status |-> "joining"]
           a == [app EXCEPT !.attempt = c, !.saved = join]
           cs == [call EXCEPT ![c] = attempt]
<1>1. /\ ShowAs(page, "join-party", a, signedIn, cs)
      /\ current' = current \cup {c} /\ wanted' = wanted
  BY DEF StartJoin, Show
<1>2. attempt \in Request /\ attempt # None /\ attempt.kind = "autoJoin" /\ attempt.credential = x
  <2>1. FALSE \in BOOLEAN
    OBVIOUS
  <2>2. attempt \in Request
    BY <2>1 DEF Request
  <2> QED
    BY <2>2, NoneIsNoRecord
<1>3. join \in SavedJoin /\ join # None /\ join.status = "joining" /\ join.credential = x
  <2>1. join \in SavedJoin
    BY DEF SavedJoin
  <2> QED
    BY <2>1, NoneIsNoRecord
<1>4. AppFits(app, wanted) /\ app \in App /\ x = wanted /\ x # None
  BY CredentialAssumption DEF IInv, AppFits
<1>5. /\ a \in App /\ a.attempt = c /\ a.saved = join /\ a.invite = app.invite
      /\ a.unavailable = app.unavailable /\ a.pending = app.pending
  BY <1>3, <1>4 DEF App
<1>6. AppFits(a, wanted)
  BY <1>3, <1>4, <1>5 DEF AppFits
<1>7. cs[c] = attempt /\ cs \in [Call -> Request \cup {None}] /\ \A d \in Call : d # c => cs[d] = call[d]
  BY <1>2 DEF IInv, CallsFit
<1>8. CallsFit(cs, current \cup {c})
  BY <1>2, <1>7 DEF IInv, CallsFit
<1>9. AttemptFits(a, cs, current \cup {c})
  BY <1>2, <1>3, <1>5, <1>7, CallAssumption DEF AttemptFits
<1>10. /\ page \in Page /\ "join-party" \in Route /\ signedIn \in BOOLEAN /\ restoring' \in BOOLEAN
       /\ wanted \in Credential \cup {None}
  BY ReadyPages DEF IInv, Route
<1> QED
  BY <1>1, <1>6, <1>8, <1>9, <1>10, ShowKeeps

LEMMA SaveSucceedsKeeps ==
  ASSUME IInv, NEW c \in Call, SaveSucceeds(c)
  PROVE  IInv'
<1> DEFINE source == call[c].credential
           p == IF call[c].live THEN "saved" ELSE page
<1>1. call[c] # None /\ call[c].kind = "save" /\ restoring' = restoring
  BY DEF SaveSucceeds, OfKind
<1>2. CallsFit(Answered(c), current) /\ AttemptFits(app, Answered(c), current)
  BY <1>1, AnswerFits DEF IInv, AttemptFits
<1>3. /\ page \in Page /\ p \in Page /\ (p \notin InvitePages \/ p = page) /\ signedIn \in BOOLEAN
      /\ restoring' \in BOOLEAN /\ route \in Route /\ "character" \in Route
  BY <1>1, ReadyPages DEF IInv, Route
<1>4. CASE source = None
  <2>1. ShowAs(page, "character", app, signedIn, Answered(c)) /\ WantAsBefore
    BY <1>4 DEF SaveSucceeds, Show
  <2> QED
    BY <1>2, <1>3, <2>1, StayingKeeps
<1>5. CASE source # None /\ app.invite = source
  <2>1. StartJoin(c, source)
    BY <1>5 DEF SaveSucceeds
  <2>2. source \in Credential
    BY <1>1, <1>5 DEF IInv, CallsFit, Request
  <2> QED
    BY <1>1, <1>5, <2>1, <2>2, StartKeeps
<1>6. CASE source # None /\ app.invite # source
  <2>1. ShowAs(p, route, app, signedIn, Answered(c)) /\ WantAsBefore
    BY <1>6 DEF SaveSucceeds
  <2> QED
    BY <1>2, <1>3, <2>1, StayingKeeps
<1> QED
  BY <1>4, <1>5, <1>6

LEMMA RetryKeeps ==
  ASSUME IInv, NEW c \in Call, RetryAutoJoin(c)
  PROVE  IInv'
<1>1. app.saved # None /\ app.saved.credential = app.invite /\ StartJoin(c, app.saved.credential) /\ restoring' = restoring
  BY DEF RetryAutoJoin, JoinShown
<1>2. app.saved.credential \in Credential
  BY <1>1 DEF IInv, AppFits, App, SavedJoin
<1> QED
  BY <1>1, <1>2, StartKeeps

LEMMA AutoJoinKeeps ==
  ASSUME IInv, NEW c \in Call, AutoJoinSucceeds(c) \/ \E unavailable \in BOOLEAN : AutoJoinFails(c, unavailable)
  PROVE  IInv'
<1> DEFINE ended == [app EXCEPT !.attempt = None]
           failed == [ended EXCEPT !.saved.status = "error"]
<1>1. call[c] # None /\ call[c].kind = "autoJoin" /\ restoring' = restoring
  BY DEF AutoJoinSucceeds, AutoJoinFails, OfKind
<1>2. CallsFit(Answered(c), current \ {c}) /\ CallsFit(Answered(c), {})
  BY <1>1, AnswerFits, NothingCurrent
<1>3. /\ page \in Page /\ signedIn \in BOOLEAN /\ restoring' \in BOOLEAN /\ route \in Route /\ "party" \in Route
      /\ wanted \in Credential \cup {None} /\ AppFits(app, wanted) /\ app \in App
  BY <1>1, ReadyPages DEF IInv, Route, AppFits
<1>4. CASE app.attempt # c
  <2>1. /\ call' = Answered(c) /\ current' = current \ {c}
        /\ UNCHANGED <<route, seen, app, signedIn, page, joining, wanted, restoring>>
    BY <1>4 DEF AutoJoinSucceeds, AutoJoinFails
  <2>2. AttemptFits(app, Answered(c), current \ {c})
    BY <1>1, <1>4, AnswerFits
  <2> QED
    BY <1>2, <2>1, <2>2 DEF IInv, AppFits, AttemptFits, CallsFit, PageFits
<1>5. CASE app.attempt = c
  <2>1. /\ app.saved # None /\ app.saved.status = "joining" /\ app.saved \in SavedJoin
        /\ call[c].credential = app.saved.credential /\ app.saved.credential = wanted
    BY <1>3, <1>5, CallAssumption DEF IInv, AttemptFits, AppFits, App
  <2>2. wanted # None /\ wanted \in Credential
    BY <2>1, CredentialAssumption DEF SavedJoin
  <2>3. /\ ended \in App /\ ended.attempt = None /\ ended.saved = app.saved /\ ended.invite = app.invite
        /\ ended.pending = app.pending /\ ended.unavailable = app.unavailable
    BY <1>3 DEF App
  <2>4. AppFits(ended, wanted)
    BY <1>3, <2>3 DEF AppFits
  <2>5. CASE AutoJoinSucceeds(c)
    <3>1. ShowAs(page, "party", Cleared(app), signedIn, Answered(c)) /\ Want(None)
      BY <1>5, <2>5 DEF AutoJoinSucceeds, Show
    <3> QED
      BY <1>2, <1>3, <3>1, ClearingKeeps
  <2>6. CASE AutoJoinFails(c, TRUE)
    <3> DEFINE z == ClearedMatching(ended, wanted, TRUE)
    <3>1. ShowAs(page, route, z, signedIn, Answered(c)) /\ wanted' = None /\ current' = {}
      BY <1>5, <2>1, <2>6 DEF AutoJoinFails, Show, Want
    <3>2. AppFits(z, None) /\ z.saved = None /\ z.attempt = None
      BY <2>2, <2>3, <2>4, MatchingClears
    <3>3. AttemptFits(z, Answered(c), {})
      BY <3>2, NoAttempt
    <3> QED
      BY <1>2, <1>3, <3>1, <3>2, <3>3, ShowKeeps
  <2>7. CASE AutoJoinFails(c, FALSE)
    <3>1. ShowAs(page, route, failed, signedIn, Answered(c)) /\ current' = current \ {c} /\ wanted' = wanted
      BY <1>5, <2>7 DEF AutoJoinFails, Show
    <3>2. /\ failed.saved = [app.saved EXCEPT !.status = "error"] /\ failed.attempt = None
          /\ failed.invite = app.invite /\ failed.pending = app.pending /\ failed.unavailable = app.unavailable
      BY <1>3, <2>3 DEF App
    <3>3. failed.saved \in SavedJoin /\ failed.saved.status = "error" /\ failed.saved.credential = wanted
      BY <2>1, <3>2 DEF SavedJoin
    <3>4. failed \in App
      BY <2>3, <3>3 DEF App
    <3>5. AppFits(failed, wanted) /\ AttemptFits(failed, Answered(c), current \ {c})
      BY <1>3, <3>2, <3>3, <3>4 DEF AppFits, AttemptFits
    <3> QED
      BY <1>2, <1>3, <3>1, <3>5, ShowKeeps
  <2> QED
    BY <2>5, <2>6, <2>7
<1> QED
  BY <1>4, <1>5

------------------------------------------------------------------------------
LEMMA SubmitKeeps ==
  ASSUME IInv, NEW c \in Call, Submit(c)
  PROVE  IInv'
<1>1. /\ "busy" \in Page \ InvitePages /\ page \in Page
      /\ joining \in Credential \cup {None} /\ app.invite \in Credential \cup {None}
  BY ReadyPages DEF IInv, AppFits, App
<1>2. CASE SubmitAccount(c, "signIn") \/ SubmitAccount(c, "register")
  BY <1>1, <1>2, SendKeeps DEF SubmitAccount
<1>3. CASE SubmitSignOut(c)
  BY <1>1, <1>3, SendKeeps DEF SubmitSignOut
<1>4. CASE SubmitJoin(c)
  <2>1. page = "form" /\ Send(c, "join", app.invite, page) /\ joining' = app.invite
    BY <1>4 DEF SubmitJoin
  <2>2. app.invite # None
    BY <2>1 DEF IInv, PageFits, InvitePages
  <2> QED
    BY <1>1, <2>1, <2>2, SendKeeps
<1>5. CASE SubmitSave(c)
  BY <1>1, <1>5, SendKeeps DEF SubmitSave
<1>6. CASE SubmitParty(c)
  BY <1>1, <1>6, SendKeeps DEF SubmitParty
<1>7. CASE RetryAutoJoin(c)
  BY <1>7, RetryKeeps
<1> QED
  BY <1>2, <1>3, <1>4, <1>5, <1>6, <1>7 DEF Submit

LEMMA InitGood == Init => IInv
<1> SUFFICES ASSUME Init PROVE IInv
  OBVIOUS
<1>1. /\ route \in Route /\ seen = {route} /\ signedIn = FALSE /\ restoring = TRUE /\ joining = None
      /\ current = {} /\ call = [c \in Call |-> None] /\ wanted \in Credential \cup {None}
  BY DEF Init, Credential
<1>2. app = [invite |-> wanted, unavailable |-> FALSE, pending |-> None, saved |-> None, attempt |-> None]
  BY DEF Init
<1>3. app \in App
  BY <1>1, <1>2 DEF App
<1>4. AppFits(app, wanted) /\ AttemptFits(app, call, current) /\ CallsFit(call, current)
  BY <1>1, <1>2, <1>3 DEF AppFits, AttemptFits, CallsFit
<1>5. PageFits(page, route, app)
  BY <1>1 DEF Init, Mounted, PageFits, Page, InvitePages
<1> QED
  BY <1>1, <1>4, <1>5 DEF IInv

LEMMA StepKeeps ==
  ASSUME IInv, [Next]_vars
  PROVE  IInv'
<1>1. CASE Navigate
  BY <1>1, HomeKeeps, OpenKeeps, AccountKeeps, BackKeeps, PopKeeps, LinkKeeps, CodeKeeps DEF Navigate
<1>2. CASE \E found \in BOOLEAN : Restore(found)
  BY <1>2, RestoreKeeps
<1>3. CASE (\E p \in Page : LoadEnds(p)) \/ RetryLoad
  BY <1>3, LoadKeeps
<1>4. CASE LoadFindsUnavailable
  BY <1>4, UnavailableKeeps
<1>5. ASSUME NEW c \in Call, Submit(c) PROVE IInv'
  BY <1>5, SubmitKeeps
<1>6. ASSUME NEW c \in Call, Answer(c) PROVE IInv'
  BY <1>6, SignInKeeps, AccountFailsKeeps, PlainAnswersKeep, JoinSucceedsKeeps, JoinFailsKeeps,
     SaveSucceedsKeeps, AutoJoinKeeps DEF Answer
<1>7. CASE UNCHANGED vars
  BY <1>7 DEF vars, IInv, AppFits, AttemptFits, CallsFit, PageFits
<1> QED
  BY <1>1, <1>2, <1>3, <1>4, <1>5, <1>6, <1>7 DEF Next

(* A handler answers no request but its own.                               *)
LEMMA ShowAnswers ==
  ASSUME NEW p, NEW r, NEW a, NEW s, NEW cs, NEW c \in Call,
         cs[c] \in Request, ShowAs(p, r, a, s, cs)
  PROVE  call'[c] # None
<1>1. call'[c] = Orphaned(cs[c], r, s)
  BY DEF ShowAs
<1> QED
  BY <1>1, OrphanFields, NoneIsNoRecord

LEMMA OthersStay ==
  ASSUME IInv, NEW c \in Call, call[c] # None, NEW d \in Call, d # c
  PROVE  call[c] \in Request /\ Answered(d)[c] = call[c]
BY DEF IInv, CallsFit, Answered

LEMMA StartAnswers ==
  ASSUME IInv, NEW c \in Call, call[c] # None, NEW d \in Call,
         NEW x \in Credential \cup {None}, StartJoin(d, x)
  PROVE  call'[c] # None
<1> DEFINE attempt == [kind |-> "autoJoin", credential |-> x, live |-> FALSE]
           cs == [call EXCEPT ![d] = attempt]
<1>1. PICK a : ShowAs(page, "join-party", a, signedIn, cs)
  BY DEF StartJoin, Show
<1>2. CASE c # d
  <2>1. cs[c] \in Request
    BY <1>2 DEF IInv, CallsFit
  <2> QED
    BY <1>1, <2>1, ShowAnswers
<1>3. CASE c = d
  <2>1. FALSE \in BOOLEAN
    OBVIOUS
  <2>2. attempt \in Request
    BY <2>1 DEF Request
  <2>3. cs[c] \in Request
    BY <1>3, <2>2 DEF IInv, CallsFit
  <2> QED
    BY <1>1, <2>3, ShowAnswers
<1> QED
  BY <1>2, <1>3

LEMMA StaleStep ==
  ASSUME IInv, [Next]_vars, NEW c \in Call, OfKind(c, {"autoJoin"}), c \notin current, call'[c] = None
  PROVE  UNCHANGED <<route, app, page>>
<1>1. call[c] # None /\ call[c].kind = "autoJoin" /\ call[c] \in Request
  BY DEF OfKind, IInv, CallsFit
<1>2. app.attempt # c
  BY CallAssumption DEF IInv, AttemptFits
<1>3. ~Navigate /\ ~LoadFindsUnavailable /\ \A found \in BOOLEAN : ~Restore(found)
  BY <1>1, ShowAnswers DEF Navigate, GoHome, OpenJoin, OpenCreation, OpenAccount, AccountBack, TryAnotherCode,
     OpenPage, PopState, FollowLink, SubmitCode, LoadFindsUnavailable, Restore, Show
<1>4. ~RetryLoad /\ \A p \in Page : ~LoadEnds(p)
  <2>1. ~RetryLoad
    BY <1>1 DEF RetryLoad, OfKind
  <2> QED
    BY <1>1, <2>1 DEF LoadEnds
<1>5. ASSUME NEW d \in Call, Submit(d) PROVE FALSE
  <2>1. ASSUME NEW kind, NEW x, NEW p, Send(d, kind, x, p) PROVE FALSE
    BY <1>1, <2>1 DEF Send, IInv, CallsFit
  <2>2. ASSUME RetryAutoJoin(d) PROVE FALSE
    <3>1. app.saved.credential \in Credential
      BY <2>2 DEF RetryAutoJoin, JoinShown, IInv, AppFits, App, SavedJoin
    <3> QED
      BY <1>1, <2>2, <3>1, StartAnswers DEF RetryAutoJoin
  <2> QED
    BY <1>5, <2>1, <2>2 DEF Submit, SubmitAccount, SubmitSignOut, SubmitJoin, SubmitSave, SubmitParty
<1>6. ASSUME NEW d \in Call, Answer(d) PROVE d = c
  <2> SUFFICES ASSUME d # c PROVE FALSE
    OBVIOUS
  <2>1. Answered(d)[c] \in Request
    BY <1>1, OthersStay
  <2>2. call' # Answered(d) /\ \A p, r, a, s : ~ShowAs(p, r, a, s, Answered(d))
    BY <1>1, <2>1, ShowAnswers, OthersStay
  <2>3. ASSUME NEW x \in Credential \cup {None}, StartJoin(d, x) PROVE FALSE
    BY <1>1, <2>3, StartAnswers
  <2>4. OfKind(d, {"save"}) => call[d].credential \in Credential \cup {None}
    BY DEF OfKind, IInv, CallsFit, Request
  <2> QED
    BY <1>6, <2>2, <2>3, <2>4 DEF Answer, Show, SignInSucceeds, RegistrationSucceeds, AccountFails, SignOutEnds,
       JoinSucceeds, SaveSucceeds, SaveFails, AutoJoinSucceeds, CreatePartyEnds, JoinFails, AutoJoinFails
<1>7. ASSUME Answer(c) PROVE UNCHANGED <<route, app, page>>
  <2>1. AutoJoinSucceeds(c) \/ \E unavailable \in BOOLEAN : AutoJoinFails(c, unavailable)
    BY <1>1, <1>7 DEF Answer, OfKind, SignInSucceeds, RegistrationSucceeds, AccountFails, SignOutEnds,
       JoinSucceeds, SaveSucceeds, SaveFails, CreatePartyEnds, JoinFails
  <2> QED
    BY <1>2, <2>1 DEF AutoJoinSucceeds, AutoJoinFails
<1>8. CASE UNCHANGED vars
  BY <1>8 DEF vars
<1> QED
  BY <1>3, <1>4, <1>5, <1>6, <1>7, <1>8 DEF Next

(* The flow keeps its types, and "Joining party" is shown exactly while the*)
(* request that ends it is under way (App.tsx:501-573).                    *)
THEOREM TypeCorrect == Spec => []TypeOK
<1>1. Init => IInv
  BY InitGood
<1>2. IInv /\ [Next]_vars => IInv'
  BY StepKeeps
<1>3. IInv => TypeOK
  BY InvariantSuffices
<1> QED
  BY <1>1, <1>2, <1>3, PTL DEF Spec

(* An invite that the user gave up or replaced is never held again, neither*)
(* by the page nor by a sign-in's destination nor by a join, for any number*)
(* of invites and of requests answered in any order (App.tsx:126, 279).     *)
THEOREM GivenUpIsGone == Spec => []NoResurrection
<1>1. Init => IInv
  BY InitGood
<1>2. IInv /\ [Next]_vars => IInv'
  BY StepKeeps
<1>3. IInv => NoResurrection
  BY InvariantSuffices
<1> QED
  BY <1>1, <1>2, <1>3, PTL DEF Spec

(* The answer of an automatic join that was made stale changes neither the *)
(* page nor the invite state (App.tsx:524-548): the active attempt is never*)
(* a stale one.                                                            *)
THEOREM StaleAnswersAreIgnored == Spec => StaleJoinsChangeNothing
<1>1. Init => IInv
  BY InitGood
<1>2. IInv /\ [Next]_vars => IInv'
  BY StepKeeps
<1>3. IInv /\ [Next]_vars =>
        [\A c \in Call : OfKind(c, {"autoJoin"}) /\ c \notin current /\ call'[c] = None =>
           UNCHANGED <<route, app, page>>]_vars
  BY StaleStep
<1> QED
  BY <1>1, <1>2, <1>3, PTL DEF Spec, StaleJoinsChangeNothing
=============================================================================
