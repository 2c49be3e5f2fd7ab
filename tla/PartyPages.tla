------------------------------ MODULE PartyPages ------------------------------
(***************************************************************************)
(* The Party screens of one browser tab (frontend/src/parties: PartyList,  *)
(* CreatePartyPage, PartyPage with its PartyInvitePanel, and               *)
(* PartyCharacterReferencePage) and the handlers that answer them          *)
(* (backend/internal/parties/handler.go). The tables are those of          *)
(* PartyRegistry, and everybody else's requests are its actions.           *)
(*                                                                         *)
(* A request reaches its handler and the answer reaches the page at any    *)
(* time; the browser may give a request up which is handled all the same.  *)
(* One JavaScript task is one action: a click or the answer of a request,  *)
(* with the renders and effects it causes.                                 *)
(***************************************************************************)
EXTENDS PartyRegistry

CONSTANTS
  Slot,        \* the requests a tab has under way at a time
  Write        \* the clipboard writes it has under way at a time

VARIABLES
  tab,         \* what the tab shows, see At
  request,     \* per slot the request under way that the tab awaits, or None
  write        \* per slot the clipboard write under way, or None

pageVars == << tab, request, write >>
tabVars  == << vars, pageVars >>

------------------------------------------------------------------------------
(* Routes. "elsewhere" stands for every page without Parties.              *)
Page(name, p, c) == [name |-> name, party |-> p, character |-> c]
Home        == Page("home", None, None)
NewParty    == Page("new-party", None, None)
Elsewhere   == Page("elsewhere", None, None)
PartyAt(p)  == Page("party", p, None)
CharacterAt(p, c) == Page("party-character", p, c)
Pages ==
  {Home, NewParty, Elsewhere} \cup { PartyAt(p) : p \in Party }
    \cup { CharacterAt(p, c) : p \in Party, c \in Character }

(* A page's load effect sends a GET, named after the page.                 *)
Gets == {"home", "party", "party-character"}
Loads(user, page) == user # None /\ page.name \in Gets

(* What an answer of the API carries: the role of the requester and the    *)
(* Parties, the linked characters, the character or the credential named.  *)
Failed           == [ok |-> FALSE, role |-> None, items |-> {}]
Done(role, items) == [ok |-> TRUE, role |-> role, items |-> items]

(* A page's load; the invite panel, which is mounted with a loaded Party   *)
(* only; and the submission of a new Party. Of the panel three fields are  *)
(* history: `given`, the credentials it had answers with; `holds`, which   *)
(* credential of its invite the tab has put on the clipboard last, or None;*)
(* and `contested`: an invite or another copy was begun while a clipboard  *)
(* write was under way, and one has been at every copy begun since.        *)
Loading  == [status |-> "loading", answer |-> Failed]
Idle     == [status |-> "idle", code |-> None]
Fresh    == [invite |-> Idle, given |-> {}, copy |-> None, active |-> None,
             holds |-> None, contested |-> FALSE]
At(user, page) ==
  [user |-> user, page |-> page, load |-> Loading, panel |-> Fresh, creating |-> "idle"]

(* A request with the page that sent it, and whether that is still shown.  *)
Sent(kind, user, page) ==
  [kind |-> kind, user |-> user, page |-> page, mounted |-> TRUE, answer |-> None]
Pending(s) == request[s] # None /\ request[s].answer = None
Free == { s \in Slot : request[s] = None }

------------------------------------------------------------------------------
(* Mutant: an effect without a cleanup.                                    *)
DeafenedNever(settled) == [s \in Slot |-> IF s \in settled THEN None ELSE request[s]]
(* Leaving a page, or its user: the cleanups of its effects and the        *)
(* unmounting of its components. Nobody awaits the page's requests any     *)
(* more; those that are handled later are among the Others. Only the       *)
(* creation of a Party is awaited without a check. `settled` have ended.   *)
Deafened(settled) ==
  [s \in Slot |->
     IF s \notin settled /\ request[s] # None /\ request[s].kind = "create"
     THEN [request[s] EXCEPT !.mounted = FALSE] ELSE None]

(* A clipboard write whose panel is gone: nobody hears of it any more. One *)
(* that is done already has nothing left to do.                            *)
Stray == [credential |-> None, done |-> FALSE]
Unheard(w) == IF write[w] = None \/ write[w].done THEN None ELSE Stray

(* A page is shown to the user and its load effect runs. `awaited` are the *)
(* requests under way.                                                     *)
Show(user, page, awaited) ==
  /\ tab' = At(user, page)
  /\ IF Loads(user, page)
     THEN \E s \in Slot :
            awaited[s] = None /\ request' = [awaited EXCEPT ![s] = Sent(page.name, user, page)]
     ELSE request' = awaited
  /\ write' = [w \in Write |-> Unheard(w)]
  /\ UNCHANGED vars

Open == \E page \in Pages \ {tab.page} : Show(tab.user, page, Deafened({}))
SignOut == tab.user # None /\ Show(None, Home, Deafened({}))
SignIn ==
  /\ tab.user = None
  /\ \E user \in User, page \in Pages : Show(user, page, Deafened({}))
Retry == tab.load.status = "error" /\ Show(tab.user, tab.page, Deafened({}))

------------------------------------------------------------------------------
(* The submission of a new Party and the generation of an invite. Both     *)
(* buttons are disabled, and guarded by a ref, while one is under way.     *)
Send(kind) ==
  \E s \in Free : request' = [request EXCEPT ![s] = Sent(kind, tab.user, tab.page)]

SubmitParty ==
  /\ tab.page = NewParty /\ tab.user # None /\ tab.creating # "submitting"
  /\ tab' = [tab EXCEPT !.creating = "submitting"]
  /\ Send("create")
  /\ UNCHANGED << vars, write >>

(* currentUserRole: the panel renders nothing for a player.                *)
HasPanel == tab.page.name = "party" /\ tab.load.status = "loaded" /\ tab.load.answer.role = "gm"
(* Mutant: neither the ref nor the disabled button.                        *)
MayAlwaysGenerate == TRUE
MayGenerate == tab.panel.invite.status # "loading"

UnderWay == { w \in Write : write[w] # None }

GenerateInvite ==
  /\ HasPanel /\ MayGenerate
  /\ tab' = [tab EXCEPT !.panel.invite = [status |-> "loading", code |-> None],
                        !.panel.copy = None, !.panel.active = None,
                        !.panel.holds = None, !.panel.contested = UnderWay # {}]
  /\ Send("invite")
  /\ UNCHANGED << vars, write >>

Rivalled(credential) == \E w \in UnderWay : write[w].credential # credential

(* copyCredential: the code and the link of the invite that is shown. The  *)
(* button of a credential that is being copied is disabled.                *)
CopyCredential ==
  /\ HasPanel /\ tab.panel.invite.status = "loaded"
  /\ \E kind \in {"code", "link"}, w \in Write \ UnderWay :
       LET credential == [kind |-> kind, code |-> tab.panel.invite.code] IN
       /\ tab.panel.active # credential
       /\ tab' = [tab EXCEPT !.panel.active = credential,
                             !.panel.copy = [status |-> "copying", credential |-> credential],
                             !.panel.contested = Rivalled(credential) \/ (@ /\ UnderWay # {})]
       /\ write' = [write EXCEPT ![w] = [credential |-> credential, done |-> FALSE]]
  /\ UNCHANGED << vars, request >>

(* Mutant: the comparison forgets the copied value.                        *)
copyKindsMatch(left, right) == right # None /\ left.kind = right.kind
copyKeysMatch(left, right) == left = right

(* copyText: the browser puts the text on the clipboard. It takes the      *)
(* writes in any order.                                                    *)
ClipboardTakes(w) ==
  /\ write[w] # None /\ ~write[w].done
  /\ tab' = [tab EXCEPT !.panel.holds = write[w].credential]
  /\ write' = [write EXCEPT ![w] = IF @ = Stray THEN None ELSE [@ EXCEPT !.done = TRUE]]
  /\ UNCHANGED << vars, request >>

(* Mutant: the catch forgotten, so that a refusal passes for a success.    *)
Uncaught(w) == "success"
(* The end of the try or the catch: the browser took the text, or refused  *)
(* it and left the clipboard alone.                                        *)
Outcome(w) == IF write[w].done THEN "success" ELSE "error"

(* The continuation of a write, in any order too. The panel does not hear  *)
(* it if it has begun to copy or generate something else.                  *)
WriteSettles(w) ==
  /\ write[w] # None
  /\ LET credential == write[w].credential
     IN tab' = IF tab.panel.active # None /\ copyKeysMatch(tab.panel.active, credential)
               THEN [tab EXCEPT !.panel.active = None,
                                !.panel.copy = [status |-> Outcome(w), credential |-> credential]]
               ELSE tab
  /\ write' = [write EXCEPT ![w] = None]
  /\ UNCHANGED << vars, request >>

------------------------------------------------------------------------------
(* The handlers, each after the middleware found the session of the user   *)
(* who sent the request. What fails before the repository has taken        *)
(* effect is one outcome: Refuse.                                          *)
Answer(s, answer) == request' = [request EXCEPT ![s].answer = answer]

PartiesOf(user) == { m.party : m \in { m \in members : m.user = user } }
MemberRole(user, p) == { m.role : m \in { m \in members : m.party = p /\ m.user = user } }
Linked(p) == { m.character : m \in { m \in members : m.party = p /\ m.role = "player" } }

(* Handler.List: ListPartiesForUser.                                       *)
List(s) ==
  /\ request[s].kind = "home"
  /\ Answer(s, Done(None, PartiesOf(request[s].user)))
  /\ UNCHANGED vars

(* Handler.GetForMember: 404 unless the requester is a member.             *)
GetForMember(s) ==
  LET roles == MemberRole(request[s].user, request[s].page.party) IN
  /\ request[s].kind = "party"
  /\ IF roles = {} THEN Answer(s, Failed)
     ELSE \E role \in roles : Answer(s, Done(role, Linked(request[s].page.party)))
  /\ UNCHANGED vars

(* Mutant: the query without the condition on the requester's role.        *)
GetByIDForPartyMember(s) ==
  LET page == request[s].page IN
  /\ request[s].kind = "party-character"
  /\ Answer(s, IF MemberRole(request[s].user, page.party) # {} /\ page.character \in Linked(page.party)
               THEN Done(None, {page.character}) ELSE Failed)
  /\ UNCHANGED vars

(* GetByIDForPartyGM: a linked character, for the GM only.                 *)
GetByIDForPartyGM(s) ==
  LET page == request[s].page IN
  /\ request[s].kind = "party-character"
  /\ Answer(s, IF "gm" \in MemberRole(request[s].user, page.party) /\ page.character \in Linked(page.party)
               THEN Done(None, {page.character}) ELSE Failed)
  /\ UNCHANGED vars

(* Handler.Create: the creator becomes the GM.                             *)
Create(s) ==
  /\ request[s].kind = "create"
  /\ \E p \in Party : CreateParty(request[s].user, p) /\ Answer(s, Done("gm", {p}))

(* Handler.CreateOrRegenerateInvite: 404 and 403 change nothing.           *)
CreateOrRegenerateInvite(s) ==
  LET user == request[s].user
      p    == request[s].page.party
  IN
  /\ request[s].kind = "invite"
  /\ \/ "gm" \notin MemberRole(user, p) /\ Answer(s, Failed) /\ UNCHANGED vars
     \/ \E k \in Code, at \in Times : ReplaceInvite(user, p, k, at) /\ Answer(s, Done("gm", {k}))

Refuse(s) == Answer(s, Failed) /\ UNCHANGED vars

Handle(s) ==
  /\ Pending(s)
  /\ \/ List(s) \/ GetForMember(s) \/ GetByIDForPartyGM(s)
     \/ Create(s) \/ CreateOrRegenerateInvite(s) \/ Refuse(s)
  /\ UNCHANGED << tab, write >>

------------------------------------------------------------------------------
(* What the page does with an answer it hears.                             *)
Loaded(answer) ==
  [tab EXCEPT !.load = [status |-> IF answer.ok THEN "loaded" ELSE "error", answer |-> answer]]

Invited(answer) ==
  [tab EXCEPT !.panel.invite =
                [status |-> IF answer.ok THEN "loaded" ELSE "error",
                 code   |-> IF answer.ok THEN CHOOSE k \in Code : k \in answer.items ELSE None],
              !.panel.given = @ \cup answer.items]

Heard(kind, answer) ==
  IF kind = "invite" THEN Invited(answer)
  ELSE IF kind = "create" THEN [tab EXCEPT !.creating = "error"]
  ELSE Loaded(answer)

(* A created Party is opened wherever the user is by now; the page of that *)
(* Party stays as it is.                                                   *)
OpensParty(s) == request[s].kind = "create" /\ request[s].answer.ok

Settle(s) ==
  /\ request[s] # None /\ request[s].answer # None
  /\ IF OpensParty(s)
     THEN \E p \in request[s].answer.items :
            IF tab.page = PartyAt(p)
            THEN request' = [request EXCEPT ![s] = None] /\ UNCHANGED << vars, tab, write >>
            ELSE Show(tab.user, PartyAt(p), Deafened({s}))
     ELSE /\ tab' = IF request[s].mounted THEN Heard(request[s].kind, request[s].answer) ELSE tab
          /\ request' = [request EXCEPT ![s] = None]
          /\ UNCHANGED << vars, write >>

(* The browser reports a network error; the request may have been handled, *)
(* or be handled later, as one of the Others.                              *)
GiveUp(s) ==
  /\ request[s] # None
  /\ tab' = IF request[s].mounted THEN Heard(request[s].kind, Failed) ELSE tab
  /\ request' = [request EXCEPT ![s] = None]
  /\ UNCHANGED << vars, write >>

------------------------------------------------------------------------------
PagesInit ==
  /\ Init
  /\ tab = At(None, Home)
  /\ request = [s \in Slot |-> None]
  /\ write = [w \in Write |-> None]

Others == Next /\ UNCHANGED pageVars

PagesNext ==
  \/ Others \/ Open \/ SignOut \/ SignIn \/ Retry
  \/ SubmitParty \/ GenerateInvite \/ CopyCredential
  \/ \E w \in Write : ClipboardTakes(w) \/ WriteSettles(w)
  \/ \E s \in Slot :
       \/ Handle(s) \/ Settle(s) \/ GiveUp(s)

PagesSpec == PagesInit /\ [][PagesNext]_tabVars
------------------------------------------------------------------------------
Credential == [kind : {"code", "link"}, code : Code]
Copy == [status : {"copying", "success", "error"}, credential : Credential]
ASSUME NoneIsNoRecord == None \notin Credential \cup Copy \cup Invite
Answers == [ok : BOOLEAN, role : {"gm", "player", None}, items : SUBSET (Party \cup Character \cup Code)]
PagesTypeOK ==
  /\ TypeOK
  /\ tab.user \in User \cup {None} /\ tab.page \in Pages
  /\ tab.load \in [status : {"loading", "loaded", "error"}, answer : Answers]
  /\ tab.creating \in {"idle", "submitting", "error"}
  /\ tab.panel.invite \in [status : {"idle", "loading", "loaded", "error"}, code : Code \cup {None}]
  /\ tab.panel.given \subseteq Code
  /\ tab.panel.active \in Credential \cup {None}
  /\ tab.panel.copy \in Copy \cup {None}
  /\ tab.panel.holds \in Credential \cup {None} /\ tab.panel.contested \in BOOLEAN
  /\ \A w \in UnderWay :
       write[w] \in [credential : Credential, done : BOOLEAN] \cup {Stray}
  /\ \A s \in Slot :
       request[s] # None =>
         request[s] \in [kind : Gets \cup {"create", "invite"}, user : User, page : Pages,
                         mounted : BOOLEAN, answer : Answers \cup {None}]

(* Whatever is answered late, lost or abandoned while the user goes from   *)
(* page to page, signs out or signs in as somebody else: what a page shows *)
(* is about the Party or character in its address and is the signed-in     *)
(* user's to see; a Party's tools are its GM's, and the invite they show   *)
(* is one of this Party (PartyPage.tsx:60, PartyInvitePanel.tsx:120).      *)
PagesShowWhatIsTheirs ==
  LET page  == tab.page
      shown == tab.load.answer
      roles == MemberRole(tab.user, page.party)
  IN tab.load.status = "loaded" =>
       /\ page.name = "home" => \A p \in shown.items : MemberRole(tab.user, p) # {}
       /\ page.name = "party" => shown.role \in roles /\ shown.items \subseteq Linked(page.party)
       /\ page.name = "party-character" =>
            "gm" \in roles /\ shown.items = {page.character} /\ page.character \in Linked(page.party)
       /\ tab.panel.invite.status # "idle" => GmOf(tab.user, page.party) \in members
       /\ tab.panel.invite.status = "loaded" => invites[tab.panel.invite.code].party = page.party

(* What the panel tells the GM is true. The invite it shows is the Party's *)
(* active one unless that was made by a request this panel never had an    *)
(* answer to: of another tab, of a page that was left, or given up. What it*)
(* says of a copy is about the invite shown (PartyInvitePanel.tsx:96 and   *)
(* 146), and "copied" is said of what the tab has put on the clipboard     *)
(* last. The exception is `contested`: when writes of two credentials      *)
(* overlap, the clipboard may take them in another order than they were    *)
(* begun, and the panel, which compares what is copied and not which write *)
(* it is, may take an earlier write's end for the latest one's (line 168). *)
PanelTellsTheTruth ==
  LET panel == tab.panel IN
  /\ panel.invite.status = "loaded" =>
       \A k \in Code : Active(k, tab.page.party) => k = panel.invite.code \/ k \notin panel.given
  /\ panel.copy # None =>
       /\ panel.invite.status = "loaded" /\ panel.copy.credential.code = panel.invite.code
       /\ panel.copy.status = "success" => panel.contested \/ panel.holds = panel.copy.credential
=============================================================================
