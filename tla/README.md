# Hunin in TLA+

Hunin (this repository) is a companion for Dungeons & Dragons groups: accounts,
character sheets, Parties with invites, and a guided level-up. The backend is Go
on PostgreSQL (`src/backend`), the frontend React (`src/frontend`), and a set of
scripts generates rules tables for both (`src/scripts`, `src/rules-data`).

This directory is its formal model. `PROJECT.json` lists the components, the TLC
runs, the mutants that show each property can fail, the source lines every
definition stands for, the hazards and the theorems. This file explains them.

## 1. The system

| Component | Source | State it keeps | Operations | Talks to |
|---|---|---|---|---|
| Party repository | `backend/internal/parties/repository.go`, migrations 3, 4 | `parties`, `party_memberships`, `party_invites` | create, regenerate invite, join by token or code, queries | characters (row lock), PostgreSQL |
| Party handlers | `backend/internal/parties/handler.go`, `code.go`, `token.go` | none of its own; the limiter's keys | decode, throttle, map errors to statuses | limiter, Party repository |
| Rate limiter | `backend/internal/auth/limiter.go` | buckets of time stamps, operation counter | Allow, Check, AllowAll, Reset | sign-in, registration, joins, code entry |
| Password gate | `backend/internal/auth/argon_gate.go` | two slots | TryAcquire, Release | sign-in, registration |
| Accounts and sessions | `backend/internal/auth/handler.go`, `middleware.go`, `repository.go`, `session.go` | `users`, `user_sessions`; the browser's cookie | register, sign in, authenticate, log out | limiter, gate, PostgreSQL |
| Character repository | `backend/internal/characters/repository.go`, `handler.go` | `characters` rows and their `updated_at` version | create, read, list, level up | Party memberships (GM access) |
| Level-up rules | `backend/internal/characters/level_up*.go`, `rules/` | none (pure) | plan, validate, apply a level | character repository |
| Sheet validation | `backend/internal/characters/character_sheet*.go` | none (pure) | validate and derive a sheet | character handlers |
| Browser application | `frontend/src/App.tsx`, `app/` | route, session, pending invite, saved-character join | navigation, sign-in, joining | every API |
| Party pages | `frontend/src/parties/` | what was loaded for which Party or invite, what is in flight | load, join, generate, copy | Party API |
| Level-up wizard | `frontend/src/level-up/` | the draft, the step, the submission | choose, go back, submit | character API |
| Character creation | `frontend/src/character-creation/` | the draft | edit, validate, save | character API |
| Server shell | `backend/internal/server`, `config`, `health`, `httpjson`, `cmd/server` | configuration | CORS, headers, decoding | everything |
| Generated rules and their generators | `scripts/`, `rules/generated*` | tables | generate | level-up, creation |

### What is hard, and what makes each part correct

* **Party repository.** Any number of requests run as READ COMMITTED
  transactions. A join finds the invite before it holds the Party, a role is read
  before the Party's lock is granted, a regeneration revokes and inserts in two
  statements, and several rows are locked in sequence. Correct means: the tables
  keep their integrity, a join happens only under the invite that is current, a
  refusal tells the truth, locks never form a circle, every request ends, and all
  of this by the locks alone, with the unique indexes as a backstop only.
* **Limiter.** `now()` is read before the mutex, so calls enter in another order
  than their stamps; a call may name several keys; at capacity live keys are
  forgotten. Correct means: no more than the limit per window, no refusal that
  was not earned, a Retry-After that is long enough, and eviction of the stalest.
* **Sign-in.** Check, gate, verification, failure and reset are separate steps of
  concurrent requests. Correct means: the gate's slots come back on every path,
  the failures that were answered stay within the limit, a revoked session never
  authenticates again.
* **Level-up.** Optimistic concurrency on `updated_at` under a row lock; the
  response may be lost and the user may confirm twice. Correct means: one
  confirmation is one level, and never on top of a sheet the user did not see.
* **Browser.** Every answer arrives after the user may have gone elsewhere.
  Correct means: an answer is applied to what it was asked for or not at all.

* **Sessions.** A cookie, a row and what a tab shows are three copies of one fact,
  changed by requests that overlap. Correct means: an answered sign-out is final,
  a failed one can be repeated, a tab shows the user whose cookie it sends.
* **Party pages.** The page stays mounted when the user goes from one Party to another
  or generates an invite; answers, copies and failures arrive for what was shown
  before. Correct means: what is shown belongs to the user and the Party of the page,
  and what the panel says of an invite or a copy is true.
* **Character creation.** Some thirty fields depend on each other; an edit of one
  changes what the others offer. Correct means: the draft holds only what is offered,
  a refusal can be understood, and the saved character is the reviewed one.
* **Rules and sheets.** Pure functions, written once in Go and once in TypeScript.
  Correct means: both give the same answer, and a level applied to a valid sheet
  gives a valid sheet.

## 2. The modules

| Module | Models | State | Actions |
|---|---|---|---|
| `PartyRegistry` | what the three Party tables promise, one request at a time | `parties`, `members`, `invites` | `CreateParty`, `ReplaceInvite`, `Join` |
| `PartyTransactions` | `parties/repository.go` as SQL statements of concurrent transactions, extends `PartyRegistry` | the same, and per transaction its statement, arguments, clock reading, locks and answer | one per statement; `Rollback`, `Abort`, `Tick` |
| `LimiterBuckets` | the map inside `auth/limiter.go`, as operators on a value | none | none |
| `SlidingWindowLimiter` | `Allow`, `Check`, `AllowAll`, `Reset`, their clock reads and mutex | `buckets`, `operations`, pending calls | one per method, `ReadClock`, `Tick` |
| `AuthHandlers` | `Register` and `SignIn` of `auth/handler.go`, the gate, `users` | `buckets`, `slots`, `users`, per request its next call | one per call the handlers make |
| `SessionAccess` | what the session store promises, without cookies, rows or requests | life, owner and deadline of a session, what a client was told | `Ask`, `Forget`, `Open`, `Close`, `Vouch`, `Release` |
| `Sessions` | `auth/middleware.go`, `Logout`, `CurrentSession`, the cookie and the App's user | the rows, the cookie jar, per tab the App's user, the requests in flight | send, look up, create, revoke, answer, lose, store the cookie, settle |
| `CharacterLevelUp` | one saved character in several tabs, end to end | the row, its lock, what each tab shows, its wizard, the requests | load, open, confirm, lock and compare, commit, answer, lose |
| `ClassRules` | the class tables of the generated rules, levels 1 to 5 | none | none |
| `LevelUpServer` | `level_up.go` and `level_up_v2.go`: which requests are accepted and the sheet they give, as operators | none | none |
| `LevelUpWizard` | `level-up/stateMachine.ts` and `LevelUpFlow.tsx`: plan, steps, draft, request; extends `LevelUpServer` | sheet, plan, step, draft, outcome, result | one per step's editor, `Continue`, `Back`, `Submit`, `Resume` |
| `PartyPages` | `parties/PartyPage.tsx`, `PartyInvitePanel.tsx`, `PartyList.tsx`, `CreatePartyPage.tsx`, `PartyCharacterReferencePage.tsx` over the tables; extends `PartyRegistry` | the tables, the route, what each page shows, the panel, copies, requests under way | one per click, browser event, request handled and answer |
| `ArrayFilter` | `Array.prototype.filter`, which the questionnaire and the draft both use | none | none |
| `CreationQuestionnaire` | "Help me choose" of `CharacterCreationPage.tsx`: questions, scores, recommendation | `quiz` | one per handler |
| `CreationRules` | races, creation choices with their options, improvements, from the generated tables | none | none |
| `CreationDraft` | `characterSheetV2Draft.ts`: what a draft offers and how an edit is reconciled | none | none |
| `CreationContract` | `characterSheetV2Validation.ts` and its helpers: the field checks and what a review lets pass | none | none |
| `CreationServer` | `character_sheet_v2_validation.go`: the requests the server accepts | none | none |
| `CreationSheet` | both calculators, `characterSheetV2Calculations.ts` and `character_sheet_v2_calculations.go` | none | none |
| `SpellLists` | the spells of the generated rules up to the third level: classes, level, what subclasses make of them; the facts the numbers of spells rest on; extends `CreationDraft` | none | none |
| `CharacterCreation` | `StructuredCharacterCreation.tsx` with the page before it, over the modules above from `CreationQuestionnaire` to `CreationSheet` | scope, `quiz`, draft, view, outcome | one per field editor, `Review`, `BackToEdit`, `Save`, the page's screens |
| `InviteFlow` | `frontend/src/App.tsx` with the pages it mounts | route, invite state, session, requests under way | one per handler, click and answer |

`PartyTransactions` EXTENDS `PartyRegistry` and shares its three variables, so the
refinement mapping is the identity on the tables and hides the rest.
`SlidingWindowLimiter` and `AuthHandlers` both build on `LimiterBuckets`: the first
asks what concurrency does to the limiter, the second what the limiter does for
the handlers. `Sessions` INSTANCEs `SessionAccess` with a mapping that reads a row
as an open or closed session and an answer as what its client was told. `LevelUpWizard`
EXTENDS `LevelUpServer`, which EXTENDS `ClassRules`: the two sides share the tables
and nothing else, each has its own idea of what a level asks for, and the run
compares them. Creation is built alike: `CharacterCreation` EXTENDS
`CreationQuestionnaire` and `CreationSheet`, which EXTENDS the client's side
(`CreationContract`, `CreationDraft`) and the server's (`CreationServer`); the two
share `CreationRules` and `ClassRules`, the tables, and nothing else. `PartyPages`
EXTENDS `PartyRegistry`: everybody else's requests and the page's own are registry
actions, taken when the server handles them, which is sound because `PartyTransactions`
is proved to implement the registry. A request of the page that was given up is one of
the others'. `MC*.tla` give the constants values for TLC, `*Proofs.tla` hold
theorems.

**From code to model.** Every SQL statement of the Party repository is an action:
it reads committed rows, `FOR UPDATE` is a guard on the `held` rows of the other
transactions, and its own writes appear at the commit. An `INSERT` that meets
an uncommitted row with its key waits; one that meets a committed row fails. In
Go handlers an action is one call of something shared: limiter, gate, database.
Code between two such calls belongs to the call before it, and a `defer` runs in
the step that returns. In the browser one JavaScript task is one action: a
click, a browser event or the continuation of one answered request, with the
renders and effects it causes; React's refs and states that are always set
together are one field. A request's answer is an action of its own, so it comes
after any number of other tasks. `map` in `PROJECT.json` names the lines.

**History variables.** `admitted` and `promise` (limiter), `failures`
(`AuthHandlers`), `wanted` and `current` (`InviteFlow`), `overlap` (`Sessions`), `rewritten` and
`setBack` (`CharacterLevelUp`), `given`, `holds` and `contested` (`PartyPages`: whose answers the page
had, what its copies put on the clipboard, whether they overlapped) record what happened and
are read by properties only. No action's guard mentions them.

**Data.** A credential pair (token hash and code hash, generated together) is one
member of `Code`. Time is a natural number; the unit is whatever makes the
windows small. Names, messages and HTTP bodies are left out; statuses are kept
where another step depends on them. In `CharacterLevelUp` a sheet is its level and
its version. In the wizard it is what a level-up can be refused for: level, subclass,
how many selections of each choice it records, the two ability scores that matter
(Constitution and the casting ability), hit points, and the numbers of its spells;
an option is a count, except for the one option whose availability depends on
another choice (the Warlock's invocation that needs a Pact Boon). In creation the options of a
choice are the table's where scores, armor or spells depend on them and numbers
elsewhere; spells are counts per level with marks for the ones that matter: granted by
race or boon (`mending`), always prepared (`listed`), from an expanded list
(`expanded`), learned twice (`repeated`).

## 3. What is checked

All runs take less than five minutes. Every property has a mutant: a definition
changed as a plausible bug would, for which TLC must report the property violated.

| Run | Properties | Question |
|---|---|---|
| `party_pages` | `PagesTypeOK`, `Integrity`, `PagesShowWhatIsTheirs`, `PanelTellsTheTruth` | Do the tables keep their integrity, does every Party page show only its own Party to a user who may see it, and does the invite panel tell the truth about the invite and, unless copies of two credentials overlap, about the copies? |
| `transactions` | `TxTypeOK`, `ConstraintsNeverFire`, `JoinsUnderCurrentInvite`, `RefusalsAreTrue`, `NoDeadlock`, `ImplementsRegistry` | Do interleaved transactions keep those promises by their locks alone, without meeting a unique index, a deadlock or a false refusal? |
| `progress` | `EveryRequestEnds` | Does every request end, whatever the others do? |
| `limiter` | `TypeOK`, `RateHolds`, `RefusalsAreEarned`, `RetryIsEnough`, `EvictsOnlyStalest` | Single keys and rule groups at capacity, callers whose stamps are out of order, and the Retry-After they are given |
| `auth` | `TypeOK`, `GateIsExact`, `FailuresAreCounted`, `NothingLiveIsEvicted` | Do the gate's slots come back on every path, are failures counted exactly although checking and recording are separate, and do the global limits keep a flood of identifiers from evicting live counts? |
| `sessions` | `TypeOK`, `CookiesHaveRows`, `SignedOutIsOver`, `ShowsTheCookiesUser`, `RowsOnlyClose`, `Implements` | Do cookie, row and shown user stay one fact while page loads, sign-ins, sign-outs and private requests overlap, statements fail and answers are lost? |
| `level_up` | `RowTypeOK`, `VersionsIdentifyRows`, `LevelsWhatWasSeen` | Is every level gained on the sheet that was shown, with lost answers, two tabs and a clock set back, and what is the only exception? |
| `level_up_wizard` | `TypeOK`, `SavedAsReviewed`, `LeveledSheetIsSound`, `ReviewedIsAccepted` | Is what the wizard lets the user review what the server accepts and saves, whatever was edited in which order? |
| `invite_flow` | `TypeOK`, `NoResurrection`, `StaleJoinsChangeNothing` | Is an invite that was given up gone for good, and do late answers of stale joins change nothing? |
| `character_creation` | `DraftHoldsOnlyWhatIsOffered`, `SavesWhatWasReviewed`, `RecommendationFitsTheAnswers`, `RefusalsAreExplained` | Does the draft stay within what its race, class, level and subclass offer, is it saved as reviewed, can every refusal be understood, and is the recommendation the one for the present answers? |

A type invariant also says which request belongs to which state, where the code keeps
the two in step: `CharacterLevelUp.RowTypeOK` that a submitting wizard has its one
request, `InviteFlow.TypeOK` that "Joining party" is shown exactly while its join is
under way.

Two runs show a disagreement between the code and what the repository says:

* `profile_user` (`ProfileShowsTheAuthenticatedUser`): the account page shows its
  form while the session restoration is pending. A user who signs in as somebody
  else before it is answered is replaced, on screen, by the user of the old cookie.
  `ShowsTheCookiesUser` in the run `sessions` is the same property for a page
  whose restoration met no other request that moves the cookie, and holds.
* `collected_choices` (`CollectedIsAccepted`): the wizard merges the subclass
  choices of the creation table into its own and collects them for a V1 sheet; the
  server's V1 table does not have them and refuses the request.

`ReviewedIsAccepted` says that a reviewed request is refused only in ten cases,
which `Disagreement` names; they are disagreements of client and server, and
every other combination of class, level, sheet and edits goes through:

1. a V1 sheet and a choice only the creation table has (`collected_choices`);
2. the invocation that needs a Pact Boon: a V2 sheet never has it among its features, a
   V1 sheet not before the choices of the same request are answered;
3. a V2 note for a choice that has options;
4. the Circle of the Land's cantrip, which the wizard counts and the server does not;
5. V1 choices missing at another count than the next level's, since the server
   asks for the target level's (a V1 Warlock who goes from 4 to 5 is asked for
   three invocations and keeps the two it had);
6. a prepared spell that becomes always prepared by a subclass or terrain selected later;
7. a learned spell of the SRD subclass's list, kept after changing to a manual one;
8. entered current hit points above a maximum that a V2 sheet sums up again;
9. a cantrip on the sheet of a caster that learns none, such as a paladin; and
10. an improvement of calculated V2 scores: it is recorded as a rule choice on top of the
   new base scores, and the sheet is then validated without it, so the request is
   refused unless the cap at 20 absorbs the difference.

`SavesWhatWasReviewed` names the three cases in which a created character passes the
client's review and is refused by the server:

1. calculated scores that an Ability Score Improvement changes: the server compares
   the saved sheet with the scores of the race alone
   (`character_sheet_v2_validation.go:354`), although creation supports the levels 4
   and 5 that have one (`src/tasks/T-025/REQUIREMENTS.md:38`);
2. the High Elf's cantrip on a character without spellcasting, refused at
   `character_sheet_v2_validation.go:266` although
   `characterSheetV2SpellProgression.test.ts:76` and the Go test
   `TestRaceGrantedCantripIsSeparateFromClassProgression` say that a fighter gets it;
3. the score of a manual class above 30 with the race's bonus.

More differences and oddities were met; they have no run of their own:

* The creation form's Back, for a guided character, changes the questionnaire behind
  the form and shows nothing: the form made itself the page's continuation when it was
  opened (`StructuredCharacterCreation.tsx:77`), and the page renders a continuation
  first (`CharacterCreationPage.tsx:1517`). The recommendation says that it "is guidance,
  not a lock", but only leaving the page leads back to it. `StepBack` models this.
* A Paladin of the Oath of Devotion who comes to level 4 with a Charisma of 28 or more (to
  level 3 with 30) has 11 spells to prepare, and the wizard offers the 10 of the list only, so
  that without imported spells the step cannot be left; creation lets add an imported one.
  Such scores can only be typed. `ListsSuffice` in `SpellLists` says that it happens to no
  class with a score up to 20, the most that improvements reach.
* With all five questions answered the two fallback scores cannot tie, so that the two
  tie-breakers of `getRecommendedBuild` never decide.
* "Reset to calculated" leaves an earlier message on the screen; adding equipment
  does not reconcile the defense; a spare armor that is only carried disappears at the
  next reconciled edit, and unticking "Equipped" removes an SRD armor altogether.
* An invite generated on a page that was left, or in a request that was given up,
  revokes the one the panel shows when it is handled. `copyCredential` compares what is
  copied and not which copy it is: with code, link and code again begun before the first
  has ended, the panel takes the end of the first for that of the third, and says "code
  copied" though the third may be refused and the link reach the clipboard. So it is with an
  older invite's write that lands late. The panel field `contested` marks these overlaps, and
  `PanelTellsTheTruth` names it as its exception; the run reaches such states. A Party creation repeated after a lost answer makes a second Party,
  and a created Party is opened wherever the user is by then.
* A late session restoration that changes the user (`profile_user`) does not reload the
  Party page.

* `LevelUp` (`characters/repository.go:241`) moves `updated_at` forward by a
  microsecond if the clock is not after the stored value, but it compares
  nanoseconds while the column keeps microseconds. A clock set back into the
  microsecond of the stored value, and read later in it, skips the fallback and writes
  the same version again; a request confirmed on the old sheet is then accepted, against
  "Protect against stale or duplicate updates" (T-026/REQUIREMENTS.md:219). `level_up`
  runs with two readings in a microsecond and reaches this case: confirm, set
  the clock back, commit, lose the answer, confirm again. `VersionsIdentifyRows` and
  `LevelsWhatWasSeen` except exactly the versions such a commit replaced
  (`rewritten`), and require that there are none unless the clock was set back. A
  second backend process with a clock behind the first one's is the same case.
* The header offers "Sign in" and "Create account" on the login page too; pressing
  one forgets the invite sign-in should return to (`SignInReturnsToInvite` in `InviteFlow`
  states it; T-017/REQUIREMENTS.md:78). Browser Back to the login page can lose it
  as well: the branch of `handlePopState` meant for this is never taken, since
  the invite was set to null a few lines before.
* Browser Back from character creation keeps the invite. The join of a second
  character saved for it takes the place of the first one's, whose success is then
  ignored (`JoinSuccessOpensParty` in `InviteFlow`; T-021/REQUIREMENTS.md:23).
* A failed sign-in during an
  automatic join clears the pending destination but leaves the join, and with it
  the invite, in memory: it takes a save answered after a sign-out, and the same
  link followed again in between.
* T-017's requirements 25 and 44 disagree about a join repeated after its invite
  was replaced; the code follows 44 and answers `invite_unavailable`.

### Bounds, and why they are enough

* **Parties**: two Parties, two credentials, two users, two characters of one
  player, two open transactions, any number of requests, one `Tick`, an invite
  that lives one tick, two credential attempts. Each hazard is about a pair of
  transactions, in one Party or in two that share a character; three Parties or
  transactions would be needed for a longer circle of locks only, and the lock
  order (Party, invite, character, membership) excludes all circles alike. The
  `progress` drops a Party and a character; liveness forbids symmetry.
* **Party pages**: two Parties, two codes, the user and the others, two requests under
  way, two clipboard writes (`Write`) and one instant: enough to be shown one Party, ask for
  something, go to the other and be answered, and for writes to overlap, be refused and reach
  the clipboard in any order. The pages compare no times, and the expiry of an invite
  matters to joins only, whose order with the clock `transactions` checks. Users, Parties and codes are symmetric where
  the page does not name them.
* **Limiter**: two callers suffice to reorder two stamps. Three keys with room for
  two reach the capacity and eviction, two of them asked for together; `MaxDelay`
  bounds how old a stamp can be when the mutex is taken, and the properties name
  that tolerance. The clock passes the shorter window and stops within the longer.
* **Authentication**: two requests and a gate of one slot, so that the gate is
  met full; limits of one. The store is tight: six
  keys are enough and five are not. For the real numbers the same argument gives
  2 + 30·11 + 2·10·61 = 1552 live keys (30 sign-ins a minute whose failures live
  ten minutes, 10 registrations a minute whose two keys live an hour), far below
  `maxLimiterKeys` = 10000. A sign-in admitted earlier and held up before its failure is
  recorded comes on top; the gate lets two at a time get that far.
* **Sessions**: one tab, two users, two tokens, two requests in flight at a time, one
  tick and a lifetime of one. Two requests of one tab already meet in every way that
  involves one jar (a second tab adds only that its user is shown elsewhere); two
  tokens are an old session and a new one. `profile_user` allows three requests.
  The theorems hold for any number of tabs.
* **Level-up**: two tabs, two requests, a cap of four levels, three microseconds of
  two clock readings each. Two tabs are the smallest case of a stale sheet; two requests
  let one be late; two readings tell a time in a microsecond from its start, which is
  all the comparison can tell; four levels let an old request be accepted and another
  follow it. A request takes a microsecond at least (`AMicrosecondPasses`), which only
  the claim about a clock that was never set back uses.
* **Wizard**: every SRD class at levels 1 to 4 (the wizard stops at 5), V1 sheets
  complete and bare, V2 sheets with imported and calculated scores, each with no,
  the SRD or a manual subclass, hit dice rolled one or average with Constitution 8
  or 13 and a casting ability of 15 or 18, with and without the boon; every order of steps and edits. Two points of
  improvement go to Constitution, the casting ability, both or neither.
* **Creation**: a behaviour stays in one of sixteen scopes, since everything at once
  is out of reach: `Asking` (the page and all 4^5 answers), `Archer` (the other Fighter),
  `Unarmored` (formulas, shield and speed), `HalfElfRogue` and `Improved` (raised
  scores), `Bookish` (spellbook), `Preparing`, `Forest` (prepared and always prepared
  spells), `Draconic`, `Traded` (a class given up for another), `Pact`, `Tome`
  (invocations and boons), `Known` (known spells, spell attacks), `Transferred`, `Foreign`
  (imported scores, manual race and class, overrides), `Burdened` (negative
  modifiers, rolls above the die). In each the fields it names are edited in
  any order; the others keep their first values. The form of `Asking` is not edited and
  the other scopes start with the form just opened.
* **Browser**: two links and a code (a replacement by the same kind and by the
  other), two requests under way, pages and history unbounded. Back and
  Forward may lead to any page shown since the document was loaded, which is
  more than the browser's history allows.

### Fairness

Only `progress` needs fairness: `SF` for each transaction's steps. A goroutine that
can run does run; while it waits for a row it is not enabled continuously,
because other transactions may take the row in between, but PostgreSQL queues
the waiters of a row, so a row that keeps coming free is granted in the end:
strong fairness. Requests need not arrive, and the clock need not tick. No other
property assumes fairness.

`CHECK_DEADLOCK FALSE` is set where the clock's bound or the finite set of Parties and
credentials ends every behaviour: `party_pages`, `limiter` and the sessions' runs; and
in the wizard's and the creation's runs, which end when the sheet is saved.

## 4. What is proved

TLAPS proves, for every value of the constants:

* `PartyProofs!TypeCorrect`, `LocksSuffice`, `JoinsAreInvited`,
  `AnswersAreTrue`, `NobodyWaitsInACircle`: the invariants `TxTypeOK`,
  `ConstraintsNeverFire`, `JoinsUnderCurrentInvite`, `RefusalsAreTrue`, `NoDeadlock` of
  `TxSpec`; `Refinement`: `TxSpec => ImplementsRegistry`.
* `PartyProofs!TablesKeepIntegrity`: `Spec => [](TypeOK /\ Integrity)` of
  `PartyRegistry`. The conjunction is inductive as it stands; there is a lemma per action.
* `PartyProofs!PagesTypeCorrect`, `PagesKeepIntegrity`, `PagesAreTheirs`,
  `PanelIsTruthful`: the four invariants of the run `party_pages`, `PagesTypeOK`,
  `Integrity`, `PagesShowWhatIsTheirs`, `PanelTellsTheTruth` of `PagesSpec`;
  `PagesImplementRegistry`: `PagesSpec => Spec` of `PartyRegistry`, since no handler,
  answered or not, changes the tables otherwise than by one operation of it.
* `SlidingWindowLimiterProofs!LimiterTypeCorrect`, `TheRateHolds`,
  `RefusalsAreAlwaysEarned`, `RetryAfterIsAlwaysEnough`: the invariants `TypeOK`,
  `RateHolds`, `RefusalsAreEarned`, `RetryIsEnough` of the limiter;
  `EvictionTakesTheStalest`: its action property `EvictsOnlyStalest`. The lemmas about the
  operators on a store (`LimiterBucketsProofs`) serve sign-in too.
* `AuthHandlersProofs!NoSlotIsLost`, `AuthTypeCorrect`: the invariants `GateIsExact`,
  `TypeOK` of `AuthHandlers!Spec`; `EveryFailureCounts`:
  `Spec /\ NothingLiveIsEvicted => []FailuresAreCounted`; `NobodyPaysForOthers`: without
  that hypothesis, an identifier is throttled only for failures of its own.
* `SessionsProofs!TypeCorrect`, `CookiesAreBacked`, `SignOutEndsTheSession`: the
  invariants `TypeOK`, `CookiesHaveRows`, `SignedOutIsOver` of `Sessions!Spec`;
  `RevocationIsFinal`: its action property `RowsOnlyClose`; `PageShowsItsUser`: its
  invariant `ShowsTheCookiesUser`, for one tab.
* `SessionsProofs!SessionsImplementAccess`: `Spec => Implements`.
* `LevelUpProofs!RowTypeCorrect`, `VersionsNeverReturn`: the invariants `RowTypeOK`,
  `VersionsIdentifyRows` of `CharacterLevelUp!RowSpec`; `LevelsAreConfirmed`: its action
  property `LevelsWhatWasSeen`. All three hold for every `Micro`.
* `LevelUpProofs!WizardTypeCorrect`, `SavedAsTheReviewShowed`,
  `LeveledSheetsAreSound`, `ReviewsAreAccepted`: the four invariants of the run
  `level_up_wizard`, `TypeOK`, `SavedAsReviewed`, `LeveledSheetIsSound`,
  `ReviewedIsAccepted` of `LevelUpWizard!Spec`.
* `InviteFlowProofs!TypeCorrect`, `GivenUpIsGone`: the invariants `TypeOK`,
  `NoResurrection` of `InviteFlow!Spec`; `StaleAnswersAreIgnored`: its action property
  `StaleJoinsChangeNothing`.
* `CharacterCreationProofs!OffersAreKept`, `ReviewedNumbersAreSaved`,
  `RecommendationsFit`: the invariants `DraftHoldsOnlyWhatIsOffered`,
  `SavesWhatWasReviewed`, `RecommendationFitsTheAnswers` of `CharacterCreation!Spec`;
  `RefusedReviewsHaveReasons`: its property `RefusalsAreExplained`; `DraftIsWithinOffer`:
  the inductive invariant, `PageInv`, that all but the recommendation's rest on. They hold for every set of
  scopes, and so for the fields of all of them edited together, which TLC cannot do.

None of the transaction invariants is inductive. That an `INSERT` never meets
a unique index follows from what the transaction learnt several statements
earlier, and from why that is still true. `IInv` says so: for each statement,
`JoinKnows` (and `InviteKnows`, `CreateKnows`) list the facts it may rely on and
the rows it holds that freeze them: past `lockParty` the Party is held, past
`checkInvite` the invite is current, past `loadMember` the user has no membership
in this Party, past `findLinked` nor has the character in any. `Exclusive` (no row is held twice)
then shows that no other transaction can have changed these facts, because a
commit that would change them holds one of those rows. `PendingDiffer` does the same for
uncommitted rows and `TableFacts` records what commits preserve. Each
statement has a lemma saying that it preserves `IInv`; `Frame` is the common part:
a step that changes one transaction's locals and takes no held row disturbs
nobody else. `Refinement` uses `IInv` to show that each commit is a step
of `PartyRegistry` and every other statement a stutter.

`AnswersAreTrue` and `NobodyWaitsInACircle` add an invariant of their own to `IInv`. `Backed` names, for
every answer on its way out, the committed membership that justifies it: the
requested one for a replay, another with one of its keys for a conflict.
Memberships only grow, so it stays; `Refinement` and `TablesKeepIntegrity`
together give `MembershipKeys` in every state of `TxSpec`, and so nobody can
commit the requested membership next to the conflicting one. `InOrder` bounds
what a transaction holds at each statement that may wait: only rows of tables
earlier in the order Party, invite, character, membership than the rows it wants. In a
set where everyone waited for another member nobody could then wait for a
membership, so nobody for a character, an invite or a Party.

The pages' `PagesInv` says of every request what its answer will find. An answer is true when
the server gives it, and must be true when it arrives: what it says of the tables
(`Granted`, `Issued`) stays because memberships are never deleted, and an invite keeps its
Party and, once revoked, stays revoked (`InvitesStand`). What it finds on the page is
`LoadAwaited` and `InviteAwaited`: a request somebody still listens to belongs to the user and the
page shown, because leaving the page deafens it, and at most one load and one
generation are under way (`Rivals`). So no answer overtakes a later one, and when an
invite arrives, every invite the panel was given before is already revoked. For the
copies `WritesKnow` says that, unless the panel is `contested`, every clipboard write under
way is of the one credential the panel speaks of, so whichever of them is heard and whatever
order the browser takes them in, the clipboard holds that credential once one is done. A
write that is refused leaves the clipboard alone, and `CopyKnows` keeps what is said of a copy
about the invite shown.

The limiter's `IInv` relates a bucket's events to the admissions of its key (`KeyInv`).
Stamps are taken before the mutex, so the events of a bucket need not be sorted. But the
critical sections are: the events are, position by position, the stamps of the newest
admissions (`StampsOf`, each late by at most `MaxDelay`), and admissions that are not among
the events have left the window, up to `MaxDelay` (`OthersAreOld`). With at most `Limit` events,
the admission before them is an old one, which is the rate; a full bucket has all its
events from the last `Limit` admissions, which is why refusals are earned. For the
Retry-After, `PromiseInv` says that a full bucket opens no later than was promised; it survives other
calls because a bucket only fills by an admission, which ends the promise. Eviction goes by
a least element of the stale keys (`WFMin` over `lastSeen`, then the order of the keys), so none
of this needs an induction over the data, and `MaxTime`, `MaxDelay`, the capacity and the sets
are arbitrary.

For the sessions the inductive invariant is the conjunction of the three the run
checks (`TypeOK`, `CookiesHaveRows`, `SignedOutIsOver`) and `IdleFits`: a request
that is not under way has no clock reading left (without it `Forget` would not map).
`CookiesHaveRows` is what makes the other parts work: a sign-out revokes a row that
exists, so a 204 leaves it revoked, and a token whose row exists is never
opened again. `SessionsImplementAccess` shows, action by action, that looking up a
session is `Vouch` (or nothing, when it is refused), creating one `Open`, a sign-out
`Release` or, if its answer is an error, `Close` or nothing, reading the clock `Ask`, and
the end of a request `Forget`; what the browser does with the answers is a stutter.

`PageShowsItsUser` is about what those sessions look like in the browser. Its invariant,
`PageFits`, says that while no restoration has overlapped another request, a request in
flight fits what the page shows: a restoration is alone, a sign-in is sent while nobody is shown, a
sign-out while somebody is. So a sign-in and a sign-out, the two that move the cookie, are
never in flight together, and each answer meets the page it was sent from. The theorem
assumes one tab, and the property a restoration that overlaps no request that moves the
cookie: with an overlap it is false, which the run `profile_user` shows. A second tab that
signs in or out changes the cookie behind the first one's page.

The gate's invariant, `GateInv`, adds to `GateIsExact` that only finitely many requests
are inside, however many there are: that is what makes their cardinality change by
one when one enters or returns. It holds because a request enters only below the capacity.
`IInv` of `AuthHandlers` adds what each request knows at its next call, and `Knows`: the events
of an identifier's bucket are the newest times of its failures since its last success, and
what is missing is old. How old is a parameter. Without any hypothesis the missing ones are only
in the past, and the bucket can count too little, never too much: that is
`NobodyPaysForOthers`. As long as no step evicts a bucket that still counts something, they have
left the window (`KnowsAll`), and the count is exact: `EveryFailureCounts`. The hypothesis
`NothingLiveIsEvicted` is an action property the run `auth` checks; it depends on the
sizes of the store and the global limits. `RoomAssumption` (`MaxKeys >= 3`) is what a
registration needs, whose three rules must fit the store together; the code has 10000.

The level-up's `IInv` adds to `TypeOK` and `VersionsIdentifyRows` (as `PagesFit` and
`CallsFit`, which also bounds the results on their way) what the row lock is for,
`LocksHold`: from the comparison to the commit the call that holds the row still has
its present contents, or a version written over itself, as its snapshot. `VersionGrows` is
the arithmetic: a commit's version is above the row's, unless the clock reads later in the
very microsecond of the row's: then the fallback is not taken and the column drops the
difference, and that version joins `rewritten`. `ClockLeads` is why it takes a clock that
was set back: until then the clock is past every version a request carries.

The wizard's `IInv` says that the plan is the one of the sheet it was opened on, the step
one of the plan's and that the draft fits (`DraftFits`: a subclass and an improvement where
the next level has one, answers their choice allows, spells the class can change); at the
review every step of the plan is valid, and the outcome is what the server decides for the
draft as it is then, because the review cannot be edited. It is needed since a step that
was valid when passed may be invalid later. The rest compares computations, for arbitrary
tables. What the audit or the level asks for is answered, and what neither asks for the sheet
holds already (`ChoicesAsked`, `AskedAreAnswered`), so the saved sheet has every choice of
its level and the next audit is empty. `MaximumGrows` compares the two ways to the maximum:
the page adds a level to the old one and the change of the modifier for the others, the V2
server sums up all levels, and they agree unless the minimum of one hit point decided a
level. For the acceptance each check of the server is shown to follow from the steps'
checks, or its failure to be a named disagreement. The attempt found the ninth case, which
no sheet of the runs has. It also made two facts of the code explicit in the
model: the cap of 20 on an improved score, which page and server check in the same words,
and that a V2 sheet was rebuilt by the server when it was saved.

The invite flow's `IInv` adds to `TypeOK` and `NoResurrection` three facts: a page that
loads, shows or refuses an invite is there only while one is held; a request to join
names an invite; and the active attempt is never a stale one. Nearly
every handler ends in `ShowAs`, so one lemma (`ShowKeeps`) covers them: it asks only
that the invite state and the requests they pass to it fit each other and the
history. That clearing what matches the refused invite leaves nothing behind
(`MatchingClears`) is where all the parts are needed.

Character creation rests on `PageInv`: in every reachable state the draft is
`WithinOffer`. This says more than what the run checks. Beside the offered gains, answers,
spells and defense (`GainsOffered`, `AnswersOffered`, `SpellsOffered`, `DefenseOffered`) the draft is
`Sound`: nothing is selected twice, a Pact Boon that other options require stands alone,
and what is noted is for choices the form asks notes for. It needs this because the
reconciliation goes through the draft once and in one order: an invocation is kept or
dropped by the boon selected at that time, and a boon dropped later in the same pass would
leave an invocation without its prerequisite. `ChoicesReconciled` shows that the boon itself
is never dropped then. Every editor either reconciles (`ReconciledWithinOffer`) or changes a field
on which no offer depends (`SameOffer`); those that do neither, the editors of spells and
equipment, have lemmas of their own. For `RefusalsAreExplained` the
contract's checks are shown, one by one, to follow from `WithinOffer` and the filled-in
fields, or their failure to be one of the six reasons; `MessageInv` carries a message until
the draft changes.

For `SavesWhatWasReviewed` the two calculators are compared field by field, for any
draft within the offer that passes the contract: scores, hit points as the client sums them
level by level and the server does (`SumOverLevels`), armor class, speed, initiative. Then
each check of the server is shown to follow from the contract (`ServerTakesTheRest`), or its failure
to be one of the three cases. For the recommendation, `QuizInv` says that what is on the screen is a
function of the answers. Five answers are an odd number for two builds, which is why the first
comparison always decides. What a greatest score is rests on a least counterexample in
the natural numbers (`LeastNumber`), and so does what `Filter` returns: the existence of its
recursive function needs no induction over sequences.

The proofs assume what the modules' ASSUMEs state. Creation's are facts about the
generated tables (`RaceAssumption`, `CreationAssumption`, `PrerequisiteAssumption`,
`CastingAssumption`: no choice is listed twice, every choice has an option without prerequisites, only a
boon is required by other options), which TLC evaluates over all races and classes, and the
kinds of the fields a scope may vary (`ScopesAssumption`); the proofs never expand a table of the
rules. The questions, whose answers' scores `RecommendationsFit` needs, are expanded. The wizard's are facts about the generated
tables (`ClassAssumption`, `ChoicesAssumption`: kinds, levels, choices that never shrink),
which TLC evaluates on the tables of `ClassRules`, and what a saved sheet may be
(`SubjectsAssumption`: levels 1 to 4, scores 1 to 30, die results within the die; a V2 sheet as
`BuildCharacterSheetV2` would rebuild it). The three of `SpellLists`, which TLC evaluates too, are used by no
proof: they are why numbers of spells may stand for the spells chosen. Of the others: owners are
users, the lifetime and the attempts are positive, `NULL` and `None` are no value, and the rows of
the four tables are distinct. Otherwise users, Parties, characters, credentials and
transactions may be any sets, finite or not; so may tabs, tokens and requests.

Only model-checked are

* `NothingLiveIsEvicted`: how many keys are live depends on when the requests
  the global limits admitted come to record their failures, and in the model a request may
  wait for as long as the clock runs. A theorem would have to assume a store with room for all
  that is ever admitted, which the code's is not; what the run shows is for the store of
  its size, and `EveryFailureCounts` names the property as its hypothesis;
* everything about liveness (`progress`): it rests on `ENABLED` and fairness, which are
  beyond the prover;
* the two disagreements of section 3 (`profile_user`, `collected_choices`), which are
  counterexamples.

## 5. What is not modelled

`PROJECT.json` lists every component and its status.

* **Password hashing and account validation**, **server shell**: pure functions and
  pure I/O (Argon2, patterns, headers, CORS, configuration).
* **Generators** (`scripts/`): they run at development time. The tables they
  write, 20771 lines of TypeScript (and the same again in Go), are modelled where a
  decision reads them: class progressions and choices, races, creation choices,
  improvements, armor, feature modifiers, and of each spell its level and whose list it
  is on (`SpellLists`, a few spells to a definition in the order of the file, most of whose
  lines are the texts left out); not texts, spell descriptions, weapons, gear.
* **Party handlers**: which statuses the repository's answers become is in `PartyPages`;
  decoding, the normalisation of codes, and the throttling of joins and code entry (the
  limiter's calls, as sign-in makes them) are not.
* PostgreSQL is modelled as the statements need it: READ COMMITTED, row locks, unique
  indexes; not its crash recovery, beyond that a transaction may die before any
  statement.

Known limits of the models:

* `PartyTransactions` reads the clock monotonically; a wall clock set back by more
  than the time between two regenerations would meet the CHECK on `revoked_at`.
* `AuthHandlers` reads the clock when it calls the limiter; the delay between the
  two is in `SlidingWindowLimiter`.
* `InviteFlow` knows that a user is signed in, not who; `Sessions` knows who. `Restore`
  may follow a sign-out, as in the code.
* `CharacterLevelUp` has one character per page, and its rules are "one level
  more, up to the cap"; `LevelUpWizard` has the rules and one request.
* `LevelUpWizard` leaves out races with hit points or spells of their own, overrides
  and their review, details of feats, the identity of replaced spells, additions to the
  book that are dropped after being prepared, a spell chosen twice, V1 sheets of casters
  without a spellcasting block, partial selections, skills other than none on a bare
  sheet, and maxima above 9999.
* Creation leaves out spell replacements, manual spells, slot overrides, texts and
  their byte limits, the overrides of initiative and passive Perception, the
  detour over sign-in with its continuation, a save whose answer is lost (repeating it makes a second
  character), casting scores above 28, partial selections, equipment other than two
  armors and the shield, feature lists, slots and passive Perception. Which
  spells survive a change of class or level is nondeterministic. The page's older
  functions that save V1 characters cannot be reached from what it renders.

## 6. Plan

1. Core (done): the Party transactions and their abstract registry, the limiter,
   sign-in and registration, level-up, the browser's invite flow; integrity,
   refinement, the locking argument, true answers and the absence of deadlock proved.
2. Extend (done): sessions and their refinement of an abstract store; the level-up
   wizard with the rules of both sides; character creation with its questionnaire,
   reconciliation, validation and calculations of both sides; the Party pages over the
   registry. Left: the throttling of joins and code entry in the Party handlers,
   `JoinPartyPage.tsx` beyond what `InviteFlow` has of it, and races and overrides in
   the wizard.
3. Prove (done): the Party transactions, the Party pages, the limiter, sign-in and
   registration, the sessions with the page that shows them, the level-up's lock and
   versions, the level-up wizard, the invite flow and character creation. Left:
   `NothingLiveIsEvicted`, if the handlers ever bound the time a request takes.
