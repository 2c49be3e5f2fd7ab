--------------------------- MODULE CharacterLevelUp ---------------------------
(***************************************************************************)
(* One saved character, leveled up from several tabs. The page             *)
(* (frontend/src/characters/SavedCharacterReferencePage.tsx) shows a       *)
(* snapshot of the row; the wizard (level-up/LevelUpFlow.tsx) sends the    *)
(* snapshot's updatedAt as expectedUpdatedAt; the repository               *)
(* (backend/internal/characters/repository.go, LevelUp) locks the row,     *)
(* compares, and writes a new updated_at. Answers may be lost, and users   *)
(* leave the page, come back, reload and confirm again.                    *)
(*                                                                         *)
(* updated_at is taken from the wall clock, which may be set back. The     *)
(* clock is finer than the microsecond that a TIMESTAMPTZ column keeps, and*)
(* the code compares the fine reading with the stored version.             *)
(***************************************************************************)
EXTENDS Integers

CONSTANTS
  Tab,       \* browser tabs that show the character
  Call,      \* PATCH requests under way
  MaxLevel,  \* level 5, beyond which a level-up is rejected
  Micro,     \* clock readings in a microsecond
  MaxTime,   \* bound on the clock, in microseconds
  None

ASSUME SizeAssumption == MaxLevel \in Nat \ {0} /\ Micro \in Nat \ {0} /\ MaxTime \in Nat
ASSUME NoneAssumption == None \notin Tab \cup Call \cup [level: 1 .. MaxLevel, version: Nat]

VARIABLES
  clock,   \* the wall clock of the backend: the microsecond, and the reading in it
  row,     \* the characters row
  holder,  \* the call whose transaction has the row FOR UPDATE
  shown,   \* what a tab shows: None while it has nothing loaded
  flow,    \* the tab's wizard
  call,    \* the PATCH requests
  \* History:
  setBack,   \* the clock was set back
  rewritten  \* the versions that a commit replaced in the microsecond they name

clockVars == <<clock, setBack>>
tableVars == <<row, rewritten>>
rowVars   == <<clockVars, tableVars, holder, shown, flow, call>>

Reading == [micro: 0 .. MaxTime, finer: 0 .. Micro - 1]
Row  == [level: 1 .. MaxLevel, version: Nat]
Flow == {"closed", "open", "submitting", "conflict"}
Free == [stage |-> "free"]
Calls ==
  {Free} \cup [stage: {"sent", "locked", "conflict", "failed"}, tab: Tab \cup {None}, seen: Row]
         \cup [stage: {"updated"}, tab: Tab \cup {None}, seen: Row, result: Row]

(* The wizard is mounted with a loaded page only, and a tab waits for one  *)
(* request at most: the one it is submitting.                              *)
OneRequest(t) ==
  /\ flow[t] # "closed" => shown[t] # None
  /\ \A c, d \in Call :
       /\ call[c] # Free /\ call[c].tab = t => flow[t] = "submitting" /\ call[c].seen = shown[t]
       /\ call[c] # Free /\ call[d] # Free /\ call[c].tab = t /\ call[d].tab = t => c = d

(* Every variable keeps its kind, a level never exceeds the cap, and each  *)
(* tab's wizard agrees with the request it waits for (LevelUpFlow.tsx:253).*)
RowTypeOK ==
  /\ clock \in Reading /\ setBack \in BOOLEAN
  /\ row \in Row /\ rewritten \subseteq Nat
  /\ holder \in Call \cup {None}
  /\ shown \in [Tab -> Row \cup {None}]
  /\ flow \in [Tab -> Flow]
  /\ call \in [Call -> Calls]
  /\ \A t \in Tab : OneRequest(t)
------------------------------------------------------------------------------
(* The load effect, and Reload after a conflict: the page shows the row as *)
(* it is committed when the GET is answered; a later delivery shows nothing*)
(* that an earlier one would not still show by then.                       *)
Load(t) ==
  /\ shown[t] = None
  /\ shown' = [shown EXCEPT ![t] = row]
  /\ UNCHANGED <<clockVars, tableVars, holder, flow, call>>

OpenWizard(t) ==
  /\ shown[t] # None /\ shown[t].level < MaxLevel
  /\ flow[t] = "closed"
  /\ flow' = [flow EXCEPT ![t] = "open"]
  /\ UNCHANGED <<clockVars, tableVars, holder, shown, call>>

CloseWizard(t) ==
  /\ flow[t] \in {"open", "conflict"}
  /\ flow' = [flow EXCEPT ![t] = "closed"]
  /\ UNCHANGED <<clockVars, tableVars, holder, shown, call>>

(* The page is left, or reloaded after a conflict: its wizard is closed and*)
(* nobody listens to its request any more.                                 *)
Leave(t) ==
  /\ shown[t] # None
  /\ shown' = [shown EXCEPT ![t] = None]
  /\ flow' = [flow EXCEPT ![t] = "closed"]
  /\ call' = [c \in Call |-> IF call[c] # Free /\ call[c].tab = t
                             THEN [call[c] EXCEPT !.tab = None] ELSE call[c]]
  /\ UNCHANGED <<clockVars, tableVars, holder>>

(* What a request takes at least, from the page to the repository.         *)
AMicrosecondPasses ==
  /\ clock.micro < MaxTime
  /\ clock' = [clock EXCEPT !.micro = @ + 1]
  /\ UNCHANGED setBack

(* Mutant: the confirm button without its lock.                            *)
SubmitUnlocked(t, c) ==
  /\ flow[t] \in {"open", "submitting"}
  /\ call[c] = Free
  /\ flow' = [flow EXCEPT ![t] = "submitting"]
  /\ call' = [call EXCEPT ![c] = [stage |-> "sent", tab |-> t, seen |-> shown[t]]]
  /\ AMicrosecondPasses
  /\ UNCHANGED <<tableVars, holder, shown>>

(* submit, under its lock.                                                 *)
ConfirmLevelUp(t, c) ==
  /\ flow[t] = "open"
  /\ call[c] = Free
  /\ flow' = [flow EXCEPT ![t] = "submitting"]
  /\ call' = [call EXCEPT ![c] = [stage |-> "sent", tab |-> t, seen |-> shown[t]]]
  /\ AMicrosecondPasses
  /\ UNCHANGED <<tableVars, holder, shown>>
------------------------------------------------------------------------------
(* Mutant: the SELECT without FOR UPDATE.                                  *)
LockAndCompareUnlocked(c) ==
  /\ call[c].stage = "sent"
  /\ call' = [call EXCEPT ![c].stage =
       IF row.version # call[c].seen.version THEN "conflict"
       ELSE IF row.level = MaxLevel THEN "failed" ELSE "locked"]
  /\ UNCHANGED <<clockVars, tableVars, holder, shown, flow>>

(* SELECT ... FOR UPDATE waits for the row and returns its newest version; *)
(* a version the user did not see is ErrLevelUpConflict, and rolls back.   *)
LockAndCompare(c) ==
  /\ call[c].stage = "sent"
  /\ holder = None
  /\ IF row.version # call[c].seen.version
     THEN call' = [call EXCEPT ![c].stage = "conflict"] /\ UNCHANGED holder
     ELSE IF row.level = MaxLevel
     THEN call' = [call EXCEPT ![c].stage = "failed"] /\ UNCHANGED holder
     ELSE call' = [call EXCEPT ![c].stage = "locked"] /\ holder' = c
  /\ UNCHANGED <<clockVars, tableVars, shown, flow>>

(* time.After(persisted.UpdatedAt), which is a whole microsecond.          *)
IsAfter(reading, version) ==
  reading.micro > version \/ (reading.micro = version /\ reading.finer > 0)

(* Mutants: no fallback when the clock has not moved past updated_at, and  *)
(* one of a nanosecond, which the column drops.                            *)
NextVersionFromClock(version) == clock.micro
NextVersionAddingNano(version) == IF IsAfter(clock, version) THEN clock.micro ELSE version

(* The clock if it is after the old version, else a microsecond more than  *)
(* that; the column keeps the microsecond of a reading.                    *)
NextVersion(version) == IF IsAfter(clock, version) THEN clock.micro ELSE version + 1

(* The microsecond of the old version itself, although the reading is after*)
(* it: the fallback is not taken, and the column drops the difference.     *)
InItsMicrosecond(version) == clock.micro = version /\ clock.finer > 0
Remember(version) ==
  rewritten' = IF InItsMicrosecond(version) THEN rewritten \cup {version} ELSE rewritten

(* Mutant: both the builder and the UPDATE add one.                        *)
CommitAddingTwice(c) ==
  LET updated == [level |-> row.level + 2, version |-> NextVersion(row.version)]
  IN /\ call[c].stage = "locked"
     /\ row' = updated /\ Remember(row.version)
     /\ holder' = None
     /\ call' = [call EXCEPT ![c] =
          [stage |-> "updated", tab |-> @.tab, seen |-> @.seen, result |-> updated]]
     /\ UNCHANGED <<clockVars, shown, flow>>

(* The target level is the row's plus one.                                 *)
Commit(c) ==
  LET updated == [level |-> row.level + 1, version |-> NextVersion(row.version)]
  IN /\ call[c].stage = "locked"
     /\ row' = updated /\ Remember(row.version)
     /\ holder' = None
     /\ call' = [call EXCEPT ![c] =
          [stage |-> "updated", tab |-> @.tab, seen |-> @.seen, result |-> updated]]
     /\ UNCHANGED <<clockVars, shown, flow>>

(* buildLeveledCharacter rejects the decisions, or the database or the     *)
(* connection fails: the transaction rolls back and the answer is an error *)
(* other than 409.                                                         *)
Fail(c) ==
  /\ call[c].stage \in {"sent", "locked"}
  /\ holder' = IF holder = c THEN None ELSE holder
  /\ call' = [call EXCEPT ![c].stage = "failed"]
  /\ UNCHANGED <<clockVars, tableVars, shown, flow>>

(* The answer reaches the wizard, if it is still mounted.                  *)
Answer(c) ==
  /\ call[c].stage \in {"updated", "conflict", "failed"}
  /\ call' = [call EXCEPT ![c] = Free]
  /\ IF call[c].tab = None THEN UNCHANGED <<shown, flow>>
     ELSE CASE call[c].stage = "updated" ->
                 /\ shown' = [shown EXCEPT ![call[c].tab] = call[c].result]
                 /\ flow' = [flow EXCEPT ![call[c].tab] = "closed"]
            [] call[c].stage = "conflict" ->
                 /\ flow' = [flow EXCEPT ![call[c].tab] = "conflict"]
                 /\ UNCHANGED shown
            [] call[c].stage = "failed" ->
                 /\ flow' = [flow EXCEPT ![call[c].tab] = "open"]
                 /\ UNCHANGED shown
  /\ UNCHANGED <<clockVars, tableVars, holder>>

(* The answer is lost: an error the user may answer by confirming again,   *)
(* whatever the backend did or is still going to do.                       *)
LoseAnswer(c) ==
  /\ call[c] # Free /\ call[c].tab # None
  /\ flow' = [flow EXCEPT ![call[c].tab] = "open"]
  /\ call' = [call EXCEPT ![c].tab = None]
  /\ UNCHANGED <<clockVars, tableVars, holder, shown>>

(* The clock jumps to any later reading, and is set back to any earlier.   *)
Earlier(one, other) ==
  one.micro < other.micro \/ (one.micro = other.micro /\ one.finer < other.finer)
Tick ==
  /\ clock' \in {reading \in Reading : Earlier(clock, reading)}
  /\ UNCHANGED <<setBack, tableVars, holder, shown, flow, call>>
StepBack ==
  /\ clock' \in {reading \in Reading : Earlier(reading, clock)}
  /\ setBack' = TRUE
  /\ UNCHANGED <<tableVars, holder, shown, flow, call>>

RowInit ==
  /\ clock = [micro |-> 0, finer |-> 0] /\ setBack = FALSE
  /\ row = [level |-> 1, version |-> 0] /\ rewritten = {}
  /\ holder = None
  /\ shown = [t \in Tab |-> None]
  /\ flow = [t \in Tab |-> "closed"]
  /\ call = [c \in Call |-> Free]

RowNext ==
  \/ Tick \/ StepBack
  \/ \E t \in Tab : \/ Load(t) \/ OpenWizard(t) \/ CloseWizard(t) \/ Leave(t)
                    \/ \E c \in Call : ConfirmLevelUp(t, c)
  \/ \E c \in Call : LockAndCompare(c) \/ Commit(c) \/ Fail(c) \/ Answer(c) \/ LoseAnswer(c)

RowSpec == RowInit /\ [][RowNext]_rowVars
------------------------------------------------------------------------------
(* The snapshot is the row, or carries a version that was written over     *)
(* itself: the one case in which the lock cannot tell them apart.          *)
IsCurrent(snapshot) ==
  snapshot.version = row.version /\ (snapshot = row \/ row.version \in rewritten)

(* A level is gained only on top of the sheet the user confirmed it for:   *)
(* neither a repeated confirmation whose first answer was lost, nor a      *)
(* confirmation from another tab, nor one that outlived its page, adds a   *)
(* second level to what the user saw (T-026 REQUIREMENTS.md: "Protect      *)
(* against stale or duplicate updates using `expectedUpdatedAt`"). One case*)
(* is excepted, and the code does not protect against it: a version that   *)
(* was written over itself (see VersionsIdentifyRows).                     *)
LevelsWhatWasSeen ==
  [][row'.level # row.level =>
       \E c \in Call : /\ call[c].stage = "locked" /\ call'[c].stage = "updated"
                       /\ IsCurrent(call[c].seen)]_rowVars

(* The row's version never falls below that of a snapshot, however the     *)
(* clock is set, and a snapshot with the row's version is the row. A       *)
(* version comes back in one case only: a commit read the clock in the very*)
(* microsecond the version names and later in it (repository.go:241), and  *)
(* that takes a clock that was set back.                                   *)
VersionsIdentifyRows ==
  LET snapshots == {shown[t] : t \in {t \in Tab : shown[t] # None}}
                     \cup {call[c].seen : c \in {c \in Call : call[c] # Free}}
  IN /\ \A s \in snapshots : /\ s.level <= row.level
                             /\ s.version <= row.version
                             /\ s.version = row.version => IsCurrent(s)
     /\ rewritten # {} => setBack
=============================================================================
