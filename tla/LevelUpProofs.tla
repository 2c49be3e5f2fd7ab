------------------------------ MODULE LevelUpProofs ----------------------------
(***************************************************************************)
(* Leveling up: the saved character between its tabs and requests          *)
(* (CharacterLevelUp), and the wizard of one page (LevelUpWizard).         *)
(***************************************************************************)
EXTENDS CharacterLevelUp, LevelUpWizard, SequenceTheorems, TLAPS

-----------------------------------------------------------------------------
(***************************************************************************)
(* The level-up of one character, for any number of tabs, requests and     *)
(* levels, and for a clock of any resolution, set forward and back at will.*)
(***************************************************************************)

(* A snapshot is not ahead of the row, and is current if its version is    *)
(* the row's.                                                              *)
Fits(s) ==
  /\ s \in Row
  /\ s.level <= row.level /\ s.version <= row.version
  /\ s.version = row.version => IsCurrent(s)

PagesFit == \A t \in Tab : shown[t] # None => Fits(shown[t])

CallsFit ==
  \A c \in Call : call[c] # Free =>
    Fits(call[c].seen) /\ (call[c].stage = "updated" => Fits(call[c].result))

(* What a transaction relies on from its comparison to its commit.         *)
LocksHold ==
  \A c \in Call : call[c].stage = "locked" =>
    holder = c /\ IsCurrent(call[c].seen) /\ row.level < MaxLevel

(* As long as the clock is not set back, it is past every version that a   *)
(* request carries.                                                        *)
ClockLeads ==
  ~setBack =>
    /\ rewritten = {} /\ row.version <= clock.micro
    /\ \A c \in Call : call[c] # Free => call[c].seen.version < clock.micro

RowInv == RowTypeOK /\ PagesFit /\ CallsFit /\ LocksHold /\ ClockLeads

------------------------------------------------------------------------------
(* What a call holds once it is sent.                                      *)
LEMMA CallFields ==
  ASSUME NEW x \in Calls, x # Free
  PROVE  /\ x.tab \in Tab \cup {None} /\ x.seen \in Row
         /\ x.stage \in {"sent", "locked", "conflict", "failed", "updated"}
         /\ x.stage = "updated" => x.result \in Row
         /\ x.stage # "free"
BY DEF Calls, Free

LEMMA Restaged ==
  ASSUME NEW x \in Calls, x # Free, x.stage # "updated",
         NEW s \in {"locked", "conflict", "failed"}, NEW y, y = [x EXCEPT !.stage = s]
  PROVE  y \in Calls /\ y # Free /\ y.stage = s /\ y.tab = x.tab /\ y.seen = x.seen
BY DEF Calls, Free

LEMMA Orphaned ==
  ASSUME NEW x \in Calls, x # Free
  PROVE  LET y == [x EXCEPT !.tab = None]
         IN /\ y \in Calls /\ y # Free /\ y.stage = x.stage /\ y.tab = None /\ y.seen = x.seen
            /\ x.stage = "updated" => y.result = x.result
BY DEF Calls, Free

LEMMA FreeCall == Free \in Calls /\ Free.stage = "free"
BY DEF Calls, Free

LEMMA NoneIsNoRow == \A x \in Row : x # None
BY NoneAssumption DEF Row

(* The next version is later, but for a reading in the version's own       *)
(* microsecond.                                                            *)
LEMMA VersionGrows ==
  ASSUME NEW version \in Nat, clock \in Reading
  PROVE  /\ NextVersion(version) \in Nat
         /\ NextVersion(version) > version
              \/ (InItsMicrosecond(version) /\ NextVersion(version) = version)
         /\ clock.micro > version => NextVersion(version) = clock.micro
BY SizeAssumption DEF NextVersion, IsAfter, InItsMicrosecond, Reading

(* What every step but the commit and those of the clock rests on: the     *)
(* requests still under way carry the snapshots they did.                  *)
LEMMA ClockStillLeads ==
  ASSUME ClockLeads, UNCHANGED <<clock, setBack, row, rewritten>>,
         \A c \in Call : call'[c] # Free => call[c] # Free /\ call'[c].seen = call[c].seen
  PROVE  ClockLeads'
BY DEF ClockLeads

------------------------------------------------------------------------------
(* The steps of a tab.                                                     *)
LEMMA LoadKeeps ==
  ASSUME RowInv, NEW t \in Tab, Load(t)
  PROVE  RowInv'
<1>1. shown' = [shown EXCEPT ![t] = row] /\ UNCHANGED <<clock, setBack, row, rewritten, holder, flow, call>>
  BY DEF Load, clockVars, tableVars
<1>2. shown[t] = None /\ flow[t] = "closed"
  BY DEF Load, RowInv, RowTypeOK, OneRequest
<1>3. \A c \in Call : call[c] # Free => call[c].tab # t
  BY <1>2 DEF RowInv, RowTypeOK, OneRequest
<1>4. RowTypeOK'
  <2>1. shown' \in [Tab -> Row \cup {None}]
    BY <1>1 DEF RowInv, RowTypeOK
  <2>2. \A u \in Tab : OneRequest(u)'
    BY <1>1, <1>2, <1>3 DEF RowInv, RowTypeOK, OneRequest
  <2> QED
    BY <1>1, <2>1, <2>2 DEF RowInv, RowTypeOK
<1>5. Fits(row)
  BY DEF RowInv, RowTypeOK, Fits, IsCurrent, Row
<1>6. PagesFit'
  BY <1>1, <1>5 DEF RowInv, RowTypeOK, PagesFit, Fits, IsCurrent
<1>7. ClockLeads'
  BY <1>1, ClockStillLeads DEF RowInv
<1> QED
  BY <1>1, <1>4, <1>6, <1>7 DEF RowInv, CallsFit, LocksHold, Fits, IsCurrent

LEMMA WizardKeeps ==
  ASSUME RowInv, NEW t \in Tab, OpenWizard(t) \/ CloseWizard(t)
  PROVE  RowInv'
<1>1. PICK f \in {"open", "closed"} :
        /\ flow' = [flow EXCEPT ![t] = f] /\ flow[t] # "submitting"
        /\ f = "open" => shown[t] # None
        /\ UNCHANGED <<clock, setBack, row, rewritten, holder, shown, call>>
  BY DEF OpenWizard, CloseWizard, clockVars, tableVars
<1>2. flow' \in [Tab -> Flow]
  BY <1>1 DEF RowInv, RowTypeOK, Flow
<1>3. \A u \in Tab : OneRequest(u)'
  BY <1>1 DEF RowInv, RowTypeOK, OneRequest
<1>4. ClockLeads'
  BY <1>1, ClockStillLeads DEF RowInv
<1> QED
  BY <1>1, <1>2, <1>3, <1>4 DEF RowInv, RowTypeOK, PagesFit, CallsFit, LocksHold, Fits, IsCurrent

LEMMA LeaveKeeps ==
  ASSUME RowInv, NEW t \in Tab, Leave(t)
  PROVE  RowInv'
<1>1. /\ shown' = [shown EXCEPT ![t] = None] /\ flow' = [flow EXCEPT ![t] = "closed"]
      /\ UNCHANGED <<clock, setBack, row, rewritten, holder>>
  BY DEF Leave, clockVars, tableVars
<1>2. call' = [c \in Call |-> IF call[c] # Free /\ call[c].tab = t
                             THEN [call[c] EXCEPT !.tab = None] ELSE call[c]]
  BY DEF Leave
<1>3. \A c \in Call : call[c] \in Calls
  BY DEF RowInv, RowTypeOK
<1>4. \A c \in Call :
        /\ call'[c] \in Calls
        /\ call[c] = Free => call'[c] = Free
        /\ call[c] # Free =>
             /\ call'[c] # Free /\ call'[c].seen = call[c].seen /\ call'[c].stage = call[c].stage
             /\ call'[c].tab = IF call[c].tab = t THEN None ELSE call[c].tab
             /\ call[c].stage = "updated" => call'[c].result = call[c].result
  BY <1>2, <1>3, Orphaned
<1>5. call' \in [Call -> Calls]
  BY <1>2, <1>4
<1>6. shown' \in [Tab -> Row \cup {None}] /\ flow' \in [Tab -> Flow]
  BY <1>1 DEF RowInv, RowTypeOK, Flow
<1>7. \A u \in Tab : OneRequest(u)'
  <2> SUFFICES ASSUME NEW u \in Tab PROVE OneRequest(u)'
    OBVIOUS
  <2>1. \A c \in Call : call'[c] # Free /\ call'[c].tab = u => u # t /\ call[c] # Free /\ call[c].tab = u
    BY <1>4, NoneAssumption
  <2> QED
    BY <1>1, <1>4, <2>1 DEF RowInv, RowTypeOK, OneRequest
<1>8. RowTypeOK'
  BY <1>1, <1>5, <1>6, <1>7 DEF RowInv, RowTypeOK
<1>9. PagesFit'
  BY <1>1 DEF RowInv, RowTypeOK, PagesFit, Fits, IsCurrent
<1>10. CallsFit'
  BY <1>1, <1>4 DEF RowInv, CallsFit, Fits, IsCurrent
<1>11. LocksHold'
  <2>1. \A c \in Call : call'[c].stage = "locked" => call[c].stage = "locked" /\ call'[c].seen = call[c].seen
    BY <1>4, FreeCall
  <2> QED
    BY <1>1, <2>1 DEF RowInv, LocksHold, IsCurrent
<1>12. ClockLeads'
  BY <1>1, <1>4, ClockStillLeads DEF RowInv
<1> QED
  BY <1>8, <1>9, <1>10, <1>11, <1>12 DEF RowInv

LEMMA ConfirmKeeps ==
  ASSUME RowInv, NEW t \in Tab, NEW c \in Call, ConfirmLevelUp(t, c)
  PROVE  RowInv'
<1> DEFINE sent == [stage |-> "sent", tab |-> t, seen |-> shown[t]]
<1>1. /\ flow[t] = "open" /\ call[c] = Free
      /\ flow' = [flow EXCEPT ![t] = "submitting"] /\ call' = [call EXCEPT ![c] = sent]
      /\ UNCHANGED <<setBack, row, rewritten, holder, shown>>
  BY DEF ConfirmLevelUp, AMicrosecondPasses, tableVars
<1>2. clock' \in Reading /\ clock'.micro = clock.micro + 1
  BY SizeAssumption DEF ConfirmLevelUp, AMicrosecondPasses, Reading, RowInv, RowTypeOK
<1>3. shown[t] # None /\ shown[t] \in Row /\ Fits(shown[t])
  BY <1>1 DEF RowInv, RowTypeOK, OneRequest, PagesFit
<1>4. /\ sent \in Calls /\ sent # Free /\ sent.stage = "sent" /\ sent.tab = t /\ sent.seen = shown[t]
  BY <1>3 DEF Calls, Free
<1>5. call' \in [Call -> Calls] /\ flow' \in [Tab -> Flow]
  BY <1>1, <1>4 DEF RowInv, RowTypeOK, Flow
<1>6. call'[c] = sent /\ \A d \in Call : d # c => call'[d] = call[d]
  BY <1>1 DEF RowInv, RowTypeOK
<1>7. \A d \in Call : call[d] # Free => call[d].tab # t
  BY <1>1 DEF RowInv, RowTypeOK, OneRequest
<1>8. \A u \in Tab : OneRequest(u)'
  <2> SUFFICES ASSUME NEW u \in Tab PROVE OneRequest(u)'
    OBVIOUS
  <2>1. flow'[u] # "closed" => shown'[u] # None
    BY <1>1, <1>3 DEF RowInv, RowTypeOK, OneRequest
  <2>2. ASSUME NEW d \in Call, call'[d] # Free, call'[d].tab = u
        PROVE  flow'[u] = "submitting" /\ call'[d].seen = shown'[u]
    BY <1>1, <1>4, <1>6, <1>7, <2>2 DEF RowInv, RowTypeOK, OneRequest
  <2>3. ASSUME NEW d \in Call, NEW e \in Call, call'[d] # Free, call'[e] # Free,
               call'[d].tab = u, call'[e].tab = u
        PROVE  d = e
    BY <1>4, <1>6, <1>7, <2>3 DEF RowInv, RowTypeOK, OneRequest
  <2> QED
    BY <2>1, <2>2, <2>3 DEF OneRequest
<1>9. RowTypeOK'
  BY <1>1, <1>2, <1>5, <1>8 DEF RowInv, RowTypeOK
<1>10. PagesFit'
  BY <1>1 DEF RowInv, PagesFit, Fits, IsCurrent
<1>11. CallsFit'
  BY <1>1, <1>3, <1>4, <1>6 DEF RowInv, CallsFit, Fits, IsCurrent
<1>12. LocksHold'
  BY <1>1, <1>4, <1>6 DEF RowInv, LocksHold, IsCurrent
<1>13. ClockLeads'
  <2> SUFFICES ASSUME ~setBack
               PROVE  /\ rewritten = {} /\ row.version <= clock'.micro
                      /\ \A d \in Call : call'[d] # Free => call'[d].seen.version < clock'.micro
    BY <1>1 DEF ClockLeads
  <2>1. /\ rewritten = {} /\ row.version <= clock.micro
        /\ \A d \in Call : call[d] # Free => call[d].seen.version < clock.micro
    BY DEF RowInv, ClockLeads
  <2>2. /\ row.version \in Nat /\ clock.micro \in Nat /\ shown[t].version \in Nat
        /\ shown[t].version <= row.version
    BY <1>3 DEF RowInv, RowTypeOK, Fits, Row, Reading
  <2>3. row.version <= clock.micro + 1 /\ shown[t].version < clock.micro + 1
    BY <2>1, <2>2
  <2>4. ASSUME NEW d \in Call, call'[d] # Free PROVE call'[d].seen.version < clock.micro + 1
    <3>1. CASE d = c
      BY <1>4, <1>6, <2>3, <3>1
    <3>2. CASE d # c
      <4>1. call[d] # Free /\ call'[d].seen = call[d].seen
        BY <1>6, <2>4, <3>2
      <4>2. call[d].seen.version \in Nat
        BY <4>1 DEF RowInv, CallsFit, Fits, Row
      <4> QED
        BY <2>1, <2>2, <4>1, <4>2
    <3> QED
      BY <3>1, <3>2
  <2> QED
    BY <1>2, <2>1, <2>3, <2>4
<1> QED
  BY <1>9, <1>10, <1>11, <1>12, <1>13 DEF RowInv

------------------------------------------------------------------------------
(* The steps of a request. All but the commit leave the row alone.         *)
LEMMA SameRequests ==
  ASSUME NEW u \in Tab, OneRequest(u), UNCHANGED <<shown, flow>>,
         \A d \in Call : /\ call'[d] # Free <=> call[d] # Free
                         /\ call[d] # Free => call'[d].tab = call[d].tab /\ call'[d].seen = call[d].seen
  PROVE  OneRequest(u)'
<1>1. /\ flow[u] # "closed" => shown[u] # None
      /\ \A x \in Call : call[x] # Free /\ call[x].tab = u => flow[u] = "submitting" /\ call[x].seen = shown[u]
  BY DEF OneRequest
<1>2. \A x, y \in Call : call[x] # Free /\ call[y] # Free /\ call[x].tab = u /\ call[y].tab = u => x = y
  BY DEF OneRequest
<1>3. flow' = flow /\ shown' = shown
  OBVIOUS
<1>4. \A x \in Call : call'[x] # Free /\ call'[x].tab = u =>
        call[x] # Free /\ call[x].tab = u /\ call'[x].seen = call[x].seen
  OBVIOUS
<1>5. \A x \in Call : call'[x] # Free /\ call'[x].tab = u => flow[u] = "submitting" /\ call'[x].seen = shown[u]
  BY <1>1, <1>4
<1>6. \A x, y \in Call : call'[x] # Free /\ call'[y] # Free /\ call'[x].tab = u /\ call'[y].tab = u => x = y
  BY <1>2, <1>4
<1> QED
  BY <1>1, <1>3, <1>5, <1>6 DEF OneRequest

LEMMA CompareKeeps ==
  ASSUME RowInv, NEW c \in Call, LockAndCompare(c) \/ Fail(c)
  PROVE  RowInv'
<1>1. call[c] # Free /\ call[c] \in Calls /\ call[c].stage \in {"sent", "locked"}
  BY FreeCall DEF LockAndCompare, Fail, RowInv, RowTypeOK
<1>2. PICK s \in {"locked", "conflict", "failed"} :
        /\ call' = [call EXCEPT ![c].stage = s]
        /\ UNCHANGED <<clock, setBack, row, rewritten, shown, flow>>
        /\ s = "locked" => /\ holder = None /\ holder' = c
                           /\ row.version = call[c].seen.version /\ row.level # MaxLevel
        /\ s # "locked" => holder' = holder \/ (holder = c /\ holder' = None)
  <2> DEFINE Restage(s) ==
        /\ call' = [call EXCEPT ![c].stage = s]
        /\ UNCHANGED <<clock, setBack, row, rewritten, shown, flow>>
        /\ s = "locked" => /\ holder = None /\ holder' = c
                           /\ row.version = call[c].seen.version /\ row.level # MaxLevel
        /\ s # "locked" => holder' = holder \/ (holder = c /\ holder' = None)
  <2>1. LockAndCompare(c) => Restage("conflict") \/ Restage("failed") \/ Restage("locked")
    BY DEF LockAndCompare, clockVars, tableVars
  <2>2. Fail(c) => Restage("failed")
    <3> SUFFICES ASSUME Fail(c) PROVE Restage("failed")
      OBVIOUS
    <3>1. CASE holder = c
      BY <3>1 DEF Fail, clockVars, tableVars
    <3>2. CASE holder # c
      BY <3>2 DEF Fail, clockVars, tableVars
    <3> QED
      BY <3>1, <3>2
  <2> QED
    BY <2>1, <2>2
<1>3. /\ call'[c] = [call[c] EXCEPT !.stage = s]
      /\ \A d \in Call : d # c => call'[d] = call[d]
      /\ DOMAIN call' = Call
  BY <1>2 DEF RowInv, RowTypeOK
<1>4. /\ call'[c] \in Calls /\ call'[c] # Free /\ call'[c].stage = s
      /\ call'[c].tab = call[c].tab /\ call'[c].seen = call[c].seen
  BY <1>1, <1>3, Restaged
<1>5. call' \in [Call -> Calls]
  BY <1>2, <1>3, <1>4 DEF RowInv, RowTypeOK
<1>6. \A d \in Call : /\ call'[d] # Free <=> call[d] # Free
                      /\ call[d] # Free => call'[d].tab = call[d].tab /\ call'[d].seen = call[d].seen
  BY <1>1, <1>3, <1>4
<1>7. RowTypeOK'
  <2>1. \A u \in Tab : OneRequest(u)'
    BY <1>2, <1>6, SameRequests DEF RowInv, RowTypeOK
  <2>2. holder' \in Call \cup {None}
    BY <1>2 DEF RowInv, RowTypeOK
  <2> QED
    BY <1>2, <1>5, <2>1, <2>2 DEF RowInv, RowTypeOK
<1>8. PagesFit'
  BY <1>2 DEF RowInv, PagesFit, Fits, IsCurrent
<1>9. CallsFit'
  BY <1>1, <1>2, <1>3, <1>4 DEF RowInv, CallsFit, Fits, IsCurrent
<1>10. LocksHold'
  <2> SUFFICES ASSUME NEW d \in Call, call'[d].stage = "locked"
               PROVE  holder' = d /\ IsCurrent(call'[d].seen) /\ row.level < MaxLevel
    BY <1>2 DEF LocksHold, IsCurrent
  <2>1. CASE d = c
    <3>1. IsCurrent(call[c].seen)
      BY <1>1, <1>2, <1>4, <2>1 DEF RowInv, CallsFit, Fits
    <3>2. row.level < MaxLevel
      BY <1>2, <1>4, <2>1, SizeAssumption DEF RowInv, RowTypeOK, Row
    <3> QED
      BY <1>2, <1>4, <2>1, <3>1, <3>2
  <2>2. CASE d # c
    <3>1. call[d].stage = "locked" /\ call'[d] = call[d]
      BY <1>3, <2>2
    <3>2. holder = d
      BY <3>1 DEF RowInv, LocksHold
    <3>3. IsCurrent(call[d].seen) /\ row.level < MaxLevel
      BY <3>1 DEF RowInv, LocksHold
    <3>4. holder # None
      BY <1>1, <3>2, NoneAssumption DEF RowInv, RowTypeOK
    <3>5. holder' = holder
      BY <1>2, <2>2, <3>2, <3>4
    <3> QED
      BY <3>1, <3>2, <3>3, <3>5
  <2> QED
    BY <2>1, <2>2
<1>11. ClockLeads'
  BY <1>2, <1>6, ClockStillLeads DEF RowInv
<1> QED
  BY <1>7, <1>8, <1>9, <1>10, <1>11 DEF RowInv

LEMMA CommitKeeps ==
  ASSUME RowInv, NEW c \in Call, Commit(c)
  PROVE  RowInv'
<1> DEFINE updated == [level |-> row.level + 1, version |-> NextVersion(row.version)]
           done == [stage |-> "updated", tab |-> call[c].tab, seen |-> call[c].seen, result |-> updated]
<1>1. /\ call[c].stage = "locked" /\ row' = updated /\ holder' = None
      /\ call' = [call EXCEPT ![c] = done]
      /\ rewritten' = IF InItsMicrosecond(row.version) THEN rewritten \cup {row.version} ELSE rewritten
      /\ UNCHANGED <<clock, setBack, shown, flow>>
  BY DEF Commit, Remember, clockVars
<1>2. call[c] # Free /\ call[c] \in Calls
  BY <1>1, FreeCall DEF RowInv, RowTypeOK
<1>3. row \in Row /\ row.level < MaxLevel /\ holder = c
  BY <1>1 DEF RowInv, RowTypeOK, LocksHold
<1>4. /\ updated.level = row.level + 1 /\ updated.version = NextVersion(row.version)
      /\ NextVersion(row.version) \in Nat
      /\ NextVersion(row.version) > row.version
           \/ (NextVersion(row.version) = row.version /\ row.version \in rewritten')
      /\ row.version \in Nat /\ clock \in Reading
  BY <1>1, <1>3, VersionGrows DEF RowInv, RowTypeOK, Row
<1>5. row' \in Row
  BY <1>1, <1>3, <1>4, SizeAssumption DEF Row
<1>6. /\ done \in Calls /\ done # Free /\ done.stage = "updated" /\ done.tab = call[c].tab
      /\ done.seen = call[c].seen /\ done.result = row'
  BY <1>1, <1>2, <1>5, CallFields DEF Calls, Free
<1>7. /\ call' \in [Call -> Calls] /\ call'[c] = done
      /\ \A d \in Call : d # c => call'[d] = call[d]
  BY <1>1, <1>6 DEF RowInv, RowTypeOK
<1>8. ASSUME NEW s, Fits(s) PROVE Fits(s)'
  BY <1>1, <1>3, <1>4, <1>8 DEF Fits, IsCurrent, Row
<1>9. Fits(row)'
  BY <1>5 DEF Fits, IsCurrent, Row
<1>10. \A d \in Call : /\ call'[d] # Free <=> call[d] # Free
                       /\ call[d] # Free => call'[d].tab = call[d].tab /\ call'[d].seen = call[d].seen
  BY <1>2, <1>6, <1>7
<1>11. RowTypeOK'
  <2>1. \A u \in Tab : OneRequest(u)'
    BY <1>1, <1>10, SameRequests DEF RowInv, RowTypeOK
  <2>2. rewritten' \subseteq Nat
    BY <1>1, <1>4 DEF RowInv, RowTypeOK
  <2> QED
    BY <1>1, <1>5, <1>7, <2>1, <2>2 DEF RowInv, RowTypeOK
<1>12. PagesFit'
  <2> SUFFICES ASSUME NEW u \in Tab, shown[u] # None PROVE Fits(shown[u])'
    BY <1>1 DEF PagesFit
  <2> QED
    BY <1>1, <1>8 DEF RowInv, PagesFit, Fits
<1>13. CallsFit'
  <2> SUFFICES ASSUME NEW d \in Call, call'[d] # Free
               PROVE  /\ Fits(call[d].seen)'
                      /\ call'[d].stage = "updated" => Fits(call[d].result)'
    BY DEF CallsFit
  <2>1. CASE d = c
    BY <1>2, <1>6, <1>7, <1>8, <1>9, <2>1 DEF RowInv, CallsFit, Fits
  <2>2. CASE d # c
    BY <1>7, <1>8, <2>2 DEF RowInv, CallsFit, Fits
  <2> QED
    BY <2>1, <2>2
<1>14. LocksHold'
  BY <1>3, <1>6, <1>7 DEF RowInv, LocksHold
<1>15. ClockLeads'
  <2> SUFFICES ASSUME ~setBack PROVE ClockLeads'
    BY <1>1 DEF ClockLeads
  <2>1. rewritten = {} /\ call[c].seen.version < clock.micro
    BY <1>2 DEF RowInv, ClockLeads
  <2>2. clock.micro > row.version
    BY <1>1, <2>1 DEF RowInv, LocksHold, IsCurrent
  <2>3. ~InItsMicrosecond(row.version) /\ NextVersion(row.version) = clock.micro
    BY <1>4, <2>2, VersionGrows DEF InItsMicrosecond, Reading
  <2>4. rewritten' = {} /\ row'.version = clock.micro /\ clock.micro <= clock.micro
    BY <1>1, <1>4, <2>1, <2>3 DEF Reading
  <2>5. \A d \in Call : call'[d] # Free => call'[d].seen.version < clock.micro
    BY <1>10 DEF RowInv, ClockLeads
  <2> QED
    BY <1>1, <2>4, <2>5 DEF ClockLeads
<1> QED
  BY <1>11, <1>12, <1>13, <1>14, <1>15 DEF RowInv

(* When a request ends, or nobody waits for it any more, its tab, if it has*)
(* one, waits for none; the other tabs notice nothing.                     *)
LEMMA RequestEnds ==
  ASSUME RowInv, NEW c \in Call, call[c] # Free,
         NEW u \in Tab, call[c].tab # u => flow'[u] = flow[u] /\ shown'[u] = shown[u],
         call[c].tab = u => (flow'[u] # "closed" => shown'[u] # None),
         call'[c] = Free \/ (call'[c].tab # u /\ call'[c].seen = call[c].seen),
         \A d \in Call : d # c => call'[d] = call[d]
  PROVE  OneRequest(u)'
<1>1. /\ flow[u] # "closed" => shown[u] # None
      /\ \A x \in Call : call[x] # Free /\ call[x].tab = u => flow[u] = "submitting" /\ call[x].seen = shown[u]
  BY DEF RowInv, RowTypeOK, OneRequest
<1>2. \A x, y \in Call : call[x] # Free /\ call[y] # Free /\ call[x].tab = u /\ call[y].tab = u => x = y
  BY DEF RowInv, RowTypeOK, OneRequest
<1>3. \A x \in Call : call'[x] # Free /\ call'[x].tab = u =>
        x # c /\ call'[x] = call[x] /\ call[x] # Free /\ call[x].tab = u
  OBVIOUS
<1>4. \A x \in Call : call'[x] # Free /\ call'[x].tab = u => call[c].tab # u
  BY <1>2, <1>3
<1>5. flow'[u] # "closed" => shown'[u] # None
  BY <1>1
<1>6. \A x \in Call : call'[x] # Free /\ call'[x].tab = u => flow'[u] = "submitting" /\ call'[x].seen = shown'[u]
  BY <1>1, <1>3, <1>4
<1>7. \A x, y \in Call : call'[x] # Free /\ call'[y] # Free /\ call'[x].tab = u /\ call'[y].tab = u => x = y
  BY <1>2, <1>3
<1> QED
  BY <1>5, <1>6, <1>7 DEF OneRequest

LEMMA AnswerKeeps ==
  ASSUME RowInv, NEW c \in Call, Answer(c)
  PROVE  RowInv'
<1> DEFINE t == call[c].tab
<1>1. /\ call[c].stage \in {"updated", "conflict", "failed"}
      /\ call' = [call EXCEPT ![c] = Free]
      /\ UNCHANGED <<clock, setBack, row, rewritten, holder>>
  BY DEF Answer, clockVars, tableVars
<1>2. call[c] # Free /\ call[c] \in Calls
  BY <1>1, FreeCall DEF RowInv, RowTypeOK
<1>3. t \in Tab \cup {None} /\ (call[c].stage = "updated" => call[c].result \in Row)
  BY <1>2, CallFields
<1>4. CASE t = None
  <2>1. shown' = shown /\ flow' = flow
    BY <1>4 DEF Answer
  <2>2. \A u \in Tab : call[c].tab # u
    BY <1>4, NoneAssumption
  <2>3. call' \in [Call -> Calls] /\ call'[c] = Free /\ \A d \in Call : d # c => call'[d] = call[d]
    BY <1>1, FreeCall DEF RowInv, RowTypeOK
  <2>4. \A u \in Tab : OneRequest(u)'
    BY <1>2, <2>1, <2>2, <2>3, RequestEnds
  <2>5. RowTypeOK'
    BY <1>1, <2>1, <2>3, <2>4 DEF RowInv, RowTypeOK
  <2>6. PagesFit'
    BY <1>1, <2>1 DEF RowInv, PagesFit, Fits, IsCurrent
  <2>7. CallsFit' /\ LocksHold'
    BY <1>1, <2>3, FreeCall DEF RowInv, CallsFit, LocksHold, Fits, IsCurrent
  <2>8. ClockLeads'
    BY <1>1, <2>3, ClockStillLeads DEF RowInv
  <2> QED
    BY <2>5, <2>6, <2>7, <2>8 DEF RowInv
<1>5. CASE t # None
  <2>1. t \in Tab
    BY <1>3, <1>5
  <2>2. PICK f \in {"closed", "conflict", "open"} :
          /\ flow' = [flow EXCEPT ![t] = f]
          /\ \/ shown' = shown
             \/ call[c].stage = "updated" /\ shown' = [shown EXCEPT ![t] = call[c].result]
    <3>1. CASE call[c].stage = "updated"
      BY <1>5, <3>1 DEF Answer
    <3>2. CASE call[c].stage = "conflict"
      BY <1>5, <3>2 DEF Answer
    <3>3. CASE call[c].stage = "failed"
      BY <1>5, <3>3 DEF Answer
    <3> QED
      BY <1>1, <3>1, <3>2, <3>3
  <2>3. call' \in [Call -> Calls] /\ call'[c] = Free /\ \A d \in Call : d # c => call'[d] = call[d]
    BY <1>1, FreeCall DEF RowInv, RowTypeOK
  <2>4. shown[t] # None
    BY <1>2, <2>1 DEF RowInv, RowTypeOK, OneRequest
  <2>5. call[c].stage = "updated" => call[c].result # None
    BY <1>3, NoneIsNoRow
  <2>6. flow' \in [Tab -> Flow] /\ shown' \in [Tab -> Row \cup {None}]
    BY <1>3, <2>2 DEF RowInv, RowTypeOK, Flow
  <2>7. shown'[t] # None
    BY <2>1, <2>2, <2>4, <2>5 DEF RowInv, RowTypeOK
  <2>8. \A u \in Tab : u # t => flow'[u] = flow[u] /\ shown'[u] = shown[u]
    BY <2>2 DEF RowInv, RowTypeOK
  <2>9. \A u \in Tab : OneRequest(u)'
    BY <1>2, <2>3, <2>7, <2>8, RequestEnds
  <2>10. RowTypeOK'
    BY <1>1, <2>3, <2>6, <2>9 DEF RowInv, RowTypeOK
  <2>11. PagesFit'
    BY <1>1, <1>2, <2>1, <2>2 DEF RowInv, RowTypeOK, PagesFit, CallsFit, Fits, IsCurrent
  <2>12. CallsFit' /\ LocksHold'
    BY <1>1, <2>3, FreeCall DEF RowInv, CallsFit, LocksHold, Fits, IsCurrent
  <2>13. ClockLeads'
    BY <1>1, <2>3, ClockStillLeads DEF RowInv
  <2> QED
    BY <2>10, <2>11, <2>12, <2>13 DEF RowInv
<1> QED
  BY <1>4, <1>5

LEMMA LoseAnswerKeeps ==
  ASSUME RowInv, NEW c \in Call, LoseAnswer(c)
  PROVE  RowInv'
<1> DEFINE t == call[c].tab
           lost == [call[c] EXCEPT !.tab = None]
<1>1. /\ call[c] # Free /\ t # None
      /\ flow' = [flow EXCEPT ![t] = "open"]
      /\ call' = [call EXCEPT ![c].tab = None]
      /\ UNCHANGED <<clock, setBack, row, rewritten, holder, shown>>
  BY DEF LoseAnswer, clockVars, tableVars
<1>2. call[c] \in Calls /\ t \in Tab
  BY <1>1, CallFields DEF RowInv, RowTypeOK
<1>3. call'[c] = lost /\ (\A d \in Call : d # c => call'[d] = call[d]) /\ DOMAIN call' = Call
  BY <1>1 DEF RowInv, RowTypeOK
<1>4. /\ lost \in Calls /\ lost # Free /\ lost.stage = call[c].stage
      /\ lost.tab = None /\ lost.seen = call[c].seen
      /\ call[c].stage = "updated" => lost.result = call[c].result
  BY <1>1, <1>2, Orphaned
<1>5. call' \in [Call -> Calls] /\ flow' \in [Tab -> Flow]
  BY <1>1, <1>3, <1>4 DEF RowInv, RowTypeOK, Flow
<1>6. shown[t] # None
  BY <1>1, <1>2 DEF RowInv, RowTypeOK, OneRequest
<1>7. \A u \in Tab : OneRequest(u)'
  <2> SUFFICES ASSUME NEW u \in Tab PROVE OneRequest(u)'
    OBVIOUS
  <2>1. t # u => flow'[u] = flow[u] /\ shown'[u] = shown[u]
    BY <1>1 DEF RowInv, RowTypeOK
  <2>2. t = u => shown'[u] # None
    BY <1>1, <1>6
  <2>3. call'[c].tab # u /\ call'[c].seen = call[c].seen
    BY <1>3, <1>4, NoneAssumption
  <2> QED
    BY <1>1, <1>3, <2>1, <2>2, <2>3, RequestEnds
<1>8. RowTypeOK'
  BY <1>1, <1>5, <1>7 DEF RowInv, RowTypeOK
<1>9. PagesFit'
  BY <1>1 DEF RowInv, PagesFit, Fits, IsCurrent
<1>10. CallsFit' /\ LocksHold'
  BY <1>1, <1>3, <1>4 DEF RowInv, CallsFit, LocksHold, Fits, IsCurrent
<1>11. ClockLeads'
  BY <1>1, <1>3, <1>4, ClockStillLeads DEF RowInv
<1> QED
  BY <1>8, <1>9, <1>10, <1>11 DEF RowInv

------------------------------------------------------------------------------
LEMMA InitGood == RowInit => RowInv
<1> SUFFICES ASSUME RowInit PROVE RowInv
  OBVIOUS
<1>1. row \in Row /\ clock \in Reading /\ row.version <= clock.micro /\ flow \in [Tab -> Flow]
  BY SizeAssumption DEF RowInit, Row, Reading, Flow
<1>2. \A c \in Call : call[c] = Free
  BY DEF RowInit
<1>3. \A t \in Tab : shown[t] = None /\ flow[t] = "closed"
  BY DEF RowInit
<1>4. RowTypeOK
  BY <1>1, <1>2, <1>3, FreeCall DEF RowInit, RowTypeOK, OneRequest
<1>5. ClockLeads
  BY <1>1, <1>2 DEF RowInit, ClockLeads
<1> QED
  BY <1>2, <1>3, <1>4, <1>5, FreeCall DEF RowInv, PagesFit, CallsFit, LocksHold

LEMMA StepKeeps ==
  ASSUME RowInv, [RowNext]_rowVars
  PROVE  RowInv'
<1>1. CASE Tick \/ StepBack
  <2>1. clock' \in Reading /\ UNCHANGED <<row, rewritten, holder, shown, flow, call>>
    BY <1>1 DEF Tick, StepBack, tableVars
  <2>2. setBack' = TRUE \/ (setBack' = setBack /\ Earlier(clock, clock'))
    BY <1>1 DEF Tick, StepBack
  <2>3. setBack' \in BOOLEAN
    BY <2>2 DEF RowInv, RowTypeOK
  <2>4. ASSUME Earlier(clock, clock'), NEW n \in Nat PROVE
          /\ n <= clock.micro => n <= clock'.micro
          /\ n < clock.micro => n < clock'.micro
    BY <2>1, <2>4 DEF Earlier, Reading, RowInv, RowTypeOK
  <2>5. row.version \in Nat /\ \A c \in Call : call[c] # Free => call[c].seen.version \in Nat
    BY DEF RowInv, RowTypeOK, CallsFit, Fits, Row
  <2>6. ClockLeads'
    BY <2>1, <2>2, <2>4, <2>5 DEF RowInv, ClockLeads
  <2> QED
    BY <2>1, <2>3, <2>6 DEF RowInv, RowTypeOK, OneRequest, PagesFit, CallsFit, LocksHold, Fits, IsCurrent
<1>2. ASSUME NEW t \in Tab, Load(t) PROVE RowInv'
  BY <1>2, LoadKeeps
<1>3. ASSUME NEW t \in Tab, OpenWizard(t) \/ CloseWizard(t) PROVE RowInv'
  BY <1>3, WizardKeeps
<1>4. ASSUME NEW t \in Tab, Leave(t) PROVE RowInv'
  BY <1>4, LeaveKeeps
<1>5. ASSUME NEW t \in Tab, NEW c \in Call, ConfirmLevelUp(t, c) PROVE RowInv'
  BY <1>5, ConfirmKeeps
<1>6. ASSUME NEW c \in Call, LockAndCompare(c) \/ Fail(c) PROVE RowInv'
  BY <1>6, CompareKeeps
<1>7. ASSUME NEW c \in Call, Commit(c) PROVE RowInv'
  BY <1>7, CommitKeeps
<1>8. ASSUME NEW c \in Call, Answer(c) PROVE RowInv'
  BY <1>8, AnswerKeeps
<1>9. ASSUME NEW c \in Call, LoseAnswer(c) PROVE RowInv'
  BY <1>9, LoseAnswerKeeps
<1>10. CASE UNCHANGED rowVars
  BY <1>10 DEF rowVars, clockVars, tableVars, RowInv, RowTypeOK, OneRequest, PagesFit, CallsFit, LocksHold, ClockLeads, Fits, IsCurrent
<1> QED
  BY <1>1, <1>2, <1>3, <1>4, <1>5, <1>6, <1>7, <1>8, <1>9, <1>10 DEF RowNext

(* Only a commit touches the row, and it is the snapshot's.                *)
LEMMA RowStep ==
  ASSUME RowInv, [RowNext]_rowVars, row'.level # row.level
  PROVE  \E c \in Call : call[c].stage = "locked" /\ call'[c].stage = "updated" /\ IsCurrent(call[c].seen)
<1>1. PICK c \in Call : Commit(c)
  BY DEF RowNext, rowVars, tableVars, Tick, StepBack, Load, OpenWizard, CloseWizard, Leave, ConfirmLevelUp, LockAndCompare,
         Fail, Answer, LoseAnswer
<1>2. call[c].stage = "locked" /\ call'[c].stage = "updated"
  BY <1>1 DEF Commit, RowInv, RowTypeOK
<1>3. IsCurrent(call[c].seen)
  BY <1>2 DEF RowInv, LocksHold
<1> QED
  BY <1>2, <1>3

(* Whatever else the pages, requests and answers of any number of tabs do, *)
(* nothing leaves its kind, no level passes the cap, and a wizard that     *)
(* waits has exactly the request it sent (LevelUpFlow.tsx:253).            *)
THEOREM RowTypeCorrect == RowSpec => []RowTypeOK
<1>1. RowInit => RowInv
  BY InitGood
<1>2. RowInv /\ [RowNext]_rowVars => RowInv'
  BY StepKeeps
<1>3. RowInv => RowTypeOK
  BY DEF RowInv
<1> QED
  BY <1>1, <1>2, <1>3, PTL DEF RowSpec

(* However the clock is set, updated_at never goes back, and a snapshot    *)
(* that carries the row's is the row (repository.go:240, the fallback to   *)
(* one microsecond more). It repeats in one case only, which takes a clock *)
(* set back: a commit later in the microsecond that the old value names.   *)
THEOREM VersionsNeverReturn == RowSpec => []VersionsIdentifyRows
<1>1. RowInit => RowInv
  BY InitGood
<1>2. RowInv /\ [RowNext]_rowVars => RowInv'
  BY StepKeeps
<1>3. RowInv => VersionsIdentifyRows
  <2> SUFFICES ASSUME RowInv PROVE VersionsIdentifyRows
    OBVIOUS
  <2>1. rewritten # {} => setBack
    BY DEF RowInv, ClockLeads
  <2> QED
    BY <2>1 DEF RowInv, PagesFit, CallsFit, Fits, VersionsIdentifyRows
<1> QED
  BY <1>1, <1>2, <1>3, PTL DEF RowSpec

(* A level is only ever added to the sheet the user confirmed it for: the  *)
(* row is held from the comparison with expectedUpdatedAt to the UPDATE    *)
(* (repository.go:188 to 278). The exception is a version that was written *)
(* over itself, as VersionsIdentifyRows has it.                            *)
THEOREM LevelsAreConfirmed == RowSpec => LevelsWhatWasSeen
<1>1. RowInit => RowInv
  BY InitGood
<1>2. RowInv /\ [RowNext]_rowVars => RowInv'
  BY StepKeeps
<1>3. RowInv /\ [RowNext]_rowVars =>
        [row'.level # row.level =>
           \E c \in Call : /\ call[c].stage = "locked" /\ call'[c].stage = "updated"
                           /\ IsCurrent(call[c].seen)]_rowVars
  BY RowStep
<1> QED
  BY <1>1, <1>2, <1>3, PTL DEF RowSpec, LevelsWhatWasSeen

-----------------------------------------------------------------------------
(***************************************************************************)
(* The level-up wizard of one character, for any tables of classes and     *)
(* choices with the facts ClassRules and LevelUpServer state of them, any  *)
(* saved sheet the server may hold, and every way of filling in the steps. *)
(*                                                                         *)
(* The invariant, IInv, says of the open wizard that its plan is the       *)
(* sheet's, that its step is one of the plan's and that its draft fits it; *)
(* at the review, that every step of the plan is valid. Step validity is   *)
(* the page's (StepValid), acceptance the server's (AcceptedV1 and the V2  *)
(* checks): that the first gives the second is the long part, one group of *)
(* lemmas per field of the request.                                        *)
(***************************************************************************)

Ids(c) == { choice.id : choice \in ChoicesOf(c) }

SheetFields ==
  {"schema", "class", "level", "subclass", "recorded", "boon", "skilled", "cantrips", "leveled",
   "con", "cast", "scores", "gains", "max", "current"}

(* The types of a sheet's fields, apart from the condition on its maximum. *)
LEMMA SheetTypes ==
  ASSUME NEW s, IsSheet(s)
  PROVE  /\ s.schema \in {"V1", "V2"} /\ s.class \in DOMAIN Classes /\ s.level \in 1 .. 4
         /\ s.subclass \in {"none", "srd", "manual"}
         /\ s.recorded \in [Ids(s.class) -> 0 .. Whole] /\ s.boon \in BOOLEAN
         /\ s.cantrips \in Nat /\ s.leveled \in Nat /\ s.con \in 1 .. 30 /\ s.cast \in 1 .. 30
         /\ s.gains \in [1 .. s.level - 1 -> 1 .. Classes[s.class].hitDie]
         /\ s.max \in Nat /\ s.current \in Nat
         /\ DOMAIN s = SheetFields
BY DEF IsSheet, Ids, SheetFields

(* The fields of the V1 sheet of the next level.                           *)
LEMMA LeveledV1Fields ==
  ASSUME NEW s, IsSheet(s), NEW r
  PROVE  LET t == LeveledV1(s, r) IN
         /\ DOMAIN t = SheetFields
         /\ t.schema = s.schema /\ t.class = s.class /\ t.level = s.level + 1
         /\ t.subclass = SubclassAfter(s, r) /\ t.recorded = RecordedV1(s, r)
         /\ t.skilled = s.skilled /\ t.cantrips = s.cantrips + r.spells.cantrips
         /\ t.leveled = s.leveled + r.spells.learned + r.spells.spellbook
         /\ t.con = s.con + r.improvement.con /\ t.cast = s.cast + r.improvement.cast
         /\ t.gains = Append(s.gains, r.die)
         /\ t.max = s.max + IncreaseV1(s, r)
         /\ t.current = CurrentAfter(s, r, s.max + IncreaseV1(s, r))
<1>1. DOMAIN s = SheetFields
  BY SheetTypes
<1>2. QED BY <1>1 DEF LeveledV1, SheetFields

-----------------------------------------------------------------------------
(* The steps of a plan.                                                    *)
Occurs(x, q) == \E i \in 1 .. Len(q) : q[i] = x

(* What occurs in a concatenation, and where.                              *)
LEMMA Joined ==
  ASSUME NEW S, NEW q \in Seq(S), NEW r \in Seq(S)
  PROVE  /\ q \o r \in Seq(S) /\ Len(q \o r) = Len(q) + Len(r)
         /\ Len(q) \in Nat /\ Len(r) \in Nat
         /\ \A i \in 1 .. Len(q) : (q \o r)[i] = q[i]
         /\ \A i \in 1 .. Len(r) : (q \o r)[Len(q) + i] = r[i]
         /\ \A x : Occurs(x, q \o r) <=> Occurs(x, q) \/ Occurs(x, r)
<1>1. /\ q \o r \in Seq(S) /\ Len(q \o r) = Len(q) + Len(r)
      /\ \A i \in 1 .. Len(q) + Len(r) :
           (q \o r)[i] = IF i <= Len(q) THEN q[i] ELSE r[i - Len(q)]
  BY ConcatProperties
<1>2. Len(q) \in Nat /\ Len(r) \in Nat
  BY LenProperties
<1>3. \A i \in 1 .. Len(q) : i \in 1 .. Len(q) + Len(r) /\ (q \o r)[i] = q[i]
  BY <1>1, <1>2
<1>4. \A i \in 1 .. Len(r) : Len(q) + i \in 1 .. Len(q) + Len(r) /\ (q \o r)[Len(q) + i] = r[i]
  <2> TAKE i \in 1 .. Len(r)
  <2>1. Len(q) + i \in 1 .. Len(q) + Len(r) /\ ~ (Len(q) + i <= Len(q)) /\ Len(q) + i - Len(q) = i
    BY <1>2
  <2>2. QED BY <1>1, <2>1
<1>5. ASSUME NEW x, Occurs(x, q \o r) PROVE Occurs(x, q) \/ Occurs(x, r)
  <2>1. PICK i \in 1 .. Len(q) + Len(r) : (q \o r)[i] = x
    BY <1>1, <1>5 DEF Occurs
  <2>2. CASE i <= Len(q)
    BY <1>1, <1>2, <2>1, <2>2 DEF Occurs
  <2>3. CASE ~ (i <= Len(q))
    <3>1. i - Len(q) \in 1 .. Len(r)
      BY <1>2, <2>3
    <3>2. QED BY <1>1, <2>1, <2>3, <3>1 DEF Occurs
  <2>4. QED BY <2>2, <2>3
<1>6. ASSUME NEW x, Occurs(x, q) \/ Occurs(x, r) PROVE Occurs(x, q \o r)
  BY <1>1, <1>3, <1>4, <1>6 DEF Occurs
<1>7. QED BY <1>1, <1>2, <1>3, <1>4, <1>5, <1>6

Maybe(condition, name) == IF condition THEN << name >> ELSE << >>

(* A plan's optional step, by itself.                                      *)
LEMMA One ==
  ASSUME NEW S, NEW name \in S
  PROVE  /\ << name >> \in Seq(S)
         /\ \A x : Occurs(x, << name >>) <=> x = name
<1>1. << name >> \in Seq(S) /\ Len(<< name >>) = 1 /\ << name >>[1] = name
  OBVIOUS
<1>2. \A i \in 1 .. 1 : i = 1
  OBVIOUS
<1>3. 1 \in 1 .. 1
  OBVIOUS
<1>4. QED BY <1>1, <1>2, <1>3 DEF Occurs

(* The two steps every plan starts with.                                   *)
LEMMA Two ==
  ASSUME NEW S, NEW n \in S, NEW m \in S
  PROVE  /\ << n, m >> \in Seq(S) /\ Len(<< n, m >>) = 2
         /\ << n, m >>[1] = n /\ << n, m >>[2] = m
         /\ \A x : Occurs(x, << n, m >>) <=> x = n \/ x = m
<1>1. /\ << n, m >> \in Seq(S) /\ Len(<< n, m >>) = 2
      /\ << n, m >>[1] = n /\ << n, m >>[2] = m
  OBVIOUS
<1>2. \A i \in 1 .. 2 : i = 1 \/ i = 2
  OBVIOUS
<1>3. 1 \in 1 .. 2 /\ 2 \in 1 .. 2
  OBVIOUS
<1>4. QED BY <1>1, <1>2, <1>3 DEF Occurs

Extends(r, q, S, condition, name) ==
  /\ r \in Seq(S) /\ Len(r) \in Nat /\ Len(r) >= 2 /\ r[1] = q[1] /\ r[2] = q[2]
  /\ \A x : Occurs(x, r) <=> Occurs(x, q) \/ (condition /\ x = name)

(* A step that is appended on a condition occurs at the end, if at all.    *)
LEMMA Extended ==
  ASSUME NEW S, NEW q \in Seq(S), Len(q) >= 2, NEW condition \in BOOLEAN, NEW name \in S
  PROVE  Extends(q \o Maybe(condition, name), q, S, condition, name)
<1> DEFINE t == Maybe(condition, name)  r == q \o t
<1>1. /\ t \in Seq(S)
      /\ \A x : Occurs(x, t) <=> condition /\ x = name
  <2>1. CASE condition
    <3>1. t = << name >>
      BY <2>1 DEF Maybe
    <3>2. QED BY <2>1, <3>1, One
  <2>2. CASE ~condition
    <3>1. t = << >>
      BY <2>2 DEF Maybe
    <3>2. << >> \in Seq(S) /\ Len(<< >>) = 0 /\ ~ \E i \in 1 .. 0 : TRUE
      OBVIOUS
    <3>3. \A x : ~Occurs(x, << >>)
      BY <3>2 DEF Occurs
    <3>4. QED BY <2>2, <3>1, <3>2, <3>3
  <2>3. QED BY <2>1, <2>2
<1> HIDE DEF t
<1>2. /\ r \in Seq(S) /\ Len(r) = Len(q) + Len(t) /\ Len(q) \in Nat /\ Len(t) \in Nat
      /\ \A i \in 1 .. Len(q) : r[i] = q[i]
      /\ \A x : Occurs(x, r) <=> Occurs(x, q) \/ Occurs(x, t)
  BY <1>1, Joined
<1>3. 1 \in 1 .. Len(q) /\ 2 \in 1 .. Len(q) /\ Len(q) + Len(t) >= 2 /\ Len(q) + Len(t) \in Nat
  BY <1>2
<1> HIDE DEF r
<1>4. Extends(r, q, S, condition, name)
  BY <1>1, <1>2, <1>3 DEF Extends
<1>5. QED BY <1>4 DEF r, t

StepNames ==
  {"prerequisites", "hp", "subclass", "asi", "spells", "class-specific", "confirm-retained", "review"}

AsksForSubclass(s) ==
  /\ s.level + 1 >= Classes[s.class].subclassDecisionLevel
  /\ s.subclass = "none" /\ ~MissingSubclass(s)

(* Which steps a plan has; the review is the last and only then.           *)
LEMMA StepsOccur ==
  ASSUME NEW s
  PROVE  LET q == StepsOf(s) IN
         /\ q \in Seq(StepNames) /\ Len(q) \in Nat /\ Len(q) >= 4
         /\ q[1] = "prerequisites" /\ q[2] = "hp"
         /\ \A i \in 1 .. Len(q) : q[i] = "review" => i = Len(q)
         /\ Occurs("prerequisites", q) /\ Occurs("confirm-retained", q)
         /\ Occurs("subclass", q) <=> AsksForSubclass(s)
         /\ Occurs("asi", q) <=> s.level + 1 = ImprovementLevel
         /\ Occurs("spells", q) <=> Casts(s.class, s.level + 1)
         /\ Occurs("class-specific", q) <=> AsksForChoices(s)
<1> DEFINE a == << "prerequisites", "hp" >>
           b == a \o Maybe(AsksForSubclass(s), "subclass")
           c == b \o Maybe(s.level + 1 = ImprovementLevel, "asi")
           d == c \o Maybe(Casts(s.class, s.level + 1), "spells")
           e == d \o Maybe(AsksForChoices(s), "class-specific")
           z == << "confirm-retained", "review" >>
<1>1. StepsOf(s) = e \o z
  BY DEF StepsOf, Maybe, AsksForSubclass
<1>2. /\ AsksForSubclass(s) \in BOOLEAN /\ (s.level + 1 = ImprovementLevel) \in BOOLEAN
      /\ Casts(s.class, s.level + 1) \in BOOLEAN /\ AsksForChoices(s) \in BOOLEAN
  BY DEF AsksForSubclass, Casts, AsksForChoices
<1>0. /\ "prerequisites" \in StepNames /\ "hp" \in StepNames /\ "subclass" \in StepNames
      /\ "asi" \in StepNames /\ "spells" \in StepNames /\ "class-specific" \in StepNames
      /\ "confirm-retained" \in StepNames /\ "review" \in StepNames
  BY DEF StepNames
<1>3. /\ a \in Seq(StepNames) /\ Len(a) = 2 /\ Len(a) >= 2 /\ a[1] = "prerequisites" /\ a[2] = "hp"
      /\ \A x : Occurs(x, a) <=> x = "prerequisites" \/ x = "hp"
  BY <1>0, Two
<1>4. /\ z \in Seq(StepNames) /\ Len(z) = 2 /\ z[1] = "confirm-retained" /\ z[2] = "review"
      /\ \A x : Occurs(x, z) <=> x = "confirm-retained" \/ x = "review"
  BY <1>0, Two
<1> HIDE DEF a, z
<1>5. Extends(b, a, StepNames, AsksForSubclass(s), "subclass")
  <2>1. a \in Seq(StepNames) /\ Len(a) >= 2
    BY <1>3
  <2>2. QED BY <1>0, <1>2, <2>1, Extended
<1> HIDE DEF b
<1>6. Extends(c, b, StepNames, s.level + 1 = ImprovementLevel, "asi")
  <2>1. b \in Seq(StepNames) /\ Len(b) >= 2
    BY <1>5 DEF Extends
  <2>2. QED BY <1>0, <1>2, <2>1, Extended
<1> HIDE DEF c
<1>7. Extends(d, c, StepNames, Casts(s.class, s.level + 1), "spells")
  <2>1. c \in Seq(StepNames) /\ Len(c) >= 2
    BY <1>6 DEF Extends
  <2>2. QED BY <1>0, <1>2, <2>1, Extended
<1> HIDE DEF d
<1>8. Extends(e, d, StepNames, AsksForChoices(s), "class-specific")
  <2>1. d \in Seq(StepNames) /\ Len(d) >= 2
    BY <1>7 DEF Extends
  <2>2. QED BY <1>0, <1>2, <2>1, Extended
<1> HIDE DEF e
<1> DEFINE q == e \o z
<1> USE DEF Extends
<1>9. /\ q \in Seq(StepNames) /\ Len(q) = Len(e) + 2 /\ q[1] = "prerequisites" /\ q[2] = "hp"
      /\ \A i \in 1 .. Len(e) : q[i] = e[i]
      /\ q[Len(e) + 1] = "confirm-retained"
      /\ \A x : Occurs(x, q) <=> Occurs(x, e) \/ x = "confirm-retained" \/ x = "review"
  <2>0. e \in Seq(StepNames) /\ z \in Seq(StepNames)
    BY <1>4, <1>8
  <2>1. /\ q \in Seq(StepNames) /\ Len(q) = Len(e) + Len(z)
        /\ \A i \in 1 .. Len(e) : q[i] = e[i]
        /\ \A i \in 1 .. Len(z) : q[Len(e) + i] = z[i]
        /\ \A x : Occurs(x, q) <=> Occurs(x, e) \/ Occurs(x, z)
    BY <2>0, Joined
  <2>2. 1 \in 1 .. Len(e) /\ 2 \in 1 .. Len(e) /\ 1 \in 1 .. Len(z)
    BY <1>4, <1>8
  <2> HIDE DEF q
  <2>3. q[1] = "prerequisites" /\ q[2] = "hp" /\ q[Len(e) + 1] = "confirm-retained"
    BY <1>3, <1>4, <1>5, <1>6, <1>7, <1>8, <2>1, <2>2
  <2>4. QED BY <1>4, <2>1, <2>3
<1> HIDE DEF q
<1>10. \A x : Occurs(x, q) <=>
          \/ x \in {"prerequisites", "hp", "confirm-retained", "review"}
          \/ AsksForSubclass(s) /\ x = "subclass"
          \/ s.level + 1 = ImprovementLevel /\ x = "asi"
          \/ Casts(s.class, s.level + 1) /\ x = "spells"
          \/ AsksForChoices(s) /\ x = "class-specific"
  <2> TAKE x
  <2>1. Occurs(x, q) <=> Occurs(x, e) \/ x = "confirm-retained" \/ x = "review"
    BY <1>9
  <2>2. Occurs(x, e) <=> Occurs(x, d) \/ (AsksForChoices(s) /\ x = "class-specific")
    BY <1>8
  <2>3. Occurs(x, d) <=> Occurs(x, c) \/ (Casts(s.class, s.level + 1) /\ x = "spells")
    BY <1>7
  <2>4. Occurs(x, c) <=> Occurs(x, b) \/ (s.level + 1 = ImprovementLevel /\ x = "asi")
    BY <1>6
  <2>5. Occurs(x, b) <=> x = "prerequisites" \/ x = "hp" \/ (AsksForSubclass(s) /\ x = "subclass")
    BY <1>3, <1>5
  <2>6. QED BY <2>1, <2>2, <2>3, <2>4, <2>5
<1>r. ~Occurs("review", e)
  <2>1. Occurs("review", e) <=> Occurs("review", d)
    BY <1>8
  <2>2. Occurs("review", d) <=> Occurs("review", c)
    BY <1>7
  <2>3. Occurs("review", c) <=> Occurs("review", b)
    BY <1>6
  <2>4. ~Occurs("review", b)
    BY <1>3, <1>5
  <2>5. QED BY <2>1, <2>2, <2>3, <2>4
<1>11. ASSUME NEW i \in 1 .. Len(q), q[i] = "review" PROVE i = Len(q)
  <2>1. CASE i \in 1 .. Len(e)
    BY <1>r, <1>9, <1>11, <2>1 DEF Occurs
  <2>2. CASE i = Len(e) + 1
    BY <1>9, <1>11, <2>2
  <2>3. QED BY <1>8, <1>9, <2>1, <2>2
<1>12. /\ Occurs("prerequisites", q) /\ Occurs("confirm-retained", q)
       /\ Occurs("subclass", q) <=> AsksForSubclass(s)
       /\ Occurs("asi", q) <=> s.level + 1 = ImprovementLevel
       /\ Occurs("spells", q) <=> Casts(s.class, s.level + 1)
       /\ Occurs("class-specific", q) <=> AsksForChoices(s)
  BY <1>10
<1>13. QED BY <1>1, <1>8, <1>9, <1>11, <1>12 DEF q

-----------------------------------------------------------------------------
(* The inductive invariant. What a draft may hold for a sheet: a subclass  *)
(* and an improvement where the next level has one, an answer that its     *)
(* choice allows, spells that its class can change.                        *)
Answerable(choice, selection) ==
  /\ selection.note => choice.manual /\ selection.n = 0
  /\ ~selection.note /\ choice.options = "none" => selection.n = 0
  /\ selection.mark => selection.n > 0 /\ ~selection.note

ChoicesFit(s, choices) ==
  /\ choices \in [Ids(s.class) -> [n : 0 .. 5, note : BOOLEAN, mark : BOOLEAN]]
  /\ \A choice \in ChoicesOf(s.class) : Answerable(choice, choices[choice.id])

ImprovementOf(s, improvement) ==
  /\ improvement.kind \in {"none", "scores", "feat"}
  /\ improvement.con \in 0 .. 2 /\ improvement.cast \in 0 .. 2
  /\ improvement.kind # "none" => s.level + 1 = ImprovementLevel
  /\ improvement.kind # "scores" => improvement.con = 0 /\ improvement.cast = 0

SpellsFit(s, spells) ==
  LET casting == Classes[s.class].spellcasting IN
  /\ spells.cantrips \in Nat /\ spells.learned \in Nat
  /\ casting.cantripsKnown[s.level + 1] = Null => spells.cantrips = 0
  /\ ~KnowsSpells(s.class) => spells.learned = 0
  /\ casting.mode # "spellbook-prepared" => spells.spellbook = 0
  /\ ~PreparesSpells(s.class) => spells.prepared = 0
  /\ spells.replaced => ReplacementLimit(s.class, s.level + 1) > 0
  /\ spells.listed => s.level + 1 >= Classes[s.class].alwaysFrom

DraftFields == {"die", "current", "subclass", "improvement", "choices", "spells", "retained"}

DraftFits(s, d) ==
  /\ DOMAIN d = DraftFields
  /\ d.die \in 1 .. Classes[s.class].hitDie
  /\ d.subclass \in {"none", "srd", "manual"}
  /\ d.subclass # "none" => s.subclass = "none" /\ s.level + 1 >= Classes[s.class].subclassDecisionLevel
  /\ ImprovementOf(s, d.improvement)
  /\ ChoicesFit(s, d.choices)
  /\ SpellsFit(s, d.spells)

Opened ==
  /\ sheet \in Subjects /\ plan = PlanOf(sheet) /\ step \in 1 .. Len(Steps)
  /\ DraftFits(sheet, draft)

Submitted == Steps[step] = "review" /\ ~plan.blocked

IInv ==
  /\ Opened
  /\ outcome \in {"editing", "saved", "refused"}
  /\ Steps[step] = "review" => AllValid
  /\ outcome # "editing" => Submitted
  /\ outcome = "saved" => Accepts(sheet, Request) /\ result = Leveled(sheet, Request)
  /\ outcome # "saved" => result = sheet
  /\ outcome = "refused" => ~Accepts(sheet, Request)

-----------------------------------------------------------------------------
(* The tables.                                                             *)
LEMMA SpellTables ==
  ASSUME NEW c \in DOMAIN Classes
  PROVE  LET casting == Classes[c].spellcasting IN
         /\ casting.mode \in {"none", "known", "pact-known", "prepared", "spellbook-prepared"}
         /\ casting.since \in 1 .. 6
         /\ \A l \in Level : casting.cantripsKnown[l] \in Nat \cup {Null} /\ casting.spellsKnown[l] \in Nat \cup {Null}
<1>1. Classes[c].spellcasting \in Spellcasting
  BY ClassAssumption
<1>2. QED BY <1>1 DEF Spellcasting

(* The facts of ChoicesAssumption about one choice of a class.             *)
LEMMA ChoiceTables ==
  ASSUME NEW c \in DOMAIN Classes, NEW choice \in ChoicesOf(c)
  PROVE  /\ choice.from \in Level /\ choice.manual \in BOOLEAN
         /\ choice.subclass \in BOOLEAN /\ choice.creation \in BOOLEAN
         /\ \A l \in Level : choice.counts[l] \in 0 .. 5
         /\ \A l \in Level : choice.from <= l => choice.counts[l] > 0
         /\ \A l, m \in Level : l <= m => choice.counts[l] <= choice.counts[m]
         /\ choice.subclass => choice.creation
         /\ choice.options = "none" => choice.manual
         /\ choice.id \in Ids(c)
         /\ \A other \in ChoicesOf(c) : other.id = choice.id => other = choice
<1>1. choice \in Choice
  BY ChoicesAssumption
<1>2. /\ \A l \in Level : choice.from <= l => choice.counts[l] > 0
      /\ \A l, m \in Level : l <= m => choice.counts[l] <= choice.counts[m]
      /\ choice.subclass => choice.creation
      /\ choice.options = "none" => choice.manual
  BY ChoicesAssumption
<1>3. \A other \in ChoicesOf(c) : other.id = choice.id => other = choice
  BY ChoicesAssumption
<1>4. choice.id \in Ids(c)
  BY DEF Ids
<1>5. QED BY <1>1, <1>2, <1>3, <1>4 DEF Choice

(* A sheet and its next level are within the tables.                       *)
LEMMA Levels ==
  ASSUME NEW s, IsSheet(s)
  PROVE  /\ s.class \in DOMAIN Classes /\ s.level \in Level /\ s.level + 1 \in Level
         /\ s.level \in Int /\ s.level + 1 \in Int
BY SheetTypes DEF Level

(* The numbers of a sheet are integers.                                    *)
LEMMA Numbers ==
  ASSUME NEW s, IsSheet(s)
  PROVE  /\ s.con \in Int /\ s.cast \in Int /\ s.level \in Int /\ s.max \in Int
         /\ s.con >= 1
         /\ Classes[s.class].hitDie \in Int
         /\ \A i \in DOMAIN s.gains : s.gains[i] \in Int
<1>1. s.con \in 1 .. 30 /\ s.cast \in 1 .. 30
  BY SheetTypes
<1>2. s.level \in 1 .. 4 /\ s.max \in Nat
  BY SheetTypes
<1>3. Classes[s.class].hitDie \in 6 .. 12
  BY Levels, ClassAssumption
<1>4. s.gains \in [1 .. s.level - 1 -> 1 .. Classes[s.class].hitDie]
  BY SheetTypes
<1>5. \A i \in DOMAIN s.gains : s.gains[i] \in 1 .. Classes[s.class].hitDie
  BY <1>4
<1>6. QED BY <1>1, <1>2, <1>3, <1>5

(* A modifier never falls when its score rises.                            *)
LEMMA Modifiers ==
  ASSUME NEW a \in Int, NEW b \in Int
  PROVE  AbilityModifier(a) \in Int /\ (a <= b => AbilityModifier(a) <= AbilityModifier(b))
BY DEF AbilityModifier

-----------------------------------------------------------------------------
(* What the steps leave in the draft fits the sheet.                       *)
LEMMA EmptyDraftFits ==
  ASSUME NEW s, IsSheet(s)
  PROVE  DraftFits(s, EmptyDraft(s))
<1> DEFINE d == EmptyDraft(s)
<1>1. /\ DOMAIN d = DraftFields /\ d.die = Classes[s.class].fixedAverageHp /\ d.subclass = "none"
      /\ d.improvement = NoImprovement /\ d.spells = NoSpells
      /\ d.choices = [id \in DOMAIN s.recorded |-> NotSent]
  BY DEF EmptyDraft, DraftFields
<1> HIDE DEF d
<1>2. d.die \in 1 .. Classes[s.class].hitDie
  BY <1>1, SheetTypes, ClassAssumption
<1>3. ImprovementOf(s, d.improvement)
  BY <1>1 DEF ImprovementOf, NoImprovement
<1>4. ChoicesFit(s, d.choices)
  <2>1. DOMAIN s.recorded = Ids(s.class)
    BY SheetTypes
  <2>2. NotSent \in [n : 0 .. 5, note : BOOLEAN, mark : BOOLEAN]
    BY DEF NotSent
  <2>3. \A choice \in ChoicesOf(s.class) : d.choices[choice.id] = NotSent
    BY <1>1, <2>1 DEF Ids
  <2>4. \A choice : Answerable(choice, NotSent)
    BY DEF Answerable, NotSent
  <2>5. QED BY <1>1, <2>1, <2>2, <2>3, <2>4 DEF ChoicesFit
<1>5. SpellsFit(s, d.spells)
  BY <1>1 DEF SpellsFit, NoSpells
<1>6. DraftFits(s, d)
  BY <1>1, <1>2, <1>3, <1>4, <1>5 DEF DraftFits
<1>7. QED BY <1>6 DEF d

(* The spells the step offers.                                             *)
LEMMA SelectionsFit ==
  ASSUME IsSheet(sheet), NEW spells \in SpellSelections
  PROVE  SpellsFit(sheet, spells)
<1> DEFINE casting == Classes[sheet.class].spellcasting
<1>1. /\ spells.cantrips = AtLeast(0, casting.cantripsKnown[Target] - CantripsListed)
      /\ spells.learned = IF KnowsSpells(sheet.class) THEN AtLeast(0, casting.spellsKnown[Target] - sheet.leveled) ELSE 0
      /\ spells.spellbook = IF casting.mode = "spellbook-prepared" THEN SpellbookAdditions ELSE 0
      /\ spells.prepared = PreparedCount
      /\ spells.replaced => ReplacementLimit(sheet.class, Target) > 0
      /\ spells.listed => Target >= Classes[sheet.class].alwaysFrom
  BY DEF SpellSelections, Rule
<1> HIDE DEF casting
<1>2. Target \in Level /\ Target = sheet.level + 1
  BY Levels DEF Target
<1>3. casting.cantripsKnown[Target] \in Nat \cup {Null} /\ casting.spellsKnown[Target] \in Nat \cup {Null}
  BY <1>2, SpellTables, Levels DEF casting
<1>4. CantripsListed \in Nat
  <2>1. Granted \in Nat
    <3>1. CASE sheet.schema = "V2" /\ sheet.class = "druid"
      <4>1. LandChoice.id \in Ids(sheet.class)
        BY <3>1, Levels, ClassAssumption DEF Ids
      <4>2. sheet.recorded[LandChoice.id] \in 0 .. Whole
        BY <4>1, SheetTypes
      <4>3. QED BY <3>1, <4>2 DEF Granted, Whole
    <3>2. CASE ~(sheet.schema = "V2" /\ sheet.class = "druid")
      BY <3>2 DEF Granted
    <3>3. QED BY <3>1, <3>2
  <2>2. QED BY <2>1, SheetTypes DEF CantripsListed
<1>5. /\ spells.cantrips \in Nat
      /\ casting.cantripsKnown[Target] = Null => spells.cantrips = 0
  BY <1>1, <1>3, <1>4 DEF AtLeast, Null
<1>6. spells.learned \in Nat /\ (~KnowsSpells(sheet.class) => spells.learned = 0)
  BY <1>1, <1>3, SheetTypes DEF AtLeast, Null
<1>7. ~PreparesSpells(sheet.class) => spells.prepared = 0
  BY <1>1 DEF PreparedCount
<1>8. QED BY <1>1, <1>2, <1>5, <1>6, <1>7 DEF SpellsFit, casting

Selection == [n : 0 .. 5, note : BOOLEAN, mark : BOOLEAN]

(* What the choice editor can hold is an answer the choice allows.         *)
LEMMA SelectionAnswers ==
  ASSUME IsSheet(sheet), NEW choice \in ChoicesOf(sheet.class), NEW l \in Level, choice.from <= l,
         NEW selection \in Selections(choice, l)
  PROVE  selection \in Selection /\ Answerable(choice, selection)
<1>1. choice.counts[l] \in 0 .. 5 /\ choice.counts[l] > 0
  BY ChoiceTables, Levels
<1>2. CASE selection = WrittenNote /\ choice.manual
  BY <1>2 DEF WrittenNote, Selection, Answerable
<1>3. CASE HasOptions(sheet, choice) /\ \E mark \in Marks(choice) :
             selection = [n |-> choice.counts[l], note |-> FALSE, mark |-> mark]
  <2>1. PICK mark \in Marks(choice) : selection = [n |-> choice.counts[l], note |-> FALSE, mark |-> mark]
    BY <1>3
  <2>2. mark \in BOOLEAN
    BY DEF Marks
  <2>3. choice.options # "none"
    BY <1>3 DEF HasOptions
  <2>4. QED BY <1>1, <2>1, <2>2, <2>3 DEF Selection, Answerable
<1>4. QED BY <1>2, <1>3 DEF Selections

(* An answer in the editor keeps the other answers as they are.            *)
LEMMA SelectedFits ==
  ASSUME NEW s, s.class \in DOMAIN Classes, NEW choices, ChoicesFit(s, choices),
         NEW choice \in ChoicesOf(s.class), NEW selection \in Selection, Answerable(choice, selection)
  PROVE  ChoicesFit(s, [choices EXCEPT ![choice.id] = selection])
<1> DEFINE next == [choices EXCEPT ![choice.id] = selection]
<1>1. choices \in [Ids(s.class) -> Selection]
  BY DEF ChoicesFit, Selection
<1>2. choice.id \in Ids(s.class) /\ \A other \in ChoicesOf(s.class) : other.id \in Ids(s.class)
  BY DEF Ids
<1>3. /\ next \in [Ids(s.class) -> Selection] /\ next[choice.id] = selection
      /\ \A id \in Ids(s.class) : id # choice.id => next[id] = choices[id]
  BY <1>1, <1>2
<1> HIDE DEF next
<1>4. ASSUME NEW other \in ChoicesOf(s.class) PROVE Answerable(other, next[other.id])
  <2>1. CASE other.id = choice.id
    <3>1. other = choice
      BY <2>1, ChoiceTables
    <3>2. QED BY <1>3, <3>1
  <2>2. CASE other.id # choice.id
    BY <1>2, <1>3, <2>2 DEF ChoicesFit
  <2>3. QED BY <2>1, <2>2
<1>5. ChoicesFit(s, next)
  BY <1>3, <1>4 DEF ChoicesFit, Selection
<1>6. QED BY <1>5 DEF next

(* Withdrawing the answers of lapsed choices leaves the rest as it was.    *)
LEMMA ReconciledFits ==
  ASSUME NEW s, s.class \in DOMAIN Classes, NEW choices, ChoicesFit(s, choices)
  PROVE  ChoicesFit(s, Reconciled(choices))
<1>1. CASE Invocations \in DOMAIN choices /\ choices[Invocations].mark /\ ~BoonActive(choices)
  <2> DEFINE old == choices[Invocations]
             selection == [n |-> old.n - 1, note |-> FALSE, mark |-> FALSE]
  <2>1. Invocations \in Ids(s.class)
    BY <1>1 DEF ChoicesFit
  <2>2. PICK choice \in ChoicesOf(s.class) : choice.id = Invocations
    BY <2>1 DEF Ids
  <2>3. old \in Selection /\ Answerable(choice, old)
    BY <2>1, <2>2 DEF ChoicesFit, Selection
  <2>4. old.n \in 0 .. 5 /\ old.n > 0 /\ ~old.note /\ choice.options # "none"
    BY <1>1, <2>3 DEF Answerable, Selection
  <2>5. selection \in Selection
    BY <2>4 DEF Selection
  <2>6. Answerable(choice, selection)
    BY <2>4 DEF Answerable
  <2> HIDE DEF selection
  <2>7. ChoicesFit(s, [choices EXCEPT ![choice.id] = selection])
    BY <2>5, <2>6, SelectedFits
  <2>8. Reconciled(choices) = [choices EXCEPT ![Invocations] = selection]
    BY <1>1 DEF Reconciled, selection
  <2>9. QED BY <2>2, <2>7, <2>8
<1>2. CASE ~(Invocations \in DOMAIN choices /\ choices[Invocations].mark /\ ~BoonActive(choices))
  BY <1>2 DEF Reconciled
<1>3. QED BY <1>1, <1>2

-----------------------------------------------------------------------------
(* The plan's steps are those of the sheet, and a step that is shown       *)
(* occurs.                                                                 *)
LEMMA StepsOfTheSheet ==
  ASSUME Opened
  PROVE  /\ IsSheet(sheet) /\ Steps = StepsOf(sheet) /\ step \in 1 .. Len(Steps) /\ DOMAIN Steps = 1 .. Len(Steps)
         /\ Len(Steps) \in Nat /\ Len(Steps) >= 4
         /\ Occurs(Steps[step], StepsOf(sheet))
         /\ plan.missing = MissingChoices(sheet) /\ plan.blocked = Blocked(sheet)
<1>1. sheet \in Subjects /\ plan = PlanOf(sheet) /\ step \in 1 .. Len(Steps)
  BY DEF Opened
<1>2. /\ Steps = StepsOf(sheet)
      /\ plan.missing = MissingChoices(sheet) /\ plan.blocked = Blocked(sheet)
  BY <1>1 DEF PlanOf, Steps
<1>3. /\ StepsOf(sheet) \in Seq(StepNames) /\ Len(StepsOf(sheet)) \in Nat /\ Len(StepsOf(sheet)) >= 4
  BY StepsOccur
<1>4. DOMAIN StepsOf(sheet) = 1 .. Len(StepsOf(sheet))
  BY <1>3, LenProperties
<1>5. QED BY <1>1, <1>2, <1>3, <1>4, SubjectsAssumption DEF Occurs

(* An edit before the review keeps the invariant if the draft still fits.  *)
LEMMA AfterEdit ==
  ASSUME IInv, outcome = "editing", Steps[step] # "review", DraftFits(sheet, draft'),
         UNCHANGED << sheet, plan, step, outcome, result >>
  PROVE  IInv'
<1>1. Steps' = Steps
  BY DEF Steps
<1>2. Opened'
  BY <1>1 DEF IInv, Opened
<1>3. Steps'[step'] # "review" /\ outcome' = "editing" /\ result' = sheet'
  BY <1>1 DEF IInv
<1>4. QED BY <1>2, <1>3 DEF IInv

(* The hit points step: the die and the current hit points.                *)
LEMMA EditHitPointsKeeps ==
  ASSUME IInv, EditHitPoints
  PROVE  IInv'
<1>1. Opened /\ DraftFits(sheet, draft) /\ IsSheet(sheet)
  BY StepsOfTheSheet DEF IInv, Opened
<1>2. PICK die \in {Rule.fixedAverageHp, 1}, mode \in {"increase-by-gain", "retain", "manual"} :
        Edit([draft EXCEPT !.die = die,
                           !.current = [mode |-> mode, value |-> IF mode = "manual" THEN ProposedMax ELSE 0]])
  BY DEF EditHitPoints
<1>3. die \in 1 .. Classes[sheet.class].hitDie
  BY <1>1, ClassAssumption, Levels DEF Rule
<1>4. /\ DOMAIN draft' = DOMAIN draft /\ draft'.die = die /\ draft'.subclass = draft.subclass
      /\ draft'.improvement = draft.improvement /\ draft'.choices = draft.choices /\ draft'.spells = draft.spells
  BY <1>1, <1>2 DEF Edit, DraftFits, DraftFields
<1>5. DraftFits(sheet, draft')
  BY <1>1, <1>3, <1>4 DEF DraftFits
<1>6. UNCHANGED << sheet, plan, step, outcome, result >>
  BY <1>2 DEF Edit
<1>7. outcome = "editing" /\ Steps[step] # "review"
  BY DEF EditHitPoints, At
<1>8. QED BY <1>5, <1>6, <1>7, AfterEdit

(* The subclass fields, on their own step or among the prerequisites.      *)
LEMMA EditSubclassKeeps ==
  ASSUME IInv, EditSubclass
  PROVE  IInv'
<1>1. Opened /\ DraftFits(sheet, draft) /\ IsSheet(sheet)
  BY StepsOfTheSheet DEF IInv, Opened
<1>2. PICK subclass \in {"srd", "manual"} : Edit([draft EXCEPT !.subclass = subclass])
  BY DEF EditSubclass
<1>3. sheet.subclass = "none" /\ sheet.level + 1 >= Classes[sheet.class].subclassDecisionLevel
  <2>1. CASE At("subclass")
    <3>1. Occurs("subclass", StepsOf(sheet))
      BY <1>1, <2>1, StepsOfTheSheet DEF At
    <3>2. AsksForSubclass(sheet)
      BY <3>1, StepsOccur
    <3>3. QED BY <3>2 DEF AsksForSubclass
  <2>2. CASE MissingSubclass(sheet)
    <3>1. Classes[sheet.class].subclassDecisionLevel \in 1 .. 3 /\ sheet.level \in Int
      BY <1>1, ClassAssumption, Levels
    <3>2. QED BY <2>2, <3>1 DEF MissingSubclass
  <2>3. QED BY <2>1, <2>2 DEF EditSubclass
<1>4. /\ DOMAIN draft' = DOMAIN draft /\ draft'.die = draft.die /\ draft'.subclass = subclass
      /\ draft'.improvement = draft.improvement /\ draft'.choices = draft.choices /\ draft'.spells = draft.spells
  BY <1>1, <1>2 DEF Edit, DraftFits, DraftFields
<1>5. DraftFits(sheet, draft')
  BY <1>1, <1>3, <1>4 DEF DraftFits
<1>6. UNCHANGED << sheet, plan, step, outcome, result >>
  BY <1>2 DEF Edit
<1>7. outcome = "editing" /\ Steps[step] # "review"
  BY DEF EditSubclass, At
<1>8. QED BY <1>5, <1>6, <1>7, AfterEdit

(* The ability score step.                                                 *)
LEMMA EditImprovementKeeps ==
  ASSUME IInv, EditImprovement
  PROVE  IInv'
<1>1. Opened /\ DraftFits(sheet, draft) /\ IsSheet(sheet)
  BY StepsOfTheSheet DEF IInv, Opened
<1>2. PICK improvement \in [kind : {"scores"}, con : {0, 1, 2}, cast : {0, 1, 2}] \cup {FeatNote} :
        Edit([draft EXCEPT !.improvement = improvement])
  BY DEF EditImprovement
<1>3. sheet.level + 1 = ImprovementLevel
  <2>1. Occurs("asi", StepsOf(sheet))
    BY <1>1, StepsOfTheSheet DEF EditImprovement, At
  <2>2. QED BY <2>1, StepsOccur
<1>4. ImprovementOf(sheet, improvement)
  BY <1>3 DEF ImprovementOf, FeatNote
<1>5. /\ DOMAIN draft' = DOMAIN draft /\ draft'.die = draft.die /\ draft'.subclass = draft.subclass
      /\ draft'.improvement = improvement /\ draft'.choices = draft.choices /\ draft'.spells = draft.spells
  BY <1>1, <1>2 DEF Edit, DraftFits, DraftFields
<1>6. DraftFits(sheet, draft')
  BY <1>1, <1>4, <1>5 DEF DraftFits
<1>7. UNCHANGED << sheet, plan, step, outcome, result >>
  BY <1>2 DEF Edit
<1>8. outcome = "editing" /\ Steps[step] # "review"
  BY DEF EditImprovement, At
<1>9. QED BY <1>6, <1>7, <1>8, AfterEdit

(* The choice editor, then the reconciliation.                             *)
LEMMA SelectKeeps ==
  ASSUME IInv, outcome = "editing", Steps[step] # "review",
         NEW choice \in ChoicesOf(sheet.class), NEW l \in Level, choice.from <= l, Select(choice, l)
  PROVE  IInv'
<1>1. Opened /\ DraftFits(sheet, draft) /\ IsSheet(sheet) /\ sheet.class \in DOMAIN Classes
  BY StepsOfTheSheet, Levels DEF IInv, Opened
<1>2. PICK selection \in Selections(choice, l) :
        Edit([draft EXCEPT !.choices = Reconciled([@ EXCEPT ![choice.id] = selection])])
  BY DEF Select
<1>3. selection \in Selection /\ Answerable(choice, selection)
  BY <1>1, SelectionAnswers
<1>4. ChoicesFit(sheet, draft.choices)
  BY <1>1 DEF DraftFits
<1>5. ChoicesFit(sheet, [draft.choices EXCEPT ![choice.id] = selection])
  BY <1>1, <1>3, <1>4, SelectedFits
<1>6. ChoicesFit(sheet, Reconciled([draft.choices EXCEPT ![choice.id] = selection]))
  BY <1>1, <1>5, ReconciledFits
<1> DEFINE next == Reconciled([draft.choices EXCEPT ![choice.id] = selection])
<1>7. draft' = [draft EXCEPT !.choices = next] /\ UNCHANGED << sheet, plan, step, outcome, result >>
  BY <1>2 DEF Edit
<1> HIDE DEF next
<1>8. /\ DOMAIN draft' = DOMAIN draft /\ draft'.die = draft.die /\ draft'.subclass = draft.subclass
      /\ draft'.improvement = draft.improvement /\ draft'.choices = next /\ draft'.spells = draft.spells
  BY <1>1, <1>7 DEF DraftFits, DraftFields
<1>9. DraftFits(sheet, draft')
  BY <1>1, <1>6, <1>8 DEF DraftFits, next
<1>10. QED BY <1>7, <1>9, AfterEdit

(* The choices missing from earlier levels.                                *)
LEMMA EditMissingChoiceKeeps ==
  ASSUME IInv, EditMissingChoice
  PROVE  IInv'
<1>1. Opened /\ IsSheet(sheet) /\ plan.missing = MissingChoices(sheet)
  BY StepsOfTheSheet DEF IInv
<1>2. PICK choice \in plan.missing : Select(choice, sheet.level)
  BY DEF EditMissingChoice
<1>3. choice \in ChoicesOf(sheet.class) /\ choice.from <= sheet.level /\ sheet.level \in Level
  BY <1>1, <1>2, Levels DEF MissingChoices
<1>4. outcome = "editing" /\ Steps[step] # "review"
  BY DEF EditMissingChoice, At
<1>5. QED BY <1>2, <1>3, <1>4, SelectKeeps

(* The new level's choices.                                                *)
LEMMA EditChoiceKeeps ==
  ASSUME IInv, EditChoice
  PROVE  IInv'
<1>1. IsSheet(sheet)
  BY StepsOfTheSheet DEF IInv
<1>2. PICK choice \in TargetChoices : Select(choice, Target)
  BY DEF EditChoice
<1>3. choice \in ChoicesOf(sheet.class) /\ choice.from <= Target /\ Target \in Level
  BY <1>1, <1>2, Levels DEF TargetChoices, Target
<1>4. outcome = "editing" /\ Steps[step] # "review"
  BY DEF EditChoice, At
<1>5. QED BY <1>2, <1>3, <1>4, SelectKeeps

(* The spell step.                                                         *)
LEMMA EditSpellsKeeps ==
  ASSUME IInv, EditSpells
  PROVE  IInv'
<1>1. DraftFits(sheet, draft) /\ IsSheet(sheet)
  BY StepsOfTheSheet DEF IInv, Opened
<1>2. PICK spells \in SpellSelections : Edit([draft EXCEPT !.spells = spells])
  BY DEF EditSpells
<1>3. SpellsFit(sheet, spells)
  BY <1>1, SelectionsFit
<1>4. /\ DOMAIN draft' = DOMAIN draft /\ draft'.die = draft.die /\ draft'.subclass = draft.subclass
      /\ draft'.improvement = draft.improvement /\ draft'.choices = draft.choices /\ draft'.spells = spells
  BY <1>1, <1>2 DEF Edit, DraftFits, DraftFields
<1>5. DraftFits(sheet, draft')
  BY <1>1, <1>3, <1>4 DEF DraftFits
<1>6. UNCHANGED << sheet, plan, step, outcome, result >>
  BY <1>2 DEF Edit
<1>7. outcome = "editing" /\ Steps[step] # "review"
  BY DEF EditSpells, At
<1>8. QED BY <1>5, <1>6, <1>7, AfterEdit

(* The confirmation of what the sheet retains.                             *)
LEMMA ConfirmRetainedKeeps ==
  ASSUME IInv, ConfirmRetained
  PROVE  IInv'
<1>1. DraftFits(sheet, draft)
  BY DEF IInv, Opened
<1>2. draft' = [draft EXCEPT !.retained = TRUE] /\ UNCHANGED << sheet, plan, step, outcome, result >>
  BY DEF ConfirmRetained, Edit
<1>3. /\ DOMAIN draft' = DOMAIN draft /\ draft'.die = draft.die /\ draft'.subclass = draft.subclass
      /\ draft'.improvement = draft.improvement /\ draft'.choices = draft.choices /\ draft'.spells = draft.spells
  BY <1>1, <1>2 DEF DraftFits, DraftFields
<1>4. DraftFits(sheet, draft')
  BY <1>1, <1>3 DEF DraftFits
<1>5. outcome = "editing" /\ Steps[step] # "review"
  BY DEF ConfirmRetained, At
<1>6. QED BY <1>2, <1>4, <1>5, AfterEdit

(* What the review checks and sends is a matter of sheet, plan and draft.  *)
LEMMA SameDraft ==
  ASSUME UNCHANGED << sheet, plan, draft >>
  PROVE  /\ Steps' = Steps /\ (AllValid' <=> AllValid) /\ Request' = Request
         /\ \A name : StepValid(name)' <=> StepValid(name)
<1>1. Steps' = Steps /\ Target' = Target /\ Rule' = Rule /\ SelectedSubclass' = SelectedSubclass
  BY DEF Steps, Target, Rule, SelectedSubclass
<1>2. TargetChoices' = TargetChoices
  BY <1>1 DEF TargetChoices
<1>3. Granted' = Granted
  BY DEF Granted
<1>4. CantripsListed' = CantripsListed /\ PreparedCount' = PreparedCount /\ ProposedMax' = ProposedMax
  BY <1>1, <1>3 DEF CantripsListed, PreparedCount, ProposedMax
<1>5. SpellsValid' <=> SpellsValid
  BY <1>1, <1>4 DEF SpellsValid
<1>6. CurrentValid' <=> CurrentValid
  BY <1>4 DEF CurrentValid
<1>7. \A choice, l : ChoiceValid(choice, l)' <=> ChoiceValid(choice, l)
  BY DEF ChoiceValid
<1>8. ASSUME NEW name PROVE StepValid(name)' <=> StepValid(name)
  <2>1. sheet' = sheet /\ plan' = plan /\ draft' = draft /\ plan'.missing = plan.missing
    OBVIOUS
  <2>2. (\A choice \in plan.missing : ChoiceValid(choice, sheet.level))'
        <=> \A choice \in plan.missing : ChoiceValid(choice, sheet.level)
    BY <1>7, <2>1
  <2>3. (\A choice \in TargetChoices : ChoiceValid(choice, Target))'
        <=> \A choice \in TargetChoices : ChoiceValid(choice, Target)
    BY <1>1, <1>2, <1>7
  <2>4. QED BY <1>5, <2>1, <2>2, <2>3 DEF StepValid
<1>9. AllValid' <=> AllValid
  BY <1>1, <1>6, <1>8 DEF AllValid
<1>10. Request' = Request
  BY <1>1, <1>2 DEF Request
<1>11. QED BY <1>1, <1>8, <1>9, <1>10

(* Continue goes on from a valid step, and to the review only with a valid *)
(* draft.                                                                  *)
LEMMA ContinueKeeps ==
  ASSUME IInv, Continue
  PROVE  IInv'
<1>1. UNCHANGED << sheet, plan, draft, outcome, result >> /\ outcome = "editing" /\ step < Len(Steps)
  BY DEF Continue
<1>2. /\ Opened /\ Steps = StepsOf(sheet) /\ step \in 1 .. Len(Steps) /\ Len(Steps) \in Nat /\ Len(Steps) >= 4
  BY StepsOfTheSheet DEF IInv
<1>3. Steps[2] = "hp"
  BY <1>2, StepsOccur
<1>4. Steps' = Steps /\ (AllValid' <=> AllValid)
  BY <1>1, SameDraft
<1>5. /\ step' \in 1 .. Len(Steps)
      /\ Steps[step'] = "review" => AllValid
  <2>1. CASE step' = step + 1 /\ (Steps[step + 1] # "review" \/ AllValid)
    BY <1>1, <1>2, <2>1
  <2>2. CASE step' = 2
    BY <1>2, <1>3, <2>2
  <2>3. CASE step' = step
    BY <1>2, <2>3 DEF IInv
  <2>4. QED BY <2>1, <2>2, <2>3 DEF Continue
<1>6. Opened'
  BY <1>1, <1>2, <1>4, <1>5 DEF Opened
<1>7. outcome' = "editing" /\ result' = sheet'
  BY <1>1 DEF IInv
<1>8. QED BY <1>4, <1>5, <1>6, <1>7 DEF IInv

(* Back leaves the draft alone.                                            *)
LEMMA BackKeeps ==
  ASSUME IInv, Back
  PROVE  IInv'
<1>1. /\ UNCHANGED << sheet, plan, draft, outcome, result >> /\ outcome = "editing"
      /\ step > 1 /\ step' = step - 1
  BY DEF Back
<1>2. /\ Opened /\ Steps = StepsOf(sheet) /\ step \in 1 .. Len(Steps) /\ Len(Steps) \in Nat
  BY StepsOfTheSheet DEF IInv
<1>3. step' \in 1 .. Len(Steps) /\ step' # Len(Steps)
  BY <1>1, <1>2
<1>4. Steps[step'] # "review"
  BY <1>2, <1>3, StepsOccur
<1>5. Steps' = Steps
  BY <1>1, SameDraft
<1>6. Opened'
  BY <1>1, <1>2, <1>3, <1>5 DEF Opened
<1>7. outcome' = "editing" /\ result' = sheet'
  BY <1>1 DEF IInv
<1>8. QED BY <1>4, <1>5, <1>6, <1>7 DEF IInv

(* The server's answer is what it decides for the reviewed request.        *)
LEMMA SubmitKeeps ==
  ASSUME IInv, Submit
  PROVE  IInv'
<1>1. UNCHANGED << sheet, plan, step, draft >> /\ Steps[step] = "review" /\ ~plan.blocked /\ AllValid
  BY DEF Submit, At
<1>2. Steps' = Steps /\ (AllValid' <=> AllValid) /\ Request' = Request
  BY <1>1, SameDraft
<1>3. Opened'
  BY <1>1, <1>2 DEF IInv, Opened
<1>4. /\ outcome' = IF Accepts(sheet, Request) THEN "saved" ELSE "refused"
      /\ result' = IF Accepts(sheet, Request) THEN Leveled(sheet, Request) ELSE sheet
  BY DEF Submit
<1>5. /\ outcome' \in {"saved", "refused"}
      /\ outcome' = "saved" => Accepts(sheet', Request') /\ result' = Leveled(sheet', Request')
      /\ outcome' = "refused" => ~Accepts(sheet', Request') /\ result' = sheet'
  BY <1>1, <1>2, <1>4
<1>6. Submitted' /\ AllValid'
  BY <1>1, <1>2 DEF Submitted
<1>7. QED BY <1>3, <1>5, <1>6 DEF IInv

(* A refused user goes back to the steps.                                  *)
LEMMA ResumeKeeps ==
  ASSUME IInv, Resume
  PROVE  IInv'
<1>1. UNCHANGED << sheet, plan, step, draft, result >> /\ outcome = "refused" /\ outcome' = "editing"
  BY DEF Resume
<1>2. Steps' = Steps /\ (AllValid' <=> AllValid)
  BY <1>1, SameDraft
<1>3. Opened'
  BY <1>1, <1>2 DEF IInv, Opened
<1>4. QED BY <1>1, <1>2, <1>3 DEF IInv

(* The invariant holds throughout.                                         *)
LEMMA IInvHolds ==
  Spec => []IInv
<1>1. Init => IInv
  <2> SUFFICES ASSUME Init PROVE IInv
    OBVIOUS
  <2>1. sheet \in Subjects /\ plan = PlanOf(sheet) /\ step = 1 /\ draft = EmptyDraft(sheet)
    BY DEF Init
  <2>2. IsSheet(sheet)
    BY <2>1, SubjectsAssumption
  <2>3. Steps = StepsOf(sheet)
    BY <2>1 DEF Steps, PlanOf
  <2>4. Len(Steps) \in Nat /\ Len(Steps) >= 4 /\ Steps[1] = "prerequisites"
    BY <2>3, StepsOccur
  <2>5. step \in 1 .. Len(Steps) /\ Steps[step] # "review"
    BY <2>1, <2>4
  <2>6. DraftFits(sheet, draft)
    BY <2>1, <2>2, EmptyDraftFits
  <2>7. Opened
    BY <2>1, <2>5, <2>6 DEF Opened
  <2>8. outcome = "editing" /\ result = sheet
    BY DEF Init
  <2>9. QED BY <2>5, <2>7, <2>8 DEF IInv
<1>2. IInv /\ [Next]_vars => IInv'
  <2> SUFFICES ASSUME IInv, [Next]_vars PROVE IInv'
    OBVIOUS
  <2>1. CASE UNCHANGED vars
    <3>1. UNCHANGED << sheet, plan, step, draft, outcome, result >>
      BY <2>1 DEF vars
    <3>2. Steps' = Steps /\ (AllValid' <=> AllValid) /\ Request' = Request
      BY <3>1, SameDraft
    <3>3. Opened' /\ (Submitted' <=> Submitted)
      BY <3>1, <3>2 DEF IInv, Opened, Submitted
    <3>4. QED BY <3>1, <3>2, <3>3 DEF IInv
  <2>2. CASE Next
    BY <2>2, EditHitPointsKeeps, EditSubclassKeeps, EditImprovementKeeps, EditMissingChoiceKeeps, EditChoiceKeeps,
       EditSpellsKeeps, ConfirmRetainedKeeps, ContinueKeeps, BackKeeps, SubmitKeeps, ResumeKeeps DEF Next
  <2>3. QED BY <2>1, <2>2
<1>3. QED BY <1>1, <1>2, PTL DEF Spec

-----------------------------------------------------------------------------
(* What a draft that is valid as a whole holds: each step that the plan    *)
(* has was answered.                                                       *)
LEMMA ReviewedSteps ==
  ASSUME Opened, AllValid
  PROVE  /\ MissingSubclass(sheet) \/ AsksForSubclass(sheet) => draft.subclass # "none"
         /\ \A choice \in plan.missing : ChoiceValid(choice, sheet.level)
         /\ Target = ImprovementLevel =>
              /\ draft.improvement.kind # "none"
              /\ sheet.schema = "V2" => draft.improvement.kind # "feat"
              /\ WithinTwenty(sheet, draft.improvement)
         /\ Casts(sheet.class, Target) => SpellsValid
         /\ AsksForChoices(sheet) => \A choice \in TargetChoices : ChoiceValid(choice, Target)
         /\ CurrentValid
<1>1. ASSUME NEW name, Occurs(name, StepsOf(sheet)) PROVE StepValid(name)
  <2>1. PICK i \in DOMAIN Steps : Steps[i] = name
    BY <1>1, StepsOfTheSheet DEF Occurs
  <2>2. StepValid(Steps[i])
    BY <2>1 DEF AllValid
  <2>3. QED BY <2>1, <2>2
<1>2. StepValid("prerequisites")
  BY <1>1, StepsOccur
<1>3. AsksForSubclass(sheet) => StepValid("subclass")
  BY <1>1, StepsOccur
<1>4. Target = ImprovementLevel => StepValid("asi")
  BY <1>1, StepsOccur DEF Target
<1>5. Casts(sheet.class, Target) => StepValid("spells")
  BY <1>1, StepsOccur DEF Target
<1>6. AsksForChoices(sheet) => StepValid("class-specific")
  BY <1>1, StepsOccur
<1>7. /\ MissingSubclass(sheet) => draft.subclass # "none"
      /\ \A choice \in plan.missing : ChoiceValid(choice, sheet.level)
  BY <1>2 DEF StepValid
<1>8. AsksForSubclass(sheet) => draft.subclass # "none"
  BY <1>3 DEF StepValid
<1>9. Target = ImprovementLevel =>
        /\ draft.improvement.kind # "none"
        /\ sheet.schema = "V2" => draft.improvement.kind # "feat"
        /\ WithinTwenty(sheet, draft.improvement)
  BY <1>4 DEF StepValid
<1>10. Casts(sheet.class, Target) => SpellsValid
  BY <1>5 DEF StepValid
<1>11. AsksForChoices(sheet) => \A choice \in TargetChoices : ChoiceValid(choice, Target)
  BY <1>6 DEF StepValid
<1>12. QED BY <1>7, <1>8, <1>9, <1>10, <1>11 DEF AllValid

(* The subclass the user sees selected is the one the server gives.        *)
LEMMA SubclassDecided ==
  ASSUME Opened, AllValid
  PROVE  /\ SubclassAfter(sheet, Request) = SelectedSubclass
         /\ SubclassFits(sheet, Request)
         /\ Target >= Classes[sheet.class].subclassDecisionLevel => SelectedSubclass # "none"
         /\ SelectedSubclass = "srd" => AssumedSubclass(sheet, Target) = "srd"
<1> DEFINE decides == Classes[sheet.class].subclassDecisionLevel
<1>1. IsSheet(sheet) /\ Target = sheet.level + 1 /\ Target \in Int /\ decides \in Int /\ sheet.level \in Int
  BY StepsOfTheSheet, Levels, ClassAssumption DEF Target
<1>2. DraftFits(sheet, draft)
  BY DEF Opened
<1>3. Request.subclass = IF sheet.subclass = "none" /\ Target >= decides THEN draft.subclass ELSE "none"
  BY DEF Request, Rule
<1>4. draft.subclass # "none" => sheet.subclass = "none" /\ Target >= decides
  BY <1>1, <1>2 DEF DraftFits
<1>5. sheet.subclass = "none" /\ Target >= decides => draft.subclass # "none"
  <2> SUFFICES ASSUME sheet.subclass = "none", Target >= decides PROVE draft.subclass # "none"
    OBVIOUS
  <2>1. CASE MissingSubclass(sheet)
    BY <2>1, ReviewedSteps
  <2>2. CASE ~MissingSubclass(sheet)
    <3>1. AsksForSubclass(sheet)
      BY <1>1, <2>2 DEF AsksForSubclass
    <3>2. QED BY <3>1, ReviewedSteps
  <2>3. QED BY <2>1, <2>2
<1>6. SubclassAfter(sheet, Request) = SelectedSubclass
  BY <1>3, <1>4 DEF SubclassAfter, SelectedSubclass
<1>7. SubclassFits(sheet, Request)
  BY <1>1, <1>3, <1>5 DEF SubclassFits
<1>8. Target >= decides => SelectedSubclass # "none"
  BY <1>5 DEF SelectedSubclass
<1>9. SelectedSubclass = "srd" => AssumedSubclass(sheet, Target) = "srd"
  BY <1>4 DEF SelectedSubclass, AssumedSubclass
<1>10. QED BY <1>6, <1>7, <1>8, <1>9

(* Each choice that the sheet does not represent at its next level is      *)
(* asked for, and what is asked for is answered.                           *)
LEMMA ChoicesAsked ==
  ASSUME Opened, NEW choice \in ChoicesOf(sheet.class),
         choice.from <= Target, Applies(choice, SelectedSubclass), ~Present(sheet, choice, Target)
  PROVE  choice \in Asked
BY DEF Asked, TargetChoices

Answered(choice) ==
  LET selection == draft.choices[choice.id] IN
  /\ selection \in Selection /\ selection # NotSent /\ Answerable(choice, selection)
  /\ ~selection.note =>
       /\ selection.n > 0 /\ choice.options # "none"
       /\ selection.n = choice.counts[Target] \/ (choice \in plan.missing /\ selection.n = choice.counts[sheet.level])

(* Every choice that is asked for has a valid answer.                      *)
LEMMA AskedAreAnswered ==
  ASSUME Opened, AllValid, NEW choice \in Asked
  PROVE  /\ choice \in ChoicesOf(sheet.class) /\ choice.from <= Target /\ ~Present(sheet, choice, Target)
         /\ choice \notin plan.missing => Applies(choice, SelectedSubclass)
         /\ Answered(choice)
<1>1. IsSheet(sheet) /\ plan.missing = MissingChoices(sheet) /\ DraftFits(sheet, draft)
  BY StepsOfTheSheet DEF Opened
<1>2. Target = sheet.level + 1 /\ Target \in Level /\ sheet.level \in Level /\ sheet.class \in DOMAIN Classes
  BY <1>1, Levels DEF Target
<1>3. choice \in ChoicesOf(sheet.class)
  BY <1>1 DEF Asked, TargetChoices, MissingChoices
<1>4. /\ choice.from \in Level /\ choice.counts[Target] \in 0 .. 5 /\ choice.counts[sheet.level] \in 0 .. 5
      /\ choice.counts[sheet.level] <= choice.counts[Target]
      /\ \A l \in Level : choice.from <= l => choice.counts[l] > 0
      /\ choice.id \in Ids(sheet.class)
  BY <1>2, <1>3, ChoiceTables DEF Level
<1>5. sheet.recorded[choice.id] \in 0 .. Whole
  BY <1>1, <1>4, SheetTypes
<1> DEFINE selection == draft.choices[choice.id]
<1>6. selection \in Selection /\ Answerable(choice, selection)
  BY <1>1, <1>3, <1>4 DEF DraftFits, ChoicesFit, Selection
<1> HIDE DEF selection
<1>7. ASSUME NEW l \in Level, choice.from <= l, ChoiceValid(choice, l),
             l = Target \/ (choice \in plan.missing /\ l = sheet.level)
      PROVE  Answered(choice)
  <2>1. CASE selection.note
    BY <1>6, <2>1 DEF Answered, NotSent, selection
  <2>2. CASE ~selection.note
    <3>1. selection.n = choice.counts[l]
      BY <1>7, <2>2 DEF ChoiceValid, selection
    <3>2. selection.n > 0
      BY <1>4, <1>7, <3>1
    <3>3. choice.options # "none" /\ selection # NotSent
      BY <1>6, <2>2, <3>2 DEF Answerable, NotSent
    <3>4. QED BY <1>6, <1>7, <3>1, <3>2, <3>3 DEF Answered, selection
  <2>3. QED BY <2>1, <2>2
<1>8. CASE choice \in plan.missing
  <2>1. choice.from <= sheet.level /\ ~Present(sheet, choice, sheet.level)
    BY <1>1, <1>8 DEF MissingChoices
  <2>2. ChoiceValid(choice, sheet.level)
    BY <1>8, ReviewedSteps
  <2>3. Answered(choice)
    BY <1>2, <1>7, <1>8, <2>1, <2>2
  <2>4. choice.from <= Target
    BY <1>2, <1>4, <2>1 DEF Level
  <2>5. ~Present(sheet, choice, Target)
    BY <1>4, <1>5, <2>1 DEF Present, Whole
  <2>6. QED BY <1>3, <1>8, <2>3, <2>4, <2>5
<1>9. CASE choice \notin plan.missing
  <2>1. choice \in TargetChoices
    BY <1>9 DEF Asked
  <2>2. choice.from <= Target /\ Applies(choice, SelectedSubclass) /\ ~Present(sheet, choice, Target)
    BY <2>1 DEF TargetChoices
  <2>3. AsksForChoices(sheet)
    <3>1. Applies(choice, AssumedSubclass(sheet, Target))
      BY <2>2, SubclassDecided DEF Applies
    <3>2. QED BY <1>1, <1>2, <1>3, <1>9, <2>2, <3>1 DEF AsksForChoices
  <2>4. ChoiceValid(choice, Target)
    BY <2>1, <2>3, ReviewedSteps
  <2>5. Answered(choice)
    BY <1>2, <1>7, <2>2, <2>4
  <2>6. QED BY <1>3, <2>2, <2>5
<1>10. QED BY <1>8, <1>9

(* The request holds the answers to the choices asked for, and no other.   *)
LEMMA ChoicesSent ==
  ASSUME Opened, NEW choice \in ChoicesOf(sheet.class)
  PROVE  Request.choices[choice.id] = IF choice \in Asked THEN draft.choices[choice.id] ELSE NotSent
<1>1. IsSheet(sheet) /\ DraftFits(sheet, draft) /\ sheet.class \in DOMAIN Classes /\ plan.missing = MissingChoices(sheet)
  BY StepsOfTheSheet, Levels DEF Opened
<1>2. choice.id \in DOMAIN draft.choices
  BY <1>1 DEF DraftFits, ChoicesFit, Ids
<1>3. (\E other \in Asked : other.id = choice.id) <=> choice \in Asked
  <2>1. \A other \in Asked : other \in ChoicesOf(sheet.class)
    BY <1>1 DEF Asked, TargetChoices, MissingChoices
  <2>2. QED BY <1>1, <2>1, ChoiceTables
<1>4. Request.choices = [id \in DOMAIN draft.choices |->
        IF \E other \in Asked : other.id = id THEN draft.choices[id] ELSE NotSent]
  BY DEF Request, Asked
<1>5. QED BY <1>2, <1>3, <1>4

(* The rest of the request is the draft.                                   *)
LEMMA RequestParts ==
  /\ Request.die = draft.die /\ Request.current = draft.current /\ Request.improvement = draft.improvement
  /\ Request.spells = draft.spells /\ Request.casting = Casts(sheet.class, Target)
BY DEF Request

-----------------------------------------------------------------------------
(* The hit points.                                                         *)
LEMMA LengthOfFunction ==
  ASSUME NEW S, NEW n \in Nat, NEW g \in [1 .. n -> S]
  PROVE  g \in Seq(S) /\ Len(g) = n
<1>1. g \in Seq(S)
  BY SeqDef
<1>2. Len(g) \in Nat /\ DOMAIN g = 1 .. Len(g)
  BY <1>1, LenProperties
<1>3. 1 .. n = 1 .. Len(g)
  BY <1>2
<1>4. \A i \in Int : i \in 1 .. n <=> i \in 1 .. Len(g)
  BY <1>3
<1>5. Len(g) = n
  <2>1. CASE Len(g) < n
    <3>1. n \in 1 .. n /\ ~(n \in 1 .. Len(g))
      BY <1>2, <2>1
    <3>2. QED BY <1>3, <3>1
  <2>2. CASE n < Len(g)
    <3>1. Len(g) \in 1 .. Len(g) /\ ~(Len(g) \in 1 .. n)
      BY <1>2, <2>2
    <3>2. QED BY <1>3, <3>1
  <2>3. QED BY <1>2, <2>1, <2>2
<1>6. QED BY <1>1, <1>5

(* Every V1 level gives a hit point, also with a retroactive Constitution. *)
LEMMA IncreaseIsPositive ==
  ASSUME NEW s, IsSheet(s), NEW r, r.die \in 1 .. Classes[s.class].hitDie, r.improvement.con \in 0 .. 2
  PROVE  IncreaseV1(s, r) \in Int /\ IncreaseV1(s, r) >= 1
<1> DEFINE prior == AbilityModifier(s.con)
           resulting == AbilityModifier(s.con + r.improvement.con)
           new == AtLeast(1, r.die + resulting)
<1>1. s.con \in Int /\ s.con + r.improvement.con \in Int /\ s.con <= s.con + r.improvement.con
      /\ s.level \in {1, 2, 3, 4} /\ r.die \in Int
  <2>1. s.con \in 1 .. 30 /\ s.level \in 1 .. 4
    BY SheetTypes
  <2>2. Classes[s.class].hitDie \in 6 .. 12
    BY Levels, ClassAssumption
  <2>3. QED BY <2>1, <2>2
<1>2. prior \in Int /\ resulting \in Int /\ prior <= resulting
  BY <1>1, Modifiers
<1>3. new \in Int /\ new >= 1
  BY SMTT(30), <1>1, <1>2 DEF AtLeast
<1>4. IncreaseV1(s, r) = new + (resulting - prior) * s.level
  BY DEF IncreaseV1
<1> HIDE DEF prior, resulting, new
<1>5. (resulting - prior) * s.level \in Nat
  BY <1>1, <1>2
<1>6. QED BY <1>3, <1>4, <1>5

(* A sum of one to four levels, next to the sum of one level more.         *)
LEMMA LongerSum ==
  ASSUME NEW n \in {0, 1, 2, 3}, NEW x \in [2 .. 5 -> Int], NEW y \in [2 .. 5 -> Int], NEW new \in Int,
         NEW d \in Int,
         \A l \in 2 .. 5 : l > n + 1 => x[l] = 0,
         \A l \in 2 .. 5 : l > n + 2 => y[l] = 0,
         y[n + 2] = new
  PROVE  LET sx == x[2] + x[3] + x[4] + x[5]
             sy == y[2] + y[3] + y[4] + y[5]
         IN  /\ (\A l \in 2 .. 5 : l <= n + 1 => x[l] <= y[l]) => sy >= sx + new
             /\ (\A l \in 2 .. 5 : l <= n + 1 => y[l] = x[l] + d) => sy = sx + new + d * n
<1>1. 2 \in 2 .. 5 /\ 3 \in 2 .. 5 /\ 4 \in 2 .. 5 /\ 5 \in 2 .. 5
  OBVIOUS
<1>2. x[2] \in Int /\ x[3] \in Int /\ x[4] \in Int /\ x[5] \in Int /\ y[2] \in Int /\ y[3] \in Int /\ y[4] \in Int /\ y[5] \in Int
  BY <1>1
<1>3. CASE n = 0
  BY <1>1, <1>2, <1>3
<1>4. CASE n = 1
  BY <1>1, <1>2, <1>4
<1>5. CASE n = 2
  BY <1>1, <1>2, <1>5
<1>6. CASE n = 3
  BY <1>1, <1>2, <1>6
<1>7. QED BY <1>3, <1>4, <1>5, <1>6

(* The V2 maximum, computed again over all levels, is the old one plus the *)
(* new level and the change of the modifier, unless some level had the     *)
(* minimum.                                                                *)
LEMMA MaximumGrows ==
  ASSUME NEW s, IsSheet(s), s.schema = "V2", NEW die \in 1 .. Classes[s.class].hitDie,
         NEW con \in Int, s.con <= con,
         NEW subclass, Resilience(s.class, subclass) = Resilience(s.class, s.subclass)
  PROVE  LET max == MaximumHitPoints(s.class, subclass, con, Append(s.gains, die))
             d   == AbilityModifier(con) - AbilityModifier(s.con)
         IN  /\ max \in Int /\ max > s.max
             /\ con = s.con \/ (\A i \in DOMAIN s.gains : s.gains[i] + AbilityModifier(s.con) >= 1) =>
                  max = s.max + AtLeast(1, die + AbilityModifier(con)) + d * s.level + Resilience(s.class, subclass)
<1> DEFINE n == s.level - 1
           hd == Classes[s.class].hitDie
           m == AbilityModifier(s.con)
           k == AbilityModifier(con)
           r == Resilience(s.class, s.subclass)
           g == s.gains
           h == Append(g, die)
           x == [l \in 2 .. 5 |-> HitPointsAt(l, g, m)]
           y == [l \in 2 .. 5 |-> HitPointsAt(l, h, k)]
           new == AtLeast(1, die + k)
           max == MaximumHitPoints(s.class, subclass, con, h)
<1>1. /\ n \in {0, 1, 2, 3} /\ s.level = n + 1 /\ hd \in 6 .. 12 /\ g \in [1 .. n -> 1 .. hd] /\ s.max \in Nat
      /\ s.con \in 1 .. 30
  BY SheetTypes, ClassAssumption
<1>2. m \in Int /\ k \in Int /\ m <= k /\ m >= 0 - 5
  <2>0. s.con \in 1 .. 30
    BY SheetTypes
  <2>1. s.con \in Int /\ s.con >= 1
    BY <2>0
  <2>2. m >= 0 - 5
    BY <2>1 DEF AbilityModifier
  <2>3. QED BY <2>1, <2>2, Modifiers
<1>3. new \in Int /\ new >= 1
  BY SMTT(30), <1>1, <1>2 DEF AtLeast
<1>4. r \in {0, 1}
  BY DEF Resilience
<1>5. /\ g \in Seq(1 .. hd) /\ Len(g) = n
      /\ h \in Seq(1 .. hd) /\ Len(h) = n + 1
      /\ \A i \in 1 .. n : h[i] = g[i] /\ g[i] \in 1 .. hd
      /\ h[n + 1] = die
  <2> HIDE DEF n, hd, g
  <2>1. g \in Seq(1 .. hd) /\ Len(g) = n
    BY <1>1, LengthOfFunction
  <2>2. die \in 1 .. hd
    BY DEF hd
  <2>3. /\ Append(g, die) \in Seq(1 .. hd) /\ Len(Append(g, die)) = Len(g) + 1
        /\ \A i \in 1 .. Len(g) : Append(g, die)[i] = g[i]
        /\ Append(g, die)[Len(g) + 1] = die
    BY <2>1, <2>2, AppendProperties
  <2>4. QED BY <1>1, <2>1, <2>3
<1>6. s.max = MaximumHitPoints(s.class, s.subclass, s.con, g)
  BY DEF IsSheet, RebuiltV2
<1> HIDE DEF n, hd, m, k, r, g, h, new
<1>7. ASSUME NEW l \in 2 .. 5
      PROVE  /\ x[l] = IF l <= n + 1 THEN AtLeast(1, g[l - 1] + m) ELSE 0
             /\ y[l] = IF l <= n + 2 THEN AtLeast(1, h[l - 1] + k) ELSE 0
             /\ x[l] \in Int /\ y[l] \in Int
  <2>1. x[l] = HitPointsAt(l, g, m) /\ y[l] = HitPointsAt(l, h, k)
    BY DEF x, y
  <2> HIDE DEF x, y
  <2>2. x[l] = IF l <= n + 1 THEN AtLeast(1, g[l - 1] + m) ELSE 0
    BY <1>5, <2>1 DEF HitPointsAt
  <2>3. y[l] = IF l <= n + 2 THEN AtLeast(1, h[l - 1] + k) ELSE 0
    <3>1. Len(h) + 1 = n + 2
      BY <1>1, <1>5
    <3>2. QED BY <2>1, <3>1 DEF HitPointsAt
  <2>4. CASE l <= n + 1
    <3>1. l - 1 \in 1 .. n /\ l <= n + 2
      BY <1>1, <2>4
    <3>2. g[l - 1] \in Int /\ h[l - 1] \in Int
      BY <1>1, <1>5, <3>1
    <3>3. QED BY <1>2, <2>2, <2>3, <3>2 DEF AtLeast
  <2>5. CASE l = n + 2
    <3>1. l - 1 = n + 1 /\ ~(l <= n + 1) /\ h[l - 1] \in Int
      BY SMTT(30), <1>1, <1>5, <2>5
    <3>2. QED BY <1>2, <2>2, <2>3, <3>1 DEF AtLeast
  <2>6. CASE l > n + 2
    BY <1>1, <2>2, <2>3, <2>6
  <2>7. QED BY <1>1, <2>2, <2>3, <2>4, <2>5, <2>6
<1>8. x \in [2 .. 5 -> Int] /\ y \in [2 .. 5 -> Int]
  BY <1>7
<1>9. /\ x[2] = HitPointsAt(2, g, m) /\ x[3] = HitPointsAt(3, g, m)
      /\ x[4] = HitPointsAt(4, g, m) /\ x[5] = HitPointsAt(5, g, m)
      /\ y[2] = HitPointsAt(2, h, k) /\ y[3] = HitPointsAt(3, h, k)
      /\ y[4] = HitPointsAt(4, h, k) /\ y[5] = HitPointsAt(5, h, k)
  OBVIOUS
<1> HIDE DEF x, y
<1> DEFINE sx == x[2] + x[3] + x[4] + x[5]
           sy == y[2] + y[3] + y[4] + y[5]
<1>10. s.max = hd + m + sx + r * (n + 1)
  <2>1. s.max = AtLeast(1, hd + m) + x[2] + x[3] + x[4] + x[5] + r * (n + 1)
    BY <1>5, <1>6, <1>9 DEF MaximumHitPoints, m, hd, r
  <2>2. x[2] \in Int /\ x[3] \in Int /\ x[4] \in Int /\ x[5] \in Int
    BY <1>7
  <2>3. AtLeast(1, hd + m) = hd + m /\ hd + m \in Int
    BY SMTT(30), <1>1, <1>2 DEF AtLeast
  <2>4. r * (n + 1) \in Int
    BY <1>1, <1>4
  <2>5. QED BY <2>1, <2>2, <2>3, <2>4
<1>11. max = hd + k + sy + r * (n + 2)
  <2>1. max = AtLeast(1, hd + k) + y[2] + y[3] + y[4] + y[5] + r * (Len(h) + 1)
    BY <1>9 DEF MaximumHitPoints, k, hd, r
  <2>2. y[2] \in Int /\ y[3] \in Int /\ y[4] \in Int /\ y[5] \in Int
    BY <1>7
  <2>3. AtLeast(1, hd + k) = hd + k /\ hd + k \in Int
    BY SMTT(30), <1>1, <1>2 DEF AtLeast
  <2>4. Len(h) + 1 = n + 2 /\ r * (n + 2) \in Int
    BY <1>1, <1>4, <1>5
  <2>5. QED BY SMTT(30), <2>1, <2>2, <2>3, <2>4
<1>12. r * (n + 2) = r * (n + 1) + r /\ r * (n + 1) \in Int /\ r >= 0 /\ r \in Int
  BY <1>1, <1>4
<1>13. /\ \A l \in 2 .. 5 : l > n + 1 => x[l] = 0
       /\ \A l \in 2 .. 5 : l > n + 2 => y[l] = 0
       /\ y[n + 2] = new
  <2>1. n + 2 \in 2 .. 5 /\ n + 2 <= n + 2 /\ n + 2 - 1 = n + 1
    BY <1>1
  <2>2. y[n + 2] = AtLeast(1, h[n + 1] + k)
    <3>1. \A l \in 2 .. 5 : l <= n + 2 => y[l] = AtLeast(1, h[l - 1] + k)
      BY <1>7
    <3>2. ASSUME NEW l, l = n + 2 PROVE y[l] = AtLeast(1, h[n + 1] + k)
      <4>1. l \in 2 .. 5 /\ l <= n + 2 /\ l - 1 = n + 1
        BY <1>1, <3>2
      <4>2. y[l] = AtLeast(1, h[l - 1] + k)
        BY <3>1, <4>1
      <4>3. QED BY <4>1, <4>2
    <3>3. QED BY <3>2
  <2>3. y[n + 2] = new
    BY <1>5, <2>2 DEF new
  <2>4. QED BY SMTT(30), <1>1, <1>7, <2>3
<1>14. sx \in Int /\ sy \in Int
  BY <1>7
<1>15. sy >= sx + new
  <2>1. \A l \in 2 .. 5 : l <= n + 1 => x[l] <= y[l]
    <3> SUFFICES ASSUME NEW l \in 2 .. 5, l <= n + 1 PROVE x[l] <= y[l]
      OBVIOUS
    <3>1. l - 1 \in 1 .. n
      BY <1>1
    <3>2. h[l - 1] = g[l - 1] /\ g[l - 1] \in Int
      <4>1. h[l - 1] = g[l - 1] /\ g[l - 1] \in 1 .. hd
        BY <1>5, <3>1
      <4>2. QED BY <1>1, <4>1
    <3>3. l <= n + 2
      BY <1>1
    <3>4. QED BY <1>2, <1>7, <3>2, <3>3 DEF AtLeast
  <2>2. n \in {0, 1, 2, 3} /\ new \in Int /\ 0 \in Int
    BY <1>1, <1>3
  <2>3. QED BY <1>8, <1>13, <2>1, <2>2, LongerSum
<1>16. max \in Int /\ max > s.max
  <2> HIDE DEF sx, sy, max
  <2>1. QED BY <1>1, <1>2, <1>3, <1>10, <1>11, <1>12, <1>14, <1>15
<1>17. ASSUME con = s.con \/ (\A i \in DOMAIN g : g[i] + m >= 1)
       PROVE  max = s.max + new + (k - m) * s.level + r
  <2>1. \A l \in 2 .. 5 : l <= n + 1 => y[l] = x[l] + (k - m)
    <3> SUFFICES ASSUME NEW l \in 2 .. 5, l <= n + 1 PROVE y[l] = x[l] + (k - m)
      OBVIOUS
    <3>1. l - 1 \in 1 .. n /\ DOMAIN g = 1 .. n
      BY <1>1
    <3>2. h[l - 1] = g[l - 1] /\ g[l - 1] \in Int
      <4>1. h[l - 1] = g[l - 1] /\ g[l - 1] \in 1 .. hd
        BY <1>5, <3>1
      <4>2. QED BY <1>1, <4>1
    <3>3. l <= n + 2
      BY <1>1
    <3>4. x[l] = AtLeast(1, g[l - 1] + m) /\ y[l] = AtLeast(1, g[l - 1] + k)
      BY <1>7, <3>2, <3>3
    <3>5. CASE con = s.con
      <4>1. k = m
        BY <3>5 DEF k, m
      <4>2. x[l] \in Int
        BY <1>7
      <4>3. QED BY <1>2, <3>4, <4>1, <4>2
    <3>6. CASE g[l - 1] + m >= 1
      BY <1>2, <3>2, <3>4, <3>6 DEF AtLeast
    <3>7. QED BY <1>17, <3>1, <3>5, <3>6
  <2>2. k - m \in Int
    BY <1>2
  <2>3. sy = sx + new + (k - m) * n
    <3> DEFINE d == k - m
    <3>1. \A l \in 2 .. 5 : l <= n + 1 => y[l] = x[l] + d
      BY <2>1
    <3>2. d \in Int
      BY <2>2
    <3> HIDE DEF d
    <3>3. n \in {0, 1, 2, 3} /\ new \in Int
      BY <1>1, <1>3
    <3>4. y[2] + y[3] + y[4] + y[5] = x[2] + x[3] + x[4] + x[5] + new + d * n
      BY <1>8, <1>13, <3>1, <3>2, <3>3, LongerSum
    <3>5. QED BY <3>4 DEF d
  <2>4. (k - m) * s.level = (k - m) * n + (k - m) /\ (k - m) * n \in Int
    BY <1>1, <1>2
  <2> HIDE DEF sx, sy, max
  <2>5. QED BY <1>1, <1>2, <1>3, <1>10, <1>11, <1>12, <1>14, <2>3, <2>4
<1>18. QED BY <1>16, <1>17 DEF m, k, g, h, new, r

-----------------------------------------------------------------------------
(* The scores and hit points of the saved sheet.                           *)
LEMMA LeveledV2Fields ==
  ASSUME NEW s, IsSheet(s), NEW r
  PROVE  LET t == LeveledV2(s, r) IN
         /\ DOMAIN t = SheetFields
         /\ t.schema = s.schema /\ t.class = s.class /\ t.level = s.level + 1
         /\ t.subclass = SubclassAfter(s, r) /\ t.recorded = RecordedV2(s, r)
         /\ t.skilled = s.skilled /\ t.cantrips = s.cantrips + r.spells.cantrips
         /\ t.leveled = s.leveled + r.spells.learned + r.spells.spellbook
         /\ t.con = ScoreV2(s, s.con, r.improvement.con) /\ t.cast = ScoreV2(s, s.cast, r.improvement.cast)
         /\ t.gains = Append(s.gains, r.die)
         /\ t.max = MaximumV2(s, r)
         /\ t.current = CurrentAfter(s, r, MaximumV2(s, r))
<1> DEFINE t == LeveledV1(s, r)
<1>1. /\ DOMAIN t = SheetFields
      /\ t.schema = s.schema /\ t.class = s.class /\ t.level = s.level + 1
      /\ t.subclass = SubclassAfter(s, r)
      /\ t.skilled = s.skilled /\ t.cantrips = s.cantrips + r.spells.cantrips
      /\ t.leveled = s.leveled + r.spells.learned + r.spells.spellbook
      /\ t.gains = Append(s.gains, r.die)
  BY ZenonT(60), LeveledV1Fields
<1>2. LeveledV2(s, r) =
        [t EXCEPT !.recorded = RecordedV2(s, r),
                  !.con      = ScoreV2(s, s.con, r.improvement.con),
                  !.cast     = ScoreV2(s, s.cast, r.improvement.cast),
                  !.max      = MaximumV2(s, r),
                  !.current  = CurrentAfter(s, r, MaximumV2(s, r))]
  BY DEF LeveledV2
<1> HIDE DEF t
<1>3. QED BY <1>1, <1>2 DEF SheetFields

(* A consistent V2 sheet has the scores the improvement gives.             *)
LEMMA ScoresKept ==
  ASSUME NEW s, IsSheet(s), s.schema = "V2", NEW r, ImprovementOf(s, r.improvement), ScoresConsistentV2(s, r)
  PROVE  /\ ScoreV2(s, s.con, r.improvement.con) = s.con + r.improvement.con
         /\ ScoreV2(s, s.cast, r.improvement.cast) = s.cast + r.improvement.cast
<1>1. s.con \in Int /\ s.cast \in Int
  BY Numbers
<1>2. CASE s.scores = "calculated" /\ r.improvement.kind = "scores"
  BY <1>2 DEF ScoresConsistentV2
<1>3. CASE s.scores = "calculated" /\ r.improvement.kind # "scores"
  <2>1. r.improvement.con = 0 /\ r.improvement.cast = 0
    BY <1>3 DEF ImprovementOf
  <2>2. s.con <= 20 /\ s.cast <= 20
    BY <1>3 DEF IsSheet, RebuiltV2
  <2>3. QED BY <1>1, <1>3, <2>1, <2>2 DEF ScoreV2, AtMost
<1>4. CASE s.scores # "calculated"
  BY <1>4 DEF ScoreV2
<1>5. QED BY <1>2, <1>3, <1>4

(* The maximum the V1 review shows is the server's.                        *)
LEMMA MaximumProposedV1 ==
  ASSUME Opened, sheet.schema = "V1"
  PROVE  /\ ProposedMax = sheet.max + IncreaseV1(sheet, Request)
         /\ IncreaseV1(sheet, Request) >= 1
<1>1. IsSheet(sheet) /\ DraftFits(sheet, draft)
  BY StepsOfTheSheet DEF Opened
<1>2. Request.die = draft.die /\ Request.improvement = draft.improvement
  BY RequestParts
<1>3. Request.die \in 1 .. Classes[sheet.class].hitDie /\ Request.improvement.con \in 0 .. 2
  BY <1>1, <1>2 DEF DraftFits, ImprovementOf
<1>4. IncreaseV1(sheet, Request) >= 1
  BY <1>1, <1>3, IncreaseIsPositive
<1> DEFINE prior == AbilityModifier(sheet.con)
           resulting == AbilityModifier(sheet.con + draft.improvement.con)
           new == AtLeast(1, draft.die + resulting)
<1>5. /\ ProposedMax = sheet.max + new + (resulting - prior) * sheet.level + 0
      /\ IncreaseV1(sheet, Request) = new + (resulting - prior) * sheet.level
  BY <1>2 DEF ProposedMax, IncreaseV1
<1>6. sheet.con \in Int /\ sheet.con + draft.improvement.con \in Int /\ sheet.level \in Int /\ sheet.max \in Int
      /\ draft.die \in Int
  <2>1. /\ sheet.con \in Int /\ sheet.level \in Int /\ sheet.max \in Int
        /\ Classes[sheet.class].hitDie \in Int
    BY <1>1, Numbers
  <2>2. draft.improvement.con \in 0 .. 2 /\ draft.die \in 1 .. Classes[sheet.class].hitDie
    BY <1>2, <1>3
  <2>3. QED BY <2>1, <2>2
<1>7. prior \in Int /\ resulting \in Int
  BY <1>6, Modifiers
<1>8. new \in Int
  BY <1>6, <1>7 DEF AtLeast
<1> HIDE DEF prior, resulting, new
<1>9. (resulting - prior) * sheet.level \in Int
  BY <1>6, <1>7
<1>10. QED BY <1>4, <1>5, <1>6, <1>8, <1>9

(* The maximum the V2 review shows is the server's, minimum or no.         *)
LEMMA MaximumProposedV2 ==
  ASSUME Opened, AllValid, sheet.schema = "V2", ScoresConsistentV2(sheet, Request)
  PROVE  /\ MaximumV2(sheet, Request) > sheet.max
         /\ ~MinimumRevised => MaximumV2(sheet, Request) = ProposedMax
<1>1. IsSheet(sheet) /\ DraftFits(sheet, draft) /\ sheet.class \in DOMAIN Classes
  BY StepsOfTheSheet, Levels DEF Opened
<1>2. Request.die = draft.die /\ Request.improvement = draft.improvement
  BY RequestParts
<1>3. /\ ImprovementOf(sheet, Request.improvement) /\ draft.improvement.con \in 0 .. 2
      /\ draft.die \in 1 .. Classes[sheet.class].hitDie
  BY <1>1, <1>2 DEF DraftFits, ImprovementOf
<1>4. ScoreV2(sheet, sheet.con, Request.improvement.con) = sheet.con + draft.improvement.con
  BY <1>1, <1>2, <1>3, ScoresKept
<1>5. SubclassAfter(sheet, Request) = SelectedSubclass
  BY SubclassDecided
<1>6. Resilience(sheet.class, SelectedSubclass) = Resilience(sheet.class, sheet.subclass)
  <2>1. CASE sheet.class = "sorcerer"
    <3>1. Classes[sheet.class].subclassDecisionLevel = 1
      BY <1>1, <2>1, ClassAssumption
    <3>2. sheet.level \in 1 .. 4
      BY <1>1, SheetTypes
    <3>3. sheet.subclass # "none"
      BY <1>1, <3>1, <3>2 DEF IsSheet, RebuiltV2
    <3>4. QED BY <3>3 DEF SelectedSubclass
  <2>2. CASE sheet.class # "sorcerer"
    BY <2>2 DEF Resilience
  <2>3. QED BY <2>1, <2>2
<1> DEFINE con == sheet.con + draft.improvement.con
           max == MaximumHitPoints(sheet.class, SelectedSubclass, con, Append(sheet.gains, draft.die))
<1>7. MaximumV2(sheet, Request) = max
  BY <1>2, <1>4, <1>5 DEF MaximumV2
<1>8. con \in Int /\ sheet.con <= con
  <2>1. sheet.con \in Int
    BY <1>1, Numbers
  <2>2. QED BY <1>3, <2>1
<1> HIDE DEF con
<1>9. /\ max \in Int /\ max > sheet.max
      /\ con = sheet.con \/ (\A i \in DOMAIN sheet.gains : sheet.gains[i] + AbilityModifier(sheet.con) >= 1) =>
           max = sheet.max + AtLeast(1, draft.die + AbilityModifier(con))
                 + (AbilityModifier(con) - AbilityModifier(sheet.con)) * sheet.level
                 + Resilience(sheet.class, SelectedSubclass)
  BY <1>1, <1>3, <1>6, <1>8, MaximumGrows
<1>10. ProposedMax = sheet.max + AtLeast(1, draft.die + AbilityModifier(con))
                     + (AbilityModifier(con) - AbilityModifier(sheet.con)) * sheet.level
                     + Resilience(sheet.class, SelectedSubclass)
  BY DEF ProposedMax, con
<1>11. ASSUME ~MinimumRevised
       PROVE  con = sheet.con \/ (\A i \in DOMAIN sheet.gains : sheet.gains[i] + AbilityModifier(sheet.con) >= 1)
  <2>1. CASE draft.improvement.con > 0
    <3>1. ASSUME NEW i \in DOMAIN sheet.gains PROVE sheet.gains[i] + AbilityModifier(sheet.con) >= 1
      <4>1. ~(sheet.gains[i] + AbilityModifier(sheet.con) < 1)
        BY <1>11, <2>1 DEF MinimumRevised
      <4>2. sheet.con \in Int /\ sheet.gains[i] \in Int
        BY <1>1, Numbers
      <4>3. AbilityModifier(sheet.con) \in Int
        BY <4>2, Modifiers
      <4>4. QED BY <4>1, <4>2, <4>3
    <3>2. QED BY <3>1
  <2>2. CASE ~(draft.improvement.con > 0)
    <3>1. sheet.con \in Int
      BY <1>1, Numbers
    <3>2. QED BY <1>3, <2>2, <3>1 DEF con
  <2>3. QED BY <2>1, <2>2
<1>12. QED BY <1>7, <1>9, <1>10, <1>11

(* Both versions: an accepted request saves the scores and hit points      *)
(* reviewed.                                                               *)
LEMMA AcceptedIsAsReviewed ==
  ASSUME Opened, AllValid, Accepts(sheet, Request), result = Leveled(sheet, Request)
  PROVE  /\ result.con = sheet.con + draft.improvement.con
         /\ result.cast = sheet.cast + draft.improvement.cast
         /\ ~MinimumRevised =>
              /\ result.max = ProposedMax
              /\ result.current = CurrentAfter(sheet, Request, ProposedMax)
<1>1. IsSheet(sheet) /\ DraftFits(sheet, draft) /\ sheet.schema \in {"V1", "V2"}
  BY StepsOfTheSheet, SheetTypes DEF Opened
<1>2. Request.improvement = draft.improvement
  BY RequestParts
<1>3. CASE sheet.schema = "V1"
  <2>1. result = LeveledV1(sheet, Request)
    BY <1>3 DEF Leveled
  <2>2. QED BY <1>1, <1>2, <1>3, <2>1, LeveledV1Fields, MaximumProposedV1
<1>4. CASE sheet.schema = "V2"
  <2>1. result = LeveledV2(sheet, Request) /\ ScoresConsistentV2(sheet, Request)
    BY <1>4 DEF Leveled, Accepts, AcceptsV2
  <2>2. ImprovementOf(sheet, Request.improvement)
    BY <1>1, <1>2 DEF DraftFits
  <2>3. /\ result.con = ScoreV2(sheet, sheet.con, Request.improvement.con)
        /\ result.cast = ScoreV2(sheet, sheet.cast, Request.improvement.cast)
        /\ result.max = MaximumV2(sheet, Request)
        /\ result.current = CurrentAfter(sheet, Request, MaximumV2(sheet, Request))
    BY <1>1, <2>1, LeveledV2Fields
  <2>4. /\ ScoreV2(sheet, sheet.con, Request.improvement.con) = sheet.con + Request.improvement.con
        /\ ScoreV2(sheet, sheet.cast, Request.improvement.cast) = sheet.cast + Request.improvement.cast
    BY <1>1, <1>4, <2>1, <2>2, ScoresKept
  <2>5. ~MinimumRevised => MaximumV2(sheet, Request) = ProposedMax
    BY <1>4, <2>1, MaximumProposedV2
  <2>6. QED BY <1>2, <2>3, <2>4, <2>5
<1>5. QED BY <1>1, <1>3, <1>4

-----------------------------------------------------------------------------
(* The choices and spells of the saved sheet.                              *)
LEMMA RecordedAtChoice ==
  ASSUME NEW s, IsSheet(s), NEW r, NEW choice \in ChoicesOf(s.class)
  PROVE  /\ RecordedV1(s, r)[choice.id] =
              IF choice.featured /\ choice.from = s.level + 1 THEN Whole
              ELSE IF Present(s, choice, s.level + 1) THEN s.recorded[choice.id]
              ELSE IF r.choices[choice.id].note THEN Whole
              ELSE s.recorded[choice.id] + r.choices[choice.id].n
         /\ RecordedV2(s, r)[choice.id] =
              IF r.choices[choice.id] = NotSent THEN s.recorded[choice.id]
              ELSE IF r.choices[choice.id].note THEN Whole
              ELSE r.choices[choice.id].n
         /\ DOMAIN RecordedV1(s, r) = DOMAIN s.recorded /\ DOMAIN RecordedV2(s, r) = DOMAIN s.recorded
<1>1. choice.id \in DOMAIN s.recorded
  <2>1. s.recorded \in [Ids(s.class) -> 0 .. Whole]
    BY SheetTypes
  <2>2. QED BY <2>1 DEF Ids
<1>2. (CHOOSE other \in ChoicesOf(s.class) : other.id = choice.id) = choice
  BY ChoiceTables, Levels
<1>3. QED BY <1>1, <1>2 DEF RecordedV1, RecordedV2

(* What a sheet records of a choice is a number of options.                *)
LEMMA RecordedNumbers ==
  ASSUME NEW s, IsSheet(s), NEW choice \in ChoicesOf(s.class), NEW l \in Level
  PROVE  /\ s.recorded[choice.id] \in Nat
         /\ choice.counts[l] \in Nat /\ choice.counts[l] < Whole
<1>1. s.class \in DOMAIN Classes /\ choice.id \in Ids(s.class)
  BY Levels DEF Ids
<1>2. s.recorded[choice.id] \in 0 .. Whole
  BY <1>1, SheetTypes
<1>3. choice.counts[l] \in 0 .. 5
  BY <1>1, ChoiceTables
<1>4. QED BY <1>2, <1>3 DEF Whole

(* After a V1 level the sheet holds every choice of that level in full.    *)
LEMMA ChoicesHeldV1 ==
  ASSUME Opened, AllValid, ChoicesFitV1(sheet, Request), NEW choice \in ChoicesOf(sheet.class),
         choice.from <= Target, Applies(choice, SelectedSubclass)
  PROVE  RecordedV1(sheet, Request)[choice.id] >= choice.counts[Target]
<1>1. IsSheet(sheet) /\ Target = sheet.level + 1 /\ Target \in Level
  BY StepsOfTheSheet, Levels DEF Target
<1> DEFINE before == sheet.recorded[choice.id]
           count == choice.counts[Target]
           selection == Request.choices[choice.id]
<1>2. before \in Nat /\ count \in Nat /\ count < Whole /\ Whole \in Nat
  BY <1>1, RecordedNumbers DEF Whole
<1>3. RecordedV1(sheet, Request)[choice.id] =
        IF choice.featured /\ choice.from = Target THEN Whole
        ELSE IF Present(sheet, choice, Target) THEN before
        ELSE IF selection.note THEN Whole
        ELSE before + selection.n
  BY <1>1, RecordedAtChoice
<1>4. Present(sheet, choice, Target) => before >= count
  BY DEF Present
<1>5. ~Present(sheet, choice, Target) => selection.note \/ selection.n = count
  <2> SUFFICES ASSUME ~Present(sheet, choice, Target) PROVE selection.note \/ selection.n = count
    OBVIOUS
  <2>1. choice \in Asked
    BY ChoicesAsked
  <2>2. selection = draft.choices[choice.id] /\ selection # NotSent
    BY <2>1, AskedAreAnswered, ChoicesSent DEF Answered
  <2>3. Answers(selection, choice, Target)
    BY <1>1, <2>2 DEF ChoicesFitV1
  <2>4. QED BY <2>3 DEF Answers
<1> HIDE DEF before, count, selection
<1>6. RecordedV1(sheet, Request)[choice.id] >= count
  BY <1>2, <1>3, <1>4, <1>5
<1>7. QED BY <1>6 DEF count

(* The same after a V2 level.                                              *)
LEMMA ChoicesHeldV2 ==
  ASSUME Opened, AllValid, ChoicesFitV2(sheet, Request), NEW choice \in ChoicesOf(sheet.class),
         choice.from <= Target, Applies(choice, SelectedSubclass)
  PROVE  RecordedV2(sheet, Request)[choice.id] >= choice.counts[Target]
<1>1. IsSheet(sheet) /\ Target = sheet.level + 1 /\ Target \in Level /\ choice.from \in Level
  BY StepsOfTheSheet, Levels, ChoiceTables DEF Target
<1>2. choice.counts[Target] \in Nat /\ choice.counts[Target] < Whole /\ Whole \in Nat
  BY <1>1, RecordedNumbers DEF Whole
<1>3. ChoicesCompleteV2(sheet.class, SelectedSubclass, RecordedV2(sheet, Request), Target)
  BY <1>1, SubclassDecided DEF ChoicesFitV2
<1>4. ~(choice.from > Target)
  BY <1>1 DEF Level
<1>5. RecordedV2(sheet, Request)[choice.id] = IF choice.options = "none" THEN Whole ELSE choice.counts[Target]
  BY <1>3, <1>4 DEF ChoicesCompleteV2
<1>6. QED BY <1>2, <1>5

(* The fields of the saved sheet, of either version.                       *)
LEMMA SavedFields ==
  ASSUME Opened, AllValid, Accepts(sheet, Request), result = Leveled(sheet, Request)
  PROVE  /\ DOMAIN result = DOMAIN sheet /\ DOMAIN result.recorded = DOMAIN sheet.recorded
         /\ result.class = sheet.class /\ result.level = Target
         /\ result.subclass = SelectedSubclass
         /\ result.recorded = (IF sheet.schema = "V1" THEN RecordedV1(sheet, Request) ELSE RecordedV2(sheet, Request))
         /\ result.cantrips = sheet.cantrips + draft.spells.cantrips
         /\ result.leveled = sheet.leveled + draft.spells.learned + draft.spells.spellbook
         /\ result.gains = Append(sheet.gains, draft.die)
         /\ \A choice \in ChoicesOf(sheet.class) :
              choice.from <= Target /\ Applies(choice, SelectedSubclass) => Present(result, choice, Target)
<1>1. IsSheet(sheet) /\ sheet.schema \in {"V1", "V2"} /\ DOMAIN sheet = SheetFields /\ Target = sheet.level + 1
  BY StepsOfTheSheet, SheetTypes DEF Target
<1>2. SubclassAfter(sheet, Request) = SelectedSubclass
  BY SubclassDecided
<1>3. Request.die = draft.die /\ Request.spells = draft.spells
  BY RequestParts
<1>4. DOMAIN RecordedV1(sheet, Request) = DOMAIN sheet.recorded /\ DOMAIN RecordedV2(sheet, Request) = DOMAIN sheet.recorded
  BY DEF RecordedV1, RecordedV2
<1>5. CASE sheet.schema = "V1"
  <2>1. result = LeveledV1(sheet, Request) /\ ChoicesFitV1(sheet, Request)
    BY <1>5 DEF Leveled, Accepts, AcceptsV1
  <2>2. /\ DOMAIN result = SheetFields /\ result.class = sheet.class /\ result.level = sheet.level + 1
        /\ result.subclass = SubclassAfter(sheet, Request) /\ result.recorded = RecordedV1(sheet, Request)
        /\ result.cantrips = sheet.cantrips + Request.spells.cantrips
        /\ result.leveled = sheet.leveled + Request.spells.learned + Request.spells.spellbook
        /\ result.gains = Append(sheet.gains, Request.die)
    <3> DEFINE t == LeveledV1(sheet, Request)
    <3>1. /\ DOMAIN t = SheetFields /\ t.class = sheet.class /\ t.level = sheet.level + 1
          /\ t.subclass = SubclassAfter(sheet, Request) /\ t.recorded = RecordedV1(sheet, Request)
          /\ t.cantrips = sheet.cantrips + Request.spells.cantrips
          /\ t.leveled = sheet.leveled + Request.spells.learned + Request.spells.spellbook
          /\ t.gains = Append(sheet.gains, Request.die)
      BY ZenonT(60), <1>1, LeveledV1Fields
    <3> HIDE DEF t
    <3>2. result = t
      BY <2>1 DEF t
    <3>3. QED BY <3>1, <3>2
  <2>3. \A choice \in ChoicesOf(sheet.class) :
          choice.from <= Target /\ Applies(choice, SelectedSubclass) => Present(result, choice, Target)
    BY <2>1, <2>2, ChoicesHeldV1 DEF Present
  <2>4. QED BY <1>1, <1>2, <1>3, <1>4, <1>5, <2>2, <2>3
<1>6. CASE sheet.schema = "V2"
  <2>1. result = LeveledV2(sheet, Request) /\ ChoicesFitV2(sheet, Request)
    BY <1>6 DEF Leveled, Accepts, AcceptsV2
  <2>2. /\ DOMAIN result = SheetFields /\ result.class = sheet.class /\ result.level = sheet.level + 1
        /\ result.subclass = SubclassAfter(sheet, Request) /\ result.recorded = RecordedV2(sheet, Request)
        /\ result.cantrips = sheet.cantrips + Request.spells.cantrips
        /\ result.leveled = sheet.leveled + Request.spells.learned + Request.spells.spellbook
        /\ result.gains = Append(sheet.gains, Request.die)
    <3> DEFINE t == LeveledV2(sheet, Request)
    <3>1. /\ DOMAIN t = SheetFields /\ t.class = sheet.class /\ t.level = sheet.level + 1
          /\ t.subclass = SubclassAfter(sheet, Request) /\ t.recorded = RecordedV2(sheet, Request)
          /\ t.cantrips = sheet.cantrips + Request.spells.cantrips
          /\ t.leveled = sheet.leveled + Request.spells.learned + Request.spells.spellbook
          /\ t.gains = Append(sheet.gains, Request.die)
      BY ZenonT(60), <1>1, LeveledV2Fields
    <3> HIDE DEF t
    <3>2. result = t
      BY <2>1 DEF t
    <3>3. QED BY <3>1, <3>2
  <2>3. \A choice \in ChoicesOf(sheet.class) :
          choice.from <= Target /\ Applies(choice, SelectedSubclass) => Present(result, choice, Target)
    BY <2>1, <2>2, ChoicesHeldV2 DEF Present
  <2>4. QED BY <1>1, <1>2, <1>3, <1>4, <1>6, <2>2, <2>3
<1>7. QED BY <1>1, <1>5, <1>6

(* The audit of the next wizard finds nothing to ask for.                  *)
LEMMA NothingMissingAfterwards ==
  ASSUME Opened, AllValid, ~plan.blocked, Accepts(sheet, Request), result = Leveled(sheet, Request)
  PROVE  MissingChoices(result) = {} /\ ~MissingSubclass(result) /\ ~Blocked(result)
<1> DEFINE decides == Classes[sheet.class].subclassDecisionLevel
<1>1. /\ result.class = sheet.class /\ result.level = Target /\ result.subclass = SelectedSubclass
      /\ result.leveled = sheet.leveled + draft.spells.learned + draft.spells.spellbook
      /\ \A choice \in ChoicesOf(sheet.class) :
           choice.from <= Target /\ Applies(choice, SelectedSubclass) => Present(result, choice, Target)
  BY SavedFields
<1>2. /\ IsSheet(sheet) /\ Target = sheet.level + 1 /\ Target \in Int /\ decides \in Int
      /\ sheet.class \in DOMAIN Classes /\ DraftFits(sheet, draft) /\ plan.blocked = Blocked(sheet)
  BY StepsOfTheSheet, Levels, ClassAssumption DEF Target, Opened
<1>3. Target >= decides => SelectedSubclass # "none"
  BY SubclassDecided
<1>4. ~MissingSubclass(result)
  BY <1>1, <1>3 DEF MissingSubclass
<1>5. AssumedSubclass(result, result.level) = SelectedSubclass
  BY <1>1, <1>3 DEF AssumedSubclass
<1>6. MissingChoices(result) = {}
  BY <1>1, <1>5 DEF MissingChoices
<1>7. ~SpellbookShort(result)
  <2> SUFFICES ASSUME sheet.class = "wizard" PROVE ~(result.leveled < SpellbookSize(Target))
    BY <1>1 DEF SpellbookShort
  <2>1. ~(sheet.leveled < SpellbookSize(sheet.level))
    BY <1>2 DEF Blocked, SpellbookShort
  <2>2. Casts(sheet.class, 1) /\ Classes[sheet.class].spellcasting.mode = "spellbook-prepared"
    BY <1>2, ClassAssumption
  <2>3. Casts(sheet.class, Target)
    <3>1. Classes[sheet.class].spellcasting.since \in 1 .. 6
      BY <1>2, SpellTables
    <3>2. Target >= 1
      BY <1>2, Levels DEF Level
    <3>3. QED BY <1>2, <2>2, <3>1, <3>2 DEF Casts
  <2>4. SpellsValid
    BY <2>3, ReviewedSteps
  <2>5. draft.spells.spellbook = 2
    BY <2>2, <2>4 DEF SpellsValid, Rule, SpellbookAdditions
  <2>6. draft.spells.learned \in Nat
    BY <1>2 DEF DraftFits, SpellsFit
  <2>7. sheet.leveled \in Nat /\ sheet.level \in Int
    BY <1>2, SheetTypes, Levels
  <2>8. QED BY <1>1, <1>2, <2>1, <2>5, <2>6, <2>7 DEF SpellbookSize
<1>8. ~Blocked(result)
  BY <1>6, <1>7 DEF Blocked
<1>9. QED BY <1>4, <1>6, <1>8

(* What the server checks of the spells, whatever the version.             *)
LEMMA SpellsChecked ==
  ASSUME Opened, AllValid, Accepts(sheet, Request), result = Leveled(sheet, Request), Casts(sheet.class, Target)
  PROVE  LET casting == Classes[sheet.class].spellcasting
             spells == draft.spells
         IN  /\ spells.expanded => SelectedSubclass = "srd"
             /\ KnowsSpells(sheet.class) =>
                  /\ sheet.cantrips + spells.cantrips = AtLeast(0, casting.cantripsKnown[Target])
                  /\ sheet.leveled + spells.learned = casting.spellsKnown[Target]
             /\ PreparesSpells(sheet.class) =>
                  /\ casting.cantripsKnown[Target] # Null =>
                       sheet.cantrips + spells.cantrips = AtLeast(0, casting.cantripsKnown[Target])
                  /\ spells.prepared =
                       PreparedSpellCount(sheet.class, sheet.cast + draft.improvement.cast, Target)
                  /\ spells.listed => ~AlwaysPrepares(sheet.class, SelectedSubclass, result.recorded, Target)
<1> DEFINE casting == Classes[sheet.class].spellcasting
           spells == draft.spells
<1>1. /\ IsSheet(sheet) /\ sheet.schema \in {"V1", "V2"} /\ Target = sheet.level + 1
      /\ ImprovementOf(sheet, draft.improvement) /\ casting.cantripsKnown[Target] \in Nat \cup {Null}
  <2>1. IsSheet(sheet) /\ DraftFits(sheet, draft)
    BY StepsOfTheSheet DEF Opened
  <2>2. Target = sheet.level + 1 /\ Target \in Level /\ sheet.class \in DOMAIN Classes
    BY <2>1, Levels DEF Target
  <2>3. casting.cantripsKnown[Target] \in Nat \cup {Null}
    BY <2>2, SpellTables
  <2>4. sheet.schema \in {"V1", "V2"}
    BY <2>1, SheetTypes
  <2>5. QED BY <2>1, <2>2, <2>3, <2>4 DEF DraftFits
<1>2. /\ Request.spells = spells /\ Request.improvement = draft.improvement
      /\ SubclassAfter(sheet, Request) = SelectedSubclass
  BY RequestParts, SubclassDecided
<1>3. result.recorded = IF sheet.schema = "V1" THEN RecordedV1(sheet, Request) ELSE RecordedV2(sheet, Request)
  BY SavedFields
<1>4. casting.cantripsKnown[Target] # Null => casting.cantripsKnown[Target] = AtLeast(0, casting.cantripsKnown[Target])
  BY <1>1 DEF AtLeast
<1>5. CASE sheet.schema = "V1"
  <2>1. SpellsFitV1(sheet, Request)
    BY <1>1, <1>5 DEF Accepts, AcceptsV1
  <2>2. QED BY <1>1, <1>2, <1>3, <1>4, <1>5, <2>1 DEF SpellsFitV1
<1>6. CASE sheet.schema = "V2"
  <2>1. SpellsFitV2(sheet, Request) /\ ScoresConsistentV2(sheet, Request)
    BY <1>1, <1>6 DEF Accepts, AcceptsV2
  <2>2. ScoreV2(sheet, sheet.cast, Request.improvement.cast) = sheet.cast + draft.improvement.cast
    BY <1>1, <1>2, <1>6, <2>1, ScoresKept
  <2>3. QED BY <1>1, <1>2, <1>3, <1>6, <2>1, <2>2 DEF SpellsFitV2
<1>7. QED BY <1>1, <1>5, <1>6

(* The spells of the saved sheet are those of its level, subclass and      *)
(* score.                                                                  *)
LEMMA SpellsAfterwards ==
  ASSUME Opened, AllValid, Accepts(sheet, Request), result = Leveled(sheet, Request), Casts(sheet.class, Target)
  PROVE  LET casting == Classes[sheet.class].spellcasting IN
         /\ \/ PreparesSpells(sheet.class) /\ casting.cantripsKnown[Target] = Null
            \/ result.cantrips = AtLeast(0, casting.cantripsKnown[Target])
         /\ KnowsSpells(sheet.class) => result.leveled = casting.spellsKnown[Target]
         /\ draft.spells.listed => ~AlwaysPrepares(sheet.class, result.subclass, result.recorded, Target)
         /\ draft.spells.expanded => result.subclass = "srd"
         /\ PreparesSpells(sheet.class) =>
              draft.spells.prepared = PreparedSpellCount(sheet.class, result.cast, Target)
<1> DEFINE casting == Classes[sheet.class].spellcasting
           spells == draft.spells
<1>1. /\ IsSheet(sheet) /\ Target \in 2 .. 5 /\ sheet.class \in DOMAIN Classes
      /\ SpellsFit(sheet, spells) /\ Target = sheet.level + 1
  <2>1. IsSheet(sheet) /\ DraftFits(sheet, draft)
    BY StepsOfTheSheet DEF Opened
  <2>2. sheet.level \in 1 .. 4 /\ Target = sheet.level + 1
    BY <2>1, SheetTypes DEF Target
  <2>3. QED BY <2>1, <2>2, SheetTypes DEF DraftFits
<1>2. casting.mode \in {"none", "known", "pact-known", "prepared", "spellbook-prepared"} /\ casting.since \in 1 .. 6
  BY <1>1, SpellTables
<1>3. KnowsSpells(sheet.class) \/ PreparesSpells(sheet.class)
  <2>1. casting.mode # "none"
    <3>1. casting.mode = "none" => casting.since = 6
      BY <1>1, ClassAssumption
    <3>2. QED BY <1>1, <3>1 DEF Casts
  <2>2. QED BY <1>2, <2>1 DEF KnowsSpells, PreparesSpells
<1>4. /\ result.subclass = SelectedSubclass /\ result.cantrips = sheet.cantrips + spells.cantrips
      /\ result.leveled = sheet.leveled + spells.learned + spells.spellbook
  BY SavedFields
<1>5. result.cast = sheet.cast + draft.improvement.cast
  BY AcceptedIsAsReviewed
<1>6. KnowsSpells(sheet.class) => result.leveled = casting.spellsKnown[Target]
  <2> SUFFICES ASSUME KnowsSpells(sheet.class) PROVE result.leveled = casting.spellsKnown[Target]
    OBVIOUS
  <2>1. spells.spellbook = 0
    BY <1>1 DEF SpellsFit, KnowsSpells
  <2>2. sheet.leveled \in Int /\ spells.learned \in Int
    BY <1>1, SheetTypes DEF SpellsFit
  <2>3. QED BY <1>4, <2>1, <2>2, SpellsChecked
<1>7. ~PreparesSpells(sheet.class) => ~spells.listed
  <2>1. ~PreparesSpells(sheet.class) => Classes[sheet.class].alwaysFrom = 6
    BY <1>1, ClassAssumption
  <2>2. QED BY <1>1, <2>1 DEF SpellsFit
<1>8. draft.spells.listed => ~AlwaysPrepares(sheet.class, result.subclass, result.recorded, Target)
  BY <1>4, <1>7, SpellsChecked
<1>9. draft.spells.expanded => result.subclass = "srd"
  BY <1>4, SpellsChecked
<1>10. PreparesSpells(sheet.class) =>
         draft.spells.prepared = PreparedSpellCount(sheet.class, result.cast, Target)
  BY <1>5, SpellsChecked
<1>11. \/ PreparesSpells(sheet.class) /\ casting.cantripsKnown[Target] = Null
       \/ result.cantrips = AtLeast(0, casting.cantripsKnown[Target])
  BY <1>3, <1>4, SpellsChecked
<1>12. QED BY <1>6, <1>8, <1>9, <1>10, <1>11

-----------------------------------------------------------------------------
(* The two invariants of saved sheets follow.                              *)
LEMMA SoundWhenSaved ==
  ASSUME IInv
  PROVE  SavedAsReviewed /\ LeveledSheetIsSound
<1> SUFFICES ASSUME outcome = "saved" PROVE SavedAsReviewed /\ LeveledSheetIsSound
  BY DEF SavedAsReviewed, LeveledSheetIsSound
<1>1. Opened /\ AllValid /\ ~plan.blocked /\ Accepts(sheet, Request) /\ result = Leveled(sheet, Request)
  BY DEF IInv, Submitted
<1>2. SavedAsReviewed
  BY <1>1, AcceptedIsAsReviewed DEF SavedAsReviewed
<1>3. result.level = Target
  BY <1>1, SavedFields
<1>4. MissingChoices(result) = {} /\ ~MissingSubclass(result) /\ ~Blocked(result)
  BY <1>1, NothingMissingAfterwards
<1>5. LeveledSheetIsSound
  BY <1>1, <1>3, <1>4, SpellsAfterwards DEF LeveledSheetIsSound, Rule
<1>6. QED BY <1>2, <1>5

-----------------------------------------------------------------------------
(* A reviewed request is accepted unless the two sides disagree.           *)
Undisputed == Opened /\ AllValid /\ ~Disagreement

(* The server's V1 rules accept the answers.                               *)
LEMMA ChoicesAcceptedV1 ==
  ASSUME Undisputed, sheet.schema = "V1"
  PROVE  ChoicesFitV1(sheet, Request)
<1>1. /\ Opened /\ AllValid /\ IsSheet(sheet) /\ Target = sheet.level + 1 /\ Target \in Level
      /\ sheet.class \in DOMAIN Classes
  BY StepsOfTheSheet, Levels DEF Undisputed, Target
<1>2. \A choice \in Asked : ~choice.creation
  BY DEF Undisputed, Disagreement
<1>3. \A choice \in Asked : draft.choices[choice.id].mark => choice.id # Invocations
  BY DEF Undisputed, Disagreement
<1>4. \A choice \in plan.missing :
        ~draft.choices[choice.id].note => choice.counts[sheet.level] = choice.counts[Target]
  BY DEF Undisputed, Disagreement
<1>5. ASSUME NEW choice \in ChoicesOf(sheet.class), Request.choices[choice.id] # NotSent
      PROVE  choice \in TableChoices(sheet.class, Target)
  <2>1. choice \in Asked
    BY <1>1, <1>5, ChoicesSent
  <2>2. QED BY <1>1, <1>2, <2>1, AskedAreAnswered DEF TableChoices
<1>6. ASSUME NEW choice \in TableChoices(sheet.class, Target), ~Present(sheet, choice, Target)
      PROVE  /\ Answers(Request.choices[choice.id], choice, Target)
             /\ PrerequisiteHeldV1(sheet, Request.choices[choice.id], choice)
  <2>1. choice \in ChoicesOf(sheet.class) /\ ~choice.creation /\ choice.from <= Target
    BY DEF TableChoices
  <2>2. Applies(choice, SelectedSubclass)
    BY <1>1, <2>1, ChoiceTables DEF Applies
  <2>3. choice \in Asked
    BY <1>1, <1>6, <2>1, <2>2, ChoicesAsked
  <2>4. Request.choices[choice.id] = draft.choices[choice.id]
    BY <1>1, <2>1, <2>3, ChoicesSent
  <2>5. Answered(choice)
    BY <1>1, <2>3, AskedAreAnswered
  <2>6. Answers(draft.choices[choice.id], choice, Target)
    BY <1>4, <2>5 DEF Answers, Answered, Answerable
  <2>7. PrerequisiteHeldV1(sheet, draft.choices[choice.id], choice)
    BY <1>3, <2>3 DEF PrerequisiteHeldV1
  <2>8. QED BY <2>4, <2>6, <2>7
<1>7. QED BY <1>1, <1>5, <1>6 DEF ChoicesFitV1

(* A sheet of version 2 has every choice of its level, so that none is     *)
(* missing.                                                                *)
LEMMA NothingMissingV2 ==
  ASSUME Opened, sheet.schema = "V2"
  PROVE  plan.missing = {}
<1>1. /\ IsSheet(sheet) /\ plan.missing = MissingChoices(sheet) /\ RebuiltV2(sheet)
      /\ sheet.level \in Level /\ sheet.class \in DOMAIN Classes
  BY StepsOfTheSheet, Levels DEF IsSheet
<1>2. AssumedSubclass(sheet, sheet.level) = sheet.subclass
  <2>1. Classes[sheet.class].subclassDecisionLevel \in Int /\ sheet.level \in Int
    BY <1>1, Levels, ClassAssumption
  <2>2. sheet.subclass = "none" => sheet.level < Classes[sheet.class].subclassDecisionLevel
    BY <1>1 DEF RebuiltV2
  <2>3. QED BY <2>1, <2>2 DEF AssumedSubclass
<1>3. ASSUME NEW choice \in ChoicesOf(sheet.class), choice.from <= sheet.level, Applies(choice, sheet.subclass)
      PROVE  Present(sheet, choice, sheet.level)
  <2>1. choice.from \in Level
    BY <1>1, ChoiceTables
  <2>2. ~(choice.from > sheet.level)
    BY <1>1, <1>3, <2>1 DEF Level
  <2>3. sheet.recorded[choice.id] = IF choice.options = "none" THEN Whole ELSE choice.counts[sheet.level]
    BY <1>1, <1>3, <2>2 DEF RebuiltV2, ChoicesCompleteV2
  <2>4. choice.counts[sheet.level] \in Nat /\ choice.counts[sheet.level] < Whole /\ Whole \in Nat
    BY <1>1, RecordedNumbers DEF Whole
  <2>5. QED BY <2>3, <2>4 DEF Present
<1>4. QED BY <1>1, <1>2, <1>3 DEF MissingChoices

(* And so do the V2 rules, with the whole sheet's choices.                 *)
LEMMA ChoicesAcceptedV2 ==
  ASSUME Undisputed, sheet.schema = "V2"
  PROVE  ChoicesFitV2(sheet, Request)
<1>1. /\ Opened /\ AllValid /\ IsSheet(sheet) /\ Target = sheet.level + 1 /\ Target \in Level /\ sheet.level \in Level
      /\ sheet.class \in DOMAIN Classes /\ RebuiltV2(sheet)
  BY StepsOfTheSheet, Levels DEF Undisputed, Target, IsSheet
<1>2. plan.missing = {}
  BY <1>1, NothingMissingV2
<1>3. /\ \A choice \in Asked : draft.choices[choice.id].mark => choice.id # Invocations
      /\ \A choice \in Asked : draft.choices[choice.id].note => choice.options = "none"
  BY DEF Undisputed, Disagreement
<1>4. ASSUME NEW choice \in ChoicesOf(sheet.class), Request.choices[choice.id] # NotSent
      PROVE  ChoiceSentFitsV2(Request, choice, Target)
  <2>1. choice \in Asked /\ Request.choices[choice.id] = draft.choices[choice.id]
    BY <1>1, <1>4, ChoicesSent
  <2>2. choice.from <= Target /\ Answered(choice)
    BY <1>1, <2>1, AskedAreAnswered
  <2>3. Answers(draft.choices[choice.id], choice, Target)
    BY <1>2, <2>2 DEF Answers, Answered, Answerable
  <2>4. QED BY <1>3, <2>1, <2>2, <2>3 DEF ChoiceSentFitsV2
<1>5. ASSUME NEW choice \in ChoicesOf(sheet.class)
      PROVE  RecordedV2(sheet, Request)[choice.id] =
               IF choice.from > Target \/ ~Applies(choice, SelectedSubclass) THEN 0
               ELSE IF choice.options = "none" THEN Whole
               ELSE choice.counts[Target]
  <2> DEFINE before == sheet.recorded[choice.id]
             count == choice.counts[Target]
             selection == draft.choices[choice.id]
  <2>1. RecordedV2(sheet, Request)[choice.id] =
          IF choice \in Asked /\ selection # NotSent
          THEN IF selection.note THEN Whole ELSE selection.n
          ELSE before
    BY <1>1, RecordedAtChoice, ChoicesSent
  <2>2. /\ choice.from \in Level /\ count \in Nat /\ count < Whole /\ before \in Nat /\ choice.counts[sheet.level] \in Nat
        /\ choice.counts[sheet.level] <= count /\ (choice.from <= Target => count > 0)
    <3>1. sheet.level <= Target
      BY <1>1 DEF Level
    <3>2. QED BY <1>1, <3>1, ChoiceTables, RecordedNumbers
  <2>3. before = IF choice.from > sheet.level \/ ~Applies(choice, sheet.subclass) THEN 0
                 ELSE IF choice.options = "none" THEN Whole
                 ELSE choice.counts[sheet.level]
    BY <1>1 DEF RebuiltV2, ChoicesCompleteV2
  <2>4. CASE choice.from > Target \/ ~Applies(choice, SelectedSubclass)
    <3>1. choice \notin Asked
      <4>1. ASSUME choice \in Asked PROVE choice.from <= Target /\ Applies(choice, SelectedSubclass)
        BY <1>1, <1>2, <4>1, AskedAreAnswered
      <4>2. QED BY <1>1, <2>2, <2>4, <4>1 DEF Level
    <3>2. choice.from > sheet.level \/ ~Applies(choice, sheet.subclass)
      BY <1>1, <2>2, <2>4 DEF Level, Applies, SelectedSubclass
    <3>3. QED BY <2>1, <2>3, <2>4, <3>1, <3>2
  <2>5. CASE choice.from <= Target /\ Applies(choice, SelectedSubclass) /\ Present(sheet, choice, Target)
    <3>1. choice \notin Asked
      BY <1>1, AskedAreAnswered, <2>5
    <3>2. before >= count /\ count > 0
      BY <2>2, <2>5 DEF Present
    <3>3. before # 0
      BY <2>2, <3>2
    <3>4. before = IF choice.options = "none" THEN Whole ELSE choice.counts[sheet.level]
      BY <2>3, <3>3
    <3>5. choice.options # "none" => choice.counts[sheet.level] = count
      BY <2>2, <3>2, <3>4
    <3>6. ~(choice.from > Target)
      BY <1>1, <2>2, <2>5 DEF Level
    <3>7. QED BY <2>1, <2>5, <3>1, <3>4, <3>5, <3>6
  <2>6. CASE choice.from <= Target /\ Applies(choice, SelectedSubclass) /\ ~Present(sheet, choice, Target)
    <3>1. choice \in Asked
      BY <1>1, <2>6, ChoicesAsked
    <3>2. Answered(choice)
      BY <1>1, <3>1, AskedAreAnswered
    <3>3. ~(choice.from > Target)
      BY <1>1, <2>2, <2>6 DEF Level
    <3>4. selection # NotSent
      BY <3>2 DEF Answered
    <3>5. CASE selection.note
      BY <1>3, <2>1, <2>6, <3>1, <3>3, <3>4, <3>5
    <3>6. CASE ~selection.note
      <4>1. selection.n = count /\ choice.options # "none"
        BY <1>2, <3>2, <3>6 DEF Answered
      <4>2. QED BY <2>1, <2>6, <3>1, <3>3, <3>4, <3>6, <4>1
    <3>7. QED BY <3>5, <3>6
  <2>7. QED BY <1>1, <2>2, <2>4, <2>5, <2>6 DEF Level
<1>6. ChoicesCompleteV2(sheet.class, SubclassAfter(sheet, Request), RecordedV2(sheet, Request), Target)
  BY <1>1, <1>5, SubclassDecided DEF ChoicesCompleteV2
<1>7. QED BY <1>1, <1>4, <1>6 DEF ChoicesFitV2

(* The improvement step's answer is one the server takes.                  *)
LEMMA ImprovementAccepted ==
  ASSUME Opened, AllValid
  PROVE  ImprovementFits(sheet, Request) /\ ImprovementOf(sheet, Request.improvement)
<1>1. DraftFits(sheet, draft) /\ Target = sheet.level + 1 /\ IsSheet(sheet) /\ sheet.schema \in {"V1", "V2"}
  BY StepsOfTheSheet, SheetTypes DEF Opened, Target
<1>2. Request.improvement = draft.improvement /\ ImprovementOf(sheet, draft.improvement)
  BY <1>1, RequestParts DEF DraftFits
<1>3. draft.improvement.kind # "none" <=> sheet.level + 1 = ImprovementLevel
  BY <1>1, <1>2, ReviewedSteps DEF ImprovementOf
<1>4. draft.improvement.kind = "feat" => sheet.schema = "V1"
  BY <1>1, <1>3, ReviewedSteps
<1>5. WithinTwenty(sheet, draft.improvement)
  <2>1. CASE Target = ImprovementLevel
    BY <2>1, ReviewedSteps
  <2>2. CASE Target # ImprovementLevel
    BY <1>1, <1>2, <1>3, <2>2 DEF WithinTwenty, ImprovementOf
  <2>3. QED BY <2>1, <2>2
<1>6. QED BY <1>2, <1>3, <1>4, <1>5 DEF ImprovementFits

(* The spells of an undisputed review are complete by the page's rules.    *)
LEMMA SpellsReviewed ==
  ASSUME Undisputed, Casts(sheet.class, Target)
  PROVE  LET casting == Classes[sheet.class].spellcasting
             spells == draft.spells
         IN  /\ sheet.cantrips + spells.cantrips = AtLeast(0, casting.cantripsKnown[Target])
             /\ casting.cantripsKnown[Target] # Null =>
                  sheet.cantrips + spells.cantrips = casting.cantripsKnown[Target]
             /\ KnowsSpells(sheet.class) =>
                  sheet.leveled + spells.learned = casting.spellsKnown[Target] /\ spells.prepared = 0
             /\ spells.spellbook = IF casting.mode = "spellbook-prepared" THEN SpellbookAdditions ELSE 0
             /\ PreparesSpells(sheet.class) =>
                  spells.prepared = PreparedSpellCount(sheet.class, sheet.cast + draft.improvement.cast, Target)
             /\ spells.replaced => ReplacementLimit(sheet.class, Target) > 0
             /\ spells.expanded => SelectedSubclass = "srd"
<1> DEFINE casting == Classes[sheet.class].spellcasting
           spells == draft.spells
<1>1. /\ Opened /\ AllValid /\ IsSheet(sheet) /\ Target = sheet.level + 1 /\ Target \in Level
      /\ sheet.class \in DOMAIN Classes /\ SpellsFit(sheet, spells)
  <2>1. Opened /\ AllValid /\ IsSheet(sheet) /\ DraftFits(sheet, draft)
    BY StepsOfTheSheet DEF Undisputed, Opened
  <2>2. QED BY <2>1, Levels DEF DraftFits, Target
<1>2. SpellsValid
  BY <1>1, ReviewedSteps
<1>3. sheet.cantrips \in Nat /\ casting.cantripsKnown[Target] \in Nat \cup {Null} /\ spells.cantrips \in Nat
  BY <1>1, SheetTypes, SpellTables DEF SpellsFit
<1>4. CantripsListed = sheet.cantrips
  <2>1. ~(Granted > 0)
    BY DEF Undisputed, Disagreement
  <2>2. Granted \in Nat
    <3>1. CASE sheet.schema = "V2" /\ sheet.class = "druid"
      <4>1. LandChoice \in ChoicesOf(sheet.class)
        BY <1>1, <3>1, ClassAssumption
      <4>2. sheet.recorded[LandChoice.id] \in Nat
        BY <1>1, <4>1, RecordedNumbers
      <4>3. QED BY <3>1, <4>2 DEF Granted
    <3>2. CASE ~(sheet.schema = "V2" /\ sheet.class = "druid")
      BY <3>2 DEF Granted
    <3>3. QED BY <3>1, <3>2
  <2>3. QED BY <1>3, <2>1, <2>2 DEF CantripsListed
<1>5. casting.cantripsKnown[Target] # Null =>
        sheet.cantrips + spells.cantrips = casting.cantripsKnown[Target]
  BY <1>2, <1>4 DEF SpellsValid, Rule
<1>6. casting.cantripsKnown[Target] = Null => sheet.cantrips = 0 /\ spells.cantrips = 0
  <2>1. casting.cantripsKnown[Target] = Null => ~(sheet.cantrips > 0)
    BY DEF Undisputed, Disagreement, Rule
  <2>2. QED BY <1>1, <1>3, <2>1 DEF SpellsFit
<1>7. sheet.cantrips + spells.cantrips = AtLeast(0, casting.cantripsKnown[Target])
  BY <1>3, <1>5, <1>6 DEF AtLeast, Null
<1>8. KnowsSpells(sheet.class) => ~PreparesSpells(sheet.class)
  BY DEF KnowsSpells, PreparesSpells
<1>9. KnowsSpells(sheet.class) =>
        sheet.leveled + spells.learned = casting.spellsKnown[Target] /\ spells.prepared = 0
  BY <1>1, <1>2, <1>8 DEF SpellsValid, SpellsFit, Rule
<1>10. spells.spellbook = IF casting.mode = "spellbook-prepared" THEN SpellbookAdditions ELSE 0
  BY <1>1, <1>2 DEF SpellsValid, SpellsFit, Rule
<1>11. PreparesSpells(sheet.class) =>
         spells.prepared = PreparedSpellCount(sheet.class, sheet.cast + draft.improvement.cast, Target)
  BY <1>2 DEF SpellsValid, PreparedCount
<1>12. spells.replaced => ReplacementLimit(sheet.class, Target) > 0
  BY <1>1 DEF SpellsFit
<1>13. spells.expanded => SelectedSubclass = "srd"
  BY DEF Undisputed, Disagreement
<1>14. QED BY <1>5, <1>7, <1>9, <1>10, <1>11, <1>12, <1>13

(* Every V1 check passes.                                                  *)
LEMMA AcceptedV1 ==
  ASSUME Undisputed, sheet.schema = "V1"
  PROVE  AcceptsV1(sheet, Request)
<1>1. Opened /\ AllValid /\ IsSheet(sheet) /\ Target = sheet.level + 1
  BY StepsOfTheSheet DEF Undisputed, Target
<1>2. /\ Request.spells = draft.spells /\ Request.improvement = draft.improvement /\ Request.current = draft.current
      /\ Request.casting = Casts(sheet.class, Target)
      /\ SubclassAfter(sheet, Request) = SelectedSubclass /\ SubclassFits(sheet, Request)
  BY <1>1, RequestParts, SubclassDecided
<1>3. ChoicesFitV1(sheet, Request)
  BY ChoicesAcceptedV1
<1>4. ImprovementFits(sheet, Request)
  BY <1>1, ImprovementAccepted
<1>5. IncreaseV1(sheet, Request) >= 1 /\ ProposedMax = sheet.max + IncreaseV1(sheet, Request)
  BY <1>1, MaximumProposedV1
<1>6. CurrentFits(Request, sheet.max + IncreaseV1(sheet, Request))
  BY <1>1, <1>2, <1>5, ReviewedSteps DEF CurrentFits, CurrentValid
<1>7. SpellcastingSent(sheet, Request)
  BY <1>1, <1>2 DEF SpellcastingSent
<1>8. ASSUME Casts(sheet.class, Target) PROVE SpellsFitV1(sheet, Request)
  <2>1. draft.spells.listed => ~AlwaysPrepares(sheet.class, SelectedSubclass, RecordedV1(sheet, Request), Target)
    <3>1. Leveled(sheet, Request).recorded = RecordedV1(sheet, Request)
      BY <1>1, LeveledV1Fields DEF Leveled
    <3>2. draft.spells.listed =>
            ~AlwaysPrepares(sheet.class, SelectedSubclass, Leveled(sheet, Request).recorded, Target)
      BY DEF Undisputed, Disagreement
    <3>3. QED BY <3>1, <3>2
  <2>2. QED BY <1>1, <1>2, <1>8, <2>1, SpellsReviewed DEF SpellsFitV1
<1>9. QED BY <1>1, <1>2, <1>3, <1>4, <1>5, <1>6, <1>7, <1>8 DEF AcceptsV1

(* Every V2 check passes.                                                  *)
LEMMA AcceptedV2 ==
  ASSUME Undisputed, sheet.schema = "V2"
  PROVE  AcceptsV2(sheet, Request)
<1>1. /\ Opened /\ AllValid /\ IsSheet(sheet) /\ RebuiltV2(sheet) /\ Target = sheet.level + 1
      /\ sheet.class \in DOMAIN Classes
  BY StepsOfTheSheet, Levels DEF Undisputed, Target, IsSheet
<1>2. /\ Request.spells = draft.spells /\ Request.improvement = draft.improvement /\ Request.current = draft.current
      /\ Request.casting = Casts(sheet.class, Target)
      /\ SubclassAfter(sheet, Request) = SelectedSubclass /\ SubclassFits(sheet, Request)
  BY <1>1, RequestParts, SubclassDecided
<1>3. ChoicesFitV2(sheet, Request)
  BY ChoicesAcceptedV2
<1>4. ImprovementFits(sheet, Request) /\ ImprovementOf(sheet, Request.improvement)
  BY <1>1, ImprovementAccepted
<1>5. ScoresConsistentV2(sheet, Request)
  <2>1. sheet.scores = "calculated" => draft.improvement.kind = "none"
    BY DEF Undisputed, Disagreement
  <2>2. QED BY <1>2, <2>1 DEF ScoresConsistentV2
<1>6. MaximumV2(sheet, Request) > sheet.max /\ (~MinimumRevised => MaximumV2(sheet, Request) = ProposedMax)
  BY <1>1, <1>5, MaximumProposedV2
<1>7. CurrentFits(Request, MaximumV2(sheet, Request))
  <2> SUFFICES ASSUME draft.current.mode = "manual" PROVE draft.current.value <= MaximumV2(sheet, Request)
    BY <1>2 DEF CurrentFits
  <2>1. ~MinimumRevised
    BY DEF Undisputed, Disagreement
  <2>2. draft.current.value <= ProposedMax
    BY <1>1, ReviewedSteps DEF CurrentValid
  <2>3. QED BY <1>6, <2>1, <2>2
<1>8. SpellcastingSent(sheet, Request)
  BY <1>1, <1>2 DEF SpellcastingSent
<1>9. ASSUME Casts(sheet.class, Target) PROVE SpellsFitV2(sheet, Request)
  <2>1. draft.spells.listed => ~AlwaysPrepares(sheet.class, SelectedSubclass, RecordedV2(sheet, Request), Target)
    <3>1. Leveled(sheet, Request).recorded = RecordedV2(sheet, Request)
      BY <1>1, LeveledV2Fields DEF Leveled
    <3>2. draft.spells.listed =>
            ~AlwaysPrepares(sheet.class, SelectedSubclass, Leveled(sheet, Request).recorded, Target)
      BY DEF Undisputed, Disagreement
    <3>3. QED BY <3>1, <3>2
  <2>2. ScoreV2(sheet, sheet.cast, Request.improvement.cast) = sheet.cast + draft.improvement.cast
    BY <1>1, <1>2, <1>4, <1>5, ScoresKept
  <2>3. Classes[sheet.class].spellcasting.mode = "spellbook-prepared" =>
          sheet.leveled + draft.spells.spellbook = SpellbookSize(Target)
    <3> SUFFICES ASSUME Classes[sheet.class].spellcasting.mode = "spellbook-prepared"
                 PROVE  sheet.leveled + draft.spells.spellbook = SpellbookSize(Target)
      OBVIOUS
    <3>1. sheet.class = "wizard"
      BY <1>1, ClassAssumption
    <3>2. sheet.leveled = SpellbookSize(sheet.level)
      BY <1>1, <3>1 DEF RebuiltV2
    <3>3. draft.spells.spellbook = 2
      BY <1>9, SpellsReviewed DEF SpellbookAdditions
    <3>4. sheet.level \in Int
      BY <1>1, Levels
    <3>5. QED BY <1>1, <3>2, <3>3, <3>4 DEF SpellbookSize
  <2>4. QED BY <1>1, <1>2, <1>9, <2>1, <2>2, <2>3, SpellsReviewed DEF SpellsFitV2
<1>10. QED BY <1>1, <1>2, <1>3, <1>4, <1>5, <1>6, <1>7, <1>8, <1>9 DEF AcceptsV2

(* A refusal therefore needs one of the named disagreements.               *)
LEMMA AcceptedOrDisputed ==
  ASSUME IInv
  PROVE  ReviewedIsAccepted
<1>1. Steps[step] = "review" => AllValid
  BY DEF IInv
<1>2. ASSUME outcome = "refused", ~Disagreement PROVE FALSE
  <2>1. Undisputed /\ ~Accepts(sheet, Request)
    BY <1>1, <1>2 DEF IInv, Submitted, Undisputed
  <2>2. sheet.schema \in {"V1", "V2"}
    BY <2>1, StepsOfTheSheet, SheetTypes DEF Undisputed
  <2>3. QED BY <2>1, <2>2, AcceptedV1, AcceptedV2 DEF Accepts
<1>3. QED BY <1>1, <1>2 DEF ReviewedIsAccepted

(* The invariant says more than the types.                                 *)
LEMMA WellTyped ==
  ASSUME IInv
  PROVE  TypeOK
<1>1. /\ Opened /\ IsSheet(sheet) /\ DraftFits(sheet, draft) /\ step \in DOMAIN Steps
      /\ outcome \in {"editing", "saved", "refused"}
  BY StepsOfTheSheet DEF IInv, Opened
<1>2. DOMAIN draft = DOMAIN EmptyDraft(sheet)
  BY <1>1 DEF DraftFits, DraftFields, EmptyDraft
<1>3. draft.die \in 1 .. Rule.hitDie
  BY <1>1 DEF DraftFits, Rule
<1>4. \A id \in DOMAIN draft.choices : draft.choices[id].n \in 0 .. 5
  BY <1>1 DEF DraftFits, ChoicesFit
<1>5. /\ sheet.level - 1 \in Nat /\ sheet.level \in Int
      /\ sheet.gains \in Seq(1 .. Classes[sheet.class].hitDie) /\ Len(sheet.gains) = sheet.level - 1
  <2>1. sheet.level \in 1 .. 4
    BY <1>1, SheetTypes
  <2>2. sheet.gains \in [1 .. sheet.level - 1 -> 1 .. Classes[sheet.class].hitDie]
    BY <1>1, SheetTypes
  <2>3. sheet.level - 1 \in Nat /\ sheet.level \in Int
    BY <2>1
  <2>4. QED BY ZenonT(60), <2>2, <2>3, LengthOfFunction
<1>6. /\ DOMAIN result = DOMAIN sheet /\ DOMAIN result.recorded = DOMAIN sheet.recorded
      /\ result.level \in {sheet.level, sheet.level + 1} /\ Len(result.gains) = result.level - 1
  <2>1. CASE outcome # "saved"
    BY <1>5, <2>1 DEF IInv
  <2>2. CASE outcome = "saved"
    <3>1. AllValid /\ Accepts(sheet, Request) /\ result = Leveled(sheet, Request)
      BY <2>2 DEF IInv, Submitted
    <3>2. /\ DOMAIN result = DOMAIN sheet /\ DOMAIN result.recorded = DOMAIN sheet.recorded
          /\ result.level = Target /\ result.gains = Append(sheet.gains, draft.die)
      BY <1>1, <3>1, SavedFields
    <3>3. Len(Append(sheet.gains, draft.die)) = Len(sheet.gains) + 1
      <4>1. draft.die \in 1 .. Classes[sheet.class].hitDie
        BY <1>3 DEF Rule
      <4>2. QED BY <1>5, <4>1, AppendProperties
    <3>4. QED BY <1>5, <3>2, <3>3 DEF Target
  <2>3. QED BY <2>1, <2>2
<1>7. QED BY <1>1, <1>2, <1>3, <1>4, <1>6 DEF TypeOK

-----------------------------------------------------------------------------
(* Every variable keeps its kind whatever sheets the wizard is opened on   *)
(* and in whatever order its steps are edited (LevelUpFlow.tsx,            *)
(* updateDraft), and a saved sheet has a die result for each of its levels *)
(* after the first.                                                        *)
THEOREM WizardTypeCorrect == Spec => []TypeOK
<1>1. IInv => TypeOK
  BY WellTyped
<1>2. QED BY <1>1, IInvHolds, PTL

(* The maximum the server computes again, over all levels, for any scores  *)
(* and rolls (level_up.go, calculateMaximumHitPoints), is the one the      *)
(* review showed (LevelUpFlow.tsx, proposedMaxHp), unless an earlier       *)
(* level's minimum of one is revised.                                      *)
THEOREM SavedAsTheReviewShowed == Spec => []SavedAsReviewed
<1>1. IInv => SavedAsReviewed
  BY SoundWhenSaved
<1>2. QED BY <1>1, IInvHolds, PTL

(* What buildLeveledCharacter and its V2 counterpart save is a sheet of    *)
(* the next level on which the wizard's audit (auditMissingPrerequisites)  *)
(* finds nothing missing and whose spells are the table's.                 *)
THEOREM LeveledSheetsAreSound == Spec => []LeveledSheetIsSound
<1>1. IInv => LeveledSheetIsSound
  BY SoundWhenSaved
<1>2. QED BY <1>1, IInvHolds, PTL

(* The review shows only what is valid as a whole (goNext,                 *)
(* validateAllSteps), and the server refuses it only in the named cases    *)
(* where its rules and the wizard's differ: there is no other one, for any *)
(* sheet.                                                                  *)
THEOREM ReviewsAreAccepted == Spec => []ReviewedIsAccepted
<1>1. IInv => ReviewedIsAccepted
  BY AcceptedOrDisputed
<1>2. QED BY <1>1, IInvHolds, PTL
=============================================================================
