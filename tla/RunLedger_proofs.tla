-------------------------- MODULE RunLedger_proofs --------------------------
(***************************************************************************)
(* Proofs about the ledger of the deep agent: first what holds for any     *)
(* number of lanes, then what holds when tool calls come one at a time.    *)
(***************************************************************************)
EXTENDS RunLedger, ModuloLemmas, FiniteSetTheorems

USE LimitsAssumption, FailuresAssumption, LanesAssumption

LEMMA InitTypeOK == Init => TypeOK
<1> SUFFICES ASSUME Init PROVE TypeOK
  OBVIOUS
<1>1. lane \in [Lanes -> {"idle", "checked", "running"}]
  BY DEF Init
<1>2. attempts \in Nat /\ streak \in Nat
  BY DEF Init
<1> QED
  BY <1>1, <1>2, Zenon DEF Init, TypeOK

LEMMA NextTypeOK == TypeOK /\ [Next]_vars => TypeOK'
<1> SUFFICES ASSUME TypeOK, [Next]_vars PROVE TypeOK'
  OBVIOUS
<1> USE DEF TypeOK
<1>1. ASSUME NEW l \in Lanes, Check(l) PROVE TypeOK'
  BY <1>1 DEF Check
<1>2. ASSUME NEW l \in Lanes, Start(l) PROVE TypeOK'
  <2>1. lane' \in [Lanes -> {"idle", "checked", "running"}]
    BY <1>2 DEF Start
  <2>2. attempts' \in Nat
    <3>1. attempts \in Nat /\ attempts' = attempts + 1
      BY <1>2, Zenon DEF Start
    <3> HIDE DEF TypeOK
    <3> QED
      BY <3>1
  <2> QED
    BY <1>2, <2>1, <2>2, Zenon DEF Start
<1>3. ASSUME NEW l \in Lanes, NEW o \in Outcomes, Finish(l, o)
      PROVE TypeOK'
  <2>1. needs_ask' \in BOOLEAN
    BY <1>3 DEF Finish
  <2>2. blocked' \in {"", "hard", "impossible", "stopped"}
    BY <1>3 DEF Finish
  <2>3. lane' \in [Lanes -> {"idle", "checked", "running"}]
    BY <1>3 DEF Finish
  <2>4. streak' \in Nat
    <3>1. streak \in Nat /\ streak' = IF o = Passed THEN 0 ELSE streak + 1
      BY <1>3, Zenon DEF Finish
    <3> HIDE DEF TypeOK
    <3> QED
      BY <3>1
  <2> QED
    BY <1>3, <2>1, <2>2, <2>3, <2>4, Zenon DEF Finish
<1>4. ASSUME NEW l \in Lanes, NEW nonempty \in BOOLEAN,
             ReportFinding(l, nonempty)
      PROVE TypeOK'
  BY <1>4 DEF ReportFinding
<1>5. ASSUME NEW reply \in {"continue", "stop"}, AskUser(reply)
      PROVE TypeOK'
  BY <1>5 DEF AskUser
<1>6. CASE Conclude
  BY <1>6 DEF Conclude
<1>7. CASE Abort
  BY <1>7 DEF Abort
<1>8. CASE UNCHANGED vars
  BY <1>8 DEF vars
<1> QED
  BY <1>1, <1>2, <1>3, <1>4, <1>5, <1>6, <1>7, <1>8 DEF Next

\* The variables of the ledger keep their types, for any number of lanes.
THEOREM TypeCorrect == Spec => []TypeOK
  BY InitTypeOK, NextTypeOK, PTL DEF Spec

-----------------------------------------------------------------------------
(***************************************************************************)
(* Any number of lanes: the hard cap.                                      *)
(***************************************************************************)
Checked == {l \in Lanes : lane[l] = "checked"}

LEMMA LaneSubset ==
    ASSUME NEW S \in SUBSET Lanes
    PROVE  /\ IsFiniteSet(S)
           /\ Cardinality(S) \in Nat
           /\ Cardinality(Lanes) \in Nat \ {0}
           /\ Cardinality(S) <= Cardinality(Lanes)
<1>1. Cardinality(Lanes) \in Nat \ {0}
  BY FS_CardinalityType, FS_EmptySet DEF LanesAssumption
<1> QED
  BY <1>1, FS_Subset, FS_CardinalityType DEF LanesAssumption

LEMMA NextOvershoot ==
    TypeOK /\ OvershootBounded /\ [Next]_vars => OvershootBounded'
<1> SUFFICES ASSUME TypeOK, OvershootBounded, [Next]_vars
             PROVE  OvershootBounded'
  OBVIOUS
<1>t. TypeOK'
  BY NextTypeOK
<1>f. /\ IsFiniteSet(Checked) /\ Cardinality(Checked) \in Nat
      /\ Cardinality(Lanes) \in Nat \ {0}
      /\ Cardinality(Checked') \in Nat
      /\ Cardinality(Checked') <= Cardinality(Lanes)
  <2>1. Checked \in SUBSET Lanes /\ Checked' \in SUBSET Lanes
    BY DEF Checked
  <2> QED
    BY <2>1, LaneSubset
<1>n. attempts \in Nat /\ attempts' \in Nat
  BY <1>t DEF TypeOK
<1>o. attempts + Cardinality(Checked) <= MaxTotal + Cardinality(Lanes) - 1
  BY DEF OvershootBounded, Checked
<1>g. SUFFICES attempts' + Cardinality(Checked')
                 <= MaxTotal + Cardinality(Lanes) - 1
  BY DEF OvershootBounded, Checked
<1>1. ASSUME NEW l \in Lanes, Check(l) PROVE attempts < MaxTotal
                                             /\ attempts' = attempts
  BY <1>1, <1>n DEF Check, Refusal
<1>2. ASSUME NEW l \in Lanes, Start(l)
      PROVE  attempts' = attempts + 1
             /\ Cardinality(Checked') = Cardinality(Checked) - 1
  <2>1. l \in Checked /\ attempts' = attempts + 1
    BY <1>2 DEF Start, Checked
  <2>2. Checked' = Checked \ {l}
    BY <1>2 DEF Start, Checked, TypeOK
  <2> QED
    BY <1>f, <2>1, <2>2, FS_RemoveElement
<1>3. ASSUME NEW l \in Lanes, NEW o \in Outcomes, Finish(l, o)
      PROVE  attempts' = attempts /\ Checked' = Checked
  BY <1>3 DEF Finish, Checked, TypeOK
<1>4. ASSUME UNCHANGED <<attempts, lane>>
      PROVE  attempts' = attempts /\ Checked' = Checked
  BY <1>4 DEF Checked
<1>5. CASE Abort
  <2>1. attempts' = attempts /\ Checked' = {}
    BY <1>5 DEF Abort, Checked
  <2> QED
    BY <1>f, <1>n, <1>o, <2>1, FS_EmptySet
<1>6. ASSUME attempts' = attempts, Checked' = Checked
      PROVE  attempts' + Cardinality(Checked')
               <= MaxTotal + Cardinality(Lanes) - 1
  BY <1>6, <1>o
<1>7. ASSUME attempts < MaxTotal, attempts' = attempts
      PROVE  attempts' + Cardinality(Checked')
               <= MaxTotal + Cardinality(Lanes) - 1
  BY <1>7, <1>f, <1>n
<1>8. ASSUME attempts' = attempts + 1,
             Cardinality(Checked') = Cardinality(Checked) - 1
      PROVE  attempts' + Cardinality(Checked')
               <= MaxTotal + Cardinality(Lanes) - 1
  BY <1>8, <1>f, <1>n, <1>o
<1>9. CASE UNCHANGED <<attempts, lane>>
  BY <1>4, <1>6, <1>9
<1> QED
  BY <1>1, <1>2, <1>3, <1>5, <1>6, <1>7, <1>8, <1>9
     DEF Next, vars, ReportFinding, AskUser, Conclude

\* The hard cap with any number of lanes: at most one execution too many for
\* each lane after the first, because the check and the count are two steps.
THEOREM HardCap == Spec => []OvershootBounded
<1>1. Init => OvershootBounded
  <2> SUFFICES ASSUME Init PROVE OvershootBounded
    OBVIOUS
  <2>1. TypeOK /\ attempts = 0 /\ Checked = {}
    BY InitTypeOK DEF Init, Checked
  <2>2. Cardinality(Checked) = 0 /\ Cardinality(Lanes) \in Nat \ {0}
    BY <2>1, FS_EmptySet, LaneSubset
  <2> QED
    BY <2>1, <2>2 DEF OvershootBounded, Checked
<1> QED
  BY <1>1, NextOvershoot, TypeCorrect, PTL DEF Spec

-----------------------------------------------------------------------------
(***************************************************************************)
(* Any number of lanes: what has been blocked stays blocked.               *)
(***************************************************************************)
StoppedIdle == blocked = "stopped" => Idle

LEMMA NextStoppedIdle ==
    TypeOK /\ StoppedIdle /\ [Next]_vars => StoppedIdle'
  BY DEF TypeOK, StoppedIdle, Next, vars, Idle, Check, Start, Finish,
         ReportFinding, AskUser, Conclude, Abort, Refusal

\* After the user's "stop" no execution starts, in any lane, for good.
THEOREM StopIsKept == Spec => StopIsFinal
<1>1. Init => StoppedIdle
  BY DEF Init, StoppedIdle
<1>2. StoppedIdle /\ [Next]_vars =>
        [blocked = "stopped" => attempts' = attempts /\ blocked' = "stopped"]_vars
  BY DEF StoppedIdle, Next, vars, Idle, Check, Start, Finish,
         ReportFinding, AskUser, Conclude, Abort, Refusal
<1> QED
  BY <1>1, <1>2, NextStoppedIdle, TypeCorrect, PTL DEF Spec, StopIsFinal

\* A blocked run stays blocked, and no further call passes the check.
THEOREM BlockIsKept == Spec => BlockIsForever
<1>1. TypeOK /\ [Next]_vars =>
        [blocked # "" =>
           /\ blocked' # ""
           /\ \A l \in Lanes : lane'[l] = "checked" => lane[l] = "checked"]_vars
  <2> SUFFICES ASSUME TypeOK, Next, blocked # ""
               PROVE  /\ blocked' # ""
                      /\ \A l \in Lanes :
                           lane'[l] = "checked" => lane[l] = "checked"
    OBVIOUS
  <2>1. Refusal
    BY DEF TypeOK, Refusal
  <2> QED
    BY <2>1 DEF TypeOK, Next, Check, Start, Finish, ReportFinding, AskUser,
                Conclude, Abort
<1> QED
  BY <1>1, TypeCorrect, PTL DEF Spec, BlockIsForever
-----------------------------------------------------------------------------
(***************************************************************************)
(* One lane: the soft limit and the promise.  The invariant says what the  *)
(* check of a call establishes and that it still holds when the call       *)
(* counts and runs, because no other call can come in between.             *)
(***************************************************************************)
MayRun ==
    /\ attempts < MaxTotal
    /\ streak <= attempts % AskEvery
    /\ last_run # Impossible
    /\ last_run = prev_run /\ last_run \in Failures => streak = 0

MayFinish ==
    /\ attempts > 0
    /\ streak <= (attempts - 1) % AskEvery

Free == ~needs_ask /\ blocked = ""

NoneRunning == \A l \in Lanes : lane[l] # "running"

OneLaneInv ==
    /\ attempts <= MaxTotal
    /\ streak <= AskEvery
    /\ status # "working" => Idle
    /\ last_run = Impossible => blocked # ""
    /\ \A l \in Lanes : lane[l] # "idle" => Free
    /\ \A l \in Lanes : lane[l] = "checked" => MayRun
    /\ \A l \in Lanes : lane[l] = "running" => MayFinish
    /\ status = "working" /\ NoneRunning /\ Free
         => attempts >= MaxTotal \/ MayRun

OneLane == \E l : Lanes = {l}

LEMMA InitOneLaneInv == Init => OneLaneInv
<1> SUFFICES ASSUME Init PROVE OneLaneInv
  OBVIOUS
<1>1. attempts = 0 /\ streak = 0 /\ last_run = NoRun
  BY DEF Init
<1>2. 0 < MaxTotal /\ 0 < AskEvery /\ 0 <= 0 % AskEvery
  BY DivisionWithRemainder
<1>3. MayRun
  BY <1>1, <1>2 DEF MayRun, NoRun, Impossible
<1>4. attempts <= MaxTotal /\ streak <= AskEvery
  BY <1>1, <1>2
<1>5. last_run # Impossible
  BY <1>1 DEF NoRun, Impossible
<1> QED
  BY <1>3, <1>4, <1>5 DEF Init, OneLaneInv, Idle

\* The result of an execution: the remainder lemma shows that the note asks
\* for the user before the streak outgrows AskEvery.
LEMMA FinishOneLaneInv ==
    ASSUME TypeOK, OneLaneInv, NEW l \in Lanes, Lanes = {l},
           NEW o \in Outcomes, Finish(l, o)
    PROVE  OneLaneInv'
<1>1. /\ lane[l] = "running" /\ lane'[l] = "idle"
      /\ Free
  BY DEF Finish, TypeOK, OneLaneInv
<1>2. /\ streak' = IF o = Passed THEN 0 ELSE streak + 1
      /\ attempts' = attempts
      /\ last_run' = o /\ prev_run' = last_run
  BY DEF Finish
<1>3. MayFinish /\ attempts <= MaxTotal /\ attempts \in Nat /\ streak \in Nat
  BY <1>1 DEF OneLaneInv, TypeOK
<1>4. /\ streak <= (attempts - 1) % AskEvery
      /\ (attempts - 1) % AskEvery \in 0..(AskEvery - 1)
      /\ \/ attempts % AskEvery = ((attempts - 1) % AskEvery) + 1
         \/ attempts % AskEvery = 0
      /\ attempts % AskEvery \in 0..(AskEvery - 1)
  <2> DEFINE a == attempts - 1
  <2>1. a \in Nat /\ attempts = a + 1 /\ streak <= a % AskEvery
    BY <1>3 DEF MayFinish
  <2> HIDE DEF a
  <2>2. /\ a % AskEvery \in 0..(AskEvery - 1)
        /\ (a + 1) % AskEvery \in 0..(AskEvery - 1)
    BY <2>1, DivisionWithRemainder
  <2>3. \/ (a + 1) % AskEvery = (a % AskEvery) + 1
        \/ (a + 1) % AskEvery = 0
    BY <2>1, NextRemainder
  <2> QED
    BY <2>1, <2>2, <2>3 DEF a
<1>5. streak' <= AskEvery
  BY <1>2, <1>3, <1>4
<1>6. last_run' = Impossible => blocked' # ""
  BY DEF Finish, NoteAfterRun, ClassifyFailure, Passed, Impossible
<1>7. Free' => attempts' >= MaxTotal \/ MayRun'
  <2> SUFFICES ASSUME Free', ~(attempts >= MaxTotal) PROVE MayRun'
    BY <1>2
  <2>1. NoteAfterRun(o, last_run) \notin {"ask", "hard", "impossible"}
    BY DEF Finish, Free
  <2>2. \/ o = Passed
        \/ /\ o # Impossible
           /\ ~(last_run # NoRun /\ o = last_run)
           /\ attempts % AskEvery # 0
    BY <2>1 DEF NoteAfterRun, ClassifyFailure
  <2>3. attempts < MaxTotal
    BY <1>3
  <2>4. streak' <= attempts % AskEvery
    BY <1>2, <1>3, <1>4, <2>2
  <2>5. o \in Failures => o # NoRun /\ o # Passed
    OBVIOUS
  <2>6. Passed # Impossible
    BY DEF Passed, Impossible
  <2> QED
    BY <1>2, <2>2, <2>3, <2>4, <2>5, <2>6 DEF MayRun
<1>8. attempts' <= MaxTotal
  BY <1>2, <1>3
<1> QED
  BY <1>1, <1>5, <1>6, <1>7, <1>8 DEF OneLaneInv, Idle

LEMMA NextOneLaneInv ==
    ASSUME OneLane
    PROVE  TypeOK /\ OneLaneInv /\ [Next]_vars => OneLaneInv'
<1> SUFFICES ASSUME TypeOK, OneLaneInv, [Next]_vars PROVE OneLaneInv'
  OBVIOUS
<1> PICK l : Lanes = {l}
  BY DEF OneLane
<1>n. attempts \in Nat /\ streak \in Nat
  BY DEF TypeOK
<1>1. CASE Check(l)
  <2>1. /\ lane[l] = "idle" /\ lane'[l] = "checked"
        /\ status = "working" /\ NoneRunning
    BY <1>1 DEF Check, TypeOK, NoneRunning
  <2>2. Free /\ ~(attempts >= MaxTotal)
    BY <1>1 DEF Check, Refusal, TypeOK, Free
  <2>3. MayRun
    BY <2>1, <2>2 DEF OneLaneInv
  <2>4. MayRun' /\ Free' /\ status' = status
        /\ UNCHANGED <<attempts, streak, last_run, blocked>>
    BY <1>1, <2>2, <2>3 DEF Check, MayRun, Free
  <2> QED
    BY <2>1, <2>4 DEF OneLaneInv, Idle
<1>2. CASE Start(l)
  <2>1. /\ lane[l] = "checked" /\ lane'[l] = "running"
        /\ status = "working"
    BY <1>2 DEF Start, TypeOK, OneLaneInv, Idle
  <2>2. MayRun /\ Free
    BY <2>1 DEF OneLaneInv
  <2>3. attempts' = attempts + 1 /\ streak' = streak
        /\ Free' /\ UNCHANGED <<status, last_run, blocked>>
    BY <1>2, <2>2 DEF Start, Free
  <2>4. attempts' - 1 = attempts /\ attempts' > 0 /\ attempts' <= MaxTotal
    BY <2>2, <2>3, <1>n DEF MayRun
  <2>5. MayFinish'
    BY <2>2, <2>3, <2>4 DEF MayRun, MayFinish
  <2> QED
    BY <2>1, <2>3, <2>4, <2>5 DEF OneLaneInv, NoneRunning
<1>3. ASSUME NEW o \in Outcomes, Finish(l, o) PROVE OneLaneInv'
  BY <1>3, FinishOneLaneInv
<1>4. ASSUME NEW nonempty \in BOOLEAN, ReportFinding(l, nonempty)
      PROVE  OneLaneInv'
  BY <1>4 DEF ReportFinding, OneLaneInv, Idle, NoneRunning, MayRun,
              MayFinish, Free
<1>5. ASSUME NEW reply \in {"continue", "stop"}, AskUser(reply)
      PROVE  OneLaneInv'
  <2>1. /\ Idle /\ Idle'
        /\ blocked' = IF reply = "stop" THEN "stopped" ELSE blocked
        /\ UNCHANGED <<attempts, last_run, prev_run, status>>
        /\ streak' = 0
    BY <1>5 DEF AskUser, Idle
  <2>2. 0 <= attempts % AskEvery /\ 0 <= AskEvery
    BY <1>n, DivisionWithRemainder
  <2>3. last_run' = Impossible => blocked' # ""
    BY <2>1 DEF OneLaneInv
  <2>4. attempts >= MaxTotal \/ attempts < MaxTotal
    BY <1>n
  <2>5. last_run # Impossible /\ attempts < MaxTotal => MayRun'
    BY <2>1, <2>2 DEF MayRun
  <2>6. Free' => attempts' >= MaxTotal \/ MayRun'
    BY <2>1, <2>3, <2>4, <2>5 DEF Free
  <2>7. attempts' <= MaxTotal /\ streak' <= AskEvery
    BY <2>1, <2>2 DEF OneLaneInv
  <2> QED
    BY <2>1, <2>3, <2>6, <2>7 DEF OneLaneInv, Idle
<1>6. CASE Conclude
  BY <1>6 DEF Conclude, OneLaneInv, Idle, NoneRunning, MayRun, MayFinish,
              Free
<1>7. CASE Abort
  BY <1>7 DEF Abort, OneLaneInv, Idle
<1>8. CASE UNCHANGED vars
  BY <1>8 DEF vars, OneLaneInv, Idle, NoneRunning, MayRun, MayFinish, Free
<1> QED
  BY <1>1, <1>2, <1>3, <1>4, <1>5, <1>6, <1>7, <1>8 DEF Next

LEMMA OneLaneInvariance ==
    ASSUME OneLane
    PROVE  Spec => [](TypeOK /\ OneLaneInv)
  BY InitTypeOK, NextTypeOK, InitOneLaneInv, NextOneLaneInv, PTL DEF Spec

LEMMA OneLaneLimits == TypeOK /\ OneLaneInv => LimitsKept
<1> SUFFICES ASSUME TypeOK, OneLaneInv PROVE LimitsKept
  OBVIOUS
<1>n. attempts \in Nat /\ streak \in Nat
  BY DEF TypeOK
<1>1. ASSUME NEW l \in Lanes, lane[l] # "idle" PROVE streak < AskEvery
  <2>1. CASE lane[l] = "checked"
    <3>1. streak <= attempts % AskEvery
      BY <2>1 DEF OneLaneInv, MayRun
    <3>2. attempts % AskEvery \in 0..(AskEvery - 1)
      BY <1>n, DivisionWithRemainder
    <3> QED
      BY <1>n, <3>1, <3>2
  <2>2. CASE lane[l] = "running"
    <3> DEFINE a == attempts - 1
    <3>1. a \in Nat /\ streak <= a % AskEvery
      <4>1. MayFinish
        BY <2>2 DEF OneLaneInv
      <4> QED
        BY <1>n, <4>1 DEF MayFinish
    <3> HIDE DEF a
    <3>2. a % AskEvery \in 0..(AskEvery - 1)
      BY <3>1, DivisionWithRemainder
    <3> QED
      BY <1>n, <3>1, <3>2
  <2> QED
    BY <1>1, <2>1, <2>2 DEF TypeOK
<1> QED
  BY <1>1 DEF OneLaneInv, LimitsKept, Idle

\* With tool calls one at a time the ledger keeps both limits, for all limits
\* and failure texts.
THEOREM LimitsAreKept ==
    ASSUME OneLane
    PROVE  Spec => []LimitsKept
  BY OneLaneInvariance, OneLaneLimits, PTL

\* ... and the deep agent implements the promise of a writing engine: Start
\* begins an execution, Finish observes it, AskUser is the answer.
THEOREM Refinement ==
    ASSUME OneLane
    PROVE  Spec => KeepsPromise
<1> USE DEF Verdict, Passed, Impossible, NoRun,
            Promise!Passed, Promise!Impossible, Promise!NoRun
<1>1. Init => Promise!Init
  BY DEF Init, Promise!Init
<1>2. TypeOK /\ OneLaneInv /\ [Next]_vars => [Promise!Next]_(Promise!vars)
  <2> SUFFICES ASSUME TypeOK, OneLaneInv, [Next]_vars
               PROVE  [Promise!Next]_(Promise!vars)
    OBVIOUS
  <2> PICK l : Lanes = {l}
    BY DEF OneLane
  <2>1. CASE Check(l)
    <3>1. (\E k \in Lanes : lane'[k] = "running")
            <=> (\E k \in Lanes : lane[k] = "running")
      BY <2>1 DEF Check, TypeOK
    <3> QED
      BY <2>1, <3>1 DEF Check, Promise!vars
  <2>2. CASE Start(l)
    <3>1. /\ lane[l] = "checked" /\ lane'[l] = "running"
          /\ status = "working" /\ ~Idle
      BY <2>2 DEF Start, TypeOK, OneLaneInv, Idle
    <3>2. MayRun /\ streak < AskEvery /\ blocked = ""
      BY <3>1, OneLaneLimits DEF OneLaneInv, LimitsKept, Free
    <3>3. /\ ~\E k \in Lanes : lane[k] = "running"
          /\ \E k \in Lanes : lane'[k] = "running"
      BY <3>1
    <3>4. Promise!Begin
      BY <2>2, <3>1, <3>2, <3>3 DEF Start, MayRun, Promise!Begin
    <3> QED
      BY <3>4 DEF Promise!Next
  <2>3. ASSUME NEW o \in Outcomes, Finish(l, o)
        PROVE  Promise!Next
    <3>1. /\ \E k \in Lanes : lane[k] = "running"
          /\ ~\E k \in Lanes : lane'[k] = "running"
      BY <2>3 DEF Finish, TypeOK
    <3>2. blocked = "" /\ blocked' # "stopped"
      BY <2>3 DEF Finish, OneLaneInv, Free
    <3>3. Promise!Observe(o)
      BY <2>3, <3>1, <3>2 DEF Finish, Promise!Observe
    <3> QED
      BY <3>3 DEF Promise!Next, Promise!Outcomes, Outcomes
  <2>4. ASSUME NEW nonempty \in BOOLEAN, ReportFinding(l, nonempty)
        PROVE  UNCHANGED Promise!vars
    BY <2>4 DEF ReportFinding, Promise!vars
  <2>5. ASSUME NEW reply \in {"continue", "stop"}, AskUser(reply)
        PROVE  Promise!Next
    <3>1. Promise!Answer(reply)
      BY <2>5 DEF AskUser, Idle, Promise!Answer
    <3> QED
      BY <3>1 DEF Promise!Next
  <2>6. CASE Conclude
    <3>1. PICK v \in {"passed", "reported"} : status' = v
                 /\ (v = "passed" => last_run = Passed)
      BY <2>6 DEF Conclude
    <3>2. Promise!Conclude(v)
      BY <2>6, <3>1 DEF Conclude, Idle, Promise!Conclude
    <3> QED
      BY <3>2 DEF Promise!Next
  <2>7. CASE Abort
    <3>1. Promise!Abort
      BY <2>7 DEF Abort, Promise!Abort
    <3> QED
      BY <3>1 DEF Promise!Next
  <2>8. CASE UNCHANGED vars
    BY <2>8 DEF vars, Promise!vars
  <2> QED
    BY <2>1, <2>2, <2>3, <2>4, <2>5, <2>6, <2>7, <2>8 DEF Next
<1> QED
  BY <1>1, <1>2, OneLaneInvariance, PTL DEF Spec, KeepsPromise, Promise!Spec
=============================================================================
