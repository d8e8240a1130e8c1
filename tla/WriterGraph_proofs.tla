------------------------- MODULE WriterGraph_proofs -------------------------
(***************************************************************************)
(* Proofs about the legacy writing engine, for all limits and all sets of  *)
(* failure texts.                                                          *)
(***************************************************************************)
EXTENDS WriterGraph, ModuloLemmas

(***************************************************************************)
(* The invariant, one conjunct per group of nodes.  LimitsKept is not      *)
(* inductive: why the streak is short before an execution is a matter of   *)
(* the remainder of `attempts`, because a failing attempt whose number is  *)
(* a multiple of AskEvery ends in the question.                            *)
(***************************************************************************)
Working == node \in {"gather", "write", "run", "ask", "quality"}

BeforeWrite ==
    /\ attempts < MaxTotal
    /\ streak <= attempts % AskEvery
    /\ last_run # Impossible
    /\ last_run = prev_run /\ last_run # NoRun => streak = 0

BeforeRun ==
    /\ attempts > 0
    /\ streak < attempts
    /\ streak <= (attempts - 1) % AskEvery
    /\ last_run # Impossible

IInv ==
    /\ TypeOK
    /\ streak <= attempts /\ streak <= AskEvery
    /\ Working => status = "working"
    /\ node = "report" => status \in {"working", "stopping"}
    /\ status = "stopping" => node \in {"report", "aborted"}
    /\ status \in {"passed", "reported"} <=> node = "end"
    /\ node = "gather" => attempts = 0 /\ streak = 0 /\ last_run = NoRun
                          /\ prev_run = NoRun
    /\ node = "write" => BeforeWrite
    /\ node = "run" => BeforeRun
    /\ node = "ask" => attempts < MaxTotal /\ last_run # Impossible
    /\ node = "quality" => last_run = Passed

USE LimitsAssumption, FailuresAssumption

\* An engine starts within the invariant.
LEMMA InitIInv == Init => IInv
<1> SUFFICES ASSUME Init PROVE IInv
  OBVIOUS
<1>1. TypeOK
  BY DEF Init, TypeOK, Nodes
<1> QED
  BY <1>1 DEF Init, IInv, Working

\* The execution node: the remainder lemma bounds the streak where the route
\* goes on without a question.
LEMMA RunIInv ==
    ASSUME IInv, NEW o \in Outcomes, Run(o)
    PROVE  IInv'
<1> USE DEF Outcomes
<1>1. /\ attempts \in Nat /\ streak \in Nat /\ attempts - 1 \in Nat
      /\ attempts <= MaxTotal /\ streak < attempts
      /\ streak <= (attempts - 1) % AskEvery
      /\ status = "working" /\ last_run \in Outcomes \cup {NoRun}
  BY DEF Run, IInv, TypeOK, BeforeRun, Working
<1>2. /\ streak' = IF o = Passed THEN 0 ELSE streak + 1
      /\ last_run' = o /\ prev_run' = last_run
      /\ attempts' = attempts /\ status' = status
      /\ node' = RouteAfterRun(o, last_run)
  BY DEF Run
<1>3. /\ (attempts - 1) % AskEvery \in 0..(AskEvery - 1)
      /\ \/ attempts % AskEvery = ((attempts - 1) % AskEvery) + 1
         \/ attempts % AskEvery = 0
      /\ attempts % AskEvery \in 0..(AskEvery - 1)
  <2> DEFINE a == attempts - 1
  <2>1. a \in Nat /\ attempts = a + 1
    BY <1>1
  <2> HIDE DEF a
  <2>2. /\ a % AskEvery \in Int /\ 0 <= a % AskEvery
        /\ a % AskEvery < AskEvery
        /\ (a + 1) % AskEvery \in Int /\ 0 <= (a + 1) % AskEvery
        /\ (a + 1) % AskEvery < AskEvery
    BY <2>1, DivisionWithRemainder
  <2>3. \/ (a + 1) % AskEvery = (a % AskEvery) + 1
        \/ (a + 1) % AskEvery = 0
    BY <2>1, NextRemainder
  <2>4. a % AskEvery \in 0..(AskEvery - 1)
        /\ (a + 1) % AskEvery \in 0..(AskEvery - 1)
    BY <2>2
  <2> QED
    BY <2>1, <2>3, <2>4 DEF a
<1>4. node' \in {"quality", "report", "ask", "write"}
  BY <1>2 DEF RouteAfterRun
<1>5. TypeOK' /\ streak' <= attempts' /\ streak' <= AskEvery
  <2>1. streak' \in 0..attempts' /\ streak' <= AskEvery
    BY <1>1, <1>2, <1>3
  <2> QED
    BY <1>1, <1>2, <1>4, <2>1 DEF IInv, TypeOK, Nodes
<1>6. node' = "quality" => last_run' = Passed
  BY <1>2 DEF RouteAfterRun
<1>7. node' = "ask" => attempts' < MaxTotal /\ last_run' # Impossible
  BY <1>1, <1>2 DEF RouteAfterRun, ClassifyFailure
<1>8. node' = "write" => BeforeWrite'
  <2>1. SUFFICES ASSUME node' = "write" PROVE BeforeWrite'
    OBVIOUS
  <2>2. /\ o # Passed /\ o # Impossible
        /\ attempts < MaxTotal
        /\ ~(last_run # NoRun /\ o = last_run)
        /\ attempts % AskEvery # 0
    BY <1>1, <1>2, <2>1 DEF RouteAfterRun, ClassifyFailure
  <2>3. streak' <= attempts' % AskEvery
    BY <1>1, <1>2, <1>3, <2>2
  <2> QED
    BY <1>2, <2>2, <2>3 DEF BeforeWrite, NoRun
<1> QED
  BY <1>1, <1>2, <1>4, <1>5, <1>6, <1>7, <1>8 DEF IInv, Working

\* Every step of the engine keeps the invariant.
LEMMA NextIInv == IInv /\ [Next]_vars => IInv'
<1> SUFFICES ASSUME IInv, [Next]_vars PROVE IInv'
  OBVIOUS
<1> USE DEF IInv, TypeOK, Nodes, Working
<1>1. CASE Gather
  <2>1. 0 <= 0 % AskEvery
    BY DivisionWithRemainder
  <2>2. attempts' = 0 /\ streak' = 0 /\ last_run' = NoRun
    BY <1>1 DEF Gather
  <2>3. streak' <= attempts' % AskEvery
    <3> HIDE DEF IInv, TypeOK
    <3> QED BY <2>1, <2>2
  <2>4. BeforeWrite'
    <3> HIDE DEF IInv, TypeOK
    <3>1. attempts' < MaxTotal BY <2>2
    <3>2. last_run' # Impossible BY <2>2 DEF NoRun, Impossible
    <3> QED BY <3>1, <3>2, <2>2, <2>3 DEF BeforeWrite
  <2> QED
    BY <1>1, <2>4 DEF Gather
<1>2. CASE Write
  <2>1. attempts \in Nat /\ streak \in Nat /\ attempts < MaxTotal
        /\ streak <= attempts % AskEvery /\ last_run # Impossible
    BY <1>2 DEF Write, BeforeWrite
  <2>2. attempts' = attempts + 1 /\ attempts' - 1 = attempts
    BY <1>2, <2>1 DEF Write
  <2> QED
    BY <1>2, <2>1, <2>2 DEF Write, BeforeRun
<1>3. ASSUME NEW o \in Outcomes, Run(o) PROVE IInv'
  BY <1>3, RunIInv
<1>4. ASSUME NEW reply \in {"continue", "stop"}, Ask(reply) PROVE IInv'
  <2>1. attempts % AskEvery \in Int /\ 0 <= attempts % AskEvery
    BY DivisionWithRemainder
  <2> QED
    BY <1>4, <2>1 DEF Ask, BeforeWrite
<1>5. CASE Quality
  BY <1>5 DEF Quality
<1>6. CASE Report
  BY <1>6 DEF Report
<1>7. CASE Abort
  BY <1>7 DEF Abort, Final
<1>8. CASE UNCHANGED vars
  BY <1>8 DEF vars, BeforeWrite, BeforeRun
<1> QED
  BY <1>1, <1>2, <1>3, <1>4, <1>5, <1>6, <1>7, <1>8 DEF Next, Step

LEMMA Invariance == Spec => []IInv
  BY InitIInv, NextIInv, PTL DEF Spec

\* The variables keep their types; attempts stays within MaxTotal.
THEOREM TypeCorrect == Spec => []TypeOK
<1>1. IInv => TypeOK
  BY DEF IInv
<1> QED
  BY <1>1, Invariance, PTL

\* The invariant bounds the streak by AskEvery at every node.
LEMMA IInvLimits == IInv => LimitsKept
<1> SUFFICES ASSUME IInv PROVE LimitsKept
  OBVIOUS
<1>1. attempts \in Nat /\ streak \in Nat /\ attempts <= MaxTotal
      /\ streak <= AskEvery
  BY DEF IInv, TypeOK
<1>2. CASE node = "write"
  <2>1. attempts % AskEvery \in Int /\ attempts % AskEvery < AskEvery
    BY <1>1, DivisionWithRemainder
  <2>2. streak <= attempts % AskEvery
    BY <1>2 DEF IInv, BeforeWrite
  <2> QED
    BY <1>1, <2>1, <2>2 DEF LimitsKept
<1>3. CASE node = "run"
  <2> DEFINE a == attempts - 1
  <2>1. a \in Nat /\ streak <= a % AskEvery
    BY <1>1, <1>3 DEF IInv, BeforeRun
  <2> HIDE DEF a
  <2>2. a % AskEvery \in Int /\ a % AskEvery < AskEvery
    BY <2>1, DivisionWithRemainder
  <2> QED
    BY <1>1, <2>1, <2>2 DEF LimitsKept
<1> QED
  BY <1>1, <1>2, <1>3 DEF LimitsKept

\* Neither limit is ever passed, for every AskEvery and MaxTotal
\* (also when AskEvery is larger than MaxTotal).
THEOREM LimitsAreKept == Spec => []LimitsKept
  BY IInvLimits, Invariance, PTL

\* A stop, a time-out or a refused selector ends the work.
THEOREM StopEndsTheWork == Spec => []NoWorkAfterStop
<1>1. IInv => NoWorkAfterStop
  BY DEF IInv, TypeOK, Nodes, BeforeWrite, BeforeRun, NoWorkAfterStop,
         NoRun, Passed, Impossible
<1> QED
  BY <1>1, Invariance, PTL

\* A repeated failure is put to the user before the next attempt.
THEOREM RepetitionIsAsked == Spec => RepeatedFailureIsAsked
<1>1. IInv /\ [Next]_vars =>
        [attempts' > attempts /\ last_run = prev_run /\ last_run # NoRun
           => streak = 0]_vars
  <2> SUFFICES ASSUME IInv, Next, attempts' > attempts,
                      last_run = prev_run, last_run # NoRun
               PROVE  streak = 0
    OBVIOUS
  <2>1. Write
    BY DEF IInv, TypeOK, Next, Step, Gather, Run, Ask, Quality, Report, Abort
  <2> QED
    BY <2>1 DEF Write, IInv, BeforeWrite
<1> QED
  BY <1>1, Invariance, PTL DEF Spec, RepeatedFailureIsAsked

\* The engine implements WriterPromise: Write begins an execution, Run
\* observes its result, Ask is the answer, Quality and Report conclude.
THEOREM Refinement == Spec => KeepsPromise
<1> USE DEF Verdict, Promise!vars, Passed, Impossible, NoRun,
            Promise!Passed, Promise!Impossible, Promise!NoRun
<1>1. Init => Promise!Init
  BY DEF Init, Promise!Init
<1>2. IInv /\ [Next]_vars => [Promise!Next]_(Promise!vars)
  <2> SUFFICES ASSUME IInv, [Next]_vars
               PROVE  [Promise!Next]_(Promise!vars)
    OBVIOUS
  <2>1. CASE Gather
    BY <2>1 DEF Gather, IInv, Working
  <2>2. CASE Write
    <3>1. LimitsKept
      BY IInvLimits
    <3>2. Promise!Begin
      BY <2>2, <3>1 DEF Write, IInv, TypeOK, Working, BeforeWrite,
                        LimitsKept, Promise!Begin, NoRun
    <3> QED
      BY <3>2 DEF Promise!Next
  <2>3. ASSUME NEW o \in Outcomes, Run(o)
        PROVE  Promise!Next
    <3>1. node' # "run" /\ node' # "aborted"
      BY <2>3 DEF Run, RouteAfterRun
    <3>2. Promise!Observe(o)
      BY <2>3, <3>1 DEF Run, Promise!Observe, IInv, Working
    <3> QED
      BY <3>2 DEF Promise!Next, Promise!Outcomes, Outcomes
  <2>4. ASSUME NEW reply \in {"continue", "stop"}, Ask(reply)
        PROVE  Promise!Next
    <3>1. Promise!Answer(reply)
      BY <2>4 DEF Ask, Promise!Answer, IInv, Working
    <3> QED
      BY <3>1 DEF Promise!Next
  <2>5. CASE Quality
    <3>1. Promise!Conclude("passed")
      BY <2>5 DEF Quality, Promise!Conclude, IInv, Working
    <3> QED
      BY <3>1 DEF Promise!Next
  <2>6. CASE Report
    <3>1. Promise!Conclude("reported")
      BY <2>6 DEF Report, Promise!Conclude, IInv, Working
    <3> QED
      BY <3>1 DEF Promise!Next
  <2>7. CASE Abort
    <3>1. status \in {"working", "stopping"}
      BY <2>7 DEF Abort, Final, IInv, TypeOK
    <3>2. Promise!Abort
      BY <2>7, <3>1 DEF Abort, Final, Promise!Abort
    <3> QED
      BY <3>2 DEF Promise!Next
  <2>8. CASE UNCHANGED vars
    BY <2>8 DEF vars
  <2> QED
    BY <2>1, <2>2, <2>3, <2>4, <2>5, <2>6, <2>7, <2>8 DEF Next, Step
<1> QED
  BY <1>1, <1>2, Invariance, PTL DEF Spec, KeepsPromise, Promise!Spec
=============================================================================
