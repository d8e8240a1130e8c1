------------------------- MODULE HumanReview_proofs -------------------------
(***************************************************************************)
(* Proofs about the changes a person must judge, for any set of targets    *)
(* and any number of versions and questions.                               *)
(***************************************************************************)
EXTENDS HumanReview, TLAPS

USE HumanReviewAssumption

\* The local variables a command may have.
Commands ==
    [by : {"", "maintain", "resolve"}, changed : SUBSET Targets, todo : SUBSET Targets,
     target : Targets \cup {""}, answer : Answers \cup {""},
     category : Categories \cup {""}, status : Statuses \cup {""}, released : BOOLEAN,
     check : Int, before : Versions, result : Results \cup {""}, written : BOOLEAN, back : {0, 1},
     question : 0..MaxQuestions]

Proposed ==
    [result : {"accepted", "human_review"}, by : {"maintain", "resolve"}, fix : BOOLEAN,
     triedOn : {"nothing", "code before", "other code"}]

\* Which command can be where, so that NoCmd is the command of no other place.
CommandFits ==
    /\ pc = "idle" => cmd = NoCmd
    /\ pc = "loop" => cmd.by = "maintain"
    /\ pc = "generate" => cmd.by \in {"maintain", "resolve"} /\ cmd.target \in Targets
    /\ pc \in {"remember", "discard"} =>
         /\ cmd.by = "resolve" /\ cmd.answer \in Answers
         /\ cmd.question \in 1..MaxQuestions
    /\ cmd.by = "resolve" => cmd.answer \in Answers /\ cmd.question \in 1..MaxQuestions

Typed ==
    /\ pc \in {"idle", "loop", "generate", "remember", "discard"}
    /\ cmd \in Commands /\ cmd.todo \subseteq cmd.changed
    /\ head \in Versions /\ work \in Versions /\ work \in {head, head + 1}
    /\ files \subseteq Questions
    /\ memos \in [1..MaxQuestions -> Answers \cup {"none"}]
    /\ proposals \in [Targets -> {Nothing} \cup Proposed]
    /\ asked \in 0..MaxQuestions
    /\ CommandFits

LEMMA BaseIsVersion ==
    ASSUME Typed, NEW back \in {0, 1}
    PROVE  /\ Base(back) \in Int
           /\ Base(back) >= 0 => Base(back) \in Versions
  BY DEF Typed, Base, Versions

LEMMA NoCmdTyped ==
    /\ NoCmd \in Commands
    /\ NoCmd.by = "" /\ NoCmd.result = "" /\ NoCmd.check = NoGate /\ ~NoCmd.written
    /\ NoCmd.todo = {} /\ NoCmd.changed = {} /\ ~NoCmd.released
<1>1. NoGate \in Int /\ 0 \in Versions /\ 0 \in 0..MaxQuestions
  BY DEF NoGate, Versions
<1> QED
  BY <1>1 DEF NoCmd, Commands

LEMMA InitTyped == Init => Typed
<1> SUFFICES ASSUME Init PROVE Typed
  OBVIOUS
<1>1. /\ head \in Versions /\ work \in Versions /\ work \in {head, head + 1}
      /\ asked \in 0..MaxQuestions
  BY DEF Init, Versions
<1>2. /\ memos \in [1..MaxQuestions -> Answers \cup {"none"}]
      /\ proposals \in [Targets -> {Nothing} \cup Proposed]
      /\ files \subseteq Questions
  BY DEF Init
<1>3. CommandFits
  BY NoCmdTyped DEF Init, CommandFits
<1> QED
  BY <1>1, <1>2, <1>3, NoCmdTyped DEF Init, Typed

\* An answer begins a command that has its answer and its question.
LEMMA AnsweringTyped ==
    ASSUME Typed, NEW q \in files, NEW answer \in Answers, NEW category \in Categories
    PROVE  LET c == Answering(q, answer, category) IN
           /\ c \in Commands /\ c.todo \subseteq c.changed /\ c.by = "resolve"
           /\ c.answer = answer /\ c.question = q.n /\ c.question \in 1..MaxQuestions
           /\ c.target = q.target /\ c.target \in Targets /\ c.category = category
           /\ ~c.released /\ c.check = NoGate /\ c.result = "" /\ c.status = q.status
<1>1. /\ q.n \in 1..MaxQuestions /\ q.n \in 0..MaxQuestions /\ q.target \in Targets
      /\ q.status \in Statuses /\ q.before \in Versions
  BY DEF Typed, Questions
<1> QED
  BY <1>1, NoCmdTyped DEF Answering, Commands

LEMMA NextTyped == Typed /\ [Next]_vars => Typed'
<1> SUFFICES ASSUME Typed, [Next]_vars PROVE Typed'
  OBVIOUS
<1>1. ASSUME NEW changed \in SUBSET Targets, NEW back \in {0, 1}, Maintain(changed, back)
      PROVE  Typed'
  <2>1. Base(back) \in Versions
    BY <1>1, BaseIsVersion DEF Maintain, Versions
  <2>2. cmd' \in Commands /\ cmd'.todo \subseteq cmd'.changed /\ cmd'.by = "maintain"
    BY <1>1, <2>1, NoCmdTyped DEF Maintain, Commands
  <2> QED
    BY <1>1, <2>2 DEF Maintain, Typed, CommandFits
<1>2. ASSUME NEW a \in Analyses, CreateTest(a) PROVE Typed'
  <2>1. CheckOf(cmd.changed, cmd.back) \in Int /\ NoGate \in Int
    <3>1. cmd.back \in {0, 1} /\ Base(cmd.back) \in Int
      BY BaseIsVersion DEF Typed, Commands
    <3> QED
      BY <3>1 DEF CheckOf, Unmeasurable, NoGate
  <2>2. /\ cmd' \in Commands /\ cmd'.todo \subseteq cmd'.changed /\ cmd'.by = cmd.by
        /\ cmd'.target \in Targets
    <3>1. a.target \in Targets /\ a.category \in Categories
      BY DEF Analyses
    <3>2. cmd \in Commands /\ cmd.todo \subseteq cmd.changed
      BY DEF Typed
    <3> QED
      BY <1>2, <2>1, <3>1, <3>2 DEF CreateTest, Commands
  <2>3. cmd.by = "maintain"
    BY <1>2 DEF CreateTest, Typed, CommandFits
  <2> QED
    BY <1>2, <2>2, <2>3 DEF CreateTest, Typed, CommandFits
<1>3. ASSUME NEW a \in Analyses, SaveQuestion(a) PROVE Typed'
  <2>1. cmd' \in Commands /\ cmd'.todo \subseteq cmd'.changed /\ cmd'.by = "maintain"
    <3>1. cmd \in Commands /\ cmd.todo \subseteq cmd.changed /\ cmd.by = "maintain"
      BY <1>3 DEF SaveQuestion, Typed, CommandFits
    <3> QED
      BY <1>3, <3>1 DEF SaveQuestion, Commands
  <2>2. asked' \in 0..MaxQuestions /\ asked + 1 \in 1..MaxQuestions
    BY <1>3 DEF SaveQuestion, Typed
  <2>3. files' \subseteq Questions
    <3>1. /\ a.target \in Targets /\ a.category \in Categories /\ a.status \in Statuses
          /\ cmd.back \in {0, 1} /\ cmd.before \in Versions /\ files \subseteq Questions
      BY DEF Analyses, Typed, Commands
    <3> QED
      BY <1>3, <2>2, <3>1 DEF SaveQuestion, Questions
  <2> QED
    BY <1>3, <2>1, <2>2, <2>3 DEF SaveQuestion, Typed, CommandFits
<1>4. ASSUME NEW a \in Analyses, LeaveAlone(a) PROVE Typed'
  <2>1. cmd' \in Commands /\ cmd'.todo \subseteq cmd'.changed /\ cmd'.by = "maintain"
    <3>1. cmd \in Commands /\ cmd.todo \subseteq cmd.changed /\ cmd.by = "maintain"
      BY <1>4 DEF LeaveAlone, Typed, CommandFits
    <3> QED
      BY <1>4, <3>1 DEF LeaveAlone, Commands
  <2> QED
    BY <1>4, <2>1 DEF LeaveAlone, Typed, CommandFits
<1>5. ASSUME EndMaintain \/ Kill PROVE Typed'
  BY <1>5, NoCmdTyped DEF EndMaintain, Kill, Return, Typed, CommandFits
<1>6. ASSUME NEW q \in files, Skip(q) PROVE Typed'
  <2>1. q.category \in Categories /\ "skip" \in Answers
    BY DEF Typed, Questions, Answers
  <2> DEFINE c == Answering(q, "skip", q.category)
  <2>2. /\ c \in Commands /\ c.todo \subseteq c.changed /\ c.by = "resolve"
        /\ c.answer \in Answers /\ c.question \in 1..MaxQuestions
    BY <2>1, AnsweringTyped
  <2>3. cmd' = c /\ pc' = "remember" /\ UNCHANGED <<head, work, files, memos, proposals, asked>>
    BY <1>6 DEF Skip
  <2> HIDE DEF c
  <2> QED
    BY <2>2, <2>3 DEF Typed, CommandFits
<1>7. ASSUME NEW q \in files, NEW answer \in {"intended", "test-issue", "proceed"},
             Resume(q, answer)
      PROVE  Typed'
  <2>1. q.category \in Categories /\ answer \in Answers
    BY DEF Typed, Questions, Answers
  <2> DEFINE c == Answering(q, answer, q.category)
  <2>2. /\ c \in Commands /\ c.todo \subseteq c.changed /\ c.by = "resolve"
        /\ c.target \in Targets /\ c.answer \in Answers /\ c.question \in 1..MaxQuestions
    BY <2>1, AnsweringTyped
  <2> HIDE DEF c
  <2>3. /\ cmd' \in Commands /\ cmd'.todo \subseteq cmd'.changed /\ cmd'.by = "resolve"
        /\ cmd'.target \in Targets /\ cmd'.answer \in Answers
        /\ cmd'.question \in 1..MaxQuestions
    BY <1>7, <2>2 DEF Resume, Commands, c
  <2> QED
    BY <1>7, <2>3 DEF Resume, Typed, CommandFits
<1>8. ASSUME NEW q \in files, NEW category \in StatedCategories, ResolveAs(q, category)
      PROVE  Typed'
  <2>1. category \in Categories /\ "as" \in Answers
    BY DEF StatedCategories, Categories, Answers
  <2> DEFINE c == Answering(q, "as", category)
  <2>2. /\ c \in Commands /\ c.todo \subseteq c.changed /\ c.by = "resolve"
        /\ c.target \in Targets /\ c.answer \in Answers /\ c.question \in 1..MaxQuestions
    BY <2>1, AnsweringTyped
  <2> HIDE DEF c
  <2>3. Base(q.back) \in Int /\ NoGate \in Int
    BY BaseIsVersion DEF Typed, Questions, NoGate
  <2>4. /\ cmd' \in Commands /\ cmd'.todo \subseteq cmd'.changed /\ cmd'.by = "resolve"
        /\ cmd'.target \in Targets /\ cmd'.answer \in Answers
        /\ cmd'.question \in 1..MaxQuestions
    BY <1>8, <2>2, <2>3 DEF ResolveAs, Commands, c
  <2> QED
    BY <1>8, <2>4 DEF ResolveAs, Typed, CommandFits
<1>9. ASSUME NEW result \in Results, NEW written \in BOOLEAN, Generate(result, written)
      PROVE  Typed'
  <2>1. /\ pc' \in {"idle", "loop", "remember"}
        /\ pc' = "loop" <=> cmd.by = "maintain"
        /\ pc = "generate" /\ cmd.by \in {"maintain", "resolve"} /\ cmd.target \in Targets
    BY <1>9 DEF Generate, AfterGeneration, Typed, CommandFits
  <2>2. cmd \in Commands /\ cmd.todo \subseteq cmd.changed /\ NoGate \in Int
    BY DEF Typed, NoGate
  <2>3. cmd' \in Commands /\ cmd'.todo \subseteq cmd'.changed /\ CommandFits'
    <3>1. CASE pc' = "idle"
      BY <1>9, <3>1, NoCmdTyped DEF Generate, CommandFits
    <3>2. CASE pc' = "loop"
      <4>1. cmd' = [NoCmd EXCEPT !.by = "maintain", !.changed = cmd.changed,
                                 !.todo = cmd.todo, !.back = cmd.back, !.before = cmd.before]
        BY <1>9, <2>1, <3>2 DEF Generate
      <4>2. cmd' \in Commands /\ cmd'.todo \subseteq cmd'.changed /\ cmd'.by = "maintain"
        BY <4>1, <2>2, NoCmdTyped DEF Commands
      <4> QED
        BY <3>2, <4>2 DEF CommandFits
    <3>3. CASE pc' = "remember"
      <4>1. /\ cmd' = [NoCmd EXCEPT !.by = "resolve", !.question = cmd.question,
                                   !.target = cmd.target, !.answer = cmd.answer,
                                   !.result = result, !.written = written]
            /\ cmd.by = "resolve"
        BY <1>9, <2>1, <3>3 DEF Generate
      <4>2. /\ cmd.answer \in Answers /\ cmd.question \in 1..MaxQuestions
            /\ cmd.question \in 0..MaxQuestions
        BY <4>1 DEF Typed, CommandFits
      <4>3. /\ cmd' \in Commands /\ cmd'.todo \subseteq cmd'.changed
            /\ cmd'.by = "resolve" /\ cmd'.answer = cmd.answer /\ cmd'.question = cmd.question
        BY <4>1, <4>2, <2>1, NoCmdTyped DEF Commands
      <4> QED
        BY <3>3, <4>2, <4>3 DEF CommandFits
    <3> QED
      BY <2>1, <3>1, <3>2, <3>3
  <2>4. proposals' \in [Targets -> {Nothing} \cup Proposed]
    BY <1>9, <2>1 DEF Generate, Typed, Proposed, TriedOn
  <2> QED
    BY <1>9, <2>1, <2>3, <2>4 DEF Generate, Typed
<1>10. CASE Remember
  BY <1>10 DEF Remember, Typed, CommandFits
<1>11. CASE Discard
  BY <1>11, NoCmdTyped DEF Discard, Return, Typed, CommandFits
<1>12. CASE Change \/ Commit
  BY <1>12 DEF Change, Commit, Typed, CommandFits, Versions
<1>13. ASSUME NEW t \in Targets, TakeProposal(t) PROVE Typed'
  BY <1>13 DEF TakeProposal, Typed, CommandFits
<1>14. CASE UNCHANGED vars
  BY <1>14 DEF vars, Typed, CommandFits
<1> QED
  BY <1>1, <1>2, <1>3, <1>4, <1>5, <1>6, <1>7, <1>8, <1>9, <1>10, <1>11, <1>12,
     <1>13, <1>14 DEF Next

\* The variables keep their types; a command is in progress exactly when one of
\* cta maintain and cta resolve has local variables.
THEOREM TypeCorrect == Spec => []TypeOK
<1>1. Typed => TypeOK
  <2> SUFFICES ASSUME Typed PROVE TypeOK
    OBVIOUS
  <2>1. cmd = NoCmd <=> pc = "idle"
    BY NoCmdTyped DEF Typed, CommandFits
  <2>2. cmd.todo \subseteq cmd.changed /\ cmd.changed \subseteq Targets
    BY DEF Typed, Commands
  <2>3. \A t \in Targets : proposals[t] # Nothing =>
          /\ proposals[t].result \in {"accepted", "human_review"}
          /\ proposals[t].triedOn \in {"nothing", "code before", "other code"}
    BY DEF Typed, Proposed
  <2> QED
    BY <2>1, <2>2, <2>3 DEF Typed, TypeOK
<1> QED
  BY <1>1, InitTyped, NextTyped, PTL DEF Spec

-----------------------------------------------------------------------------
(***************************************************************************)
(* On what a command that goes on stands: the rule table or the person's   *)
(* answer for a generation, a proposal for the end of an answer, a memo    *)
(* for the deletion of the question.                                       *)
(***************************************************************************)
ByTable == cmd.category \in {"bug_fix", "new_feature"} /\ ~cmd.released

Generating ==
    /\ cmd.by = "maintain" => ByTable /\ (cmd.category = "bug_fix" => cmd.check # NoGate)
    /\ cmd.by = "resolve" =>
         \/ cmd.answer = "as" /\ ByTable
         \/ /\ cmd.answer \in {"intended", "test-issue", "proceed"}
            /\ cmd.released => /\ cmd.status = "fail"
                              /\ cmd.answer \in {"intended", "test-issue"}

\* The generation of the answer made a proposal of the file it left.
Stored ==
    cmd.written /\ cmd.result \in {"accepted", "human_review"}
        => /\ proposals[cmd.target] # Nothing
           /\ proposals[cmd.target].by = "resolve"
           /\ proposals[cmd.target].result = cmd.result

HasProposal ==
    /\ Stored
    /\ cmd.answer \in {"intended", "test-issue", "proceed"}
         => cmd.result \in {"accepted", "human_review"}

\* Questions have numbers of their own, and the one that is answered has the
\* target of the command.
Numbered ==
    /\ \A q \in files : q.n <= asked
    /\ \A q, r \in files : q.n = r.n => q = r
    /\ cmd.by = "resolve" => \A q \in files : q.n = cmd.question => q.target = cmd.target

Founded ==
    /\ pc = "loop" => ~cmd.released
    /\ pc = "generate" => Generating
    /\ pc \in {"remember", "discard"} => HasProposal
    /\ pc = "discard" => memos[cmd.question] = cmd.answer

IInv == Typed /\ Founded /\ Numbered /\ MaintainReproduces

LEMMA InitIInv == Init => IInv
<1> SUFFICES ASSUME Init PROVE IInv
  OBVIOUS
<1>1. Founded /\ MaintainReproduces
  BY DEF Init, Founded, MaintainReproduces, Nothing
<1>2. Numbered
  BY NoCmdTyped DEF Init, Numbered
<1> QED
  BY <1>1, <1>2, InitTyped DEF IInv

\* The gate of maintain is attached whatever the base holds.
LEMMA AlwaysChecked ==
    ASSUME Typed PROVE CheckOf(cmd.changed, cmd.back) # NoGate
<1>1. cmd.back \in {0, 1} /\ cmd.changed \subseteq Targets
  BY DEF Typed, Commands
<1>2. Base(cmd.back) \in Int
  BY <1>1, BaseIsVersion
<1>3. \A t \in cmd.changed : HasOldSource(t, cmd.back) => Base(cmd.back) # NoGate
  <2> SUFFICES ASSUME NEW t \in cmd.changed, Base(cmd.back) >= Born[t]
               PROVE  Base(cmd.back) # NoGate
    BY DEF HasOldSource
  <2>1. Born[t] \in 0..MaxVersion
    BY <1>1 DEF HumanReviewAssumption
  <2> QED
    BY <1>2, <2>1 DEF NoGate
<1> QED
  BY <1>3 DEF CheckOf, NoGate, Unmeasurable

\* Only maintain asks, while no answer is in progress, and with a fresh number.
LEMMA NextNumbered == Typed /\ Numbered /\ [Next]_vars => Numbered'
<1> SUFFICES ASSUME Typed, Numbered, [Next]_vars PROVE Numbered'
  OBVIOUS
<1>c. cmd \in Commands /\ files \subseteq Questions /\ asked \in Nat
  BY DEF Typed
<1>1. ASSUME NEW a \in Analyses, SaveQuestion(a) PROVE Numbered'
  <2> DEFINE new == [n |-> asked + 1, target |-> a.target, category |-> a.category,
                     status |-> a.status, back |-> cmd.back, before |-> cmd.before]
  <2>1. files' = files \cup {new} /\ asked' = asked + 1 /\ new.n = asked + 1
    BY <1>1 DEF SaveQuestion
  <2>2. \A q \in files : q.n \in Nat /\ q.n <= asked
    BY <1>c DEF Questions, Numbered
  <2>3. cmd'.by = "maintain"
    BY <1>1, <1>c DEF SaveQuestion, Typed, CommandFits, Commands
  <2> HIDE DEF new
  <2>4. \A q \in files' : q.n <= asked'
    BY <1>c, <2>1, <2>2
  <2>5. \A q, r \in files' : q.n = r.n => q = r
    <3> SUFFICES ASSUME NEW q \in files', NEW r \in files', q.n = r.n PROVE q = r
      OBVIOUS
    <3>1. (q \in files /\ r \in files) \/ (q = new /\ r = new)
      BY <1>c, <2>1, <2>2
    <3> QED
      BY <3>1 DEF Numbered
  <2> QED
    BY <2>3, <2>4, <2>5 DEF Numbered
<1>2. ASSUME UNCHANGED asked, files' \subseteq files,
             \/ cmd'.by # "resolve"
             \/ cmd'.question = cmd.question /\ cmd'.target = cmd.target /\ cmd.by = "resolve"
      PROVE  Numbered'
  BY <1>2 DEF Numbered
<1>3. ASSUME UNCHANGED <<files, asked>>, NEW q \in files,
             cmd'.question = q.n, cmd'.target = q.target
      PROVE  Numbered'
  BY <1>3 DEF Numbered
<1>4. ASSUME NEW changed \in SUBSET Targets, NEW back \in {0, 1}, Maintain(changed, back)
      PROVE  Numbered'
  BY <1>2, <1>4, NoCmdTyped DEF Maintain, Commands
<1>5. ASSUME NEW a \in Analyses, CreateTest(a) \/ LeaveAlone(a) PROVE Numbered'
  <2>1. cmd.by = "maintain"
    BY <1>5 DEF CreateTest, LeaveAlone, Typed, CommandFits
  <2>2. cmd'.by = "maintain"
    BY <1>5, <1>c, <2>1 DEF CreateTest, LeaveAlone, Commands
  <2> QED
    BY <1>2, <1>5, <2>2 DEF CreateTest, LeaveAlone
<1>6. ASSUME EndMaintain \/ Kill \/ Discard PROVE Numbered'
  BY <1>2, <1>6, NoCmdTyped DEF EndMaintain, Kill, Discard, Return
<1>7. ASSUME NEW q \in files, Skip(q) PROVE Numbered'
  BY <1>3, <1>7, NoCmdTyped DEF Skip, Answering, Commands
<1>8. ASSUME NEW q \in files, NEW answer \in {"intended", "test-issue", "proceed"},
             Resume(q, answer)
      PROVE  Numbered'
  BY <1>3, <1>8, NoCmdTyped DEF Resume, Answering, Commands
<1>9. ASSUME NEW q \in files, NEW category \in StatedCategories, ResolveAs(q, category)
      PROVE  Numbered'
  BY <1>3, <1>9, NoCmdTyped DEF ResolveAs, Answering, Commands
<1>10. ASSUME NEW result \in Results, NEW written \in BOOLEAN, Generate(result, written)
       PROVE  Numbered'
  <2>1. UNCHANGED <<files, asked>> /\ cmd.by \in {"maintain", "resolve"}
    BY <1>10 DEF Generate, Typed, CommandFits
  <2>2. CASE cmd.by = "maintain"
    <3>1. cmd'.by = "maintain"
      BY <1>10, <2>2, NoCmdTyped DEF Generate, AfterGeneration, Commands
    <3> QED
      BY <1>2, <2>1, <3>1
  <2>3. CASE cmd.by = "resolve" /\ pc' = "idle"
    BY <1>2, <1>10, <2>1, <2>3, NoCmdTyped DEF Generate
  <2>4. CASE cmd.by = "resolve" /\ pc' # "idle"
    <3>1. cmd'.question = cmd.question /\ cmd'.target = cmd.target
      BY <1>10, <2>4, NoCmdTyped DEF Generate, Commands
    <3> QED
      BY <1>2, <2>1, <2>4, <3>1
  <2> QED
    BY <2>1, <2>2, <2>3, <2>4
<1>11. CASE Remember \/ Change \/ Commit \/ (\E t \in Targets : TakeProposal(t)) \/ UNCHANGED vars
  BY <1>11 DEF Remember, Change, Commit, TakeProposal, vars, Numbered
<1> QED
  BY <1>1, <1>4, <1>5, <1>6, <1>7, <1>8, <1>9, <1>10, <1>11 DEF Next

LEMMA NextIInv == IInv /\ [Next]_vars => IInv'
<1> SUFFICES ASSUME IInv, [Next]_vars PROVE IInv'
  OBVIOUS
<1>t. Typed /\ Typed'
  BY NextTyped DEF IInv
<1>c. cmd \in Commands
  BY <1>t DEF Typed
<1>i. Founded /\ MaintainReproduces
  BY DEF IInv
<1> SUFFICES Founded' /\ MaintainReproduces'
  BY <1>t, NextNumbered DEF IInv
<1>1. ASSUME NEW changed \in SUBSET Targets, NEW back \in {0, 1}, Maintain(changed, back)
      PROVE  Founded' /\ MaintainReproduces'
  <2>1. pc' = "loop" /\ UNCHANGED proposals
    BY <1>1 DEF Maintain
  <2>2. ~cmd'.released
    BY <1>1, NoCmdTyped DEF Maintain, Commands
  <2> QED
    BY <1>i, <2>1, <2>2 DEF Founded, MaintainReproduces
<1>2. ASSUME NEW a \in Analyses, CreateTest(a) PROVE Founded' /\ MaintainReproduces'
  <2>1. a.category \in {"bug_fix", "new_feature"}
    BY <1>2 DEF CreateTest, Decide, Analyses, Categories, Statuses
  <2>2. cmd.by = "maintain" /\ ~cmd.released
    BY <1>2, <1>t, <1>i DEF CreateTest, Typed, CommandFits, Founded
  <2>3. /\ cmd'.by = "maintain" /\ cmd'.category = a.category /\ ~cmd'.released
        /\ cmd'.check = IF a.category = "bug_fix"
                         THEN CheckOf(cmd.changed, cmd.back) ELSE NoGate
    BY <1>2, <1>c, <2>2 DEF CreateTest, Commands
  <2>4. pc' = "generate" /\ UNCHANGED proposals
    BY <1>2 DEF CreateTest
  <2> QED
    BY <1>t, <1>i, <2>1, <2>3, <2>4, AlwaysChecked
    DEF Founded, Generating, ByTable, MaintainReproduces
<1>3. ASSUME NEW a \in Analyses, SaveQuestion(a) \/ LeaveAlone(a)
      PROVE  Founded' /\ MaintainReproduces'
  <2>1. pc = "loop" /\ pc' = "loop" /\ UNCHANGED proposals
    BY <1>3 DEF SaveQuestion, LeaveAlone
  <2>2. cmd'.released = cmd.released
    BY <1>3, <1>c DEF SaveQuestion, LeaveAlone, Commands
  <2> QED
    BY <1>i, <2>1, <2>2 DEF Founded, MaintainReproduces
<1>4. ASSUME EndMaintain \/ Kill \/ Discard PROVE Founded' /\ MaintainReproduces'
  BY <1>4, <1>i DEF EndMaintain, Kill, Discard, Return, Founded, MaintainReproduces
<1>5. ASSUME NEW q \in files, Skip(q) PROVE Founded' /\ MaintainReproduces'
  <2>1. q.category \in Categories /\ "skip" \in Answers
    BY <1>t DEF Typed, Questions, Answers
  <2>2. cmd'.answer = "skip" /\ cmd'.result = "" /\ pc' = "remember" /\ UNCHANGED proposals
    BY <1>5, <1>t, <2>1, AnsweringTyped DEF Skip
  <2> QED
    BY <1>i, <2>2 DEF Founded, HasProposal, Stored, MaintainReproduces
<1>6. ASSUME NEW q \in files, NEW answer \in {"intended", "test-issue", "proceed"},
             Resume(q, answer)
      PROVE  Founded' /\ MaintainReproduces'
  <2>1. q.category \in Categories /\ answer \in Answers
    BY <1>t DEF Typed, Questions, Answers
  <2> DEFINE c == Answering(q, answer, q.category)
  <2>2. c \in Commands /\ c.by = "resolve" /\ c.answer = answer /\ c.status = q.status
    <3>1. c \in Commands /\ c.by = "resolve" /\ c.answer = answer
      BY <1>t, <2>1, AnsweringTyped
    <3>2. c.status = q.status
      BY NoCmdTyped DEF Answering, Commands
    <3> QED
      BY <3>1, <3>2
  <2> HIDE DEF c
  <2>3. /\ cmd'.by = "resolve" /\ cmd'.answer = answer /\ cmd'.status = q.status
        /\ cmd'.released = (answer \in {"intended", "test-issue"} /\ q.status = "fail")
    BY <1>6, <2>2 DEF Resume, Commands, c
  <2>4. pc' = "generate" /\ UNCHANGED proposals
    BY <1>6 DEF Resume
  <2> QED
    BY <1>i, <2>3, <2>4 DEF Founded, Generating, MaintainReproduces
<1>7. ASSUME NEW q \in files, NEW category \in StatedCategories, ResolveAs(q, category)
      PROVE  Founded' /\ MaintainReproduces'
  <2>1. category \in Categories /\ "as" \in Answers /\ q.status \in Statuses
    BY <1>t DEF StatedCategories, Categories, Answers, Typed, Questions
  <2> DEFINE c == Answering(q, "as", category)
  <2>2. /\ c \in Commands /\ c.by = "resolve" /\ c.answer = "as" /\ ~c.released
        /\ c.category = category /\ c.result = ""
    <3>1. /\ c \in Commands /\ c.by = "resolve" /\ c.answer = "as" /\ ~c.released
          /\ c.category = category
      BY <1>t, <2>1, AnsweringTyped
    <3>2. c.result = ""
      BY NoCmdTyped DEF Answering, Commands
    <3> QED
      BY <3>1, <3>2
  <2> HIDE DEF c
  <2>3. /\ cmd'.by = "resolve" /\ cmd'.answer = "as" /\ ~cmd'.released
        /\ cmd'.category = category /\ cmd'.result = ""
    BY <1>7, <2>2 DEF ResolveAs, Commands, c
  <2>4. pc' = "generate" => category \in {"bug_fix", "new_feature"}
    BY <1>7, <2>1 DEF ResolveAs, Decide, StatedCategories, Statuses
  <2>5. pc' \in {"generate", "remember"} /\ UNCHANGED proposals
    BY <1>7 DEF ResolveAs
  <2> QED
    BY <1>i, <2>3, <2>4, <2>5 DEF Founded, Generating, ByTable, HasProposal, Stored,
       MaintainReproduces
<1>8. ASSUME NEW result \in Results, NEW written \in BOOLEAN, Generate(result, written)
      PROVE  Founded' /\ MaintainReproduces'
  <2>1. pc = "generate" /\ Generating /\ cmd.by \in {"maintain", "resolve"} /\ cmd.target \in Targets
    BY <1>8, <1>i, <1>t DEF Generate, Founded, Typed, CommandFits
  <2>2. ASSUME pc' = "idle" PROVE Founded'
    BY <2>2 DEF Founded
  <2>3. ASSUME pc' = "loop" PROVE Founded'
    <3>1. ~cmd'.released
      BY <1>8, <1>c, <2>1, <2>3, NoCmdTyped DEF Generate, AfterGeneration, Commands
    <3> QED
      BY <2>3, <3>1 DEF Founded
  <2>4. ASSUME pc' = "remember" PROVE Founded'
    <3>1. /\ cmd' = [NoCmd EXCEPT !.by = "resolve", !.question = cmd.question,
                                   !.target = cmd.target, !.answer = cmd.answer,
                                   !.result = result, !.written = written]
          /\ cmd.by = "resolve"
      BY <1>8, <2>1, <2>4 DEF Generate, AfterGeneration
    <3>2. /\ cmd'.answer = cmd.answer /\ cmd'.result = result
          /\ cmd'.written = written /\ cmd'.target = cmd.target
      BY <3>1, NoCmdTyped DEF Commands
    <3>3. cmd.answer # "as" => result \in {"accepted", "human_review"}
      BY <1>8, <2>4, <3>1 DEF Generate, AfterGeneration, Results
    <3>4. Stored'
      <4> DEFINE p == [result |-> result, by |-> cmd.by,
                       fix |-> result = "accepted" /\ cmd.category = "bug_fix",
                       triedOn |-> IF result = "accepted" THEN TriedOn ELSE "nothing"]
      <4>1. written /\ result \in {"accepted", "human_review"}
              => proposals' = [proposals EXCEPT ![cmd.target] = p]
        BY <1>8 DEF Generate
      <4>2. p # Nothing /\ p.by = "resolve" /\ p.result = result
        BY <3>1 DEF Nothing
      <4>3. proposals \in [Targets -> {Nothing} \cup Proposed]
        BY <1>t DEF Typed
      <4> HIDE DEF p
      <4>4. written /\ result \in {"accepted", "human_review"}
              => proposals'[cmd.target] = p
        BY <2>1, <4>1, <4>3
      <4> QED
        BY <3>2, <4>2, <4>4 DEF Stored
    <3> QED
      BY <2>4, <3>2, <3>3, <3>4 DEF Founded, HasProposal
  <2>5. pc' \in {"idle", "loop", "remember"}
    BY <1>8 DEF Generate, AfterGeneration
  <2>6. Founded'
    BY <2>2, <2>3, <2>4, <2>5 DEF Founded
  <2>7. MaintainReproduces'
    <3>1. CASE ~(written /\ result \in {"accepted", "human_review"})
      BY <1>8, <1>i, <3>1 DEF Generate, MaintainReproduces
    <3>2. ASSUME written, result \in {"accepted", "human_review"} PROVE MaintainReproduces'
      <4> DEFINE p == [result |-> result, by |-> cmd.by,
                       fix |-> result = "accepted" /\ cmd.category = "bug_fix",
                       triedOn |-> IF result = "accepted" THEN TriedOn ELSE "nothing"]
      <4>1. proposals' = [proposals EXCEPT ![cmd.target] = p]
        BY <1>8, <3>2 DEF Generate
      <4>2. result = "accepted" /\ cmd.by = "maintain" /\ cmd.category = "bug_fix"
              => TriedOn # "nothing"
        BY <1>8, <2>1 DEF Generate, Generating, ReproductionGatePasses, TriedOn
      <4>3. proposals \in [Targets -> {Nothing} \cup Proposed]
        BY <1>t DEF Typed
      <4>4. p.result = "accepted" /\ p.by = "maintain" /\ p.fix => p.triedOn # "nothing"
        BY <4>2
      <4> HIDE DEF p
      <4>5. \A t \in Targets : proposals'[t] = IF t = cmd.target THEN p ELSE proposals[t]
        BY <2>1, <4>1, <4>3
      <4> QED
        BY <1>i, <4>4, <4>5 DEF MaintainReproduces
    <3> QED
      BY <3>1, <3>2
  <2> QED
    BY <2>6, <2>7
<1>9. CASE Remember
  <2>1. cmd.question \in 1..MaxQuestions /\ memos \in [1..MaxQuestions -> Answers \cup {"none"}]
    BY <1>9, <1>t DEF Remember, Typed, CommandFits
  <2>2. memos'[cmd.question] = cmd.answer /\ UNCHANGED <<cmd, proposals>>
    BY <1>9, <2>1 DEF Remember
  <2> QED
    BY <1>9, <1>i, <2>2 DEF Remember, Founded, HasProposal, Stored, MaintainReproduces
<1>10. CASE Change \/ Commit
  BY <1>10, <1>i DEF Change, Commit, Founded, Generating, ByTable, HasProposal, Stored, MaintainReproduces
<1>11. ASSUME NEW t \in Targets, TakeProposal(t) PROVE Founded' /\ MaintainReproduces'
  <2>1. \A u \in Targets : proposals'[u] = Nothing \/ proposals'[u] = proposals[u]
    BY <1>11, <1>t DEF TakeProposal, Typed
  <2>2. MaintainReproduces'
    BY <1>i, <2>1 DEF MaintainReproduces, Nothing
  <2> QED
    BY <1>11, <1>i, <2>2 DEF TakeProposal, Founded, Generating, ByTable, HasProposal, Stored
<1>12. CASE UNCHANGED vars
  BY <1>12, <1>i DEF vars, Founded, Generating, ByTable, HasProposal, Stored, MaintainReproduces
<1> QED
  BY <1>1, <1>2, <1>3, <1>4, <1>5, <1>6, <1>7, <1>8, <1>9, <1>10, <1>11, <1>12 DEF Next

THEOREM InvariantHolds == Spec => []IInv
  BY InitIInv, NextIInv, PTL DEF Spec

-----------------------------------------------------------------------------
\* Rule R3: a test is written only where the rule table says so or a person said
\* so of this question, and asserts are released only by a person.
THEOREM RewritesAreOrdered == Spec => []OrderedRewrites
<1>1. IInv => OrderedRewrites
  <2> SUFFICES ASSUME IInv, pc = "generate" PROVE OrderedRewrites
    BY DEF OrderedRewrites
  <2>1. Generating /\ cmd.by \in {"maintain", "resolve"}
    BY DEF IInv, Founded, Typed, CommandFits
  <2> QED
    BY <2>1 DEF Generating, ByTable, OrderedRewrites
<1> QED
  BY <1>1, InvariantHolds, PTL

\* A bug fix test that maintain had accepted failed on a committed version of the
\* code, whatever files the change touches.
THEOREM MaintainHasReproduced == Spec => []MaintainReproduces
<1>1. IInv => MaintainReproduces
  BY DEF IInv
<1> QED
  BY <1>1, InvariantHolds, PTL

\* Only the last step of an answer deletes a question.
LEMMA OnlyDiscardDeletes ==
    ASSUME IInv, [Next]_vars, NEW q \in files \ files'
    PROVE  Discard /\ q.n = cmd.question
<1>1. CASE Discard
  BY <1>1 DEF Discard
<1>2. CASE ~Discard
  BY <1>2 DEF Next, vars, Maintain, CreateTest, SaveQuestion, LeaveAlone, EndMaintain, Skip,
     Resume, ResolveAs, Generate, Remember, Kill, Change, Commit, TakeProposal
<1> QED
  BY <1>1, <1>2

\* A question leaves the store only with its answer on file, in spite of kills.
THEOREM DecisionsStay == Spec => DecisionsAreKept
<1>1. IInv /\ [Next]_vars => [\A q \in files \ files' : memos[q.n] = cmd.answer]_vars
  <2> SUFFICES ASSUME IInv, [Next]_vars, NEW q \in files \ files'
               PROVE  memos[q.n] = cmd.answer
    OBVIOUS
  <2>1. Discard /\ q.n = cmd.question
    BY OnlyDiscardDeletes
  <2> QED
    BY <2>1 DEF Discard, IInv, Founded
<1> QED
  BY <1>1, InvariantHolds, PTL DEF Spec, DecisionsAreKept

\* --intended, --test-issue and --proceed delete a question only when the proposal
\* their generation made for its target is in the store, or when there was no test
\* file to make one of.
THEOREM QuestionsStay == Spec => KeptUntilProposed
<1>1. IInv /\ [Next]_vars => [DropsOnlyProposed]_vars
  <2> SUFFICES ASSUME IInv, [Next]_vars,
                      NEW q \in files \ files',
                      cmd.answer \in {"intended", "test-issue", "proceed"}
               PROVE  \/ ProposedFor(q)
                      \/ cmd.result \in {"accepted", "human_review"} /\ ~cmd.written
    BY DEF DropsOnlyProposed
  <2>1. Discard /\ q.n = cmd.question
    BY OnlyDiscardDeletes
  <2>2. HasProposal /\ cmd.by = "resolve" /\ cmd.written \in BOOLEAN
    BY <2>1 DEF Discard, IInv, Founded, Typed, CommandFits, Commands
  <2>3. q.target = cmd.target
    BY <2>1, <2>2 DEF IInv, Numbered
  <2> QED
    BY <2>2, <2>3 DEF HasProposal, Stored, ProposedFor
<1> QED
  BY <1>1, InvariantHolds, PTL DEF Spec, KeptUntilProposed
=============================================================================
