------------------------- MODULE Generation_proofs --------------------------
(***************************************************************************)
(* Proofs about generation runs and the proposal store, for any classes,   *)
(* files, contents and bounds.                                             *)
(***************************************************************************)
EXTENDS Generation, TLAPS

USE GenerationAssumption

Jobs ==
    [cls : Classes \cup {""}, engine : {"", "legacy", "deep"}, fast : BOOLEAN,
     auth : SUBSET Asserts, original : Contents, pending : Contents,
     base : {<<>>} \cup [Paths -> Contents], tries : Nat, writes : Nat, ok : BOOLEAN,
     tested : BOOLEAN, gated : BOOLEAN,
     result : {"", "accepted", "human_review", "not_passed"}, generated : Contents]

Typed ==
    /\ pc \in Running \cup {"idle", "save", "label", "drop java", "drop json"}
    /\ job \in Jobs
    /\ pc # "idle" => job.cls \in Classes
    /\ pc \in Running \cup {"save", "label"} => job.engine \in {"legacy", "deep"}
    /\ pc \in {"write", "gates"} => job.base \in [Paths -> Contents]
    /\ disk \in [Paths -> Contents] /\ human \in [Paths -> Contents]
    /\ java \in [Classes -> Contents]
    /\ meta \in [Classes -> {"none", "accepted", "needs_review"}]
    /\ mess \in [Paths -> {"", "kill", "escape", "stray"}]
    /\ facts \in [Classes -> SUBSET {"gated", "ran", "kept", "faithful"}]
    /\ torn \in [Classes -> BOOLEAN]

LEMMA NoJobTyped == NoJob \in Jobs
  BY DEF NoJob, Jobs, Contents, Absent

LEMMA InitTyped == Init => Typed
<1> SUFFICES ASSUME Init PROVE Typed
  OBVIOUS
<1>1. disk \in [Paths -> Contents] /\ human \in [Paths -> Contents]
  BY DEF Init, Contents
<1>2. /\ java \in [Classes -> Contents]
      /\ meta \in [Classes -> {"none", "accepted", "needs_review"}]
      /\ mess \in [Paths -> {"", "kill", "escape", "stray"}]
      /\ facts \in [Classes -> SUBSET {"gated", "ran", "kept", "faithful"}]
      /\ torn \in [Classes -> BOOLEAN]
  BY DEF Init, Contents, Absent
<1> QED
  BY <1>1, <1>2, NoJobTyped DEF Init, Typed, Running

LEMMA PendingTyped == ASSUME Typed, NEW c \in Classes PROVE Pending(c) \in Contents
  BY DEF Typed, Pending, Contents, Absent

LEMMA NextTyped == Typed /\ [Next]_vars => Typed'
<1> SUFFICES ASSUME Typed, [Next]_vars PROVE Typed'
  OBVIOUS
<1>j. job \in Jobs
  BY DEF Typed
<1>n. job.writes \in Nat /\ job.tries \in Nat
  BY <1>j DEF Jobs
<1>r. pc # "idle" => Restored \in [Paths -> Contents]
  BY <1>j DEF Typed, Restored, Jobs
<1>1. ASSUME NEW c \in Classes, NEW engine \in {"legacy", "deep"}, NEW fast \in BOOLEAN,
             NEW auth \in AuthChoices, Begin(c, engine, fast, auth)
      PROVE  Typed'
  <2>1. Pending(c) \in Contents /\ c \in Paths /\ disk[c] \in Contents /\ auth \in SUBSET Asserts
    BY PendingTyped DEF Typed
  <2>2. job' \in Jobs /\ job'.cls = c /\ job'.engine = engine
    BY <1>1, <2>1, NoJobTyped DEF Begin, Jobs
  <2>3. disk' \in [Paths -> Contents]
    BY <1>1, <2>1 DEF Begin, Typed
  <2> QED
    BY <1>1, <2>2, <2>3 DEF Begin, Typed, Running
<1>2. CASE GiveUp \/ Fail
  BY <1>2, <1>r, NoJobTyped DEF GiveUp, Fail, Return, Typed, Running
<1>3. CASE Escape
  BY <1>3, NoJobTyped DEF Escape, Return, Typed, Running
<1>4. CASE Snapshot
  <2>1. pc = "prepare" /\ disk \in [Paths -> Contents] /\ job.cls \in Classes
        /\ job.engine \in {"legacy", "deep"}
    BY <1>4 DEF Snapshot, Typed, Running
  <2>2. /\ job' \in Jobs /\ job'.cls = job.cls /\ job'.engine = job.engine /\ job'.base = disk
    BY <1>4, <1>j, <2>1 DEF Snapshot, Jobs
  <2> QED
    BY <1>4, <2>1, <2>2 DEF Snapshot, Typed, Running
<1>5. ASSUME NEW p \in Paths, NEW x \in AgentTexts, Write(p, x) PROVE Typed'
  <2>1. job' \in Jobs /\ job'.cls = job.cls /\ job'.engine = job.engine /\ job'.base = job.base
    <3>1. PICK w \in Nat : job' = [job EXCEPT !.writes = w, !.tested = FALSE]
      <4>1. job.writes + 1 \in Nat
        BY <1>n
      <4> QED
        BY <1>5, <4>1, Zenon DEF Write
    <3> QED
      BY <1>j, <3>1 DEF Jobs
  <2>2. disk' \in [Paths -> Contents] /\ mess' \in [Paths -> {"", "kill", "escape", "stray"}]
    BY <1>5 DEF Write, Typed, Contents
  <2> QED
    BY <1>5, <2>1, <2>2 DEF Write, Typed, Running
<1>6. ASSUME NEW own \in BOOLEAN, NEW passes \in BOOLEAN, RunTests(own, passes) PROVE Typed'
  <2>1. job' \in Jobs /\ job'.cls = job.cls /\ job'.engine = job.engine /\ job'.base = job.base
    BY <1>6, <1>j DEF RunTests, Jobs
  <2> QED
    BY <1>6, <2>1 DEF RunTests, Typed, Running
<1>7. CASE WriterPasses
  BY <1>7 DEF WriterPasses, Typed, Running
<1>8. CASE WriterReports
  <2>1. job' \in Jobs /\ job'.cls = job.cls /\ job'.engine = job.engine
    BY <1>8, <1>j DEF WriterReports, Jobs
  <2> QED
    BY <1>8, <2>1 DEF WriterReports, Typed, Running
<1>9. ASSUME NEW rest \in BOOLEAN, RunGates(rest) PROVE Typed'
  <2>1. AssertsKept \in BOOLEAN /\ ScopeKept \in BOOLEAN /\ ExecutedByGates(rest) \in BOOLEAN
    BY <1>j DEF AssertsKept, ScopeKept, ExecutedByGates, Jobs
  <2>2. job' \in Jobs /\ job'.cls = job.cls /\ job'.engine = job.engine /\ job'.base = job.base
    <3> DEFINE passes == AssertsKept /\ ScopeKept /\ rest
               ran == job.tested \/ ExecutedByGates(rest)
    <3>a. passes \in BOOLEAN /\ ran \in BOOLEAN
      BY <2>1
    <3>1. CASE job' = [job EXCEPT !.tested = ran, !.gated = passes,
                         !.result = IF passes THEN "accepted" ELSE "human_review"]
      <4> HIDE DEF passes, ran
      <4> QED
        BY <1>j, <3>1, <3>a DEF Jobs
    <3>2. CASE job' = [job EXCEPT !.tries = job.tries + 1, !.writes = 0, !.ok = FALSE]
      <4>1. PICK n \in Nat : job' = [job EXCEPT !.tries = n, !.writes = 0, !.ok = FALSE]
        <5>1. job.tries + 1 \in Nat
          BY <1>n
        <5> QED
          BY <3>2, <5>1, Zenon
      <4> QED
        BY <1>j, <4>1 DEF Jobs
    <3> QED
      BY <1>9, <3>1, <3>2, Zenon DEF RunGates
  <2> QED
    BY <1>9, <2>2 DEF RunGates, Typed, Running
<1>10. CASE Finish
  <2>1. pc = "finish" /\ job.cls \in Classes /\ job.engine \in {"legacy", "deep"}
    BY <1>10 DEF Finish, Typed, Running
  <2>2. CASE job' = NoJob /\ pc' = "idle"
    BY <1>10, <1>r, <2>1, <2>2, NoJobTyped DEF Finish, Typed, Running
  <2>3. ASSUME job' = [job EXCEPT !.generated = disk[job.cls]], pc' = "save", disk' = Restored
        PROVE  Typed'
    <3>1. disk[job.cls] \in Contents
      BY <2>1 DEF Typed
    <3>2. job' \in Jobs /\ job'.cls = job.cls /\ job'.engine = job.engine
      BY <1>j, <2>3, <3>1 DEF Jobs
    <3> QED
      BY <1>10, <1>r, <2>1, <2>3, <3>2 DEF Finish, Typed, Running
  <2> QED
    BY <1>10, <2>2, <2>3 DEF Finish, Return
<1>11. CASE SaveJava
  <2>1. job.generated \in Contents /\ FactsOf(job) \subseteq {"gated", "ran", "kept", "faithful"}
    BY <1>j DEF Jobs, FactsOf
  <2> QED
    BY <1>11, <2>1 DEF SaveJava, Typed, Running
<1>12. CASE SaveJson \/ DropJson
  BY <1>12, NoJobTyped DEF SaveJson, LabelOf, DropJson, Return, Typed, Running
<1>13. CASE DropJava
  BY <1>13 DEF DropJava, Typed, Running, Contents, Absent
<1>14. CASE Kill
  BY <1>14, NoJobTyped DEF Kill, Return, Typed, Running
<1>15. ASSUME NEW p \in Paths, NEW x \in HumanTexts, Edit(p, x) PROVE Typed'
  BY <1>15 DEF Edit, Typed, Running, Contents
<1>16. ASSUME NEW c \in Classes, Apply(c) \/ Discard(c) PROVE Typed'
  <2>1. job' \in Jobs /\ job'.cls = c
    BY <1>16, NoJobTyped DEF Apply, Discard, Jobs
  <2>2. java[c] \in Contents /\ c \in Paths
    BY DEF Typed
  <2>3. /\ disk' \in [Paths -> Contents] /\ human' \in [Paths -> Contents]
        /\ mess' \in [Paths -> {"", "kill", "escape", "stray"}]
    <3>1. CASE Apply(c)
      BY <2>2, <3>1 DEF Apply, Typed
    <3>2. CASE Discard(c)
      BY <3>2 DEF Discard, Typed
    <3> QED
      BY <1>16, <3>1, <3>2
  <2>4. pc' = "drop java" /\ UNCHANGED <<java, meta, facts, torn>>
    BY <1>16 DEF Apply, Discard
  <2> QED
    BY <2>1, <2>3, <2>4 DEF Typed, Running
<1>17. CASE UNCHANGED vars
  BY <1>17 DEF vars, Typed
<1> QED
  BY <1>1, <1>2, <1>3, <1>4, <1>5, <1>6, <1>7, <1>8, <1>9, <1>10, <1>11, <1>12, <1>13,
     <1>14, <1>15, <1>16, <1>17 DEF Next, Progress

\* Counters and local variables in addition to what the other proofs need.
LEMMA IdleOrFaulty ==
    /\ Init => (pc = "idle" => job = NoJob) /\ faults \in 0..MaxFaults
    /\ (pc = "idle" => job = NoJob) /\ faults \in 0..MaxFaults /\ [Next]_vars
         => (pc' = "idle" => job' = NoJob) /\ faults' \in 0..MaxFaults
<1>1. Init => (pc = "idle" => job = NoJob) /\ faults \in 0..MaxFaults
  <2>1. Init => job = NoJob /\ faults = 0
    BY Zenon DEF Init
  <2>2. 0 \in 0..MaxFaults
    OBVIOUS
  <2> QED
    BY <2>1, <2>2, Zenon
<1>2. ASSUME faults \in 0..MaxFaults, [Next]_vars PROVE faults' \in 0..MaxFaults
  <2>1. UNCHANGED faults \/ Fault
    BY <1>2 DEF Next, Progress, vars, Begin, GiveUp, Escape, Snapshot, Write, RunTests,
       WriterPasses, WriterReports, RunGates, Fail, Finish, SaveJava, SaveJson, Edit, Apply,
       Discard, DropJava, DropJson, Kill
  <2> QED
    BY <1>2, <2>1 DEF Fault
<1>3. ASSUME pc = "idle" => job = NoJob, [Next]_vars, pc' = "idle" PROVE job' = NoJob
  BY <1>3 DEF Next, Progress, vars, Begin, GiveUp, Escape, Snapshot, Write, RunTests,
     WriterPasses, WriterReports, RunGates, Fail, Finish, SaveJava, SaveJson, Edit, Apply,
     Discard, DropJava, DropJson, Kill, Return
<1> QED
  BY <1>1, <1>2, <1>3

\* The variables keep their types; whenever a command is in progress it is about a
\* class of the project, and otherwise there are no local variables.
THEOREM TypeCorrect == Spec => []TypeOK
<1> DEFINE I == (pc = "idle" => job = NoJob) /\ faults \in 0..MaxFaults
<1>1. Spec => []Typed
  BY InitTyped, NextTyped, PTL DEF Spec
<1>2. Init => I
  BY IdleOrFaulty
<1>3. I /\ [Next]_vars => I'
  BY IdleOrFaulty
<1>4. Typed /\ I => TypeOK
  BY DEF Typed, TypeOK, Running
<1> HIDE DEF I
<1> QED
  BY <1>1, <1>2, <1>3, <1>4, PTL DEF Spec

-----------------------------------------------------------------------------
(***************************************************************************)
(* The source tree.  While a run is in progress only its own file may      *)
(* differ from what the developer left, and the text that is put back does *)
(* not, unless an earlier fault left a mark.  The run that ends without    *)
(* putting back does so on a missing file that was missing before.         *)
(***************************************************************************)
Marked(p, text) == text # human[p] => mess[p] # ""

Traces ==
    /\ \A p \in Paths : (pc \in Running => p # job.cls) => Marked(p, disk[p])
    /\ pc \in Running =>
         /\ Marked(job.cls, job.original)
         /\ disk[job.cls] = job.original \/ disk[job.cls] # Absent

LEMMA InitTraces == Init => Traces
  BY DEF Init, Traces, Running, Marked

\* A run that ends by putting the original text back leaves no unmarked trace.
LEMMA RestoredLeavesNone ==
    ASSUME Typed, Traces, pc \in Running, disk' = Restored, pc' \notin Running,
           UNCHANGED <<human, mess>>
    PROVE  Traces'
<1>1. disk \in [Paths -> Contents] /\ job.cls \in Paths
  BY DEF Typed, Running
<1>2. \A p \in Paths : disk'[p] = IF p = job.cls THEN job.original ELSE disk[p]
  BY <1>1 DEF Restored
<1> QED
  BY <1>2 DEF Traces, Marked

LEMMA NextTraces == Typed /\ Typed' /\ Traces /\ [Next]_vars => Traces'
<1> SUFFICES ASSUME Typed, Typed', Traces, [Next]_vars PROVE Traces'
  OBVIOUS
<1>j. job \in Jobs /\ disk \in [Paths -> Contents] /\ human \in [Paths -> Contents]
      /\ mess \in [Paths -> {"", "kill", "escape", "stray"}]
  BY DEF Typed
<1>c. pc # "idle" => job.cls \in Paths
  BY DEF Typed
<1>1. ASSUME NEW c \in Classes, NEW engine \in {"legacy", "deep"}, NEW fast \in BOOLEAN,
             NEW auth \in AuthChoices, Begin(c, engine, fast, auth)
      PROVE  Traces'
  <2>1. job'.cls = c /\ job'.original = disk[c]
    BY <1>1, NoJobTyped DEF Begin, Jobs
  <2>2. /\ pc = "idle" /\ pc' = "prepare" /\ UNCHANGED <<human, mess>>
        /\ \A p \in Paths : disk'[p] = IF p = c /\ Pending(c) # Absent THEN Pending(c) ELSE disk[p]
    BY <1>1, <1>j DEF Begin
  <2> QED
    BY <2>1, <2>2 DEF Traces, Running, Marked
<1>2. CASE GiveUp \/ Fail
  BY <1>2, RestoredLeavesNone DEF GiveUp, Fail, Return, Running
<1>3. CASE Escape
  <2>1. \A p \in Paths : mess'[p] = IF p = job.cls /\ disk[p] # human[p] THEN "escape" ELSE mess[p]
    BY <1>3, <1>j, <1>c DEF Escape
  <2>2. pc \in Running /\ pc' = "idle" /\ UNCHANGED <<disk, human>>
    BY <1>3 DEF Escape, Return, Running
  <2> QED
    BY <2>1, <2>2 DEF Traces, Running, Marked
<1>4. CASE Snapshot
  <2>1. job'.cls = job.cls /\ job'.original = job.original
    BY <1>4, <1>j DEF Snapshot, Jobs
  <2> QED
    BY <1>4, <2>1 DEF Snapshot, Traces, Running, Marked
<1>5. ASSUME NEW p \in Paths, NEW x \in AgentTexts, Write(p, x) PROVE Traces'
  <2>1. job'.cls = job.cls /\ job'.original = job.original
    BY <1>5, <1>j DEF Write, Jobs
  <2>2. /\ pc = "write" /\ pc' = "write" /\ human' = human /\ x # Absent
        /\ \A q \in Paths : /\ disk'[q] = IF q = p THEN x ELSE disk[q]
                            /\ mess'[q] = IF q = p /\ p # job.cls THEN "stray" ELSE mess[q]
    BY <1>5, <1>j DEF Write, Absent
  <2> QED
    BY <1>c, <2>1, <2>2 DEF Traces, Running, Marked
<1>6. ASSUME NEW own \in BOOLEAN, NEW passes \in BOOLEAN, RunTests(own, passes) PROVE Traces'
  <2>1. job'.cls = job.cls /\ job'.original = job.original
    BY <1>6, <1>j DEF RunTests, Jobs
  <2> QED
    BY <1>6, <2>1 DEF RunTests, Traces, Running, Marked
<1>7. CASE WriterPasses
  BY <1>7 DEF WriterPasses, Traces, Running, Marked
<1>8. CASE WriterReports
  <2>1. job'.cls = job.cls /\ job'.original = job.original
    BY <1>8, <1>j DEF WriterReports, Jobs
  <2> QED
    BY <1>8, <2>1 DEF WriterReports, Traces, Running, Marked
<1>9. ASSUME NEW rest \in BOOLEAN, RunGates(rest) PROVE Traces'
  <2>1. job'.cls = job.cls /\ job'.original = job.original
    BY <1>9, <1>j DEF RunGates, Jobs
  <2> QED
    BY <1>9, <2>1 DEF RunGates, Traces, Running, Marked
<1>10. CASE Finish
  <2>1. CASE disk' = Restored
    BY <1>10, <2>1, RestoredLeavesNone DEF Finish, Return, Running
  <2>2. CASE disk' = disk /\ disk[job.cls] = Absent /\ Return
    BY <1>10, <1>c, <2>2 DEF Finish, Return, Traces, Running, Marked
  <2> QED
    BY <1>10, <2>1, <2>2 DEF Finish
<1>11. CASE SaveJava \/ SaveJson \/ DropJava \/ DropJson
  BY <1>11 DEF SaveJava, SaveJson, DropJava, DropJson, Return, Traces, Running, Marked
<1>12. CASE Kill
  <2>1. \A p \in Paths : mess'[p] = IF disk[p] # human[p] /\ mess[p] = "" THEN "kill" ELSE mess[p]
    BY <1>12 DEF Kill
  <2>2. pc' = "idle" /\ UNCHANGED <<disk, human>>
    BY <1>12 DEF Kill, Return
  <2> QED
    BY <2>1, <2>2 DEF Traces, Running, Marked
<1>13. ASSUME NEW p \in Paths, NEW x \in HumanTexts, Edit(p, x) PROVE Traces'
  <2>1. /\ pc = "idle" /\ pc' = "idle"
        /\ \A q \in Paths : /\ disk'[q] = IF q = p THEN x ELSE disk[q]
                            /\ human'[q] = IF q = p THEN x ELSE human[q]
                            /\ mess'[q] = IF q = p THEN "" ELSE mess[q]
    BY <1>13, <1>j DEF Edit
  <2> QED
    BY <2>1 DEF Traces, Running, Marked
<1>14. ASSUME NEW c \in Classes, Apply(c) PROVE Traces'
  <2>1. /\ pc = "idle" /\ pc' = "drop java"
        /\ \A q \in Paths : /\ disk'[q] = IF q = c THEN java[c] ELSE disk[q]
                            /\ human'[q] = IF q = c THEN java[c] ELSE human[q]
                            /\ mess'[q] = IF q = c THEN "" ELSE mess[q]
    BY <1>14, <1>j DEF Apply
  <2> QED
    BY <2>1 DEF Traces, Running, Marked
<1>15. ASSUME NEW c \in Classes, Discard(c) PROVE Traces'
  BY <1>15 DEF Discard, Traces, Running, Marked
<1>16. CASE UNCHANGED vars
  BY <1>16 DEF vars, Traces, Running, Marked
<1> QED
  BY <1>1, <1>2, <1>3, <1>4, <1>5, <1>6, <1>7, <1>8, <1>9, <1>10, <1>11, <1>12, <1>13,
     <1>14, <1>15, <1>16 DEF Next, Progress

\* Between commands a test file that is not as the developer left it has been
\* marked: by a kill, by an exception outside the "try" or by a stray write.
THEOREM SourcesAreClean == Spec => []OnlyFaultsLeaveTraces
<1>1. Traces => OnlyFaultsLeaveTraces
  BY DEF Traces, OnlyFaultsLeaveTraces, Running, Marked
<1>2. Spec => [](Typed /\ Traces)
  BY InitTyped, NextTyped, InitTraces, NextTraces, PTL DEF Spec
<1> QED
  BY <1>1, <1>2, PTL

-----------------------------------------------------------------------------
(***************************************************************************)
(* The label of a proposal.  From the gates to the two files of the        *)
(* proposal the result "accepted" goes with what the gates saw: the code   *)
(* as it is on disk, then the same code in memory, then in the store.      *)
(***************************************************************************)
Basis == IF job.pending # Absent THEN job.pending ELSE job.original

HasRun == job.tested \/ (job.engine = "deep" /\ job.fast)

Earned(code) ==
    job.result = "accepted" => /\ job.gated /\ HasRun
                               /\ Basis \ job.auth \subseteq code

Certified(c) == {"gated", "ran", "kept"} \subseteq facts[c]

Labels ==
    /\ pc \in Running \cup {"save"} => job.pending = Pending(job.cls)
    /\ pc = "prepare" => disk[job.cls] = Basis
    /\ pc \in {"write", "gates"} => job.base[job.cls] = Basis
    /\ pc = "gates" /\ job.engine = "legacy" => job.tested
    /\ pc = "finish" => Earned(disk[job.cls])
    /\ pc = "save" => Earned(job.generated)
    /\ pc = "label" /\ job.result = "accepted" => Certified(job.cls)
    /\ \A c \in Classes : Accepted(c) => Certified(c)

LEMMA InitLabels == Init => Labels
  BY DEF Init, Labels, Running, Accepted

\* What a passing assert gate says of the file under test.
LEMMA GateKeeps ==
    ASSUME Typed, Labels, pc = "gates", AssertsKept
    PROVE  Basis \ job.auth \subseteq disk[job.cls]
<1>1. job.cls \in Paths /\ job.base[job.cls] = Basis
  BY DEF Typed, Labels
<1> QED
  BY <1>1 DEF AssertsKept, Absent

\* A step that leaves the store alone and saves nothing certifies nothing new.
LEMMA StoreUntouched ==
    ASSUME Labels, UNCHANGED <<java, meta, facts, torn>>,
           pc # "label", pc' # "label"
    PROVE  \A c \in Classes : Accepted(c)' => Certified(c)'
  BY DEF Labels, Accepted, Certified

LEMMA NextLabels == Typed /\ Typed' /\ Labels /\ [Next]_vars => Labels'
<1> SUFFICES ASSUME Typed, Typed', Labels, [Next]_vars PROVE Labels'
  OBVIOUS
<1>j. job \in Jobs /\ disk \in [Paths -> Contents]
  BY DEF Typed
<1>c. pc # "idle" => job.cls \in Classes /\ job.cls \in Paths
  BY DEF Typed
<1>1. ASSUME NEW c \in Classes, NEW engine \in {"legacy", "deep"}, NEW fast \in BOOLEAN,
             NEW auth \in AuthChoices, Begin(c, engine, fast, auth)
      PROVE  Labels'
  <2>1. job'.cls = c /\ job'.original = disk[c] /\ job'.pending = Pending(c)
    BY <1>1, NoJobTyped DEF Begin, Jobs
  <2>2. disk'[c] = IF Pending(c) # Absent THEN Pending(c) ELSE disk[c]
    BY <1>1, <1>j DEF Begin
  <2>3. pc = "idle" /\ pc' = "prepare" /\ UNCHANGED <<java, meta, facts, torn>>
    BY <1>1 DEF Begin
  <2> QED
    BY <2>1, <2>2, <2>3, StoreUntouched DEF Labels, Running, Basis, Pending
<1>2. ASSUME pc' = "idle", pc # "label", UNCHANGED <<java, meta, facts, torn>> PROVE Labels'
  BY <1>2, StoreUntouched DEF Labels, Running
<1>3. CASE GiveUp \/ Fail \/ Escape
  BY <1>2, <1>3 DEF GiveUp, Fail, Escape, Return
<1>4. CASE Snapshot
  <2>1. /\ job'.cls = job.cls /\ job'.original = job.original /\ job'.pending = job.pending
        /\ job'.base = disk /\ job'.result # "accepted"
    BY <1>4, <1>j DEF Snapshot, Jobs
  <2>2. pc = "prepare" /\ pc' \in {"finish", "write"} /\ UNCHANGED <<disk, java, meta, facts, torn>>
    BY <1>4 DEF Snapshot
  <2> QED
    BY <2>1, <2>2, StoreUntouched DEF Labels, Running, Basis, Pending, Earned
<1>5. ASSUME pc = "write", pc' = "write", UNCHANGED <<java, meta, facts, torn>>,
             job'.cls = job.cls, job'.original = job.original, job'.pending = job.pending,
             job'.base = job.base
      PROVE  Labels'
  BY <1>5, StoreUntouched DEF Labels, Running, Basis, Pending
<1>6. ASSUME NEW p \in Paths, NEW x \in AgentTexts, Write(p, x) PROVE Labels'
  <2>1. /\ job'.cls = job.cls /\ job'.original = job.original /\ job'.pending = job.pending
        /\ job'.base = job.base
    BY <1>6, <1>j DEF Write, Jobs
  <2> QED
    BY <1>5, <1>6, <2>1 DEF Write
<1>7. ASSUME NEW own \in BOOLEAN, NEW passes \in BOOLEAN, RunTests(own, passes) PROVE Labels'
  <2>1. /\ job'.cls = job.cls /\ job'.original = job.original /\ job'.pending = job.pending
        /\ job'.base = job.base
    BY <1>7, <1>j DEF RunTests, Jobs
  <2> QED
    BY <1>5, <1>7, <2>1 DEF RunTests
<1>8. CASE WriterPasses
  <2>1. /\ pc = "write" /\ pc' = "gates" /\ UNCHANGED <<job, java, meta, facts, torn>>
        /\ job.engine = "legacy" => job.tested
    BY <1>8 DEF WriterPasses
  <2> QED
    BY <2>1, StoreUntouched DEF Labels, Running, Basis, Pending
<1>9. CASE WriterReports
  <2>1. /\ job'.cls = job.cls /\ job'.pending = job.pending /\ job'.result = "not_passed"
    BY <1>9, <1>j DEF WriterReports, Jobs
  <2>2. pc = "write" /\ pc' = "finish" /\ UNCHANGED <<java, meta, facts, torn>>
    BY <1>9 DEF WriterReports
  <2> QED
    BY <2>1, <2>2, StoreUntouched DEF Labels, Running, Pending, Earned
<1>10. ASSUME NEW rest \in BOOLEAN, RunGates(rest) PROVE Labels'
  <2>1. pc = "gates" /\ UNCHANGED <<disk, java, meta, facts, torn>>
    BY <1>10 DEF RunGates
  <2>2. /\ job'.cls = job.cls /\ job'.original = job.original /\ job'.pending = job.pending
        /\ job'.base = job.base /\ job'.auth = job.auth /\ job'.engine = job.engine
        /\ job'.fast = job.fast
    BY <1>10, <1>j DEF RunGates, Jobs
  <2>3. ASSUME pc' = "finish", job'.result = "accepted"
        PROVE  AssertsKept /\ job'.gated /\ HasRun'
    <3>1. /\ job' = [job EXCEPT !.tested = @ \/ ExecutedByGates(rest),
                       !.gated = AssertsKept /\ ScopeKept /\ rest,
                       !.result = IF AssertsKept /\ ScopeKept /\ rest
                                  THEN "accepted" ELSE "human_review"]
      BY <1>10, <2>3 DEF RunGates
    <3>2. job'.result = IF AssertsKept /\ ScopeKept /\ rest THEN "accepted" ELSE "human_review"
      BY <1>j, <3>1 DEF Jobs
    <3>3. AssertsKept /\ ScopeKept /\ rest
      BY <2>3, <3>2
    <3>4. job'.gated /\ job'.tested = (job.tested \/ ExecutedByGates(rest))
      BY <1>j, <3>1, <3>3 DEF Jobs
    <3>5. job.engine = "legacy" => job.tested
      BY <2>1 DEF Labels
    <3>6. job.engine \in {"legacy", "deep"} /\ job.fast \in BOOLEAN
      BY <1>j, <2>1 DEF Typed, Jobs, Running
    <3>7. CASE job.fast
      BY <2>2, <3>3, <3>4, <3>5, <3>6, <3>7 DEF HasRun
    <3>8. CASE ~job.fast
      BY <3>3, <3>4, <3>8 DEF HasRun, ExecutedByGates
    <3> QED
      BY <3>3, <3>4, <3>6, <3>7, <3>8
  <2>4. pc' \in {"finish", "write"}
    BY <1>10 DEF RunGates
  <2>5. pc' = "finish" => Earned(disk[job.cls])'
    BY <2>1, <2>2, <2>3, GateKeeps DEF Earned, Basis
  <2> QED
    BY <2>1, <2>2, <2>4, <2>5, StoreUntouched DEF Labels, Running, Basis, Pending
<1>11. CASE Finish
  <2>1. CASE Return
    BY <1>2, <1>11, <2>1 DEF Finish, Return
  <2>2. ASSUME job' = [job EXCEPT !.generated = disk[job.cls]], pc' = "save" PROVE Labels'
    <3>1. /\ job'.cls = job.cls /\ job'.original = job.original /\ job'.pending = job.pending
          /\ job'.auth = job.auth /\ job'.engine = job.engine /\ job'.fast = job.fast
          /\ job'.tested = job.tested /\ job'.gated = job.gated /\ job'.result = job.result
          /\ job'.generated = disk[job.cls]
      BY <1>j, <2>2 DEF Jobs
    <3>2. pc = "finish" /\ UNCHANGED <<java, meta, facts, torn>>
      BY <1>11 DEF Finish
    <3> QED
      BY <2>2, <3>1, <3>2, StoreUntouched
      DEF Labels, Running, Basis, Pending, Earned, HasRun
  <2> QED
    BY <1>11, <2>1, <2>2 DEF Finish
<1>12. CASE SaveJava
  <2>1. /\ pc = "save" /\ pc' = "label" /\ UNCHANGED <<job, meta, torn>>
        /\ \A c \in Classes : c # job.cls => java'[c] = java[c] /\ facts'[c] = facts[c]
        /\ facts'[job.cls] = IF job.result = "accepted" THEN FactsOf(job) ELSE {}
    BY <1>12, <1>c DEF SaveJava, Typed
  <2>2. Replaced(job.cls, job.original) = Basis
    BY <2>1 DEF Labels, Basis, Replaced, Pending
  <2>3. job.result = "accepted" => {"gated", "ran", "kept"} \subseteq FactsOf(job)
    BY <2>1, <2>2 DEF Labels, Earned, HasRun, FactsOf
  <2> QED
    BY <2>1, <2>3 DEF Labels, Running, Accepted, Certified
<1>13. CASE SaveJson
  <2>1. /\ pc = "label" /\ pc' = "idle" /\ UNCHANGED <<java, facts>>
        /\ \A c \in Classes : c # job.cls => meta'[c] = meta[c] /\ torn'[c] = torn[c]
        /\ meta'[job.cls] = "accepted" => job.result = "accepted"
    BY <1>13, <1>c DEF SaveJson, LabelOf, Return, Typed
  <2> QED
    BY <2>1 DEF Labels, Running, Accepted, Certified
<1>14. CASE DropJava
  <2>1. /\ pc = "drop java" /\ pc' = "drop json" /\ UNCHANGED <<job, meta, torn>>
        /\ java'[job.cls] = Absent
        /\ \A c \in Classes : c # job.cls => java'[c] = java[c] /\ facts'[c] = facts[c]
    BY <1>14, <1>c DEF DropJava, Typed
  <2> QED
    BY <2>1 DEF Labels, Running, Accepted, Certified
<1>15. CASE DropJson
  <2>1. /\ pc = "drop json" /\ pc' = "idle" /\ UNCHANGED <<java, facts>>
        /\ meta'[job.cls] = "none"
        /\ \A c \in Classes : c # job.cls => meta'[c] = meta[c] /\ torn'[c] = torn[c]
    BY <1>15, <1>c DEF DropJson, Return, Typed
  <2> QED
    BY <2>1 DEF Labels, Running, Accepted, Certified
<1>16. CASE Kill
  <2>1. CASE pc # "label"
    BY <1>2, <1>16, <2>1 DEF Kill, Return
  <2>2. CASE pc = "label"
    <3>1. /\ pc' = "idle" /\ UNCHANGED <<java, meta, facts>> /\ torn'[job.cls] = TRUE
          /\ \A c \in Classes : c # job.cls => torn'[c] = torn[c]
      BY <1>16, <1>c, <2>2 DEF Kill, Return, Typed
    <3> QED
      BY <3>1 DEF Labels, Running, Accepted, Certified
  <2> QED
    BY <2>1, <2>2
<1>17. ASSUME NEW p \in Paths, NEW x \in HumanTexts, Edit(p, x) PROVE Labels'
  BY <1>2, <1>17 DEF Edit
<1>18. ASSUME NEW c \in Classes, Apply(c) \/ Discard(c) PROVE Labels'
  <2>1. pc = "idle" /\ pc' = "drop java" /\ UNCHANGED <<java, meta, facts, torn>>
    BY <1>18 DEF Apply, Discard
  <2> QED
    BY <2>1, StoreUntouched DEF Labels, Running
<1>19. CASE UNCHANGED vars
  BY <1>19 DEF vars, Labels, Basis, Pending, Earned, HasRun, Accepted, Certified
<1> QED
  BY <1>1, <1>3, <1>4, <1>6, <1>7, <1>8, <1>9, <1>10, <1>11, <1>12, <1>13, <1>14,
     <1>15, <1>16, <1>17, <1>18, <1>19 DEF Next, Progress

LEMMA LabelsHold == Spec => []Labels
<1>1. Spec => []Typed
  BY InitTyped, NextTyped, PTL DEF Spec
<1> QED
  BY <1>1, InitLabels, NextLabels, PTL DEF Spec

\* A proposal labelled accepted is the very code all gates passed, unless the
\* process died between its two files.
THEOREM LabelsAreEarned == Spec => []LabelIsEarned
<1>1. Labels => LabelIsEarned
  BY DEF Labels, LabelIsEarned, Certified
<1> QED
  BY <1>1, LabelsHold, PTL

\* An accepted proposal was executed and passed, but for the deep engine with
\* --fast, whose last write nothing executes.
THEOREM AcceptedHasRun == Spec => []AcceptedRan
<1>1. Labels => AcceptedRan
  BY DEF Labels, AcceptedRan, Certified
<1> QED
  BY <1>1, LabelsHold, PTL

\* No accepted proposal has lost an assert of the proposal it was built on, or of
\* the file if there was none, that nobody released.
THEOREM PendingIsKept == Spec => []PendingKept
<1>1. Labels => PendingKept
  BY DEF Labels, PendingKept, Certified
<1> QED
  BY <1>1, LabelsHold, PTL

-----------------------------------------------------------------------------
(***************************************************************************)
(* The developer's view.  What the mapping to DeveloperPromise needs to    *)
(* know of a command: what it may release, that the file is put back when  *)
(* a proposal is saved, and which of the two files of a proposal is there. *)
(***************************************************************************)
Saved ==
    /\ pc = "idle" => job = NoJob
    /\ pc \in Running \cup {"save", "label"} => job.auth \in AuthChoices
    /\ pc \in {"drop java", "drop json"} => job.auth = {}
    /\ pc = "save" => disk[job.cls] = job.original /\ job.generated # Absent
    /\ pc = "label" => java[job.cls] # Absent
    /\ pc = "drop json" => java[job.cls] = Absent

LEMMA InitSaved == Init => Saved
  BY DEF Init, Saved, Running

\* A turn of the run, from Begin on, leaves what was released.
LEMMA ReleasedStays ==
    ASSUME Saved, pc \in Running, pc' \in Running, job'.auth = job.auth
    PROVE  Saved'
  BY DEF Saved, Running

LEMMA NextSaved == Typed /\ Saved /\ [Next]_vars => Saved'
<1> SUFFICES ASSUME Typed, Saved, [Next]_vars PROVE Saved'
  OBVIOUS
<1>j. job \in Jobs /\ disk \in [Paths -> Contents] /\ java \in [Classes -> Contents]
  BY DEF Typed
<1>c. pc # "idle" => job.cls \in Classes /\ job.cls \in Paths
  BY DEF Typed
<1>1. ASSUME NEW c \in Classes, NEW engine \in {"legacy", "deep"}, NEW fast \in BOOLEAN,
             NEW auth \in AuthChoices, Begin(c, engine, fast, auth)
      PROVE  Saved'
  <2>1. job'.auth = auth /\ pc' = "prepare"
    BY <1>1, NoJobTyped DEF Begin, Jobs
  <2> QED
    BY <2>1 DEF Saved, Running
<1>2. CASE Return
  BY <1>2 DEF Return, Saved, Running
<1>3. CASE GiveUp \/ Fail \/ Escape \/ Kill \/ SaveJson \/ DropJson
  BY <1>2, <1>3 DEF GiveUp, Fail, Escape, Kill, SaveJson, DropJson
<1>4. CASE Snapshot
  <2>1. pc = "prepare" /\ pc' \in {"write", "finish"} /\ job'.auth = job.auth
    BY <1>4, <1>j DEF Snapshot, Jobs
  <2> QED
    BY <2>1, ReleasedStays DEF Running
<1>5. ASSUME NEW p \in Paths, NEW x \in AgentTexts, Write(p, x) PROVE Saved'
  <2>1. pc = "write" /\ pc' = "write" /\ job'.auth = job.auth
    BY <1>5, <1>j DEF Write, Jobs
  <2> QED
    BY <2>1, ReleasedStays DEF Running
<1>6. ASSUME NEW own \in BOOLEAN, NEW passes \in BOOLEAN, RunTests(own, passes) PROVE Saved'
  <2>1. pc = "write" /\ pc' = "write" /\ job'.auth = job.auth
    BY <1>6, <1>j DEF RunTests, Jobs
  <2> QED
    BY <2>1, ReleasedStays DEF Running
<1>7. CASE WriterPasses
  BY <1>7, ReleasedStays DEF WriterPasses, Running
<1>8. CASE WriterReports
  <2>1. pc = "write" /\ pc' = "finish" /\ job'.auth = job.auth
    BY <1>8, <1>j DEF WriterReports, Jobs
  <2> QED
    BY <2>1, ReleasedStays DEF Running
<1>9. ASSUME NEW rest \in BOOLEAN, RunGates(rest) PROVE Saved'
  <2>1. pc = "gates" /\ pc' \in {"write", "finish"} /\ job'.auth = job.auth
    BY <1>9, <1>j DEF RunGates, Jobs
  <2> QED
    BY <2>1, ReleasedStays DEF Running
<1>10. CASE Finish
  <2>1. CASE Return
    BY <1>2, <2>1
  <2>2. ASSUME job' = [job EXCEPT !.generated = disk[job.cls]], disk[job.cls] # Absent,
               disk' = Restored, pc' = "save", pc = "finish"
        PROVE  Saved'
    <3>1. /\ job'.cls = job.cls /\ job'.original = job.original /\ job'.auth = job.auth
          /\ job'.generated # Absent
      BY <1>j, <2>2 DEF Jobs
    <3>2. disk'[job.cls] = job.original
      BY <1>c, <1>j, <2>2 DEF Restored
    <3> QED
      BY <2>2, <3>1, <3>2 DEF Saved, Running
  <2> QED
    BY <1>10, <2>1, <2>2 DEF Finish
<1>11. CASE SaveJava
  <2>1. pc = "save" /\ pc' = "label" /\ job' = job /\ java'[job.cls] = job.generated
    BY <1>11, <1>c, <1>j DEF SaveJava
  <2> QED
    BY <2>1 DEF Saved, Running
<1>12. CASE DropJava
  <2>1. pc = "drop java" /\ pc' = "drop json" /\ job' = job /\ java'[job.cls] = Absent
    BY <1>12, <1>c, <1>j DEF DropJava
  <2> QED
    BY <2>1 DEF Saved, Running
<1>13. ASSUME NEW p \in Paths, NEW x \in HumanTexts, Edit(p, x) PROVE Saved'
  BY <1>13 DEF Edit, Saved, Running
<1>14. ASSUME NEW c \in Classes, Apply(c) \/ Discard(c) PROVE Saved'
  <2>1. pc' = "drop java" /\ job'.auth = {}
    BY <1>14 DEF Apply, Discard, NoJob
  <2> QED
    BY <2>1 DEF Saved, Running
<1>15. CASE UNCHANGED vars
  BY <1>15 DEF vars, Saved
<1> QED
  BY <1>1, <1>3, <1>4, <1>5, <1>6, <1>7, <1>8, <1>9, <1>10, <1>11, <1>12,
     <1>13, <1>14, <1>15 DEF Next, Progress

\* The file of a run counts as it was, every other one as it is.
LEMMA TreeOf ==
    ASSUME Typed, Typed'
    PROVE  /\ pc \in Running => Tree = Restored
           /\ pc \notin Running => Tree = disk
           /\ pc' \in Running => Tree' = Restored'
           /\ pc' \notin Running => Tree' = disk'
<1>1. disk \in [Paths -> Contents] /\ (pc \in Running => job.cls \in Paths)
  BY DEF Typed, Running
<1>2. disk' \in [Paths -> Contents] /\ (pc' \in Running => job'.cls \in Paths)
  BY DEF Typed, Running
<1>3. ASSUME pc \in Running PROVE Tree = Restored
  BY <1>1, <1>3 DEF Tree, Restored
<1>4. ASSUME pc \notin Running PROVE Tree = disk
  BY <1>1, <1>4 DEF Tree
<1>5. ASSUME pc' \in Running PROVE Tree' = Restored'
  BY <1>2, <1>5 DEF Tree, Restored
<1>6. ASSUME pc' \notin Running PROVE Tree' = disk'
  BY <1>2, <1>6 DEF Tree
<1> QED
  BY <1>3, <1>4, <1>5, <1>6

\* While the two files of proposals stay, so does the store, but where one is saved.
LEMMA StoreStays ==
    ASSUME UNCHANGED <<java, meta, torn>>, pc # "label", pc' # "label" PROVE Store' = Store
BY DEF Store, Pending

LEMMA CommandOf ==
    /\ pc = "idle" /\ Saved => Command = Promise!NoCommand
    /\ pc \in {"drop java", "drop json"} /\ Saved => Command = Promise!Discarding(job.cls)
    /\ pc \in Running \cup {"save", "label"} => Command = Promise!Generating(job.cls, job.auth)
<1>1. NoJob.cls = "" /\ NoJob.auth = {}
  BY DEF NoJob
<1> QED
  BY <1>1 DEF Command, Saved, Running, Promise!NoCommand, Promise!Discarding, Promise!Generating

LEMMA CommandBegun == pc # "idle" => Command # Promise!NoCommand
BY DEF Command, Promise!NoCommand

\* The same of the next state.
LEMMA CommandThen ==
    /\ pc' = "idle" /\ Saved' => Command' = Promise!NoCommand
    /\ pc' \in {"drop java", "drop json"} /\ Saved' => Command' = Promise!Discarding(job'.cls)
    /\ pc' \in Running \cup {"save", "label"}
         => Command' = Promise!Generating(job'.cls, job'.auth)
<1>1. NoJob.cls = "" /\ NoJob.auth = {}
  BY DEF NoJob
<1> QED
  BY <1>1 DEF Command, Saved, Running, Promise!NoCommand, Promise!Discarding, Promise!Generating

\* What a run does before it saves changes nothing of what the developer sees.
LEMMA InsideTheRun ==
    ASSUME Typed, Typed', pc \in Running, pc' \in Running \cup {"save"},
           job'.cls = job.cls, job'.original = job.original, job'.auth = job.auth,
           \/ pc' = "save" /\ disk' = Restored
           \/ pc' \in Running /\ \A p \in Paths : p # job.cls => disk'[p] = disk[p],
           UNCHANGED <<java, meta, torn, faults>>
    PROVE  UNCHANGED Promise!vars
<1>1. Store' = Store
  BY StoreStays DEF Running
<1>2. Command' = Command
  BY CommandOf, CommandThen DEF Running
<1>3. Tree' = Tree
  <2>1. CASE pc' = "save" /\ disk' = Restored
    BY <2>1, TreeOf DEF Running
  <2>2. CASE pc' \in Running /\ \A p \in Paths : p # job.cls => disk'[p] = disk[p]
    BY <2>2 DEF Tree
  <2> QED
    BY <2>1, <2>2
<1> QED
  BY <1>1, <1>2, <1>3 DEF Promise!vars

\* A run that puts the file back and returns.
LEMMA RunEnds ==
    ASSUME Typed, Typed', Saved, Saved', pc \in Running, pc' = "idle", disk' = Restored,
           UNCHANGED <<java, meta, torn, faults>>
    PROVE  Promise!End
<1>1. Store' = Store
  BY StoreStays DEF Running
<1>2. Command # Promise!NoCommand /\ Command' = Promise!NoCommand
  BY CommandBegun, CommandThen DEF Running
<1>3. Tree' = Tree
  BY TreeOf DEF Running
<1> QED
  BY <1>1, <1>2, <1>3 DEF Promise!End

\* A fault that leaves the store alone spoils at most one file.
LEMMA FileIsSpoilt ==
    ASSUME pc \in Running, faults' = faults + 1, Store' = Store,
           Command' \in {Command, Promise!NoCommand},
           NEW p \in Paths, NEW x \in Contents, Tree' = [Tree EXCEPT ![p] = x]
    PROVE  Promise!Fault
<1>1. Command # Promise!NoCommand
  BY CommandBegun DEF Running
<1>2. Command.does = "generate"
  BY DEF Command, Running
<1>3. Promise!Spoil(p, x)
  BY DEF Promise!Spoil
<1> QED
  BY <1>1, <1>2, <1>3 DEF Promise!Fault

\* The proposals of the other classes stay, whatever happens to one.
LEMMA OthersStay ==
    ASSUME Typed, Typed', NEW c \in Classes, NEW d \in Classes, c # d,
           pc = "label" => job.cls = c, pc' = "label" => job'.cls = c,
           java'[d] = java[d], meta'[d] = meta[d], torn'[d] = torn[d]
    PROVE  Store'[d] = Store[d]
BY DEF Store, Pending

LEMMA SaveJavaSaves ==
    ASSUME Typed, Typed', Labels, Saved, SaveJava
    PROVE  Promise!Save(job.generated, LabelOf(job))
<1>1. /\ pc = "save" /\ pc' = "label" /\ job' = job /\ job.cls \in Classes
      /\ java' = [java EXCEPT ![job.cls] = job.generated]
      /\ UNCHANGED <<disk, meta, torn, faults>>
  BY DEF SaveJava, Typed
<1>2. /\ java \in [Classes -> Contents] /\ job.generated # {}
      /\ job.pending = Pending(job.cls) /\ disk[job.cls] = job.original
      /\ Earned(job.generated)
  BY <1>1 DEF Typed, Labels, Saved, Absent, Running
<1>3. Tree' = Tree /\ Tree = disk
  BY <1>1, TreeOf DEF Running
<1>4. Command = Promise!Generating(job.cls, job.auth) /\ Command' = Command
  BY <1>1, CommandOf, CommandThen
<1>5. Store' = [Store EXCEPT ![job.cls] = Promise!Proposal(job.generated, LabelOf(job))]
  <2>1. Store'[job.cls] = Promise!Proposal(job.generated, LabelOf(job))
    BY <1>1, <1>2 DEF Store, Promise!Proposal, LabelOf
  <2>2. \A d \in Classes : d # job.cls => Store'[d] = Store[d]
    BY <1>1, <1>2, OthersStay
  <2>3. Store' = [c \in Classes |-> Store'[c]] /\ Store = [c \in Classes |-> Store[c]]
    BY DEF Store
  <2> QED
    BY <1>1, <2>1, <2>2, <2>3
<1>6. ASSUME LabelOf(job) = "accepted", Store[job.cls].state # "torn"
      PROVE  Promise!Basis(job.cls) \ job.auth \subseteq job.generated
  <2>1. job.result = "accepted"
    BY <1>6 DEF LabelOf
  <2>2. Basis \ job.auth \subseteq job.generated
    BY <2>1, <1>2 DEF Earned
  <2>3. /\ ~torn[job.cls]
        /\ Store[job.cls].state = "whole" <=> Pending(job.cls) # Absent
        /\ Store[job.cls].state = "whole" => Store[job.cls].code = java[job.cls]
    BY <1>1, <1>6 DEF Store
  <2>4. Pending(job.cls) # Absent => Pending(job.cls) = java[job.cls]
    BY DEF Pending
  <2>5. Promise!Basis(job.cls) = Basis
    BY <1>1, <1>2, <1>3, <2>3, <2>4 DEF Promise!Basis, Basis
  <2> QED
    BY <2>2, <2>5
<1>7. /\ Command.does = "generate" /\ Command.cls = job.cls
      /\ Command.released = job.auth
  BY <1>4 DEF Promise!Generating
<1> QED
  BY <1>1, <1>2, <1>3, <1>4, <1>5, <1>6, <1>7 DEF Promise!Save

LEMMA SaveJsonEnds ==
    ASSUME Typed, Typed', Saved, Saved', SaveJson PROVE Promise!End
<1>1. /\ pc = "label" /\ pc' = "idle" /\ job.cls \in Classes
      /\ meta' = [meta EXCEPT ![job.cls] = LabelOf(job)]
      /\ torn' = [torn EXCEPT ![job.cls] = FALSE]
      /\ UNCHANGED <<disk, java, faults>>
  BY DEF SaveJson, Return, Typed
<1>2. meta \in [Classes -> {"none", "accepted", "needs_review"}] /\ java[job.cls] # Absent
      /\ torn \in [Classes -> BOOLEAN]
  BY <1>1 DEF Typed, Saved
<1>3. Tree' = Tree
  BY <1>1, TreeOf DEF Running
<1>4. Command # Promise!NoCommand /\ Command' = Promise!NoCommand
  BY <1>1, CommandBegun, CommandThen
<1>5. Store'[job.cls] = Store[job.cls]
  BY <1>1, <1>2 DEF Store, Pending, LabelOf
<1>6. \A d \in Classes : d # job.cls => Store'[d] = Store[d]
  BY <1>1, <1>2, OthersStay
<1>7. Store' = [c \in Classes |-> Store'[c]] /\ Store = [c \in Classes |-> Store[c]]
  BY DEF Store
<1> QED
  BY <1>1, <1>3, <1>4, <1>5, <1>6, <1>7 DEF Promise!End

\* The proposal is gone with its code, but for a torn one, which goes with its label.
LEMMA DropJavaDrops ==
    ASSUME Typed, Typed', Saved, Saved', DropJava
    PROVE  Promise!Drop \/ UNCHANGED Promise!vars
<1>1. /\ pc = "drop java" /\ pc' = "drop json" /\ job' = job /\ job.cls \in Classes
      /\ java' = [java EXCEPT ![job.cls] = Absent]
      /\ UNCHANGED <<disk, meta, torn, faults>>
  BY DEF DropJava, Typed
<1>2. java \in [Classes -> Contents]
  BY DEF Typed
<1>3. Tree' = Tree
  BY <1>1, TreeOf DEF Running
<1>4. Command = Promise!Discarding(job.cls) /\ Command' = Command
  BY <1>1, CommandOf, CommandThen
<1>6. \A d \in Classes : d # job.cls => Store'[d] = Store[d]
  BY <1>1, <1>2, OthersStay
<1>7. Store' = [c \in Classes |-> Store'[c]] /\ Store = [c \in Classes |-> Store[c]]
  BY DEF Store
<1>8. CASE torn[job.cls]
  <2>1. Store'[job.cls] = Store[job.cls]
    BY <1>1, <1>8 DEF Store
  <2>2. Store' = Store
    BY <1>6, <1>7, <2>1
  <2> QED
    BY <1>1, <1>3, <1>4, <2>2 DEF Promise!vars
<1>9. CASE ~torn[job.cls]
  <2>1. Store'[job.cls] = Promise!NoProposal
    BY <1>1, <1>2, <1>9 DEF Store, Pending, Promise!NoProposal, Absent
  <2>2. Store' = [Store EXCEPT ![job.cls] = Promise!NoProposal]
    BY <1>1, <1>6, <1>7, <2>1
  <2> QED
    BY <1>1, <1>3, <1>4, <2>2 DEF Promise!Drop, Promise!Discarding
<1> QED
  BY <1>8, <1>9

LEMMA DropJsonDrops ==
    ASSUME Typed, Typed', Saved, Saved', DropJson PROVE Promise!Drop
<1>1. /\ pc = "drop json" /\ pc' = "idle" /\ job.cls \in Classes
      /\ meta' = [meta EXCEPT ![job.cls] = "none"]
      /\ torn' = [torn EXCEPT ![job.cls] = FALSE]
      /\ UNCHANGED <<disk, java, faults>>
  BY DEF DropJson, Return, Typed
<1>2. meta \in [Classes -> {"none", "accepted", "needs_review"}]
      /\ torn \in [Classes -> BOOLEAN]
  BY DEF Typed
<1>3. Tree' = Tree
  BY <1>1, TreeOf DEF Running
<1>4. Command = Promise!Discarding(job.cls) /\ Command' = Promise!NoCommand
  BY <1>1, CommandOf, CommandThen
<1>5. Store'[job.cls] = Promise!NoProposal
  BY <1>1, <1>2 DEF Store, Pending, Promise!NoProposal, Absent
<1>6. \A d \in Classes : d # job.cls => Store'[d] = Store[d]
  BY <1>1, <1>2, OthersStay
<1>7. Store' = [Store EXCEPT ![job.cls] = Promise!NoProposal]
  <2>1. Store' = [c \in Classes |-> Store'[c]] /\ Store = [c \in Classes |-> Store[c]]
    BY DEF Store
  <2> QED
    BY <1>1, <1>5, <1>6, <2>1
<1> QED
  BY <1>1, <1>3, <1>4, <1>7 DEF Promise!Drop, Promise!Discarding

\* A process that dies, or an exception no handler sees, harms one file or proposal.
LEMMA DeathIsAFault ==
    ASSUME Typed, Typed', Saved, Saved', Kill \/ Escape
    PROVE  Promise!Fault
<1>1. /\ pc # "idle" /\ pc' = "idle" /\ job.cls \in Classes /\ job.cls \in Paths
      /\ faults' = faults + 1 /\ UNCHANGED <<disk, java, meta>>
      /\ torn' = IF pc = "label" THEN [torn EXCEPT ![job.cls] = TRUE] ELSE torn
  BY DEF Kill, Escape, Fault, Return, Typed
<1>2. disk \in [Paths -> Contents] /\ torn \in [Classes -> BOOLEAN]
  BY DEF Typed
<1>3. Command # Promise!NoCommand /\ Command' = Promise!NoCommand
  BY <1>1, CommandBegun, CommandThen
<1>4. Tree' = disk
  BY <1>1, TreeOf DEF Running
<1>5. CASE pc \in Running
  <2>1. Store' = Store
    BY <1>1, <1>5, StoreStays DEF Running
  <2>2. Tree = Restored
    BY <1>5, TreeOf
  <2>3. Tree' = [Tree EXCEPT ![job.cls] = disk[job.cls]]
    BY <1>1, <1>2, <1>4, <2>2 DEF Restored
  <2>4. disk[job.cls] \in Contents
    BY <1>1, <1>2
  <2> QED
    BY <1>1, <1>3, <1>5, <2>1, <2>3, <2>4, FileIsSpoilt
<1>6. CASE pc = "label"
  <2>1. Tree' = Tree
    BY <1>4, <1>6, TreeOf DEF Running
  <2>2. Command.does = "generate" /\ Command.cls = job.cls
    BY <1>6, CommandOf DEF Promise!Generating
  <2>3. Store'[job.cls] = Promise!Torn
    BY <1>1, <1>2, <1>6 DEF Store, Promise!Torn, Absent
  <2>4. \A d \in Classes : d # job.cls => Store'[d] = Store[d]
    BY <1>1, <1>2, <1>6, OthersStay
  <2>5. Store' = [c \in Classes |-> Store'[c]] /\ Store = [c \in Classes |-> Store[c]]
    BY DEF Store
  <2>6. Store' = [Store EXCEPT ![job.cls] = Promise!Torn]
    BY <1>1, <2>3, <2>4, <2>5
  <2> QED
    BY <1>1, <1>3, <2>1, <2>2, <2>6 DEF Promise!Fault, Promise!Break
<1>7. CASE pc \notin Running /\ pc # "label"
  <2>1. Tree' = Tree
    BY <1>4, <1>7, TreeOf
  <2>2. Store' = Store
    BY <1>1, <1>7, StoreStays
  <2> QED
    BY <1>1, <1>3, <2>1, <2>2 DEF Promise!Fault
<1> QED
  BY <1>5, <1>6, <1>7

\* A write of the engine to another file is a fault, to its own one is not seen.
LEMMA WriteIsInside ==
    ASSUME Typed, Typed', NEW p \in Paths, NEW x \in AgentTexts, Write(p, x)
    PROVE  Promise!Fault \/ UNCHANGED Promise!vars
<1>1. /\ pc = "write" /\ pc' = "write" /\ job.cls \in Paths
      /\ disk' = [disk EXCEPT ![p] = x] /\ UNCHANGED <<java, meta, torn>>
  BY DEF Write, Typed
<1>2. job \in Jobs /\ disk \in [Paths -> Contents] /\ x \in Contents
  BY DEF Typed, Contents
<1>3. job'.cls = job.cls /\ job'.original = job.original /\ job'.auth = job.auth
  BY <1>2 DEF Write, Jobs
<1>4. CASE p = job.cls
  <2>1. \A q \in Paths : q # job.cls => disk'[q] = disk[q]
    BY <1>1, <1>2, <1>4
  <2>2. faults' = faults
    BY <1>4 DEF Write
  <2> QED
    BY <1>1, <1>3, <2>1, <2>2, InsideTheRun DEF Running
<1>5. CASE p # job.cls
  <2>1. faults' = faults + 1
    BY <1>5 DEF Write, Fault
  <2>2. Store' = Store
    BY <1>1, StoreStays
  <2>3. Command' = Command
    BY <1>1, <1>3, CommandOf, CommandThen DEF Running
  <2>4. Tree = Restored /\ Tree' = Restored'
    BY <1>1, TreeOf DEF Running
  <2>5. Restored' = [disk' EXCEPT ![job.cls] = job.original]
    BY <1>3 DEF Restored
  <2>6. Tree' = [Tree EXCEPT ![p] = x]
    BY <1>1, <1>2, <1>5, <2>4, <2>5 DEF Restored
  <2> QED
    BY <1>1, <1>2, <2>1, <2>2, <2>3, <2>6, FileIsSpoilt DEF Running
<1> QED
  BY <1>4, <1>5

LEMMA FinishPutsBack ==
    ASSUME Typed, Typed', Traces, Saved, Saved', Finish
    PROVE  Promise!End \/ UNCHANGED Promise!vars
<1>1. pc = "finish" /\ pc \in Running /\ UNCHANGED <<java, meta, torn, faults>>
  BY DEF Finish, Running
<1>2. job \in Jobs /\ disk \in [Paths -> Contents] /\ job.cls \in Paths
  BY <1>1 DEF Typed
<1>3. CASE Return
  <2>1. pc' = "idle"
    BY <1>3 DEF Return
  <2>2. disk' = Restored
    <3>1. CASE disk[job.cls] # Absent
      BY <2>1, <3>1 DEF Finish
    <3>2. CASE disk[job.cls] = Absent
      <4>1. disk[job.cls] = job.original
        BY <1>1, <3>2 DEF Traces
      <4>2. disk' = disk
        BY <3>2 DEF Finish
      <4> QED
        BY <1>2, <4>1, <4>2 DEF Restored
    <3> QED
      BY <3>1, <3>2
  <2> QED
    BY <1>1, <2>1, <2>2, RunEnds
<1>4. CASE ~Return
  <2>1. disk' = Restored /\ pc' = "save" /\ job' = [job EXCEPT !.generated = disk[job.cls]]
    BY <1>4 DEF Finish
  <2>2. job'.cls = job.cls /\ job'.original = job.original /\ job'.auth = job.auth
    BY <1>2, <2>1 DEF Jobs
  <2> QED
    BY <1>1, <2>1, <2>2, InsideTheRun
<1> QED
  BY <1>3, <1>4

LEMMA InitPromised == Init => Promise!Init
<1> SUFFICES ASSUME Init PROVE Promise!Init
  OBVIOUS
<1>1. pc = "idle" /\ Saved
  BY InitSaved DEF Init
<1>2. Command = Promise!NoCommand
  BY <1>1, CommandOf
<1>3. Tree \in [Paths -> Contents]
  <2>1. Tree = [p \in Paths |-> disk[p]]
    BY <1>1 DEF Tree, Running
  <2> QED
    BY <2>1 DEF Init, Contents
<1>4. Store = [c \in Classes |-> Promise!NoProposal]
  BY <1>1 DEF Store, Init, Pending, Absent, Promise!NoProposal
<1> QED
  BY <1>2, <1>3, <1>4 DEF Promise!Init, Init

\* Every step is one of the developer's view, or nothing in it.
LEMMA StepIsPromised ==
    Typed /\ Typed' /\ Traces /\ Labels /\ Saved /\ Saved' /\ [Next]_vars
      => [Promise!Next]_(Promise!vars)
<1> SUFFICES ASSUME Typed, Typed', Traces, Labels, Saved, Saved', [Next]_vars
             PROVE  Promise!Next \/ UNCHANGED Promise!vars
  OBVIOUS
<1>j. job \in Jobs /\ disk \in [Paths -> Contents] /\ java \in [Classes -> Contents]
      /\ (pc # "idle" => job.cls \in Classes /\ job.cls \in Paths)
  BY DEF Typed
<1>e. Promise!End \/ Promise!Fault \/ Promise!Drop => Promise!Next
  BY DEF Promise!Next
<1>1. ASSUME NEW c \in Classes, NEW engine \in {"legacy", "deep"}, NEW fast \in BOOLEAN,
             NEW auth \in AuthChoices, Begin(c, engine, fast, auth)
      PROVE  Promise!Start(c, auth)
  <2>1. /\ pc = "idle" /\ pc' = "prepare" /\ UNCHANGED <<java, meta, torn, faults>>
        /\ job'.cls = c /\ job'.auth = auth /\ job'.original = disk[c]
    BY <1>1, NoJobTyped DEF Begin, Jobs
  <2>2. \A p \in Paths : p # c => disk'[p] = disk[p]
    BY <1>1, <1>j DEF Begin
  <2>3. Tree' = Tree
    BY <2>1, <2>2 DEF Tree, Running
  <2>4. Store' = Store
    BY <2>1, StoreStays
  <2>5. Command = Promise!NoCommand /\ Command' = Promise!Generating(c, auth)
    BY <2>1, CommandOf, CommandThen DEF Running
  <2> QED
    BY <2>1, <2>3, <2>4, <2>5 DEF Promise!Start
<1>2. CASE GiveUp \/ Fail
  <2>1. pc \in Running /\ pc' = "idle" /\ disk' = Restored
        /\ UNCHANGED <<java, meta, torn, faults>>
    BY <1>2 DEF GiveUp, Fail, Return, Running
  <2> QED
    BY <2>1, RunEnds, <1>e
<1>3. CASE Escape \/ Kill
  BY <1>3, DeathIsAFault, <1>e
<1>4. CASE Snapshot
  <2>1. pc \in Running /\ pc' \in Running /\ UNCHANGED <<disk, java, meta, torn, faults>>
    BY <1>4 DEF Snapshot, Running
  <2>2. job'.cls = job.cls /\ job'.original = job.original /\ job'.auth = job.auth
    BY <1>4, <1>j DEF Snapshot, Jobs
  <2> QED
    BY <2>1, <2>2, InsideTheRun
<1>5. ASSUME NEW p \in Paths, NEW x \in AgentTexts, Write(p, x)
      PROVE  Promise!Next \/ UNCHANGED Promise!vars
  BY <1>5, WriteIsInside, <1>e
<1>6. ASSUME NEW own \in BOOLEAN, NEW passes \in BOOLEAN, RunTests(own, passes) PROVE UNCHANGED Promise!vars
  <2>1. pc \in Running /\ pc' \in Running /\ UNCHANGED <<disk, java, meta, torn, faults>>
    BY <1>6 DEF RunTests, Running
  <2>2. job'.cls = job.cls /\ job'.original = job.original /\ job'.auth = job.auth
    BY <1>6, <1>j DEF RunTests, Jobs
  <2> QED
    BY <2>1, <2>2, InsideTheRun
<1>7. CASE WriterPasses
  <2>1. pc \in Running /\ pc' \in Running /\ UNCHANGED <<job, disk, java, meta, torn, faults>>
    BY <1>7 DEF WriterPasses, Running
  <2> QED
    BY <2>1, InsideTheRun
<1>8. CASE WriterReports
  <2>1. pc \in Running /\ pc' \in Running /\ UNCHANGED <<disk, java, meta, torn, faults>>
    BY <1>8 DEF WriterReports, Running
  <2>2. job'.cls = job.cls /\ job'.original = job.original /\ job'.auth = job.auth
    BY <1>8, <1>j DEF WriterReports, Jobs
  <2> QED
    BY <2>1, <2>2, InsideTheRun
<1>9. ASSUME NEW rest \in BOOLEAN, RunGates(rest) PROVE UNCHANGED Promise!vars
  <2>1. pc \in Running /\ pc' \in Running /\ UNCHANGED <<disk, java, meta, torn, faults>>
    BY <1>9 DEF RunGates, Running
  <2>2. job'.cls = job.cls /\ job'.original = job.original /\ job'.auth = job.auth
    BY <1>9, <1>j DEF RunGates, Jobs
  <2> QED
    BY <2>1, <2>2, InsideTheRun
<1>10. CASE Finish
  BY <1>10, FinishPutsBack, <1>e
<1>11. CASE SaveJava
  <2>1. job.generated \in Contents /\ LabelOf(job) \in {"accepted", "needs_review"}
    BY <1>j DEF Jobs, LabelOf
  <2> QED
    BY <1>11, <2>1, SaveJavaSaves DEF Promise!Next
<1>12. CASE SaveJson
  BY <1>12, SaveJsonEnds, <1>e
<1>13. CASE DropJava
  BY <1>13, DropJavaDrops, <1>e
<1>14. CASE DropJson
  BY <1>14, DropJsonDrops, <1>e
<1>15. ASSUME NEW p \in Paths, NEW x \in HumanTexts, Edit(p, x)
       PROVE  Promise!Next
  <2>1. pc = "idle" /\ pc' = "idle" /\ disk' = [disk EXCEPT ![p] = x]
        /\ UNCHANGED <<java, meta, torn, faults>>
    BY <1>15 DEF Edit
  <2>2. Tree' = [Tree EXCEPT ![p] = x]
    BY <2>1, TreeOf DEF Running
  <2>3. Store' = Store
    BY <2>1, StoreStays
  <2>4. Command = Promise!NoCommand /\ Command' = Promise!NoCommand
    BY <2>1, CommandOf, CommandThen
  <2>5. Promise!Edit(p, x)
    BY <2>1, <2>2, <2>3, <2>4 DEF Promise!Edit
  <2>6. x \in Contents
    BY DEF Contents
  <2> QED
    BY <2>5, <2>6 DEF Promise!Next
<1>16. ASSUME NEW c \in Classes, Apply(c) PROVE Promise!Next
  <2>1. /\ pc = "idle" /\ pc' = "drop java" /\ disk' = [disk EXCEPT ![c] = java[c]]
        /\ Pending(c) = java[c] /\ java[c] # Absent
        /\ UNCHANGED <<java, meta, torn, faults>>
    BY <1>16 DEF Apply, Pending
  <2>2. job'.cls = c
    BY <1>16, NoJobTyped DEF Apply, Jobs
  <2>3. Tree' = [Tree EXCEPT ![c] = java[c]]
    BY <2>1, TreeOf DEF Running
  <2>4. Store' = Store
    BY <2>1, StoreStays
  <2>5. Command = Promise!NoCommand /\ Command' = Promise!Discarding(c)
    BY <2>1, <2>2, CommandOf, CommandThen
  <2>6. Store[c].state # "none" /\ (Store[c].state = "whole" => java[c] = Store[c].code)
    BY <2>1 DEF Store
  <2>7. Promise!Take(c, java[c])
    BY <2>1, <2>3, <2>4, <2>5, <2>6 DEF Promise!Take
  <2> QED
    BY <1>j, <2>7 DEF Promise!Next
<1>17. ASSUME NEW c \in Classes, Discard(c) PROVE Promise!Next
  <2>1. pc = "idle" /\ pc' = "drop java" /\ UNCHANGED <<disk, java, meta, torn, faults>>
    BY <1>17 DEF Discard
  <2>2. job'.cls = c
    BY <1>17, NoJobTyped DEF Discard, Jobs
  <2>3. Tree' = Tree
    BY <2>1, TreeOf DEF Running
  <2>4. Store' = Store
    BY <2>1, StoreStays
  <2>5. Command = Promise!NoCommand /\ Command' = Promise!Discarding(c)
    BY <2>1, <2>2, CommandOf, CommandThen
  <2>6. Promise!Refuse(c)
    BY <2>1, <2>3, <2>4, <2>5 DEF Promise!Refuse
  <2> QED
    BY <2>6 DEF Promise!Next
<1>18. CASE UNCHANGED vars
  BY <1>18 DEF vars, Promise!vars, Tree, Store, Command, Pending, LabelOf
<1>19. ASSUME NEW c \in Classes, NEW auth \in AuthChoices, Promise!Start(c, auth)
       PROVE  Promise!Next
  BY <1>19 DEF Promise!Next
<1> QED
  BY <1>1, <1>2, <1>3, <1>4, <1>5, <1>6, <1>7, <1>8, <1>9, <1>10, <1>11, <1>12,
     <1>13, <1>14, <1>15, <1>16, <1>17, <1>18, <1>19 DEF Next, Progress

\* Generation runs with their kills, and the commands that apply and discard, keep what
\* DeveloperPromise promises: run_generation (generate.py) gives the file back, and
\* save_proposal (proposals.py) replaces a proposal at once, label and code of one run,
\* by code that has its asserts when the label is "accepted"; whatever faults happen,
\* each one harms one file or one proposal at most.
THEOREM DeveloperIsPromised == Spec => KeepsDeveloperPromise
<1>1. Spec => [](Typed /\ Traces /\ Labels /\ Saved)
  BY InitTyped, NextTyped, InitTraces, NextTraces, InitLabels, NextLabels, InitSaved,
     NextSaved, PTL DEF Spec
<1> QED
  BY <1>1, InitPromised, StepIsPromised, PTL DEF Spec, KeepsDeveloperPromise, Promise!Spec

-----------------------------------------------------------------------------
=============================================================================
