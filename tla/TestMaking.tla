----------------------------- MODULE TestMaking -----------------------------
(***************************************************************************)
(* From a class under test to a judged test file: which methods get tests  *)
(* (materials.py), the prompt and the answer (llm/generation.py), an       *)
(* answer merged into the existing test file (merge.py), and the source    *)
(* gates (gates.py, assert_report.py).                                     *)
(*                                                                         *)
(* A class is a sequence of methods [name, kind, first, last, items];      *)
(* items are the things to check, [kind, line].  A test source is          *)
(* [imports, members]; a member is [name, test, bare, skips, asserts]:     *)
(* whether @Test stands before it, whether neither annotation nor comment  *)
(* does, skip annotations, assert statements in order.  The text of a      *)
(* member is its name and asserts, without annotations; that of a bare     *)
(* one begins with the line break behind the brace before it.              *)
(***************************************************************************)
EXTENDS Integers, FiniteSets, SequencesExt

CONSTANTS
    Classes,     \* classes under test: sequences of methods
    TestFiles,   \* test sources there may be
    Fragments,   \* answers: [imports, members, inner], inner being <<>>, or <<members>>
                 \* of a class declared around or after those members
    WholeFiles,  \* answers that are a file of their own
    NoFile,      \* no test file, no file
    Authorized,  \* sets of tests a person allowed to change
    AttemptMax   \* bound: answers

ASSUME MakingAssumption ==
    /\ \A f \in TestFiles \ {NoFile} :
          /\ f.members \in Seq(ToSet(f.members))
          /\ \A m \in ToSet(f.members) : m.asserts \in Seq(ToSet(m.asserts))
    /\ \A a \in Fragments :
          /\ a.members \in Seq(ToSet(a.members))
          /\ a.inner # <<>> => a.inner[1] \in Seq(ToSet(a.inner[1]))

VARIABLES
    subject,   \* the class
    mentioned, \* names the existing tests call
    wish,      \* [only, all, max]: the methods asked for
    existing,  \* the test file before
    allowed,   \* authorized tests
    plans,     \* places of the methods picked, among the candidates
    aimed,     \* their lines, which the coverage gate judges
    skipped,   \* [name, why]
    draft,     \* the test file now
    output,     \* the last answer in append mode, as it came; else NoFile
    fragment,  \* what was taken of it
    turn,      \* while merging: the place of the answer's member that is looked at
    untaken,   \* while merging: the places of its members not yet in the file
    torn,      \* the merge took the end of one member along with another
    answers,   \* answers so far
    mpc,       \* "select", "merge", "write", "judged"
    sourceOk   \* verdicts of the source gates

makingVars == <<subject, mentioned, wish, existing, allowed, plans, aimed, skipped, draft, output,
                fragment, turn, untaken, torn, answers, mpc, sourceOk>>

NoVerdict == [assert |-> FALSE, skip |-> FALSE]

\* methods_referenced_in_tests: names in the form of a call, in any test file,
\* whatever they are called on.
ReferencedInTests == SUBSET {subject[i].name : i \in DOMAIN subject}

MakingInit ==
    /\ subject \in Classes
    /\ mentioned \in ReferencedInTests
    /\ wish \in [only : {{}} \cup {{subject[i].name} : i \in DOMAIN subject} \cup {{"gone"}},
                 all : BOOLEAN, max : 1..2]
    /\ existing \in TestFiles /\ allowed \in Authorized
    /\ plans = {} /\ aimed = {} /\ skipped = {} /\ draft = existing /\ answers = 0
    /\ output = NoFile /\ fragment = NoFile /\ turn = 0 /\ untaken = {} /\ torn = FALSE
    /\ mpc = "select" /\ sourceOk = NoVerdict

MakingOff ==
    /\ subject = <<>> /\ mentioned = {} /\ wish = <<>> /\ existing = NoFile /\ allowed = {}
    /\ plans = {} /\ aimed = {} /\ skipped = {} /\ draft = NoFile /\ answers = 0
    /\ output = NoFile /\ fragment = NoFile /\ turn = 0 /\ untaken = {} /\ torn = FALSE
    /\ mpc = "off" /\ sourceOk = NoVerdict

-----------------------------------------------------------------------------
(* materials.py                                                             *)

\* Of methods of one name the last one's lines count (spans is a dictionary).
SpanOf(name) ==
    LET last == CHOOSE i \in DOMAIN subject :
                    /\ subject[i].name = name
                    /\ \A j \in DOMAIN subject : subject[j].name = name => j <= i
    IN  subject[last].first .. subject[last].last

\* Not a test, not a constructor, and of the names asked for.
Eligible(m) == m.kind \notin {"test", "constructor"} /\ (wish.only # {} => m.name \in wish.only)

WhyNot(m) ==
    IF wish.only # {} THEN ""
    ELSE IF m.kind = "private" THEN "private"
    ELSE IF m.name \in mentioned /\ ~wish.all THEN "mentioned"
    ELSE ""

Candidates == SelectSeq(subject, LAMBDA m : Eligible(m) /\ WhyNot(m) = "")

\* Asked for by name: all of them.  Else those with most items to check, in the
\* order of the file.  Two methods of one name share one place in the order.
Order(name) == CHOOSE i \in DOMAIN Candidates :
                   /\ Candidates[i].name = name
                   /\ \A j \in DOMAIN Candidates : Candidates[j].name = name => j <= i

Ahead(i, j) ==
    LET a == Cardinality(Candidates[i].items)
        b == Cardinality(Candidates[j].items)
        x == Order(Candidates[i].name)
        y == Order(Candidates[j].name)
    IN  a > b \/ (a = b /\ (x < y \/ (x = y /\ i < j)))

Taken == {i \in DOMAIN Candidates :
            wish.only # {} \/ Cardinality({j \in DOMAIN Candidates : Ahead(j, i)}) < wish.max}

SelectMethods ==
    /\ mpc = "select"
    /\ plans' = Taken /\ aimed' = UNION {SpanOf(Candidates[i].name) : i \in Taken}
    /\ skipped' = {<<m.name, WhyNot(m)>> : m \in {x \in ToSet(subject) : Eligible(x) /\ WhyNot(x) # ""}}
                  \cup {<<Candidates[i].name, "next run">> : i \in DOMAIN Candidates \ Taken}
                  \cup {<<n, "no such method">> : n \in wish.only \ {m.name : m \in ToSet(Candidates)}}
    /\ mpc' = IF Taken = {} THEN "nothing" ELSE "write"
    /\ UNCHANGED <<subject, mentioned, wish, existing, allowed, draft, output, fragment, turn,
                   untaken, torn, answers, sourceOk>>

-----------------------------------------------------------------------------
(* merge.py                                                                 *)

\* A class in the answer is taken for one around it all: members that stand before
\* it go with its header.
SplitFragment(answer) ==
    [imports |-> answer.imports,
     members |-> IF answer.inner = <<>> THEN answer.members ELSE answer.inner[1]]

Text(m) == <<m.name, m.asserts>>

Least(places) == {i \in places : \A j \in places : i <= j}

WithText(members, text) == {i \in DOMAIN members : Text(members[i]) = text}

\* The member of the existing file that one of the answer replaces; of several of
\* that name the last.
Replaced(file, name) ==
    LET same == {i \in DOMAIN file.members : file.members[i].name = name}
    IN  {file.members[i] : i \in {j \in same : \A k \in same : k <= j}}

\* New imports go after the last import, those there are stay once.
WithImports(file, answer) == file.imports \cup answer.imports

\* Mutant: merged into the file of the last attempt.
CurrentFile == draft

\* PromptedGenerator keeps the file as it was at the start.
ExistingFile == existing

\* Append mode: the answer is merged; the next prompt shows the last answer only.
AnswerFragment ==
    /\ mpc \in {"write", "judged"} /\ existing # NoFile /\ answers < AttemptMax
    /\ \E answer \in Fragments :
         LET file == SplitFragment(answer)
         IN  /\ output' = answer /\ fragment' = file /\ untaken' = DOMAIN file.members
             /\ draft' = [imports |-> WithImports(ExistingFile, file), members |-> ExistingFile.members]
    /\ turn' = 1 /\ torn' = FALSE /\ answers' = answers + 1 /\ mpc' = "merge"
    /\ UNCHANGED <<subject, mentioned, wish, existing, allowed, plans, aimed, skipped, sourceOk>>

\* Where the text to replace is now, and the first piece of the answer with the
\* text of the member looked at.
OldPlace ==
    Least({i \in DOMAIN draft.members :
             \E old \in Replaced(existing, fragment.members[turn].name) :
                 Text(draft.members[i]) = Text(old)})
NewPlace == Least(untaken \cap WithText(fragment.members, Text(fragment.members[turn])))

\* _member_start goes back to the beginning of the line on which the text begins.
\* For a bare member that is the line with the brace before it: the end of the
\* member before, or the class header.
TakesBrace(at, from) ==
    draft.members[at].bare \/ (fragment.members[from].bare /\ from - 1 \in untaken)

\* _replace_members: one after the other, each in the place of the old text, if
\* that is still there.
ReplaceMember ==
    /\ mpc = "merge" /\ turn \in DOMAIN fragment.members
    /\ \/ /\ OldPlace = {} \/ NewPlace = {}
          /\ UNCHANGED <<draft, untaken, torn>>
       \/ \E at \in OldPlace, from \in NewPlace :
             /\ draft' = [draft EXCEPT !.members[at] = fragment.members[from]]
             /\ untaken' = untaken \ {from}
             /\ torn' = (torn \/ TakesBrace(at, from))
    /\ turn' = turn + 1
    /\ UNCHANGED <<subject, mentioned, wish, existing, allowed, plans, aimed, skipped, output,
                   fragment, answers, mpc, sourceOk>>

\* The rest goes before the last brace, in its order.
AppendRest ==
    /\ mpc = "merge" /\ turn \notin DOMAIN fragment.members
    /\ \/ \E from \in Least(untaken) :
             /\ draft' = [draft EXCEPT !.members = Append(@, fragment.members[from])]
             /\ untaken' = untaken \ {from} /\ UNCHANGED mpc
       \/ untaken = {} /\ mpc' = "write" /\ UNCHANGED <<draft, untaken>>
    /\ UNCHANGED <<subject, mentioned, wish, existing, allowed, plans, aimed, skipped, output,
                   fragment, turn, torn, answers, sourceOk>>

\* No file yet, or the deep agent, which writes whole files.
AnswerFile ==
    /\ mpc \in {"write", "judged"} /\ answers < AttemptMax
    /\ draft' \in WholeFiles
    /\ output' = NoFile /\ fragment' = NoFile /\ turn' = 0 /\ untaken' = {} /\ torn' = FALSE
    /\ answers' = answers + 1 /\ mpc' = "write"
    /\ UNCHANGED <<subject, mentioned, wish, existing, allowed, plans, aimed, skipped, sourceOk>>

-----------------------------------------------------------------------------
(* The source gates                                                         *)

\* strip_methods: the members that stay keep their places.
Stripped(file) ==
    [members |-> Restrict(file.members,
                          {i \in DOMAIN file.members : file.members[i].name \notin allowed})]

Times(statement, list) == Cardinality({i \in DOMAIN list : list[i] = statement})

\* compare_test_asserts: each assert as often as it was.
AllIn(old, new) == \A s \in ToSet(old) : Times(s, old) <= Times(s, new)

\* _asserts_by_test: of tests of one name the last.
AssertsByTest(file) ==
    {i \in DOMAIN file.members :
        /\ file.members[i].test
        /\ \A j \in DOMAIN file.members :
              file.members[j].test /\ file.members[j].name = file.members[i].name => j <= i}

TestsKept(before, after) ==
    \A i \in AssertsByTest(before) : \E j \in AssertsByTest(after) :
        /\ after.members[j].name = before.members[i].name
        /\ AllIn(before.members[i].asserts, after.members[j].asserts)

\* The count over the file, helpers included.
Statements(file) == UNION {ToSet(file.members[i].asserts) : i \in DOMAIN file.members}
TimesInFile(statement, file) ==
    Cardinality(UNION {{i} \X {k \in DOMAIN file.members[i].asserts :
                                 file.members[i].asserts[k] = statement} : i \in DOMAIN file.members})

\* Mutant: asserts are counted over the file only.
FileOnly(before, after) == TRUE

TestByTest(before, after) == TestsKept(before, after)

AssertGate ==
    existing # NoFile =>
        LET before == Stripped(existing)
            after == Stripped(draft)
        IN  /\ TestByTest(before, after)
            /\ \A s \in Statements(before) : TimesInFile(s, before) <= TimesInFile(s, after)

Skips(file) == IF file = NoFile THEN 0
               ELSE FoldLeft(LAMBDA n, m : n + m.skips, 0, file.members)

\* What the gates find in a torn file, where braces no longer match, is left open.
JudgeSource ==
    /\ mpc = "write" /\ answers > 0
    /\ IF torn THEN sourceOk' \in [assert : BOOLEAN, skip : BOOLEAN]
       ELSE sourceOk' = [assert |-> AssertGate, skip |-> Skips(draft) <= Skips(existing)]
    /\ mpc' = "judged"
    /\ UNCHANGED <<subject, mentioned, wish, existing, allowed, plans, aimed, skipped, draft, output,
                   fragment, turn, untaken, torn, answers>>

MakingNext ==
    \/ SelectMethods \/ AnswerFragment \/ ReplaceMember \/ AppendRest \/ AnswerFile \/ JudgeSource

MakingSpec == MakingInit /\ [][MakingNext]_makingVars

-----------------------------------------------------------------------------
Named(members) == {m.name : m \in ToSet(members)}
Unique(members) ==
    \A i, j \in DOMAIN members : members[i].name = members[j].name => i = j

\* After any number of attempts the merged file is the existing one with the
\* members of the last answer: those the answer does not name stand unchanged in
\* their places, a replaced one is in the place of the old one, nothing of earlier
\* answers is left, and no name is defined twice unless the file or the answer does
\* so itself.  Each member of an answer without a class is in the file; of an answer
\* that declares a class, each member of the class: those before it are lost
\* (_unwrap_class).  Left out are answers with two members of one name, of which one
\* may take the other's place, and files torn by _member_start.
MergeKeepsExisting ==
    fragment # NoFile /\ mpc # "merge" /\ ~torn =>
        LET old == existing.members
            new == draft.members
            given == IF output.inner = <<>> THEN output.members ELSE output.inner[1]
        IN  /\ \A i \in DOMAIN old :
                  /\ i \in DOMAIN new /\ new[i].name = old[i].name
                  /\ old[i].name \notin Named(given) => new[i] = old[i]
            /\ \A i \in DOMAIN new : i \in DOMAIN old \/ new[i] \in ToSet(given)
            /\ Named(given) \subseteq Named(new)
            /\ Unique(given) => ToSet(given) \subseteq ToSet(new)
            /\ Unique(old) /\ Unique(given) => Unique(new)
            /\ draft.imports = existing.imports \cup output.imports

\* Of an accepted file, for the tests that were there and that no person allowed to
\* change: of each name the last test is there with all asserts it had; and each
\* assert of any of them is still in the file, outside of what may change.  Of tests
\* with one name (in @Nested classes, overloads) only the last is compared test by
\* test: asserts of the others may go to another test (a torn file does not
\* compile: no run of it passes).
AssertsKept ==
    mpc = "judged" /\ sourceOk.assert /\ existing # NoFile /\ ~torn =>
        LET guarded == {i \in DOMAIN existing.members :
                          existing.members[i].test /\ existing.members[i].name \notin allowed}
            Name(i) == existing.members[i].name
        IN  \A i \in guarded :
              /\ (\A k \in guarded : Name(k) = Name(i) => k <= i) =>
                    \E j \in DOMAIN draft.members :
                        /\ draft.members[j].test /\ draft.members[j].name = Name(i)
                        /\ AllIn(existing.members[i].asserts, draft.members[j].asserts)
              /\ \A s \in ToSet(existing.members[i].asserts) :
                    \E j \in DOMAIN draft.members :
                        /\ draft.members[j].name \notin allowed
                        /\ s \in ToSet(draft.members[j].asserts)
=============================================================================
