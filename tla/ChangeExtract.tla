---------------------------- MODULE ChangeExtract ----------------------------
(***************************************************************************)
(* What changed (adapters/java/changes.py): git's diff, read line by line, *)
(* is attributed to the methods of the files as they are now; and what the *)
(* change was meant to be (llm/intent.py, core/pipeline/maintain.py).      *)
(*                                                                         *)
(* A file of the diff is [path, class, deleted, spans, hunks]: spans are   *)
(* the methods now, [name, first, last]; a hunk is [at, removed, added]    *)
(* with at the line of the new file git names; a changed line is [code,    *)
(* access, header]: no comment or blank; the access modifier if it looks   *)
(* like a declaration, else ""; and whether git's sign and its text make   *)
(* it look like the header of a file, as "--i;" removed ("---i;") and      *)
(* "++i;" added ("+++i;") do.  The diff is taken with no lines of context. *)
(***************************************************************************)
EXTENDS Integers, FiniteSets, SequencesExt

CONSTANTS
    Diffs,      \* sequences of files
    Answers,    \* answers of the classifier: [json, category, percent]
    Histories   \* [override, base, log], log "fails" if git does

IsASequence(s) == Len(s) \in Nat /\ DOMAIN s = 1 .. Len(s)

ASSUME ChangeExtractAssumption ==
    \A d \in Diffs :
        /\ IsASequence(d)
        /\ \A i \in DOMAIN d :
             /\ d[i].path # "" /\ IsASequence(d[i].hunks)
             /\ \A h \in DOMAIN d[i].hunks :
                  /\ d[i].hunks[h].at \in Nat
                  /\ IsASequence(d[i].hunks[h].removed) /\ IsASequence(d[i].hunks[h].added)
                  /\ \A n \in DOMAIN d[i].hunks[h].removed :
                       /\ d[i].hunks[h].removed[n].code \in BOOLEAN
                       /\ d[i].hunks[h].removed[n].header \in BOOLEAN
                  /\ \A n \in DOMAIN d[i].hunks[h].added :
                       /\ d[i].hunks[h].added[n].code \in BOOLEAN
                       /\ d[i].hunks[h].added[n].header \in BOOLEAN

VARIABLES
    diff, origin,
    unread,     \* lines of the diff not read yet
    here,       \* [path, class, spans] of the file being read, NoPlace before it
    newLine,    \* line of the new file
    buckets,    \* <<class, method>> -> what was counted
    message,    \* the commit message
    intents     \* target -> [category, percent]

changeVars == <<diff, origin, unread, here, newLine, buckets, message, intents>>

NoPlace == [path |-> "", class |-> "", spans |-> <<>>]

(* A line of the diff is <<file, hunk, side, number>>: the header of a file   *)
(* has hunk 0, that of a hunk side 0; removed lines are of side 1, added ones *)
(* of side 2.                                                                *)
HunkLines(i, h, hunk) ==
    {<<i, h, 0, 0>>} \cup {<<i, h, 1, n>> : n \in DOMAIN hunk.removed}
                     \cup {<<i, h, 2, n>> : n \in DOMAIN hunk.added}

FileLines(i, f) ==
    {<<i, 0, 0, 0>>} \cup UNION {HunkLines(i, h, f.hunks[h]) : h \in DOMAIN f.hunks}

DiffLines(d) == UNION {FileLines(i, d[i]) : i \in DOMAIN d}

\* git diff --unified=0 prints them in this order.
PrintedBefore(p, q) ==
    \/ p[1] < q[1]
    \/ p[1] = q[1] /\ p[2] < q[2]
    \/ p[1] = q[1] /\ p[2] = q[2] /\ p[3] < q[3]
    \/ p[1] = q[1] /\ p[2] = q[2] /\ p[3] = q[3] /\ p[4] < q[4]

HunkOf(p) == diff[p[1]].hunks[p[2]]

\* A changed line.
LineAt(p) == IF p[3] = 1 THEN HunkOf(p).removed[p[4]] ELSE HunkOf(p).added[p[4]]

ChangesInit ==
    /\ diff \in Diffs /\ origin \in Histories
    /\ unread = DiffLines(diff)
    /\ here = NoPlace /\ newLine = 0 /\ buckets = <<>> /\ message = "unread" /\ intents = <<>>

ChangesOff ==
    /\ diff = <<>> /\ origin = <<>> /\ unread = {}
    /\ here = NoPlace /\ newLine = 0 /\ buckets = <<>> /\ message = "off" /\ intents = <<>>

-----------------------------------------------------------------------------
(* extract                                                                  *)

\* The first method whose lines hold the number, "" if none does.
MethodAt(spans, n) ==
    LET at == {i \in DOMAIN spans : n \in spans[i].first .. spans[i].last}
    IN  IF at = {} THEN "" ELSE spans[CHOOSE i \in at : \A j \in at : i <= j].name

NoBucket == [added |-> 0, removed |-> 0, code |-> 0, before |-> {}, after |-> {},
             path |-> "", first |-> 0]

\* _record: the line counts for the method at the number, else for the class.
CountedWith(old, side, line) ==
    LET access == IF line.access = "" THEN {} ELSE {line.access} IN
    [added |-> old.added + (IF side = 2 THEN 1 ELSE 0),
     removed |-> old.removed + (IF side = 1 THEN 1 ELSE 0),
     code |-> old.code + (IF line.code THEN 1 ELSE 0),
     after |-> old.after \cup (IF side = 2 THEN access ELSE {}),
     before |-> old.before \cup (IF side = 1 THEN access ELSE {}),
     path |-> old.path, first |-> old.first]

Counting(side, line) ==
    LET target == <<here.class, MethodAt(here.spans, newLine)>>
        old == IF target \in DOMAIN buckets THEN buckets[target]
               ELSE [NoBucket EXCEPT !.path = here.path, !.first = newLine]
    IN  [t \in DOMAIN buckets \cup {target} |->
           IF t = target THEN CountedWith(old, side, line) ELSE buckets[t]]

\* Mutant: every line read is taken for a line of the new file.
NextLineAlways(side) == newLine + 1

\* Removed lines are not in the new file.
NextLine(side) == IF side = 2 THEN newLine + 1 ELSE newLine

\* The header of a deleted file, whose new path is /dev/null, is not
\* recognised: the file before stays.
ReadFileHeader(i) ==
    /\ here' = IF diff[i].deleted THEN here
               ELSE [path |-> diff[i].path, class |-> diff[i].class, spans |-> diff[i].spans]
    /\ UNCHANGED <<newLine, buckets>>

ReadHunkHeader(hunk) == newLine' = hunk.at /\ UNCHANGED <<here, buckets>>

\* A line that looks like a header is recorded for nothing and taken for a line
\* of the new file, also if it was removed.
ReadChanged(side, line) ==
    /\ UNCHANGED here
    /\ \/ here = NoPlace /\ UNCHANGED <<newLine, buckets>>
       \/ /\ here # NoPlace /\ line.header
          /\ newLine' = newLine + 1 /\ UNCHANGED buckets
       \/ /\ here # NoPlace /\ ~line.header
          /\ newLine' = NextLine(side) /\ buckets' = Counting(side, line)

ReadLine ==
    /\ \E p \in unread :
         /\ \A q \in unread : ~PrintedBefore(q, p)
         /\ unread' = unread \ {p}
         /\ \/ p[2] = 0 /\ ReadFileHeader(p[1])
            \/ p[2] # 0 /\ p[3] = 0 /\ ReadHunkHeader(HunkOf(p))
            \/ p[3] # 0 /\ ReadChanged(p[3], LineAt(p))
    /\ UNCHANGED <<diff, origin, message, intents>>

\* commit_message: what the author said, else the log of the range, if there is
\* one.
ReadMessage ==
    /\ unread = {} /\ message = "unread"
    /\ message' = IF origin.override # "" THEN origin.override
                  ELSE IF origin.base = "HEAD" \/ origin.log = "fails" THEN ""
                  ELSE origin.log
    /\ UNCHANGED <<diff, origin, unread, here, newLine, buckets, intents>>

-----------------------------------------------------------------------------
(* Classification                                                           *)

KnownIntents == {"bug_fix", "refactor", "new_feature", "trivial", "unclear"}

\* A number over 1 is a percentage, one up to 1 a share: 1 is all of it.
Share(percent) == IF percent = 1 THEN 100 ELSE Max({0, Min({100, percent})})

\* parse_intent: no JSON, or a category it does not know, is unclear.
ParseIntent(answer) ==
    IF ~answer.json \/ answer.category \notin KnownIntents
    THEN [category |-> "unclear", percent |-> 0]
    ELSE [category |-> answer.category, percent |-> Share(answer.percent)]

CommentOnly(target) == buckets[target].code = 0

\* What the classifier is told of the change.
Clues(target) ==
    [signature |-> buckets[target].before \cup buckets[target].after # {},
     access |-> buckets[target].before # buckets[target].after,
     said |-> message # ""]

\* Comments only: trivial, whoever says what.  Else the classifier is asked, and
\* what the author said goes before its answer.
Classify(target) ==
    /\ message \notin {"unread", "off"} /\ target \notin DOMAIN intents
    /\ \E answer \in Answers, author \in {"", "bug_fix", "refactor", "new_feature"} :
         LET made == IF CommentOnly(target) THEN [category |-> "trivial", percent |-> 100]
                     ELSE IF author # "" THEN [category |-> author, percent |-> 100]
                     ELSE ParseIntent(answer)
         IN  intents' = [t \in DOMAIN intents \cup {target} |->
                           IF t = target THEN [made |-> made, clues |-> Clues(target)]
                           ELSE intents[t]]
    /\ UNCHANGED <<diff, origin, unread, here, newLine, buckets, message>>

ChangesNext ==
    \/ ReadLine \/ ReadMessage
    \/ \E target \in DOMAIN buckets : Classify(target)

ChangesSpec == ChangesInit /\ [][ChangesNext]_changeVars

-----------------------------------------------------------------------------
\* The changed lines that are taken for such.
ChangedLines == {p \in DiffLines(diff) : p[3] # 0 /\ ~LineAt(p).header}

\* The line of the new file where p stands: a removed one where the new text of its
\* hunk begins.
StandsAt(p) == IF p[3] = 1 THEN HunkOf(p).at ELSE HunkOf(p).at + p[4] - 1

\* The removed lines of its hunk before p that look like headers.
HeadersBefore(p) ==
    {n \in DOMAIN HunkOf(p).removed : HunkOf(p).removed[n].header /\ (p[3] = 1 => n < p[4])}

\* Each of them moves p down by one line.
CountedAt(p) == StandsAt(p) + Cardinality(HeadersBefore(p))

Holder(p) == <<diff[p[1]].class, MethodAt(diff[p[1]].spans, CountedAt(p))>>

\* If no file was deleted, each changed line that does not look like a header (a
\* removed "--...", an added "++...": these are not counted, changes.py:90) counts
\* once: for the method that holds its line in the file now, or, behind removed
\* lines of its hunk that look like headers, for the one as many lines below; and
\* a change is called comments only if all its counted lines are.  Classes of one
\* name in two packages are counted as one.
ChangesAttributed ==
    unread = {} /\ (\A i \in DOMAIN diff : ~diff[i].deleted) =>
        /\ DOMAIN buckets = {Holder(p) : p \in ChangedLines}
        /\ \A t \in DOMAIN buckets :
             LET own == {p \in ChangedLines : Holder(p) = t}
             IN  /\ buckets[t].removed = Cardinality({p \in own : p[3] = 1})
                 /\ buckets[t].added = Cardinality({p \in own : p[3] = 2})
                 /\ CommentOnly(t) <=> \A p \in own : ~LineAt(p).code
=============================================================================
