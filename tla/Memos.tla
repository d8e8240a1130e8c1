------------------------------- MODULE Memos -------------------------------
(***************************************************************************)
(* Memos of answers (cli/memos.py, llm/embeddings.py): resolve saves what   *)
(* the person decided, maintain shows similar earlier decisions with every  *)
(* change: those of the same method, then of the same class, then those     *)
(* whose situation was alike by the cosine of embeddings.  Embeddings come  *)
(* from the gateway, which may be missing, fail, or be set to another model *)
(* later.  Commands may be killed while they write.                         *)
(***************************************************************************)
EXTENDS Integers, FiniteSets, SequencesExt

CONSTANTS
    MemoTargets, \* methods, [class, method]
    Messages,    \* commit messages
    Alike(_, _), \* cosine of two vectors of one length, in percent
    Models,      \* embedding deployments, [name, size of its vectors]
    NoModel,
    MaxShown,    \* memos shown with a change, 3 in the code
    MaxMemos,    \* bound: memos saved
    LastInstant  \* bound: readings of the clock

SimilarityMin == 35

ASSUME MemosAssumption ==
    /\ \A a, b \in [model : Models, of : Messages \X MemoTargets] : Alike(a, b) \in 0 .. 100
    /\ MaxShown \in Nat \ {0} /\ MaxMemos \in Nat /\ LastInstant \in Nat

VARIABLES
    memoStage,   \* "idle", "looking" (maintain), "dead" (a command ended by an exception), "off"
    clock,       \* datetime.now(), which two memos may share; assumed not to step back
    memoFiles,   \* .cta/memos: <<instant, seq>> -> memo, or Torn
    deployed,    \* the gateway's embedding model, NoModel if not set up
    embedder,    \* of this maintain
    embedFailed, \* embed_failed
    asked,       \* target of the lookup made last, <<>> if a memo was saved since
    shown,       \* its memos
    saved        \* history: memos as saved, oldest first

memoVars == <<memoStage, clock, memoFiles, deployed, embedder, embedFailed, asked, shown, saved>>

Torn == [number |-> 0]
NoVector == [model |-> NoModel, of |-> "nothing"]

MemosInit ==
    /\ memoStage = "idle" /\ clock = 0 /\ memoFiles = <<>> /\ deployed \in Models \cup {NoModel}
    /\ embedder = NoModel /\ embedFailed = FALSE /\ asked = <<>> /\ shown = <<>> /\ saved = <<>>

MemosOff ==
    /\ memoStage = "off" /\ clock = 0 /\ memoFiles = <<>> /\ deployed = NoModel
    /\ embedder = NoModel /\ embedFailed = FALSE /\ asked = <<>> /\ shown = <<>> /\ saved = <<>>

\* situation_text: the message and the target make the text that is embedded.
Situation(message, target) == <<message, target>>

-----------------------------------------------------------------------------
(* Saving                                                                   *)

\* Mutant: the name is the instant alone.
InstantAlone(n) == n = 0

\* The first free number within the instant.
FreeNumber(n) ==
    /\ <<clock, n>> \notin DOMAIN memoFiles
    /\ \A k \in 0 .. (n - 1) : <<clock, k>> \in DOMAIN memoFiles

\* embed: the gateway answers with a vector, or the call fails.
Embed(model, situation) == {[model |-> model, of |-> situation], NoVector}

\* A vector of the situation, or none: no gateway, or no usable answer.
Vectors(model, situation) ==
    IF model = NoModel THEN {NoVector} ELSE Embed(model, situation)

WithFile(name, memo) ==
    [a \in DOMAIN memoFiles \cup {name} |-> IF a = name THEN memo ELSE memoFiles[a]]

\* _remember: the memo is saved with or without its vector.  A kill within the
\* write leaves a file that is no JSON.
Remember ==
    /\ memoStage \in {"idle", "looking"} /\ Cardinality(DOMAIN memoFiles) < MaxMemos
    /\ Len(saved) < MaxMemos
    /\ \E target \in MemoTargets, message \in Messages, n \in 0 .. MaxMemos :
         \E vector \in Vectors(deployed, Situation(message, target)) :
           LET memo == [target |-> target, embedding |-> vector, number |-> Len(saved) + 1]
           IN  /\ FreeNumber(n)
               /\ \/ memoFiles' = WithFile(<<clock, n>>, memo) /\ saved' = Append(saved, memo)
                  \/ memoFiles' = WithFile(<<clock, n>>, Torn) /\ UNCHANGED saved
    /\ asked' = <<>> /\ shown' = <<>>
    /\ UNCHANGED <<memoStage, clock, deployed, embedder, embedFailed>>

-----------------------------------------------------------------------------
(* Searching                                                                *)

\* list_memos, by file name; one torn file raises.
Earlier(a, b) == a[1] < b[1] \/ (a[1] = b[1] /\ a[2] < b[2])
Readable == \A name \in DOMAIN memoFiles : memoFiles[name] # Torn

\* The embedder is looked up once, and only when some memo has a vector.
BeginMaintain ==
    /\ memoStage = "idle"
    /\ memoStage' = IF Readable THEN "looking" ELSE "dead"
    /\ embedder' = IF Readable /\ \E name \in DOMAIN memoFiles : memoFiles[name].embedding # NoVector
                   THEN deployed ELSE NoModel
    /\ embedFailed' = FALSE /\ asked' = <<>> /\ shown' = <<>>
    /\ UNCHANGED <<clock, memoFiles, deployed, saved>>

\* cosine: 0 between vectors of different lengths.  A memo does not say of which
\* model its vector is: those of two models are compared if they are as long.
Cosine(a, b) == IF a.model.size # b.model.size THEN 0 ELSE Alike(a, b)

\* Same method, same class, or another.
Distance(memo, target) ==
    IF memo.target = target THEN 0 ELSE IF memo.target.class = target.class THEN 1 ELSE 2

Score(vector, memo) == Cosine(vector, memo.embedding)

Matches(target, vector) ==
    {a \in DOMAIN memoFiles : LET memo == memoFiles[a] IN
        \/ Distance(memo, target) < 2
        \/ vector # NoVector /\ memo.embedding # NoVector /\ Score(vector, memo) >= SimilarityMin}

\* Names first, the newest first; then by falling cosine, older ones first among
\* equals.
Precedes(target, vector, a, b) ==
    LET m == memoFiles[a]
        n == memoFiles[b]
        d == Distance(m, target)
    IN  \/ d < Distance(n, target)
        \/ /\ d = Distance(n, target)
           /\ \/ d < 2 /\ Earlier(b, a)
              \/ d = 2 /\ Score(vector, m) > Score(vector, n)
              \/ d = 2 /\ Score(vector, m) = Score(vector, n) /\ Earlier(a, b)

Preceding(target, vector, a) ==
    {b \in Matches(target, vector) : Precedes(target, vector, b, a)}

\* find_similar: the first of these.
FindSimilar(target, vector) ==
    LET matches == Matches(target, vector)
        room == Cardinality(matches)
    IN  [k \in 1 .. (IF room < MaxShown THEN room ELSE MaxShown) |->
           memoFiles[CHOOSE a \in matches : Cardinality(Preceding(target, vector, a)) = k - 1]]

\* memo_lookup for one change; the first failure of the gateway ends embedding
\* for this maintain.
Lookup ==
    /\ memoStage = "looking"
    /\ \E target \in MemoTargets, message \in Messages :
         /\ asked' = <<target>>
         /\ IF ~Readable
            THEN memoStage' = "dead" /\ shown' = <<>> /\ UNCHANGED embedFailed
            ELSE \E vector \in Vectors(IF embedFailed THEN NoModel ELSE embedder,
                                      Situation(message, target)) :
                   /\ shown' = FindSimilar(target, vector)
                   /\ embedFailed' = (embedder # NoModel /\ vector = NoVector)
                   /\ UNCHANGED memoStage
    /\ UNCHANGED <<clock, memoFiles, deployed, embedder, saved>>

EndMaintain ==
    /\ memoStage \in {"looking", "dead"} /\ memoStage' = "idle"
    /\ shown' = <<>> /\ asked' = <<>> /\ embedFailed' = FALSE /\ embedder' = NoModel
    /\ UNCHANGED <<clock, memoFiles, deployed, saved>>

-----------------------------------------------------------------------------
(* Surroundings                                                             *)

\* Names are local wall-clock times: that it is not set back (by hand, or at the end
\* of summer time) is an assumption of DecisionsResurface, not something the code sees to.
Tick ==
    /\ memoStage = "idle" /\ clock < LastInstant /\ clock' = clock + 1
    /\ UNCHANGED <<memoStage, memoFiles, deployed, embedder, embedFailed, asked, shown, saved>>

\* Other settings between two commands.
Configure ==
    /\ memoStage = "idle" /\ deployed' \in Models \cup {NoModel}
    /\ UNCHANGED <<memoStage, clock, memoFiles, embedder, embedFailed, asked, shown, saved>>

\* The person removes a file that cannot be read, which takes time.
Tidy ==
    /\ memoStage = "idle" /\ ~Readable /\ clock < LastInstant /\ clock' = clock + 1
    /\ memoFiles' = [name \in {n \in DOMAIN memoFiles : memoFiles[n] # Torn} |-> memoFiles[name]]
    /\ UNCHANGED <<memoStage, deployed, embedder, embedFailed, asked, shown, saved>>

MemosNext == \/ Remember \/ BeginMaintain \/ Lookup \/ EndMaintain
             \/ Tick \/ Configure \/ Tidy

MemosSpec == MemosInit /\ [][MemosNext]_memoVars

-----------------------------------------------------------------------------
\* What is shown with a change: no decision about this method is left out while
\* there is room or something lesser is shown, the newest of them stands first,
\* and nothing is shown twice -- whichever memos share an instant, have no
\* vector or one of another model, and however many are alike, while the clock
\* is not set back.  A torn memo file ends every maintain until it is removed:
\* then nothing is shown.
DecisionsResurface ==
    memoStage = "looking" /\ asked # <<>> =>
        LET own == {i \in DOMAIN saved : saved[i].target = asked[1]}
            top == {i \in own : Cardinality({j \in own : j > i}) < MaxShown}
        IN  /\ Len(shown) <= MaxShown /\ IsInjective(shown)
            /\ \A i \in top : saved[i] \in Range(shown)
            /\ \A i, j \in own : \A p, q \in DOMAIN shown :
                 i > j /\ shown[p] = saved[i] /\ shown[q] = saved[j] => p < q
            /\ \A p \in DOMAIN shown : p > Cardinality(top) => shown[p].target # asked[1]
=============================================================================
