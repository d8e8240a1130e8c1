------------------------------ MODULE LlmCalls ------------------------------
(***************************************************************************)
(* Calls of the language model (llm/metering.py, replay.py,                *)
(* model_cassette.py): every call passes the meter, which holds the token  *)
(* budget, and inside it the cassette, which records calls or replays      *)
(* them.  Meter and cassette are shared by the lanes of a run: the one     *)
(* conversation of the legacy engine, or the agent and its subagents,      *)
(* whose calls overlap in threads.                                         *)
(*                                                                         *)
(* A first process makes real calls, recording them or not, and may be     *)
(* killed; a second one replays what is on the disk, maybe with changed    *)
(* prompts or with the other engine.  A lane's next request is determined  *)
(* by the prompts and by the answers it had.                               *)
(***************************************************************************)
EXTENDS Integers, FiniteSets, SequencesExt

CONSTANTS
    Lanes,      \* conversations of a run
    Kind(_),    \* the system prompt of a lane
    Replies,    \* [text, usage]: text "more" or "final"; usage 0 if missing
    Budgets,    \* max_tokens of a run, NoBudget for None
    NoBudget,
    MaxAnswers  \* bound: answers of a lane

ASSUME LlmCallsAssumption ==
    /\ Replies \subseteq [text : {"more", "final"}, usage : Nat] /\ MaxAnswers \in Nat
    /\ Budgets \subseteq Nat \cup {NoBudget} /\ NoBudget \notin Nat
    /\ IsFiniteSet(Lanes)

VARIABLES
    stage,    \* "calling", "stopped", "killed", "refused" (no replay), "off"
    mode,     \* "live", "record" or "replay"
    engine,   \* "legacy" (cassette version 1) or "deep" (version 2)
    edition,  \* of prompts, model and tools
    lanes,    \* the lanes of this run
    max,      \* the budget
    pc,       \* lane -> where its call is
    history,  \* lane -> answers it had
    reply,    \* lane -> answer in hand
    seen,     \* lane -> total_tokens as loaded for its addition
    total,    \* total_tokens
    entries,  \* _entries: of the recorder, or of the file being replayed
    snap,     \* lane -> the entries it has turned to text
    disk,     \* the file: <<"none">>, <<"torn">> or <<version, entries>>
    cursor,
    made,     \* history of the first process: its answered calls
    given,    \* replayed answers with their requests
    spent,    \* tokens of the calls answered in this process
    raced,    \* some addition was lost between two lanes
    first     \* how the recording ended: pc and total

callVars == <<stage, mode, engine, edition, lanes, max, pc, history, reply, seen, total,
              entries, snap, disk, cursor, made, given, spent, raced, first>>

None == [text |-> "none", usage |-> 0]

\* request_key: model, system prompt, messages and tools.
Request(l) == [kind |-> Kind(l), edition |-> edition, messages |-> history[l]]

Version(e) == IF e = "deep" THEN "v2" ELSE "v1"

CallsInit ==
    /\ stage = "calling" /\ mode \in {"live", "record"} /\ engine \in {"legacy", "deep"}
    /\ edition = 1 /\ max \in Budgets
    /\ lanes \in (SUBSET Lanes) \ {{}}
    /\ engine = "legacy" => Cardinality(lanes) = 1
    /\ pc = [l \in Lanes |-> "idle"]
    /\ history = [l \in Lanes |-> <<>>]
    /\ reply = [l \in Lanes |-> None]
    /\ seen = [l \in Lanes |-> 0] /\ total = 0
    /\ entries = <<>> /\ snap = [l \in Lanes |-> <<>>] /\ disk = <<"none">> /\ cursor = 0
    /\ made = <<>> /\ given = {} /\ spent = 0 /\ raced = FALSE
    /\ first = [pc |-> [l \in Lanes |-> "none"], total |-> 0]

CallsOff ==
    /\ stage = "off" /\ mode = "live" /\ engine = "deep" /\ edition = 1 /\ lanes = {}
    /\ max = NoBudget /\ pc = <<>> /\ history = <<>> /\ reply = <<>> /\ seen = <<>>
    /\ total = 0 /\ entries = <<>> /\ snap = <<>> /\ disk = <<"none">> /\ cursor = 0
    /\ made = <<>> /\ given = {} /\ spent = 0 /\ raced = FALSE /\ first = <<>>

At(l, where) == stage = "calling" /\ l \in lanes /\ pc[l] = where

Go(l, where) == pc' = [pc EXCEPT ![l] = where]

-----------------------------------------------------------------------------
(* The meter before the call                                                *)

\* Mutant: the last token of the budget may be spent twice.
PastBudget == max # NoBudget /\ total > max

OverBudget == max # NoBudget /\ total >= max

\* Compared before the call; BudgetExceededError ends the lane.
Check(l) ==
    /\ At(l, "idle") /\ Len(history[l]) < MaxAnswers
    /\ Go(l, IF OverBudget THEN "failed"
             ELSE IF mode = "replay" THEN "replaying" ELSE "asked")
    /\ UNCHANGED <<stage, mode, engine, edition, lanes, max, history, reply, seen, total,
                   entries, snap, disk, cursor, made, given, spent, raced, first>>

-----------------------------------------------------------------------------
(* A real call, maybe recorded                                              *)

\* The gateway answers.
Answer(l) ==
    /\ At(l, "asked")
    /\ \E r \in Replies :
         /\ reply' = [reply EXCEPT ![l] = r]
         /\ spent' = spent + r.usage
         /\ made' = Append(made, [request |-> Request(l), reply |-> r])
    /\ Go(l, IF mode = "record" THEN "answered" ELSE "counting")
    /\ UNCHANGED <<stage, mode, engine, edition, lanes, max, history, seen, total,
                   entries, snap, disk, cursor, given, raced, first>>

\* GatewayCallError: no connection, no answer in time, not an answer.
GatewayFails(l) ==
    /\ At(l, "asked") /\ Go(l, "failed")
    /\ UNCHANGED <<stage, mode, engine, edition, lanes, max, history, reply, seen, total,
                   entries, snap, disk, cursor, made, given, spent, raced, first>>

\* The call joins the list in memory ...
Note(l) ==
    /\ At(l, "answered") /\ Go(l, "noted")
    /\ entries' = Append(entries, [request |-> Request(l), reply |-> reply[l]])
    /\ UNCHANGED <<stage, mode, engine, edition, lanes, max, history, reply, seen, total,
                   snap, disk, cursor, made, given, spent, raced, first>>

\* Mutant: only the newest call is written.
Newest == <<Last(entries)>>

Snapshot == entries

\* ... which is turned to text as a whole ...
Dump(l) ==
    /\ At(l, "noted") /\ Go(l, "dumped")
    /\ snap' = [snap EXCEPT ![l] = Snapshot]
    /\ UNCHANGED <<stage, mode, engine, edition, lanes, max, history, reply, seen, total,
                   entries, disk, cursor, made, given, spent, raced, first>>

\* ... the file opened, which empties it ...
Open(l) ==
    /\ At(l, "dumped") /\ Go(l, "opened")
    /\ disk' = <<"torn">>
    /\ UNCHANGED <<stage, mode, engine, edition, lanes, max, history, reply, seen, total,
                   entries, snap, cursor, made, given, spent, raced, first>>

\* ... and written from its start, over what another lane wrote meanwhile: a
\* longer text leaves its tail.
Write(l) ==
    /\ At(l, "opened") /\ Go(l, "counting")
    /\ disk' = IF Head(disk) \in {"v1", "v2"} /\ Len(disk[2]) > Len(snap[l])
               THEN <<"torn">> ELSE <<Version(engine), snap[l]>>
    /\ UNCHANGED <<stage, mode, engine, edition, lanes, max, history, reply, seen, total,
                   entries, snap, cursor, made, given, spent, raced, first>>

-----------------------------------------------------------------------------
(* A replayed call                                                          *)

\* Mutant: a request of the same messages will do, model and tools unseen.
SimilarRequest(a, b) == a.kind = b.kind /\ a.messages = b.messages

SameRequest(a, b) == a = b

\* The entry under the cursor must be the request's.  A version 2 file read by
\* the legacy engine is no list: its first use raises.
Fits(l) ==
    /\ cursor < Len(entries) /\ Head(disk) = Version(engine)
    /\ SameRequest(entries[cursor + 1].request, Request(l))

\* Anything else is a CassetteError.
Match(l) ==
    /\ At(l, "replaying")
    /\ reply' = IF Fits(l) THEN [reply EXCEPT ![l] = entries[cursor + 1].reply] ELSE reply
    /\ Go(l, IF Fits(l) THEN "matched" ELSE "failed")
    /\ UNCHANGED <<stage, mode, engine, edition, lanes, max, history, seen, total,
                   entries, snap, disk, cursor, made, given, spent, raced, first>>

Advance(l) ==
    /\ At(l, "matched") /\ Go(l, "counting")
    /\ cursor' = cursor + 1
    /\ given' = given \cup {[request |-> Request(l), reply |-> reply[l]]}
    /\ spent' = spent + reply[l].usage
    /\ UNCHANGED <<stage, mode, engine, edition, lanes, max, history, reply, seen, total,
                   entries, snap, disk, made, raced, first>>

-----------------------------------------------------------------------------
(* The meter after the call                                                 *)

\* Mutant: replayed calls are not counted (the meter inside the cassette).
CountedLive(l) == IF mode = "replay" THEN 0 ELSE reply[l].usage

Counted(l) == reply[l].usage

\* total_tokens is loaded before int(...) is called and stored after it.
Load(l) ==
    /\ At(l, "counting") /\ Go(l, "adding")
    /\ seen' = [seen EXCEPT ![l] = total]
    /\ UNCHANGED <<stage, mode, engine, edition, lanes, max, history, reply, total,
                   entries, snap, disk, cursor, made, given, spent, raced, first>>

\* The lane goes on with the answer, or is done with the last one.
Store(l) ==
    /\ At(l, "adding")
    /\ total' = seen[l] + Counted(l)
    /\ raced' = (raced \/ total # seen[l])
    /\ history' = [history EXCEPT ![l] = Append(@, reply[l])]
    /\ Go(l, IF reply[l].text = "final" THEN "done" ELSE "idle")
    /\ UNCHANGED <<stage, mode, engine, edition, lanes, max, reply, seen,
                   entries, snap, disk, cursor, made, given, spent, first>>

-----------------------------------------------------------------------------
(* The processes                                                            *)

Stop ==
    /\ stage = "calling"
    /\ \A l \in lanes : pc[l] \in {"done", "failed"} \/ Len(history[l]) = MaxAnswers
    /\ stage' = "stopped"
    /\ first' = IF mode = "record" THEN [pc |-> pc, total |-> total] ELSE first
    /\ UNCHANGED <<mode, engine, edition, lanes, max, pc, history, reply, seen, total,
                   entries, snap, disk, cursor, made, given, spent, raced>>

Kill ==
    /\ stage = "calling" /\ mode = "record"
    /\ stage' = "killed"
    /\ UNCHANGED <<mode, engine, edition, lanes, max, pc, history, reply, seen, total,
                   entries, snap, disk, cursor, made, given, spent, raced, first>>

\* No file, text that is no JSON and, for the deep engine, another version are
\* refused when the replay is set up; nothing falls back to real calls.
Refused(e) == Head(disk) \in {"none", "torn"} \/ (e = "deep" /\ Head(disk) # "v2")

StartReplay ==
    /\ stage \in {"stopped", "killed"} /\ mode = "record"
    /\ mode' = "replay"
    /\ engine' \in {"legacy", "deep"} /\ edition' \in {1, 2}
    /\ engine' = "legacy" => Cardinality(lanes) = 1
    /\ stage' = IF Refused(engine') THEN "refused" ELSE "calling"
    /\ entries' = IF Refused(engine') THEN <<>> ELSE disk[2]
    /\ cursor' = 0 /\ total' = 0 /\ spent' = 0 /\ raced' = FALSE
    /\ pc' = [l \in Lanes |-> "idle"]
    /\ history' = [l \in Lanes |-> <<>>]
    /\ reply' = [l \in Lanes |-> None]
    /\ seen' = [l \in Lanes |-> 0]
    /\ snap' = [l \in Lanes |-> <<>>]
    /\ UNCHANGED <<lanes, max, disk, made, given, first>>

LaneNext(l) ==
    \/ Check(l) \/ Answer(l) \/ GatewayFails(l)
    \/ Note(l) \/ Dump(l) \/ Open(l) \/ Write(l)
    \/ Match(l) \/ Advance(l) \/ Load(l) \/ Store(l)

CallsNext == (\E l \in Lanes : LaneNext(l)) \/ Stop \/ Kill \/ StartReplay

CallsSpec == CallsInit /\ [][CallsNext]_callVars

-----------------------------------------------------------------------------
OneLane == Cardinality(lanes) = 1

\* A recording by one lane holds every call but the one in hand, whenever the
\* process ends, save inside the writing itself: the file is opened, which empties
\* it, before it is written, so a kill between the two loses every call (the disk
\* is "torn" then, and no replay starts from it).
RecordingKeeps ==
    stage # "off" /\ mode = "record" /\ OneLane =>
        LET l == CHOOSE x \in lanes : TRUE
            before == IF pc[l] \in {"answered", "noted", "dumped"} THEN Front(made) ELSE made
        IN  pc[l] # "opened" =>
              disk = IF before = <<>> THEN <<"none">> ELSE <<Version(engine), before>>

\* A replay never answers with what another request was answered, whatever
\* lanes do and whichever prompts changed.
ReplayedAsRecorded == given \subseteq Range(made)

\* A recording of one lane that was not killed is replayed to the same end,
\* with the same tokens counted, by the same engine and prompts.
ReplayEndsTheSame ==
    stage = "stopped" /\ mode = "replay" /\ OneLane /\ edition = 1 =>
        \A l \in lanes :
            first.pc[l] # "none" /\ Head(disk) = Version(engine) =>
                pc[l] = first.pc[l] /\ total = first.total

\* The budget is passed by less than one call of each lane, unless an addition
\* was lost between two lanes; a budget of 0 is not touched.
BudgetOvershoot ==
    stage # "off" /\ max # NoBudget /\ ~raced =>
        \/ spent = 0
        \/ \E r \in Replies : spent < max + Cardinality(lanes) * r.usage
=============================================================================
