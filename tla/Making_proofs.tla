--------------------------- MODULE Making_proofs ----------------------------
(***************************************************************************)
(* Proofs about how tests are made and judged, for any files, tests,       *)
(* lanes, prompts, answers, budgets, settings, thresholds, cases, and      *)
(* number of rounds and attempts: what is recorded and replayed (cassette) *)
(* and what is spent (meter), in LlmCalls; what a client is made of, in    *)
(* Settings; the main sources while old code is swapped in and the         *)
(* coverage report that is read, in ToolRuns; the asserts of an accepted   *)
(* test file, in TestMaking; and the rows of evaluations.                  *)
(***************************************************************************)
EXTENDS LlmCalls, Settings, ToolRuns, TestMaking, Evaluation, SequenceTheorems,
        FiniteSetTheorems, WellFoundedInduction, TLAPS

-----------------------------------------------------------------------------
(***************************************************************************)
(* Calls recorded and replayed                                             *)
(***************************************************************************)

Calls == Range(made)

CallOf(l) == [request |-> Request(l), reply |-> reply[l]]

\* Whatever is kept of calls, in memory, on the disk or by a lane between two
\* steps, is a call that was made.
OnRecord ==
    /\ made \in Seq(Calls)
    /\ \A c \in Calls : c = [request |-> c.request, reply |-> c.reply]
    /\ entries \in Seq(Calls) /\ cursor \in Nat
    /\ DOMAIN pc = Lanes /\ DOMAIN reply = Lanes /\ DOMAIN history = Lanes /\ DOMAIN snap = Lanes
    /\ \A l \in Lanes : snap[l] \in Seq(Calls)
    /\ \/ disk \in {<<"none">>, <<"torn">>}
       \/ \E v \in {"v1", "v2"}, s \in Seq(Calls) : disk = <<v, s>>
    /\ \A l \in Lanes : pc[l] \in {"answered", "matched"} => CallOf(l) \in Calls
    /\ ReplayedAsRecorded

LEMMA RangeIsCalls == ReplayedAsRecorded <=> given \subseteq Calls
  BY DEF ReplayedAsRecorded, Calls

LEMMA InitRecorded == CallsInit => OnRecord
<1> SUFFICES ASSUME CallsInit PROVE OnRecord
  OBVIOUS
<1>1. made = <<>> /\ Calls = {}
  BY DEF CallsInit, Calls, Range
<1>2. <<>> \in Seq(Calls)
  BY EmptySeq
<1> QED
  BY <1>1, <1>2 DEF CallsInit, OnRecord, ReplayedAsRecorded

\* A sequence of calls that were made stays one when another call is made.
LEMMA MoreCalls ==
    ASSUME NEW S, NEW T, S \subseteq T, NEW s \in Seq(S) PROVE s \in Seq(T)
<1>1. Len(s) \in Nat /\ DOMAIN s = 1..Len(s) /\ \A i \in 1..Len(s) : s[i] \in T
  BY LenProperties, ElementOfSeq
<1> QED
  BY <1>1, LenProperties

LEMMA MadeGrows ==
    ASSUME made \in Seq(Calls), NEW c, made' = Append(made, c)
    PROVE  /\ Calls' = Calls \cup {c} /\ made' \in Seq(Calls')
<1>1. made \in Seq(Calls \cup {c}) /\ c \in Calls \cup {c}
  BY MoreCalls
<1>2. /\ made' \in Seq(Calls \cup {c}) /\ Len(made') = Len(made) + 1 /\ Len(made) \in Nat
      /\ made'[Len(made) + 1] = c /\ \A i \in 1..Len(made) : made'[i] = made[i]
  BY <1>1, AppendProperties, LenProperties
<1>3. Range(made') = {made'[i] : i \in 1..Len(made')}
  BY <1>2, RangeEquality
<1>4. Range(made) = {made[i] : i \in 1..Len(made)}
  BY <1>1, RangeEquality
<1>5. Calls' = Calls \cup {c}
  BY <1>2, <1>3, <1>4 DEF Calls
<1> QED
  BY <1>2, <1>5

LEMMA NextRecorded == OnRecord /\ [CallsNext]_callVars => OnRecord'
<1> SUFFICES ASSUME OnRecord, [CallsNext]_callVars PROVE OnRecord'
  OBVIOUS
<1>g. given \subseteq Calls
  BY RangeIsCalls DEF OnRecord
\* A step that keeps nothing new of a call.
<1>1. ASSUME UNCHANGED <<made, entries, cursor, disk, given, edition, reply>>,
             DOMAIN pc' = Lanes, DOMAIN history' = Lanes, DOMAIN snap' = Lanes,
             \A l \in Lanes : snap'[l] \in Seq(Calls),
             \A l \in Lanes : pc'[l] \in {"answered", "matched"} =>
                                pc'[l] = pc[l] /\ history'[l] = history[l]
      PROVE  OnRecord'
  <2>1. Calls' = Calls
    BY <1>1 DEF Calls
  <2>2. \A l \in Lanes : history'[l] = history[l] => CallOf(l)' = CallOf(l)
    BY <1>1 DEF CallOf, Request
  <2> QED
    BY <1>1, <2>1, <2>2 DEF OnRecord, ReplayedAsRecorded
<1>2. ASSUME NEW l \in Lanes, Check(l) \/ GatewayFails(l) \/ Load(l)
      PROVE  OnRecord'
  BY <1>1, <1>2 DEF Check, GatewayFails, Load, Go, OnRecord
<1>3. ASSUME NEW l \in Lanes, Answer(l) PROVE OnRecord'
  <2>1. PICK r \in Replies : /\ reply' = [reply EXCEPT ![l] = r]
                             /\ made' = Append(made, [request |-> Request(l), reply |-> r])
    BY <1>3 DEF Answer
  <2> DEFINE c == [request |-> Request(l), reply |-> r]
  <2>2. /\ UNCHANGED <<entries, cursor, disk, given, edition, history, snap>>
        /\ DOMAIN pc' = Lanes /\ \A k \in Lanes : k # l => pc'[k] = pc[k]
    BY <1>3 DEF Answer, Go, OnRecord
  <2>3. Calls' = Calls \cup {c} /\ made' \in Seq(Calls')
    BY <2>1, MadeGrows DEF OnRecord
  <2>4. c = [request |-> c.request, reply |-> c.reply]
    OBVIOUS
  <2>5. CallOf(l)' = c /\ \A k \in Lanes : k # l => CallOf(k)' = CallOf(k)
    BY <2>1, <2>2 DEF CallOf, Request, OnRecord
  <2> HIDE DEF c
  <2>6. \A s \in Seq(Calls) : s \in Seq(Calls')
    BY <2>3, MoreCalls
  <2>7. \/ disk' \in {<<"none">>, <<"torn">>}
        \/ \E v \in {"v1", "v2"}, s \in Seq(Calls') : disk' = <<v, s>>
    BY <2>2, <2>6 DEF OnRecord
  <2>8. /\ entries' \in Seq(Calls') /\ cursor' \in Nat /\ DOMAIN reply' = Lanes
        /\ DOMAIN history' = Lanes /\ DOMAIN snap' = Lanes
        /\ \A k \in Lanes : snap'[k] \in Seq(Calls')
    BY <2>1, <2>2, <2>6 DEF OnRecord
  <2>9. \A k \in Lanes : pc'[k] \in {"answered", "matched"} => CallOf(k)' \in Calls'
    BY <2>2, <2>3, <2>5 DEF OnRecord
  <2>10. ReplayedAsRecorded' /\ \A d \in Calls' : d = [request |-> d.request, reply |-> d.reply]
    BY <1>g, <2>2, <2>3, <2>4 DEF OnRecord, ReplayedAsRecorded, Calls
  <2> QED
    BY <2>2, <2>3, <2>7, <2>8, <2>9, <2>10 DEF OnRecord
<1>4. ASSUME NEW l \in Lanes, Note(l) PROVE OnRecord'
  <2>1. /\ UNCHANGED <<made, cursor, disk, given, edition, reply, history, snap>>
        /\ entries' = Append(entries, CallOf(l)) /\ pc[l] = "answered"
        /\ pc' = [pc EXCEPT ![l] = "noted"]
    BY <1>4 DEF Note, Go, At, CallOf
  <2>2. entries' \in Seq(Calls) /\ Calls' = Calls
    BY <2>1, AppendProperties DEF OnRecord, Calls
  <2>3. \A k \in Lanes : CallOf(k)' = CallOf(k)
    BY <2>1 DEF CallOf, Request
  <2> QED
    BY <2>1, <2>2, <2>3 DEF OnRecord, ReplayedAsRecorded
<1>5. ASSUME NEW l \in Lanes, Dump(l) PROVE OnRecord'
  BY <1>1, <1>5 DEF Dump, Go, Snapshot, OnRecord
<1>6. ASSUME NEW l \in Lanes, Open(l) \/ Write(l) PROVE OnRecord'
  <2>1. /\ UNCHANGED <<made, cursor, given, edition, reply, history, snap, entries>>
        /\ DOMAIN pc' = Lanes
        /\ \A k \in Lanes : pc'[k] \in {"answered", "matched"} => pc'[k] = pc[k]
    BY <1>6 DEF Open, Write, Go, OnRecord
  <2>2. \/ disk' = <<"torn">>
        \/ \E v \in {"v1", "v2"}, s \in Seq(Calls) : disk' = <<v, s>>
    BY <1>6 DEF Open, Write, Version, OnRecord
  <2>3. Calls' = Calls /\ \A k \in Lanes : CallOf(k)' = CallOf(k)
    BY <2>1 DEF CallOf, Request, Calls
  <2> QED
    BY <2>1, <2>2, <2>3 DEF OnRecord, ReplayedAsRecorded
<1>7. ASSUME NEW l \in Lanes, Match(l) PROVE OnRecord'
  <2>1. UNCHANGED <<made, cursor, given, edition, history, snap, entries, disk>>
    BY <1>7 DEF Match
  <2>2. CASE ~Fits(l)
    BY <1>1, <1>7, <2>2 DEF Match, Go, OnRecord
  <2>3. CASE Fits(l)
    <3> DEFINE m == entries[cursor + 1]
    <3>1. m \in Calls /\ m.request = Request(l)
      <4>1. cursor + 1 \in 1..Len(entries)
        BY <2>3, LenProperties DEF Fits, OnRecord
      <4> QED
        BY <2>3, <4>1, ElementOfSeq DEF Fits, SameRequest, OnRecord
    <3>2. reply' = [reply EXCEPT ![l] = m.reply] /\ pc' = [pc EXCEPT ![l] = "matched"]
      BY <1>7, <2>3 DEF Match, Go
    <3> HIDE DEF m
    <3>3. CallOf(l)' = [request |-> m.request, reply |-> m.reply]
      BY <2>1, <3>1, <3>2 DEF CallOf, Request, OnRecord
    <3>4. Calls' = Calls /\ CallOf(l)' \in Calls
      BY <2>1, <3>1, <3>3 DEF OnRecord, Calls
    <3>5. \A k \in Lanes : k # l => CallOf(k)' = CallOf(k)
      BY <2>1, <3>2 DEF CallOf, Request, OnRecord
    <3> QED
      BY <2>1, <3>2, <3>4, <3>5 DEF OnRecord, ReplayedAsRecorded
  <2> QED
    BY <2>2, <2>3
<1>8. ASSUME NEW l \in Lanes, Advance(l) PROVE OnRecord'
  <2>1. /\ UNCHANGED <<made, edition, reply, history, snap, entries, disk>>
        /\ pc[l] = "matched" /\ pc' = [pc EXCEPT ![l] = "counting"]
        /\ cursor' = cursor + 1 /\ given' = given \cup {CallOf(l)}
    BY <1>8 DEF Advance, At, Go, CallOf
  <2>2. cursor' \in Nat
    BY <2>1 DEF OnRecord
  <2>3. Calls' = Calls /\ \A k \in Lanes : CallOf(k)' = CallOf(k)
    BY <2>1 DEF CallOf, Request, Calls
  <2>4. ReplayedAsRecorded'
    BY <1>g, <2>1, <2>3 DEF OnRecord, ReplayedAsRecorded, Calls
  <2> QED
    BY <2>1, <2>2, <2>3, <2>4 DEF OnRecord
<1>9. ASSUME NEW l \in Lanes, Store(l) PROVE OnRecord'
  <2>1. /\ history' = [history EXCEPT ![l] = Append(@, reply[l])]
        /\ pc' = [pc EXCEPT ![l] = IF reply[l].text = "final" THEN "done" ELSE "idle"]
        /\ UNCHANGED <<made, entries, cursor, disk, given, edition, reply, snap>>
    BY <1>9 DEF Store, Go
  <2> QED
    BY <1>1, <2>1 DEF OnRecord
<1>10. CASE Stop \/ Kill \/ UNCHANGED callVars
  BY <1>1, <1>10 DEF Stop, Kill, callVars, OnRecord
<1>11. CASE StartReplay
  <2>1. /\ pc' = [l \in Lanes |-> "idle"] /\ history' = [l \in Lanes |-> <<>>]
        /\ reply' = [l \in Lanes |-> None] /\ snap' = [l \in Lanes |-> <<>>]
        /\ cursor' = 0 /\ UNCHANGED <<disk, made, given>>
    BY <1>11 DEF StartReplay
  <2>2. Calls' = Calls /\ <<>> \in Seq(Calls)
    BY <2>1, EmptySeq DEF Calls
  <2>3. entries' \in Seq(Calls)
    <3>1. CASE disk \in {<<"none">>, <<"torn">>}
      <4>1. \A e : Refused(e)
        BY <3>1 DEF Refused
      <4> QED
        BY <1>11, <2>2, <4>1 DEF StartReplay
    <3>2. ASSUME NEW v \in {"v1", "v2"}, NEW s \in Seq(Calls), disk = <<v, s>>
          PROVE  entries' \in Seq(Calls)
      BY <1>11, <2>2, <3>2 DEF StartReplay
    <3> QED
      BY <3>1, <3>2 DEF OnRecord
  <2> QED
    BY <2>1, <2>2, <2>3 DEF OnRecord, ReplayedAsRecorded
<1> QED
  BY <1>2, <1>3, <1>4, <1>5, <1>6, <1>7, <1>8, <1>9, <1>10, <1>11 DEF CallsNext, LaneNext

\* A replay answers a request with what that very request was answered, for any
\* number of overlapping lanes, after any kill and with any change of prompts.
THEOREM ReplayIsFaithful == CallsSpec => []ReplayedAsRecorded
<1>1. OnRecord => ReplayedAsRecorded
  BY DEF OnRecord
<1> QED
  BY <1>1, InitRecorded, NextRecorded, PTL DEF CallsSpec

(***************************************************************************)
(* The budget                                                              *)
(***************************************************************************)

\* Lanes between the check and the end of the call, and of them those whose
\* answer is spent but not yet counted.
Past == {l \in lanes : pc[l] \notin {"idle", "done", "failed"}}

Owing == {l \in lanes : pc[l] \in {"answered", "noted", "dumped", "opened", "counting", "adding"}}

\* One element for each token of the answers f of the lanes S.
Tokens(S, f) == {t \in S \X (Nat \ {0}) : t[2] <= f[t[1]].usage}

MoneyTypes ==
    /\ lanes \subseteq Lanes /\ DOMAIN pc = Lanes /\ DOMAIN reply = Lanes /\ DOMAIN seen = Lanes
    /\ max \in Budgets /\ total \in Nat /\ spent \in Nat
    /\ \A l \in lanes : seen[l] \in Nat
    /\ \A l \in lanes : l \in Owing \/ pc[l] = "matched" => reply[l] \in Replies
    /\ \A c \in Calls : c.reply \in Replies

\* What is spent and not counted is in the hands of the lanes.
Balance ==
    /\ IsFiniteSet(Tokens(Owing, reply))
    /\ ~raced => spent = total + Cardinality(Tokens(Owing, reply))

\* Lanes past the check went there below the budget, so what is counted passes it
\* by the calls that ended since, and those are of other lanes.
Bounded(usage) ==
    /\ \A l \in Owing : reply[l].usage <= usage
    /\ total < max + (Cardinality(lanes) - Cardinality(Past)) * usage

Within ==
    max # NoBudget /\ ~raced =>
        \/ total = 0 /\ Owing = {} /\ (Past # {} => max > 0)
        \/ \E r \in Replies : Bounded(r.usage)

MoneyInv == MoneyTypes /\ Balance /\ Within

LEMMA UsageType == \A r \in Replies : r.usage \in Nat
BY LlmCallsAssumption

LEMMA ProductMonotonic ==
    ASSUME NEW a \in Nat, NEW b \in Nat, NEW c \in Nat, b <= c PROVE a * b <= a * c
OBVIOUS

LEMMA NoTokens == ASSUME NEW f PROVE Cardinality(Tokens({}, f)) = 0
<1>1. Tokens({}, f) = {}
  BY DEF Tokens
<1> QED
  BY <1>1, FS_EmptySet

\* The tokens of answers of at most u tokens are at most u for each lane.
LEMMA TokensBound ==
    ASSUME NEW S, IsFiniteSet(S), NEW f, NEW u \in Nat,
           \A l \in S : f[l].usage \in Nat /\ f[l].usage <= u
    PROVE  /\ IsFiniteSet(Tokens(S, f)) /\ Cardinality(Tokens(S, f)) \in Nat
           /\ Cardinality(Tokens(S, f)) <= Cardinality(S) * u
<1>1. IsFiniteSet(1..u) /\ Cardinality(1..u) = u
  BY FS_Interval
<1>2. IsFiniteSet(S \X (1..u)) /\ Cardinality(S \X (1..u)) = Cardinality(S) * u
  BY <1>1, FS_Product
<1>3. Tokens(S, f) \in SUBSET (S \X (1..u))
  BY DEF Tokens
<1> QED
  BY <1>2, <1>3, FS_Subset, FS_CardinalityType

\* One lane more brings its own tokens.
LEMMA TokensAdd ==
    ASSUME NEW S, NEW f, NEW l, l \notin S, NEW u \in Nat, f[l].usage = u,
           IsFiniteSet(Tokens(S, f))
    PROVE  /\ IsFiniteSet(Tokens(S \cup {l}, f)) /\ Cardinality(Tokens(S, f)) \in Nat
           /\ Cardinality(Tokens(S \cup {l}, f)) = Cardinality(Tokens(S, f)) + u
<1> DEFINE own == {l} \X (1..u)
<1>1. IsFiniteSet(1..u) /\ Cardinality(1..u) = u
  BY FS_Interval
<1>2. IsFiniteSet({l}) /\ Cardinality({l}) = 1
  BY FS_Singleton
<1>3. IsFiniteSet(own) /\ Cardinality(own) = u
  BY <1>1, <1>2, FS_Product
<1>4. Tokens(S \cup {l}, f) = Tokens(S, f) \cup own
  BY DEF Tokens
<1>5. Tokens(S, f) \cap own = {}
  BY DEF Tokens
<1> HIDE DEF own
<1>6. /\ IsFiniteSet(Tokens(S, f) \cup own)
      /\ Cardinality(Tokens(S, f) \cup own)
           = Cardinality(Tokens(S, f)) + Cardinality(own) - Cardinality(Tokens(S, f) \cap own)
  BY <1>3, FS_Union
<1>7. Cardinality(Tokens(S, f)) \in Nat
  BY FS_CardinalityType
<1>8. Cardinality(Tokens(S, f) \cap own) = 0
  BY <1>5, FS_EmptySet
<1>9. Cardinality(Tokens(S, f) \cup own) = Cardinality(Tokens(S, f)) + u
  BY <1>3, <1>6, <1>7, <1>8
<1> QED
  BY <1>4, <1>6, <1>7, <1>9

LEMMA SameTokens ==
    ASSUME NEW S, NEW f, NEW g, \A l \in S : f[l] = g[l] PROVE Tokens(S, f) = Tokens(S, g)
BY DEF Tokens

LEMMA LanesFinite ==
    ASSUME NEW L \in SUBSET Lanes, NEW P \in SUBSET L, NEW O \in SUBSET P
    PROVE  /\ IsFiniteSet(L) /\ IsFiniteSet(O) /\ IsFiniteSet(P)
           /\ Cardinality(L) \in Nat /\ Cardinality(P) \in Nat /\ Cardinality(O) \in Nat
           /\ Cardinality(O) <= Cardinality(P) /\ Cardinality(P) <= Cardinality(L)
<1>1. IsFiniteSet(L)
  BY LlmCallsAssumption, FS_Subset
<1>2. IsFiniteSet(P)
  BY <1>1, FS_Subset
<1> QED
  BY <1>1, <1>2, FS_Subset, FS_CardinalityType

LEMMA PastAndOwing == Past \in SUBSET lanes /\ Owing \in SUBSET Past
BY DEF Past, Owing

LEMMA InitMoney == CallsInit => MoneyInv
<1> SUFFICES ASSUME CallsInit PROVE MoneyInv
  OBVIOUS
<1>1. Owing = {} /\ Past = {}
  BY DEF CallsInit, Owing, Past
<1>2. Calls = {}
  BY DEF CallsInit, Calls, Range
<1>3. MoneyTypes
  BY <1>1, <1>2 DEF MoneyTypes, CallsInit
<1>4. Tokens(Owing, reply) = {}
  BY <1>1 DEF Tokens
<1>5. Balance
  <2>1. spent = 0 /\ total = 0
    BY DEF CallsInit
  <2>2. IsFiniteSet(Tokens(Owing, reply)) /\ Cardinality(Tokens(Owing, reply)) = 0
    BY <1>4, FS_EmptySet
  <2> QED
    BY <2>1, <2>2 DEF Balance
<1>6. Within
  BY <1>1 DEF Within, CallsInit
<1> QED
  BY <1>3, <1>5, <1>6 DEF MoneyInv

\* A step of lane l that spends and counts nothing: no lane comes to owe, and none
\* but one below the budget passes the check.
LEMMA QuietMoney ==
    ASSUME MoneyInv, MoneyTypes', UNCHANGED <<total, spent, raced, max, lanes>>, Owing' = Owing,
           \A l \in Owing : reply'[l] = reply[l],
           Past' \subseteq Past \/ (max # NoBudget => total < max)
    PROVE  MoneyInv'
<1>1. Tokens(Owing, reply)' = Tokens(Owing, reply)
  BY SameTokens
<1>2. Balance'
  BY <1>1 DEF MoneyInv, Balance
<1>3. ASSUME max # NoBudget, ~raced PROVE Within'
  <2>0. max \in Nat /\ total \in Nat
    BY <1>3, LlmCallsAssumption DEF MoneyInv, MoneyTypes
  <2>1. CASE total = 0 /\ Owing = {} /\ (Past # {} => max > 0)
    BY <2>0, <2>1 DEF Within
  <2>2. ASSUME NEW r \in Replies, Bounded(r.usage) PROVE Within'
    <3> DEFINE n == Cardinality(lanes)
               k == Cardinality(Past)
               m == Cardinality(Past')
    <3>1. /\ n \in Nat /\ k \in Nat /\ m \in Nat /\ k <= n /\ m <= n
          /\ IsFiniteSet(Past) /\ Cardinality(lanes') = n
      <4>1. lanes \in SUBSET Lanes /\ Past \in SUBSET lanes /\ Past' \in SUBSET lanes
        BY PastAndOwing DEF MoneyInv, MoneyTypes, Past
      <4>2. {} \in SUBSET Past /\ {} \in SUBSET Past'
        OBVIOUS
      <4> QED
        BY <4>1, <4>2, LanesFinite
    <3>2. r.usage \in Nat /\ total < max + (n - k) * r.usage
      BY <2>2, UsageType DEF Bounded
    <3>3. n - k \in Nat /\ n - m \in Nat
      BY <3>1
    <3>4. CASE Past' \subseteq Past
      <4>1. m <= k
        BY <3>1, <3>4, FS_Subset
      <4> HIDE DEF n, k, m
      <4>2. n - k <= n - m
        BY <3>1, <4>1
      <4>3. r.usage * (n - k) <= r.usage * (n - m)
        BY <3>2, <3>3, <4>2, ProductMonotonic
      <4>4. (n - k) * r.usage <= (n - m) * r.usage
        BY <3>2, <3>3, <4>3
      <4>5. (n - k) * r.usage \in Nat /\ (n - m) * r.usage \in Nat
        BY <3>2, <3>3
      <4>6. total < max + (n - m) * r.usage
        BY <2>0, <3>2, <4>4, <4>5
      <4>7. Bounded(r.usage)'
        BY <2>2, <3>1, <4>6 DEF Bounded, n, k, m
      <4> QED
        BY <4>7 DEF Within
    <3>5. CASE total < max
      <4> HIDE DEF n, k, m
      <4>1. (n - m) * r.usage \in Nat
        BY <3>2, <3>3
      <4>2. total < max + (n - m) * r.usage
        BY <2>0, <3>5, <4>1
      <4>3. Bounded(r.usage)'
        BY <2>2, <3>1, <4>2 DEF Bounded, n, k, m
      <4> QED
        BY <4>3 DEF Within
    <3> QED
      BY <1>3, <3>4, <3>5
  <2> QED
    BY <1>3, <2>1, <2>2 DEF MoneyInv, Within
<1>4. Within'
  BY <1>3 DEF Within
<1> QED
  BY <1>2, <1>4 DEF MoneyInv

\* An answer, of the gateway or of the cassette, is spent and then owed by lane l.
LEMMA SpendMoney ==
    ASSUME MoneyInv, MoneyTypes', UNCHANGED <<total, raced, max, lanes>>,
           NEW l \in lanes, l \in Past, l \notin Owing, Owing' = Owing \cup {l}, Past' = Past,
           reply'[l] \in Replies, \A k \in Owing : reply'[k] = reply[k],
           spent' = spent + reply'[l].usage
    PROVE  MoneyInv'
<1> DEFINE u == reply'[l].usage
           n == Cardinality(lanes)
           k == Cardinality(Past)
<1>1. u \in Nat
  BY UsageType
<1>2. Tokens(Owing, reply') = Tokens(Owing, reply)
  BY SameTokens
<1>3. IsFiniteSet(Owing) /\ n \in Nat /\ k \in Nat /\ k <= n
  BY LanesFinite, PastAndOwing DEF MoneyInv, MoneyTypes
<1>4. IsFiniteSet(Tokens(Owing, reply'))
  BY <1>2 DEF MoneyInv, Balance
<1>5. /\ IsFiniteSet(Tokens(Owing, reply)') /\ Cardinality(Tokens(Owing, reply)) \in Nat
      /\ Cardinality(Tokens(Owing, reply)') = Cardinality(Tokens(Owing, reply)) + u
  BY <1>1, <1>2, <1>4, TokensAdd
<1>6. Balance'
  BY <1>1, <1>5 DEF MoneyInv, MoneyTypes, Balance
<1>7. ASSUME max # NoBudget, ~raced PROVE Within'
  <2>0. max \in Nat /\ total \in Nat /\ spent \in Nat
    BY <1>7, LlmCallsAssumption DEF MoneyInv, MoneyTypes
  <2>1. CASE total = 0 /\ Owing = {} /\ (Past # {} => max > 0)
    <3>1. (n - k) * u \in Nat
      BY <1>1, <1>3
    <3>2. total < max + (n - k) * u
      BY <2>0, <2>1, <3>1
    <3>3. \A j \in Owing' : reply'[j].usage <= u
      BY <1>1, <2>1
    <3>4. PICK r \in Replies : r = reply'[l]
      OBVIOUS
    <3>5. Bounded(r.usage)'
      BY <3>2, <3>3, <3>4 DEF Bounded
    <3> QED
      BY <3>5 DEF Within
  <2>2. ASSUME NEW r \in Replies, Bounded(r.usage) PROVE Within'
    <3>1. r.usage \in Nat /\ total < max + (n - k) * r.usage /\ n - k \in Nat
      BY <1>3, <2>2, UsageType DEF Bounded
    <3>2. CASE u <= r.usage
      <4>1. Bounded(r.usage)'
        BY <2>2, <3>2 DEF Bounded
      <4> QED
        BY <4>1 DEF Within
    <3>3. CASE r.usage <= u
      <4>1. (n - k) * r.usage <= (n - k) * u
        BY <1>1, <3>1, <3>3, ProductMonotonic
      <4>2. (n - k) * r.usage \in Nat /\ (n - k) * u \in Nat
        BY <1>1, <3>1
      <4>3. total < max + (n - k) * u
        BY <2>0, <3>1, <4>1, <4>2
      <4>4. \A j \in Owing' : reply'[j].usage <= u
        <5>1. \A j \in Owing : reply'[j].usage \in Nat /\ reply'[j].usage <= r.usage
          BY <2>2, UsageType DEF Bounded, MoneyInv, MoneyTypes, Owing
        <5> QED
          BY <1>1, <3>1, <3>3, <5>1
      <4>5. PICK q \in Replies : q = reply'[l]
        OBVIOUS
      <4>6. Bounded(q.usage)'
        BY <4>3, <4>4, <4>5 DEF Bounded
      <4> QED
        BY <4>6 DEF Within
    <3> QED
      BY <1>1, <3>1, <3>2, <3>3
  <2> QED
    BY <1>7, <2>1, <2>2 DEF MoneyInv, Within
<1>8. Within'
  BY <1>7 DEF Within
<1> QED
  BY <1>6, <1>8 DEF MoneyInv

\* The meter counts the answer of lane l, which owes nothing any more.
LEMMA CountMoney ==
    ASSUME MoneyInv, MoneyTypes', UNCHANGED <<spent, max, lanes, reply>>,
           NEW l \in Owing, Owing' = Owing \ {l}, Past' = Past \ {l},
           raced' = (raced \/ total # seen[l]), total' = seen[l] + reply[l].usage
    PROVE  MoneyInv'
<1> DEFINE u == reply[l].usage
           n == Cardinality(lanes)
           k == Cardinality(Past)
<1>1. u \in Nat /\ l \in Past
  BY UsageType DEF MoneyInv, MoneyTypes, Owing, Past
<1>2. Tokens(Owing, reply)' = Tokens(Owing \ {l}, reply) /\ Owing = (Owing \ {l}) \cup {l}
  OBVIOUS
<1>3. IsFiniteSet(Past) /\ n \in Nat /\ k \in Nat /\ k <= n
  BY LanesFinite, PastAndOwing DEF MoneyInv, MoneyTypes
<1>4. Tokens(Owing \ {l}, reply) \in SUBSET Tokens(Owing, reply)
  BY DEF Tokens
<1>5. IsFiniteSet(Tokens(Owing \ {l}, reply)) /\ Cardinality(Tokens(Owing \ {l}, reply)) \in Nat
  BY <1>4, FS_Subset, FS_CardinalityType DEF MoneyInv, Balance
<1>6. Cardinality(Tokens(Owing, reply)) = Cardinality(Tokens(Owing \ {l}, reply)) + u
  <2> DEFINE rest == Owing \ {l}
  <2>1. l \notin rest /\ u \in Nat /\ reply[l].usage = u /\ IsFiniteSet(Tokens(rest, reply))
    BY <1>1, <1>5
  <2>2. Tokens(rest \cup {l}, reply) = Tokens(Owing, reply)
    BY <1>2
  <2> HIDE DEF rest, u
  <2>3. Cardinality(Tokens(rest \cup {l}, reply)) = Cardinality(Tokens(rest, reply)) + u
    BY <2>1, TokensAdd
  <2> QED
    BY <2>2, <2>3 DEF rest
<1>7. Balance'
  <2>1. ~raced' => ~raced /\ total' = total + u
    OBVIOUS
  <2>2. total \in Nat /\ spent \in Nat
    BY DEF MoneyInv, MoneyTypes
  <2>3. ~raced => spent = total + Cardinality(Tokens(Owing, reply))
    BY DEF MoneyInv, Balance
  <2> HIDE DEF u
  <2>4. ~raced' => spent = total' + Cardinality(Tokens(Owing \ {l}, reply))
    BY <1>1, <1>5, <1>6, <2>1, <2>2, <2>3
  <2> QED
    BY <1>2, <1>5, <2>4 DEF Balance
<1>8. ASSUME max # NoBudget, ~raced' PROVE Within'
  <2>1. max \in Nat /\ total \in Nat
    BY <1>8, LlmCallsAssumption DEF MoneyInv, MoneyTypes
  <2>2. PICK r \in Replies : Bounded(r.usage)
    BY <1>8 DEF MoneyInv, Within
  <2>3. r.usage \in Nat /\ total < max + (n - k) * r.usage /\ n - k \in Nat /\ u <= r.usage
    BY <1>3, <2>2, UsageType DEF Bounded
  <2>4. Cardinality(Past') = k - 1
    BY <1>1, <1>3, FS_RemoveElement
  <2>5. total' = total + u
    BY <1>8
  <2> HIDE DEF u
  <2>6. (n - k) * r.usage \in Nat /\ (n - (k - 1)) * r.usage = (n - k) * r.usage + r.usage
    <3> HIDE DEF n, k
    <3> QED BY <1>3, <2>3
  <2>7. total' < max + (n - (k - 1)) * r.usage
    BY <1>1, <2>1, <2>3, <2>5, <2>6
  <2>8. \A j \in Owing' : reply'[j].usage <= r.usage
    BY <2>2 DEF Bounded
  <2>9. Bounded(r.usage)'
    BY <2>4, <2>7, <2>8 DEF Bounded
  <2> QED
    BY <2>9 DEF Within
<1>9. Within'
  BY <1>8 DEF Within
<1> QED
  BY <1>7, <1>9 DEF MoneyInv

LEMMA LaneGoes ==
    ASSUME DOMAIN pc = Lanes, lanes \subseteq Lanes, NEW l \in lanes,
           NEW where, Go(l, where), lanes' = lanes
    PROVE  /\ DOMAIN pc' = Lanes /\ pc'[l] = where
           /\ \A k \in lanes : k # l => pc'[k] = pc[k]
           /\ Owing' = IF where \in {"answered", "noted", "dumped", "opened", "counting", "adding"}
                       THEN Owing \cup {l} ELSE Owing \ {l}
           /\ Past' = IF where \notin {"idle", "done", "failed"} THEN Past \cup {l} ELSE Past \ {l}
<1>1. /\ DOMAIN pc' = Lanes /\ pc'[l] = where
      /\ \A k \in lanes : k # l => pc'[k] = pc[k]
  BY DEF Go
<1>2. Owing' = IF where \in {"answered", "noted", "dumped", "opened", "counting", "adding"}
               THEN Owing \cup {l} ELSE Owing \ {l}
  BY <1>1 DEF Owing
<1>3. Past' = IF where \notin {"idle", "done", "failed"} THEN Past \cup {l} ELSE Past \ {l}
  BY <1>1 DEF Past
<1> QED
  BY <1>1, <1>2, <1>3

LEMMA NextMoney == OnRecord /\ MoneyInv /\ [CallsNext]_callVars => MoneyInv'
<1> SUFFICES ASSUME OnRecord, MoneyInv, [CallsNext]_callVars PROVE MoneyInv'
  OBVIOUS
<1>t. MoneyTypes
  BY DEF MoneyInv
<1>d. DOMAIN pc = Lanes /\ lanes \subseteq Lanes
  BY <1>t DEF MoneyTypes
<1>1. ASSUME NEW l \in Lanes, Check(l) PROVE MoneyInv'
  <2>1. /\ l \in lanes /\ pc[l] = "idle"
        /\ UNCHANGED <<total, spent, raced, max, lanes, reply, seen, made>>
    BY <1>1 DEF Check, At
  <2>2. PICK where \in {"failed", "replaying", "asked"} :
          Go(l, where) /\ (where # "failed" => ~OverBudget)
    BY <1>1 DEF Check
  <2>3. Owing' = Owing /\ Past' = (IF where = "failed" THEN Past \ {l} ELSE Past \cup {l})
    BY <1>d, <2>1, <2>2, LaneGoes DEF Owing
  <2>4. MoneyTypes'
    <3>1. /\ DOMAIN pc' = Lanes /\ pc'[l] = where /\ \A k \in lanes : k # l => pc'[k] = pc[k]
      BY <1>d, <2>1, <2>2, LaneGoes
    <3> QED
      BY <1>t, <2>1, <2>3, <3>1 DEF MoneyTypes, Calls
  <2>5. Past' \subseteq Past \/ (max # NoBudget => total < max)
    BY <1>t, <2>2, <2>3, LlmCallsAssumption DEF OverBudget, MoneyTypes
  <2> QED
    BY <2>1, <2>3, <2>4, <2>5, QuietMoney
<1>2. ASSUME NEW l \in Lanes, GatewayFails(l) \/ Note(l) \/ Dump(l) \/ Open(l) \/ Write(l) \/ Load(l)
      PROVE  MoneyInv'
  <2>1. /\ l \in lanes /\ UNCHANGED <<total, spent, raced, max, lanes, reply, made>>
        /\ seen' = seen \/ seen' = [seen EXCEPT ![l] = total]
    BY <1>2 DEF GatewayFails, Note, Dump, Open, Write, Load, At
  <2>2. PICK where \in {"failed", "noted", "dumped", "opened", "counting", "adding"} :
          /\ Go(l, where)
          /\ where = "failed" => pc[l] = "asked"
          /\ where # "failed" => pc[l] \in {"answered", "noted", "dumped", "opened", "counting"}
    BY <1>2 DEF GatewayFails, Note, Dump, Open, Write, Load, At
  <2>3. /\ DOMAIN pc' = Lanes /\ pc'[l] = where /\ \A k \in lanes : k # l => pc'[k] = pc[k]
        /\ Owing' = IF where # "failed" THEN Owing \cup {l} ELSE Owing \ {l}
        /\ Past' = IF where # "failed" THEN Past \cup {l} ELSE Past \ {l}
    BY <1>d, <2>1, <2>2, LaneGoes
  <2>4. Owing' = Owing /\ Past' \subseteq Past
    BY <2>1, <2>2, <2>3 DEF Owing, Past
  <2>5. MoneyTypes'
    BY <1>t, <2>1, <2>2, <2>3, <2>4 DEF MoneyTypes, Calls
  <2> QED
    BY <2>1, <2>4, <2>5, QuietMoney
<1>3. ASSUME NEW l \in Lanes, Answer(l) PROVE MoneyInv'
  <2>1. PICK r \in Replies : /\ reply' = [reply EXCEPT ![l] = r] /\ spent' = spent + r.usage
                             /\ made' = Append(made, [request |-> Request(l), reply |-> r])
    BY <1>3 DEF Answer
  <2>2. l \in lanes /\ pc[l] = "asked" /\ UNCHANGED <<total, raced, max, lanes, seen>>
    BY <1>3 DEF Answer, At
  <2>3. PICK where \in {"answered", "counting"} : Go(l, where)
    BY <1>3 DEF Answer
  <2>4. /\ DOMAIN pc' = Lanes /\ pc'[l] = where /\ \A k \in lanes : k # l => pc'[k] = pc[k]
        /\ Owing' = Owing \cup {l} /\ Past' = Past \cup {l}
    BY <1>d, <2>2, <2>3, LaneGoes
  <2>5. l \notin Owing /\ l \in Past /\ Past' = Past
    BY <2>2, <2>4 DEF Owing, Past
  <2>6. DOMAIN reply' = Lanes /\ reply'[l] = r /\ \A k \in Lanes : k # l => reply'[k] = reply[k]
    BY <1>t, <2>1 DEF MoneyTypes
  <2>7. Calls' = Calls \cup {[request |-> Request(l), reply |-> r]}
    BY <2>1, MadeGrows DEF OnRecord
  <2>8. \A c \in Calls' : c.reply \in Replies
    BY <1>t, <2>7 DEF MoneyTypes
  <2>9. r.usage \in Nat /\ spent' \in Nat
    BY <1>t, <2>1, UsageType DEF MoneyTypes
  <2>10. \A k \in lanes : k \in Owing' \/ pc'[k] = "matched" => reply'[k] \in Replies
    BY <1>t, <2>4, <2>6 DEF MoneyTypes
  <2>11. MoneyTypes'
    BY <1>t, <2>2, <2>4, <2>6, <2>8, <2>9, <2>10 DEF MoneyTypes
  <2>12. /\ reply'[l] \in Replies /\ spent' = spent + reply'[l].usage
         /\ \A k \in Owing : reply'[k] = reply[k]
    BY <1>d, <2>1, <2>5, <2>6 DEF Owing
  <2> QED
    BY <2>2, <2>4, <2>5, <2>11, <2>12, SpendMoney
<1>4. ASSUME NEW l \in Lanes, Match(l) PROVE MoneyInv'
  <2>1. /\ l \in lanes /\ pc[l] = "replaying"
        /\ UNCHANGED <<total, spent, raced, max, lanes, seen, made>>
    BY <1>4 DEF Match, At
  <2>2. PICK where \in {"matched", "failed"} :
          /\ Go(l, where)
          /\ where = "failed" => reply' = reply
          /\ where = "matched" => Fits(l) /\ reply' = [reply EXCEPT ![l] = entries[cursor + 1].reply]
    BY <1>4 DEF Match
  <2>3. /\ DOMAIN pc' = Lanes /\ pc'[l] = where /\ \A k \in lanes : k # l => pc'[k] = pc[k]
        /\ Owing' = Owing \ {l} /\ Past' = IF where = "matched" THEN Past \cup {l} ELSE Past \ {l}
    BY <1>d, <2>1, <2>2, LaneGoes
  <2>4. Owing' = Owing /\ l \notin Owing /\ Past' \subseteq Past
    BY <2>1, <2>3 DEF Owing, Past
  <2>5. Fits(l) => entries[cursor + 1].reply \in Replies
    <3>1. Fits(l) => cursor + 1 \in 1..Len(entries)
      BY LenProperties DEF Fits, OnRecord
    <3>2. Fits(l) => entries[cursor + 1] \in Calls
      BY <3>1, ElementOfSeq DEF OnRecord
    <3> QED
      BY <1>t, <3>2 DEF MoneyTypes
  <2>6. /\ DOMAIN reply' = Lanes /\ \A k \in Lanes : k # l => reply'[k] = reply[k]
        /\ where = "matched" => reply'[l] \in Replies
    BY <1>t, <2>2, <2>5 DEF MoneyTypes
  <2>7. MoneyTypes'
    BY <1>t, <2>1, <2>3, <2>4, <2>6 DEF MoneyTypes, Calls
  <2>8. \A k \in Owing : reply'[k] = reply[k]
    BY <1>d, <2>4, <2>6 DEF Owing
  <2> QED
    BY <2>1, <2>4, <2>7, <2>8, QuietMoney
<1>5. ASSUME NEW l \in Lanes, Advance(l) PROVE MoneyInv'
  <2>1. /\ l \in lanes /\ pc[l] = "matched" /\ Go(l, "counting") /\ spent' = spent + reply[l].usage
        /\ UNCHANGED <<total, raced, max, lanes, seen, made, reply>>
    BY <1>5 DEF Advance, At
  <2>2. /\ DOMAIN pc' = Lanes /\ pc'[l] = "counting" /\ \A k \in lanes : k # l => pc'[k] = pc[k]
        /\ Owing' = Owing \cup {l} /\ Past' = Past \cup {l}
    BY <1>d, <2>1, LaneGoes
  <2>3. l \notin Owing /\ l \in Past /\ Past' = Past /\ reply[l] \in Replies
    BY <1>t, <2>1, <2>2 DEF Owing, Past, MoneyTypes
  <2>4. reply[l].usage \in Nat /\ spent' \in Nat
    BY <1>t, <2>1, <2>3, UsageType DEF MoneyTypes
  <2>5. MoneyTypes'
    BY <1>t, <2>1, <2>2, <2>3, <2>4 DEF MoneyTypes, Calls
  <2> QED
    BY <2>1, <2>2, <2>3, <2>5, SpendMoney
<1>6. ASSUME NEW l \in Lanes, Store(l) PROVE MoneyInv'
  <2>1. /\ l \in lanes /\ pc[l] = "adding" /\ total' = seen[l] + reply[l].usage
        /\ raced' = (raced \/ total # seen[l])
        /\ UNCHANGED <<spent, max, lanes, seen, made, reply>>
    BY <1>6 DEF Store, At, Counted
  <2>2. PICK where \in {"done", "idle"} : Go(l, where)
    BY <1>6 DEF Store
  <2>3. /\ DOMAIN pc' = Lanes /\ pc'[l] = where /\ \A k \in lanes : k # l => pc'[k] = pc[k]
        /\ Owing' = Owing \ {l} /\ Past' = Past \ {l}
    BY <1>d, <2>1, <2>2, LaneGoes
  <2>4. l \in Owing /\ reply[l] \in Replies
    BY <1>t, <2>1 DEF Owing, MoneyTypes
  <2>5. total' \in Nat
    BY <1>t, <2>1, <2>4, UsageType DEF MoneyTypes
  <2>6. MoneyTypes'
    BY <1>t, <2>1, <2>3, <2>5 DEF MoneyTypes, Calls
  <2> QED
    BY <2>1, <2>3, <2>4, <2>6, CountMoney
<1>7. CASE Stop \/ Kill \/ UNCHANGED callVars
  <2>1. UNCHANGED <<total, spent, raced, max, lanes, seen, made, reply, pc>>
    BY <1>7 DEF Stop, Kill, callVars
  <2>2. Owing' = Owing /\ Past' = Past
    BY <2>1 DEF Owing, Past
  <2>3. MoneyTypes'
    BY <1>t, <2>1, <2>2 DEF MoneyTypes, Calls
  <2> QED
    BY <2>1, <2>2, <2>3, QuietMoney
<1>8. CASE StartReplay
  <2>1. /\ pc' = [l \in Lanes |-> "idle"] /\ reply' = [l \in Lanes |-> None]
        /\ seen' = [l \in Lanes |-> 0] /\ total' = 0 /\ spent' = 0
        /\ UNCHANGED <<lanes, max, made>>
    BY <1>8 DEF StartReplay
  <2>2. Owing' = {} /\ Past' = {}
    BY <1>d, <2>1 DEF Owing, Past
  <2>3. MoneyTypes'
    BY <1>t, <1>d, <2>1, <2>2 DEF MoneyTypes, Calls
  <2>4. Tokens(Owing, reply)' = {}
    BY <2>2 DEF Tokens
  <2>5. IsFiniteSet(Tokens(Owing, reply)') /\ Cardinality(Tokens(Owing, reply)') = 0
    BY <2>4, FS_EmptySet
  <2>6. Balance'
    BY <2>1, <2>5 DEF Balance
  <2>7. Within'
    BY <2>1, <2>2 DEF Within
  <2> QED
    BY <2>3, <2>6, <2>7 DEF MoneyInv
<1> QED
  BY <1>1, <1>2, <1>3, <1>4, <1>5, <1>6, <1>7, <1>8 DEF CallsNext, LaneNext

LEMMA MoneyBound == MoneyInv => BudgetOvershoot
<1> SUFFICES ASSUME MoneyInv, max # NoBudget, ~raced
             PROVE  \/ spent = 0
                    \/ \E r \in Replies : spent < max + Cardinality(lanes) * r.usage
  BY DEF BudgetOvershoot
<1> DEFINE n == Cardinality(lanes)
           k == Cardinality(Past)
           o == Cardinality(Owing)
           t == Cardinality(Tokens(Owing, reply))
<1>1. max \in Nat /\ total \in Nat /\ spent \in Nat /\ spent = total + t
  BY LlmCallsAssumption DEF MoneyInv, MoneyTypes, Balance
<1>2. CASE total = 0 /\ Owing = {}
  <2>1. t = 0
    BY <1>2, NoTokens
  <2> QED
    BY <1>1, <1>2, <2>1
<1>3. ASSUME NEW r \in Replies, Bounded(r.usage) PROVE spent < max + n * r.usage
  <2>1. /\ IsFiniteSet(Owing) /\ n \in Nat /\ k \in Nat /\ o \in Nat /\ o <= k /\ k <= n
    BY LanesFinite, PastAndOwing DEF MoneyInv, MoneyTypes
  <2>2. r.usage \in Nat /\ total < max + (n - k) * r.usage
    BY <1>3, UsageType DEF Bounded
  <2>3. \A l \in Owing : reply[l].usage \in Nat /\ reply[l].usage <= r.usage
    BY <1>3, UsageType DEF Bounded, MoneyInv, MoneyTypes, Owing
  <2>4. t \in Nat /\ t <= o * r.usage
    BY <2>1, <2>2, <2>3, TokensBound
  <2> HIDE DEF n, k, o, t
  <2>5. n - k \in Nat /\ (n - k) + o \in Nat /\ (n - k) + o <= n
    BY <2>1
  <2>6. r.usage * ((n - k) + o) <= r.usage * n
    BY <2>1, <2>2, <2>5, ProductMonotonic
  <2>7. r.usage * ((n - k) + o) = (n - k) * r.usage + o * r.usage /\ r.usage * n = n * r.usage
    BY <2>1, <2>2, <2>5
  <2>8. (n - k) * r.usage \in Nat /\ o * r.usage \in Nat /\ n * r.usage \in Nat
    BY <2>1, <2>2, <2>5
  <2> QED
    BY <1>1, <2>2, <2>4, <2>6, <2>7, <2>8
<1> QED
  BY <1>2, <1>3 DEF MoneyInv, Within

\* However many lanes pass the check together, and whatever fails between the check
\* and the addition, the budget is passed by less than one call of each lane, as
\* long as no addition was lost (metering.py, MeteredClient).
THEOREM BudgetIsKept == CallsSpec => []BudgetOvershoot
BY InitRecorded, NextRecorded, InitMoney, NextMoney, MoneyBound, PTL DEF CallsSpec

(***************************************************************************)
(* A run of one lane                                                       *)
(***************************************************************************)

\* The first k answers of the calls m, and their tokens.
AnswersOf(m, k) == [i \in 1..k |-> m[i].reply]

SumOf(m, k) == Cardinality(Tokens(1..k, AnswersOf(m, k)))

EndsAt(m, k) == k > 0 /\ m[k].reply.text = "final"

InHand == {"answered", "noted", "dumped", "opened", "matched", "counting", "adding"}

\* The calls of one lane: each asks with the answers before it, below the budget,
\* and none follows a final answer.
OneRun(l) ==
    LET n == Len(made) IN
    /\ n <= MaxAnswers
    /\ \A i \in 1..n :
         made[i].request = [kind |-> Kind(l), edition |-> 1, messages |-> AnswersOf(made, i - 1)]
    /\ \A k \in 0..n : IsFiniteSet(Tokens(1..k, AnswersOf(made, k)))
    /\ \A k \in 0..n : k < n => ~EndsAt(made, k) /\ (max # NoBudget => SumOf(made, k) < max)

\* Where lane l is in these calls: it had the first h answers and counted them.
Position(l) ==
    LET h == Len(history[l]) IN
    /\ h \in 0..Len(made) /\ history[l] = AnswersOf(made, h) /\ total = SumOf(made, h)
    /\ pc[l] = "adding" => seen[l] = total
    /\ pc[l] = "done" <=> EndsAt(made, h) /\ pc[l] \notin InHand
    /\ pc[l] \in {"asked", "replaying", "failed"} => h < MaxAnswers
    /\ pc[l] = "asked" => (max # NoBudget => total < max)
    /\ pc[l] \in InHand => h < Len(made) /\ reply[l] = made[h + 1].reply

\* While the calls are made the lane is at their end.
Making(l) ==
    mode # "replay" =>
        /\ edition = 1 /\ Position(l)
        /\ Len(made) = IF pc[l] \in InHand THEN Len(history[l]) + 1 ELSE Len(history[l])
        /\ stage # "stopped" => first.pc[l] = "none"

OnDisk(s) == IF s = <<>> THEN <<"none">> ELSE <<Version(engine), s>>

\* What the recorder has in memory, in its hands and on the disk.
Filed(l) ==
    mode = "record" =>
        /\ IF pc[l] = "answered" THEN made = Append(entries, CallOf(l)) ELSE entries = made
        /\ pc[l] \in {"dumped", "opened"} => snap[l] = made
        /\ IF pc[l] = "opened" THEN disk = <<"torn">>
           ELSE disk = OnDisk(IF pc[l] \in {"answered", "noted", "dumped"} THEN Front(made) ELSE made)

\* How a recording that was not killed ended.
Ended(l) ==
    first.pc[l] # "none" =>
        /\ first.total = SumOf(made, Len(made)) /\ first.pc[l] \in {"done", "failed", "idle"}
        /\ first.pc[l] = "done" <=> EndsAt(made, Len(made))
        /\ first.pc[l] = "failed" => Len(made) < MaxAnswers
        /\ first.pc[l] = "idle" => Len(made) = MaxAnswers
        /\ disk = <<"none">> \/ \E v \in {"v1", "v2"} : disk = <<v, made>>

\* A replay of it by the same engine and prompts is somewhere in the same calls.
Following(l) ==
    /\ mode = "replay" /\ stage \in {"calling", "stopped"} /\ edition = 1
    /\ Head(disk) = Version(engine) /\ first.pc[l] # "none"
    => /\ entries = made /\ Position(l)
       /\ cursor = IF pc[l] \in {"counting", "adding"} THEN Len(history[l]) + 1 ELSE Len(history[l])
       /\ pc[l] = "failed" => Len(history[l]) = Len(made)
       /\ stage = "stopped" => pc[l] \in {"done", "failed"} \/ Len(history[l]) = MaxAnswers

\* The steps of a lane in each mode.
PathOf(m) ==
    {"idle", "counting", "adding", "done", "failed"}
    \cup (IF m = "replay" THEN {"replaying", "matched"} ELSE {"asked"})
    \cup (IF m = "record" THEN {"answered", "noted", "dumped", "opened"} ELSE {})

LanePaths ==
    /\ \A l \in lanes : pc[l] \in PathOf(mode)
    /\ stage \in {"calling", "stopped", "killed", "refused"} /\ mode \in {"live", "record", "replay"}
    /\ DOMAIN first.pc = Lanes

OneLaneInv ==
    /\ LanePaths
    /\ \A l \in Lanes : lanes = {l} =>
         OneRun(l) /\ Making(l) /\ Filed(l) /\ Ended(l) /\ Following(l)

LEMMA AnswersAppend ==
    ASSUME NEW S, NEW m \in Seq(S), NEW c \in S, NEW k \in 0..Len(m)
    PROVE  AnswersOf(Append(m, c), k) = AnswersOf(m, k)
<1>1. \A i \in 1..k : Append(m, c)[i] = m[i]
  BY AppendProperties, LenProperties
<1> QED
  BY <1>1 DEF AnswersOf

LEMMA AnswersNext ==
    ASSUME NEW m, NEW k \in Nat
    PROVE  /\ Len(AnswersOf(m, k)) = k
           /\ Append(AnswersOf(m, k), m[k + 1].reply) = AnswersOf(m, k + 1)
<1> DEFINE S == {m[i].reply : i \in 1..(k + 1)}
           s == AnswersOf(m, k)
           t == AnswersOf(m, k + 1)
           r == m[k + 1].reply
<1>1. s \in Seq(S) /\ Len(s) = k /\ \A i \in 1..k : s[i] = m[i].reply
  BY DEF AnswersOf
<1>2. t \in Seq(S) /\ Len(t) = k + 1 /\ \A i \in 1..(k + 1) : t[i] = m[i].reply
  BY DEF AnswersOf
<1>3. r \in S
  OBVIOUS
<1> HIDE DEF S, s, t, r
<1>4. /\ Append(s, r) \in Seq(S) /\ Len(Append(s, r)) = k + 1
      /\ \A i \in 1..k : Append(s, r)[i] = s[i]
      /\ Append(s, r)[k + 1] = r
  BY <1>1, <1>3, AppendProperties
<1>5. \A i \in 1..(k + 1) : Append(s, r)[i] = t[i]
  BY <1>1, <1>2, <1>4 DEF r
<1>6. Append(s, r) = t
  BY <1>2, <1>4, <1>5, SeqEqual
<1> QED
  BY <1>1, <1>6 DEF s, t, r

LEMMA SumZero ==
    ASSUME NEW m
    PROVE  /\ AnswersOf(m, 0) = <<>> /\ IsFiniteSet(Tokens(1..0, AnswersOf(m, 0)))
           /\ SumOf(m, 0) = 0 /\ ~EndsAt(m, 0)
<1>1. 1..0 = {}
  OBVIOUS
<1>2. AnswersOf(m, 0) = <<>>
  BY DEF AnswersOf
<1>3. Tokens(1..0, AnswersOf(m, 0)) = {}
  BY <1>1 DEF Tokens
<1> QED
  BY <1>2, <1>3, FS_EmptySet DEF SumOf, EndsAt

LEMMA SumNext ==
    ASSUME NEW m, NEW k \in Nat, m[k + 1].reply.usage \in Nat,
           IsFiniteSet(Tokens(1..k, AnswersOf(m, k)))
    PROVE  /\ IsFiniteSet(Tokens(1..(k + 1), AnswersOf(m, k + 1)))
           /\ SumOf(m, k + 1) = SumOf(m, k) + m[k + 1].reply.usage
<1> DEFINE f == AnswersOf(m, k + 1)
           u == m[k + 1].reply.usage
<1>1. Tokens(1..k, f) = Tokens(1..k, AnswersOf(m, k))
  <2>1. \A i \in 1..k : f[i] = AnswersOf(m, k)[i]
    BY DEF AnswersOf
  <2> HIDE DEF f
  <2> QED
    BY <2>1, SameTokens
<1>2. 1..(k + 1) = (1..k) \cup {k + 1} /\ k + 1 \notin 1..k
  OBVIOUS
<1>3. f[k + 1].usage = u /\ u \in Nat
  BY DEF AnswersOf
<1> HIDE DEF f, u
<1>4. IsFiniteSet(Tokens(1..k, f))
  BY <1>1
<1>5. /\ IsFiniteSet(Tokens((1..k) \cup {k + 1}, f))
      /\ Cardinality(Tokens((1..k) \cup {k + 1}, f)) = Cardinality(Tokens(1..k, f)) + u
  <2> DEFINE S == 1..k
             l == k + 1
  <2>1. l \notin S /\ f[l].usage = u /\ u \in Nat /\ IsFiniteSet(Tokens(S, f))
    BY <1>2, <1>3, <1>4
  <2> HIDE DEF S, l
  <2>2. /\ IsFiniteSet(Tokens(S \cup {l}, f))
        /\ Cardinality(Tokens(S \cup {l}, f)) = Cardinality(Tokens(S, f)) + u
    BY <2>1, TokensAdd
  <2> QED
    BY <2>2 DEF S, l
<1> QED
  BY <1>1, <1>2, <1>5 DEF SumOf, f, u

LEMMA FrontAppend ==
    ASSUME NEW S, NEW s \in Seq(S), NEW c \in S PROVE Front(Append(s, c)) = s
<1> DEFINE t == Append(s, c)
<1>1. /\ t \in Seq(S) /\ Len(t) = Len(s) + 1 /\ Len(s) \in Nat
      /\ \A i \in 1..Len(s) : t[i] = s[i] /\ s[i] \in S
  BY AppendProperties, LenProperties, ElementOfSeq
<1> HIDE DEF t
<1>2. Front(t) = SubSeq(t, 1, Len(s))
  BY <1>1 DEF Front
<1>3. /\ SubSeq(t, 1, Len(s)) \in Seq(S) /\ Len(SubSeq(t, 1, Len(s))) = Len(s)
      /\ \A i \in 1..Len(s) : SubSeq(t, 1, Len(s))[i] = t[i]
  BY <1>1, SubSeqProperties
<1>4. SubSeq(t, 1, Len(s)) = s
  BY <1>1, <1>3, SeqEqual
<1> QED
  BY <1>2, <1>4 DEF t

LEMMA NextPaths == OnRecord /\ MoneyTypes /\ LanePaths /\ [CallsNext]_callVars => LanePaths'
<1> SUFFICES ASSUME OnRecord, MoneyTypes, LanePaths, [CallsNext]_callVars PROVE LanePaths'
  OBVIOUS
<1>d. DOMAIN pc = Lanes /\ lanes \subseteq Lanes
  BY DEF MoneyTypes
\* A step of lane l along the path of the mode.
<1>1. ASSUME NEW l \in lanes, NEW where, Go(l, where), where \in PathOf(mode),
             UNCHANGED <<stage, mode, lanes, first>>
      PROVE  LanePaths'
  <2>1. \A k \in lanes : pc'[k] = IF k = l THEN where ELSE pc[k]
    BY <1>d, <1>1 DEF Go
  <2> QED
    BY <1>1, <2>1 DEF LanePaths
<1>2. ASSUME NEW l \in Lanes, LaneNext(l) PROVE LanePaths'
  <2>1. l \in lanes /\ UNCHANGED <<stage, mode, lanes, first>> /\ pc[l] \in PathOf(mode)
    BY <1>2 DEF LaneNext, Check, Answer, GatewayFails, Note, Dump, Open, Write, Match, Advance, Load,
                Store, At, LanePaths
  <2>2. CASE Check(l) \/ Answer(l) \/ GatewayFails(l)
    <3>1. \E where \in {"failed", "replaying", "asked", "answered", "counting"} :
            /\ Go(l, where)
            /\ where = "replaying" => mode = "replay"
            /\ where = "asked" => mode # "replay"
            /\ where = "answered" => mode = "record"
      BY <2>2 DEF Check, Answer, GatewayFails
    <3> QED
      BY <1>1, <2>1, <3>1 DEF PathOf
  <2>3. CASE Note(l) \/ Dump(l) \/ Open(l) \/ Write(l)
    <3>1. pc[l] \in {"answered", "noted", "dumped", "opened"}
      BY <2>3 DEF Note, Dump, Open, Write, At
    <3>2. mode = "record"
      BY <2>1, <3>1 DEF PathOf
    <3>3. \E where \in {"noted", "dumped", "opened", "counting"} : Go(l, where)
      BY <2>3 DEF Note, Dump, Open, Write
    <3> QED
      BY <1>1, <2>1, <3>2, <3>3 DEF PathOf
  <2>4. CASE Match(l) \/ Advance(l) \/ Load(l) \/ Store(l)
    <3>1. \E where \in {"matched", "failed", "counting", "adding", "done", "idle"} :
            Go(l, where) /\ (where = "matched" => pc[l] = "replaying")
      BY <2>4 DEF Match, Advance, Load, Store, At
    <3> QED
      BY <1>1, <2>1, <3>1 DEF PathOf
  <2> QED
    BY <1>2, <2>2, <2>3, <2>4 DEF LaneNext
<1>3. CASE Stop
  BY <1>3 DEF Stop, LanePaths, OnRecord
<1>4. CASE Kill \/ UNCHANGED callVars
  BY <1>4 DEF Kill, callVars, LanePaths
<1>5. CASE StartReplay
  <2>1. /\ mode' = "replay" /\ stage' \in {"refused", "calling"} /\ UNCHANGED <<lanes, first>>
        /\ pc' = [l \in Lanes |-> "idle"]
    BY <1>5 DEF StartReplay
  <2> QED
    BY <1>d, <2>1 DEF LanePaths, PathOf
<1> QED
  BY <1>2, <1>3, <1>4, <1>5 DEF CallsNext

LEMMA InitOneLane == CallsInit => OneLaneInv
<1> SUFFICES ASSUME CallsInit PROVE OneLaneInv
  OBVIOUS
<1>1. LanePaths
  BY DEF CallsInit, LanePaths, PathOf
<1>2. Len(made) = 0 /\ made = <<>> /\ total = 0 /\ entries = <<>> /\ disk = <<"none">> /\ mode # "replay"
  BY DEF CallsInit
<1>3. /\ AnswersOf(made, 0) = <<>> /\ IsFiniteSet(Tokens(1..0, AnswersOf(made, 0)))
      /\ SumOf(made, 0) = 0 /\ ~EndsAt(made, 0)
  BY SumZero
<1>4. ASSUME NEW l \in Lanes PROVE OneRun(l) /\ Making(l) /\ Filed(l) /\ Ended(l) /\ Following(l)
  <2>1. history[l] = <<>> /\ pc[l] = "idle" /\ first.pc[l] = "none" /\ edition = 1
    BY DEF CallsInit
  <2>2. OneRun(l)
    BY <1>2, <1>3, LlmCallsAssumption DEF OneRun
  <2>3. Position(l)
    BY <1>2, <1>3, <2>1 DEF Position, InHand
  <2>4. Making(l)
    BY <1>2, <2>1, <2>3 DEF Making, InHand
  <2>5. Filed(l)
    BY <1>2, <2>1 DEF Filed, OnDisk
  <2> QED
    BY <1>2, <2>1, <2>2, <2>4, <2>5 DEF Ended, Following
<1> QED
  BY <1>1, <1>4 DEF OneLaneInv

\* Every step of the one lane, of the process and of the replay.
LEMMA NextOneLane ==
    OnRecord /\ MoneyTypes /\ OneLaneInv /\ [CallsNext]_callVars => OneLaneInv'
<1> SUFFICES ASSUME OnRecord, MoneyTypes, OneLaneInv, [CallsNext]_callVars PROVE OneLaneInv'
  OBVIOUS
<1>p. LanePaths'
  BY NextPaths DEF OneLaneInv
<1>l. lanes' = lanes
  BY DEF CallsNext, LaneNext, Check, Answer, GatewayFails, Note, Dump, Open, Write, Match, Advance,
         Load, Store, Stop, Kill, StartReplay, callVars
<1> SUFFICES ASSUME NEW l \in Lanes, lanes = {l}
             PROVE  OneRun(l)' /\ Making(l)' /\ Filed(l)' /\ Ended(l)' /\ Following(l)'
  BY <1>p, <1>l DEF OneLaneInv
<1>i. OneRun(l) /\ Making(l) /\ Filed(l) /\ Ended(l) /\ Following(l) /\ LanePaths
  BY DEF OneLaneInv
<1>d. /\ DOMAIN pc = Lanes /\ DOMAIN reply = Lanes /\ DOMAIN seen = Lanes
      /\ DOMAIN history = Lanes /\ DOMAIN snap = Lanes
      /\ pc[l] \in PathOf(mode) /\ total \in Nat /\ (max # NoBudget => max \in Nat)
      /\ made \in Seq(Calls) /\ Len(made) \in Nat
  BY <1>i, LlmCallsAssumption, LenProperties DEF OnRecord, MoneyTypes, LanePaths
\* A step that makes no call and neither starts nor ends anything.
<1>q. ASSUME UNCHANGED <<made, max>> PROVE OneRun(l)'
  BY <1>i, <1>q DEF OneRun
<1>e. ASSUME UNCHANGED <<made, first>>, UNCHANGED disk \/ (mode = "record" /\ stage = "calling")
      PROVE  Ended(l)'
  BY <1>i, <1>e DEF Ended, Making
<1>1. ASSUME Check(l) PROVE OneRun(l)' /\ Making(l)' /\ Filed(l)' /\ Ended(l)' /\ Following(l)'
  <2>1. /\ pc[l] = "idle" /\ Len(history[l]) < MaxAnswers /\ stage = "calling"
        /\ UNCHANGED <<stage, mode, engine, edition, max, history, reply, seen, total,
                       entries, snap, disk, cursor, made, first>>
        /\ pc' = [pc EXCEPT ![l] = IF OverBudget THEN "failed"
                                   ELSE IF mode = "replay" THEN "replaying" ELSE "asked"]
    BY <1>1 DEF Check, At, Go
  <2>2. pc'[l] = IF OverBudget THEN "failed" ELSE IF mode = "replay" THEN "replaying" ELSE "asked"
    BY <1>d, <2>1
  <2>3. ~OverBudget => (max # NoBudget => total < max)
    BY <1>d DEF OverBudget
  <2>4. Position(l) => Position(l)'
    BY <2>1, <2>2, <2>3 DEF Position, InHand
  <2>5. Making(l)'
    BY <1>i, <2>1, <2>2, <2>4 DEF Making, InHand
  <2>6. Filed(l)'
    BY <1>i, <2>1, <2>2 DEF Filed, OnDisk, Version
  <2>7. Position(l) /\ pc'[l] = "failed" => Len(history[l]) = Len(made)
    <3>1. pc'[l] = "failed" => max # NoBudget /\ ~(total < max)
      BY <1>d, <2>2 DEF OverBudget
    <3>2. \A k \in 0..Len(made) : k < Len(made) => (max # NoBudget => SumOf(made, k) < max)
      BY <1>i DEF OneRun
    <3> QED
      BY <1>d, <3>1, <3>2 DEF Position
  <2>8. Following(l)'
    BY <1>i, <2>1, <2>2, <2>4, <2>7 DEF Following, Version
  <2> QED
    BY <1>q, <1>e, <2>1, <2>5, <2>6, <2>8
<1>2. ASSUME Answer(l) PROVE OneRun(l)' /\ Making(l)' /\ Filed(l)' /\ Ended(l)' /\ Following(l)'
  <2>1. PICK r \in Replies : /\ reply' = [reply EXCEPT ![l] = r]
                             /\ made' = Append(made, [request |-> Request(l), reply |-> r])
    BY <1>2 DEF Answer
  <2>2. /\ pc[l] = "asked" /\ stage = "calling"
        /\ UNCHANGED <<stage, mode, engine, edition, max, history, seen, total,
                       entries, snap, disk, cursor, first>>
        /\ pc' = [pc EXCEPT ![l] = IF mode = "record" THEN "answered" ELSE "counting"]
    BY <1>2 DEF Answer, At, Go
  <2>3. mode # "replay"
    BY <1>d, <2>2 DEF PathOf
  <2> DEFINE n == Len(made)
             c == [request |-> Request(l), reply |-> r]
             S == Calls \cup {c}
  <2>4. /\ edition = 1 /\ Position(l) /\ n = Len(history[l]) /\ first.pc[l] = "none"
        /\ history[l] = AnswersOf(made, n) /\ n < MaxAnswers /\ ~EndsAt(made, n)
        /\ total = SumOf(made, n) /\ (max # NoBudget => total < max)
    BY <1>i, <2>2, <2>3 DEF Making, Position, InHand
  <2>5. c.reply = r /\ c.request = [kind |-> Kind(l), edition |-> 1, messages |-> AnswersOf(made, n)]
    BY <2>4 DEF Request
  <2> HIDE DEF c
  <2>6. made \in Seq(S) /\ c \in S
    BY <1>d, MoreCalls
  <2>7. /\ Len(made') = n + 1 /\ made'[n + 1] = c /\ \A i \in 1..n : made'[i] = made[i]
    BY <2>1, <2>6, AppendProperties DEF c
  <2>8. \A k \in 0..n : AnswersOf(made', k) = AnswersOf(made, k)
    BY <2>1, <2>6, AnswersAppend DEF c
  <2>9. \A k \in 0..n : SumOf(made', k) = SumOf(made, k) /\ (EndsAt(made', k) <=> EndsAt(made, k))
    <3>1. \A k \in 0..n : EndsAt(made', k) <=> EndsAt(made, k)
      BY <1>d, <2>7 DEF EndsAt
    <3> QED
      BY <2>8, <3>1 DEF SumOf
  <2>10. OneRun(l)'
    <3>1. n + 1 <= MaxAnswers
      BY <1>d, <2>4, LlmCallsAssumption
    <3>2. \A i \in 1..(n + 1) :
            made'[i].request = [kind |-> Kind(l), edition |-> 1, messages |-> AnswersOf(made', i - 1)]
      <4>1. \A i \in 1..n : i - 1 \in 0..n
        BY <1>d
      <4>2. \A i \in 1..n :
              made'[i].request = [kind |-> Kind(l), edition |-> 1, messages |-> AnswersOf(made', i - 1)]
        BY <1>i, <2>7, <2>8, <4>1 DEF OneRun
      <4>3. made'[n + 1].request = [kind |-> Kind(l), edition |-> 1, messages |-> AnswersOf(made', n)]
        BY <1>d, <2>5, <2>7, <2>8
      <4>4. \A i \in 1..(n + 1) : i \in 1..n \/ (i = n + 1 /\ i - 1 = n)
        BY <1>d
      <4> QED
        BY <4>2, <4>3, <4>4
    <3>3. \A k \in 0..n : IsFiniteSet(Tokens(1..k, AnswersOf(made', k)))
      BY <1>i, <2>8 DEF OneRun
    <3>4. IsFiniteSet(Tokens(1..(n + 1), AnswersOf(made', n + 1)))
      <4>1. made'[n + 1].reply.usage \in Nat
        BY <2>5, <2>7, UsageType
      <4>2. IsFiniteSet(Tokens(1..n, AnswersOf(made', n)))
        BY <1>d, <3>3
      <4> QED
        BY <1>d, <4>1, <4>2, SumNext
    <3>5. \A k \in 0..(n + 1) : k \in 0..n \/ k = n + 1
      BY <1>d
    <3>6. \A k \in 0..n : ~EndsAt(made', k) /\ (max # NoBudget => SumOf(made', k) < max)
      <4>1. \A k \in 0..n : k < n \/ k = n
        BY <1>d
      <4> QED
        BY <1>i, <2>4, <2>9, <4>1 DEF OneRun
    <3>7. \A k \in 0..(n + 1) : k < n + 1 => k \in 0..n
      BY <1>d
    <3> QED
      BY <2>2, <2>7, <3>1, <3>2, <3>3, <3>4, <3>5, <3>6, <3>7 DEF OneRun
  <2>11. pc'[l] = IF mode = "record" THEN "answered" ELSE "counting"
    BY <1>d, <2>2
  <2>12. reply'[l] = r
    BY <1>d, <2>1
  <2>13. Position(l)'
    <3>1. n \in 0..(n + 1) /\ n \in 0..n /\ n < n + 1
      BY <1>d
    <3>2. history'[l] = AnswersOf(made', n) /\ total' = SumOf(made', n) /\ Len(history'[l]) = n
      BY <2>2, <2>4, <2>8, <2>9, <3>1
    <3>3. made'[n + 1].reply = r
      BY <2>5, <2>7
    <3>4. pc'[l] \in InHand /\ pc'[l] \notin {"adding", "done", "asked", "replaying", "failed"}
      BY <2>11 DEF InHand
    <3> QED
      BY <2>7, <2>12, <3>1, <3>2, <3>3, <3>4 DEF Position
  <2>14. Making(l)'
    <3>1. pc'[l] \in InHand
      BY <2>11 DEF InHand
    <3> QED
      BY <2>2, <2>4, <2>7, <2>13, <3>1 DEF Making
  <2>15. Filed(l)'
    <3>1. CallOf(l)' = c
      BY <2>2, <2>12 DEF CallOf, c, Request
    <3>2. Front(made') = made
      BY <2>1, <2>6, FrontAppend DEF c
    <3>3. mode = "record" => entries = made /\ disk = OnDisk(made)
      BY <1>i, <2>2 DEF Filed
    <3>4. mode = "record" => pc'[l] = "answered"
      BY <2>11
    <3>5. mode = "record" => made' = Append(entries', CallOf(l)')
      BY <2>1, <2>2, <3>1, <3>3 DEF c
    <3>6. mode = "record" => disk' = OnDisk(Front(made))'
      BY <2>2, <3>2, <3>3 DEF OnDisk, Version
    <3> QED
      BY <2>2, <3>4, <3>5, <3>6 DEF Filed
  <2> QED
    BY <2>2, <2>3, <2>4, <2>10, <2>14, <2>15 DEF Ended, Following
<1>3. ASSUME GatewayFails(l)
      PROVE  OneRun(l)' /\ Making(l)' /\ Filed(l)' /\ Ended(l)' /\ Following(l)'
  <2>1. /\ pc[l] = "asked" /\ stage = "calling"
        /\ UNCHANGED <<stage, mode, engine, edition, max, history, reply, seen, total,
                       entries, snap, disk, cursor, made, first>>
        /\ pc' = [pc EXCEPT ![l] = "failed"]
    BY <1>3 DEF GatewayFails, At, Go
  <2>2. pc'[l] = "failed" /\ mode # "replay"
    BY <1>d, <2>1 DEF PathOf
  <2>3. Position(l) => Position(l)'
    BY <2>1, <2>2 DEF Position, InHand
  <2>4. Making(l)'
    BY <1>i, <2>1, <2>2, <2>3 DEF Making, InHand
  <2>5. Filed(l)'
    BY <1>i, <2>1, <2>2 DEF Filed, OnDisk, Version
  <2> QED
    BY <1>q, <1>e, <2>1, <2>2, <2>4, <2>5 DEF Following
<1>4. ASSUME Note(l) \/ Dump(l) \/ Open(l) \/ Write(l)
      PROVE  OneRun(l)' /\ Making(l)' /\ Filed(l)' /\ Ended(l)' /\ Following(l)'
  <2>1. /\ stage = "calling"
        /\ UNCHANGED <<stage, mode, engine, edition, max, history, reply, seen, total,
                       cursor, made, first>>
    BY <1>4 DEF Note, Dump, Open, Write, At
  <2>2. \/ /\ pc[l] = "answered" /\ pc'[l] = "noted" /\ UNCHANGED <<snap, disk>>
           /\ entries' = Append(entries, CallOf(l))
        \/ /\ pc[l] = "noted" /\ pc'[l] = "dumped" /\ UNCHANGED <<entries, disk>> /\ snap'[l] = entries
        \/ /\ pc[l] = "dumped" /\ pc'[l] = "opened" /\ UNCHANGED <<entries, snap>> /\ disk' = <<"torn">>
        \/ /\ pc[l] = "opened" /\ pc'[l] = "counting" /\ UNCHANGED <<entries, snap>>
           /\ disk' = IF Head(disk) \in {"v1", "v2"} /\ Len(disk[2]) > Len(snap[l])
                      THEN <<"torn">> ELSE <<Version(engine), snap[l]>>
    BY <1>d, <1>4 DEF Note, Dump, Open, Write, At, Go, CallOf, Snapshot
  <2>3. mode = "record" /\ pc[l] \in InHand /\ pc'[l] \in InHand
        /\ pc'[l] \notin {"adding", "done", "asked", "replaying", "failed"}
    BY <1>d, <2>2 DEF PathOf, InHand
  <2>4. Position(l) => Position(l)'
    BY <2>1, <2>3 DEF Position
  <2>5. Making(l)'
    BY <1>i, <2>1, <2>3, <2>4 DEF Making
  <2>6. made # <<>>
    BY <1>i, <1>d, <2>3 DEF Making, Position
  <2>7. Filed(l)'
    <3>1. CASE pc[l] = "answered"
      BY <1>i, <2>1, <2>2, <2>3, <3>1 DEF Filed, OnDisk, Version
    <3>2. CASE pc[l] = "noted"
      BY <1>i, <2>1, <2>2, <2>3, <3>2 DEF Filed, OnDisk, Version
    <3>3. CASE pc[l] = "dumped"
      BY <1>i, <2>1, <2>2, <2>3, <3>3 DEF Filed, OnDisk, Version
    <3>4. CASE pc[l] = "opened"
      <4>1. disk = <<"torn">> /\ snap[l] = made /\ entries = made
        BY <1>i, <2>3, <3>4 DEF Filed
      <4>2. disk' = <<Version(engine), made>>
        BY <2>2, <3>4, <4>1
      <4> QED
        BY <2>1, <2>2, <2>6, <3>4, <4>1, <4>2 DEF Filed, OnDisk, Version
    <3> QED
      BY <2>2, <3>1, <3>2, <3>3, <3>4
  <2> QED
    BY <1>q, <1>e, <2>1, <2>3, <2>5, <2>7 DEF Following
<1>5. ASSUME Match(l) PROVE OneRun(l)' /\ Making(l)' /\ Filed(l)' /\ Ended(l)' /\ Following(l)'
  <2>1. /\ pc[l] = "replaying" /\ stage = "calling"
        /\ UNCHANGED <<stage, mode, engine, edition, max, history, seen, total,
                       entries, snap, disk, cursor, made, first>>
        /\ pc'[l] = IF Fits(l) THEN "matched" ELSE "failed"
        /\ Fits(l) => reply'[l] = entries[cursor + 1].reply
    BY <1>d, <1>5 DEF Match, At, Go
  <2>2. mode = "replay"
    BY <1>d, <1>i, <2>1 DEF PathOf, LanePaths
  <2>3. ASSUME edition = 1, Head(disk) = Version(engine), first.pc[l] # "none" PROVE Following(l)'
    <3> DEFINE h == Len(history[l])
               n == Len(made)
    <3>1. entries = made /\ Position(l) /\ cursor = h
      BY <1>i, <2>1, <2>2, <2>3 DEF Following
    <3>2. h \in 0..n /\ history[l] = AnswersOf(made, h) /\ h < MaxAnswers /\ ~EndsAt(made, h)
      BY <2>1, <3>1 DEF Position, InHand
    <3>3. CASE h < n
      <4>1. h + 1 \in 1..n /\ (h + 1) - 1 = h
        BY <1>d, <3>2, <3>3
      <4>2. made[h + 1].request = [kind |-> Kind(l), edition |-> 1, messages |-> AnswersOf(made, h)]
        BY <1>i, <4>1 DEF OneRun
      <4>3. Fits(l)
        BY <2>3, <3>1, <3>2, <3>3, <4>2 DEF Fits, SameRequest, Request
      <4>4. pc'[l] = "matched" /\ reply'[l] = made[h + 1].reply
        BY <2>1, <3>1, <4>3
      <4>5. Position(l)'
        BY <2>1, <3>1, <3>3, <4>4 DEF Position, InHand
      <4> QED
        BY <2>1, <3>1, <4>4, <4>5 DEF Following
    <3>4. CASE h = n
      <4>1. ~Fits(l)
        BY <1>d, <3>1, <3>4 DEF Fits
      <4>2. pc'[l] = "failed"
        BY <2>1, <4>1
      <4>3. Position(l)'
        BY <2>1, <3>1, <3>2, <4>2 DEF Position, InHand
      <4> QED
        BY <2>1, <3>1, <3>4, <4>2, <4>3 DEF Following
    <3> QED
      BY <1>d, <3>2, <3>3, <3>4
  <2>4. Following(l)'
    BY <2>1, <2>3 DEF Following, Version
  <2> QED
    BY <1>q, <1>e, <2>1, <2>2, <2>4 DEF Making, Filed
<1>6. ASSUME Advance(l) PROVE OneRun(l)' /\ Making(l)' /\ Filed(l)' /\ Ended(l)' /\ Following(l)'
  <2>1. /\ pc[l] = "matched" /\ stage = "calling" /\ pc'[l] = "counting" /\ cursor' = cursor + 1
        /\ UNCHANGED <<stage, mode, engine, edition, max, history, reply, seen, total,
                       entries, snap, disk, made, first>>
    BY <1>d, <1>6 DEF Advance, At, Go
  <2>2. mode = "replay"
    BY <1>d, <1>i, <2>1 DEF PathOf, LanePaths
  <2>3. Position(l) => Position(l)'
    BY <2>1 DEF Position, InHand
  <2>4. Following(l)'
    BY <1>i, <2>1, <2>2, <2>3 DEF Following, Version
  <2> QED
    BY <1>q, <1>e, <2>1, <2>2, <2>4 DEF Making, Filed
<1>7. ASSUME Load(l) PROVE OneRun(l)' /\ Making(l)' /\ Filed(l)' /\ Ended(l)' /\ Following(l)'
  <2>1. /\ pc[l] = "counting" /\ stage = "calling" /\ pc'[l] = "adding" /\ seen'[l] = total
        /\ UNCHANGED <<stage, mode, engine, edition, max, history, reply, total,
                       entries, snap, disk, cursor, made, first>>
    BY <1>d, <1>7 DEF Load, At, Go
  <2>2. Position(l) => Position(l)'
    BY <2>1 DEF Position, InHand
  <2>3. Making(l)'
    BY <1>i, <2>1, <2>2 DEF Making, InHand
  <2>4. Filed(l)'
    BY <1>i, <2>1 DEF Filed, OnDisk, Version
  <2>5. Following(l)'
    BY <1>i, <2>1, <2>2 DEF Following, Version
  <2> QED
    BY <1>q, <1>e, <2>1, <2>3, <2>4, <2>5
<1>8. ASSUME Store(l) PROVE OneRun(l)' /\ Making(l)' /\ Filed(l)' /\ Ended(l)' /\ Following(l)'
  <2>1. /\ pc[l] = "adding" /\ stage = "calling" /\ total' = seen[l] + reply[l].usage
        /\ pc'[l] = IF reply[l].text = "final" THEN "done" ELSE "idle"
        /\ history'[l] = Append(history[l], reply[l])
        /\ UNCHANGED <<stage, mode, engine, edition, max, reply, seen,
                       entries, snap, disk, cursor, made, first>>
    BY <1>d, <1>8 DEF Store, At, Go, Counted
  <2> DEFINE h == Len(history[l])
             n == Len(made)
  <2>2. ASSUME Position(l) PROVE Position(l)' /\ Len(history'[l]) = h + 1
    <3>1. /\ h \in 0..n /\ h < n /\ reply[l] = made[h + 1].reply /\ history[l] = AnswersOf(made, h)
          /\ total = SumOf(made, h) /\ seen[l] = total
      BY <2>1, <2>2 DEF Position, InHand
    <3>2. history'[l] = AnswersOf(made, h + 1) /\ Len(history'[l]) = h + 1
      <4>1. h \in Nat /\ h + 1 \in Nat
        BY <1>d, <3>1
      <4> HIDE DEF h
      <4>2. Append(AnswersOf(made, h), made[h + 1].reply) = AnswersOf(made, h + 1)
        BY <4>1, AnswersNext
      <4>3. Len(AnswersOf(made, h + 1)) = h + 1
        BY <4>1, AnswersNext
      <4> QED
        BY <2>1, <3>1, <4>2, <4>3
    <3>3. total' = SumOf(made, h + 1)
      <4>1. made[h + 1] \in Calls
        BY <1>d, <3>1, ElementOfSeq
      <4>2. made[h + 1].reply.usage \in Nat
        BY <4>1, UsageType DEF MoneyTypes
      <4>3. IsFiniteSet(Tokens(1..h, AnswersOf(made, h)))
        BY <1>i, <3>1 DEF OneRun
      <4>4. SumOf(made, h + 1) = SumOf(made, h) + made[h + 1].reply.usage
        <5>1. h \in Nat
          BY <1>d, <3>1
        <5> HIDE DEF h
        <5> QED
          BY <4>2, <4>3, <5>1, SumNext
      <4> QED
        BY <2>1, <3>1, <4>4
    <3>4. EndsAt(made, h + 1) <=> reply[l].text = "final"
      BY <1>d, <3>1 DEF EndsAt
    <3>5. h + 1 \in 0..n
      BY <1>d, <3>1
    <3>6. pc'[l] \in {"done", "idle"} /\ pc'[l] \notin InHand /\ (pc'[l] = "done" <=> EndsAt(made, h + 1))
      BY <2>1, <3>4 DEF InHand
    <3> QED
      BY <2>1, <3>2, <3>3, <3>5, <3>6 DEF Position
  <2>3. pc[l] \in InHand /\ pc'[l] \notin InHand /\ pc'[l] \in {"done", "idle"}
    BY <2>1 DEF InHand
  <2>4. Making(l)'
    BY <1>i, <2>1, <2>2, <2>3 DEF Making
  <2>5. Filed(l)'
    BY <1>i, <2>1, <2>3 DEF Filed, OnDisk, Version
  <2>6. Following(l)'
    BY <1>i, <2>1, <2>2, <2>3 DEF Following, Version
  <2> QED
    BY <1>q, <1>e, <2>1, <2>4, <2>5, <2>6
<1>9. ASSUME Stop PROVE OneRun(l)' /\ Making(l)' /\ Filed(l)' /\ Ended(l)' /\ Following(l)'
  <2>1. /\ stage = "calling" /\ stage' = "stopped"
        /\ pc[l] \in {"done", "failed"} \/ Len(history[l]) = MaxAnswers
        /\ first' = IF mode = "record" THEN [pc |-> pc, total |-> total] ELSE first
        /\ UNCHANGED <<mode, engine, edition, max, pc, history, reply, seen, total,
                       entries, snap, disk, cursor, made>>
    BY <1>9 DEF Stop
  <2>2. Position(l) => Position(l)'
    BY <2>1 DEF Position
  <2>3. Making(l)'
    BY <1>i, <2>1, <2>2 DEF Making
  <2>4. Filed(l)'
    BY <1>i, <2>1 DEF Filed, OnDisk, Version, CallOf, Request
  <2>5. Ended(l)'
    <3>1. CASE mode # "record"
      BY <1>e, <2>1, <3>1
    <3>2. CASE mode = "record"
      <4>1. first'.pc[l] = pc[l] /\ first'.total = total
        BY <2>1, <3>2
      <4>2. /\ Position(l) /\ Len(made) = IF pc[l] \in InHand THEN Len(history[l]) + 1 ELSE Len(history[l])
        BY <1>i, <3>2 DEF Making
      <4>3. Len(made) <= MaxAnswers /\ MaxAnswers \in Nat
        BY <1>i, LlmCallsAssumption DEF OneRun
      <4>4. pc[l] \notin InHand
        BY <1>d, <2>1, <4>2, <4>3 DEF Position, InHand
      <4>5. Len(history[l]) = Len(made)
        BY <4>2, <4>4
      <4>6. pc[l] \in {"done", "failed", "idle"}
        BY <1>d, <2>1, <3>2, <4>2, <4>4 DEF Position, InHand, PathOf
      <4>7. /\ total = SumOf(made, Len(made)) /\ (pc[l] = "done" <=> EndsAt(made, Len(made)))
            /\ pc[l] = "failed" => Len(made) < MaxAnswers
            /\ pc[l] = "idle" => Len(made) = MaxAnswers
        BY <2>1, <4>2, <4>4, <4>5 DEF Position
      <4>8. disk = OnDisk(made)
        BY <1>i, <3>2, <4>4 DEF Filed, InHand
      <4>9. disk = <<"none">> \/ \E v \in {"v1", "v2"} : disk = <<v, made>>
        BY <4>8 DEF OnDisk, Version
      <4> QED
        BY <2>1, <4>1, <4>6, <4>7, <4>9 DEF Ended
    <3> QED
      BY <3>1, <3>2
  <2>6. Following(l)'
    BY <1>i, <2>1, <2>2 DEF Following, Version
  <2> QED
    BY <1>q, <2>1, <2>3, <2>4, <2>5, <2>6
<1>10. ASSUME Kill \/ UNCHANGED callVars
       PROVE  OneRun(l)' /\ Making(l)' /\ Filed(l)' /\ Ended(l)' /\ Following(l)'
  <2>1. /\ UNCHANGED <<mode, engine, edition, max, pc, history, reply, seen, total,
                       entries, snap, disk, cursor, made, first>>
        /\ stage' = stage \/ (stage = "calling" /\ stage' = "killed" /\ mode = "record")
    BY <1>10 DEF Kill, callVars
  <2>2. Position(l) => Position(l)'
    BY <2>1 DEF Position
  <2>3. Making(l)'
    BY <1>i, <2>1, <2>2 DEF Making
  <2>4. Filed(l)'
    BY <1>i, <2>1 DEF Filed, OnDisk, Version, CallOf, Request
  <2>5. Following(l)'
    BY <1>i, <2>1, <2>2 DEF Following, Version
  <2> QED
    BY <1>q, <1>e, <2>1, <2>3, <2>4, <2>5
<1>11. ASSUME StartReplay
       PROVE  OneRun(l)' /\ Making(l)' /\ Filed(l)' /\ Ended(l)' /\ Following(l)'
  <2>1. /\ mode' = "replay" /\ stage' = (IF Refused(engine') THEN "refused" ELSE "calling")
        /\ entries' = (IF Refused(engine') THEN <<>> ELSE disk[2])
        /\ cursor' = 0 /\ total' = 0 /\ pc'[l] = "idle" /\ history'[l] = <<>> /\ seen'[l] = 0
        /\ UNCHANGED <<max, disk, made, first>>
    BY <1>11 DEF StartReplay
  <2>2. ASSUME first.pc[l] # "none", ~Refused(engine') PROVE entries' = made
    <3>1. Head(disk) \notin {"none", "torn"} /\ entries' = disk[2]
      BY <2>1, <2>2 DEF Refused
    <3>2. disk = <<"none">> \/ \E v \in {"v1", "v2"} : disk = <<v, made>>
      BY <1>i, <2>2 DEF Ended
    <3> QED
      BY <3>1, <3>2
  <2>3. Position(l)'
    <3>1. AnswersOf(made, 0) = <<>> /\ SumOf(made, 0) = 0 /\ ~EndsAt(made, 0)
      BY SumZero
    <3>2. Len(history'[l]) = 0 /\ 0 \in 0..Len(made)
      BY <1>d, <2>1
    <3> QED
      BY <2>1, <3>1, <3>2 DEF Position, InHand
  <2>4. Following(l)'
    BY <2>1, <2>2, <2>3 DEF Following
  <2> QED
    BY <1>q, <1>e, <2>1, <2>4 DEF Making, Filed
<1> QED
  <2>1. \A k \in Lanes : LaneNext(k) => k = l
    BY DEF LaneNext, Check, Answer, GatewayFails, Note, Dump, Open, Write, Match, Advance, Load,
           Store, At
  <2>2. LaneNext(l) \/ Stop \/ Kill \/ StartReplay \/ UNCHANGED callVars
    BY <2>1 DEF CallsNext
  <2> QED
    BY <2>2, <1>1, <1>2, <1>3, <1>4, <1>5, <1>6, <1>7, <1>8, <1>9, <1>10, <1>11 DEF LaneNext

CallsInv == OnRecord /\ MoneyInv /\ OneLaneInv

LEMMA CallsInvariant == CallsSpec => []CallsInv
<1>1. CallsInit => CallsInv
  BY InitRecorded, InitMoney, InitOneLane DEF CallsInv
<1>2. CallsInv /\ [CallsNext]_callVars => CallsInv'
  BY NextRecorded, NextMoney, NextOneLane DEF CallsInv, MoneyInv
<1> QED
  BY <1>1, <1>2, PTL DEF CallsSpec

LEMMA TheLane ==
    ASSUME MoneyTypes, OneLane
    PROVE  \E l \in Lanes : lanes = {l} /\ (CHOOSE x \in lanes : TRUE) = l
<1>1. IsFiniteSet(lanes)
  BY LlmCallsAssumption, FS_Subset DEF MoneyTypes
<1>2. PICK l : lanes = {l}
  BY <1>1, FS_Singleton DEF OneLane
<1> QED
  BY <1>2 DEF MoneyTypes

\* Whenever a recording process of one lane ends, the file holds every call but the
\* one in hand, or is torn by the write itself (replay.py, RecordingClient).
THEOREM RecordingIsKept == CallsSpec => []RecordingKeeps
<1>1. ASSUME CallsInv PROVE RecordingKeeps
  <2> SUFFICES ASSUME mode = "record", OneLane PROVE RecordingKeeps
    BY DEF RecordingKeeps
  <2>1. PICK l \in Lanes : lanes = {l} /\ (CHOOSE x \in lanes : TRUE) = l
    BY <1>1, TheLane DEF CallsInv, MoneyInv
  <2>2. Filed(l)
    BY <1>1, <2>1 DEF CallsInv, OneLaneInv
  <2> QED
    BY <2>1, <2>2 DEF RecordingKeeps, Filed, OnDisk
<1> QED
  BY <1>1, CallsInvariant, PTL

\* A replay of a one-lane run that was not killed ends where the run ended, with the
\* tokens it counted: the budget, inside the meter, stops neither elsewhere.
THEOREM ReplayIsTheRun == CallsSpec => []ReplayEndsTheSame
<1>1. ASSUME CallsInv PROVE ReplayEndsTheSame
  <2> SUFFICES ASSUME stage = "stopped", mode = "replay", OneLane, edition = 1,
                      NEW l \in lanes, first.pc[l] # "none", Head(disk) = Version(engine)
               PROVE  pc[l] = first.pc[l] /\ total = first.total
    BY DEF ReplayEndsTheSame
  <2>1. lanes = {l} /\ l \in Lanes
    BY <1>1, TheLane DEF CallsInv, MoneyInv
  <2> DEFINE h == Len(history[l])
             n == Len(made)
  <2>2. OneRun(l) /\ Ended(l) /\ Following(l) /\ LanePaths
    BY <1>1, <2>1 DEF CallsInv, OneLaneInv
  <2>3. /\ Position(l) /\ pc[l] \in PathOf("replay") /\ (pc[l] = "failed" => h = n)
        /\ pc[l] \in {"done", "failed"} \/ h = MaxAnswers
    BY <2>2 DEF Following, LanePaths
  <2>4. n \in Nat /\ h \in 0..n /\ n <= MaxAnswers /\ MaxAnswers \in Nat
    BY <1>1, <2>2, <2>3, LenProperties, LlmCallsAssumption DEF CallsInv, OnRecord, OneRun, Position
  <2>5. \A k \in 0..n : k < n => ~EndsAt(made, k)
    BY <2>2 DEF OneRun
  <2>6. h = n
    <3>1. CASE pc[l] = "done"
      BY <2>3, <2>4, <2>5, <3>1 DEF Position
    <3>2. CASE h = MaxAnswers
      BY <2>4, <3>2
    <3> QED
      BY <2>3, <3>1, <3>2
  <2>7. total = first.total
    BY <2>2, <2>3, <2>6 DEF Position, Ended
  <2>8. pc[l] \in {"done", "failed", "idle"}
    BY <2>3, <2>4, <2>6 DEF Position, InHand, PathOf
  <2>9. /\ pc[l] = "done" <=> EndsAt(made, n)
        /\ pc[l] = "failed" => n < MaxAnswers
        /\ pc[l] = "idle" => n = MaxAnswers
    BY <2>3, <2>6, <2>8 DEF Position, InHand
  <2>10. /\ first.pc[l] \in {"done", "failed", "idle"}
         /\ first.pc[l] = "done" <=> EndsAt(made, n)
         /\ first.pc[l] = "failed" => n < MaxAnswers
         /\ first.pc[l] = "idle" => n = MaxAnswers
    BY <2>2 DEF Ended
  <2>11. pc[l] = first.pc[l]
    BY <2>4, <2>8, <2>9, <2>10
  <2> QED
    BY <2>7, <2>11
<1> QED
  BY <1>1, CallsInvariant, PTL

(***************************************************************************)
(* Settings                                                                *)
(***************************************************************************)

\* What is known of a key outside the process and the projects.
OutsideOf(k) ==
    IF places.env[k] # Absent THEN places.env[k]
    ELSE IF places.cwd[k] # Absent THEN places.cwd[k] ELSE places.home[k]

\* The environment holds nothing but what the places gave it.
EnvFromPlaces ==
    \A k \in Keys : IF env[k] = Absent THEN places.env[k] = Absent ELSE env[k] = OutsideOf(k)

SettingsInv ==
    /\ coming \in Seq(Project)
    /\ EnvFromPlaces
    /\ client = NoClient \/ client.project \in Project
    /\ ProjectsDoNotMix

\* Filling the environment again gives what the first filling would have given.
LEMMA FilledAsOutside ==
    ASSUME EnvFromPlaces, NEW k \in Keys PROVE LoadDotenv(env)[k] = OutsideOf(k)
BY DEF EnvFromPlaces, LoadDotenv, Filled, OutsideOf

WantedOf(p, k, default) ==
    IF Given(OutsideOf(k)) THEN OutsideOf(k)
    ELSE IF Given(p.toml[k]) THEN p.toml[k] ELSE default

\* A client made of the values outside and of one project is that project's.
Own(c, p) ==
    /\ c.model = IF Given(p.override) THEN p.override ELSE WantedOf(p, "model", "gpt-4.1")
    /\ IsNumber(WantedOf(p, "timeout", "300")) /\ p.toml.timeout # "0" =>
          c.timeout = Number(WantedOf(p, "timeout", "300"))
    /\ c.effort = Sent(WantedOf(p, "effort", "low"), c.model)

LEMMA OwnClient ==
    ASSUME NEW p \in Project, NEW e,
           \A k \in Keys : e[k] = OutsideOf(k)
    PROVE  Own(LegacyClient(e, p), p) /\ Own(DeepClient(e, p), p)
<1>1. /\ e["model"] = OutsideOf("model") /\ e["effort"] = OutsideOf("effort")
      /\ e["timeout"] = OutsideOf("timeout")
  BY SettingsAssumption
<1>2. p.toml.timeout = Absent \/ (p.toml.timeout \in DOMAIN Seconds /\ Given(p.toml.timeout))
  BY SettingsAssumption DEF Project, Given
<1>3. Seconds["300"] = 300 /\ ~Given(Absent) /\ ~Given("")
  BY SettingsAssumption DEF Given
<1>4. /\ FirstOf(e["model"], p.toml.model, "gpt-4.1") = WantedOf(p, "model", "gpt-4.1")
      /\ FirstOf(e["effort"], p.toml.effort, "low") = WantedOf(p, "effort", "low")
  BY <1>1 DEF FirstOf, WantedOf
<1>5. Own(LegacyClient(e, p), p)
  <2>1. IsNumber(WantedOf(p, "timeout", "300")) =>
            LegacyTimeout(e, p) = Number(WantedOf(p, "timeout", "300"))
    <3>1. CASE Given(e["timeout"])
      BY <1>1, <3>1 DEF LegacyTimeout, WantedOf
    <3>2. CASE ~Given(e["timeout"]) /\ Given(p.toml.timeout)
      BY <1>1, <1>3, <3>2 DEF LegacyTimeout, WantedOf
    <3>3. CASE ~Given(e["timeout"]) /\ ~Given(p.toml.timeout)
      BY <1>1, <1>2, <1>3, <3>3 DEF LegacyTimeout, WantedOf, Number
    <3> QED
      BY <3>1, <3>2, <3>3
  <2> QED
    BY <1>4, <2>1 DEF Own, LegacyClient
<1>6. Own(DeepClient(e, p), p)
  <2>1. IsNumber(WantedOf(p, "timeout", "300")) /\ p.toml.timeout # "0" =>
            Number(DeepTimeout(e, p)) = Number(WantedOf(p, "timeout", "300"))
    <3>1. CASE Given(e["timeout"])
      BY <1>1, <3>1 DEF DeepTimeout, WantedOf
    <3>2. CASE ~Given(e["timeout"]) /\ Given(p.toml.timeout)
      BY <1>1, <1>3, <3>2 DEF DeepTimeout, WantedOf
    <3>3. CASE ~Given(e["timeout"]) /\ ~Given(p.toml.timeout)
      BY <1>1, <1>2, <1>3, <3>3 DEF DeepTimeout, WantedOf
    <3> QED
      BY <3>1, <3>2, <3>3
  <2>2. FirstOf(p.override, FirstOf(e["model"], p.toml.model, ""), "gpt-4.1")
          = IF Given(p.override) THEN p.override ELSE WantedOf(p, "model", "gpt-4.1")
    BY <1>1, <1>3 DEF FirstOf, WantedOf
  <2> QED
    BY <1>4, <2>1, <2>2 DEF Own, DeepClient
<1> QED
  BY <1>5, <1>6

LEMMA NextSettingsInv == SettingsInv /\ [NextProject]_settingVars => SettingsInv'
<1>1. ASSUME SettingsInv, NextProject PROVE SettingsInv'
  <2> DEFINE p == Head(coming)
             e == LoadDotenv(env)
  <2>1. p \in Project /\ coming' \in Seq(Project) /\ places' = places
    BY <1>1, HeadTailProperties DEF SettingsInv, NextProject
  <2>2. \A k \in Keys : e[k] = OutsideOf(k)
    BY <1>1, FilledAsOutside DEF SettingsInv
  <2>3. env' = env \/ env' = e
    BY <1>1 DEF NextProject
  <2>4. EnvFromPlaces'
    BY <1>1, <2>1, <2>2, <2>3 DEF EnvFromPlaces, OutsideOf, SettingsInv
  <2>5. client' = NoClient \/ client' = LegacyClient(e, p) \/ client' = DeepClient(e, p)
    BY <1>1 DEF NextProject
  <2>6. LegacyClient(e, p).project = p /\ DeepClient(e, p).project = p
    BY DEF LegacyClient, DeepClient
  <2>7. client' = NoClient \/ (client'.project = p /\ Own(client', p))
    BY <2>1, <2>2, <2>5, <2>6, OwnClient
  <2>8. ProjectsDoNotMix'
    BY <2>1, <2>7 DEF ProjectsDoNotMix, Own, WantedOf, OutsideOf
  <2> QED
    BY <2>1, <2>4, <2>7, <2>8 DEF SettingsInv
<1>2. ASSUME SettingsInv, UNCHANGED settingVars PROVE SettingsInv'
  BY <1>2 DEF SettingsInv, settingVars, EnvFromPlaces, OutsideOf, ProjectsDoNotMix
<1> QED
  BY <1>1, <1>2

\* However many projects a process goes through, the client of each is made as if
\* it were the first (llm/config.py, load_dotenv_into_env; gateway.py, __init__).
THEOREM EachProjectItsOwn == SettingsSpec => []ProjectsDoNotMix
<1>1. SettingsInit => SettingsInv
  BY SettingsAssumption DEF SettingsInit, SettingsInv, EnvFromPlaces, OutsideOf, ProjectsDoNotMix
<1>2. SettingsInv => ProjectsDoNotMix
  BY DEF SettingsInv
<1> QED
  BY <1>1, <1>2, NextSettingsInv, PTL DEF SettingsSpec

-----------------------------------------------------------------------------
(***************************************************************************)
(* Main sources.  What the gate holds in memory is what the developer last *)
(* saved, unless the developer saved a swapped file meanwhile.             *)
(***************************************************************************)
Held ==
    /\ DOMAIN wanted = DOMAIN main
    /\ main = [f \in DOMAIN main |-> main[f]]
    /\ wanted = [f \in DOMAIN wanted |-> wanted[f]]
    /\ upset \in BOOLEAN
    /\ ~upset => \A f \in DOMAIN main :
                   /\ f \notin DOMAIN kept => main[f] = wanted[f]
                   /\ f \in DOMAIN kept => kept[f] = wanted[f]

LEMMA InitHeld == ToolsInit => Held
<1> SUFFICES ASSUME ToolsInit PROVE Held
  OBVIOUS
<1>1. main = [f \in DOMAIN old |-> "new"] /\ wanted = main /\ upset = FALSE
  BY DEF ToolsInit
<1>2. main = [f \in DOMAIN main |-> main[f]]
  BY <1>1
<1>3. \A f \in DOMAIN main : f \notin DOMAIN kept
  BY DEF ToolsInit
<1> QED
  BY <1>1, <1>2, <1>3 DEF Held

\* Putting back what is held brings every file to what the developer last saved.
LEMMA RestoredIsWanted ==
    ASSUME Held, main' = Restored(main), kept' = <<>>, UNCHANGED <<wanted, upset>>
    PROVE  Held'
<1>1. /\ DOMAIN main' = DOMAIN main
      /\ \A f \in DOMAIN main : main'[f] = IF f \in DOMAIN kept THEN kept[f] ELSE main[f]
      /\ main' = [f \in DOMAIN main' |-> main'[f]]
  BY DEF Restored
<1> QED
  BY <1>1 DEF Held

LEMMA NextHeld == Held /\ [ToolsNext]_toolVars => Held'
<1> SUFFICES ASSUME Held, [ToolsNext]_toolVars PROVE Held'
  OBVIOUS
<1>1. ASSUME UNCHANGED <<main, wanted, kept, upset>> PROVE Held'
  BY <1>1 DEF Held
<1>2. CASE EnsurePrepared \/ GoOffline \/ WarmUp \/ OtherRun \/ MeasureBefore \/ WriterDone
           \/ CoverageGate \/ ReadCoverage \/ MutationGate \/ Judge \/ LateReport \/ StartAgain
  BY <1>1, <1>2 DEF EnsurePrepared, GoOffline, WarmUp, OtherRun, MeasureBefore, WriterDone,
     CoverageGate, ReadCoverage, MutationGate, Judge, LateReport, StartAgain
<1>3. CASE Swap
  <2>1. CASE UNCHANGED <<main, kept>>
    BY <1>1, <1>3, <2>1 DEF Swap
  <2>2. ASSUME NEW f \in Swappable \ DOMAIN kept,
               kept' = [g \in DOMAIN kept \cup {f} |-> IF g = f THEN main[f] ELSE kept[g]],
               main' = [main EXCEPT ![f] = old[f]]
        PROVE  Held'
    <3>1. UNCHANGED <<wanted, upset>>
      BY <1>3 DEF Swap
    <3>2. /\ DOMAIN main' = DOMAIN main /\ main' = [g \in DOMAIN main' |-> main'[g]]
          /\ \A g \in DOMAIN main : g # f => main'[g] = main[g]
      BY <2>2 DEF Held
    <3>3. /\ DOMAIN kept' = DOMAIN kept \cup {f} /\ kept'[f] = main[f]
          /\ \A g \in DOMAIN kept : kept'[g] = kept[g]
      BY <2>2
    <3> QED
      BY <2>2, <3>1, <3>2, <3>3 DEF Held
  <2> QED
    BY <1>3, <2>1, <2>2 DEF Swap
<1>4. CASE RunOnOld \/ SwapRaises
  BY <1>4, RestoredIsWanted DEF RunOnOld, SwapRaises
<1>5. CASE KillTool
  <2>1. kept' = <<>> /\ UNCHANGED <<main, wanted>> /\ upset' = (upset \/ kept # <<>>)
    BY <1>5 DEF KillTool
  <2> QED
    BY <2>1 DEF Held
<1>6. CASE SaveMain
  <2>1. PICK f \in DOMAIN main :
          /\ main' = [main EXCEPT ![f] = "edited"] /\ wanted' = [wanted EXCEPT ![f] = "edited"]
          /\ upset' = (upset \/ f \in DOMAIN kept)
    BY <1>6 DEF SaveMain
  <2>2. kept' = kept
    BY <1>6 DEF SaveMain
  <2>3. /\ DOMAIN main' = DOMAIN main /\ main' = [g \in DOMAIN main' |-> main'[g]]
        /\ DOMAIN wanted' = DOMAIN wanted /\ wanted' = [g \in DOMAIN wanted' |-> wanted'[g]]
        /\ \A g \in DOMAIN main : /\ main'[g] = IF g = f THEN "edited" ELSE main[g]
                                  /\ wanted'[g] = IF g = f THEN "edited" ELSE wanted[g]
    BY <2>1 DEF Held
  <2> QED
    BY <2>1, <2>2, <2>3 DEF Held
<1>7. CASE UNCHANGED toolVars
  BY <1>1, <1>7 DEF toolVars
<1> QED
  BY <1>2, <1>3, <1>4, <1>5, <1>6, <1>7 DEF ToolsNext

\* However the regression gate ends, the developer's main sources are back, unless
\* the process was killed or a swapped file was saved.
THEOREM SourcesComeBack == ToolsSpec => []OnlyKillsLeaveOldCode
<1>1. Held => OnlyKillsLeaveOldCode
  BY DEF Held, OnlyKillsLeaveOldCode
<1> QED
  BY <1>1, InitHeld, NextHeld, PTL DEF ToolsSpec

-----------------------------------------------------------------------------
(***************************************************************************)
(* Coverage.  The report that is about to be read holds the run just made, *)
(* and a verdict is dropped when the test it is about is replaced.         *)
(***************************************************************************)
Read ==
    /\ verdicts = [g \in {"regression", "coverage", "mutation"} |-> verdicts[g]]
    /\ overtaken \in BOOLEAN
    /\ tpc = "reading" /\ ~overtaken => jacoco[1] = {test.cover}
    /\ CoverageIsThisRun

LEMMA InitRead == ToolsInit => Read
  BY DEF ToolsInit, Read, CoverageIsThisRun, NoVerdicts

LEMMA NextRead == Read /\ [ToolsNext]_toolVars => Read'
<1> SUFFICES ASSUME Read, [ToolsNext]_toolVars PROVE Read'
  OBVIOUS
<1>1. ASSUME tpc' # "reading", UNCHANGED <<verdicts, overtaken, test>> PROVE Read'
  BY <1>1 DEF Read, CoverageIsThisRun
<1>2. CASE EnsurePrepared \/ GoOffline \/ WarmUp \/ OtherRun \/ MeasureBefore \/ Judge \/ KillTool
  BY <1>1, <1>2 DEF EnsurePrepared, GoOffline, WarmUp, OtherRun, MeasureBefore, Judge, KillTool
<1>3. ASSUME tpc' # "reading", verdicts' = NoVerdicts, overtaken' \in BOOLEAN PROVE Read'
  BY <1>3 DEF Read, CoverageIsThisRun, NoVerdicts
<1>4. CASE WriterDone \/ StartAgain
  BY <1>3, <1>4 DEF WriterDone, StartAgain, Measured, Read
<1>5. ASSUME tpc' # "reading", UNCHANGED <<overtaken, test>>,
             NEW g \in {"regression", "mutation"}, NEW v,
             verdicts' = [verdicts EXCEPT ![g] = v]
      PROVE  Read'
  BY <1>5 DEF Read, CoverageIsThisRun
<1>6. CASE Swap \/ SwapRaises \/ RunOnOld \/ MutationGate
  BY <1>1, <1>5, <1>6 DEF Swap, SwapRaises, RunOnOld, MutationGate, Measured
<1>7. CASE CoverageGate
  BY <1>7 DEF CoverageGate, Read, CoverageIsThisRun, Recorded
<1>8. CASE ReadCoverage
  BY <1>8 DEF ReadCoverage, Read, CoverageIsThisRun, ToVerdict
<1>9. CASE LateReport
  BY <1>9 DEF LateReport, Read, CoverageIsThisRun
<1>10. CASE SaveMain \/ UNCHANGED toolVars
  BY <1>10 DEF SaveMain, toolVars, Read, CoverageIsThisRun
<1> QED
  BY <1>2, <1>4, <1>6, <1>7, <1>8, <1>9, <1>10 DEF ToolsNext

\* A coverage verdict that passes is earned by a run of the test on disk, whatever
\* earlier runs, other test classes and containers left behind.
THEOREM CoverageIsOfThisRun == ToolsSpec => []CoverageIsThisRun
<1>1. Read => CoverageIsThisRun
  BY DEF Read
<1> QED
  BY <1>1, InitRead, NextRead, PTL DEF ToolsSpec

-----------------------------------------------------------------------------
(***************************************************************************)
(* Asserts.  A verdict is one about the file as it is while it stands.     *)
(***************************************************************************)
MakingInv ==
    /\ existing \in TestFiles
    /\ mpc = "judged" /\ ~torn => sourceOk.assert = AssertGate

LEMMA InitMakingInv == MakingInit => MakingInv
  BY DEF MakingInit, MakingInv

LEMMA NextMakingInv == MakingInv /\ [MakingNext]_makingVars => MakingInv'
<1> SUFFICES ASSUME MakingInv, [MakingNext]_makingVars PROVE MakingInv'
  OBVIOUS
<1>1. CASE SelectMethods
  BY <1>1 DEF SelectMethods, MakingInv
<1>2. CASE AnswerFragment
  BY <1>2 DEF AnswerFragment, MakingInv
<1>3. CASE AnswerFile
  BY <1>3 DEF AnswerFile, MakingInv
<1>6. CASE ReplaceMember
  BY <1>6 DEF ReplaceMember, MakingInv
<1>7. CASE AppendRest
  BY <1>7 DEF AppendRest, MakingInv
<1>4. CASE JudgeSource
  <2>1. existing' = existing /\ draft' = draft /\ allowed' = allowed /\ torn' = torn
    BY <1>4 DEF JudgeSource
  <2>2. AssertGate' = AssertGate
    BY <2>1 DEF AssertGate, Stripped, TestByTest
  <2>3. ~torn => sourceOk'.assert = AssertGate
    BY <1>4 DEF JudgeSource
  <2> QED
    BY <2>1, <2>2, <2>3 DEF MakingInv
<1>5. CASE UNCHANGED makingVars
  <2>1. AssertGate' = AssertGate
    BY <1>5 DEF makingVars, AssertGate, Stripped, TestByTest
  <2> QED
    BY <1>5, <2>1 DEF makingVars, MakingInv
<1> QED
  BY <1>1, <1>2, <1>3, <1>4, <1>5, <1>6, <1>7 DEF MakingNext

\* Where a statement stands in a file.
Standing(statement, file) ==
    UNION {{i} \X {k \in DOMAIN file.members[i].asserts : file.members[i].asserts[k] = statement} :
             i \in DOMAIN file.members}

\* What stands in the one file at all stands in the other.
LEMMA StillStands ==
    ASSUME NEW before, NEW after, NEW s, IsFiniteSet(Standing(s, before)),
           TimesInFile(s, before) <= TimesInFile(s, after),
           Standing(s, before) # {}
    PROVE  Standing(s, after) # {}
<1>1. Cardinality(Standing(s, before)) \in Nat /\ Cardinality(Standing(s, before)) # 0
  BY FS_EmptySet, FS_CardinalityType
<1>2. Cardinality({}) = 0
  BY FS_EmptySet
<1>3. /\ TimesInFile(s, before) = Cardinality(Standing(s, before))
      /\ TimesInFile(s, after) = Cardinality(Standing(s, after))
  BY DEF TimesInFile, Standing
<1> QED
  BY <1>1, <1>2, <1>3

LEMMA FiniteStanding ==
    ASSUME MakingInv, existing # NoFile, NEW s
    PROVE  IsFiniteSet(Standing(s, Stripped(existing)))
<1> DEFINE file == Stripped(existing)
           Here(i) == {i} \X {k \in DOMAIN file.members[i].asserts : file.members[i].asserts[k] = s}
<1>1. /\ DOMAIN file.members \subseteq DOMAIN existing.members
      /\ \A i \in DOMAIN file.members : file.members[i] = existing.members[i]
  BY DEF Stripped, Restrict
<1>2. existing.members \in Seq(ToSet(existing.members))
  BY MakingAssumption DEF MakingInv
<1>3. IsFiniteSet(DOMAIN existing.members)
  <2>1. DOMAIN existing.members = 1 .. Len(existing.members) /\ Len(existing.members) \in Int
    BY <1>2, LenProperties
  <2>2. ASSUME NEW n \in Int PROVE IsFiniteSet(1 .. n)
    BY <2>2, FS_Interval
  <2>3. IsFiniteSet(1 .. Len(existing.members))
    BY <2>1, <2>2
  <2> QED
    BY <2>1, <2>3
<1>4. IsFiniteSet(DOMAIN file.members)
  BY <1>1, <1>3, FS_Subset
<1>5. ASSUME NEW i \in DOMAIN file.members PROVE IsFiniteSet(Here(i))
  <2>1. file.members[i].asserts \in Seq(ToSet(file.members[i].asserts))
    <3>1. existing.members[i] \in ToSet(existing.members)
      BY <1>1 DEF ToSet
    <3> QED
      BY <1>1, <3>1, MakingAssumption DEF MakingInv
  <2>2. IsFiniteSet(DOMAIN file.members[i].asserts)
    BY <2>1, LenProperties, FS_Interval
  <2>3. IsFiniteSet({k \in DOMAIN file.members[i].asserts : file.members[i].asserts[k] = s})
    BY <2>2, FS_Subset
  <2>4. IsFiniteSet({i})
    BY FS_Singleton
  <2> QED
    BY <2>3, <2>4, FS_Product
<1> HIDE DEF file
<1>6. IsFiniteSet({Here(i) : i \in DOMAIN file.members})
  <2> DEFINE all == {Here(i) : i \in DOMAIN file.members}
             here == [i \in DOMAIN file.members |-> Here(i)]
  <2> HIDE DEF Here
  <2>1. here \in Surjection(DOMAIN file.members, all)
    BY DEF Surjection
  <2> QED
    BY <1>4, <2>1, FS_Surjection
<1>7. IsFiniteSet(UNION {Here(i) : i \in DOMAIN file.members})
  <2> HIDE DEF Here
  <2> QED
    BY <1>5, <1>6, FS_UNION
<1> QED
  BY <1>7 DEF Standing, file

LEMMA MakingInvImplies == MakingInv => AssertsKept
<1> SUFFICES ASSUME MakingInv, mpc = "judged", sourceOk.assert, existing # NoFile, ~torn,
                    NEW i \in DOMAIN existing.members, existing.members[i].test,
                    existing.members[i].name \notin allowed
             PROVE  /\ (\A k \in DOMAIN existing.members :
                          existing.members[k].test /\ existing.members[k].name \notin allowed =>
                            (existing.members[k].name = existing.members[i].name => k <= i)) =>
                       \E j \in DOMAIN draft.members :
                          /\ draft.members[j].test
                          /\ draft.members[j].name = existing.members[i].name
                          /\ AllIn(existing.members[i].asserts, draft.members[j].asserts)
                    /\ \A s \in ToSet(existing.members[i].asserts) :
                          \E j \in DOMAIN draft.members :
                             /\ draft.members[j].name \notin allowed
                             /\ s \in ToSet(draft.members[j].asserts)
  BY DEF AssertsKept
<1> DEFINE before == Stripped(existing)
           after == Stripped(draft)
<1>1. /\ TestsKept(before, after)
      /\ \A s \in Statements(before) : TimesInFile(s, before) <= TimesInFile(s, after)
  BY DEF MakingInv, AssertGate, TestByTest
<1>2. i \in DOMAIN before.members /\ before.members[i] = existing.members[i]
  BY DEF Stripped, Restrict
<1>3. ASSUME \A k \in DOMAIN existing.members :
               existing.members[k].test /\ existing.members[k].name \notin allowed =>
                 (existing.members[k].name = existing.members[i].name => k <= i)
      PROVE  \E j \in DOMAIN draft.members :
               /\ draft.members[j].test
               /\ draft.members[j].name = existing.members[i].name
               /\ AllIn(existing.members[i].asserts, draft.members[j].asserts)
  <2>1. ASSUME NEW k \in DOMAIN before.members, before.members[k].test,
               before.members[k].name = before.members[i].name
        PROVE  k <= i
    BY <1>2, <1>3, <2>1 DEF Stripped, Restrict
  <2>2. i \in AssertsByTest(before)
    BY <1>2, <2>1 DEF AssertsByTest
  <2>3. PICK j \in AssertsByTest(after) :
          /\ after.members[j].name = before.members[i].name
          /\ AllIn(before.members[i].asserts, after.members[j].asserts)
    BY <1>1, <2>2 DEF TestsKept
  <2>4. /\ j \in DOMAIN draft.members /\ after.members[j] = draft.members[j]
        /\ after.members[j].test
    BY <2>3 DEF AssertsByTest, Stripped, Restrict
  <2> QED
    BY <1>2, <2>3, <2>4
<1>4. ASSUME NEW s \in ToSet(existing.members[i].asserts)
      PROVE  \E j \in DOMAIN draft.members :
               /\ draft.members[j].name \notin allowed
               /\ s \in ToSet(draft.members[j].asserts)
  <2>1. PICK k \in DOMAIN existing.members[i].asserts : s = existing.members[i].asserts[k]
    BY DEF ToSet
  <2>2. <<i, k>> \in Standing(s, before)
    BY <1>2, <2>1 DEF Standing
  <2>3. s \in Statements(before)
    BY <1>2 DEF Statements
  <2>4. Standing(s, after) # {}
    BY <1>1, <2>2, <2>3, FiniteStanding, StillStands
  <2>5. PICK j \in DOMAIN after.members :
          \E n \in DOMAIN after.members[j].asserts : after.members[j].asserts[n] = s
    BY <2>4 DEF Standing
  <2>6. /\ j \in DOMAIN draft.members /\ after.members[j] = draft.members[j]
        /\ draft.members[j].name \notin allowed
    BY <2>5 DEF Stripped, Restrict
  <2> QED
    BY <2>5, <2>6 DEF ToSet
<1> QED
  BY <1>3, <1>4

\* Of the tests that were there and that no person allowed to change, an accepted
\* test file has the last of each name with all asserts it had, and every assert
\* of any of them somewhere: gates.py, AssertIntegrityGate, after any number of
\* answers of either form.  Names may be repeated.
THEOREM AssertsStay == MakingSpec => []AssertsKept
  BY InitMakingInv, NextMakingInv, MakingInvImplies, PTL DEF MakingSpec

-----------------------------------------------------------------------------
(***************************************************************************)
(* Merging.  While it runs, the draft is the existing file with some       *)
(* members replaced and some added; the rest of the answer is in untaken.  *)
(***************************************************************************)
\* The members that were there, those added behind them, and the names.
Placed(base, file, taken, rest) ==
    /\ \A i \in DOMAIN base :
          /\ i \in DOMAIN file /\ file[i].name = base[i].name
          /\ base[i].name \notin Named(taken) => file[i] = base[i]
    /\ \A i \in DOMAIN file :
          i \in DOMAIN base \/ \E j \in DOMAIN taken \ rest : file[i] = taken[j]
    /\ \A j \in DOMAIN taken :
          j \in rest \/ \E i \in DOMAIN file : file[i].name = taken[j].name

\* If the answer has no name twice: what the places hold, and that nothing is lost.
Accounted(base, file, taken, rest, next) ==
    Unique(taken) =>
        /\ \A j \in DOMAIN taken : next <= j => j \in rest
        /\ \A j \in DOMAIN taken \ rest : \E i \in DOMAIN file : file[i] = taken[j]
        /\ \A i \in DOMAIN base :
              \/ file[i] = base[i]
              \/ \E j \in DOMAIN taken \ rest : j < next /\ file[i] = taken[j]

\* If neither file has: what is left, once it was looked at, has a file name.
Distinct(base, file, taken, rest, next) ==
    Unique(taken) /\ Unique(base) =>
        /\ Unique(file)
        /\ \A j \in rest, i \in DOMAIN base : taken[j].name = base[i].name => next <= j

Merged(base, file, taken, rest, next) ==
    /\ Placed(base, file, taken, rest)
    /\ Accounted(base, file, taken, rest, next)
    /\ Distinct(base, file, taken, rest, next)

\* A member of the answer takes the place of one of its name.
LEMMA OneReplaced ==
    ASSUME NEW S, NEW base \in Seq(S), NEW file \in Seq(S), NEW taken \in Seq(S),
           NEW rest \in SUBSET DOMAIN taken, NEW next \in DOMAIN taken,
           Len(file) = Len(base), Merged(base, file, taken, rest, next),
           NEW at \in DOMAIN file, NEW from \in rest,
           taken[from].name = taken[next].name, file[at].name = taken[next].name
    PROVE  Merged(base, [file EXCEPT ![at] = taken[from]], taken, rest \ {from}, next + 1)
<1> DEFINE after == [file EXCEPT ![at] = taken[from]]
           left == rest \ {from}
<1>1. /\ DOMAIN base = 1 .. Len(base) /\ DOMAIN file = DOMAIN base /\ DOMAIN after = DOMAIN base
      /\ DOMAIN taken = 1 .. Len(taken) /\ Len(taken) \in Nat /\ Len(base) \in Nat
  BY LenProperties
<1>2. \A i \in DOMAIN base : after[i] = IF i = at THEN taken[from] ELSE file[i]
  BY <1>1
<1>3. \A i \in DOMAIN base : after[i].name = base[i].name
  BY <1>1, <1>2 DEF Merged, Placed
<1>4. taken[from].name \in Named(taken)
  BY DEF Named, ToSet
<1>5. Placed(base, after, taken, left)
  <2>1. ASSUME NEW i \in DOMAIN base, base[i].name \notin Named(taken)
        PROVE  after[i] = base[i]
    <3>1. i # at
      BY <1>3, <1>2, <1>4, <2>1
    <3> QED
      BY <1>1, <1>2, <2>1, <3>1 DEF Merged, Placed
  <2>2. ASSUME NEW j \in DOMAIN taken, j \notin left
        PROVE  \E i \in DOMAIN after : after[i].name = taken[j].name
    <3>1. CASE j = from
      BY <1>1, <1>2, <3>1
    <3>2. CASE j # from
      BY <1>1, <1>3, <2>2, <3>2 DEF Merged, Placed
    <3> QED
      BY <3>1, <3>2
  <2> HIDE DEF after, left
  <2> QED
    BY <1>1, <1>3, <2>1, <2>2 DEF Placed
<1>6. Accounted(base, after, taken, left, next + 1)
  <2> SUFFICES ASSUME Unique(taken)
               PROVE  /\ \A j \in DOMAIN taken : next + 1 <= j => j \in left
                      /\ \A j \in DOMAIN taken \ left : \E i \in DOMAIN after : after[i] = taken[j]
                      /\ \A i \in DOMAIN base :
                            \/ after[i] = base[i]
                            \/ \E j \in DOMAIN taken \ left : j < next + 1 /\ after[i] = taken[j]
    BY DEF Accounted
  <2>1. from = next
    BY DEF Unique
  <2>2. /\ \A j \in DOMAIN taken : next <= j => j \in rest
        /\ \A j \in DOMAIN taken \ rest : \E i \in DOMAIN file : file[i] = taken[j]
        /\ \A i \in DOMAIN base :
              \/ file[i] = base[i]
              \/ \E j \in DOMAIN taken \ rest : j < next /\ file[i] = taken[j]
    BY DEF Merged, Accounted
  <2>3. \A j \in DOMAIN taken : next + 1 <= j => j \in left
    BY <1>1, <2>1, <2>2
  <2>4. ASSUME NEW j \in DOMAIN taken \ left
        PROVE  \E i \in DOMAIN after : after[i] = taken[j]
    <3>1. CASE j = from
      BY <1>1, <1>2, <3>1
    <3>2. CASE j # from
      <4>1. PICK i \in DOMAIN file : file[i] = taken[j]
        BY <2>2, <3>2
      <4>2. i # at
        BY <4>1, <2>1, <3>2 DEF Unique
      <4> QED
        BY <1>1, <1>2, <4>1, <4>2
    <3> QED
      BY <3>1, <3>2
  <2>5. ASSUME NEW i \in DOMAIN base
        PROVE  \/ after[i] = base[i]
               \/ \E j \in DOMAIN taken \ left : j < next + 1 /\ after[i] = taken[j]
    <3>1. CASE i = at
      BY <1>1, <1>2, <2>1, <3>1
    <3>2. CASE i # at
      BY <1>1, <1>2, <2>2, <3>2
    <3> QED
      BY <3>1, <3>2
  <2> QED
    BY <2>3, <2>4, <2>5
<1>7. Distinct(base, after, taken, left, next + 1)
  <2> SUFFICES ASSUME Unique(taken), Unique(base)
               PROVE  /\ Unique(after)
                      /\ \A j \in left, i \in DOMAIN base :
                            taken[j].name = base[i].name => next + 1 <= j
    BY DEF Distinct
  <2>1. Unique(after)
    BY <1>1, <1>3 DEF Unique
  <2>2. from = next
    BY DEF Unique
  <2>3. \A j \in rest, i \in DOMAIN base : taken[j].name = base[i].name => next <= j
    BY DEF Merged, Distinct
  <2> QED
    BY <1>1, <2>1, <2>2, <2>3
<1> QED
  BY <1>5, <1>6, <1>7 DEF Merged

\* A member of the answer replaces none.
LEMMA OneLeft ==
    ASSUME NEW S, NEW base \in Seq(S), NEW file \in Seq(S), NEW taken \in Seq(S),
           NEW rest \in SUBSET DOMAIN taken, NEW next \in DOMAIN taken,
           Merged(base, file, taken, rest, next),
           Unique(taken) /\ Unique(base) =>
               \A i \in DOMAIN base : base[i].name # taken[next].name
    PROVE  Merged(base, file, taken, rest, next + 1)
<1>1. DOMAIN taken = 1 .. Len(taken) /\ Len(taken) \in Nat
  BY LenProperties
<1>2. Accounted(base, file, taken, rest, next + 1)
  BY <1>1 DEF Merged, Accounted
<1>3. Distinct(base, file, taken, rest, next + 1)
  BY <1>1 DEF Merged, Distinct
<1> QED
  BY <1>2, <1>3 DEF Merged

\* When all were looked at, what is left is added behind.
LEMMA OneAdded ==
    ASSUME NEW S, NEW base \in Seq(S), NEW file \in Seq(S), NEW taken \in Seq(S),
           NEW rest \in SUBSET DOMAIN taken, NEW next \in Nat \ {0}, next \notin DOMAIN taken,
           Merged(base, file, taken, rest, next), NEW from \in rest
    PROVE  Merged(base, Append(file, taken[from]), taken, rest \ {from}, next)
<1> DEFINE after == Append(file, taken[from])
           left == rest \ {from}
           end == Len(file) + 1
<1>1. /\ DOMAIN base = 1 .. Len(base) /\ Len(base) \in Nat
      /\ DOMAIN file = 1 .. Len(file) /\ Len(file) \in Nat
      /\ DOMAIN taken = 1 .. Len(taken) /\ Len(taken) \in Nat
  BY LenProperties
<1>2. /\ DOMAIN after = DOMAIN file \cup {end} /\ end \notin DOMAIN file
      /\ \A i \in DOMAIN file : after[i] = file[i]
      /\ after[end] = taken[from]
  <2>1. taken[from] \in S
    BY <1>1, ElementOfSeq
  <2>2. after \in Seq(S) /\ Len(after) = Len(file) + 1
    BY <2>1, AppendProperties
  <2>3. DOMAIN after = 1 .. Len(file) + 1
    BY <2>2, LenProperties
  <2>4. (\A i \in 1 .. Len(file) : after[i] = file[i]) /\ after[Len(file) + 1] = taken[from]
    BY <2>1, AppendProperties
  <2> QED
    BY <1>1, <2>3, <2>4
<1> HIDE DEF after, end
<1>3. \A j \in DOMAIN taken : j < next
  BY <1>1
<1>4. DOMAIN base \subseteq DOMAIN file
  BY DEF Merged, Placed
<1>5. Placed(base, after, taken, left)
  <2>1. /\ \A i \in DOMAIN base :
              /\ i \in DOMAIN file /\ file[i].name = base[i].name
              /\ base[i].name \notin Named(taken) => file[i] = base[i]
        /\ \A i \in DOMAIN file :
              i \in DOMAIN base \/ \E j \in DOMAIN taken \ rest : file[i] = taken[j]
        /\ \A j \in DOMAIN taken :
              j \in rest \/ \E i \in DOMAIN file : file[i].name = taken[j].name
    BY DEF Merged, Placed
  <2>2. \A i \in DOMAIN base :
            /\ i \in DOMAIN after /\ after[i].name = base[i].name
            /\ base[i].name \notin Named(taken) => after[i] = base[i]
    BY <1>2, <2>1
  <2>3. \A i \in DOMAIN after :
            i \in DOMAIN base \/ \E j \in DOMAIN taken \ left : after[i] = taken[j]
    BY <1>2, <2>1
  <2>4. ASSUME NEW j \in DOMAIN taken, j \notin left
        PROVE  \E i \in DOMAIN after : after[i].name = taken[j].name
    <3>1. CASE j = from
      BY <1>2, <3>1
    <3>2. CASE j # from
      BY <1>2, <2>1, <2>4, <3>2
    <3> QED
      BY <3>1, <3>2
  <2> QED
    BY <2>2, <2>3, <2>4 DEF Placed
<1>6. Accounted(base, after, taken, left, next)
  <2> SUFFICES ASSUME Unique(taken)
               PROVE  /\ \A j \in DOMAIN taken : next <= j => j \in left
                      /\ \A j \in DOMAIN taken \ left : \E i \in DOMAIN after : after[i] = taken[j]
                      /\ \A i \in DOMAIN base :
                            \/ after[i] = base[i]
                            \/ \E j \in DOMAIN taken \ left : j < next /\ after[i] = taken[j]
    BY DEF Accounted
  <2>1. /\ \A j \in DOMAIN taken \ rest : \E i \in DOMAIN file : file[i] = taken[j]
        /\ \A i \in DOMAIN base :
              \/ file[i] = base[i]
              \/ \E j \in DOMAIN taken \ rest : j < next /\ file[i] = taken[j]
    BY DEF Merged, Accounted
  <2>2. \A j \in DOMAIN taken : next <= j => j \in left
    BY <1>1
  <2>3. ASSUME NEW j \in DOMAIN taken \ left
        PROVE  \E i \in DOMAIN after : after[i] = taken[j]
    <3>1. CASE j = from
      BY <1>2, <3>1
    <3>2. CASE j # from
      BY <1>2, <2>1, <3>2
    <3> QED
      BY <3>1, <3>2
  <2>4. \A i \in DOMAIN base :
            \/ after[i] = base[i]
            \/ \E j \in DOMAIN taken \ left : j < next /\ after[i] = taken[j]
    BY <1>2, <1>4, <2>1
  <2> QED
    BY <2>2, <2>3, <2>4
<1>7. Distinct(base, after, taken, left, next)
  <2> SUFFICES ASSUME Unique(taken), Unique(base)
               PROVE  /\ Unique(after)
                      /\ \A j \in left, i \in DOMAIN base :
                            taken[j].name = base[i].name => next <= j
    BY DEF Distinct
  <2>1. /\ Unique(file)
        /\ \A j \in rest, i \in DOMAIN base : taken[j].name = base[i].name => next <= j
    BY DEF Merged, Distinct
  <2>2. ASSUME NEW i \in DOMAIN file
        PROVE  file[i].name # taken[from].name
    <3>1. CASE i \in DOMAIN base
      <4>1. file[i].name = base[i].name
        BY <3>1 DEF Merged, Placed
      <4>2. ~(next <= from)
        BY <1>1
      <4> QED
        BY <2>1, <3>1, <4>1, <4>2
    <3>2. CASE i \notin DOMAIN base
      <4>1. PICK j \in DOMAIN taken \ rest : file[i] = taken[j]
        BY <3>2 DEF Merged, Placed
      <4> QED
        BY <4>1 DEF Unique
    <3> QED
      BY <3>1, <3>2
  <2>3. Unique(after)
    BY <1>2, <2>1, <2>2 DEF Unique
  <2> QED
    BY <2>1, <2>3
<1> QED
  BY <1>5, <1>6, <1>7 DEF Merged, after

MergeShape ==
    LET members == Seq(ToSet(existing.members) \cup ToSet(fragment.members))
    IN  /\ existing \in TestFiles \ {NoFile}
        /\ fragment.members \in Seq(ToSet(fragment.members))
        /\ draft \in [imports : {existing.imports \cup fragment.imports}, members : members]
        /\ turn \in Nat \ {0} /\ untaken \subseteq DOMAIN fragment.members
        /\ mpc # "merge" => untaken = {} /\ turn \notin DOMAIN fragment.members
        /\ turn \in DOMAIN fragment.members => Len(draft.members) = Len(existing.members)

MergeInv ==
    fragment # NoFile =>
        /\ MergeShape
        /\ Merged(existing.members, draft.members, fragment.members, untaken, turn)

\* What is merged was taken of the last answer.
FragmentOfOutput == fragment # NoFile => fragment = SplitFragment(output)

LEMMA InitFragment == MakingInit => FragmentOfOutput
  BY DEF MakingInit, FragmentOfOutput

LEMMA NextFragment == FragmentOfOutput /\ [MakingNext]_makingVars => FragmentOfOutput'
<1> SUFFICES ASSUME FragmentOfOutput, [MakingNext]_makingVars PROVE FragmentOfOutput'
  OBVIOUS
<1>1. CASE AnswerFragment
  <2>1. PICK answer \in Fragments : output' = answer /\ fragment' = SplitFragment(answer)
    BY <1>1 DEF AnswerFragment
  <2>2. SplitFragment(output)' = SplitFragment(answer)
    BY <2>1 DEF SplitFragment
  <2> QED
    BY <2>1, <2>2 DEF FragmentOfOutput
<1>2. CASE AnswerFile
  BY <1>2 DEF AnswerFile, FragmentOfOutput
<1>3. ASSUME UNCHANGED <<output, fragment>> PROVE FragmentOfOutput'
  BY <1>3 DEF FragmentOfOutput, SplitFragment
<1>4. CASE SelectMethods \/ ReplaceMember \/ AppendRest \/ JudgeSource \/ UNCHANGED makingVars
  BY <1>3, <1>4 DEF SelectMethods, ReplaceMember, AppendRest, JudgeSource, makingVars
<1> QED
  BY <1>1, <1>2, <1>4 DEF MakingNext

LEMMA SplitMembers ==
    ASSUME NEW answer \in Fragments
    PROVE  SplitFragment(answer).members \in Seq(ToSet(SplitFragment(answer).members))
  BY MakingAssumption DEF SplitFragment

LEMMA WiderSeq ==
    ASSUME NEW A, NEW B, NEW s \in Seq(A)
    PROVE  s \in Seq(A \cup B)
<1>1. s \in [1 .. Len(s) -> A] /\ Len(s) \in Nat
  BY LenProperties
<1> QED
  BY <1>1

\* The members of the three files are of one set.
LEMMA ShapeSeqs ==
    ASSUME MergeShape
    PROVE  LET S == ToSet(existing.members) \cup ToSet(fragment.members)
           IN  /\ existing.members \in Seq(S) /\ fragment.members \in Seq(S)
               /\ draft.members \in Seq(S)
<1>1. existing.members \in Seq(ToSet(existing.members))
  BY MakingAssumption DEF MergeShape
<1>2. fragment.members \in Seq(ToSet(fragment.members))
  BY DEF MergeShape
<1>3. ToSet(existing.members) \cup ToSet(fragment.members)
        = ToSet(fragment.members) \cup ToSet(existing.members)
  OBVIOUS
<1> QED
  BY <1>1, <1>2, <1>3, WiderSeq DEF MergeShape

LEMMA MergeStarts ==
    ASSUME existing \in TestFiles, AnswerFragment PROVE MergeInv'
<1>1. PICK answer \in Fragments :
        LET file == SplitFragment(answer)
        IN  /\ fragment' = file /\ untaken' = DOMAIN file.members
            /\ draft' = [imports |-> existing.imports \cup file.imports,
                         members |-> existing.members]
  BY DEF AnswerFragment, ExistingFile, WithImports
<1>2. existing' = existing /\ existing # NoFile /\ turn' = 1 /\ mpc' = "merge"
  BY DEF AnswerFragment
<1> DEFINE file == SplitFragment(answer)
<1>3. /\ existing.members \in Seq(ToSet(existing.members))
      /\ file.members \in Seq(ToSet(file.members))
  BY <1>2, MakingAssumption, SplitMembers
<1>4. existing.members \in Seq(ToSet(existing.members) \cup ToSet(file.members))
  BY <1>3, WiderSeq
<1>5. DOMAIN file.members = 1 .. Len(file.members) /\ Len(file.members) \in Nat
  BY <1>3, LenProperties
<1> HIDE DEF file
<1>6. /\ fragment' = file /\ untaken' = DOMAIN file.members
      /\ draft' = [imports |-> existing.imports \cup file.imports, members |-> existing.members]
  BY <1>1 DEF file
<1>7. MergeShape'
  BY <1>2, <1>3, <1>4, <1>6 DEF MergeShape
<1>8. Merged(existing.members, existing.members, file.members, DOMAIN file.members, 1)
  BY <1>5 DEF Merged, Placed, Accounted, Distinct
<1>9. draft'.members = existing.members
  BY <1>6
<1> QED
  BY <1>2, <1>6, <1>7, <1>8, <1>9 DEF MergeInv

LEMMA MergeReplaces ==
    ASSUME MergeInv, ReplaceMember PROVE MergeInv'
<1> SUFFICES ASSUME fragment # NoFile
             PROVE  MergeShape' /\ Merged(existing.members, draft.members, fragment.members,
                                          untaken, turn)'
  BY DEF MergeInv, ReplaceMember
<1> DEFINE S == ToSet(existing.members) \cup ToSet(fragment.members)
           base == existing.members
           file == draft.members
           taken == fragment.members
<1>1. MergeShape /\ Merged(base, file, taken, untaken, turn)
  BY DEF MergeInv
<1>2. base \in Seq(S) /\ taken \in Seq(S) /\ file \in Seq(S)
  BY <1>1, ShapeSeqs
<1>3. /\ DOMAIN base = 1 .. Len(base) /\ DOMAIN file = 1 .. Len(file)
      /\ DOMAIN taken = 1 .. Len(taken) /\ Len(taken) \in Nat
  BY <1>2, LenProperties
<1>4. /\ mpc = "merge" /\ mpc' = mpc /\ turn \in DOMAIN taken /\ turn' = turn + 1
      /\ existing' = existing /\ fragment' = fragment
      /\ Len(file) = Len(base) /\ untaken \in SUBSET DOMAIN taken
  BY <1>1 DEF ReplaceMember, MergeShape
<1>5. CASE /\ OldPlace = {} \/ NewPlace = {}
           /\ UNCHANGED <<draft, untaken, torn>>
  <2>1. ASSUME Unique(taken), Unique(base), NEW e \in DOMAIN base, base[e].name = taken[turn].name
        PROVE  FALSE
    <3>1. base[e] \in Replaced(existing, taken[turn].name)
      <4>1. \A k \in DOMAIN base : base[k].name = taken[turn].name => k = e
        BY <2>1 DEF Unique
      <4>2. e \in Nat /\ e <= e
        BY <1>3
      <4> QED
        BY <2>1, <4>1, <4>2 DEF Replaced
    <3>2. turn \in untaken
      BY <1>1, <1>3, <1>4, <2>1 DEF Merged, Accounted
    <3>3. e \in DOMAIN file /\ file[e] = base[e]
      <4>1. PICK j \in DOMAIN taken : file[e] = base[e] \/ (j < turn /\ file[e] = taken[j])
        BY <1>1, <1>4, <2>1 DEF Merged, Accounted
      <4>2. file[e].name = base[e].name
        BY <1>1 DEF Merged, Placed
      <4>3. ~(j < turn /\ file[e] = taken[j])
        BY <1>3, <1>4, <2>1, <4>2 DEF Unique
      <4> QED
        BY <1>3, <1>4, <4>1, <4>3
    <3>4. \A i \in DOMAIN file : file[i].name = base[e].name => i = e
      BY <1>1, <1>3, <1>4, <2>1 DEF Unique, Merged, Placed
    <3>5. \A gone \in Replaced(existing, taken[turn].name) : gone.name = base[e].name
      BY <2>1 DEF Replaced
    <3>6. e \in OldPlace
      <4>1. \A i \in DOMAIN file, gone \in Replaced(existing, taken[turn].name) :
               Text(file[i]) = Text(gone) => i = e
        BY <3>4, <3>5 DEF Text
      <4>2. e <= e
        BY <1>3
      <4> QED
        BY <3>1, <3>3, <4>1, <4>2 DEF OldPlace, Least
    <3>7. turn \in NewPlace
      <4>1. \A i \in WithText(taken, Text(taken[turn])) : i = turn
        BY <1>4, <2>1 DEF WithText, Text, Unique
      <4>2. turn \in WithText(taken, Text(taken[turn])) /\ turn <= turn
        BY <1>3, <1>4 DEF WithText
      <4> QED
        BY <3>2, <4>1, <4>2 DEF NewPlace, Least
    <3> QED
      BY <1>5, <3>6, <3>7
  <2>2. Merged(base, file, taken, untaken, turn + 1)
    BY <1>1, <1>2, <1>4, <2>1, OneLeft
  <2>3. MergeShape'
    BY <1>1, <1>3, <1>4, <1>5 DEF MergeShape
  <2> QED
    BY <1>4, <1>5, <2>2, <2>3
<1>6. ASSUME NEW at \in OldPlace, NEW from \in NewPlace,
             draft' = [draft EXCEPT !.members[at] = fragment.members[from]],
             untaken' = untaken \ {from}
      PROVE  MergeShape' /\ Merged(existing.members, draft.members, fragment.members,
                                   untaken, turn)'
  <2> DEFINE after == [file EXCEPT ![at] = taken[from]]
  <2>1. at \in DOMAIN file /\ file[at].name = taken[turn].name
    BY DEF OldPlace, Least, Replaced, Text
  <2>2. from \in untaken /\ from \in DOMAIN taken /\ taken[from].name = taken[turn].name
    BY DEF NewPlace, Least, WithText, Text
  <2>3. Merged(base, after, taken, untaken \ {from}, turn + 1)
    BY <1>1, <1>2, <1>4, <2>1, <2>2, OneReplaced
  <2>4. after \in Seq(S) /\ Len(after) = Len(file)
    BY <1>2, <1>3, <2>1, <2>2, ElementOfSeq, ExceptSeq
  <2>5. draft' \in [imports : {existing.imports \cup fragment.imports}, members : Seq(S)]
        /\ draft'.members = after
    BY <1>1, <1>6, <2>4 DEF MergeShape
  <2> HIDE DEF after
  <2>6. MergeShape'
    <3>1. turn' \in Nat \ {0} /\ untaken' \subseteq DOMAIN fragment.members /\ mpc' = "merge"
      BY <1>3, <1>4, <1>6
    <3>2. Len(draft'.members) = Len(existing'.members)
      BY <1>4, <2>4, <2>5
    <3> QED
      BY <1>1, <1>4, <2>5, <3>1, <3>2 DEF MergeShape
  <2> QED
    BY <1>4, <1>6, <2>3, <2>5, <2>6
<1> QED
  BY <1>5, <1>6 DEF ReplaceMember

LEMMA MergeAppends ==
    ASSUME MergeInv, AppendRest PROVE MergeInv'
<1> SUFFICES ASSUME fragment # NoFile
             PROVE  MergeShape' /\ Merged(existing.members, draft.members, fragment.members,
                                          untaken, turn)'
  BY DEF MergeInv, AppendRest
<1> DEFINE S == ToSet(existing.members) \cup ToSet(fragment.members)
           base == existing.members
           file == draft.members
           taken == fragment.members
<1>1. MergeShape /\ Merged(base, file, taken, untaken, turn)
  BY DEF MergeInv
<1>2. base \in Seq(S) /\ taken \in Seq(S) /\ file \in Seq(S)
  BY <1>1, ShapeSeqs
<1>3. /\ mpc = "merge" /\ turn \notin DOMAIN taken /\ turn' = turn
      /\ existing' = existing /\ fragment' = fragment /\ untaken \in SUBSET DOMAIN taken
      /\ turn \in Nat \ {0}
  BY <1>1 DEF AppendRest, MergeShape
<1>4. CASE untaken = {} /\ mpc' = "write" /\ UNCHANGED <<draft, untaken>>
  BY <1>1, <1>3, <1>4 DEF MergeShape
<1>5. ASSUME NEW from \in Least(untaken),
             draft' = [draft EXCEPT !.members = Append(@, fragment.members[from])],
             untaken' = untaken \ {from}, mpc' = mpc
      PROVE  MergeShape' /\ Merged(existing.members, draft.members, fragment.members,
                                   untaken, turn)'
  <2> DEFINE after == Append(file, taken[from])
  <2>1. from \in untaken
    BY DEF Least
  <2>2. Merged(base, after, taken, untaken \ {from}, turn)
    BY <1>1, <1>2, <1>3, <2>1, OneAdded
  <2>3. after \in Seq(S)
    BY <1>2, <1>3, <2>1, LenProperties, ElementOfSeq, AppendProperties
  <2>4. draft' \in [imports : {existing.imports \cup fragment.imports}, members : Seq(S)]
        /\ draft'.members = after
    BY <1>1, <1>5, <2>3 DEF MergeShape
  <2> HIDE DEF after
  <2>5. MergeShape'
    BY <1>1, <1>3, <1>5, <2>4 DEF MergeShape
  <2> QED
    BY <1>3, <1>5, <2>2, <2>4, <2>5
<1> QED
  BY <1>4, <1>5 DEF AppendRest

LEMMA NextMergeInv ==
    MakingInv /\ MergeInv /\ [MakingNext]_makingVars => MergeInv'
<1> SUFFICES ASSUME MakingInv, MergeInv, [MakingNext]_makingVars PROVE MergeInv'
  OBVIOUS
<1>1. CASE SelectMethods
  <2>1. UNCHANGED <<existing, draft, fragment, turn, untaken>> /\ mpc = "select"
    BY <1>1 DEF SelectMethods
  <2>2. MergeShape => MergeShape'
    BY <2>1 DEF MergeShape
  <2> QED
    BY <2>1, <2>2 DEF MergeInv
<1>2. CASE AnswerFragment
  BY <1>2, MergeStarts DEF MakingInv
<1>3. CASE ReplaceMember
  BY <1>3, MergeReplaces
<1>4. CASE AppendRest
  BY <1>4, MergeAppends
<1>5. CASE AnswerFile
  BY <1>5 DEF AnswerFile, MergeInv
<1>6. CASE JudgeSource
  BY <1>6 DEF JudgeSource, MergeInv, MergeShape
<1>7. CASE UNCHANGED makingVars
  BY <1>7 DEF makingVars, MergeInv, MergeShape
<1> QED
  BY <1>1, <1>2, <1>3, <1>4, <1>5, <1>6, <1>7 DEF MakingNext

LEMMA MergeInvImplies == MergeInv /\ FragmentOfOutput => MergeKeepsExisting
<1> SUFFICES ASSUME MergeInv, FragmentOfOutput, fragment # NoFile, mpc # "merge"
             PROVE  LET base == existing.members
                        new == draft.members
                        inAnswer == IF output.inner = <<>> THEN output.members ELSE output.inner[1]
                    IN  /\ \A i \in DOMAIN base :
                              /\ i \in DOMAIN new /\ new[i].name = base[i].name
                              /\ base[i].name \notin Named(inAnswer) => new[i] = base[i]
                        /\ \A i \in DOMAIN new : i \in DOMAIN base \/ new[i] \in ToSet(inAnswer)
                        /\ Named(inAnswer) \subseteq Named(new)
                        /\ Unique(inAnswer) => ToSet(inAnswer) \subseteq ToSet(new)
                        /\ Unique(base) /\ Unique(inAnswer) => Unique(new)
                        /\ draft.imports = existing.imports \cup output.imports
  BY DEF MergeKeepsExisting
<1>0. /\ fragment.members = IF output.inner = <<>> THEN output.members ELSE output.inner[1]
      /\ fragment.imports = output.imports
  BY DEF FragmentOfOutput, SplitFragment
<1>1. MergeShape /\ Merged(existing.members, draft.members, fragment.members, {}, turn)
  BY DEF MergeInv, MergeShape
<1> DEFINE base == existing.members
           new == draft.members
           taken == fragment.members
<1>2. Placed(base, new, taken, {})
  BY <1>1 DEF Merged
<1>3. /\ \A i \in DOMAIN base :
            /\ i \in DOMAIN new /\ new[i].name = base[i].name
            /\ base[i].name \notin Named(taken) => new[i] = base[i]
      /\ \A i \in DOMAIN new : i \in DOMAIN base \/ new[i] \in ToSet(taken)
  BY <1>2 DEF Placed, ToSet
<1>4. Named(taken) \subseteq Named(new)
  BY <1>2 DEF Placed, Named, ToSet
<1>5. Unique(taken) => ToSet(taken) \subseteq ToSet(new)
  BY <1>1 DEF Merged, Accounted, ToSet
<1>6. Unique(base) /\ Unique(taken) => Unique(new)
  BY <1>1 DEF Merged, Distinct
<1>7. draft.imports = existing.imports \cup fragment.imports
  BY <1>1 DEF MergeShape
<1> QED
  BY <1>0, <1>3, <1>4, <1>5, <1>6, <1>7

\* After any number of answers the merged test file is the existing one with the
\* members of the last answer, in place or behind, and none twice: merge.py and
\* PromptedGenerator, which merges every answer into the file of the start.  Of an
\* answer that declares a class only the members of the class are taken.
THEOREM MergeIsFaithful == MakingSpec => []MergeKeepsExisting
<1>1. MakingInit => MergeInv
  BY DEF MakingInit, MergeInv
<1> QED
  BY <1>1, InitMakingInv, NextMakingInv, NextMergeInv, InitFragment, NextFragment, MergeInvImplies,
     PTL DEF MakingSpec

-----------------------------------------------------------------------------
Working == {"generate", "apply", "plant", "run", "leave", "raise"}

RowOk(r) ==
    r.status = "accepted" =>
        /\ r.test.on = Fixed /\ r.ran = r.case
        /\ r.detected = "no" => ~r.test.catches

\* At each place of a case: which code is in the bench, and what the row says.
CaseInv ==
    /\ vstage \in Working =>
         /\ suite = "defects" /\ DOMAIN bench = {"source", "test"}
         /\ DOMAIN now = {"case", "status", "test", "ran", "detected"}
    /\ vstage = "generate" => bench.source = Fixed /\ now.case = Case
    /\ vstage \in {"apply", "plant", "run"} => now.case = Case /\ now.test.on = Fixed
    /\ vstage \in {"plant", "run"} => bench.test = now.test
    /\ vstage = "run" => bench.source = now.case
    /\ vstage = "leave" => RowOk(now)

RowsInv ==
    /\ rows \in Seq(Range(rows))
    /\ suite = "defects" => \A r \in Range(rows) : RowOk(r)

LEMMA AppendedRow ==
    ASSUME NEW s, NEW r, s \in Seq(Range(s))
    PROVE  /\ Append(s, r) \in Seq(Range(Append(s, r)))
           /\ Range(Append(s, r)) \subseteq Range(s) \cup {r}
<1> DEFINE S == Range(s) \cup {r}
           t == Append(s, r)
<1>1. s \in Seq(S) /\ r \in S
  <2>1. Len(s) \in Nat /\ DOMAIN s = 1..Len(s) /\ \A i \in 1..Len(s) : s[i] \in S
    BY LenProperties, ElementOfSeq
  <2> QED
    BY <2>1, LenProperties
<1>2. t \in Seq(S)
  BY <1>1, AppendProperties
<1> HIDE DEF t, S
<1>3. t \in Seq(Range(t)) /\ Range(t) \in SUBSET S
  BY <1>2, SeqOfRange, RangeOfSeq
<1> QED
  BY <1>3 DEF t, S

LEMMA InitCase == EvalInit => CaseInv /\ RowsInv
<1> SUFFICES ASSUME EvalInit PROVE CaseInv /\ RowsInv
  OBVIOUS
<1>1. CaseInv
  BY DEF EvalInit, CaseInv, Working
<1>2. rows \in Seq(Range(rows)) /\ Range(rows) = {}
  BY EmptySeq DEF EvalInit, Range
<1> QED
  BY <1>1, <1>2 DEF RowsInv

LEMMA NextCase == CaseInv /\ [EvalNext]_evalVars => CaseInv'
<1> SUFFICES ASSUME CaseInv, [EvalNext]_evalVars PROVE CaseInv'
  OBVIOUS
<1> USE DEF CaseInv, Working, RowOk
<1>1. ASSUME vstage' \in {"idle", "case"} PROVE CaseInv'
  BY <1>1
<1>2. CASE StartDefects \/ StartIntents
  BY <1>1, <1>2 DEF StartDefects, StartIntents, Start
<1>3. CASE ResetFirst
  BY <1>3 DEF ResetFirst, BenchAtStart, Clean, Case
<1>4. CASE ResetFails \/ ResetLast \/ Save \/ KillEval \/ RunVariant
  BY <1>1, <1>4 DEF ResetFails, ResetLast, Save, KillEval, RunVariant
<1>5. CASE Generate
  BY <1>5 DEF Generate, Case
<1>6. CASE ApplyProposal
  BY <1>6 DEF ApplyProposal, Case
<1>7. CASE Plant
  BY <1>7 DEF Plant, Case
<1>8. CASE RunOnBug
  BY <1>8 DEF RunOnBug, Case
<1>9. CASE Raise
  BY <1>9 DEF Raise
<1>10. CASE UNCHANGED evalVars
  BY <1>10 DEF evalVars, Case
<1> QED
  BY <1>2, <1>3, <1>4, <1>5, <1>6, <1>7, <1>8, <1>9, <1>10 DEF EvalNext

LEMMA NextRows == CaseInv /\ RowsInv /\ [EvalNext]_evalVars => RowsInv'
<1> SUFFICES ASSUME CaseInv, RowsInv, [EvalNext]_evalVars PROVE RowsInv'
  OBVIOUS
<1>1. ASSUME UNCHANGED <<suite, rows>> PROVE RowsInv'
  BY <1>1 DEF RowsInv, RowOk
<1>2. CASE StartDefects \/ StartIntents
  <2>1. rows' = <<>>
    BY <1>2 DEF StartDefects, StartIntents, Start
  <2>2. rows' \in Seq(Range(rows')) /\ Range(rows') = {}
    BY <2>1, EmptySeq DEF Range
  <2> QED
    BY <2>2 DEF RowsInv
<1>3. CASE ResetFirst \/ ResetFails \/ Generate \/ ApplyProposal \/ Plant \/ RunOnBug \/ Raise
           \/ Save \/ KillEval \/ UNCHANGED evalVars
  BY <1>1, <1>3 DEF ResetFirst, ResetFails, Generate, ApplyProposal, Plant, RunOnBug, Raise,
     Save, KillEval, evalVars
<1>4. CASE ResetLast
  <2>1. CASE vstage = "raise"
    BY <1>1, <1>4, <2>1 DEF ResetLast
  <2>2. CASE vstage = "leave"
    <3>1. rows' = Append(rows, now) /\ suite' = suite /\ RowOk(now)
      BY <1>4, <2>2 DEF ResetLast, CaseInv
    <3>2. rows' \in Seq(Range(rows')) /\ Range(rows') \subseteq Range(rows) \cup {now}
      BY <3>1, AppendedRow DEF RowsInv
    <3> QED
      BY <3>1, <3>2 DEF RowsInv
  <2> QED
    BY <1>4, <2>1, <2>2 DEF ResetLast
<1>5. CASE RunVariant
  <2>1. PICK r : rows' = Append(rows, r)
    BY <1>5 DEF RunVariant
  <2>2. rows' \in Seq(Range(rows'))
    BY <2>1, AppendedRow DEF RowsInv
  <2>3. suite' = "intents"
    BY <1>5 DEF RunVariant
  <2> QED
    BY <2>2, <2>3 DEF RowsInv
<1> QED
  BY <1>2, <1>3, <1>4, <1>5 DEF EvalNext

\* A row of the record that says accepted is about a test made on the fixed code
\* and run on the bug of its own case, whatever was killed or raised before.
THEOREM RowsAreRight == EvalSpec => []RowsAreOfTheirCase
<1>1. RowsInv => RowsAreOfTheirCase
  BY DEF RowsInv, RowOk, RowsAreOfTheirCase
<1> QED
  BY <1>1, InitCase, NextCase, NextRows, PTL DEF EvalSpec
=============================================================================
