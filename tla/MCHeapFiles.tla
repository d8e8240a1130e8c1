---------------------------- MODULE MCHeapFiles -----------------------------
(***************************************************************************)
(* Heap dumps to read: every object graph of a family over one class, two  *)
(* arrays between which everything is possible, an instance of a           *)
(* Reference class and a further array; and files that are cut, hold an    *)
(* unknown sub-record, come in two segments or lay their objects out one   *)
(* behind the other.                                                       *)
(***************************************************************************)
EXTENDS HeapGraph

RowOf(tag, id) == [tag |-> tag, id |-> id, cls |-> 0, refs |-> <<>>, super |-> 0,
                 name |-> "", fields |-> <<>>, prim |-> 0]
ClassRow(id, name, super, fields, statics) ==
    [RowOf("class", id) EXCEPT !.name = name, !.super = super, !.fields = fields,
                             !.refs = statics]
InstanceRow(id, cls, refs) == [RowOf("instance", id) EXCEPT !.cls = cls, !.refs = refs]
ArrayRow(id, refs) == [RowOf("objarray", id) EXCEPT !.refs = refs]
BytesRow(id, n) == [RowOf("primarray", id) EXCEPT !.prim = n]
RootRow(id) == RowOf("root", id)
GlobalRow(id) == RowOf("jni global", id)
UnknownRow == RowOf("unknown", 0)

DumpOf(segments, cut) == [segments |-> segments, cut |-> cut, idsize |-> 8]

\* The elements of an array: some of the ids, in ascending order.
Elements(ids) == {SetToSortSeq(s, <) : s \in SUBSET ids}

RootLists == {<<>>, <<RootRow(2)>>, <<RootRow(2), GlobalRow(4)>>}

GraphFiles ==
    {DumpOf(<< <<ClassRow(1, "Reference", 0, <<"referent", "next">>, <<2>>),
               ArrayRow(2, a), InstanceRow(3, 1, <<b, c>>), ArrayRow(4, d), ArrayRow(5, e)>> \o r >>,
          "whole") :
       a \in Elements({3, 4, 5}), b \in {0, 2, 5}, c \in {0, 4, 5},
       d \in Elements({2, 3, 5}), e \in Elements({2, 4}), r \in RootLists}

\* A subclass, an instance of it, and one of a class that was not dumped.
SomeRows == <<RootRow(3), ClassRow(1, "Reference", 0, <<"referent">>, <<>>),
          ClassRow(2, "Sub", 1, <<"owner">>, <<>>), InstanceRow(3, 2, <<4, 5>>),
          InstanceRow(4, 9, <<3>>), BytesRow(5, 10)>>

CutFiles ==
    {DumpOf(<<SubSeq(SomeRows, 1, n)>>, cut) : n \in 1..6, cut \in {"whole", "header", "data"}}
    \cup {DumpOf(<<SubSeq(SomeRows, 1, n), s>>, cut) :
            n \in 1..6, cut \in {"whole", "header", "data"},
            s \in {<<ArrayRow(6, <<3>>)>>, <<ArrayRow(6, <<3, 4>>), GlobalRow(4)>>,
                   <<ArrayRow(6, <<3>>), UnknownRow, ArrayRow(7, <<3>>)>>}}
    \cup {DumpOf(<< >>, "whole")}

\* Arrays of bytes and of references one behind the other, as each layout
\* would place them, from a low or a high address, one gap between.
SizeIn(row, mode) ==
    Align8(Modes[mode].arr + Len(row.refs) * Modes[mode].ref + row.prim)
Placed(rows, mode, first, gap) ==
    LET start[i \in 1..Len(rows)] ==
          IF i = 1 THEN first ELSE start[i - 1] + SizeIn(rows[i - 1], mode)
                                     + (IF i = 3 THEN gap ELSE 0)
    IN  [i \in 1..Len(rows) |-> [rows[i] EXCEPT !.id = start[i]]]

DenseFiles ==
    {[segments |-> <<Placed(SubSeq(rows, 1, n), mode, start, gap)>>, cut |-> "whole",
      idsize |-> size] :
       rows \in {<<BytesRow(0, 8), ArrayRow(0, <<0, 0, 0>>), BytesRow(0, 3), BytesRow(0, 0), BytesRow(0, 1)>>,
                 <<ArrayRow(0, <<0>>), BytesRow(0, 8), BytesRow(0, 16), BytesRow(0, 0), ArrayRow(0, <<>>)>>},
       n \in {2, 5}, mode \in {"compressed", "uncompressed"}, start \in {8, 200},
       gap \in {0, 40}, size \in {4, 8}}

MCFiles == GraphFiles \cup CutFiles \cup DenseFiles
=============================================================================
