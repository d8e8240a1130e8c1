------------------------------ MODULE HeapFile ------------------------------
(***************************************************************************)
(* Reading a Java heap dump (hprof_report.py, HeapDump.parse to            *)
(* detect_layout): segments of sub-records, possibly cut off in the middle *)
(* of the last one, become a table of objects; classes are resolved along  *)
(* their superclasses; the object layout is guessed from the addresses.    *)
(*                                                                         *)
(* A sub-record is [tag, id, cls, refs, super, name, fields, prim]: ids    *)
(* are addresses, refs the sequence of ids it holds (0 is null), fields    *)
(* the names of the reference fields a class declares, prim its primitive  *)
(* bytes, or the bytes of a primitive array.  Where the file ends is after *)
(* the last sub-record ("whole"), in the fixed part that is read at once   *)
(* ("header") or in the data behind it ("data").                           *)
(***************************************************************************)
EXTENDS Integers, FiniteSets, SequencesExt

CONSTANTS
    Files,     \* [segments, cut, idsize]: dumps a JVM may write
    MinVotes,  \* votes that decide the layout (50 in the code)
    MaxDepth   \* length at which a chain of superclasses is given up (64)

\* What may stand in the segments of a dump.
SubRecords(f) == UNION {ToSet(records) : records \in ToSet(f.segments)}

ASSUME HeapFileAssumption ==
    /\ MinVotes \in Nat \ {0} /\ MaxDepth \in Nat \ {0}
    /\ \A f \in Files :
          /\ f.segments \in Seq(Seq(SubRecords(f))) /\ f.cut \in {"whole", "header", "data"}
          /\ \A row \in SubRecords(f) :
                /\ row.refs \in Seq(ToSet(row.refs)) /\ row.fields \in Seq(ToSet(row.fields))
                /\ row.prim \in Nat

VARIABLES
    phase,   \* "segment", "resolve", "graph", ... or "error" (an exception)
    file,    \* the dump
    seg,     \* segment being read
    at,      \* sub-record being read
    table,   \* obj_id, obj_kind, obj_cls, obj_len: the rows, node 1 first
    roots,   \* ids named by GC root sub-records
    layout   \* Layout.mode

fileVars == <<phase, file, seg, at, table, roots, layout>>

ObjectTags == {"instance", "objarray", "primarray"}
RootTags == {"root", "jni global"}

FileInit ==
    /\ phase = "segment" /\ file \in Files
    /\ seg = 1 /\ at = 1
    /\ table = <<>> /\ roots = {} /\ layout = "none"

\* Nothing is read.
FileOff ==
    /\ phase = "off" /\ file = <<>>
    /\ seg = 0 /\ at = 0
    /\ table = <<>> /\ roots = {} /\ layout = "none"

-----------------------------------------------------------------------------
(* parse, _parse_heap, _parse_class_dump                                    *)

Record == file.segments[seg][at]

Reading(tags) ==
    /\ phase = "segment" /\ seg <= Len(file.segments)
    /\ at <= Len(file.segments[seg])
    /\ Record.tag \in tags

\* The file ends inside this sub-record, in its header or in its data.
CutIn(part) ==
    /\ file.cut = part
    /\ seg = Len(file.segments) /\ at = Len(file.segments[seg])

\* unpack_from raises when the bytes end before the fixed part does.
Unreadable == phase' = "error" /\ UNCHANGED <<file, seg, at, table, roots, layout>>

\* The row is appended before its data is looked at.
ReadObject ==
    /\ Reading(ObjectTags)
    /\ \/ CutIn("header") /\ Unreadable
       \/ /\ ~CutIn("header")
          /\ table' = Append(table, Record)
          /\ at' = at + 1
          /\ UNCHANGED <<phase, file, seg, roots, layout>>

\* A class dump is read field by field to its end.
ReadClass ==
    /\ Reading({"class"})
    /\ \/ (CutIn("header") \/ CutIn("data")) /\ Unreadable
       \/ /\ ~CutIn("header") /\ ~CutIn("data")
          /\ table' = Append(table, Record)
          /\ at' = at + 1
          /\ UNCHANGED <<phase, file, seg, roots, layout>>

\* All of a root is read at once, of a JNI global only the object id.
ReadRoot ==
    /\ Reading(RootTags)
    /\ \/ /\ CutIn("header") \/ (CutIn("data") /\ Record.tag = "root")
          /\ Unreadable
       \/ /\ ~CutIn("header") /\ ~(CutIn("data") /\ Record.tag = "root")
          /\ roots' = roots \cup {Record.id}
          /\ at' = at + 1
          /\ UNCHANGED <<phase, file, seg, table, layout>>

\* The rest of the segment is skipped, with a warning.
SkipUnknown ==
    /\ Reading({"unknown"})
    /\ seg' = seg + 1 /\ at' = 1
    /\ UNCHANGED <<phase, file, table, roots, layout>>

DropNothing(rows) == rows

\* A last object whose data lies beyond the end is taken back.
DropIncomplete(rows) ==
    LET records == file.segments[seg] IN
    IF /\ file.cut = "data" /\ seg = Len(file.segments)
       /\ records # <<>> /\ Last(records).tag \in ObjectTags /\ rows # <<>>
    THEN Front(rows) ELSE rows

EndSegment ==
    /\ phase = "segment" /\ seg <= Len(file.segments)
    /\ at > Len(file.segments[seg])
    /\ table' = DropIncomplete(table)
    /\ seg' = seg + 1 /\ at' = 1
    /\ UNCHANGED <<phase, file, roots, layout>>

\* A dump without a heap segment is refused.
EndFile ==
    /\ phase = "segment" /\ seg > Len(file.segments)
    /\ phase' = IF file.segments = <<>> THEN "error" ELSE "resolve"
    /\ UNCHANGED <<file, seg, at, table, roots, layout>>

-----------------------------------------------------------------------------
(* resolve_classes                                                          *)

Nodes == 1..Len(table)

\* The node that a dictionary filled row by row keeps; 0 if there is none.
LastRow(found) == IF found = {} THEN 0 ELSE CHOOSE i \in found : \A j \in found : j <= i

\* index_of: id -> node.
IndexOf(id) == IF id = 0 THEN 0 ELSE LastRow({i \in Nodes : table[i].id = id})

\* by_id: class id -> node.
ClassOfId(cid) ==
    IF cid = 0 THEN 0 ELSE LastRow({i \in Nodes : table[i].tag = "class" /\ table[i].id = cid})

\* The class rows from cid upwards, as far as they were dumped.
Ancestry(cid) ==
    LET up[n \in 1..MaxDepth] ==
            ClassOfId(IF n = 1 THEN cid ELSE IF up[n - 1] = 0 THEN 0 ELSE table[up[n - 1]].super)
    IN  [n \in {m \in 1..MaxDepth : up[m] \in Nodes} |-> table[up[n]]]

\* The reference fields of an instance in the order of its data: its own class
\* first, then the superclasses.
RefFields(cid) == FlattenSeq([i \in DOMAIN Ancestry(cid) |-> Ancestry(cid)[i].fields])

\* Their number, and the bytes of the primitive fields.
FieldCount(cid) ==
    Cardinality(UNION {{i} \X DOMAIN Ancestry(cid)[i].fields : i \in DOMAIN Ancestry(cid)})

PrimBytes(cid) ==
    Cardinality(UNION {{i} \X (1..Ancestry(cid)[i].prim) : i \in DOMAIN Ancestry(cid)})

IsReference(cid) == \E c \in Range(Ancestry(cid)) : c.name = "Reference"

-----------------------------------------------------------------------------
(* detect_layout, _class_tables                                             *)

\* Layout.MODES: object header, reference size, array header.
Modes ==
    [compressed   |-> [hdr |-> 12, ref |-> 4, arr |-> 16],
     uncompressed |-> [hdr |-> 16, ref |-> 8, arr |-> 24],
     bits32       |-> [hdr |-> 8,  ref |-> 4, arr |-> 12]]

Align8(n) == ((n + 7) \div 8) * 8

\* The size of a row under a layout; a class object has no fields of its own
\* here, its static references count.
SizeUnder(row, mode) ==
    LET lay == Modes[mode] IN
    CASE row.tag = "instance" ->
           Align8(lay.hdr + FieldCount(row.cls) * lay.ref + PrimBytes(row.cls))
      [] row.tag = "objarray" -> Align8(lay.arr + Len(row.refs) * lay.ref)
      [] row.tag = "primarray" -> Align8(lay.arr + row.prim)
      [] row.tag = "class" -> Align8(lay.hdr + Len(row.refs) * lay.ref)

\* Neighbours whose distance fits exactly one of the two layouts.
Votes(mode, other) ==
    {i \in 1..(Len(table) - 1) :
       /\ table[i].tag # "class" /\ table[i + 1].tag # "class"
       /\ LET d == table[i + 1].id - table[i].id IN
          /\ d = SizeUnder(table[i], mode) /\ d # SizeUnder(table[i], other)}

Highest == LET ids == {table[i].id : i \in Nodes} IN
           IF ids = {} THEN 0 ELSE CHOOSE x \in ids : \A y \in ids : y <= x

\* 32 bit dumps are known by their ids; else the votes decide if there are
\* enough, else the address range (32 GB in the code, 100 here).
DetectLayout ==
    LET c == Cardinality(Votes("compressed", "uncompressed"))
        u == Cardinality(Votes("uncompressed", "compressed")) IN
    IF file.idsize = 4 THEN "bits32"
    ELSE IF c + u >= MinVotes
         THEN IF c >= u THEN "compressed" ELSE "uncompressed"
    ELSE IF Highest < 100 THEN "compressed" ELSE "uncompressed"

Resolve ==
    /\ phase = "resolve"
    /\ layout' = DetectLayout
    /\ phase' = "graph"
    /\ UNCHANGED <<file, seg, at, table, roots>>

FileNext ==
    \/ ReadObject \/ ReadClass \/ ReadRoot \/ SkipUnknown
    \/ EndSegment \/ EndFile \/ Resolve

FileSpec == FileInit /\ [][FileNext]_fileVars

-----------------------------------------------------------------------------
\* Where sub-records stand: <<segment, number>>.
RecordPlaces == UNION {{s} \X DOMAIN file.segments[s] : s \in DOMAIN file.segments}

RecordAt(p) == file.segments[p[1]][p[2]]

\* No sub-record of an unknown kind stands at a place or before it in its segment.
Legible(p) == \A j \in 1..p[2] : file.segments[p[1]][j].tag # "unknown"

EndsTheFile(p) == p[1] = Len(file.segments) /\ p[2] = Len(file.segments[p[1]])

\* The objects a reader of the file would count.
Dumped ==
    {p \in RecordPlaces :
        /\ Legible(p) /\ RecordAt(p).tag \in ObjectTags \cup {"class"}
        /\ ~(file.cut # "whole" /\ EndsTheFile(p))}

UpTo(places, p) == {q \in places : q[1] < p[1] \/ (q[1] = p[1] /\ q[2] <= p[2])}

\* The rows are the sub-records of the places, in the order of the file.
RowsOf(rows, places) ==
    /\ Len(rows) = Cardinality(places)
    /\ \A p \in places : rows[Cardinality(UpTo(places, p))] = RecordAt(p)

\* A dump that is read at all is read to the last complete object and no
\* further, wherever the file ends ("analysed as far as it can be read"): every
\* object has one row, in the order of the file.
CompleteObjectsOnly ==
    phase \notin {"off", "segment", "error"} => RowsOf(table, Dumped)
=============================================================================
