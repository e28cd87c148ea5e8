------------------------------- MODULE Codec -------------------------------
(***************************************************************************)
(* The canonical wire and file formats: proof.rs of the accumulator crate, *)
(* the bundle of zutreexo-chain/src/bundle.rs, the compact state of        *)
(* zutreexo-csn, the bridge's wire.rs and the payload of store.rs.         *)
(*                                                                         *)
(* An input is a sequence of cells.  A cell is what the formats never      *)
(* split: a byte of a varint or of a bitmap, a little-endian integer, a    *)
(* hash, a nullifier.  A format is a sequence of fields and a raw value of *)
(* it the sequence of the fields' values; one reader and one writer serve  *)
(* every format, as Reader and CanonicalSerialize do in the code.          *)
(***************************************************************************)
EXTENDS Integers, Sequences, FiniteSetsExt

LOCAL INSTANCE SequencesExt

Cell      == 0 .. 7
PoolCodes == 0 .. 1         \* PoolId::from_code knows two
TreeDepth == 1 .. 4         \* MIN_DEPTH .. MAX_DEPTH
IndexBits == 3              \* leaf and node indices: u64 in the code

EmptyHash(level) == level   \* the ladder of empty subtrees, by level from 1

----------------------------------------------------------------------------
(* Fields.                                                                 *)

OneOf(allowed) == [kind |-> "cell", allowed |-> allowed]
AnyCell == OneOf(Cell)
Varint == [kind |-> "varint"]
Dense  == [kind |-> "dense path"]
Sparse == [kind |-> "sparse path"]
Bytes  == [kind |-> "bytes"]
Choice(formats) == [kind |-> "choice", formats |-> formats]

\* A count, and then that many entries of each of the formats in turn.  The
\* count is refused when `per` cells an entry exceed the input; with per = 0
\* it is not refused, and only what the input can hold is reserved.
Lists(formats, per) == [kind |-> "lists", formats |-> formats, per |-> per]
ListOf(format, per) == Lists(<<format>>, per)

----------------------------------------------------------------------------
(* Writing.                                                                *)

\* LEB128 in groups of two bits.
RECURSIVE WriteVarint(_)
WriteVarint(n) == IF n < 4 THEN <<n>> ELSE <<4 + (n % 4)>> \o WriteVarint(n \div 4)

\* write_path_sparse: the levels whose hash the reader cannot derive.
Present(path) == {level \in DOMAIN path : path[level] # EmptyHash(level)}

\* Three levels a bitmap cell.
Bitmap(levels, length) ==
    [k \in 1 .. (length + 2) \div 3 |->
        SumSet({2 ^ (l - 3 * k + 2) : l \in levels \cap (3 * k - 2) .. 3 * k})]

RECURSIVE Write(_, _)

WriteField(field, v) ==
    CASE field.kind = "cell"   -> <<v>>
      [] field.kind = "varint" -> WriteVarint(v)
      [] field.kind \in {"dense path", "bytes"} -> <<Len(v)>> \o v
      [] field.kind = "sparse path" ->
             <<Len(v)>> \o Bitmap(Present(v), Len(v))
                 \o [i \in 1 .. Cardinality(Present(v)) |-> v[SetToSortSeq(Present(v), <)[i]]]
      [] field.kind = "choice" -> <<v.tag>> \o Write(field.formats[v.tag], v.of)
      [] field.kind = "lists"  ->
             <<Len(v[1])>> \o
                 FlattenSeq([f \in DOMAIN v |->
                     FlattenSeq([i \in DOMAIN v[f] |-> Write(field.formats[f], v[f][i])])])

\* The fields of a raw value, in order.
Write(format, v) == FlattenSeq([i \in DOMAIN format |-> WriteField(format[i], v[i])])

----------------------------------------------------------------------------
(* Reading.  A result is the next position, 0 when the input was refused,  *)
(* the value read, and the most entries any one reservation was made for.  *)

Result(at, v, room) == [at |-> at, v |-> v, room |-> room]
Failed(room) == Result(0, <<>>, room)

Remaining(c, at) == Len(c) - at + 1

\* Reader::take.
Take(c, at, n) ==
    IF Remaining(c, at) >= n THEN Result(at + n, SubSeq(c, at, at + n - 1), 0) ELSE Failed(0)

\* read_varint: at most as many groups as an index has; what they hold beyond
\* the width of an index is lost.
ReadVarint(c, at) ==
    LET ends == {k \in 1 .. (IndexBits + 1) \div 2 : at + k - 1 <= Len(c) /\ c[at + k - 1] < 4}
        last == Min(ends)
        sum  == MapThenSumSet(LAMBDA k : (c[at + k - 1] % 4) * 4 ^ (k - 1), 1 .. last)
    IN  IF ends = {} THEN Failed(0) ELSE Result(at + last, sum % 2 ^ IndexBits, 0)

\* read_bytes: the length is checked against the input before it is used.
ReadBytes(c, at) ==
    IF Remaining(c, at) < 1 \/ c[at] > Remaining(c, at + 1) THEN Failed(0)
    ELSE Take(c, at + 1, c[at])

\* Reader::path: the length is bounded by the deepest tree, not by the input.
ReadDense(c, at) ==
    IF Remaining(c, at) < 1 \/ c[at] > Max(TreeDepth) THEN Failed(0)
    ELSE Take(c, at + 1, c[at])

\* read_path_sparse: bits of the bitmap beyond the path are ignored.
ReadSparse(c, at) ==
    LET length == c[at]
        start  == at + 1 + (length + 2) \div 3
        bit(level) == (c[at + 1 + (level - 1) \div 3] \div 2 ^ ((level - 1) % 3)) % 2
        levels == {level \in 1 .. length : bit(level) = 1}
        place(level) == start + Cardinality({l \in levels : l < level})
    IN  IF \/ Remaining(c, at) < 1 \/ length > Max(TreeDepth)
           \/ Remaining(c, start) < 0 \/ Remaining(c, start) < Cardinality(levels)
        THEN Failed(0)
        ELSE Result(start + Cardinality(levels),
                    [level \in 1 .. length |->
                        IF level \in levels THEN c[place(level)] ELSE EmptyHash(level)], 0)

\* Mutant: a declared count is believed.
CountBelieved(count, per, remaining) == FALSE

\* The check of a declared count against the entries' smallest encoding.
CountRefused(count, per, remaining) == count * per > remaining

RECURSIVE ReadFields(_, _, _)

\* What was read so far, and one item more; nothing follows a refusal.
Extended(before, item) ==
    IF before.at = 0 THEN before
    ELSE Result(item.at, Append(before.v, item.v), Max({before.room, item.room}))

ReadEntry(format, c, before) == Extended(before, ReadFields(format, c, before.at))

\* `count` entries of a format.
ReadEntries(format, count, c, at) ==
    LET entries[n \in 0 .. count] ==
            IF n = 0 THEN Result(at, <<>>, 0) ELSE ReadEntry(format, c, entries[n - 1])
    IN  entries[count]

ReadList(format, count, c, before) == Extended(before, ReadEntries(format, count, c, before.at))

ReadLists(field, count, c, at) ==
    LET room == IF field.per = 0 THEN Min({count, Remaining(c, at)}) ELSE count
        lists[f \in 0 .. Len(field.formats)] ==
            IF f = 0 THEN Result(at, <<>>, room)
            ELSE ReadList(field.formats[f], count, c, lists[f - 1])
    IN  lists[Len(field.formats)]

Tagged(tag, of) == [of EXCEPT !.v = [tag |-> tag, of |-> of.v]]

ReadField(field, c, at) ==
    CASE field.kind = "cell" ->
             IF Remaining(c, at) >= 1 /\ c[at] \in field.allowed
             THEN Result(at + 1, c[at], 0) ELSE Failed(0)
      [] field.kind = "varint"      -> ReadVarint(c, at)
      [] field.kind = "bytes"       -> ReadBytes(c, at)
      [] field.kind = "dense path"  -> ReadDense(c, at)
      [] field.kind = "sparse path" -> ReadSparse(c, at)
      [] field.kind = "choice" ->
             IF Remaining(c, at) < 1 \/ c[at] \notin DOMAIN field.formats THEN Failed(0)
             ELSE Tagged(c[at], ReadFields(field.formats[c[at]], c, at + 1))
      [] field.kind = "lists" ->
             IF Remaining(c, at) < 1 \/ CountRefused(c[at], field.per, Remaining(c, at + 1))
             THEN Failed(0) ELSE ReadLists(field, c[at], c, at + 1)

ReadNext(field, c, before) == Extended(before, ReadField(field, c, before.at))

ReadFields(format, c, at) ==
    LET fields[n \in 0 .. Len(format)] ==
            IF n = 0 THEN Result(at, <<>>, 0) ELSE ReadNext(format[n], c, fields[n - 1])
    IN  fields[Len(format)]
=============================================================================
