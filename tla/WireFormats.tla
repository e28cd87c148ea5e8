---------------------------- MODULE WireFormats ----------------------------
(***************************************************************************)
(* The messages, on the reader and writer of Codec: the fields of each     *)
(* kind, and what its encoder and decoder do beyond them.                  *)
(***************************************************************************)
EXTENDS Codec

LOCAL INSTANCE SequencesExt
LOCAL INSTANCE Functions

CONSTANTS
    Messages,               \* kind |-> the messages of that kind to encode
    MaxDamage               \* bound: how often an encoding is damaged

Version   == 2              \* PROOF_FORMAT_VERSION, WIRE_VERSION, STORE_VERSION
Magic     == 5
MaxSortedDepth == 2         \* MAX_SORTED_DEPTH

Pool     == OneOf(PoolCodes)
Versions == OneOf({Version})
PrefixWidths == OneOf(1 .. IndexBits - 1)

\* read_leaf: value, next_value, next_index.
LeafFields == <<AnyCell, AnyCell, AnyCell>>

NonMembershipFields == LeafFields \o <<AnyCell, Dense>>
InsertionFields     == LeafFields \o <<AnyCell, Dense, AnyCell, Dense>>
SparseInsertionFields == LeafFields \o <<AnyCell, Sparse, AnyCell, Sparse>>

\* An entry of a node map: level, index since the last node, hash.
NodeFields == <<AnyCell, Varint, AnyCell>>

\* txid, vout, height, coinbase flag, value, script.
SpentFields == <<AnyCell, AnyCell, AnyCell, OneOf({0, 1}), AnyCell, Bytes>>
IndexFields == <<AnyCell, AnyCell, AnyCell, AnyCell, AnyCell, Bytes>>

\* A hash of a utreexo proof; an empty one or a placeholder is its tag alone.
UtxoHash == Choice([tag \in 0 .. 2 |-> IF tag = 1 THEN <<AnyCell>> ELSE <<>>])
HashCells == 2

UtxoProofFormat == <<Versions, ListOf(<<AnyCell>>, 1), ListOf(<<UtxoHash>>, 1)>>

Format == [
    nonmembership |-> <<Versions>> \o NonMembershipFields,
    insertion     |-> <<Versions>> \o InsertionFields,
    nullifiers    |-> <<Versions, Pool,
                        Lists(<< <<AnyCell>>, NonMembershipFields, InsertionFields >>, 13)>>,
    response      |-> <<Versions, Pool, OneOf(TreeDepth), AnyCell>> \o LeafFields \o <<AnyCell, Sparse>>,
    cohort        |-> <<Versions, Pool, AnyCell, PrefixWidths, AnyCell, AnyCell,
                        ListOf(<<Varint>> \o LeafFields, 4), ListOf(NodeFields, 3)>>,
    sorted        |-> <<Versions, Pool, OneOf(0 .. MaxSortedDepth), PrefixWidths, AnyCell, AnyCell,
                        AnyCell, AnyCell, ListOf(<<AnyCell>>, 1), ListOf(NodeFields, 3)>>,
    block         |-> <<Versions, AnyCell, ListOf(SpentFields, 1), Bytes, AnyCell,
                        ListOf(<<Pool, ListOf(SparseInsertionFields, 1)>>, 0)>>,
    compact       |-> <<Versions, OneOf(TreeDepth),
                        Choice([flag \in {0, 1} |-> IF flag = 1 THEN <<AnyCell>> ELSE <<>>]),
                        AnyCell, ListOf(<<AnyCell>>, 1), ListOf(<<Pool, AnyCell, AnyCell>>, 0)>>,
    roots         |-> <<Versions, AnyCell, AnyCell, ListOf(<<AnyCell>>, 0), ListOf(<<Pool, AnyCell>>, 0)>>,
    request       |-> <<Versions, Choice(<< <<AnyCell>>, <<Pool, AnyCell>>, <<>> >>)>>,
    snapshot      |-> <<OneOf({Magic}), Versions, OneOf(TreeDepth), AnyCell, AnyCell,
                        ListOf(<<Pool, ListOf(<<AnyCell>>, 1)>>, 0), Bytes, ListOf(IndexFields, 6)>>]

----------------------------------------------------------------------------
(* What an encoder does beyond the fields: a message to a raw value.       *)

\* Mutant: the index a delta is taken from survives a change of level.
BaseKept(entries, i) == IF i = 1 THEN 0 ELSE entries[i - 1].index

\* The index the next delta is taken from: the last one of the same level.
Base(entries, i) ==
    IF i > 1 /\ entries[i - 1].level = entries[i].level THEN entries[i - 1].index ELSE 0

\* Entries are [level, index, of]; the leaves of a cohort are all at level 0.
Deltas(entries) ==
    [i \in DOMAIN entries |-> (entries[i].index - Base(entries, i)) % 2 ^ IndexBits]

Before(p, q) == p[1] < q[1] \/ (p[1] = q[1] /\ p[2] < q[2])

\* A node map in the order of its keys.
NodeEntries(map) ==
    LET keys == SetToSortSeq(DOMAIN map, Before)
    IN  [i \in DOMAIN keys |-> [level |-> keys[i][1], index |-> keys[i][2], of |-> map[keys[i]]]]

RawNodes(map) ==
    LET entries == NodeEntries(map)
    IN  <<[i \in DOMAIN entries |-> <<entries[i].level, Deltas(entries)[i], entries[i].of>>]>>

RawLeaves(held) ==
    LET entries == [i \in DOMAIN held |-> [level |-> 0, index |-> held[i].index]]
    IN  <<[i \in DOMAIN held |-> <<Deltas(entries)[i]>> \o held[i].leaf]>>

ToRaw(of_kind, m) ==
    CASE of_kind = "cohort" -> [m EXCEPT ![7] = RawLeaves(@), ![8] = RawNodes(@)]
      [] of_kind = "sorted" -> [m EXCEPT ![10] = RawNodes(@)]
      [] of_kind = "compact" ->
             LET codes == SetToSortSeq(DOMAIN m[6], <)
             IN  [m EXCEPT ![6] = <<[i \in DOMAIN codes |-> <<codes[i]>> \o @[codes[i]]]>>]
      [] of_kind = "block"  -> [m EXCEPT ![4] = Write(UtxoProofFormat, @)]
      [] of_kind = "snapshot" ->
             LET at == SetToSortSeq(DOMAIN m.index, Before)
             IN  <<Magic, Version, m.depth, IF m.tip = <<>> THEN 0 ELSE 1,
                   IF m.tip = <<>> THEN 0 ELSE m.tip[1],
                   <<[i \in 1 .. Cardinality(PoolCodes) |-> <<i - 1, <<[n \in DOMAIN m.trees[i - 1] |-> <<m.trees[i - 1][n]>>]>>>>]>>,
                   m.forest, <<[i \in DOMAIN at |-> at[i] \o m.index[at[i]]]>>>>
      [] OTHER -> m

Encode(of_kind, m) == Write(Format[of_kind], ToRaw(of_kind, m))

----------------------------------------------------------------------------
(* What a decoder does beyond the fields: a raw value to a message, or a   *)
(* refusal.                                                                *)

\* Undoes Deltas: the indices of entries <<level, delta>>.
Indices(levels, deltas) ==
    LET index[i \in 1 .. Len(deltas)] ==
            deltas[i] + (IF i > 1 /\ levels[i - 1] = levels[i] THEN index[i - 1] ELSE 0)
    IN  [i \in 1 .. Len(deltas) |-> index[i]]

Fits(indices) == \A i \in DOMAIN indices : indices[i] < 2 ^ IndexBits

NodeIndices(list) == Indices([i \in DOMAIN list |-> list[i][1]], [i \in DOMAIN list |-> list[i][2]])
LeafIndices(list) == Indices([i \in DOMAIN list |-> 0], [i \in DOMAIN list |-> list[i][1]])

\* A node sent twice is the last one sent.
Nodes(list) ==
    LET key(i) == <<list[i][1], NodeIndices(list)[i]>>
    IN  [k \in {key(i) : i \in DOMAIN list} |-> list[Max({i \in DOMAIN list : key(i) = k})][3]]

\* Mutant: a repeated pool replaces the earlier one.
AscendingOrRepeated(pools) == \A i \in 1 .. Len(pools) - 1 : pools[i][1] <= pools[i + 1][1]

\* The pools of a compact state or of roots, in strict order.
StrictOrder(pools) == \A i \in 1 .. Len(pools) - 1 : pools[i][1] < pools[i + 1][1]

\* The bound of a prefix, aligned to its width.
Aligned(lo, bits) == lo % 2 ^ (IndexBits - bits) = 0

\* No more of the input is left than the hashes declared could take.
HeaderFits(c, r) ==
    LET hashes_at == Len(r.v[2][1]) + 4
    IN  Len(r.v[3][1]) * HashCells >= Remaining(c, hashes_at)

UtxoProofRead(c, r) == IF r.at # 0 /\ HeaderFits(c, r) THEN r ELSE Failed(r.room)

\* decode_utxo_proof.
UtxoProof(c) == UtxoProofRead(c, ReadFields(UtxoProofFormat, c, 1))

\* from_values_bulk.
Rebuilds(depth, values) ==
    /\ Len(values) < 2 ^ depth
    /\ \A i \in DOMAIN values : values[i] # <<0>> /\ \A j \in 1 .. i - 1 : values[i] # values[j]

Accepts(of_kind, v) ==
    CASE of_kind = "response" -> Len(v[9]) <= v[3]
      [] of_kind = "cohort"   -> /\ Aligned(v[5], v[4])
                              /\ Fits(LeafIndices(v[7][1])) /\ Fits(NodeIndices(v[8][1]))
      [] of_kind = "sorted"   -> Aligned(v[5], v[4]) /\ Fits(NodeIndices(v[10][1]))
      [] of_kind = "block"    ->
             LET pools == v[6][1]
             IN  /\ UtxoProof(v[4]).at # 0
                 /\ pools # <<>> => v[5] \in TreeDepth
                 /\ \A i \in DOMAIN pools :
                        /\ \A j \in 1 .. i - 1 : pools[i][1] # pools[j][1]
                        /\ \A n \in DOMAIN pools[i][2][1] :
                               LET proof == pools[i][2][1][n]
                               IN  Len(proof[5]) <= v[5] /\ Len(proof[7]) <= v[5]
      [] of_kind = "compact"  -> StrictOrder(v[6][1])
      [] of_kind = "roots"    -> StrictOrder(v[5][1])
      [] of_kind = "snapshot" -> \A i \in DOMAIN v[6][1] : Rebuilds(v[3], v[6][1][i][2][1])
      [] OTHER -> TRUE

FromRaw(of_kind, v) ==
    CASE of_kind = "cohort" ->
             [v EXCEPT ![7] = [i \in DOMAIN @[1] |-> [index |-> LeafIndices(@[1])[i],
                                                      leaf |-> Tail(@[1][i])]],
                       ![8] = Nodes(@[1])]
      [] of_kind = "sorted" -> [v EXCEPT ![10] = Nodes(@[1])]
      [] of_kind = "compact" ->
             LET pools == v[6][1]
                 last(code) == Max({i \in DOMAIN pools : pools[i][1] = code})
             IN  [v EXCEPT ![6] = [code \in {pools[i][1] : i \in DOMAIN pools} |-> Tail(pools[last(code)])]]
      [] of_kind = "block"  -> [v EXCEPT ![4] = UtxoProof(@).v,
                                       ![6] = <<SortSeq(@[1], LAMBDA p, q : p[1] < q[1])>>]
      [] of_kind = "snapshot" ->
             LET pools == v[6][1]
                 index == v[8][1]
                 last(list, same(_)) == list[Max({i \in DOMAIN list : same(list[i])})]
             IN  [depth |-> v[3], tip |-> IF v[4] = 1 THEN <<v[5]>> ELSE <<>>,
                  trees |-> [code \in PoolCodes |->
                                IF \E i \in DOMAIN pools : pools[i][1] = code
                                THEN FlattenSeq(last(pools, LAMBDA p : p[1] = code)[2][1]) ELSE <<>>],
                  forest |-> v[7],
                  index |-> [at \in {SubSeq(index[i], 1, 2) : i \in DOMAIN index} |->
                                LET leaf == last(index, LAMBDA e : SubSeq(e, 1, 2) = at)
                                IN  SubSeq([leaf EXCEPT ![4] = IF @ = 0 THEN 0 ELSE 1], 3, 6)]]
      [] OTHER -> v

Decoded(of_kind, c, r) ==
    LET room == IF of_kind = "block" /\ r.at # 0 THEN Max({r.room, UtxoProof(r.v[4]).room}) ELSE r.room
    IN  IF r.at = Len(c) + 1 /\ Accepts(of_kind, r.v)
        THEN [accepted |-> TRUE, message |-> FromRaw(of_kind, r.v), room |-> room]
        ELSE [accepted |-> FALSE, room |-> room]

\* from_bytes: refused, or the message; and the largest reservation made.
Decode(of_kind, c) == Decoded(of_kind, c, ReadFields(Format[of_kind], c, 1))

----------------------------------------------------------------------------
(* A channel or a disk: what was encoded may be cut short, have a cell     *)
(* changed, or have one added, at most MaxDamage times.                    *)

VARIABLES kind, sent, input, damage

vars == <<kind, sent, input, damage>>

Init ==
    /\ kind \in DOMAIN Messages
    /\ sent \in Messages[kind]
    /\ input = Encode(kind, sent)
    /\ damage = 0

Damage(arrives) ==
    /\ damage < MaxDamage
    /\ damage' = damage + 1
    /\ input' = arrives
    /\ UNCHANGED <<kind, sent>>

Cut    == \E n \in 0 .. Len(input) - 1 : Damage(SubSeq(input, 1, n))
Change == \E i \in DOMAIN input, cell \in Cell : Damage([input EXCEPT ![i] = cell])
Extend == \E cell \in Cell : Damage(Append(input, cell))

Next == Cut \/ Change \/ Extend

Spec == Init /\ [][Next]_vars

----------------------------------------------------------------------------
(* Properties.                                                             *)

Received == Decode(kind, input)

IsAccepted(received, message) == received.accepted /\ received.message = message

Reencoded(received) ==
    received.accepted =>
        IsAccepted(Decode(kind, Encode(kind, received.message)), received.message)

\* Whatever was sent, and whatever a decoder made of what arrived, is what its
\* own encoding decodes to: re-encoding is a fixed point
\* (fuzz_targets/bundle_decode.rs, and the writers and readers of proof.rs).
EncodingsRoundTrip ==
    /\ damage = 0 => IsAccepted(Received, sent)
    /\ Reencoded(Received)

SameEncoding(received) == received.accepted => input = Encode(kind, received.message)

\* The formats without a varint, a bitmap or a coerced flag accept one encoding
\* of a message, so equal states compare equal byte for byte (zutreexo-csn,
\* CompactState::read_body: "so one state has exactly one encoding"; wire.rs,
\* Roots::read_body).
OneEncodingEach ==
    kind \notin {"response", "cohort", "sorted", "block", "snapshot"} => SameEncoding(Received)

\* No reservation is made for more entries than the input has cells, whatever
\* count the input declares (proof.rs and bundle.rs, the checks before each
\* with_capacity; the 2^32 + 1 hashes of tests/utxo_proof_header.rs).
ReservationsFitTheInput == Received.room <= Len(input)
=============================================================================
