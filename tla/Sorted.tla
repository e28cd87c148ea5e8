------------------------------- MODULE Sorted -------------------------------
(***************************************************************************)
(* The sorted snapshot tree of crates/zutreexo-accumulator/src/sorted.rs:  *)
(* the same queries as module Cohort, answered by one contiguous run of an *)
(* ascending value list and the fringe of its paths.                       *)
(***************************************************************************)
EXTENDS Cohort

SortedLeaf(v) == <<"sorted leaf", v>>
SortedPad == <<"sorted pad">>
SortedNode(left, right) == <<"sorted node", left, right>>

\* depth_for: the smallest depth that holds `count` leaves; never more than the
\* indexed tree's, which held them.  That the code refuses more than 2^32 values
\* (MAX_SORTED_DEPTH) is left out.
DepthFor(count) == CHOOSE d \in 0 .. Depth : 2 ^ d >= count /\ (d = 0 \/ 2 ^ (d - 1) < count)

\* sorted_values: everything stored, the sentinel included, in ascending order.
SortedValues ==
    LET stored == DOMAIN index_by_value
    IN  [i \in 1 .. Cardinality(stored) |->
            CHOOSE u \in stored : Cardinality({w \in stored : w < u}) = i - 1]

\* from_imt: the values in ascending order, the sentinel's first, padded to a
\* complete tree.
SnapshotTree ==
    LET values == SortedValues
        depth  == DepthFor(Len(values))
        level[l \in 0 .. depth] ==
            IF l = 0
            THEN [k \in 0 .. 2 ^ depth - 1 |->
                     IF k < Len(values) THEN SortedLeaf(values[k + 1]) ELSE SortedPad]
            ELSE [k \in 0 .. 2 ^ (depth - l) - 1 |->
                     SortedNode(level[l - 1][2 * k], level[l - 1][2 * k + 1])]
    IN  [values |-> values, depth |-> depth, levels |-> level]

SnapshotRoot(snapshot) == snapshot.levels[snapshot.depth][0]

\* range_siblings: the left neighbour of an odd left edge and the right
\* neighbour of an even right edge, level by level.
RangeSiblings(snapshot, start, end) ==
    LET edges == {<<l, Ancestor(start, l) - 1>> :
                      l \in {j \in 0 .. snapshot.depth - 1 : Ancestor(start, j) % 2 = 1}}
                 \cup {<<l, Ancestor(end - 1, l) + 1>> :
                      l \in {j \in 0 .. snapshot.depth - 1 : Ancestor(end - 1, j) % 2 = 0}}
    IN  [at \in edges |-> snapshot.levels[at[1]][at[2]]]

\* The answer made of leaves start .. end - 1, the bridge counting its leaves.
RunOf(snapshot, range, start, end) ==
    [depth |-> snapshot.depth, leaf_count |-> Len(snapshot.values), range |-> range,
     start_index |-> start, values |-> SubSeq(snapshot.values, start + 1, end),
     siblings |-> RangeSiblings(snapshot, start, end)]

CountBelow(values, bound) == Cardinality({i \in DOMAIN values : values[i] < bound})

\* Mutant: the run stops at the range's last value.
ProveSortedCohortToTheEdge(snapshot, range) ==
    LET count == Len(snapshot.values)
        start == Max({CountBelow(snapshot.values, range.lo) - 1, 0})
        past  == IF range.hi = Unbounded THEN count ELSE CountBelow(snapshot.values, range.hi)
    IN  RunOf(snapshot, range, start, Min({Max({past, start + 1}), count}))

\* prove_prefix_cohort: from the value before the range to the one after it.
ProveSortedCohort(snapshot, range) ==
    LET count == Len(snapshot.values)
        start == Max({CountBelow(snapshot.values, range.lo) - 1, 0})
        past  == IF range.hi = Unbounded THEN count ELSE CountBelow(snapshot.values, range.hi) + 1
    IN  RunOf(snapshot, range, start, Min({Max({past, start + 1}), count}))

----------------------------------------------------------------------------
(* The wallet.                                                             *)

Ascending(values) == \A i \in 1 .. Len(values) - 1 : values[i] < values[i + 1]

\* Mutant: the end of the tree is taken to be one leaf early.
SpansRangeEndsEarly(cohort) ==
    /\ InRange(cohort.range, cohort.values[1]) => cohort.start_index = 0
    /\ \/ cohort.start_index + Len(cohort.values) >= cohort.leaf_count - 1
       \/ cohort.range.hi = Unbounded
       \/ cohort.values[Len(cohort.values)] >= cohort.range.hi

\* The completeness checks of verify_cohort: the run begins below the range,
\* or at the sentinel, and ends past the range, or at the last leaf.
SpansRange(cohort) ==
    /\ InRange(cohort.range, cohort.values[1]) => cohort.start_index = 0
    /\ \/ cohort.start_index + Len(cohort.values) >= cohort.leaf_count
       \/ cohort.range.hi = Unbounded
       \/ cohort.values[Len(cohort.values)] >= cohort.range.hi

\* Folds the run to level `depth`; a fringe node that was not sent is a pad.
SortedFold(cohort) ==
    LET last == cohort.start_index + Len(cohort.values) - 1
        held[l \in 0 .. cohort.depth] ==
            IF l = 0
            THEN [k \in cohort.start_index .. last |->
                     SortedLeaf(cohort.values[k - cohort.start_index + 1])]
            ELSE LET below == held[l - 1]
                     digest(k) == CASE k \in DOMAIN below -> below[k]
                                    [] k \notin DOMAIN below /\ <<l - 1, k>> \in DOMAIN cohort.siblings
                                           -> cohort.siblings[<<l - 1, k>>]
                                    [] OTHER -> SortedPad
                 IN  [k \in Ancestor(cohort.start_index, l) .. Ancestor(last, l) |->
                         SortedNode(digest(2 * k), digest(2 * k + 1))]
    IN  held[cohort.depth][Ancestor(cohort.start_index, cohort.depth)]

SortedVerifies(root, cohort) ==
    /\ cohort.values # <<>>
    /\ cohort.start_index + Len(cohort.values) <= 2 ^ cohort.depth
    /\ cohort.leaf_count <= 2 ^ cohort.depth
    /\ Ascending(cohort.values)
    /\ SpansRange(cohort)
    /\ SortedFold(cohort) = root

\* resolve: no gap check, completeness was verified.
SortedResolve(values, range, v) ==
    CASE ~InRange(range, v) -> Refused
      [] InRange(range, v) /\ v \in Range(values) -> Spent
      [] OTHER -> IF \E u \in Range(values) : u < v THEN Unspent ELSE Refused

----------------------------------------------------------------------------
(* Properties.                                                             *)

SortedAnswer(root, cohort, v) ==
    IF SortedVerifies(root, cohort)
    THEN SortedResolve(cohort.values, cohort.range, v) ELSE Refused

\* The snapshot settles every value the tree does, and agrees with it: the two
\* commitments differ in how they prove, never in what (sorted.rs, from_imt).
SortedAgreesWithCohort ==
    LET snapshot == SnapshotTree
    IN  \A v \in Value, bits \in PrefixBits :
            LET range == Covering(v, bits)
            IN  SortedAnswer(SnapshotRoot(snapshot), ProveSortedCohort(snapshot, range), v)
                  = Answer(ProvePrefixCohort(range), v)

\* The run's leaf_count is a field of the answer (proof.rs, read_body): the root
\* does not commit to it, and a wallet is told any count.
Claiming(run, count) == [run EXCEPT !.leaf_count = count]

\* The runs of a snapshot that a wallet holding its root takes to be whole.
RunsTakenToBeWhole(ranges, counts) ==
    LET snapshot == SnapshotTree
        total    == Len(snapshot.values)
        runs     == UNION {{Claiming(RunOf(snapshot, range, start, end), count) :
                                end \in start + 1 .. total, range \in ranges, count \in counts} :
                                    start \in 0 .. total - 1}
    IN  {run \in runs : SortedVerifies(SnapshotRoot(snapshot), run)}

Settles(run, v) == SortedResolve(run.values, run.range, v) \in {Refused, Truth(v)}

PastTheEnd(run, v) == \A u \in Range(run.values) : u < v

\* The counts that verify_cohort does not refuse for being too large.
Counts == 0 .. 2 ^ SnapshotTree.depth

\* However many leaves a run claims the tree has, it never settles a value
\* wrongly up to its last one; beyond, only where the checks of its end do not
\* bite: in the topmost bucket, or with fewer leaves claimed than the tree has
\* (sorted.rs, verify_cohort and resolve).
RunsMisleadOnlyPastTheirEnd ==
    \A run \in RunsTakenToBeWhole(PrefixRange, Counts), v \in Value :
        \/ Settles(run, v)
        \/ PastTheEnd(run, v) /\ (run.range.hi = Unbounded \/ run.leaf_count < LeafCount)

\* sorted.rs, verify_cohort: "Completeness -- the run spans the entire prefix
\* range. ... A bridge cannot omit a member."
VerifiedRunIsComplete ==
    \A run \in RunsTakenToBeWhole(PrefixRange, {LeafCount}), v \in Value : Settles(run, v)
=============================================================================
