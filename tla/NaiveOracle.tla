---------------------------- MODULE NaiveOracle ----------------------------
(***************************************************************************)
(* The oracle of zutreexo-testkit: NaiveState (state.rs) over NaiveImt     *)
(* (naive.rs).  It holds a set of unspent outputs and, for every pool, the *)
(* list of its nullifiers; nothing else, and it undoes nothing.            *)
(***************************************************************************)
EXTENDS ChainState, FiniteSets

NewOracle ==
    [utxos |-> {}, pools |-> [p \in Pool |-> <<>>], tip |-> NoTip, unknown_spends |-> 0]

\* Spends of outputs the state does not hold and the block does not create.
Unknown(oracle, block) ==
    Range(block.transparent_spends) \ (oracle.utxos \cup Range(block.transparent_creates))

\* Mutant: an output the block creates and spends stays.
CancelledNever(oracle, block) == {}

\* Outputs the block creates and spends, unless the state already held them.
OracleCancels(oracle, block) ==
    (Range(block.transparent_spends) \cap Range(block.transparent_creates)) \ oracle.utxos

\* NaiveState::apply and, for every value in turn, NaiveImt::insert return Ok.
\* There is no check that heights are contiguous.
OracleAccepts(oracle, block, options) ==
    /\ NoRepeat(block.transparent_spends)
    /\ options.allow_unknown_spends \/ Unknown(oracle, block) = {}
    /\ \A p \in Pool :
           /\ NoRepeat(block.nullifiers[p])
           /\ Range(block.nullifiers[p]) \cap Range(oracle.pools[p]) = {}
           /\ Len(oracle.pools[p]) + Len(block.nullifiers[p]) <= NullifierCapacity

OracleApplied(oracle, block) ==
    [utxos |-> (oracle.utxos \ Range(block.transparent_spends))
                   \cup (Range(block.transparent_creates) \ OracleCancels(oracle, block)),
     pools |-> [p \in Pool |-> oracle.pools[p] \o block.nullifiers[p]],
     tip   |-> block.height,
     unknown_spends |-> oracle.unknown_spends + Cardinality(Unknown(oracle, block))]
=============================================================================
