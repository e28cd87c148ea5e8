------------------------------- MODULE Ledger -------------------------------
(***************************************************************************)
(* What the accumulators of a chain promise: the blocks applied form a     *)
(* chain in which nothing is spent twice and nothing is spent before it    *)
(* exists, and a reorganisation takes back exactly its newest blocks.      *)
(* There are no accumulators here; validity is a question to the blocks    *)
(* themselves.                                                             *)
(***************************************************************************)
EXTENDS Integers, Sequences, Functions

CONSTANTS Blocks, Pools

VARIABLES
    chain,
    tolerant                \* spends of outputs from before the chain are let through

vars == <<chain, tolerant>>

CreatedBy(blocks) ==
    UNION {Range(blocks[i].transparent_creates) : i \in DOMAIN blocks}

SpentBy(blocks) ==
    UNION {Range(blocks[i].transparent_spends) : i \in DOMAIN blocks}

RevealedBy(blocks, pool) ==
    UNION {Range(blocks[i].nullifiers[pool]) : i \in DOMAIN blocks}

Valid(block) ==
    /\ chain # <<>> => block.height = chain[Len(chain)].height + 1
    /\ IsInjective(block.transparent_spends)
    /\ tolerant
       \/ Range(block.transparent_spends)
            \subseteq (CreatedBy(chain) \ SpentBy(chain)) \cup Range(block.transparent_creates)
    /\ \A p \in Pools :
           /\ IsInjective(block.nullifiers[p])
           /\ Range(block.nullifiers[p]) \cap RevealedBy(chain, p) = {}

Init == chain = <<>> /\ tolerant \in BOOLEAN

Extend(block) ==
    /\ Valid(block)
    /\ chain' = Append(chain, block)
    /\ UNCHANGED tolerant

Reorganise ==
    /\ \E length \in 1 .. Len(chain) - 1 : chain' = SubSeq(chain, 1, length)
    /\ UNCHANGED tolerant

Next == (\E block \in Blocks : Extend(block)) \/ Reorganise

Spec == Init /\ [][Next]_vars
=============================================================================
