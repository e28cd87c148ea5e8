---------------------------- MODULE RateLimiter ----------------------------
(***************************************************************************)
(* RateLimiter of crates/zutreexo-bridge/src/limits.rs: one token bucket   *)
(* per source address, for a bounded number of addresses.                  *)
(*                                                                         *)
(* Time is counted in ticks, Minute of them to a minute, and tokens in     *)
(* Minute-ths, so that a bucket refills by per_minute each tick.  Instants *)
(* are kept as ages, up to the minute after which any bucket is full.      *)
(***************************************************************************)
EXTENDS Integers, Sequences, SequencesExt, FiniteSets, FiniteSetsExt, Functions

CONSTANTS
    Peer,                   \* source addresses
    Minute,                 \* ticks to a minute
    requests_per_minute, max_tracked_peers

ASSUME LimiterAssumption ==
    /\ Minute \in Nat \ {0}
    /\ requests_per_minute \in Nat /\ max_tracked_peers \in Nat
    /\ IsFiniteSet(Peer) /\ Cardinality(Peer) > max_tracked_peers

VARIABLES
    peers,                  \* the buckets, least recently seen first
    crowd                   \* ghost: the other addresses seen since an address's last request,
                            \* all of them before its first

limiter == <<peers, crowd>>

Token == Minute
Burst == requests_per_minute * Token
Capacity == Max({max_tracked_peers, 1})

LimiterInit ==
    /\ peers = <<>>
    /\ crowd = [p \in Peer |-> Peer]

Tracked(buckets) == {buckets[i].peer : i \in DOMAIN buckets}

\* Mutant: the most recently seen address makes room.
EvictedNewest(peer) ==
    IF peer \notin Tracked(peers) /\ Len(peers) >= Capacity THEN Front(peers) ELSE peers

\* A new address takes the place of the least recently seen one.
Evicted(peer) ==
    IF peer \notin Tracked(peers) /\ Len(peers) >= Capacity THEN Tail(peers) ELSE peers

\* The bucket of an address, refilled; a new one is full.
Refilled(buckets, peer) ==
    IF peer \notin Tracked(buckets) THEN Burst
    ELSE LET bucket == CHOOSE b \in Range(buckets) : b.peer = peer
         IN  Min({bucket.tokens + bucket.age * requests_per_minute, Burst})

Allowed(peer) ==
    requests_per_minute = 0 \/ Refilled(Evicted(peer), peer) >= Token

\* The other buckets: the one asked about moves to the end.
Without(buckets, peer) ==
    IF peer \notin Tracked(buckets) THEN buckets
    ELSE RemoveAt(buckets, CHOOSE i \in DOMAIN buckets : buckets[i].peer = peer)

\* allow_at, whatever it answers; the bucket asked about becomes the newest.
Allow(peer) ==
    IF requests_per_minute = 0 THEN UNCHANGED limiter
    ELSE LET kept   == Evicted(peer)
             tokens == Refilled(kept, peer)
             grant  == IF tokens >= Token THEN 1 ELSE 0
         IN  /\ peers' = Append(Without(kept, peer),
                                [peer |-> peer, age |-> 0, tokens |-> tokens - grant * Token])
             /\ crowd' = [p \in Peer |-> IF p = peer THEN {} ELSE crowd[p] \cup {peer}]

\* A tick passes.
LimiterAges ==
    /\ peers' = [i \in DOMAIN peers |-> [peers[i] EXCEPT !.age = Min({@ + 1, Minute})]]
    /\ UNCHANGED crowd

----------------------------------------------------------------------------
(* Properties.                                                             *)

\* An address's bucket is forgotten, and its allowance full again, only after
\* as many other addresses as are tracked have been seen since its own last
\* request (limits.rs, the eviction).
OnlyCrowdedOutPeersAreForgotten ==
    \A p \in Peer :
        requests_per_minute # 0 /\ p \notin Tracked(peers) => Cardinality(crowd[p]) >= Capacity
=============================================================================
