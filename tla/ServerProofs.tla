---------------------------- MODULE ServerProofs ----------------------------
(***************************************************************************)
(* Proofs about modules RateLimiter and Server: an address's bucket is     *)
(* forgotten only when as many others have been seen since as are tracked, *)
(* what is answered is a body that came whole or was ended by its peer,    *)
(* and one connection holds the server's thread no longer than BusyBound.  *)
(*                                                                         *)
(* The limiter keeps its buckets in the order the addresses were last      *)
(* seen, so that every bucket behind one is of an address in its crowd.    *)
(* The bound on a connection is a budget: what the reads may still take    *)
(* and, for every unit of the response written, one write timeout.         *)
(***************************************************************************)
EXTENDS Server, Numbers, FiniteSetTheorems, SequenceTheorems

Bucket == [peer : Peer, age : Nat, tokens : 0 .. Burst]

LimiterTypes ==
    /\ peers \in Seq(Bucket) /\ Len(peers) <= Capacity
    /\ crowd \in [Peer -> SUBSET Peer]

\* One bucket for each address, and whoever's is behind another's has been
\* seen since.
InOrder ==
    \A i, j \in 1 .. Len(peers) :
        i < j => /\ peers[i].peer # peers[j].peer
                 /\ peers[j].peer \in crowd[peers[i].peer]

Forgotten == \A p \in Peer : p \notin Tracked(peers) => Cardinality(crowd[p]) >= Capacity

LimiterInv == LimiterTypes /\ InOrder /\ Forgotten

Reading == {"headers", "body"}
Ended == {"returned", "failed"}

ServerTypes ==
    /\ backlog \in Seq(Peer)
    /\ phase \in {"accept", "write"} \cup Reading \cup Ended
    /\ closed \in BOOLEAN
    /\ arrived \in Nat /\ got \in Nat /\ elapsed \in Nat /\ blocked \in Nat
    /\ unsent \in Nat /\ in_flight \in Nat /\ busy \in Nat
    /\ phase \in Reading => request \in Requests

\* A reply is chosen when writing begins; a body is read only after all of the
\* headers, only if it is not too large, and no longer than it is short.
RequestPart ==
    /\ phase # "write" => reply = ""
    /\ phase = "body" => /\ request.length <= max_body_bytes
                         /\ got >= request.header
                         /\ got < request.header + request.length

\* Between connections, and after them, nothing is left of the last one.
IdlePart ==
    phase = "accept" \/ phase \in Ended => elapsed = 0 /\ blocked = 0 /\ busy = 0 /\ in_flight = 0

\* Until the deadline the reads take no longer than has elapsed; after it,
\* only the read that is under way goes on.
ReadPart ==
    phase \in Reading =>
        /\ blocked <= read_timeout /\ in_flight = 0
        /\ busy <= request_deadline + blocked
        /\ elapsed <= request_deadline => busy <= elapsed

\* Every write but the first has waited once, and every wait is paid for by a
\* unit already written.
WritePart ==
    phase = "write" =>
        /\ unsent \in 1 .. max_response_bytes + 1
        /\ blocked <= write_timeout /\ in_flight <= SendBuffer
        /\ \/ in_flight = 0 /\ blocked = 0 /\ busy <= request_deadline + read_timeout
           \/ /\ unsent <= max_response_bytes
              /\ busy <= request_deadline + read_timeout
                         + (max_response_bytes - unsent) * write_timeout + blocked

ServerInv ==
    /\ requests_per_minute # 0 => LimiterInv
    /\ ServerTypes
    /\ AnsweredBodiesAreWholeOrEnded
    /\ RequestPart /\ IdlePart /\ ReadPart /\ WritePart

----------------------------------------------------------------------------
(* The limiter.                                                            *)

\* At least one address is tracked, and a bucket holds at least nothing.
LEMMA LimiterSizes ==
    /\ Capacity \in Nat /\ Capacity >= 1
    /\ Burst \in Nat /\ Token \in Nat /\ Token >= 1
    /\ requests_per_minute # 0 => Burst >= Token
<1>1. max_tracked_peers \in Nat /\ requests_per_minute \in Nat /\ Minute \in Nat /\ Minute >= 1
    BY LimiterAssumption
<1>2. Capacity = IF max_tracked_peers >= 1 THEN max_tracked_peers ELSE 1
    BY <1>1, MaxOfTwo DEF Capacity
<1>3. requests_per_minute * Minute \in Nat
    BY <1>1
<1>4. ASSUME requests_per_minute # 0
      PROVE  requests_per_minute * Minute >= Minute
    <2>1. requests_per_minute - 1 \in Nat /\ requests_per_minute = (requests_per_minute - 1) + 1
        BY <1>1, <1>4
    <2>2. (requests_per_minute - 1) * Minute >= 0
        BY <1>1, <2>1
    <2>3. requests_per_minute * Minute = (requests_per_minute - 1) * Minute + Minute
        BY <1>1, <2>1
    <2> QED BY <1>1, <2>1, <2>2, <2>3, <1>3
<1> QED BY <1>1, <1>2, <1>3, <1>4 DEF Burst, Token

\* Whose bucket there is.
LEMMA TrackedAt ==
    ASSUME NEW buckets \in Seq(Bucket), NEW p
    PROVE  p \in Tracked(buckets) <=> \E i \in 1 .. Len(buckets) : buckets[i].peer = p
BY DEF Tracked

\* Eviction drops the first bucket or none, and makes room for a new address.
LEMMA EvictedFacts ==
    ASSUME LimiterInv, NEW p \in Peer
    PROVE  \E n \in {0, 1} :
               /\ n = 1 => p \notin Tracked(peers) /\ Len(peers) >= Capacity
               /\ Evicted(p) \in Seq(Bucket) /\ Len(Evicted(p)) = Len(peers) - n
               /\ \A i \in 1 .. Len(Evicted(p)) : Evicted(p)[i] = peers[i + n]
               /\ p \notin Tracked(peers) => Len(Evicted(p)) < Capacity
<1> USE DEF LimiterInv, LimiterTypes
<1>1. Capacity \in Nat /\ Capacity >= 1
    BY LimiterSizes
<1>2. CASE p \notin Tracked(peers) /\ Len(peers) >= Capacity
    <2>1. peers # <<>>
        BY <1>1, <1>2
    <2>2. Evicted(p) = Tail(peers)
        BY <1>2 DEF Evicted
    <2>3. /\ Tail(peers) \in Seq(Bucket) /\ Len(Tail(peers)) = Len(peers) - 1
          /\ \A i \in 1 .. Len(Tail(peers)) : Tail(peers)[i] = peers[i + 1]
        BY <2>1, HeadTailProperties
    <2>4. Len(peers) \in Nat
        OBVIOUS
    <2> WITNESS 1 \in {0, 1}
    <2> QED BY <1>1, <1>2, <2>2, <2>3, <2>4
<1>3. CASE ~(p \notin Tracked(peers) /\ Len(peers) >= Capacity)
    <2>1. Evicted(p) = peers
        BY <1>3 DEF Evicted
    <2> QED BY <1>1, <1>3, <2>1
<1> QED BY <1>2, <1>3

\* Taking out an address's one bucket keeps the others, in their order.
LEMMA WithoutFacts ==
    ASSUME NEW buckets \in Seq(Bucket), NEW p,
           \A i, j \in 1 .. Len(buckets) : i < j => buckets[i].peer # buckets[j].peer
    PROVE  \E e \in [1 .. Len(Without(buckets, p)) -> 1 .. Len(buckets)] :
               /\ Without(buckets, p) \in Seq(Bucket)
               /\ \A i, j \in 1 .. Len(Without(buckets, p)) : i < j => e[i] < e[j]
               /\ \A i \in 1 .. Len(Without(buckets, p)) :
                      /\ Without(buckets, p)[i] = buckets[e[i]]
                      /\ buckets[e[i]].peer # p
               /\ \A j \in 1 .. Len(buckets) :
                      buckets[j].peer # p => \E i \in 1 .. Len(Without(buckets, p)) : e[i] = j
               /\ Len(Without(buckets, p)) <= Len(buckets)
               /\ p \in Tracked(buckets) => Len(Without(buckets, p)) < Len(buckets)
<1> DEFINE r == Without(buckets, p)
<1>1. CASE p \notin Tracked(buckets)
    <2>1. r = buckets
        BY <1>1 DEF Without
    <2>2. \A i \in 1 .. Len(buckets) : buckets[i].peer # p
        BY <1>1, TrackedAt
    <2> DEFINE e == [i \in 1 .. Len(buckets) |-> i]
    <2>3. e \in [1 .. Len(r) -> 1 .. Len(buckets)]
        BY <2>1
    <2> WITNESS e \in [1 .. Len(r) -> 1 .. Len(buckets)]
    <2> QED BY <1>1, <2>1, <2>2
<1>2. CASE p \in Tracked(buckets)
    <2> DEFINE m == CHOOSE i \in DOMAIN buckets : buckets[i].peer = p
    <2>1. \E i \in DOMAIN buckets : buckets[i].peer = p
        BY <1>2 DEF Tracked
    <2>2. m \in DOMAIN buckets /\ buckets[m].peer = p
        BY <2>1
    <2>3. m \in 1 .. Len(buckets)
        BY <2>2
    <2>4. r = SubSeq(buckets, 1, m - 1) \o SubSeq(buckets, m + 1, Len(buckets))
        BY <1>2 DEF Without, RemoveAt
    <2> HIDE DEF m, r
    <2>5. /\ SubSeq(buckets, 1, m - 1) \in Seq(Bucket)
          /\ Len(SubSeq(buckets, 1, m - 1)) = m - 1
          /\ \A i \in 1 .. m - 1 : SubSeq(buckets, 1, m - 1)[i] = buckets[i]
        BY <2>3
    <2>6. /\ SubSeq(buckets, m + 1, Len(buckets)) \in Seq(Bucket)
          /\ Len(SubSeq(buckets, m + 1, Len(buckets))) = Len(buckets) - m
          /\ \A i \in 1 .. Len(buckets) - m :
                 SubSeq(buckets, m + 1, Len(buckets))[i] = buckets[m + i]
        BY <2>3
    <2> DEFINE before == SubSeq(buckets, 1, m - 1)
               after == SubSeq(buckets, m + 1, Len(buckets))
    <2> HIDE DEF before, after
    <2>7. /\ r \in Seq(Bucket) /\ Len(r) = Len(buckets) - 1
          /\ \A i \in 1 .. Len(r) : r[i] = buckets[IF i < m THEN i ELSE i + 1]
        <3>0. /\ r = before \o after
              /\ before \in Seq(Bucket) /\ after \in Seq(Bucket)
              /\ Len(before) = m - 1 /\ Len(after) = Len(buckets) - m
              /\ \A i \in 1 .. m - 1 : before[i] = buckets[i]
              /\ \A i \in 1 .. Len(buckets) - m : after[i] = buckets[m + i]
            BY <2>4, <2>5, <2>6 DEF before, after
        <3>1. r \in Seq(Bucket) /\ Len(r) = Len(buckets) - 1
            <4>1. Len(r) = Len(before) + Len(after) /\ r \in Seq(Bucket)
                BY <3>0, ConcatProperties
            <4>2. Len(buckets) \in Nat /\ m \in Nat
                BY <2>3
            <4> QED BY <4>1, <4>2, <3>0
        <3>2. ASSUME NEW i \in 1 .. Len(r), i < m PROVE r[i] = buckets[i]
            BY <2>3, <3>0, <3>1, <3>2
        <3>3. ASSUME NEW i \in 1 .. Len(r), i >= m PROVE r[i] = buckets[i + 1]
            <4>1. r[i] = after[i - (m - 1)]
                BY <2>3, <3>0, <3>1, <3>3
            <4>2. i - (m - 1) \in 1 .. Len(buckets) - m /\ m + (i - (m - 1)) = i + 1
                BY <2>3, <3>1, <3>3
            <4> QED BY <4>1, <4>2, <3>0
        <3> QED BY <2>3, <3>1, <3>2, <3>3
    <2> DEFINE e == [i \in 1 .. Len(r) |-> IF i < m THEN i ELSE i + 1]
    <2>8. e \in [1 .. Len(r) -> 1 .. Len(buckets)]
        BY <2>3, <2>7
    <2>9. \A i, j \in 1 .. Len(r) : i < j => e[i] < e[j]
        BY <2>3, <2>7
    <2>10. \A i \in 1 .. Len(r) : r[i] = buckets[e[i]] /\ buckets[e[i]].peer # p
        <3> TAKE i \in 1 .. Len(r)
        <3>1. e[i] \in 1 .. Len(buckets) /\ e[i] # m
            BY <2>3, <2>7
        <3>2. e[i] < m \/ m < e[i]
            BY <2>3, <3>1
        <3> QED BY <2>2, <2>3, <2>7, <3>1, <3>2
    <2>11. ASSUME NEW j \in 1 .. Len(buckets), buckets[j].peer # p
           PROVE  \E i \in 1 .. Len(r) : e[i] = j
        <3>1. j # m
            BY <2>2, <2>11
        <3>2. CASE j < m
            BY <2>3, <2>7, <3>2
        <3>3. CASE j > m
            <4>1. j - 1 \in 1 .. Len(r) /\ ~(j - 1 < m)
                BY <2>3, <2>7, <3>3
            <4> QED BY <4>1
        <3> QED BY <2>3, <3>1, <3>2, <3>3
    <2>12. Len(r) <= Len(buckets) /\ Len(r) < Len(buckets)
        BY <2>7
    <2> HIDE DEF e
    <2> QED BY <2>7, <2>8, <2>9, <2>10, <2>11, <2>12 DEF r
<1> QED BY <1>1, <1>2

\* A request keeps the buckets of the limiter in order and forgets only who
\* was crowded out.
LEMMA AllowKeepsInvariant ==
    ASSUME LimiterInv, NEW p \in Peer, Allow(p), requests_per_minute # 0
    PROVE  LimiterInv'
<1> DEFINE kept == Evicted(p)
           rest == Without(kept, p)
           tokens == Refilled(kept, p)
           grant == IF tokens >= Token THEN 1 ELSE 0
           new == [peer |-> p, age |-> 0, tokens |-> tokens - grant * Token]
<1>1. peers' = Append(rest, new)
    BY DEF Allow
<1>2. crowd' = [q \in Peer |-> IF q = p THEN {} ELSE crowd[q] \cup {p}]
    BY DEF Allow
<1>3. LimiterTypes /\ InOrder /\ Forgotten
    BY DEF LimiterInv
<1>4. Capacity \in Nat /\ Capacity >= 1
    BY LimiterSizes
<1>5. PICK n \in {0, 1} :
          /\ n = 1 => p \notin Tracked(peers) /\ Len(peers) >= Capacity
          /\ kept \in Seq(Bucket) /\ Len(kept) = Len(peers) - n
          /\ \A i \in 1 .. Len(kept) : kept[i] = peers[i + n]
          /\ p \notin Tracked(peers) => Len(kept) < Capacity
    BY EvictedFacts
<1>6. new \in Bucket
    <2>1. tokens \in 0 .. Burst
        <3>1. CASE p \notin Tracked(kept)
            <4>1. tokens = Burst
                BY <3>1 DEF Refilled
            <4> QED BY <4>1, LimiterSizes
        <3>2. CASE p \in Tracked(kept)
            <4> DEFINE bucket == CHOOSE b \in Range(kept) : b.peer = p
                       filled == bucket.tokens + bucket.age * requests_per_minute
            <4>1. \E b \in Range(kept) : b.peer = p
                BY <3>2 DEF Tracked, Range
            <4>2. bucket \in Range(kept)
                BY <4>1
            <4>3. bucket \in Bucket
                <5>1. \A s \in Seq(Bucket) : \A b \in Range(s) : b \in Bucket
                    BY DEF Range
                <5> QED BY <4>2, <5>1, <1>5
            <4>4. tokens = Min({filled, Burst})
                BY <3>2 DEF Refilled
            <4> HIDE DEF bucket
            <4>5. bucket.tokens \in 0 .. Burst /\ bucket.age \in Nat
                BY <4>3 DEF Bucket
            <4>6. bucket.age * requests_per_minute \in Nat
                BY <4>5, LimiterAssumption
            <4>7. filled \in Nat
                BY <4>5, <4>6, LimiterSizes
            <4> HIDE DEF filled
            <4> QED BY <4>4, <4>7, LimiterSizes, MinOfTwo
        <3> QED BY <3>1, <3>2
    <2> HIDE DEF tokens
    <2>2. tokens - grant * Token \in 0 .. Burst
        <3>1. CASE tokens >= Token
            BY <2>1, <3>1, LimiterSizes
        <3>2. CASE ~(tokens >= Token)
            BY <2>1, <3>2, LimiterSizes
        <3> QED BY <3>1, <3>2
    <2> QED BY <2>2 DEF Bucket
<1> HIDE DEF kept, new
<1>7. \A i, j \in 1 .. Len(kept) : i < j => kept[i].peer # kept[j].peer
    <2> TAKE i, j \in 1 .. Len(kept)
    <2> HAVE i < j
    <2>1. i + n \in 1 .. Len(peers) /\ j + n \in 1 .. Len(peers) /\ i + n < j + n
        BY <1>3, <1>5 DEF LimiterTypes
    <2> QED BY <2>1, <1>3, <1>5, ZenonT(60) DEF InOrder
<1>8. PICK e \in [1 .. Len(rest) -> 1 .. Len(kept)] :
          /\ rest \in Seq(Bucket)
          /\ \A i, j \in 1 .. Len(rest) : i < j => e[i] < e[j]
          /\ \A i \in 1 .. Len(rest) : rest[i] = kept[e[i]] /\ kept[e[i]].peer # p
          /\ \A j \in 1 .. Len(kept) :
                 kept[j].peer # p => \E i \in 1 .. Len(rest) : e[i] = j
          /\ Len(rest) <= Len(kept)
          /\ p \in Tracked(kept) => Len(rest) < Len(kept)
    BY <1>5, <1>7, WithoutFacts
<1> HIDE DEF rest
<1>9. /\ peers' \in Seq(Bucket) /\ Len(peers') = Len(rest) + 1
      /\ \A i \in 1 .. Len(rest) : peers'[i] = rest[i]
      /\ peers'[Len(rest) + 1] = new
    BY <1>1, <1>6, <1>8, AppendProperties
<1>10. new.peer = p
    BY DEF new
<1>11. Len(peers) \in Nat /\ Len(kept) \in Nat /\ Len(rest) \in Nat
    BY <1>3, <1>5, <1>8 DEF LimiterTypes
<1>12. ASSUME p \in Tracked(peers) PROVE n = 0 /\ p \in Tracked(kept)
    <2>1. n = 0
        BY <1>5, <1>12
    <2>2. PICK i \in 1 .. Len(peers) : peers[i].peer = p
        BY <1>3, <1>12, TrackedAt DEF LimiterTypes
    <2>3. i \in 1 .. Len(kept) /\ kept[i] = peers[i]
        BY <1>5, <1>11, <2>1, <2>2
    <2> QED BY <2>1, <2>2, <2>3, <1>5, TrackedAt
<1>13. LimiterTypes'
    <2>1. Len(rest) + 1 <= Capacity
        <3>1. CASE p \in Tracked(peers)
            <4>1. Len(rest) < Len(kept) /\ Len(kept) <= Len(peers)
                BY <1>5, <1>8, <1>11, <1>12, <3>1
            <4>2. Len(peers) <= Capacity
                BY <1>3 DEF LimiterTypes
            <4> QED BY <4>1, <4>2, <1>4, <1>11
        <3>2. CASE p \notin Tracked(peers)
            BY <1>4, <1>5, <1>8, <1>11, <3>2
        <3> QED BY <3>1, <3>2
    <2>2. crowd' \in [Peer -> SUBSET Peer]
        BY <1>2, <1>3 DEF LimiterTypes
    <2>3. Len(peers') <= Capacity
        BY <1>9, <2>1
    <2>4. Capacity' = Capacity /\ Bucket' = Bucket
        BY DEF Capacity, Bucket, Burst, Token
    <2> QED BY <1>9, <2>2, <2>3, <2>4 DEF LimiterTypes
\* Where the buckets after the step were before it.
<1>14. ASSUME NEW i \in 1 .. Len(rest)
       PROVE  /\ e[i] + n \in 1 .. Len(peers) /\ rest[i] = peers[e[i] + n]
              /\ rest[i].peer # p /\ rest[i].peer \in Peer
    <2>1. e[i] \in 1 .. Len(kept) /\ rest[i] = kept[e[i]] /\ kept[e[i]].peer # p
        BY <1>8
    <2>2. kept[e[i]] \in Bucket
        BY <1>5, <2>1
    <2>3. e[i] + n \in 1 .. Len(peers)
        BY <1>5, <1>11, <2>1
    <2> QED BY <1>5, <2>1, <2>2, <2>3 DEF Bucket
<1>15. InOrder'
    <2>1. ASSUME NEW i \in 1 .. Len(peers'), NEW j \in 1 .. Len(peers'), i < j
          PROVE  /\ peers'[i].peer # peers'[j].peer
                 /\ peers'[j].peer \in crowd'[peers'[i].peer]
        <3>1. i \in 1 .. Len(rest) /\ peers'[i] = rest[i]
            BY <1>9, <1>11, <2>1
        <3>2. rest[i].peer # p /\ rest[i].peer \in Peer
            BY <1>14, <3>1
        <3>3. crowd'[rest[i].peer] = crowd[rest[i].peer] \cup {p}
            BY <1>2, <3>2
        <3>4. CASE j \in 1 .. Len(rest)
            <4>1. peers'[j] = rest[j]
                BY <1>9, <3>4
            <4>2. /\ e[i] + n \in 1 .. Len(peers) /\ rest[i] = peers[e[i] + n]
                  /\ e[j] + n \in 1 .. Len(peers) /\ rest[j] = peers[e[j] + n]
                BY <1>14, <3>1, <3>4
            <4>3. e[i] < e[j] /\ e[i] \in Int /\ e[j] \in Int
                BY <1>8, <2>1, <3>1, <3>4, SMTT(40)
            <4>4. e[i] + n < e[j] + n
                BY <4>3, <1>5
            <4>5. /\ peers[e[i] + n].peer # peers[e[j] + n].peer
                  /\ peers[e[j] + n].peer \in crowd[peers[e[i] + n].peer]
                BY <1>3, <4>2, <4>4 DEF InOrder
            <4> QED BY <3>1, <3>3, <4>1, <4>2, <4>5
        <3>5. CASE j = Len(rest) + 1
            BY <1>9, <1>10, <3>1, <3>2, <3>3, <3>5
        <3> QED BY <1>9, <1>11, <3>4, <3>5
    <2> QED BY <2>1 DEF InOrder
<1>16. Forgotten'
    <2> SUFFICES ASSUME NEW q \in Peer, q \notin Tracked(peers')
                 PROVE  Cardinality(crowd'[q]) >= Capacity
        BY DEF Forgotten, Capacity
    <2>1. q # p
        <3>1. p \in Tracked(peers')
            <4>1. Len(rest) + 1 \in 1 .. Len(peers')
                BY <1>9, <1>11
            <4> QED BY <1>9, <1>10, <4>1, TrackedAt
        <3> QED BY <3>1
    <2>2. crowd'[q] = crowd[q] \cup {p} /\ crowd'[q] \subseteq Peer /\ crowd[q] \subseteq Peer
        BY <1>2, <1>3, <2>1 DEF LimiterTypes
    <2>3. IsFiniteSet(Peer)
        BY LimiterAssumption
    <2>4. IsFiniteSet(crowd'[q])
        BY <2>2, <2>3, FS_Subset
    <2>5. CASE q \notin Tracked(peers)
        <3>1. Cardinality(crowd[q]) >= Capacity
            BY <1>3, <2>5 DEF Forgotten
        <3>2. Cardinality(crowd[q]) <= Cardinality(crowd'[q])
            BY <2>2, <2>4, FS_Subset
        <3>3. IsFiniteSet(crowd[q])
            BY <2>2, <2>3, FS_Subset
        <3>4. Cardinality(crowd[q]) \in Nat /\ Cardinality(crowd'[q]) \in Nat
            BY <2>4, <3>3, FS_CardinalityType
        <3> QED BY <1>4, <3>1, <3>2, <3>4
    <2>6. CASE q \in Tracked(peers)
        <3>1. PICK j \in 1 .. Len(peers) : peers[j].peer = q
            BY <1>3, <2>6, TrackedAt DEF LimiterTypes
        <3>2. n = 1 /\ j = 1
            <4> SUFFICES ASSUME ~(n = 1 /\ j = 1) PROVE FALSE
                OBVIOUS
            <4>1. j - n \in 1 .. Len(kept)
                BY <1>5, <1>11, <3>1
            <4>2. kept[j - n] = peers[j]
                BY <1>5, <1>11, <3>1, <4>1
            <4>3. kept[j - n].peer # p
                BY <2>1, <3>1, <4>2
            <4>4. PICK i \in 1 .. Len(rest) : e[i] = j - n
                BY <1>8, <4>1, <4>3
            <4>5. peers'[i].peer = q /\ i \in 1 .. Len(peers')
                BY <1>8, <1>9, <1>11, <3>1, <4>2, <4>4
            <4> QED BY <1>9, <4>5, TrackedAt
        \* The one crowded out was first, and everyone behind it is in its crowd.
        <3>3. p \notin Tracked(peers) /\ Len(peers) >= Capacity
            BY <1>5, <3>2
        <3>4. \A i \in 1 .. Len(peers) : peers[i].peer # p
            BY <1>3, <3>3, TrackedAt DEF LimiterTypes
        <3> DEFINE f == [i \in 1 .. Len(peers) |-> IF i = 1 THEN p ELSE peers[i].peer]
        <3>5. f \in [1 .. Len(peers) -> crowd'[q]]
            <4> SUFFICES ASSUME NEW i \in 1 .. Len(peers) PROVE f[i] \in crowd'[q]
                OBVIOUS
            <4>1. CASE i = 1
                BY <2>2, <4>1
            <4>2. CASE i # 1
                <5>1. 1 \in 1 .. Len(peers) /\ 1 < i
                    BY <1>11, <4>2
                <5>2. peers[i].peer \in crowd[peers[1].peer]
                    BY <1>3, <5>1 DEF InOrder
                <5> QED BY <2>2, <3>1, <3>2, <4>2, <5>2
            <4> QED BY <4>1, <4>2
        <3>6. f \in Injection(1 .. Len(peers), crowd'[q])
            <4>1. ASSUME NEW i \in 1 .. Len(peers), NEW k \in 1 .. Len(peers), i < k
                  PROVE  f[i] # f[k]
                <5>1. k # 1
                    BY <1>11, <4>1
                <5>2. f[k] = peers[k].peer
                    BY <5>1
                <5>3. CASE i = 1
                    BY <3>4, <5>2, <5>3
                <5>4. CASE i # 1
                    <6>1. f[i] = peers[i].peer
                        BY <5>4
                    <6>2. peers[i].peer # peers[k].peer
                        BY <1>3, <4>1 DEF InOrder
                    <6> QED BY <5>2, <6>1, <6>2
                <5> QED BY <5>3, <5>4
            <4> HIDE DEF f
            <4>2. ASSUME NEW i \in 1 .. Len(peers), NEW k \in 1 .. Len(peers), f[i] = f[k]
                  PROVE  i = k
                BY <1>11, <4>1, <4>2
            <4> QED BY <3>5, <4>2 DEF Injection, IsInjective
        <3>7. Cardinality(1 .. Len(peers)) <= Cardinality(crowd'[q])
            BY <2>4, <3>6, FS_Injection
        <3>8. Cardinality(1 .. Len(peers)) = Len(peers)
            <4>1. Cardinality(1 .. Len(peers)) = IF 1 > Len(peers) THEN 0 ELSE Len(peers) - 1 + 1
                BY <1>11, FS_Interval
            <4> QED BY <1>4, <1>11, <3>3, <4>1
        <3>9. Cardinality(crowd'[q]) \in Nat
            BY <2>4, FS_CardinalityType
        <3> QED BY <1>4, <1>11, <3>3, <3>7, <3>8, <3>9
    <2> QED BY <2>5, <2>6
<1> QED BY <1>13, <1>15, <1>16 DEF LimiterInv

\* A tick ages the buckets and moves none.
LEMMA AgingKeepsInvariant ==
    ASSUME LimiterInv, LimiterAges
    PROVE  LimiterInv'
<1>1. LimiterTypes /\ InOrder /\ Forgotten
    BY DEF LimiterInv
<1>2. peers \in Seq(Bucket) /\ Len(peers) \in Nat /\ DOMAIN peers = 1 .. Len(peers)
    BY <1>1 DEF LimiterTypes
<1>3. peers' = [i \in 1 .. Len(peers) |-> [peers[i] EXCEPT !.age = Min({@ + 1, Minute})]]
    BY <1>2 DEF LimiterAges
<1>4. ASSUME NEW i \in 1 .. Len(peers)
      PROVE  peers'[i] \in Bucket /\ peers'[i].peer = peers[i].peer
    <2>1. peers[i] \in Bucket
        BY <1>2
    <2>2. Min({peers[i].age + 1, Minute}) \in Nat
        BY <2>1, MinOfTwo, LimiterAssumption DEF Bucket
    <2>3. peers'[i] = [peers[i] EXCEPT !.age = Min({peers[i].age + 1, Minute})]
        BY <1>3
    <2> QED BY <2>1, <2>2, <2>3 DEF Bucket
<1>5. peers' \in Seq(Bucket) /\ Len(peers') = Len(peers)
    <2>1. peers' \in [1 .. Len(peers) -> Bucket]
        BY <1>3, <1>4
    <2> QED BY <1>2, <2>1, IsASeq, LenProperties
<1>6. crowd' = crowd
    BY DEF LimiterAges
<1>7. Tracked(peers') = Tracked(peers)
    <2>1. DOMAIN peers' = DOMAIN peers
        BY <1>2, <1>3
    <2> QED BY <1>2, <1>4, <2>1 DEF Tracked
<1>8. Capacity' = Capacity /\ Bucket' = Bucket
    BY DEF Capacity, Bucket, Burst, Token
<1>9. LimiterTypes'
    BY <1>1, <1>5, <1>6, <1>8 DEF LimiterTypes
<1>10. InOrder'
    BY <1>1, <1>4, <1>5, <1>6 DEF InOrder
<1>11. Forgotten'
    BY <1>1, <1>6, <1>7, <1>8 DEF Forgotten
<1> QED BY <1>9, <1>10, <1>11 DEF LimiterInv

----------------------------------------------------------------------------
(* The server.                                                             *)

\* Both halves of the invariant that the steps of a connection disturb.
Connected ==
    /\ ServerTypes /\ AnsweredBodiesAreWholeOrEnded
    /\ RequestPart /\ IdlePart /\ ReadPart /\ WritePart

USE TimeoutAssumption, SizeAssumption

\* The body is one to be answered.
Answerable ==
    /\ Body \in request.decodes /\ request.length <= max_body_bytes
    /\ \/ Body = request.length /\ elapsed <= request_deadline
       \/ Body < request.length /\ closed

\* Whatever is answered, writing begins as the invariant asks.
LEMMA WriteBegins ==
    ASSUME Connected, phase \in Reading, NEW status, NEW payload \in 0 .. max_response_bytes,
           Write(status, payload),
           got' \in Nat, arrived' \in Nat,
           UNCHANGED <<backlog, request, closed, elapsed, in_flight, busy>>,
           status = "answer" => Answerable'
    PROVE  Connected'
<1>1. phase' = "write" /\ reply' = status /\ unsent' = 1 + payload /\ blocked' = 0
    BY DEF Write
<1>2. ServerTypes'
    BY <1>1 DEF Connected, ServerTypes, Reading, Ended
<1>3. AnsweredBodiesAreWholeOrEnded'
    BY <1>1 DEF AnsweredBodiesAreWholeOrEnded, Answerable
<1>4. RequestPart' /\ IdlePart' /\ ReadPart'
    BY <1>1 DEF RequestPart, IdlePart, ReadPart, Reading, Ended
<1>5. WritePart'
    <2>1. in_flight = 0 /\ busy <= request_deadline + blocked /\ blocked <= read_timeout
        BY DEF Connected, ReadPart
    <2>2. busy \in Nat /\ blocked \in Nat
        BY DEF Connected, ServerTypes
    <2> QED BY <1>1, <2>1, <2>2 DEF WritePart
<1> QED BY <1>2, <1>3, <1>4, <1>5 DEF Connected

\* A body is answered or refused.
LEMMA RespondKeeps ==
    ASSUME Connected, phase \in Reading, NEW size, Respond(size),
           got' \in Nat, arrived' \in Nat,
           UNCHANGED <<backlog, request, closed, elapsed, in_flight, busy>>,
           size = Body', request.length <= max_body_bytes,
           \/ size = request.length /\ elapsed <= request_deadline
           \/ size < request.length /\ closed
    PROVE  Connected'
<1>1. request \in Requests
    BY DEF Connected, ServerTypes
<1>2. request.answer \in Nat
    BY <1>1
<1>3. CASE size \notin request.decodes
    <2>1. Write("bad_request", 0)
        BY <1>3 DEF Respond
    <2> QED BY <2>1, WriteBegins
<1>4. CASE size \in request.decodes /\ request.answer > max_response_bytes
    <2>1. Write("internal", 0)
        BY <1>4 DEF Respond
    <2> QED BY <2>1, WriteBegins
<1>5. CASE size \in request.decodes /\ ~(request.answer > max_response_bytes)
    <2>1. Write("answer", request.answer)
        BY <1>5 DEF Respond
    <2>2. request.answer \in 0 .. max_response_bytes
        BY <1>2, <1>5
    <2>3. Answerable'
        BY <1>5 DEF Answerable
    <2> QED BY <2>1, <2>2, <2>3, WriteBegins
<1> QED BY <1>3, <1>4, <1>5

\* Reading on: the deadline has not passed, so the reads so far are paid for.
LEMMA ReadsOn ==
    ASSUME Connected, phase \in Reading, elapsed <= request_deadline,
           phase' \in Reading, blocked' = 0, got' \in Nat, arrived' \in Nat,
           UNCHANGED <<backlog, request, closed, elapsed, unsent, in_flight, reply, busy>>,
           phase' = "body" => /\ request.length <= max_body_bytes /\ got' >= request.header
                              /\ got' < request.header + request.length
    PROVE  Connected'
<1>1. phase # "write" /\ phase # "accept" /\ phase' # "write" /\ phase' # "accept"
    BY DEF Reading
<1>2. reply = ""
    BY <1>1 DEF Connected, RequestPart
<1>3. ServerTypes'
    BY DEF Connected, ServerTypes, Reading, Ended
<1>4. AnsweredBodiesAreWholeOrEnded'
    BY <1>2 DEF AnsweredBodiesAreWholeOrEnded
<1>5. RequestPart' /\ IdlePart' /\ WritePart'
    BY <1>1, <1>2 DEF RequestPart, IdlePart, WritePart, Ended, Reading
<1>6. ReadPart'
    <2>1. in_flight = 0 /\ busy <= elapsed
        BY DEF Connected, ReadPart
    <2>2. busy \in Nat /\ elapsed \in Nat
        BY DEF Connected, ServerTypes
    <2> QED BY <2>1, <2>2 DEF ReadPart
<1> QED BY <1>3, <1>4, <1>5, <1>6 DEF Connected

\* What is read is counted, and leads to more of the request or to a response.
LEMMA ReadKeeps ==
    ASSUME Connected, Read
    PROVE  Connected'
<1> DEFINE read == Min({arrived, Chunk})
<1>1. /\ phase \in Reading /\ arrived > 0
      /\ got' = got + read /\ arrived' = arrived - read
      /\ UNCHANGED <<limiter, backlog, left, peer, request, closed, elapsed, in_flight, busy>>
    BY DEF Read, Reading
<1>2. /\ arrived \in Nat /\ got \in Nat /\ elapsed \in Nat /\ request \in Requests
      /\ request.header \in Nat /\ request.length \in Nat
    BY <1>1 DEF Connected, ServerTypes
<1>3. read \in 0 .. arrived
    BY <1>2, MinOfTwo
<1>4. got' \in Nat /\ arrived' \in Nat /\ got' = got + read
    BY <1>1, <1>2, <1>3
<1>5. \/ Write("bad_request", 0)
      \/ ~Overdue /\ Proceed(got')
    BY <1>1 DEF Read
<1> HIDE DEF read
<1>6. CASE Write("bad_request", 0)
    BY <1>1, <1>4, <1>6, WriteBegins
<1>7. CASE ~Overdue /\ Proceed(got')
    <2>1. elapsed <= request_deadline
        BY <1>2, <1>7 DEF Overdue
    <2>2. CASE got' < request.header
        <3>1. phase' = "headers" /\ blocked' = 0 /\ UNCHANGED <<reply, unsent>>
            BY <1>7, <2>2 DEF Proceed
        <3> QED BY <1>1, <1>4, <2>1, <3>1, ReadsOn DEF Reading
    <2>3. CASE ~(got' < request.header) /\ request.length > max_body_bytes
        <3>1. Write("bad_request", 0)
            BY <1>7, <2>3 DEF Proceed
        <3> QED BY <1>1, <1>4, <3>1, WriteBegins
    <2>4. CASE /\ ~(got' < request.header) /\ ~(request.length > max_body_bytes)
               /\ got' < request.header + request.length
        <3>1. phase' = "body" /\ blocked' = 0 /\ UNCHANGED <<reply, unsent>>
            BY <1>7, <2>4 DEF Proceed
        <3>2. /\ request.length <= max_body_bytes /\ got' >= request.header
              /\ got' < request.header + request.length
            BY <1>2, <1>4, <2>4
        <3> QED BY <1>1, <1>4, <2>1, <3>1, <3>2, ReadsOn DEF Reading
    <2>5. CASE /\ ~(got' < request.header) /\ ~(request.length > max_body_bytes)
               /\ ~(got' < request.header + request.length)
        <3>1. Respond(request.length)
            BY <1>7, <2>5 DEF Proceed
        <3>2. request.length <= max_body_bytes /\ got' >= request.header + request.length
            BY <1>2, <1>4, <2>5
        <3>3. Body' = request.length
            <4>1. Body' = Min({got' - request.header, request.length})
                BY <1>1 DEF Body
            <4>2. got' - request.header \in Int /\ got' - request.header >= request.length
                BY <1>2, <1>4, <3>2
            <4> QED BY <1>2, <4>1, <4>2, MinOfTwo
        <3> QED BY <1>1, <1>4, <2>1, <3>1, <3>2, <3>3, RespondKeeps
    <2> QED BY <2>2, <2>3, <2>4, <2>5
<1> QED BY <1>5, <1>6, <1>7

\* The end of the stream: a body that is still being read is short, and is what
\* the peer ended.
LEMMA ReadEndKeeps ==
    ASSUME Connected, ReadEnd
    PROVE  Connected'
<1>1. /\ phase \in Reading /\ closed
      /\ UNCHANGED <<limiter, backlog, left, peer, request, arrived, closed, got, elapsed,
                     in_flight, busy>>
      /\ IF phase = "headers" THEN Write("bad_request", 0) ELSE Respond(got - request.header)
    BY DEF ReadEnd, Reading
<1>2. /\ arrived' \in Nat /\ got' \in Nat /\ got \in Nat /\ request \in Requests
      /\ request.header \in Nat /\ request.length \in Nat
    BY <1>1 DEF Connected, ServerTypes
<1>3. CASE phase = "headers"
    BY <1>1, <1>2, <1>3, WriteBegins
<1>4. CASE phase # "headers"
    <2>1. phase = "body" /\ Respond(got - request.header)
        BY <1>1, <1>4 DEF Reading
    <2>2. got < request.header + request.length /\ request.length <= max_body_bytes
        BY <2>1 DEF Connected, RequestPart
    <2>3. got - request.header \in Int /\ got - request.header < request.length
        BY <1>2, <2>2
    <2>4. Body' = got - request.header
        <3>1. Body' = Min({got - request.header, request.length})
            BY <1>1 DEF Body
        <3> QED BY <1>2, <2>3, <3>1, MinOfTwo
    <2> QED BY <1>1, <1>2, <2>1, <2>2, <2>3, <2>4, RespondKeeps
<1> QED BY <1>3, <1>4

\* A read that brings nothing in time leads to a refusal.
LEMMA ReadTimesOutKeeps ==
    ASSUME Connected, ReadTimesOut
    PROVE  Connected'
<1>1. /\ phase \in Reading /\ Write("bad_request", 0)
      /\ UNCHANGED <<limiter, backlog, left, peer, request, arrived, closed, got, elapsed,
                     in_flight, busy>>
    BY DEF ReadTimesOut, Reading
<1>2. arrived' \in Nat /\ got' \in Nat
    BY <1>1 DEF Connected, ServerTypes
<1> QED BY <1>1, <1>2, WriteBegins

\* Whatever it was about, a connection that is closed leaves nothing behind.
LEMMA CloseKeeps ==
    ASSUME Connected, Close, UNCHANGED backlog
    PROVE  Connected'
<1>1. ServerTypes'
    BY DEF Connected, ServerTypes, Close, Reading, Ended
<1>2. AnsweredBodiesAreWholeOrEnded'
    BY DEF AnsweredBodiesAreWholeOrEnded, Close
<1>3. RequestPart' /\ IdlePart' /\ ReadPart' /\ WritePart'
    BY DEF RequestPart, IdlePart, ReadPart, WritePart, Close, Reading
<1> QED BY <1>1, <1>2, <1>3 DEF Connected

\* A write pays for the wait before it with the units it sent.
LEMMA WriteSomeKeeps ==
    ASSUME Connected, WriteSome
    PROVE  Connected'
<1> DEFINE written == Min({unsent, SendBuffer - in_flight})
           bound == request_deadline + read_timeout
<1>1. CASE written = unsent
    <2>1. Close /\ UNCHANGED backlog
        BY <1>1 DEF WriteSome
    <2> QED BY <2>1, CloseKeeps
<1>2. CASE written # unsent
    <2>1. /\ phase = "write" /\ unsent > 0 /\ in_flight < SendBuffer
          /\ unsent' = unsent - written /\ in_flight' = in_flight + written /\ blocked' = 0
          /\ UNCHANGED <<phase, peer, request, arrived, closed, got, elapsed, reply, busy>>
          /\ UNCHANGED <<limiter, backlog>>
        BY <1>2 DEF WriteSome
    <2>2. /\ unsent \in 1 .. max_response_bytes + 1 /\ in_flight \in Nat /\ blocked \in Nat
          /\ busy \in Nat /\ blocked <= write_timeout
          /\ \/ in_flight = 0 /\ blocked = 0 /\ busy <= bound
             \/ /\ unsent <= max_response_bytes
                /\ busy <= bound + (max_response_bytes - unsent) * write_timeout + blocked
        BY <2>1 DEF Connected, ServerTypes, WritePart
    <2>3. written \in 1 .. unsent - 1 /\ written <= SendBuffer - in_flight
        BY <1>2, <2>1, <2>2, MinOfTwo
    <2> HIDE DEF written
    <2>4. unsent' \in 1 .. max_response_bytes /\ in_flight' \in Nat /\ in_flight' <= SendBuffer
        BY <2>1, <2>2, <2>3
    <2> DEFINE paid == (max_response_bytes - unsent) * write_timeout
               paidNow == (max_response_bytes - unsent') * write_timeout
    <2>5. paidNow \in Nat
        <3>1. max_response_bytes - unsent' \in Nat
            <4>1. \A u \in 1 .. max_response_bytes : max_response_bytes - u \in Nat
                OBVIOUS
            <4> QED BY <2>4, <4>1
        <3> QED BY <3>1
    <2>6. unsent <= max_response_bytes => paid \in Nat /\ paidNow >= paid + write_timeout
        <3> SUFFICES ASSUME unsent <= max_response_bytes
                     PROVE  paid \in Nat /\ paidNow >= paid + write_timeout
            OBVIOUS
        <3>1. max_response_bytes - unsent \in Nat /\ written - 1 \in Nat
            BY <2>2, <2>3
        <3>2. max_response_bytes - unsent' = (max_response_bytes - unsent) + 1 + (written - 1)
            BY <2>1, <2>2, <2>3
        <3>3. paidNow = paid + write_timeout + (written - 1) * write_timeout
            BY <3>1, <3>2
        <3>4. paid \in Nat /\ (written - 1) * write_timeout \in Nat
            BY <3>1
        <3> HIDE DEF paid, paidNow
        <3> QED BY <3>3, <3>4
    <2>7. bound \in Nat
        OBVIOUS
    <2>8. \/ busy <= bound
          \/ unsent <= max_response_bytes /\ busy <= bound + paid + blocked
        BY <2>2
    <2> HIDE DEF paid, paidNow, bound
    <2>9. busy <= bound + paidNow
        BY <2>2, <2>5, <2>6, <2>7, <2>8
    <2>10. WritePart'
        <3>1. busy' <= bound + paidNow + blocked' /\ blocked' <= write_timeout
            BY <2>1, <2>2, <2>5, <2>7, <2>9
        <3>2. max_response_bytes' = max_response_bytes /\ SendBuffer' = SendBuffer
            OBVIOUS
        <3> QED BY <2>4, <3>1 DEF WritePart, bound, paidNow
    <2>11. ServerTypes'
        BY <2>1, <2>4 DEF Connected, ServerTypes, Reading, Ended
    <2>12. AnsweredBodiesAreWholeOrEnded'
        BY <2>1 DEF Connected, AnsweredBodiesAreWholeOrEnded, Body
    <2>13. RequestPart' /\ IdlePart' /\ ReadPart'
        BY <2>1 DEF RequestPart, IdlePart, ReadPart, Reading, Ended
    <2> QED BY <2>10, <2>11, <2>12, <2>13 DEF Connected
<1> QED BY <1>1, <1>2

\* The next in line is accepted; nothing is left of the connection before.
LEMMA AcceptKeeps ==
    ASSUME Connected, Accept
    PROVE  Connected'
<1>1. /\ phase = "accept" /\ backlog # <<>> /\ backlog' = Tail(backlog)
      /\ UNCHANGED <<arrived, closed, got, elapsed, in_flight, busy>>
    BY DEF Accept
<1>2. elapsed = 0 /\ blocked = 0 /\ busy = 0 /\ in_flight = 0 /\ reply = ""
    BY <1>1 DEF Connected, IdlePart, RequestPart
<1>3. backlog' \in Seq(Peer)
    BY <1>1 DEF Connected, ServerTypes
<1>4. CASE Allowed(Head(backlog))
    <2>1. /\ request' \in Requests /\ phase' = "headers"
          /\ UNCHANGED <<reply, unsent, blocked>>
        BY <1>4 DEF Accept
    <2>2. ServerTypes'
        BY <1>1, <1>3, <2>1 DEF Connected, ServerTypes, Reading, Ended
    <2>3. AnsweredBodiesAreWholeOrEnded' /\ RequestPart' /\ IdlePart' /\ WritePart'
        BY <1>2, <2>1 DEF AnsweredBodiesAreWholeOrEnded, RequestPart, IdlePart, WritePart, Ended
    <2>4. ReadPart'
        <3>1. blocked' = 0 /\ in_flight' = 0 /\ busy' = 0 /\ elapsed' = 0
            BY <1>1, <1>2, <2>1
        <3> QED BY <3>1 DEF ReadPart
    <2> QED BY <2>2, <2>3, <2>4 DEF Connected
<1>5. CASE ~Allowed(Head(backlog))
    <2>1. /\ phase' = "write" /\ reply' = "bad_request" /\ unsent' = 1 /\ blocked' = 0
          /\ request' = request
        BY <1>5 DEF Accept, Write
    <2>2. ServerTypes'
        BY <1>1, <1>3, <2>1 DEF Connected, ServerTypes, Reading, Ended
    <2>3. /\ AnsweredBodiesAreWholeOrEnded' /\ RequestPart' /\ IdlePart' /\ ReadPart'
        BY <2>1 DEF AnsweredBodiesAreWholeOrEnded, RequestPart, IdlePart, ReadPart, Reading, Ended
    <2>4. WritePart'
        <3>1. /\ blocked' = 0 /\ in_flight' = 0 /\ busy' = 0 /\ unsent' = 1
            BY <1>1, <1>2, <2>1
        <3>2. /\ 0 <= request_deadline + read_timeout /\ 1 \in 1 .. max_response_bytes + 1
              /\ 0 <= write_timeout /\ 0 <= SendBuffer
            OBVIOUS
        <3> QED BY <3>1, <3>2, Zenon DEF WritePart
    <2> QED BY <2>2, <2>3, <2>4 DEF Connected
<1> QED BY <1>4, <1>5

\* The server ends between two connections.
LEMMA EndKeeps ==
    ASSUME Connected, AcceptFails \/ Return
    PROVE  Connected'
<1>1. phase = "accept" /\ phase' \in Ended /\ UNCHANGED <<backlog, connection, busy>>
    BY DEF AcceptFails, Return, Ended
<1>2. ServerTypes'
    BY <1>1 DEF Connected, ServerTypes, connection, Reading, Ended
<1>3. reply = ""
    BY <1>1 DEF Connected, RequestPart
<1>4. AnsweredBodiesAreWholeOrEnded'
    BY <1>1, <1>3 DEF AnsweredBodiesAreWholeOrEnded, connection
<1>5. RequestPart' /\ IdlePart' /\ ReadPart' /\ WritePart'
    BY <1>1, <1>3 DEF Connected, RequestPart, IdlePart, ReadPart, WritePart, connection, Reading,
                      Ended
<1> QED BY <1>2, <1>4, <1>5 DEF Connected

\* A tick while the thread waits: in a read it counts against the deadline, in
\* a write against the timeout of that write.
LEMMA TickKeeps ==
    ASSUME Connected, Tick
    PROVE  Connected'
<1>1. UNCHANGED <<backlog, phase, peer, request, arrived, closed, got, unsent, in_flight, reply>>
    BY DEF Tick
<1>2. /\ elapsed \in Nat /\ blocked \in Nat /\ busy \in Nat /\ unsent \in Nat
      /\ in_flight \in Nat
    BY DEF Connected, ServerTypes
<1>3. CASE phase = "accept" /\ UNCHANGED <<elapsed, blocked, busy>>
    <2>1. ServerTypes'
        BY <1>1, <1>3 DEF Connected, ServerTypes, Reading, Ended
    <2>2. AnsweredBodiesAreWholeOrEnded'
        BY <1>1, <1>3 DEF Connected, AnsweredBodiesAreWholeOrEnded, Body
    <2>3. RequestPart' /\ IdlePart' /\ ReadPart' /\ WritePart'
        BY <1>1, <1>3 DEF Connected, RequestPart, IdlePart, ReadPart, WritePart, Reading
    <2> QED BY <2>1, <2>2, <2>3 DEF Connected
<1>4. ASSUME BusyLonger PROVE busy' \in Nat /\ busy' <= busy + 1
    <2>1. busy' = Min({busy + 1, BusyBound + 1})
        BY <1>4 DEF BusyLonger
    <2>2. BusyBound \in Nat
        <3>1. max_response_bytes * write_timeout \in Nat
            OBVIOUS
        <3> QED BY <3>1 DEF BusyBound
    <2> QED BY <1>2, <2>1, <2>2, MinOfTwo
<1>5. CASE /\ phase \in Reading /\ blocked < read_timeout
           /\ elapsed' = Min({elapsed + 1, request_deadline + 1})
           /\ blocked' = blocked + 1 /\ BusyLonger
    <2>1. /\ elapsed' = IF elapsed + 1 <= request_deadline + 1 THEN elapsed + 1
                        ELSE request_deadline + 1
          /\ elapsed' \in Nat /\ blocked' \in Nat /\ busy' \in Nat /\ busy' <= busy + 1
        BY <1>2, <1>4, <1>5, MinOfTwo
    <2>2. ServerTypes'
        BY <1>1, <2>1 DEF Connected, ServerTypes, Reading, Ended
    <2>3. phase # "write" /\ phase # "accept"
        BY <1>5 DEF Reading
    <2>4. reply = ""
        BY <2>3 DEF Connected, RequestPart
    <2>5. AnsweredBodiesAreWholeOrEnded'
        BY <1>1, <2>4 DEF AnsweredBodiesAreWholeOrEnded
    <2>6. RequestPart' /\ IdlePart' /\ WritePart'
        BY <1>1, <1>5, <2>3 DEF Connected, RequestPart, IdlePart, WritePart, Ended, Reading
    <2>7. ReadPart'
        <3>1. /\ blocked <= read_timeout /\ in_flight = 0
              /\ busy <= request_deadline + blocked
              /\ elapsed <= request_deadline => busy <= elapsed
            BY <1>5 DEF Connected, ReadPart
        <3>2. blocked' <= read_timeout /\ in_flight' = 0 /\ busy' <= request_deadline + blocked'
            BY <1>1, <1>2, <1>5, <2>1, <3>1
        <3>3. elapsed' <= request_deadline => busy' <= elapsed'
            BY <1>2, <2>1, <3>1
        <3> QED BY <3>2, <3>3 DEF ReadPart
    <2> QED BY <2>2, <2>5, <2>6, <2>7 DEF Connected
<1>6. CASE /\ phase = "write" /\ in_flight = SendBuffer /\ blocked < write_timeout
           /\ blocked' = blocked + 1 /\ BusyLonger /\ UNCHANGED elapsed
    <2> DEFINE paid == request_deadline + read_timeout
                       + (max_response_bytes - unsent) * write_timeout
    <2>1. /\ unsent \in 1 .. max_response_bytes + 1
          /\ unsent <= max_response_bytes /\ busy <= paid + blocked
        BY <1>6 DEF Connected, WritePart
    <2>2. paid \in Int
        <3>1. (max_response_bytes - unsent) * write_timeout \in Int
            BY <2>1
        <3> QED BY <3>1
    <2>3. paid' = paid
        BY <1>1
    <2> HIDE DEF paid
    <2>4. /\ blocked' \in Nat /\ busy' \in Nat /\ blocked' <= write_timeout
          /\ busy' <= paid + blocked'
        BY <1>2, <1>4, <1>6, <2>1, <2>2
    <2>5. WritePart'
        BY <1>1, <1>6, <2>1, <2>4 DEF WritePart, paid
    <2>6. ServerTypes'
        BY <1>1, <1>6, <2>4 DEF Connected, ServerTypes, Reading, Ended
    <2>7. AnsweredBodiesAreWholeOrEnded'
        BY <1>1, <1>6 DEF Connected, AnsweredBodiesAreWholeOrEnded, Body
    <2>8. RequestPart' /\ IdlePart' /\ ReadPart'
        BY <1>1, <1>6 DEF Connected, RequestPart, IdlePart, ReadPart, Reading
    <2> QED BY <2>5, <2>6, <2>7, <2>8 DEF Connected
<1> QED BY <1>3, <1>5, <1>6 DEF Tick, Reading

\* What a peer does, or a new one, takes no time and is not yet read.
LEMMA PeersKeep ==
    ASSUME Connected,
           (\E p \in Peer : Connect(p)) \/ PeerSends \/ PeerCloses \/ PeerReads
    PROVE  Connected'
<1>1. CASE \E p \in Peer : Connect(p)
    <2>1. PICK p \in Peer : Connect(p)
        BY <1>1
    <2>2. backlog' \in Seq(Peer)
        BY <2>1 DEF Connect, Connected, ServerTypes
    <2>3. UNCHANGED <<phase, connection, busy>>
        BY <2>1 DEF Connect
    <2>4. ServerTypes'
        BY <2>2, <2>3 DEF Connected, ServerTypes, connection, Reading, Ended
    <2>5. AnsweredBodiesAreWholeOrEnded'
        BY <2>3 DEF Connected, AnsweredBodiesAreWholeOrEnded, Body, connection
    <2>6. RequestPart' /\ IdlePart' /\ ReadPart' /\ WritePart'
        BY <2>3 DEF Connected, RequestPart, IdlePart, ReadPart, WritePart, connection, Reading
    <2> QED BY <2>4, <2>5, <2>6 DEF Connected
<1>2. CASE PeerSends \/ PeerCloses
    <2>1. /\ UNCHANGED <<backlog, phase, request, got, elapsed, blocked, unsent, in_flight,
                        reply, busy>>
          /\ arrived' \in Nat /\ closed' \in BOOLEAN
        <3>1. arrived \in Nat /\ closed \in BOOLEAN
            BY DEF Connected, ServerTypes
        <3>2. CASE PeerSends
            BY <3>1, <3>2 DEF PeerSends
        <3>3. CASE PeerCloses
            BY <3>1, <3>3 DEF PeerCloses
        <3> QED BY <1>2, <3>2, <3>3
    <2>2. ServerTypes'
        BY <2>1 DEF Connected, ServerTypes, Reading, Ended
    <2>3. AnsweredBodiesAreWholeOrEnded'
        <3>1. phase \in Reading
            BY <1>2 DEF PeerSends, PeerCloses, Reading
        <3>2. reply = ""
            BY <3>1 DEF Connected, RequestPart, Reading
        <3> QED BY <2>1, <3>2 DEF AnsweredBodiesAreWholeOrEnded
    <2>4. RequestPart' /\ IdlePart' /\ ReadPart' /\ WritePart'
        BY <2>1 DEF Connected, RequestPart, IdlePart, ReadPart, WritePart, Reading
    <2> QED BY <2>2, <2>3, <2>4 DEF Connected
<1>3. CASE PeerReads
    <2>1. /\ UNCHANGED <<backlog, phase, request, arrived, closed, got, elapsed, blocked, unsent,
                        reply, busy>>
          /\ phase = "write" /\ in_flight > 0 /\ in_flight' = in_flight - 1
        BY <1>3 DEF PeerReads
    <2>2. in_flight \in Nat
        BY DEF Connected, ServerTypes
    <2>3. ServerTypes'
        BY <2>1, <2>2 DEF Connected, ServerTypes, Reading, Ended
    <2>4. AnsweredBodiesAreWholeOrEnded'
        BY <2>1 DEF Connected, AnsweredBodiesAreWholeOrEnded, Body
    <2>5. RequestPart' /\ IdlePart' /\ ReadPart'
        BY <2>1 DEF Connected, RequestPart, IdlePart, ReadPart, Reading
    <2>6. WritePart'
        <3>1. in_flight # 0 /\ in_flight <= SendBuffer /\ in_flight' <= SendBuffer
            BY <2>1, <2>2 DEF Connected, WritePart
        <3> QED BY <2>1, <3>1, Zenon DEF Connected, WritePart
    <2> QED BY <2>3, <2>4, <2>5, <2>6 DEF Connected
<1> QED BY <1>1, <1>2, <1>3

\* Nobody has connected yet.
LEMMA InitHasInvariant ==
    ASSUME Init
    PROVE  ServerInv
<1>1. LimiterInv
    <2>1. peers = <<>> /\ crowd = [p \in Peer |-> Peer]
        BY DEF Init, LimiterInit
    <2>2. Capacity \in Nat /\ Capacity >= 1
        BY LimiterSizes
    <2>3. LimiterTypes /\ InOrder
        BY <2>1, <2>2 DEF LimiterTypes, InOrder
    <2>4. Forgotten
        <3>1. Capacity = IF max_tracked_peers >= 1 THEN max_tracked_peers ELSE 1
            BY LimiterAssumption, MaxOfTwo DEF Capacity
        <3>2. Cardinality(Peer) \in Nat
            BY LimiterAssumption, FS_CardinalityType
        <3>3. Cardinality(Peer) >= Capacity
            BY <3>1, <3>2, LimiterAssumption
        <3> QED BY <2>1, <3>3 DEF Forgotten
    <2> QED BY <2>3, <2>4 DEF LimiterInv
<1>2. Connected
    <2>1. ServerTypes
        <3>1. backlog = <<>> /\ phase = "accept" /\ closed = FALSE
            BY DEF Init
        <3>2. /\ arrived \in Nat /\ got \in Nat /\ elapsed \in Nat /\ blocked \in Nat
              /\ unsent \in Nat /\ in_flight \in Nat /\ busy \in Nat
            BY DEF Init
        <3>3. backlog \in Seq(Peer)
            BY <3>1, EmptySeq
        <3>4. phase \in {"accept", "write"} \cup Reading \cup Ended /\ phase \notin Reading
            BY <3>1 DEF Reading
        <3>5. closed \in BOOLEAN
            BY <3>1
        <3> QED BY <3>2, <3>3, <3>4, <3>5 DEF ServerTypes
    <2> QED BY <2>1 DEF Init, Connected, AnsweredBodiesAreWholeOrEnded, RequestPart, IdlePart,
                        ReadPart, WritePart, Reading
<1> QED BY <1>1, <1>2 DEF ServerInv, Connected

\* Every step keeps the invariant.
LEMMA NextKeepsInvariant ==
    ASSUME ServerInv, [Next]_vars
    PROVE  ServerInv'
<1>1. Connected
    BY DEF ServerInv, Connected
<1>2. Connected'
    <2>1. CASE (\E p \in Peer : Connect(p)) \/ PeerSends \/ PeerCloses \/ PeerReads
        BY <1>1, <2>1, PeersKeep
    <2>2. CASE Accept
        BY <1>1, <2>2, AcceptKeeps
    <2>10. CASE AcceptFails \/ Return
        BY <1>1, <2>10, EndKeeps
    <2>3. CASE Read
        BY <1>1, <2>3, ReadKeeps
    <2>4. CASE ReadEnd
        BY <1>1, <2>4, ReadEndKeeps
    <2>5. CASE ReadTimesOut
        BY <1>1, <2>5, ReadTimesOutKeeps
    <2>6. CASE WriteSome
        BY <1>1, <2>6, WriteSomeKeeps
    <2>7. CASE WriteTimesOut
        BY <1>1, <2>7, CloseKeeps DEF WriteTimesOut
    <2>8. CASE Tick
        BY <1>1, <2>8, TickKeeps
    <2>9. CASE UNCHANGED vars
        <3>1. UNCHANGED <<backlog, phase, connection, busy>>
            BY <2>9 DEF vars
        <3>2. ServerTypes'
            BY <1>1, <3>1 DEF Connected, ServerTypes, connection, Reading, Ended
        <3>3. AnsweredBodiesAreWholeOrEnded'
            BY <1>1, <3>1 DEF Connected, AnsweredBodiesAreWholeOrEnded, Body, connection
        <3>4. RequestPart' /\ IdlePart' /\ ReadPart' /\ WritePart'
            BY <1>1, <3>1 DEF Connected, RequestPart, IdlePart, ReadPart, WritePart, connection,
                              Reading
        <3> QED BY <3>2, <3>3, <3>4 DEF Connected
    <2> QED BY <2>1, <2>2, <2>3, <2>4, <2>5, <2>6, <2>7, <2>8, <2>9, <2>10 DEF Next, Serve
<1>3. ASSUME requests_per_minute # 0 PROVE LimiterInv'
    <2>1. LimiterInv
        BY <1>3 DEF ServerInv
    <2>2. CASE Accept
        <3>1. backlog # <<>> /\ Allow(Head(backlog))
            BY <2>2 DEF Accept
        <3>2. Head(backlog) \in Peer
            BY <1>1, <3>1 DEF Connected, ServerTypes
        <3> QED BY <1>3, <2>1, <3>1, <3>2, AllowKeepsInvariant
    <2>3. CASE Tick
        BY <2>1, <2>3, AgingKeepsInvariant DEF Tick
    <2>4. CASE UNCHANGED limiter
        BY <2>1, <2>4 DEF limiter, LimiterInv, LimiterTypes, InOrder, Forgotten, Tracked, Capacity,
                          Bucket, Burst, Token
    <2> QED BY <2>2, <2>3, <2>4 DEF Next, Serve, Connect, PeerSends, PeerCloses, PeerReads, Read,
                                    AcceptFails, Return, ReadEnd, ReadTimesOut, WriteSome,
                                    WriteTimesOut, vars
<1> QED BY <1>2, <1>3 DEF ServerInv, Connected

\* Everything the proofs below rest on holds in every reachable state.
THEOREM ServerInvariant == Spec => []ServerInv
<1> QED BY InitHasInvariant, NextKeepsInvariant, PTL DEF Spec

\* However many addresses ask and in whatever order, an allowance is full
\* again, its bucket forgotten, only after as many others have been seen since
\* as the limiter tracks (limits.rs, allow_at).
THEOREM ForgottenOnlyWhenCrowdedOut == Spec => []OnlyCrowdedOutPeersAreForgotten
<1>1. ServerInv => OnlyCrowdedOutPeersAreForgotten
    BY DEF ServerInv, LimiterInv, Forgotten, OnlyCrowdedOutPeersAreForgotten
<1> QED BY <1>1, ServerInvariant, PTL

\* Whatever a peer sends and whenever it stops, what is answered decodes, is of a
\* declared length that is small enough, and came whole and in time or was ended
\* by the peer (server.rs, read_request and serve_once_with).
THEOREM AnswersAreToWhatCame == Spec => []AnsweredBodiesAreWholeOrEnded
<1>1. ServerInv => AnsweredBodiesAreWholeOrEnded
    BY DEF ServerInv
<1> QED BY <1>1, ServerInvariant, PTL

\* No peer holds the one thread longer than the deadline, one read and a write
\* timeout for every unit of the response after the first, whatever the limits
\* and buffers are (server.rs, read_request and write_response).
THEOREM BusyTimeIsAlwaysBounded == Spec => []BusyTimeIsBounded
<1>1. ASSUME ServerInv PROVE BusyTimeIsBounded
    <2>1. /\ busy \in Nat /\ blocked \in Nat /\ ServerTypes
          /\ IdlePart /\ ReadPart /\ WritePart
        BY <1>1 DEF ServerInv, ServerTypes
    <2> DEFINE most == max_response_bytes * write_timeout
    <2>2. most \in Nat
        OBVIOUS
    <2>3. BusyBound = request_deadline + read_timeout + most
        BY DEF BusyBound
    <2>4. CASE phase = "accept" \/ phase \in Ended
        <3>1. busy = 0
            BY <2>1, <2>4 DEF IdlePart
        <3> HIDE DEF most
        <3> QED BY <2>2, <2>3, <3>1 DEF BusyTimeIsBounded
    <2>5. CASE phase \in Reading
        <3>1. busy <= request_deadline + blocked /\ blocked <= read_timeout
            BY <2>1, <2>5 DEF ReadPart
        <3> HIDE DEF most
        <3> QED BY <2>1, <2>2, <2>3, <3>1 DEF BusyTimeIsBounded
    <2>6. CASE phase = "write"
        <3> DEFINE paid == (max_response_bytes - unsent) * write_timeout
        <3>1. /\ unsent \in 1 .. max_response_bytes + 1 /\ blocked <= write_timeout
              /\ \/ busy <= request_deadline + read_timeout
                 \/ /\ unsent <= max_response_bytes
                    /\ busy <= request_deadline + read_timeout + paid + blocked
            BY <2>1, <2>6 DEF WritePart
        <3>2. unsent <= max_response_bytes => paid \in Nat /\ most >= paid + write_timeout
            <4> SUFFICES ASSUME unsent <= max_response_bytes
                         PROVE  paid \in Nat /\ most >= paid + write_timeout
                OBVIOUS
            <4>1. max_response_bytes - unsent \in Nat /\ unsent - 1 \in Nat
                BY <3>1
            <4>2. max_response_bytes = (max_response_bytes - unsent) + 1 + (unsent - 1)
                BY <3>1
            <4>3. most = paid + write_timeout + (unsent - 1) * write_timeout
                <5>1. \A a, b \in Nat :
                          (a + 1 + b) * write_timeout
                              = a * write_timeout + write_timeout + b * write_timeout
                    OBVIOUS
                <5> QED BY <4>1, <4>2, <5>1, ZenonT(60)
            <4>4. paid \in Nat /\ (unsent - 1) * write_timeout \in Nat
                BY <4>1
            <4> HIDE DEF paid, most
            <4> QED BY <4>3, <4>4
        <3> HIDE DEF paid, most
        <3> QED BY <2>1, <2>2, <2>3, <3>1, <3>2 DEF BusyTimeIsBounded
    <2> QED BY <2>1, <2>4, <2>5, <2>6 DEF ServerTypes
<1> QED BY <1>1, ServerInvariant, PTL
=============================================================================
