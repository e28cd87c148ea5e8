------------------------------ MODULE Numbers ------------------------------
(***************************************************************************)
(* Lemmas about numbers that the other proof modules share: least and      *)
(* greatest members of sets, for prefixes and inductions, and multiples,   *)
(* for heights that are boundaries.                                        *)
(***************************************************************************)
EXTENDS FiniteSetsExt, WellFoundedInduction, TLAPS

\* A non-empty set of naturals has a least member.
LEMMA SmallestNat ==
    ASSUME NEW S \in SUBSET Nat, S # {}
    PROVE  \E m \in S : \A k \in S : m <= k
<1>1. PICK t \in S : \A y \in S : ~(<<y, t>> \in OpToRel(<, Nat))
    BY NatLessThanWellFounded, WFMin, Zenon
<1>2. \A y \in S : t <= y
    <2> SUFFICES ASSUME NEW y \in S, y < t PROVE FALSE
        OBVIOUS
    <2>1. <<y, t>> \in OpToRel(<, Nat)
        BY DEF OpToRel
    <2> QED BY <2>1, <1>1
<1> QED BY <1>2

\* Induction up to n, for a set: what an operator's definition says of prefixes
\* of length n follows from what it says of the next longer one.
LEMMA UpTo ==
    ASSUME NEW n \in Nat, NEW Good, 0 \in Good, \A k \in 1 .. n : k - 1 \in Good => k \in Good
    PROVE  \A k \in 0 .. n : k \in Good
<1> DEFINE Bad == {k \in 0 .. n : k \notin Good}
<1> SUFFICES ASSUME Bad # {} PROVE FALSE
    OBVIOUS
<1>1. PICK m \in Bad : \A k \in Bad : m <= k
    <2> Bad \in SUBSET Nat
        OBVIOUS
    <2> HIDE DEF Bad
    <2> QED BY SmallestNat
<1>2. m \in 1 .. n /\ m - 1 \in 0 .. n /\ ~(m <= m - 1)
    BY <1>1
<1>3. m - 1 \in Good
    BY <1>1, <1>2
<1> QED BY <1>1, <1>2, <1>3

\* A non-empty set of naturals with an upper bound has a greatest member.
LEMMA BoundedMax ==
    ASSUME NEW S \in SUBSET Nat, S # {}, NEW n \in Nat, \A s \in S : s <= n
    PROVE  Max(S) \in S /\ \A s \in S : s <= Max(S)
<1> DEFINE T == {n - s : s \in S}
<1>1. T \in SUBSET Nat /\ T # {}
    <2>1. \A s \in S : n - s \in Nat
        OBVIOUS
    <2>2. PICK s \in S : TRUE
        OBVIOUS
    <2> QED BY <2>1, <2>2
<1>2. PICK t \in T : \A y \in T : t <= y
    <2> HIDE DEF T
    <2> QED BY <1>1, SmallestNat
<1>3. PICK m \in S : t = n - m
    OBVIOUS
<1>4. \A s \in S : m >= s
    <2> TAKE s \in S
    <2>1. t <= n - s
        BY <1>2
    <2> QED BY <2>1, <1>3
<1> QED BY <1>3, <1>4 DEF Max

\* What the larger and the smaller of two numbers are.
LEMMA MaxOfTwo ==
    ASSUME NEW a \in Int, NEW b \in Int
    PROVE  Max({a, b}) = IF a >= b THEN a ELSE b
<1> DEFINE m == IF a >= b THEN a ELSE b
<1>1. m \in {a, b} /\ \A y \in {a, b} : m >= y
    OBVIOUS
<1>2. Max({a, b}) \in {a, b} /\ \A y \in {a, b} : Max({a, b}) >= y
    BY <1>1 DEF Max
<1> QED BY <1>2

\* The smaller of two.
LEMMA MinOfTwo ==
    ASSUME NEW a \in Int, NEW b \in Int
    PROVE  Min({a, b}) = IF a <= b THEN a ELSE b
<1> DEFINE m == IF a <= b THEN a ELSE b
<1>1. m \in {a, b} /\ \A y \in {a, b} : m <= y
    OBVIOUS
<1>2. Min({a, b}) \in {a, b} /\ \A y \in {a, b} : Min({a, b}) <= y
    BY <1>1 DEF Min
<1> QED BY <1>2

\* A number divisible by i is a multiple of it.
LEMMA Multiples ==
    ASSUME NEW a \in Nat, NEW i \in Nat \ {0}, a % i = 0
    PROVE  \E q \in Nat : a = q * i
OBVIOUS

\* Two different multiples of i are at least i apart.
LEMMA MultiplesApart ==
    ASSUME NEW a \in Nat, NEW b \in Nat, NEW i \in Nat \ {0}, a % i = 0, b % i = 0, a < b
    PROVE  a + i <= b
<1>1. PICK p \in Nat : a = p * i
    BY Multiples
<1>2. PICK q \in Nat : b = q * i
    BY Multiples
<1>3. p < q
    <2> SUFFICES ASSUME q <= p PROVE FALSE
        OBVIOUS
    <2>1. p - q \in Nat /\ p = q + (p - q)
        OBVIOUS
    <2>2. p * i = q * i + (p - q) * i /\ (p - q) * i >= 0
        BY <2>1
    <2> QED BY <1>1, <1>2, <2>2
<1>4. q - p - 1 \in Nat /\ q = p + 1 + (q - p - 1)
    BY <1>3
<1>5. q * i = p * i + i + (q - p - 1) * i /\ (q - p - 1) * i >= 0
    BY <1>4
<1> QED BY <1>1, <1>2, <1>5

\* There is a multiple of i among any i numbers in a row.
LEMMA MultipleAmong ==
    ASSUME NEW a \in Nat, NEW i \in Nat \ {0}
    PROVE  \E m \in a + 1 .. a + i : m % i = 0
<1> DEFINE q == a \div i
           m == (q + 1) * i
<1>1. q \in Nat /\ a % i \in 0 .. i - 1
    OBVIOUS
<1>2. a % i = a - i * (a \div i)
    OBVIOUS
<1>3. q * i <= a /\ a < q * i + i
    BY <1>1, <1>2
<1>4. m % i = 0
    BY <1>1
<1> HIDE DEF q
<1>5. m = q * i + i
    BY <1>1
<1>6. m \in a + 1 .. a + i
    BY <1>1, <1>3, <1>5
<1> QED BY <1>4, <1>6

\* How often i fits below d, rounded up.
LEMMA FitsBelow ==
    ASSUME NEW i \in Nat \ {0}, NEW l \in Nat, NEW d \in Nat, l * i < d
    PROVE  l + 1 <= (d + i - 1) \div i
OBVIOUS

\* And not less than never.
LEMMA DivNat ==
    ASSUME NEW i \in Nat \ {0}, NEW d \in Nat
    PROVE  0 <= (d + i - 1) \div i
OBVIOUS

\* f is computed for each length from the one before, as the recursive functions
\* of the models are.
Computes(f, next, base, n) == f[0] = base /\ \A i \in 1 .. n : f[i] = next[i][f[i - 1]]

\* The steps stay in a set.
StaysIn(S, next, n) == \A i \in 1 .. n : \A x \in S : next[i][x] \in S

\* There is such a function for every length.
LEMMA Recursion ==
    ASSUME NEW n \in Nat, NEW S, NEW base \in S, NEW next, StaysIn(S, next, n)
    PROVE  \E f \in [0 .. n -> S] : Computes(f, next, base, n)
<1> DEFINE Good == {m \in 0 .. n : \E f \in [0 .. m -> S] : Computes(f, next, base, m)}
<1>1. 0 \in Good
    <2> DEFINE only == [i \in 0 .. 0 |-> base]
    <2>1. only \in [0 .. 0 -> S] /\ only[0] = base
        OBVIOUS
    <2> HIDE DEF only
    <2>2. Computes(only, next, base, 0) /\ 0 \in 0 .. n
        BY <2>1 DEF Computes
    <2> QED BY <2>1, <2>2
<1>2. ASSUME NEW m \in 1 .. n, m - 1 \in Good PROVE m \in Good
    <2>1. PICK f \in [0 .. m - 1 -> S] : Computes(f, next, base, m - 1)
        BY <1>2
    <2> DEFINE g == [i \in 0 .. m |-> IF i = m THEN next[m][f[m - 1]] ELSE f[i]]
    <2>2. g \in [0 .. m -> S]
        BY DEF StaysIn
    <2>3. g[m] = next[m][f[m - 1]] /\ \A i \in 0 .. m - 1 : g[i] = f[i]
        OBVIOUS
    <2> HIDE DEF g
    <2>4. \A i \in 1 .. m : g[i] = next[i][g[i - 1]]
        <3> TAKE i \in 1 .. m
        <3>1. i - 1 \in 0 .. m - 1
            OBVIOUS
        <3>2. CASE i = m
            BY <2>3, <3>1, <3>2
        <3>3. CASE i # m
            <4>1. i \in 1 .. m - 1
                BY <3>3
            <4> QED BY <2>1, <2>3, <3>1, <4>1 DEF Computes
        <3> QED BY <3>2, <3>3
    <2>5. Computes(g, next, base, m)
        BY <2>1, <2>3, <2>4 DEF Computes
    <2> QED BY <2>2, <2>5
<1>3. n \in Good
    <2> HIDE DEF Good
    <2>1. \A k \in 0 .. n : k \in Good
        BY <1>1, <1>2, UpTo
    <2> QED BY <2>1
<1> QED BY <1>3
=============================================================================
