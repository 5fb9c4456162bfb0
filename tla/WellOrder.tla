------------------------------ MODULE WellOrder ------------------------------
(***************************************************************************)
(* Least and greatest numbers, in the form the other proofs use them.      *)
(***************************************************************************)
EXTENDS Integers, WellFoundedInduction, TLAPS

\* A set of natural numbers that is not empty has a least element.
LEMMA LeastNumber ==
    ASSUME NEW T \in SUBSET Nat, T # {}
    PROVE  \E x \in T : \A y \in T : x <= y
<1>1. \E x \in T : \A y \in T : ~ (<<y, x>> \in OpToRel(<, Nat))
    BY NatLessThanWellFounded, WFMin, Zenon
<1>2. PICK x \in T : \A y \in T : ~ (<<y, x>> \in OpToRel(<, Nat))
    BY <1>1
<1>3. ASSUME NEW y \in T PROVE x <= y
    <2>1. ~ (y < x)
        BY <1>2 DEF OpToRel
    <2>2. QED
        BY <2>1
<1>4. QED
    BY <1>3

\* One with an upper bound has a greatest element.
LEMMA GreatestNumber ==
    ASSUME NEW T \in SUBSET Nat, T # {}, NEW n \in Nat, \A x \in T : x <= n
    PROVE  \E x \in T : \A y \in T : y <= x
<1> DEFINE D == {d \in Nat : n - d \in T}
<1>1. PICK t \in T : TRUE
    OBVIOUS
<1>2. n - t \in D
    BY <1>1
<1>3. PICK d \in D : \A e \in D : d <= e
    BY <1>2, LeastNumber
<1>4. ASSUME NEW y \in T PROVE y <= n - d
    <2>1. n - y \in D
        OBVIOUS
    <2>2. d <= n - y
        BY <1>3, <2>1
    <2>3. QED
        BY <2>2
<1>5. QED
    BY <1>4

\* What holds at 0 and is passed on from each number to the next holds up to n.
LEMMA UpTo ==
    ASSUME NEW T, NEW n \in Nat, 0 \in T, \A k \in 1 .. n : k - 1 \in T => k \in T
    PROVE  \A k \in 0 .. n : k \in T
<1> SUFFICES ASSUME NEW m \in 0 .. n, m \notin T PROVE FALSE
    OBVIOUS
<1> DEFINE B == {k \in Nat : k <= n /\ k \notin T}
<1>1. m \in B
    OBVIOUS
<1>2. PICK x \in B : \A y \in B : x <= y
    BY <1>1, LeastNumber
<1>3. x # 0 /\ x \in 1 .. n /\ x \notin T
    OBVIOUS
<1>4. x - 1 \in T
    <2>1. x - 1 \in Nat /\ x - 1 <= n /\ ~(x <= x - 1)
        BY <1>3
    <2>2. x - 1 \notin B
        BY <1>2, <2>1
    <2>3. QED
        BY <2>1, <2>2
<1>5. QED
    BY <1>3, <1>4
=============================================================================
