------------------------- MODULE ChainProofsProofs -------------------------
(***************************************************************************)
(* Theorems about ChainProofs, for every tree of blocks, every set of      *)
(* chain-proofs the peers may send and every bound.                        *)
(***************************************************************************)
EXTENDS ChainProofs, SequenceTheorems, FiniteSetTheorems, WellOrder, TLAPS

-----------------------------------------------------------------------------
(* Headers and chains.                                                     *)

\* What the headers say of themselves, one block at a time.
LEMMA BlockFacts ==
    /\ Genesis \in Block /\ NoBlock \notin Block
    /\ Height[Genesis] = 0 /\ Parent[Genesis] = NoBlock
    /\ Weight[Genesis] > 0 /\ Work[Genesis] = Weight[Genesis]
    /\ \A b \in Block :
          /\ Height[b] \in Nat /\ Weight[b] \in Nat /\ Work[b] \in Nat
          /\ Parent[b] \in Block \cup {NoBlock}
          /\ b # Genesis => Parent[b] \in Block
          /\ Height[b] = 0 => b = Genesis
          /\ Parent[b] \in Block => /\ Height[b] = Height[Parent[b]] + 1
                                    /\ Work[b] = Work[Parent[b]] + Weight[b]
<1>1. /\ Genesis \in Block /\ NoBlock \notin Block
      /\ Height[Genesis] = 0 /\ Parent[Genesis] = NoBlock
      /\ Weight[Genesis] > 0 /\ Work[Genesis] = Weight[Genesis]
    BY HeadersAssumption
<1>2. ASSUME NEW b \in Block
      PROVE  Height[b] \in Nat /\ Weight[b] \in Nat /\ Work[b] \in Nat
    BY HeadersAssumption
<1>3. ASSUME NEW b \in Block
      PROVE  Parent[b] \in Block \cup {NoBlock} /\ (b # Genesis => Parent[b] \in Block)
    BY HeadersAssumption
<1>4. ASSUME NEW b \in Block \ {Genesis}
      PROVE  /\ Parent[b] \in Block
             /\ Height[b] = Height[Parent[b]] + 1
             /\ Work[b] = Work[Parent[b]] + Weight[b]
    BY HeadersAssumption
<1>5. ASSUME NEW b \in Block, Height[b] = 0
      PROVE  b = Genesis
    <2>1. SUFFICES ASSUME b # Genesis PROVE FALSE
        OBVIOUS
    <2>2. Height[b] = Height[Parent[b]] + 1 /\ Height[Parent[b]] \in Nat
        BY <1>2, <1>4, <2>1
    <2>3. QED
        BY <1>5, <2>2
<1>6. QED
    BY <1>1, <1>2, <1>3, <1>4, <1>5

\* The least place of a set of places that is not empty.
LEMMA LeastFacts ==
    ASSUME NEW S \in SUBSET Nat, S # {}
    PROVE  Least(S) \in S /\ \A j \in S : Least(S) <= j
    BY LeastNumber DEF Least

\* The greatest place, where there is a last one to choose from.
LEMMA GreatestFacts ==
    ASSUME NEW S \in SUBSET Nat, S # {}, NEW n \in Nat, \A i \in S : i <= n
    PROVE  Greatest(S) \in S /\ \A j \in S : j <= Greatest(S)
    BY GreatestNumber DEF Greatest

\* A block is a member of a path when it stands at some place of it.
LEMMA MembersFacts ==
    ASSUME NEW s \in Seq(Block)
    PROVE  /\ Members(s) \subseteq Block
           /\ \A b : b \in Members(s) <=> \E i \in 1..Len(s) : s[i] = b
    BY DEF Members

\* What a cut behind a place leaves.
LEMMA CutFacts ==
    ASSUME NEW S, NEW s \in Seq(S), NEW n \in 0..Len(s)
    PROVE  /\ SubSeq(s, 1, n) \in Seq(S)
           /\ Len(SubSeq(s, 1, n)) = n
           /\ \A i \in 1..n : SubSeq(s, 1, n)[i] = s[i]
<1>1. n \in Int /\ \A i \in 1..n : s[i] \in S
    BY LenProperties
<1>2. QED
    BY <1>1, SubSeqProperties

\* What is left of a queue that loses its first n entries.
LEMMA DropFacts ==
    ASSUME NEW S, NEW q \in Seq(S), NEW n \in 0..Len(q)
    PROVE  LET r == SubSeq(q, n + 1, Len(q))
           IN  /\ r \in Seq(S) /\ Len(r) = Len(q) - n
               /\ \A i \in 1..Len(q) - n : n + i \in 1..Len(q) /\ r[i] = q[n + i]
<1> DEFINE r == SubSeq(q, n + 1, Len(q))
<1>1. Len(q) \in Nat
    BY LenProperties
<1>2. n + 1 \in Int /\ Len(q) \in Int /\ \A i \in n + 1 .. Len(q) : q[i] \in S
    BY <1>1
<1>3. /\ r \in Seq(S)
      /\ Len(r) = IF n + 1 <= Len(q) THEN Len(q) - (n + 1) + 1 ELSE 0
      /\ \A i \in 1..Len(q) - (n + 1) + 1 : r[i] = q[(n + 1) + i - 1]
    BY <1>2, SubSeqProperties
<1> HIDE DEF r
<1>4. Len(r) = Len(q) - n
    BY <1>1, <1>3
<1>5. ASSUME NEW i \in 1..Len(q) - n PROVE n + i \in 1..Len(q) /\ r[i] = q[n + i]
    <2>1. /\ i \in 1..Len(q) - (n + 1) + 1 /\ (n + 1) + i - 1 = n + i
          /\ n + i \in 1..Len(q)
        BY <1>1
    <2>2. QED
        BY <1>3, <2>1
<1>6. QED
    BY <1>3, <1>4, <1>5 DEF r

\* A chain whose headers stand in place begins with genesis and has no block
\* twice: the height of a block tells its place.
LEMMA InPlaceFacts ==
    ASSUME NEW p \in Seq(Block), InPlace(p)
    PROVE  /\ p # <<>> => p[1] = Genesis
           /\ \A i, j \in 1..Len(p) : p[i] = p[j] => i = j
           /\ \A b \in Members(p) : Height[b] + 1 \in 1..Len(p) /\ p[Height[b] + 1] = b
<1>1. \A i \in 1..Len(p) : p[i] \in Block /\ Height[p[i]] = i - 1
    BY DEF InPlace
<1>2. p # <<>> => p[1] = Genesis
    <2>1. SUFFICES ASSUME p # <<>> PROVE p[1] = Genesis
        OBVIOUS
    <2>2. p[1] \in Block /\ Height[p[1]] = 0
        BY <1>1, <2>1, EmptySeq
    <2>3. QED
        BY <2>2, BlockFacts
<1>3. \A i, j \in 1..Len(p) : p[i] = p[j] => i = j
    BY <1>1
<1>4. ASSUME NEW b \in Members(p)
      PROVE  Height[b] + 1 \in 1..Len(p) /\ p[Height[b] + 1] = b
    <2>1. PICK i \in 1..Len(p) : p[i] = b
        BY DEF Members
    <2>2. Height[b] + 1 = i
        BY <1>1, <2>1
    <2>3. QED
        BY <2>1, <2>2
<1>5. QED
    BY <1>2, <1>3, <1>4

\* One block in place is genesis.
LEMMA GenesisAlone ==
    ASSUME NEW p \in Seq(Block), InPlace(p), Len(p) = 1
    PROVE  p = <<Genesis>>
<1>1. 1 \in 1..Len(p)
    OBVIOUS
<1>2. p[1] \in Block /\ Height[p[1]] = 0
    BY <1>1 DEF InPlace
<1>3. p[1] = Genesis
    BY <1>2, BlockFacts
<1>4. QED
    BY <1>3

\* The headers of a linked chain stand in place.
LEMMA LinkedInPlace ==
    ASSUME NEW p, Linked(p)
    PROVE  InPlace(p)
    BY DEF Linked, InPlace

\* Work does not shrink along a chain.
LEMMA WorkGrows ==
    ASSUME NEW p \in Seq(Block), NEW s \in 1..Len(p),
           \A i \in s+1..Len(p) : Parent[p[i]] = p[i-1]
    PROVE  \A i \in s..Len(p) : Work[p[s]] <= Work[p[i]]
<1> DEFINE T == {i \in s..Len(p) : ~(Work[p[s]] <= Work[p[i]])}
<1>0. \A i \in 1..Len(p) : p[i] \in Block /\ Work[p[i]] \in Nat
    BY BlockFacts
<1>1. SUFFICES ASSUME T # {} PROVE FALSE
    OBVIOUS
<1>2. T \in SUBSET Nat
    OBVIOUS
<1>3. PICK m \in T : \A j \in T : m <= j
    BY <1>1, <1>2, LeastNumber
<1>4. m # s
    BY <1>0, <1>3
<1>5. m \in s+1..Len(p) /\ m - 1 \in s..Len(p)
    BY <1>3, <1>4
<1>6. Work[p[s]] <= Work[p[m-1]]
    BY <1>3, <1>5
<1>7. /\ p[m] \in Block /\ p[m-1] \in Block /\ Parent[p[m]] = p[m-1]
      /\ Work[p[s]] \in Nat /\ Work[p[m-1]] \in Nat
    BY <1>0, <1>5
<1>8. Work[p[m]] = Work[p[m-1]] + Weight[p[m]] /\ Weight[p[m]] \in Nat
    BY <1>7, BlockFacts
<1>9. QED
    BY <1>3, <1>6, <1>7, <1>8

\* The work summed up along a chain that begins with genesis is the work its
\* headers claim.
LEMMA CumulativeIsWork ==
    ASSUME NEW p \in Seq(Block), NEW i \in 1..Len(p), p[1] = Genesis
    PROVE  Cumulative(p, i) = Work[p[i]] /\ Work[p[i]] \in Nat
<1>1. p[i] \in Block
    OBVIOUS
<1>2. QED
    BY <1>1, BlockFacts DEF Cumulative

-----------------------------------------------------------------------------
(* verifyChainProof().                                                     *)

\* A chain that begins with genesis has a key block to start from.
LEMMA KeyStartFacts ==
    ASSUME NEW p \in Seq(Block), p[1] = Genesis, NEW from \in 1..Len(p)
    PROVE  KeyStart(p, from) \in 1..from
<1> DEFINE keys == {i \in 1..from : IsKeyBlock(p[i])}
<1>1. 1 \in keys
    BY BlockFacts DEF IsKeyBlock
<1>2. keys \in SUBSET Nat /\ \A i \in keys : i <= from
    OBVIOUS
<1>3. Greatest(keys) \in keys
    <2> HIDE DEF keys
    <2>1. keys # {} /\ from \in Nat
        BY <1>1
    <2>2. QED
        BY <1>2, <2>1, GreatestFacts
<1>4. KeyStart(p, from) = Greatest(keys)
    BY <1>1 DEF KeyStart
<1>5. QED
    BY <1>3, <1>4

\* What a valid answer has established: from the key block on no block is
\* banned, every header names the one before it, and stands in place.
LEMMA ValidFacts ==
    ASSUME NEW p \in Seq(Block), p[1] = Genesis, NEW from \in 1..Len(p),
           NEW optimizing \in BOOLEAN, NEW works \in Seq(Int), NEW banned,
           VerifyChainProof(p, from, optimizing, works, banned) = "valid"
    PROVE  /\ KeyStart(p, from) \in 1..from
           /\ optimizing => from <= Len(works)
           /\ \A i \in KeyStart(p, from)..Len(p) :
                 /\ p[i] \notin banned
                 /\ i > 1 => Parent[p[i]] = p[i-1]
                 /\ Height[p[i]] = i - 1
<1> DEFINE start == KeyStart(p, from)
           flawed == {i \in start..Len(p) : Flaw(p, i, start, banned) # "none"}
<1>1. start \in 1..from
    BY KeyStartFacts
<1>2. flawed = {} /\ (optimizing => from <= Len(works))
    BY DEF VerifyChainProof
<1> HIDE DEF start
<1>3. ASSUME NEW i \in start..Len(p)
      PROVE  /\ p[i] \notin banned
             /\ i > 1 => /\ Parent[p[i]] = p[i-1]
                         /\ Height[p[i]] = (IF i = start THEN i - 1 ELSE Height[p[i-1]] + 1)
    BY <1>2 DEF Flaw
<1>4. \A i \in start..Len(p) : p[i] \in Block /\ Height[p[i]] \in Nat
    BY <1>1, BlockFacts
<1> DEFINE T == {i \in start..Len(p) : Height[p[i]] # i - 1}
<1>5. T = {}
    <2>1. SUFFICES ASSUME T # {} PROVE FALSE
        OBVIOUS
    <2>2. T \in SUBSET Nat
        BY <1>1
    <2>3. PICK m \in T : \A j \in T : m <= j
        BY <2>1, <2>2, LeastNumber
    <2>4. m # 1
        BY <2>3, BlockFacts
    <2>5. m > 1 /\ m \in start..Len(p) /\ Height[p[m]] # m - 1
        BY <1>1, <2>3, <2>4
    <2>6. m # start
        BY <1>3, <2>5
    <2>7. m - 1 \in start..Len(p) /\ Height[p[m]] = Height[p[m-1]] + 1
        BY <1>1, <1>3, <2>5, <2>6
    <2>8. Height[p[m-1]] = (m - 1) - 1
        <3>1. m - 1 \notin T
            <4>1. m \in Int /\ ~(m <= m - 1)
                BY <2>5
            <4>2. QED
                BY <2>3, <4>1
        <3>2. QED
            BY <2>7, <3>1
    <2>9. QED
        BY <1>1, <2>5, <2>7, <2>8
<1>6. QED
    BY <1>1, <1>2, <1>3, <1>5 DEF start

\* A linked chain without a banned block is valid.
LEMMA LinkedIsValid ==
    ASSUME NEW p \in Seq(Block), Linked(p), NEW from \in 1..Len(p),
           NEW banned, Members(p) \cap banned = {}
    PROVE  VerifyChainProof(p, from, FALSE, <<>>, banned) = "valid"
<1> DEFINE start == KeyStart(p, from)
           flawed == {i \in start..Len(p) : Flaw(p, i, start, banned) # "none"}
<1>1. p[1] = Genesis
    BY LinkedInPlace, InPlaceFacts, EmptySeq
<1>2. start \in 1..from
    BY <1>1, KeyStartFacts
<1> HIDE DEF start
<1>3. ASSUME NEW i \in start..Len(p)
      PROVE  Flaw(p, i, start, banned) = "none"
    <2>1. i \in 1..Len(p)
        BY <1>2
    <2>2. p[i] \notin banned
        BY <2>1 DEF Members
    <2>3. i > 1 => Parent[p[i]] = p[i-1] /\ Height[p[i]] = i - 1 /\ Height[p[i-1]] = (i - 1) - 1
        BY <2>1 DEF Linked
    <2>4. i > 1 => Height[p[i]] = (IF i = start THEN i - 1 ELSE Height[p[i-1]] + 1)
        BY <1>2, <2>3
    <2>5. QED
        BY <2>2, <2>3, <2>4 DEF Flaw
<1>4. flawed = {}
    BY <1>3
<1>5. QED
    BY <1>2, <1>4 DEF VerifyChainProof, start

-----------------------------------------------------------------------------
(* analyzeAndUpdateChainProof().                                           *)

\* The common point is a place of both chains; one that begins with genesis
\* shares it.
LEMMA CommonPointFacts ==
    ASSUME NEW proof \in Seq(Block), NEW sub \in Seq(Block), sub # <<>>, sub[1] = Genesis
    PROVE  LET c == CommonPoint(sub, proof)
           IN  /\ c.found \in BOOLEAN
               /\ c.found => /\ c.proof \in 1..Len(proof) /\ c.sub \in 1..Len(sub)
                             /\ proof[c.proof] = sub[c.sub]
               /\ ~c.found => c.proof = 1
               /\ proof # <<>> /\ proof[1] = Genesis => c.found
               /\ proof = <<>> => ~c.found
<1> DEFINE shared == {j \in DOMAIN sub : sub[j] \in Members(proof)}
           y == Greatest(shared)
           places == {i \in DOMAIN proof : proof[i] = sub[y]}
<1>1. CASE shared = {}
    <2>1. CommonPoint(sub, proof) = [found |-> FALSE, sub |-> 0, proof |-> 1]
        BY <1>1 DEF CommonPoint
    <2>2. ~(proof # <<>> /\ proof[1] = Genesis)
        <3>1. SUFFICES ASSUME proof # <<>>, proof[1] = Genesis PROVE FALSE
            OBVIOUS
        <3>2. 1 \in DOMAIN sub /\ 1 \in DOMAIN proof
            BY <3>1, EmptySeq, LenProperties
        <3>3. 1 \in shared
            BY <3>1, <3>2 DEF Members
        <3>4. QED
            BY <1>1, <3>3
    <2>3. QED
        BY <2>1, <2>2
<1>2. CASE shared # {}
    <2>1. shared \in SUBSET Nat /\ Len(sub) \in Nat /\ \A j \in shared : j <= Len(sub)
        BY LenProperties
    <2>2. y \in shared
        <3> HIDE DEF shared
        <3>1. QED
            BY <1>2, <2>1, GreatestFacts
    <2> HIDE DEF y
    <2>3. y \in 1..Len(sub) /\ \E i \in DOMAIN proof : proof[i] = sub[y]
        BY <2>2, LenProperties DEF Members
    <2>4. places \in SUBSET Nat /\ places # {}
        BY <2>3, LenProperties
    <2>5. Least(places) \in places
        <3> HIDE DEF places
        <3>1. QED
            BY <2>4, LeastFacts
    <2>6. Least(places) \in 1..Len(proof) /\ proof[Least(places)] = sub[y]
        BY <2>5, LenProperties
    <2>7. CommonPoint(sub, proof) = [found |-> TRUE, sub |-> y, proof |-> Least(places)]
        BY <1>2 DEF CommonPoint, y
    <2>8. proof # <<>>
        BY <2>6
    <2> HIDE DEF places
    <2>9. QED
        BY <2>3, <2>6, <2>7, <2>8
<1>3. QED
    BY <1>1, <1>2

\* The beginning of one chain followed by the end of another.
LEMMA SpliceFacts ==
    ASSUME NEW proof \in Seq(Block), NEW sub \in Seq(Block),
           NEW m \in 1..Len(proof), NEW n \in 1..Len(sub)
    PROVE  LET p == SubSeq(proof, 1, m) \o SubSeq(sub, n + 1, Len(sub))
           IN  /\ p \in Seq(Block) /\ Len(p) = m + (Len(sub) - n)
               /\ \A i \in 1..m + (Len(sub) - n) :
                     p[i] = IF i <= m THEN proof[i] ELSE sub[n + (i - m)]
<1> DEFINE a == SubSeq(proof, 1, m)
           z == SubSeq(sub, n + 1, Len(sub))
           p == a \o z
<1>1. Len(sub) \in Nat /\ Len(proof) \in Nat
    BY LenProperties
<1>2. a \in Seq(Block) /\ Len(a) = m /\ \A i \in 1..m : a[i] = proof[i]
    BY <1>1, CutFacts
<1>3. /\ z \in Seq(Block) /\ Len(z) = Len(sub) - n
      /\ \A i \in 1..Len(sub) - n : z[i] = sub[n + i]
    <2>1. n \in 0..Len(sub)
        OBVIOUS
    <2>2. QED
        BY <2>1, DropFacts
<1> HIDE DEF a, z
<1>4. /\ p \in Seq(Block) /\ Len(p) = m + (Len(sub) - n)
      /\ \A i \in 1..m + (Len(sub) - n) : p[i] = IF i <= m THEN a[i] ELSE z[i - m]
    <2>1. /\ p \in Seq(Block) /\ Len(p) = Len(a) + Len(z)
          /\ \A i \in 1..Len(a) + Len(z) : p[i] = IF i <= Len(a) THEN a[i] ELSE z[i - Len(a)]
        BY <1>2, <1>3, ConcatProperties
    <2>2. QED
        BY <1>2, <1>3, <2>1
<1> HIDE DEF p
<1>5. ASSUME NEW i \in 1..m + (Len(sub) - n)
      PROVE  p[i] = IF i <= m THEN proof[i] ELSE sub[n + (i - m)]
    <2>1. CASE i <= m
        BY <1>1, <1>2, <1>4, <2>1
    <2>2. CASE ~(i <= m)
        <3>1. i - m \in 1..Len(sub) - n
            BY <1>1, <2>2
        <3>2. QED
            BY <1>3, <1>4, <2>2, <3>1
    <2>3. QED
        BY <2>1, <2>2
<1>6. QED
    BY <1>4, <1>5 DEF p, a, z

\* The proposal begins like the proof it is to replace, up to the common point,
\* and ends like the one received.
LEMMA ProposalFacts ==
    ASSUME NEW proof \in Seq(Block), InPlace(proof),
           NEW sub \in Seq(Block), sub # <<>>, sub[1] = Genesis
    PROVE  LET c == CommonPoint(sub, proof)
               p == Proposal(sub, proof)
           IN  /\ p \in Seq(Block) /\ p # <<>> /\ p[1] = Genesis
               /\ p[Len(p)] = sub[Len(sub)]
               /\ c.proof \in 1..Len(p)
               /\ c.found \in BOOLEAN
               /\ c.found => c.proof <= Len(proof) /\ \A i \in 1..c.proof : p[i] = proof[i]
               /\ ~c.found => proof = <<>> /\ c.proof = 1 /\ p = sub
               /\ Members(p) \subseteq Members(proof) \cup Members(sub)
<1> DEFINE c == CommonPoint(sub, proof)
           p == Proposal(sub, proof)
<1>1. /\ c.found \in BOOLEAN
      /\ c.found => /\ c.proof \in 1..Len(proof) /\ c.sub \in 1..Len(sub)
                    /\ proof[c.proof] = sub[c.sub]
      /\ ~c.found => c.proof = 1
      /\ proof # <<>> /\ proof[1] = Genesis => c.found
      /\ proof = <<>> => ~c.found
    BY CommonPointFacts
<1>2. proof # <<>> => proof[1] = Genesis
    BY InPlaceFacts
<1>3. p = IF c.found THEN SubSeq(proof, 1, c.proof) \o SubSeq(sub, c.sub + 1, Len(sub)) ELSE sub
    BY DEF Proposal
<1> HIDE DEF c, p
<1>4. CASE ~c.found
    <2>1. proof = <<>> /\ c.proof = 1 /\ p = sub
        BY <1>1, <1>2, <1>3, <1>4
    <2>2. Len(sub) \in Nat /\ Len(sub) >= 1
        BY EmptySeq
    <2>3. c.proof \in 1..Len(p)
        BY <2>1, <2>2
    <2>4. QED
        BY <1>1, <1>4, <2>1, <2>3 DEF c, p
<1>5. CASE c.found
    <2>1. /\ c.proof \in 1..Len(proof) /\ c.sub \in 1..Len(sub)
          /\ Len(sub) \in Nat /\ Len(proof) \in Nat
        BY <1>1, <1>5, LenProperties
    <2>6. /\ p \in Seq(Block) /\ Len(p) = c.proof + (Len(sub) - c.sub)
          /\ \A i \in 1..c.proof + (Len(sub) - c.sub) :
                p[i] = IF i <= c.proof THEN proof[i] ELSE sub[c.sub + (i - c.proof)]
        <3> DEFINE q == SubSeq(proof, 1, c.proof) \o SubSeq(sub, c.sub + 1, Len(sub))
        <3>1. /\ q \in Seq(Block) /\ Len(q) = c.proof + (Len(sub) - c.sub)
              /\ \A i \in 1..c.proof + (Len(sub) - c.sub) :
                    q[i] = IF i <= c.proof THEN proof[i] ELSE sub[c.sub + (i - c.proof)]
            BY <2>1, SpliceFacts
        <3>2. p = q
            BY <1>3, <1>5
        <3> HIDE DEF q
        <3>3. QED
            BY <3>1, <3>2
    <2>7. c.proof \in 1..Len(p) /\ \A i \in 1..c.proof : p[i] = proof[i]
        BY <2>1, <2>6
    <2>8. p # <<>> /\ p[1] = Genesis
        <3>1. proof # <<>>
            BY <2>1
        <3>2. 1 \in 1..c.proof
            BY <2>1
        <3>3. QED
            BY <1>2, <2>7, <3>1, <3>2
    <2>9. p[Len(p)] = sub[Len(sub)]
        <3>1. CASE Len(sub) = c.sub
            <4>1. Len(p) = c.proof
                BY <2>1, <2>6, <3>1
            <4>2. QED
                BY <1>1, <1>5, <2>1, <2>7, <3>1, <4>1
        <3>2. CASE Len(sub) # c.sub
            <4>1. Len(p) \in 1..c.proof + (Len(sub) - c.sub) /\ ~(Len(p) <= c.proof)
                BY <2>1, <2>6, <3>2
            <4>2. c.sub + (Len(p) - c.proof) = Len(sub)
                BY <2>1, <2>6
            <4>3. QED
                BY <2>6, <4>1, <4>2
        <3>3. QED
            BY <3>1, <3>2
    <2>10. Members(p) \subseteq Members(proof) \cup Members(sub)
        <3>1. ASSUME NEW b \in Members(p) PROVE b \in Members(proof) \cup Members(sub)
            <4>1. PICK i \in 1..Len(p) : p[i] = b
                BY <2>6, MembersFacts
            <4>2. CASE i <= c.proof
                <5>1. i \in 1..Len(proof) /\ proof[i] = b
                    BY <2>1, <2>6, <4>1, <4>2
                <5>2. QED
                    BY <5>1, MembersFacts
            <4>3. CASE ~(i <= c.proof)
                <5>1. /\ c.sub + (i - c.proof) \in 1..Len(sub)
                      /\ sub[c.sub + (i - c.proof)] = b
                    BY <2>1, <2>6, <4>1, <4>3
                <5>2. QED
                    BY <5>1, MembersFacts
            <4>4. QED
                BY <4>2, <4>3
        <3>2. QED
            BY <3>1
    <2>11. QED
        BY <1>1, <1>5, <2>1, <2>6, <2>7, <2>8, <2>9, <2>10 DEF c, p
<1>6. QED
    BY <1>1, <1>4, <1>5

\* When the cut and the new part come out as long as the proposal, every place
\* holds what the proposal has there or, up to the common point, what was there.
LEMMA CutAndAppendFacts ==
    ASSUME NEW S, NEW s \in Seq(S), NEW tail \in Seq(S), NEW c \in 1..Len(tail),
           Len(CutAndAppend(s, c, tail)) = Len(tail)
    PROVE  /\ CutAndAppend(s, c, tail) \in Seq(S)
           /\ \A i \in 1..Len(tail) :
                 \/ CutAndAppend(s, c, tail)[i] = tail[i]
                 \/ i <= c /\ i <= Len(s) /\ CutAndAppend(s, c, tail)[i] = s[i]
<1> DEFINE keep == IF c > 1 THEN c ELSE 0
           cut == IF s # <<>> /\ c < Len(s) THEN SubSeq(s, 1, keep) ELSE s
           z == SubSeq(tail, keep + 1, Len(tail))
<1>1. Len(s) \in Nat /\ Len(tail) \in Nat /\ keep \in 0..c /\ c \in Nat /\ c <= Len(tail)
    BY LenProperties
<1>2. cut \in Seq(S) /\ Len(cut) \in 0..Len(s) /\ \A i \in 1..Len(cut) : cut[i] = s[i]
    <2>1. CASE s # <<>> /\ c < Len(s)
        <3>1. keep \in 0..Len(s)
            BY <1>1, <2>1
        <3> HIDE DEF keep
        <3>2. cut = SubSeq(s, 1, keep)
            BY <2>1
        <3>3. QED
            BY <3>1, <3>2, CutFacts
    <2>2. CASE ~(s # <<>> /\ c < Len(s))
        <3>1. cut = s
            BY <2>2
        <3>2. QED
            BY <1>1, <3>1
    <2>3. QED
        BY <2>1, <2>2
<1>3. /\ z \in Seq(S) /\ Len(z) = Len(tail) - keep
      /\ \A i \in 1..Len(tail) - keep : z[i] = tail[keep + i]
    <2> HIDE DEF keep
    <2>1. keep + 1 \in Int /\ Len(tail) \in Int /\ \A i \in keep + 1 .. Len(tail) : tail[i] \in S
        BY <1>1
    <2>2. /\ z \in Seq(S)
          /\ Len(z) = IF keep + 1 <= Len(tail) THEN Len(tail) - (keep + 1) + 1 ELSE 0
          /\ \A i \in 1..Len(tail) - (keep + 1) + 1 : z[i] = tail[(keep + 1) + i - 1]
        BY <2>1, SubSeqProperties
    <2> HIDE DEF z
    <2>3. Len(z) = Len(tail) - keep
        BY <1>1, <2>2
    <2>4. ASSUME NEW i \in 1..Len(tail) - keep PROVE z[i] = tail[keep + i]
        <3>1. i \in 1..Len(tail) - (keep + 1) + 1 /\ (keep + 1) + i - 1 = keep + i
            BY <1>1
        <3>2. QED
            BY <2>2, <3>1
    <2>5. QED
        BY <2>2, <2>3, <2>4
<1>4. CutAndAppend(s, c, tail) = cut \o z
    BY DEF CutAndAppend
<1> HIDE DEF keep, cut, z
<1>5. /\ CutAndAppend(s, c, tail) \in Seq(S)
      /\ Len(tail) = Len(cut) + Len(z)
      /\ \A i \in 1..Len(cut) + Len(z) :
            CutAndAppend(s, c, tail)[i] = IF i <= Len(cut) THEN cut[i] ELSE z[i - Len(cut)]
    BY <1>2, <1>3, <1>4, ConcatProperties
<1>6. Len(cut) = keep
    BY <1>1, <1>2, <1>3, <1>5
<1>7. ASSUME NEW i \in 1..Len(tail)
      PROVE  \/ CutAndAppend(s, c, tail)[i] = tail[i]
             \/ i <= c /\ i <= Len(s) /\ CutAndAppend(s, c, tail)[i] = s[i]
    <2>1. CASE i <= keep
        BY <1>1, <1>2, <1>5, <1>6, <2>1
    <2>2. CASE ~(i <= keep)
        <3>1. i - keep \in 1..Len(tail) - keep /\ keep + (i - keep) = i
            BY <1>1, <2>2
        <3>2. CutAndAppend(s, c, tail)[i] = z[i - keep]
            BY <1>1, <1>5, <1>6, <2>2
        <3>3. QED
            BY <1>3, <3>1, <3>2
    <2>3. QED
        BY <2>1, <2>2
<1>8. QED
    BY <1>5, <1>7

\* The sums of a chain that was found valid: natural numbers, and the works of
\* its headers if those they go on from are.
LEMMA SumsFacts ==
    ASSUME NEW p \in Seq(Block), p[1] = Genesis, NEW from \in 1..Len(p),
           NEW optimizing \in BOOLEAN, NEW works \in Seq(Nat), NEW banned,
           VerifyChainProof(p, from, optimizing, works, banned) = "valid"
    PROVE  LET sums == CumulativePoWs(p, from, optimizing, works)
           IN  /\ sums \in Seq(Nat) /\ Len(sums) = Len(p)
               /\ (optimizing => \A i \in 1..from : works[i] = Work[p[i]])
                     => \A i \in 1..Len(p) : sums[i] = Work[p[i]]
<1> DEFINE start == KeyStart(p, from)
           sum(i) == IF ~optimizing THEN Cumulative(p, i)
                     ELSE IF i <= start THEN works[i]
                     ELSE works[start] + Work[p[i]] - Work[p[start]]
           sums == [i \in 1..Len(p) |-> sum(i)]
<1>0. works \in Seq(Int)
    BY SeqMonotonic
<1>1. /\ start \in 1..from /\ Len(p) \in Nat /\ from <= Len(p)
      /\ optimizing => from <= Len(works)
      /\ \A i \in start..Len(p) : i > 1 => Parent[p[i]] = p[i-1]
    BY <1>0, ValidFacts, LenProperties
<1> HIDE DEF start
<1>2. \A i \in start+1..Len(p) : Parent[p[i]] = p[i-1]
    BY <1>1
<1>3. \A i \in start..Len(p) : Work[p[start]] <= Work[p[i]]
    <2>1. start \in 1..Len(p)
        BY <1>1
    <2>2. QED
        BY <1>2, <2>1, WorkGrows
<1>4. \A i \in 1..Len(p) : Cumulative(p, i) = Work[p[i]] /\ Work[p[i]] \in Nat
    BY CumulativeIsWork
<1>5. ASSUME NEW i \in 1..Len(p) PROVE sum(i) \in Nat
    <2>1. CASE ~optimizing
        BY <1>4, <2>1
    <2>2. CASE optimizing /\ i <= start
        <3>1. i \in 1..Len(works)
            BY <1>1, <2>2, LenProperties
        <3>2. QED
            BY <2>2, <3>1
    <2>3. CASE optimizing /\ ~(i <= start)
        <3>1. start \in 1..Len(works) /\ i \in start..Len(p) /\ start \in 1..Len(p)
            BY <1>1, <2>3, LenProperties
        <3>2. works[start] \in Nat /\ Work[p[i]] \in Nat /\ Work[p[start]] \in Nat
              /\ Work[p[start]] <= Work[p[i]]
            BY <1>3, <1>4, <3>1
        <3>3. QED
            BY <2>3, <3>2
    <2>4. QED
        BY <2>1, <2>2, <2>3
<1>6. sums = CumulativePoWs(p, from, optimizing, works)
    BY DEF CumulativePoWs, start
<1>7. ASSUME optimizing => \A i \in 1..from : works[i] = Work[p[i]],
             NEW i \in 1..Len(p)
      PROVE  sum(i) = Work[p[i]]
    <2>1. start \in 1..Len(p) /\ Work[p[start]] \in Nat /\ Work[p[i]] \in Nat
        BY <1>1, <1>4
    <2>2. QED
        BY <1>1, <1>4, <1>7, <2>1
<1> HIDE DEF sum
<1>8. sums \in Seq(Nat) /\ Len(sums) = Len(p)
    BY <1>1, <1>5
<1>9. (optimizing => \A i \in 1..from : works[i] = Work[p[i]])
          => \A i \in 1..Len(p) : sums[i] = Work[p[i]]
    BY <1>7
<1>10. QED
    BY <1>6, <1>8, <1>9

-----------------------------------------------------------------------------
(* What an update of the heaviest proof leaves.                            *)

HeaviestType == [proof : Seq(Block), path : Seq(Block), works : Seq(Int), work : Int]
ColdType == [verified : Seq(Block), proof : Seq(Block), path : Seq(Block)]

\* The vectors of a heaviest proof have one length, and everything stands at
\* the place of its height.
Sound(h) ==
    /\ Len(h.path) = Len(h.proof) /\ Len(h.works) = Len(h.proof)
    /\ InPlace(h.proof) /\ InPlace(h.path)
    /\ h.works \in Seq(Nat)

\* They describe one linked chain.
Coherent(h) ==
    /\ Linked(h.proof) /\ h.path = h.proof
    /\ h.works = [i \in 1..Len(h.proof) |-> Cumulative(h.proof, i)]
    /\ h.works # <<>> => Tip(h.works) <= h.work

\* The sums that verification makes of the proposal.
NewSums(old, sub) ==
    LET c == CommonPoint(sub, old.proof)
    IN  CumulativePoWs(Proposal(sub, old.proof), c.proof, c.found /\ c.proof > 1, old.works)

\* The total difficulty that a proposal has to beat.
ToBeat(sub, work) == IF work = 0 THEN Cumulative(sub, Len(sub)) ELSE work

\* The proof and the path loaded from Cold Storage again.
Reloaded(old, saved) == [old EXCEPT !.proof = saved.proof, !.path = saved.path]

\* The heaviest proof is left alone, or updated with a better valid proposal, or
\* loaded from Cold Storage again.
LEMMA AnalyzeCases ==
    ASSUME NEW old, NEW sub, NEW work, NEW banned, NEW saved
    PROVE  LET c     == CommonPoint(sub, old.proof)
               p     == Proposal(sub, old.proof)
               sums  == NewSums(old, sub)
               path  == CutAndAppend(old.path, c.proof, p)
               works == CutAndAppend(old.works, c.proof, sums)
               r     == AnalyzeAndUpdate(old, sub, work, banned, saved)
           IN  \/ r.answer \notin {"updated", "Error"} /\ r.best = old
               \/ /\ r.answer = "updated"
                  /\ r.best = [proof |-> p, path |-> path, works |-> works, work |-> sums[Len(p)]]
                  /\ VerifyChainProof(p, c.proof, c.found /\ c.proof > 1, old.works, banned) = "valid"
                  /\ Better(sums[Len(p)], Len(p), ToBeat(sub, work), Len(old.proof))
                  /\ Len(path) = Len(p) /\ Len(works) = Len(p)
               \/ /\ r.answer = "Error"
                  /\ r.best = Reloaded(old, saved)
<1> DEFINE c     == CommonPoint(sub, old.proof)
           p     == Proposal(sub, old.proof)
           sums  == NewSums(old, sub)
           path  == CutAndAppend(old.path, c.proof, p)
           works == CutAndAppend(old.works, c.proof, sums)
           check == VerifyChainProof(p, c.proof, c.found /\ c.proof > 1, old.works, banned)
           infant == work = 0 /\ VerifyChainProof(sub, 1, FALSE, <<>>, banned) # "valid"
           better == Better(sums[Len(p)], Len(p), ToBeat(sub, work), Len(old.proof))
           r     == AnalyzeAndUpdate(old, sub, work, banned, saved)
<1>1. r = IF infant THEN [answer |-> "invalid", best |-> old]
          ELSE IF check # "valid" THEN [answer |-> check, best |-> old]
          ELSE IF ~better THEN [answer |-> "totalDiffLower", best |-> old]
          ELSE IF Len(path) = Len(p) /\ Len(works) = Len(p)
          THEN [answer |-> "updated",
                best |-> [proof |-> p, path |-> path, works |-> works, work |-> sums[Len(p)]]]
          ELSE [answer |-> "Error",
                best |-> Reloaded(old, saved)]
    BY DEF AnalyzeAndUpdate, NewSums, ToBeat, Reloaded
<1>2. check \in {"valid", "invalid", "leaked"}
    BY DEF VerifyChainProof
<1> HIDE DEF c, p, sums, path, works, check, infant, better, r
<1>3. \/ r.answer \notin {"updated", "Error"} /\ r.best = old
      \/ /\ r.answer = "updated"
         /\ r.best = [proof |-> p, path |-> path, works |-> works, work |-> sums[Len(p)]]
         /\ check = "valid" /\ better
         /\ Len(path) = Len(p) /\ Len(works) = Len(p)
      \/ /\ r.answer = "Error"
         /\ r.best = Reloaded(old, saved)
    BY <1>1, <1>2
<1>4. QED
    BY <1>3 DEF c, p, sums, path, works, check, better, r

\* The three kinds of answers.
LEMMA AnalyzeAnswers ==
    ASSUME NEW old, NEW sub, NEW work, NEW banned, NEW saved
    PROVE  LET r == AnalyzeAndUpdate(old, sub, work, banned, saved)
           IN  \/ r.answer \notin {"updated", "Error"} /\ r.best = old
               \/ r.answer = "updated"
               \/ /\ r.answer = "Error"
                  /\ r.best = Reloaded(old, saved)
<1> DEFINE r     == AnalyzeAndUpdate(old, sub, work, banned, saved)
           c     == CommonPoint(sub, old.proof)
           p     == Proposal(sub, old.proof)
           check == VerifyChainProof(p, c.proof, c.found /\ c.proof > 1, old.works, banned)
<1>1. \/ \E a \in {check, "invalid", "totalDiffLower"} : r = [answer |-> a, best |-> old]
      \/ \E h : r = [answer |-> "updated", best |-> h]
      \/ r = [answer |-> "Error",
              best |-> Reloaded(old, saved)]
    BY DEF AnalyzeAndUpdate, Reloaded
<1>2. check \in {"valid", "invalid", "leaked"}
    BY DEF VerifyChainProof
<1> HIDE DEF check, r
<1>3. QED
    BY <1>1, <1>2 DEF r

\* Cut behind the common point, or at its end, a vector that is not one element
\* long comes out as long as the proposal.
LEMMA CutLength ==
    ASSUME NEW S, NEW s \in Seq(S), Len(s) # 1, NEW tail \in Seq(S), NEW c \in 1..Len(tail),
           c <= Len(s) \/ (s = <<>> /\ c = 1)
    PROVE  Len(CutAndAppend(s, c, tail)) = Len(tail)
<1> DEFINE keep == IF c > 1 THEN c ELSE 0
           cut == IF s # <<>> /\ c < Len(s) THEN SubSeq(s, 1, keep) ELSE s
           z == SubSeq(tail, keep + 1, Len(tail))
<1>1. /\ Len(s) \in Nat /\ Len(tail) \in Nat /\ c \in Nat /\ c >= 1 /\ c <= Len(tail)
      /\ keep \in 0..c
    BY LenProperties
<1>2. cut \in Seq(S) /\ Len(cut) = keep
    <2>1. CASE s = <<>>
        <3>1. Len(s) = 0
            BY <2>1
        <3>2. c = 1 /\ keep = 0 /\ cut = s
            BY <1>1, <2>1, <3>1
        <3>3. QED
            BY <3>1, <3>2
    <2>2. CASE s # <<>> /\ c < Len(s)
        <3>1. keep \in 0..Len(s)
            BY <1>1, <2>2
        <3> HIDE DEF keep
        <3>2. cut = SubSeq(s, 1, keep)
            BY <2>2
        <3>3. QED
            BY <3>1, <3>2, CutFacts
    <2>3. CASE s # <<>> /\ ~(c < Len(s))
        <3>1. cut = s
            BY <2>3
        <3>2. c <= Len(s) /\ ~(c < Len(s)) /\ c \in Nat /\ c >= 1 /\ Len(s) \in Nat
            BY <1>1, <2>3
        <3> HIDE DEF keep, cut, z
        <3>3. c = Len(s)
            BY <3>2
        <3>4. c > 1
            BY <3>2, <3>3
        <3>5. Len(s) = keep
            BY <3>3, <3>4 DEF keep
        <3>6. QED
            BY <3>1, <3>5
    <2>4. QED
        BY <2>1, <2>2, <2>3
<1>3. z \in Seq(S) /\ Len(z) = Len(tail) - keep
    <2>1. keep \in 0..Len(tail)
        BY <1>1
    <2> HIDE DEF keep
    <2>2. QED
        BY <2>1, DropFacts
<1>4. CutAndAppend(s, c, tail) = cut \o z
    BY DEF CutAndAppend
<1> HIDE DEF keep, cut, z
<1>5. Len(cut \o z) = Len(cut) + Len(z)
    BY <1>2, <1>3, ConcatProperties
<1>6. QED
    BY <1>1, <1>2, <1>3, <1>4, <1>5

\* Hence the sizes come out different only of a proof that was genesis alone.
LEMMA ErrFacts ==
    ASSUME NEW old \in HeaviestType, Sound(old),
           NEW sub \in Seq(Block), sub # <<>>, sub[1] = Genesis,
           NEW work, NEW banned, NEW saved,
           AnalyzeAndUpdate(old, sub, work, banned, saved).answer = "Error"
    PROVE  old.path = <<Genesis>>
<1> DEFINE c     == CommonPoint(sub, old.proof)
           p     == Proposal(sub, old.proof)
           opt   == c.found /\ c.proof > 1
           sums  == NewSums(old, sub)
           path  == CutAndAppend(old.path, c.proof, p)
           works == CutAndAppend(old.works, c.proof, sums)
           check == VerifyChainProof(p, c.proof, opt, old.works, banned)
           infant == work = 0 /\ VerifyChainProof(sub, 1, FALSE, <<>>, banned) # "valid"
           better == Better(sums[Len(p)], Len(p), ToBeat(sub, work), Len(old.proof))
           r     == AnalyzeAndUpdate(old, sub, work, banned, saved)
<1>1. r = IF infant THEN [answer |-> "invalid", best |-> old]
          ELSE IF check # "valid" THEN [answer |-> check, best |-> old]
          ELSE IF ~better THEN [answer |-> "totalDiffLower", best |-> old]
          ELSE IF Len(path) = Len(p) /\ Len(works) = Len(p)
          THEN [answer |-> "updated",
                best |-> [proof |-> p, path |-> path, works |-> works, work |-> sums[Len(p)]]]
          ELSE [answer |-> "Error", best |-> Reloaded(old, saved)]
    BY DEF AnalyzeAndUpdate, NewSums, ToBeat, Reloaded
<1>2. check \in {"valid", "invalid", "leaked"}
    BY DEF VerifyChainProof
<1>3. sums = CumulativePoWs(p, c.proof, opt, old.works)
    BY DEF NewSums
<1>4. /\ old.proof \in Seq(Block) /\ old.path \in Seq(Block) /\ old.works \in Seq(Nat)
      /\ InPlace(old.proof) /\ InPlace(old.path)
      /\ Len(old.path) = Len(old.proof) /\ Len(old.works) = Len(old.proof)
      /\ Len(old.proof) \in Nat
    BY LenProperties DEF HeaviestType, Sound
<1>5. /\ p \in Seq(Block) /\ p # <<>> /\ p[1] = Genesis
      /\ c.proof \in 1..Len(p) /\ c.found \in BOOLEAN
      /\ c.found => c.proof <= Len(old.proof)
      /\ ~c.found => old.proof = <<>> /\ c.proof = 1
    BY <1>4, ProposalFacts
<1> HIDE DEF c, p, sums, path, works, check, infant, better
<1>6. check = "valid" /\ ~(Len(path) = Len(p) /\ Len(works) = Len(p))
    BY <1>1, <1>2
<1> HIDE DEF r
<1>7. sums \in Seq(Nat) /\ Len(sums) = Len(p)
    <2>1. VerifyChainProof(p, c.proof, opt, old.works, banned) = "valid"
        BY <1>6 DEF check
    <2>2. opt \in BOOLEAN
        BY <1>5
    <2> HIDE DEF opt
    <2>3. QED
        BY <1>3, <1>4, <1>5, <2>1, <2>2, SumsFacts
<1>8. Len(old.path) = 1
    <2>1. SUFFICES ASSUME Len(old.path) # 1 PROVE FALSE
        OBVIOUS
    <2>2. /\ c.proof <= Len(old.path) \/ (old.path = <<>> /\ c.proof = 1)
          /\ c.proof <= Len(old.works) \/ (old.works = <<>> /\ c.proof = 1)
        <3>1. CASE c.found
            BY <1>4, <1>5, <3>1
        <3>2. CASE ~c.found
            <4>1. Len(old.path) = 0 /\ Len(old.works) = 0 /\ c.proof = 1
                BY <1>4, <1>5, <3>2
            <4>2. QED
                BY <1>4, <4>1, EmptySeq
        <3>3. QED
            BY <3>1, <3>2, <1>5
    <2>3. Len(path) = Len(p)
        BY <1>4, <1>5, <2>1, <2>2, CutLength DEF path
    <2>4. Len(works) = Len(p)
        <3>1. Len(old.works) # 1 /\ c.proof \in 1..Len(sums)
            BY <1>4, <1>5, <1>7, <2>1
        <3>2. Len(CutAndAppend(old.works, c.proof, sums)) = Len(sums)
            BY <1>4, <1>7, <2>2, <3>1, CutLength
        <3>3. QED
            BY <1>7, <3>2 DEF works
    <2>5. QED
        BY <1>6, <2>3, <2>4
<1>9. QED
    BY <1>4, <1>8, GenesisAlone

\* A linked chain that branches off a linked one makes a linked proposal: the
\* common point stands at the same place of both.
LEMMA LinkedProposal ==
    ASSUME NEW proof \in Seq(Block), Linked(proof),
           NEW sub \in Seq(Block), Linked(sub), sub # <<>>, sub[1] = Genesis
    PROVE  Linked(Proposal(sub, proof))
<1> DEFINE c == CommonPoint(sub, proof)
           p == Proposal(sub, proof)
           m == c.proof
           n == c.sub
<1>1. c.found => m \in 1..Len(proof) /\ n \in 1..Len(sub) /\ proof[m] = sub[n]
    BY CommonPointFacts
<1>2. p = IF c.found THEN SubSeq(proof, 1, m) \o SubSeq(sub, n + 1, Len(sub)) ELSE sub
    BY DEF Proposal
<1> HIDE DEF c, p, m, n
<1>3. CASE ~c.found
    BY <1>2, <1>3 DEF p
<1>4. CASE c.found
    <2>1. m \in 1..Len(proof) /\ n \in 1..Len(sub) /\ proof[m] = sub[n]
        BY <1>1, <1>4
    <2>2. m = n
        <3>1. Height[proof[m]] = m - 1 /\ Height[sub[n]] = n - 1
            BY <2>1 DEF Linked
        <3>2. m \in Int /\ n \in Int
            BY <2>1
        <3>3. QED
            BY <2>1, <3>1, <3>2
    <2>3. /\ Len(p) = m + (Len(sub) - n)
          /\ \A i \in 1..m + (Len(sub) - n) :
                p[i] = IF i <= m THEN proof[i] ELSE sub[n + (i - m)]
        BY <1>2, <1>4, <2>1, SpliceFacts
    <2>4. Len(sub) \in Nat /\ Len(proof) \in Nat
        BY LenProperties
    <2>5. Len(p) = Len(sub) /\ \A i \in 1..Len(sub) : p[i] = IF i <= m THEN proof[i] ELSE sub[i]
        BY <2>1, <2>2, <2>3, <2>4
    <2>6. ASSUME NEW i \in 1..Len(p)
          PROVE  Height[p[i]] = i - 1 /\ (i > 1 => Parent[p[i]] = p[i-1])
        <3>1. CASE i <= m
            <4>1. i \in 1..Len(proof) /\ p[i] = proof[i]
                BY <2>1, <2>4, <2>5, <3>1
            <4>2. i > 1 => p[i-1] = proof[i-1]
                <5>1. SUFFICES ASSUME i > 1 PROVE p[i-1] = proof[i-1]
                    OBVIOUS
                <5>2. i - 1 \in 1..Len(sub) /\ i - 1 <= m
                    BY <2>1, <2>4, <2>5, <3>1, <5>1
                <5>3. QED
                    BY <2>5, <5>2
            <4>3. QED
                BY <4>1, <4>2 DEF Linked
        <3>2. CASE ~(i <= m)
            <4>1. i \in 1..Len(sub) /\ p[i] = sub[i]
                BY <2>5, <3>2
            <4>2. i > 1 /\ i - 1 \in 1..Len(sub) /\ m <= i - 1
                BY <2>1, <2>4, <2>5, <3>2
            <4>3. p[i-1] = sub[i-1]
                <5>1. CASE i - 1 = m
                    BY <2>1, <2>2, <2>5, <4>2, <5>1
                <5>2. CASE i - 1 # m
                    <6>1. ~(i - 1 <= m)
                        BY <2>1, <4>2, <5>2
                    <6>2. QED
                        BY <2>5, <4>2, <6>1
                <5>3. QED
                    BY <5>1, <5>2
            <4>4. QED
                BY <4>1, <4>2, <4>3 DEF Linked
        <3>3. QED
            BY <3>1, <3>2
    <2>7. QED
        BY <2>6 DEF p, Linked
<1>5. QED
    BY <1>3, <1>4

\* Verification of a linked chain returns with the guardian released.
LEMMA LinkedReleases ==
    ASSUME NEW p \in Seq(Block), Linked(p), p[1] = Genesis, NEW from \in 1..Len(p),
           NEW optimizing, NEW works, NEW banned
    PROVE  VerifyChainProof(p, from, optimizing, works, banned) # "leaked"
<1> DEFINE start == KeyStart(p, from)
           flawed == {i \in start..Len(p) : Flaw(p, i, start, banned) # "none"}
<1>1. start \in 1..from
    BY KeyStartFacts
<1>2. ASSUME VerifyChainProof(p, from, optimizing, works, banned) = "leaked"
      PROVE  flawed # {} /\ Flaw(p, Least(flawed), start, banned) = "parent"
    BY <1>2 DEF VerifyChainProof
<1> HIDE DEF start
<1>3. ASSUME NEW i \in start..Len(p) PROVE Flaw(p, i, start, banned) # "parent"
    <2>1. i \in 1..Len(p)
        BY <1>1
    <2>2. i > 1 => Parent[p[i]] = p[i-1]
        BY <2>1 DEF Linked
    <2>3. QED
        BY <2>2 DEF Flaw
<1>4. flawed \in SUBSET Nat /\ flawed \subseteq start..Len(p)
    BY <1>1
<1> HIDE DEF flawed
<1>5. flawed # {} => Least(flawed) \in start..Len(p)
    BY <1>4, LeastFacts
<1>6. QED
    BY <1>2, <1>3, <1>5

\* So does the analysis of a linked chain against a linked heaviest proof.
LEMMA LinkedDoesNotLeak ==
    ASSUME NEW old, old.proof \in Seq(Block), Linked(old.proof),
           NEW sub \in Seq(Block), Linked(sub), sub # <<>>, sub[1] = Genesis,
           NEW work, NEW banned, NEW saved
    PROVE  AnalyzeAndUpdate(old, sub, work, banned, saved).answer # "leaked"
<1> DEFINE c     == CommonPoint(sub, old.proof)
           p     == Proposal(sub, old.proof)
           check == VerifyChainProof(p, c.proof, c.found /\ c.proof > 1, old.works, banned)
           r     == AnalyzeAndUpdate(old, sub, work, banned, saved)
<1>1. /\ p \in Seq(Block) /\ p[1] = Genesis /\ c.proof \in 1..Len(p)
    BY LinkedInPlace, ProposalFacts
<1>2. Linked(p)
    BY LinkedProposal
<1>3. \/ \E a \in {check, "invalid", "totalDiffLower"} : r = [answer |-> a, best |-> old]
      \/ \E h : r = [answer |-> "updated", best |-> h]
      \/ r = [answer |-> "Error", best |-> Reloaded(old, saved)]
    BY DEF AnalyzeAndUpdate, Reloaded
<1> HIDE DEF c, p, r
<1>4. check # "leaked"
    BY <1>1, <1>2, LinkedReleases
<1> HIDE DEF check
<1>5. r.answer # "leaked"
    BY <1>3, <1>4
<1>6. QED
    BY <1>5 DEF r

\* An update keeps the vectors in step, brings no banned block in, and ends with
\* the block the received proof ends with.  Vectors that describe one chain do so
\* afterwards.
LEMMA UpdateFacts ==
    ASSUME NEW old \in HeaviestType, Sound(old),
           NEW sub \in Seq(Block), sub # <<>>, sub[1] = Genesis,
           NEW work \in Nat, NEW banned, NEW saved,
           AnalyzeAndUpdate(old, sub, work, banned, saved).answer = "updated"
    PROVE  LET new == AnalyzeAndUpdate(old, sub, work, banned, saved).best
           IN  /\ new \in HeaviestType /\ Sound(new) /\ new.work \in Nat
               /\ new.proof # <<>> /\ new.proof[Len(new.proof)] = sub[Len(sub)]
               /\ Members(old.proof) \cap banned = {} => Members(new.proof) \cap banned = {}
               /\ Better(new.work, Len(new.proof), ToBeat(sub, work), Len(old.proof))
               /\ Coherent(old) => Coherent(new) /\ new.work = Work[sub[Len(sub)]]
<1> DEFINE c     == CommonPoint(sub, old.proof)
           p     == Proposal(sub, old.proof)
           opt   == c.found /\ c.proof > 1
           start == KeyStart(p, c.proof)
           sums  == NewSums(old, sub)
           path  == CutAndAppend(old.path, c.proof, p)
           works == CutAndAppend(old.works, c.proof, sums)
           new   == AnalyzeAndUpdate(old, sub, work, banned, saved).best
<1>1. /\ new = [proof |-> p, path |-> path, works |-> works, work |-> sums[Len(p)]]
      /\ VerifyChainProof(p, c.proof, opt, old.works, banned) = "valid"
      /\ Better(sums[Len(p)], Len(p), ToBeat(sub, work), Len(old.proof))
      /\ Len(path) = Len(p) /\ Len(works) = Len(p)
    BY AnalyzeCases
<1>2. /\ old.proof \in Seq(Block) /\ old.path \in Seq(Block) /\ old.works \in Seq(Nat)
      /\ old.works \in Seq(Int)
      /\ InPlace(old.proof) /\ InPlace(old.path)
      /\ Len(old.path) = Len(old.proof) /\ Len(old.works) = Len(old.proof)
    BY DEF HeaviestType, Sound
<1>3. /\ p \in Seq(Block) /\ p # <<>> /\ p[1] = Genesis
      /\ p[Len(p)] = sub[Len(sub)]
      /\ c.proof \in 1..Len(p)
      /\ c.found \in BOOLEAN
      /\ c.found => c.proof <= Len(old.proof) /\ \A i \in 1..c.proof : p[i] = old.proof[i]
      /\ ~c.found => old.proof = <<>> /\ c.proof = 1 /\ p = sub
    BY <1>2, ProposalFacts
<1>4. sums = CumulativePoWs(p, c.proof, opt, old.works)
    BY DEF NewSums
<1> HIDE DEF c, p, sums, path, works, new
<1>5. opt \in BOOLEAN
    BY <1>3
<1>6. /\ start \in 1..c.proof
      /\ opt => c.proof <= Len(old.works)
      /\ \A i \in start..Len(p) :
            p[i] \notin banned /\ (i > 1 => Parent[p[i]] = p[i-1]) /\ Height[p[i]] = i - 1
    <2> HIDE DEF opt
    <2>1. ASSUME NEW from \in 1..Len(p), NEW o \in BOOLEAN, NEW w \in Seq(Int),
                 VerifyChainProof(p, from, o, w, banned) = "valid"
          PROVE  /\ KeyStart(p, from) \in 1..from
                 /\ o => from <= Len(w)
                 /\ \A i \in KeyStart(p, from)..Len(p) :
                       p[i] \notin banned /\ (i > 1 => Parent[p[i]] = p[i-1]) /\ Height[p[i]] = i - 1
        BY <1>3, <2>1, ValidFacts
    <2>2. c.proof \in 1..Len(p) /\ old.works \in Seq(Int)
        BY <1>2, <1>3
    <2>3. VerifyChainProof(p, c.proof, opt, old.works, banned) = "valid"
        BY <1>1
    <2>4. QED
        BY <1>5, <2>1, <2>2, <2>3
<1>7. /\ sums \in Seq(Nat) /\ Len(sums) = Len(p)
      /\ (opt => \A i \in 1..c.proof : old.works[i] = Work[p[i]])
             => \A i \in 1..Len(p) : sums[i] = Work[p[i]]
    <2> HIDE DEF opt
    <2>1. ASSUME NEW from \in 1..Len(p), NEW o \in BOOLEAN, NEW w \in Seq(Nat),
                 VerifyChainProof(p, from, o, w, banned) = "valid"
          PROVE  /\ CumulativePoWs(p, from, o, w) \in Seq(Nat)
                 /\ Len(CumulativePoWs(p, from, o, w)) = Len(p)
                 /\ (o => \A i \in 1..from : w[i] = Work[p[i]])
                       => \A i \in 1..Len(p) : CumulativePoWs(p, from, o, w)[i] = Work[p[i]]
        BY <1>3, <2>1, SumsFacts
    <2>2. c.proof \in 1..Len(p) /\ old.works \in Seq(Nat)
        BY <1>2, <1>3
    <2>3. VerifyChainProof(p, c.proof, opt, old.works, banned) = "valid"
        BY <1>1
    <2>4. QED
        BY <1>4, <1>5, <2>1, <2>2, <2>3
<1> HIDE DEF start, opt
<1>8. Len(p) \in Nat /\ Len(p) \in 1..Len(p) /\ Len(old.proof) \in Nat /\ c.proof \in Nat
    BY <1>2, <1>3, EmptySeq, LenProperties
\* Before the place verification starts at, the proposal is the old proof.
<1>9. ASSUME NEW i \in 1..Len(p), ~(i \in start..Len(p))
      PROVE  i <= c.proof /\ i \in 1..Len(old.proof) /\ p[i] = old.proof[i]
    <2>1. i < start /\ i \in 1..c.proof /\ c.proof # 1
        BY <1>6, <1>8, <1>9
    <2>2. c.found
        BY <1>3, <2>1
    <2>3. QED
        BY <1>3, <1>8, <2>1, <2>2
<1>10. InPlace(p)
    <2>1. ASSUME NEW i \in 1..Len(p) PROVE Height[p[i]] = i - 1
        <3>1. CASE i \in start..Len(p)
            BY <1>6, <3>1
        <3>2. CASE ~(i \in start..Len(p))
            BY <1>2, <1>9, <3>2 DEF InPlace
        <3>3. QED
            BY <3>1, <3>2
    <2>2. QED
        BY <2>1 DEF InPlace
<1>11. ASSUME Members(old.proof) \cap banned = {}
       PROVE  Members(p) \cap banned = {}
    <2>1. ASSUME NEW i \in 1..Len(p) PROVE p[i] \notin banned
        <3>1. CASE i \in start..Len(p)
            BY <1>6, <3>1
        <3>2. CASE ~(i \in start..Len(p))
            <4>1. p[i] \in Members(old.proof)
                BY <1>2, <1>9, <3>2, MembersFacts
            <4>2. QED
                BY <1>11, <4>1
        <3>3. QED
            BY <3>1, <3>2
    <2>2. QED
        BY <1>3, <2>1, MembersFacts
<1>12. /\ path \in Seq(Block)
       /\ \A i \in 1..Len(p) :
             \/ path[i] = p[i]
             \/ i <= c.proof /\ i <= Len(old.path) /\ path[i] = old.path[i]
    <2>1. /\ old.path \in Seq(Block) /\ p \in Seq(Block) /\ c.proof \in 1..Len(p)
          /\ Len(path) = Len(p)
        BY <1>1, <1>2, <1>3
    <2>2. /\ CutAndAppend(old.path, c.proof, p) \in Seq(Block)
          /\ \A i \in 1..Len(p) :
                \/ CutAndAppend(old.path, c.proof, p)[i] = p[i]
                \/ /\ i <= c.proof /\ i <= Len(old.path)
                   /\ CutAndAppend(old.path, c.proof, p)[i] = old.path[i]
        <3>1. Len(CutAndAppend(old.path, c.proof, p)) = Len(p)
            BY <2>1 DEF path
        <3> HIDE DEF p, c
        <3>2. QED
            BY <2>1, <3>1, CutAndAppendFacts
    <2>3. QED
        BY <2>2 DEF path
<1>13. /\ works \in Seq(Nat)
       /\ \A i \in 1..Len(p) :
             \/ works[i] = sums[i]
             \/ i <= c.proof /\ i <= Len(old.works) /\ works[i] = old.works[i]
    <2>1. c.proof \in 1..Len(sums) /\ Len(CutAndAppend(old.works, c.proof, sums)) = Len(sums)
        BY <1>1, <1>3, <1>7 DEF works
    <2>2. /\ CutAndAppend(old.works, c.proof, sums) \in Seq(Nat)
          /\ \A i \in 1..Len(sums) :
                \/ CutAndAppend(old.works, c.proof, sums)[i] = sums[i]
                \/ /\ i <= c.proof /\ i <= Len(old.works)
                   /\ CutAndAppend(old.works, c.proof, sums)[i] = old.works[i]
        <3>1. ASSUME NEW n \in 1..Len(sums), NEW w \in Seq(Nat),
                     Len(CutAndAppend(w, n, sums)) = Len(sums)
              PROVE  /\ CutAndAppend(w, n, sums) \in Seq(Nat)
                     /\ \A i \in 1..Len(sums) :
                           \/ CutAndAppend(w, n, sums)[i] = sums[i]
                           \/ i <= n /\ i <= Len(w) /\ CutAndAppend(w, n, sums)[i] = w[i]
            BY <1>7, <3>1, CutAndAppendFacts
        <3>2. old.works \in Seq(Nat)
            BY <1>2
        <3>3. QED
            BY <2>1, <3>1, <3>2
    <2>3. QED
        BY <1>7, <2>2 DEF works
<1>14. InPlace(path)
    <2>1. ASSUME NEW i \in 1..Len(path) PROVE Height[path[i]] = i - 1
        <3>1. i \in 1..Len(p)
            BY <1>1
        <3>2. CASE path[i] = p[i]
            BY <1>10, <3>1, <3>2 DEF InPlace
        <3>3. CASE i <= Len(old.path) /\ path[i] = old.path[i]
            <4>1. i \in 1..Len(old.path)
                BY <1>2, <1>8, <3>1, <3>3
            <4>2. QED
                BY <1>2, <3>3, <4>1 DEF InPlace
        <3>4. QED
            BY <1>12, <3>1, <3>2, <3>3
    <2>2. QED
        BY <2>1 DEF InPlace
<1>15. sums[Len(p)] \in Nat /\ works \in Seq(Int)
    <2>1. works \in Seq(Nat)
        BY <1>13
    <2> HIDE DEF works
    <2>2. works \in Seq(Int)
        BY <2>1, SeqMonotonic
    <2>3. sums \in Seq(Nat) /\ Len(p) \in 1..Len(sums)
        BY <1>7, <1>8
    <2> HIDE DEF sums
    <2>4. sums[Len(p)] \in Nat
        BY <2>3
    <2>5. QED
        BY <2>2, <2>4
<1>16. new \in HeaviestType /\ Sound(new) /\ new.work \in Nat
    <2>1. new \in HeaviestType
        BY <1>1, <1>3, <1>12, <1>15 DEF HeaviestType
    <2>2. Sound(new)
        BY <1>1, <1>10, <1>13, <1>14 DEF Sound
    <2>3. QED
        BY <1>1, <1>15, <2>1, <2>2
<1>17. ASSUME Coherent(old)
       PROVE  Coherent(new) /\ new.work = Work[sub[Len(sub)]]
    <2>1. /\ Linked(old.proof) /\ old.path = old.proof
          /\ old.works = [i \in 1..Len(old.proof) |-> Cumulative(old.proof, i)]
        BY <1>17 DEF Coherent
    <2>2. \A i \in 1..Len(old.proof) : old.works[i] = Work[old.proof[i]]
        <3>1. ASSUME NEW i \in 1..Len(old.proof) PROVE old.works[i] = Work[old.proof[i]]
            <4>1. old.proof # <<>>
                OBVIOUS
            <4>2. old.proof[1] = Genesis
                BY <1>2, <4>1, InPlaceFacts
            <4>3. QED
                BY <1>2, <2>1, <4>2, CumulativeIsWork
        <3>2. QED
            BY <3>1
    \* Up to the common point both chains have the same blocks.
    <2>3. ASSUME NEW i \in 1..Len(p), i <= c.proof, i <= Len(old.proof)
          PROVE  p[i] = old.proof[i]
        <3>1. old.proof # <<>>
            BY <1>8, <2>3
        <3>2. c.found
            BY <1>3, <3>1
        <3>3. QED
            BY <1>3, <1>8, <2>3, <3>2
    <2>4. opt => \A i \in 1..c.proof : old.works[i] = Work[p[i]]
        <3>1. ASSUME opt, NEW i \in 1..c.proof PROVE old.works[i] = Work[p[i]]
            <4>1. i \in 1..Len(p) /\ i <= c.proof /\ i \in 1..Len(old.proof)
                BY <1>2, <1>3, <1>6, <1>8, <3>1
            <4>2. QED
                BY <2>2, <2>3, <4>1
        <3>2. QED
            BY <3>1
    <2>5. \A i \in 1..Len(p) : sums[i] = Work[p[i]]
        BY <1>7, <2>4
    <2>6. Linked(p)
        <3>1. ASSUME NEW i \in 1..Len(p) PROVE i > 1 => Parent[p[i]] = p[i-1]
            <4>1. CASE i \in start..Len(p)
                BY <1>6, <4>1
            <4>2. CASE ~(i \in start..Len(p))
                <5>1. SUFFICES ASSUME i > 1 PROVE Parent[p[i]] = p[i-1]
                    OBVIOUS
                <5>2. i - 1 \in 1..Len(p) /\ ~(i - 1 \in start..Len(p))
                    BY <1>6, <1>8, <4>2, <5>1
                <5>3. p[i] = old.proof[i] /\ p[i-1] = old.proof[i-1] /\ i \in 1..Len(old.proof)
                    BY <1>9, <4>2, <5>2
                <5>4. QED
                    BY <2>1, <5>1, <5>3 DEF Linked
            <4>3. QED
                BY <4>1, <4>2
        <3>2. QED
            BY <1>10, <3>1 DEF Linked, InPlace
    <2>7. path = p
        <3>1. ASSUME NEW i \in 1..Len(p) PROVE path[i] = p[i]
            <4>1. CASE i <= c.proof /\ i <= Len(old.path) /\ path[i] = old.path[i]
                BY <1>2, <2>1, <2>3, <4>1
            <4>2. QED
                BY <1>12, <4>1
        <3>2. QED
            BY <1>1, <1>3, <1>12, <3>1, SeqEqual
    <2>8. \A i \in 1..Len(p) : works[i] = Work[p[i]]
        <3>1. ASSUME NEW i \in 1..Len(p) PROVE works[i] = Work[p[i]]
            <4>1. CASE works[i] = sums[i]
                BY <2>5, <4>1
            <4>2. CASE i <= c.proof /\ i <= Len(old.works) /\ works[i] = old.works[i]
                <5>1. i \in 1..Len(old.proof) /\ p[i] = old.proof[i]
                    BY <1>2, <1>8, <2>3, <4>2
                <5>2. QED
                    BY <2>2, <4>2, <5>1
            <4>3. QED
                BY <1>13, <4>1, <4>2
        <3>2. QED
            BY <3>1
    <2>9. works = [i \in 1..Len(p) |-> Cumulative(p, i)]
        <3>1. \A i \in 1..Len(p) : Cumulative(p, i) = Work[p[i]]
            BY <1>3, CumulativeIsWork
        <3>2. works = [i \in 1..Len(p) |-> works[i]]
            BY <1>1, <1>13
        <3>3. QED
            BY <2>8, <3>1, <3>2
    <2>10. Tip(works) = sums[Len(p)]
        <3>1. works # <<>>
            BY <1>1, <1>8, <1>13
        <3>2. QED
            BY <1>1, <1>8, <2>5, <2>8, <3>1 DEF Tip
    <2>11. Tip(works) <= sums[Len(p)]
        BY <1>15, <2>10
    <2>12. sums[Len(p)] = Work[sub[Len(sub)]]
        BY <1>3, <1>8, <2>5
    <2>13. QED
        BY <1>1, <2>6, <2>7, <2>9, <2>11, <2>12 DEF Coherent
<1>18. QED
    BY <1>1, <1>3, <1>11, <1>16, <1>17 DEF new

-----------------------------------------------------------------------------
(* Leaders and refused blocks.                                             *)

\* The last block of a chain whose headers stand in place has the height that
\* says how long the chain is.
LEMMA TipFacts ==
    ASSUME NEW p \in Seq(Block)
    PROVE  /\ Tip(p) \in Block \cup {NoBlock}
           /\ Tip(p) = NoBlock <=> p = <<>>
           /\ p # <<>> => /\ Len(p) \in 1..Len(p) /\ Tip(p) = p[Len(p)]
                          /\ Tip(p) \in Block /\ Tip(p) \in Members(p)
           /\ p # <<>> /\ InPlace(p) => Height[Tip(p)] = Len(p) - 1
<1>1. CASE p = <<>>
    BY <1>1, BlockFacts DEF Tip
<1>2. CASE p # <<>>
    <2>1. Len(p) \in 1..Len(p)
        BY <1>2, EmptySeq, LenProperties
    <2>2. Tip(p) = p[Len(p)] /\ p[Len(p)] \in Block
        BY <1>2, <2>1 DEF Tip
    <2>3. Tip(p) \in Members(p)
        BY <2>1, <2>2, MembersFacts
    <2>4. InPlace(p) => Height[Tip(p)] = Len(p) - 1
        BY <2>1, <2>2 DEF InPlace
    <2>5. QED
        BY <1>2, <2>1, <2>2, <2>3, <2>4, BlockFacts
<1>3. QED
    BY <1>1, <1>2

\* A chain that is continued: the places it had, and one more.
LEMMA AppendFacts ==
    ASSUME NEW S, NEW s \in Seq(S), NEW x \in S
    PROVE  /\ Append(s, x) \in Seq(S) /\ Append(s, x) # <<>>
           /\ Len(Append(s, x)) = Len(s) + 1
           /\ \A i \in 1..Len(s) : Append(s, x)[i] = s[i]
           /\ Append(s, x)[Len(s) + 1] = x
    BY AppendProperties

\* A block that continues the last one stands in place behind it.
LEMMA ContinuedInPlace ==
    ASSUME NEW p \in Seq(Block), InPlace(p), NEW b \in Block, Height[b] = Len(p)
    PROVE  InPlace(Append(p, b))
<1>1. /\ Len(p) \in Nat /\ Len(Append(p, b)) = Len(p) + 1
      /\ \A i \in 1..Len(p) : Append(p, b)[i] = p[i]
      /\ Append(p, b)[Len(p) + 1] = b
    BY AppendFacts, LenProperties
<1>2. ASSUME NEW i \in 1..Len(p) + 1 PROVE Height[Append(p, b)[i]] = i - 1
    <2>1. CASE i \in 1..Len(p)
        BY <1>1, <2>1 DEF InPlace
    <2>2. CASE i = Len(p) + 1
        BY <1>1, <2>2
    <2>3. QED
        BY <1>1, <2>1, <2>2
<1>3. QED
    BY <1>1, <1>2 DEF InPlace

\* A child of the last block of a linked chain continues it.
LEMMA ContinuedLinked ==
    ASSUME NEW p \in Seq(Block), Linked(p), p # <<>>, NEW b \in Block, Parent[b] = Tip(p)
    PROVE  Linked(Append(p, b)) /\ Height[b] = Len(p)
<1> DEFINE q == Append(p, b)
<1>1. /\ Len(p) \in 1..Len(p) /\ Len(q) = Len(p) + 1
      /\ \A i \in 1..Len(p) : q[i] = p[i]
      /\ q[Len(p) + 1] = b
    BY AppendFacts, TipFacts
<1>2. Tip(p) = p[Len(p)] /\ Tip(p) \in Block /\ Height[Tip(p)] = Len(p) - 1
    BY TipFacts, LinkedInPlace
<1>3. Height[b] = Len(p)
    BY <1>1, <1>2, BlockFacts
<1>4. InPlace(q)
    BY <1>3, LinkedInPlace, ContinuedInPlace
<1> HIDE DEF q
<1>5. ASSUME NEW i \in 1..Len(p) + 1, i > 1 PROVE Parent[q[i]] = q[i-1]
    <2>1. CASE i \in 1..Len(p)
        <3>1. i - 1 \in 1..Len(p) /\ Parent[p[i]] = p[i-1]
            BY <1>5, <2>1 DEF Linked
        <3>2. QED
            BY <1>1, <2>1, <3>1
    <2>2. CASE i = Len(p) + 1
        <3>1. i - 1 = Len(p) /\ i - 1 \in 1..Len(p)
            BY <1>1, <2>2
        <3>2. q[i] = b
            BY <1>1, <2>2
        <3>3. q[i-1] = Tip(p)
            BY <1>1, <1>2, <3>1
        <3>4. QED
            BY <3>2, <3>3
    <2>3. QED
        BY <1>1, <2>1, <2>2
<1>6. Linked(q)
    BY <1>1, <1>4, <1>5 DEF Linked, InPlace
<1>7. QED
    BY <1>3, <1>6 DEF q

\* The beginning of a chain whose headers stand in place is one; so is that of
\* a linked chain.
LEMMA CutChain ==
    ASSUME NEW p \in Seq(Block), NEW n \in 0..Len(p)
    PROVE  /\ InPlace(p) => InPlace(SubSeq(p, 1, n))
           /\ Linked(p) => Linked(SubSeq(p, 1, n))
           /\ Members(SubSeq(p, 1, n)) \subseteq Members(p)
           /\ InPlace(p) => \A b \in Members(SubSeq(p, 1, n)) : Height[b] < n
<1> DEFINE q == SubSeq(p, 1, n)
<1>1. q \in Seq(Block) /\ Len(q) = n /\ Len(p) \in Nat /\ \A i \in 1..n : q[i] = p[i]
    BY CutFacts, LenProperties
<1> HIDE DEF q
<1>2. InPlace(p) => InPlace(q)
    BY <1>1 DEF InPlace
<1>3. Linked(p) => Linked(q)
    <2>1. ASSUME Linked(p), NEW i \in 1..n
          PROVE  Height[q[i]] = i - 1 /\ (i > 1 => Parent[q[i]] = q[i-1])
        <3>1. i \in 1..Len(p) /\ (i > 1 => i - 1 \in 1..n)
            OBVIOUS
        <3>2. QED
            BY <1>1, <2>1, <3>1 DEF Linked
    <2>2. QED
        BY <1>1, <2>1 DEF Linked
<1>4. ASSUME NEW b \in Members(q) PROVE b \in Members(p) /\ (InPlace(p) => Height[b] < n)
    <2>1. PICK i \in 1..n : q[i] = b
        BY <1>1, MembersFacts
    <2>2. i \in 1..Len(p) /\ p[i] = b
        BY <1>1, <2>1
    <2>3. QED
        BY <2>2, MembersFacts DEF InPlace
<1>5. QED
    BY <1>2, <1>3, <1>4 DEF q

\* setLeader() extends the heaviest proof by the new leader, in step, and only
\* with a block that brings more work or more length.
LEMMA ExtendFacts ==
    ASSUME best \in HeaviestType, Sound(best), best.work \in Nat, NEW b \in Block
    PROVE  LET h == ExtendHeaviest(b)
           IN  /\ h \in HeaviestType /\ Sound(h) /\ h.work \in Nat
               /\ Coherent(best) => Coherent(h)
               /\ Members(h.proof) \subseteq Members(best.proof) \cup {b}
               /\ h = best \/ (h.proof = Append(best.proof, b) /\ best.proof # <<>>)
<1>1. CASE ~(b # Genesis /\ best.path # <<>> /\ Tip(best.path) = Parent[b])
    <2>1. ExtendHeaviest(b) = best
        BY <1>1 DEF ExtendHeaviest
    <2>2. QED
        BY <2>1
<1>2. CASE b # Genesis /\ best.path # <<>> /\ Tip(best.path) = Parent[b]
    <2> DEFINE w == Tip(best.works) + Weight[b]
               proof == Append(best.proof, b)
               path == Append(best.path, b)
               works == Append(best.works, w)
               h == ExtendHeaviest(b)
    <2>1. h = [proof |-> proof, path |-> path, works |-> works, work |-> w]
        BY <1>2 DEF ExtendHeaviest
    <2>2. /\ best.proof \in Seq(Block) /\ best.path \in Seq(Block) /\ best.works \in Seq(Nat)
          /\ Len(best.path) = Len(best.proof) /\ Len(best.works) = Len(best.proof)
          /\ InPlace(best.proof) /\ InPlace(best.path)
        BY DEF HeaviestType, Sound
    <2>3. /\ Len(best.path) \in 1..Len(best.path) /\ Tip(best.path) \in Block
          /\ Height[Tip(best.path)] = Len(best.path) - 1
        BY <1>2, <2>2, TipFacts
    <2>4. Height[b] = Len(best.path) /\ Parent[b] \in Block /\ Weight[b] \in Nat
          /\ Work[b] = Work[Parent[b]] + Weight[b]
        BY <1>2, <2>3, BlockFacts
    <2>5. best.works # <<>> /\ best.proof # <<>> /\ Tip(best.works) = best.works[Len(best.works)]
        BY <2>2, <2>3 DEF Tip
    <2>6. Tip(best.works) \in Nat /\ w \in Nat
        <3>1. Len(best.works) \in 1..Len(best.works)
            BY <2>2, <2>3
        <3>2. Tip(best.works) \in Nat
            BY <2>2, <2>5, <3>1
        <3>3. QED
            BY <2>4, <3>2
    <2> HIDE DEF w
    <2>7. /\ works \in Seq(Nat) /\ Len(works) = Len(best.works) + 1 /\ works # <<>>
          /\ \A i \in 1..Len(best.works) : works[i] = best.works[i]
          /\ works[Len(best.works) + 1] = w
        <3>1. ASSUME NEW s \in Seq(Nat)
              PROVE  /\ Append(s, w) \in Seq(Nat) /\ Len(Append(s, w)) = Len(s) + 1
                     /\ Append(s, w) # <<>>
                     /\ \A i \in 1..Len(s) : Append(s, w)[i] = s[i]
                     /\ Append(s, w)[Len(s) + 1] = w
            BY <2>6, AppendFacts
        <3>2. QED
            BY <2>2, <3>1
    <2>8. /\ proof \in Seq(Block) /\ Len(proof) = Len(best.proof) + 1 /\ proof # <<>>
          /\ \A i \in 1..Len(best.proof) : proof[i] = best.proof[i]
          /\ proof[Len(best.proof) + 1] = b
          /\ path \in Seq(Block) /\ Len(path) = Len(best.path) + 1
        BY <2>2, AppendFacts
    <2>9. InPlace(proof) /\ InPlace(path)
        BY <2>2, <2>4, ContinuedInPlace
    <2>10. Members(proof) \subseteq Members(best.proof) \cup {b}
        <3>1. ASSUME NEW x \in Members(proof) PROVE x \in Members(best.proof) \cup {b}
            <4>1. PICK i \in 1..Len(proof) : proof[i] = x
                BY <2>8, MembersFacts
            <4>2. CASE i \in 1..Len(best.proof)
                BY <2>2, <2>8, <4>1, <4>2, MembersFacts
            <4>3. CASE i = Len(best.proof) + 1
                BY <2>8, <4>1, <4>3
            <4>4. QED
                BY <2>2, <2>3, <2>8, <4>2, <4>3
        <3>2. QED
            BY <3>1
    <2>11. ASSUME Coherent(best) PROVE Coherent(h)
        <3>1. /\ Linked(best.proof) /\ best.path = best.proof
              /\ best.works = [i \in 1..Len(best.proof) |-> Cumulative(best.proof, i)]
            BY <2>11 DEF Coherent
        <3>2. best.proof # <<>> /\ Parent[b] = Tip(best.proof)
            BY <1>2, <2>5, <3>1
        <3>3. Linked(proof)
            BY <2>2, <3>1, <3>2, ContinuedLinked
        <3>4. best.proof[1] = Genesis /\ 1 \in 1..Len(best.proof)
            BY <2>2, <2>3, <3>2, InPlaceFacts
        <3>5. proof[1] = Genesis
            BY <2>8, <3>4
        <3>6. \A i \in 1..Len(best.proof) : best.works[i] = Work[best.proof[i]]
            BY <2>2, <3>1, <3>4, CumulativeIsWork
        <3>7. w = Work[b]
            <4>1. Len(best.proof) \in 1..Len(best.proof)
                BY <2>2, <2>3
            <4>2. Tip(best.works) = Work[best.proof[Len(best.proof)]]
                BY <2>2, <2>5, <3>6, <4>1
            <4>3. Parent[b] = best.proof[Len(best.proof)]
                BY <3>2 DEF Tip
            <4>4. QED
                BY <2>4, <4>2, <4>3 DEF w
        <3>8. ASSUME NEW i \in 1..Len(proof) PROVE works[i] = Cumulative(proof, i)
            <4>1. Cumulative(proof, i) = Work[proof[i]]
                BY <2>8, <3>5, CumulativeIsWork
            <4>2. CASE i \in 1..Len(best.proof)
                BY <2>2, <2>7, <2>8, <3>6, <4>1, <4>2
            <4>3. CASE i = Len(best.proof) + 1
                BY <2>2, <2>7, <2>8, <3>7, <4>1, <4>3
            <4>4. QED
                BY <2>2, <2>3, <2>8, <4>2, <4>3
        <3>9. works = [i \in 1..Len(proof) |-> Cumulative(proof, i)]
            <4> HIDE DEF works, proof
            <4>1. works = [i \in 1..Len(proof) |-> works[i]]
                BY <2>2, <2>7, <2>8
            <4>2. QED
                BY <3>8, <4>1
        <3>10. Tip(works) = w
            BY <2>2, <2>7 DEF Tip
        <3>11. path = proof /\ Tip(works) <= w
            BY <2>6, <3>1, <3>10
        <3> HIDE DEF works, proof, path, h
        <3>12. QED
            BY <2>1, <3>3, <3>9, <3>11 DEF Coherent
    <2>12. works \in Seq(Int) /\ w \in Int
        BY <2>6, <2>7, SeqMonotonic
    <2> HIDE DEF works, path, h
    <2>13. h \in HeaviestType /\ Sound(h) /\ h.work \in Nat
        BY <2>1, <2>2, <2>6, <2>7, <2>8, <2>9, <2>12 DEF HeaviestType, Sound
    <2>14. QED
        BY <2>1, <2>5, <2>10, <2>11, <2>13 DEF h
<1>3. QED
    BY <1>1, <1>2

\* immuniseAgainstBlock() cuts the block out, and leaves the rest in step.
LEMMA ImmunisedFacts ==
    ASSUME best \in HeaviestType, Sound(best), best.work \in Nat,
           NEW b \in Block, b \in Members(best.path)
    PROVE  LET h == Immunised(b)
           IN  /\ h \in HeaviestType /\ Sound(h) /\ h.work \in Nat
               /\ Coherent(best) => Coherent(h)
               /\ Members(h.proof) \subseteq Members(best.proof) \ {b}
               /\ Len(h.proof) < Len(best.proof)
               /\ h.proof = SubSeq(best.proof, 1, Len(h.proof))
               /\ best.path[Len(h.proof) + 1] = b
<1> DEFINE n == Height[b]
           proof == SubSeq(best.proof, 1, n)
           path == SubSeq(best.path, 1, n)
           works == SubSeq(best.works, 1, n)
           w == IF n = 0 THEN best.work ELSE best.works[n]
           h == Immunised(b)
<1>1. /\ best.proof \in Seq(Block) /\ best.path \in Seq(Block) /\ best.works \in Seq(Nat)
      /\ Len(best.path) = Len(best.proof) /\ Len(best.works) = Len(best.proof)
      /\ InPlace(best.proof) /\ InPlace(best.path)
    BY DEF HeaviestType, Sound
<1>2. n \in Nat /\ n + 1 \in 1..Len(best.path) /\ best.path[n + 1] = b
    BY <1>1, InPlaceFacts, BlockFacts
<1>3. /\ n \in 0..Len(best.proof) /\ n \in 0..Len(best.path) /\ n \in 0..Len(best.works)
      /\ n < Len(best.proof)
    BY <1>1, <1>2, LenProperties
<1>4. h = [proof |-> proof, path |-> path, works |-> works, work |-> w]
    BY <1>2, <1>3 DEF Immunised
<1> HIDE DEF n
<1>5. /\ proof \in Seq(Block) /\ Len(proof) = n /\ (\A i \in 1..n : proof[i] = best.proof[i])
      /\ path \in Seq(Block) /\ Len(path) = n
      /\ works \in Seq(Nat) /\ Len(works) = n /\ (\A i \in 1..n : works[i] = best.works[i])
    BY <1>1, <1>3, CutFacts
<1>6. /\ InPlace(proof) /\ InPlace(path)
      /\ Linked(best.proof) => Linked(proof)
      /\ Members(proof) \subseteq Members(best.proof)
      /\ \A x \in Members(proof) : Height[x] < n
    BY <1>1, <1>3, CutChain
<1>7. b \notin Members(proof)
    BY <1>2, <1>6 DEF n
<1>8. w \in Nat /\ (n # 0 => w = works[n])
    <2>1. n # 0 => n \in 1..n /\ n \in 1..Len(best.works)
        BY <1>3
    <2>2. QED
        BY <1>1, <1>5, <2>1
<1>9. works \in Seq(Int) /\ w \in Int
    BY <1>5, <1>8, SeqMonotonic
<1>10. ASSUME Coherent(best) PROVE Coherent(h)
    <2>1. /\ Linked(best.proof) /\ best.path = best.proof
          /\ best.works = [i \in 1..Len(best.proof) |-> Cumulative(best.proof, i)]
        BY <1>10 DEF Coherent
    <2>2. path = proof
        BY <2>1
    <2> HIDE DEF proof, path, works, w, h
    <2>3. ASSUME NEW i \in 1..n PROVE works[i] = Cumulative(proof, i)
        <3>1. 1 \in 1..n /\ i \in 1..Len(best.proof)
            BY <1>3
        <3>2. proof[1] = best.proof[1] /\ proof[i] = best.proof[i]
            BY <1>5, <3>1
        <3>3. QED
            BY <1>5, <2>1, <3>1, <3>2 DEF Cumulative
    <2>4. works = [i \in 1..Len(proof) |-> Cumulative(proof, i)]
        <3>1. works = [i \in 1..n |-> works[i]]
            BY <1>5
        <3>2. QED
            BY <1>5, <2>3, <3>1
    <2>5. works # <<>> => Tip(works) <= w
        <3>1. SUFFICES ASSUME works # <<>> PROVE Tip(works) <= w
            OBVIOUS
        <3>2. n # 0
            BY <1>5, <3>1, EmptySeq
        <3>3. Tip(works) = works[n]
            BY <1>5, <3>1 DEF Tip
        <3>4. QED
            BY <1>8, <3>2, <3>3
    <2>6. QED
        BY <1>4, <1>6, <2>1, <2>2, <2>4, <2>5 DEF Coherent
<1>11. h \in HeaviestType /\ Sound(h) /\ h.work \in Nat
    <2> HIDE DEF proof, path, works, w, h
    <2>1. QED
        BY <1>4, <1>5, <1>6, <1>8, <1>9 DEF HeaviestType, Sound
<1>12. h.proof = proof
    <2> HIDE DEF proof, path, works, w, h
    <2>1. QED
        BY <1>4
<1> HIDE DEF h, w, path, works
<1>13. QED
    BY <1>2, <1>3, <1>5, <1>6, <1>7, <1>10, <1>11, <1>12 DEF h

\* updatePathWithLeader() leaves a linked chain that ends with the new leader.
LEMMA PathWithLeaderFacts ==
    ASSUME NEW v \in Seq(Block), Linked(v), NEW b \in Block,
           b = Genesis \/ Parent[b] \in Members(v)
    PROVE  LET w == PathWithLeader(v, b)
           IN  /\ w \in Seq(Block) /\ Linked(w) /\ w # <<>> /\ Tip(w) = b
               /\ Members(w) \subseteq Members(v) \cup {b}
<1>1. CASE b = Genesis
    <2>1. PathWithLeader(v, b) = <<b>>
        BY <1>1 DEF PathWithLeader
    <2>2. <<b>> \in Seq(Block) /\ <<b>> # <<>> /\ Len(<<b>>) = 1 /\ <<b>>[1] = b
        OBVIOUS
    <2>3. Linked(<<b>>)
        BY <1>1, <2>2, BlockFacts DEF Linked
    <2>4. Tip(<<b>>) = b /\ Members(<<b>>) \subseteq {b}
        <3> DEFINE s == <<b>>
        <3>1. s \in Seq(Block) /\ s # <<>> /\ Len(s) = 1 /\ s[1] = b
            BY <2>2
        <3> HIDE DEF s
        <3>2. Tip(s) = b
            BY <3>1 DEF Tip
        <3>3. \A x \in Members(s) : x = b
            BY <3>1, MembersFacts
        <3>4. QED
            BY <3>2, <3>3 DEF s
    <2>5. QED
        BY <2>1, <2>2, <2>3, <2>4
<1>2. CASE b # Genesis
    <2> DEFINE places == {i \in DOMAIN v : v[i] = Parent[b]}
               n == Greatest(places)
               u == SubSeq(v, 1, n)
    <2>1. PathWithLeader(v, b) = u \o <<b>>
        BY <1>2 DEF PathWithLeader
    <2>2. n \in 1..Len(v) /\ v[n] = Parent[b]
        <3>1. /\ places \in SUBSET Nat /\ places # {} /\ Len(v) \in Nat
              /\ \A i \in places : i <= Len(v)
            BY <1>2, LenProperties, MembersFacts
        <3>2. n \in places
            <4> HIDE DEF places
            <4>1. QED
                BY <3>1, GreatestFacts
        <3>3. QED
            BY <3>2, LenProperties
    <2> HIDE DEF n
    <2>3. n \in 0..Len(v)
        BY <2>2
    <2>4. u \in Seq(Block) /\ Len(u) = n /\ \A i \in 1..n : u[i] = v[i]
        BY <2>3, CutFacts
    <2>5. Linked(u) /\ Members(u) \subseteq Members(v)
        BY <2>3, CutChain
    <2> HIDE DEF u
    <2>6. u # <<>> /\ Tip(u) = Parent[b]
        <3>1. n \in 1..n
            BY <2>2
        <3>2. u # <<>>
            BY <2>4, <3>1, EmptySeq
        <3>3. QED
            BY <2>2, <2>4, <3>1, <3>2 DEF Tip
    <2>7. Linked(Append(u, b))
        BY <2>4, <2>5, <2>6, ContinuedLinked
    <2>8. u \o <<b>> = Append(u, b)
        BY <2>4, AppendIsConcat
    <2>9. /\ Append(u, b) \in Seq(Block) /\ Append(u, b) # <<>>
          /\ Len(Append(u, b)) = Len(u) + 1
          /\ \A i \in 1..Len(u) : Append(u, b)[i] = u[i]
          /\ Append(u, b)[Len(u) + 1] = b
        BY <2>4, AppendFacts
    <2> DEFINE w == Append(u, b)
    <2> HIDE DEF w
    <2>10. Tip(w) = b
        BY <2>9 DEF Tip, w
    <2>11. ASSUME NEW x \in Members(w) PROVE x \in Members(v) \cup {b}
        <3>1. PICK i \in 1..Len(w) : w[i] = x
            BY <2>9, MembersFacts DEF w
        <3>2. CASE i \in 1..Len(u)
            <4>1. x = u[i]
                BY <2>9, <3>1, <3>2 DEF w
            <4>2. QED
                BY <2>4, <2>5, <3>2, <4>1, MembersFacts
        <3>3. CASE i = Len(u) + 1
            BY <2>9, <3>1, <3>3 DEF w
        <3>4. i \in 1..Len(u) + 1 /\ Len(u) \in Nat
            BY <2>4, <2>9, LenProperties DEF w
        <3>5. QED
            BY <3>2, <3>3, <3>4
    <2>12. QED
        BY <2>1, <2>7, <2>8, <2>9, <2>10, <2>11 DEF w
<1>3. QED
    BY <1>1, <1>2

\* setLeader() refuses the block, or the chain ends with it: the verification
\* of a chain of verified blocks does not fail.
LEMMA SetLeaderFacts ==
    ASSUME NEW v \in Seq(Block), Linked(v), Members(v) \cap blacklist = {},
           NEW b \in Block, b \notin blacklist, SetLeader(v, b)
    PROVE  /\ verified' \in Seq(Block) /\ Linked(verified') /\ leader' = Tip(verified')
           /\ Members(verified') \subseteq Members(v) \cup {b}
           /\ \/ /\ b = Tip(v) \/ (b # Genesis /\ Parent[b] \notin Members(v))
                 /\ verified' = v /\ verifiedWork' = verifiedWork /\ best' = best
              \/ /\ verified' # <<>> /\ leader' = b /\ verifiedWork' = Work[b]
                 /\ best' = ExtendHeaviest(b)
<1>1. CASE b = Tip(v) \/ (b # Genesis /\ Parent[b] \notin Members(v))
    BY <1>1 DEF SetLeader
<1>2. CASE ~(b = Tip(v) \/ (b # Genesis /\ Parent[b] \notin Members(v)))
    <2> DEFINE w == PathWithLeader(v, b)
               from == IF Len(w) > 1 THEN Len(w) - 1 ELSE 1
               check == VerifyChainProof(w, from, FALSE, <<>>, blacklist)
    <2>1. /\ verified' = w /\ best' = ExtendHeaviest(b)
          /\ leader' = IF check = "valid" THEN b ELSE Tip(v)
          /\ verifiedWork' = IF check = "valid" THEN Work[b] ELSE verifiedWork
        BY <1>2 DEF SetLeader
    <2>2. /\ w \in Seq(Block) /\ Linked(w) /\ w # <<>> /\ Tip(w) = b
          /\ Members(w) \subseteq Members(v) \cup {b}
        BY <1>2, PathWithLeaderFacts
    <2> HIDE DEF w
    <2>3. Len(w) \in Nat /\ Len(w) >= 1
        BY <2>2, EmptySeq, LenProperties
    <2>4. from \in 1..Len(w)
        BY <2>3
    <2>5. Members(w) \cap blacklist = {}
        BY <2>2
    <2> HIDE DEF from
    <2>6. check = "valid"
        BY <2>2, <2>4, <2>5, LinkedIsValid
    <2> HIDE DEF check
    <2>7. QED
        BY <2>1, <2>2, <2>6
<1>3. QED
    BY <1>1, <1>2

-----------------------------------------------------------------------------
(* Starting again.                                                         *)

\* What initialise() finds in Cold Storage.
SoundCold(c) ==
    /\ c \in ColdType
    /\ Linked(c.verified) /\ InPlace(c.proof) /\ InPlace(c.path)

\* A heaviest proof loaded from Cold Storage is linked and in step; one whose
\* path was saved with it is one chain.
LEMMA LoadedFacts ==
    ASSUME NEW c, SoundCold(c)
    PROVE  LET h == LoadedHeaviest(c)
           IN  /\ h \in HeaviestType /\ Sound(h) /\ h.work \in Nat
               /\ h.work = WorkOf(h.proof)
               /\ c.path = c.proof => Coherent(h)
<1> DEFINE proof == IF c.path = <<>> /\ c.verified # <<>> THEN <<>> ELSE c.proof
           p     == IF Linked(proof) THEN proof ELSE c.verified
           path  == IF p # proof \/ Len(c.path) # Len(p) THEN p ELSE c.path
           works == [i \in 1..Len(p) |-> Cumulative(p, i)]
           work  == IF p = <<>> THEN 0 ELSE Cumulative(p, Len(p))
           h     == LoadedHeaviest(c)
<1>1. h = [proof |-> p, path |-> path, works |-> works, work |-> work]
    BY DEF LoadedHeaviest
<1>2. /\ c.verified \in Seq(Block) /\ c.proof \in Seq(Block) /\ c.path \in Seq(Block)
      /\ Linked(c.verified) /\ InPlace(c.proof) /\ InPlace(c.path)
    BY DEF SoundCold, ColdType
<1>3. proof \in Seq(Block)
    BY <1>2
<1>4. p \in Seq(Block) /\ Linked(p)
    <2> HIDE DEF proof
    <2>1. QED
        BY <1>2, <1>3
<1>5. InPlace(p)
    BY <1>4, LinkedInPlace
<1>6. path \in Seq(Block) /\ Len(path) = Len(p) /\ InPlace(path)
    <2> HIDE DEF p, proof
    <2>1. CASE p # proof \/ Len(c.path) # Len(p)
        BY <1>4, <1>5, <2>1
    <2>2. CASE ~(p # proof \/ Len(c.path) # Len(p))
        BY <1>2, <2>2
    <2>3. QED
        BY <2>1, <2>2
<1>7. ASSUME c.path = c.proof PROVE path = p
    <2>1. CASE p # proof \/ Len(c.path) # Len(p)
        <3> HIDE DEF p, proof
        <3>1. QED
            BY <2>1
    <2>2. CASE p = proof /\ Len(c.path) = Len(p) /\ c.path = <<>>
        <3> HIDE DEF p, proof
        <3>1. Len(p) = 0
            BY <2>2
        <3>2. p = <<>>
            BY <1>4, <3>1, EmptySeq
        <3>3. QED
            BY <2>2, <3>2
    <2>3. CASE p = proof /\ Len(c.path) = Len(p) /\ c.path # <<>>
        <3>1. proof = c.proof
            BY <2>3
        <3> HIDE DEF p, proof
        <3>2. QED
            BY <1>7, <2>3, <3>1
    <2>4. QED
        BY <2>1, <2>2, <2>3
<1> HIDE DEF p, proof
<1>8. \A i \in 1..Len(p) : Cumulative(p, i) \in Nat
    <2>1. ASSUME NEW i \in 1..Len(p) PROVE Cumulative(p, i) \in Nat
        <3>1. p # <<>>
            OBVIOUS
        <3>2. p[1] = Genesis
            BY <1>4, <1>5, <3>1, InPlaceFacts
        <3>3. QED
            BY <1>4, <3>2, CumulativeIsWork
    <2>2. QED
        BY <2>1
<1>9. works \in Seq(Nat) /\ Len(works) = Len(p)
    BY <1>4, <1>8, LenProperties
<1>10. p # <<>> => Len(p) \in 1..Len(p)
    BY <1>4, TipFacts
<1>11. work \in Nat /\ work = WorkOf(p)
    BY <1>8, <1>10 DEF WorkOf
<1>12. works \in Seq(Int) /\ work \in Int
    BY <1>9, <1>11, SeqMonotonic
<1>13. works # <<>> => Tip(works) <= work
    <2>1. SUFFICES ASSUME works # <<>> PROVE Tip(works) <= work
        OBVIOUS
    <2>2. Len(works) # 0
        BY <1>9, <2>1, EmptySeq
    <2>3. p # <<>> /\ Len(p) \in 1..Len(p)
        BY <1>9, <1>10, <2>2
    <2>4. Tip(works) = works[Len(p)]
        BY <1>9, <2>1 DEF Tip
    <2>5. Tip(works) = work
        BY <2>3, <2>4
    <2>6. QED
        BY <1>11, <2>5
<1>14. c.path = c.proof => Coherent(h)
    <2> HIDE DEF path, work, h
    <2>1. QED
        BY <1>1, <1>4, <1>7, <1>13 DEF Coherent
<1> HIDE DEF path, work, works, h
<1>15. h \in HeaviestType /\ Sound(h) /\ h.work \in Nat /\ h.work = WorkOf(h.proof)
    BY <1>1, <1>4, <1>5, <1>6, <1>9, <1>11, <1>12 DEF HeaviestType, Sound
<1>16. QED
    BY <1>14, <1>15 DEF h

\* The work of a chain in place is that of its last block; a chain that is not
\* empty has some.
LEMMA WorkOfFacts ==
    ASSUME NEW p \in Seq(Block), Linked(p)
    PROVE  /\ WorkOf(p) \in Nat
           /\ p = <<>> => WorkOf(p) = 0
           /\ p # <<>> => WorkOf(p) = Work[p[Len(p)]] /\ WorkOf(p) > 0
<1>1. CASE p = <<>>
    BY <1>1 DEF WorkOf
<1>2. CASE p # <<>>
    <2>1. Len(p) \in 1..Len(p) /\ 1 \in 1..Len(p)
        BY <1>2, TipFacts
    <2>2. p[1] = Genesis
        BY <1>2, LinkedInPlace, InPlaceFacts
    <2>3. WorkOf(p) = Work[p[Len(p)]] /\ Work[p[Len(p)]] \in Nat
        BY <1>2, <2>1, <2>2, CumulativeIsWork DEF WorkOf
    <2>4. \A i \in 1+1..Len(p) : Parent[p[i]] = p[i-1]
        BY DEF Linked
    <2>5. \A i \in 1..Len(p) : Work[p[1]] <= Work[p[i]]
        BY <2>1, <2>4, WorkGrows
    <2>6. Work[p[1]] \in Nat /\ Work[p[1]] > 0
        BY <2>2, BlockFacts
    <2>7. QED
        BY <1>2, <2>1, <2>3, <2>5, <2>6
<1>3. QED
    BY <1>1, <1>2

\* A heaviest proof with another total difficulty.
LEMMA OtherWork ==
    ASSUME NEW h \in HeaviestType, NEW w \in Int
    PROVE  LET k == [h EXCEPT !.work = w]
           IN  /\ k \in HeaviestType /\ k.work = w
               /\ k.proof = h.proof /\ k.path = h.path /\ k.works = h.works
    BY DEF HeaviestType

\* So is the one that the comparison with the verified proof ends with, and no
\* proof has less to beat than either of the two compared.
LEMMA ComparedFacts ==
    ASSUME NEW c, SoundCold(c)
    PROVE  LET h == CrossCompared(c, WorkOf(c.verified))
           IN  /\ h \in HeaviestType /\ Sound(h) /\ h.work \in Nat
               /\ c.path = c.proof => Coherent(h)
               /\ WorkOf(c.verified) <= h.work /\ WorkOf(h.proof) <= h.work
<1> DEFINE h == LoadedHeaviest(c)
           total == WorkOf(c.verified)
           r == AnalyzeAndUpdate(h, c.verified, 0, {}, c)
           taken == IF r.answer = "Error" THEN h ELSE r.best
           compared == CrossCompared(c, total)
<1>1. /\ h \in HeaviestType /\ Sound(h) /\ h.work \in Nat
      /\ h.work = WorkOf(h.proof)
      /\ c.path = c.proof => Coherent(h)
    BY LoadedFacts
<1>2. compared = IF \/ h.work < total
                    \/ h.work = total /\ Len(c.verified) > Len(h.proof)
                 THEN [taken EXCEPT !.work = Cumulative(c.verified, Len(c.verified))]
                 ELSE h
    BY DEF CrossCompared
<1>3. c.verified \in Seq(Block) /\ InPlace(c.verified)
    BY LinkedInPlace DEF SoundCold, ColdType
<1>4. h.proof \in Seq(Block) /\ h.works \in Seq(Int)
    BY <1>1 DEF HeaviestType
<1>0. total \in Nat
    BY <1>3, WorkOfFacts DEF SoundCold
<1> HIDE DEF h
<1>5. CASE h.work < total \/ (h.work = total /\ Len(c.verified) > Len(h.proof))
    <2>1. c.verified # <<>>
        <3>1. SUFFICES ASSUME c.verified = <<>> PROVE FALSE
            OBVIOUS
        <3>2. total = 0 /\ Len(c.verified) = 0
            BY <3>1 DEF WorkOf
        <3>3. Len(h.proof) \in Nat
            BY <1>4, LenProperties
        <3>4. QED
            BY <1>1, <1>5, <3>2, <3>3
    <2>2. c.verified[1] = Genesis /\ Len(c.verified) \in 1..Len(c.verified)
        BY <1>3, <2>1, InPlaceFacts, TipFacts
    <2>3. /\ total = Cumulative(c.verified, Len(c.verified))
          /\ total = Work[c.verified[Len(c.verified)]] /\ total \in Nat
        BY <1>3, <2>1, <2>2, CumulativeIsWork DEF WorkOf
    <2>4. /\ taken \in HeaviestType /\ Sound(taken)
          /\ c.path = c.proof => Coherent(taken) /\ taken.work <= total
          /\ WorkOf(taken.proof) <= total
        <3>1. CASE r.answer = "updated"
            <4>1. taken = r.best
                BY <3>1
            <4>2. /\ r.best \in HeaviestType /\ Sound(r.best)
                  /\ Coherent(h) => Coherent(r.best) /\ r.best.work = total
                BY <1>1, <1>3, <2>1, <2>2, <2>3, <3>1, UpdateFacts
            <4>3. /\ r.best.proof # <<>>
                  /\ r.best.proof[Len(r.best.proof)] = c.verified[Len(c.verified)]
                BY <1>1, <1>3, <2>1, <2>2, <3>1, UpdateFacts
            <4>4. WorkOf(taken.proof) = total
                <5> DEFINE q == r.best.proof
                <5>1. q \in Seq(Block) /\ InPlace(q)
                    BY <4>2 DEF HeaviestType, Sound
                <5>2. q # <<>> /\ q[Len(q)] = c.verified[Len(c.verified)] /\ taken.proof = q
                    BY <4>1, <4>3
                <5> HIDE DEF q, r, taken, total
                <5>3. q[1] = Genesis /\ Len(q) \in 1..Len(q)
                    BY <5>1, <5>2, InPlaceFacts, TipFacts
                <5>4. Cumulative(q, Len(q)) = Work[q[Len(q)]]
                    BY <5>1, <5>3, CumulativeIsWork
                <5>5. QED
                    BY <2>3, <5>2, <5>4 DEF WorkOf
            <4>5. QED
                BY <1>1, <2>3, <4>1, <4>2, <4>4
        <3>2. CASE r.answer # "updated"
            <4>1. r.answer \in {"updated", "Error"} \/ r.best = h
                BY AnalyzeAnswers
            <4>2. taken = h
                BY <3>2, <4>1
            <4>3. QED
                BY <1>1, <1>5, <2>3, <4>2
        <3>3. QED
            BY <3>1, <3>2
    <2> HIDE DEF taken, total, compared
    <2>5. compared = [taken EXCEPT !.work = total]
        BY <1>2, <1>5, <2>3
    <2>6. taken.work \in Int /\ taken.works \in Seq(Nat)
        BY <2>4 DEF HeaviestType, Sound
    <2>7. /\ compared \in HeaviestType /\ compared.work = total
          /\ compared.proof = taken.proof /\ compared.path = taken.path
          /\ compared.works = taken.works
        <3>1. total \in Int
            BY <2>3
        <3>2. QED
            BY <2>4, <2>5, <3>1, OtherWork
    <2>8. Sound(compared)
        BY <2>4, <2>7 DEF Sound
    <2>9. total <= compared.work /\ WorkOf(compared.proof) <= compared.work
        BY <2>3, <2>4, <2>7
    <2>10. ASSUME Coherent(taken), taken.work <= total PROVE Coherent(compared)
        <3>1. taken.works # <<>> => Tip(taken.works) <= taken.work /\ Tip(taken.works) \in Nat
            BY <2>6, <2>10, EmptySeq DEF Coherent, Tip
        <3>2. taken.works # <<>> => Tip(taken.works) <= total
            BY <2>3, <2>6, <2>10, <3>1
        <3>3. QED
            BY <2>7, <2>10, <3>2 DEF Coherent
    <2>11. QED
        BY <2>3, <2>4, <2>7, <2>8, <2>9, <2>10 DEF compared, total
<1>6. CASE ~(h.work < total \/ (h.work = total /\ Len(c.verified) > Len(h.proof)))
    <2>1. compared = h
        BY <1>2, <1>6
    <2>2. total <= h.work
        BY <1>0, <1>1, <1>6
    <2> HIDE DEF compared
    <2>3. QED
        BY <1>1, <2>1, <2>2 DEF compared
<1>7. QED
    BY <1>5, <1>6

-----------------------------------------------------------------------------
(* The processing queue.                                                   *)

Entry == [block : Block, local : BOOLEAN]

\* The places of a queue that are counted are no more than it has.
LEMMA CountFacts ==
    ASSUME NEW S, NEW q \in Seq(S), NEW T \in SUBSET (DOMAIN q)
    PROVE  Cardinality(T) \in 0..Len(q)
<1>1. Len(q) \in Nat /\ DOMAIN q = 1..Len(q)
    BY LenProperties
<1>2. IsFiniteSet(1..Len(q)) /\ Cardinality(1..Len(q)) = Len(q)
    <2>1. ASSUME NEW n \in Nat PROVE IsFiniteSet(1..n) /\ Cardinality(1..n) = n
        <3>1. 1 \in Int /\ n \in Int
            OBVIOUS
        <3>2. IsFiniteSet(1..n) /\ Cardinality(1..n) = IF 1 > n THEN 0 ELSE n - 1 + 1
            BY <3>1, FS_Interval
        <3>3. QED
            BY <3>2
    <2>2. QED
        BY <1>1, <2>1
<1>3. /\ T \in SUBSET (1..Len(q))
      /\ IsFiniteSet(T) /\ Cardinality(T) <= Cardinality(1..Len(q))
    BY <1>1, <1>2, FS_Subset
<1>4. Cardinality(T) \in Nat
    BY <1>3, FS_CardinalityType
<1>5. QED
    BY <1>1, <1>2, <1>3, <1>4

\* A queue with an entry inserted behind place n.
Inserted(q, n, e) == SubSeq(q, 1, n) \o <<e>> \o SubSeq(q, n + 1, Len(q))

\* Where the entries of a queue are after one was inserted behind place n.
WithEntry(r, q, n, e) ==
    /\ Len(r) = Len(q) + 1
    /\ \A i \in 1..Len(q) + 1 :
          r[i] = IF i <= n THEN q[i] ELSE IF i = n + 1 THEN e ELSE q[i-1]

\* That is what inserting does.
LEMMA InsertFacts ==
    ASSUME NEW S, NEW q \in Seq(S), NEW e \in S, NEW n \in 0..Len(q)
    PROVE  Inserted(q, n, e) \in Seq(S) /\ WithEntry(Inserted(q, n, e), q, n, e)
<1> DEFINE a == SubSeq(q, 1, n)
           m == a \o <<e>>
           z == SubSeq(q, n + 1, Len(q))
           r == m \o z
<1>1. Len(q) \in Nat
    BY LenProperties
<1>2. a \in Seq(S) /\ Len(a) = n /\ \A i \in 1..n : a[i] = q[i]
    BY CutFacts
<1>3. z \in Seq(S) /\ Len(z) = Len(q) - n /\ \A i \in 1..Len(q) - n : z[i] = q[n + i]
    BY DropFacts
<1> HIDE DEF a, z
<1>4. m = Append(a, e)
    BY <1>2, AppendIsConcat
<1>5. m \in Seq(S) /\ Len(m) = n + 1 /\ (\A i \in 1..n : m[i] = q[i]) /\ m[n + 1] = e
    BY <1>2, <1>4, AppendFacts
<1> HIDE DEF m
<1>6. /\ r \in Seq(S) /\ Len(r) = Len(m) + Len(z)
      /\ \A i \in 1..Len(m) + Len(z) : r[i] = IF i <= Len(m) THEN m[i] ELSE z[i - Len(m)]
    BY <1>3, <1>5, ConcatProperties
<1> HIDE DEF r
<1>7. Len(r) = Len(q) + 1
    BY <1>1, <1>3, <1>5, <1>6
<1>8. ASSUME NEW i \in 1..Len(q) + 1
      PROVE  r[i] = IF i <= n THEN q[i] ELSE IF i = n + 1 THEN e ELSE q[i-1]
    <2>1. i \in 1..Len(m) + Len(z)
        BY <1>1, <1>3, <1>5
    <2>2. CASE i <= n
        BY <1>5, <1>6, <2>1, <2>2
    <2>3. CASE i = n + 1
        BY <1>5, <1>6, <2>1, <2>3
    <2>4. CASE i > n + 1
        <3>1. i - (n + 1) \in 1..Len(q) - n /\ n + (i - (n + 1)) = i - 1 /\ ~(i <= Len(m))
            BY <1>1, <1>5, <2>4
        <3>2. r[i] = z[i - (n + 1)]
            BY <1>5, <1>6, <2>1, <3>1
        <3>3. z[i - (n + 1)] = q[n + (i - (n + 1))]
            BY <1>3, <3>1
        <3>4. QED
            BY <2>4, <3>1, <3>2, <3>3
    <2>5. QED
        BY <2>2, <2>3, <2>4
<1>9. QED
    BY <1>6, <1>7, <1>8 DEF Inserted, WithEntry, r, m, a, z

-----------------------------------------------------------------------------
(* The inductive invariant.                                                *)

\* The heaviest proof, also between an integrity error and the next start, when
\* a crash may save its headers.
BestInv ==
    /\ best.work \in Nat
    /\ ~integrityError => Sound(best)
    /\ ~integrityError /\ ~torn => Coherent(best)
    /\ InPlace(best.proof)
    /\ ~torn => Linked(best.proof)

\* What a restart finds in Cold Storage.
ColdInv ==
    /\ Linked(cold.verified)
    /\ Members(cold.verified) \subseteq executed \ Bad
    /\ InPlace(cold.proof) /\ InPlace(cold.path)
    /\ ~torn => Linked(cold.proof) /\ cold.path = cold.proof

\* What validateBlock() has established of the block that is processed.  What
\* has been executed is stored.
ControlInv ==
    /\ executed \subseteq stored
    /\ pc = "idle" <=> current = NoEntry
    /\ pc = "append" => current.local /\ Reachable(current.block) /\ current.block \notin Bad
    /\ pc \in {"validate", "append"} => current.block \notin blacklist

\* A block is queued once, and one that was scheduled is known, is not being
\* processed and is not verified yet: no leader is validated, and refused, a
\* second time.
QueueInv ==
    /\ \A i, j \in DOMAIN queue : queue[i].block = queue[j].block => i = j
    /\ \A i \in DOMAIN queue : queue[i].local =>
          /\ queue[i].block \in stored \cup mined
          /\ queue[i].block \notin Members(verified)
          /\ current.local => queue[i].block # current.block
    /\ current.local => /\ current.block \in stored \cup mined
                        /\ current.block \notin Members(verified)

\* Hence no verified block is blacklisted, and setLeader() does not fail.
VerifiedInv ==
    /\ VerifiedChain
    /\ Members(verified) \cap blacklist = {}
    /\ verified = <<>> => verifiedWork = 0

IInv ==
    /\ TypeOK /\ BestInv /\ ColdInv /\ ControlInv /\ QueueInv /\ VerifiedInv
    /\ HeaviestNotBlacklisted

-----------------------------------------------------------------------------
(* What the actions do to the parts of the invariant.                      *)

\* A step that leaves the heaviest proof alone.
LEMMA BestFrame ==
    ASSUME BestInv, HeaviestNotBlacklisted,
           best' = best, integrityError' = integrityError, torn' = torn,
           blacklist' \subseteq blacklist
    PROVE  BestInv' /\ HeaviestNotBlacklisted'
<1>1. BestInv'
    BY DEF BestInv, Sound, Coherent, InPlace, Linked, Tip, Cumulative
<1>2. HeaviestNotBlacklisted'
    BY DEF HeaviestNotBlacklisted, Members
<1>3. QED
    BY <1>1, <1>2

\* One that leaves Cold Storage alone.
LEMMA ColdFrame ==
    ASSUME ColdInv, cold' = cold, torn' = torn, executed \subseteq executed'
    PROVE  ColdInv'
    BY DEF ColdInv, InPlace, Linked, Members

\* One that leaves the verified chain alone.
LEMMA VerifiedFrame ==
    ASSUME VerifiedInv, verified' = verified, leader' = leader, verifiedWork' = verifiedWork,
           blacklist' \subseteq blacklist, executed \subseteq executed'
    PROVE  VerifiedInv'
    BY DEF VerifiedInv, VerifiedChain, Linked, Tip, Members

\* One that leaves the queue alone, and the block that is processed or nothing
\* in its place.
LEMMA QueueFrame ==
    ASSUME QueueInv, queue' = queue, current' \in {current, NoEntry},
           verified' = verified, stored \subseteq stored', mined \subseteq mined'
    PROVE  QueueInv'
<1>1. CASE current' = current
    BY <1>1 DEF QueueInv, Members
<1>2. CASE current' = NoEntry
    <2>1. ~current'.local
        BY <1>2 DEF NoEntry
    <2>2. QED
        BY <2>1 DEF QueueInv, Members
<1>3. QED
    BY <1>1, <1>2

\* A chain-proof is analyzed.
LEMMA AnalyzeStep ==
    ASSUME TypeOK, BestInv, ColdInv, HeaviestNotBlacklisted, ~integrityError,
           NEW sub \in Seq(Block), sub # <<>>, sub[1] = Genesis,
           NEW t, Analyze(t, sub), blacklist' = blacklist
    PROVE  /\ best' \in HeaviestType /\ BestInv' /\ HeaviestNotBlacklisted'
           /\ integrityError' \in BOOLEAN /\ torn' = torn /\ guardian' \in {t, guardian}
           /\ \/ best' = best \/ integrityError'
              \/ /\ ~integrityError'
                 /\ Better(best'.work, Len(best'.proof), ToBeat(sub, best.work), Len(best.proof))
                 /\ best'.proof # <<>>
                 /\ Coherent(best) =>
                       Coherent(best') /\ best'.work = Work[best'.proof[Len(best'.proof)]]
<1> DEFINE r == AnalyzeAndUpdate(best, sub, best.work, blacklist, cold)
<1>1. /\ best' = r.best /\ torn' = torn
      /\ guardian' = IF r.answer = "leaked" THEN t ELSE guardian
      /\ integrityError' = (integrityError \/ r.answer = "Error")
    BY DEF Analyze
<1>0. integrityError = FALSE
    BY DEF TypeOK
<1>2. /\ best \in HeaviestType /\ best.work \in Nat /\ Sound(best)
      /\ ~torn => Coherent(best)
      /\ InPlace(best.proof) /\ (~torn => Linked(best.proof))
      /\ Members(best.proof) \cap blacklist = {}
      /\ cold \in ColdType
      /\ InPlace(cold.proof) /\ (~torn => Linked(cold.proof))
    BY DEF TypeOK, HeaviestType, ColdType, BestInv, ColdInv, HeaviestNotBlacklisted
<1>3. \/ r.answer \notin {"updated", "Error"} /\ r.best = best
      \/ r.answer = "updated"
      \/ r.answer = "Error" /\ r.best = Reloaded(best, cold)
    BY AnalyzeAnswers
<1>4. CASE r.answer \notin {"updated", "Error"} /\ r.best = best
    <2> HIDE DEF r
    <2>1. best' = best /\ integrityError' = FALSE /\ torn' = torn
        BY <1>0, <1>1, <1>4
    <2>2. BestInv' /\ HeaviestNotBlacklisted'
        BY <1>0, <2>1, BestFrame
    <2>3. QED
        BY <1>1, <1>2, <2>1, <2>2
<1>5. CASE r.answer = "updated"
    <2>1. /\ r.best \in HeaviestType /\ Sound(r.best) /\ r.best.work \in Nat
          /\ r.best.proof # <<>> /\ r.best.proof[Len(r.best.proof)] = sub[Len(sub)]
          /\ Members(r.best.proof) \cap blacklist = {}
          /\ Better(r.best.work, Len(r.best.proof), ToBeat(sub, best.work), Len(best.proof))
          /\ Coherent(best) => Coherent(r.best) /\ r.best.work = Work[sub[Len(sub)]]
        BY <1>2, <1>5, UpdateFacts
    <2> HIDE DEF r
    <2>2. integrityError' = FALSE /\ torn' = torn /\ guardian' = guardian
        BY <1>0, <1>1, <1>5
    <2>3. /\ best' \in HeaviestType /\ Sound(best') /\ best'.work \in Nat
          /\ best'.proof # <<>> /\ best'.proof[Len(best'.proof)] = sub[Len(sub)]
          /\ Members(best'.proof) \cap blacklist = {}
          /\ Better(best'.work, Len(best'.proof), ToBeat(sub, best.work), Len(best.proof))
          /\ Coherent(best) => Coherent(best') /\ best'.work = Work[sub[Len(sub)]]
        BY <1>1, <2>1
    <2>4. BestInv'
        <3>1. InPlace(best'.proof)
            BY <2>3 DEF Sound
        <3>2. ~torn => Linked(best'.proof) /\ Coherent(best')
            BY <1>2, <2>3 DEF Coherent
        <3>3. QED
            BY <2>2, <2>3, <3>1, <3>2 DEF BestInv, Sound, Coherent, InPlace, Linked, Tip, Cumulative
    <2>5. HeaviestNotBlacklisted'
        BY <2>3 DEF HeaviestNotBlacklisted, Members
    <2>6. QED
        BY <2>2, <2>3, <2>4, <2>5
<1>6. CASE r.answer = "Error" /\ r.best = Reloaded(best, cold)
    <2> HIDE DEF r
    <2>1. integrityError' = TRUE /\ guardian' = guardian
        BY <1>1, <1>6
    <2>2. best' = [best EXCEPT !.proof = cold.proof, !.path = cold.path]
        BY <1>1, <1>6 DEF Reloaded
    <2>3. best' \in HeaviestType /\ best'.work = best.work /\ best'.proof = cold.proof
        BY <1>2, <2>2 DEF HeaviestType, ColdType
    <2>4. BestInv'
        <3>1. best'.work \in Nat /\ InPlace(best'.proof) /\ (~torn => Linked(best'.proof))
            BY <1>2, <2>3
        <3>2. QED
            BY <1>1, <2>1, <3>1 DEF BestInv, InPlace, Linked
    <2>5. HeaviestNotBlacklisted'
        BY <2>1 DEF HeaviestNotBlacklisted
    <2>6. QED
        BY <1>1, <2>1, <2>3, <2>4, <2>5
<1>7. QED
    BY <1>3, <1>4, <1>5, <1>6

\* The heaviest proof is extended or cut.
LEMMA RebuiltStep ==
    ASSUME TypeOK, BestInv, ~integrityError, integrityError' = integrityError, torn' = torn,
           best' \in HeaviestType, Sound(best'), best'.work \in Nat,
           Coherent(best) => Coherent(best'),
           Members(best'.proof) \cap blacklist' = {}
    PROVE  BestInv' /\ HeaviestNotBlacklisted'
<1>1. ~torn => Coherent(best')
    BY DEF BestInv
<1>2. InPlace(best'.proof) /\ (~torn => Linked(best'.proof))
    BY <1>1 DEF Sound, Coherent
<1>3. BestInv'
    BY <1>1, <1>2 DEF BestInv, Sound, Coherent, InPlace, Linked, Tip, Cumulative
<1>4. HeaviestNotBlacklisted'
    BY DEF HeaviestNotBlacklisted, Members
<1>5. QED
    BY <1>3, <1>4

-----------------------------------------------------------------------------
(* One lemma per action: it preserves the invariant.                       *)

\* A new node.
LEMMA Initially == Init => IInv
<1>1. SUFFICES ASSUME Init PROVE IInv
    OBVIOUS
<1>2. TypeOK
    <2>1. best \in [proof : Seq(Block), path : Seq(Block), works : Seq(Int), work : Int]
        BY <1>1 DEF Init, EmptyBest
    <2>2. cold \in [verified : Seq(Block), proof : Seq(Block), path : Seq(Block)]
        BY <1>1 DEF Init
    <2>3. queue \in Seq([block : Block, local : BOOLEAN]) /\ Len(queue) <= MaxQueue
        BY <1>1, HeadersAssumption DEF Init
    <2>4. integrityError \in BOOLEAN /\ torn \in BOOLEAN
        BY <1>1 DEF Init
    <2>5. QED
        BY <1>1, <2>1, <2>2, <2>3, <2>4 DEF Init, TypeOK
<1>3. Sound(EmptyBest) /\ Coherent(EmptyBest) /\ InPlace(<<>>) /\ Linked(<<>>)
    BY DEF Sound, Coherent, EmptyBest, InPlace, Linked
<1>4. BestInv /\ ColdInv
    BY <1>1, <1>3 DEF Init, BestInv, ColdInv, EmptyBest, Members
<1>5. ControlInv /\ QueueInv
    BY <1>1 DEF Init, ControlInv, QueueInv, NoEntry
<1>6. VerifiedInv /\ HeaviestNotBlacklisted
    BY <1>1, <1>3 DEF Init, VerifiedInv, VerifiedChain, HeaviestNotBlacklisted, Members, Tip, EmptyBest
<1>7. QED
    BY <1>2, <1>4, <1>5, <1>6 DEF IInv

\* A peer presents a chain-proof.
LEMMA ReceiveProofStep ==
    ASSUME IInv, ~integrityError, NEW t \in Peer, NEW sub \in Proofs, ReceiveProof(t, sub)
    PROVE  IInv'
<1>1. sub \in Seq(Block) /\ sub # <<>> /\ sub[1] = Genesis
    BY HeadersAssumption
<1>2. /\ Analyze(t, sub) /\ received' = received + 1
      /\ UNCHANGED <<verified, leader, verifiedWork, live>>
      /\ UNCHANGED <<hunted, queue, pc, current>>
      /\ UNCHANGED <<stored, executed, blacklist, cold>>
      /\ UNCHANGED <<mined, mishaps>>
    BY DEF ReceiveProof, chain, processing, storage
<1>3. /\ TypeOK /\ BestInv /\ ColdInv /\ ControlInv /\ QueueInv /\ VerifiedInv
      /\ HeaviestNotBlacklisted
    BY DEF IInv
<1>4. /\ best' \in HeaviestType /\ BestInv' /\ HeaviestNotBlacklisted'
      /\ integrityError' \in BOOLEAN /\ torn' = torn /\ guardian' \in {t, guardian}
    BY <1>1, <1>2, <1>3, AnalyzeStep
<1>5. TypeOK'
    BY <1>2, <1>3, <1>4 DEF TypeOK, HeaviestType
<1>6. ColdInv' /\ VerifiedInv' /\ QueueInv'
    BY <1>2, <1>3, <1>4, ColdFrame, VerifiedFrame, QueueFrame
<1>7. ControlInv'
    BY <1>2, <1>3 DEF ControlInv, Reachable
<1>8. QED
    BY <1>4, <1>5, <1>6, <1>7 DEF IInv

\* pushBlock(), of a block of the network or of one that was mined.
LEMMA PushFacts ==
    ASSUME TypeOK, QueueInv, NEW b \in Block, NEW local \in BOOLEAN, Push(b, local)
    PROVE  /\ queue' \in Seq(Entry) /\ Len(queue') <= MaxQueue
           /\ \A i, j \in DOMAIN queue' : queue'[i].block = queue'[j].block => i = j
           /\ \A i \in DOMAIN queue' :
                 \/ queue'[i] = [block |-> b, local |-> local]
                 \/ \E j \in DOMAIN queue : queue'[i] = queue[j]
<1> DEFINE e == [block |-> b, local |-> local]
           T == {i \in DOMAIN queue : Height[queue[i].block] <= Height[b]}
           n == Cardinality(T)
           r == Inserted(queue, n, e)
<1>1. queue \in Seq(Entry) /\ Len(queue) <= MaxQueue
    BY DEF TypeOK, Entry
<1>2. /\ \A i \in DOMAIN queue : queue[i].block # b
      /\ queue' = IF Len(queue) < MaxQueue THEN r ELSE queue
    BY DEF Push, Inserted
<1>3. \A i, j \in DOMAIN queue : queue[i].block = queue[j].block => i = j
    BY DEF QueueInv
<1>4. CASE ~(Len(queue) < MaxQueue)
    <2>1. queue' = queue
        BY <1>2, <1>4
    <2>2. QED
        BY <1>1, <1>3, <2>1
<1>5. CASE Len(queue) < MaxQueue
    <2>1. n \in 0..Len(queue)
        <3>1. T \in SUBSET (DOMAIN queue)
            OBVIOUS
        <3> HIDE DEF T
        <3>2. QED
            BY <1>1, <3>1, CountFacts
    <2>2. e \in Entry /\ e.block = b
        BY DEF Entry
    <2> HIDE DEF n, e
    <2>3. /\ r \in Seq(Entry) /\ Len(r) = Len(queue) + 1
          /\ \A i \in 1..Len(queue) + 1 :
                r[i] = IF i <= n THEN queue[i] ELSE IF i = n + 1 THEN e ELSE queue[i-1]
        <3>1. r \in Seq(Entry) /\ WithEntry(r, queue, n, e)
            BY <1>1, <2>1, <2>2, InsertFacts
        <3>2. QED
            BY <3>1 DEF WithEntry
    <2>4. queue' = r
        BY <1>2, <1>5
    <2> HIDE DEF r
    <2>5. /\ Len(queue) \in Nat /\ DOMAIN queue = 1..Len(queue) /\ DOMAIN r = 1..Len(queue) + 1
          /\ MaxQueue \in Nat
        BY <1>1, <2>3, LenProperties, HeadersAssumption
    <2>6. ASSUME NEW i \in 1..Len(queue) + 1
          PROVE  \/ i = n + 1 /\ r[i] = e
                 \/ i <= n /\ i \in 1..Len(queue) /\ r[i] = queue[i]
                 \/ i > n + 1 /\ i - 1 \in 1..Len(queue) /\ r[i] = queue[i-1]
        BY <2>1, <2>3, <2>5
    <2>7. ASSUME NEW i \in 1..Len(queue) + 1, NEW j \in 1..Len(queue) + 1,
                 r[i].block = r[j].block
          PROVE  i = j
        <3> DEFINE old(k) == IF k <= n THEN k ELSE k - 1
        <3>1. ASSUME NEW k \in 1..Len(queue) + 1, k # n + 1
              PROVE  old(k) \in DOMAIN queue /\ r[k] = queue[old(k)] /\ r[k].block # b
            <4>1. old(k) \in DOMAIN queue /\ r[k] = queue[old(k)]
                BY <2>1, <2>5, <2>6, <3>1
            <4>2. QED
                BY <1>2, <4>1
        <3>2. i = n + 1 => r[i].block = b
            BY <2>1, <2>2, <2>6
        <3>3. j = n + 1 => r[j].block = b
            BY <2>1, <2>2, <2>6
        <3>4. CASE i = n + 1 \/ j = n + 1
            BY <2>7, <3>1, <3>2, <3>3, <3>4
        <3>5. CASE i # n + 1 /\ j # n + 1
            <4>1. /\ old(i) \in DOMAIN queue /\ r[i] = queue[old(i)]
                  /\ old(j) \in DOMAIN queue /\ r[j] = queue[old(j)]
                BY <3>1, <3>5
            <4>2. old(i) = old(j)
                <5> HIDE DEF old
                <5>1. QED
                    BY <1>3, <2>7, <4>1
            <4>3. QED
                BY <2>1, <3>5, <4>2
        <3>6. QED
            BY <3>4, <3>5
    <2>8. \A i \in DOMAIN r : r[i] = e \/ \E j \in DOMAIN queue : r[i] = queue[j]
        BY <2>5, <2>6
    <2>9. Len(r) <= MaxQueue
        BY <1>5, <2>3, <2>5
    <2>10. QED
        BY <2>3, <2>4, <2>5, <2>7, <2>8, <2>9 DEF e
<1>6. QED
    BY <1>4, <1>5

\* A block that was asked for arrives.
LEMMA ReceiveBlockStep ==
    ASSUME IInv, NEW b \in Block, ReceiveBlock(b)
    PROVE  IInv'
<1>1. /\ Push(b, FALSE) /\ hunted' = hunted \ {b}
      /\ UNCHANGED <<best, guardian, verified, leader, verifiedWork, live, pc, current>>
      /\ UNCHANGED <<stored, executed, blacklist, cold>>
      /\ UNCHANGED <<received, mined, mishaps, integrityError, torn>>
    BY DEF ReceiveBlock, chain, storage, environment, faults
<1>2. /\ TypeOK /\ BestInv /\ ColdInv /\ ControlInv /\ QueueInv /\ VerifiedInv
      /\ HeaviestNotBlacklisted
    BY DEF IInv
<1>3. /\ queue' \in Seq(Entry) /\ Len(queue') <= MaxQueue
      /\ \A i, j \in DOMAIN queue' : queue'[i].block = queue'[j].block => i = j
      /\ \A i \in DOMAIN queue' :
            \/ queue'[i] = [block |-> b, local |-> FALSE]
            \/ \E j \in DOMAIN queue : queue'[i] = queue[j]
    BY <1>1, <1>2, PushFacts
<1>4. TypeOK'
    BY <1>1, <1>2, <1>3 DEF TypeOK, Entry
<1>5. BestInv' /\ HeaviestNotBlacklisted' /\ ColdInv' /\ VerifiedInv'
    BY <1>1, <1>2, BestFrame, ColdFrame, VerifiedFrame
<1>6. ControlInv'
    BY <1>1, <1>2 DEF ControlInv, Reachable
<1>7. QueueInv'
    <2>1. ASSUME NEW i \in DOMAIN queue', queue'[i].local
          PROVE  /\ queue'[i].block \in stored \cup mined
                 /\ queue'[i].block \notin Members(verified)
                 /\ current.local => queue'[i].block # current.block
        <3>1. queue'[i] # [block |-> b, local |-> FALSE]
            BY <2>1
        <3>2. PICK j \in DOMAIN queue : queue'[i] = queue[j]
            BY <1>3, <3>1
        <3>3. QED
            BY <1>2, <2>1, <3>2 DEF QueueInv
    <2>2. QED
        BY <1>1, <1>2, <1>3, <2>1 DEF QueueInv, Members
<1>8. QED
    BY <1>4, <1>5, <1>6, <1>7 DEF IInv

\* This node mines a block.
LEMMA MineBlockStep ==
    ASSUME IInv, NEW b \in Block, MineBlock(b)
    PROVE  IInv'
<1>1. /\ b \in Minable /\ b \notin mined \cup stored /\ mined' = mined \cup {b}
      /\ Push(b, TRUE)
      /\ UNCHANGED <<best, guardian, verified, leader, verifiedWork, live, hunted, pc, current>>
      /\ UNCHANGED <<stored, executed, blacklist, cold>>
      /\ UNCHANGED <<received, mishaps, integrityError, torn>>
    BY DEF MineBlock, chain, storage, faults
<1>2. /\ TypeOK /\ BestInv /\ ColdInv /\ ControlInv /\ QueueInv /\ VerifiedInv
      /\ HeaviestNotBlacklisted
    BY DEF IInv
<1>3. /\ queue' \in Seq(Entry) /\ Len(queue') <= MaxQueue
      /\ \A i, j \in DOMAIN queue' : queue'[i].block = queue'[j].block => i = j
      /\ \A i \in DOMAIN queue' :
            \/ queue'[i] = [block |-> b, local |-> TRUE]
            \/ \E j \in DOMAIN queue : queue'[i] = queue[j]
    BY <1>1, <1>2, PushFacts
<1>4. TypeOK'
    BY <1>1, <1>2, <1>3 DEF TypeOK, Entry
<1>5. BestInv' /\ HeaviestNotBlacklisted' /\ ColdInv' /\ VerifiedInv'
    BY <1>1, <1>2, BestFrame, ColdFrame, VerifiedFrame
<1>6. ControlInv'
    BY <1>1, <1>2 DEF ControlInv, Reachable
\* A block that is new to the node is not verified, and is not processed now.
<1>7. b \notin Members(verified) /\ (current.local => b # current.block)
    BY <1>1, <1>2 DEF VerifiedInv, VerifiedChain, ControlInv, QueueInv
<1>8. QueueInv'
    <2>1. ASSUME NEW i \in DOMAIN queue', queue'[i].local
          PROVE  /\ queue'[i].block \in stored \cup mined'
                 /\ queue'[i].block \notin Members(verified)
                 /\ current.local => queue'[i].block # current.block
        <3>1. CASE queue'[i] = [block |-> b, local |-> TRUE]
            BY <1>1, <1>7, <3>1
        <3>2. CASE \E j \in DOMAIN queue : queue'[i] = queue[j]
            <4>1. PICK j \in DOMAIN queue : queue'[i] = queue[j]
                BY <3>2
            <4>2. QED
                BY <1>1, <1>2, <2>1, <4>1 DEF QueueInv
        <3>3. QED
            BY <1>3, <3>1, <3>2
    <2>2. QED
        BY <1>1, <1>2, <1>3, <2>1 DEF QueueInv, Members
<1>9. QED
    BY <1>4, <1>5, <1>6, <1>8 DEF IInv

\* The last block a path shares with the verified chain, where both stand in
\* place: it has the same place in both, and no later block is verified.
LEMMA SharedFacts ==
    ASSUME NEW path \in Seq(Block), InPlace(path), NEW v \in Seq(Block), InPlace(v)
    PROVE  LET shared == {i \in DOMAIN v : v[i] \in Members(path)}
               common == IF shared = {} THEN 0
                         ELSE Least({i \in DOMAIN path : path[i] = v[Greatest(shared)]})
           IN  /\ common \in 0..Len(path)
               /\ \A k \in 1..Len(path) : k > common => path[k] \notin Members(v)
<1> DEFINE shared == {i \in DOMAIN v : v[i] \in Members(path)}
           g == Greatest(shared)
           places == {i \in DOMAIN path : path[i] = v[g]}
           common == IF shared = {} THEN 0 ELSE Least(places)
<1>1. /\ Len(path) \in Nat /\ DOMAIN path = 1..Len(path)
      /\ Len(v) \in Nat /\ DOMAIN v = 1..Len(v)
    BY LenProperties
<1>2. /\ \A i \in 1..Len(path) : Height[path[i]] = i - 1
      /\ \A i \in 1..Len(v) : Height[v[i]] = i - 1
    BY DEF InPlace
\* A block of both stands at the same place.
<1>3. ASSUME NEW k \in 1..Len(path), path[k] \in Members(v)
      PROVE  k \in shared
    <2>1. PICK i \in 1..Len(v) : v[i] = path[k]
        BY <1>3, MembersFacts
    <2>2. i = k
        BY <1>2, <2>1
    <2>3. path[k] \in Members(path)
        BY MembersFacts
    <2>4. QED
        BY <1>1, <2>1, <2>2, <2>3
<1>4. CASE shared = {}
    <2>1. common = 0
        BY <1>4
    <2>2. \A k \in 1..Len(path) : path[k] \notin Members(v)
        <3> HIDE DEF shared
        <3>1. QED
            BY <1>3, <1>4
    <2>3. QED
        BY <1>1, <2>1, <2>2
<1>5. CASE shared # {}
    <2>1. shared \in SUBSET Nat /\ \A i \in shared : i <= Len(v)
        BY <1>1
    <2>2. g \in shared /\ \A j \in shared : j <= g
        <3> HIDE DEF shared
        <3>1. QED
            BY <1>1, <1>5, <2>1, GreatestFacts
    <2>3. g \in 1..Len(v) /\ v[g] \in Members(path)
        BY <1>1, <2>2
    <2> HIDE DEF g
    <2>4. places \in SUBSET Nat /\ places # {}
        <3>1. \E i \in 1..Len(path) : path[i] = v[g]
            BY <2>3, MembersFacts
        <3>2. QED
            BY <1>1, <3>1
    <2>5. Least(places) \in places
        <3> HIDE DEF places
        <3>1. QED
            BY <2>4, LeastFacts
    <2>6. Least(places) \in 1..Len(path) /\ path[Least(places)] = v[g]
        BY <1>1, <2>5
    <2>7. common = Least(places)
        BY <1>5
    <2> HIDE DEF places, common, shared
    <2>8. common = g
        BY <1>1, <1>2, <2>3, <2>6, <2>7
    <2>9. ASSUME NEW k \in 1..Len(path), k > common PROVE path[k] \notin Members(v)
        BY <1>1, <1>3, <2>2, <2>3, <2>8, <2>9
    <2>10. common \in 0..Len(path)
        BY <1>1, <2>6, <2>7
    <2>11. QED
        BY <2>9, <2>10 DEF common, shared, places, g
<1>6. QED
    BY <1>4, <1>5

\* The controller enqueues blocks of the heaviest path.
LEMMA CommitHeaviestStep ==
    ASSUME IInv, ~integrityError, CommitHeaviest
    PROVE  IInv'
<1> DEFINE path    == best.path
           shared  == {i \in DOMAIN verified : verified[i] \in Members(path)}
           common  == IF shared = {} THEN 0
                      ELSE Least({i \in DOMAIN path : path[i] = verified[Greatest(shared)]})
           genesisFirst == leader = NoBlock \/ common = 0
           first   == IF genesisFirst THEN 1 ELSE common + 1
           height  == IF genesisFirst THEN 0
                      ELSE IF Height[leader] + 1 < first - 1 THEN Height[leader] + 1 ELSE first - 1
           ready(i) == path[i] \in stored /\ Height[best.proof[i]] = height + (i - first)
           runs    == {n \in (first - 1)..Len(path) : \A i \in first..n : ready(i)}
           upTo    == Greatest(runs)
           count   == IF upTo - first + 1 <= MaxQueue THEN upTo - first + 1 ELSE MaxQueue
           missing == {path[i] : i \in {i \in first..Len(path) :
                           path[i] \notin stored /\ (i = 1 \/ path[1] \in stored)}}
<1>1. /\ pc = "idle" /\ queue = <<>> /\ path # <<>>
      /\ queue' = [i \in 1..count |-> [block |-> path[first + i - 1], local |-> TRUE]]
      /\ hunted' = hunted \cup missing
    BY DEF CommitHeaviest
<1>2. /\ UNCHANGED <<best, guardian, verified, leader, verifiedWork, live, pc, current>>
      /\ UNCHANGED <<stored, executed, blacklist, cold>>
      /\ UNCHANGED <<received, mined, mishaps, integrityError, torn>>
    BY DEF CommitHeaviest, chain, storage, environment, faults
<1>3. /\ TypeOK /\ BestInv /\ ColdInv /\ ControlInv /\ QueueInv /\ VerifiedInv
      /\ HeaviestNotBlacklisted
    BY DEF IInv
<1>4. /\ path \in Seq(Block) /\ InPlace(path) /\ verified \in Seq(Block) /\ Linked(verified)
      /\ leader = Tip(verified) /\ Len(path) \in Nat
    BY <1>3, LenProperties DEF TypeOK, BestInv, Sound, VerifiedInv, VerifiedChain
<1>5. /\ common \in 0..Len(path)
      /\ \A k \in 1..Len(path) : k > common => path[k] \notin Members(verified)
    <2> HIDE DEF path
    <2>1. InPlace(verified)
        BY <1>4, LinkedInPlace
    <2>2. QED
        BY <1>4, <2>1, SharedFacts
<1> HIDE DEF path, shared, common
\* Nothing from the first place on is verified.
<1>6. /\ first \in 1..Len(path) + 1
      /\ \A k \in first..Len(path) : path[k] \notin Members(verified)
    <2>1. CASE leader = NoBlock
        <3>1. verified = <<>>
            BY <1>4, <2>1, TipFacts
        <3>2. Members(verified) = {}
            BY <3>1 DEF Members
        <3>3. QED
            BY <1>4, <2>1, <3>2
    <2>2. CASE leader # NoBlock
        BY <1>4, <1>5, <2>2
    <2>3. QED
        BY <2>1, <2>2
<1> HIDE DEF first, height
<1>7. upTo \in (first - 1)..Len(path) /\ \A i \in first..upTo : path[i] \in stored
    <2>1. first - 1 \in runs
        BY <1>4, <1>6
    <2>2. runs \in SUBSET Nat /\ \A n \in runs : n <= Len(path)
        BY <1>4, <1>6
    <2>3. upTo \in runs
        <3> HIDE DEF runs
        <3>1. QED
            BY <1>4, <2>1, <2>2, GreatestFacts
    <2> HIDE DEF upTo
    <2>4. QED
        BY <2>3
<1> HIDE DEF upTo
<1>8. MaxQueue \in Nat
    BY HeadersAssumption
<1>9. count \in 0..MaxQueue /\ first + count - 1 <= upTo
    BY <1>4, <1>6, <1>7, <1>8
<1> HIDE DEF count
<1>10. ASSUME NEW i \in 1..count
       PROVE  /\ first + i - 1 \in first..Len(path) /\ first + i - 1 \in 1..Len(path)
              /\ path[first + i - 1] \in Block /\ path[first + i - 1] \in stored
              /\ path[first + i - 1] \notin Members(verified)
              /\ Height[path[first + i - 1]] = first + i - 2
    <2>1. /\ first + i - 1 \in first..Len(path) /\ first + i - 1 \in first..upTo
          /\ first + i - 1 \in 1..Len(path)
        BY <1>4, <1>6, <1>7, <1>8, <1>9
    <2>2. Height[path[first + i - 1]] = (first + i - 1) - 1
        BY <1>4, <2>1 DEF InPlace
    <2>3. QED
        BY <1>4, <1>6, <1>7, <2>1, <2>2
<1>11. /\ DOMAIN queue' = 1..count /\ Len(queue') = count
       /\ queue' \in Seq(Entry)
       /\ \A i \in 1..count : queue'[i].block = path[first + i - 1]
    <2>1. \A i \in 1..count : [block |-> path[first + i - 1], local |-> TRUE] \in Entry
        BY <1>10 DEF Entry
    <2>2. count \in Nat
        BY <1>8, <1>9
    <2>3. QED
        BY <1>1, <2>1, <2>2
<1>12. missing \subseteq Block
    BY <1>4, <1>6
<1> HIDE DEF missing
<1>13. TypeOK'
    <2>1. hunted' \subseteq Block /\ Len(queue') <= MaxQueue
        BY <1>1, <1>3, <1>8, <1>9, <1>11, <1>12 DEF TypeOK
    <2>2. QED
        BY <1>2, <1>3, <1>11, <2>1 DEF TypeOK, Entry
<1>14. BestInv' /\ HeaviestNotBlacklisted' /\ ColdInv' /\ VerifiedInv'
    BY <1>2, <1>3, BestFrame, ColdFrame, VerifiedFrame
<1>15. ControlInv'
    BY <1>2, <1>3 DEF ControlInv, Reachable
<1>16. QueueInv'
    <2>1. ASSUME NEW i \in 1..count, NEW j \in 1..count, queue'[i].block = queue'[j].block
          PROVE  i = j
        <3>1. first + i - 2 = first + j - 2
            BY <1>10, <1>11, <2>1
        <3>2. QED
            BY <1>6, <3>1
    <2>2. ~current.local
        BY <1>1, <1>3 DEF ControlInv, NoEntry
    <2>3. ASSUME NEW i \in DOMAIN queue'
          PROVE  queue'[i].block \in stored \cup mined /\ queue'[i].block \notin Members(verified)
        BY <1>10, <1>11
    <2>4. \A i, j \in DOMAIN queue' : queue'[i].block = queue'[j].block => i = j
        BY <1>11, <2>1
    <2>5. ~current'.local /\ Members(verified)' = Members(verified)
        BY <1>2, <2>2 DEF Members
    <2>6. QED
        BY <1>2, <2>3, <2>4, <2>5 DEF QueueInv
<1>17. QED
    BY <1>13, <1>14, <1>15, <1>16 DEF IInv

\* The controller takes a block from the queue.
LEMMA PopBlockStep ==
    ASSUME IInv, ~integrityError, PopBlock
    PROVE  IInv'
<1> DEFINE e == Head(queue)
<1>1. /\ pc = "idle" /\ queue # <<>> /\ queue' = Tail(queue)
      /\ UNCHANGED <<verified, leader, verifiedWork, live, hunted>>
      /\ UNCHANGED <<stored, executed, blacklist, cold>>
      /\ UNCHANGED <<received, mined, mishaps>>
    BY DEF PopBlock, chain, storage, environment
<1>2. /\ TypeOK /\ BestInv /\ ColdInv /\ ControlInv /\ QueueInv /\ VerifiedInv
      /\ HeaviestNotBlacklisted
    BY DEF IInv
<1>3. /\ queue \in Seq(Entry) /\ Len(queue) <= MaxQueue /\ Len(queue) \in Nat /\ MaxQueue \in Nat
      /\ DOMAIN queue = 1..Len(queue)
    BY <1>2, LenProperties, HeadersAssumption DEF TypeOK, Entry
<1>4. /\ e \in Entry /\ queue' \in Seq(Entry) /\ Len(queue') = Len(queue) - 1
      /\ \A i \in 1..Len(queue') : queue'[i] = queue[i+1]
    BY <1>1, <1>3, HeadTailProperties
<1>5. 1 \in DOMAIN queue /\ e = queue[1] /\ DOMAIN queue' = 1..Len(queue) - 1
    BY <1>1, <1>3, <1>4, EmptySeq
<1> HIDE DEF e
<1>6. ASSUME NEW i \in DOMAIN queue'
      PROVE  i + 1 \in DOMAIN queue /\ queue'[i] = queue[i+1]
    BY <1>3, <1>4, <1>5
<1>7. current = NoEntry /\ ~current.local
    BY <1>1, <1>2 DEF ControlInv, NoEntry
\* Whatever the proof is offered, the heaviest one stays as it must be.
<1>8. /\ best' \in HeaviestType /\ BestInv' /\ HeaviestNotBlacklisted'
      /\ integrityError' \in BOOLEAN /\ torn' = torn
      /\ guardian' \in Peer \cup {Controller, Nobody}
    <2>1. CASE UNCHANGED <<best, guardian, integrityError, torn>>
        BY <1>1, <1>2, <2>1, BestFrame DEF TypeOK, HeaviestType
    <2>2. CASE /\ verifiedWork > best.work \/ Len(verified) > Len(best.proof)
               /\ Analyze(Controller, verified)
        <3>1. /\ verified \in Seq(Block) /\ Linked(verified)
              /\ verified = <<>> => verifiedWork = 0
              /\ best.work \in Nat /\ Len(best.proof) \in Nat
            BY <1>2, LenProperties DEF TypeOK, BestInv, VerifiedInv, VerifiedChain
        <3>2. verified # <<>>
            <4>1. SUFFICES ASSUME verified = <<>> PROVE FALSE
                OBVIOUS
            <4>2. Len(verified) = 0 /\ verifiedWork = 0
                BY <3>1, <4>1
            <4>3. QED
                BY <2>2, <3>1, <4>2
        <3>3. verified[1] = Genesis
            BY <3>1, <3>2, LinkedInPlace, InPlaceFacts
        <3>4. /\ best' \in HeaviestType /\ BestInv' /\ HeaviestNotBlacklisted'
              /\ integrityError' \in BOOLEAN /\ torn' = torn
              /\ guardian' \in {Controller, guardian}
            BY <1>1, <1>2, <2>2, <3>1, <3>2, <3>3, AnalyzeStep
        <3>5. QED
            BY <1>2, <3>4 DEF TypeOK
    <2>3. QED
        BY <2>1, <2>2 DEF PopBlock, faults
<1>9. \/ pc' = pc /\ current' = current
      \/ pc' = "validate" /\ current' = e /\ e.block \notin blacklist
    BY DEF PopBlock, e
<1>10. TypeOK'
    <2>1. Len(queue') <= MaxQueue
        BY <1>3, <1>4
    <2>2. pc' \in {"idle", "validate"} /\ current' \in Entry \cup {NoEntry}
        BY <1>1, <1>4, <1>7, <1>9
    <2>3. QED
        BY <1>1, <1>2, <1>4, <1>8, <2>1, <2>2 DEF TypeOK, Entry, HeaviestType
<1>11. ColdInv' /\ VerifiedInv'
    BY <1>1, <1>2, <1>8, ColdFrame, VerifiedFrame
<1>12. ControlInv'
    <2>1. CASE pc' = pc /\ current' = current
        BY <1>1, <1>2, <2>1 DEF ControlInv, Reachable
    <2>2. CASE pc' = "validate" /\ current' = e /\ e.block \notin blacklist
        <3>1. e # NoEntry
            BY <1>4, BlockFacts DEF Entry, NoEntry
        <3>2. QED
            BY <1>1, <1>2, <2>2, <3>1 DEF ControlInv
    <2>3. QED
        BY <1>9, <2>1, <2>2
<1>13. QueueInv'
    <2>1. ASSUME NEW i \in DOMAIN queue', NEW j \in DOMAIN queue',
                 queue'[i].block = queue'[j].block
          PROVE  i = j
        <3>1. i + 1 = j + 1
            BY <1>2, <1>6, <2>1 DEF QueueInv
        <3>2. QED
            BY <1>3, <1>5, <3>1
    <2>2. ASSUME NEW i \in DOMAIN queue'
          PROVE  /\ queue'[i].block # e.block
                 /\ queue'[i].local => /\ queue'[i].block \in stored \cup mined
                                       /\ queue'[i].block \notin Members(verified)
        <3>1. i + 1 # 1
            BY <1>3, <1>5
        <3>2. QED
            BY <1>2, <1>5, <1>6, <3>1 DEF QueueInv
    <2>3. e.local => e.block \in stored \cup mined /\ e.block \notin Members(verified)
        BY <1>2, <1>5 DEF QueueInv
    <2>4. CASE current' = NoEntry
        <3>1. ~current'.local
            BY <2>4 DEF NoEntry
        <3>2. QED
            BY <1>1, <2>1, <2>2, <3>1 DEF QueueInv, Members
    <2>5. CASE current' = e
        BY <1>1, <2>1, <2>2, <2>3, <2>5 DEF QueueInv, Members
    <2>6. QED
        BY <1>7, <1>9, <2>4, <2>5
<1>14. QED
    BY <1>8, <1>10, <1>11, <1>12, <1>13 DEF IInv

\* validateBlock() ends, with a leader or without.
LEMMA ValidateStep ==
    ASSUME IInv, ValidateLeader \/ ValidateNoLeader
    PROVE  IInv'
<1>1. /\ UNCHANGED <<best, guardian, verified, leader, verifiedWork, live>>
      /\ UNCHANGED <<hunted, queue, current, stored, executed, blacklist, cold>>
      /\ UNCHANGED <<received, mined, mishaps, integrityError, torn>>
      /\ pc = "validate"
      /\ \/ /\ pc' = "append" /\ current.local
            /\ Reachable(current.block) /\ current.block \notin Bad
         \/ pc' = "reject"
    BY DEF ValidateLeader, ValidateNoLeader, chain, storage, environment, faults
<1>2. /\ TypeOK /\ BestInv /\ ColdInv /\ ControlInv /\ QueueInv /\ VerifiedInv
      /\ HeaviestNotBlacklisted
    BY DEF IInv
<1>3. TypeOK'
    BY <1>1, <1>2 DEF TypeOK
<1>4. BestInv' /\ HeaviestNotBlacklisted' /\ ColdInv' /\ VerifiedInv' /\ QueueInv'
    BY <1>1, <1>2, BestFrame, ColdFrame, VerifiedFrame, QueueFrame
<1>5. ControlInv'
    BY <1>1, <1>2 DEF ControlInv, Reachable
<1>6. QED
    BY <1>3, <1>4, <1>5 DEF IInv

\* The leader is given up for its parent: the verified chain is cut before the
\* parent, and the parent proclaimed again.
LEMMA RepairFacts ==
    ASSUME TypeOK, VerifiedInv, leader # NoBlock, Height[leader] > 1,
           SetLeader(SubSeq(verified, 1, Height[leader] - 1), Parent[leader])
    PROVE  /\ Parent[leader] \in Block /\ Parent[leader] \in Members(verified)
           /\ verified' \in Seq(Block) /\ Linked(verified') /\ leader' = Tip(verified')
           /\ Members(verified') \subseteq Members(verified)
           /\ verified' # <<>> /\ verifiedWork' = Work[leader']
           /\ best' = ExtendHeaviest(Parent[leader])
<1> DEFINE n == Height[leader] - 1
           v == SubSeq(verified, 1, n)
           b == Parent[leader]
<1>1. /\ verified \in Seq(Block) /\ Linked(verified) /\ leader = Tip(verified)
      /\ Members(verified) \cap blacklist = {}
    BY DEF TypeOK, VerifiedInv, VerifiedChain
<1>2. verified # <<>>
    BY <1>1, TipFacts
<1>3. /\ Len(verified) \in 1..Len(verified) /\ leader = verified[Len(verified)]
      /\ leader \in Block /\ Height[leader] = Len(verified) - 1
    BY <1>1, <1>2, TipFacts, LinkedInPlace
<1>4. /\ n + 1 \in 1..Len(verified) /\ n + 1 = Len(verified) - 1 /\ n \in 1..Len(verified)
      /\ n \in 0..Len(verified) /\ n \in 1..n
    BY <1>3
<1>5. b = verified[n + 1] /\ Parent[verified[n + 1]] = verified[n]
    BY <1>1, <1>3, <1>4 DEF Linked
<1>6. b \in Block /\ b \in Members(verified) /\ b \notin blacklist /\ Height[b] = n
    BY <1>1, <1>4, <1>5, MembersFacts DEF Linked
<1> HIDE DEF n
<1>7. v \in Seq(Block) /\ Len(v) = n /\ (\A i \in 1..n : v[i] = verified[i])
    BY <1>1, <1>4, CutFacts
<1>8. Linked(v) /\ Members(v) \subseteq Members(verified)
    BY <1>1, <1>4, CutChain
<1>9. SetLeader(v, b)
    BY DEF n
<1> HIDE DEF v, b
<1>10. v # <<>> /\ Parent[b] = v[n] /\ Tip(v) = v[n] /\ v[n] \in Members(v)
    <2>1. v # <<>>
        BY <1>4, <1>7, EmptySeq
    <2>2. QED
        BY <1>4, <1>5, <1>7, <2>1, MembersFacts DEF Tip
<1>11. Height[v[n]] = n - 1
    BY <1>4, <1>7, <1>8 DEF Linked
<1>12. b # Tip(v)
    BY <1>4, <1>6, <1>10, <1>11
<1>13. /\ verified' \in Seq(Block) /\ Linked(verified') /\ leader' = Tip(verified')
       /\ Members(verified') \subseteq Members(v) \cup {b}
       /\ \/ /\ b = Tip(v) \/ (b # Genesis /\ Parent[b] \notin Members(v))
             /\ verified' = v /\ verifiedWork' = verifiedWork /\ best' = best
          \/ /\ verified' # <<>> /\ leader' = b /\ verifiedWork' = Work[b]
             /\ best' = ExtendHeaviest(b)
    BY <1>1, <1>6, <1>7, <1>8, <1>9, SetLeaderFacts
<1>14. QED
    BY <1>6, <1>8, <1>10, <1>12, <1>13 DEF b

\* The Flow of a leader candidate cannot be started.
LEMMA UnableToStartFlowStep ==
    ASSUME IInv, ~integrityError, ValidateUnableToStartFlow
    PROVE  IInv'
<1>1. /\ UNCHANGED <<guardian, live, hunted, queue, current>>
      /\ UNCHANGED <<stored, executed, blacklist, cold>>
      /\ UNCHANGED <<received, mined, integrityError, torn>>
      /\ pc = "validate" /\ pc' = "reject"
    BY DEF ValidateUnableToStartFlow, storage, faults
<1>2. /\ TypeOK /\ BestInv /\ ColdInv /\ ControlInv /\ QueueInv /\ VerifiedInv
      /\ HeaviestNotBlacklisted
    BY DEF IInv
<1>3. mishaps' \in Nat
    BY <1>2 DEF ValidateUnableToStartFlow, TypeOK
<1>4. leader # NoBlock
    BY DEF ValidateUnableToStartFlow, MayLead
<1>5. ControlInv'
    BY <1>1, <1>2 DEF ControlInv
<1>6. ColdInv'
    BY <1>1, <1>2, ColdFrame
<1>7. CASE UNCHANGED <<best, verified, leader, verifiedWork>>
    <2>1. TypeOK'
        BY <1>1, <1>2, <1>3, <1>7 DEF TypeOK
    <2>2. BestInv' /\ HeaviestNotBlacklisted' /\ VerifiedInv' /\ QueueInv'
        BY <1>1, <1>2, <1>7, BestFrame, VerifiedFrame, QueueFrame
    <2>3. QED
        BY <1>5, <1>6, <2>1, <2>2 DEF IInv
<1>8. CASE /\ Height[leader] > 1
           /\ SetLeader(SubSeq(verified, 1, Height[leader] - 1), Parent[leader])
    <2> DEFINE b == Parent[leader]
    <2>1. /\ b \in Block /\ b \in Members(verified)
          /\ verified' \in Seq(Block) /\ Linked(verified') /\ leader' = Tip(verified')
          /\ Members(verified') \subseteq Members(verified)
          /\ verified' # <<>> /\ verifiedWork' = Work[leader']
          /\ best' = ExtendHeaviest(b)
        BY <1>2, <1>4, <1>8, RepairFacts
    <2>2. best \in HeaviestType /\ Sound(best) /\ best.work \in Nat
        BY <1>2 DEF TypeOK, HeaviestType, BestInv
    <2>3. /\ best' \in HeaviestType /\ Sound(best') /\ best'.work \in Nat
          /\ Coherent(best) => Coherent(best')
          /\ Members(best'.proof) \subseteq Members(best.proof) \cup {b}
        BY <2>1, <2>2, ExtendFacts
    <2>4. Members(best'.proof) \cap blacklist' = {}
        BY <1>1, <1>2, <2>1, <2>3 DEF VerifiedInv, HeaviestNotBlacklisted
    <2>5. BestInv' /\ HeaviestNotBlacklisted'
        BY <1>1, <1>2, <2>3, <2>4, RebuiltStep
    <2>6. leader' \in Block /\ Work[leader'] \in Nat
        BY <2>1, TipFacts, BlockFacts
    <2>7. TypeOK'
        <3>1. /\ best' \in HeaviestType /\ verified' \in Seq(Block)
              /\ leader' \in Block /\ verifiedWork' \in Int
            BY <2>1, <2>3, <2>6
        <3>2. QED
            BY <1>1, <1>2, <1>3, <3>1 DEF TypeOK, HeaviestType
    <2>8. VerifiedInv'
        <3>1. Members(verified') \subseteq executed \ Bad /\ Members(verified') \cap blacklist = {}
            BY <1>2, <2>1 DEF VerifiedInv, VerifiedChain
        <3>2. QED
            BY <1>1, <2>1, <3>1 DEF VerifiedInv, VerifiedChain, Linked, Tip, Members
    <2>9. QueueInv'
        <3>1. \A x : x \notin Members(verified) => x \notin Members(verified')
            BY <2>1
        <3>2. QED
            BY <1>1, <1>2, <3>1 DEF QueueInv, Members
    <2>10. QED
        BY <1>5, <1>6, <2>5, <2>7, <2>8, <2>9 DEF IInv
<1>9. QED
    BY <1>7, <1>8 DEF ValidateUnableToStartFlow

\* The block is committed and proclaimed.
LEMMA AppendBlockStep ==
    ASSUME IInv, ~integrityError, AppendBlock
    PROVE  IInv'
<1> DEFINE b == current.block
<1>1. /\ UNCHANGED <<guardian, hunted, queue, blacklist, cold>>
      /\ UNCHANGED <<received, mined, mishaps, integrityError, torn>>
      /\ pc = "append" /\ pc' = "idle" /\ current' = NoEntry
      /\ stored' = stored \cup {b} /\ executed' = executed \cup {b} /\ live' = b
      /\ SetLeader(verified, b)
    BY DEF AppendBlock, environment, faults
<1>2. /\ TypeOK /\ BestInv /\ ColdInv /\ ControlInv /\ QueueInv /\ VerifiedInv
      /\ HeaviestNotBlacklisted
    BY DEF IInv
<1>3. /\ current \in Entry /\ current.local /\ Reachable(b) /\ b \notin Bad
      /\ b \notin blacklist
    BY <1>1, <1>2 DEF TypeOK, Entry, ControlInv
<1>4. b \in Block
    BY <1>3 DEF Entry
<1>5. /\ verified \in Seq(Block) /\ Linked(verified) /\ Members(verified) \cap blacklist = {}
      /\ Members(verified) \subseteq executed \ Bad
      /\ leader = Tip(verified)
      /\ leader # NoBlock => verifiedWork = Work[leader]
      /\ verified = <<>> => verifiedWork = 0
      /\ verifiedWork \in Int
    BY <1>2 DEF TypeOK, VerifiedInv, VerifiedChain
<1> HIDE DEF b
<1>6. /\ verified' \in Seq(Block) /\ Linked(verified') /\ leader' = Tip(verified')
      /\ Members(verified') \subseteq Members(verified) \cup {b}
      /\ \/ /\ b = Tip(verified) \/ (b # Genesis /\ Parent[b] \notin Members(verified))
            /\ verified' = verified /\ verifiedWork' = verifiedWork /\ best' = best
         \/ /\ verified' # <<>> /\ leader' = b /\ verifiedWork' = Work[b]
            /\ best' = ExtendHeaviest(b)
    BY <1>1, <1>3, <1>4, <1>5, SetLeaderFacts
<1>7. best \in HeaviestType /\ Sound(best) /\ best.work \in Nat
    BY <1>2 DEF TypeOK, HeaviestType, BestInv
<1>8. /\ best' \in HeaviestType /\ Sound(best') /\ best'.work \in Nat
      /\ Coherent(best) => Coherent(best')
      /\ Members(best'.proof) \subseteq Members(best.proof) \cup {b}
    <2>1. CASE best' = best
        BY <1>7, <2>1
    <2>2. CASE best' = ExtendHeaviest(b)
        BY <1>4, <1>7, <2>2, ExtendFacts
    <2>3. QED
        BY <1>6, <2>1, <2>2
<1>9. BestInv' /\ HeaviestNotBlacklisted'
    <2>1. Members(best'.proof) \cap blacklist' = {}
        BY <1>1, <1>2, <1>3, <1>8 DEF HeaviestNotBlacklisted
    <2>2. QED
        BY <1>1, <1>2, <1>8, <2>1, RebuiltStep
<1>10. leader' \in Block \cup {NoBlock} /\ verifiedWork' \in Int
    BY <1>4, <1>5, <1>6, TipFacts, BlockFacts
<1>11. TypeOK'
    BY <1>1, <1>2, <1>4, <1>6, <1>8, <1>10 DEF TypeOK, HeaviestType
<1>12. ColdInv'
    BY <1>1, <1>2, ColdFrame
<1>13. ControlInv'
    BY <1>1, <1>2 DEF ControlInv
<1>14. VerifiedInv'
    <2>1. Members(verified') \subseteq executed' \ Bad /\ Members(verified') \cap blacklist' = {}
        BY <1>1, <1>3, <1>5, <1>6
    <2>2. leader' # NoBlock => verifiedWork' = Work[leader']
        BY <1>5, <1>6
    <2>3. verified' = <<>> => verifiedWork' = 0
        BY <1>5, <1>6
    <2>4. QED
        BY <1>6, <2>1, <2>2, <2>3 DEF VerifiedInv, VerifiedChain, Linked, Tip, Members
<1>15. QueueInv'
    <2>1. ~current'.local
        BY <1>1 DEF NoEntry
    <2>2. ASSUME NEW i \in DOMAIN queue, queue[i].local
          PROVE  queue[i].block \in stored' \cup mined' /\ queue[i].block \notin Members(verified')
        BY <1>1, <1>2, <1>3, <1>6, <2>2 DEF QueueInv, b
    <2>3. QED
        BY <1>1, <1>2, <2>1, <2>2 DEF QueueInv, Members
<1>16. QED
    BY <1>9, <1>11, <1>12, <1>13, <1>14, <1>15 DEF IInv

\* The second Flow of the block fails.
LEMMA AppendFailsStep ==
    ASSUME IInv, AppendFails
    PROVE  IInv'
<1>1. /\ UNCHANGED <<best, guardian, verified, leader, verifiedWork, live>>
      /\ UNCHANGED <<hunted, queue, executed, blacklist, cold>>
      /\ UNCHANGED <<received, mined, integrityError, torn>>
      /\ pc = "append" /\ pc' = "idle" /\ current' = NoEntry
      /\ stored' = stored \cup {current.block} /\ mishaps' = mishaps + 1
    BY DEF AppendFails, chain, faults
<1>2. /\ TypeOK /\ BestInv /\ ColdInv /\ ControlInv /\ QueueInv /\ VerifiedInv
      /\ HeaviestNotBlacklisted
    BY DEF IInv
<1>3. current.block \in Block
    BY <1>1, <1>2 DEF TypeOK, ControlInv
<1>4. TypeOK'
    BY <1>1, <1>2, <1>3 DEF TypeOK
<1>5. BestInv' /\ HeaviestNotBlacklisted' /\ ColdInv' /\ VerifiedInv' /\ QueueInv'
    BY <1>1, <1>2, BestFrame, ColdFrame, VerifiedFrame, QueueFrame
<1>6. ControlInv'
    BY <1>1, <1>2 DEF ControlInv
<1>7. QED
    BY <1>4, <1>5, <1>6 DEF IInv

\* A block that is no leader is refused, with its queued offspring.
LEMMA RejectBlockStep ==
    ASSUME IInv, ~integrityError, RejectBlock
    PROVE  IInv'
<1> DEFINE b == current.block
           lost == Offspring(b)
<1>1. /\ UNCHANGED <<guardian, verified, leader, verifiedWork, live, hunted, executed, cold>>
      /\ UNCHANGED <<received, mined, mishaps, integrityError, torn>>
      /\ pc = "reject" /\ pc' = "idle" /\ current' = NoEntry
      /\ stored' = stored \/ stored' = stored \cup {b}
      /\ queue' = IF current.local THEN SubSeq(queue, lost + 1, Len(queue)) ELSE queue
      /\ \/ current.local /\ b \in Members(best.path)
            /\ best' = Immunised(b) /\ blacklist' = blacklist \cup {b}
         \/ best' = best /\ blacklist' = blacklist
    BY DEF RejectBlock, chain, environment, faults
<1>2. /\ TypeOK /\ BestInv /\ ColdInv /\ ControlInv /\ QueueInv /\ VerifiedInv
      /\ HeaviestNotBlacklisted
    BY DEF IInv
<1>3. b \in Block
    BY <1>1, <1>2 DEF TypeOK, ControlInv
<1>4. queue \in Seq(Entry) /\ Len(queue) \in Nat /\ DOMAIN queue = 1..Len(queue)
    BY <1>2, LenProperties DEF TypeOK, Entry
<1>5. lost \in 0..Len(queue)
    <2> DEFINE previous(i) == IF i = 1 THEN b ELSE queue[i-1].block
               runs == {n \in 0..Len(queue) : \A i \in 1..n :
                            /\ previous(i) \in Members(best.path)
                            /\ Parent[queue[i].block] = previous(i)
                            /\ queue[i].local}
    <2>1. 0 \in runs
        BY <1>4
    <2>2. runs \in SUBSET Nat /\ \A n \in runs : n <= Len(queue)
        BY <1>4
    <2>3. lost = Greatest(runs)
        BY DEF Offspring
    <2>4. Greatest(runs) \in runs
        <3> HIDE DEF runs
        <3>1. QED
            BY <1>4, <2>1, <2>2, GreatestFacts
    <2>5. QED
        BY <2>3, <2>4
<1> HIDE DEF lost
\* What is left of the queue.
<1>6. PICK n \in 0..Len(queue) :
         /\ queue' \in Seq(Entry) /\ Len(queue') = Len(queue) - n
         /\ \A i \in 1..Len(queue) - n : n + i \in 1..Len(queue) /\ queue'[i] = queue[n + i]
    <2>1. CASE queue' = queue
        <3>1. 0 \in 0..Len(queue) /\ Len(queue') = Len(queue) - 0
            BY <1>4, <2>1
        <3>2. \A i \in 1..Len(queue) - 0 : 0 + i \in 1..Len(queue) /\ queue'[i] = queue[0 + i]
            BY <1>4, <2>1
        <3>3. QED
            BY <1>4, <2>1, <3>1, <3>2
    <2>2. CASE queue' = SubSeq(queue, lost + 1, Len(queue))
        BY <1>4, <1>5, <2>2, DropFacts
    <2>3. QED
        BY <1>1, <2>1, <2>2
<1>7. DOMAIN queue' = 1..Len(queue) - n
    BY <1>6, LenProperties
\* The heaviest proof loses the block.
<1>8. best' \in HeaviestType /\ BestInv' /\ HeaviestNotBlacklisted'
    <2>1. CASE best' = best /\ blacklist' = blacklist
        BY <1>1, <1>2, <2>1, BestFrame DEF TypeOK, HeaviestType
    <2>2. CASE /\ b \in Members(best.path)
               /\ best' = Immunised(b) /\ blacklist' = blacklist \cup {b}
        <3>1. best \in HeaviestType /\ Sound(best) /\ best.work \in Nat
            BY <1>2 DEF TypeOK, HeaviestType, BestInv
        <3>2. /\ best' \in HeaviestType /\ Sound(best') /\ best'.work \in Nat
              /\ Coherent(best) => Coherent(best')
              /\ Members(best'.proof) \subseteq Members(best.proof) \ {b}
            BY <1>3, <2>2, <3>1, ImmunisedFacts
        <3>3. Members(best'.proof) \cap blacklist' = {}
            BY <1>2, <2>2, <3>2 DEF HeaviestNotBlacklisted
        <3>4. QED
            BY <1>1, <1>2, <3>2, <3>3, RebuiltStep
    <2>3. QED
        BY <1>1, <2>1, <2>2
<1>9. blacklist' \subseteq Block /\ stored' \subseteq Block
    BY <1>1, <1>2, <1>3 DEF TypeOK
<1>10. TypeOK'
    <2>1. Len(queue') <= MaxQueue
        BY <1>2, <1>4, <1>6, HeadersAssumption DEF TypeOK
    <2>2. QED
        BY <1>1, <1>2, <1>6, <1>8, <1>9, <2>1 DEF TypeOK, Entry, HeaviestType
<1>11. ColdInv'
    BY <1>1, <1>2, ColdFrame
<1>12. ControlInv'
    BY <1>1, <1>2 DEF ControlInv
\* A block that was scheduled and fails has not been verified before.
<1>13. VerifiedInv'
    <2>1. Members(verified) \cap blacklist' = {}
        BY <1>1, <1>2 DEF VerifiedInv, QueueInv
    <2>2. QED
        BY <1>1, <1>2, <2>1 DEF VerifiedInv, VerifiedChain, Linked, Tip, Members
<1>14. QueueInv'
    <2>1. ASSUME NEW i \in DOMAIN queue', NEW j \in DOMAIN queue',
                 queue'[i].block = queue'[j].block
          PROVE  i = j
        <3>1. /\ n + i \in DOMAIN queue /\ queue'[i] = queue[n + i]
              /\ n + j \in DOMAIN queue /\ queue'[j] = queue[n + j]
            BY <1>4, <1>6, <1>7
        <3>2. n + i = n + j
            BY <1>2, <2>1, <3>1 DEF QueueInv
        <3>3. QED
            BY <1>4, <1>7, <3>2
    <2>2. ASSUME NEW i \in DOMAIN queue', queue'[i].local
          PROVE  queue'[i].block \in stored' \cup mined /\ queue'[i].block \notin Members(verified)
        BY <1>1, <1>2, <1>4, <1>6, <1>7, <2>2 DEF QueueInv
    <2>3. ~current'.local
        BY <1>1 DEF NoEntry
    <2>4. Members(verified)' = Members(verified) /\ mined' = mined
        BY <1>1 DEF Members
    <2>5. QED
        BY <2>1, <2>2, <2>3, <2>4 DEF QueueInv
<1>15. QED
    BY <1>8, <1>10, <1>11, <1>12, <1>13, <1>14 DEF IInv

\* An entry of the blacklist expires.
LEMMA ExpireStep ==
    ASSUME IInv, NEW b \in Block, ExpireBlacklisting(b)
    PROVE  IInv'
<1>1. /\ UNCHANGED <<best, guardian, verified, leader, verifiedWork, live>>
      /\ UNCHANGED <<hunted, queue, pc, current, stored, executed, cold>>
      /\ UNCHANGED <<received, mined, mishaps, integrityError, torn>>
      /\ blacklist' = blacklist \ {b}
    BY DEF ExpireBlacklisting, chain, processing, environment, faults
<1>2. /\ TypeOK /\ BestInv /\ ColdInv /\ ControlInv /\ QueueInv /\ VerifiedInv
      /\ HeaviestNotBlacklisted
    BY DEF IInv
<1>3. TypeOK'
    BY <1>1, <1>2 DEF TypeOK
<1>4. blacklist' \subseteq blacklist
    BY <1>1
<1>5. BestInv' /\ HeaviestNotBlacklisted' /\ ColdInv' /\ VerifiedInv' /\ QueueInv'
    BY <1>1, <1>2, <1>4, BestFrame, ColdFrame, VerifiedFrame, QueueFrame
<1>6. ControlInv'
    BY <1>1, <1>2 DEF ControlInv, Reachable
<1>7. QED
    BY <1>3, <1>5, <1>6 DEF IInv

\* A chain-proof is saved.
LEMMA SyncStep ==
    ASSUME IInv, ~integrityError, SyncVerified \/ SyncHeaviest
    PROVE  IInv'
<1>1. /\ UNCHANGED <<best, guardian, verified, leader, verifiedWork, live>>
      /\ UNCHANGED <<hunted, queue, pc, current, stored, executed, blacklist>>
      /\ UNCHANGED <<received, mined, mishaps, integrityError, torn>>
      /\ \/ cold' = [cold EXCEPT !.verified = verified]
         \/ cold' = [cold EXCEPT !.proof = best.proof, !.path = best.path]
    BY DEF SyncVerified, SyncHeaviest, chain, processing, environment, faults
<1>2. /\ TypeOK /\ BestInv /\ ColdInv /\ ControlInv /\ QueueInv /\ VerifiedInv
      /\ HeaviestNotBlacklisted
    BY DEF IInv
<1>3. /\ cold \in ColdType /\ verified \in Seq(Block)
      /\ best.proof \in Seq(Block) /\ best.path \in Seq(Block)
    BY <1>2 DEF TypeOK, ColdType
<1>4. /\ cold' \in ColdType
      /\ \/ cold'.verified = cold.verified
         \/ cold'.verified = verified
      /\ \/ cold'.proof = cold.proof /\ cold'.path = cold.path
         \/ cold'.proof = best.proof /\ cold'.path = best.path
    BY <1>1, <1>3 DEF ColdType
<1>5. TypeOK'
    BY <1>1, <1>2, <1>4 DEF TypeOK, ColdType
<1>6. BestInv' /\ HeaviestNotBlacklisted' /\ VerifiedInv' /\ QueueInv'
    BY <1>1, <1>2, BestFrame, VerifiedFrame, QueueFrame
<1>7. ControlInv'
    BY <1>1, <1>2 DEF ControlInv, Reachable
<1>8. ColdInv'
    <2>1. Linked(cold'.verified) /\ Members(cold'.verified) \subseteq executed \ Bad
        BY <1>2, <1>4 DEF ColdInv, VerifiedInv, VerifiedChain
    <2>2. /\ InPlace(best.proof) /\ InPlace(best.path)
          /\ ~torn => Linked(best.proof) /\ best.path = best.proof
        BY <1>2 DEF BestInv, Sound, Coherent
    <2>3. /\ InPlace(cold'.proof) /\ InPlace(cold'.path)
          /\ ~torn => Linked(cold'.proof) /\ cold'.path = cold'.proof
        BY <1>2, <1>4, <2>2 DEF ColdInv
    <2>4. QED
        BY <1>1, <2>1, <2>3 DEF ColdInv, InPlace, Linked, Members
<1>9. QED
    BY <1>5, <1>6, <1>7, <1>8 DEF IInv

\* Cold Storage is sound wherever the node stops.
LEMMA SavedFacts ==
    ASSUME IInv, NEW c \in ColdAtCrash
    PROVE  /\ SoundCold(c)
           /\ c.verified = cold.verified /\ c.path = cold.path
<1>1. c = cold \/ c = [cold EXCEPT !.proof = best.proof]
    BY DEF ColdAtCrash
<1>2. cold \in ColdType /\ best.proof \in Seq(Block) /\ ColdInv /\ BestInv
    BY DEF IInv, TypeOK, ColdType
<1>3. /\ c \in ColdType /\ c.verified = cold.verified /\ c.path = cold.path
      /\ c.proof = cold.proof \/ c.proof = best.proof
    BY <1>1, <1>2 DEF ColdType
<1>4. Linked(c.verified) /\ InPlace(c.proof) /\ InPlace(c.path)
    BY <1>2, <1>3 DEF ColdInv, BestInv
<1>5. QED
    BY <1>3, <1>4 DEF SoundCold

\* The node stops and starts again.
LEMMA RestartStep ==
    ASSUME IInv, NEW c \in ColdAtCrash, Restart(c)
    PROVE  IInv'
<1>1. /\ UNCHANGED <<stored, executed, received, mined>>
      /\ mishaps' = mishaps + 1
      /\ verified' = c.verified /\ leader' = Tip(c.verified) /\ live' = Tip(c.verified)
      /\ verifiedWork' = WorkOf(c.verified)
      /\ best' = CrossCompared(c, WorkOf(c.verified))
      /\ guardian' = Nobody
      /\ hunted' = {} /\ queue' = <<>> /\ pc' = "idle" /\ current' = NoEntry
      /\ blacklist' = {} /\ cold' = c
      /\ integrityError' = FALSE /\ torn' = (torn \/ c # cold)
    BY DEF Restart, WorkOf
<1>2. /\ TypeOK /\ BestInv /\ ColdInv /\ ControlInv /\ QueueInv /\ VerifiedInv
      /\ HeaviestNotBlacklisted
    BY DEF IInv
<1>3. SoundCold(c) /\ c.verified = cold.verified
    BY SavedFacts
<1>4. c \in ColdType
    BY <1>3 DEF SoundCold
<1>5. /\ Linked(c.verified) /\ Members(c.verified) \subseteq executed \ Bad
      /\ InPlace(c.proof) /\ InPlace(c.path)
    BY <1>2, <1>3 DEF ColdInv, SoundCold
<1>6. ~torn' => ~torn /\ c = cold
    BY <1>1
<1>7. ~torn' => Linked(c.proof) /\ c.path = c.proof
    BY <1>2, <1>6 DEF ColdInv
<1>8. /\ best' \in HeaviestType /\ Sound(best') /\ best'.work \in Nat
      /\ c.path = c.proof => Coherent(best')
    BY <1>1, <1>3, ComparedFacts
<1>9. BestInv'
    <2>1. ASSUME NEW h, Sound(h) PROVE InPlace(h.proof)
        BY <2>1 DEF Sound
    <2>2. ASSUME NEW h, Coherent(h) PROVE Linked(h.proof)
        BY <2>2 DEF Coherent
    <2>3. Sound(best') /\ InPlace(best'.proof) /\ best'.work \in Nat
        BY <1>8, <2>1
    <2>4. ~torn' => Coherent(best') /\ Linked(best'.proof)
        BY <1>7, <1>8, <2>2
    <2>5. QED
        BY <2>3, <2>4 DEF BestInv
<1>10. c.verified \in Seq(Block)
    BY <1>4 DEF ColdType
<1>11. /\ Tip(c.verified) \in Block \cup {NoBlock}
       /\ WorkOf(c.verified) \in Int
       /\ Tip(c.verified) # NoBlock => WorkOf(c.verified) = Work[Tip(c.verified)]
       /\ c.verified = <<>> => WorkOf(c.verified) = 0
    <2>1. CASE c.verified = <<>>
        <3>1. Tip(c.verified) = NoBlock /\ WorkOf(c.verified) = 0
            BY <2>1 DEF Tip, WorkOf
        <3>2. QED
            BY <3>1
    <2>2. CASE c.verified # <<>>
        <3>1. c.verified[1] = Genesis
            BY <1>5, <1>10, <2>2, LinkedInPlace, InPlaceFacts
        <3>2. /\ Len(c.verified) \in 1..Len(c.verified) /\ Tip(c.verified) \in Block
              /\ Tip(c.verified) = c.verified[Len(c.verified)]
            BY <1>10, <2>2, TipFacts
        <3>3. WorkOf(c.verified) = Work[Tip(c.verified)] /\ WorkOf(c.verified) \in Nat
            BY <1>10, <2>2, <3>1, <3>2, CumulativeIsWork DEF WorkOf
        <3>4. QED
            BY <2>2, <3>2, <3>3
    <2>3. QED
        BY <2>1, <2>2
<1>12. TypeOK'
    <2>1. queue' \in Seq([block : Block, local : BOOLEAN]) /\ Len(queue') <= MaxQueue
        BY <1>1, HeadersAssumption
    <2>2. torn' \in BOOLEAN /\ integrityError' \in BOOLEAN
        BY <1>1
    <2>3. /\ best' \in [proof : Seq(Block), path : Seq(Block), works : Seq(Int), work : Int]
          /\ cold' \in [verified : Seq(Block), proof : Seq(Block), path : Seq(Block)]
        <3>1. best' \in HeaviestType /\ cold' \in ColdType
            BY <1>1, <1>4, <1>8
        <3>2. QED
            BY <3>1 DEF HeaviestType, ColdType
    <2>4. /\ verified' \in Seq(Block) /\ leader' \in Block \cup {NoBlock}
          /\ verifiedWork' \in Int /\ live' \in Block \cup {NoBlock}
        BY <1>1, <1>10, <1>11
    <2>5. /\ guardian' \in Peer \cup {Controller, Nobody} /\ hunted' \subseteq Block
          /\ pc' \in {"idle", "validate", "append", "reject"}
          /\ current' \in [block : Block, local : BOOLEAN] \cup {NoEntry}
          /\ blacklist' \subseteq Block
        BY <1>1
    <2>6. /\ stored' \subseteq Block /\ executed' \subseteq Block
          /\ received' \in Nat /\ mined' \subseteq Minable /\ mishaps' \in Nat
        BY <1>1, <1>2 DEF TypeOK
    <2>7. QED
        BY <2>1, <2>2, <2>3, <2>4, <2>5, <2>6 DEF TypeOK
<1>13. ColdInv'
    BY <1>1, <1>5, <1>7 DEF ColdInv, InPlace, Linked, Members
<1>14. ControlInv'
    BY <1>1, <1>2 DEF ControlInv
<1>15. QueueInv'
    <2>1. DOMAIN queue' = {} /\ ~current'.local
        BY <1>1 DEF NoEntry
    <2>2. QED
        BY <2>1 DEF QueueInv
<1>16. VerifiedInv'
    BY <1>1, <1>5, <1>11 DEF VerifiedInv, VerifiedChain, Linked, Tip, Members
<1>17. HeaviestNotBlacklisted'
    BY <1>1 DEF HeaviestNotBlacklisted
<1>18. QED
    BY <1>9, <1>12, <1>13, <1>14, <1>15, <1>16, <1>17 DEF IInv

\* A step in which nothing changes.
LEMMA StutterStep ==
    ASSUME IInv, UNCHANGED vars
    PROVE  IInv'
<1>1. /\ UNCHANGED <<best, guardian, verified, leader, verifiedWork, live>>
      /\ UNCHANGED <<hunted, queue, pc, current, stored, executed, blacklist, cold>>
      /\ UNCHANGED <<received, mined, mishaps, integrityError, torn>>
    BY DEF vars, chain, processing, storage, environment, faults
<1>2. /\ TypeOK /\ BestInv /\ ColdInv /\ ControlInv /\ QueueInv /\ VerifiedInv
      /\ HeaviestNotBlacklisted
    BY DEF IInv
<1>3. TypeOK'
    BY <1>1, <1>2 DEF TypeOK
<1>4. BestInv' /\ HeaviestNotBlacklisted' /\ ColdInv' /\ VerifiedInv' /\ QueueInv'
    BY <1>1, <1>2, BestFrame, ColdFrame, VerifiedFrame, QueueFrame
<1>5. ControlInv'
    BY <1>1, <1>2 DEF ControlInv, Reachable
<1>6. QED
    BY <1>3, <1>4, <1>5 DEF IInv

\* Every step preserves the invariant.
LEMMA Inductive == IInv /\ [Next]_vars => IInv'
<1>1. SUFFICES ASSUME IInv, [Next]_vars PROVE IInv'
    OBVIOUS
<1>2. CASE UNCHANGED vars
    BY <1>1, <1>2, StutterStep
<1>3. CASE ~integrityError /\ Network
    <2>1. CASE \E t \in Peer, sub \in Proofs : ReceiveProof(t, sub)
        BY <1>1, <1>3, <2>1, ReceiveProofStep
    <2>2. CASE \E b \in Block : ReceiveBlock(b)
        BY <1>1, <2>2, ReceiveBlockStep
    <2>3. QED
        BY <1>3, <2>1, <2>2 DEF Network
<1>4. CASE ~integrityError /\ ControllerStep
    <2>1. CASE CommitHeaviest
        BY <1>1, <1>4, <2>1, CommitHeaviestStep
    <2>2. CASE PopBlock
        BY <1>1, <1>4, <2>2, PopBlockStep
    <2>3. CASE ValidateLeader \/ ValidateNoLeader
        BY <1>1, <2>3, ValidateStep
    <2>4. CASE ValidateUnableToStartFlow
        BY <1>1, <1>4, <2>4, UnableToStartFlowStep
    <2>5. CASE AppendBlock
        BY <1>1, <1>4, <2>5, AppendBlockStep
    <2>6. CASE AppendFails
        BY <1>1, <2>6, AppendFailsStep
    <2>7. CASE RejectBlock
        BY <1>1, <1>4, <2>7, RejectBlockStep
    <2>8. CASE SyncVerified \/ SyncHeaviest
        BY <1>1, <1>4, <2>8, SyncStep
    <2>9. QED
        BY <1>4, <2>1, <2>2, <2>3, <2>4, <2>5, <2>6, <2>7, <2>8 DEF ControllerStep
<1>5. CASE \E b \in Block : MineBlock(b) \/ ExpireBlacklisting(b)
    BY <1>1, <1>5, MineBlockStep, ExpireStep
<1>6. CASE \E c \in ColdAtCrash : Restart(c)
    BY <1>1, <1>6, RestartStep
<1>7. QED
    BY <1>1, <1>2, <1>3, <1>4, <1>5, <1>6 DEF Next

-----------------------------------------------------------------------------
(* The theorems.                                                           *)

\* The inductive invariant holds in every state of every run of the node.
THEOREM Invariance == Spec => []IInv
<1>1. Init => IInv
    BY Initially
<1>2. IInv /\ [Next]_vars => IInv'
    BY Inductive
<1>3. QED
    BY <1>1, <1>2, PTL DEF Spec

\* Every variable of the chain manager keeps its type, and the processing queue
\* its limit.
THEOREM TypeCorrect == Spec => []TypeOK
<1>1. IInv => TypeOK
    BY DEF IInv
<1>2. QED
    BY <1>1, Invariance, PTL

\* The heaviest proof, its path and its works stay in step, whatever
\* analyzeAndUpdateChainProof(), setLeader(), immuniseAgainstBlock() and
\* initialise() do to them in whatever order.
THEOREM HeaviestStaysInStep == Spec => []InStep
<1>1. IInv => InStep
    <2>1. SUFFICES ASSUME IInv, ~integrityError
          PROVE  /\ Len(best.path) = Len(best.proof) /\ Len(best.works) = Len(best.proof)
                 /\ InPlace(best.proof) /\ InPlace(best.path)
                 /\ ~torn => /\ Linked(best.proof) /\ best.path = best.proof
                             /\ best.works = [i \in 1..Len(best.proof) |-> Cumulative(best.proof, i)]
                             /\ best.works # <<>> => Tip(best.works) <= best.work
        BY DEF InStep
    <2>2. Sound(best) /\ (~torn => Coherent(best))
        BY <2>1 DEF IInv, BestInv
    <2>3. QED
        BY <2>2 DEF Sound, Coherent
<1>2. QED
    BY <1>1, Invariance, PTL

\* The verified chain is a chain of executed blocks that ends with the leader:
\* setLeader() never fails half way.
THEOREM VerifiedStaysAChain == Spec => []VerifiedChain
<1>1. IInv => VerifiedChain
    BY DEF IInv, VerifiedInv
<1>2. QED
    BY <1>1, Invariance, PTL

\* A blacklisted block does not come back into the heaviest proof.
THEOREM BlacklistedStaysOut == Spec => []HeaviestNotBlacklisted
<1>1. IInv => HeaviestNotBlacklisted
    BY DEF IInv
<1>2. QED
    BY <1>1, Invariance, PTL

\* An update that is better than the total difficulty to beat is heavier than
\* the proof it replaces.
LEMMA BetterIsHeavier ==
    ASSUME best \in HeaviestType, Coherent(best), best.work \in Nat,
           NEW new \in HeaviestType, Coherent(new), new.proof # <<>>,
           new.work = Work[new.proof[Len(new.proof)]],
           NEW sub,
           Better(new.work, Len(new.proof), ToBeat(sub, best.work), Len(best.proof))
    PROVE  Heavier(new.proof, best.proof)
<1>1. /\ best.proof \in Seq(Block) /\ Linked(best.proof)
      /\ new.proof \in Seq(Block) /\ Linked(new.proof)
      /\ best.works = [i \in 1..Len(best.proof) |-> Cumulative(best.proof, i)]
      /\ best.works # <<>> => Tip(best.works) <= best.work
    BY DEF HeaviestType, Coherent
<1>2. /\ WorkOf(new.proof) = new.work /\ new.work > 0 /\ new.work \in Nat
      /\ Len(new.proof) \in Nat /\ Len(best.proof) \in Nat /\ WorkOf(best.proof) \in Nat
    BY <1>1, WorkOfFacts, LenProperties
<1>3. CASE best.proof = <<>>
    <2>1. WorkOf(best.proof) = 0
        BY <1>3 DEF WorkOf
    <2>2. QED
        BY <1>2, <2>1 DEF Heavier
<1>4. CASE best.proof # <<>>
    <2>1. Len(best.proof) \in 1..Len(best.proof)
        BY <1>1, <1>4, TipFacts
    <2>2. Len(best.works) = Len(best.proof) /\ best.works # <<>>
        BY <1>1, <1>2, <2>1
    <2>3. Tip(best.works) = WorkOf(best.proof)
        BY <1>1, <1>4, <2>1, <2>2 DEF Tip, WorkOf
    <2>4. WorkOf(best.proof) <= best.work /\ WorkOf(best.proof) > 0
        BY <1>1, <1>4, <2>2, <2>3, WorkOfFacts
    <2>5. ToBeat(sub, best.work) = best.work
        BY <1>2, <2>4 DEF ToBeat
    <2>6. new.work > best.work \/ (new.work = best.work /\ Len(new.proof) > Len(best.proof))
        BY <2>5 DEF Better
    <2>7. QED
        BY <1>2, <2>4, <2>6 DEF Heavier
<1>5. QED
    BY <1>3, <1>4

\* So is a proof that a leader extends.
LEMMA ExtendedIsHeavier ==
    ASSUME best \in HeaviestType, Sound(best), best.work \in Nat, Coherent(best),
           NEW b \in Block, best' = ExtendHeaviest(b)
    PROVE  best'.proof = best.proof \/ Heavier(best'.proof, best.proof)
<1>1. /\ best' \in HeaviestType /\ Coherent(best')
      /\ best' = best \/ (best'.proof = Append(best.proof, b) /\ best.proof # <<>>)
    BY ExtendFacts
<1>2. SUFFICES ASSUME best'.proof = Append(best.proof, b), best.proof # <<>>
               PROVE  Heavier(best'.proof, best.proof)
    BY <1>1
<1> DEFINE p == best'.proof
<1>3. best.proof \in Seq(Block) /\ Linked(best.proof) /\ p \in Seq(Block) /\ Linked(p)
    BY <1>1 DEF HeaviestType, Coherent
<1>4. /\ p # <<>> /\ Len(p) = Len(best.proof) + 1 /\ Len(best.proof) \in 1..Len(best.proof)
      /\ \A i \in 1..Len(best.proof) : p[i] = best.proof[i]
    BY <1>2, <1>3, AppendFacts, TipFacts
<1> HIDE DEF p
<1>5. Len(p) \in 1..Len(p) /\ Len(p) > 1 /\ Len(p) - 1 = Len(best.proof)
    BY <1>4
<1>6. Parent[p[Len(p)]] = best.proof[Len(best.proof)]
    BY <1>3, <1>4, <1>5 DEF Linked
<1>7. p[Len(p)] \in Block /\ best.proof[Len(best.proof)] \in Block
    BY <1>3, <1>4, <1>5
<1>8. /\ Work[p[Len(p)]] = Work[best.proof[Len(best.proof)]] + Weight[p[Len(p)]]
      /\ Weight[p[Len(p)]] \in Nat
    BY <1>6, <1>7, BlockFacts
<1>9. /\ WorkOf(p) = Work[p[Len(p)]] /\ WorkOf(best.proof) = Work[best.proof[Len(best.proof)]]
      /\ WorkOf(p) \in Nat /\ WorkOf(best.proof) \in Nat
    BY <1>2, <1>3, <1>4, WorkOfFacts
<1>10. Heavier(p, best.proof)
    BY <1>4, <1>8, <1>9 DEF Heavier
<1>11. QED
    BY <1>10 DEF p

\* The heaviest chain-proof of a running node gives way only to one with more
\* work, or as much and more blocks, or it is cut before a block that failed.
THEOREM HeaviestNeverLighter == Spec => NeverLighter
<1> DEFINE cut == /\ Len(best'.proof) < Len(best.proof)
                  /\ best'.proof = SubSeq(best.proof, 1, Len(best'.proof))
                  /\ best.path[Len(best'.proof) + 1] \in blacklist'
           A == \/ integrityError' \/ torn \/ best'.proof = best.proof
                \/ \E c \in ColdAtCrash : Restart(c)
                \/ Heavier(best'.proof, best.proof)
                \/ cut
<1>1. IInv /\ [Next]_vars => [A]_vars
    <2>1. SUFFICES ASSUME IInv, Next, ~torn PROVE A
        OBVIOUS
    <2>2. /\ TypeOK /\ BestInv /\ ColdInv /\ VerifiedInv /\ HeaviestNotBlacklisted /\ ControlInv
        BY <2>1 DEF IInv
    <2>3. SUFFICES ASSUME ~integrityError, ~(\E c \in ColdAtCrash : Restart(c)) PROVE A
        BY <2>1 DEF Next
    <2>4. best \in HeaviestType /\ Sound(best) /\ best.work \in Nat /\ Coherent(best)
        BY <2>1, <2>2, <2>3 DEF TypeOK, HeaviestType, BestInv
    <2>5. ASSUME NEW t, NEW sub \in Seq(Block), sub # <<>>, sub[1] = Genesis,
                 Analyze(t, sub), blacklist' = blacklist
          PROVE  A
        <3>1. /\ best' \in HeaviestType
              /\ \/ best' = best \/ integrityError'
                 \/ /\ ~integrityError'
                    /\ Better(best'.work, Len(best'.proof), ToBeat(sub, best.work), Len(best.proof))
                    /\ best'.proof # <<>>
                    /\ Coherent(best) =>
                          Coherent(best') /\ best'.work = Work[best'.proof[Len(best'.proof)]]
            BY <2>2, <2>3, <2>5, AnalyzeStep
        <3>2. CASE best' = best \/ integrityError'
            BY <3>2
        <3>3. CASE ~(best' = best \/ integrityError')
            BY <2>4, <3>1, <3>3, BetterIsHeavier
        <3>4. QED
            BY <3>2, <3>3
    <2>6. ASSUME NEW t \in Peer, NEW sub \in Proofs, ReceiveProof(t, sub) PROVE A
        <3>1. sub \in Seq(Block) /\ sub # <<>> /\ sub[1] = Genesis
            BY HeadersAssumption
        <3>2. Analyze(t, sub) /\ blacklist' = blacklist
            BY <2>6 DEF ReceiveProof, storage
        <3>3. QED
            BY <2>5, <3>1, <3>2
    <2>7. CASE PopBlock
        <3>1. CASE best' = best
            BY <3>1
        <3>2. CASE /\ verifiedWork > best.work \/ Len(verified) > Len(best.proof)
                   /\ Analyze(Controller, verified)
            <4>1. /\ verified \in Seq(Block) /\ Linked(verified)
                  /\ verified = <<>> => verifiedWork = 0
                  /\ best.work \in Nat /\ Len(best.proof) \in Nat
                BY <2>2, LenProperties DEF TypeOK, BestInv, VerifiedInv, VerifiedChain
            <4>2. verified # <<>>
                <5>1. SUFFICES ASSUME verified = <<>> PROVE FALSE
                    OBVIOUS
                <5>2. Len(verified) = 0 /\ verifiedWork = 0
                    BY <4>1, <5>1
                <5>3. QED
                    BY <3>2, <4>1, <5>2
            <4>3. verified[1] = Genesis
                BY <4>1, <4>2, LinkedInPlace, InPlaceFacts
            <4>4. blacklist' = blacklist
                BY <2>7 DEF PopBlock, storage
            <4>5. QED
                BY <2>5, <3>2, <4>1, <4>2, <4>3, <4>4
        <3>3. QED
            BY <2>7, <3>1, <3>2 DEF PopBlock
    <2>8. CASE ValidateUnableToStartFlow
        <3>1. CASE UNCHANGED <<best, verified, leader, verifiedWork>>
            BY <3>1
        <3>2. CASE /\ Height[leader] > 1
                   /\ SetLeader(SubSeq(verified, 1, Height[leader] - 1), Parent[leader])
            <4>1. leader # NoBlock
                BY <2>8 DEF ValidateUnableToStartFlow, MayLead
            <4>2. Parent[leader] \in Block /\ best' = ExtendHeaviest(Parent[leader])
                BY <2>2, <3>2, <4>1, RepairFacts
            <4>3. QED
                BY <2>4, <4>2, ExtendedIsHeavier
        <3>3. QED
            BY <2>8, <3>1, <3>2 DEF ValidateUnableToStartFlow
    <2>9. CASE AppendBlock
        <3>1. SetLeader(verified, current.block) /\ pc = "append"
            BY <2>9 DEF AppendBlock
        <3>2. current.block \in Block
            BY <2>2, <3>1 DEF TypeOK, ControlInv
        <3>3. best' = best \/ best' = ExtendHeaviest(current.block)
            BY <3>1 DEF SetLeader
        <3>4. QED
            BY <2>4, <3>2, <3>3, ExtendedIsHeavier
    <2>10. CASE RejectBlock
        <3> DEFINE b == current.block
        <3>1. /\ pc = "reject"
              /\ \/ best' = best
                 \/ b \in Members(best.path) /\ best' = Immunised(b) /\ b \in blacklist'
            BY <2>10 DEF RejectBlock
        <3>2. b \in Block
            BY <2>2, <3>1 DEF TypeOK, ControlInv
        <3>3. CASE best' = best
            BY <3>3
        <3>4. CASE b \in Members(best.path) /\ best' = Immunised(b) /\ b \in blacklist'
            <4>1. /\ Len(best'.proof) < Len(best.proof)
                  /\ best'.proof = SubSeq(best.proof, 1, Len(best'.proof))
                  /\ best.path[Len(best'.proof) + 1] = b
                BY <2>4, <3>2, <3>4, ImmunisedFacts
            <4>2. QED
                BY <3>4, <4>1
        <3>5. QED
            BY <3>1, <3>3, <3>4
    <2>11. \/ \E t \in Peer, sub \in Proofs : ReceiveProof(t, sub)
           \/ PopBlock \/ ValidateUnableToStartFlow \/ AppendBlock \/ RejectBlock
           \/ best' = best
        BY <2>1, <2>3 DEF Next, Network, ControllerStep, ReceiveBlock, CommitHeaviest, ValidateLeader,
               ValidateNoLeader, AppendFails, SyncVerified, SyncHeaviest, MineBlock, ExpireBlacklisting
    <2>12. QED
        BY <2>6, <2>7, <2>8, <2>9, <2>10, <2>11
<1>2. Spec => [][A]_vars
    BY <1>1, Invariance, PTL DEF Spec
<1>3. QED
    BY <1>2 DEF NeverLighter

\* What the verified proof is when PopBlock offers it to the heaviest one.
LEMMA OfferedFacts ==
    ASSUME TypeOK, BestInv, VerifiedInv,
           verifiedWork > best.work \/ Len(verified) > Len(best.proof)
    PROVE  verified \in Seq(Block) /\ verified # <<>> /\ verified[1] = Genesis /\ Linked(verified)
<1>1. /\ verified \in Seq(Block) /\ Linked(verified)
      /\ verified = <<>> => verifiedWork = 0
      /\ best.work \in Nat /\ Len(best.proof) \in Nat
    BY LenProperties DEF TypeOK, BestInv, VerifiedInv, VerifiedChain
<1>2. verified # <<>>
    <2>1. SUFFICES ASSUME verified = <<>> PROVE FALSE
        OBVIOUS
    <2>2. Len(verified) = 0 /\ verifiedWork = 0
        BY <1>1, <2>1
    <2>3. QED
        BY <1>1, <2>2
<1>3. verified[1] = Genesis
    BY <1>1, <1>2, LinkedInPlace, InPlaceFacts
<1>4. QED
    BY <1>1, <1>2, <1>3

\* Only the analysis of a proof, a peer's or the verified one, meets an
\* integrity error or takes the guardian away.
LEMMA WhoAnalyzes ==
    ASSUME TypeOK, BestInv, VerifiedInv, [Next]_vars
    PROVE  \/ integrityError' \in {integrityError, FALSE} /\ guardian' \in {guardian, Nobody}
           \/ \E t \in Peer, sub \in Proofs :
                 ~integrityError /\ ReceiveProof(t, sub) /\ Analyze(t, sub)
           \/ /\ ~integrityError /\ Analyze(Controller, verified)
              /\ verified \in Seq(Block) /\ verified # <<>> /\ verified[1] = Genesis
              /\ Linked(verified)
<1>1. CASE UNCHANGED vars
    BY <1>1 DEF vars, faults
<1>2. CASE Next /\ PopBlock /\ ~integrityError
    <2>1. CASE /\ verifiedWork > best.work \/ Len(verified) > Len(best.proof)
               /\ Analyze(Controller, verified)
        BY <1>2, <2>1, OfferedFacts
    <2>2. CASE UNCHANGED <<best, guardian, faults>>
        BY <2>2 DEF faults
    <2>3. QED
        BY <1>2, <2>1, <2>2 DEF PopBlock
<1>3. ASSUME NEW t \in Peer, NEW sub \in Proofs, ReceiveProof(t, sub), ~integrityError
      PROVE  \E u \in Peer, s \in Proofs : ~integrityError /\ ReceiveProof(u, s) /\ Analyze(u, s)
    BY <1>3 DEF ReceiveProof
<1>4. ASSUME NEW c \in ColdAtCrash, Restart(c)
      PROVE  integrityError' \in {integrityError, FALSE} /\ guardian' \in {guardian, Nobody}
    BY <1>4 DEF Restart
<1>5. CASE integrityError' = integrityError /\ guardian' = guardian
    BY <1>5
<1>6. \/ UNCHANGED vars
      \/ ~integrityError /\ \E t \in Peer, sub \in Proofs : ReceiveProof(t, sub)
      \/ Next /\ PopBlock /\ ~integrityError
      \/ \E c \in ColdAtCrash : Restart(c)
      \/ integrityError' = integrityError /\ guardian' = guardian
    BY DEF Next, Network, ControllerStep, ReceiveBlock, CommitHeaviest, ValidateLeader,
           ValidateNoLeader, ValidateUnableToStartFlow, AppendBlock, AppendFails, RejectBlock,
           SyncVerified, SyncHeaviest, MineBlock, ExpireBlacklisting, faults
<1>7. QED
    BY <1>1, <1>2, <1>3, <1>4, <1>5, <1>6

\* The heaviest proof and its path come out of step only where the path was
\* genesis alone.
THEOREM IntegrityErrsOnlyAtGenesis == Spec => ErrsOnlyAtGenesis
<1> DEFINE A == integrityError' /\ ~integrityError => best.path = <<Genesis>>
<1>1. IInv /\ [Next]_vars => [A]_vars
    <2>1. SUFFICES ASSUME IInv, [Next]_vars, integrityError', ~integrityError
                   PROVE  best.path = <<Genesis>>
        OBVIOUS
    <2>2. TypeOK /\ BestInv /\ VerifiedInv
        BY <2>1 DEF IInv
    <2>3. best \in HeaviestType /\ Sound(best)
        BY <2>1, <2>2 DEF TypeOK, HeaviestType, BestInv
    <2>4. ASSUME NEW t, NEW sub \in Seq(Block), sub # <<>>, sub[1] = Genesis, Analyze(t, sub)
          PROVE  best.path = <<Genesis>>
        <3>1. AnalyzeAndUpdate(best, sub, best.work, blacklist, cold).answer = "Error"
            BY <2>1, <2>4 DEF Analyze
        <3>2. QED
            BY <2>3, <2>4, <3>1, ErrFacts
    <2>5. ASSUME NEW t \in Peer, NEW sub \in Proofs, Analyze(t, sub) PROVE best.path = <<Genesis>>
        <3>1. sub \in Seq(Block) /\ sub # <<>> /\ sub[1] = Genesis
            BY HeadersAssumption
        <3>2. QED
            BY <2>4, <2>5, <3>1
    <2>6. ~(integrityError' \in {integrityError, FALSE})
        BY <2>1, <2>2 DEF TypeOK
    <2>7. QED
        BY <2>1, <2>2, <2>4, <2>5, <2>6, WhoAnalyzes
<1>2. Spec => [][A]_vars
    BY <1>1, Invariance, PTL DEF Spec
<1>3. QED
    BY <1>2 DEF ErrsOnlyAtGenesis

\* While no crash tore a save of the heaviest proof, only a peer's proof whose
\* headers are not linked takes the guardian away.
THEOREM LinkedProofsDoNotLeak == Spec => OnlyUnlinkedProofsLeak
<1> DEFINE A == \/ guardian' \in {guardian, Nobody} \/ torn
                \/ \E t \in Peer, sub \in Proofs : ReceiveProof(t, sub) /\ ~Linked(sub)
<1>1. IInv /\ [Next]_vars => [A]_vars
    <2>1. SUFFICES ASSUME IInv, [Next]_vars, ~torn PROVE A
        OBVIOUS
    <2>2. TypeOK /\ BestInv /\ VerifiedInv
        BY <2>1 DEF IInv
    <2>3. best.proof \in Seq(Block) /\ Linked(best.proof)
        BY <2>1, <2>2 DEF TypeOK, BestInv
    <2>4. ASSUME NEW t, NEW sub \in Seq(Block), sub # <<>>, sub[1] = Genesis, Linked(sub),
                 Analyze(t, sub)
          PROVE  guardian' = guardian
        <3>1. AnalyzeAndUpdate(best, sub, best.work, blacklist, cold).answer # "leaked"
            BY <2>3, <2>4, LinkedDoesNotLeak
        <3>2. QED
            BY <2>4, <3>1 DEF Analyze
    <2>5. ASSUME NEW t \in Peer, NEW sub \in Proofs, ReceiveProof(t, sub), Analyze(t, sub)
          PROVE  guardian' = guardian \/ (ReceiveProof(t, sub) /\ ~Linked(sub))
        <3>1. sub \in Seq(Block) /\ sub # <<>> /\ sub[1] = Genesis
            BY HeadersAssumption
        <3>2. QED
            BY <2>4, <2>5, <3>1
    <2>6. QED
        BY <2>2, <2>1, <2>4, <2>5, WhoAnalyzes
<1>2. Spec => [][A]_vars
    BY <1>1, Invariance, PTL DEF Spec
<1>3. QED
    BY <1>2 DEF OnlyUnlinkedProofsLeak

\* After a restart a proof has to beat both the verified and the heaviest one.
THEOREM RestartedWorkIsBeaten == Spec => RestartKeepsWork
<1> DEFINE A == (\E c \in ColdAtCrash : Restart(c))
                => verifiedWork' <= best'.work /\ WorkOf(best'.proof) <= best'.work
<1>1. IInv /\ [Next]_vars => [A]_vars
    <2>1. SUFFICES ASSUME IInv, NEW c \in ColdAtCrash, Restart(c)
                   PROVE  verifiedWork' <= best'.work /\ WorkOf(best'.proof) <= best'.work
        OBVIOUS
    <2>2. /\ verifiedWork' = WorkOf(c.verified)
          /\ best' = CrossCompared(c, WorkOf(c.verified))
        BY <2>1 DEF Restart, WorkOf
    <2>3. SoundCold(c)
        BY <2>1, SavedFacts
    <2>4. QED
        BY <2>2, <2>3, ComparedFacts
<1>2. Spec => [][A]_vars
    BY <1>1, Invariance, PTL DEF Spec
<1>3. QED
    BY <1>2 DEF RestartKeepsWork

\* The state a node shows is the outcome of a whole block, executed from that of
\* its parent: the chain manager implements the atomic ledger.
THEOREM ChainIsAtomicLedger == Spec => ShowsWholeBlocks
<1>1. Init => Ledger!Init
    BY DEF Init, Ledger!Init
<1>2. IInv /\ [Next]_vars => [Ledger!Next]_Ledger!vars
    <2>1. SUFFICES ASSUME IInv, [Next]_vars PROVE [Ledger!Next]_Ledger!vars
        OBVIOUS
    <2>2. CASE executed' = executed /\ live' = live
        BY <2>2 DEF Ledger!vars
    <2>3. CASE AppendBlock
        <3> DEFINE b == current.block
        <3>1. pc = "append" /\ executed' = executed \cup {b} /\ live' = b
            BY <2>3 DEF AppendBlock
        <3>2. b \in Block /\ Reachable(b)
            BY <2>1, <3>1 DEF IInv, TypeOK, ControlInv
        <3>3. Parent[b] \in executed \cup {NoBlock}
            BY <3>2, BlockFacts DEF Reachable
        <3>4. Ledger!Commit(b)
            BY <3>1, <3>3 DEF Ledger!Commit
        <3>5. QED
            BY <3>2, <3>4 DEF Ledger!Next
    <2>4. ASSUME NEW c \in ColdAtCrash, Restart(c) PROVE [Ledger!Next]_Ledger!vars
        <3>1. executed' = executed /\ live' = Tip(c.verified)
            BY <2>4 DEF Restart
        <3>2. c.verified = cold.verified
            BY <2>1 DEF ColdAtCrash, IInv, TypeOK
        <3>3. cold.verified \in Seq(Block) /\ Members(cold.verified) \subseteq executed
            BY <2>1 DEF IInv, TypeOK, ColdInv
        <3>4. Tip(c.verified) \in executed \cup {NoBlock} /\ Tip(c.verified) \in Block \cup {NoBlock}
            BY <3>2, <3>3, TipFacts
        <3>5. Ledger!Show(Tip(c.verified))
            BY <3>1, <3>4 DEF Ledger!Show
        <3>6. QED
            BY <3>4, <3>5 DEF Ledger!Next
    <2>5. \/ executed' = executed /\ live' = live
          \/ AppendBlock
          \/ \E c \in ColdAtCrash : Restart(c)
        BY <2>1 DEF Next, Network, ControllerStep, ReceiveProof, ReceiveBlock, CommitHeaviest, PopBlock,
               ValidateLeader, ValidateNoLeader, ValidateUnableToStartFlow, AppendFails, RejectBlock,
               SyncVerified, SyncHeaviest, MineBlock, ExpireBlacklisting, vars, chain, storage
    <2>6. QED
        BY <2>2, <2>3, <2>4, <2>5
<1>3. QED
    BY <1>1, <1>2, Invariance, PTL DEF Spec, ShowsWholeBlocks, Ledger!Spec
=============================================================================
