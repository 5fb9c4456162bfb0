-------------------------- MODULE BlockReplayProofs --------------------------
(***************************************************************************)
(* Proofs that the blocks formed are the blocks a verifier accepts: the    *)
(* Flow's state is the replay of the proposal so far, a published block    *)
(* replays to its header, and nonces enter the chain one after the other.  *)
(***************************************************************************)
EXTENDS BlockFormationProofs, WellOrder

\* VerifyTx and Replay with the kinds as a parameter, so that the same replay
\* can be spoken of before and after a transaction is registered.
VerifyWith(K, acc, e) ==
    LET r    == Verdict(acc.db, e.tx, K[e.tx])
        size == acc.size + packedSizeOf[e.tx]
    IN  [ok   |-> acc.ok /\ r.confirmed /\ size < MaxDataBlockSize
                  /\ K[e.tx] \notin {"broke", "nonceFault"},
         db   |-> Charged(IF r.result = "valid" THEN AfterCode(acc.db, r) ELSE acc.db, r),
         size |-> size]

Fresh(db) == [ok |-> TRUE, db |-> db, size |-> 0]

ReplayFcn(K, db, txs) ==
    CHOOSE R : R = [k \in 0 .. Len(txs) |->
                      IF k = 0 THEN Fresh(db) ELSE VerifyWith(K, R[k - 1], txs[k])]

ReplayWith(K, db, txs) == ReplayFcn(K, db, txs)[Len(txs)]

\* They are the same.
LEMMA ReplayIs ==
    ASSUME NEW db, NEW txs
    PROVE  Replay(db, txs) = ReplayWith(kind, db, txs)
  BY DEF Replay, ReplayWith, ReplayFcn, VerifyTx, VerifyWith, Fresh

\* R follows the recursion of Replay for n entries.
IsReplay(R, K, db, txs, n) ==
    R = [k \in 0 .. n |-> IF k = 0 THEN Fresh(db) ELSE VerifyWith(K, R[k - 1], txs[k])]

\* The recursion has a solution.
LEMMA ReplayExists ==
    ASSUME NEW K, NEW db, NEW txs, NEW n \in Nat
    PROVE  \E R : IsReplay(R, K, db, txs, n)
<1> DEFINE Solves(R, m) == R = [k \in 0 .. m |->
                              IF k = 0 THEN Fresh(db) ELSE VerifyWith(K, R[k - 1], txs[k])]
           T == {m \in Nat : \E R : Solves(R, m)}
<1>1. 0 \in T
  <2> DEFINE R == [k \in 0 .. 0 |-> Fresh(db)]
  <2>1. Solves(R, 0)
    OBVIOUS
  <2> QED  BY <2>1
<1>2. ASSUME NEW m \in 1 .. n, m - 1 \in T PROVE m \in T
  <2>1. PICK S : Solves(S, m - 1)
    BY <1>2
  <2> DEFINE R == [k \in 0 .. m |-> IF k = m THEN VerifyWith(K, S[m - 1], txs[m]) ELSE S[k]]
  <2>2. ASSUME NEW k \in 0 .. m
        PROVE  R[k] = IF k = 0 THEN Fresh(db) ELSE VerifyWith(K, R[k - 1], txs[k])
    <3>1. CASE k = m
      <4>1. k # 0 /\ m - 1 \in 0 .. m /\ m - 1 # m
        BY <3>1
      <4>2. R[m - 1] = S[m - 1]
        BY <4>1
      <4> QED  BY <3>1, <4>1, <4>2
    <3>2. CASE k # m /\ k # 0
      <4>1. k \in 0 .. m - 1 /\ k - 1 \in 0 .. m - 1 /\ k - 1 \in 0 .. m /\ k - 1 # m
        BY <3>2
      <4>2. S[k] = VerifyWith(K, S[k - 1], txs[k])
        BY <2>1, <3>2, <4>1
      <4> QED  BY <3>2, <4>1, <4>2
    <3>3. CASE k # m /\ k = 0
      <4>1. 0 \in 0 .. m - 1
        OBVIOUS
      <4>2. S[0] = Fresh(db)
        BY <2>1, <4>1
      <4> QED  BY <3>3, <4>2
    <3> QED  BY <3>1, <3>2, <3>3
  <2>3. Solves(R, m)
    <3>1. R = [k \in 0 .. m |-> R[k]]
      OBVIOUS
    <3> HIDE DEF R
    <3> QED  BY <2>2, <3>1
  <2> HIDE DEF R, Solves
  <2> QED  BY <2>3
<1> HIDE DEF T
<1>3. n \in T
  BY <1>1, <1>2, UpTo
<1> QED  BY <1>3 DEF T, IsReplay

\* Step by step, the replay verifies one entry after the other.
LEMMA ReplayUnfolds ==
    ASSUME NEW K, NEW db, NEW txs, Len(txs) \in Nat
    PROVE  /\ ReplayFcn(K, db, txs)[0] = Fresh(db)
           /\ \A k \in 1 .. Len(txs) :
                ReplayFcn(K, db, txs)[k] = VerifyWith(K, ReplayFcn(K, db, txs)[k - 1], txs[k])
<1> DEFINE F == ReplayFcn(K, db, txs)
<1>2. F = [k \in 0 .. Len(txs) |->
             IF k = 0 THEN Fresh(db) ELSE VerifyWith(K, F[k - 1], txs[k])]
  <2>1. \E R : IsReplay(R, K, db, txs, Len(txs))
    BY ReplayExists
  <2>2. F = CHOOSE R : IsReplay(R, K, db, txs, Len(txs))
    BY DEF ReplayFcn, IsReplay
  <2> HIDE DEF F
  <2>3. IsReplay(F, K, db, txs, Len(txs))
    BY <2>1, <2>2, Zenon
  <2> QED  BY <2>3 DEF IsReplay
<1> HIDE DEF F
<1>3. F[0] = Fresh(db)
  BY <1>2
<1>4. ASSUME NEW k \in 1 .. Len(txs) PROVE F[k] = VerifyWith(K, F[k - 1], txs[k])
  BY <1>2
<1> QED  BY <1>3, <1>4 DEF F

\* Under the kinds K and L, the first n entries of a and b are the same and do
\* the same.
SameEntries(K, L, a, b, n) == \A k \in 1 .. n : a[k] = b[k] /\ K[a[k].tx] = L[a[k].tx]

\* Two replays from the same state agree as long as their entries and the kinds
\* of these do.
LEMMA ReplaysAgree ==
    ASSUME NEW K, NEW L, NEW db, NEW a, NEW b, NEW n \in Nat,
           Len(a) \in Nat, Len(b) \in Nat, n <= Len(a), n <= Len(b),
           SameEntries(K, L, a, b, n)
    PROVE  ReplayFcn(K, db, a)[n] = ReplayFcn(L, db, b)[n]
<1> DEFINE F == ReplayFcn(K, db, a)
           G == ReplayFcn(L, db, b)
           T == {k \in Nat : F[k] = G[k]}
<1>1. /\ F[0] = Fresh(db) /\ G[0] = Fresh(db)
      /\ \A k \in 1 .. Len(a) : F[k] = VerifyWith(K, F[k - 1], a[k])
      /\ \A k \in 1 .. Len(b) : G[k] = VerifyWith(L, G[k - 1], b[k])
  BY ReplayUnfolds
<1> HIDE DEF F, G
<1>2. 0 \in T
  BY <1>1
<1>3. ASSUME NEW k \in 1 .. n, k - 1 \in T PROVE k \in T
  <2>1. k \in 1 .. Len(a) /\ k \in 1 .. Len(b) /\ F[k - 1] = G[k - 1]
    BY <1>3
  <2>2. VerifyWith(K, F[k - 1], a[k]) = VerifyWith(L, F[k - 1], a[k])
    BY <2>1 DEF VerifyWith, SameEntries
  <2>3. a[k] = b[k]
    BY <1>3 DEF SameEntries
  <2> QED  BY <1>1, <2>1, <2>2, <2>3
<1> HIDE DEF T
<1>4. n \in T
  <2>1. \A k \in 0 .. n : k \in T
    BY <1>2, <1>3, UpTo
  <2> QED  BY <2>1
<1> QED  BY <1>4 DEF T, F, G

\* The replay of an empty block.
LEMMA ReplayEmpty ==
    ASSUME NEW K, NEW db
    PROVE  ReplayWith(K, db, <<>>) = Fresh(db)
<1>1. Len(<<>>) = 0
  OBVIOUS
<1> QED  BY <1>1, ReplayUnfolds DEF ReplayWith

\* The replay of a block with one more entry.
LEMMA ReplayAppend ==
    ASSUME NEW K, NEW db, NEW E, NEW b \in Seq(E), NEW e \in E
    PROVE  ReplayWith(K, db, Append(b, e)) = VerifyWith(K, ReplayWith(K, db, b), e)
<1> DEFINE c == Append(b, e)
           n == Len(b)
<1>1. /\ c \in Seq(E) /\ n \in Nat /\ Len(c) = n + 1 /\ c[n + 1] = e
      /\ \A k \in 1 .. n : c[k] = b[k]
  OBVIOUS
<1> HIDE DEF c
<1>2. n + 1 \in 1 .. Len(c) /\ (n + 1) - 1 = n
  BY <1>1
<1>3. ReplayFcn(K, db, c)[n + 1] = VerifyWith(K, ReplayFcn(K, db, c)[n], e)
  <2>1. ReplayFcn(K, db, c)[n + 1] = VerifyWith(K, ReplayFcn(K, db, c)[(n + 1) - 1], c[n + 1])
    BY <1>1, <1>2, ReplayUnfolds
  <2> QED  BY <1>1, <1>2, <2>1
<1>4. ReplayFcn(K, db, c)[n] = ReplayFcn(K, db, b)[n]
  <2>1. /\ n <= Len(c) /\ n <= Len(b)
        /\ SameEntries(K, K, c, b, n)
    BY <1>1 DEF SameEntries
  <2>2. Len(c) \in Nat /\ Len(b) \in Nat /\ n \in Nat
    BY <1>1
  <2> HIDE DEF n
  <2> QED  BY <2>1, <2>2, ReplaysAgree
<1> QED  BY <1>1, <1>3, <1>4 DEF ReplayWith, c

\* A registration does not change the replay of a block of known transactions.
LEMMA ReplaySameKinds ==
    ASSUME NEW K, NEW L, NEW db, NEW E, NEW b \in Seq(E),
           \A k \in 1 .. Len(b) : K[b[k].tx] = L[b[k].tx]
    PROVE  ReplayWith(K, db, b) = ReplayWith(L, db, b)
<1> DEFINE n == Len(b)
<1>1. n \in Nat /\ Len(b) \in Nat /\ n <= Len(b) /\ SameEntries(K, L, b, b, n)
  BY DEF SameEntries
<1>2. ReplayFcn(K, db, b)[n] = ReplayFcn(L, db, b)[n]
  <2> HIDE DEF n
  <2> QED  BY <1>1, ReplaysAgree
<1> QED  BY <1>2 DEF ReplayWith

-----------------------------------------------------------------------------
(* The fees in the receipts.                                               *)

IsSum(V, b, n) == V = [k \in 0 .. n |-> IF k = 0 THEN 0 ELSE V[k - 1] + FeesOf(b[k])]

SumFcn(b) == CHOOSE V : IsSum(V, b, Len(b))

FeesIn(b) == SumFcn(b)[Len(b)]

\* ValidatedFees are the fees in the proposal.
LEMMA ValidatedFeesAre == ValidatedFees = FeesIn(block)
  BY DEF ValidatedFees, FeesIn, SumFcn, IsSum

\* The recursion has a solution.
LEMMA SumExists ==
    ASSUME NEW b, NEW n \in Nat
    PROVE  \E V : IsSum(V, b, n)
<1> DEFINE T == {m \in Nat : \E V : IsSum(V, b, m)}
<1>1. 0 \in T
  <2> DEFINE V == [k \in 0 .. 0 |-> 0]
  <2>1. IsSum(V, b, 0)
    BY DEF IsSum
  <2> QED  BY <2>1
<1>2. ASSUME NEW m \in 1 .. n, m - 1 \in T PROVE m \in T
  <2>1. PICK S : IsSum(S, b, m - 1)
    BY <1>2
  <2> DEFINE V == [k \in 0 .. m |-> IF k = m THEN S[m - 1] + FeesOf(b[m]) ELSE S[k]]
  <2>2. ASSUME NEW k \in 0 .. m
        PROVE  V[k] = IF k = 0 THEN 0 ELSE V[k - 1] + FeesOf(b[k])
    <3>1. CASE k = m
      <4>1. k # 0 /\ m - 1 \in 0 .. m /\ m - 1 # m
        BY <3>1
      <4>2. V[m - 1] = S[m - 1]
        BY <4>1
      <4> QED  BY <3>1, <4>1, <4>2
    <3>2. CASE k # m /\ k # 0
      <4>1. k \in 0 .. m - 1 /\ k - 1 \in 0 .. m - 1 /\ k - 1 \in 0 .. m /\ k - 1 # m
        BY <3>2
      <4>2. S[k] = S[k - 1] + FeesOf(b[k])
        BY <2>1, <3>2, <4>1 DEF IsSum
      <4> QED  BY <3>2, <4>1, <4>2
    <3>3. CASE k # m /\ k = 0
      <4>1. 0 \in 0 .. m - 1
        OBVIOUS
      <4>2. S[0] = 0
        BY <2>1, <4>1 DEF IsSum
      <4> QED  BY <3>3, <4>2
    <3> QED  BY <3>1, <3>2, <3>3
  <2>3. IsSum(V, b, m)
    <3>1. V = [k \in 0 .. m |-> V[k]]
      OBVIOUS
    <3> HIDE DEF V
    <3> QED  BY <2>2, <3>1 DEF IsSum
  <2> HIDE DEF V
  <2> QED  BY <2>3
<1> HIDE DEF T
<1>3. n \in T
  BY <1>1, <1>2, UpTo
<1> QED  BY <1>3 DEF T

\* Entry by entry.
LEMMA SumUnfolds ==
    ASSUME NEW E, NEW b \in Seq(E)
    PROVE  /\ SumFcn(b)[0] = 0
           /\ \A k \in 1 .. Len(b) : SumFcn(b)[k] = SumFcn(b)[k - 1] + FeesOf(b[k])
<1> DEFINE V == SumFcn(b)
<1>1. Len(b) \in Nat
  OBVIOUS
<1>2. IsSum(V, b, Len(b))
  <2>1. \E U : IsSum(U, b, Len(b))
    BY <1>1, SumExists
  <2> QED  BY <2>1, Zenon DEF SumFcn
<1> HIDE DEF V
<1>3. V[0] = 0
  BY <1>1, <1>2 DEF IsSum
<1>4. ASSUME NEW k \in 1 .. Len(b) PROVE V[k] = V[k - 1] + FeesOf(b[k])
  BY <1>1, <1>2 DEF IsSum
<1> QED  BY <1>3, <1>4 DEF V

\* No entries, no fees.
LEMMA FeesEmpty == FeesIn(<<>>) = 0
<1>1. <<>> \in Seq({}) /\ Len(<<>>) = 0
  OBVIOUS
<1> QED  BY <1>1, SumUnfolds DEF FeesIn

\* One more entry adds its fees.
LEMMA FeesAppend ==
    ASSUME NEW E, NEW b \in Seq(E), NEW e \in E
    PROVE  FeesIn(Append(b, e)) = FeesIn(b) + FeesOf(e)
<1> DEFINE c == Append(b, e)
           n == Len(b)
           F == SumFcn(c)
           G == SumFcn(b)
           T == {k \in Nat : F[k] = G[k]}
<1>1. /\ c \in Seq(E) /\ n \in Nat /\ Len(c) = n + 1 /\ c[n + 1] = e
      /\ \A k \in 1 .. n : c[k] = b[k]
  OBVIOUS
<1> HIDE DEF c
<1>2. /\ F[0] = 0 /\ G[0] = 0
      /\ \A k \in 1 .. n + 1 : F[k] = F[k - 1] + FeesOf(c[k])
      /\ \A k \in 1 .. n : G[k] = G[k - 1] + FeesOf(b[k])
  BY <1>1, SumUnfolds
<1> HIDE DEF F, G, n
<1>3. 0 \in T
  BY <1>2
<1>4. ASSUME NEW k \in 1 .. n, k - 1 \in T PROVE k \in T
  <2>1. k \in 1 .. n + 1
    BY <1>1
  <2> QED  BY <1>1, <1>2, <1>4, <2>1
<1> HIDE DEF T
<1>5. n \in T
  <2>1. \A k \in 0 .. n : k \in T
    BY <1>1, <1>3, <1>4, UpTo
  <2> QED  BY <1>1, <2>1
<1>6. F[n + 1] = F[n] + FeesOf(e)
  <2>1. n + 1 \in 1 .. n + 1 /\ (n + 1) - 1 = n
    BY <1>1
  <2> QED  BY <1>1, <1>2, <2>1
<1> QED  BY <1>1, <1>5, <1>6 DEF FeesIn, T, F, G, n, c

-----------------------------------------------------------------------------
(* Nonces on the chain.                                                    *)

\* How many transactions of a sequence an issuer has.
Count(s, i) == Cardinality({q \in 1 .. Len(s) : issuerOf[s[q]] = i})

\* Each issuer's transactions have consecutive nonces.
Consecutive(s) ==
    \A p \in 1 .. Len(s) :
        nonceOf[s[p]] = 1 + Cardinality({q \in 1 .. p - 1 : issuerOf[s[q]] = issuerOf[s[p]]})

\* One more transaction counts for its issuer.
LEMMA CountAppend ==
    ASSUME NEW s \in Seq(Tx), NEW t \in Tx, NEW i
    PROVE  /\ Count(s, i) \in Nat
           /\ Count(Append(s, t), i) = IF issuerOf[t] = i THEN Count(s, i) + 1 ELSE Count(s, i)
<1> DEFINE n == Len(s)
           A == {q \in 1 .. n : issuerOf[s[q]] = i}
           B == {q \in 1 .. Len(Append(s, t)) : issuerOf[Append(s, t)[q]] = i}
<1>1. /\ n \in Nat /\ Len(Append(s, t)) = n + 1 /\ Append(s, t)[n + 1] = t
      /\ \A q \in 1 .. n : Append(s, t)[q] = s[q]
  OBVIOUS
<1>2. IsFiniteSet(A)
  <2>1. IsFiniteSet(1 .. n)
    BY <1>1, FS_Interval
  <2> QED  BY <2>1, FS_Subset
<1>3. Cardinality(A) \in Nat
  BY <1>2, FS_CardinalityType
<1>4. CASE issuerOf[t] = i
  <2>1. B = A \cup {n + 1} /\ n + 1 \notin A
    BY <1>1, <1>4
  <2>2. Cardinality(B) = Cardinality(A) + 1
    BY <1>2, <2>1, FS_AddElement
  <2> QED  BY <1>3, <1>4, <2>2 DEF Count
<1>5. CASE issuerOf[t] # i
  <2>1. B = A
    BY <1>1, <1>5
  <2> QED  BY <1>3, <1>5, <2>1 DEF Count
<1> QED  BY <1>4, <1>5

\* The next nonce of its issuer continues the sequence.
LEMMA ConsecutiveAppend ==
    ASSUME NEW s \in Seq(Tx), NEW t \in Tx, Consecutive(s), nonceOf[t] = Count(s, issuerOf[t]) + 1
    PROVE  Consecutive(Append(s, t))
<1> DEFINE n == Len(s)
           c == Append(s, t)
           Earlier(x, p) == {q \in 1 .. p - 1 : issuerOf[x[q]] = issuerOf[x[p]]}
<1>1. /\ n \in Nat /\ Len(c) = n + 1 /\ c[n + 1] = t
      /\ \A q \in 1 .. n : c[q] = s[q]
  OBVIOUS
<1> HIDE DEF c
<1>2. ASSUME NEW p \in 1 .. n
      PROVE  nonceOf[c[p]] = 1 + Cardinality(Earlier(c, p))
  <2>1. Earlier(c, p) = Earlier(s, p)
    BY <1>1
  <2>2. nonceOf[s[p]] = 1 + Cardinality(Earlier(s, p))
    BY DEF Consecutive
  <2> HIDE DEF Earlier
  <2> QED  BY <1>1, <2>1, <2>2
<1>3. nonceOf[c[n + 1]] = 1 + Cardinality(Earlier(c, n + 1))
  <2>1. Earlier(c, n + 1) = {q \in 1 .. n : issuerOf[s[q]] = issuerOf[t]}
    BY <1>1
  <2>2. Count(s, issuerOf[t]) = Cardinality(Earlier(c, n + 1)) /\ Count(s, issuerOf[t]) \in Nat
    BY <2>1, CountAppend DEF Count
  <2> HIDE DEF Earlier
  <2> QED  BY <1>1, <2>2
<1>4. \A p \in 1 .. Len(c) : nonceOf[c[p]] = 1 + Cardinality(Earlier(c, p))
  <2>1. \A p \in 1 .. Len(c) : p \in 1 .. n \/ p = n + 1
    BY <1>1
  <2> HIDE DEF Earlier, n
  <2> QED  BY <1>2, <1>3, <2>1
<1> QED  BY <1>4 DEF Consecutive, c

-----------------------------------------------------------------------------
(* The invariant.  A transaction whose included key does not hash to the   *)
(* issuer it names enters the proposal without nonce or fees; the Flow and *)
(* the replay then part and no verifier accepts the block.                 *)

NoKeyMismatch == \A t \in Tx : "keyMismatch" \notin kindsOf[t]

Without(b, k) == \A j \in 1 .. Len(b) : kind[b[j].tx] # k

\* What a registered transaction does is settled.
Settled(b) == Without(b, "new")

\* Every key in the entries belongs to the issuer.
Matching(b) == Without(b, "keyMismatch")

KindInv ==
    /\ \A t \in Tx : kind[t] # "new" => kind[t] \in kindsOf[t]
    /\ \A t \in pool : kind[t] # "new"
    /\ Settled(block)
    /\ pc = "publish" => Settled(formed.txs)

\* P is the outcome of replaying the entries b after the chain c: they are all
\* accepted and continue the nonces of their issuers.
Sound(c, P, b) ==
    /\ P.ok = TRUE
    /\ P.db \in Ledger
    /\ Consecutive(c \o Txs(b))
    /\ \A i \in Issuer : Count(c \o Txs(b), i) = P.db.nonce[i]

\* The proposal so far, replayed.
SoFar == ReplayWith(kind, ledger, block)

SoundSoFar == Sound(chain, SoFar, block)

NonceInv ==
    /\ Consecutive(chain)
    /\ \A i \in Issuer : Count(chain, i) = ledger.nonce[i]

\* In the main loop the proposal replays, with the size and fees counted.
ProposalInv ==
    pc \in {"loop"} \cup InFlow =>
        /\ Matching(block) => SoundSoFar
        /\ SoFar.size = used /\ FeesIn(block) = fees
        /\ pc # "final" => mark

\* The receipt is what a verifier would find for the same transaction.
SameVerdict == receipt = Verdict(SoFar.db, receipt.tx, kind[receipt.tx])

\* The Flow's state, and the one it can be rolled back to, in the stages of
\* the main loop.
Tracked ==
    /\ pc = "loop" => flow.db = SoFar.db
    /\ pc = "fees" =>
         /\ SameVerdict
         /\ flow.persps[2] = SoFar.db /\ flow.db = AfterCode(SoFar.db, receipt)
    /\ pc = "append" =>
         /\ receipt.include /\ kind[receipt.tx] # "keyMismatch" =>
              /\ SameVerdict
              /\ kind[receipt.tx] \notin {"broke", "nonceFault"}
              /\ flow.db = VerifyWith(kind, SoFar, receipt).db
         /\ receipt.result = "valid" => Stacked(flow, 1)
         /\ Stacked(flow, 1) => flow.persps[2] = SoFar.db
    /\ pc = "final" =>
         /\ receipt.include /\ (mark \/ receipt.result = "valid") => flow.db = SoFar.db
         /\ ~receipt.include => mark /\ flow.persps[2] = SoFar.db

StateInv == Matching(block) => Tracked

\* A transaction that the retry loop appends is not charged: the fees in the
\* proposal then exceed those counted, which the assertion of formBlock() tells.
RetryInv ==
    /\ pc = "retry" =>
         /\ mark /\ FeesIn(block) \in Nat /\ FeesIn(block) >= fees
         /\ FeesIn(block) = fees /\ Matching(block) => SoundSoFar /\ flow.db = SoFar.db
    /\ pc = "check" =>
         /\ ~mark => receipt \in Receipt
         /\ FeesIn(block) = fees /\ Matching(block) =>
              SoundSoFar /\ (mark \/ receipt.result = "valid" => flow.db = SoFar.db)

\* The proposal that was handed over, replayed.
Handed == ReplayWith(kind, ledger, formed.txs)

PublishInv ==
    pc = "publish" /\ ~aborted /\ Matching(formed.txs) =>
        /\ Sound(chain, Handed, formed.txs)
        /\ formed.cut = NoReceipt \/ formed.cut.result = "valid" => Handed.db = formed.final

ReplayInv == KindInv /\ NonceInv /\ ProposalInv /\ StateInv /\ RetryInv /\ PublishInv

-----------------------------------------------------------------------------
(* Lemmas.                                                                 *)

\* A transaction with a matching key is included only when it is the next one
\* of its domain, and then its domain is confirmed and its code ran.
LEMMA VerdictIncluded ==
    ASSUME NEW db, NEW t \in Tx, NEW k, k # "keyMismatch", Verdict(db, t, k).include
    PROVE  /\ Verdict(db, t, k).confirmed
           /\ Verdict(db, t, k).result \in {"valid", "invalid"}
           /\ db.nonce[issuerOf[t]] + 1 = nonceOf[t]
           /\ k \notin {"unauth", "poor"}
<1> DEFINE v == Verdict(db, t, k)
<1>1. \/ v = [tx |-> t, result |-> "invalidSig", include |-> FALSE, confirmed |-> FALSE]
      \/ v = [tx |-> t, result |-> "invalidNonce", include |-> FALSE, confirmed |-> TRUE]
      \/ v = [tx |-> t, result |-> "invalidBalance", include |-> FALSE, confirmed |-> TRUE]
      \/ /\ \/ v = [tx |-> t, result |-> "invalid", include |-> TRUE, confirmed |-> TRUE]
            \/ v = [tx |-> t, result |-> "valid", include |-> TRUE, confirmed |-> TRUE]
         /\ db.nonce[issuerOf[t]] + 1 = nonceOf[t]
         /\ k \notin {"unauth", "poor"}
  BY DEF Verdict
<1> HIDE DEF v
<1>2. v.include
  BY DEF v
<1> QED  BY <1>1, <1>2 DEF v

\* It pays for its code.
LEMMA IncludedPays ==
    ASSUME NEW db, NEW t \in Tx, NEW k \in kindsOf[t], k # "keyMismatch", Verdict(db, t, k).include
    PROVE  ergPriceOf[t] \in Nat /\ ergPriceOf[t] > 0
<1>1. k \notin {"unauth", "poor"}
  BY VerdictIncluded
<1>2. ergPriceOf[t] # 0
  BY <1>1, PriceAssumption
<1> QED  BY <1>2, FormationAssumption

\* One more entry, one more transaction.
LEMMA TxsAppend ==
    ASSUME NEW c \in Seq(Tx), NEW b \in Seq(Entry), NEW e \in Entry
    PROVE  /\ c \o Txs(b) \in Seq(Tx)
           /\ e.tx \in Tx
           /\ c \o Txs(Append(b, e)) = Append(c \o Txs(b), e.tx)
<1> DEFINE u == Txs(b)
           w == Txs(Append(b, e))
<1>1. u \in Seq(Tx) /\ Len(u) = Len(b) /\ \A k \in 1 .. Len(b) : u[k] = b[k].tx
  BY TxsType DEF Txs
<1>2. Append(b, e) \in Seq(Entry) /\ Len(Append(b, e)) = Len(b) + 1
  OBVIOUS
<1>3. /\ w \in Seq(Tx) /\ Len(w) = Len(b) + 1
      /\ \A k \in 1 .. Len(b) + 1 : w[k] = Append(b, e)[k].tx
  BY <1>2, TxsType DEF Txs
<1>4. e.tx \in Tx
  BY DEF Entry
<1>5. \A k \in 1 .. Len(b) : w[k] = u[k]
  BY <1>1, <1>3
<1>6. w[Len(b) + 1] = e.tx
  BY <1>3
<1> HIDE DEF u, w
<1>7. w = Append(u, e.tx)
  BY <1>1, <1>3, <1>4, <1>5, <1>6
<1>8. c \o Append(u, e.tx) = Append(c \o u, e.tx)
  BY <1>1, <1>4
<1> QED  BY <1>1, <1>4, <1>7, <1>8 DEF u, w

\* What one more entry does.
LEMMA WithoutAppend ==
    ASSUME NEW b \in Seq(Entry), NEW e \in Entry, NEW k
    PROVE  Without(Append(b, e), k) <=> Without(b, k) /\ kind[e.tx] # k
<1> DEFINE c == Append(b, e)
           n == Len(b)
<1>1. /\ n \in Nat /\ Len(c) = n + 1 /\ c[n + 1] = e
      /\ \A j \in 1 .. n : c[j] = b[j]
  OBVIOUS
<1>2. \A j \in 1 .. n + 1 : j \in 1 .. n \/ j = n + 1
  BY <1>1
<1>3. n + 1 \in 1 .. n + 1 /\ \A j \in 1 .. n : j \in 1 .. n + 1
  BY <1>1
<1> HIDE DEF c
<1> QED  BY <1>1, <1>2, <1>3 DEF Without, c

\* A verifier accepts no block with a key that is not the issuer's.
LEMMA AcceptedMatches ==
    ASSUME NEW db, NEW b \in Seq(Entry), ReplayWith(kind, db, b).ok
    PROVE  Matching(b)
<1> DEFINE n == Len(b)
           F == ReplayFcn(kind, db, b)
           T == {m \in Nat : m <= n => F[n - m].ok /\ (m >= 1 => kind[b[n - m + 1].tx] # "keyMismatch")}
<1>1. /\ n \in Nat /\ \A k \in 1 .. n : b[k] \in Entry
      /\ \A k \in 1 .. n : F[k] = VerifyWith(kind, F[k - 1], b[k])
  BY ReplayUnfolds
<1> HIDE DEF n, F
<1>2. ASSUME NEW k \in 1 .. n, F[k].ok
      PROVE  F[k - 1].ok /\ kind[b[k].tx] # "keyMismatch"
  <2>1. /\ F[k - 1].ok
        /\ Verdict(F[k - 1].db, b[k].tx, kind[b[k].tx]).confirmed
    <3>1. F[k] = VerifyWith(kind, F[k - 1], b[k])
      BY <1>1
    <3>2. \A P, e : VerifyWith(kind, P, e).ok => P.ok /\ Verdict(P.db, e.tx, kind[e.tx]).confirmed
      BY DEF VerifyWith
    <3>3. VerifyWith(kind, F[k - 1], b[k]).ok
      BY <1>2, <3>1, Zenon
    <3> QED  BY <3>2, <3>3, Zenon
  <2>2. ASSUME kind[b[k].tx] = "keyMismatch"
        PROVE  ~Verdict(F[k - 1].db, b[k].tx, kind[b[k].tx]).confirmed
    BY <2>2 DEF Verdict
  <2> QED  BY <1>2, <2>1, <2>2
<1>3. 0 \in T
  BY <1>1 DEF n, F, ReplayWith
<1>4. ASSUME NEW m \in 1 .. n, m - 1 \in T PROVE m \in T
  <2>1. n - m + 1 \in 1 .. n /\ n - (m - 1) = n - m + 1 /\ (n - m + 1) - 1 = n - m /\ m - 1 <= n
    BY <1>1
  <2>2. F[n - m + 1].ok
    BY <1>4, <2>1
  <2> QED  BY <1>1, <1>2, <2>1, <2>2
<1> HIDE DEF T
<1>5. \A m \in 0 .. n : m \in T
  BY <1>1, <1>3, <1>4, UpTo
<1>6. ASSUME NEW k \in 1 .. n PROVE kind[b[k].tx] # "keyMismatch"
  <2>1. n - k + 1 \in 0 .. n /\ n - k + 1 >= 1 /\ n - (n - k + 1) + 1 = k /\ n - k + 1 <= n
    BY <1>1
  <2>2. n - k + 1 \in T
    BY <1>5, <2>1
  <2> QED  BY <2>1, <2>2 DEF T
<1> QED  BY <1>6 DEF Matching, Without, n

\* No entry, no transaction.
LEMMA TxsEmpty ==
    ASSUME NEW c \in Seq(Tx)
    PROVE  c \o Txs(<<>>) = c
<1>1. Txs(<<>>) = <<>>
  BY DEF Txs
<1> QED  BY <1>1

\* An empty proposal is sound.
LEMMA SoundEmpty ==
    ASSUME NEW K, NEW c \in Seq(Tx), NEW db \in Ledger, Consecutive(c),
           \A i \in Issuer : Count(c, i) = db.nonce[i]
    PROVE  /\ Sound(c, ReplayWith(K, db, <<>>), <<>>)
           /\ ReplayWith(K, db, <<>>).db = db
           /\ ReplayWith(K, db, <<>>).size = 0
<1>1. ReplayWith(K, db, <<>>) = Fresh(db)
  BY ReplayEmpty
<1>2. c \o Txs(<<>>) = c
  BY TxsEmpty
<1> DEFINE P == ReplayWith(K, db, <<>>)
<1>3. P.ok = TRUE /\ P.db = db /\ P.size = 0
  BY <1>1 DEF Fresh
<1> HIDE DEF P
<1>4. Sound(c, P, <<>>)
  BY <1>2, <1>3 DEF Sound
<1> QED  BY <1>3, <1>4 DEF P

\* A transaction that the verifier accepts and that is the next one of its
\* domain keeps the proposal sound.
LEMMA SoundAppend ==
    ASSUME NEW K, NEW c \in Seq(Tx), NEW b \in Seq(Entry), NEW e \in Entry, NEW P,
           Sound(c, P, b), P.size \in Nat,
           Verdict(P.db, e.tx, K[e.tx]).confirmed,
           P.db.nonce[issuerOf[e.tx]] + 1 = nonceOf[e.tx],
           P.size + packedSizeOf[e.tx] < MaxDataBlockSize,
           K[e.tx] \notin {"broke", "nonceFault"}
    PROVE  Sound(c, VerifyWith(K, P, e), Append(b, e))
<1> DEFINE t == e.tx
           r == Verdict(P.db, t, K[t])
           base == IF r.result = "valid" THEN AfterCode(P.db, r) ELSE P.db
           Q == VerifyWith(K, P, e)
           s == c \o Txs(b)
<1>1. s \in Seq(Tx) /\ t \in Tx /\ c \o Txs(Append(b, e)) = Append(s, t)
  BY TxsAppend
<1>2. /\ P.db \in Ledger /\ P.ok = TRUE /\ Consecutive(s)
      /\ \A i \in Issuer : Count(s, i) = P.db.nonce[i]
  BY DEF Sound
<1>3. Q.ok = TRUE /\ Q.db = Charged(base, r)
  BY <1>2 DEF VerifyWith
<1> HIDE DEF t
<1>4. r \in Receipt /\ r.tx = t
  <2> DEFINE d == P.db
             k == K[t]
  <2>1. t \in Tx
    BY <1>1
  <2> HIDE DEF d, k
  <2>2. Verdict(d, t, k) \in Receipt /\ Verdict(d, t, k).tx = t
    BY ONLY <2>1, VerdictFacts
  <2> QED  BY <2>2 DEF d, k
<1> HIDE DEF r, Q, s
<1>5. base \in Ledger /\ base.nonce = P.db.nonce
  BY <1>2, <1>4, AfterCodeFacts
<1> HIDE DEF base
<1>6. /\ Charged(base, r) \in Ledger
      /\ \A i \in Issuer :
           Charged(base, r).nonce[i] = IF i = issuerOf[t] THEN P.db.nonce[i] + 1 ELSE P.db.nonce[i]
  <2>1. Charged(base, r) \in Ledger /\ Charged(base, r).nonce = IncNonce(base, t).nonce
    BY <1>4, <1>5, ChargedFacts
  <2>2. \A i \in Issuer :
           IncNonce(base, t).nonce[i] = IF i = issuerOf[t] THEN base.nonce[i] + 1 ELSE base.nonce[i]
    BY <1>1, <1>5, IncNonceFacts
  <2> QED  BY <1>5, <2>1, <2>2
<1>7. issuerOf[t] \in Issuer /\ nonceOf[t] = Count(s, issuerOf[t]) + 1
  BY <1>1, <1>2, FormationAssumption DEF t
<1>8. Consecutive(Append(s, t))
  BY <1>1, <1>2, <1>7, ConsecutiveAppend
<1>9. ASSUME NEW i \in Issuer PROVE Count(Append(s, t), i) = Q.db.nonce[i]
  BY <1>1, <1>2, <1>3, <1>6, CountAppend
<1> QED  BY <1>1, <1>3, <1>6, <1>8, <1>9 DEF Sound, t, Q

-----------------------------------------------------------------------------
(* The steps.                                                              *)

\* What is in the mem-pool is settled, and stays so.
LEMMA KindStays ==
    ASSUME KindInv, pool' \subseteq pool, UNCHANGED <<kind, block>>,
           pc' = "publish" => pc = "publish" /\ UNCHANGED formed
    PROVE  KindInv'
  BY DEF KindInv, Settled, Without

\* The chain and the state under it stay.
LEMMA NonceStays ==
    ASSUME NonceInv, UNCHANGED <<ledger, chain>>
    PROVE  NonceInv'
  BY DEF NonceInv

\* The replay of the proposal so far depends on the kinds, the state and the
\* proposal only.
LEMMA SoFarStays ==
    ASSUME UNCHANGED <<kind, ledger, chain, block>>
    PROVE  /\ SoFar' = SoFar /\ (SoundSoFar' <=> SoundSoFar)
           /\ Matching(block)' <=> Matching(block)
  BY DEF SoFar, SoundSoFar, Matching, Without

\* registerTransaction(): nobody changes what is settled.
LEMMA RegisterReplay ==
    ASSUME IInv, ReplayInv, NEW t \in Tx, Register(t)
    PROVE  ReplayInv'
<1>0. /\ pool' = pool \cup {t}
      /\ UNCHANGED <<processed, trigger, invalid, deletion, ledger, chain, flow, pc, batch,
                     idx, receipt, block, used, fees, count, succeeded, mark, retry, formed,
                     attempts, stopping, aborted>>
      /\ kind \in [Tx -> Kind \cup {"new"}]
      /\ KindInv
  BY DEF Register, blockVars, IInv, ShapeInv, PoolTypes, ReplayInv
<1>1. PICK k \in IF kind[t] = "new" THEN kindsOf[t] ELSE {kind[t]} : kind' = [kind EXCEPT ![t] = k]
  BY DEF Register
<1>2. \A u \in Tx : kind[u] # "new" => kind'[u] = kind[u]
  BY <1>0, <1>1
<1>3. kind'[t] \in kindsOf[t] /\ kind'[t] # "new"
  <2>1. k \in kindsOf[t]
    BY <1>0, <1>1 DEF KindInv
  <2>2. "new" \notin kindsOf[t]
    BY FormationAssumption DEF Kind
  <2> QED  BY <1>0, <1>1, <2>1, <2>2
<1>4. ASSUME NEW b \in Seq(Entry), Settled(b)
      PROVE  /\ \A j \in 1 .. Len(b) : kind'[b[j].tx] = kind[b[j].tx]
             /\ ReplayWith(kind', ledger, b) = ReplayWith(kind, ledger, b)
  <2>1. \A j \in 1 .. Len(b) : b[j].tx \in Tx
    <3>1. \A j \in 1 .. Len(b) : b[j] \in Entry
      OBVIOUS
    <3> QED  BY <3>1 DEF Entry
  <2>2. \A j \in 1 .. Len(b) : kind'[b[j].tx] = kind[b[j].tx]
    BY <1>2, <1>4, <2>1 DEF Settled, Without
  <2> QED  BY <2>2, ReplaySameKinds
<1>5. block \in Seq(Entry) /\ (pc = "publish" => formed.txs \in Seq(Entry))
  BY DEF IInv, ShapeInv, BlockTypes, Proposal
<1>6. SoFar' = SoFar /\ Settled(block)' /\ (Matching(block)' <=> Matching(block))
  BY <1>0, <1>4, <1>5 DEF SoFar, KindInv, Settled, Matching, Without
<1>7. pc = "publish" =>
        /\ Handed' = Handed /\ Settled(formed.txs)'
        /\ Matching(formed.txs)' <=> Matching(formed.txs)
  BY <1>0, <1>4, <1>5 DEF Handed, KindInv, Settled, Matching, Without
<1>8. pc \in InFlow => receipt.tx \in Tx /\ kind'[receipt.tx] = kind[receipt.tx]
  BY <1>0, <1>2, InFlowFacts DEF KindInv
<1>9. KindInv'
  <2>1. \A u \in Tx : kind'[u] # "new" => kind'[u] \in kindsOf[u]
    <3>1. ASSUME NEW u \in Tx, u # t PROVE kind'[u] = kind[u]
      BY <1>0, <1>1, <3>1
    <3> QED  BY <1>0, <1>3, <3>1 DEF KindInv
  <2>2. \A u \in pool' : kind'[u] # "new"
    <3>1. pool \subseteq Tx
      BY DEF IInv, ShapeInv, PoolTypes
    <3> QED  BY <1>0, <1>2, <1>3, <3>1 DEF KindInv
  <2> QED  BY <1>0, <1>6, <1>7, <2>1, <2>2 DEF KindInv
<1>10. NonceInv'
  BY <1>0, NonceStays DEF ReplayInv
<1>11. SoundSoFar' <=> SoundSoFar
  BY <1>0, <1>6 DEF SoundSoFar
<1>12. ProposalInv'
  BY <1>0, <1>6, <1>11 DEF ReplayInv, ProposalInv
<1>13. StateInv'
  <2>1. pc \in InFlow => (SameVerdict' <=> SameVerdict)
    BY <1>0, <1>6, <1>8 DEF SameVerdict
  <2>2. pc \in InFlow => VerifyWith(kind', SoFar, receipt) = VerifyWith(kind, SoFar, receipt)
    BY <1>8 DEF VerifyWith
  <2> QED  BY <1>0, <1>6, <1>8, <2>1, <2>2 DEF ReplayInv, StateInv, Tracked, InFlow
<1>14. RetryInv'
  BY <1>0, <1>6, <1>11 DEF ReplayInv, RetryInv
<1>15. PublishInv'
  BY <1>0, <1>7 DEF ReplayInv, PublishInv
<1> QED  BY <1>9, <1>10, <1>12, <1>13, <1>14, <1>15 DEF ReplayInv

\* cleanMemPool(), a stop request, or nothing at all.
LEMMA QuietReplay ==
    ASSUME ReplayInv, pool' \subseteq pool,
           UNCHANGED <<kind, ledger, chain, flow, pc, receipt, block, used, fees, mark, formed,
                       aborted>>
    PROVE  ReplayInv'
<1>1. KindInv'
  BY KindStays DEF ReplayInv
<1>2. NonceInv'
  BY NonceStays DEF ReplayInv
<1>3. /\ SoFar' = SoFar /\ (SoundSoFar' <=> SoundSoFar)
      /\ Matching(block)' <=> Matching(block)
  BY SoFarStays
<1>4. ProposalInv'
  BY <1>3 DEF ReplayInv, ProposalInv
<1>5. StateInv'
  BY <1>3 DEF ReplayInv, StateInv, Tracked, SameVerdict
<1>6. RetryInv'
  BY <1>3 DEF ReplayInv, RetryInv
<1>7. PublishInv'
  BY DEF ReplayInv, PublishInv, Handed, Matching, Without
<1> QED  BY <1>1, <1>2, <1>4, <1>5, <1>6, <1>7 DEF ReplayInv

\* The first part of formBlock()
LEMMA StartBlockReplay ==
    ASSUME IInv, ReplayInv, StartBlock
    PROVE  ReplayInv'
<1>0. /\ pc' = "loop" /\ flow' = StartedFlow(ledger, flow.depth)
      /\ block' = <<>> /\ used' = 0 /\ fees' = 0 /\ mark' = TRUE
      /\ UNCHANGED <<pool, kind, ledger, chain>>
  BY DEF StartBlock, poolVars
<1>1. ledger \in Ledger /\ chain \in Seq(Tx)
  BY DEF IInv, ShapeInv, PoolTypes
<1>2. Consecutive(chain) /\ \A i \in Issuer : Count(chain, i) = ledger.nonce[i]
  BY DEF ReplayInv, NonceInv
<1>3. flow'.db = ledger
  BY <1>0 DEF StartedFlow
<1>4. KindInv'
  BY <1>0 DEF ReplayInv, KindInv, Settled, Without
<1>5. NonceInv'
  BY <1>0, NonceStays DEF ReplayInv
<1>6. SoundSoFar' /\ SoFar'.db = ledger /\ SoFar'.size = 0
  <2>1. SoFar' = ReplayWith(kind, ledger, <<>>)
    BY <1>0 DEF SoFar
  <2>2. Sound(chain, SoFar', <<>>) /\ SoFar'.db = ledger /\ SoFar'.size = 0
    BY <1>1, <1>2, <2>1, SoundEmpty
  <2> QED  BY <1>0, <2>2 DEF SoundSoFar
<1>7. FeesIn(block)' = 0
  BY <1>0, FeesEmpty
<1>8. ProposalInv'
  BY <1>0, <1>6, <1>7 DEF ProposalInv
<1>9. StateInv'
  BY <1>0, <1>3, <1>6 DEF StateInv, Tracked
<1>10. RetryInv' /\ PublishInv'
  BY <1>0 DEF RetryInv, PublishInv
<1> QED  BY <1>4, <1>5, <1>8, <1>9, <1>10 DEF ReplayInv

\* processTransaction(): the state it starts from is the replay so far.
LEMMA ProcessTransactionReplay ==
    ASSUME IInv, ReplayInv, ProcessTransaction
    PROVE  ReplayInv'
<1> DEFINE t == batch[idx]
           r == Verdict(flow.db, t, kind[t])
<1>0. /\ pc = "loop" /\ LoopGoesOn /\ receipt' = r
      /\ flow' = Executed(SelectObject(flow, t), r)
      /\ pc' = IF r.include /\ r.confirmed THEN "fees" ELSE "append"
      /\ UNCHANGED <<pool, kind, ledger, chain, block, used, fees, mark, formed, aborted>>
  BY DEF ProcessTransaction, blockVars
<1>1. t \in Tx /\ t \in pool
  <2>1. batch \in Seq(Tx) /\ idx \in Nat /\ idx >= 1 /\ idx <= Len(batch)
    BY <1>0 DEF IInv, ShapeInv, StageTypes, BatchInv, LoopGoesOn
  <2>2. idx \in 1 .. Len(batch) /\ idx \in idx .. Len(batch)
    BY <2>1
  <2> QED  BY <1>0, <2>1, <2>2 DEF IInv, BatchInv, Unprocessed
<1> HIDE DEF t
<1>2. r \in Receipt /\ r.tx = t
  BY <1>1, VerdictFacts
<1>3. kind[t] # "keyMismatch" => (r.include => r.confirmed)
  BY <1>1, VerdictIncluded
<1>4. /\ SoFar' = SoFar /\ (SoundSoFar' <=> SoundSoFar)
      /\ Matching(block)' <=> Matching(block)
  BY <1>0, SoFarStays
<1>5. r.result = "valid" => r.include /\ r.confirmed
  <2>1. \/ r.result \in {"pubNotMatch", "invalidSig", "invalidNonce", "invalidBalance", "invalid"}
        \/ r.include /\ r.confirmed
    BY DEF Verdict
  <2> QED  BY <2>1
<1>6. pc' \in {"fees", "append"} /\ (pc' = "append" => ~(r.include /\ r.confirmed))
  BY <1>0
<1>7. KindInv'
  BY <1>0, <1>6, KindStays DEF ReplayInv
<1>8. NonceInv'
  BY <1>0, NonceStays DEF ReplayInv
<1>9. ProposalInv'
  BY <1>0, <1>4 DEF ReplayInv, ProposalInv, InFlow
<1>10. StateInv'
  <2>1. SUFFICES ASSUME Matching(block) PROVE Tracked'
    BY <1>4 DEF StateInv
  <2>2. flow.db = SoFar.db
    BY <1>0, <2>1 DEF ReplayInv, StateInv, Tracked
  <2>3. receipt' = Verdict(SoFar.db, t, kind[t])
    BY <1>0, <2>2
  <2> HIDE DEF r
  <2>4. flow'.persps[2] = flow.db /\ flow'.db = AfterCode(flow.db, r) /\ Stacked(flow', 1)
    <3>1. flow \in Flow /\ LevelZero(flow)
      BY <1>0 DEF IInv, ShapeInv, FlowInv
    <3> QED  BY <1>0, <1>1, <1>2, <3>1, ExecutedFlow
  <2>5. receipt'.tx = t /\ SameVerdict'
    BY <1>0, <1>2, <1>4, <2>3 DEF SameVerdict
  <2>6. pc' = "append" => ~(receipt'.include /\ kind'[receipt'.tx] # "keyMismatch")
    BY <1>0, <1>3, <1>6, <2>5
  <2> QED  BY <1>0, <1>4, <1>6, <2>2, <2>4, <2>5, <2>6 DEF Tracked
<1>11. RetryInv' /\ PublishInv'
  BY <1>6 DEF RetryInv, PublishInv
<1> QED  BY <1>7, <1>8, <1>9, <1>10, <1>11 DEF ReplayInv

\* Steps of a transaction that leave the proposal as it is.
LEMMA ProposalStays ==
    ASSUME ReplayInv, pc \in InFlow, pc' \in InFlow, pool' \subseteq pool,
           UNCHANGED <<kind, ledger, chain, block, used, fees, formed>>,
           pc' # "final" => UNCHANGED mark /\ pc # "final"
    PROVE  /\ KindInv' /\ NonceInv' /\ ProposalInv' /\ RetryInv' /\ PublishInv'
           /\ SoFar' = SoFar /\ (Matching(block)' <=> Matching(block))
<1>1. pc' \notin {"retry", "check", "publish", "loop"}
  BY DEF InFlow
<1>2. KindInv'
  BY <1>1, KindStays DEF ReplayInv
<1>3. NonceInv'
  BY NonceStays DEF ReplayInv
<1>4. /\ SoFar' = SoFar /\ (SoundSoFar' <=> SoundSoFar)
      /\ Matching(block)' <=> Matching(block)
  BY SoFarStays
<1>5. ProposalInv'
  BY <1>1, <1>4 DEF ReplayInv, ProposalInv
<1>6. RetryInv' /\ PublishInv'
  BY <1>1 DEF RetryInv, PublishInv
<1> QED  BY <1>2, <1>3, <1>4, <1>5, <1>6

\* Fees, nonce and receipt: the verifier charges the same.
LEMMA ImposeFeesReplay ==
    ASSUME IInv, ReplayInv, NEW hit, ImposeFees(hit)
    PROVE  ReplayInv'
<1>0. /\ pc = "fees" /\ pc' = "append"
      /\ kind[receipt.tx] \notin {"broke", "nonceFault"}
      /\ flow' = PopDB([BeforeFees(hit) EXCEPT !.db = Charged(@, receipt)], 1)
      /\ UNCHANGED <<pool, kind, ledger, chain, receipt, block, used, fees, mark, formed>>
  BY DEF ImposeFees
<1>1. pc \in InFlow /\ pc' \in InFlow
  BY <1>0 DEF InFlow
<1>2. /\ KindInv' /\ NonceInv' /\ ProposalInv' /\ RetryInv' /\ PublishInv'
      /\ SoFar' = SoFar /\ (Matching(block)' <=> Matching(block))
  BY <1>0, <1>1, ProposalStays
<1>3. /\ flow \in Flow /\ receipt \in Receipt /\ Stacked(flow, 1)
  BY <1>0, <1>1, InFlowFacts, FeesFacts
<1>4. /\ receipt.result = "valid" =>
           /\ Stacked(flow', 1) /\ flow'.persps[2] = flow.persps[2]
           /\ flow'.db = Charged(flow.db, receipt)
      /\ receipt.result # "valid" =>
           Stacked(flow', 0) /\ flow'.db = Charged(flow.persps[2], receipt)
  BY <1>0, <1>3, ChargedFlow
<1>5. StateInv'
  <2>1. SUFFICES ASSUME Matching(block) PROVE Tracked'
    BY <1>2 DEF StateInv
  <2>2. /\ SameVerdict
        /\ flow.persps[2] = SoFar.db /\ flow.db = AfterCode(SoFar.db, receipt)
    BY <1>0, <2>1 DEF ReplayInv, StateInv, Tracked
  <2>3. VerifyWith(kind, SoFar, receipt).db =
          Charged(IF receipt.result = "valid" THEN AfterCode(SoFar.db, receipt) ELSE SoFar.db, receipt)
    <3>1. receipt = Verdict(SoFar.db, receipt.tx, kind[receipt.tx])
      BY <2>2 DEF SameVerdict
    <3>2. VerifyWith(kind, SoFar, receipt).db =
            Charged(IF Verdict(SoFar.db, receipt.tx, kind[receipt.tx]).result = "valid"
                    THEN AfterCode(SoFar.db, Verdict(SoFar.db, receipt.tx, kind[receipt.tx]))
                    ELSE SoFar.db, Verdict(SoFar.db, receipt.tx, kind[receipt.tx]))
      BY DEF VerifyWith
    <3> QED  BY <3>1, <3>2
  <2>4. flow'.db = VerifyWith(kind, SoFar, receipt).db
    BY <1>4, <2>2, <2>3
  <2>5. Stacked(flow', 1) => flow'.persps[2] = SoFar.db
    <3>1. ~(Stacked(flow', 0) /\ Stacked(flow', 1))
      BY DEF Stacked
    <3> QED  BY <1>4, <2>2, <3>1
  <2>6. SameVerdict'
    BY <1>0, <1>2, <2>2 DEF SameVerdict
  <2> QED  BY <1>0, <1>2, <1>4, <2>4, <2>5, <2>6 DEF Tracked
<1> QED  BY <1>2, <1>5 DEF ReplayInv

\* The fees cannot be deducted, or the nonce cannot be stored: the state before
\* the transaction is still at hand.
LEMMA FeesFailReplay ==
    ASSUME IInv, ReplayInv, NEW hit, FeesFail(hit) \/ NonceFails(hit)
    PROVE  ReplayInv'
<1> DEFINE b == BeforeFees(hit)
<1>0. /\ pc = "fees" /\ pc' = "final"
      /\ flow' = b \/ flow' = [b EXCEPT !.db = IncNonce(@, receipt.tx)]
      /\ \/ receipt' = [receipt EXCEPT !.result = "invalidBalance", !.include = FALSE]
         \/ receipt' = [receipt EXCEPT !.include = FALSE]
      /\ UNCHANGED <<pool, kind, ledger, chain, block, used, fees, mark, formed>>
  BY DEF FeesFail, NonceFails, blockVars, poolVars
<1>1. pc \in InFlow /\ pc' \in InFlow
  BY <1>0 DEF InFlow
<1>2. /\ KindInv' /\ NonceInv' /\ ProposalInv' /\ RetryInv' /\ PublishInv'
      /\ SoFar' = SoFar /\ (Matching(block)' <=> Matching(block))
  BY <1>0, <1>1, ProposalStays
<1>3. flow \in Flow /\ receipt \in Receipt /\ Stacked(flow, 1)
  BY <1>0, <1>1, InFlowFacts, FeesFacts
<1>4. b \in Flow /\ b.persps[2] = flow.persps[2]
  BY <1>3, BeforeFeesFlow
<1> HIDE DEF b
<1>5. flow'.persps[2] = flow.persps[2]
  BY <1>0, <1>4 DEF Flow, FlowType
<1>6. receipt'.include = FALSE
  BY <1>0, <1>3 DEF Receipt
<1>7. Matching(block) => flow.persps[2] = SoFar.db
  BY <1>0 DEF ReplayInv, StateInv, Tracked
<1>8. mark
  BY <1>0 DEF ReplayInv, ProposalInv, InFlow
<1>9. StateInv'
  BY <1>0, <1>2, <1>5, <1>6, <1>7, <1>8 DEF StateInv, Tracked
<1> QED  BY <1>2, <1>9 DEF ReplayInv

\* The limit of the block: a successful transaction is taken back whole.
LEMMA LimitReachedReplay ==
    ASSUME IInv, ReplayInv, NEW hit, LimitReached(hit)
    PROVE  ReplayInv'
<1>0. /\ pc = "append" /\ pc' = "final" /\ receipt.include
      /\ flow' = StepBack(flow, 1, hit) /\ mark' = FALSE
      /\ UNCHANGED <<pool, kind, ledger, chain, receipt, block, used, fees, formed>>
  BY DEF LimitReached
<1>1. pc \in InFlow /\ pc' \in InFlow
  BY <1>0 DEF InFlow
<1>2. /\ KindInv' /\ NonceInv' /\ ProposalInv' /\ RetryInv' /\ PublishInv'
      /\ SoFar' = SoFar /\ (Matching(block)' <=> Matching(block))
  BY <1>0, <1>1, ProposalStays
<1>3. flow \in Flow
  BY <1>1, InFlowFacts
<1>4. ASSUME Matching(block), receipt.result = "valid" PROVE flow'.db = SoFar.db
  <2>1. Stacked(flow, 1) /\ flow.persps[2] = SoFar.db
    BY <1>0, <1>4 DEF ReplayInv, StateInv, Tracked
  <2>2. 1 \in 1 .. 1 /\ 1 - 1 + 2 = 2
    OBVIOUS
  <2>3. flow'.db = flow.persps[1 - 1 + 2]
    BY <1>0, <1>3, <2>1, <2>2, StepBackStacked DEF Flow
  <2> QED  BY <2>1, <2>2, <2>3
<1>5. StateInv'
  BY <1>0, <1>2, <1>4 DEF StateInv, Tracked
<1> QED  BY <1>2, <1>5 DEF ReplayInv

\* The transaction enters the proposal, or not: the replay goes along.
LEMMA AppendToBlockReplay ==
    ASSUME IInv, ReplayInv, AppendToBlock
    PROVE  ReplayInv'
<1> DEFINE e == [tx |-> receipt.tx, result |-> receipt.result]
<1>0. /\ pc = "append" /\ pc' = "final"
      /\ receipt.include => ~Exceeds
      /\ IF receipt.include
         THEN /\ block' = Append(block, e)
              /\ used' = used + packedSizeOf[receipt.tx]
              /\ fees' = fees + FeesOf(receipt)
         ELSE UNCHANGED <<block, used, fees>>
      /\ UNCHANGED <<pool, kind, ledger, chain, flow, receipt, mark, formed>>
  BY DEF AppendToBlock
<1>1. pc \in InFlow /\ pc' \in InFlow
  BY <1>0 DEF InFlow
<1>2. receipt \in Receipt /\ receipt.tx \in Tx /\ receipt.tx \in pool
  BY <1>1, InFlowFacts
<1>3. /\ Matching(block) => SoundSoFar
      /\ SoFar.size = used /\ FeesIn(block) = fees /\ mark
      /\ block \in Seq(Entry) /\ chain \in Seq(Tx) /\ used \in Nat
  BY <1>0, <1>1 DEF ReplayInv, ProposalInv, IInv, ShapeInv, PoolTypes, BlockTypes
<1>4. CASE ~receipt.include
  <2>1. UNCHANGED <<kind, ledger, chain, block, used, fees, formed>> /\ pool' \subseteq pool
    BY <1>0, <1>4
  <2>2. /\ KindInv' /\ NonceInv' /\ ProposalInv' /\ RetryInv' /\ PublishInv'
        /\ SoFar' = SoFar /\ (Matching(block)' <=> Matching(block))
    BY <1>0, <1>1, <2>1, ProposalStays
  <2>3. Matching(block) => flow.persps[2] = SoFar.db
    BY <1>0, <1>4 DEF IInv, FlowInv, ReplayInv, StateInv, Tracked
  <2>4. StateInv'
    BY <1>0, <1>3, <1>4, <2>2, <2>3 DEF StateInv, Tracked
  <2> QED  BY <2>2, <2>4 DEF ReplayInv
<1>5. CASE receipt.include
  <2>1. e \in Entry /\ e.tx = receipt.tx /\ e.result = receipt.result
    BY <1>2 DEF Receipt, Entry
  <2>2. VerifyWith(kind, SoFar, e) = VerifyWith(kind, SoFar, receipt)
    BY <2>1 DEF VerifyWith
  <2>3. FeesOf(e) = FeesOf(receipt)
    BY <2>1 DEF FeesOf, Ran
  <2> HIDE DEF e
  <2>4. SoFar' = VerifyWith(kind, SoFar, e)
    <3>1. ReplayWith(kind, ledger, Append(block, e)) =
            VerifyWith(kind, ReplayWith(kind, ledger, block), e)
      BY ONLY <1>3, <2>1, ReplayAppend
    <3> QED  BY <1>0, <1>5, <3>1 DEF SoFar
  <2>5. packedSizeOf[e.tx] \in Nat /\ SoFar.size + packedSizeOf[e.tx] < MaxDataBlockSize
    BY <1>0, <1>2, <1>3, <1>5, <2>1, FormationAssumption DEF Exceeds
  <2>6. /\ Settled(Append(block, e)) <=> Settled(block) /\ kind[e.tx] # "new"
        /\ Matching(Append(block, e)) <=> Matching(block) /\ kind[e.tx] # "keyMismatch"
    BY <1>3, <2>1, WithoutAppend DEF Settled, Matching
  <2>7. ASSUME Matching(block), kind[e.tx] # "keyMismatch"
        PROVE  SoundSoFar' /\ flow.db = SoFar'.db
    <3> DEFINE P == SoFar
    <3>1. /\ SameVerdict
          /\ kind[receipt.tx] \notin {"broke", "nonceFault"}
          /\ flow.db = VerifyWith(kind, SoFar, receipt).db
      BY <1>0, <1>5, <2>1, <2>7 DEF ReplayInv, StateInv, Tracked
    <3>2. /\ Verdict(SoFar.db, e.tx, kind[e.tx]).confirmed
          /\ SoFar.db.nonce[issuerOf[e.tx]] + 1 = nonceOf[e.tx]
      BY <1>2, <1>5, <2>1, <2>7, <3>1, VerdictIncluded DEF SameVerdict
    <3>3. Sound(chain, P, block) /\ P.size \in Nat
      BY <1>3, <2>7 DEF SoundSoFar
    <3>4. kind[e.tx] \notin {"broke", "nonceFault"}
      BY <2>1, <3>1
    <3>5. /\ Verdict(P.db, e.tx, kind[e.tx]).confirmed
          /\ P.db.nonce[issuerOf[e.tx]] + 1 = nonceOf[e.tx]
          /\ P.size + packedSizeOf[e.tx] < MaxDataBlockSize
      BY <2>5, <3>2
    <3> HIDE DEF P
    <3>6. Sound(chain, VerifyWith(kind, P, e), Append(block, e))
      BY <1>3, <2>1, <3>3, <3>4, <3>5, SoundAppend
    <3>7. Sound(chain, SoFar', Append(block, e))
      BY <2>4, <3>6 DEF P
    <3> QED  BY <1>0, <1>5, <2>2, <2>4, <3>1, <3>7 DEF SoundSoFar
  <2>8. SoFar'.size = used'
    <3>1. SoFar'.size = SoFar.size + packedSizeOf[e.tx]
      BY <2>4 DEF VerifyWith
    <3> QED  BY <1>0, <1>3, <1>5, <2>1, <3>1
  <2>9. FeesIn(block)' = fees'
    <3>1. FeesIn(Append(block, e)) = FeesIn(block) + FeesOf(e)
      BY <1>3, <2>1, FeesAppend
    <3> QED  BY <1>0, <1>3, <1>5, <2>3, <3>1
  <2>10. KindInv'
    <3>1. kind[e.tx] # "new" /\ Settled(block)
      BY <1>2, <2>1 DEF ReplayInv, KindInv
    <3>2. Settled(block)'
      BY <1>0, <1>5, <2>6, <3>1 DEF Settled, Without
    <3> QED  BY <1>0, <3>2 DEF ReplayInv, KindInv
  <2>11. Matching(block)' => Matching(block) /\ kind[e.tx] # "keyMismatch"
    BY <1>0, <1>5, <2>6 DEF Matching, Without
  <2>12. NonceInv'
    BY <1>0, NonceStays DEF ReplayInv
  <2>13. ProposalInv'
    BY <1>0, <2>7, <2>8, <2>9, <2>11 DEF ProposalInv
  <2>14. StateInv'
    BY <1>0, <1>5, <2>7, <2>11 DEF StateInv, Tracked
  <2>15. RetryInv' /\ PublishInv'
    BY <1>0 DEF RetryInv, PublishInv
  <2> QED  BY <2>10, <2>12, <2>13, <2>14, <2>15 DEF ReplayInv
<1> QED  BY <1>4, <1>5

\* The finalizer of an iteration
LEMMA FinalizeTxReplay ==
    ASSUME IInv, ReplayInv, NEW hit, FinalizeTx(hit)
    PROVE  ReplayInv'
<1>0. /\ pc = "final"
      /\ flow' = Finalized(flow, receipt, hit)
      /\ pc' = IF mark THEN "loop" ELSE "check"
      /\ UNCHANGED <<pool, kind, ledger, chain, receipt, block, used, fees, mark, formed>>
  BY DEF FinalizeTx, blockVars, poolVars
<1>1. pc \in InFlow
  BY <1>0 DEF InFlow
<1>2. flow \in Flow /\ receipt \in Receipt
  BY <1>1, InFlowFacts
<1>3. /\ SoFar.size = used /\ FeesIn(block) = fees
      /\ Matching(block) =>
           /\ SoundSoFar
           /\ receipt.include /\ (mark \/ receipt.result = "valid") => flow.db = SoFar.db
           /\ ~receipt.include => mark /\ flow.persps[2] = SoFar.db
  BY <1>0, <1>1 DEF ReplayInv, ProposalInv, StateInv, Tracked
<1>4. Matching(block) /\ (mark \/ receipt.result = "valid") => flow'.db = SoFar.db
  <2>0. \/ Stacked(flow, 1) \/ Stacked(flow, 2)
        \/ receipt.include /\ (Stacked(flow, 0) \/ Emptied(flow))
    BY <1>0 DEF IInv, FlowInv
  <2>1. CASE receipt.include
    <3>1. /\ \A n \in Nat : Stacked(flow, n) => flow'.db = flow.db
          /\ Emptied(flow) => flow'.db = flow.db
      BY <1>0, <1>2, <2>1, FinalizedIncluded
    <3>2. 0 \in Nat /\ 1 \in Nat /\ 2 \in Nat
      OBVIOUS
    <3> QED  BY <1>3, <2>0, <2>1, <3>1, <3>2
  <2>2. CASE ~receipt.include
    <3>1. ASSUME NEW n \in Nat \ {0}, Stacked(flow, n)
          PROVE  flow'.db = flow.persps[2]
      BY <1>0, <1>2, <2>2, <3>1, FinalizedExcluded
    <3>2. 1 \in Nat \ {0} /\ 2 \in Nat \ {0}
      OBVIOUS
    <3> QED  BY <1>3, <2>0, <2>2, <3>1, <3>2
  <2> QED  BY <2>1, <2>2
<1>5. /\ SoFar' = SoFar /\ (SoundSoFar' <=> SoundSoFar)
      /\ Matching(block)' <=> Matching(block)
  BY <1>0, SoFarStays
<1>6. pc' \in {"loop", "check"} /\ (pc' = "loop" => mark)
  BY <1>0
<1>7. KindInv'
  BY <1>0, <1>6, KindStays DEF ReplayInv
<1>8. NonceInv'
  BY <1>0, NonceStays DEF ReplayInv
<1>9. ProposalInv'
  BY <1>0, <1>3, <1>5, <1>6 DEF ProposalInv, InFlow
<1>10. StateInv'
  BY <1>4, <1>5, <1>6 DEF StateInv, Tracked
<1>11. RetryInv'
  BY <1>0, <1>2, <1>3, <1>4, <1>5, <1>6 DEF RetryInv
<1>12. PublishInv'
  BY <1>6 DEF PublishInv
<1> QED  BY <1>7, <1>8, <1>9, <1>10, <1>11, <1>12 DEF ReplayInv

\* The end of a loop
LEMMA EndLoopReplay ==
    ASSUME IInv, ReplayInv, StartRetry \/ EndLoop \/ EndRetry
    PROVE  ReplayInv'
<1>0. /\ \/ pc = "loop" /\ pc' \in {"retry", "check"}
         \/ pc = "retry" /\ pc' = "check"
      /\ UNCHANGED <<pool, kind, ledger, chain, flow, receipt, block, used, fees, mark, formed>>
  BY DEF StartRetry, EndLoop, EndRetry, poolVars, blockVars
<1>1. /\ SoFar' = SoFar /\ (SoundSoFar' <=> SoundSoFar)
      /\ Matching(block)' <=> Matching(block)
  BY <1>0, SoFarStays
<1>2. KindInv'
  BY <1>0, KindStays DEF ReplayInv
<1>3. NonceInv'
  BY <1>0, NonceStays DEF ReplayInv
<1>4. mark /\ (FeesIn(block) = fees /\ Matching(block) => SoundSoFar /\ flow.db = SoFar.db)
  BY <1>0 DEF ReplayInv, ProposalInv, StateInv, Tracked, RetryInv
<1>5. pc' = "retry" => FeesIn(block) \in Nat /\ FeesIn(block) >= fees
  BY <1>0 DEF ReplayInv, ProposalInv, IInv, ShapeInv, BlockTypes
<1>6. ProposalInv' /\ StateInv' /\ PublishInv'
  BY <1>0 DEF ProposalInv, StateInv, Tracked, PublishInv, InFlow
<1>7. RetryInv'
  BY <1>0, <1>1, <1>4, <1>5 DEF RetryInv
<1> QED  BY <1>2, <1>3, <1>6, <1>7 DEF ReplayInv

\* The retry loop: what it appends has fees that nobody counted.
LEMMA RetryTransactionReplay ==
    ASSUME IInv, ReplayInv, NEW hit, RetryTransaction(hit)
    PROVE  ReplayInv'
<1> DEFINE t == Head(retry)
           r == Verdict(flow.db, t, kind[t])
           f == Executed(SelectObject(flow, t), r)
           e == [tx |-> t, result |-> r.result]
<1>0. /\ pc = "retry" /\ pc' = "retry" /\ retry # <<>>
      /\ flow' = Finalized(f, r, hit)
      /\ IF r.include /\ r.confirmed THEN block' = Append(block, e) ELSE block' = block
      /\ UNCHANGED <<pool, kind, ledger, chain, receipt, used, fees, mark, formed>>
  BY DEF RetryTransaction
<1>1. t \in Tx /\ t \in pool
  <2>1. retry \in Seq(Tx) /\ \A k \in 1 .. Len(retry) : retry[k] \in pool
    BY <1>0 DEF IInv, ShapeInv, StageTypes, BatchInv
  <2>2. Len(retry) \in Nat /\ Len(retry) > 0 /\ t = retry[1]
    BY <1>0, <2>1
  <2> QED  BY <2>1, <2>2
<1> HIDE DEF t
<1>2. r \in Receipt /\ r.tx = t
  BY <1>1, VerdictFacts
<1>3. kind[t] \in kindsOf[t] /\ kind[t] # "new"
  BY <1>1 DEF ReplayInv, KindInv
<1>4. /\ mark /\ FeesIn(block) \in Nat /\ FeesIn(block) >= fees /\ fees \in Nat
      /\ FeesIn(block) = fees /\ Matching(block) => SoundSoFar /\ flow.db = SoFar.db
      /\ block \in Seq(Entry)
  BY <1>0 DEF ReplayInv, RetryInv, IInv, ShapeInv, BlockTypes
<1>5. \/ r.confirmed /\ Ran(r) /\ ergPriceOf[t] \in Nat /\ ergPriceOf[t] > 0
      \/ ~r.confirmed /\ ~Ran(r)
      \/ ~r.include
  <2>1. CASE kind[t] = "keyMismatch"
    <3>1. ~r.confirmed /\ r.result = "pubNotMatch"
      BY <2>1 DEF Verdict
    <3> QED  BY <3>1 DEF Ran
  <2>2. CASE kind[t] # "keyMismatch"
    BY <1>1, <1>3, <2>2, VerdictIncluded, IncludedPays DEF Ran
  <2> QED  BY <2>1, <2>2
<1> HIDE DEF r
<1>6. NonceInv'
  BY <1>0, NonceStays DEF ReplayInv
<1>7. ProposalInv' /\ StateInv' /\ PublishInv'
  BY <1>0 DEF ProposalInv, StateInv, Tracked, PublishInv, InFlow
<1>8. CASE r.include /\ r.confirmed
  <2>1. e \in Entry /\ e.tx = t /\ e.result = r.result /\ block' = Append(block, e)
    BY <1>0, <1>1, <1>2, <1>8 DEF Receipt, Entry
  <2>2. FeesOf(e) = ergPriceOf[t] /\ ergPriceOf[t] \in Nat /\ ergPriceOf[t] > 0
    BY <1>5, <1>8, <2>1 DEF FeesOf, Ran
  <2> HIDE DEF e
  <2>3. FeesIn(block)' = FeesIn(block) + ergPriceOf[t]
    BY <1>4, <2>1, <2>2, FeesAppend
  <2>4. FeesIn(block)' \in Nat /\ FeesIn(block)' > fees
    BY <1>4, <2>2, <2>3
  <2>5. RetryInv'
    BY <1>0, <1>4, <2>4 DEF RetryInv
  <2>6. Settled(Append(block, e)) <=> Settled(block) /\ kind[e.tx] # "new"
    BY <1>4, <2>1, WithoutAppend DEF Settled
  <2>7. Settled(block)'
    BY <1>0, <1>3, <2>1, <2>6 DEF ReplayInv, KindInv, Settled, Without
  <2>8. KindInv'
    BY <1>0, <2>7 DEF ReplayInv, KindInv
  <2> QED  BY <1>6, <1>7, <2>5, <2>8 DEF ReplayInv
<1>9. CASE ~(r.include /\ r.confirmed)
  <2>1. block' = block
    BY <1>0, <1>9
  <2>2. /\ SoFar' = SoFar /\ (SoundSoFar' <=> SoundSoFar)
        /\ Matching(block)' <=> Matching(block)
    BY <1>0, <2>1, SoFarStays
  <2>3. flow'.db = flow.db
    <3>1. flow \in Flow /\ LevelZero(flow)
      BY <1>0 DEF IInv, ShapeInv, FlowInv
    <3>2. f \in Flow /\ Stacked(f, 1) /\ f.persps[2] = flow.db /\ f.db = AfterCode(flow.db, r)
      BY <1>1, <1>2, <3>1, ExecutedFlow
    <3> HIDE DEF f
    <3>3. 1 \in Nat \ {0} /\ 1 \in Nat
      OBVIOUS
    <3>4. CASE ~r.include
      BY <1>0, <3>2, <3>3, <3>4, FinalizedExcluded
    <3>5. CASE r.include
      <4>1. AfterCode(flow.db, r) = flow.db
        BY <1>5, <1>9, <3>5 DEF AfterCode
      <4> QED  BY <1>0, <3>2, <3>3, <3>5, <4>1, FinalizedIncluded
    <3> QED  BY <3>4, <3>5
  <2>4. RetryInv'
    BY <1>0, <1>4, <2>1, <2>2, <2>3 DEF RetryInv
  <2>5. KindInv'
    BY <1>0, <2>1, KindStays DEF ReplayInv
  <2> QED  BY <1>6, <1>7, <2>4, <2>5 DEF ReplayInv
<1> QED  BY <1>8, <1>9

\* The assertions of formBlock() and abortFlow(): what passes them was charged.
LEMMA FinishBlockReplay ==
    ASSUME IInv, ReplayInv, FinishBlock
    PROVE  ReplayInv'
<1> DEFINE cut == IF mark THEN NoReceipt ELSE receipt
<1>0. /\ pc = "check"
      /\ aborted' = ~(AccountingAsserts /\ ValidatedFees = fees)
      /\ IF block = <<>>
         THEN pc' = "idle" /\ formed' = NoBlock
         ELSE pc' = "publish" /\ formed' = [txs |-> block, final |-> flow.db, cut |-> cut]
      /\ UNCHANGED <<pool, kind, ledger, chain, receipt, block, used, fees, mark>>
  BY DEF FinishBlock, blockVars, poolVars
<1>1. ~aborted' => FeesIn(block) = fees
  <2>1. ~aborted' => ValidatedFees = fees
    BY <1>0
  <2> QED  BY <2>1, ValidatedFeesAre
<1>2. /\ ~mark => receipt \in Receipt
      /\ FeesIn(block) = fees /\ Matching(block) =>
           SoundSoFar /\ (mark \/ receipt.result = "valid" => flow.db = SoFar.db)
  BY <1>0 DEF ReplayInv, RetryInv
<1>3. pc' \in {"idle", "publish"}
  BY <1>0
<1>4. pc' = "publish" => formed'.txs = block /\ formed'.final = flow.db /\ formed'.cut = cut
  BY <1>0
<1>5. KindInv'
  <2>1. KindInv
    BY DEF ReplayInv
  <2> QED  BY <1>0, <1>4, <2>1 DEF KindInv, Settled, Without
<1>6. NonceInv'
  BY <1>0, NonceStays DEF ReplayInv
<1>7. ProposalInv' /\ StateInv' /\ RetryInv'
  BY <1>3 DEF ProposalInv, StateInv, Tracked, RetryInv, InFlow
<1>8. PublishInv'
  <2>1. SUFFICES ASSUME pc' = "publish", ~aborted', Matching(formed.txs)'
                 PROVE  /\ Sound(chain', Handed', formed'.txs)
                        /\ formed'.cut = NoReceipt \/ formed'.cut.result = "valid" =>
                             Handed'.db = formed'.final
    BY DEF PublishInv
  <2>2. Handed' = SoFar
    BY <1>0, <1>4, <2>1 DEF Handed, SoFar
  <2>3. SoundSoFar /\ (mark \/ receipt.result = "valid" => flow.db = SoFar.db)
    <3>1. Matching(block)
      BY <1>0, <1>4, <2>1 DEF Matching, Without
    <3> QED  BY <1>1, <1>2, <2>1, <3>1
  <2>4. Sound(chain', Handed', formed'.txs)
    BY <1>0, <1>4, <2>1, <2>2, <2>3 DEF SoundSoFar
  <2>5. ASSUME cut = NoReceipt \/ cut.result = "valid"
        PROVE  mark \/ receipt.result = "valid"
    <3>1. \A q \in Receipt : q # NoReceipt
      BY FormationAssumption DEF Receipt, NoReceipt
    <3> QED  BY <1>2, <2>5, <3>1
  <2> HIDE DEF cut
  <2> QED  BY <1>4, <2>1, <2>2, <2>3, <2>4, <2>5
<1> QED  BY <1>5, <1>6, <1>7, <1>8 DEF ReplayInv

\* processBlock() of the proposal: the nonces of the chain and of the state go
\* up together.
LEMMA ProcessBlockReplay ==
    ASSUME IInv, ReplayInv, ~aborted, ProcessBlock
    PROVE  ReplayInv'
<1>0. /\ pc = "publish" /\ pc' = "idle"
      /\ \/ /\ Replay(ledger, formed.txs).ok
            /\ ledger' = Replay(ledger, formed.txs).db /\ chain' = chain \o Txs(formed.txs)
         \/ UNCHANGED <<ledger, chain>>
      /\ UNCHANGED <<pool, kind, block>>
  BY DEF ProcessBlock, Txs, poolVars, blockVars
<1>1. Replay(ledger, formed.txs) = Handed
  BY ReplayIs DEF Handed
<1>2. ASSUME Handed.ok PROVE Sound(chain, Handed, formed.txs)
  <2>1. formed.txs \in Seq(Entry)
    BY <1>0 DEF IInv, ShapeInv, Proposal
  <2>2. Matching(formed.txs)
    BY <1>2, <2>1, AcceptedMatches DEF Handed
  <2> QED  BY <1>0, <2>2 DEF ReplayInv, PublishInv
<1>3. KindInv'
  BY <1>0, KindStays DEF ReplayInv
<1>4. NonceInv'
  <2>1. CASE Handed.ok /\ ledger' = Handed.db /\ chain' = chain \o Txs(formed.txs)
    BY <1>2, <2>1 DEF NonceInv, Sound
  <2>2. CASE UNCHANGED <<ledger, chain>>
    BY <2>2, NonceStays DEF ReplayInv
  <2> QED  BY <1>0, <1>1, <2>1, <2>2
<1>5. ProposalInv' /\ StateInv' /\ RetryInv' /\ PublishInv'
  BY <1>0 DEF ProposalInv, StateInv, Tracked, RetryInv, PublishInv, InFlow
<1> QED  BY <1>3, <1>4, <1>5 DEF ReplayInv

-----------------------------------------------------------------------------
(* The theorems.                                                           *)

\* The state after the start of the node.
LEMMA ReplayInitially == Init => ReplayInv
<1> SUFFICES ASSUME Init PROVE ReplayInv
  OBVIOUS
<1>1. KindInv
  BY DEF Init, KindInv, Settled, Without
<1>2. NonceInv
  <2>1. Consecutive(chain)
    BY DEF Init, Consecutive
  <2>2. ASSUME NEW i \in Issuer PROVE Count(chain, i) = ledger.nonce[i]
    <3>1. {q \in 1 .. Len(chain) : issuerOf[chain[q]] = i} = {}
      BY DEF Init
    <3>2. Count(chain, i) = 0
      BY <3>1, FS_EmptySet DEF Count
    <3> QED  BY <3>2 DEF Init, GenesisLedger
  <2> QED  BY <2>1, <2>2 DEF NonceInv
<1>3. ProposalInv /\ StateInv /\ RetryInv /\ PublishInv
  BY DEF Init, ProposalInv, StateInv, Tracked, RetryInv, PublishInv, InFlow
<1> QED  BY <1>1, <1>2, <1>3 DEF ReplayInv

\* Every step keeps the invariant.
LEMMA ReplayInductive == IInv /\ ReplayInv /\ [Next]_vars => ReplayInv'
<1> SUFFICES ASSUME IInv, ReplayInv, [Next]_vars PROVE ReplayInv'
  OBVIOUS
<1>1. ASSUME NEW t \in Tx, Register(t) PROVE ReplayInv'
  BY <1>1, RegisterReplay
<1>2. ASSUME NEW t \in Tx, CleanMemPool(t) PROVE ReplayInv'
  <2>1. /\ pool' \subseteq pool
        /\ UNCHANGED <<kind, ledger, chain, flow, pc, receipt, block, used, fees, mark, formed,
                       aborted>>
    BY <1>2 DEF CleanMemPool, Forget, blockVars
  <2> QED  BY <2>1, QuietReplay
<1>3. CASE RequestStop \/ UNCHANGED vars
  <2>1. /\ pool' \subseteq pool
        /\ UNCHANGED <<kind, ledger, chain, flow, pc, receipt, block, used, fees, mark, formed,
                       aborted>>
    BY <1>3 DEF RequestStop, vars, poolVars, blockVars
  <2> QED  BY <2>1, QuietReplay
<1>4. CASE StartBlock \/ ProcessTransaction \/ AppendToBlock
  BY <1>4, StartBlockReplay, ProcessTransactionReplay, AppendToBlockReplay
<1>5. CASE StartRetry \/ EndLoop \/ EndRetry \/ FinishBlock
  BY <1>5, EndLoopReplay, FinishBlockReplay
<1>6. CASE ~aborted /\ ProcessBlock
  BY <1>6, ProcessBlockReplay
<1>7. ASSUME NEW hit \in BOOLEAN,
             \/ ImposeFees(hit) \/ FeesFail(hit) \/ NonceFails(hit)
             \/ LimitReached(hit) \/ FinalizeTx(hit) \/ RetryTransaction(hit)
      PROVE  ReplayInv'
  BY <1>7, ImposeFeesReplay, FeesFailReplay, LimitReachedReplay, FinalizeTxReplay,
     RetryTransactionReplay
<1> QED  BY <1>1, <1>2, <1>3, <1>4, <1>5, <1>6, <1>7 DEF Next, MemPoolStep, FactoryStep

\* The six parts of the invariant of the replay hold in every state.
THEOREM ReplayInvariance == Spec => []ReplayInv
  BY ReplayInductive, Invariance, ReplayInitially, PTL DEF Spec

\* The keys of a proposal match when those of all transactions do.
LEMMA AllMatch ==
    ASSUME NoKeyMismatch, KindInv, NEW b \in Seq(Entry)
    PROVE  Matching(b)
<1> SUFFICES ASSUME NEW k \in 1 .. Len(b) PROVE kind[b[k].tx] # "keyMismatch"
  BY DEF Matching, Without
<1>1. b[k] \in Entry
  OBVIOUS
<1>2. b[k].tx \in Tx
  BY <1>1 DEF Entry
<1>3. "keyMismatch" \notin kindsOf[b[k].tx]
  BY <1>2 DEF NoKeyMismatch
<1> QED  BY <1>2, <1>3 DEF KindInv

\* Between two transactions of processTransactions() the Flow's state is what a
\* verifier obtains from the proposal so far, for every set of transactions,
\* every price, size and limit, and every order of failures and roll-backs.
THEOREM FlowIsTheReplay == NoKeyMismatch => (Spec => []BlockSoFarReplays)
<1> SUFFICES ASSUME NoKeyMismatch PROVE Spec => []BlockSoFarReplays
  OBVIOUS
<1>1. IInv /\ ReplayInv => BlockSoFarReplays
  <2> SUFFICES ASSUME IInv, ReplayInv, pc = "loop"
               PROVE  LET v == Replay(ledger, block) IN v.ok /\ v.db = flow.db
    BY DEF BlockSoFarReplays
  <2>1. Replay(ledger, block) = SoFar
    BY ReplayIs DEF SoFar
  <2>2. SoFar.ok = TRUE /\ SoFar.db = flow.db
    <3>1. Matching(block)
      BY AllMatch DEF ReplayInv, IInv, ShapeInv, BlockTypes
    <3> QED  BY <3>1 DEF ReplayInv, ProposalInv, StateInv, Tracked, SoundSoFar, Sound
  <2> QED  BY <2>1, <2>2
<1> QED  BY <1>1, Invariance, ReplayInvariance, PTL

\* A block that formBlock() publishes is accepted by processBlock() and leads to
\* the Perspective in its header, unless a failed transaction hit the limit.
THEOREM BlocksReplay == NoKeyMismatch => (Spec => []PublishedBlockReplays)
<1> SUFFICES ASSUME NoKeyMismatch PROVE Spec => []PublishedBlockReplays
  OBVIOUS
<1>1. IInv /\ ReplayInv => PublishedBlockReplays
  <2> SUFFICES ASSUME IInv, ReplayInv, pc = "publish", ~aborted,
                      formed.cut = NoReceipt \/ formed.cut.result = "valid"
               PROVE  LET v == Replay(ledger, formed.txs) IN v.ok /\ v.db = formed.final
    BY DEF PublishedBlockReplays, ReplaysToHeader
  <2>1. Replay(ledger, formed.txs) = Handed
    BY ReplayIs DEF Handed
  <2>2. Handed.ok = TRUE /\ Handed.db = formed.final
    <3>1. Matching(formed.txs)
      BY AllMatch DEF ReplayInv, IInv, ShapeInv, Proposal
    <3> QED  BY <3>1 DEF ReplayInv, PublishInv, Sound
  <2> QED  BY <2>1, <2>2
<1> QED  BY <1>1, Invariance, ReplayInvariance, PTL

\* The transactions of an issuer enter the chain with nonces 1, 2, 3 and so on:
\* none twice and none out of order, over any number of blocks, whatever their
\* keys: a verifier turns away the proposals that a mismatching key spoils.
THEOREM NoncesAreConsecutive == Spec => []NonceSequence
<1>1. ReplayInv => NonceSequence
  BY DEF ReplayInv, NonceInv, Consecutive, NonceSequence
<1> QED  BY <1>1, ReplayInvariance, PTL
=============================================================================
