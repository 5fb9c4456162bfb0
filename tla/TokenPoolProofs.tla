-------------------------- MODULE TokenPoolProofs --------------------------
(***************************************************************************)
(* Proofs about module TokenPool, for every number of banks, token value,  *)
(* total value and set of requested amounts.                               *)
(*                                                                         *)
(* The inductive invariant ties the four pieces of state together: in each *)
(* instance a bank's hash is the one at its depth and only used-up banks   *)
(* are depleted; every token names the depth of the hash it reveals and is *)
(* nominally worth no more than the links it counts; the credit of a bank  *)
(* is that of its depth, and some token reveals that depth.                *)
(***************************************************************************)
EXTENDS TokenPool, TLAPS

-----------------------------------------------------------------------------
(* Arithmetic.                                                             *)

\* A product of positive numbers is positive.
LEMMA ProductPositive ==
    ASSUME NEW x \in Nat, NEW y \in Nat, x # 0, y # 0
    PROVE  x * y \in Nat /\ x * y # 0
  OBVIOUS

\* Multiplication by a natural number distributes over subtraction.
LEMMA Distribute ==
    ASSUME NEW v \in Nat, NEW a \in Nat, NEW b \in Nat, b <= a
    PROVE  /\ v * (a - b) = v * a - v * b
           /\ (a - b) * v = v * a - v * b
           /\ v * a \in Nat /\ v * b \in Nat /\ v * (a - b) \in Nat
           /\ v * b <= v * a
  OBVIOUS

\* Dividing a product by one of its factors gives the other.
LEMMA DivideProduct ==
    ASSUME NEW x \in Nat, NEW y \in Nat, y # 0
    PROVE  (x * y) \div y = x
  OBVIOUS

\* genTokenWorthValue() rounds up: the tokens cover the value.
LEMMA CeilingCovers ==
    ASSUME NEW x \in Nat, x # 0, NEW v \in Nat, v # 0
    PROVE  /\ 1 + (x - 1) \div v \in Nat
           /\ 1 + (x - 1) \div v >= 1
           /\ x <= v * (1 + (x - 1) \div v)
  OBVIOUS

\* Quotients of natural numbers are natural numbers.
LEMMA DivideNat ==
    ASSUME NEW x \in Nat, NEW y \in Nat, y # 0
    PROVE  x \div y \in Nat
  OBVIOUS

-----------------------------------------------------------------------------
(* The inductive invariant.                                                *)

BankOK(k) ==
    /\ k.depth <= mDimensionDepth
    /\ IF k.depth = 0 THEN k.hash = NoHash ELSE k.hash = k.depth
    /\ k.status = "depleted" => k.depth = mDimensionDepth

PoolOK(p) ==
    /\ p \in Pool
    /\ \A b \in Bank : BankOK(p.banks[b])
    /\ p.status = "depleted" => \A b \in Bank : p.banks[b].depth = mDimensionDepth

TokenOK(t) ==
    /\ t \in Token
    /\ t.hash = t.depth
    /\ t.depth \in 1 .. mDimensionDepth
    /\ t.count \in 1 .. t.depth
    /\ t.value <= SingleTokenValue * t.count

CreditOK == \A b \in Bank : credited[b] = SingleTokenValue * node.banks[b].depth

DepthBacked ==
    \A b \in Bank :
        node.banks[b].depth # 0 =>
            \E t \in tokens : t.bank = b /\ t.depth = node.banks[b].depth

IInv ==
    /\ PoolOK(wallet)
    /\ PoolOK(node)
    /\ \A t \in tokens : TokenOK(t)
    /\ credited \in [Bank -> Nat]
    /\ CreditOK
    /\ DepthBacked

\* The parameters the constructor derives: the links of a bank, worth
\* valuePerToken each, never exceed the total value.
LEMMA PoolParameters ==
    /\ mDimensionDepth \in Nat
    /\ SingleTokenValue \in Nat
    /\ mTotalValue \in Nat
    /\ mDimensionDepth # 0 => SingleTokenValue # 0
    /\ SingleTokenValue * mDimensionDepth <= mTotalValue
  <1>1. mDimensionDepth \in Nat
    <2>1. totalValue \div valuePerToken \in Nat
      BY DivideNat, PoolAssumption
    <2> QED  BY <2>1, DivideNat, PoolAssumption DEF mDimensionDepth
  <1>2. mTotalValue \in Nat /\ mTotalValue = valuePerToken * (mDimensionDepth * dimensionsCount)
    BY <1>1, PoolAssumption DEF mTotalValue
  <1>3. CASE mDimensionDepth = 0
    BY <1>1, <1>2, <1>3 DEF SingleTokenValue
  <1>4. CASE mDimensionDepth # 0
    <2>1. mDimensionDepth * dimensionsCount \in Nat /\ mDimensionDepth * dimensionsCount # 0
      BY <1>1, <1>4, ProductPositive, PoolAssumption
    <2>2. SingleTokenValue = valuePerToken
      BY <1>2, <1>4, <2>1, DivideProduct, PoolAssumption DEF SingleTokenValue
    <2>3. mDimensionDepth <= mDimensionDepth * dimensionsCount
      BY <1>1, PoolAssumption
    <2>4. valuePerToken * mDimensionDepth <= valuePerToken * (mDimensionDepth * dimensionsCount)
      BY <1>1, <2>1, <2>3, Distribute, PoolAssumption
    <2> QED  BY <1>1, <1>2, <2>2, <2>4, PoolAssumption
  <1> QED  BY <1>3, <1>4

\* What replacing one bank of a pool does.
LEMMA ReplaceBank ==
    ASSUME NEW p \in Pool, NEW b \in Bank, NEW k \in BankState
    PROVE  LET q == [p EXCEPT !.banks[b] = k]
           IN  /\ q \in Pool /\ q.status = p.status
               /\ q.seed = p.seed /\ q.cached = p.cached
               /\ q.banks[b] = k
               /\ \A c \in Bank : c # b => q.banks[c] = p.banks[c]
  BY DEF Pool

\* What setCurrentDepth() and setCurrentHash() do to a pool.
LEMMA UsageFields ==
    ASSUME NEW p \in Pool, NEW b \in Bank, NEW d \in Nat, NEW h \in Nat
    PROVE  /\ SetUsage(p, b, d, h) \in Pool
           /\ SetUsage(p, b, d, h).status = p.status
           /\ SetUsage(p, b, d, h).banks[b].depth = d
           /\ SetUsage(p, b, d, h).banks[b].hash = h
           /\ SetUsage(p, b, d, h).banks[b].status = p.banks[b].status
           /\ \A c \in Bank : c # b => SetUsage(p, b, d, h).banks[c] = p.banks[c]
  <1> DEFINE k == [p.banks[b] EXCEPT !.depth = d, !.hash = h]
  <1>1. p.banks[b] \in BankState
    BY DEF Pool
  <1>2. k \in BankState /\ k.depth = d /\ k.hash = h /\ k.status = p.banks[b].status
    BY <1>1 DEF BankState
  <1> HIDE DEF k
  <1>3. SetUsage(p, b, d, h) = [p EXCEPT !.banks[b] = k]
    BY DEF SetUsage, k
  <1> QED  BY <1>2, <1>3, ReplaceBank

\* What setStatus(depleted) does to a pool: the pool closes only together with
\* the last of its banks.
LEMMA StatusFields ==
    ASSUME NEW p \in Pool, NEW b \in Bank
    PROVE  LET s == SetBankStatus(p, b, "depleted")
           IN  /\ s \in Pool
               /\ s.banks[b] = [p.banks[b] EXCEPT !.status = "depleted"]
               /\ \A c \in Bank : c # b => s.banks[c] = p.banks[c]
               /\ \/ s.status = p.status
                  \/ \A c \in Bank : s.banks[c].status = "depleted"
  <1> DEFINE k == [p.banks[b] EXCEPT !.status = "depleted"]
             r == [p EXCEPT !.banks[b] = k]
             s == SetBankStatus(p, b, "depleted")
  <1>1. k \in BankState
    BY DEF Pool, BankState, Status
  <1>2. /\ r \in Pool /\ r.status = p.status
        /\ r.banks[b] = k
        /\ \A c \in Bank : c # b => r.banks[c] = p.banks[c]
    <2> HIDE DEF k
    <2> QED  BY <1>1, ReplaceBank
  <1>3. s = NotifyBankStatusChanged(r, "depleted")
    BY DEF SetBankStatus
  <1> HIDE DEF k, r, s
  <1>4. CASE \A c \in Bank : r.banks[c].status = "depleted"
    <2>1. s = [r EXCEPT !.status = "depleted"]
      BY <1>3, <1>4 DEF NotifyBankStatusChanged
    <2>2. s \in Pool /\ s.banks = r.banks
      BY <1>2, <2>1 DEF Pool, Status
    <2> QED  BY <1>2, <1>4, <2>2 DEF k, s
  <1>5. CASE ~ \A c \in Bank : r.banks[c].status = "depleted"
    BY <1>2, <1>3, <1>5 DEF NotifyBankStatusChanged, k, s
  <1> QED  BY <1>4, <1>5

\* Moving an active bank to a deeper link keeps the pool well-formed, and so
\* does closing it when that link is the last one.
LEMMA AdvanceBank ==
    ASSUME NEW p, PoolOK(p), p.status = "active",
           NEW b \in Bank, p.banks[b].status = "active",
           NEW d \in 1 .. mDimensionDepth
    PROVE  /\ PoolOK(SetUsage(p, b, d, d))
           /\ \A c \in Bank : SetUsage(p, b, d, d).banks[c].depth =
                                IF c = b THEN d ELSE p.banks[c].depth
           /\ SetUsage(p, b, d, d).banks[b].status = "active"
  <1> DEFINE q == SetUsage(p, b, d, d)
  <1>1. d \in Nat /\ d # 0 /\ d <= mDimensionDepth
    BY PoolParameters
  <1>2. p \in Pool /\ \A c \in Bank : BankOK(p.banks[c])
    BY DEF PoolOK
  <1>3. /\ q \in Pool /\ q.status = "active"
        /\ q.banks[b].depth = d /\ q.banks[b].hash = d /\ q.banks[b].status = "active"
        /\ \A c \in Bank : c # b => q.banks[c] = p.banks[c]
    BY <1>1, <1>2, UsageFields
  <1> HIDE DEF q
  <1>4. \A c \in Bank : BankOK(q.banks[c])
    BY <1>1, <1>2, <1>3 DEF BankOK
  <1>5. PoolOK(q)
    BY <1>3, <1>4 DEF PoolOK
  <1> QED  BY <1>3, <1>5 DEF q

\* setStatus(depleted) of a used-up bank, with the notification of its pool.
LEMMA CloseBank ==
    ASSUME NEW p, PoolOK(p), NEW b \in Bank, p.banks[b].depth = mDimensionDepth
    PROVE  /\ PoolOK(SetBankStatus(p, b, "depleted"))
           /\ \A c \in Bank : SetBankStatus(p, b, "depleted").banks[c].depth = p.banks[c].depth
  <1> DEFINE s == SetBankStatus(p, b, "depleted")
  <1>1. p \in Pool /\ \A c \in Bank : BankOK(p.banks[c])
    BY DEF PoolOK
  <1>2. /\ s \in Pool
        /\ s.banks[b] = [p.banks[b] EXCEPT !.status = "depleted"]
        /\ \A c \in Bank : c # b => s.banks[c] = p.banks[c]
        /\ s.status = p.status \/ \A c \in Bank : s.banks[c].status = "depleted"
    BY <1>1, StatusFields
  <1> HIDE DEF s
  <1>3. /\ s.banks[b].depth = p.banks[b].depth
        /\ s.banks[b].hash = p.banks[b].hash
    BY <1>1, <1>2 DEF Pool, BankState
  <1>4. \A c \in Bank : BankOK(s.banks[c])
    <2>1. BankOK(s.banks[b])
      BY <1>1, <1>3 DEF BankOK
    <2> QED  BY <1>1, <1>2, <2>1
  <1>5. s.status = "depleted" => \A c \in Bank : s.banks[c].depth = mDimensionDepth
    BY <1>2, <1>3, <1>4 DEF PoolOK, BankOK
  <1> QED  BY <1>2, <1>3, <1>4, <1>5 DEF PoolOK, s

-----------------------------------------------------------------------------
(* The operations.                                                         *)

\* getValueLeft() is the value of the links beyond the bank's depth.
LEMMA ValueLeftIs ==
    ASSUME NEW p, PoolOK(p), NEW b \in Bank
    PROVE  /\ p.banks[b].depth \in Nat
           /\ ValueLeft(p, b) = SingleTokenValue * (mDimensionDepth - p.banks[b].depth)
           /\ p.banks[b].depth # mDimensionDepth =>
                p.status = "active" /\ p.banks[b].status = "active"
  <1>1. p \in Pool /\ p.banks[b] \in BankState
    BY DEF PoolOK, Pool
  <1>2. /\ p.banks[b].depth \in Nat
        /\ p.banks[b].depth <= mDimensionDepth
        /\ p.banks[b].status = "depleted" => p.banks[b].depth = mDimensionDepth
    BY <1>1 DEF PoolOK, BankOK, BankState
  <1>3. p.banks[b].depth # mDimensionDepth =>
            p.status = "active" /\ p.banks[b].status = "active"
    BY <1>1, <1>2 DEF PoolOK, Pool, BankState, Status
  <1>4. CASE p.banks[b].depth = mDimensionDepth
    <2>1. ValueLeft(p, b) = 0
      BY <1>4 DEF ValueLeft
    <2>2. SingleTokenValue * (mDimensionDepth - p.banks[b].depth) = 0
      BY <1>4, PoolParameters
    <2> QED  BY <1>2, <1>3, <2>1, <2>2
  <1>5. CASE p.banks[b].depth # mDimensionDepth
    <2>1. ValueLeft(p, b) = (mDimensionDepth - p.banks[b].depth) * SingleTokenValue
      BY <1>2, <1>5, PoolParameters DEF ValueLeft
    <2> QED  BY <1>2, <1>3, <2>1, Distribute, PoolParameters
  <1> QED  BY <1>4, <1>5

\* When a token can be made its hash is the one at the depth it will name.
LEMMA GenerateFacts ==
    ASSUME NEW p, PoolOK(p), NEW b \in Bank, NEW value \in Nat, CanGenerate(p, b, value)
    PROVE  LET n == HashesToBeConsumed(value)
               d == p.banks[b].depth + n
           IN  /\ n \in Nat /\ n >= 1 /\ value <= SingleTokenValue * n
               /\ d \in 1 .. mDimensionDepth /\ n <= d
               /\ HashAtDepth(p, b, d) = d
               /\ p.status = "active" /\ p.banks[b].status = "active"
  <1> DEFINE n == HashesToBeConsumed(value)
             d == p.banks[b].depth + n
  <1>1. /\ value # 0 /\ value <= ValueLeft(p, b)
        /\ SingleTokenValue # 0
        /\ HashAtDepth(p, b, d) # NoHash
    BY DEF CanGenerate
  <1>2. /\ p.banks[b].depth \in Nat
        /\ ValueLeft(p, b) = SingleTokenValue * (mDimensionDepth - p.banks[b].depth)
        /\ p.banks[b].depth # mDimensionDepth =>
                p.status = "active" /\ p.banks[b].status = "active"
    BY ValueLeftIs
  <1>3. n \in Nat /\ n >= 1 /\ value <= SingleTokenValue * n
    BY <1>1, CeilingCovers, PoolParameters DEF HashesToBeConsumed
  <1> HIDE DEF n
  <1>4. p.banks[b].depth # mDimensionDepth
    <2> SUFFICES ASSUME p.banks[b].depth = mDimensionDepth PROVE FALSE
      OBVIOUS
    <2>1. SingleTokenValue * (mDimensionDepth - p.banks[b].depth) = 0
      BY PoolParameters
    <2> QED  BY <1>1, <1>2, <2>1
  <1>5. d \in Nat /\ d # 0 /\ n <= d /\ d > p.banks[b].depth
    BY <1>2, <1>3
  <1> HIDE DEF d
  <1>6. d <= mDimensionDepth
    BY <1>1, <1>5, PoolParameters DEF HashAtDepth
  <1>7. HashAtDepth(p, b, d) = d
    BY <1>1, <1>2, <1>5, <1>6, PoolParameters DEF HashAtDepth
  <1>8. d \in 1 .. mDimensionDepth
    BY <1>5, <1>6, PoolParameters
  <1> QED  BY <1>2, <1>3, <1>4, <1>5, <1>7, <1>8 DEF d, n

\* genTTWorthValue() makes a well-formed token and leaves a well-formed pool.
LEMMA GenerateOK ==
    ASSUME NEW p, PoolOK(p), NEW b \in Bank, NEW value \in Nat, NEW markUsed \in BOOLEAN,
           CanGenerate(p, b, value)
    PROVE  /\ PoolOK(AfterUse(p, b, value, markUsed))
           /\ TTWorthValue(p, b, value, markUsed).depth =
                p.banks[b].depth + HashesToBeConsumed(value)
           /\ TokenOK(TTWorthValue(p, b, value, markUsed))
  <1> DEFINE n == HashesToBeConsumed(value)
             d == p.banks[b].depth + n
             q == SetUsage(p, b, d, d)
             t == TTWorthValue(p, b, value, markUsed)
  <1>1. /\ n \in Nat /\ n >= 1 /\ value <= SingleTokenValue * n
        /\ d \in 1 .. mDimensionDepth /\ n <= d
        /\ HashAtDepth(p, b, d) = d
        /\ p.status = "active" /\ p.banks[b].status = "active"
    BY GenerateFacts
  <1>2. AfterUse(p, b, value, TRUE) =
            IF ValueLeft(q, b) = 0 THEN SetBankStatus(q, b, "depleted") ELSE q
    BY <1>1 DEF AfterUse, MarkUsed
  <1>3. AfterUse(p, b, value, FALSE) = p
    BY DEF AfterUse
  <1>4. t = [bank |-> b, value |-> value, hash |-> d, count |-> n,
             depth |-> IF markUsed THEN AfterUse(p, b, value, TRUE).banks[b].depth ELSE d]
    BY <1>1 DEF TTWorthValue
  <1> HIDE DEF n, d, t
  <1>5. PoolOK(q) /\ q.banks[b].depth = d
    BY <1>1, AdvanceBank
  <1> HIDE DEF q
  <1>6. ValueLeft(q, b) = 0 => d = mDimensionDepth
    <2>1. ValueLeft(q, b) = SingleTokenValue * (mDimensionDepth - d)
      BY <1>5, ValueLeftIs
    <2>2. d # mDimensionDepth => mDimensionDepth - d \in Nat /\ mDimensionDepth - d # 0
      BY <1>1, PoolParameters
    <2>3. mDimensionDepth # 0
      BY <1>1, PoolParameters
    <2> QED  BY <2>1, <2>2, <2>3, ProductPositive, PoolParameters
  <1>7. PoolOK(AfterUse(p, b, value, TRUE)) /\ AfterUse(p, b, value, TRUE).banks[b].depth = d
    BY <1>2, <1>5, <1>6, CloseBank
  <1>8. PoolOK(AfterUse(p, b, value, markUsed))
    BY <1>3, <1>7
  <1>9. t.depth = d /\ t.hash = d /\ t.count = n /\ t.value = value /\ t.bank = b
    BY <1>4, <1>7
  <1>10. d \in Nat /\ n \in 1 .. d
    BY <1>1, PoolParameters
  <1>11. t \in Token
    BY <1>1, <1>4, <1>7, <1>10 DEF Token
  <1>12. TokenOK(t)
    BY <1>1, <1>9, <1>10, <1>11 DEF TokenOK
  <1> QED  BY <1>8, <1>9, <1>12 DEF t, d, n

\* validateTT(): the bank moves to the token's depth, and the token is worth
\* the links in between.
LEMMA ValidateOK ==
    ASSUME NEW p, PoolOK(p), NEW t, TokenOK(t)
    PROVE  /\ PoolOK(Validated(p, t))
           /\ \A c \in Bank : c # t.bank => Validated(p, t).banks[c].depth = p.banks[c].depth
           /\ Accepts(p, t) => Validated(p, t).banks[t.bank].depth = t.depth
           /\ ~Accepts(p, t) => Validated(p, t) = p
           /\ Validated(p, t).banks[t.bank].depth >= p.banks[t.bank].depth
           /\ Worth(p, t) = SingleTokenValue *
                (Validated(p, t).banks[t.bank].depth - p.banks[t.bank].depth)
  <1> DEFINE b == t.bank
             q == SetUsage(p, b, t.depth, t.hash)
  <1>1. b \in Bank /\ t.depth \in 1 .. mDimensionDepth /\ t.hash = t.depth /\ t.depth \in Nat
    BY DEF TokenOK, Token
  <1>2. p.banks[b].depth \in Nat
    BY <1>1, ValueLeftIs
  <1>3. CASE ~Accepts(p, t)
    <2>1. Validated(p, t) = p /\ Worth(p, t) = 0
      BY <1>3 DEF Validated, Worth
    <2>2. SingleTokenValue * (p.banks[b].depth - p.banks[b].depth) = 0
      BY <1>2, PoolParameters
    <2> QED  BY <1>2, <1>3, <2>1, <2>2
  <1>4. CASE Accepts(p, t)
    <2>1. /\ p.status = "active" /\ p.banks[b].status # "depleted"
          /\ t.depth >= p.banks[b].depth
      BY <1>4 DEF Accepts
    <2>2. p.banks[b].status = "active"
      BY <1>1, <2>1 DEF PoolOK, Pool, BankState, Status
    <2>3. PoolOK(q) /\ \A c \in Bank : q.banks[c].depth = IF c = b THEN t.depth ELSE p.banks[c].depth
      BY <1>1, <2>1, <2>2, AdvanceBank
    <2>4. Validated(p, t) =
            IF t.depth >= mDimensionDepth THEN SetBankStatus(q, b, "depleted") ELSE q
      BY <1>4 DEF Validated
    <2> HIDE DEF q
    <2>5. t.depth >= mDimensionDepth => q.banks[b].depth = mDimensionDepth
      BY <1>1, <2>3, PoolParameters
    <2>6. /\ PoolOK(Validated(p, t))
          /\ \A c \in Bank : Validated(p, t).banks[c].depth = q.banks[c].depth
      BY <1>1, <2>3, <2>4, <2>5, CloseBank
    <2>7. Worth(p, t) = SingleTokenValue * (t.depth - p.banks[b].depth)
      BY <1>4 DEF Worth
    <2> QED  BY <1>1, <1>4, <2>1, <2>3, <2>6, <2>7
  <1> QED  BY <1>3, <1>4

\* instantiate(): every bank comes back active, at its depth.
LEMMA InstantiateOK ==
    ASSUME NEW p, PoolOK(p)
    PROVE  /\ PoolOK(Instantiate(p))
           /\ \A b \in Bank : Instantiate(p).banks[b].depth = p.banks[b].depth
  <1> DEFINE k(b) == [p.banks[b] EXCEPT !.status =
                        IF p.banks[b].hash = FinalHash(p, b, FALSE) THEN "depleted" ELSE "active"]
  <1>1. p \in Pool /\ \A b \in Bank : p.banks[b] \in BankState /\ BankOK(p.banks[b])
    BY DEF PoolOK, Pool
  <1>2. \A b \in Bank : p.banks[b].hash # 0
    BY <1>1, PoolAssumption DEF BankOK, BankState
  <1>3. \A b \in Bank : /\ k(b) \in BankState /\ k(b).status = "active"
                        /\ k(b).depth = p.banks[b].depth /\ k(b).hash = p.banks[b].hash
    BY <1>1, <1>2 DEF BankState, Status, FinalHash
  <1>4. \A b \in Bank : BankOK(k(b))
    BY <1>1, <1>3 DEF BankOK
  <1>5. Instantiate(p) = [status |-> p.status, banks |-> [b \in Bank |-> k(b)],
                          seed |-> FALSE, cached |-> [b \in Bank |-> 0]]
    BY DEF Instantiate
  <1> HIDE DEF k
  <1>6. Instantiate(p) \in Pool
    BY <1>1, <1>3, <1>5 DEF Pool, Status
  <1>7. \A b \in Bank : Instantiate(p).banks[b] = k(b)
    BY <1>5
  <1> QED  BY <1>3, <1>4, <1>5, <1>6, <1>7 DEF PoolOK

-----------------------------------------------------------------------------
(* Inductiveness.                                                          *)

\* A freshly generated pool, no tokens and no credits satisfy the invariant.
LEMMA InitOK == Init => IInv
  <1> SUFFICES ASSUME Init PROVE IInv
    OBVIOUS
  <1>1. \A s \in BOOLEAN : PoolOK(NewPool(s))
    <2> SUFFICES ASSUME NEW s \in BOOLEAN PROVE PoolOK(NewPool(s))
      OBVIOUS
    <2>1. NewPool(s) \in Pool
      BY DEF NewPool, Pool, BankState, Status
    <2>2. \A b \in Bank : BankOK(NewPool(s).banks[b])
      BY PoolParameters DEF NewPool, BankOK
    <2> QED  BY <2>1, <2>2 DEF PoolOK, NewPool
  <1>2. PoolOK(wallet) /\ PoolOK(node)
    BY <1>1 DEF Init
  <1>3. \A b \in Bank : node.banks[b].depth = 0
    BY DEF Init, NewPool
  <1>4. SingleTokenValue * 0 = 0
    BY PoolParameters
  <1> QED  BY <1>2, <1>3, <1>4 DEF Init, IInv, CreditOK, DepthBacked

\* Steps that leave the node's depths and the credits alone.
LEMMA NodeUntouched ==
    ASSUME IInv, PoolOK(wallet'), PoolOK(node'), \A t \in tokens' : TokenOK(t),
           tokens \subseteq tokens', credited' = credited,
           \A b \in Bank : node'.banks[b].depth = node.banks[b].depth
    PROVE  IInv'
  <1>1. CreditOK'
    BY DEF IInv, CreditOK
  <1>2. DepthBacked'
    BY DEF IInv, DepthBacked
  <1> QED  BY <1>1, <1>2 DEF IInv, PoolOK, TokenOK

\* Redeeming a token keeps the invariant, and credits what the depth of its
\* bank advances by.
LEMMA RedeemOK ==
    ASSUME IInv, NEW t \in tokens, Redeem(t)
    PROVE  /\ IInv'
           /\ \A b \in Bank :
                /\ node'.banks[b].depth >= node.banks[b].depth
                /\ credited'[b] - credited[b]
                     = SingleTokenValue * (node'.banks[b].depth - node.banks[b].depth)
  <1> DEFINE w == Worth(node, t)
  <1>1. /\ PoolOK(wallet) /\ PoolOK(node) /\ TokenOK(t) /\ t.bank \in Bank
        /\ credited \in [Bank -> Nat]
    BY DEF IInv, TokenOK, Token
  <1>2. /\ node' = Validated(node, t) /\ wallet' = wallet /\ tokens' = tokens
        /\ credited' = [credited EXCEPT ![t.bank] = @ + w]
    BY DEF Redeem
  <1>3. /\ PoolOK(node')
        /\ \A c \in Bank : c # t.bank => node'.banks[c].depth = node.banks[c].depth
        /\ node'.banks[t.bank].depth >= node.banks[t.bank].depth
        /\ w = SingleTokenValue * (node'.banks[t.bank].depth - node.banks[t.bank].depth)
        /\ node' = node \/ node'.banks[t.bank].depth = t.depth
    BY <1>1, <1>2, ValidateOK
  <1> HIDE DEF w
  <1>4. \A b \in Bank : node.banks[b].depth \in Nat /\ node'.banks[b].depth \in Nat
    BY <1>1, <1>3, ValueLeftIs
  <1>5. /\ w \in Nat
        /\ w = SingleTokenValue * node'.banks[t.bank].depth
               - SingleTokenValue * node.banks[t.bank].depth
        /\ SingleTokenValue * node.banks[t.bank].depth \in Nat
        /\ SingleTokenValue * node'.banks[t.bank].depth \in Nat
    <2>1. /\ node.banks[t.bank].depth \in Nat /\ node'.banks[t.bank].depth \in Nat
          /\ SingleTokenValue \in Nat
      BY <1>1, <1>4, PoolParameters
    <2> QED  BY <1>3, <2>1, Distribute
  <1>6. \A b \in Bank : credited'[b] = IF b = t.bank THEN credited[b] + w ELSE credited[b]
    BY <1>1, <1>2
  <1>7. credited' \in [Bank -> Nat]
    BY <1>1, <1>2, <1>5
  <1>8. CreditOK'
    <2> SUFFICES ASSUME NEW b \in Bank
                 PROVE  credited'[b] = SingleTokenValue * node'.banks[b].depth
      BY DEF CreditOK
    <2>1. credited[b] = SingleTokenValue * node.banks[b].depth
      BY DEF IInv, CreditOK
    <2> QED  BY <1>3, <1>5, <1>6, <2>1
  <1>9. DepthBacked'
    BY <1>2, <1>3 DEF IInv, DepthBacked
  <1>10. \A b \in Bank :
            /\ node'.banks[b].depth >= node.banks[b].depth
            /\ credited'[b] - credited[b]
                 = SingleTokenValue * (node'.banks[b].depth - node.banks[b].depth)
    <2> SUFFICES ASSUME NEW b \in Bank
                 PROVE  /\ node'.banks[b].depth >= node.banks[b].depth
                        /\ credited'[b] - credited[b]
                             = SingleTokenValue * (node'.banks[b].depth - node.banks[b].depth)
      OBVIOUS
    <2>1. CASE b = t.bank
      BY <1>1, <1>3, <1>5, <1>6, <2>1
    <2>2. CASE b # t.bank
      <3>1. credited'[b] - credited[b] = 0 /\ node'.banks[b].depth - node.banks[b].depth = 0
        BY <1>1, <1>3, <1>4, <1>6, <2>2
      <3> QED  BY <1>3, <1>4, <2>2, <3>1, PoolParameters
    <2> QED  BY <2>1, <2>2
  <1>11. \A s \in tokens' : TokenOK(s)
    BY <1>2 DEF IInv
  <1> QED  BY <1>1, <1>2, <1>3, <1>7, <1>8, <1>9, <1>10, <1>11 DEF IInv, PoolOK, TokenOK

\* Every step keeps the invariant and the relation of credit and depth.
LEMMA NextOK ==
    ASSUME IInv, [Next]_vars
    PROVE  /\ IInv'
           /\ \A b \in Bank :
                /\ node'.banks[b].depth >= node.banks[b].depth
                /\ credited'[b] - credited[b]
                     = SingleTokenValue * (node'.banks[b].depth - node.banks[b].depth)
  <1> DEFINE Unmoved == /\ credited' = credited
                        /\ \A b \in Bank : node'.banks[b].depth = node.banks[b].depth
  <1>0. /\ PoolOK(wallet) /\ PoolOK(node) /\ credited \in [Bank -> Nat]
        /\ \A t \in tokens : TokenOK(t)
        /\ \A b \in Bank : node.banks[b].depth \in Nat
    BY ValueLeftIs DEF IInv
  <1>1. ASSUME Unmoved
        PROVE  \A b \in Bank :
                /\ node'.banks[b].depth >= node.banks[b].depth
                /\ credited'[b] - credited[b]
                     = SingleTokenValue * (node'.banks[b].depth - node.banks[b].depth)
    <2> SUFFICES ASSUME NEW b \in Bank
                 PROVE  /\ node'.banks[b].depth >= node.banks[b].depth
                        /\ credited'[b] - credited[b]
                             = SingleTokenValue * (node'.banks[b].depth - node.banks[b].depth)
      OBVIOUS
    <2>1. credited'[b] - credited[b] = 0 /\ node'.banks[b].depth - node.banks[b].depth = 0
      BY <1>0, <1>1
    <2> QED  BY <1>0, <1>1, <2>1, PoolParameters
  <1>2. ASSUME NEW b \in Bank, NEW value \in Amount, NEW markUsed \in BOOLEAN,
               GetTTWorthValue(b, value, markUsed)
        PROVE  IInv' /\ Unmoved
    <2>1. value \in Nat
      BY PoolAssumption
    <2>2. /\ PoolOK(AfterUse(wallet, b, value, markUsed))
          /\ TokenOK(TTWorthValue(wallet, b, value, markUsed))
      BY <1>0, <1>2, <2>1, GenerateOK DEF GetTTWorthValue
    <2> QED  BY <1>0, <1>2, <2>2, NodeUntouched DEF GetTTWorthValue
  <1>3. ASSUME NEW b \in Bank, NEW reward \in Amount, CollectCoin(b, reward)
        PROVE  IInv' /\ Unmoved
    <2> DEFINE t == TTWorthValue(wallet, b, reward, TRUE)
               u == [t EXCEPT !.count = t.depth, !.value = SingleTokenValue * t.depth]
    <2>1. reward \in Nat
      BY PoolAssumption
    <2>2. PoolOK(AfterUse(wallet, b, reward, TRUE)) /\ TokenOK(t)
      BY <1>0, <1>3, <2>1, GenerateOK DEF CollectCoin
    <2>3. tokens' = tokens \cup {u} /\ wallet' = AfterUse(wallet, b, reward, TRUE)
          /\ node' = node /\ credited' = credited
      BY <1>3 DEF CollectCoin
    <2> HIDE DEF t
    <2>4. t \in Token /\ t.depth \in Nat /\ SingleTokenValue * t.depth \in Nat
      BY <2>2, Distribute, PoolParameters DEF TokenOK, Token
    <2>5. /\ u \in Token /\ u.depth = t.depth /\ u.hash = t.hash /\ u.count = t.depth
          /\ u.value = SingleTokenValue * t.depth
      BY <2>4 DEF Token
    <2> HIDE DEF u
    <2>6. TokenOK(u)
      BY <2>2, <2>4, <2>5 DEF TokenOK
    <2> QED  BY <1>0, <2>2, <2>3, <2>6, NodeUntouched
  <1>4. ASSUME NEW t \in tokens, CatchUp(t)
        PROVE  IInv' /\ Unmoved
    <2>1. PoolOK(Validated(wallet, t))
      BY <1>0, ValidateOK
    <2> QED  BY <1>0, <1>4, <2>1, NodeUntouched DEF CatchUp
  <1>5. ASSUME ReloadNode PROVE IInv' /\ Unmoved
    BY <1>0, <1>5, InstantiateOK, NodeUntouched DEF ReloadNode
  <1>6. ASSUME ReloadWallet PROVE IInv' /\ Unmoved
    BY <1>0, <1>6, InstantiateOK, NodeUntouched DEF ReloadWallet
  <1>7. ASSUME SetMasterSeedHash PROVE IInv' /\ Unmoved
    <2>1. /\ wallet' \in Pool /\ wallet'.banks = wallet.banks
          /\ wallet'.status = wallet.status
      BY <1>0, <1>7 DEF SetMasterSeedHash, PoolOK, Pool
    <2>2. PoolOK(wallet')
      BY <1>0, <2>1 DEF PoolOK
    <2> QED  BY <1>0, <1>7, <2>2, NodeUntouched DEF SetMasterSeedHash
  <1>8. ASSUME NEW b \in Bank, NEW depth \in 1 .. mDimensionDepth, SetPreCachedSeedHash(b, depth)
        PROVE  IInv' /\ Unmoved
    <2>0. depth \in Nat
      BY PoolParameters
    <2>1. /\ wallet' \in Pool /\ wallet'.banks = wallet.banks
          /\ wallet'.status = wallet.status
      BY <1>0, <1>8, <2>0 DEF SetPreCachedSeedHash, PoolOK, Pool
    <2>2. PoolOK(wallet')
      BY <1>0, <2>1 DEF PoolOK
    <2> QED  BY <1>0, <1>8, <2>2, NodeUntouched DEF SetPreCachedSeedHash
  <1>9. CASE UNCHANGED vars
    BY <1>0, <1>1, <1>9, NodeUntouched DEF vars
  <1>10. CASE Next
    BY <1>1, <1>2, <1>3, <1>4, <1>5, <1>6, <1>7, <1>8, <1>10, RedeemOK DEF Next
  <1> QED  BY <1>9, <1>10

\* The invariant holds in every reachable state of the wallet, the node, the
\* tokens in flight and the credits.
THEOREM Invariance == Spec => []IInv
  BY InitOK, NextOK, PTL DEF Spec

-----------------------------------------------------------------------------
(* The properties of TokenPool.                                            *)

\* Both instances, the tokens and the credits always have their types.
THEOREM TypeCorrectness == Spec => []TypeOK
  <1>1. IInv => TypeOK
    BY DEF IInv, TypeOK, PoolOK, TokenOK
  <1> QED  BY <1>1, Invariance, PTL

\* What validateTT() credited and what getValueLeft() leaves always add up to
\* the value of the bank.
THEOREM ValueConserved == Spec => []Conservation
  <1>1. IInv => Conservation
    <2> SUFFICES ASSUME IInv, NEW b \in Bank
                 PROVE  credited[b] + ValueLeft(node, b) = mDimensionDepth * SingleTokenValue
      BY DEF Conservation
    <2>1. PoolOK(node) /\ credited[b] = SingleTokenValue * node.banks[b].depth
      BY DEF IInv, CreditOK
    <2>2. /\ node.banks[b].depth \in Nat /\ node.banks[b].depth <= mDimensionDepth
          /\ ValueLeft(node, b) = SingleTokenValue * (mDimensionDepth - node.banks[b].depth)
      BY <2>1, ValueLeftIs DEF PoolOK, BankOK
    <2>3. ValueLeft(node, b) =
            SingleTokenValue * mDimensionDepth - SingleTokenValue * node.banks[b].depth
      BY <2>2, Distribute, PoolParameters
    <2> QED  BY <2>1, <2>2, <2>3, PoolParameters
  <1> QED  BY <1>1, Invariance, PTL

\* The credit of a bank is that of one token, whatever was shown twice or late.
THEOREM CreditIsBacked == Spec => []CreditBacked
  <1>1. IInv => CreditBacked
    <2> SUFFICES ASSUME IInv, NEW b \in Bank, credited[b] # 0
                 PROVE  \E t \in tokens :
                            t.bank = b /\ credited[b] = SingleTokenValue * t.depth
      BY DEF CreditBacked
    <2>1. credited[b] = SingleTokenValue * node.banks[b].depth
      BY DEF IInv, CreditOK
    <2>2. node.banks[b].depth # 0
      BY <2>1, PoolParameters
    <2> QED  BY <2>1, <2>2 DEF IInv, DepthBacked
  <1> QED  BY <1>1, Invariance, PTL

\* validateTT() accepts every token that lies beyond what the chain has seen.
THEOREM FreshAccepted == Spec => []FreshTokenAccepted
  <1>1. IInv => FreshTokenAccepted
    <2> SUFFICES ASSUME IInv, NEW t \in tokens,
                        t.depth - t.count >= node.banks[t.bank].depth
                 PROVE  Worth(node, t) >= t.value
      BY DEF FreshTokenAccepted
    <2> DEFINE d == node.banks[t.bank].depth
    <2>1. /\ PoolOK(node) /\ t.bank \in Bank /\ t.value \in Nat
          /\ t.depth \in Nat /\ t.count \in Nat /\ t.count # 0 /\ t.count <= t.depth
          /\ t.depth <= mDimensionDepth /\ t.hash = t.depth
          /\ t.value <= SingleTokenValue * t.count
      BY PoolParameters DEF IInv, TokenOK, Token
    <2>2. /\ d \in Nat /\ d < mDimensionDepth
          /\ ValueLeft(node, t.bank) = SingleTokenValue * (mDimensionDepth - d)
          /\ node.status = "active" /\ node.banks[t.bank].status = "active"
      BY <2>1, ValueLeftIs, PoolParameters
    <2>3. /\ SingleTokenValue * t.count <= SingleTokenValue * (t.depth - d)
          /\ SingleTokenValue * (t.depth - d) <= SingleTokenValue * (mDimensionDepth - d)
          /\ SingleTokenValue * (mDimensionDepth - d) <= SingleTokenValue * mDimensionDepth
          /\ SingleTokenValue * t.count \in Nat
          /\ SingleTokenValue * (t.depth - d) \in Nat
          /\ SingleTokenValue * (mDimensionDepth - d) \in Nat
          /\ SingleTokenValue * mDimensionDepth \in Nat
      <3>1. t.depth - d \in Nat /\ mDimensionDepth - d \in Nat /\ t.count <= t.depth - d
            /\ t.depth - d <= mDimensionDepth - d /\ mDimensionDepth - d <= mDimensionDepth
        BY <2>1, <2>2, PoolParameters
      <3> QED  BY <2>1, <3>1, Distribute, PoolParameters
    <2>4. t.value <= ValueLeft(node, t.bank) /\ t.value <= mTotalValue
      BY <2>1, <2>2, <2>3, PoolParameters
    <2>5. FinalHash(node, t.bank, TRUE) = d
      BY <2>1, <2>2, PoolAssumption DEF PoolOK, BankOK, FinalHash
    <2>6. t.depth >= d /\ t.depth # d /\ t.hash - (t.depth - d) = d
      BY <2>1, <2>2
    <2>7. Accepts(node, t)
      <3>1. node.banks[t.bank].status # "depleted"
        BY <2>2
      <3>2. ~(t.depth = node.banks[t.bank].depth /\ t.hash = node.banks[t.bank].hash)
        BY <2>6
      <3>3. t.hash - (t.depth - node.banks[t.bank].depth) = FinalHash(node, t.bank, TRUE)
        BY <2>5, <2>6
      <3> HIDE DEF d
      <3>4. node.status = "active" /\ t.count # 0
        BY <2>1, <2>2
      <3>5. t.depth >= node.banks[t.bank].depth
        BY <2>6 DEF d
      <3> QED  BY <2>4, <3>1, <3>2, <3>3, <3>4, <3>5 DEF Accepts
    <2>8. Worth(node, t) = SingleTokenValue * (t.depth - d)
      BY <2>7 DEF Worth
    <2> QED  BY <2>1, <2>3, <2>8
  <1> QED  BY <1>1, Invariance, PTL

\* The pool on the chain, and each bank, is depleted only once it is used up.
THEOREM ClosedWhenUsedUp == Spec => []ClosedOnlyWhenUsedUp
  <1>1. IInv => ClosedOnlyWhenUsedUp
    BY DEF IInv, PoolOK, BankOK, ClosedOnlyWhenUsedUp
  <1> QED  BY <1>1, Invariance, PTL

\* The usage depth on the chain only grows, and credit grows with it.
THEOREM DepthMonotone == Spec => DepthNeverReverts
  <1> DEFINE Step == \A b \in Bank :
                       /\ node'.banks[b].depth >= node.banks[b].depth
                       /\ credited'[b] - credited[b]
                            = SingleTokenValue * (node'.banks[b].depth - node.banks[b].depth)
  <1>1. IInv /\ [Next]_vars => [Step]_vars
    BY NextOK
  <1> QED  BY <1>1, Invariance, PTL DEF Spec, DepthNeverReverts
=============================================================================
