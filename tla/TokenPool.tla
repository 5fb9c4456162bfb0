----------------------------- MODULE TokenPool -----------------------------
(***************************************************************************)
(* Multi-dimensional token pools: off-chain micropayments with hash chains *)
(* (TokenPool.cpp, TokenPoolBank.cpp, SnakeGame/coin.cpp).                 *)
(*                                                                         *)
(* A pool freezes assets in banks ("dimensions").  A bank is a hash chain  *)
(* of mDimensionDepth links; revealing the hash at depth d spends the      *)
(* first d of them.  The owner's instance (wallet) knows the secrets and   *)
(* makes Transmission Tokens; the instance on the chain (node) validates   *)
(* the tokens it is shown and credits their worth.  Tokens are lost,       *)
(* duplicated and reordered on their way.  Both instances are serialised   *)
(* and brought back to life, the wallet's from the state on the chain.     *)
(*                                                                         *)
(* A hash of a bank's chain is its depth: hashing the hash at depth d      *)
(* gives the one at d - 1, and the final hash is at depth 0.  Only tokens  *)
(* the wallet made are presented; signatures of authenticated pools are    *)
(* left out.                                                               *)
(***************************************************************************)
EXTENDS Integers, FiniteSets

CONSTANTS
    dimensionsCount, valuePerToken, totalValue,  \* parameters of the pool
    NoHash,         \* an empty byte vector where a hash is expected
    Amount,         \* values requested of getTTWorthValue
    MaxTokens       \* bound: tokens made

ASSUME PoolAssumption ==
    /\ dimensionsCount \in Nat \ {0}
    /\ valuePerToken \in Nat \ {0}
    /\ totalValue \in Nat
    /\ Amount \subseteq Nat
    /\ MaxTokens \in Nat
    /\ NoHash \notin Int

Bank == 0 .. dimensionsCount - 1

\* The constructor distributes whole tokens evenly among the banks.
mDimensionDepth == (totalValue \div valuePerToken) \div dimensionsCount
mTotalValue == valuePerToken * dimensionsCount * mDimensionDepth

SingleTokenValue ==
    IF mDimensionDepth = 0 THEN 0
    ELSE mTotalValue \div (mDimensionDepth * dimensionsCount)

VARIABLES
    wallet,     \* the owner's CTokenPool
    node,       \* the CTokenPool on the chain
    tokens,     \* the Transmission Tokens made so far
    credited    \* value credited against each bank

vars == <<wallet, node, tokens, credited>>

Status == {"active", "depleted"}
BankState == [depth : Nat, hash : Nat \cup {NoHash}, status : Status]
Pool == [status : Status, banks : [Bank -> BankState],
         seed : BOOLEAN, cached : [Bank -> Nat]]
Token == [bank : Bank, value : Nat, hash : Nat, count : Nat, depth : Nat]

-----------------------------------------------------------------------------
(* A bank within its pool.                                                 *)

\* generateDimensions(): the banks are untouched.
NewPool(seedKnown) ==
    [status |-> "active",
     banks  |-> [b \in Bank |-> [depth |-> 0, hash |-> NoHash, status |-> "active"]],
     seed   |-> seedKnown,
     cached |-> [b \in Bank |-> 0]]

ValueLeft(p, b) ==
    IF \/ p.banks[b].status = "depleted"
       \/ mDimensionDepth = 0
       \/ p.banks[b].depth = mDimensionDepth
    THEN 0
    ELSE (mDimensionDepth - p.banks[b].depth) * SingleTokenValue

\* Mutant: always the true final hash.
FinalHashOriginal(p, b, currentOne) == 0

\* getFinalHash(): the current ceiling of the chain, or its true final hash.
FinalHash(p, b, currentOne) ==
    IF ~currentOne \/ p.banks[b].hash = NoHash THEN 0 ELSE p.banks[b].hash

\* Mutant: the first used up bank closes the pool.
NotifyClosesEarly(p, status) ==
    IF status = "depleted" THEN [p EXCEPT !.status = "depleted"] ELSE p

\* setStatus() of a bank and notifyBankStatusChanged() of its pool.
NotifyBankStatusChanged(p, status) ==
    IF status = "depleted" /\ \A b \in Bank : p.banks[b].status = "depleted"
    THEN [p EXCEPT !.status = "depleted"] ELSE p

SetBankStatus(p, b, status) ==
    NotifyBankStatusChanged(
        [p EXCEPT !.banks[b] = [p.banks[b] EXCEPT !.status = status]], status)

\* setCurrentHash() and setCurrentDepth().
SetUsage(p, b, depth, hash) ==
    [p EXCEPT !.banks[b] = [p.banks[b] EXCEPT !.depth = depth, !.hash = hash]]

\* The hash getHashAtDepth() delivers: from the revealed part of the chain,
\* from a pre-cached secret or from the bank's seed, if any of them will do.
HashAtDepth(p, b, depth) ==
    LET revealed == depth \in 1 .. mDimensionDepth /\ depth <= p.banks[b].depth
                    /\ p.banks[b].hash # NoHash
    IN  CASE depth = 0 -> 0
          [] depth > mDimensionDepth -> NoHash
          [] revealed -> p.banks[b].hash - (p.banks[b].depth - depth)
          [] OTHER -> IF depth <= p.cached[b] \/ p.seed THEN depth ELSE NoHash

\* getHashAtDepth(depth, true): the range up to depth is used up.
MarkUsed(p, b, depth, hash) ==
    LET q == SetUsage(p, b, depth, hash)
    IN  IF ValueLeft(q, b) = 0 THEN SetBankStatus(q, b, "depleted") ELSE q

-----------------------------------------------------------------------------
(* Making tokens.                                                          *)

\* genTokenWorthValue(): the value in whole tokens, rounded up.
HashesToBeConsumed(value) == 1 + (value - 1) \div SingleTokenValue

\* Mutant: getHashAtDepth() may have failed.
CanGenerateUnchecked(p, b, value) ==
    value # 0 /\ value <= ValueLeft(p, b) /\ SingleTokenValue # 0

CanGenerate(p, b, value) ==
    /\ value # 0 /\ value <= ValueLeft(p, b)
    /\ SingleTokenValue # 0
    /\ HashAtDepth(p, b, p.banks[b].depth + HashesToBeConsumed(value)) # NoHash

AfterUse(p, b, value, markUsed) ==
    LET depth == p.banks[b].depth + HashesToBeConsumed(value)
    IN  IF markUsed THEN MarkUsed(p, b, depth, HashAtDepth(p, b, depth)) ELSE p

\* genTTWorthValue(): the token names the depth the bank has after its use.
TTWorthValue(p, b, value, markUsed) ==
    LET count == HashesToBeConsumed(value)
    IN  [bank  |-> b,
         value |-> value,
         hash  |-> HashAtDepth(p, b, p.banks[b].depth + count),
         count |-> count,
         depth |-> IF markUsed THEN AfterUse(p, b, value, TRUE).banks[b].depth
                               ELSE p.banks[b].depth + count]

GetTTWorthValue(b, value, markUsed) ==
    /\ Cardinality(tokens) < MaxTokens
    /\ CanGenerate(wallet, b, value)
    /\ tokens' = tokens \cup {TTWorthValue(wallet, b, value, markUsed)}
    /\ wallet' = AfterUse(wallet, b, value, markUsed)
    /\ UNCHANGED <<node, credited>>

\* collectCoin() of the Snake game: the player's one token is replaced by one
\* that counts from the ceiling of the chain.
CollectCoin(b, reward) ==
    /\ Cardinality(tokens) < MaxTokens
    /\ CanGenerate(wallet, b, reward)
    /\ LET t == TTWorthValue(wallet, b, reward, TRUE)
       IN  tokens' = tokens \cup {[t EXCEPT !.count = t.depth,
                                            !.value = SingleTokenValue * t.depth]}
    /\ wallet' = AfterUse(wallet, b, reward, TRUE)
    /\ UNCHANGED <<node, credited>>

-----------------------------------------------------------------------------
(* Validating tokens.                                                      *)

\* Mutant: a token from before the bank's depth passes.
AcceptsAnyDepth(p, t) ==
    /\ p.status = "active" /\ p.banks[t.bank].status # "depleted"
    /\ t.count # 0 /\ t.value <= ValueLeft(p, t.bank)
    /\ t.hash - (t.depth - p.banks[t.bank].depth) = FinalHash(p, t.bank, TRUE)

\* The checks of validateTT() that a token has to pass to be worth anything.
Accepts(p, t) ==
    /\ p.status = "active"
    /\ t.count # 0
    /\ t.value <= mTotalValue
    /\ p.banks[t.bank].status # "depleted"
    /\ t.value <= ValueLeft(p, t.bank)
    /\ t.depth >= p.banks[t.bank].depth
    /\ ~(t.depth = p.banks[t.bank].depth /\ t.hash = p.banks[t.bank].hash)
    /\ t.hash - (t.depth - p.banks[t.bank].depth) = FinalHash(p, t.bank, TRUE)

\* Mutant: the revealed hashes the token names are credited.
WorthByCount(p, t) == IF Accepts(p, t) THEN SingleTokenValue * t.count ELSE 0

Worth(p, t) ==
    IF Accepts(p, t) THEN SingleTokenValue * (t.depth - p.banks[t.bank].depth) ELSE 0

\* Mutant: the bank is closed one link early.
ValidatedClosesEarly(p, t) ==
    LET q == SetUsage(p, t.bank, t.depth, t.hash)
    IN  IF ~Accepts(p, t) THEN p
        ELSE IF t.depth + 1 >= mDimensionDepth THEN SetBankStatus(q, t.bank, "depleted")
        ELSE q

\* validateTT(token, true); with updateState = false nothing changes.
Validated(p, t) ==
    LET q == SetUsage(p, t.bank, t.depth, t.hash)
    IN  IF ~Accepts(p, t) THEN p
        ELSE IF t.depth >= mDimensionDepth THEN SetBankStatus(q, t.bank, "depleted")
        ELSE q

Redeem(t) ==
    /\ node' = Validated(node, t)
    /\ credited' = [credited EXCEPT ![t.bank] = @ + Worth(node, t)]
    /\ UNCHANGED <<wallet, tokens>>

\* init() of the Snake game: the host's instance catches up with the token a
\* returning player brings.
CatchUp(t) ==
    /\ wallet' = Validated(wallet, t)
    /\ UNCHANGED <<node, tokens, credited>>

-----------------------------------------------------------------------------
(* Serialisation and secrets.                                              *)

\* instantiate(getPackedData(false)): a bank's status is not stored but
\* inferred, the pool's status is stored, secrets are not.
Instantiate(p) ==
    [status |-> p.status,
     banks  |-> [b \in Bank |-> [p.banks[b] EXCEPT !.status =
                    IF p.banks[b].hash = FinalHash(p, b, FALSE)
                    THEN "depleted" ELSE "active"]],
     seed   |-> FALSE,
     cached |-> [b \in Bank |-> 0]]

ReloadNode ==
    /\ node' = Instantiate(node)
    /\ UNCHANGED <<wallet, tokens, credited>>

ReloadWallet ==
    /\ wallet' = Instantiate(node)
    /\ UNCHANGED <<node, tokens, credited>>

SetMasterSeedHash ==
    /\ wallet' = [wallet EXCEPT !.seed = TRUE]
    /\ UNCHANGED <<node, tokens, credited>>

\* A secret of limited depth, from the owner's mobile device.
SetPreCachedSeedHash(b, depth) ==
    /\ wallet' = [wallet EXCEPT !.cached[b] = depth]
    /\ UNCHANGED <<node, tokens, credited>>

-----------------------------------------------------------------------------
Init ==
    /\ wallet = NewPool(TRUE)
    /\ node = NewPool(FALSE)
    /\ tokens = {}
    /\ credited = [b \in Bank |-> 0]

Next ==
    \/ \E b \in Bank, value \in Amount :
          \/ \E markUsed \in BOOLEAN : GetTTWorthValue(b, value, markUsed)
          \/ CollectCoin(b, value)
    \/ \E t \in tokens : Redeem(t) \/ CatchUp(t)
    \/ ReloadNode \/ ReloadWallet
    \/ SetMasterSeedHash
    \/ \E b \in Bank, depth \in 1 .. mDimensionDepth : SetPreCachedSeedHash(b, depth)

Spec == Init /\ [][Next]_vars

-----------------------------------------------------------------------------
(* Properties.                                                             *)

\* Type invariant: both instances, the tokens and the credits keep the shapes
\* the C++ declarations give them.
TypeOK ==
    /\ wallet \in Pool
    /\ node \in Pool
    /\ tokens \subseteq Token
    /\ credited \in [Bank -> Nat]

\* No value appears or vanishes: whatever is lost, repeated, overtaken or
\* reloaded, what was credited against a bank and what getValueLeft() says is
\* left in it add up to the bank's total value.
Conservation ==
    \A b \in Bank :
        credited[b] + ValueLeft(node, b) = mDimensionDepth * SingleTokenValue

\* "Note that double-spends would NOT succeed anyway": the credit of a bank is
\* that of the deepest token redeemed, not of every token shown.
CreditBacked ==
    \A b \in Bank :
        credited[b] # 0 =>
            \E t \in tokens : t.bank = b /\ credited[b] = SingleTokenValue * t.depth

\* A token whose hashes all lie beyond what the node has seen of its bank is
\* accepted and worth at least its nominal value, whatever was lost before it.
FreshTokenAccepted ==
    \A t \in tokens :
        t.depth - t.count >= node.banks[t.bank].depth => Worth(node, t) >= t.value

\* The pool on the chain is closed only once every bank is used up: no value
\* is locked in by a premature "depleted".
ClosedOnlyWhenUsedUp ==
    /\ node.status = "depleted" => \A b \in Bank : node.banks[b].depth = mDimensionDepth
    /\ \A b \in Bank :
         node.banks[b].status = "depleted" => node.banks[b].depth = mDimensionDepth

\* The usage depth on the chain never goes back, and a step credits exactly
\* what the depth advances by.
DepthNeverReverts ==
    [][\A b \in Bank :
          /\ node'.banks[b].depth >= node.banks[b].depth
          /\ credited'[b] - credited[b]
               = SingleTokenValue * (node'.banks[b].depth - node.banks[b].depth)]_vars

\* What instantiate() says of a bank's status, "serializing this would be a
\* waste of storage; we can infer its value": a pool all of whose banks are used
\* up is depleted, also when it was reloaded on the way.
UsedUpPoolIsClosed ==
    (\A b \in Bank : node.banks[b].depth = mDimensionDepth) => node.status = "depleted"

\* What validateTT() says of comparing depths, "this allows to properly veirfy
\* tokens who provide the number of revealed hashes from the ceiling value": such
\* a token is worth the links it reveals beyond the bank's depth.
CeilingTokenAccepted ==
    \A t \in tokens :
        t.count = t.depth /\ t.depth > node.banks[t.bank].depth =>
            Worth(node, t) = SingleTokenValue * (t.depth - node.banks[t.bank].depth)
=============================================================================
