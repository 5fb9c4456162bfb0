-------------------------- MODULE BlockFormation --------------------------
(***************************************************************************)
(* Formation of a data block by CTransactionManager in FormationFlow mode: *)
(* formBlock() fetches the pending transactions of the mem-pool, starts a  *)
(* Flow on the leader's state, lets processTransactions() process them one *)
(* by one on the reversible stack of module FlowStack, checks its          *)
(* accounting assertions, and aborts the Flow keeping only the block.  The *)
(* block is then replayed by processBlock().  Transactions keep arriving   *)
(* (registerTransaction) while a block is being formed, and the manager    *)
(* may be asked to stop.                                                   *)
(*                                                                         *)
(* A state of the system is the set of effects the transactions left in it *)
(* and the nonce of every state domain.  The two limits of a block (bytes  *)
(* and ERG) have the same shape and are one resource here.  assertGN()     *)
(* calls abort(): a failed assertion ends the process (aborted).           *)
(***************************************************************************)
EXTENDS FlowStack

CONSTANTS
    Tx,                 \* the transactions that may be registered
    Issuer,             \* the state domains that issue them
    issuerOf,           \* [Tx -> Issuer]
    nonceOf,            \* [Tx -> Nat], the 'Envelope Nonce'
    ergPriceOf,         \* [Tx -> Nat], the fee bid used for sorting
    packedSizeOf,       \* [Tx -> Nat \ {0}]
    kindsOf,            \* [Tx -> SUBSET Kind], what processing it may do
    MaxDataBlockSize,   \* a block stays strictly below this
    StopRequests,       \* whether the manager may be asked to stop
    MaxBlocks           \* bound: blocks formed before the model stops

(***************************************************************************)
(* What processing a transaction comes to, whatever the code in it:        *)
(*   ok          its code runs to the end and the fees can be paid         *)
(*   fail        its code (a value transfer) raises an error               *)
(*   broke       its code succeeds but leaves too little to pay the fees   *)
(*   nonceFault  its code succeeds but the nonce cannot be stored          *)
(*   unauth      unknown issuer, no ID token, bad key or signature         *)
(*   poor        ERG bid or balance too low to start with                  *)
(*   keyMismatch the included key does not hash to the named issuer        *)
(***************************************************************************)
Kind == {"ok", "fail", "broke", "nonceFault", "unauth", "poor", "keyMismatch"}

ASSUME FormationAssumption ==
    /\ issuerOf \in [Tx -> Issuer]
    /\ nonceOf \in [Tx -> Nat]
    /\ ergPriceOf \in [Tx -> Nat]
    /\ packedSizeOf \in [Tx -> Nat \ {0}]
    /\ kindsOf \in [Tx -> SUBSET Kind]
    /\ MaxDataBlockSize \in Nat \ {0}
    /\ StopRequests \in BOOLEAN
    /\ MaxBlocks \in Nat
    /\ NoObject \notin Tx

\* processTransaction() turns a bid of zero away before the code runs.
ASSUME PriceAssumption ==
    \A t \in Tx : ergPriceOf[t] = 0 => kindsOf[t] \subseteq {"unauth", "poor", "keyMismatch"}

VARIABLES
    pool, kind,                             \* mMemPool and what its members do
    processed, trigger, invalid, deletion,  \* their HotProperties flags
    ledger,         \* state under the current leader block
    chain,          \* transactions on the chain, in order
    flow,           \* the Flow's stack and counters (FlowStack)
    pc,             \* stage of the block factory's thread
    batch, idx,     \* transactionsToBeProcessed and i
    receipt,        \* effectiveReceipt of the current transaction
    block,          \* transactions and results of the proposal
    used,           \* mUtilizedBlockSize
    fees,           \* mTotalGNCFees
    count,          \* countOfDomainsAffectingTheBlockchain
    succeeded,      \* issuersWithSuccessfulTx
    mark,           \* markAsProcessed
    retry,          \* toRetry
    formed,         \* the proposal handed to the blockchain manager
    attempts,       \* blocks attempted so far
    stopping,       \* getRequestedStatusChange() = stopped
    aborted         \* a failed assertGN ended the process

poolVars == <<pool, kind, processed, trigger, invalid, deletion>>
blockVars == <<block, used, fees, count, succeeded, mark>>
vars == <<pool, kind, processed, trigger, invalid, deletion, ledger, chain,
          flow, pc, batch, idx, receipt, block, used, fees, count, succeeded,
          mark, retry, formed, attempts, stopping, aborted>>

Part == {"code", "fees", "receipt", "log"}
Ledger == [nonce : [Issuer -> Nat], effects : SUBSET (Tx \X Part)]
Result == {"valid", "invalid", "invalidSig", "pubNotMatch", "invalidNonce", "invalidBalance"}
Receipt == [tx : Tx, result : Result, include : BOOLEAN, confirmed : BOOLEAN]
Entry == [tx : Tx, result : Result]
NoReceipt == [tx |-> NoObject]
NoBlock == [txs |-> <<>>]

-----------------------------------------------------------------------------
(* processTransaction(): checks in the order of the code, then the code.   *)

Verdict(db, t, k) ==
    LET is(result, include, confirmed) ==
          [tx |-> t, result |-> result, include |-> include, confirmed |-> confirmed]
    IN  CASE k = "keyMismatch" -> is("pubNotMatch", TRUE, FALSE)
          [] k = "unauth" -> is("invalidSig", FALSE, FALSE)
          [] k \notin {"keyMismatch", "unauth"} /\ db.nonce[issuerOf[t]] + 1 # nonceOf[t]
               -> is("invalidNonce", FALSE, TRUE)
          [] k = "poor" /\ db.nonce[issuerOf[t]] + 1 = nonceOf[t]
               -> is("invalidBalance", FALSE, TRUE)
          [] k = "fail" /\ db.nonce[issuerOf[t]] + 1 = nonceOf[t]
               -> is("invalid", TRUE, TRUE)
          [] OTHER -> is("valid", TRUE, TRUE)

\* The script ran, to its end or into an error: its effects are in the state.
Ran(r) == r.result \in {"valid", "invalid"}

WithEffects(db, t, parts) == [db EXCEPT !.effects = @ \cup ({t} \X parts)]

AfterCode(db, r) == IF Ran(r) THEN WithEffects(db, r.tx, {"code"}) ELSE db

\* A transaction with a nonce from the future waits for its predecessor.
RequiresTrigger(db, r) ==
    r.result = "invalidNonce" /\ nonceOf[r.tx] > db.nonce[issuerOf[r.tx]]

\* incNonce(), the fee deduction, the receipt and, for a failed transfer, the
\* log entry, imposed after processTransaction().
\* Mutant: the nonce stays.
IncNonceForgotten(db, t) == db

IncNonce(db, t) == [db EXCEPT !.nonce[issuerOf[t]] = @ + 1]

Charged(db, r) ==
    WithEffects(IncNonce(db, r.tx), r.tx,
                {"fees", "receipt"} \cup IF r.result # "valid" THEN {"log"} ELSE {})

-----------------------------------------------------------------------------
(* The mem-pool.                                                           *)

\* registerTransaction(): a transaction unknown to the mem-pool enters it
\* with clear flags; one that was dropped may come back.
Register(t) ==
    /\ t \notin pool
    /\ pool' = pool \cup {t}
    /\ \E k \in IF kind[t] = "new" THEN kindsOf[t] ELSE {kind[t]} :
           kind' = [kind EXCEPT ![t] = k]
    /\ UNCHANGED <<processed, trigger, invalid, deletion, ledger, chain, flow, pc,
                   batch, idx, receipt, blockVars, retry, formed, attempts, stopping, aborted>>

\* Mutant: the flags stay.
ForgetKeepsFlags(t) == pool' = pool \ {t} /\ UNCHANGED <<processed, trigger, invalid, deletion>>

\* An object leaves the mem-pool together with its HotProperties.
Forget(t) ==
    /\ pool' = pool \ {t}
    /\ processed' = processed \ {t}
    /\ trigger' = trigger \ {t}
    /\ invalid' = invalid \ {t}
    /\ deletion' = deletion \ {t}

\* Mutant: without mFlowGuardian.
CleanMemPoolAnyTime(t) ==
    /\ t \in pool
    /\ Forget(t)
    /\ UNCHANGED <<kind, ledger, chain, flow, pc, batch, idx, receipt, blockVars,
                   retry, formed, attempts, stopping, aborted>>

\* cleanMemPool() drops objects marked for deletion or invalid, confirmed or
\* too old.  It takes mFlowGuardian, so it never runs during a Flow.
CleanMemPool(t) ==
    /\ pc \in {"idle", "publish"}
    /\ t \in pool
    /\ Forget(t)
    /\ UNCHANGED <<kind, ledger, chain, flow, pc, batch, idx, receipt, blockVars,
                   retry, formed, attempts, stopping, aborted>>

\* getUnprocessedTransactions(): neither waiting for a trigger, nor processed,
\* nor invalid.
Unprocessed == pool \ (trigger \cup processed \cup invalid)

\* From place k on, no transaction before place j has its issuer.
NextInLine(s, j, k) == \A i \in k .. j - 1 : issuerOf[s[i]] # issuerOf[s[j]]

\* feesHighestFirstNonce: an issuer's transactions come by nonce, those with the
\* same nonce as std::sort leaves them, and of all the transactions next in
\* line the one with the highest bid comes first.
FeesHighestFirstNonce(S) ==
    {s \in [1 .. Cardinality(S) -> S] :
        \A k \in DOMAIN s : \A j \in k .. Cardinality(S) :
            /\ s[j] = s[k] => j = k
            /\ issuerOf[s[j]] = issuerOf[s[k]] => nonceOf[s[k]] <= nonceOf[s[j]]
            /\ NextInLine(s, j, k) => ergPriceOf[s[j]] <= ergPriceOf[s[k]]}

\* Mutant: nobody is untriggered.
UntriggersNobody(i) == {}

\* untriggerTransactions(): the issuer's deferred transactions become
\* pending again.
Untriggered(i) == {t \in trigger : issuerOf[t] = i}

-----------------------------------------------------------------------------
(* formBlock() up to the first transaction.                                *)

StartBlock ==
    /\ pc = "idle" /\ ~stopping /\ attempts < MaxBlocks
    /\ Unprocessed # {}
    /\ batch' \in FeesHighestFirstNonce(Unprocessed)
    /\ flow' = StartedFlow(ledger, flow.depth)
    /\ pc' = "loop"
    /\ idx' = 1
    /\ block' = <<>> /\ used' = 0 /\ fees' = 0 /\ count' = 0 /\ succeeded' = {} /\ mark' = TRUE
    /\ attempts' = attempts + 1
    /\ UNCHANGED <<poolVars, ledger, chain, receipt, retry, formed, stopping, aborted>>

\* The condition of the main loop of processTransactions().  The loop also
\* passes over a transaction already marked as processed; BatchStaysPending
\* says that it never meets one.
LoopGoesOn == ~stopping /\ idx <= Len(batch) /\ used < MaxDataBlockSize

\* processTransaction(): the Level 2 copy is pushed, then the verdict and,
\* if it gets that far, the effects of the code.
Executed(f, r) == [PushDB(f, f.db, TRUE) EXCEPT !.db = AfterCode(@, r)]

ProcessTransaction ==
    /\ pc = "loop" /\ LoopGoesOn
    /\ LET t == batch[idx]
           r == Verdict(flow.db, t, kind[t])
       IN  /\ receipt' = r
           /\ flow' = Executed(SelectObject(flow, t), r)
           /\ trigger' = IF RequiresTrigger(flow.db, r) THEN trigger \cup {t} ELSE trigger
           /\ pc' = IF r.include /\ r.confirmed THEN "fees" ELSE "append"
    /\ UNCHANGED <<pool, kind, processed, invalid, deletion, ledger, chain, batch, idx,
                   blockVars, retry, formed, attempts, stopping, aborted>>

-----------------------------------------------------------------------------
(* Fees and nonce, for a transaction that is to be on the chain.           *)

\* Mutant: without Roll Back (1/3).
BeforeFeesKeepsCode(hit) == PushDB(flow, flow.db, TRUE)

\* Roll Back (1/3) undoes the code of a failed transaction; then the Level 1
\* copy is pushed.
BeforeFees(hit) ==
    LET f == IF receipt.result # "valid" THEN StepBack(flow, 1, hit) ELSE flow
    IN  PushDB(f, f.db, TRUE)

ImposeFees(hit) ==
    /\ pc = "fees"
    /\ kind[receipt.tx] \notin {"broke", "nonceFault"}
    /\ LET f == BeforeFees(hit)
       IN  flow' = PopDB([f EXCEPT !.db = Charged(@, receipt)], 1)
    /\ count' = count + 1
    /\ succeeded' = succeeded \cup {issuerOf[receipt.tx]}
    /\ invalid' = IF receipt.result # "valid" /\ mark THEN invalid \cup {receipt.tx} ELSE invalid
    /\ processed' = processed \ Untriggered(issuerOf[receipt.tx])
    /\ trigger' = trigger \ Untriggered(issuerOf[receipt.tx])
    /\ pc' = "append"
    /\ aborted' = (receipt.result # "valid" /\ ~StepBackAsserts(flow, 1))
    /\ UNCHANGED <<pool, kind, deletion, ledger, chain, batch, idx, receipt, block,
                   used, fees, mark, retry, formed, attempts, stopping>>

\* The fees cannot be deducted: "do not affect the system in ANY way".
FeesFail(hit) ==
    /\ pc = "fees"
    /\ kind[receipt.tx] = "broke"
    /\ flow' = [BeforeFees(hit) EXCEPT !.db = IncNonce(@, receipt.tx)]
    /\ receipt' = [receipt EXCEPT !.result = "invalidBalance", !.include = FALSE]
    /\ processed' = processed \cup {receipt.tx}
    /\ invalid' = invalid \cup {receipt.tx}
    /\ pc' = "final"
    /\ UNCHANGED <<pool, kind, trigger, deletion, ledger, chain, batch, idx, blockVars,
                   retry, formed, attempts, stopping, aborted>>

\* The nonce cannot be stored: the transaction is dropped from the block and
\* keeps its flags.
NonceFails(hit) ==
    /\ pc = "fees"
    /\ kind[receipt.tx] = "nonceFault"
    /\ flow' = BeforeFees(hit)
    /\ receipt' = [receipt EXCEPT !.include = FALSE]
    /\ pc' = "final"
    /\ UNCHANGED <<poolVars, ledger, chain, batch, idx, blockVars, retry, formed,
                   attempts, stopping, aborted>>

-----------------------------------------------------------------------------
(* The proposal.                                                           *)

\* getERGUsed() * getERGPrice(): one unit of ERG for code that ran, none for a
\* preliminary receipt.
FeesOf(r) == IF Ran(r) THEN ergPriceOf[r.tx] ELSE 0

\* Mutant: the limit is off by one.
ExceedsOffByOne == used + packedSizeOf[receipt.tx] > MaxDataBlockSize

Exceeds == used + packedSizeOf[receipt.tx] >= MaxDataBlockSize

\* The transaction enters the proposal (unless it is not to be included) and
\* is marked; an excluded one is marked for deletion unless it was deferred.
AppendToBlock ==
    /\ pc = "append"
    /\ receipt.include => ~Exceeds
    /\ IF receipt.include
       THEN /\ block' = Append(block, [tx |-> receipt.tx, result |-> receipt.result])
            /\ used' = used + packedSizeOf[receipt.tx]
            /\ fees' = fees + FeesOf(receipt)
       ELSE UNCHANGED <<block, used, fees>>
    /\ processed' = processed \cup {receipt.tx}
    /\ deletion' = IF ~receipt.include /\ ~(receipt.result = "invalidNonce" /\ receipt.tx \in trigger)
                   THEN deletion \cup {receipt.tx} ELSE deletion
    /\ pc' = "final"
    /\ UNCHANGED <<pool, kind, trigger, invalid, ledger, chain, flow, batch, idx, receipt,
                   count, succeeded, mark, retry, formed, attempts, stopping, aborted>>

\* The limit is hit: Roll Back (2/3), the flags of the transaction are
\* cleared and the loop ends.
LimitReached(hit) ==
    /\ pc = "append"
    /\ receipt.include /\ Exceeds
    /\ flow' = StepBack(flow, 1, hit)
    /\ processed' = processed \ {receipt.tx}
    /\ trigger' = trigger \ {receipt.tx}
    /\ invalid' = invalid \ {receipt.tx}
    /\ deletion' = deletion \ {receipt.tx}
    /\ count' = IF count > 0 THEN count - 1 ELSE 0
    /\ mark' = FALSE
    /\ pc' = "final"
    /\ aborted' = ~StepBackAsserts(flow, 1)
    /\ UNCHANGED <<pool, kind, ledger, chain, batch, idx, receipt, block, used, fees,
                   succeeded, retry, formed, attempts, stopping>>

\* Mutant: one copy is removed, not all of the transaction's.
FinalizedPopsOne(f, r, hit) ==
    [(IF r.include THEN PopDB(f, 1) ELSE StepBack(f, 1, hit)) EXCEPT !.obj = NoObject]

\* The RAII finalizer txCleanup, on every way out of an iteration.
Finalized(f, r, hit) ==
    [(IF r.include THEN PopCurrentTXDBs(f) ELSE RevertTX(f, hit)) EXCEPT !.obj = NoObject]

FinalizeTx(hit) ==
    /\ pc = "final"
    /\ flow' = Finalized(flow, receipt, hit)
    /\ idx' = idx + 1
    /\ pc' = IF mark THEN "loop" ELSE "check"
    /\ aborted' = ~TopRunAsserts(flow)
    /\ UNCHANGED <<poolVars, ledger, chain, batch, receipt, blockVars, retry, formed,
                   attempts, stopping>>

-----------------------------------------------------------------------------
(* Retry of transactions that became pending during the main loop.         *)

Retriable ==
    IF mark /\ used < MaxDataBlockSize
    THEN {t \in Unprocessed : issuerOf[t] \in succeeded} ELSE {}

StartRetry ==
    /\ pc = "loop" /\ ~LoopGoesOn
    /\ Retriable # {}
    /\ retry' \in FeesHighestFirstNonce(Retriable)
    /\ pc' = "retry"
    /\ UNCHANGED <<poolVars, ledger, chain, flow, batch, idx, receipt, blockVars, formed,
                   attempts, stopping, aborted>>

EndLoop ==
    /\ pc = "loop" /\ ~LoopGoesOn
    /\ Retriable = {}
    /\ pc' = "check"
    /\ UNCHANGED <<poolVars, ledger, chain, flow, batch, idx, receipt, blockVars, retry,
                   formed, attempts, stopping, aborted>>

\* One iteration of the retry loop.  It processes, finalizes and appends, but
\* neither increments the nonce nor charges fees nor counts the size.
RetryTransaction(hit) ==
    /\ pc = "retry" /\ retry # <<>>
    /\ LET t == Head(retry)
           r == Verdict(flow.db, t, kind[t])
           f == Executed(SelectObject(flow, t), r)
           deferred == RequiresTrigger(flow.db, r)
       IN  /\ flow' = Finalized(f, r, hit)
           /\ aborted' = ~TopRunAsserts(f)
           /\ trigger' = IF deferred THEN trigger \cup {t} ELSE trigger
           /\ processed' = IF deferred THEN processed ELSE processed \cup {t}
           /\ deletion' = IF r.include \/ deferred THEN deletion ELSE deletion \cup {t}
           /\ IF r.include /\ r.confirmed
              THEN /\ block' = Append(block, [tx |-> t, result |-> r.result])
                   /\ count' = count + 1
              ELSE UNCHANGED <<block, count>>
    /\ retry' = Tail(retry)
    /\ UNCHANGED <<pool, kind, invalid, ledger, chain, pc, batch, idx, receipt, used, fees,
                   succeeded, mark, formed, attempts, stopping>>

EndRetry ==
    /\ pc = "retry" /\ retry = <<>>
    /\ pc' = "check"
    /\ UNCHANGED <<poolVars, ledger, chain, flow, batch, idx, receipt, blockVars, retry,
                   formed, attempts, stopping, aborted>>

-----------------------------------------------------------------------------
(* formBlock() after processTransactions(), and the verification.          *)

\* "Total of cleaned and reverted must match the number of transactions
\* scheduled for processing"
AccountingAsserts ==
    /\ flow.total = 0
    /\ flow.cleaned + flow.reverted = Len(batch)

\* The fees in the receipts (validatedFees) are those counted while processing.
ValidatedFees ==
    LET V[k \in 0 .. Len(block)] == IF k = 0 THEN 0 ELSE V[k - 1] + FeesOf(block[k])
    IN  V[Len(block)]

\* The assertions, then abortFlow(); an empty block is not proposed.
FinishBlock ==
    /\ pc = "check"
    /\ aborted' = ~(AccountingAsserts /\ ValidatedFees = fees)
    /\ flow' = CleanedUp(flow)
    /\ IF block = <<>>
       THEN pc' = "idle" /\ formed' = NoBlock
       ELSE /\ pc' = "publish"
            /\ formed' = [txs |-> block, final |-> flow.db,
                          cut |-> IF mark THEN NoReceipt ELSE receipt]
    /\ UNCHANGED <<poolVars, ledger, chain, batch, idx, receipt, blockVars, retry,
                   attempts, stopping>>

\* Processing of one block transaction in verification mode: it has to come
\* from a confirmed domain and pay its fees; whatever the result, the nonce is
\* incremented and the receipt stored.
VerifyTx(acc, e) ==
    LET r    == Verdict(acc.db, e.tx, kind[e.tx])
        size == acc.size + packedSizeOf[e.tx]
    IN  [ok   |-> acc.ok /\ r.confirmed /\ size < MaxDataBlockSize
                  /\ kind[e.tx] \notin {"broke", "nonceFault"},
         db   |-> Charged(IF r.result = "valid" THEN AfterCode(acc.db, r) ELSE acc.db, r),
         size |-> size]

Replay(db, txs) ==
    LET R[k \in 0 .. Len(txs)] ==
          IF k = 0 THEN [ok |-> TRUE, db |-> db, size |-> 0]
          ELSE VerifyTx(R[k - 1], txs[k])
    IN  R[Len(txs)]

\* processBlock() of the proposal: accepted when its transactions verify and
\* lead to the Perspective in its header.
ProcessBlock ==
    /\ pc = "publish"
    /\ LET v == Replay(ledger, formed.txs)
       IN  IF v.ok /\ v.db = formed.final
           THEN /\ ledger' = v.db
                /\ chain' = chain \o [k \in 1 .. Len(formed.txs) |-> formed.txs[k].tx]
           ELSE UNCHANGED <<ledger, chain>>
    /\ formed' = NoBlock
    /\ pc' = "idle"
    /\ UNCHANGED <<poolVars, flow, batch, idx, receipt, blockVars, retry, attempts,
                   stopping, aborted>>

RequestStop ==
    /\ StopRequests /\ ~stopping
    /\ stopping' = TRUE
    /\ UNCHANGED <<poolVars, ledger, chain, flow, pc, batch, idx, receipt, blockVars,
                   retry, formed, attempts, aborted>>

-----------------------------------------------------------------------------
GenesisLedger == [nonce |-> [i \in Issuer |-> 0], effects |-> {}]

Init ==
    /\ pool = {} /\ kind = [t \in Tx |-> "new"]
    /\ processed = {} /\ trigger = {} /\ invalid = {} /\ deletion = {}
    /\ ledger = GenesisLedger
    /\ chain = <<>>
    /\ flow = CleanedUp(StartedFlow(GenesisLedger, 0))
    /\ pc = "idle"
    /\ batch = <<>> /\ idx = 1
    /\ receipt = NoReceipt
    /\ block = <<>> /\ used = 0 /\ fees = 0 /\ count = 0 /\ succeeded = {} /\ mark = TRUE
    /\ retry = <<>>
    /\ formed = NoBlock
    /\ attempts = 0
    /\ stopping = FALSE
    /\ aborted = FALSE

MemPoolStep == \E t \in Tx : Register(t) \/ CleanMemPool(t)

FactoryStep ==
    \/ StartBlock \/ ProcessTransaction
    \/ AppendToBlock
    \/ StartRetry \/ EndLoop \/ EndRetry
    \/ FinishBlock \/ ProcessBlock
    \/ \E hit \in BOOLEAN :
          \/ ImposeFees(hit) \/ FeesFail(hit) \/ NonceFails(hit)
          \/ LimitReached(hit) \/ FinalizeTx(hit) \/ RetryTransaction(hit)

Next == ~aborted /\ (MemPoolStep \/ FactoryStep \/ RequestStop)

Spec == Init /\ [][Next]_vars

-----------------------------------------------------------------------------
(* Properties.                                                             *)

Stage == {"idle", "loop", "fees", "append", "final", "retry", "check", "publish"}

\* Type invariant: the mem-pool's flags, the Flow's stack and counters and the
\* proposal keep the shapes the C++ declarations give them.
TypeOK ==
    /\ pool \subseteq Tx /\ kind \in [Tx -> Kind \cup {"new"}]
    /\ processed \subseteq pool /\ trigger \subseteq pool
    /\ invalid \subseteq pool /\ deletion \subseteq pool
    /\ ledger \in Ledger
    /\ chain \in Seq(Tx)
    /\ flow.dbs \in Seq([obj : Tx \cup {NoObject}, db : Ledger])
    /\ flow.persps \in Seq(Ledger)
    /\ flow.db \in Ledger /\ flow.backup \in Ledger
    /\ flow.obj \in Tx \cup {NoObject}
    /\ {flow.depth, flow.total, flow.cleaned, flow.reverted} \subseteq Nat
    /\ pc \in Stage
    /\ batch \in Seq(Tx) /\ retry \in Seq(Tx) /\ idx \in Nat
    /\ receipt \in Receipt \cup {NoReceipt}
    /\ block \in Seq(Entry)
    /\ used \in Nat /\ fees \in Nat /\ count \in Nat
    /\ succeeded \subseteq Issuer
    /\ {mark, stopping, aborted} \subseteq BOOLEAN

\* The assertions of stepBack, revertTX and popCurrentTXDBs never fail,
\* however transactions are rolled back: the number of copies tagged with the
\* current transaction is the depth counted for it.
StackAssertsHold ==
    /\ pc = "final" => TopRunAsserts(flow)
    /\ pc = "fees" => StepBackAsserts(flow, 1)

\* While transactions are processed the stack never grows past the Level 0, 1
\* and 2 copies, every copy above Level 0 belongs to the current transaction,
\* and copies and Perspectives stay aligned: the eviction in pushDB, which
\* would break the alignment, is never needed.
StackDiscipline ==
    /\ Aligned(flow)
    /\ Len(flow.dbs) <= 3
    /\ pc \in {"fees", "append", "final"} =>
         \A k \in 2 .. Len(flow.dbs) : flow.dbs[k].obj = receipt.tx
    /\ pc \in {"loop", "retry"} => Len(flow.dbs) = 1 /\ flow.total = 0

\* Between two transactions of the main loop the Flow's state is exactly what
\* a verifier obtains by replaying the proposal so far: each transaction left
\* all of its effects, or none, with every roll-back along the way.
BlockSoFarReplays ==
    pc = "loop" =>
        LET v == Replay(ledger, block) IN v.ok /\ v.db = flow.db

ReplaysToHeader == LET v == Replay(ledger, formed.txs) IN v.ok /\ v.db = formed.final

\* A published block replays to the Perspective in its header, also when its
\* formation was ended by a successful transaction that hit the block limit.
\* (CutBlockReplays is about failed transactions hitting it.)
PublishedBlockReplays ==
    pc = "publish" /\ ~aborted /\ (formed.cut = NoReceipt \/ formed.cut.result = "valid")
        => ReplaysToHeader

\* What processTransactions() says of the limit, "we just gently and silently
\* revert to a previous Perspective and discard the transaction": the block
\* left behind is the one formed before that transaction.
CutBlockReplays ==
    pc = "publish" /\ ~aborted /\ formed.cut # NoReceipt => ReplaysToHeader

\* No transaction enters the chain twice, and each issuer's transactions enter
\* it with consecutive nonces, although they are dropped from the mem-pool,
\* re-registered, deferred, cut off at the limit and processed again.
NonceSequence ==
    \A p \in 1 .. Len(chain) :
        nonceOf[chain[p]] =
            1 + Cardinality({q \in 1 .. p - 1 : issuerOf[chain[q]] = issuerOf[chain[p]]})

\* A deferred transaction is never left waiting for an event in the past: when
\* no block is in the making its nonce is still more than one ahead of its
\* domain, so the transaction that will untrigger it is yet to come.
NoMissedTrigger ==
    pc = "idle" => \A t \in trigger : nonceOf[t] > ledger.nonce[issuerOf[t]] + 1

\* The rest of a fetched batch stays pending until its turn comes, whatever is
\* untriggered, cut off or registered meanwhile.
BatchStaysPending ==
    pc = "loop" => \A k \in idx .. Len(batch) : batch[k] \in Unprocessed

\* However a transaction leaves the main loop - on the chain, undone by any of
\* the roll-backs, excluded or cut off at the limit - it is counted as cleaned
\* or reverted exactly once, and those a stop request or the limit left in the
\* batch are not counted.
CountedOnce ==
    pc \in {"loop", "fees", "append", "final"} \/ (pc = "check" /\ ~mark)
        => flow.cleaned + flow.reverted = idx - 1

\* What the assertion after processTransactions() in formBlock() says: every
\* scheduled transaction was either cleaned or reverted, exactly once.
AccountingHolds == pc = "check" => AccountingAsserts
=============================================================================
