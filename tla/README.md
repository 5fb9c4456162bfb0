# A TLA+ model of GRIDNET Core

GRIDNET Core is a blockchain node with its own script language, off-chain
payments and a browser-based operating system on top.  This project models the
parts of the node whose correctness depends on the order in which things
happen: the reversible state in which blocks are formed and verified, who may
work on that state at what time, how a block gets from there to the state the
node shows, which chain of blocks it believes in, and the token pools behind
off-chain payments.

Paths below are relative to `src/GRIDNETCore/GRIDNET/`; `TM` is
`TransactionManager.cpp`, `BM` is `BlokchainManager.cpp`.

## Inventory

| Component | State | Operations | Works with | Hard to get right |
|---|---|---|---|---|
| Flow stack (`TM`) | copies of the state trie, their root hashes ("Perspectives"), depth counters, cleaned/reverted counters | `pushDB`, `popDB`, `stepBack`, `popCurrentTXDBs`, `revertTX`, `cleanupFlow` | block formation, `endFlow` | roll-backs of different depth on every error path; counters that outlive a Flow |
| Block formation (`TM`) | the proposal, fees, utilised size and ERG, current receipt | `formBlock`, `processTransactions`, `processTransaction` | mem-pool, Flow, verifier | limits, retries, failed fees, replay by the verifier |
| Mem-pool (`TM`) | pending objects with flags (processed, trigger required, invalid, for deletion) | `registerTransaction`, `getUnprocessedTransactions`, `untriggerTransactions`, `cleanMemPool` | network, block formation | a transaction deferred, released, cut off and processed again |
| Flow start and end (`TM`, `BM`) | `mInFlow`, `mIsSettingUpFlow`, chain guardian, state DB lock, `mFlowGuardian`, `mDataBlockFormationGuardian` | `startFlow`, `abortFlow`, `endFlow`, `cleanMemPool` | both block factories, block processor, mem-pool maintenance | lock order, polling, early returns |
| Flow commit (`TM`, `BM`) | state of the Flow, links, trie nodes in Cold Storage, live state | `endFlow`: dry run, second run, links; `processBlock` around it | block processor, verifier | failing or stopping between any two writes |
| Verifiables and rewards (`TM`, `Verifier.cpp`) | links of reported frauds, rewards per epoch | `processVerifiables`, `verifyActuateAndArm` | key blocks | reporting a fraud twice; roll-back of one verifiable |
| Chain selection (`BM`) | heaviest chain-proof, path and cumulative works; verified chain-proof and leader; processing queue, hunted blocks, blacklist; what of it is in Cold Storage | `analyzeAndUpdateChainProof`, `verifyChainProof`, `commitHeaviestChainProofBlocks`, `processBlock`, `setLeader`, `immuniseAgainstBlock` | conversations, factories, Flow | three vectors kept in step by hand; forks, failing blocks, crashes |
| Token pools (`TokenPool.cpp`, `TokenPoolBank.cpp`, `TransmissionToken.cpp`, `SnakeGame/`) | banks with depth, hash, status; secrets | `getTTWorthValue`, `validateTT`, `instantiate`, `collectCoin` | state domains, Snake game | tokens lost, repeated, overtaken; reloads |
| Thread pool (`ThreadPool.h`) | task queue, workers, Stop tasks | `enqueue`, `resize`, `waitAll` | network | lost wake-ups |
| `SynchronizedLocker.cpp` | held locks | try-lock with back-off | `BM` | deadlock, livelock |
| Connections (`ConnTracker.cpp`, `conversationState.cpp`) | intervals, conversation state | ping, end, renewal | network manager | late pings |
| WebRTC swarms (`webRTCSwarm.cpp`) | members and their sessions | join, signal, leave | web sockets | partial meshes |
| Scheduler, tasks, polls | deadlines, votes | schedule, run, vote | node | timeouts, quorums |
| Conversations, network manager, router; storage; proof of work; scripts | sessions, key-value data, device work | I/O | everything | mostly formats and I/O |

What makes the modelled components correct:

* a transaction leaves all of its effects in the state of a block or none, and
  a block leads every verifier to the Perspective in its header;
* each issuer's transactions enter the chain once and in the order of their
  nonces, and a deferred one does not wait for something that has happened;
* at most one Flow is open at a time, it is ended by its own thread, and the
  threads that want one do not wait forever;
* the live state shows whole blocks only, each executed from the outcome of its
  parent, and no fraud is rewarded twice on the chain;
* the heaviest chain-proof gives way to more work only, a block that failed does
  not come back, and the verified chain catches up with the heaviest one;
* a token pool never pays out a value twice, never loses one, and is closed
  exactly when it is used up.

## Modules

| Module | Models | Used by |
|---|---|---|
| `FlowStack` | the reversible stack, as operators on a record | `BlockFormation`, `FlowStackProofs` |
| `BlockFormation` | mem-pool, data-block formation, replay | `MCBlockFormation`, `BlockFormationProofs` |
| `FlowLocks` | starting and ending Flows by several threads | `MCFlowLocks`, `FlowLocksProofs` |
| `TokenPool` | two instances of a pool and the tokens between them | `MCTokenPool`, `TokenPoolProofs` |
| `AtomicLedger` | abstract: what committing a block promises | `FlowCommit`, `ChainProofs` |
| `FlowCommit` | `endFlow`, and `processBlock` around it | `MCFlowCommit`, `FlowCommitProofs` |
| `ChainProofs` | heaviest and verified chain-proof, queue, restarts | `MCChainProofs`, `ChainProofsProofs` |
| `WellOrder` | least and greatest numbers, induction up to a number | the proofs below |
| `FlowStackProofs` | lemmas: what each stack operation does to a stack in order | `BlockFormationProofs` |
| `BlockFormationProofs` | theorems about stack, batch and deferred transactions | `BlockReplayProofs` |
| `BlockReplayProofs` | theorems about the replay of blocks and about nonces | |
| `ChainProofsProofs`, `FlowLocksProofs`, `TokenPoolProofs`, `FlowCommitProofs` | theorems about the module they are named after | |

Operators whose comment begins with "Mutant" are deliberately wrong variants
of the definition that follows them.  No specification uses them; substituting
one for its original must break the property it is paired with in
`PROJECT.json`.

### FlowStack and BlockFormation

A Flow is a record: the two vectors (`dbs`, `persps`), the depth counted for the
current transaction and for all (`depth`, `total`), the counters `cleaned` and
`reverted`, the working state `db`, the backup and the current object.  A state
is a value and its Perspective is the state it identifies.  `pushDB`'s two
eviction loops share their index in the code and so they do here.
`stepBack` reaches a Perspective through cold storage or, if that fails, through
the copy on the stack; both outcomes are explored.

In `BlockFormation` a state is the set of effects of transactions (their code,
fees, receipt and log entry) and the nonce of every domain.  The block factory's
thread goes through the stages of `formBlock` (`pc`): fetch and start the Flow,
main loop (`ProcessTransaction`, then `ImposeFees`, `FeesFail` or `NonceFails`,
then `AppendToBlock` or `LimitReached`, then the RAII finalizer `FinalizeTx`),
retry of released transactions, the assertions and `abortFlow` (`FinishBlock`),
and `processBlock` of the proposal.  Registration of transactions and stop
requests interleave with every stage, cleaning only when no Flow is open (it
takes `mFlowGuardian`).  A failed `assertGN` ends the process.

What processing a transaction comes to is one of seven kinds, chosen when it first
enters the mem-pool.  `keyMismatch` (the key a transaction includes is not its
issuer's) is described but not instantiated: the admission check that decides whether
such a transaction can reach the pool is not in the repository.  With one in the
proposal, formation includes it without nonce and fees and the verifier turns the
block down, so that the two replay properties are about pools without one;
`NonceSequence` holds with them too.  The size and the ERG limit have the same shape
and are one resource.  `getUnprocessedTransactions` sorts by issuer and nonce and then
takes the best bid among the transactions next in line (`FeesHighestFirstNonce`,
`NextInLine`); transactions of one issuer with one nonce come in the order `std::sort`
happens to leave, which is any order.  It runs before `startFlow`, under
`mDataBlockFormationGuardian`, which cleaning takes too, so `StartBlock` is one step.
After a stop request in the middle of a batch the retry loop picks up the rest of the
batch without nonce and fees; only the accounting and fee assertions then keep the
block from being published.  A stop or the limit that leaves a rest of the batch fails
the accounting assertion and ends the process: the counters have the transactions
taken (`CountedOnce`), the assertion compares them with all of them.

Left out: verifiables, rewards and uncles, phantom mode, the compatibility
layers for checkpointed blocks, failures of the receipt storage, sacrifice
receipts, and the contents of scripts.

### FlowLocks

Key block factory, data block factory and the mem-pool's cleaner share the
formation manager; the block processor has the verification manager; all share
the chain guardian.  Each step of `startFlow` and `abortFlow` that takes or
releases a lock held across the call, or reads or writes `mInFlow` or
`mIsSettingUpFlow`, is an action.  The guards both functions take for their own
duration only are folded away.  `endFlow` releases what `abortFlow` releases, in
the same order, and is represented by it.  The early returns of `formBlock` that
leave the Flow open, the assertion on a failed `startFlow`, and `processBlock`'s
`abortFlow` after one are actions as well.  No caller sets `abortOnLock`.

Only the controller's thread works with the verification manager (`processBlock`,
from the block queue, `BM:23283`), so a Flow it failed to start is never another
thread's on that manager.  The chain guardian is shared, though: were `abortFlow` not
to ask whether its manager is in a Flow, the processor would release the guardian of
a Flow on the formation manager (`CheckInFlowUnasked` breaks `OnlyOwnFlowIsClosed`).

### AtomicLedger and FlowCommit

`AtomicLedger` has two variables: the blocks executed, and the one the live state
shows.  A block is executed after its parent, and only an executed one is shown.

`FlowCommit` is one block after the other on its way through validation
(`endFlow` with `commit` false, compared with the header), the second Flow, its
dry pass (`DryTransactions`, `DryVerifiables`, `DryReward`), the decision, the
committing pass (`CommitTransactions`, `CommitVerifiables`, `CommitReward`, each
with the comparison that follows it in the code), the links one by one
(`SaveLink`), `Close`, `UpdateLive` and `SetLeader`.  Each of them may fail, and
the node may stop and restart before each; a failed assertion is such a stop.
`mishaps` counts both.  Which result is ignored, which one only prevents the
commit and which one fails the Flow is as in the code: `processTransactions` of
the committing pass is not looked at (its Perspective is), an epoch reward that cannot be
calculated fails the Flow but does not end it, in either pass, so that the committing
one may still write its state as a whole before it reports the failure, a Perspective that
`recalcPerspective` does not confirm prevents the commit and not the success, and
`processBlock` looks at the success only.

A state is identified by its Perspective, written as the block and how many of
its three parts are done; a state that is no such outcome is `Damaged`.  The
assumption behind it is that different blocks lead to different states.  Cold
Storage loses no node of the trie.  Of the links only those of frauds are
modelled, as nothing decides on the others.  Turbo Flow, receipts and the backlog
of domains are left out.

The refinement maps `executed` to the blocks whose outcome is in Cold Storage and
`shown` to the block whose outcome the live state is (or to something no block
matches, if it is none): partial writes are invisible, and every step that
completes a block or moves the live state must be a step of the ledger.

### ChainProofs

`best` is the heaviest chain-proof with its path, its cumulative works and its
total difficulty; `verified`, `leader` and `verifiedWork` are the verified one;
`cold` is what Cold Storage has of both.  A conversation's thread presents a
chain-proof in one step (`ReceiveProof`): the whole of `verifyChainProof` and
`analyzeAndUpdateChainProof` runs under `mHeaviestPathGuardian`.  The two returns
for a wrong parent reference that keep the guardian locked are modelled by
`guardian`.  The controller thread enqueues the blocks of the heaviest path it
has, pops one, validates it, and appends or rejects it, each a step of its own;
peers' proofs, downloads and blocks mined here come in between.

A block stands for its header and ID; heights, weights, works and key blocks are
constants that agree with the parent, and a header that lies about them is refused
by the same code path as a blacklisted one.  `Bad` blocks are those whose execution
gives another Perspective than their header's.  The repair in
`doDataPartVerification` that gives up the leader, the alignment of the heaviest
proof with a better verified one, the processing of blocks that are not scheduled
locally, the cut before a rejected block, and start-up with its cross comparison
are included.  `mined` has the blocks this node has mined; a peer presents one of
them only afterwards, for nobody else knows it.  `setLeader` returns at once for
the block that leads already (`BM:6117`), and a new chain that does not verify
leaves the old leader in place (`BM:9417`).

The heaviest proof and its path are saved one after the other, and `torn` records
that a crash fell between the two (`Restart` finds one of them new and the other
old).  Start-up tells them apart by their lengths only.  Two chains of one length
are therefore kept as proof and path of each other: the path names blocks that
were never in the proof, the controller works off the path, and a leader that
continues the path is appended to the proof too, behind a header that is not its
parent's.  (The assertion at `BM:6268`, which compares the sum kept with the
work of the block, would then end the process.)  After such a crash the
properties promise less: lengths and heights still agree, links and names need
not.

A torn sync of the verified proof needs no action: the path is
computed again from the proof at start-up, as if it had been complete.  After an
integrity error the three vectors do not belong together; what the node does with
them until it is restarted is left out.

Left out: checkpoints and hard forks, pruning and caches, the search of
difficulties by time, and the proofs kept per conversation.  Chain-proofs begin
with genesis.

### TokenPool

`wallet` is the owner's instance, `node` the one on the chain.  A hash is its
depth in the bank's chain.  Made tokens stay available, so they may be shown
never, once, several times and in any order.  `CollectCoin` makes the Snake
game's tokens, which count from the ceiling of the chain; `CatchUp` is the
game's start, which applies a player's token to the host's instance.
`Instantiate` is the round trip through serialisation, where a bank's status is
inferred.  Only tokens made by the wallet are shown; signatures are left out, and
so are `resetBanks` and `getNextHash`, which nobody calls.

## Runs

| Run | Configuration | Result |
|---|---|---|
| `block_formation` | four transactions, two issuers, limit 4, two blocks, stop requests | passes, 2.1 million states |
| `block_accounting` | the same, limit out of reach, no stop requests | violation of `AccountingHolds` |
| `block_limit` | limit 4, no stop requests | violation of `CutBlockReplays` |
| `token_pool` | two banks of three links worth 2, amounts 1, 3, 6, three tokens | passes, 340 thousand states |
| `token_reload`, `token_ceiling` | the same | violations of `UsedUpPoolIsClosed`, `CeilingTokenAccepted` |
| `flow_locks` | one thread of each kind | passes, 8640 states |
| `flow_race` | the same | violation of `NobodyInFlow` |
| `chain_proofs` | five blocks on two branches, one that fails; queue of two, two proofs received, one mishap | passes, 40 thousand states |
| `chain_fork` | the same, this node mining the first key block, none failing | violation of `ForkNeedsWork` |
| `flow_commit` | five blocks on two branches, two frauds, two mishaps | passes, 73 thousand states |
| `fraud_links` | the same without mishaps | violation of `LinkMeansPenalised` |

**block_formation.**  `StackAssertsHold` and `StackDiscipline`: the assertions
in the stack functions never fail, every copy above Level 0 belongs to the
current transaction and the eviction is never needed.  `BlockSoFarReplays`: after
each transaction of the main loop the state is what a verifier gets from the
block so far.  `PublishedBlockReplays`: published blocks lead to their header.
`NonceSequence`, `NoMissedTrigger`, `BatchStaysPending`: order, release and
stability of pending transactions.  `CountedOnce`: whichever of the ways a transaction
leaves the main loop by, `popCurrentTXDBs` or `revertTX` counts it once, however many
copies it had on the stack.  Two blocks are needed for leftovers of a
Flow (the depth counter, flags, deferred transactions) to matter; a rival
transaction with the same nonce and an issuer with two nonces give deferral,
release and duplicates; sizes 1, 1, 1 and 2 under the limit 4 make the limit hit
at exactly the limit and above it.

**flow_locks.**  `OneFlow`, `OneSetup`, `OnlyOwnFlowIsClosed`, and the liveness
property `StartFlowReturns`.

**token_pool.**  `Conservation`, `CreditBacked`, `FreshTokenAccepted`,
`ClosedOnlyWhenUsedUp`, and the action property `DepthNeverReverts`.  Three
tokens allow a lost one, a repeated one and an overtaking one at a time; odd
amounts exercise the rounding, the remainder of the total value the division.

**chain_proofs.**  `InStep`: the three vectors of the heaviest proof have one
length and every block at its height and, unless a crash tore the save of two of
them, describe one linked chain.  `VerifiedChain`: the verified one is linked, ends with the leader
and has been executed.  `HeaviestNotBlacklisted` and `NeverLighter`: what may
replace the heaviest proof of a running node, and `RestartKeepsWork` for a restart,
which `NeverLighter` exempts: the total difficulty zeroed by the constructor (`BM:1966`)
is restored, and a later proof has to beat both chains.  `ErrsOnlyAtGenesis` and
`OnlyUnlinkedProofsLeak` bound the two defects that stop the node and that `CatchUp`
excuses: only a path of genesis alone ends in the integrity error (`BM:26487`), and only
a peer whose proof is not linked takes the guardian away (`BM:13987`), never the
controller, a leader or a linked proof.  The last of the four proofs, from the other
branch to a block of the first, is the one that does.
`ShowsWholeBlocks`: `AtomicLedger` is implemented.
`CatchUp` (liveness): the verified chain reaches the heaviest one and stays there.
This node mines the data block that continues the first branch.
Four proofs are enough for a longer one, a heavier one, one with as much work, one
that parts at genesis, one that parts behind it and one with a wrong link; two
received give each pair in either order.  A queue of two is overrun by a path of
three.  One mishap is a failed Flow, a damaged Perspective or a crash, torn or not;
the failing block and a mined rival come on top of it.

**flow_commit.**  `WholeBlocks`: `AtomicLedger` is implemented.  `NoDoubleReward`,
stated for one mishap: with two, a link that was not saved and a commit that was
prevented when the same block came again, a block is proclaimed whose links are
missing, and TLC finds the fraud reported twice.  `ValidatedBlockCommits`: the
passes agree.  Two frauds in one block let links be saved in part; a branch of its
own and an extension that report them again are both needed.

The block, lock and chain runs do not check deadlock: the process may be ended by
an assertion, the factory stops after `MaxBlocks`, a leaked Flow does stop the
node, and so does the guardian a peer's thread left locked; a node that has caught
up waits for its peers.

### Where code and comment disagree

* `block_accounting`: "Total of cleaned and reverted must match the number of
  transactions scheduled for processing" (`TM:7076`).  A retried transaction was
  not scheduled, so the assertion below the comment ends the process.
* `block_limit`: "we just gently and silently revert to a previous Perspective
  and discard the transaction" (`TM:9430`).  For a failed transaction the
  Perspective restored is the one before the block.
* `token_reload`: "we can infer its value" (`TokenPool.cpp:660`).  The comparison
  is with the hash of an untouched bank; a used-up one comes back active.
* `token_ceiling`: "this allows to properly veirfy tokens who provide the number
  of revealed hashes from the ceiling value" (`TokenPool.cpp:217`).  The check at
  line 165 rejects them once their nominal value exceeds what is left.
* `flow_race`: "this should not happen" (`TM:2201`).  `abortFlow` releases the
  chain guardian before it resets `mInFlow`.
* `chain_fork`: "blocks outside of the heaviest known chain-proof are never to be
  processed" (`BM:9902`), a leader "NEEDS TO result in the heaviest chain"
  (`BM:9909`).  A block mined here on the parent of the leader, popped after the
  leader was appended, is not a fork by the test at `BM:7405` and replaces it.
* `fraud_links`: "check if a Link [...] is present - this will suffice"
  (`Verifier.cpp:132`).  The link stays when a fork abandons the block that
  reported the fraud; the block of the other branch that reports it is refused.

## Fairness

In `FlowLocks` a thread that has begun goes on
(weak fairness of `Continue`); it need not begin.  Strong fairness is assumed of
taking `mInitialStatusQueryGuardian`, which pollers release for 3 ms between two
attempts, and of taking the state DB against a cleaner that comes every 30
seconds: neither competitor holds its lock most of the time.  Nothing is assumed
about the choice between success and failure of a step.  `StartFlowReturns` names
its two exceptions, a Flow left open by `formBlock` and the lock inversion of
`cleanMemPool`: both are defects of the code, listed as hazards, in which the
threads do wait forever, and no property claims otherwise.

In `ChainProofs` the controller's loop goes on as long as it has something to do
(weak fairness of `Progress`, without the mishaps and without the syncs, which
depend on the time), and a block that was asked for arrives some time (weak
fairness of `Download` for each block; the code asks again until it does).  Nothing
is assumed about peers' proofs, mining, the expiry of the blacklist or crashes.
`CatchUp` names its three exceptions: the integrity error of a path of genesis
alone (`BM:26487`), the guardian left locked (`BM:13987`) and the torn save
(`BM:6048`).

## Proofs

`TokenPoolProofs` proves, for every number of banks, token value, total value
and set of amounts, `TypeOK`, `Conservation`, `CreditBacked`,
`FreshTokenAccepted`, `ClosedOnlyWhenUsedUp` and `DepthNeverReverts`.  None of
them is inductive alone.  The inductive invariant says that in each instance a
bank's hash is the one at its depth and only used-up banks are depleted, that a
token's hash lies at its depth and its value is covered by the links it counts,
that a bank's credit is its depth times the token value, and that a token
reveals that depth.  The arithmetic (rounding up, dividing a product) is in
lemmas of its own.  It rests on `PoolAssumption`: positive bank count and token
value, and a model value for the empty hash.

`FlowLocksProofs` proves, for any number of managers and of threads of each
kind, `TypeOK`, `OneFlow`, `OneSetup` and `OnlyOwnFlowIsClosed`.  The inductive
invariant ties each stage to the locks held in it, in both directions:
a thread in a stage holds its locks and marks, and a marked manager has a
thread at a stage that explains it.  Without the second half the release of a
lock by one thread could not be excluded from being the loss of another's.
It rests on `LocksAssumption`: the roles of threads are disjoint.

`FlowCommitProofs` proves, for every set and tree of blocks, every assignment of
frauds and any number of mishaps, `TypeOK`, the refinement `WholeBlocks`,
`ValidatedBlockCommits` and `NoDoubleReward`.  It rests on `BlocksAssumption` alone.
The refinement needs `LedgerInv`: a Flow starts from a state that is in Cold Storage,
and what is about to be proclaimed, shown or on either path has been written as a
whole, whatever else is there.  That the passes agree needs `AgreementInv`: as long
as nothing failed, the state of a Flow is the one its stage implies, and the links of
Cold Storage have none of the frauds it is about to accept, for nobody else saves
links meanwhile.  `NoDoubleReward` needs `RewardInv`: a block written without any
mishap has its links, the links of a Flow are complete from its verifiables on, and,
up to one mishap, a Flow's frauds are new to the path and both paths have their
links.  The one mishap is spent either on the block whose links are missing, which is
then not proclaimed, or later; this is why the property stops at two.

`ChainProofsProofs` proves, for every tree of blocks, every set of chain-proofs and
peers, every queue length and any number of mishaps, `TypeOK`, `InStep`,
`VerifiedChain`, `HeaviestNotBlacklisted`, `NeverLighter`, `ErrsOnlyAtGenesis`,
`OnlyUnlinkedProofsLeak`, `RestartKeepsWork` and the refinement `ShowsWholeBlocks`.  It rests on `HeadersAssumption` alone: heights, weights and
works agree with the parent, genesis is a key block, the chain-proofs presented begin
with it, and this node mines no block that fails.  None of the properties is
inductive, and the invariant is one for all of them, because each half of the chain
manager relies on the other: `BestInv` keeps the heaviest proof in step even between
an integrity error and the next start, as a crash may save its headers; `ColdInv`
says what a restart may find; `ControlInv` what validation has established of the
block about to be appended, so that its parent has been executed; `QueueInv` that a
block is queued once and no scheduled block is verified already.  From the last
follows `VerifiedInv`: no verified block is blacklisted, and hence `setLeader`'s
check cannot fail half way and leave the chain changed but the leader as it was.  A
step of `analyzeAndUpdateChainProof` is proved once, as a lemma about what it may
make of the heaviest proof, and used for peers and for the cross comparison at
start-up.  The three properties about its errors and about restarts come from the same
lemmas: `CutLength` and `ErrFacts` (a vector cut behind the common point comes out as
long as the new proof unless it has one element), `LinkedReleases` (verification of a
chain that begins with genesis and is linked releases the guardian; a linked proof
spliced onto a linked heaviest proof is one), and `SavedFacts` with `ComparedFacts`
(whatever was saved before a stop, the total difficulty after the comparison is not
below the work of either chain).

`FlowStackProofs` has the lemmas about the stack, for any set of states and
objects: from `n` copies of the current object above Level 0, what pushing, each of
the three roll-backs, accepting and rejecting leave.  `BlockFormationProofs` proves
from them, for every set of transactions and issuers, every kind, price, size and
limit, `TypeOK`, `StackAssertsHold`, `StackDiscipline`, `BatchStaysPending`,
`NoMissedTrigger` and `CountedOnce`.  The invariant says for each stage how many copies are on the
stack (`FlowInv`), that the receipt is that of the transaction in turn
(`ReceiptInv`), that the rest of a batch has no duplicates and is pending
(`BatchInv`), that the counters have one for every transaction taken and nothing for
the ones undone before their finalizer (`CountInv`), and that deferred transactions are ahead of the ledger and of *every*
state the Flow can be rolled back to (`TriggerInv`): a roll-back of nonces must not
be what makes a waiting transaction wait forever.  `StepsAssumption` asks the stack
for a capacity of four (the code's is 500), with which the eviction is never reached;
`FormationAssumption` gives the types; `PriceAssumption` says that a bid of zero is
turned away before any code runs (`TM:4848`, `TM:4327`).

`BlockReplayProofs` proves `NonceSequence` without further hypothesis, and
`BlockSoFarReplays` and `PublishedBlockReplays` under `NoKeyMismatch`: no
transaction includes a key that is not its issuer's.  (Such transactions exist in
the model; with one in the proposal the two properties fail, as described above.)
The replay is a recursive function; that it is defined, and how it continues
with one more entry, is proved with the least-number lemmas of `WellOrder`.  The
invariant follows the verdict through the stages: the receipt is the one the
verifier will compute (`SameVerdict`), the copy below the current one is the replay
of the proposal so far, and the Flow's state is that copy plus code, plus fees, as
the stage says (`StateInv`).  `ProposalInv` has the size and fees that go with it.
A stop request breaks this: the retry loop then appends transactions without nonce
and fees.  `RetryInv` says what saves the chain, that each of them lets the fees in
the proposal exceed those counted, so that the assertion of `formBlock` on the fees
refuses the block; this is where a positive price is needed.  `NonceSequence`
needs no hypothesis on keys since a replay the verifier accepts has no mismatching
key in it.

Only model-checked: the two liveness properties, `StartFlowReturns` and `CatchUp`,
which are out of the proof system's reach (fairness, `ENABLED`).  Every invariant,
action property and refinement of the passing runs is proved.

## Not modelled, and the plan

Next, in this order:

1. The positive side of two findings: that the accounting assertion of `formBlock`
   holds as long as nothing is retried and no stop is requested, and that a block
   which takes the place of a leader below its height has the work `ForkNeedsWork`
   asks for.
2. A bound on what a roll-back after a failed receipt may leave, once the failures
   of the receipt storage are modelled.
3. The arithmetic of epoch rewards, WebRTC swarm signalling, the scheduler, polls.

Not modelled for want of source or of a question: `SynchronizedLocker` (its header
is not in the repository, so its waiting cannot be translated), the thread pool (its only modelled user waits for all results), connection
tracking (time stamps), checkpoints and hard forks (data of one network).

Not planned: hashing on devices, storage and the trie (its source is not in the
repository), script execution, wire formats, the web UI and vendored libraries.
