----------------------------- MODULE FlowCommit -----------------------------
(***************************************************************************)
(* How a block reaches the state of a node: endFlow() of                   *)
(* CTransactionManager, and the part of processBlock() of                  *)
(* CBlockchainManager that calls it.                                       *)
(*                                                                         *)
(* A block is executed up to three times.  Its validation runs a Flow that *)
(* is never committed and compares the final Perspective with the header.  *)
(* Then a second Flow executes it in the sandbox, goes back to where it    *)
(* started and executes it once more, outside of the sandbox, comparing    *)
(* the Perspectives of both passes on the way.  Nodes of the state trie    *)
(* and links go to Cold Storage one by one during the last pass; the live  *)
(* state is then set to the Perspective of the header, and the block is    *)
(* proclaimed.  Any of these steps may fail, and the node may stop between *)
(* any two of them.                                                        *)
(*                                                                         *)
(* A Perspective stands for a state.  The state after n of the three parts *)
(* of a block (transactions, verifiables, reward of the leader) is the     *)
(* record of block and n, and any state that is no such outcome is         *)
(* Damaged.  Of the links, those that keep a fraud from being reported     *)
(* twice are modelled.                                                     *)
(***************************************************************************)
EXTENDS Integers, Sequences, FiniteSets

CONSTANTS
    Block,
    NoBlock,
    Parent,     \* of each block; NoBlock for a genesis block
    Frauds,     \* the frauds the verifiables of each block report
    MaxMishaps  \* bound on the steps that fail and on crashes

ASSUME BlocksAssumption ==
    /\ NoBlock \notin Block
    /\ Parent \in [Block -> Block \cup {NoBlock}]
    /\ MaxMishaps \in Nat

VARIABLES
    pc,         \* the next step of processBlock() or endFlow()
    block,      \* the block being processed
    mode,       \* the Flow is to "validate" the block or to "commit" it
    commit,     \* the argument of endFlow(), until something prevents it
    ok,         \* the result of endFlow() so far
    flow,       \* the Perspective of mFlowStateDB
    pending,    \* mInFlowLinks
    midway,     \* perspectiveAfterTransactions
    final,      \* finalPerspective
    written,    \* Perspectives whose nodes are in Cold Storage
    links,      \* links in Cold Storage
    verified,   \* the verified path; its last block is the leader
    synced,     \* the verified path in Cold Storage
    live,       \* the Perspective of mLiveStateDB
    mishaps

flowState == <<block, mode, commit, ok, flow, pending, midway, final>>
coldStorage == <<written, links, synced>>
vars == <<pc, flowState, coldStorage, verified, live, mishaps>>

-----------------------------------------------------------------------------
(* Perspectives.                                                           *)

State(b, n) == [at |-> b, parts |-> n]
Damaged == State(NoBlock, 1)

Final(b) == State(b, 3)
Initial(b) == Final(Parent[b])

\* Mutant: the part after it is executed along with it, the reward once more.
ExecutedWithNext(p, b, n) ==
    IF p = (IF n = 1 THEN Initial(b) ELSE State(b, n)) THEN State(b, n + 1) ELSE Damaged

\* The state after part n of block b is executed in state p.
Executed(p, b, n) ==
    IF p = (IF n = 1 THEN Initial(b) ELSE State(b, n - 1)) THEN State(b, n) ELSE Damaged

\* setPerspective() needs the root, and the empty state needs none.
Reachable(p) == p \in written \cup {Final(NoBlock)}

Members(s) == {s[i] : i \in DOMAIN s}
Tip(s) == IF s = <<>> THEN NoBlock ELSE s[Len(s)]

Fault == mishaps < MaxMishaps /\ mishaps' = mishaps + 1
NoFault == mishaps' = mishaps

-----------------------------------------------------------------------------
(* processBlock() before endFlow().                                        *)

\* A Flow is started from the outcome of the parent, and endFlow() begins with
\* cleanupFlow().
EnterFlow(b, m) ==
    /\ block' = b /\ mode' = m /\ commit' = (m = "commit") /\ ok' = TRUE
    /\ flow' = Initial(b) /\ pending' = {}
    /\ midway' = Initial(b) /\ final' = Initial(b)
    /\ pc' = "transactions"

\* validateBlock(): the Flow of the validation.  The blocks scheduled are those
\* the verified path does not have; which of them is decided by work.
Validate(b) ==
    /\ pc = "idle" /\ b \notin Members(verified) /\ Reachable(Initial(b))
    /\ EnterFlow(b, "validate")
    /\ NoFault
    /\ UNCHANGED <<coldStorage, verified, live>>

\* The block has been validated: the Flow that commits it, or a return because
\* it cannot be started or the block cannot be saved.
StartCommit ==
    /\ pc = "validated"
    /\ \/ NoFault /\ EnterFlow(block, "commit")
       \/ Fault /\ pc' = "idle" /\ UNCHANGED flowState
    /\ UNCHANGED <<coldStorage, verified, live>>

-----------------------------------------------------------------------------
(* endFlow(), first pass: in the sandbox, nothing is written.              *)

Refuse == ok' = FALSE /\ commit' = FALSE

\* processTransactions(); a block it refuses skips the rest of the pass.
DryTransactions ==
    /\ pc = "transactions"
    /\ \/ /\ NoFault
          /\ flow' = Executed(flow, block, 1) /\ midway' = flow'
          /\ pc' = "verifiables"
          /\ UNCHANGED <<commit, ok>>
       \/ /\ Fault /\ Refuse
          /\ pc' = "decide"
          /\ UNCHANGED <<flow, midway>>
    /\ UNCHANGED <<block, mode, pending, final, coldStorage, verified, live>>

\* Mutant: the links of Cold Storage are not consulted.
AcceptableInFlow(b) == Frauds[b] \cap pending = {}

\* verifyActuateAndArm(): a fraud is reported once.
Acceptable(b) == Frauds[b] \cap (pending \cup links) = {}

\* processVerifiables() without the reward.  The pass goes on after a failure.
DryVerifiables ==
    /\ pc = "verifiables"
    /\ \/ /\ NoFault /\ Acceptable(block)
          /\ flow' = Executed(flow, block, 2)
          /\ pending' = pending \cup Frauds[block]
          /\ UNCHANGED <<commit, ok>>
       \/ /\ Fault \/ (NoFault /\ ~Acceptable(block))
          /\ Refuse
          /\ UNCHANGED <<flow, pending>>
    /\ pc' = "reward"
    /\ UNCHANGED <<block, mode, midway, final, coldStorage, verified, live>>

\* getEpochReward() and processVerifiables() of the leader's reward; the second
\* goes on after a failure of the first.
DryReward ==
    /\ pc = "reward"
    /\ \/ NoFault /\ flow' = Executed(flow, block, 3) /\ UNCHANGED <<commit, ok>>
       \/ Fault /\ Refuse /\ flow' \in {flow, Executed(flow, block, 3)}
    /\ pc' = "decide"
    /\ UNCHANGED <<block, mode, pending, midway, final, coldStorage, verified, live>>

\* Mutant: the links of the first pass are kept for the second.
DecideKeepingLinks ==
    /\ pc = "decide"
    /\ final' = flow
    /\ \/ NoFault /\ UNCHANGED commit
       \/ Fault /\ commit' = FALSE
    /\ flow' = IF commit' THEN Initial(block) ELSE flow
    /\ pc' = IF commit' THEN "commit transactions" ELSE "close"
    /\ UNCHANGED <<block, mode, ok, pending, midway, coldStorage, verified, live>>

\* The Perspective is computed again; a difference prevents the commit and not
\* the success.  cleanupFlow() reverts the state and forgets the links.
Decide ==
    /\ pc = "decide"
    /\ final' = flow
    /\ \/ NoFault /\ UNCHANGED commit
       \/ Fault /\ commit' = FALSE
    /\ flow' = IF commit' THEN Initial(block) ELSE flow
    /\ pending' = {}
    /\ pc' = IF commit' THEN "commit transactions" ELSE "close"
    /\ UNCHANGED <<block, mode, ok, midway, coldStorage, verified, live>>

-----------------------------------------------------------------------------
(* endFlow(), second pass: the nodes of every new state are written.       *)

\* After an error mFlowStateDB is reverted, Cold Storage is not.
Revert ==
    /\ ok' = FALSE /\ flow' = Initial(block)
    /\ pc' = "close"

\* The result of processTransactions() is ignored, the Perspective is compared.
CommitTransactions ==
    /\ pc = "commit transactions"
    /\ \E reached \in {Executed(flow, block, 1), Damaged} :
          /\ IF reached = Damaged THEN Fault ELSE NoFault
          /\ written' = written \cup {reached}
          /\ IF reached = midway
             THEN flow' = reached /\ pc' = "commit verifiables" /\ UNCHANGED ok
             ELSE Revert
    /\ UNCHANGED <<block, mode, commit, pending, midway, final, links, synced, verified, live>>

CommitVerifiables ==
    /\ pc = "commit verifiables"
    /\ \/ /\ NoFault /\ Acceptable(block)
          /\ flow' = Executed(flow, block, 2) /\ written' = written \cup {flow'}
          /\ pending' = pending \cup Frauds[block]
          /\ pc' = "commit reward" /\ UNCHANGED ok
       \/ /\ Fault \/ (NoFault /\ ~Acceptable(block))
          /\ Revert /\ UNCHANGED <<pending, written>>
    /\ UNCHANGED <<block, mode, commit, midway, final, links, synced, verified, live>>

\* The reward, and the last comparison of Perspectives.  When getEpochReward()
\* fails and the Perspective is the expected one all the same, the Flow goes on
\* to its links, without success.
CommitReward ==
    /\ pc = "commit reward"
    /\ \E reached \in {Executed(flow, block, 3), Damaged}, rewarded \in BOOLEAN :
          /\ IF reached = Damaged \/ ~rewarded THEN Fault ELSE NoFault
          /\ written' = written \cup {reached}
          /\ IF reached = final
             THEN flow' = reached /\ pc' = "save links" /\ ok' = (ok /\ rewarded)
             ELSE Revert
    /\ UNCHANGED <<block, mode, commit, pending, midway, final, links, synced, verified, live>>

\* Links are saved one by one; those saved before a failure stay.
SaveLink(f) ==
    /\ pc = "save links" /\ f \in pending \ links
    /\ links' = links \cup {f}
    /\ NoFault
    /\ UNCHANGED <<pc, flowState, written, synced, verified, live>>

LinksSaved ==
    /\ pc = "save links"
    /\ \/ NoFault /\ pending \subseteq links /\ pc' = "close" /\ UNCHANGED <<ok, flow>>
       \/ Fault /\ ~(pending \subseteq links) /\ Revert
    /\ UNCHANGED <<block, mode, commit, pending, midway, final, coldStorage, verified, live>>

\* endFlow() returns.  The validation compares the final Perspective with the
\* header's; processBlock() looks at the result only.
Close ==
    /\ pc = "close"
    /\ pc' = IF ~ok THEN "idle"
             ELSE IF mode = "commit" THEN "committed"
             ELSE IF final = Final(block) THEN "validated"
             ELSE "idle"
    /\ NoFault
    /\ UNCHANGED <<flowState, coldStorage, verified, live>>

-----------------------------------------------------------------------------
(* processBlock() after endFlow().                                         *)

\* Mutant: after a success the Perspective is taken to be there.
UpdateLiveUnchecked ==
    /\ pc = "committed"
    /\ live' = Final(block) /\ pc' = "proclaim"
    /\ NoFault
    /\ UNCHANGED <<flowState, coldStorage, verified>>

\* The live state is set to the Perspective of the header, if it can be.
UpdateLive ==
    /\ pc = "committed"
    /\ IF Reachable(Final(block))
       THEN live' = Final(block) /\ pc' = "proclaim"
       ELSE pc' = "idle" /\ UNCHANGED live
    /\ NoFault
    /\ UNCHANGED <<flowState, coldStorage, verified>>

Place(s, b) == CHOOSE i \in DOMAIN s : s[i] = b

\* The path is cut behind the parent of the block.
PathWithLeader(v, b) ==
    LET n == IF Parent[b] = NoBlock THEN 0 ELSE Place(v, Parent[b])
    IN  [i \in 1..n+1 |-> IF i <= n THEN v[i] ELSE b]

\* setLeader(), which refuses a block whose parent the path does not have.
SetLeader ==
    /\ pc = "proclaim"
    /\ verified' = IF Parent[block] \in Members(verified) \cup {NoBlock}
                   THEN PathWithLeader(verified, block) ELSE verified
    /\ pc' = "idle"
    /\ NoFault
    /\ UNCHANGED <<flowState, coldStorage, live>>

\* syncChainProofsWithColdStorage(): the verified path, when it has grown.
SyncVerified ==
    /\ pc = "idle" /\ Len(verified) > Len(synced)
    /\ synced' = verified
    /\ NoFault
    /\ UNCHANGED <<pc, flowState, written, links, verified, live>>

\* The node stops, or an assertion stops it, and starts again.
Restart ==
    /\ Fault
    /\ pc' = "idle"
    /\ block' = NoBlock /\ mode' = "validate" /\ commit' = FALSE /\ ok' = TRUE
    /\ flow' = Final(NoBlock) /\ pending' = {}
    /\ midway' = Final(NoBlock) /\ final' = Final(NoBlock)
    /\ verified' = synced
    /\ live' = Final(Tip(synced))
    /\ UNCHANGED coldStorage

-----------------------------------------------------------------------------
Init ==
    /\ pc = "idle"
    /\ block = NoBlock /\ mode = "validate" /\ commit = FALSE /\ ok = TRUE
    /\ flow = Final(NoBlock) /\ pending = {}
    /\ midway = Final(NoBlock) /\ final = Final(NoBlock)
    /\ written = {} /\ links = {} /\ synced = <<>>
    /\ verified = <<>> /\ live = Final(NoBlock)
    /\ mishaps = 0

Fraud == UNION {Frauds[b] : b \in Block}

Next ==
    \/ \E b \in Block : Validate(b)
    \/ StartCommit
    \/ DryTransactions \/ DryVerifiables \/ DryReward \/ Decide
    \/ CommitTransactions \/ CommitVerifiables \/ CommitReward
    \/ \E f \in Fraud : SaveLink(f)
    \/ LinksSaved \/ Close
    \/ UpdateLive \/ SetLeader \/ SyncVerified \/ Restart

Spec == Init /\ [][Next]_vars

-----------------------------------------------------------------------------
(* Properties.                                                             *)

Perspective == [at : Block \cup {NoBlock}, parts : 1..3]

\* Every variable keeps its type: whichever steps of endFlow() fail, its
\* locals and the databases hold Perspectives and the paths hold blocks.
TypeOK ==
    /\ pc \in {"idle", "transactions", "verifiables", "reward", "decide",
               "commit transactions", "commit verifiables", "commit reward",
               "save links", "close", "validated", "committed", "proclaim"}
    /\ block \in Block \cup {NoBlock}
    /\ pc # "idle" => block \in Block
    /\ mode \in {"validate", "commit"}
    /\ commit \in BOOLEAN /\ ok \in BOOLEAN
    /\ flow \in Perspective /\ midway \in Perspective /\ final \in Perspective
    /\ live \in Perspective
    /\ written \in SUBSET Perspective
    /\ links \in SUBSET Fraud /\ pending \in SUBSET Fraud
    /\ verified \in Seq(Block) /\ synced \in Seq(Block)
    /\ mishaps \in 0..MaxMishaps

Ledger == INSTANCE AtomicLedger
              WITH executed <- {b \in Block : Final(b) \in written},
                   shown <- IF live.parts = 3 THEN live.at ELSE live

\* The live state shows the outcome of whole blocks only, each executed from
\* the outcome of its parent: three executions, partial writes, failures after
\* any of them, forks and crashes look from outside like two atomic steps.
WholeBlocks == Ledger!Spec

\* "Were it not the case, we would open the doors to a 'FRAUD-report-double-
\* spend'": no two blocks of the verified path report the same fraud, also when
\* links are saved one by one and a step fails or the node stops between them.
\* It takes two mishaps to get there: a link that is not saved, and a commit
\* that recalcPerspective() prevents when the same block comes again.
NoDoubleReward ==
    mishaps <= 1 =>
        \A i, j \in DOMAIN verified :
            i # j => Frauds[verified[i]] \cap Frauds[verified[j]] = {}

\* The passes agree: a block that has been validated is not refused by the Flow
\* that commits it, in either of its passes, unless something fails.
ValidatedBlockCommits ==
    pc = "close" /\ mode = "commit" /\ ~ok => mishaps > 0

\* The comment of verifyActuateAndArm() on the link of a fraud: "check if the
\* miner was not already penalized for this fraud i.e. check if a Link [...] is
\* present - this will suffice".  The miner is penalised by a block of the
\* verified path.
LinkMeansPenalised ==
    pc = "idle" =>
        \A f \in links : \E i \in DOMAIN verified : f \in Frauds[verified[i]]
=============================================================================
