-------------------------- MODULE FlowCommitProofs --------------------------
(***************************************************************************)
(* Theorems about FlowCommit, for every tree of blocks, every choice of    *)
(* the frauds they report and every bound on the mishaps.                  *)
(***************************************************************************)
EXTENDS FlowCommit, SequenceTheorems, TLAPS

-----------------------------------------------------------------------------
(* Perspectives and paths.                                                 *)

\* The outcomes of blocks differ from one another and from anything partial.
LEMMA FinalIsInjective ==
    ASSUME NEW b, NEW c, Final(b) = Final(c)
    PROVE  b = c
<1>1. Final(b).at = b /\ Final(c).at = c
    BY DEF Final, State
<1>2. QED
    BY <1>1

\* Executing a part of a block gives a Perspective.
LEMMA PartsType ==
    ASSUME NEW p, NEW b \in Block
    PROVE  /\ Executed(p, b, 1) \in Perspective
           /\ Executed(p, b, 2) \in Perspective
           /\ Executed(p, b, 3) \in Perspective
    BY DEF Executed, Perspective, State, Damaged

\* The outcome of a block is a Perspective.
LEMMA FinalType ==
    ASSUME NEW b \in Block \cup {NoBlock}
    PROVE  Final(b) \in Perspective
    BY DEF Final, State, Perspective

\* So is the state its Flow starts from, the outcome of its parent.
LEMMA InitialType ==
    ASSUME NEW b \in Block
    PROVE  Initial(b) \in Perspective
    BY BlocksAssumption, FinalType DEF Initial

\* So is a state that is no outcome.
LEMMA DamagedType == Damaged \in Perspective
    BY DEF Damaged, State, Perspective

\* The last block of a path is one of its members.
LEMMA TipIsMember ==
    ASSUME NEW s \in Seq(Block)
    PROVE  /\ Tip(s) \in Block \cup {NoBlock}
           /\ Tip(s) # NoBlock => Tip(s) \in Members(s)
    BY DEF Tip, Members

\* A path cut behind the parent of a block and continued with the block.
LEMMA PathWithLeaderFacts ==
    ASSUME NEW v \in Seq(Block), NEW b \in Block,
           Parent[b] \in Members(v) \cup {NoBlock}
    PROVE  /\ PathWithLeader(v, b) \in Seq(Block)
           /\ \A i \in DOMAIN PathWithLeader(v, b) :
                 \/ i \in DOMAIN v /\ PathWithLeader(v, b)[i] = v[i]
                 \/ i = Len(PathWithLeader(v, b)) /\ PathWithLeader(v, b)[i] = b
<1> DEFINE n == IF Parent[b] = NoBlock THEN 0 ELSE Place(v, Parent[b])
<1>1. n = 0 \/ n \in DOMAIN v
    BY DEF Place, Members
<1>2. n \in Nat /\ \A i \in 1..n : i \in DOMAIN v
    BY <1>1
<1>3. PathWithLeader(v, b) = [i \in 1..n+1 |-> IF i <= n THEN v[i] ELSE b]
    BY DEF PathWithLeader
<1> HIDE DEF n
<1>4. \A i \in 1..n+1 : (IF i <= n THEN v[i] ELSE b) \in Block
    BY <1>2
<1>5. PathWithLeader(v, b) \in Seq(Block)
    BY <1>2, <1>3, <1>4
<1>6. DOMAIN PathWithLeader(v, b) = 1..n+1
    BY <1>3
<1>6a. Len(PathWithLeader(v, b)) = n + 1
    BY <1>2, <1>5, <1>6, LenProperties
<1>7. QED
    BY <1>2, <1>3, <1>5, <1>6, <1>6a

-----------------------------------------------------------------------------
(* Type correctness.                                                       *)

\* The frauds of a block are among those there are.
LEMMA FraudsType ==
    ASSUME NEW b \in Block
    PROVE  Frauds[b] \subseteq Fraud
    BY DEF Fraud

\* Mishaps stay within their bound and never become fewer.
LEMMA MishapsType ==
    ASSUME mishaps \in 0..MaxMishaps, Fault \/ NoFault
    PROVE  mishaps' \in 0..MaxMishaps /\ mishaps <= mishaps'
    BY BlocksAssumption DEF Fault, NoFault

\* Every step counts a mishap or none.
LEMMA StepsCountMishaps ==
    ASSUME Next
    PROVE  Fault \/ NoFault
    BY DEF Next, Validate, StartCommit, DryTransactions, DryVerifiables, DryReward, Decide,
           CommitTransactions, CommitVerifiables, CommitReward, SaveLink, LinksSaved, Close,
           UpdateLive, SetLeader, SyncVerified, Restart

\* Every step of processBlock() and endFlow() keeps the types.
LEMMA TypeStep ==
    ASSUME TypeOK, [Next]_vars
    PROVE  TypeOK'
<1> USE DEF TypeOK
<1>0. mishaps' \in 0..MaxMishaps
    BY MishapsType, StepsCountMishaps DEF vars
<1>a. block \in Block => Initial(block) \in Perspective /\ Final(block) \in Perspective
    BY InitialType, FinalType
<1>b. Final(NoBlock) \in Perspective /\ Damaged \in Perspective
    BY FinalType, DamagedType
<1>c. block \in Block => /\ Executed(flow, block, 1) \in Perspective
                         /\ Executed(flow, block, 2) \in Perspective
                         /\ Executed(flow, block, 3) \in Perspective
    BY PartsType
<1>d. block \in Block => Frauds[block] \subseteq Fraud
    BY FraudsType
<1>1. ASSUME NEW b \in Block, Validate(b) PROVE TypeOK'
    BY <1>0, <1>1, InitialType DEF Validate, EnterFlow, coldStorage
<1>2. CASE StartCommit
    BY <1>0, <1>2, <1>a DEF StartCommit, EnterFlow, flowState, coldStorage
<1>3. CASE DryTransactions
    BY <1>0, <1>3, <1>c DEF DryTransactions, Refuse, coldStorage
<1>4. CASE DryVerifiables
    BY <1>0, <1>4, <1>c, <1>d DEF DryVerifiables, Refuse, coldStorage
<1>5. CASE DryReward
    BY <1>0, <1>5, <1>c DEF DryReward, Refuse, coldStorage
<1>6. CASE Decide
    BY <1>0, <1>6, <1>a DEF Decide, coldStorage
<1>7. CASE CommitTransactions
    BY <1>0, <1>7, <1>a, <1>b, <1>c DEF CommitTransactions, Revert
<1>8. CASE CommitVerifiables
    BY <1>0, <1>8, <1>a, <1>c, <1>d DEF CommitVerifiables, Revert
<1>9. CASE CommitReward
    BY <1>0, <1>9, <1>a, <1>b, <1>c DEF CommitReward, Revert
<1>10. ASSUME NEW x \in Fraud, SaveLink(x) PROVE TypeOK'
    BY <1>0, <1>10 DEF SaveLink, flowState
<1>11. CASE LinksSaved
    BY <1>0, <1>11, <1>a DEF LinksSaved, Revert, coldStorage
<1>12. CASE Close
    BY <1>0, <1>12 DEF Close, flowState, coldStorage
<1>13. CASE UpdateLive
    BY <1>0, <1>13, <1>a DEF UpdateLive, flowState, coldStorage
<1>14. CASE SetLeader
    <2>1. verified' \in Seq(Block)
        BY <1>14, PathWithLeaderFacts DEF SetLeader
    <2>2. QED
        BY <1>0, <1>14, <2>1 DEF SetLeader, flowState, coldStorage
<1>15. CASE SyncVerified
    BY <1>0, <1>15 DEF SyncVerified, flowState
<1>16. CASE Restart
    <2>1. Final(Tip(synced)) \in Perspective
        BY TipIsMember, FinalType
    <2>2. QED
        BY <1>0, <1>16, <1>b, <2>1 DEF Restart, coldStorage
<1>17. CASE UNCHANGED vars
    BY <1>17 DEF vars, flowState, coldStorage
<1>18. QED
    BY <1>1, <1>2, <1>3, <1>4, <1>5, <1>6, <1>7, <1>8, <1>9, <1>10, <1>11, <1>12,
       <1>13, <1>14, <1>15, <1>16, <1>17 DEF Next

\* A new node has the types.
LEMMA TypeInit == Init => TypeOK
<1>1. Final(NoBlock) \in Perspective /\ 0 \in 0..MaxMishaps /\ <<>> \in Seq(Block)
    BY BlocksAssumption, FinalType
<1>2. QED
    BY <1>1 DEF Init, TypeOK

\* Type correctness of FlowCommit.
THEOREM TypeCorrect == Spec => []TypeOK
    BY TypeInit, TypeStep, PTL DEF Spec

-----------------------------------------------------------------------------
(* The live state shows whole blocks: FlowCommit implements AtomicLedger.  *)

\* A Flow starts from an outcome that is in Cold Storage.
InitialWritten == pc # "idle" => Reachable(Initial(block))

\* What is proclaimed, shown or on a path has been executed as a whole.
WholeWritten ==
    /\ pc = "proclaim" => Final(block) \in written
    /\ \A b \in Members(verified) \cup Members(synced) : Final(b) \in written
    /\ live = Final(live.at) /\ Reachable(live)

LedgerInv == TypeOK /\ InitialWritten /\ WholeWritten

\* Nothing written is lost.
LEMMA WrittenGrows ==
    ASSUME [Next]_vars
    PROVE  written \subseteq written'
    BY DEF Next, Validate, StartCommit, DryTransactions, DryVerifiables, DryReward, Decide,
           CommitTransactions, CommitVerifiables, CommitReward, SaveLink, LinksSaved, Close,
           UpdateLive, SetLeader, SyncVerified, Restart, coldStorage, vars

\* Outside of these steps a path or the live state does not change.
LEMMA OthersKeepPaths ==
    ASSUME [Next]_vars, ~UpdateLive, ~SetLeader, ~SyncVerified, ~Restart
    PROVE  /\ UNCHANGED <<verified, synced, live>>
           /\ pc' # "proclaim" \/ UNCHANGED <<pc, block>>
    BY DEF Next, Validate, EnterFlow, StartCommit, DryTransactions, DryVerifiables, DryReward,
           Decide, CommitTransactions, CommitVerifiables, CommitReward, Revert, SaveLink,
           LinksSaved, Close, coldStorage, flowState, vars

\* A step keeps the block or leaves no block to be processed, except the one
\* that begins its validation.
LEMMA OthersKeepBlock ==
    ASSUME [Next]_vars, \A b \in Block : ~Validate(b)
    PROVE  pc' = "idle" \/ (pc # "idle" /\ block' = block)
    BY DEF Next, EnterFlow, StartCommit, DryTransactions, DryVerifiables, DryReward, Decide,
           CommitTransactions, CommitVerifiables, CommitReward, Revert, SaveLink, LinksSaved,
           Close, UpdateLive, SetLeader, SyncVerified, Restart, flowState, vars

\* A new node has written nothing and shows nothing.
LEMMA LedgerInit == Init => LedgerInv
<1> SUFFICES ASSUME Init PROVE LedgerInv
    OBVIOUS
<1>1. Members(verified) = {} /\ Members(synced) = {}
    BY DEF Init, Members
<1>2. live = Final(live.at)
    BY DEF Init, Final, State
<1>3. QED
    BY <1>1, <1>2, TypeInit DEF LedgerInv, InitialWritten, WholeWritten, Reachable, Init

\* What is written is built on what is written, after every step.
LEMMA LedgerStep ==
    ASSUME LedgerInv, [Next]_vars
    PROVE  LedgerInv'
<1> USE DEF LedgerInv
<1>1. TypeOK'
    BY TypeStep
<1>2. written \subseteq written'
    BY WrittenGrows
<1>3. InitialWritten'
    <2>1. CASE \A b \in Block : ~Validate(b)
        BY <1>2, <2>1, OthersKeepBlock DEF InitialWritten, Reachable, Initial
    <2>2. ASSUME NEW b \in Block, Validate(b) PROVE InitialWritten'
        BY <1>2, <2>2 DEF Validate, EnterFlow, InitialWritten, Reachable, Initial
    <2>3. QED
        BY <2>1, <2>2
<1>4. WholeWritten'
    <2>1. CASE UpdateLive
        <3>1. block \in Block
            BY <2>1 DEF UpdateLive, TypeOK
        <3>2. Final(block) # Final(NoBlock)
            BY <3>1, FinalIsInjective, BlocksAssumption
        <3>3. Final(block) = Final(Final(block).at)
            BY DEF Final, State
        <3>4. QED
            BY <2>1, <3>2, <3>3
            DEF UpdateLive, WholeWritten, Reachable, flowState, coldStorage
    <2>2. CASE SetLeader
        <3>1. block \in Block /\ verified \in Seq(Block)
            BY <2>2 DEF SetLeader, TypeOK
        <3>2. Members(verified') \subseteq Members(verified) \cup {block}
            BY <2>2, <3>1, PathWithLeaderFacts DEF SetLeader, Members
        <3>3. QED
            BY <2>2, <3>2 DEF SetLeader, WholeWritten, Reachable, flowState, coldStorage
    <2>3. CASE SyncVerified
        BY <2>3 DEF SyncVerified, WholeWritten, Reachable, flowState
    <2>4. CASE Restart
        <3>1. Tip(synced) # NoBlock => Final(Tip(synced)) \in written
            BY TipIsMember DEF TypeOK, WholeWritten
        <3>2. Final(Tip(synced)) = Final(Final(Tip(synced)).at)
            BY DEF Final, State
        <3>3. QED
            BY <2>4, <3>1, <3>2 DEF Restart, WholeWritten, Reachable, coldStorage
    <2>5. CASE ~UpdateLive /\ ~SetLeader /\ ~SyncVerified /\ ~Restart
        BY <1>2, <2>5, OthersKeepPaths DEF WholeWritten, Reachable
    <2>6. QED
        BY <2>1, <2>2, <2>3, <2>4, <2>5
<1>5. QED
    BY <1>1, <1>3, <1>4

\* The blocks whose outcome is written, and the block the live state shows.
Whole == {b \in Block : Final(b) \in written}
Shown == IF live.parts = 3 THEN live.at ELSE live

\* The live state is the outcome of a whole block.
LEMMA ShownIs ==
    ASSUME WholeWritten
    PROVE  live = Final(Shown)
    BY DEF WholeWritten, Shown, Final, State

\* An outcome is written by the last part of a block only, and from the outcome
\* of its parent.
LEMMA WholeStep ==
    ASSUME LedgerInv, [Next]_vars
    PROVE  \/ Whole' = Whole
           \/ \E b \in Block : /\ Parent[b] \in Whole \cup {NoBlock}
                               /\ Whole' = Whole \cup {b}
                               /\ UNCHANGED live
<1>1. CASE written' = written
    BY <1>1 DEF Whole
<1>2. ASSUME NEW p, written' = written \cup {p}, p.parts # 3
      PROVE  Whole' = Whole
    <2>1. \A b \in Block : Final(b) # p
        BY <1>2 DEF Final, State
    <2>2. QED
        BY <1>2, <2>1 DEF Whole
<1>3. ASSUME NEW n \in {1, 2} PROVE State(block, n).parts # 3 /\ Damaged.parts # 3
    BY DEF State, Damaged
<1>3a. /\ Executed(flow, block, 1) \in {State(block, 1), Damaged}
       /\ Executed(flow, block, 2) \in {State(block, 2), Damaged}
       /\ Executed(flow, block, 3) \in {Final(block), Damaged}
    BY DEF Executed, Final
<1>4. CASE CommitTransactions
    <2>1. PICK p \in {Executed(flow, block, 1), Damaged} : written' = written \cup {p}
        BY <1>4 DEF CommitTransactions
    <2>2. p.parts # 3
        BY <1>3, <1>3a
    <2>3. QED
        BY <1>2, <2>1, <2>2
<1>5. CASE CommitVerifiables
    <2>1. written' = written \/ written' = written \cup {Executed(flow, block, 2)}
        BY <1>5 DEF CommitVerifiables
    <2>2. Executed(flow, block, 2).parts # 3
        BY <1>3, <1>3a
    <2>3. QED
        BY <1>1, <1>2, <2>1, <2>2
<1>6. CASE CommitReward
    <2>1. PICK p \in {Executed(flow, block, 3), Damaged} : written' = written \cup {p}
        BY <1>6 DEF CommitReward
    <2>2. CASE p = Damaged
        BY <1>2, <1>3, <2>1, <2>2
    <2>3. CASE p = Final(block)
        <3>1. block \in Block
            BY <1>6 DEF CommitReward, LedgerInv, TypeOK
        <3>2. Whole' = Whole \cup {block}
            BY <2>1, <2>3, <3>1, FinalIsInjective DEF Whole
        <3>3. Reachable(Final(Parent[block]))
            BY <1>6 DEF LedgerInv, InitialWritten, CommitReward, Initial
        <3>4. Parent[block] \in Whole \cup {NoBlock}
            BY <3>1, <3>3, FinalIsInjective, BlocksAssumption DEF Reachable, Whole
        <3>5. QED
            BY <1>6, <3>1, <3>2, <3>4 DEF CommitReward
    <2>4. QED
        BY <1>3a, <2>2, <2>3
<1>7. CASE ~CommitTransactions /\ ~CommitVerifiables /\ ~CommitReward
    BY <1>1, <1>7
    DEF Next, Validate, StartCommit, DryTransactions, DryVerifiables, DryReward, Decide,
        SaveLink, LinksSaved, Close, UpdateLive, SetLeader, SyncVerified, Restart,
        coldStorage, vars
<1>8. QED
    BY <1>4, <1>5, <1>6, <1>7

\* When the live state changes, nothing is written.
LEMMA LiveStep ==
    ASSUME [Next]_vars
    PROVE  UNCHANGED live \/ UNCHANGED written
    BY DEF Next, Validate, StartCommit, DryTransactions, DryVerifiables, DryReward, Decide,
           CommitTransactions, CommitVerifiables, CommitReward, SaveLink, LinksSaved, Close,
           UpdateLive, SetLeader, SyncVerified, Restart, coldStorage, vars

\* FlowCommit implements AtomicLedger: whatever fails between the writes of
\* endFlow() and the update of the live state, the live state shows the outcome
\* of whole blocks, each executed from the outcome of its parent.
THEOREM CommitIsAtomic == Spec => WholeBlocks
<1>1. Init => Ledger!Init
    <2> SUFFICES ASSUME Init PROVE Ledger!Init
        OBVIOUS
    <2>1. Shown = NoBlock
        BY DEF Init, Shown, Final, State
    <2>2. Whole = {}
        BY DEF Init, Whole
    <2>3. QED
        BY <2>1, <2>2 DEF Ledger!Init, Whole, Shown
<1>2. LedgerInv /\ LedgerInv' /\ [Next]_vars => [Ledger!Next]_Ledger!vars
    <2> SUFFICES ASSUME LedgerInv, LedgerInv', [Next]_vars
                 PROVE  [Ledger!Next]_Ledger!vars
        OBVIOUS
    <2>1. live = Final(Shown) /\ live' = Final(Shown')
        <3>1. live = Final(Shown)
            BY ShownIs DEF LedgerInv
        <3>2. WholeWritten' => live' = Final(Shown')
            BY DEF WholeWritten, Shown, Final, State
        <3>3. QED
            BY <3>1, <3>2 DEF LedgerInv
    <2>2. CASE UNCHANGED live
        <3>1. Shown' = Shown
            BY <2>2 DEF Shown
        <3>2. CASE Whole' = Whole
            BY <3>1, <3>2 DEF Ledger!vars, Whole, Shown
        <3>3. ASSUME NEW b \in Block, Parent[b] \in Whole \cup {NoBlock},
                     Whole' = Whole \cup {b}
              PROVE  Ledger!Execute(b)
            BY <3>1, <3>3 DEF Ledger!Execute, Whole, Shown
        <3>4. QED
            BY <3>2, <3>3, WholeStep DEF Ledger!Next
    <2>3. CASE UNCHANGED written
        <3>1. Whole' = Whole
            BY <2>3 DEF Whole
        <3>2. live' \in written \cup {Final(NoBlock)}
            BY <2>3 DEF LedgerInv, WholeWritten, Reachable
        <3>3. Shown' \in Block \cup {NoBlock}
            <4>1. live' \in Perspective
                BY DEF LedgerInv, TypeOK
            <4>2. live'.at \in Block \cup {NoBlock}
                BY <4>1 DEF Perspective
            <4>3. live'.at = Shown'
                BY <2>1 DEF Final, State
            <4>4. QED
                BY <4>2, <4>3
        <3>4. Shown' \in Whole \cup {NoBlock}
            BY <2>1, <3>2, <3>3, FinalIsInjective DEF Whole
        <3>5. Ledger!Show(Shown')
            BY <3>1, <3>4 DEF Ledger!Show, Whole, Shown
        <3>6. QED
            BY <3>3, <3>5 DEF Ledger!Next
    <2>4. QED
        BY <2>2, <2>3, LiveStep
<1>3. Spec => []LedgerInv
    BY LedgerInit, LedgerStep, PTL DEF Spec
<1>4. QED
    BY <1>1, <1>2, <1>3, PTL DEF Spec, WholeBlocks, Ledger!Spec

-----------------------------------------------------------------------------
(* The passes of endFlow() agree.                                          *)

\* Without mishaps, where each step of the Flow that commits is.
OnCourse ==
    mode = "commit" =>
        /\ pc \notin {"idle", "validated"} => ok
        /\ pc = "transactions" => flow = Initial(block) /\ pending = {}
        /\ pc = "verifiables" => flow = State(block, 1) /\ pending = {}
        /\ pc = "reward" => flow = State(block, 2)
        /\ pc = "decide" => flow = Final(block)
        /\ pc \in {"verifiables", "reward", "decide", "commit transactions"}
              => midway = State(block, 1)
        /\ pc \in {"commit transactions", "commit verifiables", "commit reward"}
              => final = Final(block)
        /\ pc = "commit transactions" => flow = Initial(block)
        /\ pc = "commit verifiables" => flow = State(block, 1)
        /\ pc = "commit reward" => flow = State(block, 2)
        /\ pc \in {"commit transactions", "commit verifiables"} => pending = {}

\* The frauds of a block that has been found acceptable stay so until its own
\* links are saved.
StillAcceptable ==
    /\ mode = "commit" /\ pc \in {"transactions", "verifiables", "reward", "decide",
                                  "commit transactions", "commit verifiables"}
          => Frauds[block] \cap links = {}
    /\ mode = "validate" /\ ok /\ pc \in {"reward", "decide", "close"}
          => Frauds[block] \cap links = {}
    /\ pc = "validated" => Frauds[block] \cap links = {}

\* What the arguments of endFlow() and its result so far say of each other.
Modes ==
    /\ commit => mode = "commit"
    /\ pc \in {"commit transactions", "commit verifiables", "commit reward", "save links"}
          => commit
    /\ pc \in {"transactions", "verifiables", "reward", "decide"} /\ mode = "commit" /\ ok
          => commit
    /\ pc \in {"validated", "committed", "proclaim"} => ok

AgreementInv == TypeOK /\ Modes /\ (mishaps = 0 => OnCourse /\ StillAcceptable)

\* Nothing is executed at first.
LEMMA AgreementInit == Init => AgreementInv
    BY TypeInit DEF Init, AgreementInv, Modes, OnCourse, StillAcceptable

\* Which steps a Flow may be at follows from its mode.
LEMMA ModesStep ==
    ASSUME TypeOK, Modes, [Next]_vars
    PROVE  Modes'
<1> USE DEF Modes
<1>1. ASSUME NEW b \in Block, Validate(b) PROVE Modes'
    BY <1>1 DEF Validate, EnterFlow
<1>2. CASE StartCommit
    <2>1. CASE EnterFlow(block, "commit")
        <3>1. commit' /\ ok' /\ mode' = "commit" /\ pc' = "transactions"
            BY <2>1, Zenon DEF EnterFlow
        <3>2. QED
            BY <3>1
    <2>2. CASE pc' = "idle" /\ UNCHANGED flowState
        BY <2>2 DEF flowState
    <2>3. QED
        BY <1>2, <2>1, <2>2 DEF StartCommit
<1>3. CASE DryTransactions
    <2>1. UNCHANGED <<commit, ok, mode>> \/ (~commit' /\ ~ok')
        BY <1>3, Zenon DEF DryTransactions, Refuse
    <2>2. pc = "transactions" /\ pc' \in {"verifiables", "decide"}
        BY <1>3 DEF DryTransactions
    <2>3. CASE commit' = commit /\ ok' = ok /\ mode' = mode
        BY <2>2, <2>3
    <2>4. CASE ~commit' /\ ~ok'
        BY <2>2, <2>4
    <2>5. QED
        BY <2>1, <2>3, <2>4
<1>4. CASE DryVerifiables
    BY <1>4 DEF DryVerifiables, Refuse
<1>5. CASE DryReward
    BY <1>5 DEF DryReward, Refuse
<1>6. CASE Decide
    <2>1. commit' => commit
        BY <1>6, Zenon DEF Decide
    <2>2. /\ pc' = "close" \/ (commit' /\ pc' = "commit transactions")
          /\ UNCHANGED <<mode, ok>>
        BY <1>6, Zenon DEF Decide
    <2>3. QED
        BY <2>1, <2>2
<1>7. CASE CommitTransactions
    BY <1>7 DEF CommitTransactions, Revert
<1>8. CASE CommitVerifiables
    BY <1>8 DEF CommitVerifiables, Revert
<1>9. CASE CommitReward
    BY <1>9 DEF CommitReward, Revert
<1>10. ASSUME NEW x \in Fraud, SaveLink(x) PROVE Modes'
    BY <1>10 DEF SaveLink, flowState
<1>11. CASE LinksSaved
    BY <1>11 DEF LinksSaved, Revert
<1>12. CASE Close
    <2>1. pc' = "idle" \/ (ok /\ pc' \in {"committed", "validated"})
        BY <1>12, Zenon DEF Close
    <2>2. UNCHANGED <<mode, commit, ok>>
        BY <1>12 DEF Close, flowState
    <2>3. QED
        BY <2>1, <2>2
<1>13. CASE UpdateLive
    BY <1>13 DEF UpdateLive, flowState
<1>14. CASE SetLeader \/ SyncVerified
    <2>1. pc' = "idle" /\ UNCHANGED <<mode, commit, ok>>
        BY <1>14 DEF SetLeader, SyncVerified, flowState
    <2>2. QED
        BY <2>1
<1>15. CASE Restart
    BY <1>15 DEF Restart
<1>16. CASE UNCHANGED vars
    BY <1>16 DEF vars, flowState
<1>17. QED
    BY <1>1, <1>2, <1>3, <1>4, <1>5, <1>6, <1>7, <1>8, <1>9, <1>10, <1>11, <1>12,
       <1>13, <1>14, <1>15, <1>16 DEF Next

\* A step after which there have been no mishaps is none, and follows none.
LEMMA NoMishapSoFar ==
    ASSUME TypeOK, [Next]_vars, mishaps' = 0
    PROVE  mishaps = 0 /\ ~Fault /\ NoFault
<1>0. mishaps \in 0..MaxMishaps
    BY DEF TypeOK
<1>1. mishaps \in Nat
    BY <1>0
<1>2. QED
    BY <1>1, StepsCountMishaps DEF Fault, NoFault, vars

\* A part executed where the one before it has led to leads to the next.
LEMMA InSequence ==
    ASSUME NEW b
    PROVE  /\ Executed(Initial(b), b, 1) = State(b, 1)
           /\ Executed(State(b, 1), b, 2) = State(b, 2)
           /\ Executed(State(b, 2), b, 3) = Final(b)
    BY DEF Executed, Final

\* Without mishaps, every pass stays on the course of its block and the
\* links never grow to forbid its verifiables.
LEMMA AgreementStep ==
    ASSUME AgreementInv, [Next]_vars
    PROVE  AgreementInv'
<1> USE DEF AgreementInv
<1>0. TypeOK' /\ Modes'
    BY TypeStep, ModesStep
<1> SUFFICES ASSUME mishaps' = 0
             PROVE  OnCourse' /\ StillAcceptable'
    BY <1>0
<1>a. mishaps = 0 /\ ~Fault /\ OnCourse /\ StillAcceptable
    BY NoMishapSoFar
<1>b. block \in Block => /\ Executed(Initial(block), block, 1) = State(block, 1)
                         /\ Executed(State(block, 1), block, 2) = State(block, 2)
                         /\ Executed(State(block, 2), block, 3) = Final(block)
    BY InSequence
<1>1. ASSUME NEW b \in Block, Validate(b) PROVE OnCourse' /\ StillAcceptable'
    BY <1>1 DEF Validate, EnterFlow, OnCourse, StillAcceptable
<1>2. CASE StartCommit
    BY <1>a, <1>2 DEF StartCommit, EnterFlow, coldStorage, OnCourse, StillAcceptable
<1>3. CASE DryTransactions
    <2>1. block \in Block
        BY <1>3 DEF DryTransactions, TypeOK
    <2>2. QED
        BY <1>a, <1>b, <1>3, <2>1 DEF DryTransactions, coldStorage, OnCourse, StillAcceptable
<1>4. CASE DryVerifiables
    <2>1. block \in Block
        BY <1>4 DEF DryVerifiables, TypeOK
    <2>2. QED
        BY <1>a, <1>b, <1>4, <2>1
        DEF DryVerifiables, Acceptable, Refuse, coldStorage, OnCourse, StillAcceptable
<1>5. CASE DryReward
    <2>1. block \in Block
        BY <1>5 DEF DryReward, TypeOK
    <2>2. QED
        BY <1>a, <1>b, <1>5, <2>1 DEF DryReward, coldStorage, OnCourse, StillAcceptable
<1>6. CASE Decide
    BY <1>a, <1>6 DEF Decide, coldStorage, OnCourse, StillAcceptable
<1>7. CASE CommitTransactions
    <2>1. block \in Block
        BY <1>7 DEF CommitTransactions, TypeOK
    <2>2. QED
        BY <1>a, <1>b, <1>7, <2>1
        DEF CommitTransactions, Revert, OnCourse, StillAcceptable
<1>8. CASE CommitVerifiables
    <2>1. block \in Block
        BY <1>8 DEF CommitVerifiables, TypeOK
    <2>2. QED
        BY <1>a, <1>b, <1>8, <2>1
        DEF CommitVerifiables, Acceptable, Revert, OnCourse, StillAcceptable
<1>9. CASE CommitReward
    <2>1. block \in Block
        BY <1>9 DEF CommitReward, TypeOK
    <2>2. QED
        BY <1>a, <1>b, <1>9, <2>1
        DEF CommitReward, Revert, OnCourse, StillAcceptable
<1>10. ASSUME NEW x \in Fraud, SaveLink(x) PROVE OnCourse' /\ StillAcceptable'
    BY <1>a, <1>10 DEF SaveLink, flowState, OnCourse, StillAcceptable
<1>11. CASE LinksSaved
    BY <1>a, <1>11 DEF LinksSaved, Modes, coldStorage, OnCourse, StillAcceptable
<1>12. CASE Close
    BY <1>a, <1>12 DEF Close, flowState, coldStorage, OnCourse, StillAcceptable, TypeOK
<1>13. CASE UpdateLive
    BY <1>a, <1>13 DEF UpdateLive, flowState, coldStorage, OnCourse, StillAcceptable
<1>14. CASE SetLeader
    BY <1>a, <1>14 DEF SetLeader, flowState, coldStorage, OnCourse, StillAcceptable
<1>15. CASE SyncVerified
    BY <1>a, <1>15 DEF SyncVerified, flowState, OnCourse, StillAcceptable
<1>16. CASE Restart
    BY <1>a, <1>16 DEF Restart
<1>17. CASE UNCHANGED vars
    BY <1>a, <1>17 DEF vars, flowState, coldStorage, OnCourse, StillAcceptable
<1>18. QED
    BY <1>1, <1>2, <1>3, <1>4, <1>5, <1>6, <1>7, <1>8, <1>9, <1>10, <1>11, <1>12,
       <1>13, <1>14, <1>15, <1>16, <1>17 DEF Next

\* The Flow that commits a validated block refuses it in neither pass, unless
\* something fails.
THEOREM PassesAgree == Spec => []ValidatedBlockCommits
<1>1. AgreementInv => ValidatedBlockCommits
    BY DEF AgreementInv, OnCourse, ValidatedBlockCommits, TypeOK
<1>2. QED
    BY <1>1, AgreementInit, AgreementStep, PTL DEF Spec

-----------------------------------------------------------------------------
(* No fraud is rewarded twice on one path.                                 *)

\* The Flow of block has found none of its frauds reported by the path.
NewFrauds ==
    pc \in {"reward", "decide", "commit transactions", "commit verifiables", "commit reward",
            "save links", "close", "validated", "committed", "proclaim"} /\ ok
        => \A b \in Members(verified) : Frauds[block] \cap Frauds[b] = {}

\* The links of a whole block are written, except while they are being saved.
LinkedWhenWhole ==
    mishaps = 0 =>
        \A b \in Block : Final(b) \in written =>
            Frauds[b] \subseteq links \/ (pc = "save links" /\ b = block)

\* The links to be saved are all those of the block.
PendingComplete ==
    /\ pc \in {"commit transactions", "commit verifiables"} => pending = {}
    /\ pc \in {"commit reward", "save links"} => pending = Frauds[block]

\* A Flow that has come to its end with a success has its links.
LinkedWhenClosed ==
    ((pc = "close" /\ ok /\ mode = "commit") \/ pc \in {"committed", "proclaim"})
        => (Final(block) \in written => Frauds[block] \subseteq links)

\* Blocks of either path have their links, and share no fraud.
PathsLinked ==
    /\ \A b \in Members(verified) \cup Members(synced) : Frauds[b] \subseteq links
    /\ \A v \in {verified, synced} : \A i, j \in DOMAIN v :
          i # j => Frauds[v[i]] \cap Frauds[v[j]] = {}

RewardInv ==
    /\ LedgerInv /\ AgreementInv /\ LinkedWhenWhole /\ PendingComplete
    /\ mishaps <= 1 => NewFrauds /\ LinkedWhenClosed /\ PathsLinked

\* At first there are no links and no path.
LEMMA RewardInit == Init => RewardInv
<1> SUFFICES ASSUME Init PROVE RewardInv
    OBVIOUS
<1>1. verified = <<>> /\ synced = <<>> /\ written = {} /\ pc = "idle"
    BY DEF Init
<1>2. Members(verified) = {} /\ Members(synced) = {}
    BY <1>1 DEF Members
<1>3. PathsLinked
    BY <1>1, <1>2 DEF PathsLinked
<1>4. LinkedWhenWhole /\ PendingComplete /\ NewFrauds /\ LinkedWhenClosed
    BY <1>1 DEF LinkedWhenWhole, PendingComplete, NewFrauds, LinkedWhenClosed
<1>5. QED
    BY <1>3, <1>4, LedgerInit, AgreementInit DEF RewardInv

\* Links are not removed.
LEMMA LinksGrow ==
    ASSUME [Next]_vars
    PROVE  links \subseteq links'
    BY DEF Next, Validate, StartCommit, DryTransactions, DryVerifiables, DryReward, Decide,
           CommitTransactions, CommitVerifiables, CommitReward, SaveLink, LinksSaved, Close,
           UpdateLive, SetLeader, SyncVerified, Restart, coldStorage, vars

\* Without mishaps the step that completes a block goes on to its links, and
\* the step that ends with them has saved them all.
LEMMA LinkedWhenWholeStep ==
    ASSUME RewardInv, [Next]_vars
    PROVE  LinkedWhenWhole'
<1> SUFFICES ASSUME mishaps' = 0, NEW b \in Block, (Final(b) \in written)'
             PROVE  (Frauds[b] \subseteq links \/ (pc = "save links" /\ b = block))'
    BY DEF LinkedWhenWhole
<1>1. mishaps = 0 /\ ~Fault /\ OnCourse
    BY NoMishapSoFar DEF RewardInv, AgreementInv
<1>2. links \subseteq links'
    BY LinksGrow
<1>3. CASE CommitReward
    <2>1. block \in Block /\ mode = "commit"
        BY <1>3 DEF CommitReward, RewardInv, AgreementInv, Modes, TypeOK
    <2>2. flow = State(block, 2) /\ final = Final(block)
        BY <1>1, <1>3, <2>1 DEF CommitReward, OnCourse
    <2>3. Executed(flow, block, 3) = final
        BY <2>2, InSequence
    <2>4. /\ pc' = "save links" /\ block' = block /\ links' = links /\ pc = "commit reward"
          /\ written' = written \cup {Final(block)}
        BY <1>1, <1>3, <2>2, <2>3 DEF CommitReward
    <2>5. QED
        BY <1>1, <2>1, <2>4, FinalIsInjective DEF RewardInv, LinkedWhenWhole
<1>4. CASE ~CommitReward
    <2>1. Final(b) \in written
        <3>1. /\ Executed(flow, block, 1) \in {State(block, 1), Damaged}
              /\ Executed(flow, block, 2) \in {State(block, 2), Damaged}
            BY DEF Executed
        <3>2. Final(b) \notin {State(block, 1), State(block, 2), Damaged}
            <4>1. /\ Final(b).parts = 3 /\ State(block, 1).parts = 1
                  /\ State(block, 2).parts = 2 /\ Damaged.parts = 1
                BY DEF Final, State, Damaged
            <4>2. QED
                BY <4>1
        <3>3. written' \subseteq written \cup {Executed(flow, block, 1), Executed(flow, block, 2),
                                               Damaged}
            BY <1>4
            DEF Next, Validate, StartCommit, DryTransactions, DryVerifiables, DryReward, Decide,
                CommitTransactions, CommitVerifiables, SaveLink, LinksSaved, Close, UpdateLive,
                SetLeader, SyncVerified, Restart, coldStorage, vars
        <3>4. QED
            BY <3>1, <3>2, <3>3
    <2>2. Frauds[b] \subseteq links \/ (pc = "save links" /\ b = block)
        BY <1>1, <2>1 DEF RewardInv, LinkedWhenWhole
    <2>3. CASE pc # "save links"
        BY <1>2, <2>2, <2>3
    <2>4. CASE LinksSaved
        <3>1. pc = "save links" /\ pending \subseteq links
            BY <1>1, <2>4 DEF LinksSaved
        <3>2. QED
            BY <1>2, <2>2, <3>1 DEF RewardInv, PendingComplete
    <2>5. CASE pc = "save links" /\ ~LinksSaved
        <3>1. pc' = "save links" /\ block' = block
            BY <1>1, <1>4, <2>5
            DEF Next, Validate, StartCommit, DryTransactions, DryVerifiables, DryReward, Decide,
                CommitTransactions, CommitVerifiables, SaveLink, Close, UpdateLive,
                SetLeader, SyncVerified, Restart, flowState, vars
        <3>2. QED
            BY <1>2, <2>2, <3>1
    <2>6. QED
        BY <2>3, <2>4, <2>5
<1>5. QED
    BY <1>3, <1>4

\* From the verifiables on, the Flow has all links of its block.
LEMMA PendingStep ==
    ASSUME PendingComplete, [Next]_vars
    PROVE  PendingComplete'
    BY DEF PendingComplete, Next, Validate, EnterFlow, StartCommit, DryTransactions,
           DryVerifiables, DryReward, Decide, CommitTransactions, CommitVerifiables,
           CommitReward, Revert, SaveLink, LinksSaved, Close, UpdateLive, SetLeader,
           SyncVerified, Restart, flowState, vars

\* The frauds of a block are compared with the links when its verifiables are
\* processed, and every block of the path has its links.
LEMMA NewFraudsStep ==
    ASSUME RewardInv, [Next]_vars, mishaps <= 1
    PROVE  NewFrauds'
<1> USE DEF NewFrauds
<1>0. NewFrauds /\ PathsLinked
    BY DEF RewardInv
<1>1. ASSUME NEW b \in Block, Validate(b) PROVE NewFrauds'
    BY <1>1 DEF Validate, EnterFlow
<1>2. CASE StartCommit
    BY <1>2 DEF StartCommit, EnterFlow
<1>3. CASE DryTransactions
    <2>1. pc' = "verifiables" \/ ~ok'
        BY <1>3, Zenon DEF DryTransactions, Refuse
    <2>2. QED
        BY <2>1
<1>4. CASE DryVerifiables
    <2>1. CASE Acceptable(block)
        BY <1>0, <1>4, <2>1 DEF DryVerifiables, Acceptable, PathsLinked
    <2>2. CASE ok' = FALSE
        BY <2>2
    <2>3. QED
        BY <1>4, <2>1, <2>2 DEF DryVerifiables, Refuse
<1>5. CASE DryReward
    <2>1. pc = "reward" /\ UNCHANGED <<block, verified>>
        BY <1>5 DEF DryReward
    <2>2. ok' => ok
        BY <1>5, Zenon DEF DryReward, Refuse
    <2>3. QED
        BY <1>0, <2>1, <2>2
<1>6. CASE Decide
    BY <1>0, <1>6 DEF Decide
<1>7. CASE CommitTransactions
    BY <1>0, <1>7 DEF CommitTransactions, Revert
<1>8. CASE CommitVerifiables
    BY <1>0, <1>8 DEF CommitVerifiables, Revert
<1>9. CASE CommitReward
    BY <1>0, <1>9 DEF CommitReward, Revert
<1>10. ASSUME NEW x \in Fraud, SaveLink(x) PROVE NewFrauds'
    BY <1>0, <1>10 DEF SaveLink, flowState
<1>11. CASE LinksSaved
    BY <1>0, <1>11 DEF LinksSaved, Revert
<1>12. CASE Close
    BY <1>0, <1>12 DEF Close, flowState
<1>13. CASE UpdateLive
    BY <1>0, <1>13 DEF UpdateLive, flowState
<1>14. CASE SetLeader \/ SyncVerified \/ Restart
    BY <1>14 DEF SetLeader, SyncVerified, Restart
<1>15. CASE UNCHANGED vars
    BY <1>0, <1>15 DEF vars, flowState
<1>16. QED
    BY <1>1, <1>2, <1>3, <1>4, <1>5, <1>6, <1>7, <1>8, <1>9, <1>10, <1>11, <1>12,
       <1>13, <1>14, <1>15 DEF Next

\* A success has saved the links, or the commit was prevented: by the first
\* mishap, before which every whole block had its links.
LEMMA LinkedWhenClosedStep ==
    ASSUME RewardInv, [Next]_vars, mishaps' <= 1
    PROVE  LinkedWhenClosed'
<1> USE DEF LinkedWhenClosed
<1>0. mishaps \in Nat
    <2>1. mishaps \in 0..MaxMishaps
        BY DEF RewardInv, LedgerInv, TypeOK
    <2>2. QED
        BY <2>1
<1>1. mishaps <= 1 => LinkedWhenClosed
    BY DEF RewardInv
<1>2. CASE Decide
    <2>1. /\ pc = "decide" /\ pc' \in {"close", "commit transactions"}
          /\ UNCHANGED <<block, mode, ok, written, links>>
        BY <1>2 DEF Decide, coldStorage
    <2>2. CASE Fault
        <3>1. mishaps = 0
            BY <1>0, <2>2 DEF Fault
        <3>2. block \in Block
            BY <2>1 DEF RewardInv, LedgerInv, TypeOK
        <3>3. Final(block) \in written => Frauds[block] \subseteq links
            BY <2>1, <3>1, <3>2 DEF RewardInv, LinkedWhenWhole
        <3>4. QED
            BY <2>1, <3>3
    <2>3. CASE commit' = commit
        <3>1. mode = "commit" /\ ok => commit
            BY <2>1 DEF RewardInv, AgreementInv, Modes
        <3>2. commit' => pc' = "commit transactions"
            BY <1>2, Zenon DEF Decide
        <3>3. QED
            BY <2>1, <2>3, <3>1, <3>2
    <2>4. QED
        BY <1>2, <2>2, <2>3 DEF Decide
<1>3. CASE CommitTransactions \/ CommitVerifiables \/ CommitReward
    BY <1>3 DEF CommitTransactions, CommitVerifiables, CommitReward, Revert
<1>4. CASE LinksSaved
    BY <1>4 DEF LinksSaved, Revert, coldStorage, RewardInv, PendingComplete
<1>5. CASE Close
    <2>1. /\ pc = "close" /\ UNCHANGED <<block, mode, ok, written, links, mishaps>>
          /\ pc' # "proclaim" /\ pc' # "close"
        BY <1>5 DEF Close, flowState, coldStorage, NoFault
    <2>2. pc' = "committed" => ok /\ mode = "commit"
        BY <1>5, Zenon DEF Close
    <2>3. QED
        BY <1>1, <2>1, <2>2
<1>6. CASE UpdateLive
    BY <1>1, <1>6 DEF UpdateLive, flowState, coldStorage, NoFault
<1>7. CASE UNCHANGED vars
    BY <1>1, <1>7 DEF vars, flowState, coldStorage
<1>8. CASE /\ ~Decide /\ ~CommitTransactions /\ ~CommitVerifiables /\ ~CommitReward
           /\ ~LinksSaved /\ ~Close /\ ~UpdateLive /\ Next
    <2>1. pc' \notin {"close", "committed", "proclaim"}
        BY <1>8 DEF Next, Validate, EnterFlow, StartCommit, DryTransactions, DryVerifiables,
                    DryReward, SaveLink, SetLeader, SyncVerified, Restart
    <2>2. QED
        BY <2>1
<1>9. QED
    BY <1>2, <1>3, <1>4, <1>5, <1>6, <1>7, <1>8

\* The path grows by a block that has its links and shares no fraud with it.
LEMMA PathsLinkedStep ==
    ASSUME RewardInv, [Next]_vars, mishaps <= 1
    PROVE  PathsLinked'
<1>0. PathsLinked /\ NewFrauds /\ LinkedWhenClosed
    BY DEF RewardInv
<1>1. links \subseteq links'
    BY LinksGrow
<1>2. CASE UNCHANGED <<verified, synced>>
    BY <1>0, <1>1, <1>2 DEF PathsLinked
<1>3. CASE SetLeader
    <2>1. block \in Block /\ verified \in Seq(Block) /\ pc = "proclaim" /\ links' = links
        BY <1>3 DEF SetLeader, coldStorage, RewardInv, LedgerInv, TypeOK
    <2>2. Frauds[block] \subseteq links
        BY <1>0, <2>1 DEF LinkedWhenClosed, RewardInv, LedgerInv, WholeWritten
    <2>3. \A b \in Members(verified) : Frauds[block] \cap Frauds[b] = {}
        BY <1>0, <2>1 DEF NewFrauds, RewardInv, AgreementInv, Modes
    <2>4. CASE verified' = verified
        BY <1>2, <1>3, <2>4 DEF SetLeader, coldStorage
    <2>5. CASE /\ Parent[block] \in Members(verified) \cup {NoBlock}
               /\ verified' = PathWithLeader(verified, block)
        <3>1. /\ verified' \in Seq(Block)
              /\ \A i \in DOMAIN verified' :
                    \/ i \in DOMAIN verified /\ verified'[i] = verified[i]
                    \/ i = Len(verified') /\ verified'[i] = block
            BY <2>1, <2>5, PathWithLeaderFacts
        <3>2. \A i \in DOMAIN verified' : Frauds[verified'[i]] \subseteq links
            BY <1>0, <2>2, <3>1 DEF PathsLinked, Members
        <3>3. ASSUME NEW i \in DOMAIN verified', NEW j \in DOMAIN verified', i # j
              PROVE  Frauds[verified'[i]] \cap Frauds[verified'[j]] = {}
            <4>1. CASE /\ i \in DOMAIN verified /\ verified'[i] = verified[i]
                       /\ j \in DOMAIN verified /\ verified'[j] = verified[j]
                BY <1>0, <3>3, <4>1 DEF PathsLinked
            <4>2. CASE /\ i \in DOMAIN verified /\ verified'[i] = verified[i]
                       /\ verified'[j] = block
                BY <2>3, <4>2 DEF Members
            <4>3. CASE /\ j \in DOMAIN verified /\ verified'[j] = verified[j]
                       /\ verified'[i] = block
                BY <2>3, <4>3 DEF Members
            <4>4. QED
                BY <3>1, <3>3, <4>1, <4>2, <4>3
        <3>4. synced' = synced
            BY <1>3 DEF SetLeader, coldStorage
        <3>5. QED
            BY <1>0, <2>1, <3>2, <3>3, <3>4 DEF PathsLinked, Members
    <2>6. QED
        BY <1>3, <2>4, <2>5 DEF SetLeader
<1>4. CASE SyncVerified
    BY <1>0, <1>4 DEF SyncVerified, PathsLinked
<1>5. CASE Restart
    BY <1>0, <1>5 DEF Restart, coldStorage, PathsLinked
<1>6. CASE UpdateLive
    BY <1>2, <1>6 DEF UpdateLive, coldStorage
<1>7. QED
    BY <1>2, <1>3, <1>4, <1>5, <1>6, OthersKeepPaths

\* With at most one mishap, no two blocks of the verified path report the same
\* fraud, whatever forks, failures and crashes came between them.
THEOREM FraudsRewardedOnce == Spec => []NoDoubleReward
<1>1. RewardInv /\ [Next]_vars => RewardInv'
    <2> SUFFICES ASSUME RewardInv, [Next]_vars PROVE RewardInv'
        OBVIOUS
    <2>1. LedgerInv' /\ AgreementInv'
        BY LedgerStep, AgreementStep DEF RewardInv
    <2>2. LinkedWhenWhole' /\ PendingComplete'
        BY LinkedWhenWholeStep, PendingStep DEF RewardInv
    <2>3. mishaps' <= 1 => mishaps <= 1
        <3>1. mishaps \in 0..MaxMishaps
            BY DEF RewardInv, LedgerInv, TypeOK
        <3>2. CASE Next
            <4>1. mishaps' \in 0..MaxMishaps /\ mishaps <= mishaps'
                BY <3>1, <3>2, MishapsType, StepsCountMishaps
            <4>2. QED
                BY <3>1, <4>1
        <3>3. CASE UNCHANGED vars
            BY <3>3 DEF vars
        <3>4. QED
            BY <3>2, <3>3
    <2>4. mishaps' <= 1 => NewFrauds' /\ LinkedWhenClosed' /\ PathsLinked'
        BY <2>3, NewFraudsStep, LinkedWhenClosedStep, PathsLinkedStep
    <2>5. QED
        BY <2>1, <2>2, <2>4 DEF RewardInv
<1>2. RewardInv => NoDoubleReward
    BY DEF RewardInv, PathsLinked, NoDoubleReward
<1>3. QED
    BY <1>1, <1>2, RewardInit, PTL DEF Spec
=============================================================================
