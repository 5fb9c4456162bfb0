---------------------------- MODULE ChainProofs ----------------------------
(***************************************************************************)
(* How a node chooses the history it believes in: the two chain-proofs of  *)
(* CBlockchainManager.                                                     *)
(*                                                                         *)
(* The Heaviest Chain-Proof is the best sequence of block headers the node *)
(* has been shown; the threads of its conversations replace it whenever a  *)
(* peer presents a better one.  The Verified Chain-Proof is the sequence   *)
(* of blocks the node has executed; its last block is the leader.  One     *)
(* controller thread pulls the second after the first: it enqueues the     *)
(* blocks of the heaviest path it has in its storage, pops them, validates *)
(* them and appends them.  Blocks that arrive from peers and blocks this   *)
(* node has mined go through the same queue.                               *)
(*                                                                         *)
(* A block stands for its header and its ID.  What a header says of itself *)
(* is constant, and agrees with its parent: one that lies about its height *)
(* or whose proof of work, signature or time is wrong is refused by        *)
(* verifyChainProof() exactly as a blacklisted one is.  A chain-proof      *)
(* begins with genesis, which the checkpoints enforce; otherwise there are *)
(* no checkpoints, and no hard fork.                                       *)
(***************************************************************************)
EXTENDS Integers, Sequences, FiniteSets

CONSTANTS
    Block,      \* block headers
    Genesis,
    NoBlock,
    Parent,     \* of each block; NoBlock for Genesis
    Height,
    Weight,     \* difficulty of a key block; 0 of a data block
    Work,       \* total work done up to a block
    KeyBlock,   \* the key block a block hangs from; a key block itself
    KeyHeight,
    Bad,        \* blocks whose execution does not give what their header says
    Minable,    \* blocks this node may mine
    Peer,       \* threads of conversations
    Proofs,     \* chain-proofs that peers may send
    MaxQueue,   \* capacity of the processing queue
    MaxReceived,    \* bound on the chain-proofs received
    MaxMishaps      \* bound on Flows that fail and on crashes

ASSUME HeadersAssumption ==
    /\ Genesis \in Block /\ NoBlock \notin Block
    /\ Parent \in [Block -> Block \cup {NoBlock}]
    /\ Height \in [Block -> Nat] /\ KeyHeight \in [Block -> Nat]
    /\ Weight \in [Block -> Nat] /\ Work \in [Block -> Nat]
    /\ KeyBlock \in [Block -> Block]
    /\ Parent[Genesis] = NoBlock /\ Height[Genesis] = 0
    /\ Weight[Genesis] > 0 /\ Work[Genesis] = Weight[Genesis]
    /\ \A b \in Block \ {Genesis} :
          /\ Parent[b] \in Block
          /\ Height[b] = Height[Parent[b]] + 1
          /\ Work[b] = Work[Parent[b]] + Weight[b]
    /\ Bad \subseteq Block /\ Minable \subseteq Block \ Bad
    /\ Proofs \subseteq Seq(Block)
    /\ \A p \in Proofs : p # <<>> /\ p[1] = Genesis
    /\ MaxQueue \in Nat /\ MaxReceived \in Nat /\ MaxMishaps \in Nat

VARIABLES
    best,       \* the heaviest chain-proof and what is computed from it
    guardian,   \* who holds mHeaviestPathGuardian between two steps
    verified,   \* mVerifiedChainProof; mVerifiedPath changes with it
    leader,     \* mLeader
    verifiedWork,   \* mVerifiedChainProofTotalDifficulty
    live,       \* the block whose final perspective mLiveStateDB shows
    hunted,     \* blocks asked for, of the peers
    queue,      \* mBlockQueue
    pc,         \* where the controller is in processBlock()
    current,    \* the block it processes
    stored,     \* blocks in Cold Storage
    executed,   \* blocks whose final perspective is in Cold Storage
    blacklist,
    cold,       \* the chain-proofs in Cold Storage
    received, mined, mishaps,
    integrityError, \* the heaviest proof and its path came out of step
    torn        \* a crash fell between the two writes of a sync (history)

chain == <<verified, leader, verifiedWork, live>>
processing == <<hunted, queue, pc, current>>
storage == <<stored, executed, blacklist, cold>>
environment == <<received, mined, mishaps>>
faults == <<integrityError, torn>>
vars == <<best, guardian, chain, processing, storage, environment, faults>>

Controller == "controller"
Nobody == "nobody"

IsKeyBlock(b) == Weight[b] > 0
Members(s) == {s[i] : i \in DOMAIN s}
Tip(s) == IF s = <<>> THEN NoBlock ELSE s[Len(s)]
Greatest(S) == CHOOSE i \in S : \A j \in S : j <= i
Least(S) == CHOOSE i \in S : \A j \in S : i <= j

-----------------------------------------------------------------------------
(* verifyChainProof().  C++ indices start at 0, these at 1.                *)

\* Work at place i of a proof whose headers are linked: the weights up to
\* there, summed.
Cumulative(p, i) == Weight[p[1]] + Work[p[i]] - Work[p[1]]

\* The search for a key block goes back from the place verification starts at.
KeyStart(p, from) ==
    LET keys == {i \in 1..from : IsKeyBlock(p[i])}
    IN  IF keys = {} THEN 0 ELSE Greatest(keys)

\* Mutant: a blacklisted block is no reason to refuse a proof.
FlawIgnoringBlacklist(p, i, start, banned) ==
    IF i > 1 /\ Height[p[i]] # (IF i = start THEN i - 1 ELSE Height[p[i-1]] + 1) THEN "height"
    ELSE IF i > 1 /\ Parent[p[i]] # p[i-1] THEN "parent"
    ELSE "none"

\* What is wrong with place i, in the order of the checks.  At the place
\* where verification starts the height is compared with the place itself.
Flaw(p, i, start, banned) ==
    IF i > 1 /\ Height[p[i]] # (IF i = start THEN i - 1 ELSE Height[p[i-1]] + 1) THEN "height"
    ELSE IF i > 1 /\ Parent[p[i]] # p[i-1] THEN "parent"
    ELSE IF p[i] \in banned THEN "blacklisted"
    ELSE "none"

\* Mutant: nor does the return for a blacklisted block release it.
VerifyChainProofLeaksMore(p, from, optimizing, works, banned) ==
    LET start == KeyStart(p, from)
        flawed == {i \in start..Len(p) : Flaw(p, i, start, banned) # "none"}
    IN  IF (optimizing /\ from > Len(works)) \/ start = 0 THEN "invalid"
        ELSE IF flawed = {} THEN "valid"
        ELSE IF optimizing /\ Flaw(p, Least(flawed), start, banned) # "height" THEN "leaked"
        ELSE "invalid"

\* With the optimisation on, verification takes the mHeaviestPathGuardian, and
\* the two returns for a wrong parent reference do not release it.
VerifyChainProof(p, from, optimizing, works, banned) ==
    LET start == KeyStart(p, from)
        flawed == {i \in start..Len(p) : Flaw(p, i, start, banned) # "none"}
    IN  IF (optimizing /\ from > Len(works)) \/ start = 0 THEN "invalid"
        ELSE IF flawed = {} THEN "valid"
        ELSE IF optimizing /\ Flaw(p, Least(flawed), start, banned) = "parent" THEN "leaked"
        ELSE "invalid"

\* Mutant: the key block the sums go on from is counted again.
CumulativePoWsCountingTwice(p, from, optimizing, works) ==
    LET start == KeyStart(p, from)
    IN  [i \in 1..Len(p) |->
            IF ~optimizing THEN Cumulative(p, i)
            ELSE IF i <= start THEN works[i]
            ELSE works[start] + Weight[p[start]] + Work[p[i]] - Work[p[start]]]

\* The cumulative works it computes: those of the heaviest proof up to the key
\* block verification starts at, and the sums from there.
CumulativePoWs(p, from, optimizing, works) ==
    LET start == KeyStart(p, from)
    IN  [i \in 1..Len(p) |->
            IF ~optimizing THEN Cumulative(p, i)
            ELSE IF i <= start THEN works[i]
            ELSE works[start] + Work[p[i]] - Work[p[start]]]

-----------------------------------------------------------------------------
(* analyzeAndUpdateChainProof(), of the heaviest proof.                    *)

CommonPoint(sub, proof) ==
    LET shared == {j \in DOMAIN sub : sub[j] \in Members(proof)}
    IN  IF shared = {} THEN [found |-> FALSE, sub |-> 0, proof |-> 1]
        ELSE LET y == Greatest(shared)
             IN  [found |-> TRUE, sub |-> y, proof |-> Least({i \in DOMAIN proof : proof[i] = sub[y]})]

\* The proof with what comes after the common point replaced; without a common
\* point, what was received.
Proposal(sub, proof) ==
    LET c == CommonPoint(sub, proof)
    IN  IF c.found THEN SubSeq(proof, 1, c.proof) \o SubSeq(sub, c.sub + 1, Len(sub)) ELSE sub

\* Mutant: the longer of two proofs wins.
BetterIfLonger(total, length, currentTotal, currentLength) ==
    \/ total > currentTotal
    \/ length > currentLength

\* "Decision Criteria for Accepting the New Chain-Proof Proposal"
Better(total, length, currentTotal, currentLength) ==
    \/ total > currentTotal
    \/ total = currentTotal /\ length > currentLength

\* Mutant: nor are they if it is the last but one.
CutAndAppendUncut(s, c, tail) ==
    LET keep == IF c > 1 THEN c ELSE 0
    IN  (IF s # <<>> /\ c < Len(s) - 1 THEN SubSeq(s, 1, keep) ELSE s)
        \o SubSeq(tail, keep + 1, Len(tail))

\* The path and the works are cut behind the common point, unless it is their
\* last element, and the new part is appended; offset 0 stands both for a
\* common point at genesis and for none.
CutAndAppend(s, c, tail) ==
    LET keep == IF c > 1 THEN c ELSE 0
    IN  (IF s # <<>> /\ c < Len(s) THEN SubSeq(s, 1, keep) ELSE s)
        \o SubSeq(tail, keep + 1, Len(tail))

\* What the function answers, and the heaviest proof it leaves.  currentWork is
\* the total difficulty to beat; an infant node, which has none, takes that of
\* the proof it received.  When the sizes come out different ("Critical
\* integrity error") the proof and the path are loaded from Cold Storage again,
\* and the works are restored.
AnalyzeAndUpdate(old, sub, currentWork, banned, saved) ==
    LET c      == CommonPoint(sub, old.proof)
        p      == Proposal(sub, old.proof)
        opt    == c.found /\ c.proof > 1
        sums   == CumulativePoWs(p, c.proof, opt, old.works)
        path   == CutAndAppend(old.path, c.proof, p)
        works  == CutAndAppend(old.works, c.proof, sums)
        beat   == IF currentWork = 0 THEN Cumulative(sub, Len(sub)) ELSE currentWork
        check  == VerifyChainProof(p, c.proof, opt, old.works, banned)
        infant == currentWork = 0 /\ VerifyChainProof(sub, 1, FALSE, <<>>, banned) # "valid"
    IN  IF infant THEN [answer |-> "invalid", best |-> old]
        ELSE IF check # "valid" THEN [answer |-> check, best |-> old]
        ELSE IF ~Better(sums[Len(p)], Len(p), beat, Len(old.proof))
        THEN [answer |-> "totalDiffLower", best |-> old]
        ELSE IF Len(path) = Len(p) /\ Len(works) = Len(p)
        THEN [answer |-> "updated",
              best |-> [proof |-> p, path |-> path, works |-> works, work |-> sums[Len(p)]]]
        ELSE [answer |-> "Error",
              best |-> [old EXCEPT !.proof = saved.proof, !.path = saved.path]]

\* Whoever holds the mHeaviestPathGuardian may lock it again.
Free(t) == guardian \in {Nobody, t}

Analyze(t, sub) ==
    LET r == AnalyzeAndUpdate(best, sub, best.work, blacklist, cold)
    IN  /\ Free(t)
        /\ best' = r.best
        /\ guardian' = IF r.answer = "leaked" THEN t ELSE guardian
        /\ integrityError' = (integrityError \/ r.answer = "Error") /\ torn' = torn

\* A peer presents a chain-proof; Cold Storage is left alone.  Nobody knows a
\* block this node has yet to mine.
ReceiveProof(t, sub) ==
    /\ received < MaxReceived
    /\ received' = received + 1
    /\ Members(sub) \cap Minable \subseteq mined
    /\ Analyze(t, sub)
    /\ UNCHANGED <<chain, processing, storage, mined, mishaps>>

-----------------------------------------------------------------------------
(* The processing queue.                                                   *)

\* Mutant: the queue has no limit.
PushUnlimited(b, local) ==
    LET lower == Cardinality({i \in DOMAIN queue : Height[queue[i].block] <= Height[b]})
    IN  /\ \A i \in DOMAIN queue : queue[i].block # b
        /\ queue' = SubSeq(queue, 1, lower) \o <<[block |-> b, local |-> local]>>
                    \o SubSeq(queue, lower + 1, Len(queue))

\* pushBlock(): no block is queued twice, and the queue is sorted by height.  A
\* block that finds it full is lost, and the answer is the same.
Push(b, local) ==
    LET lower == Cardinality({i \in DOMAIN queue : Height[queue[i].block] <= Height[b]})
    IN  /\ \A i \in DOMAIN queue : queue[i].block # b
        /\ queue' = IF Len(queue) < MaxQueue
                    THEN SubSeq(queue, 1, lower) \o <<[block |-> b, local |-> local]>>
                         \o SubSeq(queue, lower + 1, Len(queue))
                    ELSE queue

\* A block that was asked for arrives, however late.
ReceiveBlock(b) ==
    /\ b \in hunted
    /\ hunted' = hunted \ {b}
    /\ Push(b, FALSE)
    /\ UNCHANGED <<best, guardian, chain, pc, current, storage, environment, faults>>

\* This node has mined a new block on the leader of the moment, and pushes it as
\* if the scheduler had.
MineBlock(b) ==
    /\ b \in Minable \ (mined \cup stored)
    /\ Parent[b] = leader
    /\ mined' = mined \cup {b}
    /\ Push(b, TRUE)
    /\ UNCHANGED <<best, guardian, chain, hunted, pc, current, storage, received, mishaps, faults>>

\* commitHeaviestChainProofBlocks(): only with an empty queue, the blocks of
\* the heaviest path that follow the last one it shares with the verified path
\* are enqueued, as far as they are in storage without a gap and their heights
\* are as expected.  The missing ones are hunted, genesis before all others.
CommitHeaviest ==
    LET path    == best.path
        shared  == {i \in DOMAIN verified : verified[i] \in Members(path)}
        common  == IF shared = {} THEN 0
                   ELSE Least({i \in DOMAIN path : path[i] = verified[Greatest(shared)]})
        genesisFirst == leader = NoBlock \/ common = 0
        first   == IF genesisFirst THEN 1 ELSE common + 1
        height  == IF genesisFirst THEN 0
                   ELSE IF Height[leader] + 1 < first - 1 THEN Height[leader] + 1 ELSE first - 1
        ready(i) == path[i] \in stored /\ Height[best.proof[i]] = height + (i - first)
        upTo    == Greatest({n \in (first - 1)..Len(path) : \A i \in first..n : ready(i)})
        count   == IF upTo - first + 1 <= MaxQueue THEN upTo - first + 1 ELSE MaxQueue
        missing == {path[i] : i \in {i \in first..Len(path) :
                        path[i] \notin stored /\ (i = 1 \/ path[1] \in stored)}}
    IN  /\ pc = "idle" /\ queue = <<>> /\ Free(Controller)
        /\ path # <<>>
        /\ count > 0 \/ ~(missing \subseteq hunted)
        /\ queue' = [i \in 1..count |-> [block |-> path[first + i - 1], local |-> TRUE]]
        /\ hunted' = hunted \cup missing
        /\ UNCHANGED <<best, guardian, chain, pc, current, storage, environment, faults>>

-----------------------------------------------------------------------------
(* processBlock().  The conversations' threads work on the heaviest proof  *)
(* between its parts.                                                      *)

NoEntry == [block |-> NoBlock, local |-> FALSE]

\* popBlock(), and processBlock() up to validateBlock().  A blacklisted block
\* goes no further.  A verified proof that is heavier or longer is offered to
\* the heaviest one first.
PopBlock ==
    LET e == Head(queue)
    IN  /\ pc = "idle" /\ queue # <<>>
        /\ queue' = Tail(queue)
        /\ IF e.block \in blacklist
           THEN UNCHANGED <<best, guardian, faults, pc, current>>
           ELSE /\ pc' = "validate" /\ current' = e
                /\ IF verifiedWork > best.work \/ Len(verified) > Len(best.proof)
                   THEN Analyze(Controller, verified)
                   ELSE UNCHANGED <<best, guardian, faults>>
        /\ UNCHANGED <<chain, hunted, storage, environment>>

\* doCommonVerification(): a block below the leader that is not its child forks.
Forking(b) == leader # NoBlock /\ Parent[b] # leader /\ Height[b] < Height[leader]

\* doKeyPartVerification(), of a fork: either the heaviest path, less its first
\* block, has the block, or its chain has more work than the leader's.
WorkSuffices(b) ==
    \/ \E i \in 2..Len(best.path) : best.path[i] = b
    \/ Work[b] > Work[leader]

\* A data block needs the leader's key height (its parent's, when it forks) and
\* a key block that the verified chain has.
KeyBlockVerified(b) ==
    /\ KeyHeight[b] = KeyHeight[IF Forking(b) THEN Parent[b] ELSE leader]
    /\ KeyBlock[b] \in Members(verified)

\* What validateBlock() asks of the header of a leader candidate.
MayLead(b) ==
    \/ b = Genesis
    \/ /\ leader # NoBlock
       /\ Parent[b] \in stored
       /\ ~IsKeyBlock(b) => KeyBlockVerified(b)
       /\ IsKeyBlock(b) /\ Forking(b) => WorkSuffices(b)

\* The perspective its Flow starts from can be set.
Reachable(b) == b = Genesis \/ Parent[b] \in executed

\* Mutant: the verified chain is not cut.
PathWithLeaderUncut(v, b) == IF b = Genesis THEN <<b>> ELSE Append(v, b)

\* updatePathWithLeader(): the verified chain is cut behind the parent.
PathWithLeader(v, b) ==
    IF b = Genesis THEN <<b>>
    ELSE SubSeq(v, 1, Greatest({i \in DOMAIN v : v[i] = Parent[b]})) \o <<b>>

\* setLeader() also extends the heaviest proof, when the block's parent is its tip.
ExtendHeaviest(b) ==
    IF b # Genesis /\ best.path # <<>> /\ Tip(best.path) = Parent[b]
    THEN [proof |-> Append(best.proof, b), path |-> Append(best.path, b),
          works |-> Append(best.works, Tip(best.works) + Weight[b]),
          work |-> Tip(best.works) + Weight[b]]
    ELSE best

\* setLeader(b), of the verified chain v whose last block leads.  Nothing is done
\* for the block that leads already, and a block whose parent v has not is
\* refused; one whose chain fails verifyChainProof() leaves the chain changed
\* and the leader as it was.
SetLeader(v, b) ==
    LET w     == PathWithLeader(v, b)
        check == VerifyChainProof(w, IF Len(w) > 1 THEN Len(w) - 1 ELSE 1, FALSE, <<>>, blacklist)
    IN  IF b = Tip(v) \/ (b # Genesis /\ Parent[b] \notin Members(v))
        THEN verified' = v /\ leader' = Tip(v) /\ UNCHANGED <<verifiedWork, best>>
        ELSE /\ verified' = w
             /\ best' = ExtendHeaviest(b)
             /\ leader' = IF check = "valid" THEN b ELSE Tip(v)
             /\ verifiedWork' = IF check = "valid" THEN Work[b] ELSE verifiedWork

\* validateBlock() ends with a valid leader.
ValidateLeader ==
    LET b == current.block
    IN  /\ pc = "validate" /\ current.local /\ Free(Controller)
        /\ MayLead(b) /\ Reachable(b) /\ b \notin Bad
        /\ pc' = "append"
        /\ UNCHANGED <<best, guardian, chain, hunted, queue, current, storage, environment, faults>>

\* It ends without one: not scheduled locally, or not fit to lead, or executed
\* in the sandbox with another outcome than its header's.
ValidateNoLeader ==
    LET b == current.block
    IN  /\ pc = "validate"
        /\ current.local => Free(Controller) /\ (~MayLead(b) \/ (Reachable(b) /\ b \in Bad))
        /\ pc' = "reject"
        /\ UNCHANGED <<best, guardian, chain, hunted, queue, current, storage, environment, faults>>

\* The Flow of a leader candidate cannot be started: its parent has never been
\* executed, or its perspective is damaged.  If the block would have followed
\* the leader's height the leader is given up for its parent ("attempting to
\* fix..").
ValidateUnableToStartFlow ==
    LET b == current.block
    IN  /\ pc = "validate" /\ current.local /\ Free(Controller)
        /\ b # Genesis /\ MayLead(b)
        /\ \/ ~Reachable(b) /\ mishaps' = mishaps
           \/ Reachable(b) /\ mishaps < MaxMishaps /\ mishaps' = mishaps + 1
        /\ pc' = "reject"
        /\ IF Height[leader] > 1 /\ Height[b] - 1 = Height[leader]
           THEN SetLeader(SubSeq(verified, 1, Height[leader] - 1), Parent[leader])
           ELSE UNCHANGED <<best, verified, leader, verifiedWork>>
        /\ UNCHANGED <<guardian, live, hunted, queue, current, storage, received, mined, faults>>

\* The Flow is committed, the live state follows, and the block is proclaimed.
AppendBlock ==
    LET b == current.block
    IN  /\ pc = "append" /\ Free(Controller)
        /\ stored' = stored \cup {b}
        /\ executed' = executed \cup {b}
        /\ live' = b
        /\ SetLeader(verified, b)
        /\ pc' = "idle" /\ current' = NoEntry
        /\ UNCHANGED <<guardian, hunted, queue, blacklist, cold, environment, faults>>

\* Mutant: the live state is updated before the result of the Flow is looked at.
AppendFailsShown ==
    /\ pc = "append"
    /\ mishaps < MaxMishaps /\ mishaps' = mishaps + 1
    /\ stored' = stored \cup {current.block}
    /\ live' = current.block
    /\ pc' = "idle" /\ current' = NoEntry
    /\ UNCHANGED <<best, guardian, verified, leader, verifiedWork, hunted, queue, executed,
                   blacklist, cold, received, mined, faults>>

\* The second Flow cannot be started or ended; the block has been saved.
AppendFails ==
    /\ pc = "append"
    /\ mishaps < MaxMishaps /\ mishaps' = mishaps + 1
    /\ stored' = stored \cup {current.block}
    /\ pc' = "idle" /\ current' = NoEntry
    /\ UNCHANGED <<best, guardian, chain, hunted, queue, executed, blacklist, cold, received, mined,
                   faults>>

\* The offspring of a refused block at the front of the queue: each the child
\* of the one before it, which the heaviest path has, and scheduled locally.
Offspring(b) ==
    LET previous(i) == IF i = 1 THEN b ELSE queue[i-1].block
    IN  Greatest({n \in 0..Len(queue) : \A i \in 1..n :
            /\ previous(i) \in Members(best.path)
            /\ Parent[queue[i].block] = previous(i)
            /\ queue[i].local})

\* immuniseAgainstBlock(): the heaviest proof is cut before the block.  Nothing
\* left, the total difficulty stays.
Immunised(b) ==
    LET h == Height[b]
    IN  IF h < Len(best.proof) /\ best.path[h + 1] = b
        THEN [proof |-> SubSeq(best.proof, 1, h), path |-> SubSeq(best.path, 1, h),
              works |-> SubSeq(best.works, 1, h),
              work |-> IF h = 0 THEN best.work ELSE best.works[h]]
        ELSE best

\* What validateBlock() leaves to be stored of blocks that do not lead: all but
\* a peer's key block whose parent is missing, near the leader's height.
Kept(b) ==
    \/ current.local \/ ~IsKeyBlock(b) \/ b = Genesis \/ Parent[b] \in stored
    \/ leader # NoBlock /\ Height[b] > Height[leader] + 1

\* Mutant: the heaviest path is left as it is.
RejectBlockOnly ==
    LET b == current.block
    IN  /\ pc = "reject" /\ Free(Controller)
        /\ stored' = IF Kept(b) THEN stored \cup {b} ELSE stored
        /\ queue' = IF current.local THEN SubSeq(queue, Offspring(b) + 1, Len(queue)) ELSE queue
        /\ pc' = "idle" /\ current' = NoEntry
        /\ UNCHANGED <<best, guardian, chain, hunted, executed, blacklist, cold, environment,
                       faults>>

\* A block that is no leader is stored; one that was scheduled, and that the
\* heaviest path has, is blacklisted and takes its queued offspring with it.
RejectBlock ==
    LET b == current.block
    IN  /\ pc = "reject" /\ Free(Controller)
        /\ stored' = IF Kept(b) THEN stored \cup {b} ELSE stored
        /\ queue' = IF current.local THEN SubSeq(queue, Offspring(b) + 1, Len(queue)) ELSE queue
        /\ IF current.local /\ b \in Members(best.path)
           THEN best' = Immunised(b) /\ blacklist' = blacklist \cup {b}
           ELSE UNCHANGED <<best, blacklist>>
        /\ pc' = "idle" /\ current' = NoEntry
        /\ UNCHANGED <<guardian, chain, hunted, executed, cold, environment, faults>>

\* isBlacklisted() drops an entry whose time is over.
ExpireBlacklisting(b) ==
    /\ b \in blacklist
    /\ blacklist' = blacklist \ {b}
    /\ UNCHANGED <<best, guardian, chain, processing, stored, executed, cold, environment, faults>>

-----------------------------------------------------------------------------
(* Cold Storage and restarts.                                              *)

\* syncChainProofsWithColdStorage(): the verified proof, when it has grown.
SyncVerified ==
    /\ pc = "idle" /\ Len(verified) > Len(cold.verified)
    /\ cold' = [cold EXCEPT !.verified = verified]
    /\ UNCHANGED <<best, guardian, chain, processing, stored, executed, blacklist, environment, faults>>

SyncHeaviest ==
    /\ pc = "idle" /\ Free(Controller)
    /\ cold' = [cold EXCEPT !.proof = best.proof, !.path = best.path]
    /\ UNCHANGED <<best, guardian, chain, processing, stored, executed, blacklist, environment, faults>>

\* What is in Cold Storage when the node stops: a sync of the heaviest proof
\* writes the proof first and the path second.
ColdAtCrash == {cold, [cold EXCEPT !.proof = best.proof]}

Linked(p) ==
    \A i \in 1..Len(p) : /\ Height[p[i]] = i - 1
                         /\ i > 1 => Parent[p[i]] = p[i-1]

\* initialise(): the heaviest proof of Cold Storage, with the path computed
\* again if the sizes differ, or the verified proof if it does not verify.
LoadedHeaviest(c) ==
    LET proof == IF c.path = <<>> /\ c.verified # <<>> THEN <<>> ELSE c.proof
        p     == IF Linked(proof) THEN proof ELSE c.verified
    IN  [proof |-> p,
         path  |-> IF p # proof \/ Len(c.path) # Len(p) THEN p ELSE c.path,
         works |-> [i \in 1..Len(p) |-> Cumulative(p, i)],
         work  |-> IF p = <<>> THEN 0 ELSE Cumulative(p, Len(p))]

\* Mutant: the work is that of the heaviest proof still.
CrossComparedKeepsWork(c, verifiedTotal) ==
    LET h == LoadedHeaviest(c)
        r == AnalyzeAndUpdate(h, c.verified, 0, {}, c)
    IN  IF \/ h.work < verifiedTotal
           \/ h.work = verifiedTotal /\ Len(c.verified) > Len(h.proof)
        THEN [(IF r.answer = "Error" THEN h ELSE r.best) EXCEPT !.work = h.work]
        ELSE h

\* "Final Verified <-> Heaviest Chain-Proofs' Cross Comparison".  The total
\* difficulty of the heaviest proof is passed as the out-parameter too: it is
\* zeroed before it is read, and holds the proposal's afterwards.
CrossCompared(c, verifiedTotal) ==
    LET h == LoadedHeaviest(c)
        r == AnalyzeAndUpdate(h, c.verified, 0, {}, c)
    IN  IF \/ h.work < verifiedTotal
           \/ h.work = verifiedTotal /\ Len(c.verified) > Len(h.proof)
        THEN [(IF r.answer = "Error" THEN h ELSE r.best) EXCEPT
                  !.work = Cumulative(c.verified, Len(c.verified))]
        ELSE h

\* The node stops and starts again.
Restart(c) ==
    LET total == IF c.verified = <<>> THEN 0 ELSE Cumulative(c.verified, Len(c.verified))
    IN  /\ mishaps < MaxMishaps /\ mishaps' = mishaps + 1
        /\ verified' = c.verified
        /\ leader' = Tip(c.verified) /\ live' = Tip(c.verified)
        /\ verifiedWork' = total
        /\ best' = CrossCompared(c, total)
        /\ guardian' = Nobody
        /\ hunted' = {} /\ queue' = <<>> /\ pc' = "idle" /\ current' = NoEntry
        /\ blacklist' = {}
        /\ cold' = c
        /\ integrityError' = FALSE
        /\ torn' = (torn \/ c # cold)
        /\ UNCHANGED <<stored, executed, received, mined>>

-----------------------------------------------------------------------------
EmptyBest == [proof |-> <<>>, path |-> <<>>, works |-> <<>>, work |-> 0]

\* A new node has no block at all.
Init ==
    /\ best = EmptyBest /\ guardian = Nobody
    /\ verified = <<>> /\ leader = NoBlock /\ verifiedWork = 0 /\ live = NoBlock
    /\ hunted = {} /\ queue = <<>> /\ pc = "idle" /\ current = NoEntry
    /\ stored = {} /\ executed = {} /\ blacklist = {}
    /\ cold = [verified |-> <<>>, proof |-> <<>>, path |-> <<>>]
    /\ received = 0 /\ mined = {} /\ mishaps = 0
    /\ integrityError = FALSE /\ torn = FALSE

Network ==
    \/ \E t \in Peer, sub \in Proofs : ReceiveProof(t, sub)
    \/ \E b \in Block : ReceiveBlock(b)

ControllerStep ==
    \/ CommitHeaviest \/ PopBlock
    \/ ValidateLeader \/ ValidateNoLeader \/ ValidateUnableToStartFlow
    \/ AppendBlock \/ AppendFails \/ RejectBlock
    \/ SyncVerified \/ SyncHeaviest

\* What a node does between an integrity error and its next start is left out:
\* its proof, path and works do not belong together any more, and
\* immuniseAgainstBlock() asserts that they do.
Next ==
    \/ ~integrityError /\ Network
    \/ ~integrityError /\ ControllerStep
    \/ ~integrityError /\ \E b \in Block : MineBlock(b) \/ ExpireBlacklisting(b)
    \/ \E c \in ColdAtCrash : Restart(c)

Spec == Init /\ [][Next]_vars

Progress ==
    /\ ~integrityError
    /\ \/ CommitHeaviest \/ PopBlock
       \/ ValidateLeader \/ ValidateNoLeader \/ ValidateUnableToStartFlow
       \/ AppendBlock \/ RejectBlock

Download(b) == ~integrityError /\ ReceiveBlock(b)

Fairness == WF_vars(Progress) /\ \A b \in Block : WF_vars(Download(b))

FairSpec == Spec /\ Fairness

-----------------------------------------------------------------------------
(* Properties.                                                             *)

\* Every variable has its type, and the processing queue keeps its limit.
TypeOK ==
    /\ best \in [proof : Seq(Block), path : Seq(Block), works : Seq(Int), work : Int]
    /\ guardian \in Peer \cup {Controller, Nobody}
    /\ verified \in Seq(Block) /\ leader \in Block \cup {NoBlock}
    /\ verifiedWork \in Int /\ live \in Block \cup {NoBlock}
    /\ hunted \subseteq Block /\ queue \in Seq([block : Block, local : BOOLEAN])
    /\ Len(queue) <= MaxQueue
    /\ pc \in {"idle", "validate", "append", "reject"}
    /\ current \in [block : Block, local : BOOLEAN] \cup {NoEntry}
    /\ stored \subseteq Block /\ executed \subseteq Block /\ blacklist \subseteq Block
    /\ cold \in [verified : Seq(Block), proof : Seq(Block), path : Seq(Block)]
    /\ received \in Nat /\ mined \subseteq Minable /\ mishaps \in Nat
    /\ integrityError \in BOOLEAN /\ torn \in BOOLEAN

\* Every header stands at the place of its height.
InPlace(p) == \A i \in 1..Len(p) : Height[p[i]] = i - 1

\* The three vectors of the heaviest chain-proof stay in step, however the peers'
\* threads, the leaders, the rejected blocks and the restarts cut and extend
\* them: they have the same length, and every header and block stands at the
\* place of its height.  Unless a crash fell between the two writes that save
\* the proof and its path, they describe the same chain: the headers are linked,
\* the path names them, the works are the sums of their weights, and the total
\* difficulty to beat is not below the last sum.
InStep ==
    ~integrityError =>
        /\ Len(best.path) = Len(best.proof) /\ Len(best.works) = Len(best.proof)
        /\ InPlace(best.proof) /\ InPlace(best.path)
        /\ ~torn => /\ Linked(best.proof) /\ best.path = best.proof
                    /\ best.works = [i \in 1..Len(best.proof) |-> Cumulative(best.proof, i)]
                    /\ best.works # <<>> => Tip(best.works) <= best.work

\* The verified chain-proof, which updatePathWithLeader() and the repair of
\* doDataPartVerification() cut and extend, is a linked chain whose last block is
\* the leader, whose work is the one recorded, and of which this node has
\* executed every block with the outcome its header claims.
VerifiedChain ==
    /\ Linked(verified)
    /\ leader = Tip(verified)
    /\ leader # NoBlock => verifiedWork = Work[leader]
    /\ Members(verified) \subseteq executed \ Bad

Ledger == INSTANCE AtomicLedger WITH shown <- live

\* The state the node shows is always that of a block it has executed from the
\* outcome of its parent, while blocks arrive before their parents, fail, are
\* queued behind one that fails, fork off or are lost in a crash.
ShowsWholeBlocks == Ledger!Spec

\* A block that immuniseAgainstBlock() cut out does not come back into the
\* heaviest path while it is blacklisted, whoever presents a proof with it.
HeaviestNotBlacklisted ==
    ~integrityError => Members(best.proof) \cap blacklist = {}

WorkOf(p) == IF p = <<>> THEN 0 ELSE Cumulative(p, Len(p))

Heavier(p, q) ==
    \/ WorkOf(p) > WorkOf(q)
    \/ WorkOf(p) = WorkOf(q) /\ Len(p) > Len(q)

\* The heaviest chain-proof of a running node is given up only for one with more
\* work, or with as much and longer; or it loses its end to a block that
\* failed.  (After a crash between the two writes that save it, the path may end
\* in another block than the proof, and a leader that continues the path is
\* appended to both.)
NeverLighter ==
    [][\/ integrityError' \/ torn \/ best'.proof = best.proof
       \/ \E c \in ColdAtCrash : Restart(c)
       \/ Heavier(best'.proof, best.proof)
       \/ /\ Len(best'.proof) < Len(best.proof)
          /\ best'.proof = SubSeq(best.proof, 1, Len(best'.proof))
          /\ best.path[Len(best'.proof) + 1] \in blacklist']_vars

\* The sizes of the heaviest proof, its path and its works come out different
\* ("Critical integrity error") only when the path was genesis alone, where an
\* offset of 0 may mean two things; wherever else a peer's proof, the verified
\* one or a leader branches off, all three are cut at the same place.
ErrsOnlyAtGenesis ==
    [][integrityError' /\ ~integrityError => best.path = <<Genesis>>]_vars

\* Only a proof whose own headers are not linked takes mHeaviestPathGuardian
\* away: not one that branches off the heaviest proof, is behind it, or has a
\* blacklisted block, and never the controller's own.  (After a crash between
\* the two writes the heaviest proof may itself not be linked.)
OnlyUnlinkedProofsLeak ==
    [][\/ guardian' \in {guardian, Nobody} \/ torn
       \/ \E t \in Peer, sub \in Proofs : ReceiveProof(t, sub) /\ ~Linked(sub)]_vars

\* After a restart, whatever of the two proofs had been saved before it, a
\* proof has to beat the work of the verified chain and that of the heaviest
\* one: the zeroed total difficulty does not remain.
RestartKeepsWork ==
    [][(\E c \in ColdAtCrash : Restart(c))
       => verifiedWork' <= best'.work /\ WorkOf(best'.proof) <= best'.work]_vars

\* The controller thread brings the verified chain up to the heaviest one: after
\* a while every block of the heaviest path is in the verified one, and stays,
\* whatever blocks failed, were cut out or came back on the way.  Three things
\* stop it: an integrity error, the guardian a thread went away with, and a path
\* that a crash left naming other blocks than the proof.
CatchUp ==
    <>[](\/ integrityError \/ guardian # Nobody \/ torn
         \/ Members(best.path) \subseteq Members(verified))

\* Lines 9902 to 9909 of BlokchainManager.cpp: a block that replaces the leader,
\* and does not continue its chain, is in the heaviest chain or leads to more
\* work.
ForkNeedsWork ==
    [][AppendBlock /\ leader # NoBlock /\ leader \notin Members(verified')
       => leader' \in Members(best.path) \/ Work[leader'] > Work[leader]]_vars
=============================================================================
