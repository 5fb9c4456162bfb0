----------------------------- MODULE FlowStack -----------------------------
(***************************************************************************)
(* The reversible database stack of a Transaction Flow, as kept by         *)
(* CTransactionManager (TransactionManager.cpp).                           *)
(*                                                                         *)
(* A Flow works on one state trie, mFlowStateDB.  Before each stage that   *)
(* may have to be undone the manager pushes a copy of that trie            *)
(* (mInFlowInterDBs) together with its root hash, the Perspective          *)
(* (mInFlowInterPerspectives).  stepBack() restores a pushed state,        *)
(* popDB() forgets it.  Each copy is tagged with the object (transaction)  *)
(* in whose name it was pushed, and two counters record how many pushed    *)
(* copies belong to the current transaction and to all transactions.       *)
(*                                                                         *)
(* The trie's content is abstract here: a state is any value, and a        *)
(* Perspective is the state it identifies (the root hash is injective).    *)
(***************************************************************************)
EXTENDS Naturals, Sequences, FiniteSets

CONSTANTS
    NoObject,               \* the empty object ID: no transaction is current
    mAllowedInterFlowSteps  \* capacity of the stack (TransactionManager.h)

ASSUME StepsAssumption == mAllowedInterFlowSteps \in Nat /\ mAllowedInterFlowSteps >= 4

(***************************************************************************)
(* A Flow freshly started on state db: the stack holds the Level 0 copy,   *)
(* mBackupStateDB another one, and no transaction is current.  The depth   *)
(* of the current transaction is not reset by cleanupFlow(): it is a       *)
(* leftover of the previous Flow.                                          *)
(***************************************************************************)
StartedFlow(db, leftoverDepth) ==
    [dbs     |-> << [obj |-> NoObject, db |-> db] >>,
     persps  |-> << db >>,
     depth   |-> leftoverDepth,
     total   |-> 0,
     cleaned |-> 0,
     reverted|-> 0,
     db      |-> db,
     backup  |-> db,
     obj     |-> NoObject]

(***************************************************************************)
(* The eviction of pushDB.  Both loops share the index i, which the first  *)
(* one advances: the databases lose their oldest entry, the Perspectives   *)
(* their second oldest one.                                                *)
(***************************************************************************)
DropAt(s, k) == [j \in 1 .. Len(s) - 1 |-> IF j < k THEN s[j] ELSE s[j + 1]]

Evicted(f) ==
    IF Len(f.dbs) >= mAllowedInterFlowSteps
    THEN [f EXCEPT !.dbs = DropAt(@, 1), !.persps = DropAt(@, 2)]
    ELSE f

(***************************************************************************)
(* pushDB(db, isTXDB): tag the copy with the current object, make room,    *)
(* push it and its Perspective, count it when it belongs to a transaction. *)
(***************************************************************************)
PushDB(f, db, isTXDB) ==
    LET e == Evicted(f)
    IN  [e EXCEPT !.dbs    = Append(@, [obj |-> f.obj, db |-> db]),
                  !.persps = Append(@, db),
                  !.depth  = IF isTXDB THEN @ + 1 ELSE @,
                  !.total  = IF isTXDB THEN @ + 1 ELSE @]

(***************************************************************************)
(* The part stepBack and popDB share: n entries leave both vectors, and    *)
(* the two counters go down as long as the current transaction has depth   *)
(* left (decInFlowTXDBStackDepth asserts that the total is positive).      *)
(***************************************************************************)
Fewer(a, b) == IF a < b THEN a ELSE b

Dropped(f, n) ==
    [f EXCEPT !.dbs    = SubSeq(@, 1, Len(@) - n),
              !.persps = SubSeq(@, 1, Len(@) - n),
              !.depth  = @ - Fewer(f.depth, n),
              !.total  = @ - Fewer(f.depth, n)]

CanDrop(f, n) == n <= Len(f.dbs) /\ n <= Len(f.persps)

DropAsserts(f, n) == Fewer(f.depth, n) <= f.total

\* Mutant: the counters are not decremented with the copies.
PopDBKeepsDepth(f, n) ==
    IF CanDrop(f, n)
    THEN [f EXCEPT !.dbs = SubSeq(@, 1, Len(@) - n), !.persps = SubSeq(@, 1, Len(@) - n)]
    ELSE f

PopDB(f, n) == IF CanDrop(f, n) THEN Dropped(f, n) ELSE f

(***************************************************************************)
(* stepBack(n): the state returns to the n-th Perspective from the top.    *)
(* When the cold storage cannot deliver that Perspective the copy kept in  *)
(* the stack is used instead.                                              *)
(***************************************************************************)
StepBack(f, n, coldStorageHit) ==
    IF n = 0 \/ ~CanDrop(f, n) THEN f
    ELSE [Dropped(f, n) EXCEPT
            !.db = IF coldStorageHit
                   THEN f.persps[Len(f.persps) - n + 1]
                   ELSE f.dbs[Len(f.persps) - n + 1].db]

\* What has to hold for assertGN(stepBack(n)) to succeed.
StepBackAsserts(f, n) == CanDrop(f, n) /\ DropAsserts(f, n)

(***************************************************************************)
(* The loops of revertTX and popCurrentTXDBs walk down the stack while the *)
(* top copy belongs to the current object and depth is left.  TopRun is    *)
(* the number of entries they remove.                                      *)
(***************************************************************************)
IsTopRun(f, n) ==
    /\ n <= Fewer(f.depth, Len(f.dbs))
    /\ \A k \in 1 .. n : f.dbs[Len(f.dbs) - k + 1].obj = f.obj

TopRun(f) ==
    CHOOSE n \in 0 .. Len(f.dbs) :
        IsTopRun(f, n) /\ \A m \in 0 .. Len(f.dbs) : IsTopRun(f, m) => m <= n

\* Both functions assert that they removed exactly the transaction's depth,
\* and never meet an empty stack.
TopRunAsserts(f) == TopRun(f) = f.depth /\ DropAsserts(f, f.depth)

\* Mutant: it counts the copies, not the transaction.
PopCurrentTXDBsCountsCopies(f) ==
    [Dropped(f, TopRun(f)) EXCEPT !.cleaned = @ + TopRun(f)]

\* popCurrentTXDBs(): the transaction keeps its effects.
PopCurrentTXDBs(f) ==
    [Dropped(f, TopRun(f)) EXCEPT !.cleaned = @ + 1]

\* revertTX(): the transaction leaves no trace.
RevertTX(f, coldStorageHit) ==
    [StepBack(f, TopRun(f), coldStorageHit) EXCEPT !.reverted = @ + 1]

\* resetCurrentTXDBStackDepth() and setCurrentFlowObjectID(), called for
\* each transaction before it is processed.
SelectObject(f, obj) == [f EXCEPT !.depth = 0, !.obj = obj]

\* cleanupFlow(true, true): both vectors and the counters are cleared, the state
\* is the backup again.  mInFlowTXDBStackDepth keeps its value.
CleanedUp(f) ==
    [f EXCEPT !.dbs = <<>>, !.persps = <<>>, !.total = 0, !.cleaned = 0,
              !.reverted = 0, !.db = f.backup]

\* The copies and the Perspectives describe the same states.
Aligned(f) ==
    /\ Len(f.dbs) = Len(f.persps)
    /\ \A k \in 1 .. Len(f.dbs) : f.dbs[k].db = f.persps[k]
=============================================================================
