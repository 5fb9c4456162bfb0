------------------------ MODULE BlockFormationProofs ------------------------
(***************************************************************************)
(* Proofs about BlockFormation that hold for every set of transactions,    *)
(* every limit and every capacity of the stack: types, the discipline of   *)
(* the stack in every stage, the batch, and the deferred transactions.     *)
(***************************************************************************)
EXTENDS BlockFormation, FlowStackProofs, FiniteSetTheorems

Object == Tx \cup {NoObject}

Flow == FlowType(Ledger, Object)

Proposal == [txs : Seq(Entry), final : Ledger, cut : Receipt \cup {NoReceipt}]

\* The types, in parts.
PoolTypes ==
    /\ pool \subseteq Tx /\ kind \in [Tx -> Kind \cup {"new"}]
    /\ processed \subseteq pool /\ trigger \subseteq pool
    /\ invalid \subseteq pool /\ deletion \subseteq pool
    /\ ledger \in Ledger
    /\ chain \in Seq(Tx)

StageTypes ==
    /\ pc \in Stage
    /\ batch \in Seq(Tx) /\ retry \in Seq(Tx) /\ idx \in Nat
    /\ receipt \in Receipt \cup {NoReceipt}

BlockTypes ==
    /\ block \in Seq(Entry)
    /\ used \in Nat /\ fees \in Nat /\ count \in Nat
    /\ succeeded \subseteq Issuer
    /\ {mark, stopping, aborted} \subseteq BOOLEAN

ShapeInv ==
    /\ PoolTypes /\ StageTypes /\ BlockTypes
    /\ IsFiniteSet(pool)
    /\ flow \in Flow
    /\ pc = "publish" => formed \in Proposal

InFlow == {"fees", "append", "final"}

\* The stack in every stage.
FlowInv ==
    /\ pc \in {"loop", "retry"} => LevelZero(flow) /\ flow.persps[1] = ledger
    /\ pc \in InFlow /\ ~Emptied(flow) => flow.persps[1] = ledger /\ flow.obj = receipt.tx
    /\ pc = "fees" => Stacked(flow, 1)
    /\ pc = "append" => Stacked(flow, 1) \/ (Stacked(flow, 0) /\ receipt.include)
    /\ pc = "final" =>
         \/ Stacked(flow, 1) \/ Stacked(flow, 2)
         \/ receipt.include /\ (Stacked(flow, 0) \/ (Emptied(flow) /\ ~mark))
    /\ pc = "check" => LevelZero(flow) \/ Emptied(flow)
    /\ pc \in {"idle", "publish"} => flow.dbs = <<>> /\ flow.persps = <<>>

\* The transaction being processed is the next one of the batch.
ReceiptInv ==
    /\ pc \in InFlow =>
         /\ receipt \in Receipt
         /\ idx \in 1 .. Len(batch)
         /\ receipt.tx = batch[idx]
         /\ receipt.tx \in pool
    /\ pc = "fees" => receipt.include

\* The batch has no transaction twice, and what is left of it is pending.
BatchInv ==
    /\ idx >= 1
    /\ pc \in {"loop"} \cup InFlow =>
         \A j, k \in 1 .. Len(batch) : j # k => batch[j] # batch[k]
    /\ pc = "loop" => \A k \in idx .. Len(batch) : batch[k] \in Unprocessed
    /\ pc \in InFlow => \A k \in idx + 1 .. Len(batch) : batch[k] \in Unprocessed
    /\ pc = "retry" => \A k \in 1 .. Len(retry) : retry[k] \in pool

\* Every deferred transaction is more than one nonce ahead of the state db.
Ahead(db) == \A t \in trigger : nonceOf[t] > db.nonce[issuerOf[t]] + 1

\* No nonce of the state d is beyond that of the state e.
Behind(d, e) == \A i \in Issuer : d.nonce[i] <= e.nonce[i]

\* The deferred transactions are ahead of the ledger, of the Flow's state and
\* of every state the Flow can be rolled back to.
TriggerInv ==
    /\ Ahead(ledger)
    /\ pc \in {"loop", "fees", "append", "retry", "check"} \/ (pc = "final" /\ receipt.include) =>
         Ahead(flow.db) /\ Behind(ledger, flow.db)
    /\ pc \in InFlow /\ (Stacked(flow, 1) \/ Stacked(flow, 2)) =>
         Ahead(flow.persps[2]) /\ Behind(ledger, flow.persps[2])
    /\ pc = "publish" => Ahead(formed.final)

IInv == ShapeInv /\ FlowInv /\ ReceiptInv /\ BatchInv /\ TriggerInv

-----------------------------------------------------------------------------
(* The operators of BlockFormation.                                        *)

\* A verdict names its transaction; an 'invalid nonce' is one that is not the
\* next one of the domain.
LEMMA VerdictFacts ==
    ASSUME NEW db, NEW t \in Tx, NEW k
    PROVE  /\ Verdict(db, t, k) \in Receipt
           /\ Verdict(db, t, k).tx = t
           /\ Verdict(db, t, k).result = "invalidNonce" => db.nonce[issuerOf[t]] + 1 # nonceOf[t]
<1> DEFINE v == Verdict(db, t, k)
<1>1. \/ v = [tx |-> t, result |-> "pubNotMatch", include |-> TRUE, confirmed |-> FALSE]
      \/ v = [tx |-> t, result |-> "invalidSig", include |-> FALSE, confirmed |-> FALSE]
      \/ /\ v = [tx |-> t, result |-> "invalidNonce", include |-> FALSE, confirmed |-> TRUE]
         /\ db.nonce[issuerOf[t]] + 1 # nonceOf[t]
      \/ v = [tx |-> t, result |-> "invalidBalance", include |-> FALSE, confirmed |-> TRUE]
      \/ v = [tx |-> t, result |-> "invalid", include |-> TRUE, confirmed |-> TRUE]
      \/ v = [tx |-> t, result |-> "valid", include |-> TRUE, confirmed |-> TRUE]
  BY DEF Verdict
<1> HIDE DEF v
<1>2. v \in Receipt /\ v.tx = t
  <2>1. \A e \in Result, b, c \in BOOLEAN :
            LET r == [tx |-> t, result |-> e, include |-> b, confirmed |-> c]
            IN  r \in Receipt /\ r.tx = t
    BY DEF Receipt
  <2>2. /\ {"pubNotMatch", "invalidSig", "invalidNonce", "invalidBalance"} \subseteq Result
        /\ {"invalid", "valid"} \subseteq Result
    BY DEF Result
  <2>3. TRUE \in BOOLEAN /\ FALSE \in BOOLEAN
    OBVIOUS
  <2> QED  BY <1>1, <2>1, <2>2, <2>3
<1>3. v.result = "invalidNonce" => db.nonce[issuerOf[t]] + 1 # nonceOf[t]
  BY <1>1
<1> QED  BY <1>2, <1>3 DEF v

\* The code of a transaction changes no nonce.
LEMMA AfterCodeFacts ==
    ASSUME NEW db \in Ledger, NEW r \in Receipt
    PROVE  AfterCode(db, r) \in Ledger /\ AfterCode(db, r).nonce = db.nonce
  BY DEF AfterCode, WithEffects, Ledger, Receipt, Part

\* The nonce of the issuer goes up by one, the others stay.
LEMMA IncNonceFacts ==
    ASSUME NEW db \in Ledger, NEW t \in Tx
    PROVE  /\ IncNonce(db, t) \in Ledger
           /\ IncNonce(db, t).effects = db.effects
           /\ \A i \in Issuer :
                IncNonce(db, t).nonce[i] =
                    IF i = issuerOf[t] THEN db.nonce[i] + 1 ELSE db.nonce[i]
<1> DEFINE i0 == issuerOf[t]
           n  == [db.nonce EXCEPT ![i0] = @ + 1]
           d  == IncNonce(db, t)
<1>1. i0 \in Issuer /\ db.nonce \in [Issuer -> Nat] /\ db.effects \in SUBSET (Tx \X Part)
  BY FormationAssumption DEF Ledger
<1>2. /\ n \in [Issuer -> Nat]
      /\ \A i \in Issuer : n[i] = IF i = i0 THEN db.nonce[i] + 1 ELSE db.nonce[i]
  BY <1>1
<1>3. d = [db EXCEPT !.nonce = n]
  BY DEF IncNonce
<1> HIDE DEF n, d, i0
<1>4. d \in Ledger /\ d.effects = db.effects /\ d.nonce = n
  BY <1>2, <1>3 DEF Ledger
<1> QED  BY <1>2, <1>4 DEF d, i0

\* So does the charge as a whole.
LEMMA ChargedFacts ==
    ASSUME NEW db \in Ledger, NEW r \in Receipt
    PROVE  /\ Charged(db, r) \in Ledger
           /\ Charged(db, r).nonce = IncNonce(db, r.tx).nonce
<1> DEFINE d == IncNonce(db, r.tx)
           P == {"fees", "receipt"} \cup IF r.result # "valid" THEN {"log"} ELSE {}
<1>1. r.tx \in Tx /\ P \subseteq Part
  BY DEF Receipt, Part
<1>2. d \in Ledger
  BY <1>1, IncNonceFacts
<1>3. Charged(db, r) = [d EXCEPT !.effects = @ \cup ({r.tx} \X P)]
  BY DEF Charged, WithEffects
<1> HIDE DEF d, P
<1>4. {r.tx} \X P \subseteq Tx \X Part
  BY <1>1
<1> QED  BY <1>2, <1>3, <1>4 DEF Ledger, d

\* An ordering of a finite set of transactions is a sequence without
\* repetitions.
LEMMA OrderedBatch ==
    ASSUME NEW S \in SUBSET Tx, IsFiniteSet(S), NEW s \in FeesHighestFirstNonce(S)
    PROVE  /\ s \in Seq(Tx)
           /\ \A k \in 1 .. Len(s) : s[k] \in S
           /\ \A j, k \in 1 .. Len(s) : j # k => s[j] # s[k]
<1> DEFINE N == Cardinality(S)
<1>1. N \in Nat
  BY FS_CardinalityType
<1>2. s \in [1 .. N -> S]
  BY DEF FeesHighestFirstNonce
<1>3. \A k \in DOMAIN s : \A j \in k .. N : s[j] = s[k] => j = k
  BY DEF FeesHighestFirstNonce
<1> HIDE DEF N
<1>4. s \in Seq(S) /\ Len(s) = N
  BY <1>1, <1>2
<1>5. s \in Seq(Tx)
  BY <1>4
<1>6. ASSUME NEW j \in 1 .. N, NEW k \in 1 .. N, j < k
      PROVE  s[j] # s[k]
  <2>1. k \in j .. N /\ j \in DOMAIN s
    BY <1>1, <1>2, <1>6
  <2>2. s[k] = s[j] => k = j
    BY <1>3, <2>1
  <2> QED  BY <1>1, <1>6, <2>2
<1>7. ASSUME NEW j \in 1 .. N, NEW k \in 1 .. N, j # k
      PROVE  s[j] # s[k]
  <2>1. j < k \/ k < j
    BY <1>1, <1>7
  <2> QED  BY <1>6, <2>1
<1> QED  BY <1>2, <1>4, <1>5, <1>7

-----------------------------------------------------------------------------
(* What each stage does to the stack.                                      *)

\* processTransaction() pushes the Level 2 copy of the state it starts from.
LEMMA ExecutedFlow ==
    ASSUME NEW f \in Flow, LevelZero(f), NEW t \in Tx, NEW r \in Receipt
    PROVE  LET g == Executed(SelectObject(f, t), r)
           IN  /\ g \in Flow
               /\ Stacked(g, 1)
               /\ g.persps[1] = f.persps[1] /\ g.persps[2] = f.db
               /\ g.obj = t
               /\ g.db = AfterCode(f.db, r)
<1> DEFINE s == SelectObject(f, t)
           p == Pushed(s, s.db)
           d == AfterCode(f.db, r)
           g == Executed(s, r)
<1>1. t \in Object
  BY DEF Object
<1>2. s \in Flow /\ Stacked(s, 0) /\ s.persps = f.persps /\ s.db = f.db /\ s.obj = t
  BY <1>1, SelectStacked DEF Flow
<1> HIDE DEF s
<1>3. f.db \in Ledger /\ d \in Ledger
  BY AfterCodeFacts DEF Flow, FlowType
<1>4. /\ p \in Flow /\ Stacked(p, 1) /\ p.persps[1] = s.persps[1] /\ p.persps[2] = s.db
      /\ p.db = s.db /\ p.obj = s.obj
  BY <1>2, <1>3, PushFirst DEF Flow
<1>7. g = OnState(p, d)
  <2>1. g = [p EXCEPT !.db = AfterCode(@, r)]
    BY DEF Executed, Pushed
  <2>2. p.db = f.db
    BY <1>2, <1>4
  <2> HIDE DEF p, g
  <2>3. g = [p EXCEPT !.db = d]
    BY <2>1, <2>2
  <2> QED  BY <2>3 DEF OnState
<1> HIDE DEF p, d, g
<1>8. /\ OnState(p, d) \in Flow /\ Stacked(OnState(p, d), 1)
      /\ OnState(p, d).persps = p.persps /\ OnState(p, d).db = d /\ OnState(p, d).obj = p.obj
  BY <1>3, <1>4, OnStateStacked DEF Flow
<1> QED  BY <1>2, <1>4, <1>7, <1>8 DEF g, d, s

\* Roll Back (1/3) and the Level 1 copy.
LEMMA BeforeFeesFlow ==
    ASSUME flow \in Flow, Stacked(flow, 1), NEW hit
    PROVE  LET g == BeforeFees(hit)
           IN  /\ StepBackAsserts(flow, 1)
               /\ g \in Flow
               /\ g.persps[1] = flow.persps[1] /\ g.persps[2] = flow.persps[2]
               /\ g.obj = flow.obj
               /\ receipt.result = "valid" => Stacked(g, 2) /\ g.db = flow.db
               /\ receipt.result # "valid" => Stacked(g, 1) /\ g.db = flow.persps[2]
<1> DEFINE b == StepBack(flow, 1, hit)
           g == BeforeFees(hit)
<1>1. 1 \in 1 .. 1 /\ 1 - 1 = 0 /\ 1 - 1 + 2 = 2 /\ 1 \in 1 .. 1 - 1 + 1
  OBVIOUS
<1>2. /\ StepBackAsserts(flow, 1) /\ b \in Flow /\ Stacked(b, 0)
      /\ b.persps[1] = flow.persps[1] /\ b.db = flow.persps[2] /\ b.obj = flow.obj
  <2>1. /\ StepBackAsserts(flow, 1) /\ b \in Flow /\ Stacked(b, 1 - 1)
        /\ \A k \in 1 .. 1 - 1 + 1 : b.persps[k] = flow.persps[k]
        /\ b.db = flow.persps[1 - 1 + 2] /\ b.obj = flow.obj
    BY <1>1, StepBackStacked DEF Flow
  <2> QED  BY <1>1, <2>1
<1>3. flow.db \in Ledger
  BY DEF Flow, FlowType
<1>4. CASE receipt.result = "valid"
  <2>1. g = Pushed(flow, flow.db)
    BY <1>4 DEF BeforeFees, Pushed
  <2>2. /\ g \in Flow /\ Stacked(g, 2)
        /\ g.persps[1] = flow.persps[1] /\ g.persps[2] = flow.persps[2]
        /\ g.db = flow.db /\ g.obj = flow.obj
    BY <1>3, <2>1, PushSecond DEF Flow
  <2> HIDE DEF g
  <2> QED  BY <1>2, <1>4, <2>2 DEF g
<1>5. CASE receipt.result # "valid"
  <2>1. g = Pushed(b, b.db)
    BY <1>5 DEF BeforeFees, Pushed
  <2> HIDE DEF b
  <2>2. b.db \in Ledger
    BY <1>2 DEF Flow, FlowType
  <2>3. /\ g \in Flow /\ Stacked(g, 1)
        /\ g.persps[1] = b.persps[1] /\ g.persps[2] = b.db
        /\ g.db = b.db /\ g.obj = b.obj
    BY <1>2, <2>1, <2>2, PushFirst DEF Flow
  <2> HIDE DEF g
  <2> QED  BY <1>2, <1>5, <2>3 DEF g
<1> QED  BY <1>4, <1>5

\* The charge is made on the state of a stack one copy higher, which is then
\* popped.
LEMMA ChargedFlow ==
    ASSUME flow \in Flow, Stacked(flow, 1), receipt \in Receipt, NEW hit
    PROVE  LET b == BeforeFees(hit)
               g == PopDB([b EXCEPT !.db = Charged(@, receipt)], 1)
           IN  /\ g \in Flow
               /\ g.persps[1] = flow.persps[1]
               /\ g.obj = flow.obj
               /\ receipt.result = "valid" =>
                    /\ Stacked(g, 1)
                    /\ g.persps[2] = flow.persps[2]
                    /\ g.db = Charged(flow.db, receipt)
               /\ receipt.result # "valid" =>
                    /\ Stacked(g, 0)
                    /\ g.db = Charged(flow.persps[2], receipt)
<1> DEFINE b == BeforeFees(hit)
           d == Charged(b.db, receipt)
           c == [b EXCEPT !.db = Charged(@, receipt)]
           g == PopDB(c, 1)
<1>1. /\ b \in Flow /\ b.obj = flow.obj
      /\ b.persps[1] = flow.persps[1] /\ b.persps[2] = flow.persps[2]
      /\ receipt.result = "valid" => Stacked(b, 2) /\ b.db = flow.db
      /\ receipt.result # "valid" => Stacked(b, 1) /\ b.db = flow.persps[2]
  BY BeforeFeesFlow
<1> HIDE DEF b
<1>2. b.db \in Ledger /\ d \in Ledger
  BY <1>1, ChargedFacts DEF Flow, FlowType
<1>3. c = OnState(b, d)
  BY DEF OnState
<1> HIDE DEF c
<1>4. /\ c \in Flow /\ c.persps = b.persps /\ c.db = d /\ c.obj = b.obj
      /\ \A n \in Nat : Stacked(b, n) => Stacked(c, n)
  BY <1>1, <1>2, <1>3, OnStateStacked DEF Flow
<1>5. ASSUME NEW n \in Nat, Stacked(b, n + 1)
      PROVE  /\ g \in Flow /\ Stacked(g, n) /\ g.db = d /\ g.obj = b.obj
             /\ \A k \in 1 .. n + 1 : g.persps[k] = b.persps[k]
  <2>1. Stacked(c, n + 1)
    BY <1>4, <1>5
  <2> QED  BY <1>4, <2>1, PopStacked DEF Flow
<1> HIDE DEF g
<1>6. CASE receipt.result = "valid"
  <2>1. Stacked(b, 1 + 1)
    BY <1>1, <1>6
  <2>2. /\ g \in Flow /\ Stacked(g, 1) /\ g.db = d /\ g.obj = b.obj
        /\ \A k \in 1 .. 1 + 1 : g.persps[k] = b.persps[k]
    BY <1>5, <2>1
  <2>3. 1 \in 1 .. 1 + 1 /\ 2 \in 1 .. 1 + 1
    OBVIOUS
  <2> QED  BY <1>1, <1>6, <2>2, <2>3 DEF g, c, b, d
<1>7. CASE receipt.result # "valid"
  <2>1. Stacked(b, 0 + 1)
    BY <1>1, <1>7
  <2>2. /\ g \in Flow /\ Stacked(g, 0) /\ g.db = d /\ g.obj = b.obj
        /\ \A k \in 1 .. 0 + 1 : g.persps[k] = b.persps[k]
    BY <1>5, <2>1
  <2>3. 1 \in 1 .. 0 + 1
    OBVIOUS
  <2> QED  BY <1>1, <1>7, <2>2, <2>3 DEF g, c, b, d
<1> QED  BY <1>6, <1>7

\* The finalizer of a transaction that is to be included keeps the state ...
LEMMA FinalizedIncluded ==
    ASSUME NEW f \in Flow, NEW r, r.include, NEW hit
    PROVE  LET g == Finalized(f, r, hit)
           IN  /\ \A n \in Nat : Stacked(f, n) =>
                    g \in Flow /\ LevelZero(g) /\ g.persps[1] = f.persps[1] /\ g.db = f.db
               /\ Emptied(f) => g \in Flow /\ Emptied(g) /\ g.db = f.db
<1> DEFINE p == PopCurrentTXDBs(f)
           g == Finalized(f, r, hit)
<1>1. g = [p EXCEPT !.obj = NoObject]
  BY DEF Finalized
<1>2. NoObject \in Object
  BY DEF Object
<1>3. ASSUME NEW n \in Nat, Stacked(f, n)
      PROVE  g \in Flow /\ LevelZero(g) /\ g.persps[1] = f.persps[1] /\ g.db = f.db
  <2>1. p \in Flow /\ LevelZero(p) /\ p.persps[1] = f.persps[1] /\ p.db = f.db
    BY <1>3, CleanedStacked DEF Flow
  <2> HIDE DEF p, g
  <2>2. /\ g \in Flow /\ g.dbs = p.dbs /\ g.persps = p.persps /\ g.total = p.total
        /\ g.db = p.db
    BY <1>1, <1>2, <2>1, NamedFields DEF Flow
  <2>3. LevelZero(g)
    BY <2>1, <2>2 DEF LevelZero, Aligned
  <2> QED  BY <2>1, <2>2, <2>3
<1>4. ASSUME Emptied(f)
      PROVE  g \in Flow /\ Emptied(g) /\ g.db = f.db
  <2>1. p \in Flow /\ Emptied(p) /\ p.db = f.db
    BY <1>4, CleanedEmptied DEF Flow
  <2> HIDE DEF p, g
  <2>2. /\ g \in Flow /\ g.dbs = p.dbs /\ g.persps = p.persps /\ g.total = p.total
        /\ g.depth = p.depth /\ g.db = p.db
    BY <1>1, <1>2, <2>1, NamedFields DEF Flow
  <2> QED  BY <2>1, <2>2 DEF Emptied
<1> QED  BY <1>3, <1>4

\* ... and that of an excluded one returns to the state before it.
LEMMA FinalizedExcluded ==
    ASSUME NEW f \in Flow, NEW r, ~r.include, NEW hit, NEW n \in Nat \ {0}, Stacked(f, n)
    PROVE  LET g == Finalized(f, r, hit)
           IN  g \in Flow /\ LevelZero(g) /\ g.persps[1] = f.persps[1] /\ g.db = f.persps[2]
<1> DEFINE p == RevertTX(f, hit)
           g == Finalized(f, r, hit)
<1>1. g = [p EXCEPT !.obj = NoObject]
  BY DEF Finalized
<1>2. NoObject \in Object
  BY DEF Object
<1>3. p \in Flow /\ LevelZero(p) /\ p.persps[1] = f.persps[1] /\ p.db = f.persps[2]
  BY RevertedStacked DEF Flow
<1> HIDE DEF p, g
<1>4. /\ g \in Flow /\ g.dbs = p.dbs /\ g.persps = p.persps /\ g.total = p.total
      /\ g.db = p.db
  BY <1>1, <1>2, <1>3, NamedFields DEF Flow
<1>5. LevelZero(g)
  BY <1>3, <1>4 DEF LevelZero, Aligned
<1> QED  BY <1>3, <1>4, <1>5 DEF g

\* The fields of a Flow.
LEMMA FlowFields ==
    ASSUME NEW f \in Flow
    PROVE  /\ f.dbs \in Seq([obj : Tx \cup {NoObject}, db : Ledger])
           /\ f.persps \in Seq(Ledger)
           /\ f.db \in Ledger /\ f.backup \in Ledger
           /\ f.obj \in Tx \cup {NoObject}
           /\ {f.depth, f.total, f.cleaned, f.reverted} \subseteq Nat
  BY DEF Flow, FlowType, Copy, Object

-----------------------------------------------------------------------------
(* The steps.                                                              *)

\* registerTransaction()
LEMMA RegisterStep ==
    ASSUME IInv, NEW t \in Tx, Register(t)
    PROVE  IInv'
<1> USE DEF Register, blockVars
<1>1. ShapeInv'
  <2>1. kind' \in [Tx -> Kind \cup {"new"}]
    BY FormationAssumption DEF IInv, ShapeInv, PoolTypes
  <2>2. IsFiniteSet(pool')
    BY FS_AddElement DEF IInv, ShapeInv
  <2>3. PoolTypes'
    BY <2>1 DEF IInv, ShapeInv, PoolTypes
  <2> QED  BY <2>2, <2>3 DEF IInv, ShapeInv, StageTypes, BlockTypes
<1>2. FlowInv'
  BY DEF IInv, FlowInv
<1>3. ReceiptInv'
  BY DEF IInv, ReceiptInv
<1>4. BatchInv'
  BY DEF IInv, BatchInv, Unprocessed
<1>5. TriggerInv'
  BY DEF IInv, TriggerInv, Ahead
<1> QED  BY <1>1, <1>2, <1>3, <1>4, <1>5 DEF IInv

\* cleanMemPool()
LEMMA CleanMemPoolStep ==
    ASSUME IInv, NEW t \in Tx, CleanMemPool(t)
    PROVE  IInv'
<1> USE DEF CleanMemPool, Forget, blockVars
<1>1. ShapeInv'
  <2>1. IsFiniteSet(pool')
    BY FS_RemoveElement DEF IInv, ShapeInv
  <2>2. PoolTypes'
    BY DEF IInv, ShapeInv, PoolTypes
  <2> QED  BY <2>1, <2>2 DEF IInv, ShapeInv, StageTypes, BlockTypes
<1>2. FlowInv'
  BY DEF IInv, FlowInv
<1>3. ReceiptInv'
  BY DEF IInv, ReceiptInv, InFlow
<1>4. BatchInv'
  BY DEF IInv, BatchInv, InFlow
<1>5. TriggerInv'
  BY DEF IInv, TriggerInv, Ahead
<1> QED  BY <1>1, <1>2, <1>3, <1>4, <1>5 DEF IInv

\* The stop request
LEMMA RequestStopStep ==
    ASSUME IInv, RequestStop
    PROVE  IInv'
<1> USE DEF RequestStop, blockVars, poolVars
<1>1. ShapeInv'
  BY DEF IInv, ShapeInv, PoolTypes, StageTypes, BlockTypes
<1>2. FlowInv' /\ ReceiptInv'
  BY DEF IInv, FlowInv, ReceiptInv
<1>3. BatchInv'
  BY DEF IInv, BatchInv, Unprocessed
<1>4. TriggerInv'
  BY DEF IInv, TriggerInv, Ahead
<1> QED  BY <1>1, <1>2, <1>3, <1>4 DEF IInv

\* The first part of formBlock()
LEMMA StartBlockStep ==
    ASSUME IInv, StartBlock
    PROVE  IInv'
<1> USE DEF StartBlock, blockVars, poolVars
<1>1. /\ batch' \in Seq(Tx)
      /\ \A k \in 1 .. Len(batch') : batch'[k] \in Unprocessed
      /\ \A j, k \in 1 .. Len(batch') : j # k => batch'[j] # batch'[k]
  <2>1. Unprocessed \in SUBSET Tx /\ IsFiniteSet(Unprocessed)
    BY FS_Subset DEF IInv, ShapeInv, PoolTypes, Unprocessed
  <2> QED  BY <2>1, OrderedBatch
<1>2. /\ flow' \in Flow /\ LevelZero(flow') /\ flow'.persps = <<ledger>> /\ flow'.db = ledger
  <2>1. flow.depth \in Nat
    BY DEF IInv, ShapeInv, Flow, FlowType
  <2>2. ledger \in Ledger /\ NoObject \in Object
    BY DEF IInv, ShapeInv, PoolTypes, Object
  <2> QED  BY <2>1, <2>2, StartedLevelZero DEF Flow
<1>3. ShapeInv'
  <2>1. PoolTypes' /\ BlockTypes'
    BY DEF IInv, ShapeInv, PoolTypes, BlockTypes
  <2>2. StageTypes'
    BY <1>1 DEF IInv, ShapeInv, StageTypes, Stage
  <2> QED  BY <1>2, <2>1, <2>2 DEF IInv, ShapeInv
<1>4. FlowInv'
  BY <1>2 DEF FlowInv, InFlow
<1>5. ReceiptInv'
  BY DEF ReceiptInv, InFlow
<1>6. BatchInv'
  <2>1. \A k \in 1 .. Len(batch') : batch'[k] \in Unprocessed'
    BY <1>1 DEF Unprocessed
  <2> QED  BY <1>1, <2>1 DEF BatchInv, InFlow
<1>7. TriggerInv'
  BY <1>2 DEF IInv, TriggerInv, Ahead, Behind, InFlow, ShapeInv, PoolTypes, Ledger
<1> QED  BY <1>3, <1>4, <1>5, <1>6, <1>7 DEF IInv

\* processTransaction()
LEMMA ProcessTransactionStep ==
    ASSUME IInv, ProcessTransaction
    PROVE  IInv'
<1> DEFINE t == batch[idx]
           r == Verdict(flow.db, t, kind[t])
<1>0. /\ pc = "loop" /\ LoopGoesOn /\ receipt' = r
      /\ flow' = Executed(SelectObject(flow, t), r)
      /\ trigger' = IF RequiresTrigger(flow.db, r) THEN trigger \cup {t} ELSE trigger
      /\ pc' = IF r.include /\ r.confirmed THEN "fees" ELSE "append"
      /\ UNCHANGED <<pool, kind, processed, invalid, deletion, ledger, chain, batch, idx,
                     block, used, fees, count, succeeded, mark, retry, formed, attempts,
                     stopping, aborted>>
  BY DEF ProcessTransaction, blockVars
<1>1. /\ idx \in 1 .. Len(batch) /\ t \in Tx /\ t \in pool /\ t \in Unprocessed
      /\ t = batch[idx]
  <2>1. batch \in Seq(Tx) /\ idx \in Nat /\ idx >= 1 /\ idx <= Len(batch)
    BY <1>0 DEF IInv, ShapeInv, StageTypes, BatchInv, LoopGoesOn
  <2>2. \A k \in idx .. Len(batch) : batch[k] \in Unprocessed
    BY <1>0 DEF IInv, BatchInv
  <2>3. idx \in 1 .. Len(batch) /\ idx \in idx .. Len(batch)
    BY <2>1
  <2> QED  BY <2>1, <2>2, <2>3 DEF Unprocessed
<1> HIDE DEF t
<1>2. /\ r \in Receipt /\ r.tx = t
      /\ r.result = "invalidNonce" => flow.db.nonce[issuerOf[t]] + 1 # nonceOf[t]
  BY <1>1, VerdictFacts
<1> HIDE DEF r
<1>3. flow \in Flow /\ LevelZero(flow) /\ flow.persps[1] = ledger
  BY <1>0 DEF IInv, ShapeInv, FlowInv
<1>4. /\ flow' \in Flow /\ Stacked(flow', 1) /\ flow'.persps[1] = ledger
      /\ flow'.persps[2] = flow.db /\ flow'.obj = t /\ flow'.db = AfterCode(flow.db, r)
  BY <1>0, <1>1, <1>2, <1>3, ExecutedFlow
<1>5. pc' \in {"fees", "append"} /\ (pc' = "fees" => r.include)
  BY <1>0
<1>6. ShapeInv'
  <2>1. PoolTypes'
    BY <1>0, <1>1 DEF IInv, ShapeInv, PoolTypes
  <2>2. StageTypes'
    BY <1>0, <1>2, <1>5 DEF IInv, ShapeInv, StageTypes, Stage
  <2>3. BlockTypes'
    BY <1>0 DEF IInv, ShapeInv, BlockTypes
  <2> QED  BY <1>0, <1>4, <1>5, <2>1, <2>2, <2>3 DEF IInv, ShapeInv
<1>7. FlowInv'
  BY <1>0, <1>2, <1>4, <1>5 DEF FlowInv, InFlow
<1>8. ReceiptInv'
  BY <1>0, <1>1, <1>2, <1>5 DEF ReceiptInv
<1>9. BatchInv'
  <2>1. \A j, k \in 1 .. Len(batch) : j # k => batch[j] # batch[k]
    BY <1>0 DEF IInv, BatchInv
  <2>2. ASSUME NEW k \in idx + 1 .. Len(batch)
        PROVE  batch[k] \in Unprocessed'
    <3>1. k \in idx .. Len(batch) /\ k \in 1 .. Len(batch) /\ k # idx
      BY <1>1
    <3>2. batch[k] \in Unprocessed /\ batch[k] # t
      BY <1>0, <1>1, <2>1, <3>1 DEF IInv, BatchInv
    <3> QED  BY <1>0, <3>2 DEF Unprocessed
  <2> QED  BY <1>0, <1>5, <2>1, <2>2 DEF IInv, BatchInv
<1>10. TriggerInv'
  <2>1. flow.db \in Ledger /\ ledger \in Ledger /\ flow'.db.nonce = flow.db.nonce
    BY <1>2, <1>3, <1>4, AfterCodeFacts, FlowFields DEF IInv, ShapeInv, PoolTypes
  <2>2. Ahead(ledger) /\ Ahead(flow.db) /\ Behind(ledger, flow.db)
    BY <1>0 DEF IInv, TriggerInv
  <2>3. ASSUME NEW u \in trigger'
        PROVE  nonceOf[u] > flow.db.nonce[issuerOf[u]] + 1 /\ nonceOf[u] > ledger.nonce[issuerOf[u]] + 1
    <3>0. u \in Tx /\ issuerOf[u] \in Issuer /\ nonceOf[u] \in Nat
      BY <1>6, FormationAssumption DEF ShapeInv, PoolTypes
    <3>1. CASE u \in trigger
      BY <2>2, <3>1 DEF Ahead
    <3>2. CASE u = t /\ RequiresTrigger(flow.db, r)
      <4>1. /\ nonceOf[t] > flow.db.nonce[issuerOf[t]]
            /\ flow.db.nonce[issuerOf[t]] + 1 # nonceOf[t]
        BY <1>2, <3>2 DEF RequiresTrigger
      <4>2. /\ flow.db.nonce[issuerOf[t]] \in Nat /\ ledger.nonce[issuerOf[t]] \in Nat
            /\ ledger.nonce[issuerOf[t]] <= flow.db.nonce[issuerOf[t]]
        BY <2>1, <2>2, <3>0, <3>2 DEF Ledger, Behind
      <4> QED  BY <3>0, <3>2, <4>1, <4>2
    <3> QED  BY <1>0, <3>1, <3>2
  <2>4. Ahead(ledger)' /\ Ahead(flow.db)' /\ Ahead(flow.persps[2])'
    BY <1>0, <1>4, <2>1, <2>3 DEF Ahead
  <2>5. Behind(ledger, flow.db)' /\ Behind(ledger, flow.persps[2])'
    BY <1>0, <1>4, <2>1, <2>2 DEF Behind
  <2> QED  BY <1>5, <2>4, <2>5 DEF TriggerInv
<1> QED  BY <1>6, <1>7, <1>8, <1>9, <1>10 DEF IInv

\* The rest of the batch does not contain the transaction being processed.
LEMMA RestApart ==
    ASSUME IInv, pc \in InFlow
    PROVE  \A k \in idx + 1 .. Len(batch) : batch[k] # receipt.tx /\ batch[k] \in Unprocessed
<1> SUFFICES ASSUME NEW k \in idx + 1 .. Len(batch)
             PROVE  batch[k] # receipt.tx /\ batch[k] \in Unprocessed
  OBVIOUS
<1>1. idx \in 1 .. Len(batch) /\ receipt.tx = batch[idx] /\ batch[k] \in Unprocessed
  BY DEF IInv, ReceiptInv, BatchInv
<1>2. k \in 1 .. Len(batch) /\ k # idx
  BY <1>1
<1> QED  BY <1>1, <1>2 DEF IInv, BatchInv

\* What is known in the stages of one transaction.
LEMMA InFlowFacts ==
    ASSUME IInv, pc \in InFlow
    PROVE  /\ flow \in Flow /\ flow.db \in Ledger /\ ledger \in Ledger
           /\ receipt \in Receipt /\ receipt.tx \in Tx /\ receipt.tx \in pool
           /\ issuerOf[receipt.tx] \in Issuer
           /\ pc # "final" => Ahead(flow.db) /\ Behind(ledger, flow.db)
           /\ Ahead(ledger)
<1>1. flow \in Flow /\ flow.db \in Ledger /\ ledger \in Ledger
  BY FlowFields DEF IInv, ShapeInv, PoolTypes
<1>2. receipt \in Receipt /\ receipt.tx \in Tx /\ receipt.tx \in pool
  BY DEF IInv, ShapeInv, PoolTypes, ReceiptInv
<1>3. issuerOf[receipt.tx] \in Issuer
  BY <1>2, FormationAssumption
<1>4. pc # "final" => Ahead(flow.db) /\ Behind(ledger, flow.db)
  BY DEF IInv, TriggerInv, InFlow
<1> QED  BY <1>1, <1>2, <1>3, <1>4 DEF IInv, TriggerInv

\* In the fees stage the state before the transaction is one copy down.
LEMMA FeesFacts ==
    ASSUME IInv, pc = "fees"
    PROVE  /\ Stacked(flow, 1) /\ flow.persps[1] = ledger /\ flow.obj = receipt.tx
           /\ flow.persps[2] \in Ledger
           /\ Ahead(flow.persps[2]) /\ Behind(ledger, flow.persps[2])
<1>1. Stacked(flow, 1)
  BY DEF IInv, FlowInv
<1>2. ~Emptied(flow)
  BY <1>1 DEF Stacked, Emptied
<1>3. flow.persps[1] = ledger /\ flow.obj = receipt.tx
  BY <1>2 DEF IInv, FlowInv, InFlow
<1>4. flow.persps[2] \in Ledger
  BY <1>1, FlowFields DEF IInv, ShapeInv, Stacked, Aligned
<1>5. Ahead(flow.persps[2]) /\ Behind(ledger, flow.persps[2])
  BY <1>1 DEF IInv, TriggerInv, InFlow
<1> QED  BY <1>1, <1>3, <1>4, <1>5

\* A stack with copies is not empty.
LEMMA NotEmptied ==
    ASSUME NEW f, NEW n \in Nat, Stacked(f, n)
    PROVE  ~Emptied(f)
  BY DEF Stacked, Emptied

\* Fees, nonce and receipt
LEMMA ImposeFeesStep ==
    ASSUME IInv, NEW hit, ImposeFees(hit)
    PROVE  IInv'
<1> DEFINE i == issuerOf[receipt.tx]
           freed == Untriggered(i)
           base == IF receipt.result = "valid" THEN flow.db ELSE flow.persps[2]
<1>0. /\ pc = "fees" /\ pc' = "append"
      /\ flow' = PopDB([BeforeFees(hit) EXCEPT !.db = Charged(@, receipt)], 1)
      /\ count' = count + 1 /\ succeeded' = succeeded \cup {i}
      /\ invalid' = IF receipt.result # "valid" /\ mark THEN invalid \cup {receipt.tx} ELSE invalid
      /\ processed' = processed \ freed /\ trigger' = trigger \ freed
      /\ aborted' = (receipt.result # "valid" /\ ~StepBackAsserts(flow, 1))
      /\ UNCHANGED <<pool, kind, deletion, ledger, chain, batch, idx, receipt, block,
                     used, fees, mark, retry, formed, attempts, stopping>>
  BY DEF ImposeFees
<1>1. pc \in InFlow /\ pc' \in InFlow
  BY <1>0 DEF InFlow
<1>2. /\ flow \in Flow /\ flow.db \in Ledger /\ ledger \in Ledger
      /\ receipt \in Receipt /\ receipt.tx \in Tx /\ receipt.tx \in pool /\ i \in Issuer
      /\ Ahead(flow.db) /\ Behind(ledger, flow.db) /\ Ahead(ledger)
  BY <1>0, <1>1, InFlowFacts
<1>3. /\ Stacked(flow, 1) /\ flow.persps[1] = ledger /\ flow.obj = receipt.tx
      /\ flow.persps[2] \in Ledger
      /\ Ahead(flow.persps[2]) /\ Behind(ledger, flow.persps[2])
  BY <1>0, FeesFacts
<1>4. /\ flow' \in Flow /\ flow'.persps[1] = flow.persps[1] /\ flow'.obj = flow.obj
      /\ receipt.result = "valid" =>
           /\ Stacked(flow', 1) /\ flow'.persps[2] = flow.persps[2]
           /\ flow'.db = Charged(flow.db, receipt)
      /\ receipt.result # "valid" =>
           Stacked(flow', 0) /\ flow'.db = Charged(flow.persps[2], receipt)
  BY <1>0, <1>2, <1>3, ChargedFlow
<1>5. ShapeInv'
  <2>1. PoolTypes'
    BY <1>0, <1>2 DEF IInv, ShapeInv, PoolTypes
  <2>2. StageTypes'
    BY <1>0, <1>2 DEF IInv, ShapeInv, StageTypes, Stage
  <2>3. BlockTypes'
    BY <1>0, <1>2 DEF IInv, ShapeInv, BlockTypes
  <2> QED  BY <1>0, <1>4, <2>1, <2>2, <2>3 DEF IInv, ShapeInv
<1>6. FlowInv'
  <2>1. receipt.include
    BY <1>0 DEF IInv, ReceiptInv
  <2>2. Stacked(flow', 1) \/ Stacked(flow', 0)
    BY <1>4
  <2> QED  BY <1>0, <1>3, <1>4, <2>1, <2>2 DEF FlowInv, InFlow
<1>7. ReceiptInv'
  BY <1>0, <1>1 DEF IInv, ReceiptInv
<1>8. BatchInv'
  <2>1. \A k \in idx + 1 .. Len(batch) : batch[k] \in Unprocessed'
    BY <1>0, <1>1, RestApart DEF Unprocessed, Untriggered
  <2> QED  BY <1>0, <1>1, <2>1 DEF IInv, BatchInv
<1>9. TriggerInv'
  <2>1. base \in Ledger /\ Ahead(base) /\ Behind(ledger, base) /\ flow'.db = Charged(base, receipt)
    BY <1>2, <1>3, <1>4
  <2> HIDE DEF base
  <2>2. \A j \in Issuer :
            flow'.db.nonce[j] = IF j = i THEN base.nonce[j] + 1 ELSE base.nonce[j]
    <3>1. flow'.db.nonce = IncNonce(base, receipt.tx).nonce
      BY <1>2, <2>1, ChargedFacts
    <3> QED  BY <1>2, <2>1, <3>1, IncNonceFacts
  <2>3. ASSUME NEW u \in trigger' PROVE nonceOf[u] > flow'.db.nonce[issuerOf[u]] + 1
    <3>1. u \in trigger /\ u \in Tx /\ issuerOf[u] # i /\ issuerOf[u] \in Issuer
      BY <1>0, FormationAssumption DEF Untriggered, IInv, ShapeInv, PoolTypes
    <3> QED  BY <2>1, <2>2, <3>1 DEF Ahead
  <2>4. Ahead(flow.db)'
    BY <2>3 DEF Ahead
  <2>5. Behind(ledger, flow.db)'
    <3>1. \A j \in Issuer : ledger.nonce[j] \in Nat /\ base.nonce[j] \in Nat
      BY <1>2, <2>1 DEF Ledger
    <3> QED  BY <1>0, <2>1, <2>2, <3>1 DEF Behind
  <2>6. Ahead(ledger)'
    BY <1>0, <1>2 DEF Ahead
  <2>7. Stacked(flow', 1) \/ Stacked(flow', 2) =>
            Ahead(flow.persps[2])' /\ Behind(ledger, flow.persps[2])'
    <3>1. ~(Stacked(flow', 0) /\ (Stacked(flow', 1) \/ Stacked(flow', 2)))
      BY DEF Stacked
    <3>2. CASE receipt.result = "valid"
      BY <1>0, <1>3, <1>4, <3>2 DEF Ahead, Behind
    <3> QED  BY <1>4, <3>1, <3>2
  <2> QED  BY <1>0, <2>4, <2>5, <2>6, <2>7 DEF TriggerInv
<1> QED  BY <1>5, <1>6, <1>7, <1>8, <1>9 DEF IInv

\* The fees cannot be deducted
LEMMA FeesFailStep ==
    ASSUME IInv, NEW hit, FeesFail(hit)
    PROVE  IInv'
<1> DEFINE b == BeforeFees(hit)
           d == IncNonce(b.db, receipt.tx)
<1>0. /\ pc = "fees" /\ pc' = "final"
      /\ flow' = [b EXCEPT !.db = IncNonce(@, receipt.tx)]
      /\ receipt' = [receipt EXCEPT !.result = "invalidBalance", !.include = FALSE]
      /\ processed' = processed \cup {receipt.tx}
      /\ invalid' = invalid \cup {receipt.tx}
      /\ UNCHANGED <<pool, kind, trigger, deletion, ledger, chain, batch, idx, block, used,
                     fees, count, succeeded, mark, retry, formed, attempts, stopping, aborted>>
  BY DEF FeesFail, blockVars
<1>1. pc \in InFlow /\ pc' \in InFlow
  BY <1>0 DEF InFlow
<1>2. /\ flow \in Flow /\ ledger \in Ledger
      /\ receipt \in Receipt /\ receipt.tx \in Tx /\ receipt.tx \in pool
      /\ Ahead(ledger)
  BY <1>0, <1>1, InFlowFacts
<1>3. /\ Stacked(flow, 1) /\ flow.persps[1] = ledger /\ flow.obj = receipt.tx
      /\ Ahead(flow.persps[2]) /\ Behind(ledger, flow.persps[2])
  BY <1>0, FeesFacts
<1>4. /\ b \in Flow /\ b.persps[1] = ledger /\ b.persps[2] = flow.persps[2]
      /\ b.obj = receipt.tx /\ (Stacked(b, 1) \/ Stacked(b, 2))
  BY <1>2, <1>3, BeforeFeesFlow
<1> HIDE DEF b
<1>5. d \in Ledger
  <2>1. b.db \in Ledger
    BY <1>4, FlowFields
  <2> QED  BY <1>2, <2>1, IncNonceFacts
<1>6. flow' = OnState(b, d)
  BY <1>0 DEF OnState
<1> HIDE DEF d
<1>7. /\ flow' \in Flow /\ flow'.persps[1] = ledger /\ flow'.persps[2] = flow.persps[2]
      /\ flow'.obj = receipt.tx /\ (Stacked(flow', 1) \/ Stacked(flow', 2))
  <2>1. /\ OnState(b, d) \in Flow /\ OnState(b, d).persps = b.persps /\ OnState(b, d).obj = b.obj
        /\ \A n \in Nat : Stacked(b, n) => Stacked(OnState(b, d), n)
    BY <1>4, <1>5, OnStateStacked DEF Flow
  <2> QED  BY <1>4, <1>6, <2>1
<1>8. receipt' \in Receipt /\ receipt'.tx = receipt.tx /\ receipt'.include = FALSE
  BY <1>0, <1>2 DEF Receipt, Result
<1>9. ShapeInv'
  <2>1. PoolTypes'
    BY <1>0, <1>2 DEF IInv, ShapeInv, PoolTypes
  <2>2. StageTypes'
    BY <1>0, <1>8 DEF IInv, ShapeInv, StageTypes, Stage
  <2>3. BlockTypes'
    BY <1>0 DEF IInv, ShapeInv, BlockTypes
  <2> QED  BY <1>0, <1>7, <2>1, <2>2, <2>3 DEF IInv, ShapeInv
<1>10. FlowInv'
  BY <1>0, <1>7, <1>8 DEF FlowInv, InFlow
<1>11. ReceiptInv'
  BY <1>0, <1>1, <1>8 DEF IInv, ReceiptInv
<1>12. BatchInv'
  <2>1. \A k \in idx + 1 .. Len(batch) : batch[k] \in Unprocessed'
    BY <1>0, <1>1, RestApart DEF Unprocessed
  <2> QED  BY <1>0, <1>1, <2>1 DEF IInv, BatchInv
<1>13. TriggerInv'
  <2>1. Ahead(ledger)' /\ Ahead(flow.persps[2])'
    BY <1>0, <1>2, <1>3, <1>7 DEF Ahead
  <2>2. Behind(ledger, flow.persps[2])'
    BY <1>0, <1>3, <1>7 DEF Behind
  <2> QED  BY <1>0, <1>8, <2>1, <2>2 DEF TriggerInv
<1> QED  BY <1>9, <1>10, <1>11, <1>12, <1>13 DEF IInv

\* The nonce cannot be stored
LEMMA NonceFailsStep ==
    ASSUME IInv, NEW hit, NonceFails(hit)
    PROVE  IInv'
<1>0. /\ pc = "fees" /\ pc' = "final"
      /\ flow' = BeforeFees(hit)
      /\ receipt' = [receipt EXCEPT !.include = FALSE]
      /\ UNCHANGED <<pool, kind, processed, trigger, invalid, deletion, ledger, chain, batch,
                     idx, block, used, fees, count, succeeded, mark, retry, formed, attempts,
                     stopping, aborted>>
  BY DEF NonceFails, blockVars, poolVars
<1>1. pc \in InFlow /\ pc' \in InFlow
  BY <1>0 DEF InFlow
<1>2. /\ flow \in Flow /\ ledger \in Ledger
      /\ receipt \in Receipt /\ receipt.tx \in Tx /\ receipt.tx \in pool
      /\ Ahead(ledger)
  BY <1>0, <1>1, InFlowFacts
<1>3. /\ Stacked(flow, 1) /\ flow.persps[1] = ledger /\ flow.obj = receipt.tx
      /\ Ahead(flow.persps[2]) /\ Behind(ledger, flow.persps[2])
  BY <1>0, FeesFacts
<1>4. /\ flow' \in Flow /\ flow'.persps[1] = ledger /\ flow'.persps[2] = flow.persps[2]
      /\ flow'.obj = receipt.tx /\ (Stacked(flow', 1) \/ Stacked(flow', 2))
  BY <1>0, <1>2, <1>3, BeforeFeesFlow
<1>5. receipt' \in Receipt /\ receipt'.tx = receipt.tx /\ receipt'.include = FALSE
  BY <1>0, <1>2 DEF Receipt
<1>6. ShapeInv'
  <2>1. PoolTypes' /\ BlockTypes'
    BY <1>0 DEF IInv, ShapeInv, PoolTypes, BlockTypes
  <2>2. StageTypes'
    BY <1>0, <1>5 DEF IInv, ShapeInv, StageTypes, Stage
  <2> QED  BY <1>0, <1>4, <2>1, <2>2 DEF IInv, ShapeInv
<1>7. FlowInv'
  BY <1>0, <1>4, <1>5 DEF FlowInv, InFlow
<1>8. ReceiptInv'
  BY <1>0, <1>1, <1>5 DEF IInv, ReceiptInv
<1>9. BatchInv'
  BY <1>0, <1>1 DEF IInv, BatchInv, Unprocessed
<1>10. TriggerInv'
  <2>1. Ahead(ledger)' /\ Ahead(flow.persps[2])'
    BY <1>0, <1>2, <1>3, <1>4 DEF Ahead
  <2>2. Behind(ledger, flow.persps[2])'
    BY <1>0, <1>3, <1>4 DEF Behind
  <2> QED  BY <1>0, <1>5, <2>1, <2>2 DEF TriggerInv
<1> QED  BY <1>6, <1>7, <1>8, <1>9, <1>10 DEF IInv

\* The transaction enters the proposal, or not
LEMMA AppendToBlockStep ==
    ASSUME IInv, AppendToBlock
    PROVE  IInv'
<1>0. /\ pc = "append" /\ pc' = "final"
      /\ processed' = processed \cup {receipt.tx}
      /\ deletion' = deletion \/ deletion' = deletion \cup {receipt.tx}
      /\ IF receipt.include
         THEN /\ block' = Append(block, [tx |-> receipt.tx, result |-> receipt.result])
              /\ used' = used + packedSizeOf[receipt.tx]
              /\ fees' = fees + FeesOf(receipt)
         ELSE UNCHANGED <<block, used, fees>>
      /\ UNCHANGED <<pool, kind, trigger, invalid, ledger, chain, flow, batch, idx, receipt,
                     count, succeeded, mark, retry, formed, attempts, stopping, aborted>>
  BY DEF AppendToBlock
<1>1. pc \in InFlow /\ pc' \in InFlow
  BY <1>0 DEF InFlow
<1>2. receipt \in Receipt /\ receipt.tx \in Tx /\ receipt.tx \in pool
  BY <1>1, InFlowFacts
<1>3. ShapeInv'
  <2>1. PoolTypes'
    BY <1>0, <1>2 DEF IInv, ShapeInv, PoolTypes
  <2>2. StageTypes'
    BY <1>0 DEF IInv, ShapeInv, StageTypes, Stage
  <2>3. block' \in Seq(Entry)
    <3>1. [tx |-> receipt.tx, result |-> receipt.result] \in Entry
      BY <1>2 DEF Receipt, Entry
    <3>2. block \in Seq(Entry)
      BY DEF IInv, ShapeInv, BlockTypes
    <3> QED  BY <1>0, <3>1, <3>2
  <2>4. used' \in Nat /\ fees' \in Nat
    <3>1. packedSizeOf[receipt.tx] \in Nat /\ FeesOf(receipt) \in Nat
      BY <1>2, FormationAssumption DEF FeesOf
    <3>2. used \in Nat /\ fees \in Nat
      BY DEF IInv, ShapeInv, BlockTypes
    <3> QED  BY <1>0, <3>1, <3>2
  <2>5. BlockTypes'
    BY <1>0, <2>3, <2>4 DEF IInv, ShapeInv, BlockTypes
  <2> QED  BY <1>0, <2>1, <2>2, <2>5 DEF IInv, ShapeInv
<1>4. FlowInv'
  BY <1>0 DEF IInv, FlowInv, InFlow
<1>5. ReceiptInv'
  BY <1>0, <1>1 DEF IInv, ReceiptInv
<1>6. BatchInv'
  <2>1. \A k \in idx + 1 .. Len(batch) : batch[k] \in Unprocessed'
    BY <1>0, <1>1, RestApart DEF Unprocessed
  <2> QED  BY <1>0, <1>1, <2>1 DEF IInv, BatchInv
<1>7. TriggerInv'
  BY <1>0, <1>1 DEF IInv, TriggerInv, Ahead
<1> QED  BY <1>3, <1>4, <1>5, <1>6, <1>7 DEF IInv

\* The limit of the block
LEMMA LimitReachedStep ==
    ASSUME IInv, NEW hit, LimitReached(hit)
    PROVE  IInv'
<1>0. /\ pc = "append" /\ pc' = "final" /\ receipt.include
      /\ flow' = StepBack(flow, 1, hit)
      /\ processed' = processed \ {receipt.tx} /\ trigger' = trigger \ {receipt.tx}
      /\ invalid' = invalid \ {receipt.tx} /\ deletion' = deletion \ {receipt.tx}
      /\ count' = IF count > 0 THEN count - 1 ELSE 0
      /\ mark' = FALSE
      /\ aborted' = ~StepBackAsserts(flow, 1)
      /\ UNCHANGED <<pool, kind, ledger, chain, batch, idx, receipt, block, used, fees,
                     succeeded, retry, formed, attempts, stopping>>
  BY DEF LimitReached
<1>1. pc \in InFlow /\ pc' \in InFlow
  BY <1>0 DEF InFlow
<1>2. flow \in Flow /\ ledger \in Ledger /\ Ahead(ledger)
  BY <1>1, InFlowFacts
<1>3. /\ Stacked(flow, 1) \/ Stacked(flow, 0)
      /\ flow.persps[1] = ledger /\ flow.obj = receipt.tx
  <2>1. Stacked(flow, 1) \/ Stacked(flow, 0)
    BY <1>0 DEF IInv, FlowInv
  <2>2. ~Emptied(flow)
    BY <2>1, NotEmptied
  <2> QED  BY <1>1, <2>1, <2>2 DEF IInv, FlowInv
<1>4. /\ flow' \in Flow
      /\ \/ Emptied(flow') /\ flow'.db = ledger
         \/ /\ Stacked(flow', 0) /\ flow'.persps[1] = ledger /\ flow'.obj = receipt.tx
            /\ Stacked(flow, 1) /\ flow'.db = flow.persps[2]
  <2>1. CASE Stacked(flow, 0)
    BY <1>0, <1>2, <1>3, <2>1, StepBackEmptied DEF Flow
  <2>2. CASE Stacked(flow, 1)
    <3>1. 1 \in 1 .. 1 /\ 1 - 1 = 0 /\ 1 - 1 + 2 = 2 /\ 1 \in 1 .. 1 - 1 + 1
      OBVIOUS
    <3>2. /\ flow' \in Flow /\ Stacked(flow', 1 - 1)
          /\ \A k \in 1 .. 1 - 1 + 1 : flow'.persps[k] = flow.persps[k]
          /\ flow'.db = flow.persps[1 - 1 + 2] /\ flow'.obj = flow.obj
      BY <1>0, <1>2, <2>2, <3>1, StepBackStacked DEF Flow
    <3> QED  BY <1>3, <2>2, <3>1, <3>2
  <2> QED  BY <1>3, <2>1, <2>2
<1>5. ShapeInv'
  <2>1. PoolTypes'
    BY <1>0 DEF IInv, ShapeInv, PoolTypes
  <2>2. StageTypes'
    BY <1>0 DEF IInv, ShapeInv, StageTypes, Stage
  <2>3. BlockTypes'
    <3>1. count' \in Nat
      BY <1>0 DEF IInv, ShapeInv, BlockTypes
    <3>2. {mark', stopping', aborted'} \subseteq BOOLEAN
      BY <1>0, Zenon DEF IInv, ShapeInv, BlockTypes
    <3> QED  BY <1>0, <3>1, <3>2 DEF IInv, ShapeInv, BlockTypes
  <2> QED  BY <1>0, <1>4, <2>1, <2>2, <2>3 DEF IInv, ShapeInv
<1>6. FlowInv'
  BY <1>0, <1>4 DEF FlowInv, InFlow
<1>7. ReceiptInv'
  BY <1>0, <1>1 DEF IInv, ReceiptInv
<1>8. BatchInv'
  <2>1. \A k \in idx + 1 .. Len(batch) : batch[k] \in Unprocessed'
    BY <1>0, <1>1, RestApart DEF Unprocessed
  <2> QED  BY <1>0, <1>1, <2>1 DEF IInv, BatchInv
<1>9. TriggerInv'
  <2>1. Ahead(ledger)'
    BY <1>0, <1>2 DEF Ahead
  <2>2. Ahead(flow.db)' /\ Behind(ledger, flow.db)'
    <3>1. CASE flow'.db = ledger
      BY <1>0, <1>2, <3>1 DEF Ahead, Behind, Ledger
    <3>2. CASE Stacked(flow, 1) /\ flow'.db = flow.persps[2]
      <4>1. Ahead(flow.persps[2]) /\ Behind(ledger, flow.persps[2])
        BY <1>1, <3>2 DEF IInv, TriggerInv
      <4> QED  BY <1>0, <3>2, <4>1 DEF Ahead, Behind
    <3> QED  BY <1>4, <3>1, <3>2
  <2>3. ~(Stacked(flow', 1) \/ Stacked(flow', 2))
    BY <1>4 DEF Stacked, Emptied
  <2> QED  BY <1>0, <2>1, <2>2, <2>3 DEF TriggerInv
<1> QED  BY <1>5, <1>6, <1>7, <1>8, <1>9 DEF IInv

\* The finalizer of an iteration
LEMMA FinalizeTxStep ==
    ASSUME IInv, NEW hit, FinalizeTx(hit)
    PROVE  IInv'
<1>0. /\ pc = "final"
      /\ flow' = Finalized(flow, receipt, hit)
      /\ idx' = idx + 1
      /\ pc' = IF mark THEN "loop" ELSE "check"
      /\ aborted' = ~TopRunAsserts(flow)
      /\ UNCHANGED <<pool, kind, processed, trigger, invalid, deletion, ledger, chain, batch,
                     receipt, block, used, fees, count, succeeded, mark, retry, formed,
                     attempts, stopping>>
  BY DEF FinalizeTx, blockVars, poolVars
<1>1. pc \in InFlow /\ pc' \in {"loop", "check"} /\ (pc' = "loop" => mark)
  BY <1>0 DEF InFlow
<1>2. flow \in Flow /\ ledger \in Ledger /\ Ahead(ledger)
  BY <1>1, InFlowFacts
<1>3. /\ \/ Stacked(flow, 1) \/ Stacked(flow, 2)
         \/ receipt.include /\ (Stacked(flow, 0) \/ Emptied(flow))
      /\ ~Emptied(flow) => flow.persps[1] = ledger
  BY <1>0, <1>1 DEF IInv, FlowInv
<1>4. ~Stacked(flow, 0) /\ ~Stacked(flow, 1) /\ ~Stacked(flow, 2) => Emptied(flow)
  BY <1>3
<1>5. /\ flow' \in Flow
      /\ \/ LevelZero(flow') /\ flow'.persps[1] = ledger
         \/ Emptied(flow') /\ Emptied(flow)
      /\ \/ receipt.include /\ flow'.db = flow.db
         \/ (Stacked(flow, 1) \/ Stacked(flow, 2)) /\ flow'.db = flow.persps[2]
  <2>1. CASE receipt.include
    <3>1. /\ \A n \in Nat : Stacked(flow, n) =>
               flow' \in Flow /\ LevelZero(flow') /\ flow'.persps[1] = flow.persps[1]
               /\ flow'.db = flow.db
          /\ Emptied(flow) => flow' \in Flow /\ Emptied(flow') /\ flow'.db = flow.db
      BY <1>0, <1>2, <2>1, FinalizedIncluded
    <3>2. ASSUME NEW n \in Nat, Stacked(flow, n)
          PROVE  flow' \in Flow /\ LevelZero(flow') /\ flow'.persps[1] = ledger /\ flow'.db = flow.db
      BY <1>3, <3>1, <3>2, NotEmptied
    <3>3. 0 \in Nat /\ 1 \in Nat /\ 2 \in Nat
      OBVIOUS
    <3> QED  BY <1>3, <2>1, <3>1, <3>2, <3>3
  <2>2. CASE ~receipt.include
    <3>1. ASSUME NEW n \in Nat \ {0}, Stacked(flow, n)
          PROVE  /\ flow' \in Flow /\ LevelZero(flow') /\ flow'.persps[1] = ledger
                 /\ flow'.db = flow.persps[2]
      <4>1. ~Emptied(flow)
        BY <3>1, NotEmptied
      <4> QED  BY <1>0, <1>2, <1>3, <2>2, <3>1, <4>1, FinalizedExcluded
    <3>2. 1 \in Nat \ {0} /\ 2 \in Nat \ {0}
      OBVIOUS
    <3> QED  BY <1>3, <2>2, <3>1, <3>2
  <2> QED  BY <2>1, <2>2
<1>6. mark => LevelZero(flow') /\ flow'.persps[1] = ledger
  <2>1. mark => ~Emptied(flow)
    <3>1. ~(Emptied(flow) /\ (Stacked(flow, 0) \/ Stacked(flow, 1) \/ Stacked(flow, 2)))
      BY DEF Emptied, Stacked
    <3> QED  BY <1>0, <3>1 DEF IInv, FlowInv
  <2> QED  BY <1>5, <2>1
<1>7. ShapeInv'
  <2>1. PoolTypes'
    BY <1>0 DEF IInv, ShapeInv, PoolTypes
  <2>2. StageTypes'
    BY <1>0, <1>1 DEF IInv, ShapeInv, StageTypes, Stage
  <2>3. BlockTypes'
    <3>1. {mark', stopping', aborted'} \subseteq BOOLEAN
      BY <1>0, Zenon DEF IInv, ShapeInv, BlockTypes
    <3> QED  BY <1>0, <3>1 DEF IInv, ShapeInv, BlockTypes
  <2> QED  BY <1>0, <1>1, <1>5, <2>1, <2>2, <2>3 DEF IInv, ShapeInv
<1>8. FlowInv'
  BY <1>0, <1>1, <1>5, <1>6 DEF FlowInv, InFlow
<1>9. ReceiptInv'
  BY <1>1 DEF ReceiptInv, InFlow
<1>10. BatchInv'
  <2>1. Unprocessed' = Unprocessed
    BY <1>0 DEF Unprocessed
  <2>2. idx \in Nat /\ idx >= 1
    BY DEF IInv, ShapeInv, StageTypes, BatchInv
  <2> QED  BY <1>0, <1>1, <2>1, <2>2 DEF IInv, BatchInv, InFlow
<1>11. TriggerInv'
  <2>1. Ahead(flow'.db) /\ Behind(ledger, flow'.db)
    BY <1>0, <1>1, <1>5 DEF IInv, TriggerInv
  <2>2. Ahead(ledger)' /\ Ahead(flow.db)' /\ Behind(ledger, flow.db)'
    BY <1>0, <1>2, <2>1 DEF Ahead, Behind
  <2> QED  BY <1>1, <2>2 DEF TriggerInv, InFlow
<1> QED  BY <1>7, <1>8, <1>9, <1>10, <1>11 DEF IInv

\* The end of the main loop
LEMMA EndLoopStep ==
    ASSUME IInv, EndLoop \/ EndRetry
    PROVE  IInv'
<1>0. /\ pc \in {"loop", "retry"} /\ pc' = "check"
      /\ UNCHANGED <<pool, kind, processed, trigger, invalid, deletion, ledger, chain, flow,
                     batch, idx, receipt, block, used, fees, count, succeeded, mark, retry,
                     formed, attempts, stopping, aborted>>
  BY DEF EndLoop, EndRetry, blockVars, poolVars
<1>1. ShapeInv'
  BY <1>0 DEF IInv, ShapeInv, PoolTypes, StageTypes, BlockTypes, Stage
<1>2. FlowInv' /\ ReceiptInv'
  BY <1>0 DEF IInv, FlowInv, ReceiptInv, InFlow
<1>3. BatchInv'
  BY <1>0 DEF IInv, BatchInv, InFlow
<1>4. TriggerInv'
  BY <1>0 DEF IInv, TriggerInv, Ahead, InFlow
<1> QED  BY <1>1, <1>2, <1>3, <1>4 DEF IInv

\* The start of the retry loop
LEMMA StartRetryStep ==
    ASSUME IInv, StartRetry
    PROVE  IInv'
<1>0. /\ pc = "loop" /\ pc' = "retry" /\ retry' \in FeesHighestFirstNonce(Retriable)
      /\ UNCHANGED <<pool, kind, processed, trigger, invalid, deletion, ledger, chain, flow,
                     batch, idx, receipt, block, used, fees, count, succeeded, mark, formed,
                     attempts, stopping, aborted>>
  BY DEF StartRetry, blockVars, poolVars
<1>1. retry' \in Seq(Tx) /\ \A k \in 1 .. Len(retry') : retry'[k] \in pool
  <2>1. Retriable \subseteq pool
    BY DEF Retriable, Unprocessed
  <2>2. Retriable \in SUBSET Tx /\ IsFiniteSet(Retriable)
    BY <2>1, FS_Subset DEF IInv, ShapeInv, PoolTypes
  <2> QED  BY <1>0, <2>1, <2>2, OrderedBatch
<1>2. ShapeInv'
  <2>1. PoolTypes' /\ BlockTypes'
    BY <1>0 DEF IInv, ShapeInv, PoolTypes, BlockTypes
  <2>2. StageTypes'
    BY <1>0, <1>1 DEF IInv, ShapeInv, StageTypes, Stage
  <2> QED  BY <1>0, <2>1, <2>2 DEF IInv, ShapeInv
<1>3. FlowInv' /\ ReceiptInv'
  BY <1>0 DEF IInv, FlowInv, ReceiptInv, InFlow
<1>4. BatchInv'
  BY <1>0, <1>1 DEF IInv, BatchInv, InFlow
<1>5. TriggerInv'
  BY <1>0 DEF IInv, TriggerInv, Ahead, InFlow
<1> QED  BY <1>2, <1>3, <1>4, <1>5 DEF IInv

\* An iteration of the retry loop
LEMMA RetryTransactionStep ==
    ASSUME IInv, NEW hit, RetryTransaction(hit)
    PROVE  IInv'
<1> DEFINE t == Head(retry)
           r == Verdict(flow.db, t, kind[t])
           f == Executed(SelectObject(flow, t), r)
           deferred == RequiresTrigger(flow.db, r)
<1>0. /\ pc = "retry" /\ pc' = "retry" /\ retry # <<>> /\ retry' = Tail(retry)
      /\ flow' = Finalized(f, r, hit)
      /\ aborted' = ~TopRunAsserts(f)
      /\ trigger' = IF deferred THEN trigger \cup {t} ELSE trigger
      /\ processed' = processed \/ processed' = processed \cup {t}
      /\ deletion' = deletion \/ deletion' = deletion \cup {t}
      /\ IF r.include /\ r.confirmed
         THEN /\ block' = Append(block, [tx |-> t, result |-> r.result])
              /\ count' = count + 1
         ELSE UNCHANGED <<block, count>>
      /\ UNCHANGED <<pool, kind, invalid, ledger, chain, batch, idx, receipt, used, fees,
                     succeeded, mark, formed, attempts, stopping>>
  BY DEF RetryTransaction
<1>1. /\ t \in Tx /\ t \in pool /\ retry' \in Seq(Tx)
      /\ \A k \in 1 .. Len(retry') : retry'[k] \in pool
  <2>1. /\ retry \in Seq(Tx) /\ pool \subseteq Tx
        /\ \A k \in 1 .. Len(retry) : retry[k] \in pool
    BY <1>0 DEF IInv, ShapeInv, StageTypes, PoolTypes, BatchInv
  <2>2. Len(retry) \in Nat /\ Len(retry) > 0 /\ t = retry[1]
    BY <1>0, <2>1
  <2>3. /\ retry' \in Seq(Tx) /\ Len(retry') = Len(retry) - 1
        /\ \A k \in 1 .. Len(retry') : retry'[k] = retry[k + 1]
    BY <1>0, <2>1, <2>2
  <2> QED  BY <2>1, <2>2, <2>3
<1> HIDE DEF t
<1>2. /\ r \in Receipt /\ r.tx = t
      /\ r.result = "invalidNonce" => flow.db.nonce[issuerOf[t]] + 1 # nonceOf[t]
  BY <1>1, VerdictFacts
<1> HIDE DEF r
<1>3. flow \in Flow /\ LevelZero(flow) /\ flow.persps[1] = ledger /\ flow.db \in Ledger
  BY <1>0, FlowFields DEF IInv, ShapeInv, FlowInv
<1>4. /\ f \in Flow /\ Stacked(f, 1) /\ f.persps[1] = ledger
      /\ f.persps[2] = flow.db /\ f.db = AfterCode(flow.db, r)
  BY <1>1, <1>2, <1>3, ExecutedFlow
<1> HIDE DEF f
<1>5. /\ flow' \in Flow /\ LevelZero(flow') /\ flow'.persps[1] = ledger
      /\ flow'.db \in {flow.db, AfterCode(flow.db, r)}
  <2>1. 1 \in Nat /\ 1 \in Nat \ {0}
    OBVIOUS
  <2>2. CASE r.include
    BY <1>0, <1>4, <2>1, <2>2, FinalizedIncluded
  <2>3. CASE ~r.include
    BY <1>0, <1>4, <2>1, <2>3, FinalizedExcluded
  <2> QED  BY <2>2, <2>3
<1>6. ShapeInv'
  <2>1. PoolTypes'
    BY <1>0, <1>1 DEF IInv, ShapeInv, PoolTypes
  <2>2. StageTypes'
    BY <1>0, <1>1 DEF IInv, ShapeInv, StageTypes, Stage
  <2>3. BlockTypes'
    <3>1. {mark', stopping', aborted'} \subseteq BOOLEAN
      BY <1>0, Zenon DEF IInv, ShapeInv, BlockTypes
    <3>2. block' \in Seq(Entry)
      <4> DEFINE e == [tx |-> t, result |-> r.result]
      <4>1. e \in Entry
        BY <1>1, <1>2 DEF Receipt, Entry
      <4>2. block \in Seq(Entry)
        BY DEF IInv, ShapeInv, BlockTypes
      <4>3. block' = Append(block, e) \/ block' = block
        BY <1>0
      <4> HIDE DEF e
      <4> QED  BY <4>1, <4>2, <4>3
    <3>3. count' \in Nat
      BY <1>0 DEF IInv, ShapeInv, BlockTypes
    <3> QED  BY <1>0, <3>1, <3>2, <3>3 DEF IInv, ShapeInv, BlockTypes
  <2> QED  BY <1>0, <1>5, <2>1, <2>2, <2>3 DEF IInv, ShapeInv
<1>7. FlowInv'
  BY <1>0, <1>5 DEF FlowInv, InFlow
<1>8. ReceiptInv'
  BY <1>0 DEF ReceiptInv, InFlow
<1>9. BatchInv'
  BY <1>0, <1>1 DEF IInv, BatchInv, InFlow
<1>10. TriggerInv'
  <2>1. ledger \in Ledger /\ flow'.db.nonce = flow.db.nonce
    BY <1>2, <1>3, <1>5, AfterCodeFacts DEF IInv, ShapeInv, PoolTypes
  <2>2. Ahead(ledger) /\ Ahead(flow.db) /\ Behind(ledger, flow.db)
    BY <1>0 DEF IInv, TriggerInv
  <2>3. ASSUME NEW u \in trigger'
        PROVE  nonceOf[u] > flow.db.nonce[issuerOf[u]] + 1 /\ nonceOf[u] > ledger.nonce[issuerOf[u]] + 1
    <3>0. u \in Tx /\ issuerOf[u] \in Issuer /\ nonceOf[u] \in Nat
      BY <1>6, FormationAssumption DEF ShapeInv, PoolTypes
    <3>1. CASE u \in trigger
      BY <2>2, <3>1 DEF Ahead
    <3>2. CASE u = t /\ RequiresTrigger(flow.db, r)
      <4>1. /\ nonceOf[t] > flow.db.nonce[issuerOf[t]]
            /\ flow.db.nonce[issuerOf[t]] + 1 # nonceOf[t]
        BY <1>2, <3>2 DEF RequiresTrigger
      <4>2. /\ flow.db.nonce[issuerOf[t]] \in Nat /\ ledger.nonce[issuerOf[t]] \in Nat
            /\ ledger.nonce[issuerOf[t]] <= flow.db.nonce[issuerOf[t]]
        BY <1>3, <2>1, <2>2, <3>0, <3>2 DEF Ledger, Behind
      <4> QED  BY <3>0, <3>2, <4>1, <4>2
    <3> QED  BY <1>0, <3>1, <3>2
  <2>4. Ahead(ledger)' /\ Ahead(flow.db)'
    BY <1>0, <2>1, <2>3 DEF Ahead
  <2>5. Behind(ledger, flow.db)'
    BY <1>0, <2>1, <2>2 DEF Behind
  <2> QED  BY <1>0, <2>4, <2>5 DEF TriggerInv, InFlow
<1> QED  BY <1>6, <1>7, <1>8, <1>9, <1>10 DEF IInv

\* The assertions of formBlock() and abortFlow()
LEMMA FinishBlockStep ==
    ASSUME IInv, FinishBlock
    PROVE  IInv'
<1>0. /\ pc = "check"
      /\ aborted' = ~(AccountingAsserts /\ ValidatedFees = fees)
      /\ flow' = CleanedUp(flow)
      /\ IF block = <<>>
         THEN pc' = "idle" /\ formed' = NoBlock
         ELSE /\ pc' = "publish"
              /\ formed' = [txs |-> block, final |-> flow.db,
                            cut |-> IF mark THEN NoReceipt ELSE receipt]
      /\ UNCHANGED <<pool, kind, processed, trigger, invalid, deletion, ledger, chain, batch,
                     idx, receipt, block, used, fees, count, succeeded, mark, retry, attempts,
                     stopping>>
  BY DEF FinishBlock, blockVars, poolVars
<1>1. pc' \in {"idle", "publish"}
  BY <1>0
<1>2. flow \in Flow /\ flow.db \in Ledger
  BY FlowFields DEF IInv, ShapeInv
<1>3. flow' \in Flow /\ flow'.dbs = <<>> /\ flow'.persps = <<>>
  BY <1>0, <1>2, CleanedUpFields DEF Flow
<1>4. pc' = "publish" => formed' \in Proposal /\ formed'.final = flow.db
  <2> DEFINE cut == IF mark THEN NoReceipt ELSE receipt
  <2>1. cut \in Receipt \cup {NoReceipt} /\ block \in Seq(Entry)
    BY DEF IInv, ShapeInv, StageTypes, BlockTypes
  <2> HIDE DEF cut
  <2>2. pc' = "publish" => formed' = [txs |-> block, final |-> flow.db, cut |-> cut]
    BY <1>0 DEF cut
  <2> QED  BY <1>2, <2>1, <2>2 DEF Proposal
<1>5. ShapeInv'
  <2>1. PoolTypes'
    BY <1>0 DEF IInv, ShapeInv, PoolTypes
  <2>2. StageTypes'
    BY <1>0, <1>1 DEF IInv, ShapeInv, StageTypes, Stage
  <2>3. BlockTypes'
    <3>1. {mark', stopping', aborted'} \subseteq BOOLEAN
      BY <1>0, Zenon DEF IInv, ShapeInv, BlockTypes
    <3> QED  BY <1>0, <3>1 DEF IInv, ShapeInv, BlockTypes
  <2> QED  BY <1>0, <1>3, <1>4, <2>1, <2>2, <2>3 DEF IInv, ShapeInv
<1>6. FlowInv'
  BY <1>1, <1>3 DEF FlowInv, InFlow
<1>7. ReceiptInv'
  BY <1>1 DEF ReceiptInv, InFlow
<1>8. BatchInv'
  BY <1>0, <1>1 DEF IInv, BatchInv, InFlow
<1>9. TriggerInv'
  <2>1. Ahead(ledger) /\ Ahead(flow.db)
    BY <1>0 DEF IInv, TriggerInv
  <2> QED  BY <1>0, <1>1, <1>4, <2>1 DEF TriggerInv, Ahead, InFlow
<1> QED  BY <1>5, <1>6, <1>7, <1>8, <1>9 DEF IInv

\* The transactions of a list of entries.
Txs(b) == [k \in 1 .. Len(b) |-> b[k].tx]

\* They are a sequence of transactions.
LEMMA TxsType ==
    ASSUME NEW b \in Seq(Entry)
    PROVE  Txs(b) \in Seq(Tx) /\ Len(Txs(b)) = Len(b)
<1>1. Len(b) \in Nat /\ \A k \in 1 .. Len(b) : b[k] \in Entry
  OBVIOUS
<1>2. \A k \in 1 .. Len(b) : b[k].tx \in Tx
  BY <1>1 DEF Entry
<1>3. Txs(b) \in [1 .. Len(b) -> Tx]
  BY <1>2 DEF Txs
<1> QED  BY <1>1, <1>3

\* processBlock() of the proposal
LEMMA ProcessBlockStep ==
    ASSUME IInv, ProcessBlock
    PROVE  IInv'
<1>0. /\ pc = "publish" /\ pc' = "idle" /\ formed' = NoBlock
      /\ \/ ledger' = formed.final /\ chain' = chain \o Txs(formed.txs)
         \/ UNCHANGED <<ledger, chain>>
      /\ UNCHANGED <<pool, kind, processed, trigger, invalid, deletion, flow, batch, idx,
                     receipt, block, used, fees, count, succeeded, mark, retry, attempts,
                     stopping, aborted>>
  BY DEF ProcessBlock, Txs, blockVars, poolVars
<1>1. formed.final \in Ledger /\ formed.txs \in Seq(Entry)
  BY <1>0 DEF IInv, ShapeInv, Proposal
<1>2. ShapeInv'
  <2>1. chain' \in Seq(Tx)
    <3>1. chain \in Seq(Tx)
      BY DEF IInv, ShapeInv, PoolTypes
    <3>2. Txs(formed.txs) \in Seq(Tx)
      BY <1>1, TxsType
    <3>3. chain \o Txs(formed.txs) \in Seq(Tx)
      BY <3>1, <3>2
    <3> QED  BY <1>0, <3>1, <3>3
  <2>2. PoolTypes'
    BY <1>0, <1>1, <2>1 DEF IInv, ShapeInv, PoolTypes
  <2>3. StageTypes' /\ BlockTypes'
    BY <1>0 DEF IInv, ShapeInv, StageTypes, BlockTypes, Stage
  <2> QED  BY <1>0, <2>2, <2>3 DEF IInv, ShapeInv
<1>3. FlowInv' /\ ReceiptInv'
  BY <1>0 DEF IInv, FlowInv, ReceiptInv, InFlow
<1>4. BatchInv'
  BY <1>0 DEF IInv, BatchInv, InFlow
<1>5. TriggerInv'
  BY <1>0 DEF IInv, TriggerInv, Ahead, InFlow
<1> QED  BY <1>2, <1>3, <1>4, <1>5 DEF IInv

\* Nothing changes
LEMMA StutterStep ==
    ASSUME IInv, UNCHANGED vars
    PROVE  IInv'
<1> USE DEF vars
<1>1. ShapeInv'
  BY DEF IInv, ShapeInv, PoolTypes, StageTypes, BlockTypes
<1>2. FlowInv' /\ ReceiptInv'
  BY DEF IInv, FlowInv, ReceiptInv
<1>3. BatchInv'
  BY DEF IInv, BatchInv, Unprocessed
<1>4. TriggerInv'
  BY DEF IInv, TriggerInv, Ahead
<1> QED  BY <1>1, <1>2, <1>3, <1>4 DEF IInv

-----------------------------------------------------------------------------
(* The theorems.                                                           *)

\* The state after the start of the node.
LEMMA Initially == Init => IInv
<1> SUFFICES ASSUME Init PROVE IInv
  OBVIOUS
<1>1. GenesisLedger \in Ledger
  BY DEF GenesisLedger, Ledger
<1>2. flow \in Flow /\ flow.dbs = <<>> /\ flow.persps = <<>>
  <2> DEFINE f == StartedFlow(GenesisLedger, 0)
  <2>1. NoObject \in Object /\ 0 \in Nat
    BY DEF Object
  <2>2. f \in Flow
    BY <1>1, <2>1, StartedLevelZero DEF Flow
  <2> HIDE DEF f
  <2>3. flow = CleanedUp(f)
    BY DEF Init, f
  <2> QED  BY <2>2, <2>3, CleanedUpFields DEF Flow
<1>3. ShapeInv
  <2>1. PoolTypes
    BY <1>1 DEF Init, PoolTypes
  <2>2. StageTypes
    BY DEF Init, StageTypes, Stage
  <2>3. BlockTypes
    <3>1. {mark, stopping, aborted} \subseteq BOOLEAN
      BY DEF Init
    <3>2. block \in Seq(Entry) /\ used \in Nat /\ fees \in Nat /\ count \in Nat
      BY DEF Init
    <3> QED  BY <3>1, <3>2 DEF Init, BlockTypes
  <2>4. IsFiniteSet(pool)
    BY FS_EmptySet DEF Init
  <2> QED  BY <1>2, <2>1, <2>2, <2>3, <2>4 DEF Init, ShapeInv
<1>4. FlowInv /\ ReceiptInv
  BY <1>2 DEF Init, FlowInv, ReceiptInv, InFlow
<1>5. BatchInv
  BY DEF Init, BatchInv, InFlow
<1>6. TriggerInv
  BY DEF Init, TriggerInv, Ahead, InFlow
<1> QED  BY <1>3, <1>4, <1>5, <1>6 DEF IInv

\* Every step keeps the invariant.
LEMMA Inductive == IInv /\ [Next]_vars => IInv'
<1> SUFFICES ASSUME IInv, [Next]_vars PROVE IInv'
  OBVIOUS
<1>1. ASSUME NEW t \in Tx, Register(t) \/ CleanMemPool(t) PROVE IInv'
  BY <1>1, RegisterStep, CleanMemPoolStep
<1>2. CASE StartBlock \/ ProcessTransaction \/ AppendToBlock
  BY <1>2, StartBlockStep, ProcessTransactionStep, AppendToBlockStep
<1>3. CASE StartRetry \/ EndLoop \/ EndRetry \/ FinishBlock \/ ProcessBlock
  BY <1>3, StartRetryStep, EndLoopStep, FinishBlockStep, ProcessBlockStep
<1>4. ASSUME NEW hit \in BOOLEAN,
             \/ ImposeFees(hit) \/ FeesFail(hit) \/ NonceFails(hit)
             \/ LimitReached(hit) \/ FinalizeTx(hit) \/ RetryTransaction(hit)
      PROVE  IInv'
  BY <1>4, ImposeFeesStep, FeesFailStep, NonceFailsStep, LimitReachedStep, FinalizeTxStep,
     RetryTransactionStep
<1>5. CASE RequestStop
  BY <1>5, RequestStopStep
<1>6. CASE UNCHANGED vars
  BY <1>6, StutterStep
<1> QED  BY <1>1, <1>2, <1>3, <1>4, <1>5, <1>6 DEF Next, MemPoolStep, FactoryStep

\* The conjunction of the five parts is an invariant of block formation.
THEOREM Invariance == Spec => []IInv
  BY Initially, Inductive, PTL DEF Spec

\* The invariant contains the types.
LEMMA TypesHold == IInv => TypeOK
<1> SUFFICES ASSUME IInv PROVE TypeOK
  OBVIOUS
<1>1. /\ flow.dbs \in Seq([obj : Tx \cup {NoObject}, db : Ledger])
      /\ flow.persps \in Seq(Ledger)
      /\ flow.db \in Ledger /\ flow.backup \in Ledger
      /\ flow.obj \in Tx \cup {NoObject}
      /\ {flow.depth, flow.total, flow.cleaned, flow.reverted} \subseteq Nat
  BY FlowFields DEF IInv, ShapeInv
<1> QED  BY <1>1 DEF IInv, ShapeInv, PoolTypes, StageTypes, BlockTypes, TypeOK

\* Flags, stack, counters and proposal keep the shapes of their C++
\* declarations, for any number of transactions and issuers.
THEOREM TypeCorrect == Spec => []TypeOK
  BY Invariance, TypesHold, PTL

\* The assertions of the stack follow from the invariant.
LEMMA AssertsHold == IInv => StackAssertsHold
<1> SUFFICES ASSUME IInv PROVE StackAssertsHold
  OBVIOUS
<1>1. flow \in Flow
  BY DEF IInv, ShapeInv
<1>2. ASSUME pc = "final" PROVE TopRunAsserts(flow)
  <2>1. Emptied(flow) \/ Stacked(flow, 0) \/ Stacked(flow, 1) \/ Stacked(flow, 2)
    BY <1>2 DEF IInv, FlowInv
  <2>2. \A n \in Nat : Stacked(flow, n) => TopRunAsserts(flow)
    BY <1>1, TopRunStacked DEF Flow
  <2>3. Emptied(flow) => TopRunAsserts(flow)
    BY <1>1, TopRunEmptied DEF Flow
  <2>4. 0 \in Nat /\ 1 \in Nat /\ 2 \in Nat
    OBVIOUS
  <2> QED  BY <2>1, <2>2, <2>3, <2>4
<1>3. ASSUME pc = "fees" PROVE StepBackAsserts(flow, 1)
  BY <1>1, <1>3, FeesFacts, BeforeFeesFlow
<1> QED  BY <1>2, <1>3 DEF StackAssertsHold

\* assertGN() after stepBack, in revertTX and in popCurrentTXDBs never ends the
\* process, whatever transactions do and however they are rolled back.
THEOREM StackAssertsNeverFail == Spec => []StackAssertsHold
  BY Invariance, AssertsHold, PTL

\* So does the discipline of the stack.
LEMMA Disciplined == IInv => StackDiscipline
<1> SUFFICES ASSUME IInv PROVE StackDiscipline
  OBVIOUS
<1>1. \/ LevelZero(flow) /\ pc \in {"loop", "retry", "check"}
      \/ Emptied(flow) /\ pc \notin {"loop", "retry"}
      \/ /\ pc \in InFlow /\ (Stacked(flow, 0) \/ Stacked(flow, 1) \/ Stacked(flow, 2))
         /\ flow.obj = receipt.tx
      \/ pc \in {"idle", "publish"} /\ flow.dbs = <<>> /\ flow.persps = <<>>
  <2>1. pc \in Stage
    BY DEF IInv, ShapeInv, StageTypes
  <2>2. CASE pc \in InFlow
    <3>1. Emptied(flow) \/ Stacked(flow, 0) \/ Stacked(flow, 1) \/ Stacked(flow, 2)
      BY <2>2 DEF IInv, FlowInv, InFlow
    <3> QED  BY <2>2, <3>1 DEF IInv, FlowInv, InFlow
  <2>3. CASE pc \notin InFlow
    BY <2>1, <2>3 DEF IInv, FlowInv, InFlow, Stage
  <2> QED  BY <2>2, <2>3
<1>2. CASE LevelZero(flow) /\ pc \in {"loop", "retry", "check"}
  BY <1>2 DEF LevelZero, StackDiscipline
<1>3. CASE Emptied(flow) /\ pc \notin {"loop", "retry"}
  BY <1>3 DEF Emptied, StackDiscipline, Aligned
<1>4. CASE /\ pc \in InFlow /\ (Stacked(flow, 0) \/ Stacked(flow, 1) \/ Stacked(flow, 2))
           /\ flow.obj = receipt.tx
  <2>1. PICK n \in 0 .. 2 : Stacked(flow, n)
    BY <1>4
  <2>2. Aligned(flow)
    BY <2>1 DEF Stacked
  <2>3. Len(flow.dbs) = n + 1 /\ \A k \in 2 .. n + 1 : flow.dbs[k].obj = flow.obj
    BY <2>1 DEF Stacked
  <2> QED  BY <1>4, <2>2, <2>3 DEF StackDiscipline, InFlow
<1>5. CASE pc \in {"idle", "publish"} /\ flow.dbs = <<>> /\ flow.persps = <<>>
  BY <1>5 DEF StackDiscipline, Aligned
<1> QED  BY <1>1, <1>2, <1>3, <1>4, <1>5

\* Copies and Perspectives stay aligned, at most three of them, all above
\* Level 0 tagged with the current transaction: for every capacity of at least
\* four the eviction of pushDB, which would break the alignment, never happens.
THEOREM StackStaysDisciplined == Spec => []StackDiscipline
  BY Invariance, Disciplined, PTL

\* The rest of a fetched batch is pending until its turn comes.
THEOREM BatchIsNeverTouched == Spec => []BatchStaysPending
<1>1. IInv => BatchStaysPending
  BY DEF IInv, BatchInv, BatchStaysPending
<1> QED  BY <1>1, Invariance, PTL

\* No deferred transaction waits for a nonce that has already been used: the
\* transaction that will untrigger it is yet to come.
THEOREM TriggersAreNeverMissed == Spec => []NoMissedTrigger
<1>1. IInv => NoMissedTrigger
  BY DEF IInv, TriggerInv, Ahead, NoMissedTrigger
<1> QED  BY <1>1, Invariance, PTL

-----------------------------------------------------------------------------
(* The counters of cleaned and of reverted transactions.                   *)

Countable(f) == {"cleaned", "reverted"} \subseteq DOMAIN f

\* An operation of the stack that leaves both counters alone.
SameCounts(f, g) == Countable(g) /\ g.cleaned = f.cleaned /\ g.reverted = f.reverted

\* pushDB() does, whether it makes room or not, ...
LEMMA PushCounts ==
    ASSUME NEW f, Countable(f), NEW d, NEW isTXDB
    PROVE  SameCounts(f, PushDB(f, d, isTXDB))
<1> DEFINE e == Evicted(f)
           a == Append(e.dbs, [obj |-> f.obj, db |-> d])
           p == Append(e.persps, d)
           m == IF isTXDB THEN e.depth + 1 ELSE e.depth
           n == IF isTXDB THEN e.total + 1 ELSE e.total
           g == PushDB(f, d, isTXDB)
<1>1. SameCounts(f, e)
  <2> DEFINE s == DropAt(f.dbs, 1)
             q == DropAt(f.persps, 2)
  <2>1. e = f \/ e = [f EXCEPT !.dbs = s, !.persps = q]
    BY DEF Evicted
  <2> HIDE DEF s, q, e
  <2> QED  BY <2>1 DEF SameCounts, Countable
<1>2. g = [e EXCEPT !.dbs = a, !.persps = p, !.depth = m, !.total = n]
  BY DEF PushDB
<1> HIDE DEF e, a, p, m, n, g
<1>3. SameCounts(f, g)
  BY <1>1, <1>2 DEF SameCounts, Countable
<1> QED  BY <1>3 DEF g

\* ... and so do popDB() and stepBack().
LEMMA DropCounts ==
    ASSUME NEW f, Countable(f), NEW n, NEW hit
    PROVE  /\ SameCounts(f, Dropped(f, n))
           /\ SameCounts(f, PopDB(f, n))
           /\ SameCounts(f, StepBack(f, n, hit))
<1> DEFINE a == SubSeq(f.dbs, 1, Len(f.dbs) - n)
           p == SubSeq(f.persps, 1, Len(f.persps) - n)
           u == f.depth - Fewer(f.depth, n)
           v == f.total - Fewer(f.depth, n)
           d == IF hit THEN f.persps[Len(f.persps) - n + 1] ELSE f.dbs[Len(f.persps) - n + 1].db
           h == Dropped(f, n)
<1>1. h = [f EXCEPT !.dbs = a, !.persps = p, !.depth = u, !.total = v]
  BY DEF Dropped
<1>2. StepBack(f, n, hit) = f \/ StepBack(f, n, hit) = [h EXCEPT !.db = d]
  BY DEF StepBack
<1>3. PopDB(f, n) = f \/ PopDB(f, n) = h
  BY DEF PopDB
<1> HIDE DEF a, p, u, v, d, h
<1>4. SameCounts(f, f)
  BY DEF SameCounts
<1>5. SameCounts(f, h)
  BY <1>1 DEF SameCounts, Countable
<1>6. SameCounts(f, [h EXCEPT !.db = d])
  BY <1>5 DEF SameCounts, Countable
<1> QED  BY <1>2, <1>3, <1>4, <1>5, <1>6 DEF h

\* The current object and the state are apart from them too.
LEMMA OtherFields ==
    ASSUME NEW f, Countable(f), NEW d, NEW o
    PROVE  /\ SameCounts(f, [f EXCEPT !.db = d])
           /\ SameCounts(f, [f EXCEPT !.obj = o])
           /\ SameCounts(f, SelectObject(f, o))
  BY DEF SameCounts, Countable, SelectObject

\* The finalizer counts one transaction.
LEMMA FinalizedCounts ==
    ASSUME NEW f, Countable(f), f.cleaned \in Nat, f.reverted \in Nat, NEW r, NEW hit
    PROVE  Finalized(f, r, hit).cleaned + Finalized(f, r, hit).reverted
               = f.cleaned + f.reverted + 1
<1> DEFINE k == TopRun(f)
           h == Dropped(f, k)
           s == StepBack(f, k, hit)
           c == f.cleaned + 1
           v == f.reverted + 1
           g == Finalized(f, r, hit)
<1>1. SameCounts(f, h) /\ SameCounts(f, s)
  BY DropCounts
<1>2. \/ g = [[h EXCEPT !.cleaned = h.cleaned + 1] EXCEPT !.obj = NoObject]
      \/ g = [[s EXCEPT !.reverted = s.reverted + 1] EXCEPT !.obj = NoObject]
  BY DEF Finalized, PopCurrentTXDBs, RevertTX
<1> HIDE DEF h, s, g, k
<1>3. \/ g = [[h EXCEPT !.cleaned = c] EXCEPT !.obj = NoObject]
      \/ g = [[s EXCEPT !.reverted = v] EXCEPT !.obj = NoObject]
  BY <1>1, <1>2 DEF SameCounts
<1>4. c \in Nat /\ v \in Nat
  OBVIOUS
<1> HIDE DEF c, v
<1>5. \/ g.cleaned = c /\ g.reverted = f.reverted
      \/ g.cleaned = f.cleaned /\ g.reverted = v
  <2>1. CASE g = [[h EXCEPT !.cleaned = c] EXCEPT !.obj = NoObject]
    BY <1>1, <2>1 DEF SameCounts, Countable
  <2>2. CASE g = [[s EXCEPT !.reverted = v] EXCEPT !.obj = NoObject]
    BY <1>1, <2>2 DEF SameCounts, Countable
  <2> QED  BY <1>3, <2>1, <2>2
<1> QED  BY <1>5 DEF c, v, g

\* While transactions are processed the block is still open.
CountInv ==
    /\ pc \in {"loop", "fees", "append", "retry"} => mark
    /\ CountedOnce

\* Roll Back (1/3) and the Level 1 copy are not counted.
LEMMA BeforeFeesCounts ==
    ASSUME Countable(flow), NEW hit
    PROVE  SameCounts(flow, BeforeFees(hit))
<1> DEFINE f == IF receipt.result # "valid" THEN StepBack(flow, 1, hit) ELSE flow
<1>1. SameCounts(flow, f)
  BY DropCounts DEF SameCounts
<1>2. BeforeFees(hit) = PushDB(f, f.db, TRUE)
  BY DEF BeforeFees
<1> HIDE DEF f
<1>3. SameCounts(f, PushDB(f, f.db, TRUE))
  BY <1>1, PushCounts DEF SameCounts
<1> QED  BY <1>1, <1>2, <1>3 DEF SameCounts

\* Nor is any other change made to the stack in the middle of a transaction.
LEMMA UncountedSteps ==
    ASSUME Countable(flow), NEW hit,
           \/ ProcessTransaction \/ ImposeFees(hit) \/ FeesFail(hit) \/ NonceFails(hit)
           \/ LimitReached(hit)
    PROVE  SameCounts(flow, flow')
<1>1. ASSUME NEW f, NEW g, NEW e, SameCounts(f, g), SameCounts(g, e)
      PROVE  SameCounts(f, e)
  BY <1>1 DEF SameCounts
<1>2. ASSUME NEW f, NEW g, SameCounts(f, g) PROVE Countable(g)
  BY <1>2 DEF SameCounts
<1>3. CASE ProcessTransaction
  <2> DEFINE t == batch[idx]
             r == Verdict(flow.db, t, kind[t])
             s == SelectObject(flow, t)
             p == PushDB(s, s.db, TRUE)
             d == AfterCode(p.db, r)
  <2>1. flow' = [p EXCEPT !.db = d]
    BY <1>3 DEF ProcessTransaction, Executed
  <2>2. SameCounts(flow, s)
    BY OtherFields
  <2> HIDE DEF s
  <2>3. SameCounts(s, p)
    BY <2>2, <1>2, PushCounts
  <2> HIDE DEF p, d
  <2>4. SameCounts(p, [p EXCEPT !.db = d])
    BY <2>3, <1>2, OtherFields
  <2> QED  BY <1>1, <2>1, <2>2, <2>3, <2>4
<1>4. CASE ImposeFees(hit)
  <2> DEFINE b == BeforeFees(hit)
             d == Charged(b.db, receipt)
             c == [b EXCEPT !.db = d]
  <2>1. flow' = PopDB(c, 1)
    BY <1>4 DEF ImposeFees
  <2>2. SameCounts(flow, b)
    BY BeforeFeesCounts
  <2> HIDE DEF b, d
  <2>3. SameCounts(b, c)
    BY <2>2, <1>2, OtherFields
  <2> HIDE DEF c
  <2>4. SameCounts(c, PopDB(c, 1))
    BY <2>3, <1>2, DropCounts
  <2> QED  BY <1>1, <2>1, <2>2, <2>3, <2>4
<1>5. CASE FeesFail(hit)
  <2> DEFINE b == BeforeFees(hit)
             d == IncNonce(b.db, receipt.tx)
  <2>1. flow' = [b EXCEPT !.db = d]
    BY <1>5 DEF FeesFail
  <2>2. SameCounts(flow, b)
    BY BeforeFeesCounts
  <2> HIDE DEF b, d
  <2>3. SameCounts(b, [b EXCEPT !.db = d])
    BY <2>2, <1>2, OtherFields
  <2> QED  BY <1>1, <2>1, <2>2, <2>3
<1>6. CASE NonceFails(hit)
  BY <1>6, BeforeFeesCounts DEF NonceFails
<1>7. CASE LimitReached(hit)
  BY <1>7, DropCounts DEF LimitReached
<1> QED  BY <1>3, <1>4, <1>5, <1>6, <1>7

\* Every step keeps the count.
LEMMA CountStep == IInv /\ CountInv /\ [Next]_vars => CountInv'
<1> SUFFICES ASSUME IInv, CountInv, [Next]_vars PROVE CountInv'
  OBVIOUS
<1>1. /\ Countable(flow) /\ flow.cleaned \in Nat /\ flow.reverted \in Nat
      /\ idx \in Nat /\ mark \in BOOLEAN
  BY DEF IInv, ShapeInv, StageTypes, BlockTypes, Flow, FlowType, Countable
<1>2. CASE UNCHANGED <<flow, idx, mark, pc>>
  BY <1>2 DEF CountInv, CountedOnce
<1>3. CASE AppendToBlock \/ StartRetry \/ EndLoop \/ EndRetry
  <2>1. UNCHANGED <<flow, idx, mark>>
    BY <1>3 DEF AppendToBlock, StartRetry, EndLoop, EndRetry, blockVars
  <2>2. \/ pc = "append" /\ pc' = "final"
        \/ pc = "loop" /\ pc' \in {"retry", "check"}
        \/ pc = "retry" /\ pc' = "check"
    BY <1>3 DEF AppendToBlock, StartRetry, EndLoop, EndRetry
  <2> QED  BY <2>1, <2>2 DEF CountInv, CountedOnce
<1>4. CASE StartBlock
  <2>1. /\ flow' = StartedFlow(ledger, flow.depth) /\ idx' = 1 /\ mark' = TRUE /\ pc' = "loop"
    BY <1>4 DEF StartBlock
  <2>2. flow'.cleaned = 0 /\ flow'.reverted = 0
    BY <2>1 DEF StartedFlow
  <2> QED  BY <2>1, <2>2 DEF CountInv, CountedOnce
<1>5. ASSUME NEW hit,
             \/ ProcessTransaction \/ ImposeFees(hit) \/ FeesFail(hit) \/ NonceFails(hit)
             \/ LimitReached(hit)
      PROVE  CountInv'
  <2>1. flow'.cleaned = flow.cleaned /\ flow'.reverted = flow.reverted
    BY <1>1, <1>5, UncountedSteps DEF SameCounts
  <2>2. /\ idx' = idx /\ pc \in {"loop", "fees", "append"}
        /\ \/ mark' = mark /\ pc' \in {"fees", "append", "final"}
           \/ pc' = "final"
    BY <1>5 DEF ProcessTransaction, ImposeFees, FeesFail, NonceFails, LimitReached, blockVars
  <2> QED  BY <2>1, <2>2 DEF CountInv, CountedOnce
<1>6. ASSUME NEW hit, FinalizeTx(hit)
      PROVE  CountInv'
  <2>1. /\ pc = "final" /\ idx' = idx + 1 /\ mark' = mark
        /\ flow' = Finalized(flow, receipt, hit)
        /\ pc' = IF mark THEN "loop" ELSE "check"
    BY <1>6 DEF FinalizeTx, blockVars
  <2>2. flow'.cleaned + flow'.reverted = flow.cleaned + flow.reverted + 1
    BY <1>1, <2>1, FinalizedCounts
  <2>3. flow.cleaned + flow.reverted = idx - 1
    BY <2>1 DEF CountInv, CountedOnce
  <2>4. flow'.cleaned + flow'.reverted = idx' - 1
    BY <1>1, <2>1, <2>2, <2>3
  <2>5. CASE mark
    BY <2>1, <2>4, <2>5 DEF CountInv, CountedOnce
  <2>6. CASE ~mark
    BY <2>1, <2>4, <2>6 DEF CountInv, CountedOnce
  <2> QED  BY <2>5, <2>6
<1>7. ASSUME NEW hit, RetryTransaction(hit)
      PROVE  CountInv'
  <2>1. pc = "retry" /\ pc' = "retry" /\ mark' = mark
    BY <1>7 DEF RetryTransaction
  <2> QED  BY <2>1 DEF CountInv, CountedOnce
<1>8. CASE FinishBlock \/ ProcessBlock
  <2>1. pc' \in {"idle", "publish"}
    BY <1>8 DEF FinishBlock, ProcessBlock
  <2> QED  BY <2>1 DEF CountInv, CountedOnce
<1>9. ASSUME NEW t \in Tx, Register(t) \/ CleanMemPool(t)
      PROVE  UNCHANGED <<flow, idx, mark, pc>>
  BY <1>9 DEF Register, CleanMemPool, blockVars
<1>10. CASE RequestStop \/ UNCHANGED vars
  BY <1>2, <1>10 DEF RequestStop, blockVars, vars
<1> QED  BY <1>2, <1>3, <1>4, <1>5, <1>6, <1>7, <1>8, <1>9, <1>10 DEF Next, MemPoolStep, FactoryStep

\* However a transaction leaves the main loop, one is counted, as cleaned or as
\* reverted; none is counted that a stop request or the limit left in the batch.
THEOREM TransactionsAreCountedOnce == Spec => []CountedOnce
<1>1. Init => CountInv
  BY DEF Init, CountInv, CountedOnce
<1>2. CountInv => CountedOnce
  BY DEF CountInv
<1> QED  BY <1>1, <1>2, CountStep, Invariance, PTL DEF Spec
=============================================================================
