-------------------------- MODULE FlowStackProofs --------------------------
(***************************************************************************)
(* What the operations of the reversible stack do to a stack that is in    *)
(* order: Level 0 at the bottom and above it only copies of the current    *)
(* transaction, as many as the two counters say.  The lemmas hold for any  *)
(* set of states D and any set of objects O.                               *)
(***************************************************************************)
EXTENDS FlowStack, SequenceTheorems, TLAPS

\* A pushed copy and the object in whose name it was pushed.
Copy(D, O) == [obj : O, db : D]

FlowType(D, O) ==
    [dbs      : Seq(Copy(D, O)),
     persps   : Seq(D),
     depth    : Nat,
     total    : Nat,
     cleaned  : Nat,
     reverted : Nat,
     db       : D,
     backup   : D,
     obj      : O]

\* Only the Level 0 copy is left, between two transactions.
LevelZero(f) == Len(f.dbs) = 1 /\ f.total = 0 /\ Aligned(f)

\* n copies of the current object lie above Level 0.
Stacked(f, n) ==
    /\ Len(f.dbs) = n + 1
    /\ Aligned(f)
    /\ f.depth = n
    /\ f.total = n
    /\ \A k \in 2 .. n + 1 : f.dbs[k].obj = f.obj

\* Roll Back (2/3) took Level 0 away.
Emptied(f) == Len(f.dbs) = 0 /\ Len(f.persps) = 0 /\ f.depth = 0 /\ f.total = 0

\* The Flow continues on another state.
OnState(f, d) == [f EXCEPT !.db = d]

\* A Flow freshly started is at Level 0.
LEMMA StartedLevelZero ==
    ASSUME NEW D, NEW O, NEW d \in D, NEW n \in Nat, NoObject \in O
    PROVE  /\ StartedFlow(d, n) \in FlowType(D, O)
           /\ LevelZero(StartedFlow(d, n))
           /\ StartedFlow(d, n).persps = <<d>>
           /\ StartedFlow(d, n).db = d
  BY DEF StartedFlow, FlowType, Copy, LevelZero, Aligned

\* resetCurrentTXDBStackDepth() puts the counters in order for the next
\* transaction, whatever depth the last Flow left behind.
LEMMA SelectStacked ==
    ASSUME NEW D, NEW O, NEW f \in FlowType(D, O), NEW o \in O, LevelZero(f)
    PROVE  /\ SelectObject(f, o) \in FlowType(D, O)
           /\ Stacked(SelectObject(f, o), 0)
           /\ SelectObject(f, o).persps = f.persps
           /\ SelectObject(f, o).db = f.db
           /\ SelectObject(f, o).obj = o
<1> DEFINE g == SelectObject(f, o)
<1>1. /\ g \in FlowType(D, O) /\ g.dbs = f.dbs /\ g.persps = f.persps
      /\ g.depth = 0 /\ g.total = f.total /\ g.db = f.db /\ g.obj = o
  BY DEF SelectObject, FlowType
<1> HIDE DEF g
<1>2. Stacked(g, 0)
  BY <1>1 DEF LevelZero, Stacked, Aligned
<1> QED  BY <1>1, <1>2 DEF g

\* A change of state leaves the stack alone.
LEMMA OnStateStacked ==
    ASSUME NEW D, NEW O, NEW f \in FlowType(D, O), NEW d \in D
    PROVE  /\ OnState(f, d) \in FlowType(D, O)
           /\ \A n \in Nat : Stacked(f, n) => Stacked(OnState(f, d), n)
           /\ OnState(f, d).persps = f.persps
           /\ OnState(f, d).db = d
           /\ OnState(f, d).obj = f.obj
  BY DEF OnState, FlowType, Stacked, Aligned

\* The part of the record that pushDB(), popDB() and stepBack() change.
Restacked(f, a, p, m, n) == [f EXCEPT !.dbs = a, !.persps = p, !.depth = m, !.total = n]

\* The other fields keep their values.
LEMMA RestackedFields ==
    ASSUME NEW D, NEW O, NEW f \in FlowType(D, O),
           NEW a \in Seq(Copy(D, O)), NEW p \in Seq(D), NEW m \in Nat, NEW n \in Nat
    PROVE  /\ Restacked(f, a, p, m, n) \in FlowType(D, O)
           /\ Restacked(f, a, p, m, n).dbs = a /\ Restacked(f, a, p, m, n).persps = p
           /\ Restacked(f, a, p, m, n).depth = m /\ Restacked(f, a, p, m, n).total = n
           /\ Restacked(f, a, p, m, n).db = f.db /\ Restacked(f, a, p, m, n).obj = f.obj
<1> DEFINE g == Restacked(f, a, p, m, n)
<1>1. g \in FlowType(D, O)
  BY DEF FlowType, Restacked
<1>2. g.dbs = a /\ g.persps = p /\ g.depth = m /\ g.total = n
  BY DEF FlowType, Restacked
<1>3. g.db = f.db /\ g.obj = f.obj
  BY DEF FlowType, Restacked
<1> QED  BY <1>1, <1>2, <1>3

\* pushDB() of a copy that belongs to a transaction.
Pushed(f, d) == PushDB(f, d, TRUE)

\* pushDB() of a transaction's copy, when no eviction is needed.
LEMMA PushStacked ==
    ASSUME NEW D, NEW O, NEW f \in FlowType(D, O), NEW d \in D, NEW n \in Nat,
           Stacked(f, n), n + 1 < mAllowedInterFlowSteps
    PROVE  /\ Pushed(f, d) \in FlowType(D, O)
           /\ Stacked(Pushed(f, d), n + 1)
           /\ Pushed(f, d).persps = Append(f.persps, d)
           /\ Pushed(f, d).db = f.db
           /\ Pushed(f, d).obj = f.obj
<1>1. Evicted(f) = f
  BY StepsAssumption DEF Evicted, Stacked, FlowType
<1> DEFINE g == Pushed(f, d)
<1>2. g = [f EXCEPT !.dbs = Append(@, [obj |-> f.obj, db |-> d]),
                    !.persps = Append(@, d),
                    !.depth = @ + 1, !.total = @ + 1]
  BY <1>1 DEF PushDB, Pushed
<1>3. /\ g \in FlowType(D, O)
      /\ g.dbs = Append(f.dbs, [obj |-> f.obj, db |-> d])
      /\ g.persps = Append(f.persps, d)
      /\ g.depth = f.depth + 1 /\ g.total = f.total + 1
      /\ g.db = f.db /\ g.obj = f.obj
  <2>1. /\ f.dbs \in Seq(Copy(D, O)) /\ f.persps \in Seq(D) /\ f.obj \in O
        /\ f.depth \in Nat /\ f.total \in Nat
    BY DEF FlowType
  <2> DEFINE a == Append(f.dbs, [obj |-> f.obj, db |-> d])
             p == Append(f.persps, d)
             u == f.depth + 1
             v == f.total + 1
  <2>2. a \in Seq(Copy(D, O)) /\ p \in Seq(D) /\ u \in Nat /\ v \in Nat
    BY <2>1 DEF Copy
  <2>3. g = Restacked(f, a, p, u, v)
    BY <1>2 DEF Restacked
  <2> HIDE DEF a, p, g, u, v
  <2>4. /\ g \in FlowType(D, O) /\ g.dbs = a /\ g.persps = p
        /\ g.depth = u /\ g.total = v /\ g.db = f.db /\ g.obj = f.obj
    BY <2>2, <2>3, RestackedFields, SMTT(30)
  <2> QED  BY <2>4 DEF a, p, u, v
<1>4. Stacked(g, n + 1)
  <2> HIDE DEF g
  <2>1. f.dbs \in Seq(Copy(D, O)) /\ f.persps \in Seq(D) /\ f.obj \in O
    BY DEF FlowType
  <2>2. Len(g.dbs) = n + 2 /\ Len(g.persps) = n + 2 /\ g.depth = n + 1 /\ g.total = n + 1
    BY <1>3, <2>1 DEF Stacked, Aligned
  <2>3. \A k \in 1 .. n + 2 : g.dbs[k].db = g.persps[k]
    BY <1>3, <2>1 DEF Stacked, Aligned
  <2>4. \A k \in 2 .. n + 2 : g.dbs[k].obj = g.obj
    BY <1>3, <2>1 DEF Stacked
  <2>5. n + 2 = (n + 1) + 1
    OBVIOUS
  <2> QED  BY <2>2, <2>3, <2>4, <2>5 DEF Stacked, Aligned
<1> QED  BY <1>3, <1>4

\* The first n elements of a sequence.
LEMMA Beginning ==
    ASSUME NEW S, NEW s \in Seq(S), NEW n \in Nat, n <= Len(s)
    PROVE  /\ SubSeq(s, 1, n) \in Seq(S)
           /\ Len(SubSeq(s, 1, n)) = n
           /\ \A k \in 1 .. n : SubSeq(s, 1, n)[k] = s[k]
  OBVIOUS

\* n entries leave both vectors and both counters.
LEMMA DroppedFields ==
    ASSUME NEW D, NEW O, NEW f \in FlowType(D, O), NEW m \in Nat,
           m <= Len(f.dbs), Len(f.persps) = Len(f.dbs), Fewer(f.depth, m) <= f.total
    PROVE  /\ Dropped(f, m) \in FlowType(D, O)
           /\ Len(Dropped(f, m).dbs) = Len(f.dbs) - m /\ Len(Dropped(f, m).persps) = Len(f.dbs) - m
           /\ \A k \in 1 .. Len(f.dbs) - m :
                  Dropped(f, m).dbs[k] = f.dbs[k] /\ Dropped(f, m).persps[k] = f.persps[k]
           /\ Dropped(f, m).depth = f.depth - Fewer(f.depth, m)
           /\ Dropped(f, m).total = f.total - Fewer(f.depth, m)
           /\ Dropped(f, m).db = f.db /\ Dropped(f, m).obj = f.obj
<1> DEFINE g == Dropped(f, m)
           a == SubSeq(f.dbs, 1, Len(f.dbs) - m)
           p == SubSeq(f.persps, 1, Len(f.persps) - m)
           u == f.depth - Fewer(f.depth, m)
           v == f.total - Fewer(f.depth, m)
<1>1. /\ f.dbs \in Seq(Copy(D, O)) /\ f.persps \in Seq(D)
      /\ f.depth \in Nat /\ f.total \in Nat
  BY DEF FlowType
<1>2. Len(f.dbs) \in Nat /\ Len(f.dbs) - m \in Nat
  BY <1>1
<1>3. /\ a \in Seq(Copy(D, O)) /\ Len(a) = Len(f.dbs) - m
      /\ \A k \in 1 .. Len(f.dbs) - m : a[k] = f.dbs[k]
  BY <1>1, <1>2, Beginning
<1>4. /\ p \in Seq(D) /\ Len(p) = Len(f.dbs) - m
      /\ \A k \in 1 .. Len(f.dbs) - m : p[k] = f.persps[k]
  BY <1>1, <1>2, Beginning
<1>5. u \in Nat /\ v \in Nat
  BY <1>1 DEF Fewer
<1>6. g = Restacked(f, a, p, u, v)
  BY DEF Dropped, Restacked
<1> HIDE DEF g, a, p, u, v
<1>a. a \in Seq(Copy(D, O)) /\ p \in Seq(D) /\ u \in Nat /\ v \in Nat
  BY <1>3, <1>4, <1>5
<1>7. /\ g \in FlowType(D, O) /\ g.dbs = a /\ g.persps = p
      /\ g.depth = u /\ g.total = v /\ g.db = f.db /\ g.obj = f.obj
  BY <1>a, <1>6 DEF Restacked, FlowType
<1> QED  BY <1>3, <1>4, <1>7 DEF g, u, v

\* What popDB() and stepBack() leave of a stack in order is in order.
LEMMA DroppedStacked ==
    ASSUME NEW D, NEW O, NEW f \in FlowType(D, O), NEW n \in Nat, NEW m \in 0 .. n, Stacked(f, n)
    PROVE  /\ CanDrop(f, m) /\ DropAsserts(f, m)
           /\ Dropped(f, m) \in FlowType(D, O)
           /\ Stacked(Dropped(f, m), n - m)
           /\ \A k \in 1 .. n - m + 1 : Dropped(f, m).persps[k] = f.persps[k]
           /\ Dropped(f, m).db = f.db /\ Dropped(f, m).obj = f.obj
<1> DEFINE g == Dropped(f, m)
<1>1. /\ Len(f.dbs) = n + 1 /\ Len(f.persps) = n + 1 /\ f.depth = n /\ f.total = n
      /\ Fewer(f.depth, m) = m /\ m <= Len(f.dbs)
  BY DEF Stacked, Aligned, Fewer
<1>2. CanDrop(f, m) /\ DropAsserts(f, m)
  BY <1>1 DEF CanDrop, DropAsserts
<1>3. Fewer(f.depth, m) <= f.total /\ Len(f.persps) = Len(f.dbs)
  BY <1>1
<1>4. /\ g \in FlowType(D, O)
      /\ Len(g.dbs) = n - m + 1 /\ Len(g.persps) = n - m + 1
      /\ \A k \in 1 .. n - m + 1 : g.dbs[k] = f.dbs[k] /\ g.persps[k] = f.persps[k]
      /\ g.depth = n - m /\ g.total = n - m
      /\ g.db = f.db /\ g.obj = f.obj
  <2>1. /\ m \in Nat /\ Len(f.dbs) - m = n - m + 1
        /\ f.depth - Fewer(f.depth, m) = n - m /\ f.total - Fewer(f.depth, m) = n - m
    BY <1>1
  <2>2. /\ g \in FlowType(D, O)
        /\ Len(g.dbs) = Len(f.dbs) - m /\ Len(g.persps) = Len(f.dbs) - m
        /\ \A k \in 1 .. Len(f.dbs) - m : g.dbs[k] = f.dbs[k] /\ g.persps[k] = f.persps[k]
        /\ g.depth = f.depth - Fewer(f.depth, m)
        /\ g.total = f.total - Fewer(f.depth, m)
        /\ g.db = f.db /\ g.obj = f.obj
    BY <1>1, <1>3, <2>1, DroppedFields
  <2> HIDE DEF g
  <2> QED  BY <2>1, <2>2
<1> HIDE DEF g
<1>5. Stacked(g, n - m)
  <2>1. /\ \A k \in 1 .. n + 1 : f.dbs[k].db = f.persps[k]
        /\ \A k \in 2 .. n + 1 : f.dbs[k].obj = f.obj
    BY <1>1 DEF Stacked, Aligned
  <2>2. \A k \in 1 .. n - m + 1 : k \in 1 .. n + 1 /\ (k \in 2 .. n - m + 1 => k \in 2 .. n + 1)
    OBVIOUS
  <2>3. Aligned(g)
    BY <1>4, <2>1, <2>2 DEF Aligned
  <2>4. \A k \in 2 .. n - m + 1 : g.dbs[k].obj = g.obj
    BY <1>4, <2>1, <2>2
  <2> QED  BY <1>4, <2>3, <2>4 DEF Stacked
<1> QED  BY <1>2, <1>4, <1>5 DEF g

\* Taking Level 0 away leaves an empty stack and asserts nothing false.
LEMMA DroppedEmptied ==
    ASSUME NEW D, NEW O, NEW f \in FlowType(D, O), Stacked(f, 0)
    PROVE  /\ CanDrop(f, 1) /\ DropAsserts(f, 1)
           /\ Dropped(f, 1) \in FlowType(D, O)
           /\ Emptied(Dropped(f, 1))
           /\ Dropped(f, 1).db = f.db /\ Dropped(f, 1).obj = f.obj
<1> DEFINE g == Dropped(f, 1)
<1>1. /\ Len(f.dbs) = 1 /\ Len(f.persps) = 1 /\ f.depth = 0 /\ f.total = 0
      /\ Fewer(f.depth, 1) = 0 /\ 1 <= Len(f.dbs)
  BY DEF Stacked, Aligned, Fewer
<1>2. CanDrop(f, 1) /\ DropAsserts(f, 1)
  BY <1>1 DEF CanDrop, DropAsserts
<1> DEFINE a == SubSeq(f.dbs, 1, Len(f.dbs) - 1)
           p == SubSeq(f.persps, 1, Len(f.persps) - 1)
           u == f.depth - Fewer(f.depth, 1)
           v == f.total - Fewer(f.depth, 1)
<1>3. /\ a \in Seq(Copy(D, O)) /\ Len(a) = 0 /\ p \in Seq(D) /\ Len(p) = 0
      /\ u = 0 /\ v = 0
  <2>1. f.dbs \in Seq(Copy(D, O)) /\ f.persps \in Seq(D)
    BY DEF FlowType
  <2> QED  BY <1>1, <2>1, Beginning
<1>4. g = Restacked(f, a, p, u, v)
  BY DEF Dropped, Restacked
<1> HIDE DEF g, a, p, u, v
<1>5. /\ g \in FlowType(D, O)
      /\ Len(g.dbs) = 0 /\ Len(g.persps) = 0
      /\ g.depth = 0 /\ g.total = 0
      /\ g.db = f.db /\ g.obj = f.obj
  BY <1>3, <1>4 DEF Restacked, FlowType
<1> QED  BY <1>2, <1>5 DEF g, Emptied

\* popDB(1) forgets the top copy and keeps the state.
LEMMA PopStacked ==
    ASSUME NEW D, NEW O, NEW f \in FlowType(D, O), NEW n \in Nat, Stacked(f, n + 1)
    PROVE  /\ PopDB(f, 1) \in FlowType(D, O)
           /\ Stacked(PopDB(f, 1), n)
           /\ \A k \in 1 .. n + 1 : PopDB(f, 1).persps[k] = f.persps[k]
           /\ PopDB(f, 1).db = f.db /\ PopDB(f, 1).obj = f.obj
<1>1. n + 1 \in Nat /\ 1 \in 0 .. n + 1 /\ (n + 1) - 1 = n
  OBVIOUS
<1>2. CanDrop(f, 1)
  BY <1>1, DroppedStacked
<1>3. PopDB(f, 1) = Dropped(f, 1)
  BY <1>2 DEF PopDB
<1> QED  BY <1>1, <1>3, DroppedStacked

\* stepBack(m) returns to the m-th Perspective from the top, whether the cold
\* storage has it or not: the copies are those states too.
LEMMA StepBackStacked ==
    ASSUME NEW D, NEW O, NEW f \in FlowType(D, O), NEW n \in Nat, NEW m \in 1 .. n, NEW hit,
           Stacked(f, n)
    PROVE  /\ StepBackAsserts(f, m)
           /\ StepBack(f, m, hit) \in FlowType(D, O)
           /\ Stacked(StepBack(f, m, hit), n - m)
           /\ \A k \in 1 .. n - m + 1 : StepBack(f, m, hit).persps[k] = f.persps[k]
           /\ StepBack(f, m, hit).db = f.persps[n - m + 2] /\ StepBack(f, m, hit).obj = f.obj
<1> DEFINE h == Dropped(f, m)
           d == f.persps[n - m + 2]
<1>1. m \in 0 .. n /\ m # 0 /\ n - m \in Nat
  OBVIOUS
<1>2. /\ CanDrop(f, m) /\ DropAsserts(f, m) /\ h \in FlowType(D, O) /\ Stacked(h, n - m)
      /\ \A k \in 1 .. n - m + 1 : h.persps[k] = f.persps[k]
      /\ h.obj = f.obj
  <2>1. m \in 0 .. n
    BY <1>1
  <2>2. CanDrop(f, m) /\ DropAsserts(f, m)
    BY <2>1, DroppedStacked
  <2>3. h \in FlowType(D, O)
    BY <2>1, DroppedStacked
  <2>4. Stacked(h, n - m)
    BY <2>1, DroppedStacked
  <2>5. h.obj = f.obj
    BY <2>1, DroppedStacked
  <2>6. \A k \in 1 .. n - m + 1 : h.persps[k] = f.persps[k]
    BY <2>1, DroppedStacked
  <2> QED  BY <2>2, <2>3, <2>4, <2>5, <2>6
<1>3. /\ Len(f.persps) - m + 1 = n - m + 2 /\ n - m + 2 \in 1 .. Len(f.persps)
      /\ f.persps \in Seq(D) /\ f.dbs[n - m + 2].db = d
  BY DEF Stacked, Aligned, FlowType
<1>4. d \in D
  BY <1>3
<1>5. StepBack(f, m, hit) = OnState(h, d)
  BY <1>1, <1>2, <1>3 DEF StepBack, OnState
<1> HIDE DEF h, d
<1>6. /\ OnState(h, d) \in FlowType(D, O) /\ Stacked(OnState(h, d), n - m)
      /\ OnState(h, d).persps = h.persps /\ OnState(h, d).db = d
      /\ OnState(h, d).obj = h.obj
  BY <1>1, <1>2, <1>4, OnStateStacked
<1>7. StepBackAsserts(f, m)
  BY <1>2 DEF StepBackAsserts
<1> QED  BY <1>2, <1>5, <1>6, <1>7 DEF d

\* stepBack(1) at Level 0 returns to the state the Flow started from.
LEMMA StepBackEmptied ==
    ASSUME NEW D, NEW O, NEW f \in FlowType(D, O), NEW hit, Stacked(f, 0)
    PROVE  /\ StepBackAsserts(f, 1)
           /\ StepBack(f, 1, hit) \in FlowType(D, O)
           /\ Emptied(StepBack(f, 1, hit))
           /\ StepBack(f, 1, hit).db = f.persps[1]
           /\ StepBack(f, 1, hit).obj = f.obj
<1> DEFINE h == Dropped(f, 1)
           d == f.persps[1]
<1>1. CanDrop(f, 1) /\ DropAsserts(f, 1) /\ h \in FlowType(D, O) /\ Emptied(h) /\ h.obj = f.obj
  BY DroppedEmptied
<1>2. Len(f.persps) - 1 + 1 = 1 /\ f.dbs[1].db = d /\ d \in D
  BY DEF Stacked, Aligned, FlowType
<1>3. StepBack(f, 1, hit) = OnState(h, d)
  <2>1. /\ f.persps[Len(f.persps) - 1 + 1] = d
        /\ f.dbs[Len(f.persps) - 1 + 1].db = d
    BY <1>2
  <2>2. ~(1 = 0 \/ ~CanDrop(f, 1))
    BY <1>1
  <2>3. (IF hit THEN f.persps[Len(f.persps) - 1 + 1] ELSE f.dbs[Len(f.persps) - 1 + 1].db) = d
    BY <2>1
  <2> HIDE DEF d
  <2> QED  BY <2>2, <2>3 DEF StepBack, OnState
<1> HIDE DEF h, d
<1>4. /\ OnState(h, d) \in FlowType(D, O) /\ Emptied(OnState(h, d))
      /\ OnState(h, d).db = d /\ OnState(h, d).obj = h.obj
  BY <1>1, <1>2 DEF OnState, FlowType, Emptied
<1>5. StepBackAsserts(f, 1)
  BY <1>1 DEF StepBackAsserts
<1> QED  BY <1>1, <1>3, <1>4, <1>5 DEF d

\* The loops of revertTX and popCurrentTXDBs remove exactly the copies of the
\* current transaction.
LEMMA TopRunStacked ==
    ASSUME NEW D, NEW O, NEW f \in FlowType(D, O), NEW n \in Nat, Stacked(f, n)
    PROVE  TopRun(f) = n /\ TopRunAsserts(f)
<1>1. Len(f.dbs) = n + 1 /\ f.depth = n /\ f.total = n /\ Fewer(f.depth, Len(f.dbs)) = n
  BY DEF Stacked, Fewer
<1>2. IsTopRun(f, n)
  BY <1>1 DEF IsTopRun, Stacked
<1>3. \A m \in 0 .. Len(f.dbs) : IsTopRun(f, m) => m <= n
  BY <1>1 DEF IsTopRun
<1>4. n \in 0 .. Len(f.dbs)
  BY <1>1
<1>5. TopRun(f) = n
  <2>1. \A m \in 0 .. Len(f.dbs) :
            (IsTopRun(f, m) /\ \A l \in 0 .. Len(f.dbs) : IsTopRun(f, l) => l <= m) => m = n
    <3> TAKE m \in 0 .. Len(f.dbs)
    <3> HAVE IsTopRun(f, m) /\ \A l \in 0 .. Len(f.dbs) : IsTopRun(f, l) => l <= m
    <3>1. m <= n /\ n <= m
      BY <1>2, <1>3, <1>4
    <3> QED  BY <3>1, <1>1
  <2> QED  BY <1>2, <1>3, <1>4, <2>1 DEF TopRun
<1>6. DropAsserts(f, f.depth)
  BY <1>1 DEF DropAsserts, Fewer
<1> QED  BY <1>1, <1>5, <1>6 DEF TopRunAsserts

\* They remove nothing from an empty stack.
LEMMA TopRunEmptied ==
    ASSUME NEW D, NEW O, NEW f \in FlowType(D, O), Emptied(f)
    PROVE  TopRun(f) = 0 /\ TopRunAsserts(f)
<1>1. Len(f.dbs) = 0 /\ f.depth = 0 /\ f.total = 0 /\ Fewer(f.depth, Len(f.dbs)) = 0
  BY DEF Emptied, Fewer
<1>2. IsTopRun(f, 0)
  BY <1>1 DEF IsTopRun
<1>3. TopRun(f) = 0
  <2>1. 0 .. Len(f.dbs) = {0}
    BY <1>1
  <2> QED  BY <1>2, <2>1 DEF TopRun
<1>4. DropAsserts(f, f.depth)
  BY <1>1 DEF DropAsserts, Fewer
<1> QED  BY <1>1, <1>3, <1>4 DEF TopRunAsserts

\* The counters of cleaned and of reverted transactions are apart from the
\* stack.
LEMMA CountedFields ==
    ASSUME NEW D, NEW O, NEW f \in FlowType(D, O), NEW g,
           g = [f EXCEPT !.cleaned = @ + 1] \/ g = [f EXCEPT !.reverted = @ + 1]
    PROVE  /\ g \in FlowType(D, O) /\ g.dbs = f.dbs /\ g.persps = f.persps
           /\ g.depth = f.depth /\ g.total = f.total /\ g.db = f.db
<1> DEFINE c == f.cleaned + 1
           r == f.reverted + 1
<1>1. c \in Nat /\ r \in Nat
  BY DEF FlowType
<1>2. g = [f EXCEPT !.cleaned = c] \/ g = [f EXCEPT !.reverted = r]
  OBVIOUS
<1> HIDE DEF c, r
<1>3. CASE g = [f EXCEPT !.cleaned = c]
  BY <1>1, <1>3 DEF FlowType
<1>4. CASE g = [f EXCEPT !.reverted = r]
  BY <1>1, <1>4 DEF FlowType
<1> QED  BY <1>2, <1>3, <1>4

\* popCurrentTXDBs() brings the stack back to Level 0 and keeps the state.
LEMMA CleanedStacked ==
    ASSUME NEW D, NEW O, NEW f \in FlowType(D, O), NEW n \in Nat, Stacked(f, n)
    PROVE  /\ PopCurrentTXDBs(f) \in FlowType(D, O)
           /\ LevelZero(PopCurrentTXDBs(f))
           /\ PopCurrentTXDBs(f).persps[1] = f.persps[1]
           /\ PopCurrentTXDBs(f).db = f.db
<1> DEFINE h == Dropped(f, n)
           g == PopCurrentTXDBs(f)
<1>1. n \in 0 .. n /\ n - n = 0 /\ 1 \in 1 .. n - n + 1
  OBVIOUS
<1>2. h \in FlowType(D, O) /\ Stacked(h, 0) /\ h.persps[1] = f.persps[1] /\ h.db = f.db
  <2>1. /\ h \in FlowType(D, O) /\ Stacked(h, n - n) /\ h.db = f.db
        /\ \A k \in 1 .. n - n + 1 : h.persps[k] = f.persps[k]
    BY <1>1, DroppedStacked
  <2> QED  BY <1>1, <2>1
<1>3. g = [h EXCEPT !.cleaned = @ + 1]
  BY TopRunStacked DEF PopCurrentTXDBs
<1> HIDE DEF g, h
<1>4. /\ g \in FlowType(D, O) /\ g.dbs = h.dbs /\ g.persps = h.persps /\ g.db = h.db
      /\ g.total = h.total
  BY <1>2, <1>3, CountedFields
<1>5. LevelZero(g)
  BY <1>2, <1>4 DEF LevelZero, Stacked, Aligned
<1> QED  BY <1>2, <1>4, <1>5 DEF g

\* It leaves an empty stack empty.
LEMMA CleanedEmptied ==
    ASSUME NEW D, NEW O, NEW f \in FlowType(D, O), Emptied(f)
    PROVE  /\ PopCurrentTXDBs(f) \in FlowType(D, O)
           /\ Emptied(PopCurrentTXDBs(f))
           /\ PopCurrentTXDBs(f).db = f.db
<1> DEFINE a == SubSeq(f.dbs, 1, Len(f.dbs) - 0)
           p == SubSeq(f.persps, 1, Len(f.persps) - 0)
           h == Dropped(f, 0)
           g == PopCurrentTXDBs(f)
<1>1. f.depth = 0 /\ f.total = 0 /\ Fewer(f.depth, 0) = 0 /\ Len(f.dbs) = 0 /\ Len(f.persps) = 0
  BY DEF Emptied, Fewer
<1>2. a \in Seq(Copy(D, O)) /\ Len(a) = 0 /\ p \in Seq(D) /\ Len(p) = 0
  <2>1. f.dbs \in Seq(Copy(D, O)) /\ f.persps \in Seq(D)
    BY DEF FlowType
  <2> QED  BY <1>1, <2>1, Beginning
<1> DEFINE u == f.depth - Fewer(f.depth, 0)
           v == f.total - Fewer(f.depth, 0)
<1>0. u = 0 /\ v = 0
  BY <1>1
<1>3. h = Restacked(f, a, p, u, v)
  BY DEF Dropped, Restacked
<1>4. g = [h EXCEPT !.cleaned = @ + 1]
  BY TopRunEmptied DEF PopCurrentTXDBs
<1> HIDE DEF a, p, h, g, u, v
<1>5. /\ h \in FlowType(D, O) /\ h.dbs = a /\ h.persps = p /\ h.depth = 0 /\ h.total = 0
      /\ h.db = f.db
  BY <1>0, <1>2, <1>3 DEF Restacked, FlowType
<1>6. /\ g \in FlowType(D, O) /\ g.dbs = a /\ g.persps = p /\ g.depth = 0 /\ g.total = 0
      /\ g.db = f.db
  BY <1>4, <1>5, CountedFields
<1> QED  BY <1>2, <1>6 DEF Emptied, g

\* revertTX() brings the stack back to Level 0 and the state back to the one
\* before the transaction's first copy was pushed.
LEMMA RevertedStacked ==
    ASSUME NEW D, NEW O, NEW f \in FlowType(D, O), NEW n \in Nat \ {0}, NEW hit, Stacked(f, n)
    PROVE  /\ RevertTX(f, hit) \in FlowType(D, O)
           /\ LevelZero(RevertTX(f, hit))
           /\ RevertTX(f, hit).persps[1] = f.persps[1]
           /\ RevertTX(f, hit).db = f.persps[2]
<1> DEFINE h == StepBack(f, n, hit)
           g == RevertTX(f, hit)
<1>1. n \in 1 .. n /\ n - n = 0 /\ n - n + 1 = 1 /\ n - n + 2 = 2
  OBVIOUS
<1>2. h \in FlowType(D, O) /\ Stacked(h, 0) /\ h.persps[1] = f.persps[1] /\ h.db = f.persps[2]
  <2>1. /\ h \in FlowType(D, O) /\ Stacked(h, n - n) /\ h.db = f.persps[n - n + 2]
        /\ \A k \in 1 .. n - n + 1 : h.persps[k] = f.persps[k]
    BY <1>1, StepBackStacked
  <2> QED  BY <1>1, <2>1
<1>3. g = [h EXCEPT !.reverted = @ + 1]
  BY TopRunStacked DEF RevertTX
<1> HIDE DEF g, h
<1>4. /\ g \in FlowType(D, O) /\ g.dbs = h.dbs /\ g.persps = h.persps /\ g.db = h.db
      /\ g.total = h.total
  BY <1>2, <1>3, CountedFields
<1>5. LevelZero(g)
  BY <1>2, <1>4 DEF LevelZero, Stacked, Aligned
<1> QED  BY <1>2, <1>4, <1>5 DEF g

\* setCurrentFlowObjectID() changes nothing but the current object.
LEMMA NamedFields ==
    ASSUME NEW D, NEW O, NEW f \in FlowType(D, O), NEW o \in O
    PROVE  /\ [f EXCEPT !.obj = o] \in FlowType(D, O)
           /\ [f EXCEPT !.obj = o].dbs = f.dbs
           /\ [f EXCEPT !.obj = o].persps = f.persps
           /\ [f EXCEPT !.obj = o].total = f.total
           /\ [f EXCEPT !.obj = o].depth = f.depth
           /\ [f EXCEPT !.obj = o].db = f.db
  BY DEF FlowType

\* cleanupFlow() empties the stack.
LEMMA CleanedUpFields ==
    ASSUME NEW D, NEW O, NEW f \in FlowType(D, O)
    PROVE  /\ CleanedUp(f) \in FlowType(D, O)
           /\ CleanedUp(f).dbs = <<>> /\ CleanedUp(f).persps = <<>>
           /\ CleanedUp(f).total = 0
<1>1. <<>> \in Seq(Copy(D, O)) /\ <<>> \in Seq(D)
  OBVIOUS
<1> QED  BY <1>1 DEF FlowType, CleanedUp

\* The first copy of a transaction, in numbers ...
LEMMA PushFirst ==
    ASSUME NEW D, NEW O, NEW f \in FlowType(D, O), NEW d \in D, Stacked(f, 0)
    PROVE  /\ Pushed(f, d) \in FlowType(D, O)
           /\ Stacked(Pushed(f, d), 1)
           /\ Pushed(f, d).persps[1] = f.persps[1]
           /\ Pushed(f, d).persps[2] = d
           /\ Pushed(f, d).db = f.db
           /\ Pushed(f, d).obj = f.obj
<1> DEFINE n == 0
           g == Pushed(f, d)
<1>1. n \in Nat /\ n + 1 < mAllowedInterFlowSteps /\ Stacked(f, n)
  BY StepsAssumption
<1>2. n + 1 = 1
  OBVIOUS
<1>3. f.persps \in Seq(D) /\ Len(f.persps) = 1
  BY DEF FlowType, Stacked, Aligned
<1> HIDE DEF n
<1>4. /\ g \in FlowType(D, O) /\ Stacked(g, n + 1) /\ g.persps = Append(f.persps, d)
      /\ g.db = f.db /\ g.obj = f.obj
  BY <1>1, PushStacked
<1> HIDE DEF g
<1>5. g.persps[1] = f.persps[1] /\ g.persps[2] = d
  BY <1>3, <1>4
<1>6. Stacked(g, 1)
  BY <1>2, <1>4, Zenon
<1> QED  BY <1>4, <1>5, <1>6 DEF g

\* ... and the second one.
LEMMA PushSecond ==
    ASSUME NEW D, NEW O, NEW f \in FlowType(D, O), NEW d \in D, Stacked(f, 1)
    PROVE  /\ Pushed(f, d) \in FlowType(D, O)
           /\ Stacked(Pushed(f, d), 2)
           /\ Pushed(f, d).persps[1] = f.persps[1]
           /\ Pushed(f, d).persps[2] = f.persps[2]
           /\ Pushed(f, d).db = f.db
           /\ Pushed(f, d).obj = f.obj
<1> DEFINE n == 1
           g == Pushed(f, d)
<1>1. n \in Nat /\ n + 1 < mAllowedInterFlowSteps /\ Stacked(f, n)
  BY StepsAssumption
<1>2. n + 1 = 2
  OBVIOUS
<1>3. f.persps \in Seq(D) /\ Len(f.persps) = 2
  BY DEF FlowType, Stacked, Aligned
<1> HIDE DEF n
<1>4. /\ g \in FlowType(D, O) /\ Stacked(g, n + 1) /\ g.persps = Append(f.persps, d)
      /\ g.db = f.db /\ g.obj = f.obj
  BY <1>1, PushStacked
<1> HIDE DEF g
<1>5. g.persps[1] = f.persps[1] /\ g.persps[2] = f.persps[2]
  BY <1>3, <1>4
<1>6. Stacked(g, 2)
  BY <1>2, <1>4, Zenon
<1> QED  BY <1>4, <1>5, <1>6 DEF g
=============================================================================
