-------------------------- MODULE FlowLocksProofs --------------------------
(***************************************************************************)
(* Flows exclude each other, for any number of threads and managers.       *)
(*                                                                         *)
(* The safety invariants of FlowLocks speak of the threads in a Flow or    *)
(* past the gate of startFlow().  They are not inductive: what makes them  *)
(* so is which locks and marks belong to which stage, that mInFlow names   *)
(* the holder of mFlowGuardian, and that a thread whose Flow formBlock()   *)
(* left open finds it when it comes to poll.                               *)
(***************************************************************************)
EXTENDS FlowLocks, TLAPS

\* Flow threads and cleaners keep to their own stages.
Roles ==
    \A t \in Thread :
        IF t \in Cleaner
        THEN pc[t] \in {"idle", "cleanFlow", "cleanFormation", "cleaning"}
        ELSE pc[t] \notin {"cleanFlow", "cleanFormation", "cleaning"}

\* From the gate on, mIsSettingUpFlow is the thread's own.
GateMarked ==
    \A t \in Thread : PastGate(t) => settingUp[managerOf[t]] = t

ChainHeld ==
    \A t \in Thread :
        pc[t] \in {"assert", "flowDB", "setup", "entered", "flow", "closing"}
            => chainGuardian = t

StateDBHeld ==
    \A t \in Thread :
        pc[t] \in {"setup", "entered", "flow", "closing", "unlocked", "left",
                   "cleanFlow", "cleanFormation", "cleaning"}
            => flowDB[managerOf[t]] = t

GuardianHeld ==
    \A t \in Thread :
        pc[t] \in {"entered", "flow", "aborting", "closing", "unlocked", "left",
                   "cleanFormation", "cleaning"}
            => flowGuardian[managerOf[t]] = t

FlowMarked ==
    \A t \in Thread :
        /\ pc[t] \in {"entered", "flow", "closing", "unlocked"} => inFlow[managerOf[t]] = t
        /\ pc[t] = "left" => inFlow[managerOf[t]] = None

\* mInFlow names a thread in that manager's Flow, or one that left it open.
MarkedHolds ==
    \A m \in Manager : \A t \in Thread :
        inFlow[m] = t =>
            /\ managerOf[t] = m
            /\ flowGuardian[m] = t
            /\ flowDB[m] = t
            /\ \/ pc[t] \in {"entered", "flow", "closing", "unlocked"}
               \/ /\ chainGuardian = t
                  /\ pc[t] \in {"idle", "query", "readFlow", "readSetup", "aborting"}
            /\ pc[t] = "readSetup" => sawFlow[t]

IInv == TypeOK /\ Roles /\ GateMarked /\ ChainHeld /\ StateDBHeld /\ GuardianHeld
        /\ FlowMarked /\ MarkedHolds
-----------------------------------------------------------------------------
(* Every step keeps the invariant.                                         *)

\* A step of any action of any thread keeps the inductive invariant.
LEMMA StepKeepsIInv ==
    ASSUME IInv, NEW t \in Thread, Begin(t) \/ CleanLockDB(t) \/ Continue(t)
    PROVE  IInv'
<1> USE LocksAssumption DEF IInv, FlowThread, Thread
<1>1. CASE Begin(t)
  <2>1. TypeOK' /\ Roles'
    BY <1>1 DEF Begin, Goto, TypeOK, Stage, Roles
  <2>2. GateMarked'
    BY <1>1 DEF Begin, Goto, TypeOK, GateMarked, PastGate
  <2>3. ChainHeld' /\ StateDBHeld' /\ GuardianHeld'
    BY <1>1 DEF Begin, Goto, TypeOK, ChainHeld, StateDBHeld, GuardianHeld
  <2>4. FlowMarked' /\ MarkedHolds'
    BY <1>1 DEF Begin, Goto, TypeOK, ChainHeld, StateDBHeld, GuardianHeld, FlowMarked,
       MarkedHolds
  <2>5. QED
    BY <2>1, <2>2, <2>3, <2>4
<1>2. CASE LockQuery(t)
  <2>1. TypeOK' /\ Roles'
    BY <1>2 DEF LockQuery, Goto, TypeOK, Stage, Roles
  <2>2. GateMarked'
    BY <1>2 DEF LockQuery, Goto, TypeOK, GateMarked, PastGate
  <2>3. ChainHeld' /\ StateDBHeld' /\ GuardianHeld'
    BY <1>2 DEF LockQuery, Goto, TypeOK, ChainHeld, StateDBHeld, GuardianHeld
  <2>4. FlowMarked' /\ MarkedHolds'
    BY <1>2 DEF LockQuery, Goto, TypeOK, ChainHeld, StateDBHeld, GuardianHeld,
       FlowMarked, MarkedHolds
  <2>5. QED
    BY <2>1, <2>2, <2>3, <2>4
<1>3. CASE ReadInFlow(t)
  <2>1. TypeOK' /\ Roles'
    BY <1>3 DEF ReadInFlow, Goto, TypeOK, Stage, Roles, locks
  <2>2. GateMarked'
    BY <1>3 DEF ReadInFlow, Goto, TypeOK, GateMarked, PastGate, locks
  <2>3. ChainHeld' /\ StateDBHeld' /\ GuardianHeld'
    BY <1>3 DEF ReadInFlow, Goto, TypeOK, ChainHeld, StateDBHeld, GuardianHeld, locks
  <2>4. FlowMarked' /\ MarkedHolds'
    <3>1. inFlow[managerOf[t]] # None => sawFlow'[t]
      <4>1. sawFlow'[t] = (inFlow[managerOf[t]] # None)
        BY <1>3, Zenon DEF ReadInFlow, TypeOK
      <4>2. QED
        BY <4>1, Zenon
    <3>2. \A u \in Thread : pc'[u] = "readSetup" /\ u # t
                             => pc[u] = "readSetup" /\ sawFlow'[u] = sawFlow[u]
      BY <1>3 DEF ReadInFlow, Goto, TypeOK
    <3>3. QED
      BY <1>3, <3>1, <3>2 DEF ReadInFlow, Goto, TypeOK, FlowMarked, MarkedHolds, locks
  <2>5. QED
    BY <2>1, <2>2, <2>3, <2>4
<1>4. CASE ReadSettingUp(t)
  <2>1. TypeOK' /\ Roles'
    BY <1>4 DEF ReadSettingUp, Goto, TypeOK, Stage, Roles
  <2>2. GateMarked'
    BY <1>4 DEF ReadSettingUp, Goto, TypeOK, GateMarked, PastGate
  <2>3. ChainHeld' /\ StateDBHeld' /\ GuardianHeld'
    BY <1>4 DEF ReadSettingUp, Goto, TypeOK, ChainHeld, StateDBHeld, GuardianHeld
  <2>4. FlowMarked' /\ MarkedHolds'
    BY <1>4 DEF ReadSettingUp, Goto, TypeOK, ChainHeld, StateDBHeld, GuardianHeld,
       FlowMarked, MarkedHolds
  <2>5. QED
    BY <2>1, <2>2, <2>3, <2>4
<1>5. CASE LockChain(t)
  <2>1. TypeOK' /\ Roles'
    BY <1>5 DEF LockChain, Goto, TypeOK, Stage, Roles
  <2>2. GateMarked'
    BY <1>5 DEF LockChain, Goto, TypeOK, GateMarked, PastGate
  <2>3. ChainHeld' /\ StateDBHeld' /\ GuardianHeld'
    BY <1>5 DEF LockChain, Goto, TypeOK, ChainHeld, StateDBHeld, GuardianHeld
  <2>4. FlowMarked' /\ MarkedHolds'
    BY <1>5 DEF LockChain, Goto, TypeOK, ChainHeld, StateDBHeld, GuardianHeld,
       FlowMarked, MarkedHolds
  <2>5. QED
    BY <2>1, <2>2, <2>3, <2>4
<1>6. CASE CheckNotInFlow(t)
  <2>1. TypeOK' /\ Roles'
    <3>1. CASE inFlow[managerOf[t]] # None
      <4>1. aborted' = TRUE
        BY <1>6, <3>1 DEF CheckNotInFlow
      <4>2. aborted' \in BOOLEAN
        BY <4>1
      <4>3. QED
        BY <1>6, <3>1, <4>2 DEF CheckNotInFlow, TypeOK, Stage, Roles
    <3>2. CASE inFlow[managerOf[t]] = None
      BY <1>6, <3>2 DEF CheckNotInFlow, Goto, TypeOK, Stage, Roles
    <3>3. QED
      BY <3>1, <3>2
  <2>2. GateMarked'
    BY <1>6 DEF CheckNotInFlow, Goto, TypeOK, GateMarked, PastGate
  <2>3. ChainHeld' /\ StateDBHeld' /\ GuardianHeld'
    BY <1>6 DEF CheckNotInFlow, Goto, TypeOK, ChainHeld, StateDBHeld, GuardianHeld
  <2>4. FlowMarked' /\ MarkedHolds'
    BY <1>6 DEF CheckNotInFlow, Goto, TypeOK, ChainHeld, StateDBHeld, GuardianHeld,
       FlowMarked, MarkedHolds
  <2>5. QED
    BY <2>1, <2>2, <2>3, <2>4
<1>7. CASE LockFlowDB(t)
  <2>1. TypeOK' /\ Roles'
    BY <1>7 DEF LockFlowDB, Goto, TypeOK, Stage, Roles
  <2>2. GateMarked'
    BY <1>7 DEF LockFlowDB, Goto, TypeOK, GateMarked, PastGate
  <2>3. ChainHeld' /\ StateDBHeld' /\ GuardianHeld'
    BY <1>7 DEF LockFlowDB, Goto, TypeOK, ChainHeld, StateDBHeld, GuardianHeld
  <2>4. FlowMarked' /\ MarkedHolds'
    BY <1>7 DEF LockFlowDB, Goto, TypeOK, ChainHeld, StateDBHeld, GuardianHeld,
       FlowMarked, MarkedHolds
  <2>5. QED
    BY <2>1, <2>2, <2>3, <2>4
<1>8. CASE SetupFails(t)
  <2>1. TypeOK' /\ Roles'
    BY <1>8 DEF SetupFails, Goto, TypeOK, Stage, Roles
  <2>2. GateMarked'
    BY <1>8 DEF SetupFails, Goto, TypeOK, GateMarked, PastGate
  <2>3. ChainHeld' /\ StateDBHeld' /\ GuardianHeld'
    BY <1>8 DEF SetupFails, Goto, TypeOK, ChainHeld, StateDBHeld, GuardianHeld
  <2>4. FlowMarked' /\ MarkedHolds'
    BY <1>8 DEF SetupFails, Goto, TypeOK, ChainHeld, StateDBHeld, GuardianHeld,
       FlowMarked, MarkedHolds
  <2>5. QED
    BY <2>1, <2>2, <2>3, <2>4
<1>9. CASE EnterFlow(t)
  <2>1. TypeOK' /\ Roles'
    BY <1>9 DEF EnterFlow, Goto, TypeOK, Stage, Roles
  <2>2. GateMarked'
    BY <1>9 DEF EnterFlow, Goto, TypeOK, GateMarked, PastGate
  <2>3. ChainHeld' /\ StateDBHeld' /\ GuardianHeld'
    BY <1>9 DEF EnterFlow, Goto, TypeOK, ChainHeld, StateDBHeld, GuardianHeld
  <2>4. FlowMarked' /\ MarkedHolds'
    BY <1>9 DEF EnterFlow, Goto, TypeOK, ChainHeld, StateDBHeld, GuardianHeld,
       FlowMarked, MarkedHolds
  <2>5. QED
    BY <2>1, <2>2, <2>3, <2>4
<1>10. CASE EndSetup(t)
  <2>1. TypeOK' /\ Roles'
    BY <1>10 DEF EndSetup, Goto, TypeOK, Stage, Roles, locks
  <2>2. GateMarked'
    BY <1>10 DEF EndSetup, Goto, TypeOK, GateMarked, PastGate, locks
  <2>3. ChainHeld' /\ StateDBHeld' /\ GuardianHeld'
    BY <1>10 DEF EndSetup, Goto, TypeOK, ChainHeld, StateDBHeld, GuardianHeld, locks
  <2>4. FlowMarked' /\ MarkedHolds'
    BY <1>10 DEF EndSetup, Goto, TypeOK, ChainHeld, StateDBHeld, GuardianHeld,
       FlowMarked, MarkedHolds, locks
  <2>5. QED
    BY <2>1, <2>2, <2>3, <2>4
<1>11. CASE CallerOfFailed(t)
  <2>1. TypeOK' /\ Roles'
    <3>1. CASE t \in BlockProcessor
      BY <1>11, <3>1 DEF CallerOfFailed, Goto, TypeOK, Stage, Roles, locks
    <3>2. CASE t \notin BlockProcessor
      <4>1. aborted' = TRUE
        BY <1>11, <3>2 DEF CallerOfFailed
      <4>2. aborted' \in BOOLEAN
        BY <4>1
      <4>3. QED
        BY <1>11, <3>2, <4>2 DEF CallerOfFailed, TypeOK, Stage, Roles, locks
    <3>3. QED
      BY <3>1, <3>2
  <2>2. GateMarked'
    BY <1>11 DEF CallerOfFailed, Goto, TypeOK, GateMarked, PastGate, locks
  <2>3. ChainHeld' /\ StateDBHeld' /\ GuardianHeld'
    BY <1>11 DEF CallerOfFailed, Goto, TypeOK, ChainHeld, StateDBHeld, GuardianHeld,
       locks
  <2>4. FlowMarked' /\ MarkedHolds'
    BY <1>11 DEF CallerOfFailed, Goto, TypeOK, ChainHeld, StateDBHeld, GuardianHeld,
       FlowMarked, MarkedHolds, locks
  <2>5. QED
    BY <2>1, <2>2, <2>3, <2>4
<1>12. CASE AbortFlow(t)
  <2>1. TypeOK' /\ Roles'
    BY <1>12 DEF AbortFlow, Goto, TypeOK, Stage, Roles
  <2>2. GateMarked'
    BY <1>12 DEF AbortFlow, Goto, TypeOK, GateMarked, PastGate
  <2>3. ChainHeld' /\ StateDBHeld' /\ GuardianHeld'
    BY <1>12 DEF AbortFlow, Goto, TypeOK, ChainHeld, StateDBHeld, GuardianHeld,
               FlowMarked, MarkedHolds
  <2>4. FlowMarked' /\ MarkedHolds'
    BY <1>12 DEF AbortFlow, Goto, TypeOK, ChainHeld, StateDBHeld, GuardianHeld,
       FlowMarked, MarkedHolds
  <2>5. QED
    BY <2>1, <2>2, <2>3, <2>4
<1>13. CASE CheckInFlow(t)
  <2>1. TypeOK' /\ Roles'
    BY <1>13 DEF CheckInFlow, Goto, TypeOK, Stage, Roles
  <2>2. GateMarked'
    BY <1>13 DEF CheckInFlow, Goto, TypeOK, GateMarked, PastGate
  <2>3. inFlow[managerOf[t]] # None
          => /\ inFlow[managerOf[t]] = t
             /\ chainGuardian = t
             /\ flowDB[managerOf[t]] = t
    BY <1>13 DEF CheckInFlow, TypeOK, GuardianHeld, MarkedHolds
  <2>4. ChainHeld' /\ StateDBHeld' /\ GuardianHeld'
    BY <1>13, <2>3 DEF CheckInFlow, Goto, TypeOK, ChainHeld, StateDBHeld, GuardianHeld
  <2>5. FlowMarked' /\ MarkedHolds'
    BY <1>13, <2>3 DEF CheckInFlow, Goto, TypeOK, GuardianHeld, FlowMarked, MarkedHolds
  <2>6. QED
    BY <2>1, <2>2, <2>4, <2>5
<1>14. CASE UnlockChain(t)
  <2>1. TypeOK' /\ Roles'
    BY <1>14 DEF UnlockChain, Goto, TypeOK, Stage, Roles
  <2>2. GateMarked'
    BY <1>14 DEF UnlockChain, Goto, TypeOK, GateMarked, PastGate
  <2>3. ChainHeld' /\ StateDBHeld' /\ GuardianHeld'
    BY <1>14 DEF UnlockChain, Goto, TypeOK, ChainHeld, StateDBHeld, GuardianHeld
  <2>4. FlowMarked' /\ MarkedHolds'
    BY <1>14 DEF UnlockChain, Goto, TypeOK, ChainHeld, StateDBHeld, GuardianHeld,
       FlowMarked, MarkedHolds
  <2>5. QED
    BY <2>1, <2>2, <2>3, <2>4
<1>15. CASE LeaveFlow(t)
  <2>1. TypeOK' /\ Roles'
    BY <1>15 DEF LeaveFlow, Goto, TypeOK, Stage, Roles, locks
  <2>2. GateMarked'
    BY <1>15 DEF LeaveFlow, Goto, TypeOK, GateMarked, PastGate, locks
  <2>3. ChainHeld' /\ StateDBHeld' /\ GuardianHeld'
    BY <1>15 DEF LeaveFlow, Goto, TypeOK, ChainHeld, StateDBHeld, GuardianHeld, locks
  <2>4. FlowMarked' /\ MarkedHolds'
    BY <1>15 DEF LeaveFlow, Goto, TypeOK, ChainHeld, StateDBHeld, GuardianHeld,
       FlowMarked, MarkedHolds, locks
  <2>5. QED
    BY <2>1, <2>2, <2>3, <2>4
<1>16. CASE Return(t)
  <2>1. TypeOK' /\ Roles'
    BY <1>16 DEF Return, Goto, TypeOK, Stage, Roles, WithoutFormation
  <2>2. GateMarked'
    BY <1>16 DEF Return, Goto, TypeOK, GateMarked, PastGate
  <2>3. ChainHeld' /\ StateDBHeld' /\ GuardianHeld'
    BY <1>16 DEF Return, Goto, TypeOK, ChainHeld, StateDBHeld, GuardianHeld
  <2>4. FlowMarked' /\ MarkedHolds'
    BY <1>16 DEF Return, Goto, TypeOK, ChainHeld, StateDBHeld, GuardianHeld,
       FlowMarked, MarkedHolds
  <2>5. QED
    BY <2>1, <2>2, <2>3, <2>4
<1>17. CASE ReturnWithoutAbort(t)
  <2>1. TypeOK' /\ Roles'
    BY <1>17 DEF ReturnWithoutAbort, Goto, TypeOK, Stage, Roles, WithoutFormation
  <2>2. GateMarked'
    BY <1>17 DEF ReturnWithoutAbort, Goto, TypeOK, GateMarked, PastGate
  <2>3. ChainHeld' /\ StateDBHeld' /\ GuardianHeld'
    BY <1>17 DEF ReturnWithoutAbort, Goto, TypeOK, ChainHeld, StateDBHeld, GuardianHeld
  <2>4. FlowMarked' /\ MarkedHolds'
    BY <1>17 DEF ReturnWithoutAbort, Goto, TypeOK, ChainHeld, StateDBHeld,
       GuardianHeld, FlowMarked, MarkedHolds
  <2>5. QED
    BY <2>1, <2>2, <2>3, <2>4
<1>18. CASE CleanLockDB(t)
  <2>1. TypeOK' /\ Roles'
    BY <1>18 DEF CleanLockDB, Goto, TypeOK, Stage, Roles
  <2>2. GateMarked'
    BY <1>18 DEF CleanLockDB, Goto, TypeOK, GateMarked, PastGate
  <2>3. ChainHeld' /\ StateDBHeld' /\ GuardianHeld'
    BY <1>18 DEF CleanLockDB, Goto, TypeOK, ChainHeld, StateDBHeld, GuardianHeld
  <2>4. FlowMarked' /\ MarkedHolds'
    BY <1>18 DEF CleanLockDB, Goto, TypeOK, ChainHeld, StateDBHeld, GuardianHeld,
       FlowMarked, MarkedHolds
  <2>5. QED
    BY <2>1, <2>2, <2>3, <2>4
<1>19. CASE CleanLockFlow(t)
  <2>1. TypeOK' /\ Roles'
    BY <1>19 DEF CleanLockFlow, Goto, TypeOK, Stage, Roles
  <2>2. GateMarked'
    BY <1>19 DEF CleanLockFlow, Goto, TypeOK, GateMarked, PastGate
  <2>3. ChainHeld' /\ StateDBHeld' /\ GuardianHeld'
    BY <1>19 DEF CleanLockFlow, Goto, TypeOK, ChainHeld, StateDBHeld, GuardianHeld
  <2>4. FlowMarked' /\ MarkedHolds'
    BY <1>19 DEF CleanLockFlow, Goto, TypeOK, ChainHeld, StateDBHeld, GuardianHeld,
       FlowMarked, MarkedHolds
  <2>5. QED
    BY <2>1, <2>2, <2>3, <2>4
<1>20. CASE CleanLockFormation(t)
  <2>1. TypeOK' /\ Roles'
    BY <1>20 DEF CleanLockFormation, Goto, TypeOK, Stage, Roles
  <2>2. GateMarked'
    BY <1>20 DEF CleanLockFormation, Goto, TypeOK, GateMarked, PastGate
  <2>3. ChainHeld' /\ StateDBHeld' /\ GuardianHeld'
    BY <1>20 DEF CleanLockFormation, Goto, TypeOK, ChainHeld, StateDBHeld, GuardianHeld
  <2>4. FlowMarked' /\ MarkedHolds'
    BY <1>20 DEF CleanLockFormation, Goto, TypeOK, ChainHeld, StateDBHeld,
       GuardianHeld, FlowMarked, MarkedHolds
  <2>5. QED
    BY <2>1, <2>2, <2>3, <2>4
<1>21. CASE CleanReturn(t)
  <2>1. TypeOK' /\ Roles'
    BY <1>21 DEF CleanReturn, Goto, TypeOK, Stage, Roles
  <2>2. GateMarked'
    BY <1>21 DEF CleanReturn, Goto, TypeOK, GateMarked, PastGate
  <2>3. ChainHeld' /\ StateDBHeld' /\ GuardianHeld'
    BY <1>21 DEF CleanReturn, Goto, TypeOK, ChainHeld, StateDBHeld, GuardianHeld
  <2>4. FlowMarked' /\ MarkedHolds'
    BY <1>21 DEF CleanReturn, Goto, TypeOK, ChainHeld, StateDBHeld, GuardianHeld,
       FlowMarked, MarkedHolds
  <2>5. QED
    BY <2>1, <2>2, <2>3, <2>4
<1>22. QED
  BY <1>1, <1>2, <1>3, <1>4, <1>5, <1>6, <1>7, <1>8, <1>9, <1>10, <1>11, <1>12, <1>13,
     <1>14, <1>15, <1>16, <1>17, <1>18, <1>19, <1>20, <1>21
     DEF Continue

-----------------------------------------------------------------------------
(* The theorems.                                                           *)

\* At the start nobody holds anything.
LEMMA InitIInv == Init => IInv
<1> SUFFICES ASSUME Init PROVE IInv
  OBVIOUS
<1> USE LocksAssumption DEF Init, FlowThread, Thread
<1>1. TypeOK /\ Roles
  BY DEF TypeOK, Stage, Roles
<1>2. GateMarked /\ ChainHeld /\ StateDBHeld /\ GuardianHeld /\ FlowMarked /\ MarkedHolds
  BY DEF GateMarked, PastGate, ChainHeld, StateDBHeld, GuardianHeld, FlowMarked, MarkedHolds
<1>3. QED
  BY <1>1, <1>2 DEF IInv

\* The inductive invariant speaks of the variables only.
LEMMA StutterKeepsIInv == IInv /\ UNCHANGED vars => IInv'
BY DEF IInv, vars, TypeOK, Roles, GateMarked, PastGate, ChainHeld, StateDBHeld,
       GuardianHeld, FlowMarked, MarkedHolds

\* The locks and marks belong to the stages at all times, whatever the threads
\* and the managers they share.
THEOREM Invariance == Spec => []IInv
<1>1. IInv /\ [Next]_vars => IInv'
  <2> SUFFICES ASSUME IInv, [Next]_vars PROVE IInv'
    OBVIOUS
  <2>1. CASE Next
    <3>1. PICK t \in Thread : Begin(t) \/ CleanLockDB(t) \/ Continue(t)
      BY <2>1 DEF Next
    <3>2. QED
      BY <3>1, StepKeepsIInv
  <2>2. CASE UNCHANGED vars
    BY <2>2, StutterKeepsIInv
  <2>3. QED
    BY <2>1, <2>2
<1>2. QED
  BY InitIInv, <1>1, PTL DEF Spec

\* Type correctness of the locks and marks of startFlow() and its callers.
THEOREM TypeCorrectness == Spec => []TypeOK
<1>1. IInv => TypeOK
  BY DEF IInv
<1>2. QED
  BY Invariance, <1>1, PTL

\* At most one Flow is open in the whole node: its thread holds the chain
\* guardian, the state DB and mFlowGuardian from setIsInFlow(true) until
\* abortFlow() or endFlow() gives the chain guardian back, also when formBlock()
\* returned without ending it.
THEOREM FlowsExclude == Spec => []OneFlow
<1>1. IInv => OneFlow
  BY LocksAssumption
  DEF IInv, TypeOK, OneFlow, FlowIsOpen, LeftOpen, FlowThread, Thread, ChainHeld,
      StateDBHeld, GuardianHeld, FlowMarked, MarkedHolds
<1>2. QED
  BY Invariance, <1>1, PTL

\* The gate of startFlow() lets one thread of a manager through at a time.
THEOREM GateExcludes == Spec => []OneSetup
<1>1. IInv => OneSetup
  BY LocksAssumption DEF IInv, OneSetup, FlowThread, Thread, GateMarked
<1>2. QED
  BY Invariance, <1>1, PTL

\* abortFlow() and endFlow() close nobody else's Flow, and cleanMemPool() never
\* works during one.
THEOREM OwnFlowClosed == Spec => []OnlyOwnFlowIsClosed
<1>1. IInv => OnlyOwnFlowIsClosed
  <2> SUFFICES ASSUME IInv PROVE OnlyOwnFlowIsClosed
    OBVIOUS
  <2> USE LocksAssumption DEF FlowThread, Thread
  <2>1. \A t \in FlowThread :
          pc[t] \in {"closing", "unlocked"} => inFlow[managerOf[t]] = t
    BY DEF IInv, FlowMarked
  <2>2. ASSUME NEW t \in Cleaner, pc[t] = "cleaning"
        PROVE  inFlow[managerOf[t]] = None
    <3>1. flowGuardian[managerOf[t]] = t
      BY <2>2 DEF IInv, GuardianHeld
    <3>2. inFlow[managerOf[t]] # t
      BY <2>2 DEF IInv, MarkedHolds
    <3>3. QED
      BY <3>1, <3>2 DEF IInv, TypeOK, MarkedHolds
  <2>3. QED
    BY <2>1, <2>2 DEF OnlyOwnFlowIsClosed
<1>2. QED
  BY Invariance, <1>1, PTL
=============================================================================
