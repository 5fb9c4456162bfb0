----------------------------- MODULE FlowLocks -----------------------------
(***************************************************************************)
(* Who may be in a Flow, and when: startFlow(), abortFlow(), endFlow() and *)
(* cleanMemPool() of CTransactionManager, as the threads of a node call    *)
(* them.                                                                   *)
(*                                                                         *)
(* A node runs a key block factory and a data block factory, which share   *)
(* the formation manager with the thread that cleans its mem-pool, and a   *)
(* block processor with a verification manager of its own.  The chain      *)
(* guardian is common to all.  A Flow keeps the chain guardian, its        *)
(* manager's state DB and its manager's mFlowGuardian locked from          *)
(* startFlow() to abortFlow() or endFlow().                                *)
(*                                                                         *)
(* The guardians that startFlow() and abortFlow() take on top of these for *)
(* their own duration are left out, and so are the chain guardian's short  *)
(* critical sections elsewhere.  No caller sets abortOnLock.               *)
(***************************************************************************)
EXTENDS Naturals

CONSTANTS
    Manager,            \* the transaction managers that have Flows
    KeyFactory, DataFactory, BlockProcessor, Cleaner,   \* sets of threads
    managerOf,          \* the manager each thread works with
    None                \* no thread

FlowThread == KeyFactory \cup DataFactory \cup BlockProcessor
Thread == FlowThread \cup Cleaner

ASSUME LocksAssumption ==
    /\ managerOf \in [Thread -> Manager]
    /\ None \notin Thread
    /\ Cleaner \cap FlowThread = {}
    /\ BlockProcessor \cap (KeyFactory \cup DataFactory) = {}
    /\ KeyFactory \cap DataFactory = {}

VARIABLES
    pc,             \* where each thread is
    sawFlow,        \* the local variable inFlow of startFlow()
    chainGuardian,  \* holder of mChainGuardian
    query,          \* holders of mInitialStatusQueryGuardian
    flowDB,         \* holders of mFlowStateDB's lock
    flowGuardian,   \* holders of mFlowGuardian
    formation,      \* holders of mDataBlockFormationGuardian
    inFlow,         \* mInFlow: the thread that is in a Flow
    settingUp,      \* mIsSettingUpFlow: the thread about to start one
    aborted         \* a failed assertGN ended the process

locks == <<chainGuardian, query, flowDB, flowGuardian, formation>>
vars == <<pc, sawFlow, chainGuardian, query, flowDB, flowGuardian, formation,
          inFlow, settingUp, aborted>>

Goto(t, stage) == pc' = [pc EXCEPT ![t] = stage]

-----------------------------------------------------------------------------
(* startFlow().                                                            *)

\* A thread sets out to start a Flow.  The data block factory locks
\* mDataBlockFormationGuardian around formBlock().
Begin(t) ==
    /\ t \in FlowThread /\ pc[t] = "idle"
    /\ IF t \in DataFactory
       THEN /\ formation[managerOf[t]] = None
            /\ formation' = [formation EXCEPT ![managerOf[t]] = t]
       ELSE UNCHANGED formation
    /\ Goto(t, "query")
    /\ UNCHANGED <<sawFlow, chainGuardian, query, flowDB, flowGuardian, inFlow,
                   settingUp, aborted>>

LockQuery(t) ==
    /\ pc[t] = "query" /\ query[managerOf[t]] = None
    /\ query' = [query EXCEPT ![managerOf[t]] = t]
    /\ Goto(t, "readFlow")
    /\ UNCHANGED <<sawFlow, chainGuardian, flowDB, flowGuardian, formation, inFlow,
                   settingUp, aborted>>

\* Mutant: the thread ID for the flag.
ReadInFlowAsId(t) ==
    /\ pc[t] = "readFlow"
    /\ sawFlow' = [sawFlow EXCEPT ![t] = inFlow[managerOf[t]]]
    /\ Goto(t, "readSetup")
    /\ UNCHANGED <<locks, inFlow, settingUp, aborted>>

ReadInFlow(t) ==
    /\ pc[t] = "readFlow"
    /\ sawFlow' = [sawFlow EXCEPT ![t] = inFlow[managerOf[t]] # None]
    /\ Goto(t, "readSetup")
    /\ UNCHANGED <<locks, inFlow, settingUp, aborted>>

\* Mutant: only a Flow that has started makes a thread wait.
ReadSettingUpIgnored(t) ==
    /\ pc[t] = "readSetup"
    /\ settingUp' = [settingUp EXCEPT ![managerOf[t]] = t]
    /\ query' = IF sawFlow[t] THEN [query EXCEPT ![managerOf[t]] = None] ELSE query
    /\ Goto(t, IF sawFlow[t] THEN "query" ELSE "chain")
    /\ UNCHANGED <<sawFlow, chainGuardian, flowDB, flowGuardian, formation, inFlow, aborted>>

\* Unless somebody else is setting up a Flow this thread is, from now on; it
\* keeps the query guardian and goes on when nobody is in a Flow either, and
\* otherwise releases it and polls again.
ReadSettingUp(t) ==
    /\ pc[t] = "readSetup"
    /\ LET m    == managerOf[t]
           else == settingUp[m] \notin {None, t}
           wait == sawFlow[t] \/ else
       IN  /\ settingUp' = IF else THEN settingUp ELSE [settingUp EXCEPT ![m] = t]
           /\ query' = IF wait THEN [query EXCEPT ![m] = None] ELSE query
           /\ Goto(t, IF wait THEN "query" ELSE "chain")
    /\ UNCHANGED <<sawFlow, chainGuardian, flowDB, flowGuardian, formation, inFlow, aborted>>

\* Mutant: the chain guardian is not exclusive.
LockChainShared(t) ==
    /\ pc[t] = "chain"
    /\ chainGuardian' = t
    /\ Goto(t, "assert")
    /\ UNCHANGED <<sawFlow, query, flowDB, flowGuardian, formation, inFlow, settingUp, aborted>>

LockChain(t) ==
    /\ pc[t] = "chain" /\ chainGuardian = None
    /\ chainGuardian' = t
    /\ Goto(t, "assert")
    /\ UNCHANGED <<sawFlow, query, flowDB, flowGuardian, formation, inFlow, settingUp, aborted>>

\* "if (getIsInFlow() && !abortOnLock) assertGN(false);//this should not happen"
CheckNotInFlow(t) ==
    /\ pc[t] = "assert"
    /\ IF inFlow[managerOf[t]] # None
       THEN /\ aborted' = TRUE
            /\ UNCHANGED <<pc, settingUp, query>>
       ELSE /\ settingUp' = [settingUp EXCEPT ![managerOf[t]] = t]
            /\ query' = [query EXCEPT ![managerOf[t]] = None]
            /\ Goto(t, "flowDB")
            /\ UNCHANGED aborted
    /\ UNCHANGED <<sawFlow, chainGuardian, flowDB, flowGuardian, formation, inFlow>>

LockFlowDB(t) ==
    /\ pc[t] = "flowDB" /\ flowDB[managerOf[t]] = None
    /\ flowDB' = [flowDB EXCEPT ![managerOf[t]] = t]
    /\ Goto(t, "setup")
    /\ UNCHANGED <<sawFlow, chainGuardian, query, flowGuardian, formation, inFlow,
                   settingUp, aborted>>

\* The initial Perspective cannot be reached: "Clean State".
SetupFails(t) ==
    /\ pc[t] = "setup"
    /\ chainGuardian' = None
    /\ settingUp' = [settingUp EXCEPT ![managerOf[t]] = IF @ = t THEN None ELSE @]
    /\ flowDB' = [flowDB EXCEPT ![managerOf[t]] = None]
    /\ Goto(t, "failed")
    /\ UNCHANGED <<sawFlow, query, flowGuardian, formation, inFlow, aborted>>

\* setIsInFlow(true).
EnterFlow(t) ==
    /\ pc[t] = "setup" /\ flowGuardian[managerOf[t]] = None
    /\ inFlow' = [inFlow EXCEPT ![managerOf[t]] = t]
    /\ flowGuardian' = [flowGuardian EXCEPT ![managerOf[t]] = t]
    /\ Goto(t, "entered")
    /\ UNCHANGED <<sawFlow, chainGuardian, query, flowDB, formation, settingUp, aborted>>

\* Mutant: setIsSettingUpFlow(false) is missing.
EndSetupKeepsMark(t) ==
    /\ pc[t] = "entered"
    /\ Goto(t, "flow")
    /\ UNCHANGED <<sawFlow, locks, inFlow, settingUp, aborted>>

\* setIsSettingUpFlow(false), then the caller goes on in its Flow.
EndSetup(t) ==
    /\ pc[t] = "entered"
    /\ settingUp' = [settingUp EXCEPT ![managerOf[t]] = IF @ = t THEN None ELSE @]
    /\ Goto(t, "flow")
    /\ UNCHANGED <<sawFlow, locks, inFlow, aborted>>

\* The callers of a startFlow() that failed: formBlock() asserts that it does
\* not, processBlock() calls abortFlow() nevertheless, validateBlock() returns.
CallerOfFailed(t) ==
    /\ pc[t] = "failed"
    /\ IF t \in BlockProcessor
       THEN /\ \E stage \in {"unowned", "idle"} : Goto(t, stage)
            /\ UNCHANGED aborted
       ELSE /\ aborted' = TRUE
            /\ UNCHANGED pc
    /\ UNCHANGED <<sawFlow, locks, inFlow, settingUp>>

-----------------------------------------------------------------------------
(* abortFlow() and endFlow().                                              *)

\* Leaving formBlock() gives mDataBlockFormationGuardian back.
WithoutFormation(t) ==
    [formation EXCEPT ![managerOf[t]] = IF t \in DataFactory /\ @ = t THEN None ELSE @]

\* mFlowGuardian is recursive: it blocks all but the thread whose Flow it is.
AbortFlow(t) ==
    /\ pc[t] \in {"flow", "unowned"}
    /\ flowGuardian[managerOf[t]] \in {None, t}
    /\ flowGuardian' = [flowGuardian EXCEPT ![managerOf[t]] = t]
    /\ Goto(t, "aborting")
    /\ UNCHANGED <<sawFlow, chainGuardian, query, flowDB, formation, inFlow, settingUp, aborted>>

\* Mutant: abortFlow() does not ask whether there is a Flow to end.
CheckInFlowUnasked(t) ==
    /\ pc[t] = "aborting"
    /\ flowDB[managerOf[t]] \in {None, t}
    /\ Goto(t, "closing")
    /\ UNCHANGED <<sawFlow, locks, inFlow, settingUp, aborted>>

\* With the state DB locked as well: without a Flow there is nothing to end.
CheckInFlow(t) ==
    /\ pc[t] = "aborting"
    /\ flowDB[managerOf[t]] \in {None, t}
    /\ IF inFlow[managerOf[t]] = None
       THEN Goto(t, "idle") /\ flowGuardian' = [flowGuardian EXCEPT ![managerOf[t]] = None]
       ELSE Goto(t, "closing") /\ UNCHANGED flowGuardian
    /\ UNCHANGED <<sawFlow, chainGuardian, query, flowDB, formation, inFlow, settingUp, aborted>>

\* The state is cleaned up, then the chain guardian is released first.
UnlockChain(t) ==
    /\ pc[t] = "closing"
    /\ chainGuardian' = None
    /\ Goto(t, "unlocked")
    /\ UNCHANGED <<sawFlow, query, flowDB, flowGuardian, formation, inFlow, settingUp, aborted>>

\* setIsInFlow(false).
LeaveFlow(t) ==
    /\ pc[t] = "unlocked"
    /\ inFlow' = [inFlow EXCEPT ![managerOf[t]] = None]
    /\ Goto(t, "left")
    /\ UNCHANGED <<sawFlow, locks, settingUp, aborted>>

Return(t) ==
    /\ pc[t] = "left"
    /\ flowDB' = [flowDB EXCEPT ![managerOf[t]] = None]
    /\ flowGuardian' = [flowGuardian EXCEPT ![managerOf[t]] = None]
    /\ formation' = WithoutFormation(t)
    /\ Goto(t, "idle")
    /\ UNCHANGED <<sawFlow, chainGuardian, query, inFlow, settingUp, aborted>>

\* The returns of formBlock() that do not call abortFlow(): an epoch reward
\* cannot be calculated, or the reward cannot be processed.
ReturnWithoutAbort(t) ==
    /\ pc[t] = "flow" /\ t \notin BlockProcessor
    /\ formation' = WithoutFormation(t)
    /\ Goto(t, "idle")
    /\ UNCHANGED <<sawFlow, chainGuardian, query, flowDB, flowGuardian, inFlow,
                   settingUp, aborted>>

-----------------------------------------------------------------------------
(* cleanMemPool(): the state DB, mFlowGuardian, mDataBlockFormationGuardian. *)

CleanLockDB(t) ==
    /\ t \in Cleaner /\ pc[t] = "idle" /\ flowDB[managerOf[t]] = None
    /\ flowDB' = [flowDB EXCEPT ![managerOf[t]] = t]
    /\ Goto(t, "cleanFlow")
    /\ UNCHANGED <<sawFlow, chainGuardian, query, flowGuardian, formation, inFlow,
                   settingUp, aborted>>

CleanLockFlow(t) ==
    /\ pc[t] = "cleanFlow" /\ flowGuardian[managerOf[t]] = None
    /\ flowGuardian' = [flowGuardian EXCEPT ![managerOf[t]] = t]
    /\ Goto(t, "cleanFormation")
    /\ UNCHANGED <<sawFlow, chainGuardian, query, flowDB, formation, inFlow, settingUp, aborted>>

CleanLockFormation(t) ==
    /\ pc[t] = "cleanFormation" /\ formation[managerOf[t]] = None
    /\ formation' = [formation EXCEPT ![managerOf[t]] = t]
    /\ Goto(t, "cleaning")
    /\ UNCHANGED <<sawFlow, chainGuardian, query, flowDB, flowGuardian, inFlow,
                   settingUp, aborted>>

CleanReturn(t) ==
    /\ pc[t] = "cleaning"
    /\ flowDB' = [flowDB EXCEPT ![managerOf[t]] = None]
    /\ flowGuardian' = [flowGuardian EXCEPT ![managerOf[t]] = None]
    /\ formation' = [formation EXCEPT ![managerOf[t]] = None]
    /\ Goto(t, "idle")
    /\ UNCHANGED <<sawFlow, chainGuardian, query, inFlow, settingUp, aborted>>

-----------------------------------------------------------------------------
Init ==
    /\ pc = [t \in Thread |-> "idle"]
    /\ sawFlow = [t \in Thread |-> FALSE]
    /\ chainGuardian = None
    /\ query = [m \in Manager |-> None]
    /\ flowDB = [m \in Manager |-> None]
    /\ flowGuardian = [m \in Manager |-> None]
    /\ formation = [m \in Manager |-> None]
    /\ inFlow = [m \in Manager |-> None]
    /\ settingUp = [m \in Manager |-> None]
    /\ aborted = FALSE

\* What a thread that has begun goes on to do.
Continue(t) ==
    \/ LockQuery(t) \/ ReadInFlow(t) \/ ReadSettingUp(t) \/ LockChain(t)
    \/ CheckNotInFlow(t) \/ LockFlowDB(t) \/ SetupFails(t) \/ EnterFlow(t)
    \/ EndSetup(t) \/ CallerOfFailed(t)
    \/ AbortFlow(t) \/ CheckInFlow(t) \/ UnlockChain(t) \/ LeaveFlow(t) \/ Return(t)
    \/ ReturnWithoutAbort(t)
    \/ CleanLockFlow(t) \/ CleanLockFormation(t) \/ CleanReturn(t)

Next == ~aborted /\ \E t \in Thread : Begin(t) \/ CleanLockDB(t) \/ Continue(t)

(***************************************************************************)
(* Threads are scheduled.  A poll of startFlow() sleeps 3 ms with the      *)
(* query guardian released, and the mem-pool is cleaned twice a minute, so *)
(* a thread waiting for one of these two locks gets it in the end.         *)
(***************************************************************************)
Fairness ==
    \A t \in Thread :
        /\ WF_vars(~aborted /\ Continue(t))
        /\ SF_vars(~aborted /\ LockQuery(t))
        /\ SF_vars(~aborted /\ LockFlowDB(t))

Spec == Init /\ [][Next]_vars /\ Fairness

-----------------------------------------------------------------------------
(* Properties.                                                             *)

Stage == {"idle", "query", "readFlow", "readSetup", "chain", "assert", "flowDB", "setup",
          "failed", "entered", "flow", "unowned", "aborting", "closing", "unlocked", "left",
          "cleanFlow", "cleanFormation", "cleaning"}

\* Type invariant: each lock and each mark names a thread or nobody.
TypeOK ==
    /\ pc \in [Thread -> Stage]
    /\ sawFlow \in [Thread -> BOOLEAN]
    /\ chainGuardian \in Thread \cup {None}
    /\ query \in [Manager -> Thread \cup {None}]
    /\ flowDB \in [Manager -> Thread \cup {None}]
    /\ flowGuardian \in [Manager -> Thread \cup {None}]
    /\ formation \in [Manager -> Thread \cup {None}]
    /\ inFlow \in [Manager -> Thread \cup {None}]
    /\ settingUp \in [Manager -> Thread \cup {None}]
    /\ aborted \in BOOLEAN

\* formBlock() returned without ending its Flow.
LeftOpen(t) ==
    /\ inFlow[managerOf[t]] = t
    /\ pc[t] \in {"idle", "query", "readFlow", "readSetup"}

FlowIsOpen(t) ==
    \/ pc[t] \in {"entered", "flow", "closing"}
    \/ pc[t] = "aborting" /\ inFlow[managerOf[t]] = t
    \/ LeftOpen(t)

\* Flows exclude each other, on whichever manager: an open Flow belongs to the
\* holder of the chain guardian, of its manager's state DB and mFlowGuardian,
\* and it is the Flow mInFlow names.
OneFlow ==
    \A t \in FlowThread :
        FlowIsOpen(t) =>
            /\ chainGuardian = t
            /\ flowDB[managerOf[t]] = t
            /\ flowGuardian[managerOf[t]] = t
            /\ inFlow[managerOf[t]] = t

\* The gate of startFlow(): of the threads of one manager only one at a time is
\* past the polling loop and not yet in its Flow.
PastGate(t) == pc[t] \in {"chain", "assert", "flowDB", "setup", "entered"}

OneSetup ==
    \A t, u \in FlowThread :
        PastGate(t) /\ PastGate(u) /\ managerOf[t] = managerOf[u] => t = u

\* mFlowGuardian, "used to prevent other threads from aborting the flow they
\* dont own": only a thread in its own Flow closes one, processBlock()'s
\* abortFlow() after a failed startFlow() included, and the mem-pool is cleaned
\* while nobody is in a Flow of that manager.
OnlyOwnFlowIsClosed ==
    /\ \A t \in FlowThread :
         pc[t] \in {"closing", "unlocked"} => inFlow[managerOf[t]] = t
    /\ \A t \in Cleaner : pc[t] = "cleaning" => inFlow[managerOf[t]] = None

Waiting(t) == pc[t] \in {"query", "readFlow", "readSetup", "chain", "assert", "flowDB", "setup"}

\* cleanMemPool() holds the state DB and waits for mDataBlockFormationGuardian,
\* whose holder waits for the state DB, or for a thread that does.
CleanerInversion ==
    \E c \in Cleaner, t \in DataFactory, u \in FlowThread :
        /\ pc[c] = "cleanFormation" /\ formation[managerOf[c]] = t
        /\ managerOf[u] = managerOf[c] /\ pc[u] = "flowDB"

\* As long as threads wait in startFlow(), startFlow() returns to one of them,
\* again and again: the polling, the gate and the locks never leave everyone
\* waiting for everyone, except by a Flow that formBlock() left open or by
\* cleanMemPool() taking its locks in the other order.
StartFlowReturns ==
    (\E t \in FlowThread : Waiting(t)) ~>
        \/ \E t \in FlowThread : pc[t] \in {"entered", "failed"}
        \/ aborted
        \/ \E t \in FlowThread : LeftOpen(t)
        \/ CleanerInversion

\* The assertion of startFlow(), "this should not happen": a thread that passed
\* the gate and was given the chain guardian finds nobody in a Flow.
NobodyInFlow ==
    \A t \in FlowThread : pc[t] = "assert" => inFlow[managerOf[t]] = None
=============================================================================
