---------------------------- MODULE AtomicLedger ----------------------------
(***************************************************************************)
(* What committing a block promises to everything that reads the live      *)
(* state of a node: it shows the outcome of whole blocks, each executed    *)
(* from the outcome of its parent, and never part of one.                  *)
(***************************************************************************)
CONSTANTS Block, NoBlock, Parent

VARIABLES
    executed,   \* blocks whose whole outcome has been written
    shown       \* the block whose outcome the live state shows

vars == <<executed, shown>>

Init == executed = {} /\ shown = NoBlock

Execute(b) ==
    /\ Parent[b] \in executed \cup {NoBlock}
    /\ executed' = executed \cup {b}
    /\ UNCHANGED shown

\* A node that starts again may show an earlier block.
Show(b) ==
    /\ b \in executed \cup {NoBlock}
    /\ shown' = b
    /\ UNCHANGED executed

\* Seen from further away, both happen at once.
Commit(b) ==
    /\ Parent[b] \in executed \cup {NoBlock}
    /\ executed' = executed \cup {b}
    /\ shown' = b

Next == \/ \E b \in Block : Execute(b) \/ Commit(b)
        \/ \E b \in Block \cup {NoBlock} : Show(b)

Spec == Init /\ [][Next]_vars
=============================================================================
