---------------------------- MODULE MCFlowCommit ----------------------------
(***************************************************************************)
(* Two branches behind a common block.  The first reports two frauds in    *)
(* one block and one of them again in the next; the second reports the     *)
(* other in its second block.                                              *)
(***************************************************************************)
EXTENDS FlowCommit, TLC

CONSTANTS G, a1, a2, b1, b2, f, g

MCBlock == {G, a1, a2, b1, b2}
MCParent == G :> NoBlock @@ a1 :> G @@ a2 :> a1 @@ b1 :> G @@ b2 :> b1
MCFrauds == G :> {} @@ a1 :> {f, g} @@ a2 :> {f} @@ b1 :> {} @@ b2 :> {g}
=============================================================================
