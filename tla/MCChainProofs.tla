--------------------------- MODULE MCChainProofs ---------------------------
(***************************************************************************)
(* A key block with a data block and another key block on it, and a        *)
(* heavier key block beside it: chains that part at genesis and behind it, *)
(* one longer, one with as much work.  This node may mine the data block   *)
(* (or, in ChainFork.cfg, the first key block).  The last chain-proof goes *)
(* on with a block that is not the child of the one before it.             *)
(***************************************************************************)
EXTENDS ChainProofs, TLC

CONSTANTS G, k1, d2, e2, a1

MCBlock == {G, k1, d2, e2, a1}
MCParent == (G :> NoBlock) @@ (k1 :> G) @@ (d2 :> k1) @@ (e2 :> k1) @@ (a1 :> G)
MCHeight == (G :> 0) @@ (k1 :> 1) @@ (d2 :> 2) @@ (e2 :> 2) @@ (a1 :> 1)
MCWeight == (G :> 1) @@ (k1 :> 1) @@ (d2 :> 0) @@ (e2 :> 1) @@ (a1 :> 2)
MCWork == (G :> 1) @@ (k1 :> 2) @@ (d2 :> 2) @@ (e2 :> 3) @@ (a1 :> 3)
MCKeyBlock == (G :> G) @@ (k1 :> k1) @@ (d2 :> k1) @@ (e2 :> e2) @@ (a1 :> a1)
MCKeyHeight == (G :> 0) @@ (k1 :> 1) @@ (d2 :> 1) @@ (e2 :> 2) @@ (a1 :> 1)
MCProofs == {<<G, k1, d2>>, <<G, k1, e2>>, <<G, a1>>, <<G, a1, e2>>}
MCPeer == {"peer"}
=============================================================================
