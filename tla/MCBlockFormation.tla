-------------------------- MODULE MCBlockFormation --------------------------
(***************************************************************************)
(* Instances of BlockFormation for TLC.  Issuer a sends a1, a2 with nonces *)
(* 1 and 2 and a rival a2x with nonce 2; issuer b sends b1.  The limit     *)
(* admits three units of size, so that it is hit by some blocks.           *)
(***************************************************************************)
EXTENDS BlockFormation

MCTx == {"a1", "a2", "a2x", "b1"}
MCIssuer == {"a", "b"}
MCissuerOf == [t \in MCTx |-> IF t = "b1" THEN "b" ELSE "a"]
MCnonceOf == [t \in MCTx |-> IF t \in {"a1", "b1"} THEN 1 ELSE 2]
MCergPriceOf == [t \in MCTx |-> IF t = "a2" THEN 1 ELSE 2]
MCpackedSizeOf == [t \in MCTx |-> IF t = "b1" THEN 2 ELSE 1]
MCkindsOf == [t \in MCTx |-> CASE t = "a1" -> {"ok", "fail", "nonceFault"}
                               [] t = "a2" -> {"ok", "broke"}
                               [] t = "a2x" -> {"ok", "unauth"}
                               [] t = "b1" -> {"ok", "fail", "poor"}]
=============================================================================
