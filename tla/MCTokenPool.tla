---------------------------- MODULE MCTokenPool ----------------------------
(* Two banks of three links worth 2 each (13 leaves a remainder of one that *)
(* no token covers); odd amounts make the rounding up visible, and 6 is all *)
(* a bank holds.                                                            *)
EXTENDS TokenPool

MCAmount == {1, 3, 6}
=============================================================================
