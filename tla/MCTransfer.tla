----------------------------- MODULE MCTransfer -----------------------------
(* Transfer on a small instance: two buckets, the first with more objects  *)
(* than fit into the queue and the workers' hands.                         *)
EXTENDS Transfer, TLC
CONSTANTS a1, a2, a3, b1

MCContents == <<{a1, a2, a3}, {b1}>>
=============================================================================
