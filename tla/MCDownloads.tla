---------------------------- MODULE MCDownloads ----------------------------
(* Downloads, and the pool it extends, on small instances.                 *)
EXTENDS Downloads, TLC
=============================================================================
