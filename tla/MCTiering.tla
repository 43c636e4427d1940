----------------------------- MODULE MCTiering -----------------------------
(* Tiering on small instances.                                             *)
EXTENDS Tiering, TLC

\* Procs only name who makes a call; Objects are not interchangeable (scope,
\* legacy), so only the processes are symmetric.
Symmetry == Permutations(Procs)
=============================================================================
