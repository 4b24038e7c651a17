---------------------------- MODULE MCCommandFds -----------------------------
(***************************************************************************)
(* CommandFds for TLC: the spawning threads are interchangeable.           *)
(***************************************************************************)
EXTENDS CommandFds, TLC

Symmetry == Permutations(Spawners)
=============================================================================
