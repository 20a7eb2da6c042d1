----------------------------- MODULE MCBranches -----------------------------
(* LocalBranches in every program of a few labels, jumps and code.          *)
EXTENDS LocalBranches, TLC

Symmetric == Permutations(Labels)
=============================================================================
