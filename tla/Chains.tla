------------------------------- MODULE Chains -------------------------------
(***************************************************************************)
(* Lists that run through the blocks of a pool: each block holds the       *)
(* handle of the next one.  Both engines keep their threads so (NEXT in    *)
(* vm.c, the first word of a state in native-compiler.c).                  *)
(***************************************************************************)
EXTENDS Integers, Sequences, FiniteSets

\* The handle n links behind first; a handle that is no block leads nowhere.
Behind(link, first) ==
  LET at[n \in 0 .. Cardinality(DOMAIN link)] ==
        IF n = 0 THEN first
        ELSE IF at[n - 1] \in DOMAIN link THEN link[at[n - 1]] ELSE at[n - 1]
  IN at

\* The blocks from first on, up to but not including stop.
Segment(link, first, stop) ==
  LET at     == Behind(link, first)
      inside == {n \in DOMAIN at : \A i \in 0 .. n : at[i] \in DOMAIN link \ {stop}}
  IN [i \in 1 .. Cardinality(inside) |-> at[i - 1]]

Members(s) == {s[i] : i \in DOMAIN s}
=============================================================================
