----------------------------- MODULE MCCompiler -----------------------------
(***************************************************************************)
(* Trees whose codes are inline, or on the heap, at one level or several.  *)
(* The thresholds between operand widths are scaled down so that every     *)
(* width of every operand occurs in a small tree.                          *)
(***************************************************************************)
EXTENDS CompilerMemory, MCTrees

Operands == {Empty, Char(a)}

\* One more operator around a tree, of every kind.
Around(t) ==
  Reps({t})
    \cup {Alt(t, x) : x \in Operands} \cup {Alt(x, t) : x \in Operands}
    \cup {Concat(t, x) : x \in Operands} \cup {Group(NON_CAPTURING_GROUP, t)}

OneOperator    == UNION {Around(x) : x \in {Empty, Char(a), Class(0), Anchor("ANCHOR_BOF")}}
TwoOperators   == UNION {Around(t) : t \in OneOperator}
ThreeOperators == UNION {Around(t) \cup {Group(1, t)} : t \in TwoOperators}

Codes == {Empty, Char(a), Concat(Char(a), Char(b)), Concat(Concat(Char(a), Char(b)), Char(a))}

Branching == {Alt(x, y) : x, y \in Codes} \cup {Rep(TRUE, 1, Inf, x) : x \in Codes}
               \cup {Rep(FALSE, 1, 2, x) : x \in Codes}

Forks == {Alt(y, z) : y, z \in Branching}
           \cup {Concat(y, Group(1, z)) : y, z \in Branching}

\* Enough flags that their numbers take every width.
Loop == Rep(FALSE, 0, Inf, Empty)
ManyFlags == {Alt(Alt(Loop, Loop), Alt(Loop, x)) : x \in {Char(a), Class(0), Loop}}

MCTreesCompiled == {Group(0, x) : x \in ThreeOperators \cup Forks \cup ManyFlags}
=============================================================================
