------------------------------ MODULE MCTrees -------------------------------
(***************************************************************************)
(* Characters and parse trees for the models TLC checks.                   *)
(***************************************************************************)
EXTENDS BytecodeCompiler

a == 97
b == 98
nl == 10
MCBuiltin == <<{a, b}>>      \* one builtin class, the word characters

-----------------------------------------------------------------------------
(* Parse trees                                                             *)

Empty        == [type |-> "EMPTY"]
Char(c)      == [type |-> "CHARACTER", character |-> c]
Anchor(n)    == [type |-> "ANCHOR", anchor |-> n]
Class(i)     == [type |-> "CHAR_CLASS", index |-> i]
Concat(x, y) == [type |-> "CONCATENATION", children |-> <<x, y>>]
Alt(x, y)    == [type |-> "ALTERNATION", left |-> x, right |-> y]
Group(i, x)  == [type |-> "GROUP", index |-> i, child |-> x]
Rep(greedy, lo, hi, x) ==
  [type  |-> IF greedy THEN "GREEDY_REPETITION" ELSE "LAZY_REPETITION",
   lower |-> lo, upper |-> hi, child |-> x]

Inf    == REPETITION_INFINITY
Bounds == {<<0, 1>>, <<0, Inf>>, <<1, Inf>>, <<2, 2>>, <<1, 2>>}
Reps(S) == {Rep(g, bd[1], bd[2], x) : g \in BOOLEAN, bd \in Bounds, x \in S}

Atoms  == {Empty, Char(a), Char(b)}
Inner  == Atoms \cup Reps(Atoms) \cup {Alt(x, y) : x, y \in Atoms}

\* Two levels of operators, with a capturing group where it can be repeated.
Bodies ==
  Reps({Group(1, x) : x \in Inner})
    \cup {Concat(Group(1, x), y) : x \in Inner, y \in {Class(0), Anchor("ANCHOR_EOF")}}
    \cup {Concat(Anchor(y), Group(1, x)) : x \in Inner,
                                          y \in {"ANCHOR_BOL", "ANCHOR_WORD_BOUNDARY"}}
    \cup {Alt(Group(1, x), y) : x \in Inner, y \in {Char(b), Empty}}

\* parse makes group 0 of the whole expression.
Trees == {Group(0, x) : x \in Bodies}

RegexOf(t) == CompileToBytecode(t, 2, <<{b}>>)
=============================================================================
