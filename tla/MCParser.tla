------------------------------ MODULE MCParser ------------------------------
(***************************************************************************)
(* The parser on every short string of tokens, and the grammar it is to    *)
(* implement, defined by splitting a pattern rather than by precedence.    *)
(***************************************************************************)
EXTENDS Parser

Char   == [type |-> "CHARACTER", character |-> 97]
Star   == [type |-> "GREEDY_REPETITION", lower |-> 0, upper |-> -1]
Lazy   == [type |-> "LAZY_REPETITION", lower |-> 1, upper |-> 2]
Pipe   == [type |-> "PIPE"]
Open   == [type |-> "OPEN_PAREN"]
OpenNC == [type |-> "NON_CAPTURING_OPEN_PAREN"]
Close  == [type |-> "CLOSE_PAREN"]

MCTokens == {Char, Star, Lazy, Pipe, Open, OpenNC, Close}

-----------------------------------------------------------------------------
(* The grammar                                                             *)

\* How many groups are open after the first n tokens.
Depth(ts, n) ==
  Cardinality({i \in 1 .. n : ts[i].type \in OpenParens})
    - Cardinality({i \in 1 .. n : ts[i].type = "CLOSE_PAREN"})

Balanced(ts) ==
  Depth(ts, Len(ts)) = 0 /\ \A n \in 1 .. Len(ts) : Depth(ts, n) >= 0

Captures(ts, n) == Cardinality({i \in 1 .. n : ts[i].type = "OPEN_PAREN"})

LastOf(S) == CHOOSE x \in S : \A y \in S : y <= x

RECURSIVE Regex(_, _), Items(_, _)

\* The tree of a balanced pattern behind g capturing groups.
Regex(ts, g) ==
  LET pipes == {i \in DOMAIN ts : ts[i].type = "PIPE" /\ Depth(ts, i) = 0}
      items == Items(ts, g)
  IN IF pipes # {}
     THEN LET p == LastOf(pipes)
              left == SubSeq(ts, 1, p - 1)
          IN [type |-> "ALTERNATION", left |-> Regex(left, g),
              right |-> Regex(SubSeq(ts, p + 1, Len(ts)), g + Captures(left, p - 1))]
     ELSE IF Len(items) = 1 THEN items[1]
     ELSE [type |-> "CONCATENATION", children |-> items]

\* The parts of a pattern without alternatives; the first is always empty,
\* or what repetitions without anything to repeat make of it.
Items(ts, g) ==
  LET last  == ts[Len(ts)]
      front == SubSeq(ts, 1, Len(ts) - 1)
  IN IF ts = <<>> THEN << [type |-> "EMPTY"] >>
     ELSE IF last.type \in Repetitions
     THEN LET items == Items(front, g)
              n     == Len(items)
          IN [items EXCEPT ![n] =
                [type |-> last.type, lower |-> last.lower, upper |-> last.upper,
                 child |-> items[n]]]
     ELSE IF last.type = "CLOSE_PAREN"
     THEN LET m == LastOf({i \in DOMAIN ts : ts[i].type \in OpenParens
                                             /\ Depth(ts, i - 1) = 0})
              before == g + Captures(ts, m - 1)
              index  == IF ts[m].type = "OPEN_PAREN" THEN before + 1
                        ELSE NON_CAPTURING_GROUP
              inner  == Regex(SubSeq(ts, m + 1, Len(ts) - 1), g + Captures(ts, m))
          IN Append(Items(SubSeq(ts, 1, m - 1), g),
                    [type |-> "GROUP", index |-> index, child |-> inner])
     ELSE Append(Items(front, g), last)

-----------------------------------------------------------------------------
(* Properties                                                              *)

\* parse returns the tree of the grammar, with its groups numbered in the
\* order in which they open, for every balanced pattern and for no other; and
\* it reports parentheses only where they do not match, each kind as such.
ParsesGrammar ==
  /\ pc = "compile" =>
       /\ Balanced(pattern)
       /\ tree.tree = [type |-> "GROUP", index |-> 0, child |-> Regex(pattern, 0)]
       /\ groups = 1 + Captures(pattern, Len(pattern))
  /\ pc = "failed" =>
       /\ status = "E_UNMATCHED_CLOSE_PAREN" => Depth(pattern, Len(pattern)) < 0
       /\ status = "E_UNMATCHED_OPEN_PAREN"  => Depth(pattern, Len(pattern)) > 0
=============================================================================
