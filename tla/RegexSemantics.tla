--------------------------- MODULE RegexSemantics ---------------------------
(***************************************************************************)
(* What a regex means, independently of how crex matches it: the           *)
(* backtracking reading of a parse tree that PCRE gives it and that the    *)
(* engine tests expect of both.  Matches(tree, text, i, caps) lists, best  *)
(* first, the ways the tree can match text from position i; the first      *)
(* entry from the leftmost position that has one is the answer.            *)
(*                                                                         *)
(* The module uses RECURSIVE and is for TLC only.                          *)
(***************************************************************************)
EXTENDS Bytecode, SequencesExt

LOCAL Infinity == -1       \* REPETITION_INFINITY
Unset == -1                \* a NULL pointer in a match

\* A way to match: where it ends, and the capture pointers it leaves.
LOCAL Way(end, caps) == [end |-> end, caps |-> caps]

LOCAL CharsOf(tree, classes) ==
  CASE tree.type = "CHARACTER"          -> {tree.character}
    [] tree.type = "CHAR_CLASS"         -> classes[tree.index + 1]
    [] tree.type = "BUILTIN_CHAR_CLASS" -> BuiltinClasses[tree.index + 1]

RECURSIVE Matches(_, _, _, _, _), Repeat(_, _, _, _, _, _, _)

\* Every way to go on from each way of a list, in order.
LOCAL Then(ways, Go(_)) ==
  FoldLeft(LAMBDA acc, w : acc \o Go(w), <<>>, ways)

Matches(tree, classes, text, i, caps) ==
  CASE tree.type = "EMPTY" -> <<Way(i, caps)>>
    [] tree.type \in ConsumeOps ->
         IF CharAt(text, i) \in CharsOf(tree, classes)
         THEN <<Way(i + 1, caps)>> ELSE <<>>
    [] tree.type = "ANCHOR" ->
         IF AnchorHolds(tree.anchor, CharBefore(text, i), CharAt(text, i))
         THEN <<Way(i, caps)>> ELSE <<>>
    [] tree.type = "CONCATENATION" ->
         FoldLeft(LAMBDA ways, child :
                    Then(ways, LAMBDA w : Matches(child, classes, text, w.end, w.caps)),
                  <<Way(i, caps)>>, tree.children)
    [] tree.type = "ALTERNATION" ->
         Matches(tree.left, classes, text, i, caps)
           \o Matches(tree.right, classes, text, i, caps)
    [] tree.type \in {"GREEDY_REPETITION", "LAZY_REPETITION"} ->
         Repeat(tree, tree.lower, tree.upper, classes, text, i, caps)
    [] tree.type = "GROUP" ->
         IF tree.index < 0 THEN Matches(tree.child, classes, text, i, caps)
         ELSE Then(Matches(tree.child, classes, text, i,
                           [caps EXCEPT ![2 * tree.index] = i]),
                   LAMBDA w : <<Way(w.end, [w.caps EXCEPT ![2 * tree.index + 1] = w.end])>>)

\* lower more copies are required and upper allowed.  An optional iteration
\* of an unbounded loop that consumes nothing leaves the loop.
Repeat(tree, lower, upper, classes, text, i, caps) ==
  LET once    == Matches(tree.child, classes, text, i, caps)
      rest(u) == IF u = Infinity THEN Infinity ELSE u - 1
      again   == Then(once, LAMBDA w :
                   IF upper = Infinity /\ lower = 0 /\ w.end = i THEN <<w>>
                   ELSE Repeat(tree, IF lower > 0 THEN lower - 1 ELSE 0, rest(upper),
                               classes, text, w.end, w.caps))
      stop    == <<Way(i, caps)>>
  IN CASE lower > 0 -> again
       [] lower = 0 /\ upper = 0 -> stop
       [] OTHER -> IF tree.type = "GREEDY_REPETITION" THEN again \o stop
                                                      ELSE stop \o again

RECURSIVE Nullable(_), NullableLoop(_)

\* Can the tree match without consuming a character?
Nullable(tree) ==
  CASE tree.type \in {"EMPTY", "ANCHOR"} -> TRUE
    [] tree.type \in ConsumeOps -> FALSE
    [] tree.type = "CONCATENATION" ->
         \A k \in DOMAIN tree.children : Nullable(tree.children[k])
    [] tree.type = "ALTERNATION" -> Nullable(tree.left) \/ Nullable(tree.right)
    [] tree.type = "GROUP" -> Nullable(tree.child)
    [] OTHER -> tree.lower = 0 \/ Nullable(tree.child)

\* Does some loop of the tree have such a body?
NullableLoop(tree) ==
  CASE tree.type \in {"EMPTY", "ANCHOR"} \cup ConsumeOps -> FALSE
    [] tree.type = "CONCATENATION" ->
         \E k \in DOMAIN tree.children : NullableLoop(tree.children[k])
    [] tree.type = "ALTERNATION" -> NullableLoop(tree.left) \/ NullableLoop(tree.right)
    [] tree.type = "GROUP" -> NullableLoop(tree.child)
    [] OTHER -> \/ tree.upper = Infinity /\ Nullable(tree.child)
                \/ NullableLoop(tree.child)

-----------------------------------------------------------------------------
NoCaptures(groups) == [p \in 0 .. 2 * groups - 1 |-> Unset]

\* The positions from which the tree matches at all.
MatchStarts(tree, groups, classes, text) ==
  {i \in 0 .. Len(text) :
     Matches(tree, classes, text, i, NoCaptures(groups)) # <<>>}

IsMatch(tree, groups, classes, text) ==
  MatchStarts(tree, groups, classes, text) # {}

\* The pointers of the match, all Unset when there is none.
BestMatch(tree, groups, classes, text) ==
  LET starts == MatchStarts(tree, groups, classes, text) IN
  IF starts = {} THEN NoCaptures(groups)
  ELSE LET i == CHOOSE s \in starts : \A t \in starts : s <= t
       IN Matches(tree, classes, text, i, NoCaptures(groups))[1].caps
=============================================================================
