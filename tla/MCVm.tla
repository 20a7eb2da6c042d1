-------------------------------- MODULE MCVm --------------------------------
(***************************************************************************)
(* The bytecode engine on a few compiled regexes, calls of all three kinds *)
(* following each other in one context.                                    *)
(***************************************************************************)
EXTENDS Vm, MCTrees

CONSTANTS b1, b2     \* addresses: vm_alloc holds two buffers at a time

\* (a*?)b: a loop that creates its threads behind it, and a match that an
\* earlier thread can improve on.
LazyLoop == Group(0, Concat(Group(1, Rep(FALSE, 0, Inf, Char(a))), Char(b)))

\* (a|)+: a loop whose body may match nothing.
NullableBody == Group(0, Rep(TRUE, 1, Inf, Group(1, Alt(Char(a), Empty))))

\* (\bb|[b]??a)$: both kinds of forward split, a class, anchors.
Branches ==
  Group(0, Concat(Group(1, Alt(Concat(Anchor("ANCHOR_WORD_BOUNDARY"), Char(b)),
                               Concat(Rep(FALSE, 0, 1, Class(0)), Char(a)))),
                  Anchor("ANCHOR_EOL")))

\* (a|a|a): a match with two threads behind it.
Overlap == Group(0, Group(1, Alt(Char(a), Alt(Char(a), Char(a)))))

\* (ab|): a match that a better thread outlives, and then dies.
Prefix == Group(0, Group(1, Alt(Concat(Char(a), Char(b)), Empty)))

MCRegexes == {RegexOf(t) : t \in {LazyLoop, NullableBody, Branches, Overlap, Prefix}}

\* The compiler's programs put flags where ways meet (WaysFlagged of VmProofs).
ASSUME WaysAssumption ==
  \A r \in MCRegexes : JoinsFlagged(r.code) /\ OperandsApart(r.code)

MCBuffers == {b1, b2}
MCTexts   == {<<>>, <<a>>, <<a, b>>, <<b, nl>>, <<b, a, a>>}
=============================================================================
