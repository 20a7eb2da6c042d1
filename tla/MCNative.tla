------------------------------ MODULE MCNative ------------------------------
(***************************************************************************)
(* The native engine on a few compiled regexes, calls of all three kinds   *)
(* following each other in one context.                                    *)
(***************************************************************************)
EXTENDS NativeVm, MCTrees

CONSTANTS b1, b2     \* addresses: the allocator holds two buffers at a time

Star(x) == Rep(TRUE, 0, Inf, x)

\* (a*?)b: a loop that creates its states behind it, and a match that an
\* earlier state can improve on.
LazyLoop == Group(0, Concat(Group(1, Rep(FALSE, 0, Inf, Char(a))), Char(b)))

\* (a|)+: a loop whose body may match nothing.
NullableBody == Group(0, Rep(TRUE, 1, Inf, Group(1, Alt(Char(a), Empty))))

\* (\bb|[b]??a)$: both kinds of forward split, a class, anchors.
Branches ==
  Group(0, Concat(Group(1, Alt(Concat(Anchor("ANCHOR_WORD_BOUNDARY"), Char(b)),
                               Concat(Rep(FALSE, 0, 1, Class(0)), Char(a)))),
                  Anchor("ANCHOR_EOL")))

\* (a|a|a): a match with two states behind it.
Overlap == Group(0, Group(1, Alt(Char(a), Alt(Char(a), Char(a)))))

\* (ab|): a match that a better state outlives, and then dies.
Prefix == Group(0, Group(1, Alt(Concat(Char(a), Char(b)), Empty)))

FewFlags == {RegexOf(t) : t \in {LazyLoop, NullableBody, Branches, Overlap, Prefix}}

\* (a|b|)*: flags 0 to 3, a loop around two joins.
TwoJoins == {RegexOf(Group(0, Star(Group(1, Alt(Char(a), Alt(Char(b), Empty))))))}

\* ((a|)|\n(a|b)...(a|b))*b, seven times (a|b): flags 0 to 10.  Where no string
\* has anything behind a newline, flags 1 to 7 are never tested.
EitherTimes(n) ==
  LET times[k \in 1 .. n] ==
        IF k = 1 THEN Alt(Char(a), Char(b)) ELSE Concat(times[k - 1], Alt(Char(a), Char(b)))
  IN times[n]

PastNewline ==
  RegexOf(Group(0, Concat(Star(Alt(Group(1, Alt(Char(a), Empty)),
                                   Concat(Char(nl), EitherTimes(7)))),
                          Char(b))))

FewAndMany == FewFlags \cup {PastNewline}

\* The compiler's programs put flags where ways meet (WaysFlagged of NativeProofs).
ASSUME WaysAssumption ==
  \A r \in FewAndMany \cup TwoJoins : JoinsFlagged(r.code) /\ OperandsApart(r.code)

MCBuffers == {b1, b2}
MCTexts   == {<<>>, <<a>>, <<a, b>>, <<b, nl>>, <<b, a, a>>}
FewTexts  == {<<>>, <<a>>, <<a, b>>, <<b, a, b>>}
=============================================================================
