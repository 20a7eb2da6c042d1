------------------------------ MODULE MCMatch -------------------------------
(***************************************************************************)
(* Compiles every small parse tree of a family, runs the matching          *)
(* algorithm on every short string, and compares what a call returns with  *)
(* the reference semantics.                                                *)
(***************************************************************************)
EXTENDS PikeVm, MCTrees, RegexSemantics

CONSTANTS
  MaxText,           \* a bound: the longest string
  SharedFlags        \* which programs to run: see FlagsDistinct

\* Strings of at most MaxText letters, and two of more than one line.
MCTexts == UNION {[1 .. n -> {a, b}] : n \in 0 .. MaxText}
             \cup {<<nl, a>>, <<a, nl, b>>}

-----------------------------------------------------------------------------
\* No two instructions of a program test the same flag.  A repetition that
\* lays out several copies of a child with flags breaks this.
FlagTests(code) == {i \in Starts(code) : code[i + 1].op = "TEST_AND_SET_FLAG"}
FlagsDistinct(code) ==
  Cardinality(FlagTests(code)) = Cardinality({code[i + 1].operand : i \in FlagTests(code)})

\* The client's regexes; each keeps its tree, which the algorithm never reads.
WithTree(t) == LET r == RegexOf(t) IN
  [code |-> r.code, flags |-> r.flags, groups |-> r.groups,
   classes |-> r.classes, tree |-> t]

MCRegexes ==
  {WithTree(t) : t \in {u \in Trees : SharedFlags # FlagsDistinct(RegexOf(u).code)}}

\* The compiler's programs put flags where ways meet (WaysFlagged of PikeProofs).
ASSUME WaysAssumption ==
  \A r \in MCRegexes : JoinsFlagged(r.code) /\ OperandsApart(r.code)

-----------------------------------------------------------------------------
Best == BestMatch(regex.tree, regex.groups, regex.classes, text)

\* A call that succeeds finds a match exactly when there is one, and the one
\* the reference semantics prefers: same beginning, same end.
SpanIsReference ==
  result.status = "OK" =>
    /\ result.found = IsMatch(regex.tree, regex.groups, regex.classes, text)
    /\ \A p \in {0, 1} \cap DOMAIN result.ptrs : result.ptrs[p] = Best[p]

\* It also reports the groups of that match, for regexes in which no loop
\* without an upper bound has a body that can match nothing.
GroupsAreReference ==
  result.status = "OK" /\ ~NullableLoop(regex.tree) =>
    result.ptrs = [p \in 0 .. n_pointers - 1 |-> Best[p]]

\* A call returns what the reference semantics prefer: the flags of step_thread,
\* the order that split_thread keeps and what on_match discards decide it
\* between them, over many characters.
MatchIsReference == TypeOK /\ SpanIsReference /\ GroupsAreReference

\* compile_parsetree (bytecode-compiler.c:206): "<child.code> [lower_bound
\* times]" - the copies a repetition lays out are to match as often as the
\* bounds say, which the generator repetition.c expects of a{42}.
CopiesRepeatTheChild == SpanIsReference

-----------------------------------------------------------------------------
\* One call, just made, with any arguments: Call resets everything, so a
\* later call can do nothing that the first could not.
OnceInit ==
  /\ regex \in Regexes
  /\ text \in Texts
  /\ n_pointers \in NPointers(regex)
  /\ status = "position"
  /\ pos = 0
  /\ kept = <<>> /\ todo = <<>> /\ flags = {} /\ spawned = FALSE
  /\ matched = <<>>
  /\ result = Result("NONE", FALSE, NullPointers(n_pointers))
OnceNext == Run \/ OutOfMemory
OnceSpec == OnceInit /\ [][OnceNext]_vars /\ WF_vars(Run)
=============================================================================
