--------------------------- MODULE LocalBranches ----------------------------
(***************************************************************************)
(* The branches that compile_to_native writes itself (BRANCH, BRANCH_TARGET *)
(* and their backward forms, native-compiler.c): eight bits, computed while *)
(* the code is assembled and not known to the assembler, which afterwards   *)
(* moves the code they lie in.                                             *)
(***************************************************************************)
EXTENDS Assembler

CONSTANT MaxBranches   \* a bound

VARIABLE branches      \* the ends of those there are: offsets <<first, last>>

branchVars == <<vars, branches>>

BranchInit == Init /\ branches = {}

Jumping == {k \in Uses : uses[k].type \in Jumps}

\* The jump goes back over so much other code that it can never be short, as the
\* one to LABEL_EPILOGUE does over the allocator.
FarBack(k) ==
  \E d \in Uses :
    /\ d < k /\ uses[d].type = "DEFINITION" /\ uses[d].label = uses[k].label
    /\ Cardinality({o \in uses[d].offset + 1 .. uses[k].offset : code[o].kind = "code"}) >= ShortMax

\* Mutant of MaySpan: a branch is used wherever it is short now.
MaySpanAny(first, last) == TRUE

\* Branches span code that keeps its length: a label is used instead where there
\* is a jump on the way, but for the jump in compile_match that is far.
MaySpan(first, last) ==
  \A k \in Jumping : first <= uses[k].offset /\ uses[k].offset < last => FarBack(k)

\* Where a branch may end: behind a stretch of code; one inside it moves alike.
BranchEnds ==
  {o \in DOMAIN code : code[o].kind = "code" /\ (o < Size => code[o + 1].kind # "code")}

BranchTarget ==
  /\ pc = "assemble" /\ Cardinality(branches) < MaxBranches
  /\ \E first \in BranchEnds :
       /\ Size - first <= ShortMax
       /\ MaySpan(first, Size)
       /\ branches' = branches \cup {<<first, Size>>}
  /\ UNCHANGED vars

BranchNext == BranchTarget \/ (Next /\ UNCHANGED branches)

BranchSpec == BranchInit /\ [][BranchNext]_branchVars

-----------------------------------------------------------------------------

\* Where the code at an offset ends up.
Image(o) ==
  LET before == {k \in Uses : Begin(k) <= o}
      k      == CHOOSE k \in before : \A j \in before : j <= k
  IN IF before = {} THEN o ELSE Address(k) + Length(k) + (o - Begin(k))

\* When the jumps have been shortened and the code moved, the ends of a branch
\* are as far apart as when its displacement was written: it still lands on the
\* instruction it was meant for.
BranchesReach ==
  pc = "emit" /\ i = Len(uses) + 1 =>
    \A b \in branches : Image(b[2]) - Image(b[1]) = b[2] - b[1]
=============================================================================
