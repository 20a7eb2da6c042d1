-------------------------- MODULE BytecodeCompiler --------------------------
(***************************************************************************)
(* bytecode-compiler.c: compile_to_bytecode, from a parse tree to the      *)
(* program the engines run, and size_for_operand of serialization.c.       *)
(*                                                                         *)
(* A parse tree is a record whose "type" is the PT_ constant of parser.h   *)
(* without its prefix.  Compile(tree, n) is the code of the tree and the   *)
(* flag counter after it, *n_flags, which starts at n.  Compilation is a   *)
(* pure function here: running out of memory only abandons it.             *)
(*                                                                         *)
(* The module uses RECURSIVE and is for TLC only.                          *)
(***************************************************************************)
EXTENDS Bytecode

CONSTANTS
  OneByteMax,   \* 0xff in the code; scaled down so small trees cross it
  TwoByteMax    \* 0xffff in the code

ASSUME CompilerAssumption ==
  OneByteMax \in Nat /\ TwoByteMax \in Nat /\ OneByteMax < TwoByteMax

REPETITION_INFINITY == -1    \* SIZE_MAX
NON_CAPTURING_GROUP == -1    \* SIZE_MAX

SizeForOperand(operand) ==
  CASE operand = 0           -> 0
    [] operand \in 1 .. OneByteMax -> 1
    [] operand \in (OneByteMax + 1) .. TwoByteMax -> 2
    [] OTHER                 -> 4

\* emit_bytecode with the width size_for_operand chooses.
Emit(op, operand) == Encode(op, operand, SizeForOperand(operand))

Copies(code, n) == [i \in 1 .. n * Len(code) |-> code[((i - 1) % Len(code)) + 1]]

-----------------------------------------------------------------------------
(* One operator per kind of node, from the code of its children            *)

AlternationCode(left, right, flag) ==
  LET split_delta == Len(left) + 1 + SizeForOperand(Len(right)) IN
  Emit("SPLIT_PASSIVE", split_delta) \o left
    \o Emit("JUMP", Len(right)) \o right
    \o Emit("TEST_AND_SET_FLAG", flag)

\* Mutant of LoopDelta: the split's own operand is not counted.
LoopDeltaShort(child, child_flag, delta_size) ==
  1 + SizeForOperand(child_flag) + Len(child) + 1

\* The distance back to the child's flag, for a backward split whose own
\* operand takes delta_size bytes, and the least size that can hold it.
LoopDelta(child, child_flag, delta_size) ==
  1 + SizeForOperand(child_flag) + Len(child) + 1 + delta_size

LoopDeltaSize(child, child_flag) ==
  LET Fits(s) == SizeForOperand(LoopDelta(child, child_flag, s)) <= s IN
  CHOOSE s \in {1, 2, 4} : Fits(s) /\ \A t \in {1, 2, 4} : t < s => ~Fits(t)

\* {n,}: the copies, then a loop entered and left through two flags.
UnboundedCode(greedy, lower, child, child_flag, end_flag) ==
  LET size     == LoopDeltaSize(child, child_flag)
      delta    == LoopDelta(child, child_flag, size)
      leading  == IF greedy THEN "SPLIT_PASSIVE" ELSE "SPLIT_EAGER"
      trailing == IF greedy THEN "SPLIT_BACKWARDS_EAGER"
                            ELSE "SPLIT_BACKWARDS_PASSIVE"
  IN Copies(child, lower)
       \o Emit(leading, delta)
       \o Emit("TEST_AND_SET_FLAG", child_flag)
       \o child
       \o Encode(trailing, delta, size)
       \o Emit("TEST_AND_SET_FLAG", end_flag)

\* The optional copies of {n,m}, filled from right to left: the split before
\* a copy skips that copy and everything already laid out on its right.
OptionalCopies(split, child, n) ==
  LET laid[k \in 0 .. n] ==
        IF k = 0 THEN <<>>
        ELSE Emit(split, Len(child) + Len(laid[k - 1])) \o child \o laid[k - 1]
  IN laid[n]

\* Mutant of BoundedCode: the flag where the copies end is left out.
BoundedUnflagged(greedy, lower, upper, child, flag) ==
  Copies(child, lower)
    \o OptionalCopies(IF greedy THEN "SPLIT_PASSIVE" ELSE "SPLIT_EAGER",
                      child, upper - lower)

BoundedCode(greedy, lower, upper, child, flag) ==
  Copies(child, lower)
    \o OptionalCopies(IF greedy THEN "SPLIT_PASSIVE" ELSE "SPLIT_EAGER",
                      child, upper - lower)
    \o Emit("TEST_AND_SET_FLAG", flag)

GroupCode(index, child) ==
  Emit("WRITE_POINTER", 2 * index) \o child \o Emit("WRITE_POINTER", 2 * index + 1)

-----------------------------------------------------------------------------
Repetitions == {"GREEDY_REPETITION", "LAZY_REPETITION"}

IsPassedOn(tree) == tree.type = "GROUP" /\ tree.index = NON_CAPTURING_GROUP

\* The flags a node takes after those of its children.
FlagsTaken(tree) ==
  CASE tree.type = "ALTERNATION" -> 1
    [] tree.type \in Repetitions -> IF tree.upper = REPETITION_INFINITY THEN 2 ELSE 1
    [] OTHER -> 0

\* What a node emits around the code of its children; right is that of an
\* alternation's second.
NodeCode(tree, child, right, n_flags) ==
  CASE tree.type = "EMPTY"     -> <<>>
    [] tree.type = "CHARACTER" -> Encode("CHARACTER", tree.character, 1)
    [] tree.type \in {"CHAR_CLASS", "BUILTIN_CHAR_CLASS"} -> Emit(tree.type, tree.index)
    [] tree.type = "ANCHOR"      -> Emit(tree.anchor, 0)
    [] tree.type = "ALTERNATION" -> AlternationCode(child, right, n_flags)
    [] tree.type \in Repetitions ->
         LET greedy == tree.type = "GREEDY_REPETITION"
         IN IF tree.upper = REPETITION_INFINITY
            THEN UnboundedCode(greedy, tree.lower, child, n_flags, n_flags + 1)
            ELSE BoundedCode(greedy, tree.lower, tree.upper, child, n_flags)
    [] tree.type = "GROUP" -> GroupCode(tree.index, child)

RECURSIVE Compile(_, _), CompileAll(_, _)

\* compile_parsetree: flags are numbered in the order the nodes finish.
Compile(tree, n_flags) ==
  LET Node(child, right, n) == [code  |-> NodeCode(tree, child, right, n),
                                flags |-> n + FlagsTaken(tree)]
  IN CASE tree.type = "CONCATENATION" -> CompileAll(tree.children, n_flags)
       [] tree.type = "ALTERNATION" ->
            LET left  == Compile(tree.left, n_flags)
                right == Compile(tree.right, left.flags)
            IN Node(left.code, right.code, right.flags)
       [] tree.type \in Repetitions \cup {"GROUP"} ->
            LET child == Compile(tree.child, n_flags)
            IN IF IsPassedOn(tree) THEN child ELSE Node(child.code, <<>>, child.flags)
       [] OTHER -> Node(<<>>, <<>>, n_flags)

\* The children of a concatenation, one after the other.
CompileAll(children, n_flags) ==
  IF children = <<>> THEN [code |-> <<>>, flags |-> n_flags]
  ELSE LET first == Compile(Head(children), n_flags)
           rest  == CompileAll(Tail(children), first.flags)
       IN [code |-> first.code \o rest.code, flags |-> rest.flags]

\* The size reserved for a node before its code is emitted, given the codes
\* of its children: max_size, in the widths of the code (4-byte operands).
WideForOneByte == 1 + 1      \* Mutant of Wide.
Wide == 1 + 4

MaxSize(tree, childSize, rightSize) ==
  CASE tree.type = "EMPTY"       -> 0
    [] tree.type = "CHARACTER"   -> 2
    [] tree.type \in {"CHAR_CLASS", "BUILTIN_CHAR_CLASS"} ->
         1 + SizeForOperand(tree.index)
    [] tree.type = "ANCHOR"      -> 1
    [] tree.type = "ALTERNATION" -> 3 * Wide + childSize + rightSize
    [] tree.type \in Repetitions ->
         tree.lower * childSize
           + IF tree.upper = REPETITION_INFINITY THEN 4 * Wide + childSize
             ELSE (tree.upper - tree.lower) * (Wide + childSize) + Wide
    [] tree.type = "GROUP"       ->
         1 + SizeForOperand(2 * tree.index) + childSize
           + 1 + SizeForOperand(2 * tree.index + 1)

\* compile_to_bytecode: the regex an engine runs, with the tables the parser
\* made (groups and classes).
CompileToBytecode(tree, groups, classes) ==
  LET c == Compile(tree, 0)
  IN [code |-> c.code, flags |-> c.flags, groups |-> groups, classes |-> classes]
=============================================================================
