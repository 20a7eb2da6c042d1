--------------------------- MODULE CompilerMemory ---------------------------
(***************************************************************************)
(* compile_to_bytecode with the memory it works in (bytecode-compiler.c,   *)
(* and vector.c for bytecode_t): a node compiles its children into buffers *)
(* of its own, reserves room for the most it may emit in its parent's, and *)
(* copies theirs there.  A buffer is inline or on the heap; any allocation *)
(* may fail, and then every call on the way back destroys what it holds.   *)
(*                                                                         *)
(* The bytes themselves, and the room they may need, are BytecodeCompiler's.*)
(***************************************************************************)
EXTENDS BytecodeCompiler, FiniteSets

CONSTANTS
  Patterns,            \* a bound: the trees that parse may give
  StackCapacity,       \* STACK_CAPACITY: 64; scaled down so small trees cross it
  SizeLimit,           \* 2^64: sizes are size_t
  MaxGroups            \* a bound: groups of a pattern, its own among them

ASSUME SizesAssumption ==
  StackCapacity \in Nat \ {0} /\ SizeLimit \in Nat \ {0} /\ MaxGroups \in Nat

VARIABLES
  pc,
  tree, n_flags,
  frames,              \* the calls of compile_parsetree: [node, into, at, base]
  buffers,             \* the bytecode_t there are, by age; the last are the top call's
  blocks,              \* what has been allocated and not freed
  result               \* the buffer that compile_to_bytecode returns

vars == <<pc, tree, n_flags, frames, buffers, blocks, result>>

INLINE == 0

NewBuffer == [code |-> <<>>, capacity |-> StackCapacity, block |-> INLINE]

NewBlock      == CHOOSE b \in 1 .. Cardinality(blocks) + 1 : b \notin blocks
BlocksOf(bs)  == {bs[k].block : k \in DOMAIN bs} \ {INLINE}

Top           == frames[Len(frames)]
Pop(s)        == SubSeq(s, 1, Len(s) - 1)
Into          == buffers[Top.into]
Own           == SubSeq(buffers, Top.base + 1, Len(buffers))
Outer         == SubSeq(buffers, 1, Top.base)

Arity(node) ==
  CASE node.type = "CONCATENATION" -> Len(node.children)
    [] node.type = "ALTERNATION"   -> 2
    [] node.type \in Repetitions \cup {"GROUP"} -> 1
    [] OTHER -> 0

Child(node, k) ==
  CASE node.type = "CONCATENATION" -> node.children[k]
    [] node.type = "ALTERNATION"   -> IF k = 1 THEN node.left ELSE node.right
    [] OTHER -> node.child

Frame(node, into, base) == [node |-> node, into |-> into, at |-> 0, base |-> base]

Init ==
  /\ pc = "idle"
  /\ tree = [type |-> "EMPTY"] /\ n_flags = 0
  /\ frames = <<>> /\ buffers = <<>> /\ blocks = {} /\ result = NewBuffer

CompileToBytecodeBegins ==
  /\ pc = "idle"
  /\ tree' \in Patterns
  /\ n_flags' = 0
  /\ buffers' = <<NewBuffer>>
  /\ frames' = <<Frame(tree', 1, 1)>>
  /\ pc' = "compile"
  /\ UNCHANGED <<blocks, result>>

-----------------------------------------------------------------------------
(* compile_parsetree                                                       *)

Compiling == pc = "compile" /\ frames # <<>>

\* The next child, of a concatenation into the same buffer, else into a new one.
CompileChild ==
  /\ Compiling /\ ~IsPassedOn(Top.node) /\ Top.at < Arity(Top.node)
  /\ LET same == Top.node.type = "CONCATENATION"
         bs   == IF same THEN buffers ELSE Append(buffers, NewBuffer)
     IN /\ buffers' = bs
        /\ frames' = Append([frames EXCEPT ![Len(frames)].at = @ + 1],
                            Frame(Child(Top.node, Top.at + 1),
                                  IF same THEN Top.into ELSE Len(bs), Len(bs)))
  /\ UNCHANGED <<pc, tree, n_flags, blocks, result>>

\* A group that does not capture is its child.
PassOn ==
  /\ Compiling /\ IsPassedOn(Top.node)
  /\ frames' = [frames EXCEPT ![Len(frames)].node = @.child]
  /\ UNCHANGED <<pc, tree, n_flags, buffers, blocks, result>>

Compiled == Compiling /\ ~IsPassedOn(Top.node) /\ Top.at = Arity(Top.node)
EmitsNothing == Top.node.type \in {"EMPTY", "CONCATENATION"}

Return ==
  /\ Compiled /\ EmitsNothing
  /\ frames' = Pop(frames)
  /\ UNCHANGED <<pc, tree, n_flags, buffers, blocks, result>>

CodeOf(k) == IF k \in DOMAIN Own THEN Own[k].code ELSE <<>>

\* max_size, and bytecode_reserve of it: sizes wrap.
Room    == MaxSize(Top.node, Len(CodeOf(1)), Len(CodeOf(2))) % SizeLimit
HasRoom == (Len(Into.code) + Room) % SizeLimit <= Into.capacity

Reserve ==
  /\ Compiled /\ ~EmitsNothing /\ HasRoom
  /\ pc' = "emit"
  /\ UNCHANGED <<tree, n_flags, frames, buffers, blocks, result>>

\* Mutant of Grown: the bytes are not copied.
GrownEmpty(buffer, room) ==
  [code |-> <<>>, capacity |-> (2 * (Len(buffer.code) + room)) % SizeLimit, block |-> NewBlock]

Grown(buffer, room) ==
  [code |-> buffer.code, capacity |-> (2 * (Len(buffer.code) + room)) % SizeLimit,
   block |-> NewBlock]

Grow ==
  /\ Compiled /\ ~EmitsNothing /\ ~HasRoom
  /\ buffers' = [buffers EXCEPT ![Top.into] = Grown(@, Room)]
  /\ blocks' = (blocks \ {Into.block}) \cup {NewBlock}
  /\ pc' = "emit"
  /\ UNCHANGED <<tree, n_flags, frames, result>>

GrowFails ==
  /\ Compiled /\ ~EmitsNothing /\ ~HasRoom
  /\ pc' = "unwind"
  /\ UNCHANGED <<tree, n_flags, frames, buffers, blocks, result>>

Emitted == NodeCode(Top.node, CodeOf(1), CodeOf(2), n_flags)

\* emit_bytecode and emit_bytecode_copy; the children's buffers go.
EmitNode ==
  /\ pc = "emit"
  /\ buffers' = [Outer EXCEPT ![Top.into].code = @ \o Emitted]
  /\ blocks' = blocks \ BlocksOf(Own)
  /\ n_flags' = n_flags + FlagsTaken(Top.node)
  /\ frames' = Pop(frames)
  /\ pc' = "compile"
  /\ UNCHANGED <<tree, result>>

\* Mutant of Unwind: of two buffers only the second is destroyed.
UnwindLast ==
  /\ pc = "unwind" /\ frames # <<>>
  /\ blocks' = blocks \ BlocksOf(IF Own = <<>> THEN <<>> ELSE <<Own[Len(Own)]>>)
  /\ buffers' = Outer
  /\ frames' = Pop(frames)
  /\ UNCHANGED <<pc, tree, n_flags, result>>

\* A call destroys the buffers it has made, one or both, and returns 0.
Unwind ==
  /\ pc = "unwind" /\ frames # <<>>
  /\ blocks' = blocks \ BlocksOf(Own)
  /\ buffers' = Outer
  /\ frames' = Pop(frames)
  /\ UNCHANGED <<pc, tree, n_flags, result>>

-----------------------------------------------------------------------------
(* compile_to_bytecode                                                     *)

\* The call returns, and what it worked with is forgotten.
Over ==
  /\ pc' = "idle"
  /\ tree' = [type |-> "EMPTY"] /\ n_flags' = 0
  /\ buffers' = <<>> /\ result' = NewBuffer
  /\ UNCHANGED frames

\* It does not destroy the outermost buffer.
CompileFails ==
  /\ pc = "unwind" /\ frames = <<>>
  /\ Over
  /\ UNCHANGED blocks

IsCompiled == pc = "compile" /\ frames = <<>>

\* unpack_bytecode: inline bytes are copied into a block of their size.
Unpack ==
  /\ IsCompiled
  /\ LET b     == buffers[1]
         block == IF b.block = INLINE THEN NewBlock ELSE b.block
     IN /\ result' = [code |-> b.code, capacity |-> b.capacity, block |-> block]
        /\ blocks' = blocks \cup {block}
  /\ buffers' = <<>>
  /\ pc' = "done"
  /\ UNCHANGED <<tree, n_flags, frames>>

UnpackFails ==
  /\ IsCompiled /\ buffers[1].block = INLINE
  /\ Over
  /\ UNCHANGED blocks

\* The regex is destroyed.
DestroyRegex ==
  /\ pc = "done"
  /\ blocks' = blocks \ {result.block}
  /\ Over

CompileParsetree ==
  CompileChild \/ PassOn \/ Return \/ Reserve \/ Grow \/ GrowFails \/ EmitNode \/ Unwind

Next ==
  \/ CompileToBytecodeBegins \/ CompileParsetree
  \/ CompileFails \/ Unpack \/ UnpackFails \/ DestroyRegex

Spec == Init /\ [][Next]_vars

-----------------------------------------------------------------------------
(* Properties                                                              *)

\* Whichever allocation fails, every block is some buffer's, of one only, and
\* a buffer has one exactly if it is larger than its inline bytes, by which
\* bytecode_heap_allocated tells.  When compile_to_bytecode has returned, the
\* code is the one block left, or none is: not even of the outermost buffer,
\* which is never destroyed after a failure in compile_parsetree.
BlocksOwned ==
  LET live == IF pc = "done" THEN <<result>> ELSE buffers
  IN /\ blocks = BlocksOf(live)
     /\ \A j, k \in DOMAIN live :
          j # k => live[j].block = INLINE \/ live[j].block # live[k].block
     /\ \A k \in DOMAIN buffers :
          buffers[k].block # INLINE <=> buffers[k].capacity > StackCapacity

\* The code copied from buffer to buffer, and the flags numbered on the way,
\* are those that the tree should compile to.
CompilesTree ==
  pc = "done" => [code |-> result.code, flags |-> n_flags] = Compile(tree, 0)

\* What a node emits fits the room computed for it before, and that room fits
\* the buffer, which nothing checks at run time.
\* vector.c:131: "assert(vector->size <= vector->capacity);"
FitsCapacity ==
  pc = "emit" => /\ Len(Emitted) <= Room
                 /\ Len(Into.code) + Room <= Into.capacity

-----------------------------------------------------------------------------
(* Properties of the code compile_to_bytecode returns                      *)

\* What step_thread asserts of a program holds of every program emitted: an
\* instruction ends and a jump or split lands where an instruction begins,
\* or at the end, and every index is below the size of its table.  Of the offsets
\* whose address native code needs, not even the end: only for an instruction
\* does compile_to_native define a label, and an undefined one is SIZE_MAX at best.
\* The group around the pattern is entered once.
EmitsWellFormed ==
  pc = "done" =>
    /\ WellFormed([code |-> result.code, flags |-> n_flags,
                   groups |-> MaxGroups, classes |-> <<{}>>])
    /\ LabelsDefined(result.code)
    /\ BeginsOnce(result.code)

\* Wherever two paths of a program meet, a flag lets only the first thread
\* at a position through; every loop passes one.  The paths are those of
\* instructions laid out one after another.
EmitsFlaggedJoins == pc = "done" => JoinsFlagged(result.code) /\ OperandsApart(result.code)
=============================================================================
