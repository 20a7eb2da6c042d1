------------------------------ MODULE Bytecode ------------------------------
(***************************************************************************)
(* The instruction set shared by the compiler (bytecode-compiler.c) and    *)
(* the two engines that run its output (vm.c and native-compiler.c).       *)
(*                                                                         *)
(* A program is the byte string the compiler emits, kept as a sequence of  *)
(* cells, one per byte: an instruction is an opcode cell, which carries    *)
(* the decoded operand and the operand's width, followed by `osize`        *)
(* operand bytes.  Instruction pointers and jump deltas are therefore byte *)
(* offsets, exactly as in the C code; address i is the cell code[i + 1].   *)
(***************************************************************************)
EXTENDS Integers, Sequences

CONSTANTS
  Chars,           \* the bytes a string may hold
  Newline,         \* '\n'
  BuiltinClasses,  \* builtin_classes: a sequence of sets of bytes
  WordClass        \* the index of BCC_WORD in it

EOF == -1          \* executor.c passes -1 past either end of the string

ASSUME BytecodeAssumption ==
  /\ Chars \subseteq 0 .. 255
  /\ BuiltinClasses \in Seq(SUBSET Chars)
  /\ WordClass \in 1 .. Len(BuiltinClasses)

-----------------------------------------------------------------------------
(* Opcodes (vm.h) and their encoding                                       *)

ConsumeOps == {"CHARACTER", "CHAR_CLASS", "BUILTIN_CHAR_CLASS"}
AnchorOps  == {"ANCHOR_BOF", "ANCHOR_BOL", "ANCHOR_EOF", "ANCHOR_EOL",
               "ANCHOR_WORD_BOUNDARY", "ANCHOR_NOT_WORD_BOUNDARY"}
SplitOps   == {"SPLIT_PASSIVE", "SPLIT_EAGER",
               "SPLIT_BACKWARDS_PASSIVE", "SPLIT_BACKWARDS_EAGER"}
Opcodes    == ConsumeOps \cup AnchorOps \cup SplitOps
                \cup {"JUMP", "WRITE_POINTER", "TEST_AND_SET_FLAG"}

OperandByte == [op |-> "OPERAND", operand |-> 0, osize |-> 0]

Cells == [op : Opcodes \cup {"OPERAND"}, operand : Nat, osize : {0, 1, 2, 4}]

Encode(op, operand, osize) ==
  <<[op |-> op, operand |-> operand, osize |-> osize]>>
    \o [i \in 1 .. osize |-> OperandByte]

-----------------------------------------------------------------------------
(* Addresses                                                               *)

\* The addresses that hold an opcode, and those a thread may stand at: the
\* end of the code is where a thread has matched.
Starts(code) == {i \in 0 .. Len(code) - 1 : code[i + 1].op # "OPERAND"}
Labels(code) == Starts(code) \cup {Len(code)}

\* The address after the instruction at ip, from which deltas are counted.
After(code, ip) == ip + 1 + code[ip + 1].osize

\* Where the running thread goes on after a jump or a split.
Continuation(code, ip) ==
  LET c == code[ip + 1] IN
  CASE c.op \in {"JUMP", "SPLIT_EAGER"}      -> After(code, ip) + c.operand
    [] c.op = "SPLIT_BACKWARDS_EAGER"        -> After(code, ip) - c.operand
    [] OTHER                                 -> After(code, ip)

\* Where the thread that a split creates starts.
SplitPointer(code, ip) ==
  LET c == code[ip + 1] IN
  CASE c.op = "SPLIT_PASSIVE"                -> After(code, ip) + c.operand
    [] c.op = "SPLIT_BACKWARDS_PASSIVE"      -> After(code, ip) - c.operand
    [] OTHER                                 -> After(code, ip)

-----------------------------------------------------------------------------
(* What the engines require of a program: the assertions of step_thread.   *)

WellFormed(r) ==
  /\ r.code \in Seq(Cells)
  /\ 0 \in Labels(r.code)
  /\ \A ip \in Starts(r.code) :
       LET c == r.code[ip + 1] IN
       /\ After(r.code, ip) \in Labels(r.code)
       /\ Continuation(r.code, ip) \in Labels(r.code)
       /\ c.op \in SplitOps => SplitPointer(r.code, ip) \in Labels(r.code)
       /\ c.op = "CHARACTER" => c.operand \in 0 .. 255
       /\ c.op = "CHAR_CLASS" => c.operand < Len(r.classes)
       /\ c.op = "BUILTIN_CHAR_CLASS" => c.operand < Len(BuiltinClasses)
       /\ c.op \in AnchorOps => c.operand = 0
       /\ c.op = "WRITE_POINTER" => c.operand < 2 * r.groups
       /\ c.op = "TEST_AND_SET_FLAG" => c.operand < r.flags

\* The program writes where the match begins first of all, and never again: it
\* is one group around everything.
BeginsOnce(code) ==
  /\ 0 \in Starts(code)
  /\ \A ip \in Starts(code) :
       LET c == code[ip + 1] IN
       /\ c.op = "WRITE_POINTER" /\ c.operand = 0 <=> ip = 0
       /\ Continuation(code, ip) # 0
       /\ c.op \in SplitOps => SplitPointer(code, ip) # 0

-----------------------------------------------------------------------------
(* What compile_to_native requires of a program                            *)

\* The offsets that the code of an instruction names by INSTR_LABEL.
LabelUses(code, ip) ==
  LET c == code[ip + 1] IN
  CASE c.op \in ConsumeOps -> {After(code, ip)}
    [] c.op = "JUMP"       -> {Continuation(code, ip)}
    [] c.op \in {"SPLIT_EAGER", "SPLIT_BACKWARDS_EAGER"} ->
         {Continuation(code, ip), SplitPointer(code, ip)}
    [] c.op \in SplitOps   -> {SplitPointer(code, ip)}
    [] OTHER               -> {}

\* compile_to_native creates and defines labels for instructions only, not
\* for the end of the code.
LabelsDefined(code) ==
  {0} \cup UNION {LabelUses(code, ip) : ip \in Starts(code)} \subseteq Starts(code)

-----------------------------------------------------------------------------
(* The ways from one instruction to another                                *)

Entry == -1      \* where a new thread comes from

Edges(code) ==
  {[from |-> Entry, kind |-> "goes", to |-> 0]}
    \cup {[from |-> ip, kind |-> "goes", to |-> Continuation(code, ip)] :
            ip \in Starts(code)}
    \cup {[from |-> ip, kind |-> "splits", to |-> SplitPointer(code, ip)] :
            ip \in {i \in Starts(code) : code[i + 1].op \in SplitOps}}

\* Where two ways meet there is a flag, which only the first thread to come
\* by at a position passes.
JoinsFlagged(code) ==
  \A e, f \in Edges(code) :
    e # f /\ e.to = f.to =>
      e.to < Len(code) /\ code[e.to + 1].op = "TEST_AND_SET_FLAG"

\* No instruction begins among the operand bytes of another.
OperandsApart(code) ==
  \A ip \in Starts(code) : (ip + 1 .. After(code, ip) - 1) \cap Starts(code) = {}

-----------------------------------------------------------------------------
(* The tests of step_thread                                                *)

\* Does a consuming instruction accept the character?
Accepts(r, ip, character) ==
  LET c == r.code[ip + 1] IN
  CASE c.op = "CHARACTER"          -> character = c.operand
    [] c.op = "CHAR_CLASS"         -> /\ character # EOF
                                      /\ character \in r.classes[c.operand + 1]
    [] c.op = "BUILTIN_CHAR_CLASS" -> /\ character # EOF
                                      /\ character \in BuiltinClasses[c.operand + 1]
    [] OTHER                       -> FALSE

IsWord(character) == character # EOF /\ character \in BuiltinClasses[WordClass]

\* Does an anchor hold between prev_character and character?
AnchorHolds(op, prev_character, character) ==
  CASE op = "ANCHOR_BOF" -> prev_character = EOF
    [] op = "ANCHOR_BOL" -> prev_character \in {EOF, Newline}
    [] op = "ANCHOR_EOF" -> character = EOF
    [] op = "ANCHOR_EOL" -> character \in {EOF, Newline}
    [] op = "ANCHOR_WORD_BOUNDARY" ->
         IsWord(prev_character) # IsWord(character)
    [] op = "ANCHOR_NOT_WORD_BOUNDARY" ->
         IsWord(prev_character) = IsWord(character)
    [] OTHER -> FALSE

\* The characters on the two sides of a position of the string.
CharAt(text, pos)   == IF pos < Len(text) THEN text[pos + 1] ELSE EOF
CharBefore(text, pos) == IF pos > 0 THEN text[pos] ELSE EOF
=============================================================================
