------------------------------- MODULE Parser -------------------------------
(***************************************************************************)
(* crex_compile_with_allocator of crex.c around parse of parser.c: the     *)
(* shift-reduce parser, its two stacks, and who frees what when an         *)
(* allocation fails.  The lexer is the environment: it delivers any token, *)
(* an error or the end.  The bytecode compiler is one step, known by its   *)
(* outcome.                                                                *)
(*                                                                         *)
(* A tree is a value, a record as BytecodeCompiler takes it; beside each   *)
(* on the stack is the number of memory blocks it is made of.  Garbage is  *)
(* what lies behind the end of a buffer.  Touching it, or memory that was  *)
(* freed, is "undefined" and ends the behaviour.                           *)
(***************************************************************************)
EXTENDS Integers, Sequences, FiniteSets

CONSTANTS
  Tokens,          \* the tokens the lexer delivers, but for CHAR_CLASS
  MaxTokens,       \* a bound: the longest pattern
  MaxClasses,      \* a bound: the number of character classes in it
  StackCapacity,   \* STACK_CAPACITY: 32 in the code
  MinAllocation,   \* MIN_ALLOCATION: 8 in the code
  Failing          \* the allocations that may fail, by what they are for

Scalars     == {"CHARACTER", "CHAR_CLASS", "BUILTIN_CHAR_CLASS", "ANCHOR"}
Repetitions == {"GREEDY_REPETITION", "LAZY_REPETITION"}
OpenParens  == {"OPEN_PAREN", "NON_CAPTURING_OPEN_PAREN"}
LexErrors   == {"E_BAD_ESCAPE", "E_BAD_CHARACTER_CLASS", "E_BAD_REPETITION"}

ASSUME ParserAssumption ==
  /\ StackCapacity \in Nat \ {0} /\ MinAllocation \in Nat \ {0}
  /\ MaxTokens \in Nat /\ MaxClasses \in Nat
  /\ \A t \in Tokens : t.type \in (Scalars \cup Repetitions \cup OpenParens
                                     \cup {"PIPE", "CLOSE_PAREN"}) \ {"CHAR_CLASS"}
  /\ Failing \subseteq {"regex", "node", "operators", "trees", "concatenation",
                        "classes", "bytecode"}

VARIABLES
  pattern,          \* the tokens lexed so far, the current one last
  pc,               \* where crex_compile_with_allocator is
  operators, operatorsCapacity,   \* operator_stack_t
  trees, treesCapacity,           \* parsetree_stack_t
  groups,           \* *n_capturing_groups
  classesSize, classesCapacity,   \* char_classes_t
  status,           \* *status
  tree,             \* what parse returned
  allocs, frees     \* calls of alloc, and of free with a block

stacks  == <<operators, operatorsCapacity, trees, treesCapacity>>
lexed   == <<pattern, groups, classesSize, classesCapacity>>
memory  == <<allocs, frees>>
vars    == <<lexed, pc, stacks, status, tree, memory>>

Nothing == [tree |-> [type |-> "NONE"], blocks |-> 0]
Garbage == [type |-> "GARBAGE"]
token   == pattern[Len(pattern)]

NON_CAPTURING_GROUP == -1    \* SIZE_MAX

Init ==
  /\ pattern = <<>>
  /\ pc = "regex"
  /\ operators = <<>> /\ operatorsCapacity = StackCapacity
  /\ trees = <<>> /\ treesCapacity = StackCapacity
  /\ groups = 1
  /\ classesSize = 0 /\ classesCapacity = 0
  /\ status = "NONE"
  /\ tree = Nothing
  /\ allocs = 0 /\ frees = 0

-----------------------------------------------------------------------------
(* Memory                                                                  *)

One(b) == IF b THEN 1 ELSE 0

\* Is a stack's buffer on the heap?
HeapAllocated(capacity) == One(capacity > StackCapacity)

\* The blocks of the trees on the stack.
StackBlocks ==
  LET sum[i \in 0 .. Len(trees)] ==
        IF i = 0 THEN 0 ELSE sum[i - 1] + trees[i].blocks
  IN sum[Len(trees)]

\* The capacity of a concatenation that has grown to n children one by one.
Capacity(n) ==
  LET cap[i \in 0 .. n] ==
        IF i = 0 THEN 0
        ELSE IF i <= cap[i - 1] THEN cap[i - 1]
        ELSE IF 2 * i < MinAllocation THEN MinAllocation ELSE 2 * i
  IN cap[n]

IsReal(child)   == child # Garbage
Real(children)  == SelectSeq(children, IsReal)

Die(code) == pc' = "die" /\ status' = code
NoMemory  == Die("E_NOMEM")

\* parsetree_stack_push of a node that was just allocated.  emplace counts the
\* element even when reserve fails, so that what is behind the end of the
\* buffer becomes part of the stack; the node itself is destroyed.
PushTree(item, base, next) ==
  \/ /\ Len(base) < treesCapacity
     /\ trees' = Append(base, item)
     /\ allocs' = allocs + 1
     /\ pc' = next
     /\ UNCHANGED <<treesCapacity, frees, status>>
  \/ /\ Len(base) >= treesCapacity
     /\ trees' = Append(base, item)
     /\ treesCapacity' = 2 * (Len(base) + 1)
     /\ allocs' = allocs + 2
     /\ frees' = frees + HeapAllocated(treesCapacity)
     /\ pc' = next
     /\ UNCHANGED status
  \/ /\ Len(base) >= treesCapacity /\ "trees" \in Failing
     /\ trees' = Append(base, [tree |-> Garbage, blocks |-> 0])
     /\ allocs' = allocs + 1
     /\ frees' = frees + item.blocks
     /\ NoMemory
     /\ UNCHANGED treesCapacity

\* ALLOC of a node fails.
NodeFails == "node" \in Failing /\ NoMemory

-----------------------------------------------------------------------------
(* crex_compile_with_allocator up to the first token                       *)

AllocRegex ==
  /\ pc = "regex"
  /\ \/ allocs' = allocs + 1 /\ pc' = "begin" /\ UNCHANGED status
     \/ "regex" \in Failing /\ pc' = "failed" /\ status' = "E_NOMEM" /\ UNCHANGED allocs
  /\ UNCHANGED <<lexed, stacks, tree, frees>>

Leaf(t) == [tree |-> t, blocks |-> 1]
Empty   == Leaf([type |-> "EMPTY"])

\* parser_push_empty
PushEmpty(next) ==
  \/ PushTree(Empty, trees, next)
  \/ NodeFails /\ UNCHANGED <<trees, treesCapacity, memory>>

Begin ==
  /\ pc = "begin"
  /\ PushEmpty("token")
  /\ UNCHANGED <<lexed, operators, operatorsCapacity, tree>>

-----------------------------------------------------------------------------
(* Tokens                                                                  *)

AfterLex(t) == IF t.type = "CLOSE_PAREN" THEN "close" ELSE "operator"

Lex ==
  /\ pc = "token" /\ Len(pattern) < MaxTokens
  /\ \E t \in Tokens :
       /\ pattern' = Append(pattern, t)
       /\ pc' = AfterLex(t)
  /\ UNCHANGED <<groups, classesSize, classesCapacity, stacks, status, tree, memory>>

LexError ==
  /\ pc = "token" /\ Len(pattern) < MaxTokens
  /\ \E code \in LexErrors : Die(code)
  /\ UNCHANGED <<lexed, stacks, tree, memory>>

\* lex_char_class: there is room for a class before the class is read, which
\* may turn out to be malformed, known, or new.
LexCharClass ==
  /\ pc = "token" /\ Len(pattern) < MaxTokens /\ classesSize < MaxClasses
  /\ IF classesSize < classesCapacity THEN UNCHANGED <<classesCapacity, memory>>
     ELSE /\ classesCapacity' = 2 * classesCapacity + 1
          /\ allocs' = allocs + 1
          /\ frees' = frees + One(classesCapacity > 0)
  /\ \/ /\ Die("E_BAD_CHARACTER_CLASS")
        /\ UNCHANGED <<pattern, classesSize>>
     \/ /\ \E i \in 0 .. classesSize :
             /\ pattern' = Append(pattern, [type |-> "CHAR_CLASS", index |-> i])
             /\ classesSize' = IF i = classesSize THEN i + 1 ELSE classesSize
        /\ pc' = "operator" /\ UNCHANGED status
  /\ UNCHANGED <<groups, stacks, tree>>

LexNoMemory ==
  /\ pc = "token" /\ Len(pattern) < MaxTokens /\ classesSize < MaxClasses
  /\ classesSize = classesCapacity /\ "classes" \in Failing
  /\ NoMemory
  /\ UNCHANGED <<lexed, stacks, tree, memory>>

-----------------------------------------------------------------------------
(* Operators                                                               *)

\* operator_type_t, in descending order of precedence.
Rank(type) == CASE type = "REPETITION"    -> 0
                [] type = "CONCATENATION" -> 1
                [] type = "ALTERNATION"   -> 2
                [] type = "GROUP"         -> 3

\* The operator a token stands for; what is not an operator is concatenated.
OperatorOf(t) ==
  CASE t.type = "PIPE"        -> [type |-> "ALTERNATION"]
    [] t.type \in Repetitions -> [type |-> "REPETITION", repetition |-> t]
    [] OTHER                  -> [type |-> "CONCATENATION"]

GroupOf(t) ==
  [type  |-> "GROUP",
   index |-> IF t.type = "OPEN_PAREN" THEN groups ELSE NON_CAPTURING_GROUP]

Top == operators[Len(operators)]
Right == trees[Len(trees)]
Left  == trees[Len(trees) - 1]

\* The stack without its top n trees.
Below(n) == SubSeq(trees, 1, Len(trees) - n)

\* Mutant of Node: the operands in the order in which they are popped.
NodeSwapped(op) ==
  CASE op.type = "ALTERNATION" ->
         [tree   |-> [type |-> "ALTERNATION", left |-> Right.tree, right |-> Left.tree],
          blocks |-> 1 + Left.blocks + Right.blocks]
    [] op.type = "REPETITION" ->
         [tree   |-> [type  |-> op.repetition.type, lower |-> op.repetition.lower,
                      upper |-> op.repetition.upper, child |-> Right.tree],
          blocks |-> 1 + Right.blocks]
    [] op.type = "GROUP" ->
         [tree   |-> [type |-> "GROUP", index |-> op.index, child |-> Right.tree],
          blocks |-> 1 + Right.blocks]

Node(op) ==
  CASE op.type = "ALTERNATION" ->
         [tree   |-> [type |-> "ALTERNATION", left |-> Left.tree, right |-> Right.tree],
          blocks |-> 1 + Left.blocks + Right.blocks]
    [] op.type = "REPETITION" ->
         [tree   |-> [type  |-> op.repetition.type, lower |-> op.repetition.lower,
                      upper |-> op.repetition.upper, child |-> Right.tree],
          blocks |-> 1 + Right.blocks]
    [] op.type = "GROUP" ->
         [tree   |-> [type |-> "GROUP", index |-> op.index, child |-> Right.tree],
          blocks |-> 1 + Right.blocks]

Arity(op) == IF op.type = "ALTERNATION" THEN 2 ELSE 1

Concat(children, blocks) ==
  [tree |-> [type |-> "CONCATENATION", children |-> children], blocks |-> blocks]

\* parser_pop_operator extends the left tree if it is a concatenation.
ExtendConcat(next) ==
  /\ Top.type = "CONCATENATION" /\ Left.tree.type = "CONCATENATION"
  /\ LET children == Left.tree.children
         room     == Len(children) < Capacity(Len(children))
         extended == Concat(Append(children, Right.tree), Left.blocks + Right.blocks)
     IN \/ /\ trees' = Append(Below(2), extended)
           /\ allocs' = allocs + One(~room)
           /\ frees' = frees + One(~room)
           /\ pc' = next /\ UNCHANGED status
        \/ /\ ~room /\ "concatenation" \in Failing
           /\ trees' = Append(Below(2), Concat(Append(children, Garbage), Left.blocks))
           /\ frees' = frees + Right.blocks
           /\ NoMemory /\ UNCHANGED allocs
  /\ UNCHANGED treesCapacity

\* A new concatenation of two.  When the first concatenation_push fails both
\* trees are destroyed, and then used by the second one.
NewConcat(next) ==
  /\ Top.type = "CONCATENATION" /\ Left.tree.type # "CONCATENATION"
  /\ \/ /\ trees' = Append(Below(2), Concat(<<Left.tree, Right.tree>>,
                                            2 + Left.blocks + Right.blocks))
        /\ allocs' = allocs + 2
        /\ pc' = next /\ UNCHANGED <<frees, status>>
     \/ NodeFails /\ UNCHANGED <<trees, memory>>
     \/ /\ "concatenation" \in Failing
        /\ trees' = Append(Below(2), Concat(<<Garbage>>, 1))
        /\ allocs' = allocs + 1
        /\ frees' = frees + Left.blocks + Right.blocks
        /\ pc' = "undefined" /\ UNCHANGED status
  /\ UNCHANGED treesCapacity

\* Every other operator makes a node of the trees on top of the stack.
NewNode(next) ==
  /\ Top.type # "CONCATENATION"
  /\ \/ PushTree(Node(Top), Below(Arity(Top)), next)
     \/ NodeFails /\ UNCHANGED <<trees, treesCapacity, memory>>

PopOperator(next) ==
  /\ operators' = SubSeq(operators, 1, Len(operators) - 1)
  /\ ExtendConcat(next) \/ NewConcat(next) \/ NewNode(next)
  /\ UNCHANGED <<lexed, operatorsCapacity, tree>>

\* operator_stack_push; its elements need no destruction.
PushOperator(op, next) ==
  \/ /\ operators' = Append(operators, op)
     /\ IF Len(operators) < operatorsCapacity THEN UNCHANGED <<operatorsCapacity, memory>>
        ELSE /\ operatorsCapacity' = 2 * (Len(operators) + 1)
             /\ allocs' = allocs + 1
             /\ frees' = frees + HeapAllocated(operatorsCapacity)
     /\ pc' = next /\ UNCHANGED status
  \/ /\ Len(operators) >= operatorsCapacity /\ "operators" \in Failing
     /\ NoMemory
     /\ UNCHANGED <<operators, operatorsCapacity, memory>>

-----------------------------------------------------------------------------
(* The handling of a token                                                 *)

\* Mutant of BindsTighter: operators of equal precedence stay on the stack.
BindsMoreTightly(op) == operators # <<>> /\ Rank(Top.type) < Rank(op.type)

\* parser_push_operator first pops what binds no less tightly.
BindsTighter(op) == operators # <<>> /\ Rank(Top.type) <= Rank(op.type)

PopTighter ==
  /\ pc = "operator" /\ BindsTighter(OperatorOf(token))
  /\ PopOperator("operator")

Shift ==
  /\ pc = "operator" /\ ~BindsTighter(OperatorOf(token))
  /\ PushOperator(OperatorOf(token),
                  CASE token.type \in Repetitions -> "token"
                    [] token.type \in OpenParens  -> "group"
                    [] OTHER                      -> "operand")
  /\ UNCHANGED <<lexed, trees, treesCapacity, tree>>

OpenGroup ==
  /\ pc = "group"
  /\ PushOperator(GroupOf(token), "operand")
  /\ groups' = groups + One(token.type = "OPEN_PAREN")
  /\ UNCHANGED <<pattern, classesSize, classesCapacity, trees, treesCapacity, tree>>

\* A scalar's own tree, or the empty tree a group or an alternative begins with.
Operand ==
  /\ pc = "operand"
  /\ \/ token.type \notin Scalars /\ PushEmpty("token")
     \/ token.type \in Scalars /\ PushTree(Leaf(token), trees, "token")
     \/ /\ token.type \in Scalars /\ NodeFails
        /\ UNCHANGED <<trees, treesCapacity, memory>>
  /\ UNCHANGED <<lexed, operators, operatorsCapacity, tree>>

CloseParen ==
  /\ pc = "close" /\ operators # <<>>
  /\ PopOperator(IF Top.type = "GROUP" THEN "token" ELSE "close")

UnmatchedClose ==
  /\ pc = "close" /\ operators = <<>>
  /\ Die("E_UNMATCHED_CLOSE_PAREN")
  /\ UNCHANGED <<lexed, stacks, tree, memory>>

-----------------------------------------------------------------------------
(* The end of the pattern                                                  *)

End ==
  /\ pc = "token"
  /\ pc' = "end"
  /\ UNCHANGED <<lexed, stacks, status, tree, memory>>

PopRest ==
  /\ pc = "end" /\ operators # <<>> /\ Top.type # "GROUP"
  /\ PopOperator("end")

UnmatchedOpen ==
  /\ pc = "end" /\ operators # <<>> /\ Top.type = "GROUP"
  /\ Die("E_UNMATCHED_OPEN_PAREN")
  /\ UNCHANGED <<lexed, stacks, tree, memory>>

\* The whole expression becomes group 0; the stacks are destroyed.
Finish ==
  /\ pc = "end" /\ operators = <<>>
  /\ \/ /\ tree' = [tree   |-> [type |-> "GROUP", index |-> 0, child |-> trees[1].tree],
                    blocks |-> 1 + trees[1].blocks]
        /\ trees' = <<>>
        /\ allocs' = allocs + 1
        /\ frees' = frees + HeapAllocated(operatorsCapacity) + HeapAllocated(treesCapacity)
        /\ pc' = "compile" /\ UNCHANGED status
     \/ NodeFails /\ UNCHANGED <<tree, trees, memory>>
  /\ UNCHANGED <<lexed, operators, operatorsCapacity, treesCapacity>>

\* compile_to_bytecode, which frees what it does not return; the tree is
\* destroyed either way.  Nothing is written to *status when it succeeds.
Compile ==
  /\ pc = "compile"
  /\ \/ /\ allocs' = allocs + 1 /\ frees' = frees + tree.blocks
        /\ pc' = "done" /\ UNCHANGED status
     \/ /\ "bytecode" \in Failing
        /\ frees' = frees + tree.blocks + One(classesCapacity > 0) + 1
        /\ pc' = "failed" /\ status' = "E_NOMEM" /\ UNCHANGED allocs
  /\ UNCHANGED <<lexed, stacks, tree>>

\* crex_destroy_regex
DestroyRegex ==
  /\ pc = "done"
  /\ frees' = frees + 1 + One(classesCapacity > 0) + 1
  /\ pc' = "destroyed"
  /\ UNCHANGED <<lexed, stacks, status, tree, allocs>>

\* Mutant of Unwind: the character classes are forgotten.
UnwindNotClasses ==
  /\ pc = "die"
  /\ frees' = frees + StackBlocks + HeapAllocated(operatorsCapacity)
                + HeapAllocated(treesCapacity) + 1
  /\ pc' = "failed"
  /\ UNCHANGED <<lexed, stacks, status, tree, allocs>>

TouchesGarbage(item) ==
  \/ item.tree = Garbage
  \/ item.tree.type = "CONCATENATION" /\ Real(item.tree.children) # item.tree.children

\* DIE, and the error path of crex_compile_with_allocator when parse fails.
Unwind ==
  /\ pc = "die"
  /\ IF \E i \in DOMAIN trees : TouchesGarbage(trees[i])
     THEN pc' = "undefined" /\ UNCHANGED frees
     ELSE /\ frees' = frees + StackBlocks + HeapAllocated(operatorsCapacity)
                        + HeapAllocated(treesCapacity) + One(classesCapacity > 0) + 1
          /\ pc' = "failed"
  /\ UNCHANGED <<lexed, stacks, status, tree, allocs>>

Next ==
  \/ AllocRegex \/ Begin
  \/ Lex \/ LexError \/ LexCharClass \/ LexNoMemory
  \/ PopTighter \/ Shift \/ OpenGroup \/ Operand \/ CloseParen \/ UnmatchedClose
  \/ End \/ PopRest \/ UnmatchedOpen \/ Finish
  \/ Compile \/ DestroyRegex \/ Unwind

Spec == Init /\ [][Next]_vars

-----------------------------------------------------------------------------
(* Properties                                                              *)

Places == {"regex", "begin", "token", "operator", "close", "group", "operand",
           "end", "compile", "die", "done", "failed", "destroyed", "undefined"}

\* The types of all variables but the trees.
TypeOK ==
  /\ Len(pattern) <= MaxTokens
  /\ pc \in Places
  /\ \A i \in DOMAIN operators :
       operators[i].type \in {"REPETITION", "CONCATENATION", "ALTERNATION", "GROUP"}
  /\ {operatorsCapacity, treesCapacity} \subseteq Nat
  /\ {groups, classesSize, classesCapacity, allocs, frees} \subseteq Nat
  /\ classesSize <= classesCapacity
  /\ status \in {"NONE", "E_NOMEM", "E_UNMATCHED_OPEN_PAREN",
                 "E_UNMATCHED_CLOSE_PAREN"} \cup LexErrors

Binaries ==
  {i \in DOMAIN operators : operators[i].type \in {"CONCATENATION", "ALTERNATION"}}

\* parser_pop_operator asserts that the stack holds the trees the operator
\* takes, and parse that one tree is left at the end: each pending binary
\* operator accounts for one tree but the first.  And precedence rises towards
\* the top of the operator stack, except that a group starts afresh, on the
\* concatenation that precedes it.
StacksConsistent ==
  /\ TypeOK
  /\ pc \in {"token", "operator", "close", "end"} => Len(trees) = Cardinality(Binaries) + 1
  /\ pc \in {"operand", "group"} => Len(trees) = Cardinality(Binaries)
  /\ \A i \in 1 .. Len(operators) - 1 :
       IF operators[i + 1].type = "GROUP"
       THEN operators[i].type = "CONCATENATION"
       ELSE Rank(operators[i + 1].type) < Rank(operators[i].type)

\* What crex_compile_with_allocator or its caller has yet to free.
Held ==
  LET table == One(classesCapacity > 0) IN
  CASE pc \in {"regex", "failed", "destroyed"} -> 0
    [] pc = "compile" -> 1 + table + tree.blocks
    [] pc = "done"    -> 1 + table + 1
    [] OTHER          -> 1 + table + StackBlocks + HeapAllocated(operatorsCapacity)
                           + HeapAllocated(treesCapacity)

\* Every block that was allocated is freed once, or is still to be found from
\* the stacks, the table of classes or the regex: none is left when compiling
\* fails, nor when the regex has been destroyed.
BlocksAccounted == pc # "undefined" => allocs = frees + Held

\* alloc-hygiene.c, compile_regex: assert(stats.allocs == stats.frees) after a
\* compile that ran out of memory - so it gets that far, and leaves nothing.
FailuresAreHygienic ==
  pc # "undefined" /\ (pc = "failed" => allocs = frees)
=============================================================================
