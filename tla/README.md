# A TLA+ model of libcrex

libcrex compiles a regular expression to bytecode and runs it with a Pike-style
thread machine, or compiles the bytecode on to x86-64 code that does the same.
This directory holds TLA+ modules for its components, the TLC configurations
that check them on small instances, and proofs, checked by TLAPS: that the
bytecode engine manages its memory soundly and refines the matching algorithm,
that the emitted code does both as well, in its registers, for programs that
keep clear of a defect of its flags, that the algorithm finds leftmost matches,
that the lexer's classes are canonical, that the parser's stacks stay consistent
and it frees each block once, that the assembler shortens jumps safely,
completely and without losing code, and that the pages it works in are accounted
for.

Paths below are relative to the root of the repository.

## 1. Inventory

| component | source | state | operations |
|---|---|---|---|
| lexer | `src/lexer.c` | position in the pattern; table of character classes | `lex`, `lex_escape_code`, `lex_char_class`, `str_to_size` |
| parser | `src/parser.c`, `src/vector.c` | operator stack, tree stack, group counter | `parse`, `parser_push_operator`, `parser_pop_operator`, `destroy_parsetree` |
| bytecode compiler | `src/bytecode-compiler.c`, `src/serialization.c`, `src/vector.c` | flag counter; one code buffer per node being compiled, inline or on the heap | `compile_to_bytecode`, `compile_parsetree` |
| bytecode engine | `src/vm.c` | one buffer with flags and thread blocks, free list, thread list, matched thread | `create_vm`, `vm_alloc`, `run_threads`, `step_thread`, `on_match` |
| executor | `src/executor.c` | position in the string, previous character | `execute_regex` |
| native compiler | `src/native-compiler.c` | of the code it emits: registers, stack slots, the same buffer and lists | `compile_to_native` and what it emits: prologue, loops, allocator, splits, epilogue |
| assembler | `src/assembler.c` | pages of code that grow and move, label uses, label values, shrinkage | `reserve_assembler_space`, `grow_assembler`, `define_label`, `resolve_assembler_labels`, `finalize_assembler` |
| instruction encoding | `src/x64-encoding.c`, `src/x64/` | none | `encode_*`, `reserve_size_for_encoding` |
| contexts and API | `src/crex.c` | a context: one buffer that outlives calls | compile, destroy, create a context, the three matching calls |
| debug output, tools | `src/debug.c`, `src/tools/` | none | printing |
| engine tests | `engine-tests/` | suites of patterns and expected spans | generators, `etest`, `ebench`, `alloc-hygiene` |

How they interact: `crex_compile_with_allocator` calls `parse`, which pulls
tokens from `lex`; the tree goes to `compile_to_bytecode`, and on x86-64 the
bytecode on to `compile_to_native`, which writes instructions through the
assembler and ends with `finalize_assembler`.  A matching call runs either
`execute_regex`, which drives `run_threads` one character at a time, or the
native code; both take their memory from the caller's context and tell it when
the buffer has moved.  There is no concurrency inside the library: a call runs
to its end in its caller's thread.  What makes it hard is

* memory: a single buffer, moved while handles into it are held, with blocks
  that travel between three lists through one `NEXT` field, in `vm.c` and again
  in emitted code that keeps them in registers across calls;
* failure: any allocation may fail, in the middle of a parse, a compilation or a
  match, and the same context is used again afterwards;
* ordering: which match wins is encoded in the order of the thread list alone;
* termination and the bound on threads, which rest on flags the compiler places;
* arithmetic of operand widths, where sizes depend on the values they encode,
  and of jumps, whose lengths depend on distances that depend on their lengths;
* code that is rewritten in place, and moves while it is written.

What makes the components correct:

* lexer: tokens are the longest texts the syntax admits, classes hold what their
  items say, and equal classes share an index;
* parser: the tree is that of the grammar; stacks hold the operands asserted;
  each block is freed once, whatever fails;
* compiler: programs are well formed, flagged where paths meet, fit the room
  reserved for them, and no buffer is lost when memory runs out;
* both engines: blocks are disjoint, owned once, never used when free, within
  the buffer the context owns; the list is in order of priority;
* compiler and engine together: a call returns, with the span and the groups
  that backtracking in order of preference would find;
* assembler: jumps reach their labels in the form chosen for them, code survives
  moving, every page is given back;
* encoding: the bytes mean the instruction asked for, and fit.

`PROJECT.json` lists the hazards one by one, each with its line.

## 2. Modules

| module | models | remarks |
|---|---|---|
| `Bytecode` | the instruction set, addresses and deltas, the tests of `step_thread`; what the engines assert of a program (`WellFormed`, `LabelsDefined`) and the order of threads rests on (`BeginsOnce`) | no state |
| `BytecodeCompiler` | what `compile_parsetree` emits, as a function from trees to programs | recursive, for TLC only |
| `CompilerMemory` | the calls of `compile_parsetree` with their buffers, reservations and failures | emits what `BytecodeCompiler` says |
| `RegexSemantics` | the reference: matches of a tree in order of preference, by backtracking | not the code's; recursive |
| `PikeVm` | the algorithm of `execute_regex` and `run_threads` on two sequences of threads, without memory | the abstract specification |
| `Chains` | lists that run through the blocks of a pool: `Segment` reads one off | pure operators, no recursive operator |
| `Vm` | `vm.c`, `executor.c` and the context: buffer, bump pointer, free list, thread list, one action per loop iteration | implements `PikeVm` |
| `NativeVm` | the code that `compile_to_native` emits, as it runs: one action per stretch of code between labels or calls | implements `PikeVm` |
| `Parser` | `crex_compile_with_allocator` around `parse`: stacks, error paths, blocks allocated and freed | the lexer is its environment |
| `Lexer` | `lex`, called until the pattern ends; a class is read one item at a time | the tables of classes are those of `crex.c` |
| `Assembler` | label uses, the passes that shorten jumps, emission in place | |
| `LocalBranches` | `Assembler` with the branches that `compile_to_native` writes past it | |
| `CodeMapping` | the pages code is assembled in, the list of uses, trimming, protecting, destroying | |
| `X64Encoding` | the bytes of an instruction and the room reserved; a decoder | |
| `MC*` | instances for TLC | `MCParser` and `MCLexer` hold the reference definitions of grammar and tokens |
| `PikeProofs`, `LexerProofs`, `ParserProofs`, `AssemblerProofs`, `CodeMappingProofs` | inductive invariants and theorems | TLAPS; `AssemblerProofs` also covers `LocalBranches` |
| `ChainProofs` | what `Segment` reads, for any finite pool; the least number principle | used by the next two, and for that principle by `AssemblerProofs` and `ParserProofs` |
| `VmProofs` | that `Vm` owns its buffer and its blocks, loses none, and refines `PikeVm` | |
| `NativeProofs` | that the emitted code owns its buffer and its blocks, and refines `PikeVm` | an invariant and lists of its own |

`Vm` and `NativeVm` instantiate `PikeVm`; `CompilerMemory` extends
`BytecodeCompiler`; `MCMatch` composes compiler, algorithm and reference;
`MCVm` and `MCNative` run programs that the compiler's model emits.

### How state corresponds to the code

`PikeVm` keeps the thread list of `vm_t` as `kept` (the threads up to
`prev_thread`, waiting for the next character) and `todo` (from `thread` on; its
head is the one whose instruction pointer is the local `instr_pointer`).
`matched` is `matched_thread`, with its pointers.

`Vm` keeps the memory itself.  A handle is an offset in the buffer, in words of
`BLOCK_SIZE`; `next`, `instr` and `ptrs` are the macros `NEXT`, `INSTR_POINTER`
and `POINTER_BUFFER`, functions on the handles handed out so far; `heap` is what
the allocator has given out.  `vm_alloc` is three operators, one per way it
returns a block, and `NoMemory` its failure.  `pc` names the loop the call is
in: `flags` (the end of `create_vm`), `position` (`run_threads` begins),
`thread` and `step` (its two loops), `free` (the loop of `on_match`), `return`
(back in `execute_regex`), `finish`.  `region` is an auxiliary variable, the use
each block is put to, from which the refinement mapping and the proofs read off
which threads have run.  The flags a new buffer holds are arbitrary until
`run_threads` clears them.

`ImplementsPike` maps `Vm` to `PikeVm` by following `NEXT` from `head`
(`Segment` of `Chains`): the engine, with its recycling, moving and cutting, is
the abstract algorithm, step for step, and never loses, repeats or reorders a
thread.  It is a refinement of the algorithm's safety part; that calls return is
a property of its own, `CallsReturn`.

`NativeVm` names its variables after the registers and stack slots
(`R_FREELIST`, `M_HEAD`, ...); the comments of its declaration give the pairs.
What an allocation needs across its call is in `request`, `caller` and `fresh`,
and control is `alloc` and `move` meanwhile.  The emitted engine differs from
`vm.c`: the context learns of a new buffer only in the epilogue, which every
exit reaches; the first flags are in a register; whether a thread may start is
the stack slot `M_INITIAL_STATE_PUSHED`, which no prologue writes, so its first
value is arbitrary; it goes through the whole string even when no thread is
left.  It maps to the same `PikeVm` by its lists, read by `Segment` as for `Vm`.
`Place` says where the algorithm is while the allocator runs or the call leaves
for want of memory, and the result, written before the epilogue, counts as
`matched` until the call returns.  `region` and `spawned` are auxiliary.

`Parser` takes a token, or an error, or the end, from an environment that may
deliver anything; `operators` and `trees` are the two stacks with their
capacities.  A tree is a value and carries the number of memory blocks it is
made of.  What lies behind the end of a buffer is `Garbage`; to use it, or
something freed, leads to `pc = "undefined"`, where nothing is promised.

`Lexer` keeps the pattern, the position in it (`*pattern` in the code) and the
tokens delivered; `pc = "class"` is the loop of `lex_char_class`, with its
locals `bitmap`, `prev_character` and `is_range` as variables.  A bitmap is a
set of bytes.  `str_to_size` has the width of `size_t` as the constant
`SizeMax`.  A token that was never written holds any byte of `Garbage`; the
search behind the table of names ends in an error, in a class, or in
`pc = "undefined"`.  The position after an error is left out: nobody reads it.

`CompilerMemory` keeps the recursion as a stack, `frames`: the node, the buffer
it emits into, how many children are done, and which buffers are the frame's
own.  `buffers` are the `bytecode_t` alive; `block = INLINE` is one within its
stack capacity, by which `bytecode_heap_allocated` tells.  The product that
sizes a repetition is taken modulo `SizeLimit`, as `size_t` takes it.

`Assembler` keeps `label_uses` as `uses`, `is_short` as the set `short`, and the
code as cells that remember where they were assembled, so that any byte lost or
misplaced shows.  `now` and `was` are auxiliary, the shrinkage at each use in
this pass and the last; only the proofs read them.  `CodeMapping` keeps the
mapped pages and which bytes of the code each holds; `orphans` is auxiliary, the
pages that are left behind where the code forgets to release them.
`LocalBranches` adds a set of spans that the assembler does not know of.

An operator called a *mutant* in its comment is used by no specification.  It is
a plausible mistake in the operator that follows it, kept to show that the
property `PROJECT.json` pairs it with would notice.

## 3. Runs

| run | instance | shows |
|---|---|---|
| `vm` | five regexes (a lazy loop, a loop whose body may match nothing, branches with anchors and a class, a match with threads behind it, a match with a better thread before it), five strings, two buffers, all kinds of call one after the other in one context | every property of memory and lists, the refinement, and that every call returns |
| `native` | the same five regexes, and one whose flags overflow the register; five strings, two buffers, all kinds of call | the same of the emitted code, with the bound on states, and that every call returns |
| `native_flags` | a regex with flags in both halves of the register | a finding, see below |
| `match` | 350 trees of two levels of operators with a capturing group, strings up to three letters and two with newlines | result equals the reference; the order of the list; no two threads at one place; every call returns |
| `match_shared_flags` | the trees of that family whose repetitions copy flags | a finding |
| `compiler` | trees of up to three operators, forks of two, and trees with four or five flags; buffers of five inline bytes; operand thresholds scaled to 3 and 6; any allocation failing | ownership of buffers, room, every operand width and its boundaries, flags |
| `parser` | every string of up to six tokens of seven kinds, two classes, stacks and concatenations of capacity two, any allocation failing | grammar, stack discipline, ownership |
| `parser_concatenation` | the parser where only that allocation fails | a finding |
| `lexer` | braces and what may stand in them, up to six characters; classes of up to three items of fourteen kinds, or of five characters and hyphens; up to three classes in a row; up to three pieces of other syntax | tokens, errors and classes against a definition of tokens; every pattern is lexed to its end or its error |
| `labels` | every order of up to four uses and definitions of two labels, of all types, with code between them; short jumps reach 8 bytes, long ones 15; one local branch | short jumps fit, none is left long, code comes out whole, branches land |
| `code_pages` | pages of three bytes, eight of them, code of up to five bytes, two regexes at a time, every request refused at some time | pages accounted for, code kept through moves and trimming |
| `encoding` | one entry of each form of instruction; registers, displacements and immediates on both sides of each boundary | a decoder reads back what was asked for, within the room reserved |

Why the bounds are enough.  In `vm` and `native` a call needs up to eight
blocks, so buffers are outgrown, moved and recycled with blocks on every list; a
second buffer is all an engine holds while it copies; `FlagsPerWord = 2` (64 in
the code) makes flags take more than one word; sizes 0, 2 and 4 of a thread
follow each other in one buffer.  In `native`, `RegisterFlags = 8` (64 in the
code) lets one regex have flags in the lower half of the register and in memory;
its flags of the upper half lie behind a character no string has there, for a
reason given under `native_flags`, which uses 4 and two joins.  In `match` the
trees nest each kind of repetition around groups around repetitions or
alternatives, which is the least depth at which priority, empty iterations and
groups interact.  In `compiler` the thresholds 0xff and 0xffff are scaled down
to 3 and 6: nothing depends on them but the widths they separate; codes are
shorter and longer than the inline capacity at one level and at several, so that
a failure can strike with any number of buffers on the heap.  In `parser`
capacities 32 and 8 are scaled down to 2, so that both stacks and a
concatenation outgrow them within six tokens.  In `lexer` `SizeMax` is 31, so
that two digits stay below it, reach it or pass it; three items are the least a
range takes, five characters two ranges that share a hyphen; three classes make
the table grow twice.  In `labels` the stretch of code is as long as makes a
jump over one of them short, over two long, and over one with a jump in it short
only after that jump; a chain of such takes three passes.  `NearMax` is small
enough to be passed.  `labels` has two labels that are alike: permuting them is
its symmetry, and it checks no liveness.  In `code_pages` five bytes fill two
pages, two growths leave pages to trim, and eight pages hold two regexes and a
move.  `MaxWords`, `MaxTokens`, `MaxClasses`, `MaxText`, `MaxGroups`, `MaxUses`,
`UseTypes`, `Segments`, `MaxBranches`, `Pages`, `Lengths`, `MaxSize`,
`MaxRegexes` and `Patterns` are the only other bounds.

`match`, `compiler`, `parser`, `lexer`, `labels` and `encoding` stop where the
program returns, and `code_pages` where it uses what it has given back (see
known defects), so deadlock is not checked in them; in `vm` and `native` the
client can always go on.

Fairness.  `WF_vars(Run)` in `PikeVm`, `Vm` and `NativeVm`, and `WF_vars(Next)`
in `Lexer`: a call that was made is carried out, because it is plain sequential
code in the caller's thread.  Nothing is assumed of the client, which need not
call, nor of the allocator, which may fail whenever asked.  That every call
returns is checked of the algorithm on all trees of `match` and of the emitted
code on its programs, of `Vm` on the same.

### Findings

* **Copies of a repetition share flags** (`match_shared_flags`).
  `compile_parsetree` copies the child's bytes for every required and optional
  repetition, flag numbers included.  A flag set in one copy rejects the thread
  in the next one at the same character: `(?:a|b){2}c` does not match "aabc",
  `(?:a|){2}` does not match "a", and `((){2}){2}` not the empty string.
  `match` leaves out exactly the trees whose programs test one flag in two
  places.
* **A concatenation that cannot be allocated** (`parser_concatenation`).
  `parser_pop_operator` goes on after destroying its operands.  Compiling `ab`
  with an allocator that fails at that point ends in a failed assertion, or
  without assertions in a crash.  The `alloc-hygiene` engine tests exactly this,
  but is compiled with `NDEBUG` and its assertions with it.
* **A low flag clears the high ones** (`native_flags`).  Flags below 32 are set
  by a 32-bit instruction on the register that holds 64, which clears its upper
  half.  A flag of the upper half can then be passed twice at one position; where
  it is the one that stops a loop, the loop goes on until memory runs out.

### Known defects

What the code does in these places was met while modelling and is in the models.
No run is devoted to them; the runs above are checked short of them.

* `src/vector.c:136`: `emplace` counts an element even when `reserve` failed.
  The vector is then larger than its capacity, and unwinding reads behind its
  end (`Parser`, `pc = "undefined"`).
* `src/lexer.c:266`: `\x` without its two digits returns an error code from a
  function whose 0 means failure.  `\xZ1` and `\x4` compile, to a character that
  was never written.
* `src/lexer.c:431`: names are sought with the length of the table of classes,
  18, not of names, 14.  `[[:foo:]]` reads behind the table, and `[[::]]`, an
  empty name, may compile.
* `src/bytecode-compiler.c:188`: the product that reserves room for a repetition
  may wrap.  With `SizeLimit` as small as the patterns, `FitsCapacity` fails.
* `src/assembler.c:396`: whether a long jump fits 32 bits is asked with the
  length of the short form, and asserted at line 472 with that of the long one;
  they differ for the last bytes in 2 GB (`TooFar` in `Assembler`).
* `src/assembler.c:115`: when the labels cannot be resolved the pages are not
  released (`orphans` in `CodeMapping`).
* `src/assembler.c:166`: after the second `mmap` of a move the result of the
  first is tested, so its failure goes unnoticed (`MoveRefused` leads to
  `pc = "stray"`, where nothing is promised).
* `src/x64-encoding.c:100`: R12 as a base without an index would need a SIB byte
  and gets none.  The compiler never uses it so; `X64Encoding` leaves it out.

Two differences that are not defects.  In a loop without an upper bound whose
body may match nothing, crex and PCRE agree on the span but not always on the
groups of the last, empty, iteration (`(a?)*` on "a"); `MatchIsReference`
leaves the groups of such loops out, not their spans.  And `crex_compile` leaves
`*status` unwritten on success in a build without native code.

## 4. Proofs

`VmProofs` proves, for every set of well-formed regexes, every string, number of
groups and flags, word size, and bound on memory:

| theorem | property |
|---|---|
| `TypeCorrect` | `TypeOK` |
| `BuffersAreOwned` | `BufferOwned`: one buffer is allocated, the context's, and a call works in it |
| `BlocksAreDisjoint` | `BlocksDisjoint`: flags and threads never overlap or leave the buffer |
| `BlocksHaveOneOwner` | `OneOwner`: no block is on two lists, or twice on one |
| `FreeBlocksAreFree` | `FreeIsFree`: nothing on the free list is in use |
| `ListStaysIntact` | `ListIntact`: the assertion at the head of the loop of `run_threads` |
| `CodeIsSafe` | `CodeSafe`: the types, and the assertions on instruction pointers |
| `NothingIsLost` | `NoBlockLost`: every block is on a list or is the match, and the pool is no larger than its blocks |
| `Refinement` | `ImplementsPike`: the engine on its linked lists implements the algorithm on sequences |
| `EngineFindsLeftmost` | what `PikeProofs` proves of the order of threads holds of the engine, where the programs write their beginning once |
| `EngineThreadsAreDistinct` | so does `DistinctThreads`, where the programs have flags at all joins too |

`NativeProofs` proves, for every set of well-formed regexes whose labels all name
instructions, every string, number of groups and flags, width of the flag
register, and bound on memory:

| theorem | property |
|---|---|
| `BuffersAreOwned` | `BufferOwned`: one buffer, which no exit of the emitted code forgets to hand back |
| `BlocksAreDisjoint` | `BlocksDisjoint`: flags and states never overlap, also between the allocator and its caller |
| `StatesAreOwned` | `StatesOwned`: the types; no block has two owners, nothing free is in use, no block is lost, states resume at code |
| `Refinement` | `ImplementsPike`: the emitted code implements the algorithm on sequences, where `FlagsFit` |
| `FlagsAreKept` | `FlagsLast`: a flag that is set stays set until the next position, where `FlagsFit` |
| `NativeFindsLeftmost` | what `PikeProofs` proves of the order of threads holds of the emitted code, where `FlagsFit` and the programs write their beginning once |
| `FewStates` | `MemoryBounded`: no more states than instructions that wait or split and two, where the programs have flags at all joins too |

`FlagsFit` says that no instruction tests a flag of the upper half of the
register: programs with up to 32 flags meet it, and so do those with more whose
instructions happen to test others.  It cannot be left out, as `native_flags`
shows, and the theorems say that nothing else is needed: the loss of those flags
is the one way in which the emitted code departs from the algorithm.

`PikeProofs` proves, for every set of programs that are well formed and write
where a match begins first of all and never again, and every string:

| theorem | property |
|---|---|
| `ThreadsInOrder` | `LeftmostFirst`: threads are in the order of where they began, the match behind them |
| `MatchesImprove` | `MatchOnlyImproves`: a match gives way only to one that begins no later |
| `ThreadsAreDistinct` | `DistinctThreads`: no two threads wait at one instruction, where flags are at all joins |
| `FewThreads` | `ThreadsBounded`: threads are at most the instructions that wait or split and one, where flags are at all joins |
| `TypeCorrect` | `TypeOK` |

`LexerProofs` proves, for every set of patterns, alphabet and width of `size_t`:

| theorem | property |
|---|---|
| `RangesHaveStarts` | `RangeHasAStart`: the assertion in `PUSH_CHAR` |
| `ClassesAreCanonical` | `ClassesCanonical`: one index for each set of bytes |

`ParserProofs` proves, for patterns of any tokens and any length, stacks of any
capacity, and any allocations failing:

| theorem | property |
|---|---|
| `StacksStayConsistent` | `StacksConsistent`: the assertions on the stacks in `parse` and `parser_pop_operator`; precedence rises towards the top |
| `NoBlockIsLost` | `BlocksAccounted`: each block is freed once or still held; none is left after a failed compile or a destroyed regex |

`AssemblerProofs` proves, for every set of labels, every program of any length,
and any reach of short and long jumps:

| theorem | property |
|---|---|
| `ShortJumpsFit` | `ShortFits`: the assertions on 8-bit displacements when the code is written |
| `PassesGain` | `EachPassGains`: the passes are at most two more than the jumps |
| `WritesBehindReads` | `MovesLeft`: emission in place never writes what is still to be read |
| `CodeIsLaidOut` | `EmitsLayout`: what emission in place leaves is the code as assembled, each label resolved |
| `NoneStaysLong` | `NoneLeftLong`: no jump is left long that would fit the short form |
| `BranchesArrive` | `BranchesReach`: the branches no list of uses knows are as long as when they were written |
| `Typed` | `TypeOK` |

`CodeMappingProofs` proves, for pages and code of any size, any number of
regexes and whatever requests are refused:

| theorem | property |
|---|---|
| `NoPageIsLost` | `MemoryAccounted`: a mapped page has one owner, and only what a failed resolution leaves behind has none |
| `CodeIsKept` | `CodeKept`: every byte is where its owner looks for it, through growing, moving, trimming and protecting |

Assumed are `LexerAssumption`, `ParserAssumption`, `BytecodeAssumption`, `RegexAssumption` (programs
are well formed) and `BeginsAssumption` (they are one group around everything),
which the run `compiler` checks of the compiler by `EmitsWellFormed`,
`MemoryAssumption`, their counterparts `NativeRegexAssumption` and
`NativeMemoryAssumption`, `DisplacementAssumption`, `SegmentsAssumption` and
`PagesAssumption`, which has instructions no longer than a page: pages are 4096
bytes, and reservations at most a few dozen.

The argument of `VmProofs`.  None of its properties is inductive alone.  `Inv` is the conjunction of
the types, `Memory` (sizes: every block lies behind the flags and below the bump
pointer, all of one size), `Pool` (the lists) and `CodeSafe`.  `Pool` states
ownership locally: no two links lead to one block, no link leads to what a root
names, roots differ, and links join blocks of one region only, free to free.
That form is needed because a statement about whole lists would need induction
along them; the local one is preserved by each relinking for reasons of one or
two links.  The links that mean nothing are left out: that of the matched
thread, stale since `on_match`, and of `prev_thread` while `on_match` frees what
follows.  There is one lemma per action; `AllocHandle` and `NewBlock` say that
what `vm_alloc` returns is new or was free and owned by nothing else.

The argument of `VmProofs` for the refinement.  `ListInv` adds to `Inv` that three sequences of
blocks exist, those that wait, those still to run or to be freed, and the free
ones: each is a path of `NEXT` between its roots, each is one region, and
together with the match they are the pool.  One lemma per action says what
becomes of the three sequences, which is one of: nothing, the head of one goes to
the front or end of another, or a new block is put in.  Disjointness, and that a
path meets no block twice, need no proof of their own there: regions give the
first, and `Links` the second.  That `Segment` returns just these
sequences is `SegmentIs` of `ChainProofs`, which holds because a path that ends
at `NULL` is the only one from its beginning.  Induction along a list is not
available to the provers used, so `ChainProofs` replaces it by an argument from
the least counterexample (`Least`); for that `Segment` is a recursive function
over a number of steps, not a recursive operator.  With the sequences known,
`Refinement` has one lemma per action, that the step on lists maps to the step
on sequences, or, where a list is only cut up or a buffer only moved, to none.

The argument of `NativeProofs` has the same two parts.  What is new is the time
between the allocator and the code that called it, when a block is in a register
and on neither list: `Granted` are those blocks, and `Place` names who asked, so
that what holds at a place need not be said again for each failure and move
underneath it.  `GrantedIsLoose` says that nothing leads to such a block, be it
a recycled one or one the bump pointer has just passed.  Half way through a
split a state is at its old instruction and its twin is not linked yet, so
ownership, types and sizes are stated of `Linking` and of `Blocks` and `Granted`
together.  `ListInv` adds the three lists; the one that is being freed starts at
a register, not at the running state, which is why it is called `Rest`.

Its `Refinement` needs three facts more (`MapInv`).  `PushedOnce` is what the
slot `M_INITIAL_STATE_PUSHED` means at each place: the position has started its
state, or there is a match; so the loop ends where the algorithm's position
does, although the slot begins uninitialised.  `ResultOnce` says that nothing
is written to the result before the call is decided, which is why a call that
runs out of memory reports no match.  `LowFlags` says that the upper half of the
register stays clear, given `FlagsFit`, so that the 32-bit `bts` clears nothing.
Asking for a block, getting it, moving the buffer and failing are no steps of
the algorithm; the step is taken when the block is filled.

`FewStates` comes from `FewThreads` by that refinement.  Only `PushInitialState`
and `PushStateCopy` put a block to use (`UseFalls`), and there the states are
the algorithm's threads and the match; at those two places `ThreadsBounded` has
room for one thread more (`RoomForOne`).  Everywhere else, and while a match
frees what is behind it, the blocks in use only get fewer.

The argument of `PikeProofs`.  `LeftmostFirst` alone is not inductive: a thread
that has not written its beginning counts as last, and would leave its place by
writing it.  `Begun` says that every thread has written it, but for one that was
just spawned, which is then alone at this position and has only smaller starts
before it; and that none stands at address 0, where it would write it again.
`Sorted` speaks of waiting and running threads apart, which is what splicing and
appending keep, and `Better` of the match.  `ThreadsInOrder` joins the three.

The argument of `ThreadsAreDistinct` in the same module.  That programs have
flags at all joins is `WaysFlagged`, a hypothesis: where two ways lead to one
instruction it is a flag (`JoinsFlagged`), and no instruction begins among the
operands of another (`OperandsApart`), so that what follows two instructions
differs.  The run `compiler` checks both of the compiler, in `EmitsFlaggedJoins`,
and the runs of `MCMatch`, `MCVm` and `MCNative` of their programs, by
`WaysAssumption`.  A thread cannot tell where others have been, so `OnceInv` says
that there is a set of instructions passed at this position (`Passed`).  An
instruction outside the set has been passed by nobody; one that is no flag has
one way in, so who stands at it came by an instruction in the set, or by one
that consumed a character before (`CameBy`), and nobody comes there again; a flag
in the set is set, and whoever comes there dies.  Which number the flag has does
not matter, so the theorem also holds of programs whose flags are shared, which
find the wrong match (`match_shared_flags`).  Waiting threads are told apart by
the instruction they consumed at (`Waiting`).  `Counted` draws the bound from the
same set: each thread more is an instruction in it that splits.

Of `LexerProofs` the first theorem is inductive as it stands; the second needs
only that tokens and classes are sequences, of whatever elements.

The argument of `ParserProofs`.  `StacksConsistent` and `BlocksAccounted` are
nearly inductive together: added are only that the sequences are sequences, what
capacities and counts are, and that an opening parenthesis is pushed on the
concatenation before it.  The work is in two sums.  `TotalOf` is the recursive
sum over the stack that `StackBlocks` is; that such a sum exists, and that of a
stack with one tree more or less differs by the tree, is shown from the least
number at which it would fail.  `Pending` counts the binary operators.
`PushTreeDoes` and `PopOperatorDoes` then say of all outcomes of a push or of a
pop at once that what is owed to the allocator (`OwedByTrees`) does not change,
also where the code destroys the node, or an operand, because a buffer could not
grow.  Where it destroys two operands and then uses them, nothing is claimed.

The argument of `AssemblerProofs`.  A jump is made short by an estimate: the
labels before it have their values of this pass, those behind it still those of
the last, moved by what this pass has gained so far.  What makes the estimate
safe for ever is that the gap between any two uses only closes: `Shrinking` says
that between two uses a pass gains no less than the pass before, which needs the
auxiliary `now` and `was`, the gains up to each use in either pass.  `Fitting`
then carries "fits, as far as the last pass knows" from pass to pass, and
`Settled` says that when nothing changes any more estimates and labels are
exact.  The same monotony gives `PassesGain`: total gain never falls, and a pass
that is followed by another has raised it.

The other three theorems of `AssemblerProofs` are about the second loop, which
moves code over itself.  `Laid` splits the code at the use that is to be emitted:
what lies before it is emitted (`Emitted`), what lies behind is as assembled
(`Untouched`), and nothing between is needed any more.  `AddressIs` shows that
the address at which anything ends up is its offset less the shrinkage at the
last use before it, which the passes computed; so the emitted code meets the
labels.  `NoneStaysLong` is about the last pass alone: it changed nothing, so
each long jump was tried with the labels that are used.  A local branch spans
only code that cannot shrink, which makes both its ends move by the same amount
(`SameGain`, `ClearFits`); while it is open it is short enough to be patched.

The argument of `CodeMappingProofs`.  `IInv` says which pages an assembler and a
regex own, by number: the quotient of their size, which is where the rounding of
`PAGE_SIZE` enters, and why the lemmas about dividing come first.  Owners are
disjoint, so a step of one leaves the bytes of the others; the bytes of an owner
are those of its code, one for each address.  Trimming gives back the pages
behind the last byte and none before it.

Only model-checked: liveness; everything about the compiler and the reference
semantics, which are recursive operators (`MatchIsReference`, the properties of
`CompilerMemory`); what tokens and trees are (`LexIsReference`, `ParsesGrammar`),
by recursion over their text; `Decodes`, a computation on single bytes.

## 5. Not modelled

Debug output and tools, which print.  The engine tests, which were read for what
they expect of the library.  The stubs `crex_dump_regex` and `crex_load_regex`;
the `_str` functions, which measure their argument and call the others.  Reading
and writing operands and native words by `memcpy` in the machine's own order:
operands are values in the model, of the widths the code gives them.  Of the
encoding, byte registers are those the compiler uses, RAX and RCX, which need no
prefix.  The composition of `Lexer` with `Parser`: each token of the one is an
input of the other, which takes any, so nothing passes between them that
`Parser` does not already admit.

What could be added: a proof of who owns the buffers in `CompilerMemory`.  That
inline bytes are told from a block by the capacity would be a hypothesis of it:
a capacity that wraps, as `lower_bound * child.size` may make it, says otherwise.
