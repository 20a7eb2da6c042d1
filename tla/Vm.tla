--------------------------------- MODULE Vm ---------------------------------
(***************************************************************************)
(* The bytecode engine as it manages memory: vm.c, execute_regex of        *)
(* executor.c, and the context of crex.c whose buffer it borrows.          *)
(*                                                                         *)
(* All of a call's memory is one buffer that the context keeps between     *)
(* calls: first the flags, then thread blocks, cut from the buffer by a    *)
(* bump pointer and recycled through a free list.  A block is known by its *)
(* handle, its offset in the buffer, so that it survives the buffer being  *)
(* moved.  Sizes and offsets are counted in words of BLOCK_SIZE bytes.     *)
(*                                                                         *)
(* A step of the model is an iteration of one of the loops of run_threads, *)
(* step_thread, on_match or execute_regex.  An allocation may fail at any  *)
(* time.  Buffers the allocator has given out are recorded in heap.        *)
(***************************************************************************)
EXTENDS Bytecode, Chains

CONSTANTS
  Regexes, Texts,     \* what the client holds, as in PikeVm
  Buffers,            \* addresses the allocator gives out
  NoBuffer,           \* NULL
  FlagsPerWord,       \* 64: bits in a word
  MaxWords            \* a bound: larger allocations always fail

ASSUME RegexAssumption ==
  /\ Regexes # {} /\ Texts # {}
  /\ \A r \in Regexes :
       /\ r.groups \in Nat \ {0}
       /\ r.flags \in Nat
       /\ r.classes \in Seq(SUBSET Chars)
       /\ WellFormed(r)
  /\ Texts \subseteq Seq(Chars)

ASSUME MemoryAssumption ==
  /\ NoBuffer \notin Buffers
  /\ FlagsPerWord \in Nat \ {0}
  /\ MaxWords \in Nat

VARIABLES
  heap,                          \* the size of each buffer given out, or 0
  ctxBuffer, ctxCapacity,        \* context_t
  regex, text, n_pointers,       \* the arguments of the call
  result,                        \* what the last call returned
  pc,                            \* where the call is
  pos,                           \* str - the beginning of the string
  buffer, capacity, bump, freelist, head, matched,      \* vm_t
  flags,                         \* the flags set in the buffer
  next, instr, ptrs,             \* NEXT, INSTR_POINTER, POINTER_BUFFER
  region,                        \* auxiliary: what each block is used for
  thread, prev, ip, spawned,     \* locals of run_threads
  tail                           \* tail_thread of on_match

heapVars == <<heap, ctxBuffer, ctxCapacity>>
args     == <<regex, text, n_pointers>>
poolVars == <<buffer, capacity, bump>>
memVars  == <<next, instr, ptrs, region>>
vmVars   == <<poolVars, freelist, head, matched, flags, memVars>>
runVars  == <<thread, prev, ip, spawned, tail>>
vars     == <<heapVars, args, result, pc, pos, vmVars, runVars>>

Null == -1                       \* NULL_HANDLE, and a NULL capture pointer
Code == regex.code

Blocks     == DOMAIN next
FlagWords  == (regex.flags + FlagsPerWord - 1) \div FlagsPerWord
ThreadSize == 2 + n_pointers     \* THREAD_SIZE, with no extra data

NPointers(r)      == {0, 2, 2 * r.groups}
Pointers(n, last) == [0 .. n - 1 -> {Null} \cup 0 .. last]
NullPointers(n)   == [p \in 0 .. n - 1 |-> Null]
Result(st, found, pp) == [status |-> st, found |-> found, ptrs |-> pp]

\* f with f[h] = v, whether or not h is in its domain.
Put(f, h, v) == [x \in DOMAIN f \cup {h} |-> IF x = h THEN v ELSE f[x]]

-----------------------------------------------------------------------------
Idle == {"none", "idle"}
InLoop == {"thread", "step"}     \* thread is the one run_threads works on

NoBlocks == [h \in {} |-> Null]

\* No call is running: vm_t and the locals do not exist.
NoVm ==
  /\ buffer = NoBuffer /\ capacity = 0 /\ bump = 0
  /\ freelist = Null /\ head = Null /\ matched = Null
  /\ flags = {} /\ next = NoBlocks /\ instr = NoBlocks /\ ptrs = NoBlocks
  /\ region = NoBlocks
  /\ thread = Null /\ prev = Null /\ ip = 0 /\ spawned = FALSE /\ tail = Null
  /\ pos = 0

VmGone ==
  /\ buffer' = NoBuffer /\ capacity' = 0 /\ bump' = 0
  /\ freelist' = Null /\ head' = Null /\ matched' = Null
  /\ flags' = {} /\ next' = NoBlocks /\ instr' = NoBlocks /\ ptrs' = NoBlocks
  /\ region' = NoBlocks
  /\ thread' = Null /\ prev' = Null /\ ip' = 0 /\ spawned' = FALSE /\ tail' = Null
  /\ pos' = 0

Init ==
  /\ heap = [b \in Buffers |-> 0]
  /\ ctxBuffer = NoBuffer /\ ctxCapacity = 0
  /\ regex \in Regexes /\ text \in Texts /\ n_pointers = 0
  /\ result = Result("NONE", FALSE, NullPointers(0))
  /\ pc = "none"
  /\ NoVm

-----------------------------------------------------------------------------
(* The context                                                             *)

\* crex_create_context: a context starts without a buffer.
CreateContext ==
  /\ pc = "none"
  /\ pc' = "idle"
  /\ ctxBuffer' = NoBuffer /\ ctxCapacity' = 0
  /\ UNCHANGED <<heap, args, result, pos, vmVars, runVars>>

\* crex_destroy_context
DestroyContext ==
  /\ pc = "idle"
  /\ pc' = "none"
  /\ heap' = [b \in Buffers |-> IF b = ctxBuffer THEN 0 ELSE heap[b]]
  /\ ctxBuffer' = NoBuffer /\ ctxCapacity' = 0
  /\ UNCHANGED <<args, result, pos, vmVars, runVars>>

-----------------------------------------------------------------------------
(* vm_alloc and vm_free                                                    *)

\* Mutant of Fits: room is left if any is.
FitsLoosely(size) == bump <= capacity

Fits(size) == bump + size <= capacity

\* The handle vm_alloc returns: room above the bump pointer comes first,
\* then the free list, then a larger buffer.
NewHandle(size) == IF Fits(size) \/ freelist = Null THEN bump ELSE freelist

FromBump(size) ==
  /\ Fits(size)
  /\ bump' = bump + size
  /\ UNCHANGED <<heapVars, buffer, capacity, freelist>>

\* Mutant of FromFreelist: the block stays on the free list.
FromFreelistStays(size) ==
  /\ ~Fits(size) /\ freelist # Null
  /\ UNCHANGED <<heapVars, buffer, capacity, bump, freelist>>

FromFreelist(size) ==
  /\ ~Fits(size) /\ freelist # Null
  /\ freelist' = next[freelist]
  /\ UNCHANGED <<heapVars, buffer, capacity, bump>>

\* Mutant of FromNewBuffer: the context keeps its old buffer.
FromNewBufferUntold(size) ==
  /\ ~Fits(size) /\ freelist = Null
  /\ 2 * capacity + size <= MaxWords
  /\ \E b \in Buffers :
       /\ heap[b] = 0
       /\ heap' = [c \in Buffers |-> IF c = b THEN 2 * capacity + size
                                     ELSE IF c = buffer THEN 0 ELSE heap[c]]
       /\ buffer' = b
  /\ capacity' = 2 * capacity + size
  /\ bump' = bump + size
  /\ UNCHANGED <<freelist, ctxBuffer, ctxCapacity>>

\* The words below the bump pointer are copied, so every block keeps its
\* handle and contents; the context is told of the new buffer at once.
FromNewBuffer(size) ==
  /\ ~Fits(size) /\ freelist = Null
  /\ 2 * capacity + size <= MaxWords
  /\ \E b \in Buffers :
       /\ heap[b] = 0
       /\ heap' = [c \in Buffers |-> IF c = b THEN 2 * capacity + size
                                     ELSE IF c = buffer THEN 0 ELSE heap[c]]
       /\ buffer' = b /\ ctxBuffer' = b
  /\ capacity' = 2 * capacity + size
  /\ ctxCapacity' = capacity'
  /\ bump' = bump + size
  /\ UNCHANGED freelist

VmAlloc(size) == FromBump(size) \/ FromFreelist(size) \/ FromNewBuffer(size)

\* Only a request that needs the allocator can fail; it changes nothing.
NeedsBuffer(size) == ~Fits(size) /\ freelist = Null

-----------------------------------------------------------------------------
(* A call                                                                  *)

\* crex_is_match, crex_find or crex_match_groups up to the middle of
\* create_vm.  The buffer holds whatever the last call left in it.
Call ==
  /\ pc = "idle"
  /\ \E r \in Regexes, t \in Texts : \E n \in NPointers(r) :
       /\ regex' = r /\ text' = t /\ n_pointers' = n
       /\ result' = Result("NONE", FALSE, NullPointers(n))
  /\ buffer' = ctxBuffer /\ capacity' = ctxCapacity
  /\ bump' = 0 /\ freelist' = Null
  /\ pc' = "flags"
  /\ UNCHANGED <<heapVars, pos, head, matched, flags, memVars, runVars>>

\* The rest of create_vm: the flags come first in the buffer.  They are not
\* initialised here.
AllocFlags ==
  /\ pc = "flags"
  /\ VmAlloc(FlagWords)
  /\ flags' \in SUBSET (0 .. regex.flags - 1)
  /\ pc' = "position"
  /\ UNCHANGED <<args, result, pos, head, matched, memVars, runVars>>

\* The beginning of run_threads: all threads are to run.
EnterPosition ==
  /\ pc = "position"
  /\ flags' = {}
  /\ IF head = Null /\ matched # Null
     THEN pc' = "finish" /\ UNCHANGED <<thread, prev, spawned, region>>
     ELSE /\ pc' = "thread"
          /\ thread' = head /\ prev' = Null /\ spawned' = FALSE
          /\ region' = [h \in Blocks |-> IF region[h] = "kept" THEN "todo" ELSE region[h]]
  /\ UNCHANGED <<heapVars, args, result, pos, poolVars, freelist, head, matched,
                 next, instr, ptrs, ip, tail>>

\* Mutant of MaySpawn: a match does not stop new threads.
MaySpawnAfterMatch == thread = Null /\ ~spawned

MaySpawn == thread = Null /\ ~spawned /\ matched = Null

\* spawn_thread, at the end of the list.
Spawn ==
  /\ pc = "thread" /\ MaySpawn
  /\ VmAlloc(ThreadSize)
  /\ LET h == NewHandle(ThreadSize) IN
       /\ next'   = [x \in Blocks \cup {h} |->
                       IF x = h THEN Null ELSE IF x = prev THEN h ELSE next[x]]
       /\ instr'  = Put(instr, h, 0)
       /\ ptrs'   = Put(ptrs, h, NullPointers(n_pointers))
       /\ region' = Put(region, h, "todo")
       /\ head'   = IF prev = Null THEN h ELSE head
       /\ thread' = h
  /\ ip' = 0
  /\ spawned' = TRUE
  /\ pc' = "step"
  /\ UNCHANGED <<args, result, pos, matched, flags, prev, tail>>

\* The loop takes up the next thread of the list.
Resume ==
  /\ pc = "thread" /\ thread # Null
  /\ ip' = instr[thread]
  /\ pc' = "step"
  /\ UNCHANGED <<heapVars, args, result, pos, vmVars, thread, prev, spawned, tail>>

\* The end of the list: VM_STATUS_CONTINUE.
EndOfThreads ==
  /\ pc = "thread" /\ thread = Null /\ ~MaySpawn
  /\ pc' = "return"
  /\ prev' = Null
  /\ UNCHANGED <<heapVars, args, result, pos, vmVars, thread, ip, spawned, tail>>

-----------------------------------------------------------------------------
(* One iteration of the step loop                                          *)

AtEnd == ip = Len(Code)
Instr == Code[ip + 1]
Stepping == pc = "step" /\ ~AtEnd

Dies ==
  \/ Instr.op \in ConsumeOps /\ ~Accepts(regex, ip, CharAt(text, pos))
  \/ Instr.op \in AnchorOps
       /\ ~AnchorHolds(Instr.op, CharBefore(text, pos), CharAt(text, pos))
  \/ Instr.op = "TEST_AND_SET_FLAG" /\ Instr.operand \in flags

stepFrame == <<heapVars, args, result, pos, poolVars, matched, spawned, tail>>

\* TS_REJECTED: destroy_thread unlinks and frees the thread.
Reject ==
  /\ Stepping /\ Dies
  /\ next' = [x \in Blocks |-> IF x = thread THEN freelist
                               ELSE IF x = prev THEN next[thread] ELSE next[x]]
  /\ head' = IF prev = Null THEN next[thread] ELSE head
  /\ freelist' = thread
  /\ region' = [region EXCEPT ![thread] = "free"]
  /\ thread' = next[thread]
  /\ pc' = "thread"
  /\ UNCHANGED <<stepFrame, flags, instr, ptrs, prev, ip>>

\* Mutant of Consume: prev_thread does not move on.
ConsumeKeepsPrev ==
  /\ Stepping /\ Instr.op \in ConsumeOps /\ ~Dies
  /\ instr' = [instr EXCEPT ![thread] = After(Code, ip)]
  /\ region' = [region EXCEPT ![thread] = "kept"]
  /\ thread' = next[thread]
  /\ pc' = "thread"
  /\ UNCHANGED <<stepFrame, freelist, head, flags, next, ptrs, prev, ip>>

\* TS_DONE: the thread waits for the next character.
Consume ==
  /\ Stepping /\ Instr.op \in ConsumeOps /\ ~Dies
  /\ instr' = [instr EXCEPT ![thread] = After(Code, ip)]
  /\ region' = [region EXCEPT ![thread] = "kept"]
  /\ prev' = thread
  /\ thread' = next[thread]
  /\ pc' = "thread"
  /\ UNCHANGED <<stepFrame, freelist, head, flags, next, ptrs, ip>>

\* Mutant of Advance: deltas are counted from before the operand.
AdvanceFromOperand ==
  /\ Stepping /\ Instr.op \in AnchorOps \cup {"JUMP"} /\ ~Dies
  /\ ip' = Continuation(Code, ip) - Instr.osize
  /\ UNCHANGED <<stepFrame, pc, freelist, head, flags, memVars, thread, prev>>

Advance ==
  /\ Stepping /\ Instr.op \in AnchorOps \cup {"JUMP"} /\ ~Dies
  /\ ip' = Continuation(Code, ip)
  /\ UNCHANGED <<stepFrame, pc, freelist, head, flags, memVars, thread, prev>>

TestAndSetFlag ==
  /\ Stepping /\ Instr.op = "TEST_AND_SET_FLAG" /\ ~Dies
  /\ flags' = flags \cup {Instr.operand}
  /\ ip' = After(Code, ip)
  /\ UNCHANGED <<stepFrame, pc, freelist, head, memVars, thread, prev>>

WritePointer ==
  /\ Stepping /\ Instr.op = "WRITE_POINTER"
  /\ ptrs' = IF Instr.operand < n_pointers
             THEN [ptrs EXCEPT ![thread] = [@ EXCEPT ![Instr.operand] = pos]]
             ELSE ptrs
  /\ ip' = After(Code, ip)
  /\ UNCHANGED <<stepFrame, pc, freelist, head, flags, next, instr, region, thread, prev>>

\* split_thread puts the new thread directly behind the running one.
Split ==
  /\ Stepping /\ Instr.op \in SplitOps
  /\ VmAlloc(ThreadSize)
  /\ LET h == NewHandle(ThreadSize) IN
       /\ next'   = [x \in Blocks \cup {h} |->
                       IF x = h THEN next[thread] ELSE IF x = thread THEN h ELSE next[x]]
       /\ instr'  = Put(instr, h, SplitPointer(Code, ip))
       /\ ptrs'   = Put(ptrs, h, ptrs[thread])
       /\ region' = Put(region, h, "todo")
  /\ ip' = Continuation(Code, ip)
  /\ UNCHANGED <<args, result, pc, pos, head, matched, flags, thread, prev, spawned, tail>>

-----------------------------------------------------------------------------
(* on_match                                                                *)

\* A search for a yes or no is over; the thread stays where it is.
MatchBoolean ==
  /\ pc = "step" /\ AtEnd /\ n_pointers = 0
  /\ matched' = thread
  /\ pc' = "finish"
  /\ UNCHANGED <<heapVars, args, result, pos, poolVars, freelist, head, flags,
                 memVars, runVars>>

\* The thread becomes the match, in place of an earlier one.
Match ==
  /\ pc = "step" /\ AtEnd /\ n_pointers # 0
  /\ next' = [x \in Blocks |-> IF x = matched THEN freelist ELSE next[x]]
  /\ freelist' = IF matched = Null THEN freelist ELSE matched
  /\ region' = [x \in Blocks |-> IF x = thread THEN "matched"
                                 ELSE IF x = matched THEN "free" ELSE region[x]]
  /\ matched' = thread
  /\ tail' = next[thread]
  /\ pc' = "free"
  /\ UNCHANGED <<heapVars, args, result, pos, poolVars, head, flags, instr, ptrs,
                 thread, prev, ip, spawned>>

\* Mutant of FreeTail: only the thread directly behind the match is freed.
FreeTailOnce ==
  /\ pc = "free" /\ tail # Null
  /\ next' = [next EXCEPT ![tail] = freelist]
  /\ freelist' = tail
  /\ region' = [region EXCEPT ![tail] = "free"]
  /\ tail' = Null
  /\ UNCHANGED <<heapVars, args, result, pc, pos, poolVars, head, matched, flags,
                 instr, ptrs, thread, prev, ip, spawned>>

\* The threads behind it are freed one by one, without being unlinked.
FreeTail ==
  /\ pc = "free" /\ tail # Null
  /\ next' = [next EXCEPT ![tail] = freelist]
  /\ freelist' = tail
  /\ region' = [region EXCEPT ![tail] = "free"]
  /\ tail' = next[tail]
  /\ UNCHANGED <<heapVars, args, result, pc, pos, poolVars, head, matched, flags,
                 instr, ptrs, thread, prev, ip, spawned>>

\* Mutant of CutList: the match is left on the list.
CutListNowhere ==
  /\ pc = "free" /\ tail = Null
  /\ thread' = Null /\ prev' = Null
  /\ pc' = "return"
  /\ UNCHANGED <<heapVars, args, result, pos, poolVars, freelist, head, matched, flags,
                 next, instr, ptrs, region, ip, spawned, tail>>

\* Then the list is cut before the match.
CutList ==
  /\ pc = "free" /\ tail = Null
  /\ next' = [x \in Blocks |-> IF x = prev THEN Null ELSE next[x]]
  /\ head' = IF prev = Null THEN Null ELSE head
  /\ thread' = Null /\ prev' = Null
  /\ pc' = "return"
  /\ UNCHANGED <<heapVars, args, result, pos, poolVars, freelist, matched, flags,
                 instr, ptrs, region, ip, spawned, tail>>

-----------------------------------------------------------------------------
(* The rest of execute_regex                                               *)

\* Mutant of NextCharacter: the end of the string does not end the search.
NextCharacterForever ==
  /\ pc = "return"
  /\ pc' = "position"
  /\ pos' = IF CharAt(text, pos) = EOF THEN pos ELSE pos + 1
  /\ UNCHANGED <<heapVars, args, result, vmVars, runVars>>

NextCharacter ==
  /\ pc = "return"
  /\ IF CharAt(text, pos) = EOF
     THEN pc' = "finish" /\ UNCHANGED pos
     ELSE pc' = "position" /\ pos' = pos + 1
  /\ UNCHANGED <<heapVars, args, result, vmVars, runVars>>

Return ==
  /\ pc = "finish"
  /\ result' = Result("OK", matched # Null,
                      IF matched = Null THEN NullPointers(n_pointers) ELSE ptrs[matched])
  /\ pc' = "idle"
  /\ VmGone
  /\ UNCHANGED <<heapVars, args>>

\* An allocation fails and the call returns CREX_E_NOMEM.
NoMemory ==
  /\ \/ pc = "flags" /\ NeedsBuffer(FlagWords)
     \/ pc = "thread" /\ MaySpawn /\ NeedsBuffer(ThreadSize)
     \/ Stepping /\ Instr.op \in SplitOps /\ NeedsBuffer(ThreadSize)
  /\ result' = Result("E_NOMEM", FALSE, NullPointers(n_pointers))
  /\ pc' = "idle"
  /\ VmGone
  /\ UNCHANGED <<heapVars, args>>

Client == CreateContext \/ DestroyContext \/ Call
Run ==
  \/ AllocFlags \/ EnterPosition \/ Spawn \/ Resume \/ EndOfThreads
  \/ Reject \/ Consume \/ Advance \/ TestAndSetFlag \/ WritePointer \/ Split
  \/ MatchBoolean \/ Match \/ FreeTail \/ CutList
  \/ NextCharacter \/ Return \/ NoMemory

Next == Client \/ Run

Spec     == Init /\ [][Next]_vars
FairSpec == Spec /\ WF_vars(Run)   \* a call runs to its end in one thread

-----------------------------------------------------------------------------
(* Properties                                                              *)

Handles == Blocks \cup {Null}
Regions == {"todo", "kept", "matched", "free"}
Places  == Idle \cup InLoop \cup {"flags", "position", "free", "return", "finish"}

\* The types of all variables.  A link never leads out of the pool.
TypeOK ==
  /\ heap \in [Buffers -> Nat]
  /\ ctxBuffer \in Buffers \cup {NoBuffer} /\ ctxCapacity \in Nat
  /\ regex \in Regexes /\ text \in Texts /\ n_pointers \in NPointers(regex)
  /\ pc \in Places /\ pos \in 0 .. Len(text)
  /\ buffer \in Buffers \cup {NoBuffer} /\ capacity \in Nat /\ bump \in Nat
  /\ Blocks \subseteq Nat
  /\ next \in [Blocks -> Handles] /\ region \in [Blocks -> Regions]
  /\ instr \in [Blocks -> Nat] /\ ip \in Nat
  /\ ptrs \in [Blocks -> Pointers(n_pointers, Len(text))]
  /\ {freelist, head, matched, thread, prev, tail} \subseteq Handles
  /\ flags \subseteq 0 .. regex.flags - 1
  /\ spawned \in BOOLEAN
  /\ result \in [status : {"NONE", "OK", "E_NOMEM"}, found : BOOLEAN,
                 ptrs : Pointers(n_pointers, Len(text))]

\* The context owns the one buffer that is allocated, and knows its size,
\* whichever way the calls before ended, and none is left when it is
\* destroyed; a running call works in that buffer and not in one that
\* vm_alloc has freed.
BufferOwned ==
  /\ \A b \in Buffers : heap[b] = IF b = ctxBuffer THEN ctxCapacity ELSE 0
  /\ ctxBuffer = NoBuffer => ctxCapacity = 0
  /\ pc = "none" => ctxBuffer = NoBuffer
  /\ pc \notin Idle => buffer = ctxBuffer /\ capacity = ctxCapacity

\* Every block lies in the buffer, behind the flags, and blocks do not
\* overlap: what one thread stores never reaches the flags, another thread,
\* or memory past the end.
BlocksDisjoint ==
  /\ bump <= capacity
  /\ pc \notin Idle \cup {"flags"} => FlagWords <= bump
  /\ \A h \in Blocks : FlagWords <= h /\ h + ThreadSize <= bump
  /\ \A h, k \in Blocks : h < k => h + ThreadSize <= k

\* The NEXT fields that mean something: the link of a matched thread does
\* not, and on_match has yet to cut the one that leads to it.
Linking == IF pc = "free" THEN Blocks \ {matched, prev}
           ELSE IF n_pointers = 0 THEN Blocks ELSE Blocks \ {matched}

\* The pointers that own the block they name, by name.
Roots ==
  (IF pc = "free" /\ prev = Null THEN {} ELSE {<<"head", head>>})
    \cup {<<"freelist", freelist>>, <<"tail", tail>>}
    \cup (IF n_pointers = 0 THEN {} ELSE {<<"matched", matched>>})

\* No block has two owners: it is on the thread list, on the free list, among
\* the threads on_match is freeing, or the match, and there only once.
\* destroy_thread, on_match and split_thread all move blocks between them.
OneOwner ==
  /\ \A b, c \in Linking : next[b] = next[c] /\ next[b] # Null => b = c
  /\ \A r \in Roots : r[2] # Null => \A b \in Linking : next[b] # r[2]
  /\ \A r, s \in Roots : r[2] = s[2] /\ r[2] # Null => r = s

\* What the free list leads to is free, and no free block can be come by from
\* the thread list; a block is never recycled while a thread lives in it.
FreeIsFree ==
  /\ freelist # Null => region[freelist] = "free"
  /\ \A b \in Linking : next[b] # Null =>
       (region[b] = "free" <=> region[next[b]] = "free")
  /\ head # Null => region[head] # "free"
  /\ matched # Null => region[matched] # "free"
  /\ pc \in InLoop /\ thread # Null => region[thread] = "todo"

\* run_threads asserts that prev_thread is what leads to thread; it would not
\* if a step put or took away a thread anywhere else.
ListIntact ==
  pc \in InLoop =>
    IF prev = Null THEN head = thread ELSE next[prev] = thread

InCode ==
  /\ ip \in Labels(Code)
  /\ \A h \in Blocks : instr[h] \in Labels(Code)

\* Every thread stands at the first byte of an instruction, or at the end of
\* the code, so that each instruction read has its operand (the assertions
\* of run_threads and step_thread), and every handle names a block.
CodeSafe == TypeOK /\ InCode

-----------------------------------------------------------------------------
(* The lists, and the algorithm this implements                            *)

\* The thread list up to prev holds the threads that wait for the next
\* character, from thread on those still to run; while on_match works the
\* latter are what tail leads to.
Kept == Segment(next, head, thread)
Todo == Segment(next, IF pc = "free" THEN tail ELSE thread, Null)
Free == Segment(next, freelist, Null)

\* While a call runs every block is on one of the lists or the match, and the
\* pool is no larger than its blocks: nothing leaks within a call.
NoBlockLost ==
  pc \notin Idle \cup {"flags"} =>
    /\ Blocks = Members(Kept) \cup Members(Todo) \cup Members(Free)
                  \cup ({matched} \ {Null})
    /\ bump = FlagWords + ThreadSize * Cardinality(Blocks)

ThreadAt(h) == [ip   |-> IF pc = "step" /\ h = thread THEN ip ELSE instr[h],
                ptrs |-> ptrs[h]]
AsThreads(s) == [i \in DOMAIN s |-> ThreadAt(s[i])]
AtPosition == InLoop \cup {"free", "return"}

\* What PikeVm calls status, kept, todo, flags, spawned and matched.  A position
\* that has not begun has only threads to run.
PikeStatus == IF pc \in Idle THEN "idle"
              ELSE IF pc \in {"flags", "position"} THEN "position"
              ELSE IF pc \in AtPosition THEN "threads" ELSE "finish"
PikeKept == IF pc \in AtPosition THEN AsThreads(Kept) ELSE <<>>
PikeTodo == IF pc \in InLoop THEN AsThreads(Todo)
            ELSE IF pc = "position" THEN AsThreads(Kept) ELSE <<>>
PikeFlags   == IF pc \in AtPosition THEN flags ELSE {}
PikeSpawned == pc \in AtPosition /\ spawned
PikeMatched == IF matched = Null THEN <<>> ELSE <<ptrs[matched]>>

Pike == INSTANCE PikeVm WITH
  status <- PikeStatus, kept <- PikeKept, todo <- PikeTodo, flags <- PikeFlags,
  spawned <- PikeSpawned, matched <- PikeMatched

\* The engine computes what the algorithm without memory does: recycling,
\* growing and cutting lists never lose, duplicate or reorder a thread.
ImplementsPike == Pike!Spec

\* Every call returns: nothing that on_match or run_threads does on the side
\* goes on for ever.
CallsReturn == []<>(pc \in Idle)
=============================================================================
