------------------------------ MODULE NativeVm ------------------------------
(***************************************************************************)
(* The native engine: the code that native-compiler.c emits for a regex,   *)
(* as it runs.  The emitted code does in registers what run_threads does   *)
(* in a vm_t, with differences of its own: it tells the context of its     *)
(* buffer only in the epilogue, allocates behind a call whose failure      *)
(* leaves through the epilogue, keeps the first flags in a register, sets  *)
(* M_INITIAL_STATE_PUSHED to keep threads from being started, and goes     *)
(* through the whole string.                                               *)
(*                                                                         *)
(* Registers and stack slots are named as in the source.  A block keeps    *)
(* the address to resume at; here it is the bytecode offset k of the label *)
(* INSTR_LABEL(k) that the address belongs to.  A step of the model is a   *)
(* stretch of emitted code between two labels or calls.  Sizes and handles *)
(* are counted in words of 8 bytes.                                        *)
(***************************************************************************)
EXTENDS Bytecode, Chains

CONSTANTS
  Regexes, Texts,     \* what the client holds, as in PikeVm
  Buffers,            \* addresses the allocator gives out
  NoBuffer,           \* NULL
  RegisterFlags,      \* 64: flags that R_FLAGS holds
  MaxWords            \* a bound: larger allocations always fail

ASSUME NativeRegexAssumption ==
  /\ Regexes # {} /\ Texts # {}
  /\ \A r \in Regexes :
       /\ r.groups \in Nat \ {0}
       /\ r.flags \in Nat
       /\ r.classes \in Seq(SUBSET Chars)
       /\ WellFormed(r)
       /\ LabelsDefined(r.code)
  /\ Texts \subseteq Seq(Chars)

ASSUME NativeMemoryAssumption ==
  /\ NoBuffer \notin Buffers
  /\ RegisterFlags \in Nat \ {0} /\ RegisterFlags % 2 = 0
  /\ MaxWords \in Nat

VARIABLES
  heap,                          \* the size of each buffer given out, or 0
  ctxBuffer, ctxCapacity,        \* context_t
  regex, text, n_pointers,       \* the arguments of the call
  result,                        \* what the call wrote and returned
  pc,                            \* the label control is at
  pos,                           \* R_STR - the beginning of the string
  buffer, capacity, bump,        \* R_BUFFER, R_CAPACITY, R_BUMP_POINTER
  freelist,                      \* R_FREELIST
  head, matched,                 \* M_HEAD, M_MATCHED_STATE
  pushed,                        \* M_INITIAL_STATE_PUSHED
  regflags, memflags,            \* flags set in R_FLAGS and in the buffer
  next, instr, ptrs,             \* the fields of the blocks
  region, spawned,               \* auxiliary: use of blocks; a thread started
  state, predecessor, ip,        \* R_STATE, R_PREDECESSOR, the instruction
  scratch,                       \* R_SCRATCH, where it holds a handle
  request, caller, fresh,        \* an allocation: size, return, new buffer
  status                         \* R_SCRATCH, where it holds a status

heapVars  == <<heap, ctxBuffer, ctxCapacity>>
args      == <<regex, text, n_pointers>>
poolVars  == <<buffer, capacity, bump>>
flagVars  == <<regflags, memflags>>
memVars   == <<next, instr, ptrs, region>>
stackVars == <<head, matched, pushed, spawned>>
runVars   == <<state, predecessor, ip>>
callVars  == <<request, caller, fresh, status>>
vars == <<heapVars, args, result, pc, pos, poolVars, freelist, flagVars, memVars,
          stackVars, runVars, scratch, callVars>>

Null == -1                       \* HANDLE_NULL, and a NULL capture pointer
Code == regex.code

Blocks    == DOMAIN next
BlockSize == n_pointers + 2

\* FLAG_BUFFER_SIZE: flags past the register are kept in words of 64.
FlagWords == IF regex.flags > RegisterFlags
             THEN (regex.flags - 1) \div RegisterFlags ELSE 0

NPointers(r)      == {0, 2, 2 * r.groups}
Pointers(n, last) == [0 .. n - 1 -> {Null} \cup 0 .. last]
NullPointers(n)   == [p \in 0 .. n - 1 |-> Null]
Result(st, found, pp) == [status |-> st, found |-> found, ptrs |-> pp]

Put(f, h, v) == [x \in DOMAIN f \cup {h} |-> IF x = h THEN v ELSE f[x]]

NoBlocks == [h \in {} |-> Null]
Idle == {"none", "idle"}

NoFrame ==
  /\ buffer = NoBuffer /\ capacity = 0 /\ bump = 0 /\ freelist = Null
  /\ head = Null /\ matched = Null /\ pushed = FALSE /\ spawned = FALSE
  /\ regflags = {} /\ memflags = {}
  /\ next = NoBlocks /\ instr = NoBlocks /\ ptrs = NoBlocks /\ region = NoBlocks
  /\ state = Null /\ predecessor = Null /\ ip = 0 /\ scratch = Null
  /\ request = 0 /\ caller = "none" /\ fresh = NoBuffer /\ status = "NONE"
  /\ pos = 0

Init ==
  /\ heap = [b \in Buffers |-> 0]
  /\ ctxBuffer = NoBuffer /\ ctxCapacity = 0
  /\ regex \in Regexes /\ text \in Texts /\ n_pointers = 0
  /\ result = Result("NONE", FALSE, NullPointers(0))
  /\ pc = "none"
  /\ NoFrame

-----------------------------------------------------------------------------
(* The context                                                             *)

frameVars == <<pos, poolVars, freelist, flagVars, memVars, stackVars, runVars,
               scratch, callVars>>

CreateContext ==
  /\ pc = "none"
  /\ pc' = "idle"
  /\ UNCHANGED <<heapVars, args, result, frameVars>>

DestroyContext ==
  /\ pc = "idle"
  /\ pc' = "none"
  /\ heap' = [b \in Buffers |-> IF b = ctxBuffer THEN 0 ELSE heap[b]]
  /\ ctxBuffer' = NoBuffer /\ ctxCapacity' = 0
  /\ UNCHANGED <<args, result, frameVars>>

\* A stretch of code ends in a call to LABEL_ALLOC_MEMORY.
Allocate(size, return) ==
  pc' = "alloc" /\ request' = size /\ caller' = return

\* call_regex_native_code and the prologue.
Call ==
  /\ pc = "idle"
  /\ \E r \in Regexes, t \in Texts : \E n \in NPointers(r) :
       /\ regex' = r /\ text' = t /\ n_pointers' = n
       /\ result' = Result("NONE", FALSE, NullPointers(n))
  /\ buffer' = ctxBuffer /\ capacity' = ctxCapacity
  /\ pushed' \in BOOLEAN                \* the slot is not initialised
  /\ IF FlagWords' > 0 THEN Allocate(FlagWords', "flags")
     ELSE pc' = "string" /\ UNCHANGED <<request, caller>>
  /\ UNCHANGED <<heapVars, pos, bump, freelist, flagVars, memVars, head, matched,
                 spawned, runVars, scratch, fresh, status>>

\* The flag buffer is not initialised here either.
FlagsAllocated ==
  /\ pc = "flags"
  /\ memflags' \in SUBSET (RegisterFlags .. regex.flags - 1)
  /\ pc' = "string"
  /\ UNCHANGED <<heapVars, args, result, pos, poolVars, freelist, regflags, memVars,
                 stackVars, runVars, scratch, callVars>>

-----------------------------------------------------------------------------
(* compile_allocator                                                       *)

allocFrame == <<ctxBuffer, ctxCapacity, args, result, pos, flagVars, stackVars,
                runVars, request, caller>>

FitsLoosely == bump <= capacity     \* Mutant of Fits: room is left if any is.

Fits == bump + request <= capacity

AllocFromBump ==
  /\ pc = "alloc" /\ Fits
  /\ scratch' = bump
  /\ bump' = bump + request
  /\ pc' = caller
  /\ UNCHANGED <<allocFrame, heap, buffer, capacity, freelist, memVars, fresh, status>>

AllocFromFreelist ==
  /\ pc = "alloc" /\ ~Fits /\ freelist # Null
  /\ scratch' = freelist
  /\ freelist' = next[freelist]
  /\ pc' = caller
  /\ UNCHANGED <<allocFrame, heap, poolVars, memVars, fresh, status>>

NeedsBuffer == pc = "alloc" /\ ~Fits /\ freelist = Null
NewCapacity == 2 * (bump + request)

\* M_ALLOC is called for twice what is required.
AllocNewBuffer ==
  /\ NeedsBuffer /\ NewCapacity <= MaxWords
  /\ \E b \in Buffers :
       /\ heap[b] = 0
       /\ heap' = [heap EXCEPT ![b] = NewCapacity]
       /\ fresh' = b
  /\ pc' = "move"
  /\ UNCHANGED <<allocFrame, scratch, poolVars, freelist, memVars, status>>

\* memcpy of what lies below the bump pointer, M_FREE of the old buffer, and
\* the registers that describe the buffer.  The context still names the old.
MoveBuffer ==
  /\ pc = "move"
  /\ heap' = [b \in Buffers |-> IF b = buffer THEN 0 ELSE heap[b]]
  /\ buffer' = fresh /\ fresh' = NoBuffer
  /\ LET copied == {h \in Blocks : h + BlockSize <= bump} IN
       /\ next' = [h \in copied |-> next[h]] /\ instr' = [h \in copied |-> instr[h]]
       /\ ptrs' = [h \in copied |-> ptrs[h]] /\ region' = [h \in copied |-> region[h]]
  /\ scratch' = bump
  /\ bump' = bump + request
  /\ capacity' = NewCapacity
  /\ pc' = caller
  /\ UNCHANGED <<allocFrame, freelist, status>>

\* The return address is dropped and control goes to the epilogue.
AllocFails ==
  /\ NeedsBuffer
  /\ status' = "E_NOMEM"
  /\ pc' = "epilogue"
  /\ UNCHANGED <<allocFrame, scratch, heap, poolVars, freelist, memVars, fresh>>

-----------------------------------------------------------------------------
(* The loops over the string and over the states                           *)

\* LABEL_STRING_LOOP_HEAD up to LABEL_STATE_LOOP_HEAD.
EnterPosition ==
  /\ pc = "string"
  /\ state' = head /\ predecessor' = Null
  /\ regflags' = (IF regex.flags > 0 THEN {} ELSE regflags)
  /\ memflags' = (IF regex.flags >= RegisterFlags THEN {} ELSE memflags)
  /\ pushed' = (IF matched = Null THEN FALSE ELSE pushed)
  /\ spawned' = FALSE
  /\ region' = [h \in Blocks |-> IF region[h] = "kept" THEN "todo" ELSE region[h]]
  /\ pc' = "list"
  /\ UNCHANGED <<heapVars, args, result, pos, poolVars, freelist, next, instr, ptrs,
                 head, matched, ip, scratch, callVars>>

\* LABEL_HAVE_STATE: jump to where the state left off.
ResumeState ==
  /\ pc = "list" /\ state # Null
  /\ ip' = instr[state]
  /\ pc' = "run"
  /\ UNCHANGED <<heapVars, args, result, pos, poolVars, freelist, flagVars, memVars,
                 stackVars, state, predecessor, scratch, callVars>>

\* Mutant of WantInitialState: bt, which does not set the slot.
WantInitialStateAgain ==
  /\ pc = "list" /\ state = Null /\ ~pushed
  /\ Allocate(BlockSize, "spawn")
  /\ UNCHANGED <<heapVars, args, result, pos, poolVars, freelist, flagVars, memVars,
                 stackVars, runVars, scratch, fresh, status>>

\* The end of the list, and no state has been pushed at this position.
WantInitialState ==
  /\ pc = "list" /\ state = Null /\ ~pushed
  /\ pushed' = TRUE
  /\ Allocate(BlockSize, "spawn")
  /\ UNCHANGED <<heapVars, args, result, pos, poolVars, freelist, flagVars, memVars,
                 head, matched, spawned, runVars, scratch, fresh, status>>

\* The new state takes its place behind the predecessor.
PushInitialState ==
  /\ pc = "spawn"
  /\ LET h == scratch IN
       /\ state'  = h
       /\ head'   = IF predecessor = Null THEN h ELSE head
       /\ next'   = [x \in Blocks \cup {h} |->
                       IF x = h THEN Null ELSE IF x = predecessor THEN h ELSE next[x]]
       /\ instr'  = Put(instr, h, 0)
       /\ ptrs'   = Put(ptrs, h, NullPointers(n_pointers))
       /\ region' = Put(region, h, "todo")
  /\ ip' = 0
  /\ spawned' = TRUE
  /\ pc' = "run"
  /\ UNCHANGED <<heapVars, args, result, pos, poolVars, freelist, flagVars, matched,
                 pushed, predecessor, scratch, callVars>>

\* LABEL_POST_STATE_LOOP: on to the next character, unless this was the end.
EndPosition ==
  /\ pc = "list" /\ state = Null /\ pushed
  /\ IF CharAt(text, pos) = EOF
     THEN pc' = "coda" /\ UNCHANGED pos
     ELSE pc' = "string" /\ pos' = pos + 1
  /\ UNCHANGED <<heapVars, args, result, poolVars, freelist, flagVars, memVars,
                 stackVars, runVars, scratch, callVars>>

-----------------------------------------------------------------------------
(* The code of a bytecode instruction                                      *)

AtEnd == ip = Len(Code)
Instr == Code[ip + 1]
Running == pc = "run" /\ ~AtEnd

FlagSet == Instr.op = "TEST_AND_SET_FLAG" /\ Instr.operand \in regflags \cup memflags
Dies ==
  \/ Instr.op \in ConsumeOps /\ ~Accepts(regex, ip, CharAt(text, pos))
  \/ Instr.op \in AnchorOps
       /\ ~AnchorHolds(Instr.op, CharBefore(text, pos), CharAt(text, pos))
  \/ FlagSet

\* Mutant of TestAndSet: bt, which does not set.
TestOnly(f) == UNCHANGED flagVars

\* bts on the flags.  For the lower half of the register the 32-bit form is
\* used, which like every 32-bit operation clears the upper half.
TestAndSet(f) ==
  /\ regflags' = CASE f < RegisterFlags \div 2 ->
                        {g \in regflags : g < RegisterFlags \div 2} \cup {f}
                   [] f \in RegisterFlags \div 2 .. RegisterFlags - 1 -> regflags \cup {f}
                   [] OTHER -> regflags
  /\ memflags' = IF f < RegisterFlags THEN memflags ELSE memflags \cup {f}

stepFrame == <<heapVars, args, result, pos, poolVars, callVars>>

\* LABEL_DESTROY_STATE and LABEL_REMOVE_STATE: the block goes to the free
\* list, and what led to it leads to its successor.
Destroy ==
  /\ Running /\ Dies
  /\ IF FlagSet THEN TestAndSet(Instr.operand) ELSE UNCHANGED flagVars
  /\ next' = [x \in Blocks |-> IF x = state THEN freelist
                               ELSE IF x = predecessor THEN next[state] ELSE next[x]]
  /\ head' = IF predecessor = Null THEN next[state] ELSE head
  /\ freelist' = state
  /\ region' = [region EXCEPT ![state] = "free"]
  /\ state' = next[state]
  /\ pc' = "list"
  /\ UNCHANGED <<stepFrame, instr, ptrs, matched, pushed, spawned, predecessor, ip,
                 scratch>>

\* LABEL_KEEP_STATE: the state waits for the next character.
Keep ==
  /\ Running /\ Instr.op \in ConsumeOps /\ ~Dies
  /\ instr' = [instr EXCEPT ![state] = After(Code, ip)]
  /\ region' = [region EXCEPT ![state] = "kept"]
  /\ predecessor' = state
  /\ state' = next[state]
  /\ pc' = "list"
  /\ UNCHANGED <<stepFrame, freelist, flagVars, next, ptrs, stackVars, ip, scratch>>

\* Mutant of Advance: deltas are counted from before the operand.
AdvanceFromOperand ==
  /\ Running /\ Instr.op \in AnchorOps \cup {"JUMP"} /\ ~Dies
  /\ ip' = Continuation(Code, ip) - Instr.osize
  /\ UNCHANGED <<stepFrame, pc, freelist, flagVars, memVars, stackVars, state,
                 predecessor, scratch>>

Advance ==
  /\ Running /\ Instr.op \in AnchorOps \cup {"JUMP"} /\ ~Dies
  /\ ip' = Continuation(Code, ip)
  /\ UNCHANGED <<stepFrame, pc, freelist, flagVars, memVars, stackVars, state,
                 predecessor, scratch>>

TestAndSetFlag ==
  /\ Running /\ Instr.op = "TEST_AND_SET_FLAG" /\ ~Dies
  /\ TestAndSet(Instr.operand)
  /\ ip' = After(Code, ip)
  /\ UNCHANGED <<stepFrame, pc, freelist, memVars, stackVars, state, predecessor,
                 scratch>>

WritePointer ==
  /\ Running /\ Instr.op = "WRITE_POINTER"
  /\ ptrs' = IF Instr.operand < n_pointers
             THEN [ptrs EXCEPT ![state] = [@ EXCEPT ![Instr.operand] = pos]]
             ELSE ptrs
  /\ ip' = After(Code, ip)
  /\ UNCHANGED <<stepFrame, pc, freelist, flagVars, next, instr, region, stackVars,
                 state, predecessor, scratch>>

\* A split calls LABEL_ALLOC_STATE_BLOCK ...
WantStateCopy ==
  /\ Running /\ Instr.op \in SplitOps
  /\ Allocate(BlockSize, "split")
  /\ UNCHANGED <<heapVars, args, result, pos, poolVars, freelist, flagVars, memVars,
                 stackVars, runVars, scratch, fresh, status>>

\* Mutant of PushStateCopy: the copy goes to the front of the list.
PushStateCopyFirst ==
  /\ pc = "split"
  /\ LET h == scratch IN
       /\ next'   = Put(next, h, head)
       /\ head'   = h
       /\ instr'  = Put(instr, h, SplitPointer(Code, ip))
       /\ ptrs'   = Put(ptrs, h, ptrs[state])
       /\ region' = Put(region, h, "todo")
  /\ ip' = Continuation(Code, ip)
  /\ pc' = "run"
  /\ UNCHANGED <<stepFrame, freelist, flagVars, matched, pushed, spawned, state,
                 predecessor, scratch>>

\* ... and LABEL_PUSH_STATE_COPY, which puts the passive branch behind the
\* state and lets it go on along the active one.
PushStateCopy ==
  /\ pc = "split"
  /\ LET h == scratch IN
       /\ next'   = [x \in Blocks \cup {h} |->
                       IF x = h THEN next[state] ELSE IF x = state THEN h ELSE next[x]]
       /\ instr'  = Put(instr, h, SplitPointer(Code, ip))
       /\ ptrs'   = Put(ptrs, h, ptrs[state])
       /\ region' = Put(region, h, "todo")
  /\ ip' = Continuation(Code, ip)
  /\ pc' = "run"
  /\ UNCHANGED <<stepFrame, freelist, flagVars, stackVars, state, predecessor, scratch>>

-----------------------------------------------------------------------------
(* compile_match: what follows the last instruction                        *)

\* A search for a yes or no writes its result and is over.
MatchBoolean ==
  /\ pc = "run" /\ AtEnd /\ n_pointers = 0
  /\ result' = [result EXCEPT !.found = TRUE]
  /\ status' = "OK"
  /\ pc' = "epilogue"
  /\ UNCHANGED <<heapVars, args, pos, poolVars, freelist, flagVars, memVars, stackVars,
                 runVars, scratch, request, caller, fresh>>

\* The state becomes the match; the block of an earlier match is freed.
Match ==
  /\ pc = "run" /\ AtEnd /\ n_pointers # 0
  /\ next' = [x \in Blocks |-> IF x = matched THEN freelist ELSE next[x]]
  /\ freelist' = IF matched = Null THEN freelist ELSE matched
  /\ region' = [x \in Blocks |-> IF x = state THEN "matched"
                                 ELSE IF x = matched THEN "free" ELSE region[x]]
  /\ matched' = state
  /\ scratch' = next[state]
  /\ pc' = "free"
  /\ UNCHANGED <<stepFrame, flagVars, instr, ptrs, head, pushed, spawned, runVars>>

\* Mutant of FreeSuccessor: only the first successor is freed.
FreeSuccessorOnce ==
  /\ pc = "free" /\ scratch # Null
  /\ next' = [next EXCEPT ![scratch] = freelist]
  /\ freelist' = scratch
  /\ region' = [region EXCEPT ![scratch] = "free"]
  /\ scratch' = Null
  /\ UNCHANGED <<stepFrame, pc, flagVars, instr, ptrs, stackVars, runVars>>

\* The loop over the successors, which are worth less than the match.
FreeSuccessor ==
  /\ pc = "free" /\ scratch # Null
  /\ next' = [next EXCEPT ![scratch] = freelist]
  /\ freelist' = scratch
  /\ region' = [region EXCEPT ![scratch] = "free"]
  /\ scratch' = next[scratch]
  /\ UNCHANGED <<stepFrame, pc, flagVars, instr, ptrs, stackVars, runVars>>

\* LABEL_REMOVE_STATE with HANDLE_NULL as the successor ends the list before
\* the match; no state is pushed any more.
RemoveMatched ==
  /\ pc = "free" /\ scratch = Null
  /\ pushed' = TRUE
  /\ state' = Null
  /\ next' = [x \in Blocks |-> IF x = predecessor THEN Null ELSE next[x]]
  /\ head' = IF predecessor = Null THEN Null ELSE head
  /\ pc' = "list"
  /\ UNCHANGED <<stepFrame, freelist, flagVars, instr, ptrs, region, matched, spawned,
                 predecessor, ip, scratch>>

-----------------------------------------------------------------------------
(* The end of the call                                                     *)

\* LABEL_POST_STRING_LOOP: the result is written.
Coda ==
  /\ pc = "coda"
  /\ result' = Result("NONE", n_pointers # 0 /\ matched # Null,
                      IF n_pointers = 0 \/ matched = Null
                      THEN NullPointers(n_pointers) ELSE ptrs[matched])
  /\ status' = "OK"
  /\ pc' = "epilogue"
  /\ UNCHANGED <<heapVars, args, pos, poolVars, freelist, flagVars, memVars, stackVars,
                 runVars, scratch, request, caller, fresh>>

FrameGone ==
  /\ buffer' = NoBuffer /\ capacity' = 0 /\ bump' = 0 /\ freelist' = Null
  /\ head' = Null /\ matched' = Null /\ pushed' = FALSE /\ spawned' = FALSE
  /\ regflags' = {} /\ memflags' = {}
  /\ next' = NoBlocks /\ instr' = NoBlocks /\ ptrs' = NoBlocks /\ region' = NoBlocks
  /\ state' = Null /\ predecessor' = Null /\ ip' = 0 /\ scratch' = Null
  /\ request' = 0 /\ caller' = "none" /\ fresh' = NoBuffer /\ status' = "NONE"
  /\ pos' = 0

\* Mutant of Epilogue: a call that failed does not tell the context.
EpilogueUntold ==
  /\ pc = "epilogue"
  /\ ctxBuffer' = (IF status = "OK" THEN buffer ELSE ctxBuffer)
  /\ ctxCapacity' = (IF status = "OK" THEN capacity ELSE ctxCapacity)
  /\ result' = [result EXCEPT !.status = status]
  /\ pc' = "idle"
  /\ FrameGone
  /\ UNCHANGED <<heap, args>>

\* Buffer and capacity are written back into the context, however the call
\* ended.
Epilogue ==
  /\ pc = "epilogue"
  /\ ctxBuffer' = buffer /\ ctxCapacity' = capacity
  /\ result' = [result EXCEPT !.status = status]
  /\ pc' = "idle"
  /\ FrameGone
  /\ UNCHANGED <<heap, args>>

Client == CreateContext \/ DestroyContext \/ Call
Allocator == AllocFromBump \/ AllocFromFreelist \/ AllocNewBuffer \/ MoveBuffer \/ AllocFails
Run ==
  \/ FlagsAllocated \/ Allocator
  \/ EnterPosition \/ ResumeState \/ WantInitialState \/ PushInitialState \/ EndPosition
  \/ Destroy \/ Keep \/ Advance \/ TestAndSetFlag \/ WritePointer
  \/ WantStateCopy \/ PushStateCopy
  \/ MatchBoolean \/ Match \/ FreeSuccessor \/ RemoveMatched
  \/ Coda \/ Epilogue

Next == Client \/ Run

Spec     == Init /\ [][Next]_vars
FairSpec == Spec /\ WF_vars(Run)   \* a call runs to its end in one thread

-----------------------------------------------------------------------------
(* Properties                                                              *)

Handles == Blocks \cup {Null}
Regions == {"todo", "kept", "matched", "free"}
Callers == {"flags", "spawn", "split"}
Places  == Idle \cup Callers \cup {"alloc", "move", "string", "list", "run", "free",
                                   "coda", "epilogue"}

\* The types of all variables.  A link never leads out of the pool.
TypeOK ==
  /\ heap \in [Buffers -> Nat]
  /\ {ctxBuffer, buffer, fresh} \subseteq Buffers \cup {NoBuffer}
  /\ {ctxCapacity, capacity, bump, request, ip} \subseteq Nat
  /\ regex \in Regexes /\ text \in Texts /\ n_pointers \in NPointers(regex)
  /\ pc \in Places /\ caller \in Callers \cup {"none"} /\ pos \in 0 .. Len(text)
  /\ Blocks \subseteq Nat
  /\ next \in [Blocks -> Handles] /\ region \in [Blocks -> Regions]
  /\ instr \in [Blocks -> Nat]
  /\ ptrs \in [Blocks -> Pointers(n_pointers, Len(text))]
  /\ {freelist, head, matched, state, predecessor} \subseteq Handles
  /\ scratch \in Nat \cup {Null}
  /\ pushed \in BOOLEAN /\ spawned \in BOOLEAN
  /\ regflags \subseteq 0 .. regex.flags - 1
  /\ memflags \subseteq RegisterFlags .. regex.flags - 1
  /\ status \in {"NONE", "OK", "E_NOMEM"}
  /\ result \in [status : {"NONE", "OK", "E_NOMEM"}, found : BOOLEAN,
                 ptrs : Pointers(n_pointers, Len(text))]

\* Exactly one buffer is allocated, the one the context names between calls
\* and R_BUFFER names during one (the context may name a freed one then), and
\* only while it is being moved there are two.  Nothing is left behind when a
\* context is destroyed, and no exit of the emitted code skips the write-back.
BufferOwned ==
  /\ \A b \in Buffers :
       heap[b] = CASE pc \in Idle -> IF b = ctxBuffer THEN ctxCapacity ELSE 0
                   [] pc = "move" /\ b = fresh -> NewCapacity
                   [] OTHER -> IF b = buffer THEN capacity ELSE 0
  /\ pc = "none" => ctxBuffer = NoBuffer
  /\ pc \in Idle /\ ctxBuffer = NoBuffer => ctxCapacity = 0
  /\ pc \notin Idle /\ buffer = NoBuffer => capacity = 0

\* Every block lies in the buffer behind the flags, and no two overlap, also
\* right after the buffer has moved and before the caller of the allocator
\* has filled the block it got.
BlocksDisjoint ==
  /\ bump <= capacity
  /\ pc \notin Idle /\ ~(pc \in {"alloc", "move", "epilogue"} /\ caller = "flags")
       => FlagWords <= bump
  /\ \A h \in Blocks : FlagWords <= h /\ h + BlockSize <= bump
  /\ \A h, k \in Blocks : h < k => h + BlockSize <= k
  /\ pc \in {"spawn", "split"} =>
       /\ FlagWords <= scratch /\ scratch + BlockSize <= bump
       /\ \A h \in Blocks : h # scratch =>
            h + BlockSize <= scratch \/ scratch + BlockSize <= h

\* The block that the allocator has returned and nobody has linked yet.
Granted == IF pc \in {"spawn", "split"} THEN {scratch} ELSE {}

\* The NEXT fields that mean something, as in Vm.
Linking == (IF pc = "free" THEN Blocks \ {matched, predecessor}
            ELSE IF n_pointers = 0 THEN Blocks ELSE Blocks \ {matched}) \ Granted

Roots ==
  (IF pc = "free" /\ predecessor = Null THEN {} ELSE {<<"head", head>>})
    \cup {<<"freelist", freelist>>}
    \cup (IF pc = "free" THEN {<<"scratch", scratch>>} ELSE {})
    \cup {<<"granted", h>> : h \in Granted}
    \cup (IF n_pointers = 0 THEN {} ELSE {<<"matched", matched>>})

\* No block has two owners: the list of states, the free list, the successors
\* that a match is freeing, the match, or the code that just allocated it.
OneOwner ==
  /\ \A b, c \in Linking : next[b] = next[c] /\ next[b] # Null => b = c
  /\ \A r \in Roots : r[2] # Null => \A b \in Linking : next[b] # r[2]
  /\ \A r, s \in Roots : r[2] = s[2] /\ r[2] # Null => r = s

\* What the free list leads to is free and nothing on the list of states is,
\* so that a block is not handed out while a state lives in it.
FreeIsFree ==
  /\ freelist # Null => region[freelist] = "free"
  /\ \A b \in Linking : next[b] # Null =>
       (region[b] = "free" <=> region[next[b]] = "free")
  /\ head # Null => region[head] # "free"
  /\ matched # Null => region[matched] # "free"
  /\ pc \in {"list", "run"} /\ state # Null => region[state] = "todo"

-----------------------------------------------------------------------------
(* The lists, and the algorithm this implements                            *)

Chain(h) == Segment(next, h, Null)

\* A state resumes at the code of an instruction: compile_to_native defines
\* no label for the end of the bytecode, which is only reached by falling off
\* the last instruction.
ResumesAtCode ==
  /\ \A h \in Blocks : instr[h] \in Starts(Code)
  /\ pc = "run" => ip \in Labels(Code)

\* Between two positions every block is on one of the lists or the match, and
\* the pool is no larger than its blocks.
NoBlockLost ==
  pc \in {"string", "list", "run", "coda"} =>
    /\ Blocks = Members(Chain(head)) \cup Members(Chain(freelist))
                  \cup ({matched} \ {Null})
    /\ bump = FlagWords + BlockSize * Cardinality(Blocks)

\* Between the emitted pieces, the blocks pass through registers and one field:
\* whoever has one has it alone, for as long as the call lasts, and a state in
\* it resumes at code.
StatesOwned == TypeOK /\ OneOwner /\ FreeIsFree /\ NoBlockLost /\ ResumesAtCode

\* A call holds no more states than the program has instructions that wait or
\* split, besides a new one and the match, however long the string: the flags
\* let a position execute each of them once.
MemoryBounded ==
  Cardinality({h \in Blocks : region[h] # "free"})
    <= 2 + Cardinality({k \in Starts(Code) : Code[k + 1].op \in ConsumeOps \cup SplitOps})

\* Where the algorithm is; an allocation, and leaving for want of memory,
\* count as the place that asked for it.
Place == IF pc \in {"alloc", "move"} \/ (pc = "epilogue" /\ status = "E_NOMEM")
         THEN caller ELSE pc
InLoop == {"list", "run", "spawn", "split"}
AtPosition == InLoop \cup {"free"}

\* The states up to R_PREDECESSOR, and those from R_STATE on.
Kept == Segment(next, head, state)
Todo == Segment(next, state, Null)

StateAt(h) == [ip   |-> IF Place \in {"run", "split"} /\ h = state THEN ip ELSE instr[h],
               ptrs |-> ptrs[h]]
AsThreads(s) == [i \in DOMAIN s |-> StateAt(s[i])]

\* What PikeVm calls status, kept, todo, flags, spawned, matched and result.  A
\* position that has not begun has only states to run.  The result of a search
\* for a yes or no is written before the call is over.
PikeStatus == IF pc \in Idle THEN "idle"
              ELSE IF Place \in {"flags", "string"} THEN "position"
              ELSE IF Place \in AtPosition THEN "threads" ELSE "finish"
PikeKept == IF Place \in AtPosition THEN AsThreads(Kept) ELSE <<>>
PikeTodo == IF Place \in InLoop THEN AsThreads(Todo)
            ELSE IF Place = "string" THEN AsThreads(Kept) ELSE <<>>
PikeFlags   == IF Place \in AtPosition THEN regflags \cup memflags ELSE {}
PikeSpawned == Place \in AtPosition /\ spawned
PikeMatched == IF matched # Null THEN <<ptrs[matched]>>
               ELSE IF pc = "epilogue" /\ result.found THEN <<NullPointers(0)>> ELSE <<>>
PikeResult  == IF pc = "epilogue"
               THEN Result("NONE", FALSE, NullPointers(n_pointers)) ELSE result

Pike == INSTANCE PikeVm WITH
  status <- PikeStatus, kept <- PikeKept, todo <- PikeTodo, flags <- PikeFlags,
  spawned <- PikeSpawned, matched <- PikeMatched, result <- PikeResult

\* The emitted code computes what the algorithm without memory does, so both
\* engines return the same.  It holds for regexes whose flags fit the lower
\* half of the register: see FlagsLast.
ImplementsPike == Pike!Spec

\* A flag that a state has set stays set until the next position.
\* native-compiler.c:115: "The first 64 flags are stored in a register, the
\* remainder in memory".
FlagsLast ==
  [][pc = "run" /\ pc' \in AtPosition \cup {"alloc"} =>
       regflags \cup memflags \subseteq regflags' \cup memflags']_vars

\* Every call returns.
CallsReturn == []<>(pc \in Idle)
=============================================================================
