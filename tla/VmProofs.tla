------------------------------ MODULE VmProofs ------------------------------
(***************************************************************************)
(* Proofs that the memory management of the bytecode engine is sound, for  *)
(* any regexes, strings, buffers and numbers of calls; that its lists hold *)
(* all of its blocks; and that they are the thread lists of the algorithm  *)
(* in PikeVm: the engine of vm.c and executor.c refines it.                *)
(***************************************************************************)
EXTENDS Vm, ChainProofs

-----------------------------------------------------------------------------
(* The inductive invariant                                                 *)

\* Between calls, and until the flags are allocated, there are no blocks.
NoPool ==
  /\ next = NoBlocks /\ instr = NoBlocks /\ ptrs = NoBlocks /\ region = NoBlocks
  /\ freelist = Null /\ head = Null /\ matched = Null
  /\ thread = Null /\ prev = Null /\ tail = Null
  /\ ip = 0 /\ pos = 0 /\ flags = {}

\* Who may lead to whom.
Links ==
  /\ \A b, c \in Linking : next[b] = next[c] /\ next[b] # Null => b = c
  /\ \A b \in Linking : next[b] # Null =>
       /\ next[b] # freelist /\ next[b] # tail
       /\ ~(pc = "free" /\ prev = Null) => next[b] # head
       /\ region[b] = "free" => region[next[b]] = "free"
       /\ region[b] = "todo" => region[next[b]] = "todo"
       /\ region[b] = "kept" =>
            \/ region[next[b]] = "kept"
            \/ b = prev /\ next[b] = thread /\ region[next[b]] = "todo"

\* What each root leads to.
RootRegions ==
  /\ freelist # Null => region[freelist] = "free"
  /\ tail # Null => pc = "free" /\ region[tail] = "todo"
  /\ \A b \in Blocks : region[b] = "matched" <=> b = matched /\ n_pointers # 0
  /\ matched # Null /\ n_pointers = 0 => pc = "finish" /\ region[matched] = "todo"

\* Where run_threads is in the list.
Place ==
  /\ pc \in Idle \cup {"flags"} => NoPool
  /\ pc \in InLoop =>
       /\ pc = "step" => thread # Null
       /\ thread # Null => region[thread] = "todo"
       /\ prev = Null => head = thread
       /\ prev # Null => /\ region[prev] = "kept" /\ next[prev] = thread
                         /\ head # Null /\ region[head] = "kept"
  /\ pc = "free" =>
       /\ n_pointers # 0 /\ matched # Null /\ thread = matched
       /\ prev = Null => head = thread
       /\ prev # Null => /\ region[prev] = "kept"
                         /\ head # Null /\ region[head] = "kept"
  /\ pc = "finish" => (head # Null => region[head] \in {"kept", "todo"})
  /\ pc \in {"position", "return"} =>
       /\ prev = Null
       /\ head # Null => region[head] = "kept"

Pool   == Links /\ RootRegions /\ Place
Memory == BufferOwned /\ BlocksDisjoint
Inv    == TypeOK /\ Memory /\ Pool /\ InCode

-----------------------------------------------------------------------------
(* Sizes                                                                   *)

\* Rounding up to words gives a number of words.
LEMMA RoundUp ==
  ASSUME NEW n \in Nat
  PROVE  (n + FlagsPerWord - 1) \div FlagsPerWord \in Nat
<1>1. FlagsPerWord \in Nat /\ FlagsPerWord > 0 /\ n + FlagsPerWord - 1 \in Nat
  BY MemoryAssumption
<1>2. \A x \in Nat, y \in Nat : y > 0 => x \div y \in Nat
  BY SMT
<1> QED BY <1>1, <1>2

\* The flags and the threads have sizes, and a thread's is not zero.
LEMMA Sizes ==
  ASSUME TypeOK
  PROVE  /\ FlagWords \in Nat
         /\ n_pointers \in Nat
         /\ ThreadSize \in Nat /\ ThreadSize > 0
<1>1. regex \in Regexes /\ n_pointers \in NPointers(regex)
  BY DEF TypeOK
<1>2. regex.flags \in Nat /\ regex.groups \in Nat
  BY <1>1, RegexAssumption
<1>3. n_pointers \in Nat
  BY <1>1, <1>2 DEF NPointers
<1> QED BY <1>2, <1>3, RoundUp DEF FlagWords, ThreadSize

\* The addresses a program leads to are addresses of the program.
LEMMA CodeClosed ==
  ASSUME TypeOK, InCode, Stepping
  PROVE  /\ ip \in Starts(Code)
         /\ After(Code, ip) \in Labels(Code)
         /\ Continuation(Code, ip) \in Labels(Code)
         /\ Instr.op \in SplitOps => SplitPointer(Code, ip) \in Labels(Code)
         /\ Instr.op = "TEST_AND_SET_FLAG" => Instr.operand \in 0 .. regex.flags - 1
<1>1. regex \in Regexes /\ WellFormed(regex)
  BY RegexAssumption DEF TypeOK
<1>2. ip \in Starts(Code)
  BY DEF InCode, Labels, Stepping, AtEnd
<1>3. Code \in Seq(Cells) /\ ip + 1 \in DOMAIN Code
  BY <1>1, <1>2 DEF WellFormed, Starts, Code
<1>4. Code[ip + 1] \in Cells
  BY <1>3
<1>5. /\ After(Code, ip) \in Labels(Code)
      /\ Continuation(Code, ip) \in Labels(Code)
      /\ Instr.op \in SplitOps => SplitPointer(Code, ip) \in Labels(Code)
      /\ Instr.op = "TEST_AND_SET_FLAG" => Instr.operand < regex.flags
  BY <1>1, <1>2 DEF WellFormed, Code, Instr
<1>6. Instr.operand \in Nat /\ regex.flags \in Nat
  BY <1>1, <1>4, RegexAssumption DEF Instr, Cells
<1> QED BY <1>2, <1>5, <1>6

-----------------------------------------------------------------------------
(* Memory                                                                  *)

\* Until it returns, a call has no more memory than the context's buffer.
LEMMA AllocBuffer ==
  ASSUME TypeOK, BufferOwned, pc \notin Idle, bump <= capacity,
         NEW size \in Nat, VmAlloc(size)
  PROVE  /\ heap' \in [Buffers -> Nat]
         /\ buffer' = ctxBuffer' /\ ctxBuffer' \in Buffers \cup {NoBuffer}
         /\ capacity' = ctxCapacity' /\ ctxCapacity' \in Nat
         /\ \A b \in Buffers : heap'[b] = IF b = ctxBuffer' THEN ctxCapacity' ELSE 0
         /\ ctxBuffer' = NoBuffer => ctxCapacity' = 0
         /\ bump' \in Nat /\ bump <= bump' /\ bump' <= capacity'
<1>1. CASE FromBump(size)
  BY <1>1 DEF FromBump, Fits, TypeOK, BufferOwned, heapVars
<1>2. CASE FromFreelist(size)
  BY <1>2 DEF FromFreelist, TypeOK, BufferOwned, heapVars
<1>3. CASE FromNewBuffer(size)
  <2>1. PICK b \in Buffers :
          /\ heap' = [c \in Buffers |-> IF c = b THEN 2 * capacity + size
                                        ELSE IF c = buffer THEN 0 ELSE heap[c]]
          /\ buffer' = b /\ ctxBuffer' = b
    BY <1>3 DEF FromNewBuffer
  <2>2. /\ capacity' = 2 * capacity + size /\ ctxCapacity' = capacity'
        /\ bump' = bump + size
    BY <1>3 DEF FromNewBuffer
  <2>3. /\ bump \in Nat /\ capacity \in Nat /\ heap \in [Buffers -> Nat]
        /\ buffer = ctxBuffer /\ capacity = ctxCapacity
    BY DEF TypeOK, BufferOwned
  <2>4. capacity' \in Nat /\ bump' \in Nat /\ bump <= bump' /\ bump' <= capacity'
    BY <2>2, <2>3
  <2>5. \A c \in Buffers : heap[c] = IF c = buffer THEN capacity ELSE 0
    BY <2>3 DEF BufferOwned
  <2>6. \A c \in Buffers : heap'[c] = IF c = b THEN capacity' ELSE 0
    BY <2>1, <2>2, <2>5
  <2>7. heap' \in [Buffers -> Nat]
    BY <2>1, <2>2, <2>3, <2>4
  <2> QED BY <2>1, <2>2, <2>4, <2>6, <2>7, MemoryAssumption
<1> QED BY <1>1, <1>2, <1>3 DEF VmAlloc

\* The handle of a new thread: a recycled block, or one above all others.
LEMMA AllocHandle ==
  ASSUME Inv, pc \notin Idle \cup {"flags"}, VmAlloc(ThreadSize),
         NEW h, h = NewHandle(ThreadSize)
  PROVE  /\ h \in Nat /\ FlagWords <= h /\ h + ThreadSize <= bump'
         /\ \/ h \in Blocks /\ h = freelist /\ freelist' = next[h]
            \/ h \notin Blocks /\ freelist' = freelist
         /\ \A k \in Blocks : /\ k < h => k + ThreadSize <= h
                              /\ h < k => h + ThreadSize <= k
<1>0. /\ FlagWords \in Nat /\ ThreadSize \in Nat /\ ThreadSize > 0
      /\ bump \in Nat /\ capacity \in Nat /\ Blocks \subseteq Nat
      /\ freelist \in Blocks \cup {Null}
  BY Sizes DEF Inv, TypeOK, Handles
<1>1. /\ bump <= capacity /\ FlagWords <= bump
      /\ \A k \in Blocks : FlagWords <= k /\ k + ThreadSize <= bump
      /\ \A j, k \in Blocks : j < k => j + ThreadSize <= k
  BY DEF Inv, Memory, BlocksDisjoint
<1>2. CASE FromFreelist(ThreadSize)
  <2>1. h = freelist /\ h \in Blocks /\ freelist' = next[h] /\ bump' = bump
    BY <1>0, <1>2 DEF FromFreelist, NewHandle
  <2> QED BY <1>0, <1>1, <2>1
<1>3. CASE FromBump(ThreadSize) \/ FromNewBuffer(ThreadSize)
  <2>1. h = bump /\ bump' = bump + ThreadSize /\ freelist' = freelist
    BY <1>3 DEF FromBump, FromNewBuffer, NewHandle
  <2> QED BY <1>0, <1>1, <2>1
<1> QED BY <1>2, <1>3 DEF VmAlloc

\* Where no memory is taken, the sizes stay right.
LEMMA MemoryKept ==
  ASSUME Memory, pc \notin Idle \cup {"flags"}, pc' \notin Idle \cup {"flags"},
         UNCHANGED <<heapVars, args, poolVars>>, Blocks' = Blocks
  PROVE  Memory'
<1> QED
  BY DEF Memory, BufferOwned, BlocksDisjoint, heapVars, args, poolVars,
         FlagWords, ThreadSize, Idle

\* A new thread fits between the others.
LEMMA MemoryGrows ==
  ASSUME Inv, pc \notin Idle \cup {"flags"}, pc' \notin Idle \cup {"flags"},
         VmAlloc(ThreadSize), UNCHANGED args,
         Blocks' = Blocks \cup {NewHandle(ThreadSize)}
  PROVE  Memory'
<1> DEFINE h == NewHandle(ThreadSize)
<1>1. /\ ThreadSize \in Nat /\ ThreadSize' = ThreadSize
      /\ FlagWords \in Nat /\ FlagWords' = FlagWords
      /\ Blocks \subseteq Nat /\ bump \in Nat
  BY Sizes DEF Inv, TypeOK, args, ThreadSize, FlagWords
<1>2. /\ buffer' = ctxBuffer' /\ capacity' = ctxCapacity'
      /\ \A b \in Buffers : heap'[b] = IF b = ctxBuffer' THEN ctxCapacity' ELSE 0
      /\ ctxBuffer' = NoBuffer => ctxCapacity' = 0
      /\ bump' \in Nat /\ bump <= bump' /\ bump' <= capacity'
  BY <1>1, AllocBuffer DEF Inv, Memory, BlocksDisjoint
<1>3. /\ h \in Nat /\ FlagWords <= h /\ h + ThreadSize <= bump'
      /\ \A k \in Blocks : /\ k < h => k + ThreadSize <= h
                           /\ h < k => h + ThreadSize <= k
  BY AllocHandle
<1>4. /\ FlagWords <= bump
      /\ \A k \in Blocks : FlagWords <= k /\ k + ThreadSize <= bump
      /\ \A j, k \in Blocks : j < k => j + ThreadSize <= k
  BY DEF Inv, Memory, BlocksDisjoint
<1>5. BufferOwned'
  BY <1>2 DEF BufferOwned, Idle
<1> HIDE DEF h
<1>6. BlocksDisjoint'
  <2>1. Blocks' = Blocks \cup {h}
    BY DEF h
  <2>2. \A k \in Blocks' : FlagWords' <= k /\ k + ThreadSize' <= bump'
    BY <1>1, <1>2, <1>3, <1>4, <2>1
  <2>3. \A j, k \in Blocks' : j < k => j + ThreadSize' <= k
    BY <1>1, <1>3, <1>4, <2>1
  <2>4. bump' <= capacity' /\ FlagWords' <= bump'
    BY <1>1, <1>2, <1>4
  <2> QED BY <2>2, <2>3, <2>4 DEF BlocksDisjoint
<1> QED BY <1>5, <1>6 DEF Memory

-----------------------------------------------------------------------------
(* Calls begin and end                                                     *)

\* Addresses are numbers, and every program has its first.
LEMMA LabelsNat ==
  ASSUME NEW r \in Regexes
  PROVE  Labels(r.code) \subseteq Nat /\ 0 \in Labels(r.code)
<1>1. WellFormed(r)
  BY RegexAssumption
<1>2. r.code \in Seq(Cells) /\ 0 \in Labels(r.code)
  BY <1>1 DEF WellFormed
<1>3. Len(r.code) \in Nat
  BY <1>2
<1> QED BY <1>2, <1>3 DEF Labels, Starts

\* The numbers of pointers a client asks for.
LEMMA NPointersNat ==
  ASSUME NEW r \in Regexes, NEW n \in NPointers(r)
  PROVE  n \in Nat
BY RegexAssumption DEF NPointers

\* NULL is a capture pointer.
LEMMA NullPointersType ==
  ASSUME NEW n \in Nat, NEW last \in Nat
  PROVE  NullPointers(n) \in Pointers(n, last)
BY DEF NullPointers, Pointers

\* Without blocks there is nothing to get wrong.
LEMMA NoPoolIsFine ==
  ASSUME NoPool, pc \in Idle \cup {"flags"}, regex \in Regexes
  PROVE  Pool /\ InCode /\ Blocks = {}
<1>1. Blocks = {} /\ DOMAIN instr = {}
  BY DEF NoPool, NoBlocks, Blocks
<1>2. Links
  BY <1>1 DEF Links, Linking
<1>3. RootRegions
  BY <1>1 DEF RootRegions, NoPool
<1>4. Place
  BY DEF Place, Idle, InLoop
<1>5. InCode
  BY <1>1, LabelsNat DEF InCode, Code, NoPool
<1> QED BY <1>1, <1>2, <1>3, <1>4, <1>5 DEF Pool

\* Before the first context exists the invariant holds.
LEMMA InitInv == Init => Inv
<1> SUFFICES ASSUME Init PROVE Inv
  OBVIOUS
<1>1. NoPool /\ pc \in Idle /\ ip = 0 /\ regex \in Regexes
  BY DEF Init, NoVm, NoPool, Idle
<1>2. Pool /\ InCode /\ Blocks = {}
  BY <1>1, NoPoolIsFine
<1>3. text \in Texts /\ Len(text) \in Nat
  BY RegexAssumption DEF Init
<1>4. NullPointers(0) \in Pointers(0, Len(text))
  BY <1>3, NullPointersType
<1>5. TypeOK
  <2>1. /\ next \in [Blocks -> Handles] /\ region \in [Blocks -> Regions]
        /\ instr \in [Blocks -> Nat]
        /\ ptrs \in [Blocks -> Pointers(n_pointers, Len(text))]
    BY <1>1, <1>2 DEF NoPool, NoBlocks
  <2>2. result \in [status : {"NONE", "OK", "E_NOMEM"}, found : BOOLEAN,
                    ptrs : Pointers(n_pointers, Len(text))]
    BY <1>4 DEF Init, Result
  <2>3. /\ regex \in Regexes /\ text \in Texts /\ n_pointers \in NPointers(regex)
        /\ pc \in Places /\ pos \in 0 .. Len(text)
    BY <1>3 DEF Init, NoVm, Places, Idle, NPointers
  <2>4. {freelist, head, matched, thread, prev, tail} \subseteq Handles
    BY DEF Init, NoVm, Handles
  <2> QED
    BY <1>2, <2>1, <2>2, <2>3, <2>4 DEF Init, NoVm, TypeOK
<1>6. Memory
  <2>1. /\ heap = [b \in Buffers |-> 0] /\ ctxBuffer = NoBuffer /\ ctxCapacity = 0
        /\ pc \in Idle /\ bump = 0 /\ capacity = 0
    BY DEF Init, NoVm, Idle
  <2>2. BufferOwned
    BY <2>1 DEF BufferOwned
  <2>3. BlocksDisjoint
    BY <1>2, <2>1 DEF BlocksDisjoint
  <2> QED BY <2>2, <2>3 DEF Memory
<1> QED BY <1>2, <1>5, <1>6 DEF Inv

\* What is left of the variables' types once a call has returned.
LEMMA GoneType ==
  ASSUME TypeOK, VmGone, UNCHANGED <<heapVars, args>>, pc' \in Idle,
         result' \in [status : {"NONE", "OK", "E_NOMEM"}, found : BOOLEAN,
                      ptrs : Pointers(n_pointers, Len(text))]
  PROVE  TypeOK' /\ NoPool' /\ Blocks' = {} /\ ip' = 0
<1>1. NoPool' /\ Blocks' = {} /\ ip' = 0
  BY DEF VmGone, NoPool, NoBlocks, Blocks
<1>2. /\ next' \in [Blocks' -> Handles'] /\ region' \in [Blocks' -> Regions]
      /\ instr' \in [Blocks' -> Nat]
      /\ ptrs' \in [Blocks' -> Pointers(n_pointers', Len(text'))]
  BY <1>1 DEF NoPool, NoBlocks
<1>3. text \in Texts /\ Len(text) \in Nat
  BY RegexAssumption DEF TypeOK
<1>4. {freelist', head', matched', thread', prev', tail'} \subseteq Handles'
  BY DEF VmGone, Handles
<1>5. /\ heap' = heap /\ ctxBuffer' = ctxBuffer /\ ctxCapacity' = ctxCapacity
      /\ regex' = regex /\ text' = text /\ n_pointers' = n_pointers
  BY DEF heapVars, args
<1>6. /\ pc' \in Places /\ pos' \in 0 .. Len(text') /\ spawned' \in BOOLEAN
      /\ flags' \subseteq 0 .. regex'.flags - 1
      /\ buffer' \in Buffers \cup {NoBuffer} /\ capacity' \in Nat /\ bump' \in Nat
  <2>1. pos' = 0 /\ flags' = {} /\ spawned' = FALSE
    BY DEF VmGone
  <2>2. 0 \in 0 .. Len(text)
    BY <1>3
  <2>3. buffer' = NoBuffer /\ capacity' = 0 /\ bump' = 0
    BY DEF VmGone
  <2>4. pc' \in Places
    BY DEF Places
  <2> QED BY <1>5, <2>1, <2>2, <2>3, <2>4
<1>7. result' \in [status : {"NONE", "OK", "E_NOMEM"}, found : BOOLEAN,
                  ptrs : Pointers(n_pointers', Len(text'))]
  BY <1>5
<1> QED
  BY <1>1, <1>2, <1>4, <1>5, <1>6, <1>7 DEF TypeOK

\* The memory of a context that has no call running.
LEMMA GoneMemory ==
  ASSUME Memory, pc \notin Idle, VmGone, UNCHANGED <<heapVars, args>>, pc' = "idle",
         Blocks' = {}
  PROVE  Memory'
BY DEF Memory, BufferOwned, BlocksDisjoint, VmGone, heapVars, Idle

\* crex_create_context starts from no buffer.
LEMMA CreateContextInv == Inv /\ CreateContext => Inv'
<1> SUFFICES ASSUME Inv, CreateContext PROVE Inv'
  OBVIOUS
<1> USE DEF CreateContext, heapVars, args, vmVars, poolVars, memVars, runVars
<1>1. NoPool' /\ pc' \in Idle \cup {"flags"} /\ regex' \in Regexes /\ ctxBuffer = NoBuffer
  BY DEF Inv, Pool, Place, NoPool, Idle, TypeOK, Memory, BufferOwned
<1>2. TypeOK'
  BY DEF Inv, TypeOK, Places, Idle, Blocks, Handles
<1>3. Memory'
  BY <1>1 DEF Inv, Memory, BufferOwned, BlocksDisjoint, Idle, Blocks, FlagWords, ThreadSize
<1>4. InCode'
  BY DEF Inv, InCode, Code, Blocks
<1>5. Pool'
  BY <1>1 DEF Pool, Links, RootRegions, Place, NoPool, NoBlocks, Blocks, Linking, Idle, InLoop
<1> QED BY <1>2, <1>3, <1>4, <1>5 DEF Inv

\* crex_destroy_context frees the buffer the context owns.
LEMMA DestroyContextInv == Inv /\ DestroyContext => Inv'
<1> SUFFICES ASSUME Inv, DestroyContext PROVE Inv'
  OBVIOUS
<1> USE DEF DestroyContext, args, vmVars, poolVars, memVars, runVars
<1>1. NoPool' /\ pc' \in Idle \cup {"flags"} /\ regex' \in Regexes
  BY DEF Inv, Pool, Place, NoPool, Idle, TypeOK
<1>2. TypeOK'
  BY DEF Inv, TypeOK, Places, Idle, Blocks, Handles
<1>3. Memory'
  BY DEF Inv, Memory, BufferOwned, BlocksDisjoint, Idle, Blocks, FlagWords, ThreadSize, TypeOK
<1>4. InCode'
  BY DEF Inv, InCode, Code, Blocks
<1>5. Pool'
  BY <1>1 DEF Pool, Links, RootRegions, Place, NoPool, NoBlocks, Blocks, Linking, Idle, InLoop
<1> QED BY <1>2, <1>3, <1>4, <1>5 DEF Inv

\* create_vm takes the context's buffer with nothing in it.
LEMMA CallInv == Inv /\ Call => Inv'
<1> SUFFICES ASSUME Inv, Call PROVE Inv'
  OBVIOUS
<1> USE DEF heapVars, memVars, runVars
<1>1. PICK r \in Regexes, t \in Texts : \E n \in NPointers(r) :
        /\ regex' = r /\ text' = t /\ n_pointers' = n
        /\ result' = Result("NONE", FALSE, NullPointers(n))
  BY DEF Call
<1>2. PICK n \in NPointers(r) :
        /\ regex' = r /\ text' = t /\ n_pointers' = n
        /\ result' = Result("NONE", FALSE, NullPointers(n))
  BY <1>1
<1>3. n \in Nat /\ Len(t) \in Nat
  BY NPointersNat, RegexAssumption
<1>4. NoPool /\ Blocks = {}
  BY DEF Inv, Pool, Place, Call, Idle, NoPool, NoBlocks, Blocks
<1>5. NoPool' /\ Blocks' = {}
  BY <1>4 DEF Call, NoPool, Blocks
<1>6. Pool' /\ InCode'
  <2>1. pc' \in Idle \cup {"flags"} /\ regex' \in Regexes
    BY <1>2 DEF Call
  <2>2. Links' /\ RootRegions'
    BY <1>5 DEF Links, Linking, RootRegions, NoPool
  <2>3. Place'
    BY <1>5, <2>1 DEF Place, Idle, InLoop
  <2>4. InCode'
    BY <1>2, <1>5, LabelsNat DEF InCode, Code, NoPool, NoBlocks
  <2> QED BY <2>2, <2>3, <2>4 DEF Pool
<1>7. Memory'
  BY <1>4, <1>5 DEF Inv, Memory, BufferOwned, BlocksDisjoint, Call, Idle, TypeOK
<1>8. TypeOK'
  <2>1. /\ next' \in [Blocks' -> Handles'] /\ region' \in [Blocks' -> Regions]
        /\ instr' \in [Blocks' -> Nat]
        /\ ptrs' \in [Blocks' -> Pointers(n_pointers', Len(text'))]
    BY <1>5 DEF NoPool, NoBlocks
  <2>2. result' \in [status : {"NONE", "OK", "E_NOMEM"}, found : BOOLEAN,
                     ptrs : Pointers(n_pointers', Len(text'))]
    BY <1>2, <1>3, NullPointersType DEF Result
  <2>3. pos' \in 0 .. Len(text') /\ flags' \subseteq 0 .. regex'.flags - 1
    BY <1>2, <1>3, <1>5 DEF NoPool
  <2>4. {freelist', head', matched', thread', prev', tail'} \subseteq Handles'
    BY <1>5 DEF NoPool, Handles
  <2> QED
    BY <1>2, <1>5, <2>1, <2>2, <2>3, <2>4
    DEF Inv, TypeOK, Call, NoPool, Places, BufferOwned, Memory, Idle
<1> QED BY <1>6, <1>7, <1>8 DEF Inv

\* Returning a result leaves the buffer with the context.
LEMMA ReturnInv == Inv /\ Return => Inv'
<1> SUFFICES ASSUME Inv, Return PROVE Inv'
  OBVIOUS
<1>1. result' \in [status : {"NONE", "OK", "E_NOMEM"}, found : BOOLEAN,
                   ptrs : Pointers(n_pointers, Len(text))]
  <2>1. n_pointers \in Nat /\ Len(text) \in Nat
    BY Sizes, RegexAssumption DEF Inv, TypeOK
  <2>2. matched # Null => ptrs[matched] \in Pointers(n_pointers, Len(text))
    BY DEF Inv, TypeOK, Handles
  <2>3. NullPointers(n_pointers) \in Pointers(n_pointers, Len(text))
    BY <2>1, NullPointersType
  <2> QED BY <2>2, <2>3 DEF Return, Result
<1>2. TypeOK' /\ NoPool' /\ Blocks' = {}
  BY <1>1, GoneType DEF Inv, Return, Idle
<1>3. Memory'
  BY <1>2, GoneMemory DEF Inv, Return, Idle
<1>4. Pool' /\ InCode'
  <2>1. pc' \in Idle \cup {"flags"} /\ regex' \in Regexes
    BY <1>2 DEF Return, TypeOK, Idle
  <2>2. Links' /\ RootRegions'
    BY <1>2 DEF Links, Linking, RootRegions, NoPool
  <2>3. Place'
    BY <1>2, <2>1 DEF Place, Idle, InLoop
  <2>4. InCode'
    BY <1>2, <2>1, LabelsNat DEF InCode, Code, NoPool, NoBlocks
  <2> QED BY <2>2, <2>3, <2>4 DEF Pool
<1> QED BY <1>2, <1>3, <1>4 DEF Inv

\* So does CREX_E_NOMEM, wherever the allocation failed.
LEMMA NoMemoryInv == Inv /\ NoMemory => Inv'
<1> SUFFICES ASSUME Inv, NoMemory PROVE Inv'
  OBVIOUS
<1>1. result' \in [status : {"NONE", "OK", "E_NOMEM"}, found : BOOLEAN,
                   ptrs : Pointers(n_pointers, Len(text))]
  <2>1. n_pointers \in Nat /\ Len(text) \in Nat
    BY Sizes, RegexAssumption DEF Inv, TypeOK
  <2>2. NullPointers(n_pointers) \in Pointers(n_pointers, Len(text))
    BY <2>1, NullPointersType
  <2> QED BY <2>2 DEF NoMemory, Result
<1>2. pc \notin Idle
  BY DEF NoMemory, Idle, Stepping
<1>3. TypeOK' /\ NoPool' /\ Blocks' = {}
  BY <1>1, GoneType DEF Inv, NoMemory, Idle
<1>4. Memory'
  BY <1>2, <1>3, GoneMemory DEF Inv, NoMemory
<1>5. Pool' /\ InCode'
  <2>1. pc' \in Idle \cup {"flags"} /\ regex' \in Regexes
    BY <1>3 DEF NoMemory, TypeOK, Idle
  <2>2. Links' /\ RootRegions'
    BY <1>3 DEF Links, Linking, RootRegions, NoPool
  <2>3. Place'
    BY <1>3, <2>1 DEF Place, Idle, InLoop
  <2>4. InCode'
    BY <1>3, <2>1, LabelsNat DEF InCode, Code, NoPool, NoBlocks
  <2> QED BY <2>2, <2>3, <2>4 DEF Pool
<1> QED BY <1>3, <1>4, <1>5 DEF Inv

-----------------------------------------------------------------------------
(* The steps of a call                                                     *)

USE DEF heapVars, args, poolVars, memVars, vmVars, runVars, stepFrame

\* create_vm puts the flags below every block.
LEMMA AllocFlagsInv == Inv /\ AllocFlags => Inv'
<1> SUFFICES ASSUME Inv, AllocFlags PROVE Inv'
  OBVIOUS
<1>1. NoPool /\ Blocks = {} /\ pc \notin Idle
  BY DEF Inv, Pool, Place, AllocFlags, Idle, NoPool, NoBlocks, Blocks
<1>2. FlagWords \in Nat /\ FlagWords' = FlagWords /\ bump \in Nat
  BY Sizes DEF Inv, TypeOK, AllocFlags, FlagWords
<1>3. freelist' = Null /\ bump' = bump + FlagWords
  BY <1>1 DEF NoPool, AllocFlags, VmAlloc, FromBump, FromFreelist, FromNewBuffer
<1>4. /\ heap' \in [Buffers -> Nat]
      /\ buffer' = ctxBuffer' /\ ctxBuffer' \in Buffers \cup {NoBuffer}
      /\ capacity' = ctxCapacity' /\ ctxCapacity' \in Nat
      /\ \A b \in Buffers : heap'[b] = IF b = ctxBuffer' THEN ctxCapacity' ELSE 0
      /\ ctxBuffer' = NoBuffer => ctxCapacity' = 0
      /\ bump' \in Nat /\ bump' <= capacity'
  BY <1>1, <1>2, AllocBuffer DEF Inv, Memory, BlocksDisjoint, AllocFlags
<1>5. Blocks' = {} /\ UNCHANGED <<next, instr, ptrs, region>>
  BY <1>1 DEF AllocFlags, Blocks
<1>6. TypeOK'
  <2>1. {freelist', head', matched', thread', prev', tail'} \subseteq Handles'
    BY <1>1, <1>3 DEF AllocFlags, Handles, NoPool
  <2>2. /\ next' \in [Blocks' -> Handles'] /\ region' \in [Blocks' -> Regions]
        /\ instr' \in [Blocks' -> Nat]
        /\ ptrs' \in [Blocks' -> Pointers(n_pointers', Len(text'))]
    BY <1>1, <1>5 DEF NoPool, NoBlocks
  <2>3. pc' \in Places /\ flags' \subseteq 0 .. regex'.flags - 1
    BY DEF AllocFlags, Places
  <2> QED BY <1>4, <1>5, <2>1, <2>2, <2>3 DEF Inv, AllocFlags, TypeOK
<1>7. Memory'
  BY <1>2, <1>3, <1>4, <1>5 DEF Memory, BufferOwned, BlocksDisjoint, AllocFlags, Idle
<1>8. Pool'
  BY <1>1, <1>3, <1>5
  DEF AllocFlags, Pool, Links, Linking, RootRegions, Place, NoPool, Idle, InLoop
<1>9. InCode'
  BY <1>5 DEF Inv, AllocFlags, InCode, Code, Blocks
<1> QED BY <1>6, <1>7, <1>8, <1>9 DEF Inv

\* run_threads begins: the threads that waited are to run.
LEMMA EnterPositionInv == Inv /\ EnterPosition => Inv'
<1> SUFFICES ASSUME Inv, EnterPosition PROVE Inv'
  OBVIOUS
<1>1. /\ Blocks' = Blocks /\ pc = "position"
      /\ pc' \notin Idle \cup {"flags"}
  BY DEF EnterPosition, Blocks, Idle
<1>2. region' \in [Blocks -> Regions]
  BY DEF Inv, TypeOK, EnterPosition, Regions
<1>3. TypeOK'
  <2>1. /\ UNCHANGED <<heapVars, args, result, pos, poolVars, freelist, head, matched,
                      next, instr, ptrs, ip, tail>>
        /\ Handles' = Handles
    BY <1>1 DEF EnterPosition, Handles
  <2>2. /\ pc' \in Places /\ spawned' \in BOOLEAN
        /\ flags' \subseteq 0 .. regex.flags - 1
        /\ {thread', prev'} \subseteq Handles
    BY DEF Inv, TypeOK, EnterPosition, Places, Handles, InLoop
  <2>3. {freelist', head', matched', thread', prev', tail'} \subseteq Handles'
    BY <2>1, <2>2 DEF Inv, TypeOK
  <2>4. /\ next' \in [Blocks' -> Handles'] /\ region' \in [Blocks' -> Regions]
        /\ instr' \in [Blocks' -> Nat]
        /\ ptrs' \in [Blocks' -> Pointers(n_pointers', Len(text'))]
    BY <1>1, <1>2, <2>1 DEF Inv, TypeOK
  <2> QED BY <1>1, <2>1, <2>2, <2>3, <2>4 DEF Inv, TypeOK
<1>4. Memory'
  BY <1>1, MemoryKept DEF Inv, EnterPosition, Idle
<1>5. InCode'
  BY <1>1 DEF Inv, EnterPosition, InCode, Code
<1>6. Links /\ RootRegions /\ Place
  BY DEF Inv, Pool
<1>7. Linking' = Linking
  BY <1>1 DEF EnterPosition, Linking
<1>8. CASE head = Null /\ matched # Null
  <2>1. /\ pc' = "finish" /\ prev' = prev /\ thread' = thread /\ region' = region
        /\ next' = next /\ head' = head /\ freelist' = freelist /\ tail' = tail
        /\ matched' = matched /\ n_pointers' = n_pointers
    BY <1>8 DEF EnterPosition
  <2>2. Links'
    BY <1>1, <1>6, <1>7, <2>1 DEF Links
  <2>3. RootRegions' /\ Place'
    BY <1>1, <1>6, <1>8, <2>1 DEF RootRegions, Place, Idle, InLoop
  <2> QED BY <1>3, <1>4, <1>5, <2>2, <2>3 DEF Inv, Pool
<1>9. CASE ~(head = Null /\ matched # Null)
  <2>1. /\ thread' = head /\ prev' = Null /\ head' = head /\ next' = next
        /\ pc' = "thread" /\ prev = Null /\ tail = Null
        /\ region' = [h \in Blocks |-> IF region[h] = "kept" THEN "todo" ELSE region[h]]
    BY <1>1, <1>6, <1>9 DEF EnterPosition, Place, RootRegions
  <2>2. Linking \subseteq Blocks /\ \A b \in Linking : next[b] \in Handles
    BY DEF Inv, TypeOK, Linking
  <2>3. Links'
    BY <1>1, <1>6, <1>7, <2>1, <2>2 DEF EnterPosition, Links, Handles, RootRegions, Inv, TypeOK
  <2>4. RootRegions'
    BY <1>1, <1>6, <2>1 DEF EnterPosition, RootRegions, Inv, TypeOK, Handles
  <2>5. Place'
    BY <1>1, <1>6, <2>1 DEF Place, InLoop, Idle, Inv, TypeOK, Handles
  <2> QED BY <1>3, <1>4, <1>5, <2>3, <2>4, <2>5 DEF Inv, Pool
<1> QED BY <1>8, <1>9

\* run_threads takes up a thread where it stopped.
LEMMA ResumeInv == Inv /\ Resume => Inv'
<1> SUFFICES ASSUME Inv, Resume PROVE Inv'
  OBVIOUS
<1>1. /\ Blocks' = Blocks /\ pc = "thread" /\ thread \in Blocks
      /\ pc' \notin Idle \cup {"flags"}
  BY DEF Inv, TypeOK, Resume, Blocks, Handles, Idle
<1>2. TypeOK'
  BY <1>1 DEF Inv, TypeOK, Resume, Places, Handles, InLoop
<1>3. Memory'
  BY <1>1, MemoryKept DEF Inv, Resume, Idle
<1>4. InCode'
  BY <1>1 DEF Inv, Resume, InCode, Code
<1>5. Pool'
  BY <1>1 DEF Inv, Resume, Pool, Links, Linking, RootRegions, Place, Idle, InLoop
<1> QED BY <1>2, <1>3, <1>4, <1>5 DEF Inv

\* The loop of run_threads ends.
LEMMA EndOfThreadsInv == Inv /\ EndOfThreads => Inv'
<1> SUFFICES ASSUME Inv, EndOfThreads PROVE Inv'
  OBVIOUS
<1>1. /\ Blocks' = Blocks /\ pc = "thread" /\ thread = Null
      /\ pc' \notin Idle \cup {"flags"}
  BY DEF EndOfThreads, Blocks, Idle
<1>2. TypeOK'
  BY <1>1 DEF Inv, TypeOK, EndOfThreads, Places, Handles
<1>3. Memory'
  BY <1>1, MemoryKept DEF Inv, EndOfThreads, Idle
<1>4. InCode'
  BY <1>1 DEF Inv, EndOfThreads, InCode, Code
<1>5. Pool'
  BY <1>1 DEF Inv, EndOfThreads, Pool, Links, Linking, RootRegions, Place, Idle, InLoop
<1> QED BY <1>2, <1>3, <1>4, <1>5 DEF Inv

\* A passed anchor or a jump only moves the instruction pointer.
LEMMA AdvanceInv == Inv /\ Advance => Inv'
<1> SUFFICES ASSUME Inv, Advance PROVE Inv'
  OBVIOUS
<1>1. /\ Blocks' = Blocks /\ pc = "step" /\ pc' = "step"
  BY DEF Advance, Stepping, Blocks
<1>2. ip' \in Labels(Code) /\ Labels(Code) \subseteq Nat
  BY CodeClosed, LabelsNat DEF Inv, Advance, TypeOK, Code
<1>3. TypeOK'
  BY <1>1, <1>2 DEF Inv, TypeOK, Advance, Handles
<1>4. Memory'
  BY <1>1, MemoryKept DEF Inv, Advance, Idle
<1>5. InCode'
  BY <1>1, <1>2 DEF Inv, Advance, InCode, Code
<1>6. Pool'
  BY <1>1 DEF Inv, Advance, Pool, Links, Linking, RootRegions, Place, Idle, InLoop
<1> QED BY <1>3, <1>4, <1>5, <1>6 DEF Inv

\* Setting a flag touches no block.
LEMMA TestAndSetFlagInv == Inv /\ TestAndSetFlag => Inv'
<1> SUFFICES ASSUME Inv, TestAndSetFlag PROVE Inv'
  OBVIOUS
<1>1. /\ Blocks' = Blocks /\ pc = "step" /\ pc' = "step"
  BY DEF TestAndSetFlag, Stepping, Blocks
<1>2. /\ ip' \in Labels(Code) /\ Labels(Code) \subseteq Nat
      /\ Instr.operand \in 0 .. regex.flags - 1
  BY CodeClosed, LabelsNat DEF Inv, TestAndSetFlag, TypeOK, Code
<1>3. TypeOK'
  BY <1>1, <1>2 DEF Inv, TypeOK, TestAndSetFlag, Handles
<1>4. Memory'
  BY <1>1, MemoryKept DEF Inv, TestAndSetFlag, Idle
<1>5. InCode'
  BY <1>1, <1>2 DEF Inv, TestAndSetFlag, InCode, Code
<1>6. Pool'
  BY <1>1 DEF Inv, TestAndSetFlag, Pool, Links, Linking, RootRegions, Place, Idle, InLoop
<1> QED BY <1>3, <1>4, <1>5, <1>6 DEF Inv

\* A capture pointer is stored within the thread's own block.
LEMMA WritePointerInv == Inv /\ WritePointer => Inv'
<1> SUFFICES ASSUME Inv, WritePointer PROVE Inv'
  OBVIOUS
<1>1. /\ Blocks' = Blocks /\ pc = "step" /\ pc' = "step"
  BY DEF WritePointer, Stepping, Blocks
<1>2. ip' \in Labels(Code) /\ Labels(Code) \subseteq Nat
  BY CodeClosed, LabelsNat DEF Inv, WritePointer, TypeOK, Code
<1>3. ptrs' \in [Blocks -> Pointers(n_pointers, Len(text))]
  <2>1. pos \in {Null} \cup 0 .. Len(text)
    BY DEF Inv, TypeOK
  <2>2. \A f \in Pointers(n_pointers, Len(text)) :
          [f EXCEPT ![Instr.operand] = pos] \in Pointers(n_pointers, Len(text))
    BY <2>1 DEF Pointers
  <2> QED BY <2>2 DEF Inv, TypeOK, WritePointer
<1>4. TypeOK'
  BY <1>1, <1>2, <1>3 DEF Inv, TypeOK, WritePointer, Handles
<1>5. Memory'
  BY <1>1, MemoryKept DEF Inv, WritePointer, Idle
<1>6. InCode'
  BY <1>1, <1>2 DEF Inv, WritePointer, InCode, Code
<1>7. Pool'
  BY <1>1 DEF Inv, WritePointer, Pool, Links, Linking, RootRegions, Place, Idle, InLoop
<1> QED BY <1>4, <1>5, <1>6, <1>7 DEF Inv

\* execute_regex goes to the next character or stops.
LEMMA NextCharacterInv == Inv /\ NextCharacter => Inv'
<1> SUFFICES ASSUME Inv, NextCharacter PROVE Inv'
  OBVIOUS
<1>1. /\ Blocks' = Blocks /\ pc = "return" /\ pc' \in {"finish", "position"}
  BY DEF NextCharacter, Blocks
<1>2. pos' \in 0 .. Len(text)
  <2>1. pos \in 0 .. Len(text) /\ Len(text) \in Nat /\ text \in Seq(Chars)
    BY RegexAssumption DEF Inv, TypeOK
  <2>2. pos' # pos => CharAt(text, pos) # EOF /\ pos' = pos + 1
    BY DEF NextCharacter
  <2>3. CharAt(text, pos) # EOF => pos < Len(text)
    BY DEF CharAt
  <2> QED BY <2>1, <2>2, <2>3
<1>3. TypeOK'
  BY <1>1, <1>2 DEF Inv, TypeOK, NextCharacter, Handles, Places
<1>4. Memory'
  BY <1>1, MemoryKept DEF Inv, NextCharacter, Idle
<1>5. InCode'
  BY <1>1 DEF Inv, NextCharacter, InCode, Code
<1>6. Pool'
  BY <1>1 DEF Inv, NextCharacter, Pool, Links, Linking, RootRegions, Place, Idle, InLoop
<1> QED BY <1>3, <1>4, <1>5, <1>6 DEF Inv

\* A yes-or-no search stops with its thread on the list.
LEMMA MatchBooleanInv == Inv /\ MatchBoolean => Inv'
<1> SUFFICES ASSUME Inv, MatchBoolean PROVE Inv'
  OBVIOUS
<1>1. /\ Blocks' = Blocks /\ pc = "step" /\ pc' = "finish"
  BY DEF MatchBoolean, Blocks
<1>2. TypeOK'
  BY <1>1 DEF Inv, TypeOK, MatchBoolean, Handles, Places
<1>3. Memory'
  BY <1>1, MemoryKept DEF Inv, MatchBoolean, Idle
<1>4. InCode'
  BY <1>1 DEF Inv, MatchBoolean, InCode, Code
<1>5. Pool'
  BY <1>1
  DEF Inv, MatchBoolean, Pool, Links, Linking, RootRegions, Place, Idle, InLoop, TypeOK, Handles
<1> QED BY <1>2, <1>3, <1>4, <1>5 DEF Inv

\* What the invariant says of the lists in the loop of run_threads.
LoopLists ==
  /\ Null \notin Blocks /\ Linking \subseteq Blocks
  /\ \A b \in Blocks : region[b] # "matched" => b \in Linking
  /\ \A b, c \in Linking : next[b] = next[c] /\ next[b] # Null => b = c
  /\ \A b \in Linking : next[b] # Null =>
       /\ next[b] \in Blocks /\ next[b] # freelist /\ next[b] # head
       /\ region[b] = "free" => region[next[b]] = "free"
       /\ region[b] = "todo" => region[next[b]] = "todo"
       /\ region[b] = "kept" =>
            \/ region[next[b]] = "kept"
            \/ b = prev /\ next[b] = thread /\ region[next[b]] = "todo"
  /\ freelist # Null => freelist \in Blocks /\ region[freelist] = "free"
  /\ thread # Null => thread \in Linking /\ region[thread] = "todo"
  /\ prev = Null => head = thread
  /\ prev # Null => /\ prev \in Linking /\ region[prev] = "kept"
                    /\ next[prev] = thread
                    /\ head \in Blocks /\ region[head] = "kept"
  /\ \A b \in Blocks : region[b] = "matched" <=> b = matched /\ n_pointers # 0
  /\ matched # Null => n_pointers # 0
  /\ tail = Null

\* In the loop of run_threads the thread has one place on the list.
LEMMA LoopFacts == Inv /\ pc \in InLoop => LoopLists
<1> SUFFICES ASSUME Inv, pc \in InLoop PROVE LoopLists
  OBVIOUS
<1>1. pc # "free" /\ pc # "finish"
  BY DEF InLoop
<1>2. Links /\ RootRegions /\ Place
  BY DEF Inv, Pool
<1>3. /\ next \in [Blocks -> Handles] /\ region \in [Blocks -> Regions]
      /\ {freelist, head, matched, thread, prev, tail} \subseteq Handles
      /\ Blocks \subseteq Nat
  BY DEF Inv, TypeOK
<1>4. Linking \subseteq Blocks /\ \A b \in Blocks : region[b] # "matched" => b \in Linking
  BY <1>1, <1>2 DEF Linking, RootRegions
<1>5. \A b, c \in Linking : next[b] = next[c] /\ next[b] # Null => b = c
  BY <1>2 DEF Links
<1>6. \A b \in Linking : next[b] # Null =>
        /\ next[b] \in Blocks /\ next[b] # freelist /\ next[b] # head
        /\ region[b] = "free" => region[next[b]] = "free"
        /\ region[b] = "todo" => region[next[b]] = "todo"
        /\ region[b] = "kept" =>
             \/ region[next[b]] = "kept"
             \/ b = prev /\ next[b] = thread /\ region[next[b]] = "todo"
  BY <1>1, <1>2, <1>3, <1>4 DEF Links, Handles
<1>7. /\ freelist # Null => freelist \in Blocks /\ region[freelist] = "free"
      /\ tail = Null
      /\ matched # Null => n_pointers # 0
      /\ \A b \in Blocks : region[b] = "matched" <=> b = matched /\ n_pointers # 0
  BY <1>1, <1>2, <1>3 DEF RootRegions, Handles
<1>8. /\ thread # Null => thread \in Linking /\ region[thread] = "todo"
      /\ prev = Null => head = thread
      /\ prev # Null => /\ prev \in Linking /\ region[prev] = "kept"
                        /\ next[prev] = thread
                        /\ head \in Blocks /\ region[head] = "kept"
  BY <1>2, <1>3, <1>4 DEF Place, Handles
<1>9. Null \notin Blocks
  BY <1>3 DEF Null
<1> QED BY <1>4, <1>5, <1>6, <1>7, <1>8, <1>9 DEF LoopLists

\* A thread that waits becomes prev_thread.
LEMMA ConsumeInv == Inv /\ Consume => Inv'
<1> SUFFICES ASSUME Inv, Consume PROVE Inv'
  OBVIOUS
<1>1. /\ Blocks' = Blocks /\ pc = "step" /\ pc' = "thread" /\ thread \in Blocks
  BY DEF Inv, TypeOK, Handles, Pool, Place, InLoop, Consume, Stepping, Blocks
<1>2. After(Code, ip) \in Labels(Code) /\ Labels(Code) \subseteq Nat
  BY CodeClosed, LabelsNat DEF Inv, Consume, TypeOK, Code
<1>3. TypeOK'
  BY SMTT(40), <1>1, <1>2 DEF Inv, TypeOK, Consume, Handles, Places, InLoop, Regions
<1>4. Memory'
  BY <1>1, MemoryKept DEF Inv, Consume, Idle
<1>5. InCode'
  BY <1>1, <1>2 DEF Inv, Consume, InCode, Code, TypeOK
<1>6. /\ next' = next /\ freelist' = freelist /\ head' = head /\ tail' = tail
      /\ prev' = thread /\ thread' = next[thread]
      /\ matched' = matched /\ n_pointers' = n_pointers /\ Linking' = Linking
      /\ \A b \in Blocks : region'[b] = IF b = thread THEN "kept" ELSE region[b]
  BY <1>1 DEF Inv, TypeOK, Consume, Linking
<1>L. LoopLists
  BY <1>1, LoopFacts DEF InLoop
<1>7. Pool'
  <2>1. thread # Null /\ next[thread] # thread
    BY <1>1, <1>L DEF LoopLists
  <2>2. Links'
    <3>1. \A b \in Linking : next[b] # Null =>
            /\ region'[b] = "free" => region'[next[b]] = "free"
            /\ region'[b] = "todo" => region'[next[b]] = "todo"
            /\ region'[b] = "kept" =>
                 \/ region'[next[b]] = "kept"
                 \/ b = thread /\ region'[next[b]] = "todo"
      BY <1>1, <1>6, <2>1, <1>L DEF LoopLists
    <3> QED BY <1>1, <1>6, <3>1, <1>L DEF LoopLists, Links, InLoop
  <2>3. RootRegions'
    BY <1>1, <1>6, <2>1, <1>L DEF LoopLists, RootRegions, InLoop
  <2>4. Place'
    <3>1. next[thread] # Null => region'[next[thread]] = "todo"
      BY <1>1, <1>6, <2>1, <1>L DEF LoopLists
    <3> QED BY <1>1, <1>6, <2>1, <3>1, <1>L DEF LoopLists, Place, InLoop, Idle
  <2> QED BY <2>2, <2>3, <2>4 DEF Pool
<1> QED BY <1>3, <1>4, <1>5, <1>7 DEF Inv

\* destroy_thread moves the thread from one list to the other.
LEMMA RejectInv == Inv /\ Reject => Inv'
<1> SUFFICES ASSUME Inv, Reject PROVE Inv'
  OBVIOUS
<1>1. /\ Blocks' = Blocks /\ pc = "step" /\ pc' = "thread" /\ thread \in Blocks
      /\ thread # Null
  BY DEF Inv, TypeOK, Handles, Pool, Place, InLoop, Reject, Stepping, Blocks
<1>2. /\ \A b \in Blocks : next[b] \in Handles /\ region[b] \in Regions
      /\ {freelist, head, matched, thread, prev, tail} \subseteq Handles
      /\ Blocks \subseteq Nat
  BY DEF Inv, TypeOK
<1>3. /\ \A b \in Blocks :
           next'[b] = IF b = thread THEN freelist
                      ELSE IF b = prev THEN next[thread] ELSE next[b]
      /\ \A b \in Blocks : region'[b] = IF b = thread THEN "free" ELSE region[b]
      /\ next' \in [Blocks -> Handles] /\ region' \in [Blocks -> Regions]
  <2>1. next' \in [Blocks -> Handles]
    BY <1>1, <1>2 DEF Reject, Handles
  <2>2. region' \in [Blocks -> Regions]
    BY <1>1 DEF Inv, TypeOK, Reject, Regions
  <2> QED BY <1>1, <2>1, <2>2 DEF Inv, TypeOK, Reject
<1>4. /\ freelist' = thread /\ thread' = next[thread] /\ prev' = prev
      /\ head' = IF prev = Null THEN next[thread] ELSE head
      /\ matched' = matched /\ n_pointers' = n_pointers /\ tail' = tail
      /\ Linking' = Linking
  BY <1>1 DEF Reject, Linking
<1>5. TypeOK'
  <2>1. {freelist', head', matched', thread', prev', tail'} \subseteq Handles'
    BY <1>1, <1>2, <1>4 DEF Handles
  <2> QED BY <1>1, <1>3, <2>1 DEF Inv, TypeOK, Reject, Handles, Places, InLoop
<1>6. Memory'
  BY <1>1, MemoryKept DEF Inv, Reject, Idle
<1>7. InCode'
  BY <1>1 DEF Inv, Reject, InCode, Code, TypeOK
<1>L. LoopLists
  BY <1>1, LoopFacts DEF InLoop
<1>8. Pool'
  <2>1. next[thread] # thread
    BY <1>1, <1>L DEF LoopLists
  <2>2. /\ \A b, c \in Linking : next'[b] = next'[c] /\ next'[b] # Null => b = c
        /\ \A b \in Linking : next'[b] # Null => next'[b] # thread
    BY <1>1, <1>3, <2>1, <1>L DEF LoopLists
  <2>3. \A b \in Linking : next'[b] # Null => next'[b] # head'
    BY <1>1, <1>3, <1>4, <2>1, <1>L DEF LoopLists
  <2>4. \A b \in Linking : next'[b] # Null =>
          /\ region'[b] = "free" => region'[next'[b]] = "free"
          /\ region'[b] = "todo" => region'[next'[b]] = "todo"
          /\ region'[b] = "kept" =>
               \/ region'[next'[b]] = "kept"
               \/ b = prev /\ next'[b] = next[thread] /\ region'[next'[b]] = "todo"
    BY <1>1, <1>3, <2>1, <1>L DEF LoopLists
  <2>5. Links'
    BY <1>1, <1>4, <2>2, <2>3, <2>4, <1>L DEF LoopLists, Links, InLoop
  <2>6. RootRegions'
    BY <1>1, <1>3, <1>4, <1>L DEF LoopLists, RootRegions, InLoop
  <2>7. Place'
    <3>1. next[thread] # Null => region'[next[thread]] = "todo"
      BY <1>1, <1>3, <2>1, <1>L DEF LoopLists
    <3> QED BY <1>1, <1>3, <1>4, <3>1, <1>L DEF LoopLists, Place, InLoop, Idle
  <2> QED BY <2>5, <2>6, <2>7 DEF Pool
<1> QED BY <1>5, <1>6, <1>7, <1>8 DEF Inv

-----------------------------------------------------------------------------
(* A match                                                                 *)

\* on_match frees the earlier match and takes the thread out of Linking.
LEMMA MatchInv == Inv /\ Match => Inv'
<1> SUFFICES ASSUME Inv, Match PROVE Inv'
  OBVIOUS
<1>1. /\ Blocks' = Blocks /\ pc = "step" /\ pc' = "free" /\ n_pointers # 0
      /\ thread \in Blocks /\ thread # Null
  BY DEF Inv, TypeOK, Handles, Pool, Place, InLoop, Match, Blocks
<1>2. /\ \A b \in Blocks : next[b] \in Handles /\ region[b] \in Regions
      /\ {freelist, head, matched, thread, prev, tail} \subseteq Handles
  BY DEF Inv, TypeOK
<1>3. /\ \A b \in Blocks : next'[b] = IF b = matched THEN freelist ELSE next[b]
      /\ \A b \in Blocks : region'[b] = IF b = thread THEN "matched"
                                        ELSE IF b = matched THEN "free" ELSE region[b]
      /\ next' \in [Blocks -> Handles] /\ region' \in [Blocks -> Regions]
  <2>1. next' \in [Blocks -> Handles]
    BY <1>1, <1>2 DEF Match, Handles
  <2>2. region' \in [Blocks -> Regions]
    BY <1>2 DEF Match, Regions
  <2> QED BY <1>1, <2>1, <2>2 DEF Match
<1>4. /\ freelist' = IF matched = Null THEN freelist ELSE matched
      /\ thread' = thread /\ prev' = prev /\ head' = head
      /\ matched' = thread /\ tail' = next[thread] /\ n_pointers' = n_pointers
  BY DEF Match
<1>5. TypeOK'
  <2>1. {freelist', head', matched', thread', prev', tail'} \subseteq Handles'
    BY <1>1, <1>2, <1>4 DEF Handles
  <2> QED BY <1>1, <1>3, <2>1 DEF Inv, TypeOK, Match, Handles, Places
<1>6. Memory'
  BY <1>1, MemoryKept DEF Inv, Match, Idle
<1>7. InCode'
  BY <1>1 DEF Inv, Match, InCode, Code
<1>L. LoopLists
  BY <1>1, LoopFacts DEF InLoop
<1>8. Pool'
  <2>1. Linking' = Blocks \ {thread, prev}
    BY <1>1, <1>4 DEF Linking
  <2>2. /\ next[thread] # thread /\ prev # thread
        /\ matched # Null => /\ region[matched] = "matched" /\ matched # thread
                             /\ matched # prev /\ matched \in Blocks
    BY <1>1, <1>2, <1>L DEF LoopLists, Handles
  <2>3. \A b \in Linking' : b # matched => b \in Linking
    BY <1>1, <2>1 DEF Linking
  <2>4. \A b, c \in Linking' : next'[b] = next'[c] /\ next'[b] # Null => b = c
    BY <1>1, <1>3, <2>1, <2>2, <2>3, <1>L DEF LoopLists
  <2>5. \A b \in Linking' : next'[b] # Null =>
          /\ next'[b] # freelist' /\ next'[b] # next[thread] /\ next'[b] # thread
          /\ prev # Null => next'[b] # head
    <3>1. \A b \in Linking : region[b] \in {"todo", "kept", "free"}
      BY <1>1, <1>2 DEF Linking, Regions, Inv, Pool, RootRegions
    <3>2. \A b \in Linking : next[b] # matched \/ next[b] = Null
      BY <2>2, <3>1, <1>L DEF LoopLists
    <3>3. freelist # Null => freelist # matched
      BY <2>2, <1>L DEF LoopLists
    <3> QED BY <1>1, <1>3, <1>4, <2>1, <2>2, <2>3, <3>2, <3>3, <1>L DEF LoopLists
  <2>6. \A b \in Linking' : next'[b] # Null =>
          /\ region'[b] = "free" => region'[next'[b]] = "free"
          /\ region'[b] = "todo" => region'[next'[b]] = "todo"
          /\ region'[b] = "kept" => region'[next'[b]] = "kept"
    BY <1>1, <1>3, <1>4, <2>1, <2>2, <2>3, <2>5, <1>L DEF LoopLists
  <2>7. Links'
    BY <1>1, <1>4, <2>4, <2>5, <2>6 DEF Links
  <2>8. RootRegions'
    BY <1>1, <1>3, <1>4, <2>2, <1>L DEF LoopLists, RootRegions
  <2>9. Place'
    BY <1>1, <1>3, <1>4, <2>2, <1>L DEF LoopLists, Place, InLoop, Idle
  <2> QED BY <2>7, <2>8, <2>9 DEF Pool
<1> QED BY <1>5, <1>6, <1>7, <1>8 DEF Inv

\* on_match frees the threads behind the match one at a time.
LEMMA FreeTailInv == Inv /\ FreeTail => Inv'
<1> SUFFICES ASSUME Inv, FreeTail PROVE Inv'
  OBVIOUS
<1>1. /\ Blocks' = Blocks /\ pc = "free" /\ pc' = "free"
      /\ tail \in Blocks /\ tail # Null
  BY DEF Inv, TypeOK, Handles, FreeTail, Blocks
<1>2. /\ \A b \in Blocks : next[b] \in Handles /\ region[b] \in Regions
      /\ {freelist, head, matched, thread, prev, tail} \subseteq Handles
      /\ Null \notin Blocks
  BY DEF Inv, TypeOK, Null
<1>3. /\ \A b \in Blocks : next'[b] = IF b = tail THEN freelist ELSE next[b]
      /\ \A b \in Blocks : region'[b] = IF b = tail THEN "free" ELSE region[b]
      /\ next' \in [Blocks -> Handles] /\ region' \in [Blocks -> Regions]
  BY <1>1, <1>2 DEF Inv, TypeOK, FreeTail, Regions
<1>4. /\ freelist' = tail /\ tail' = next[tail]
      /\ thread' = thread /\ prev' = prev /\ head' = head
      /\ matched' = matched /\ n_pointers' = n_pointers /\ Linking' = Linking
  BY <1>1 DEF FreeTail, Linking
<1>5. TypeOK'
  <2>1. {freelist', head', matched', thread', prev', tail'} \subseteq Handles'
    BY <1>1, <1>2, <1>4 DEF Handles
  <2> QED BY <1>1, <1>3, <2>1 DEF Inv, TypeOK, FreeTail, Handles
<1>6. Memory'
  BY <1>1, MemoryKept DEF Inv, FreeTail, Idle
<1>7. InCode'
  BY <1>1 DEF Inv, FreeTail, InCode, Code
<1>8. Links /\ RootRegions /\ Place
  BY DEF Inv, Pool
<1>9. /\ n_pointers # 0 /\ region[tail] = "todo" /\ region[matched] = "matched"
      /\ tail \in Linking /\ Linking \subseteq Blocks /\ next[tail] # tail
      /\ prev # Null => region[prev] = "kept" /\ head # Null /\ region[head] = "kept"
      /\ freelist # Null => region[freelist] = "free"
  BY <1>1, <1>2, <1>8 DEF Links, RootRegions, Place, Linking, InLoop, Handles
<1>10. Pool'
  <2>1. \A b, c \in Linking : next'[b] = next'[c] /\ next'[b] # Null => b = c
    BY <1>1, <1>2, <1>3, <1>8, <1>9 DEF Links
  <2>2. \A b \in Linking : next'[b] # Null =>
          /\ next'[b] # tail /\ next'[b] # next[tail]
          /\ prev # Null => next'[b] # head
    BY <1>1, <1>2, <1>3, <1>8, <1>9 DEF Links
  <2>3. \A b \in Linking : next'[b] # Null =>
          /\ region'[b] = "free" => region'[next'[b]] = "free"
          /\ region'[b] = "todo" => region'[next'[b]] = "todo"
          /\ region'[b] = "kept" => region'[next'[b]] = "kept"
    <3>1. \A b \in Linking : next[b] # Null =>
            /\ next[b] \in Blocks /\ next[b] # tail /\ b # prev
            /\ region[b] = "free" => region[next[b]] = "free"
            /\ region[b] = "todo" => region[next[b]] = "todo"
            /\ region[b] = "kept" => region[next[b]] = "kept"
      BY <1>1, <1>2, <1>8, <1>9 DEF Links, Linking, Handles
    <3>2. freelist # Null => freelist \in Blocks
      BY <1>2 DEF Handles
    <3> QED BY <1>1, <1>3, <1>9, <3>1, <3>2
  <2>4. Links'
    BY <1>1, <1>4, <2>1, <2>2, <2>3 DEF Links
  <2>5. next[tail] # Null => region[next[tail]] = "todo" /\ next[tail] \in Blocks
    BY <1>1, <1>2, <1>8, <1>9 DEF Links, Handles
  <2>6. RootRegions'
    BY <1>1, <1>3, <1>4, <1>8, <1>9, <2>5 DEF RootRegions
  <2>7. Place'
    BY <1>1, <1>2, <1>3, <1>4, <1>8, <1>9 DEF Place, InLoop, Idle, Handles
  <2> QED BY <2>4, <2>6, <2>7 DEF Pool
<1> QED BY <1>5, <1>6, <1>7, <1>10 DEF Inv

\* on_match cuts the list before the match.
LEMMA CutListInv == Inv /\ CutList => Inv'
<1> SUFFICES ASSUME Inv, CutList PROVE Inv'
  OBVIOUS
<1>1. Blocks' = Blocks /\ pc = "free" /\ pc' = "return" /\ tail = Null
  BY DEF CutList, Blocks
<1>2. /\ \A b \in Blocks : next[b] \in Handles
      /\ {freelist, head, matched, thread, prev, tail} \subseteq Handles
  BY DEF Inv, TypeOK
<1>3. /\ \A b \in Blocks : next'[b] = IF b = prev THEN Null ELSE next[b]
      /\ next' \in [Blocks -> Handles]
  BY <1>1, <1>2 DEF CutList, Handles
<1>4. /\ head' = IF prev = Null THEN Null ELSE head
      /\ thread' = Null /\ prev' = Null /\ freelist' = freelist /\ tail' = Null
      /\ matched' = matched /\ n_pointers' = n_pointers /\ region' = region
  BY <1>1 DEF CutList
<1>5. TypeOK'
  <2>1. {freelist', head', matched', thread', prev', tail'} \subseteq Handles'
    BY <1>1, <1>2, <1>4 DEF Handles
  <2> QED BY <1>1, <1>3, <2>1 DEF Inv, TypeOK, CutList, Handles, Places
<1>6. Memory'
  BY <1>1, MemoryKept DEF Inv, CutList, Idle
<1>7. InCode'
  BY <1>1 DEF Inv, CutList, InCode, Code
<1>8. Links /\ RootRegions /\ Place
  BY DEF Inv, Pool
<1>9. Pool'
  <2>1. /\ n_pointers # 0 /\ Linking' = Blocks \ {matched}
        /\ Linking = Blocks \ {matched, prev}
    BY <1>1, <1>4, <1>8 DEF Linking, Place
  <2>2. Links'
    BY <1>1, <1>3, <1>4, <1>8, <2>1 DEF Links
  <2>3. RootRegions'
    BY <1>1, <1>4, <1>8, <2>1 DEF RootRegions
  <2>4. Place'
    BY <1>1, <1>4, <1>8 DEF Place, InLoop, Idle
  <2> QED BY <2>2, <2>3, <2>4 DEF Pool
<1> QED BY <1>5, <1>6, <1>7, <1>9 DEF Inv

-----------------------------------------------------------------------------
(* New threads                                                             *)

\* The block of a new thread is not part of any list any more, and what is
\* left of the free list is not part of another.
LEMMA NewBlock ==
  ASSUME Inv, pc \in InLoop, VmAlloc(ThreadSize), NEW h, h = NewHandle(ThreadSize)
  PROVE  /\ h \in Nat /\ h \notin {Null, thread, prev, head, matched}
         /\ \A b \in Linking : next[b] # h
         /\ \A b \in Linking : b # h /\ next[b] # Null => next[b] # freelist'
         /\ freelist' # Null => /\ freelist' \in Blocks /\ freelist' # h
                                /\ region[freelist'] = "free"
         /\ freelist' \notin {thread, prev, head} \ {Null}
<1>1. pc \notin Idle \cup {"flags"} /\ pc # "free"
  BY DEF InLoop, Idle
<1>2. /\ h \in Nat
      /\ \/ h \in Blocks /\ h = freelist /\ freelist' = next[h]
         \/ h \notin Blocks /\ freelist' = freelist
  BY <1>1, AllocHandle
<1>3. LoopLists
  BY LoopFacts
<1>4. /\ {freelist, head, matched, thread, prev} \subseteq Handles
      /\ Null \notin Nat
  BY DEF Inv, TypeOK, Null
<1>5. thread # Null => region[thread] = "todo" /\ thread \in Blocks
  BY <1>3 DEF LoopLists
<1>6. h \in Blocks => h \in Linking /\ region[h] = "free" /\ h # Null
  BY <1>2, <1>3 DEF LoopLists
<1>7. h \notin {Null, thread, prev, head, matched}
  BY <1>2, <1>3, <1>4, <1>5, <1>6 DEF LoopLists, Handles
<1>8. \A b \in Linking : next[b] # h
  BY <1>2, <1>3, <1>4 DEF LoopLists
<1>9. \A b \in Linking : b # h /\ next[b] # Null => next[b] # freelist'
  BY <1>2, <1>3, <1>6 DEF LoopLists
<1>10. freelist' # Null => /\ freelist' \in Blocks /\ freelist' # h
                           /\ region[freelist'] = "free"
  BY <1>2, <1>3, <1>6, <1>8 DEF LoopLists
<1>11. freelist' \notin {thread, prev, head} \ {Null}
  BY <1>3, <1>4, <1>5, <1>10 DEF LoopLists, Handles
<1> QED BY <1>2, <1>7, <1>8, <1>9, <1>10, <1>11

\* spawn_thread puts a new block at the end of the list.
LEMMA SpawnInv == Inv /\ Spawn => Inv'
<1> SUFFICES ASSUME Inv, Spawn PROVE Inv'
  OBVIOUS
<1> DEFINE h == NewHandle(ThreadSize)
<1>1. /\ pc = "thread" /\ pc' = "step" /\ VmAlloc(ThreadSize) /\ pc \in InLoop
      /\ thread = Null /\ matched = Null
  BY DEF Spawn, MaySpawn, InLoop
<1>2. /\ next'   = [x \in Blocks \cup {h} |->
                      IF x = h THEN Null ELSE IF x = prev THEN h ELSE next[x]]
      /\ instr'  = Put(instr, h, 0)
      /\ ptrs'   = Put(ptrs, h, NullPointers(n_pointers))
      /\ region' = Put(region, h, "todo")
      /\ head' = (IF prev = Null THEN h ELSE head) /\ thread' = h /\ prev' = prev
      /\ matched' = matched /\ n_pointers' = n_pointers /\ tail' = tail
      /\ ip' = 0
  BY DEF Spawn
<1>3. /\ h \in Nat /\ h \notin {Null, thread, prev, head, matched}
      /\ \A b \in Linking : next[b] # h
      /\ \A b \in Linking : b # h /\ next[b] # Null => next[b] # freelist'
      /\ freelist' # Null => /\ freelist' \in Blocks /\ freelist' # h
                             /\ region[freelist'] = "free"
      /\ freelist' \notin {thread, prev, head} \ {Null}
  BY <1>1, NewBlock
<1>4. Blocks' = Blocks \cup {h}
  BY <1>2 DEF Blocks
<1>5. Memory'
  BY <1>1, <1>4, MemoryGrows DEF Spawn, Idle
<1>6. /\ heap' \in [Buffers -> Nat]
      /\ buffer' \in Buffers \cup {NoBuffer} /\ ctxBuffer' \in Buffers \cup {NoBuffer}
      /\ capacity' \in Nat /\ ctxCapacity' \in Nat /\ bump' \in Nat
  BY <1>1, Sizes, AllocBuffer DEF Inv, Memory, BlocksDisjoint, Idle
<1> HIDE DEF h
<1>7. /\ DOMAIN instr = Blocks /\ DOMAIN ptrs = Blocks /\ DOMAIN region = Blocks
      /\ \A b \in Blocks : next[b] \in Handles
      /\ {head, prev} \subseteq Handles /\ Blocks \subseteq Nat
      /\ n_pointers \in Nat /\ Len(text) \in Nat
  BY Sizes, RegexAssumption DEF Inv, TypeOK
<1>8. TypeOK'
  <2>1. next' \in [Blocks' -> Handles']
    BY <1>2, <1>4, <1>7 DEF Handles
  <2>2. /\ region' \in [Blocks' -> Regions] /\ instr' \in [Blocks' -> Nat]
    BY <1>2, <1>4, <1>7 DEF Put, Regions, Inv, TypeOK
  <2>3. ptrs' \in [Blocks' -> Pointers(n_pointers, Len(text))]
    BY <1>2, <1>4, <1>7, NullPointersType DEF Put, Inv, TypeOK
  <2>4. {freelist', head', matched', thread', prev', tail'} \subseteq Handles'
    BY <1>2, <1>3, <1>4, <1>7 DEF Inv, TypeOK, Handles
  <2>5. /\ UNCHANGED <<args, result, pos, flags>>
        /\ spawned' \in BOOLEAN /\ ip' \in Nat /\ pc' \in Places
    BY <1>1, <1>2 DEF Spawn, Places, InLoop
  <2> QED
    BY <1>3, <1>4, <1>6, <1>7, <2>1, <2>2, <2>3, <2>4, <2>5 DEF Inv, TypeOK
<1>9. InCode'
  <2>1. 0 \in Labels(Code) /\ Code' = Code
    BY LabelsNat DEF Inv, TypeOK, Spawn, Code
  <2> QED BY <1>2, <1>4, <1>7, <2>1 DEF Inv, InCode, Put
<1>L. LoopLists
  BY <1>1, LoopFacts
<1>10. Pool'
  <2>1. Linking = Blocks /\ Linking' = Blocks \cup {h}
    BY <1>1, <1>2, <1>3, <1>4, <1>L DEF Linking, LoopLists
  <2>2. /\ \A b \in Blocks \cup {h} :
             next'[b] = IF b = h THEN Null ELSE IF b = prev THEN h ELSE next[b]
        /\ \A b \in Blocks \cup {h} :
             region'[b] = IF b = h THEN "todo" ELSE region[b]
    BY <1>2, <1>7 DEF Put
  <2>3. \A b, c \in Linking' : next'[b] = next'[c] /\ next'[b] # Null => b = c
    BY <1>3, <2>1, <2>2, <1>L DEF LoopLists
  <2>4. \A b \in Linking' : next'[b] # Null =>
          next'[b] # freelist' /\ next'[b] # head'
    BY <1>2, <1>3, <2>1, <2>2, <1>L DEF LoopLists
  <2>5. \A b \in Linking' : next'[b] # Null =>
          /\ region'[b] = "free" => region'[next'[b]] = "free"
          /\ region'[b] = "todo" => region'[next'[b]] = "todo"
          /\ region'[b] = "kept" =>
               \/ region'[next'[b]] = "kept"
               \/ b = prev /\ next'[b] = h /\ region'[next'[b]] = "todo"
    BY <1>1, <1>3, <2>1, <2>2, <1>L DEF LoopLists
  <2>6. Links'
    BY <1>1, <1>2, <2>3, <2>4, <2>5, <1>L DEF LoopLists, Links
  <2>7. RootRegions'
    BY <1>1, <1>2, <1>3, <1>4, <2>1, <2>2, <1>L DEF LoopLists, RootRegions
  <2>8. Place'
    BY <1>1, <1>2, <1>3, <2>1, <2>2, <1>L DEF LoopLists, Place, InLoop, Idle
  <2> QED BY <2>6, <2>7, <2>8 DEF Pool
<1> QED BY <1>5, <1>8, <1>9, <1>10 DEF Inv

\* split_thread puts a new block behind the running thread.
LEMMA SplitInv == Inv /\ Split => Inv'
<1> SUFFICES ASSUME Inv, Split PROVE Inv'
  OBVIOUS
<1> DEFINE h == NewHandle(ThreadSize)
<1>1. /\ pc = "step" /\ pc' = "step" /\ VmAlloc(ThreadSize) /\ pc \in InLoop
      /\ Stepping /\ Instr.op \in SplitOps
  BY DEF Split, Stepping, InLoop
<1>2. /\ next'   = [x \in Blocks \cup {h} |->
                      IF x = h THEN next[thread] ELSE IF x = thread THEN h ELSE next[x]]
      /\ instr'  = Put(instr, h, SplitPointer(Code, ip))
      /\ ptrs'   = Put(ptrs, h, ptrs[thread])
      /\ region' = Put(region, h, "todo")
      /\ head' = head /\ thread' = thread /\ prev' = prev
      /\ matched' = matched /\ n_pointers' = n_pointers /\ tail' = tail
      /\ ip' = Continuation(Code, ip)
  BY DEF Split
<1>3. /\ h \in Nat /\ h \notin {Null, thread, prev, head, matched}
      /\ \A b \in Linking : next[b] # h
      /\ \A b \in Linking : b # h /\ next[b] # Null => next[b] # freelist'
      /\ freelist' # Null => /\ freelist' \in Blocks /\ freelist' # h
                             /\ region[freelist'] = "free"
      /\ freelist' \notin {thread, prev, head} \ {Null}
  BY <1>1, NewBlock
<1>4. Blocks' = Blocks \cup {h}
  BY <1>2 DEF Blocks
<1>5. Memory'
  BY <1>1, <1>4, MemoryGrows DEF Split, Idle
<1>6. /\ heap' \in [Buffers -> Nat]
      /\ buffer' \in Buffers \cup {NoBuffer} /\ ctxBuffer' \in Buffers \cup {NoBuffer}
      /\ capacity' \in Nat /\ ctxCapacity' \in Nat /\ bump' \in Nat
  BY <1>1, Sizes, AllocBuffer DEF Inv, Memory, BlocksDisjoint, Idle
<1> HIDE DEF h
<1>L. LoopLists
  BY <1>1, LoopFacts
<1>7. /\ DOMAIN instr = Blocks /\ DOMAIN ptrs = Blocks /\ DOMAIN region = Blocks
      /\ \A b \in Blocks : next[b] \in Handles
      /\ {head, prev, thread} \subseteq Handles /\ Blocks \subseteq Nat
      /\ thread # Null /\ thread \in Blocks
  BY <1>1 DEF Inv, TypeOK, Pool, Place, InLoop, Handles
<1>8. /\ SplitPointer(Code, ip) \in Labels(Code) /\ Continuation(Code, ip) \in Labels(Code)
      /\ Labels(Code) \subseteq Nat
  BY <1>1, CodeClosed, LabelsNat DEF Inv, TypeOK, Code
<1>9. TypeOK'
  <2>1. next' \in [Blocks' -> Handles']
    BY <1>2, <1>4, <1>7 DEF Handles
  <2>2. /\ region' \in [Blocks' -> Regions] /\ instr' \in [Blocks' -> Nat]
    BY <1>2, <1>4, <1>7, <1>8 DEF Put, Regions, Inv, TypeOK
  <2>3. ptrs' \in [Blocks' -> Pointers(n_pointers, Len(text))]
    BY <1>2, <1>4, <1>7 DEF Put, Inv, TypeOK
  <2>4. {freelist', head', matched', thread', prev', tail'} \subseteq Handles'
    BY <1>2, <1>3, <1>4, <1>7 DEF Inv, TypeOK, Handles
  <2>5. /\ UNCHANGED <<args, result, pc, pos, flags, spawned>>
        /\ Blocks' \subseteq Nat /\ ip' \in Nat
    BY <1>2, <1>3, <1>4, <1>7, <1>8 DEF Split
  <2>6. ptrs' \in [Blocks' -> Pointers(n_pointers', Len(text'))]
    BY <2>3, <2>5
  <2> QED BY <1>6, <2>1, <2>2, <2>4, <2>5, <2>6 DEF Inv, TypeOK
<1>10. InCode'
  <2>1. Code' = Code
    BY DEF Split, Code
  <2> QED BY <1>2, <1>4, <1>7, <1>8, <2>1 DEF Inv, InCode, Put
<1>11. Pool'
  <2>1. Linking' = Linking \cup {h}
    BY <1>1, <1>2, <1>3, <1>4 DEF Linking
  <2>2. /\ \A b \in Blocks \cup {h} :
             next'[b] = IF b = h THEN next[thread] ELSE IF b = thread THEN h ELSE next[b]
        /\ \A b \in Blocks \cup {h} :
             region'[b] = IF b = h THEN "todo" ELSE region[b]
    BY <1>2, <1>7 DEF Put
  <2>3. \A b, c \in Linking' : next'[b] = next'[c] /\ next'[b] # Null => b = c
    BY <1>3, <1>7, <2>1, <2>2, <1>L DEF LoopLists
  <2>4. \A b \in Linking' : next'[b] # Null =>
          next'[b] # freelist' /\ next'[b] # head'
    BY <1>2, <1>3, <1>7, <2>1, <2>2, <1>L DEF LoopLists
  <2>5. \A b \in Linking' : next'[b] # Null =>
          /\ region'[b] = "free" => region'[next'[b]] = "free"
          /\ region'[b] = "todo" => region'[next'[b]] = "todo"
          /\ region'[b] = "kept" =>
               \/ region'[next'[b]] = "kept"
               \/ b = prev /\ next'[b] = thread /\ region'[next'[b]] = "todo"
    <3> SUFFICES ASSUME NEW b \in Linking', next'[b] # Null
                 PROVE  /\ region'[b] = "free" => region'[next'[b]] = "free"
                        /\ region'[b] = "todo" => region'[next'[b]] = "todo"
                        /\ region'[b] = "kept" =>
                             \/ region'[next'[b]] = "kept"
                             \/ /\ b = prev /\ next'[b] = thread
                                /\ region'[next'[b]] = "todo"
      OBVIOUS
    <3>1. CASE b = h
      <4>1. next'[b] = next[thread] /\ region'[b] = "todo" /\ next[thread] # Null
        BY <2>2, <3>1
      <4>2. next[thread] \in Blocks /\ region[next[thread]] = "todo" /\ next[thread] # h
        BY <1>3, <1>7, <4>1, <1>L DEF LoopLists
      <4>3. region'[next[thread]] = "todo"
        BY <2>2, <4>2
      <4> QED BY <4>1, <4>3
    <3>2. CASE b = thread
      BY <1>3, <1>7, <2>2, <3>2, <1>L DEF LoopLists
    <3>3. CASE b # h /\ b # thread
      <4>1. b \in Linking /\ b \in Blocks
        BY <2>1, <3>3, <1>L DEF LoopLists
      <4>2. next'[b] = next[b] /\ region'[b] = region[b] /\ next[b] # Null
        BY <2>2, <3>3, <4>1
      <4>3. next[b] \in Blocks /\ next[b] # h
        BY <1>3, <4>1, <4>2, <1>L DEF LoopLists
      <4>4. region'[next[b]] = region[next[b]]
        BY <2>2, <4>3
      <4> QED BY <4>1, <4>2, <4>4, <1>L DEF LoopLists
    <3> QED BY <3>1, <3>2, <3>3
  <2>6. Links'
    BY <1>1, <1>2, <2>3, <2>4, <2>5, <1>L DEF LoopLists, Links
  <2>7. RootRegions'
    BY <1>1, <1>2, <1>3, <1>4, <2>1, <2>2, <1>L DEF LoopLists, RootRegions
  <2>8. Place'
    BY <1>1, <1>2, <1>3, <1>7, <2>1, <2>2, <1>L DEF LoopLists, Place, InLoop, Idle
  <2> QED BY <2>6, <2>7, <2>8 DEF Pool
<1> QED BY <1>5, <1>9, <1>10, <1>11 DEF Inv

-----------------------------------------------------------------------------
(* The theorems                                                            *)

\* What each root leads to, in the terms of the properties.
LEMMA RootFacts ==
  ASSUME Inv
  PROVE  /\ freelist # Null => region[freelist] = "free"
         /\ tail # Null => pc = "free" /\ region[tail] = "todo"
         /\ matched # Null => region[matched] = IF n_pointers = 0 THEN "todo" ELSE "matched"
         /\ head # Null /\ ~(pc = "free" /\ prev = Null) =>
              region[head] \in {"kept", "todo"} /\ (pc = "free" => region[head] = "kept")
         /\ \A b \in Linking : next[b] # Null =>
              /\ region[next[b]] \in {"kept", "todo", "free"}
              /\ region[b] = "free" <=> region[next[b]] = "free"
<1>1. /\ {freelist, head, matched, tail} \subseteq Blocks \cup {Null}
      /\ \A b \in Blocks : region[b] \in {"kept", "todo", "free", "matched"}
      /\ pc \in {"none", "idle", "flags", "position", "thread", "step", "free",
                 "return", "finish"}
  BY DEF Inv, TypeOK, Handles, Regions, Places, Idle, InLoop
<1>2. Links /\ RootRegions /\ Place
  BY DEF Inv, Pool
<1>3. \A b \in Linking : b \in Blocks /\ region[b] # "matched"
  BY <1>2 DEF Linking, RootRegions, Place
<1>4. head # Null /\ ~(pc = "free" /\ prev = Null) =>
        region[head] \in {"kept", "todo"} /\ (pc = "free" => region[head] = "kept")
  BY <1>1, <1>2 DEF Place, InLoop, NoPool, Idle
<1>5. \A b \in Linking : next[b] # Null =>
        /\ region[next[b]] \in {"kept", "todo", "free"}
        /\ region[b] = "free" <=> region[next[b]] = "free"
  BY <1>1, <1>2, <1>3 DEF Links
<1>6. matched # Null => region[matched] = IF n_pointers = 0 THEN "todo" ELSE "matched"
  BY <1>1, <1>2 DEF RootRegions
<1> QED BY <1>2, <1>4, <1>5, <1>6 DEF RootRegions

\* The invariant speaks of the variables only.
LEMMA InvStutters == Inv /\ UNCHANGED vars => Inv'
<1> SUFFICES ASSUME Inv, UNCHANGED vars PROVE Inv'
  OBVIOUS
<1> USE DEF vars
<1>1. TypeOK'
  BY DEF Inv, TypeOK, Blocks, Handles
<1>2. Memory'
  BY DEF Inv, Memory, BufferOwned, BlocksDisjoint, Blocks, FlagWords, ThreadSize
<1>3. Pool'
  BY DEF Inv, Pool, Links, Linking, RootRegions, Place, NoPool, Blocks
<1>4. InCode'
  BY DEF Inv, InCode, Code, Blocks
<1> QED BY <1>1, <1>2, <1>3, <1>4 DEF Inv

\* Every action preserves the invariant.
LEMMA InvPreserved == Inv /\ [Next]_vars => Inv'
<1> SUFFICES ASSUME Inv, [Next]_vars PROVE Inv'
  OBVIOUS
<1>1. CASE Client
  BY <1>1, CreateContextInv, DestroyContextInv, CallInv DEF Client
<1>2. CASE Run
  BY <1>2, AllocFlagsInv, EnterPositionInv, SpawnInv, ResumeInv, EndOfThreadsInv,
     RejectInv, ConsumeInv, AdvanceInv, TestAndSetFlagInv, WritePointerInv, SplitInv,
     MatchBooleanInv, MatchInv, FreeTailInv, CutListInv, NextCharacterInv, ReturnInv,
     NoMemoryInv DEF Run
<1>3. CASE UNCHANGED vars
  BY <1>3, InvStutters
<1> QED BY <1>1, <1>2, <1>3 DEF Next

\* The invariant holds in every reachable state.
LEMMA Invariance == Spec => []Inv
<1>1. Init => Inv
  BY InitInv
<1>2. Inv /\ [Next]_vars => Inv'
  BY InvPreserved
<1> QED BY <1>1, <1>2, PTL DEF Spec

\* Every variable keeps its type: in particular no NEXT field and no handle
\* ever names anything but a block of the pool, or nothing.
THEOREM TypeCorrect == Spec => []TypeOK
<1>1. Inv => TypeOK
  BY DEF Inv
<1> QED BY <1>1, Invariance, PTL

\* vm_alloc neither leaks a buffer nor leaves the context or the running call
\* with one that is freed, whether calls succeed or run out of memory.
THEOREM BuffersAreOwned == Spec => []BufferOwned
<1>1. Inv => BufferOwned
  BY DEF Inv, Memory
<1> QED BY <1>1, Invariance, PTL

\* Threads and flags never overlap, and none reaches past the buffer.
THEOREM BlocksAreDisjoint == Spec => []BlocksDisjoint
<1>1. Inv => BlocksDisjoint
  BY DEF Inv, Memory
<1> QED BY <1>1, Invariance, PTL

\* No block is on two lists, or twice on one.
THEOREM BlocksHaveOneOwner == Spec => []OneOwner
<1>1. Inv => OneOwner
  <2> SUFFICES ASSUME Inv PROVE OneOwner
    OBVIOUS
  <2>1. Links /\ RootRegions /\ Place /\ TypeOK
    BY DEF Inv, Pool
  <2>2. \A b, c \in Linking : next[b] = next[c] /\ next[b] # Null => b = c
    BY <2>1 DEF Links
  <2>3. ASSUME NEW r \in Roots, r[2] # Null, NEW b \in Linking
        PROVE  next[b] # r[2]
    BY <2>1, <2>3, RootFacts DEF Links, Roots
  <2>4. ASSUME NEW r \in Roots, NEW s \in Roots, r[2] = s[2], r[2] # Null
        PROVE  r = s
    BY <2>4, RootFacts DEF Roots
  <2> QED BY <2>2, <2>3, <2>4 DEF OneOwner
<1> QED BY <1>1, Invariance, PTL

\* A block on the free list holds no thread that still runs, waits or matched.
THEOREM FreeBlocksAreFree == Spec => []FreeIsFree
<1>1. Inv => FreeIsFree
  <2> SUFFICES ASSUME Inv PROVE FreeIsFree
    OBVIOUS
  <2>1. head # Null /\ pc = "free" /\ prev = Null =>
          head = matched /\ region[matched] = "matched"
    BY RootFacts DEF Inv, Pool, Place
  <2>2. pc \in InLoop /\ thread # Null => region[thread] = "todo"
    BY DEF Inv, Pool, Place
  <2> QED BY <2>1, <2>2, RootFacts DEF FreeIsFree
<1> QED BY <1>1, Invariance, PTL

\* The assertion at the head of run_threads' loop never fails.
THEOREM ListStaysIntact == Spec => []ListIntact
<1>1. Inv => ListIntact
  BY DEF Inv, Pool, Place, ListIntact
<1> QED BY <1>1, Invariance, PTL

\* No thread leaves the instructions of a well-formed program.
THEOREM CodeIsSafe == Spec => []CodeSafe
<1>1. Inv => CodeSafe
  BY DEF Inv, CodeSafe
<1> QED BY <1>1, Invariance, PTL

-----------------------------------------------------------------------------
(* The invariant of the lists                                              *)

Running == pc \notin Idle \cup {"flags"}

\* Where the threads begin that are still to run, or to be freed.
Rest == IF pc = "free" THEN tail ELSE thread

\* k, t and f are the blocks of the three lists, in order.
ListPaths(k, t, f) ==
  /\ Path(next, k, head, thread)
  /\ Path(next, t, Rest, Null)
  /\ Path(next, f, freelist, Null)

\* Each list has its region, and together they are the pool.
ListBlocks(k, t, f) ==
  /\ \A b \in Members(k) : region[b] = "kept"
  /\ \A b \in Members(t) : region[b] = "todo"
  /\ \A b \in Members(f) : region[b] = "free"
  /\ Blocks = Members(k) \cup Members(t) \cup Members(f) \cup ({matched} \ {Null})

\* prev_thread is the last thread of those that wait.
ListEnd(k) ==
  /\ pc \in InLoop \cup {"free"} => prev = IF k = <<>> THEN Null ELSE k[Len(k)]
  /\ pc \in {"position", "return"} => thread = Null

Lists(k, t, f) == ListPaths(k, t, f) /\ ListBlocks(k, t, f) /\ ListEnd(k)

\* The pool is as large as its blocks.
Sized ==
  /\ pc = "flags" => bump = 0
  /\ Running => /\ IsFiniteSet(Blocks)
                /\ bump = FlagWords + ThreadSize * Cardinality(Blocks)

ListInv == Inv /\ Sized /\ (Running => \E k, t, f : Lists(k, t, f))

\* What is known of the lists in any state.
LEMMA ListFacts ==
  ASSUME Inv, NEW k, NEW t, NEW f, Lists(k, t, f)
  PROVE  /\ Null \notin Blocks /\ next \in [Blocks -> Blocks \cup {Null}]
         /\ region \in [Blocks -> Regions]
         /\ {head, thread, prev, freelist, matched, tail} \subseteq Blocks \cup {Null}
         /\ k \in Seq(Blocks) /\ t \in Seq(Blocks) /\ f \in Seq(Blocks)
         /\ Members(k) \subseteq Blocks /\ Members(t) \subseteq Blocks
         /\ Members(f) \subseteq Blocks
         /\ Null \notin Members(k) \cup Members(t) \cup Members(f)
         /\ \A b \in Members(k) : b \notin Members(t) /\ b \notin Members(f)
         /\ \A b \in Members(t) : b \notin Members(f)
         /\ k # <<>> => k[Len(k)] \in Members(k)
<1>1. /\ Null \notin Blocks /\ next \in [Blocks -> Blocks \cup {Null}]
      /\ region \in [Blocks -> Regions]
      /\ {head, thread, prev, freelist, matched, tail} \subseteq Blocks \cup {Null}
  BY DEF Inv, TypeOK, Handles, Null
<1>2. /\ k \in Seq(Blocks) /\ t \in Seq(Blocks) /\ f \in Seq(Blocks)
      /\ Members(k) \subseteq Blocks /\ Members(t) \subseteq Blocks
      /\ Members(f) \subseteq Blocks
  BY PathStops DEF Lists, ListPaths, ListBlocks, ListEnd, Blocks
<1>3. k # <<>> => Len(k) \in 1 .. Len(k)
  BY <1>2, EmptySeq
<1>4. k # <<>> => k[Len(k)] \in Members(k)
  BY <1>2, <1>3, MembersIs
<1>5. \A b \in Members(k) : b \notin Members(t) /\ b \notin Members(f)
  BY DEF Lists, ListPaths, ListBlocks, ListEnd
<1>6. \A b \in Members(t) : b \notin Members(f)
  BY DEF Lists, ListPaths, ListBlocks, ListEnd
<1> QED BY <1>1, <1>2, <1>4, <1>5, <1>6

-----------------------------------------------------------------------------
(* Steps that leave the lists as they are                                  *)

\* Nothing is said of the local variables of a thread.
LEMMA SameLists ==
  ASSUME NEW k, NEW t, NEW f, Lists(k, t, f),
         UNCHANGED <<next, region, head, freelist, matched, thread>>,
         pc # "free", pc' # "free",
         pc' \in InLoop => pc \in InLoop /\ prev' = prev,
         pc' \in {"position", "return"} => thread = Null
  PROVE  Lists(k, t, f)'
BY DEF Lists, ListPaths, ListBlocks, ListEnd, Blocks, Rest

\* The pool does not grow unless vm_alloc is called.
LEMMA SameSize ==
  ASSUME Sized, Running, Running', UNCHANGED <<bump, args>>, Blocks' = Blocks
  PROVE  Sized'
BY DEF Sized, Running, Idle, FlagWords, ThreadSize, args

\* The flags are the first thing in the buffer; there are no blocks yet.
LEMMA AllocFlagsLists ==
  ASSUME Inv, Sized, AllocFlags
  PROVE  Sized' /\ Lists(<<>>, <<>>, <<>>)'
<1>1. NoPool /\ pc' = "position" /\ UNCHANGED <<args, memVars, runVars, head, matched>>
  BY DEF Inv, Pool, Place, AllocFlags
<1>2. freelist = Null /\ bump = 0
  BY <1>1 DEF NoPool, Sized, AllocFlags
<1>3. bump' = FlagWords /\ freelist' = Null /\ FlagWords' = FlagWords
  <2>1. FlagWords \in Nat
    BY Sizes DEF Inv
  <2> QED
    BY <1>1, <1>2, <2>1
    DEF AllocFlags, VmAlloc, FromBump, FromFreelist, FromNewBuffer, FlagWords, args
<1>4. Blocks' = {} /\ Blocks = {}
  BY <1>1 DEF Blocks, NoPool, NoBlocks, memVars
<1>5. Sized'
  <2>1. IsFiniteSet({}) /\ Cardinality({}) = 0
    BY FS_EmptySet
  <2>2. ThreadSize' \in Nat /\ FlagWords' \in Nat
    BY <1>1, Sizes DEF Inv, ThreadSize, FlagWords, args
  <2> QED BY <1>1, <1>3, <1>4, <2>1, <2>2 DEF Sized
<1>6. Members(<<>>) = {} /\ Path(next', <<>>, Null, Null)
  BY PathNone
<1>7. head' = Null /\ thread' = Null /\ matched' = Null
  BY <1>1 DEF NoPool, runVars
<1> QED BY <1>1, <1>3, <1>4, <1>5, <1>6, <1>7 DEF Lists, ListPaths, ListBlocks, ListEnd, Rest, InLoop

\* All threads that waited are to run.
LEMMA EnterPositionLists ==
  ASSUME Inv, NEW k, NEW t, NEW f, Lists(k, t, f), EnterPosition
  PROVE  IF pc' = "finish" THEN Lists(k, t, f)' /\ k = <<>> ELSE Lists(<<>>, k, f)'
<1>1. /\ pc = "position" /\ thread = Null /\ UNCHANGED <<next, head, freelist, matched>>
      /\ Blocks' = Blocks
  BY DEF EnterPosition, Lists, ListPaths, ListBlocks, ListEnd, Blocks
<1>2. k = <<>> <=> head = Null
  BY <1>1, PathStops DEF Lists, ListPaths, ListBlocks, ListEnd
<1>3. t = <<>>
  BY <1>1, PathStops DEF Lists, ListPaths, ListBlocks, ListEnd, Rest
<1>4. CASE head = Null /\ matched # Null
  BY <1>1, <1>2, <1>4, SameLists DEF EnterPosition, InLoop
<1>5. CASE ~(head = Null /\ matched # Null)
  <2>1. /\ pc' = "thread" /\ thread' = head /\ prev' = Null
        /\ region' = [h \in Blocks |-> IF region[h] = "kept" THEN "todo" ELSE region[h]]
    BY <1>5 DEF EnterPosition
  <2>2. Members(<<>>) = {} /\ Path(next', <<>>, head', thread')
    BY <1>1, <2>1, PathNone
  <2>3. Path(next', k, head', Null) /\ Path(next', f, freelist', Null)
    BY <1>1 DEF Lists, ListPaths, ListBlocks, ListEnd
  <2>4. /\ \A b \in Members(k) : region'[b] = "todo"
        /\ \A b \in Members(f) : region'[b] = "free"
    BY <2>1, ListFacts DEF Lists, ListPaths, ListBlocks, ListEnd
  <2>5. Blocks = Members(k) \cup Members(f) \cup ({matched} \ {Null})
    BY <1>3, <2>2 DEF Lists, ListPaths, ListBlocks, ListEnd
  <2> QED BY <1>1, <2>1, <2>2, <2>3, <2>4, <2>5 DEF Lists, ListPaths, ListBlocks, ListEnd, Rest
<1> QED BY <1>4, <1>5

-----------------------------------------------------------------------------
(* Steps of the loop that take no memory                                   *)

\* While a thread runs it is the first of those still to run.
LEMMA ThreadFirst ==
  ASSUME Inv, pc \in InLoop, thread # Null, NEW k, NEW t, NEW f, Lists(k, t, f)
  PROVE  /\ t # <<>> /\ thread \in Blocks /\ thread = t[1]
         /\ t = <<thread>> \o Tail(t)
         /\ Path(next, Tail(t), next[thread], Null)
         /\ Members(Tail(t)) = Members(t) \ {thread} /\ thread \in Members(t)
         /\ next[thread] \notin Members(k) \cup {thread} \cup Members(f)
<1>1. Path(next, t, thread, Null) /\ t # <<>>
  BY PathStops DEF Lists, ListPaths, ListBlocks, ListEnd, Rest, InLoop
<1>2. /\ thread \in Blocks /\ thread = t[1] /\ t = <<thread>> \o Tail(t)
      /\ Path(next, Tail(t), next[thread], Null)
      /\ Members(Tail(t)) = Members(t) \ {thread} /\ thread \in Members(t)
  BY <1>1, PathTail DEF Blocks
<1>3. next[thread] = Null \/ next[thread] \in Members(Tail(t))
  BY <1>2, PathStops
<1> QED BY <1>1, <1>2, <1>3, ListFacts

\* destroy_thread takes the thread out of the list and frees it.
LEMMA RejectLists ==
  ASSUME Inv, NEW k, NEW t, NEW f, Lists(k, t, f), Reject,
         NEW g, g = <<thread>> \o f
  PROVE  Lists(k, Tail(t), g)'
<1>1. /\ pc \in InLoop /\ thread # Null /\ pc' = "thread" /\ Blocks' = Blocks
      /\ next' = [x \in Blocks |-> IF x = thread THEN freelist
                                   ELSE IF x = prev THEN next[thread] ELSE next[x]]
      /\ head' = (IF prev = Null THEN next[thread] ELSE head)
      /\ freelist' = thread /\ thread' = next[thread] /\ prev' = prev
      /\ region' = [region EXCEPT ![thread] = "free"] /\ matched' = matched
  BY DEF Reject, Stepping, InLoop, Inv, Pool, Place, stepFrame, Blocks
<1>F. Lists(k, t, f) /\ DOMAIN next = Blocks /\ DOMAIN next' = Blocks
  BY <1>1 DEF Blocks
<1>2. /\ t # <<>> /\ thread \in Blocks /\ Path(next, Tail(t), next[thread], Null)
      /\ Members(Tail(t)) = Members(t) \ {thread} /\ thread \in Members(t)
      /\ next[thread] \notin Members(k) \cup {thread} \cup Members(f)
  BY <1>1, ThreadFirst
<1>3. /\ Null \notin Blocks /\ Members(k) \subseteq Blocks /\ Members(t) \subseteq Blocks
      /\ Members(f) \subseteq Blocks /\ region \in [Blocks -> Regions]
      /\ \A b \in Members(k) : b \notin Members(t) /\ b \notin Members(f)
      /\ \A b \in Members(t) : b \notin Members(f)
      /\ k # <<>> => k[Len(k)] \in Members(k)
  BY ListFacts
<1>4. /\ k # <<>> => prev = k[Len(k)] /\ prev # Null
      /\ k = <<>> => prev = Null
      /\ prev \notin Members(t) /\ prev \notin Members(f)
  BY <1>1, <1>3 DEF Lists, ListPaths, ListBlocks, ListEnd
<1>5. Path(next', k, head', thread')
  <2>1. Path(next, k, head, thread)
    BY <1>F DEF Lists, ListPaths
  <2>2. \A b \in Members(k) :
          next'[b] = IF b = k[Len(k)] THEN next[thread] ELSE next[b]
    BY <1>1, <1>2, <1>3, <1>4, PathNone
  <2>3. (k = <<>> => head' = next[thread]) /\ (k # <<>> => head' = head)
    BY <1>1, <1>4
  <2>4. next[thread] \notin Members(k) /\ DOMAIN next \subseteq DOMAIN next'
    BY <1>2, <1>F
  <2> QED BY <1>1, <2>1, <2>2, <2>3, <2>4, PathRedirect
<1>6. Path(next', Tail(t), thread', Null)
  <2>1. \A b \in Members(Tail(t)) : next'[b] = next[b]
    BY <1>1, <1>2, <1>3, <1>4
  <2> QED BY <1>1, <1>2, <1>F, <2>1, PathKept
<1>7. /\ Path(next', g, freelist', Null)
      /\ Members(g) = Members(f) \cup {thread}
  <2>1. \A b \in Members(f) : next'[b] = next[b]
    BY <1>1, <1>2, <1>3, <1>4
  <2>2. Path(next', f, freelist, Null)
    BY <1>F, <2>1, PathKept DEF Lists, ListPaths, ListBlocks, ListEnd
  <2>3. next'[thread] = freelist /\ thread \notin Members(f) /\ thread # Null
    BY <1>1, <1>2, <1>3
  <2> QED BY <1>1, <1>2, <1>F, <2>2, <2>3, PathCons
<1>8. /\ \A b \in Members(k) : region'[b] = "kept"
      /\ \A b \in Members(Tail(t)) : region'[b] = "todo"
      /\ \A b \in Members(g) : region'[b] = "free"
  BY <1>1, <1>2, <1>3, <1>7, <1>F DEF Lists, ListPaths, ListBlocks, ListEnd
<1>9. Blocks' = Members(k) \cup Members(Tail(t)) \cup Members(g)
                  \cup ({matched'} \ {Null})
  BY <1>1, <1>2, <1>7, <1>F DEF Lists, ListPaths, ListBlocks, ListEnd
<1>10. prev' = IF k = <<>> THEN Null ELSE k[Len(k)]
  BY <1>1, <1>4
<1>11. pc' \notin {"position", "return"} /\ Rest' = thread'
  BY <1>1 DEF Rest
<1>12. ListPaths(k, Tail(t), g)'
  BY <1>5, <1>6, <1>7, <1>11 DEF ListPaths
<1>13. ListBlocks(k, Tail(t), g)'
  BY <1>8, <1>9 DEF ListBlocks
<1>14. ListEnd(k)'
  BY <1>10, <1>11 DEF ListEnd
<1> QED BY <1>12, <1>13, <1>14 DEF Lists

\* The thread becomes the last of those that wait.
LEMMA ConsumeLists ==
  ASSUME Inv, NEW k, NEW t, NEW f, Lists(k, t, f), Consume,
         NEW g, g = Append(k, thread)
  PROVE  Lists(g, Tail(t), f)'
<1>1. /\ pc \in InLoop /\ thread # Null /\ pc' = "thread" /\ Blocks' = Blocks
      /\ next' = next /\ head' = head /\ freelist' = freelist /\ matched' = matched
      /\ thread' = next[thread] /\ prev' = thread
      /\ region' = [region EXCEPT ![thread] = "kept"]
  BY DEF Consume, Stepping, InLoop, Inv, Pool, Place, stepFrame, Blocks
<1>2. /\ t # <<>> /\ thread \in Blocks /\ Path(next, Tail(t), next[thread], Null)
      /\ Members(Tail(t)) = Members(t) \ {thread} /\ thread \in Members(t)
      /\ next[thread] \notin Members(k) \cup {thread} \cup Members(f)
  BY <1>1, ThreadFirst
<1>3. /\ region \in [Blocks -> Regions] /\ k \in Seq(Blocks)
      /\ Members(k) \subseteq Blocks /\ Members(t) \subseteq Blocks
      /\ Members(f) \subseteq Blocks
      /\ \A b \in Members(t) : b \notin Members(f)
  BY ListFacts
<1>4. /\ Path(next, g, head, next[thread])
      /\ Members(g) = Members(k) \cup {thread}
  <2>1. Path(next, k, head, thread) /\ thread \in DOMAIN next /\ DOMAIN next = Blocks
    BY <1>2 DEF Lists, ListPaths, Blocks
  <2>2. next[thread] # thread /\ next[thread] \notin Members(k)
    BY <1>2
  <2>3. /\ g \in Seq(Blocks) /\ Len(g) = Len(k) + 1 /\ g[Len(k) + 1] = thread
        /\ \A i \in 1 .. Len(k) : g[i] = k[i]
        /\ Members(g) = Members(k) \cup {thread}
    BY <1>2, <1>3, MembersAppend
  <2> QED BY <2>1, <2>2, <2>3, PathAppend
<1>5. /\ g # <<>>
      /\ g[Len(g)] = thread
  <2>1. /\ g \in Seq(Blocks) /\ Len(g) = Len(k) + 1
        /\ g[Len(k) + 1] = thread
    BY <1>2, <1>3, MembersAppend
  <2>2. Len(k) \in Nat
    BY <1>3
  <2> QED BY <2>1, <2>2, EmptySeq
<1>6. /\ \A b \in Members(g) : region'[b] = "kept"
      /\ \A b \in Members(Tail(t)) : region'[b] = "todo"
      /\ \A b \in Members(f) : region'[b] = "free"
  BY <1>1, <1>2, <1>3, <1>4 DEF Lists, ListPaths, ListBlocks, ListEnd
<1>7. Blocks' = Members(g) \cup Members(Tail(t)) \cup Members(f)
                  \cup ({matched'} \ {Null})
  BY <1>1, <1>2, <1>4 DEF Lists, ListPaths, ListBlocks, ListEnd
<1>8. Path(next', f, freelist', Null)
  BY <1>1 DEF Lists, ListPaths, ListBlocks, ListEnd
<1>9. pc' \notin {"position", "return"} /\ Rest' = thread'
  BY <1>1 DEF Rest
<1>10. Path(next', Tail(t), thread', Null) /\ Path(next', g, head', thread')
  BY <1>1, <1>2, <1>4
<1>11. prev' = IF g = <<>> THEN Null
               ELSE g[Len(g)]
  BY <1>1, <1>5
<1>12. ListPaths(g, Tail(t), f)'
  BY <1>8, <1>9, <1>10 DEF ListPaths
<1>13. ListBlocks(g, Tail(t), f)'
  BY <1>6, <1>7 DEF ListBlocks
<1>14. ListEnd(g)'
  BY <1>9, <1>11 DEF ListEnd
<1> QED BY <1>12, <1>13, <1>14 DEF Lists

-----------------------------------------------------------------------------
(* A match                                                                 *)

\* A search for a yes or no leaves the thread on the list.
LEMMA MatchBooleanLists ==
  ASSUME Inv, NEW k, NEW t, NEW f, Lists(k, t, f), MatchBoolean
  PROVE  Lists(k, t, f)'
<1>1. /\ pc = "step" /\ thread # Null /\ pc' = "finish" /\ Blocks' = Blocks
      /\ UNCHANGED <<next, region, head, freelist, thread, tail>>
      /\ matched' = thread /\ pc \in InLoop
  BY DEF MatchBoolean, InLoop, Inv, Pool, Place, Blocks, memVars, runVars
<1>2. matched = Null
  BY <1>1 DEF MatchBoolean, Inv, Pool, RootRegions
<1>3. thread \in Members(t)
  BY <1>1, ThreadFirst
<1> QED BY <1>1, <1>2, <1>3 DEF Lists, ListPaths, ListBlocks, ListEnd, Rest, InLoop

\* The thread leaves the list, and an earlier match is freed.
LEMMA MatchLists ==
  ASSUME Inv, NEW k, NEW t, NEW f, Lists(k, t, f), Match,
         NEW g, g = IF matched = Null THEN f ELSE <<matched>> \o f
  PROVE  Lists(k, Tail(t), g)'
<1>1. /\ pc \in InLoop /\ pc = "step" /\ thread # Null /\ pc' = "free" /\ Blocks' = Blocks
      /\ next' = [x \in Blocks |-> IF x = matched THEN freelist ELSE next[x]]
      /\ freelist' = (IF matched = Null THEN freelist ELSE matched)
      /\ region' = [x \in Blocks |-> IF x = thread THEN "matched"
                                     ELSE IF x = matched THEN "free" ELSE region[x]]
      /\ matched' = thread /\ tail' = next[thread] /\ n_pointers # 0
      /\ head' = head /\ thread' = thread /\ prev' = prev
  BY DEF Match, InLoop, Inv, Pool, Place, Blocks
<1>F. Lists(k, t, f) /\ DOMAIN next = Blocks /\ DOMAIN next' = Blocks
  BY <1>1 DEF Blocks
<1>2. /\ t # <<>> /\ thread \in Blocks /\ Path(next, Tail(t), next[thread], Null)
      /\ Members(Tail(t)) = Members(t) \ {thread} /\ thread \in Members(t)
  BY <1>1, ThreadFirst
<1>3. /\ Null \notin Blocks /\ Members(k) \subseteq Blocks /\ Members(t) \subseteq Blocks
      /\ Members(f) \subseteq Blocks /\ matched \in Blocks \cup {Null}
      /\ \A b \in Members(k) : b \notin Members(t) /\ b \notin Members(f)
      /\ \A b \in Members(t) : b \notin Members(f)
  BY ListFacts
<1>4. matched \notin Members(k) \cup Members(t) \cup Members(f)
  <2>1. matched # Null => region[matched] = "matched"
    BY <1>1, <1>3 DEF Inv, Pool, RootRegions
  <2> QED BY <1>3, <2>1 DEF Lists, ListPaths, ListBlocks, ListEnd
<1>5. Path(next', k, head', thread')
  BY <1>1, <1>3, <1>4, <1>F, PathKept DEF Lists, ListPaths, ListBlocks, ListEnd
<1>6. Path(next', Tail(t), tail', Null)
  BY <1>1, <1>2, <1>3, <1>4, <1>F, PathKept
<1>7. Path(next', f, freelist, Null)
  BY <1>1, <1>3, <1>4, <1>F, PathKept DEF Lists, ListPaths, ListBlocks, ListEnd
<1>8. /\ Path(next', g, freelist', Null)
      /\ Members(g) = Members(f) \cup ({matched} \ {Null})
  <2>1. CASE matched = Null
    BY <1>1, <1>7, <2>1
  <2>2. CASE matched # Null
    <3>1. next'[matched] = freelist /\ matched \in Blocks /\ freelist' = matched
      BY <1>1, <1>3, <2>2
    <3> QED BY <1>4, <1>7, <1>F, <2>2, <3>1, PathCons
  <2> QED BY <2>1, <2>2
<1>9. /\ \A b \in Members(k) : region'[b] = "kept"
      /\ \A b \in Members(Tail(t)) : region'[b] = "todo"
      /\ \A b \in Members(g) : region'[b] = "free"
  BY <1>1, <1>2, <1>3, <1>4, <1>8, <1>F DEF Lists, ListPaths, ListBlocks, ListEnd
<1>10. Blocks' = Members(k) \cup Members(Tail(t)) \cup Members(g) \cup ({matched'} \ {Null})
  BY <1>1, <1>2, <1>3, <1>8, <1>F DEF Lists, ListPaths, ListBlocks, ListEnd
<1>11. pc' \notin {"position", "return"} /\ prev' = IF k = <<>> THEN Null ELSE k[Len(k)]
  BY <1>1, <1>F DEF Lists, ListPaths, ListBlocks, ListEnd
<1>12. Rest' = tail'
  BY <1>1 DEF Rest
<1>13. ListPaths(k, Tail(t), g)'
  BY <1>5, <1>6, <1>8, <1>12 DEF ListPaths
<1>14. ListBlocks(k, Tail(t), g)'
  BY <1>9, <1>10 DEF ListBlocks
<1>15. ListEnd(k)'
  BY <1>11 DEF ListEnd
<1> QED BY <1>13, <1>14, <1>15 DEF Lists

\* One of the threads behind the match is freed.
LEMMA FreeTailLists ==
  ASSUME Inv, NEW k, NEW t, NEW f, Lists(k, t, f), FreeTail,
         NEW g, g = <<tail>> \o f
  PROVE  Lists(k, Tail(t), g)'
<1>1. /\ pc = "free" /\ pc' = "free" /\ tail # Null /\ Blocks' = Blocks
      /\ next' = [next EXCEPT ![tail] = freelist] /\ freelist' = tail
      /\ region' = [region EXCEPT ![tail] = "free"] /\ tail' = next[tail]
      /\ head' = head /\ thread' = thread /\ prev' = prev /\ matched' = matched
  BY DEF FreeTail, Blocks
<1>F. Lists(k, t, f) /\ DOMAIN next = Blocks /\ DOMAIN next' = Blocks
  BY <1>1 DEF Blocks
<1>2. /\ t # <<>> /\ tail \in Blocks /\ Path(next, Tail(t), next[tail], Null)
      /\ Members(Tail(t)) = Members(t) \ {tail} /\ tail \in Members(t)
  <2>1. Path(next, t, tail, Null)
    BY <1>1 DEF Lists, ListPaths, ListBlocks, ListEnd, Rest
  <2>2. t # <<>>
    BY <1>1, <2>1, PathStops
  <2> QED BY <1>F, <2>1, <2>2, PathTail
<1>3. /\ Members(k) \subseteq Blocks /\ Members(t) \subseteq Blocks
      /\ Members(f) \subseteq Blocks /\ region \in [Blocks -> Regions]
      /\ next \in [Blocks -> Blocks \cup {Null}]
      /\ \A b \in Members(k) : b \notin Members(t) /\ b \notin Members(f)
      /\ \A b \in Members(t) : b \notin Members(f)
  BY ListFacts
<1>4. Path(next', k, head', thread')
  BY <1>1, <1>2, <1>3, <1>F, PathKept DEF Lists, ListPaths, ListBlocks, ListEnd
<1>5. Path(next', Tail(t), tail', Null)
  BY <1>1, <1>2, <1>3, <1>F, PathKept
<1>6. /\ Path(next', g, freelist', Null)
      /\ Members(g) = Members(f) \cup {tail}
  <2>1. Path(next', f, freelist, Null)
    BY <1>1, <1>2, <1>3, <1>F, PathKept DEF Lists, ListPaths, ListBlocks, ListEnd
  <2>2. next'[tail] = freelist /\ tail \notin Members(f)
    BY <1>1, <1>2, <1>3, <1>F
  <2>3. tail \in DOMAIN next' /\ tail # Null /\ freelist' = tail
    BY <1>1, <1>2, <1>F
  <2> QED BY <2>1, <2>2, <2>3, PathCons
<1>7. /\ \A b \in Members(k) : region'[b] = "kept"
      /\ \A b \in Members(Tail(t)) : region'[b] = "todo"
      /\ \A b \in Members(g) : region'[b] = "free"
  BY <1>1, <1>2, <1>3, <1>6, <1>F DEF Lists, ListPaths, ListBlocks, ListEnd
<1>8. Blocks' = Members(k) \cup Members(Tail(t)) \cup Members(g)
                  \cup ({matched'} \ {Null})
  BY <1>1, <1>2, <1>6, <1>F DEF Lists, ListPaths, ListBlocks, ListEnd
<1>9. /\ Rest' = tail' /\ pc' \notin {"position", "return"}
      /\ prev' = IF k = <<>> THEN Null ELSE k[Len(k)]
  BY <1>1 DEF Lists, ListPaths, ListBlocks, ListEnd, Rest
<1>10. ListPaths(k, Tail(t), g)'
  BY <1>4, <1>5, <1>6, <1>9 DEF ListPaths
<1>11. ListBlocks(k, Tail(t), g)'
  BY <1>7, <1>8 DEF ListBlocks
<1>12. ListEnd(k)'
  BY <1>9 DEF ListEnd
<1> QED BY <1>10, <1>11, <1>12 DEF Lists

\* The list is cut before the match, which is no longer on it.
LEMMA CutListLists ==
  ASSUME Inv, NEW k, NEW t, NEW f, Lists(k, t, f), CutList
  PROVE  Lists(k, <<>>, f)'
<1>1. /\ pc = "free" /\ pc' = "return" /\ tail = Null /\ Blocks' = Blocks
      /\ next' = [x \in Blocks |-> IF x = prev THEN Null ELSE next[x]]
      /\ head' = (IF prev = Null THEN Null ELSE head)
      /\ freelist' = freelist /\ region' = region /\ thread' = Null
      /\ matched' = matched
  BY DEF CutList, Blocks
<1>F. Lists(k, t, f) /\ DOMAIN next = Blocks /\ DOMAIN next' = Blocks
  BY <1>1 DEF Blocks
<1>2. t = <<>> /\ Members(<<>>) = {} /\ Path(next', <<>>, Null, Null)
  BY <1>1, PathStops, PathNone DEF Lists, ListPaths, ListBlocks, ListEnd, Rest
<1>3. /\ Members(k) \subseteq Blocks /\ Members(f) \subseteq Blocks
      /\ Null \notin Blocks
      /\ k # <<>> => k[Len(k)] \in Members(k)
      /\ \A b \in Members(k) : b \notin Members(f)
  BY ListFacts
<1>4. /\ k # <<>> => prev = k[Len(k)] /\ prev # Null
      /\ k = <<>> => prev = Null
      /\ prev \notin Members(f)
  <2>1. prev = IF k = <<>> THEN Null ELSE k[Len(k)]
    BY <1>1 DEF Lists, ListPaths, ListBlocks, ListEnd
  <2> QED BY <1>3, <2>1
<1>5. Path(next', k, head', Null)
  <2>1. Path(next, k, head, thread) /\ Null \notin Members(k)
    BY <1>3 DEF Lists, ListPaths
  <2>2. \A b \in Members(k) : next'[b] = IF b = k[Len(k)] THEN Null ELSE next[b]
    BY <1>1, <1>3, <1>4, PathNone
  <2>3. (k = <<>> => head' = Null) /\ (k # <<>> => head' = head)
    BY <1>1, <1>4
  <2> QED BY <1>F, <2>1, <2>2, <2>3, PathRedirect
<1>6. Path(next', f, freelist', Null)
  BY <1>1, <1>3, <1>4, <1>F, PathKept DEF Lists, ListPaths, ListBlocks, ListEnd
<1> QED BY <1>1, <1>2, <1>5, <1>6 DEF Lists, ListPaths, ListBlocks, ListEnd, Rest, InLoop

-----------------------------------------------------------------------------
(* Steps that take memory                                                  *)

\* The block comes from the free list, or was not there before.
LEMMA TakeBlock ==
  ASSUME Inv, pc \in InLoop, VmAlloc(ThreadSize), NEW h, h = NewHandle(ThreadSize),
         NEW k, NEW t, NEW f, Lists(k, t, f)
  PROVE  /\ h \notin Members(k) \cup Members(t) \cup {matched, prev, Null}
         /\ \E g : /\ Path(next, g, freelist', Null) /\ h \notin Members(g)
                   /\ Members(f) \cup {h} = Members(g) \cup {h}
                   /\ Members(g) \subseteq Members(f)
<1>1. pc \notin Idle \cup {"flags"}
  BY DEF InLoop, Idle
<1>2. \/ h \in Blocks /\ h = freelist /\ freelist' = next[h]
      \/ h \notin Blocks /\ freelist' = freelist
  BY <1>1, AllocHandle
<1>3. h \notin {Null, thread, prev, head, matched}
  BY NewBlock
<1>4. Path(next, f, freelist, Null) /\ DOMAIN next = Blocks
  BY DEF Lists, ListPaths, Blocks
<1>5. /\ Members(k) \subseteq Blocks /\ Members(t) \subseteq Blocks
      /\ Members(f) \subseteq Blocks
      /\ \A b \in Members(k) : b \notin Members(t) /\ b \notin Members(f)
      /\ \A b \in Members(t) : b \notin Members(f)
  BY ListFacts
<1>6. h \notin Members(k) \cup Members(t) \cup {matched, prev, Null}
  BY <1>2, <1>3, <1>4, <1>5, PathStops
<1>7. CASE h \in Blocks
  <2>1. f # <<>> /\ freelist = h
    BY <1>2, <1>3, <1>4, <1>7, PathStops
  <2>2. /\ Path(next, Tail(f), next[h], Null)
        /\ Members(Tail(f)) = Members(f) \ {h} /\ h \in Members(f)
    BY <1>4, <2>1, PathTail
  <2> QED BY <1>2, <1>6, <1>7, <2>2
<1>8. CASE h \notin Blocks
  <2>1. Path(next, f, freelist', Null) /\ h \notin Members(f)
    BY <1>2, <1>4, <1>5, <1>8
  <2> QED BY <1>6, <2>1
<1> QED BY <1>6, <1>7, <1>8

\* vm_alloc cuts a block from the buffer only when there is none like it.
LEMMA TakeSize ==
  ASSUME Inv, Sized, pc \in InLoop, pc' \in InLoop, VmAlloc(ThreadSize), UNCHANGED args,
         Blocks' = Blocks \cup {NewHandle(ThreadSize)}
  PROVE  Sized'
<1> DEFINE h == NewHandle(ThreadSize)
<1>1. pc \notin Idle \cup {"flags"} /\ pc' \notin Idle \cup {"flags"}
  BY DEF InLoop, Idle
<1>2. /\ ThreadSize \in Nat /\ ThreadSize' = ThreadSize /\ ThreadSize > 0
      /\ FlagWords \in Nat /\ FlagWords' = FlagWords /\ bump \in Nat
  BY Sizes DEF Inv, TypeOK, args, ThreadSize, FlagWords
<1>3. /\ IsFiniteSet(Blocks) /\ Cardinality(Blocks) \in Nat
      /\ bump = FlagWords + ThreadSize * Cardinality(Blocks)
  BY <1>1, FS_CardinalityType DEF Sized, Running
<1>4. \/ h \in Blocks /\ bump' = bump
      \/ h \notin Blocks /\ bump' = bump + ThreadSize
  <2>1. CASE FromFreelist(ThreadSize)
    BY <2>1 DEF FromFreelist, NewHandle, Inv, TypeOK, Handles
  <2>2. CASE FromBump(ThreadSize) \/ FromNewBuffer(ThreadSize)
    <3>1. h = bump /\ bump' = bump + ThreadSize
      BY <2>2 DEF FromBump, FromNewBuffer, NewHandle
    <3>2. \A b \in Blocks : b \in Nat /\ b + ThreadSize <= bump
      BY DEF Inv, TypeOK, Memory, BlocksDisjoint
    <3> QED BY <1>2, <3>1, <3>2
  <2> QED BY <2>1, <2>2 DEF VmAlloc
<1> HIDE DEF h
<1>5. Blocks' = Blocks \cup {h}
  BY DEF h
<1>6. /\ IsFiniteSet(Blocks')
      /\ Cardinality(Blocks') = IF h \in Blocks THEN Cardinality(Blocks)
                                ELSE Cardinality(Blocks) + 1
  BY <1>3, <1>5, FS_AddElement
<1>7. bump' = FlagWords + ThreadSize * Cardinality(Blocks')
  <2>1. CASE h \in Blocks
    BY <1>3, <1>4, <1>6, <2>1
  <2>2. CASE h \notin Blocks
    <3> DEFINE n == Cardinality(Blocks)
    <3>1. ThreadSize * (n + 1) = ThreadSize * n + ThreadSize
      <4> HIDE DEF n
      <4>1. \A x, y \in Nat : x * (y + 1) = x * y + x
        OBVIOUS
      <4>2. n \in Nat
        BY <1>3 DEF n
      <4> QED BY <1>2, <4>1, <4>2
    <3>2. ThreadSize * n \in Nat
      BY <1>2, <1>3
    <3> QED BY <1>2, <1>3, <1>4, <1>6, <2>2, <3>1, <3>2
  <2> QED BY <2>1, <2>2
<1> QED BY <1>1, <1>2, <1>6, <1>7 DEF Sized, Running

\* spawn_thread puts the block behind prev_thread, at the end of the list.
LEMMA SpawnLists ==
  ASSUME Inv, NEW k, NEW t, NEW f, Lists(k, t, f), Spawn,
         NEW h, h = NewHandle(ThreadSize)
  PROVE  \E g : Lists(k, <<h>>, g)'
<1>1. /\ pc \in InLoop /\ pc' = "step" /\ thread = Null /\ matched = Null
      /\ VmAlloc(ThreadSize) /\ thread' = h /\ prev' = prev /\ matched' = matched
      /\ next' = [x \in Blocks \cup {h} |->
                   IF x = h THEN Null ELSE IF x = prev THEN h ELSE next[x]]
      /\ region' = Put(region, h, "todo")
      /\ head' = (IF prev = Null THEN h ELSE head)
  BY DEF Spawn, MaySpawn, InLoop
<1>2. /\ DOMAIN next = Blocks /\ DOMAIN next' = Blocks \cup {h}
      /\ Blocks' = Blocks \cup {h}
  BY <1>1 DEF Blocks
<1>0. /\ h \notin Members(k) \cup Members(t) \cup {matched, prev, Null}
      /\ \E g : /\ Path(next, g, freelist', Null) /\ h \notin Members(g)
                /\ Members(f) \cup {h} = Members(g) \cup {h}
                /\ Members(g) \subseteq Members(f)
  BY <1>1, TakeBlock
<1>3. PICK g : /\ Path(next, g, freelist', Null) /\ h \notin Members(g)
               /\ Members(f) \cup {h} = Members(g) \cup {h}
               /\ Members(g) \subseteq Members(f)
  BY <1>0
<1>4. /\ Null \notin Blocks /\ region \in [Blocks -> Regions]
      /\ Members(k) \subseteq Blocks /\ Members(f) \subseteq Blocks
      /\ \A b \in Members(k) : b \notin Members(f)
      /\ k # <<>> => k[Len(k)] \in Members(k)
  BY ListFacts
<1>5. t = <<>> /\ Members(t) = {}
  <2>1. t = <<>>
    BY <1>1, PathStops DEF Lists, ListPaths, Rest, InLoop
  <2> QED BY <2>1, PathNone
<1>6. /\ prev = IF k = <<>> THEN Null ELSE k[Len(k)]
      /\ k # <<>> => prev = k[Len(k)]
      /\ prev = Null <=> k = <<>>
  <2>1. prev = IF k = <<>> THEN Null ELSE k[Len(k)]
    BY <1>1 DEF Lists, ListEnd
  <2> QED BY <1>4, <2>1
<1>7. Path(next', k, head', h)
  <2>1. Path(next, k, head, thread)
    BY DEF Lists, ListPaths
  <2>2. \A b \in Members(k) : next'[b] = IF b = k[Len(k)] THEN h ELSE next[b]
    BY <1>1, <1>0, <1>3, <1>4, <1>6, PathNone
  <2>3. DOMAIN next \subseteq DOMAIN next' /\ h \notin Members(k)
    BY <1>0, <1>2
  <2>4. (k = <<>> => head' = h) /\ (k # <<>> => head' = head)
    BY <1>1, <1>6
  <2> QED BY <2>1, <2>2, <2>3, <2>4, PathRedirect
<1>8. Path(next', <<h>>, h, Null) /\ Members(<<h>>) = {h}
  <2>1. next'[h] = Null /\ h \in DOMAIN next' /\ h # Null
    BY <1>0, <1>1, <1>2
  <2> QED BY <2>1, PathOne
<1>9. Path(next', g, freelist', Null)
  <2>1. \A b \in Members(g) : next'[b] = next[b]
    BY <1>1, <1>0, <1>3, <1>4, <1>6
  <2> QED BY <1>2, <1>0, <1>3, <2>1, PathKept
<1>10. ListPaths(k, <<h>>, g)'
  <2>1. Rest' = h
    BY <1>1 DEF Rest
  <2> QED BY <1>1, <1>7, <1>8, <1>9, <2>1 DEF ListPaths
<1>11. \A b \in Blocks \cup {h} : region'[b] = IF b = h THEN "todo" ELSE region[b]
  BY <1>1, <1>4 DEF Put
<1>12. ListBlocks(k, <<h>>, g)'
  <2>1. /\ \A b \in Members(k) : region'[b] = "kept"
        /\ \A b \in Members(<<h>>) : region'[b] = "todo"
        /\ \A b \in Members(g) : region'[b] = "free"
    BY <1>0, <1>3, <1>4, <1>8, <1>11 DEF Lists, ListBlocks
  <2>2. Blocks' = Members(k) \cup Members(<<h>>) \cup Members(g) \cup ({matched'} \ {Null})
    BY <1>1, <1>2, <1>0, <1>3, <1>5, <1>8 DEF Lists, ListBlocks
  <2> QED BY <2>1, <2>2 DEF ListBlocks
<1>13. ListEnd(k)'
  BY <1>1, <1>6 DEF ListEnd
<1> QED BY <1>10, <1>12, <1>13 DEF Lists

\* split_thread puts the block behind the running thread.
LEMMA SplitLists ==
  ASSUME Inv, NEW k, NEW t, NEW f, Lists(k, t, f), Split,
         NEW h, h = NewHandle(ThreadSize),
         NEW u, u = <<h>> \o Tail(t), NEW v, v = <<thread>> \o u
  PROVE  \E g : Lists(k, v, g)'
<1>1. /\ pc \in InLoop /\ pc' = "step" /\ thread # Null
      /\ VmAlloc(ThreadSize) /\ thread' = thread /\ prev' = prev /\ matched' = matched
      /\ next' = [x \in Blocks \cup {h} |->
                   IF x = h THEN next[thread] ELSE IF x = thread THEN h ELSE next[x]]
      /\ region' = Put(region, h, "todo") /\ head' = head
  BY DEF Split, Stepping, InLoop, Inv, Pool, Place
<1>2. /\ DOMAIN next = Blocks /\ DOMAIN next' = Blocks \cup {h}
      /\ Blocks' = Blocks \cup {h}
  BY <1>1 DEF Blocks
<1>0. /\ h \notin Members(k) \cup Members(t) \cup {matched, prev, Null}
      /\ \E g : /\ Path(next, g, freelist', Null) /\ h \notin Members(g)
                /\ Members(f) \cup {h} = Members(g) \cup {h}
                /\ Members(g) \subseteq Members(f)
  BY <1>1, TakeBlock
<1>3. PICK g : /\ Path(next, g, freelist', Null) /\ h \notin Members(g)
               /\ Members(f) \cup {h} = Members(g) \cup {h}
               /\ Members(g) \subseteq Members(f)
  BY <1>0
<1>4. /\ Null \notin Blocks /\ region \in [Blocks -> Regions]
      /\ Members(k) \subseteq Blocks /\ Members(f) \subseteq Blocks
      /\ Members(t) \subseteq Blocks
      /\ \A b \in Members(k) : b \notin Members(f) /\ b \notin Members(t)
      /\ \A b \in Members(t) : b \notin Members(f)
  BY ListFacts
<1>5. /\ t # <<>> /\ thread \in Blocks /\ Path(next, Tail(t), next[thread], Null)
      /\ Members(Tail(t)) = Members(t) \ {thread} /\ thread \in Members(t)
  BY <1>1, ThreadFirst
<1>6. prev = IF k = <<>> THEN Null ELSE k[Len(k)]
  BY <1>1 DEF Lists, ListEnd
<1>7. Path(next', k, head', thread')
  <2>1. \A b \in Members(k) : next'[b] = next[b]
    BY <1>1, <1>0, <1>3, <1>4, <1>5
  <2> QED BY <1>1, <1>2, <2>1, PathKept DEF Lists, ListPaths
<1>8. Path(next', u, h, Null) /\ Members(u) = Members(Tail(t)) \cup {h}
  <2>1. \A b \in Members(Tail(t)) : next'[b] = next[b]
    BY <1>1, <1>0, <1>3, <1>4, <1>5
  <2>2. Path(next', Tail(t), next[thread], Null)
    BY <1>2, <1>5, <2>1, PathKept
  <2>3. next'[h] = next[thread] /\ h \in DOMAIN next' /\ h # Null /\ h \notin Members(Tail(t))
    BY <1>1, <1>2, <1>0, <1>3, <1>5
  <2> QED BY <2>2, <2>3, PathCons
<1>9. Path(next', v, thread, Null) /\ Members(v) = Members(t) \cup {h}
  <2>1. /\ next'[thread] = h /\ thread \in DOMAIN next' /\ thread # Null
        /\ thread \notin Members(u)
    BY <1>1, <1>2, <1>0, <1>3, <1>5, <1>8
  <2>2. Path(next', v, thread, Null) /\ Members(v) = Members(u) \cup {thread}
    BY <1>8, <2>1, PathCons
  <2> QED BY <1>5, <1>8, <2>2
<1>10. Path(next', g, freelist', Null)
  <2>1. \A b \in Members(g) : next'[b] = next[b]
    BY <1>1, <1>0, <1>3, <1>4, <1>5
  <2> QED BY <1>2, <1>0, <1>3, <2>1, PathKept
<1>11. ListPaths(k, v, g)'
  <2>1. Rest' = thread'
    BY <1>1 DEF Rest
  <2> QED BY <1>1, <1>7, <1>9, <1>10, <2>1 DEF ListPaths
<1>12. \A b \in Blocks \cup {h} : region'[b] = IF b = h THEN "todo" ELSE region[b]
  BY <1>1, <1>4 DEF Put
<1>13. ListBlocks(k, v, g)'
  <2>1. /\ \A b \in Members(k) : region'[b] = "kept"
        /\ \A b \in Members(v) : region'[b] = "todo"
        /\ \A b \in Members(g) : region'[b] = "free"
    BY <1>0, <1>3, <1>4, <1>9, <1>12 DEF Lists, ListBlocks
  <2>2. Blocks' = Members(k) \cup Members(v) \cup Members(g) \cup ({matched'} \ {Null})
    BY <1>1, <1>2, <1>0, <1>3, <1>9 DEF Lists, ListBlocks
  <2> QED BY <2>1, <2>2 DEF ListBlocks
<1>14. ListEnd(k)'
  BY <1>1, <1>6 DEF ListEnd
<1> QED BY <1>11, <1>13, <1>14 DEF Lists

-----------------------------------------------------------------------------
(* The invariant is preserved                                              *)

\* What a step does to the size when vm_alloc is not called.
LEMMA StepSize ==
  ASSUME Inv, Sized, Next, ~AllocFlags, ~Spawn, ~Split
  PROVE  Sized'
<1>1. CASE Client
  BY <1>1 DEF Client, CreateContext, DestroyContext, Call, Sized, Running, Idle
<1>2. CASE Return \/ NoMemory
  BY <1>2 DEF Return, NoMemory, Sized, Running, Idle
<1>3. CASE EnterPosition \/ Resume \/ EndOfThreads \/ NextCharacter
  BY <1>3, SameSize
  DEF EnterPosition, Resume, EndOfThreads, NextCharacter, Running, Idle, Blocks,
      vmVars, poolVars, memVars
<1>4. CASE Reject \/ Consume \/ Advance \/ TestAndSetFlag \/ WritePointer
  BY <1>4, SameSize
  DEF Reject, Consume, Advance, TestAndSetFlag, WritePointer, Running, Idle, Blocks,
      Stepping, stepFrame, poolVars, memVars
<1>5. CASE MatchBoolean \/ Match \/ FreeTail \/ CutList
  BY <1>5, SameSize
  DEF MatchBoolean, Match, FreeTail, CutList, Running, Idle, Blocks, poolVars, memVars
<1> QED BY <1>1, <1>2, <1>3, <1>4, <1>5 DEF Next, Run

\* The steps of the loop and around it that do not touch a list.
LEMMA StepSame ==
  ASSUME Inv, NEW k, NEW t, NEW f, Lists(k, t, f),
         Resume \/ EndOfThreads \/ Advance \/ TestAndSetFlag \/ WritePointer \/ NextCharacter
  PROVE  Lists(k, t, f)'
<1>1. pc = "return" => thread = Null
  BY DEF Lists, ListEnd
<1>2. /\ UNCHANGED <<next, region, head, freelist, matched, thread>>
      /\ pc # "free" /\ pc' # "free"
      /\ pc' \in InLoop => pc \in InLoop /\ prev' = prev
      /\ pc' \in {"position", "return"} => thread = Null
  BY <1>1
  DEF Resume, EndOfThreads, Advance, TestAndSetFlag, WritePointer, NextCharacter,
      vmVars, runVars, poolVars, memVars, stepFrame, Stepping, InLoop
<1> QED BY <1>2, SameLists

\* Whatever happens while a call runs, the lists stay lists.
LEMMA StepLists ==
  ASSUME ListInv, Next, Running'
  PROVE  \E k, t, f : Lists(k, t, f)'
<1>1. CASE AllocFlags
  BY <1>1, AllocFlagsLists DEF ListInv
<1>2. CASE Client \/ Return \/ NoMemory
  BY <1>2 DEF Client, CreateContext, DestroyContext, Call, Return, NoMemory, Running, Idle
<1>3. CASE ~(AllocFlags \/ Client \/ Return \/ NoMemory)
  <2>1. Running
    BY <1>3
    DEF Next, Run, EnterPosition, Spawn, Resume, EndOfThreads, Reject, Consume, Advance,
        TestAndSetFlag, WritePointer, Split, MatchBoolean, Match, FreeTail, CutList,
        NextCharacter, Running, Idle, Stepping
  <2>2. PICK k, t, f : Lists(k, t, f)
    BY <2>1 DEF ListInv
  <2>3. Inv
    BY DEF ListInv
  <2>4. CASE EnterPosition
    <3>1. CASE pc' = "finish"
      BY <2>2, <2>3, <2>4, <3>1, EnterPositionLists
    <3>2. CASE pc' # "finish"
      BY <2>2, <2>3, <2>4, <3>2, EnterPositionLists
    <3> QED BY <3>1, <3>2
  <2>5. CASE Spawn
    BY <2>2, <2>3, <2>5, SpawnLists
  <2>6. CASE Split
    BY <2>2, <2>3, <2>6, SplitLists
  <2>7. CASE Reject
    BY <2>2, <2>3, <2>7, RejectLists
  <2>8. CASE Consume
    BY <2>2, <2>3, <2>8, ConsumeLists
  <2>9. CASE MatchBoolean
    BY <2>2, <2>3, <2>9, MatchBooleanLists
  <2>10. CASE Match
    BY <2>2, <2>3, <2>10, MatchLists
  <2>11. CASE FreeTail
    BY <2>2, <2>3, <2>11, FreeTailLists
  <2>12. CASE CutList
    BY <2>2, <2>3, <2>12, CutListLists
  <2>13. CASE Resume \/ EndOfThreads \/ Advance \/ TestAndSetFlag \/ WritePointer
              \/ NextCharacter
    BY <2>2, <2>3, <2>13, StepSame
  <2> QED BY <1>3, <2>4, <2>5, <2>6, <2>7, <2>8, <2>9, <2>10, <2>11, <2>12, <2>13
          DEF Next, Run
<1> QED BY <1>1, <1>2, <1>3

\* And the pool stays as large as its blocks.
LEMMA ListInvPreserved == ListInv /\ [Next]_vars => ListInv'
<1> SUFFICES ASSUME ListInv, [Next]_vars PROVE ListInv'
  OBVIOUS
<1>1. Inv /\ Sized /\ Inv'
  BY InvPreserved DEF ListInv
<1>2. CASE Next
  <2>1. Sized'
    <3>1. CASE AllocFlags
      BY <1>1, <3>1, AllocFlagsLists
    <3>2. CASE Spawn \/ Split
      <4>1. /\ pc \in InLoop /\ pc' \in InLoop /\ VmAlloc(ThreadSize) /\ UNCHANGED args
            /\ Blocks' = Blocks \cup {NewHandle(ThreadSize)}
        BY <3>2 DEF Spawn, Split, Stepping, InLoop, Blocks
      <4> QED BY <1>1, <4>1, TakeSize
    <3>3. CASE ~(AllocFlags \/ Spawn \/ Split)
      BY <1>1, <1>2, <3>3, StepSize
    <3> QED BY <3>1, <3>2, <3>3
  <2> QED BY <1>1, <1>2, <2>1, StepLists DEF ListInv
<1>3. CASE UNCHANGED vars
  BY <1>1, <1>3
  DEF vars, ListInv, Sized, Running, Lists, ListPaths, ListBlocks, ListEnd, Rest, Blocks,
      FlagWords, ThreadSize, args, poolVars, memVars, vmVars, runVars, heapVars
<1> QED BY <1>2, <1>3

\* The lists are lists in every reachable state.
LEMMA ListInvariance == Spec => []ListInv
<1>1. Init => ListInv
  BY InitInv DEF Init, ListInv, Sized, Running, Idle
<1>2. ListInv /\ [Next]_vars => ListInv'
  BY ListInvPreserved
<1> QED BY <1>1, <1>2, PTL DEF Spec

\* The lists as Segment reads them.
LEMMA ListsRead ==
  ASSUME IsFiniteSet(Blocks), NEW k, NEW t, NEW f, Lists(k, t, f)
  PROVE  Kept = k /\ Todo = t /\ Free = f
<1>1. /\ Path(next, k, head, thread) /\ Path(next, f, freelist, Null)
      /\ Path(next, t, Rest, Null) /\ IsFiniteSet(DOMAIN next)
  BY DEF Lists, ListPaths, Blocks
<1>2. Kept = k /\ Free = f
  BY <1>1, SegmentIs DEF Kept, Free
<1>3. Segment(next, Rest, Null) = t
  BY <1>1, SegmentIs
<1> QED BY <1>2, <1>3 DEF Todo, Rest

\* While a call runs every block is on one of the lists or is the match, and
\* the buffer is used for nothing else: vm_alloc, destroy_thread, split_thread
\* and on_match lose no block, whatever the program and the string.
THEOREM NothingIsLost == Spec => []NoBlockLost
<1>1. ListInv => NoBlockLost
  <2> SUFFICES ASSUME ListInv, Running PROVE NoBlockLost
    BY DEF NoBlockLost, Running
  <2>1. Sized /\ IsFiniteSet(Blocks)
    BY DEF ListInv, Sized
  <2>2. PICK k, t, f : Lists(k, t, f)
    BY DEF ListInv
  <2>3. Kept = k /\ Todo = t /\ Free = f
    BY <2>1, <2>2, ListsRead
  <2> QED BY <2>1, <2>2, <2>3 DEF NoBlockLost, Lists, ListBlocks, Sized
<1> QED BY <1>1, ListInvariance, PTL

-----------------------------------------------------------------------------
(* What the algorithm sees                                                 *)

\* The threads in the blocks.
Store == [h \in Blocks |-> ThreadAt(h)]

\* The lists as the algorithm's threads, wherever they are in a call.
Reading ==
  \A k, t, f : Running /\ Lists(k, t, f) =>
    /\ pc \in AtPosition => PikeKept = Along(Store, k)
    /\ pc \in InLoop => PikeTodo = Along(Store, t)
    /\ pc = "position" => PikeTodo = Along(Store, k)

\* A position only ends when it has had its thread or there is a match.
Ended == pc = "return" => spawned \/ matched # Null

MapInv == ListInv /\ Ended

\* A list of blocks, as a list of threads.
LEMMA AsThreadsIs ==
  ASSUME NEW s \in Seq(Blocks)
  PROVE  AsThreads(s) = Along(Store, s)
<1>1. \A i \in DOMAIN s : s[i] \in Blocks
  OBVIOUS
<1>2. \A i \in DOMAIN s : Store[s[i]] = ThreadAt(s[i])
  BY <1>1 DEF Store
<1> QED BY <1>2 DEF AsThreads, Along

\* The threads as they are read from the lists.
LEMMA ReadingNow == ListInv => Reading
<1> SUFFICES ASSUME ListInv, Running, NEW k, NEW t, NEW f, Lists(k, t, f)
             PROVE  /\ pc \in AtPosition => PikeKept = Along(Store, k)
                    /\ pc \in InLoop => PikeTodo = Along(Store, t)
                    /\ pc = "position" => PikeTodo = Along(Store, k)
  BY DEF Reading
<1>1. IsFiniteSet(Blocks)
  BY DEF ListInv, Sized
<1>2. Kept = k /\ Todo = t
  BY <1>1, ListsRead
<1>3. k \in Seq(Blocks) /\ t \in Seq(Blocks)
  BY ListFacts DEF ListInv
<1>4. AsThreads(k) = Along(Store, k) /\ AsThreads(t) = Along(Store, t)
  BY <1>3, AsThreadsIs
<1>5. pc = "position" => pc \notin InLoop
  BY DEF InLoop
<1> QED BY <1>2, <1>4, <1>5 DEF PikeKept, PikeTodo

\* And after a step.
LEMMA ReadingNext == ListInv' => Reading'
BY ReadingNow, PTL

\* EndOfThreads and CutList are the ways to the end of a position.
LEMMA EndedPreserved == Inv /\ Ended /\ [Next]_vars => Ended'
<1> SUFFICES ASSUME Inv, Ended, [Next]_vars, pc' = "return"
             PROVE  (spawned \/ matched # Null)'
  BY DEF Ended
<1>1. CASE EndOfThreads
  BY <1>1 DEF EndOfThreads, MaySpawn, vmVars
<1>2. CASE CutList
  BY <1>2 DEF CutList, Inv, Pool, Place
<1>3. CASE UNCHANGED vars
  BY <1>3 DEF vars, vmVars, runVars, Ended
<1>4. ~(Client \/ AllocFlags \/ EnterPosition \/ Spawn \/ Resume \/ Reject \/ Consume
         \/ MatchBoolean \/ Match \/ NextCharacter \/ Return \/ NoMemory)
  BY DEF Client, CreateContext, DestroyContext, Call, AllocFlags, EnterPosition, Spawn,
         Resume, Reject, Consume, MatchBoolean, Match, NextCharacter, Return, NoMemory
<1>5. ~(Advance \/ TestAndSetFlag \/ WritePointer \/ Split \/ FreeTail)
  BY DEF Advance, TestAndSetFlag, WritePointer, Split, FreeTail, Stepping
<1> QED BY <1>1, <1>2, <1>3, <1>4, <1>5 DEF Next, Run

\* What the mapping needs holds in every reachable state.
LEMMA MapInvariance == Spec => []MapInv
<1>1. Init => Ended
  BY DEF Init, Ended
<1>2. MapInv /\ [Next]_vars => Ended'
  BY EndedPreserved DEF MapInv, ListInv
<1>3. ListInv /\ Ended => MapInv
  BY DEF MapInv
<1>4. Init => ListInv
  BY InitInv DEF Init, ListInv, Sized, Running, Idle
<1>5. MapInv /\ [Next]_vars => MapInv'
  BY <1>2, ListInvPreserved DEF MapInv
<1> QED BY <1>1, <1>3, <1>4, <1>5, PTL DEF Spec

-----------------------------------------------------------------------------
(* Both modules read a program alike                                       *)

\* Instructions and characters.
LEMMA SameReading ==
  /\ \A c, i : Pike!After(c, i) = After(c, i)
  /\ \A c, i : Pike!Continuation(c, i) = Continuation(c, i)
  /\ \A c, i : Pike!SplitPointer(c, i) = SplitPointer(c, i)
  /\ \A t, p : Pike!CharAt(t, p) = CharAt(t, p)
  /\ \A t, p : Pike!CharBefore(t, p) = CharBefore(t, p)
  /\ Pike!EOF = EOF
<1>1. \A c, i : Pike!After(c, i) = After(c, i)
  BY DEF Pike!After, After
<1>2. \A c, i : Pike!Continuation(c, i) = Continuation(c, i)
  BY DEF Pike!Continuation, Continuation, Pike!After, After
<1>3. \A c, i : Pike!SplitPointer(c, i) = SplitPointer(c, i)
  BY DEF Pike!SplitPointer, SplitPointer, Pike!After, After
<1>4. \A t, p : Pike!CharAt(t, p) = CharAt(t, p)
  BY DEF Pike!CharAt, CharAt, Pike!EOF, EOF
<1>5. \A t, p : Pike!CharBefore(t, p) = CharBefore(t, p)
  BY DEF Pike!CharBefore, CharBefore, Pike!EOF, EOF
<1>6. Pike!EOF = EOF
  BY DEF Pike!EOF, EOF
<1> QED BY <1>1, <1>2, <1>3, <1>4, <1>5, <1>6

\* The tests.
LEMMA SameTests ==
  /\ \A r, i, c : Pike!Accepts(r, i, c) = Accepts(r, i, c)
  /\ \A o, b, c : Pike!AnchorHolds(o, b, c) = AnchorHolds(o, b, c)
  /\ Pike!ConsumeOps = ConsumeOps /\ Pike!AnchorOps = AnchorOps
  /\ Pike!SplitOps = SplitOps
<1>1. \A r, i, c : Pike!Accepts(r, i, c) = Accepts(r, i, c)
  BY DEF Pike!Accepts, Accepts, Pike!EOF, EOF
<1>2. \A o, b, c : Pike!AnchorHolds(o, b, c) = AnchorHolds(o, b, c)
  BY DEF Pike!AnchorHolds, AnchorHolds, Pike!EOF, EOF, Pike!IsWord, IsWord
<1>3. /\ Pike!ConsumeOps = ConsumeOps /\ Pike!AnchorOps = AnchorOps
      /\ Pike!SplitOps = SplitOps
  BY DEF Pike!ConsumeOps, ConsumeOps, Pike!AnchorOps, AnchorOps, Pike!SplitOps, SplitOps
<1> QED BY <1>1, <1>2, <1>3

\* Only jumps and eager splits lead anywhere but to the next instruction.
LEMMA GoesOn ==
  ASSUME NEW code, NEW i,
         code[i + 1].op \notin {"JUMP", "SPLIT_EAGER", "SPLIT_BACKWARDS_EAGER"}
  PROVE  Continuation(code, i) = After(code, i)
BY Zenon DEF Continuation

\* The pointers of no groups.
LEMMA NoPointers == NullPointers(0) = <<>>
<1> DEFINE z == [p \in 1 .. 0 |-> Null]
<1>1. z \in Seq({}) /\ Len(z) = 0
  OBVIOUS
<1>2. 0 .. 0 - 1 = 1 .. 0
  OBVIOUS
<1> HIDE DEF z
<1>3. z = <<>>
  BY <1>1, EmptySeq
<1> QED BY <1>2, <1>3 DEF NullPointers, z

-----------------------------------------------------------------------------
(* What a step leaves as it is                                             *)

\* The threads in the blocks that a step does not write.
LEMMA SameThreads ==
  ASSUME NEW s \in Seq(Blocks), Blocks \subseteq Blocks',
         \A b \in Members(s) : ThreadAt(b)' = ThreadAt(b)
  PROVE  Along(Store', s) = Along(Store, s)
<1>1. Members(s) \subseteq Blocks /\ s \in Seq(DOMAIN Store)
  BY MembersIs DEF Store
<1>2. \A b \in Members(s) : Store'[b] = Store[b]
  BY <1>1 DEF Store
<1> QED BY <1>1, <1>2, AlongSame

\* The threads other than the running one, when only that one is written.
LEMMA OtherThreads ==
  ASSUME Inv, pc \in InLoop, thread # Null, NEW k, NEW t, NEW f, Lists(k, t, f),
         Blocks \subseteq Blocks', thread' = thread \/ pc' # "step",
         \A b \in Blocks \ Members(f) :
           b # thread => instr'[b] = instr[b] /\ ptrs'[b] = ptrs[b]
  PROVE  /\ Along(Store', k) = Along(Store, k)
         /\ Along(Store', Tail(t)) = Along(Store, Tail(t))
<1>1. /\ k \in Seq(Blocks) /\ t \in Seq(Blocks) /\ t # <<>>
      /\ Members(k) \subseteq Blocks /\ Members(t) \subseteq Blocks
      /\ \A b \in Members(k) : b \notin Members(t) /\ b \notin Members(f)
      /\ \A b \in Members(t) : b \notin Members(f)
      /\ Members(Tail(t)) = Members(t) \ {thread} /\ thread \in Members(t)
  BY ListFacts, ThreadFirst
<1>2. Tail(t) \in Seq(Blocks)
  BY <1>1, SplitHead
<1>3. \A b \in Blocks \ Members(f) : b # thread => ThreadAt(b)' = ThreadAt(b)
  BY DEF ThreadAt
<1>4. \A b \in Members(k) \cup Members(Tail(t)) : ThreadAt(b)' = ThreadAt(b)
  BY <1>1, <1>3
<1> QED BY <1>1, <1>2, <1>4, SameThreads

-----------------------------------------------------------------------------
(* Steps of the running thread                                             *)

\* The running thread is the first that PikeVm has to run, and the same holds
\* of it.
LEMMA AtStep ==
  ASSUME ListInv, pc = "step", NEW k, NEW t, NEW f, Lists(k, t, f)
  PROVE  /\ PikeStatus = "threads" /\ PikeFlags = flags /\ PikeSpawned = spawned
         /\ PikeKept = Along(Store, k) /\ PikeTodo = Along(Store, t)
         /\ PikeTodo # <<>> /\ Tail(PikeTodo) = Along(Store, Tail(t))
         /\ Pike!Thread = [ip |-> ip, ptrs |-> ptrs[thread]]
         /\ Pike!Code = Code /\ Pike!Running /\ Pike!Instr = Instr
         /\ Pike!AtEnd <=> AtEnd
         /\ Pike!Dies <=> Dies
<1>1. /\ pc \in InLoop /\ pc \in AtPosition /\ Running /\ thread # Null /\ Inv
      /\ pc \notin Idle /\ pc \notin {"flags", "position"}
  BY DEF ListInv, Inv, Pool, Place, InLoop, AtPosition, Running, Idle
<1>2. /\ PikeStatus = "threads" /\ PikeFlags = flags
  BY <1>1 DEF PikeStatus, PikeFlags
<1>3. PikeSpawned = spawned
  <2>1. spawned \in BOOLEAN
    BY <1>1 DEF Inv, TypeOK
  <2> QED BY <1>1, <2>1 DEF PikeSpawned
<1>4. PikeKept = Along(Store, k) /\ PikeTodo = Along(Store, t)
  BY <1>1, ReadingNow DEF Reading
<1>5. t # <<>> /\ thread \in Blocks /\ thread = t[1]
  BY <1>1, ThreadFirst
<1>6. t \in Seq(DOMAIN Store)
  BY <1>1, ListFacts DEF Store
<1>7. /\ PikeTodo # <<>> /\ Head(PikeTodo) = Store[thread]
      /\ Tail(PikeTodo) = Along(Store, Tail(t))
  BY <1>4, <1>5, <1>6, AlongTail
<1>8. Pike!Thread = [ip |-> ip, ptrs |-> ptrs[thread]]
  BY <1>5, <1>7 DEF Pike!Thread, Store, ThreadAt
<1>9. Pike!Thread.ip = ip
  BY <1>8
<1>10. /\ Pike!Code = Code /\ Pike!Running
       /\ Pike!AtEnd <=> AtEnd
  <2>1. Pike!Code = Code
    BY DEF Pike!Code, Code
  <2> QED BY <1>2, <1>7, <1>9, <2>1 DEF Pike!Running, Pike!AtEnd, AtEnd
<1>11. Pike!Instr = Instr
  BY <1>9, <1>10 DEF Pike!Instr, Instr
<1>12. Pike!Dies <=> Dies
  BY <1>2, <1>9, <1>11, SameTests, SameReading DEF Pike!Dies, Dies, Pike!FlagTaken
<1> QED BY <1>2, <1>3, <1>4, <1>7, <1>8, <1>10, <1>11, <1>12

\* The match is not among the blocks that such a step writes.
LEMMA SameMatched ==
  ASSUME matched' = matched, matched # Null => ptrs'[matched] = ptrs[matched]
  PROVE  PikeMatched' = PikeMatched
BY DEF PikeMatched

\* A step at a position, as PikeVm sees it.
LEMMA AtPositionNext ==
  ASSUME ListInv', pc' \in {"thread", "step"}, NEW k, NEW t, NEW f, Lists(k, t, f)'
  PROVE  /\ PikeStatus' = "threads" /\ PikeFlags' = flags' /\ PikeSpawned' = spawned'
         /\ PikeKept' = Along(Store', k) /\ PikeTodo' = Along(Store', t)
<1>1. Running' /\ (pc \in AtPosition)' /\ (pc \in InLoop)'
  BY DEF Running, AtPosition, InLoop, Idle
<1>2. PikeKept' = Along(Store', k) /\ PikeTodo' = Along(Store', t)
  BY <1>1, ReadingNext DEF Reading
<1>3. PikeStatus' = "threads" /\ PikeFlags' = flags'
  BY <1>1 DEF PikeStatus, PikeFlags, AtPosition, InLoop, Idle
<1>4. PikeSpawned' = spawned'
  <2>1. spawned' \in BOOLEAN
    BY DEF ListInv, Inv, TypeOK
  <2> QED BY <1>1, <2>1 DEF PikeSpawned
<1> QED BY <1>2, <1>3, <1>4

\* destroy_thread is Reject.
LEMMA RejectMaps ==
  ASSUME ListInv, ListInv', Reject, NEW k, NEW t, NEW f, Lists(k, t, f)
  PROVE  Pike!Reject
<1>1. /\ pc = "step" /\ pc' = "thread" /\ Inv /\ pc \in InLoop /\ thread # Null
      /\ ~AtEnd /\ Dies
      /\ UNCHANGED <<args, pos, matched, spawned, result, flags, instr, ptrs>>
      /\ Blocks' = Blocks
  BY DEF ListInv, Reject, Stepping, stepFrame, Blocks, Inv, Pool, Place, InLoop
<1>2. PICK g : g = <<thread>> \o f
  OBVIOUS
<1>3. Lists(k, Tail(t), g)'
  BY <1>1, <1>2, RejectLists
<1>4. /\ PikeStatus' = "threads" /\ PikeFlags' = flags' /\ PikeSpawned' = spawned'
      /\ PikeKept' = Along(Store', k) /\ PikeTodo' = Along(Store', Tail(t))
  BY <1>1, <1>3, AtPositionNext
<1>5. /\ PikeStatus = "threads" /\ PikeFlags = flags /\ PikeSpawned = spawned
      /\ PikeKept = Along(Store, k) /\ Tail(PikeTodo) = Along(Store, Tail(t))
      /\ Pike!Running /\ ~Pike!AtEnd /\ Pike!Dies
  BY <1>1, AtStep
<1>6. Along(Store', k) = Along(Store, k) /\ Along(Store', Tail(t)) = Along(Store, Tail(t))
  BY <1>1, OtherThreads
<1>7. PikeMatched' = PikeMatched
  BY <1>1, SameMatched
<1> QED BY <1>1, <1>4, <1>5, <1>6, <1>7 DEF Pike!Reject, Pike!stepFrame, Pike!args, args

\* A thread that consumes waits behind those that wait already.
LEMMA ConsumeMaps ==
  ASSUME ListInv, ListInv', Consume, NEW k, NEW t, NEW f, Lists(k, t, f)
  PROVE  Pike!Consume
<1>1. /\ pc = "step" /\ pc' = "thread" /\ Inv /\ pc \in InLoop /\ thread # Null
      /\ ~AtEnd /\ ~Dies /\ Instr.op \in ConsumeOps
      /\ UNCHANGED <<args, pos, matched, spawned, result, flags, ptrs>>
      /\ Blocks' = Blocks
      /\ instr' = [instr EXCEPT ![thread] = After(Code, ip)]
  BY DEF ListInv, Consume, Stepping, stepFrame, Blocks, Inv, Pool, Place, InLoop
<1>2. PICK g : g = Append(k, thread)
  OBVIOUS
<1>3. Lists(g, Tail(t), f)'
  BY <1>1, <1>2, ConsumeLists
<1>4. /\ PikeStatus' = "threads" /\ PikeFlags' = flags' /\ PikeSpawned' = spawned'
      /\ PikeKept' = Along(Store', g) /\ PikeTodo' = Along(Store', Tail(t))
  BY <1>1, <1>3, AtPositionNext
<1>5. /\ PikeStatus = "threads" /\ PikeFlags = flags /\ PikeSpawned = spawned
      /\ PikeKept = Along(Store, k) /\ Tail(PikeTodo) = Along(Store, Tail(t))
      /\ Pike!Thread = [ip |-> ip, ptrs |-> ptrs[thread]] /\ Pike!Code = Code
      /\ Pike!Running /\ ~Pike!AtEnd /\ ~Pike!Dies /\ Pike!Instr = Instr
  BY <1>1, AtStep
<1>6. instr \in [Blocks -> Nat] /\ thread \in Blocks /\ k \in Seq(Blocks)
  BY <1>1, ThreadFirst, ListFacts DEF Inv, TypeOK
<1>7. Along(Store', k) = Along(Store, k) /\ Along(Store', Tail(t)) = Along(Store, Tail(t))
  BY <1>1, <1>6, OtherThreads
<1>8. Along(Store', g) = Append(Along(Store', k), Store'[thread])
  <2>1. k \in Seq(DOMAIN Store') /\ thread \in DOMAIN Store'
    BY <1>1, <1>6 DEF Store
  <2> QED BY <1>2, <2>1, AlongAppend
<1>9. Store'[thread] = Pike!Continues
  <2>1. Store'[thread] = [ip |-> After(Code, ip), ptrs |-> ptrs[thread]]
    BY <1>1, <1>6 DEF Store, ThreadAt
  <2>2. Continuation(Code, ip) = After(Code, ip)
    BY <1>1, GoesOn DEF Instr, ConsumeOps
  <2>3. Pike!Thread.ip = ip /\ Pike!Thread.ptrs = ptrs[thread]
    BY <1>5
  <2> QED BY <1>5, <2>1, <2>2, <2>3, SameReading DEF Pike!Continues, Pike!GoesOn
<1>10. PikeMatched' = PikeMatched
  BY <1>1, SameMatched
<1> QED BY <1>1, <1>4, <1>5, <1>7, <1>8, <1>9, <1>10, SameTests
        DEF Pike!Consume, Pike!stepFrame, Pike!args, args

\* The thread stays where it is on the list, and goes on.
LEMMA ThreadGoesOn ==
  ASSUME ListInv, ListInv', pc = "step", pc' = "step", thread' = thread,
         NEW k, NEW t, NEW f, Lists(k, t, f), Lists(k, t, f)', Blocks' = Blocks,
         \A b \in Blocks : b # thread => instr'[b] = instr[b] /\ ptrs'[b] = ptrs[b]
  PROVE  /\ PikeStatus' = "threads" /\ PikeFlags' = flags' /\ PikeSpawned' = spawned'
         /\ PikeKept' = PikeKept
         /\ PikeTodo' = <<[ip |-> ip', ptrs |-> ptrs'[thread]]>> \o Tail(PikeTodo)
<1>1. pc \in InLoop /\ thread # Null /\ Inv
  BY DEF ListInv, Inv, Pool, Place, InLoop
<1>2. /\ PikeStatus' = "threads" /\ PikeFlags' = flags' /\ PikeSpawned' = spawned'
      /\ PikeKept' = Along(Store', k) /\ PikeTodo' = Along(Store', t)
  BY AtPositionNext
<1>3. PikeKept = Along(Store, k) /\ Tail(PikeTodo) = Along(Store, Tail(t))
  BY AtStep
<1>4. /\ t # <<>> /\ t = <<thread>> \o Tail(t) /\ thread \in Blocks /\ t \in Seq(Blocks)
  BY <1>1, ThreadFirst, ListFacts
<1>5. Along(Store', k) = Along(Store, k) /\ Along(Store', Tail(t)) = Along(Store, Tail(t))
  BY <1>1, OtherThreads
<1>6. Along(Store', t) = <<Store'[thread]>> \o Along(Store', Tail(t))
  <2>1. Tail(t) \in Seq(Blocks)
    BY <1>4, SplitHead
  <2>2. Tail(t) \in Seq(DOMAIN Store') /\ thread \in DOMAIN Store'
    BY <1>4, <2>1 DEF Store
  <2> QED BY <1>4, <2>2, AlongCons
<1>7. Store'[thread] = [ip |-> ip', ptrs |-> ptrs'[thread]]
  BY <1>4 DEF Store, ThreadAt
<1> QED BY <1>2, <1>3, <1>5, <1>6, <1>7

\* Jumps and anchors.
LEMMA AdvanceMaps ==
  ASSUME ListInv, ListInv', Advance, NEW k, NEW t, NEW f, Lists(k, t, f)
  PROVE  Pike!Advance
<1>1. /\ pc = "step" /\ pc' = "step" /\ Inv /\ ~AtEnd /\ ~Dies
      /\ Instr.op \in AnchorOps \cup {"JUMP"} /\ ip' = Continuation(Code, ip)
      /\ UNCHANGED <<args, pos, matched, spawned, result, flags, instr, ptrs, thread>>
      /\ Blocks' = Blocks
  BY DEF ListInv, Advance, Stepping, stepFrame, Blocks, memVars
<1>2. Lists(k, t, f)'
  BY <1>1, StepSame
<1>3. /\ PikeStatus' = "threads" /\ PikeFlags' = flags' /\ PikeSpawned' = spawned'
      /\ PikeKept' = PikeKept
      /\ PikeTodo' = <<[ip |-> ip', ptrs |-> ptrs'[thread]]>> \o Tail(PikeTodo)
  BY <1>1, <1>2, ThreadGoesOn
<1>4. /\ PikeStatus = "threads" /\ PikeFlags = flags /\ PikeSpawned = spawned
      /\ Pike!Thread = [ip |-> ip, ptrs |-> ptrs[thread]] /\ Pike!Code = Code
      /\ Pike!Running /\ ~Pike!AtEnd /\ ~Pike!Dies /\ Pike!Instr = Instr
  BY <1>1, AtStep
<1>5. Pike!Continues = [ip |-> ip', ptrs |-> ptrs'[thread]]
  <2>1. Pike!Thread.ip = ip /\ Pike!Thread.ptrs = ptrs[thread]
    BY <1>4
  <2> QED BY <1>1, <1>4, <2>1, SameReading DEF Pike!Continues, Pike!GoesOn
<1>6. PikeMatched' = PikeMatched
  BY <1>1, SameMatched
<1> QED BY <1>1, <1>3, <1>4, <1>5, <1>6, SameTests
        DEF Pike!Advance, Pike!stepFrame, Pike!args, args

\* Flags that let the thread pass.
LEMMA TestAndSetFlagMaps ==
  ASSUME ListInv, ListInv', TestAndSetFlag, NEW k, NEW t, NEW f, Lists(k, t, f)
  PROVE  Pike!TestAndSetFlag
<1>1. /\ pc = "step" /\ pc' = "step" /\ Inv /\ ~AtEnd /\ ~Dies
      /\ Instr.op = "TEST_AND_SET_FLAG" /\ ip' = After(Code, ip)
      /\ flags' = flags \cup {Instr.operand}
      /\ UNCHANGED <<args, pos, matched, spawned, result, instr, ptrs, thread>>
      /\ Blocks' = Blocks
  BY DEF ListInv, TestAndSetFlag, Stepping, stepFrame, Blocks, memVars
<1>2. Lists(k, t, f)'
  BY <1>1, StepSame
<1>3. /\ PikeStatus' = "threads" /\ PikeFlags' = flags' /\ PikeSpawned' = spawned'
      /\ PikeKept' = PikeKept
      /\ PikeTodo' = <<[ip |-> ip', ptrs |-> ptrs'[thread]]>> \o Tail(PikeTodo)
  BY <1>1, <1>2, ThreadGoesOn
<1>4. /\ PikeStatus = "threads" /\ PikeFlags = flags /\ PikeSpawned = spawned
      /\ Pike!Thread = [ip |-> ip, ptrs |-> ptrs[thread]] /\ Pike!Code = Code
      /\ Pike!Running /\ ~Pike!AtEnd /\ ~Pike!Dies /\ Pike!Instr = Instr
  BY <1>1, AtStep
<1>5. Pike!Continues = [ip |-> ip', ptrs |-> ptrs'[thread]]
  <2>1. Pike!Thread.ip = ip /\ Pike!Thread.ptrs = ptrs[thread]
    BY <1>4
  <2>2. Continuation(Code, ip) = After(Code, ip)
    BY <1>1, GoesOn DEF Instr
  <2> QED BY <1>1, <1>4, <2>1, <2>2, SameReading DEF Pike!Continues, Pike!GoesOn
<1>6. PikeMatched' = PikeMatched
  BY <1>1, SameMatched
<1> QED BY <1>1, <1>3, <1>4, <1>5, <1>6
        DEF Pike!TestAndSetFlag, Pike!stepFrame, Pike!args, args

\* The running thread is not the match.
LEMMA ThreadNotMatched ==
  ASSUME Inv, pc \in InLoop, thread # Null
  PROVE  thread # matched
<1>1. region[thread] = "todo" /\ thread \in Blocks /\ pc # "finish"
  BY DEF Inv, Pool, Place, TypeOK, Handles, InLoop
<1> QED BY <1>1 DEF Inv, Pool, RootRegions

\* Pointers the caller did not ask for are not written.
LEMMA WritePointerMaps ==
  ASSUME ListInv, ListInv', WritePointer, NEW k, NEW t, NEW f, Lists(k, t, f)
  PROVE  Pike!WritePointer
<1>1. /\ pc = "step" /\ pc' = "step" /\ Inv /\ ~AtEnd /\ pc \in InLoop /\ thread # Null
      /\ Instr.op = "WRITE_POINTER" /\ ip' = After(Code, ip)
      /\ ptrs' = (IF Instr.operand < n_pointers
                  THEN [ptrs EXCEPT ![thread] = [@ EXCEPT ![Instr.operand] = pos]]
                  ELSE ptrs)
      /\ UNCHANGED <<args, pos, matched, spawned, result, flags, instr, thread>>
      /\ Blocks' = Blocks
  BY DEF ListInv, WritePointer, Stepping, stepFrame, Blocks, Inv, Pool, Place, InLoop
<1>2. Lists(k, t, f)'
  BY <1>1, StepSame
<1>3. /\ thread \in Blocks /\ DOMAIN ptrs = Blocks /\ thread # matched
      /\ matched \in Blocks \cup {Null}
  BY <1>1, ThreadNotMatched DEF Inv, TypeOK, Handles
<1>4. /\ \A b \in Blocks : b # thread => ptrs'[b] = ptrs[b]
      /\ ptrs'[thread] = IF Instr.operand < n_pointers
                         THEN [ptrs[thread] EXCEPT ![Instr.operand] = pos]
                         ELSE ptrs[thread]
  BY <1>1, <1>3
<1>5. /\ PikeStatus' = "threads" /\ PikeFlags' = flags' /\ PikeSpawned' = spawned'
      /\ PikeKept' = PikeKept
      /\ PikeTodo' = <<[ip |-> ip', ptrs |-> ptrs'[thread]]>> \o Tail(PikeTodo)
  BY <1>1, <1>2, <1>4, ThreadGoesOn
<1>6. /\ PikeStatus = "threads" /\ PikeFlags = flags /\ PikeSpawned = spawned
      /\ Pike!Thread = [ip |-> ip, ptrs |-> ptrs[thread]] /\ Pike!Code = Code
      /\ Pike!Running /\ ~Pike!AtEnd /\ Pike!Instr = Instr
  BY <1>1, AtStep
<1>7. /\ Pike!Thread.ip = ip /\ Pike!Thread.ptrs = ptrs[thread]
      /\ Pike!After(Pike!Code, Pike!Thread.ip) = ip'
  BY <1>1, <1>6, SameReading
<1>8. PikeMatched' = PikeMatched
  <2>1. matched # Null => ptrs'[matched] = ptrs[matched]
    BY <1>3, <1>4
  <2> QED BY <1>1, <2>1, SameMatched
<1> QED BY <1>1, <1>4, <1>5, <1>6, <1>7, <1>8
        DEF Pike!WritePointer, Pike!GoesOn, Pike!stepFrame, Pike!args, args

\* A recycled or a new block holds the thread that a split makes.
LEMMA SplitMaps ==
  ASSUME ListInv, ListInv', Split, NEW k, NEW t, NEW f, Lists(k, t, f)
  PROVE  Pike!Split
<1>1. PICK h : h = NewHandle(ThreadSize)
  OBVIOUS
<1>2. /\ pc = "step" /\ pc' = "step" /\ Inv /\ ~AtEnd /\ pc \in InLoop /\ thread # Null
      /\ Instr.op \in SplitOps /\ ip' = Continuation(Code, ip)
      /\ VmAlloc(ThreadSize) /\ Blocks' = Blocks \cup {h}
      /\ instr' = Put(instr, h, SplitPointer(Code, ip))
      /\ ptrs'  = Put(ptrs, h, ptrs[thread])
      /\ UNCHANGED <<args, pos, matched, spawned, result, flags, thread>>
  BY <1>1 DEF ListInv, Split, Stepping, Blocks, Inv, Pool, Place, InLoop
<1>3. PICK u : u = <<h>> \o Tail(t)
  OBVIOUS
<1>4. PICK v : v = <<thread>> \o u
  OBVIOUS
<1>5. PICK g : Lists(k, v, g)'
  BY <1>1, <1>2, <1>3, <1>4, SplitLists
<1>6. /\ PikeStatus' = "threads" /\ PikeFlags' = flags' /\ PikeSpawned' = spawned'
      /\ PikeKept' = Along(Store', k) /\ PikeTodo' = Along(Store', v)
  BY <1>2, <1>5, AtPositionNext
<1>7. /\ PikeStatus = "threads" /\ PikeFlags = flags /\ PikeSpawned = spawned
      /\ PikeKept = Along(Store, k) /\ Tail(PikeTodo) = Along(Store, Tail(t))
      /\ Pike!Thread = [ip |-> ip, ptrs |-> ptrs[thread]] /\ Pike!Code = Code
      /\ Pike!Running /\ ~Pike!AtEnd /\ Pike!Instr = Instr
  BY <1>2, AtStep
<1>8. h \notin Members(k) \cup Members(t) \cup {matched, prev, Null}
  BY <1>1, <1>2, TakeBlock
<1>9. /\ thread \in Blocks /\ matched \in Blocks \cup {Null} /\ h # thread
      /\ DOMAIN ptrs = Blocks /\ DOMAIN instr = Blocks
      /\ t # <<>> /\ t \in Seq(Blocks) /\ k \in Seq(Blocks)
      /\ Members(t) \subseteq Blocks /\ Members(k) \subseteq Blocks
      /\ Members(Tail(t)) \subseteq Members(t) /\ thread \notin Members(Tail(t))
      /\ thread \notin Members(k)
  <2>1. /\ t # <<>> /\ thread \in Blocks /\ thread \in Members(t)
        /\ Members(Tail(t)) = Members(t) \ {thread}
    BY <1>2, ThreadFirst
  <2>2. /\ t \in Seq(Blocks) /\ k \in Seq(Blocks)
        /\ Members(t) \subseteq Blocks /\ Members(k) \subseteq Blocks
        /\ \A b \in Members(k) : b \notin Members(t)
    BY <1>2, ListFacts
  <2>3. DOMAIN ptrs = Blocks /\ DOMAIN instr = Blocks /\ matched \in Blocks \cup {Null}
    BY <1>2 DEF Inv, TypeOK, Handles
  <2> QED BY <1>8, <2>1, <2>2, <2>3
<1>10. Tail(t) \in Seq(Blocks)
  BY <1>9, SplitHead
<1>11. /\ \A b \in Blocks : b # h => instr'[b] = instr[b] /\ ptrs'[b] = ptrs[b]
       /\ instr'[h] = SplitPointer(Code, ip) /\ ptrs'[h] = ptrs[thread]
  BY <1>2, <1>9 DEF Put
<1>12. Along(Store', k) = Along(Store, k) /\ Along(Store', Tail(t)) = Along(Store, Tail(t))
  <2>1. \A b \in Members(k) \cup Members(Tail(t)) : ThreadAt(b)' = ThreadAt(b)
    BY <1>2, <1>8, <1>9, <1>11 DEF ThreadAt
  <2> QED BY <1>2, <1>9, <1>10, <2>1, SameThreads
<1>13. Along(Store', v) = <<Store'[thread]>> \o (<<Store'[h]>> \o Along(Store', Tail(t)))
  <2>1. /\ Tail(t) \in Seq(DOMAIN Store') /\ thread \in DOMAIN Store'
        /\ h \in DOMAIN Store'
    BY <1>2, <1>9, <1>10, SeqMonotonic DEF Store
  <2>2. u \in Seq(DOMAIN Store')
    BY <1>3, <2>1, MembersCons
  <2>3. Along(Store', u) = <<Store'[h]>> \o Along(Store', Tail(t))
    BY <1>3, <2>1, AlongCons
  <2> QED BY <1>4, <2>1, <2>2, <2>3, AlongCons
<1>14. /\ Store'[thread] = Pike!Continues
       /\ Store'[h] = Pike!GoesOn(Pike!SplitPointer(Pike!Code, Pike!Thread.ip), Pike!Thread.ptrs)
  <2>1. Pike!Thread.ip = ip /\ Pike!Thread.ptrs = ptrs[thread]
    BY <1>7
  <2>2. /\ Store'[thread] = [ip |-> Continuation(Code, ip), ptrs |-> ptrs[thread]]
        /\ Store'[h] = [ip |-> SplitPointer(Code, ip), ptrs |-> ptrs[thread]]
    BY <1>2, <1>9, <1>11 DEF Store, ThreadAt
  <2> QED BY <1>7, <2>1, <2>2, SameReading DEF Pike!Continues, Pike!GoesOn
<1>15. PikeMatched' = PikeMatched
  <2>1. matched # Null => ptrs'[matched] = ptrs[matched]
    BY <1>8, <1>9, <1>11
  <2> QED BY <1>2, <2>1, SameMatched
<1>16. PikeTodo' = <<Store'[thread], Store'[h]>> \o Tail(PikeTodo)
  <2> DEFINE x == Store'[thread]
             y == Store'[h]
             T == {Store[b] : b \in DOMAIN Store} \cup {x, y}
  <2>1. Along(Store, Tail(t)) \in Seq({Store[b] : b \in DOMAIN Store})
    BY <1>10, AlongIs DEF Store
  <2>2. Along(Store, Tail(t)) \in Seq(T) /\ x \in T /\ y \in T
    BY <2>1, SeqMonotonic
  <2> HIDE DEF T, x, y
  <2>3. PikeTodo' = <<x>> \o (<<y>> \o Along(Store, Tail(t)))
    BY <1>6, <1>12, <1>13 DEF x, y
  <2>4. PikeTodo' = <<x, y>> \o Along(Store, Tail(t))
    BY <2>2, <2>3, ConsTwice
  <2> QED BY <1>7, <2>4 DEF x, y
<1> QED BY <1>2, <1>6, <1>7, <1>12, <1>14, <1>15, <1>16, SameTests
        DEF Pike!Split, Pike!stepFrame, Pike!args, args

\* A position's own thread comes last, and starts at the beginning.
LEMMA SpawnMaps ==
  ASSUME ListInv, ListInv', Spawn, NEW k, NEW t, NEW f, Lists(k, t, f)
  PROVE  Pike!Spawn
<1>1. PICK h : h = NewHandle(ThreadSize)
  OBVIOUS
<1>2. /\ pc = "thread" /\ pc' = "step" /\ Inv /\ pc \in InLoop /\ thread = Null
      /\ matched = Null /\ ~spawned /\ spawned' = TRUE /\ ip' = 0 /\ thread' = h
      /\ VmAlloc(ThreadSize) /\ Blocks' = Blocks \cup {h}
      /\ instr' = Put(instr, h, 0) /\ ptrs' = Put(ptrs, h, NullPointers(n_pointers))
      /\ UNCHANGED <<args, pos, matched, result, flags>>
  BY <1>1 DEF ListInv, Spawn, MaySpawn, Blocks, InLoop
<1>3. PICK g : Lists(k, <<h>>, g)'
  BY <1>1, <1>2, SpawnLists
<1>4. /\ PikeStatus' = "threads" /\ PikeFlags' = flags' /\ PikeSpawned' = TRUE
      /\ PikeKept' = Along(Store', k) /\ PikeTodo' = Along(Store', <<h>>)
  BY <1>2, <1>3, AtPositionNext
<1>5. /\ PikeStatus = "threads" /\ PikeFlags = flags /\ PikeSpawned = FALSE
      /\ PikeKept = Along(Store, k) /\ PikeTodo = <<>>
  <2>1. Running /\ pc \in AtPosition
    BY <1>2 DEF Running, AtPosition, InLoop, Idle
  <2>2. PikeKept = Along(Store, k) /\ PikeTodo = Along(Store, t)
    BY <1>2, <2>1, ReadingNow DEF Reading
  <2>3. t = <<>>
    BY <1>2, PathStops DEF Lists, ListPaths, Rest
  <2> QED BY <1>2, <2>1, <2>2, <2>3, AlongNone
          DEF PikeStatus, PikeFlags, PikeSpawned, Idle
<1>6. h \notin Members(k) \cup {matched, prev, Null}
  BY <1>1, <1>2, TakeBlock
<1>7. /\ DOMAIN ptrs = Blocks /\ DOMAIN instr = Blocks /\ k \in Seq(Blocks)
      /\ Members(k) \subseteq Blocks
  BY <1>2, ListFacts DEF Inv, TypeOK
<1>8. Along(Store', k) = Along(Store, k)
  <2>1. \A b \in Members(k) : ThreadAt(b)' = ThreadAt(b)
    BY <1>2, <1>6, <1>7 DEF ThreadAt, Put
  <2> QED BY <1>2, <1>7, <2>1, SameThreads
<1>9. Store'[h] = [ip |-> 0, ptrs |-> NullPointers(n_pointers)]
  BY <1>2, <1>7 DEF Store, ThreadAt, Put
<1>10. Along(Store', <<h>>) = <<Store'[h]>>
  <2>1. h \in DOMAIN Store'
    BY <1>2 DEF Store
  <2> QED BY <2>1, AlongOne
<1>11. PikeMatched' = PikeMatched /\ PikeMatched = <<>>
  BY <1>2 DEF PikeMatched
<1>12. Pike!NullPointers(n_pointers) = NullPointers(n_pointers)
  BY DEF Pike!NullPointers, NullPointers, Pike!Null, Null
<1> QED BY <1>2, <1>4, <1>5, <1>8, <1>9, <1>10, <1>11, <1>12
        DEF Pike!Spawn, Pike!args, args

-----------------------------------------------------------------------------
(* Matches                                                                 *)

\* A search for a yes or no is over with its first match.
LEMMA MatchBooleanMaps ==
  ASSUME ListInv, MatchBoolean, NEW k, NEW t, NEW f, Lists(k, t, f)
  PROVE  Pike!Match
<1>1. /\ pc = "step" /\ pc' = "finish" /\ AtEnd /\ n_pointers = 0 /\ matched' = thread
      /\ thread # Null
      /\ UNCHANGED <<args, pos, result, ptrs>>
  BY DEF ListInv, Inv, Pool, Place, InLoop, MatchBoolean, memVars
<1>2. /\ PikeStatus = "threads" /\ Pike!Running /\ Pike!AtEnd
      /\ Pike!Thread = [ip |-> ip, ptrs |-> ptrs[thread]]
  BY <1>1, AtStep
<1>3. /\ PikeStatus' = "finish" /\ PikeKept' = <<>> /\ PikeTodo' = <<>>
      /\ PikeFlags' = {} /\ PikeSpawned' = FALSE
  BY <1>1 DEF PikeStatus, PikeKept, PikeTodo, PikeFlags, PikeSpawned, AtPosition, InLoop,
              Idle
<1>4. PikeMatched' = <<ptrs[thread]>>
  BY <1>1 DEF PikeMatched
<1>5. Pike!Thread.ptrs = ptrs[thread]
  BY <1>2
<1> QED BY <1>1, <1>2, <1>3, <1>4, <1>5 DEF Pike!Match, Pike!args, args

\* While the threads behind a match are freed, PikeVm has none to run.
LEMMA FreeingNext ==
  ASSUME ListInv', pc' \in {"free", "return"}, NEW k, NEW t, NEW f, Lists(k, t, f)'
  PROVE  /\ PikeStatus' = "threads" /\ PikeFlags' = flags' /\ PikeSpawned' = spawned'
         /\ PikeKept' = Along(Store', k) /\ PikeTodo' = <<>>
<1>1. Running' /\ (pc \in AtPosition)' /\ (pc \notin InLoop)' /\ pc' # "position"
  BY DEF Running, AtPosition, InLoop, Idle
<1>2. PikeKept' = Along(Store', k)
  BY <1>1, ReadingNext DEF Reading
<1>3. PikeStatus' = "threads" /\ PikeFlags' = flags' /\ PikeTodo' = <<>>
  BY <1>1 DEF PikeStatus, PikeFlags, PikeTodo, Idle
<1>4. PikeSpawned' = spawned'
  <2>1. spawned' \in BOOLEAN
    BY DEF ListInv, Inv, TypeOK
  <2> QED BY <1>1, <2>1 DEF PikeSpawned
<1> QED BY <1>2, <1>3, <1>4

\* The same, before a step.
LEMMA FreeingNow ==
  ASSUME ListInv, pc \in {"free", "return"}, NEW k, NEW t, NEW f, Lists(k, t, f)
  PROVE  /\ PikeStatus = "threads" /\ PikeFlags = flags /\ PikeSpawned = spawned
         /\ PikeKept = Along(Store, k) /\ PikeTodo = <<>>
<1>1. Running /\ pc \in AtPosition /\ pc \notin InLoop /\ pc # "position"
  BY DEF Running, AtPosition, InLoop, Idle
<1>2. PikeKept = Along(Store, k)
  BY <1>1, ReadingNow DEF Reading
<1>3. PikeStatus = "threads" /\ PikeFlags = flags /\ PikeTodo = <<>>
  BY <1>1 DEF PikeStatus, PikeFlags, PikeTodo, Idle
<1>4. PikeSpawned = spawned
  <2>1. spawned \in BOOLEAN
    BY DEF ListInv, Inv, TypeOK
  <2> QED BY <1>1, <2>1 DEF PikeSpawned
<1> QED BY <1>2, <1>3, <1>4

\* The thread becomes the match, and nothing is left to run.
LEMMA MatchMaps ==
  ASSUME ListInv, ListInv', Match, NEW k, NEW t, NEW f, Lists(k, t, f)
  PROVE  Pike!Match
<1>1. /\ pc = "step" /\ pc' = "free" /\ Inv /\ AtEnd /\ n_pointers # 0
      /\ pc \in InLoop /\ matched' = thread /\ thread # Null
      /\ UNCHANGED <<args, pos, spawned, result, flags, instr, ptrs>>
      /\ Blocks' = Blocks
  BY DEF ListInv, Inv, Pool, Place, InLoop, Match, Blocks
<1>2. PICK g : g = IF matched = Null THEN f ELSE <<matched>> \o f
  OBVIOUS
<1>3. Lists(k, Tail(t), g)'
  BY <1>1, <1>2, MatchLists
<1>4. /\ PikeStatus' = "threads" /\ PikeFlags' = flags' /\ PikeSpawned' = spawned'
      /\ PikeKept' = Along(Store', k) /\ PikeTodo' = <<>>
  BY <1>1, <1>3, FreeingNext
<1>5. /\ PikeStatus = "threads" /\ PikeFlags = flags /\ PikeSpawned = spawned
      /\ PikeKept = Along(Store, k) /\ Pike!Running /\ Pike!AtEnd
      /\ Pike!Thread = [ip |-> ip, ptrs |-> ptrs[thread]]
  BY <1>1, AtStep
<1>6. Along(Store', k) = Along(Store, k)
  BY <1>1, OtherThreads
<1>7. PikeMatched' = <<ptrs[thread]>> /\ Pike!Thread.ptrs = ptrs[thread]
  BY <1>1, <1>5 DEF PikeMatched
<1> QED BY <1>1, <1>4, <1>5, <1>6, <1>7 DEF Pike!Match, Pike!args, args

\* Freeing the rest and cutting the list changes nothing that PikeVm has.
LEMMA FreeingMaps ==
  ASSUME ListInv, ListInv', FreeTail \/ CutList, NEW k, NEW t, NEW f, Lists(k, t, f)
  PROVE  UNCHANGED Pike!vars
<1>1. /\ pc = "free" /\ pc' \in {"free", "return"} /\ Inv
      /\ UNCHANGED <<args, pos, spawned, result, flags, matched, instr, ptrs>>
      /\ Blocks' = Blocks
  BY DEF ListInv, FreeTail, CutList, Blocks
<1>2. \E u, g : Lists(k, u, g)'
  <2>1. CASE FreeTail
    <3>1. PICK g : g = <<tail>> \o f
      OBVIOUS
    <3> QED BY <1>1, <2>1, <3>1, FreeTailLists
  <2>2. CASE CutList
    BY <1>1, <2>2, CutListLists
  <2> QED BY <2>1, <2>2
<1>3. PICK u, g : Lists(k, u, g)'
  BY <1>2
<1>4. /\ PikeStatus' = "threads" /\ PikeFlags' = flags' /\ PikeSpawned' = spawned'
      /\ PikeKept' = Along(Store', k) /\ PikeTodo' = <<>>
  BY <1>1, <1>3, FreeingNext
<1>5. /\ PikeStatus = "threads" /\ PikeFlags = flags /\ PikeSpawned = spawned
      /\ PikeKept = Along(Store, k) /\ PikeTodo = <<>>
  BY <1>1, FreeingNow
<1>6. Along(Store', k) = Along(Store, k)
  <2>1. k \in Seq(Blocks) /\ Members(k) \subseteq Blocks
    BY <1>1, ListFacts
  <2>2. \A b \in Members(k) : ThreadAt(b)' = ThreadAt(b)
    BY <1>1 DEF ThreadAt
  <2> QED BY <1>1, <2>1, <2>2, SameThreads
<1>7. PikeMatched' = PikeMatched
  BY <1>1, SameMatched
<1> QED BY <1>1, <1>4, <1>5, <1>6, <1>7 DEF Pike!vars, args

-----------------------------------------------------------------------------
(* Around the loop                                                         *)

\* Before the first position, and between calls, there are no threads.
LEMMA QuietNow ==
  ASSUME Inv, pc \in Idle \cup {"flags"}
  PROVE  /\ PikeKept = <<>> /\ PikeTodo = <<>> /\ PikeFlags = {} /\ PikeSpawned = FALSE
         /\ PikeMatched = <<>> /\ pos = 0
         /\ PikeStatus = IF pc = "flags" THEN "position" ELSE "idle"
<1>1. NoPool
  BY DEF Inv, Pool, Place
<1> QED BY <1>1 DEF PikeKept, PikeTodo, PikeFlags, PikeSpawned, PikeMatched, PikeStatus,
                    AtPosition, InLoop, Idle, NoPool

\* The same, after a step.
LEMMA QuietNext ==
  ASSUME Inv', pc' \in Idle \cup {"flags"}
  PROVE  /\ PikeKept' = <<>> /\ PikeTodo' = <<>> /\ PikeFlags' = {}
         /\ PikeSpawned' = FALSE /\ PikeMatched' = <<>> /\ pos' = 0
         /\ PikeStatus' = IF pc' = "flags" THEN "position" ELSE "idle"
<1>1. NoPool'
  BY DEF Inv, Pool, Place, Idle
<1> QED BY <1>1 DEF PikeKept, PikeTodo, PikeFlags, PikeSpawned, PikeMatched, PikeStatus,
                    AtPosition, InLoop, Idle, NoPool

\* Both modules have the same results and arguments.
LEMMA SameResults ==
  /\ \A n : Pike!NullPointers(n) = NullPointers(n)
  /\ \A s, b, p : Pike!Result(s, b, p) = Result(s, b, p)
  /\ \A r : Pike!NPointers(r) = NPointers(r)
<1>1. \A n : Pike!NullPointers(n) = NullPointers(n)
  BY DEF Pike!NullPointers, NullPointers, Pike!Null, Null
<1>2. \A s, b, p : Pike!Result(s, b, p) = Result(s, b, p)
  BY DEF Pike!Result, Result
<1>3. \A r : Pike!NPointers(r) = NPointers(r)
  BY DEF Pike!NPointers, NPointers
<1> QED BY <1>1, <1>2, <1>3

\* The contexts are none of PikeVm's business.
LEMMA ContextMaps ==
  ASSUME Inv, Inv', CreateContext \/ DestroyContext
  PROVE  UNCHANGED Pike!vars
<1>1. pc \in Idle /\ pc' \in Idle /\ UNCHANGED <<args, result, pos>>
  BY DEF CreateContext, DestroyContext, Idle
<1>2. pc # "flags" /\ pc' # "flags"
  BY <1>1 DEF Idle
<1> QED BY <1>1, <1>2, QuietNow, QuietNext DEF Pike!vars, args

\* A call.
LEMMA CallMaps ==
  ASSUME Inv, Inv', Call
  PROVE  Pike!Call
<1>1. /\ pc = "idle" /\ pc' = "flags"
      /\ \E r \in Regexes, t \in Texts : \E n \in NPointers(r) :
           /\ regex' = r /\ text' = t /\ n_pointers' = n
           /\ result' = Result("NONE", FALSE, NullPointers(n))
  BY DEF Call
<1>2. PikeStatus = "idle"
  BY <1>1, QuietNow DEF Idle
<1>3. /\ PikeKept' = <<>> /\ PikeTodo' = <<>> /\ PikeFlags' = {} /\ PikeSpawned' = FALSE
      /\ PikeMatched' = <<>> /\ pos' = 0 /\ PikeStatus' = "position"
  BY <1>1, QuietNext
<1> QED BY <1>1, <1>2, <1>3, SameResults DEF Pike!Call, Pike!Cleared

\* The first position has no threads to begin with.
LEMMA AllocFlagsMaps ==
  ASSUME ListInv, ListInv', AllocFlags
  PROVE  UNCHANGED Pike!vars
<1>1. /\ pc = "flags" /\ pc' = "position" /\ Inv /\ Sized
      /\ UNCHANGED <<args, result, pos, matched>>
  BY DEF ListInv, AllocFlags
<1>2. /\ PikeKept = <<>> /\ PikeTodo = <<>> /\ PikeFlags = {} /\ PikeSpawned = FALSE
      /\ PikeMatched = <<>> /\ PikeStatus = "position" /\ matched = Null
  <2>1. matched = Null
    BY <1>1 DEF Inv, Pool, Place, NoPool
  <2> QED BY <1>1, <2>1, QuietNow
<1>3. /\ PikeKept' = <<>> /\ PikeFlags' = {} /\ PikeSpawned' = FALSE
      /\ PikeStatus' = "position"
  BY <1>1 DEF PikeKept, PikeFlags, PikeSpawned, PikeStatus, AtPosition, InLoop, Idle
<1>4. PikeTodo' = <<>>
  <2>1. Lists(<<>>, <<>>, <<>>)' /\ Running'
    BY <1>1, AllocFlagsLists DEF Running, Idle
  <2>2. PikeTodo' = Along(Store', <<>>)
    BY <1>1, <2>1, ReadingNext DEF Reading
  <2> QED BY <2>2, AlongNone
<1>5. PikeMatched' = <<>>
  BY <1>1, <1>2 DEF PikeMatched
<1> QED BY <1>1, <1>2, <1>3, <1>4, <1>5 DEF Pike!vars, args

\* The threads that waited are to run.
LEMMA EnterPositionMaps ==
  ASSUME ListInv, ListInv', EnterPosition, NEW k, NEW t, NEW f, Lists(k, t, f)
  PROVE  Pike!EnterPosition
<1>1. /\ pc = "position" /\ Inv /\ Running
      /\ UNCHANGED <<args, pos, result, matched, instr, ptrs>>
      /\ Blocks' = Blocks
  BY DEF ListInv, EnterPosition, Blocks, Running, Idle
<1>2. /\ PikeStatus = "position" /\ PikeKept = <<>> /\ PikeFlags = {}
      /\ PikeSpawned = FALSE /\ PikeTodo = Along(Store, k)
  <2>1. PikeTodo = Along(Store, k)
    BY <1>1, ReadingNow DEF Reading
  <2> QED BY <1>1, <2>1
          DEF PikeStatus, PikeKept, PikeFlags, PikeSpawned, AtPosition, InLoop, Idle
<1>3. PikeMatched' = PikeMatched
  BY <1>1, SameMatched
<1>4. CASE head = Null /\ matched # Null
  <2>1. pc' = "finish"
    BY <1>4 DEF EnterPosition
  <2>2. k = <<>>
    BY <1>1, <2>1, EnterPositionLists
  <2>3. PikeTodo = <<>> /\ PikeMatched # <<>>
    BY <1>2, <1>4, <2>2, AlongNone DEF PikeMatched
  <2>4. /\ PikeStatus' = "finish" /\ PikeKept' = <<>> /\ PikeFlags' = {}
        /\ PikeSpawned' = FALSE /\ PikeTodo' = <<>>
    BY <2>1 DEF PikeStatus, PikeKept, PikeTodo, PikeFlags, PikeSpawned, AtPosition, InLoop,
                Idle
  <2> QED BY <1>1, <1>2, <1>3, <2>3, <2>4 DEF Pike!EnterPosition, Pike!args, args
<1>5. CASE ~(head = Null /\ matched # Null)
  <2>1. pc' = "thread" /\ spawned' = FALSE /\ flags' = {}
    BY <1>5 DEF EnterPosition
  <2>2. Lists(<<>>, k, f)'
    BY <1>1, <2>1, EnterPositionLists
  <2>3. /\ PikeStatus' = "threads" /\ PikeFlags' = {} /\ PikeSpawned' = FALSE
        /\ PikeKept' = Along(Store', <<>>) /\ PikeTodo' = Along(Store', k)
    BY <2>1, <2>2, AtPositionNext
  <2>4. Along(Store', <<>>) = <<>>
    BY AlongNone
  <2>5. Along(Store', k) = Along(Store, k)
    <3>1. k \in Seq(Blocks)
      BY <1>1, ListFacts
    <3>2. \A b \in Members(k) : ThreadAt(b)' = ThreadAt(b)
      BY <1>1, <2>1 DEF ThreadAt
    <3> QED BY <1>1, <3>1, <3>2, SameThreads
  <2> QED BY <1>1, <1>2, <1>3, <2>3, <2>4, <2>5 DEF Pike!EnterPosition, Pike!args, args
<1> QED BY <1>4, <1>5

\* To take up the next thread changes no thread.
LEMMA ResumeMaps ==
  ASSUME ListInv, ListInv', Resume, NEW k, NEW t, NEW f, Lists(k, t, f)
  PROVE  UNCHANGED Pike!vars
<1>1. /\ pc = "thread" /\ pc' = "step" /\ Inv /\ Running /\ pc \in InLoop /\ pc \in AtPosition
      /\ UNCHANGED <<args, pos, result, matched, instr, ptrs, flags, spawned, thread>>
      /\ ip' = instr[thread] /\ Blocks' = Blocks
  BY DEF ListInv, Resume, Blocks, Running, Idle, InLoop, AtPosition, vmVars, memVars
<1>2. Lists(k, t, f)'
  BY <1>1, StepSame
<1>3. /\ PikeStatus' = "threads" /\ PikeFlags' = flags' /\ PikeSpawned' = spawned'
      /\ PikeKept' = Along(Store', k) /\ PikeTodo' = Along(Store', t)
  BY <1>1, <1>2, AtPositionNext
<1>4. PikeKept = Along(Store, k) /\ PikeTodo = Along(Store, t)
  BY <1>1, ReadingNow DEF Reading
<1>5. PikeStatus = "threads" /\ PikeFlags = flags /\ PikeSpawned = spawned
  <2>1. spawned \in BOOLEAN
    BY <1>1 DEF Inv, TypeOK
  <2> QED BY <1>1, <2>1 DEF PikeStatus, PikeFlags, PikeSpawned, Idle
<1>6. Along(Store', k) = Along(Store, k) /\ Along(Store', t) = Along(Store, t)
  <2>1. k \in Seq(Blocks) /\ t \in Seq(Blocks)
    BY <1>1, ListFacts
  <2>2. \A b : ThreadAt(b)' = ThreadAt(b)
    BY <1>1 DEF ThreadAt
  <2> QED BY <1>1, <2>1, <2>2, SameThreads
<1>7. PikeMatched' = PikeMatched
  BY <1>1, SameMatched
<1> QED BY <1>1, <1>3, <1>4, <1>5, <1>6, <1>7 DEF Pike!vars, args

\* At the end of the list PikeVm has no thread to run.
LEMMA EndOfThreadsMaps ==
  ASSUME ListInv, ListInv', EndOfThreads, NEW k, NEW t, NEW f, Lists(k, t, f)
  PROVE  UNCHANGED Pike!vars
<1>1. /\ pc = "thread" /\ pc' = "return" /\ Inv /\ Running
      /\ pc \in InLoop /\ pc \in AtPosition /\ thread = Null
      /\ UNCHANGED <<args, pos, result, matched, instr, ptrs, flags, spawned>>
      /\ Blocks' = Blocks
  BY DEF ListInv, EndOfThreads, Blocks, Running, Idle, InLoop, AtPosition, vmVars, memVars
<1>2. Lists(k, t, f)'
  BY <1>1, StepSame
<1>3. /\ PikeStatus' = "threads" /\ PikeFlags' = flags' /\ PikeSpawned' = spawned'
      /\ PikeKept' = Along(Store', k) /\ PikeTodo' = <<>>
  BY <1>1, <1>2, FreeingNext
<1>4. PikeKept = Along(Store, k) /\ PikeTodo = <<>>
  <2>1. PikeKept = Along(Store, k) /\ PikeTodo = Along(Store, t)
    BY <1>1, ReadingNow DEF Reading
  <2>2. t = <<>>
    BY <1>1, PathStops DEF Lists, ListPaths, Rest
  <2> QED BY <2>1, <2>2, AlongNone
<1>5. PikeStatus = "threads" /\ PikeFlags = flags /\ PikeSpawned = spawned
  <2>1. spawned \in BOOLEAN
    BY <1>1 DEF Inv, TypeOK
  <2> QED BY <1>1, <2>1 DEF PikeStatus, PikeFlags, PikeSpawned, Idle
<1>6. Along(Store', k) = Along(Store, k)
  <2>1. k \in Seq(Blocks)
    BY <1>1, ListFacts
  <2>2. \A b \in Members(k) : ThreadAt(b)' = ThreadAt(b)
    BY <1>1 DEF ThreadAt
  <2> QED BY <1>1, <2>1, <2>2, SameThreads
<1>7. PikeMatched' = PikeMatched
  BY <1>1, SameMatched
<1> QED BY <1>1, <1>3, <1>4, <1>5, <1>6, <1>7 DEF Pike!vars, args

\* The next position, or the end of the string.
LEMMA NextCharacterMaps ==
  ASSUME MapInv, ListInv', NextCharacter, NEW k, NEW t, NEW f, Lists(k, t, f)
  PROVE  Pike!EndPosition
<1>1. /\ pc = "return" /\ Inv /\ ListInv /\ (spawned \/ matched # Null)
      /\ UNCHANGED <<args, result, matched, instr, ptrs>> /\ Blocks' = Blocks
  BY DEF MapInv, Ended, ListInv, NextCharacter, Blocks, vmVars, memVars
<1>2. /\ PikeStatus = "threads" /\ PikeFlags = flags /\ PikeSpawned = spawned
      /\ PikeKept = Along(Store, k) /\ PikeTodo = <<>>
  BY <1>1, FreeingNow
<1>3. PikeMatched' = PikeMatched
  BY <1>1, SameMatched
<1>4. PikeSpawned \/ PikeMatched # <<>>
  BY <1>1, <1>2 DEF PikeMatched, MapInv, Ended
<1>5. PikeKept' = <<>> /\ PikeFlags' = {} /\ PikeSpawned' = FALSE
  <2>1. pc' \in {"finish", "position"}
    BY DEF NextCharacter
  <2> QED BY <2>1 DEF PikeKept, PikeFlags, PikeSpawned, AtPosition, InLoop
<1>6. CASE CharAt(text, pos) = EOF
  <2>1. pc' = "finish" /\ pos' = pos
    BY <1>6 DEF NextCharacter
  <2>2. PikeStatus' = "finish" /\ PikeTodo' = <<>>
    BY <2>1 DEF PikeStatus, PikeTodo, AtPosition, InLoop, Idle
  <2> QED BY <1>1, <1>2, <1>3, <1>4, <1>5, <1>6, <2>1, <2>2, SameReading
          DEF Pike!EndPosition, Pike!args, args
<1>7. CASE CharAt(text, pos) # EOF
  <2>1. pc' = "position" /\ pos' = pos + 1
    BY <1>7 DEF NextCharacter
  <2>2. PikeStatus' = "position"
    BY <2>1 DEF PikeStatus, Idle
  <2>3. PikeTodo' = Along(Store', k)
    <3>1. Lists(k, t, f)' /\ Running'
      BY <1>1, <2>1, StepSame DEF Running, Idle
    <3> QED BY <2>1, <3>1, ReadingNext DEF Reading
  <2>4. Along(Store', k) = Along(Store, k)
    <3>1. k \in Seq(Blocks)
      BY <1>1, ListFacts
    <3>2. \A b \in Members(k) : ThreadAt(b)' = ThreadAt(b)
      BY <1>1, <2>1 DEF ThreadAt
    <3> QED BY <1>1, <3>1, <3>2, SameThreads
  <2> QED BY <1>1, <1>2, <1>3, <1>4, <1>5, <1>7, <2>1, <2>2, <2>3, <2>4, SameReading
          DEF Pike!EndPosition, Pike!args, args
<1> QED BY <1>6, <1>7

\* What the caller gets.
LEMMA ReturnMaps ==
  ASSUME Inv, Inv', Return
  PROVE  Pike!Return
<1>1. /\ pc = "finish" /\ pc' = "idle" /\ UNCHANGED args
      /\ result' = Result("OK", matched # Null,
                          IF matched = Null THEN NullPointers(n_pointers) ELSE ptrs[matched])
  BY DEF Return
<1>2. /\ PikeStatus = "finish" /\ PikeKept = <<>> /\ PikeTodo = <<>> /\ PikeFlags = {}
      /\ PikeSpawned = FALSE
  BY <1>1 DEF PikeStatus, PikeKept, PikeTodo, PikeFlags, PikeSpawned, AtPosition, InLoop,
              Idle
<1>3. /\ PikeKept' = <<>> /\ PikeTodo' = <<>> /\ PikeFlags' = {} /\ PikeSpawned' = FALSE
      /\ PikeMatched' = <<>> /\ pos' = 0 /\ PikeStatus' = "idle"
  BY <1>1, QuietNext DEF Idle
<1>4. /\ PikeMatched # <<>> <=> matched # Null
      /\ matched # Null => PikeMatched[1] = ptrs[matched]
  BY DEF PikeMatched
<1> QED BY <1>1, <1>2, <1>3, <1>4, SameResults DEF Pike!Return, Pike!args, args

\* An allocation that fails ends the call.
LEMMA NoMemoryMaps ==
  ASSUME Inv, Inv', NoMemory
  PROVE  Pike!OutOfMemory
<1>1. /\ pc \in {"flags", "thread", "step"} /\ pc' = "idle" /\ UNCHANGED args
      /\ result' = Result("E_NOMEM", FALSE, NullPointers(n_pointers))
  BY DEF NoMemory, Stepping
<1>2. PikeStatus \in {"position", "threads"}
  BY <1>1 DEF PikeStatus, AtPosition, InLoop, Idle
<1>3. /\ PikeKept' = <<>> /\ PikeTodo' = <<>> /\ PikeFlags' = {} /\ PikeSpawned' = FALSE
      /\ PikeMatched' = <<>> /\ pos' = 0 /\ PikeStatus' = "idle"
  BY <1>1, QuietNext DEF Idle
<1> QED BY <1>1, <1>2, <1>3, SameResults DEF Pike!OutOfMemory, Pike!Cleared, Pike!args, args

-----------------------------------------------------------------------------
(* The refinement                                                          *)

\* The engine starts as PikeVm does.
LEMMA InitMaps == Init => Pike!Init
<1> SUFFICES ASSUME Init PROVE Pike!Init
  OBVIOUS
<1>1. Inv /\ pc = "none"
  BY InitInv DEF Init
<1>2. /\ PikeKept = <<>> /\ PikeTodo = <<>> /\ PikeFlags = {} /\ PikeSpawned = FALSE
      /\ PikeMatched = <<>> /\ pos = 0 /\ PikeStatus = "idle"
  BY <1>1, QuietNow DEF Idle
<1>3. result = Pike!Result("NONE", FALSE, <<>>)
  BY SameResults, NoPointers DEF Init
<1> QED BY <1>2, <1>3 DEF Pike!Init, Init

\* Every step of the loop is one of PikeVm's, or none.
LEMMA LoopMaps ==
  ASSUME MapInv, ListInv', Running,
         EnterPosition \/ Spawn \/ Resume \/ EndOfThreads
           \/ Reject \/ Consume \/ Advance \/ TestAndSetFlag \/ WritePointer \/ Split
           \/ MatchBoolean \/ Match \/ FreeTail \/ CutList \/ NextCharacter
  PROVE  [Pike!Next]_(Pike!vars)
<1>1. ListInv
  BY DEF MapInv
<1>2. PICK k, t, f : Lists(k, t, f)
  BY <1>1 DEF ListInv
<1> USE <1>1, <1>2
<1>3. CASE EnterPosition
  BY <1>3, EnterPositionMaps DEF Pike!Next, Pike!Run
<1>4. CASE Spawn
  BY <1>4, SpawnMaps DEF Pike!Next, Pike!Run
<1>5. CASE Resume \/ EndOfThreads
  BY <1>5, ResumeMaps, EndOfThreadsMaps
<1>6. CASE Reject
  BY <1>6, RejectMaps DEF Pike!Next, Pike!Run, Pike!Step
<1>7. CASE Consume
  BY <1>7, ConsumeMaps DEF Pike!Next, Pike!Run, Pike!Step
<1>8. CASE Advance
  BY <1>8, AdvanceMaps DEF Pike!Next, Pike!Run, Pike!Step
<1>9. CASE TestAndSetFlag
  BY <1>9, TestAndSetFlagMaps DEF Pike!Next, Pike!Run, Pike!Step
<1>10. CASE WritePointer
  BY <1>10, WritePointerMaps DEF Pike!Next, Pike!Run, Pike!Step
<1>11. CASE Split
  BY <1>11, SplitMaps DEF Pike!Next, Pike!Run, Pike!Step
<1>12. CASE MatchBoolean \/ Match
  BY <1>12, MatchBooleanMaps, MatchMaps DEF Pike!Next, Pike!Run, Pike!Step
<1>13. CASE FreeTail \/ CutList
  BY <1>13, FreeingMaps
<1>14. CASE NextCharacter
  BY <1>14, NextCharacterMaps DEF Pike!Next, Pike!Run
<1> QED BY <1>3, <1>4, <1>5, <1>6, <1>7, <1>8, <1>9, <1>10, <1>11, <1>12, <1>13, <1>14

\* Every step of the engine is one of PikeVm's, or none.
LEMMA StepMaps == MapInv /\ MapInv' /\ [Next]_vars => [Pike!Next]_(Pike!vars)
<1> SUFFICES ASSUME MapInv, MapInv', [Next]_vars PROVE [Pike!Next]_(Pike!vars)
  OBVIOUS
<1>1. Inv /\ Inv' /\ ListInv /\ ListInv'
  BY DEF MapInv, ListInv
<1>2. CASE CreateContext \/ DestroyContext
  BY <1>1, <1>2, ContextMaps
<1>3. CASE Call
  BY <1>1, <1>3, CallMaps DEF Pike!Next
<1>4. CASE AllocFlags
  BY <1>1, <1>4, AllocFlagsMaps
<1>5. CASE Return
  BY <1>1, <1>5, ReturnMaps DEF Pike!Next, Pike!Run
<1>6. CASE NoMemory
  BY <1>1, <1>6, NoMemoryMaps DEF Pike!Next
<1>7. CASE EnterPosition \/ Spawn \/ Resume \/ EndOfThreads
             \/ Reject \/ Consume \/ Advance \/ TestAndSetFlag \/ WritePointer \/ Split
             \/ MatchBoolean \/ Match \/ FreeTail \/ CutList \/ NextCharacter
  <2>1. Running
    BY <1>7
    DEF EnterPosition, Spawn, Resume, EndOfThreads, Reject, Consume, Advance,
        TestAndSetFlag, WritePointer, Split, MatchBoolean, Match, FreeTail, CutList,
        NextCharacter, Running, Idle, Stepping
  <2> QED BY <1>1, <1>7, <2>1, LoopMaps
<1>8. CASE UNCHANGED vars
  BY <1>8
  DEF vars, heapVars, args, vmVars, poolVars, memVars, runVars, Pike!vars,
      PikeStatus, PikeKept, PikeTodo, PikeFlags, PikeSpawned, PikeMatched,
      AsThreads, ThreadAt, Kept, Todo
<1> QED BY <1>2, <1>3, <1>4, <1>5, <1>6, <1>7, <1>8 DEF Next, Client, Run

\* The engine of vm.c and executor.c does what the algorithm does, whatever
\* the programs, strings and allocations: as far as its results go, recycling
\* blocks, moving the buffer, cutting lists and freeing tails do not exist.
THEOREM Refinement == Spec => ImplementsPike
<1>1. Init => Pike!Init
  BY InitMaps
<1>2. MapInv /\ MapInv' /\ [Next]_vars => [Pike!Next]_(Pike!vars)
  BY StepMaps
<1>3. Spec => []MapInv
  BY MapInvariance
<1> QED BY <1>1, <1>2, <1>3, PTL DEF Spec, ImplementsPike, Pike!Spec

-----------------------------------------------------------------------------
(* What is proved of the algorithm holds of the engine                     *)

Search == INSTANCE PikeProofs WITH
  status <- PikeStatus, kept <- PikeKept, todo <- PikeTodo, flags <- PikeFlags,
  spawned <- PikeSpawned, matched <- PikeMatched

\* The instance with the proofs is the one that Vm refines.
LEMMA SameAlgorithm ==
  /\ Pike!Init <=> Search!Init
  /\ [Pike!Next]_(Pike!vars) <=> [Search!Next]_(Search!vars)
<1>1. /\ Pike!Reject <=> Search!Reject
      /\ Pike!Consume <=> Search!Consume
      /\ Pike!Advance <=> Search!Advance
      /\ Pike!TestAndSetFlag <=> Search!TestAndSetFlag
  BY DEF Pike!Reject, Search!Reject, Pike!Consume, Search!Consume, Pike!Advance,
         Search!Advance, Pike!TestAndSetFlag, Search!TestAndSetFlag, Pike!args,
         Search!args, Pike!Code, Search!Code, Pike!Running, Search!Running,
         Pike!Thread, Search!Thread, Pike!AtEnd, Search!AtEnd, Pike!Instr,
         Search!Instr, Pike!stepFrame, Search!stepFrame, Pike!GoesOn, Search!GoesOn,
         Pike!Continues, Search!Continues, Pike!After, Search!After, Pike!Continuation,
         Search!Continuation, Pike!SplitPointer, Search!SplitPointer, Pike!Dies,
         Search!Dies, Pike!FlagTaken, Search!FlagTaken, Pike!ConsumeOps,
         Search!ConsumeOps, Pike!AnchorOps, Search!AnchorOps, Pike!Accepts,
         Search!Accepts, Pike!AnchorHolds, Search!AnchorHolds, Pike!IsWord,
         Search!IsWord, Pike!CharAt, Search!CharAt, Pike!CharBefore, Search!CharBefore,
         Pike!EOF, Search!EOF
<1>2. /\ Pike!Split <=> Search!Split
      /\ Pike!WritePointer <=> Search!WritePointer
      /\ Pike!Match <=> Search!Match
  BY DEF Pike!Split, Search!Split, Pike!WritePointer, Search!WritePointer, Pike!Match,
         Search!Match, Pike!args, Search!args, Pike!Code, Search!Code, Pike!Running,
         Search!Running, Pike!Thread, Search!Thread, Pike!AtEnd, Search!AtEnd,
         Pike!Instr, Search!Instr, Pike!stepFrame, Search!stepFrame, Pike!GoesOn,
         Search!GoesOn, Pike!Continues, Search!Continues, Pike!After, Search!After,
         Pike!Continuation, Search!Continuation, Pike!SplitPointer,
         Search!SplitPointer, Pike!SplitOps, Search!SplitOps
<1>3. /\ Pike!Init <=> Search!Init
      /\ Pike!Call <=> Search!Call
      /\ Pike!Spawn <=> Search!Spawn
      /\ Pike!Return <=> Search!Return
      /\ Pike!OutOfMemory <=> Search!OutOfMemory
  BY DEF Pike!Init, Search!Init, Pike!Call, Search!Call, Pike!Spawn, Search!Spawn,
         Pike!Return, Search!Return, Pike!OutOfMemory, Search!OutOfMemory, Pike!args,
         Search!args, Pike!Cleared, Search!Cleared, Pike!NPointers, Search!NPointers,
         Pike!Result, Search!Result, Pike!NullPointers, Search!NullPointers, Pike!Null,
         Search!Null
<1>4. /\ Pike!EnterPosition <=> Search!EnterPosition
      /\ Pike!EndPosition <=> Search!EndPosition
  BY DEF Pike!EnterPosition, Search!EnterPosition, Pike!EndPosition,
         Search!EndPosition, Pike!args, Search!args, Pike!CharAt, Search!CharAt,
         Pike!EOF, Search!EOF
<1>5. Pike!vars = Search!vars
  BY DEF Pike!vars, Search!vars
<1>6. Pike!Next <=> Search!Next
  BY <1>1, <1>2, <1>3, <1>4 DEF Pike!Next, Search!Next, Pike!Run, Search!Run, Pike!Step, Search!Step
<1>7. Pike!Init <=> Search!Init
  BY <1>3
<1>8. [Pike!Next]_(Pike!vars) <=> [Search!Next]_(Search!vars)
  BY <1>5, <1>6 DEF Pike!vars, Search!vars
<1> QED BY <1>7, <1>8

\* What PikeVm assumes of the programs is what Vm assumes, and that each writes
\* its beginning first of all, which is how the compiler begins each of them.
LEMMA SameAssumptions ==
  ASSUME \A r \in Regexes : BeginsOnce(r.code)
  PROVE  /\ Search!BytecodeAssumption /\ Search!RegexAssumption
         /\ Search!BeginsAssumption
<1>1. /\ \A c : Search!Starts(c) = Starts(c) /\ Search!Labels(c) = Labels(c)
      /\ \A c, i : Search!After(c, i) = After(c, i)
      /\ \A c, i : Search!Continuation(c, i) = Continuation(c, i)
      /\ \A c, i : Search!SplitPointer(c, i) = SplitPointer(c, i)
      /\ Search!Cells = Cells /\ Search!SplitOps = SplitOps /\ Search!AnchorOps = AnchorOps
  BY DEF Search!Starts, Starts, Search!Labels, Labels, Search!After, After,
         Search!Continuation, Continuation, Search!SplitPointer, SplitPointer,
         Search!Cells, Cells, Search!Opcodes, Opcodes, Search!ConsumeOps, ConsumeOps,
         Search!SplitOps, SplitOps, Search!AnchorOps, AnchorOps
<1>2. \A r : Search!WellFormed(r) <=> WellFormed(r)
  BY <1>1 DEF Search!WellFormed, WellFormed
<1>3. \A c : Search!BeginsOnce(c) <=> BeginsOnce(c)
  BY <1>1 DEF Search!BeginsOnce, BeginsOnce
<1>4. Search!BytecodeAssumption
  BY BytecodeAssumption DEF Search!BytecodeAssumption
<1>5. Search!RegexAssumption
  BY <1>2, RegexAssumption DEF Search!RegexAssumption
<1>6. Search!BeginsAssumption
  BY <1>3 DEF Search!BeginsAssumption
<1> QED BY <1>4, <1>5, <1>6

\* The engine's runs are the algorithm's.
LEMMA RunsSearch == Spec => Search!Spec
<1>1. Spec => Pike!Init /\ [][Pike!Next]_(Pike!vars)
  BY Refinement, PTL DEF ImplementsPike, Pike!Spec
<1>2. [Pike!Next]_(Pike!vars) => [Search!Next]_(Search!vars)
  BY SameAlgorithm
<1>3. Pike!Init => Search!Init
  BY SameAlgorithm
<1> QED BY <1>1, <1>2, <1>3, PTL DEF Search!Spec

\* What the bytecode engine finds is the leftmost match: its threads, in the
\* order in which its lists hold them, stand by where they began, with the
\* match behind them, and a match is only replaced by one that begins no later.
THEOREM EngineFindsLeftmost ==
  ASSUME \A r \in Regexes : BeginsOnce(r.code)
  PROVE  Spec => []Pike!LeftmostFirst /\ Pike!MatchOnlyImproves
<1>1. /\ Search!BytecodeAssumption /\ Search!RegexAssumption
      /\ Search!BeginsAssumption
  BY SameAssumptions
<1>2. Search!Spec => []Search!LeftmostFirst
  BY <1>1, Search!ThreadsInOrder, PTL
<1>3. Search!Spec => Search!MatchOnlyImproves
  BY <1>1, Search!MatchesImprove, PTL
<1>4. Spec => Search!Spec
  BY RunsSearch
<1>5. Search!LeftmostFirst => Pike!LeftmostFirst
  BY DEF Search!LeftmostFirst, Pike!LeftmostFirst, Search!Ranked, Pike!Ranked,
         Search!Live, Pike!Live, Search!StartOf, Pike!StartOf, Search!Null, Pike!Null
<1>6. Search!MatchOnlyImproves => Pike!MatchOnlyImproves
  <2>1. [PikeStatus # "idle" /\ PikeStatus' # "idle" /\ PikeMatched # <<>> /\ n_pointers > 0 =>
           /\ PikeMatched' # <<>>
           /\ Search!StartOf(PikeMatched'[1]) <= Search!StartOf(PikeMatched[1])]_(Search!vars)
         =>
         [PikeStatus # "idle" /\ PikeStatus' # "idle" /\ PikeMatched # <<>> /\ n_pointers > 0 =>
           /\ PikeMatched' # <<>>
           /\ Pike!StartOf(PikeMatched'[1]) <= Pike!StartOf(PikeMatched[1])]_(Pike!vars)
    BY DEF Search!vars, Pike!vars, Search!StartOf, Pike!StartOf, Search!Null, Pike!Null
  <2> QED BY <2>1, PTL DEF Search!MatchOnlyImproves, Pike!MatchOnlyImproves
<1> QED BY <1>2, <1>3, <1>4, <1>5, <1>6, PTL

\* What the compiler promises of the ways between instructions.
WaysFlagged == \A r \in Regexes : JoinsFlagged(r.code) /\ OperandsApart(r.code)

LEMMA SameWays == WaysFlagged => Search!WaysFlagged
<1>1. /\ \A c : Search!Starts(c) = Starts(c)
      /\ \A c, i : Search!After(c, i) = After(c, i)
      /\ \A c, i : Search!Continuation(c, i) = Continuation(c, i)
      /\ \A c, i : Search!SplitPointer(c, i) = SplitPointer(c, i)
      /\ Search!SplitOps = SplitOps /\ Search!Entry = Entry
  BY DEF Search!Starts, Starts, Search!After, After, Search!Continuation, Continuation,
         Search!SplitPointer, SplitPointer, Search!SplitOps, SplitOps, Search!Entry,
         Entry, Search!AnchorOps, AnchorOps
<1>2. \A c : Search!Edges(c) = Edges(c)
  BY <1>1 DEF Search!Edges, Edges
<1>3. \A c : Search!JoinsFlagged(c) <=> JoinsFlagged(c)
  BY <1>2 DEF Search!JoinsFlagged, JoinsFlagged
<1>4. \A c : Search!OperandsApart(c) <=> OperandsApart(c)
  BY <1>1 DEF Search!OperandsApart, OperandsApart
<1> QED BY <1>3, <1>4 DEF WaysFlagged, Search!WaysFlagged

\* The engine's list never holds two threads that wait at the same instruction,
\* however blocks are recycled and buffers move.
THEOREM EngineThreadsAreDistinct ==
  ASSUME WaysFlagged, \A r \in Regexes : BeginsOnce(r.code)
  PROVE  Spec => []Pike!DistinctThreads
<1>1. /\ Search!BytecodeAssumption /\ Search!RegexAssumption
      /\ Search!BeginsAssumption /\ Search!WaysFlagged
  BY SameAssumptions, SameWays
<1>2. Search!Spec => []Search!DistinctThreads
  BY <1>1, Search!ThreadsAreDistinct, PTL
<1>3. Search!DistinctThreads => Pike!DistinctThreads
  BY DEF Search!DistinctThreads, Pike!DistinctThreads
<1> QED BY <1>2, <1>3, RunsSearch, PTL
=============================================================================
