---------------------------- MODULE NativeProofs ----------------------------
(***************************************************************************)
(* Proofs that the code compile_to_native emits manages its memory         *)
(* soundly, for any regexes, strings, buffers and numbers of calls, and    *)
(* refines the algorithm of PikeVm unless a flag of the upper half of the  *)
(* register is tested.  The emitted code holds blocks in registers where   *)
(* vm.c holds them in vm_t: between the allocator and whoever called it a  *)
(* block belongs to neither list.                                          *)
(***************************************************************************)
EXTENDS NativeVm, ChainProofs

-----------------------------------------------------------------------------
(* The inductive invariant                                                 *)

\* What an allocation that is under way was asked for.
Asked ==
  /\ pc \in {"alloc", "move"} =>
       /\ caller \in Callers
       /\ request = (IF caller = "flags" THEN FlagWords ELSE BlockSize)
       /\ request > 0
  /\ pc = "epilogue" => status # "NONE" /\ (status = "E_NOMEM" => caller \in Callers)

\* A buffer is not empty, and the one to move to is another.
RealBuffers ==
  /\ pc \in Idle => bump = 0 /\ (ctxBuffer # NoBuffer => ctxCapacity > 0)
  /\ pc \notin Idle => (buffer # NoBuffer => capacity > 0)
  /\ pc = "move" => fresh \in Buffers /\ fresh # buffer

Memory == BufferOwned /\ BlocksDisjoint /\ Asked /\ RealBuffers

\* Between calls, and until the flags are allocated, there are no blocks.
NoPool ==
  /\ next = NoBlocks /\ instr = NoBlocks /\ ptrs = NoBlocks /\ region = NoBlocks
  /\ freelist = Null /\ head = Null /\ matched = Null
  /\ state = Null /\ predecessor = Null
  /\ ip = 0 /\ pos = 0 /\ regflags = {} /\ memflags = {}
  /\ pc # "flags" => bump = 0

\* Who may lead to whom.
Links ==
  /\ \A b, c \in Linking : next[b] = next[c] /\ next[b] # Null => b = c
  /\ \A b \in Linking : next[b] # Null =>
       /\ next[b] # freelist
       /\ pc = "free" => next[b] # scratch
       /\ ~(pc = "free" /\ predecessor = Null) => next[b] # head
       /\ region[b] = "free" => region[next[b]] = "free"
       /\ region[b] = "todo" => region[next[b]] = "todo"
       /\ region[b] = "kept" =>
            \/ region[next[b]] = "kept"
            \/ b = predecessor /\ next[b] = state /\ region[next[b]] = "todo"

\* The block that was just allocated is nobody's.
GrantedIsLoose ==
  pc \in {"spawn", "split"} =>
    /\ scratch \in Nat /\ scratch # freelist
    /\ \A b \in Linking : next[b] # scratch
    /\ scratch \in Blocks => region[scratch] = "free"

\* What each root leads to.
RootRegions ==
  /\ freelist # Null => region[freelist] = "free"
  /\ pc = "free" /\ scratch # Null => scratch \in Blocks /\ region[scratch] = "todo"
  /\ \A b \in Blocks : region[b] = "matched" <=> b = matched
  /\ matched # Null => n_pointers # 0

\* Where the loop over the states is in the list.
Where ==
  /\ Place \in Idle \cup {"flags"} => NoPool
  /\ Place \in InLoop =>
       /\ Place \in {"run", "split"} => state # Null
       /\ Place = "spawn" => state = Null
       /\ state # Null => region[state] = "todo"
       /\ predecessor = Null => head = state
       /\ predecessor # Null =>
            /\ region[predecessor] = "kept" /\ next[predecessor] = state
            /\ head # Null /\ region[head] = "kept"
  /\ Place = "free" =>
       /\ n_pointers # 0 /\ matched # Null /\ state = matched
       /\ predecessor = Null => head = state
       /\ predecessor # Null => /\ region[predecessor] = "kept"
                                /\ head # Null /\ region[head] = "kept"
  /\ Place \in {"string", "coda"} =>
       state = Null /\ (head # Null => region[head] = "kept")
  /\ Place = "epilogue" => (head # Null => region[head] \in {"kept", "todo"})

Pool == Links /\ GrantedIsLoose /\ RootRegions /\ Where

\* Every state, and the running one, is at an instruction.
InCode ==
  /\ \A h \in Blocks : instr[h] \in Starts(Code)
  /\ pc = "run" => ip \in Labels(Code)
  /\ Place = "split" => ip \in Starts(Code) /\ Instr.op \in SplitOps

Inv == TypeOK /\ Memory /\ Pool /\ InCode

-----------------------------------------------------------------------------
(* Sizes and code                                                          *)

\* The flags and the states have sizes, and a state's is not zero.
LEMMA Sizes ==
  ASSUME TypeOK
  PROVE  /\ FlagWords \in Nat
         /\ n_pointers \in Nat
         /\ BlockSize \in Nat /\ BlockSize > 0
<1>1. regex \in Regexes /\ n_pointers \in NPointers(regex)
  BY DEF TypeOK
<1>2. regex.flags \in Nat /\ regex.groups \in Nat
  BY <1>1, NativeRegexAssumption
<1>3. n_pointers \in Nat
  BY <1>1, <1>2 DEF NPointers
<1>4. RegisterFlags \in Nat /\ RegisterFlags > 0
  BY NativeMemoryAssumption
<1>5. \A x \in Nat, y \in Nat : y > 0 => x \div y \in Nat
  BY SMT
<1>6. regex.flags > RegisterFlags => regex.flags - 1 \in Nat
  BY <1>2, <1>4
<1> QED BY <1>2, <1>3, <1>4, <1>5, <1>6 DEF FlagWords, BlockSize

\* They have in the next state.
LEMMA SizesNext ==
  TypeOK' => FlagWords' \in Nat /\ n_pointers' \in Nat /\ BlockSize' \in Nat
<1>1. TypeOK => FlagWords \in Nat /\ n_pointers \in Nat /\ BlockSize \in Nat
  BY Sizes
<1>2. (TypeOK => FlagWords \in Nat /\ n_pointers \in Nat /\ BlockSize \in Nat)'
  BY <1>1, PTL
<1> QED BY <1>2

\* Addresses are numbers; every program has its first, at an instruction.
LEMMA LabelsNat ==
  ASSUME NEW r \in Regexes
  PROVE  /\ Labels(r.code) \subseteq Nat /\ Starts(r.code) \subseteq Labels(r.code)
         /\ 0 \in Starts(r.code)
<1>1. WellFormed(r) /\ LabelsDefined(r.code)
  BY NativeRegexAssumption
<1>2. r.code \in Seq(Cells)
  BY <1>1 DEF WellFormed
<1>3. Len(r.code) \in Nat
  BY <1>2
<1>4. 0 \in Starts(r.code)
  BY <1>1 DEF LabelsDefined
<1> QED BY <1>3, <1>4 DEF Labels, Starts

\* The addresses a program leads to are addresses of the program, and those
\* that a label names are those of instructions.
LEMMA CodeClosed ==
  ASSUME TypeOK, ip \in Starts(Code)
  PROVE  /\ Instr \in Cells
         /\ After(Code, ip) \in Labels(Code)
         /\ Continuation(Code, ip) \in Labels(Code)
         /\ Instr.op \in ConsumeOps => After(Code, ip) \in Starts(Code)
         /\ Instr.op \in SplitOps => SplitPointer(Code, ip) \in Starts(Code)
         /\ Instr.op = "TEST_AND_SET_FLAG" => Instr.operand \in 0 .. regex.flags - 1
<1>1. regex \in Regexes /\ WellFormed(regex) /\ LabelsDefined(Code)
  BY NativeRegexAssumption DEF TypeOK, Code
<1>2. Code \in Seq(Cells) /\ ip + 1 \in DOMAIN Code
  BY <1>1 DEF WellFormed, Starts, Code
<1>3. Instr \in Cells
  BY <1>2 DEF Instr
<1>4. /\ After(Code, ip) \in Labels(Code)
      /\ Continuation(Code, ip) \in Labels(Code)
      /\ Instr.op = "TEST_AND_SET_FLAG" => Instr.operand < regex.flags
  BY <1>1 DEF WellFormed, Code, Instr
<1>5. Instr.operand \in Nat /\ regex.flags \in Nat
  BY <1>1, <1>3, NativeRegexAssumption DEF Cells
<1>6. LabelUses(Code, ip) \subseteq Starts(Code)
  BY <1>1 DEF LabelsDefined
<1>7. Instr.op \in ConsumeOps => After(Code, ip) \in LabelUses(Code, ip)
  BY DEF LabelUses, Instr, ConsumeOps, SplitOps
<1>8. Instr.op \in SplitOps => SplitPointer(Code, ip) \in LabelUses(Code, ip)
  BY DEF LabelUses, Instr, SplitOps, ConsumeOps
<1> QED BY <1>3, <1>4, <1>5, <1>6, <1>7, <1>8

\* The instruction that runs.
LEMMA AtInstruction ==
  ASSUME TypeOK, InCode, Running
  PROVE  ip \in Starts(Code)
BY DEF InCode, Running, AtEnd, Labels

\* The numbers of pointers a client asks for.
LEMMA NPointersNat ==
  ASSUME NEW r \in Regexes, NEW n \in NPointers(r)
  PROVE  n \in Nat
BY NativeRegexAssumption DEF NPointers

\* NULL is a capture pointer.
LEMMA NullPointersType ==
  ASSUME NEW n \in Nat, NEW last \in Nat
  PROVE  NullPointers(n) \in Pointers(n, last)
BY DEF NullPointers, Pointers

-----------------------------------------------------------------------------
(* Calls begin and end                                                     *)

Results(n, last) == [status : {"NONE", "OK", "E_NOMEM"}, found : BOOLEAN,
                     ptrs : Pointers(n, last)]

NothingYet ==
  /\ NoPool /\ Place \in Idle \cup {"flags", "string"}
  /\ pc \notin {"spawn", "split", "free"} /\ regex \in Regexes

\* Without blocks there is nothing to get wrong.
LEMMA NoPoolIsFine == NothingYet => Pool /\ InCode /\ Blocks = {}
<1> SUFFICES ASSUME NothingYet PROVE Pool /\ InCode /\ Blocks = {}
  OBVIOUS
<1> USE DEF NothingYet
<1>1. Blocks = {} /\ DOMAIN instr = {}
  BY DEF NoPool, NoBlocks, Blocks
<1>2. Links
  BY <1>1 DEF Links, Linking
<1>3. RootRegions /\ GrantedIsLoose
  BY <1>1 DEF RootRegions, NoPool, GrantedIsLoose
<1>4. Where
  BY DEF Where, Idle, InLoop, NoPool
<1>5. InCode
  BY <1>1, LabelsNat DEF InCode, Code, NoPool, Idle, Labels
<1> QED BY <1>1, <1>2, <1>3, <1>4, <1>5 DEF Pool

\* The types of what makes up the pool.
PoolTypes ==
  /\ Blocks \subseteq Nat
  /\ next \in [Blocks -> Handles] /\ region \in [Blocks -> Regions]
  /\ instr \in [Blocks -> Nat]
  /\ ptrs \in [Blocks -> Pointers(n_pointers, Len(text))]
  /\ {freelist, head, matched, state, predecessor} \subseteq Handles
  /\ pos \in 0 .. Len(text) /\ ip \in Nat
  /\ regflags \subseteq 0 .. regex.flags - 1
  /\ memflags \subseteq RegisterFlags .. regex.flags - 1

\* Nothing is wrong with the types of no blocks.
LEMMA NoPoolTypes == NoPool /\ text \in Texts => PoolTypes
<1> SUFFICES ASSUME NoPool, text \in Texts PROVE PoolTypes
  OBVIOUS
<1>1. Len(text) \in Nat
  BY NativeRegexAssumption
<1> QED BY <1>1 DEF NoPool, NoBlocks, Blocks, Handles, PoolTypes

\* The same of the next state.
LEMMA NoPoolNext ==
  /\ NothingYet' => Pool' /\ InCode' /\ Blocks' = {}
  /\ (NoPool /\ text \in Texts)' => PoolTypes'
<1>1. (NothingYet => Pool /\ InCode /\ Blocks = {})'
  BY NoPoolIsFine, PTL
<1>2. (NoPool /\ text \in Texts => PoolTypes)'
  BY NoPoolTypes, PTL
<1> QED BY <1>1, <1>2

\* Before the first context exists the invariant holds.
LEMMA InitInv == Init => Inv
<1> SUFFICES ASSUME Init PROVE Inv
  OBVIOUS
<1>1. NoPool /\ pc = "none" /\ Place = "none" /\ regex \in Regexes
  BY DEF Init, NoFrame, NoPool, Place
<1>2. Pool /\ InCode /\ Blocks = {}
  BY <1>1, NoPoolIsFine DEF Idle, NothingYet
<1>3. text \in Texts /\ Len(text) \in Nat /\ n_pointers = 0
  BY NativeRegexAssumption DEF Init
<1>4. NullPointers(0) \in Pointers(0, Len(text))
  BY <1>3, NullPointersType
<1>5. TypeOK
  <2>1. result \in Results(n_pointers, Len(text))
    BY <1>3, <1>4 DEF Init, Result, Results
  <2>2. n_pointers \in NPointers(regex) /\ pc \in Places /\ caller \in Callers \cup {"none"}
    BY <1>3 DEF Init, NoFrame, Places, Idle, NPointers
  <2> QED
    BY <1>1, <1>3, <2>1, <2>2, NoPoolTypes DEF Init, NoFrame, TypeOK, Results, PoolTypes
<1>6. Memory
  BY <1>1, <1>2 DEF Init, NoFrame, Memory, BufferOwned, BlocksDisjoint, Asked,
                    RealBuffers, Idle
<1> QED BY <1>2, <1>5, <1>6 DEF Inv

\* crex_create_context starts from no buffer.
LEMMA CreateContextInv == Inv /\ CreateContext => Inv'
<1> SUFFICES ASSUME Inv, CreateContext PROVE Inv'
  OBVIOUS
<1> USE DEF CreateContext, heapVars, args, frameVars, poolVars, memVars, runVars,
            callVars, flagVars, stackVars
<1>1. Place = "none" /\ NoPool /\ pc = "none"
  BY DEF Place, Inv, Pool, Where, Idle
<1>2. NoPool' /\ Place' \in Idle /\ pc' = "idle" /\ regex' \in Regexes
  BY <1>1 DEF NoPool, Place, Idle, Inv, TypeOK
<1>3. Pool' /\ InCode' /\ Blocks' = Blocks
  BY <1>2, NoPoolNext DEF Idle, Blocks, NothingYet
<1>4. TypeOK'
  BY DEF Inv, TypeOK, Places, Idle, Blocks, Handles
<1>5. Memory'
  BY <1>1, <1>3 DEF Inv, Memory, BufferOwned, BlocksDisjoint, Asked, RealBuffers, Idle,
                    FlagWords, BlockSize
<1> QED BY <1>3, <1>4, <1>5 DEF Inv

\* crex_destroy_context frees the buffer the context owns.
LEMMA DestroyContextInv == Inv /\ DestroyContext => Inv'
<1> SUFFICES ASSUME Inv, DestroyContext PROVE Inv'
  OBVIOUS
<1> USE DEF DestroyContext, args, frameVars, poolVars, memVars, runVars,
            callVars, flagVars, stackVars
<1>1. Place = "idle" /\ NoPool /\ pc = "idle"
  BY DEF Place, Inv, Pool, Where, Idle
<1>2. NoPool' /\ Place' \in Idle /\ pc' = "none" /\ regex' \in Regexes
  BY <1>1 DEF NoPool, Place, Idle, Inv, TypeOK
<1>3. Pool' /\ InCode' /\ Blocks' = Blocks
  BY <1>2, NoPoolNext DEF Idle, Blocks, NothingYet
<1>H. heap \in [Buffers -> Nat] /\ heap' \in [Buffers -> Nat]
  BY DEF Inv, TypeOK
<1>4. TypeOK'
  <2>1. /\ UNCHANGED <<args, result, frameVars>> /\ pc' = "none"
        /\ ctxBuffer' = NoBuffer /\ ctxCapacity' = 0
    OBVIOUS
  <2> HIDE DEF DestroyContext
  <2>2. {ctxBuffer', buffer', fresh'} \subseteq Buffers \cup {NoBuffer}
    BY <2>1 DEF Inv, TypeOK
  <2>3. {ctxCapacity', capacity', bump', request', ip'} \subseteq Nat
    BY <2>1 DEF Inv, TypeOK
  <2> QED BY <1>H, <2>1, <2>2, <2>3 DEF Inv, TypeOK, Places, Idle, Blocks, Handles
<1>5. Memory'
  <2>1. heap \in [Buffers -> Nat]
    BY <1>H
  <2> QED
    BY <1>1, <1>3, <2>1 DEF Inv, Memory, BufferOwned, BlocksDisjoint, Asked, RealBuffers,
                    Idle, FlagWords, BlockSize
<1> QED BY <1>3, <1>4, <1>5 DEF Inv

\* The prologue takes the context's buffer with nothing in it.
LEMMA CallInv == Inv /\ Call => Inv'
<1> SUFFICES ASSUME Inv, Call PROVE Inv'
  OBVIOUS
<1> USE DEF heapVars, memVars, runVars, flagVars, callVars
<1>1. PICK r \in Regexes, t \in Texts : \E n \in NPointers(r) :
        /\ regex' = r /\ text' = t /\ n_pointers' = n
        /\ result' = Result("NONE", FALSE, NullPointers(n))
  BY DEF Call
<1>2. PICK n \in NPointers(r) :
        /\ regex' = r /\ text' = t /\ n_pointers' = n
        /\ result' = Result("NONE", FALSE, NullPointers(n))
  BY <1>1
<1>3. n \in Nat /\ Len(t) \in Nat
  BY NPointersNat, NativeRegexAssumption
<1>4. NoPool /\ pc = "idle" /\ bump = 0
  BY DEF Inv, Pool, Where, Call, Place, Idle, NoPool
<1>5. /\ NoPool'
      /\ \/ pc' = "alloc" /\ request' = FlagWords' /\ caller' = "flags" /\ FlagWords' > 0
         \/ pc' = "string" /\ ~(FlagWords' > 0) /\ UNCHANGED <<request, caller>>
  BY <1>4 DEF Call, NoPool, Allocate
<1>6. Place' \in {"flags", "string"}
  BY <1>5 DEF Place
<1>7. Pool' /\ InCode' /\ Blocks' = {}
  BY <1>2, <1>5, <1>6, NoPoolNext DEF NothingYet, Idle
<1>8. TypeOK'
  <2>1. result' \in Results(n, Len(t))
    BY <1>2, <1>3, NullPointersType DEF Result, Results
  <2>2. PoolTypes'
    BY <1>2, <1>5, NoPoolNext
  <2>3. FlagWords' \in Nat
    <3>1. regex'.flags \in Nat
      BY <1>2, NativeRegexAssumption
    <3>2. RegisterFlags \in Nat /\ RegisterFlags > 0
      BY NativeMemoryAssumption
    <3>3. \A x \in Nat, y \in Nat : y > 0 => x \div y \in Nat
      BY SMT
    <3> QED BY <3>1, <3>2, <3>3 DEF FlagWords
  <2>4. /\ pc' \in Places /\ caller' \in Callers \cup {"none"} /\ request' \in Nat
    BY <1>5, <2>3 DEF Inv, TypeOK, Places, Callers
  <2>5. /\ heap' = heap /\ ctxBuffer' = ctxBuffer /\ ctxCapacity' = ctxCapacity
        /\ buffer' = ctxBuffer /\ capacity' = ctxCapacity /\ pushed' \in BOOLEAN
        /\ bump' = bump /\ fresh' = fresh /\ scratch' = scratch /\ status' = status
        /\ spawned' = spawned
    BY DEF Call
  <2> QED BY <1>2, <2>1, <2>2, <2>4, <2>5 DEF Inv, TypeOK, Results, PoolTypes
<1>9. Memory'
  <2>1. /\ heap' = heap /\ ctxBuffer' = ctxBuffer /\ ctxCapacity' = ctxCapacity
        /\ buffer' = ctxBuffer /\ capacity' = ctxCapacity /\ bump' = 0
    BY <1>4 DEF Call
  <2>2. /\ \A b \in Buffers : heap[b] = IF b = ctxBuffer THEN ctxCapacity ELSE 0
        /\ ctxBuffer = NoBuffer => ctxCapacity = 0
        /\ ctxBuffer # NoBuffer => ctxCapacity > 0
        /\ ctxCapacity \in Nat
    BY <1>4 DEF Inv, Memory, BufferOwned, RealBuffers, Idle, TypeOK
  <2>3. BufferOwned'
    BY <1>5, <2>1, <2>2 DEF BufferOwned, Idle
  <2>4. BlocksDisjoint'
    <3>1. FlagWords' \in Nat
      BY <1>8, SizesNext
    <3> QED BY <1>5, <1>7, <2>1, <2>2, <3>1 DEF BlocksDisjoint, Idle
  <2>5. Asked' /\ RealBuffers'
    BY <1>5, <2>1, <2>2 DEF Asked, RealBuffers, Callers, Idle
  <2> QED BY <2>3, <2>4, <2>5 DEF Memory
<1> QED BY <1>7, <1>8, <1>9 DEF Inv

\* The epilogue gives the buffer to the context, however the call ended.
LEMMA EpilogueInv == Inv /\ Epilogue => Inv'
<1> SUFFICES ASSUME Inv, Epilogue PROVE Inv'
  OBVIOUS
<1> USE DEF args
<1>1. /\ NoPool' /\ pc' = "idle" /\ Place' \in Idle
      /\ regex' = regex /\ text' = text /\ n_pointers' = n_pointers
  BY DEF Epilogue, FrameGone, NoPool, Place, Idle
<1>2. regex \in Regexes /\ text \in Texts /\ n_pointers \in Nat
  BY Sizes DEF Inv, TypeOK
<1>3. Pool' /\ InCode' /\ Blocks' = {}
  BY <1>1, <1>2, NoPoolNext DEF NothingYet, Idle
<1>4. TypeOK'
  <2>1. PoolTypes'
    BY <1>1, <1>2, NoPoolNext
  <2>2. result' \in Results(n_pointers', Len(text'))
    BY <1>1 DEF Inv, TypeOK, Epilogue, Results
  <2>3. /\ heap' = heap /\ ctxBuffer' = buffer /\ ctxCapacity' = capacity
        /\ buffer' = NoBuffer /\ capacity' = 0 /\ bump' = 0 /\ request' = 0
        /\ caller' = "none" /\ fresh' = NoBuffer /\ status' = "NONE" /\ scratch' = Null
        /\ pushed' = FALSE /\ spawned' = FALSE
    BY DEF Epilogue, FrameGone
  <2>4. pc' \in Places
    BY <1>1 DEF Places, Idle
  <2>5. /\ heap' \in [Buffers -> Nat]
        /\ {ctxBuffer', buffer', fresh'} \subseteq Buffers \cup {NoBuffer}
        /\ {ctxCapacity', capacity', bump', request', ip'} \subseteq Nat
    BY <2>1, <2>3 DEF Inv, TypeOK, PoolTypes
  <2>6. /\ regex' \in Regexes /\ text' \in Texts /\ n_pointers' \in NPointers(regex')
        /\ caller' \in Callers \cup {"none"} /\ scratch' \in Nat \cup {Null}
        /\ pushed' \in BOOLEAN /\ spawned' \in BOOLEAN
        /\ status' \in {"NONE", "OK", "E_NOMEM"}
    BY <1>1, <2>3 DEF Inv, TypeOK
  <2> QED BY <2>1, <2>2, <2>4, <2>5, <2>6 DEF TypeOK, Results, PoolTypes
<1>5. Memory'
  BY <1>1, <1>3 DEF Inv, Memory, Epilogue, FrameGone, BufferOwned, BlocksDisjoint, Asked,
                    RealBuffers, Idle
<1> QED BY <1>3, <1>4, <1>5 DEF Inv

-----------------------------------------------------------------------------
(* The allocator                                                           *)

USE DEF heapVars, args, poolVars, memVars, runVars, flagVars, callVars, stackVars,
        stepFrame, allocFrame

\* Where no memory is taken, the sizes stay right.
LEMMA MemoryKept ==
  ASSUME Memory, pc \notin Idle \cup {"alloc", "move", "epilogue"},
         pc' \notin Idle \cup {"move", "spawn", "split"},
         UNCHANGED <<heapVars, args, poolVars>>, Blocks' = Blocks, Asked'
  PROVE  Memory'
<1>1. FlagWords' = FlagWords /\ BlockSize' = BlockSize
  BY DEF FlagWords, BlockSize
<1>2. BufferOwned' /\ RealBuffers'
  BY DEF Memory, BufferOwned, RealBuffers, Idle
<1>3. BlocksDisjoint'
  BY <1>1 DEF Memory, BlocksDisjoint, Idle
<1> QED BY <1>2, <1>3 DEF Memory

\* Nothing has been asked for outside the allocator and the epilogue.
LEMMA NotAsked == pc' \notin {"alloc", "move", "epilogue"} => Asked'
BY DEF Asked

\* The flags are in the buffer, with anything in them.
LEMMA FlagsAllocatedInv == Inv /\ FlagsAllocated => Inv'
<1> SUFFICES ASSUME Inv, FlagsAllocated PROVE Inv'
  OBVIOUS
<1>1. /\ pc = "flags" /\ pc' = "string" /\ Place = "flags" /\ Place' = "string"
      /\ Blocks' = Blocks /\ NoPool
  BY DEF FlagsAllocated, Place, Blocks, Inv, Pool, Where, Idle
<1>2. Blocks = {}
  BY <1>1 DEF NoPool, NoBlocks, Blocks
<1>3. TypeOK'
  <2>1. memflags' \subseteq RegisterFlags .. regex'.flags - 1
    BY DEF FlagsAllocated
  <2>2. UNCHANGED <<heapVars, args, result, pos, poolVars, freelist, regflags, memVars,
                    stackVars, runVars, scratch, callVars>>
    BY DEF FlagsAllocated
  <2> QED BY <1>1, <2>1, <2>2 DEF Inv, TypeOK, Places, Handles, Blocks
<1>4. Memory'
  BY <1>1, MemoryKept, NotAsked DEF Inv, FlagsAllocated, Idle
<1>5. Pool'
  BY <1>1, <1>2 DEF FlagsAllocated, Pool, Links, Linking, Granted, GrantedIsLoose,
                    RootRegions, Where, NoPool, InLoop, Idle
<1>6. InCode'
  BY <1>1, <1>2 DEF InCode, FlagsAllocated
<1> QED BY <1>3, <1>4, <1>5, <1>6 DEF Inv

\* What the invariant says of an allocation under way.
LEMMA Asking ==
  ASSUME Inv, pc \in {"alloc", "move"}
  PROVE  /\ caller \in Callers /\ Place = caller /\ Granted = {}
         /\ request \in Nat /\ request > 0
         /\ request = IF caller = "flags" THEN FlagWords ELSE BlockSize
         /\ caller = "flags" => NoPool /\ Blocks = {} /\ bump = 0 /\ freelist = Null
         /\ caller # "flags" => caller \in InLoop /\ FlagWords <= bump
<1>1. /\ caller \in Callers /\ request > 0
      /\ request = IF caller = "flags" THEN FlagWords ELSE BlockSize
  BY DEF Inv, Memory, Asked
<1>2. Place = caller /\ Granted = {}
  BY DEF Place, Granted
<1>3. caller = "flags" => NoPool
  BY <1>2 DEF Inv, Pool, Where
<1>4. caller # "flags" => FlagWords <= bump
  BY DEF Inv, Memory, BlocksDisjoint, Idle
<1> QED BY <1>1, <1>2, <1>3, <1>4 DEF NoPool, NoBlocks, Blocks, Callers, InLoop, Inv, TypeOK

\* The allocator leaves the lists, and who is where in them, as they are.
LEMMA PoolUntouched ==
  ASSUME Inv, pc \in {"alloc", "move"}, pc' \in {"move", "epilogue"}, Place' = Place,
         UNCHANGED <<args, pos, flagVars, memVars, stackVars, runVars, freelist, bump>>
  PROVE  Pool' /\ InCode' /\ Blocks' = Blocks
<1>1. Blocks' = Blocks /\ Linking' = Linking
  BY DEF Blocks, Linking, Granted
<1>2. Place \in Callers /\ pc # "flags" /\ pc' # "flags"
  BY Asking
<1>3. Links' /\ GrantedIsLoose' /\ RootRegions'
  BY <1>1 DEF Inv, Pool, Links, GrantedIsLoose, RootRegions
<1>4. Where'
  BY <1>1, <1>2 DEF Inv, Pool, Where, NoPool, Callers, Idle, InLoop
<1>5. InCode'
  BY <1>1 DEF Inv, InCode, Code, Instr
<1> QED BY <1>1, <1>3, <1>4, <1>5 DEF Pool

\* A block above all others is granted.
LEMMA PoolGrown ==
  ASSUME Inv, pc \in {"alloc", "move"}, pc' = caller, scratch' = bump,
         UNCHANGED <<args, pos, flagVars, memVars, stackVars, runVars, freelist>>
  PROVE  Pool' /\ InCode' /\ Blocks' = Blocks /\ bump \notin Blocks
<1>1. /\ caller \in Callers /\ Place = caller /\ Granted = {}
      /\ BlockSize \in Nat /\ BlockSize > 0 /\ bump \in Nat /\ Blocks \subseteq Nat
  BY Asking, Sizes DEF Inv, TypeOK
<1>2. bump \notin Blocks
  <2>1. \A h \in Blocks : h + BlockSize <= bump
    BY DEF Inv, Memory, BlocksDisjoint
  <2> QED BY <1>1, <2>1
<1>3. Blocks' = Blocks /\ Place' = caller /\ pc' # "free" /\ pc # "free"
  BY <1>1 DEF Blocks, Place, Callers
<1>4. Linking' = Linking /\ Linking \subseteq Blocks
  BY <1>1, <1>2, <1>3 DEF Linking, Granted
<1>5. /\ \A b \in Linking : next[b] \in Blocks \cup {Null}
      /\ freelist \in Blocks \cup {Null} /\ bump # Null
  BY <1>1, <1>4 DEF Inv, TypeOK, Handles, Null
<1>6. Links' /\ RootRegions'
  BY <1>3, <1>4 DEF Inv, Pool, Links, RootRegions
<1>7. GrantedIsLoose'
  BY <1>1, <1>2, <1>3, <1>4, <1>5 DEF GrantedIsLoose
<1>8. Where'
  <2>1. NoPool => NoPool' \/ pc' # "flags"
    BY DEF NoPool
  <2> QED BY <1>1, <1>3, <2>1 DEF Inv, Pool, Where, Callers, Idle, InLoop
<1>9. InCode'
  BY <1>1, <1>3 DEF Inv, InCode, Code, Instr, Callers
<1> QED BY <1>2, <1>3, <1>6, <1>7, <1>8, <1>9 DEF Pool

\* The types of what the allocator leaves alone.
LEMMA AllocTypes ==
  ASSUME TypeOK, UNCHANGED <<allocFrame, memVars>>, freelist' \in Handles,
         heap' \in [Buffers -> Nat], buffer' \in Buffers \cup {NoBuffer},
         fresh' \in Buffers \cup {NoBuffer}, capacity' \in Nat, bump' \in Nat,
         pc' \in Places, scratch' \in Nat \cup {Null}, status' \in {"NONE", "OK", "E_NOMEM"}
  PROVE  TypeOK'
<1>1. {ctxBuffer', buffer', fresh'} \subseteq Buffers \cup {NoBuffer}
  BY DEF TypeOK
<1>2. {ctxCapacity', capacity', bump', request', ip'} \subseteq Nat
  BY DEF TypeOK
<1>3. {freelist', head', matched', state', predecessor'} \subseteq Handles'
  BY DEF TypeOK, Handles, Blocks
<1> QED BY <1>1, <1>2, <1>3 DEF TypeOK, Blocks, Handles

\* There is room below the capacity.
LEMMA AllocFromBumpInv == Inv /\ AllocFromBump => Inv'
<1> SUFFICES ASSUME Inv, AllocFromBump PROVE Inv'
  OBVIOUS
<1>1. /\ pc = "alloc" /\ pc' = caller /\ scratch' = bump /\ bump' = bump + request
      /\ bump + request <= capacity
      /\ UNCHANGED <<allocFrame, heap, buffer, capacity, freelist, memVars, fresh, status>>
  BY DEF AllocFromBump, Fits
<1>2. /\ caller \in Callers /\ request \in Nat /\ request > 0
      /\ request = IF caller = "flags" THEN FlagWords ELSE BlockSize
      /\ caller = "flags" => Blocks = {} /\ bump = 0
      /\ caller # "flags" => FlagWords <= bump
  BY <1>1, Asking
<1>3. Pool' /\ InCode' /\ Blocks' = Blocks /\ bump \notin Blocks
  BY <1>1, PoolGrown
<1>4. TypeOK'
  <2>1. pc' \in Places /\ freelist' \in Handles
    BY <1>1, <1>2 DEF Inv, TypeOK, Places
  <2>2. bump' \in Nat /\ scratch' \in Nat
    BY <1>1, <1>2 DEF Inv, TypeOK
  <2>3. /\ heap' = heap /\ buffer' = buffer /\ capacity' = capacity
        /\ fresh' = fresh /\ status' = status
    BY <1>1
  <2> QED BY <1>1, <2>1, <2>2, <2>3, AllocTypes DEF Inv, TypeOK
<1>5. Memory'
  <2>1. BufferOwned' /\ Asked' /\ RealBuffers'
    BY <1>1, <1>2 DEF Inv, Memory, BufferOwned, Asked, RealBuffers, Idle, Callers
  <2>2. FlagWords' = FlagWords /\ BlockSize' = BlockSize
    BY <1>1 DEF FlagWords, BlockSize
  <2>3. /\ FlagWords \in Nat /\ BlockSize \in Nat /\ bump \in Nat /\ capacity \in Nat
        /\ Blocks \subseteq Nat
    BY Sizes DEF Inv, TypeOK
  <2>4. /\ \A h \in Blocks : FlagWords <= h /\ h + BlockSize <= bump
        /\ \A h, k \in Blocks : h < k => h + BlockSize <= k
    BY DEF Inv, Memory, BlocksDisjoint
  <2>5. FlagWords <= bump' /\ (pc' \in {"spawn", "split"} => bump + BlockSize <= bump')
    BY <1>1, <1>2, <2>3
  <2>6. \A h \in Blocks : h + BlockSize <= bump'
    BY <1>1, <1>2, <2>3, <2>4
  <2>7. pc' \in {"spawn", "split"} =>
          /\ FlagWords <= bump /\ bump + BlockSize <= bump'
          /\ \A h \in Blocks : h + BlockSize <= bump
    BY <1>1, <1>2, <2>4, <2>5
  <2>8. BlocksDisjoint'
    BY <1>1, <1>3, <2>2, <2>4, <2>5, <2>6, <2>7 DEF BlocksDisjoint
  <2> QED BY <2>1, <2>8 DEF Memory
<1> QED BY <1>3, <1>4, <1>5 DEF Inv

\* Twice what is required was granted.  The old buffer is still there.
LEMMA AllocNewBufferInv == Inv /\ AllocNewBuffer => Inv'
<1> SUFFICES ASSUME Inv, AllocNewBuffer PROVE Inv'
  OBVIOUS
<1>1. /\ pc = "alloc" /\ pc' = "move"
      /\ UNCHANGED <<allocFrame, scratch, poolVars, freelist, memVars, status>>
  BY DEF AllocNewBuffer, NeedsBuffer
<1>2. PICK b \in Buffers : /\ heap[b] = 0
                           /\ heap' = [heap EXCEPT ![b] = NewCapacity]
                           /\ fresh' = b
  BY DEF AllocNewBuffer
<1>3. /\ caller \in Callers /\ request \in Nat /\ request > 0
      /\ bump \in Nat /\ Place = caller /\ heap \in [Buffers -> Nat]
  BY <1>1, Asking DEF Inv, TypeOK
<1>4. NewCapacity \in Nat /\ NewCapacity' = NewCapacity
  BY <1>1, <1>3 DEF NewCapacity
<1>5. Place' = Place
  BY <1>1, <1>3 DEF Place
<1>6. Pool' /\ InCode' /\ Blocks' = Blocks
  BY <1>1, <1>5, PoolUntouched
<1>7. heap' \in [Buffers -> Nat]
  BY <1>2, <1>3, <1>4
<1>8. TypeOK'
  <2>1. pc' \in Places /\ freelist' \in Handles
    BY <1>1 DEF Inv, TypeOK, Places
  <2>2. buffer' = buffer /\ capacity' = capacity /\ bump' = bump /\ scratch' = scratch
        /\ status' = status /\ fresh' = b
    BY <1>1, <1>2
  <2> QED BY <1>1, <1>7, <2>1, <2>2, AllocTypes DEF Inv, TypeOK
<1>9. Memory'
  <2>1. /\ \A c \in Buffers : heap[c] = IF c = buffer THEN capacity ELSE 0
        /\ buffer = NoBuffer => capacity = 0
        /\ buffer # NoBuffer => capacity > 0
        /\ capacity \in Nat
    BY <1>1 DEF Inv, Memory, BufferOwned, RealBuffers, Idle, TypeOK
  <2>2. b # buffer
    BY <1>2, <2>1, NativeMemoryAssumption
  <2>3. BufferOwned'
    <3>1. \A c \in Buffers : heap'[c] = IF c = b THEN NewCapacity
                                        ELSE IF c = buffer THEN capacity ELSE 0
      BY <1>2, <1>3, <2>1
    <3> QED BY <1>1, <1>2, <1>4, <2>1, <3>1 DEF BufferOwned, Idle
  <2>4. RealBuffers' /\ Asked'
    <3>1. FlagWords' = FlagWords /\ BlockSize' = BlockSize
      BY <1>1 DEF FlagWords, BlockSize
    <3> QED BY <1>1, <1>2, <2>1, <2>2, <3>1 DEF Inv, Memory, RealBuffers, Asked, Idle
  <2>5. BlocksDisjoint'
    BY <1>1, <1>6 DEF Inv, Memory, BlocksDisjoint, FlagWords, BlockSize, Idle
  <2> QED BY <2>3, <2>4, <2>5 DEF Memory
<1> QED BY <1>6, <1>8, <1>9 DEF Inv

\* The old buffer is refused: the epilogue follows.
LEMMA AllocFailsInv == Inv /\ AllocFails => Inv'
<1> SUFFICES ASSUME Inv, AllocFails PROVE Inv'
  OBVIOUS
<1>1. /\ pc = "alloc" /\ pc' = "epilogue" /\ status' = "E_NOMEM"
      /\ UNCHANGED <<allocFrame, scratch, heap, poolVars, freelist, memVars, fresh>>
  BY DEF AllocFails, NeedsBuffer
<1>2. caller \in Callers /\ Place = caller
  BY <1>1, Asking
<1>3. Place' = Place
  BY <1>1, <1>2 DEF Place
<1>4. Pool' /\ InCode' /\ Blocks' = Blocks
  BY <1>1, <1>3, PoolUntouched
<1>5. TypeOK'
  <2>1. pc' \in Places /\ freelist' \in Handles
    BY <1>1 DEF Inv, TypeOK, Places
  <2> QED BY <1>1, <2>1, AllocTypes DEF Inv, TypeOK
<1>6. Memory'
  <2>1. BufferOwned' /\ RealBuffers' /\ Asked'
    BY <1>1, <1>2 DEF Inv, Memory, BufferOwned, RealBuffers, Asked, Idle
  <2>2. BlocksDisjoint'
    BY <1>1, <1>4 DEF Inv, Memory, BlocksDisjoint, FlagWords, BlockSize, Idle
  <2> QED BY <2>1, <2>2 DEF Memory
<1> QED BY <1>4, <1>5, <1>6 DEF Inv

\* What was there is copied, all of it.
LEMMA MoveKeeps ==
  ASSUME Inv, MoveBuffer
  PROVE  UNCHANGED memVars
<1>1. {h \in Blocks : h + BlockSize <= bump} = Blocks
  BY DEF Inv, Memory, BlocksDisjoint
<1>2. /\ next' = [h \in Blocks |-> next[h]] /\ instr' = [h \in Blocks |-> instr[h]]
      /\ ptrs' = [h \in Blocks |-> ptrs[h]] /\ region' = [h \in Blocks |-> region[h]]
  BY <1>1 DEF MoveBuffer
<1> QED BY <1>2 DEF Inv, TypeOK

\* The registers describe the new buffer, and the old one is given back.
LEMMA MoveBufferInv == Inv /\ MoveBuffer => Inv'
<1> SUFFICES ASSUME Inv, MoveBuffer PROVE Inv'
  OBVIOUS
<1>1. /\ pc = "move" /\ pc' = caller /\ scratch' = bump /\ bump' = bump + request
      /\ capacity' = NewCapacity /\ buffer' = fresh /\ fresh' = NoBuffer
      /\ heap' = [b \in Buffers |-> IF b = buffer THEN 0 ELSE heap[b]]
      /\ UNCHANGED <<allocFrame, freelist, status>>
  BY DEF MoveBuffer
<1>2. UNCHANGED memVars
  BY MoveKeeps
<1>3. /\ caller \in Callers /\ request \in Nat /\ request > 0
      /\ request = IF caller = "flags" THEN FlagWords ELSE BlockSize
      /\ caller = "flags" => Blocks = {} /\ bump = 0
      /\ caller # "flags" => FlagWords <= bump
  BY <1>1, Asking
<1>4. Pool' /\ InCode' /\ Blocks' = Blocks /\ bump \notin Blocks
  BY <1>1, <1>2, PoolGrown
<1>5. /\ heap \in [Buffers -> Nat] /\ bump \in Nat /\ FlagWords \in Nat
      /\ BlockSize \in Nat /\ Blocks \subseteq Nat
  BY Sizes DEF Inv, TypeOK
<1>6. NewCapacity \in Nat /\ bump' <= NewCapacity /\ NewCapacity > 0 /\ bump' \in Nat
  BY <1>1, <1>3, <1>5 DEF NewCapacity
<1>7. /\ \A b \in Buffers : heap[b] = IF b = fresh THEN NewCapacity
                                      ELSE IF b = buffer THEN capacity ELSE 0
      /\ fresh \in Buffers /\ fresh # buffer
  BY <1>1 DEF Inv, Memory, BufferOwned, RealBuffers, Idle
<1>8. TypeOK'
  <2>1. pc' \in Places /\ freelist' \in Handles
    BY <1>1, <1>3 DEF Inv, TypeOK, Places
  <2>2. heap' \in [Buffers -> Nat]
    BY <1>1, <1>5
  <2>3. /\ buffer' \in Buffers \cup {NoBuffer} /\ capacity' \in Nat /\ bump' \in Nat
        /\ fresh' = NoBuffer /\ scratch' \in Nat /\ status' = status
    BY <1>1, <1>5, <1>6, <1>7
  <2> QED BY <1>1, <1>2, <2>1, <2>2, <2>3, AllocTypes DEF Inv, TypeOK
<1>9. Memory'
  <2>1. pc' \notin Idle \cup {"move", "alloc", "epilogue"}
    BY <1>1, <1>3 DEF Callers, Idle
  <2>2. \A b \in Buffers : heap'[b] = IF b = buffer' THEN capacity' ELSE 0
    BY <1>1, <1>7
  <2>3. buffer' # NoBuffer
    BY <1>1, <1>7, NativeMemoryAssumption
  <2>4. BufferOwned' /\ RealBuffers' /\ Asked'
    BY <1>1, <1>6, <2>1, <2>2, <2>3 DEF BufferOwned, RealBuffers, Asked, Idle
  <2>5. FlagWords' = FlagWords /\ BlockSize' = BlockSize
    BY <1>1 DEF FlagWords, BlockSize
  <2>6. /\ \A h \in Blocks : FlagWords <= h /\ h + BlockSize <= bump
        /\ \A h, k \in Blocks : h < k => h + BlockSize <= k
    BY DEF Inv, Memory, BlocksDisjoint
  <2>7. FlagWords <= bump'
    BY <1>1, <1>3, <1>5
  <2>8. \A h \in Blocks : h + BlockSize <= bump'
    BY <1>1, <1>3, <1>5, <2>6
  <2>9. pc' \in {"spawn", "split"} => FlagWords <= bump /\ bump + BlockSize <= bump'
    BY <1>1, <1>3, <1>5
  <2>10. BlocksDisjoint'
    BY <1>1, <1>4, <1>6, <2>5, <2>6, <2>7, <2>8, <2>9 DEF BlocksDisjoint
  <2> QED BY <2>4, <2>10 DEF Memory
<1> QED BY <1>4, <1>8, <1>9 DEF Inv

\* A block is taken off the free list.
LEMMA AllocFromFreelistInv == Inv /\ AllocFromFreelist => Inv'
<1> SUFFICES ASSUME Inv, AllocFromFreelist PROVE Inv'
  OBVIOUS
<1>1. /\ pc = "alloc" /\ pc' = caller /\ scratch' = freelist /\ freelist # Null
      /\ freelist' = next[freelist]
      /\ UNCHANGED <<allocFrame, heap, poolVars, memVars, fresh, status>>
  BY DEF AllocFromFreelist
<1>2. /\ caller \in {"spawn", "split"} /\ Place = caller /\ Granted = {}
      /\ FlagWords <= bump
  BY <1>1, Asking DEF Callers
<1>3. Blocks' = Blocks /\ Place' = caller
  BY <1>1, <1>2 DEF Blocks, Place
<1>4. /\ freelist \in Blocks /\ Null \notin Blocks /\ Blocks \subseteq Nat
      /\ \A b \in Blocks : next[b] \in Blocks \cup {Null}
      /\ freelist' \in Handles
  <2>1. /\ freelist \in Blocks /\ Null \notin Blocks /\ Blocks \subseteq Nat
        /\ next \in [Blocks -> Blocks \cup {Null}]
    BY <1>1 DEF Inv, TypeOK, Handles, Null
  <2> QED BY <1>1, <2>1 DEF Handles
<1>5. Links /\ RootRegions /\ Where
  BY DEF Inv, Pool
<1>6. /\ region[freelist] = "free" /\ freelist # matched /\ freelist \in Linking
      /\ Linking \subseteq Blocks
  BY <1>1, <1>2, <1>4, <1>5 DEF RootRegions, Linking
<1>7. Linking' = Linking \ {freelist}
  BY <1>1, <1>2, <1>3 DEF Linking, Granted
<1>8. TypeOK'
  <2>1. pc' \in Places
    BY <1>1, <1>2 DEF Places, Callers
  <2> QED BY <1>1, <1>4, <2>1, AllocTypes DEF Inv, TypeOK
<1>9. Memory'
  <2>1. BufferOwned' /\ RealBuffers' /\ Asked'
    BY <1>1, <1>2 DEF Inv, Memory, BufferOwned, RealBuffers, Asked, Idle
  <2>2. FlagWords' = FlagWords /\ BlockSize' = BlockSize
    BY <1>1 DEF FlagWords, BlockSize
  <2>3. /\ bump <= capacity
        /\ \A h \in Blocks : FlagWords <= h /\ h + BlockSize <= bump
        /\ \A h, k \in Blocks : h < k => h + BlockSize <= k
    BY DEF Inv, Memory, BlocksDisjoint
  <2>4. \A h \in Blocks : h # freelist =>
          h + BlockSize <= freelist \/ freelist + BlockSize <= h
    BY <1>4, <2>3
  <2>5. BlocksDisjoint'
    BY <1>1, <1>2, <1>3, <1>4, <2>2, <2>3, <2>4 DEF BlocksDisjoint, Idle
  <2> QED BY <2>1, <2>5 DEF Memory
<1>10. Pool'
  <2>1. /\ \A b \in Linking : next[b] # Null => next[b] # freelist
        /\ freelist' # Null => freelist' \in Blocks /\ region[freelist'] = "free"
        /\ \A b \in Linking \ {freelist} : next[b] # Null => next[b] # freelist'
        /\ freelist' # freelist
    BY <1>1, <1>4, <1>5, <1>6 DEF Links
  <2>2. Links'
    BY <1>1, <1>2, <1>5, <1>7, <2>1 DEF Links
  <2>3. GrantedIsLoose'
    BY <1>1, <1>3, <1>4, <1>6, <1>7, <2>1 DEF GrantedIsLoose
  <2>4. RootRegions'
    BY <1>1, <1>2, <1>3, <1>5, <2>1 DEF RootRegions
  <2>5. Where'
    BY <1>1, <1>2, <1>3, <1>5 DEF Where, Idle, InLoop
  <2> QED BY <2>2, <2>3, <2>4, <2>5 DEF Pool
<1>11. InCode'
  BY <1>1, <1>2, <1>3 DEF Inv, InCode, Code, Instr
<1> QED BY <1>8, <1>9, <1>10, <1>11 DEF Inv

-----------------------------------------------------------------------------
(* The loops                                                               *)

\* What the invariant says of the lists in the loop over the states.
LoopLists ==
  /\ Null \notin Blocks /\ Linking \subseteq Blocks
  /\ \A b \in Blocks : region[b] # "matched" /\ b \notin Granted => b \in Linking
  /\ \A b, c \in Linking : next[b] = next[c] /\ next[b] # Null => b = c
  /\ \A b \in Linking : next[b] # Null =>
       /\ next[b] \in Blocks /\ next[b] # freelist /\ next[b] # head
       /\ region[b] = "free" => region[next[b]] = "free"
       /\ region[b] = "todo" => region[next[b]] = "todo"
       /\ region[b] = "kept" =>
            \/ region[next[b]] = "kept"
            \/ b = predecessor /\ next[b] = state /\ region[next[b]] = "todo"
  /\ freelist # Null => freelist \in Blocks /\ region[freelist] = "free"
  /\ state # Null => state \in Linking /\ region[state] = "todo"
  /\ predecessor = Null => head = state
  /\ predecessor # Null => /\ predecessor \in Linking /\ region[predecessor] = "kept"
                           /\ next[predecessor] = state
                           /\ head \in Blocks /\ region[head] = "kept"
  /\ \A b \in Blocks : region[b] = "matched" <=> b = matched
  /\ matched # Null => n_pointers # 0

\* In the loop over the states R_STATE has one place on the list.
LEMMA LoopFacts == Inv /\ Place \in InLoop => LoopLists
<1> SUFFICES ASSUME Inv, Place \in InLoop PROVE LoopLists
  OBVIOUS
<1>1. pc # "free"
  BY DEF InLoop, Place
<1>2. Links /\ RootRegions /\ Where /\ GrantedIsLoose
  BY DEF Inv, Pool
<1>3. /\ next \in [Blocks -> Handles] /\ region \in [Blocks -> Regions]
      /\ {freelist, head, matched, state, predecessor} \subseteq Handles
      /\ Blocks \subseteq Nat
  BY DEF Inv, TypeOK
<1>4. /\ Linking \subseteq Blocks
      /\ \A b \in Blocks : region[b] # "matched" /\ b \notin Granted => b \in Linking
  BY <1>1, <1>2 DEF Linking, RootRegions
<1>5. \A b, c \in Linking : next[b] = next[c] /\ next[b] # Null => b = c
  BY <1>2 DEF Links
<1>6. \A b \in Linking : next[b] # Null =>
        /\ next[b] \in Blocks /\ next[b] # freelist /\ next[b] # head
        /\ region[b] = "free" => region[next[b]] = "free"
        /\ region[b] = "todo" => region[next[b]] = "todo"
        /\ region[b] = "kept" =>
             \/ region[next[b]] = "kept"
             \/ b = predecessor /\ next[b] = state /\ region[next[b]] = "todo"
  BY <1>1, <1>2, <1>3, <1>4 DEF Links, Handles
<1>7. /\ freelist # Null => freelist \in Blocks /\ region[freelist] = "free"
      /\ matched # Null => n_pointers # 0
      /\ \A b \in Blocks : region[b] = "matched" <=> b = matched
  BY <1>2, <1>3 DEF RootRegions, Handles
<1>8. \A b \in Blocks : b \in Granted => region[b] = "free"
  BY <1>2 DEF GrantedIsLoose, Granted
<1>9. /\ state # Null => state \in Linking /\ region[state] = "todo"
      /\ predecessor = Null => head = state
      /\ predecessor # Null => /\ predecessor \in Linking /\ region[predecessor] = "kept"
                               /\ next[predecessor] = state
                               /\ head \in Blocks /\ region[head] = "kept"
  BY <1>2, <1>3, <1>4, <1>8 DEF Where, Handles
<1>10. Null \notin Blocks
  BY <1>3 DEF Null
<1> QED BY <1>4, <1>5, <1>6, <1>7, <1>9, <1>10 DEF LoopLists

\* A position begins: the states that waited are to run.
LEMMA EnterPositionInv == Inv /\ EnterPosition => Inv'
<1> SUFFICES ASSUME Inv, EnterPosition PROVE Inv'
  OBVIOUS
<1>1. /\ Blocks' = Blocks /\ pc = "string" /\ pc' = "list" /\ Place = "string"
      /\ Place' = "list"
  BY DEF EnterPosition, Blocks, Place
<1>2. /\ state' = head /\ predecessor' = Null /\ spawned' = FALSE /\ pushed' \in BOOLEAN
      /\ region' = [h \in Blocks |-> IF region[h] = "kept" THEN "todo" ELSE region[h]]
      /\ regflags' \in {regflags, {}} /\ memflags' \in {memflags, {}}
      /\ UNCHANGED <<heapVars, args, result, pos, poolVars, freelist, next, instr, ptrs,
                     head, matched, ip, scratch, callVars>>
  BY DEF EnterPosition, Inv, TypeOK
<1>3. region' \in [Blocks -> Regions]
  BY <1>2 DEF Inv, TypeOK, Regions
<1>4. TypeOK'
  <2>1. {freelist', head', matched', state', predecessor'} \subseteq Handles'
    BY <1>1, <1>2 DEF Inv, TypeOK, Handles
  <2>2. /\ regflags' \subseteq 0 .. regex'.flags - 1
        /\ memflags' \subseteq RegisterFlags .. regex'.flags - 1
    BY <1>2 DEF Inv, TypeOK
  <2>3. pc' \in Places /\ spawned' \in BOOLEAN
    BY <1>1, <1>2 DEF Places
  <2> QED BY <1>1, <1>2, <1>3, <2>1, <2>2, <2>3 DEF Inv, TypeOK, Handles
<1>5. Memory'
  BY <1>1, <1>2, MemoryKept, NotAsked DEF Inv, Idle
<1>6. InCode'
  BY <1>1, <1>2 DEF Inv, InCode, Code
<1>7. Links /\ RootRegions /\ Where
  BY DEF Inv, Pool
<1>8. Linking' = Linking /\ Linking \subseteq Blocks /\ \A b \in Linking : next[b] \in Handles
  BY <1>1, <1>2 DEF Linking, Granted, Inv, TypeOK
<1>9. state = Null
  BY <1>1, <1>7 DEF Where
<1>10. Links'
  BY <1>1, <1>2, <1>7, <1>8, <1>9 DEF Links, Handles
<1>11. RootRegions' /\ GrantedIsLoose'
  BY <1>1, <1>2, <1>7 DEF RootRegions, GrantedIsLoose, Inv, TypeOK, Handles
<1>12. Where'
  BY <1>1, <1>2, <1>7 DEF Where, InLoop, Idle, Inv, TypeOK, Handles
<1> QED BY <1>4, <1>5, <1>6, <1>10, <1>11, <1>12 DEF Inv, Pool

\* The registers are loaded with where the state left off.
LEMMA ResumeStateInv == Inv /\ ResumeState => Inv'
<1> SUFFICES ASSUME Inv, ResumeState PROVE Inv'
  OBVIOUS
<1>1. /\ pc = "list" /\ pc' = "run" /\ state # Null /\ ip' = instr[state]
      /\ UNCHANGED <<heapVars, args, result, pos, poolVars, freelist, flagVars, memVars,
                     stackVars, state, predecessor, scratch, callVars>>
  BY DEF ResumeState
<1>2. /\ Blocks' = Blocks /\ Place = "list" /\ Place' = "run" /\ Linking' = Linking
      /\ state \in Blocks
  BY <1>1 DEF Blocks, Place, Linking, Granted, Inv, TypeOK, Handles
<1>3. ip' \in Starts(Code) /\ ip' \in Nat /\ Starts(Code) \subseteq Labels(Code)
  BY <1>1, <1>2, LabelsNat DEF Inv, InCode, Code, TypeOK
<1>4. TypeOK'
  BY <1>1, <1>2, <1>3 DEF Inv, TypeOK, Places, Callers, Handles
<1>5. Memory'
  BY <1>1, <1>2, MemoryKept, NotAsked DEF Inv, Idle
<1>6. InCode'
  BY <1>1, <1>2, <1>3 DEF Inv, InCode, Code
<1>7. Pool'
  BY <1>1, <1>2 DEF Inv, Pool, Links, RootRegions, GrantedIsLoose, Where, InLoop, Idle
<1> QED BY <1>4, <1>5, <1>6, <1>7 DEF Inv

\* A block is asked for, for a new state or for a copy.
LEMMA Wanting ==
  ASSUME Inv, pc \in {"list", "run"}, NEW for \in {"spawn", "split"}, Allocate(BlockSize, for),
         for = "spawn" => pc = "list" /\ state = Null,
         for = "split" => pc = "run" /\ ip \in Starts(Code) /\ Instr.op \in SplitOps,
         pushed' \in BOOLEAN,
         UNCHANGED <<heapVars, args, result, pos, poolVars, freelist, flagVars, memVars,
                     head, matched, spawned, runVars, scratch, fresh, status>>
  PROVE  Inv'
<1>1. /\ pc' = "alloc" /\ request' = BlockSize /\ caller' = for
      /\ Place = pc /\ Place' = for
      /\ Blocks' = Blocks /\ Linking' = Linking
  BY DEF Allocate, Place, Blocks, Linking, Granted
<1>2. BlockSize \in Nat /\ BlockSize > 0 /\ BlockSize' = BlockSize /\ FlagWords' = FlagWords
  BY Sizes DEF Inv, BlockSize, FlagWords
<1>3. TypeOK'
  BY <1>1, <1>2 DEF Inv, TypeOK, Places, Callers, Handles
<1>4. Memory'
  <2>1. Asked'
    BY <1>1, <1>2 DEF Asked, Callers
  <2> QED BY <1>1, <2>1, MemoryKept DEF Inv, Idle
<1>5. InCode'
  BY <1>1 DEF Inv, InCode, Code, Instr
<1>6. Links' /\ RootRegions' /\ GrantedIsLoose'
  BY <1>1 DEF Inv, Pool, Links, RootRegions, GrantedIsLoose
<1>7. Where'
  <2>1. for = "split" => state # Null
    BY <1>1 DEF Inv, Pool, Where, InLoop
  <2> QED BY <1>1, <2>1 DEF Inv, Pool, Where, InLoop, Idle
<1> QED BY <1>3, <1>4, <1>5, <1>6, <1>7 DEF Inv, Pool

\* At the end of the list.
LEMMA WantInitialStateInv == Inv /\ WantInitialState => Inv'
<1> SUFFICES ASSUME Inv, WantInitialState PROVE Inv'
  OBVIOUS
<1>1. pushed' \in BOOLEAN
  BY DEF WantInitialState
<1> QED BY <1>1, Wanting DEF WantInitialState

\* At a split.
LEMMA WantStateCopyInv == Inv /\ WantStateCopy => Inv'
<1> SUFFICES ASSUME Inv, WantStateCopy PROVE Inv'
  OBVIOUS
<1>1. pushed' \in BOOLEAN /\ pc = "run"
  BY DEF WantStateCopy, Inv, TypeOK, Running
<1>2. ip \in Starts(Code)
  BY AtInstruction DEF WantStateCopy, Inv
<1> QED BY <1>1, <1>2, Wanting DEF WantStateCopy

\* On to the next character, or to the end.
LEMMA EndPositionInv == Inv /\ EndPosition => Inv'
<1> SUFFICES ASSUME Inv, EndPosition PROVE Inv'
  OBVIOUS
<1>1. /\ pc = "list" /\ pc' \in {"coda", "string"} /\ state = Null
      /\ UNCHANGED <<heapVars, args, result, poolVars, freelist, flagVars, memVars,
                     stackVars, runVars, scratch, callVars>>
  BY DEF EndPosition
<1>2. pos' \in 0 .. Len(text)
  <2>1. pos \in 0 .. Len(text) /\ Len(text) \in Nat
    BY NativeRegexAssumption DEF Inv, TypeOK
  <2>2. pos' # pos => CharAt(text, pos) # EOF /\ pos' = pos + 1
    BY DEF EndPosition
  <2>3. CharAt(text, pos) # EOF => pos < Len(text)
    BY DEF CharAt
  <2> QED BY <2>1, <2>2, <2>3
<1>3. Blocks' = Blocks /\ Place = "list" /\ Place' = pc' /\ Linking' = Linking
  BY <1>1 DEF Blocks, Place, Linking, Granted
<1>4. TypeOK'
  BY <1>1, <1>2, <1>3 DEF Inv, TypeOK, Places, Callers, Handles
<1>5. Memory'
  BY <1>1, <1>3, MemoryKept, NotAsked DEF Inv, Idle
<1>6. InCode'
  BY <1>1, <1>3 DEF Inv, InCode, Code
<1>7. Pool'
  BY <1>1, <1>3 DEF Inv, Pool, Links, RootRegions, GrantedIsLoose, Where, InLoop, Idle
<1> QED BY <1>4, <1>5, <1>6, <1>7 DEF Inv

-----------------------------------------------------------------------------
(* The code of an instruction                                              *)

\* The running state has one place on the list.
LEMMA RunFacts ==
  ASSUME Inv, pc = "run"
  PROVE  /\ Place = "run" /\ LoopLists /\ state \in Blocks /\ state # Null
         /\ Granted = {}
<1>1. Place = "run" /\ Granted = {}
  BY DEF Place, Granted
<1>2. LoopLists
  BY <1>1, LoopFacts DEF InLoop
<1>3. state # Null /\ state \in Blocks
  BY <1>1 DEF Inv, Pool, Where, InLoop, TypeOK, Handles
<1> QED BY <1>1, <1>2, <1>3

\* Steps that leave the lists alone.
LEMMA SamePool ==
  ASSUME Inv, pc = "run", pc' = "run",
         UNCHANGED <<args, pos, freelist, next, region, stackVars, state, predecessor>>,
         Blocks' = Blocks
  PROVE  Pool'
<1>1. Place = "run" /\ Place' = "run" /\ Linking' = Linking
  BY DEF Place, Linking, Granted
<1> QED BY <1>1 DEF Inv, Pool, Links, RootRegions, GrantedIsLoose, Where, InLoop, Idle

\* A passed anchor or a jump only goes on.
LEMMA AdvanceInv == Inv /\ Advance => Inv'
<1> SUFFICES ASSUME Inv, Advance PROVE Inv'
  OBVIOUS
<1>1. /\ pc = "run" /\ pc' = "run" /\ Running /\ ip' = Continuation(Code, ip)
      /\ UNCHANGED <<stepFrame, freelist, flagVars, memVars, stackVars, state,
                     predecessor, scratch>>
  BY DEF Advance, Running
<1>2. ip' \in Labels(Code) /\ ip' \in Nat
  BY <1>1, AtInstruction, CodeClosed, LabelsNat DEF Inv, TypeOK, Code
<1>3. Blocks' = Blocks
  BY <1>1 DEF Blocks
<1>4. TypeOK'
  BY <1>1, <1>2, <1>3 DEF Inv, TypeOK, Handles
<1>5. Memory'
  BY <1>1, <1>3, MemoryKept, NotAsked DEF Inv, Idle
<1>6. InCode'
  BY <1>1, <1>2, <1>3 DEF Inv, InCode, Code, Place
<1>7. Pool'
  BY <1>1, <1>3, SamePool
<1> QED BY <1>4, <1>5, <1>6, <1>7 DEF Inv

\* Flags past the register are set in memory, the others in the register.
LEMMA FlagsInRange ==
  ASSUME TypeOK, NEW f \in 0 .. regex.flags - 1, TestAndSet(f)
  PROVE  /\ regflags' \subseteq 0 .. regex.flags - 1
         /\ memflags' \subseteq RegisterFlags .. regex.flags - 1
<1>1. /\ regflags \subseteq 0 .. regex.flags - 1 /\ regex.flags \in Nat
      /\ memflags \subseteq RegisterFlags .. regex.flags - 1
  BY NativeRegexAssumption DEF TypeOK
<1>2. RegisterFlags \in Nat
  BY NativeMemoryAssumption
<1>3. regflags' \subseteq regflags \cup {f}
  BY DEF TestAndSet
<1>4. \/ memflags' = memflags
      \/ ~(f < RegisterFlags) /\ memflags' = memflags \cup {f}
  BY DEF TestAndSet
<1>5. ~(f < RegisterFlags) => f \in RegisterFlags .. regex.flags - 1
  BY <1>1, <1>2
<1>6. regflags' \subseteq 0 .. regex.flags - 1
  BY <1>1, <1>3
<1>7. memflags' \subseteq RegisterFlags .. regex.flags - 1
  BY <1>1, <1>4, <1>5
<1> QED BY <1>6, <1>7

\* Setting a flag touches no block.
LEMMA TestAndSetFlagInv == Inv /\ TestAndSetFlag => Inv'
<1> SUFFICES ASSUME Inv, TestAndSetFlag PROVE Inv'
  OBVIOUS
<1>1. /\ pc = "run" /\ pc' = "run" /\ Running /\ ip' = After(Code, ip)
      /\ TestAndSet(Instr.operand) /\ Instr.op = "TEST_AND_SET_FLAG"
      /\ UNCHANGED <<stepFrame, freelist, memVars, stackVars, state, predecessor, scratch>>
  BY DEF TestAndSetFlag, Running
<1>2. ip' \in Labels(Code) /\ ip' \in Nat /\ Instr.operand \in 0 .. regex.flags - 1
  BY <1>1, AtInstruction, CodeClosed, LabelsNat DEF Inv, TypeOK, Code
<1>3. Blocks' = Blocks
  BY <1>1 DEF Blocks
<1>4. /\ regflags' \subseteq 0 .. regex.flags - 1
      /\ memflags' \subseteq RegisterFlags .. regex.flags - 1
  BY <1>1, <1>2, FlagsInRange DEF Inv
<1>5. TypeOK'
  BY <1>1, <1>2, <1>3, <1>4 DEF Inv, TypeOK, Handles
<1>6. Memory'
  BY <1>1, <1>3, MemoryKept, NotAsked DEF Inv, Idle
<1>7. InCode'
  BY <1>1, <1>2, <1>3 DEF Inv, InCode, Code, Place
<1>8. Pool'
  BY <1>1, <1>3, SamePool
<1> QED BY <1>5, <1>6, <1>7, <1>8 DEF Inv

\* A pointer is stored within the block of the state.
LEMMA WritePointerInv == Inv /\ WritePointer => Inv'
<1> SUFFICES ASSUME Inv, WritePointer PROVE Inv'
  OBVIOUS
<1>1. /\ pc = "run" /\ pc' = "run" /\ Running /\ ip' = After(Code, ip)
      /\ UNCHANGED <<stepFrame, freelist, flagVars, next, instr, region, stackVars, state,
                     predecessor, scratch>>
  BY DEF WritePointer, Running
<1>2. ip' \in Labels(Code) /\ ip' \in Nat
  BY <1>1, AtInstruction, CodeClosed, LabelsNat DEF Inv, TypeOK, Code
<1>3. Blocks' = Blocks
  BY <1>1 DEF Blocks
<1>4. ptrs' \in [Blocks -> Pointers(n_pointers, Len(text))]
  <2>1. pos \in {Null} \cup 0 .. Len(text)
    BY DEF Inv, TypeOK
  <2>2. \A f \in Pointers(n_pointers, Len(text)) :
          [f EXCEPT ![Instr.operand] = pos] \in Pointers(n_pointers, Len(text))
    BY <2>1 DEF Pointers
  <2> QED BY <2>2 DEF Inv, TypeOK, WritePointer
<1>5. TypeOK'
  BY <1>1, <1>2, <1>3, <1>4 DEF Inv, TypeOK, Handles
<1>6. Memory'
  BY <1>1, <1>3, MemoryKept, NotAsked DEF Inv, Idle
<1>7. InCode'
  BY <1>1, <1>2, <1>3 DEF Inv, InCode, Code, Place
<1>8. Pool'
  BY <1>1, <1>3, SamePool
<1> QED BY <1>5, <1>6, <1>7, <1>8 DEF Inv

\* A state that waits becomes R_PREDECESSOR.
LEMMA KeepInv == Inv /\ Keep => Inv'
<1> SUFFICES ASSUME Inv, Keep PROVE Inv'
  OBVIOUS
<1>1. /\ pc = "run" /\ pc' = "list" /\ Running /\ Instr.op \in ConsumeOps
      /\ instr' = [instr EXCEPT ![state] = After(Code, ip)]
      /\ region' = [region EXCEPT ![state] = "kept"]
      /\ predecessor' = state /\ state' = next[state]
      /\ UNCHANGED <<stepFrame, freelist, flagVars, next, ptrs, stackVars, ip, scratch>>
  BY DEF Keep, Running
<1>L. Place = "run" /\ LoopLists /\ state \in Blocks /\ state # Null /\ Granted = {}
  BY <1>1, RunFacts
<1>2. /\ Blocks' = Blocks /\ Place' = "list" /\ Linking' = Linking
  BY <1>1, <1>L DEF Blocks, Place, Linking, Granted
<1>3. After(Code, ip) \in Starts(Code) /\ After(Code, ip) \in Nat
  BY <1>1, AtInstruction, CodeClosed, LabelsNat DEF Inv, TypeOK, Code
<1>4. /\ \A b \in Blocks : region'[b] = IF b = state THEN "kept" ELSE region[b]
      /\ region' \in [Blocks -> Regions] /\ instr' \in [Blocks -> Nat]
      /\ \A b \in Blocks : instr'[b] = IF b = state THEN After(Code, ip) ELSE instr[b]
  BY <1>1, <1>3 DEF Inv, TypeOK, Regions
<1>5. TypeOK'
  <2>1. {freelist', head', matched', state', predecessor'} \subseteq Handles'
    BY <1>1, <1>2, <1>L DEF Inv, TypeOK, Handles
  <2> QED BY <1>1, <1>2, <1>4, <2>1 DEF Inv, TypeOK, Handles, Places
<1>6. Memory'
  BY <1>1, <1>2, MemoryKept, NotAsked DEF Inv, Idle
<1>7. InCode'
  BY <1>1, <1>2, <1>3, <1>4 DEF Inv, InCode, Code
<1>8. next[state] # state
  BY <1>L DEF LoopLists
<1>9. Links'
  <2>1. \A b \in Linking : next[b] # Null =>
          /\ region'[b] = "free" => region'[next[b]] = "free"
          /\ region'[b] = "todo" => region'[next[b]] = "todo"
          /\ region'[b] = "kept" =>
               \/ region'[next[b]] = "kept"
               \/ b = state /\ region'[next[b]] = "todo"
    BY <1>1, <1>4, <1>8, <1>L DEF LoopLists
  <2> QED BY <1>1, <1>2, <2>1, <1>L DEF LoopLists, Links
<1>10. RootRegions' /\ GrantedIsLoose'
  BY <1>1, <1>2, <1>4, <1>8, <1>L DEF LoopLists, RootRegions, GrantedIsLoose
<1>11. Where'
  <2>1. next[state] # Null => region'[next[state]] = "todo"
    BY <1>1, <1>4, <1>8, <1>L DEF LoopLists
  <2> QED BY <1>1, <1>2, <1>4, <2>1, <1>L DEF LoopLists, Where, InLoop, Idle
<1> QED BY <1>5, <1>6, <1>7, <1>9, <1>10, <1>11 DEF Inv, Pool

\* A state that dies moves from one list to the other.
LEMMA DestroyInv == Inv /\ Destroy => Inv'
<1> SUFFICES ASSUME Inv, Destroy PROVE Inv'
  OBVIOUS
<1>1. /\ pc = "run" /\ pc' = "list" /\ Running
      /\ next' = [x \in Blocks |-> IF x = state THEN freelist
                                   ELSE IF x = predecessor THEN next[state] ELSE next[x]]
      /\ head' = (IF predecessor = Null THEN next[state] ELSE head)
      /\ freelist' = state /\ region' = [region EXCEPT ![state] = "free"]
      /\ state' = next[state]
      /\ UNCHANGED <<stepFrame, instr, ptrs, matched, pushed, spawned, predecessor, ip,
                     scratch>>
  BY DEF Destroy, Running
<1>L. Place = "run" /\ LoopLists /\ state \in Blocks /\ state # Null /\ Granted = {}
  BY <1>1, RunFacts
<1>2. /\ Blocks' = Blocks /\ Place' = "list" /\ Linking' = Linking
  BY <1>1, <1>L DEF Blocks, Place, Linking, Granted
<1>F. /\ regflags' \subseteq 0 .. regex.flags - 1
      /\ memflags' \subseteq RegisterFlags .. regex.flags - 1
  <2>1. CASE FlagSet
    <3>1. Instr.op = "TEST_AND_SET_FLAG" /\ TestAndSet(Instr.operand)
      BY <2>1 DEF Destroy, FlagSet
    <3>2. Instr.operand \in 0 .. regex.flags - 1
      BY <1>1, <3>1, AtInstruction, CodeClosed DEF Inv
    <3> QED BY <3>1, <3>2, FlagsInRange DEF Inv
  <2>2. CASE ~FlagSet
    BY <2>2 DEF Destroy, Inv, TypeOK
  <2> QED BY <2>1, <2>2
<1>3. /\ \A b \in Blocks : next[b] \in Handles /\ region[b] \in Regions
      /\ {freelist, head, matched, state, predecessor} \subseteq Handles
      /\ Blocks \subseteq Nat
  BY DEF Inv, TypeOK
<1>4. /\ \A b \in Blocks :
           next'[b] = IF b = state THEN freelist
                      ELSE IF b = predecessor THEN next[state] ELSE next[b]
      /\ \A b \in Blocks : region'[b] = IF b = state THEN "free" ELSE region[b]
      /\ next' \in [Blocks -> Handles] /\ region' \in [Blocks -> Regions]
  <2>1. next' \in [Blocks -> Handles]
    BY <1>1, <1>3, <1>L DEF Handles
  <2>2. region' \in [Blocks -> Regions]
    BY <1>1 DEF Inv, TypeOK, Regions
  <2> QED BY <1>1, <2>1, <2>2 DEF Inv, TypeOK
<1>5. TypeOK'
  <2>1. {freelist', head', matched', state', predecessor'} \subseteq Handles'
    BY <1>1, <1>2, <1>3, <1>L DEF Handles
  <2> QED BY <1>1, <1>2, <1>4, <1>F, <2>1 DEF Inv, TypeOK, Handles, Places
<1>6. Memory'
  BY <1>1, <1>2, MemoryKept, NotAsked DEF Inv, Idle
<1>7. InCode'
  BY <1>1, <1>2 DEF Inv, InCode, Code
<1>8. Pool'
  <2>1. next[state] # state
    BY <1>L DEF LoopLists
  <2>2. /\ \A b, c \in Linking : next'[b] = next'[c] /\ next'[b] # Null => b = c
        /\ \A b \in Linking : next'[b] # Null => next'[b] # state
    BY <1>1, <1>4, <2>1, <1>L DEF LoopLists
  <2>3. \A b \in Linking : next'[b] # Null => next'[b] # head'
    BY <1>1, <1>4, <2>1, <1>L DEF LoopLists
  <2>4. \A b \in Linking : next'[b] # Null =>
          /\ region'[b] = "free" => region'[next'[b]] = "free"
          /\ region'[b] = "todo" => region'[next'[b]] = "todo"
          /\ region'[b] = "kept" =>
               \/ region'[next'[b]] = "kept"
               \/ b = predecessor /\ next'[b] = next[state] /\ region'[next'[b]] = "todo"
    BY <1>1, <1>4, <2>1, <1>L DEF LoopLists
  <2>5. Links'
    BY <1>1, <1>2, <2>2, <2>3, <2>4, <1>L DEF LoopLists, Links
  <2>6. RootRegions' /\ GrantedIsLoose'
    BY <1>1, <1>2, <1>4, <1>L DEF LoopLists, RootRegions, GrantedIsLoose
  <2>7. Where'
    <3>1. next[state] # Null => region'[next[state]] = "todo"
      BY <1>1, <1>4, <2>1, <1>L DEF LoopLists
    <3> QED BY <1>1, <1>2, <1>4, <3>1, <1>L DEF LoopLists, Where, InLoop, Idle
  <2> QED BY <2>5, <2>6, <2>7 DEF Pool
<1> QED BY <1>5, <1>6, <1>7, <1>8 DEF Inv

-----------------------------------------------------------------------------
(* New states                                                              *)

\* The block that was granted is on no list, and what is left of the free
\* list is on no other.
LEMMA NewBlock ==
  ASSUME Inv, pc \in {"spawn", "split"}
  PROVE  /\ LoopLists /\ Place = pc /\ Granted = {scratch}
         /\ scratch \in Nat
         /\ scratch \notin {Null, state, predecessor, head, matched, freelist}
         /\ \A b \in Linking : next[b] # scratch
         /\ \A b \in Blocks : b # scratch /\ b # matched => b \in Linking
         /\ freelist \notin {state, predecessor, head} \ {Null}
<1>1. Place = pc /\ Place \in InLoop /\ Granted = {scratch}
  BY DEF InLoop, Place, Granted
<1>2. LoopLists
  BY <1>1, LoopFacts
<1>3. /\ scratch \in Nat /\ scratch # freelist
      /\ \A b \in Linking : next[b] # scratch
      /\ scratch \in Blocks => region[scratch] = "free"
  BY DEF Inv, Pool, GrantedIsLoose
<1>4. /\ {freelist, head, matched, state, predecessor} \subseteq Handles
      /\ Null \notin Nat
  BY DEF Inv, TypeOK, Null
<1>5. scratch \notin {Null, state, predecessor, head, matched, freelist}
  BY <1>2, <1>3, <1>4 DEF LoopLists, Handles
<1>6. \A b \in Blocks : b # scratch /\ b # matched => b \in Linking
  BY <1>1, <1>2 DEF LoopLists
<1>7. freelist \notin {state, predecessor, head} \ {Null}
  BY <1>2, <1>4 DEF LoopLists, Handles
<1> QED BY <1>1, <1>2, <1>3, <1>5, <1>6, <1>7

\* The granted block fits between the others.
LEMMA MemoryGrows ==
  ASSUME Inv, pc \in {"spawn", "split"}, pc' = "run",
         UNCHANGED <<heapVars, args, poolVars, callVars>>, Blocks' = Blocks \cup {scratch}
  PROVE  Memory'
<1>1. /\ BlockSize \in Nat /\ BlockSize' = BlockSize /\ FlagWords' = FlagWords
      /\ Blocks \subseteq Nat /\ scratch \in Nat
  BY Sizes, NewBlock DEF Inv, TypeOK, BlockSize, FlagWords
<1>2. /\ bump <= capacity /\ FlagWords <= bump
      /\ \A h \in Blocks : FlagWords <= h /\ h + BlockSize <= bump
      /\ \A h, k \in Blocks : h < k => h + BlockSize <= k
      /\ FlagWords <= scratch /\ scratch + BlockSize <= bump
      /\ \A h \in Blocks : h # scratch =>
           h + BlockSize <= scratch \/ scratch + BlockSize <= h
  BY DEF Inv, Memory, BlocksDisjoint, Idle
<1>3. \A h, k \in Blocks' : h < k => h + BlockSize <= k
  <2>1. BlockSize > 0
    BY Sizes DEF Inv
  <2> SUFFICES ASSUME NEW h \in Blocks', NEW k \in Blocks', h < k
               PROVE  h + BlockSize <= k
    OBVIOUS
  <2>2. CASE h \in Blocks /\ k \in Blocks
    BY <1>2, <2>2
  <2>3. CASE h = scratch /\ k \in Blocks
    BY <1>1, <1>2, <2>1, <2>3
  <2>4. CASE h \in Blocks /\ k = scratch
    BY <1>1, <1>2, <2>1, <2>4
  <2>5. h # k
    BY <1>1
  <2> QED BY <2>2, <2>3, <2>4, <2>5
<1>4. BlocksDisjoint'
  BY <1>1, <1>2, <1>3 DEF BlocksDisjoint
<1>5. BufferOwned' /\ RealBuffers' /\ Asked'
  BY DEF Inv, Memory, BufferOwned, RealBuffers, Asked, Idle
<1> QED BY <1>4, <1>5 DEF Memory

\* A new state is put at the end of the list.
LEMMA PushInitialStateInv == Inv /\ PushInitialState => Inv'
<1> SUFFICES ASSUME Inv, PushInitialState PROVE Inv'
  OBVIOUS
<1> DEFINE h == scratch
<1>1. /\ pc = "spawn" /\ pc' = "run"
      /\ state' = h /\ head' = (IF predecessor = Null THEN h ELSE head)
      /\ next' = [x \in Blocks \cup {h} |->
                    IF x = h THEN Null ELSE IF x = predecessor THEN h ELSE next[x]]
      /\ instr'  = Put(instr, h, 0)
      /\ ptrs'   = Put(ptrs, h, NullPointers(n_pointers))
      /\ region' = Put(region, h, "todo")
      /\ ip' = 0 /\ spawned' = TRUE
      /\ UNCHANGED <<heapVars, args, result, pos, poolVars, freelist, flagVars, matched,
                     pushed, predecessor, scratch, callVars>>
  BY DEF PushInitialState
<1>2. /\ LoopLists /\ Place = "spawn" /\ Granted = {h} /\ h \in Nat
      /\ h \notin {Null, state, predecessor, head, matched, freelist}
      /\ \A b \in Linking : next[b] # h
      /\ \A b \in Blocks : b # h /\ b # matched => b \in Linking
      /\ freelist \notin {state, predecessor, head} \ {Null}
  BY <1>1, NewBlock
<1> HIDE DEF h
<1>3. Blocks' = Blocks \cup {h} /\ Place' = "run" /\ state = Null
  BY <1>1, <1>2 DEF Blocks, Place, Inv, Pool, Where, InLoop
<1>4. Memory'
  BY <1>1, <1>3, MemoryGrows DEF h
<1>5. /\ DOMAIN instr = Blocks /\ DOMAIN ptrs = Blocks /\ DOMAIN region = Blocks
      /\ \A b \in Blocks : next[b] \in Handles
      /\ {freelist, head, predecessor, matched} \subseteq Handles /\ Blocks \subseteq Nat
      /\ n_pointers \in Nat /\ Len(text) \in Nat
  <2>1. text \in Texts /\ TypeOK
    BY DEF Inv, TypeOK
  <2>2. Len(text) \in Nat /\ n_pointers \in Nat
    BY <2>1, Sizes, NativeRegexAssumption
  <2> QED BY <2>2 DEF Inv, TypeOK
<1>6. TypeOK'
  <2>1. next' \in [Blocks' -> Handles']
    BY <1>1, <1>3, <1>5 DEF Handles
  <2>2. /\ region' \in [Blocks' -> Regions] /\ instr' \in [Blocks' -> Nat]
    BY <1>1, <1>3, <1>5 DEF Put, Regions, Inv, TypeOK
  <2>3. ptrs' \in [Blocks' -> Pointers(n_pointers, Len(text))]
    BY <1>1, <1>3, <1>5, NullPointersType DEF Put, Inv, TypeOK
  <2>4. {freelist', head', matched', state', predecessor'} \subseteq Handles'
    BY <1>1, <1>3, <1>5 DEF Handles
  <2>5. /\ spawned' \in BOOLEAN /\ ip' \in Nat /\ pc' \in Places /\ Blocks' \subseteq Nat
    BY <1>1, <1>2, <1>3, <1>5 DEF Places
  <2> QED
    BY <1>1, <2>1, <2>2, <2>3, <2>4, <2>5 DEF Inv, TypeOK
<1>7. InCode'
  <2>1. 0 \in Starts(Code) /\ Code' = Code /\ 0 \in Labels(Code)
    BY <1>1, LabelsNat DEF Inv, TypeOK, Code
  <2> QED BY <1>1, <1>3, <1>5, <2>1 DEF Inv, InCode, Put
<1>8. Pool'
  <2>1. Linking' = (Linking \cup {h}) /\ Linking \subseteq Blocks
    BY <1>1, <1>2, <1>3 DEF Linking, Granted, LoopLists
  <2>2. /\ \A b \in Blocks \cup {h} :
             next'[b] = IF b = h THEN Null ELSE IF b = predecessor THEN h ELSE next[b]
        /\ \A b \in Blocks \cup {h} :
             region'[b] = IF b = h THEN "todo" ELSE region[b]
    BY <1>1, <1>5 DEF Put
  <2>3. \A b, c \in Linking' : next'[b] = next'[c] /\ next'[b] # Null => b = c
    BY <1>2, <2>1, <2>2 DEF LoopLists
  <2>4. \A b \in Linking' : next'[b] # Null =>
          next'[b] # freelist' /\ next'[b] # head'
    BY <1>1, <1>2, <2>1, <2>2 DEF LoopLists
  <2>5. \A b \in Linking' : next'[b] # Null =>
          /\ region'[b] = "free" => region'[next'[b]] = "free"
          /\ region'[b] = "todo" => region'[next'[b]] = "todo"
          /\ region'[b] = "kept" =>
               \/ region'[next'[b]] = "kept"
               \/ b = predecessor /\ next'[b] = h /\ region'[next'[b]] = "todo"
    BY <1>2, <1>3, <2>1, <2>2 DEF LoopLists
  <2>6. Links'
    BY <1>1, <2>3, <2>4, <2>5 DEF Links
  <2>7. RootRegions' /\ GrantedIsLoose'
    BY <1>1, <1>2, <1>3, <2>2 DEF LoopLists, RootRegions, GrantedIsLoose
  <2>8. Where'
    BY <1>1, <1>2, <1>3, <2>2 DEF LoopLists, Where, InLoop, Idle
  <2> QED BY <2>6, <2>7, <2>8 DEF Pool
<1> QED BY <1>4, <1>6, <1>7, <1>8 DEF Inv

\* A copy is put behind the running state.
LEMMA PushStateCopyInv == Inv /\ PushStateCopy => Inv'
<1> SUFFICES ASSUME Inv, PushStateCopy PROVE Inv'
  OBVIOUS
<1> DEFINE h == scratch
<1>1. /\ pc = "split" /\ pc' = "run"
      /\ next' = [x \in Blocks \cup {h} |->
                    IF x = h THEN next[state] ELSE IF x = state THEN h ELSE next[x]]
      /\ instr'  = Put(instr, h, SplitPointer(Code, ip))
      /\ ptrs'   = Put(ptrs, h, ptrs[state])
      /\ region' = Put(region, h, "todo")
      /\ ip' = Continuation(Code, ip)
      /\ UNCHANGED <<stepFrame, freelist, flagVars, stackVars, state, predecessor, scratch>>
  BY DEF PushStateCopy
<1>2. /\ LoopLists /\ Place = "split" /\ Granted = {h} /\ h \in Nat
      /\ h \notin {Null, state, predecessor, head, matched, freelist}
      /\ \A b \in Linking : next[b] # h
      /\ \A b \in Blocks : b # h /\ b # matched => b \in Linking
      /\ freelist \notin {state, predecessor, head} \ {Null}
  BY <1>1, NewBlock
<1> HIDE DEF h
<1>3. /\ Blocks' = Blocks \cup {h} /\ Place' = "run" /\ state # Null
      /\ ip \in Starts(Code) /\ Instr.op \in SplitOps
  BY <1>1, <1>2 DEF Blocks, Place, Inv, Pool, Where, InLoop, InCode
<1>4. Memory'
  BY <1>1, <1>3, MemoryGrows DEF h
<1>5. /\ DOMAIN instr = Blocks /\ DOMAIN ptrs = Blocks /\ DOMAIN region = Blocks
      /\ \A b \in Blocks : next[b] \in Handles
      /\ {freelist, head, predecessor, matched, state} \subseteq Handles
      /\ Blocks \subseteq Nat /\ state \in Blocks
  BY <1>3 DEF Inv, TypeOK, Handles
<1>6. /\ SplitPointer(Code, ip) \in Starts(Code) /\ Continuation(Code, ip) \in Labels(Code)
      /\ Labels(Code) \subseteq Nat /\ Starts(Code) \subseteq Labels(Code)
  BY <1>3, CodeClosed, LabelsNat DEF Inv, TypeOK, Code
<1>7. TypeOK'
  <2>1. next' \in [Blocks' -> Handles']
    BY <1>1, <1>3, <1>5 DEF Handles
  <2>2. /\ region' \in [Blocks' -> Regions] /\ instr' \in [Blocks' -> Nat]
    BY <1>1, <1>3, <1>5, <1>6 DEF Put, Regions, Inv, TypeOK
  <2>3. ptrs' \in [Blocks' -> Pointers(n_pointers, Len(text))]
    BY <1>1, <1>3, <1>5 DEF Put, Inv, TypeOK
  <2>4. {freelist', head', matched', state', predecessor'} \subseteq Handles'
    BY <1>1, <1>3, <1>5 DEF Handles
  <2>5. /\ ip' \in Nat /\ pc' \in Places /\ Blocks' \subseteq Nat
    BY <1>1, <1>2, <1>3, <1>5, <1>6 DEF Places
  <2> QED
    BY <1>1, <2>1, <2>2, <2>3, <2>4, <2>5 DEF Inv, TypeOK
<1>8. InCode'
  <2>1. Code' = Code
    BY <1>1 DEF Code
  <2> QED BY <1>1, <1>3, <1>5, <1>6, <2>1 DEF Inv, InCode, Put
<1>9. Pool'
  <2>1. Linking' = (Linking \cup {h}) /\ Linking \subseteq Blocks
    BY <1>1, <1>2, <1>3 DEF Linking, Granted, LoopLists
  <2>2. /\ \A b \in Blocks \cup {h} :
             next'[b] = IF b = h THEN next[state] ELSE IF b = state THEN h ELSE next[b]
        /\ \A b \in Blocks \cup {h} :
             region'[b] = IF b = h THEN "todo" ELSE region[b]
    BY <1>1, <1>5 DEF Put
  <2>3. \A b, c \in Linking' : next'[b] = next'[c] /\ next'[b] # Null => b = c
    BY <1>2, <1>3, <2>1, <2>2 DEF LoopLists
  <2>4. \A b \in Linking' : next'[b] # Null =>
          next'[b] # freelist' /\ next'[b] # head'
    BY <1>1, <1>2, <1>3, <2>1, <2>2 DEF LoopLists
  <2>5. \A b \in Linking' : next'[b] # Null =>
          /\ region'[b] = "free" => region'[next'[b]] = "free"
          /\ region'[b] = "todo" => region'[next'[b]] = "todo"
          /\ region'[b] = "kept" =>
               \/ region'[next'[b]] = "kept"
               \/ b = predecessor /\ next'[b] = state /\ region'[next'[b]] = "todo"
    <3> SUFFICES ASSUME NEW b \in Linking', next'[b] # Null
                 PROVE  /\ region'[b] = "free" => region'[next'[b]] = "free"
                        /\ region'[b] = "todo" => region'[next'[b]] = "todo"
                        /\ region'[b] = "kept" =>
                             \/ region'[next'[b]] = "kept"
                             \/ /\ b = predecessor /\ next'[b] = state
                                /\ region'[next'[b]] = "todo"
      OBVIOUS
    <3>1. CASE b = h
      <4>1. next'[b] = next[state] /\ region'[b] = "todo" /\ next[state] # Null
        BY <2>2, <3>1
      <4>2. next[state] \in Blocks /\ region[next[state]] = "todo" /\ next[state] # h
        BY <1>2, <1>3, <4>1 DEF LoopLists
      <4>3. region'[next[state]] = "todo"
        BY <2>2, <4>2
      <4> QED BY <4>1, <4>3
    <3>2. CASE b = state
      BY <1>2, <1>3, <1>5, <2>2, <3>2 DEF LoopLists
    <3>3. CASE b # h /\ b # state
      <4>1. b \in Linking /\ b \in Blocks
        BY <2>1, <3>3
      <4>2. next'[b] = next[b] /\ region'[b] = region[b] /\ next[b] # Null
        BY <2>2, <3>3, <4>1
      <4>3. next[b] \in Blocks /\ next[b] # h
        BY <1>2, <4>1, <4>2 DEF LoopLists
      <4>4. region'[next[b]] = region[next[b]]
        BY <2>2, <4>3
      <4> QED BY <1>2, <4>1, <4>2, <4>4 DEF LoopLists
    <3> QED BY <3>1, <3>2, <3>3
  <2>6. Links'
    BY <1>1, <2>3, <2>4, <2>5 DEF Links
  <2>7. RootRegions' /\ GrantedIsLoose'
    BY <1>1, <1>2, <1>3, <2>2 DEF LoopLists, RootRegions, GrantedIsLoose
  <2>8. Where'
    BY <1>1, <1>2, <1>3, <1>5, <2>2 DEF LoopLists, Where, InLoop, Idle
  <2> QED BY <2>6, <2>7, <2>8 DEF Pool
<1> QED BY <1>4, <1>7, <1>8, <1>9 DEF Inv

-----------------------------------------------------------------------------
(* A match and the end of the call                                         *)

\* A yes-or-no search leaves with its state on the list.
LEMMA MatchBooleanInv == Inv /\ MatchBoolean => Inv'
<1> SUFFICES ASSUME Inv, MatchBoolean PROVE Inv'
  OBVIOUS
<1>1. /\ pc = "run" /\ pc' = "epilogue" /\ status' = "OK"
      /\ result' = [result EXCEPT !.found = TRUE]
      /\ UNCHANGED <<heapVars, args, pos, poolVars, freelist, flagVars, memVars, stackVars,
                     runVars, scratch, request, caller, fresh>>
  BY DEF MatchBoolean
<1>L. Place = "run" /\ LoopLists /\ state \in Blocks /\ state # Null /\ Granted = {}
  BY <1>1, RunFacts
<1>2. Blocks' = Blocks /\ Place' = "epilogue" /\ Linking' = Linking
  BY <1>1, <1>L DEF Blocks, Place, Linking, Granted
<1>3. TypeOK'
  BY <1>1, <1>2 DEF Inv, TypeOK, Places, Callers, Handles
<1>4. Memory'
  <2>1. Asked'
    BY <1>1 DEF Asked
  <2> QED BY <1>1, <1>2, <2>1, MemoryKept DEF Inv, Idle
<1>5. InCode'
  BY <1>1, <1>2 DEF Inv, InCode, Code
<1>6. Links' /\ RootRegions' /\ GrantedIsLoose'
  BY <1>1, <1>2 DEF Inv, Pool, Links, RootRegions, GrantedIsLoose
<1>7. Where'
  BY <1>1, <1>2, <1>L DEF LoopLists, Where, InLoop, Idle
<1> QED BY <1>3, <1>4, <1>5, <1>6, <1>7 DEF Inv, Pool

\* The earlier match is freed and the state taken out of Linking.
LEMMA MatchInv == Inv /\ Match => Inv'
<1> SUFFICES ASSUME Inv, Match PROVE Inv'
  OBVIOUS
<1>1. /\ pc = "run" /\ pc' = "free" /\ n_pointers # 0
      /\ next' = [x \in Blocks |-> IF x = matched THEN freelist ELSE next[x]]
      /\ freelist' = (IF matched = Null THEN freelist ELSE matched)
      /\ region' = [x \in Blocks |-> IF x = state THEN "matched"
                                     ELSE IF x = matched THEN "free" ELSE region[x]]
      /\ matched' = state /\ scratch' = next[state]
      /\ UNCHANGED <<stepFrame, flagVars, instr, ptrs, head, pushed, spawned, runVars>>
  BY DEF Match
<1>L. Place = "run" /\ LoopLists /\ state \in Blocks /\ state # Null /\ Granted = {}
  BY <1>1, RunFacts
<1>2. /\ Blocks' = Blocks /\ Place' = "free" /\ Linking' = Blocks \ {state, predecessor}
      /\ Linking = Blocks \ {matched}
  BY <1>1, <1>L DEF Blocks, Place, Linking, Granted
<1>3. /\ \A b \in Blocks : next[b] \in Handles /\ region[b] \in Regions
      /\ {freelist, head, matched, state, predecessor} \subseteq Handles
      /\ Blocks \subseteq Nat
  BY DEF Inv, TypeOK
<1>4. /\ \A b \in Blocks : next'[b] = IF b = matched THEN freelist ELSE next[b]
      /\ \A b \in Blocks : region'[b] = IF b = state THEN "matched"
                                        ELSE IF b = matched THEN "free" ELSE region[b]
      /\ next' \in [Blocks -> Handles] /\ region' \in [Blocks -> Regions]
  <2>1. next' \in [Blocks -> Handles]
    BY <1>1, <1>3 DEF Handles
  <2>2. region' \in [Blocks -> Regions]
    BY <1>1, <1>3 DEF Regions
  <2> QED BY <1>1, <2>1, <2>2
<1>5. TypeOK'
  <2>1. {freelist', head', matched', state', predecessor'} \subseteq Handles'
    BY <1>1, <1>2, <1>3, <1>L DEF Handles
  <2>2. scratch' \in Nat \cup {Null}
    BY <1>1, <1>3, <1>L DEF Handles
  <2>3. instr' \in [Blocks -> Nat] /\ ptrs' \in [Blocks -> Pointers(n_pointers, Len(text))]
    BY <1>1 DEF Inv, TypeOK
  <2> QED BY <1>1, <1>2, <1>4, <2>1, <2>2, <2>3 DEF Inv, TypeOK, Handles, Places
<1>6. Memory'
  BY <1>1, <1>2, MemoryKept, NotAsked DEF Inv, Idle
<1>7. InCode'
  BY <1>1, <1>2 DEF Inv, InCode, Code
<1>8. Pool'
  <2>1. /\ next[state] # state /\ predecessor # state
        /\ matched # Null => /\ region[matched] = "matched" /\ matched # state
                             /\ matched # predecessor /\ matched \in Blocks
    BY <1>2, <1>3, <1>L DEF LoopLists, Handles
  <2>2. \A b \in Linking' : b # matched => b \in Linking
    BY <1>2
  <2>3. \A b, c \in Linking' : next'[b] = next'[c] /\ next'[b] # Null => b = c
    BY <1>2, <1>4, <2>1, <2>2, <1>L DEF LoopLists
  <2>4. \A b \in Linking' : next'[b] # Null =>
          /\ next'[b] # freelist' /\ next'[b] # next[state] /\ next'[b] # state
          /\ predecessor # Null => next'[b] # head
    <3>1. \A b \in Linking : region[b] \in {"todo", "kept", "free"}
      BY <1>2, <1>3, <1>L DEF Regions, LoopLists
    <3>2. \A b \in Linking : next[b] # matched \/ next[b] = Null
      BY <2>1, <3>1, <1>L DEF LoopLists
    <3>3. freelist # Null => freelist # matched
      BY <2>1, <1>L DEF LoopLists
    <3> QED BY <1>1, <1>2, <1>4, <2>1, <2>2, <3>2, <3>3, <1>L DEF LoopLists
  <2>5. \A b \in Linking' : next'[b] # Null =>
          /\ region'[b] = "free" => region'[next'[b]] = "free"
          /\ region'[b] = "todo" => region'[next'[b]] = "todo"
          /\ region'[b] = "kept" => region'[next'[b]] = "kept"
    BY <1>1, <1>2, <1>4, <2>1, <2>2, <2>4, <1>L DEF LoopLists
  <2>6. Links'
    BY <1>1, <1>2, <2>3, <2>4, <2>5 DEF Links
  <2>7. RootRegions' /\ GrantedIsLoose'
    BY <1>1, <1>2, <1>4, <2>1, <1>L DEF LoopLists, RootRegions, GrantedIsLoose
  <2>8. Where'
    BY <1>1, <1>2, <1>4, <2>1, <1>L DEF LoopLists, Where, InLoop, Idle
  <2> QED BY <2>6, <2>7, <2>8 DEF Pool
<1> QED BY <1>5, <1>6, <1>7, <1>8 DEF Inv

\* The states behind the match are freed one at a time.
LEMMA FreeSuccessorInv == Inv /\ FreeSuccessor => Inv'
<1> SUFFICES ASSUME Inv, FreeSuccessor PROVE Inv'
  OBVIOUS
<1>1. /\ pc = "free" /\ pc' = "free" /\ scratch # Null
      /\ next' = [next EXCEPT ![scratch] = freelist] /\ freelist' = scratch
      /\ region' = [region EXCEPT ![scratch] = "free"] /\ scratch' = next[scratch]
      /\ UNCHANGED <<stepFrame, flagVars, instr, ptrs, stackVars, runVars>>
  BY DEF FreeSuccessor
<1>2. /\ Blocks' = Blocks /\ Place = "free" /\ Place' = "free" /\ Linking' = Linking
      /\ Linking = Blocks \ {matched, predecessor}
  BY <1>1 DEF Blocks, Place, Linking, Granted, Inv, TypeOK
<1>3. /\ \A b \in Blocks : next[b] \in Handles /\ region[b] \in Regions
      /\ {freelist, head, matched, state, predecessor} \subseteq Handles
      /\ Null \notin Blocks /\ Blocks \subseteq Nat
  <2>1. Blocks \subseteq Nat
    BY DEF Inv, TypeOK
  <2>2. Null \notin Blocks
    BY <2>1 DEF Null
  <2> QED BY <2>1, <2>2 DEF Inv, TypeOK
<1>4. Links /\ RootRegions /\ Where
  BY DEF Inv, Pool
<1>5. scratch \in Blocks
  BY <1>1, <1>4 DEF RootRegions
<1>6. /\ \A b \in Blocks : next'[b] = IF b = scratch THEN freelist ELSE next[b]
      /\ \A b \in Blocks : region'[b] = IF b = scratch THEN "free" ELSE region[b]
      /\ next' \in [Blocks -> Handles] /\ region' \in [Blocks -> Regions]
  BY <1>1, <1>3, <1>5 DEF Inv, TypeOK, Regions
<1>7. TypeOK'
  <2>1. {freelist', head', matched', state', predecessor'} \subseteq Handles'
    BY <1>1, <1>2, <1>3, <1>5 DEF Handles
  <2>2. scratch' \in Nat \cup {Null}
    BY <1>1, <1>3, <1>5 DEF Handles
  <2>3. instr' \in [Blocks -> Nat] /\ ptrs' \in [Blocks -> Pointers(n_pointers, Len(text))]
    BY <1>1 DEF Inv, TypeOK
  <2> QED BY <1>1, <1>2, <1>6, <2>1, <2>2, <2>3 DEF Inv, TypeOK, Handles
<1>8. Memory'
  BY <1>1, <1>2, MemoryKept, NotAsked DEF Inv, Idle
<1>9. InCode'
  BY <1>1, <1>2 DEF Inv, InCode, Code
<1>10. /\ n_pointers # 0 /\ region[scratch] = "todo" /\ region[matched] = "matched"
       /\ scratch \in Linking /\ next[scratch] # scratch
       /\ predecessor # Null => region[predecessor] = "kept" /\ head # Null
                                /\ region[head] = "kept"
       /\ freelist # Null => region[freelist] = "free"
  BY <1>1, <1>2, <1>3, <1>4, <1>5 DEF Links, RootRegions, Where, Handles
<1>11. Pool'
  <2>1. \A b, c \in Linking : next'[b] = next'[c] /\ next'[b] # Null => b = c
    BY <1>1, <1>2, <1>3, <1>4, <1>6, <1>10 DEF Links
  <2>2. \A b \in Linking : next'[b] # Null =>
          /\ next'[b] # scratch /\ next'[b] # next[scratch]
          /\ predecessor # Null => next'[b] # head
    BY <1>1, <1>2, <1>3, <1>4, <1>6, <1>10 DEF Links
  <2>3. \A b \in Linking : next'[b] # Null =>
          /\ region'[b] = "free" => region'[next'[b]] = "free"
          /\ region'[b] = "todo" => region'[next'[b]] = "todo"
          /\ region'[b] = "kept" => region'[next'[b]] = "kept"
    <3>1. \A b \in Linking : next[b] # Null =>
            /\ next[b] \in Blocks /\ next[b] # scratch
            /\ region[b] = "free" => region[next[b]] = "free"
            /\ region[b] = "todo" => region[next[b]] = "todo"
            /\ region[b] = "kept" => region[next[b]] = "kept"
      BY <1>1, <1>2, <1>3, <1>4, <1>10 DEF Links, Handles
    <3>2. freelist # Null => freelist \in Blocks
      BY <1>3 DEF Handles
    <3> QED BY <1>1, <1>2, <1>6, <1>10, <3>1, <3>2
  <2>4. Links'
    BY <1>1, <1>2, <2>1, <2>2, <2>3 DEF Links
  <2>5. next[scratch] # Null => region[next[scratch]] = "todo" /\ next[scratch] \in Blocks
    BY <1>1, <1>2, <1>3, <1>4, <1>10 DEF Links, Handles
  <2>6. RootRegions' /\ GrantedIsLoose'
    BY <1>1, <1>2, <1>3, <1>4, <1>6, <1>10, <2>5 DEF RootRegions, GrantedIsLoose
  <2>7. Where'
    BY <1>1, <1>2, <1>3, <1>4, <1>6, <1>10 DEF Where, InLoop, Idle, Handles
  <2> QED BY <2>4, <2>6, <2>7 DEF Pool
<1> QED BY <1>7, <1>8, <1>9, <1>11 DEF Inv

\* The list ends before the match.
LEMMA RemoveMatchedInv == Inv /\ RemoveMatched => Inv'
<1> SUFFICES ASSUME Inv, RemoveMatched PROVE Inv'
  OBVIOUS
<1>1. /\ pc = "free" /\ pc' = "list" /\ scratch = Null /\ pushed' = TRUE /\ state' = Null
      /\ next' = [x \in Blocks |-> IF x = predecessor THEN Null ELSE next[x]]
      /\ head' = (IF predecessor = Null THEN Null ELSE head)
      /\ UNCHANGED <<stepFrame, freelist, flagVars, instr, ptrs, region, matched, spawned,
                     predecessor, ip, scratch>>
  BY DEF RemoveMatched
<1>2. Links /\ RootRegions /\ Where
  BY DEF Inv, Pool
<1>3. /\ \A b \in Blocks : next[b] \in Handles
      /\ {freelist, head, matched, state, predecessor} \subseteq Handles
      /\ Blocks \subseteq Nat
  BY DEF Inv, TypeOK
<1>4. Blocks' = Blocks /\ Place = "free" /\ Place' = "list" /\ n_pointers # 0
  BY <1>1, <1>2 DEF Blocks, Place, Where
<1>5. Linking' = Blocks \ {matched} /\ Linking = Blocks \ {matched, predecessor}
  BY <1>1, <1>4 DEF Linking, Granted
<1>6. /\ \A b \in Blocks : next'[b] = IF b = predecessor THEN Null ELSE next[b]
      /\ next' \in [Blocks -> Handles]
  BY <1>1, <1>3 DEF Handles
<1>7. TypeOK'
  <2>1. {freelist', head', matched', state', predecessor'} \subseteq Handles'
    BY <1>1, <1>3, <1>4 DEF Handles
  <2> QED BY <1>1, <1>4, <1>6, <2>1 DEF Inv, TypeOK, Handles, Places
<1>8. Memory'
  BY <1>1, <1>4, MemoryKept, NotAsked DEF Inv, Idle
<1>9. InCode'
  BY <1>1, <1>4 DEF Inv, InCode, Code
<1>10. Links'
  BY <1>1, <1>2, <1>5, <1>6 DEF Links
<1>11. RootRegions' /\ GrantedIsLoose'
  BY <1>1, <1>2, <1>4 DEF RootRegions, GrantedIsLoose
<1>12. Where'
  BY <1>1, <1>2, <1>3, <1>4, <1>6 DEF Where, InLoop, Idle, Handles
<1> QED BY <1>7, <1>8, <1>9, <1>10, <1>11, <1>12 DEF Inv, Pool

\* The result is written after the end of the string.
LEMMA CodaInv == Inv /\ Coda => Inv'
<1> SUFFICES ASSUME Inv, Coda PROVE Inv'
  OBVIOUS
<1>1. /\ pc = "coda" /\ pc' = "epilogue" /\ status' = "OK"
      /\ UNCHANGED <<heapVars, args, pos, poolVars, freelist, flagVars, memVars, stackVars,
                     runVars, scratch, request, caller, fresh>>
  BY DEF Coda
<1>2. Blocks' = Blocks /\ Place = "coda" /\ Place' = "epilogue" /\ Linking' = Linking
  BY <1>1 DEF Blocks, Place, Linking, Granted
<1>3. result' \in Results(n_pointers, Len(text))
  <2>1. n_pointers \in Nat /\ Len(text) \in Nat
    <3>1. text \in Texts /\ TypeOK
      BY DEF Inv, TypeOK
    <3> QED BY <3>1, Sizes, NativeRegexAssumption
  <2>2. matched # Null => ptrs[matched] \in Pointers(n_pointers, Len(text))
    BY DEF Inv, TypeOK, Handles
  <2>3. result'.ptrs \in Pointers(n_pointers, Len(text))
    BY <2>1, <2>2, NullPointersType DEF Coda, Result
  <2> QED BY <2>3 DEF Coda, Result, Results
<1>4. TypeOK'
  BY <1>1, <1>2, <1>3 DEF Inv, TypeOK, Places, Callers, Handles, Results
<1>5. Memory'
  <2>1. Asked'
    BY <1>1 DEF Asked
  <2> QED BY <1>1, <1>2, <2>1, MemoryKept DEF Inv, Idle
<1>6. InCode'
  BY <1>1, <1>2 DEF Inv, InCode, Code
<1>7. Pool'
  BY <1>1, <1>2 DEF Inv, Pool, Links, RootRegions, GrantedIsLoose, Where, InLoop, Idle
<1> QED BY <1>4, <1>5, <1>6, <1>7 DEF Inv

-----------------------------------------------------------------------------
(* The invariant is inductive                                              *)

\* The invariant speaks of the variables only.
LEMMA InvStutters == Inv /\ UNCHANGED vars => Inv'
<1> SUFFICES ASSUME Inv, UNCHANGED vars PROVE Inv'
  OBVIOUS
<1> USE DEF vars
<1>1. TypeOK'
  BY DEF Inv, TypeOK, Blocks, Handles
<1>2. Memory'
  BY DEF Inv, Memory, BufferOwned, BlocksDisjoint, Blocks, FlagWords, BlockSize,
         Asked, RealBuffers, NewCapacity
<1>3. Linking' = Linking /\ Blocks' = Blocks /\ Place' = Place
  BY DEF Linking, Blocks, Place, Granted
<1>4. Pool'
  BY <1>3 DEF Inv, Pool, Links, RootRegions, GrantedIsLoose, Where, NoPool
<1>5. InCode'
  BY <1>3 DEF Inv, InCode, Code, Instr
<1> QED BY <1>1, <1>2, <1>4, <1>5 DEF Inv

\* Every action preserves the invariant.
LEMMA InvPreserved == Inv /\ [Next]_vars => Inv'
<1> SUFFICES ASSUME Inv, [Next]_vars PROVE Inv'
  OBVIOUS
<1>1. CASE Client
  BY <1>1, CreateContextInv, DestroyContextInv, CallInv DEF Client
<1>2. CASE Allocator
  BY <1>2, AllocFromBumpInv, AllocFromFreelistInv, AllocNewBufferInv, MoveBufferInv,
     AllocFailsInv DEF Allocator
<1>3. CASE Run /\ ~Allocator
  BY <1>3, FlagsAllocatedInv, EnterPositionInv, ResumeStateInv, WantInitialStateInv,
     PushInitialStateInv, EndPositionInv, DestroyInv, KeepInv, AdvanceInv,
     TestAndSetFlagInv, WritePointerInv, WantStateCopyInv, PushStateCopyInv,
     MatchBooleanInv, MatchInv, FreeSuccessorInv, RemoveMatchedInv, CodaInv,
     EpilogueInv DEF Run
<1>4. CASE UNCHANGED vars
  BY <1>4, InvStutters
<1> QED BY <1>1, <1>2, <1>3, <1>4 DEF Next, Run

\* The invariant holds in every reachable state.
LEMMA Invariance == Spec => []Inv
<1>1. Init => Inv
  BY InitInv
<1>2. Inv /\ [Next]_vars => Inv'
  BY InvPreserved
<1> QED BY <1>1, <1>2, PTL DEF Spec

-----------------------------------------------------------------------------
(* The theorems                                                            *)

\* What each root leads to, in the terms of the properties.
LEMMA RootFacts ==
  ASSUME Inv
  PROVE  /\ freelist # Null => region[freelist] = "free"
         /\ pc = "free" /\ scratch # Null => region[scratch] = "todo"
         /\ matched # Null => region[matched] = "matched" /\ n_pointers # 0
         /\ head # Null /\ ~(pc = "free" /\ predecessor = Null) =>
              region[head] \in {"kept", "todo"} /\ (pc = "free" => region[head] = "kept")
         /\ \A b \in Linking : next[b] # Null =>
              /\ region[next[b]] \in {"kept", "todo", "free"}
              /\ region[b] = "free" <=> region[next[b]] = "free"
         /\ pc \in {"spawn", "split"} =>
              /\ scratch \in Nat /\ scratch # freelist
              /\ \A b \in Linking : next[b] # scratch
              /\ scratch \in Blocks => region[scratch] = "free"
<1>1. /\ {freelist, head, matched, state, predecessor} \subseteq Blocks \cup {Null}
      /\ \A b \in Blocks : region[b] \in {"kept", "todo", "free", "matched"}
      /\ pc \in Places /\ caller \in Callers \cup {"none"}
  BY DEF Inv, TypeOK, Handles, Regions
<1>2. Links /\ RootRegions /\ Where /\ GrantedIsLoose
  BY DEF Inv, Pool
<1>N. Null \notin Blocks
  <2>1. Blocks \subseteq Nat
    BY DEF Inv, TypeOK
  <2> QED BY <2>1 DEF Null
<1>3. \A b \in Linking : b \in Blocks /\ region[b] # "matched"
  BY <1>2, <1>N DEF Linking, RootRegions
<1>4. head # Null /\ ~(pc = "free" /\ predecessor = Null) =>
        region[head] \in {"kept", "todo"} /\ (pc = "free" => region[head] = "kept")
  <2>1. /\ pc = "free" => Place = "free"
        /\ pc # "free" => Place \in Idle \cup {"flags", "string", "coda", "epilogue"} \cup InLoop
    BY <1>1, <1>2 DEF Place, Places, Callers, Idle, InLoop, Inv, Memory, Asked
  <2> QED BY <1>1, <1>2, <2>1 DEF Where, NoPool, InLoop
<1>5. \A b \in Linking : next[b] # Null =>
        /\ region[next[b]] \in {"kept", "todo", "free"}
        /\ region[b] = "free" <=> region[next[b]] = "free"
  BY <1>1, <1>2, <1>3 DEF Links
<1>6. matched # Null => region[matched] = "matched" /\ n_pointers # 0
  BY <1>1, <1>2 DEF RootRegions
<1> QED BY <1>2, <1>4, <1>5, <1>6 DEF RootRegions, GrantedIsLoose

\* No block has two owners.
LEMMA BlocksHaveOneOwner == Inv => OneOwner
<1> SUFFICES ASSUME Inv PROVE OneOwner
  OBVIOUS
<1>1. Links
  BY DEF Inv, Pool
<1>2. \A b, c \in Linking : next[b] = next[c] /\ next[b] # Null => b = c
  BY <1>1 DEF Links
<1>3. ASSUME NEW r \in Roots, r[2] # Null, NEW b \in Linking
      PROVE  next[b] # r[2]
  BY <1>1, <1>3, RootFacts DEF Links, Roots, Granted
<1>4. ASSUME NEW r \in Roots, NEW s \in Roots, r[2] = s[2], r[2] # Null
      PROVE  r = s
  <2>1. {freelist, head, matched} \subseteq Blocks \cup {Null}
    BY DEF Inv, TypeOK, Handles
  <2> QED BY <1>4, <2>1, RootFacts DEF Roots, Granted
<1> QED BY <1>2, <1>3, <1>4 DEF OneOwner

\* A block on the free list holds no state that still runs, waits or matched.
LEMMA FreeBlocksAreFree == Inv => FreeIsFree
<1> SUFFICES ASSUME Inv PROVE FreeIsFree
  OBVIOUS
<1>1. head # Null /\ pc = "free" /\ predecessor = Null => region[head] = "matched"
  <2>1. pc = "free" => Place = "free"
    BY DEF Place
  <2> QED BY <2>1, RootFacts DEF Inv, Pool, Where
<1>2. pc \in {"list", "run"} /\ state # Null => region[state] = "todo"
  <2>1. pc \in {"list", "run"} => Place = pc
    BY DEF Place
  <2> QED BY <2>1 DEF Inv, Pool, Where, InLoop
<1> QED BY <1>1, <1>2, RootFacts DEF FreeIsFree

\* The emitted code neither leaks a buffer nor leaves the context with one
\* that is freed, also when a call runs out of memory: no exit skips the
\* epilogue.
THEOREM BuffersAreOwned == Spec => []BufferOwned
<1>1. Inv => BufferOwned
  BY DEF Inv, Memory
<1> QED BY <1>1, Invariance, PTL

\* States and flags never overlap and none reaches past the buffer, also
\* between LABEL_ALLOC_MEMORY and the code that fills the block.
THEOREM BlocksAreDisjoint == Spec => []BlocksDisjoint
<1>1. Inv => BlocksDisjoint
  BY DEF Inv, Memory
<1> QED BY <1>1, Invariance, PTL

-----------------------------------------------------------------------------
(* The lists                                                               *)

\* Where in a call there are lists.
Listed == Place \in InLoop \cup {"free", "string", "coda"}

\* Where the states begin that are still to run, or to be freed.
Rest == IF Place = "free" THEN scratch ELSE state

\* k, t and f are the blocks of the three lists, in order.
ListPaths(k, t, f) ==
  /\ Path(next, k, head, state)
  /\ Path(next, t, Rest, Null)
  /\ Path(next, f, freelist, Null)

\* Each list has its region; together with the match and the block that has
\* just been allocated they are the pool.
ListBlocks(k, t, f) ==
  /\ \A b \in Members(k) : region[b] = "kept"
  /\ \A b \in Members(t) : region[b] = "todo"
  /\ \A b \in Members(f) : region[b] = "free" /\ b \notin Granted
  /\ Blocks = Members(k) \cup Members(t) \cup Members(f) \cup ({matched} \ {Null})
                \cup (Granted \cap Blocks)

\* R_PREDECESSOR is the last state of those that wait.
ListEnd(k) ==
  Place \in InLoop \cup {"free"} => predecessor = IF k = <<>> THEN Null ELSE k[Len(k)]

Lists(k, t, f) == ListPaths(k, t, f) /\ ListBlocks(k, t, f) /\ ListEnd(k)

\* The pool is as large as its blocks.
Sized ==
  /\ pc = "flags" => bump = FlagWords
  /\ Listed => /\ IsFiniteSet(Blocks)
               /\ bump = FlagWords + (BlockSize * Cardinality(Blocks \cup Granted))

ListInv == Inv /\ Sized /\ (Listed => \E k, t, f : Lists(k, t, f))

\* What is known of the lists in any state.
LEMMA ListFacts ==
  ASSUME Inv, NEW k, NEW t, NEW f, Lists(k, t, f)
  PROVE  /\ Null \notin Blocks /\ next \in [Blocks -> Blocks \cup {Null}]
         /\ region \in [Blocks -> Regions]
         /\ {head, state, predecessor, freelist, matched} \subseteq Blocks \cup {Null}
         /\ k \in Seq(Blocks) /\ t \in Seq(Blocks) /\ f \in Seq(Blocks)
         /\ Members(k) \subseteq Blocks /\ Members(t) \subseteq Blocks
         /\ Members(f) \subseteq Blocks
         /\ Null \notin Members(k) \cup Members(t) \cup Members(f)
         /\ \A b \in Members(k) : b \notin Members(t) /\ b \notin Members(f)
         /\ \A b \in Members(t) : b \notin Members(f)
         /\ k # <<>> => k[Len(k)] \in Members(k)
<1>1. /\ Null \notin Blocks /\ next \in [Blocks -> Blocks \cup {Null}]
      /\ region \in [Blocks -> Regions]
      /\ {head, state, predecessor, freelist, matched} \subseteq Blocks \cup {Null}
  <2>1. Blocks \subseteq Nat
    BY DEF Inv, TypeOK
  <2>2. Null \notin Blocks
    BY <2>1 DEF Null
  <2> QED BY <2>2 DEF Inv, TypeOK, Handles
<1>2. /\ k \in Seq(Blocks) /\ t \in Seq(Blocks) /\ f \in Seq(Blocks)
      /\ Members(k) \subseteq Blocks /\ Members(t) \subseteq Blocks
      /\ Members(f) \subseteq Blocks
  BY PathStops DEF Lists, ListPaths, Blocks
<1>3. k # <<>> => Len(k) \in 1 .. Len(k)
  BY <1>2, EmptySeq
<1>4. k # <<>> => k[Len(k)] \in Members(k)
  BY <1>2, <1>3, MembersIs
<1>5. \A b \in Members(k) : b \notin Members(t) /\ b \notin Members(f)
  BY DEF Lists, ListBlocks
<1>6. \A b \in Members(t) : b \notin Members(f)
  BY DEF Lists, ListBlocks
<1> QED BY <1>1, <1>2, <1>4, <1>5, <1>6

\* The three lists of no blocks.
LEMMA EmptyLists ==
  /\ next = NoBlocks /\ head = Null /\ state = Null /\ freelist = Null
  /\ matched = Null /\ predecessor = Null /\ Place # "free"
  => Lists(<<>>, <<>>, <<>>)
<1> SUFFICES ASSUME next = NoBlocks, head = Null, state = Null, freelist = Null,
                    matched = Null, predecessor = Null, Place # "free"
             PROVE  Lists(<<>>, <<>>, <<>>)
  OBVIOUS
<1>1. Members(<<>>) = {} /\ Path(next, <<>>, Null, Null) /\ Blocks = {}
  BY PathNone DEF NoBlocks, Blocks
<1> QED BY <1>1 DEF Lists, ListPaths, ListBlocks, ListEnd, Rest

-----------------------------------------------------------------------------
(* Steps that leave the lists as they are                                  *)

\* Nothing is said of the other registers.
LEMMA SameLists ==
  ASSUME NEW k, NEW t, NEW f, Lists(k, t, f),
         UNCHANGED <<next, region, head, freelist, matched, state, predecessor>>,
         Place # "free", Place' # "free", Place' \in InLoop => Place \in InLoop,
         \A b \in Blocks : b \notin Granted, \A b \in Blocks : b \notin Granted'
  PROVE  Lists(k, t, f)'
<1>1. /\ Path(next, k, head, state) /\ Path(next, t, state, Null)
      /\ Path(next, f, freelist, Null)
      /\ Members(f) \subseteq Blocks
  BY PathStops DEF Lists, ListPaths, Rest, Blocks
<1>2. ListPaths(k, t, f)'
  BY <1>1 DEF ListPaths, Rest
<1>3. Blocks' = Blocks
  BY DEF Blocks
<1>4. ListBlocks(k, t, f)'
  BY <1>1, <1>3 DEF Lists, ListBlocks
<1>5. ListEnd(k)'
  BY DEF Lists, ListEnd
<1> QED BY <1>2, <1>4, <1>5 DEF Lists

\* Neither does the size of the pool change.
LEMMA SameSize ==
  ASSUME Sized, Listed, pc' # "flags", UNCHANGED <<bump, args>>, Blocks' = Blocks,
         Granted' = Granted
  PROVE  Sized'
<1>1. FlagWords' = FlagWords /\ BlockSize' = BlockSize
  BY DEF FlagWords, BlockSize
<1> QED BY <1>1 DEF Sized

\* A call begins without blocks.
LEMMA BeginLists ==
  ASSUME TypeOK', pc' = "string", bump' = FlagWords',
         next' = NoBlocks, head' = Null, state' = Null, freelist' = Null,
         matched' = Null, predecessor' = Null
  PROVE  Sized' /\ Lists(<<>>, <<>>, <<>>)'
<1>1. Blocks' = {} /\ Granted' = {} /\ Place' = "string"
  BY DEF NoBlocks, Blocks, Granted, Place
<1>2. Sized'
  <2>1. IsFiniteSet({}) /\ Cardinality({}) = 0 /\ {} \cup {} = {}
    BY FS_EmptySet
  <2>2. BlockSize' \in Nat /\ FlagWords' \in Nat
    BY SizesNext
  <2>3. (BlockSize' * 0) = 0 /\ FlagWords' + 0 = FlagWords'
    <3>1. \A x \in Nat : x * 0 = 0 /\ x + 0 = x
      OBVIOUS
    <3> QED BY <2>2, <3>1
  <2> QED BY <1>1, <2>1, <2>3 DEF Sized
<1>3. ( /\ next = NoBlocks /\ head = Null /\ state = Null /\ freelist = Null
        /\ matched = Null /\ predecessor = Null /\ Place # "free"
        => Lists(<<>>, <<>>, <<>>) )'
  BY EmptyLists, PTL
<1>4. Lists(<<>>, <<>>, <<>>)'
  BY <1>1, <1>3
<1> QED BY <1>2, <1>4

\* All states that waited are to run.
LEMMA EnterPositionLists ==
  ASSUME Inv, NEW k, NEW t, NEW f, Lists(k, t, f), EnterPosition
  PROVE  Lists(<<>>, k, f)'
<1>1. /\ pc = "string" /\ pc' = "list" /\ UNCHANGED <<next, head, freelist, matched>>
      /\ Blocks' = Blocks /\ state' = head /\ predecessor' = Null
      /\ region' = [h \in Blocks |-> IF region[h] = "kept" THEN "todo" ELSE region[h]]
  BY DEF EnterPosition, Blocks
<1>2. /\ Place = "string" /\ Place' = "list" /\ Granted = {} /\ Granted' = {}
      /\ Rest' = state'
  BY <1>1 DEF Place, Granted, Rest
<1>3. state = Null
  BY <1>2 DEF Inv, Pool, Where
<1>4. t = <<>>
  BY <1>2, <1>3, PathStops DEF Lists, ListPaths, Rest
<1>5. Members(<<>>) = {} /\ Path(next', <<>>, head', state')
  BY <1>1, PathNone
<1>6. Path(next', k, head', Null) /\ Path(next', f, freelist', Null)
  BY <1>1, <1>3 DEF Lists, ListPaths
<1>7. ListPaths(<<>>, k, f)'
  BY <1>1, <1>2, <1>5, <1>6 DEF ListPaths
<1>8. /\ \A b \in Members(k) : region'[b] = "todo"
      /\ \A b \in Members(f) : region'[b] = "free"
  BY <1>1, ListFacts DEF Lists, ListBlocks
<1>9. Blocks = Members(k) \cup Members(f) \cup ({matched} \ {Null})
  BY <1>2, <1>4, <1>5 DEF Lists, ListBlocks
<1>10. ListBlocks(<<>>, k, f)'
  BY <1>1, <1>2, <1>5, <1>8, <1>9 DEF ListBlocks
<1>11. ListEnd(<<>>)'
  BY <1>1 DEF ListEnd
<1> QED BY <1>7, <1>10, <1>11 DEF Lists

-----------------------------------------------------------------------------
(* Steps of the loop that take no memory                                   *)

\* The running state is the first of those still to run.
LEMMA StateFirst ==
  ASSUME Inv, Place \in InLoop, state # Null, NEW k, NEW t, NEW f, Lists(k, t, f)
  PROVE  /\ t # <<>> /\ state \in Blocks /\ state = t[1]
         /\ t = <<state>> \o Tail(t)
         /\ Path(next, Tail(t), next[state], Null)
         /\ Members(Tail(t)) = Members(t) \ {state} /\ state \in Members(t)
         /\ next[state] \notin Members(k) \cup {state} \cup Members(f)
<1>1. Path(next, t, state, Null) /\ t # <<>>
  BY PathStops DEF Lists, ListPaths, Rest, InLoop
<1>2. /\ state \in Blocks /\ state = t[1] /\ t = <<state>> \o Tail(t)
      /\ Path(next, Tail(t), next[state], Null)
      /\ Members(Tail(t)) = Members(t) \ {state} /\ state \in Members(t)
  BY <1>1, PathTail DEF Blocks
<1>3. next[state] = Null \/ next[state] \in Members(Tail(t))
  BY <1>2, PathStops
<1> QED BY <1>1, <1>2, <1>3, ListFacts

\* LABEL_DESTROY_STATE takes the state out of the list and frees it.
LEMMA DestroyLists ==
  ASSUME Inv, NEW k, NEW t, NEW f, Lists(k, t, f), Destroy,
         NEW g, g = <<state>> \o f
  PROVE  Lists(k, Tail(t), g)'
<1>1. /\ pc = "run" /\ pc' = "list" /\ Blocks' = Blocks
      /\ next' = [x \in Blocks |-> IF x = state THEN freelist
                                   ELSE IF x = predecessor THEN next[state] ELSE next[x]]
      /\ head' = (IF predecessor = Null THEN next[state] ELSE head)
      /\ freelist' = state /\ state' = next[state] /\ predecessor' = predecessor
      /\ region' = [region EXCEPT ![state] = "free"] /\ matched' = matched
  BY DEF Destroy, Running, Blocks
<1>P. /\ Place = "run" /\ Place' = "list" /\ state # Null /\ Granted = {}
      /\ Granted' = {} /\ Rest' = state' /\ Place \in InLoop
  BY <1>1, RunFacts DEF Place, Granted, Rest, InLoop
<1>F. Lists(k, t, f) /\ DOMAIN next = Blocks /\ DOMAIN next' = Blocks
  BY <1>1 DEF Blocks
<1>2. /\ t # <<>> /\ state \in Blocks /\ Path(next, Tail(t), next[state], Null)
      /\ Members(Tail(t)) = Members(t) \ {state} /\ state \in Members(t)
      /\ next[state] \notin Members(k) \cup {state} \cup Members(f)
  BY <1>P, StateFirst
<1>3. /\ Null \notin Blocks /\ Members(k) \subseteq Blocks /\ Members(t) \subseteq Blocks
      /\ Members(f) \subseteq Blocks /\ region \in [Blocks -> Regions]
      /\ \A b \in Members(k) : b \notin Members(t) /\ b \notin Members(f)
      /\ \A b \in Members(t) : b \notin Members(f)
      /\ k # <<>> => k[Len(k)] \in Members(k)
  BY ListFacts
<1>4. /\ k # <<>> => predecessor = k[Len(k)] /\ predecessor # Null
      /\ k = <<>> => predecessor = Null
      /\ predecessor \notin Members(t) /\ predecessor \notin Members(f)
  BY <1>P, <1>3 DEF Lists, ListEnd
<1>5. Path(next', k, head', state')
  <2>1. Path(next, k, head, state)
    BY <1>F DEF Lists, ListPaths
  <2>2. \A b \in Members(k) :
          next'[b] = IF b = k[Len(k)] THEN next[state] ELSE next[b]
    BY <1>1, <1>2, <1>3, <1>4, PathNone
  <2>3. (k = <<>> => head' = next[state]) /\ (k # <<>> => head' = head)
    BY <1>1, <1>4
  <2>4. next[state] \notin Members(k) /\ DOMAIN next \subseteq DOMAIN next'
    BY <1>2, <1>F
  <2> QED BY <1>1, <2>1, <2>2, <2>3, <2>4, PathRedirect
<1>6. Path(next', Tail(t), state', Null)
  <2>1. \A b \in Members(Tail(t)) : next'[b] = next[b]
    BY <1>1, <1>2, <1>3, <1>4
  <2> QED BY <1>1, <1>2, <1>F, <2>1, PathKept
<1>7. /\ Path(next', g, freelist', Null)
      /\ Members(g) = Members(f) \cup {state}
  <2>1. \A b \in Members(f) : next'[b] = next[b]
    BY <1>1, <1>2, <1>3, <1>4
  <2>2. Path(next', f, freelist, Null)
    BY <1>F, <2>1, PathKept DEF Lists, ListPaths
  <2>3. next'[state] = freelist /\ state \notin Members(f) /\ state # Null
    BY <1>1, <1>2, <1>3
  <2> QED BY <1>1, <1>2, <1>F, <2>2, <2>3, PathCons
<1>8. /\ \A b \in Members(k) : region'[b] = "kept"
      /\ \A b \in Members(Tail(t)) : region'[b] = "todo"
      /\ \A b \in Members(g) : region'[b] = "free"
  BY <1>1, <1>2, <1>3, <1>7, <1>F DEF Lists, ListBlocks
<1>9. Blocks' = Members(k) \cup Members(Tail(t)) \cup Members(g)
                  \cup ({matched'} \ {Null})
  BY <1>1, <1>P, <1>2, <1>7, <1>F DEF Lists, ListBlocks
<1>10. predecessor' = IF k = <<>> THEN Null ELSE k[Len(k)]
  BY <1>1, <1>4
<1>11. ListPaths(k, Tail(t), g)'
  BY <1>5, <1>6, <1>7, <1>P DEF ListPaths
<1>12. ListBlocks(k, Tail(t), g)'
  BY <1>8, <1>9, <1>P DEF ListBlocks
<1>13. ListEnd(k)'
  BY <1>10 DEF ListEnd
<1> QED BY <1>11, <1>12, <1>13 DEF Lists

\* The state becomes the last of those that wait.
LEMMA KeepLists ==
  ASSUME Inv, NEW k, NEW t, NEW f, Lists(k, t, f), Keep,
         NEW g, g = Append(k, state)
  PROVE  Lists(g, Tail(t), f)'
<1>1. /\ pc = "run" /\ pc' = "list" /\ Blocks' = Blocks
      /\ next' = next /\ head' = head /\ freelist' = freelist /\ matched' = matched
      /\ state' = next[state] /\ predecessor' = state
      /\ region' = [region EXCEPT ![state] = "kept"]
  BY DEF Keep, Running, Blocks
<1>P. /\ Place = "run" /\ Place' = "list" /\ state # Null /\ Granted = {}
      /\ Granted' = {} /\ Rest' = state' /\ Place \in InLoop
  BY <1>1, RunFacts DEF Place, Granted, Rest, InLoop
<1>2. /\ t # <<>> /\ state \in Blocks /\ Path(next, Tail(t), next[state], Null)
      /\ Members(Tail(t)) = Members(t) \ {state} /\ state \in Members(t)
      /\ next[state] \notin Members(k) \cup {state} \cup Members(f)
  BY <1>P, StateFirst
<1>3. /\ region \in [Blocks -> Regions] /\ k \in Seq(Blocks)
      /\ Members(k) \subseteq Blocks /\ Members(t) \subseteq Blocks
      /\ Members(f) \subseteq Blocks
      /\ \A b \in Members(t) : b \notin Members(f)
  BY ListFacts
<1>4. /\ Path(next, g, head, next[state])
      /\ Members(g) = Members(k) \cup {state}
  <2>1. Path(next, k, head, state) /\ state \in DOMAIN next /\ DOMAIN next = Blocks
    BY <1>2 DEF Lists, ListPaths, Blocks
  <2>2. next[state] # state /\ next[state] \notin Members(k)
    BY <1>2
  <2>3. /\ g \in Seq(Blocks) /\ Len(g) = Len(k) + 1 /\ g[Len(k) + 1] = state
        /\ \A i \in 1 .. Len(k) : g[i] = k[i]
        /\ Members(g) = Members(k) \cup {state}
    BY <1>2, <1>3, MembersAppend
  <2> QED BY <2>1, <2>2, <2>3, PathAppend
<1>5. /\ g # <<>>
      /\ g[Len(g)] = state
  <2>1. /\ g \in Seq(Blocks) /\ Len(g) = Len(k) + 1
        /\ g[Len(k) + 1] = state
    BY <1>2, <1>3, MembersAppend
  <2>2. Len(k) \in Nat
    BY <1>3
  <2> QED BY <2>1, <2>2, EmptySeq
<1>6. /\ \A b \in Members(g) : region'[b] = "kept"
      /\ \A b \in Members(Tail(t)) : region'[b] = "todo"
      /\ \A b \in Members(f) : region'[b] = "free"
  BY <1>1, <1>2, <1>3, <1>4 DEF Lists, ListBlocks
<1>7. Blocks' = Members(g) \cup Members(Tail(t)) \cup Members(f)
                  \cup ({matched'} \ {Null})
  BY <1>1, <1>P, <1>2, <1>4 DEF Lists, ListBlocks
<1>8. Path(next', f, freelist', Null)
  BY <1>1 DEF Lists, ListPaths
<1>9. Path(next', Tail(t), state', Null) /\ Path(next', g, head', state')
  BY <1>1, <1>2, <1>4
<1>10. predecessor' = IF g = <<>> THEN Null
                      ELSE g[Len(g)]
  BY <1>1, <1>5
<1>11. ListPaths(g, Tail(t), f)'
  BY <1>8, <1>9, <1>P DEF ListPaths
<1>12. ListBlocks(g, Tail(t), f)'
  BY <1>6, <1>7, <1>P DEF ListBlocks
<1>13. ListEnd(g)'
  BY <1>10 DEF ListEnd
<1> QED BY <1>11, <1>12, <1>13 DEF Lists

\* The state leaves the list, and an earlier match is freed.
LEMMA MatchLists ==
  ASSUME Inv, NEW k, NEW t, NEW f, Lists(k, t, f), Match,
         NEW g, g = IF matched = Null THEN f ELSE <<matched>> \o f
  PROVE  Lists(k, Tail(t), g)'
<1>1. /\ pc = "run" /\ pc' = "free" /\ Blocks' = Blocks
      /\ next' = [x \in Blocks |-> IF x = matched THEN freelist ELSE next[x]]
      /\ freelist' = (IF matched = Null THEN freelist ELSE matched)
      /\ region' = [x \in Blocks |-> IF x = state THEN "matched"
                                     ELSE IF x = matched THEN "free" ELSE region[x]]
      /\ matched' = state /\ scratch' = next[state] /\ n_pointers # 0
      /\ head' = head /\ state' = state /\ predecessor' = predecessor
  BY DEF Match, Blocks
<1>P. /\ Place = "run" /\ Place' = "free" /\ state # Null /\ Granted = {}
      /\ Granted' = {} /\ Rest' = scratch' /\ Place \in InLoop /\ LoopLists
  BY <1>1, RunFacts DEF Place, Granted, Rest, InLoop
<1>F. Lists(k, t, f) /\ DOMAIN next = Blocks /\ DOMAIN next' = Blocks
  BY <1>1 DEF Blocks
<1>2. /\ t # <<>> /\ state \in Blocks /\ Path(next, Tail(t), next[state], Null)
      /\ Members(Tail(t)) = Members(t) \ {state} /\ state \in Members(t)
  BY <1>P, StateFirst
<1>3. /\ Null \notin Blocks /\ Members(k) \subseteq Blocks /\ Members(t) \subseteq Blocks
      /\ Members(f) \subseteq Blocks /\ matched \in Blocks \cup {Null}
      /\ \A b \in Members(k) : b \notin Members(t) /\ b \notin Members(f)
      /\ \A b \in Members(t) : b \notin Members(f)
  BY ListFacts
<1>4. matched \notin Members(k) \cup Members(t) \cup Members(f)
  <2>1. matched # Null => region[matched] = "matched"
    BY <1>3, <1>P DEF LoopLists
  <2> QED BY <1>3, <2>1 DEF Lists, ListBlocks
<1>5. Path(next', k, head', state')
  BY <1>1, <1>3, <1>4, <1>F, PathKept DEF Lists, ListPaths
<1>6. Path(next', Tail(t), scratch', Null)
  BY <1>1, <1>2, <1>3, <1>4, <1>F, PathKept
<1>7. Path(next', f, freelist, Null)
  BY <1>1, <1>3, <1>4, <1>F, PathKept DEF Lists, ListPaths
<1>8. /\ Path(next', g, freelist', Null)
      /\ Members(g) = Members(f) \cup ({matched} \ {Null})
  <2>1. CASE matched = Null
    BY <1>1, <1>7, <2>1
  <2>2. CASE matched # Null
    <3>1. next'[matched] = freelist /\ matched \in Blocks /\ freelist' = matched
      BY <1>1, <1>3, <2>2
    <3> QED BY <1>4, <1>7, <1>F, <2>2, <3>1, PathCons
  <2> QED BY <2>1, <2>2
<1>9. /\ \A b \in Members(k) : region'[b] = "kept"
      /\ \A b \in Members(Tail(t)) : region'[b] = "todo"
      /\ \A b \in Members(g) : region'[b] = "free"
  BY <1>1, <1>2, <1>3, <1>4, <1>8, <1>F DEF Lists, ListBlocks
<1>10. Blocks' = Members(k) \cup Members(Tail(t)) \cup Members(g) \cup ({matched'} \ {Null})
  BY <1>1, <1>P, <1>2, <1>3, <1>8, <1>F DEF Lists, ListBlocks
<1>11. predecessor' = IF k = <<>> THEN Null ELSE k[Len(k)]
  BY <1>1, <1>P, <1>F DEF Lists, ListEnd
<1>12. ListPaths(k, Tail(t), g)'
  BY <1>5, <1>6, <1>8, <1>P DEF ListPaths
<1>13. ListBlocks(k, Tail(t), g)'
  BY <1>9, <1>10, <1>P DEF ListBlocks
<1>14. ListEnd(k)'
  BY <1>11 DEF ListEnd
<1> QED BY <1>12, <1>13, <1>14 DEF Lists

\* One of the states behind the match is freed.
LEMMA FreeSuccessorLists ==
  ASSUME Inv, NEW k, NEW t, NEW f, Lists(k, t, f), FreeSuccessor,
         NEW g, g = <<scratch>> \o f
  PROVE  Lists(k, Tail(t), g)'
<1>1. /\ pc = "free" /\ pc' = "free" /\ scratch # Null /\ Blocks' = Blocks
      /\ next' = [next EXCEPT ![scratch] = freelist] /\ freelist' = scratch
      /\ region' = [region EXCEPT ![scratch] = "free"] /\ scratch' = next[scratch]
      /\ head' = head /\ state' = state /\ predecessor' = predecessor
      /\ matched' = matched
  BY DEF FreeSuccessor, Blocks
<1>P. /\ Place = "free" /\ Place' = "free" /\ Granted = {} /\ Granted' = {}
      /\ Rest = scratch /\ Rest' = scratch'
  BY <1>1 DEF Place, Granted, Rest
<1>F. Lists(k, t, f) /\ DOMAIN next = Blocks /\ DOMAIN next' = Blocks
  BY <1>1 DEF Blocks
<1>2. /\ t # <<>> /\ scratch \in Blocks /\ Path(next, Tail(t), next[scratch], Null)
      /\ Members(Tail(t)) = Members(t) \ {scratch} /\ scratch \in Members(t)
  <2>1. Path(next, t, scratch, Null)
    BY <1>P DEF Lists, ListPaths
  <2>2. t # <<>>
    BY <1>1, <2>1, PathStops
  <2> QED BY <1>F, <2>1, <2>2, PathTail
<1>3. /\ Members(k) \subseteq Blocks /\ Members(t) \subseteq Blocks
      /\ Members(f) \subseteq Blocks /\ region \in [Blocks -> Regions]
      /\ next \in [Blocks -> Blocks \cup {Null}]
      /\ \A b \in Members(k) : b \notin Members(t) /\ b \notin Members(f)
      /\ \A b \in Members(t) : b \notin Members(f)
  BY ListFacts
<1>4. Path(next', k, head', state')
  BY <1>1, <1>2, <1>3, <1>F, PathKept DEF Lists, ListPaths
<1>5. Path(next', Tail(t), scratch', Null)
  BY <1>1, <1>2, <1>3, <1>F, PathKept
<1>6. /\ Path(next', g, freelist', Null)
      /\ Members(g) = Members(f) \cup {scratch}
  <2>1. Path(next', f, freelist, Null)
    BY <1>1, <1>2, <1>3, <1>F, PathKept DEF Lists, ListPaths
  <2>2. next'[scratch] = freelist /\ scratch \notin Members(f)
    BY <1>1, <1>2, <1>3, <1>F
  <2>3. scratch \in DOMAIN next' /\ scratch # Null /\ freelist' = scratch
    BY <1>1, <1>2, <1>F
  <2> QED BY <2>1, <2>2, <2>3, PathCons
<1>7. /\ \A b \in Members(k) : region'[b] = "kept"
      /\ \A b \in Members(Tail(t)) : region'[b] = "todo"
      /\ \A b \in Members(g) : region'[b] = "free"
  BY <1>1, <1>2, <1>3, <1>6, <1>F DEF Lists, ListBlocks
<1>8. Blocks' = Members(k) \cup Members(Tail(t)) \cup Members(g)
                  \cup ({matched'} \ {Null})
  BY <1>1, <1>P, <1>2, <1>6, <1>F DEF Lists, ListBlocks
<1>9. predecessor' = IF k = <<>> THEN Null ELSE k[Len(k)]
  BY <1>1, <1>P DEF Lists, ListEnd
<1>10. ListPaths(k, Tail(t), g)'
  BY <1>4, <1>5, <1>6, <1>P DEF ListPaths
<1>11. ListBlocks(k, Tail(t), g)'
  BY <1>7, <1>8, <1>P DEF ListBlocks
<1>12. ListEnd(k)'
  BY <1>9 DEF ListEnd
<1> QED BY <1>10, <1>11, <1>12 DEF Lists

\* The list ends before the match, which is no longer on it.
LEMMA RemoveMatchedLists ==
  ASSUME Inv, NEW k, NEW t, NEW f, Lists(k, t, f), RemoveMatched
  PROVE  Lists(k, <<>>, f)'
<1>1. /\ pc = "free" /\ pc' = "list" /\ scratch = Null /\ Blocks' = Blocks
      /\ next' = [x \in Blocks |-> IF x = predecessor THEN Null ELSE next[x]]
      /\ head' = (IF predecessor = Null THEN Null ELSE head)
      /\ freelist' = freelist /\ region' = region /\ state' = Null
      /\ matched' = matched /\ predecessor' = predecessor
  BY DEF RemoveMatched, Blocks
<1>P. /\ Place = "free" /\ Place' = "list" /\ Granted = {} /\ Granted' = {}
      /\ Rest = scratch /\ Rest' = state'
  BY <1>1 DEF Place, Granted, Rest
<1>F. Lists(k, t, f) /\ DOMAIN next = Blocks /\ DOMAIN next' = Blocks
  BY <1>1 DEF Blocks
<1>2. t = <<>> /\ Members(<<>>) = {} /\ Path(next', <<>>, Null, Null)
  BY <1>1, <1>P, PathStops, PathNone DEF Lists, ListPaths
<1>3. /\ Members(k) \subseteq Blocks /\ Members(f) \subseteq Blocks
      /\ Null \notin Blocks
      /\ k # <<>> => k[Len(k)] \in Members(k)
      /\ \A b \in Members(k) : b \notin Members(f)
  BY ListFacts
<1>4. /\ k # <<>> => predecessor = k[Len(k)] /\ predecessor # Null
      /\ k = <<>> => predecessor = Null
      /\ predecessor \notin Members(f)
  <2>1. predecessor = IF k = <<>> THEN Null ELSE k[Len(k)]
    BY <1>P DEF Lists, ListEnd
  <2> QED BY <1>3, <2>1
<1>5. Path(next', k, head', Null)
  <2>1. Path(next, k, head, state) /\ Null \notin Members(k)
    BY <1>3 DEF Lists, ListPaths
  <2>2. \A b \in Members(k) : next'[b] = IF b = k[Len(k)] THEN Null ELSE next[b]
    BY <1>1, <1>3, <1>4, PathNone
  <2>3. (k = <<>> => head' = Null) /\ (k # <<>> => head' = head)
    BY <1>1, <1>4
  <2> QED BY <1>F, <2>1, <2>2, <2>3, PathRedirect
<1>6. Path(next', f, freelist', Null)
  BY <1>1, <1>3, <1>4, <1>F, PathKept DEF Lists, ListPaths
<1>7. ListPaths(k, <<>>, f)'
  BY <1>1, <1>P, <1>2, <1>5, <1>6 DEF ListPaths
<1>8. ListBlocks(k, <<>>, f)'
  BY <1>1, <1>P, <1>2, <1>F DEF Lists, ListBlocks
<1>9. ListEnd(k)'
  BY <1>1, <1>P DEF Lists, ListEnd
<1> QED BY <1>7, <1>8, <1>9 DEF Lists

-----------------------------------------------------------------------------
(* Steps that take memory                                                  *)

\* The allocator takes the first block off the free list.
LEMMA FromFreelistLists ==
  ASSUME Inv, NEW k, NEW t, NEW f, Lists(k, t, f), AllocFromFreelist
  PROVE  Lists(k, t, Tail(f))'
<1>1. /\ pc = "alloc" /\ pc' = caller /\ scratch' = freelist /\ freelist # Null
      /\ freelist' = next[freelist]
      /\ UNCHANGED <<next, region, head, matched, state, predecessor, caller>>
  BY DEF AllocFromFreelist
<1>2. /\ caller \in {"spawn", "split"} /\ Place = caller /\ Place' = caller
      /\ Granted = {} /\ Granted' = {freelist} /\ Rest = state /\ Rest' = state'
  BY <1>1, Asking DEF Callers, Place, Granted, Rest
<1>3. Path(next, f, freelist, Null) /\ Blocks' = Blocks
  BY <1>1 DEF Lists, ListPaths, Blocks
<1>4. /\ Path(next, Tail(f), next[freelist], Null) /\ freelist \in Blocks
      /\ Members(Tail(f)) = Members(f) \ {freelist} /\ freelist \in Members(f)
  <2>1. f # <<>>
    BY <1>1, <1>3, PathStops
  <2> QED BY <1>3, <2>1, PathTail DEF Blocks
<1>5. ListPaths(k, t, Tail(f))'
  BY <1>1, <1>2, <1>4 DEF Lists, ListPaths
<1>6. ListBlocks(k, t, Tail(f))'
  BY <1>1, <1>2, <1>3, <1>4 DEF Lists, ListBlocks
<1>7. ListEnd(k)'
  BY <1>1, <1>2 DEF Lists, ListEnd
<1> QED BY <1>5, <1>6, <1>7 DEF Lists

\* A block from the bump pointer was not there before.
LEMMA FromBumpLists ==
  ASSUME Inv, NEW k, NEW t, NEW f, Lists(k, t, f), AllocFromBump \/ MoveBuffer, Listed'
  PROVE  Lists(k, t, f)' /\ UNCHANGED memVars
<1>1. /\ pc \in {"alloc", "move"} /\ pc' = caller /\ scratch' = bump
      /\ UNCHANGED <<head, freelist, matched, state, predecessor, caller>>
  BY DEF AllocFromBump, MoveBuffer
<1>2. UNCHANGED memVars
  BY MoveKeeps DEF AllocFromBump
<1>3. caller \in {"spawn", "split"} /\ Place = caller /\ Place' = caller
  BY <1>1, Asking DEF Callers, Place, Listed, InLoop
<1>4. Granted = {} /\ Granted' = {bump}
  BY <1>1, <1>3 DEF Granted
<1>5. bump \notin Blocks
  <2>1. \A h \in Blocks : h + BlockSize <= bump
    BY DEF Inv, Memory, BlocksDisjoint
  <2>2. BlockSize \in Nat /\ BlockSize > 0 /\ bump \in Nat
    BY Sizes DEF Inv, TypeOK
  <2> QED BY <2>1, <2>2
<1> QED BY <1>1, <1>2, <1>3, <1>4, <1>5, SameLists DEF InLoop

\* A new state is the last of those to run.
LEMMA PushInitialStateLists ==
  ASSUME Inv, NEW k, NEW t, NEW f, Lists(k, t, f), PushInitialState,
         NEW h, h = scratch
  PROVE  Lists(k, <<h>>, f)'
<1>1. /\ pc = "spawn" /\ pc' = "run" /\ state' = h
      /\ UNCHANGED <<matched, predecessor, freelist>>
      /\ next' = [x \in Blocks \cup {h} |->
                   IF x = h THEN Null ELSE IF x = predecessor THEN h ELSE next[x]]
      /\ region' = Put(region, h, "todo")
      /\ head' = (IF predecessor = Null THEN h ELSE head)
  BY DEF PushInitialState
<1>2. /\ DOMAIN next = Blocks /\ DOMAIN next' = Blocks \cup {h}
      /\ Blocks' = Blocks \cup {h}
  BY <1>1 DEF Blocks
<1>3. /\ Place = "spawn" /\ Place' = "run" /\ Granted = {h} /\ Granted' = {}
      /\ h \notin {Null, state, predecessor, head, matched, freelist}
      /\ Rest = state /\ Rest' = h /\ state = Null
      /\ h \in Blocks => region[h] = "free"
  BY <1>1, NewBlock DEF Place, Granted, Rest, Inv, Pool, Where, InLoop, GrantedIsLoose
<1>4. /\ Null \notin Blocks /\ region \in [Blocks -> Regions]
      /\ Members(k) \subseteq Blocks /\ Members(f) \subseteq Blocks
      /\ \A b \in Members(k) : b \notin Members(f)
      /\ k # <<>> => k[Len(k)] \in Members(k)
  BY ListFacts
<1>5. h \notin Members(k) \cup Members(f)
  BY <1>3, <1>4 DEF Lists, ListBlocks
<1>6. t = <<>> /\ Members(t) = {}
  <2>1. t = <<>>
    BY <1>3, PathStops DEF Lists, ListPaths
  <2> QED BY <2>1, PathNone
<1>7. /\ predecessor = IF k = <<>> THEN Null ELSE k[Len(k)]
      /\ k # <<>> => predecessor = k[Len(k)]
      /\ predecessor = Null <=> k = <<>>
  <2>1. predecessor = IF k = <<>> THEN Null ELSE k[Len(k)]
    BY <1>3 DEF Lists, ListEnd, InLoop
  <2> QED BY <1>4, <2>1
<1>8. Path(next', k, head', h)
  <2>1. Path(next, k, head, state)
    BY DEF Lists, ListPaths
  <2>2. \A b \in Members(k) : next'[b] = IF b = k[Len(k)] THEN h ELSE next[b]
    BY <1>1, <1>4, <1>5, <1>7, PathNone
  <2>3. DOMAIN next \subseteq DOMAIN next' /\ h \notin Members(k)
    BY <1>2, <1>5
  <2>4. (k = <<>> => head' = h) /\ (k # <<>> => head' = head)
    BY <1>1, <1>7
  <2> QED BY <2>1, <2>2, <2>3, <2>4, PathRedirect
<1>9. Path(next', <<h>>, h, Null) /\ Members(<<h>>) = {h}
  <2>1. next'[h] = Null /\ h \in DOMAIN next' /\ h # Null
    BY <1>1, <1>2, <1>3
  <2> QED BY <2>1, PathOne
<1>10. Path(next', f, freelist', Null)
  <2>1. \A b \in Members(f) : next'[b] = next[b]
    BY <1>1, <1>4, <1>5, <1>7
  <2> QED BY <1>1, <1>2, <2>1, PathKept DEF Lists, ListPaths
<1>11. ListPaths(k, <<h>>, f)'
  BY <1>1, <1>3, <1>8, <1>9, <1>10 DEF ListPaths
<1>12. \A b \in Blocks \cup {h} : region'[b] = IF b = h THEN "todo" ELSE region[b]
  BY <1>1, <1>4 DEF Put
<1>13. ListBlocks(k, <<h>>, f)'
  <2>1. /\ \A b \in Members(k) : region'[b] = "kept"
        /\ \A b \in Members(<<h>>) : region'[b] = "todo"
        /\ \A b \in Members(f) : region'[b] = "free"
    BY <1>4, <1>5, <1>9, <1>12 DEF Lists, ListBlocks
  <2>2. Blocks' = Members(k) \cup Members(<<h>>) \cup Members(f) \cup ({matched'} \ {Null})
    BY <1>1, <1>2, <1>3, <1>6, <1>9 DEF Lists, ListBlocks
  <2> QED BY <1>3, <2>1, <2>2 DEF ListBlocks
<1>14. ListEnd(k)'
  BY <1>1, <1>7 DEF ListEnd
<1> QED BY <1>11, <1>13, <1>14 DEF Lists

\* LABEL_PUSH_STATE_COPY puts the block behind the running state.
LEMMA PushStateCopyLists ==
  ASSUME Inv, NEW k, NEW t, NEW f, Lists(k, t, f), PushStateCopy,
         NEW h, h = scratch,
         NEW u, u = <<h>> \o Tail(t), NEW v, v = <<state>> \o u
  PROVE  Lists(k, v, f)'
<1>1. /\ pc = "split" /\ pc' = "run"
      /\ UNCHANGED <<state, predecessor, matched, head, freelist>>
      /\ next' = [x \in Blocks \cup {h} |->
                   IF x = h THEN next[state] ELSE IF x = state THEN h ELSE next[x]]
      /\ region' = Put(region, h, "todo")
  BY DEF PushStateCopy
<1>2. /\ DOMAIN next = Blocks /\ DOMAIN next' = Blocks \cup {h}
      /\ Blocks' = Blocks \cup {h}
  BY <1>1 DEF Blocks
<1>3. /\ Place = "split" /\ Place' = "run" /\ Granted = {h} /\ Granted' = {}
      /\ h \notin {Null, state, predecessor, head, matched, freelist}
      /\ Rest = state /\ Rest' = state /\ state # Null
      /\ h \in Blocks => region[h] = "free"
  BY <1>1, NewBlock DEF Place, Granted, Rest, Inv, Pool, Where, InLoop, GrantedIsLoose
<1>4. /\ Null \notin Blocks /\ region \in [Blocks -> Regions]
      /\ Members(k) \subseteq Blocks /\ Members(f) \subseteq Blocks
      /\ Members(t) \subseteq Blocks
      /\ \A b \in Members(k) : b \notin Members(f) /\ b \notin Members(t)
      /\ \A b \in Members(t) : b \notin Members(f)
  BY ListFacts
<1>5. h \notin Members(k) \cup Members(t) \cup Members(f)
  BY <1>3, <1>4 DEF Lists, ListBlocks
<1>6. /\ t # <<>> /\ state \in Blocks /\ Path(next, Tail(t), next[state], Null)
      /\ Members(Tail(t)) = Members(t) \ {state} /\ state \in Members(t)
  BY <1>3, StateFirst DEF InLoop
<1>7. Path(next', k, head', state')
  <2>1. \A b \in Members(k) : next'[b] = next[b]
    BY <1>1, <1>4, <1>5, <1>6
  <2> QED BY <1>1, <1>2, <2>1, PathKept DEF Lists, ListPaths
<1>8. Path(next', u, h, Null) /\ Members(u) = Members(Tail(t)) \cup {h}
  <2>1. \A b \in Members(Tail(t)) : next'[b] = next[b]
    BY <1>1, <1>4, <1>5, <1>6
  <2>2. Path(next', Tail(t), next[state], Null)
    BY <1>2, <1>6, <2>1, PathKept
  <2>3. next'[h] = next[state] /\ h \in DOMAIN next' /\ h # Null /\ h \notin Members(Tail(t))
    BY <1>1, <1>2, <1>3, <1>5, <1>6
  <2> QED BY <2>2, <2>3, PathCons
<1>9. Path(next', v, state, Null) /\ Members(v) = Members(t) \cup {h}
  <2>1. /\ next'[state] = h /\ state \in DOMAIN next' /\ state # Null
        /\ state \notin Members(u)
    BY <1>1, <1>2, <1>3, <1>5, <1>6, <1>8
  <2>2. Path(next', v, state, Null) /\ Members(v) = Members(u) \cup {state}
    BY <1>8, <2>1, PathCons
  <2> QED BY <1>6, <1>8, <2>2
<1>10. Path(next', f, freelist', Null)
  <2>1. \A b \in Members(f) : next'[b] = next[b]
    BY <1>1, <1>4, <1>5, <1>6
  <2> QED BY <1>1, <1>2, <2>1, PathKept DEF Lists, ListPaths
<1>11. ListPaths(k, v, f)'
  BY <1>1, <1>3, <1>7, <1>9, <1>10 DEF ListPaths
<1>12. \A b \in Blocks \cup {h} : region'[b] = IF b = h THEN "todo" ELSE region[b]
  BY <1>1, <1>4 DEF Put
<1>13. ListBlocks(k, v, f)'
  <2>1. /\ \A b \in Members(k) : region'[b] = "kept"
        /\ \A b \in Members(v) : region'[b] = "todo"
        /\ \A b \in Members(f) : region'[b] = "free"
    BY <1>4, <1>5, <1>9, <1>12 DEF Lists, ListBlocks
  <2>2. Blocks' = Members(k) \cup Members(v) \cup Members(f) \cup ({matched'} \ {Null})
    BY <1>1, <1>2, <1>3, <1>9 DEF Lists, ListBlocks
  <2> QED BY <1>3, <2>1, <2>2 DEF ListBlocks
<1>14. ListEnd(k)'
  BY <1>1, <1>3 DEF Lists, ListEnd, InLoop
<1> QED BY <1>11, <1>13, <1>14 DEF Lists

\* A refused allocation leaves the lists to the epilogue.
LEMMA FailLists ==
  ASSUME Inv, NEW k, NEW t, NEW f, Lists(k, t, f), AllocNewBuffer \/ AllocFails
  PROVE  Lists(k, t, f)'
<1>1. /\ pc = "alloc" /\ pc' \in {"move", "epilogue"}
      /\ pc' = "epilogue" => status' = "E_NOMEM"
      /\ UNCHANGED <<next, region, head, freelist, matched, state, predecessor, caller>>
  BY DEF AllocNewBuffer, AllocFails, NeedsBuffer
<1>2. /\ Place' = Place /\ Place # "free" /\ Granted = {} /\ Granted' = {}
  BY <1>1, Asking DEF Place, Granted, Callers
<1> QED BY <1>1, <1>2, SameLists

\* The first position is entered with the flags in the buffer and no blocks.
LEMMA FlagsBegin ==
  ASSUME Inv, Inv', Sized, FlagsAllocated
  PROVE  Sized' /\ Lists(<<>>, <<>>, <<>>)'
<1>1. /\ pc = "flags" /\ pc' = "string" /\ bump = FlagWords /\ UNCHANGED <<args, bump>>
      /\ UNCHANGED <<next, instr, ptrs, region, freelist, head, matched, state, predecessor>>
  BY DEF FlagsAllocated, Sized
<1>2. NoPool
  BY <1>1 DEF Place, Inv, Pool, Where
<1>3. FlagWords' = FlagWords /\ TypeOK'
  BY <1>1 DEF FlagWords, Inv
<1> QED BY <1>1, <1>2, <1>3, BeginLists DEF NoPool

-----------------------------------------------------------------------------
(* The size of the pool                                                    *)

\* A block is taken from the bump pointer, or was there before.
LEMMA AllocSize ==
  ASSUME Inv, Sized, AllocFromBump \/ AllocFromFreelist \/ MoveBuffer
  PROVE  Sized'
<1>1. /\ pc \in {"alloc", "move"} /\ pc' = caller
      /\ UNCHANGED <<args, caller>>
      /\ \/ AllocFromFreelist /\ bump' = bump /\ scratch' = freelist /\ freelist # Null
         \/ ~AllocFromFreelist /\ bump' = bump + request /\ scratch' = bump
  BY DEF AllocFromBump, AllocFromFreelist, MoveBuffer, Fits
<1>2. UNCHANGED memVars /\ Blocks' = Blocks
  BY MoveKeeps DEF AllocFromBump, AllocFromFreelist, Blocks
<1>3. /\ caller \in Callers /\ Place = caller /\ Granted = {}
      /\ request = IF caller = "flags" THEN FlagWords ELSE BlockSize
      /\ caller = "flags" => bump = 0 /\ freelist = Null
  BY <1>1, Asking
<1>4. /\ BlockSize' = BlockSize /\ FlagWords' = FlagWords
      /\ BlockSize \in Nat /\ FlagWords \in Nat /\ bump \in Nat /\ BlockSize > 0
  BY <1>1, Sizes DEF Inv, TypeOK, BlockSize, FlagWords
<1>5. CASE caller = "flags"
  <2>1. pc' = "flags" /\ bump' = FlagWords'
    BY <1>1, <1>3, <1>4, <1>5
  <2>2. ~Listed'
    BY <2>1 DEF Listed, Place, InLoop
  <2> QED BY <2>1, <2>2 DEF Sized
<1>6. CASE caller # "flags"
  <2> DEFINE h == scratch'
             n == Cardinality(Blocks)
  <2>1. /\ Listed /\ Place' = caller /\ pc' \in {"spawn", "split"} /\ Granted' = {h}
        /\ pc' # "flags"
    BY <1>1, <1>3, <1>6 DEF Listed, Place, Callers, InLoop, Granted
  <2>2. /\ IsFiniteSet(Blocks) /\ n \in Nat
        /\ bump = FlagWords + (BlockSize * n)
    <3>1. Blocks \cup Granted = Blocks
      BY <1>3
    <3>2. IsFiniteSet(Blocks) /\ bump = FlagWords + (BlockSize * Cardinality(Blocks))
      BY <2>1, <3>1 DEF Sized
    <3> QED BY <3>2, FS_CardinalityType
  <2>3. \/ h \in Blocks /\ bump' = bump
        \/ h \notin Blocks /\ bump' = bump + BlockSize
    <3>1. freelist # Null => freelist \in Blocks
      BY DEF Inv, TypeOK, Handles
    <3>2. \A b \in Blocks : b \in Nat /\ b + BlockSize <= bump
      BY DEF Inv, TypeOK, Memory, BlocksDisjoint
    <3>3. bump \notin Blocks
      BY <1>4, <3>2
    <3>4. request = BlockSize
      BY <1>3, <1>6
    <3>5. CASE AllocFromFreelist /\ bump' = bump /\ scratch' = freelist /\ freelist # Null
      BY <3>1, <3>5
    <3>6. CASE bump' = bump + request /\ scratch' = bump
      BY <3>3, <3>4, <3>6
    <3> QED BY <1>1, <3>5, <3>6
  <2> HIDE DEF h
  <2>4. Cardinality(Blocks \cup {h}) = IF h \in Blocks THEN n ELSE n + 1
    BY <2>2, FS_AddElement
  <2>5. bump' = FlagWords + (BlockSize * Cardinality(Blocks \cup {h}))
    <3>1. CASE h \in Blocks
      BY <2>2, <2>3, <2>4, <3>1
    <3>2. CASE h \notin Blocks
      <4> HIDE DEF n
      <4>1. \A x, y \in Nat : x * (y + 1) = (x * y) + x /\ (x * y) \in Nat
        OBVIOUS
      <4>2. BlockSize * (n + 1) = (BlockSize * n) + BlockSize /\ (BlockSize * n) \in Nat
        BY <1>4, <2>2, <4>1
      <4> QED BY <1>4, <2>2, <2>3, <2>4, <3>2, <4>2
    <3> QED BY <3>1, <3>2
  <2> QED BY <1>2, <1>4, <2>1, <2>2, <2>5 DEF Sized
<1> QED BY <1>5, <1>6

\* The block that was granted joins the pool.
LEMMA PushSize ==
  ASSUME Inv, Sized, PushInitialState \/ PushStateCopy
  PROVE  Sized'
<1>1. /\ pc \in {"spawn", "split"} /\ pc' = "run" /\ UNCHANGED <<bump, args>>
      /\ Blocks' = Blocks \cup {scratch}
  BY DEF PushInitialState, PushStateCopy, Blocks
<1>2. /\ Listed /\ Granted = {scratch} /\ Granted' = {}
  BY <1>1 DEF Listed, Place, Granted, InLoop
<1>3. FlagWords' = FlagWords /\ BlockSize' = BlockSize
  BY <1>1 DEF FlagWords, BlockSize
<1>4. /\ IsFiniteSet(Blocks) /\ Blocks' \cup Granted' = Blocks \cup Granted
  BY <1>1, <1>2 DEF Sized
<1>5. IsFiniteSet(Blocks')
  BY <1>1, <1>4, FS_AddElement
<1> QED BY <1>1, <1>2, <1>3, <1>4, <1>5 DEF Sized

\* Where memory is not taken.
LEMMA StepSize ==
  ASSUME Inv, Inv', Sized, Next,
         ~(AllocFromBump \/ AllocFromFreelist \/ MoveBuffer),
         ~(PushInitialState \/ PushStateCopy)
  PROVE  Sized'
<1>1. CASE CreateContext \/ DestroyContext \/ Epilogue
  BY <1>1 DEF CreateContext, DestroyContext, Epilogue, Sized, Listed, Place, InLoop
<1>2. CASE Call
  <2>1. \/ pc' = "alloc" /\ caller' = "flags"
        \/ pc' = "string" /\ ~(FlagWords' > 0)
    <3>1. CASE FlagWords' > 0
      BY <1>2, <3>1 DEF Call, Allocate
    <3>2. CASE ~(FlagWords' > 0)
      BY <1>2, <3>2 DEF Call
    <3> QED BY <3>1, <3>2
  <2>2. CASE pc' = "alloc" /\ caller' = "flags"
    BY <2>2 DEF Sized, Listed, Place, InLoop
  <2>3. CASE pc' = "string" /\ ~(FlagWords' > 0)
    <3>1. FlagWords' \in Nat /\ TypeOK'
      BY SizesNext DEF Inv
    <3>2. bump' = 0 /\ NoPool'
      BY <1>2, <2>3 DEF Call, Inv, Pool, Where, Place, NoPool, Idle
    <3> QED BY <2>3, <3>1, <3>2, BeginLists DEF NoPool
  <2> QED BY <2>1, <2>2, <2>3
<1>3. CASE FlagsAllocated
  BY <1>3, FlagsBegin
<1>4. CASE AllocNewBuffer \/ AllocFails
  <2>1. /\ pc = "alloc" /\ pc' \in {"move", "epilogue"} /\ UNCHANGED <<bump, args, next, caller>>
        /\ pc' = "epilogue" => status' = "E_NOMEM"
    BY <1>4 DEF AllocNewBuffer, AllocFails, NeedsBuffer
  <2>2. Place' = Place /\ Granted = {} /\ Granted' = {} /\ Blocks' = Blocks
    BY <2>1 DEF Place, Granted, Blocks
  <2>3. FlagWords' = FlagWords /\ BlockSize' = BlockSize
    BY <2>1 DEF FlagWords, BlockSize
  <2> QED BY <2>1, <2>2, <2>3 DEF Sized, Listed
<1>5. CASE MatchBoolean \/ Coda
  BY <1>5 DEF MatchBoolean, Coda, Sized, Listed, Place, InLoop
<1>6. CASE EnterPosition \/ ResumeState \/ WantInitialState \/ WantStateCopy \/ EndPosition
  <2>1. /\ pc \in {"string", "list", "run"} /\ pc' \notin {"flags", "spawn", "split"}
        /\ UNCHANGED <<bump, args>> /\ Blocks' = Blocks
    BY <1>6 DEF EnterPosition, ResumeState, WantInitialState, WantStateCopy, EndPosition,
                Allocate, Running, Blocks
  <2> QED BY <2>1, SameSize DEF Listed, Place, InLoop, Granted
<1>7. CASE Destroy \/ Keep \/ Advance \/ TestAndSetFlag \/ WritePointer \/ Match
             \/ FreeSuccessor \/ RemoveMatched
  <2>1. /\ pc \in {"run", "free"} /\ pc' \in {"list", "run", "free"}
        /\ UNCHANGED <<bump, args>> /\ Blocks' = Blocks
    BY <1>7 DEF Destroy, Keep, Advance, TestAndSetFlag, WritePointer, Match, FreeSuccessor,
                RemoveMatched, Running, Blocks
  <2> QED BY <2>1, SameSize DEF Listed, Place, InLoop, Granted
<1> QED BY <1>1, <1>2, <1>3, <1>4, <1>5, <1>6, <1>7 DEF Next, Client, Run, Allocator

\* Steps of the loops that do not touch a list.
LEMMA StepSame ==
  ASSUME Inv, NEW k, NEW t, NEW f, Lists(k, t, f),
         \/ ResumeState \/ WantInitialState \/ WantStateCopy \/ EndPosition
         \/ Advance \/ TestAndSetFlag \/ WritePointer
  PROVE  Lists(k, t, f)'
<1>1. /\ pc \in {"list", "run"} /\ pc' \in {"list", "run", "alloc", "coda", "string"}
      /\ pc' = "alloc" => caller' \in {"spawn", "split"}
      /\ UNCHANGED <<next, region, head, freelist, matched, state, predecessor>>
  BY DEF ResumeState, WantInitialState, WantStateCopy, EndPosition, Advance, TestAndSetFlag,
         WritePointer, Running, Allocate
<1>2. /\ Place \in InLoop /\ Place' # "free" /\ Place # "free"
      /\ Granted = {} /\ Granted' = {}
  BY <1>1 DEF Place, InLoop, Granted
<1> QED BY <1>1, <1>2, SameLists

\* Whatever happens while a call runs, the lists stay lists.
LEMMA StepLists ==
  ASSUME ListInv, Inv', Next, Listed'
  PROVE  \E k, t, f : Lists(k, t, f)'
<1>1. CASE Call
  <2>1. pc' = "string" /\ ~(FlagWords' > 0)
    BY <1>1 DEF Call, Allocate, Listed, Place, InLoop
  <2>2. FlagWords' \in Nat /\ TypeOK'
    BY SizesNext DEF Inv
  <2>3. bump' = 0 /\ NoPool'
    BY <1>1, <2>1 DEF Call, ListInv, Inv, Pool, Where, Place, NoPool, Idle
  <2> QED BY <2>1, <2>2, <2>3, BeginLists DEF NoPool
<1>2. CASE FlagsAllocated
  BY <1>2, FlagsBegin DEF ListInv
<1>3. ~(CreateContext \/ DestroyContext \/ Epilogue \/ MatchBoolean \/ Coda)
  BY DEF CreateContext, DestroyContext, Epilogue, MatchBoolean, Coda, Listed, Place, InLoop
<1>4. CASE ~(Call \/ FlagsAllocated)
  <2>1. Listed
    <3>1. CASE Allocator
      <4>1. pc \in {"alloc", "move"} /\ caller' = caller /\ pc' \in {caller, "move", "epilogue"}
        BY <3>1 DEF Allocator, AllocFromBump, AllocFromFreelist, AllocNewBuffer, MoveBuffer,
                    AllocFails, NeedsBuffer
      <4>2. Place = caller /\ caller \in Callers
        BY <4>1, Asking DEF ListInv
      <4> QED BY <4>1, <4>2 DEF Listed, Place, Callers, InLoop
    <3>2. CASE ~Allocator
      <4>1. pc \in {"string", "list", "run", "spawn", "split", "free"}
        BY <1>3, <1>4, <3>2
        DEF Next, Client, Run, EnterPosition, ResumeState, WantInitialState,
            PushInitialState, EndPosition, Destroy, Keep, Advance, TestAndSetFlag,
            WritePointer, WantStateCopy, PushStateCopy, Match, FreeSuccessor,
            RemoveMatched, Running
      <4> QED BY <4>1 DEF Listed, Place, InLoop
    <3> QED BY <3>1, <3>2
  <2>2. PICK k, t, f : Lists(k, t, f)
    BY <2>1 DEF ListInv
  <2>3. Inv
    BY DEF ListInv
  <2>4. CASE AllocFromBump \/ MoveBuffer
    BY <2>2, <2>3, <2>4, FromBumpLists
  <2>5. CASE AllocFromFreelist
    BY <2>2, <2>3, <2>5, FromFreelistLists
  <2>6. CASE AllocNewBuffer \/ AllocFails
    BY <2>2, <2>3, <2>6, FailLists
  <2>7. CASE EnterPosition
    BY <2>2, <2>3, <2>7, EnterPositionLists
  <2>8. CASE PushInitialState
    BY <2>2, <2>3, <2>8, PushInitialStateLists
  <2>9. CASE PushStateCopy
    BY <2>2, <2>3, <2>9, PushStateCopyLists
  <2>10. CASE Destroy
    BY <2>2, <2>3, <2>10, DestroyLists
  <2>11. CASE Keep
    BY <2>2, <2>3, <2>11, KeepLists
  <2>12. CASE Match
    BY <2>2, <2>3, <2>12, MatchLists
  <2>13. CASE FreeSuccessor
    BY <2>2, <2>3, <2>13, FreeSuccessorLists
  <2>14. CASE RemoveMatched
    BY <2>2, <2>3, <2>14, RemoveMatchedLists
  <2>15. CASE \/ ResumeState \/ WantInitialState \/ WantStateCopy \/ EndPosition
              \/ Advance \/ TestAndSetFlag \/ WritePointer
    BY <2>2, <2>3, <2>15, StepSame
  <2> QED BY <1>3, <1>4, <2>4, <2>5, <2>6, <2>7, <2>8, <2>9, <2>10, <2>11, <2>12, <2>13,
             <2>14, <2>15 DEF Next, Client, Run, Allocator
<1> QED BY <1>1, <1>2, <1>4

\* And the pool stays as large as its blocks.
LEMMA ListInvPreserved == ListInv /\ [Next]_vars => ListInv'
<1> SUFFICES ASSUME ListInv, [Next]_vars PROVE ListInv'
  OBVIOUS
<1>1. Inv /\ Sized /\ Inv'
  BY InvPreserved DEF ListInv
<1>2. CASE Next
  <2>1. Sized'
    BY <1>1, <1>2, AllocSize, PushSize, StepSize
  <2> QED BY <1>1, <1>2, <2>1, StepLists DEF ListInv
<1>3. CASE UNCHANGED vars
  <2>1. /\ Place' = Place /\ Granted' = Granted /\ Blocks' = Blocks
        /\ FlagWords' = FlagWords /\ BlockSize' = BlockSize /\ Rest' = Rest
        /\ UNCHANGED <<next, region, head, freelist, matched, state, predecessor, pc, bump>>
    BY <1>3 DEF vars, Place, Granted, Blocks, FlagWords, BlockSize, Rest
  <2> QED BY <1>1, <2>1
          DEF ListInv, Sized, Listed, Lists, ListPaths, ListBlocks, ListEnd
<1> QED BY <1>2, <1>3

\* The lists are lists in every reachable state.
LEMMA ListInvariance == Spec => []ListInv
<1>1. Init => ListInv
  BY InitInv DEF Init, ListInv, Sized, Listed, Place, InLoop
<1>2. ListInv /\ [Next]_vars => ListInv'
  BY ListInvPreserved
<1> QED BY <1>1, <1>2, PTL DEF Spec

-----------------------------------------------------------------------------
(* No block is lost                                                        *)

\* The list of states as a whole, as Chain reads it.
LEMMA ListsRead ==
  ASSUME Inv, IsFiniteSet(Blocks), Place # "free", NEW k, NEW t, NEW f, Lists(k, t, f)
  PROVE  /\ Chain(head) = k \o t /\ Chain(freelist) = f
         /\ Members(k \o t) = Members(k) \cup Members(t)
<1>1. /\ Path(next, k, head, state) /\ Path(next, t, state, Null)
      /\ Path(next, f, freelist, Null)
  BY DEF Lists, ListPaths, Rest
<1>2. Null \notin Members(k) /\ \A b \in Members(k) : b \notin Members(t)
  BY ListFacts
<1>3. /\ Path(next, k \o t, head, Null)
      /\ Members(k \o t) = Members(k) \cup Members(t)
  BY <1>1, <1>2, PathJoin
<1> QED BY <1>1, <1>3, SegmentIs DEF Chain, Blocks

\* Between the emitted pieces of code, through registers and one field, no
\* block of a state is lost, shared, handed out while a state lives in it, or
\* left to resume where there is no code, whatever the regex and the string.
THEOREM StatesAreOwned == Spec => []StatesOwned
<1>1. ListInv => StatesOwned
  <2> SUFFICES ASSUME ListInv PROVE StatesOwned
    OBVIOUS
  <2>1. Inv /\ TypeOK /\ OneOwner /\ FreeIsFree
    BY BlocksHaveOneOwner, FreeBlocksAreFree DEF ListInv, Inv
  <2>2. ResumesAtCode
    BY <2>1 DEF Inv, InCode, ResumesAtCode
  <2>3. ASSUME pc \in {"string", "list", "run", "coda"}
        PROVE  /\ Blocks = Members(Chain(head)) \cup Members(Chain(freelist))
                             \cup ({matched} \ {Null})
               /\ bump = FlagWords + (BlockSize * Cardinality(Blocks))
    <3>1. Place = pc /\ Listed /\ Granted = {} /\ Place # "free"
      BY <2>3 DEF Place, Listed, Granted, InLoop
    <3>2. /\ IsFiniteSet(Blocks) /\ Blocks \cup Granted = Blocks
          /\ bump = FlagWords + (BlockSize * Cardinality(Blocks \cup Granted))
      BY <3>1 DEF ListInv, Sized
    <3>3. PICK k, t, f : Lists(k, t, f)
      BY <3>1 DEF ListInv
    <3>4. /\ Members(Chain(head)) = Members(k) \cup Members(t)
          /\ Members(Chain(freelist)) = Members(f)
      BY <2>1, <3>1, <3>2, <3>3, ListsRead
    <3>5. Blocks = Members(k) \cup Members(t) \cup Members(f) \cup ({matched} \ {Null})
      BY <3>1, <3>3 DEF Lists, ListBlocks
    <3> QED BY <3>2, <3>4, <3>5
  <2>4. NoBlockLost
    BY <2>3 DEF NoBlockLost
  <2> QED BY <2>1, <2>2, <2>4 DEF StatesOwned
<1> QED BY <1>1, ListInvariance, PTL

-----------------------------------------------------------------------------
(* What the algorithm needs to know of the registers                       *)

\* No instruction tests a flag of the upper half of the register, as when a
\* program has no more than 32: what those do is a finding of its own.
FlagsFit ==
  \A r \in Regexes : \A k \in Starts(r.code) :
    r.code[k + 1].op = "TEST_AND_SET_FLAG" =>
      r.code[k + 1].operand \notin (RegisterFlags \div 2) .. (RegisterFlags - 1)

\* What the slot M_INITIAL_STATE_PUSHED says of the position, and of the match.
\* It is stale while the states behind a match are freed.
PushedOnce ==
  /\ Place \in {"list", "run", "split"} => (pushed <=> spawned \/ matched # Null)
  /\ Place = "spawn" => pushed /\ ~spawned /\ matched = Null
  /\ Place = "string" => (matched # Null => pushed)

\* The result is written once, at the end.
Unwritten == result = Result("NONE", FALSE, NullPointers(n_pointers))
Written ==
  /\ result = Result("NONE", result.found,
                     IF matched = Null THEN NullPointers(n_pointers) ELSE ptrs[matched])
  /\ matched # Null => result.found
  /\ matched = Null /\ result.found => n_pointers = 0
ResultOnce ==
  /\ pc \notin Idle \cup {"epilogue"} => Unwritten
  /\ pc = "epilogue" => IF status = "OK" THEN Written ELSE Unwritten

\* The upper half of the register is clear.
LowFlags == \A f \in regflags : f < RegisterFlags \div 2

MapInv == ListInv /\ PushedOnce /\ ResultOnce /\ LowFlags

\* A state is pushed at a position unless there is a match, and once.
LEMMA PushedPreserved == Inv /\ Inv' /\ PushedOnce /\ [Next]_vars => PushedOnce'
<1> SUFFICES ASSUME Inv, Inv', PushedOnce, [Next]_vars PROVE PushedOnce'
  OBVIOUS
<1>1. pushed \in BOOLEAN /\ spawned \in BOOLEAN /\ Asked
  BY DEF Inv, TypeOK, Memory
<1>2. CASE CreateContext \/ DestroyContext \/ Epilogue
  <2>1. Place' \in Idle
    BY <1>2 DEF CreateContext, DestroyContext, Epilogue, Place, Idle
  <2> QED BY <2>1 DEF PushedOnce, Idle
<1>3. CASE Call \/ FlagsAllocated
  <2>1. Place' \in {"flags", "string"} /\ Place \in {"idle", "flags"} /\ matched' = matched
    BY <1>3 DEF Call, Allocate, FlagsAllocated, Place
  <2>2. matched = Null
    BY <2>1 DEF Inv, Pool, Where, NoPool, Idle
  <2> QED BY <2>1, <2>2 DEF PushedOnce
<1>4. CASE Allocator
  <2>1. Place' = Place /\ UNCHANGED <<pushed, spawned, matched>>
    BY <1>1, <1>4 DEF Allocator, AllocFromBump, AllocFromFreelist, AllocNewBuffer,
        MoveBuffer, AllocFails, NeedsBuffer, Place, Asked, Callers
  <2> QED BY <2>1 DEF PushedOnce
<1>5. CASE EnterPosition
  BY <1>1, <1>5 DEF EnterPosition, PushedOnce, Place
<1>6. CASE ResumeState
  BY <1>1, <1>6 DEF ResumeState, PushedOnce, Place
<1>7. CASE WantInitialState
  BY <1>1, <1>7 DEF WantInitialState, Allocate, PushedOnce, Place
<1>8. CASE PushInitialState
  BY <1>1, <1>8 DEF PushInitialState, PushedOnce, Place
<1>9. CASE EndPosition
  BY <1>1, <1>9 DEF EndPosition, PushedOnce, Place
<1>10. CASE Destroy \/ Keep \/ Advance \/ TestAndSetFlag \/ WritePointer
  BY <1>1, <1>10 DEF Destroy, Keep, Advance, TestAndSetFlag, WritePointer, Running,
                     PushedOnce, Place
<1>11. CASE WantStateCopy \/ PushStateCopy
  BY <1>1, <1>11 DEF WantStateCopy, PushStateCopy, Allocate, Running, PushedOnce, Place
<1>12. CASE MatchBoolean \/ Match \/ FreeSuccessor \/ Coda
  <2>1. Place' \in {"epilogue", "free"}
    BY <1>12 DEF MatchBoolean, Match, FreeSuccessor, Coda, Place, stepFrame
  <2> QED BY <2>1 DEF PushedOnce
<1>13. CASE RemoveMatched
  <2>1. Place = "free" /\ Place' = "list" /\ pushed' = TRUE /\ matched' = matched
    BY <1>13 DEF RemoveMatched, Place
  <2>2. matched # Null
    BY <2>1 DEF Inv, Pool, Where
  <2> QED BY <2>1, <2>2 DEF PushedOnce
<1>14. CASE UNCHANGED vars
  BY <1>14 DEF vars, PushedOnce, Place
<1> QED BY <1>2, <1>3, <1>4, <1>5, <1>6, <1>7, <1>8, <1>9, <1>10, <1>11, <1>12, <1>13,
           <1>14 DEF Next, Client, Run

\* The flags that are set stay out of the upper half.
LEMMA LowFlagsPreserved ==
  ASSUME FlagsFit
  PROVE  Inv /\ LowFlags /\ [Next]_vars => LowFlags'
<1> SUFFICES ASSUME Inv, LowFlags, [Next]_vars PROVE LowFlags'
  OBVIOUS
<1>1. ASSUME Running, Instr.op = "TEST_AND_SET_FLAG", TestAndSet(Instr.operand)
      PROVE  LowFlags'
  <2>1. /\ regex \in Regexes /\ ip \in Starts(Code)
        /\ Instr.operand \in 0 .. regex.flags - 1 /\ regex.flags \in Nat
    BY <1>1, AtInstruction, CodeClosed, NativeRegexAssumption DEF Inv, TypeOK
  <2>2. /\ Instr.operand \notin (RegisterFlags \div 2) .. (RegisterFlags - 1)
        /\ Instr.operand \in Nat
    BY <1>1, <2>1 DEF FlagsFit, Instr, Code
  <2>3. RegisterFlags \div 2 \in Nat /\ RegisterFlags \in Nat
    BY NativeMemoryAssumption
  <2>4. PICK f : f = Instr.operand
    OBVIOUS
  <2>5. f < RegisterFlags \div 2 \/ regflags' = regflags
    BY <1>1, <2>2, <2>3, <2>4 DEF TestAndSet
  <2>6. f < RegisterFlags \div 2 => \A g \in regflags' : g < RegisterFlags \div 2
    BY <1>1, <2>2, <2>3, <2>4 DEF TestAndSet
  <2> QED BY <2>5, <2>6 DEF LowFlags
<1>2. CASE UNCHANGED regflags
  BY <1>2 DEF LowFlags
<1>3. CASE regflags' = {}
  BY <1>3 DEF LowFlags
<1>4. CASE Destroy \/ TestAndSetFlag
  BY <1>1, <1>2, <1>4 DEF Destroy, TestAndSetFlag, FlagSet, flagVars
<1>5. CASE EnterPosition \/ Epilogue
  BY <1>2, <1>3, <1>5 DEF EnterPosition, Epilogue, FrameGone
<1>6. CASE CreateContext \/ DestroyContext \/ Call \/ FlagsAllocated \/ Allocator
  BY <1>2, <1>6 DEF CreateContext, DestroyContext, Call, FlagsAllocated, Allocator,
     AllocFromBump, AllocFromFreelist, AllocNewBuffer, MoveBuffer, AllocFails, frameVars,
     allocFrame, flagVars
<1>7. CASE ResumeState \/ WantInitialState \/ PushInitialState \/ EndPosition \/ Keep
             \/ Advance \/ WritePointer \/ WantStateCopy \/ PushStateCopy
  BY <1>2, <1>7 DEF ResumeState, WantInitialState, PushInitialState, EndPosition, Keep,
     Advance, WritePointer, WantStateCopy, PushStateCopy, flagVars
<1>8. CASE MatchBoolean \/ Match \/ FreeSuccessor \/ RemoveMatched \/ Coda
  BY <1>2, <1>8 DEF MatchBoolean, Match, FreeSuccessor, RemoveMatched, Coda, flagVars
<1>9. CASE UNCHANGED vars
  BY <1>2, <1>9 DEF vars, flagVars
<1> QED BY <1>4, <1>5, <1>6, <1>7, <1>8, <1>9 DEF Next, Client, Run

\* The result is written where the call is decided, and not before.
LEMMA ResultPreserved == Inv /\ ResultOnce /\ [Next]_vars => ResultOnce'
<1> SUFFICES ASSUME Inv, ResultOnce, [Next]_vars PROVE ResultOnce'
  OBVIOUS
<1>1. CASE CreateContext \/ DestroyContext \/ Epilogue
  <2>1. pc' \in Idle
    BY <1>1 DEF CreateContext, DestroyContext, Epilogue, Idle
  <2> QED BY <2>1 DEF ResultOnce, Idle
<1>2. CASE Call
  <2>1. pc' \in {"alloc", "string"}
    BY <1>2 DEF Call, Allocate
  <2>2. Unwritten'
    BY <1>2 DEF Call, Unwritten, Result, NullPointers
  <2> QED BY <2>1, <2>2 DEF ResultOnce, Idle
<1>3. ASSUME UNCHANGED <<result, n_pointers>>, pc \notin Idle \cup {"epilogue"},
             pc' # "epilogue" \/ status' # "OK"
      PROVE  ResultOnce'
  <2>1. Unwritten
    BY <1>3 DEF ResultOnce
  <2>2. Unwritten'
    BY <1>3, <2>1 DEF Unwritten, Result, NullPointers
  <2> QED BY <1>3, <2>2 DEF ResultOnce
<1>4. CASE FlagsAllocated \/ Allocator
  BY <1>3, <1>4 DEF FlagsAllocated, Allocator, AllocFromBump, AllocFromFreelist,
     AllocNewBuffer, MoveBuffer, AllocFails, NeedsBuffer, Idle, Inv, Memory, Asked, Callers
<1>5. CASE EnterPosition \/ ResumeState \/ WantInitialState \/ PushInitialState
             \/ EndPosition
  BY <1>3, <1>5 DEF EnterPosition, ResumeState, WantInitialState, Allocate,
     PushInitialState, EndPosition, Idle
<1>6. CASE Destroy \/ Keep \/ Advance \/ TestAndSetFlag \/ WritePointer
             \/ WantStateCopy \/ PushStateCopy
  BY <1>3, <1>6 DEF Destroy, Keep, Advance, TestAndSetFlag, WritePointer, WantStateCopy,
     PushStateCopy, Allocate, Running, Idle
<1>7. CASE Match \/ FreeSuccessor \/ RemoveMatched
  BY <1>3, <1>7 DEF Match, FreeSuccessor, RemoveMatched, Idle
<1>8. CASE MatchBoolean
  <2>1. /\ pc = "run" /\ pc' = "epilogue" /\ status' = "OK" /\ n_pointers = 0
        /\ result' = [result EXCEPT !.found = TRUE]
        /\ UNCHANGED <<n_pointers, matched, ptrs>>
    BY <1>8 DEF MatchBoolean
  <2>2. Unwritten /\ matched = Null
    BY <2>1 DEF ResultOnce, Idle, Inv, Pool, RootRegions
  <2>3. /\ result' = Result("NONE", TRUE, NullPointers(n_pointers)) /\ result'.found = TRUE
    BY <2>1, <2>2 DEF Unwritten, Result
  <2>4. Written'
    BY <2>1, <2>2, <2>3 DEF Written, Result, NullPointers
  <2> QED BY <2>1, <2>4 DEF ResultOnce, Idle
<1>9. CASE Coda
  <2>1. /\ pc' = "epilogue" /\ status' = "OK"
        /\ result' = Result("NONE", n_pointers # 0 /\ matched # Null,
                            IF n_pointers = 0 \/ matched = Null
                            THEN NullPointers(n_pointers) ELSE ptrs[matched])
        /\ UNCHANGED <<n_pointers, matched, ptrs>>
    BY <1>9 DEF Coda
  <2>2. matched # Null => n_pointers # 0
    BY DEF Inv, Pool, RootRegions
  <2>3. result'.found = (matched # Null)
    BY <2>1, <2>2 DEF Result
  <2>4. result' = Result("NONE", matched # Null,
                         IF matched = Null THEN NullPointers(n_pointers) ELSE ptrs[matched])
    BY <2>1, <2>2 DEF Result
  <2>5. Written'
    BY <2>1, <2>3, <2>4 DEF Written, Result, NullPointers
  <2> QED BY <2>1, <2>5 DEF ResultOnce, Idle
<1>10. CASE UNCHANGED vars
  BY <1>10 DEF vars, ResultOnce, Unwritten, Written, Result, NullPointers
<1> QED BY <1>1, <1>2, <1>4, <1>5, <1>6, <1>7, <1>8, <1>9, <1>10 DEF Next, Client, Run

\* What the mapping needs holds in every reachable state.
LEMMA MapInvariance ==
  ASSUME FlagsFit
  PROVE  Spec => []MapInv
<1>1. Init => ListInv
  BY InitInv DEF Init, NoFrame, ListInv, Sized, Listed, Place, InLoop
<1>2. Init => PushedOnce /\ ResultOnce /\ LowFlags
  BY DEF Init, NoFrame, PushedOnce, ResultOnce, LowFlags, Place, Idle
<1>3. ListInv /\ [Next]_vars => Inv /\ Inv' /\ ListInv'
  BY InvPreserved, ListInvPreserved DEF ListInv
<1>4. MapInv /\ [Next]_vars => PushedOnce'
  BY <1>3, PushedPreserved DEF MapInv
<1>5. MapInv /\ [Next]_vars => ResultOnce'
  BY <1>3, ResultPreserved DEF MapInv
<1>6. MapInv /\ [Next]_vars => LowFlags'
  BY <1>3, LowFlagsPreserved DEF MapInv
<1>7. Init => MapInv
  BY <1>1, <1>2 DEF MapInv
<1>8. MapInv /\ [Next]_vars => MapInv'
  BY <1>3, <1>4, <1>5, <1>6 DEF MapInv
<1> QED BY <1>7, <1>8, PTL DEF Spec

-----------------------------------------------------------------------------
(* What the algorithm sees                                                 *)

\* The states in the blocks.
Store == [h \in Blocks |-> StateAt(h)]

\* A list of blocks, as a list of threads.
LEMMA AsThreadsIs ==
  ASSUME NEW s \in Seq(Blocks)
  PROVE  AsThreads(s) = Along(Store, s)
<1>1. \A i \in DOMAIN s : s[i] \in Blocks
  OBVIOUS
<1>2. \A i \in DOMAIN s : Store[s[i]] = StateAt(s[i])
  BY <1>1 DEF Store
<1> QED BY <1>2 DEF AsThreads, Along

\* The lists as the algorithm's threads, wherever they are in a call.
Reading ==
  \A k, t, f : Listed /\ Lists(k, t, f) =>
    /\ Place \in AtPosition => PikeKept = Along(Store, k)
    /\ Place \in InLoop => PikeTodo = Along(Store, t)
    /\ Place = "string" => PikeTodo = Along(Store, k)

\* The threads as they are read from the lists.
LEMMA ReadingNow == ListInv => Reading
<1> SUFFICES ASSUME ListInv, Listed, NEW k, NEW t, NEW f, Lists(k, t, f)
             PROVE  /\ Place \in AtPosition => PikeKept = Along(Store, k)
                    /\ Place \in InLoop => PikeTodo = Along(Store, t)
                    /\ Place = "string" => PikeTodo = Along(Store, k)
  BY DEF Reading
<1>1. IsFiniteSet(Blocks)
  BY DEF ListInv, Sized
<1>2. Kept = k /\ (Place \in InLoop => Todo = t)
  <2>1. /\ Path(next, k, head, state) /\ Path(next, t, Rest, Null)
        /\ IsFiniteSet(DOMAIN next)
    BY <1>1 DEF Lists, ListPaths, Blocks
  <2>2. Place \in InLoop => Rest = state
    BY DEF Rest, InLoop
  <2> QED BY <2>1, <2>2, SegmentIs DEF Kept, Todo
<1>3. k \in Seq(Blocks) /\ t \in Seq(Blocks)
  BY ListFacts DEF ListInv
<1>4. AsThreads(k) = Along(Store, k) /\ AsThreads(t) = Along(Store, t)
  BY <1>3, AsThreadsIs
<1>5. Place = "string" => Place \notin InLoop
  BY DEF InLoop
<1> QED BY <1>2, <1>4, <1>5 DEF PikeKept, PikeTodo

\* And after a step.
LEMMA ReadingNext == ListInv' => Reading'
BY ReadingNow, PTL

-----------------------------------------------------------------------------
(* Both modules read a program alike                                       *)

\* Instructions and characters.
LEMMA SameReading ==
  /\ \A c, i : Pike!After(c, i) = After(c, i)
  /\ \A c, i : Pike!Continuation(c, i) = Continuation(c, i)
  /\ \A c, i : Pike!SplitPointer(c, i) = SplitPointer(c, i)
  /\ \A t, p : Pike!CharAt(t, p) = CharAt(t, p)
  /\ \A t, p : Pike!CharBefore(t, p) = CharBefore(t, p)
  /\ Pike!EOF = EOF
<1>1. \A c, i : Pike!After(c, i) = After(c, i)
  BY DEF Pike!After, After
<1>2. \A c, i : Pike!Continuation(c, i) = Continuation(c, i)
  BY DEF Pike!Continuation, Continuation, Pike!After, After
<1>3. \A c, i : Pike!SplitPointer(c, i) = SplitPointer(c, i)
  BY DEF Pike!SplitPointer, SplitPointer, Pike!After, After
<1>4. \A t, p : Pike!CharAt(t, p) = CharAt(t, p)
  BY DEF Pike!CharAt, CharAt, Pike!EOF, EOF
<1>5. \A t, p : Pike!CharBefore(t, p) = CharBefore(t, p)
  BY DEF Pike!CharBefore, CharBefore, Pike!EOF, EOF
<1>6. Pike!EOF = EOF
  BY DEF Pike!EOF, EOF
<1> QED BY <1>1, <1>2, <1>3, <1>4, <1>5, <1>6

\* The tests.
LEMMA SameTests ==
  /\ \A r, i, c : Pike!Accepts(r, i, c) = Accepts(r, i, c)
  /\ \A o, b, c : Pike!AnchorHolds(o, b, c) = AnchorHolds(o, b, c)
  /\ Pike!ConsumeOps = ConsumeOps /\ Pike!AnchorOps = AnchorOps
  /\ Pike!SplitOps = SplitOps
<1>1. \A r, i, c : Pike!Accepts(r, i, c) = Accepts(r, i, c)
  BY DEF Pike!Accepts, Accepts, Pike!EOF, EOF
<1>2. \A o, b, c : Pike!AnchorHolds(o, b, c) = AnchorHolds(o, b, c)
  BY DEF Pike!AnchorHolds, AnchorHolds, Pike!EOF, EOF, Pike!IsWord, IsWord
<1>3. /\ Pike!ConsumeOps = ConsumeOps /\ Pike!AnchorOps = AnchorOps
      /\ Pike!SplitOps = SplitOps
  BY DEF Pike!ConsumeOps, ConsumeOps, Pike!AnchorOps, AnchorOps, Pike!SplitOps, SplitOps
<1> QED BY <1>1, <1>2, <1>3

\* Only jumps and eager splits lead anywhere but to the next instruction.
LEMMA GoesOn ==
  ASSUME NEW code, NEW i,
         code[i + 1].op \notin {"JUMP", "SPLIT_EAGER", "SPLIT_BACKWARDS_EAGER"}
  PROVE  Continuation(code, i) = After(code, i)
BY Zenon DEF Continuation

\* The pointers of no groups.
LEMMA NoPointers == NullPointers(0) = <<>>
<1> DEFINE z == [p \in 1 .. 0 |-> Null]
<1>1. z \in Seq({}) /\ Len(z) = 0
  OBVIOUS
<1>2. 0 .. 0 - 1 = 1 .. 0
  OBVIOUS
<1> HIDE DEF z
<1>3. z = <<>>
  BY <1>1, EmptySeq
<1> QED BY <1>2, <1>3 DEF NullPointers, z

\* Both modules have the same results and arguments.
LEMMA SameResults ==
  /\ \A n : Pike!NullPointers(n) = NullPointers(n)
  /\ \A s, b, p : Pike!Result(s, b, p) = Result(s, b, p)
  /\ \A r : Pike!NPointers(r) = NPointers(r)
<1>1. \A n : Pike!NullPointers(n) = NullPointers(n)
  BY DEF Pike!NullPointers, NullPointers, Pike!Null, Null
<1>2. \A s, b, p : Pike!Result(s, b, p) = Result(s, b, p)
  BY DEF Pike!Result, Result
<1>3. \A r : Pike!NPointers(r) = NPointers(r)
  BY DEF Pike!NPointers, NPointers
<1> QED BY <1>1, <1>2, <1>3

-----------------------------------------------------------------------------
(* What a step leaves as it is                                             *)

\* The match and the result, while nothing is returned.
LEMMA MatchedIs ==
  ASSUME ResultOnce, pc = "epilogue" => status # "OK"
  PROVE  PikeMatched = IF matched # Null THEN <<ptrs[matched]>> ELSE <<>>
<1>1. pc = "epilogue" => ~result.found
  BY DEF ResultOnce, Unwritten, Result
<1> QED BY <1>1 DEF PikeMatched

\* The same as an implication, to be read of a next state too.
LEMMA MatchedNow ==
  ResultOnce /\ (pc = "epilogue" => status # "OK") =>
    PikeMatched = IF matched # Null THEN <<ptrs[matched]>> ELSE <<>>
BY MatchedIs

\* After a step.
LEMMA MatchedNext ==
  ResultOnce' /\ (pc' = "epilogue" => status' # "OK") =>
    PikeMatched' = IF matched' # Null THEN <<ptrs'[matched']>> ELSE <<>>
<1>1. (ResultOnce /\ (pc = "epilogue" => status # "OK") =>
        PikeMatched = IF matched # Null THEN <<ptrs[matched]>> ELSE <<>>)'
  BY MatchedNow, PTL
<1> QED BY <1>1

\* A match that a step does not touch.
LEMMA SameMatched ==
  ASSUME ResultOnce, ResultOnce', pc = "epilogue" => status # "OK",
         pc' = "epilogue" => status' # "OK",
         matched' = matched, matched # Null => ptrs'[matched] = ptrs[matched]
  PROVE  PikeMatched' = PikeMatched
BY MatchedNow, MatchedNext

\* PikeVm sees no result until the call returns.
LEMMA ResultNow ==
  ResultOnce /\ pc \notin Idle => PikeResult = Result("NONE", FALSE, NullPointers(n_pointers))
BY DEF ResultOnce, PikeResult, Unwritten, Idle

\* Nor after a step within the call.
LEMMA SameResult ==
  ASSUME ResultOnce, ResultOnce', pc \notin Idle, pc' \notin Idle, n_pointers' = n_pointers
  PROVE  PikeResult' = PikeResult
<1>1. (ResultOnce /\ pc \notin Idle =>
        PikeResult = Result("NONE", FALSE, NullPointers(n_pointers)))'
  BY ResultNow, PTL
<1>2. PikeResult' = Result("NONE", FALSE, NullPointers(n_pointers'))
  BY <1>1 DEF Idle, Result, NullPointers
<1>3. PikeResult = Result("NONE", FALSE, NullPointers(n_pointers))
  BY ResultNow
<1> QED BY <1>2, <1>3

\* The states in the blocks that a step does not write.
LEMMA SameStates ==
  ASSUME NEW s \in Seq(Blocks), Blocks \subseteq Blocks',
         \A b \in Members(s) : StateAt(b)' = StateAt(b)
  PROVE  Along(Store', s) = Along(Store, s)
<1>1. Members(s) \subseteq Blocks /\ s \in Seq(DOMAIN Store)
  BY MembersIs DEF Store
<1>2. \A b \in Members(s) : Store'[b] = Store[b]
  BY <1>1 DEF Store
<1> QED BY <1>1, <1>2, AlongSame

\* The states other than the running one, when only that one is written.
LEMMA OtherStates ==
  ASSUME Inv, Place \in InLoop, state # Null, NEW k, NEW t, NEW f, Lists(k, t, f),
         Blocks \subseteq Blocks', state' = state \/ Place' \notin {"run", "split"},
         \A b \in Members(k) \cup Members(t) :
           b # state => instr'[b] = instr[b] /\ ptrs'[b] = ptrs[b]
  PROVE  /\ Along(Store', k) = Along(Store, k)
         /\ Along(Store', Tail(t)) = Along(Store, Tail(t))
<1>1. /\ k \in Seq(Blocks) /\ t \in Seq(Blocks) /\ t # <<>>
      /\ \A b \in Members(k) : b \notin Members(t)
      /\ Members(Tail(t)) = Members(t) \ {state} /\ state \in Members(t)
  BY ListFacts, StateFirst
<1>2. Tail(t) \in Seq(Blocks)
  BY <1>1, SplitHead
<1>3. \A b \in Members(k) \cup Members(Tail(t)) : b # state
  BY <1>1
<1>4. \A b \in Members(k) \cup Members(Tail(t)) : StateAt(b)' = StateAt(b)
  BY <1>1, <1>3 DEF StateAt
<1> QED BY <1>1, <1>2, <1>4, SameStates

-----------------------------------------------------------------------------
(* At a position                                                           *)

\* What PikeVm has at a position.
LEMMA AtPositionNow ==
  ASSUME ListInv, Place \in InLoop, NEW k, NEW t, NEW f, Lists(k, t, f)
  PROVE  /\ PikeStatus = "threads" /\ PikeFlags = regflags \cup memflags
         /\ PikeSpawned = spawned
         /\ PikeKept = Along(Store, k) /\ PikeTodo = Along(Store, t)
<1>1. Listed /\ Place \in AtPosition /\ Place \notin {"flags", "string"} /\ pc \notin Idle
  BY DEF Listed, AtPosition, InLoop, Idle, Place
<1>2. PikeKept = Along(Store, k) /\ PikeTodo = Along(Store, t)
  BY <1>1, ReadingNow DEF Reading
<1>3. spawned \in BOOLEAN
  BY DEF ListInv, Inv, TypeOK
<1> QED BY <1>1, <1>2, <1>3 DEF PikeStatus, PikeFlags, PikeSpawned

\* And after a step.
LEMMA AtPositionNext ==
  ASSUME ListInv', Place' \in InLoop, NEW k, NEW t, NEW f, Lists(k, t, f)'
  PROVE  /\ PikeStatus' = "threads" /\ PikeFlags' = regflags' \cup memflags'
         /\ PikeSpawned' = spawned'
         /\ PikeKept' = Along(Store', k) /\ PikeTodo' = Along(Store', t)
<1>1. /\ Listed' /\ Place' \in AtPosition /\ Place' \notin {"flags", "string"}
      /\ pc' \notin Idle
  BY DEF Listed, AtPosition, InLoop, Idle, Place
<1>2. PikeKept' = Along(Store', k) /\ PikeTodo' = Along(Store', t)
  BY <1>1, ReadingNext DEF Reading, AtPosition, InLoop
<1>3. spawned' \in BOOLEAN
  BY DEF ListInv, Inv, TypeOK
<1> QED BY <1>1, <1>2, <1>3 DEF PikeStatus, PikeFlags, PikeSpawned, AtPosition, InLoop, Idle

\* While the states behind a match are freed, PikeVm has none to run.
LEMMA FreeingNow ==
  ASSUME ListInv, Place = "free", NEW k, NEW t, NEW f, Lists(k, t, f)
  PROVE  /\ PikeStatus = "threads" /\ PikeFlags = regflags \cup memflags
         /\ PikeSpawned = spawned /\ PikeKept = Along(Store, k) /\ PikeTodo = <<>>
<1>1. Listed /\ Place \in AtPosition /\ Place \notin InLoop /\ pc \notin Idle
  BY DEF Listed, AtPosition, InLoop, Idle, Place
<1>2. PikeKept = Along(Store, k)
  BY <1>1, ReadingNow DEF Reading
<1>3. spawned \in BOOLEAN
  BY DEF ListInv, Inv, TypeOK
<1> QED BY <1>1, <1>2, <1>3 DEF PikeStatus, PikeFlags, PikeSpawned, PikeTodo

\* And after a step.
LEMMA FreeingNext ==
  ASSUME ListInv', Place' = "free", NEW k, NEW t, NEW f, Lists(k, t, f)'
  PROVE  /\ PikeStatus' = "threads" /\ PikeFlags' = regflags' \cup memflags'
         /\ PikeSpawned' = spawned' /\ PikeKept' = Along(Store', k) /\ PikeTodo' = <<>>
<1>1. Listed' /\ Place' \in AtPosition /\ Place' \notin InLoop /\ pc' \notin Idle
  BY DEF Listed, AtPosition, InLoop, Idle, Place
<1>2. PikeKept' = Along(Store', k)
  BY <1>1, ReadingNext DEF Reading, AtPosition, InLoop
<1>3. spawned' \in BOOLEAN
  BY DEF ListInv, Inv, TypeOK
<1> QED BY <1>1, <1>2, <1>3
        DEF PikeStatus, PikeFlags, PikeSpawned, PikeTodo, AtPosition, InLoop, Idle

\* Control only passes from piece to piece of the emitted code.
LEMMA LoopStutters ==
  ASSUME MapInv, MapInv', Place \in InLoop, Place' \in InLoop,
         NEW k, NEW t, NEW f, NEW g, Lists(k, t, f), Lists(k, t, g)',
         UNCHANGED <<args, pos, matched, spawned, regflags, memflags>>,
         Blocks \subseteq Blocks',
         \A b \in Members(k) \cup Members(t) : StateAt(b)' = StateAt(b),
         matched # Null => ptrs'[matched] = ptrs[matched]
  PROVE  UNCHANGED Pike!vars
<1>1. ListInv /\ ListInv' /\ ResultOnce /\ ResultOnce'
  BY DEF MapInv
<1>2. /\ PikeStatus = "threads" /\ PikeFlags = regflags \cup memflags
      /\ PikeSpawned = spawned
      /\ PikeKept = Along(Store, k) /\ PikeTodo = Along(Store, t)
  BY <1>1, AtPositionNow
<1>3. /\ PikeStatus' = "threads" /\ PikeFlags' = regflags' \cup memflags'
      /\ PikeSpawned' = spawned'
      /\ PikeKept' = Along(Store', k) /\ PikeTodo' = Along(Store', t)
  BY <1>1, AtPositionNext
<1>4. Along(Store', k) = Along(Store, k) /\ Along(Store', t) = Along(Store, t)
  BY <1>1, ListFacts, SameStates DEF ListInv
<1>5. /\ pc \notin Idle /\ pc' \notin Idle
      /\ pc = "epilogue" => status # "OK"
      /\ pc' = "epilogue" => status' # "OK"
  BY DEF Place, InLoop, Idle
<1>6. PikeMatched' = PikeMatched /\ PikeResult' = PikeResult
  BY <1>1, <1>5, SameMatched, SameResult
<1> QED BY <1>2, <1>3, <1>4, <1>6 DEF Pike!vars

-----------------------------------------------------------------------------
(* Steps of the running state                                              *)

\* The running state is the first thread that PikeVm has to run, and the same
\* holds of it, while it waits for a block as well.
LEMMA AtStep ==
  ASSUME ListInv, Place \in {"run", "split"}, NEW k, NEW t, NEW f, Lists(k, t, f)
  PROVE  /\ PikeStatus = "threads" /\ PikeFlags = regflags \cup memflags
         /\ PikeSpawned = spawned
         /\ PikeKept = Along(Store, k) /\ PikeTodo = Along(Store, t)
         /\ PikeTodo # <<>> /\ Tail(PikeTodo) = Along(Store, Tail(t))
         /\ Pike!Thread = [ip |-> ip, ptrs |-> ptrs[state]]
         /\ Pike!Code = Code /\ Pike!Running /\ Pike!Instr = Instr
         /\ Pike!AtEnd <=> AtEnd
         /\ Pike!Dies <=> Dies
<1>1. /\ Place \in InLoop /\ state # Null /\ Inv
  BY DEF ListInv, Inv, Pool, Where, InLoop
<1>2. /\ PikeStatus = "threads" /\ PikeFlags = regflags \cup memflags
      /\ PikeSpawned = spawned
      /\ PikeKept = Along(Store, k) /\ PikeTodo = Along(Store, t)
  BY <1>1, AtPositionNow
<1>5. t # <<>> /\ state \in Blocks /\ state = t[1]
  BY <1>1, StateFirst
<1>6. t \in Seq(DOMAIN Store)
  BY <1>1, ListFacts DEF Store
<1>7. /\ PikeTodo # <<>> /\ Head(PikeTodo) = Store[state]
      /\ Tail(PikeTodo) = Along(Store, Tail(t))
  BY <1>2, <1>5, <1>6, AlongTail
<1>8. Pike!Thread = [ip |-> ip, ptrs |-> ptrs[state]]
  BY <1>5, <1>7 DEF Pike!Thread, Store, StateAt
<1>9. Pike!Thread.ip = ip
  BY <1>8
<1>10. /\ Pike!Code = Code /\ Pike!Running
       /\ Pike!AtEnd <=> AtEnd
  <2>1. Pike!Code = Code
    BY DEF Pike!Code, Code
  <2> QED BY <1>2, <1>7, <1>9, <2>1 DEF Pike!Running, Pike!AtEnd, AtEnd
<1>11. Pike!Instr = Instr
  BY <1>9, <1>10 DEF Pike!Instr, Instr
<1>12. Pike!Dies <=> Dies
  BY <1>2, <1>9, <1>11, SameTests, SameReading DEF Pike!Dies, Dies, Pike!FlagTaken, FlagSet
<1> QED BY <1>2, <1>7, <1>8, <1>10, <1>11, <1>12

\* Below the upper half of the register, bts sets its flag and no other.
LEMMA FlagIsSet ==
  ASSUME FlagsFit, Inv, LowFlags, Running, Instr.op = "TEST_AND_SET_FLAG",
         TestAndSet(Instr.operand)
  PROVE  regflags' \cup memflags' = regflags \cup memflags \cup {Instr.operand}
<1>1. /\ regex \in Regexes /\ ip \in Starts(Code)
      /\ Instr.operand \in 0 .. regex.flags - 1 /\ regex.flags \in Nat
  BY AtInstruction, CodeClosed, NativeRegexAssumption DEF Inv, TypeOK
<1>2. /\ Instr.operand \notin (RegisterFlags \div 2) .. (RegisterFlags - 1)
      /\ Instr.operand \in Nat
  BY <1>1 DEF FlagsFit, Instr, Code
<1>3. RegisterFlags \div 2 \in Nat /\ RegisterFlags \in Nat
      /\ RegisterFlags \div 2 <= RegisterFlags
  BY NativeMemoryAssumption
<1>4. PICK f : f = Instr.operand
  OBVIOUS
<1>5. f < RegisterFlags \div 2 \/ f >= RegisterFlags
  BY <1>2, <1>3, <1>4
<1>6. {g \in regflags : g < RegisterFlags \div 2} = regflags
  BY DEF LowFlags
<1>7. CASE f < RegisterFlags \div 2
  <2>1. regflags' = regflags \cup {f}
    BY <1>4, <1>6, <1>7 DEF TestAndSet
  <2>2. f < RegisterFlags
    BY <1>2, <1>3, <1>4, <1>7
  <2>3. memflags' = memflags
    BY <1>4, <2>2 DEF TestAndSet
  <2> QED BY <1>4, <2>1, <2>3
<1>8. CASE f >= RegisterFlags
  <2>1. ~(f < RegisterFlags) /\ ~(f < RegisterFlags \div 2)
        /\ f \notin (RegisterFlags \div 2) .. (RegisterFlags - 1)
    BY <1>2, <1>3, <1>4, <1>8
  <2>2. regflags' = regflags /\ memflags' = memflags \cup {f}
    BY <1>4, <2>1 DEF TestAndSet
  <2> QED BY <1>4, <2>2
<1> QED BY <1>5, <1>7, <1>8

\* What holds of every piece of code that runs for a state.
LEMMA RunningFacts ==
  ASSUME MapInv, pc = "run"
  PROVE  /\ ListInv /\ Inv /\ ResultOnce /\ LowFlags
         /\ Place = "run" /\ Place \in InLoop /\ state # Null /\ state \in Blocks
         /\ pc \notin Idle /\ pc # "epilogue"
         /\ state # matched /\ matched \in Blocks \cup {Null}
<1>1. ListInv /\ Inv /\ ResultOnce /\ LowFlags
  BY DEF MapInv, ListInv
<1>2. Place = "run" /\ Place \in InLoop /\ pc \notin Idle /\ pc # "epilogue"
  BY DEF Place, InLoop, Idle
<1>3. state # Null /\ state \in Blocks /\ region[state] = "todo"
  BY <1>1, <1>2 DEF Inv, TypeOK, Handles, Pool, Where, InLoop
<1>4. state # matched
  BY <1>1, <1>3 DEF Inv, Pool, RootRegions
<1>5. matched \in Blocks \cup {Null}
  BY <1>1 DEF Inv, TypeOK, Handles
<1> QED BY <1>1, <1>2, <1>3, <1>4, <1>5

\* LABEL_DESTROY_STATE is Reject.
LEMMA DestroyMaps ==
  ASSUME FlagsFit, MapInv, MapInv', Destroy, NEW k, NEW t, NEW f, Lists(k, t, f)
  PROVE  Pike!Reject
<1>1. /\ pc = "run" /\ pc' = "list" /\ ~AtEnd /\ Dies /\ Running
      /\ UNCHANGED <<args, pos, matched, spawned, result, instr, ptrs>>
      /\ Blocks' = Blocks
      /\ IF FlagSet THEN TestAndSet(Instr.operand) ELSE UNCHANGED flagVars
  BY DEF Destroy, Running, Blocks
<1>2. /\ ListInv /\ Inv /\ Place \in {"run", "split"} /\ Place \in InLoop /\ state # Null
      /\ ResultOnce /\ LowFlags /\ pc \notin Idle /\ pc # "epilogue"
  BY <1>1, RunningFacts
<1>3. /\ Place' = "list" /\ Place' \in InLoop /\ ListInv' /\ ResultOnce'
      /\ pc' \notin Idle /\ pc' # "epilogue"
  BY <1>1 DEF Place, InLoop, Idle, MapInv
<1>4. PICK g : g = <<state>> \o f
  OBVIOUS
<1>5. Lists(k, Tail(t), g)'
  BY <1>2, <1>4, DestroyLists
<1>6. /\ PikeStatus' = "threads" /\ PikeFlags' = regflags' \cup memflags'
      /\ PikeSpawned' = spawned'
      /\ PikeKept' = Along(Store', k) /\ PikeTodo' = Along(Store', Tail(t))
  BY <1>3, <1>5, AtPositionNext
<1>7. /\ PikeStatus = "threads" /\ PikeFlags = regflags \cup memflags
      /\ PikeSpawned = spawned
      /\ PikeKept = Along(Store, k) /\ Tail(PikeTodo) = Along(Store, Tail(t))
      /\ Pike!Running /\ ~Pike!AtEnd /\ Pike!Dies
  BY <1>1, <1>2, AtStep
<1>8. Along(Store', k) = Along(Store, k) /\ Along(Store', Tail(t)) = Along(Store, Tail(t))
  BY <1>1, <1>2, <1>3, OtherStates
<1>9. regflags' \cup memflags' = regflags \cup memflags
  <2>1. CASE FlagSet
    <3>1. regflags' \cup memflags' = regflags \cup memflags \cup {Instr.operand}
      BY <1>1, <1>2, <2>1, FlagIsSet DEF FlagSet
    <3> QED BY <2>1, <3>1 DEF FlagSet
  <2>2. CASE ~FlagSet
    BY <1>1, <2>2
  <2> QED BY <2>1, <2>2
<1>10. PikeMatched' = PikeMatched /\ PikeResult' = PikeResult
  BY <1>1, <1>2, <1>3, SameMatched, SameResult
<1> QED BY <1>1, <1>6, <1>7, <1>8, <1>9, <1>10 DEF Pike!Reject, Pike!stepFrame, Pike!args

\* LABEL_KEEP_STATE is Consume.
LEMMA KeepMaps ==
  ASSUME MapInv, MapInv', Keep, NEW k, NEW t, NEW f, Lists(k, t, f)
  PROVE  Pike!Consume
<1>1. /\ pc = "run" /\ pc' = "list" /\ ~AtEnd /\ ~Dies /\ Instr.op \in ConsumeOps
      /\ UNCHANGED <<args, pos, matched, spawned, result, regflags, memflags, ptrs>>
      /\ Blocks' = Blocks
      /\ instr' = [instr EXCEPT ![state] = After(Code, ip)]
  BY DEF Keep, Running, Blocks
<1>2. /\ ListInv /\ Inv /\ Place \in {"run", "split"} /\ Place \in InLoop /\ state # Null
      /\ state \in Blocks /\ ResultOnce /\ pc \notin Idle /\ pc # "epilogue"
  BY <1>1, RunningFacts
<1>3. /\ Place' = "list" /\ Place' \in InLoop /\ ListInv' /\ ResultOnce'
      /\ pc' \notin Idle /\ pc' # "epilogue"
  BY <1>1 DEF Place, InLoop, Idle, MapInv
<1>4. PICK g : g = Append(k, state)
  OBVIOUS
<1>5. Lists(g, Tail(t), f)'
  BY <1>2, <1>4, KeepLists
<1>6. /\ PikeStatus' = "threads" /\ PikeFlags' = regflags' \cup memflags'
      /\ PikeSpawned' = spawned'
      /\ PikeKept' = Along(Store', g) /\ PikeTodo' = Along(Store', Tail(t))
  BY <1>3, <1>5, AtPositionNext
<1>7. /\ PikeStatus = "threads" /\ PikeFlags = regflags \cup memflags
      /\ PikeSpawned = spawned
      /\ PikeKept = Along(Store, k) /\ Tail(PikeTodo) = Along(Store, Tail(t))
      /\ Pike!Thread = [ip |-> ip, ptrs |-> ptrs[state]] /\ Pike!Code = Code
      /\ Pike!Running /\ ~Pike!AtEnd /\ ~Pike!Dies /\ Pike!Instr = Instr
  BY <1>1, <1>2, AtStep
<1>8. instr \in [Blocks -> Nat] /\ k \in Seq(Blocks) /\ t \in Seq(Blocks)
  BY <1>2, ListFacts DEF Inv, TypeOK
<1>9. Along(Store', k) = Along(Store, k) /\ Along(Store', Tail(t)) = Along(Store, Tail(t))
  <2>1. Members(k) \subseteq Blocks /\ Members(t) \subseteq Blocks
    BY <1>2, ListFacts
  <2>2. \A b \in Blocks : b # state => instr'[b] = instr[b] /\ ptrs'[b] = ptrs[b]
    BY <1>1, <1>8
  <2> QED BY <1>1, <1>2, <1>3, <2>1, <2>2, OtherStates
<1>10. Along(Store', g) = Append(Along(Store', k), Store'[state])
  <2>1. k \in Seq(DOMAIN Store') /\ state \in DOMAIN Store'
    BY <1>1, <1>2, <1>8 DEF Store
  <2> QED BY <1>4, <2>1, AlongAppend
<1>11. Store'[state] = Pike!Continues
  <2>1. Store'[state] = [ip |-> After(Code, ip), ptrs |-> ptrs[state]]
    BY <1>1, <1>2, <1>3, <1>8 DEF Store, StateAt
  <2>2. Continuation(Code, ip) = After(Code, ip)
    BY <1>1, GoesOn DEF Instr, ConsumeOps
  <2>3. Pike!Thread.ip = ip /\ Pike!Thread.ptrs = ptrs[state]
    BY <1>7
  <2> QED BY <1>7, <2>1, <2>2, <2>3, SameReading DEF Pike!Continues, Pike!GoesOn
<1>12. PikeMatched' = PikeMatched /\ PikeResult' = PikeResult
  BY <1>1, <1>2, <1>3, SameMatched, SameResult
<1> QED BY <1>1, <1>6, <1>7, <1>9, <1>10, <1>11, <1>12, SameTests
        DEF Pike!Consume, Pike!stepFrame, Pike!args

\* The state stays where it is on the list, and goes on.
LEMMA StateGoesOn ==
  ASSUME MapInv, MapInv', pc = "run", pc' = "run", state' = state,
         NEW k, NEW t, NEW f, Lists(k, t, f), Lists(k, t, f)', Blocks' = Blocks,
         UNCHANGED <<args, matched, spawned>>,
         \A b \in Blocks : b # state => instr'[b] = instr[b] /\ ptrs'[b] = ptrs[b]
  PROVE  /\ PikeStatus' = "threads" /\ PikeFlags' = regflags' \cup memflags'
         /\ PikeSpawned' = spawned' /\ PikeKept' = PikeKept
         /\ PikeTodo' = <<[ip |-> ip', ptrs |-> ptrs'[state]]>> \o Tail(PikeTodo)
         /\ PikeMatched' = PikeMatched /\ PikeResult' = PikeResult
<1>1. /\ ListInv /\ Inv /\ Place \in {"run", "split"} /\ Place \in InLoop /\ state # Null
      /\ state \in Blocks /\ ResultOnce /\ pc \notin Idle /\ pc # "epilogue"
      /\ state # matched /\ matched \in Blocks \cup {Null}
  BY RunningFacts
<1>2. /\ Place' = "run" /\ Place' \in InLoop /\ ListInv' /\ ResultOnce'
      /\ pc' \notin Idle /\ pc' # "epilogue"
  BY DEF Place, InLoop, Idle, MapInv
<1>3. /\ PikeStatus' = "threads" /\ PikeFlags' = regflags' \cup memflags'
      /\ PikeSpawned' = spawned'
      /\ PikeKept' = Along(Store', k) /\ PikeTodo' = Along(Store', t)
  BY <1>2, AtPositionNext
<1>4. PikeKept = Along(Store, k) /\ Tail(PikeTodo) = Along(Store, Tail(t))
  BY <1>1, AtStep
<1>5. /\ t # <<>> /\ t = <<state>> \o Tail(t) /\ t \in Seq(Blocks) /\ k \in Seq(Blocks)
      /\ Members(k) \subseteq Blocks /\ Members(t) \subseteq Blocks
  BY <1>1, StateFirst, ListFacts
<1>6. Along(Store', k) = Along(Store, k) /\ Along(Store', Tail(t)) = Along(Store, Tail(t))
  BY <1>1, <1>5, OtherStates
<1>7. Along(Store', t) = <<Store'[state]>> \o Along(Store', Tail(t))
  <2>1. Tail(t) \in Seq(Blocks)
    BY <1>5, SplitHead
  <2>2. Tail(t) \in Seq(DOMAIN Store') /\ state \in DOMAIN Store'
    BY <1>1, <2>1 DEF Store
  <2> QED BY <1>5, <2>2, AlongCons
<1>8. Store'[state] = [ip |-> ip', ptrs |-> ptrs'[state]]
  BY <1>1, <1>2 DEF Store, StateAt
<1>9. PikeMatched' = PikeMatched /\ PikeResult' = PikeResult
  BY <1>1, <1>2, SameMatched, SameResult
<1> QED BY <1>3, <1>4, <1>6, <1>7, <1>8, <1>9

\* Jumps and anchors.
LEMMA AdvanceMaps ==
  ASSUME MapInv, MapInv', Advance, NEW k, NEW t, NEW f, Lists(k, t, f)
  PROVE  Pike!Advance
<1>1. /\ pc = "run" /\ pc' = "run" /\ ~AtEnd /\ ~Dies
      /\ Instr.op \in AnchorOps \cup {"JUMP"} /\ ip' = Continuation(Code, ip)
      /\ UNCHANGED <<args, pos, matched, spawned, result, regflags, memflags, instr, ptrs,
                     state>>
      /\ Blocks' = Blocks
  BY DEF Advance, Running, Blocks
<1>2. ListInv /\ Inv /\ Place \in {"run", "split"}
  BY <1>1, RunningFacts
<1>3. Lists(k, t, f)'
  BY <1>2, StepSame
<1>4. /\ PikeStatus' = "threads" /\ PikeFlags' = regflags' \cup memflags'
      /\ PikeSpawned' = spawned' /\ PikeKept' = PikeKept
      /\ PikeTodo' = <<[ip |-> ip', ptrs |-> ptrs'[state]]>> \o Tail(PikeTodo)
      /\ PikeMatched' = PikeMatched /\ PikeResult' = PikeResult
  BY <1>1, <1>3, StateGoesOn
<1>5. /\ PikeStatus = "threads" /\ PikeFlags = regflags \cup memflags
      /\ PikeSpawned = spawned
      /\ Pike!Thread = [ip |-> ip, ptrs |-> ptrs[state]] /\ Pike!Code = Code
      /\ Pike!Running /\ ~Pike!AtEnd /\ ~Pike!Dies /\ Pike!Instr = Instr
  BY <1>1, <1>2, AtStep
<1>6. Pike!Continues = [ip |-> ip', ptrs |-> ptrs'[state]]
  <2>1. Pike!Thread.ip = ip /\ Pike!Thread.ptrs = ptrs[state]
    BY <1>5
  <2> QED BY <1>1, <1>5, <2>1, SameReading DEF Pike!Continues, Pike!GoesOn
<1> QED BY <1>1, <1>4, <1>5, <1>6, SameTests
        DEF Pike!Advance, Pike!stepFrame, Pike!args

\* A flag that lets the state pass.
LEMMA TestAndSetFlagMaps ==
  ASSUME FlagsFit, MapInv, MapInv', TestAndSetFlag, NEW k, NEW t, NEW f, Lists(k, t, f)
  PROVE  Pike!TestAndSetFlag
<1>1. /\ pc = "run" /\ pc' = "run" /\ ~AtEnd /\ ~Dies /\ Running
      /\ Instr.op = "TEST_AND_SET_FLAG" /\ ip' = After(Code, ip)
      /\ TestAndSet(Instr.operand)
      /\ UNCHANGED <<args, pos, matched, spawned, result, instr, ptrs, state>>
      /\ Blocks' = Blocks
  BY DEF TestAndSetFlag, Running, Blocks
<1>2. ListInv /\ Inv /\ LowFlags /\ Place \in {"run", "split"}
  BY <1>1, RunningFacts
<1>3. Lists(k, t, f)'
  BY <1>2, StepSame
<1>4. /\ PikeStatus' = "threads" /\ PikeFlags' = regflags' \cup memflags'
      /\ PikeSpawned' = spawned' /\ PikeKept' = PikeKept
      /\ PikeTodo' = <<[ip |-> ip', ptrs |-> ptrs'[state]]>> \o Tail(PikeTodo)
      /\ PikeMatched' = PikeMatched /\ PikeResult' = PikeResult
  BY <1>1, <1>3, StateGoesOn
<1>5. /\ PikeStatus = "threads" /\ PikeFlags = regflags \cup memflags
      /\ PikeSpawned = spawned
      /\ Pike!Thread = [ip |-> ip, ptrs |-> ptrs[state]] /\ Pike!Code = Code
      /\ Pike!Running /\ ~Pike!AtEnd /\ ~Pike!Dies /\ Pike!Instr = Instr
  BY <1>1, <1>2, AtStep
<1>6. Pike!Continues = [ip |-> ip', ptrs |-> ptrs'[state]]
  <2>1. Pike!Thread.ip = ip /\ Pike!Thread.ptrs = ptrs[state]
    BY <1>5
  <2>2. Continuation(Code, ip) = After(Code, ip)
    BY <1>1, GoesOn DEF Instr
  <2> QED BY <1>1, <1>5, <2>1, <2>2, SameReading DEF Pike!Continues, Pike!GoesOn
<1>7. regflags' \cup memflags' = regflags \cup memflags \cup {Instr.operand}
  BY <1>1, <1>2, FlagIsSet
<1> QED BY <1>1, <1>4, <1>5, <1>6, <1>7
        DEF Pike!TestAndSetFlag, Pike!stepFrame, Pike!args

\* Pointers the caller did not ask for are not written.
LEMMA WritePointerMaps ==
  ASSUME MapInv, MapInv', WritePointer, NEW k, NEW t, NEW f, Lists(k, t, f)
  PROVE  Pike!WritePointer
<1>1. /\ pc = "run" /\ pc' = "run" /\ ~AtEnd
      /\ Instr.op = "WRITE_POINTER" /\ ip' = After(Code, ip)
      /\ ptrs' = (IF Instr.operand < n_pointers
                  THEN [ptrs EXCEPT ![state] = [@ EXCEPT ![Instr.operand] = pos]]
                  ELSE ptrs)
      /\ UNCHANGED <<args, pos, matched, spawned, result, regflags, memflags, instr, state>>
      /\ Blocks' = Blocks
  BY DEF WritePointer, Running, Blocks
<1>2. ListInv /\ Inv /\ Place \in {"run", "split"} /\ state \in Blocks
  BY <1>1, RunningFacts
<1>3. Lists(k, t, f)'
  BY <1>2, StepSame
<1>4. DOMAIN ptrs = Blocks
  BY <1>2 DEF Inv, TypeOK
<1>5. /\ \A b \in Blocks : b # state => ptrs'[b] = ptrs[b]
      /\ ptrs'[state] = IF Instr.operand < n_pointers
                        THEN [ptrs[state] EXCEPT ![Instr.operand] = pos]
                        ELSE ptrs[state]
  BY <1>1, <1>2, <1>4
<1>6. /\ PikeStatus' = "threads" /\ PikeFlags' = regflags' \cup memflags'
      /\ PikeSpawned' = spawned' /\ PikeKept' = PikeKept
      /\ PikeTodo' = <<[ip |-> ip', ptrs |-> ptrs'[state]]>> \o Tail(PikeTodo)
      /\ PikeMatched' = PikeMatched /\ PikeResult' = PikeResult
  BY <1>1, <1>3, <1>5, StateGoesOn
<1>7. /\ PikeStatus = "threads" /\ PikeFlags = regflags \cup memflags
      /\ PikeSpawned = spawned
      /\ Pike!Thread = [ip |-> ip, ptrs |-> ptrs[state]] /\ Pike!Code = Code
      /\ Pike!Running /\ ~Pike!AtEnd /\ Pike!Instr = Instr
  BY <1>1, <1>2, AtStep
<1>8. /\ Pike!Thread.ip = ip /\ Pike!Thread.ptrs = ptrs[state]
      /\ Pike!After(Pike!Code, Pike!Thread.ip) = ip'
  BY <1>1, <1>7, SameReading
<1> QED BY <1>1, <1>5, <1>6, <1>7, <1>8
        DEF Pike!WritePointer, Pike!GoesOn, Pike!stepFrame, Pike!args

-----------------------------------------------------------------------------
(* New states                                                              *)

\* The block that was granted is on neither list, and is not the match.
LEMMA GrantedIsNew ==
  ASSUME Inv, pc \in {"spawn", "split"}, NEW k, NEW t, NEW f, Lists(k, t, f)
  PROVE  scratch \notin Members(k) \cup Members(t) \cup {matched, Null}
<1>1. /\ scratch \in Nat /\ (scratch \in Blocks => region[scratch] = "free")
  BY DEF Inv, Pool, GrantedIsLoose
<1>2. /\ \A b \in Members(k) : b \in Blocks /\ region[b] = "kept"
      /\ \A b \in Members(t) : b \in Blocks /\ region[b] = "todo"
  BY ListFacts DEF Lists, ListBlocks
<1>3. matched \in Blocks \cup {Null} /\ (matched \in Blocks => region[matched] = "matched")
  BY DEF Inv, TypeOK, Handles, Pool, RootRegions
<1>4. scratch # Null
  BY <1>1 DEF Null
<1> QED BY <1>1, <1>2, <1>3, <1>4

\* LABEL_PUSH_STATE_COPY is the rest of Split.
LEMMA PushStateCopyMaps ==
  ASSUME MapInv, MapInv', PushStateCopy, NEW k, NEW t, NEW f, Lists(k, t, f)
  PROVE  Pike!Split
<1>1. PICK h : h = scratch
  OBVIOUS
<1>2. /\ pc = "split" /\ pc' = "run" /\ ip' = Continuation(Code, ip)
      /\ Blocks' = Blocks \cup {h}
      /\ instr' = Put(instr, h, SplitPointer(Code, ip))
      /\ ptrs'  = Put(ptrs, h, ptrs[state])
      /\ UNCHANGED <<args, pos, matched, spawned, result, regflags, memflags, state>>
  BY <1>1 DEF PushStateCopy, Blocks
<1>3. /\ ListInv /\ Inv /\ ResultOnce /\ ListInv' /\ ResultOnce'
      /\ Place = "split" /\ Place \in InLoop /\ Place' = "run" /\ Place' \in InLoop
      /\ pc \notin Idle /\ pc # "epilogue" /\ pc' \notin Idle /\ pc' # "epilogue"
  BY <1>2 DEF MapInv, ListInv, Place, InLoop, Idle
<1>4. /\ state # Null /\ state \in Blocks /\ Instr.op \in SplitOps /\ ~AtEnd
  <2>1. state # Null /\ state \in Blocks
    BY <1>3 DEF Inv, TypeOK, Handles, Pool, Where
  <2>2. ip \in Starts(Code) /\ Instr.op \in SplitOps
    BY <1>3 DEF Inv, InCode
  <2>3. Len(Code) \in Nat
    <3>1. regex \in Regexes
      BY <1>3 DEF Inv, TypeOK
    <3> QED BY <3>1, NativeRegexAssumption DEF Code, WellFormed
  <2> QED BY <2>1, <2>2, <2>3 DEF AtEnd, Starts
<1>5. PICK u : u = <<h>> \o Tail(t)
  OBVIOUS
<1>6. PICK v : v = <<state>> \o u
  OBVIOUS
<1>7. Lists(k, v, f)'
  BY <1>1, <1>3, <1>5, <1>6, PushStateCopyLists
<1>8. /\ PikeStatus' = "threads" /\ PikeFlags' = regflags' \cup memflags'
      /\ PikeSpawned' = spawned'
      /\ PikeKept' = Along(Store', k) /\ PikeTodo' = Along(Store', v)
  BY <1>3, <1>7, AtPositionNext
<1>9. /\ PikeStatus = "threads" /\ PikeFlags = regflags \cup memflags
      /\ PikeSpawned = spawned
      /\ PikeKept = Along(Store, k) /\ Tail(PikeTodo) = Along(Store, Tail(t))
      /\ Pike!Thread = [ip |-> ip, ptrs |-> ptrs[state]] /\ Pike!Code = Code
      /\ Pike!Running /\ ~Pike!AtEnd /\ Pike!Instr = Instr
  BY <1>3, <1>4, AtStep
<1>10. h \notin Members(k) \cup Members(t) \cup {matched, Null}
  BY <1>1, <1>2, <1>3, GrantedIsNew
<1>11. /\ h # state /\ DOMAIN ptrs = Blocks /\ DOMAIN instr = Blocks
       /\ matched \in Blocks \cup {Null}
       /\ t # <<>> /\ t \in Seq(Blocks) /\ k \in Seq(Blocks)
       /\ Members(t) \subseteq Blocks /\ Members(k) \subseteq Blocks
       /\ Members(Tail(t)) \subseteq Members(t)
  <2>1. /\ t # <<>> /\ state \in Members(t)
        /\ Members(Tail(t)) = Members(t) \ {state}
    BY <1>3, <1>4, StateFirst
  <2>2. /\ t \in Seq(Blocks) /\ k \in Seq(Blocks)
        /\ Members(t) \subseteq Blocks /\ Members(k) \subseteq Blocks
    BY <1>3, ListFacts
  <2>3. DOMAIN ptrs = Blocks /\ DOMAIN instr = Blocks /\ matched \in Blocks \cup {Null}
    BY <1>3 DEF Inv, TypeOK, Handles
  <2> QED BY <1>10, <2>1, <2>2, <2>3
<1>12. Tail(t) \in Seq(Blocks)
  BY <1>11, SplitHead
<1>13. /\ \A b \in Blocks : b # h => instr'[b] = instr[b] /\ ptrs'[b] = ptrs[b]
       /\ instr'[h] = SplitPointer(Code, ip) /\ ptrs'[h] = ptrs[state]
  BY <1>2, <1>11 DEF Put
<1>14. Along(Store', k) = Along(Store, k) /\ Along(Store', Tail(t)) = Along(Store, Tail(t))
  <2>1. \A b \in Members(k) \cup Members(t) :
          b # state => instr'[b] = instr[b] /\ ptrs'[b] = ptrs[b]
    BY <1>10, <1>11, <1>13
  <2> QED BY <1>2, <1>3, <1>4, <2>1, OtherStates
<1>15. Along(Store', v) = <<Store'[state]>> \o (<<Store'[h]>> \o Along(Store', Tail(t)))
  <2>1. /\ Tail(t) \in Seq(DOMAIN Store') /\ state \in DOMAIN Store'
        /\ h \in DOMAIN Store'
    BY <1>2, <1>4, <1>12, SeqMonotonic DEF Store
  <2>2. u \in Seq(DOMAIN Store')
    BY <1>5, <2>1, MembersCons
  <2>3. Along(Store', u) = <<Store'[h]>> \o Along(Store', Tail(t))
    BY <1>5, <2>1, AlongCons
  <2> QED BY <1>6, <2>1, <2>2, <2>3, AlongCons
<1>16. /\ Store'[state] = Pike!Continues
       /\ Store'[h] = Pike!GoesOn(Pike!SplitPointer(Pike!Code, Pike!Thread.ip), Pike!Thread.ptrs)
  <2>1. Pike!Thread.ip = ip /\ Pike!Thread.ptrs = ptrs[state]
    BY <1>9
  <2>2. /\ Store'[state] = [ip |-> Continuation(Code, ip), ptrs |-> ptrs[state]]
        /\ Store'[h] = [ip |-> SplitPointer(Code, ip), ptrs |-> ptrs[state]]
    BY <1>2, <1>3, <1>4, <1>11, <1>13 DEF Store, StateAt
  <2> QED BY <1>9, <2>1, <2>2, SameReading DEF Pike!Continues, Pike!GoesOn
<1>17. PikeMatched' = PikeMatched /\ PikeResult' = PikeResult
  <2>1. matched # Null => ptrs'[matched] = ptrs[matched]
    BY <1>10, <1>11, <1>13
  <2> QED BY <1>2, <1>3, <2>1, SameMatched, SameResult
<1>18. PikeTodo' = <<Store'[state], Store'[h]>> \o Tail(PikeTodo)
  <2> DEFINE x == Store'[state]
             y == Store'[h]
             T == {Store[b] : b \in DOMAIN Store} \cup {x, y}
  <2>1. Along(Store, Tail(t)) \in Seq({Store[b] : b \in DOMAIN Store})
    BY <1>12, AlongIs DEF Store
  <2>2. Along(Store, Tail(t)) \in Seq(T) /\ x \in T /\ y \in T
    BY <2>1, SeqMonotonic
  <2> HIDE DEF T, x, y
  <2>3. PikeTodo' = <<x>> \o (<<y>> \o Along(Store, Tail(t)))
    BY <1>8, <1>14, <1>15 DEF x, y
  <2>4. PikeTodo' = <<x, y>> \o Along(Store, Tail(t))
    BY <2>2, <2>3, ConsTwice
  <2> QED BY <1>9, <2>4 DEF x, y
<1> QED BY <1>2, <1>4, <1>8, <1>9, <1>14, <1>16, <1>17, <1>18, SameTests
        DEF Pike!Split, Pike!stepFrame, Pike!args

\* A position's own state comes last, and starts at the beginning.
LEMMA PushInitialStateMaps ==
  ASSUME MapInv, MapInv', PushInitialState, NEW k, NEW t, NEW f, Lists(k, t, f)
  PROVE  Pike!Spawn
<1>1. PICK h : h = scratch
  OBVIOUS
<1>2. /\ pc = "spawn" /\ pc' = "run" /\ ip' = 0 /\ state' = h /\ spawned' = TRUE
      /\ Blocks' = Blocks \cup {h}
      /\ instr' = Put(instr, h, 0) /\ ptrs' = Put(ptrs, h, NullPointers(n_pointers))
      /\ UNCHANGED <<args, pos, matched, result, regflags, memflags>>
  BY <1>1 DEF PushInitialState, Blocks
<1>3. /\ ListInv /\ Inv /\ ResultOnce /\ ListInv' /\ ResultOnce'
      /\ Place = "spawn" /\ Place \in InLoop /\ Place' = "run" /\ Place' \in InLoop
      /\ pc \notin Idle /\ pc # "epilogue" /\ pc' \notin Idle /\ pc' # "epilogue"
  BY <1>2 DEF MapInv, ListInv, Place, InLoop, Idle
<1>4. /\ state = Null /\ matched = Null /\ spawned = FALSE
  BY <1>3 DEF MapInv, PushedOnce, Inv, Pool, Where
<1>5. Lists(k, <<h>>, f)'
  BY <1>1, <1>3, PushInitialStateLists
<1>6. /\ PikeStatus' = "threads" /\ PikeFlags' = regflags' \cup memflags'
      /\ PikeSpawned' = TRUE
      /\ PikeKept' = Along(Store', k) /\ PikeTodo' = Along(Store', <<h>>)
  BY <1>2, <1>3, <1>5, AtPositionNext
<1>7. /\ PikeStatus = "threads" /\ PikeFlags = regflags \cup memflags
      /\ PikeSpawned = FALSE /\ PikeKept = Along(Store, k) /\ PikeTodo = <<>>
  <2>1. /\ PikeStatus = "threads" /\ PikeFlags = regflags \cup memflags
        /\ PikeSpawned = spawned
        /\ PikeKept = Along(Store, k) /\ PikeTodo = Along(Store, t)
    BY <1>3, AtPositionNow
  <2>2. t = <<>>
    BY <1>3, <1>4, PathStops DEF Lists, ListPaths, Rest
  <2> QED BY <1>4, <2>1, <2>2, AlongNone
<1>8. h \notin Members(k) \cup {matched, Null}
  BY <1>1, <1>2, <1>3, GrantedIsNew
<1>9. /\ DOMAIN ptrs = Blocks /\ DOMAIN instr = Blocks /\ k \in Seq(Blocks)
      /\ Members(k) \subseteq Blocks /\ Null \notin Members(k)
  BY <1>3, ListFacts DEF Inv, TypeOK
<1>10. Along(Store', k) = Along(Store, k)
  <2>1. \A b \in Members(k) : b \in Blocks /\ b # h /\ b # Null
    BY <1>8, <1>9
  <2>2. \A b \in Members(k) : instr'[b] = instr[b] /\ ptrs'[b] = ptrs[b]
    BY <1>2, <1>9, <2>1 DEF Put
  <2>3. \A b \in Members(k) : StateAt(b)' = StateAt(b)
    BY <1>2, <1>3, <1>4, <2>1, <2>2 DEF StateAt
  <2> QED BY <1>2, <1>9, <2>3, SameStates
<1>11. Store'[h] = [ip |-> 0, ptrs |-> NullPointers(n_pointers)]
  BY <1>2, <1>3, <1>9 DEF Store, StateAt, Put
<1>12. Along(Store', <<h>>) = <<Store'[h]>>
  <2>1. h \in DOMAIN Store'
    BY <1>2 DEF Store
  <2> QED BY <2>1, AlongOne
<1>13. PikeMatched' = <<>> /\ PikeMatched = <<>> /\ PikeResult' = PikeResult
  BY <1>2, <1>3, <1>4, MatchedNow, MatchedNext, SameResult
<1>14. Pike!NullPointers(n_pointers) = NullPointers(n_pointers)
  BY SameResults
<1> QED BY <1>2, <1>6, <1>7, <1>10, <1>11, <1>12, <1>13, <1>14
        DEF Pike!Spawn, Pike!args

-----------------------------------------------------------------------------
(* Matches                                                                 *)

\* No pointers are no pointers.
LEMMA OnlyNull ==
  ASSUME NEW S, NEW p \in [0 .. 0 - 1 -> S]
  PROVE  p = NullPointers(0)
<1>1. 0 .. 0 - 1 = {}
  OBVIOUS
<1>2. p = [i \in 0 .. 0 - 1 |-> p[i]]
  OBVIOUS
<1> QED BY <1>1, <1>2 DEF NullPointers

\* A search for a yes or no is over with its first match.
LEMMA MatchBooleanMaps ==
  ASSUME MapInv, MapInv', MatchBoolean, NEW k, NEW t, NEW f, Lists(k, t, f)
  PROVE  Pike!Match
<1>1. /\ pc = "run" /\ pc' = "epilogue" /\ status' = "OK" /\ AtEnd /\ n_pointers = 0
      /\ result' = [result EXCEPT !.found = TRUE]
      /\ UNCHANGED <<args, pos, matched>>
  BY DEF MatchBoolean
<1>2. /\ ListInv /\ Inv /\ Place \in {"run", "split"} /\ state \in Blocks /\ ResultOnce
      /\ pc \notin Idle /\ pc # "epilogue"
  BY <1>1, RunningFacts
<1>3. matched = Null
  BY <1>1, <1>2 DEF Inv, Pool, RootRegions
<1>4. /\ PikeStatus = "threads" /\ Pike!Running /\ Pike!AtEnd
      /\ Pike!Thread = [ip |-> ip, ptrs |-> ptrs[state]]
  BY <1>1, <1>2, AtStep
<1>5. /\ PikeStatus' = "finish" /\ PikeKept' = <<>> /\ PikeTodo' = <<>>
      /\ PikeFlags' = {} /\ PikeSpawned' = FALSE
  <2>1. Place' = "epilogue" /\ pc' \notin Idle
    BY <1>1 DEF Place, Idle
  <2> QED BY <2>1 DEF PikeStatus, PikeKept, PikeTodo, PikeFlags, PikeSpawned, AtPosition,
                      InLoop, Idle
<1>6. result'.found = TRUE
  <2>1. result = Result("NONE", FALSE, NullPointers(n_pointers))
    BY <1>1, <1>2 DEF ResultOnce, Unwritten, Idle
  <2> QED BY <1>1, <2>1 DEF Result
<1>7. PikeMatched' = <<NullPointers(0)>>
  BY <1>1, <1>3, <1>6 DEF PikeMatched, NullPointers
<1>8. Pike!Thread.ptrs = NullPointers(0)
  <2>1. ptrs[state] \in Pointers(0, Len(text))
    BY <1>1, <1>2 DEF Inv, TypeOK
  <2>2. ptrs[state] = NullPointers(0)
    BY <2>1, OnlyNull DEF Pointers
  <2> QED BY <1>4, <2>2
<1>9. PikeResult' = PikeResult
  <2>1. PikeResult = Result("NONE", FALSE, NullPointers(n_pointers))
    BY <1>2, ResultNow
  <2>2. PikeResult' = Result("NONE", FALSE, NullPointers(n_pointers))
    BY <1>1 DEF PikeResult, Result, NullPointers
  <2> QED BY <2>1, <2>2
<1> QED BY <1>1, <1>4, <1>5, <1>7, <1>8, <1>9 DEF Pike!Match, Pike!args

\* The state becomes the match, and nothing is left to run.
LEMMA MatchMaps ==
  ASSUME MapInv, MapInv', Match, NEW k, NEW t, NEW f, Lists(k, t, f)
  PROVE  Pike!Match
<1>1. /\ pc = "run" /\ pc' = "free" /\ AtEnd /\ n_pointers # 0 /\ matched' = state
      /\ UNCHANGED <<args, pos, spawned, result, regflags, memflags, instr, ptrs, state>>
      /\ Blocks' = Blocks
  BY DEF Match, Blocks
<1>2. /\ ListInv /\ Inv /\ Place \in {"run", "split"} /\ Place \in InLoop /\ state # Null
      /\ state \in Blocks /\ ResultOnce /\ pc \notin Idle /\ pc # "epilogue"
  BY <1>1, RunningFacts
<1>3. /\ Place' = "free" /\ ListInv' /\ ResultOnce' /\ pc' \notin Idle /\ pc' # "epilogue"
  BY <1>1 DEF Place, Idle, MapInv
<1>4. PICK g : g = IF matched = Null THEN f ELSE <<matched>> \o f
  OBVIOUS
<1>5. Lists(k, Tail(t), g)'
  BY <1>2, <1>4, MatchLists
<1>6. /\ PikeStatus' = "threads" /\ PikeFlags' = regflags' \cup memflags'
      /\ PikeSpawned' = spawned'
      /\ PikeKept' = Along(Store', k) /\ PikeTodo' = <<>>
  BY <1>3, <1>5, FreeingNext
<1>7. /\ PikeStatus = "threads" /\ PikeFlags = regflags \cup memflags
      /\ PikeSpawned = spawned
      /\ PikeKept = Along(Store, k) /\ Pike!Running /\ Pike!AtEnd
      /\ Pike!Thread = [ip |-> ip, ptrs |-> ptrs[state]]
  BY <1>1, <1>2, AtStep
<1>8. Along(Store', k) = Along(Store, k)
  BY <1>1, <1>2, <1>3, OtherStates
<1>9. PikeMatched' = <<ptrs[state]>> /\ Pike!Thread.ptrs = ptrs[state]
  BY <1>1, <1>2, <1>3, <1>7, MatchedNext
<1>10. PikeResult' = PikeResult
  BY <1>1, <1>2, <1>3, SameResult
<1> QED BY <1>1, <1>6, <1>7, <1>8, <1>9, <1>10 DEF Pike!Match, Pike!args

\* Freeing the rest and cutting the list changes nothing that PikeVm has.
LEMMA FreeingMaps ==
  ASSUME MapInv, MapInv', FreeSuccessor \/ RemoveMatched,
         NEW k, NEW t, NEW f, Lists(k, t, f)
  PROVE  UNCHANGED Pike!vars
<1>1. /\ pc = "free" /\ pc' \in {"free", "list"}
      /\ UNCHANGED <<args, pos, spawned, result, regflags, memflags, matched, instr, ptrs>>
      /\ Blocks' = Blocks
  BY DEF FreeSuccessor, RemoveMatched, Blocks
<1>2. /\ ListInv /\ Inv /\ ResultOnce /\ ListInv' /\ ResultOnce'
      /\ Place = "free" /\ Place' = pc' /\ pc \notin Idle /\ pc # "epilogue"
      /\ pc' \notin Idle /\ pc' # "epilogue"
  BY <1>1 DEF MapInv, ListInv, Place, Idle
<1>3. /\ PikeStatus' = "threads" /\ PikeFlags' = regflags' \cup memflags'
      /\ PikeSpawned' = spawned'
      /\ PikeKept' = Along(Store', k) /\ PikeTodo' = <<>>
  <2>1. CASE FreeSuccessor
    <3>1. PICK g : g = <<scratch>> \o f
      OBVIOUS
    <3>2. Lists(k, Tail(t), g)' /\ Place' = "free"
      BY <1>2, <2>1, <3>1, FreeSuccessorLists DEF FreeSuccessor
    <3> QED BY <1>2, <3>2, FreeingNext
  <2>2. CASE RemoveMatched
    <3>1. Lists(k, <<>>, f)' /\ Place' \in InLoop
      BY <1>2, <2>2, RemoveMatchedLists DEF RemoveMatched, InLoop
    <3>2. /\ PikeStatus' = "threads" /\ PikeFlags' = regflags' \cup memflags'
          /\ PikeSpawned' = spawned'
          /\ PikeKept' = Along(Store', k) /\ PikeTodo' = Along(Store', <<>>)
      BY <1>2, <3>1, AtPositionNext
    <3> QED BY <3>2, AlongNone
  <2> QED BY <2>1, <2>2
<1>4. /\ PikeStatus = "threads" /\ PikeFlags = regflags \cup memflags
      /\ PikeSpawned = spawned
      /\ PikeKept = Along(Store, k) /\ PikeTodo = <<>>
  BY <1>2, FreeingNow
<1>5. Along(Store', k) = Along(Store, k)
  <2>1. k \in Seq(Blocks) /\ Members(k) \subseteq Blocks
    BY <1>2, ListFacts
  <2>2. \A b \in Members(k) : StateAt(b)' = StateAt(b)
    BY <1>1, <1>2 DEF StateAt
  <2> QED BY <1>1, <2>1, <2>2, SameStates
<1>6. PikeMatched' = PikeMatched /\ PikeResult' = PikeResult
  BY <1>1, <1>2, SameMatched, SameResult
<1> QED BY <1>1, <1>3, <1>4, <1>5, <1>6 DEF Pike!vars

-----------------------------------------------------------------------------
(* From label to label                                                     *)

\* To take up the next state, and to ask for a block, changes no state.
LEMMA AskingMaps ==
  ASSUME MapInv, MapInv', ResumeState \/ WantInitialState \/ WantStateCopy,
         NEW k, NEW t, NEW f, Lists(k, t, f)
  PROVE  UNCHANGED Pike!vars
<1>1. Inv /\ Lists(k, t, f)'
  BY StepSame DEF MapInv, ListInv
<1>2. /\ pc \in {"list", "run"} /\ pc' \in {"run", "alloc"}
      /\ pc' = "alloc" => caller' = IF pc = "list" THEN "spawn" ELSE "split"
      /\ pc = "run" => pc' = "alloc" /\ ip' = ip
      /\ pc = "list" => (pc' = "run" /\ ip' = instr[state]) \/ pc' = "alloc"
      /\ UNCHANGED <<args, pos, matched, spawned, regflags, memflags, instr, ptrs, state>>
      /\ Blocks' = Blocks
  BY DEF ResumeState, WantInitialState, WantStateCopy, Allocate, Running, Blocks
<1>3. /\ Place = pc /\ Place \in InLoop /\ Place' \in InLoop
      /\ Place' = IF pc' = "run" THEN "run" ELSE IF pc = "list" THEN "spawn" ELSE "split"
  BY <1>2 DEF Place, InLoop
<1>4. \A b : StateAt(b)' = StateAt(b)
  BY <1>2, <1>3 DEF StateAt
<1> QED BY <1>1, <1>2, <1>3, <1>4, LoopStutters

\* The allocator works on blocks that are nobody's.
LEMMA AllocatorMaps ==
  ASSUME MapInv, MapInv', Allocator
  PROVE  UNCHANGED Pike!vars
<1>1. /\ pc \in {"alloc", "move"} /\ pc' \in {caller, "move", "epilogue"}
      /\ pc' = "epilogue" => status' = "E_NOMEM"
      /\ UNCHANGED <<args, pos, matched, spawned, regflags, memflags, caller, state, ip,
                     result>>
      /\ Inv /\ Inv' /\ ListInv /\ ListInv' /\ ResultOnce /\ ResultOnce'
  <2>1. /\ pc \in {"alloc", "move"} /\ pc' \in {caller, "move", "epilogue"}
        /\ pc' = "epilogue" => status' = "E_NOMEM" \/ caller = "epilogue"
        /\ UNCHANGED allocFrame
    BY DEF Allocator, AllocFromBump, AllocFromFreelist, AllocNewBuffer, MoveBuffer,
           AllocFails, NeedsBuffer
  <2>2. /\ Inv /\ Inv' /\ ListInv /\ ListInv' /\ ResultOnce /\ ResultOnce'
        /\ caller \in Callers
    BY <2>1 DEF MapInv, ListInv, Inv, Memory, Asked
  <2> QED BY <2>1, <2>2 DEF Callers
<1>2. Place = caller /\ Place' = caller /\ caller \in Callers
  BY <1>1 DEF Place, Inv, Memory, Asked, Callers
<1>3. UNCHANGED memVars
  <2>1. CASE AllocFromBump \/ AllocFromFreelist \/ AllocNewBuffer \/ AllocFails
    BY <2>1 DEF AllocFromBump, AllocFromFreelist, AllocNewBuffer, AllocFails
  <2>2. CASE MoveBuffer
    BY <1>1, <2>2, MoveKeeps
  <2> QED BY <2>1, <2>2 DEF Allocator
<1>4. CASE caller = "flags"
  <2>1. /\ Place = "flags" /\ Place' = "flags" /\ pc \notin Idle /\ pc' \notin Idle
        /\ pc # "epilogue"
        /\ pc' = "epilogue" => status' # "OK"
    BY <1>1, <1>2, <1>4 DEF Idle
  <2>2. /\ PikeStatus' = PikeStatus /\ PikeKept' = PikeKept /\ PikeTodo' = PikeTodo
        /\ PikeFlags' = PikeFlags /\ PikeSpawned' = PikeSpawned
    BY <2>1 DEF PikeStatus, PikeKept, PikeTodo, PikeFlags, PikeSpawned, AtPosition, InLoop
  <2>3. PikeMatched' = PikeMatched /\ PikeResult' = PikeResult
    BY <1>1, <1>3, <2>1, SameMatched, SameResult
  <2> QED BY <1>1, <2>2, <2>3 DEF Pike!vars
<1>5. CASE caller # "flags"
  <2>1. Place \in InLoop /\ Place' \in InLoop /\ Listed /\ Listed'
    BY <1>2, <1>5 DEF Callers, InLoop, Listed
  <2>2. PICK k, t, f : Lists(k, t, f)
    BY <1>1, <2>1 DEF ListInv
  <2>3. \E g : Lists(k, t, g)'
    <3>1. CASE AllocFromBump \/ MoveBuffer
      BY <1>1, <2>1, <2>2, <3>1, FromBumpLists
    <3>2. CASE AllocFromFreelist
      BY <1>1, <2>2, <3>2, FromFreelistLists
    <3>3. CASE AllocNewBuffer \/ AllocFails
      BY <1>1, <2>2, <3>3, FailLists
    <3> QED BY <3>1, <3>2, <3>3 DEF Allocator
  <2>4. PICK g : Lists(k, t, g)'
    BY <2>3
  <2>5. Blocks' = Blocks /\ \A b : StateAt(b)' = StateAt(b)
    BY <1>1, <1>2, <1>3 DEF Blocks, StateAt
  <2> QED BY <1>1, <1>3, <2>1, <2>2, <2>4, <2>5, LoopStutters
<1> QED BY <1>4, <1>5

-----------------------------------------------------------------------------
(* Around the loop                                                         *)

\* Before the first position, and between calls, there are no states.
LEMMA QuietNow ==
  Inv /\ Place \in Idle \cup {"flags"} /\ (pc = "epilogue" => ~result.found) =>
    /\ PikeKept = <<>> /\ PikeTodo = <<>> /\ PikeFlags = {} /\ PikeSpawned = FALSE
    /\ PikeMatched = <<>> /\ pos = 0
<1>1. Inv /\ Place \in Idle \cup {"flags"} => NoPool
  BY DEF Inv, Pool, Where
<1> QED BY <1>1 DEF PikeKept, PikeTodo, PikeFlags, PikeSpawned, PikeMatched,
                    AtPosition, InLoop, Idle, NoPool

\* The same, after a step.
LEMMA QuietNext ==
  ASSUME Inv', pc' \in Idle
  PROVE  /\ PikeKept' = <<>> /\ PikeTodo' = <<>> /\ PikeFlags' = {}
         /\ PikeSpawned' = FALSE /\ PikeMatched' = <<>> /\ pos' = 0
         /\ PikeStatus' = "idle" /\ PikeResult' = result'
<1>1. (Inv /\ Place \in Idle \cup {"flags"} /\ (pc = "epilogue" => ~result.found) =>
         /\ PikeKept = <<>> /\ PikeTodo = <<>> /\ PikeFlags = {} /\ PikeSpawned = FALSE
         /\ PikeMatched = <<>> /\ pos = 0)'
  BY QuietNow, PTL
<1>2. Place' \in Idle /\ pc' # "epilogue"
  BY DEF Place, Idle
<1>3. PikeStatus' = "idle" /\ PikeResult' = result'
  BY <1>2 DEF PikeStatus, PikeResult, Idle
<1> QED BY <1>1, <1>2, <1>3 DEF Idle

\* The contexts are none of PikeVm's business.
LEMMA ContextMaps ==
  ASSUME Inv, Inv', CreateContext \/ DestroyContext
  PROVE  UNCHANGED Pike!vars
<1>1. pc \in Idle /\ pc' \in Idle /\ UNCHANGED <<args, result>>
  BY DEF CreateContext, DestroyContext, Idle
<1>2. Place \in Idle /\ pc # "epilogue"
  BY <1>1 DEF Place, Idle
<1>3. PikeStatus = "idle" /\ PikeResult = result
  BY <1>1, <1>2 DEF PikeStatus, PikeResult
<1> QED BY <1>1, <1>2, <1>3, QuietNow, QuietNext DEF Pike!vars

\* Before the first position has begun, there are no states.
LEMMA FirstPosition ==
  ASSUME ListInv', ResultOnce', pc' \in {"alloc", "string"}, pc' = "alloc" => caller' = "flags",
         NoPool' \/ (pc' = "string" /\ Lists(<<>>, <<>>, <<>>)' /\ matched' = Null)
  PROVE  /\ PikeStatus' = "position" /\ PikeKept' = <<>> /\ PikeTodo' = <<>>
         /\ PikeFlags' = {} /\ PikeSpawned' = FALSE /\ PikeMatched' = <<>>
<1>1. Place' = (IF pc' = "alloc" THEN "flags" ELSE "string") /\ pc' \notin Idle
  BY DEF Place, Idle
<1>2. /\ PikeStatus' = "position" /\ PikeKept' = <<>>
      /\ PikeFlags' = {} /\ PikeSpawned' = FALSE
  BY <1>1 DEF PikeStatus, PikeKept, PikeFlags, PikeSpawned, AtPosition, InLoop, Idle
<1>3. PikeMatched' = <<>>
  BY MatchedNext DEF NoPool
<1>4. PikeTodo' = <<>>
  <2>1. CASE pc' = "alloc"
    BY <1>1, <2>1 DEF PikeTodo, InLoop
  <2>2. CASE pc' = "string"
    <3>1. Place' = "string" /\ Listed' /\ Place' \notin InLoop
      BY <1>1, <2>2 DEF Listed, InLoop
    <3>2. CASE Lists(<<>>, <<>>, <<>>)'
      <4>1. PikeTodo' = Along(Store', <<>>)
        BY <3>1, <3>2, ReadingNext DEF Reading
      <4> QED BY <4>1, AlongNone
    <3>3. CASE NoPool'
      <4>1. PICK k, t, f : Lists(k, t, f)'
        BY <3>1 DEF ListInv
      <4>2. k = <<>>
        BY <3>3, <4>1, PathStops DEF Lists, ListPaths, NoPool
      <4>3. PikeTodo' = Along(Store', k)
        BY <3>1, <4>1, ReadingNext DEF Reading
      <4> QED BY <4>2, <4>3, AlongNone
    <3> QED BY <3>2, <3>3
  <2> QED BY <2>1, <2>2
<1> QED BY <1>2, <1>3, <1>4

\* A call.
LEMMA CallMaps ==
  ASSUME MapInv, MapInv', Call
  PROVE  Pike!Call
<1>1. /\ pc = "idle" /\ pc' \in {"alloc", "string"}
      /\ pc' = "alloc" => caller' = "flags"
      /\ \E r \in Regexes, t \in Texts : \E n \in NPointers(r) :
           /\ regex' = r /\ text' = t /\ n_pointers' = n
           /\ result' = Result("NONE", FALSE, NullPointers(n))
  BY DEF Call, Allocate
<1>2. PikeStatus = "idle"
  BY <1>1 DEF PikeStatus, Idle
<1>3. NoPool' /\ pos' = 0
  <2>1. NoPool
    BY <1>1 DEF MapInv, ListInv, Inv, Pool, Where, Place, Idle
  <2>2. UNCHANGED <<next, instr, ptrs, region, freelist, head, matched, state, predecessor,
                    ip, pos, regflags, memflags, bump>>
    BY DEF Call
  <2> QED BY <1>1, <2>1, <2>2 DEF NoPool
<1>4. /\ PikeStatus' = "position" /\ PikeKept' = <<>> /\ PikeTodo' = <<>>
      /\ PikeFlags' = {} /\ PikeSpawned' = FALSE /\ PikeMatched' = <<>>
  BY <1>1, <1>3, FirstPosition DEF MapInv
<1>5. PikeResult' = result'
  BY <1>1 DEF PikeResult
<1> QED BY <1>1, <1>2, <1>3, <1>4, <1>5, SameResults DEF Pike!Call, Pike!Cleared

\* The flags are there, and nothing else.
LEMMA FlagsAllocatedMaps ==
  ASSUME MapInv, MapInv', FlagsAllocated
  PROVE  UNCHANGED Pike!vars
<1>1. /\ pc = "flags" /\ pc' = "string" /\ UNCHANGED <<args, result, pos, matched>>
      /\ Inv /\ Inv' /\ Sized /\ ListInv' /\ ResultOnce /\ ResultOnce'
  BY DEF FlagsAllocated, MapInv, ListInv
<1>2. Place = "flags" /\ pc \notin Idle /\ pc' \notin Idle
  BY <1>1 DEF Place, Idle
<1>3. /\ PikeKept = <<>> /\ PikeTodo = <<>> /\ PikeFlags = {} /\ PikeSpawned = FALSE
      /\ PikeMatched = <<>> /\ PikeStatus = "position" /\ matched = Null
  <2>1. NoPool /\ PikeStatus = "position"
    BY <1>1, <1>2 DEF PikeStatus, Inv, Pool, Where
  <2> QED BY <1>1, <1>2, <2>1, QuietNow DEF NoPool
<1>4. Lists(<<>>, <<>>, <<>>)'
  BY <1>1, FlagsBegin
<1>5. /\ PikeStatus' = "position" /\ PikeKept' = <<>> /\ PikeTodo' = <<>>
      /\ PikeFlags' = {} /\ PikeSpawned' = FALSE /\ PikeMatched' = <<>>
  BY <1>1, <1>3, <1>4, FirstPosition
<1>6. PikeResult' = PikeResult
  BY <1>1, <1>2, SameResult
<1> QED BY <1>1, <1>3, <1>5, <1>6 DEF Pike!vars

\* The states that waited are to run, and the flags are cleared.
LEMMA EnterPositionMaps ==
  ASSUME MapInv, MapInv', EnterPosition, NEW k, NEW t, NEW f, Lists(k, t, f)
  PROVE  Pike!EnterPosition
<1>1. /\ pc = "string" /\ pc' = "list" /\ spawned' = FALSE
      /\ UNCHANGED <<args, pos, result, matched, instr, ptrs>>
      /\ regflags' = (IF regex.flags > 0 THEN {} ELSE regflags)
      /\ memflags' = (IF regex.flags >= RegisterFlags THEN {} ELSE memflags)
      /\ Blocks' = Blocks
  BY DEF EnterPosition, Blocks
<1>2. /\ ListInv /\ Inv /\ ResultOnce /\ ListInv' /\ Inv' /\ ResultOnce'
      /\ Place = "string" /\ Place' = "list" /\ Place' \in InLoop /\ Listed
      /\ pc \notin Idle /\ pc # "epilogue" /\ pc' \notin Idle /\ pc' # "epilogue"
  BY <1>1 DEF MapInv, ListInv, Place, InLoop, Idle, Listed
<1>3. /\ PikeStatus = "position" /\ PikeKept = <<>> /\ PikeFlags = {}
      /\ PikeSpawned = FALSE /\ PikeTodo = Along(Store, k)
  <2>1. PikeTodo = Along(Store, k)
    BY <1>2, ReadingNow DEF Reading
  <2> QED BY <1>2, <2>1
          DEF PikeStatus, PikeKept, PikeFlags, PikeSpawned, AtPosition, InLoop
<1>4. Lists(<<>>, k, f)'
  BY <1>2, EnterPositionLists
<1>5. /\ PikeStatus' = "threads" /\ PikeFlags' = regflags' \cup memflags'
      /\ PikeSpawned' = FALSE
      /\ PikeKept' = Along(Store', <<>>) /\ PikeTodo' = Along(Store', k)
  BY <1>1, <1>2, <1>4, AtPositionNext
<1>6. regflags' = {} /\ memflags' = {}
  <2>1. /\ regflags \subseteq 0 .. regex.flags - 1
        /\ memflags \subseteq RegisterFlags .. regex.flags - 1 /\ regex \in Regexes
    BY <1>2 DEF Inv, TypeOK
  <2>2. regex.flags \in Nat /\ RegisterFlags \in Nat
    BY <2>1, NativeRegexAssumption, NativeMemoryAssumption
  <2>3. ~(regex.flags > 0) => 0 .. regex.flags - 1 = {}
    BY <2>2
  <2>4. ~(regex.flags >= RegisterFlags) => RegisterFlags .. regex.flags - 1 = {}
    BY <2>2
  <2> QED BY <1>1, <2>1, <2>3, <2>4
<1>7. Along(Store', k) = Along(Store, k)
  <2>1. k \in Seq(Blocks)
    BY <1>2, ListFacts
  <2>2. \A b \in Members(k) : StateAt(b)' = StateAt(b)
    BY <1>1, <1>2 DEF StateAt
  <2> QED BY <1>1, <2>1, <2>2, SameStates
<1>8. PikeMatched' = PikeMatched /\ PikeResult' = PikeResult
  BY <1>1, <1>2, SameMatched, SameResult
<1> QED BY <1>1, <1>3, <1>5, <1>6, <1>7, <1>8, AlongNone DEF Pike!EnterPosition, Pike!args

\* The next position, or the end of the string.
LEMMA EndPositionMaps ==
  ASSUME MapInv, MapInv', EndPosition, NEW k, NEW t, NEW f, Lists(k, t, f)
  PROVE  Pike!EndPosition
<1>1. /\ pc = "list" /\ state = Null /\ pushed = TRUE
      /\ UNCHANGED <<args, result, matched, instr, ptrs, state>>
      /\ Blocks' = Blocks
      /\ IF CharAt(text, pos) = EOF THEN pc' = "coda" /\ pos' = pos
         ELSE pc' = "string" /\ pos' = pos + 1
  <2>1. pushed \in BOOLEAN
    BY DEF MapInv, ListInv, Inv, TypeOK
  <2> QED BY <2>1 DEF EndPosition, Blocks
<1>2. /\ ListInv /\ Inv /\ ResultOnce /\ ListInv' /\ ResultOnce'
      /\ Place = "list" /\ Place' = pc' /\ Place \in InLoop /\ pc' \in {"coda", "string"}
      /\ pc \notin Idle /\ pc # "epilogue" /\ pc' \notin Idle /\ pc' # "epilogue"
  BY <1>1 DEF MapInv, ListInv, Place, InLoop, Idle
<1>3. spawned \/ matched # Null
  BY <1>1, <1>2 DEF MapInv, PushedOnce
<1>4. /\ PikeStatus = "threads" /\ PikeFlags = regflags \cup memflags
      /\ PikeSpawned = spawned
      /\ PikeKept = Along(Store, k) /\ PikeTodo = <<>>
  <2>1. /\ PikeStatus = "threads" /\ PikeFlags = regflags \cup memflags
        /\ PikeSpawned = spawned
        /\ PikeKept = Along(Store, k) /\ PikeTodo = Along(Store, t)
    BY <1>2, AtPositionNow
  <2>2. t = <<>>
    BY <1>1, <1>2, PathStops DEF Lists, ListPaths, Rest
  <2> QED BY <2>1, <2>2, AlongNone
<1>5. PikeMatched' = PikeMatched /\ PikeResult' = PikeResult
  BY <1>1, <1>2, SameMatched, SameResult
<1>6. PikeSpawned \/ PikeMatched # <<>>
  BY <1>2, <1>3, <1>4, MatchedNow
<1>7. PikeKept' = <<>> /\ PikeFlags' = {} /\ PikeSpawned' = FALSE
  BY <1>2 DEF PikeKept, PikeFlags, PikeSpawned, AtPosition, InLoop
<1>8. CASE CharAt(text, pos) = EOF
  <2>1. pc' = "coda" /\ pos' = pos
    BY <1>1, <1>8
  <2>2. PikeStatus' = "finish" /\ PikeTodo' = <<>>
    BY <1>2, <2>1 DEF PikeStatus, PikeTodo, AtPosition, InLoop
  <2> QED BY <1>1, <1>4, <1>5, <1>6, <1>7, <1>8, <2>1, <2>2, SameReading
          DEF Pike!EndPosition, Pike!args
<1>9. CASE CharAt(text, pos) # EOF
  <2>1. pc' = "string" /\ pos' = pos + 1 /\ Place' = "string" /\ Listed'
    BY <1>1, <1>2, <1>9 DEF Listed
  <2>2. PikeStatus' = "position"
    BY <1>2, <2>1 DEF PikeStatus
  <2>3. PikeTodo' = Along(Store', k)
    <3>1. Lists(k, t, f)'
      BY <1>2, StepSame
    <3> QED BY <1>2, <2>1, <3>1, ReadingNext DEF Reading
  <2>4. Along(Store', k) = Along(Store, k)
    <3>1. k \in Seq(Blocks)
      BY <1>2, ListFacts
    <3>2. \A b \in Members(k) : StateAt(b)' = StateAt(b)
      BY <1>1, <1>2, <2>1 DEF StateAt
    <3> QED BY <1>1, <3>1, <3>2, SameStates
  <2> QED BY <1>1, <1>4, <1>5, <1>6, <1>7, <1>9, <2>1, <2>2, <2>3, <2>4, SameReading
          DEF Pike!EndPosition, Pike!args
<1> QED BY <1>8, <1>9

\* The coda writes what PikeVm has as its match.
LEMMA CodaMaps ==
  ASSUME MapInv, MapInv', Coda
  PROVE  UNCHANGED Pike!vars
<1>1. /\ pc = "coda" /\ pc' = "epilogue" /\ status' = "OK"
      /\ result' = Result("NONE", n_pointers # 0 /\ matched # Null,
                          IF n_pointers = 0 \/ matched = Null
                          THEN NullPointers(n_pointers) ELSE ptrs[matched])
      /\ UNCHANGED <<args, pos, matched, ptrs>>
  BY DEF Coda
<1>2. /\ Inv /\ ResultOnce /\ Place = "coda" /\ Place' = "epilogue"
      /\ pc \notin Idle /\ pc' \notin Idle /\ pc # "epilogue"
  BY <1>1 DEF MapInv, ListInv, Place, Idle
<1>3. /\ PikeStatus' = PikeStatus /\ PikeKept' = PikeKept /\ PikeTodo' = PikeTodo
      /\ PikeFlags' = PikeFlags /\ PikeSpawned' = PikeSpawned
  BY <1>2 DEF PikeStatus, PikeKept, PikeTodo, PikeFlags, PikeSpawned, AtPosition, InLoop
<1>4. PikeMatched' = PikeMatched
  <2>1. matched = Null => result'.found = FALSE
    BY <1>1 DEF Result
  <2>2. PikeMatched = IF matched # Null THEN <<ptrs[matched]>> ELSE <<>>
    BY <1>2, MatchedNow
  <2> QED BY <1>1, <2>1, <2>2 DEF PikeMatched
<1>5. PikeResult' = PikeResult
  <2>1. PikeResult = Result("NONE", FALSE, NullPointers(n_pointers))
    BY <1>2, ResultNow
  <2>2. PikeResult' = Result("NONE", FALSE, NullPointers(n_pointers))
    BY <1>1 DEF PikeResult, Result, NullPointers
  <2> QED BY <2>1, <2>2
<1> QED BY <1>1, <1>3, <1>4, <1>5 DEF Pike!vars

\* The epilogue returns, whichever way it was reached.
LEMMA EpilogueMaps ==
  ASSUME MapInv, MapInv', Epilogue
  PROVE  Pike!Return \/ Pike!OutOfMemory
<1>1. /\ pc = "epilogue" /\ pc' = "idle" /\ UNCHANGED args
      /\ result' = [result EXCEPT !.status = status]
      /\ Inv /\ Inv' /\ ResultOnce
  BY DEF Epilogue, MapInv, ListInv
<1>2. /\ PikeKept' = <<>> /\ PikeTodo' = <<>> /\ PikeFlags' = {} /\ PikeSpawned' = FALSE
      /\ PikeMatched' = <<>> /\ pos' = 0 /\ PikeStatus' = "idle" /\ PikeResult' = result'
  BY <1>1, QuietNext DEF Idle
<1>3. status \in {"OK", "E_NOMEM"}
  BY <1>1 DEF Inv, TypeOK, Memory, Asked
<1>4. CASE status = "OK"
  <2>1. Place = "epilogue" /\ pc \notin Idle
    BY <1>1, <1>4 DEF Place, Idle
  <2>2. /\ PikeStatus = "finish" /\ PikeKept = <<>> /\ PikeTodo = <<>> /\ PikeFlags = {}
        /\ PikeSpawned = FALSE
    BY <2>1 DEF PikeStatus, PikeKept, PikeTodo, PikeFlags, PikeSpawned, AtPosition, InLoop
  <2>3. Written
    BY <1>1, <1>4 DEF ResultOnce, Idle
  <2>4. result' = Result("OK", result.found,
                         IF matched = Null THEN NullPointers(n_pointers) ELSE ptrs[matched])
    BY <1>1, <1>4, <2>3 DEF Written, Result
  <2>5. /\ result.found <=> PikeMatched # <<>>
        /\ PikeMatched # <<>> =>
             PikeMatched[1] = IF matched = Null THEN NullPointers(n_pointers) ELSE ptrs[matched]
    BY <1>1, <2>3 DEF Written, PikeMatched
  <2>6. result.found \in BOOLEAN /\ matched # Null => PikeMatched # <<>>
    BY <1>1 DEF PikeMatched
  <2>7. result.found \in BOOLEAN
    BY <1>1 DEF Inv, TypeOK
  <2>8. result' = Result("OK", PikeMatched # <<>>,
                         IF PikeMatched = <<>> THEN NullPointers(n_pointers) ELSE PikeMatched[1])
    <3>1. result.found = (PikeMatched # <<>>)
      BY <2>5, <2>7
    <3>2. PikeMatched = <<>> => matched = Null
      BY <2>6, <2>7
    <3> QED BY <2>4, <2>5, <3>1, <3>2
  <2> QED BY <1>1, <1>2, <2>2, <2>8, SameResults DEF Pike!Return, Pike!args
<1>5. CASE status = "E_NOMEM"
  <2>1. Place = caller /\ caller \in Callers /\ pc \notin Idle
    BY <1>1, <1>5 DEF Place, Idle, Inv, Memory, Asked
  <2>2. PikeStatus \in {"position", "threads"}
    BY <2>1 DEF PikeStatus, Callers, AtPosition, InLoop
  <2>3. result' = Result("E_NOMEM", FALSE, NullPointers(n_pointers))
    <3>1. result = Result("NONE", FALSE, NullPointers(n_pointers))
      BY <1>1, <1>5 DEF ResultOnce, Unwritten, Idle
    <3> QED BY <1>1, <1>5, <3>1 DEF Result
  <2> QED BY <1>1, <1>2, <2>2, <2>3, SameResults
          DEF Pike!OutOfMemory, Pike!Cleared, Pike!args
<1> QED BY <1>3, <1>4, <1>5

-----------------------------------------------------------------------------
(* The refinement                                                          *)

\* The engine starts as PikeVm does.
LEMMA InitMaps == Init => Pike!Init
<1> SUFFICES ASSUME Init PROVE Pike!Init
  OBVIOUS
<1>1. Inv /\ pc = "none" /\ Place \in Idle
  BY InitInv DEF Init, Place, Idle
<1>2. /\ PikeKept = <<>> /\ PikeTodo = <<>> /\ PikeFlags = {} /\ PikeSpawned = FALSE
      /\ PikeMatched = <<>> /\ pos = 0 /\ PikeStatus = "idle" /\ PikeResult = result
  BY <1>1, QuietNow DEF Idle, PikeStatus, PikeResult
<1>3. result = Pike!Result("NONE", FALSE, <<>>)
  BY SameResults, NoPointers DEF Init
<1> QED BY <1>2, <1>3 DEF Pike!Init, Init

\* Every step of the loop is one of PikeVm's, or none.
LEMMA LoopMaps ==
  ASSUME FlagsFit, MapInv, MapInv', Listed,
         EnterPosition \/ ResumeState \/ WantInitialState \/ PushInitialState \/ EndPosition
           \/ Destroy \/ Keep \/ Advance \/ TestAndSetFlag \/ WritePointer
           \/ WantStateCopy \/ PushStateCopy
           \/ MatchBoolean \/ Match \/ FreeSuccessor \/ RemoveMatched
  PROVE  [Pike!Next]_(Pike!vars)
<1>1. PICK k, t, f : Lists(k, t, f)
  BY DEF MapInv, ListInv
<1> USE <1>1
<1>2. CASE EnterPosition
  BY <1>2, EnterPositionMaps DEF Pike!Next, Pike!Run
<1>3. CASE ResumeState \/ WantInitialState \/ WantStateCopy
  BY <1>3, AskingMaps
<1>4. CASE PushInitialState
  BY <1>4, PushInitialStateMaps DEF Pike!Next, Pike!Run
<1>5. CASE EndPosition
  BY <1>5, EndPositionMaps DEF Pike!Next, Pike!Run
<1>6. CASE Destroy
  BY <1>6, DestroyMaps DEF Pike!Next, Pike!Run, Pike!Step
<1>7. CASE Keep
  BY <1>7, KeepMaps DEF Pike!Next, Pike!Run, Pike!Step
<1>8. CASE Advance
  BY <1>8, AdvanceMaps DEF Pike!Next, Pike!Run, Pike!Step
<1>9. CASE TestAndSetFlag
  BY <1>9, TestAndSetFlagMaps DEF Pike!Next, Pike!Run, Pike!Step
<1>10. CASE WritePointer
  BY <1>10, WritePointerMaps DEF Pike!Next, Pike!Run, Pike!Step
<1>11. CASE PushStateCopy
  BY <1>11, PushStateCopyMaps DEF Pike!Next, Pike!Run, Pike!Step
<1>12. CASE MatchBoolean \/ Match
  BY <1>12, MatchBooleanMaps, MatchMaps DEF Pike!Next, Pike!Run, Pike!Step
<1>13. CASE FreeSuccessor \/ RemoveMatched
  BY <1>13, FreeingMaps
<1> QED BY <1>2, <1>3, <1>4, <1>5, <1>6, <1>7, <1>8, <1>9, <1>10, <1>11, <1>12, <1>13

\* Every step of the engine is one of PikeVm's, or none.
LEMMA StepMaps ==
  ASSUME FlagsFit
  PROVE  MapInv /\ MapInv' /\ [Next]_vars => [Pike!Next]_(Pike!vars)
<1> SUFFICES ASSUME MapInv, MapInv', [Next]_vars PROVE [Pike!Next]_(Pike!vars)
  OBVIOUS
<1>1. CASE CreateContext \/ DestroyContext
  BY <1>1, ContextMaps DEF MapInv, ListInv
<1>2. CASE Call
  BY <1>2, CallMaps DEF Pike!Next
<1>3. CASE FlagsAllocated
  BY <1>3, FlagsAllocatedMaps
<1>4. CASE Allocator
  BY <1>4, AllocatorMaps
<1>5. CASE Coda
  BY <1>5, CodaMaps
<1>6. CASE Epilogue
  BY <1>6, EpilogueMaps DEF Pike!Next, Pike!Run
<1>7. CASE EnterPosition \/ ResumeState \/ WantInitialState \/ PushInitialState
             \/ EndPosition \/ Destroy \/ Keep \/ Advance \/ TestAndSetFlag
             \/ WritePointer \/ WantStateCopy \/ PushStateCopy
             \/ MatchBoolean \/ Match \/ FreeSuccessor \/ RemoveMatched
  <2>1. pc \in {"string", "list", "run", "spawn", "split", "free"}
    BY <1>7
    DEF EnterPosition, ResumeState, WantInitialState, PushInitialState, EndPosition,
        Destroy, Keep, Advance, TestAndSetFlag, WritePointer, WantStateCopy,
        PushStateCopy, MatchBoolean, Match, FreeSuccessor, RemoveMatched, Running
  <2>2. Listed
    BY <2>1 DEF Listed, Place, InLoop
  <2> QED BY <1>7, <2>2, LoopMaps
<1>8. CASE UNCHANGED vars
  BY <1>8
  DEF vars, Pike!vars, PikeStatus, PikeKept, PikeTodo, PikeFlags, PikeSpawned,
      PikeMatched, PikeResult, AsThreads, StateAt, Kept, Todo, Place, Result,
      NullPointers
<1> QED BY <1>1, <1>2, <1>3, <1>4, <1>5, <1>6, <1>7, <1>8 DEF Next, Client, Run

\* The emitted code does what the algorithm does, whatever the programs,
\* strings and allocations, as long as no instruction tests a flag of the upper
\* half of the register: as far as its results go, the buffer, the allocator
\* and the registers between them do not exist.
THEOREM Refinement ==
  ASSUME FlagsFit
  PROVE  Spec => ImplementsPike
<1>1. Init => Pike!Init
  BY InitMaps
<1>2. MapInv /\ MapInv' /\ [Next]_vars => [Pike!Next]_(Pike!vars)
  BY StepMaps
<1>3. Spec => []MapInv
  BY MapInvariance
<1> QED BY <1>1, <1>2, <1>3, PTL DEF Spec, ImplementsPike, Pike!Spec

\* Under the same condition a flag that a state has set stays set until the
\* next position.
THEOREM FlagsAreKept ==
  ASSUME FlagsFit
  PROVE  Spec => FlagsLast
<1>1. MapInv /\ [Next]_vars =>
        [pc = "run" /\ pc' \in AtPosition \cup {"alloc"} =>
           regflags \cup memflags \subseteq regflags' \cup memflags']_vars
  <2> SUFFICES ASSUME MapInv, [Next]_vars, pc = "run"
               PROVE  regflags \cup memflags \subseteq regflags' \cup memflags'
    OBVIOUS
  <2>1. Inv /\ LowFlags
    BY DEF MapInv, ListInv
  <2>2. CASE Destroy \/ TestAndSetFlag
    <3>1. CASE UNCHANGED flagVars
      BY <3>1
    <3>2. CASE ~(UNCHANGED flagVars)
      <4>1. /\ Running /\ Instr.op = "TEST_AND_SET_FLAG" /\ TestAndSet(Instr.operand)
        BY <2>2, <3>2 DEF Destroy, TestAndSetFlag, FlagSet
      <4> QED BY <2>1, <4>1, FlagIsSet
    <3> QED BY <3>1, <3>2
  <2>3. CASE ~(Destroy \/ TestAndSetFlag)
    <3>1. UNCHANGED flagVars
      BY <2>3
      DEF Next, Client, Run, Allocator, CreateContext, DestroyContext, Call,
          FlagsAllocated, AllocFromBump, AllocFromFreelist, AllocNewBuffer, MoveBuffer,
          AllocFails, NeedsBuffer, EnterPosition, ResumeState, WantInitialState,
          PushInitialState, EndPosition, Keep, Advance, WritePointer, WantStateCopy,
          PushStateCopy, MatchBoolean, Match, FreeSuccessor, RemoveMatched, Coda,
          Epilogue, vars
    <3> QED BY <3>1
  <2> QED BY <2>2, <2>3
<1>2. Spec => []MapInv
  BY MapInvariance
<1> QED BY <1>1, <1>2, PTL DEF Spec, FlagsLast

-----------------------------------------------------------------------------
(* What is proved of the algorithm holds of the engine                     *)

Search == INSTANCE PikeProofs WITH
  status <- PikeStatus, kept <- PikeKept, todo <- PikeTodo, flags <- PikeFlags,
  spawned <- PikeSpawned, matched <- PikeMatched, result <- PikeResult

\* The instance with the proofs is the one that NativeVm refines.
LEMMA SameAlgorithm ==
  /\ Pike!Init <=> Search!Init
  /\ [Pike!Next]_(Pike!vars) <=> [Search!Next]_(Search!vars)
<1>1. /\ Pike!Reject <=> Search!Reject
      /\ Pike!Consume <=> Search!Consume
      /\ Pike!Advance <=> Search!Advance
      /\ Pike!TestAndSetFlag <=> Search!TestAndSetFlag
  BY DEF Pike!Reject, Search!Reject, Pike!Consume, Search!Consume, Pike!Advance,
         Search!Advance, Pike!TestAndSetFlag, Search!TestAndSetFlag, Pike!args,
         Search!args, Pike!Code, Search!Code, Pike!Running, Search!Running,
         Pike!Thread, Search!Thread, Pike!AtEnd, Search!AtEnd, Pike!Instr,
         Search!Instr, Pike!stepFrame, Search!stepFrame, Pike!GoesOn, Search!GoesOn,
         Pike!Continues, Search!Continues, Pike!After, Search!After, Pike!Continuation,
         Search!Continuation, Pike!SplitPointer, Search!SplitPointer, Pike!Dies,
         Search!Dies, Pike!FlagTaken, Search!FlagTaken, Pike!ConsumeOps,
         Search!ConsumeOps, Pike!AnchorOps, Search!AnchorOps, Pike!Accepts,
         Search!Accepts, Pike!AnchorHolds, Search!AnchorHolds, Pike!IsWord,
         Search!IsWord, Pike!CharAt, Search!CharAt, Pike!CharBefore, Search!CharBefore,
         Pike!EOF, Search!EOF
<1>2. /\ Pike!Split <=> Search!Split
      /\ Pike!WritePointer <=> Search!WritePointer
      /\ Pike!Match <=> Search!Match
  BY DEF Pike!Split, Search!Split, Pike!WritePointer, Search!WritePointer, Pike!Match,
         Search!Match, Pike!args, Search!args, Pike!Code, Search!Code, Pike!Running,
         Search!Running, Pike!Thread, Search!Thread, Pike!AtEnd, Search!AtEnd,
         Pike!Instr, Search!Instr, Pike!stepFrame, Search!stepFrame, Pike!GoesOn,
         Search!GoesOn, Pike!Continues, Search!Continues, Pike!After, Search!After,
         Pike!Continuation, Search!Continuation, Pike!SplitPointer,
         Search!SplitPointer, Pike!SplitOps, Search!SplitOps
<1>3. /\ Pike!Init <=> Search!Init
      /\ Pike!Call <=> Search!Call
      /\ Pike!Spawn <=> Search!Spawn
      /\ Pike!Return <=> Search!Return
      /\ Pike!OutOfMemory <=> Search!OutOfMemory
  BY DEF Pike!Init, Search!Init, Pike!Call, Search!Call, Pike!Spawn, Search!Spawn,
         Pike!Return, Search!Return, Pike!OutOfMemory, Search!OutOfMemory, Pike!args,
         Search!args, Pike!Cleared, Search!Cleared, Pike!NPointers, Search!NPointers,
         Pike!Result, Search!Result, Pike!NullPointers, Search!NullPointers, Pike!Null,
         Search!Null
<1>4. /\ Pike!EnterPosition <=> Search!EnterPosition
      /\ Pike!EndPosition <=> Search!EndPosition
  BY DEF Pike!EnterPosition, Search!EnterPosition, Pike!EndPosition,
         Search!EndPosition, Pike!args, Search!args, Pike!CharAt, Search!CharAt,
         Pike!EOF, Search!EOF
<1>5. Pike!vars = Search!vars
  BY DEF Pike!vars, Search!vars
<1>6. Pike!Next <=> Search!Next
  BY <1>1, <1>2, <1>3, <1>4 DEF Pike!Next, Search!Next, Pike!Run, Search!Run, Pike!Step, Search!Step
<1>7. Pike!Init <=> Search!Init
  BY <1>3
<1>8. [Pike!Next]_(Pike!vars) <=> [Search!Next]_(Search!vars)
  BY <1>5, <1>6 DEF Pike!vars, Search!vars
<1> QED BY <1>7, <1>8

\* What PikeVm assumes of the programs is what NativeVm assumes, and that each writes
\* its beginning first of all, which is how the compiler begins each of them.
LEMMA SameAssumptions ==
  ASSUME \A r \in Regexes : BeginsOnce(r.code)
  PROVE  /\ Search!BytecodeAssumption /\ Search!RegexAssumption
         /\ Search!BeginsAssumption
<1>1. /\ \A c : Search!Starts(c) = Starts(c) /\ Search!Labels(c) = Labels(c)
      /\ \A c, i : Search!After(c, i) = After(c, i)
      /\ \A c, i : Search!Continuation(c, i) = Continuation(c, i)
      /\ \A c, i : Search!SplitPointer(c, i) = SplitPointer(c, i)
      /\ Search!Cells = Cells /\ Search!SplitOps = SplitOps /\ Search!AnchorOps = AnchorOps
  BY DEF Search!Starts, Starts, Search!Labels, Labels, Search!After, After,
         Search!Continuation, Continuation, Search!SplitPointer, SplitPointer,
         Search!Cells, Cells, Search!Opcodes, Opcodes, Search!ConsumeOps, ConsumeOps,
         Search!SplitOps, SplitOps, Search!AnchorOps, AnchorOps
<1>2. \A r : Search!WellFormed(r) <=> WellFormed(r)
  BY <1>1 DEF Search!WellFormed, WellFormed
<1>3. \A c : Search!BeginsOnce(c) <=> BeginsOnce(c)
  BY <1>1 DEF Search!BeginsOnce, BeginsOnce
<1>4. Search!BytecodeAssumption
  BY BytecodeAssumption DEF Search!BytecodeAssumption
<1>5. Search!RegexAssumption
  BY <1>2, NativeRegexAssumption DEF Search!RegexAssumption
<1>6. Search!BeginsAssumption
  BY <1>3 DEF Search!BeginsAssumption
<1> QED BY <1>4, <1>5, <1>6

\* The engine's runs are the algorithm's.
LEMMA RunsSearch ==
  ASSUME FlagsFit
  PROVE  Spec => Search!Spec
<1>1. Spec => Pike!Init /\ [][Pike!Next]_(Pike!vars)
  BY Refinement, PTL DEF ImplementsPike, Pike!Spec
<1>2. [Pike!Next]_(Pike!vars) => [Search!Next]_(Search!vars)
  BY SameAlgorithm
<1>3. Pike!Init => Search!Init
  BY SameAlgorithm
<1> QED BY <1>1, <1>2, <1>3, PTL DEF Search!Spec

\* What the emitted code finds is the leftmost match: its threads, in the
\* order in which its lists hold them, stand by where they began, with the
\* match behind them, and a match is only replaced by one that begins no later.
THEOREM NativeFindsLeftmost ==
  ASSUME FlagsFit, \A r \in Regexes : BeginsOnce(r.code)
  PROVE  Spec => []Pike!LeftmostFirst /\ Pike!MatchOnlyImproves
<1>1. /\ Search!BytecodeAssumption /\ Search!RegexAssumption
      /\ Search!BeginsAssumption
  BY SameAssumptions
<1>2. Search!Spec => []Search!LeftmostFirst
  BY <1>1, Search!ThreadsInOrder, PTL
<1>3. Search!Spec => Search!MatchOnlyImproves
  BY <1>1, Search!MatchesImprove, PTL
<1>4. Spec => Search!Spec
  BY RunsSearch
<1>5. Search!LeftmostFirst => Pike!LeftmostFirst
  BY DEF Search!LeftmostFirst, Pike!LeftmostFirst, Search!Ranked, Pike!Ranked,
         Search!Live, Pike!Live, Search!StartOf, Pike!StartOf, Search!Null, Pike!Null
<1>6. Search!MatchOnlyImproves => Pike!MatchOnlyImproves
  <2>1. [PikeStatus # "idle" /\ PikeStatus' # "idle" /\ PikeMatched # <<>> /\ n_pointers > 0 =>
           /\ PikeMatched' # <<>>
           /\ Search!StartOf(PikeMatched'[1]) <= Search!StartOf(PikeMatched[1])]_(Search!vars)
         =>
         [PikeStatus # "idle" /\ PikeStatus' # "idle" /\ PikeMatched # <<>> /\ n_pointers > 0 =>
           /\ PikeMatched' # <<>>
           /\ Pike!StartOf(PikeMatched'[1]) <= Pike!StartOf(PikeMatched[1])]_(Pike!vars)
    BY DEF Search!vars, Pike!vars, Search!StartOf, Pike!StartOf, Search!Null, Pike!Null
  <2> QED BY <2>1, PTL DEF Search!MatchOnlyImproves, Pike!MatchOnlyImproves
<1> QED BY <1>2, <1>3, <1>4, <1>5, <1>6, PTL

-----------------------------------------------------------------------------
(* How many states there are                                               *)

\* What the compiler promises of the ways between instructions.
WaysFlagged == \A r \in Regexes : JoinsFlagged(r.code) /\ OperandsApart(r.code)

InUse  == {h \in Blocks : region[h] # "free"}
Makers == {k \in Starts(Code) : Code[k + 1].op \in ConsumeOps \cup SplitOps}

\* MemoryBounded, of finitely many.
FewInUse == IsFiniteSet(InUse) /\ Cardinality(InUse) <= 2 + Cardinality(Makers)

\* The instance counts and follows the ways as NativeVm does.
LEMMA SameCount == ASSUME NEW S PROVE Search!Cardinality(S) = Cardinality(S)
  BY DEF Search!Cardinality, Cardinality

LEMMA SameWays == WaysFlagged => Search!WaysFlagged
<1>1. /\ \A c : Search!Starts(c) = Starts(c)
      /\ \A c, i : Search!After(c, i) = After(c, i)
      /\ \A c, i : Search!Continuation(c, i) = Continuation(c, i)
      /\ \A c, i : Search!SplitPointer(c, i) = SplitPointer(c, i)
      /\ Search!SplitOps = SplitOps /\ Search!Entry = Entry
  BY DEF Search!Starts, Starts, Search!After, After, Search!Continuation, Continuation,
         Search!SplitPointer, SplitPointer, Search!SplitOps, SplitOps, Search!Entry,
         Entry, Search!AnchorOps, AnchorOps
<1>2. \A c : Search!Edges(c) = Edges(c)
  BY <1>1 DEF Search!Edges, Edges
<1>3. \A c : Search!JoinsFlagged(c) <=> JoinsFlagged(c)
  BY <1>2 DEF Search!JoinsFlagged, JoinsFlagged
<1>4. \A c : Search!OperandsApart(c) <=> OperandsApart(c)
  BY <1>1 DEF Search!OperandsApart, OperandsApart
<1> QED BY <1>3, <1>4 DEF WaysFlagged, Search!WaysFlagged

\* The instructions that make states are finitely many.
LEMMA MakersFinite == TypeOK => IsFiniteSet(Makers) /\ Cardinality(Makers) \in Nat
<1> SUFFICES ASSUME TypeOK PROVE IsFiniteSet(Makers) /\ Cardinality(Makers) \in Nat
  OBVIOUS
<1>1. Len(Code) \in Nat
  BY NativeRegexAssumption DEF TypeOK, Code, WellFormed
<1>2. Makers \subseteq 0 .. Len(Code) - 1
  BY DEF Makers, Starts
<1>3. IsFiniteSet(0 .. Len(Code) - 1)
  BY <1>1, FS_Interval
<1>4. IsFiniteSet(Makers)
  BY <1>2, <1>3, FS_Subset
<1> QED BY <1>4, FS_CardinalityType

\* Where a state is about to be made, there is room for one more.
LEMMA RoomForOne ==
  ASSUME MapInv, pc \in {"spawn", "split"}, Search!ThreadsBounded
  PROVE  IsFiniteSet(InUse) /\ Cardinality(InUse) <= 1 + Cardinality(Makers)
<1>1. /\ ListInv /\ Inv /\ Place = pc /\ Place \in InLoop /\ Listed
      /\ Place = "spawn" => ~spawned
  BY DEF MapInv, ListInv, PushedOnce, Place, InLoop, Listed
<1>2. PICK k, t, f : Lists(k, t, f)
  BY <1>1 DEF ListInv
<1>3. /\ PikeStatus = "threads" /\ PikeSpawned = spawned
      /\ PikeKept = Along(Store, k) /\ PikeTodo = Along(Store, t)
  BY <1>1, <1>2, AtPositionNow
<1>4. /\ k \in Seq(Blocks) /\ t \in Seq(Blocks) /\ Len(k) \in Nat /\ Len(t) \in Nat
      /\ Len(PikeKept) = Len(k) /\ Len(PikeTodo) = Len(t)
  <2>1. k \in Seq(DOMAIN Store) /\ t \in Seq(DOMAIN Store)
    BY <1>1, <1>2, ListFacts DEF Store
  <2>2. k \in Seq(Blocks) /\ t \in Seq(Blocks)
    BY <1>1, <1>2, ListFacts
  <2>3. Len(k) \in Nat /\ Len(t) \in Nat
    BY <2>2
  <2>4. Len(Along(Store, k)) = Len(k) /\ Len(Along(Store, t)) = Len(t)
    BY <2>1, AlongIs
  <2> QED BY <1>3, <2>2, <2>3, <2>4
<1>5. Search!Consumers \cup Search!Splitters = Makers
  BY DEF Search!Consumers, Search!Splitters, Makers, Search!Starts, Starts, Search!Code,
         Code, Search!ConsumeOps, ConsumeOps, Search!SplitOps, SplitOps
<1>6. Len(k) + Len(t) <= Cardinality(Makers)
  <2>1. CASE Place = "spawn"
    <3>1. ~PikeSpawned
      BY <1>1, <1>3, <2>1
    <3>2. Len(PikeKept) + Len(PikeTodo) <= Cardinality(Search!Consumers \cup Search!Splitters)
      BY <3>1, SameCount DEF Search!ThreadsBounded
    <3> QED BY <1>4, <1>5, <3>2
  <2>2. CASE Place = "split"
    <3>1. /\ Pike!Running /\ Pike!Instr = Instr /\ (Pike!AtEnd <=> AtEnd)
      BY <1>1, <1>2, <2>2, AtStep
    <3>2. ip \in Starts(Code) /\ Instr.op \in SplitOps
      BY <1>1, <2>2 DEF Inv, InCode
    <3>3. ~AtEnd
      <4>1. Len(Code) \in Nat
        BY <1>1, NativeRegexAssumption DEF Inv, TypeOK, Code, WellFormed
      <4> QED BY <3>2, <4>1 DEF AtEnd, Starts
    <3>4. Search!Running /\ ~Search!AtEnd /\ Search!Instr.op \in Search!SplitOps
      BY <3>1, <3>2, <3>3
      DEF Search!Running, Pike!Running, Search!AtEnd, Pike!AtEnd, Search!Instr, Pike!Instr,
          Search!Thread, Pike!Thread, Search!Code, Pike!Code, Search!SplitOps, SplitOps
    <3>5. Len(PikeKept) + Len(PikeTodo) <= Cardinality(Search!Consumers \cup Search!Splitters)
      BY <3>4, SameCount DEF Search!ThreadsBounded
    <3> QED BY <1>4, <1>5, <3>5
  <2> QED BY <1>1, <2>1, <2>2
<1>7. InUse \subseteq (Members(k) \cup Members(t)) \cup {matched}
  BY <1>1, <1>2 DEF Inv, Pool, GrantedIsLoose, Granted, InUse, Lists, ListBlocks
<1>8. /\ IsFiniteSet(Members(k)) /\ Cardinality(Members(k)) <= Len(k)
      /\ IsFiniteSet(Members(t)) /\ Cardinality(Members(t)) <= Len(t)
  BY <1>4, FewMembers
<1>9. PICK m : m = Members(k) \cup Members(t)
  OBVIOUS
<1>10. IsFiniteSet(m) /\ Cardinality(m) \in Nat /\ Cardinality(m) <= Len(k) + Len(t)
  <2>1. IsFiniteSet(Members(k) \cap Members(t))
    BY <1>8, FS_Intersection
  <2>2. IsFiniteSet(m) /\ Cardinality(m) = Cardinality(Members(k)) + Cardinality(Members(t))
                                             - Cardinality(Members(k) \cap Members(t))
    BY <1>8, <1>9, FS_Union
  <2>3. /\ Cardinality(m) \in Nat /\ Cardinality(Members(k) \cap Members(t)) \in Nat
        /\ Cardinality(Members(k)) \in Nat /\ Cardinality(Members(t)) \in Nat
    BY <1>8, <2>1, <2>2, FS_CardinalityType
  <2> QED BY <1>4, <1>8, <2>2, <2>3
<1>11. IsFiniteSet(m \cup {matched}) /\ Cardinality(m \cup {matched}) <= Cardinality(m) + 1
  <2>1. IsFiniteSet(m \cup {matched})
        /\ Cardinality(m \cup {matched}) =
             IF matched \in m THEN Cardinality(m) ELSE Cardinality(m) + 1
    BY <1>10, FS_AddElement
  <2> QED BY <1>10, <2>1
<1>12. IsFiniteSet(InUse) /\ Cardinality(InUse) <= Cardinality(m \cup {matched})
  BY <1>7, <1>9, <1>11, FS_Subset
<1>13. Cardinality(InUse) \in Nat /\ Cardinality(m \cup {matched}) \in Nat
       /\ Cardinality(Makers) \in Nat
  BY <1>1, <1>11, <1>12, FS_CardinalityType, MakersFinite DEF Inv
<1> QED BY <1>4, <1>6, <1>10, <1>11, <1>12, <1>13

\* Nothing but a new state adds to those in use.
LEMMA UseFalls ==
  ASSUME MapInv, [Next]_vars, ~PushInitialState, ~PushStateCopy, ~Call
  PROVE  InUse' \subseteq InUse /\ regex' = regex
<1>1. Inv /\ DOMAIN region = Blocks
  BY DEF MapInv, ListInv, Inv, TypeOK
<1>2. CASE UNCHANGED <<next, region, regex>>
  BY <1>2 DEF InUse, Blocks
<1>3. CASE CreateContext \/ DestroyContext \/ FlagsAllocated \/ ResumeState
             \/ WantInitialState \/ EndPosition \/ Advance \/ TestAndSetFlag
             \/ WritePointer \/ WantStateCopy \/ MatchBoolean \/ Coda \/ UNCHANGED vars
  BY <1>2, <1>3
  DEF CreateContext, DestroyContext, FlagsAllocated, ResumeState, WantInitialState,
      EndPosition, Advance, TestAndSetFlag, WritePointer, WantStateCopy, MatchBoolean, Coda,
      frameVars, memVars, stepFrame, args, vars
<1>4. CASE AllocFromBump \/ AllocFromFreelist \/ AllocNewBuffer \/ AllocFails
  BY <1>2, <1>4 DEF AllocFromBump, AllocFromFreelist, AllocNewBuffer, AllocFails, allocFrame,
                    memVars, args
<1>5. CASE MoveBuffer
  <2> DEFINE copied == {h \in Blocks : h + BlockSize <= bump}
  <2>1. next' = [h \in copied |-> next[h]] /\ region' = [h \in copied |-> region[h]]
        /\ regex' = regex
    BY <1>5 DEF MoveBuffer, allocFrame, args
  <2>2. copied \subseteq Blocks
    OBVIOUS
  <2> HIDE DEF copied
  <2>3. Blocks' = copied /\ \A h \in copied : region'[h] = region[h]
    BY <2>1 DEF Blocks
  <2> QED BY <2>1, <2>2, <2>3 DEF InUse
<1>6. CASE EnterPosition \/ Epilogue \/ RemoveMatched
  BY <1>1, <1>6 DEF EnterPosition, Epilogue, FrameGone, RemoveMatched, NoBlocks, InUse, Blocks,
                    stepFrame, args
<1>7. CASE Destroy \/ Keep
  <2>1. state \in Blocks /\ region[state] = "todo" /\ Blocks' = Blocks /\ regex' = regex
    <3>1. pc = "run"
      BY <1>7 DEF Destroy, Keep, Running
    <3>2. Place = "run" /\ state \in Blocks /\ state # Null
      BY <1>1, <3>1, RunFacts
    <3> QED BY <1>1, <1>7, <3>2 DEF Destroy, Keep, Inv, Pool, Where, InLoop, Blocks, stepFrame, args
  <2>2. \A h \in Blocks : region'[h] # "free" => region[h] # "free"
    BY <1>1, <1>7, <2>1 DEF Destroy, Keep
  <2> QED BY <2>1, <2>2 DEF InUse
<1>8. CASE Match
  <2>1. state \in Blocks /\ region[state] = "todo" /\ Blocks' = Blocks /\ regex' = regex
    <3>1. pc = "run"
      BY <1>8 DEF Match
    <3>2. Place = "run" /\ state \in Blocks /\ state # Null
      BY <1>1, <3>1, RunFacts
    <3> QED BY <1>1, <1>8, <3>2 DEF Match, Inv, Pool, Where, InLoop, Blocks, stepFrame, args
  <2>2. \A h \in Blocks : region'[h] # "free" => region[h] # "free"
    BY <1>1, <1>8, <2>1 DEF Match
  <2> QED BY <2>1, <2>2 DEF InUse
<1>9. CASE FreeSuccessor
  BY <1>1, <1>9 DEF FreeSuccessor, InUse, Blocks, stepFrame, args
<1> QED BY <1>3, <1>4, <1>5, <1>6, <1>7, <1>8, <1>9 DEF Next, Client, Run, Allocator

\* A new state is one more.
LEMMA UseGrows ==
  ASSUME MapInv, PushInitialState \/ PushStateCopy
  PROVE  /\ pc \in {"spawn", "split"} /\ regex' = regex
         /\ \E h : InUse' = InUse \cup {h}
<1>1. pc \in {"spawn", "split"} /\ regex' = regex
  BY DEF PushInitialState, PushStateCopy, stepFrame, args
<1>2. PICK h : h = scratch
  OBVIOUS
<1>3. Blocks' = Blocks \cup {h} /\ region' = Put(region, h, "todo")
  BY <1>2 DEF PushInitialState, PushStateCopy, Blocks
<1>4. DOMAIN region = Blocks
  BY DEF MapInv, ListInv, Inv, TypeOK
<1>5. InUse' = InUse \cup {h}
  BY <1>3, <1>4 DEF InUse, Put
<1> QED BY <1>1, <1>5

\* The number of states stays small.
LEMMA FewInUsePreserved ==
  ASSUME MapInv, MapInv', Search!ThreadsBounded, FewInUse, [Next]_vars
  PROVE  FewInUse'
<1>1. TypeOK /\ TypeOK'
  BY DEF MapInv, ListInv, Inv
<1>2. Cardinality(Makers) \in Nat
  BY <1>1, MakersFinite
<1>3. CASE PushInitialState \/ PushStateCopy
  <2>1. PICK h : InUse' = InUse \cup {h}
    BY <1>3, UseGrows
  <2>2. pc \in {"spawn", "split"} /\ regex' = regex
    BY <1>3, UseGrows
  <2>3. IsFiniteSet(InUse) /\ Cardinality(InUse) <= 1 + Cardinality(Makers)
    BY <2>2, RoomForOne
  <2>4. /\ IsFiniteSet(InUse \cup {h})
        /\ Cardinality(InUse \cup {h}) =
             IF h \in InUse THEN Cardinality(InUse) ELSE Cardinality(InUse) + 1
    BY <2>3, FS_AddElement
  <2>5. Cardinality(InUse) \in Nat
    BY <2>3, FS_CardinalityType
  <2>6. Cardinality(InUse \cup {h}) <= 2 + Cardinality(Makers)
    BY <1>2, <2>3, <2>4, <2>5
  <2>7. Makers' = Makers
    BY <2>2 DEF Makers, Code
  <2> QED BY <2>1, <2>4, <2>6, <2>7 DEF FewInUse
<1>4. CASE Call
  <2>1. InUse' = {}
    <3>1. NoPool
      BY <1>4 DEF Call, MapInv, ListInv, Inv, Pool, Where, Place, Idle
    <3>2. next' = next
      BY <1>4 DEF Call, memVars
    <3> QED BY <3>1, <3>2 DEF NoPool, NoBlocks, InUse, Blocks
  <2>2. (TypeOK => IsFiniteSet(Makers) /\ Cardinality(Makers) \in Nat)'
    BY MakersFinite, PTL
  <2> QED BY <1>1, <2>1, <2>2, FS_EmptySet DEF FewInUse
<1>5. CASE ~(PushInitialState \/ PushStateCopy \/ Call)
  <2>1. InUse' \subseteq InUse /\ regex' = regex
    BY <1>5, UseFalls
  <2>2. /\ IsFiniteSet(InUse') /\ Cardinality(InUse') <= Cardinality(InUse)
        /\ IsFiniteSet(InUse) /\ Cardinality(InUse) <= 2 + Cardinality(Makers)
    BY <2>1, FS_Subset DEF FewInUse
  <2>3. Cardinality(InUse') \in Nat /\ Cardinality(InUse) \in Nat
    BY <2>2, FS_CardinalityType
  <2>4. Makers' = Makers
    BY <2>1 DEF Makers, Code
  <2> QED BY <1>2, <2>2, <2>3, <2>4 DEF FewInUse
<1> QED BY <1>3, <1>4, <1>5

\* At no time has the emitted code more states than the program has instructions
\* that wait or split, one that is new and the match: its flags stop every loop
\* that consumes nothing, and the buffer does not grow with the string.
THEOREM FewStates ==
  ASSUME FlagsFit, WaysFlagged, \A r \in Regexes : BeginsOnce(r.code)
  PROVE  Spec => []MemoryBounded
<1>1. /\ Search!BytecodeAssumption /\ Search!RegexAssumption
      /\ Search!BeginsAssumption /\ Search!WaysFlagged
  BY SameAssumptions, SameWays
<1>2. Spec => []Search!ThreadsBounded
  <2>1. Search!Spec => []Search!ThreadsBounded
    BY <1>1, Search!FewThreads, PTL
  <2> QED BY <2>1, RunsSearch, PTL
<1>3. Spec => []MapInv
  BY MapInvariance
<1>4. Init => FewInUse
  <2>1. ASSUME Init PROVE FewInUse
    <3>1. InUse = {}
      BY <2>1 DEF Init, NoFrame, NoBlocks, InUse, Blocks
    <3>2. Cardinality(Makers) \in Nat
      BY <2>1, InitInv, MakersFinite DEF Inv
    <3> QED BY <3>1, <3>2, FS_EmptySet DEF FewInUse
  <2> QED BY <2>1
<1>5. MapInv /\ MapInv' /\ Search!ThreadsBounded /\ FewInUse /\ [Next]_vars => FewInUse'
  BY FewInUsePreserved
<1>6. FewInUse => MemoryBounded
  BY DEF FewInUse, InUse, Makers, MemoryBounded
<1> QED BY <1>2, <1>3, <1>4, <1>5, <1>6, PTL DEF Spec
=============================================================================
