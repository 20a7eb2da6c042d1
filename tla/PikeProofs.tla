----------------------------- MODULE PikeProofs -----------------------------
(***************************************************************************)
(* Proofs about the matching algorithm: that the order of its threads is   *)
(* the order of where they began, for any programs, strings and numbers of *)
(* threads.                                                                *)
(***************************************************************************)
EXTENDS PikeVm, FiniteSetTheorems, TLAPS

-----------------------------------------------------------------------------
(* The inductive invariant                                                 *)

Types == regex \in Regexes /\ TypeOK

\* What is over when.
Phase ==
  /\ status \in {"idle", "finish"} => kept = <<>> /\ todo = <<>>
  /\ status = "position" => kept = <<>>
  /\ status = "idle" => matched = <<>>

Start(t)    == StartOf(t.ptrs)
HasBegun(t) == t.ip # 0 /\ t.ptrs[0] # Null /\ t.ptrs[0] <= pos

\* A thread writes its beginning first; until then it is the only one to run.
JustSpawned ==
  /\ status = "threads" /\ matched = <<>>
  /\ todo = <<[ip |-> 0, ptrs |-> NullPointers(n_pointers)]>>

Begun ==
  n_pointers > 0 =>
    /\ \A k \in DOMAIN kept : HasBegun(kept[k])
    /\ JustSpawned \/ \A k \in DOMAIN todo : HasBegun(todo[k])

Sorted ==
  n_pointers > 0 =>
    /\ \A j, k \in DOMAIN kept : j < k => Start(kept[j]) <= Start(kept[k])
    /\ \A j \in DOMAIN kept, k \in DOMAIN todo : Start(kept[j]) <= Start(todo[k])
    /\ \A j, k \in DOMAIN todo : j < k => Start(todo[j]) <= Start(todo[k])

Better ==
  n_pointers > 0 /\ matched # <<>> =>
    /\ \A k \in DOMAIN kept : Start(kept[k]) <= StartOf(matched[1])
    /\ \A k \in DOMAIN todo : Start(todo[k]) <= StartOf(matched[1])

IInv == Types /\ Phase /\ Begun /\ Sorted /\ Better

-----------------------------------------------------------------------------
(* Sequences                                                               *)

\* The head and the tail of a sequence, by index.
LEMMA HeadAndTail ==
  ASSUME NEW S, NEW s \in Seq(S), s # <<>>
  PROVE  /\ Head(s) = s[1] /\ Head(s) \in S
         /\ Len(s) \in Nat /\ Len(s) >= 1 /\ DOMAIN s = 1 .. Len(s)
         /\ Tail(s) \in Seq(S) /\ Len(Tail(s)) = Len(s) - 1
         /\ DOMAIN Tail(s) = 1 .. Len(s) - 1
         /\ \A k \in 1 .. Len(s) - 1 : Tail(s)[k] = s[k + 1]
  OBVIOUS

\* A thread in place of the head of a sequence.
LEMMA HeadReplaced ==
  ASSUME NEW S, NEW s \in Seq(S), s # <<>>, NEW t \in S
  PROVE  /\ <<t>> \o Tail(s) \in Seq(S)
         /\ DOMAIN (<<t>> \o Tail(s)) = 1 .. Len(s)
         /\ (<<t>> \o Tail(s))[1] = t
         /\ \A k \in 2 .. Len(s) : (<<t>> \o Tail(s))[k] = s[k]
  OBVIOUS

\* Two threads in place of the head of a sequence.
LEMMA HeadSplit ==
  ASSUME NEW S, NEW s \in Seq(S), s # <<>>, NEW t \in S, NEW u \in S
  PROVE  /\ <<t, u>> \o Tail(s) \in Seq(S)
         /\ DOMAIN (<<t, u>> \o Tail(s)) = 1 .. Len(s) + 1
         /\ (<<t, u>> \o Tail(s))[1] = t /\ (<<t, u>> \o Tail(s))[2] = u
         /\ \A k \in 3 .. Len(s) + 1 : (<<t, u>> \o Tail(s))[k] = s[k - 1]
  OBVIOUS

\* One more thread at the end of a sequence.
LEMMA Appended ==
  ASSUME NEW S, NEW s \in Seq(S), NEW t \in S
  PROVE  /\ Append(s, t) \in Seq(S)
         /\ Len(s) \in Nat /\ DOMAIN s = 1 .. Len(s)
         /\ DOMAIN Append(s, t) = 1 .. Len(s) + 1
         /\ Append(s, t)[Len(s) + 1] = t
         /\ \A k \in 1 .. Len(s) : Append(s, t)[k] = s[k]
  OBVIOUS

-----------------------------------------------------------------------------
(* Threads and programs                                                    *)

\* What holds of the regex of the call.
LEMMA RegexFacts ==
  ASSUME Types
  PROVE  /\ WellFormed(regex) /\ BeginsOnce(Code)
         /\ regex.groups \in Nat \ {0} /\ regex.flags \in Nat
         /\ n_pointers \in Nat /\ (n_pointers > 0 => n_pointers >= 2)
         /\ text \in Seq(Chars) /\ Len(text) \in Nat
         /\ pos \in Nat /\ pos <= Len(text)
<1>1. regex \in Regexes /\ text \in Texts /\ n_pointers \in NPointers(regex) /\ pos \in 0 .. Len(text)
  BY DEF Types, TypeOK
<1>2. regex.groups \in Nat \ {0} /\ regex.flags \in Nat /\ WellFormed(regex) /\ text \in Seq(Chars)
  BY <1>1, RegexAssumption
<1>3. n_pointers \in Nat /\ (n_pointers > 0 => n_pointers >= 2)
  BY <1>1, <1>2 DEF NPointers
<1>4. BeginsOnce(Code)
  BY <1>1, BeginsAssumption DEF Code
<1>5. Len(text) \in Nat
  BY <1>2
<1> QED BY <1>1, <1>2, <1>3, <1>4, <1>5

\* Starts are numbers; a thread that has begun starts where its first pointer
\* says.
LEMMA StartFacts ==
  ASSUME Types, n_pointers > 0
  PROVE  /\ \A p \in Pointers(n_pointers, Len(text)) :
              /\ p[0] \in {Null} \cup 0 .. Len(text)
              /\ StartOf(p) \in Nat /\ StartOf(p) <= Len(text) + 1
         /\ \A t \in Threads : t.ptrs \in Pointers(n_pointers, Len(text))
         /\ \A t \in Threads : Start(t) \in Nat
         /\ \A t \in Threads : HasBegun(t) => Start(t) = t.ptrs[0] /\ Start(t) <= pos
<1>1. n_pointers \in Nat /\ 0 \in 0 .. n_pointers - 1 /\ Len(text) \in Nat
  BY RegexFacts
<1>2. ASSUME NEW p \in Pointers(n_pointers, Len(text))
      PROVE  /\ p[0] \in {Null} \cup 0 .. Len(text)
             /\ StartOf(p) \in Nat /\ StartOf(p) <= Len(text) + 1
  <2>1. p[0] \in {Null} \cup 0 .. Len(text)
    BY <1>1 DEF Pointers
  <2> QED BY <1>1, <2>1 DEF StartOf, Null
<1>3. \A t \in Threads : t.ptrs \in Pointers(n_pointers, Len(text))
  BY DEF Threads
<1> QED BY <1>2, <1>3 DEF Start, HasBegun, StartOf

\* The running thread, and where it may go on.
LEMMA RunningFacts ==
  ASSUME Types, Running
  PROVE  /\ todo \in Seq(Threads) /\ todo # <<>> /\ status = "threads"
         /\ Thread = todo[1] /\ Thread \in Threads
         /\ Thread.ip \in Labels(Code) /\ Thread.ptrs \in Pointers(n_pointers, Len(text))
         /\ ~AtEnd => /\ Thread.ip \in Starts(Code) /\ Thread.ip \in Nat
                      /\ Instr \in Cells
                      /\ After(Code, Thread.ip) \in Labels(Code)
                      /\ After(Code, Thread.ip) # 0
                      /\ Continues \in Threads /\ Continues.ip # 0
                      /\ Continues.ptrs = Thread.ptrs
                      /\ (Instr.op = "WRITE_POINTER" /\ Instr.operand = 0 <=> Thread.ip = 0)
<1>1. todo \in Seq(Threads) /\ todo # <<>> /\ status = "threads"
  BY DEF Types, TypeOK, Running
<1>2. Thread = todo[1] /\ Thread \in Threads
  BY <1>1, HeadAndTail DEF Thread
<1>3. Thread.ip \in Labels(Code) /\ Thread.ptrs \in Pointers(n_pointers, Len(text))
  BY <1>2 DEF Threads
<1>4. ASSUME ~AtEnd
      PROVE  /\ Thread.ip \in Starts(Code) /\ Thread.ip \in Nat
             /\ Instr \in Cells
             /\ After(Code, Thread.ip) \in Labels(Code)
             /\ After(Code, Thread.ip) # 0
             /\ Continues \in Threads /\ Continues.ip # 0
             /\ Continues.ptrs = Thread.ptrs
             /\ (Instr.op = "WRITE_POINTER" /\ Instr.operand = 0 <=> Thread.ip = 0)
  <2>1. WellFormed(regex) /\ BeginsOnce(Code) /\ Code \in Seq(Cells)
    BY RegexFacts DEF WellFormed, Code
  <2>2. Thread.ip \in Starts(Code) /\ Thread.ip \in 0 .. Len(Code) - 1
    BY <1>3, <1>4 DEF Labels, Starts, AtEnd
  <2>3. Instr \in Cells
    BY <2>1, <2>2 DEF Instr
  <2>4. /\ After(Code, Thread.ip) \in Labels(Code)
        /\ Continuation(Code, Thread.ip) \in Labels(Code)
    BY <2>1, <2>2 DEF WellFormed, Code
  <2>5. /\ Continuation(Code, Thread.ip) # 0
        /\ (Instr.op = "WRITE_POINTER" /\ Instr.operand = 0 <=> Thread.ip = 0)
    BY <2>1, <2>2 DEF BeginsOnce, Instr
  <2>6. After(Code, Thread.ip) # 0
    BY <2>2, <2>3 DEF After, Instr, Cells
  <2>7. /\ Continues = [ip |-> Continuation(Code, Thread.ip), ptrs |-> Thread.ptrs]
        /\ Continues \in Threads
    BY <1>3, <2>4 DEF Continues, GoesOn, Threads
  <2> QED BY <2>2, <2>3, <2>4, <2>5, <2>6, <2>7
<1> QED BY <1>1, <1>2, <1>3, <1>4

\* A thread that was just spawned can only write where it begins.
LEMMA SpawnedWrites ==
  ASSUME IInv, Running, n_pointers > 0
  PROVE  /\ Thread.ip # 0 => \A k \in DOMAIN todo : HasBegun(todo[k])
         /\ Thread.ip = 0 => JustSpawned /\ ~AtEnd /\ Instr.op = "WRITE_POINTER" /\ Instr.operand = 0
<1>1. Types /\ Begun /\ Thread = todo[1] /\ 1 \in DOMAIN todo
  BY RunningFacts, HeadAndTail DEF IInv
<1>2. JustSpawned \/ \A k \in DOMAIN todo : HasBegun(todo[k])
  BY <1>1 DEF Begun
<1>3. JustSpawned => Thread.ip = 0
  BY <1>1 DEF JustSpawned
<1>4. (\A k \in DOMAIN todo : HasBegun(todo[k])) => Thread.ip # 0
  BY <1>1 DEF HasBegun
<1>5. ASSUME Thread.ip = 0
      PROVE  ~AtEnd /\ Instr.op = "WRITE_POINTER" /\ Instr.operand = 0
  <2>1. BeginsOnce(Code) /\ Code \in Seq(Cells)
    BY <1>1, RegexFacts DEF WellFormed, Code
  <2>2. 0 \in Starts(Code) /\ 0 # Len(Code)
    BY <2>1 DEF BeginsOnce, Starts
  <2> QED BY <2>1, <2>2, <1>5 DEF BeginsOnce, AtEnd, Instr
<1> QED BY <1>2, <1>3, <1>4, <1>5

-----------------------------------------------------------------------------
(* The steps                                                               *)

\* A step of the running thread that matches nothing and spawns no thread keeps
\* the types if it keeps those of the lists and of the flags.
LEMMA StepTypes ==
  ASSUME Types, Running, UNCHANGED stepFrame,
         kept' \in Seq(Threads), todo' \in Seq(Threads), flags' \subseteq 0 .. regex.flags - 1
  PROVE  Types' /\ Threads' = Threads
  BY DEF Types, TypeOK, stepFrame, args, Threads, Code

\* Where each thread that is left to run begins where one did before, in the
\* same order, the threads stay sorted.
LEMMA SameStarts ==
  ASSUME Types, Sorted, Better,
         n_pointers' = n_pointers, text' = text, matched' = matched, kept' = kept,
         NEW f \in [DOMAIN todo' -> DOMAIN todo],
         \A j, k \in DOMAIN todo' : j < k => f[j] <= f[k],
         DOMAIN todo \subseteq Nat,
         \A k \in DOMAIN todo' : todo'[k].ptrs[0] = todo[f[k]].ptrs[0]
  PROVE  Sorted' /\ Better'
<1>1. \A t : Start(t)' = Start(t)
  BY DEF Start, StartOf
<1>2. \A k \in DOMAIN todo' : Start(todo'[k]) = Start(todo[f[k]])
  BY DEF Start, StartOf
<1>3. ASSUME n_pointers > 0 PROVE \A k \in DOMAIN todo : Start(todo[k]) \in Nat
  <2>1. \A k \in DOMAIN todo : todo[k] \in Threads
    BY DEF Types, TypeOK
  <2> QED BY <2>1, <1>3, StartFacts
<1>4. Sorted'
  <2> SUFFICES ASSUME n_pointers > 0
               PROVE  /\ \A j, k \in DOMAIN kept : j < k => Start(kept[j]) <= Start(kept[k])
                      /\ \A j \in DOMAIN kept, k \in DOMAIN todo' : Start(kept[j]) <= Start(todo'[k])
                      /\ \A j, k \in DOMAIN todo' : j < k => Start(todo'[j]) <= Start(todo'[k])
    BY <1>1 DEF Sorted
  <2>1. \A j, k \in DOMAIN kept : j < k => Start(kept[j]) <= Start(kept[k])
    BY DEF Sorted
  <2>2. \A j \in DOMAIN kept, k \in DOMAIN todo' : Start(kept[j]) <= Start(todo'[k])
    BY <1>2 DEF Sorted
  <2>3. ASSUME NEW j \in DOMAIN todo', NEW k \in DOMAIN todo', j < k
        PROVE  Start(todo'[j]) <= Start(todo'[k])
    <3>1. f[j] <= f[k] /\ f[j] \in DOMAIN todo /\ f[k] \in DOMAIN todo /\ f[j] \in Nat /\ f[k] \in Nat
      BY <2>3
    <3>2. CASE f[j] = f[k]
      BY <3>1, <3>2, <1>2, <1>3
    <3>3. CASE f[j] < f[k]
      BY <3>1, <3>3, <1>2 DEF Sorted
    <3> QED BY <3>1, <3>2, <3>3
  <2> QED BY <2>1, <2>2, <2>3
<1>5. Better'
  <2> SUFFICES ASSUME n_pointers > 0, matched # <<>>
               PROVE  /\ \A k \in DOMAIN kept : Start(kept[k]) <= StartOf(matched[1])
                      /\ \A k \in DOMAIN todo' : Start(todo'[k]) <= StartOf(matched[1])
    BY <1>1 DEF Better, StartOf
  <2> QED BY <1>2 DEF Better
<1> QED BY <1>4, <1>5

\* The running thread dies.
LEMMA RejectInv == IInv /\ Reject => IInv'
<1> SUFFICES ASSUME IInv, Reject PROVE IInv'
  OBVIOUS
<1>1. /\ Running /\ ~AtEnd /\ todo' = Tail(todo) /\ kept' = kept /\ flags' = flags
      /\ UNCHANGED stepFrame
  BY DEF Reject
<1>2. Types /\ todo \in Seq(Threads) /\ todo # <<>> /\ status = "threads"
  BY <1>1, RunningFacts DEF IInv
<1>3. /\ Len(todo) \in Nat /\ DOMAIN todo = 1 .. Len(todo)
      /\ Tail(todo) \in Seq(Threads) /\ DOMAIN Tail(todo) = 1 .. Len(todo) - 1
      /\ \A k \in 1 .. Len(todo) - 1 : Tail(todo)[k] = todo[k + 1]
  BY <1>2, HeadAndTail
<1>4. Types' /\ Threads' = Threads
  BY <1>1, <1>2, <1>3, StepTypes DEF Types, TypeOK
<1>5. /\ n_pointers' = n_pointers /\ pos' = pos /\ status' = status /\ matched' = matched
      /\ text' = text
  BY <1>1 DEF stepFrame, args
<1>6. Phase'
  BY <1>2, <1>5 DEF Phase
<1>7. ASSUME n_pointers > 0 PROVE \A k \in DOMAIN todo : HasBegun(todo[k])
  BY <1>1, <1>7, SpawnedWrites DEF Reject, Dies, ConsumeOps, AnchorOps, FlagTaken
<1>8. Begun'
  BY <1>1, <1>3, <1>5, <1>7 DEF IInv, Begun, HasBegun
<1>9. Sorted' /\ Better'
  <2> DEFINE f == [k \in DOMAIN todo' |-> k + 1]
  <2>1. f \in [DOMAIN todo' -> DOMAIN todo] /\ \A j, k \in DOMAIN todo' : j < k => f[j] <= f[k]
    BY <1>1, <1>3
  <2>2. \A k \in DOMAIN todo' : todo'[k].ptrs[0] = todo[f[k]].ptrs[0]
    BY <1>1, <1>3
  <2> HIDE DEF f
  <2> QED BY <1>1, <1>3, <1>5, <2>1, <2>2, SameStarts DEF IInv
<1> QED BY <1>4, <1>6, <1>8, <1>9 DEF IInv

\* The running thread goes on elsewhere and has begun where it had.
LEMMA HeadGoesOn ==
  ASSUME IInv, Running, NEW t \in Threads, todo' = <<t>> \o Tail(todo), kept' = kept,
         UNCHANGED stepFrame, flags' \subseteq 0 .. regex.flags - 1,
         n_pointers > 0 => /\ \A k \in DOMAIN todo : HasBegun(todo[k])
                           /\ t.ip # 0 /\ t.ptrs[0] = Thread.ptrs[0]
  PROVE  IInv'
<1>1. Types /\ todo \in Seq(Threads) /\ todo # <<>> /\ status = "threads" /\ Thread = todo[1]
  BY RunningFacts DEF IInv
<1>2. /\ Len(todo) \in Nat /\ Len(todo) >= 1 /\ DOMAIN todo = 1 .. Len(todo)
      /\ todo' \in Seq(Threads) /\ DOMAIN todo' = 1 .. Len(todo)
      /\ todo'[1] = t /\ \A k \in 2 .. Len(todo) : todo'[k] = todo[k]
  BY <1>1, HeadAndTail, HeadReplaced
<1>3. Types' /\ Threads' = Threads
  BY <1>1, <1>2, StepTypes DEF Types, TypeOK
<1>4. /\ n_pointers' = n_pointers /\ pos' = pos /\ status' = status /\ matched' = matched
      /\ text' = text
  BY DEF stepFrame, args
<1>5. Phase'
  BY <1>1, <1>4 DEF Phase
<1>6. Begun'
  <2> SUFFICES ASSUME n_pointers > 0
               PROVE  /\ \A k \in DOMAIN kept : HasBegun(kept[k])
                      /\ \A k \in DOMAIN todo' : HasBegun(todo'[k])
    BY <1>4 DEF Begun, HasBegun
  <2>1. \A k \in DOMAIN kept : HasBegun(kept[k])
    BY DEF IInv, Begun
  <2>2. HasBegun(todo[1]) /\ HasBegun(t)
    BY <1>1, <1>2 DEF HasBegun
  <2> QED BY <1>2, <2>1, <2>2
<1>7. ASSUME n_pointers > 0 PROVE Sorted' /\ Better'
  <2> DEFINE f == [k \in DOMAIN todo' |-> k]
  <2>1. f \in [DOMAIN todo' -> DOMAIN todo] /\ \A j, k \in DOMAIN todo' : j < k => f[j] <= f[k]
    BY <1>2
  <2>2. \A k \in DOMAIN todo' : todo'[k].ptrs[0] = todo[f[k]].ptrs[0]
    BY <1>1, <1>2, <1>7
  <2>3. Types /\ Sorted /\ Better /\ DOMAIN todo \subseteq Nat
    BY <1>2 DEF IInv
  <2> HIDE DEF f
  <2> QED BY <1>4, <2>1, <2>2, <2>3, SameStarts
<1>8. Sorted' /\ Better'
  BY <1>4, <1>7 DEF Sorted, Better
<1> QED BY <1>3, <1>5, <1>6, <1>8 DEF IInv

\* An anchor holds, or a jump.
LEMMA AdvanceInv == IInv /\ Advance => IInv'
<1> SUFFICES ASSUME IInv, Advance PROVE IInv'
  OBVIOUS
<1>1. /\ Running /\ ~AtEnd /\ Instr.op # "WRITE_POINTER"
      /\ todo' = <<Continues>> \o Tail(todo) /\ kept' = kept /\ flags' = flags
      /\ UNCHANGED stepFrame
  BY DEF Advance, AnchorOps
<1>2. Types /\ Continues \in Threads /\ Continues.ip # 0 /\ Continues.ptrs = Thread.ptrs
  BY <1>1, RunningFacts DEF IInv
<1>3. n_pointers > 0 => \A k \in DOMAIN todo : HasBegun(todo[k])
  BY <1>1, SpawnedWrites
<1>4. flags' \subseteq 0 .. regex.flags - 1
  BY <1>1, <1>2 DEF Types, TypeOK
<1> QED BY <1>1, <1>2, <1>3, <1>4, HeadGoesOn

\* The first thread at a flag sets it and goes on.
LEMMA TestAndSetFlagInv == IInv /\ TestAndSetFlag => IInv'
<1> SUFFICES ASSUME IInv, TestAndSetFlag PROVE IInv'
  OBVIOUS
<1>1. /\ Running /\ ~AtEnd /\ Instr.op = "TEST_AND_SET_FLAG"
      /\ todo' = <<Continues>> \o Tail(todo) /\ kept' = kept
      /\ flags' = flags \cup {Instr.operand}
      /\ UNCHANGED stepFrame
  BY DEF TestAndSetFlag
<1>2. /\ Types /\ Continues \in Threads /\ Continues.ip # 0 /\ Continues.ptrs = Thread.ptrs
      /\ Thread.ip \in Starts(Code) /\ Instr \in Cells
  BY <1>1, RunningFacts DEF IInv
<1>3. n_pointers > 0 => \A k \in DOMAIN todo : HasBegun(todo[k])
  BY <1>1, SpawnedWrites
<1>4. flags' \subseteq 0 .. regex.flags - 1
  <2>1. WellFormed(regex) /\ regex.flags \in Nat
    BY <1>2, RegexFacts
  <2>2. Instr.operand < regex.flags
    BY <1>1, <1>2, <2>1 DEF WellFormed, Instr, Code
  <2>3. Instr.operand \in Nat
    BY <1>2 DEF Cells
  <2>4. flags \subseteq 0 .. regex.flags - 1
    BY <1>2 DEF Types, TypeOK
  <2>5. Instr.operand \in 0 .. regex.flags - 1
    BY <2>1, <2>2, <2>3
  <2> QED BY <1>1, <2>4, <2>5
<1> QED BY <1>1, <1>2, <1>3, <1>4, HeadGoesOn

\* A thread takes the character and waits behind those that did so before.
LEMMA ConsumeInv == IInv /\ Consume => IInv'
<1> SUFFICES ASSUME IInv, Consume PROVE IInv'
  OBVIOUS
<1>1. /\ Running /\ ~AtEnd /\ Instr.op # "WRITE_POINTER"
      /\ kept' = Append(kept, Continues) /\ todo' = Tail(todo) /\ flags' = flags
      /\ UNCHANGED stepFrame
  BY DEF Consume, ConsumeOps
<1>2. /\ Types /\ Continues \in Threads /\ Continues.ip # 0 /\ Continues.ptrs = Thread.ptrs
      /\ todo \in Seq(Threads) /\ todo # <<>> /\ status = "threads" /\ Thread = todo[1]
  BY <1>1, RunningFacts DEF IInv
<1>3. /\ Len(todo) \in Nat /\ Len(todo) >= 1 /\ DOMAIN todo = 1 .. Len(todo)
      /\ todo' \in Seq(Threads) /\ DOMAIN todo' = 1 .. Len(todo) - 1
      /\ \A k \in 1 .. Len(todo) - 1 : todo'[k] = todo[k + 1]
  BY <1>1, <1>2, HeadAndTail
<1>4. kept \in Seq(Threads)
  BY <1>2 DEF Types, TypeOK
<1>5. /\ Len(kept) \in Nat /\ DOMAIN kept = 1 .. Len(kept)
      /\ kept' \in Seq(Threads) /\ DOMAIN kept' = 1 .. Len(kept) + 1
      /\ kept'[Len(kept) + 1] = Continues /\ \A k \in 1 .. Len(kept) : kept'[k] = kept[k]
  BY <1>1, <1>2, <1>4, Appended
<1>6. Types' /\ Threads' = Threads
  BY <1>1, <1>2, <1>3, <1>5, StepTypes DEF Types, TypeOK
<1>7. /\ n_pointers' = n_pointers /\ pos' = pos /\ status' = status /\ matched' = matched
      /\ text' = text
  BY <1>1 DEF stepFrame, args
<1>8. Phase'
  BY <1>2, <1>7 DEF Phase
<1>9. ASSUME n_pointers > 0 PROVE Begun' /\ Sorted' /\ Better'
  <2>1. \A k \in DOMAIN todo : HasBegun(todo[k])
    BY <1>1, <1>9, SpawnedWrites
  <2>2. /\ \A t : HasBegun(t)' = HasBegun(t) /\ Start(t)' = Start(t)
        /\ HasBegun(Continues) /\ Start(Continues) = Start(todo[1])
    BY <1>2, <1>3, <1>7, <2>1 DEF HasBegun, Start, StartOf
  <2>3. Begun'
    <3>1. \A k \in DOMAIN kept' : HasBegun(kept'[k])
      BY <1>5, <1>9, <2>2 DEF IInv, Begun
    <3>2. \A k \in DOMAIN todo' : HasBegun(todo'[k])
      BY <1>3, <2>1
    <3> QED BY <2>2, <3>1, <3>2 DEF Begun
  <2>4. Sorted'
    <3>1. \A j, k \in DOMAIN kept' : j < k => Start(kept'[j]) <= Start(kept'[k])
      BY <1>3, <1>5, <1>9, <2>2 DEF IInv, Sorted
    <3>2. \A j \in DOMAIN kept', k \in DOMAIN todo' : Start(kept'[j]) <= Start(todo'[k])
      BY SMTT(40), <1>3, <1>5, <1>9, <2>2 DEF IInv, Sorted
    <3>3. \A j, k \in DOMAIN todo' : j < k => Start(todo'[j]) <= Start(todo'[k])
      BY SMTT(40), <1>3, <1>9 DEF IInv, Sorted
    <3> QED BY <2>2, <3>1, <3>2, <3>3 DEF Sorted
  <2>5. Better'
    <3>1. StartOf(matched[1])' = StartOf(matched[1])
      BY <1>7 DEF StartOf
    <3>2. ASSUME matched # <<>>
          PROVE  /\ \A k \in DOMAIN kept' : Start(kept'[k]) <= StartOf(matched[1])
                 /\ \A k \in DOMAIN todo' : Start(todo'[k]) <= StartOf(matched[1])
      <4>1. /\ \A k \in DOMAIN kept : Start(kept[k]) <= StartOf(matched[1])
            /\ \A k \in DOMAIN todo : Start(todo[k]) <= StartOf(matched[1])
        BY <1>9, <3>2 DEF IInv, Better
      <4>2. Start(Continues) <= StartOf(matched[1])
        BY <1>3, <2>2, <4>1
      <4>3. ASSUME NEW k \in DOMAIN kept' PROVE Start(kept'[k]) <= StartOf(matched[1])
        <5>1. CASE k = Len(kept) + 1
          BY <1>5, <4>2, <5>1
        <5>2. CASE k \in DOMAIN kept
          BY <1>5, <4>1, <5>2
        <5> QED BY <1>5, <5>1, <5>2
      <4>4. \A k \in DOMAIN todo' : Start(todo'[k]) <= StartOf(matched[1])
        BY <1>3, <4>1
      <4> QED BY <4>3, <4>4
    <3> QED BY <1>7, <2>2, <3>1, <3>2 DEF Better
  <2> QED BY <2>3, <2>4, <2>5
<1>10. Begun' /\ Sorted' /\ Better'
  BY <1>7, <1>9 DEF Begun, Sorted, Better
<1> QED BY <1>6, <1>8, <1>10 DEF IInv

\* A thread makes another one, that comes directly behind it.
LEMMA SplitInv == IInv /\ Split => IInv'
<1> SUFFICES ASSUME IInv, Split PROVE IInv'
  OBVIOUS
<1> DEFINE u == GoesOn(SplitPointer(Code, Thread.ip), Thread.ptrs)
<1>1. /\ Running /\ ~AtEnd /\ Instr.op \in SplitOps
      /\ todo' = <<Continues, u>> \o Tail(todo) /\ kept' = kept /\ flags' = flags
      /\ UNCHANGED stepFrame
  BY DEF Split
<1>2. /\ Types /\ Continues \in Threads /\ Continues.ip # 0 /\ Continues.ptrs = Thread.ptrs
      /\ todo \in Seq(Threads) /\ todo # <<>> /\ status = "threads" /\ Thread = todo[1]
      /\ Thread.ip \in Starts(Code) /\ Thread.ptrs \in Pointers(n_pointers, Len(text))
  BY <1>1, RunningFacts DEF IInv
<1>3. u \in Threads /\ u.ip # 0 /\ u.ptrs = Thread.ptrs
  <2>1. WellFormed(regex) /\ BeginsOnce(Code)
    BY <1>2, RegexFacts
  <2>2. SplitPointer(Code, Thread.ip) \in Labels(Code) /\ SplitPointer(Code, Thread.ip) # 0
    BY <1>1, <1>2, <2>1 DEF WellFormed, BeginsOnce, Instr, Code
  <2> QED BY <1>2, <2>2 DEF GoesOn, Threads
<1> HIDE DEF u
<1>4. /\ Len(todo) \in Nat /\ Len(todo) >= 1 /\ DOMAIN todo = 1 .. Len(todo)
      /\ todo' \in Seq(Threads) /\ DOMAIN todo' = 1 .. Len(todo) + 1
      /\ todo'[1] = Continues /\ todo'[2] = u
      /\ \A k \in 3 .. Len(todo) + 1 : todo'[k] = todo[k - 1]
  BY <1>1, <1>2, <1>3, HeadAndTail, HeadSplit
<1>5. Types' /\ Threads' = Threads
  BY <1>1, <1>2, <1>4, StepTypes DEF Types, TypeOK
<1>6. /\ n_pointers' = n_pointers /\ pos' = pos /\ status' = status /\ matched' = matched
      /\ text' = text
  BY <1>1 DEF stepFrame, args
<1>7. Phase'
  BY <1>2, <1>6 DEF Phase
<1>8. Begun'
  <2> SUFFICES ASSUME n_pointers > 0
               PROVE  /\ \A k \in DOMAIN kept : HasBegun(kept[k])
                      /\ \A k \in DOMAIN todo' : HasBegun(todo'[k])
    BY <1>1, <1>6 DEF Begun, HasBegun
  <2>1. \A k \in DOMAIN kept : HasBegun(kept[k])
    BY DEF IInv, Begun
  <2>2. \A k \in DOMAIN todo : HasBegun(todo[k])
    BY <1>1, SpawnedWrites DEF SplitOps
  <2>3. HasBegun(Continues) /\ HasBegun(u)
    BY <1>2, <1>3, <1>4, <2>2 DEF HasBegun
  <2>4. ASSUME NEW k \in DOMAIN todo' PROVE HasBegun(todo'[k])
    <3>1. CASE k \in {1, 2}
      BY <1>4, <2>3, <3>1
    <3>2. CASE k \in 3 .. Len(todo) + 1
      BY <1>4, <2>2, <3>2
    <3> QED BY <1>4, <3>1, <3>2
  <2> QED BY <2>1, <2>4
<1>9. Sorted' /\ Better'
  <2> DEFINE f == [k \in DOMAIN todo' |-> IF k = 1 THEN 1 ELSE k - 1]
  <2>1. f \in [DOMAIN todo' -> DOMAIN todo] /\ \A j, k \in DOMAIN todo' : j < k => f[j] <= f[k]
    BY <1>4
  <2>2. ASSUME NEW k \in DOMAIN todo' PROVE todo'[k].ptrs[0] = todo[f[k]].ptrs[0]
    <3>1. CASE k \in {1, 2}
      BY <1>2, <1>3, <1>4, <3>1
    <3>2. CASE k \in 3 .. Len(todo) + 1
      BY <1>4, <3>2
    <3> QED BY <1>4, <3>1, <3>2
  <2>3. Types /\ Sorted /\ Better /\ DOMAIN todo \subseteq Nat
    BY <1>4 DEF IInv
  <2> HIDE DEF f
  <2> QED BY <1>1, <1>6, <2>1, <2>2, <2>3, SameStarts
<1> QED BY <1>5, <1>7, <1>8, <1>9 DEF IInv

\* A thread that was spawned writes where it begins; others have begun, and keep
\* their beginning.
LEMMA WritePointerInv == IInv /\ WritePointer => IInv'
<1> SUFFICES ASSUME IInv, WritePointer PROVE IInv'
  OBVIOUS
<1> DEFINE p == IF Instr.operand < n_pointers
                THEN [Thread.ptrs EXCEPT ![Instr.operand] = pos]
                ELSE Thread.ptrs
           t == GoesOn(After(Code, Thread.ip), p)
<1>1. /\ Running /\ ~AtEnd /\ Instr.op = "WRITE_POINTER"
      /\ todo' = <<t>> \o Tail(todo) /\ kept' = kept /\ flags' = flags
      /\ UNCHANGED stepFrame
  BY DEF WritePointer
<1>2. /\ Types /\ Instr \in Cells
      /\ After(Code, Thread.ip) \in Labels(Code) /\ After(Code, Thread.ip) # 0
      /\ (Instr.operand = 0 <=> Thread.ip = 0)
      /\ todo \in Seq(Threads) /\ todo # <<>> /\ status = "threads" /\ Thread = todo[1]
      /\ Thread.ptrs \in Pointers(n_pointers, Len(text))
  BY <1>1, RunningFacts DEF IInv
<1>3. n_pointers \in Nat /\ pos \in Nat /\ pos <= Len(text) /\ Instr.operand \in Nat
  BY <1>2, RegexFacts DEF Cells
<1>4. p \in Pointers(n_pointers, Len(text)) /\ t \in Threads
  <2>1. p \in Pointers(n_pointers, Len(text))
    BY <1>2, <1>3 DEF Pointers
  <2> HIDE DEF p
  <2> QED BY <1>2, <2>1 DEF GoesOn, Threads
<1>5. t.ip # 0 /\ t.ptrs = p
  BY <1>2 DEF GoesOn
<1>6. flags' \subseteq 0 .. regex.flags - 1
  BY <1>1, <1>2 DEF Types, TypeOK
<1>7. CASE n_pointers = 0 \/ Thread.ip # 0
  <2>1. n_pointers > 0 => p[0] = Thread.ptrs[0]
    BY <1>2, <1>3, <1>7 DEF Pointers
  <2>2. n_pointers > 0 => \A k \in DOMAIN todo : HasBegun(todo[k])
    BY <1>1, <1>7, SpawnedWrites
  <2> HIDE DEF p, t
  <2> QED BY <1>1, <1>3, <1>4, <1>5, <1>6, <2>1, <2>2, HeadGoesOn
<1>8. CASE n_pointers > 0 /\ Thread.ip = 0
  <2>1. JustSpawned /\ p[0] = pos
    BY <1>1, <1>2, <1>3, <1>8, SpawnedWrites DEF Pointers
  <2> HIDE DEF p, t
  <2>2. Tail(todo) = <<>> /\ matched = <<>> /\ todo' = <<t>>
    BY <1>1, <1>4, <2>1 DEF JustSpawned
  <2>3. /\ todo' \in Seq(Threads) /\ DOMAIN todo' = {1} /\ todo'[1] = t
        /\ kept' \in Seq(Threads)
    BY <1>1, <1>2, <1>4, <2>2 DEF Types, TypeOK
  <2>4. Types' /\ Threads' = Threads
    BY <1>1, <1>2, <1>6, <2>3, StepTypes
  <2>5. /\ n_pointers' = n_pointers /\ pos' = pos /\ status' = status /\ matched' = matched
        /\ text' = text
    BY <1>1 DEF stepFrame, args
  <2>6. Phase'
    BY <1>2, <2>5 DEF Phase
  <2>7. \A x : HasBegun(x)' = HasBegun(x) /\ Start(x)' = Start(x)
    BY <2>5 DEF HasBegun, Start, StartOf
  <2>8. HasBegun(t) /\ Start(t) = pos
    BY <1>3, <1>5, <2>1 DEF HasBegun, Start, StartOf, Null
  <2>9. \A k \in DOMAIN kept : HasBegun(kept[k]) /\ Start(kept[k]) <= pos
    <3>1. \A k \in DOMAIN kept : HasBegun(kept[k]) /\ kept[k] \in Threads
      BY <1>2, <1>8 DEF IInv, Begun, Types, TypeOK
    <3> QED BY <1>2, <1>8, <3>1, StartFacts
  <2>10. Begun'
    BY <1>1, <2>3, <2>7, <2>8, <2>9 DEF Begun
  <2>11. Sorted'
    <3>1. \A j, k \in DOMAIN kept : j < k => Start(kept[j]) <= Start(kept[k])
      BY <1>8 DEF IInv, Sorted
    <3>2. \A j \in DOMAIN kept, k \in DOMAIN todo' : Start(kept[j]) <= Start(todo'[k])
      BY <2>3, <2>8, <2>9
    <3>3. \A j, k \in DOMAIN todo' : ~(j < k)
      BY <2>3
    <3> QED BY <1>1, <2>7, <3>1, <3>2, <3>3 DEF Sorted
  <2>12. Better'
    BY <2>2, <2>5 DEF Better
  <2> QED BY <2>4, <2>6, <2>10, <2>11, <2>12 DEF IInv
<1> QED BY <1>3, <1>7, <1>8

\* A thread at the end of the code: those behind it are dropped, those before it
\* began no later.
LEMMA MatchInv == IInv /\ Match => IInv'
<1> SUFFICES ASSUME IInv, Match PROVE IInv'
  OBVIOUS
<1>1. /\ Running /\ AtEnd /\ matched' = <<Thread.ptrs>> /\ todo' = <<>>
      /\ UNCHANGED <<args, pos, result>>
      /\ \/ n_pointers = 0 /\ status' = "finish" /\ kept' = <<>> /\ flags' = {} /\ spawned' = FALSE
         \/ n_pointers # 0 /\ UNCHANGED <<status, kept, flags, spawned>>
  BY DEF Match
<1>2. /\ Types /\ todo \in Seq(Threads) /\ todo # <<>> /\ status = "threads" /\ Thread = todo[1]
      /\ Thread \in Threads /\ Thread.ptrs \in Pointers(n_pointers, Len(text))
  BY <1>1, RunningFacts DEF IInv
<1>3. /\ n_pointers' = n_pointers /\ pos' = pos /\ text' = text /\ regex' = regex
      /\ result' = result
  BY <1>1 DEF args
<1>4. Types'
  <2>1. /\ matched' \in Seq(Pointers(n_pointers, Len(text))) /\ Len(matched') <= 1
    BY <1>1, <1>2
  <2>2. kept' \in Seq(Threads) /\ todo' \in Seq(Threads) /\ Threads' = Threads
    <3>1. Threads' = Threads
      BY <1>3 DEF Threads, Code
    <3>2. kept \in Seq(Threads) /\ (kept' = kept \/ kept' = <<>>)
      BY <1>1, <1>2 DEF Types, TypeOK
    <3>3. <<>> \in Seq(Threads)
      OBVIOUS
    <3> QED BY <1>1, <3>1, <3>2, <3>3
  <2>3. status' \in {"threads", "finish"} /\ flags' \subseteq 0 .. regex.flags - 1 /\ spawned' \in BOOLEAN
    BY <1>1, <1>2 DEF Types, TypeOK
  <2> QED BY <1>2, <1>3, <2>1, <2>2, <2>3 DEF Types, TypeOK
<1>5. Phase'
  BY <1>1, <1>2 DEF Phase
<1>6. CASE n_pointers = 0
  BY <1>3, <1>4, <1>5, <1>6 DEF IInv, Begun, Sorted, Better
<1>7. CASE n_pointers # 0
  <2>1. n_pointers > 0 /\ kept' = kept /\ status' = status
    BY <1>1, <1>2, <1>7, RegexFacts
  <2>2. \A x : HasBegun(x)' = HasBegun(x) /\ Start(x)' = Start(x)
    BY <1>3 DEF HasBegun, Start, StartOf
  <2>3. DOMAIN todo' = {} /\ matched'[1] = Thread.ptrs /\ 1 \in DOMAIN todo
    BY <1>1, <1>2, HeadAndTail
  <2>4. Begun'
    BY <2>1, <2>2, <2>3 DEF IInv, Begun
  <2>5. Sorted'
    BY <2>1, <2>2, <2>3 DEF IInv, Sorted
  <2>6. Better'
    <3>1. \A k \in DOMAIN kept : Start(kept[k]) <= Start(Thread)
      BY <1>2, <2>1, <2>3 DEF IInv, Sorted
    <3>2. StartOf(matched[1])' = Start(Thread)
      BY <1>3, <2>3 DEF StartOf, Start
    <3> QED BY <2>1, <2>2, <2>3, <3>1, <3>2 DEF Better
  <2> QED BY <1>4, <1>5, <2>4, <2>5, <2>6 DEF IInv
<1> QED BY <1>6, <1>7

\* A thread is spawned where there is none and nothing has matched.
LEMMA SpawnInv == IInv /\ Spawn => IInv'
<1> SUFFICES ASSUME IInv, Spawn PROVE IInv'
  OBVIOUS
<1> DEFINE t == [ip |-> 0, ptrs |-> NullPointers(n_pointers)]
<1>1. /\ status = "threads" /\ todo = <<>> /\ matched = <<>> /\ todo' = <<t>> /\ spawned' = TRUE
      /\ UNCHANGED <<args, status, pos, kept, flags, matched, result>>
  BY DEF Spawn
<1>2. Types /\ n_pointers \in Nat /\ BeginsOnce(Code)
  BY RegexFacts DEF IInv
<1>3. /\ n_pointers' = n_pointers /\ pos' = pos /\ text' = text /\ regex' = regex
      /\ kept' = kept /\ matched' = matched /\ status' = status
  BY <1>1 DEF args
<1>4. t \in Threads
  BY <1>2 DEF Threads, NullPointers, Pointers, BeginsOnce, Labels
<1>5. Types'
  <2>1. Threads' = Threads
    BY <1>3 DEF Threads, Code
  <2>2. todo' \in Seq(Threads)
    BY <1>1, <1>4
  <2> QED BY <1>1, <1>2, <1>3, <2>1, <2>2 DEF Types, TypeOK
<1>6. Phase'
  BY <1>1 DEF Phase
<1>7. JustSpawned'
  BY <1>1, <1>3 DEF JustSpawned, NullPointers
<1>8. ASSUME n_pointers > 0 PROVE Begun' /\ Sorted'
  <2>1. \A x : HasBegun(x)' = HasBegun(x) /\ Start(x)' = Start(x)
    BY <1>3 DEF HasBegun, Start, StartOf
  <2>2. Begun'
    BY <1>3, <1>7, <1>8, <2>1 DEF IInv, Begun
  <2>3. Start(t) = Len(text) + 1
    BY <1>2, <1>8 DEF Start, StartOf, NullPointers
  <2>4. \A k \in DOMAIN kept : Start(kept[k]) <= Len(text) + 1
    <3>1. \A k \in DOMAIN kept : kept[k] \in Threads
      BY <1>2 DEF Types, TypeOK
    <3> QED BY <1>2, <1>8, <3>1, StartFacts DEF Start
  <2>5. DOMAIN todo' = {1} /\ todo'[1] = t
    BY <1>1
  <2>6. \A j, k \in DOMAIN kept : j < k => Start(kept[j]) <= Start(kept[k])
    BY <1>8 DEF IInv, Sorted
  <2> HIDE DEF t
  <2>7. /\ \A j \in DOMAIN kept, k \in DOMAIN todo' : Start(kept[j]) <= Start(todo'[k])
        /\ \A j, k \in DOMAIN todo' : ~(j < k)
    BY <2>3, <2>4, <2>5
  <2> QED BY <1>3, <2>1, <2>2, <2>6, <2>7 DEF Sorted
<1>9. Begun' /\ Sorted' /\ Better'
  BY <1>1, <1>3, <1>8 DEF Begun, Sorted, Better
<1> QED BY <1>5, <1>6, <1>9 DEF IInv

\* A position begins, or the search ends for want of threads.
LEMMA EnterPositionInv == IInv /\ EnterPosition => IInv'
<1> SUFFICES ASSUME IInv, EnterPosition PROVE IInv'
  OBVIOUS
<1>1. /\ status = "position" /\ status' \in {"threads", "finish"}
      /\ status' = "finish" => todo = <<>>
      /\ UNCHANGED <<args, pos, kept, todo, flags, spawned, matched, result>>
  BY DEF EnterPosition
<1>2. /\ n_pointers' = n_pointers /\ pos' = pos /\ text' = text /\ regex' = regex
      /\ kept' = kept /\ todo' = todo /\ matched' = matched
  BY <1>1 DEF args
<1>3. Types'
  BY <1>1, <1>2 DEF IInv, Types, TypeOK, Threads, Code
<1>4. Phase'
  BY <1>1, <1>2 DEF IInv, Phase
<1>5. \A x : HasBegun(x)' = HasBegun(x) /\ Start(x)' = Start(x)
  BY <1>2 DEF HasBegun, Start, StartOf
<1>6. ~JustSpawned
  BY <1>1 DEF JustSpawned
<1>7. Begun'
  BY <1>2, <1>5, <1>6 DEF IInv, Begun
<1>8. Sorted'
  BY <1>2, <1>5 DEF IInv, Sorted
<1>9. Better'
  BY <1>2, <1>5 DEF IInv, Better, StartOf
<1> QED BY <1>3, <1>4, <1>7, <1>8, <1>9 DEF IInv

\* The threads that wait are those to run next.
LEMMA EndPositionInv == IInv /\ EndPosition => IInv'
<1> SUFFICES ASSUME IInv, EndPosition PROVE IInv'
  OBVIOUS
<1>1. /\ status = "threads" /\ todo = <<>>
      /\ kept' = <<>> /\ flags' = {} /\ spawned' = FALSE
      /\ UNCHANGED <<args, matched, result>>
  BY DEF EndPosition
<1>2. Types /\ pos \in Nat /\ pos <= Len(text) /\ Len(text) \in Nat /\ kept \in Seq(Threads)
  BY RegexFacts DEF IInv, Types, TypeOK
<1>3. /\ n_pointers' = n_pointers /\ text' = text /\ regex' = regex /\ matched' = matched
      /\ result' = result
  BY <1>1 DEF args
<1>4. \/ status' = "finish" /\ todo' = <<>> /\ pos' = pos
      \/ status' = "position" /\ todo' = kept /\ pos' = pos + 1 /\ pos < Len(text)
  BY <1>2 DEF EndPosition, CharAt
<1>5. Types'
  <2>1. Threads' = Threads
    BY <1>3 DEF Threads, Code
  <2>2. kept' \in Seq(Threads) /\ todo' \in Seq(Threads)
    <3>1. <<>> \in Seq(Threads)
      OBVIOUS
    <3>2. kept' = <<>> /\ (todo' = <<>> \/ todo' = kept)
      BY <1>1, <1>4
    <3> QED BY <1>2, <3>1, <3>2
  <2>3. pos' \in 0 .. Len(text) /\ status' \in {"finish", "position"}
    BY <1>2, <1>4
  <2> QED BY <1>1, <1>2, <1>3, <2>1, <2>2, <2>3 DEF Types, TypeOK
<1>6. Phase'
  BY <1>1, <1>4 DEF Phase
<1>7. DOMAIN kept' = {} /\ DOMAIN todo' \subseteq DOMAIN kept /\ \A k \in DOMAIN todo' : todo'[k] = kept[k]
  BY <1>1, <1>4
<1>8. \A x : Start(x)' = Start(x)
  BY <1>3 DEF Start, StartOf
<1>9. Begun'
  <2> SUFFICES ASSUME n_pointers > 0
               PROVE  \A k \in DOMAIN todo' :
                        todo'[k].ip # 0 /\ todo'[k].ptrs[0] # Null /\ todo'[k].ptrs[0] <= pos'
    BY <1>3, <1>7 DEF Begun, HasBegun
  <2> SUFFICES ASSUME NEW k \in DOMAIN kept
               PROVE  kept[k].ip # 0 /\ kept[k].ptrs[0] # Null /\ kept[k].ptrs[0] <= pos'
    BY <1>7
  <2>1. HasBegun(kept[k]) /\ kept[k] \in Threads
    BY <1>2 DEF IInv, Begun
  <2>2. kept[k].ptrs[0] \in 0 .. Len(text)
    BY <1>2, <2>1, StartFacts DEF HasBegun
  <2> QED BY <1>2, <1>4, <2>1, <2>2 DEF HasBegun
<1>10. Sorted'
  BY <1>3, <1>7, <1>8 DEF IInv, Sorted
<1>11. Better'
  BY <1>3, <1>7, <1>8 DEF IInv, Better, StartOf
<1> QED BY <1>5, <1>6, <1>9, <1>10, <1>11 DEF IInv

\* Between calls there are no threads and no match.
LEMMA EmptyInv ==
  ASSUME Types, kept = <<>>, todo = <<>>, matched = <<>>
  PROVE  IInv
  BY DEF IInv, Phase, Begun, Sorted, Better

\* A call begins, and returns, with nothing.
LEMMA CallInv == IInv /\ (Call \/ Return \/ OutOfMemory) => IInv'
<1> SUFFICES ASSUME IInv, Call \/ Return \/ OutOfMemory PROVE IInv'
  OBVIOUS
<1>1. Types
  BY DEF IInv
<1>2. matched' = <<>> /\ kept' = <<>> /\ todo' = <<>> /\ pos' = 0 /\ spawned' \in BOOLEAN
  BY DEF Call, Return, OutOfMemory, Cleared, IInv, Phase, Types, TypeOK
<1>3. Types'
  <2>1. CASE Call
    <3>1. PICK r \in Regexes, x \in Texts : \E n \in NPointers(r) :
            /\ regex' = r /\ text' = x /\ n_pointers' = n
            /\ result' = Result("NONE", FALSE, NullPointers(n))
      BY <2>1 DEF Call
    <3>2. n_pointers' \in NPointers(regex)' /\ n_pointers' \in Nat
      BY <3>1, RegexAssumption DEF NPointers
    <3>3. NullPointers(n_pointers)' \in Pointers(n_pointers, Len(text))'
      BY <3>2 DEF NullPointers, Pointers
    <3>4. text' \in Texts /\ Len(text') \in Nat /\ regex' \in Regexes /\ regex'.flags \in Nat
      BY <3>1, RegexAssumption
    <3>5. flags' = {} /\ status' = "position"
      BY <2>1 DEF Call, Cleared
    <3>6. result' = [status |-> "NONE", found |-> FALSE, ptrs |-> NullPointers(n_pointers)']
      BY <3>1 DEF Result, NullPointers
    <3>7. /\ kept' \in Seq(Threads') /\ todo' \in Seq(Threads')
          /\ matched' \in Seq(Pointers(n_pointers, Len(text))') /\ Len(matched') <= 1
      BY <1>2
    <3> QED BY <1>2, <3>2, <3>3, <3>4, <3>5, <3>6, <3>7 DEF Types, TypeOK
  <2>2. CASE Return \/ OutOfMemory
    <3>1. /\ UNCHANGED args /\ status' = "idle" /\ flags' \subseteq 0 .. regex.flags - 1
          /\ \/ result' = Result("OK", matched # <<>>,
                         IF matched = <<>> THEN NullPointers(n_pointers) ELSE matched[1])
             \/ result' = Result("E_NOMEM", FALSE, NullPointers(n_pointers))
      BY <1>1, <2>2 DEF Return, OutOfMemory, Cleared, Types, TypeOK
    <3>2. regex' = regex /\ text' = text /\ n_pointers' = n_pointers
      BY <3>1 DEF args
    <3>3. /\ NullPointers(n_pointers) \in Pointers(n_pointers, Len(text))
          /\ matched # <<>> => matched[1] \in Pointers(n_pointers, Len(text))
      BY <1>1 DEF Types, TypeOK, NullPointers, Pointers
    <3>4. result' \in [status : {"NONE", "OK", "E_NOMEM"}, found : BOOLEAN,
                       ptrs : Pointers(n_pointers, Len(text))]
      <4>1. CASE result' = Result("E_NOMEM", FALSE, NullPointers(n_pointers))
        BY <3>3, <4>1 DEF Result
      <4>2. CASE matched = <<>> /\ result' = Result("OK", FALSE, NullPointers(n_pointers))
        BY <3>3, <4>2 DEF Result
      <4>3. CASE matched # <<>> /\ result' = Result("OK", TRUE, matched[1])
        BY <3>3, <4>3 DEF Result
      <4> QED BY <3>1, <4>1, <4>2, <4>3
    <3>5. /\ kept' \in Seq(Threads') /\ todo' \in Seq(Threads')
          /\ matched' \in Seq(Pointers(n_pointers, Len(text))) /\ Len(matched') <= 1
      BY <1>2
    <3>6. 0 \in 0 .. Len(text)
      BY <1>1, RegexFacts
    <3> QED BY <1>1, <1>2, <3>1, <3>2, <3>4, <3>5, <3>6 DEF Types, TypeOK
  <2> QED BY <2>1, <2>2
<1> QED BY <1>2, <1>3 DEF IInv, Phase, Begun, Sorted, Better

-----------------------------------------------------------------------------
(* The theorems                                                            *)

\* Before the first call there are no threads and no match.
LEMMA InitInv == Init => IInv
<1> SUFFICES ASSUME Init PROVE IInv
  OBVIOUS
<1>1. /\ regex \in Regexes /\ text \in Texts /\ n_pointers = 0 /\ status = "idle" /\ pos = 0
      /\ kept = <<>> /\ todo = <<>> /\ flags = {} /\ spawned = FALSE /\ matched = <<>>
      /\ result = [status |-> "NONE", found |-> FALSE, ptrs |-> <<>>]
  BY DEF Init, Result
<1>2. Len(text) \in Nat /\ regex.flags \in Nat
  BY <1>1, RegexAssumption
<1>3. <<>> \in Pointers(0, Len(text))
  <2>1. 0 .. 0 - 1 = {}
    OBVIOUS
  <2>2. <<>> = [p \in {} |-> Null]
    OBVIOUS
  <2> QED BY <2>1, <2>2 DEF Pointers
<1>4. result \in [status : {"NONE", "OK", "E_NOMEM"}, found : BOOLEAN,
                  ptrs : Pointers(n_pointers, Len(text))]
  BY <1>1, <1>3
<1>5. /\ kept \in Seq(Threads) /\ todo \in Seq(Threads)
      /\ matched \in Seq(Pointers(n_pointers, Len(text))) /\ Len(matched) <= 1
  BY <1>1
<1>6. n_pointers \in NPointers(regex) /\ pos \in 0 .. Len(text)
      /\ flags \subseteq 0 .. regex.flags - 1 /\ spawned \in BOOLEAN
  <2>1. n_pointers \in NPointers(regex)
    BY <1>1 DEF NPointers
  <2>2. 0 \in 0 .. Len(text)
    BY <1>2
  <2>3. flags \subseteq 0 .. regex.flags - 1 /\ spawned \in BOOLEAN
    BY <1>1
  <2> QED BY <1>1, <2>1, <2>2, <2>3
<1>7. Types
  BY <1>1, <1>4, <1>5, <1>6 DEF Types, TypeOK
<1> QED BY <1>1, <1>7, EmptyInv

\* A step that changes nothing keeps the invariant.
LEMMA StutterInv == IInv /\ UNCHANGED vars => IInv'
<1> SUFFICES ASSUME IInv, UNCHANGED vars PROVE IInv'
  OBVIOUS
<1>1. /\ n_pointers' = n_pointers /\ pos' = pos /\ text' = text /\ regex' = regex
      /\ kept' = kept /\ todo' = todo /\ matched' = matched /\ status' = status
      /\ flags' = flags /\ spawned' = spawned /\ result' = result
  BY DEF vars, args
<1>2. Types'
  BY <1>1 DEF IInv, Types, TypeOK, Threads, Code
<1>3. Phase'
  BY <1>1 DEF IInv, Phase
<1>4. \A x : HasBegun(x)' = HasBegun(x) /\ Start(x)' = Start(x)
  BY <1>1 DEF HasBegun, Start, StartOf
<1>5. JustSpawned' = JustSpawned
  BY <1>1 DEF JustSpawned, NullPointers
<1>6. Begun'
  BY <1>1, <1>4, <1>5 DEF IInv, Begun
<1>7. Sorted'
  BY <1>1, <1>4 DEF IInv, Sorted
<1>8. Better'
  BY <1>1, <1>4 DEF IInv, Better, StartOf
<1> QED BY <1>2, <1>3, <1>6, <1>7, <1>8 DEF IInv

\* Every step keeps the invariant.
LEMMA NextInv == IInv /\ [Next]_vars => IInv'
<1> SUFFICES ASSUME IInv, [Next]_vars PROVE IInv'
  OBVIOUS
<1>1. CASE Call \/ Return \/ OutOfMemory
  BY <1>1, CallInv
<1>2. CASE EnterPosition
  BY <1>2, EnterPositionInv
<1>3. CASE Spawn
  BY <1>3, SpawnInv
<1>4. CASE Reject
  BY <1>4, RejectInv
<1>5. CASE Consume
  BY <1>5, ConsumeInv
<1>6. CASE Advance
  BY <1>6, AdvanceInv
<1>7. CASE TestAndSetFlag
  BY <1>7, TestAndSetFlagInv
<1>8. CASE Split
  BY <1>8, SplitInv
<1>9. CASE WritePointer
  BY <1>9, WritePointerInv
<1>10. CASE Match
  BY <1>10, MatchInv
<1>11. CASE EndPosition
  BY <1>11, EndPositionInv
<1>12. CASE UNCHANGED vars
  BY <1>12, StutterInv
<1> QED BY <1>1, <1>2, <1>3, <1>4, <1>5, <1>6, <1>7, <1>8, <1>9, <1>10, <1>11, <1>12
        DEF Next, Run, Step

\* The invariant holds at all times.
LEMMA Invariant == Spec => []IInv
<1> QED BY InitInv, NextInv, PTL DEF Spec

\* A thread never leaves the program, writes no pointer the caller did not ask
\* for and no position beyond the string (execute_regex, run_threads).
THEOREM TypeCorrect == Spec => []TypeOK
<1>1. IInv => TypeOK
  BY DEF IInv, Types
<1> QED BY Invariant, <1>1, PTL

\* The invariant orders the threads, and the match behind them.
LEMMA InvOrders == IInv => LeftmostFirst
<1> SUFFICES ASSUME IInv, n_pointers > 0,
                    NEW i \in DOMAIN Ranked, NEW j \in DOMAIN Ranked, i < j
             PROVE  StartOf(Ranked[i]) <= StartOf(Ranked[j])
  BY DEF LeftmostFirst
<1> DEFINE K == Len(kept)
           T == Len(todo)
           P == Pointers(n_pointers, Len(text))
           first == [k \in DOMAIN Live |-> Live[k].ptrs]
<1>1. Types /\ kept \in Seq(Threads) /\ todo \in Seq(Threads) /\ matched \in Seq(P)
      /\ Len(matched) <= 1
  BY DEF IInv, Types, TypeOK
<1>2. K \in Nat /\ T \in Nat /\ DOMAIN kept = 1 .. K /\ DOMAIN todo = 1 .. T
  BY <1>1
<1>3. /\ Live \in Seq(Threads) /\ DOMAIN Live = 1 .. K + T
      /\ \A k \in 1 .. K : Live[k] = kept[k]
      /\ \A k \in K + 1 .. K + T : Live[k] = todo[k - K]
  BY <1>1, <1>2 DEF Live
<1>4. first \in Seq(P) /\ Len(first) = K + T
      /\ \A k \in 1 .. K + T : first[k] = Live[k].ptrs
  <2>1. \A k \in 1 .. K + T : Live[k] \in Threads
    BY <1>3
  <2>2. \A k \in 1 .. K + T : Live[k].ptrs \in P
    BY <2>1 DEF Threads
  <2>3. K + T \in Nat
    BY <1>2
  <2> HIDE DEF P
  <2> QED BY <1>3, <2>2, <2>3
<1>5. Ranked = first \o matched
  BY DEF Ranked
<1> HIDE DEF first, P, K, T
<1>6. /\ i \in 1 .. K + T + 1 /\ j \in 1 .. K + T + 1
      /\ \A k \in 1 .. K + T : Ranked[k] = first[k]
      /\ K + T + 1 \in DOMAIN Ranked => matched # <<>> /\ Ranked[K + T + 1] = matched[1]
  BY <1>1, <1>2, <1>4, <1>5
<1>7. /\ \A k \in 1 .. K : StartOf(Ranked[k]) = Start(kept[k])
      /\ \A k \in K + 1 .. K + T : StartOf(Ranked[k]) = Start(todo[k - K])
  BY <1>2, <1>3, <1>4, <1>6 DEF Start
<1>8. CASE j <= K
  BY <1>2, <1>6, <1>7, <1>8 DEF IInv, Sorted
<1>9. CASE i <= K /\ j \in K + 1 .. K + T
  <2>1. i \in 1 .. K /\ j - K \in 1 .. T
    BY <1>2, <1>6, <1>9
  <2> QED BY <1>2, <1>7, <1>9, <2>1 DEF IInv, Sorted
<1>10. CASE i > K /\ j \in K + 1 .. K + T
  <2>1. i \in K + 1 .. K + T /\ i - K \in 1 .. T /\ j - K \in 1 .. T /\ i - K < j - K
    BY <1>2, <1>6, <1>10
  <2> QED BY <1>2, <1>7, <1>10, <2>1 DEF IInv, Sorted
<1>11. CASE j = K + T + 1
  <2>1. matched # <<>> /\ Ranked[j] = matched[1]
    BY <1>6, <1>11
  <2>2. CASE i <= K
    BY <1>2, <1>6, <1>7, <2>1, <2>2 DEF IInv, Better
  <2>3. CASE i > K
    <3>1. i \in K + 1 .. K + T /\ i - K \in 1 .. T
      BY <1>2, <1>6, <1>11, <2>3
    <3> QED BY <1>2, <1>7, <2>1, <3>1 DEF IInv, Better
  <2> QED BY <1>2, <1>6, <2>2, <2>3
<1> QED BY <1>2, <1>6, <1>8, <1>9, <1>10, <1>11

\* An earlier start is never overtaken by a later one: the threads of
\* run_threads are at all times in the order of their starts, and none of them
\* starts behind the match, so what still runs may only improve on it.
THEOREM ThreadsInOrder == Spec => []LeftmostFirst
<1> QED BY Invariant, InvOrders, PTL

\* A match is only replaced by one that begins no later, whatever on_match and
\* the threads before it do, and is kept until the call returns.
THEOREM MatchesImprove == Spec => MatchOnlyImproves
<1>1. ASSUME IInv, [Next]_vars,
             status # "idle", status' # "idle", matched # <<>>, n_pointers > 0
      PROVE  matched' # <<>> /\ StartOf(matched'[1]) <= StartOf(matched[1])
  <2>1. StartOf(matched[1]) <= StartOf(matched[1])
    <3>1. matched[1] \in Pointers(n_pointers, Len(text))
      BY <1>1 DEF IInv, Types, TypeOK
    <3>2. StartOf(matched[1]) \in Nat
      BY <1>1, <3>1, StartFacts DEF IInv
    <3> QED BY <3>2
  <2>2. CASE Match
    <3>1. Running /\ matched' = <<Thread.ptrs>>
      BY <2>2 DEF Match
    <3>2. todo \in Seq(Threads) /\ todo # <<>> /\ Thread = todo[1]
      BY <1>1, <3>1, RunningFacts DEF IInv
    <3>3. 1 \in DOMAIN todo
      BY <3>2
    <3>4. Start(todo[1]) <= StartOf(matched[1])
      BY <1>1, <3>3 DEF IInv, Better
    <3> QED BY <3>1, <3>2, <3>4 DEF Start
  <2>3. CASE matched' = matched
    BY <1>1, <2>1, <2>3
  <2>4. Match \/ matched' = matched
    BY <1>1 DEF Next, Run, Step, Call, EnterPosition, Spawn, Reject, Consume, Advance,
                TestAndSetFlag, Split, WritePointer, EndPosition, Return, OutOfMemory,
                stepFrame, vars
  <2> QED BY <2>2, <2>3, <2>4
<1>2. IInv /\ [Next]_vars =>
        [status # "idle" /\ status' # "idle" /\ matched # <<>> /\ n_pointers > 0 =>
           matched' # <<>> /\ StartOf(matched'[1]) <= StartOf(matched[1])]_vars
  BY <1>1
<1> QED BY Invariant, <1>2, PTL DEF Spec, MatchOnlyImproves

-----------------------------------------------------------------------------
(* Each instruction once at a position                                     *)

\* What the compiler promises of the ways between instructions.
WaysFlagged == \A r \in Regexes : JoinsFlagged(r.code) /\ OperandsApart(r.code)

Flagged(i) == i < Len(Code) /\ Code[i + 1].op = "TEST_AND_SET_FLAG"
Consumers  == {i \in Starts(Code) : Code[i + 1].op \in ConsumeOps}
Splitters  == {i \in Starts(Code) : Code[i + 1].op \in SplitOps}

\* P are the instructions that threads have passed at this position.  What is
\* no flag is passed by one thread at most, and a flag that was passed is set.
PassedOnce(P) ==
  /\ P \subseteq Starts(Code)
  /\ \A k, l \in DOMAIN todo : todo[k].ip = todo[l].ip /\ ~Flagged(todo[k].ip) => k = l
  /\ \A k \in DOMAIN todo : todo[k].ip \in P => Flagged(todo[k].ip)
  /\ \A i \in P : Flagged(i) => Code[i + 1].operand \in flags

Reached(P) == P \cup {todo[k].ip : k \in DOMAIN todo}

\* Who is behind a way that only one thread can take has taken it, at this
\* position, or at the last one if a character was consumed on it.
CameBy(P) ==
  \A e \in Edges(Code) :
    e.to \in Reached(P) /\ ~Flagged(e.to) =>
      IF e.from = Entry THEN spawned ELSE e.from \in P \cup Consumers

\* Each waiting thread has consumed the character at an instruction of its own.
Waiting(P) ==
  /\ \A k \in DOMAIN kept : \E i \in P \cap Consumers : kept[k].ip = After(Code, i)
  /\ Len(kept) <= Cardinality(P \cap Consumers)

\* Threads come from the last position, from instructions that split, and one is
\* spawned.
Counted(P) ==
  Len(kept) + Len(todo)
    <= Cardinality(Consumers \cup (P \cap Splitters)) + (IF spawned THEN 1 ELSE 0)

Passed(P) == PassedOnce(P) /\ CameBy(P) /\ Waiting(P) /\ Counted(P)

OnceInv == IInv /\ DistinctThreads /\ \E P : Passed(P)

LEMMA CodeFacts ==
  ASSUME Types
  PROVE  /\ Code \in Seq(Cells) /\ Len(Code) \in Nat
         /\ Starts(Code) \subseteq 0 .. Len(Code) - 1 /\ Starts(Code) \subseteq Nat
         /\ IsFiniteSet(Starts(Code)) /\ IsFiniteSet(Consumers) /\ IsFiniteSet(Splitters)
         /\ Consumers \subseteq Starts(Code) /\ Splitters \subseteq Starts(Code)
         /\ \A i \in Starts(Code) : Code[i + 1] \in Cells
<1>1. Code \in Seq(Cells)
  BY RegexFacts DEF WellFormed, Code
<1>2. Len(Code) \in Nat /\ Starts(Code) \subseteq 0 .. Len(Code) - 1
  BY <1>1 DEF Starts
<1>3. Starts(Code) \subseteq Nat /\ \A i \in Starts(Code) : Code[i + 1] \in Cells
  BY <1>1, <1>2
<1>4. IsFiniteSet(0 .. Len(Code) - 1)
  BY <1>2, FS_Interval
<1>5. IsFiniteSet(Starts(Code))
  BY <1>2, <1>4, FS_Subset
<1>6. Consumers \subseteq Starts(Code) /\ Splitters \subseteq Starts(Code)
  BY DEF Consumers, Splitters
<1>7. IsFiniteSet(Consumers) /\ IsFiniteSet(Splitters)
  BY <1>5, <1>6, FS_Subset
<1> QED BY <1>1, <1>2, <1>3, <1>5, <1>6, <1>7

\* Two ways that meet without a flag are one.
LEMMA OneWay ==
  ASSUME WaysFlagged, Types, NEW e \in Edges(Code), NEW f \in Edges(Code),
         e.to = f.to, ~Flagged(e.to)
  PROVE  e = f
<1>1. JoinsFlagged(Code)
  BY DEF WaysFlagged, Types, Code
<1> QED BY <1>1 DEF JoinsFlagged, Flagged

\* The ways from an instruction.
LEMMA WaysFrom ==
  ASSUME NEW i \in Starts(Code)
  PROVE  /\ [from |-> i, kind |-> "goes", to |-> Continuation(Code, i)] \in Edges(Code)
         /\ i \in Splitters =>
              [from |-> i, kind |-> "splits", to |-> SplitPointer(Code, i)] \in Edges(Code)
  BY DEF Edges, Splitters

LEMMA WayIn == [from |-> Entry, kind |-> "goes", to |-> 0] \in Edges(Code)
  BY DEF Edges

\* What follows two instructions differs.
LEMMA AfterDiffers ==
  ASSUME WaysFlagged, Types, NEW i \in Starts(Code), NEW j \in Starts(Code),
         After(Code, i) = After(Code, j)
  PROVE  i = j
<1>1. OperandsApart(Code) /\ i \in Nat /\ j \in Nat
      /\ Code[i + 1] \in Cells /\ Code[j + 1] \in Cells
  BY CodeFacts DEF WaysFlagged, Types, Code
<1>2. After(Code, i) \in Nat /\ After(Code, i) > i /\ After(Code, j) > j
  BY <1>1 DEF After, Cells
<1>3. ASSUME NEW a \in Starts(Code), NEW b \in Starts(Code), a \in Nat, b \in Nat,
             a < b, After(Code, a) \in Nat, b < After(Code, a)
      PROVE  FALSE
  <2>1. b \in a + 1 .. After(Code, a) - 1
    BY <1>3
  <2> QED BY <1>1, <1>3, <2>1 DEF OperandsApart
<1>4. ~(i < j)
  BY <1>1, <1>2, <1>3
<1>5. ~(j < i)
  BY <1>1, <1>2, <1>3
<1> QED BY <1>1, <1>4, <1>5

\* What the running thread stands at has not been passed, unless it is a flag
\* that is set; and where it goes from there nobody has been.
LEMMA NewGround ==
  ASSUME WaysFlagged, Types, NEW P, PassedOnce(P), CameBy(P), Running, ~AtEnd, ~FlagTaken
  PROVE  /\ Thread.ip \in Starts(Code) \ P
         /\ Flagged(Thread.ip) <=> Instr.op = "TEST_AND_SET_FLAG"
         /\ \A e \in Edges(Code) :
              e.from = Thread.ip /\ Thread.ip \notin Consumers /\ ~Flagged(e.to) =>
                e.to \notin Reached(P)
<1>1. /\ todo \in Seq(Threads) /\ todo # <<>> /\ Thread = todo[1] /\ 1 \in DOMAIN todo
      /\ Thread.ip \in Starts(Code) /\ Thread.ip \in Nat
  BY RunningFacts, HeadAndTail
<1>2. Thread.ip < Len(Code)
  BY <1>1, CodeFacts
<1>3. Flagged(Thread.ip) <=> Instr.op = "TEST_AND_SET_FLAG"
  BY <1>2 DEF Flagged, Instr
<1>4. Thread.ip \notin P
  <2> SUFFICES ASSUME Thread.ip \in P PROVE FALSE
    OBVIOUS
  <2>1. Flagged(Thread.ip)
    BY <1>1 DEF PassedOnce
  <2>2. Code[Thread.ip + 1].operand \in flags
    BY <2>1 DEF PassedOnce
  <2> QED BY <1>3, <2>1, <2>2 DEF FlagTaken, Instr
<1>5. Thread.ip # Entry
  BY <1>1 DEF Entry
<1> QED BY <1>1, <1>3, <1>4, <1>5 DEF CameBy

\* The running thread goes one way.
LEMMA GoesOneWay ==
  ASSUME WaysFlagged, OnceInv, Running, ~AtEnd, ~FlagTaken,
         Thread.ip \notin Consumers, NEW u, u.ip = Continuation(Code, Thread.ip),
         u \in Threads, todo' = <<u>> \o Tail(todo), kept' = kept, UNCHANGED stepFrame,
         flags \subseteq flags', Flagged(Thread.ip) => Instr.operand \in flags'
  PROVE  DistinctThreads' /\ \E P : Passed(P)'
<1> DEFINE t == Thread.ip
<1>1. PICK P : Passed(P)
  BY DEF OnceInv
<1>2. /\ Types /\ PassedOnce(P) /\ CameBy(P) /\ Waiting(P) /\ Counted(P)
      /\ regex' = regex /\ spawned' = spawned
  BY <1>1 DEF OnceInv, IInv, Passed, stepFrame, args
<1>3. /\ t \in Starts(Code) \ P
      /\ \A e \in Edges(Code) :
           e.from = t /\ t \notin Consumers /\ ~Flagged(e.to) => e.to \notin Reached(P)
  BY <1>2, NewGround
<1>4. /\ todo \in Seq(Threads) /\ todo # <<>> /\ todo[1].ip = t
      /\ Len(todo) \in Nat /\ Len(todo) >= 1 /\ DOMAIN todo = 1 .. Len(todo)
      /\ DOMAIN todo' = 1 .. Len(todo) /\ Len(todo') = Len(todo)
      /\ todo'[1] = u /\ \A k \in 2 .. Len(todo) : todo'[k] = todo[k]
  <2>1. todo \in Seq(Threads) /\ todo # <<>> /\ Thread = todo[1]
    BY <1>2, RunningFacts
  <2> QED BY <2>1, HeadAndTail, HeadReplaced
<1> DEFINE e == [from |-> t, kind |-> "goes", to |-> u.ip]
<1>17. PICK Q : Q = P \cup {t}
  OBVIOUS
<1>5. e \in Edges(Code) /\ e.from = t /\ e.to = u.ip
  BY <1>3, WaysFrom
<1>6. ~Flagged(u.ip) => u.ip \notin Reached(P)
  BY <1>3, <1>5
<1>7. t \in Reached(P) /\ \A k \in DOMAIN todo : todo[k].ip \in Reached(P)
  BY <1>4 DEF Reached
<1> HIDE DEF t, e
<1>8. \A i : Flagged(i)' <=> Flagged(i)
  BY <1>2 DEF Flagged, Code
<1>9. Code' = Code /\ Consumers' = Consumers /\ Splitters' = Splitters
  BY <1>2 DEF Code, Consumers, Splitters
<1>10. PassedOnce(Q)'
  <2>1. Q \subseteq Starts(Code)
    BY <1>2, <1>3, <1>17 DEF PassedOnce
  <2>2. ASSUME NEW k \in DOMAIN todo', NEW l \in DOMAIN todo',
               todo'[k].ip = todo'[l].ip, ~Flagged(todo'[k].ip)
        PROVE  k = l
    <3>1. CASE k = 1 /\ l # 1
      <4>1. l \in DOMAIN todo /\ todo'[l] = todo[l]
        BY <1>4, <3>1
      <4> QED BY <1>4, <1>6, <1>7, <2>2, <3>1, <4>1
    <3>2. CASE k # 1 /\ l = 1
      <4>1. k \in DOMAIN todo /\ todo'[k] = todo[k]
        BY <1>4, <3>2
      <4> QED BY <1>4, <1>6, <1>7, <2>2, <3>2, <4>1
    <3>3. CASE k # 1 /\ l # 1
      <4>1. k \in DOMAIN todo /\ todo'[k] = todo[k] /\ l \in DOMAIN todo /\ todo'[l] = todo[l]
        BY <1>4, <3>3
      <4> QED BY <1>2, <2>2, <4>1 DEF PassedOnce
    <3> QED BY <3>1, <3>2, <3>3
  <2>3. ASSUME NEW k \in DOMAIN todo', todo'[k].ip \in Q
        PROVE  Flagged(todo'[k].ip)
    <3>1. CASE k = 1
      BY <1>4, <1>6, <1>7, <2>3, <3>1, <1>17 DEF Reached
    <3>2. CASE k # 1
      <4>1. k \in DOMAIN todo /\ todo'[k] = todo[k]
        BY <1>4, <3>2
      <4>2. CASE todo[k].ip \in P
        BY <1>2, <4>1, <4>2 DEF PassedOnce
      <4>3. CASE todo[k].ip = t
        <5>1. 1 \in DOMAIN todo
          BY <1>4
        <5> QED BY <1>2, <1>4, <3>2, <4>1, <4>3, <5>1 DEF PassedOnce
      <4> QED BY <2>3, <4>1, <4>2, <4>3, <1>17
    <3> QED BY <3>1, <3>2
  <2>4. \A i \in Q : Flagged(i) => Code[i + 1].operand \in flags'
    BY <1>2, <1>17 DEF PassedOnce, Instr, t
  <2> QED BY <1>8, <1>9, <2>1, <2>2, <2>3, <2>4 DEF PassedOnce
<1>11. CameBy(Q)'
  <2>1. ASSUME NEW f \in Edges(Code), f.to \in Reached(Q)', ~Flagged(f.to)
        PROVE  IF f.from = Entry THEN spawned ELSE f.from \in Q \cup Consumers
    <3>1. f.to \in Reached(P) \/ f.to = u.ip
      <4>1. CASE f.to \in Q
        BY <1>7, <1>17, <4>1 DEF Reached
      <4>2. ASSUME NEW k \in DOMAIN todo', f.to = todo'[k].ip PROVE f.to \in Reached(P) \/ f.to = u.ip
        BY <1>4, <1>7, <4>2
      <4> QED BY <2>1, <4>1, <4>2 DEF Reached
    <3>2. CASE f.to \in Reached(P)
      BY <1>2, <2>1, <3>2, <1>17 DEF CameBy
    <3>3. CASE f.to = u.ip
      <4>1. f = e
        BY <1>2, <1>5, <2>1, <3>3, OneWay
      <4>2. f.from = t /\ t # Entry
        BY <1>2, <1>3, <1>5, <4>1, CodeFacts DEF Entry
      <4> QED BY <4>2, <1>17
    <3> QED BY <3>1, <3>2, <3>3
  <2> QED BY <1>2, <1>8, <1>9, <2>1 DEF CameBy
<1>12. IsFiniteSet(Consumers) /\ IsFiniteSet(Splitters)
  BY <1>2, CodeFacts
<1>13. Waiting(Q)'
  <2>1. Q \cap Consumers = P \cap Consumers
    BY <1>17 DEF t
  <2> QED BY <1>2, <1>9, <2>1 DEF Waiting
<1>14. Counted(Q)'
  <2>1. /\ IsFiniteSet(Consumers \cup (P \cap Splitters)) /\ IsFiniteSet(Consumers \cup (Q \cap Splitters))
    <3>1. IsFiniteSet(P \cap Splitters) /\ IsFiniteSet(Q \cap Splitters)
      BY <1>12, FS_Subset
    <3> QED BY <1>12, <3>1, FS_Union
  <2>2. /\ Cardinality(Consumers \cup (P \cap Splitters)) <= Cardinality(Consumers \cup (Q \cap Splitters))
        /\ Cardinality(Consumers \cup (P \cap Splitters)) \in Nat
        /\ Cardinality(Consumers \cup (Q \cap Splitters)) \in Nat
    <3>1. Consumers \cup (P \cap Splitters) \subseteq Consumers \cup (Q \cap Splitters)
      BY <1>17
    <3> QED BY <2>1, <3>1, FS_Subset, FS_CardinalityType
  <2>3. Len(kept) \in Nat
    BY <1>2 DEF Types, TypeOK
  <2> QED BY <1>2, <1>4, <1>9, <2>2, <2>3 DEF Counted
<1>15. DistinctThreads'
  BY DEF OnceInv, DistinctThreads
<1>16. Passed(Q)'
  BY <1>10, <1>11, <1>13, <1>14 DEF Passed
<1> QED BY <1>15, <1>16

LEMMA OneWayOnce ==
  ASSUME WaysFlagged, OnceInv, Advance \/ TestAndSetFlag \/ WritePointer
  PROVE  DistinctThreads' /\ \E P : Passed(P)'
<1>1. /\ Types /\ Running /\ ~AtEnd /\ ~FlagTaken
      /\ Instr.op \in AnchorOps \cup {"JUMP", "TEST_AND_SET_FLAG", "WRITE_POINTER"}
      /\ kept' = kept /\ UNCHANGED stepFrame /\ flags \subseteq flags'
      /\ Instr.op = "TEST_AND_SET_FLAG" => Instr.operand \in flags'
  <2>1. CASE Advance
    BY <2>1 DEF OnceInv, IInv, Advance, Dies, AnchorOps
  <2>2. CASE TestAndSetFlag
    BY <2>2 DEF OnceInv, IInv, TestAndSetFlag, Dies
  <2>3. CASE WritePointer
    BY <2>3 DEF OnceInv, IInv, WritePointer, FlagTaken
  <2> QED BY <2>1, <2>2, <2>3
<1>2. /\ Thread.ip \in Starts(Code) /\ Thread.ip \in Nat /\ Thread.ip < Len(Code)
      /\ Continues \in Threads /\ Continues.ip = Continuation(Code, Thread.ip)
      /\ Thread.ip \notin Consumers
      /\ Flagged(Thread.ip) => Instr.op = "TEST_AND_SET_FLAG"
  <2>1. Thread.ip \in Starts(Code) /\ Thread.ip \in Nat /\ Continues \in Threads
    BY <1>1, RunningFacts
  <2>2. Thread.ip < Len(Code)
    BY <1>1, <2>1, CodeFacts
  <2>3. Continues.ip = Continuation(Code, Thread.ip)
    BY DEF Continues, GoesOn
  <2>4. Thread.ip \notin Consumers
    BY <1>1 DEF Consumers, ConsumeOps, AnchorOps, Instr
  <2>5. Flagged(Thread.ip) => Instr.op = "TEST_AND_SET_FLAG"
    BY DEF Flagged, Instr
  <2> QED BY <2>1, <2>2, <2>3, <2>4, <2>5
<1>3. CASE Advance \/ TestAndSetFlag
  <2>1. todo' = <<Continues>> \o Tail(todo)
    BY <1>3 DEF Advance, TestAndSetFlag
  <2> QED BY <1>1, <1>2, <2>1, GoesOneWay
<1>4. CASE WritePointer
  <2> DEFINE u == GoesOn(After(Code, Thread.ip),
                         IF Instr.operand < n_pointers
                         THEN [Thread.ptrs EXCEPT ![Instr.operand] = pos]
                         ELSE Thread.ptrs)
  <2>1. todo' = <<u>> \o Tail(todo)
    BY <1>4 DEF WritePointer
  <2>2. u.ip = Continuation(Code, Thread.ip)
    <3>1. Instr.op = "WRITE_POINTER"
      BY <1>4 DEF WritePointer
    <3>2. Continuation(Code, Thread.ip) = After(Code, Thread.ip)
      BY <3>1 DEF Continuation, Instr
    <3> QED BY <3>2 DEF GoesOn
  <2>3. u \in Threads
    <3>1. u.ptrs \in Pointers(n_pointers, Len(text))
      <4>1. Thread.ptrs \in Pointers(n_pointers, Len(text)) /\ pos \in 0 .. Len(text)
        BY <1>1, RunningFacts DEF Types, TypeOK
      <4> QED BY <4>1 DEF GoesOn, Pointers
    <3>2. After(Code, Thread.ip) \in Labels(Code)
      BY <1>1, RunningFacts
    <3> QED BY <3>1, <3>2 DEF GoesOn, Threads
  <2> HIDE DEF u
  <2> QED BY <1>1, <1>2, <2>1, <2>2, <2>3, GoesOneWay
<1> QED BY <1>3, <1>4

LEMMA RejectOnce ==
  ASSUME WaysFlagged, OnceInv, Reject
  PROVE  DistinctThreads' /\ \E P : Passed(P)'
<1>1. PICK P : Passed(P)
  BY DEF OnceInv
<1>2. /\ Types /\ Running /\ todo' = Tail(todo) /\ kept' = kept /\ flags' = flags
      /\ regex' = regex /\ spawned' = spawned
      /\ PassedOnce(P) /\ CameBy(P) /\ Waiting(P) /\ Counted(P) /\ DistinctThreads
  BY <1>1 DEF OnceInv, IInv, Passed, Reject, stepFrame, args
<1>3. /\ Len(todo) \in Nat /\ Len(todo) >= 1 /\ DOMAIN todo = 1 .. Len(todo)
      /\ DOMAIN todo' = 1 .. Len(todo) - 1 /\ Len(todo') = Len(todo) - 1
      /\ \A k \in 1 .. Len(todo) - 1 : todo'[k] = todo[k + 1]
  <2>1. todo \in Seq(Threads) /\ todo # <<>>
    BY <1>2, RunningFacts
  <2> QED BY <1>2, <2>1, HeadAndTail
<1>4. /\ Code' = Code /\ Consumers' = Consumers /\ Splitters' = Splitters
      /\ \A i : Flagged(i)' <=> Flagged(i)
  BY <1>2 DEF Code, Consumers, Splitters, Flagged
<1>5. PassedOnce(P)'
  <2>1. ASSUME NEW k \in DOMAIN todo', NEW l \in DOMAIN todo',
               todo'[k].ip = todo'[l].ip, ~Flagged(todo'[k].ip)
        PROVE  k = l
    <3>1. k + 1 \in DOMAIN todo /\ l + 1 \in DOMAIN todo /\ todo'[k] = todo[k + 1]
          /\ todo'[l] = todo[l + 1]
      BY <1>3
    <3>2. k + 1 = l + 1
      BY <1>2, <2>1, <3>1 DEF PassedOnce
    <3> QED BY <1>3, <3>2
  <2>2. \A k \in DOMAIN todo' : todo'[k].ip \in P => Flagged(todo'[k].ip)
    BY <1>2, <1>3 DEF PassedOnce
  <2> QED BY <1>2, <1>4, <2>1, <2>2 DEF PassedOnce
<1>6. CameBy(P)'
  <2>1. Reached(P)' \subseteq Reached(P)
    BY <1>3 DEF Reached
  <2> QED BY <1>2, <1>4, <2>1 DEF CameBy
<1>7. Waiting(P)' /\ DistinctThreads'
  BY <1>2, <1>4 DEF Waiting, DistinctThreads
<1>8. Counted(P)'
  <2>1. Len(kept) \in Nat
    BY <1>2 DEF Types, TypeOK
  <2>2. Cardinality(Consumers \cup (P \cap Splitters)) \in Nat
    <3>1. IsFiniteSet(Consumers) /\ IsFiniteSet(Splitters)
      BY <1>2, CodeFacts
    <3>2. IsFiniteSet(P \cap Splitters)
      BY <3>1, FS_Subset
    <3> QED BY <3>1, <3>2, FS_Union, FS_CardinalityType
  <2> QED BY <1>2, <1>3, <1>4, <2>1, <2>2 DEF Counted
<1> QED BY <1>5, <1>6, <1>7, <1>8 DEF Passed

LEMMA ConsumeOnce ==
  ASSUME WaysFlagged, OnceInv, Consume
  PROVE  DistinctThreads' /\ \E P : Passed(P)'
<1> DEFINE t == Thread.ip
<1>1. PICK P : Passed(P)
  BY DEF OnceInv
<1>2. /\ Types /\ Running /\ ~AtEnd /\ Instr.op \in ConsumeOps
      /\ todo' = Tail(todo) /\ kept' = Append(kept, Continues) /\ flags' = flags
      /\ regex' = regex /\ spawned' = spawned
      /\ PassedOnce(P) /\ CameBy(P) /\ Waiting(P) /\ Counted(P) /\ DistinctThreads
  BY <1>1 DEF OnceInv, IInv, Passed, Consume, stepFrame, args
<1>3. /\ todo[1].ip = t /\ todo[1] = Thread
      /\ Len(todo) \in Nat /\ Len(todo) >= 1 /\ DOMAIN todo = 1 .. Len(todo)
      /\ DOMAIN todo' = 1 .. Len(todo) - 1 /\ Len(todo') = Len(todo) - 1
      /\ \A k \in 1 .. Len(todo) - 1 : todo'[k] = todo[k + 1]
  <2>1. todo \in Seq(Threads) /\ todo # <<>> /\ Thread = todo[1]
    BY <1>2, RunningFacts
  <2> QED BY <1>2, <2>1, HeadAndTail
<1>4. /\ Code' = Code /\ Consumers' = Consumers /\ Splitters' = Splitters
      /\ \A i : Flagged(i)' <=> Flagged(i)
  BY <1>2 DEF Code, Consumers, Splitters, Flagged
<1>5. /\ t \in Starts(Code) \ P /\ ~Flagged(t) /\ t \in Consumers
      /\ Continues \in Threads /\ Continues.ip = After(Code, t)
  <2>1. ~FlagTaken
    BY <1>2 DEF ConsumeOps, FlagTaken
  <2>2. t \in Starts(Code) \ P /\ ~Flagged(t)
    BY <1>2, <2>1, NewGround DEF ConsumeOps
  <2>3. t \in Consumers
    BY <1>2, <2>2 DEF Consumers, Instr
  <2>4. Continuation(Code, t) = After(Code, t)
    BY <1>2 DEF Continuation, Instr, ConsumeOps
  <2> QED BY <1>2, <2>2, <2>3, <2>4, RunningFacts DEF Continues, GoesOn
<1>6. PICK Q : Q = P \cup {t}
  OBVIOUS
<1>7. /\ Len(kept) \in Nat /\ DOMAIN kept = 1 .. Len(kept)
      /\ Len(kept') = Len(kept) + 1 /\ DOMAIN kept' = 1 .. Len(kept) + 1
      /\ kept'[Len(kept) + 1] = Continues
      /\ \A k \in 1 .. Len(kept) : kept'[k] = kept[k]
  <2>1. kept \in Seq(Threads)
    BY <1>2 DEF Types, TypeOK
  <2> QED BY <1>2, <1>5, <2>1, Appended
<1> HIDE DEF t
<1>8. PassedOnce(Q)'
  <2>1. ASSUME NEW k \in DOMAIN todo', NEW l \in DOMAIN todo',
               todo'[k].ip = todo'[l].ip, ~Flagged(todo'[k].ip)
        PROVE  k = l
    <3>1. k + 1 \in DOMAIN todo /\ l + 1 \in DOMAIN todo /\ todo'[k] = todo[k + 1]
          /\ todo'[l] = todo[l + 1]
      BY <1>3
    <3>2. k + 1 = l + 1
      BY <1>2, <2>1, <3>1 DEF PassedOnce
    <3> QED BY <1>3, <3>2
  <2>2. ASSUME NEW k \in DOMAIN todo', todo'[k].ip \in Q PROVE Flagged(todo'[k].ip)
    <3>1. k + 1 \in DOMAIN todo /\ 1 \in DOMAIN todo /\ k + 1 # 1 /\ todo'[k] = todo[k + 1]
      BY <1>3
    <3>2. CASE todo'[k].ip = t
      BY <1>2, <1>3, <1>5, <3>1, <3>2 DEF PassedOnce
    <3>3. CASE todo'[k].ip \in P
      BY <1>2, <3>1, <3>3 DEF PassedOnce
    <3> QED BY <1>6, <2>2, <3>2, <3>3
  <2>3. \A i \in Q : Flagged(i) => Code[i + 1].operand \in flags'
    BY <1>2, <1>5, <1>6 DEF PassedOnce
  <2>4. Q \subseteq Starts(Code)
    BY <1>2, <1>5, <1>6 DEF PassedOnce
  <2> QED BY <1>4, <2>1, <2>2, <2>3, <2>4 DEF PassedOnce
<1>9. CameBy(Q)'
  <2>1. Reached(Q)' \subseteq Reached(P) /\ P \subseteq Q
    <3>1. t \in Reached(P)
      BY <1>3 DEF Reached
    <3>2. \A k \in DOMAIN todo' : todo'[k].ip \in Reached(P)
      BY <1>3 DEF Reached
    <3>3. P \subseteq Reached(P)
      BY DEF Reached
    <3> QED BY <1>6, <3>1, <3>2, <3>3 DEF Reached
  <2> QED BY <1>2, <1>4, <2>1 DEF CameBy
<1>10. /\ Cardinality(Q \cap Consumers) = Cardinality(P \cap Consumers) + 1
       /\ Cardinality(P \cap Consumers) \in Nat
       /\ Q \cap Splitters = P \cap Splitters
       /\ Cardinality(Consumers \cup (P \cap Splitters)) \in Nat
  <2>1. IsFiniteSet(Consumers) /\ IsFiniteSet(Splitters)
    BY <1>2, CodeFacts
  <2>2. IsFiniteSet(P \cap Splitters) /\ IsFiniteSet(P \cap Consumers)
    BY <2>1, FS_Subset
  <2>3. Q \cap Consumers = (P \cap Consumers) \cup {t} /\ t \notin P \cap Consumers
    BY <1>5, <1>6
  <2>4. Cardinality(Q \cap Consumers) = Cardinality(P \cap Consumers) + 1
    BY <2>2, <2>3, FS_AddElement
  <2>5. t \notin Splitters
    BY <1>5 DEF Consumers, Splitters, ConsumeOps, SplitOps
  <2> QED BY <1>6, <2>1, <2>2, <2>4, <2>5, FS_Union, FS_CardinalityType
<1>11. Waiting(Q)'
  <2>1. ASSUME NEW k \in DOMAIN kept'
        PROVE  \E i \in Q \cap Consumers : kept'[k].ip = After(Code, i)
    <3>1. CASE k = Len(kept) + 1
      BY <1>5, <1>6, <1>7, <3>1
    <3>2. CASE k \in DOMAIN kept
      BY <1>2, <1>6, <1>7, <3>2 DEF Waiting
    <3> QED BY <1>7, <3>1, <3>2
  <2>2. Len(kept') <= Cardinality(Q \cap Consumers)
    BY <1>2, <1>7, <1>10 DEF Waiting
  <2> QED BY <1>4, <2>1, <2>2 DEF Waiting
<1>12. DistinctThreads'
  <2>1. ASSUME NEW k \in 1 .. Len(kept) PROVE kept[k].ip # Continues.ip
    <3>1. PICK i \in P \cap Consumers : kept[k].ip = After(Code, i)
      BY <1>2, <1>7 DEF Waiting
    <3>2. i \in Starts(Code) /\ i # t
      BY <1>5, <3>1 DEF Consumers
    <3> QED BY <1>2, <1>5, <3>1, <3>2, AfterDiffers
  <2> SUFFICES ASSUME NEW i \in DOMAIN kept', NEW j \in DOMAIN kept', kept'[i].ip = kept'[j].ip
               PROVE  i = j
    BY DEF DistinctThreads
  <2>2. CASE i \in 1 .. Len(kept) /\ j \in 1 .. Len(kept)
    BY <1>2, <1>7, <2>2 DEF DistinctThreads
  <2>3. CASE i \in 1 .. Len(kept) /\ j = Len(kept) + 1
    BY <1>7, <2>1, <2>3
  <2>4. CASE i = Len(kept) + 1 /\ j \in 1 .. Len(kept)
    BY <1>7, <2>1, <2>4
  <2> QED BY <1>7, <2>2, <2>3, <2>4
<1>13. Counted(Q)'
  <2>1. Len(kept') + Len(todo') = Len(kept) + Len(todo)
    BY <1>3, <1>7
  <2>2. Consumers' \cup (Q \cap Splitters') = Consumers \cup (P \cap Splitters)
    BY <1>4, <1>10
  <2> QED BY <1>2, <2>1, <2>2 DEF Counted
<1>14. Passed(Q)'
  BY <1>8, <1>9, <1>11, <1>13 DEF Passed
<1> QED BY <1>12, <1>14

LEMMA SplitOnce ==
  ASSUME WaysFlagged, OnceInv, Split
  PROVE  DistinctThreads' /\ \E P : Passed(P)'
<1> DEFINE t == Thread.ip
           u == GoesOn(SplitPointer(Code, Thread.ip), Thread.ptrs)
<1>1. PICK P : Passed(P)
  BY DEF OnceInv
<1>2. /\ Types /\ Running /\ ~AtEnd /\ Instr.op \in SplitOps
      /\ todo' = <<Continues, u>> \o Tail(todo) /\ kept' = kept /\ flags' = flags
      /\ regex' = regex /\ spawned' = spawned
      /\ PassedOnce(P) /\ CameBy(P) /\ Waiting(P) /\ Counted(P) /\ DistinctThreads
  BY <1>1 DEF OnceInv, IInv, Passed, Split, stepFrame, args
<1>3. /\ t \in Starts(Code) \ P /\ ~Flagged(t) /\ t \in Splitters /\ t \notin Consumers
      /\ \A e \in Edges(Code) : e.from = t /\ ~Flagged(e.to) => e.to \notin Reached(P)
  <2>1. ~FlagTaken /\ Instr.op # "TEST_AND_SET_FLAG"
    BY <1>2 DEF SplitOps, FlagTaken
  <2>2. t \in Starts(Code)
    BY <1>2, RunningFacts
  <2>3. t \in Splitters /\ t \notin Consumers
    BY <1>2, <2>2 DEF Splitters, Consumers, SplitOps, ConsumeOps, Instr
  <2> QED BY <1>2, <2>1, <2>3, NewGround
<1>4. Continues \in Threads /\ u \in Threads /\ u.ip = SplitPointer(Code, t)
      /\ Continues.ip = Continuation(Code, t)
  <2>1. WellFormed(regex) /\ t \in Starts(Code) /\ Continues \in Threads
        /\ Thread.ptrs \in Pointers(n_pointers, Len(text))
    BY <1>2, RegexFacts, RunningFacts
  <2>2. SplitPointer(Code, t) \in Labels(Code)
    BY <1>2, <2>1 DEF WellFormed, Instr, Code
  <2> QED BY <2>1, <2>2 DEF GoesOn, Threads, Continues
<1> HIDE DEF u
<1>5. /\ todo[1].ip = t
      /\ Len(todo) \in Nat /\ Len(todo) >= 1 /\ DOMAIN todo = 1 .. Len(todo)
      /\ DOMAIN todo' = 1 .. Len(todo) + 1 /\ Len(todo') = Len(todo) + 1
      /\ todo'[1] = Continues /\ todo'[2] = u
      /\ \A k \in 3 .. Len(todo) + 1 : todo'[k] = todo[k - 1]
  <2>1. todo \in Seq(Threads) /\ todo # <<>> /\ Thread = todo[1]
    BY <1>2, RunningFacts
  <2> QED BY <1>2, <1>4, <2>1, HeadAndTail, HeadSplit
<1> DEFINE e == [from |-> t, kind |-> "goes", to |-> Continues.ip]
           f == [from |-> t, kind |-> "splits", to |-> u.ip]
<1>6. /\ e \in Edges(Code) /\ e.from = t /\ e.to = Continues.ip
      /\ f \in Edges(Code) /\ f.from = t /\ f.to = u.ip /\ e # f
  BY <1>3, <1>4, WaysFrom
<1> HIDE DEF e, f
<1>7. /\ ~Flagged(Continues.ip) => Continues.ip \notin Reached(P)
      /\ ~Flagged(u.ip) => u.ip \notin Reached(P)
      /\ ~Flagged(u.ip) => u.ip # Continues.ip
  BY <1>2, <1>3, <1>6, OneWay
<1>8. t \in Reached(P) /\ \A k \in DOMAIN todo : todo[k].ip \in Reached(P)
  BY <1>5 DEF Reached
<1> HIDE DEF t
<1>9. /\ Code' = Code /\ Consumers' = Consumers /\ Splitters' = Splitters
      /\ \A i : Flagged(i)' <=> Flagged(i)
  BY <1>2 DEF Code, Consumers, Splitters, Flagged
<1>10. PICK Q : Q = P \cup {t}
  OBVIOUS
<1>11. \A k \in 3 .. Len(todo) + 1 :
         k - 1 \in DOMAIN todo /\ k - 1 # 1 /\ todo'[k] = todo[k - 1]
  BY <1>5
<1>12. 1 \in DOMAIN todo
  BY <1>5
<1>13. PassedOnce(Q)'
  <2>1. ASSUME NEW k \in DOMAIN todo', NEW l \in DOMAIN todo',
               todo'[k].ip = todo'[l].ip, ~Flagged(todo'[k].ip)
        PROVE  k = l
    <3>1. CASE k \in {1, 2} /\ l \in {1, 2}
      BY <1>5, <1>7, <2>1, <3>1
    <3>2. CASE k \in {1, 2} /\ l \in 3 .. Len(todo) + 1
      BY <1>5, <1>7, <1>8, <1>11, <2>1, <3>2
    <3>3. CASE k \in 3 .. Len(todo) + 1 /\ l \in {1, 2}
      BY <1>5, <1>7, <1>8, <1>11, <2>1, <3>3
    <3>4. CASE k \in 3 .. Len(todo) + 1 /\ l \in 3 .. Len(todo) + 1
      <4>1. k - 1 = l - 1
        BY <1>2, <1>11, <2>1, <3>4 DEF PassedOnce
      <4> QED BY <1>5, <3>4, <4>1
    <3> QED BY <1>5, <3>1, <3>2, <3>3, <3>4
  <2>2. ASSUME NEW k \in DOMAIN todo', todo'[k].ip \in Q PROVE Flagged(todo'[k].ip)
    <3>1. CASE k \in {1, 2}
      <4>1. Q \subseteq Reached(P)
        BY <1>8, <1>10 DEF Reached
      <4> QED BY <1>5, <1>7, <2>2, <3>1, <4>1
    <3>2. CASE k \in 3 .. Len(todo) + 1
      <4>1. k - 1 \in DOMAIN todo /\ k - 1 # 1 /\ todo'[k] = todo[k - 1]
        BY <1>11, <3>2
      <4>2. CASE todo'[k].ip = t
        BY <1>2, <1>3, <1>5, <1>12, <4>1, <4>2 DEF PassedOnce
      <4>3. CASE todo'[k].ip \in P
        BY <1>2, <4>1, <4>3 DEF PassedOnce
      <4> QED BY <1>10, <2>2, <4>2, <4>3
    <3> QED BY <1>5, <3>1, <3>2
  <2>3. \A i \in Q : Flagged(i) => Code[i + 1].operand \in flags'
    BY <1>2, <1>3, <1>10 DEF PassedOnce
  <2>4. Q \subseteq Starts(Code)
    BY <1>2, <1>3, <1>10 DEF PassedOnce
  <2> QED BY <1>9, <2>1, <2>2, <2>3, <2>4 DEF PassedOnce
<1>14. CameBy(Q)'
  <2>1. ASSUME NEW g \in Edges(Code), g.to \in Reached(Q)', ~Flagged(g.to)
        PROVE  IF g.from = Entry THEN spawned ELSE g.from \in Q \cup Consumers
    <3>1. g.to \in Reached(P) \/ g.to = Continues.ip \/ g.to = u.ip
      <4>1. CASE g.to \in Q
        BY <1>8, <1>10, <4>1 DEF Reached
      <4>2. ASSUME NEW k \in DOMAIN todo', g.to = todo'[k].ip
            PROVE  g.to \in Reached(P) \/ g.to = Continues.ip \/ g.to = u.ip
        <5>1. CASE k \in {1, 2}
          BY <1>5, <4>2, <5>1
        <5>2. CASE k \in 3 .. Len(todo) + 1
          BY <1>8, <1>11, <4>2, <5>2
        <5> QED BY <1>5, <5>1, <5>2
      <4> QED BY <2>1, <4>1, <4>2 DEF Reached
    <3>2. CASE g.to \in Reached(P)
      BY <1>2, <1>10, <2>1, <3>2 DEF CameBy
    <3>3. CASE g.to = Continues.ip \/ g.to = u.ip
      <4>1. g = e \/ g = f
        BY <1>2, <1>6, <2>1, <3>3, OneWay
      <4>2. g.from = t /\ t # Entry
        BY <1>2, <1>3, <1>6, <4>1, CodeFacts DEF Entry
      <4> QED BY <1>10, <4>2
    <3> QED BY <3>1, <3>2, <3>3
  <2> QED BY <1>2, <1>9, <2>1 DEF CameBy
<1>15. Waiting(Q)' /\ DistinctThreads'
  <2>1. Q \cap Consumers = P \cap Consumers
    BY <1>3, <1>10
  <2> QED BY <1>2, <1>9, <2>1 DEF Waiting, DistinctThreads
<1>16. Counted(Q)'
  <2> DEFINE A == Consumers \cup (P \cap Splitters)
             B == Consumers \cup (Q \cap Splitters)
  <2>1. B = A \cup {t} /\ t \notin A
    BY <1>3, <1>10
  <2>2. IsFiniteSet(A)
    <3>1. IsFiniteSet(Consumers) /\ IsFiniteSet(Splitters)
      BY <1>2, CodeFacts
    <3>2. IsFiniteSet(P \cap Splitters)
      BY <3>1, FS_Subset
    <3> QED BY <3>1, <3>2, FS_Union
  <2>3. Len(kept) + Len(todo) <= Cardinality(A) + (IF spawned THEN 1 ELSE 0)
    BY <1>2 DEF Counted
  <2> HIDE DEF A, B
  <2>4. Cardinality(B) = Cardinality(A) + 1 /\ Cardinality(A) \in Nat
    BY <2>1, <2>2, FS_AddElement, FS_CardinalityType
  <2>5. Len(kept) \in Nat
    BY <1>2 DEF Types, TypeOK
  <2>6. Len(kept') + Len(todo') <= Cardinality(B) + (IF spawned THEN 1 ELSE 0)
    BY <1>2, <1>5, <2>3, <2>4, <2>5
  <2> QED BY <1>2, <1>9, <2>6 DEF Counted, B
<1>17. Passed(Q)'
  BY <1>13, <1>14, <1>15, <1>16 DEF Passed
<1> QED BY <1>15, <1>17

LEMMA SpawnOnce ==
  ASSUME WaysFlagged, OnceInv, Spawn
  PROVE  DistinctThreads' /\ \E P : Passed(P)'
<1>1. PICK P : Passed(P)
  BY DEF OnceInv
<1>2. /\ Types /\ todo = <<>> /\ ~spawned /\ spawned'
      /\ Len(todo) = 0 /\ DOMAIN todo = {} /\ Len(todo') = 1 /\ DOMAIN todo' = {1}
      /\ todo'[1].ip = 0
      /\ kept' = kept /\ flags' = flags /\ regex' = regex
      /\ PassedOnce(P) /\ CameBy(P) /\ Waiting(P) /\ Counted(P) /\ DistinctThreads
  BY <1>1 DEF OnceInv, IInv, Passed, Spawn, args
<1>3. /\ Code' = Code /\ Consumers' = Consumers /\ Splitters' = Splitters
      /\ \A i : Flagged(i)' <=> Flagged(i)
  BY <1>2 DEF Code, Consumers, Splitters, Flagged
<1> DEFINE e == [from |-> Entry, kind |-> "goes", to |-> 0]
<1>4. e \in Edges(Code) /\ e.from = Entry /\ e.to = 0
  BY WayIn
<1> HIDE DEF e
<1>5. ~Flagged(0) => 0 \notin P
  BY <1>2, <1>4 DEF CameBy, Reached
<1>6. PassedOnce(P)'
  BY <1>2, <1>3, <1>5 DEF PassedOnce
<1>7. CameBy(P)'
  <2>1. ASSUME NEW g \in Edges(Code), g.to \in Reached(P)', ~Flagged(g.to)
        PROVE  IF g.from = Entry THEN spawned' ELSE g.from \in P \cup Consumers
    <3>1. CASE g.to \in P
      BY <1>2, <2>1, <3>1 DEF CameBy, Reached
    <3>2. CASE g.to = 0
      <4>1. g = e
        BY <1>2, <1>4, <2>1, <3>2, OneWay
      <4> QED BY <1>2, <1>4, <4>1
    <3> QED BY <1>2, <2>1, <3>1, <3>2 DEF Reached
  <2> QED BY <1>3, <2>1 DEF CameBy
<1>8. Waiting(P)' /\ DistinctThreads'
  BY <1>2, <1>3 DEF Waiting, DistinctThreads
<1>9. Counted(P)'
  <2>1. Len(kept) \in Nat
    BY <1>2 DEF Types, TypeOK
  <2>2. Cardinality(Consumers \cup (P \cap Splitters)) \in Nat
    <3>1. IsFiniteSet(Consumers) /\ IsFiniteSet(Splitters)
      BY <1>2, CodeFacts
    <3>2. IsFiniteSet(P \cap Splitters)
      BY <3>1, FS_Subset
    <3> QED BY <3>1, <3>2, FS_Union, FS_CardinalityType
  <2> QED BY <1>2, <1>3, <2>1, <2>2 DEF Counted
<1> QED BY <1>6, <1>7, <1>8, <1>9 DEF Passed

\* The threads that wait are those of the next position, and nothing has been
\* passed there.
LEMMA EndPositionOnce ==
  ASSUME WaysFlagged, OnceInv, EndPosition
  PROVE  DistinctThreads' /\ \E P : Passed(P)'
<1>1. PICK P : Passed(P)
  BY DEF OnceInv
<1>2. /\ Types /\ kept' = <<>> /\ ~spawned' /\ regex' = regex
      /\ todo' = kept \/ todo' = <<>>
      /\ Waiting(P) /\ DistinctThreads
  BY <1>1 DEF OnceInv, IInv, Passed, EndPosition, args
<1>3. /\ Code' = Code /\ Consumers' = Consumers /\ Splitters' = Splitters
      /\ \A i : Flagged(i)' <=> Flagged(i)
  BY <1>2 DEF Code, Consumers, Splitters, Flagged
<1>4. /\ \A k, l \in DOMAIN todo' : todo'[k].ip = todo'[l].ip => k = l
      /\ \A k \in DOMAIN todo' : \E i \in P \cap Consumers : todo'[k].ip = After(Code, i)
      /\ Len(todo') \in Nat /\ Len(todo') <= Cardinality(P \cap Consumers)
  <2>1. Cardinality(P \cap Consumers) \in Nat
    <3>1. IsFiniteSet(P \cap Consumers)
      BY <1>2, CodeFacts, FS_Subset
    <3> QED BY <3>1, FS_CardinalityType
  <2>2. CASE todo' = kept
    BY <1>2, <2>2 DEF Waiting, DistinctThreads, Types, TypeOK
  <2>3. CASE todo' = <<>>
    BY <2>1, <2>3
  <2> QED BY <1>2, <2>2, <2>3
<1>5. PassedOnce({})'
  BY <1>4 DEF PassedOnce
<1>6. CameBy({})'
  <2>1. ASSUME NEW g \in Edges(Code), NEW k \in DOMAIN todo', g.to = todo'[k].ip, ~Flagged(g.to)
        PROVE  g.from # Entry /\ g.from \in Consumers
    <3>1. PICK i \in P \cap Consumers : todo'[k].ip = After(Code, i)
      BY <1>4
    <3> DEFINE e == [from |-> i, kind |-> "goes", to |-> Continuation(Code, i)]
    <3>2. i \in Starts(Code) /\ i # Entry /\ Continuation(Code, i) = After(Code, i)
      BY <1>2, CodeFacts DEF Consumers, ConsumeOps, Continuation, Entry
    <3>3. e \in Edges(Code) /\ e.from = i /\ e.to = After(Code, i)
      BY <3>2, WaysFrom
    <3> HIDE DEF e
    <3>4. g = e
      BY <1>2, <2>1, <3>1, <3>3, OneWay
    <3> QED BY <3>2, <3>3, <3>4
  <2> QED BY <1>3, <2>1 DEF CameBy, Reached
<1>7. Waiting({})' /\ DistinctThreads'
  <2>1. DOMAIN kept' = {} /\ Len(kept') = 0
    BY <1>2
  <2>2. Cardinality({} \cap Consumers') = 0
    <3>1. {} \cap Consumers' = {}
      OBVIOUS
    <3> QED BY <3>1, FS_EmptySet
  <2> QED BY <2>1, <2>2 DEF Waiting, DistinctThreads
<1>8. Counted({})'
  <2>1. Cardinality(P \cap Consumers) <= Cardinality(Consumers)
        /\ Cardinality(P \cap Consumers) \in Nat /\ Cardinality(Consumers) \in Nat
    <3>1. IsFiniteSet(Consumers) /\ IsFiniteSet(P \cap Consumers)
      BY <1>2, CodeFacts, FS_Subset
    <3> QED BY <3>1, FS_Subset, FS_CardinalityType
  <2>2. Consumers' \cup ({} \cap Splitters') = Consumers
    BY <1>3
  <2>3. Len(kept') = 0
    BY <1>2
  <2> QED BY <1>2, <1>4, <2>1, <2>2, <2>3 DEF Counted
<1> QED BY <1>5, <1>6, <1>7, <1>8 DEF Passed

\* Nothing has been passed where there are no threads.
LEMMA EmptyOnce ==
  ASSUME Types, kept = <<>>, todo = <<>>
  PROVE  DistinctThreads /\ Passed({})
<1>1. DOMAIN kept = {} /\ Len(kept) = 0 /\ DOMAIN todo = {} /\ Len(todo) = 0
  OBVIOUS
<1>2. Cardinality({} \cap Consumers) = 0
  <2>1. {} \cap Consumers = {}
    OBVIOUS
  <2> QED BY <2>1, FS_EmptySet
<1>3. Cardinality(Consumers \cup ({} \cap Splitters)) \in Nat
  <2>1. Consumers \cup ({} \cap Splitters) = Consumers
    OBVIOUS
  <2> QED BY <2>1, CodeFacts, FS_CardinalityType
<1> QED BY <1>1, <1>2, <1>3 DEF DistinctThreads, Passed, PassedOnce, CameBy, Reached, Waiting, Counted

LEMMA EmptyOnceNext ==
  ASSUME Types', kept' = <<>>, todo' = <<>>
  PROVE  DistinctThreads' /\ \E P : Passed(P)'
<1>1. DOMAIN kept' = {} /\ Len(kept') = 0 /\ DOMAIN todo' = {} /\ Len(todo') = 0
  OBVIOUS
<1>2. Cardinality({} \cap Consumers') = 0
  <2>1. {} \cap Consumers' = {}
    OBVIOUS
  <2> QED BY <2>1, FS_EmptySet
<1>3. Cardinality(Consumers' \cup ({} \cap Splitters')) \in Nat
  <2>1. Code' \in Seq(Cells)
    BY RegexAssumption DEF Types, Code, WellFormed
  <2>2. Len(Code') \in Nat /\ Consumers' \subseteq 0 .. Len(Code') - 1
    BY <2>1 DEF Consumers, Starts
  <2>3. IsFiniteSet(Consumers')
    <3>1. IsFiniteSet(0 .. Len(Code') - 1)
      BY <2>2, FS_Interval
    <3> QED BY <2>2, <3>1, FS_Subset
  <2>4. Consumers' \cup ({} \cap Splitters') = Consumers'
    OBVIOUS
  <2> QED BY <2>3, <2>4, FS_CardinalityType
<1>4. DistinctThreads' /\ Passed({})'
  BY <1>1, <1>2, <1>3 DEF DistinctThreads, Passed, PassedOnce, CameBy, Reached, Waiting, Counted
<1> QED BY <1>4

\* A match ends the position, or the call.
LEMMA MatchOnce ==
  ASSUME WaysFlagged, OnceInv, Match, Types'
  PROVE  DistinctThreads' /\ \E P : Passed(P)'
<1>1. PICK P : Passed(P)
  BY DEF OnceInv
<1>2. CASE kept' = <<>>
  <2>1. todo' = <<>>
    BY DEF Match
  <2> QED BY <1>2, <2>1, EmptyOnceNext
<1>3. CASE n_pointers # 0
  <2>1. /\ Types /\ todo' = <<>> /\ kept' = kept /\ flags' = flags /\ regex' = regex
        /\ spawned' = spawned
        /\ PassedOnce(P) /\ CameBy(P) /\ Waiting(P) /\ Counted(P) /\ DistinctThreads
    BY <1>1, <1>3 DEF OnceInv, IInv, Passed, Match, args
  <2>2. DOMAIN todo' = {} /\ Len(todo') = 0 /\ Len(todo) \in Nat /\ Len(kept) \in Nat
    BY <2>1 DEF Types, TypeOK
  <2>3. /\ Code' = Code /\ Consumers' = Consumers /\ Splitters' = Splitters
        /\ \A i : Flagged(i)' <=> Flagged(i)
    BY <2>1 DEF Code, Consumers, Splitters, Flagged
  <2>4. PassedOnce(P)' /\ Waiting(P)' /\ DistinctThreads'
    BY <2>1, <2>2, <2>3 DEF PassedOnce, Waiting, DistinctThreads
  <2>5. CameBy(P)'
    BY <2>1, <2>2, <2>3 DEF CameBy, Reached
  <2>6. Counted(P)'
    <3>1. Cardinality(Consumers \cup (P \cap Splitters)) \in Nat
      <4>1. IsFiniteSet(Consumers) /\ IsFiniteSet(Splitters)
        BY <2>1, CodeFacts
      <4>2. IsFiniteSet(P \cap Splitters)
        BY <4>1, FS_Subset
      <4> QED BY <4>1, <4>2, FS_Union, FS_CardinalityType
    <3> QED BY <2>1, <2>2, <2>3, <3>1 DEF Counted
  <2> QED BY <2>4, <2>5, <2>6 DEF Passed
<1>4. kept' = <<>> \/ n_pointers # 0
  BY DEF Match
<1> QED BY <1>2, <1>3, <1>4

LEMMA QuietOnce ==
  ASSUME OnceInv, UNCHANGED <<regex, kept, todo, flags, spawned>>
  PROVE  DistinctThreads' /\ \E P : Passed(P)'
<1>1. PICK P : Passed(P)
  BY DEF OnceInv
<1>2. /\ Code' = Code /\ Consumers' = Consumers /\ Splitters' = Splitters
      /\ \A i : Flagged(i)' <=> Flagged(i)
  BY DEF Code, Consumers, Splitters, Flagged
<1>3. Reached(P)' = Reached(P)
  BY DEF Reached
<1> QED BY <1>1, <1>2, <1>3
        DEF OnceInv, DistinctThreads, Passed, PassedOnce, CameBy, Waiting, Counted

LEMMA OnceNext ==
  ASSUME WaysFlagged, OnceInv, [Next]_vars
  PROVE  OnceInv'
<1>1. IInv'
  BY NextInv DEF OnceInv
<1>2. Types'
  BY <1>1 DEF IInv
<1>3. CASE Call \/ OutOfMemory
  BY <1>1, <1>2, <1>3, EmptyOnceNext DEF Call, OutOfMemory, Cleared, OnceInv
<1>4. CASE EnterPosition \/ Return \/ UNCHANGED vars
  BY <1>1, <1>4, QuietOnce DEF EnterPosition, Return, vars, args, OnceInv
<1>5. CASE Spawn
  BY <1>1, <1>5, SpawnOnce DEF OnceInv
<1>6. CASE Reject
  BY <1>1, <1>6, RejectOnce DEF OnceInv
<1>7. CASE Consume
  BY <1>1, <1>7, ConsumeOnce DEF OnceInv
<1>8. CASE Advance \/ TestAndSetFlag \/ WritePointer
  BY <1>1, <1>8, OneWayOnce DEF OnceInv
<1>9. CASE Split
  BY <1>1, <1>9, SplitOnce DEF OnceInv
<1>10. CASE Match
  BY <1>1, <1>2, <1>10, MatchOnce DEF OnceInv
<1>11. CASE EndPosition
  BY <1>1, <1>11, EndPositionOnce DEF OnceInv
<1> QED BY <1>3, <1>4, <1>5, <1>6, <1>7, <1>8, <1>9, <1>10, <1>11 DEF Next, Run, Step

LEMMA OnceInvariant == WaysFlagged => (Spec => []OnceInv)
<1> SUFFICES ASSUME WaysFlagged PROVE Spec => []OnceInv
  OBVIOUS
<1>1. Init => OnceInv
  BY InitInv, EmptyOnce DEF Init, OnceInv, IInv
<1>2. OnceInv /\ [Next]_vars => OnceInv'
  BY OnceNext
<1> QED BY <1>1, <1>2, PTL DEF Spec

\* At a position no two waiting threads stand at the same instruction, in any
\* program in which the compiler has put flags where ways meet: however many
\* flags it has, and even where several instructions share one.
THEOREM ThreadsAreDistinct ==
  ASSUME WaysFlagged
  PROVE  Spec => []DistinctThreads
<1>1. OnceInv => DistinctThreads
  BY DEF OnceInv
<1>2. Spec => []OnceInv
  BY OnceInvariant
<1> QED BY <1>1, <1>2, PTL

\* How many threads there are at a time: no more than the program has
\* instructions that wait or split, and one.  When one splits there is one
\* less, as when none was spawned at this position.
ThreadsBounded ==
  LET n == Cardinality(Consumers \cup Splitters)
      m == Len(kept) + Len(todo)
  IN /\ m <= n + 1
     /\ ~spawned => m <= n
     /\ Running /\ ~AtEnd /\ Instr.op \in SplitOps => m <= n

LEMMA OnceBounds == ASSUME WaysFlagged, OnceInv PROVE ThreadsBounded
<1>1. PICK P : Passed(P)
  BY DEF OnceInv
<1>2. /\ Types /\ PassedOnce(P) /\ CameBy(P) /\ Counted(P) /\ Len(kept) \in Nat /\ Len(todo) \in Nat
  BY <1>1 DEF OnceInv, IInv, Passed, Types, TypeOK
<1> DEFINE A == Consumers \cup (P \cap Splitters)
           B == Consumers \cup Splitters
<1>3. IsFiniteSet(B) /\ A \subseteq B
  <2>1. IsFiniteSet(Consumers) /\ IsFiniteSet(Splitters)
    BY <1>2, CodeFacts
  <2> QED BY <2>1, FS_Union
<1>4. IsFiniteSet(A) /\ Cardinality(A) \in Nat /\ Cardinality(B) \in Nat
      /\ Cardinality(A) <= Cardinality(B) /\ (Cardinality(A) = Cardinality(B) => A = B)
  BY <1>3, FS_Subset, FS_CardinalityType
<1>5. ASSUME Running, ~AtEnd, Instr.op \in SplitOps PROVE A # B
  <2>1. Thread.ip \in Starts(Code) \ P
    BY <1>2, <1>5, NewGround DEF FlagTaken, SplitOps
  <2>2. Thread.ip \in Splitters /\ Thread.ip \notin Consumers
    BY <1>5, <2>1 DEF Splitters, Consumers, SplitOps, ConsumeOps, Instr
  <2> QED BY <2>1, <2>2
<1>6. Len(kept) + Len(todo) <= Cardinality(A) + (IF spawned THEN 1 ELSE 0)
  BY <1>2 DEF Counted
<1> HIDE DEF A, B
<1>7. /\ Len(kept) + Len(todo) <= Cardinality(B) + 1
      /\ ~spawned => Len(kept) + Len(todo) <= Cardinality(B)
      /\ Running /\ ~AtEnd /\ Instr.op \in SplitOps => Len(kept) + Len(todo) <= Cardinality(B)
  BY <1>2, <1>4, <1>5, <1>6
<1> QED BY <1>7 DEF ThreadsBounded, B

\* The threads of a call are no more than its program has instructions that
\* wait or split, and one, however long the string.
THEOREM FewThreads ==
  ASSUME WaysFlagged
  PROVE  Spec => []ThreadsBounded
<1>1. OnceInv => ThreadsBounded
  BY OnceBounds
<1>2. Spec => []OnceInv
  BY OnceInvariant
<1> QED BY <1>1, <1>2, PTL
=============================================================================
