------------------------------- MODULE PikeVm -------------------------------
(***************************************************************************)
(* The matching algorithm of run_threads and execute_regex without its     *)
(* memory: the threads of a call are two sequences, in priority order, and *)
(* nothing is said of where they are stored.  It is what both engines      *)
(* promise, the bytecode engine (Vm) and the native one (NativeVm).        *)
(*                                                                         *)
(* A call to crex_is_match, crex_find or crex_match_groups asks for        *)
(* n_pointers capture pointers: none, those of group 0, or all.            *)
(***************************************************************************)
EXTENDS Bytecode, FiniteSets

CONSTANTS
  Regexes,   \* the compiled regexes the client holds
  Texts      \* the strings it matches them against

ASSUME RegexAssumption ==
  /\ \A r \in Regexes :
       /\ r.groups \in Nat \ {0}
       /\ r.flags \in Nat
       /\ r.classes \in Seq(SUBSET Chars)
       /\ WellFormed(r)
  /\ Texts \subseteq Seq(Chars)

ASSUME BeginsAssumption == \A r \in Regexes : BeginsOnce(r.code)

VARIABLES
  regex, text, n_pointers,   \* the arguments of the current or last call
  status,    \* "idle", "position", "threads" or "finish"
  pos,       \* the position in the string
  kept,      \* threads that wait for the next position, best first
  todo,      \* threads still to run at this one; the first is running
  flags,     \* the flags set at this position
  spawned,   \* has this position started its thread?
  matched,   \* the best match so far: no pointers, or one set of them
  result     \* what the last call returned

vars == <<regex, text, n_pointers, status, pos, kept, todo, flags, spawned,
          matched, result>>
args == <<regex, text, n_pointers>>

Null == -1                       \* a NULL capture pointer

Code == regex.code

Pointers(n, last) == [0 .. n - 1 -> {Null} \cup 0 .. last]
NullPointers(n)   == [p \in 0 .. n - 1 |-> Null]

NPointers(r) == {0, 2, 2 * r.groups}

Threads == [ip : Labels(Code), ptrs : Pointers(n_pointers, Len(text))]

Result(st, found, ptrs) == [status |-> st, found |-> found, ptrs |-> ptrs]

\* The types of the variables; Regexes is left out, of which regex is one from
\* the beginning, as it is costly to compare programs.
TypeOK ==
  /\ text \in Texts
  /\ n_pointers \in NPointers(regex)
  /\ status \in {"idle", "position", "threads", "finish"}
  /\ pos \in 0 .. Len(text)
  /\ kept \in Seq(Threads)
  /\ todo \in Seq(Threads)
  /\ flags \subseteq 0 .. regex.flags - 1
  /\ spawned \in BOOLEAN
  /\ matched \in Seq(Pointers(n_pointers, Len(text))) /\ Len(matched) <= 1
  /\ result \in [status : {"NONE", "OK", "E_NOMEM"}, found : BOOLEAN,
                 ptrs : Pointers(n_pointers, Len(text))]

Cleared == /\ kept' = <<>> /\ todo' = <<>> /\ flags' = {} /\ spawned' = FALSE

Init ==
  /\ regex \in Regexes
  /\ text \in Texts
  /\ n_pointers = 0
  /\ status = "idle"
  /\ pos = 0
  /\ kept = <<>> /\ todo = <<>> /\ flags = {} /\ spawned = FALSE
  /\ matched = <<>>
  /\ result = Result("NONE", FALSE, <<>>)

-----------------------------------------------------------------------------
(* One call                                                                *)

Call ==
  /\ status = "idle"
  /\ \E r \in Regexes, t \in Texts : \E n \in NPointers(r) :
       /\ regex' = r /\ text' = t /\ n_pointers' = n
       /\ result' = Result("NONE", FALSE, NullPointers(n))
  /\ status' = "position"
  /\ pos' = 0
  /\ matched' = <<>>
  /\ Cleared

\* When no thread is left that could improve on the match the search may end
\* (executor.c does that) or go through the rest of the string in vain (the
\* native engine does).
EnterPosition ==
  /\ status = "position"
  /\ \/ status' = "threads"
     \/ todo = <<>> /\ matched # <<>> /\ status' = "finish"
  /\ UNCHANGED <<args, pos, kept, todo, flags, spawned, matched, result>>

\* Mutant of Spawn: a match does not stop new threads.
SpawnAfterMatch ==
  /\ status = "threads" /\ todo = <<>> /\ ~spawned
  /\ todo' = <<[ip |-> 0, ptrs |-> NullPointers(n_pointers)]>>
  /\ spawned' = TRUE
  /\ UNCHANGED <<args, status, pos, kept, flags, matched, result>>

\* Start a thread at this position, behind every thread there is.
Spawn ==
  /\ status = "threads" /\ todo = <<>> /\ ~spawned /\ matched = <<>>
  /\ todo' = <<[ip |-> 0, ptrs |-> NullPointers(n_pointers)]>>
  /\ spawned' = TRUE
  /\ UNCHANGED <<args, status, pos, kept, flags, matched, result>>

-----------------------------------------------------------------------------
(* One instruction of the running thread                                   *)

Running  == status = "threads" /\ todo # <<>>
Thread   == Head(todo)
AtEnd    == Thread.ip = Len(Code)
Instr    == Code[Thread.ip + 1]

stepFrame == <<args, status, pos, spawned, matched, result>>

\* The running thread goes on at ip with the pointers ptrs.
GoesOn(ip, ptrs) == [ip |-> ip, ptrs |-> ptrs]
Continues == GoesOn(Continuation(Code, Thread.ip), Thread.ptrs)

FlagIgnored == FALSE             \* Mutant of FlagTaken.
FlagTaken == Instr.op = "TEST_AND_SET_FLAG" /\ Instr.operand \in flags
Dies ==
  \/ Instr.op \in ConsumeOps /\ ~Accepts(regex, Thread.ip, CharAt(text, pos))
  \/ Instr.op \in AnchorOps
       /\ ~AnchorHolds(Instr.op, CharBefore(text, pos), CharAt(text, pos))
  \/ FlagTaken

Reject ==
  /\ Running /\ ~AtEnd /\ Dies
  /\ todo' = Tail(todo)
  /\ UNCHANGED <<stepFrame, kept, flags>>

Consume ==
  /\ Running /\ ~AtEnd /\ Instr.op \in ConsumeOps /\ ~Dies
  /\ kept' = Append(kept, Continues)
  /\ todo' = Tail(todo)
  /\ UNCHANGED <<stepFrame, flags>>

Advance ==
  /\ Running /\ ~AtEnd /\ Instr.op \in AnchorOps \cup {"JUMP"} /\ ~Dies
  /\ todo' = <<Continues>> \o Tail(todo)
  /\ UNCHANGED <<stepFrame, kept, flags>>

TestAndSetFlag ==
  /\ Running /\ ~AtEnd /\ Instr.op = "TEST_AND_SET_FLAG" /\ ~Dies
  /\ flags' = flags \cup {Instr.operand}
  /\ todo' = <<Continues>> \o Tail(todo)
  /\ UNCHANGED <<stepFrame, kept>>

\* Mutant of Split: the new thread goes to the end of the list.
SplitAtEnd ==
  /\ Running /\ ~AtEnd /\ Instr.op \in SplitOps
  /\ todo' = <<Continues>> \o Tail(todo)
               \o <<GoesOn(SplitPointer(Code, Thread.ip), Thread.ptrs)>>
  /\ UNCHANGED <<stepFrame, kept, flags>>

\* The new thread comes directly behind the one that made it.
Split ==
  /\ Running /\ ~AtEnd /\ Instr.op \in SplitOps
  /\ todo' = <<Continues, GoesOn(SplitPointer(Code, Thread.ip), Thread.ptrs)>>
               \o Tail(todo)
  /\ UNCHANGED <<stepFrame, kept, flags>>

\* Pointers the caller did not ask for are not recorded.
WritePointer ==
  /\ Running /\ ~AtEnd /\ Instr.op = "WRITE_POINTER"
  /\ todo' = <<GoesOn(After(Code, Thread.ip),
                      IF Instr.operand < n_pointers
                      THEN [Thread.ptrs EXCEPT ![Instr.operand] = pos]
                      ELSE Thread.ptrs)>> \o Tail(todo)
  /\ UNCHANGED <<stepFrame, kept, flags>>

\* Mutant of Match: the threads behind the match stay.
MatchKeepsTail ==
  /\ Running /\ AtEnd
  /\ matched' = <<Thread.ptrs>>
  /\ todo' = Tail(todo)
  /\ UNCHANGED <<args, status, pos, kept, flags, spawned, result>>

\* A match beats everything behind it; a search for a yes or no ends here.
Match ==
  /\ Running /\ AtEnd
  /\ matched' = <<Thread.ptrs>>
  /\ todo' = <<>>
  /\ IF n_pointers = 0
     THEN status' = "finish" /\ kept' = <<>> /\ flags' = {} /\ spawned' = FALSE
     ELSE UNCHANGED <<status, kept, flags, spawned>>
  /\ UNCHANGED <<args, pos, result>>

-----------------------------------------------------------------------------
(* The end of a position, and of the call                                  *)

\* Mutant of EndPosition: the end of the string does not end the search.
EndPositionForever ==
  /\ status = "threads" /\ todo = <<>> /\ (spawned \/ matched # <<>>)
  /\ kept' = <<>> /\ flags' = {} /\ spawned' = FALSE
  /\ status' = "position" /\ todo' = kept
  /\ pos' = IF CharAt(text, pos) = EOF THEN pos ELSE pos + 1
  /\ UNCHANGED <<args, matched, result>>

EndPosition ==
  /\ status = "threads" /\ todo = <<>> /\ (spawned \/ matched # <<>>)
  /\ kept' = <<>> /\ flags' = {} /\ spawned' = FALSE
  /\ IF CharAt(text, pos) = EOF
     THEN status' = "finish" /\ todo' = <<>> /\ UNCHANGED pos
     ELSE status' = "position" /\ todo' = kept /\ pos' = pos + 1
  /\ UNCHANGED <<args, matched, result>>

Return ==
  /\ status = "finish"
  /\ status' = "idle"
  /\ result' = Result("OK", matched # <<>>,
                      IF matched = <<>> THEN NullPointers(n_pointers) ELSE matched[1])
  /\ pos' = 0 /\ matched' = <<>>
  /\ UNCHANGED <<args, kept, todo, flags, spawned>>

\* Memory may run out while a call runs; it then returns CREX_E_NOMEM.
OutOfMemory ==
  /\ status \in {"position", "threads"}
  /\ status' = "idle"
  /\ result' = Result("E_NOMEM", FALSE, NullPointers(n_pointers))
  /\ pos' = 0 /\ matched' = <<>>
  /\ Cleared
  /\ UNCHANGED args

Step == Reject \/ Consume \/ Advance \/ TestAndSetFlag \/ Split \/ WritePointer \/ Match
Run  == EnterPosition \/ Spawn \/ Step \/ EndPosition \/ Return

Next == Call \/ Run \/ OutOfMemory

Spec     == Init /\ [][Next]_vars
FairSpec == Spec /\ WF_vars(Run)    \* a call that was made is carried out

-----------------------------------------------------------------------------
(* Properties                                                              *)

Live == kept \o todo

\* At a position no two waiting threads stand at the same instruction: the
\* flags the compiler puts where paths meet let only the first one through,
\* which is what keeps the work per character linear in the program.
DistinctThreads ==
  \A i, j \in DOMAIN kept : kept[i].ip = kept[j].ip => i = j

\* Where a thread's match begins; a thread that has not begun is last.
StartOf(ptrs) == IF ptrs[0] = Null THEN Len(text) + 1 ELSE ptrs[0]

\* The threads by priority, and behind them the match.
Ranked == [i \in DOMAIN Live |-> Live[i].ptrs] \o matched

\* They are ordered by where they began: run_threads spawns at the end of the
\* list and split_thread inserts beside the parent, so an earlier start is
\* never overtaken by a later one; on_match drops the threads behind a match
\* and none is spawned after it, so what still runs may only improve on it.
LeftmostFirst ==
  n_pointers > 0 =>
    \A i, j \in DOMAIN Ranked : i < j => StartOf(Ranked[i]) <= StartOf(Ranked[j])

\* A match that was found is only ever replaced by one that begins no later,
\* and is not lost before the call returns.
MatchOnlyImproves ==
  [][status # "idle" /\ status' # "idle" /\ matched # <<>> /\ n_pointers > 0 =>
       matched' # <<>> /\ StartOf(matched'[1]) <= StartOf(matched[1])]_vars

\* Every call returns: the flags stop a loop whose body matches nothing from
\* going round twice at one position.
CallsReturn == []<>(status = "idle")
=============================================================================
