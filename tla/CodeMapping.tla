---------------------------- MODULE CodeMapping -----------------------------
(***************************************************************************)
(* The memory of native code (assembler.c, compile_to_native, crex.c): code *)
(* is assembled in pages that grow by mmap, in place or by moving, is       *)
(* trimmed and made executable, and belongs to the regex until that is      *)
(* destroyed.  Every request for memory may be refused.                     *)
(*                                                                         *)
(* Pages are numbered from 1, NULL is page 0.  A byte of code is known by   *)
(* its offset: a page holds some of those that would lie on it.             *)
(***************************************************************************)
EXTENDS Integers, FiniteSets

CONSTANTS
  PageSize,            \* as->page_size
  Refusals,            \* the requests that can fail: see below
  Pages,               \* a bound: pages there are to map
  Lengths,             \* a bound: bytes of an instruction
  MaxSize,             \* a bound: bytes of code
  MaxRegexes           \* a bound: regexes that exist at a time

Requests == {"next", "code", "uses", "values", "protect"}

ASSUME PagesAssumption ==
  /\ PageSize \in Nat \ {0} /\ Pages \in Nat /\ MaxSize \in Nat
  /\ Refusals \subseteq Requests
  /\ Lengths \subseteq 0 .. PageSize     \* an instruction fits a page

VARIABLES
  pc,
  held,                \* the mapped pages, with the bytes of code each holds
  executable,          \* those without PROT_WRITE
  code, size, capacity,    \* the assembler's
  needed,              \* the argument of reserve_assembler_space
  uses,                \* label_uses: its size and capacity
  blocks,              \* what has been allocated and not freed
  regexes,             \* native_code of the regexes there are
  orphans              \* auxiliary: pages that a compilation left behind

asVars == <<code, size, capacity>>
vars == <<pc, held, executable, asVars, needed, uses, blocks, regexes, orphans>>

NULL == 0

PagesFor(bytes)      == (bytes + PageSize - 1) \div PageSize
PagesAt(first, bytes) == first .. first + PagesFor(bytes) - 1

\* A free run of pages, wherever the system likes.
CanMap(first, bytes) ==
  first \in 1 .. Pages /\ PagesAt(first, bytes) \subseteq (1 .. Pages) \ DOMAIN held

Mapped(h, ps)   == [p \in DOMAIN h \cup ps |-> IF p \in ps THEN {} ELSE h[p]]
Unmapped(h, ps) == [p \in DOMAIN h \ ps |-> h[p]]

CodePages == IF code = NULL THEN {} ELSE PagesAt(code, capacity)
PageOf(k) == code + k \div PageSize

Init ==
  /\ pc = "idle"
  /\ held = [p \in {} |-> {}] /\ executable = {}
  /\ code = NULL /\ size = 0 /\ capacity = 0 /\ needed = 0
  /\ uses = [size |-> 0, capacity |-> 0]
  /\ blocks = {} /\ regexes = {} /\ orphans = {}

-----------------------------------------------------------------------------
(* compile_to_native: assembling                                           *)

\* crex_compile has come to the native code; create_assembler.
Compile ==
  /\ pc = "idle" /\ Cardinality(regexes) < MaxRegexes
  /\ pc' = "assemble"
  /\ code' = NULL /\ size' = 0 /\ capacity' = 0
  /\ uses' = [size |-> 0, capacity |-> 0]
  /\ UNCHANGED <<held, executable, needed, blocks, regexes, orphans>>

HasRoom(n) == size + n <= capacity
Grown      == 2 * capacity + PageSize

Reserve ==
  /\ pc = "assemble"
  /\ \E n \in Lengths :
       /\ size + n <= MaxSize
       /\ needed' = n
       /\ pc' = IF HasRoom(n) THEN "reserved" ELSE "grow"
  /\ UNCHANGED <<held, executable, asVars, uses, blocks, regexes, orphans>>

\* New pages right behind the old ones.
GrowInPlace ==
  /\ pc = "grow" /\ code # NULL
  /\ LET next == code + PagesFor(capacity)
     IN /\ CanMap(next, Grown - capacity)
        /\ held' = Mapped(held, PagesAt(next, Grown - capacity))
  /\ capacity' = Grown
  /\ pc' = "reserved"
  /\ UNCHANGED <<executable, code, size, needed, uses, blocks, regexes, orphans>>

\* They were elsewhere, and are given back.
GrowElsewhere ==
  /\ pc = "grow"
  /\ \E next \in 1 .. Pages :
       CanMap(next, Grown - capacity) /\ (code # NULL => next # code + PagesFor(capacity))
  /\ pc' = "move"
  /\ UNCHANGED <<held, executable, asVars, needed, uses, blocks, regexes, orphans>>

GrowFails ==
  /\ pc = "grow" /\ "next" \in Refusals
  /\ pc' = "failed"
  /\ UNCHANGED <<held, executable, asVars, needed, uses, blocks, regexes, orphans>>

\* memcpy of as->size bytes.
Copied(h, to) ==
  [p \in DOMAIN h |->
     IF p \in PagesAt(to, size) THEN {k \in h[code + (p - to)] : k < size} ELSE h[p]]

\* Mutant of Move: the old pages stay mapped.
MoveKeeping ==
  /\ pc = "move"
  /\ \E to \in 1 .. Pages :
       /\ CanMap(to, Grown)
       /\ held' = Copied(Mapped(held, PagesAt(to, Grown)), to)
       /\ code' = to
  /\ capacity' = Grown
  /\ pc' = "reserved"
  /\ UNCHANGED <<executable, size, needed, uses, blocks, regexes, orphans>>

Move ==
  /\ pc = "move"
  /\ \E to \in 1 .. Pages :
       /\ CanMap(to, Grown)
       /\ held' = Unmapped(Copied(Mapped(held, PagesAt(to, Grown)), to), CodePages)
       /\ code' = to
  /\ capacity' = Grown
  /\ pc' = "reserved"
  /\ UNCHANGED <<executable, size, needed, uses, blocks, regexes, orphans>>

\* The code tests next once more, not the result of this request: it goes on to
\* copy, and to write, at MAP_FAILED.
MoveRefused ==
  /\ pc = "move" /\ "code" \in Refusals
  /\ pc' = "stray"
  /\ UNCHANGED <<held, executable, asVars, needed, uses, blocks, regexes, orphans>>

\* The bytes of an instruction, with a use of a label or without.
WriteBytes ==
  /\ held' = [p \in DOMAIN held |->
                held[p] \cup {k \in size .. size + needed - 1 : PageOf(k) = p}]
  /\ size' = size + needed
  /\ pc' = "assemble"
  /\ UNCHANGED <<executable, code, capacity, needed, regexes, orphans>>

Write == pc = "reserved" /\ WriteBytes /\ UNCHANGED <<uses, blocks>>

\* push_label_use: a full list is replaced by one twice as long.
PushUse ==
  /\ uses' = [size     |-> uses.size + 1,
              capacity |-> IF uses.size = uses.capacity THEN 2 * uses.capacity + 4
                           ELSE uses.capacity]
  /\ blocks' = blocks \cup {"uses"}

UseLabel == pc = "reserved" /\ PushUse /\ WriteBytes

\* A bound: a label is defined where code is, so uses are as bounded as code.
DefineLabel ==
  /\ pc = "assemble" /\ uses.size <= size
  /\ PushUse
  /\ UNCHANGED <<pc, held, executable, asVars, needed, regexes, orphans>>

UseFails ==
  /\ pc \in {"assemble", "reserved"} /\ "uses" \in Refusals /\ uses.size = uses.capacity
  /\ pc' = "failed"
  /\ UNCHANGED <<held, executable, asVars, needed, uses, blocks, regexes, orphans>>

\* destroy_assembler, and the status CREX_E_NOMEM.
Destroy ==
  /\ pc = "failed"
  /\ held' = Unmapped(held, CodePages)
  /\ code' = NULL /\ size' = 0 /\ capacity' = 0
  /\ blocks' = blocks \ {"uses"}
  /\ pc' = "idle"
  /\ UNCHANGED <<executable, needed, uses, regexes, orphans>>

-----------------------------------------------------------------------------
(* finalize_assembler, and the regex                                       *)

\* The labels are resolved in place: Assembler.  What is left is code again,
\* from the first byte on and no longer than before.
Resolve ==
  /\ pc = "assemble" /\ "uses" \in blocks /\ size > 0
  /\ \E s \in 1 .. size :
       /\ size' = s
       /\ held' = [p \in DOMAIN held |->
                     IF p \in CodePages THEN {k \in held[p] : k < s} ELSE held[p]]
  /\ blocks' = blocks \ {"uses"}
  /\ pc' = "trim"
  /\ UNCHANGED <<executable, code, capacity, needed, uses, regexes, orphans>>

\* label_values are refused; compile_to_native does not destroy the assembler, so
\* its pages stay mapped and nobody knows them.  A bound: this happens once.
ResolveFails ==
  /\ orphans = {}
  /\ pc = "assemble" /\ "uses" \in blocks /\ "values" \in Refusals
  /\ code' = NULL /\ size' = 0 /\ capacity' = 0
  /\ blocks' = blocks \ {"uses"}
  /\ orphans' = orphans \cup CodePages
  /\ pc' = "idle"
  /\ UNCHANGED <<held, executable, needed, uses, regexes>>

\* Mutant of UnusedPages: the page the code ends on counts as unused.
UnusedPagesRoundedUp == PagesFor(capacity - size)

UnusedPages == (capacity - size) \div PageSize

Trim ==
  /\ pc = "trim"
  /\ LET last == code + PagesFor(capacity)
     IN held' = Unmapped(held, last - UnusedPages .. last - 1)
  /\ pc' = "protect"
  /\ UNCHANGED <<executable, asVars, needed, uses, blocks, regexes, orphans>>

\* mprotect, and the code is the regex's.
Protect ==
  /\ pc = "protect"
  /\ executable' = executable \cup PagesAt(code, size)
  /\ regexes' = regexes \cup {[code |-> code, size |-> size]}
  /\ code' = NULL /\ size' = 0 /\ capacity' = 0
  /\ pc' = "idle"
  /\ UNCHANGED <<held, needed, uses, blocks, orphans>>

ProtectFails ==
  /\ pc = "protect" /\ "protect" \in Refusals
  /\ held' = Unmapped(held, PagesAt(code, size))
  /\ code' = NULL /\ size' = 0 /\ capacity' = 0
  /\ pc' = "idle"
  /\ UNCHANGED <<executable, needed, uses, blocks, regexes, orphans>>

\* crex_destroy_regex.
DestroyRegex ==
  /\ pc = "idle"
  /\ \E r \in regexes :
       /\ held' = Unmapped(held, PagesAt(r.code, r.size))
       /\ executable' = executable \ PagesAt(r.code, r.size)
       /\ regexes' = regexes \ {r}
  /\ UNCHANGED <<pc, asVars, needed, uses, blocks, orphans>>

Assembling ==
  \/ Reserve \/ GrowInPlace \/ GrowElsewhere \/ GrowFails \/ Move \/ MoveRefused
  \/ Write \/ UseLabel \/ DefineLabel \/ UseFails \/ Destroy
Finalizing == Resolve \/ ResolveFails \/ Trim \/ Protect \/ ProtectFails

Next == Compile \/ Assembling \/ Finalizing \/ DestroyRegex

Spec == Init /\ [][Next]_vars

-----------------------------------------------------------------------------
(* Properties                                                              *)

RegexPages(r) == PagesAt(r.code, r.size)

\* The types of all variables.
TypeOK ==
  /\ pc \in {"idle", "assemble", "grow", "move", "reserved", "failed", "trim", "protect", "stray"}
  /\ DOMAIN held \subseteq 1 .. Pages /\ \A p \in DOMAIN held : held[p] \subseteq 0 .. MaxSize
  /\ executable \subseteq DOMAIN held
  /\ code \in 0 .. Pages /\ size \in 0 .. MaxSize /\ capacity \in Nat /\ needed \in Nat
  /\ uses \in [size : Nat, capacity : Nat] /\ uses.size <= uses.capacity
  /\ blocks \subseteq {"uses"}
  /\ \A r \in regexes : r.code \in 1 .. Pages /\ r.size \in 1 .. MaxSize

\* Growing, trimming and failing lose no page and give none back twice: what is
\* mapped is the assembler's or some regex's, and of one of them only, but for
\* the pages that are left behind when the labels cannot be resolved.  A
\* compilation that is over, well or not, has freed the list of uses.
MemoryAccounted ==
  /\ TypeOK
  /\ pc \notin {"trim", "protect"} =>
       /\ DOMAIN held = CodePages \cup orphans \cup UNION {RegexPages(r) : r \in regexes}
       /\ CodePages \cap orphans = {}
       /\ \A r \in regexes : RegexPages(r) \cap (CodePages \cup orphans) = {}
       /\ \A r, s \in regexes : r # s => RegexPages(r) \cap RegexPages(s) = {}
  /\ pc = "idle" => blocks = {}

\* The code survives moves in whole, wherever it is: as assembled so far, or as
\* a regex has it, which runs it for as long as it lives.  What is written next
\* has room, by the assertion of reserve_assembler_space: growing once is enough.
CodeKept ==
  /\ \A k \in 0 .. size - 1 : PageOf(k) \in DOMAIN held /\ k \in held[PageOf(k)]
  /\ pc = "reserved" => HasRoom(needed)
  /\ \A r \in regexes, k \in 0 .. MaxSize :
       k < r.size =>
         LET p == r.code + k \div PageSize
         IN p \in DOMAIN held /\ k \in held[p] /\ p \in executable
=============================================================================
