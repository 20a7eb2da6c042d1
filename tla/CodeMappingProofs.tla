------------------------- MODULE CodeMappingProofs --------------------------
(***************************************************************************)
(* Proofs that no page of native code is lost, given back twice or written *)
(* by somebody else, and that the code survives being moved and trimmed,   *)
(* for any size of pages and of code and any number of regexes.  Pages are *)
(* counted by dividing sizes: the lemmas on sizes come first.              *)
(***************************************************************************)
EXTENDS CodeMapping, TLAPS

-----------------------------------------------------------------------------
(* Sizes in bytes and in pages                                             *)

\* What it takes to be a quotient.
LEMMA Quotient ==
  ASSUME NEW n \in Nat, NEW q \in Nat, PageSize * q <= n, n < PageSize * q + PageSize
  PROVE  n \div PageSize = q
BY PagesAssumption

\* The quotient and what is left.
LEMMA Division ==
  ASSUME NEW n \in Nat
  PROVE  /\ n \div PageSize \in Nat
         /\ PageSize * (n \div PageSize) <= n
         /\ n < PageSize * (n \div PageSize) + PageSize
BY PagesAssumption

\* One page more is at least a page's bytes more.
LEMMA Times ==
  ASSUME NEW a \in Nat, NEW b \in Nat, a < b
  PROVE  PageSize * a + PageSize <= PageSize * b
BY PagesAssumption

\* The other way round.
LEMMA FewerPages ==
  ASSUME NEW a \in Nat, NEW b \in Nat, PageSize * a < PageSize * b + PageSize
  PROVE  a <= b
<1> SUFFICES ASSUME b < a PROVE FALSE
  OBVIOUS
<1>1. PageSize * b + PageSize <= PageSize * a
  BY Times
<1>2. PageSize \in Nat /\ PageSize * a \in Nat /\ PageSize * b \in Nat
  BY PagesAssumption
<1> QED BY <1>1, <1>2

\* Bytes are rounded up to pages.
LEMMA Rounding ==
  ASSUME NEW n \in Nat
  PROVE  /\ PagesFor(n) \in Nat
         /\ n <= PageSize * PagesFor(n) /\ PageSize * PagesFor(n) < n + PageSize
<1>1. PageSize \in Nat /\ PageSize > 0 /\ n + PageSize - 1 \in Nat
  BY PagesAssumption
<1> DEFINE q == (n + PageSize - 1) \div PageSize
<1>2. /\ q \in Nat /\ PageSize * q <= n + PageSize - 1
      /\ n + PageSize - 1 < PageSize * q + PageSize
  BY <1>1, Division
<1>3. PageSize * q \in Nat
  BY <1>1, <1>2
<1>4. PagesFor(n) = q
  BY DEF PagesFor
<1> HIDE DEF q
<1> QED BY <1>1, <1>2, <1>3, <1>4

\* Whole pages are rounded to themselves.
LEMMA WholePages ==
  ASSUME NEW n \in Nat
  PROVE  PageSize * n \in Nat /\ PagesFor(PageSize * n) = n
<1>1. PageSize \in Nat /\ PageSize > 0 /\ PageSize * n \in Nat
  BY PagesAssumption
<1>2. PageSize * n + PageSize - 1 \in Nat
  BY <1>1
<1>3. (PageSize * n + PageSize - 1) \div PageSize = n
  BY <1>1, <1>2, Quotient
<1> QED BY <1>1, <1>3 DEF PagesFor

\* No fewer pages for more bytes, and none for none.
LEMMA MorePages ==
  ASSUME NEW m \in Nat, NEW n \in Nat, m <= n
  PROVE  PagesFor(m) <= PagesFor(n) /\ PagesFor(0) = 0 /\ (m > 0 => PagesFor(m) > 0)
<1>1. /\ PagesFor(m) \in Nat /\ PageSize * PagesFor(m) < m + PageSize
      /\ m <= PageSize * PagesFor(m)
      /\ PagesFor(n) \in Nat /\ n <= PageSize * PagesFor(n)
  BY Rounding
<1>2. PageSize \in Nat /\ PageSize * PagesFor(m) \in Nat /\ PageSize * PagesFor(n) \in Nat
  BY <1>1, PagesAssumption
<1>3. PageSize * PagesFor(m) < PageSize * PagesFor(n) + PageSize
  BY <1>1, <1>2
<1>4. PagesFor(m) <= PagesFor(n)
  BY <1>1, <1>3, FewerPages
<1>5. PagesFor(0) = 0
  <2>1. PageSize * 0 = 0
    BY <1>2
  <2> QED BY <2>1, WholePages
<1>6. m > 0 => PagesFor(m) > 0
  <2>1. PagesFor(m) = 0 => PageSize * PagesFor(m) = 0
    BY <1>2
  <2> QED BY <1>1, <2>1
<1> QED BY <1>4, <1>5, <1>6

\* A byte lies on one of the pages for the bytes.
LEMMA PageOfByte ==
  ASSUME NEW n \in Nat, NEW k \in 0 .. n - 1
  PROVE  k \div PageSize \in 0 .. PagesFor(n) - 1
<1>1. k \in Nat /\ k < n
  OBVIOUS
<1> DEFINE q == k \div PageSize
<1>2. q \in Nat /\ PageSize * q <= k
  BY <1>1, Division
<1>3. PagesFor(n) \in Nat /\ n <= PageSize * PagesFor(n)
  BY Rounding
<1>4. PageSize \in Nat /\ PageSize * q \in Nat /\ PageSize * PagesFor(n) \in Nat
  BY <1>2, <1>3, PagesAssumption
<1> HIDE DEF q
<1>5. q < PagesFor(n)
  <2> SUFFICES ASSUME PagesFor(n) <= q PROVE FALSE
    BY <1>2, <1>3
  <2>1. PageSize * PagesFor(n) < PageSize * q + PageSize
    <3>1. CASE PagesFor(n) = q
      BY <1>4, <3>1, PagesAssumption
    <3>2. CASE PagesFor(n) < q
      BY <1>2, <1>3, <1>4, <3>2, Times, PagesAssumption
    <3> QED BY <1>2, <1>3, <3>1, <3>2
  <2>2. PageSize * PagesFor(n) <= PageSize * q
    <3>1. CASE PagesFor(n) = q
      BY <1>4, <3>1
    <3>2. CASE PagesFor(n) < q
      BY <1>2, <1>3, <1>4, <3>2, Times, PagesAssumption
    <3> QED BY <1>2, <1>3, <3>1, <3>2
  <2> QED BY <1>1, <1>2, <1>3, <1>4, <2>2
<1> QED BY <1>2, <1>3, <1>5 DEF q

\* Code and the pages that finalize_assembler trims make up the capacity.
LEMMA Trimming ==
  ASSUME NEW n \in Nat, NEW s \in 1 .. PageSize * n
  PROVE  /\ PagesFor(s) \in 1 .. n
         /\ (PageSize * n - s) \div PageSize = n - PagesFor(s)
<1> DEFINE p == PagesFor(s)
<1>1. PageSize \in Nat /\ PageSize > 0 /\ PageSize * n \in Nat /\ s \in Nat /\ s > 0
  BY PagesAssumption
<1>2. p \in Nat /\ s <= PageSize * p /\ PageSize * p < s + PageSize /\ p > 0
  BY <1>1, Rounding, MorePages
<1>3. p <= n
  BY <1>1, <1>2, WholePages, MorePages
<1>4. PageSize * p \in Nat
  BY <1>1, <1>2
<1> HIDE DEF p
<1>5. n - p \in Nat /\ PageSize * (n - p) = PageSize * n - PageSize * p
  BY <1>1, <1>2, <1>3
<1>6. PageSize * n - s \in Nat
  BY <1>1
<1>7. (PageSize * n - s) \div PageSize = n - p
  BY <1>1, <1>2, <1>4, <1>5, <1>6, Quotient
<1> QED BY <1>2, <1>3, <1>7 DEF p

-----------------------------------------------------------------------------
(* The inductive invariant                                                 *)

\* What the assembler knows of its memory.  Only whole pages are mapped.
Sizes ==
  /\ \E n \in Nat : capacity = PageSize * n
  /\ size <= capacity
  /\ code = NULL => capacity = 0
  /\ pc \in {"grow", "move", "reserved"} => needed \in Lengths /\ size + needed <= MaxSize
  /\ pc = "reserved" => HasRoom(needed)
  /\ pc \in {"trim", "protect"} => size > 0
  /\ pc = "idle" => code = NULL
  /\ pc \in {"idle", "trim", "protect"} => blocks = {}

\* The pages of the code that is being assembled: after trimming, those it needs.
OwnPages == IF pc = "protect" THEN PagesAt(code, size) ELSE CodePages
AllPages == UNION {RegexPages(r) : r \in regexes}

\* Every page has one owner, and what is executable is a regex's.
Owners ==
  /\ DOMAIN held = OwnPages \cup orphans \cup AllPages
  /\ OwnPages \cap (orphans \cup AllPages) = {}
  /\ orphans \cap AllPages = {}
  /\ \A r, s \in regexes : r # s => RegexPages(r) \cap RegexPages(s) = {}
  /\ executable = AllPages

\* The code of each regex, in whole and where it can run.
RegexKept ==
  \A r \in regexes, k \in 0 .. MaxSize :
    k < r.size =>
      LET p == r.code + k \div PageSize
      IN p \in DOMAIN held /\ k \in held[p] /\ p \in executable

OwnKept == \A k \in 0 .. size - 1 : PageOf(k) \in DOMAIN held /\ k \in held[PageOf(k)]

IInv == TypeOK /\ Sizes /\ Owners /\ OwnKept /\ RegexKept

\* The sizes are numbers.
LEMMA Numbers ==
  ASSUME TypeOK
  PROVE  /\ code \in Nat /\ size \in Nat /\ capacity \in Nat /\ needed \in Nat
         /\ PageSize \in Nat /\ PageSize > 0 /\ MaxSize \in Nat /\ Pages \in Nat
BY PagesAssumption DEF TypeOK

\* The pages of the code lie side by side.
LEMMA OwnPagesAre ==
  ASSUME TypeOK, NEW n \in Nat, capacity = PageSize * n, code = NULL => capacity = 0
  PROVE  /\ CodePages = code .. code + n - 1
         /\ PagesFor(capacity) = n
<1>1. PagesFor(capacity) = n
  BY WholePages
<1>2. CASE code = NULL
  <2>1. n = 0
    BY <1>2, Numbers, PagesAssumption
  <2> QED BY <1>1, <1>2, <2>1 DEF CodePages, NULL
<1>3. CASE code # NULL
  BY <1>1, <1>3 DEF CodePages, PagesAt
<1> QED BY <1>1, <1>2, <1>3

\* Every byte of the code lies on a page of the code.
LEMMA OwnBytes ==
  ASSUME TypeOK, Sizes, NEW k \in 0 .. size - 1
  PROVE  PageOf(k) \in CodePages /\ PageOf(k) \in PagesAt(code, size)
<1>1. PICK n \in Nat : capacity = PageSize * n
  BY DEF Sizes
<1>2. CodePages = code .. code + n - 1 /\ PagesFor(capacity) = n
  BY <1>1, OwnPagesAre DEF Sizes
<1>3. k \div PageSize \in 0 .. PagesFor(size) - 1
  BY Numbers, PageOfByte
<1>4. PagesFor(size) \in Nat /\ PagesFor(size) <= n
  BY <1>2, Numbers, Rounding, MorePages DEF Sizes
<1> QED BY SMTT(40), <1>2, <1>3, <1>4, Numbers DEF PageOf, PagesAt

OwnBytesHaveAPage == \A k \in 0 .. size - 1 : PageOf(k) \in CodePages

\* The same of the next state.
LEMMA OwnBytesNext == TypeOK' /\ Sizes' => OwnBytesHaveAPage'
<1>1. TypeOK /\ Sizes => OwnBytesHaveAPage
  BY OwnBytes DEF OwnBytesHaveAPage
<1> QED BY <1>1, PTL

\* The pages of a regex hold its code; another page may do what it likes.
LEMMA RegexKeptElsewhere ==
  ASSUME IInv, executable' = executable, regexes' = regexes,
         \A p \in AllPages : p \in DOMAIN held' /\ held[p] \subseteq held'[p]
  PROVE  RegexKept'
<1>1. \A p \in executable : p \in DOMAIN held' /\ held[p] \subseteq held'[p]
  BY DEF IInv, Owners
<1> QED BY <1>1 DEF IInv, RegexKept

\* Where nothing is mapped, unmapped or written, owners stay what they are.
LEMMA OwnersKept ==
  ASSUME IInv, pc # "protect", pc' # "protect",
         UNCHANGED <<held, executable, asVars, regexes, orphans>>
  PROVE  Owners' /\ OwnKept' /\ RegexKept'
<1> USE DEF asVars
<1>1. Owners'
  BY DEF IInv, Owners, OwnPages, AllPages, CodePages, RegexPages, PagesAt
<1>2. OwnKept'
  BY DEF IInv, OwnKept, PageOf
<1>3. RegexKept'
  BY DEF IInv, RegexKept
<1> QED BY <1>1, <1>2, <1>3

-----------------------------------------------------------------------------
(* The actions                                                             *)

\* Nothing is mapped at first.
LEMMA InitInv == Init => IInv
<1> SUFFICES ASSUME Init PROVE IInv
  OBVIOUS
<1> USE DEF Init
<1>1. TypeOK
  BY PagesAssumption DEF TypeOK, NULL
<1>2. Sizes
  <2>1. PageSize * 0 = 0
    BY PagesAssumption
  <2> QED BY <2>1 DEF Sizes
<1>3. Owners
  BY DEF Owners, OwnPages, CodePages, AllPages
<1>4. OwnKept /\ RegexKept
  BY DEF OwnKept, RegexKept
<1> QED BY <1>1, <1>2, <1>3, <1>4 DEF IInv

\* crex_compile begins with no code.
LEMMA CompileInv == IInv /\ Compile => IInv'
<1> SUFFICES ASSUME IInv, Compile PROVE IInv'
  OBVIOUS
<1> USE DEF Compile
<1>1. code = NULL /\ PageSize * 0 = 0
  BY PagesAssumption DEF IInv, Sizes
<1>2. TypeOK'
  BY PagesAssumption DEF IInv, TypeOK, NULL
<1>3. Sizes'
  BY <1>1 DEF IInv, Sizes
<1>4. Owners'
  BY <1>1 DEF IInv, Owners, OwnPages, AllPages, CodePages, RegexPages, PagesAt
<1>5. OwnKept' /\ RegexKept'
  BY DEF IInv, OwnKept, RegexKept
<1> QED BY <1>2, <1>3, <1>4, <1>5 DEF IInv

\* The decisions that touch no memory.
LEMMA ReserveInv == IInv /\ Reserve => IInv'
<1> SUFFICES ASSUME IInv, Reserve PROVE IInv'
  OBVIOUS
<1> USE DEF Reserve, asVars
<1>1. needed' \in Lengths /\ size + needed' <= MaxSize
  OBVIOUS
<1>2. TypeOK'
  BY <1>1, PagesAssumption DEF IInv, TypeOK
<1>3. Sizes'
  BY <1>1 DEF IInv, Sizes, HasRoom
<1>4. Owners' /\ OwnKept' /\ RegexKept'
  BY OwnersKept
<1> QED BY <1>2, <1>3, <1>4 DEF IInv

\* Requests that are refused, or answered from elsewhere.
LEMMA RefusedInv ==
  IInv /\ (GrowElsewhere \/ GrowFails \/ MoveRefused \/ UseFails) => IInv'
<1> SUFFICES ASSUME IInv, GrowElsewhere \/ GrowFails \/ MoveRefused \/ UseFails
             PROVE  IInv'
  OBVIOUS
<1> USE DEF GrowElsewhere, GrowFails, MoveRefused, UseFails, asVars
<1>1. pc \in {"grow", "move", "assemble", "reserved"} /\ pc' \in {"move", "failed", "stray"}
      /\ (pc' = "move" => pc = "grow")
      /\ UNCHANGED <<held, executable, code, size, capacity, needed, uses, blocks, regexes,
                     orphans>>
  OBVIOUS
<1>2. TypeOK'
  BY <1>1 DEF IInv, TypeOK
<1>3. Sizes'
  BY <1>1 DEF IInv, Sizes
<1>4. Owners' /\ OwnKept' /\ RegexKept'
  BY <1>1, OwnersKept
<1> QED BY <1>2, <1>3, <1>4 DEF IInv

\* The list of uses is no matter of pages.
LEMMA DefineLabelInv == IInv /\ DefineLabel => IInv'
<1> SUFFICES ASSUME IInv, DefineLabel PROVE IInv'
  OBVIOUS
<1> USE DEF DefineLabel, PushUse, asVars
<1>1. TypeOK'
  BY DEF IInv, TypeOK
<1>2. Sizes'
  BY DEF IInv, Sizes
<1>3. Owners' /\ OwnKept' /\ RegexKept'
  BY OwnersKept
<1> QED BY <1>1, <1>2, <1>3 DEF IInv

\* How much a capacity grows.
LEMMA Growing ==
  ASSUME TypeOK, NEW n \in Nat, capacity = PageSize * n
  PROVE  /\ Grown \in Nat
         /\ Grown = PageSize * (2 * n + 1) /\ PagesFor(Grown) = 2 * n + 1
         /\ Grown - capacity = PageSize * (n + 1) /\ PagesFor(Grown - capacity) = n + 1
<1>1. PageSize \in Nat /\ PageSize > 0
  BY PagesAssumption
<1>2. Grown = PageSize * (2 * n + 1)
  BY <1>1 DEF Grown
<1>3. Grown - capacity = PageSize * (n + 1)
  BY <1>1 DEF Grown
<1>4. 2 * n + 1 \in Nat /\ n + 1 \in Nat
  OBVIOUS
<1> QED BY <1>2, <1>3, <1>4, WholePages

\* Growing once is enough, because an instruction fits a page.
LEMMA RoomOnceGrown ==
  ASSUME TypeOK, Sizes, pc \in {"grow", "move"}
  PROVE  size + needed <= Grown /\ size <= Grown
BY Numbers, PagesAssumption DEF Sizes, Grown

\* New pages behind the old ones.
LEMMA GrowInPlaceInv == IInv /\ GrowInPlace => IInv'
<1> SUFFICES ASSUME IInv, GrowInPlace PROVE IInv'
  OBVIOUS
<1> USE DEF GrowInPlace
<1>1. PICK n \in Nat : capacity = PageSize * n
  BY DEF IInv, Sizes
<1> DEFINE ps == PagesAt(code + PagesFor(capacity), Grown - capacity)
<1>2. /\ Grown \in Nat /\ Grown = PageSize * (2 * n + 1) /\ PagesFor(Grown) = 2 * n + 1
      /\ PagesFor(Grown - capacity) = n + 1
  BY <1>1, Growing DEF IInv
<1>3. CodePages = code .. code + n - 1 /\ PagesFor(capacity) = n /\ code \in Nat
  BY <1>1, OwnPagesAre, Numbers DEF IInv, Sizes
<1>4. ps = code + n .. code + n + (n + 1) - 1
  BY <1>2, <1>3 DEF PagesAt
<1>5. ps \subseteq (1 .. Pages) \ DOMAIN held /\ held' = Mapped(held, ps)
  BY DEF CanMap
<1> HIDE DEF ps
<1>6. CodePages' = CodePages \cup ps
  <2>1. CodePages' = code .. code + (2 * n + 1) - 1
    BY <1>2 DEF CodePages, PagesAt
  <2> QED BY <1>3, <1>4, <2>1
<1>7. /\ DOMAIN held' = DOMAIN held \cup ps
      /\ \A p \in DOMAIN held : held'[p] = held[p]
      /\ \A p \in ps : held'[p] = {}
  BY <1>5 DEF Mapped
<1>8. TypeOK'
  <2>1. DOMAIN held' \subseteq 1 .. Pages
    BY <1>5, <1>7 DEF IInv, TypeOK
  <2>2. \A p \in DOMAIN held' : held'[p] \subseteq 0 .. MaxSize
    BY <1>7 DEF IInv, TypeOK
  <2> QED BY <1>2, <1>7, <2>1, <2>2 DEF IInv, TypeOK
<1>9. Sizes'
  <2>1. size + needed <= Grown /\ size <= Grown
    BY RoomOnceGrown DEF IInv
  <2> QED BY <1>2, <2>1 DEF IInv, Sizes, HasRoom
<1>10. Owners'
  <2>1. OwnPages = CodePages /\ OwnPages' = CodePages'
    BY DEF OwnPages
  <2>2. AllPages' = AllPages /\ orphans' = orphans /\ executable' = executable
        /\ regexes' = regexes
    BY DEF AllPages, RegexPages, PagesAt
  <2>3. ps \cap (orphans \cup AllPages) = {}
    BY <1>5 DEF IInv, Owners
  <2>4. \A r, s \in regexes' : r # s => RegexPages(r)' \cap RegexPages(s)' = {}
    BY <2>2 DEF IInv, Owners, RegexPages, PagesAt
  <2> QED BY <1>6, <1>7, <2>1, <2>2, <2>3, <2>4 DEF IInv, Owners
<1>11. OwnKept'
  BY <1>7 DEF IInv, OwnKept, PageOf
<1>12. RegexKept'
  BY <1>7, RegexKeptElsewhere DEF IInv, Owners
<1> QED BY <1>8, <1>9, <1>10, <1>11, <1>12 DEF IInv

\* The code is copied to pages of its own, and the old ones are given back.
LEMMA MoveInv == IInv /\ Move => IInv'
<1> SUFFICES ASSUME IInv, Move PROVE IInv'
  OBVIOUS
<1>0. /\ pc = "move" /\ pc' = "reserved" /\ capacity' = Grown
      /\ UNCHANGED <<executable, size, needed, uses, blocks, regexes, orphans>>
  BY DEF Move
<1>1. PICK to \in 1 .. Pages :
        /\ CanMap(to, Grown)
        /\ held' = Unmapped(Copied(Mapped(held, PagesAt(to, Grown)), to), CodePages)
        /\ code' = to
  BY DEF Move
<1>2. PICK n \in Nat : capacity = PageSize * n
  BY DEF IInv, Sizes
<1> DEFINE ps == PagesAt(to, Grown)
<1>3. /\ Grown \in Nat /\ Grown = PageSize * (2 * n + 1) /\ PagesFor(Grown) = 2 * n + 1
  BY <1>2, Growing DEF IInv
<1>4. CodePages = code .. code + n - 1 /\ PagesFor(capacity) = n /\ code \in Nat
  BY <1>2, OwnPagesAre, Numbers DEF IInv, Sizes
<1>5. ps \subseteq (1 .. Pages) \ DOMAIN held /\ ps = to .. to + (2 * n + 1) - 1
  BY <1>1, <1>3 DEF CanMap, PagesAt
<1>6. CodePages \subseteq DOMAIN held /\ CodePages' = ps
  <2>1. code' # NULL
    BY <1>1 DEF NULL
  <2> QED BY <1>0, <1>1, <2>1 DEF IInv, Owners, OwnPages, CodePages, PagesAt, PagesFor
<1>7. size \in Nat /\ PagesFor(size) \in Nat /\ PagesFor(size) <= n
  BY <1>4, Numbers, Rounding, MorePages DEF IInv, Sizes
<1> HIDE DEF ps
<1>8. PagesAt(to, size) \subseteq ps
  BY <1>5, <1>7 DEF PagesAt
<1>9. /\ DOMAIN held' = (DOMAIN held \cup ps) \ CodePages
      /\ \A p \in DOMAIN held \ CodePages : held'[p] = held[p]
      /\ \A p \in PagesAt(to, size) :
           held'[p] = {k \in held[code + (p - to)] : k < size}
      /\ \A p \in ps \ PagesAt(to, size) : held'[p] = {}
  <2>1. DOMAIN Copied(Mapped(held, ps), to) = DOMAIN held \cup ps
    BY DEF Copied, Mapped
  <2>2. DOMAIN held' = (DOMAIN held \cup ps) \ CodePages
        /\ \A p \in DOMAIN held' : held'[p] = Copied(Mapped(held, ps), to)[p]
    BY <1>1, <2>1 DEF Unmapped, ps
  <2>3. \A p \in DOMAIN held \cup ps :
          Copied(Mapped(held, ps), to)[p] =
            IF p \in PagesAt(to, size)
            THEN {k \in Mapped(held, ps)[code + (p - to)] : k < size} ELSE Mapped(held, ps)[p]
    BY DEF Copied, Mapped
  <2>4. /\ \A p \in DOMAIN held \ ps : Mapped(held, ps)[p] = held[p]
        /\ \A p \in ps : Mapped(held, ps)[p] = {}
    BY DEF Mapped
  <2>5. \A p \in PagesAt(to, size) : code + (p - to) \in CodePages
    BY <1>4, <1>7 DEF PagesAt
  <2>6. \A p \in PagesAt(to, size) : Mapped(held, ps)[code + (p - to)] = held[code + (p - to)]
    BY <1>5, <1>6, <2>4, <2>5
  <2>7. ps \cap CodePages = {} /\ ps \cap DOMAIN held = {}
    BY <1>5, <1>6
  <2> QED BY <1>8, <2>2, <2>3, <2>4, <2>6, <2>7
<1>10. \A p \in PagesAt(to, size) : code + (p - to) \in DOMAIN held
  BY <1>4, <1>6, <1>7 DEF PagesAt
<1>11. TypeOK'
  <2>1. DOMAIN held' \subseteq 1 .. Pages
    BY <1>5, <1>9 DEF IInv, TypeOK
  <2>2. \A p \in DOMAIN held' : held'[p] \subseteq 0 .. MaxSize
    <3> SUFFICES ASSUME NEW p \in DOMAIN held' PROVE held'[p] \subseteq 0 .. MaxSize
      OBVIOUS
    <3>1. CASE p \in PagesAt(to, size)
      BY <1>9, <1>10, <3>1 DEF IInv, TypeOK
    <3>2. CASE p \notin PagesAt(to, size)
      BY <1>9, <3>2 DEF IInv, TypeOK
    <3> QED BY <3>1, <3>2
  <2>3. AllPages \subseteq DOMAIN held' /\ executable' \subseteq DOMAIN held'
    BY <1>0, <1>9 DEF IInv, Owners, OwnPages
  <2> QED BY <1>0, <1>1, <1>3, <2>1, <2>2, <2>3 DEF IInv, TypeOK
<1>12. Sizes'
  <2>1. size + needed <= Grown /\ size <= Grown
    BY <1>0, RoomOnceGrown DEF IInv
  <2>2. code' # NULL
    BY <1>1 DEF NULL
  <2> QED BY <1>0, <1>3, <2>1, <2>2 DEF IInv, Sizes, HasRoom
<1>13. Owners'
  <2>1. OwnPages = CodePages /\ OwnPages' = ps
    BY <1>0, <1>6 DEF OwnPages
  <2>2. AllPages' = AllPages
    BY <1>0 DEF AllPages, RegexPages, PagesAt
  <2>3. ps \cap (orphans \cup AllPages) = {} /\ ps \cap CodePages = {}
    BY <1>0, <1>5, <1>6 DEF IInv, Owners, OwnPages
  <2>4. \A r, s \in regexes' : r # s => RegexPages(r)' \cap RegexPages(s)' = {}
    BY <1>0 DEF IInv, Owners, RegexPages, PagesAt
  <2> QED BY <1>0, <1>9, <2>1, <2>2, <2>3, <2>4 DEF IInv, Owners
<1>14. OwnKept'
  <2> SUFFICES ASSUME NEW k \in 0 .. size - 1
               PROVE  PageOf(k)' \in DOMAIN held' /\ k \in held'[PageOf(k)']
    BY <1>0 DEF OwnKept
  <2>1. k \div PageSize \in 0 .. PagesFor(size) - 1
    BY <1>7, PageOfByte
  <2>2. PageOf(k)' = to + k \div PageSize /\ PageOf(k) = code + k \div PageSize
    BY <1>1 DEF PageOf
  <2>3. PageOf(k)' \in PagesAt(to, size) /\ code + (PageOf(k)' - to) = PageOf(k)
    BY <1>4, <1>7, <2>1, <2>2 DEF PagesAt
  <2>4. k \in held[PageOf(k)] /\ k < size
    BY <1>7 DEF IInv, OwnKept
  <2>5. PageOf(k)' \in DOMAIN held'
    BY <1>5, <1>6, <1>8, <1>9, <2>3
  <2> QED BY <1>9, <2>3, <2>4, <2>5
<1>15. RegexKept'
  <2>1. AllPages \subseteq DOMAIN held \ CodePages
    BY <1>0 DEF IInv, Owners, OwnPages
  <2> QED BY <1>0, <1>9, <2>1, RegexKeptElsewhere
<1> QED BY <1>11, <1>12, <1>13, <1>14, <1>15 DEF IInv

\* Instructions are written behind the code, in pages of the code.
LEMMA WriteBytesInv ==
  ASSUME IInv, WriteBytes, pc = "reserved",
         uses' \in [size : Nat, capacity : Nat], uses'.size <= uses'.capacity,
         blocks' \subseteq {"uses"}
  PROVE  IInv'
<1> USE DEF WriteBytes
<1>1. /\ size + needed <= MaxSize /\ size + needed <= capacity
      /\ size \in Nat /\ needed \in Nat /\ MaxSize \in Nat /\ capacity \in Nat
  BY Numbers DEF IInv, Sizes, HasRoom
<1> DEFINE new == size .. size + needed - 1
<1>2. /\ DOMAIN held' = DOMAIN held
      /\ \A p \in DOMAIN held : held'[p] = held[p] \cup {k \in new : PageOf(k) = p}
  OBVIOUS
<1>3. new \subseteq 0 .. MaxSize
  BY <1>1
<1>4. TypeOK'
  <2>1. \A p \in DOMAIN held' : held'[p] \subseteq 0 .. MaxSize
    BY <1>2, <1>3 DEF IInv, TypeOK
  <2>2. size' \in 0 .. MaxSize
    BY <1>1
  <2> QED BY <1>2, <2>1, <2>2 DEF IInv, TypeOK
<1>5. Sizes'
  <2>1. code = NULL => size' = 0 /\ capacity = 0
    BY <1>1 DEF IInv, Sizes
  <2> QED BY <1>1, <2>1 DEF IInv, Sizes
<1>6. Owners'
  BY <1>2 DEF IInv, Owners, OwnPages, AllPages, CodePages, RegexPages, PagesAt
<1>7. OwnKept'
  <2> SUFFICES ASSUME NEW k \in 0 .. size' - 1
               PROVE  PageOf(k) \in DOMAIN held' /\ k \in held'[PageOf(k)]
    BY DEF OwnKept, PageOf
  <2>1. CASE k < size
    <3>1. k \in 0 .. size - 1
      BY <1>1, <2>1
    <3> QED BY <1>2, <3>1 DEF IInv, OwnKept
  <2>2. CASE k >= size
    <3>1. k \in new /\ k \in 0 .. size' - 1
      BY <1>1, <2>2
    <3>2. PageOf(k)' \in CodePages'
      BY <1>4, <1>5, <3>1, OwnBytesNext DEF OwnBytesHaveAPage
    <3>3. PageOf(k) \in DOMAIN held
      BY <3>2 DEF PageOf, CodePages, PagesAt, IInv, Owners, OwnPages
    <3> QED BY <1>2, <3>1, <3>3
  <2> QED BY <1>1, <2>1, <2>2
<1>8. RegexKept'
  <2>1. AllPages \subseteq DOMAIN held
    BY DEF IInv, Owners
  <2> QED BY <1>2, <2>1, RegexKeptElsewhere
<1> QED BY <1>4, <1>5, <1>6, <1>7, <1>8 DEF IInv

\* With a use of a label or without.
LEMMA WriteInv == IInv /\ (Write \/ UseLabel) => IInv'
<1> SUFFICES ASSUME IInv, Write \/ UseLabel PROVE IInv'
  OBVIOUS
<1>1. /\ uses \in [size : Nat, capacity : Nat] /\ uses.size <= uses.capacity
      /\ blocks \subseteq {"uses"}
  BY DEF IInv, TypeOK
<1>2. WriteBytes /\ pc = "reserved"
  BY DEF Write, UseLabel
<1>3. /\ uses' \in [size : Nat, capacity : Nat] /\ uses'.size <= uses'.capacity
      /\ blocks' \subseteq {"uses"}
  <2>1. CASE Write
    BY <1>1, <2>1 DEF Write
  <2>2. CASE UseLabel
    BY <1>1, <2>2 DEF UseLabel, PushUse
  <2> QED BY <2>1, <2>2
<1> QED BY <1>2, <1>3, WriteBytesInv

\* destroy_assembler gives back the pages of the code, and no others.
LEMMA DestroyInv == IInv /\ Destroy => IInv'
<1> SUFFICES ASSUME IInv, Destroy PROVE IInv'
  OBVIOUS
<1> USE DEF Destroy
<1>1. /\ DOMAIN held' = DOMAIN held \ CodePages
      /\ \A p \in DOMAIN held' : held'[p] = held[p]
      /\ OwnPages = CodePages
  BY DEF Unmapped, OwnPages
<1>2. /\ AllPages' = AllPages /\ OwnPages' = {} /\ AllPages \subseteq DOMAIN held'
  BY <1>1 DEF AllPages, RegexPages, PagesAt, OwnPages, CodePages, IInv, Owners
<1>3. TypeOK'
  BY <1>1, <1>2, PagesAssumption DEF IInv, TypeOK, NULL, Owners
<1>4. Sizes'
  <2>1. PageSize * 0 = 0
    BY PagesAssumption
  <2> QED BY <2>1 DEF IInv, Sizes, TypeOK
<1>5. Owners'
  BY <1>1, <1>2 DEF IInv, Owners, RegexPages, PagesAt
<1>6. OwnKept'
  BY DEF OwnKept
<1>7. RegexKept'
  BY <1>1, <1>2, RegexKeptElsewhere
<1> QED BY <1>3, <1>4, <1>5, <1>6, <1>7 DEF IInv

\* The labels are resolved: the code is shorter, in the same place.
LEMMA ResolveInv == IInv /\ Resolve => IInv'
<1> SUFFICES ASSUME IInv, Resolve PROVE IInv'
  OBVIOUS
<1>0. /\ pc = "assemble" /\ size > 0 /\ blocks' = blocks \ {"uses"} /\ pc' = "trim"
      /\ UNCHANGED <<executable, code, capacity, needed, uses, regexes, orphans>>
  BY DEF Resolve
<1>1. PICK s \in 1 .. size :
        /\ size' = s
        /\ held' = [p \in DOMAIN held |->
                      IF p \in CodePages THEN {k \in held[p] : k < s} ELSE held[p]]
  BY DEF Resolve
<1>2. size \in Nat /\ size <= MaxSize /\ MaxSize \in Nat /\ size <= capacity /\ capacity \in Nat
  BY Numbers DEF IInv, TypeOK, Sizes
<1>3. TypeOK'
  <2>1. DOMAIN held' = DOMAIN held /\ \A p \in DOMAIN held : held'[p] \subseteq held[p]
    BY <1>1
  <2> QED BY <1>0, <1>1, <1>2, <2>1 DEF IInv, TypeOK
<1>4. Sizes'
  BY <1>0, <1>1, <1>2 DEF IInv, Sizes, TypeOK
<1>5. Owners'
  BY <1>0, <1>1 DEF IInv, Owners, OwnPages, AllPages, CodePages, RegexPages, PagesAt
<1>6. OwnKept'
  <2> SUFFICES ASSUME NEW k \in 0 .. size' - 1
               PROVE  PageOf(k) \in DOMAIN held' /\ k \in held'[PageOf(k)]
    BY <1>0 DEF OwnKept, PageOf
  <2>1. k \in 0 .. size - 1 /\ k < size'
    BY <1>1, <1>2
  <2>2. PageOf(k) \in DOMAIN held /\ k \in held[PageOf(k)]
    BY <2>1 DEF IInv, OwnKept
  <2> QED BY <1>1, <2>1, <2>2
<1>7. RegexKept'
  <2>1. AllPages \cap CodePages = {} /\ AllPages \subseteq DOMAIN held
    BY <1>0 DEF IInv, Owners, OwnPages
  <2> QED BY <1>0, <1>1, <2>1, RegexKeptElsewhere
<1> QED BY <1>3, <1>4, <1>5, <1>6, <1>7 DEF IInv

\* The pages of a compilation that cannot be finished are known to nobody.
LEMMA ResolveFailsInv == IInv /\ ResolveFails => IInv'
<1> SUFFICES ASSUME IInv, ResolveFails PROVE IInv'
  OBVIOUS
<1> USE DEF ResolveFails
<1>1. OwnPages = CodePages /\ OwnPages' = {} /\ AllPages' = AllPages
  BY DEF OwnPages, CodePages, AllPages, RegexPages, PagesAt
<1>2. TypeOK'
  BY PagesAssumption DEF IInv, TypeOK, NULL
<1>3. Sizes'
  <2>1. PageSize * 0 = 0
    BY PagesAssumption
  <2> QED BY <2>1 DEF IInv, Sizes, TypeOK
<1>4. Owners'
  BY <1>1 DEF IInv, Owners, RegexPages, PagesAt
<1>5. OwnKept' /\ RegexKept'
  BY DEF IInv, OwnKept, RegexKept
<1> QED BY <1>2, <1>3, <1>4, <1>5 DEF IInv

\* The code needs the pages it began on, but for those at the end that are cut.
LEMMA TrimInv == IInv /\ Trim => IInv'
<1> SUFFICES ASSUME IInv, Trim PROVE IInv'
  OBVIOUS
<1>0. /\ pc = "trim" /\ pc' = "protect"
      /\ UNCHANGED <<executable, code, size, capacity, needed, uses, blocks, regexes, orphans>>
  BY DEF Trim, asVars
<1>1. PICK n \in Nat : capacity = PageSize * n
  BY DEF IInv, Sizes
<1>2. CodePages = code .. code + n - 1 /\ PagesFor(capacity) = n /\ code \in Nat
  BY <1>1, OwnPagesAre, Numbers DEF IInv, Sizes
<1>3. size \in 1 .. PageSize * n
  BY <1>0, <1>1, Numbers DEF IInv, Sizes
<1>4. PagesFor(size) \in 1 .. n /\ UnusedPages = n - PagesFor(size)
  BY <1>1, <1>3, Trimming DEF UnusedPages
<1> DEFINE cut == code + PagesFor(size) .. code + n - 1
<1>5. held' = Unmapped(held, cut)
  <2>1. (code + n) - UnusedPages = code + PagesFor(size)
    BY <1>2, <1>4
  <2>2. (code + PagesFor(capacity)) - 1 = code + n - 1
    BY <1>2
  <2> QED BY <1>2, <2>1, <2>2 DEF Trim
<1>6. PagesAt(code, size) = CodePages \ cut /\ cut \subseteq CodePages
  BY <1>2, <1>4 DEF PagesAt
<1> HIDE DEF cut
<1>7. /\ DOMAIN held' = DOMAIN held \ cut
      /\ \A p \in DOMAIN held' : held'[p] = held[p]
      /\ OwnPages = CodePages /\ OwnPages' = PagesAt(code, size)
  BY <1>0, <1>5 DEF Unmapped, OwnPages, PagesAt, PagesFor
<1>8. AllPages' = AllPages /\ AllPages \subseteq DOMAIN held'
  BY <1>0, <1>6, <1>7 DEF AllPages, RegexPages, PagesAt, IInv, Owners
<1>9. TypeOK'
  BY <1>0, <1>7, <1>8 DEF IInv, TypeOK, Owners
<1>10. Sizes'
  BY <1>0 DEF IInv, Sizes
<1>11. Owners'
  <2>1. \A r, s \in regexes' : r # s => RegexPages(r)' \cap RegexPages(s)' = {}
    BY <1>0 DEF IInv, Owners, RegexPages, PagesAt
  <2> QED BY <1>0, <1>6, <1>7, <1>8, <2>1 DEF IInv, Owners
<1>12. OwnKept'
  <2> SUFFICES ASSUME NEW k \in 0 .. size - 1
               PROVE  PageOf(k) \in DOMAIN held' /\ k \in held'[PageOf(k)]
    BY <1>0 DEF OwnKept, PageOf
  <2>1. PageOf(k) \in PagesAt(code, size)
    BY OwnBytes DEF IInv
  <2>2. PageOf(k) \in DOMAIN held /\ k \in held[PageOf(k)]
    BY DEF IInv, OwnKept
  <2> QED BY <1>6, <1>7, <2>1, <2>2
<1>13. RegexKept'
  BY <1>0, <1>7, <1>8, RegexKeptElsewhere
<1> QED BY <1>9, <1>10, <1>11, <1>12, <1>13 DEF IInv

\* The pages of the code become a regex's, and executable.
LEMMA ProtectInv == IInv /\ Protect => IInv'
<1> SUFFICES ASSUME IInv, Protect PROVE IInv'
  OBVIOUS
<1> USE DEF Protect
<1> DEFINE new == [code |-> code, size |-> size]
<1>1. /\ pc = "protect" /\ regexes' = regexes \cup {new} /\ held' = held
      /\ executable' = executable \cup PagesAt(code, size) /\ orphans' = orphans
  OBVIOUS
<1>2. size > 0 /\ code # NULL /\ blocks = {} /\ size \in Nat
  BY Numbers DEF IInv, Sizes
<1>3. RegexPages(new) = PagesAt(code, size) /\ OwnPages = PagesAt(code, size)
  BY DEF RegexPages, OwnPages
<1>4. \A r : RegexPages(r)' = RegexPages(r)
  BY DEF RegexPages, PagesAt
<1>5. AllPages' = AllPages \cup RegexPages(new) /\ OwnPages' = {}
  BY <1>4 DEF AllPages, OwnPages, CodePages
<1>6. TypeOK'
  <2>1. new.code \in 1 .. Pages /\ new.size \in 1 .. MaxSize
    BY <1>2, PagesAssumption DEF IInv, TypeOK, NULL
  <2>2. PagesAt(code, size) \subseteq DOMAIN held
    BY <1>3 DEF IInv, Owners
  <2> QED BY <2>1, <2>2, PagesAssumption DEF IInv, TypeOK, NULL
<1>7. Sizes'
  <2>1. PageSize * 0 = 0
    BY PagesAssumption
  <2> QED BY <1>2, <2>1 DEF IInv, Sizes
<1>8. Owners'
  <2>1. \A r \in regexes : RegexPages(r) \cap RegexPages(new) = {}
    BY <1>3 DEF IInv, Owners, AllPages
  <2>2. \A r, s \in regexes' : r # s => RegexPages(r) \cap RegexPages(s) = {}
    BY <1>1, <2>1 DEF IInv, Owners
  <2>3. \A r, s \in regexes' : r # s => RegexPages(r)' \cap RegexPages(s)' = {}
    BY <1>4, <2>2
  <2>4. orphans \cap (AllPages \cup RegexPages(new)) = {}
    BY <1>3 DEF IInv, Owners
  <2> HIDE DEF new
  <2> QED BY <1>1, <1>3, <1>5, <2>3, <2>4 DEF IInv, Owners
<1>9. OwnKept'
  BY DEF OwnKept
<1>10. RegexKept'
  <2> SUFFICES ASSUME NEW r \in regexes', NEW k \in 0 .. MaxSize, k < r.size
               PROVE  LET p == r.code + k \div PageSize
                      IN p \in DOMAIN held /\ k \in held[p] /\ p \in executable'
    BY <1>1 DEF RegexKept
  <2>1. CASE r \in regexes
    BY <1>1, <2>1 DEF IInv, RegexKept
  <2>2. CASE r = new
    <3>1. k \in 0 .. size - 1 /\ r.code = code
      BY <1>2, <2>2, PagesAssumption
    <3>2. /\ PageOf(k) \in DOMAIN held /\ k \in held[PageOf(k)]
          /\ PageOf(k) \in PagesAt(code, size)
      BY <3>1, OwnBytes DEF IInv, OwnKept
    <3> QED BY <1>1, <3>1, <3>2 DEF PageOf
  <2> QED BY <1>1, <2>1, <2>2
<1> QED BY <1>6, <1>7, <1>8, <1>9, <1>10 DEF IInv

\* mprotect fails, and the pages are given back.
LEMMA ProtectFailsInv == IInv /\ ProtectFails => IInv'
<1> SUFFICES ASSUME IInv, ProtectFails PROVE IInv'
  OBVIOUS
<1> USE DEF ProtectFails
<1>1. /\ DOMAIN held' = DOMAIN held \ PagesAt(code, size)
      /\ \A p \in DOMAIN held' : held'[p] = held[p]
      /\ OwnPages = PagesAt(code, size)
  BY DEF Unmapped, OwnPages
<1>2. /\ AllPages' = AllPages /\ OwnPages' = {} /\ AllPages \subseteq DOMAIN held'
  BY <1>1 DEF AllPages, RegexPages, PagesAt, OwnPages, CodePages, IInv, Owners
<1>3. TypeOK'
  BY <1>1, <1>2, PagesAssumption DEF IInv, TypeOK, NULL, Owners
<1>4. Sizes'
  <2>1. PageSize * 0 = 0
    BY PagesAssumption
  <2> QED BY <2>1 DEF IInv, Sizes
<1>5. Owners'
  BY <1>1, <1>2 DEF IInv, Owners, RegexPages, PagesAt
<1>6. OwnKept'
  BY DEF OwnKept
<1>7. RegexKept'
  BY <1>1, <1>2, RegexKeptElsewhere
<1> QED BY <1>3, <1>4, <1>5, <1>6, <1>7 DEF IInv

\* crex_destroy_regex gives back one regex's pages; the others keep theirs.
LEMMA DestroyRegexInv == IInv /\ DestroyRegex => IInv'
<1> SUFFICES ASSUME IInv, DestroyRegex PROVE IInv'
  OBVIOUS
<1>0. pc = "idle" /\ UNCHANGED <<pc, code, size, capacity, needed, uses, blocks, orphans>>
  BY DEF DestroyRegex, asVars
<1>1. PICK r \in regexes :
        /\ held' = Unmapped(held, RegexPages(r))
        /\ executable' = executable \ RegexPages(r)
        /\ regexes' = regexes \ {r}
  BY DEF DestroyRegex, RegexPages
<1>2. /\ DOMAIN held' = DOMAIN held \ RegexPages(r)
      /\ \A p \in DOMAIN held' : held'[p] = held[p]
      /\ OwnPages = {} /\ OwnPages' = {}
  BY <1>0, <1>1 DEF Unmapped, OwnPages, CodePages, IInv, Sizes
<1>3. \A s : RegexPages(s)' = RegexPages(s)
  BY DEF RegexPages, PagesAt
<1>4. AllPages' = AllPages \ RegexPages(r)
  <2>1. \A s \in regexes \ {r} : RegexPages(s) \cap RegexPages(r) = {}
    BY DEF IInv, Owners
  <2> QED BY <1>1, <1>3, <2>1 DEF AllPages
<1>5. TypeOK'
  BY <1>0, <1>1, <1>2 DEF IInv, TypeOK
<1>6. Sizes'
  BY <1>0 DEF IInv, Sizes
<1>7. Owners'
  <2>1. RegexPages(r) \subseteq AllPages
    BY DEF AllPages
  <2>2. \A s, t \in regexes' : s # t => RegexPages(s)' \cap RegexPages(t)' = {}
    BY <1>1, <1>3 DEF IInv, Owners
  <2> QED BY <1>0, <1>1, <1>2, <1>4, <2>1, <2>2 DEF IInv, Owners
<1>8. OwnKept'
  BY <1>0 DEF IInv, OwnKept, Sizes, TypeOK
<1>9. RegexKept'
  <2> SUFFICES ASSUME NEW s \in regexes', NEW k \in 0 .. MaxSize, k < s.size
               PROVE  LET p == s.code + k \div PageSize
                      IN p \in DOMAIN held' /\ k \in held'[p] /\ p \in executable'
    BY DEF RegexKept
  <2> DEFINE p == s.code + k \div PageSize
  <2>1. p \in DOMAIN held /\ k \in held[p] /\ p \in executable
    BY <1>1 DEF IInv, RegexKept
  <2>2. p \in RegexPages(s)
    <3>1. s.size \in Nat /\ s.code \in Nat /\ k \in 0 .. s.size - 1
      BY <1>1, PagesAssumption DEF IInv, TypeOK
    <3>2. k \div PageSize \in 0 .. PagesFor(s.size) - 1 /\ PagesFor(s.size) \in Nat
      BY <3>1, PageOfByte, Rounding
    <3> QED BY <3>1, <3>2 DEF RegexPages, PagesAt
  <2>3. p \notin RegexPages(r)
    BY <1>1, <2>2 DEF IInv, Owners
  <2> HIDE DEF p
  <2>4. p \in DOMAIN held' /\ k \in held'[p] /\ p \in executable'
    BY <1>1, <1>2, <2>1, <2>3
  <2> QED BY <2>4 DEF p
<1> QED BY <1>5, <1>6, <1>7, <1>8, <1>9 DEF IInv

-----------------------------------------------------------------------------
(* The theorems                                                            *)

\* Every action preserves the invariant.
LEMMA NextInv == IInv /\ [Next]_vars => IInv'
<1> SUFFICES ASSUME IInv, [Next]_vars PROVE IInv'
  OBVIOUS
<1>1. CASE Assembling
  BY <1>1, ReserveInv, GrowInPlaceInv, RefusedInv, MoveInv, WriteInv, DefineLabelInv,
     DestroyInv DEF Assembling
<1>2. CASE Finalizing
  BY <1>2, ResolveInv, ResolveFailsInv, TrimInv, ProtectInv, ProtectFailsInv DEF Finalizing
<1>3. CASE Compile \/ DestroyRegex
  BY <1>3, CompileInv, DestroyRegexInv
<1>4. CASE UNCHANGED vars
  BY <1>4 DEF vars, asVars, IInv, TypeOK, Sizes, HasRoom, Owners, OwnPages, CodePages,
              AllPages, RegexPages, PagesAt, OwnKept, PageOf, RegexKept
<1> QED BY <1>1, <1>2, <1>3, <1>4 DEF Next

\* The invariant holds in every reachable state.
LEMMA Invariant == Spec => []IInv
<1> QED BY InitInv, NextInv, PTL DEF Spec

\* No page is lost, mapped twice or given back while somebody uses it, whichever
\* requests for memory are refused; the pages of a failed resolution are the only
\* ones nobody owns.
THEOREM NoPageIsLost == Spec => []MemoryAccounted
<1>1. IInv => MemoryAccounted
  <2> SUFFICES ASSUME IInv PROVE MemoryAccounted
    OBVIOUS
  <2>1. TypeOK /\ (pc = "idle" => blocks = {})
    BY DEF IInv, Sizes
  <2>2. ASSUME pc \notin {"trim", "protect"}
        PROVE  /\ DOMAIN held = CodePages \cup orphans \cup AllPages
               /\ CodePages \cap orphans = {}
               /\ AllPages \cap (CodePages \cup orphans) = {}
    BY <2>2 DEF IInv, Owners, OwnPages
  <2>3. \A r \in regexes : RegexPages(r) \subseteq AllPages
    BY DEF AllPages
  <2>4. \A r, s \in regexes : r # s => RegexPages(r) \cap RegexPages(s) = {}
    BY DEF IInv, Owners
  <2> QED BY <2>1, <2>2, <2>3, <2>4 DEF MemoryAccounted, AllPages
<1> QED BY <1>1, Invariant, PTL

\* Every byte of code stays where its owner looks for it, while the assembler
\* grows and moves and other regexes come and go, and what is written has room.
THEOREM CodeIsKept == Spec => []CodeKept
<1>1. IInv => CodeKept
  BY DEF IInv, OwnKept, RegexKept, Sizes, CodeKept
<1> QED BY <1>1, Invariant, PTL
=============================================================================
