--------------------------- MODULE AssemblerProofs --------------------------
(***************************************************************************)
(* Proofs about the assembler, for every program, number of passes and     *)
(* range of short jumps.  A jump is made short by the labels as estimated  *)
(* then, and stays so while later passes move labels further; that it      *)
(* still fits rests on the gap between any two uses only ever growing      *)
(* smaller, in each pass as in the one before.  What comes out is the code *)
(* as assembled, each use moved by what was gained before it.              *)
(***************************************************************************)
EXTENDS LocalBranches, ChainProofs, SequenceTheorems, TLAPS

N         == Len(uses)
Off(k)    == uses[k].offset
IsDef(k)  == uses[k].type = "DEFINITION"
GainOf(k) == IF k \in short THEN Gain(uses[k].type) ELSE 0

\* Entries lie in order, with their room, and a label has one definition.
Ordered ==
  /\ \A j, k \in Uses : j < k => Off(j) + Reserved(uses[j].type) <= Off(k)
  /\ \A k \in Uses : pc # "done" => Off(k) + Reserved(uses[k].type) <= Size
  /\ \A j, k \in Uses : IsDef(j) /\ IsDef(k) /\ uses[j].label = uses[k].label => j = k

\* Every label in use has a definition.
HasDefinition ==
  pc \in {"relax", "emit"} =>
    \A k \in Uses : \E d \in Uses : IsDef(d) /\ uses[d].label = uses[k].label

Unresolved ==
  pc = "assemble" => short = {} /\ i = 1 /\ shrinkage = 0 /\ prev_shrinkage = 0

\* What the passes have shortened: shrinkage at each use, never less between
\* two of them than in the pass before, and never more than there was room.
Shrinking ==
  pc = "relax" =>
    /\ uses # <<>>
    /\ now[1] = 0 /\ was[1] = 0
    /\ shrinkage = now[i] /\ prev_shrinkage = was[N + 1]
    /\ \A k \in 1 .. N + 1 : k > i => now[k] = was[k]
    /\ \A j, k \in 1 .. N + 1 : j <= k => was[j] <= was[k]
    /\ \A j, k \in 1 .. N + 1 : j <= k /\ k <= i => was[k] - was[j] <= now[k] - now[j]
    /\ \A j, k \in Uses : j <= k => was[k] - was[j] <= Off(k) - Off(j)
    /\ \A j, k \in Uses : j <= k /\ k <= i => now[k] - now[j] <= Off(k) - Off(j)
    /\ \A k \in Uses : IF k < i THEN now[k + 1] = now[k] + GainOf(k)
                                ELSE was[k + 1] = was[k] + GainOf(k)

Estimates ==
  pc = "relax" =>
    \A d \in Uses : IsDef(d) =>
      label_values[uses[d].label] = Off(d) - IF d < i THEN now[d] ELSE was[d]

\* Short jumps fit as far as the last pass knows, those this pass has been at
\* also as far as it knows.
Fitting ==
  pc = "relax" =>
    \A j \in short, d \in Uses : IsDef(d) /\ uses[d].label = uses[j].label =>
      /\ j < d => Off(d) - Off(j) - 2 - (was[d] - was[j + 1] + Gain(uses[j].type)) <= ShortMax
      /\ d < j => Off(d) - Off(j) - 2 + (IF j < i THEN now[j] - now[d] ELSE was[j] - was[d])
                    >= -ShortMax - 1

\* When the passes end, shrinkage and labels agree with what is short.
Settled ==
  pc = "emit" =>
    /\ uses # <<>>
    /\ now[1] = 0
    /\ \A k \in Uses : now[k + 1] = now[k] + GainOf(k)
    /\ \A k \in Uses : now[k] <= Off(k)
    /\ \A d \in Uses : IsDef(d) => label_values[uses[d].label] = Off(d) - now[d]
    /\ \A j \in short, d \in Uses : IsDef(d) /\ uses[d].label = uses[j].label =>
         FitsShort((Off(d) - now[d]) - (Off(j) - now[j] + 2))
    /\ i <= N => out = Off(i) - now[i]
    /\ i > N => out <= Size

IInv == TypeOK /\ Ordered /\ HasDefinition /\ Unresolved /\ Shrinking /\ Estimates /\ Fitting /\ Settled

-----------------------------------------------------------------------------
(* Types                                                                   *)

\* Room and gains are numbers, and a jump is left with two bytes.
LEMMA Rooms ==
  \A t \in Types : /\ Reserved(t) \in Nat /\ Gain(t) \in {3, 4}
                   /\ t \in Jumps => Reserved(t) = Gain(t) + 2
  BY DEF Types, Jumps, Reserved, Gain

\* A function on the first numbers is a sequence.
LEMMA FunctionIsSeq ==
  ASSUME NEW S, NEW n \in Nat, NEW f \in [1 .. n -> S]
  PROVE  f \in Seq(S) /\ Len(f) = n
<1>1. f \in Seq(S)
  BY SeqDef
<1>2. DOMAIN f = 1 .. Len(f) /\ Len(f) \in Nat
  BY <1>1, LenProperties
<1> QED BY <1>1, <1>2

\* Overwriting keeps the length and the kind of what is overwritten.
LEMMA OverwriteType ==
  ASSUME NEW S, NEW c \in Seq(S), NEW at \in Int, NEW s \in Seq(S)
  PROVE  Overwrite(c, at, s) \in Seq(S) /\ Len(Overwrite(c, at, s)) = Len(c)
<1>1. /\ DOMAIN c = 1 .. Len(c) /\ Len(c) \in Nat
      /\ \A p \in 1 .. Len(c) : c[p] \in S
      /\ \A p \in DOMAIN s : s[p] \in S
  BY LenProperties, ElementOfSeq
<1>2. Overwrite(c, at, s) \in [1 .. Len(c) -> S]
  BY <1>1 DEF Overwrite
<1> QED BY <1>1, <1>2, FunctionIsSeq

\* A jump made short goes on to the next use like the others.
LEMMA GoOnType ==
  ASSUME TypeOK, Passing, NEW s \in SUBSET {k \in Uses : uses[k].type \in Jumps},
         NEW gained \in Nat, GoOn(s, gained), label_values' \in [Labels -> Nat \cup {Undefined}]
  PROVE  TypeOK'
<1>1. Len(uses) \in Nat /\ DOMAIN uses = 1 .. Len(uses)
  BY LenProperties DEF TypeOK
<1>2. now' \in [1 .. Len(uses) + 1 -> Nat]
  BY <1>1 DEF TypeOK, Passing, GoOn
<1> QED BY <1>1, <1>2 DEF TypeOK, Passing, GoOn, Uses

\* A new assembler has no uses: the invariant holds.
THEOREM InitInv == Init => IInv
<1> SUFFICES ASSUME Init PROVE IInv
  OBVIOUS
<1>1. Uses = {} /\ Size = 0 /\ Len(uses) = 0
  BY EmptySeq DEF Init, Uses, Size
<1>2. TypeOK
  BY <1>1, EmptySeq DEF Init, TypeOK, Undefined
<1> QED
  BY <1>1, <1>2 DEF Init, IInv, Ordered, HasDefinition, Unresolved, Shrinking, Estimates,
                    Fitting, Settled

\* What TypeOK says of sequences, for the arithmetic of the proofs below.
LEMMA Basics ==
  ASSUME TypeOK
  PROVE  /\ N \in Nat /\ Uses = 1 .. N /\ Size \in Nat
         /\ \A k \in Uses : /\ uses[k] \in [type : Types, offset : Nat, label : Labels]
                            /\ uses[k].type \in Types /\ Off(k) \in Nat
                            /\ uses[k].label \in Labels
         /\ \A k \in Uses : GainOf(k) \in {0, 3, 4}
<1>1. N \in Nat /\ Uses = 1 .. N /\ Size \in Nat
  BY LenProperties DEF TypeOK, N, Uses, Size
<1>2. \A k \in Uses : uses[k] \in [type : Types, offset : Nat, label : Labels]
  BY <1>1, ElementOfSeq DEF TypeOK, N
<1>3. \A k \in Uses : GainOf(k) \in {0, 3, 4}
  BY <1>2, Rooms DEF GainOf
<1> QED BY <1>1, <1>2, <1>3 DEF Off

\* Entries further on have offsets further on.
LEMMA OffsetsAscend ==
  ASSUME TypeOK, Ordered
  PROVE  \A j, k \in Uses : j <= k => Off(j) <= Off(k)
<1>1. \A k \in Uses : Off(k) \in Nat /\ Reserved(uses[k].type) \in Nat
  BY Basics, Rooms
<1>2. ASSUME NEW j \in Uses, NEW k \in Uses, j <= k
      PROVE  Off(j) <= Off(k)
  <2>1. CASE j = k
    BY <1>1, <2>1
  <2>2. CASE j < k
    BY <1>1, <2>2 DEF Ordered
  <2> QED BY <1>2, <2>1, <2>2, Basics
<1> QED BY <1>2

-----------------------------------------------------------------------------
(* Assembling                                                              *)

\* Appending other instructions keeps the uses in order, before the end.
LEMMA EncodeInv == IInv /\ Encode => IInv'
<1> SUFFICES ASSUME IInv, Encode PROVE IInv'
  OBVIOUS
<1>1. PICK n \in Segments : code' = code \o [k \in 1 .. n |-> Cell("code", Size + k - 1)]
  BY DEF Encode
<1>2. n \in Nat /\ Size \in Nat /\ code \in Seq(Cells)
  BY SegmentsAssumption, Basics DEF IInv, TypeOK
<1>3. [k \in 1 .. n |-> Cell("code", Size + k - 1)] \in [1 .. n -> Cells]
  BY <1>2 DEF Cell, Cells
<1>4. code' \in Seq(Cells) /\ Size' >= Size /\ Size' \in Nat
  <2> DEFINE s == [k \in 1 .. n |-> Cell("code", Size + k - 1)]
  <2>1. s \in Seq(Cells) /\ Len(s) = n
    BY <1>2, <1>3, FunctionIsSeq
  <2> HIDE DEF s
  <2>2. code \o s \in Seq(Cells) /\ Len(code \o s) = Len(code) + Len(s)
    BY <1>2, <2>1, ConcatProperties
  <2> QED BY <1>1, <1>2, <2>1, <2>2 DEF Size, s
<1>5. TypeOK'
  BY <1>4 DEF IInv, TypeOK, Encode, relaxVars, Uses
<1>6. Ordered'
  <2>1. \A k \in Uses : uses[k].offset \in Nat /\ Reserved(uses[k].type) \in Nat
    BY Basics, Rooms DEF IInv, Off
  <2>2. pc = "assemble" /\ uses' = uses /\ Uses' = Uses /\ pc' = pc
    BY DEF Encode, Uses
  <2>3. \A k \in Uses : uses[k].offset + Reserved(uses[k].type) <= Size'
    BY <1>2, <1>4, <2>1, <2>2 DEF IInv, Ordered, Off
  <2> QED
    BY <2>2, <2>3 DEF IInv, Ordered, Off, IsDef
<1> QED
  BY <1>5, <1>6 DEF IInv, Encode, relaxVars, HasDefinition, Unresolved, Shrinking, Estimates,
                    Fitting, Settled

\* push_label_use adds an entry behind all others, with its room.
LEMMA PushLabelUseInv ==
  ASSUME IInv, NEW t \in Types, NEW l \in Labels, PushLabelUse(t, l),
         t = "DEFINITION" => l \notin DefinedIn(uses)
  PROVE  IInv'
<1>1. /\ N \in Nat /\ Uses = 1 .. N /\ Size \in Nat /\ Reserved(t) \in Nat
      /\ code \in Seq(Cells)
      /\ uses \in Seq([type : Types, offset : Nat, label : Labels])
  BY Basics, Rooms DEF IInv, TypeOK
<1> DEFINE u == [type |-> t, offset |-> Size, label |-> l]
<1>2. u \in [type : Types, offset : Nat, label : Labels] /\ uses' = Append(uses, u)
  BY <1>1 DEF PushLabelUse
<1>3. /\ uses' \in Seq([type : Types, offset : Nat, label : Labels])
      /\ N' = N + 1 /\ Uses' = 1 .. N + 1
      /\ \A k \in Uses : uses'[k] = uses[k]
      /\ uses'[N + 1] = u
  BY <1>1, <1>2, AppendProperties, LenProperties DEF N, Uses
<1>4. [k \in 1 .. Reserved(t) |-> Cell("room", 0)] \in [1 .. Reserved(t) -> Cells]
  BY DEF Cell, Cells
<1>5. code' \in Seq(Cells) /\ Size' = Size + Reserved(t)
  <2> DEFINE room == [k \in 1 .. Reserved(t) |-> Cell("room", 0)]
  <2>1. room \in Seq(Cells) /\ Len(room) = Reserved(t)
    BY <1>1, <1>4, FunctionIsSeq
  <2>2. code' = code \o room
    BY DEF PushLabelUse
  <2> HIDE DEF room
  <2> QED BY <1>1, <2>1, <2>2, ConcatProperties DEF Size
<1>6. pc = "assemble" /\ pc' = pc /\ short' = short /\ short = {}
  BY DEF PushLabelUse, IInv, Unresolved
<1>7. TypeOK'
  BY <1>1, <1>3, <1>5, <1>6 DEF IInv, TypeOK, PushLabelUse, relaxVars, N, Unresolved
<1>8. Ordered'
  <2>1. \A k \in Uses : /\ uses[k].offset \in Nat /\ Reserved(uses[k].type) \in Nat
                        /\ uses[k].offset + Reserved(uses[k].type) <= Size
    BY <1>6, Basics, Rooms DEF IInv, Off, Ordered
  <2>2. uses'[N + 1].offset = Size /\ uses'[N + 1].type = t /\ uses'[N + 1].label = l
    BY <1>3
  <2>7. \A k \in Uses' : k \in Uses \/ k = N + 1
    BY <1>1, <1>3
  <2>3. ASSUME NEW j \in Uses', NEW k \in Uses', j < k
        PROVE  uses'[j].offset + Reserved(uses'[j].type) <= uses'[k].offset
    <3>1. j \in Uses /\ uses'[j] = uses[j]
      <4>1. k <= N + 1 /\ j # N + 1
        BY <1>1, <2>3, <2>7
      <4> QED BY <1>3, <2>7, <4>1
    <3>2. CASE k \in Uses
      BY <1>3, <2>3, <3>1, <3>2 DEF IInv, Ordered, Off
    <3>3. CASE k = N + 1
      BY <2>1, <2>2, <3>1, <3>3
    <3> QED BY <2>7, <3>2, <3>3
  <2>4. ASSUME NEW k \in Uses'
        PROVE  uses'[k].offset + Reserved(uses'[k].type) <= Size'
    <3>1. CASE k \in Uses
      <4>1. uses'[k] = uses[k]
        BY <1>3, <3>1
      <4>2. uses[k].offset + Reserved(uses[k].type) <= Size + Reserved(t)
        BY SMTT(40), <1>1, <2>1, <3>1
      <4> QED BY <1>5, <4>1, <4>2
    <3>2. CASE k = N + 1
      BY <1>1, <1>5, <2>2, <3>2
    <3> QED BY <2>7, <3>1, <3>2
  <2>5. \A j \in Uses : IsDef(j) /\ t = "DEFINITION" => uses[j].label # l
    BY <1>1 DEF DefinedIn, IsDef, Uses
  <2>6. \A j, k \in Uses' :
          uses'[j].type = "DEFINITION" /\ uses'[k].type = "DEFINITION"
            /\ uses'[j].label = uses'[k].label => j = k
    BY <1>3, <2>2, <2>5, <2>7 DEF IInv, Ordered, IsDef
  <2> QED BY <2>3, <2>4, <2>6 DEF Ordered, Off, IsDef
<1> QED
  BY <1>6, <1>7, <1>8 DEF IInv, PushLabelUse, relaxVars, HasDefinition, Unresolved, Shrinking,
                          Estimates, Fitting, Settled

\* Whatever compile_to_native appends preserves the invariant.
LEMMA AssemblingInv == IInv /\ Assembling => IInv'
<1> SUFFICES ASSUME IInv, Assembling PROVE IInv'
  OBVIOUS
<1>1. CASE Encode
  BY <1>1, EncodeInv
<1>2. CASE DefineLabel
  BY <1>2, PushLabelUseInv DEF DefineLabel, Types
<1>3. CASE UseLabel
  BY <1>3, PushLabelUseInv, SegmentsAssumption DEF UseLabel, Types, Jumps
<1> QED BY <1>1, <1>2, <1>3 DEF Assembling

-----------------------------------------------------------------------------
(* The passes                                                              *)

\* resolve_assembler_labels begins: labels are where they were assembled and
\* nothing is short yet.
LEMMA BeginPassesInv == IInv /\ BeginPasses => IInv'
<1> SUFFICES ASSUME IInv, BeginPasses PROVE IInv'
  OBVIOUS
<1>1. /\ pc = "assemble" /\ pc' = "relax" /\ uses' = uses /\ code' = code
      /\ short' = {} /\ short = {} /\ i' = 1 /\ i = 1 /\ shrinkage' = 0 /\ prev_shrinkage' = 0
      /\ was' = now' /\ out' = out
  BY DEF IInv, BeginPasses, Unresolved
<1>2. N \in Nat /\ Uses = 1 .. N /\ Uses' = Uses /\ N' = N
  BY <1>1, Basics DEF IInv, Uses, N
<1>3. now' = [k \in 1 .. N + 1 |-> 0]
  BY <1>1 DEF BeginPasses, N
<1>4. uses # <<>> /\ \A k \in Uses : \E d \in Uses : IsDef(d) /\ uses[d].label = uses[k].label
  BY DEF BeginPasses, Complete, LabelsIn, DefinedIn, Uses, IsDef
<1>5. ASSUME NEW d \in Uses, IsDef(d)
      PROVE  label_values'[uses[d].label] = uses[d].offset
  <2> DEFINE l == uses[d].label
             U == {u \in {uses[k] : k \in DOMAIN uses} : u.type = "DEFINITION" /\ u.label = l}
  <2>1. l \in Labels /\ l \in DefinedIn(uses)
    BY <1>5, Basics DEF IInv, DefinedIn, IsDef, Uses
  <2>2. \A u \in {uses[k] : k \in DOMAIN uses} :
          u.type = "DEFINITION" /\ u.label = l => u = uses[d]
    BY <1>5 DEF IInv, Ordered, IsDef, Uses
  <2>3. uses[d] \in {uses[k] : k \in DOMAIN uses}
    BY DEF Uses
  <2>4. (CHOOSE u \in {uses[k] : k \in DOMAIN uses} :
           u.type = "DEFINITION" /\ u.label = l) = uses[d]
    BY <1>5, <2>2, <2>3 DEF IsDef
  <2> QED BY <2>1, <2>4 DEF BeginPasses
<1>6. label_values' \in [Labels -> Nat \cup {Undefined}]
  <2>1. ASSUME NEW l \in Labels, l \in DefinedIn(uses)
        PROVE  label_values'[l] \in Nat
    <3>1. PICK d \in Uses : IsDef(d) /\ uses[d].label = l
      BY <2>1 DEF DefinedIn, IsDef, Uses
    <3> QED BY <1>5, <3>1, Basics DEF IInv, Off
  <2>2. /\ label_values' = [l \in Labels |-> label_values'[l]]
        /\ \A l \in Labels : l \notin DefinedIn(uses) => label_values'[l] = Undefined
    BY DEF BeginPasses
  <2> QED BY <2>1, <2>2
<1>7. TypeOK'
  BY <1>1, <1>2, <1>3, <1>6 DEF IInv, TypeOK, N, Uses
<1>8. Ordered'
  BY <1>1, <1>2 DEF IInv, Ordered, Off, IsDef, Size
<1>9. HasDefinition'
  BY <1>1, <1>2, <1>4 DEF HasDefinition, IsDef
<1>10. Shrinking'
  <2>1. \A j, k \in Uses : j <= k => uses[j].offset <= uses[k].offset
    BY <1>2, OffsetsAscend DEF IInv, Off
  <2>2. \A k \in Uses : uses[k].offset \in Nat
    BY Basics DEF IInv, Off
  <2>3. \A k \in 1 .. N + 1 : now'[k] = 0 /\ was'[k] = 0
    BY <1>1, <1>3
  <2>4. \A k \in Uses : k \in 1 .. N + 1 /\ k + 1 \in 1 .. N + 1
    BY <1>2
  <2>5. 1 \in 1 .. N + 1 /\ N + 1 \in 1 .. N + 1
    BY <1>2
  <2>6. \A k \in Uses : (IF k \in short' THEN Gain(uses'[k].type) ELSE 0) = 0
    BY <1>1
  <2>7. uses' # <<>> /\ now'[1] = 0 /\ was'[1] = 0 /\ shrinkage' = now'[i'] /\ prev_shrinkage' = was'[N' + 1]
    BY <1>1, <1>2, <1>4, <2>3, <2>5
  <2>8. \A j, k \in 1 .. N' + 1 : /\ now'[k] = was'[k] /\ was'[j] <= was'[k]
                                 /\ was'[k] - was'[j] <= now'[k] - now'[j]
    BY <1>2, <2>3
  <2>9. \A j, k \in Uses' : j <= k => /\ was'[k] - was'[j] <= uses'[k].offset - uses'[j].offset
                                     /\ now'[k] - now'[j] <= uses'[k].offset - uses'[j].offset
    <3> SUFFICES ASSUME NEW j \in Uses, NEW k \in Uses, j <= k
                 PROVE  /\ was'[k] - was'[j] <= uses[k].offset - uses[j].offset
                        /\ now'[k] - now'[j] <= uses[k].offset - uses[j].offset
      BY <1>1, <1>2
    <3>1. was'[k] - was'[j] = 0 /\ now'[k] - now'[j] = 0
      BY <2>3, <2>4
    <3>2. uses[k].offset - uses[j].offset >= 0
      BY <2>1, <2>2
    <3> QED BY <2>2, <3>1, <3>2
  <2>10. \A k \in Uses' : was'[k + 1] = was'[k] + (IF k \in short' THEN Gain(uses'[k].type) ELSE 0)
    BY <1>2, <2>3, <2>4, <2>6
  <2>11. \A k \in Uses' : now'[k + 1] = now'[k] + (IF k \in short' THEN Gain(uses'[k].type) ELSE 0)
    BY <1>2, <2>3, <2>4, <2>6
  <2> QED
    BY <2>7, <2>8, <2>9, <2>10, <2>11 DEF Shrinking, Off, GainOf
<1>11. Estimates'
  BY <1>1, <1>2, <1>3, <1>5, Basics DEF IInv, Estimates, IsDef, Off
<1> QED
  BY <1>1, <1>7, <1>8, <1>9, <1>10, <1>11 DEF IInv, Unresolved, Fitting, Settled
\* The facts about passing that the arithmetic below needs, with the types.
LEMMA PassingFacts ==
  ASSUME IInv, Passing
  PROVE  /\ i \in Uses /\ i + 1 \in 1 .. N + 1 /\ pc = "relax"
         /\ i \in Nat /\ 1 <= i /\ i <= N
         /\ now \in [1 .. N + 1 -> Nat] /\ was \in [1 .. N + 1 -> Nat]
         /\ \A k \in 1 .. N + 1 : now[k] \in Nat /\ was[k] \in Nat
         /\ was[i] <= now[i] /\ now[i] <= Off(i) /\ shrinkage = now[i]
         /\ now[i + 1] = was[i + 1] /\ was[i + 1] = was[i] + GainOf(i)
<1>1. /\ N \in Nat /\ Uses = 1 .. N /\ i \in Nat /\ pc = "relax" /\ i <= N /\ 1 <= i
      /\ now \in [1 .. N + 1 -> Nat] /\ was \in [1 .. N + 1 -> Nat]
  BY Basics DEF IInv, TypeOK, Passing, N
<1>2. \A k \in 1 .. N + 1 : now[k] \in Nat /\ was[k] \in Nat
  BY <1>1
<1>3. i \in Uses /\ i + 1 \in 1 .. N + 1 /\ i \in 1 .. N + 1 /\ 1 \in Uses /\ 1 \in 1 .. N + 1
  BY <1>1
<1>4. /\ now[1] = 0 /\ was[1] = 0 /\ shrinkage = now[i]
      /\ was[i] - was[1] <= now[i] - now[1] /\ now[i] - now[1] <= Off(i) - Off(1)
      /\ now[i + 1] = was[i + 1] /\ was[i + 1] = was[i] + GainOf(i)
  BY <1>1, <1>3 DEF IInv, Shrinking
<1>5. Off(i) \in Nat /\ Off(1) \in Nat
  BY <1>3, Basics DEF IInv
<1> QED BY <1>1, <1>2, <1>3, <1>4, <1>5

\* One step of a pass, whatever the use: it gains at least what the pass before
\* gained there, and a jump newly made short fits by the labels as they are.
LEMMA GoOnInv ==
  ASSUME IInv, Passing, NEW s \in SUBSET Nat, NEW g \in Nat, GoOn(s, shrinkage + g),
         s = short \/ (s = short \cup {i} /\ uses[i].type \in Jumps /\ FitsShort(Target - Origin)),
         g = IF i \in s THEN Gain(uses[i].type) ELSE 0,
         label_values' = IF IsDef(i)
                         THEN [label_values EXCEPT ![uses[i].label] = Off(i) - now[i]]
                         ELSE label_values
  PROVE  IInv'
<1>1. /\ i \in Uses /\ i + 1 \in 1 .. N + 1 /\ pc = "relax"
      /\ i \in Nat /\ 1 <= i /\ i <= N
      /\ now \in [1 .. N + 1 -> Nat] /\ was \in [1 .. N + 1 -> Nat]
      /\ \A k \in 1 .. N + 1 : now[k] \in Nat /\ was[k] \in Nat
      /\ was[i] <= now[i] /\ now[i] <= Off(i) /\ shrinkage = now[i]
      /\ now[i + 1] = was[i + 1] /\ was[i + 1] = was[i] + GainOf(i)
  BY PassingFacts
<1>2. /\ N \in Nat /\ Uses = 1 .. N
      /\ \A k \in Uses : /\ Off(k) \in Nat /\ uses[k].type \in Types /\ uses[k].label \in Labels
                         /\ Reserved(uses[k].type) \in Nat
                         /\ GainOf(k) \in {0, 3, 4}
  BY Basics, Rooms DEF IInv
<1>3. /\ pc' = pc /\ uses' = uses /\ code' = code /\ was' = was /\ i' = i + 1 /\ short' = s
      /\ prev_shrinkage' = prev_shrinkage /\ shrinkage' = now[i] + g /\ out' = out
      /\ Uses' = Uses /\ N' = N /\ Size' = Size
  BY <1>1 DEF GoOn, Uses, N, Size
<1>4. /\ now' \in [1 .. N + 1 -> Nat] /\ now'[i + 1] = now[i] + g
      /\ \A k \in 1 .. N + 1 : k <= i \/ k > i + 1 => now'[k] = now[k]
  <2>1. now' = [now EXCEPT ![i + 1] = now[i] + g] /\ now[i] \in Nat
    BY <1>1, <1>2 DEF GoOn
  <2>2. now[i] + g \in Nat
    BY <2>1
  <2>3. now' \in [1 .. N + 1 -> Nat] /\ now'[i + 1] = now[i] + g
    BY <1>1, <2>1, <2>2
  <2>4. \A k \in 1 .. N + 1 : k # i + 1 => now'[k] = now[k]
    BY <1>1, <2>1
  <2>5. \A k \in 1 .. N + 1 : k <= i \/ k > i + 1 => k # i + 1
    BY <1>1, <1>2
  <2> QED BY <2>3, <2>4, <2>5
<1>5. /\ short \subseteq s /\ \A k \in s : k \in short \/ k = i
      /\ s \subseteq {k \in Uses : uses[k].type \in Jumps}
  BY <1>1 DEF IInv, TypeOK, Uses
<1>6. GainOf(i) <= g /\ g <= Reserved(uses[i].type)
  <2>1. i \in s => uses[i].type \in Jumps
    BY <1>5
  <2>2. Gain(uses[i].type) \in {3, 4}
        /\ (uses[i].type \in Jumps => Reserved(uses[i].type) = Gain(uses[i].type) + 2)
    BY <1>1, <1>2, Rooms
  <2>3. CASE i \in s
    <3>1. g = Gain(uses[i].type) /\ (GainOf(i) = g \/ GainOf(i) = 0)
      BY <2>3 DEF GainOf
    <3> QED BY <2>1, <2>2, <2>3, <3>1
  <2>4. CASE i \notin s
    <3>1. g = 0 /\ GainOf(i) = 0
      BY <1>5, <2>4 DEF GainOf
    <3> QED BY <1>1, <1>2, <3>1
  <2> QED BY <2>3, <2>4
<1>7. TypeOK'
  <2>1. Off(i) - now[i] \in Nat
    <3>1. Off(i) \in Nat /\ now[i] \in Nat
      BY <1>1, <1>2
    <3> QED BY <1>1, <3>1
  <2>2. label_values \in [Labels -> Nat \cup {Undefined}]
    BY DEF IInv, TypeOK
  <2>3. label_values' \in [Labels -> Nat \cup {Undefined}]
    BY <2>1, <2>2
  <2>4. s \in SUBSET {k \in Uses : uses[k].type \in Jumps}
    BY <1>5
  <2>5. shrinkage + g \in Nat
    BY DEF IInv, TypeOK
  <2> QED BY <2>3, <2>4, <2>5, GoOnType DEF IInv
<1>8. Ordered'
  BY <1>3 DEF IInv, Ordered, Off, IsDef
<1>9. HasDefinition'
  BY <1>3 DEF IInv, HasDefinition, IsDef
<1>10. Shrinking'
  <2>0. /\ uses # <<>> /\ now[1] = 0 /\ was[1] = 0 /\ prev_shrinkage = was[N + 1]
        /\ \A k \in 1 .. N + 1 : k > i => now[k] = was[k]
        /\ \A j, k \in 1 .. N + 1 : j <= k => was[j] <= was[k]
        /\ \A j, k \in 1 .. N + 1 : j <= k /\ k <= i => was[k] - was[j] <= now[k] - now[j]
        /\ \A j, k \in Uses : j <= k => was[k] - was[j] <= Off(k) - Off(j)
        /\ \A j, k \in Uses : j <= k /\ k <= i => now[k] - now[j] <= Off(k) - Off(j)
        /\ \A k \in Uses : IF k < i THEN now[k + 1] = now[k] + GainOf(k)
                                    ELSE was[k + 1] = was[k] + GainOf(k)
    BY <1>1 DEF IInv, Shrinking
  <2>1. now'[1] = 0
    <3>1. 1 \in 1 .. N + 1 /\ 1 <= i
      BY <1>1, <1>2
    <3> QED BY <1>4, <2>0, <3>1
  <2>2. \A k \in 1 .. N + 1 : k > i + 1 => now'[k] = was[k]
    <3>1. \A k \in 1 .. N + 1 : k > i + 1 => k > i
      BY <1>1, <1>2
    <3> QED BY <1>4, <2>0, <3>1
  <2>3. ASSUME NEW j \in 1 .. N + 1, NEW k \in 1 .. N + 1, j <= k, k <= i + 1
        PROVE  was[k] - was[j] <= now'[k] - now'[j]
    <3>0. j \in Nat /\ k \in Nat
      BY <1>2
    <3>1. CASE k <= i
      <4>1. j <= i
        BY <1>1, <2>3, <3>0, <3>1
      <4>2. now'[k] = now[k] /\ now'[j] = now[j]
        BY <1>4, <3>1, <4>1
      <4> QED BY <2>0, <2>3, <3>1, <4>2
    <3>2. CASE k = i + 1 /\ j = i + 1
      BY <1>1, <1>4, <3>2
    <3>3. CASE k = i + 1 /\ j <= i
      <4>1. now'[j] = now[j]
        BY <1>4, <3>3
      <4>2. i \in 1 .. N + 1
        BY <1>1, <1>2
      <4>3. was[i] - was[j] <= now[i] - now[j]
        BY <1>1, <2>0, <3>3, <4>2
      <4>4. was[i] \in Nat /\ was[j] \in Nat /\ now[i] \in Nat /\ now[j] \in Nat
        BY <1>1, <4>2
      <4>5. GainOf(i) \in {0, 3, 4}
        BY <1>1, <1>2
      <4>6. was[k] = was[i] + GainOf(i) /\ now'[k] = now[i] + g
        BY <1>1, <1>4, <3>3
      <4> QED BY <1>6, <4>1, <4>3, <4>4, <4>5, <4>6
    <3> QED BY <1>1, <1>2, <2>3, <3>1, <3>2, <3>3
  <2>4. ASSUME NEW j \in Uses, NEW k \in Uses, j <= k, k <= i + 1
        PROVE  now'[k] - now'[j] <= Off(k) - Off(j)
    <3>0. j \in Nat /\ k \in Nat /\ j \in 1 .. N + 1 /\ k \in 1 .. N + 1
      BY <1>2
    <3>1. CASE k <= i
      <4>0. j <= i
        BY <1>1, <2>4, <3>0, <3>1
      <4>1. now'[k] = now[k] /\ now'[j] = now[j]
        BY <1>4, <3>0, <3>1, <4>0
      <4> QED BY <2>0, <2>4, <3>1, <4>1
    <3>2. CASE k = i + 1 /\ j = i + 1
      BY <1>2, <1>4, <3>2
    <3>3. CASE k = i + 1 /\ j <= i
      <4>1. now[i] - now[j] <= Off(i) - Off(j) /\ now'[j] = now[j]
        <5>1. i \in Uses /\ i <= i
          BY <1>1
        <5> QED BY <1>4, <2>0, <3>0, <3>3, <5>1
      <4>2. Off(i) + Reserved(uses[i].type) <= Off(k)
        BY <1>1, <1>2, <3>3 DEF IInv, Ordered
      <4>3. now[j] \in Nat /\ now[i] \in Nat /\ Off(i) \in Nat /\ Off(j) \in Nat /\ Off(k) \in Nat
            /\ Reserved(uses[i].type) \in Nat
        <5>1. now[j] \in Nat /\ now[i] \in Nat
          <6>1. \A m \in 1 .. N + 1 : now[m] \in Nat
            BY <1>1
          <6>2. j \in 1 .. N + 1 /\ i \in 1 .. N + 1
            BY <1>1, <1>2, <3>0
          <6> QED BY <6>1, <6>2
        <5>2. Off(i) \in Nat /\ Off(j) \in Nat /\ Off(k) \in Nat
              /\ Reserved(uses[i].type) \in Nat
          <6>1. i \in Uses
            BY <1>1
          <6> QED BY <1>2, <6>1
        <5> QED BY <5>1, <5>2
      <4> QED BY <1>4, <1>6, <3>3, <4>1, <4>2, <4>3
    <3> QED BY <1>1, <1>2, <2>4, <3>1, <3>2, <3>3
  <2>5. ASSUME NEW k \in Uses
        PROVE  LET gain == IF k \in s THEN Gain(uses[k].type) ELSE 0
               IN  IF k < i + 1 THEN now'[k + 1] = now'[k] + gain
                                ELSE was[k + 1] = was[k] + gain
    <3> DEFINE gain == IF k \in s THEN Gain(uses[k].type) ELSE 0
    <3>0. k \in Nat /\ k \in 1 .. N + 1 /\ k + 1 \in 1 .. N + 1
      BY <1>2
    <3>1. CASE k = i
      <4>1. now'[k] = now[k] /\ now'[k + 1] = now[k] + g /\ g = gain
        BY <1>1, <1>4, <3>0, <3>1
      <4> QED BY <1>1, <3>1, <4>1
    <3>4. k # i => gain = GainOf(k)
      BY <1>5 DEF GainOf
    <3>2. CASE k < i
      <4>1. now[k + 1] = now[k] + GainOf(k)
        BY <2>0, <3>2
      <4>2. k + 1 <= i /\ k <= i /\ k < i + 1 /\ k # i
        BY <1>1, <3>0, <3>2
      <4>3. now'[k + 1] = now[k + 1] /\ now'[k] = now[k]
        BY <1>4, <3>0, <4>2
      <4> QED BY <3>4, <4>1, <4>2, <4>3
    <3>3. CASE k > i
      <4>1. ~ (k < i) /\ ~ (k < i + 1) /\ k # i
        BY <1>1, <3>0, <3>3
      <4>2. was[k + 1] = was[k] + GainOf(k)
        BY <2>0, <4>1
      <4> QED BY <3>4, <4>1, <4>2
    <3> QED BY <1>1, <3>0, <3>1, <3>2, <3>3
  <2>6. shrinkage' = now'[i'] /\ prev_shrinkage' = was'[N' + 1] /\ uses' # <<>> /\ was'[1] = 0
    BY <1>3, <1>4, <2>0
  <2>7. \A k \in 1 .. N' + 1 : k > i' => now'[k] = was'[k]
    BY <1>3, <2>2
  <2>8. \A j, k \in 1 .. N' + 1 : j <= k => was'[j] <= was'[k]
    BY <1>3, <2>0
  <2>9. \A j, k \in 1 .. N' + 1 : j <= k /\ k <= i' => was'[k] - was'[j] <= now'[k] - now'[j]
    BY <1>3, <2>3
  <2>10. \A j, k \in Uses' :
           /\ j <= k => was'[k] - was'[j] <= uses'[k].offset - uses'[j].offset
           /\ j <= k /\ k <= i' => now'[k] - now'[j] <= uses'[k].offset - uses'[j].offset
    BY <1>3, <2>0, <2>4 DEF Off
  <2>11. \A k \in Uses' :
           LET gain == IF k \in short' THEN Gain(uses'[k].type) ELSE 0
           IN  IF k < i' THEN now'[k + 1] = now'[k] + gain ELSE was'[k + 1] = was'[k] + gain
    BY <1>3, <2>5
  <2> QED
    BY <2>1, <2>6, <2>7, <2>8, <2>9, <2>10, <2>11 DEF Shrinking, Off, GainOf
<1>11. Estimates'
  <2>1. ASSUME NEW d \in Uses, IsDef(d)
        PROVE  label_values'[uses[d].label]
                 = uses[d].offset - IF d < i + 1 THEN now'[d] ELSE was[d]
    <3>1. label_values[uses[d].label] = Off(d) - IF d < i THEN now[d] ELSE was[d]
      BY <1>1, <2>1 DEF IInv, Estimates
    <3>2. CASE d = i
      <4>1. label_values'[uses[d].label] = Off(i) - now[i]
        BY <1>2, <2>1, <3>2 DEF IInv, TypeOK
      <4>2. now'[i] = now[i] /\ d < i + 1
        <5>1. i \in 1 .. N + 1 /\ i <= i /\ i < i + 1
          BY <1>1, <1>2
        <5> QED BY <1>4, <3>2, <5>1
      <4> QED BY <3>2, <4>1, <4>2 DEF Off
    <3>3. CASE d # i
      <4>1. IsDef(i) => uses[d].label # uses[i].label
        BY <1>1, <2>1, <3>3 DEF IInv, Ordered
      <4>2. label_values'[uses[d].label] = label_values[uses[d].label]
        BY <1>2, <4>1 DEF IInv, TypeOK
      <4>3. d \in Nat /\ d \in 1 .. N + 1
        BY <1>2
      <4>4. CASE d < i
        <5>1. d < i + 1 /\ d <= i
          BY <1>1, <4>3, <4>4
        <5>2. now'[d] = now[d]
          BY <1>4, <4>3, <5>1
        <5> QED BY <3>1, <4>2, <4>4, <5>1, <5>2 DEF Off
      <4>5. CASE ~ (d < i)
        <5>1. ~ (d < i + 1)
          BY <1>1, <3>3, <4>3, <4>5
        <5> QED BY <3>1, <4>2, <4>5, <5>1 DEF Off
      <4> QED BY <4>4, <4>5
    <3> QED BY <3>2, <3>3
  <2> QED BY <1>3, <2>1 DEF Estimates, IsDef, Off
<1>12. Fitting'
  <2>1. ASSUME NEW j \in s, NEW d \in Uses, IsDef(d), uses[d].label = uses[j].label
        PROVE  /\ j < d => Off(d) - Off(j) - 2 - (was[d] - was[j + 1] + Gain(uses[j].type)) <= ShortMax
               /\ d < j => Off(d) - Off(j) - 2 + (IF j < i + 1 THEN now'[j] - now'[d] ELSE was[j] - was[d])
                             >= -ShortMax - 1
    <3>0. j \in Uses /\ uses[j].type \in Jumps
      BY <1>5
    <3>9. /\ j \in 1 .. N + 1 /\ d \in 1 .. N + 1 /\ j + 1 \in 1 .. N + 1
          /\ j \in Nat /\ d \in Nat
      BY <1>2, <3>0
    <3>1. /\ Off(j) \in Nat /\ Off(d) \in Nat /\ Gain(uses[j].type) \in {3, 4}
          /\ now[j] \in Nat /\ now[d] \in Nat /\ was[j] \in Nat /\ was[d] \in Nat /\ was[j + 1] \in Nat
      BY <1>1, <1>2, <3>0, <3>9, Rooms
    <3>2. CASE j \in short
      <4>1. /\ j < d => Off(d) - Off(j) - 2 - (was[d] - was[j + 1] + Gain(uses[j].type)) <= ShortMax
            /\ d < j => Off(d) - Off(j) - 2 + (IF j < i THEN now[j] - now[d] ELSE was[j] - was[d])
                          >= -ShortMax - 1
        BY <1>1, <2>1, <3>2 DEF IInv, Fitting
      <4>2. ASSUME d < j, j < i + 1
            PROVE  now'[j] = now[j] /\ now'[d] = now[d] /\ was[j] - was[d] <= now[j] - now[d]
        <5>1. j <= i /\ d <= i /\ d <= j
          BY <1>1, <3>9, <4>2
        <5>2. now'[j] = now[j] /\ now'[d] = now[d]
          BY <1>4, <3>9, <5>1
        <5> QED BY <1>1, <3>9, <5>1, <5>2 DEF IInv, Shrinking
      <4>3. ShortMax \in Nat
        BY DisplacementAssumption
      <4>4. CASE d < j /\ j < i + 1
        <5>1. /\ now'[j] = now[j] /\ now'[d] = now[d] /\ was[j] - was[d] <= now[j] - now[d]
              /\ ~ (j < d)
          BY <3>9, <4>2, <4>4
        <5>2. CASE j < i
          BY <4>1, <4>4, <5>1, <5>2
        <5>3. CASE ~ (j < i)
          <6>1. Off(d) - Off(j) - 2 + (was[j] - was[d]) >= -ShortMax - 1
            BY <4>1, <4>4, <5>3
          <6>2. Off(d) - Off(j) - 2 + (now'[j] - now'[d]) >= -ShortMax - 1
            BY <3>1, <4>3, <5>1, <6>1
          <6> QED BY <4>4, <5>1, <6>2
        <5> QED BY <5>2, <5>3
      <4>5. CASE d < j /\ ~ (j < i + 1)
        <5>1. ~ (j < i) /\ ~ (j < d)
          BY <1>1, <3>9, <4>5
        <5> QED BY <4>1, <4>5, <5>1
      <4>6. CASE ~ (d < j)
        BY <4>1, <4>6
      <4> QED BY <4>4, <4>5, <4>6
    <3>3. CASE j \notin short
      <4>1. j = i /\ uses[i].type \in Jumps /\ FitsShort(Target - Origin) /\ was[i + 1] = was[i]
        <5>1. j = i /\ s = short \cup {i} /\ uses[i].type \in Jumps /\ FitsShort(Target - Origin)
          BY <1>5, <2>1, <3>3
        <5>2. GainOf(i) = 0 /\ was[i] \in Nat
          BY <3>1, <3>3, <5>1 DEF GainOf
        <5> QED BY <1>1, <5>1, <5>2
      <4>2. d # i
        BY <2>1, <4>1 DEF IsDef, Jumps
      <4>3. /\ label_values[uses[i].label] = Off(d) - IF d < i THEN now[d] ELSE was[d]
            /\ Origin = Off(i) - now[i] + 2
        BY <1>1, <2>1, <4>1 DEF IInv, Estimates, Origin, Use, Off
      <4>4. Target = IF label_values[uses[i].label] > Origin
                     THEN label_values[uses[i].label] - Gain(uses[i].type)
                     ELSE label_values[uses[i].label]
        BY DEF Target, Use
      <4>5. -ShortMax - 1 <= Target - Origin /\ Target - Origin <= ShortMax
        <5>1. Off(d) \in Int /\ now[d] \in Int /\ was[d] \in Int /\ Off(i) \in Int /\ now[i] \in Int
              /\ Gain(uses[i].type) \in Int
          BY <3>1, <4>1
        <5>2. label_values[uses[i].label] \in Int /\ Origin \in Int
          BY <4>3, <5>1
        <5>3. Target - Origin \in Int
          BY <4>4, <5>1, <5>2
        <5> QED BY <4>1, <5>3, DisplacementAssumption DEF FitsShort
      <4>8. /\ ShortMax \in Nat /\ now[i] \in Nat /\ was[i] \in Nat /\ was[d] \in Nat /\ now[d] \in Nat
            /\ Off(i) \in Nat /\ Off(d) \in Nat /\ Gain(uses[i].type) \in Int
            /\ 0 <= Gain(uses[i].type) /\ was[i] <= now[i]
        BY <1>1, <3>1, <4>1, DisplacementAssumption
      <4>6. CASE i < d
        <5>1. ~ (d < i) /\ ~ (d < j)
          BY <1>1, <3>9, <4>1, <4>6
        <5>2. label_values[uses[i].label] = Off(d) - was[d]
          BY <4>3, <5>1
        <5>3. Off(d) - Off(i) - 2 - (was[d] - was[i] + Gain(uses[i].type)) <= ShortMax
          <6>1. CASE Off(d) - was[d] > Off(i) - now[i] + 2
            <7>1. Target - Origin = Off(d) - was[d] - Gain(uses[i].type) - (Off(i) - now[i] + 2)
              BY <4>3, <4>4, <5>2, <6>1
            <7>2. Off(d) - was[d] - Gain(uses[i].type) - (Off(i) - now[i] + 2) <= ShortMax
              BY <4>5, <7>1
            <7> QED BY <4>8, <7>2
          <6>2. CASE ~ (Off(d) - was[d] > Off(i) - now[i] + 2)
            BY <4>8, <6>2
          <6> QED BY <6>1, <6>2
        <5> QED BY <4>1, <5>1, <5>3
      <4>7. CASE d < i
        <5>0. d <= i /\ i \in 1 .. N + 1
          BY <1>1, <3>9, <4>1, <4>7
        <5>1. now'[i] = now[i] /\ now'[d] = now[d] /\ now[i] - now[d] <= Off(i) - Off(d)
          BY <1>1, <1>4, <3>9, <5>0 DEF IInv, Shrinking
        <5>2. label_values[uses[i].label] = Off(d) - now[d] /\ ~ (i < d) /\ i < i + 1
          BY <1>1, <3>9, <4>3, <4>7
        <5>3. ~ (Off(d) - now[d] > Off(i) - now[i] + 2)
          BY <4>8, <5>1
        <5>4. Target - Origin = Off(d) - now[d] - (Off(i) - now[i] + 2)
          BY <4>3, <4>4, <5>2, <5>3
        <5>5. Off(d) - Off(i) - 2 + (now[i] - now[d]) >= -ShortMax - 1
          BY <4>5, <4>8, <5>4
        <5> QED BY <4>1, <5>1, <5>2, <5>5
      <4> QED BY <1>1, <1>2, <4>1, <4>2, <4>6, <4>7
    <3> QED BY <3>2, <3>3
  <2> QED BY <1>3, <2>1 DEF Fitting, IsDef, Off
<1> QED
  BY <1>1, <1>3, <1>7, <1>8, <1>9, <1>10, <1>11, <1>12 DEF IInv, Unresolved, Settled

\* A pass at a definition, at a call, or at a jump that is, gets or does not get
\* short.
LEMMA PassingInv ==
  IInv /\ (PassDefinition \/ PassOther \/ PassShort \/ PassJump) => IInv'
<1> SUFFICES ASSUME IInv, PassDefinition \/ PassOther \/ PassShort \/ PassJump PROVE IInv'
  OBVIOUS
<1>1. Passing
  BY DEF PassDefinition, PassOther, PassShort, PassJump
<1>2. /\ i \in Uses /\ shrinkage = now[i] /\ now[i] \in Nat /\ was[i] \in Nat /\ was[i] <= now[i]
      /\ shrinkage + 0 = shrinkage /\ N \in Nat /\ Uses = 1 .. N /\ i \in Nat
  <2>1. N \in Nat /\ Uses = 1 .. N
    BY Basics DEF IInv
  <2>2. i \in Uses /\ i \in 1 .. N + 1
    BY <1>1, <2>1, PassingFacts
  <2> QED BY <1>1, <2>1, <2>2, PassingFacts
<1>3. short \in SUBSET Nat /\ short \subseteq {k \in Uses : uses[k].type \in Jumps}
  BY <1>2 DEF IInv, TypeOK, Uses
<1>4. short \cup {i} \in SUBSET Nat /\ Gain(uses[i].type) \in Nat
  BY <1>2, <1>3, Basics, Rooms DEF IInv
<1>5. CASE PassDefinition
  <2>1. IsDef(i) /\ i \notin short /\ GoOn(short, shrinkage + 0)
    BY <1>2, <1>3, <1>5 DEF PassDefinition, IsDef, Use, Jumps
  <2>2. label_values' = [label_values EXCEPT ![uses[i].label] = Off(i) - now[i]]
    <3>1. CASE shrinkage # 0
      BY <1>2, <1>5, <3>1 DEF PassDefinition, Use, Off
    <3>2. CASE shrinkage = 0
      <4>1. was[i] = 0 /\ now[i] = 0 /\ Off(i) \in Nat
        BY <1>2, <3>2, Basics DEF IInv
      <4>2. label_values[uses[i].label] = Off(i) - now[i]
        BY <1>1, <1>2, <2>1, <4>1 DEF IInv, Estimates, Passing
      <4>3. label_values \in [Labels -> Nat \cup {Undefined}] /\ label_values' = label_values
        BY <1>5, <3>2 DEF PassDefinition, IInv, TypeOK
      <4> QED BY <4>2, <4>3
    <3> QED BY <3>1, <3>2
  <2> QED BY <1>1, <1>3, <2>1, <2>2, GoOnInv
<1>6. CASE PassOther
  <2>1. ~ IsDef(i) /\ i \notin short /\ GoOn(short, shrinkage + 0) /\ label_values' = label_values
    BY <1>2, <1>3, <1>6 DEF PassOther, IsDef, Use, Jumps
  <2> QED BY <1>1, <1>3, <2>1, GoOnInv
<1>7. CASE PassShort
  <2>1. /\ ~ IsDef(i) /\ i \in short /\ GoOn(short, shrinkage + Gain(uses[i].type))
        /\ label_values' = label_values
    BY <1>2, <1>3, <1>7 DEF PassShort, IsDef, Use, Jumps
  <2> QED BY <1>1, <1>3, <1>4, <2>1, GoOnInv
<1>8. CASE PassJump
  <2>1. ~ IsDef(i) /\ i \notin short /\ uses[i].type \in Jumps /\ label_values' = label_values
    BY <1>2, <1>8 DEF PassJump, IsDef, Use, Jumps
  <2>2. CASE FitsShort(Target - Origin)
    <3>1. GoOn(short \cup {i}, shrinkage + Gain(uses[i].type))
      BY <1>8, <2>2 DEF PassJump, Use
    <3> QED BY <1>1, <1>4, <2>1, <2>2, <3>1, GoOnInv
  <2>3. CASE ~ FitsShort(Target - Origin)
    <3>1. GoOn(short, shrinkage + 0)
      BY <1>2, <1>8, <2>3 DEF PassJump
    <3> QED BY <1>1, <1>3, <2>1, <3>1, GoOnInv
  <2> QED BY <2>2, <2>3
<1> QED BY <1>5, <1>6, <1>7, <1>8

\* At the end of a pass, what has been shortened in it and the one before.
LEMMA PassEndsFacts ==
  ASSUME IInv, PassEnds
  PROVE  /\ N \in Nat /\ Uses = 1 .. N /\ i = N + 1 /\ pc = "relax" /\ uses # <<>>
         /\ now \in [1 .. N + 1 -> Nat] /\ was \in [1 .. N + 1 -> Nat]
         /\ now[1] = 0 /\ shrinkage = now[N + 1] /\ prev_shrinkage = was[N + 1]
         /\ \A k \in 1 .. N + 1 : now[k] \in Nat /\ was[k] \in Nat /\ was[k] <= now[k]
         /\ \A j, k \in 1 .. N + 1 : j <= k => was[k] - was[j] <= now[k] - now[j]
         /\ \A j, k \in 1 .. N + 1 : j <= k => now[j] <= now[k]
         /\ \A j, k \in Uses : j <= k => now[k] - now[j] <= Off(k) - Off(j)
         /\ \A k \in Uses : now[k + 1] = now[k] + GainOf(k)
         /\ \A d \in Uses : IsDef(d) => label_values[uses[d].label] = Off(d) - now[d]
<1>1. /\ N \in Nat /\ Uses = 1 .. N /\ i = N + 1 /\ pc = "relax"
      /\ now \in [1 .. N + 1 -> Nat] /\ was \in [1 .. N + 1 -> Nat]
  BY Basics DEF IInv, TypeOK, PassEnds, N
<1>2. \A k \in 1 .. N + 1 : now[k] \in Nat /\ was[k] \in Nat /\ k <= i /\ 1 <= k
  BY <1>1
<1>3. \A k \in Uses : k < i /\ k <= i
  BY <1>1
<1>4. /\ uses # <<>> /\ now[1] = 0 /\ was[1] = 0 /\ shrinkage = now[i] /\ prev_shrinkage = was[N + 1]
      /\ \A j, k \in 1 .. N + 1 : j <= k => was[j] <= was[k]
      /\ \A j, k \in 1 .. N + 1 : j <= k => was[k] - was[j] <= now[k] - now[j]
      /\ \A j, k \in Uses : j <= k => now[k] - now[j] <= Off(k) - Off(j)
      /\ \A k \in Uses : now[k + 1] = now[k] + GainOf(k)
  BY <1>1, <1>2, <1>3 DEF IInv, Shrinking
<1>5. ASSUME NEW j \in 1 .. N + 1, NEW k \in 1 .. N + 1, j <= k
      PROVE  now[j] <= now[k]
  <2>1. was[j] <= was[k] /\ was[k] - was[j] <= now[k] - now[j]
    BY <1>4, <1>5
  <2>2. now[j] \in Nat /\ now[k] \in Nat /\ was[j] \in Nat /\ was[k] \in Nat
    BY <1>2
  <2> QED BY <2>1, <2>2
<1>6. ASSUME NEW k \in 1 .. N + 1
      PROVE  was[k] <= now[k]
  <2>1. was[k] - was[1] <= now[k] - now[1]
    <3>1. 1 \in 1 .. N + 1 /\ 1 <= k
      BY <1>1
    <3> QED BY <1>4, <3>1
  <2> QED BY <1>2, <1>4, <2>1
<1>7. \A d \in Uses : IsDef(d) => label_values[uses[d].label] = Off(d) - now[d]
  BY <1>1, <1>3 DEF IInv, Estimates
<1> QED BY <1>1, <1>2, <1>4, <1>5, <1>6, <1>7

\* A pass that gained more is followed by another, to which it is the last.
LEMMA NextPassInv == IInv /\ NextPass => IInv'
<1> SUFFICES ASSUME IInv, NextPass PROVE IInv'
  OBVIOUS
<1>0. N \in Nat /\ Uses = 1 .. N /\ i = N + 1
  BY PassEndsFacts DEF NextPass, EndPasses
<1>1. /\ N \in Nat /\ Uses = 1 .. N /\ i = N + 1 /\ pc = "relax" /\ uses # <<>>
      /\ now \in [1 .. N + 1 -> Nat] /\ was \in [1 .. N + 1 -> Nat]
      /\ now[1] = 0 /\ shrinkage = now[N + 1] /\ prev_shrinkage = was[N + 1]
      /\ \A k \in 1 .. N + 1 : now[k] \in Nat /\ was[k] \in Nat /\ was[k] <= now[k]
      /\ \A j, k \in 1 .. N + 1 : j <= k => was[k] - was[j] <= now[k] - now[j]
      /\ \A j, k \in 1 .. N + 1 : j <= k => now[j] <= now[k]
      /\ \A j, k \in Uses : j <= k => now[k] - now[j] <= Off(k) - Off(j)
      /\ \A k \in Uses : now[k + 1] = now[k] + GainOf(k)
      /\ \A d \in Uses : IsDef(d) => label_values[uses[d].label] = Off(d) - now[d]
  BY PassEndsFacts DEF NextPass
<1>2. /\ pc' = pc /\ code' = code /\ uses' = uses /\ short' = short /\ label_values' = label_values
      /\ now' = now /\ was' = now /\ shrinkage' = 0 /\ prev_shrinkage' = shrinkage /\ i' = 1 /\ out' = out
      /\ Uses' = Uses /\ N' = N /\ Size' = Size
  BY DEF NextPass, Uses, N, Size
<1>3. TypeOK'
  <2>1. shrinkage \in Nat /\ 1 \in 1 .. N + 1
    BY <1>1 DEF IInv, TypeOK
  <2> QED BY <1>1, <1>2, <2>1 DEF IInv, TypeOK, Uses, N
<1>4. Ordered' /\ HasDefinition'
  BY <1>2 DEF IInv, Ordered, HasDefinition, Off, IsDef
<1>5. Shrinking'
  <2>1. /\ uses' # <<>> /\ now'[1] = 0 /\ was'[1] = 0
        /\ shrinkage' = now'[i'] /\ prev_shrinkage' = was'[N' + 1]
    BY <1>1, <1>2
  <2>2. \A j, k \in 1 .. N' + 1 :
          /\ now'[k] = was'[k]
          /\ j <= k => was'[j] <= was'[k]
          /\ was'[k] - was'[j] <= now'[k] - now'[j]
    <3> SUFFICES ASSUME NEW j \in 1 .. N + 1, NEW k \in 1 .. N + 1
                 PROVE  /\ j <= k => now[j] <= now[k]
                        /\ now[k] - now[j] <= now[k] - now[j]
      BY <1>2
    <3>1. now[j] \in Nat /\ now[k] \in Nat
      BY <1>1
    <3>2. j <= k => now[j] <= now[k]
      BY <1>1
    <3> QED BY <3>1, <3>2
  <2>3. \A j, k \in Uses' :
          j <= k => /\ was'[k] - was'[j] <= uses'[k].offset - uses'[j].offset
                    /\ now'[k] - now'[j] <= uses'[k].offset - uses'[j].offset
    BY <1>1, <1>2 DEF Off
  <2>4. \A k \in Uses' : LET gain == IF k \in short' THEN Gain(uses'[k].type) ELSE 0
                         IN  was'[k + 1] = was'[k] + gain /\ now'[k + 1] = now'[k] + gain
    BY <1>1, <1>2 DEF GainOf
  <2> QED BY <2>1, <2>2, <2>3, <2>4 DEF Shrinking, Off, GainOf
<1>6. Estimates'
  <2>1. \A d \in Uses : ~ (d < 1)
    BY <1>1
  <2> QED BY <1>1, <1>2, <2>1 DEF Estimates, IsDef, Off
<1>7. Fitting'
  <2>1. ASSUME NEW j \in short, NEW d \in Uses, IsDef(d), uses[d].label = uses[j].label
        PROVE  /\ j < d => Off(d) - Off(j) - 2 - (now[d] - now[j + 1] + Gain(uses[j].type)) <= ShortMax
               /\ d < j => Off(d) - Off(j) - 2 + (now[j] - now[d]) >= -ShortMax - 1
    <3>1. /\ j \in Uses /\ j \in 1 .. N + 1 /\ d \in 1 .. N + 1 /\ j + 1 \in 1 .. N + 1 /\ j < i
          /\ j \in Nat /\ d \in Nat /\ Off(j) \in Nat /\ Off(d) \in Nat /\ ShortMax \in Nat
      <4>1. j \in Uses
        BY DEF IInv, TypeOK, Uses
      <4>2. /\ j \in 1 .. N + 1 /\ d \in 1 .. N + 1 /\ j + 1 \in 1 .. N + 1 /\ j < i
            /\ j \in Nat /\ d \in Nat
        BY <1>0, <4>1
      <4>3. Off(j) \in Nat /\ Off(d) \in Nat
        BY <4>1, Basics DEF IInv
      <4> QED BY <4>1, <4>2, <4>3, DisplacementAssumption
    <3>2. Gain(uses[j].type) \in Nat
      BY <3>1, Basics, Rooms DEF IInv
    <3>3. /\ j < d => Off(d) - Off(j) - 2 - (was[d] - was[j + 1] + Gain(uses[j].type)) <= ShortMax
          /\ d < j => Off(d) - Off(j) - 2 + (now[j] - now[d]) >= -ShortMax - 1
      BY <1>1, <2>1, <3>1 DEF IInv, Fitting
    <3>4. /\ now[d] \in Nat /\ now[j + 1] \in Nat /\ was[d] \in Nat /\ was[j + 1] \in Nat
          /\ (j < d => was[d] - was[j + 1] <= now[d] - now[j + 1])
      <4>1. j < d => j + 1 <= d
        BY <3>1
      <4> QED BY <1>1, <3>1, <4>1
    <3> QED BY <3>1, <3>2, <3>3, <3>4
  <2>2. \A j \in short : ~ (j < 1)
    BY <1>1 DEF IInv, TypeOK, Uses
  <2> QED BY <1>2, <2>1, <2>2 DEF Fitting, IsDef, Off
<1> QED
  BY <1>1, <1>2, <1>3, <1>4, <1>5, <1>6, <1>7 DEF IInv, Unresolved, Settled

\* The last pass changed nothing: what it knows is what is.
LEMMA EndPassesInv == IInv /\ EndPasses => IInv'
<1> SUFFICES ASSUME IInv, EndPasses PROVE IInv'
  OBVIOUS
<1>0. N \in Nat /\ Uses = 1 .. N /\ i = N + 1
  BY PassEndsFacts DEF NextPass, EndPasses
<1>1. /\ N \in Nat /\ Uses = 1 .. N /\ i = N + 1 /\ pc = "relax" /\ uses # <<>>
      /\ now \in [1 .. N + 1 -> Nat] /\ was \in [1 .. N + 1 -> Nat]
      /\ now[1] = 0 /\ shrinkage = now[N + 1] /\ prev_shrinkage = was[N + 1]
      /\ \A k \in 1 .. N + 1 : now[k] \in Nat /\ was[k] \in Nat /\ was[k] <= now[k]
      /\ \A j, k \in 1 .. N + 1 : j <= k => was[k] - was[j] <= now[k] - now[j]
      /\ \A j, k \in Uses : j <= k => now[k] - now[j] <= Off(k) - Off(j)
      /\ \A k \in Uses : now[k + 1] = now[k] + GainOf(k)
      /\ \A d \in Uses : IsDef(d) => label_values[uses[d].label] = Off(d) - now[d]
  BY PassEndsFacts DEF EndPasses
<1>2. /\ pc' = "emit" /\ code' = code /\ uses' = uses /\ short' = short /\ label_values' = label_values
      /\ now' = now /\ was' = was /\ shrinkage' = shrinkage /\ prev_shrinkage' = prev_shrinkage
      /\ i' = 1 /\ out' = uses[1].offset /\ Uses' = Uses /\ N' = N /\ Size' = Size
  BY DEF EndPasses, relaxVars, Uses, N, Size
<1>3. 1 \in Uses /\ 1 <= N /\ 1 \in 1 .. N + 1 /\ Off(1) \in Nat /\ \A k \in Uses : 1 <= k /\ k \in 1 .. N + 1
  <2>1. N # 0
    BY <1>1, EmptySeq DEF N, IInv, TypeOK
  <2>2. 1 \in Uses /\ 1 <= N /\ 1 \in 1 .. N + 1 /\ \A k \in Uses : 1 <= k /\ k \in 1 .. N + 1
    BY <1>0, <2>1
  <2> QED BY <2>2, Basics DEF IInv
<1>4. TypeOK'
  BY <1>1, <1>2, <1>3 DEF IInv, TypeOK, Uses, N, Off
<1>5. Ordered' /\ HasDefinition'
  BY <1>1, <1>2 DEF IInv, Ordered, HasDefinition, Off, IsDef
<1>6. \A k \in 1 .. N + 1 : now[k] = was[k]
  <2> SUFFICES ASSUME NEW k \in 1 .. N + 1 PROVE now[k] = was[k]
    OBVIOUS
  <2>1. N + 1 \in 1 .. N + 1 /\ k <= N + 1
    BY <1>1
  <2>2. now[N + 1] = was[N + 1]
    BY <1>1 DEF EndPasses
  <2>3. was[N + 1] - was[k] <= now[N + 1] - now[k]
    BY <1>1, <2>1
  <2>4. now[k] \in Nat /\ was[k] \in Nat /\ now[N + 1] \in Nat /\ was[k] <= now[k]
    BY <1>1, <2>1
  <2> QED BY <2>2, <2>3, <2>4
<1>7. \A k \in Uses : now[k] <= Off(k)
  <2> SUFFICES ASSUME NEW k \in Uses PROVE now[k] <= Off(k)
    OBVIOUS
  <2>1. now[k] - now[1] <= Off(k) - Off(1) /\ now[k] \in Nat
    BY <1>1, <1>3
  <2>2. Off(k) \in Nat
    BY Basics DEF IInv
  <2>3. now[1] = 0 /\ Off(1) \in Nat
    BY <1>1, <1>3
  <2> QED BY <2>1, <2>2, <2>3
<1>8. ASSUME NEW j \in short, NEW d \in Uses, IsDef(d), uses[d].label = uses[j].label
      PROVE  FitsShort((Off(d) - now[d]) - (Off(j) - now[j] + 2))
  <2>1. j \in Uses /\ uses[j].type \in Jumps
    BY DEF IInv, TypeOK, Uses
  <2>2. /\ j \in 1 .. N + 1 /\ d \in 1 .. N + 1 /\ j + 1 \in 1 .. N + 1 /\ j < i
        /\ j \in Nat /\ d \in Nat /\ Off(j) \in Nat /\ Off(d) \in Nat /\ ShortMax \in Nat
    <3>1. /\ j \in 1 .. N + 1 /\ d \in 1 .. N + 1 /\ j + 1 \in 1 .. N + 1 /\ j < i
          /\ j \in Nat /\ d \in Nat
      BY <1>0, <2>1
    <3>2. Off(j) \in Nat /\ Off(d) \in Nat
      BY <2>1, Basics DEF IInv
    <3> QED BY <3>1, <3>2, DisplacementAssumption
  <2>3. /\ Gain(uses[j].type) \in Nat /\ Reserved(uses[j].type) = Gain(uses[j].type) + 2
        /\ now[j + 1] = now[j] + Gain(uses[j].type)
    <3>1. uses[j].type \in Types /\ GainOf(j) = Gain(uses[j].type)
      BY <2>1, Basics DEF IInv, GainOf
    <3>2. Gain(uses[j].type) \in Nat /\ Reserved(uses[j].type) = Gain(uses[j].type) + 2
      BY <2>1, <3>1, Rooms
    <3> QED BY <1>1, <2>1, <3>1, <3>2
  <2>4. j # d
    BY <1>8, <2>1 DEF IsDef, Jumps
  <2>5. /\ j < d => Off(d) - Off(j) - 2 - (now[d] - now[j + 1] + Gain(uses[j].type)) <= ShortMax
        /\ d < j => Off(d) - Off(j) - 2 + (now[j] - now[d]) >= -ShortMax - 1
    BY <1>1, <1>6, <1>8, <2>2 DEF IInv, Fitting
  <2>6. now[j] \in Nat /\ now[d] \in Nat /\ now[j + 1] \in Nat
    BY <1>1, <2>2
  <2>7. CASE j < d
    <3>1. j + 1 \in Uses /\ j + 1 <= d
      BY <1>1, <2>2, <2>7
    <3>2. /\ Off(j) + Reserved(uses[j].type) <= Off(j + 1) /\ Off(j + 1) \in Nat
          /\ now[d] - now[j + 1] <= Off(d) - Off(j + 1)
      <4>1. Off(j) + Reserved(uses[j].type) <= Off(j + 1)
        <5>1. j < j + 1
          BY <2>2
        <5> QED BY <2>1, <3>1, <5>1 DEF IInv, Ordered
      <4>2. Off(j + 1) \in Nat
        BY <3>1, Basics DEF IInv
      <4> QED BY <1>1, <3>1, <4>1, <4>2
    <3>3. Off(d) - Off(j) - 2 - (now[d] - now[j + 1] + Gain(uses[j].type)) <= ShortMax
      BY <2>5, <2>7
    <3>4. /\ (Off(d) - now[d]) - (Off(j) - now[j] + 2) <= ShortMax
          /\ (Off(d) - now[d]) - (Off(j) - now[j] + 2) >= 0
      BY <2>2, <2>3, <2>6, <3>2, <3>3
    <3> QED BY <2>2, <2>6, <3>4 DEF FitsShort
  <2>8. CASE d < j
    <3>1. now[j] - now[d] <= Off(j) - Off(d)
      BY <1>1, <2>1, <2>2, <2>8
    <3>2. Off(d) - Off(j) - 2 + (now[j] - now[d]) >= -ShortMax - 1
      BY <2>5, <2>8
    <3>3. /\ (Off(d) - now[d]) - (Off(j) - now[j] + 2) <= ShortMax
          /\ (Off(d) - now[d]) - (Off(j) - now[j] + 2) >= -ShortMax - 1
      BY <2>2, <2>6, <3>1, <3>2
    <3> QED BY <2>2, <2>6, <3>3 DEF FitsShort
  <2> QED BY <2>2, <2>4, <2>7, <2>8
<1>9. Settled'
  <2>1. \A k \in Uses' : now'[k + 1] = now'[k] + (IF k \in short' THEN Gain(uses'[k].type) ELSE 0)
    BY <1>1, <1>2 DEF GainOf
  <2>2. out' = uses'[i'].offset - now'[i'] /\ ~ (i' > N')
    <3>1. Off(1) - 0 = Off(1) /\ ~ (1 > N)
      BY <1>0, <1>3
    <3> QED BY <1>1, <1>2, <3>1 DEF Off
  <2>3. /\ uses' # <<>> /\ now'[1] = 0
        /\ \A k \in Uses' : now'[k] <= uses'[k].offset
        /\ \A d \in Uses' : uses'[d].type = "DEFINITION" =>
             label_values'[uses'[d].label] = uses'[d].offset - now'[d]
        /\ \A j \in short', d \in Uses' : uses'[d].type = "DEFINITION" /\ uses'[d].label = uses'[j].label =>
             FitsShort((uses'[d].offset - now'[d]) - (uses'[j].offset - now'[j] + 2))
    BY <1>1, <1>2, <1>7, <1>8 DEF Off, IsDef
  <2> QED BY <2>1, <2>2, <2>3 DEF Settled, Off, IsDef, GainOf
<1> QED
  BY <1>2, <1>4, <1>5, <1>9 DEF IInv, Unresolved, Shrinking, Estimates, Fitting

-----------------------------------------------------------------------------
(* The code                                                                *)

\* Where the write pointer is and what is left of each use.
LEMMA EmittingFacts ==
  ASSUME IInv, pc = "emit", i <= Len(uses)
  PROVE  /\ i \in Uses /\ N \in Nat /\ Uses = 1 .. N /\ Size \in Nat
         /\ Length(i) \in Nat /\ Length(i) + GainOf(i) = Reserved(uses[i].type)
         /\ out + Length(i) = Begin(i) - now[i + 1]
         /\ {out, now[i], now[i + 1], Begin(i), End(i)} \subseteq Nat
         /\ Begin(i) <= End(i) /\ End(i) <= Size
<1>1. /\ N \in Nat /\ Uses = 1 .. N /\ Size \in Nat /\ i \in Uses /\ i + 1 \in 1 .. N + 1 /\ i \in 1 .. N + 1
      /\ i \in Nat /\ i <= N
  BY Basics DEF IInv, TypeOK, N
<1>2. now[i] \in Nat /\ now[i + 1] \in Nat /\ out \in Nat
  <2>1. now \in [1 .. N + 1 -> Nat] /\ out \in Nat
    BY DEF IInv, TypeOK, N
  <2> QED BY <1>1, <2>1
<1>3. /\ Off(i) \in Nat /\ uses[i].type \in Types /\ GainOf(i) \in {0, 3, 4}
      /\ Reserved(uses[i].type) \in Nat
  BY <1>1, Basics, Rooms DEF IInv
<1>4. now[i + 1] = now[i] + GainOf(i) /\ out = Off(i) - now[i]
  BY <1>1 DEF IInv, Settled
<1>5. Length(i) \in Nat /\ Length(i) + GainOf(i) = Reserved(uses[i].type)
  <2>1. i \in short => uses[i].type \in Jumps
    BY DEF IInv, TypeOK
  <2> QED BY <1>3, <2>1 DEF Length, GainOf, Gain, Reserved, Types, Jumps
<1>6. Begin(i) = Off(i) + Reserved(uses[i].type) /\ Begin(i) \in Nat
  BY <1>3 DEF Begin, Off
<1>7. End(i) \in Nat /\ Begin(i) <= End(i) /\ End(i) <= Size
  <2>1. CASE i = N
    <3>1. End(i) = Size
      BY <2>1 DEF End, N
    <3>2. Off(i) + Reserved(uses[i].type) <= Size
      BY <1>1 DEF IInv, Ordered
    <3> QED BY <1>1, <1>6, <3>1, <3>2
  <2>2. CASE i # N
    <3>1. i + 1 \in Uses /\ i < i + 1
      BY <1>1, <2>2
    <3>2. End(i) = Off(i + 1)
      BY <2>2 DEF End, N, Off
    <3>3. Off(i) + Reserved(uses[i].type) <= Off(i + 1)
      BY <1>1, <3>1 DEF IInv, Ordered
    <3>4. Off(i + 1) \in Nat /\ Reserved(uses[i + 1].type) \in Nat
          /\ Off(i + 1) + Reserved(uses[i + 1].type) <= Size
      BY <3>1, Basics, Rooms DEF IInv, Ordered
    <3> QED BY <1>1, <1>6, <3>2, <3>3, <3>4
  <2> QED BY <2>1, <2>2
<1>8. out + Length(i) = Begin(i) - now[i + 1]
  <2>1. GainOf(i) \in Int
    BY <1>3
  <2> QED BY SMTT(40), <1>2, <1>3, <1>4, <1>5, <1>6, <2>1
<1> QED BY <1>1, <1>2, <1>5, <1>6, <1>7, <1>8

\* What EmitUse writes: the instruction, the code with it, and what is moved.
Inst    == Instruction(Length(i), label_values[Use.label] - (out + Length(i)))
Written == Overwrite(code, out, Inst)
Rest    == SubSeq(Written, Begin(i) + 1, End(i))

\* The parts are as long as they look, and the write pointer goes where the gains
\* so far put it.
LEMMA EmitUseFacts ==
  ASSUME IInv, EmitUse
  PROVE  /\ Inst \in Seq(Cells) /\ Len(Inst) = Length(i)
         /\ Written \in Seq(Cells) /\ Len(Written) = Size
         /\ Rest \in Seq(Cells) /\ Len(Rest) = End(i) - Begin(i)
         /\ code' = Overwrite(Written, out + Length(i), Rest)
         /\ code' \in Seq(Cells) /\ Size' = Size
         /\ out' = End(i) - now[i + 1] /\ out' \in Nat
<1>1. pc = "emit" /\ i <= Len(uses)
  BY DEF EmitUse
<1>2. /\ i \in Uses /\ N \in Nat /\ Uses = 1 .. N /\ Size \in Nat /\ Length(i) \in Nat
      /\ out + Length(i) = Begin(i) - now[i + 1]
      /\ {out, now[i], now[i + 1], Begin(i), End(i)} \subseteq Nat
      /\ Begin(i) <= End(i) /\ End(i) <= Size
  BY <1>1, EmittingFacts
<1>3. Inst \in Seq(Cells) /\ Len(Inst) = Length(i)
  <2>1. label_values[Use.label] \in Int /\ Use.type \in Types
    <3>1. Use.label \in Labels /\ Use.type \in Types
      BY <1>2, Basics DEF IInv, Use
    <3> QED BY <3>1 DEF IInv, TypeOK, Undefined
  <2>2. label_values[Use.label] - (out + Length(i)) \in Int
    BY <1>2, <2>1
  <2>3. Inst \in [1 .. Length(i) -> Cells]
    BY <1>2, <2>1, <2>2 DEF Inst, Instruction, Cell, Cells
  <2> QED BY <1>2, <2>3, FunctionIsSeq
<1>4. Written \in Seq(Cells) /\ Len(Written) = Size
  <2>1. code \in Seq(Cells)
    BY DEF IInv, TypeOK
  <2> QED BY <1>2, <1>3, <2>1, OverwriteType DEF Written, Size
<1>5. Rest \in Seq(Cells) /\ Len(Rest) = End(i) - Begin(i)
  <2>1. Rest \in Seq(Cells)
    <3>1. \A p \in Begin(i) + 1 .. End(i) : p \in 1 .. Len(Written)
      BY <1>2, <1>4
    <3> QED BY <1>2, <1>4, <3>1, SubSeqProperties DEF Rest
  <2>2. Len(Rest) = IF Begin(i) + 1 <= End(i) THEN End(i) - (Begin(i) + 1) + 1 ELSE 0
    BY <1>2, <1>4, SubSeqProperties DEF Rest
  <2> QED BY <1>2, <2>1, <2>2
<1>6. code' = Overwrite(Written, out + Length(i), Rest) /\ out' = out + Length(i) + Len(Rest)
  BY DEF EmitUse, Inst, Written, Rest
<1>7. code' \in Seq(Cells) /\ Size' = Size
  <2>1. out + Length(i) \in Int
    BY <1>2
  <2> QED BY <1>4, <1>5, <1>6, <2>1, OverwriteType DEF Size
<1>8. out' = End(i) - now[i + 1] /\ out' \in Nat
  <2>1. Begin(i) \in Nat /\ End(i) \in Nat /\ now[i + 1] \in Nat /\ out \in Nat /\ Begin(i) <= End(i)
    BY <1>2
  <2>2. out' = (Begin(i) - now[i + 1]) + (End(i) - Begin(i))
    BY <1>2, <1>5, <1>6
  <2>3. out + Length(i) \in Nat /\ Len(Rest) \in Nat
    BY <1>2, <1>5, <2>1
  <2> QED BY <1>6, <2>1, <2>2, <2>3
<1> QED BY <1>3, <1>4, <1>5, <1>6, <1>7, <1>8

\* Writing one instruction and moving the code behind it keeps the invariant.
LEMMA EmitUseInv == IInv /\ EmitUse => IInv'
<1> SUFFICES ASSUME IInv, EmitUse PROVE IInv'
  OBVIOUS
<1>1. /\ pc = "emit" /\ i <= Len(uses) /\ pc' = pc /\ uses' = uses /\ short' = short
      /\ label_values' = label_values /\ shrinkage' = shrinkage /\ prev_shrinkage' = prev_shrinkage
      /\ now' = now /\ was' = was /\ i' = i + 1 /\ Uses' = Uses /\ N' = N
  BY DEF EmitUse, relaxVars, Uses, N
<1>2. /\ i \in Uses /\ N \in Nat /\ Uses = 1 .. N /\ Size \in Nat
      /\ {out, now[i], now[i + 1], Begin(i), End(i)} \subseteq Nat
      /\ Begin(i) <= End(i) /\ End(i) <= Size
  BY <1>1, EmittingFacts
<1>6. code' \in Seq(Cells) /\ Size' = Size
  BY EmitUseFacts
<1>7. out' = End(i) - now[i + 1] /\ out' \in Nat
  BY EmitUseFacts
<1>8. TypeOK'
  <2>1. i + 1 \in 1 .. N + 1
    BY <1>2
  <2> QED BY <1>1, <1>6, <1>7, <2>1 DEF IInv, TypeOK, Uses, N
<1>9. Ordered' /\ HasDefinition'
  BY <1>1, <1>6 DEF IInv, Ordered, HasDefinition, Off, IsDef
<1>10. Settled'
  <2>1. i + 1 <= N => out' = Off(i + 1) - now[i + 1]
    <3>1. i + 1 <= N => End(i) = Off(i + 1)
      BY <1>2 DEF End, N, Off
    <3> QED BY <1>7, <3>1
  <2>2. out' <= Size
    BY <1>2, <1>7
  <2>3. /\ uses' # <<>> /\ now'[1] = 0
        /\ \A k \in Uses' : now'[k + 1] = now'[k] + (IF k \in short' THEN Gain(uses'[k].type) ELSE 0)
        /\ \A k \in Uses' : now'[k] <= uses'[k].offset
        /\ \A d \in Uses' : uses'[d].type = "DEFINITION" =>
             label_values'[uses'[d].label] = uses'[d].offset - now'[d]
        /\ \A j \in short', d \in Uses' : uses'[d].type = "DEFINITION" /\ uses'[d].label = uses'[j].label =>
             FitsShort((uses'[d].offset - now'[d]) - (uses'[j].offset - now'[j] + 2))
    BY <1>1 DEF IInv, Settled, Off, IsDef, GainOf
  <2>4. i' <= N' => out' = uses'[i'].offset - now'[i']
    BY <1>1, <2>1 DEF Off
  <2> QED BY <1>6, <2>2, <2>3, <2>4 DEF Settled, Off, IsDef, GainOf
<1> QED
  BY <1>1, <1>8, <1>9, <1>10 DEF IInv, Unresolved, Shrinking, Estimates, Fitting

\* resize_assembler cuts the code off behind the write pointer.
LEMMA TruncateInv == IInv /\ Truncate => IInv'
<1> SUFFICES ASSUME IInv, Truncate PROVE IInv'
  OBVIOUS
<1>1. /\ pc = "emit" /\ i = N + 1 /\ pc' = "done" /\ uses' = uses /\ short' = short
      /\ label_values' = label_values /\ shrinkage' = shrinkage /\ prev_shrinkage' = prev_shrinkage
      /\ now' = now /\ was' = was /\ i' = i /\ out' = out /\ code' = SubSeq(code, 1, out)
      /\ Uses' = Uses /\ N' = N
  BY DEF Truncate, relaxVars, Uses, N
<1>2. N \in Nat /\ Size \in Nat /\ out \in Nat /\ code \in Seq(Cells) /\ out <= Size
  <2>1. N \in Nat /\ Size \in Nat /\ out \in Nat /\ code \in Seq(Cells)
    BY Basics DEF IInv, TypeOK
  <2> QED BY <1>1, <2>1 DEF IInv, Settled
<1>3. code' \in Seq(Cells)
  <2>1. \A p \in 1 .. out : p \in 1 .. Len(code)
    BY <1>2 DEF Size
  <2> QED BY <1>1, <1>2, <2>1, SubSeqProperties
<1>4. TypeOK'
  BY <1>1, <1>3 DEF IInv, TypeOK, Uses, N
<1>5. Ordered'
  BY <1>1 DEF IInv, Ordered, Off, IsDef
<1> QED
  BY <1>1, <1>4, <1>5 DEF IInv, HasDefinition, Unresolved, Shrinking, Estimates, Fitting, Settled

\* Giving up leaves the lists as they are.
LEMMA GivesUpInv == IInv /\ (NoMemory \/ TooFar) => IInv'
<1> SUFFICES ASSUME IInv, NoMemory \/ TooFar PROVE IInv'
  OBVIOUS
<1>1. /\ pc' = "failed" /\ pc # "done" /\ UNCHANGED <<code, uses, short, relaxVars, i, out>>
      /\ Uses' = Uses /\ N' = N /\ Size' = Size
  BY DEF NoMemory, TooFar, Passing, Uses, N, Size
<1>2. TypeOK'
  BY <1>1 DEF IInv, TypeOK, relaxVars, Uses, N
<1>3. Ordered'
  BY <1>1 DEF IInv, Ordered, Off, IsDef
<1> QED
  BY <1>1, <1>2, <1>3 DEF IInv, HasDefinition, Unresolved, Shrinking, Estimates, Fitting, Settled

-----------------------------------------------------------------------------
(* The theorems                                                            *)

\* Every step of the assembler preserves the invariant.
THEOREM NextInv == IInv /\ [Next]_vars => IInv'
<1> SUFFICES ASSUME IInv, [Next]_vars PROVE IInv'
  OBVIOUS
<1>1. CASE Assembling
  BY <1>1, AssemblingInv
<1>2. CASE BeginPasses
  BY <1>2, BeginPassesInv
<1>3. CASE PassDefinition \/ PassOther \/ PassShort \/ PassJump
  BY <1>3, PassingInv
<1>4. CASE NextPass
  BY <1>4, NextPassInv
<1>5. CASE EndPasses
  BY <1>5, EndPassesInv
<1>6. CASE EmitUse
  BY <1>6, EmitUseInv
<1>7. CASE Truncate
  BY <1>7, TruncateInv
<1>8. CASE NoMemory \/ TooFar
  BY <1>8, GivesUpInv
<1>9. CASE UNCHANGED vars
  <2>1. UNCHANGED <<pc, code, uses, short, relaxVars, i, out>> /\ Uses' = Uses /\ N' = N /\ Size' = Size
    BY <1>9 DEF vars, Uses, N, Size
  <2>2. TypeOK'
    BY <2>1 DEF IInv, TypeOK, relaxVars, Uses, N
  <2>3. Ordered' /\ HasDefinition' /\ Unresolved'
    BY <2>1 DEF IInv, Ordered, HasDefinition, Unresolved, relaxVars, Off, IsDef
  <2>4. Shrinking'
    BY <2>1 DEF IInv, Shrinking, relaxVars, Off, GainOf
  <2>5. Estimates' /\ Fitting'
    BY <2>1 DEF IInv, Estimates, Fitting, relaxVars, Off, IsDef
  <2>6. Settled'
    BY <2>1 DEF IInv, Settled, relaxVars, Off, IsDef, GainOf
  <2> QED BY <2>2, <2>3, <2>4, <2>5, <2>6 DEF IInv
<1> QED
  BY <1>1, <1>2, <1>3, <1>4, <1>5, <1>6, <1>7, <1>8, <1>9 DEF Next, Resolving

\* The invariant of the assembler's labels holds throughout.
THEOREM Invariant == Spec => []IInv
<1>1. Init => IInv
  BY InitInv
<1>2. IInv /\ [Next]_vars => IInv'
  BY NextInv
<1> QED BY <1>1, <1>2, PTL DEF Spec

\* The variables keep their types, however much is assembled.
THEOREM Typed == Spec => []TypeOK
<1>1. IInv => TypeOK
  BY DEF IInv
<1> QED BY <1>1, Invariant, PTL

\* The assertions of the second loop hold of every jump that was made short, in
\* whichever pass and by whichever estimate (assembler.c:463, :487).
THEOREM ShortJumpsFit == Spec => []ShortFits
<1>1. IInv => ShortFits
  <2> SUFFICES ASSUME IInv, pc = "emit", i <= Len(uses), i \in short
               PROVE  FitsShort(label_values[Use.label] - (out + 2))
    BY DEF ShortFits
  <2>1. i \in Uses /\ i <= N
    BY DEF IInv, TypeOK, Uses, N
  <2>2. PICK d \in Uses : IsDef(d) /\ uses[d].label = uses[i].label
    BY <2>1 DEF IInv, HasDefinition
  <2>3. /\ FitsShort((Off(d) - now[d]) - (Off(i) - now[i] + 2))
        /\ label_values[uses[d].label] = Off(d) - now[d]
        /\ out = Off(i) - now[i]
    BY <2>1, <2>2 DEF IInv, Settled
  <2> QED BY <2>2, <2>3 DEF Use
<1> QED BY <1>1, Invariant, PTL

\* Instructions and code are written no further than they were read: the
\* memmove and the writes at the write pointer lose nothing.
THEOREM WritesBehindReads == Spec => []MovesLeft
<1>1. IInv => MovesLeft
  <2> SUFFICES ASSUME IInv, pc = "emit", i <= Len(uses)
               PROVE  out + Length(i) <= Begin(i) /\ Begin(i) <= End(i)
    BY DEF MovesLeft
  <2>1. /\ out + Length(i) = Begin(i) - now[i + 1] /\ now[i + 1] \in Nat /\ Begin(i) \in Nat
        /\ Begin(i) <= End(i)
    BY EmittingFacts
  <2> QED BY <2>1
<1> QED BY <1>1, Invariant, PTL

\* The passes are at most two more than the jumps: each but the last one gains
\* over the one before it, for no label ever moves back.
THEOREM PassesGain == Spec => EachPassGains
<1>1. IInv /\ [Next]_vars =>
        [PassEnds /\ pc' = "relax" => prev_shrinkage' > prev_shrinkage]_vars
  <2> SUFFICES ASSUME IInv, Next, PassEnds, pc' = "relax"
               PROVE  prev_shrinkage' > prev_shrinkage
    BY DEF vars
  <2>1. pc = "relax" /\ i = N + 1 /\ N \in Nat
    BY Basics DEF PassEnds, N, IInv
  <2>2. NextPass
    BY <2>1 DEF Next, Assembling, Encode, DefineLabel, UseLabel, PushLabelUse, BeginPasses,
      NoMemory, Resolving, PassDefinition, PassOther, PassShort, PassJump, TooFar, EndPasses,
      EmitUse, Truncate, Passing, N
  <2>3. /\ shrinkage = now[N + 1] /\ now[1] = 0
        /\ prev_shrinkage = was[N + 1] /\ was[1] = 0
        /\ was[N + 1] - was[1] <= now[N + 1] - now[1]
    BY <2>1 DEF IInv, Shrinking
  <2>4. shrinkage \in Nat /\ prev_shrinkage \in Nat
    BY DEF IInv, TypeOK
  <2>5. prev_shrinkage <= shrinkage
    BY <2>3, <2>4
  <2>6. prev_shrinkage' = shrinkage /\ shrinkage # prev_shrinkage
    BY <2>2 DEF NextPass
  <2> QED BY <2>4, <2>5, <2>6
<1> QED BY <1>1, Invariant, PTL DEF Spec, EachPassGains

-----------------------------------------------------------------------------
(* Where everything ends up                                                *)

\* The displacement that PassJump tries does not fit.
TooLong(target, origin, gain) ==
  ~FitsShort(IF target > origin THEN target - gain - origin ELSE target - origin)

\* A jump that this pass has left long did not fit when it was tried.
Tried ==
  pc = "relax" =>
    \A k, d \in Uses :
      k < i /\ k \notin short /\ uses[k].type \in Jumps
        /\ IsDef(d) /\ uses[d].label = uses[k].label =>
          TooLong(Off(d) - IF d < k THEN now[d] ELSE was[d], Off(k) - now[k] + 2,
                  Gain(uses[k].type))

\* As nothing moved in the last pass, it would not fit now.
LeftLong ==
  pc = "emit" =>
    \A k, d \in Uses :
      k \notin short /\ uses[k].type \in Jumps /\ IsDef(d) /\ uses[d].label = uses[k].label =>
        TooLong(Off(d) - now[d], Off(k) - now[k] + 2, Gain(uses[k].type))

\* The gaps that are closed were there, and the write pointer ends behind all.
Moved ==
  pc = "emit" =>
    /\ \A j, k \in Uses : j <= k => now[k] - now[j] <= Off(k) - Off(j)
    /\ i > N => out = Size - now[N + 1]

Placed == Tried /\ LeftLong /\ Moved

\* A pass that gained no more than the one before has moved nothing.
LEMMA LastPass ==
  ASSUME IInv, PassEnds, shrinkage = prev_shrinkage
  PROVE  \A k \in 1 .. N + 1 : now[k] = was[k]
<1>1. /\ N \in Nat /\ shrinkage = now[N + 1] /\ prev_shrinkage = was[N + 1]
      /\ \A k \in 1 .. N + 1 : now[k] \in Nat /\ was[k] \in Nat /\ was[k] <= now[k]
      /\ \A j, k \in 1 .. N + 1 : j <= k => was[k] - was[j] <= now[k] - now[j]
  BY PassEndsFacts
<1> SUFFICES ASSUME NEW k \in 1 .. N + 1 PROVE now[k] = was[k]
  OBVIOUS
<1>2. N + 1 \in 1 .. N + 1 /\ k <= N + 1
  BY <1>1
<1>3. was[N + 1] - was[k] <= now[N + 1] - now[k]
  BY <1>1, <1>2
<1>4. /\ now[k] \in Nat /\ was[k] \in Nat /\ was[k] <= now[k]
      /\ now[N + 1] \in Nat /\ now[N + 1] = was[N + 1]
  BY <1>1, <1>2
<1> QED BY <1>3, <1>4

\* A jump passed over was tried; what it was tried with stays as it is.
LEMMA TriedGoesOn ==
  ASSUME IInv, Tried, PassDefinition \/ PassOther \/ PassShort \/ PassJump
  PROVE  Tried'
<1>1. Passing
  BY DEF PassDefinition, PassOther, PassShort, PassJump
<1>2. /\ i \in Uses /\ i \in Nat /\ N \in Nat /\ Uses = 1 .. N /\ pc = "relax"
      /\ now \in [1 .. N + 1 -> Nat] /\ shrinkage = now[i]
  <2>1. N \in Nat /\ Uses = 1 .. N
    BY Basics DEF IInv
  <2> QED BY <1>1, <2>1, PassingFacts
<1>0. PICK s, g : GoOn(s, g) /\ short \subseteq s
  BY DEF PassDefinition, PassOther, PassShort, PassJump
<1>3. /\ uses' = uses /\ Uses' = Uses /\ was' = was /\ i' = i + 1 /\ pc' = pc
      /\ short \subseteq short' /\ now' = [now EXCEPT ![i + 1] = g]
  BY <1>0 DEF GoOn, Uses
<1>4. \A k \in 1 .. N + 1 : k <= i => now'[k] = now[k]
  BY <1>2, <1>3
<1>5. ASSUME NEW k \in Uses, NEW d \in Uses, k < i + 1, k \notin short', uses[k].type \in Jumps,
             IsDef(d), uses[d].label = uses[k].label
      PROVE  TooLong(uses[d].offset - IF d < k THEN now'[d] ELSE was[d],
                     uses[k].offset - now'[k] + 2, Gain(uses[k].type))
  <2>1. /\ k \in 1 .. N + 1 /\ k <= i /\ k \in Nat /\ d \in Nat /\ d \in 1 .. N + 1
        /\ (d < k => d <= i) /\ (k < i \/ k = i)
    BY <1>2, <1>5
  <2>2. now'[k] = now[k] /\ (d < k => now'[d] = now[d])
    BY <1>4, <2>1
  <2>3. CASE k < i
    <3>1. TooLong(Off(d) - IF d < k THEN now[d] ELSE was[d], Off(k) - now[k] + 2,
                  Gain(uses[k].type))
      BY <1>2, <1>3, <1>5, <2>3 DEF Tried
    <3> QED BY <2>2, <3>1 DEF Off
  <2>4. CASE k = i
    <3>1. PassJump /\ ~FitsShort(Target - Origin)
      BY <1>3, <1>5, <2>4
         DEF PassDefinition, PassOther, PassShort, PassJump, GoOn, Use, Jumps
    <3>2. label_values[uses[i].label] = Off(d) - IF d < i THEN now[d] ELSE was[d]
      BY <1>2, <1>5, <2>4 DEF IInv, Estimates
    <3>3. Origin = Off(i) - now[i] + 2
      BY <1>2 DEF Origin, Use, Off
    <3> DEFINE t == Off(d) - IF d < i THEN now[d] ELSE was[d]
               o == Off(i) - now[i] + 2
    <3>4. t \in Int /\ o \in Int /\ Gain(uses[i].type) \in Int
      <4>1. Off(d) \in Nat /\ Off(i) \in Nat /\ uses[i].type \in Types
        BY <1>2, Basics DEF IInv
      <4>2. now[d] \in Nat /\ was[d] \in Nat /\ now[i] \in Nat
        BY <1>1, <1>2, <2>1, PassingFacts
      <4> QED BY <4>1, <4>2, Rooms
    <3>5. Target = IF t > o THEN t - Gain(uses[i].type) ELSE t
      BY <3>2, <3>3 DEF Target, Use
    <3> HIDE DEF t, o
    <3>6. TooLong(t, o, Gain(uses[i].type))
      <4>1. CASE t > o
        BY <3>1, <3>3, <3>5, <4>1 DEF TooLong, o
      <4>2. CASE ~(t > o)
        BY <3>1, <3>3, <3>5, <4>2 DEF TooLong, o
      <4> QED BY <4>1, <4>2
    <3> QED BY <2>2, <2>4, <3>6 DEF t, o, Off
  <2> QED BY <2>1, <2>3, <2>4
<1> QED BY <1>3, <1>5 DEF Tried, IsDef, Off

\* The same for the whole of Placed, and the other steps.
LEMMA PlacedNext == IInv /\ Placed /\ [Next]_vars => Placed'
<1> SUFFICES ASSUME IInv, Placed, [Next]_vars PROVE Placed'
  OBVIOUS
<1>1. CASE PassDefinition \/ PassOther \/ PassShort \/ PassJump
  <2>1. pc = "relax" /\ pc' = pc
    BY <1>1 DEF PassDefinition, PassOther, PassShort, PassJump, GoOn, Passing
  <2> QED BY <1>1, <2>1, TriedGoesOn DEF Placed, LeftLong, Moved
<1>2. CASE Assembling \/ NoMemory \/ TooFar \/ Truncate
  <2>1. pc' \in {"assemble", "failed", "done"}
    BY <1>2 DEF Assembling, Encode, DefineLabel, UseLabel, PushLabelUse, NoMemory, TooFar,
                Truncate
  <2> QED BY <2>1 DEF Placed, Tried, LeftLong, Moved
<1>3. CASE BeginPasses
  <2>1. pc' = "relax" /\ i' = 1 /\ uses' = uses /\ Uses' = Uses
    BY <1>3 DEF BeginPasses, IInv, Unresolved, Uses
  <2>2. \A k \in Uses : ~(k < 1)
    BY Basics DEF IInv
  <2> QED BY <2>1, <2>2 DEF Placed, Tried, LeftLong, Moved
<1>4. CASE NextPass
  <2>1. pc' = "relax" /\ i' = 1 /\ Uses' = Uses
    BY <1>4 DEF NextPass, PassEnds, Uses
  <2>2. \A k \in Uses : ~(k < 1)
    BY Basics DEF IInv
  <2> QED BY <2>1, <2>2 DEF Placed, Tried, LeftLong, Moved
<1>5. CASE EndPasses
  <2>1. /\ N \in Nat /\ Uses = 1 .. N /\ i = N + 1 /\ pc = "relax" /\ uses # <<>>
        /\ \A j, k \in Uses : j <= k => now[k] - now[j] <= Off(k) - Off(j)
    BY <1>5, PassEndsFacts DEF EndPasses
  <2>2. /\ pc' = "emit" /\ i' = 1 /\ UNCHANGED <<code, uses, short, relaxVars>>
        /\ Uses' = Uses /\ N' = N
    BY <1>5 DEF EndPasses, Uses, N
  <2>3. \A k \in 1 .. N + 1 : now[k] = was[k]
    BY <1>5, LastPass DEF EndPasses
  <2>4. ~(1 > N)
    <3>1. N # 0
      BY <2>1, EmptySeq DEF N, IInv, TypeOK
    <3> QED BY <2>1, <3>1
  <2>5. \A k \in Uses : k < i /\ k \in 1 .. N + 1
    BY <2>1
  <2>6. LeftLong'
    <3>1. ASSUME NEW k \in Uses, NEW d \in Uses, k \notin short, uses[k].type \in Jumps,
                 IsDef(d), uses[d].label = uses[k].label
          PROVE  TooLong(Off(d) - now[d], Off(k) - now[k] + 2, Gain(uses[k].type))
      <4>1. TooLong(Off(d) - IF d < k THEN now[d] ELSE was[d], Off(k) - now[k] + 2,
                    Gain(uses[k].type))
        BY <2>1, <2>5, <3>1 DEF Placed, Tried
      <4> QED BY <2>3, <2>5, <4>1
    <3> QED BY <2>2, <3>1 DEF LeftLong, relaxVars, IsDef, Off
  <2>7. Moved'
    BY <2>1, <2>2, <2>4 DEF Moved, relaxVars, Off
  <2>8. Tried'
    BY <2>2 DEF Tried
  <2> QED BY <2>6, <2>7, <2>8 DEF Placed
<1>6. CASE EmitUse
  <2>1. /\ pc = "emit" /\ pc' = pc /\ i <= Len(uses) /\ i' = i + 1
        /\ UNCHANGED <<uses, short, relaxVars>> /\ Uses' = Uses /\ N' = N
    BY <1>6 DEF EmitUse, Uses, N
  <2>2. LeftLong' /\ Tried'
    BY <2>1 DEF Placed, LeftLong, Tried, relaxVars, IsDef, Off
  <2>3. /\ i \in Uses /\ N \in Nat /\ Uses = 1 .. N /\ i \in Nat
    <3>1. i \in Uses /\ N \in Nat /\ Uses = 1 .. N
      BY <2>1, EmittingFacts
    <3> QED BY <3>1
  <2>4. out' = End(i) - now[i + 1] /\ Size' = Size
    BY <1>6, EmitUseFacts
  <2>5. i + 1 > N => i = N
    BY <2>1, <2>3 DEF N
  <2>6. Moved'
    BY <2>1, <2>4, <2>5 DEF Placed, Moved, relaxVars, Off, End, N, Size
  <2> QED BY <2>2, <2>6 DEF Placed
<1>7. CASE UNCHANGED vars
  BY <1>7 DEF vars, relaxVars, Placed, Tried, LeftLong, Moved, Uses, N, Off, IsDef, Size
<1> QED BY <1>1, <1>2, <1>3, <1>4, <1>5, <1>6, <1>7 DEF Next, Resolving

\* The instruction for a use, short or not, and what is gained fill the room.
LEMMA Lengths ==
  ASSUME TypeOK, NEW k \in Uses
  PROVE  /\ Length(k) \in Nat /\ Length(k) + GainOf(k) = Reserved(uses[k].type)
         /\ Begin(k) = Off(k) + Reserved(uses[k].type) /\ Begin(k) \in Nat
<1>1. /\ Off(k) \in Nat /\ uses[k].type \in Types /\ GainOf(k) \in {0, 3, 4}
      /\ Reserved(uses[k].type) \in Nat
  BY Basics, Rooms
<1>2. k \in short => uses[k].type \in Jumps
  BY DEF TypeOK
<1>3. Length(k) \in Nat /\ Length(k) + GainOf(k) = Reserved(uses[k].type)
  BY <1>1, <1>2 DEF Length, GainOf, Gain, Reserved, Types, Jumps
<1> QED BY <1>1, <1>3 DEF Begin, Off

\* What the recursion of Address asks of g.
Addresses(g, k) ==
  g = [j \in 1 .. k |-> IF j = 1 THEN uses[1].offset
                        ELSE g[j - 1] + Length(j - 1) + uses[j].offset - Begin(j - 1)]

\* From one use to the next, what has been gained is taken off.
LEMMA AddressStep ==
  ASSUME IInv, pc = "emit", NEW j \in Uses, j # 1
  PROVE  (Off(j - 1) - now[j - 1]) + Length(j - 1) + uses[j].offset - Begin(j - 1)
           = Off(j) - now[j]
<1>1. /\ N \in Nat /\ Uses = 1 .. N /\ j - 1 \in Uses /\ j \in 1 .. N + 1 /\ j - 1 \in 1 .. N + 1
      /\ (j - 1) + 1 = j
  BY Basics DEF IInv
<1>2. now[j] = now[j - 1] + GainOf(j - 1)
  BY <1>1 DEF IInv, Settled
<1>3. now \in [1 .. N + 1 -> Nat]
  BY DEF IInv, TypeOK, N
<1>4. now[j] \in Nat /\ now[j - 1] \in Nat
  BY <1>1, <1>3
<1>5. /\ Length(j - 1) \in Nat /\ Length(j - 1) + GainOf(j - 1) = Reserved(uses[j - 1].type)
      /\ Begin(j - 1) = Off(j - 1) + Reserved(uses[j - 1].type) /\ Begin(j - 1) \in Nat
  BY <1>1, Lengths DEF IInv
<1>6. /\ GainOf(j - 1) \in Nat /\ Off(j) \in Nat /\ Off(j - 1) \in Nat
      /\ Reserved(uses[j - 1].type) \in Nat
  BY <1>1, Basics, Rooms DEF IInv
<1>7. (Off(j - 1) - now[j - 1]) + Length(j - 1) + (Off(j) - Begin(j - 1)) = Off(j) - now[j]
  BY <1>2, <1>4, <1>5, <1>6
<1> QED BY <1>7 DEF Off

\* Address is where the uses end up.
LEMMA AddressIs ==
  ASSUME IInv, pc = "emit", NEW k \in Uses
  PROVE  Address(k) = Off(k) - now[k]
<1>1. N \in Nat /\ Uses = 1 .. N /\ k \in Nat /\ 1 \in 1 .. k /\ k \in 1 .. k /\ k <= N
  BY Basics DEF IInv
<1>2. /\ now[1] = 0 /\ Off(1) \in Nat /\ Off(1) - 0 = Off(1)
  <2>1. 1 \in Uses
    BY <1>1
  <2>2. now[1] = 0 /\ Off(1) \in Nat
    BY <2>1, Basics DEF IInv, Settled
  <2> QED BY <2>2
<1>3. \E g : Addresses(g, k)
  <2> DEFINE g == [j \in 1 .. k |-> Off(j) - now[j]]
  <2>1. \A j \in 1 .. k : j # 1 => j - 1 \in 1 .. k /\ j \in Uses
    BY <1>1
  <2>2. \A j \in 1 .. k :
          Off(j) - now[j]
            = IF j = 1 THEN uses[1].offset
              ELSE g[j - 1] + Length(j - 1) + uses[j].offset - Begin(j - 1)
    BY <1>2, <2>1, AddressStep DEF Off
  <2>3. Addresses(g, k)
    BY <2>2 DEF Addresses
  <2> QED BY <2>3
<1>4. PICK a : Addresses(a, k) /\ Address(k) = a[k]
  <2> DEFINE a == CHOOSE a : a = [j \in 1 .. k |->
                    IF j = 1 THEN uses[1].offset
                    ELSE a[j - 1] + Length(j - 1) + uses[j].offset - Begin(j - 1)]
  <2>1. Addresses(a, k)
    BY <1>3 DEF Addresses
  <2>2. Address(k) = a[k]
    BY DEF Address
  <2> QED BY <2>1, <2>2
<1> DEFINE S == {j \in 1 .. k : a[j] # Off(j) - now[j]}
<1>5. S = {}
  <2> SUFFICES ASSUME S # {} PROVE FALSE
    OBVIOUS
  <2>0. S \subseteq Nat
    BY <1>1
  <2>1. PICK m \in S : \A j \in 0 .. m - 1 : j \notin S
    <3> HIDE DEF S
    <3> QED BY <2>0, Least
  <2>2. m \in 1 .. k /\ m \in Uses
    BY <1>1, <2>1
  <2>3. a[m] = IF m = 1 THEN uses[1].offset
               ELSE a[m - 1] + Length(m - 1) + uses[m].offset - Begin(m - 1)
    BY <1>4, <2>2 DEF Addresses
  <2>4. CASE m = 1
    BY <1>2, <2>1, <2>3, <2>4 DEF Off
  <2>5. CASE m # 1
    <3>1. m - 1 \in 1 .. k /\ m - 1 \in 0 .. m - 1
      BY <2>2, <2>5
    <3>2. a[m - 1] = Off(m - 1) - now[m - 1]
      BY <2>1, <3>1
    <3> QED BY <2>1, <2>2, <2>3, <2>5, <3>2, AddressStep
  <2> QED BY <2>4, <2>5
<1> QED BY <1>1, <1>4, <1>5

\* And LabelAddress where the definition does.
LEMMA LabelAddressIs ==
  ASSUME IInv, pc = "emit", NEW d \in Uses, IsDef(d)
  PROVE  LabelAddress(uses[d].label) = Off(d) - now[d]
<1> DEFINE P(k) == uses[k].type = "DEFINITION" /\ uses[k].label = uses[d].label
<1>1. P(d)
  BY DEF IsDef
<1>2. \A k \in Uses : P(k) => k = d
  BY DEF IInv, Ordered, IsDef
<1>3. (CHOOSE k \in Uses : P(k)) = d
  BY <1>1, <1>2
<1> QED BY <1>3, AddressIs DEF LabelAddress

-----------------------------------------------------------------------------
(* What is written                                                         *)

\* The bytes that uses have as room; all others are code as it was assembled,
\* as long as nothing has been written.
InRoom(p) == \E k \in Uses : uses[k].offset < p /\ p <= Begin(k)

Untouched ==
  pc \in {"assemble", "relax"} =>
    \A p \in 1 .. Size : InRoom(p) \/ code[p] = Cell("code", p - 1)

\* The uses the second loop has been at are written with the code behind them,
\* where they end up; the code behind the others is still where it was.
Emitted ==
  pc = "emit" =>
    /\ \A p \in 1 .. Off(1) : code[p] = Cell("code", p - 1)
    /\ \A k \in Uses : k < i =>
         /\ \A p \in 1 .. Length(k) : code[(Off(k) - now[k]) + p] = Encoded(k)[p]
         /\ \A p \in Begin(k) + 1 .. End(k) : code[p - now[k + 1]] = Cell("code", p - 1)
    /\ \A k \in Uses : k >= i =>
         \A p \in Begin(k) + 1 .. End(k) : code[p] = Cell("code", p - 1)

\* The code behind a use, up to the next.
LEMMA Ends ==
  ASSUME IInv, pc # "done", NEW k \in Uses
  PROVE  /\ Begin(k) \in Nat /\ End(k) \in Nat /\ Off(k) <= Begin(k)
         /\ Begin(k) <= End(k) /\ End(k) <= Size
         /\ \A j \in Uses : j > k => End(k) <= Off(j)
         /\ \A j \in Uses : j < k => Begin(j) <= Off(k)
<1>1. /\ N \in Nat /\ Uses = 1 .. N /\ Size \in Nat
      /\ \A j \in Uses : Off(j) \in Nat /\ Reserved(uses[j].type) \in Nat
  BY Basics, Rooms DEF IInv
<1>2. \A j \in Uses : Begin(j) = Off(j) + Reserved(uses[j].type)
  BY Lengths DEF IInv
<1>3. \A j \in Uses : Begin(j) \in Nat /\ Off(j) <= Begin(j) /\ Begin(j) <= Size
  <2> SUFFICES ASSUME NEW j \in Uses
               PROVE  Begin(j) \in Nat /\ Off(j) <= Begin(j) /\ Begin(j) <= Size
    OBVIOUS
  <2>1. Off(j) + Reserved(uses[j].type) <= Size
    BY DEF IInv, Ordered
  <2> QED BY <1>1, <1>2, <2>1
<1>4. \A j, l \in Uses : j < l => Begin(j) <= Off(l)
  BY <1>2 DEF IInv, Ordered
<1>5. CASE k = N
  <2>1. End(k) = Size
    BY <1>5 DEF End, N
  <2> QED BY <1>1, <1>3, <1>4, <1>5, <2>1
<1>6. CASE k # N
  <2>1. k + 1 \in Uses /\ k < k + 1 /\ End(k) = Off(k + 1)
    BY <1>1, <1>6 DEF End, N, Off
  <2>2. \A j \in Uses : j > k => Off(k + 1) <= Off(j)
    <3> SUFFICES ASSUME NEW j \in Uses, j > k PROVE Off(k + 1) <= Off(j)
      OBVIOUS
    <3>1. k + 1 <= j
      BY <1>1
    <3> QED BY <2>1, <3>1, OffsetsAscend DEF IInv
  <2>3. Off(k + 1) \in Nat /\ Off(k + 1) <= Size
    BY <1>1, <1>3, <2>1
  <2> QED BY <1>1, <1>3, <1>4, <2>1, <2>2, <2>3
<1> QED BY <1>5, <1>6

\* Between two uses there is no room, nor before the first.
LEMMA NoRoomBetween ==
  ASSUME IInv, pc # "done", NEW k \in Uses
  PROVE  /\ \A p \in Begin(k) + 1 .. End(k) : p \in 1 .. Size /\ ~InRoom(p)
         /\ \A p \in 1 .. Off(1) : p \in 1 .. Size /\ ~InRoom(p)
<1>1. /\ N \in Nat /\ Uses = 1 .. N /\ Size \in Nat /\ k \in Nat /\ 1 \in Uses
      /\ \A j \in Uses : Off(j) \in Nat /\ j \in Nat /\ 1 <= j
  BY Basics DEF IInv
<1>2. \A j \in Uses : /\ Begin(j) \in Nat /\ Off(j) <= Begin(j) /\ Begin(j) <= End(j)
                      /\ End(j) \in Nat /\ End(j) <= Size
                      /\ \A l \in Uses : l > j => End(j) <= Off(l)
  BY Ends
<1>3. ASSUME NEW p \in Begin(k) + 1 .. End(k)
      PROVE  p \in 1 .. Size /\ ~InRoom(p)
  <2>1. p \in 1 .. Size /\ p \in Nat /\ Begin(k) < p /\ p <= End(k)
    BY <1>1, <1>2, <1>3
  <2>2. ASSUME NEW j \in Uses, uses[j].offset < p, p <= Begin(j)
        PROVE  FALSE
    <3>1. Off(j) < p
      BY <2>2 DEF Off
    <3>2. CASE j > k
      BY <1>1, <1>2, <2>1, <3>1, <3>2
    <3>3. CASE j = k
      BY <1>2, <2>1, <2>2, <3>3
    <3>4. CASE j < k
      <4>1. Begin(j) <= End(j) /\ End(j) <= Off(k) /\ Off(k) <= Begin(k)
        BY <1>1, <1>2, <3>4
      <4> QED BY <1>1, <1>2, <2>1, <2>2, <4>1
    <3> QED BY <1>1, <3>2, <3>3, <3>4
  <2> QED BY <2>1, <2>2 DEF InRoom
<1>4. ASSUME NEW p \in 1 .. Off(1)
      PROVE  p \in 1 .. Size /\ ~InRoom(p)
  <2>1. Off(1) <= Size
    BY <1>1, <1>2
  <2>2. \A j \in Uses : Off(1) <= Off(j)
    BY <1>1, OffsetsAscend DEF IInv
  <2>3. p \in 1 .. Size /\ \A j \in Uses : ~(Off(j) < p)
    BY <1>1, <1>4, <2>1, <2>2
  <2> QED BY <2>3 DEF InRoom, Off
<1> QED BY <1>3, <1>4

\* What a use adds, room and an entry, is behind all there was.
LEMMA UseAppends ==
  ASSUME IInv, NEW t \in Types, NEW l \in Labels, PushLabelUse(t, l)
  PROVE  /\ Size' = Size + Reserved(t) /\ Reserved(t) \in Nat /\ Size \in Nat
         /\ \A p \in 1 .. Size : code'[p] = code[p]
         /\ \A p \in Size + 1 .. Size' : code'[p] = Cell("room", 0)
         /\ N \in Nat /\ Uses = 1 .. N /\ Uses' = 1 .. N + 1
         /\ \A k \in Uses : uses'[k] = uses[k] /\ k \in Uses'
         /\ uses'[N + 1] = [type |-> t, offset |-> Size, label |-> l]
<1> DEFINE room == [k \in 1 .. Reserved(t) |-> Cell("room", 0)]
           u    == [type |-> t, offset |-> Size, label |-> l]
<1>1. Reserved(t) \in Nat /\ Size \in Nat /\ code \in Seq(Cells)
  BY Rooms, Basics DEF IInv, TypeOK
<1>2. room \in Seq(Cells) /\ Len(room) = Reserved(t)
  <2>1. room \in [1 .. Reserved(t) -> Cells]
    BY DEF Cell, Cells
  <2> QED BY <1>1, <2>1, FunctionIsSeq
<1>3. \A q \in 1 .. Reserved(t) : room[q] = Cell("room", 0)
  OBVIOUS
<1>4. code' = code \o room
  BY DEF PushLabelUse
<1> HIDE DEF room
<1>5. /\ Len(code') = Len(code) + Len(room)
      /\ \A p \in 1 .. Len(code) + Len(room) :
           code'[p] = IF p <= Len(code) THEN code[p] ELSE room[p - Len(code)]
  BY <1>1, <1>2, <1>4, ConcatProperties
<1>6. /\ Size' = Size + Reserved(t)
      /\ \A p \in 1 .. Size : code'[p] = code[p]
  <2>1. \A p \in 1 .. Size : p \in 1 .. Size + Reserved(t) /\ p <= Size
    BY <1>1
  <2> QED BY <1>2, <1>5, <2>1 DEF Size
<1>7. ASSUME NEW p \in Size + 1 .. Size'
      PROVE  code'[p] = Cell("room", 0)
  <2>1. p \in 1 .. Size + Reserved(t) /\ ~(p <= Size) /\ p - Size \in 1 .. Reserved(t)
    BY <1>1, <1>6, <1>7
  <2>2. code'[p] = room[p - Size]
    BY <1>2, <1>5, <2>1 DEF Size
  <2> QED BY <1>3, <2>1, <2>2
<1>8. /\ N \in Nat /\ Uses = 1 .. N /\ Uses' = 1 .. N + 1
      /\ \A k \in Uses : uses'[k] = uses[k] /\ k \in Uses'
      /\ uses'[N + 1] = u
  <2>1. uses \in Seq([type : Types, offset : Nat, label : Labels])
    BY DEF IInv, TypeOK
  <2>2. u \in [type : Types, offset : Nat, label : Labels] /\ uses' = Append(uses, u)
    BY <1>1 DEF PushLabelUse
  <2> HIDE DEF u
  <2>3. N \in Nat /\ Uses = 1 .. N
    BY Basics DEF IInv
  <2>4. /\ uses' \in Seq([type : Types, offset : Nat, label : Labels])
        /\ Len(uses') = N + 1 /\ uses'[N + 1] = u
        /\ \A k \in 1 .. N : uses'[k] = uses[k]
    BY <2>1, <2>2, AppendProperties DEF N
  <2>5. Uses' = 1 .. N + 1
    BY <2>4, LenProperties DEF Uses
  <2> QED BY <2>3, <2>4, <2>5
<1> QED BY <1>1, <1>6, <1>7, <1>8

\* Other instructions are appended behind all there was.
LEMMA EncodeAppends ==
  ASSUME IInv, Encode
  PROVE  /\ Size \in Nat /\ Size' \in Nat /\ Size' >= Size
         /\ \A p \in 1 .. Size : code'[p] = code[p]
         /\ \A p \in Size + 1 .. Size' : code'[p] = Cell("code", p - 1)
         /\ uses' = uses /\ Uses' = Uses
<1>1. code \in Seq(Cells) /\ Size \in Nat
  BY Basics DEF IInv, TypeOK
<1>2. PICK n \in Segments : code' = code \o [k \in 1 .. n |-> Cell("code", Size + k - 1)]
  BY DEF Encode
<1> DEFINE s == [k \in 1 .. n |-> Cell("code", Size + k - 1)]
<1>3. n \in Nat
  BY SegmentsAssumption
<1>4. s \in Seq(Cells) /\ Len(s) = n
  <2>1. s \in [1 .. n -> Cells]
    BY <1>1, <1>3 DEF Cell, Cells
  <2> QED BY <1>3, <2>1, FunctionIsSeq
<1>5. \A q \in 1 .. n : s[q] = Cell("code", Size + q - 1)
  OBVIOUS
<1> HIDE DEF s
<1>6. /\ Size' = Size + n
      /\ \A p \in 1 .. Size' : code'[p] = IF p <= Size THEN code[p] ELSE s[p - Size]
  <2>1. code' = code \o s
    BY <1>2 DEF s
  <2>2. /\ Len(code \o s) = Len(code) + Len(s)
        /\ \A p \in 1 .. Len(code) + Len(s) :
             (code \o s)[p] = IF p <= Len(code) THEN code[p] ELSE s[p - Len(code)]
    BY <1>1, <1>4, ConcatProperties
  <2> QED BY <1>4, <2>1, <2>2 DEF Size
<1>7. \A p \in 1 .. Size : code'[p] = code[p]
  <2>1. \A p \in 1 .. Size : p \in 1 .. Size' /\ p <= Size
    BY <1>1, <1>3, <1>6
  <2> QED BY <1>6, <2>1
<1>8. ASSUME NEW p \in Size + 1 .. Size'
      PROVE  code'[p] = Cell("code", p - 1)
  <2>1. /\ p \in 1 .. Size' /\ ~(p <= Size) /\ p - Size \in 1 .. n
        /\ Size + (p - Size) - 1 = p - 1
    BY <1>1, <1>3, <1>6, <1>8
  <2>2. s[p - Size] = Cell("code", p - 1)
    BY <1>5, <2>1
  <2> QED BY <1>6, <2>1, <2>2
<1>9. uses' = uses /\ Uses' = Uses
  BY DEF Encode, Uses
<1> QED BY <1>1, <1>3, <1>6, <1>7, <1>8, <1>9

\* Code is appended as it is, and room as room.
LEMMA UntouchedNext ==
  ASSUME IInv, Untouched, Encode \/ DefineLabel \/ UseLabel
  PROVE  Untouched'
<1>1. pc = "assemble" /\ Size \in Nat /\ \A p \in 1 .. Size : InRoom(p) \/ code[p] = Cell("code", p - 1)
  BY Basics DEF IInv, Untouched, Encode, DefineLabel, UseLabel, PushLabelUse
<1>2. CASE Encode
  <2>1. \A p \in 1 .. Size' : p \in 1 .. Size \/ p \in Size + 1 .. Size'
    BY <1>1
  <2>2. \A p : InRoom(p)' = InRoom(p)
    BY <1>2, EncodeAppends DEF InRoom, Begin
  <2> QED BY <1>1, <1>2, <2>1, <2>2, EncodeAppends DEF Untouched
<1>3. ASSUME NEW t \in Types, NEW l \in Labels, PushLabelUse(t, l)
      PROVE  Untouched'
  <2>1. ASSUME NEW p \in 1 .. Size'
        PROVE  InRoom(p)' \/ code'[p] = Cell("code", p - 1)
    <3>1. CASE p <= Size
      <4>1. p \in 1 .. Size
        BY <1>1, <2>1, <3>1
      <4>2. InRoom(p) => InRoom(p)'
        BY <1>3, UseAppends DEF InRoom, Begin
      <4>3. code'[p] = code[p]
        BY <1>3, <4>1, UseAppends
      <4> QED BY <1>1, <4>1, <4>2, <4>3
    <3>2. CASE ~(p <= Size)
      <4>1. /\ N + 1 \in Uses' /\ Size < p /\ p <= Size + Reserved(t)
            /\ uses'[N + 1].offset = Size /\ uses'[N + 1].type = t
        <5>1. /\ Size' = Size + Reserved(t) /\ Reserved(t) \in Nat /\ Size \in Nat
              /\ N \in Nat /\ Uses' = 1 .. N + 1
              /\ uses'[N + 1] = [type |-> t, offset |-> Size, label |-> l]
          BY <1>3, UseAppends
        <5> QED BY <2>1, <3>2, <5>1
      <4> QED BY <4>1 DEF InRoom, Begin
    <3> QED BY <3>1, <3>2
  <2> QED BY <2>1 DEF Untouched
<1>4. CASE DefineLabel
  BY <1>3, <1>4 DEF DefineLabel, Types
<1>5. CASE UseLabel
  BY <1>3, <1>5, SegmentsAssumption DEF UseLabel, Types, Jumps
<1> QED BY <1>2, <1>4, <1>5

\* The second loop begins with all code where it was assembled.
LEMMA EmittedBegins ==
  ASSUME IInv, Untouched, EndPasses
  PROVE  Emitted'
<1>1. /\ N \in Nat /\ Uses = 1 .. N /\ pc = "relax" /\ uses # <<>>
      /\ i' = 1 /\ UNCHANGED <<code, uses, short, relaxVars>> /\ Uses' = Uses /\ N' = N
  BY PassEndsFacts DEF EndPasses, Uses, N
<1>2. 1 \in Uses
  <2>1. N # 0
    BY <1>1, EmptySeq DEF N, IInv, TypeOK
  <2> QED BY <1>1, <2>1
<1>3. /\ \A p \in 1 .. Off(1) : code[p] = Cell("code", p - 1)
      /\ \A k \in Uses : \A p \in Begin(k) + 1 .. End(k) : code[p] = Cell("code", p - 1)
  BY <1>1, <1>2, NoRoomBetween DEF Untouched
<1>4. \A k \in Uses : ~(k < 1)
  BY <1>1
<1> QED BY <1>1, <1>3, <1>4 DEF Emitted, Off, Begin, End, Size

\* What a step of the second loop writes, byte for byte: the instruction and the
\* code behind it; all before and all behind stays.
LEMMA EmitUseWrites ==
  ASSUME IInv, EmitUse
  PROVE  /\ \A p \in 1 .. Length(i) : code'[out + p] = Inst[p]
         /\ \A p \in Begin(i) + 1 .. End(i) :
              /\ p - now[i + 1] \in 1 .. Size
              /\ code'[p - now[i + 1]] = code[p]
         /\ \A p \in 1 .. Size : p <= out \/ p > End(i) => code'[p] = code[p]
<1>1. pc = "emit" /\ i <= Len(uses)
  BY DEF EmitUse
<1>2. /\ Size \in Nat /\ Length(i) \in Nat /\ out + Length(i) = Begin(i) - now[i + 1]
      /\ out \in Nat /\ now[i + 1] \in Nat /\ Begin(i) \in Nat /\ End(i) \in Nat
      /\ Begin(i) <= End(i) /\ End(i) <= Size
  BY <1>1, EmittingFacts
<1>3. /\ Inst \in Seq(Cells) /\ Len(Inst) = Length(i)
      /\ Written \in Seq(Cells) /\ Len(Written) = Size
      /\ Rest \in Seq(Cells) /\ Len(Rest) = End(i) - Begin(i)
      /\ code' = Overwrite(Written, out + Length(i), Rest)
  BY EmitUseFacts
<1>4. DOMAIN code = 1 .. Size /\ DOMAIN Inst = 1 .. Length(i)
  BY <1>3, LenProperties DEF IInv, TypeOK, Size
<1>5. \A p \in 1 .. Size :
        Written[p] = IF p - out \in 1 .. Length(i) THEN Inst[p - out] ELSE code[p]
  BY <1>4 DEF Written, Overwrite
<1>6. \A q \in 1 .. End(i) - Begin(i) : Rest[q] = Written[Begin(i) + q]
  <2>1. \A p \in Begin(i) + 1 .. End(i) : p \in 1 .. Len(Written)
    BY <1>2, <1>3
  <2>2. \A p \in Begin(i) + 1 .. End(i) : Written[p] \in Cells
    BY <1>3, <2>1, ElementOfSeq
  <2>3. Begin(i) + 1 \in Int /\ End(i) \in Int
    BY <1>2
  <2> DEFINE m == Begin(i) + 1
             n == End(i)
  <2>5. \A q \in 1 .. n - m + 1 : SubSeq(Written, m, n)[q] = Written[m + q - 1]
    <3>1. m \in Int /\ n \in Int /\ \A p \in m .. n : Written[p] \in Cells
      BY <2>2, <2>3
    <3> HIDE DEF m, n
    <3> QED BY <3>1, SubSeqProperties
  <2> SUFFICES ASSUME NEW q \in 1 .. End(i) - Begin(i) PROVE Rest[q] = Written[Begin(i) + q]
    OBVIOUS
  <2>6. q \in 1 .. n - m + 1 /\ m + q - 1 = Begin(i) + q
    BY <1>2
  <2> QED BY <2>5, <2>6 DEF Rest
<1> DEFINE e == Begin(i) - now[i + 1]
<1>7. \A p \in 1 .. Size :
        code'[p] = IF p - e \in 1 .. End(i) - Begin(i) THEN Rest[p - e] ELSE Written[p]
  <2>1. DOMAIN Written = 1 .. Size /\ DOMAIN Rest = 1 .. End(i) - Begin(i)
    BY <1>3, LenProperties
  <2> QED BY <1>2, <1>3, <2>1 DEF Overwrite
<1>8. e \in Nat /\ out + Length(i) = e /\ e <= Begin(i)
  BY <1>2
<1>9. ASSUME NEW p \in 1 .. Length(i)
      PROVE  code'[out + p] = Inst[p]
  <2>1. out + p \in 1 .. Size /\ ~(out + p - e \in 1 .. End(i) - Begin(i)) /\ (out + p) - out = p
        /\ ~((out + p) - e \in 1 .. End(i) - Begin(i))
    BY <1>2, <1>8, <1>9
  <2> HIDE DEF e
  <2> QED BY <1>5, <1>7, <1>9, <2>1
<1>10. ASSUME NEW p \in Begin(i) + 1 .. End(i)
       PROVE  p - now[i + 1] \in 1 .. Size /\ code'[p - now[i + 1]] = code[p]
  <2>1. /\ p \in 1 .. Size /\ p - now[i + 1] \in 1 .. Size /\ p - Begin(i) \in 1 .. End(i) - Begin(i)
        /\ (p - now[i + 1]) - e = p - Begin(i) /\ Begin(i) + (p - Begin(i)) = p
        /\ ~(p - out \in 1 .. Length(i))
    BY <1>2, <1>8, <1>10
  <2> HIDE DEF e
  <2>2. code'[p - now[i + 1]] = Rest[p - Begin(i)]
    BY <1>7, <2>1
  <2>3. Rest[p - Begin(i)] = Written[p] /\ Written[p] = code[p]
    BY <1>5, <1>6, <2>1
  <2> QED BY <2>1, <2>2, <2>3
<1>11. ASSUME NEW p \in 1 .. Size, p <= out \/ p > End(i)
       PROVE  code'[p] = code[p]
  <2>1. ~(p - out \in 1 .. Length(i)) /\ ~(p - e \in 1 .. End(i) - Begin(i))
    BY <1>2, <1>8, <1>11
  <2> HIDE DEF e
  <2> QED BY <1>5, <1>7, <2>1
<1> QED BY <1>9, <1>10, <1>11

\* The instruction is the one that should come out.
LEMMA InstIsEncoded ==
  ASSUME IInv, EmitUse
  PROVE  Inst = Encoded(i) /\ out = Off(i) - now[i] /\ out \in Nat
<1>1. pc = "emit" /\ i <= Len(uses)
  BY DEF EmitUse
<1>2. /\ i \in Uses /\ out \in Nat /\ Length(i) \in Nat /\ uses[i].type \in Types
  <2>1. i \in Uses /\ out \in Nat /\ Length(i) \in Nat
    BY <1>1, EmittingFacts
  <2> QED BY <2>1, Basics DEF IInv
<1>3. out = Off(i) - now[i]
  BY <1>1 DEF IInv, Settled, N
<1>4. PICK d \in Uses : IsDef(d) /\ uses[d].label = uses[i].label
  BY <1>1, <1>2 DEF IInv, HasDefinition
<1>5. label_values[uses[i].label] = LabelAddress(uses[i].label) /\ Address(i) = out
  BY <1>1, <1>2, <1>3, <1>4, LabelAddressIs, AddressIs DEF IInv, Settled
<1>6. label_values[uses[i].label] \in Int
  <2>1. uses[i].label \in Labels
    BY <1>2, Basics DEF IInv
  <2> QED BY <2>1 DEF IInv, TypeOK, Undefined
<1> DEFINE v == label_values[uses[i].label]
<1>7. v - (out + Length(i)) = v - out - Length(i)
  <2> HIDE DEF v
  <2> QED BY <1>2, <1>6 DEF v
<1> QED BY <1>2, <1>3, <1>5, <1>7 DEF Inst, Instruction, Encoded, Use

\* Where a use ends up, and the code behind it.
LEMMA Placement ==
  ASSUME IInv, Moved, pc = "emit", NEW k \in Uses
  PROVE  /\ Off(k) - now[k] \in Nat /\ Length(k) \in Nat
         /\ now[k + 1] \in Nat /\ now[k + 1] <= Begin(k)
         /\ (Off(k) - now[k]) + Length(k) = Begin(k) - now[k + 1]
         /\ \A j \in Uses : j <= k => Off(j) - now[j] <= Off(k) - now[k]
         /\ Off(1) <= Off(k) - now[k] /\ Off(1) \in Nat
<1>1. /\ N \in Nat /\ Uses = 1 .. N /\ k \in 1 .. N + 1 /\ k + 1 \in 1 .. N + 1
      /\ 1 \in Uses /\ 1 <= k
      /\ \A j \in Uses : Off(j) \in Nat /\ j \in 1 .. N + 1
  BY Basics DEF IInv
<1>2. /\ \A j \in 1 .. N + 1 : now[j] \in Nat
      /\ now[1] = 0 /\ now[k] <= Off(k) /\ now[k + 1] = now[k] + GainOf(k)
  <2>1. now \in [1 .. N + 1 -> Nat]
    BY DEF IInv, TypeOK, N
  <2> QED BY <2>1 DEF IInv, Settled
<1>3. /\ Length(k) \in Nat /\ Length(k) + GainOf(k) = Reserved(uses[k].type)
      /\ Begin(k) = Off(k) + Reserved(uses[k].type) /\ Begin(k) \in Nat
  BY Lengths DEF IInv
<1>4. GainOf(k) \in {0, 3, 4} /\ Reserved(uses[k].type) \in Nat
  BY Basics, Rooms DEF IInv
<1>5. \A j \in Uses : j <= k => Off(j) - now[j] <= Off(k) - now[k]
  <2> SUFFICES ASSUME NEW j \in Uses, j <= k
               PROVE  Off(j) - now[j] <= Off(k) - now[k]
    OBVIOUS
  <2>1. now[k] - now[j] <= Off(k) - Off(j)
    BY DEF Moved
  <2>2. Off(j) \in Nat /\ now[j] \in Nat /\ Off(k) \in Nat /\ now[k] \in Nat
    BY <1>1, <1>2
  <2> QED BY <2>1, <2>2
<1>6. Off(1) <= Off(k) - now[k]
  <2>1. Off(1) - now[1] <= Off(k) - now[k] /\ Off(1) \in Nat
    BY <1>1, <1>5
  <2>2. Off(1) - now[1] = Off(1)
    BY <1>2, <2>1
  <2> QED BY <2>1, <2>2
<1>7. Off(k) \in Nat /\ now[k] \in Nat /\ now[k + 1] \in Nat
  BY <1>1, <1>2
<1>8. /\ Off(k) - now[k] \in Nat /\ now[k + 1] <= Begin(k)
      /\ (Off(k) - now[k]) + Length(k) = Begin(k) - now[k + 1]
  BY <1>2, <1>3, <1>4, <1>7
<1> QED BY <1>1, <1>3, <1>5, <1>6, <1>7, <1>8

\* One more use is written, and what was written stays.
LEMMA EmittedGoesOn ==
  ASSUME IInv, Moved, Emitted, EmitUse
  PROVE  Emitted'
<1>1. /\ pc = "emit" /\ i <= Len(uses) /\ i' = i + 1
      /\ UNCHANGED <<uses, short, relaxVars>> /\ Uses' = Uses /\ N' = N
  BY DEF EmitUse, Uses, N
<1>2. /\ i \in Uses /\ N \in Nat /\ Uses = 1 .. N /\ Size \in Nat /\ i \in Nat
      /\ Length(i) \in Nat /\ out + Length(i) = Begin(i) - now[i + 1]
      /\ out \in Nat /\ now[i + 1] \in Nat /\ Begin(i) \in Nat /\ End(i) \in Nat
      /\ Begin(i) <= End(i) /\ End(i) <= Size
  <2>1. i \in Uses /\ N \in Nat /\ Uses = 1 .. N
    BY <1>1, EmittingFacts
  <2> QED BY <1>1, <2>1, EmittingFacts
<1>14. out <= Size /\ out \in Nat
  BY <1>2
<1>3. /\ \A p \in 1 .. Length(i) : code'[out + p] = Inst[p]
      /\ \A p \in Begin(i) + 1 .. End(i) : code'[p - now[i + 1]] = code[p]
      /\ \A p \in 1 .. Size : p <= out \/ p > End(i) => code'[p] = code[p]
      /\ Inst = Encoded(i) /\ out = Off(i) - now[i]
  BY EmitUseWrites, InstIsEncoded
<1>4. \A k \in Uses : Encoded(k)' = Encoded(k) /\ Length(k)' = Length(k)
  BY <1>1 DEF Encoded, Length, LabelAddress, Address, Begin, Uses
<1>5. \A k \in Uses : Begin(k)' = Begin(k) /\ End(k)' = End(k) /\ Off(k)' = Off(k)
  BY <1>1, EmitUseFacts DEF Begin, End, Off
<1>6. now' = now
  BY <1>1 DEF relaxVars
<1>7. \A k \in Uses : /\ Begin(k) \in Nat /\ End(k) \in Nat /\ Begin(k) <= End(k) /\ End(k) <= Size
                      /\ \A j \in Uses : j > k => End(k) <= Off(j)
                      /\ \A j \in Uses : j < k => Begin(j) <= Off(k)
                      /\ Off(k) <= Begin(k) /\ Off(k) \in Nat /\ k \in Nat
  BY SMTT(40), <1>1, <1>2, Ends, Basics DEF IInv
<1>8. \A k \in Uses :
        /\ Off(k) - now[k] \in Nat /\ Length(k) \in Nat
        /\ now[k + 1] \in Nat /\ now[k + 1] <= Begin(k)
        /\ (Off(k) - now[k]) + Length(k) = Begin(k) - now[k + 1]
        /\ \A j \in Uses : j <= k => Off(j) - now[j] <= Off(k) - now[k]
        /\ Off(1) <= Off(k) - now[k] /\ Off(1) \in Nat
  BY <1>1, Placement
<1>9. \A p \in 1 .. Off(1) : code'[p] = Cell("code", p - 1)
  <2> SUFFICES ASSUME NEW p \in 1 .. Off(1) PROVE code'[p] = Cell("code", p - 1)
    OBVIOUS
  <2>0. Off(1) <= out /\ Off(1) \in Nat
    BY <1>2, <1>3, <1>8
  <2>1. p \in 1 .. Size /\ p <= out
    <3>1. out <= Size
      BY <1>2
    <3> QED BY <1>2, <2>0, <3>1
  <2> QED BY <1>1, <1>3, <2>1 DEF Emitted
\* The end of what is written for a use before the one at i.
<1>10. ASSUME NEW k \in Uses, k < i
       PROVE  End(k) - now[k + 1] <= out /\ k + 1 \in Uses /\ End(k) = Off(k + 1)
  <2>1. k + 1 \in Uses /\ k + 1 <= i /\ k # N
    BY <1>2, <1>7, <1>10
  <2>2. End(k) = Off(k + 1)
    BY <2>1 DEF End, Off, N
  <2>3. Off(k + 1) - now[k + 1] <= Off(i) - now[i]
    BY <1>2, <1>8, <2>1
  <2> QED BY <1>3, <2>1, <2>2, <2>3
<1>11. ASSUME NEW k \in Uses, k < i + 1
       PROVE  /\ \A p \in 1 .. Length(k) : code'[(Off(k) - now[k]) + p] = Encoded(k)[p]
              /\ \A p \in Begin(k) + 1 .. End(k) : code'[p - now[k + 1]] = Cell("code", p - 1)
  <2>1. CASE k = i
    <3>1. \A p \in Begin(i) + 1 .. End(i) : code[p] = Cell("code", p - 1)
      BY <1>1, <1>2, <2>1 DEF Emitted
    <3> QED BY <1>3, <2>1, <3>1
  <2>2. CASE k < i
    <3>1. End(k) - now[k + 1] <= out
      BY <1>10, <2>2
    <3>4. /\ Begin(k) \in Nat /\ End(k) \in Nat /\ Begin(k) <= End(k) /\ End(k) <= Size
          /\ Off(k) - now[k] \in Nat /\ Length(k) \in Nat
          /\ now[k + 1] \in Nat /\ now[k + 1] <= Begin(k)
          /\ (Off(k) - now[k]) + Length(k) = Begin(k) - now[k + 1]
      BY <1>7, <1>8
    <3>2. ASSUME NEW p \in 1 .. Length(k)
          PROVE  code'[(Off(k) - now[k]) + p] = Encoded(k)[p]
      <4> DEFINE q == (Off(k) - now[k]) + p
      <4>1. q \in 1 .. Size /\ q <= out
        <5>1. q <= (Off(k) - now[k]) + Length(k) /\ q \in Nat /\ q >= 1
          BY <3>2, <3>4
        <5>2. Begin(k) - now[k + 1] <= End(k) - now[k + 1]
          BY <3>4
        <5> HIDE DEF q
        <5>3. q <= Begin(k) - now[k + 1]
          BY <3>4, <5>1
        <5>4. Begin(k) - now[k + 1] \in Int /\ End(k) - now[k + 1] \in Int
          BY <3>4
        <5>5. q <= out
          BY <1>14, <3>1, <5>1, <5>2, <5>3, <5>4
        <5> QED BY <1>2, <1>14, <5>1, <5>5
      <4>2. code[q] = Encoded(k)[p]
        BY <1>1, <2>2, <3>2 DEF Emitted
      <4> HIDE DEF q
      <4>3. code'[q] = code[q]
        BY <1>3, <4>1
      <4> QED BY <4>2, <4>3 DEF q
    <3>3. ASSUME NEW p \in Begin(k) + 1 .. End(k)
          PROVE  code'[p - now[k + 1]] = Cell("code", p - 1)
      <4> DEFINE q == p - now[k + 1]
      <4>1. q \in 1 .. Size /\ q <= out
        <5>0. p \in Nat /\ Begin(k) + 1 <= p /\ p <= End(k)
          BY <3>3, <3>4
        <5>4. /\ now[k + 1] \in Nat /\ now[k + 1] <= Begin(k) /\ Begin(k) \in Nat
              /\ End(k) \in Nat
          BY <3>4
        <5>1. q <= End(k) - now[k + 1] /\ q \in Nat /\ q >= 1
          BY <5>0, <5>4
        <5> HIDE DEF q
        <5>2. q <= out
          BY <1>14, <3>1, <5>1, <5>4
        <5> QED BY <1>2, <1>14, <5>1, <5>2
      <4>2. code[q] = Cell("code", p - 1)
        BY <1>1, <2>2, <3>3 DEF Emitted
      <4> HIDE DEF q
      <4>3. code'[q] = code[q]
        BY <1>3, <4>1
      <4> QED BY <4>2, <4>3 DEF q
    <3> QED BY <3>2, <3>3
  <2> QED BY <1>2, <1>7, <1>11, <2>1, <2>2
<1>12. ASSUME NEW k \in Uses, k >= i + 1, NEW p \in Begin(k) + 1 .. End(k)
       PROVE  code'[p] = Cell("code", p - 1)
  <2>1. k > i /\ k >= i
    BY <1>2, <1>7, <1>12
  <2>2. End(i) <= Off(k) /\ Off(k) <= Begin(k)
    BY <1>2, <1>7, <2>1
  <2>3. p \in 1 .. Size /\ p > End(i)
    BY <1>2, <1>7, <1>12, <2>2
  <2>4. code[p] = Cell("code", p - 1)
    BY <1>1, <1>12, <2>1 DEF Emitted
  <2> QED BY <1>3, <2>3, <2>4
<1>13. Uses' = Uses /\ i' = i + 1 /\ Off(1)' = Off(1)
  BY <1>1 DEF Off
<1> QED BY <1>4, <1>5, <1>6, <1>9, <1>11, <1>12, <1>13 DEF Emitted

\* What has been placed and written, together.
Laid == Placed /\ Untouched /\ Emitted

\* Before the first use nothing is written or moved.
LEMMA LaidInit == Init => Laid
<1> SUFFICES ASSUME Init PROVE Laid
  OBVIOUS
<1>1. Size = 0
  BY EmptySeq DEF Init, Size
<1> QED BY <1>1 DEF Init, Laid, Placed, Tried, LeftLong, Moved, Untouched, Emitted

\* And each step keeps what is laid out.
LEMMA LaidNext == IInv /\ Laid /\ [Next]_vars => Laid'
<1> SUFFICES ASSUME IInv, Laid, [Next]_vars PROVE Laid'
  OBVIOUS
<1>1. Placed'
  BY PlacedNext DEF Laid
<1>2. CASE Assembling
  <2>1. pc' = "assemble" /\ (Encode \/ DefineLabel \/ UseLabel)
    BY <1>2 DEF Assembling, Encode, DefineLabel, UseLabel, PushLabelUse
  <2> QED BY <1>1, <2>1, UntouchedNext DEF Laid, Emitted
<1>3. CASE BeginPasses \/ PassDefinition \/ PassOther \/ PassShort \/ PassJump \/ NextPass
  <2>1. /\ pc \in {"assemble", "relax"} /\ pc' = "relax" /\ code' = code /\ uses' = uses
        /\ Uses' = Uses /\ Size' = Size
    BY <1>3 DEF BeginPasses, PassDefinition, PassOther, PassShort, PassJump, NextPass, GoOn,
                Passing, PassEnds, Uses, Size
  <2> QED BY <1>1, <2>1 DEF Laid, Untouched, Emitted, InRoom, Begin
<1>4. CASE NoMemory \/ TooFar \/ Truncate
  <2>1. pc' \in {"failed", "done"}
    BY <1>4 DEF NoMemory, TooFar, Truncate
  <2> QED BY <1>1, <2>1 DEF Laid, Untouched, Emitted
<1>5. CASE EndPasses
  <2>1. pc' = "emit"
    BY <1>5 DEF EndPasses
  <2> QED BY <1>1, <1>5, <2>1, EmittedBegins DEF Laid, Untouched
<1>6. CASE EmitUse
  <2>1. pc' = "emit"
    BY <1>6 DEF EmitUse
  <2> QED BY <1>1, <1>6, <2>1, EmittedGoesOn DEF Laid, Placed, Untouched
<1>7. CASE UNCHANGED vars
  <2>1. Untouched'
    BY <1>7 DEF vars, relaxVars, Laid, Untouched, InRoom, Begin, Uses, Size
  <2>2. Emitted'
    <3>1. /\ UNCHANGED <<pc, code, uses, short, now, i>> /\ Uses' = Uses
      BY <1>7 DEF vars, relaxVars, Uses
    <3>2. \A k \in Uses : /\ Encoded(k)' = Encoded(k) /\ Length(k)' = Length(k)
                          /\ Begin(k)' = Begin(k) /\ End(k)' = End(k)
      BY <3>1 DEF Encoded, Length, LabelAddress, Address, Begin, End, Uses, Size
    <3> QED BY <3>1, <3>2 DEF Laid, Emitted, Off
  <2> QED BY <1>1, <2>1, <2>2 DEF Laid
<1> QED BY <1>2, <1>3, <1>4, <1>5, <1>6, <1>7 DEF Next, Resolving

\* Everything is where it should be, in every reachable state.
LEMMA LaidOut == Spec => [](IInv /\ Laid)
<1>1. Init => IInv /\ Laid
  BY InitInv, LaidInit
<1>2. IInv /\ Laid /\ [Next]_vars => (IInv /\ Laid)'
  BY NextInv, LaidNext
<1> QED BY <1>1, <1>2, PTL DEF Spec

-----------------------------------------------------------------------------
(* What comes out                                                          *)

\* The first bytes of a sequence.
LEMMA CutOffPart ==
  ASSUME NEW S, NEW c, NEW m \in Nat, \A p \in 1 .. m : c[p] \in S
  PROVE  /\ SubSeq(c, 1, m) \in Seq(S) /\ Len(SubSeq(c, 1, m)) = m
         /\ \A p \in 1 .. m : SubSeq(c, 1, m)[p] = c[p]
<1>1. /\ SubSeq(c, 1, m) \in Seq(S)
      /\ Len(SubSeq(c, 1, m)) = IF 1 <= m THEN m - 1 + 1 ELSE 0
      /\ \A p \in 1 .. m - 1 + 1 : SubSeq(c, 1, m)[p] = c[1 + p - 1]
  BY SubSeqProperties
<1>2. Len(SubSeq(c, 1, m)) = m
  BY <1>1
<1>3. \A p \in 1 .. m : p \in 1 .. m - 1 + 1 /\ 1 + p - 1 = p
  OBVIOUS
<1> QED BY <1>1, <1>2, <1>3

\* A part that continues what has been cut off continues the cut.
LEMMA CutOff ==
  ASSUME NEW S, NEW c \in Seq(S), NEW a \in Nat, NEW s \in Seq(S), a + Len(s) <= Len(c),
         \A p \in 1 .. Len(s) : c[a + p] = s[p]
  PROVE  SubSeq(c, 1, a + Len(s)) = SubSeq(c, 1, a) \o s
<1> DEFINE e == a + Len(s)
<1>1. Len(c) \in Nat /\ Len(s) \in Nat /\ e \in Nat
  BY LenProperties
<1>2. \A p \in 1 .. e : c[p] \in S
  BY <1>1, ElementOfSeq
<1>3. /\ SubSeq(c, 1, e) \in Seq(S) /\ Len(SubSeq(c, 1, e)) = e
      /\ \A p \in 1 .. e : SubSeq(c, 1, e)[p] = c[p]
  BY <1>1, <1>2, CutOffPart
<1>4. /\ SubSeq(c, 1, a) \in Seq(S) /\ Len(SubSeq(c, 1, a)) = a
      /\ \A p \in 1 .. a : SubSeq(c, 1, a)[p] = c[p]
  <2>1. \A p \in 1 .. a : c[p] \in S
    BY <1>1, <1>2
  <2> QED BY <2>1, CutOffPart
<1> DEFINE x == SubSeq(c, 1, a)
           y == SubSeq(c, 1, e)
<1>5. /\ x \o s \in Seq(S) /\ Len(x \o s) = e
      /\ \A p \in 1 .. e : (x \o s)[p] = IF p <= a THEN x[p] ELSE s[p - a]
  <2> HIDE DEF x
  <2> QED BY <1>4, ConcatProperties DEF x
<1>6. \A p \in 1 .. e : y[p] = (x \o s)[p]
  <2> SUFFICES ASSUME NEW p \in 1 .. e PROVE y[p] = (x \o s)[p]
    OBVIOUS
  <2>1. CASE p <= a
    <3>1. p \in 1 .. a
      BY <2>1
    <3> QED BY <1>3, <1>4, <1>5, <2>1, <3>1
  <2>2. CASE ~(p <= a)
    <3>1. p - a \in 1 .. Len(s) /\ a + (p - a) = p
      BY <1>1, <2>2
    <3>2. c[p] = s[p - a]
      BY <3>1
    <3> QED BY <1>3, <1>5, <2>2, <3>2
  <2> QED BY <2>1, <2>2
<1> HIDE DEF x, y
<1>7. y = x \o s
  BY <1>3, <1>5, <1>6, SeqEqual DEF y
<1> QED BY <1>7 DEF x, y

\* As far as a use and the code behind it go in the result.
Reach(k) == IF k = 0 THEN Off(1) ELSE End(k) - now[k + 1]

\* What the recursion of Layout asks of g.
Layouts(g) ==
  g = [k \in 0 .. Len(uses) |->
         IF k = 0 THEN Plain(0, uses[1].offset)
         ELSE g[k - 1] \o Encoded(k) \o Plain(Begin(k), End(k))]

\* Code as it was assembled, as a sequence.
LEMMA PlainIs ==
  ASSUME NEW from \in Nat, NEW to \in Nat, from <= to
  PROVE  /\ Plain(from, to) \in Seq(Cells) /\ Len(Plain(from, to)) = to - from
         /\ \A p \in 1 .. to - from : Plain(from, to)[p] = Cell("code", from + p - 1)
<1>1. to - from \in Nat
  OBVIOUS
<1>2. \A p \in 1 .. to - from : from + p - 1 \in Int
  OBVIOUS
<1>3. Plain(from, to) \in [1 .. to - from -> Cells]
  BY <1>2 DEF Plain, Cell, Cells
<1>4. \A p \in 1 .. to - from : Plain(from, to)[p] = Cell("code", from + p - 1)
  BY DEF Plain
<1> QED BY <1>1, <1>3, <1>4, FunctionIsSeq

\* Adding up the parts.
LEMMA PartsAddUp ==
  ASSUME NEW a \in Nat, NEW l \in Nat, NEW b \in Nat, NEW e \in Nat, NEW v \in Nat, NEW z \in Nat,
         b <= e, e <= z, v <= b, a + l = b - v
  PROVE  /\ a + l <= z /\ a + l \in Nat
         /\ (a + l) + (e - b) = e - v /\ e - v <= z
  OBVIOUS

\* The bytes up to there are laid out as they should be, use by use.
LEMMA LayoutStep ==
  ASSUME IInv, Laid, pc = "emit", i = Len(uses) + 1
  PROVE  /\ SubSeq(code, 1, Reach(0)) = Plain(0, uses[1].offset)
         /\ \A k \in Uses :
              SubSeq(code, 1, Reach(k))
                = SubSeq(code, 1, Reach(k - 1)) \o Encoded(k) \o Plain(Begin(k), End(k))
<1>1. /\ N \in Nat /\ Uses = 1 .. N /\ Size \in Nat /\ code \in Seq(Cells)
      /\ i = N + 1 /\ Moved /\ Emitted /\ DOMAIN code = 1 .. Size
  BY Basics, LenProperties DEF IInv, TypeOK, Laid, Placed, N, Size
<1>2. 1 \in Uses /\ now[1] = 0
  <2>1. uses # <<>> /\ now[1] = 0
    BY DEF IInv, Settled
  <2>2. N # 0
    BY <2>1, EmptySeq DEF N, IInv, TypeOK
  <2> QED BY <1>1, <2>1, <2>2
<1>3. \A k \in Uses : /\ Begin(k) \in Nat /\ End(k) \in Nat /\ Begin(k) <= End(k) /\ End(k) <= Size
                      /\ Off(k) \in Nat /\ Off(k) <= Begin(k) /\ k < i /\ k \in Nat /\ k >= 1
  BY <1>1, Ends, Basics DEF IInv
<1>4. \A k \in Uses :
        /\ Off(k) - now[k] \in Nat /\ Length(k) \in Nat
        /\ now[k + 1] \in Nat /\ now[k + 1] <= Begin(k)
        /\ (Off(k) - now[k]) + Length(k) = Begin(k) - now[k + 1]
  BY <1>1, Placement
<1>5. \A p \in 1 .. Size : code[p] \in Cells
  BY <1>1, ElementOfSeq DEF Size
<1>7. SubSeq(code, 1, Reach(0)) = Plain(0, uses[1].offset)
  <2>1. Off(1) \in Nat /\ Off(1) <= Size
    BY <1>1, <1>2, <1>3
  <2>2. \A p \in 1 .. Off(1) : code[p] \in Cells
    BY <1>1, <1>5, <2>1
  <2>3. /\ SubSeq(code, 1, Off(1)) \in Seq(Cells) /\ Len(SubSeq(code, 1, Off(1))) = Off(1)
        /\ \A p \in 1 .. Off(1) : SubSeq(code, 1, Off(1))[p] = code[p]
    BY <2>1, <2>2, CutOffPart
  <2>4. /\ Plain(0, Off(1)) \in Seq(Cells) /\ Len(Plain(0, Off(1))) = Off(1) - 0
        /\ \A p \in 1 .. Off(1) - 0 : Plain(0, Off(1))[p] = Cell("code", 0 + p - 1)
    <3> DEFINE o == Off(1)
    <3>1. 0 \in Nat /\ o \in Nat /\ 0 <= o
      BY <2>1
    <3> HIDE DEF o
    <3>2. /\ Plain(0, o) \in Seq(Cells) /\ Len(Plain(0, o)) = o - 0
          /\ \A p \in 1 .. o - 0 : Plain(0, o)[p] = Cell("code", 0 + p - 1)
      BY <3>1, PlainIs
    <3> QED BY <3>2 DEF o
  <2>5. Off(1) - 0 = Off(1) /\ \A p \in 1 .. Off(1) : 0 + p - 1 = p - 1
    BY <2>1
  <2>6. \A p \in 1 .. Off(1) : SubSeq(code, 1, Off(1))[p] = Plain(0, Off(1))[p]
    BY <1>1, <2>3, <2>4, <2>5 DEF Emitted
  <2>7. SubSeq(code, 1, Off(1)) = Plain(0, Off(1))
    BY <2>3, <2>4, <2>5, <2>6, SeqEqual
  <2> QED BY <2>7 DEF Reach, Off
<1>8. ASSUME NEW k \in Uses
      PROVE  SubSeq(code, 1, Reach(k))
               = SubSeq(code, 1, Reach(k - 1)) \o Encoded(k) \o Plain(Begin(k), End(k))
  <2> DEFINE a == Off(k) - now[k]
             s == Encoded(k)
             t == Plain(Begin(k), End(k))
  <2>1. Reach(k - 1) = a
    <3>1. CASE k = 1
      <4>1. Off(1) \in Nat
        BY <1>2, <1>3
      <4> QED BY <1>2, <3>1, <4>1 DEF Reach
    <3>2. CASE k # 1
      <4>1. k - 1 \in Uses /\ k - 1 # N /\ k - 1 # 0 /\ (k - 1) + 1 = k
        BY <1>1, <1>3, <3>2
      <4>2. End(k - 1) = Off(k)
        BY <4>1 DEF End, N, Off
      <4> QED BY <4>1, <4>2 DEF Reach
    <3> QED BY <3>1, <3>2
  <2>2. /\ a \in Nat /\ Length(k) \in Nat /\ a + Length(k) = Begin(k) - now[k + 1]
        /\ a + Length(k) <= Size /\ a + Length(k) \in Nat
        /\ (a + Length(k)) + (End(k) - Begin(k)) = Reach(k)
        /\ Reach(k) <= Size
    <3>1. Reach(k) = End(k) - now[k + 1]
      BY <1>3 DEF Reach
    <3>2. a \in Nat /\ Length(k) \in Nat /\ a + Length(k) = Begin(k) - now[k + 1]
      BY <1>4
    <3> HIDE DEF a
    <3>3. /\ Begin(k) \in Nat /\ End(k) \in Nat /\ Begin(k) <= End(k) /\ End(k) <= Size
          /\ now[k + 1] \in Nat /\ now[k + 1] <= Begin(k)
      BY <1>3, <1>4
    <3>4. Size \in Nat
      BY <1>1
    <3>5. /\ a + Length(k) <= Size /\ a + Length(k) \in Nat
          /\ (a + Length(k)) + (End(k) - Begin(k)) = End(k) - now[k + 1]
          /\ End(k) - now[k + 1] <= Size
      BY <3>2, <3>3, <3>4, PartsAddUp
    <3> QED BY <3>1, <3>2, <3>5
  <2>3. /\ \A p \in 1 .. Length(k) : code[a + p] = s[p]
        /\ \A p \in Begin(k) + 1 .. End(k) : code[p - now[k + 1]] = Cell("code", p - 1)
    BY <1>1, <1>3 DEF Emitted
  <2>4. s \in Seq(Cells) /\ Len(s) = Length(k)
    <3>1. \A p \in 1 .. Length(k) : a + p \in 1 .. Size
      <4> HIDE DEF a
      <4> QED BY <1>1, <2>2
    <3>2. \A p \in 1 .. Length(k) : s[p] \in Cells
      BY <1>5, <2>3, <3>1
    <3>3. s = [p \in 1 .. Length(k) |-> s[p]]
      BY DEF Encoded
    <3> HIDE DEF s
    <3>4. s \in [1 .. Length(k) -> Cells]
      BY <3>2, <3>3
    <3> QED BY <2>2, <3>4, FunctionIsSeq
  <2>5. /\ t \in Seq(Cells) /\ Len(t) = End(k) - Begin(k)
        /\ \A p \in 1 .. End(k) - Begin(k) : t[p] = Cell("code", Begin(k) + p - 1)
    BY <1>3, PlainIs
  <2>6. \A p \in 1 .. Len(t) : code[(a + Length(k)) + p] = t[p]
    <3> SUFFICES ASSUME NEW p \in 1 .. Len(t) PROVE code[(a + Length(k)) + p] = t[p]
      OBVIOUS
    <3>1. p \in 1 .. End(k) - Begin(k)
      BY <2>5
    <3>2. /\ Begin(k) \in Nat /\ End(k) \in Nat /\ now[k + 1] \in Nat
          /\ a + Length(k) = Begin(k) - now[k + 1]
      BY <1>3, <1>4
    <3> HIDE DEF a, t
    <3>3. /\ Begin(k) + p \in Begin(k) + 1 .. End(k)
          /\ (Begin(k) + p) - now[k + 1] = (a + Length(k)) + p
          /\ Begin(k) + p - 1 = (Begin(k) + p) - 1
      BY <3>1, <3>2
    <3>4. code[(Begin(k) + p) - now[k + 1]] = Cell("code", (Begin(k) + p) - 1)
      BY <2>3, <3>3
    <3> QED BY <2>5, <3>1, <3>3, <3>4
  <2> HIDE DEF a, s, t
  <2>7. SubSeq(code, 1, a + Length(k)) = SubSeq(code, 1, a) \o s
    <3>1. /\ a + Len(s) <= Len(code) /\ a \in Nat
          /\ \A p \in 1 .. Len(s) : code[a + p] = s[p]
      BY <2>2, <2>3, <2>4 DEF Size
    <3>2. SubSeq(code, 1, a + Len(s)) = SubSeq(code, 1, a) \o s
      BY <1>1, <2>4, <3>1, CutOff
    <3> QED BY <2>4, <3>2
  <2>8. SubSeq(code, 1, (a + Length(k)) + Len(t)) = SubSeq(code, 1, a + Length(k)) \o t
    <3>1. (a + Length(k)) + Len(t) <= Len(code)
      BY <2>2, <2>5 DEF Size
    <3> QED BY <1>1, <2>2, <2>5, <2>6, <3>1, CutOff
  <2>9. (a + Length(k)) + Len(t) = Reach(k)
    BY <2>2, <2>5
  <2> QED BY <2>1, <2>7, <2>8, <2>9 DEF s, t
<1> QED BY <1>7, <1>8

\* So the result is what Layout says.
LEMMA LayoutIs ==
  ASSUME IInv, Laid, pc = "emit", i = Len(uses) + 1
  PROVE  SubSeq(code, 1, out) = Layout
<1>1. N \in Nat /\ Uses = 1 .. N /\ N \in Uses /\ Size \in Nat
  <2>1. N \in Nat /\ Uses = 1 .. N /\ Size \in Nat
    BY Basics DEF IInv
  <2>2. N # 0
    BY EmptySeq DEF N, IInv, TypeOK, Settled
  <2> QED BY <2>1, <2>2
<1> DEFINE g == [k \in 0 .. N |-> SubSeq(code, 1, Reach(k))]
<1>2. \A k \in 0 .. N : k # 0 => k \in Uses /\ k - 1 \in 0 .. N
  BY <1>1
<1>3. \A k \in 0 .. N :
        g[k] = IF k = 0 THEN Plain(0, uses[1].offset)
               ELSE g[k - 1] \o Encoded(k) \o Plain(Begin(k), End(k))
  BY <1>2, LayoutStep
<1>4. Layouts(g)
  BY <1>3 DEF Layouts, N
<1> HIDE DEF g
<1>5. PICK l : Layouts(l) /\ Layout = l[N]
  <2> DEFINE l == CHOOSE l : l = [k \in 0 .. Len(uses) |->
                    IF k = 0 THEN Plain(0, uses[1].offset)
                    ELSE l[k - 1] \o Encoded(k) \o Plain(Begin(k), End(k))]
  <2>1. Layouts(l)
    BY <1>4 DEF Layouts
  <2>2. Layout = l[N]
    BY DEF Layout, N
  <2> QED BY <2>1, <2>2
<1> DEFINE D == {k \in 0 .. N : l[k] # g[k]}
<1>6. D = {}
  <2> SUFFICES ASSUME D # {} PROVE FALSE
    OBVIOUS
  <2>0. D \subseteq Nat
    BY <1>1
  <2>1. PICK m \in D : \A j \in 0 .. m - 1 : j \notin D
    <3> HIDE DEF D
    <3> QED BY <2>0, Least
  <2>2. m \in 0 .. N
    BY <2>1
  <2>3. /\ l[m] = IF m = 0 THEN Plain(0, uses[1].offset)
                  ELSE l[m - 1] \o Encoded(m) \o Plain(Begin(m), End(m))
        /\ g[m] = IF m = 0 THEN Plain(0, uses[1].offset)
                  ELSE g[m - 1] \o Encoded(m) \o Plain(Begin(m), End(m))
    BY <1>4, <1>5, <2>2 DEF Layouts, N
  <2>4. CASE m = 0
    BY <2>1, <2>3, <2>4
  <2>5. CASE m # 0
    <3>1. m - 1 \in 0 .. N /\ m - 1 \in 0 .. m - 1
      BY <1>1, <2>2, <2>5
    <3>2. l[m - 1] = g[m - 1]
      BY <2>1, <3>1
    <3> QED BY <2>1, <2>3, <2>5, <3>2
  <2> QED BY <2>4, <2>5
<1>7. Layout = g[N] /\ g[N] = SubSeq(code, 1, Reach(N))
  <2>1. N \in 0 .. N
    BY <1>1
  <2> QED BY <1>5, <1>6, <2>1 DEF g
<1>8. Reach(N) = out
  <2>1. N # 0 /\ End(N) = Size
    BY <1>1 DEF End, N
  <2>2. i > N
    BY <1>1 DEF N
  <2> QED BY <2>1, <2>2 DEF Reach, Laid, Placed, Moved
<1> QED BY <1>7, <1>8

-----------------------------------------------------------------------------
(* The theorems about what comes out                                       *)

\* The second loop, working in place, writes what was assembled with every
\* label resolved: for each program and each choice of short jumps the code
\* between the uses unchanged and in order, and in each instruction the distance
\* to where its label ended up (assembler.c:421-530).
THEOREM CodeIsLaidOut == Spec => []EmitsLayout
<1>1. IInv /\ Laid => EmitsLayout
  BY LayoutIs DEF EmitsLayout, N
<1> QED BY <1>1, LaidOut, PTL

\* When the passes end, no jump is long that would fit the short form: the last
\* pass tried each of them with labels that have not moved since
\* (assembler.c:352-419).
THEOREM NoneStaysLong == Spec => []NoneLeftLong
<1>1. IInv /\ Laid => NoneLeftLong
  <2> SUFFICES ASSUME IInv, Laid, pc = "emit",
                      NEW k \in Uses \ short, uses[k].type \in Jumps
               PROVE  LET t == LabelAddress(uses[k].label)
                          o == Address(k) + 2
                      IN ~FitsShort(IF t > o THEN t - Gain(uses[k].type) - o ELSE t - o)
    BY DEF NoneLeftLong
  <2>1. PICK d \in Uses : IsDef(d) /\ uses[d].label = uses[k].label
    BY DEF IInv, HasDefinition
  <2>2. TooLong(Off(d) - now[d], Off(k) - now[k] + 2, Gain(uses[k].type))
    BY <2>1 DEF Laid, Placed, LeftLong
  <2>3. LabelAddress(uses[k].label) = Off(d) - now[d]
    BY <2>1, LabelAddressIs
  <2>4. Address(k) = Off(k) - now[k]
    BY AddressIs
  <2> QED BY <2>2, <2>3, <2>4 DEF TooLong
<1> QED BY <1>1, LaidOut, PTL

-----------------------------------------------------------------------------
(* The branches the assembler does not know of                             *)

\* The code between two uses, without the room of those on the way.
Clear(d, k) == {o \in Off(d) + 1 .. Off(k) : ~InRoom(o)}

\* Whatever has been shortened, FarBack's jump is too far for the short form.
StaysFar(k) ==
  \E d \in Uses : /\ d < k /\ IsDef(d) /\ uses[d].label = uses[k].label
                  /\ Cardinality(Clear(d, k)) >= ShortMax

\* A branch goes over whole instructions, of which none can be shortened.
Spans(b) ==
  /\ b[1] \in Nat /\ b[2] \in Nat /\ b[1] <= b[2]
  /\ pc = "assemble" => b[2] <= Size
  /\ \A k \in Uses : /\ b[1] <= Off(k) \/ Begin(k) <= b[1]
                     /\ b[2] <= Off(k) \/ Begin(k) <= b[2]
  /\ \A k \in Jumping : b[1] <= Off(k) /\ Off(k) < b[2] => StaysFar(k)

Marked == pc = "assemble" => \A p \in 1 .. Size : InRoom(p) => code[p].kind = "room"

BranchInv == Marked /\ \A b \in branches : Spans(b)

\* The room of each use lies within the code.
LEMMA UseEnds ==
  ASSUME IInv, pc # "done"
  PROVE  /\ Size \in Nat
         /\ \A k \in Uses : /\ Off(k) \in Nat /\ Begin(k) \in Nat /\ Off(k) <= Begin(k)
                           /\ Begin(k) <= Size
<1>1. Size \in Nat /\ \A k \in Uses : Off(k) \in Nat
  BY Basics DEF IInv
<1> SUFFICES ASSUME NEW k \in Uses
             PROVE  Begin(k) \in Nat /\ Off(k) <= Begin(k) /\ Begin(k) <= Size
  BY <1>1
<1>2. /\ Begin(k) \in Nat /\ End(k) \in Nat /\ Off(k) <= Begin(k) /\ Begin(k) <= End(k)
      /\ End(k) <= Size
  BY Ends
<1> QED BY <1>1, <1>2

\* The code between two uses is a set that can be counted.
LEMMA ClearIsFinite ==
  ASSUME NEW d, NEW k, Off(d) \in Nat, Off(k) \in Nat
  PROVE  IsFiniteSet(Clear(d, k))
<1>1. IsFiniteSet(Off(d) + 1 .. Off(k))
  <2> DEFINE a == Off(d) + 1
             b == Off(k)
  <2>1. a \in Int /\ b \in Int
    OBVIOUS
  <2> HIDE DEF a, b
  <2>2. IsFiniteSet(a .. b)
    BY <2>1, FS_Interval
  <2> QED BY <2>2 DEF a, b
<1>2. Clear(d, k) \in SUBSET (Off(d) + 1 .. Off(k))
  BY DEF Clear
<1> QED BY <1>1, <1>2, FS_Subset

\* Before anything is assembled there is no branch.
LEMMA BranchInitInv == BranchInit => BranchInv
<1> SUFFICES ASSUME BranchInit PROVE BranchInv
  OBVIOUS
<1>1. Size = 0
  BY EmptySeq DEF BranchInit, Init, Size
<1> QED BY <1>1 DEF BranchInit, Init, BranchInv, Marked

\* A use is put behind the branches there are.
LEMMA BranchesPushed ==
  ASSUME IInv, BranchInv, NEW t \in Types, NEW l \in Labels, PushLabelUse(t, l),
         branches' = branches
  PROVE  BranchInv'
<1>1. pc = "assemble" /\ pc' = "assemble"
  BY DEF PushLabelUse
<1>2. /\ Size' = Size + Reserved(t) /\ Reserved(t) \in Nat /\ Size \in Nat
      /\ \A p \in 1 .. Size : code'[p] = code[p]
      /\ \A p \in Size + 1 .. Size' : code'[p] = Cell("room", 0)
      /\ N \in Nat /\ Uses = 1 .. N /\ Uses' = 1 .. N + 1
      /\ \A k \in Uses : uses'[k] = uses[k] /\ k \in Uses'
      /\ uses'[N + 1] = [type |-> t, offset |-> Size, label |-> l]
  BY UseAppends
<1>3. /\ \A k \in Uses : Off(k)' = Off(k) /\ Begin(k)' = Begin(k) /\ IsDef(k)' = IsDef(k)
      /\ uses'[N + 1].offset = Size /\ \A k \in Uses' : k \in Uses \/ k = N + 1
  BY <1>2 DEF Off, Begin, IsDef
<1>4. \A k \in Uses : /\ Off(k) \in Nat /\ Begin(k) \in Nat /\ Off(k) <= Begin(k)
                      /\ Begin(k) <= Size
  BY <1>1, UseEnds
<1>5. ASSUME NEW p \in 1 .. Size
      PROVE  InRoom(p)' <=> InRoom(p)
  <2>1. ~(uses'[N + 1].offset < p)
    BY <1>2, <1>3, <1>5
  <2> QED BY <1>2, <1>3, <2>1 DEF InRoom, Off
<1>6. Marked'
  <2> SUFFICES ASSUME NEW p \in 1 .. Size', InRoom(p)' PROVE code'[p].kind = "room"
    BY DEF Marked
  <2>1. CASE p \in 1 .. Size
    BY <1>1, <1>2, <1>5, <2>1 DEF BranchInv, Marked
  <2>2. CASE p \notin 1 .. Size
    <3>1. p \in Size + 1 .. Size'
      BY <1>2, <2>2
    <3> QED BY <1>2, <3>1 DEF Cell
  <2> QED BY <2>1, <2>2
<1>7. ASSUME NEW b \in branches
      PROVE  Spans(b)'
  <2>1. /\ b[1] \in Nat /\ b[2] \in Nat /\ b[1] <= b[2] /\ b[2] <= Size
        /\ \A k \in Uses : /\ b[1] <= Off(k) \/ Begin(k) <= b[1]
                           /\ b[2] <= Off(k) \/ Begin(k) <= b[2]
        /\ \A k \in Jumping : b[1] <= Off(k) /\ Off(k) < b[2] => StaysFar(k)
    BY <1>1 DEF BranchInv, Spans
  <2>2. b[2] <= Size' /\ b[1] <= Size /\ ~(Size < b[2])
    BY <1>2, <2>1
  <2>3. \A k \in Uses' : /\ b[1] <= Off(k)' \/ Begin(k)' <= b[1]
                         /\ b[2] <= Off(k)' \/ Begin(k)' <= b[2]
    <3> SUFFICES ASSUME NEW k \in Uses'
                 PROVE  /\ b[1] <= Off(k)' \/ Begin(k)' <= b[1]
                        /\ b[2] <= Off(k)' \/ Begin(k)' <= b[2]
      OBVIOUS
    <3>1. CASE k \in Uses
      BY <1>3, <2>1, <3>1
    <3>2. CASE k = N + 1
      <4>1. Off(k)' = Size
        BY <1>3, <3>2 DEF Off
      <4>2. b[1] <= Size /\ b[2] <= Size
        BY <2>1, <2>2
      <4> QED BY <4>1, <4>2
    <3> QED BY <1>3, <3>1, <3>2
  <2>4. ASSUME NEW k \in Jumping', b[1] <= Off(k)', Off(k)' < b[2]
        PROVE  StaysFar(k)'
    <3>0. k \in Uses' /\ uses'[k].type \in Jumps /\ uses'[k].offset < b[2]
      BY <2>4 DEF Jumping, Off
    <3>1. k \in Uses' /\ k \in Uses /\ uses'[k] = uses[k] /\ k \in Jumping
      <4>1. k # N + 1
        BY <1>3, <2>2, <3>0
      <4>2. k \in Uses
        BY <1>3, <3>0, <4>1
      <4> QED BY <1>2, <3>0, <4>2 DEF Jumping
    <3>2. StaysFar(k)
      BY <1>3, <2>1, <2>4, <3>1
    <3>3. PICK d \in Uses : /\ d < k /\ IsDef(d) /\ uses[d].label = uses[k].label
                            /\ Cardinality(Clear(d, k)) >= ShortMax
      BY <3>2 DEF StaysFar
    <3>4. Clear(d, k)' = Clear(d, k)
      <4>1. Off(d)' = Off(d) /\ Off(k)' = Off(k)
        BY <1>3, <3>1
      <4>2. \A o \in Off(d) + 1 .. Off(k) : InRoom(o)' <=> InRoom(o)
        <5>1. \A o \in Off(d) + 1 .. Off(k) : o \in 1 .. Size
          BY <1>2, <1>4, <3>1
        <5> QED BY <1>5, <5>1
      <4> QED BY <4>1, <4>2 DEF Clear
    <3> QED BY <1>2, <1>3, <3>1, <3>3, <3>4 DEF StaysFar
  <2> QED BY <2>1, <2>2, <2>3, <2>4 DEF Spans
<1> QED BY <1>6, <1>7 DEF BranchInv

\* Code put behind it leaves a branch alone.
LEMMA BranchesEncoded ==
  ASSUME IInv, BranchInv, Encode, branches' = branches
  PROVE  BranchInv'
<1>1. pc = "assemble" /\ pc' = "assemble" /\ Size \in Nat /\ Size' \in Nat /\ Size <= Size'
      /\ uses' = uses /\ Uses' = Uses
      /\ \A p \in 1 .. Size : code'[p] = code[p]
  BY EncodeAppends DEF Encode
<1>2. \A k \in Uses : Begin(k) <= Size /\ Begin(k) \in Nat
  BY <1>1, UseEnds
<1>3. \A p : InRoom(p)' = InRoom(p)
  BY <1>1 DEF InRoom, Begin
<1>4. Marked'
  <2> SUFFICES ASSUME NEW p \in 1 .. Size', InRoom(p)' PROVE code'[p].kind = "room"
    BY DEF Marked
  <2>1. InRoom(p)
    BY <1>3
  <2>2. p \in 1 .. Size
    BY <1>1, <1>2, <2>1 DEF InRoom
  <2> QED BY <1>1, <2>1, <2>2 DEF BranchInv, Marked
<1>5. \A b \in branches : Spans(b)'
  <2> SUFFICES ASSUME NEW b \in branches PROVE Spans(b)'
    OBVIOUS
  <2>1. Spans(b) /\ b[2] <= Size /\ b[2] \in Nat
    BY <1>1 DEF BranchInv, Spans
  <2>2. b[2] <= Size'
    BY <1>1, <2>1
  <2>3. \A k : StaysFar(k)' = StaysFar(k)
    BY <1>1, <1>3 DEF StaysFar, Clear, Off, IsDef
  <2> QED BY <1>1, <2>1, <2>2, <2>3 DEF Spans, Jumping, Off, Begin
<1> QED BY <1>4, <1>5 DEF BranchInv

\* A branch is only used where it can be.
LEMMA BranchTargetInv ==
  ASSUME IInv, BranchInv, BranchTarget
  PROVE  BranchInv'
<1>1. PICK first \in BranchEnds : /\ MaySpan(first, Size)
                                  /\ branches' = branches \cup {<<first, Size>>}
  BY DEF BranchTarget
<1>2. /\ UNCHANGED vars /\ pc = "assemble" /\ Uses' = Uses /\ Size' = Size /\ Size \in Nat
      /\ code \in Seq(Cells)
  BY Basics DEF BranchTarget, vars, Uses, Size, IInv, TypeOK
<1>3. /\ Marked' /\ Jumping' = Jumping
      /\ \A b \in branches : Spans(b)'
  <2>1. \A p : InRoom(p)' = InRoom(p)
    BY <1>2 DEF vars, InRoom, Begin
  <2>2. \A k : StaysFar(k)' = StaysFar(k)
    BY <1>2, <2>1 DEF vars, StaysFar, Clear, Off, IsDef
  <2> QED BY <1>2, <2>1, <2>2 DEF vars, BranchInv, Marked, Spans, Jumping, Off, Begin
<1>4. \A k \in Uses : /\ Off(k) \in Nat /\ Begin(k) \in Nat /\ Off(k) <= Begin(k)
                      /\ Begin(k) <= Size
  BY <1>2, UseEnds
<1>5. first \in 1 .. Size /\ first \in Nat /\ code[first].kind = "code" /\ ~InRoom(first)
  <2>1. first \in 1 .. Size /\ code[first].kind = "code"
    BY <1>1, <1>2, LenProperties DEF BranchEnds, Size
  <2> QED BY <1>2, <2>1 DEF BranchInv, Marked
<1>6. \A k \in Uses : first <= Off(k) \/ Begin(k) <= first
  BY <1>4, <1>5 DEF InRoom, Off
<1>7. ASSUME NEW k \in Jumping, first <= Off(k), Off(k) < Size
      PROVE  StaysFar(k)
  <2>1. k \in Uses /\ FarBack(k)
    BY <1>1, <1>7 DEF MaySpan, Jumping, Off
  <2>2. PICK d \in Uses :
          /\ d < k /\ uses[d].type = "DEFINITION" /\ uses[d].label = uses[k].label
          /\ Cardinality({o \in uses[d].offset + 1 .. uses[k].offset : code[o].kind = "code"})
               >= ShortMax
    BY <2>1 DEF FarBack
  <2> DEFINE C == {o \in uses[d].offset + 1 .. uses[k].offset : code[o].kind = "code"}
  <2>3. C \subseteq Clear(d, k)
    <3>1. \A o \in Off(d) + 1 .. Off(k) : o \in 1 .. Size
      BY <1>2, <1>4, <2>1
    <3>2. \A o \in 1 .. Size : InRoom(o) => code[o].kind = "room"
      BY <1>2 DEF BranchInv, Marked
    <3> QED BY <3>1, <3>2 DEF Clear, Off
  <2>4. IsFiniteSet(Clear(d, k))
    BY <1>4, <2>1, ClearIsFinite
  <2>5. Cardinality(C) <= Cardinality(Clear(d, k)) /\ Cardinality(C) >= ShortMax
        /\ IsFiniteSet(C)
    <3> HIDE DEF C
    <3>1. C \in SUBSET Clear(d, k)
      BY <2>3
    <3>2. Cardinality(C) >= ShortMax
      BY <2>2 DEF C
    <3> QED BY <2>4, <3>1, <3>2, FS_Subset
  <2>6. Cardinality(C) \in Nat /\ Cardinality(Clear(d, k)) \in Nat
    <3> HIDE DEF C
    <3> QED BY <2>4, <2>5, FS_CardinalityType
  <2> HIDE DEF C
  <2>7. Cardinality(Clear(d, k)) >= ShortMax
    BY <2>5, <2>6, DisplacementAssumption
  <2> QED BY <2>2, <2>7 DEF StaysFar, IsDef
<1>8. Spans(<<first, Size>>)
  BY <1>2, <1>4, <1>5, <1>6, <1>7 DEF Spans
<1>9. ASSUME NEW b \in branches'
      PROVE  Spans(b)'
  <2>1. CASE b \in branches
    BY <1>3, <2>1
  <2>2. CASE b = <<first, Size>>
    <3>1. \A p : InRoom(p)' = InRoom(p)
      BY <1>2 DEF vars, InRoom, Begin
    <3>2. \A k : StaysFar(k)' = StaysFar(k)
      BY <1>2, <3>1 DEF vars, StaysFar, Clear, Off, IsDef
    <3>3. Spans(b)
      BY <1>8, <2>2
    <3> QED BY <1>2, <1>3, <3>2, <3>3 DEF vars, Spans, Off, Begin
  <2> QED BY <1>1, <2>1, <2>2
<1> QED BY <1>3, <1>9 DEF BranchInv

\* Counting a set that two others cover.
LEMMA UnionBounds ==
  ASSUME NEW R, NEW S, NEW T, IsFiniteSet(S), IsFiniteSet(T), R \subseteq S \cup T
  PROVE  /\ Cardinality(R) <= Cardinality(S \cup T)
         /\ Cardinality(S \cup T) <= Cardinality(S) + Cardinality(T)
         /\ Cardinality(R) \in Nat /\ Cardinality(S \cup T) \in Nat
         /\ Cardinality(S) \in Nat /\ Cardinality(T) \in Nat
<1>1. /\ IsFiniteSet(S \cup T)
      /\ Cardinality(S \cup T) = Cardinality(S) + Cardinality(T) - Cardinality(S \cap T)
  BY FS_Union
<1>2. IsFiniteSet(S \cap T)
  BY FS_Subset
<1>3. IsFiniteSet(R) /\ Cardinality(R) <= Cardinality(S \cup T)
  BY <1>1, FS_Subset
<1>4. /\ Cardinality(S) \in Nat /\ Cardinality(T) \in Nat /\ Cardinality(S \cup T) \in Nat
      /\ Cardinality(S \cap T) \in Nat /\ Cardinality(R) \in Nat
  BY <1>1, <1>2, <1>3, FS_CardinalityType
<1>5. Cardinality(S \cup T) <= Cardinality(S) + Cardinality(T)
  BY <1>1, <1>4
<1> QED BY <1>3, <1>4, <1>5

\* Branches stay as they are while anything else happens.
LEMMA BranchNextInv == IInv /\ BranchInv /\ [BranchNext]_branchVars => BranchInv'
<1> SUFFICES ASSUME IInv, BranchInv, [BranchNext]_branchVars PROVE BranchInv'
  OBVIOUS
<1>1. CASE BranchTarget
  BY <1>1, BranchTargetInv
<1>2. CASE Encode /\ branches' = branches
  BY <1>2, BranchesEncoded
<1>3. CASE DefineLabel /\ branches' = branches
  BY <1>3, BranchesPushed DEF DefineLabel, Types
<1>4. CASE UseLabel /\ branches' = branches
  BY <1>4, BranchesPushed, SegmentsAssumption DEF UseLabel, Types, Jumps
<1>5. CASE (BeginPasses \/ NoMemory \/ Resolving) /\ branches' = branches
  <2>1. uses' = uses /\ pc' # "assemble" /\ Uses' = Uses
    BY <1>5 DEF BeginPasses, NoMemory, Resolving, PassDefinition, PassOther, PassShort, PassJump,
       TooFar, NextPass, EndPasses, EmitUse, Truncate, GoOn, Passing, PassEnds, Uses
  <2>2. Marked'
    BY <2>1 DEF Marked
  <2>3. \A p : InRoom(p)' = InRoom(p)
    BY <2>1 DEF InRoom, Begin
  <2>4. \A k : StaysFar(k)' = StaysFar(k)
    BY <2>1, <2>3 DEF StaysFar, Clear, Off, IsDef
  <2> QED BY <1>5, <2>1, <2>2, <2>4 DEF BranchInv, Spans, Jumping, Off, Begin
<1>6. CASE UNCHANGED branchVars
  <2>1. UNCHANGED vars /\ branches' = branches /\ Uses' = Uses /\ Size' = Size
    BY <1>6 DEF branchVars, vars, Uses, Size
  <2>3. \A p : InRoom(p)' = InRoom(p)
    BY <2>1 DEF vars, InRoom, Begin
  <2>4. \A k : StaysFar(k)' = StaysFar(k)
    BY <2>1, <2>3 DEF vars, StaysFar, Clear, Off, IsDef
  <2> QED BY <2>1, <2>3, <2>4 DEF vars, BranchInv, Marked, Spans, Jumping, Off, Begin
<1> QED BY <1>1, <1>2, <1>3, <1>4, <1>5, <1>6 DEF BranchNext, Next, Assembling

\* Where code ends up: the gains of all uses before it are taken off.
LEMMA ImageIs ==
  ASSUME IInv, Laid, pc = "emit", NEW o \in Nat
  PROVE  \E k \in 0 .. N : /\ Image(o) = o - now[k + 1]
                           /\ \A j \in Uses : Begin(j) <= o <=> j <= k
<1>1. /\ N \in Nat /\ Uses = 1 .. N /\ Moved /\ now[1] = 0
      /\ \A j \in Uses : Off(j) \in Nat /\ Begin(j) \in Nat /\ Off(j) <= Begin(j)
  BY Basics, UseEnds DEF IInv, Laid, Placed, Settled
<1> DEFINE S == {j \in 1 .. N + 1 : j = N + 1 \/ ~(Begin(j) <= o)}
<1>2. S \subseteq Nat /\ N + 1 \in S
  BY <1>1
<1>3. PICK m \in S : \A j \in 0 .. m - 1 : j \notin S
  <2> HIDE DEF S
  <2> QED BY <1>2, Least
<1>4. m \in 1 .. N + 1 /\ m - 1 \in 0 .. N /\ (m - 1) + 1 = m
  BY <1>1, <1>3
<1>5. ASSUME NEW j \in Uses
      PROVE  Begin(j) <= o <=> j <= m - 1
  <2>1. CASE j <= m - 1
    <3>1. j \in 0 .. m - 1 /\ j \in 1 .. N + 1 /\ j # N + 1
      BY <1>1, <1>4, <2>1
    <3> QED BY <1>3, <2>1, <3>1
  <2>2. CASE ~(j <= m - 1)
    <3>1. m \in Uses /\ m <= j
      BY <1>1, <1>4, <2>2
    <3>2. ~(Begin(m) <= o)
      BY <1>1, <1>3, <3>1
    <3>3. Begin(m) <= Begin(j)
      <4>1. CASE m = j
        BY <1>1, <4>1
      <4>2. CASE m < j
        <5>1. Begin(m) <= Off(j) /\ Off(j) <= Begin(j)
          BY <1>1, <3>1, <4>2, Ends
        <5> QED BY <1>1, <3>1, <5>1
      <4> QED BY <1>1, <1>4, <3>1, <4>1, <4>2
    <3> QED BY <1>1, <2>2, <3>1, <3>2, <3>3
  <2> QED BY <2>1, <2>2
<1> DEFINE before == {k \in Uses : Begin(k) <= o}
<1>6. Image(o) = o - now[m]
  <2>1. CASE m = 1
    <3>1. before = {}
      BY <1>1, <1>5, <2>1
    <3>2. Image(o) = o
      BY <3>1 DEF Image
    <3> QED BY <1>1, <2>1, <3>2
  <2>2. CASE m # 1
    <3>1. m - 1 \in before /\ m - 1 \in Uses
      BY <1>1, <1>4, <1>5, <2>2
    <3>2. \A j \in before : j <= m - 1
      BY <1>5
    <3>3. \A k \in before : (\A j \in before : j <= k) => k = m - 1
      BY <1>1, <1>4, <3>1, <3>2
    <3>4. (CHOOSE k \in before : \A j \in before : j <= k) = m - 1
      <4> HIDE DEF before
      <4> QED BY <3>1, <3>2, <3>3
    <3>5. Image(o) = Address(m - 1) + Length(m - 1) + (o - Begin(m - 1))
      BY <3>1, <3>4 DEF Image
    <3>6. Address(m - 1) = Off(m - 1) - now[m - 1]
      BY <3>1, AddressIs
    <3>7. /\ (Off(m - 1) - now[m - 1]) + Length(m - 1) = Begin(m - 1) - now[m]
          /\ now[m] \in Nat /\ Begin(m - 1) \in Nat
      BY <1>1, <1>4, <3>1, Placement
    <3>8. Image(o) = (Begin(m - 1) - now[m]) + (o - Begin(m - 1))
      BY <3>5, <3>6, <3>7
    <3> QED BY <3>7, <3>8
  <2> QED BY <2>1, <2>2
<1> QED BY <1>4, <1>5, <1>6

\* Where no use gains, the shrinkage stays the same.
LEMMA SameGain ==
  ASSUME IInv, pc = "emit", NEW k \in 0 .. N, NEW l \in 0 .. N, k <= l,
         \A j \in Uses : k < j /\ j <= l => GainOf(j) = 0
  PROVE  now[k + 1] = now[l + 1]
<1>1. N \in Nat /\ Uses = 1 .. N /\ \A j \in 1 .. N + 1 : now[j] \in Nat
  BY Basics DEF IInv, TypeOK, N
<1>2. \A j \in Uses : now[j + 1] = now[j] + GainOf(j)
  BY DEF IInv, Settled
<1> DEFINE S == {j \in k .. l : now[j + 1] # now[k + 1]}
<1>3. S = {}
  <2> SUFFICES ASSUME S # {} PROVE FALSE
    OBVIOUS
  <2>1. S \subseteq Nat
    BY <1>1
  <2>2. PICK m \in S : \A j \in 0 .. m - 1 : j \notin S
    <3> HIDE DEF S
    <3> QED BY <2>1, Least
  <2>3. m \in k .. l /\ now[m + 1] # now[k + 1]
    BY <2>2
  <2>4. /\ m - 1 \in k .. l /\ m - 1 \in 0 .. m - 1 /\ m \in Uses /\ k < m /\ m <= l
        /\ (m - 1) + 1 = m /\ m \in 1 .. N + 1
    BY <1>1, <2>3
  <2>5. now[m] = now[k + 1]
    BY <2>2, <2>4
  <2>6. now[m + 1] = now[m] + 0 /\ now[m] \in Nat
    BY <1>1, <1>2, <2>4
  <2> QED BY <2>3, <2>5, <2>6
<1>4. l \in k .. l
  BY <1>1
<1> QED BY <1>3, <1>4

\* What lies between two uses and is not room stays between them.
LEMMA ClearFits ==
  ASSUME IInv, pc = "emit", NEW d \in Uses, NEW k \in Uses, d <= k
  PROVE  Cardinality(Clear(d, k)) <= (Off(k) - now[k]) - (Off(d) - now[d])
<1>1. /\ N \in Nat /\ Uses = 1 .. N
      /\ \A j \in Uses : /\ Off(j) \in Nat /\ Begin(j) \in Nat /\ now[j] \in Nat
                         /\ Off(j) <= Begin(j)
  <2>1. N \in Nat /\ Uses = 1 .. N
    BY Basics DEF IInv
  <2>2. \A j \in Uses : now[j] \in Nat
    BY <2>1 DEF IInv, TypeOK, N
  <2> QED BY <2>1, <2>2, UseEnds
<1> DEFINE Fits(j) == Cardinality(Clear(d, j)) <= (Off(j) - now[j]) - (Off(d) - now[d])
           S       == {j \in d .. k : ~Fits(j)}
<1>2. Fits(d)
  <2>1. Clear(d, d) = {}
    BY <1>1 DEF Clear
  <2>2. Cardinality(Clear(d, d)) = 0
    BY <2>1, FS_EmptySet
  <2>3. (Off(d) - now[d]) - (Off(d) - now[d]) = 0
    BY <1>1
  <2> QED BY <2>2, <2>3
<1>3. ASSUME NEW j \in Uses, d < j, Fits(j - 1)
      PROVE  Fits(j)
  <2>1. j - 1 \in Uses /\ (j - 1) + 1 = j /\ j - 1 < j
    BY <1>1, <1>3
  <2> DEFINE b == Begin(j - 1)
             T == b + 1 .. Off(j)
  <2>2. /\ b <= Off(j) /\ b \in Nat /\ Off(j) \in Nat /\ Off(j - 1) \in Nat /\ Off(d) \in Nat
        /\ now[j] \in Nat /\ now[j - 1] \in Nat /\ now[d] \in Nat
    BY <1>1, <2>1, Ends
  <2>3. /\ b = Off(j - 1) + Reserved(uses[j - 1].type)
        /\ Length(j - 1) + GainOf(j - 1) = Reserved(uses[j - 1].type)
        /\ Length(j - 1) \in Nat /\ GainOf(j - 1) \in Nat /\ now[j] = now[j - 1] + GainOf(j - 1)
    <3>1. GainOf(j - 1) \in Nat
      BY SMTT(40), <2>1, Basics DEF IInv
    <3> QED BY <2>1, <3>1, Lengths DEF IInv, Settled
  <2>4. Clear(d, j) \subseteq Clear(d, j - 1) \cup T
    <3> SUFFICES ASSUME NEW o \in Off(d) + 1 .. Off(j), ~InRoom(o), o \notin Clear(d, j - 1)
                 PROVE  o \in T
      BY DEF Clear
    <3>1. o \notin Off(d) + 1 .. Off(j - 1)
      BY DEF Clear
    <3>2. Off(j - 1) < o /\ o \in Nat
      BY <2>2, <3>1
    <3>3. ~(o <= b)
      BY <2>1, <3>2 DEF InRoom, Off
    <3> QED BY <2>2, <3>2, <3>3
  <2>5. IsFiniteSet(T) /\ Cardinality(T) = Off(j) - b
    <3> DEFINE from == b + 1
               to   == Off(j)
    <3>1. from \in Int /\ to \in Int
      BY <2>2
    <3> HIDE DEF from, to
    <3>2. IsFiniteSet(from .. to) /\ Cardinality(from .. to) = IF from > to THEN 0 ELSE to - from + 1
      BY <3>1, FS_Interval
    <3>3. (IF from > to THEN 0 ELSE to - from + 1) = Off(j) - b
      BY <2>2 DEF from, to
    <3> QED BY <3>2, <3>3 DEF from, to
  <2>6. IsFiniteSet(Clear(d, j - 1)) /\ IsFiniteSet(Clear(d, j))
    BY <2>2, ClearIsFinite
  <2> HIDE DEF T
  <2>7. /\ Cardinality(Clear(d, j)) <= Cardinality(Clear(d, j - 1) \cup T)
        /\ Cardinality(Clear(d, j - 1) \cup T) <= Cardinality(Clear(d, j - 1)) + Cardinality(T)
        /\ Cardinality(Clear(d, j)) \in Nat /\ Cardinality(Clear(d, j - 1) \cup T) \in Nat
        /\ Cardinality(Clear(d, j - 1)) \in Nat /\ Cardinality(T) \in Nat
    BY <2>4, <2>5, <2>6, UnionBounds
  <2>8. Cardinality(Clear(d, j - 1)) <= (Off(j - 1) - now[j - 1]) - (Off(d) - now[d])
    BY <1>3
  <2> HIDE DEF b, Fits
  <2>9. Cardinality(Clear(d, j)) <= (Off(j) - now[j]) - (Off(d) - now[d])
    BY <2>2, <2>3, <2>5, <2>7, <2>8
  <2> QED BY <2>9 DEF Fits
<1> HIDE DEF Fits
<1>4. S = {}
  <2> SUFFICES ASSUME S # {} PROVE FALSE
    OBVIOUS
  <2>1. S \subseteq Nat
    BY <1>1
  <2>2. PICK m \in S : \A j \in 0 .. m - 1 : j \notin S
    <3> HIDE DEF S
    <3> QED BY <2>1, Least
  <2>3. m \in d .. k /\ ~Fits(m) /\ m # d
    BY <1>2, <2>2
  <2>4. m - 1 \in d .. k /\ m - 1 \in 0 .. m - 1 /\ m \in Uses /\ d < m
    BY <1>1, <2>3
  <2>5. Fits(m - 1)
    BY <2>2, <2>4
  <2> QED BY <1>3, <2>3, <2>4, <2>5
<1>5. k \in d .. k
  BY <1>1
<1> QED BY <1>4, <1>5 DEF Fits

\* So a jump that goes back over enough of it has not been shortened.
LEMMA FarStaysLong ==
  ASSUME IInv, pc = "emit", NEW k \in Uses, StaysFar(k)
  PROVE  k \notin short
<1> SUFFICES ASSUME k \in short PROVE FALSE
  OBVIOUS
<1>1. PICK d \in Uses : /\ d < k /\ IsDef(d) /\ uses[d].label = uses[k].label
                        /\ Cardinality(Clear(d, k)) >= ShortMax
  BY DEF StaysFar
<1>2. /\ Off(d) \in Nat /\ Off(k) \in Nat /\ now[d] \in Nat /\ now[k] \in Nat /\ d <= k
      /\ ShortMax \in Nat
  <2>1. N \in Nat /\ Uses = 1 .. N /\ Off(d) \in Nat /\ Off(k) \in Nat
    BY Basics DEF IInv
  <2>2. \A j \in Uses : now[j] \in Nat
    BY <2>1 DEF IInv, TypeOK, N
  <2> QED BY <1>1, <2>1, <2>2, DisplacementAssumption
<1>3. Cardinality(Clear(d, k)) \in Nat
  BY <1>2, ClearIsFinite, FS_CardinalityType
<1>4. Cardinality(Clear(d, k)) <= (Off(k) - now[k]) - (Off(d) - now[d])
  BY <1>2, ClearFits
<1>5. FitsShort((Off(d) - now[d]) - (Off(k) - now[k] + 2))
  BY <1>1 DEF IInv, Settled
<1> QED BY <1>1, <1>2, <1>3, <1>4, <1>5 DEF FitsShort

\* Branches are the assembler's business in the next-state relation alone.
LEMMA BranchesLaid == BranchSpec => [](IInv /\ Laid /\ BranchInv)
<1>1. BranchInit => IInv /\ Laid /\ BranchInv
  BY InitInv, LaidInit, BranchInitInv DEF BranchInit
<1>2. IInv /\ Laid /\ BranchInv /\ [BranchNext]_branchVars => (IInv /\ Laid /\ BranchInv)'
  <2>1. [BranchNext]_branchVars => [Next]_vars
    BY DEF BranchNext, BranchTarget, branchVars
  <2> QED BY <2>1, NextInv, LaidNext, BranchNextInv
<1> QED BY <1>1, <1>2, PTL DEF BranchSpec

\* The short branches inside the generated code, which no relocation lists, are
\* as long after the code has been moved as when they were written: on the way
\* is no jump that could be shortened, since the one that lies there goes back
\* over more code than a short jump reaches (native-compiler.c:68-90).
THEOREM BranchesArrive == BranchSpec => []BranchesReach
<1>1. IInv /\ Laid /\ BranchInv => BranchesReach
  <2> SUFFICES ASSUME IInv, Laid, BranchInv, pc = "emit", NEW b \in branches
               PROVE  Image(b[2]) - Image(b[1]) = b[2] - b[1]
    BY DEF BranchesReach
  <2>1. /\ b[1] \in Nat /\ b[2] \in Nat /\ b[1] <= b[2]
        /\ \A k \in Uses : /\ b[1] <= Off(k) \/ Begin(k) <= b[1]
                           /\ b[2] <= Off(k) \/ Begin(k) <= b[2]
        /\ \A k \in Jumping : b[1] <= Off(k) /\ Off(k) < b[2] => StaysFar(k)
    BY DEF BranchInv, Spans
  <2>2. PICK k \in 0 .. N : /\ Image(b[1]) = b[1] - now[k + 1]
                            /\ \A j \in Uses : Begin(j) <= b[1] <=> j <= k
    BY <2>1, ImageIs
  <2>3. PICK l \in 0 .. N : /\ Image(b[2]) = b[2] - now[l + 1]
                            /\ \A j \in Uses : Begin(j) <= b[2] <=> j <= l
    BY <2>1, ImageIs
  <2>4. /\ N \in Nat /\ Uses = 1 .. N
        /\ \A j \in Uses : Off(j) \in Nat /\ Begin(j) \in Nat /\ Off(j) <= Begin(j)
        /\ \A j \in 1 .. N + 1 : now[j] \in Nat
    BY Basics, UseEnds DEF IInv, TypeOK, N
  <2>5. k <= l
    <3> SUFFICES ASSUME ~(k <= l) PROVE FALSE
      OBVIOUS
    <3>1. k \in Uses /\ k <= k
      BY <2>4
    <3>2. Begin(k) <= b[1] /\ ~(Begin(k) <= b[2])
      BY <2>2, <2>3, <3>1
    <3> QED BY <2>1, <2>4, <3>1, <3>2
  <2>6. ASSUME NEW j \in Uses, k < j, j <= l
        PROVE  GainOf(j) = 0
    <3>1. ~(Begin(j) <= b[1]) /\ Begin(j) <= b[2]
      BY <2>2, <2>3, <2>4, <2>6
    <3>2. b[1] <= Off(j)
      BY <2>1, <3>1
    <3>3. CASE uses[j].type \in Jumps
      <4>1. Begin(j) = Off(j) + Reserved(uses[j].type) /\ Reserved(uses[j].type) \in Nat
        BY Lengths, Rooms, Basics DEF IInv
      <4>2. Reserved(uses[j].type) > 0
        BY <3>3 DEF Jumps, Reserved
      <4>3. Off(j) < b[2]
        BY <2>1, <2>4, <3>1, <4>1, <4>2
      <4>4. StaysFar(j)
        BY <2>1, <3>2, <3>3, <4>3 DEF Jumping
      <4> QED BY <4>4, FarStaysLong DEF GainOf
    <3>4. CASE uses[j].type \notin Jumps
      BY <3>4 DEF GainOf, IInv, TypeOK
    <3> QED BY <3>3, <3>4
  <2>7. now[k + 1] = now[l + 1] /\ now[k + 1] \in Nat
    BY <2>4, <2>5, <2>6, SameGain
  <2> QED BY <2>1, <2>2, <2>3, <2>7
<1> QED BY <1>1, BranchesLaid, PTL

=============================================================================
