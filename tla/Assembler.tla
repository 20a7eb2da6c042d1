----------------------------- MODULE Assembler ------------------------------
(***************************************************************************)
(* The assembler's labels (assembler.c): code is appended with jumps in    *)
(* their longest form and a list of the places that use or define labels;  *)
(* resolve_assembler_labels then shortens jumps pass by pass, moving labels *)
(* towards the beginning, until a pass changes nothing, and writes the     *)
(* jumps while closing the gaps in place.                                  *)
(*                                                                         *)
(* A byte of the other instructions is known by the offset where it was    *)
(* assembled.  Whether memory can be had is CodeMapping's matter; here     *)
(* resolution fails or not.                                                *)
(***************************************************************************)
EXTENDS Integers, Sequences, FiniteSets

CONSTANTS
  Labels,              \* label_t
  ShortMax,            \* 127: the largest displacement of 8 bits
  NearMax,             \* 2^31 - 1: the largest of 32 bits
  MaxUses,             \* a bound: entries of label_uses
  UseTypes,            \* a bound: the types of those that are no definitions
  Segments             \* a bound: lengths of code between two of them

ASSUME DisplacementAssumption == ShortMax \in Nat /\ NearMax \in Nat

ASSUME SegmentsAssumption ==
  Segments \subseteq Nat /\ MaxUses \in Nat /\ UseTypes \subseteq {"JCC", "JMP", "CALL", "LEA"}

VARIABLES
  pc,
  code,             \* as->code, of as->size bytes
  uses,             \* as->label_uses
  short,            \* the uses with is_short
  label_values, shrinkage, prev_shrinkage,
  i,                \* the use a loop is at
  out,              \* the write pointer of the second loop
  now, was          \* auxiliary: shrinkage at each use, in this pass and the last

relaxVars == <<label_values, shrinkage, prev_shrinkage, now, was>>
vars == <<pc, code, uses, short, relaxVars, i, out>>

Undefined == -1     \* SIZE_MAX
Jumps == {"JCC", "JMP"}
Types == Jumps \cup {"CALL", "LEA", "DEFINITION"}

\* The room that jmp_label and the others reserve, and the gain of shortening.
Reserved(type) ==
  CASE type = "JCC" -> 6 [] type = "JMP" -> 5
    [] type = "CALL" -> 5 [] type = "LEA" -> 7
    [] OTHER -> 0

Gain(type) == IF type = "JCC" THEN 4 ELSE 3

Cell(kind, value) == [kind |-> kind, value |-> value]
Size == Len(code)

LabelsIn(us)  == {us[k].label : k \in DOMAIN us}
DefinedIn(us) == {us[k].label : k \in {d \in DOMAIN us : us[d].type = "DEFINITION"}}
Complete(us)  == us # <<>> /\ LabelsIn(us) \subseteq DefinedIn(us)

\* A bound: what is used and not defined can be within MaxUses.
Definable(us) == Len(us) + Cardinality(LabelsIn(us) \ DefinedIn(us)) <= MaxUses

Init ==
  /\ pc = "assemble"
  /\ code = <<>> /\ uses = <<>> /\ short = {}
  /\ label_values = [l \in Labels |-> Undefined]
  /\ shrinkage = 0 /\ prev_shrinkage = 0
  /\ i = 1 /\ out = 0
  /\ now = [k \in {1} |-> 0] /\ was = [k \in {1} |-> 0]

-----------------------------------------------------------------------------
(* Assembling                                                              *)

LastEnd == IF uses = <<>> THEN 0
           ELSE LET u == uses[Len(uses)] IN u.offset + Reserved(u.type)

\* An instruction without a label, or several.
Encode ==
  /\ pc = "assemble" /\ Size = LastEnd
  /\ \E n \in Segments :
       code' = code \o [k \in 1 .. n |-> Cell("code", Size + k - 1)]
  /\ UNCHANGED <<pc, uses, short, relaxVars, i, out>>

\* define_label, jmp_label, jcc_label, call_label, lea64_reg_label.
PushLabelUse(type, label) ==
  /\ pc = "assemble"
  /\ uses' = Append(uses, [type |-> type, offset |-> Size, label |-> label])
  /\ Definable(uses')
  /\ code' = code \o [k \in 1 .. Reserved(type) |-> Cell("room", 0)]
  /\ UNCHANGED <<pc, short, relaxVars, i, out>>

\* compile_to_native defines a label once.
DefineLabel == \E l \in Labels \ DefinedIn(uses) : PushLabelUse("DEFINITION", l)
UseLabel    == \E t \in UseTypes, l \in Labels : PushLabelUse(t, l)

-----------------------------------------------------------------------------
(* resolve_assembler_labels: the passes                                    *)

\* The first values are the offsets before anything is shortened.
BeginPasses ==
  /\ pc = "assemble" /\ Complete(uses)
  /\ label_values' =
       [l \in Labels |-> IF l \in DefinedIn(uses)
                         THEN (CHOOSE u \in {uses[k] : k \in DOMAIN uses} :
                                 u.type = "DEFINITION" /\ u.label = l).offset
                         ELSE Undefined]
  /\ now' = [k \in 1 .. Len(uses) + 1 |-> 0] /\ was' = now'
  /\ pc' = "relax"
  /\ UNCHANGED <<code, uses, short, shrinkage, prev_shrinkage, i, out>>

\* The values of the labels cannot be allocated.
NoMemory ==
  /\ pc = "assemble" /\ Complete(uses)
  /\ pc' = "failed"
  /\ UNCHANGED <<code, uses, short, relaxVars, i, out>>

Passing == pc = "relax" /\ i <= Len(uses)
Use     == uses[i]

\* On to the next use, with the jumps in s short and so much gained so far.
GoOn(s, gained) ==
  /\ short' = s
  /\ shrinkage' = gained
  /\ now' = [now EXCEPT ![i + 1] = gained]
  /\ i' = i + 1
  /\ UNCHANGED <<pc, code, uses, prev_shrinkage, was, out>>

\* Mutant of PassDefinition: labels keep the values of the first loop.
PassDefinitionStale ==
  /\ Passing /\ Use.type = "DEFINITION"
  /\ GoOn(short, shrinkage)
  /\ UNCHANGED label_values

PassDefinition ==
  /\ Passing /\ Use.type = "DEFINITION"
  /\ label_values' = IF shrinkage # 0
                     THEN [label_values EXCEPT ![Use.label] = Use.offset - shrinkage]
                     ELSE label_values
  /\ GoOn(short, shrinkage)

PassOther ==
  /\ Passing /\ Use.type \in {"CALL", "LEA"}
  /\ GoOn(short, shrinkage)
  /\ UNCHANGED label_values

PassShort ==
  /\ Passing /\ i \in short
  /\ GoOn(short, shrinkage + Gain(Use.type))
  /\ UNCHANGED label_values

\* How far the jump would go in its short form; a label behind it would move
\* along.
Origin == Use.offset - shrinkage + 2

Target ==
  LET t == label_values[Use.label]
  IN IF t > Origin THEN t - Gain(Use.type) ELSE t

Representable(displacement) == displacement \in -NearMax - 1 .. NearMax
FitsShort(displacement)     == displacement \in -ShortMax - 1 .. ShortMax

PassJump ==
  /\ Passing /\ Use.type \in Jumps /\ i \notin short
  /\ Representable(Target - Origin)
  /\ IF FitsShort(Target - Origin)
     THEN GoOn(short \cup {i}, shrinkage + Gain(Use.type))
     ELSE GoOn(short, shrinkage)
  /\ UNCHANGED label_values

TooFar ==
  /\ Passing /\ Use.type \in Jumps /\ i \notin short
  /\ ~Representable(Target - Origin)
  /\ pc' = "failed"
  /\ UNCHANGED <<code, uses, short, relaxVars, i, out>>

PassEnds == pc = "relax" /\ i = Len(uses) + 1

\* Mutant of NextPass: what the last pass gained is not remembered.
NextPassForgets ==
  /\ PassEnds /\ shrinkage # prev_shrinkage
  /\ shrinkage' = 0
  /\ was' = now
  /\ i' = 1
  /\ UNCHANGED <<pc, code, uses, short, label_values, prev_shrinkage, now, out>>

NextPass ==
  /\ PassEnds /\ shrinkage # prev_shrinkage
  /\ prev_shrinkage' = shrinkage
  /\ shrinkage' = 0
  /\ was' = now
  /\ i' = 1
  /\ UNCHANGED <<pc, code, uses, short, label_values, now, out>>

\* Mutant of EndPasses: one pass is thought to be enough.
EndPassesAtOnce ==
  /\ PassEnds
  /\ pc' = "emit"
  /\ i' = 1
  /\ out' = uses[1].offset
  /\ UNCHANGED <<code, uses, short, relaxVars>>

\* Quit after the first pass that yielded no improvement.
EndPasses ==
  /\ PassEnds /\ shrinkage = prev_shrinkage
  /\ pc' = "emit"
  /\ i' = 1
  /\ out' = uses[1].offset
  /\ UNCHANGED <<code, uses, short, relaxVars>>

-----------------------------------------------------------------------------
(* resolve_assembler_labels: the code                                      *)

\* The length of the instruction that is written for a use.
Length(k) ==
  CASE uses[k].type = "JCC"    -> IF k \in short THEN 2 ELSE 6
    [] uses[k].type = "JMP"    -> IF k \in short THEN 2 ELSE 5
    [] uses[k].type = "CALL"   -> 5
    [] uses[k].type = "LEA"    -> 7
    [] OTHER -> 0

\* The code after a use, up to the next one.
Begin(k) == uses[k].offset + Reserved(uses[k].type)
End(k)   == IF k = Len(uses) THEN Size ELSE uses[k + 1].offset

\* The use at i with its displacement, in place.
Instruction(len, displacement) ==
  [p \in 1 .. len |-> IF p = 1 THEN Cell(Use.type, displacement) ELSE Cell("operand", 0)]

Overwrite(c, at, s) ==
  [p \in DOMAIN c |-> IF p - at \in DOMAIN s THEN s[p - at] ELSE c[p]]

\* Mutant of EmitUse: the segment is taken from where the short form ends.
EmitUseShortRoom ==
  /\ pc = "emit" /\ i <= Len(uses)
  /\ LET len     == Length(i)
         written == Overwrite(code, out, Instruction(len, label_values[Use.label] - (out + len)))
         segment == SubSeq(written, Use.offset + len + 1, End(i))
     IN /\ code' = Overwrite(written, out + len, segment)
        /\ out'  = out + len + Len(segment)
  /\ i' = i + 1
  /\ UNCHANGED <<pc, uses, short, relaxVars>>

\* The instruction, and the memmove of the segment behind it.
EmitUse ==
  /\ pc = "emit" /\ i <= Len(uses)
  /\ LET len     == Length(i)
         written == Overwrite(code, out, Instruction(len, label_values[Use.label] - (out + len)))
         segment == SubSeq(written, Begin(i) + 1, End(i))
     IN /\ code' = Overwrite(written, out + len, segment)
        /\ out'  = out + len + Len(segment)
  /\ i' = i + 1
  /\ UNCHANGED <<pc, uses, short, relaxVars>>

\* resize_assembler.
Truncate ==
  /\ pc = "emit" /\ i = Len(uses) + 1
  /\ code' = SubSeq(code, 1, out)
  /\ pc' = "done"
  /\ UNCHANGED <<uses, short, relaxVars, i, out>>

Assembling == Encode \/ DefineLabel \/ UseLabel
Resolving ==
  \/ PassDefinition \/ PassOther \/ PassShort \/ PassJump \/ TooFar \/ NextPass \/ EndPasses
  \/ EmitUse \/ Truncate

Next == Assembling \/ BeginPasses \/ NoMemory \/ Resolving

Spec == Init /\ [][Next]_vars

-----------------------------------------------------------------------------
(* Properties                                                              *)

Uses  == DOMAIN uses
Cells == [kind : {"code", "room", "operand"} \cup Types, value : Int]

\* The types of all variables.
TypeOK ==
  /\ pc \in {"assemble", "relax", "emit", "done", "failed"}
  /\ code \in Seq(Cells)
  /\ uses \in Seq([type : Types, offset : Nat, label : Labels])
  /\ short \subseteq {k \in Uses : uses[k].type \in Jumps}
  /\ label_values \in [Labels -> Nat \cup {Undefined}]
  /\ {shrinkage, prev_shrinkage, out} \subseteq Nat
  /\ i \in 1 .. Len(uses) + 1
  /\ pc \in {"relax", "emit", "done"} =>
       {now, was} \subseteq [1 .. Len(uses) + 1 -> Nat]

\* The assertions of the second loop: a jump that was made short, in some pass
\* and with the labels as estimated then, has a displacement of 8 bits where
\* everything ended up.
ShortFits ==
  pc = "emit" /\ i <= Len(uses) /\ i \in short =>
    FitsShort(label_values[Use.label] - (out + 2))

\* Gaps only close towards the beginning: what is written at the write pointer
\* ends before what is still to be read.
MovesLeft ==
  pc = "emit" /\ i <= Len(uses) =>
    /\ out + Length(i) <= Begin(i)
    /\ Begin(i) <= End(i)

\* What should come out: code and instructions one after the other.
Address(k) ==
  LET address[j \in 1 .. k] ==
        IF j = 1 THEN uses[1].offset
        ELSE address[j - 1] + Length(j - 1) + uses[j].offset - Begin(j - 1)
  IN address[k]

LabelAddress(l) ==
  Address(CHOOSE k \in Uses : uses[k].type = "DEFINITION" /\ uses[k].label = l)

\* The result, put together from its parts: all code that was assembled, in
\* order, and between it instructions that reach the code behind their labels.
Plain(from, to) == [p \in 1 .. to - from |-> Cell("code", from + p - 1)]

Encoded(k) ==
  [p \in 1 .. Length(k) |->
     IF p = 1 THEN Cell(uses[k].type, LabelAddress(uses[k].label) - Address(k) - Length(k))
     ELSE Cell("operand", 0)]

Layout ==
  LET layout[k \in 0 .. Len(uses)] ==
        IF k = 0 THEN Plain(0, uses[1].offset)
        ELSE layout[k - 1] \o Encoded(k) \o Plain(Begin(k), End(k))
  IN layout[Len(uses)]

\* Shortening and moving in place produce that result: a jump goes where it
\* went, whatever moved between it and its label.
EmitsLayout ==
  pc = "emit" /\ i = Len(uses) + 1 => SubSeq(code, 1, out) = Layout

\* The passes stop only where no long jump would fit the short form, were it
\* shortened alone.
NoneLeftLong ==
  pc = "emit" /\ i = 1 =>
    \A k \in Uses \ short :
      uses[k].type \in Jumps =>
        LET t == LabelAddress(uses[k].label)
            o == Address(k) + 2
        IN ~FitsShort(IF t > o THEN t - Gain(uses[k].type) - o ELSE t - o)

\* No pass is repeated that has shortened nothing: each but the last gains, so
\* that there are at most as many as there are jumps, and two.
EachPassGains ==
  [][PassEnds /\ pc' = "relax" => prev_shrinkage' > prev_shrinkage]_vars
=============================================================================
