---------------------------- MODULE X64Encoding -----------------------------
(***************************************************************************)
(* Instructions as bytes (x64-encoding.c, and the functions that            *)
(* x64/generate-assembler makes of x64/instruction.erb.c for each entry of  *)
(* x64/instructions.yml), and a decoder after the processor's manual.       *)
(*                                                                         *)
(* Registers are their numbers.  An instruction is the entry's encoding of  *)
(* operands with values for them.                                          *)
(***************************************************************************)
EXTENDS Integers, Sequences

CONSTANTS
  Instructions,        \* entries: [opcode, rex_w, extension, encoding]
  Registers,           \* a bound: those that are used as operands
  Memories,            \* a bound: memory_t
  Immediates           \* a bound: their values

ASSUME OperandsAssumption ==
  /\ Registers \subseteq 0 .. 15
  /\ \A m \in Memories :
       /\ m.base \in 0 .. 15 /\ m.index \in 0 .. 15 /\ m.scale \in 0 .. 3
       /\ m.has_index => m.index # 4                   \* assert(rm.index != RSP)
       /\ ~ m.has_index => m.index = 0 /\ m.scale = 0  \* M_INDIRECT_REG_DISP
       /\ m.base = 12 => m.has_index                   \* not to be encoded

VARIABLES
  code,                \* bytes in the reserved space; none before and after
  reserved,            \* what has been reserved for the last instruction
  last                 \* that instruction: entry and operands

vars == <<code, reserved, last>>

RSP == 4
RBP == 5
R13 == 13
None == -1

REX(w, r, x, b)        == 64 + 8 * w + 4 * r + 2 * x + b
MOD_REG_RM(mod, r, rm) == 64 * mod + 8 * r + rm
SIB(scale, index, base) == 64 * scale + 8 * index + base

High(register) == register \div 8     \* register >> 3u
Low(register)  == register % 8        \* register & 7u

\* copy_displacement, serialize_operand_le: division rounds down, which is two's
\* complement.
Bytes(value, n) ==
  LET shifted[k \in 0 .. n] == IF k = 0 THEN value ELSE shifted[k - 1] \div 256
  IN [k \in 1 .. n |-> shifted[k - 1] % 256]

RexUnlessZero(w, r, x, b) ==
  IF w = 1 \/ r = 1 \/ x = 1 \/ b = 1 THEN <<REX(w, r, x, b)>> ELSE <<>>

-----------------------------------------------------------------------------
(* encode_rex_m, encode_mod_reg_rm_m and those for registers               *)

EncodeRexR(w, r, rm) == RexUnlessZero(w, r, 0, High(rm))

EncodeModRegRmR(reg_or_extension, rm) == <<MOD_REG_RM(3, Low(reg_or_extension), Low(rm))>>

EncodeRexM(w, r, rm) ==
  RexUnlessZero(w, r, IF rm.has_index THEN High(rm.index) ELSE 0,
                IF rm.rip_relative THEN 0 ELSE High(rm.base))

\* Mutant of DisplacementSize: R13 is not the exception that RBP is.
DisplacementSizeOfR13(rm) ==
  CASE rm.rip_relative -> 4
    [] ~ rm.rip_relative /\ rm.displacement = 0 /\ rm.base # RBP -> 0
    [] OTHER -> IF rm.displacement \in -128 .. 127 THEN 1 ELSE 4

\* Without a displacement, the bytes of [rbp] and [r13] mean something else.
DisplacementSize(rm) ==
  CASE rm.rip_relative -> 4
    [] ~ rm.rip_relative /\ rm.displacement = 0 /\ rm.base \notin {RBP, R13} -> 0
    [] OTHER -> IF rm.displacement \in -128 .. 127 THEN 1 ELSE 4

Mod(rm) ==
  IF rm.rip_relative THEN 0
  ELSE CASE DisplacementSize(rm) = 0 -> 0
         [] DisplacementSize(rm) = 1 -> 1
         [] DisplacementSize(rm) = 4 -> 2

NeedsSIB(rm) == rm.has_index \/ rm.base = RSP

EncodeModRegRmM(reg_or_extension, rm) ==
  LET r == Low(reg_or_extension)
      displacement == Bytes(rm.displacement, DisplacementSize(rm))
  IN IF rm.rip_relative THEN <<MOD_REG_RM(0, r, RBP)>> \o displacement
     ELSE IF NeedsSIB(rm)
     THEN <<MOD_REG_RM(Mod(rm), r, 4),
            SIB(rm.scale, IF rm.has_index THEN Low(rm.index) ELSE RSP, Low(rm.base))>>
          \o displacement
     ELSE <<MOD_REG_RM(Mod(rm), r, Low(rm.base))>> \o displacement

-----------------------------------------------------------------------------
(* generate-assembler                                                      *)

Has(entry, operand) == \E k \in DOMAIN entry.encoding : entry.encoding[k] = operand

ImmediateSize(entry) ==
  CASE Has(entry, "i8")  \/ Has(entry, "u8")  -> 1
    [] Has(entry, "i32") \/ Has(entry, "u32") -> 4
    [] OTHER -> 0

\* mov64_reg_u64, push64_reg and pop64_reg are given as special.
IsSpecial(entry) == entry.encoding \in {<<"reg">>, <<"reg", "u64">>}

MaxSize(entry) ==
  IF IsSpecial(entry) THEN IF Has(entry, "u64") THEN 10 ELSE 2
  ELSE 1 + Len(entry.opcode)
         + (IF Has(entry, "reg") \/ Has(entry, "rm_mem") \/ Has(entry, "rm_reg")
               \/ entry.extension # None THEN 1 ELSE 0)
         + (IF Has(entry, "rm_mem") THEN 5 ELSE 0)
         + ImmediateSize(entry)

RegOrExtension(entry, operands) ==
  IF Has(entry, "reg") THEN operands.reg
  ELSE IF entry.extension # None THEN entry.extension ELSE 0

\* Those with an operand in the opcode's low bits.
EncodeSpecial(entry, operands) ==
  LET opcode == <<entry.opcode[1] + Low(operands.reg)>>
  IN IF Has(entry, "u64")
     THEN <<REX(1, 0, 0, High(operands.reg))>> \o opcode \o Bytes(operands.immediate, 8)
     ELSE (IF High(operands.reg) = 1 THEN <<REX(0, 0, 0, 1)>> ELSE <<>>) \o opcode

Encode(entry, operands) ==
  LET rex_w == IF entry.rex_w THEN 1 ELSE 0
      rex_r == IF Has(entry, "reg") THEN High(operands.reg) ELSE 0
      field == RegOrExtension(entry, operands)
  IN CASE IsSpecial(entry) -> EncodeSpecial(entry, operands)
       [] Has(entry, "rm_reg") ->
            EncodeRexR(rex_w, rex_r, operands.rm) \o entry.opcode
              \o EncodeModRegRmR(field, operands.rm)
              \o Bytes(operands.immediate, ImmediateSize(entry))
       [] Has(entry, "rm_mem") ->
            EncodeRexM(rex_w, rex_r, operands.mem) \o entry.opcode
              \o EncodeModRegRmM(field, operands.mem)
              \o Bytes(operands.immediate, ImmediateSize(entry))
       [] OTHER -> entry.opcode \o Bytes(operands.immediate, ImmediateSize(entry))

\* The values that an entry's operands can have; 0 and the first memory where
\* there is none.
NoMemory == [rip_relative |-> FALSE, base |-> 0, has_index |-> FALSE, scale |-> 0, index |-> 0,
             displacement |-> 0]

ImmediatesOf(entry) ==
  CASE Has(entry, "i8")  -> Immediates \cap (-128 .. 127)
    [] Has(entry, "u8")  -> Immediates \cap (0 .. 255)
    [] Has(entry, "i32") -> Immediates
    [] Has(entry, "u32") \/ Has(entry, "u64") -> {v \in Immediates : v >= 0}
    [] OTHER -> {0}

OperandsOf(entry) ==
  [reg : IF Has(entry, "reg") THEN Registers ELSE {0},
   rm  : IF Has(entry, "rm_reg") THEN Registers ELSE {0},
   mem : IF Has(entry, "rm_mem") THEN Memories ELSE {NoMemory},
   immediate : ImmediatesOf(entry)]

Init == code = <<>> /\ reserved = 0 /\ last = <<>>

\* One of the generated functions, up to resize_assembler...
Assemble ==
  /\ code = <<>>
  /\ \E entry \in Instructions : \E operands \in OperandsOf(entry) :
       /\ reserved' = MaxSize(entry)
       /\ code' = Encode(entry, operands)
       /\ last' = [entry |-> entry, operands |-> operands]

\* ... which makes them part of the program's code and takes the rest back.
Resize == code # <<>> /\ code' = <<>> /\ reserved' = 0 /\ last' = <<>>

Next == Assemble \/ Resize

Spec == Init /\ [][Next]_vars

-----------------------------------------------------------------------------
(* The processor's decoder                                                 *)

\* Bytes from one to another as a number, the last with its sign or without.
Unsigned(bs, from, to) ==
  LET number[k \in from .. to + 1] == IF k > to THEN 0 ELSE bs[k] + 256 * number[k + 1]
  IN number[from]

Signed(bs, from, to) ==
  IF to < from THEN 0
  ELSE LET top == IF bs[to] >= 128 THEN bs[to] - 256 ELSE bs[to]
           number[k \in from .. to] == IF k = to THEN top ELSE bs[k] + 256 * number[k + 1]
       IN number[from]

\* Prefix, and the fields of the byte behind the opcode.
Prefix(bs)  == IF bs[1] \in 64 .. 79 THEN bs[1] - 64 ELSE 0
OpcodeAt(bs) == IF bs[1] \in 64 .. 79 THEN 2 ELSE 1
RexR(bs) == (Prefix(bs) \div 4) % 2
RexX(bs) == (Prefix(bs) \div 2) % 2
RexB(bs) == Prefix(bs) % 2

\* The memory operand whose ModRM byte is at m, and where it ends.
DecodeMemory(bs, m) ==
  LET mod     == bs[m] \div 64
      rm      == bs[m] % 8
      sib     == rm = 4
      d       == IF sib THEN m + 2 ELSE m + 1
      rip     == mod = 0 /\ rm = 5
      base    == (IF sib THEN bs[m + 1] % 8 ELSE rm) + 8 * RexB(bs)
      index   == IF sib THEN ((bs[m + 1] \div 8) % 8) + 8 * RexX(bs) ELSE 4
      baseless == mod = 0 /\ sib /\ bs[m + 1] % 8 = 5
      n       == IF mod = 1 THEN 1 ELSE IF mod = 2 \/ rip \/ baseless THEN 4 ELSE 0
  IN [mem |-> [rip_relative |-> rip,
               base         |-> IF rip THEN 0 ELSE IF baseless THEN None ELSE base,
               has_index    |-> index # 4,
               scale        |-> IF index # 4 THEN bs[m + 1] \div 64 ELSE 0,
               index        |-> IF index # 4 THEN index ELSE 0,
               displacement |-> Signed(bs, d, d + n - 1)],
      next |-> d + n]

\* What the bytes say, read as an instruction of this entry.
Decode(entry, bs) ==
  LET m       == OpcodeAt(bs) + Len(entry.opcode)
      modrm   == Has(entry, "rm_reg") \/ Has(entry, "rm_mem")
      memory  == IF Has(entry, "rm_mem") THEN DecodeMemory(bs, m)
                 ELSE [mem |-> NoMemory, next |-> IF modrm THEN m + 1 ELSE m]
      field   == IF modrm THEN (bs[m] \div 8) % 8 ELSE 0
      size    == IF Has(entry, "u64") THEN 8 ELSE ImmediateSize(entry)
      end     == memory.next + size
  IN [opcode    |-> SubSeq(bs, OpcodeAt(bs), m - 1),
      rex_w     |-> Prefix(bs) >= 8,
      extension |-> IF entry.extension # None /\ modrm THEN field ELSE None,
      direct    |-> modrm => (bs[m] \div 64 = 3 <=> Has(entry, "rm_reg")),
      operands  |->
        [reg |-> IF IsSpecial(entry) THEN (bs[m - 1] % 8) + 8 * RexB(bs)
                 ELSE IF Has(entry, "reg") THEN field + 8 * RexR(bs) ELSE 0,
         rm  |-> IF Has(entry, "rm_reg") THEN (bs[m] % 8) + 8 * RexB(bs) ELSE 0,
         mem |-> memory.mem,
         immediate |->
           IF Has(entry, "i8") \/ Has(entry, "i32") THEN Signed(bs, memory.next, end - 1)
           ELSE Unsigned(bs, memory.next, end - 1)],
      end |-> end]

-----------------------------------------------------------------------------
(* Properties                                                              *)

\* Bytes of the next instruction, whatever they are: a decoder may run into them.
Following == [k \in 1 .. 8 |-> 0]

\* Whatever registers, memory and values an instruction is given, the processor
\* reads its bytes as that instruction, to the last byte: no combination falls
\* on one of the bit patterns that mean something else.  Nor is any longer than
\* the space that was reserved for it.
Decodes ==
  code # <<>> =>
    LET entry == last.entry
        opcode == IF IsSpecial(entry) THEN <<entry.opcode[1] + Low(last.operands.reg)>>
                  ELSE entry.opcode
    IN /\ Len(code) <= reserved
       /\ Decode(entry, code \o Following) =
            [opcode |-> opcode, rex_w |-> entry.rex_w,
             extension |-> IF Has(entry, "rm_reg") \/ Has(entry, "rm_mem")
                           THEN IF Has(entry, "reg") THEN None ELSE entry.extension ELSE None,
             direct |-> TRUE, operands |-> last.operands, end |-> Len(code) + 1]
=============================================================================
