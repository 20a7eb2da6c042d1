--------------------------- MODULE MCX64Encoding ----------------------------
(***************************************************************************)
(* One entry of x64/instructions.yml of each form, and operands around all  *)
(* that the encoding treats apart.                                         *)
(***************************************************************************)
EXTENDS X64Encoding

Entry(opcode, rex_w, extension, encoding) ==
  [opcode |-> opcode, rex_w |-> rex_w, extension |-> extension, encoding |-> encoding]

EachForm == {
  Entry(<<195>>, FALSE, None, <<>>),                          \* ret
  Entry(<<116>>, FALSE, None, <<"i8">>),                      \* je
  Entry(<<255>>, TRUE, 0, <<"rm_reg">>),                      \* inc64
  Entry(<<15, 148>>, FALSE, None, <<"rm_reg">>),              \* sete8
  Entry(<<49>>, FALSE, None, <<"rm_reg", "reg">>),            \* xor32
  Entry(<<15, 69>>, TRUE, None, <<"reg", "rm_reg">>),         \* cmovne64
  Entry(<<15, 186>>, TRUE, 5, <<"rm_reg", "u8">>),            \* bts64
  Entry(<<131>>, FALSE, 7, <<"rm_reg", "i8">>),               \* cmp32
  Entry(<<129>>, FALSE, 7, <<"rm_reg", "u32">>),              \* cmp32
  Entry(<<199>>, TRUE, 0, <<"rm_reg", "i32">>),               \* mov64
  Entry(<<255>>, FALSE, 6, <<"rm_mem">>),                     \* push64
  Entry(<<15, 182>>, FALSE, None, <<"reg", "rm_mem">>),       \* movzx328
  Entry(<<137>>, TRUE, None, <<"rm_mem", "reg">>),            \* mov64
  Entry(<<15, 186>>, FALSE, 5, <<"rm_mem", "u8">>),           \* bts32
  Entry(<<199>>, TRUE, 0, <<"rm_mem", "i32">>),               \* mov64
  Entry(<<80>>, FALSE, None, <<"reg">>),                      \* push64
  Entry(<<184>>, TRUE, None, <<"reg", "u64">>) }              \* mov64

SomeRegisters == {0, 4, 5, 7, 8, 13, 15}

Displacements == {0, 1, -128, -129, 127, 128, 2147483647, -2147483647 - 1}

SomeMemories ==
  [rip_relative : {FALSE}, base : {0, 4, 5, 8, 13, 15}, has_index : {FALSE}, scale : {0},
   index : {0}, displacement : Displacements]
  \cup
  [rip_relative : {FALSE}, base : {0, 4, 5, 12, 13, 15}, has_index : {TRUE}, scale : {0, 3},
   index : {0, 5, 8, 12, 13}, displacement : Displacements]
  \cup
  [rip_relative : {TRUE}, base : {0}, has_index : {FALSE}, scale : {0}, index : {0},
   displacement : Displacements]

SomeImmediates == Displacements \cup {255}
=============================================================================
