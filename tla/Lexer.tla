------------------------------- MODULE Lexer -------------------------------
(***************************************************************************)
(* lex of lexer.c, called until the pattern ends or a call fails, as parse *)
(* calls it.  A character class is read one item at a time, as the loop of *)
(* lex_char_class reads it.                                                *)
(*                                                                         *)
(* A character of the pattern is a string of length one and Code gives its *)
(* byte; a class is a set of bytes.  Positions are counted from 1.  What   *)
(* an access behind the table of class names does is not known: it may     *)
(* find nothing, find something, or end in "undefined".                    *)
(***************************************************************************)
EXTENDS Integers, Sequences, FiniteSets

CONSTANTS
  Patterns,   \* the patterns lexed, sequences of characters
  Code,       \* the byte that a character is
  Garbage,    \* the bytes that a token never written to may hold
  SizeMax     \* SIZE_MAX

Byte == 0 .. 255

ASSUME LexerAssumption ==
  /\ DOMAIN Code = {c \in DOMAIN Code : Code[c] \in Byte}
  /\ \A c, d \in DOMAIN Code : Code[c] = Code[d] => c = d
  /\ {"-", ":", "[", "{", "0", "a", "A"} \subseteq DOMAIN Code
  /\ \A p \in Patterns : p \in Seq(DOMAIN Code)
  /\ Garbage \subseteq Byte /\ Garbage # {}
  /\ SizeMax \in Nat /\ SizeMax >= 10

VARIABLES
  pattern,          \* what is lexed
  pos,              \* *pattern
  pc,               \* where lex is
  tokens,           \* the tokens delivered, each with the text it was read from
  classes,          \* char_classes_t
  capacity,
  begin,            \* the [ of the class being read
  bitmap, inverted, prev_character, is_range,   \* locals of lex_char_class
  status            \* what lex returned

class == <<begin, bitmap, inverted, prev_character, is_range>>
vars  == <<pattern, pos, pc, tokens, classes, capacity, class, status>>

REPETITION_INFINITY == SizeMax

eof == Len(pattern) + 1

\* Is c the character at p?
At(p, c) == p < eof /\ pattern[p] = c

-----------------------------------------------------------------------------
(* Builtin classes                                                         *)

Digits == 48 .. 57
Upper  == 65 .. 90
Lower  == 97 .. 122
Space  == {32} \cup 9 .. 13
Word   == Digits \cup Upper \cup Lower \cup {95}

N_BUILTIN_CLASSES       == 18
N_NAMED_BUILTIN_CLASSES == 14

builtin_classes ==
  [i \in 0 .. N_BUILTIN_CLASSES - 1 |->
     << Digits \cup Upper \cup Lower, Upper \cup Lower, 0 .. 127, {9, 32},
        (0 .. 31) \cup {127}, Digits, 33 .. 126, Lower, 32 .. 126,
        (33 .. 126) \ (Digits \cup Upper \cup Lower), Space, Upper, Word,
        Digits \cup 65 .. 70 \cup 97 .. 102,
        Byte \ Digits, Byte \ Space, Byte \ Word, Byte \ {10} >>[i + 1]]

builtin_class_names ==
  [i \in 0 .. N_NAMED_BUILTIN_CLASSES - 1 |->
     << <<"a", "l", "n", "u", "m">>, <<"a", "l", "p", "h", "a">>,
        <<"a", "s", "c", "i", "i">>, <<"b", "l", "a", "n", "k">>,
        <<"c", "n", "t", "r", "l">>, <<"d", "i", "g", "i", "t">>,
        <<"g", "r", "a", "p", "h">>, <<"l", "o", "w", "e", "r">>,
        <<"p", "r", "i", "n", "t">>, <<"p", "u", "n", "c", "t">>,
        <<"s", "p", "a", "c", "e">>, <<"u", "p", "p", "e", "r">>,
        <<"w", "o", "r", "d">>, <<"x", "d", "i", "g", "i", "t">> >>[i + 1]]

BCC_DIGIT      == 5
BCC_WHITESPACE == 10
BCC_WORD       == 12
BCC_ANY        == 17

-----------------------------------------------------------------------------
(* Tokens                                                                  *)

Char(b)    == [type |-> "CHARACTER", character |-> b]
Builtin(i) == [type |-> "BUILTIN_CHAR_CLASS", index |-> i]
Anchor(a)  == [type |-> "ANCHOR", anchor |-> a]

\* Characters that are a token by themselves, whatever follows.
Single == [c \in {"^", "$", "|", ")", "."} |->
             CASE c = "^" -> Anchor("BOL")
               [] c = "$" -> Anchor("EOL")
               [] c = "|" -> [type |-> "PIPE"]
               [] c = ")" -> [type |-> "CLOSE_PAREN"]
               [] c = "." -> Builtin(BCC_ANY)]

\* Characters that are a token only after a look at what follows.
Openers == {"*", "+", "?", "(", "[", "{", "\\"}

IsDigit(c) == Code[c] \in Digits
IsHex(c)   == Code[c] \in builtin_classes[13]

\* The first position from p on that is the end or whose byte is no more in S.
EndOf(p, S) ==
  CHOOSE e \in p .. eof :
    /\ \A i \in p .. e - 1 : Code[pattern[i]] \in S
    /\ e # eof => Code[pattern[e]] \notin S

\* Mutant of str_to_size: it wraps around at its width.
StrToSizeWraps(from, end) ==
  LET value[i \in from .. end] ==
        IF i = from THEN 0
        ELSE (10 * value[i - 1] + Code[pattern[i - 1]] - Code["0"]) % (SizeMax + 1)
  IN value[end]

\* Once the result is SizeMax it stays, as if the loop had returned it.
str_to_size(from, end) ==
  LET value[i \in from .. end] ==
        IF i = from THEN 0
        ELSE LET digit == Code[pattern[i - 1]] - Code["0"]
             IN IF value[i - 1] > (SizeMax - digit) \div 10 THEN SizeMax
                ELSE 10 * value[i - 1] + digit
  IN value[end]

-----------------------------------------------------------------------------
(* What every action does with its result                                  *)

\* lex returns CREX_OK, having read up to next.
Deliver(token, from, next) ==
  /\ tokens' = Append(tokens, [token |-> token, text |-> SubSeq(pattern, from, next - 1)])
  /\ pos' = next
  /\ pc' = "token"
  /\ UNCHANGED status

\* lex returns an error; its caller looks at nothing else.
Fail(code) ==
  /\ pc' = "failed" /\ status' = code
  /\ UNCHANGED <<pos, tokens>>

Keep == UNCHANGED <<pattern, classes, capacity, class>>

Init ==
  /\ pattern \in Patterns
  /\ pos = 1 /\ pc = "token" /\ tokens = <<>> /\ status = "OK"
  /\ classes = <<>> /\ capacity = 0
  /\ begin = 0 /\ bitmap = {} /\ inverted = FALSE
  /\ prev_character = -1 /\ is_range = FALSE

-----------------------------------------------------------------------------
(* lex                                                                     *)

LexSingle ==
  /\ pc = "token" /\ pos < eof /\ pattern[pos] \in DOMAIN Single
  /\ Deliver(Single[pattern[pos]], pos, pos + 1)
  /\ Keep

LexLiteral ==
  /\ pc = "token" /\ pos < eof
  /\ pattern[pos] \notin DOMAIN Single \cup Openers
  /\ Deliver(Char(Code[pattern[pos]]), pos, pos + 1)
  /\ Keep

\* A repetition that ends before p, unless a question mark makes it lazy.
DeliverRepetition(lower, upper, p) ==
  LET lazy == At(p, "?")
  IN Deliver([type |-> IF lazy THEN "LAZY_REPETITION" ELSE "GREEDY_REPETITION",
              lower |-> lower, upper |-> upper],
             pos, IF lazy THEN p + 1 ELSE p)

LexQuantifier ==
  /\ pc = "token" /\ pos < eof /\ pattern[pos] \in {"*", "+", "?"}
  /\ DeliverRepetition(IF pattern[pos] = "+" THEN 1 ELSE 0,
                       IF pattern[pos] = "?" THEN 1 ELSE REPETITION_INFINITY,
                       pos + 1)
  /\ Keep

LexOpenParen ==
  /\ pc = "token" /\ At(pos, "(")
  /\ IF At(pos + 1, "?") /\ At(pos + 2, ":")
     THEN Deliver([type |-> "NON_CAPTURING_OPEN_PAREN"], pos, pos + 3)
     ELSE Deliver([type |-> "OPEN_PAREN"], pos, pos + 1)
  /\ Keep

lb_end == EndOf(pos + 1, Digits)
ub_end == EndOf(lb_end + 1, Digits)

\* Do the braces at pos hold bounds?  If not, { is an ordinary character.
HasBounds ==
  /\ lb_end # pos + 1
  /\ At(lb_end, "}") \/ (At(lb_end, ",") /\ At(ub_end, "}"))

LexOpenBrace ==
  /\ pc = "token" /\ At(pos, "{") /\ ~HasBounds
  /\ Deliver(Char(Code["{"]), pos, pos + 1)
  /\ Keep

LexBounds ==
  /\ pc = "token" /\ At(pos, "{") /\ HasBounds
  /\ LET exact == At(lb_end, "}")
         open  == ~exact /\ ub_end = lb_end + 1
         lower == str_to_size(pos + 1, lb_end)
         upper == IF exact THEN lower
                  ELSE IF open THEN REPETITION_INFINITY
                  ELSE str_to_size(lb_end + 1, ub_end)
     IN IF \/ lower = REPETITION_INFINITY
           \/ ~open /\ upper = REPETITION_INFINITY
           \/ lower > upper
        THEN Fail("E_BAD_REPETITION")
        ELSE DeliverRepetition(lower, upper, IF exact THEN lb_end + 1 ELSE ub_end + 1)
  /\ Keep

-----------------------------------------------------------------------------
(* lex_escape_code                                                         *)

Punctuation == {".", "|", "*", "+", "?", "(", ")", "[", "]", "{", "}", "^", "$", "\\"}
Controls    == [c \in {"a", "f", "n", "r", "t", "v"} |->
                  CASE c = "a" -> 7 [] c = "f" -> 12 [] c = "n" -> 10
                    [] c = "r" -> 13 [] c = "t" -> 9 [] c = "v" -> 11]
Anchors     == [c \in {"A", "z", "b", "B"} |->
                  CASE c = "A" -> "BOF" [] c = "z" -> "EOF"
                    [] c = "b" -> "WORD_BOUNDARY" [] c = "B" -> "NOT_WORD_BOUNDARY"]
ClassOf     == [c \in {"d", "D", "s", "S", "w", "W"} |->
                  CASE c = "d" -> BCC_DIGIT [] c = "D" -> 14
                    [] c = "s" -> BCC_WHITESPACE [] c = "S" -> 15
                    [] c = "w" -> BCC_WORD [] c = "W" -> 16]

Hex(c) == IF IsDigit(c) THEN Code[c] - Code["0"]
          ELSE IF Code[c] \in Lower THEN Code[c] - Code["a"] + 10
          ELSE Code[c] - Code["A"] + 10

\* \x, its digits expected at p.  A digit that is missing makes the function
\* return CREX_E_BAD_ESCAPE, which its callers take for success, with a token
\* whose character was never written.
HexEscape(p) ==
  IF p + 1 < eof /\ IsHex(pattern[p]) /\ IsHex(pattern[p + 1])
  THEN {[token |-> Char(16 * Hex(pattern[p]) + Hex(pattern[p + 1])), next |-> p + 2]}
  ELSE LET next == IF p = eof THEN p
                   ELSE IF ~IsHex(pattern[p]) \/ p + 1 = eof THEN p + 1
                   ELSE p + 2
       IN {[token |-> Char(b), next |-> next] : b \in Garbage}

\* The tokens an escape may be read as, its letter at p: none if it is bad.
lex_escape_code(p) ==
  IF p = eof THEN {}
  ELSE LET c == pattern[p]
           one(t) == {[token |-> t, next |-> p + 1]}
       IN IF c = "x" THEN HexEscape(p + 1)
          ELSE IF c \in Punctuation      THEN one(Char(Code[c]))
          ELSE IF c \in DOMAIN Controls  THEN one(Char(Controls[c]))
          ELSE IF c \in DOMAIN Anchors   THEN one(Anchor(Anchors[c]))
          ELSE IF c \in DOMAIN ClassOf   THEN one(Builtin(ClassOf[c]))
          ELSE {}

LexEscape ==
  /\ pc = "token" /\ At(pos, "\\")
  /\ \/ \E e \in lex_escape_code(pos + 1) : Deliver(e.token, pos, e.next)
     \/ lex_escape_code(pos + 1) = {} /\ Fail("E_BAD_ESCAPE")
  /\ Keep

-----------------------------------------------------------------------------
(* lex_char_class                                                          *)

TableFull == Len(classes) = capacity

\* Make room for one more class and look for an inversion.
BeginClass ==
  /\ pc = "token" /\ At(pos, "[")
  /\ \/ /\ capacity' = IF TableFull THEN 2 * capacity + 1 ELSE capacity
        /\ begin' = pos /\ bitmap' = {} /\ prev_character' = -1 /\ is_range' = FALSE
        /\ inverted' = At(pos + 1, "^")
        /\ IF pos + 1 = eof THEN Fail("E_BAD_CHARACTER_CLASS")
           ELSE /\ pos' = IF inverted' THEN pos + 2 ELSE pos + 1
                /\ pc' = "class" /\ UNCHANGED <<status, tokens>>
     \/ /\ TableFull /\ Fail("E_NOMEM")
        /\ UNCHANGED <<capacity, class>>
  /\ UNCHANGED <<pattern, classes>>

KeepClasses == UNCHANGED <<pattern, classes, capacity, begin, inverted>>

ClassFails(code) ==
  /\ Fail(code)
  /\ UNCHANGED <<bitmap, prev_character, is_range>>

\* PUSH_CHAR: a byte by itself, which may start a range, or the end of one.
PushChar(b, next) ==
  IF is_range /\ b < prev_character THEN ClassFails("E_BAD_CHARACTER_CLASS")
  ELSE /\ bitmap' = bitmap \cup (IF is_range THEN prev_character + 1 .. b ELSE {b})
       /\ prev_character' = IF is_range THEN -1 ELSE b
       /\ is_range' = FALSE
       /\ pos' = next
       /\ UNCHANGED <<pc, tokens, status>>

\* Mutant of PushClass: the pattern is not moved behind the name.
PushClassStays(i, next) ==
  /\ bitmap' = bitmap \cup builtin_classes[i]
  /\ prev_character' = -1
  /\ UNCHANGED <<pos, is_range, pc, tokens, status>>

\* A builtin class, which neither starts nor ends a range.
PushClass(i, next) ==
  /\ bitmap' = bitmap \cup builtin_classes[i]
  /\ prev_character' = -1
  /\ pos' = next
  /\ UNCHANGED <<is_range, pc, tokens, status>>

InClass == pc = "class" /\ pos < eof

Unclosed ==
  /\ pc = "class" /\ pos = eof
  /\ ClassFails("E_BAD_CHARACTER_CLASS")
  /\ KeepClasses

\* Where the letters and colons behind the [ at pos end.
name_end == EndOf(pos + 1, Upper \cup Lower \cup {Code[":"]})

\* Does the [ at pos begin a class name?  One colon may be the first and last.
IsName ==
  /\ At(pos, "[") /\ At(pos + 1, ":")
  /\ pattern[name_end - 1] = ":" /\ At(name_end, "]")

ClassCharacter ==
  /\ InClass /\ pattern[pos] \notin {"]", "\\", "-"} /\ ~IsName
  /\ PushChar(Code[pattern[pos]], pos + 1)
  /\ KeepClasses

\* A hyphen is a character unless something before it starts a range.
ClassHyphen ==
  /\ InClass /\ At(pos, "-")
  /\ IF is_range \/ prev_character = -1 THEN PushChar(Code["-"], pos + 1)
     ELSE /\ is_range' = TRUE /\ pos' = pos + 1
          /\ UNCHANGED <<bitmap, prev_character, pc, tokens, status>>
  /\ KeepClasses

\* The indices of the name at pos: one, or none.
Named == {i \in DOMAIN builtin_class_names :
            builtin_class_names[i] = SubSeq(pattern, pos + 2, name_end - 2)}

\* Mutant of ClassName: a name is accepted as the end of a range.
ClassNameInRange ==
  /\ InClass /\ IsName
  /\ \/ \E i \in Named : PushClass(i, name_end + 1)
     \/ Named = {} /\ ClassFails("E_BAD_CHARACTER_CLASS")
  /\ KeepClasses

ClassName ==
  /\ InClass /\ IsName
  /\ IF is_range THEN ClassFails("E_BAD_CHARACTER_CLASS")
     ELSE \E i \in Named : PushClass(i, name_end + 1)
  /\ KeepClasses

\* The search for a name goes on behind the table, up to N_BUILTIN_CLASSES.
\* What is there may look like an entry, or like none, and the compiler may
\* make anything of the loop.
ClassNameUnknown ==
  /\ InClass /\ IsName /\ ~is_range /\ Named = {}
  /\ \/ \E i \in N_NAMED_BUILTIN_CLASSES .. N_BUILTIN_CLASSES - 1 :
          PushClass(i, name_end + 1)
     \/ ClassFails("E_BAD_CHARACTER_CLASS")
     \/ /\ pc' = "undefined"
        /\ UNCHANGED <<pos, tokens, status, bitmap, prev_character, is_range>>
  /\ KeepClasses

ClassEscape ==
  /\ InClass /\ At(pos, "\\")
  /\ \/ \E e \in lex_escape_code(pos + 1) :
          \/ e.token.type = "CHARACTER" /\ PushChar(e.token.character, e.next)
          \/ /\ e.token.type = "ANCHOR" \/ (e.token.type = "BUILTIN_CHAR_CLASS" /\ is_range)
             /\ ClassFails("E_BAD_CHARACTER_CLASS")
          \/ /\ e.token.type = "BUILTIN_CHAR_CLASS" /\ ~is_range
             /\ PushClass(e.token.index, e.next)
     \/ lex_escape_code(pos + 1) = {} /\ ClassFails("E_BAD_ESCAPE")
  /\ KeepClasses

\* What was read, with a hyphen that did not become a range.
Members == bitmap \cup (IF is_range THEN {Code["-"]} ELSE {})

\* Mutant of Stored: the class is not looked for.
StoredNever(set) == {}

\* Where a class is stored already.
Stored(set) == {i \in DOMAIN classes : classes[i] = set}

\* The class is builtin, one seen before, or new.
CloseClass ==
  /\ InClass /\ At(pos, "]")
  /\ LET set     == IF inverted THEN Byte \ Members ELSE Members
         builtin == {i \in DOMAIN builtin_classes : builtin_classes[i] = set}
         stored  == Stored(set)
         Return(t) == Deliver(t, begin, pos + 1)
     IN /\ bitmap' = set
        /\ \/ /\ \E i \in builtin : Return(Builtin(i))
              /\ UNCHANGED classes
           \/ /\ builtin = {}
              /\ \E i \in stored : Return([type |-> "CHAR_CLASS", index |-> i - 1])
              /\ UNCHANGED classes
           \/ /\ builtin = {} /\ stored = {}
              /\ Return([type |-> "CHAR_CLASS", index |-> Len(classes)])
              /\ classes' = Append(classes, set)
  /\ UNCHANGED <<pattern, capacity, begin, inverted, prev_character, is_range>>

-----------------------------------------------------------------------------
(* The specification                                                       *)

\* parse leaves its loop.
End ==
  /\ pc = "token" /\ pos = eof
  /\ pc' = "end"
  /\ UNCHANGED <<pattern, pos, tokens, classes, capacity, class, status>>

Next ==
  \/ LexSingle \/ LexLiteral \/ LexQuantifier \/ LexOpenParen
  \/ LexOpenBrace \/ LexBounds \/ LexEscape
  \/ BeginClass \/ Unclosed \/ ClassCharacter \/ ClassHyphen \/ ClassName
  \/ ClassNameUnknown \/ ClassEscape \/ CloseClass
  \/ End

Spec == Init /\ [][Next]_vars /\ WF_vars(Next)

-----------------------------------------------------------------------------
(* Properties                                                              *)

\* Every variable has its type; bounds of repetitions fit a size_t.
TypeOK ==
  /\ pattern \in Seq(DOMAIN Code)
  /\ pos \in 1 .. eof
  /\ pc \in {"token", "class", "end", "failed", "undefined"}
  /\ status \in {"OK", "E_BAD_ESCAPE", "E_BAD_CHARACTER_CLASS",
                 "E_BAD_REPETITION", "E_NOMEM"}
  /\ \A i \in DOMAIN classes : classes[i] \in SUBSET Byte
  /\ capacity \in Nat /\ Len(classes) <= capacity
  /\ begin \in 0 .. Len(pattern)
  /\ bitmap \in SUBSET Byte
  /\ inverted \in BOOLEAN /\ is_range \in BOOLEAN
  /\ prev_character \in {-1} \cup Byte
  /\ \A i \in DOMAIN tokens :
       "lower" \in DOMAIN tokens[i].token =>
         /\ tokens[i].token.lower \in 0 .. SizeMax
         /\ tokens[i].token.upper \in 0 .. SizeMax

\* The assertion in PUSH_CHAR: a range that is to be ended has a start, which
\* names, escapes and the end of the range before could have taken from it.
RangeHasAStart == pc = "class" /\ is_range => prev_character # -1

\* A set of bytes has one name: no class is stored that is builtin or stored
\* already, and every class a token names is there (lexer.c, the two searches
\* at the end of lex_char_class).
ClassesCanonical ==
  /\ \A i, j \in DOMAIN classes : classes[i] = classes[j] => i = j
  /\ \A i \in DOMAIN classes, j \in DOMAIN builtin_classes :
       classes[i] # builtin_classes[j]
  /\ \A i \in DOMAIN tokens :
       tokens[i].token.type = "CHAR_CLASS" =>
         tokens[i].token.index \in 0 .. Len(classes) - 1

\* The loop of parse ends: every call of lex reads something or fails.
LexEnds == <>(pc \in {"end", "failed", "undefined"})
=============================================================================
