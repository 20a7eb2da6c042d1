---------------------------- MODULE LexerProofs ----------------------------
(***************************************************************************)
(* Two properties of the lexer for every set of patterns, every alphabet   *)
(* and every width of size_t.                                              *)
(***************************************************************************)
EXTENDS Lexer, TLAPS

\* What is needed of the tokens and classes beside the property itself.
Sequences == (\E S : tokens \in Seq(S)) /\ (\E S : classes \in Seq(S))

\* The steps that deliver a token without touching the classes.
LexToken ==
  LexSingle \/ LexLiteral \/ LexQuantifier \/ LexOpenParen \/ LexOpenBrace
    \/ LexBounds \/ LexEscape

\* The steps inside a class, but for its end.
ClassStep ==
  Unclosed \/ ClassCharacter \/ ClassHyphen \/ ClassName \/ ClassNameUnknown \/ ClassEscape

\* The steps of lex by kind: a token, a class begun, continued or closed, the end.
LEMMA NextSteps ==
  Next <=> LexToken \/ BeginClass \/ ClassStep \/ CloseClass \/ End
  BY DEF Next, LexToken, ClassStep

-----------------------------------------------------------------------------
(* The assertion of PUSH_CHAR                                              *)

\* A step outside of a class does not start to read one, but for BeginClass.
LEMMA TokenStepStaysOut == LexToken => pc' # "class"
  BY DEF LexToken, LexSingle, LexLiteral, LexQuantifier, DeliverRepetition,
         LexOpenParen, LexOpenBrace, LexBounds, LexEscape, Deliver, Fail

\* Each item of a class leaves a range with its start: only a hyphen begins a
\* range, and what takes the start away is not accepted inside one.
LEMMA ClassStepKeepsStart ==
  ASSUME RangeHasAStart, ClassStep
  PROVE  RangeHasAStart'
<1>1. CASE Unclosed
  BY <1>1 DEF Unclosed, ClassFails, Fail, RangeHasAStart
<1>2. CASE ClassCharacter
  BY <1>2 DEF ClassCharacter, PushChar, ClassFails, Fail, RangeHasAStart
<1>3. CASE ClassHyphen
  <2>1. CASE is_range \/ prev_character = -1
    BY <1>3, <2>1 DEF ClassHyphen, PushChar, ClassFails, Fail, RangeHasAStart
  <2>2. CASE ~(is_range \/ prev_character = -1)
    BY <1>3, <2>2 DEF ClassHyphen, RangeHasAStart
  <2> QED BY <2>1, <2>2
<1>4. CASE ClassName
  BY <1>4 DEF ClassName, PushClass, ClassFails, Fail, RangeHasAStart
<1>5. CASE ClassNameUnknown
  BY <1>5 DEF ClassNameUnknown, PushClass, ClassFails, Fail, RangeHasAStart
<1>6. CASE ClassEscape
  <2>1. CASE lex_escape_code(pos + 1) = {} /\ ClassFails("E_BAD_ESCAPE")
    BY <2>1 DEF ClassFails, Fail, RangeHasAStart
  <2>2. ASSUME NEW e \in lex_escape_code(pos + 1), PushChar(e.token.character, e.next)
        PROVE  RangeHasAStart'
    BY <2>2 DEF PushChar, ClassFails, Fail, RangeHasAStart
  <2>3. CASE ClassFails("E_BAD_CHARACTER_CLASS")
    BY <2>3 DEF ClassFails, Fail, RangeHasAStart
  <2>4. ASSUME NEW e \in lex_escape_code(pos + 1), ~is_range, PushClass(e.token.index, e.next)
        PROVE  RangeHasAStart'
    BY <2>4 DEF PushClass, RangeHasAStart
  <2> QED BY <1>6, <2>1, <2>2, <2>3, <2>4 DEF ClassEscape
<1> QED BY <1>1, <1>2, <1>3, <1>4, <1>5, <1>6 DEF ClassStep

\* RangeHasAStart, the assertion "prev_character != -1" in PUSH_CHAR of
\* lex_char_class, holds for every pattern: no order of names, escapes, hyphens
\* and characters leaves a range to be ended without its start.
THEOREM RangesHaveStarts == Spec => []RangeHasAStart
<1>1. Init => RangeHasAStart
  BY DEF Init, RangeHasAStart
<1>2. RangeHasAStart /\ [Next]_vars => RangeHasAStart'
  <2> SUFFICES ASSUME RangeHasAStart, [Next]_vars
               PROVE  RangeHasAStart'
    OBVIOUS
  <2>1. CASE LexToken
    BY <2>1, TokenStepStaysOut DEF RangeHasAStart
  <2>2. CASE BeginClass
    BY <2>2 DEF BeginClass, Fail, RangeHasAStart
  <2>3. CASE ClassStep
    BY <2>3, ClassStepKeepsStart
  <2>4. CASE CloseClass
    BY <2>4 DEF CloseClass, Deliver, RangeHasAStart
  <2>5. CASE End
    BY <2>5 DEF End, RangeHasAStart
  <2>6. CASE UNCHANGED vars
    BY <2>6 DEF vars, class, RangeHasAStart
  <2> QED BY <2>1, <2>2, <2>3, <2>4, <2>5, <2>6, NextSteps
<1> QED BY <1>1, <1>2, PTL DEF Spec

-----------------------------------------------------------------------------
(* One name for a class                                                    *)

\* Append to a sequence of no matter what.
LEMMA AppendAnything ==
  ASSUME NEW s, NEW e, \E S : s \in Seq(S)
  PROVE  /\ \E S : Append(s, e) \in Seq(S)
         /\ Len(s) \in Nat /\ DOMAIN s = 1 .. Len(s)
         /\ Len(Append(s, e)) = Len(s) + 1
         /\ DOMAIN Append(s, e) = 1 .. Len(s) + 1
         /\ \A i \in 1 .. Len(s) : Append(s, e)[i] = s[i]
         /\ Append(s, e)[Len(s) + 1] = e
<1>1. PICK S : s \in Seq(S)
  OBVIOUS
<1> DEFINE T == S \cup {e}
<1>2. s \in Seq(T)
  BY <1>1
<1>3. e \in T
  OBVIOUS
<1>4. Append(s, e) \in Seq(T)
  BY <1>2, <1>3
<1> QED BY <1>2, <1>3, <1>4

\* What Deliver does to the tokens.
LEMMA DeliverAppends ==
  ASSUME NEW t, NEW from, NEW next, Deliver(t, from, next)
  PROVE  tokens' = Append(tokens, [token |-> t, text |-> SubSeq(pattern, from, next - 1)])
  BY DEF Deliver

\* An escape is a character, an anchor or a builtin class.
LEMMA EscapeTypes ==
  ASSUME NEW p, NEW e \in lex_escape_code(p)
  PROVE  e.token.type # "CHAR_CLASS"
<1>1. ASSUME NEW q, e \in HexEscape(q)
      PROVE  e.token.type # "CHAR_CLASS"
  BY <1>1 DEF HexEscape, Char
<1> QED BY <1>1 DEF lex_escape_code, Char, Anchor, Builtin

\* A token that is not a class of its own changes nothing about the classes.
LEMMA DeliverKeepsCanonical ==
  ASSUME ClassesCanonical, Sequences, UNCHANGED classes,
         NEW t, NEW from, NEW next, t.type # "CHAR_CLASS", Deliver(t, from, next)
  PROVE  ClassesCanonical' /\ Sequences'
<1> DEFINE item == [token |-> t, text |-> SubSeq(pattern, from, next - 1)]
<1>1. tokens' = Append(tokens, item)
  BY DEF Deliver
<1>2. item.token.type # "CHAR_CLASS"
  OBVIOUS
<1> HIDE DEF item
<1>3. Sequences'
  BY <1>1, AppendAnything DEF Sequences
<1>4. \A i \in DOMAIN tokens' :
        tokens'[i].token.type = "CHAR_CLASS" => i \in DOMAIN tokens /\ tokens'[i] = tokens[i]
  BY <1>1, <1>2, AppendAnything DEF Sequences
<1> QED BY <1>3, <1>4 DEF ClassesCanonical

\* So does a failure, or any step that delivers nothing.
LEMMA QuietKeepsCanonical ==
  ASSUME ClassesCanonical, Sequences, UNCHANGED <<classes, tokens>>
  PROVE  ClassesCanonical' /\ Sequences'
  BY DEF ClassesCanonical, Sequences

\* A token that is lexed outside of brackets leaves the table as it is, and its
\* index, if it has one, is that of a builtin class.
LEMMA TokenKeepsCanonical ==
  ASSUME ClassesCanonical, Sequences, LexToken
  PROVE  ClassesCanonical' /\ Sequences'
<1>0. UNCHANGED classes
  BY DEF LexToken, LexSingle, LexLiteral, LexQuantifier, LexOpenParen,
         LexOpenBrace, LexBounds, LexEscape, Keep
<1>1. CASE LexSingle
  <2>1. Single[pattern[pos]].type # "CHAR_CLASS"
    BY <1>1 DEF LexSingle, Single, Anchor, Builtin
  <2> QED BY <1>0, <1>1, <2>1, DeliverKeepsCanonical DEF LexSingle
<1>2. CASE LexLiteral
  <2>1. Char(Code[pattern[pos]]).type # "CHAR_CLASS"
    BY DEF Char
  <2> QED BY <1>0, <1>2, <2>1, DeliverKeepsCanonical DEF LexLiteral
<1>3. ASSUME NEW l, NEW u, NEW p, DeliverRepetition(l, u, p)
      PROVE  ClassesCanonical' /\ Sequences'
  <2> DEFINE t == [type |-> IF At(p, "?") THEN "LAZY_REPETITION" ELSE "GREEDY_REPETITION",
                   lower |-> l, upper |-> u]
  <2>1. t.type # "CHAR_CLASS"
    OBVIOUS
  <2>2. Deliver(t, pos, IF At(p, "?") THEN p + 1 ELSE p)
    BY <1>3 DEF DeliverRepetition
  <2> HIDE DEF t
  <2> QED BY <1>0, <2>1, <2>2, DeliverKeepsCanonical
<1>4. CASE LexQuantifier
  BY <1>3, <1>4 DEF LexQuantifier
<1>5. CASE LexOpenParen
  <2>1. [type |-> "NON_CAPTURING_OPEN_PAREN"].type # "CHAR_CLASS"
    OBVIOUS
  <2>2. [type |-> "OPEN_PAREN"].type # "CHAR_CLASS"
    OBVIOUS
  <2> QED BY <1>0, <1>5, <2>1, <2>2, DeliverKeepsCanonical DEF LexOpenParen
<1>6. CASE LexOpenBrace
  <2>1. Char(Code["{"]).type # "CHAR_CLASS"
    BY DEF Char
  <2> QED BY <1>0, <1>6, <2>1, DeliverKeepsCanonical DEF LexOpenBrace
<1>7. CASE LexBounds
  <2>1. CASE Fail("E_BAD_REPETITION")
    BY <1>0, <2>1, QuietKeepsCanonical DEF Fail
  <2>2. CASE \E l, u, p : DeliverRepetition(l, u, p)
    BY <1>3, <2>2
  <2> QED BY <1>7, <2>1, <2>2 DEF LexBounds
<1>8. CASE LexEscape
  <2>1. CASE Fail("E_BAD_ESCAPE")
    BY <1>0, <2>1, QuietKeepsCanonical DEF Fail
  <2>2. ASSUME NEW e \in lex_escape_code(pos + 1), Deliver(e.token, pos, e.next)
        PROVE  ClassesCanonical' /\ Sequences'
    BY <1>0, <2>2, EscapeTypes, DeliverKeepsCanonical
  <2> QED BY <1>8, <2>1, <2>2 DEF LexEscape
<1> QED BY <1>1, <1>2, <1>4, <1>5, <1>6, <1>7, <1>8 DEF LexToken

\* The end of a class: what is stored is not builtin and not stored before.
LEMMA CloseKeepsCanonical ==
  ASSUME ClassesCanonical, Sequences, CloseClass
  PROVE  ClassesCanonical' /\ Sequences'
<1> DEFINE set     == IF inverted THEN Byte \ Members ELSE Members
           builtin == {i \in DOMAIN builtin_classes : builtin_classes[i] = set}
           new     == [type |-> "CHAR_CLASS", index |-> Len(classes)]
<1>1. CASE UNCHANGED classes /\ \E i \in builtin : Deliver(Builtin(i), begin, pos + 1)
  <2>1. PICK i \in builtin : Deliver(Builtin(i), begin, pos + 1)
    BY <1>1
  <2>2. Builtin(i).type # "CHAR_CLASS"
    BY DEF Builtin
  <2> QED BY <1>1, <2>1, <2>2, DeliverKeepsCanonical
<1>2. CASE /\ UNCHANGED classes
           /\ \E i \in Stored(set) :
                Deliver([type |-> "CHAR_CLASS", index |-> i - 1], begin, pos + 1)
  <2>1. PICK i \in Stored(set) :
          Deliver([type |-> "CHAR_CLASS", index |-> i - 1], begin, pos + 1)
    BY <1>2
  <2> DEFINE t    == [type |-> "CHAR_CLASS", index |-> i - 1]
             item == [token |-> t, text |-> SubSeq(pattern, begin, (pos + 1) - 1)]
  <2>t. Deliver(t, begin, pos + 1)
    BY <2>1
  <2>i. t.index = i - 1
    OBVIOUS
  <2> HIDE DEF t
  <2>2. tokens' = Append(tokens, item)
    BY <2>t, DeliverAppends
  <2>3. i \in DOMAIN classes /\ Len(classes) \in Nat /\ DOMAIN classes = 1 .. Len(classes)
    BY AppendAnything DEF Stored, Sequences
  <2>4. item.token.index \in 0 .. Len(classes) - 1
    BY <2>3, <2>i
  <2> HIDE DEF item
  <2>5. Sequences'
    BY <1>2, <2>2, AppendAnything DEF Sequences
  <2>6. \A k \in DOMAIN tokens' :
          \/ k \in DOMAIN tokens /\ tokens'[k] = tokens[k]
          \/ tokens'[k] = item
    BY <2>2, AppendAnything DEF Sequences
  <2> QED BY <1>2, <2>4, <2>5, <2>6 DEF ClassesCanonical
<1>3. CASE /\ builtin = {} /\ Stored(set) = {}
           /\ Deliver(new, begin, pos + 1)
           /\ classes' = Append(classes, set)
  <2> DEFINE item == [token |-> new, text |-> SubSeq(pattern, begin, (pos + 1) - 1)]
  <2>t. Deliver(new, begin, pos + 1)
    BY <1>3
  <2>i. new.index = Len(classes)
    OBVIOUS
  <2> HIDE DEF new
  <2>1. tokens' = Append(tokens, item)
    BY <2>t, DeliverAppends
  <2>2. item.token.index = Len(classes)
    BY <2>i
  <2>3. \A j \in DOMAIN builtin_classes : builtin_classes[j] # set
    BY <1>3
  <2>4. \A j \in DOMAIN classes : classes[j] # set
    BY <1>3 DEF Stored
  <2>c. classes' = Append(classes, set)
    BY <1>3
  <2> HIDE DEF item, set
  <2>5. /\ Len(classes) \in Nat /\ DOMAIN classes = 1 .. Len(classes)
        /\ Len(classes') = Len(classes) + 1 /\ DOMAIN classes' = 1 .. Len(classes) + 1
        /\ \A k \in 1 .. Len(classes) : classes'[k] = classes[k]
        /\ classes'[Len(classes) + 1] = set
    BY <2>c, AppendAnything DEF Sequences
  <2>6. Sequences'
    BY <2>1, <2>c, AppendAnything DEF Sequences
  <2>7. \A k \in DOMAIN tokens' :
          \/ k \in DOMAIN tokens /\ tokens'[k] = tokens[k]
          \/ tokens'[k] = item
    BY <2>1, AppendAnything DEF Sequences
  <2>8. \A i, j \in DOMAIN classes' : classes'[i] = classes'[j] => i = j
    BY <2>4, <2>5 DEF ClassesCanonical
  <2>9. \A i \in DOMAIN classes', j \in DOMAIN builtin_classes :
          classes'[i] # builtin_classes[j]
    BY <2>3, <2>5 DEF ClassesCanonical
  <2>10. \A i \in DOMAIN tokens' :
           tokens'[i].token.type = "CHAR_CLASS" =>
             tokens'[i].token.index \in 0 .. Len(classes') - 1
    <3> SUFFICES ASSUME NEW i \in DOMAIN tokens', tokens'[i].token.type = "CHAR_CLASS"
                 PROVE  tokens'[i].token.index \in 0 .. Len(classes)
      BY <2>5
    <3>1. CASE i \in DOMAIN tokens /\ tokens'[i] = tokens[i]
      <4>1. tokens[i].token.index \in 0 .. Len(classes) - 1
        BY <3>1 DEF ClassesCanonical
      <4> QED BY <3>1, <4>1, <2>5
    <3>2. CASE tokens'[i] = item
      BY <3>2, <2>2, <2>5
    <3> QED BY <3>1, <3>2, <2>7
  <2> QED BY <2>6, <2>8, <2>9, <2>10 DEF ClassesCanonical, builtin_classes
<1> QED BY <1>1, <1>2, <1>3 DEF CloseClass

\* ClassesCanonical: however many classes a pattern holds, each set of bytes has
\* one index, and the index in a token is that of a class stored; the bytecode
\* addresses classes by these indices (the end of lex_char_class).
THEOREM ClassesAreCanonical == Spec => []ClassesCanonical
<1>1. Init => ClassesCanonical /\ Sequences
  <2>1. <<>> \in Seq({})
    OBVIOUS
  <2> QED BY <2>1 DEF Init, ClassesCanonical, Sequences
<1>2. ClassesCanonical /\ Sequences /\ [Next]_vars => (ClassesCanonical /\ Sequences)'
  <2> SUFFICES ASSUME ClassesCanonical, Sequences, [Next]_vars
               PROVE  ClassesCanonical' /\ Sequences'
    OBVIOUS
  <2>1. CASE LexToken
    BY <2>1, TokenKeepsCanonical
  <2>2. CASE BeginClass
    <3>1. UNCHANGED <<classes, tokens>>
      BY <2>2 DEF BeginClass, Fail
    <3> QED BY <3>1, QuietKeepsCanonical
  <2>3. CASE ClassStep
    <3>1. UNCHANGED <<classes, tokens>>
      BY <2>3 DEF ClassStep, Unclosed, ClassCharacter, ClassHyphen, ClassName,
                  ClassNameUnknown, ClassEscape, PushChar, PushClass, ClassFails,
                  Fail, KeepClasses
    <3> QED BY <3>1, QuietKeepsCanonical
  <2>4. CASE CloseClass
    BY <2>4, CloseKeepsCanonical
  <2>5. CASE End
    BY <2>5, QuietKeepsCanonical DEF End
  <2>6. CASE UNCHANGED vars
    BY <2>6, QuietKeepsCanonical DEF vars
  <2> QED BY <2>1, <2>2, <2>3, <2>4, <2>5, <2>6, NextSteps
<1> QED BY <1>1, <1>2, PTL DEF Spec
=============================================================================
