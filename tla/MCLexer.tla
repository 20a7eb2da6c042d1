------------------------------ MODULE MCLexer ------------------------------
(***************************************************************************)
(* The lexer on families of short patterns, and what its tokens are to be: *)
(* a definition of the texts that are tokens, which looks at a text as a   *)
(* whole.                                                                  *)
(***************************************************************************)
EXTENDS Lexer, TLC, SequencesExt

MCCode ==
  "!" :> 33 @@ "$" :> 36 @@ "(" :> 40 @@ ")" :> 41 @@ "*" :> 42 @@ "+" :> 43 @@
  "," :> 44 @@ "-" :> 45 @@ "." :> 46 @@ "0" :> 48 @@ "1" :> 49 @@ "2" :> 50 @@ "3" :> 51 @@ "6" :> 54 @@
  "9" :> 57 @@ ":" :> 58 @@ "?" :> 63 @@ "A" :> 65 @@ "B" :> 66 @@ "D" :> 68 @@
  "[" :> 91 @@ "\\" :> 92 @@ "]" :> 93 @@ "^" :> 94 @@ "a" :> 97 @@ "b" :> 98 @@
  "c" :> 99 @@ "d" :> 100 @@ "n" :> 110 @@ "o" :> 111 @@ "q" :> 113 @@
  "r" :> 114 @@ "w" :> 119 @@ "x" :> 120 @@ "{" :> 123 @@ "|" :> 124 @@ "}" :> 125

Texts(fragments, n) == {FlattenSeq(f) : f \in UNION {[1 .. k -> fragments] : k \in 0 .. n}}

Braces   == {<<"{">> \o t : t \in Texts({<<c>> : c \in {"{", "}", ",", "?", "1", "3"}}, 5)}

ClassItems ==
  {<<"^">>, <<"-">>, <<"]">>, <<"[">>, <<":">>, <<"a">>, <<"c">>,
   <<"[", ":", "w", "o", "r", "d", ":", "]">>, <<"[", ":", "b", ":", "]">>,
   <<"\\", "d">>, <<"\\", "]">>, <<"\\", "x", "6", "2">>, <<"\\", "x">>, <<"\\", "b">>}

Ranges == {<<"-">>, <<"a">>, <<"c">>, <<"]">>}

OneClass ==
  {<<"[">> \o t : t \in Texts(ClassItems, 3)}
    \cup {<<"[">> \o t \o <<"]">> : t \in Texts(Ranges, 5)}

Sets ==
  {<<"[", "]">>, <<"[", "^", "]">>, <<"[", "a", "b", "c", "]">>, <<"[", "c", "-", "a", "]">>,
   <<"[", "a", "-", "c", "]">>, <<"[", "^", "a", "]">>, <<"[", "0", "-", "9", "]">>,
   <<"[", "-", "a", "]">>, <<"[", "a", "-", "]">>}

Classes == Texts(Sets, 3)

Syntax ==
  Texts({<<"^">>, <<"|">>, <<"*">>, <<"+">>, <<"?">>, <<"(">>, <<"?", ":">>, <<")">>,
         <<".">>, <<"a">>, <<"\\">>, <<"n">>, <<"B">>, <<"x">>, <<"1">>, <<"D">>}, 3)

MCPatterns == Braces \cup OneClass \cup Classes \cup Syntax

-----------------------------------------------------------------------------
(* The texts that are tokens                                               *)

None  == [type |-> "NONE"]
Error == [type |-> "ERROR"]

\* The first n characters of t, or all; and t without its first n.
First(t, n) == SubSeq(t, 1, IF n < Len(t) THEN n ELSE Len(t))
From(t, n) == SubSeq(t, n + 1, Len(t))

Number(t) ==
  LET sum[i \in 0 .. Len(t)] ==
        IF i = 0 THEN 0 ELSE 10 * sum[i - 1] + Code[t[i]] - 48
  IN sum[Len(t)]

IsNumber(t) == \A i \in DOMAIN t : IsDigit(t[i])

\* The bounds that the text between the braces states; no number is infinite.
Bounds(t) ==
  LET commas == {i \in DOMAIN t : t[i] = ","}
      comma  == CHOOSE i \in commas : TRUE
      low    == IF commas = {} THEN t ELSE SubSeq(t, 1, comma - 1)
      high   == IF commas = {} THEN t ELSE From(t, comma)
      lower  == Number(low)
      upper  == IF high = <<>> THEN SizeMax ELSE Number(high)
  IN IF Cardinality(commas) > 1 \/ low = <<>> \/ ~IsNumber(low) \/ ~IsNumber(high)
     THEN None
     ELSE IF lower >= SizeMax \/ (high # <<>> /\ upper >= SizeMax) \/ lower > upper
     THEN Error
     ELSE [type |-> "GREEDY_REPETITION", lower |-> lower, upper |-> upper]

\* A repetition without the question mark that may follow.
Greedy(t) ==
  LET rep(l, u) == [type |-> "GREEDY_REPETITION", lower |-> l, upper |-> u]
  IN CASE t = <<"*">> -> rep(0, SizeMax)
       [] t = <<"+">> -> rep(1, SizeMax)
       [] t = <<"?">> -> rep(0, 1)
       [] Len(t) >= 3 /\ t[1] = "{" /\ t[Len(t)] = "}" -> Bounds(SubSeq(t, 2, Len(t) - 1))
       [] OTHER -> None

Repetition(t) ==
  LET lazy  == Len(t) > 1 /\ t[Len(t)] = "?"
      bounds == Greedy(IF lazy THEN SubSeq(t, 1, Len(t) - 1) ELSE t)
  IN IF lazy /\ bounds \notin {None, Error}
     THEN [bounds EXCEPT !.type = "LAZY_REPETITION"]
     ELSE bounds

Escape(t) ==
  IF Len(t) = 4 /\ t[2] = "x" /\ IsHex(t[3]) /\ IsHex(t[4])
  THEN Char(16 * Hex(t[3]) + Hex(t[4]))
  ELSE IF Len(t) # 2 THEN None
  ELSE CASE t[2] \in Punctuation     -> Char(Code[t[2]])
         [] t[2] \in DOMAIN Controls -> Char(Controls[t[2]])
         [] t[2] \in DOMAIN Anchors  -> Anchor(Anchors[t[2]])
         [] t[2] \in DOMAIN ClassOf  -> Builtin(ClassOf[t[2]])
         [] OTHER                    -> None

\* The first item of the inside of a class, the closing bracket included: how
\* long it is, and its bytes.  [: opens a name wherever letters or colons and
\* a last :] follow.
NameLength(t) ==
  LET ends == {i \in 3 .. Len(t) : /\ t[i - 1] = ":" /\ t[i] = "]"
                                   /\ \A j \in 2 .. i - 1 : (t[j] = ":" \/ Code[t[j]] \in Upper \cup Lower)}
  IN IF Len(t) < 3 \/ t[1] # "[" \/ t[2] # ":" \/ ends = {} THEN 0
     ELSE CHOOSE i \in ends : TRUE

\* The classes with the name that the first n characters of t hold.
NamesOf(t, n) == {i \in DOMAIN builtin_class_names :
                    builtin_class_names[i] = SubSeq(t, 3, n - 2)}

NoItem == [length |-> 0, bytes |-> {}]

NamedItem(names, n) ==
  IF names = {} THEN NoItem
  ELSE [length |-> n, bytes |-> builtin_classes[CHOOSE i \in names : TRUE]]

EscapedItem(e, n) ==
  CASE e.type = "CHARACTER"          -> [length |-> n, bytes |-> {e.character}]
    [] e.type = "BUILTIN_CHAR_CLASS" -> [length |-> n, bytes |-> builtin_classes[e.index]]
    [] OTHER                         -> NoItem

EscapeLength(t) == IF Len(t) >= 2 /\ t[2] = "x" THEN 4 ELSE 2

Item(t) ==
  IF NameLength(t) > 0 THEN NamedItem(NamesOf(t, NameLength(t)), NameLength(t))
  ELSE IF t[1] = "\\" THEN EscapedItem(Escape(First(t, EscapeLength(t))), EscapeLength(t))
  ELSE [length |-> 1, bytes |-> {Code[t[1]]}]

\* Only a character starts or ends a range; no builtin class has one byte.
IsCharacter(item) == Cardinality(item.bytes) = 1

ByteOf(item) == CHOOSE b \in item.bytes : TRUE

RECURSIVE Inside(_), Behind(_, _), RangeUpTo(_, _, _)

\* The bytes of the inside of a class, up to its closing bracket and no
\* further; in a set, which is empty if it is malformed.
Inside(t) ==
  IF t = <<>> THEN {}
  ELSE IF t[1] = "]" THEN IF Len(t) = 1 THEN {{}} ELSE {}
  ELSE Behind(Item(t), t)

\* An item is the start of a range if a hyphen and another item follow.
Behind(item, t) ==
  LET rest == From(t, item.length)
  IN IF item = NoItem THEN {}
     ELSE IF Len(rest) >= 2 /\ rest[1] = "-" /\ rest[2] # "]" /\ IsCharacter(item)
     THEN RangeUpTo(item, Item(From(rest, 1)), From(rest, 1))
     ELSE {item.bytes \cup s : s \in Inside(rest)}

RangeUpTo(first, end, t) ==
  IF end = NoItem \/ ~IsCharacter(end) \/ ByteOf(first) > ByteOf(end) THEN {}
  ELSE {(ByteOf(first) .. ByteOf(end)) \cup s : s \in Inside(From(t, end.length))}

\* The token a text is; a class is known by its bytes.
TokenOf(t) ==
  LET isInverted == Len(t) >= 2 /\ t[2] = "^"
      inside     == Inside(From(t, IF isInverted THEN 2 ELSE 1))
      bytes      == CHOOSE s \in inside : TRUE
  IN CASE Len(t) = 1 /\ t[1] \in DOMAIN Single -> Single[t[1]]
       [] Len(t) = 1 /\ t[1] \notin DOMAIN Single \cup (Openers \ {"{"}) -> Char(Code[t[1]])
       [] t = <<"(">>           -> [type |-> "OPEN_PAREN"]
       [] t = <<"(", "?", ":">> -> [type |-> "NON_CAPTURING_OPEN_PAREN"]
       [] Len(t) >= 2 /\ t[1] = "\\" -> Escape(t)
       [] Len(t) >= 2 /\ t[1] = "[" ->
            IF inside = {} THEN None
            ELSE [type |-> "CHAR_CLASS", set |-> IF isInverted THEN Byte \ bytes ELSE bytes]
       [] t[1] \in {"*", "+", "?"} \/ (t[1] = "{" /\ Len(t) > 1) -> Repetition(t)
       [] OTHER -> None

\* What is left of the pattern behind the tokens delivered.
Rest == From(pattern, Len(FlattenSeq([i \in DOMAIN tokens |-> tokens[i].text])))

\* The longest beginning of a text that is a token, or an error.
Longest(t) ==
  LET ends == {i \in DOMAIN t : TokenOf(SubSeq(t, 1, i)) # None}
  IN IF ends = {} THEN <<>> ELSE SubSeq(t, 1, CHOOSE i \in ends : \A j \in ends : j <= i)

\* A token's class, by its bytes.
Resolved(token, text) ==
  IF text[1] # "[" THEN token
  ELSE [type |-> "CHAR_CLASS",
        set  |-> IF token.type = "CHAR_CLASS" THEN classes[token.index + 1]
                 ELSE builtin_classes[token.index]]

\* Does a text hold an escape \x without its digits?
HasBadHex(t) ==
  \E i \in 1 .. Len(t) - 1 :
    /\ t[i] = "\\" /\ t[i + 1] = "x"
    /\ Escape(First(From(t, i - 1), 4)) = None

\* Does it hold the name of a class that there is not?
HasUnknownName(t) ==
  \E i \in DOMAIN t : NameLength(From(t, i - 1)) > 0 /\ NamesOf(From(t, i - 1), NameLength(From(t, i - 1))) = {}

-----------------------------------------------------------------------------
(* Properties                                                              *)

\* The token read last, and what the pattern was from there on.
last   == tokens[Len(tokens)]
Before == From(pattern, pos - 1 - Len(last.text))

\* lex reads the longest text that is a token, and reads it as that token: a
\* brace is a repetition only if it closes around bounds, a bound is its
\* decimal value, a class has the bytes its items say.  Left out
\* is what holds an escape \x without digits, which lex_escape_code fails to
\* report (lexer.c:266), or an unknown name, which lex_char_class looks for
\* behind its table (lexer.c:431).
TokensAreReference ==
  pc \in {"token", "end"} /\ tokens # <<>> =>
    \/ /\ last.text = Longest(Before)
       /\ Resolved(last.token, last.text) = TokenOf(last.text)
    \/ HasBadHex(last.text) \/ HasUnknownName(last.text)

\* lex fails only where no token, or bounds out of range or order, can be
\* read, and says which.
ErrorsAreReference ==
  pc = "failed" /\ status # "E_NOMEM" =>
    LET longest == Longest(Rest)
    IN IF status = "E_BAD_REPETITION" THEN TokenOf(longest) = Error
       ELSE /\ longest = <<>>
            /\ Rest[1] = "[" \/ (Rest[1] = "\\" /\ status = "E_BAD_ESCAPE")

\* What lex delivers and what it refuses are the language's: two functions
\* that scan ahead by different rules, and a third that remembers one character
\* of a class, agree with one definition of tokens.
LexIsReference == TypeOK /\ TokensAreReference /\ ErrorsAreReference
=============================================================================
