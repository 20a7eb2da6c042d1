---------------------------- MODULE ParserProofs ----------------------------
(***************************************************************************)
(* What holds of the parser's two stacks and of the blocks that its trees  *)
(* are made of, for patterns of any tokens and any length, stacks that     *)
(* leave their inline buffers at any size, and any allocations failing.    *)
(***************************************************************************)
EXTENDS Parser, ChainProofs

-----------------------------------------------------------------------------
(* Sequences                                                               *)

\* A sequence of no matter what.
IsSeq(s) == \E S : s \in Seq(S)

Front(s) == SubSeq(s, 1, Len(s) - 1)

\* The length of a sequence.
LEMMA SeqLength ==
  ASSUME NEW s, IsSeq(s)
  PROVE  /\ Len(s) \in Nat /\ DOMAIN s = 1 .. Len(s)
         /\ s = <<>> <=> Len(s) = 0
<1>1. PICK S : s \in Seq(S)
  BY DEF IsSeq
<1> QED BY <1>1

LEMMA NoElements == IsSeq(<<>>) /\ Len(<<>>) = 0 /\ DOMAIN <<>> = {}
<1>1. <<>> \in Seq({}) /\ Len(<<>>) = 0
  OBVIOUS
<1>2. IsSeq(<<>>)
  BY <1>1 DEF IsSeq
<1>3. DOMAIN <<>> = 1 .. Len(<<>>)
  BY <1>2, SeqLength
<1>4. \A n : n = 0 => 1 .. n = {}
  OBVIOUS
<1> QED BY <1>1, <1>2, <1>3, <1>4, Zenon

\* One more element.
LEMMA Pushed ==
  ASSUME NEW s, NEW e, IsSeq(s)
  PROVE  /\ IsSeq(Append(s, e))
         /\ Len(Append(s, e)) = Len(s) + 1
         /\ DOMAIN Append(s, e) = 1 .. Len(s) + 1
         /\ \A i \in 1 .. Len(s) : Append(s, e)[i] = s[i]
         /\ Append(s, e)[Len(s) + 1] = e
<1>1. PICK S : s \in Seq(S)
  BY DEF IsSeq
<1> DEFINE T == S \cup {e}
<1>2. s \in Seq(T) /\ e \in T
  BY <1>1
<1>3. Append(s, e) \in Seq(T)
  BY <1>2
<1> QED BY <1>2, <1>3 DEF IsSeq

\* The sequence up to an element.
LEMMA Shortened ==
  ASSUME NEW s, IsSeq(s), NEW n \in 0 .. Len(s)
  PROVE  /\ IsSeq(SubSeq(s, 1, n))
         /\ Len(SubSeq(s, 1, n)) = n
         /\ DOMAIN SubSeq(s, 1, n) = 1 .. n
         /\ \A i \in 1 .. n : SubSeq(s, 1, n)[i] = s[i]
<1>1. PICK S : s \in Seq(S)
  BY DEF IsSeq
<1>2. SubSeq(s, 1, n) \in Seq(S)
  BY <1>1
<1> QED BY <1>1, <1>2 DEF IsSeq

-----------------------------------------------------------------------------
(* The blocks of the trees on a stack                                      *)

\* f is what the definition of StackBlocks asks for, as far as n.
Sums(f, ts, n) ==
  f = [i \in 0 .. n |-> IF i = 0 THEN 0 ELSE f[i - 1] + ts[i].blocks]

TotalOf(ts) ==
  LET sum[i \in 0 .. Len(ts)] == IF i = 0 THEN 0 ELSE sum[i - 1] + ts[i].blocks
  IN sum[Len(ts)]

LEMMA StackBlocksIs == StackBlocks = TotalOf(trees) /\ StackBlocks' = TotalOf(trees')
  BY DEF StackBlocks, TotalOf

\* The recursion has a solution,
LEMMA SumsExist ==
  ASSUME NEW ts, NEW n \in Nat
  PROVE  \E f : Sums(f, ts, n)
<1> DEFINE S == {m \in Nat : ~\E f : Sums(f, ts, m)}
<1> SUFFICES ASSUME S # {} PROVE FALSE
  OBVIOUS
<1>1. PICK m \in S : \A k \in 0 .. m - 1 : k \notin S
  <2>1. S \subseteq Nat
    OBVIOUS
  <2> HIDE DEF S
  <2> QED BY <2>1, Least
<1>2. CASE m = 0
  <2>1. Sums([k \in 0 .. 0 |-> 0], ts, 0)
    BY DEF Sums
  <2> QED BY <1>1, <1>2, <2>1
<1>3. CASE m # 0
  <2>1. m - 1 \in Nat /\ m - 1 \notin S
    BY <1>1, <1>3
  <2>2. PICK f : Sums(f, ts, m - 1)
    BY <2>1
  <2> DEFINE g == [k \in 0 .. m |-> IF k = m THEN f[m - 1] + ts[m].blocks ELSE f[k]]
  <2>3. \A k \in 0 .. m - 1 : f[k] = IF k = 0 THEN 0 ELSE f[k - 1] + ts[k].blocks
    BY <2>1, <2>2 DEF Sums
  <2>4. \A k \in 0 .. m : g[k] = IF k = 0 THEN 0 ELSE g[k - 1] + ts[k].blocks
    BY <1>3, <2>1, <2>3
  <2>5. g = [k \in 0 .. m |-> IF k = 0 THEN 0 ELSE g[k - 1] + ts[k].blocks]
    BY <2>4
  <2> QED BY <1>1, <2>5 DEF Sums
<1> QED BY <1>2, <1>3

\* of numbers,
LEMMA SumsNat ==
  ASSUME NEW ts, NEW n \in Nat, NEW f, Sums(f, ts, n),
         \A i \in 1 .. n : ts[i].blocks \in Nat
  PROVE  \A i \in 0 .. n : f[i] \in Nat
<1> DEFINE S == {i \in 0 .. n : f[i] \notin Nat}
<1> SUFFICES ASSUME S # {} PROVE FALSE
  OBVIOUS
<1>1. PICK m \in S : \A k \in 0 .. m - 1 : k \notin S
  <2>1. S \subseteq Nat
    OBVIOUS
  <2> HIDE DEF S
  <2> QED BY <2>1, Least
<1>2. f[m] = IF m = 0 THEN 0 ELSE f[m - 1] + ts[m].blocks
  BY <1>1 DEF Sums
<1>3. CASE m = 0
  BY <1>1, <1>2, <1>3
<1>4. CASE m # 0
  <2>1. f[m - 1] \in Nat /\ ts[m].blocks \in Nat
    BY <1>1, <1>4
  <2> QED BY <1>1, <1>2, <1>4, <2>1
<1> QED BY <1>3, <1>4

Agree(s, t, n) == \A i \in 1 .. n : s[i] = t[i]

\* and of those only that depend on what they are sums of.
LEMMA SumsSame ==
  ASSUME NEW ts, NEW us, NEW m, NEW n, m \in Nat, n \in 0 .. m, NEW f, NEW g,
         Sums(f, ts, m), Sums(g, us, n), Agree(ts, us, n)
  PROVE  f[n] = g[n]
<1> DEFINE S == {i \in 0 .. n : f[i] # g[i]}
<1> SUFFICES ASSUME S # {} PROVE FALSE
  BY n \in 0 .. n
<1>1. PICK k \in S : \A j \in 0 .. k - 1 : j \notin S
  <2>1. S \subseteq Nat
    OBVIOUS
  <2> HIDE DEF S
  <2> QED BY <2>1, Least
<1>2. /\ f[k] = IF k = 0 THEN 0 ELSE f[k - 1] + ts[k].blocks
      /\ g[k] = IF k = 0 THEN 0 ELSE g[k - 1] + us[k].blocks
  BY <1>1 DEF Sums
<1>3. k # 0
  BY <1>1, <1>2
<1>4. f[k - 1] = g[k - 1] /\ ts[k] = us[k]
  BY <1>1, <1>3 DEF Agree
<1> QED BY <1>1, <1>2, <1>3, <1>4

\* TotalOf is the last of them.
LEMMA TotalIs ==
  ASSUME NEW ts, IsSeq(ts)
  PROVE  \E f : Sums(f, ts, Len(ts)) /\ TotalOf(ts) = f[Len(ts)]
<1> DEFINE f == CHOOSE f : f = [i \in 0 .. Len(ts) |->
                                  IF i = 0 THEN 0 ELSE f[i - 1] + ts[i].blocks]
<1>1. \E h : h = [i \in 0 .. Len(ts) |-> IF i = 0 THEN 0 ELSE h[i - 1] + ts[i].blocks]
  BY SeqLength, SumsExist DEF Sums
<1>2. f = [i \in 0 .. Len(ts) |-> IF i = 0 THEN 0 ELSE f[i - 1] + ts[i].blocks]
  BY <1>1
<1>3. TotalOf(ts) = f[Len(ts)]
  BY DEF TotalOf
<1> QED BY <1>2, <1>3 DEF Sums

HaveBlocks(ts) == \A i \in DOMAIN ts : ts[i].blocks \in Nat

LEMMA TotalNat ==
  ASSUME NEW ts, IsSeq(ts), HaveBlocks(ts)
  PROVE  TotalOf(ts) \in Nat
<1>1. PICK f : Sums(f, ts, Len(ts)) /\ TotalOf(ts) = f[Len(ts)]
  BY TotalIs
<1>2. Len(ts) \in Nat /\ DOMAIN ts = 1 .. Len(ts)
  BY SeqLength
<1>3. \A i \in 0 .. Len(ts) : f[i] \in Nat
  BY <1>1, <1>2, SumsNat DEF HaveBlocks
<1> QED BY <1>1, <1>2, <1>3

LEMMA TotalNone == TotalOf(<<>>) = 0
<1>1. PICK f : Sums(f, <<>>, Len(<<>>)) /\ TotalOf(<<>>) = f[Len(<<>>)]
  BY TotalIs, NoElements
<1>2. Sums(f, <<>>, 0) /\ TotalOf(<<>>) = f[0]
  BY <1>1, NoElements, Zenon
<1> QED BY <1>2 DEF Sums

\* The stack without its top tree.
LEMMA TotalFront ==
  ASSUME NEW ts, IsSeq(ts), HaveBlocks(ts), ts # <<>>
  PROVE  /\ HaveBlocks(Front(ts))
         /\ TotalOf(ts) = TotalOf(Front(ts)) + ts[Len(ts)].blocks
<1>1. Len(ts) \in Nat /\ Len(ts) > 0 /\ DOMAIN ts = 1 .. Len(ts)
  BY SeqLength
<1>2. /\ IsSeq(Front(ts)) /\ Len(Front(ts)) = Len(ts) - 1
      /\ DOMAIN Front(ts) = 1 .. Len(ts) - 1
      /\ \A i \in 1 .. Len(ts) - 1 : Front(ts)[i] = ts[i]
  BY <1>1, Shortened DEF Front
<1>3. PICK f : Sums(f, ts, Len(ts)) /\ TotalOf(ts) = f[Len(ts)]
  BY TotalIs
<1>4. PICK g : Sums(g, Front(ts), Len(ts) - 1) /\ TotalOf(Front(ts)) = g[Len(ts) - 1]
  BY <1>2, TotalIs
<1>5. f[Len(ts) - 1] = g[Len(ts) - 1]
  <2>1. Len(ts) - 1 \in 0 .. Len(ts)
    BY <1>1
  <2>2. Agree(ts, Front(ts), Len(ts) - 1)
    BY <1>2 DEF Agree
  <2> DEFINE n == Len(ts) - 1
  <2>3. /\ Sums(f, ts, Len(ts)) /\ Sums(g, Front(ts), n) /\ Agree(ts, Front(ts), n)
        /\ Len(ts) \in Nat /\ n \in 0 .. Len(ts)
    BY <1>1, <1>3, <1>4, <2>1, <2>2
  <2> HIDE DEF n
  <2>4. f[n] = g[n]
    BY <2>3, SumsSame
  <2> QED BY <2>4 DEF n
<1>6. f[Len(ts)] = f[Len(ts) - 1] + ts[Len(ts)].blocks
  BY <1>1, <1>3 DEF Sums
<1>7. HaveBlocks(Front(ts))
  BY <1>1, <1>2 DEF HaveBlocks
<1> QED BY <1>3, <1>4, <1>5, <1>6, <1>7

\* The stack with one tree more.
LEMMA TotalAppend ==
  ASSUME NEW ts, IsSeq(ts), HaveBlocks(ts), NEW item, item.blocks \in Nat
  PROVE  /\ HaveBlocks(Append(ts, item))
         /\ TotalOf(Append(ts, item)) = TotalOf(ts) + item.blocks
<1> DEFINE us == Append(ts, item)
<1>1. Len(ts) \in Nat /\ DOMAIN ts = 1 .. Len(ts)
  BY SeqLength
<1>2. /\ IsSeq(us) /\ Len(us) = Len(ts) + 1 /\ DOMAIN us = 1 .. Len(ts) + 1
      /\ \A i \in 1 .. Len(ts) : us[i] = ts[i]
      /\ us[Len(ts) + 1] = item
  BY Pushed
<1> HIDE DEF us
<1>3. HaveBlocks(us)
  BY <1>1, <1>2 DEF HaveBlocks
<1>4. PICK f : Sums(f, us, Len(us)) /\ TotalOf(us) = f[Len(us)]
  BY <1>2, TotalIs
<1>5. PICK g : Sums(g, ts, Len(ts)) /\ TotalOf(ts) = g[Len(ts)]
  BY TotalIs
<1>6. f[Len(ts)] = g[Len(ts)]
  <2>1. Len(ts) \in 0 .. Len(us) /\ Len(us) \in Nat
    BY <1>1, <1>2
  <2>2. Agree(us, ts, Len(ts))
    BY <1>2 DEF Agree
  <2> QED BY <1>1, <1>4, <1>5, <2>1, <2>2, SumsSame
<1>7. f[Len(us)] = f[Len(ts)] + item.blocks
  BY <1>1, <1>2, <1>4 DEF Sums
<1> QED BY <1>3, <1>4, <1>5, <1>6, <1>7 DEF us

\* The stack without its two top trees.
LEMMA TotalBelow2 ==
  ASSUME NEW ts, IsSeq(ts), HaveBlocks(ts), Len(ts) >= 2
  PROVE  LET us == SubSeq(ts, 1, Len(ts) - 2) IN
         /\ IsSeq(us) /\ HaveBlocks(us) /\ Len(us) = Len(ts) - 2
         /\ TotalOf(ts) = TotalOf(us) + ts[Len(ts) - 1].blocks + ts[Len(ts)].blocks
<1> DEFINE us == SubSeq(ts, 1, Len(ts) - 2)
           n  == Len(ts)
<1>1. n \in Nat /\ ts # <<>> /\ DOMAIN ts = 1 .. n
  BY SeqLength
<1>2. /\ IsSeq(Front(ts)) /\ Len(Front(ts)) = n - 1
      /\ DOMAIN Front(ts) = 1 .. n - 1
      /\ \A i \in 1 .. n - 1 : Front(ts)[i] = ts[i]
  BY <1>1, Shortened DEF Front
<1>3. Front(ts) # <<>>
  BY <1>1, <1>2, SeqLength
<1>4. Front(Front(ts)) = us
  <2>1. PICK S : ts \in Seq(S)
    BY DEF IsSeq
  <2> QED BY <1>1, <2>1 DEF Front
<1>5. /\ HaveBlocks(Front(ts))
      /\ TotalOf(ts) = TotalOf(Front(ts)) + ts[n].blocks
  BY <1>1, TotalFront
<1>6. /\ HaveBlocks(us)
      /\ TotalOf(Front(ts)) = TotalOf(us) + ts[n - 1].blocks
  <2>1. TotalOf(Front(ts)) = TotalOf(Front(Front(ts))) + Front(ts)[Len(Front(ts))].blocks
        /\ HaveBlocks(Front(Front(ts)))
    BY <1>2, <1>3, <1>5, TotalFront
  <2>2. Front(ts)[Len(Front(ts))] = ts[n - 1]
    BY <1>1, <1>2
  <2> QED BY <1>4, <2>1, <2>2
<1>7. IsSeq(us) /\ Len(us) = n - 2
  BY <1>1, Shortened
<1> QED BY <1>5, <1>6, <1>7
-----------------------------------------------------------------------------
(* The operators on a stack                                                *)

IsBinary(op)  == op.type \in {"CONCATENATION", "ALTERNATION"}
BinariesOf(s) == {i \in DOMAIN s : IsBinary(s[i])}
Pending(s)    == Cardinality(BinariesOf(s))

OperatorTypes == {"REPETITION", "CONCATENATION", "ALTERNATION", "GROUP"}
HaveTypes(s)  == \A i \in DOMAIN s : s[i].type \in OperatorTypes

\* What may stand above an operator.
MayFollow(under, op) ==
  IF op.type = "GROUP" THEN under.type = "CONCATENATION" ELSE Rank(op.type) < Rank(under.type)

Rises(s) == \A i \in 1 .. Len(s) - 1 : MayFollow(s[i], s[i + 1])

LEMMA BinariesFinite ==
  ASSUME NEW s, IsSeq(s)
  PROVE  IsFiniteSet(BinariesOf(s)) /\ Pending(s) \in Nat
<1>1. DOMAIN s = 1 .. Len(s) /\ Len(s) \in Nat
  BY SeqLength
<1>2. IsFiniteSet(1 .. Len(s))
  BY <1>1, FS_Interval
<1>3. BinariesOf(s) \subseteq 1 .. Len(s)
  BY <1>1 DEF BinariesOf
<1> QED BY <1>2, <1>3, FS_Subset, FS_CardinalityType DEF Pending

\* No binary operator waits on an empty stack.
LEMMA NonePending == Pending(<<>>) = 0 /\ HaveTypes(<<>>) /\ Rises(<<>>)
<1>1. BinariesOf(<<>>) = {}
  BY NoElements DEF BinariesOf
<1>2. HaveTypes(<<>>) /\ Rises(<<>>)
  BY NoElements DEF HaveTypes, Rises
<1> QED BY <1>1, <1>2, FS_EmptySet DEF Pending

\* One more operator.
LEMMA OperatorsPushed ==
  ASSUME NEW s, IsSeq(s), HaveTypes(s), Rises(s), NEW op, op.type \in OperatorTypes,
         s # <<>> => MayFollow(s[Len(s)], op)
  PROVE  LET t == Append(s, op) IN
         /\ IsSeq(t) /\ HaveTypes(t) /\ Rises(t)
         /\ t # <<>> /\ t[Len(t)] = op
         /\ Pending(t) = Pending(s) + One(IsBinary(op))
<1> DEFINE t == Append(s, op)
           n == Len(s)
<1>1. n \in Nat /\ DOMAIN s = 1 .. n /\ (s = <<>> <=> n = 0)
  BY SeqLength
<1>2. /\ IsSeq(t) /\ Len(t) = n + 1 /\ DOMAIN t = 1 .. n + 1
      /\ \A i \in 1 .. n : t[i] = s[i]
      /\ t[n + 1] = op
  BY Pushed
<1> HIDE DEF t, n
<1>3. HaveTypes(t)
  BY <1>1, <1>2 DEF HaveTypes
<1>4. Rises(t)
  <2> SUFFICES ASSUME NEW i \in 1 .. n PROVE MayFollow(t[i], t[i + 1])
    BY <1>1, <1>2 DEF Rises
  <2>1. CASE i = n
    BY <1>1, <1>2, <2>1 DEF n
  <2>2. CASE i # n
    <3>1. i \in 1 .. n - 1 /\ t[i] = s[i] /\ t[i + 1] = s[i + 1]
      BY <1>1, <1>2, <2>2
    <3> QED BY <3>1 DEF Rises, n
  <2> QED BY <2>1, <2>2
<1>5. t # <<>> /\ t[Len(t)] = op
  <2>1. Len(t) # 0
    BY <1>1, <1>2
  <2> QED BY <1>2, <2>1, SeqLength
<1>6. CASE IsBinary(op)
  <2>1. BinariesOf(t) = BinariesOf(s) \cup {n + 1} /\ n + 1 \notin BinariesOf(s)
    BY <1>1, <1>2, <1>6 DEF BinariesOf
  <2>2. Pending(t) = Pending(s) + 1
    BY <2>1, BinariesFinite, FS_AddElement DEF Pending
  <2>3. One(IsBinary(op)) = 1
    BY <1>6 DEF One
  <2> QED BY <1>2, <1>3, <1>4, <1>5, <2>2, <2>3 DEF t
<1>7. CASE ~IsBinary(op)
  <2>1. BinariesOf(t) = BinariesOf(s)
    BY <1>1, <1>2, <1>7 DEF BinariesOf
  <2>2. Pending(t) = Pending(s) + 0
    BY <2>1, BinariesFinite DEF Pending
  <2>3. One(IsBinary(op)) = 0
    BY <1>7 DEF One
  <2> QED BY <1>2, <1>3, <1>4, <1>5, <2>2, <2>3 DEF t
<1> QED BY <1>6, <1>7

\* One operator less.
LEMMA OperatorsPopped ==
  ASSUME NEW s, IsSeq(s), HaveTypes(s), Rises(s), s # <<>>
  PROVE  /\ IsSeq(Front(s)) /\ HaveTypes(Front(s)) /\ Rises(Front(s))
         /\ Pending(s) = Pending(Front(s)) + One(IsBinary(s[Len(s)]))
         /\ Pending(Front(s)) \in Nat
<1> DEFINE t == Front(s)
           n == Len(s)
<1>1. n \in Nat /\ DOMAIN s = 1 .. n /\ n > 0
  BY SeqLength
<1>2. /\ IsSeq(t) /\ Len(t) = n - 1 /\ DOMAIN t = 1 .. n - 1
      /\ \A i \in 1 .. n - 1 : t[i] = s[i]
  BY <1>1, Shortened DEF Front
<1> HIDE DEF t, n
<1>3. HaveTypes(t)
  BY <1>1, <1>2 DEF HaveTypes
<1>4. Rises(t)
  <2> SUFFICES ASSUME NEW i \in 1 .. n - 2 PROVE MayFollow(t[i], t[i + 1])
    BY <1>1, <1>2 DEF Rises
  <2>1. i \in 1 .. n - 1 /\ t[i] = s[i] /\ t[i + 1] = s[i + 1]
    BY <1>1, <1>2
  <2> QED BY <2>1 DEF Rises, n
<1>5. n \notin BinariesOf(t)
  BY <1>1, <1>2 DEF BinariesOf
<1>6. CASE IsBinary(s[n])
  <2>1. BinariesOf(s) = BinariesOf(t) \cup {n}
    BY <1>1, <1>2, <1>6 DEF BinariesOf
  <2>2. Pending(s) = Pending(t) + 1
    BY <1>2, <1>5, <2>1, BinariesFinite, FS_AddElement DEF Pending
  <2> QED BY <1>2, <1>3, <1>4, <1>6, <2>2, BinariesFinite DEF One, t, n
<1>7. CASE ~IsBinary(s[n])
  <2>1. BinariesOf(s) = BinariesOf(t)
    BY <1>1, <1>2, <1>7 DEF BinariesOf
  <2>2. Pending(s) = Pending(t) + 0
    BY <1>2, <2>1, BinariesFinite DEF Pending
  <2> QED BY <1>2, <1>3, <1>4, <1>7, <2>2, BinariesFinite DEF One, t, n
<1> QED BY <1>6, <1>7
-----------------------------------------------------------------------------
(* The inductive invariant                                                 *)

Stacks ==
  /\ IsSeq(pattern) /\ IsSeq(operators) /\ IsSeq(trees)
  /\ HaveBlocks(trees)
  /\ operatorsCapacity >= StackCapacity /\ treesCapacity >= StackCapacity

\* What holds at some places only.
Stages ==
  /\ pc = "regex" =>
       classesCapacity = 0 /\ operatorsCapacity = StackCapacity /\ treesCapacity = StackCapacity
  /\ pc \in {"regex", "begin"} => operators = <<>> /\ trees = <<>>
  /\ pc = "group" => operators # <<>> /\ Top.type = "CONCATENATION"
  /\ pc = "compile" => tree.blocks \in Nat

IInv == StacksConsistent /\ BlocksAccounted /\ Stacks /\ Stages

\* Where the stacks hold what has been allocated.
Elsewhere == {"regex", "failed", "destroyed", "compile", "done"}

\* What has been allocated and is not to be found from the stacks or the table.
Owed ==
  allocs - frees - TotalOf(trees) - HeapAllocated(operatorsCapacity)
    - HeapAllocated(treesCapacity) - One(classesCapacity > 0)

\* Numbers of blocks.
LEMMA OneNat == \A b : One(b) \in 0 .. 1
  BY DEF One

LEMMA HeldIs ==
  ASSUME pc \notin Elsewhere
  PROVE  Held = 1 + One(classesCapacity > 0) + TotalOf(trees)
                  + HeapAllocated(operatorsCapacity) + HeapAllocated(treesCapacity)
  BY StackBlocksIs DEF Held, Elsewhere

LEMMA HeldIsNext ==
  ASSUME pc' \notin Elsewhere
  PROVE  Held' = 1 + One(classesCapacity' > 0) + TotalOf(trees')
                   + HeapAllocated(operatorsCapacity') + HeapAllocated(treesCapacity')
  BY StackBlocksIs DEF Held, Elsewhere

LEMMA AccountedIs ==
  ASSUME TypeOK, Stacks, pc \notin Elsewhere
  PROVE  (allocs = frees + Held) <=> (Owed = 1)
<1>1. TotalOf(trees) \in Nat /\ allocs \in Nat /\ frees \in Nat
  BY TotalNat DEF Stacks, TypeOK
<1>2. One(classesCapacity > 0) \in Nat /\ HeapAllocated(operatorsCapacity) \in Nat
      /\ HeapAllocated(treesCapacity) \in Nat
  BY OneNat DEF HeapAllocated
<1> QED BY <1>1, <1>2, HeldIs DEF Owed

LEMMA AccountedIsNext ==
  ASSUME TypeOK', Stacks', pc' \notin Elsewhere
  PROVE  (allocs = frees + Held)' <=> (Owed' = 1)
<1>1. TotalOf(trees') \in Nat /\ allocs' \in Nat /\ frees' \in Nat
  BY TotalNat DEF Stacks, TypeOK
<1>2. One(classesCapacity' > 0) \in Nat /\ HeapAllocated(operatorsCapacity') \in Nat
      /\ HeapAllocated(treesCapacity') \in Nat
  BY OneNat DEF HeapAllocated
<1> QED BY <1>1, <1>2, HeldIsNext DEF Owed

\* StacksConsistent in the words of this module.
LEMMA ConsistentIs ==
  StacksConsistent <=>
    /\ TypeOK
    /\ pc \in {"token", "operator", "close", "end"} => Len(trees) = Pending(operators) + 1
    /\ pc \in {"operand", "group"} => Len(trees) = Pending(operators)
    /\ Rises(operators)
<1>1. Cardinality(Binaries) = Pending(operators)
  BY DEF Pending, BinariesOf, Binaries, IsBinary
<1> QED BY <1>1 DEF StacksConsistent, Rises, MayFollow

LEMMA ConsistentIsNext ==
  StacksConsistent' <=>
    /\ TypeOK'
    /\ pc' \in {"token", "operator", "close", "end"} => Len(trees') = Pending(operators') + 1
    /\ pc' \in {"operand", "group"} => Len(trees') = Pending(operators')
    /\ Rises(operators')
<1>1. Cardinality(Binaries)' = Pending(operators')
  BY DEF Pending, BinariesOf, Binaries, IsBinary
<1> QED BY <1>1 DEF StacksConsistent, Rises, MayFollow

-----------------------------------------------------------------------------
(* What pushing and popping do                                             *)

TreesSound == IsSeq(trees) /\ HaveBlocks(trees) /\ treesCapacity \in Nat
                /\ treesCapacity >= StackCapacity
CountsSound == allocs \in Nat /\ frees \in Nat

\* What is allocated and not found from the trees and their buffer.
OwedByTrees == allocs - frees - TotalOf(trees) - HeapAllocated(treesCapacity)

\* A node that was made of the trees above base is the only one for which an
\* allocation is made; whatever becomes of it, the account of blocks is even.
LEMMA PushTreeDoes ==
  ASSUME TreesSound, CountsSound, NEW base, IsSeq(base), HaveBlocks(base), NEW item, NEW next,
         item.blocks \in Nat, item.blocks = 1 + TotalOf(trees) - TotalOf(base),
         PushTree(item, base, next)
  PROVE  /\ TreesSound' /\ CountsSound' /\ OwedByTrees' = OwedByTrees
         /\ \/ pc' = next /\ status' = status /\ Len(trees') = Len(base) + 1
            \/ pc' = "die" /\ status' = "E_NOMEM"
<1>1. /\ Len(base) \in Nat /\ TotalOf(base) \in Nat /\ TotalOf(trees) \in Nat
      /\ StackCapacity \in Nat \ {0}
  BY SeqLength, TotalNat, ParserAssumption DEF TreesSound
<1>2. HeapAllocated(treesCapacity) \in 0 .. 1
  BY OneNat DEF HeapAllocated
<1>3. ASSUME NEW x, x.blocks \in Nat
      PROVE  /\ IsSeq(Append(base, x)) /\ HaveBlocks(Append(base, x))
             /\ Len(Append(base, x)) = Len(base) + 1
             /\ TotalOf(Append(base, x)) = TotalOf(base) + x.blocks
  BY <1>3, Pushed, TotalAppend
<1>4. CASE /\ Len(base) < treesCapacity
           /\ trees' = Append(base, item)
           /\ allocs' = allocs + 1
           /\ pc' = next
           /\ UNCHANGED <<treesCapacity, frees, status>>
  <2>1. IsSeq(trees') /\ HaveBlocks(trees') /\ Len(trees') = Len(base) + 1
        /\ TotalOf(trees') = TotalOf(base) + item.blocks
    BY <1>3, <1>4
  <2> QED BY <1>1, <1>2, <1>4, <2>1 DEF TreesSound, CountsSound, OwedByTrees
<1>5. CASE /\ Len(base) >= treesCapacity
           /\ trees' = Append(base, item)
           /\ treesCapacity' = 2 * (Len(base) + 1)
           /\ allocs' = allocs + 2
           /\ frees' = frees + HeapAllocated(treesCapacity)
           /\ pc' = next
           /\ UNCHANGED status
  <2>1. IsSeq(trees') /\ HaveBlocks(trees') /\ Len(trees') = Len(base) + 1
        /\ TotalOf(trees') = TotalOf(base) + item.blocks
    BY <1>3, <1>5
  <2>2. treesCapacity' \in Nat /\ treesCapacity' > StackCapacity
    BY <1>1, <1>5 DEF TreesSound
  <2>3. HeapAllocated(treesCapacity') = 1
    BY <2>2 DEF HeapAllocated, One
  <2>4. TreesSound'
    BY <1>1, <2>1, <2>2 DEF TreesSound
  <2>5. /\ allocs' = allocs + 2 /\ frees' = frees + HeapAllocated(treesCapacity)
        /\ allocs \in Nat /\ frees \in Nat /\ HeapAllocated(treesCapacity) \in Nat
    BY <1>2, <1>5 DEF CountsSound
  <2>6. CountsSound'
    BY <2>5 DEF CountsSound
  <2>7. OwedByTrees' = OwedByTrees
    <3>1. TotalOf(trees') = TotalOf(trees) + 1
      BY <1>1, <2>1
    <3> QED BY <1>1, <2>5, <2>3, <3>1 DEF OwedByTrees
  <2>8. CountsSound' /\ OwedByTrees' = OwedByTrees
    BY <2>6, <2>7
  <2> QED BY <1>5, <2>1, <2>4, <2>8
<1>6. CASE /\ Len(base) >= treesCapacity /\ "trees" \in Failing
           /\ trees' = Append(base, [tree |-> Garbage, blocks |-> 0])
           /\ allocs' = allocs + 1
           /\ frees' = frees + item.blocks
           /\ NoMemory
           /\ UNCHANGED treesCapacity
  <2> DEFINE x == [tree |-> Garbage, blocks |-> 0]
  <2>1. x.blocks = 0
    OBVIOUS
  <2>2. IsSeq(trees') /\ HaveBlocks(trees') /\ TotalOf(trees') = TotalOf(base) + 0
    <3> HIDE DEF x
    <3>1. trees' = Append(base, x)
      BY <1>6 DEF x
    <3> QED BY <1>3, <2>1, <3>1
  <2> QED BY <1>1, <1>2, <1>6, <2>2 DEF TreesSound, CountsSound, OwedByTrees, NoMemory, Die
<1> QED BY <1>4, <1>5, <1>6 DEF PushTree

\* The fields of a node that takes the top trees.
LEMMA NodeBlocks ==
  ASSUME NEW op, op.type \in {"ALTERNATION", "REPETITION", "GROUP"}
  PROVE  Node(op).blocks = IF op.type = "ALTERNATION" THEN 1 + Left.blocks + Right.blocks
                           ELSE 1 + Right.blocks
<1>1. CASE op.type = "ALTERNATION"
  BY <1>1 DEF Node
<1>2. CASE op.type = "REPETITION"
  BY <1>2 DEF Node
<1>3. CASE op.type = "GROUP"
  BY <1>3 DEF Node
<1> QED BY <1>1, <1>2, <1>3

\* parser_pop_operator: whichever way an operator joins its operands, and
\* whichever allocation fails, the account is even and the stack is one tree
\* shorter for a binary operator; but for the use of trees that were destroyed.
LEMMA PopOperatorDoes ==
  ASSUME TreesSound, CountsSound, operators # <<>>, Top.type \in OperatorTypes,
         Len(trees) >= 1, IsBinary(Top) => Len(trees) >= 2,
         NEW next, PopOperator(next)
  PROVE  /\ TreesSound' /\ CountsSound'
         /\ operators' = Front(operators)
         /\ UNCHANGED <<lexed, operatorsCapacity, tree>>
         /\ \/ /\ OwedByTrees' = OwedByTrees
               /\ \/ /\ pc' = next /\ status' = status
                     /\ Len(trees') = Len(trees) - One(IsBinary(Top))
                  \/ pc' = "die" /\ status' = "E_NOMEM"
            \/ pc' = "undefined" /\ status' = status
<1> DEFINE n == Len(trees)
<1>1. /\ operators' = Front(operators) /\ UNCHANGED <<lexed, operatorsCapacity, tree>>
      /\ ExtendConcat(next) \/ NewConcat(next) \/ NewNode(next)
  BY DEF PopOperator, Front
<1>2. /\ n \in Nat /\ n >= 1 /\ DOMAIN trees = 1 .. n /\ trees # <<>>
      /\ Right.blocks \in Nat /\ TotalOf(trees) \in Nat
      /\ HeapAllocated(treesCapacity) \in 0 .. 1
      /\ allocs \in Nat /\ frees \in Nat
  <2>1. n \in Nat /\ n >= 1 /\ DOMAIN trees = 1 .. n /\ trees # <<>>
    BY SeqLength DEF TreesSound
  <2>2. Right.blocks \in Nat
    BY <2>1 DEF TreesSound, HaveBlocks, Right
  <2> QED BY <2>1, <2>2, TotalNat, OneNat DEF TreesSound, HeapAllocated, CountsSound
<1>3. /\ IsSeq(Below(1)) /\ HaveBlocks(Below(1)) /\ Len(Below(1)) = n - 1
      /\ TotalOf(trees) = TotalOf(Below(1)) + Right.blocks /\ TotalOf(Below(1)) \in Nat
  <2>1. HaveBlocks(Below(1)) /\ TotalOf(trees) = TotalOf(Below(1)) + Right.blocks
    BY <1>2, TotalFront DEF TreesSound, Below, Front, Right
  <2>2. IsSeq(Below(1)) /\ Len(Below(1)) = n - 1
    BY <1>2, Shortened DEF TreesSound, Below
  <2> QED BY <2>1, <2>2, TotalNat
<1>4. IsBinary(Top) =>
        /\ IsSeq(Below(2)) /\ HaveBlocks(Below(2)) /\ Len(Below(2)) = n - 2
        /\ TotalOf(trees) = TotalOf(Below(2)) + Left.blocks + Right.blocks
        /\ Left.blocks \in Nat /\ TotalOf(Below(2)) \in Nat
  <2> SUFFICES ASSUME IsBinary(Top)
               PROVE  /\ IsSeq(Below(2)) /\ HaveBlocks(Below(2)) /\ Len(Below(2)) = n - 2
                      /\ TotalOf(trees) = TotalOf(Below(2)) + Left.blocks + Right.blocks
                      /\ Left.blocks \in Nat /\ TotalOf(Below(2)) \in Nat
    OBVIOUS
  <2>1. Left.blocks \in Nat
    BY <1>2 DEF TreesSound, HaveBlocks, Left
  <2>2. /\ IsSeq(Below(2)) /\ HaveBlocks(Below(2)) /\ Len(Below(2)) = n - 2
        /\ TotalOf(trees) = TotalOf(Below(2)) + Left.blocks + Right.blocks
    BY TotalBelow2 DEF TreesSound, Below, Left, Right
  <2> QED BY <2>1, <2>2, TotalNat
<1>5. ASSUME IsBinary(Top), NEW x, x.blocks \in Nat, trees' = Append(Below(2), x),
             UNCHANGED treesCapacity
      PROVE  /\ TreesSound' /\ Len(trees') = n - 1
             /\ TotalOf(trees') = TotalOf(Below(2)) + x.blocks
  <2>1. /\ IsSeq(trees') /\ HaveBlocks(trees') /\ Len(trees') = Len(Below(2)) + 1
        /\ TotalOf(trees') = TotalOf(Below(2)) + x.blocks
    BY <1>4, <1>5, Pushed, TotalAppend
  <2>2. TreesSound'
    BY <1>5, <2>1 DEF TreesSound
  <2>3. Len(trees') = n - 1
    <3>1. Len(Below(2)) = n - 2 /\ n \in Nat /\ Len(trees') = Len(Below(2)) + 1
      BY <1>2, <1>4, <1>5, <2>1
    <3> HIDE DEF n
    <3> QED BY <3>1
  <2> QED BY <2>1, <2>2, <2>3
<1>6. CASE ExtendConcat(next)
  <2> DEFINE children == Left.tree.children
             room     == Len(children) < Capacity(Len(children))
             extended == Concat(Append(children, Right.tree), Left.blocks + Right.blocks)
             failed   == Concat(Append(children, Garbage), Left.blocks)
  <2>1. IsBinary(Top) /\ UNCHANGED treesCapacity
    BY <1>6 DEF ExtendConcat, IsBinary
  <2>2. extended.blocks = Left.blocks + Right.blocks /\ failed.blocks = Left.blocks
    BY DEF Concat
  <2>3. One(~room) \in 0 .. 1
    BY OneNat
  <2>4. \/ /\ trees' = Append(Below(2), extended)
           /\ allocs' = allocs + One(~room)
           /\ frees' = frees + One(~room)
           /\ pc' = next /\ UNCHANGED status
        \/ /\ trees' = Append(Below(2), failed)
           /\ frees' = frees + Right.blocks
           /\ NoMemory /\ UNCHANGED allocs
    BY <1>6 DEF ExtendConcat
  <2> HIDE DEF extended, failed, room, children
  <2>5. CASE /\ trees' = Append(Below(2), extended)
             /\ allocs' = allocs + One(~room)
             /\ frees' = frees + One(~room)
             /\ pc' = next /\ UNCHANGED status
    <3>1. extended.blocks \in Nat
      BY <1>2, <1>4, <2>1, <2>2
    <3>2. /\ TreesSound' /\ Len(trees') = n - 1
          /\ TotalOf(trees') = TotalOf(Below(2)) + extended.blocks
      BY <1>5, <2>1, <2>5, <3>1
    <3>3. /\ TreesSound' /\ Len(trees') = n - 1
          /\ TotalOf(trees') = TotalOf(trees)
      BY <1>2, <1>4, <2>1, <2>2, <3>2
    <3>4. /\ allocs' = allocs + One(~room) /\ frees' = frees + One(~room) /\ One(~room) \in Nat
          /\ allocs \in Nat /\ frees \in Nat
      BY <1>2, <2>3, <2>5
    <3>5. CountsSound' /\ allocs' - frees' = allocs - frees
      BY <3>4 DEF CountsSound
    <3>6. CountsSound' /\ OwedByTrees' = OwedByTrees
      BY <2>1, <3>3, <3>5 DEF OwedByTrees
    <3> QED BY <1>1, <2>1, <2>5, <3>3, <3>6 DEF One
  <2>6. CASE /\ trees' = Append(Below(2), failed)
             /\ frees' = frees + Right.blocks
             /\ NoMemory /\ UNCHANGED allocs
    <3>1. /\ TreesSound'
          /\ TotalOf(trees') = TotalOf(Below(2)) + Left.blocks
      BY <1>2, <1>4, <1>5, <2>1, <2>2, <2>6
    <3>2. /\ TotalOf(trees') = TotalOf(trees) - Right.blocks
          /\ allocs' = allocs /\ frees' = frees + Right.blocks
          /\ HeapAllocated(treesCapacity') = HeapAllocated(treesCapacity)
      BY <1>2, <1>4, <2>1, <2>6, <3>1
    <3>3. CountsSound' /\ OwedByTrees' = OwedByTrees
      BY <1>2, <3>2 DEF CountsSound, OwedByTrees
    <3> QED BY <1>1, <2>6, <3>1, <3>3 DEF NoMemory, Die
  <2> QED BY <2>4, <2>5, <2>6
<1>7. CASE NewConcat(next)
  <2> DEFINE joined == Concat(<<Left.tree, Right.tree>>, 2 + Left.blocks + Right.blocks)
             failed == Concat(<<Garbage>>, 1)
  <2>1. IsBinary(Top) /\ UNCHANGED treesCapacity
    BY <1>7 DEF NewConcat, IsBinary
  <2>2. joined.blocks = 2 + Left.blocks + Right.blocks /\ failed.blocks = 1
    BY DEF Concat
  <2>3. \/ /\ trees' = Append(Below(2), joined)
           /\ allocs' = allocs + 2
           /\ pc' = next /\ UNCHANGED <<frees, status>>
        \/ NoMemory /\ UNCHANGED <<trees, memory>>
        \/ /\ trees' = Append(Below(2), failed)
           /\ allocs' = allocs + 1
           /\ frees' = frees + Left.blocks + Right.blocks
           /\ pc' = "undefined" /\ UNCHANGED status
    BY <1>7 DEF NewConcat, NodeFails
  <2> HIDE DEF joined, failed
  <2>4. CASE /\ trees' = Append(Below(2), joined)
             /\ allocs' = allocs + 2
             /\ pc' = next /\ UNCHANGED <<frees, status>>
    <3>1. joined.blocks \in Nat
      BY <1>2, <1>4, <2>1, <2>2
    <3>2. /\ TreesSound' /\ Len(trees') = n - 1
          /\ TotalOf(trees') = TotalOf(Below(2)) + joined.blocks
      BY <1>5, <2>1, <2>4, <3>1
    <3>3. /\ TreesSound' /\ Len(trees') = n - 1
          /\ TotalOf(trees') = TotalOf(trees) + 2
      BY <1>2, <1>4, <2>1, <2>2, <3>2
    <3>4. /\ allocs' = allocs + 2 /\ frees' = frees
          /\ HeapAllocated(treesCapacity') = HeapAllocated(treesCapacity)
      BY <2>1, <2>4
    <3>5. CountsSound' /\ OwedByTrees' = OwedByTrees
      BY <1>2, <3>3, <3>4 DEF CountsSound, OwedByTrees
    <3> QED BY <1>1, <2>1, <2>4, <3>3, <3>5 DEF One
  <2>5. CASE NoMemory /\ UNCHANGED <<trees, memory>>
    BY <1>1, <2>1, <2>5 DEF NoMemory, Die, memory, TreesSound, CountsSound, OwedByTrees
  <2>6. CASE /\ trees' = Append(Below(2), failed)
             /\ allocs' = allocs + 1
             /\ frees' = frees + Left.blocks + Right.blocks
             /\ pc' = "undefined" /\ UNCHANGED status
    <3>1. TreesSound'
      BY <1>5, <2>1, <2>2, <2>6
    <3> QED BY <1>1, <1>2, <1>4, <2>1, <2>6, <3>1 DEF CountsSound
  <2> QED BY <2>3, <2>4, <2>5, <2>6
<1>8. CASE NewNode(next)
  <2>1. /\ Top.type \in {"ALTERNATION", "REPETITION", "GROUP"}
        /\ \/ PushTree(Node(Top), Below(Arity(Top)), next)
           \/ NoMemory /\ UNCHANGED <<trees, treesCapacity, memory>>
    BY <1>8 DEF NewNode, NodeFails, OperatorTypes
  <2>2. Arity(Top) = (IF Top.type = "ALTERNATION" THEN 2 ELSE 1)
        /\ (IsBinary(Top) <=> Top.type = "ALTERNATION")
    BY <2>1 DEF Arity, IsBinary
  <2>3. CASE NoMemory /\ UNCHANGED <<trees, treesCapacity, memory>>
    BY <1>1, <2>3 DEF NoMemory, Die, memory, TreesSound, CountsSound, OwedByTrees
  <2>4. CASE PushTree(Node(Top), Below(Arity(Top)), next)
    <3> DEFINE base == Below(Arity(Top))
               item == Node(Top)
    <3>1. /\ IsSeq(base) /\ HaveBlocks(base) /\ Len(base) = n - 1 - One(IsBinary(Top))
          /\ item.blocks \in Nat /\ item.blocks = 1 + TotalOf(trees) - TotalOf(base)
      <4>1. CASE Top.type = "ALTERNATION"
        <5>1. base = Below(2) /\ IsBinary(Top)
          BY <2>2, <4>1
        <5>2. One(IsBinary(Top)) = 1
          BY <5>1 DEF One
        <5>3. item.blocks = 1 + Left.blocks + Right.blocks
          BY <2>1, <4>1, NodeBlocks
        <5>4. /\ IsSeq(base) /\ HaveBlocks(base) /\ Len(base) = n - 2
              /\ TotalOf(trees) = TotalOf(base) + Left.blocks + Right.blocks
              /\ Left.blocks \in Nat /\ TotalOf(base) \in Nat
          BY <1>4, <5>1
        <5>5. Right.blocks \in Nat /\ n \in Nat
          BY <1>2
        <5> HIDE DEF item, base, n
        <5>6. item.blocks \in Nat
          BY <5>3, <5>4, <5>5
        <5>7. item.blocks = 1 + TotalOf(trees) - TotalOf(base)
          BY <5>3, <5>4, <5>5
        <5>8. Len(base) = n - 1 - One(IsBinary(Top))
          BY <5>2, <5>4, <5>5
        <5> QED BY <5>4, <5>6, <5>7, <5>8
      <4>2. CASE Top.type # "ALTERNATION"
        <5>1. base = Below(1) /\ One(IsBinary(Top)) = 0
          BY <2>2, <4>2 DEF One
        <5>2. item.blocks = 1 + Right.blocks
          BY <2>1, <4>2, NodeBlocks
        <5>3. /\ IsSeq(base) /\ HaveBlocks(base) /\ Len(base) = n - 1
              /\ TotalOf(trees) = TotalOf(base) + Right.blocks /\ TotalOf(base) \in Nat
          BY <1>3, <5>1
        <5> HIDE DEF item, base, n
        <5>4. item.blocks \in Nat /\ item.blocks = 1 + TotalOf(trees) - TotalOf(base)
          BY <1>2, <5>2, <5>3
        <5> QED BY <1>2, <5>1, <5>3, <5>4
      <4> QED BY <4>1, <4>2
    <3>2. PushTree(item, base, next)
      BY <2>4
    <3> HIDE DEF base, item
    <3>3. /\ TreesSound' /\ CountsSound' /\ OwedByTrees' = OwedByTrees
          /\ \/ pc' = next /\ status' = status /\ Len(trees') = Len(base) + 1
             \/ pc' = "die" /\ status' = "E_NOMEM"
      BY <3>1, <3>2, PushTreeDoes
    <3> QED BY <1>1, <1>2, <3>1, <3>3, OneNat
  <2> QED BY <2>1, <2>3, <2>4
<1> QED BY <1>1, <1>6, <1>7, <1>8

-----------------------------------------------------------------------------
(* Each action preserves the invariant                                     *)

\* What the invariant says of each variable.
LEMMA Facts ==
  ASSUME IInv
  PROVE  /\ TypeOK /\ Stacks /\ Stages /\ BlocksAccounted /\ TreesSound /\ CountsSound
         /\ Rises(operators) /\ HaveTypes(operators) /\ IsSeq(operators)
         /\ operators # <<>> => Top.type \in OperatorTypes
         /\ Pending(operators) \in Nat /\ Len(trees) \in Nat
         /\ pc \in {"token", "operator", "close", "end"} => Len(trees) = Pending(operators) + 1
         /\ pc \in {"operand", "group"} => Len(trees) = Pending(operators)
         /\ StackCapacity \in Nat \ {0}
<1>1. /\ TypeOK /\ Stacks /\ Stages /\ BlocksAccounted /\ Rises(operators)
      /\ pc \in {"token", "operator", "close", "end"} => Len(trees) = Pending(operators) + 1
      /\ pc \in {"operand", "group"} => Len(trees) = Pending(operators)
  BY ConsistentIs DEF IInv
<1>2. TreesSound /\ CountsSound
  BY <1>1 DEF TypeOK, Stacks, TreesSound, CountsSound
<1>3. HaveTypes(operators) /\ IsSeq(operators)
  BY <1>1 DEF TypeOK, Stacks, HaveTypes, OperatorTypes
<1>4. operators # <<>> => Top.type \in OperatorTypes
  BY <1>3, SeqLength DEF HaveTypes, Top
<1>5. Pending(operators) \in Nat /\ Len(trees) \in Nat
  BY <1>3, <1>2, BinariesFinite, SeqLength DEF TreesSound
<1> QED BY <1>1, <1>2, <1>3, <1>4, <1>5, ParserAssumption

\* A step that pushes or makes trees.
LEMMA TreesStep ==
  ASSUME IInv, pc \notin Elsewhere, pc # "undefined",
         TreesSound', CountsSound', UNCHANGED <<lexed, operatorsCapacity, tree>>,
         IsSeq(operators'), HaveTypes(operators'), Rises(operators'),
         status' \in {status, "E_NOMEM"},
         pc' \in {"token", "operator", "close", "end", "die", "undefined"},
         pc' = "undefined" \/ OwedByTrees' = OwedByTrees,
         pc' \in {"token", "operator", "close", "end"} =>
           Len(trees') = Pending(operators') + 1
  PROVE  IInv'
<1>1. TypeOK /\ Stacks /\ BlocksAccounted /\ TreesSound /\ CountsSound
  BY Facts
<1>2. TypeOK'
  BY <1>1 DEF TypeOK, TreesSound, CountsSound, HaveTypes, OperatorTypes, lexed, Places
<1>3. Stacks'
  BY <1>1 DEF Stacks, TreesSound, lexed
<1>4. Stages'
  BY DEF Stages
<1>5. StacksConsistent'
  BY <1>2, ConsistentIsNext
<1>6. BlocksAccounted'
  <2>1. CASE pc' = "undefined"
    BY <2>1 DEF BlocksAccounted
  <2>2. CASE pc' # "undefined"
    <3>1. pc' \notin Elsewhere
      BY DEF Elsewhere
    <3>2. Owed = 1
      BY <1>1, AccountedIs DEF BlocksAccounted
    <3>3. Owed = OwedByTrees - HeapAllocated(operatorsCapacity) - One(classesCapacity > 0)
      <4>1. TotalOf(trees) \in Nat /\ allocs \in Nat /\ frees \in Nat
        BY <1>1, TotalNat DEF Stacks, TypeOK
      <4>2. One(classesCapacity > 0) \in Nat /\ HeapAllocated(operatorsCapacity) \in Nat
            /\ HeapAllocated(treesCapacity) \in Nat
        BY OneNat DEF HeapAllocated
      <4> QED BY <4>1, <4>2 DEF Owed, OwedByTrees
    <3>4. Owed' = OwedByTrees' - HeapAllocated(operatorsCapacity') - One(classesCapacity' > 0)
      <4>1. TotalOf(trees') \in Nat /\ allocs' \in Nat /\ frees' \in Nat
        BY TotalNat DEF TreesSound, CountsSound
      <4>2. One(classesCapacity' > 0) \in Nat /\ HeapAllocated(operatorsCapacity') \in Nat
            /\ HeapAllocated(treesCapacity') \in Nat
        BY OneNat DEF HeapAllocated
      <4> QED BY <4>1, <4>2 DEF Owed, OwedByTrees
    <3>5. operatorsCapacity' = operatorsCapacity /\ classesCapacity' = classesCapacity
      BY DEF lexed
    <3>6. Owed' = Owed
      BY <2>2, <3>3, <3>4, <3>5
    <3> QED BY <1>2, <1>3, <3>1, <3>2, <3>6, AccountedIsNext DEF BlocksAccounted
  <2> QED BY <2>1, <2>2
<1> QED BY <1>3, <1>4, <1>5, <1>6 DEF IInv

\* A step that pops an operator and makes a tree of its operands.
LEMMA PopStep ==
  ASSUME IInv, pc \in {"operator", "close", "end"}, operators # <<>>,
         NEW next, next \in {"operator", "token", "close", "end"}, PopOperator(next)
  PROVE  IInv'
<1>1. /\ TreesSound /\ CountsSound /\ Top.type \in OperatorTypes
      /\ IsSeq(operators) /\ HaveTypes(operators) /\ Rises(operators)
      /\ Len(trees) = Pending(operators) + 1
  BY Facts
<1>2. /\ IsSeq(Front(operators)) /\ HaveTypes(Front(operators)) /\ Rises(Front(operators))
      /\ Pending(operators) = Pending(Front(operators)) + One(IsBinary(Top))
      /\ Pending(Front(operators)) \in Nat
  BY <1>1, OperatorsPopped DEF Top
<1>3. One(IsBinary(Top)) \in 0 .. 1 /\ (IsBinary(Top) => One(IsBinary(Top)) = 1)
  BY DEF One
<1>4. Len(trees) >= 1 /\ (IsBinary(Top) => Len(trees) >= 2)
  BY <1>1, <1>2, <1>3
<1>5. /\ TreesSound' /\ CountsSound'
      /\ operators' = Front(operators)
      /\ UNCHANGED <<lexed, operatorsCapacity, tree>>
      /\ \/ /\ OwedByTrees' = OwedByTrees
            /\ \/ /\ pc' = next /\ status' = status
                  /\ Len(trees') = Len(trees) - One(IsBinary(Top))
               \/ pc' = "die" /\ status' = "E_NOMEM"
         \/ pc' = "undefined" /\ status' = status
  BY <1>1, <1>4, PopOperatorDoes
<1>6. pc' = next /\ Len(trees') = Len(trees) - One(IsBinary(Top)) =>
        Len(trees') = Pending(operators') + 1
  BY <1>1, <1>2, <1>3, <1>5
<1>7. pc \notin Elsewhere /\ pc # "undefined"
  BY DEF Elsewhere
<1> QED BY <1>2, <1>5, <1>6, <1>7, TreesStep

\* A step that pushes an operator.
LEMMA PushStep ==
  ASSUME IInv, pc \in {"operator", "group"}, NEW op, op.type \in OperatorTypes,
         operators # <<>> => MayFollow(Top, op),
         NEW next, PushOperator(op, next),
         UNCHANGED <<pattern, classesSize, classesCapacity, trees, treesCapacity, tree>>,
         groups' \in Nat,
         \/ next = "token" /\ ~IsBinary(op) /\ pc = "operator"
         \/ next = "operand" /\ (IsBinary(op) <=> pc = "operator")
         \/ next = "group" /\ op.type = "CONCATENATION" /\ pc = "operator"
  PROVE  IInv'
<1>1. /\ TypeOK /\ Stacks /\ BlocksAccounted
      /\ IsSeq(operators) /\ HaveTypes(operators) /\ Rises(operators)
      /\ Len(trees) = IF pc = "operator" THEN Pending(operators) + 1 ELSE Pending(operators)
      /\ StackCapacity \in Nat \ {0} /\ Pending(operators) \in Nat
  BY Facts
<1>2. pc \notin Elsewhere /\ Owed = 1
  <2>1. pc \notin Elsewhere /\ pc # "undefined"
    BY DEF Elsewhere
  <2> QED BY <1>1, <2>1, AccountedIs DEF BlocksAccounted
<1>3. TotalOf(trees) \in Nat /\ allocs \in Nat /\ frees \in Nat
      /\ One(classesCapacity > 0) \in Nat /\ HeapAllocated(operatorsCapacity) \in Nat
      /\ HeapAllocated(treesCapacity) \in Nat
  BY <1>1, TotalNat, OneNat DEF Stacks, TypeOK, HeapAllocated
<1>4. CASE /\ Len(operators) >= operatorsCapacity /\ "operators" \in Failing
           /\ NoMemory
           /\ UNCHANGED <<operators, operatorsCapacity, memory>>
  <2>1. pc' = "die" /\ status' = "E_NOMEM"
    BY <1>4 DEF NoMemory, Die
  <2>2. TypeOK'
    BY <1>1, <1>4, <2>1 DEF TypeOK, Places, memory
  <2>3. Stacks' /\ Stages' /\ StacksConsistent'
    BY <1>1, <1>4, <2>1, <2>2, ConsistentIsNext DEF Stacks, Stages
  <2>4. Owed' = Owed
    BY <1>4 DEF Owed, memory
  <2>5. BlocksAccounted'
    BY <1>2, <2>1, <2>2, <2>3, <2>4, AccountedIsNext DEF BlocksAccounted, Elsewhere
  <2> QED BY <2>3, <2>5 DEF IInv
<1>5. CASE /\ operators' = Append(operators, op)
           /\ IF Len(operators) < operatorsCapacity THEN UNCHANGED <<operatorsCapacity, memory>>
              ELSE /\ operatorsCapacity' = 2 * (Len(operators) + 1)
                   /\ allocs' = allocs + 1
                   /\ frees' = frees + HeapAllocated(operatorsCapacity)
           /\ pc' = next /\ UNCHANGED status
  <2>1. /\ IsSeq(operators') /\ HaveTypes(operators') /\ Rises(operators')
        /\ operators' # <<>> /\ Top' = op
        /\ Pending(operators') = Pending(operators) + One(IsBinary(op))
    <3>1. operators # <<>> => MayFollow(operators[Len(operators)], op)
      BY DEF Top
    <3> QED BY <1>1, <1>5, <3>1, OperatorsPushed DEF Top
  <2>2. /\ operatorsCapacity' \in Nat /\ operatorsCapacity' >= StackCapacity
        /\ allocs' \in Nat /\ frees' \in Nat
        /\ allocs' - frees' - HeapAllocated(operatorsCapacity')
             = allocs - frees - HeapAllocated(operatorsCapacity)
    <3>1. CASE Len(operators) < operatorsCapacity
      BY <1>1, <1>3, <1>5, <3>1 DEF memory, Stacks, TypeOK
    <3>2. CASE ~(Len(operators) < operatorsCapacity)
      <4>1. Len(operators) \in Nat /\ operatorsCapacity \in Nat
            /\ operatorsCapacity >= StackCapacity
        BY <1>1, SeqLength DEF TypeOK, Stacks
      <4>2. operatorsCapacity' \in Nat /\ operatorsCapacity' > StackCapacity
        BY <1>1, <1>5, <3>2, <4>1
      <4>3. HeapAllocated(operatorsCapacity') = 1
        BY <4>2 DEF HeapAllocated, One
      <4>4. allocs' = allocs + 1 /\ frees' = frees + HeapAllocated(operatorsCapacity)
        BY <1>5, <3>2
      <4> QED BY <1>1, <1>3, <4>2, <4>3, <4>4
    <3> QED BY <3>1, <3>2
  <2>3. TypeOK'
    BY <1>1, <1>5, <2>1, <2>2 DEF TypeOK, HaveTypes, OperatorTypes, Places
  <2>4. Stacks' /\ Stages'
    BY <1>1, <1>5, <2>1, <2>2 DEF Stacks, Stages
  <2>5. StacksConsistent'
    <3>1. IsBinary(op) => Pending(operators') = Pending(operators) + 1
      BY <2>1 DEF One
    <3>2. ~IsBinary(op) => Pending(operators') = Pending(operators)
      BY <1>1, <2>1 DEF One
    <3>3. Len(trees') = Len(trees)
      OBVIOUS
    <3>4. ~(op.type = "CONCATENATION" /\ ~IsBinary(op))
      BY DEF IsBinary
    <3> QED BY <1>1, <1>5, <2>1, <2>3, <3>1, <3>2, <3>3, <3>4, ConsistentIsNext
  <2>6. BlocksAccounted'
    <3>1. Owed' = 1
      <4>1. TotalOf(trees') = TotalOf(trees) /\ HeapAllocated(treesCapacity') = HeapAllocated(treesCapacity)
            /\ One(classesCapacity' > 0) = One(classesCapacity > 0)
        OBVIOUS
      <4>2. HeapAllocated(operatorsCapacity') \in Nat
        BY OneNat DEF HeapAllocated
      <4>3. Owed = (allocs - frees - HeapAllocated(operatorsCapacity)) - TotalOf(trees)
                     - HeapAllocated(treesCapacity) - One(classesCapacity > 0)
        BY <1>3 DEF Owed
      <4>4. Owed' = (allocs' - frees' - HeapAllocated(operatorsCapacity')) - TotalOf(trees)
                      - HeapAllocated(treesCapacity) - One(classesCapacity > 0)
        BY <1>3, <2>2, <4>1, <4>2 DEF Owed
      <4> QED BY <1>2, <2>2, <4>3, <4>4
    <3>2. pc' \notin Elsewhere
      BY <1>5 DEF Elsewhere
    <3> QED BY <2>3, <2>4, <3>1, <3>2, AccountedIsNext DEF BlocksAccounted
  <2> QED BY <2>4, <2>5, <2>6 DEF IInv
<1> QED BY <1>4, <1>5 DEF PushOperator

\* A step that leaves stacks and memory alone.
LEMMA QuietStep ==
  ASSUME IInv, pc \in {"token", "operator", "close", "end"},
         UNCHANGED <<groups, classesSize, classesCapacity, stacks, tree, memory>>,
         IsSeq(pattern'), Len(pattern') <= MaxTokens,
         status' \in {status, "E_NOMEM", "E_UNMATCHED_OPEN_PAREN",
                     "E_UNMATCHED_CLOSE_PAREN"} \cup LexErrors,
         pc' \in {"operator", "close", "end", "die"}
  PROVE  IInv'
<1>1. /\ TypeOK /\ Stacks /\ BlocksAccounted /\ Rises(operators)
      /\ Len(trees) = Pending(operators) + 1
  BY Facts
<1>2. pc \notin Elsewhere /\ pc' \notin Elsewhere /\ Owed = 1
  <2>1. pc \notin Elsewhere /\ pc' \notin Elsewhere /\ pc # "undefined"
    BY DEF Elsewhere
  <2> QED BY <1>1, <2>1, AccountedIs DEF BlocksAccounted
<1>3. TypeOK'
  BY <1>1 DEF TypeOK, Places, stacks, memory
<1>4. Stacks' /\ Stages'
  BY <1>1 DEF Stacks, Stages, stacks
<1>5. StacksConsistent'
  BY <1>1, <1>3, ConsistentIsNext DEF stacks
<1>6. Owed' = Owed
  BY DEF Owed, stacks, memory
<1>7. BlocksAccounted'
  BY <1>2, <1>3, <1>4, <1>6, AccountedIsNext DEF BlocksAccounted
<1> QED BY <1>4, <1>5, <1>7 DEF IInv

LEMMA InitInv == Init => IInv
<1> SUFFICES ASSUME Init PROVE IInv
  OBVIOUS
<1>1. IsSeq(<<>>) /\ Len(<<>>) = 0 /\ DOMAIN <<>> = {}
  BY NoElements
<1>2. TypeOK
  BY <1>1, ParserAssumption DEF Init, TypeOK, Places
<1>3. StacksConsistent
  BY <1>2, NonePending, ConsistentIs DEF Init
<1>4. BlocksAccounted
  BY DEF Init, BlocksAccounted, Held
<1>5. Stacks
  BY <1>1, ParserAssumption DEF Init, Stacks, HaveBlocks
<1>6. Stages
  BY DEF Init, Stages
<1> QED BY <1>3, <1>4, <1>5, <1>6 DEF IInv

LEMMA AllocRegexInv == IInv /\ AllocRegex => IInv'
<1> SUFFICES ASSUME IInv, AllocRegex PROVE IInv'
  OBVIOUS
<1>1. /\ TypeOK /\ Stacks /\ Stages /\ BlocksAccounted /\ Rises(operators)
  BY Facts
<1>2. /\ pc = "regex" /\ UNCHANGED <<lexed, stacks, tree, frees>>
      /\ \/ allocs' = allocs + 1 /\ pc' = "begin" /\ UNCHANGED status
         \/ pc' = "failed" /\ status' = "E_NOMEM" /\ UNCHANGED allocs
  BY DEF AllocRegex
<1>3. TypeOK'
  BY <1>1, <1>2 DEF TypeOK, Places, stacks, lexed
<1>4. Stacks' /\ Stages'
  BY <1>1, <1>2 DEF Stacks, Stages, stacks, lexed
<1>5. StacksConsistent'
  BY <1>1, <1>2, <1>3, ConsistentIsNext DEF stacks
<1>6. allocs = frees + 0 /\ allocs \in Nat /\ frees \in Nat
  BY <1>1, <1>2 DEF BlocksAccounted, Held, TypeOK
<1>7. CASE pc' = "begin"
  <2>1. TotalOf(trees') = 0 /\ HeapAllocated(operatorsCapacity') = 0
        /\ HeapAllocated(treesCapacity') = 0 /\ One(classesCapacity' > 0) = 0
    BY <1>1, <1>2, TotalNone, ParserAssumption DEF Stages, HeapAllocated, One, stacks, lexed
  <2>2. Owed' = 1
    BY <1>2, <1>6, <1>7, <2>1 DEF Owed
  <2>3. BlocksAccounted'
    BY <1>3, <1>4, <1>7, <2>2, AccountedIsNext DEF BlocksAccounted, Elsewhere
  <2> QED BY <1>4, <1>5, <2>3 DEF IInv
<1>8. CASE pc' = "failed"
  <2>1. BlocksAccounted'
    BY <1>2, <1>6, <1>8 DEF BlocksAccounted, Held
  <2> QED BY <1>4, <1>5, <2>1 DEF IInv
<1> QED BY <1>2, <1>7, <1>8

\* A tree of one block on the stack.
LEMMA PushLeaf ==
  ASSUME IInv, pc \in {"begin", "operand"}, NEW t,
         \/ PushTree(Leaf(t), trees, "token")
         \/ NodeFails /\ UNCHANGED <<trees, treesCapacity, memory>>,
         UNCHANGED <<lexed, operators, operatorsCapacity, tree>>
  PROVE  IInv'
<1>1. /\ TreesSound /\ CountsSound /\ Stages /\ Len(trees) \in Nat
      /\ IsSeq(operators) /\ HaveTypes(operators) /\ Rises(operators)
      /\ pc = "operand" => Len(trees) = Pending(operators)
  BY Facts
<1>2. Len(trees) = Pending(operators)
  BY <1>1, NonePending, NoElements DEF Stages
<1>3. pc \notin Elsewhere /\ pc # "undefined"
  BY DEF Elsewhere
<1>4. CASE NodeFails /\ UNCHANGED <<trees, treesCapacity, memory>>
  <2>1. /\ pc' = "die" /\ status' = "E_NOMEM"
        /\ TreesSound' /\ CountsSound' /\ OwedByTrees' = OwedByTrees
    BY <1>1, <1>4 DEF NodeFails, NoMemory, Die, memory, TreesSound, CountsSound, OwedByTrees
  <2> QED BY <1>1, <1>3, <2>1, TreesStep
<1>5. CASE PushTree(Leaf(t), trees, "token")
  <2> DEFINE item == Leaf(t)
  <2>1. item.blocks = 1 /\ TotalOf(trees) \in Nat
    BY <1>1, TotalNat DEF Leaf, TreesSound
  <2>2. item.blocks \in Nat /\ item.blocks = 1 + TotalOf(trees) - TotalOf(trees)
    BY <2>1
  <2>3. PushTree(item, trees, "token")
    BY <1>5
  <2> HIDE DEF item
  <2>4. /\ TreesSound' /\ CountsSound' /\ OwedByTrees' = OwedByTrees
        /\ \/ pc' = "token" /\ status' = status /\ Len(trees') = Len(trees) + 1
           \/ pc' = "die" /\ status' = "E_NOMEM"
    BY <1>1, <2>2, <2>3, PushTreeDoes DEF TreesSound
  <2> QED BY <1>1, <1>2, <1>3, <2>4, TreesStep
<1> QED BY <1>4, <1>5

LEMMA BeginInv == IInv /\ Begin => IInv'
  BY PushLeaf DEF Begin, PushEmpty, Empty

LEMMA OperandInv == IInv /\ Operand => IInv'
  BY PushLeaf DEF Operand, PushEmpty, Empty

LEMMA LexInv == IInv /\ (Lex \/ LexError \/ LexNoMemory) => IInv'
<1> SUFFICES ASSUME IInv, Lex \/ LexError \/ LexNoMemory PROVE IInv'
  OBVIOUS
<1>1. IsSeq(pattern) /\ Len(pattern) \in Nat /\ Len(pattern) <= MaxTokens /\ MaxTokens \in Nat
  BY Facts, SeqLength, ParserAssumption DEF Stacks, TypeOK
<1>2. CASE Lex
  <2>1. PICK t \in Tokens : pattern' = Append(pattern, t) /\ pc' = AfterLex(t)
    BY <1>2 DEF Lex
  <2>2. IsSeq(pattern') /\ Len(pattern') = Len(pattern) + 1
    BY <1>1, <2>1, Pushed
  <2>3. Len(pattern') <= MaxTokens
    BY <1>1, <1>2, <2>2 DEF Lex
  <2>4. pc' \in {"operator", "close"}
    BY <2>1 DEF AfterLex
  <2> QED BY <1>2, <2>2, <2>3, <2>4, QuietStep DEF Lex
<1>3. CASE LexError
  BY <1>1, <1>3, QuietStep DEF LexError, Die, lexed
<1>4. CASE LexNoMemory
  BY <1>1, <1>4, QuietStep DEF LexNoMemory, NoMemory, Die, lexed
<1> QED BY <1>2, <1>3, <1>4

LEMMA UnmatchedInv == IInv /\ (UnmatchedClose \/ UnmatchedOpen \/ End) => IInv'
<1> SUFFICES ASSUME IInv, UnmatchedClose \/ UnmatchedOpen \/ End PROVE IInv'
  OBVIOUS
<1>1. IsSeq(pattern) /\ Len(pattern) <= MaxTokens
  BY Facts DEF Stacks, TypeOK
<1>2. CASE UnmatchedClose
  BY <1>1, <1>2, QuietStep DEF UnmatchedClose, Die, lexed
<1>3. CASE UnmatchedOpen
  BY <1>1, <1>3, QuietStep DEF UnmatchedOpen, Die, lexed
<1>4. CASE End
  BY <1>1, <1>4, QuietStep DEF End, lexed
<1> QED BY <1>2, <1>3, <1>4

\* Room for a class is made before the class is known.
LEMMA LexCharClassInv == IInv /\ LexCharClass => IInv'
<1> SUFFICES ASSUME IInv, LexCharClass PROVE IInv'
  OBVIOUS
<1>1. /\ TypeOK /\ Stacks /\ BlocksAccounted /\ Rises(operators)
      /\ pc = "token" /\ Len(trees) = Pending(operators) + 1
  BY Facts DEF LexCharClass
<1>2. Owed = 1
  <2>1. pc \notin Elsewhere /\ pc # "undefined"
    BY <1>1 DEF Elsewhere
  <2> QED BY <1>1, <2>1, AccountedIs DEF BlocksAccounted
<1>3. UNCHANGED <<groups, stacks, tree>>
  BY DEF LexCharClass
<1>4. /\ IsSeq(pattern') /\ Len(pattern') <= MaxTokens
      /\ classesSize' \in Nat /\ classesSize' \in classesSize .. classesSize + 1
      /\ pc' \in {"operator", "die"}
      /\ status' \in {status, "E_BAD_CHARACTER_CLASS"}
      /\ classesSize' = classesSize + 1 => Len(pattern') = Len(pattern) + 1
  <2>1. /\ Len(pattern) \in Nat /\ MaxTokens \in Nat /\ Len(pattern) < MaxTokens
        /\ IsSeq(pattern) /\ classesSize \in Nat
    BY <1>1, SeqLength, ParserAssumption DEF LexCharClass, Stacks, TypeOK
  <2>2. CASE Die("E_BAD_CHARACTER_CLASS") /\ UNCHANGED <<pattern, classesSize>>
    BY <2>1, <2>2 DEF Die
  <2>3. CASE /\ \E i \in 0 .. classesSize :
                  /\ pattern' = Append(pattern, [type |-> "CHAR_CLASS", index |-> i])
                  /\ classesSize' = IF i = classesSize THEN i + 1 ELSE classesSize
             /\ pc' = "operator" /\ UNCHANGED status
    <3>1. PICK i \in 0 .. classesSize :
            /\ pattern' = Append(pattern, [type |-> "CHAR_CLASS", index |-> i])
            /\ classesSize' = IF i = classesSize THEN i + 1 ELSE classesSize
      BY <2>3
    <3>2. IsSeq(pattern') /\ Len(pattern') = Len(pattern) + 1
      BY <2>1, <3>1, Pushed
    <3>3. classesSize' \in {classesSize, classesSize + 1}
      BY <3>1
    <3> QED BY <2>1, <2>3, <3>2, <3>3
  <2> QED BY <2>2, <2>3 DEF LexCharClass
<1>5. /\ classesCapacity' \in Nat /\ allocs' \in Nat /\ frees' \in Nat
      /\ classesSize' <= classesCapacity'
      /\ allocs' - frees' - One(classesCapacity' > 0) = allocs - frees - One(classesCapacity > 0)
  <2>1. /\ classesCapacity \in Nat /\ classesSize \in Nat /\ allocs \in Nat /\ frees \in Nat
        /\ classesSize <= classesCapacity /\ One(classesCapacity > 0) \in Nat
    BY <1>1, OneNat DEF TypeOK
  <2>2. CASE classesSize < classesCapacity
    BY <1>4, <2>1, <2>2 DEF LexCharClass, memory
  <2>3. CASE ~(classesSize < classesCapacity)
    <3>1. /\ classesCapacity' = 2 * classesCapacity + 1
          /\ allocs' = allocs + 1
          /\ frees' = frees + One(classesCapacity > 0)
      BY <2>3 DEF LexCharClass
    <3>2. classesCapacity' \in Nat /\ classesCapacity' > 0 /\ classesSize' <= classesCapacity'
      BY <1>4, <2>1, <3>1
    <3>3. One(classesCapacity' > 0) = 1
      BY <3>2 DEF One
    <3> QED BY <2>1, <3>1, <3>2, <3>3
  <2> QED BY <2>2, <2>3
<1>6. TypeOK'
  BY <1>1, <1>3, <1>4, <1>5 DEF TypeOK, Places, stacks, LexErrors
<1>7. Stacks' /\ Stages'
  BY <1>1, <1>3, <1>4 DEF Stacks, Stages, stacks
<1>8. StacksConsistent'
  BY <1>1, <1>3, <1>4, <1>6, ConsistentIsNext DEF stacks
<1>9. BlocksAccounted'
  <2>1. /\ TotalOf(trees) \in Nat /\ HeapAllocated(operatorsCapacity) \in Nat
        /\ HeapAllocated(treesCapacity) \in Nat
        /\ One(classesCapacity > 0) \in Nat /\ One(classesCapacity' > 0) \in Nat
        /\ allocs \in Nat /\ frees \in Nat
    BY <1>1, TotalNat, OneNat DEF Stacks, HeapAllocated, TypeOK
  <2>2. Owed = (allocs - frees - One(classesCapacity > 0)) - TotalOf(trees)
                 - HeapAllocated(operatorsCapacity) - HeapAllocated(treesCapacity)
    BY <2>1 DEF Owed
  <2>3. Owed' = (allocs' - frees' - One(classesCapacity' > 0)) - TotalOf(trees)
                  - HeapAllocated(operatorsCapacity) - HeapAllocated(treesCapacity)
    <3>1. trees' = trees /\ operatorsCapacity' = operatorsCapacity
          /\ treesCapacity' = treesCapacity
      BY <1>3 DEF stacks
    <3> QED BY <1>5, <2>1, <3>1 DEF Owed
  <2>4. Owed' = 1
    BY <1>2, <1>5, <2>2, <2>3
  <2> QED BY <1>4, <1>6, <1>7, <2>4, AccountedIsNext DEF BlocksAccounted, Elsewhere
<1> QED BY <1>7, <1>8, <1>9 DEF IInv

LEMMA PopInv == IInv /\ (PopTighter \/ CloseParen \/ PopRest) => IInv'
<1> SUFFICES ASSUME IInv, PopTighter \/ CloseParen \/ PopRest PROVE IInv'
  OBVIOUS
<1>1. CASE PopTighter
  BY <1>1, PopStep DEF PopTighter, BindsTighter
<1>2. CASE CloseParen
  <2>1. CASE Top.type = "GROUP"
    BY <1>2, <2>1, PopStep DEF CloseParen
  <2>2. CASE Top.type # "GROUP"
    BY <1>2, <2>2, PopStep DEF CloseParen
  <2> QED BY <2>1, <2>2
<1>3. CASE PopRest
  BY <1>3, PopStep DEF PopRest
<1> QED BY <1>1, <1>2, <1>3

\* What does not bind tighter stays below the new operator.
LEMMA ShiftInv == IInv /\ Shift => IInv'
<1> SUFFICES ASSUME IInv, Shift PROVE IInv'
  OBVIOUS
<1> DEFINE op   == OperatorOf(token)
           next == CASE token.type \in Repetitions -> "token"
                     [] token.type \in OpenParens  -> "group"
                     [] OTHER                      -> "operand"
<1>1. /\ pc = "operator" /\ ~BindsTighter(op) /\ PushOperator(op, next)
      /\ UNCHANGED <<lexed, trees, treesCapacity, tree>>
  BY DEF Shift
<1>2. \/ op.type = "ALTERNATION" /\ next = "operand"
      \/ op.type = "REPETITION" /\ next = "token"
      \/ op.type = "CONCATENATION" /\ next \in {"group", "operand"}
  <2>1. CASE token.type = "PIPE"
    BY <2>1 DEF OperatorOf, Repetitions, OpenParens
  <2>2. CASE token.type \in Repetitions
    BY <2>2 DEF OperatorOf, Repetitions, OpenParens
  <2>3. CASE token.type # "PIPE" /\ token.type \notin Repetitions
    <3>1. op.type = "CONCATENATION"
      BY <2>3 DEF OperatorOf
    <3>2. next \in {"group", "operand"}
      BY <2>3
    <3> QED BY <3>1, <3>2
  <2> QED BY <2>1, <2>2, <2>3
<1> HIDE DEF op, next
<1>3. op.type \in OperatorTypes
  BY <1>2 DEF OperatorTypes
<1>4. operators # <<>> => MayFollow(Top, op)
  <2> SUFFICES ASSUME operators # <<>> PROVE MayFollow(Top, op)
    OBVIOUS
  <2>1. Top.type \in OperatorTypes /\ op.type # "GROUP"
    BY <1>2, Facts
  <2>2. ~(Rank(Top.type) <= Rank(op.type))
    BY <1>1 DEF BindsTighter
  <2>3. Rank(Top.type) \in Nat /\ Rank(op.type) \in Nat
    BY <1>3, <2>1 DEF Rank, OperatorTypes
  <2>4. Rank(op.type) < Rank(Top.type)
    BY <2>2, <2>3
  <2> QED BY <2>1, <2>4 DEF MayFollow
<1>5. /\ UNCHANGED <<pattern, classesSize, classesCapacity, trees, treesCapacity, tree>>
      /\ groups' \in Nat
  BY <1>1, Facts DEF lexed, TypeOK
<1>6. \/ next = "token" /\ ~IsBinary(op)
      \/ next = "operand" /\ IsBinary(op)
      \/ next = "group" /\ op.type = "CONCATENATION"
  BY <1>2 DEF IsBinary
<1> QED BY <1>1, <1>3, <1>4, <1>5, <1>6, PushStep

\* A group stands on the concatenation that was pushed before it.
LEMMA OpenGroupInv == IInv /\ OpenGroup => IInv'
<1> SUFFICES ASSUME IInv, OpenGroup PROVE IInv'
  OBVIOUS
<1> DEFINE op == GroupOf(token)
<1>1. /\ pc = "group" /\ PushOperator(op, "operand")
      /\ UNCHANGED <<pattern, classesSize, classesCapacity, trees, treesCapacity, tree>>
      /\ groups' = groups + One(token.type = "OPEN_PAREN")
  BY DEF OpenGroup
<1>2. op.type = "GROUP"
  BY DEF GroupOf
<1>3. Top.type = "CONCATENATION"
  BY <1>1, Facts DEF Stages
<1>4. groups' \in Nat
  <2>1. groups \in Nat /\ One(token.type = "OPEN_PAREN") \in Nat
    BY Facts, OneNat DEF TypeOK
  <2> QED BY <1>1, <2>1
<1> HIDE DEF op
<1>5. op.type \in OperatorTypes /\ ~IsBinary(op) /\ MayFollow(Top, op)
  BY <1>2, <1>3 DEF OperatorTypes, IsBinary, MayFollow
<1> QED BY <1>1, <1>4, <1>5, PushStep

\* With no operator left there is one tree, and its blocks are all there are.
LEMMA FinishInv == IInv /\ Finish => IInv'
<1> SUFFICES ASSUME IInv, Finish PROVE IInv'
  OBVIOUS
<1>1. /\ TypeOK /\ Stacks /\ BlocksAccounted /\ Rises(operators)
      /\ pc = "end" /\ operators = <<>> /\ Len(trees) = Pending(operators) + 1
      /\ UNCHANGED <<lexed, operators, operatorsCapacity, treesCapacity>>
  BY Facts DEF Finish
<1>2. Owed = 1
  <2>1. pc \notin Elsewhere /\ pc # "undefined"
    BY <1>1 DEF Elsewhere
  <2> QED BY <1>1, <2>1, AccountedIs DEF BlocksAccounted
<1>3. CASE /\ tree' = [tree   |-> [type |-> "GROUP", index |-> 0, child |-> trees[1].tree],
                       blocks |-> 1 + trees[1].blocks]
           /\ trees' = <<>>
           /\ allocs' = allocs + 1
           /\ frees' = frees + HeapAllocated(operatorsCapacity) + HeapAllocated(treesCapacity)
           /\ pc' = "compile" /\ UNCHANGED status
  <2>1. /\ Len(trees) = 1 /\ trees # <<>> /\ trees[1].blocks \in Nat
    <3>1. Len(trees) = 1
      BY <1>1, NonePending
    <3>2. trees # <<>> /\ DOMAIN trees = 1 .. Len(trees)
      BY <1>1, <3>1, SeqLength DEF Stacks
    <3>3. 1 \in DOMAIN trees
      BY <3>1, <3>2
    <3> QED BY <1>1, <3>1, <3>2, <3>3 DEF Stacks, HaveBlocks
  <2>2. TotalOf(trees) = trees[1].blocks
    <3>1. /\ HaveBlocks(Front(trees))
          /\ TotalOf(trees) = TotalOf(Front(trees)) + trees[Len(trees)].blocks
      BY <1>1, <2>1, TotalFront DEF Stacks
    <3>2. Front(trees) = <<>>
      <4>1. 0 \in 0 .. Len(trees) /\ Len(trees) - 1 = 0
        BY <2>1
      <4>2. IsSeq(Front(trees)) /\ Len(Front(trees)) = 0
        BY <1>1, <4>1, Shortened DEF Front, Stacks
      <4> QED BY <4>2, SeqLength
    <3> QED BY <2>1, <3>1, <3>2, TotalNone
  <2>3. tree'.blocks = 1 + trees[1].blocks
    BY <1>3
  <2>4. /\ allocs \in Nat /\ frees \in Nat /\ HeapAllocated(operatorsCapacity) \in Nat
        /\ HeapAllocated(treesCapacity) \in Nat /\ One(classesCapacity > 0) \in Nat
    BY <1>1, OneNat DEF TypeOK, HeapAllocated
  <2>5. TypeOK'
    BY <1>1, <1>3, <2>4 DEF TypeOK, Places, lexed
  <2>6. Stacks' /\ Stages'
    BY <1>1, <1>3, <2>1, <2>3, NoElements DEF Stacks, Stages, HaveBlocks, lexed
  <2>7. StacksConsistent'
    BY <1>1, <1>3, <2>5, ConsistentIsNext
  <2>8. BlocksAccounted'
    <3>1. Held' = 1 + One(classesCapacity > 0) + tree'.blocks
      BY <1>1, <1>3 DEF Held, lexed
    <3>2. allocs - frees = 1 + trees[1].blocks + HeapAllocated(operatorsCapacity)
                             + HeapAllocated(treesCapacity) + One(classesCapacity > 0)
      BY <1>2, <2>1, <2>2, <2>4 DEF Owed
    <3>3. allocs' = frees' + (1 + One(classesCapacity > 0) + (1 + trees[1].blocks))
      <4>1. /\ allocs' = allocs + 1
            /\ frees' = frees + HeapAllocated(operatorsCapacity) + HeapAllocated(treesCapacity)
        BY <1>3
      <4> DEFINE c == One(classesCapacity > 0)
                 b == trees[1].blocks
                 x == HeapAllocated(operatorsCapacity)
                 y == HeapAllocated(treesCapacity)
      <4>2. /\ c \in Nat /\ b \in Nat /\ x \in Nat /\ y \in Nat
            /\ allocs \in Nat /\ frees \in Nat
            /\ allocs - frees = 1 + b + x + y + c
            /\ allocs' = allocs + 1 /\ frees' = frees + x + y
        BY <2>1, <2>4, <3>2, <4>1
      <4> HIDE DEF c, b, x, y
      <4>3. allocs' = frees' + (1 + c + (1 + b))
        BY <4>2
      <4> QED BY <4>3 DEF c, b
    <3> QED BY <2>3, <3>1, <3>3 DEF BlocksAccounted
  <2> QED BY <2>6, <2>7, <2>8 DEF IInv
<1>4. CASE NodeFails /\ UNCHANGED <<tree, trees, memory>>
  <2>1. pc' = "die" /\ status' = "E_NOMEM"
    BY <1>4 DEF NodeFails, NoMemory, Die
  <2> QED BY <1>1, <1>4, <2>1, QuietStep DEF lexed, stacks, Stacks, TypeOK
<1> QED BY <1>3, <1>4 DEF Finish

LEMMA CompileInv == IInv /\ Compile => IInv'
<1> SUFFICES ASSUME IInv, Compile PROVE IInv'
  OBVIOUS
<1>1. /\ TypeOK /\ Stacks /\ Rises(operators) /\ pc = "compile"
      /\ UNCHANGED <<lexed, stacks, tree>>
      /\ allocs = frees + Held
  BY Facts DEF Compile, BlocksAccounted
<1>2. /\ tree.blocks \in Nat /\ allocs \in Nat /\ frees \in Nat
      /\ One(classesCapacity > 0) \in Nat
  BY <1>1, Facts, OneNat DEF Stages, TypeOK
<1>3. allocs = frees + (1 + One(classesCapacity > 0) + tree.blocks)
  BY <1>1 DEF Held
<1>4. /\ TypeOK' /\ Stacks' /\ Stages' /\ pc' \in {"done", "failed"}
  <2>1. /\ pc' \in {"done", "failed"} /\ status' \in {status, "E_NOMEM"}
        /\ allocs' \in Nat /\ frees' \in Nat
    BY <1>2 DEF Compile
  <2>2. TypeOK'
    BY <1>1, <2>1 DEF TypeOK, Places, stacks, lexed
  <2>3. Stacks'
    BY <1>1 DEF Stacks, stacks, lexed
  <2>4. Stages'
    BY <2>1 DEF Stages
  <2> QED BY <2>1, <2>2, <2>3, <2>4
<1>5. StacksConsistent'
  BY <1>1, <1>4, ConsistentIsNext DEF stacks
<1>6. BlocksAccounted'
  <2>1. CASE allocs' = allocs + 1 /\ frees' = frees + tree.blocks /\ pc' = "done"
    <3>1. Held' = 1 + One(classesCapacity > 0) + 1
      BY <1>1, <2>1 DEF Held, lexed
    <3> QED BY <1>2, <1>3, <2>1, <3>1 DEF BlocksAccounted
  <2>2. CASE /\ frees' = frees + tree.blocks + One(classesCapacity > 0) + 1
             /\ pc' = "failed" /\ UNCHANGED allocs
    <3>1. Held' = 0
      BY <2>2 DEF Held
    <3> QED BY <1>2, <1>3, <2>2, <3>1 DEF BlocksAccounted
  <2> QED BY <2>1, <2>2 DEF Compile
<1> QED BY <1>4, <1>5, <1>6 DEF IInv

\* The last step of a compile that failed, or of a regex.
LEMMA LastStep ==
  ASSUME IInv, UNCHANGED <<lexed, stacks, status, tree, allocs>>,
         frees' = frees + Held, allocs = frees + Held, frees' \in Nat,
         pc' \in {"failed", "destroyed"}
  PROVE  IInv'
<1>1. TypeOK /\ Stacks /\ Rises(operators) /\ Held' = 0
  BY Facts DEF Held
<1>2. TypeOK' /\ Stacks' /\ Stages'
  BY <1>1 DEF TypeOK, Stacks, Stages, Places, stacks, lexed
<1>3. StacksConsistent'
  BY <1>1, <1>2, ConsistentIsNext DEF stacks
<1>4. BlocksAccounted'
  BY <1>1, Facts DEF BlocksAccounted, TypeOK
<1> QED BY <1>2, <1>3, <1>4 DEF IInv

LEMMA DestroyRegexInv == IInv /\ DestroyRegex => IInv'
<1> SUFFICES ASSUME IInv, DestroyRegex PROVE IInv'
  OBVIOUS
<1>1. /\ pc = "done" /\ allocs = frees + Held /\ frees \in Nat
      /\ One(classesCapacity > 0) \in Nat
  BY Facts, OneNat DEF DestroyRegex, BlocksAccounted, TypeOK
<1>2. Held = 1 + One(classesCapacity > 0) + 1
  BY <1>1 DEF Held
<1>3. frees' = frees + Held /\ frees' \in Nat
  BY <1>1, <1>2 DEF DestroyRegex
<1> QED BY <1>1, <1>3, LastStep DEF DestroyRegex

LEMMA UnwindInv == IInv /\ Unwind => IInv'
<1> SUFFICES ASSUME IInv, Unwind PROVE IInv'
  OBVIOUS
<1>1. /\ pc = "die" /\ allocs = frees + Held /\ frees \in Nat
      /\ One(classesCapacity > 0) \in Nat /\ TotalOf(trees) \in Nat
      /\ HeapAllocated(operatorsCapacity) \in Nat /\ HeapAllocated(treesCapacity) \in Nat
      /\ TypeOK /\ Stacks /\ Rises(operators)
  BY Facts, OneNat, TotalNat DEF Unwind, BlocksAccounted, TypeOK, Stacks, HeapAllocated
<1>2. CASE pc' = "undefined" /\ UNCHANGED frees
  <2>1. TypeOK' /\ Stacks' /\ Stages'
    BY <1>1, <1>2 DEF Unwind, TypeOK, Stacks, Stages, Places, stacks, lexed
  <2>2. StacksConsistent'
    BY <1>1, <1>2, <2>1, ConsistentIsNext DEF Unwind, stacks
  <2> QED BY <1>2, <2>1, <2>2 DEF IInv, BlocksAccounted
<1>3. CASE /\ frees' = frees + StackBlocks + HeapAllocated(operatorsCapacity)
                         + HeapAllocated(treesCapacity) + One(classesCapacity > 0) + 1
           /\ pc' = "failed"
  <2>1. Held = 1 + One(classesCapacity > 0) + TotalOf(trees)
                 + HeapAllocated(operatorsCapacity) + HeapAllocated(treesCapacity)
    BY <1>1, HeldIs DEF Elsewhere
  <2>2. StackBlocks = TotalOf(trees)
    BY StackBlocksIs
  <2>3. frees' = frees + Held /\ frees' \in Nat
    BY <1>1, <1>3, <2>1, <2>2
  <2> QED BY <1>1, <1>3, <2>3, LastStep DEF Unwind
<1> QED BY <1>2, <1>3 DEF Unwind

LEMMA StutterInv == IInv /\ UNCHANGED vars => IInv'
<1> SUFFICES ASSUME IInv, UNCHANGED vars PROVE IInv'
  OBVIOUS
<1>1. UNCHANGED <<pattern, groups, classesSize, classesCapacity, pc, operators,
                  operatorsCapacity, trees, treesCapacity, status, tree, allocs, frees>>
  BY DEF vars, lexed, stacks, memory
<1>2. TypeOK' /\ Stacks' /\ Stages'
  BY <1>1, Facts DEF TypeOK, Stacks, Stages, Top
<1>3. StacksConsistent'
  BY <1>1, <1>2, Facts, ConsistentIsNext
<1>4. Held' = Held
  BY <1>1 DEF Held, StackBlocks
<1>5. BlocksAccounted'
  BY <1>1, <1>4, Facts DEF BlocksAccounted
<1> QED BY <1>2, <1>3, <1>5 DEF IInv

LEMMA NextInv == IInv /\ [Next]_vars => IInv'
  BY AllocRegexInv, BeginInv, LexInv, LexCharClassInv, PopInv, ShiftInv, OpenGroupInv,
     OperandInv, UnmatchedInv, FinishInv, CompileInv, DestroyRegexInv, UnwindInv, StutterInv
     DEF Next

LEMMA Invariance == Spec => []IInv
<1>1. Init => IInv
  BY InitInv
<1>2. IInv /\ [Next]_vars => IInv'
  BY NextInv
<1> QED BY <1>1, <1>2, PTL DEF Spec

-----------------------------------------------------------------------------
(* Theorems                                                                *)

\* Whatever the tokens, parser_pop_operator finds the trees that the operator
\* takes and parse is left with one tree: its assertions never fail, and the
\* precedence of what is on the operator stack rises towards its top.
THEOREM StacksStayConsistent == Spec => []StacksConsistent
<1>1. IInv => StacksConsistent
  BY DEF IInv
<1> QED BY <1>1, Invariance, PTL

\* Whichever allocations fail, every block that crex_compile_with_allocator has
\* allocated was freed once or is still held, as long as nothing undefined was
\* done: none is left after a failed compile, nor after crex_destroy_regex.
THEOREM NoBlockIsLost == Spec => []BlocksAccounted
<1>1. IInv => BlocksAccounted
  BY DEF IInv
<1> QED BY <1>1, Invariance, PTL
=============================================================================
