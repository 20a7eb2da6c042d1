----------------------------- MODULE ChainProofs -----------------------------
(***************************************************************************)
(* What Segment returns, and what it returns after a link is changed: the  *)
(* facts about linked lists that the proofs about the engines rest on.     *)
(*                                                                         *)
(* A list is described by a Path, the sequence of its blocks, which can be *)
(* reasoned about without recursion; SegmentIs connects the two.           *)
(***************************************************************************)
EXTENDS Chains, FiniteSetTheorems, SequenceTheorems, TLAPS

-----------------------------------------------------------------------------
(* The least number principle, and a recursive definition that is sound    *)

\* A set of numbers that is not empty has a least one: what takes the place
\* of induction.
LEMMA Least ==
  ASSUME NEW S, S \subseteq Nat, S # {}
  PROVE  \E m \in S : \A k \in 0 .. m - 1 : k \notin S
<1>1. PICK n \in S : TRUE
  OBVIOUS
<1> DEFINE U == 0 .. n
           T == {0 .. m : m \in S \cap U}
<1>2. IsFiniteSet(U)
  BY <1>1, FS_Interval
<1>3. IsWellFoundedOn(StrictSubsetOrdering(U), SUBSET U)
  BY <1>2, FS_StrictSubsetOrderingWellFounded, FS_FiniteSubsetsOfFinite
<1>4. T \subseteq SUBSET U /\ T # {}
  BY <1>1
<1>5. PICK x \in T : \A y \in T : ~(<<y, x>> \in StrictSubsetOrdering(U))
  <2> HIDE DEF T, U
  <2> QED BY <1>3, <1>4, WFMin
<1>6. PICK m \in S \cap U : x = 0 .. m
  BY <1>5
<1>7. ASSUME NEW k \in 0 .. m - 1, k \in S
      PROVE  FALSE
  <2>1. k \in S \cap U /\ m \in 0 .. m /\ m \notin 0 .. k
    BY <1>6, <1>7
  <2>2. 0 .. k \in T /\ 0 .. k \subseteq 0 .. m /\ 0 .. k # 0 .. m
    BY <2>1, <1>6, <1>7
  <2>3. 0 .. k \in SUBSET U /\ 0 .. m \in SUBSET U
    BY <2>2, <1>4, <1>5, <1>6
  <2>4. <<0 .. k, 0 .. m>> \in StrictSubsetOrdering(U)
    BY <2>2, <2>3 DEF StrictSubsetOrdering
  <2> QED BY <2>2, <2>4, <1>5, <1>6
<1> QED BY <1>6, <1>7

\* Intervals by their length.
LEMMA IntervalSize ==
  ASSUME NEW n \in Nat
  PROVE  Cardinality(1 .. n) = n /\ Cardinality(0 .. n - 1) = n
<1>1. Cardinality(1 .. n) = IF 1 > n THEN 0 ELSE n - 1 + 1
  BY FS_Interval
<1>2. Cardinality(0 .. n - 1) = IF 0 > n - 1 THEN 0 ELSE n - 1 - 0 + 1
  BY FS_Interval
<1> QED BY <1>1, <1>2

\* The handle behind h.
Onward(link, h) == IF h \in DOMAIN link THEN link[h] ELSE h

\* g is what the definition of Behind asks for, as far as m.
Follows(g, link, first, m) ==
  g = [n \in 0 .. m |-> IF n = 0 THEN first ELSE Onward(link, g[n - 1])]

\* The recursion of Behind has a solution.
LEMMA FollowsExists ==
  ASSUME NEW link, NEW first, NEW m \in Nat
  PROVE  \E g : Follows(g, link, first, m)
<1> DEFINE S == {n \in Nat : ~\E g : Follows(g, link, first, n)}
<1> SUFFICES ASSUME S # {} PROVE FALSE
  OBVIOUS
<1>1. PICK n \in S : \A k \in 0 .. n - 1 : k \notin S
  BY Least
<1>2. CASE n = 0
  <2>1. Follows([k \in 0 .. 0 |-> first], link, first, 0)
    BY DEF Follows
  <2> QED BY <1>1, <1>2, <2>1
<1>3. CASE n # 0
  <2>1. n - 1 \in Nat /\ n - 1 \notin S
    BY <1>1, <1>3
  <2>2. PICK f : Follows(f, link, first, n - 1)
    BY <2>1
  <2> DEFINE g == [k \in 0 .. n |-> IF k = n THEN Onward(link, f[n - 1]) ELSE f[k]]
  <2>3. \A k \in 0 .. n - 1 : f[k] = IF k = 0 THEN first ELSE Onward(link, f[k - 1])
    BY <2>1, <2>2 DEF Follows
  <2>4. \A k \in 0 .. n : g[k] = IF k = 0 THEN first ELSE Onward(link, g[k - 1])
    BY <1>3, <2>1, <2>3
  <2>5. g = [k \in 0 .. n |-> IF k = 0 THEN first ELSE Onward(link, g[k - 1])]
    BY <2>4
  <2> QED BY <1>1, <2>5 DEF Follows
<1> QED BY <1>2, <1>3

\* Behind is what its definition says.
LEMMA BehindIs ==
  ASSUME NEW link, NEW first, IsFiniteSet(DOMAIN link)
  PROVE  Follows(Behind(link, first), link, first, Cardinality(DOMAIN link))
<1> DEFINE m == Cardinality(DOMAIN link)
<1>1. m \in Nat
  BY FS_CardinalityType
<1>2. \E g : Follows(g, link, first, m)
  BY <1>1, FollowsExists
<1>3. \E g : g = [n \in 0 .. m |-> IF n = 0 THEN first
                   ELSE IF g[n - 1] \in DOMAIN link THEN link[g[n - 1]] ELSE g[n - 1]]
  BY <1>2 DEF Follows, Onward
<1> QED BY <1>3 DEF Behind, Follows, Onward

-----------------------------------------------------------------------------
(* Paths                                                                   *)

\* The links lead from first through the blocks of s, no block twice, to stop.
Path(link, s, first, stop) ==
  /\ s \in Seq(DOMAIN link)
  /\ \A i, j \in 1 .. Len(s) : s[i] = s[j] => i = j
  /\ \A i \in 1 .. Len(s) : s[i] # stop
  /\ first = IF s = <<>> THEN stop ELSE s[1]
  /\ \A i \in 1 .. Len(s) : link[s[i]] = IF i = Len(s) THEN stop ELSE s[i + 1]

\* Where the links lead in n steps.
LEMMA BehindPath ==
  ASSUME NEW link, NEW s, NEW first, NEW stop,
         IsFiniteSet(DOMAIN link), Path(link, s, first, stop)
  PROVE  /\ Len(s) \in 0 .. Cardinality(DOMAIN link)
         /\ \A n \in 0 .. Len(s) :
              Behind(link, first)[n] = IF n = Len(s) THEN stop ELSE s[n + 1]
<1> DEFINE N == Cardinality(DOMAIN link)
           at == Behind(link, first)
<1>1. s \in Seq(DOMAIN link) /\ Len(s) \in Nat
  BY DEF Path
<1>2. Len(s) \in 0 .. N
  <2>1. s \in Injection(1 .. Len(s), DOMAIN link)
    BY <1>1 DEF Path, Injection, IsInjective
  <2>2. Cardinality(1 .. Len(s)) <= N
    BY <2>1, FS_Injection
  <2>3. Cardinality(1 .. Len(s)) = Len(s)
    BY <1>1, IntervalSize
  <2> QED BY <1>1, <2>2, <2>3, FS_CardinalityType
<1>3. N \in Nat
  BY FS_CardinalityType
<1>4. at = [n \in 0 .. N |-> IF n = 0 THEN first ELSE Onward(link, at[n - 1])]
  BY BehindIs DEF Follows
<1> HIDE DEF at, N
<1>5. /\ at[0] = first
      /\ \A n \in 1 .. N : at[n] = Onward(link, at[n - 1])
  BY <1>3, <1>4
<1> DEFINE Right(n) == at[n] = IF n = Len(s) THEN stop ELSE s[n + 1]
           Wrong == {n \in 0 .. Len(s) : ~Right(n)}
<1>6. Wrong = {}
  <2> SUFFICES ASSUME Wrong # {} PROVE FALSE
    OBVIOUS
  <2>1. PICK n \in Wrong : \A k \in 0 .. n - 1 : k \notin Wrong
    <3>1. Wrong \subseteq Nat
      OBVIOUS
    <3> QED BY <3>1, Least
  <2>2. n # 0
    BY <1>1, <1>5, <2>1 DEF Path
  <2>3. n - 1 \in 0 .. n - 1 /\ n - 1 \in 0 .. Len(s) /\ n - 1 # Len(s) /\ n \in 1 .. N
    BY <1>1, <1>2, <1>3, <2>1, <2>2
  <2>4. at[n - 1] = s[n]
    BY <2>1, <2>3
  <2>5. n \in 1 .. Len(s) /\ s[n] \in DOMAIN link
    BY <1>1, <2>1, <2>2
  <2>6. at[n] = link[s[n]]
    BY <1>5, <2>3, <2>4, <2>5 DEF Onward
  <2> QED BY <2>1, <2>5, <2>6 DEF Path
<1> QED BY <1>2, <1>6 DEF at, N

\* Segment returns the blocks of the path.
LEMMA SegmentIs ==
  ASSUME NEW link, NEW s, NEW first, NEW stop,
         IsFiniteSet(DOMAIN link), Path(link, s, first, stop)
  PROVE  Segment(link, first, stop) = s
<1> DEFINE N == Cardinality(DOMAIN link)
           at == Behind(link, first)
           inside == {n \in DOMAIN at : \A i \in 0 .. n : at[i] \in DOMAIN link \ {stop}}
<1>1. s \in Seq(DOMAIN link) /\ Len(s) \in Nat /\ Len(s) \in 0 .. N /\ N \in Nat
  <2>1. s \in Seq(DOMAIN link)
    BY DEF Path
  <2>2. Len(s) \in 0 .. N
    BY BehindPath
  <2> QED BY <2>1, <2>2, FS_CardinalityType
<1>2. DOMAIN at = 0 .. N
  BY BehindIs DEF Follows
<1>3. \A n \in 0 .. Len(s) : at[n] = IF n = Len(s) THEN stop ELSE s[n + 1]
  BY BehindPath
<1>4. \A i \in 1 .. Len(s) : s[i] \in DOMAIN link \ {stop}
  BY <1>1 DEF Path
<1>5. Segment(link, first, stop) = [i \in 1 .. Cardinality(inside) |-> at[i - 1]]
  BY DEF Segment
<1> HIDE DEF at, N
<1>6. inside = 0 .. Len(s) - 1
  <2>1. ASSUME NEW n \in inside PROVE n \in 0 .. Len(s) - 1
    <3>1. n \in 0 .. N /\ \A i \in 0 .. n : at[i] # stop
      BY <1>2
    <3>2. ~(Len(s) \in 0 .. n)
      BY <1>1, <1>3, <3>1
    <3> QED BY <1>1, <3>1, <3>2
  <2>2. ASSUME NEW n \in 0 .. Len(s) - 1 PROVE n \in inside
    <3>1. n \in DOMAIN at
      BY <1>1, <1>2
    <3>2. ASSUME NEW i \in 0 .. n PROVE at[i] \in DOMAIN link \ {stop}
      <4>1. i \in 0 .. Len(s) /\ i # Len(s) /\ i + 1 \in 1 .. Len(s)
        BY <1>1
      <4> QED BY <1>3, <1>4, <4>1
    <3> QED BY <3>1, <3>2
  <2> HIDE DEF inside
  <2> QED BY <2>1, <2>2
<1>7. Cardinality(inside) = Len(s)
  BY <1>1, <1>6, IntervalSize
<1>8. \A i \in 1 .. Len(s) : at[i - 1] = s[i]
  BY <1>1, <1>3
<1> HIDE DEF inside
<1>9. [i \in 1 .. Len(s) |-> at[i - 1]] = s
  <2>1. s = [i \in 1 .. Len(s) |-> s[i]]
    BY <1>1
  <2> QED BY <1>8, <2>1
<1> QED BY <1>5, <1>7, <1>9

-----------------------------------------------------------------------------
(* The blocks of a sequence                                                *)

\* Members by index.
LEMMA MembersIs ==
  ASSUME NEW D, NEW s \in Seq(D)
  PROVE  /\ Members(s) = {s[i] : i \in 1 .. Len(s)}
         /\ Members(s) \subseteq D
         /\ \A i \in 1 .. Len(s) : s[i] \in Members(s)
         /\ s = <<>> <=> Members(s) = {}
<1>1. DOMAIN s = 1 .. Len(s) /\ Len(s) \in Nat
  OBVIOUS
<1>2. s # <<>> => Len(s) > 0
  BY <1>1, EmptySeq
<1>3. Len(<<>>) = 0
  OBVIOUS
<1>4. \A i \in 1 .. Len(s) : s[i] \in D
  OBVIOUS
<1>5. Members(s) = {s[i] : i \in 1 .. Len(s)}
  BY <1>1 DEF Members
<1>6. s = <<>> => Members(s) = {}
  BY <1>3, <1>5
<1>7. s # <<>> => s[1] \in Members(s)
  BY <1>1, <1>2, <1>5
<1> QED BY <1>4, <1>5, <1>6, <1>7

\* A sequence has no more members than its length.
LEMMA FewMembers ==
  ASSUME NEW D, NEW s \in Seq(D)
  PROVE  IsFiniteSet(Members(s)) /\ Cardinality(Members(s)) <= Len(s)
<1>1. Len(s) \in Nat /\ Members(s) = {s[i] : i \in 1 .. Len(s)} /\ s \in [1 .. Len(s) -> D]
  BY MembersIs
<1>2. s \in Surjection(1 .. Len(s), Members(s))
  BY <1>1 DEF Surjection
<1>3. IsFiniteSet(1 .. Len(s)) /\ Cardinality(1 .. Len(s)) = Len(s)
  BY <1>1, IntervalSize, FS_Interval
<1> QED BY <1>2, <1>3, FS_Surjection

\* The sequence with one more block in front.
LEMMA MembersCons ==
  ASSUME NEW D, NEW s \in Seq(D), NEW b \in D
  PROVE  /\ <<b>> \o s \in Seq(D)
         /\ Len(<<b>> \o s) = Len(s) + 1
         /\ (<<b>> \o s)[1] = b
         /\ \A i \in 1 .. Len(s) : (<<b>> \o s)[i + 1] = s[i]
         /\ \A i \in 2 .. Len(s) + 1 : (<<b>> \o s)[i] = s[i - 1]
         /\ Members(<<b>> \o s) = Members(s) \cup {b}
<1> DEFINE c == <<b>> \o s
<1>1. c \in Seq(D) /\ Len(c) = Len(s) + 1 /\ Len(s) \in Nat
  OBVIOUS
<1>2. c[1] = b /\ \A i \in 2 .. Len(s) + 1 : c[i] = s[i - 1]
  OBVIOUS
<1> HIDE DEF c
<1>3. \A i \in 1 .. Len(s) : c[i + 1] = s[i]
  BY <1>1, <1>2
<1>4. Members(c) = {c[i] : i \in 1 .. Len(c)} /\ Members(s) = {s[i] : i \in 1 .. Len(s)}
  BY <1>1, MembersIs
<1>5. Members(c) = Members(s) \cup {b}
  <2>1. ASSUME NEW x \in Members(c) PROVE x \in Members(s) \cup {b}
    <3>1. PICK i \in 1 .. Len(c) : x = c[i]
      BY <1>4
    <3>2. i = 1 \/ (i \in 2 .. Len(s) + 1 /\ i - 1 \in 1 .. Len(s))
      BY <1>1
    <3> QED BY <1>2, <1>4, <3>1, <3>2
  <2>2. ASSUME NEW x \in Members(s) \cup {b} PROVE x \in Members(c)
    <3>1. x = b \/ \E i \in 1 .. Len(s) : x = s[i]
      BY <1>4
    <3>2. 1 \in 1 .. Len(c) /\ \A i \in 1 .. Len(s) : i + 1 \in 1 .. Len(c)
      BY <1>1
    <3> QED BY <1>2, <1>3, <1>4, <3>1, <3>2
  <2> QED BY <2>1, <2>2
<1> QED BY <1>1, <1>2, <1>3, <1>5 DEF c

\* The sequence with one more block at its end.
LEMMA MembersAppend ==
  ASSUME NEW D, NEW s \in Seq(D), NEW b \in D
  PROVE  /\ Append(s, b) \in Seq(D)
         /\ Len(Append(s, b)) = Len(s) + 1
         /\ Append(s, b)[Len(s) + 1] = b
         /\ \A i \in 1 .. Len(s) : Append(s, b)[i] = s[i]
         /\ Members(Append(s, b)) = Members(s) \cup {b}
<1> DEFINE c == Append(s, b)
<1>1. c \in Seq(D) /\ Len(c) = Len(s) + 1 /\ Len(s) \in Nat
  OBVIOUS
<1>2. c[Len(s) + 1] = b /\ \A i \in 1 .. Len(s) : c[i] = s[i]
  OBVIOUS
<1> HIDE DEF c
<1>3. Members(c) = {c[i] : i \in 1 .. Len(c)} /\ Members(s) = {s[i] : i \in 1 .. Len(s)}
  BY <1>1, MembersIs
<1>4. Members(c) = Members(s) \cup {b}
  <2>1. ASSUME NEW x \in Members(c) PROVE x \in Members(s) \cup {b}
    <3>1. PICK i \in 1 .. Len(c) : x = c[i]
      BY <1>3
    <3>2. i = Len(s) + 1 \/ i \in 1 .. Len(s)
      BY <1>1
    <3> QED BY <1>2, <1>3, <3>1, <3>2
  <2>2. ASSUME NEW x \in Members(s) \cup {b} PROVE x \in Members(c)
    <3>1. x = b \/ \E i \in 1 .. Len(s) : x = s[i]
      BY <1>3
    <3>2. Len(s) + 1 \in 1 .. Len(c) /\ \A i \in 1 .. Len(s) : i \in 1 .. Len(c)
      BY <1>1
    <3> QED BY <1>2, <1>3, <3>1, <3>2
  <2> QED BY <2>1, <2>2
<1> QED BY <1>1, <1>2, <1>4 DEF c

\* A sequence that is not empty is its first block and the rest.
LEMMA SplitHead ==
  ASSUME NEW D, NEW s \in Seq(D), s # <<>>
  PROVE  /\ Len(s) >= 1 /\ s[1] \in D
         /\ Tail(s) \in Seq(D) /\ Len(Tail(s)) = Len(s) - 1
         /\ \A i \in 1 .. Len(s) - 1 : Tail(s)[i] = s[i + 1]
         /\ s = <<s[1]>> \o Tail(s)
<1>1. Len(s) \in Nat /\ Len(s) >= 1
  BY EmptySeq
<1>2. Tail(s) \in Seq(D) /\ Len(Tail(s)) = Len(s) - 1
  BY <1>1
<1>3. \A i \in 1 .. Len(s) - 1 : Tail(s)[i] = s[i + 1]
  BY <1>1
<1>4. s[1] \in D
  BY <1>1
<1> DEFINE c == <<s[1]>> \o Tail(s)
<1>5. c \in Seq(D) /\ Len(c) = Len(s) /\ c[1] = s[1]
      /\ \A i \in 2 .. Len(s) : c[i] = Tail(s)[i - 1]
  BY <1>1, <1>2, <1>4, MembersCons
<1>6. \A i \in 1 .. Len(s) : c[i] = s[i]
  <2> HIDE DEF c
  <2>1. \A i \in 2 .. Len(s) : i - 1 \in 1 .. Len(s) - 1 /\ i - 1 + 1 = i
    BY <1>1
  <2>2. \A i \in 1 .. Len(s) : i = 1 \/ i \in 2 .. Len(s)
    BY <1>1
  <2> QED BY <1>3, <1>5, <2>1, <2>2
<1>7. s = c
  <2> HIDE DEF c
  <2> QED BY <1>5, <1>6, SeqEqual
<1> QED BY <1>1, <1>2, <1>3, <1>4, <1>7

-----------------------------------------------------------------------------
(* What happens to a path when a link changes                              *)

\* The path of no blocks.
LEMMA PathNone ==
  ASSUME NEW link, NEW stop
  PROVE  Path(link, <<>>, stop, stop) /\ Members(<<>>) = {}
<1>1. <<>> \in Seq(DOMAIN link) /\ Len(<<>>) = 0
  BY EmptySeq
<1> QED BY <1>1, MembersIs DEF Path

\* A path that leads nowhere has no blocks.
LEMMA PathStops ==
  ASSUME NEW link, NEW s, NEW first, NEW stop, Path(link, s, first, stop)
  PROVE  /\ s \in Seq(DOMAIN link) /\ Len(s) \in Nat
         /\ Members(s) \subseteq DOMAIN link
         /\ stop \notin Members(s)
         /\ first = stop <=> s = <<>>
         /\ first # stop => first \in Members(s)
<1>1. s \in Seq(DOMAIN link) /\ Len(s) \in Nat
  BY DEF Path
<1>2. Members(s) = {s[i] : i \in 1 .. Len(s)} /\ Members(s) \subseteq DOMAIN link
  BY <1>1, MembersIs
<1>3. s # <<>> => 1 \in 1 .. Len(s)
  BY <1>1, EmptySeq
<1> QED BY <1>1, <1>2, <1>3 DEF Path

\* Links that are not on it do not matter to a path.
LEMMA PathKept ==
  ASSUME NEW link, NEW s, NEW first, NEW stop, Path(link, s, first, stop),
         NEW link2, DOMAIN link \subseteq DOMAIN link2,
         \A b \in Members(s) : link2[b] = link[b]
  PROVE  Path(link2, s, first, stop)
<1>1. s \in Seq(DOMAIN link) /\ s \in Seq(DOMAIN link2)
  BY SeqMonotonic DEF Path
<1>2. \A i \in 1 .. Len(s) : link2[s[i]] = link[s[i]]
  BY <1>1, MembersIs
<1> QED BY <1>1, <1>2 DEF Path

\* Taking a block from the front.
LEMMA PathTail ==
  ASSUME NEW link, NEW s, NEW first, NEW stop, Path(link, s, first, stop),
         s # <<>>
  PROVE  /\ first \in DOMAIN link /\ first # stop /\ first = s[1]
         /\ s = <<first>> \o Tail(s)
         /\ Path(link, Tail(s), link[first], stop)
         /\ Members(Tail(s)) = Members(s) \ {first} /\ first \in Members(s)
<1> DEFINE r == Tail(s)
<1>1. s \in Seq(DOMAIN link) /\ first = s[1]
  BY DEF Path
<1>2. /\ Len(s) \in Nat /\ Len(s) >= 1 /\ first \in DOMAIN link
      /\ r \in Seq(DOMAIN link) /\ Len(r) = Len(s) - 1
      /\ \A i \in 1 .. Len(s) - 1 : r[i] = s[i + 1]
      /\ s = <<first>> \o r
  BY <1>1, SplitHead
<1>3. r = <<>> <=> Len(s) = 1
  BY <1>2, EmptySeq
<1>4. /\ \A i \in 1 .. Len(r) : i + 1 \in 1 .. Len(s) /\ i \in 1 .. Len(s) - 1
      /\ 1 \in 1 .. Len(s)
  BY <1>2
<1> HIDE DEF r
<1>5. Path(link, r, link[first], stop)
  <2>1. \A i, j \in 1 .. Len(r) : r[i] = r[j] => i = j
    <3> TAKE i, j \in 1 .. Len(r)
    <3> HAVE r[i] = r[j]
    <3>1. s[i + 1] = s[j + 1]
      BY <1>2, <1>4
    <3>2. i + 1 = j + 1
      BY <1>4, <3>1 DEF Path
    <3> QED BY <3>2
  <2>2. ASSUME NEW i \in 1 .. Len(r) PROVE r[i] # stop
    <3>1. i + 1 \in 1 .. Len(s) /\ r[i] = s[i + 1]
      BY <1>2, <1>4
    <3> QED BY <3>1 DEF Path
  <2>3. link[first] = IF r = <<>> THEN stop ELSE r[1]
    <3>1. link[first] = IF 1 = Len(s) THEN stop ELSE s[1 + 1]
      BY <1>1, <1>4 DEF Path
    <3>2. Len(s) # 1 => r[1] = s[1 + 1]
      BY <1>2
    <3> QED BY <1>3, <3>1, <3>2
  <2>4. ASSUME NEW i \in 1 .. Len(r)
        PROVE  link[r[i]] = IF i = Len(r) THEN stop ELSE r[i + 1]
    <3>1. link[s[i + 1]] = IF i + 1 = Len(s) THEN stop ELSE s[i + 1 + 1]
      BY <1>4 DEF Path
    <3>2. r[i] = s[i + 1]
      BY <1>2, <1>4
    <3>3. i # Len(r) => r[i + 1] = s[i + 1 + 1]
      <4>1. i # Len(r) => i + 1 \in 1 .. Len(s) - 1
        BY <1>2
      <4> QED BY <1>2, <4>1
    <3>4. i + 1 = Len(s) <=> i = Len(r)
      BY <1>2
    <3> QED BY <3>1, <3>2, <3>3, <3>4
  <2> QED BY <1>2, <2>1, <2>2, <2>3, <2>4 DEF Path
<1>6. Members(s) = Members(r) \cup {first}
  BY <1>2, MembersCons
<1>7. first \notin Members(r)
  <2>1. \A i \in 1 .. Len(r) : r[i] # first
    <3> TAKE i \in 1 .. Len(r)
    <3>1. i + 1 # 1 /\ i + 1 \in 1 .. Len(s) /\ r[i] = s[i + 1]
      BY <1>2, <1>4
    <3> QED BY <1>1, <1>4, <3>1 DEF Path
  <2>2. Members(r) = {r[i] : i \in 1 .. Len(r)}
    BY <1>2, MembersIs
  <2> QED BY <2>1, <2>2
<1>8. first # stop
  BY <1>1, <1>4 DEF Path
<1> QED BY <1>1, <1>2, <1>5, <1>6, <1>7, <1>8 DEF r

\* Putting a block in front.
LEMMA PathCons ==
  ASSUME NEW link, NEW s, NEW first, NEW stop, Path(link, s, first, stop),
         NEW b \in DOMAIN link, b \notin Members(s), b # stop, link[b] = first
  PROVE  /\ Path(link, <<b>> \o s, b, stop)
         /\ Members(<<b>> \o s) = Members(s) \cup {b}
<1> DEFINE c == <<b>> \o s
<1>1. s \in Seq(DOMAIN link) /\ Len(s) \in Nat
  BY DEF Path
<1>2. /\ c \in Seq(DOMAIN link) /\ Len(c) = Len(s) + 1 /\ c[1] = b
      /\ \A i \in 1 .. Len(s) : c[i + 1] = s[i]
      /\ \A i \in 2 .. Len(s) + 1 : c[i] = s[i - 1]
      /\ Members(c) = Members(s) \cup {b}
  BY <1>1, MembersCons
<1> HIDE DEF c
<1>3. \A i \in 1 .. Len(s) : s[i] # b
  BY <1>1, MembersIs
<1>4. \A i \in 1 .. Len(c) : i = 1 \/ (i \in 2 .. Len(s) + 1 /\ i - 1 \in 1 .. Len(s))
  BY <1>1, <1>2
<1>5. \A i, j \in 1 .. Len(c) : c[i] = c[j] => i = j
  <2> TAKE i, j \in 1 .. Len(c)
  <2> HAVE c[i] = c[j]
  <2>1. CASE i = 1 \/ j = 1
    BY <1>2, <1>3, <1>4, <2>1
  <2>2. CASE i # 1 /\ j # 1
    <3>1. i - 1 \in 1 .. Len(s) /\ j - 1 \in 1 .. Len(s) /\ s[i - 1] = s[j - 1]
      BY <1>2, <1>4, <2>2
    <3>2. i - 1 = j - 1
      BY <3>1 DEF Path
    <3> QED BY <3>2
  <2> QED BY <2>1, <2>2
<1>6. \A i \in 1 .. Len(c) : c[i] # stop
  BY <1>2, <1>4 DEF Path
<1>7. ASSUME NEW i \in 1 .. Len(c)
      PROVE  link[c[i]] = IF i = Len(c) THEN stop ELSE c[i + 1]
  <2>1. CASE i = 1
    <3>1. s = <<>> <=> Len(c) = 1
      BY <1>1, <1>2, EmptySeq
    <3>2. s # <<>> => c[2] = s[1]
      <4>1. s # <<>> => 2 \in 2 .. Len(s) + 1
        BY <1>1, EmptySeq
      <4> QED BY <1>2, <4>1
    <3> QED BY <1>2, <2>1, <3>1, <3>2 DEF Path
  <2>2. CASE i # 1
    <3>1. i - 1 \in 1 .. Len(s) /\ c[i] = s[i - 1]
      BY <1>2, <1>4, <2>2
    <3>2. link[s[i - 1]] = IF i - 1 = Len(s) THEN stop ELSE s[i - 1 + 1]
      BY <3>1 DEF Path
    <3>3. i - 1 = Len(s) <=> i = Len(c)
      BY <1>1, <1>2
    <3>4. i # Len(c) => c[i + 1] = s[i - 1 + 1]
      <4>1. i # Len(c) => i \in 1 .. Len(s) /\ i - 1 + 1 = i
        BY <1>1, <1>2, <3>1
      <4> QED BY <1>2, <4>1
    <3> QED BY <3>1, <3>2, <3>3, <3>4
  <2> QED BY <2>1, <2>2
<1>8. c # <<>>
  BY <1>1, <1>2, EmptySeq
<1>9. Path(link, c, b, stop)
  BY <1>2, <1>5, <1>6, <1>7, <1>8 DEF Path
<1> QED BY <1>2, <1>9 DEF c

\* The path of one block.
LEMMA PathOne ==
  ASSUME NEW link, NEW b \in DOMAIN link, b # link[b]
  PROVE  Path(link, <<b>>, b, link[b]) /\ Members(<<b>>) = {b}
<1>1. <<b>> \in Seq(DOMAIN link) /\ Len(<<b>>) = 1 /\ <<b>>[1] = b /\ <<b>> # <<>>
  OBVIOUS
<1>2. Members(<<b>>) = {b}
  <2>1. Members(<<b>>) = {<<b>>[i] : i \in 1 .. 1}
    BY <1>1, MembersIs
  <2>2. \A i \in 1 .. 1 : <<b>>[i] = b
    BY <1>1
  <2>3. 1 \in 1 .. 1
    OBVIOUS
  <2> QED BY <2>1, <2>2, <2>3
<1> QED BY <1>1, <1>2 DEF Path

\* Putting the block behind the path at its end: prev_thread moves on.
LEMMA PathAppend ==
  ASSUME NEW link, NEW s, NEW first, NEW stop, Path(link, s, first, stop),
         stop \in DOMAIN link, NEW n, link[stop] = n, n # stop, n \notin Members(s),
         NEW c, c \in Seq(DOMAIN link), Len(c) = Len(s) + 1,
         c[Len(s) + 1] = stop, \A i \in 1 .. Len(s) : c[i] = s[i]
  PROVE  Path(link, c, first, n)
<1>1. s \in Seq(DOMAIN link) /\ Len(s) \in Nat
  BY DEF Path
<1>2. /\ c \in Seq(DOMAIN link) /\ Len(c) = Len(s) + 1 /\ c[Len(s) + 1] = stop
      /\ \A i \in 1 .. Len(s) : c[i] = s[i]
  OBVIOUS
<1>3. \A i \in 1 .. Len(c) : i \in 1 .. Len(s) \/ i = Len(s) + 1
  BY <1>1, <1>2
<1>4. \A i \in 1 .. Len(s) : s[i] # stop /\ s[i] # n
  BY <1>1, MembersIs DEF Path
<1>5. \A i, j \in 1 .. Len(c) : c[i] = c[j] => i = j
  <2> TAKE i, j \in 1 .. Len(c)
  <2> HAVE c[i] = c[j]
  <2>1. CASE i \in 1 .. Len(s) /\ j \in 1 .. Len(s)
    BY <1>2, <2>1 DEF Path
  <2>2. CASE i = Len(s) + 1 \/ j = Len(s) + 1
    BY <1>2, <1>3, <1>4, <2>2
  <2> QED BY <1>3, <2>1, <2>2
<1>6. \A i \in 1 .. Len(c) : c[i] # n
  BY <1>2, <1>3, <1>4
<1>7. c # <<>> /\ c[1] = first
  <2>1. c # <<>>
    BY <1>1, <1>2, EmptySeq
  <2>2. CASE s = <<>>
    <3>1. first = stop
      BY <2>2 DEF Path
    <3>2. Len(s) + 1 = 1
      BY <2>2
    <3> QED BY <1>2, <3>1, <3>2
  <2>3. CASE s # <<>>
    <3>1. 1 \in 1 .. Len(s)
      BY <1>1, <2>3, EmptySeq
    <3> QED BY <1>2, <2>3, <3>1 DEF Path
  <2> QED BY <2>1, <2>2, <2>3
<1>8. ASSUME NEW i \in 1 .. Len(c)
      PROVE  link[c[i]] = IF i = Len(c) THEN n ELSE c[i + 1]
  <2>1. CASE i = Len(s) + 1
    BY <1>2, <2>1
  <2>2. CASE i \in 1 .. Len(s)
    <3>1. link[s[i]] = IF i = Len(s) THEN stop ELSE s[i + 1]
      BY <2>2 DEF Path
    <3>2. c[i + 1] = IF i = Len(s) THEN stop ELSE s[i + 1]
      <4>1. i # Len(s) => i + 1 \in 1 .. Len(s)
        BY <1>1, <2>2
      <4> QED BY <1>2, <4>1
    <3>3. i # Len(c)
      BY <1>1, <1>2, <2>2
    <3> QED BY <1>2, <2>2, <3>1, <3>2, <3>3
  <2> QED BY <1>3, <2>1, <2>2
<1>9. Path(link, c, first, n)
  BY <1>2, <1>5, <1>6, <1>7, <1>8 DEF Path
<1> QED BY <1>9

\* A path that goes on along another one.
LEMMA PathJoin ==
  ASSUME NEW link, NEW s, NEW first, NEW mid, Path(link, s, first, mid),
         NEW t, NEW stop, Path(link, t, mid, stop),
         stop \notin Members(s), \A b \in Members(s) : b \notin Members(t)
  PROVE  /\ Path(link, s \o t, first, stop)
         /\ Members(s \o t) = Members(s) \cup Members(t)
<1> DEFINE D == DOMAIN link
           c == s \o t
           n == Len(s)
           m == Len(t)
<1>1. /\ s \in Seq(D) /\ t \in Seq(D) /\ n \in Nat /\ m \in Nat
  BY DEF Path
<1>2. /\ c \in Seq(D) /\ Len(c) = n + m
      /\ \A i \in 1 .. n : c[i] = s[i]
      /\ \A i \in 1 .. m : c[n + i] = t[i]
  BY <1>1
<1>3. \A i \in 1 .. Len(c) : i \in 1 .. n \/ (i - n \in 1 .. m /\ c[i] = t[i - n])
  <2> SUFFICES ASSUME NEW i \in 1 .. Len(c), i \notin 1 .. n
               PROVE  i - n \in 1 .. m /\ c[i] = t[i - n]
    OBVIOUS
  <2>1. i - n \in 1 .. m /\ n + (i - n) = i
    BY <1>1, <1>2
  <2> QED BY <1>2, <2>1
<1>4. /\ \A i \in 1 .. n : s[i] \in Members(s)
      /\ \A i \in 1 .. m : t[i] \in Members(t)
  BY <1>1, MembersIs
<1>5. Members(c) = Members(s) \cup Members(t)
  <2>1. Members(c) = {c[i] : i \in 1 .. Len(c)}
    BY <1>2, MembersIs
  <2>2. \A i \in 1 .. Len(c) : c[i] \in Members(s) \cup Members(t)
    BY <1>2, <1>3, <1>4
  <2>3. \A b \in Members(s) : \E i \in 1 .. Len(c) : c[i] = b
    <3>1. Members(s) = {s[i] : i \in 1 .. n}
      BY <1>1, MembersIs
    <3>2. \A i \in 1 .. n : i \in 1 .. Len(c)
      BY <1>1, <1>2
    <3> QED BY <1>2, <3>1, <3>2
  <2>4. \A b \in Members(t) : \E i \in 1 .. Len(c) : c[i] = b
    <3>1. Members(t) = {t[i] : i \in 1 .. m}
      BY <1>1, MembersIs
    <3>2. \A i \in 1 .. m : n + i \in 1 .. Len(c)
      BY <1>1, <1>2
    <3> QED BY <1>2, <3>1, <3>2
  <2> QED BY <2>1, <2>2, <2>3, <2>4
<1>P. /\ \A i, j \in 1 .. n : s[i] = s[j] => i = j
      /\ \A i, j \in 1 .. m : t[i] = t[j] => i = j
      /\ \A i \in 1 .. m : t[i] # stop
      /\ first = (IF s = <<>> THEN mid ELSE s[1])
      /\ mid = (IF t = <<>> THEN stop ELSE t[1])
      /\ \A i \in 1 .. n : link[s[i]] = IF i = n THEN mid ELSE s[i + 1]
      /\ \A i \in 1 .. m : link[t[i]] = IF i = m THEN stop ELSE t[i + 1]
  BY DEF Path
<1>E. (s = <<>> <=> n = 0) /\ (t = <<>> <=> m = 0) /\ (c = <<>> <=> Len(c) = 0)
  BY <1>1, <1>2, EmptySeq
<1> HIDE DEF c, n, m
<1>6. \A i, j \in 1 .. Len(c) : c[i] = c[j] => i = j
  <2> SUFFICES ASSUME NEW i \in 1 .. Len(c), NEW j \in 1 .. Len(c), c[i] = c[j]
               PROVE  i = j
    OBVIOUS
  <2>1. CASE i \in 1 .. n /\ j \in 1 .. n
    BY <1>2, <1>P, <2>1
  <2>2. CASE i \notin 1 .. n /\ j \notin 1 .. n
    <3>1. i - n = j - n
      BY <1>3, <1>P, <2>2
    <3> QED BY <1>1, <1>2, <3>1
  <2>3. CASE i \in 1 .. n /\ j \notin 1 .. n
    BY <1>2, <1>3, <1>4, <2>3
  <2>4. CASE i \notin 1 .. n /\ j \in 1 .. n
    BY <1>2, <1>3, <1>4, <2>4
  <2> QED BY <2>1, <2>2, <2>3, <2>4
<1>7. \A i \in 1 .. Len(c) : c[i] # stop
  BY <1>2, <1>3, <1>4, <1>P
<1>8. first = IF c = <<>> THEN stop ELSE c[1]
  <2>1. CASE n > 0
    <3>1. 1 \in 1 .. n /\ Len(c) # 0
      BY <1>1, <1>2, <2>1
    <3> QED BY <1>2, <1>E, <1>P, <3>1, <1>1
  <2>2. CASE n = 0 /\ m > 0
    <3>1. 1 \in 1 .. m /\ Len(c) # 0 /\ n + 1 = 1
      BY <1>1, <1>2, <2>2
    <3> QED BY <1>2, <1>E, <1>P, <2>2, <3>1
  <2>3. CASE n = 0 /\ m = 0
    BY <1>2, <1>E, <1>P, <2>3
  <2> QED BY <1>1, <2>1, <2>2, <2>3
<1>9. \A i \in 1 .. Len(c) : link[c[i]] = IF i = Len(c) THEN stop ELSE c[i + 1]
  <2> SUFFICES ASSUME NEW i \in 1 .. Len(c)
               PROVE  link[c[i]] = IF i = Len(c) THEN stop ELSE c[i + 1]
    OBVIOUS
  <2>1. CASE i \in 1 .. n /\ i # n
    <3>1. i + 1 \in 1 .. n /\ i # Len(c)
      BY <1>1, <1>2, <2>1
    <3> QED BY <1>2, <1>P, <2>1, <3>1
  <2>2. CASE i = n
    <3>1. link[c[i]] = mid
      <4>1. i \in 1 .. n
        BY <1>1, <2>2
      <4> QED BY <1>2, <1>P, <2>2, <4>1
    <3>2. CASE m = 0
      BY <1>1, <1>2, <1>E, <1>P, <2>2, <3>1, <3>2
    <3>3. CASE m > 0
      <4>1. 1 \in 1 .. m /\ i # Len(c) /\ i + 1 = n + 1
        BY <1>1, <1>2, <2>2, <3>3
      <4> QED BY <1>2, <1>E, <1>P, <3>1, <3>3, <4>1
    <3> QED BY <1>1, <3>2, <3>3
  <2>3. CASE i \notin 1 .. n
    <3> DEFINE j == i - n
    <3>1. j \in 1 .. m /\ c[i] = t[j] /\ i = n + j
      BY <1>1, <1>2, <1>3, <2>3
    <3>2. CASE j = m
      BY <1>1, <1>2, <1>P, <3>1, <3>2
    <3>3. CASE j # m
      <4>1. j + 1 \in 1 .. m /\ i # Len(c) /\ i + 1 = n + (j + 1)
        BY <1>1, <1>2, <3>1, <3>3
      <4> QED BY <1>2, <1>P, <3>1, <3>3, <4>1
    <3> QED BY <3>2, <3>3
  <2> QED BY <2>1, <2>2, <2>3
<1> QED BY <1>2, <1>5, <1>6, <1>7, <1>8, <1>9 DEF Path, c

\* Leading the last block of a path elsewhere: where it leads is what changes.
LEMMA PathRedirect ==
  ASSUME NEW link, NEW s, NEW first, NEW stop, Path(link, s, first, stop),
         NEW link2, DOMAIN link \subseteq DOMAIN link2,
         NEW stop2, stop2 \notin Members(s),
         \A b \in Members(s) : link2[b] = IF b = s[Len(s)] THEN stop2 ELSE link[b],
         NEW first2, s = <<>> => first2 = stop2, s # <<>> => first2 = first
  PROVE  Path(link2, s, first2, stop2)
<1>1. s \in Seq(DOMAIN link) /\ s \in Seq(DOMAIN link2) /\ Len(s) \in Nat
  BY SeqMonotonic DEF Path
<1>2. \A i \in 1 .. Len(s) : s[i] \in Members(s)
  BY <1>1, MembersIs
<1>3. s # <<>> => Len(s) \in 1 .. Len(s)
  BY <1>1, EmptySeq
<1>4. ASSUME NEW i \in 1 .. Len(s)
      PROVE  link2[s[i]] = IF i = Len(s) THEN stop2 ELSE s[i + 1]
  <2>1. s # <<>>
    BY <1>1, EmptySeq
  <2>2. s[i] = s[Len(s)] <=> i = Len(s)
    BY <1>3, <2>1 DEF Path
  <2>3. link[s[i]] = IF i = Len(s) THEN stop ELSE s[i + 1]
    BY DEF Path
  <2> QED BY <1>2, <2>2, <2>3
<1>5. \A i \in 1 .. Len(s) : s[i] # stop2
  BY <1>2
<1> QED BY <1>1, <1>4, <1>5 DEF Path

-----------------------------------------------------------------------------
(* What the blocks of a list hold                                          *)

\* The values of m at the blocks of s, in order.
Along(m, s) == [i \in DOMAIN s |-> m[s[i]]]

\* No blocks hold nothing.
LEMMA AlongNone ==
  ASSUME NEW m
  PROVE  Along(m, <<>>) = <<>>
<1>1. Along(m, <<>>) = [i \in {} |-> m[<<>>[i]]]
  BY DEF Along
<1>2. [i \in {} |-> m[<<>>[i]]] = [i \in 1 .. 0 |-> m[<<>>[i]]]
  OBVIOUS
<1> DEFINE f == [i \in 1 .. 0 |-> m[<<>>[i]]]
<1>3. f \in Seq({}) /\ Len(f) = 0
  OBVIOUS
<1> HIDE DEF f
<1>4. f = <<>>
  BY <1>3, EmptySeq
<1> QED BY <1>1, <1>2, <1>4 DEF f

\* The values, as a sequence in S.
LEMMA AlongIs ==
  ASSUME NEW m, NEW s \in Seq(DOMAIN m)
  PROVE  /\ Along(m, s) \in Seq({m[x] : x \in DOMAIN m})
         /\ Len(Along(m, s)) = Len(s)
         /\ \A i \in 1 .. Len(s) : Along(m, s)[i] = m[s[i]]
<1> DEFINE T == {m[x] : x \in DOMAIN m}
           f == [i \in 1 .. Len(s) |-> m[s[i]]]
<1>1. \A x \in DOMAIN m : m[x] \in T
  OBVIOUS
<1>2. DOMAIN s = 1 .. Len(s) /\ Len(s) \in Nat
  OBVIOUS
<1> HIDE DEF T
<1>3. f \in Seq(T) /\ Len(f) = Len(s) /\ \A i \in 1 .. Len(s) : f[i] = m[s[i]]
  BY <1>1, <1>2
<1>4. Along(m, s) = f
  BY <1>2 DEF Along
<1> QED BY <1>3, <1>4 DEF T

\* Only the blocks of the list matter.
LEMMA AlongSame ==
  ASSUME NEW m, NEW m2, NEW s \in Seq(DOMAIN m), \A b \in Members(s) : m2[b] = m[b]
  PROVE  Along(m2, s) = Along(m, s)
<1>1. \A i \in DOMAIN s : m2[s[i]] = m[s[i]]
  BY MembersIs
<1> QED BY <1>1 DEF Along

\* What a longer list holds.
LEMMA AlongCons ==
  ASSUME NEW m, NEW s \in Seq(DOMAIN m), NEW b \in DOMAIN m, NEW c, c = <<b>> \o s
  PROVE  Along(m, c) = <<m[b]>> \o Along(m, s)
<1> DEFINE D == DOMAIN m
           T == {m[x] : x \in D}
           a == Along(m, s)
           e == <<m[b]>> \o a
           d == Along(m, c)
<1>1. /\ c \in Seq(D) /\ Len(c) = Len(s) + 1 /\ c[1] = b
      /\ \A i \in 2 .. Len(s) + 1 : c[i] = s[i - 1]
  BY MembersCons
<1>2. Len(s) \in Nat /\ m[b] \in T
  OBVIOUS
<1>3. a \in Seq(T) /\ Len(a) = Len(s) /\ \A i \in 1 .. Len(s) : a[i] = m[s[i]]
  BY AlongIs
<1>4. d \in Seq(T) /\ Len(d) = Len(c) /\ \A i \in 1 .. Len(c) : d[i] = m[c[i]]
  <2>1. c \in Seq(DOMAIN m)
    BY <1>1
  <2> QED BY <2>1, AlongIs, Zenon
<1> HIDE DEF T, a, d
<1>5. /\ e \in Seq(T) /\ Len(e) = Len(s) + 1 /\ e[1] = m[b]
      /\ \A i \in 2 .. Len(s) + 1 : e[i] = a[i - 1]
  BY <1>2, <1>3, MembersCons
<1> HIDE DEF e
<1>6. \A i \in 1 .. Len(s) + 1 : d[i] = e[i]
  <2> TAKE i \in 1 .. Len(s) + 1
  <2>1. CASE i = 1
    BY <1>1, <1>4, <1>5, <2>1
  <2>2. CASE i # 1
    <3>1. i \in 2 .. Len(s) + 1 /\ i - 1 \in 1 .. Len(s) /\ i \in 1 .. Len(c)
      BY <1>1, <1>2, <2>2
    <3>2. d[i] = m[c[i]] /\ c[i] = s[i - 1]
      BY <1>1, <1>4, <3>1
    <3>3. e[i] = a[i - 1] /\ a[i - 1] = m[s[i - 1]]
      BY <1>3, <1>5, <3>1
    <3> QED BY <3>2, <3>3
  <2> QED BY <2>1, <2>2
<1>7. d = e
  BY <1>1, <1>4, <1>5, <1>6, SeqEqual
<1> QED BY <1>7 DEF d, e, a

\* What a list holds behind its first block.
LEMMA AlongTail ==
  ASSUME NEW m, NEW s \in Seq(DOMAIN m), s # <<>>
  PROVE  /\ Along(m, s) # <<>> /\ Head(Along(m, s)) = m[s[1]]
         /\ Tail(Along(m, s)) = Along(m, Tail(s))
<1> DEFINE D == DOMAIN m
           T == {m[x] : x \in D}
           a == Along(m, s)
           r == Tail(s)
           d == Along(m, r)
<1>1. /\ Len(s) \in Nat /\ Len(s) >= 1 /\ s[1] \in D
      /\ r \in Seq(D) /\ Len(r) = Len(s) - 1
      /\ \A i \in 1 .. Len(s) - 1 : r[i] = s[i + 1]
  BY SplitHead
<1> HIDE DEF r
<1>2. a \in Seq(T) /\ Len(a) = Len(s) /\ \A i \in 1 .. Len(s) : a[i] = m[s[i]]
  BY AlongIs
<1>3. d \in Seq(T) /\ Len(d) = Len(r) /\ \A i \in 1 .. Len(r) : d[i] = m[r[i]]
  <2>1. r \in Seq(DOMAIN m)
    BY <1>1
  <2> QED BY <2>1, AlongIs, Zenon
<1> HIDE DEF T, a, d
<1>4. a # <<>>
  BY <1>1, <1>2, EmptySeq
<1>5. /\ Tail(a) \in Seq(T) /\ Len(Tail(a)) = Len(s) - 1
      /\ \A i \in 1 .. Len(s) - 1 : Tail(a)[i] = a[i + 1]
  BY <1>2, <1>4, SplitHead
<1>6. \A i \in 1 .. Len(s) - 1 : Tail(a)[i] = d[i]
  <2> TAKE i \in 1 .. Len(s) - 1
  <2>1. i + 1 \in 1 .. Len(s) /\ i \in 1 .. Len(r)
    BY <1>1
  <2>2. Tail(a)[i] = a[i + 1] /\ a[i + 1] = m[s[i + 1]]
    BY <1>2, <1>5, <2>1
  <2>3. d[i] = m[r[i]] /\ r[i] = s[i + 1]
    BY <1>1, <1>3, <2>1
  <2> QED BY <2>2, <2>3
<1>7. Tail(a) = d
  BY <1>1, <1>3, <1>5, <1>6, SeqEqual
<1>8. Head(a) = m[s[1]]
  <2>1. Head(a) = a[1]
    BY <1>2, <1>4
  <2>2. 1 \in 1 .. Len(s)
    BY <1>1
  <2> QED BY <1>2, <2>1, <2>2
<1> QED BY <1>4, <1>7, <1>8 DEF a, d, r

\* What a list holds with a block at its end.
LEMMA AlongAppend ==
  ASSUME NEW m, NEW s \in Seq(DOMAIN m), NEW b \in DOMAIN m, NEW c, c = Append(s, b)
  PROVE  Along(m, c) = Append(Along(m, s), m[b])
<1> DEFINE D == DOMAIN m
           T == {m[x] : x \in D}
           a == Along(m, s)
           e == Append(a, m[b])
           d == Along(m, c)
<1>1. /\ c \in Seq(D) /\ Len(c) = Len(s) + 1 /\ c[Len(s) + 1] = b
      /\ \A i \in 1 .. Len(s) : c[i] = s[i]
  BY MembersAppend
<1>2. Len(s) \in Nat /\ m[b] \in T
  OBVIOUS
<1>3. a \in Seq(T) /\ Len(a) = Len(s) /\ \A i \in 1 .. Len(s) : a[i] = m[s[i]]
  BY AlongIs
<1>4. d \in Seq(T) /\ Len(d) = Len(c) /\ \A i \in 1 .. Len(c) : d[i] = m[c[i]]
  <2>1. c \in Seq(DOMAIN m)
    BY <1>1
  <2> QED BY <2>1, AlongIs, Zenon
<1> HIDE DEF T, a, d
<1>5. /\ e \in Seq(T) /\ Len(e) = Len(s) + 1 /\ e[Len(s) + 1] = m[b]
      /\ \A i \in 1 .. Len(s) : e[i] = a[i]
  BY <1>2, <1>3, MembersAppend
<1> HIDE DEF e
<1>6. \A i \in 1 .. Len(s) + 1 : d[i] = e[i]
  <2> TAKE i \in 1 .. Len(s) + 1
  <2>1. CASE i = Len(s) + 1
    BY <1>1, <1>2, <1>4, <1>5, <2>1
  <2>2. CASE i # Len(s) + 1
    <3>1. i \in 1 .. Len(s) /\ i \in 1 .. Len(c)
      BY <1>1, <1>2, <2>2
    <3> QED BY <1>1, <1>3, <1>4, <1>5, <3>1
  <2> QED BY <2>1, <2>2
<1>7. d = e
  BY <1>1, <1>4, <1>5, <1>6, SeqEqual
<1> QED BY <1>7 DEF d, e, a

\* What one block holds.
LEMMA AlongOne ==
  ASSUME NEW m, NEW b \in DOMAIN m
  PROVE  Along(m, <<b>>) = <<m[b]>>
<1> DEFINE c == <<b>>
           a == Along(m, c)
           e == <<m[b]>>
           T == {m[x] : x \in DOMAIN m}
<1>1. c \in Seq(DOMAIN m) /\ Len(c) = 1 /\ c[1] = b
  OBVIOUS
<1>2. e \in Seq(T) /\ Len(e) = 1 /\ e[1] = m[b]
  OBVIOUS
<1> HIDE DEF c, e
<1>3. a \in Seq(T) /\ Len(a) = Len(c) /\ \A i \in 1 .. Len(c) : a[i] = m[c[i]]
  BY <1>1, AlongIs
<1> HIDE DEF a, T
<1>4. \A i \in 1 .. 1 : a[i] = e[i]
  BY <1>1, <1>2, <1>3
<1>5. a = e
  BY <1>1, <1>2, <1>3, <1>4, SeqEqual
<1> QED BY <1>5 DEF a, c, e

\* Two threads in front of the others.
LEMMA ConsTwice ==
  ASSUME NEW D, NEW s \in Seq(D), NEW a \in D, NEW b \in D
  PROVE  <<a>> \o (<<b>> \o s) = <<a, b>> \o s
<1> DEFINE u == <<b>> \o s
           l == <<a>> \o u
           p == <<a, b>>
           r == p \o s
<1>1. /\ u \in Seq(D) /\ Len(u) = Len(s) + 1 /\ u[1] = b
      /\ \A i \in 2 .. Len(s) + 1 : u[i] = s[i - 1]
  BY MembersCons
<1>2. Len(s) \in Nat
  OBVIOUS
<1>3. p \in Seq(D) /\ Len(p) = 2 /\ p[1] = a /\ p[2] = b
  OBVIOUS
<1> HIDE DEF u, p
<1>4. /\ l \in Seq(D) /\ Len(l) = Len(u) + 1 /\ l[1] = a
      /\ \A i \in 2 .. Len(u) + 1 : l[i] = u[i - 1]
  BY <1>1, MembersCons
<1>5. /\ r \in Seq(D) /\ Len(r) = Len(s) + 2 /\ r[1] = a /\ r[2] = b
      /\ \A i \in 3 .. Len(s) + 2 : r[i] = s[i - 2]
  <2>1. /\ r \in Seq(D) /\ Len(r) = Len(p) + Len(s)
        /\ \A i \in 1 .. Len(p) + Len(s) :
             r[i] = IF i <= Len(p) THEN p[i] ELSE s[i - Len(p)]
    BY <1>3, ConcatProperties
  <2> HIDE DEF r
  <2>2. r[1] = a /\ r[2] = b
    BY <1>2, <1>3, <2>1
  <2>3. \A i \in 3 .. Len(s) + 2 : r[i] = s[i - 2]
    BY <1>2, <1>3, <2>1
  <2> QED BY <1>2, <1>3, <2>1, <2>2, <2>3
<1> HIDE DEF l, r
<1>6. \A i \in 1 .. Len(s) + 2 : l[i] = r[i]
  <2> TAKE i \in 1 .. Len(s) + 2
  <2>1. CASE i = 1
    BY <1>4, <1>5, <2>1
  <2>2. CASE i = 2
    <3>1. 2 \in 2 .. Len(u) + 1
      BY <1>1, <1>2
    <3> QED BY <1>1, <1>4, <1>5, <2>2, <3>1
  <2>3. CASE i \notin {1, 2}
    <3>1. i \in 3 .. Len(s) + 2 /\ i \in 2 .. Len(u) + 1 /\ i - 1 \in 2 .. Len(s) + 1
      BY <1>1, <1>2, <2>3
    <3>2. l[i] = u[i - 1] /\ u[i - 1] = s[i - 1 - 1] /\ r[i] = s[i - 2]
      BY <1>1, <1>4, <1>5, <3>1
    <3>3. i - 1 - 1 = i - 2
      BY <3>1
    <3> QED BY <3>2, <3>3
  <2> QED BY <2>1, <2>2, <2>3
<1>7. l = r
  BY <1>1, <1>2, <1>4, <1>5, <1>6, SeqEqual
<1> QED BY <1>7 DEF l, r, u, p
=============================================================================
