--------------------------- MODULE Gateway_proofs ---------------------------
(* What the gateway does for its clients beside serving turns, for any       *)
(* accounts, keys, requests and processes.  The parts share no state, so     *)
(* that a step of Gateway is a step of one part and changes nothing of the   *)
(* others.                                                                   *)
EXTENDS Gateway, FiniteSetTheorems, SequenceTheorems, WellFoundedInduction, TLAPS

(* Induction.  A set of numbers that holds 0 and with a number its successor *)
(* holds all numbers: what is proved by induction below is stated of the set *)
(* of the numbers it is true of.                                             *)
LEMMA LeastOfSet ==
  ASSUME NEW T \in SUBSET Nat, T # {}
  PROVE  \E x \in T : \A y \in T : x <= y
<1> DEFINE R == OpToRel(<, Nat)
<1>1. IsWellFoundedOn(R, Nat)
  BY NatLessThanWellFounded
<1>2. \A x, y \in Nat : y < x => <<y, x>> \in R
  BY DEF OpToRel
<1> HIDE DEF R
<1>3. PICK x \in T : \A y \in T : ~(<<y, x>> \in R)
  BY <1>1, WFMin
<1>4. ASSUME NEW y \in T PROVE x <= y
  <2>1. x \in Nat /\ y \in Nat /\ <<y, x>> \notin R
    BY <1>3
  <2>2. ~(y < x)
    BY <1>2, <2>1, Zenon
  <2> QED BY <2>1, <2>2
<1> QED BY <1>4

LEMMA SetInduction ==
  ASSUME NEW T \in SUBSET Nat, 0 \in T, \A n \in T : n + 1 \in T
  PROVE  T = Nat
<1> SUFFICES ASSUME Nat \ T # {} PROVE FALSE
  OBVIOUS
<1>1. PICK x \in Nat \ T : \A y \in Nat \ T : x <= y
  BY LeastOfSet
<1>2. x # 0 /\ x - 1 \in Nat /\ x - 1 \notin Nat \ T
  BY <1>1
<1> QED BY <1>1, <1>2

\* What a function makes of a value and a list, one element after another.
Iterated(V, G, o, m, h) ==
  \E f \in [0 .. m -> V] : f[0] = o /\ \A i \in 1 .. m : f[i] = G[<<f[i - 1], h[i]>>]
LEMMA Iterates ==
  ASSUME NEW V, NEW X, NEW G \in [V \X X -> V], NEW o \in V,
         NEW m \in Nat, NEW h \in [1 .. m -> X]
  PROVE  Iterated(V, G, o, m, h)
<1> DEFINE Good(n, f) == f[0] = o /\ \A i \in 1 .. n : f[i] = G[<<f[i - 1], h[i]>>]
           T == {n \in Nat : n <= m => \E f \in [0 .. n -> V] : Good(n, f)}
<1>1. 0 \in T
  <2>1. [i \in 0 .. 0 |-> o] \in [0 .. 0 -> V] /\ Good(0, [i \in 0 .. 0 |-> o])
    OBVIOUS
  <2> QED BY <2>1
<1>2. ASSUME NEW n \in T PROVE n + 1 \in T
  <2>1. CASE n + 1 <= m
    <3>1. PICK f \in [0 .. n -> V] : Good(n, f)
      BY <2>1
    <3> DEFINE g == [i \in 0 .. n + 1 |-> IF i = n + 1 THEN G[<<f[n], h[n + 1]>>] ELSE f[i]]
    <3>2. h[n + 1] \in X /\ <<f[n], h[n + 1]>> \in V \X X
      BY <2>1
    <3>3. g \in [0 .. n + 1 -> V]
      BY <3>2
    <3>4. /\ \A i \in 0 .. n : g[i] = f[i]
          /\ g[n + 1] = G[<<f[n], h[n + 1]>>]
      OBVIOUS
    <3> HIDE DEF g
    <3>5. ASSUME NEW i \in 1 .. n + 1 PROVE g[i] = G[<<g[i - 1], h[i]>>]
      <4>1. CASE i = n + 1
        <5>1. n \in Nat /\ i - 1 = n /\ n \in 0 .. n
          BY <4>1
        <5> QED BY <3>4, <4>1, <5>1
      <4>2. CASE i \in 1 .. n
        BY <3>1, <3>4, <4>2
      <4> QED BY <4>1, <4>2
    <3>6. g[0] = o
      BY <3>1, <3>4
    <3> QED BY <3>3, <3>5, <3>6
  <2> QED BY <2>1
<1>3. T = Nat
  <2> HIDE DEF T
  <2>1. T \in SUBSET Nat
    BY DEF T
  <2> QED BY <1>1, <1>2, <2>1, SetInduction
<1> QED BY <1>3 DEF Iterated

LEMMA ConcatsAre ==
  ASSUME NEW V, NEW s \in Seq(V), NEW t \in Seq(V)
  PROVE  /\ s \o t \in Seq(V) /\ Len(s \o t) = Len(s) + Len(t)
         /\ \A i \in 1 .. Len(s) : (s \o t)[i] = s[i]
         /\ \A i \in 1 .. Len(t) : (s \o t)[Len(s) + i] = t[i]
OBVIOUS

\* A set of sequences that holds the empty one and with a sequence all that
\* are one element longer holds all sequences.
LEMMA ListInduction ==
  ASSUME NEW V, NEW T \in SUBSET Seq(V), <<>> \in T,
         \A s \in T : \A x \in V : Append(s, x) \in T
  PROVE  T = Seq(V)
<1> DEFINE N == {n \in Nat : \A s \in Seq(V) : Len(s) = n => s \in T}
<1>1. 0 \in N
  BY EmptySeq
<1>2. ASSUME NEW n \in N PROVE n + 1 \in N
  <2> SUFFICES ASSUME NEW s \in Seq(V), Len(s) = n + 1 PROVE s \in T
    OBVIOUS
  <2>1. n \in Nat /\ s # <<>>
    OBVIOUS
  <2>2. PICK r \in Seq(V), x \in V : s = Append(r, x)
    BY <2>1, SequenceEmptyOrAppend
  <2>3. Len(s) = Len(r) + 1 /\ Len(r) \in Nat
    BY <2>2, AppendProperties
  <2>4. Len(r) = n
    BY <2>1, <2>3
  <2> QED BY <2>2, <2>4
<1>3. N \in SUBSET Nat
  OBVIOUS
<1> HIDE DEF N
<1>4. N = Nat
  BY <1>1, <1>2, <1>3, SetInduction
<1>5. \A s \in Seq(V) : Len(s) \in Nat
  OBVIOUS
<1> QED BY <1>4, <1>5 DEF N

\* What a sequence of sequences is when put together.
Joins(V, s, f) ==
  /\ f \in [0 .. Len(s) -> Seq(V)] /\ f[0] = <<>>
  /\ \A i \in 1 .. Len(s) : f[i] = f[i - 1] \o s[i]

LEMMA JoinsExist ==
  ASSUME NEW V, NEW s \in Seq(Seq(V))
  PROVE  \E f : Joins(V, s, f)
<1> DEFINE G == [p \in Seq(V) \X Seq(V) |-> p[1] \o p[2]]
<1>1. G \in [Seq(V) \X Seq(V) -> Seq(V)] /\ <<>> \in Seq(V) /\ Len(s) \in Nat /\ s \in [1 .. Len(s) -> Seq(V)]
  OBVIOUS
<1>2. \A a, b \in Seq(V) : G[<<a, b>>] = a \o b
  OBVIOUS
<1> HIDE DEF G
<1>3. Iterated(Seq(V), G, <<>>, Len(s), s)
  BY <1>1, Iterates
<1>4. PICK f \in [0 .. Len(s) -> Seq(V)] : f[0] = <<>> /\ \A i \in 1 .. Len(s) : f[i] = G[<<f[i - 1], s[i]>>]
  BY <1>3 DEF Iterated
<1>5. ASSUME NEW i \in 1 .. Len(s) PROVE f[i] = f[i - 1] \o s[i]
  <2>1. i - 1 \in 0 .. Len(s)
    BY <1>1
  <2>2. f[i - 1] \in Seq(V) /\ s[i] \in Seq(V)
    BY <1>1, <1>4, <2>1
  <2> QED BY <1>2, <1>4, <2>2
<1> QED BY <1>4, <1>5 DEF Joins

LEMMA FlattenIs ==
  ASSUME NEW V, NEW s \in Seq(Seq(V)), NEW f, Joins(V, s, f)
  PROVE  TA!FlattenSeq(s) = f[Len(s)]
<1> DEFINE n == Len(s)
           Runs(g) == g = [i \in 1 .. n |-> IF i = 1 THEN s[i] ELSE g[i - 1] \o s[i]]
           it == CHOOSE g : Runs(g)
           known == [i \in 1 .. n |-> f[i]]
<1>1. n \in Nat
  OBVIOUS
<1>2. CASE n = 0
  <2>1. TA!FlattenSeq(s) = s /\ s = <<>>
    BY <1>2 DEF TA!FlattenSeq
  <2> QED BY <1>2, <2>1 DEF Joins
<1>3. CASE n # 0
  <2>1. TA!FlattenSeq(s) = it[n]
    BY <1>3, Zenon DEF TA!FlattenSeq
  <2>2. f[1] = s[1]
    <3>1. 1 \in 1 .. Len(s) /\ 1 - 1 = 0
      BY <1>1, <1>3
    <3>2. f[1] = f[1 - 1] \o s[1] /\ f[0] = <<>>
      BY <3>1, Zenon DEF Joins
    <3>3. f[1] = <<>> \o s[1]
      BY <3>1, <3>2
    <3>4. s[1] \in Seq(V)
      BY <3>1
    <3> QED BY <3>3, <3>4, ConcatEmptySeq, Zenon
  <2>3. \A i \in 1 .. n : i = 1 \/ i - 1 \in 1 .. n
    BY <1>1
  <2>4. Runs(known)
    BY <2>2, <2>3 DEF Joins
  <2> HIDE DEF known, n
  <2>5. Runs(it)
    BY <2>4, Zenon
  <2> HIDE DEF it
  <2> DEFINE T == {i \in Nat : i + 1 \in 1 .. n => it[i + 1] = f[i + 1]}
  <2>6. 0 \in T
    BY <1>1, <1>3, <2>2, <2>5
  <2>7. ASSUME NEW i \in T PROVE i + 1 \in T
    <3> SUFFICES ASSUME i + 2 \in 1 .. n PROVE it[i + 2] = f[i + 2]
      OBVIOUS
    <3>1. i \in Nat /\ i + 1 \in 1 .. n /\ (i + 2) - 1 = i + 1 /\ i + 2 # 1
      BY <1>1
    <3>2. it[i + 2] = it[i + 1] \o s[i + 2]
      BY <2>5, <3>1
    <3>3. f[i + 2] = f[i + 1] \o s[i + 2]
      BY <3>1 DEF Joins, n
    <3> QED BY <3>1, <3>2, <3>3
  <2>8. T \in SUBSET Nat
    OBVIOUS
  <2> HIDE DEF T
  <2>9. T = Nat
    BY <2>6, <2>7, <2>8, SetInduction
  <2>10. n - 1 \in T /\ (n - 1) + 1 = n
    BY <1>1, <1>3, <2>9
  <2>11. it[n] = f[n]
    BY <1>1, <1>3, <2>10 DEF T
  <2> QED BY <2>1, <2>11 DEF n
<1> QED BY <1>2, <1>3

LEMMA FlattenGrows ==
  ASSUME NEW V, NEW s \in Seq(Seq(V))
  PROVE  /\ TA!FlattenSeq(s) \in Seq(V) /\ TA!FlattenSeq(<<>>) = <<>>
         /\ \A x \in Seq(V) : TA!FlattenSeq(Append(s, x)) = TA!FlattenSeq(s) \o x
<1> DEFINE n == Len(s)
<1>1. n \in Nat
  OBVIOUS
<1>2. TA!FlattenSeq(<<>>) = <<>>
  BY DEF TA!FlattenSeq
<1>3. PICK f : Joins(V, s, f)
  BY JoinsExist
<1>4. TA!FlattenSeq(s) = f[n] /\ f[n] \in Seq(V)
  <2>1. TA!FlattenSeq(s) = f[n]
    BY <1>3, FlattenIs
  <2>2. f \in [0 .. n -> Seq(V)] /\ n \in 0 .. n
    BY <1>1, <1>3 DEF Joins
  <2> QED BY <2>1, <2>2
<1>5. ASSUME NEW x \in Seq(V) PROVE TA!FlattenSeq(Append(s, x)) = TA!FlattenSeq(s) \o x
  <2> DEFINE t == Append(s, x)
             g == [i \in 0 .. n + 1 |-> IF i = n + 1 THEN f[n] \o x ELSE f[i]]
  <2>1. t \in Seq(Seq(V)) /\ Len(t) = n + 1 /\ t[n + 1] = x /\ \A i \in 1 .. n : t[i] = s[i]
    OBVIOUS
  <2>2. g \in [0 .. n + 1 -> Seq(V)] /\ g[n + 1] = f[n] \o x /\ \A i \in 0 .. n : g[i] = f[i]
    BY <1>1, <1>3, <1>4 DEF Joins
  <2> HIDE DEF t, g, n
  <2>3. Joins(V, t, g)
    <3>1. g[0] = <<>>
      BY <1>1, <1>3, <2>2 DEF Joins, n
    <3>2. ASSUME NEW i \in 1 .. n + 1 PROVE g[i] = g[i - 1] \o t[i]
      <4>1. CASE i = n + 1
        <5>1. i - 1 = n /\ n \in 0 .. n
          BY <1>1, <4>1
        <5>2. g[i - 1] = f[n] /\ t[i] = x /\ g[i] = f[n] \o x
          BY <2>1, <2>2, <4>1, <5>1, Zenon
        <5> QED BY <5>2
      <4>2. CASE i \in 1 .. n
        <5>1. i \in 0 .. n /\ i - 1 \in 0 .. n
          BY <1>1, <4>2
        <5>2. f[i] = f[i - 1] \o s[i]
          BY <1>3, <4>2 DEF Joins, n
        <5> QED BY <2>1, <2>2, <4>2, <5>1, <5>2
      <4>3. i = n + 1 \/ i \in 1 .. n
        BY <1>1
      <4> QED BY <4>1, <4>2, <4>3, Zenon
    <3> QED BY <2>1, <2>2, <3>1, <3>2 DEF Joins
  <2>4. TA!FlattenSeq(t) = g[n + 1]
    BY <2>1, <2>3, FlattenIs
  <2> QED BY <1>4, <2>2, <2>4 DEF t
<1> QED BY <1>2, <1>4, <1>5

-----------------------------------------------------------------------------
(* The texts of objects.  All that is used of a text is where its brackets   *)
(* stand: it begins with one, each other opening one follows a field and is  *)
(* closed at once, and the last token closes the first (Shaped).             *)
Word == DOMAIN Bytes
Field == Word \X Word
Token == Field \cup {TA!Opening, TA!Closing}
Part(f) == IF TA!Nested(f) THEN <<f, TA!Opening, TA!Closing>> ELSE <<f>>
Body(d) == TA!FlattenSeq([i \in DOMAIN d |-> Part(d[i])])
Front(d) == <<TA!Opening>> \o Body(d)
Belonging(s, Z) == TA!FlattenSeq([i \in DOMAIN s |-> IF s[i] \in Z THEN <<s[i]>> ELSE <<>>])

LEMMA TokensDiffer ==
  /\ TA!Opening # TA!Closing /\ TA!Opening \in Token /\ TA!Closing \in Token
  /\ \A f \in Field : f \in Token /\ f # TA!Opening /\ f # TA!Closing
<1>1. TA!Opening[1] = "{" /\ TA!Closing[1] = "}" /\ Len(TA!Opening) = 1 /\ Len(TA!Closing) = 1
  BY DEF TA!Opening, TA!Closing
<1>2. ASSUME NEW f \in Field PROVE f # TA!Opening /\ f # TA!Closing
  <2>1. f = <<f[1], f[2]>>
    BY DEF Field
  <2>2. Len(f) = 2 /\ 1 # 2
    BY <2>1
  <2> QED BY <1>1, <2>2, Zenon
<1>3. TA!Opening # TA!Closing
  BY <1>1
<1> QED BY <1>2, <1>3 DEF Token

\* Mapped one by one, a longer list gives the longer list.
LEMMA MapGrows ==
  ASSUME NEW V, NEW W, NEW g \in [V -> W], NEW s \in Seq(V), NEW x \in V
  PROVE  /\ [i \in DOMAIN s |-> g[s[i]]] \in Seq(W)
         /\ [i \in DOMAIN Append(s, x) |-> g[Append(s, x)[i]]] = Append([i \in DOMAIN s |-> g[s[i]]], g[x])
<1> DEFINE a == [i \in DOMAIN s |-> g[s[i]]]
           t == Append(s, x)
           b == [i \in DOMAIN t |-> g[t[i]]]
<1>1. DOMAIN s = 1 .. Len(s) /\ Len(s) \in Nat /\ \A i \in 1 .. Len(s) : s[i] \in V
  OBVIOUS
<1>2. a \in Seq(W) /\ Len(a) = Len(s) /\ \A i \in 1 .. Len(s) : a[i] = g[s[i]]
  BY <1>1, IsASeq
<1>3. t \in Seq(V) /\ Len(t) = Len(s) + 1 /\ t[Len(s) + 1] = x /\ \A i \in 1 .. Len(s) : t[i] = s[i]
  BY AppendProperties
<1>4. DOMAIN t = 1 .. Len(s) + 1 /\ \A i \in 1 .. Len(s) + 1 : t[i] \in V
  BY <1>1, <1>3
<1> HIDE DEF t
<1>5. b \in Seq(W) /\ Len(b) = Len(s) + 1 /\ \A i \in 1 .. Len(s) + 1 : b[i] = g[t[i]]
  BY <1>1, <1>4, IsASeq
<1> HIDE DEF a, b
<1> DEFINE c == Append(a, g[x])
<1>6. c \in Seq(W) /\ Len(c) = Len(s) + 1 /\ c[Len(s) + 1] = g[x] /\ \A i \in 1 .. Len(s) : c[i] = a[i]
  <2>1. g[x] \in W
    OBVIOUS
  <2> QED BY <1>2, <2>1, AppendProperties
<1> HIDE DEF c
<1>7. \A i \in 1 .. Len(b) : b[i] = c[i]
  BY <1>1, <1>2, <1>3, <1>5, <1>6
<1>8. b = c
  BY <1>5, <1>6, <1>7, SeqEqual
<1> QED BY <1>2, <1>8 DEF a, b, c, t

\* The elements of a list that belong to a set.
LEMMA ThoseGrow ==
  ASSUME NEW V, NEW Z, NEW s \in Seq(V), NEW x \in V
  PROVE  /\ x \in Z => Belonging(Append(s, x), Z) = Append(Belonging(s, Z), x)
         /\ x \notin Z => Belonging(Append(s, x), Z) = Belonging(s, Z)
<1> DEFINE W == Seq(V \cap Z)
           g == [y \in V |-> IF y \in Z THEN <<y>> ELSE <<>>]
           a == [i \in DOMAIN s |-> g[s[i]]]
           t == Append(s, x)
           b == [i \in DOMAIN t |-> g[t[i]]]
<1>1. g \in [V -> W]
  <2>1. ASSUME NEW y \in V PROVE (IF y \in Z THEN <<y>> ELSE <<>>) \in Seq(V \cap Z)
    <3>1. <<>> \in Seq(V \cap Z)
      OBVIOUS
    <3>2. ASSUME y \in V \cap Z PROVE <<y>> \in Seq(V \cap Z)
      BY <3>2
    <3> QED BY <3>1, <3>2
  <2> QED BY <2>1
<1>2. a \in Seq(W) /\ b = Append(a, g[x])
  <2> HIDE DEF g, W
  <2> QED BY <1>1, MapGrows
<1>3. Belonging(s, Z) = TA!FlattenSeq(a)
  <2>1. \A i \in DOMAIN s : s[i] \in V
    OBVIOUS
  <2>2. a = [i \in DOMAIN s |-> IF s[i] \in Z THEN <<s[i]>> ELSE <<>>]
    BY <2>1
  <2> QED BY <2>2, Zenon DEF Belonging
<1>4. Belonging(t, Z) = TA!FlattenSeq(b)
  <2>1. \A i \in DOMAIN t : t[i] \in V
    BY AppendProperties
  <2> HIDE DEF t
  <2>2. b = [i \in DOMAIN t |-> IF t[i] \in Z THEN <<t[i]>> ELSE <<>>]
    BY <2>1
  <2> QED BY <2>2, Zenon DEF Belonging
<1> HIDE DEF a, b
<1>6. TA!FlattenSeq(a) \in Seq(V \cap Z) /\ TA!FlattenSeq(b) = TA!FlattenSeq(a) \o g[x]
  <2>1. g[x] \in Seq(V \cap Z)
    BY <1>1
  <2> HIDE DEF g
  <2> QED BY <1>2, <2>1, FlattenGrows
<1>7. CASE x \in Z
  <2>1. g[x] = <<x>> /\ x \in V \cap Z
    BY <1>7
  <2> HIDE DEF g
  <2>2. TA!FlattenSeq(b) = Append(TA!FlattenSeq(a), x)
    BY <1>6, <2>1, AppendIsConcat
  <2> QED BY <1>3, <1>4, <1>6, <1>7, <2>2
<1>8. CASE x \notin Z
  <2>1. g[x] = <<>>
    BY <1>8
  <2> HIDE DEF g
  <2>2. TA!FlattenSeq(b) = TA!FlattenSeq(a)
    BY <1>6, <2>1, ConcatEmptySeq
  <2> QED BY <1>3, <1>4, <1>6, <1>8, <2>2
<1> QED BY <1>7, <1>8

LEMMA ThoseAre ==
  ASSUME NEW V, NEW Z
  PROVE  Belonging(<<>>, Z) = <<>> /\ \A s \in Seq(V) : Belonging(s, Z) \in Seq(V \cap Z)
<1>1. Belonging(<<>>, Z) = <<>>
  <2>1. [i \in DOMAIN <<>> |-> IF <<>>[i] \in Z THEN <<<<>>[i]>> ELSE <<>>] = <<>>
    OBVIOUS
  <2> QED BY <2>1 DEF Belonging, TA!FlattenSeq
<1> DEFINE T == {s \in Seq(V) : Belonging(s, Z) \in Seq(V \cap Z)}
<1>2. <<>> \in T
  <2>1. <<>> \in Seq(V) /\ <<>> \in Seq(V \cap Z)
    OBVIOUS
  <2> QED BY <1>1, <2>1
<1>3. ASSUME NEW s \in T, NEW x \in V PROVE Append(s, x) \in T
  <2>1. s \in Seq(V) /\ Belonging(s, Z) \in Seq(V \cap Z)
    OBVIOUS
  <2>2. Append(s, x) \in Seq(V)
    BY <2>1, AppendProperties
  <2>3. CASE x \in Z
    <3>1. Belonging(Append(s, x), Z) = Append(Belonging(s, Z), x)
      BY <2>1, <2>3, ThoseGrow
    <3>2. Append(Belonging(s, Z), x) \in Seq(V \cap Z)
      BY <2>1, <2>3, AppendProperties
    <3> QED BY <2>2, <3>1, <3>2
  <2>4. CASE x \notin Z
    <3>1. Belonging(Append(s, x), Z) = Belonging(s, Z)
      BY <2>1, <2>4, ThoseGrow
    <3> QED BY <2>1, <2>2, <3>1
  <2> QED BY <2>3, <2>4
<1> HIDE DEF T
<1>4. T \in SUBSET Seq(V)
  BY DEF T
<1>5. T = Seq(V)
  BY <1>2, <1>3, <1>4, ListInduction
<1> QED BY <1>1, <1>5 DEF T

LEMMA FieldsAre ==
  ASSUME NEW s \in Seq(Token)
  PROVE  TA!Fields(s) = Belonging(s, Field)
<1>1. \A i \in DOMAIN s : s[i] \notin {TA!Opening, TA!Closing} <=> s[i] \in Field
  BY TokensDiffer DEF Token
<1>2. [i \in DOMAIN s |-> IF s[i] \notin {TA!Opening, TA!Closing} THEN <<s[i]>> ELSE <<>>]
      = [i \in DOMAIN s |-> IF s[i] \in Field THEN <<s[i]>> ELSE <<>>]
  BY <1>1
<1> QED BY <1>2, Zenon DEF TA!Fields, TA!Picked, Belonging

LEMMA FieldsGrow ==
  ASSUME NEW s \in Seq(Token), NEW x \in Token
  PROVE  /\ TA!Fields(<<>>) = <<>> /\ TA!Fields(s) \in Seq(Field)
         /\ x \in Field => TA!Fields(Append(s, x)) = Append(TA!Fields(s), x)
         /\ x \notin Field => TA!Fields(Append(s, x)) = TA!Fields(s)
<1>1. <<>> \in Seq(Token) /\ Append(s, x) \in Seq(Token)
  BY AppendProperties
<1>2. TA!Fields(<<>>) = Belonging(<<>>, Field) /\ TA!Fields(s) = Belonging(s, Field)
      /\ TA!Fields(Append(s, x)) = Belonging(Append(s, x), Field)
  BY <1>1, FieldsAre
<1>3. Token \cap Field = Field
  BY DEF Token
<1>4. Belonging(<<>>, Field) = <<>> /\ Belonging(s, Field) \in Seq(Field)
  BY <1>3, ThoseAre
<1>5. ASSUME x \in Field PROVE Belonging(Append(s, x), Field) = Append(Belonging(s, Field), x)
  BY <1>5, ThoseGrow
<1>6. ASSUME x \notin Field PROVE Belonging(Append(s, x), Field) = Belonging(s, Field)
  BY <1>6, ThoseGrow
<1> QED BY <1>2, <1>4, <1>5, <1>6, Zenon

LEMMA BodyGrows ==
  ASSUME NEW d \in Seq(Field), NEW f \in Field
  PROVE  /\ Body(<<>>) = <<>> /\ Body(d) \in Seq(Token)
         /\ Body(Append(d, f)) = Body(d) \o Part(f)
<1> DEFINE W == Seq(Token)
           g == [y \in Field |-> Part(y)]
           a == [i \in DOMAIN d |-> g[d[i]]]
           t == Append(d, f)
           b == [i \in DOMAIN t |-> g[t[i]]]
<1>1. ASSUME NEW y \in Field PROVE Part(y) \in Seq(Token)
  <2>1. y \in Token /\ TA!Opening \in Token /\ TA!Closing \in Token
    BY TokensDiffer
  <2> QED BY <2>1 DEF Part
<1>2. g \in [Field -> W] /\ \A y \in Field : g[y] = Part(y)
  BY <1>1
<1>3. a \in Seq(W) /\ b = Append(a, g[f])
  <2> HIDE DEF g, W
  <2> QED BY <1>2, MapGrows
<1>4. Body(d) = TA!FlattenSeq(a)
  <2>1. \A i \in DOMAIN d : d[i] \in Field
    OBVIOUS
  <2> HIDE DEF g
  <2>2. a = [i \in DOMAIN d |-> Part(d[i])]
    BY <1>2, <2>1
  <2> QED BY <2>2, Zenon DEF Body
<1>5. Body(t) = TA!FlattenSeq(b)
  <2>1. \A i \in DOMAIN t : t[i] \in Field
    BY AppendProperties
  <2> HIDE DEF t, g
  <2>2. b = [i \in DOMAIN t |-> Part(t[i])]
    BY <1>2, <2>1
  <2> QED BY <2>2, Zenon DEF Body
<1>6. Body(<<>>) = <<>>
  <2>1. [i \in DOMAIN <<>> |-> Part(<<>>[i])] = <<>>
    OBVIOUS
  <2> QED BY <2>1 DEF Body, TA!FlattenSeq
<1>7. g[f] = Part(f) /\ Part(f) \in Seq(Token)
  BY <1>1
<1> HIDE DEF a, b, g
<1>8. TA!FlattenSeq(a) \in Seq(Token) /\ TA!FlattenSeq(b) = TA!FlattenSeq(a) \o Part(f)
  BY <1>3, <1>7, FlattenGrows
<1> QED BY <1>4, <1>5, <1>6, <1>8, Zenon DEF t

\* The beginning of a text grows by the tokens of a field.
LEMMA FrontGrows ==
  ASSUME NEW d \in Seq(Field), NEW f \in Field
  PROVE  /\ Front(<<>>) = <<TA!Opening>> /\ Front(d) \in Seq(Token)
         /\ ~TA!Nested(f) => Front(Append(d, f)) = Append(Front(d), f)
         /\ TA!Nested(f) => Front(Append(d, f)) = Append(Append(Append(Front(d), f), TA!Opening), TA!Closing)
<1> DEFINE o == <<TA!Opening>>
<1>1. TA!Opening \in Token /\ TA!Closing \in Token /\ f \in Token /\ o \in Seq(Token)
  BY TokensDiffer
<1>2. Body(<<>>) = <<>> /\ Body(d) \in Seq(Token) /\ Body(Append(d, f)) = Body(d) \o Part(f)
  BY BodyGrows
<1>3. Part(f) \in Seq(Token)
  BY <1>1 DEF Part
<1>4. Front(<<>>) = o
  BY <1>1, <1>2, ConcatEmptySeq DEF Front
<1> DEFINE b == Body(d)
           u == Front(d)
<1>5. u = o \o b /\ u \in Seq(Token)
  BY <1>1, <1>2 DEF Front
<1>6. Front(Append(d, f)) = o \o (b \o Part(f))
  BY <1>2, Zenon DEF Front
<1> HIDE DEF o, b, u
<1>7. o \o (b \o Part(f)) = (o \o b) \o Part(f)
  BY <1>1, <1>2, <1>3, ConcatAssociative DEF b
<1>8. Front(Append(d, f)) = u \o Part(f)
  BY <1>5, <1>6, <1>7, Zenon
<1>9. CASE ~TA!Nested(f)
  <2>1. Part(f) = <<f>>
    BY <1>9 DEF Part
  <2>2. u \o <<f>> = Append(u, f)
    BY <1>1, <1>5, AppendIsConcat
  <2> QED BY <1>4, <1>5, <1>8, <1>9, <2>1, <2>2, Zenon DEF o, u
<1>10. CASE TA!Nested(f)
  <2>1. Part(f) = <<f, TA!Opening, TA!Closing>>
    BY <1>10 DEF Part
  <2> DEFINE p == <<f, TA!Opening, TA!Closing>>
             v == Append(u, f)
             w == Append(v, TA!Opening)
             z == Append(w, TA!Closing)
  <2>2. v \in Seq(Token) /\ Len(v) = Len(u) + 1 /\ v[Len(u) + 1] = f /\ \A i \in 1 .. Len(u) : v[i] = u[i]
    BY <1>1, <1>5, AppendProperties
  <2> HIDE DEF v
  <2>3. w \in Seq(Token) /\ Len(w) = Len(v) + 1 /\ w[Len(v) + 1] = TA!Opening /\ \A i \in 1 .. Len(v) : w[i] = v[i]
    BY <1>1, <2>2, AppendProperties
  <2> HIDE DEF w
  <2>4. z \in Seq(Token) /\ Len(z) = Len(w) + 1 /\ z[Len(w) + 1] = TA!Closing /\ \A i \in 1 .. Len(w) : z[i] = w[i]
    BY <1>1, <2>3, AppendProperties
  <2> HIDE DEF z
  <2>5. p \in Seq(Token) /\ Len(p) = 3 /\ p[1] = f /\ p[2] = TA!Opening /\ p[3] = TA!Closing
    BY <1>1
  <2> HIDE DEF p
  <2> DEFINE q == u \o p
  <2>6. /\ q \in Seq(Token) /\ Len(q) = Len(u) + 3
        /\ \A i \in 1 .. Len(u) : q[i] = u[i]
        /\ q[Len(u) + 1] = f /\ q[Len(u) + 2] = TA!Opening /\ q[Len(u) + 3] = TA!Closing
    <3>1. /\ q \in Seq(Token) /\ Len(q) = Len(u) + Len(p)
          /\ \A i \in 1 .. Len(u) : q[i] = u[i]
          /\ \A i \in 1 .. Len(p) : q[Len(u) + i] = p[i]
      <4>1. u \in Seq(Token) /\ p \in Seq(Token)
        BY <1>5, <2>5
      <4> QED BY <4>1, ConcatsAre
    <3> QED BY <2>5, <3>1
  <2> HIDE DEF q
  <2>7. \A i \in 1 .. Len(q) : q[i] = z[i]
    <3> SUFFICES ASSUME NEW i \in 1 .. Len(q) PROVE q[i] = z[i]
      OBVIOUS
    <3>1. Len(u) \in Nat
      BY <1>5
    <3>2. z[Len(u) + 1] = f /\ z[Len(u) + 2] = TA!Opening /\ z[Len(u) + 3] = TA!Closing
          /\ \A j \in 1 .. Len(u) : z[j] = u[j]
      BY <2>2, <2>3, <2>4, <3>1
    <3>3. i \in 1 .. Len(u) \/ i = Len(u) + 1 \/ i = Len(u) + 2 \/ i = Len(u) + 3
      BY <2>6, <3>1
    <3> QED BY <2>6, <3>2, <3>3, Zenon
  <2>8. q = z
    BY <2>2, <2>3, <2>4, <2>6, <2>7, SeqEqual
  <2>9. Front(Append(d, f)) = z
    BY <1>8, <2>1, <2>8, Zenon DEF p, q
  <2> QED BY <1>4, <1>5, <1>10, <2>9, Zenon DEF o, u, v, w, z
<1> QED BY <1>9, <1>10

Unclosed(u) ==
  /\ u \in Seq(Token) /\ Len(u) > 0 /\ u[1] = TA!Opening
  /\ \A p \in 2 .. Len(u) : u[p] = TA!Opening =>
       p > 2 /\ u[p - 1] \in Field /\ p + 1 <= Len(u) /\ u[p + 1] = TA!Closing
  /\ \A p \in 2 .. Len(u) : u[p] = TA!Closing => p > 3 /\ u[p - 1] = TA!Opening
Shaped(t) == \E u : Unclosed(u) /\ t = Append(u, TA!Closing)

LEMMA FieldKeepsOpen ==
  ASSUME NEW u, Unclosed(u), NEW f \in Field
  PROVE  Unclosed(Append(u, f))
<1> DEFINE v == Append(u, f)
<1>1. u \in Seq(Token) /\ Len(u) \in Nat /\ Len(u) > 0 /\ f \in Token /\ f # TA!Opening /\ f # TA!Closing
  BY TokensDiffer DEF Unclosed
<1>2. v \in Seq(Token) /\ Len(v) = Len(u) + 1 /\ v[Len(u) + 1] = f /\ \A i \in 1 .. Len(u) : v[i] = u[i]
  BY <1>1, AppendProperties
<1> HIDE DEF v
<1>3. v[1] = TA!Opening /\ Len(v) > 0
  BY <1>1, <1>2 DEF Unclosed
<1>4. ASSUME NEW p \in 2 .. Len(v) PROVE p \in 2 .. Len(u) \/ v[p] = f
  BY <1>1, <1>2
<1>5. ASSUME NEW p \in 2 .. Len(u) PROVE v[p] = u[p] /\ v[p - 1] = u[p - 1] /\ p \in 1 .. Len(u)
  BY <1>1, <1>2
<1>6. ASSUME NEW p \in 2 .. Len(v), v[p] = TA!Opening
      PROVE  p > 2 /\ v[p - 1] \in Field /\ p + 1 <= Len(v) /\ v[p + 1] = TA!Closing
  <2>1. p \in 2 .. Len(u) /\ u[p] = TA!Opening
    BY <1>1, <1>4, <1>5, <1>6
  <2>2. p > 2 /\ u[p - 1] \in Field /\ p + 1 <= Len(u) /\ u[p + 1] = TA!Closing
    BY <2>1 DEF Unclosed
  <2>3. p + 1 \in 1 .. Len(u)
    BY <1>1, <2>1, <2>2
  <2> QED BY <1>1, <1>2, <1>5, <2>1, <2>2, <2>3
<1>7. ASSUME NEW p \in 2 .. Len(v), v[p] = TA!Closing PROVE p > 3 /\ v[p - 1] = TA!Opening
  <2>1. p \in 2 .. Len(u) /\ u[p] = TA!Closing
    BY <1>1, <1>4, <1>5, <1>7
  <2>2. p > 3 /\ u[p - 1] = TA!Opening
    BY <2>1 DEF Unclosed
  <2> QED BY <1>5, <2>1, <2>2
<1>8. Unclosed(v)
  BY <1>2, <1>3, <1>6, <1>7 DEF Unclosed
<1> QED BY <1>8 DEF v

LEMMA ListKeepsOpen ==
  ASSUME NEW u, Unclosed(u), NEW f \in Field
  PROVE  Unclosed(Append(Append(Append(u, f), TA!Opening), TA!Closing))
<1> DEFINE v == Append(u, f)
           w == Append(v, TA!Opening)
           z == Append(w, TA!Closing)
           n == Len(u)
<1>1. u \in Seq(Token) /\ n \in Nat /\ n > 0 /\ f \in Token /\ TA!Opening \in Token /\ TA!Closing \in Token
      /\ TA!Opening # TA!Closing /\ f # TA!Opening /\ f # TA!Closing
  BY TokensDiffer DEF Unclosed
<1>2. v \in Seq(Token) /\ Len(v) = n + 1 /\ v[n + 1] = f /\ \A i \in 1 .. n : v[i] = u[i]
  BY <1>1, AppendProperties
<1>3. Unclosed(v)
  BY FieldKeepsOpen
<1> HIDE DEF v, n
<1>4. w \in Seq(Token) /\ Len(w) = n + 2 /\ w[n + 2] = TA!Opening /\ \A i \in 1 .. n + 1 : w[i] = v[i]
  <2>1. w \in Seq(Token) /\ Len(w) = Len(v) + 1 /\ w[Len(v) + 1] = TA!Opening /\ \A i \in 1 .. Len(v) : w[i] = v[i]
    BY <1>1, <1>2, AppendProperties
  <2> HIDE DEF w
  <2>2. Len(v) + 1 = n + 2
    BY <1>1, <1>2
  <2> QED BY <1>2, <2>1, <2>2
<1> HIDE DEF w
<1>5. z \in Seq(Token) /\ Len(z) = n + 3 /\ z[n + 3] = TA!Closing /\ \A i \in 1 .. n + 2 : z[i] = w[i]
  <2>1. z \in Seq(Token) /\ Len(z) = Len(w) + 1 /\ z[Len(w) + 1] = TA!Closing /\ \A i \in 1 .. Len(w) : z[i] = w[i]
    BY <1>1, <1>4, AppendProperties
  <2> HIDE DEF z
  <2>2. Len(w) + 1 = n + 3
    BY <1>1, <1>4
  <2> QED BY <1>4, <2>1, <2>2
<1> HIDE DEF z
<1>6. /\ \A i \in 1 .. n + 1 : z[i] = v[i]
      /\ z[n + 1] = f /\ z[n + 2] = TA!Opening /\ z[n + 3] = TA!Closing
  BY <1>1, <1>2, <1>4, <1>5
<1>7. ASSUME NEW p \in 2 .. n + 1, z[p] = TA!Opening
      PROVE  p > 2 /\ z[p - 1] \in Field /\ p + 1 <= n + 1 /\ z[p + 1] = TA!Closing
  <2>1. v[p] = TA!Opening /\ p \in 2 .. Len(v)
    BY <1>1, <1>2, <1>6, <1>7
  <2>2. p > 2 /\ v[p - 1] \in Field /\ p + 1 <= n + 1 /\ v[p + 1] = TA!Closing
    BY <1>2, <1>3, <2>1 DEF Unclosed
  <2>3. p - 1 \in 1 .. n + 1 /\ p + 1 \in 1 .. n + 1
    BY <1>1, <2>2
  <2> QED BY <1>6, <2>2, <2>3
<1>8. ASSUME NEW p \in 2 .. n + 1, z[p] = TA!Closing PROVE p > 3 /\ z[p - 1] = TA!Opening
  <2>1. v[p] = TA!Closing /\ p \in 2 .. Len(v)
    BY <1>1, <1>2, <1>6, <1>8
  <2>2. p > 3 /\ v[p - 1] = TA!Opening
    BY <1>2, <1>3, <2>1 DEF Unclosed
  <2>3. p - 1 \in 1 .. n + 1
    BY <1>1, <2>2
  <2> QED BY <1>6, <2>2, <2>3
<1>9. ASSUME NEW p \in 2 .. Len(z), z[p] = TA!Opening
      PROVE  p > 2 /\ z[p - 1] \in Field /\ p + 1 <= Len(z) /\ z[p + 1] = TA!Closing
  <2>1. p \in 2 .. n + 1 \/ p = n + 2
    BY <1>1, <1>5, <1>6, <1>9
  <2>2. CASE p \in 2 .. n + 1
    BY <1>1, <1>5, <1>7, <1>9, <2>2
  <2>3. CASE p = n + 2
    BY <1>1, <1>5, <1>6, <2>3
  <2> QED BY <2>1, <2>2, <2>3
<1>10. ASSUME NEW p \in 2 .. Len(z), z[p] = TA!Closing PROVE p > 3 /\ z[p - 1] = TA!Opening
  <2>1. p \in 2 .. n + 1 \/ p = n + 3
    BY <1>1, <1>5, <1>6, <1>10
  <2>2. CASE p \in 2 .. n + 1
    BY <1>8, <1>10, <2>2
  <2>3. CASE p = n + 3
    BY <1>1, <1>5, <1>6, <2>3
  <2> QED BY <2>1, <2>2, <2>3
<1>11. z[1] = TA!Opening /\ Len(z) > 0
  BY <1>1, <1>2, <1>3, <1>5, <1>6 DEF Unclosed
<1>12. Unclosed(z)
  BY <1>5, <1>9, <1>10, <1>11 DEF Unclosed
<1> QED BY <1>12 DEF v, w, z

LEMMA FrontIsOpen == \A d \in Seq(Field) : Unclosed(Front(d)) /\ TA!Fields(Front(d)) = d
<1> DEFINE T == {d \in Seq(Field) : Unclosed(Front(d)) /\ TA!Fields(Front(d)) = d}
<1>1. <<>> \in T
  <2>1. <<>> \in Seq(Field) /\ \A f \in {} : f \in Field
    OBVIOUS
  <2>2. Front(<<>>) = <<TA!Opening>>
    <3>1. Body(<<>>) = <<>>
      <4>1. [i \in DOMAIN <<>> |-> Part(<<>>[i])] = <<>>
        OBVIOUS
      <4> QED BY <4>1 DEF Body, TA!FlattenSeq
    <3>2. <<TA!Opening>> \in Seq(Token)
      BY TokensDiffer
    <3> QED BY <3>1, <3>2, ConcatEmptySeq DEF Front
  <2>3. Unclosed(<<TA!Opening>>)
    BY TokensDiffer DEF Unclosed
  <2>4. TA!Fields(<<TA!Opening>>) = <<>>
    <3>1. <<>> \in Seq(Token) /\ TA!Opening \in Token /\ TA!Opening \notin Field
      BY TokensDiffer
    <3>2. TA!Fields(Append(<<>>, TA!Opening)) = TA!Fields(<<>>) /\ TA!Fields(<<>>) = <<>>
      BY <3>1, FieldsGrow
    <3>3. Append(<<>>, TA!Opening) = <<TA!Opening>>
      OBVIOUS
    <3> QED BY <3>2, <3>3, Zenon
  <2> QED BY <2>1, <2>2, <2>3, <2>4
<1>2. ASSUME NEW d \in T, NEW f \in Field PROVE Append(d, f) \in T
  <2> DEFINE u == Front(d)
             v == Append(u, f)
             w == Append(v, TA!Opening)
             z == Append(w, TA!Closing)
  <2>1. d \in Seq(Field) /\ Unclosed(u) /\ TA!Fields(u) = d
    OBVIOUS
  <2>2. Append(d, f) \in Seq(Field)
    BY <2>1, AppendProperties
  <2>3. u \in Seq(Token) /\ f \in Token /\ TA!Opening \in Token \ Field /\ TA!Closing \in Token \ Field
    BY <2>1, TokensDiffer DEF Unclosed
  <2>4. /\ ~TA!Nested(f) => Front(Append(d, f)) = v
        /\ TA!Nested(f) => Front(Append(d, f)) = z
    BY <2>1, FrontGrows
  <2> HIDE DEF u
  <2>5. TA!Fields(v) = Append(TA!Fields(u), f) /\ v \in Seq(Token)
    BY <2>3, FieldsGrow, AppendProperties
  <2>6. Unclosed(v) /\ Unclosed(z)
    BY <2>1, FieldKeepsOpen, ListKeepsOpen
  <2> HIDE DEF v
  <2>7. TA!Fields(w) = TA!Fields(v) /\ w \in Seq(Token)
    BY <2>3, <2>5, FieldsGrow, AppendProperties
  <2> HIDE DEF w
  <2>8. TA!Fields(z) = TA!Fields(w)
    BY <2>3, <2>7, FieldsGrow
  <2> HIDE DEF z
  <2>9. TA!Fields(v) = Append(d, f) /\ TA!Fields(z) = Append(d, f)
    BY <2>1, <2>5, <2>7, <2>8, Zenon
  <2> QED BY <2>2, <2>4, <2>6, <2>9, Zenon
<1>3. T \in SUBSET Seq(Field)
  OBVIOUS
<1> HIDE DEF T
<1>4. T = Seq(Field)
  BY <1>1, <1>2, <1>3, ListInduction
<1> QED BY <1>4 DEF T

LEMMA TextIs ==
  ASSUME NEW d \in Seq(Field)
  PROVE  /\ TA!Text(d) \in Seq(Token) /\ Shaped(TA!Text(d))
         /\ TA!Fields(TA!Text(d)) = d /\ TA!Whole(TA!Text(d))
<1> DEFINE u == Front(d)
           t == Append(u, TA!Closing)
<1>1. Unclosed(u) /\ TA!Fields(u) = d
  BY FrontIsOpen
<1>2. u \in Seq(Token) /\ TA!Closing \in Token /\ TA!Closing \notin Field
  BY <1>1, TokensDiffer DEF Unclosed
<1>3. TA!Text(d) = u \o <<TA!Closing>>
  BY Zenon DEF TA!Text, Front, Body, Part
<1> HIDE DEF u
<1>4. u \o <<TA!Closing>> = t
  BY <1>2, AppendIsConcat
<1>5. TA!Text(d) = t
  BY <1>3, <1>4, Zenon
<1>6. t \in Seq(Token) /\ TA!Fields(t) = TA!Fields(u)
  BY <1>2, AppendProperties, FieldsGrow
<1>7. Shaped(t)
  BY <1>1 DEF Shaped
<1> HIDE DEF t
<1> QED BY <1>1, <1>5, <1>6, <1>7, Zenon DEF TA!Whole

\* Where the brackets of a text stand.
LEMMA ShapeIs ==
  ASSUME NEW t, Shaped(t)
  PROVE  /\ t \in Seq(Token) /\ Len(t) \in Nat /\ Len(t) >= 2 /\ t[1] = TA!Opening /\ t[Len(t)] = TA!Closing
         /\ \A p \in 2 .. Len(t) : t[p] = TA!Opening =>
              p > 2 /\ t[p - 1] \in Field /\ p + 1 < Len(t) /\ t[p + 1] = TA!Closing
         /\ \A p \in 2 .. Len(t) - 1 : t[p] = TA!Closing => p > 3 /\ t[p - 1] = TA!Opening
<1>1. PICK u : Unclosed(u) /\ t = Append(u, TA!Closing)
  BY DEF Shaped
<1>2. u \in Seq(Token) /\ Len(u) \in Nat /\ Len(u) > 0 /\ u[1] = TA!Opening /\ TA!Closing \in Token /\ TA!Closing # TA!Opening
  BY <1>1, TokensDiffer DEF Unclosed
<1>3. t \in Seq(Token) /\ Len(t) = Len(u) + 1 /\ t[Len(u) + 1] = TA!Closing /\ \A i \in 1 .. Len(u) : t[i] = u[i]
  BY <1>1, <1>2, AppendProperties
<1>4. ASSUME NEW p \in 2 .. Len(t), t[p] = TA!Opening
      PROVE  p > 2 /\ t[p - 1] \in Field /\ p + 1 < Len(t) /\ t[p + 1] = TA!Closing
  <2>1. p \in 2 .. Len(u) /\ u[p] = TA!Opening
    BY <1>2, <1>3, <1>4
  <2>2. p > 2 /\ u[p - 1] \in Field /\ p + 1 <= Len(u) /\ u[p + 1] = TA!Closing
    BY <1>1, <2>1 DEF Unclosed
  <2>3. p - 1 \in 1 .. Len(u) /\ p + 1 \in 1 .. Len(u)
    BY <1>2, <2>1, <2>2
  <2> QED BY <1>2, <1>3, <2>2, <2>3
<1>5. ASSUME NEW p \in 2 .. Len(t) - 1, t[p] = TA!Closing PROVE p > 3 /\ t[p - 1] = TA!Opening
  <2>1. p \in 2 .. Len(u) /\ u[p] = TA!Closing
    BY <1>2, <1>3, <1>5
  <2>2. p > 3 /\ u[p - 1] = TA!Opening
    BY <1>1, <2>1 DEF Unclosed
  <2>3. p - 1 \in 1 .. Len(u)
    BY <1>2, <2>1, <2>2
  <2> QED BY <1>3, <2>2, <2>3
<1>6. Len(t) \in Nat /\ Len(t) >= 2 /\ t[1] = TA!Opening /\ t[Len(t)] = TA!Closing
  BY <1>2, <1>3
<1> QED BY <1>3, <1>4, <1>5, <1>6

\* No text begins another one.
LEMMA TextsAreClosed ==
  ASSUME NEW s, Shaped(s), NEW t, Shaped(t), Len(s) <= Len(t), \A i \in 1 .. Len(s) : s[i] = t[i]
  PROVE  s = t
<1> DEFINE n == Len(s)
<1>1. s \in Seq(Token) /\ n \in Nat /\ n >= 2 /\ s[n] = TA!Closing
      /\ \A p \in 2 .. n : s[p] = TA!Opening => p > 2 /\ p + 1 < n
  BY ShapeIs
<1>2. t \in Seq(Token) /\ Len(t) \in Nat
      /\ \A p \in 2 .. Len(t) - 1 : t[p] = TA!Closing => p > 3 /\ t[p - 1] = TA!Opening
  BY ShapeIs
<1> HIDE DEF n
<1>3. ASSUME n < Len(t) PROVE FALSE
  <2>1. n \in 2 .. Len(t) - 1 /\ t[n] = TA!Closing
    BY <1>1, <1>2, <1>3 DEF n
  <2>2. n > 3 /\ t[n - 1] = TA!Opening
    BY <1>2, <2>1
  <2>3. n - 1 \in 2 .. n /\ s[n - 1] = TA!Opening
    BY <1>1, <2>2 DEF n
  <2>4. (n - 1) + 1 < n
    BY <1>1, <2>3
  <2> QED BY <1>1, <2>4
<1>4. Len(s) = Len(t)
  BY <1>1, <1>2, <1>3 DEF n
<1> QED BY <1>1, <1>2, <1>4, SeqEqual

\* What is defined for a place in terms of later places is defined.
Descent(V, m, E, Y, J, f) ==
  /\ f \in [1 .. m -> Seq(V)]
  /\ \A i \in 1 .. m : (i \in E => f[i] = Y[i] \o f[J[i]]) /\ (i \notin E => f[i] = <<>>)

LEMMA Descends ==
  ASSUME NEW V, NEW m \in Nat, NEW E \in SUBSET (1 .. m), NEW Y \in [1 .. m -> Seq(V)],
         NEW J, \A i \in E : J[i] \in i + 1 .. m
  PROVE  \E f : Descent(V, m, E, Y, J, f)
<1> DEFINE Good(n, f) == \A i \in 1 .. m : m < i + n =>
                           (i \in E => f[i] = Y[i] \o f[J[i]]) /\ (i \notin E => f[i] = <<>>)
           T == {n \in Nat : \E f \in [1 .. m -> Seq(V)] : Good(n, f)}
<1>1. 0 \in T
  <2> DEFINE f == [i \in 1 .. m |-> <<>>]
  <2>1. f \in [1 .. m -> Seq(V)]
    <3>1. <<>> \in Seq(V)
      OBVIOUS
    <3> QED BY <3>1
  <2> HIDE DEF f
  <2>2. Good(0, f)
    OBVIOUS
  <2> QED BY <2>1, <2>2
<1>2. ASSUME NEW n \in T PROVE n + 1 \in T
  <2>1. PICK f \in [1 .. m -> Seq(V)] : Good(n, f)
    OBVIOUS
  <2> DEFINE g == [i \in 1 .. m |-> IF i \in E THEN Y[i] \o f[J[i]] ELSE <<>>]
  <2>2. \A i \in E : i \in 1 .. m /\ J[i] \in 1 .. m /\ J[i] > i
    OBVIOUS
  <2>3. g \in [1 .. m -> Seq(V)]
    <3>1. \A i \in E : Y[i] \in Seq(V) /\ f[J[i]] \in Seq(V)
      BY <2>2
    <3>2. \A i \in E : Y[i] \o f[J[i]] \in Seq(V)
      BY <3>1
    <3>3. <<>> \in Seq(V)
      OBVIOUS
    <3> QED BY <3>2, <3>3
  <2>4. \A i \in 1 .. m : (i \in E => g[i] = Y[i] \o f[J[i]]) /\ (i \notin E => g[i] = <<>>)
    OBVIOUS
  <2> HIDE DEF g
  <2>5. \A i \in 1 .. m : m < i + n => g[i] = f[i]
    BY <2>1, <2>4, Zenon
  <2>6. Good(n + 1, g)
    <3> SUFFICES ASSUME NEW i \in 1 .. m, m < i + (n + 1), i \in E PROVE g[i] = Y[i] \o g[J[i]]
      BY <2>4
    <3>1. n \in Nat /\ J[i] \in 1 .. m /\ m < J[i] + n
      BY <2>2
    <3>2. g[J[i]] = f[J[i]]
      BY <2>5, <3>1, Zenon
    <3> QED BY <2>4, <3>2, Zenon
  <2>7. n + 1 \in Nat
    OBVIOUS
  <2> HIDE DEF Good
  <2> QED BY <2>3, <2>6, <2>7
<1>3. T \in SUBSET Nat
  OBVIOUS
<1> HIDE DEF T
<1>4. T = Nat
  BY <1>1, <1>2, <1>3, SetInduction
<1>5. PICK f \in [1 .. m -> Seq(V)] : Good(m, f)
  BY <1>4 DEF T
<1>6. \A i \in 1 .. m : m < i + m
  OBVIOUS
<1> QED BY <1>5, <1>6 DEF Descent

Ends(s, i) == {j \in i .. Len(s) : TA!Whole(SubSeq(s, i, j))}
Reads(s, f) ==
  /\ f \in [1 .. Len(s) + 1 -> Seq(Seq(Field))]
  /\ \A i \in 1 .. Len(s) + 1 :
       /\ Ends(s, i) = {} => f[i] = <<>>
       /\ Ends(s, i) # {} => \E j \in Ends(s, i) : f[i] = <<TA!Fields(SubSeq(s, i, j))>> \o f[j + 1]

LEMMA LeadingReads ==
  ASSUME NEW s \in Seq(Token)
  PROVE  \E f : Reads(s, f) /\ TA!Leading(s) = f[1]
<1> DEFINE m == Len(s) + 1
           end(i) == CHOOSE j \in Ends(s, i) : TRUE
           E == {i \in 1 .. m : Ends(s, i) # {}}
           Y == [i \in 1 .. m |-> IF i \in E THEN <<TA!Fields(SubSeq(s, i, end(i)))>> ELSE <<>>]
           J == [i \in 1 .. m |-> end(i) + 1]
           Runs(g) == g = [i \in 1 .. m |-> IF Ends(s, i) = {} THEN <<>>
                                            ELSE <<TA!Fields(SubSeq(s, i, end(i)))>> \o g[end(i) + 1]]
           from == CHOOSE g : Runs(g)
<1>1. m \in Nat /\ Len(s) \in Nat /\ 1 \in 1 .. m
  OBVIOUS
<1>2. TA!Leading(s) = from[1]
  BY Zenon DEF TA!Leading, Ends
<1>3. \A i \in E : i \in 1 .. m /\ end(i) \in Ends(s, i) /\ end(i) \in i .. Len(s)
  BY DEF Ends
<1>4. Y \in [1 .. m -> Seq(Seq(Field))]
  <2>1. <<>> \in Seq(Seq(Field))
    OBVIOUS
  <2>2. ASSUME NEW i \in E PROVE <<TA!Fields(SubSeq(s, i, end(i)))>> \in Seq(Seq(Field))
    <3> DEFINE r == SubSeq(s, i, end(i))
    <3>1. end(i) \in i .. Len(s) /\ i \in 1 .. m
      BY <1>3
    <3>2. r \in Seq(Token)
      <4>1. i \in 1 .. Len(s) + 1 /\ end(i) \in i - 1 .. Len(s)
        BY <1>1, <3>1
      <4> HIDE DEF end
      <4> QED BY <4>1, SubSeqProperties
    <3> HIDE DEF r
    <3>3. TA!Fields(r) \in Seq(Field)
      BY <3>2, TokensDiffer, FieldsGrow
    <3> QED BY <3>3 DEF r
  <2> HIDE DEF E, end, m
  <2> QED BY <2>1, <2>2
<1>5. \A i \in E : J[i] = end(i) + 1 /\ J[i] \in i + 1 .. m
  BY <1>1, <1>3
<1>6. \A i \in E : Y[i] = <<TA!Fields(SubSeq(s, i, end(i)))>>
  BY <1>3
<1>7. E \in SUBSET (1 .. m) /\ \A i \in 1 .. m : i \in E <=> Ends(s, i) # {}
  OBVIOUS
<1> HIDE DEF Y, J, E, end, m
<1> DEFINE W == Seq(Field)
<1>8. PICK f : Descent(W, m, E, Y, J, f)
  <2>1. Y \in [1 .. m -> Seq(W)] /\ E \in SUBSET (1 .. m) /\ \A i \in E : J[i] \in i + 1 .. m
    BY <1>4, <1>5, <1>7
  <2> HIDE DEF W
  <2> QED BY <1>1, <2>1, Descends
<1>9. \A i \in 1 .. m : /\ i \in E => f[i] = <<TA!Fields(SubSeq(s, i, end(i)))>> \o f[end(i) + 1]
                        /\ i \notin E => f[i] = <<>>
  BY <1>5, <1>6, <1>8, Zenon DEF Descent
<1>10. Runs(f)
  <2> DEFINE r(i) == <<TA!Fields(SubSeq(s, i, end(i)))>> \o f[end(i) + 1]
  <2>1. \A i \in 1 .. m : f[i] = IF Ends(s, i) = {} THEN <<>> ELSE r(i)
    BY <1>7, <1>9, Zenon
  <2> HIDE DEF r
  <2>2. f = [i \in 1 .. m |-> IF Ends(s, i) = {} THEN <<>> ELSE r(i)]
    BY <1>8, <2>1 DEF Descent
  <2> QED BY <2>2, Zenon DEF r
<1>11. Runs(from)
  BY <1>10, Zenon
<1> HIDE DEF from
<1>12. from = [i \in 1 .. m |-> from[i]]
       /\ \A i \in 1 .. m : /\ i \notin E => from[i] = <<>>
                            /\ i \in E => from[i] = <<TA!Fields(SubSeq(s, i, end(i)))>> \o from[end(i) + 1]
  BY <1>7, <1>11
<1> DEFINE T == {n \in Nat : \A i \in 1 .. m : m < i + n => from[i] = f[i]}
<1>13. 0 \in T
  BY <1>1
<1>14. ASSUME NEW n \in T PROVE n + 1 \in T
  <2>1. n \in Nat /\ \A i \in 1 .. m : m < i + n => from[i] = f[i]
    OBVIOUS
  <2>2. ASSUME NEW i \in 1 .. m, m < i + (n + 1) PROVE from[i] = f[i]
    <3>1. CASE i \in E
      <4>1. end(i) + 1 \in 1 .. m /\ m < (end(i) + 1) + n
        <5>1. end(i) + 1 \in i + 1 .. m
          BY <1>5, <3>1, Zenon
        <5> QED BY <1>1, <2>1, <2>2, <5>1
      <4>2. from[end(i) + 1] = f[end(i) + 1]
        BY <2>1, <4>1, Zenon
      <4> QED BY <1>9, <1>12, <3>1, <4>2, Zenon
    <3>2. CASE i \notin E
      BY <1>9, <1>12, <3>2, Zenon
    <3> QED BY <3>1, <3>2
  <2>3. n + 1 \in Nat
    BY <2>1
  <2> QED BY <2>2, <2>3
<1>15. T \in SUBSET Nat
  OBVIOUS
<1> HIDE DEF T
<1>16. T = Nat
  BY <1>13, <1>14, <1>15, SetInduction
<1>17. from[1] = f[1]
  <2>1. m \in T /\ m < 1 + m
    BY <1>1, <1>16
  <2> QED BY <1>1, <2>1 DEF T
<1>18. ASSUME NEW i \in 1 .. m
       PROVE  /\ Ends(s, i) = {} => f[i] = <<>>
              /\ Ends(s, i) # {} => \E j \in Ends(s, i) : f[i] = <<TA!Fields(SubSeq(s, i, j))>> \o f[j + 1]
  BY <1>3, <1>7, <1>9, Zenon
<1>19. Reads(s, f)
  BY <1>8, <1>18 DEF Reads, Descent, W, m
<1> QED BY <1>2, <1>17, <1>19

LEMMA SubsAre ==
  ASSUME NEW V, NEW s \in Seq(V), NEW i \in 1 .. Len(s) + 1, NEW j \in i - 1 .. Len(s)
  PROVE  /\ SubSeq(s, i, j) \in Seq(V) /\ Len(SubSeq(s, i, j)) = j - i + 1
         /\ \A k \in 1 .. j - i + 1 : SubSeq(s, i, j)[k] = s[i + k - 1]
<1>1. i \in Int /\ j \in Int /\ \A k \in i .. j : s[k] \in V
  OBVIOUS
<1>2. IF i <= j THEN j - i + 1 = j - i + 1 ELSE 0 = j - i + 1
  BY <1>1
<1> QED BY <1>1, <1>2, SubSeqProperties

LEMMA WholeIsShaped ==
  ASSUME NEW s \in Seq(Token), TA!Whole(s)
  PROVE  Shaped(s) /\ TA!Fields(s) \in Seq(Field) /\ s = TA!Text(TA!Fields(s))
<1>1. TA!Fields(s) \in Seq(Field)
  BY TokensDiffer, FieldsGrow
<1>2. Shaped(TA!Text(TA!Fields(s)))
  BY <1>1, TextIs
<1>3. s = TA!Text(TA!Fields(s))
  BY Zenon DEF TA!Whole
<1> QED BY <1>1, <1>2, <1>3, Zenon

\* An object within a text: where it begins and ends.
LEMMA EndsAre ==
  ASSUME NEW s \in Seq(Token), NEW i \in 1 .. Len(s) + 1, NEW j \in Ends(s, i)
  PROVE  /\ j \in i + 1 .. Len(s) /\ s[i] = TA!Opening /\ s[j] = TA!Closing
         /\ Shaped(SubSeq(s, i, j))
         /\ \A p \in i + 1 .. j - 1 : s[p] = TA!Closing => p > i + 2
<1> DEFINE r == SubSeq(s, i, j)
<1>1. j \in i .. Len(s) /\ TA!Whole(r) /\ i \in Nat /\ j \in Nat /\ i > 0
  BY DEF Ends
<1>2. r \in Seq(Token) /\ Len(r) = j - i + 1 /\ \A k \in 1 .. j - i + 1 : r[k] = s[i + k - 1]
  BY <1>1, SubsAre
<1> HIDE DEF r
<1>3. Shaped(r)
  BY <1>1, <1>2, WholeIsShaped
<1>4. /\ Len(r) >= 2 /\ r[1] = TA!Opening /\ r[Len(r)] = TA!Closing
      /\ \A p \in 2 .. Len(r) - 1 : r[p] = TA!Closing => p > 3
  BY <1>3, ShapeIs
<1>5. j \in i + 1 .. Len(s)
  BY <1>1, <1>2, <1>4
<1>6. r[1] = s[i] /\ r[Len(r)] = s[j]
  <2>1. 1 \in 1 .. j - i + 1 /\ i + 1 - 1 = i /\ Len(r) \in 1 .. j - i + 1 /\ i + Len(r) - 1 = j
    BY <1>1, <1>2, <1>5
  <2> QED BY <1>2, <2>1
<1>7. ASSUME NEW p \in i + 1 .. j - 1, s[p] = TA!Closing PROVE p > i + 2
  <2> DEFINE k == p - i + 1
  <2>1. k \in 1 .. j - i + 1 /\ i + k - 1 = p /\ k \in 2 .. Len(r) - 1 /\ p = k + i - 1
    BY <1>1, <1>2
  <2> HIDE DEF k
  <2>2. r[k] = TA!Closing
    BY <1>2, <1>7, <2>1
  <2>3. k > 3
    BY <1>4, <2>1, <2>2
  <2> QED BY <1>1, <2>1, <2>3
<1> QED BY <1>3, <1>4, <1>5, <1>6, <1>7 DEF r

LEMMA OneObjectStays ==
  ASSUME NEW s \in Seq(Token), \A f : Reads(s, f) => Len(f[1]) < 2
  PROVE  TA!Sanitize(s) = s
<1>1. Len(TA!Leading(s)) < 2
  BY LeadingReads, Zenon
<1> QED BY <1>1, Zenon DEF TA!Sanitize

LEMMA BrokenStays ==
  ASSUME NEW s \in Seq(Token), Ends(s, 1) = {}
  PROVE  ~TA!Whole(s) /\ TA!Sanitize(s) = s /\ TA!Tidy(s) = s /\ TA!Normal(s) = s
<1>1. ASSUME TA!Whole(s) PROVE FALSE
  <2>1. Len(s) \in 1 .. Len(s)
    <3>1. Shaped(s)
      BY <1>1, WholeIsShaped
    <3>2. Len(s) \in Nat /\ Len(s) >= 2
      BY <3>1, ShapeIs
    <3> QED BY <3>2
  <2>2. SubSeq(s, 1, Len(s)) = s
    BY SubSeqFull
  <2>3. Len(s) \in Ends(s, 1)
    BY <1>1, <2>1, <2>2, Zenon DEF Ends
  <2> QED BY <2>3
<1>2. ASSUME NEW f, Reads(s, f) PROVE Len(f[1]) < 2
  <2>1. 1 \in 1 .. Len(s) + 1
    OBVIOUS
  <2>2. f[1] = <<>>
    BY <1>2, <2>1, Zenon DEF Reads
  <2> QED BY <2>2
<1>3. TA!Sanitize(s) = s
  BY <1>2, OneObjectStays
<1>4. TA!Tidy(s) = s
  BY <1>1 DEF TA!Tidy
<1> QED BY <1>1, <1>3, <1>4, Zenon DEF TA!Normal

\* One object is not changed but for its keys.
LEMMA TextStays ==
  ASSUME NEW d \in Seq(Field)
  PROVE  LET t == TA!Text(d)
         IN  TA!Sanitize(t) = t /\ TA!Tidy(t) = TA!Text(TA!NormalKeys(d)) /\ TA!Normal(t) = TA!Text(TA!NormalKeys(d))
<1> DEFINE t == TA!Text(d)
<1>1. t \in Seq(Token) /\ Shaped(t) /\ TA!Fields(t) = d /\ TA!Whole(t)
  BY TextIs
<1> HIDE DEF t
<1>2. Len(t) \in Nat /\ Len(t) >= 2
  BY <1>1, ShapeIs
<1>3. ASSUME NEW j \in Ends(t, 1) PROVE j = Len(t)
  <2> DEFINE r == SubSeq(t, 1, j)
  <2>1. Shaped(r) /\ j \in 2 .. Len(t)
    BY <1>1, <1>2, EndsAre
  <2>2. Len(r) = j /\ \A k \in 1 .. j : r[k] = t[k]
    <3>1. /\ Len(r) = j - 1 + 1
          /\ \A k \in 1 .. j - 1 + 1 : r[k] = t[1 + k - 1]
      BY <1>1, <1>2, <2>1, SubsAre
    <3> HIDE DEF r
    <3>2. j - 1 + 1 = j /\ \A k \in 1 .. j : 1 + k - 1 = k
      BY <2>1
    <3> QED BY <3>1, <3>2
  <2> HIDE DEF r
  <2>3. r = t
    BY <1>1, <1>2, <2>1, <2>2, TextsAreClosed
  <2> QED BY <2>2, <2>3
<1>4. Ends(t, Len(t) + 1) = {}
  BY <1>2 DEF Ends
<1>5. ASSUME NEW f, Reads(t, f) PROVE Len(f[1]) < 2
  <2>1. 1 \in 1 .. Len(t) + 1 /\ Len(t) + 1 \in 1 .. Len(t) + 1
    BY <1>2
  <2>2. f[Len(t) + 1] = <<>>
    BY <1>4, <1>5, <2>1, Zenon DEF Reads
  <2>3. CASE Ends(t, 1) = {}
    <3>1. f[1] = <<>>
      BY <1>5, <2>1, <2>3, Zenon DEF Reads
    <3> QED BY <3>1
  <2>4. CASE Ends(t, 1) # {}
    <3>1. PICK j \in Ends(t, 1) : f[1] = <<TA!Fields(SubSeq(t, 1, j))>> \o f[j + 1]
      BY <1>5, <2>1, <2>4, Zenon DEF Reads
    <3> DEFINE one == <<TA!Fields(SubSeq(t, 1, j))>>
    <3>2. f[1] = one \o <<>>
      BY <1>3, <2>2, <3>1
    <3>3. Len(one \o <<>>) = 1
      OBVIOUS
    <3> QED BY <3>2, <3>3
  <2> QED BY <2>3, <2>4
<1>6. TA!Sanitize(t) = t
  BY <1>1, <1>5, OneObjectStays
<1>7. TA!Tidy(t) = TA!Text(TA!NormalKeys(d))
  BY <1>1, Zenon DEF TA!Tidy
<1> QED BY <1>6, <1>7, Zenon DEF TA!Normal, t

\* What is left of a text when it breaks off.
LEMMA BeginningIsBroken ==
  ASSUME NEW t, Shaped(t), NEW n \in 0 .. Len(t) - 1
  PROVE  SubSeq(t, 1, n) \in Seq(Token) /\ Len(SubSeq(t, 1, n)) = n /\ Ends(SubSeq(t, 1, n), 1) = {}
<1> DEFINE b == SubSeq(t, 1, n)
<1>1. t \in Seq(Token) /\ Len(t) \in Nat /\ n \in Nat /\ n < Len(t)
  BY ShapeIs
<1>2. b \in Seq(Token) /\ Len(b) = n /\ \A k \in 1 .. n : b[k] = t[k]
  <2>1. 1 \in 1 .. Len(t) + 1 /\ n \in 1 - 1 .. Len(t)
    BY <1>1
  <2>2. b \in Seq(Token) /\ Len(b) = n - 1 + 1 /\ \A k \in 1 .. n - 1 + 1 : b[k] = t[1 + k - 1]
    BY <1>1, <2>1, SubsAre
  <2> HIDE DEF b
  <2>3. n - 1 + 1 = n /\ \A k \in 1 .. n : 1 + k - 1 = k
    BY <1>1
  <2> QED BY <2>2, <2>3
<1> HIDE DEF b
<1>3. ASSUME NEW j \in Ends(b, 1) PROVE FALSE
  <2> DEFINE r == SubSeq(b, 1, j)
  <2>1. Shaped(r) /\ j \in 2 .. n
    BY <1>1, <1>2, EndsAre
  <2>2. Len(r) = j /\ \A k \in 1 .. j : r[k] = t[k]
    <3>1. /\ Len(r) = j - 1 + 1
          /\ \A k \in 1 .. j - 1 + 1 : r[k] = b[1 + k - 1]
      BY <1>1, <1>2, <2>1, SubsAre
    <3> HIDE DEF r
    <3>2. j - 1 + 1 = j /\ \A k \in 1 .. j : 1 + k - 1 = k /\ k \in 1 .. n
      BY <1>1, <2>1
    <3> QED BY <1>2, <3>1, <3>2
  <2> HIDE DEF r
  <2>3. r = t
    BY <1>1, <2>1, <2>2, TextsAreClosed
  <2> QED BY <1>1, <2>1, <2>2, <2>3
<1> QED BY <1>2, <1>3 DEF b

\* What follows in a text: a bracket that is opened is closed at once.
Follows(c) ==
  /\ c \in Seq(Token)
  /\ \A p \in 1 .. Len(c) : c[p] = TA!Opening =>
       (p + 1 <= Len(c) => c[p + 1] = TA!Closing) /\ (p + 2 <= Len(c) => c[p + 2] # TA!Opening)

LEMMA ChunkStays ==
  ASSUME NEW c, Follows(c), ~TA!Whole(c)
  PROVE  TA!Sanitize(c) = c /\ TA!Tidy(c) = c
<1>1. c \in Seq(Token) /\ Len(c) \in Nat
  BY DEF Follows
<1>2. ASSUME NEW j \in Ends(c, 1) PROVE j = 2 /\ 2 <= Len(c) /\ c[1] = TA!Opening
  <2>1. 1 \in 1 .. Len(c) + 1
    BY <1>1
  <2>2. /\ j \in 1 + 1 .. Len(c) /\ c[1] = TA!Opening
        /\ \A p \in 1 + 1 .. j - 1 : c[p] = TA!Closing => p > 1 + 2
    BY <1>1, <2>1, EndsAre
  <2>3. c[2] = TA!Closing
    BY <1>1, <2>2 DEF Follows
  <2>4. j = 2
    BY <1>1, <2>2, <2>3
  <2> QED BY <1>1, <2>2, <2>4
<1>3. ASSUME NEW f, Reads(c, f) PROVE Len(f[1]) < 2
  <2>1. 1 \in 1 .. Len(c) + 1
    BY <1>1
  <2>2. CASE Ends(c, 1) = {}
    <3>1. f[1] = <<>>
      BY <1>3, <2>1, <2>2, Zenon DEF Reads
    <3> QED BY <3>1
  <2>3. CASE Ends(c, 1) # {}
    <3>1. PICK j \in Ends(c, 1) : f[1] = <<TA!Fields(SubSeq(c, 1, j))>> \o f[j + 1]
      BY <1>3, <2>1, <2>3, Zenon DEF Reads
    <3>2. j = 2 /\ 2 <= Len(c) /\ c[1] = TA!Opening
      BY <1>2
    <3>3. 3 \in 1 .. Len(c) + 1 /\ j + 1 = 3
      BY <1>1, <3>2
    <3>4. ASSUME NEW k \in Ends(c, 3) PROVE FALSE
      <4>1. k \in 3 + 1 .. Len(c) /\ c[3] = TA!Opening
        BY <1>1, <3>3, EndsAre
      <4>2. 1 \in 1 .. Len(c) /\ 1 + 2 <= Len(c) /\ 1 + 2 = 3
        BY <1>1, <4>1
      <4> QED BY <3>2, <4>1, <4>2 DEF Follows
    <3>5. f[3] = <<>>
      BY <1>3, <3>3, <3>4, Zenon DEF Reads
    <3> DEFINE one == <<TA!Fields(SubSeq(c, 1, j))>>
    <3>6. f[1] = one \o <<>>
      BY <3>1, <3>3, <3>5
    <3>7. Len(one \o <<>>) = 1
      OBVIOUS
    <3> QED BY <3>6, <3>7
  <2> QED BY <2>2, <2>3
<1>4. TA!Sanitize(c) = c
  BY <1>1, <1>3, OneObjectStays
<1> QED BY <1>4, Zenon DEF TA!Tidy

\* A piece of a text that is not its beginning, and does not look like it.
LEMMA PieceFollows ==
  ASSUME NEW t, Shaped(t), NEW a \in 1 .. Len(t), NEW b \in a .. Len(t)
  PROVE  LET c == SubSeq(t, a + 1, b)
         IN  Follows(c) /\ Len(c) = b - a /\ \A k \in 1 .. b - a : c[k] = t[a + k]
<1> DEFINE c == SubSeq(t, a + 1, b)
<1>1. t \in Seq(Token) /\ Len(t) \in Nat /\ a \in Nat /\ b \in Nat /\ a <= b /\ b <= Len(t) /\ a > 0
  BY ShapeIs
<1>2. c \in Seq(Token) /\ Len(c) = b - a /\ \A k \in 1 .. b - a : c[k] = t[a + k]
  <2>1. a + 1 \in 1 .. Len(t) + 1 /\ b \in (a + 1) - 1 .. Len(t)
    BY <1>1
  <2>2. /\ c \in Seq(Token) /\ Len(c) = b - (a + 1) + 1
        /\ \A k \in 1 .. b - (a + 1) + 1 : c[k] = t[(a + 1) + k - 1]
    BY <1>1, <2>1, SubsAre
  <2> HIDE DEF c
  <2>3. b - (a + 1) + 1 = b - a /\ \A k \in 1 .. b - a : (a + 1) + k - 1 = a + k
    BY <1>1
  <2> QED BY <2>2, <2>3
<1> HIDE DEF c
<1>3. /\ TA!Opening # TA!Closing /\ TA!Closing \notin Field
      /\ \A p \in 2 .. Len(t) : t[p] = TA!Opening => t[p - 1] \in Field /\ t[p + 1] = TA!Closing
  BY ShapeIs, TokensDiffer
<1>4. ASSUME NEW p \in 1 .. Len(c), c[p] = TA!Opening
      PROVE  (p + 1 <= Len(c) => c[p + 1] = TA!Closing) /\ (p + 2 <= Len(c) => c[p + 2] # TA!Opening)
  <2>1. a + p \in 2 .. Len(t) /\ t[a + p] = TA!Opening
    BY <1>1, <1>2, <1>4
  <2>2. t[a + p + 1] = TA!Closing
    BY <1>3, <2>1
  <2>3. ASSUME p + 1 <= Len(c) PROVE c[p + 1] = TA!Closing
    <3>1. p + 1 \in 1 .. b - a /\ a + (p + 1) = a + p + 1
      BY <1>1, <1>2, <2>3
    <3> QED BY <1>2, <2>2, <3>1
  <2>4. ASSUME p + 2 <= Len(c), c[p + 2] = TA!Opening PROVE FALSE
    <3>1. p + 2 \in 1 .. b - a /\ a + (p + 2) \in 2 .. Len(t) /\ a + (p + 2) - 1 = a + p + 1
      BY <1>1, <1>2, <2>4
    <3>2. t[a + (p + 2)] = TA!Opening
      BY <1>2, <2>4, <3>1
    <3>3. t[a + p + 1] \in Field
      BY <1>3, <3>1, <3>2
    <3> QED BY <1>3, <2>2, <3>3
  <2> QED BY <2>3, <2>4
<1> QED BY <1>2, <1>4 DEF Follows, c

\* A text after one that broke off does not mend it.
LEMMA BrokenGrows ==
  ASSUME NEW b \in Seq(Token), b # <<>>, Ends(b, 1) = {}, NEW t, Shaped(t)
  PROVE  b \o t \in Seq(Token) /\ b \o t # <<>> /\ Ends(b \o t, 1) = {}
<1> DEFINE s == b \o t
           m == Len(b)
<1>1. m \in Nat /\ m > 0
  BY EmptySeq
<1>2. /\ t \in Seq(Token) /\ Len(t) \in Nat /\ Len(t) >= 2 /\ t[1] = TA!Opening /\ TA!Opening # TA!Closing
      /\ \A p \in 2 .. Len(t) - 1 : t[p] = TA!Closing => p > 3
  BY ShapeIs, TokensDiffer
<1>3. s \in Seq(Token)
  BY <1>2, ConcatsAre
<1>4. Len(s) = m + Len(t)
  BY <1>2, ConcatsAre
<1>5. \A i \in 1 .. m : s[i] = b[i]
  BY <1>2, ConcatsAre
<1>6. \A i \in 1 .. Len(t) : s[m + i] = t[i]
  BY <1>2, ConcatsAre
<1>7. s # <<>>
  BY <1>1, <1>2, <1>4
<1> HIDE DEF s
<1>8. ASSUME NEW j \in Ends(s, 1) PROVE FALSE
  <2> DEFINE r == SubSeq(s, 1, j)
  <2>1. Shaped(r) /\ TA!Whole(r) /\ j \in 2 .. Len(s) /\ j \in Nat
    <3>1. 1 \in 1 .. Len(s) + 1
      BY <1>3
    <3>2. TA!Whole(r)
      BY Zenon DEF Ends
    <3> QED BY <1>1, <1>2, <1>3, <1>4, <3>1, <3>2, EndsAre
  <2>2. r \in Seq(Token) /\ Len(r) = j /\ \A k \in 1 .. j : r[k] = s[k]
    <3>1. 1 \in 1 .. Len(s) + 1 /\ j \in 1 - 1 .. Len(s)
      BY <1>3, <2>1
    <3>2. /\ r \in Seq(Token) /\ Len(r) = j - 1 + 1
          /\ \A k \in 1 .. j - 1 + 1 : r[k] = s[1 + k - 1]
      BY <1>3, <3>1, SubsAre
    <3> HIDE DEF r
    <3>3. j - 1 + 1 = j /\ \A k \in 1 .. j : 1 + k - 1 = k
      BY <2>1
    <3> QED BY <3>2, <3>3
  <2> HIDE DEF r
  <2>3. CASE j <= m
    <3> DEFINE q == SubSeq(b, 1, j)
    <3>1. q \in Seq(Token) /\ Len(q) = j /\ \A k \in 1 .. j : q[k] = b[k]
      <4>1. 1 \in 1 .. Len(b) + 1 /\ j \in 1 - 1 .. Len(b)
        BY <1>1, <2>1, <2>3
      <4>2. /\ q \in Seq(Token) /\ Len(q) = j - 1 + 1
            /\ \A k \in 1 .. j - 1 + 1 : q[k] = b[1 + k - 1]
        BY <4>1, SubsAre
      <4> HIDE DEF q
      <4>3. j - 1 + 1 = j /\ \A k \in 1 .. j : 1 + k - 1 = k
        BY <2>1
      <4> QED BY <4>2, <4>3
    <3>2. q = r
      <4> HIDE DEF q
      <4>1. \A k \in 1 .. j : q[k] = r[k]
        BY <1>1, <1>5, <2>1, <2>2, <2>3, <3>1
      <4> QED BY <2>2, <3>1, <4>1, SeqEqual
    <3>3. j \in 1 .. Len(b)
      BY <1>1, <2>1, <2>3
    <3>4. TA!Whole(SubSeq(b, 1, j))
      BY <2>1, <3>2, Zenon
    <3> QED BY <3>3, <3>4, Zenon DEF Ends
  <2>4. CASE j > m
    <3>1. m + 1 \in 2 .. Len(r) /\ m + 1 \in 1 .. j /\ r[m + 1] = TA!Opening
      <4>1. m + 1 \in 2 .. Len(r) /\ m + 1 \in 1 .. j /\ 1 \in 1 .. Len(t)
        BY <1>1, <1>2, <2>1, <2>2, <2>4
      <4> QED BY <1>2, <1>6, <2>2, <4>1
    <3>2. m + 2 < Len(r) /\ r[m + 2] = TA!Closing
      <4>1. (m + 1) + 1 < Len(r) /\ r[(m + 1) + 1] = TA!Closing
        BY <2>1, <3>1, ShapeIs
      <4>2. (m + 1) + 1 = m + 2
        BY <1>1
      <4> QED BY <4>1, <4>2
    <3>3. 2 \in 1 .. Len(t) /\ m + 2 \in 1 .. j /\ 2 \in 2 .. Len(t) - 1
      BY <1>1, <1>2, <1>4, <2>1, <2>2, <3>2
    <3>4. t[2] = TA!Closing
      BY <1>6, <2>2, <3>2, <3>3
    <3> QED BY <1>2, <3>3, <3>4
  <2> QED BY <1>1, <2>1, <2>3, <2>4
<1> QED BY <1>3, <1>7, <1>8 DEF s

-----------------------------------------------------------------------------
(* The folds of the community modules.  They choose a function on the sets   *)
(* of places; on the set of the first i places it is what i steps make.      *)
Folded(V, G, o, m, h, g) ==
  /\ g \in [SUBSET (1 .. m) -> V] /\ g[{}] = o
  /\ \A Q \in SUBSET (1 .. m) : Q # {} => g[Q] = G[<<g[Q \ {TA!Max(Q)}], h[TA!Max(Q)]>>]

LEMMA MaxIs ==
  ASSUME NEW m \in Nat, NEW Q \in SUBSET (1 .. m), Q # {}
  PROVE  TA!Max(Q) \in Q /\ \A x \in Q : x <= TA!Max(Q)
<1> DEFINE T == {m - x : x \in Q}
<1>1. T \in SUBSET Nat /\ T # {}
  <2>1. \A x \in Q : x \in 1 .. m /\ m - x \in Nat
    OBVIOUS
  <2>2. PICK x \in Q : TRUE
    OBVIOUS
  <2> QED BY <2>1, <2>2
<1> HIDE DEF T
<1>2. PICK z \in T : \A y \in T : z <= y
  BY <1>1, LeastOfSet
<1>3. \E x \in Q : \A y \in Q : x >= y
  <2>1. PICK x \in Q : z = m - x
    BY <1>2 DEF T
  <2>2. \A y \in Q : m - x <= m - y
    BY <1>2, <2>1 DEF T
  <2> QED BY <2>2
<1> QED BY <1>3 DEF TA!Max

LEMMA FirstPlaces ==
  ASSUME NEW m \in Nat, NEW i \in 1 .. m
  PROVE  /\ 1 .. i \in SUBSET (1 .. m) /\ 1 .. i # {}
         /\ TA!Max(1 .. i) = i /\ (1 .. i) \ {i} = 1 .. i - 1
<1>1. 1 .. i \in SUBSET (1 .. m) /\ i \in 1 .. i
  OBVIOUS
<1>2. TA!Max(1 .. i) \in 1 .. i /\ i <= TA!Max(1 .. i)
  BY <1>1, MaxIs
<1>3. TA!Max(1 .. i) = i
  BY <1>2
<1> QED BY <1>1, <1>3

LEMMA FoldExists ==
  ASSUME NEW V, NEW X, NEW G \in [V \X X -> V], NEW o \in V,
         NEW m \in Nat, NEW h \in [1 .. m -> X]
  PROVE  \E g : Folded(V, G, o, m, h, g)
<1> DEFINE N == {n \in Nat : n <= m => \E g : Folded(V, G, o, n, h, g)}
<1>1. 0 \in N
  <2> DEFINE g == [Q \in SUBSET (1 .. 0) |-> o]
  <2>1. 1 .. 0 = {}
    OBVIOUS
  <2>2. Folded(V, G, o, 0, h, g)
    BY <2>1 DEF Folded
  <2> QED BY <2>2
<1>2. ASSUME NEW n \in N PROVE n + 1 \in N
  <2> SUFFICES ASSUME n + 1 <= m PROVE \E g : Folded(V, G, o, n + 1, h, g)
    OBVIOUS
  <2>1. n \in Nat /\ n <= m /\ n + 1 \in 1 .. m
    OBVIOUS
  <2>2. PICK g : Folded(V, G, o, n, h, g)
    BY <2>1
  <2> DEFINE k == n + 1
             e == [Q \in SUBSET (1 .. k) |-> IF k \in Q THEN G[<<g[Q \ {k}], h[k]>>] ELSE g[Q]]
  <2>3. \A Q \in SUBSET (1 .. k) : /\ k \notin Q => Q \in SUBSET (1 .. n)
                                   /\ Q \ {k} \in SUBSET (1 .. n)
    BY <2>1
  <2>4. g \in [SUBSET (1 .. n) -> V] /\ h[k] \in X
    BY <2>1, <2>2 DEF Folded
  <2>5. e \in [SUBSET (1 .. k) -> V] /\ e[{}] = o
    <3>1. \A Q \in SUBSET (1 .. k) : e[Q] \in V
      BY <2>3, <2>4
    <3>2. {} \in SUBSET (1 .. k) /\ k \notin {} /\ g[{}] = o
      BY <2>2 DEF Folded
    <3> QED BY <3>1, <3>2
  <2>6. ASSUME NEW Q \in SUBSET (1 .. k), Q # {}
        PROVE  e[Q] = G[<<e[Q \ {TA!Max(Q)}], h[TA!Max(Q)]>>]
    <3>1. TA!Max(Q) \in Q /\ \A x \in Q : x <= TA!Max(Q)
      <4>1. k \in Nat /\ Q \in SUBSET (1 .. k)
        BY <2>1
      <4> HIDE DEF k
      <4> QED BY <2>6, <4>1, MaxIs
    <3>2. CASE k \in Q
      <4>1. TA!Max(Q) = k
        <5>1. k <= TA!Max(Q)
          BY <3>1, <3>2, Zenon
        <5>2. TA!Max(Q) \in 1 .. k
          BY <3>1, Zenon
        <5> QED BY <2>1, <5>1, <5>2
      <4>2. k \notin Q \ {k} /\ Q \ {k} \in SUBSET (1 .. k)
        OBVIOUS
      <4>3. e[Q \ {k}] = g[Q \ {k}] /\ e[Q] = G[<<g[Q \ {k}], h[k]>>]
        BY <3>2, <4>2
      <4> QED BY <4>1, <4>3, Zenon
    <3>3. CASE k \notin Q
      <4>1. Q \in SUBSET (1 .. n) /\ e[Q] = g[Q]
        BY <2>3, <3>3
      <4>2. Q \ {TA!Max(Q)} \in SUBSET (1 .. k) /\ k \notin Q \ {TA!Max(Q)}
        BY <3>3
      <4>3. e[Q \ {TA!Max(Q)}] = g[Q \ {TA!Max(Q)}]
        BY <4>2
      <4>4. g[Q] = G[<<g[Q \ {TA!Max(Q)}], h[TA!Max(Q)]>>]
        BY <2>2, <2>6, <4>1, Zenon DEF Folded
      <4> QED BY <4>1, <4>3, <4>4, Zenon
    <3> QED BY <3>2, <3>3
  <2> HIDE DEF e
  <2>7. Folded(V, G, o, k, h, e)
    BY <2>5, <2>6 DEF Folded
  <2> QED BY <2>7
<1>3. N \in SUBSET Nat
  OBVIOUS
<1> HIDE DEF N
<1>4. N = Nat
  BY <1>1, <1>2, <1>3, SetInduction
<1>5. m \in N
  BY <1>4
<1> QED BY <1>5 DEF N

-----------------------------------------------------------------------------
(* Objects.  Clean ones have every key once and under its schema name.       *)
Named(f) == <<TA!Canon(f[1]), f[2]>>
Clean(n) ==
  /\ n \in Seq(Field)
  /\ \A i \in 1 .. Len(n) : TA!Canon(n[i][1]) = n[i][1]
  /\ \A i, j \in 1 .. Len(n) : n[i][1] = n[j][1] => i = j

LEMMA NamesAre ==
  /\ \A f \in Field : /\ f[1] \in Word /\ f[2] \in Word /\ f = <<f[1], f[2]>>
                      /\ Named(f) \in Field /\ Named(f)[1] = TA!Canon(f[1]) /\ Named(f)[2] = f[2]
  /\ \A k \in Word : TA!Canon(k) \in Word /\ TA!Canon(TA!Canon(k)) = TA!Canon(k)
<1>1. \A k \in Word : TA!Canon(k) \in Word /\ TA!Canon(TA!Canon(k)) = TA!Canon(k)
  <2>1. "file_path" \in Word
    BY ObjectsAreListed DEF Word
  <2>5. "file_path" # "path"
    OBVIOUS
  <2>2. TA!Canon("file_path") = "file_path"
    BY <2>5, Zenon DEF TA!Canon
  <2> TAKE k \in Word
  <2>3. CASE k = "path"
    <3>1. TA!Canon(k) = "file_path"
      BY <2>3, Zenon DEF TA!Canon
    <3> QED BY <2>1, <2>2, <3>1, Zenon
  <2>4. CASE k # "path"
    <3>1. TA!Canon(k) = k
      BY <2>4, Zenon DEF TA!Canon
    <3> QED BY <3>1, Zenon
  <2> QED BY <2>3, <2>4
<1>2. ASSUME NEW f \in Field
      PROVE  f[1] \in Word /\ f[2] \in Word /\ f = <<f[1], f[2]>>
  BY DEF Field
<1> QED BY <1>1, <1>2 DEF Field, Named

LEMMA SetIs ==
  ASSUME NEW d \in Seq(Field), NEW f \in Field
  PROVE  /\ TA!Set(d, f) \in Seq(Field)
         /\ TA!Has(d, f[1]) => /\ Len(TA!Set(d, f)) = Len(d)
                            /\ \A i \in 1 .. Len(d) : TA!Set(d, f)[i] = IF d[i][1] = f[1] THEN f ELSE d[i]
         /\ ~TA!Has(d, f[1]) => TA!Set(d, f) = Append(d, f)
<1>1. CASE TA!Has(d, f[1])
  <2> DEFINE e == [i \in 1 .. Len(d) |-> IF d[i][1] = f[1] THEN f ELSE d[i]]
  <2>1. TA!Set(d, f) = e
    <3>1. DOMAIN d = 1 .. Len(d)
      OBVIOUS
    <3> QED BY <1>1, <3>1, Zenon DEF TA!Set
  <2>2. Len(d) \in Nat /\ \A i \in 1 .. Len(d) : e[i] \in Field
    OBVIOUS
  <2>3. e \in Seq(Field) /\ Len(e) = Len(d)
    <3>1. e \in [1 .. Len(d) -> Field]
      BY <2>2
    <3> HIDE DEF e
    <3> QED BY <2>2, <3>1
  <2> QED BY <1>1, <2>1, <2>3
<1>2. CASE ~TA!Has(d, f[1])
  <2>1. TA!Set(d, f) = Append(d, f)
    BY <1>2, Zenon DEF TA!Set
  <2> QED BY <1>2, <2>1
<1> QED BY <1>1, <1>2

LEMMA ChooseIs ==
  ASSUME NEW n, Clean(n), NEW f \in Field
  PROVE  /\ Clean(TA!Choose(n, f))
         /\ TA!ToSet(TA!Choose(n, f)) \subseteq TA!ToSet(n) \cup {Named(f)}
         /\ \A x \in TA!ToSet(n) : x[1] # TA!Canon(f[1]) => x \in TA!ToSet(TA!Choose(n, f))
<1> DEFINE g == Named(f)
           c == TA!Choose(n, f)
<1>1. g \in Field /\ g[1] = TA!Canon(f[1]) /\ TA!Canon(g[1]) = g[1] /\ n \in Seq(Field) /\ Len(n) \in Nat
  BY NamesAre DEF Clean
<1>2. c = IF TA!Has(n, g[1]) /\ g[2] = "" THEN n ELSE TA!Set(n, g)
  BY Zenon DEF TA!Choose, Named
<1>3. TA!ToSet(n) = {n[i] : i \in 1 .. Len(n)}
  BY <1>1 DEF TA!ToSet
<1> HIDE DEF g, c
<1>4. CASE c = n
  BY <1>4, Zenon DEF g, c
<1>5. CASE TA!Has(n, g[1]) /\ c = TA!Set(n, g)
  <2>1. /\ c \in Seq(Field) /\ Len(c) = Len(n)
        /\ \A i \in 1 .. Len(n) : c[i] = IF n[i][1] = g[1] THEN g ELSE n[i]
    BY <1>1, <1>5, SetIs
  <2>2. \A i \in 1 .. Len(n) : c[i][1] = n[i][1]
    BY <2>1
  <2>3. Clean(c)
    BY <2>1, <2>2 DEF Clean
  <2>4. TA!ToSet(c) = {c[i] : i \in 1 .. Len(n)}
    BY <2>1 DEF TA!ToSet
  <2>5. TA!ToSet(c) \subseteq TA!ToSet(n) \cup {g}
    BY <1>3, <2>1, <2>4
  <2>6. \A x \in TA!ToSet(n) : x[1] # g[1] => x \in TA!ToSet(c)
    BY <1>3, <2>1, <2>4
  <2> QED BY <1>1, <2>3, <2>5, <2>6 DEF g, c
<1>6. CASE ~TA!Has(n, g[1]) /\ c = Append(n, g)
  <2>1. /\ c \in Seq(Field) /\ Len(c) = Len(n) + 1 /\ c[Len(n) + 1] = g
        /\ \A i \in 1 .. Len(n) : c[i] = n[i]
    BY <1>1, <1>6
  <2>2. \A i \in 1 .. Len(n) : n[i][1] # g[1]
    BY <1>1, <1>6 DEF TA!Has
  <2>3. Clean(c)
    <3>1. \A i \in 1 .. Len(c) : i \in 1 .. Len(n) \/ i = Len(n) + 1
      BY <1>1, <2>1
    <3>2. \A i \in 1 .. Len(c) : TA!Canon(c[i][1]) = c[i][1]
      BY <1>1, <2>1, <3>1 DEF Clean
    <3>3. \A i, j \in 1 .. Len(c) : c[i][1] = c[j][1] => i = j
      BY <2>1, <2>2, <3>1 DEF Clean
    <3> QED BY <2>1, <3>2, <3>3 DEF Clean
  <2>4. TA!ToSet(c) = {c[i] : i \in 1 .. Len(n) + 1}
    BY <2>1 DEF TA!ToSet
  <2>5. TA!ToSet(c) \subseteq TA!ToSet(n) \cup {g}
    <3>1. \A i \in 1 .. Len(n) + 1 : i \in 1 .. Len(n) \/ i = Len(n) + 1
      BY <1>1
    <3> QED BY <1>3, <2>1, <2>4, <3>1
  <2>6. TA!ToSet(n) \subseteq TA!ToSet(c)
    <3>1. \A i \in 1 .. Len(n) : i \in 1 .. Len(n) + 1
      BY <1>1
    <3> QED BY <1>3, <2>1, <2>4, <3>1
  <2> QED BY <2>3, <2>5, <2>6 DEF g, c
<1> QED
  <2>1. ~TA!Has(n, g[1]) => TA!Set(n, g) = Append(n, g)
    BY <1>1, SetIs
  <2> QED BY <1>2, <1>4, <1>5, <1>6, <2>1

LEMMA NormalKeysGrow ==
  ASSUME NEW d \in Seq(Field)
  PROVE  \E f : /\ f \in [0 .. Len(d) -> Seq(Field)] /\ f[0] = <<>>
                /\ \A i \in 1 .. Len(d) : f[i] = TA!Choose(f[i - 1], d[i])
                /\ TA!NormalKeys(d) = f[Len(d)]
<1> DEFINE m == Len(d)
           V == Seq(Field)
           G == [p \in V \X Field |-> TA!Choose(p[1], p[2])]
           Is(g) == g = [Q \in SUBSET DOMAIN d |-> IF Q = {} THEN <<>> ELSE TA!Choose(g[Q \ {TA!Max(Q)}], d[TA!Max(Q)])]
           c == CHOOSE g : Is(g)
<1>1. m \in Nat /\ DOMAIN d = 1 .. m /\ d \in [1 .. m -> Field] /\ <<>> \in V
  OBVIOUS
<1>2. \A n \in V, x \in Field : TA!Choose(n, x) \in V
  BY NamesAre, SetIs DEF TA!Choose, Named
<1>3. G \in [V \X Field -> V] /\ \A n \in V, x \in Field : G[<<n, x>>] = TA!Choose(n, x)
  BY <1>2
<1>4. TA!NormalKeys(d) = c[DOMAIN d]
  BY Zenon DEF TA!NormalKeys, TA!FoldLeft, TA!MapThenFoldSet
<1> HIDE DEF V, G
<1>5. PICK g : Folded(V, G, <<>>, m, d, g)
  BY <1>1, <1>3, FoldExists
<1>6. Is(g)
  <2>1. g \in [SUBSET (1 .. m) -> V] /\ g[{}] = <<>>
    BY <1>5 DEF Folded
  <2>2. ASSUME NEW Q \in SUBSET (1 .. m), Q # {}
        PROVE  g[Q] = TA!Choose(g[Q \ {TA!Max(Q)}], d[TA!Max(Q)])
    <3>1. g[Q] = G[<<g[Q \ {TA!Max(Q)}], d[TA!Max(Q)]>>]
      BY <1>5, <2>2, Zenon DEF Folded
    <3>2. TA!Max(Q) \in 1 .. m /\ Q \ {TA!Max(Q)} \in SUBSET (1 .. m)
      BY <1>1, <2>2, MaxIs
    <3>3. g[Q \ {TA!Max(Q)}] \in V /\ d[TA!Max(Q)] \in Field
      BY <1>1, <2>1, <3>2
    <3> QED BY <1>3, <3>1, <3>3, Zenon
  <2>3. g = [Q \in SUBSET (1 .. m) |-> g[Q]]
    BY <2>1
  <2> QED BY <1>1, <2>1, <2>2, <2>3, Zenon
<1>7. Is(c)
  BY <1>6, Zenon
<1> HIDE DEF c
<1>8. c[{}] = <<>>
  BY <1>7
<1>9. ASSUME NEW i \in 1 .. m PROVE c[1 .. i] = TA!Choose(c[1 .. i - 1], d[i])
  <2>1. /\ 1 .. i \in SUBSET (1 .. m) /\ 1 .. i # {}
        /\ TA!Max(1 .. i) = i /\ (1 .. i) \ {i} = 1 .. i - 1
    BY <1>1, FirstPlaces
  <2>2. \A Q \in SUBSET (1 .. m) : Q # {} => c[Q] = TA!Choose(c[Q \ {TA!Max(Q)}], d[TA!Max(Q)])
    BY <1>1, <1>7, Zenon
  <2> QED BY <2>1, <2>2, Zenon
<1> DEFINE f == [i \in 0 .. m |-> c[1 .. i]]
           N == {i \in Nat : i <= m => c[1 .. i] \in V}
<1>10. 1 .. 0 = {}
  OBVIOUS
<1>11. N = Nat
  <2>1. 0 \in N
    BY <1>1, <1>8, <1>10
  <2>2. ASSUME NEW n \in N PROVE n + 1 \in N
    <3>1. CASE n + 1 <= m
      <4>1. n + 1 \in 1 .. m /\ (n + 1) - 1 = n /\ n <= m
        BY <1>1, <3>1
      <4>2. c[1 .. n + 1] = TA!Choose(c[1 .. n], d[n + 1])
        BY <1>9, <4>1
      <4>3. c[1 .. n] \in V /\ d[n + 1] \in Field
        BY <1>1, <4>1
      <4>4. c[1 .. n + 1] \in V
        BY <1>2, <4>2, <4>3, Zenon
      <4> QED BY <4>4
    <3>2. CASE ~(n + 1 <= m)
      BY <3>2
    <3> QED BY <3>1, <3>2
  <2> HIDE DEF N
  <2>3. N \in SUBSET Nat
    BY DEF N
  <2> QED BY <2>1, <2>2, <2>3, SetInduction
<1>12. f \in [0 .. m -> V]
  <2>1. \A i \in 0 .. m : i \in Nat /\ i <= m
    BY <1>1
  <2> QED BY <1>11, <2>1
<1>13. f[0] = <<>> /\ f[m] = TA!NormalKeys(d)
  <2>1. 0 \in 0 .. m /\ m \in 0 .. m
    BY <1>1
  <2> QED BY <1>1, <1>4, <1>8, <1>10, <2>1
<1>14. ASSUME NEW i \in 1 .. m PROVE f[i] = TA!Choose(f[i - 1], d[i])
  <2>1. i \in 0 .. m /\ i - 1 \in 0 .. m
    BY <1>1
  <2> QED BY <1>9, <2>1
<1> QED BY <1>12, <1>13, <1>14, Zenon DEF V

LEMMA NormalKeysAppend ==
  ASSUME NEW d \in Seq(Field), NEW x \in Field
  PROVE  TA!NormalKeys(Append(d, x)) = TA!Choose(TA!NormalKeys(d), x) /\ TA!NormalKeys(<<>>) = <<>>
<1> DEFINE m == Len(d)
           dx == Append(d, x)
<1>1. /\ m \in Nat /\ dx \in Seq(Field) /\ Len(dx) = m + 1 /\ dx[m + 1] = x
      /\ \A i \in 1 .. m : dx[i] = d[i]
  OBVIOUS
<1> HIDE DEF dx
<1>2. PICK f : /\ f \in [0 .. m -> Seq(Field)] /\ f[0] = <<>>
               /\ \A i \in 1 .. m : f[i] = TA!Choose(f[i - 1], d[i])
               /\ TA!NormalKeys(d) = f[m]
  BY NormalKeysGrow
<1>3. PICK e : /\ e \in [0 .. Len(dx) -> Seq(Field)] /\ e[0] = <<>>
               /\ \A i \in 1 .. Len(dx) : e[i] = TA!Choose(e[i - 1], dx[i])
               /\ TA!NormalKeys(dx) = e[Len(dx)]
  BY <1>1, NormalKeysGrow
<1> DEFINE N == {i \in Nat : i <= m => e[i] = f[i]}
<1>4. N = Nat
  <2>1. 0 \in N
    BY <1>2, <1>3
  <2>2. ASSUME NEW n \in N PROVE n + 1 \in N
    <3>1. CASE n + 1 <= m
      <4>1. n + 1 \in 1 .. m /\ n + 1 \in 1 .. m + 1 /\ (n + 1) - 1 = n /\ n <= m
        BY <1>1, <3>1
      <4>2. e[n] = f[n]
        BY <4>1
      <4>3. e[n + 1] = TA!Choose(e[n], dx[n + 1]) /\ f[n + 1] = TA!Choose(f[n], d[n + 1])
        BY <1>1, <1>2, <1>3, <4>1
      <4>4. dx[n + 1] = d[n + 1]
        BY <1>1, <4>1
      <4>5. e[n + 1] = f[n + 1]
        BY <4>2, <4>3, <4>4, Zenon
      <4> QED BY <4>5
    <3>2. CASE ~(n + 1 <= m)
      BY <3>2
    <3> QED BY <3>1, <3>2
  <2>3. N \in SUBSET Nat
    OBVIOUS
  <2> HIDE DEF N
  <2> QED BY <2>1, <2>2, <2>3, SetInduction
<1>5. e[m] = f[m]
  BY <1>1, <1>4
<1>6. e[m + 1] = TA!Choose(e[m], x)
  <2>1. m + 1 \in 1 .. Len(dx) /\ (m + 1) - 1 = m
    BY <1>1
  <2> QED BY <1>1, <1>3, <2>1
<1>7. TA!NormalKeys(dx) = TA!Choose(TA!NormalKeys(d), x)
  BY <1>1, <1>2, <1>3, <1>5, <1>6
<1>8. TA!NormalKeys(<<>>) = <<>>
  <2>1. <<>> \in Seq(Field) /\ Len(<<>>) = 0
    OBVIOUS
  <2>2. PICK h : h[0] = <<>> /\ TA!NormalKeys(<<>>) = h[Len(<<>>)]
    BY <2>1, NormalKeysGrow
  <2> QED BY <2>1, <2>2
<1> QED BY <1>7, <1>8 DEF dx

LEMMA SetsOfLists ==
  ASSUME NEW V, NEW s \in Seq(V), NEW x \in V
  PROVE  /\ TA!ToSet(s) = {s[i] : i \in 1 .. Len(s)} /\ TA!ToSet(s) \subseteq V
         /\ TA!ToSet(Append(s, x)) = TA!ToSet(s) \cup {x}
<1>1. Len(s) \in Nat /\ DOMAIN s = 1 .. Len(s) /\ \A i \in 1 .. Len(s) : s[i] \in V
  OBVIOUS
<1> DEFINE a == Append(s, x)
<1>2. DOMAIN a = 1 .. Len(s) + 1 /\ a[Len(s) + 1] = x /\ \A i \in 1 .. Len(s) : a[i] = s[i]
  OBVIOUS
<1> HIDE DEF a
<1>3. \A i \in 1 .. Len(s) + 1 : i \in 1 .. Len(s) \/ i = Len(s) + 1
  BY <1>1
<1>4. Len(s) + 1 \in 1 .. Len(s) + 1 /\ \A i \in 1 .. Len(s) : i \in 1 .. Len(s) + 1
  BY <1>1
<1>5. TA!ToSet(a) = TA!ToSet(s) \cup {x}
  BY <1>1, <1>2, <1>3, <1>4 DEF TA!ToSet
<1>6. TA!ToSet(s) = {s[i] : i \in 1 .. Len(s)}
  BY <1>1 DEF TA!ToSet
<1> QED BY <1>1, <1>5, <1>6 DEF a

LEMMA CanonsAre ==
  ASSUME NEW d \in Seq(Field)
  PROVE  TA!Canons(d) = {TA!Canon(x[1]) : x \in TA!ToSet(d)}
<1>1. DOMAIN d = 1 .. Len(d)
  OBVIOUS
<1>2. TA!ToSet(d) = {d[i] : i \in DOMAIN d}
  BY DEF TA!ToSet
<1> QED BY <1>2 DEF TA!Canons

\* The keys of an object come out clean, from its own fields.
LEMMA NormalKeysAreClean ==
  \A d \in Seq(Field) : Clean(TA!NormalKeys(d)) /\ TA!ToSet(TA!NormalKeys(d)) \subseteq {Named(x) : x \in TA!ToSet(d)}
<1> DEFINE T == {d \in Seq(Field) : /\ Clean(TA!NormalKeys(d))
                                    /\ TA!ToSet(TA!NormalKeys(d)) \subseteq {Named(x) : x \in TA!ToSet(d)}}
<1>1. <<>> \in T
  <2>1. <<>> \in Seq(Field) /\ Len(<<>>) = 0 /\ TA!ToSet(<<>>) = {}
    BY DEF TA!ToSet
  <2>2. TA!NormalKeys(<<>>) = <<>>
    <3>1. <<"file_path", "file_path">> \in Field
      BY ObjectsAreListed DEF Field, Word
    <3> QED BY <2>1, <3>1, NormalKeysAppend
  <2>3. Clean(<<>>)
    BY <2>1 DEF Clean
  <2> QED BY <2>1, <2>2, <2>3
<1>2. ASSUME NEW d \in T, NEW f \in Field PROVE Append(d, f) \in T
  <2>1. d \in Seq(Field) /\ Append(d, f) \in Seq(Field) /\ Clean(TA!NormalKeys(d))
    OBVIOUS
  <2>2. TA!NormalKeys(Append(d, f)) = TA!Choose(TA!NormalKeys(d), f)
    BY <2>1, NormalKeysAppend
  <2>3. Clean(TA!NormalKeys(Append(d, f)))
    BY <2>1, <2>2, ChooseIs
  <2>4. TA!ToSet(TA!NormalKeys(Append(d, f))) \subseteq TA!ToSet(TA!NormalKeys(d)) \cup {Named(f)}
    BY <2>1, <2>2, ChooseIs
  <2>5. TA!ToSet(Append(d, f)) = TA!ToSet(d) \cup {f}
    BY <2>1, SetsOfLists
  <2>6. TA!ToSet(TA!NormalKeys(Append(d, f))) \subseteq {Named(x) : x \in TA!ToSet(Append(d, f))}
    <3>1. TA!ToSet(TA!NormalKeys(d)) \subseteq {Named(x) : x \in TA!ToSet(d)}
      OBVIOUS
    <3> HIDE DEF T
    <3> QED BY <2>4, <2>5, <3>1
  <2> QED BY <2>1, <2>3, <2>6
<1>3. T \in SUBSET Seq(Field)
  OBVIOUS
<1> HIDE DEF T
<1>4. T = Seq(Field)
  BY <1>1, <1>2, <1>3, ListInduction
<1> QED BY <1>4 DEF T

\* Clean keys stay.
LEMMA CleanStays == \A n : Clean(n) => TA!NormalKeys(n) = n
<1> DEFINE T == {d \in Seq(Field) : Clean(d) => TA!NormalKeys(d) = d}
<1>1. <<>> \in T
  <2>1. TA!NormalKeys(<<>>) = <<>>
    <3>1. <<"file_path", "file_path">> \in Field /\ <<>> \in Seq(Field)
      BY ObjectsAreListed DEF Field, Word
    <3> QED BY <3>1, NormalKeysAppend
  <2> QED BY <2>1
<1>2. ASSUME NEW d \in T, NEW f \in Field PROVE Append(d, f) \in T
  <2> DEFINE a == Append(d, f)
  <2>1. /\ d \in Seq(Field) /\ a \in Seq(Field) /\ Len(d) \in Nat /\ Len(a) = Len(d) + 1 /\ a[Len(d) + 1] = f
        /\ \A i \in 1 .. Len(d) : a[i] = d[i]
    OBVIOUS
  <2> SUFFICES ASSUME Clean(a) PROVE TA!NormalKeys(a) = a
    BY <2>1
  <2>2. TA!NormalKeys(a) = TA!Choose(TA!NormalKeys(d), f)
    BY <2>1, NormalKeysAppend
  <2> HIDE DEF a
  <2>3. \A i \in 1 .. Len(d) : i \in 1 .. Len(a)
    BY <2>1
  <2>4. Len(d) + 1 \in 1 .. Len(a) /\ \A i \in 1 .. Len(d) : i # Len(d) + 1
    BY <2>1
  <2>5. Clean(d)
    BY <2>1, <2>3 DEF Clean
  <2>6. TA!NormalKeys(d) = d
    BY <2>5
  <2>7. TA!Canon(f[1]) = f[1] /\ \A i \in 1 .. Len(d) : d[i][1] # f[1]
    BY <2>1, <2>3, <2>4 DEF Clean
  <2>8. Named(f) = f
    <3>1. f = <<f[1], f[2]>>
      BY NamesAre
    <3> QED BY <2>7, <3>1, Zenon DEF Named
  <2>9. ~TA!Has(d, f[1])
    BY <2>1, <2>7 DEF TA!Has
  <2>10. TA!Set(d, f) = Append(d, f)
    BY <2>1, <2>9, SetIs
  <2>11. TA!Choose(d, f) = TA!Set(d, f)
    BY <2>8, <2>9, Zenon DEF TA!Choose, Named
  <2> QED BY <2>2, <2>6, <2>10, <2>11, Zenon DEF a
<1>3. T \in SUBSET Seq(Field)
  OBVIOUS
<1> HIDE DEF T
<1>4. T = Seq(Field)
  BY <1>1, <1>2, <1>3, ListInduction
<1>5. \A n : Clean(n) => n \in Seq(Field)
  BY DEF Clean
<1> QED BY <1>4, <1>5 DEF T

\* Fields whose keys are new leave those that are there.
LEMMA NewKeysKeep ==
  ASSUME NEW d \in Seq(Field)
  PROVE  \A x \in Seq(Field) :
           (\A y \in TA!ToSet(x) : TA!Canon(y[1]) \notin TA!Canons(d)) => TA!ToSet(TA!NormalKeys(d)) \subseteq TA!ToSet(TA!NormalKeys(d \o x))
<1> DEFINE New(x) == \A y \in TA!ToSet(x) : TA!Canon(y[1]) \notin TA!Canons(d)
           T == {x \in Seq(Field) : New(x) => TA!ToSet(TA!NormalKeys(d)) \subseteq TA!ToSet(TA!NormalKeys(d \o x))}
<1>1. <<>> \in T
  <2>1. d \o <<>> = d
    OBVIOUS
  <2> QED BY <2>1
<1>2. ASSUME NEW x \in T, NEW f \in Field PROVE Append(x, f) \in T
  <2>1. x \in Seq(Field) /\ Append(x, f) \in Seq(Field) /\ d \o x \in Seq(Field)
    OBVIOUS
  <2> SUFFICES ASSUME New(Append(x, f))
               PROVE  TA!ToSet(TA!NormalKeys(d)) \subseteq TA!ToSet(TA!NormalKeys(d \o Append(x, f)))
    BY <2>1
  <2>2. TA!ToSet(Append(x, f)) = TA!ToSet(x) \cup {f}
    BY <2>1, SetsOfLists
  <2>3. New(x) /\ TA!Canon(f[1]) \notin TA!Canons(d)
    BY <2>2
  <2>4. TA!ToSet(TA!NormalKeys(d)) \subseteq TA!ToSet(TA!NormalKeys(d \o x))
    BY <2>3
  <2>5. d \o Append(x, f) = Append(d \o x, f)
    BY <2>1
  <2>6. TA!NormalKeys(Append(d \o x, f)) = TA!Choose(TA!NormalKeys(d \o x), f)
    BY <2>1, NormalKeysAppend
  <2>7. Clean(TA!NormalKeys(d \o x)) /\ TA!ToSet(TA!NormalKeys(d)) \subseteq {Named(y) : y \in TA!ToSet(d)}
    BY <2>1, NormalKeysAreClean
  <2>8. \A y \in TA!ToSet(TA!NormalKeys(d \o x)) : y[1] # TA!Canon(f[1]) => y \in TA!ToSet(TA!Choose(TA!NormalKeys(d \o x), f))
    BY <2>7, ChooseIs
  <2>9. \A y \in TA!ToSet(TA!NormalKeys(d)) : y[1] \in TA!Canons(d)
    <3>1. TA!Canons(d) = {TA!Canon(y[1]) : y \in TA!ToSet(d)}
      BY CanonsAre
    <3>2. TA!ToSet(d) \subseteq Field
      BY <2>1, SetsOfLists
    <3>3. \A y \in TA!ToSet(d) : Named(y)[1] = TA!Canon(y[1])
      BY <3>2, NamesAre
    <3> QED BY <2>7, <3>1, <3>3
  <2> HIDE DEF New, T
  <2>10. TA!ToSet(TA!NormalKeys(d)) \subseteq TA!ToSet(TA!Choose(TA!NormalKeys(d \o x), f))
    BY <2>3, <2>4, <2>8, <2>9
  <2> QED BY <2>5, <2>6, <2>10, Zenon
<1>3. T \in SUBSET Seq(Field)
  OBVIOUS
<1> HIDE DEF T
<1>4. T = Seq(Field)
  BY <1>1, <1>2, <1>3, ListInduction
<1> QED BY <1>4 DEF T

LEMMA CompleteIs ==
  ASSUME NEW d
  PROVE  TA!Complete(d) <=>
           \A k \in required : \E x \in TA!ToSet(TA!NormalKeys(d)) : x[1] = k /\ (x[2] # "" \/ k = "new_string")
<1> DEFINE n == TA!NormalKeys(d)
<1>1. TA!Complete(d) <=> \A k \in required : \E i \in DOMAIN n : n[i][1] = k /\ (n[i][2] # "" \/ k = "new_string")
  BY DEF TA!Complete
<1> HIDE DEF n
<1>2. TA!ToSet(n) = {n[i] : i \in DOMAIN n}
  BY DEF TA!ToSet
<1>3. \A k : (\E i \in DOMAIN n : n[i][1] = k /\ (n[i][2] # "" \/ k = "new_string"))
              <=> (\E x \in TA!ToSet(n) : x[1] = k /\ (x[2] # "" \/ k = "new_string"))
  BY <1>2
<1> QED BY <1>1, <1>3, Zenon DEF n

LEMMA CompletenessKept ==
  ASSUME NEW d \in Seq(Field)
  PROVE  /\ TA!Complete(TA!NormalKeys(d)) <=> TA!Complete(d)
         /\ \A n : Clean(n) /\ TA!Complete(d) /\ TA!ToSet(TA!NormalKeys(d)) \subseteq TA!ToSet(n) => TA!Complete(n)
<1>1. TA!NormalKeys(TA!NormalKeys(d)) = TA!NormalKeys(d)
  BY NormalKeysAreClean, CleanStays
<1>2. TA!Complete(TA!NormalKeys(d)) <=> TA!Complete(d)
  BY <1>1, CompleteIs, Zenon
<1>3. ASSUME NEW n, Clean(n), TA!Complete(d), TA!ToSet(TA!NormalKeys(d)) \subseteq TA!ToSet(n) PROVE TA!Complete(n)
  <2>1. TA!NormalKeys(n) = n
    BY <1>3, CleanStays
  <2>2. ASSUME NEW k \in required
        PROVE  \E x \in TA!ToSet(n) : x[1] = k /\ (x[2] # "" \/ k = "new_string")
    <3>1. PICK x \in TA!ToSet(TA!NormalKeys(d)) : x[1] = k /\ (x[2] # "" \/ k = "new_string")
      BY <1>3, <2>2, CompleteIs, Zenon
    <3> QED BY <1>3, <3>1
  <2> QED BY <2>1, <2>2, CompleteIs, Zenon
<1> QED BY <1>2, <1>3

LEMMA OnlyNewIs ==
  ASSUME NEW d \in Seq(Field), NEW e \in Seq(Field)
  PROVE  /\ TA!OnlyNew(d, e) \in Seq(Field) /\ TA!WithoutPath(e) \in Seq(Field)
         /\ \A y \in TA!ToSet(TA!OnlyNew(d, e)) : TA!Canon(y[1]) \notin TA!Canons(d)
<1> DEFINE Z == {f \in Field : TA!Canon(f[1]) \notin TA!Canons(d)}
           L == {f \in Field : TA!Canon(f[1]) # "file_path"}
<1>1. \A i \in DOMAIN e : e[i] \in Field
  OBVIOUS
<1>2. TA!OnlyNew(d, e) = Belonging(e, Z)
  <2>1. \A i \in DOMAIN e : TA!Canon(e[i][1]) \notin TA!Canons(d) <=> e[i] \in Z
    BY <1>1
  <2> HIDE DEF Z
  <2>2. [i \in DOMAIN e |-> IF TA!Canon(e[i][1]) \notin TA!Canons(d) THEN <<e[i]>> ELSE <<>>]
          = [i \in DOMAIN e |-> IF e[i] \in Z THEN <<e[i]>> ELSE <<>>]
    BY <2>1, Zenon
  <2> QED BY <2>2, Zenon DEF TA!OnlyNew, TA!Picked, Belonging
<1>3. TA!WithoutPath(e) = Belonging(e, L)
  <2>1. \A i \in DOMAIN e : TA!Canon(e[i][1]) # "file_path" <=> e[i] \in L
    BY <1>1
  <2> HIDE DEF L
  <2>2. [i \in DOMAIN e |-> IF TA!Canon(e[i][1]) # "file_path" THEN <<e[i]>> ELSE <<>>]
          = [i \in DOMAIN e |-> IF e[i] \in L THEN <<e[i]>> ELSE <<>>]
    BY <2>1, Zenon
  <2> QED BY <2>2, Zenon DEF TA!WithoutPath, TA!Picked, Belonging
<1>4. Belonging(e, Z) \in Seq(Field \cap Z) /\ Belonging(e, L) \in Seq(Field \cap L)
  BY ThoseAre
<1>5. \A V, W : Seq(V \cap W) \subseteq Seq(V)
  OBVIOUS
<1>6. TA!ToSet(Belonging(e, Z)) \subseteq Z
  <2> DEFINE s == Belonging(e, Z)
  <2>1. s \in Seq(Field \cap Z)
    BY <1>4
  <2> HIDE DEF s, Z
  <2>2. \A i \in DOMAIN s : s[i] \in Z
    BY <2>1
  <2>3. TA!ToSet(s) = {s[i] : i \in DOMAIN s}
    BY DEF TA!ToSet
  <2>4. TA!ToSet(s) \subseteq Z
    BY <2>2, <2>3
  <2> QED BY <2>4 DEF s
<1>7. \A y \in Z : TA!Canon(y[1]) \notin TA!Canons(d)
  OBVIOUS
<1> HIDE DEF Z, L
<1> QED BY <1>2, <1>3, <1>4, <1>5, <1>6, <1>7

LEMMA OverlayIs ==
  ASSUME NEW d \in Seq(Field), NEW e \in Seq(Field)
  PROVE  TA!Overlay(d, e) \in Seq(Field)
<1> DEFINE m == Len(e)
           V == Seq(Field)
           G == [p \in V \X Field |-> TA!Set(p[1], p[2])]
           Is(g) == g = [Q \in SUBSET DOMAIN e |-> IF Q = {} THEN d ELSE TA!Set(g[Q \ {TA!Max(Q)}], e[TA!Max(Q)])]
           c == CHOOSE g : Is(g)
<1>1. m \in Nat /\ DOMAIN e = 1 .. m /\ e \in [1 .. m -> Field] /\ d \in V
  OBVIOUS
<1>2. \A n \in V, x \in Field : TA!Set(n, x) \in V
  BY SetIs
<1>3. G \in [V \X Field -> V] /\ \A n \in V, x \in Field : G[<<n, x>>] = TA!Set(n, x)
  BY <1>2
<1>4. TA!Overlay(d, e) = c[DOMAIN e]
  BY Zenon DEF TA!Overlay, TA!FoldLeft, TA!MapThenFoldSet
<1> HIDE DEF V, G
<1>5. PICK g : Folded(V, G, d, m, e, g)
  BY <1>1, <1>3, FoldExists
<1>6. Is(g)
  <2>1. g \in [SUBSET (1 .. m) -> V] /\ g[{}] = d
    BY <1>5 DEF Folded
  <2>2. ASSUME NEW Q \in SUBSET (1 .. m), Q # {}
        PROVE  g[Q] = TA!Set(g[Q \ {TA!Max(Q)}], e[TA!Max(Q)])
    <3>1. g[Q] = G[<<g[Q \ {TA!Max(Q)}], e[TA!Max(Q)]>>]
      BY <1>5, <2>2, Zenon DEF Folded
    <3>2. TA!Max(Q) \in 1 .. m /\ Q \ {TA!Max(Q)} \in SUBSET (1 .. m)
      BY <1>1, <2>2, MaxIs
    <3>3. g[Q \ {TA!Max(Q)}] \in V /\ e[TA!Max(Q)] \in Field
      BY <1>1, <2>1, <3>2
    <3> QED BY <1>3, <3>1, <3>3, Zenon
  <2>3. g = [Q \in SUBSET (1 .. m) |-> g[Q]]
    BY <2>1
  <2> QED BY <1>1, <2>1, <2>2, <2>3, Zenon
<1>7. Is(c)
  BY <1>6, Zenon
<1> HIDE DEF c
<1>8. c[{}] = d
  BY <1>7
<1>9. ASSUME NEW i \in 1 .. m PROVE c[1 .. i] = TA!Set(c[1 .. i - 1], e[i])
  <2>1. /\ 1 .. i \in SUBSET (1 .. m) /\ 1 .. i # {}
        /\ TA!Max(1 .. i) = i /\ (1 .. i) \ {i} = 1 .. i - 1
    BY <1>1, FirstPlaces
  <2>2. \A Q \in SUBSET (1 .. m) : Q # {} => c[Q] = TA!Set(c[Q \ {TA!Max(Q)}], e[TA!Max(Q)])
    BY <1>1, <1>7, Zenon
  <2> QED BY <2>1, <2>2, Zenon
<1> DEFINE N == {i \in Nat : i <= m => c[1 .. i] \in V}
<1>10. 1 .. 0 = {}
  OBVIOUS
<1>11. N = Nat
  <2>1. 0 \in N
    BY <1>1, <1>8, <1>10
  <2>2. ASSUME NEW n \in N PROVE n + 1 \in N
    <3>1. CASE n + 1 <= m
      <4>1. n + 1 \in 1 .. m /\ (n + 1) - 1 = n /\ n <= m
        BY <1>1, <3>1
      <4>2. c[1 .. n + 1] = TA!Set(c[1 .. n], e[n + 1])
        BY <1>9, <4>1
      <4>3. c[1 .. n] \in V /\ e[n + 1] \in Field
        BY <1>1, <4>1
      <4>4. c[1 .. n + 1] \in V
        BY <1>2, <4>2, <4>3, Zenon
      <4> QED BY <4>4
    <3>2. CASE ~(n + 1 <= m)
      BY <3>2
    <3> QED BY <3>1, <3>2
  <2> HIDE DEF N
  <2>3. N \in SUBSET Nat
    BY DEF N
  <2> QED BY <2>1, <2>2, <2>3, SetInduction
<1>12. c[1 .. m] \in V
  BY <1>1, <1>11
<1> QED BY <1>1, <1>4, <1>12 DEF V

\* Two clean objects, or a clean one and one that was sent, put together.
LEMMA MergeTwoIs ==
  ASSUME NEW n, Clean(n), NEW d \in Seq(Field)
  PROVE  LET r == TA!MergeTwo(n, d)
         IN  /\ r \in Seq(Field)
             /\ TA!Complete(d) => TA!ToSet(TA!NormalKeys(d)) \subseteq TA!ToSet(TA!NormalKeys(r))
             /\ TA!Complete(n) /\ ~TA!Complete(d) => TA!ToSet(n) \subseteq TA!ToSet(TA!NormalKeys(r))
<1> DEFINE r == TA!MergeTwo(n, d)
<1>1. n \in Seq(Field) /\ TA!NormalKeys(n) = n
  BY CleanStays DEF Clean
<1>2. CASE TA!Complete(d)
  <2> DEFINE x == TA!OnlyNew(d, n)
  <2>1. r = d \o x
    BY <1>2, Zenon DEF TA!MergeTwo
  <2>2. x \in Seq(Field) /\ \A y \in TA!ToSet(x) : TA!Canon(y[1]) \notin TA!Canons(d)
    BY <1>1, OnlyNewIs
  <2> HIDE DEF x, r
  <2>3. d \o x \in Seq(Field)
    BY <2>2
  <2>4. TA!ToSet(TA!NormalKeys(d)) \subseteq TA!ToSet(TA!NormalKeys(d \o x))
    BY <2>2, NewKeysKeep
  <2> QED BY <1>2, <2>1, <2>3, <2>4, Zenon DEF r
<1>3. CASE TA!Complete(n) /\ ~TA!Complete(d)
  <2> DEFINE x == TA!OnlyNew(n, d)
  <2>1. r = n \o x
    BY <1>3, Zenon DEF TA!MergeTwo
  <2>2. x \in Seq(Field) /\ \A y \in TA!ToSet(x) : TA!Canon(y[1]) \notin TA!Canons(n)
    BY <1>1, OnlyNewIs
  <2> HIDE DEF x, r
  <2>3. n \o x \in Seq(Field)
    BY <1>1, <2>2
  <2>4. TA!ToSet(TA!NormalKeys(n)) \subseteq TA!ToSet(TA!NormalKeys(n \o x))
    BY <1>1, <2>2, NewKeysKeep
  <2> QED BY <1>1, <1>3, <2>1, <2>3, <2>4, Zenon DEF r
<1>4. CASE ~TA!Complete(n) /\ ~TA!Complete(d)
  <2>1. r = TA!Overlay(IF TA!GivesPath(d) THEN TA!WithoutPath(n) ELSE n, d)
    BY <1>4, Zenon DEF TA!MergeTwo
  <2>2. (IF TA!GivesPath(d) THEN TA!WithoutPath(n) ELSE n) \in Seq(Field)
    BY <1>1, OnlyNewIs
  <2>3. r \in Seq(Field)
    BY <2>1, <2>2, OverlayIs
  <2> QED BY <1>4, <2>3
<1> QED BY <1>2, <1>3, <1>4

-----------------------------------------------------------------------------
(* What a chunk makes of the buffer.                                         *)
Taken(b, c) == TA!Join(TA!Sanitize(b), TA!Sanitize(c), TA!Tidy(TA!Sanitize(b)), TA!Tidy(TA!Sanitize(c)))
Broken(b) == b \in Seq(Token) /\ Ends(b, 1) = {}

LEMMA PrefixIs ==
  ASSUME NEW s \in Seq(Token), NEW t \in Seq(Token)
  PROVE  TA!IsPrefix(s, t) <=> Len(s) <= Len(t) /\ \A i \in 1 .. Len(s) : s[i] = t[i]
<1>1. Len(s) \in Nat /\ Len(t) \in Nat /\ SubSeq(s, 1, Len(s)) = s
  BY SubSeqFull
<1>2. ASSUME Len(s) <= Len(t) PROVE SubSeq(s, 1, Len(s)) = SubSeq(t, 1, Len(s)) <=> \A i \in 1 .. Len(s) : s[i] = t[i]
  <2> DEFINE q == SubSeq(t, 1, Len(s))
  <2>1. q \in Seq(Token) /\ Len(q) = Len(s) /\ \A k \in 1 .. Len(s) : q[k] = t[k]
    <3>1. 1 \in 1 .. Len(t) + 1 /\ Len(s) \in 1 - 1 .. Len(t)
      BY <1>1, <1>2
    <3>2. /\ q \in Seq(Token) /\ Len(q) = Len(s) - 1 + 1
          /\ \A k \in 1 .. Len(s) - 1 + 1 : q[k] = t[1 + k - 1]
      BY <3>1, SubsAre
    <3> HIDE DEF q
    <3>3. Len(s) - 1 + 1 = Len(s) /\ \A k \in 1 .. Len(s) : 1 + k - 1 = k
      BY <1>1
    <3> QED BY <3>2, <3>3
  <2> HIDE DEF q
  <2>2. (\A i \in 1 .. Len(s) : s[i] = t[i]) => s = q
    <3> SUFFICES ASSUME \A i \in 1 .. Len(s) : s[i] = t[i] PROVE s = q
      OBVIOUS
    <3>1. \A i \in 1 .. Len(s) : s[i] = q[i]
      BY <2>1
    <3> QED BY <2>1, <3>1, SeqEqual
  <2>3. s = q => \A i \in 1 .. Len(s) : s[i] = t[i]
    BY <2>1
  <2> QED BY <1>1, <2>2, <2>3 DEF q
<1> QED BY <1>2, Zenon DEF TA!IsPrefix

\* No object begins what has none at its beginning.
LEMMA NoWholePrefix ==
  ASSUME NEW b, Broken(b), NEW s \in Seq(Token), TA!IsPrefix(s, b)
  PROVE  ~TA!Whole(s)
<1> SUFFICES ASSUME TA!Whole(s) PROVE FALSE
  OBVIOUS
<1>1. Len(s) \in 1 .. Len(b)
  <2>1. Shaped(s) /\ Len(s) <= Len(b)
    BY WholeIsShaped, PrefixIs DEF Broken
  <2>2. Len(s) \in Nat /\ Len(s) >= 2 /\ Len(b) \in Nat
    BY <2>1, ShapeIs DEF Broken
  <2> QED BY <2>1, <2>2
<1>2. SubSeq(b, 1, Len(s)) = s
  <2>1. SubSeq(s, 1, Len(s)) = s
    BY SubSeqFull
  <2> QED BY <2>1, Zenon DEF TA!IsPrefix
<1>3. Len(s) \in Ends(b, 1)
  BY <1>1, <1>2, Zenon DEF Ends
<1> QED BY <1>3, Zenon DEF Broken

\* The text of an object that meets a buffer.
LEMMA TextMeetsNothing ==
  ASSUME NEW d \in Seq(Field)
  PROVE  Taken(<<>>, TA!Text(d)) = TA!Text(TA!NormalKeys(d))
<1>1. TA!Sanitize(<<>>) = <<>> /\ TA!Tidy(<<>>) = <<>>
  <2>1. <<>> \in Seq(Token) /\ Ends(<<>>, 1) = {}
    <3>1. Len(<<>>) = 0
      OBVIOUS
    <3> QED BY <3>1 DEF Ends
  <2> QED BY <2>1, BrokenStays
<1>2. TA!Sanitize(TA!Text(d)) = TA!Text(d) /\ TA!Tidy(TA!Text(d)) = TA!Text(TA!NormalKeys(d))
  BY TextStays
<1> QED BY <1>1, <1>2, Zenon DEF Taken, TA!Join

LEMMA TextMeetsBroken ==
  ASSUME NEW b, Broken(b), b # <<>>, NEW d \in Seq(Field)
  PROVE  \/ Taken(b, TA!Text(d)) = TA!Text(TA!NormalKeys(d))
         \/ ~TA!Complete(d) /\ Broken(Taken(b, TA!Text(d))) /\ Taken(b, TA!Text(d)) # <<>>
<1> DEFINE t == TA!Text(d)
           p == TA!Text(TA!NormalKeys(d))
           u == b \o t
<1>1. TA!NormalKeys(d) \in Seq(Field) /\ TA!NormalKeys(TA!NormalKeys(d)) = TA!NormalKeys(d)
  BY NormalKeysAreClean, CleanStays DEF Clean
<1>2. p \in Seq(Token) /\ TA!Whole(p) /\ TA!Fields(p) = TA!NormalKeys(d) /\ TA!Whole(t) /\ Shaped(t)
  BY <1>1, TextIs
<1>3. TA!Sanitize(b) = b /\ TA!Tidy(b) = b /\ ~TA!Whole(b)
  BY BrokenStays DEF Broken
<1>4. TA!Sanitize(t) = t /\ TA!Tidy(t) = p
  BY TextStays
<1>5. ~TA!IsPrefix(p, b)
  BY <1>2, NoWholePrefix
<1> HIDE DEF t, p
<1>6. Taken(b, t) = TA!Join(b, t, b, p)
  BY <1>3, <1>4, Zenon DEF Taken
<1>7. CASE TA!IsPrefix(b, p)
  <2>1. Taken(b, t) = p
    BY <1>6, <1>7, Zenon DEF TA!Join
  <2> QED BY <2>1, Zenon DEF t, p
<1>8. CASE ~TA!IsPrefix(b, p) /\ TA!Ready(p)
  <2>1. Taken(b, t) = p
    BY <1>3, <1>5, <1>6, <1>8, Zenon DEF TA!Join
  <2> QED BY <2>1, Zenon DEF t, p
<1>9. CASE ~TA!IsPrefix(b, p) /\ ~TA!Ready(p)
  <2>1. Taken(b, t) = TA!Normal(u)
    BY <1>3, <1>5, <1>6, <1>9, Zenon DEF TA!Join, TA!Ready
  <2>2. u \in Seq(Token) /\ u # <<>> /\ Ends(u, 1) = {}
    BY <1>2, BrokenGrows DEF Broken
  <2>3. ~TA!Complete(d)
    BY <1>2, <1>9, CompletenessKept, Zenon DEF TA!Ready
  <2> HIDE DEF u
  <2>4. TA!Normal(u) = u
    BY <2>2, BrokenStays
  <2> QED BY <2>1, <2>2, <2>3, <2>4, Zenon DEF t, Broken
<1> QED BY <1>7, <1>8, <1>9

LEMMA TextMeetsText ==
  ASSUME NEW n, Clean(n), NEW d \in Seq(Field)
  PROVE  \E e : /\ Clean(e) /\ Taken(TA!Text(n), TA!Text(d)) = TA!Text(e)
                /\ TA!Complete(d) => TA!ToSet(TA!NormalKeys(d)) \subseteq TA!ToSet(e)
                /\ TA!Complete(n) /\ ~TA!Complete(d) => TA!ToSet(n) \subseteq TA!ToSet(e)
<1> DEFINE s == TA!Text(n)
           t == TA!Text(d)
           p == TA!Text(TA!NormalKeys(d))
           r == TA!MergeTwo(n, d)
<1>1. n \in Seq(Field) /\ TA!NormalKeys(n) = n
  BY CleanStays DEF Clean
<1>2. Clean(TA!NormalKeys(d)) /\ TA!NormalKeys(d) \in Seq(Field)
  BY NormalKeysAreClean DEF Clean
<1>3. /\ s \in Seq(Token) /\ Shaped(s) /\ TA!Fields(s) = n /\ TA!Whole(s)
      /\ t \in Seq(Token) /\ Shaped(t) /\ TA!Fields(t) = d /\ TA!Whole(t)
      /\ p \in Seq(Token) /\ Shaped(p) /\ TA!Fields(p) = TA!NormalKeys(d) /\ TA!Whole(p)
  BY <1>1, <1>2, TextIs
<1>4. TA!Sanitize(s) = s /\ TA!Tidy(s) = s /\ TA!Sanitize(t) = t /\ TA!Tidy(t) = p
  BY <1>1, TextStays
<1>5. s # <<>>
  BY <1>3, ShapeIs
<1> HIDE DEF s, t, p, r
<1>6. Taken(s, t) = TA!Join(s, t, s, p)
  BY <1>4, Zenon DEF Taken
<1>7. CASE TA!IsPrefix(s, p) \/ TA!IsPrefix(p, s)
  <2>1. s = p
    <3>1. CASE TA!IsPrefix(s, p)
      BY <1>3, <3>1, PrefixIs, TextsAreClosed
    <3>2. CASE TA!IsPrefix(p, s)
      BY <1>3, <3>2, PrefixIs, TextsAreClosed
    <3> QED BY <1>7, <3>1, <3>2
  <2>2. n = TA!NormalKeys(d)
    BY <1>3, <2>1
  <2>3. Taken(s, t) = s
    BY <1>5, <1>6, <1>7, <2>1, Zenon DEF TA!Join
  <2> QED BY <2>2, <2>3, Zenon DEF s, t
<1>8. CASE ~TA!IsPrefix(s, p) /\ ~TA!IsPrefix(p, s) /\ TA!Same(n, d)
  <2>1. Taken(s, t) = s
    BY <1>3, <1>5, <1>6, <1>8, Zenon DEF TA!Join
  <2>2. TA!ToSet(TA!NormalKeys(d)) \subseteq TA!ToSet(n)
    <3>1. TA!ToSet(TA!NormalKeys(d)) \subseteq {Named(x) : x \in TA!ToSet(d)} /\ TA!ToSet(d) = TA!ToSet(n)
      BY <1>8, NormalKeysAreClean DEF TA!Same
    <3>2. ASSUME NEW x \in TA!ToSet(n) PROVE Named(x) = x
      <4>0. TA!ToSet(n) = {n[i] : i \in 1 .. Len(n)}
        BY <1>1 DEF TA!ToSet
      <4>1. PICK i \in 1 .. Len(n) : x = n[i]
        BY <3>2, <4>0, Zenon
      <4>2. x \in Field /\ TA!Canon(x[1]) = x[1]
        BY <1>1, <4>1 DEF Clean
      <4>3. x = <<x[1], x[2]>>
        BY <4>2, NamesAre
      <4> QED BY <4>2, <4>3, Zenon DEF Named
    <3> QED BY <3>1, <3>2
  <2> QED BY <2>1, <2>2, Zenon DEF s, t
<1>9. CASE ~TA!IsPrefix(s, p) /\ ~TA!IsPrefix(p, s) /\ ~TA!Same(n, d)
  <2>1. Taken(s, t) = TA!Normal(TA!Text(r))
    BY <1>3, <1>5, <1>6, <1>9, Zenon DEF TA!Join, r
  <2>2. /\ r \in Seq(Field)
        /\ TA!Complete(d) => TA!ToSet(TA!NormalKeys(d)) \subseteq TA!ToSet(TA!NormalKeys(r))
        /\ TA!Complete(n) /\ ~TA!Complete(d) => TA!ToSet(n) \subseteq TA!ToSet(TA!NormalKeys(r))
    BY MergeTwoIs DEF r
  <2>3. TA!Normal(TA!Text(r)) = TA!Text(TA!NormalKeys(r)) /\ Clean(TA!NormalKeys(r))
    BY <2>2, TextStays, NormalKeysAreClean
  <2> QED BY <2>1, <2>2, <2>3, Zenon DEF s, t
<1> QED BY <1>7, <1>8, <1>9

Latest(o) == TA!SelectLastInSeq(o, TA!Complete)
LEMMA LastIs ==
  ASSUME NEW o \in Seq(Objects), NEW d \in Objects
  PROVE  /\ Latest(<<>>) = 0 /\ Latest(o) \in 0 .. Len(o)
         /\ Latest(o) > 0 => TA!Complete(o[Latest(o)])
         /\ TA!Complete(d) => Latest(Append(o, d)) = Len(o) + 1
         /\ ~TA!Complete(d) => Latest(Append(o, d)) = Latest(o)
<1> DEFINE Full(s) == {i \in 1 .. Len(s) : TA!Complete(s[i])}
           a == Append(o, d)
<1>1. \A s : Latest(s) = IF Full(s) # {} THEN TA!Max(Full(s)) ELSE 0
  BY Zenon DEF Latest, TA!SelectLastInSeq
<1>2. /\ Len(o) \in Nat /\ Len(a) = Len(o) + 1 /\ a[Len(o) + 1] = d
      /\ \A i \in 1 .. Len(o) : a[i] = o[i]
  OBVIOUS
<1>3. Full(<<>>) = {}
  <2>1. Len(<<>>) = 0
    OBVIOUS
  <2> QED BY <2>1
<1> HIDE DEF a
<1>4. Full(o) \in SUBSET (1 .. Len(o)) /\ Full(a) \in SUBSET (1 .. Len(o) + 1)
  BY <1>2
<1>5. Full(o) # {} => TA!Max(Full(o)) \in Full(o)
  BY <1>2, <1>4, MaxIs
<1>6. Latest(o) \in 0 .. Len(o) /\ (Latest(o) > 0 => TA!Complete(o[Latest(o)]))
  <2>3. \A x \in Full(o) : x \in 1 .. Len(o) /\ TA!Complete(o[x])
    OBVIOUS
  <2>4. Latest(o) = IF Full(o) # {} THEN TA!Max(Full(o)) ELSE 0
    BY <1>1, Zenon
  <2> HIDE DEF Full
  <2>1. CASE Full(o) = {}
    BY <1>2, <2>4, <2>1
  <2>2. CASE Full(o) # {}
    <3>1. Latest(o) = TA!Max(Full(o))
      BY <2>2, <2>4
    <3>2. Latest(o) \in Full(o)
      BY <1>5, <2>2, <3>1
    <3> QED BY <1>2, <2>3, <3>2
  <2> QED BY <2>1, <2>2
<1>7. ASSUME TA!Complete(d) PROVE Latest(a) = Len(o) + 1
  <2>1. Len(o) + 1 \in Full(a)
    BY <1>2, <1>7
  <2>2. TA!Max(Full(a)) \in Full(a) /\ \A x \in Full(a) : x <= TA!Max(Full(a))
    <3>1. Len(o) + 1 \in Nat
      BY <1>2
    <3> HIDE DEF Full
    <3> QED BY <1>4, <2>1, <3>1, MaxIs
  <2>3. Latest(a) = TA!Max(Full(a))
    BY <1>1, <2>1
  <2> HIDE DEF Full
  <2>4. Latest(a) \in 1 .. Len(o) + 1 /\ Len(o) + 1 <= Latest(a)
    BY <1>4, <2>1, <2>2, <2>3
  <2> QED BY <1>2, <2>4
<1>8. ASSUME ~TA!Complete(d) PROVE Latest(a) = Latest(o)
  <2>1. \A i \in 1 .. Len(o) + 1 : i \in 1 .. Len(o) \/ i = Len(o) + 1
    BY <1>2
  <2>2. \A i \in 1 .. Len(o) : i \in 1 .. Len(o) + 1
    BY <1>2
  <2>3. Full(a) = Full(o)
    BY <1>2, <1>8, <2>1, <2>2
  <2> HIDE DEF Full
  <2> QED BY <1>1, <2>3
<1>9. Latest(<<>>) = 0
  BY <1>1, <1>3, Zenon
<1> HIDE DEF Full
<1> QED BY <1>6, <1>7, <1>8, <1>9 DEF a

\* The buffer after the objects o: nothing, a text that broke off, or a clean
\* object with the fields of the last complete one.
Rewritten(o, b) ==
  \/ o = <<>> /\ b = <<>>
  \/ Broken(b) /\ b # <<>> /\ Latest(o) = 0
  \/ \E n : Clean(n) /\ b = TA!Text(n) /\ (Latest(o) > 0 => TA!ToSet(TA!NormalKeys(o[Latest(o)])) \subseteq TA!ToSet(n))
Resent(k, t, b) ==
  /\ k < Len(TA!Text(t)) => b = SubSeq(TA!Text(t), 1, k)
  /\ k = Len(TA!Text(t)) /\ TA!Complete(t) => b = TA!Text(TA!NormalKeys(t))
\* What the first k tokens of a text come out as.
Out(k, t) == IF k < Len(TA!Text(t)) THEN SubSeq(TA!Text(t), 1, k) ELSE TA!Text(TA!NormalKeys(t))

ArgsInv ==
  /\ target \in Objects /\ objects \in Seq(Objects) /\ pieces \in 0 .. Len(TA!Text(target))
  /\ style = "rewrites" => Rewritten(objects, buffer)
  /\ style = "resends" => Resent(pieces, target, buffer)
  /\ style = "pieces" /\ ~mistaken => buffer = Out(pieces, target)

LEMMA ObjectsAre == \A d \in Objects : d \in Seq(Field)
<1>1. Seq(Field) = Seq((DOMAIN Bytes) \X (DOMAIN Bytes))
  BY Zenon DEF Field, Word
<1> QED BY <1>1, ObjectsAreListed, Zenon

LEMMA NeedsStay ==
  ASSUME required' = required
  PROVE  /\ Rewritten(objects, buffer)' <=> Rewritten(objects', buffer')
         /\ Resent(pieces, target, buffer)' <=> Resent(pieces', target', buffer')
<1>1. Rewritten(objects, buffer)' <=> Rewritten(objects', buffer')
  BY Zenon DEF Rewritten, Latest, TA!SelectLastInSeq, TA!Complete
<1>2. Resent(pieces, target, buffer)' <=> Resent(pieces', target', buffer')
  BY Zenon DEF Resent, TA!Complete
<1> QED BY <1>1, <1>2

LEMMA RewriteKeeps ==
  ASSUME NEW o \in Seq(Objects), NEW b, Rewritten(o, b), NEW d \in Objects
  PROVE  Rewritten(Append(o, d), Taken(b, TA!Text(d)))
<1> DEFINE a == Append(o, d)
           c == Taken(b, TA!Text(d))
<1>1. d \in Seq(Field) /\ Clean(TA!NormalKeys(d))
  BY ObjectsAre, NormalKeysAreClean
<1>2. a[Len(o) + 1] = d /\ \A i \in 1 .. Len(o) : a[i] = o[i]
  OBVIOUS
<1>3. /\ Latest(<<>>) = 0 /\ Latest(o) \in 0 .. Len(o) /\ Len(o) \in Nat
      /\ Latest(o) > 0 => TA!Complete(o[Latest(o)])
      /\ TA!Complete(d) => Latest(a) = Len(o) + 1
      /\ ~TA!Complete(d) => Latest(a) = Latest(o)
  BY LastIs
<1> HIDE DEF a, c
<1>4. TA!Complete(d) => Latest(a) > 0 /\ a[Latest(a)] = d
  BY <1>2, <1>3
<1>5. ~TA!Complete(d) /\ Latest(a) > 0 => Latest(o) > 0 /\ a[Latest(a)] = o[Latest(o)] /\ o[Latest(o)] \in Seq(Field)
  <2> SUFFICES ASSUME ~TA!Complete(d), Latest(a) > 0 PROVE Latest(o) > 0 /\ a[Latest(a)] = o[Latest(o)] /\ o[Latest(o)] \in Seq(Field)
    OBVIOUS
  <2>1. Latest(a) = Latest(o) /\ Latest(o) \in 1 .. Len(o)
    BY <1>3
  <2>2. o[Latest(o)] \in Objects
    BY <2>1
  <2> QED BY <1>2, <2>1, <2>2, ObjectsAre
<1>6. CASE c = TA!Text(TA!NormalKeys(d)) /\ Latest(o) = 0
  <2>1. Latest(a) > 0 => TA!ToSet(TA!NormalKeys(a[Latest(a)])) \subseteq TA!ToSet(TA!NormalKeys(d))
    BY <1>3, <1>4, <1>6
  <2> QED BY <1>1, <1>6, <2>1, Zenon DEF Rewritten, a, c
<1>7. CASE o = <<>> /\ b = <<>>
  <2>1. c = TA!Text(TA!NormalKeys(d))
    BY <1>1, <1>7, TextMeetsNothing DEF c
  <2> QED BY <1>3, <1>6, <1>7, <2>1
<1>8. CASE Broken(b) /\ b # <<>> /\ Latest(o) = 0
  <2>1. c = TA!Text(TA!NormalKeys(d)) \/ (~TA!Complete(d) /\ Broken(c) /\ c # <<>>)
    BY <1>1, <1>8, TextMeetsBroken DEF c
  <2>2. ASSUME ~TA!Complete(d), Broken(c), c # <<>> PROVE Rewritten(a, c)
    <3>1. Latest(a) = 0
      BY <1>3, <1>8, <2>2
    <3> QED BY <2>2, <3>1, Zenon DEF Rewritten
  <2> QED BY <1>6, <1>8, <2>1, <2>2 DEF a, c
<1>9. ASSUME NEW n, Clean(n), b = TA!Text(n), Latest(o) > 0 => TA!ToSet(TA!NormalKeys(o[Latest(o)])) \subseteq TA!ToSet(n)
      PROVE  Rewritten(a, c)
  <2>1. PICK e : /\ Clean(e) /\ c = TA!Text(e)
                 /\ TA!Complete(d) => TA!ToSet(TA!NormalKeys(d)) \subseteq TA!ToSet(e)
                 /\ TA!Complete(n) /\ ~TA!Complete(d) => TA!ToSet(n) \subseteq TA!ToSet(e)
    BY <1>1, <1>9, TextMeetsText DEF c
  <2>2. ASSUME Latest(a) > 0 PROVE TA!ToSet(TA!NormalKeys(a[Latest(a)])) \subseteq TA!ToSet(e)
    <3>1. CASE TA!Complete(d)
      BY <1>4, <2>1, <3>1
    <3>2. CASE ~TA!Complete(d)
      <4>1. Latest(o) > 0 /\ a[Latest(a)] = o[Latest(o)] /\ o[Latest(o)] \in Seq(Field)
        BY <1>5, <2>2, <3>2
      <4>2. TA!Complete(o[Latest(o)]) /\ TA!ToSet(TA!NormalKeys(o[Latest(o)])) \subseteq TA!ToSet(n)
        BY <1>3, <1>9, <4>1
      <4>3. TA!Complete(n)
        BY <1>9, <4>1, <4>2, CompletenessKept
      <4> QED BY <2>1, <3>2, <4>1, <4>2, <4>3
    <3> QED BY <3>1, <3>2
  <2> QED BY <2>1, <2>2, Zenon DEF Rewritten
<1> QED BY <1>7, <1>8, <1>9, Zenon DEF Rewritten, a, c

\* The beginning of a text that is sent: broken, or the whole text.
LEMMA BeginningIs ==
  ASSUME NEW d \in Seq(Field), NEW k \in 0 .. Len(TA!Text(d))
  PROVE  LET b == SubSeq(TA!Text(d), 1, k)
         IN  /\ b \in Seq(Token) /\ Len(b) = k /\ \A i \in 1 .. k : b[i] = TA!Text(d)[i]
             /\ k < Len(TA!Text(d)) => Broken(b)
             /\ k = Len(TA!Text(d)) => b = TA!Text(d)
<1> DEFINE t == TA!Text(d)
           b == SubSeq(t, 1, k)
<1>1. t \in Seq(Token) /\ Shaped(t) /\ Len(t) \in Nat
  BY TextIs
<1>2. k \in 0 .. Len(t)
  OBVIOUS
<1> HIDE DEF t
<1>3. b \in Seq(Token) /\ Len(b) = k /\ \A i \in 1 .. k : b[i] = t[i]
  <2>1. 1 \in 1 .. Len(t) + 1 /\ k \in 1 - 1 .. Len(t)
    BY <1>1, <1>2
  <2>2. b \in Seq(Token) /\ Len(b) = k - 1 + 1 /\ \A i \in 1 .. k - 1 + 1 : b[i] = t[1 + i - 1]
    BY <1>1, <2>1, SubsAre
  <2> HIDE DEF b
  <2>3. k - 1 + 1 = k /\ \A i \in 1 .. k : 1 + i - 1 = i
    BY <1>1, <1>2
  <2> QED BY <2>2, <2>3
<1>4. k < Len(t) => Broken(b)
  <2> SUFFICES ASSUME k < Len(t) PROVE Broken(b)
    OBVIOUS
  <2>1. k \in 0 .. Len(t) - 1
    BY <1>1, <1>2
  <2> QED BY <1>1, <2>1, BeginningIsBroken DEF Broken
<1>5. k = Len(t) => b = t
  BY <1>1, SubSeqFull
<1> QED BY <1>3, <1>4, <1>5 DEF t, b

LEMMA OutIs ==
  ASSUME NEW t \in Seq(Field), NEW k \in 0 .. Len(TA!Text(t))
  PROVE  TA!Normal(SubSeq(TA!Text(t), 1, k)) = Out(k, t)
<1>1. Len(TA!Text(t)) \in Nat
  BY TextIs
<1>2. CASE k < Len(TA!Text(t))
  <2>1. Broken(SubSeq(TA!Text(t), 1, k))
    BY <1>2, BeginningIs
  <2> QED BY <1>2, <2>1, BrokenStays DEF Broken, Out
<1>3. CASE k = Len(TA!Text(t))
  <2>1. SubSeq(TA!Text(t), 1, k) = TA!Text(t)
    BY <1>3, BeginningIs
  <2>2. TA!Normal(TA!Text(t)) = TA!Text(TA!NormalKeys(t))
    BY TextStays
  <2>3. ~(k < Len(TA!Text(t)))
    BY <1>1, <1>3
  <2>4. Out(k, t) = TA!Text(TA!NormalKeys(t))
    BY <2>3, Zenon DEF Out
  <2> QED BY <2>1, <2>2, <2>4, Zenon
<1>4. k < Len(TA!Text(t)) \/ k = Len(TA!Text(t))
  BY <1>1
<1> QED BY <1>2, <1>3, <1>4, Zenon

\* A text that is sent again, longer.
LEMMA LongerMeetsShorter ==
  ASSUME NEW t \in Seq(Field), NEW k \in 0 .. Len(TA!Text(t)), NEW m \in k + 1 .. Len(TA!Text(t)),
         NEW b, Resent(k, t, b)
  PROVE  Resent(m, t, Taken(b, SubSeq(TA!Text(t), 1, m)))
<1> DEFINE c == SubSeq(TA!Text(t), 1, m)
           L == Len(TA!Text(t))
<1>1. L \in Nat /\ k \in Nat /\ m \in Nat /\ k < L /\ k < m /\ m <= L /\ m \in 0 .. L
  BY TextIs
<1>2. b = SubSeq(TA!Text(t), 1, k)
  BY <1>1 DEF Resent
<1>3. b \in Seq(Token) /\ Len(b) = k /\ Broken(b) /\ \A i \in 1 .. k : b[i] = TA!Text(t)[i]
  BY <1>1, <1>2, BeginningIs
<1>4. TA!Sanitize(b) = b /\ TA!Tidy(b) = b /\ ~TA!Whole(b)
  BY <1>3, BrokenStays DEF Broken
<1>5. CASE m < L
  <2>1. c \in Seq(Token) /\ Len(c) = m /\ Broken(c) /\ \A i \in 1 .. m : c[i] = TA!Text(t)[i]
    BY <1>1, <1>5, BeginningIs
  <2>2. TA!Sanitize(c) = c /\ TA!Tidy(c) = c
    BY <2>1, BrokenStays DEF Broken
  <2>3. TA!IsPrefix(b, c)
    <3> HIDE DEF c
    <3>1. \A i \in 1 .. k : i \in 1 .. m
      BY <1>1
    <3> QED BY <1>1, <1>3, <2>1, <3>1, PrefixIs
  <2>4. Taken(b, c) = c
    BY <1>4, <2>2, <2>3, Zenon DEF Taken, TA!Join
  <2> QED BY <1>1, <1>5, <2>4 DEF Resent
<1>6. CASE m = L
  <2> DEFINE p == TA!Text(TA!NormalKeys(t))
  <2>1. c = TA!Text(t)
    BY <1>1, <1>6, BeginningIs
  <2>2. TA!Sanitize(c) = c /\ TA!Tidy(c) = p
    BY <2>1, TextStays
  <2>3. TA!NormalKeys(t) \in Seq(Field)
    BY NormalKeysAreClean DEF Clean
  <2>4. p \in Seq(Token) /\ TA!Whole(p) /\ TA!Fields(p) = TA!NormalKeys(t)
    BY <2>3, TextIs
  <2>5. ~TA!IsPrefix(p, b)
    BY <1>3, <2>4, NoWholePrefix
  <2> SUFFICES ASSUME TA!Complete(t) PROVE Taken(b, c) = p
    BY <1>1, <1>6 DEF Resent
  <2>6. TA!Ready(p)
    BY <2>4, CompletenessKept DEF TA!Ready
  <2> HIDE DEF p, c
  <2>7. Taken(b, c) = TA!Join(b, c, b, p)
    BY <1>4, <2>2, Zenon DEF Taken
  <2> QED BY <1>4, <2>5, <2>6, <2>7, Zenon DEF TA!Join
<1> QED BY <1>1, <1>5, <1>6

\* The next piece of a text.
LEMMA PieceMeetsBeginning ==
  ASSUME NEW t \in Seq(Field), NEW k \in 0 .. Len(TA!Text(t)), NEW m \in k + 1 .. Len(TA!Text(t)),
         NEW b, b = SubSeq(TA!Text(t), 1, k),
         k > 0 => ~TA!IsPrefix(SubSeq(TA!Text(t), k + 1, m), b) /\ ~TA!Whole(SubSeq(TA!Text(t), k + 1, m))
  PROVE  Taken(b, SubSeq(TA!Text(t), k + 1, m)) = Out(m, t)
<1>9. TA!Normal(SubSeq(TA!Text(t), 1, m)) = Out(m, t)
  <2>1. m \in 0 .. Len(TA!Text(t))
    BY TextIs
  <2> QED BY <2>1, OutIs
<1> SUFFICES Taken(b, SubSeq(TA!Text(t), k + 1, m)) = TA!Normal(SubSeq(TA!Text(t), 1, m))
  BY <1>9
<1> DEFINE x == TA!Text(t)
           c == SubSeq(x, k + 1, m)
           u == SubSeq(x, 1, m)
<1>1. x \in Seq(Token) /\ Shaped(x) /\ Len(x) \in Nat
  BY TextIs
<1>2. k \in Nat /\ m \in Nat /\ k < Len(x) /\ k < m /\ m <= Len(x) /\ m \in 0 .. Len(x)
  BY <1>1
<1>3. b \in Seq(Token) /\ Len(b) = k /\ Broken(b) /\ \A i \in 1 .. k : b[i] = x[i]
  BY <1>2, BeginningIs
<1>4. u \in Seq(Token) /\ Len(u) = m /\ \A i \in 1 .. m : u[i] = x[i]
  BY <1>2, BeginningIs
<1>5. TA!Sanitize(b) = b /\ TA!Tidy(b) = b /\ ~TA!Whole(b)
  BY <1>3, BrokenStays DEF Broken
<1> HIDE DEF x
<1>6. CASE k = 0
  <2>1. b = <<>>
    BY <1>3, <1>6
  <2>2. c = u
    BY <1>6
  <2> QED BY <1>5, <2>1, <2>2, Zenon DEF Taken, TA!Join, TA!Normal, x
<1>7. CASE k > 0
  <2>1. Follows(c) /\ Len(c) = m - k /\ \A i \in 1 .. m - k : c[i] = x[k + i]
    <3>1. k \in 1 .. Len(x) /\ m \in k .. Len(x)
      BY <1>1, <1>2, <1>7
    <3> QED BY <1>1, <3>1, PieceFollows
  <2>2. ~TA!IsPrefix(c, b) /\ ~TA!Whole(c)
    BY <1>7 DEF x
  <2> HIDE DEF c
  <2>3. TA!Sanitize(c) = c /\ TA!Tidy(c) = c
    BY <2>1, <2>2, ChunkStays
  <2>4. c \in Seq(Token)
    BY <2>1 DEF Follows
  <2>5. ~TA!IsPrefix(b, c)
    <3> SUFFICES ASSUME TA!IsPrefix(b, c) PROVE FALSE
      OBVIOUS
    <3>1. k <= m - k /\ \A i \in 1 .. k : b[i] = c[i]
      BY <1>3, <2>1, <2>4, PrefixIs
    <3>2. x[1] = TA!Opening
      BY <1>1, ShapeIs
    <3>3. x[k + 1] = TA!Opening
      <4>1. 1 \in 1 .. k /\ 1 \in 1 .. m - k
        BY <1>2, <1>7, <3>1
      <4> QED BY <1>3, <2>1, <3>1, <3>2, <4>1
    <3>4. k + 1 > 2 /\ (k + 1) + 1 < Len(x) /\ x[(k + 1) + 1] = TA!Closing
      <4>1. k + 1 \in 2 .. Len(x)
        BY <1>1, <1>2, <1>7
      <4> QED BY <1>1, <3>3, <4>1, ShapeIs
    <3>5. x[2] = TA!Closing
      <4>1. 2 \in 1 .. k /\ 2 \in 1 .. m - k /\ k + 2 = (k + 1) + 1
        BY <1>2, <3>1, <3>4
      <4>2. b[2] = c[2] /\ b[2] = x[2] /\ c[2] = x[k + 2]
        BY <1>3, <2>1, <3>1, <4>1
      <4> QED BY <3>4, <4>1, <4>2
    <3>6. 2 \in 2 .. Len(x) - 1
      BY <1>1, <1>2, <3>4
    <3>7. 2 > 3
      BY <1>1, <3>5, <3>6, ShapeIs
    <3> QED BY <3>7
  <2>6. b # <<>>
    BY <1>3, <1>7
  <2>7. Taken(b, c) = TA!Normal(b \o c)
    <3>1. Taken(b, c) = TA!Join(b, c, b, c)
      BY <1>5, <2>3, Zenon DEF Taken
    <3> QED BY <1>5, <2>2, <2>5, <2>6, <3>1, Zenon DEF TA!Join, TA!Ready
  <2>8. b \o c = u
    <3> DEFINE q == b \o c
    <3>1. q \in Seq(Token) /\ Len(q) = Len(b) + Len(c)
      BY <1>3, <2>4, ConcatsAre
    <3>2. \A i \in 1 .. Len(b) : q[i] = b[i]
      BY <1>3, <2>4, ConcatsAre
    <3>3. \A i \in 1 .. Len(c) : q[Len(b) + i] = c[i]
      BY <1>3, <2>4, ConcatsAre
    <3> HIDE DEF q, u
    <3>4. ASSUME NEW i \in 1 .. m PROVE q[i] = u[i]
      <4>1. CASE i <= k
        <5>1. i \in 1 .. k
          BY <1>2, <4>1
        <5> QED BY <1>3, <1>4, <3>2, <5>1
      <4>2. CASE i > k
        <5> DEFINE j == i - k
        <5>1. j \in 1 .. m - k /\ k + j = i
          BY <1>2, <4>2
        <5> HIDE DEF j
        <5>2. q[k + j] = c[j] /\ c[j] = x[k + j]
          BY <1>3, <2>1, <3>3, <5>1
        <5> QED BY <1>4, <5>1, <5>2
      <4> QED BY <1>2, <4>1, <4>2
    <3>5. Len(q) = m
      BY <1>2, <1>3, <2>1, <3>1
    <3>6. q = u
      BY <1>4, <3>1, <3>4, <3>5, SeqEqual
    <3> QED BY <3>6 DEF q
  <2> QED BY <2>7, <2>8, Zenon DEF x, c, u
<1> QED BY <1>2, <1>6, <1>7

LEMMA TakeIs ==
  ASSUME NEW c, TA!Take(c)
  PROVE  buffer' = Taken(buffer, c)
BY Zenon DEF TA!Take, Taken

LEMMA SizesAre == TA!Sizes \subseteq Nat \ {0}
<1> SUFFICES ASSUME NEW n \in TA!Sizes PROVE n \in Nat \ {0}
  OBVIOUS
<1>1. PICK d \in Objects : n \in 1 .. Len(TA!Text(d))
  BY Zenon DEF TA!Sizes
<1>2. Len(TA!Text(d)) \in Nat
  BY ObjectsAre, TextIs
<1> QED BY <1>1, <1>2

LEMMA ArgsStart == TA!Init => ArgsInv
<1> SUFFICES ASSUME TA!Init PROVE ArgsInv
  OBVIOUS
<1>1. /\ target \in Objects /\ pieces = 0 /\ objects = <<>> /\ buffer = <<>>
      /\ target \in Seq(Field)
  BY ObjectsAre DEF TA!Init
<1>2. /\ TA!Text(target) \in Seq(Token) /\ Len(TA!Text(target)) \in Nat /\ Len(TA!Text(target)) >= 2
      /\ SubSeq(TA!Text(target), 1, 0) = <<>>
  BY <1>1, TextIs, ShapeIs
<1>3. 0 \in 0 .. Len(TA!Text(target)) /\ <<>> \in Seq(Objects)
  BY <1>2
<1>4. Rewritten(objects, buffer)
  BY <1>1 DEF Rewritten
<1>5. Resent(pieces, target, buffer)
  BY <1>1, <1>2 DEF Resent
<1>6. Out(pieces, target) = <<>>
  BY <1>1, <1>2 DEF Out
<1> QED BY <1>1, <1>2, <1>3, <1>4, <1>5, <1>6 DEF ArgsInv

LEMMA PieceArgs ==
  ASSUME ArgsInv, NEW n \in TA!Sizes, TA!Piece(n)
  PROVE  ArgsInv'
<1> DEFINE t == TA!Text(target)
           c == SubSeq(t, pieces + 1, pieces + n)
<1>1. /\ style = "pieces" /\ pieces + n <= Len(t) /\ pieces' = pieces + n /\ buffer' = Taken(buffer, c)
      /\ mistaken' = (mistaken \/ (pieces > 0 /\ (TA!IsPrefix(c, buffer) \/ TA!Whole(c))))
      /\ style' = style /\ target' = target /\ objects' = objects /\ required' = required
  BY TakeIs DEF TA!Piece
<1>2. /\ target \in Objects /\ target \in Seq(Field) /\ objects \in Seq(Objects) /\ pieces \in 0 .. Len(t)
      /\ n \in Nat \ {0} /\ Len(t) \in Nat
  BY ObjectsAre, SizesAre, TextIs DEF ArgsInv
<1> HIDE DEF c
<1>3. pieces + n \in pieces + 1 .. Len(t) /\ pieces + n \in 0 .. Len(t)
  BY <1>1, <1>2
<1>4. ASSUME ~mistaken' PROVE buffer' = Out(pieces + n, target)
  <2>1. ~mistaken /\ (pieces > 0 => ~TA!IsPrefix(c, buffer) /\ ~TA!Whole(c))
    BY <1>1, <1>4
  <2>2. buffer = Out(pieces, target)
    BY <1>1, <2>1 DEF ArgsInv
  <2>3. buffer = SubSeq(t, 1, pieces)
    BY <1>2, <1>3, <2>2 DEF Out
  <2>4. Taken(buffer, c) = Out(pieces + n, target)
    BY <1>2, <1>3, <2>1, <2>3, PieceMeetsBeginning DEF c
  <2> QED BY <1>1, <2>4
<1>5. target' \in Objects /\ objects' \in Seq(Objects) /\ pieces' \in 0 .. Len(TA!Text(target'))
  BY <1>1, <1>2, <1>3
<1>6. ~mistaken' => buffer' = Out(pieces', target')
  BY <1>1, <1>4
<1>7. style' = "pieces" /\ style' # "rewrites" /\ style' # "resends"
  BY <1>1
<1> QED BY <1>5, <1>6, <1>7, Zenon DEF ArgsInv

LEMMA ResendArgs ==
  ASSUME ArgsInv, NEW n \in TA!Sizes, TA!Resend(n)
  PROVE  ArgsInv'
<1> DEFINE t == TA!Text(target)
<1>1. /\ style = "resends" /\ pieces + n <= Len(t) /\ pieces' = pieces + n
      /\ buffer' = Taken(buffer, SubSeq(t, 1, pieces + n))
      /\ style' = style /\ target' = target /\ objects' = objects /\ required' = required
  BY TakeIs DEF TA!Resend
<1>2. /\ target \in Objects /\ target \in Seq(Field) /\ objects \in Seq(Objects) /\ pieces \in 0 .. Len(t)
      /\ n \in Nat \ {0} /\ Len(t) \in Nat /\ Resent(pieces, target, buffer)
  BY <1>1, ObjectsAre, SizesAre, TextIs DEF ArgsInv
<1>3. pieces + n \in pieces + 1 .. Len(t) /\ pieces + n \in 0 .. Len(t)
  BY <1>1, <1>2
<1>4. Resent(pieces', target', buffer')
  BY <1>1, <1>2, <1>3, LongerMeetsShorter
<1>5. Resent(pieces, target, buffer)'
  BY <1>1, <1>4, NeedsStay
<1> QED BY <1>1, <1>2, <1>3, <1>5 DEF ArgsInv

LEMMA CutArgs ==
  ASSUME ArgsInv, NEW n \in TA!Sizes, TA!Cut(n)
  PROVE  ArgsInv'
<1> DEFINE t == TA!Text(target)
           c == SubSeq(t, 1, n)
<1>1. /\ style = "rewrites" /\ buffer = <<>> /\ n < Len(t) /\ buffer' = Taken(<<>>, c)
      /\ style' = style /\ target' = target /\ objects' = objects /\ required' = required /\ pieces' = pieces
  BY TakeIs DEF TA!Cut
<1>2. /\ target \in Objects /\ target \in Seq(Field) /\ objects \in Seq(Objects) /\ pieces \in 0 .. Len(t)
      /\ n \in Nat \ {0} /\ Len(t) \in Nat /\ Rewritten(objects, buffer)
  BY <1>1, ObjectsAre, SizesAre, TextIs DEF ArgsInv
<1>3. objects = <<>>
  <2>1. \A d : Clean(d) => TA!Text(d) # <<>>
    <3> SUFFICES ASSUME NEW d, Clean(d) PROVE TA!Text(d) # <<>>
      OBVIOUS
    <3>1. Shaped(TA!Text(d))
      BY TextIs DEF Clean
    <3>2. Len(TA!Text(d)) >= 2 /\ Len(<<>>) = 0
      BY <3>1, ShapeIs
    <3> QED BY <3>2
  <2> QED BY <1>1, <1>2, <2>1, Zenon DEF Rewritten
<1>4. c \in Seq(Token) /\ Len(c) = n /\ Broken(c)
  <2>1. n \in 0 .. Len(t)
    BY <1>1, <1>2
  <2> QED BY <1>1, <1>2, <2>1, BeginningIs
<1> HIDE DEF c
<1>5. Taken(<<>>, c) = c
  <2>1. TA!Sanitize(c) = c /\ TA!Tidy(c) = c
    BY <1>4, BrokenStays DEF Broken
  <2>2. <<>> \in Seq(Token) /\ Ends(<<>>, 1) = {}
    <3>1. Len(<<>>) = 0
      OBVIOUS
    <3> QED BY <3>1 DEF Ends
  <2>3. TA!Sanitize(<<>>) = <<>> /\ TA!Tidy(<<>>) = <<>>
    BY <2>2, BrokenStays
  <2> QED BY <2>1, <2>3, Zenon DEF Taken, TA!Join
<1>6. c # <<>>
  BY <1>2, <1>4
<1>7. Latest(<<>>) = 0
  BY <1>2, LastIs
<1>8. Rewritten(objects', buffer')
  BY <1>1, <1>3, <1>4, <1>5, <1>6, <1>7, Zenon DEF Rewritten
<1>9. Rewritten(objects, buffer)'
  BY <1>1, <1>8, NeedsStay
<1> QED BY <1>1, <1>2, <1>9 DEF ArgsInv

LEMMA RewriteArgs ==
  ASSUME ArgsInv, NEW d \in Objects, TA!Rewrite(d)
  PROVE  ArgsInv'
<1>1. /\ style = "rewrites" /\ buffer' = Taken(buffer, TA!Text(d)) /\ objects' = Append(objects, d)
      /\ style' = style /\ target' = target /\ required' = required /\ pieces' = pieces
  BY TakeIs DEF TA!Rewrite
<1>2. /\ target \in Objects /\ objects \in Seq(Objects) /\ pieces \in 0 .. Len(TA!Text(target))
      /\ Rewritten(objects, buffer)
  BY <1>1 DEF ArgsInv
<1>3. Rewritten(objects', buffer')
  BY <1>1, <1>2, RewriteKeeps
<1>4. Rewritten(objects, buffer)'
  BY <1>1, <1>3, NeedsStay
<1>5. objects' \in Seq(Objects)
  BY <1>1, <1>2
<1> QED BY <1>1, <1>2, <1>4, <1>5 DEF ArgsInv

LEMMA DoubleArgs ==
  ASSUME ArgsInv, NEW d \in Objects, NEW e \in Objects, TA!Double(d, e)
  PROVE  ArgsInv'
<1>1. /\ style = "doubled" /\ objects' = <<d, e>>
      /\ style' = style /\ target' = target /\ pieces' = pieces
  BY DEF TA!Double
<1>2. objects' \in Seq(Objects)
  BY <1>1
<1> QED BY <1>1, <1>2 DEF ArgsInv

LEMMA ArgsStep == ArgsInv /\ [TA!Next]_argumentVars => ArgsInv'
<1> SUFFICES ASSUME ArgsInv, [TA!Next]_argumentVars PROVE ArgsInv'
  OBVIOUS
<1>1. ASSUME NEW n \in TA!Sizes, TA!Piece(n) PROVE ArgsInv'
  BY <1>1, PieceArgs
<1>2. ASSUME NEW n \in TA!Sizes, TA!Resend(n) PROVE ArgsInv'
  BY <1>2, ResendArgs
<1>3. ASSUME NEW n \in TA!Sizes, TA!Cut(n) PROVE ArgsInv'
  BY <1>3, CutArgs
<1>4. ASSUME NEW d \in Objects, TA!Rewrite(d) PROVE ArgsInv'
  BY <1>4, RewriteArgs
<1>5. ASSUME NEW d \in Objects, NEW e \in Objects, TA!Double(d, e) PROVE ArgsInv'
  BY <1>5, DoubleArgs
<1>6. CASE UNCHANGED argumentVars
  <2>1. /\ required' = required /\ style' = style /\ target' = target /\ pieces' = pieces
        /\ objects' = objects /\ mistaken' = mistaken /\ buffer' = buffer
    BY <1>6 DEF argumentVars
  <2>2. /\ Rewritten(objects, buffer)' <=> Rewritten(objects, buffer)
        /\ Resent(pieces, target, buffer)' <=> Resent(pieces, target, buffer)
    BY <2>1, NeedsStay
  <2>3. /\ target' \in Objects /\ objects' \in Seq(Objects) /\ pieces' \in 0 .. Len(TA!Text(target'))
        /\ style' = "pieces" /\ ~mistaken' => buffer' = Out(pieces', target')
    BY <2>1, Zenon DEF ArgsInv
  <2>4. style' = "rewrites" => Rewritten(objects, buffer)'
    BY <2>1, <2>2, Zenon DEF ArgsInv
  <2>5. style' = "resends" => Resent(pieces, target, buffer)'
    BY <2>1, <2>2, Zenon DEF ArgsInv
  <2> QED BY <2>3, <2>4, <2>5, Zenon DEF ArgsInv
<1> QED BY <1>1, <1>2, <1>3, <1>4, <1>5, <1>6, Zenon DEF TA!Next

LEMMA ArgsHold == ArgsInv => TA!LastCompletePrevails /\ TA!TextRestored
<1> SUFFICES ASSUME ArgsInv PROVE TA!LastCompletePrevails /\ TA!TextRestored
  OBVIOUS
<1>1. /\ target \in Seq(Field) /\ pieces \in 0 .. Len(TA!Text(target)) /\ Len(TA!Text(target)) \in Nat
  BY ObjectsAre, TextIs DEF ArgsInv
<1>2. TA!LastCompletePrevails
  <2> SUFFICES ASSUME style = "rewrites", Latest(objects) > 0
               PROVE  /\ TA!Whole(buffer)
                      /\ TA!ToSet(TA!NormalKeys(objects[Latest(objects)])) \subseteq TA!ToSet(TA!Fields(buffer))
    BY Zenon DEF TA!LastCompletePrevails, TA!Prevails, Latest
  <2>1. Rewritten(objects, buffer)
    BY DEF ArgsInv
  <2>2. ~(Latest(objects) = 0) /\ objects # <<>>
    <3>1. Latest(<<>>) = 0
      <4>1. target \in Objects /\ <<>> \in Seq(Objects)
        BY DEF ArgsInv
      <4> QED BY <4>1, LastIs
    <3> QED BY <3>1
  <2>3. PICK n : Clean(n) /\ buffer = TA!Text(n) /\ TA!ToSet(TA!NormalKeys(objects[Latest(objects)])) \subseteq TA!ToSet(n)
    BY <2>1, <2>2, Zenon DEF Rewritten
  <2>4. TA!Fields(TA!Text(n)) = n /\ TA!Whole(TA!Text(n))
    BY <2>3, TextIs DEF Clean
  <2> QED BY <2>3, <2>4
<1>3. TA!TextRestored
  <2> DEFINE t == TA!Text(target)
             u == SubSeq(t, 1, pieces)
  <2> SUFFICES ASSUME style \in {"pieces", "resends"}, ~mistaken, TA!Whole(u) => TA!Complete(TA!Fields(u))
               PROVE  buffer = TA!Normal(u)
    BY Zenon DEF TA!TextRestored
  <2>1. CASE style = "pieces"
    <3>1. buffer = Out(pieces, target)
      BY <2>1 DEF ArgsInv
    <3> QED BY <1>1, <3>1, OutIs
  <2>2. CASE style = "resends"
    <3>1. Resent(pieces, target, buffer)
      BY <2>2 DEF ArgsInv
    <3>2. CASE pieces < Len(t)
      <4>1. Broken(u) /\ buffer = u
        BY <1>1, <3>1, <3>2, BeginningIs DEF Resent
      <4> QED BY <4>1, BrokenStays DEF Broken
    <3>3. CASE pieces = Len(t)
      <4>1. u = t
        BY <1>1, <3>3, BeginningIs
      <4>2. TA!Whole(t) /\ TA!Fields(t) = target /\ TA!Normal(t) = TA!Text(TA!NormalKeys(target))
        BY <1>1, TextIs, TextStays
      <4>3. TA!Complete(target)
        BY <4>1, <4>2
      <4>4. buffer = TA!Text(TA!NormalKeys(target))
        BY <3>1, <3>3, <4>3 DEF Resent
      <4> QED BY <4>1, <4>2, <4>4
    <3> QED BY <1>1, <3>2, <3>3
  <2> QED BY <2>1, <2>2
<1> QED BY <1>2, <1>3

LEMMA PartsStepAlone ==
  [GatewayNext]_gatewayVars =>
    /\ [A!Next]_affinityVars /\ [TA!Next]_argumentVars /\ [S!Next]_choiceVars
    /\ [P!Next]_statusVars /\ [K!Next]_keyVars /\ [U!Next]_usageVars
<1> USE DEF affinityVars, argumentVars, choiceVars, statusVars, keyVars, usageVars
<1> QED BY DEF GatewayNext, gatewayVars

\* The arguments of a tool call come out as they were sent: pieces and
\* growing texts (merge_tool_argument_delta) as the object they make up, and of
\* whole objects that correct each other the last complete one with every
\* field it has.
THEOREM ArgumentsAreComplete == GatewaySpec => []ArgumentsPutTogether
<1>1. GatewayInit => ArgsInv
  BY ArgsStart DEF GatewayInit
<1>2. ArgsInv /\ [TA!Next]_argumentVars => ArgsInv'
  BY ArgsStep
<1>3. ArgsInv => ArgumentsPutTogether
  BY ArgsHold DEF ArgumentsPutTogether
<1> QED BY <1>1, <1>2, <1>3, PartsStepAlone, PTL DEF GatewaySpec

-----------------------------------------------------------------------------
(* Why an account is out of rotation: a used-up quota keeps it out, and a    *)
(* quota query that nobody disturbs leaves it as the provider says.  The     *)
(* second needs to know what such a query has read at each of its steps.     *)
Sources == {"", "billing", "health", "renew"}
Row == [enabled : BOOLEAN, quota : BOOLEAN, qsource : Sources, dsource : Sources, cool : BOOLEAN]
JobKinds == {"none", "poll", "request", "probe", "renew", "restart"}
Places == {"idle", "begun", "disable", "snapshot", "look", "save", "again", "enable",
           "free", "block", "mark", "cool", "write"}
Job == [kind : JobKinds, pc : Places, seen : Row, found : {"", "spent", "healthy"}, alone : BOOLEAN]
Typing == standing \in Row /\ job \in [Procs -> Job]

\* Used up and enabled at once is what must not be.
QuotaOff(r) == r.quota => ~r.enabled

\* What a query knows of the row while nobody else has changed it.
Knows(j, r) ==
  /\ j.kind = "poll" =>
       /\ j.pc \in {"begun", "disable", "snapshot", "look", "save", "again", "enable"}
       /\ j.pc = "begun" => j.found = ""
       /\ j.pc \in {"disable", "snapshot"} => j.found = "spent"
       /\ j.pc \in {"look", "save", "again", "enable"} => j.found = "healthy"
       /\ j.alone =>
            /\ j.pc \in {"save", "enable"} => j.seen = r
            /\ j.pc \in {"again", "enable"} => ~r.quota
  /\ j.kind # "poll" => j.found = ""
QueriesKnow == \A p \in Procs : Knows(job[p], standing)

StatusInv == Typing /\ P!QuotaKeepsOut /\ QueriesKnow

-----------------------------------------------------------------------------
\* Every patch makes a row of a row, and all but those that depend on an
\* earlier reading keep it sound.
LEMMA PatchesType ==
  ASSUME NEW r \in Row, NEW read \in Row
  PROVE  /\ P!Disabled(r, "billing") \in Row /\ P!Disabled(r, "health") \in Row
         /\ P!Exhausted(r) \in Row /\ P!Recovered(r) \in Row /\ P!FreeUsage(r) \in Row
         /\ P!Cooled(r) \in Row /\ P!Kicked(r) \in Row /\ P!Removed(r) \in Row
         /\ P!Switched(r, TRUE) \in Row /\ P!Switched(r, FALSE) \in Row
         /\ P!Renewed(r, read) \in Row /\ P!Probed(r, read) \in Row /\ P!Restarted(r, read) \in Row
<1>1. /\ P!Disabled(r, "billing") \in Row /\ P!Disabled(r, "health") \in Row
      /\ P!Exhausted(r) \in Row /\ P!Recovered(r) \in Row /\ P!FreeUsage(r) \in Row
  BY DEF Row, Sources, P!Disabled, P!Exhausted, P!Recovered, P!FreeUsage
<1>2. P!Cooled(r) \in Row /\ P!Kicked(r) \in Row /\ P!Removed(r) \in Row
  BY DEF Row, Sources, P!Cooled, P!Kicked, P!Removed
<1>3. P!Switched(r, TRUE) \in Row /\ P!Switched(r, FALSE) \in Row
  BY <1>1, <1>2 DEF P!Switched, Row
<1>4. P!Renewed(r, read) \in Row
  BY DEF Row, Sources, P!Renewed
<1>5. P!Probed(r, read) \in Row
  BY DEF Row, Sources, P!Probed
<1>6. P!Restarted(r, read) \in Row
  BY DEF Row, Sources, P!Restarted
<1> QED BY <1>1, <1>2, <1>3, <1>4, <1>5, <1>6

LEMMA PatchesSound ==
  ASSUME NEW r \in Row
  PROVE  /\ QuotaOff(P!Disabled(r, "billing")) /\ QuotaOff(P!Disabled(r, "health"))
         /\ QuotaOff(P!Exhausted(r)) /\ QuotaOff(P!Recovered(r))
         /\ QuotaOff(P!FreeUsage(r)) /\ QuotaOff(P!Kicked(r)) /\ QuotaOff(P!Removed(r))
         /\ QuotaOff(P!Switched(r, TRUE)) /\ QuotaOff(P!Switched(r, FALSE))
         /\ QuotaOff(r) => QuotaOff(P!Cooled(r))
BY DEF QuotaOff, Row, P!Disabled, P!Exhausted, P!Recovered, P!FreeUsage, P!Cooled, P!Kicked, P!Switched, P!Removed

\* A renewal, a probe and a restart keep the row sound if the quota flag is
\* still as they have read it.
LEMMA StalePatchesSound ==
  ASSUME NEW r \in Row, NEW read \in Row, read.quota = r.quota, QuotaOff(r)
  PROVE  QuotaOff(P!Renewed(r, read)) /\ QuotaOff(P!Probed(r, read)) /\ QuotaOff(P!Restarted(r, read))
BY DEF QuotaOff, Row, P!Renewed, P!Probed, P!Restarted, P!Healthy

\* A step that writes a sound row over a sound row, or any row once a flag
\* has slipped in, keeps the quota's rule.
LEMMA SoundWrite ==
  ASSUME P!QuotaKeepsOut, ~slipped' => ~slipped /\ (QuotaOff(standing) => QuotaOff(standing'))
  PROVE  P!QuotaKeepsOut'
BY DEF P!QuotaKeepsOut, QuotaOff

\* What the others know survives the step of one process.
LEMMA OthersKnow ==
  ASSUME Typing, QueriesKnow, NEW p \in Procs, NEW j \in Job, NEW r \in Row, P!Set(p, j, r),
         Knows(j, r)
  PROVE  Typing' /\ QueriesKnow' /\ job'[p] = j /\ standing' = r
<1>1. standing' = r /\ job' = [q \in Procs |-> IF q = p THEN j ELSE [job[q] EXCEPT !.alone = @ /\ r = standing]]
  BY DEF P!Set
<1>2. Typing'
  BY <1>1 DEF Typing, Job
<1>3. ASSUME NEW q \in Procs, q # p PROVE Knows(job[q], standing)'
  <2>1. job'[q] = [job[q] EXCEPT !.alone = @ /\ r = standing] /\ job[q] \in Job /\ Knows(job[q], standing)
    BY <1>1, <1>3 DEF Typing, QueriesKnow
  <2> QED BY <1>1, <2>1 DEF Knows, Job
<1>4. Knows(job[p], standing)'
  BY <1>1
<1> QED BY <1>1, <1>2, <1>3, <1>4 DEF QueriesKnow

\* The step of process p, whatever it is.
LEMMA StepKeeps ==
  ASSUME StatusInv, NEW p \in Procs, NEW j \in Job, NEW r \in Row, P!Set(p, j, r), Knows(j, r),
         ~slipped' => ~slipped /\ (QuotaOff(standing) => QuotaOff(r))
  PROVE  StatusInv'
<1>1. Typing' /\ QueriesKnow' /\ standing' = r
  BY OthersKnow DEF StatusInv
<1>2. P!QuotaKeepsOut'
  BY <1>1, SoundWrite DEF StatusInv
<1> QED BY <1>1, <1>2 DEF StatusInv

\* A process that is no query goes on to a place, or is done.
LEMMA OtherJobs ==
  ASSUME Typing, QueriesKnow, NEW p \in Procs, job[p].kind # "poll", NEW r \in Row,
         NEW place \in Places
  PROVE  /\ [job[p] EXCEPT !.pc = place] \in Job /\ Knows([job[p] EXCEPT !.pc = place], r)
         /\ [job[p] EXCEPT !.pc = place, !.seen = standing] \in Job
         /\ Knows([job[p] EXCEPT !.pc = place, !.seen = standing], r)
         /\ P!Idle \in Job /\ Knows(P!Idle, r)
<1>1. job[p] \in Job /\ standing \in Row /\ Knows(job[p], standing)
  BY DEF Typing, QueriesKnow
<1>2. P!Idle \in Job /\ Knows(P!Idle, r)
  BY DEF P!Idle, P!Fresh, Job, Row, JobKinds, Places, Sources, Knows
<1>3. [job[p] EXCEPT !.pc = place] \in Job /\ [job[p] EXCEPT !.pc = place, !.seen = standing] \in Job
  BY <1>1 DEF Job
<1>4. /\ Knows([job[p] EXCEPT !.pc = place], r)
      /\ Knows([job[p] EXCEPT !.pc = place, !.seen = standing], r)
  BY <1>1 DEF Knows, Job
<1> QED BY <1>2, <1>3, <1>4

\* Hence it keeps the invariant if the row it writes is sound.
LEMMA OtherWrites ==
  ASSUME StatusInv, NEW p \in Procs, job[p].kind # "poll", NEW r \in Row, NEW place \in Places,
         ~slipped' => ~slipped /\ (QuotaOff(standing) => QuotaOff(r)),
         P!Write(p, place, r)
  PROVE  StatusInv'
<1>1. Typing /\ QueriesKnow
  BY DEF StatusInv
<1>2. CASE place = "idle"
  BY <1>1, <1>2, OtherJobs, StepKeeps DEF P!Write
<1>3. CASE place # "idle"
  BY <1>1, <1>3, OtherJobs, StepKeeps DEF P!Write
<1> QED BY <1>2, <1>3
-----------------------------------------------------------------------------
LEMMA StatusInit == P!Init => StatusInv
<1> SUFFICES ASSUME P!Init PROVE StatusInv
  OBVIOUS
<1>1. standing = P!Fresh /\ P!Fresh \in Row /\ P!Idle \in Job /\ Knows(P!Idle, P!Fresh) /\ ~P!Fresh.quota
  BY DEF P!Init, P!Idle, P!Fresh, Job, Row, JobKinds, Places, Sources, Knows
<1>2. Typing
  BY <1>1 DEF P!Init, Typing
<1>3. QueriesKnow
  BY <1>1 DEF P!Init, QueriesKnow
<1> QED BY <1>1, <1>2, <1>3 DEF StatusInv, P!QuotaKeepsOut

LEMMA StartKeeps ==
  ASSUME StatusInv, NEW p \in Procs, P!Start(p)
  PROVE  StatusInv'
<1>1. PICK kind \in {"poll", "request", "probe", "renew", "restart"} :
        P!Set(p, [P!Idle EXCEPT !.kind = kind, !.pc = "begun"], standing)
  BY DEF P!Start
<1> DEFINE j == [P!Idle EXCEPT !.kind = kind, !.pc = "begun"]
<1>2. j \in Job /\ Knows(j, standing)
  BY DEF P!Idle, P!Fresh, Job, Row, JobKinds, Places, Sources, Knows
<1>3. standing \in Row /\ slipped' = slipped
  BY DEF StatusInv, Typing, P!Start
<1> QED BY <1>1, <1>2, <1>3, StepKeeps

\* The steps of a quota query.
LEMMA QueryKeeps ==
  ASSUME StatusInv, NEW p \in Procs,
         \/ P!Fetch(p) \/ P!Disable(p) \/ P!Snapshot(p) \/ P!Look(p) \/ P!Save(p) \/ P!LookAgain(p) \/ P!Enable(p)
  PROVE  StatusInv'
<1>1. standing \in Row /\ job[p] \in Job /\ Knows(job[p], standing) /\ job[p].seen \in Row
  BY DEF StatusInv, Typing, QueriesKnow, Job
<1>2. job[p].kind = "poll" /\ slipped' = slipped
  BY DEF P!Fetch, P!Disable, P!Snapshot, P!Look, P!Save, P!LookAgain, P!Enable, P!At, P!Quiet
<1>3. P!Idle \in Job /\ \A r \in Row : Knows(P!Idle, r)
  BY DEF P!Idle, P!Fresh, Job, Row, JobKinds, Places, Sources, Knows
<1>4. CASE P!Fetch(p)
  <2>1. CASE spent /\ P!Set(p, [job[p] EXCEPT !.pc = "disable", !.found = "spent"], standing)
    <3> DEFINE j == [job[p] EXCEPT !.pc = "disable", !.found = "spent"]
    <3>1. j \in Job /\ Knows(j, standing)
      BY <1>1, <1>2 DEF Job, Knows, Places
    <3> QED BY <1>1, <1>2, <2>1, <3>1, StepKeeps
  <2>2. CASE ~spent /\ P!Set(p, [job[p] EXCEPT !.pc = "look", !.found = "healthy"], standing)
    <3> DEFINE j == [job[p] EXCEPT !.pc = "look", !.found = "healthy"]
    <3>1. j \in Job /\ Knows(j, standing)
      BY <1>1, <1>2 DEF Job, Knows, Places
    <3> QED BY <1>1, <1>2, <2>2, <3>1, StepKeeps
  <2>3. CASE P!Write(p, "idle", standing)
    BY <1>1, <1>2, <1>3, <2>3, StepKeeps DEF P!Write
  <2> QED BY <1>4, <2>1, <2>2, <2>3 DEF P!Fetch
<1>5. CASE P!Disable(p)
  <2> DEFINE j == [job[p] EXCEPT !.pc = "snapshot"]
  <2> DEFINE r == P!Disabled(standing, "billing")
  <2>1. j \in Job /\ Knows(j, r)
    BY <1>1, <1>2, <1>5 DEF Job, Knows, Places, P!Disable, P!At
  <2>2. r \in Row /\ QuotaOff(r) /\ P!Set(p, j, r)
    BY <1>1, <1>5, PatchesType, PatchesSound DEF P!Disable, P!Write
  <2> QED BY <1>2, <2>1, <2>2, StepKeeps
<1>6. CASE P!Snapshot(p)
  <2>1. P!Exhausted(standing) \in Row /\ QuotaOff(P!Exhausted(standing)) /\ P!Set(p, P!Idle, P!Exhausted(standing))
    BY <1>1, <1>6, PatchesType, PatchesSound DEF P!Snapshot, P!Write
  <2> QED BY <1>2, <1>3, <2>1, StepKeeps
<1>7. CASE P!Look(p)
  <2> DEFINE j == [job[p] EXCEPT !.pc = "save", !.seen = standing]
  <2>1. j \in Job /\ Knows(j, standing)
    BY <1>1, <1>2, <1>7 DEF Job, Knows, Places, P!Look, P!At
  <2> QED BY <1>1, <1>2, <1>7, <2>1, StepKeeps DEF P!Look, P!Read
<1>8. CASE P!Save(p)
  <2> DEFINE j == [job[p] EXCEPT !.pc = "again"]
  <2> DEFINE r == IF P!WasQuota(job[p].seen) THEN P!Recovered(standing) ELSE standing
  <2>1. r \in Row /\ (QuotaOff(standing) => QuotaOff(r)) /\ P!Set(p, j, r)
    BY <1>1, <1>8, PatchesType, PatchesSound DEF P!Save, P!Write
  <2>2. job[p].pc = "save" /\ job[p].found = "healthy" /\ (job[p].alone => job[p].seen = standing)
    BY <1>1, <1>2, <1>8 DEF P!Save, P!At, Knows
  <2>3. job[p].alone => ~r.quota
    BY <1>1, <2>2 DEF P!WasQuota, P!Recovered, Row
  <2>4. j \in Job /\ Knows(j, r)
    BY <1>1, <1>2, <2>2, <2>3 DEF Job, Knows, Places
  <2> QED BY <1>2, <2>1, <2>4, StepKeeps
<1>9. CASE P!LookAgain(p)
  <2> DEFINE j == [job[p] EXCEPT !.pc = "enable", !.seen = standing]
  <2>1. j \in Job /\ Knows(j, standing)
    BY <1>1, <1>2, <1>9 DEF Job, Knows, Places, P!LookAgain, P!At
  <2> QED BY <1>1, <1>2, <1>9, <2>1, StepKeeps DEF P!LookAgain, P!Read
<1>10. CASE P!Enable(p)
  <2> DEFINE r == IF P!StillOut(job[p].seen) THEN P!Recovered(standing) ELSE standing
  <2>1. r \in Row /\ (QuotaOff(standing) => QuotaOff(r)) /\ P!Set(p, P!Idle, r)
    BY <1>1, <1>10, PatchesType, PatchesSound DEF P!Enable, P!Write
  <2> QED BY <1>2, <1>3, <2>1, StepKeeps
<1> QED BY <1>4, <1>5, <1>6, <1>7, <1>8, <1>9, <1>10

\* The steps of requests, probes, renewals and the start of a process.
LEMMA OtherKeeps ==
  ASSUME StatusInv, NEW p \in Procs,
         P!Failure(p) \/ P!Answered(p) \/ P!Reads(p) \/ P!Writes(p) \/ P!GivesUp(p)
  PROVE  StatusInv'
<1>1. standing \in Row /\ job[p] \in Job /\ Knows(job[p], standing) /\ job[p].seen \in Row
  BY DEF StatusInv, Typing, QueriesKnow, Job
<1>2. CASE P!Failure(p)
  <2>1. job[p].kind # "poll" /\ slipped' = slipped
    BY <1>1, <1>2 DEF P!Failure, P!Fails, P!FreeAgain, P!Block, P!Mark, P!Cool, P!At, P!Quiet, Knows
  <2>2. PICK place \in Places, r \in Row : P!Write(p, place, r) /\ (QuotaOff(standing) => QuotaOff(r))
    <3>1. /\ P!Disabled(standing, "billing") \in Row /\ QuotaOff(P!Disabled(standing, "billing"))
          /\ P!Disabled(standing, "health") \in Row /\ QuotaOff(P!Disabled(standing, "health"))
          /\ P!FreeUsage(standing) \in Row /\ QuotaOff(P!FreeUsage(standing))
          /\ P!Cooled(standing) \in Row /\ (QuotaOff(standing) => QuotaOff(P!Cooled(standing)))
      BY <1>1, PatchesType, PatchesSound
    <3>2. \A place \in {"block", "cool"} : P!Goto(p, place) => P!Write(p, place, standing)
      BY DEF P!Goto, P!Write
    <3> QED BY <1>1, <1>2, <3>1, <3>2 DEF P!Failure, P!Fails, P!FreeAgain, P!Block, P!Mark, P!Cool, Places
  <2> QED BY <2>1, <2>2, OtherWrites
<1>3. CASE P!Answered(p)
  <2>1. job[p].kind # "poll" /\ slipped' = slipped /\ P!Write(p, "idle", standing)
    BY <1>3 DEF P!Answered, P!At, P!Quiet
  <2> QED BY <1>1, <2>1, OtherWrites DEF Places
<1>4. CASE P!Reads(p)
  <2> DEFINE j == [job[p] EXCEPT !.pc = "write", !.seen = standing]
  <2>1. job[p].kind # "poll" /\ slipped' = slipped /\ P!Set(p, j, standing)
    BY <1>4 DEF P!Reads, P!Quiet, P!Read
  <2>2. j \in Job /\ Knows(j, standing)
    BY <1>1, <2>1, OtherJobs DEF StatusInv, Places
  <2> QED BY <1>1, <2>1, <2>2, StepKeeps
<1>5. CASE P!Writes(p)
  <2>1. PICK r \in {P!Probed(standing, job[p].seen), P!Renewed(standing, job[p].seen), P!Restarted(standing, job[p].seen)} :
          job[p].kind # "poll" /\ P!Write(p, "idle", r)
    BY <1>5 DEF P!Writes
  <2>2. r \in Row
    <3>1. /\ P!Probed(standing, job[p].seen) \in Row /\ P!Renewed(standing, job[p].seen) \in Row
          /\ P!Restarted(standing, job[p].seen) \in Row
      BY <1>1, PatchesType
    <3> QED BY <2>1, <3>1
  <2>3. ~slipped' => ~slipped /\ job[p].seen.quota = standing.quota
    BY <1>5 DEF P!Writes, P!Slips
  <2>4. ~slipped' => ~slipped /\ (QuotaOff(standing) => QuotaOff(r))
    BY <1>1, <2>1, <2>3, StalePatchesSound
  <2> QED BY <2>1, <2>2, <2>4, OtherWrites DEF Places
<1>6. CASE P!GivesUp(p)
  <2>1. PICK r \in {P!Kicked(standing), P!Removed(standing)} : P!Write(p, "idle", r)
    BY <1>6 DEF P!GivesUp
  <2>2. job[p].kind # "poll" /\ slipped' = slipped
    BY <1>6 DEF P!GivesUp, P!At, P!Quiet
  <2>3. r \in Row /\ QuotaOff(r)
    BY <1>1, <2>1, PatchesType, PatchesSound
  <2> QED BY <2>1, <2>2, <2>3, OtherWrites DEF Places
<1> QED BY <1>2, <1>3, <1>4, <1>5, <1>6

LEMMA AdministerKeeps ==
  ASSUME StatusInv, P!Administer
  PROVE  StatusInv'
<1>1. standing \in Row /\ slipped' = slipped
  BY DEF StatusInv, Typing, P!Administer
<1>2. PICK r \in {P!Switched(standing, TRUE), P!Switched(standing, FALSE), [standing EXCEPT !.cool = FALSE]} :
        standing' = r /\ job' = [q \in Procs |-> [job[q] EXCEPT !.alone = @ /\ r = standing]]
  BY DEF P!Administer
<1>3. r \in Row /\ (QuotaOff(standing) => QuotaOff(r))
  <2>1. [standing EXCEPT !.cool = FALSE] \in Row /\ (QuotaOff(standing) => QuotaOff([standing EXCEPT !.cool = FALSE]))
    BY <1>1 DEF Row, QuotaOff
  <2> QED BY <1>1, <1>2, <2>1, PatchesType, PatchesSound
<1>4. Typing'
  <2>1. \A j \in Job, b \in BOOLEAN : [j EXCEPT !.alone = @ /\ b] \in Job
    BY DEF Job
  <2>2. \A q \in Procs : [job[q] EXCEPT !.alone = @ /\ r = standing] \in Job
    BY <2>1 DEF StatusInv, Typing
  <2> QED BY <1>2, <1>3, <2>2 DEF Typing
<1>5. ASSUME NEW q \in Procs PROVE Knows(job[q], standing)'
  <2>1. job'[q] = [job[q] EXCEPT !.alone = @ /\ r = standing] /\ job[q] \in Job /\ Knows(job[q], standing)
    BY <1>2 DEF StatusInv, Typing, QueriesKnow
  <2> QED BY <1>2, <2>1 DEF Knows, Job
<1>6. P!QuotaKeepsOut'
  BY <1>1, <1>2, <1>3, SoundWrite DEF StatusInv
<1> QED BY <1>4, <1>5, <1>6 DEF StatusInv, QueriesKnow

LEMMA StatusStep == StatusInv /\ [P!Next]_statusVars => StatusInv'
<1> SUFFICES ASSUME StatusInv, [P!Next]_statusVars PROVE StatusInv'
  OBVIOUS
<1>1. CASE P!Administer
  BY <1>1, AdministerKeeps
<1>2. CASE P!Spend \/ UNCHANGED statusVars
  BY <1>2 DEF P!Spend, statusVars, StatusInv, Typing, P!QuotaKeepsOut, QueriesKnow
<1>3. ASSUME NEW p \in Procs, P!Start(p) PROVE StatusInv'
  BY <1>3, StartKeeps
<1>4. ASSUME NEW p \in Procs,
             \/ P!Fetch(p) \/ P!Disable(p) \/ P!Snapshot(p) \/ P!Look(p) \/ P!Save(p) \/ P!LookAgain(p) \/ P!Enable(p)
      PROVE  StatusInv'
  BY <1>4, QueryKeeps
<1>5. ASSUME NEW p \in Procs, P!Failure(p) \/ P!Answered(p) \/ P!Reads(p) \/ P!Writes(p) \/ P!GivesUp(p)
      PROVE  StatusInv'
  BY <1>5, OtherKeeps
<1> QED BY <1>1, <1>2, <1>3, <1>4, <1>5 DEF P!Next

\* A used-up quota keeps the account out of rotation (_apply_quota_disable,
\* clear_account_expired and the probes): no number of queries, requests,
\* probes and renewals enables it, unless one of them has read the row before
\* the quota was noticed.
THEOREM QuotaStaysOut == GatewaySpec => []QuotaKeepsOut
<1>1. StatusInv => QuotaKeepsOut
  BY DEF StatusInv, QuotaKeepsOut
<1>2. GatewayInit => P!Init
  BY DEF GatewayInit
<1> QED BY <1>1, <1>2, PartsStepAlone, StatusInit, StatusStep, PTL DEF GatewaySpec

\* What the last step of an undisturbed query leaves behind.
Settles(p) ==
  (job[p].kind = "poll" /\ job[p].found # "" /\ job'[p] = P!Idle /\ job[p].alone) =>
    IF job[p].found = "spent" THEN standing'.quota /\ ~standing'.enabled
    ELSE ~standing'.quota /\ (marked => standing'.enabled \/ P!Either(standing'.qsource, standing'.dsource) = "renew")

\* Only its own last step ends a query.
LEMMA OwnStepEnds ==
  ASSUME StatusInv, NEW p \in Procs, [P!Next]_statusVars, job[p].kind = "poll", job[p].found # "", job'[p] = P!Idle
  PROVE  P!Snapshot(p) \/ P!Enable(p)
<1>1. job[p] \in Job /\ Knows(job[p], standing) /\ P!Idle.kind = "none"
  BY DEF StatusInv, Typing, QueriesKnow, P!Idle
<1>2. job[p].pc # "begun" /\ job[p].kind # "none"
  BY <1>1 DEF Knows
<1>3. ASSUME NEW q \in Procs, NEW j, NEW r, P!Set(q, j, r) PROVE q = p /\ j = P!Idle
  <2>1. job'[p] = IF p = q THEN j ELSE [job[p] EXCEPT !.alone = @ /\ r = standing]
    BY <1>3 DEF P!Set
  <2>2. [job[p] EXCEPT !.alone = @ /\ r = standing].kind = "poll"
    BY <1>1 DEF Job
  <2> QED BY <1>1, <2>1, <2>2
<1>4. ~P!Administer
  <2> SUFFICES ASSUME P!Administer PROVE FALSE
    OBVIOUS
  <2>1. PICK r : job' = [q \in Procs |-> [job[q] EXCEPT !.alone = @ /\ r = standing]]
    BY DEF P!Administer
  <2>2. job'[p].kind = "poll"
    BY <1>1, <2>1 DEF Job
  <2> QED BY <1>1, <2>2
<1>5. ~P!Spend /\ ~UNCHANGED statusVars
  BY <1>1 DEF P!Spend, statusVars
<1>6. ASSUME NEW q \in Procs, P!Start(q) PROVE FALSE
  <2>1. job[q] = P!Idle /\ \E kind : P!Set(q, [P!Idle EXCEPT !.kind = kind, !.pc = "begun"], standing)
    BY <1>6 DEF P!Start
  <2> QED BY <1>1, <1>3, <2>1
<1>7. ASSUME NEW q \in Procs, P!Failure(q) \/ P!Answered(q) \/ P!Reads(q) \/ P!Writes(q) \/ P!GivesUp(q)
      PROVE  FALSE
  <2>1. \E j, r : P!Set(q, j, r)
    BY <1>7 DEF P!Failure, P!Fails, P!FreeAgain, P!Block, P!Mark, P!Cool, P!Answered, P!Reads, P!Writes, P!GivesUp,
               P!Write, P!Goto, P!Read
  <2>2. q = p
    BY <1>3, <2>1
  <2> QED BY <1>1, <1>2, <1>7, <2>2 DEF Knows, P!Failure, P!Fails, P!FreeAgain, P!Block, P!Mark, P!Cool,
                                        P!Answered, P!Reads, P!Writes, P!GivesUp, P!At
<1>8. ASSUME NEW q \in Procs, P!Fetch(q) \/ P!Disable(q) \/ P!Look(q) \/ P!Save(q) \/ P!LookAgain(q)
      PROVE  FALSE
  <2>1. PICK j, r : P!Set(q, j, r)
    BY <1>8 DEF P!Fetch, P!Disable, P!Look, P!Save, P!LookAgain, P!Write, P!Read
  <2>2. q = p /\ ~P!Fetch(q)
    BY <1>2, <1>3, <2>1 DEF P!Fetch, P!At
  <2>3. \E place \in {"snapshot", "save", "again", "enable"} : \E read, r1 :
          \/ P!Set(p, [job[p] EXCEPT !.pc = place], r1)
          \/ P!Set(p, [job[p] EXCEPT !.pc = place, !.seen = read], r1)
    BY <1>8, <2>2 DEF P!Disable, P!Look, P!Save, P!LookAgain, P!Write, P!Read
  <2>4. \E place \in {"snapshot", "save", "again", "enable"} : \E read :
          [job[p] EXCEPT !.pc = place] = P!Idle \/ [job[p] EXCEPT !.pc = place, !.seen = read] = P!Idle
    BY <1>3, <2>3
  <2> QED BY <1>1, <1>2, <2>4 DEF Job
<1>9. PICK q \in Procs : P!Snapshot(q) \/ P!Enable(q)
  BY <1>4, <1>5, <1>6, <1>7, <1>8 DEF P!Next
<1>10. \E j, r : P!Set(q, j, r)
  BY <1>9 DEF P!Snapshot, P!Enable, P!Write
<1> QED BY <1>3, <1>9, <1>10

\* A quota query nobody disturbs settles the row (maybe_disable_from_quota_
\* result after save_quota_snapshot): out and marked, or without the mark and,
\* unless a renewal has given the account up, in.
THEOREM QueriesSettle == GatewaySpec => PollSettles
<1>1. ASSUME StatusInv, [P!Next]_statusVars, NEW p \in Procs PROVE Settles(p)
  <2> SUFFICES ASSUME job[p].kind = "poll", job[p].found # "", job'[p] = P!Idle, job[p].alone
               PROVE  Settles(p)
    BY DEF Settles
  <2>1. standing \in Row /\ Knows(job[p], standing)
    BY <1>1 DEF StatusInv, Typing, QueriesKnow
  <2>2. CASE P!Snapshot(p)
    <3>1. job[p].found = "spent" /\ standing' = P!Exhausted(standing)
      BY <2>1, <2>2 DEF P!Snapshot, P!At, Knows, P!Write, P!Set
    <3> QED BY <2>1, <3>1 DEF Settles, P!Exhausted, Row
  <2>3. CASE P!Enable(p)
    <3>1. job[p].found = "healthy" /\ job[p].seen = standing /\ ~standing.quota
      BY <2>1, <2>3 DEF P!Enable, P!At, Knows
    <3>2. standing' = IF P!StillOut(standing) THEN P!Recovered(standing) ELSE standing
      BY <2>3, <3>1 DEF P!Enable, P!Write, P!Set
    <3>3. CASE P!StillOut(standing)
      BY <2>1, <3>1, <3>2, <3>3 DEF Settles, P!Recovered, Row
    <3>4. CASE ~P!StillOut(standing)
      BY <2>1, <3>1, <3>2, <3>4 DEF Settles, P!StillOut, Row
    <3> QED BY <3>3, <3>4
  <2> QED BY <1>1, <2>2, <2>3, OwnStepEnds
<1>2. StatusInv /\ [P!Next]_statusVars => [\A p \in Procs : Settles(p)]_statusVars
  BY <1>1
<1>3. GatewayInit => P!Init
  BY DEF GatewayInit
<1>4. GatewaySpec => [][\A p \in Procs : Settles(p)]_statusVars
  BY <1>2, <1>3, PartsStepAlone, StatusInit, StatusStep, PTL DEF GatewaySpec
<1> QED BY <1>4 DEF PollSettles, P!PollSettles, Settles, statusVars, P!svars
-----------------------------------------------------------------------------
(* The bindings of one conversation: any accounts, turns and overlaps.  What *)
(* a Responses turn finds under an earlier answer is what that answer was    *)
(* given, and a turn that nobody overlaps knows what the session leads to.   *)
Binding == [account : Accounts \cup {Nobody}, key : Exchanges \cup {0}]
Stages == {"new", "chain", "touchChain", "session", "touch", "alias", "pick", "trying", "open",
           "rebind", "rebound", "bind", "link", "done", "failed"}
Exchange == [pc : Stages, kind : A!Kinds, prev : Exchanges \cup {0}, key : Exchanges \cup {0},
             copy : Binding, prefer : Accounts \cup {Nobody}, first : Accounts \cup {Nobody},
             tried : SUBSET Accounts, at : Accounts \cup {Nobody}, told : BOOLEAN, alone : BOOLEAN]
Bindings == [A!Keys -> Binding]
BindingTyping ==
  /\ entry \in Bindings /\ turn \in [Exchanges -> Exchange]
  /\ lost \in BOOLEAN /\ lastTurn \in Exchanges \cup {0}

Beyond == {"open", "rebind", "rebound", "bind", "link", "done"}
Streams(r) == r.kind = [responses |-> TRUE, stream |-> TRUE]

\* What holds of a turn's record, of the entry of its own answer and of the
\* key of the turn whose answer it names.
Fits(r, own, past, named) ==
  /\ r.pc \in {"trying", "open", "rebind", "rebound", "bind", "link"} => r.at # Nobody
  /\ r.told => r.pc \in Beyond \ {"open"}
  /\ r.pc \in {"chain", "touchChain"} => r.prev # 0
  /\ r.pc = "touchChain" => r.copy # A!Unbound /\ r.copy.key = named
  /\ own # A!Unbound => own.key = r.key /\ r.pc \in Beyond \cup {"failed"}
  /\ ~past /\ r.kind.responses /\ (r.told \/ (Streams(r) /\ r.pc \in Beyond)) => own # A!Unbound
  /\ ~past /\ r.prev # 0 /\ r.pc \notin {"new", "chain"} => r.key = named
Recovers(f, e, past, t) ==
  /\ f[t].prev # 0 => f[f[t].prev].told /\ f[f[t].prev].kind.responses
  /\ Fits(f[t], e[A!Chain(t)], past, f[f[t].prev].key)

KeyInv == BindingTyping /\ \A t \in Exchanges : Recovers(turn, entry, lost, t)

\* Two entries are one only if they are of one kind and number.
LEMMA EntriesApart ==
  /\ \A t \in Exchanges : A!Chain(t) \in A!Keys
  /\ \A n \in Exchanges \cup {0} : A!Session(n) \in A!Keys
  /\ \A t, n : A!Chain(t) # A!Session(n)
  /\ \A t, u : A!Chain(t) = A!Chain(u) => t = u
  /\ \A t, u : A!Session(t) = A!Session(u) => t = u
BY DEF A!Keys, A!Chain, A!Session

LEMMA BindingTypes ==
  /\ A!Unbound \in Binding /\ A!Unbound.account = Nobody
  /\ A!Unstarted \in Exchange
  /\ \A a \in Accounts, n \in Exchanges \cup {0} : [account |-> a, key |-> n] # A!Unbound
BY ExchangesCount DEF A!Unbound, Binding, A!Unstarted, Exchange, A!Kinds, Stages

\* Records that differ at most in whether their turn was alone.
Like(a, b) == a = [b EXCEPT !.alone = a.alone]

\* A turn that was told its id keeps its key, so that the others, which may
\* name it, are as they were.
LEMMA OthersRecover ==
  ASSUME KeyInv, NEW t \in Exchanges, NEW f \in [Exchanges -> Exchange], NEW e \in Bindings,
         \A u \in Exchanges \ {t} : Like(f[u], turn[u]),
         turn[t].told => f[t].told /\ f[t].key = turn[t].key /\ f[t].kind = turn[t].kind,
         \A u \in Exchanges \ {t} :
           \/ e[A!Chain(u)] = entry[A!Chain(u)]
           \/ e[A!Chain(u)] # A!Unbound /\ e[A!Chain(u)].key = turn[u].key /\ turn[u].told,
         Recovers(f, e, lost, t)
  PROVE  \A u \in Exchanges : Recovers(f, e, lost, u)
<1> SUFFICES ASSUME NEW u \in Exchanges, u # t PROVE Recovers(f, e, lost, u)
  OBVIOUS
<1>1. Recovers(turn, entry, lost, u)
  BY DEF KeyInv
<1>2. /\ f[u].pc = turn[u].pc /\ f[u].kind = turn[u].kind /\ f[u].prev = turn[u].prev
      /\ f[u].key = turn[u].key /\ f[u].copy = turn[u].copy /\ f[u].at = turn[u].at
      /\ f[u].told = turn[u].told
  <2>1. f[u] = [turn[u] EXCEPT !.alone = f[u].alone] /\ turn[u] \in Exchange
    BY DEF Like, KeyInv, BindingTyping
  <2> QED BY <2>1 DEF Exchange
<1>3. ASSUME turn[u].prev # 0, NEW w, w = turn[u].prev
      PROVE  /\ turn[w].told /\ turn[w].kind.responses
             /\ f[w].told /\ f[w].kind.responses /\ f[w].key = turn[w].key
  <2>1. w \in Exchanges /\ turn[w].told /\ turn[w].kind.responses
    BY <1>1, <1>3 DEF Recovers, KeyInv, BindingTyping, Exchange
  <2>2. CASE w = t
    BY <2>1, <2>2
  <2>3. CASE w # t
    <3>1. f[w] = [turn[w] EXCEPT !.alone = f[w].alone] /\ turn[w] \in Exchange
      BY <2>1, <2>3 DEF Like, KeyInv, BindingTyping
    <3> QED BY <2>1, <3>1 DEF Exchange
  <2> QED BY <2>2, <2>3
<1>4. Fits(f[u], e[A!Chain(u)], lost, f[f[u].prev].key)
  <2>1. Fits(turn[u], entry[A!Chain(u)], lost, turn[turn[u].prev].key)
    BY <1>1 DEF Recovers
  <2>2. /\ turn[u].told => turn[u].pc \in Beyond
        /\ Streams(f[u]) = Streams(turn[u])
    BY <1>2, <2>1 DEF Fits, Streams
  <2> QED BY <1>1, <1>2, <1>3, <2>1, <2>2 DEF Recovers, Fits
<1> QED BY <1>1, <1>2, <1>3, <1>4 DEF Recovers

\* A turn goes on from one record to the next.
LEMMA GoesOn ==
  ASSUME KeyInv, NEW t \in Exchanges, NEW r \in Exchange, NEW e \in Bindings,
         turn' = [turn EXCEPT ![t] = r], entry' = e, lost' = lost, lastTurn' \in Exchanges \cup {0},
         r.prev = turn[t].prev, r.kind = turn[t].kind,
         turn[t].told => r.told /\ r.key = turn[t].key,
         \A u \in Exchanges \ {t} :
           \/ e[A!Chain(u)] = entry[A!Chain(u)]
           \/ e[A!Chain(u)] # A!Unbound /\ e[A!Chain(u)].key = turn[u].key /\ turn[u].told,
         Fits(r, e[A!Chain(t)], lost, turn[r.prev].key)
  PROVE  KeyInv'
<1> DEFINE f == [turn EXCEPT ![t] = r]
<1>1. f \in [Exchanges -> Exchange] /\ f[t] = r /\ \A u \in Exchanges \ {t} : f[u] = turn[u]
  BY DEF KeyInv, BindingTyping
<1>2. \A u \in Exchanges \ {t} : Like(f[u], turn[u])
  BY <1>1 DEF Like, KeyInv, BindingTyping, Exchange
<1>3. r.prev # 0 => /\ turn[r.prev].told /\ turn[r.prev].kind.responses
                    /\ f[r.prev].told /\ f[r.prev].kind.responses /\ f[r.prev].key = turn[r.prev].key
  BY <1>1 DEF KeyInv, Recovers, BindingTyping, Exchange
<1>4. Recovers(f, e, lost, t)
  BY <1>1, <1>3 DEF Recovers, Fits
<1>5. turn[t].told => f[t].told /\ f[t].key = turn[t].key /\ f[t].kind = turn[t].kind
  BY <1>1
<1>6. turn' = f /\ BindingTyping'
  BY <1>1 DEF KeyInv, BindingTyping
<1> HIDE DEF f
<1>7. \A u \in Exchanges : Recovers(f, e, lost, u)
  BY <1>1, <1>2, <1>4, <1>5, OthersRecover
<1> QED BY <1>6, <1>7 DEF KeyInv

\* The steps that leave the entries as they are.
LEMMA ReadsRecover ==
  ASSUME KeyInv, NEW t \in Exchanges,
         \/ A!ReadChain(t) \/ A!ReadSession(t) \/ A!NoneLeft(t) \/ A!Refused(t) \/ A!Broken(t)
         \/ A!Answer(t) \/ A!ReadPin(t) \/ \E a \in Accounts : A!Try(t, a)
  PROVE  KeyInv'
<1> DEFINE own == entry[A!Chain(t)]
           named == turn[turn[t].prev].key
<1>1. /\ turn[t] \in Exchange /\ entry \in Bindings /\ lastTurn \in Exchanges \cup {0}
      /\ Recovers(turn, entry, lost, t)
  BY DEF KeyInv, BindingTyping
<1>2. Fits(turn[t], own, lost, named)
  BY <1>1 DEF Recovers
<1>3. /\ A!Session(turn[t].key) \in A!Keys
      /\ turn[t].prev # 0 => A!Chain(turn[t].prev) \in A!Keys
  BY <1>1, EntriesApart DEF Exchange
<1> HIDE DEF own, named
<1>4. ASSUME NEW r \in Exchange, turn' = [turn EXCEPT ![t] = r], entry' = entry, lost' = lost, lastTurn' = lastTurn,
             r.prev = turn[t].prev, r.kind = turn[t].kind,
             turn[t].told => r.told /\ r.key = turn[t].key,
             Fits(r, own, lost, named)
      PROVE  KeyInv'
  <2>1. Fits(r, entry[A!Chain(t)], lost, turn[r.prev].key)
    BY <1>4 DEF own, named
  <2> QED BY <1>1, <1>4, <2>1, GoesOn
<1>5. CASE A!ReadChain(t)
  <2> DEFINE found == entry[A!Chain(turn[t].prev)]
  <2>1. turn[t].pc = "chain" /\ turn[t].prev # 0 /\ ~turn[t].told
    BY <1>2, <1>5 DEF A!ReadChain, Fits, Beyond
  <2>2. /\ turn[t].prev \in Exchanges /\ turn[turn[t].prev].told /\ turn[turn[t].prev].kind.responses
        /\ Recovers(turn, entry, lost, turn[t].prev)
    BY <1>1, <2>1 DEF Recovers, Exchange, KeyInv
  <2>3. found \in Binding /\ (~lost => found # A!Unbound) /\ (found # A!Unbound => found.key = named)
    BY <1>1, <1>3, <2>1, <2>2 DEF Recovers, Fits, named, Bindings
  <2> HIDE DEF found
  <2>4. CASE found = A!Unbound
    <3> DEFINE r == [turn[t] EXCEPT !.pc = "session"]
    <3>1. turn' = [turn EXCEPT ![t] = r] /\ entry' = entry /\ lost' = lost /\ lastTurn' = lastTurn
      BY <1>5, <2>4 DEF A!ReadChain, A!Step, A!To, A!Quiet, found
    <3>2. r \in Exchange /\ Fits(r, own, lost, named)
      BY <1>1, <1>2, <2>1, <2>3, <2>4 DEF Exchange, Stages, Fits, Streams, Beyond
    <3> QED BY <1>1, <1>4, <3>1, <3>2 DEF Exchange
  <2>5. CASE found # A!Unbound
    <3> DEFINE r == [turn[t] EXCEPT !.pc = "touchChain", !.copy = found, !.key = found.key]
    <3>1. turn' = [turn EXCEPT ![t] = r] /\ entry' = entry /\ lost' = lost /\ lastTurn' = lastTurn
      BY <1>5, <2>5 DEF A!ReadChain, A!Step, A!To, A!Quiet, found
    <3>2. r \in Exchange /\ Fits(r, own, lost, named)
      BY <1>1, <1>2, <2>1, <2>3, <2>5 DEF Exchange, Stages, Fits, Streams, Beyond, Binding
    <3> QED BY <1>1, <1>4, <2>1, <3>1, <3>2 DEF Exchange
  <2> QED BY <2>4, <2>5
<1>6. CASE A!ReadSession(t)
  <2> DEFINE found == entry[A!Session(turn[t].key)]
  <2>1. found \in Binding
    BY <1>1, <1>3 DEF Bindings
  <2> DEFINE r == [turn[t] EXCEPT !.pc = IF found = A!Unbound THEN "pick" ELSE "touch",
                                  !.copy = found, !.prefer = found.account]
  <2>2. turn' = [turn EXCEPT ![t] = r] /\ entry' = entry /\ lost' = lost /\ lastTurn' = lastTurn
    BY <1>6 DEF A!ReadSession, A!To, A!Quiet
  <2>3. turn[t].pc = "session"
    BY <1>6 DEF A!ReadSession
  <2> HIDE DEF found
  <2>4. r \in Exchange
    BY <1>1, <2>1 DEF Exchange, Stages, Binding
  <2>5. /\ r.pc \in {"pick", "touch"} /\ r.at = turn[t].at /\ r.kind = turn[t].kind
        /\ r.prev = turn[t].prev /\ r.key = turn[t].key /\ r.told = turn[t].told
    BY <1>1 DEF Exchange
  <2> HIDE DEF r
  <2>6. Fits(r, own, lost, named)
    BY <1>2, <2>3, <2>5 DEF Fits, Streams, Beyond
  <2> QED BY <1>4, <2>2, <2>4, <2>5, <2>6
<1>7. CASE A!NoneLeft(t) \/ A!Refused(t) \/ A!Broken(t)
  <2>1. PICK where \in {"pick", "failed"} :
          /\ turn' = [turn EXCEPT ![t] = [turn[t] EXCEPT !.pc = where]]
          /\ where = "failed" \/ turn[t].pc = "trying"
    <3>1. CASE A!NoneLeft(t)
      BY <3>1 DEF A!NoneLeft, A!Step, A!To
    <3>2. CASE A!Broken(t)
      BY <3>2 DEF A!Broken, A!Step, A!To
    <3>3. CASE A!Refused(t)
      <4>1. /\ turn[t].pc = "trying"
            /\ A!Step(t, IF A!Cardinality(turn[t].tried) < Attempts THEN "pick" ELSE "failed")
        BY <3>3 DEF A!Refused
      <4> QED BY <4>1 DEF A!Step, A!To
    <3> QED BY <1>7, <3>1, <3>2, <3>3
  <2>2. entry' = entry /\ lost' = lost /\ lastTurn' = lastTurn /\ turn[t].pc \in {"pick", "trying", "open"}
    BY <1>7 DEF A!NoneLeft, A!Refused, A!Broken, A!Quiet
  <2> DEFINE r == [turn[t] EXCEPT !.pc = where]
  <2>3. r \in Exchange /\ Fits(r, own, lost, named)
    BY <1>1, <1>2, <2>1, <2>2 DEF Exchange, Stages, Fits, Streams, Beyond
  <2> QED BY <1>1, <1>4, <2>1, <2>2, <2>3 DEF Exchange
<1>8. CASE A!Answer(t)
  <2>1. PICK where \in {"rebind", "bind"} :
          turn' = [turn EXCEPT ![t] = [turn[t] EXCEPT !.pc = where, !.told = @ \/ turn[t].kind.stream]]
    BY <1>8 DEF A!Answer, A!To
  <2>2. /\ entry' = entry /\ lost' = lost /\ lastTurn' = lastTurn
        /\ turn[t].pc = IF Streams(turn[t]) THEN "open" ELSE "trying"
    BY <1>8 DEF A!Answer, A!Quiet, Streams
  <2> DEFINE now == turn[t].told \/ turn[t].kind.stream
             r == [turn[t] EXCEPT !.pc = where, !.told = now]
  <2>3. r \in Exchange
    <3>1. now \in BOOLEAN /\ where \in Stages
      BY DEF Stages
    <3> HIDE DEF now
    <3> QED BY <1>1, <3>1 DEF Exchange
  <2>4. Streams(turn[t]) <=> (turn[t].kind.responses /\ turn[t].kind.stream)
    <3>1. turn[t].kind \in [responses : BOOLEAN, stream : BOOLEAN]
      BY <1>1 DEF Exchange, A!Kinds
    <3>2. ASSUME turn[t].kind.responses /\ turn[t].kind.stream PROVE Streams(turn[t])
      <4>1. turn[t].kind.responses = TRUE /\ turn[t].kind.stream = TRUE
        BY <3>1, <3>2
      <4> QED BY <3>1, <4>1 DEF Streams
    <3> QED BY <3>2 DEF Streams
  <2>5. Fits(r, own, lost, named)
    BY <1>1, <1>2, <2>2, <2>4 DEF Exchange, Fits, Streams, Beyond
  <2> QED BY <1>1, <1>4, <2>1, <2>2, <2>3, <2>5 DEF Exchange
<1>9. CASE A!ReadPin(t)
  <2> DEFINE r == [turn[t] EXCEPT !.pc = "rebound", !.copy = entry[A!Session(turn[t].key)]]
  <2>1. /\ turn' = [turn EXCEPT ![t] = r] /\ entry' = entry /\ lost' = lost /\ lastTurn' = lastTurn
        /\ turn[t].pc = "rebind"
    BY <1>9 DEF A!ReadPin, A!To, A!Quiet
  <2>2. entry[A!Session(turn[t].key)] \in Binding
    BY <1>1, <1>3 DEF Bindings
  <2>3. r \in Exchange
    BY <1>1, <2>2 DEF Exchange, Stages
  <2>4. /\ r.pc = "rebound" /\ r.at = turn[t].at /\ r.kind = turn[t].kind
        /\ r.prev = turn[t].prev /\ r.key = turn[t].key /\ r.told = turn[t].told
    BY <1>1 DEF Exchange
  <2> HIDE DEF r
  <2>5. Fits(r, own, lost, named)
    BY <1>2, <2>1, <2>4 DEF Fits, Streams, Beyond
  <2> QED BY <1>4, <2>1, <2>3, <2>4, <2>5
<1>10. ASSUME NEW a \in Accounts, A!Try(t, a) PROVE KeyInv'
  <2> DEFINE r == [turn[t] EXCEPT !.pc = "trying", !.at = a, !.tried = @ \union {a},
                                  !.first = IF @ = Nobody THEN a ELSE @]
  <2>1. /\ turn' = [turn EXCEPT ![t] = r] /\ entry' = entry /\ lost' = lost /\ lastTurn' = lastTurn
        /\ turn[t].pc = "pick"
    BY <1>10 DEF A!Try, A!To, A!Quiet
  <2>2. r \in Exchange /\ Fits(r, own, lost, named)
    BY <1>1, <1>2, <1>10, <2>1, ExchangesCount DEF Exchange, Stages, Fits, Streams, Beyond
  <2> QED BY <1>1, <1>4, <2>1, <2>2 DEF Exchange
<1> QED BY <1>5, <1>6, <1>7, <1>8, <1>9, <1>10

\* The steps that write an entry: a turn refreshes the entry it read, binds
\* its session, or links its answer.
LEMMA WritesRecover ==
  ASSUME KeyInv, NEW t \in Exchanges,
         A!TouchChain(t) \/ A!Touch(t) \/ A!Open(t) \/ A!Rebind(t) \/ A!Bind(t) \/ A!Link(t)
  PROVE  KeyInv'
<1> DEFINE named == turn[turn[t].prev].key
           session == A!Session(turn[t].key)
           mine == A!Chain(t)
<1>1. /\ turn[t] \in Exchange /\ entry \in Bindings /\ lastTurn \in Exchanges \cup {0}
      /\ Recovers(turn, entry, lost, t)
  BY DEF KeyInv, BindingTyping
<1>2. Fits(turn[t], entry[mine], lost, named)
  BY <1>1 DEF Recovers
<1>3. /\ session \in A!Keys /\ mine \in A!Keys
      /\ turn[t].prev # 0 => A!Chain(turn[t].prev) \in A!Keys
      /\ \A u : A!Chain(u) # session
      /\ \A u \in Exchanges \ {t} : A!Chain(u) # mine
  BY <1>1, EntriesApart DEF Exchange
<1>c. \A u \in Exchanges : A!Chain(u) \in A!Keys
  BY EntriesApart
<1> HIDE DEF session, mine
<1>4. ASSUME NEW r \in Exchange, NEW e \in Bindings, turn' = [turn EXCEPT ![t] = r], entry' = e,
             lost' = lost, lastTurn' \in {lastTurn, t},
             r.prev = turn[t].prev, r.kind = turn[t].kind, turn[t].told => r.told,
             r.key = turn[t].key,
             \A u \in Exchanges \ {t} :
               \/ e[A!Chain(u)] = entry[A!Chain(u)]
               \/ e[A!Chain(u)] # A!Unbound /\ e[A!Chain(u)].key = turn[u].key /\ turn[u].told,
             Fits(r, e[mine], lost, named)
      PROVE  KeyInv'
  <2>1. Fits(r, e[A!Chain(t)], lost, turn[r.prev].key)
    BY <1>4 DEF mine
  <2> QED BY <1>1, <1>4, <2>1, GoesOn
<1>5. CASE A!TouchChain(t)
  <2> DEFINE old == A!Chain(turn[t].prev)
             e == [entry EXCEPT ![old] = turn[t].copy]
             r == [turn[t] EXCEPT !.pc = "session"]
  <2>1. /\ turn[t].pc = "touchChain" /\ turn' = [turn EXCEPT ![t] = r] /\ entry' = e
        /\ lost' = lost /\ lastTurn' = lastTurn
    BY <1>5 DEF A!TouchChain, A!Step, A!To, A!Quiet
  <2>2. /\ turn[t].prev \in Exchanges /\ turn[turn[t].prev].told /\ turn[turn[t].prev].kind.responses
        /\ turn[t].copy # A!Unbound /\ turn[t].copy.key = named
        /\ Recovers(turn, entry, lost, turn[t].prev) /\ ~turn[t].told
    BY <1>1, <1>2, <2>1 DEF Fits, Recovers, Exchange, KeyInv, Beyond
  <2>3. turn[t].prev # t /\ old \in A!Keys /\ old # mine
    BY <1>3, <2>2, EntriesApart DEF mine
  <2>4. e \in Bindings /\ e[mine] = entry[mine]
    BY <1>1, <1>3, <2>3 DEF Bindings, Exchange
  <2>5. ASSUME NEW u \in Exchanges \ {t}
        PROVE  \/ e[A!Chain(u)] = entry[A!Chain(u)]
               \/ e[A!Chain(u)] # A!Unbound /\ e[A!Chain(u)].key = turn[u].key /\ turn[u].told
    <3>1. A!Chain(u) \in A!Keys /\ (A!Chain(u) = old => u = turn[t].prev)
      BY EntriesApart
    <3> QED BY <1>1, <2>2, <3>1 DEF Bindings
  <2>6. r \in Exchange /\ Fits(r, entry[mine], lost, named)
    BY <1>1, <1>2, <2>1 DEF Exchange, Stages, Fits, Streams, Beyond
  <2>7. r.prev = turn[t].prev /\ r.kind = turn[t].kind /\ r.told = turn[t].told /\ r.key = turn[t].key
    BY <1>1 DEF Exchange
  <2> HIDE DEF e, r
  <2> QED BY <1>4, <2>1, <2>4, <2>5, <2>6, <2>7
<1>6. ASSUME NEW b \in Binding, NEW where \in Stages, NEW r \in Exchange,
             turn' = [turn EXCEPT ![t] = r],
             entry' = entry \/ entry' = [entry EXCEPT ![session] = b],
             lost' = lost, lastTurn' \in {lastTurn, t},
             r.prev = turn[t].prev, r.kind = turn[t].kind, turn[t].told => r.told,
             r.key = turn[t].key, Fits(r, entry[mine], lost, named)
      PROVE  KeyInv'
  <2>1. entry' \in Bindings /\ \A u \in Exchanges : entry'[A!Chain(u)] = entry[A!Chain(u)]
    BY <1>1, <1>3, <1>c, <1>6 DEF Bindings
  <2>2. entry'[mine] = entry[mine]
    BY <2>1 DEF mine
  <2> QED BY <1>4, <1>6, <2>1, <2>2
<1>7. ASSUME NEW r \in Exchange, turn' = [turn EXCEPT ![t] = r], entry' = A!Linked(t, entry),
             lost' = lost, lastTurn' \in {lastTurn, t}, turn[t].at # Nobody,
             r.prev = turn[t].prev, r.kind = turn[t].kind, turn[t].told => r.told,
             r.key = turn[t].key, r.at = turn[t].at,
             r.pc \in {"open", "done"}, turn[t].pc \notin {"new", "chain", "touchChain"},
             r.told => r.pc = "done"
      PROVE  KeyInv'
  <2> DEFINE pin == [account |-> turn[t].at, key |-> turn[t].key]
  <2>1. entry' = [entry EXCEPT ![mine] = pin, ![session] = pin]
    BY <1>7 DEF A!Linked, session, mine
  <2>2. pin \in Binding /\ pin # A!Unbound /\ pin.key = turn[t].key
    BY <1>1, <1>7, BindingTypes DEF Binding, Exchange
  <2> HIDE DEF pin
  <2>3. /\ entry' \in Bindings /\ entry'[mine] = pin
        /\ \A u \in Exchanges \ {t} : entry'[A!Chain(u)] = entry[A!Chain(u)]
    BY <1>1, <1>3, <1>c, <2>1, <2>2 DEF Bindings
  <2>4. Fits(r, entry'[mine], lost, named)
    BY <1>2, <1>7, <2>2, <2>3 DEF Fits, Beyond
  <2> QED BY <1>4, <1>7, <2>3, <2>4
<1>8. CASE A!Touch(t)
  <2> DEFINE where == IF turn[t].pc = "touch" /\ turn[t].kind.responses THEN "alias" ELSE "pick"
             r == [turn[t] EXCEPT !.pc = where]
  <2>1. /\ turn[t].pc \in {"touch", "alias"} /\ turn' = [turn EXCEPT ![t] = r]
        /\ entry' = [entry EXCEPT ![session] = turn[t].copy] /\ lost' = lost /\ lastTurn' = lastTurn
    BY <1>8 DEF A!Touch, A!Step, A!To, A!Quiet, session
  <2>2. where \in {"alias", "pick"}
    OBVIOUS
  <2> HIDE DEF where
  <2>3. r \in Exchange /\ Fits(r, entry[mine], lost, named) /\ turn[t].copy \in Binding /\ where \in Stages
    BY <1>1, <1>2, <2>1, <2>2 DEF Exchange, Stages, Fits, Streams, Beyond
  <2>4. r.prev = turn[t].prev /\ r.kind = turn[t].kind /\ r.told = turn[t].told /\ r.key = turn[t].key
    BY <1>1 DEF Exchange
  <2> HIDE DEF r
  <2> QED BY <1>6, <2>1, <2>3, <2>4
<1>9. CASE A!Open(t)
  <2> DEFINE r == [turn[t] EXCEPT !.pc = "open"]
  <2>1. /\ turn[t].pc = "trying" /\ turn' = [turn EXCEPT ![t] = r]
        /\ entry' = A!Linked(t, entry) /\ lost' = lost /\ lastTurn' = lastTurn
    BY <1>9 DEF A!Open, A!Step, A!To, A!Quiet
  <2>2. r \in Exchange /\ ~turn[t].told /\ turn[t].at # Nobody
    BY <1>1, <1>2, <2>1 DEF Exchange, Stages, Fits, Beyond
  <2>3. /\ r.prev = turn[t].prev /\ r.kind = turn[t].kind /\ r.told = turn[t].told /\ r.key = turn[t].key
        /\ r.at = turn[t].at /\ r.pc = "open"
    BY <1>1 DEF Exchange
  <2> HIDE DEF r
  <2> QED BY <1>7, <2>1, <2>2, <2>3
<1>10. ASSUME NEW b \in Binding, turn[t].pc \in {"rebound", "bind"}, A!Bound(t),
              entry' = entry \/ entry' = [entry EXCEPT ![session] = b],
              lost' = lost, lastTurn' \in {lastTurn, t}
       PROVE  KeyInv'
  <2> DEFINE where == IF turn[t].kind.responses THEN "link" ELSE "done"
             r == [turn[t] EXCEPT !.pc = where, !.told = @ \/ ~turn[t].kind.responses]
  <2>1. turn' = [turn EXCEPT ![t] = r]
    BY <1>10 DEF A!Bound, A!To
  <2>2. where \in {"link", "done"} /\ (where = "done" => ~turn[t].kind.responses)
    OBVIOUS
  <2>3. turn[t].kind.responses \in BOOLEAN
    BY <1>1 DEF Exchange, A!Kinds
  <2> HIDE DEF where
  <2>4. r \in Exchange
    BY <1>1, <2>2, <2>3 DEF Exchange, Stages
  <2>5. Fits(r, entry[mine], lost, named)
    BY <1>1, <1>2, <1>10, <2>2, <2>3 DEF Exchange, Fits, Streams, Beyond
  <2>6. /\ r.prev = turn[t].prev /\ r.kind = turn[t].kind /\ turn[t].told => r.told
        /\ r.key = turn[t].key
    BY <1>1 DEF Exchange
  <2>7. "done" \in Stages /\ r.prev = turn[t].prev /\ r.kind = turn[t].kind
    BY <1>1 DEF Stages, Exchange
  <2> HIDE DEF r
  <2> QED BY <1>6, <1>10, <2>1, <2>4, <2>5, <2>6, <2>7
<1>11. CASE A!Rebind(t)
  <2>1. /\ turn[t].pc = "rebound" /\ lost' = lost
        /\ entry' = entry \/ entry' = [entry EXCEPT ![session] = turn[t].copy]
    BY <1>11 DEF A!Rebind, session
  <2>2. turn[t].copy \in Binding
    BY <1>1 DEF Exchange
  <2>3. CASE A!Moves(t)
    <3> DEFINE r == [turn[t] EXCEPT !.pc = "bind"]
    <3>1. turn' = [turn EXCEPT ![t] = r] /\ lastTurn' = lastTurn
      BY <1>11, <2>3 DEF A!Rebind, A!Step, A!To
    <3>2. r \in Exchange /\ Fits(r, entry[mine], lost, named) /\ "bind" \in Stages
      BY <1>1, <1>2, <2>1 DEF Exchange, Stages, Fits, Streams, Beyond
    <3>3. r.prev = turn[t].prev /\ r.kind = turn[t].kind /\ r.told = turn[t].told /\ r.key = turn[t].key
      BY <1>1 DEF Exchange
    <3> HIDE DEF r
    <3> QED BY <1>6, <2>1, <2>2, <3>1, <3>2, <3>3
  <2>4. CASE ~A!Moves(t)
    <3>1. A!Bound(t) /\ lastTurn' \in {lastTurn, t}
      BY <1>11, <2>4 DEF A!Rebind, A!Ended
    <3> QED BY <1>10, <2>1, <2>2, <3>1
  <2> QED BY <2>3, <2>4
<1>12. CASE A!Bind(t)
  <2> DEFINE b == [account |-> turn[t].at, key |-> turn[t].key]
  <2>1. /\ turn[t].pc = "bind" /\ A!Bound(t) /\ lastTurn' \in {lastTurn, t} /\ lost' = lost
        /\ entry' = [entry EXCEPT ![session] = b]
    BY <1>12 DEF A!Bind, A!Ended, session
  <2>2. b \in Binding
    BY <1>1 DEF Binding, Exchange
  <2> HIDE DEF b
  <2> QED BY <1>10, <2>1, <2>2
<1>13. CASE A!Link(t)
  <2> DEFINE r == [turn[t] EXCEPT !.pc = "done", !.told = TRUE]
  <2>1. /\ turn[t].pc = "link" /\ turn' = [turn EXCEPT ![t] = r] /\ lastTurn' = t
        /\ entry' = A!Linked(t, entry) /\ lost' = lost
    BY <1>13 DEF A!Link, A!To
  <2>2. r \in Exchange /\ turn[t].at # Nobody
    BY <1>1, <1>2, <2>1 DEF Exchange, Stages, Fits
  <2>3. /\ r.prev = turn[t].prev /\ r.kind = turn[t].kind /\ r.told /\ r.key = turn[t].key
        /\ r.at = turn[t].at /\ r.pc = "done"
    BY <1>1 DEF Exchange
  <2> HIDE DEF r
  <2> QED BY <1>7, <2>1, <2>2, <2>3
<1> QED BY <1>5, <1>8, <1>9, <1>11, <1>12, <1>13

LEMMA StartRecovers ==
  ASSUME KeyInv, NEW t \in Exchanges, A!Start(t)
  PROVE  KeyInv'
<1>1. turn[t].pc = "new" /\ entry' = entry /\ lost' = lost /\ lastTurn' = lastTurn
  BY DEF A!Start, A!Quiet
<1>2. /\ turn \in [Exchanges -> Exchange] /\ entry \in Bindings
      /\ Recovers(turn, entry, lost, t) /\ ~turn[t].told /\ entry[A!Chain(t)] = A!Unbound
  BY <1>1 DEF KeyInv, BindingTyping, Recovers, Fits, Beyond
<1>3. PICK k \in A!Kinds, p \in {0} \cup {u \in Exchanges : turn[u].told /\ turn[u].kind.responses} :
        turn' = [u \in Exchanges |->
            IF u = t
            THEN [A!Unstarted EXCEPT !.kind = k, !.prev = p,
                                     !.key = IF k.responses THEN t ELSE 0,
                                     !.pc = IF p = 0 THEN "session" ELSE "chain",
                                     !.alone = \A w \in Exchanges : ~A!Active(w)]
            ELSE [turn[u] EXCEPT !.alone = @ /\ ~A!Active(u)]]
  BY DEF A!Start
<1> DEFINE quiet == \A w \in Exchanges : ~A!Active(w)
           r == [A!Unstarted EXCEPT !.kind = k, !.prev = p,
                                    !.key = IF k.responses THEN t ELSE 0,
                                    !.pc = IF p = 0 THEN "session" ELSE "chain",
                                    !.alone = quiet]
<1>4. quiet \in BOOLEAN /\ \A u \in Exchanges : A!Active(u) \in BOOLEAN
  BY DEF A!Active
<1>5. turn'[t] = r /\ \A u \in Exchanges \ {t} : turn'[u] = [turn[u] EXCEPT !.alone = @ /\ ~A!Active(u)]
  BY <1>3
<1> HIDE DEF quiet
<1>6. /\ r \in Exchange /\ r.kind = k /\ r.prev = p /\ ~r.told /\ r.copy = A!Unbound
      /\ r.pc = IF p = 0 THEN "session" ELSE "chain"
  <2> DEFINE key == IF k.responses THEN t ELSE 0
             where == IF p = 0 THEN "session" ELSE "chain"
  <2>1. key \in Exchanges \cup {0} /\ where \in Stages /\ p \in Exchanges \cup {0}
    BY DEF Stages
  <2> HIDE DEF key, where
  <2>2. r = [A!Unstarted EXCEPT !.kind = k, !.prev = p, !.key = key, !.pc = where, !.alone = quiet]
    BY DEF r, key, where
  <2> HIDE DEF r
  <2>3. r = [pc |-> where, kind |-> k, prev |-> p, key |-> key, copy |-> A!Unbound, prefer |-> Nobody,
             first |-> Nobody, tried |-> {}, at |-> Nobody, told |-> FALSE, alone |-> quiet]
    <3> DEFINE bare == [responses |-> FALSE, stream |-> FALSE]
               none == A!Unbound
    <3>1. A!Unstarted = [pc |-> "new", kind |-> bare, prev |-> 0, key |-> 0, copy |-> none, prefer |-> Nobody,
                         first |-> Nobody, tried |-> {}, at |-> Nobody, told |-> FALSE, alone |-> TRUE]
      BY Zenon DEF A!Unstarted
    <3> HIDE DEF bare, none
    <3>2. r = [pc |-> where, kind |-> k, prev |-> p, key |-> key, copy |-> none, prefer |-> Nobody,
               first |-> Nobody, tried |-> {}, at |-> Nobody, told |-> FALSE, alone |-> quiet]
      BY ONLY <2>2, <3>1
    <3> QED BY <3>2, Zenon DEF none
  <2>4. r \in Exchange
    BY <1>4, <2>1, <2>3, BindingTypes DEF Exchange
  <2> QED BY <2>3, <2>4 DEF where
<1> HIDE DEF r
<1>7. \A u \in Exchanges \ {t} : turn'[u] \in Exchange /\ Like(turn'[u], turn[u]) /\ turn'[u].told = turn[u].told
                                 /\ turn'[u].kind = turn[u].kind
  <2> TAKE u \in Exchanges \ {t}
  <2>1. turn[u] \in Exchange /\ turn'[u] = [turn[u] EXCEPT !.alone = turn[u].alone /\ ~A!Active(u)]
    BY <1>2, <1>5
  <2> DEFINE flag == turn[u].alone /\ ~A!Active(u)
  <2>2. flag \in BOOLEAN /\ turn'[u] = [turn[u] EXCEPT !.alone = flag]
    BY <2>1
  <2> HIDE DEF flag
  <2> QED BY <2>1, <2>2 DEF Exchange, Like
<1>8. turn' \in [Exchanges -> Exchange]
  BY <1>3, <1>5, <1>6, <1>7
<1>9. Recovers(turn', entry, lost, t)
  <2>1. CASE p = 0
    BY <1>2, <1>5, <1>6, <2>1 DEF Recovers, Fits, Streams, Beyond
  <2>2. CASE p # 0
    <3>1. p \in Exchanges /\ p # t /\ turn'[p].told /\ turn'[p].kind.responses
      BY <1>2, <1>7, <2>2
    <3> QED BY <1>2, <1>5, <1>6, <2>2, <3>1 DEF Recovers, Fits, Streams, Beyond
  <2> QED BY <2>1, <2>2
<1>10. \A u \in Exchanges : Recovers(turn', entry, lost, u)
  BY <1>2, <1>7, <1>8, <1>9, OthersRecover
<1> QED BY <1>1, <1>8, <1>10 DEF KeyInv, BindingTyping

\* Entries are lost, or nothing is written.
LEMMA LossRecovers ==
  ASSUME KeyInv, turn' = turn, lastTurn' = lastTurn,
         \/ entry' = entry /\ lost' = lost
         \/ entry' \in Bindings /\ lost' = TRUE /\ \A k \in A!Keys : entry'[k] \in {entry[k], A!Unbound}
  PROVE  KeyInv'
<1>1. BindingTyping'
  BY DEF KeyInv, BindingTyping
<1>2. ASSUME NEW t \in Exchanges PROVE Recovers(turn, entry', lost', t)
  <2>1. Recovers(turn, entry, lost, t) /\ A!Chain(t) \in A!Keys
    BY EntriesApart DEF KeyInv
  <2> QED BY <2>1 DEF Recovers, Fits
<1> QED BY <1>1, <1>2 DEF KeyInv

LEMMA OtherRecovers ==
  ASSUME KeyInv,
         \/ \E k \in A!Keys : A!Scan(k) \/ A!Expire(k)
         \/ A!Delete \/ A!Cleared
         \/ \E a \in Accounts : A!Leave(a) \/ A!Readmit(a)
         \/ UNCHANGED affinityVars
  PROVE  /\ turn' = turn /\ lastTurn' = lastTurn
         /\ \/ entry' = entry /\ lost' = lost
            \/ lost' = TRUE
         /\ KeyInv'
<1>1. entry \in Bindings /\ A!Unbound \in Binding
  BY BindingTypes DEF KeyInv, BindingTyping
<1>2. ASSUME NEW k \in A!Keys, A!Scan(k) PROVE entry' = entry /\ lost' = lost /\ turn' = turn /\ lastTurn' = lastTurn
  BY <1>2 DEF A!Scan
<1>3. ASSUME A!Cleared \/ UNCHANGED affinityVars PROVE entry' = entry /\ lost' = lost /\ turn' = turn /\ lastTurn' = lastTurn
  BY <1>3 DEF A!Cleared, affinityVars
<1>4. ASSUME NEW a \in Accounts, A!Leave(a) \/ A!Readmit(a)
      PROVE  entry' = entry /\ lost' = lost /\ turn' = turn /\ lastTurn' = lastTurn
  BY <1>4 DEF A!Leave, A!Readmit
<1>5. ASSUME NEW k \in A!Keys, A!Expire(k)
      PROVE  /\ turn' = turn /\ lastTurn' = lastTurn /\ lost' = TRUE /\ entry' \in Bindings
             /\ \A n \in A!Keys : entry'[n] \in {entry[n], A!Unbound}
  BY <1>1, <1>5 DEF A!Expire, Bindings
<1>6. ASSUME A!Delete
      PROVE  /\ turn' = turn /\ lastTurn' = lastTurn /\ lost' = TRUE /\ entry' \in Bindings
             /\ \A n \in A!Keys : entry'[n] \in {entry[n], A!Unbound}
  BY <1>1, <1>6 DEF A!Delete, Bindings
<1> QED BY <1>2, <1>3, <1>4, <1>5, <1>6, LossRecovers

LEMMA BindingInit == A!Init => KeyInv
<1> SUFFICES ASSUME A!Init PROVE KeyInv
  OBVIOUS
<1>1. entry = [k \in A!Keys |-> A!Unbound] /\ turn = [t \in Exchanges |-> A!Unstarted] /\ lost = FALSE /\ lastTurn = 0
  BY DEF A!Init
<1>2. BindingTyping
  BY <1>1, BindingTypes DEF BindingTyping, Bindings
<1>3. ASSUME NEW t \in Exchanges PROVE Recovers(turn, entry, lost, t)
  BY <1>1, EntriesApart DEF Recovers, Fits, A!Unstarted
<1> QED BY <1>2, <1>3 DEF KeyInv

LEMMA BindingStep == KeyInv /\ [A!Next]_affinityVars => KeyInv'
<1> SUFFICES ASSUME KeyInv, [A!Next]_affinityVars PROVE KeyInv'
  OBVIOUS
<1>1. CASE UNCHANGED affinityVars
  BY <1>1, OtherRecovers
<1>2. CASE \/ \E k \in A!Keys : A!Scan(k) \/ A!Expire(k)
           \/ A!Delete \/ A!Cleared
           \/ \E a \in Accounts : A!Leave(a) \/ A!Readmit(a)
  BY <1>2, OtherRecovers
<1>3. ASSUME NEW t \in Exchanges,
             \/ A!Start(t) \/ A!ReadChain(t) \/ A!TouchChain(t) \/ A!ReadSession(t) \/ A!Touch(t)
             \/ A!NoneLeft(t) \/ A!Refused(t) \/ A!Open(t) \/ A!Broken(t) \/ A!Answer(t)
             \/ A!ReadPin(t) \/ A!Rebind(t) \/ A!Bind(t) \/ A!Link(t)
             \/ \E a \in Accounts : A!Try(t, a)
      PROVE  KeyInv'
  BY <1>3, StartRecovers, ReadsRecover, WritesRecover
<1> QED BY <1>1, <1>2, <1>3 DEF A!Next

\* A Responses turn that names an earlier answer recovers that answer's
\* session key (_responses_affinity, bind_response_chain), whichever turns run
\* beside it, for any number of turns and accounts.
THEOREM KeysAreRecovered == GatewaySpec => []KeyStable
<1>1. KeyInv => KeyStable
  <2> SUFFICES ASSUME KeyInv, ~lost, NEW t \in Exchanges, turn[t].prev # 0, turn[t].pc \notin {"new", "chain"}
               PROVE  turn[t].key = turn[turn[t].prev].key
    BY DEF KeyStable, A!KeyStable
  <2> QED BY DEF KeyInv, Recovers, Fits
<1>2. GatewayInit => A!Init
  BY DEF GatewayInit
<1>3. GatewaySpec => []KeyInv
  BY <1>2, PartsStepAlone, BindingInit, BindingStep, PTL DEF GatewaySpec
<1> QED BY <1>1, <1>3, PTL

-----------------------------------------------------------------------------
(* A turn that nobody overlaps.  Turns start in their order, so that a turn  *)
(* that was alone has only finished ones before it; while it runs, what its  *)
(* session leads to is what it has read, until it binds the session itself.  *)
Rested(t) == turn[t].pc \in {"done", "failed"}
OneByOne == \A t, u \in Exchanges : u < t /\ turn[t].pc # "new" => turn[u].pc # "new"
ByItself(t) ==
  turn[t].alone /\ turn[t].pc # "new" =>
    \A u \in Exchanges : u # t /\ (u < t \/ A!Active(t)) => ~A!Active(u)

\* A chat turn knows what its session leads to.
Remembers(r, mine) ==
  ~r.kind.responses =>
    /\ r.pc \in {"touch", "alias", "rebound"} => r.copy = mine
    /\ r.pc \in {"touch", "alias", "pick", "trying", "rebind", "rebound"} => r.prefer = mine.account
Held(t) == entry[A!Session(turn[t].key)]

Undisputed(t) == turn[t].alone /\ turn[t].prefer \in {Nobody, turn[t].first}
PinHolds ==
  ~lost /\ lastTurn # 0 /\ Undisputed(lastTurn) /\ (\A t \in Exchanges : turn[t].pc # "new" => t <= lastTurn)
    => A!Pinned(lastTurn)

PinInv ==
  /\ OneByOne
  /\ \A t \in Exchanges : ByItself(t)
  /\ lastTurn # 0 => turn[lastTurn].pc = "done"
  /\ ~lost => \A t \in Exchanges : turn[t].alone /\ A!Active(t) => Remembers(turn[t], Held(t))
  /\ PinHolds

\* What a step of turn t does to what it knows, and what it leaves behind
\* when its bindings are completed.
Leads(t) ==
  /\ A!Active(t) /\ turn'[t].pc # "new"
  /\ turn' = [turn EXCEPT ![t] = turn'[t]]
  /\ turn'[t].alone = turn[t].alone
  /\ lost' = lost
  /\ Remembers(turn[t], Held(t)) => Remembers(turn'[t], Held(t)')
  /\ \/ lastTurn' = lastTurn
     \/ /\ lastTurn' = t /\ turn'[t].pc = "done"
        /\ Remembers(turn[t], Held(t)) /\ Undisputed(t)' => A!Pinned(t)'

LEMMA ReadsLead ==
  ASSUME KeyInv, NEW t \in Exchanges,
         \/ A!ReadChain(t) \/ A!ReadSession(t) \/ A!NoneLeft(t) \/ A!Refused(t) \/ A!Broken(t)
         \/ A!Answer(t) \/ A!ReadPin(t) \/ \E a \in Accounts : A!Try(t, a)
  PROVE  Leads(t)
<1>1. turn[t] \in Exchange /\ turn \in [Exchanges -> Exchange]
  BY DEF KeyInv, BindingTyping
<1>2. ASSUME NEW r, turn' = [turn EXCEPT ![t] = r], entry' = entry, lost' = lost, lastTurn' = lastTurn,
             turn[t].pc \notin {"new", "done", "failed"}, r.pc # "new", r.alone = turn[t].alone,
             Remembers(turn[t], Held(t)) => Remembers(r, entry[A!Session(r.key)])
      PROVE  Leads(t)
  <2>1. turn'[t] = r
    BY <1>1, <1>2
  <2>2. Held(t)' = entry[A!Session(r.key)]
    BY <1>2, <2>1 DEF Held
  <2> QED BY <1>2, <2>1, <2>2 DEF Leads, A!Active
<1>3. CASE A!ReadChain(t)
  <2> DEFINE found == entry[A!Chain(turn[t].prev)]
  <2>1. turn[t].pc = "chain"
    BY <1>3 DEF A!ReadChain
  <2>2. CASE found = A!Unbound
    <3> DEFINE r == [turn[t] EXCEPT !.pc = "session"]
    <3>1. turn' = [turn EXCEPT ![t] = r] /\ entry' = entry /\ lost' = lost /\ lastTurn' = lastTurn
      BY <1>3, <2>2 DEF A!ReadChain, A!Step, A!To, A!Quiet
    <3>2. r.pc = "session" /\ r.alone = turn[t].alone
      BY <1>1 DEF Exchange
    <3> HIDE DEF r
    <3> QED BY <1>2, <2>1, <3>1, <3>2 DEF Remembers
  <2>3. CASE found # A!Unbound
    <3> DEFINE r == [turn[t] EXCEPT !.pc = "touchChain", !.copy = found, !.key = found.key]
    <3>1. turn' = [turn EXCEPT ![t] = r] /\ entry' = entry /\ lost' = lost /\ lastTurn' = lastTurn
      BY <1>3, <2>3 DEF A!ReadChain, A!Step, A!To, A!Quiet
    <3>2. r.pc = "touchChain" /\ r.alone = turn[t].alone
      BY <1>1 DEF Exchange
    <3> HIDE DEF r
    <3> QED BY <1>2, <2>1, <3>1, <3>2 DEF Remembers
  <2> QED BY <2>2, <2>3
<1>4. CASE A!ReadSession(t)
  <2> DEFINE found == entry[A!Session(turn[t].key)]
             where == IF found = A!Unbound THEN "pick" ELSE "touch"
             r == [turn[t] EXCEPT !.pc = where, !.copy = found, !.prefer = found.account]
  <2>1. /\ turn' = [turn EXCEPT ![t] = r] /\ entry' = entry /\ lost' = lost /\ lastTurn' = lastTurn
        /\ turn[t].pc = "session"
    BY <1>4 DEF A!ReadSession, A!To, A!Quiet
  <2>2. where \in {"pick", "touch"}
    OBVIOUS
  <2> HIDE DEF found, where
  <2>3. /\ r.pc = where /\ r.alone = turn[t].alone /\ r.copy = found /\ r.prefer = found.account
        /\ r.key = turn[t].key
    BY <1>1 DEF Exchange
  <2> HIDE DEF r
  <2>4. Remembers(r, entry[A!Session(r.key)])
    BY <2>2, <2>3 DEF Remembers, found
  <2> QED BY <1>2, <2>1, <2>2, <2>3, <2>4
<1>5. CASE A!NoneLeft(t) \/ A!Refused(t) \/ A!Broken(t)
  <2>1. PICK where \in {"pick", "failed"} :
          /\ turn' = [turn EXCEPT ![t] = [turn[t] EXCEPT !.pc = where]]
          /\ where = "failed" \/ turn[t].pc = "trying"
    <3>1. CASE A!NoneLeft(t)
      BY <3>1 DEF A!NoneLeft, A!Step, A!To
    <3>2. CASE A!Broken(t)
      BY <3>2 DEF A!Broken, A!Step, A!To
    <3>3. CASE A!Refused(t)
      <4>1. /\ turn[t].pc = "trying"
            /\ A!Step(t, IF A!Cardinality(turn[t].tried) < Attempts THEN "pick" ELSE "failed")
        BY <3>3 DEF A!Refused
      <4> QED BY <4>1 DEF A!Step, A!To
    <3> QED BY <1>5, <3>1, <3>2, <3>3
  <2>2. entry' = entry /\ lost' = lost /\ lastTurn' = lastTurn /\ turn[t].pc \in {"pick", "trying", "open"}
    BY <1>5 DEF A!NoneLeft, A!Refused, A!Broken, A!Quiet
  <2> DEFINE r == [turn[t] EXCEPT !.pc = where]
  <2>3. /\ r.pc = where /\ r.alone = turn[t].alone /\ r.kind = turn[t].kind /\ r.prefer = turn[t].prefer
        /\ r.key = turn[t].key
    BY <1>1 DEF Exchange
  <2> HIDE DEF r
  <2>4. Remembers(turn[t], Held(t)) => Remembers(r, entry[A!Session(r.key)])
    BY <2>1, <2>3 DEF Remembers, Held
  <2> QED BY <1>2, <2>1, <2>2, <2>3, <2>4 DEF r
<1>6. CASE A!Answer(t)
  <2>1. PICK where \in {"rebind", "bind"} :
          turn' = [turn EXCEPT ![t] = [turn[t] EXCEPT !.pc = where, !.told = @ \/ turn[t].kind.stream]]
    BY <1>6 DEF A!Answer, A!To
  <2>2. /\ entry' = entry /\ lost' = lost /\ lastTurn' = lastTurn
        /\ turn[t].pc \in {"open", "trying"}
        /\ ~turn[t].kind.responses => turn[t].pc = "trying"
    BY <1>6 DEF A!Answer, A!Quiet
  <2> DEFINE r == [turn[t] EXCEPT !.pc = where, !.told = @ \/ turn[t].kind.stream]
  <2>3. /\ r.pc = where /\ r.alone = turn[t].alone /\ r.kind = turn[t].kind /\ r.prefer = turn[t].prefer
        /\ r.key = turn[t].key
    BY <1>1 DEF Exchange
  <2> HIDE DEF r
  <2>4. Remembers(turn[t], Held(t)) => Remembers(r, entry[A!Session(r.key)])
    BY <2>1, <2>2, <2>3 DEF Remembers, Held
  <2> QED BY <1>2, <2>1, <2>2, <2>3, <2>4 DEF r
<1>7. CASE A!ReadPin(t)
  <2> DEFINE r == [turn[t] EXCEPT !.pc = "rebound", !.copy = entry[A!Session(turn[t].key)]]
  <2>1. /\ turn' = [turn EXCEPT ![t] = r] /\ entry' = entry /\ lost' = lost /\ lastTurn' = lastTurn
        /\ turn[t].pc = "rebind"
    BY <1>7 DEF A!ReadPin, A!To, A!Quiet
  <2>2. /\ r.pc = "rebound" /\ r.alone = turn[t].alone /\ r.kind = turn[t].kind /\ r.prefer = turn[t].prefer
        /\ r.copy = Held(t) /\ r.key = turn[t].key
    BY <1>1 DEF Exchange, Held
  <2> HIDE DEF r
  <2>3. Remembers(turn[t], Held(t)) => Remembers(r, entry[A!Session(r.key)])
    BY <2>1, <2>2 DEF Remembers, Held
  <2> QED BY <1>2, <2>1, <2>2, <2>3
<1>8. ASSUME NEW a \in Accounts, A!Try(t, a) PROVE Leads(t)
  <2> DEFINE r == [turn[t] EXCEPT !.pc = "trying", !.at = a, !.tried = @ \union {a},
                                  !.first = IF @ = Nobody THEN a ELSE @]
  <2>1. /\ turn' = [turn EXCEPT ![t] = r] /\ entry' = entry /\ lost' = lost /\ lastTurn' = lastTurn
        /\ turn[t].pc = "pick"
    BY <1>8 DEF A!Try, A!To, A!Quiet
  <2>2. /\ r.pc = "trying" /\ r.alone = turn[t].alone /\ r.kind = turn[t].kind /\ r.prefer = turn[t].prefer
        /\ r.key = turn[t].key
    BY <1>1 DEF Exchange
  <2> HIDE DEF r
  <2>3. Remembers(turn[t], Held(t)) => Remembers(r, entry[A!Session(r.key)])
    BY <2>1, <2>2 DEF Remembers, Held
  <2> QED BY <1>2, <2>1, <2>2, <2>3
<1> QED BY <1>3, <1>4, <1>5, <1>6, <1>7, <1>8

LEMMA WritesLead ==
  ASSUME KeyInv, NEW t \in Exchanges,
         A!TouchChain(t) \/ A!Touch(t) \/ A!Open(t) \/ A!Rebind(t) \/ A!Bind(t) \/ A!Link(t)
  PROVE  Leads(t)
<1> DEFINE session == A!Session(turn[t].key)
<1>1. /\ turn[t] \in Exchange /\ turn \in [Exchanges -> Exchange] /\ entry \in Bindings
      /\ session \in A!Keys
  BY EntriesApart DEF KeyInv, BindingTyping, Exchange
<1>2. Held(t) = entry[session]
  BY DEF Held
<1>3. ASSUME NEW r, turn' = [turn EXCEPT ![t] = r], lost' = lost,
             turn[t].pc \notin {"new", "done", "failed"}, r.pc # "new", r.alone = turn[t].alone,
             r.key = turn[t].key,
             Remembers(turn[t], entry[session]) => Remembers(r, entry'[session]),
             \/ lastTurn' = lastTurn
             \/ /\ lastTurn' = t /\ r.pc = "done"
                /\ \/ entry'[session].account = r.at
                   \/ ~(Remembers(turn[t], entry[session]) /\ r.prefer \in {Nobody, r.first})
      PROVE  Leads(t)
  <2>1. turn'[t] = r
    BY <1>1, <1>3
  <2>2. A!Session(turn[t].key)' = session /\ Held(t)' = entry'[session]
    BY <1>3, <2>1 DEF Held, A!Session
  <2>3. /\ A!Pinned(t)' <=> entry'[session].account = r.at
        /\ Undisputed(t)' <=> r.alone /\ r.prefer \in {Nobody, r.first}
    BY <1>3, <2>1, <2>2 DEF A!Pinned, A!Session, Undisputed
  <2> QED BY <1>2, <1>3, <2>1, <2>2, <2>3 DEF Leads, A!Active
<1> HIDE DEF session
<1>4. CASE A!TouchChain(t)
  <2> DEFINE r == [turn[t] EXCEPT !.pc = "session"]
  <2>1. /\ turn[t].pc = "touchChain" /\ turn' = [turn EXCEPT ![t] = r]
        /\ lost' = lost /\ lastTurn' = lastTurn
    BY <1>4 DEF A!TouchChain, A!Step, A!To, A!Quiet
  <2>2. r.pc = "session" /\ r.alone = turn[t].alone /\ r.key = turn[t].key
    BY <1>1 DEF Exchange
  <2> HIDE DEF r
  <2> QED BY <1>3, <2>1, <2>2 DEF Remembers
<1>5. CASE A!Touch(t)
  <2> DEFINE where == IF turn[t].pc = "touch" /\ turn[t].kind.responses THEN "alias" ELSE "pick"
             r == [turn[t] EXCEPT !.pc = where]
  <2>1. /\ turn[t].pc \in {"touch", "alias"} /\ turn' = [turn EXCEPT ![t] = r]
        /\ entry' = [entry EXCEPT ![session] = turn[t].copy] /\ lost' = lost /\ lastTurn' = lastTurn
    BY <1>5 DEF A!Touch, A!Step, A!To, A!Quiet, session
  <2>2. where \in {"alias", "pick"}
    OBVIOUS
  <2> HIDE DEF where
  <2>3. /\ r.pc = where /\ r.alone = turn[t].alone /\ r.kind = turn[t].kind /\ r.prefer = turn[t].prefer
        /\ r.key = turn[t].key /\ r.copy = turn[t].copy
    BY <1>1 DEF Exchange
  <2> HIDE DEF r
  <2>4. entry'[session] = turn[t].copy
    BY <1>1, <2>1 DEF Bindings
  <2>5. Remembers(turn[t], entry[session]) => Remembers(r, entry'[session])
    BY <2>1, <2>2, <2>3, <2>4 DEF Remembers
  <2> QED BY <1>3, <2>1, <2>2, <2>3, <2>5
<1>6. CASE A!Open(t)
  <2> DEFINE r == [turn[t] EXCEPT !.pc = "open"]
  <2>1. /\ turn[t].pc = "trying" /\ turn' = [turn EXCEPT ![t] = r] /\ lost' = lost /\ lastTurn' = lastTurn
    BY <1>6 DEF A!Open, A!Step, A!To, A!Quiet
  <2>2. r.pc = "open" /\ r.alone = turn[t].alone /\ r.key = turn[t].key
    BY <1>1 DEF Exchange
  <2> HIDE DEF r
  <2> QED BY <1>3, <2>1, <2>2 DEF Remembers
<1>7. ASSUME turn[t].pc \in {"rebound", "bind"}, A!Bound(t), A!Ended(t), lost' = lost,
             \/ entry'[session].account = turn[t].at
             \/ turn[t].kind.responses
             \/ ~(Remembers(turn[t], entry[session]) /\ turn[t].prefer \in {Nobody, turn[t].first})
      PROVE  Leads(t)
  <2> DEFINE where == IF turn[t].kind.responses THEN "link" ELSE "done"
             r == [turn[t] EXCEPT !.pc = where, !.told = @ \/ ~turn[t].kind.responses]
  <2>1. /\ turn' = [turn EXCEPT ![t] = r]
        /\ lastTurn' = IF turn[t].kind.responses THEN lastTurn ELSE t
    BY <1>7 DEF A!Bound, A!To, A!Ended
  <2>2. where \in {"link", "done"} /\ (~turn[t].kind.responses => where = "done")
    OBVIOUS
  <2> HIDE DEF where
  <2>3. /\ r.pc = where /\ r.alone = turn[t].alone /\ r.kind = turn[t].kind /\ r.prefer = turn[t].prefer
        /\ r.first = turn[t].first /\ r.at = turn[t].at /\ r.key = turn[t].key
    BY <1>1 DEF Exchange
  <2> HIDE DEF r
  <2>4. Remembers(r, entry'[session])
    BY <2>2, <2>3 DEF Remembers
  <2> QED BY <1>3, <1>7, <2>1, <2>2, <2>3, <2>4
<1>8. CASE A!Rebind(t)
  <2>1. turn[t].pc = "rebound" /\ lost' = lost
    BY <1>8 DEF A!Rebind
  <2>2. CASE A!Moves(t)
    <3> DEFINE r == [turn[t] EXCEPT !.pc = "bind"]
    <3>1. turn' = [turn EXCEPT ![t] = r] /\ lastTurn' = lastTurn
      BY <1>8, <2>2 DEF A!Rebind, A!Step, A!To
    <3>2. r.pc = "bind" /\ r.alone = turn[t].alone /\ r.key = turn[t].key
      BY <1>1 DEF Exchange
    <3> HIDE DEF r
    <3> QED BY <1>3, <2>1, <3>1, <3>2 DEF Remembers
  <2>3. CASE ~A!Moves(t)
    <3>1. A!Bound(t) /\ A!Ended(t)
      BY <1>8, <2>3 DEF A!Rebind
    <3>2. turn[t].copy.account \notin {Nobody, turn[t].first}
      BY <2>3 DEF A!Moves
    <3>3. \/ turn[t].kind.responses
          \/ ~(Remembers(turn[t], entry[session]) /\ turn[t].prefer \in {Nobody, turn[t].first})
      BY <2>1, <3>2 DEF Remembers
    <3> QED BY <1>7, <2>1, <3>1, <3>3
  <2> QED BY <2>2, <2>3
<1>9. CASE A!Bind(t)
  <2> DEFINE b == [account |-> turn[t].at, key |-> turn[t].key]
  <2>1. /\ turn[t].pc = "bind" /\ A!Bound(t) /\ A!Ended(t) /\ lost' = lost
        /\ entry' = [entry EXCEPT ![session] = b]
    BY <1>9 DEF A!Bind, session
  <2>2. entry'[session].account = turn[t].at
    BY <1>1, <2>1 DEF Bindings
  <2> QED BY <1>7, <2>1, <2>2
<1>10. CASE A!Link(t)
  <2> DEFINE r == [turn[t] EXCEPT !.pc = "done", !.told = TRUE]
             pin == [account |-> turn[t].at, key |-> turn[t].key]
  <2>1. /\ turn[t].pc = "link" /\ turn' = [turn EXCEPT ![t] = r] /\ lastTurn' = t
        /\ entry' = [entry EXCEPT ![A!Chain(t)] = pin, ![session] = pin] /\ lost' = lost
    BY <1>10 DEF A!Link, A!To, A!Linked, session
  <2>2. entry'[session].account = turn[t].at
    BY <1>1, <2>1 DEF Bindings
  <2>3. /\ r.pc = "done" /\ r.alone = turn[t].alone /\ r.key = turn[t].key /\ r.at = turn[t].at
    BY <1>1 DEF Exchange
  <2> HIDE DEF r
  <2> QED BY <1>3, <2>1, <2>2, <2>3 DEF Remembers
<1> QED BY <1>4, <1>5, <1>6, <1>8, <1>9, <1>10

\* A turn that goes on keeps what is known of the turns that are alone.
LEMMA PinGoesOn ==
  ASSUME KeyInv, PinInv, NEW t \in Exchanges, Leads(t)
  PROVE  PinInv'
<1>1. /\ turn \in [Exchanges -> Exchange] /\ Exchanges \subseteq Nat \ {0}
      /\ lastTurn \in Exchanges \cup {0} /\ A!Active(t) /\ turn[t].pc # "new"
  BY ExchangesCount DEF KeyInv, BindingTyping, Leads, A!Active
<1>2. /\ \A u \in Exchanges \ {t} : turn'[u] = turn[u] /\ A!Active(u)' = A!Active(u)
      /\ turn'[t].pc # "new" /\ turn'[t].alone = turn[t].alone /\ lost' = lost
  BY <1>1 DEF Leads, A!Active
<1>3. OneByOne'
  BY <1>1, <1>2 DEF PinInv, OneByOne
<1>4. ASSUME NEW u \in Exchanges PROVE ByItself(u)'
  <2>1. ByItself(u)
    BY DEF PinInv
  <2>2. \A w \in Exchanges : A!Active(w)' => A!Active(w)
    BY <1>1, <1>2
  <2>3. turn'[u].alone = turn[u].alone /\ (turn[u].pc = "new" <=> turn'[u].pc = "new")
    BY <1>1, <1>2
  <2> QED BY <2>1, <2>2, <2>3 DEF ByItself
<1>5. lastTurn # 0 => lastTurn # t
  BY <1>1 DEF PinInv, A!Active
<1>6. lastTurn' # 0 => turn'[lastTurn'].pc = "done"
  BY <1>1, <1>2, <1>5 DEF PinInv, Leads
<1>7. ASSUME ~lost, NEW u \in Exchanges, turn'[u].alone, A!Active(u)' PROVE Remembers(turn'[u], Held(u)')
  <2>1. u = t
    BY <1>1, <1>2, <1>7 DEF PinInv, ByItself, A!Active
  <2> QED BY <1>1, <1>2, <1>7, <2>1 DEF PinInv, Leads
<1>8. PinHolds'
  <2> SUFFICES ASSUME ~lost, lastTurn' # 0, Undisputed(lastTurn)',
                      \A u \in Exchanges : turn'[u].pc # "new" => u <= lastTurn'
               PROVE  A!Pinned(lastTurn)'
    BY <1>2 DEF PinHolds
  <2>1. CASE lastTurn' = t
    <3>1. Undisputed(t)'
      BY <2>1 DEF Undisputed
    <3>2. turn[t].alone
      BY <1>2, <3>1 DEF Undisputed
    <3>3. Remembers(turn[t], Held(t))
      BY <1>1, <3>2 DEF PinInv
    <3>4. CASE lastTurn' # lastTurn
      <4>1. A!Pinned(t)'
        BY <3>1, <3>3, <3>4 DEF Leads
      <4> QED BY <2>1, <4>1 DEF A!Pinned
    <3> QED BY <1>5, <2>1, <3>4
  <2>2. CASE lastTurn' # t
    <3>1. lastTurn' = lastTurn /\ lastTurn \in Exchanges \ {t}
      BY <1>1, <1>5, <2>2 DEF Leads
    <3>2. turn'[lastTurn] = turn[lastTurn] /\ turn[lastTurn].alone /\ turn[lastTurn].pc = "done"
      BY <1>2, <3>1 DEF Undisputed, PinInv
    <3>3. t < lastTurn
      BY <1>1, <1>2, <3>1
    <3> QED BY <1>1, <3>1, <3>2, <3>3 DEF PinInv, ByItself
  <2> QED BY <2>1, <2>2
<1> QED BY <1>2, <1>3, <1>4, <1>6, <1>7, <1>8 DEF PinInv

LEMMA PinStarts ==
  ASSUME KeyInv, PinInv, NEW t \in Exchanges, A!Start(t)
  PROVE  PinInv'
<1>1. /\ turn \in [Exchanges -> Exchange] /\ Exchanges \subseteq Nat \ {0}
      /\ lastTurn \in Exchanges \cup {0}
  BY ExchangesCount DEF KeyInv, BindingTyping
<1>2. /\ turn[t].pc = "new" /\ \A u \in Exchanges : u < t => turn[u].pc # "new"
      /\ entry' = entry /\ lost' = lost /\ lastTurn' = lastTurn
  BY DEF A!Start, A!Quiet
<1> DEFINE quiet == \A w \in Exchanges : ~A!Active(w)
<1>3. PICK k \in A!Kinds, p \in {0} \cup {u \in Exchanges : turn[u].told /\ turn[u].kind.responses} :
        turn' = [u \in Exchanges |->
            IF u = t
            THEN [A!Unstarted EXCEPT !.kind = k, !.prev = p,
                                     !.key = IF k.responses THEN t ELSE 0,
                                     !.pc = IF p = 0 THEN "session" ELSE "chain",
                                     !.alone = quiet]
            ELSE [turn[u] EXCEPT !.alone = @ /\ ~A!Active(u)]]
  BY DEF A!Start
<1> HIDE DEF quiet
<1>4. turn'[t].pc \in {"session", "chain"} /\ (turn'[t].alone => quiet)
  <2> DEFINE where == IF p = 0 THEN "session" ELSE "chain"
             key == IF k.responses THEN t ELSE 0
  <2>1. turn'[t] = [A!Unstarted EXCEPT !.kind = k, !.prev = p, !.key = key, !.pc = where, !.alone = quiet]
    BY <1>3
  <2>2. where \in {"session", "chain"}
    OBVIOUS
  <2> HIDE DEF where, key
  <2> QED BY <2>1, <2>2 DEF A!Unstarted
<1>5. ASSUME NEW u \in Exchanges \ {t}
      PROVE  /\ turn'[u].pc = turn[u].pc /\ turn'[u].kind = turn[u].kind /\ turn'[u].key = turn[u].key
             /\ turn'[u].copy = turn[u].copy /\ turn'[u].prefer = turn[u].prefer
             /\ turn'[u].first = turn[u].first /\ turn'[u].at = turn[u].at
             /\ turn'[u].alone => turn[u].alone /\ ~A!Active(u)
             /\ A!Active(u)' = A!Active(u)
  <2>1. turn'[u] = [turn[u] EXCEPT !.alone = turn[u].alone /\ ~A!Active(u)] /\ turn[u] \in Exchange
    BY <1>1, <1>3
  <2> DEFINE flag == turn[u].alone /\ ~A!Active(u)
  <2>2. turn'[u] = [turn[u] EXCEPT !.alone = flag]
    BY <2>1
  <2> HIDE DEF flag
  <2>3. /\ turn'[u].pc = turn[u].pc /\ turn'[u].kind = turn[u].kind /\ turn'[u].key = turn[u].key
        /\ turn'[u].copy = turn[u].copy /\ turn'[u].prefer = turn[u].prefer
        /\ turn'[u].first = turn[u].first /\ turn'[u].at = turn[u].at /\ turn'[u].alone = flag
    BY <2>1, <2>2 DEF Exchange
  <2> QED BY <2>3 DEF flag, A!Active
<1>6. OneByOne'
  <2> SUFFICES ASSUME NEW v \in Exchanges, NEW u \in Exchanges, u < v, turn'[v].pc # "new"
               PROVE  turn'[u].pc # "new"
    BY DEF OneByOne
  <2> QED BY <1>1, <1>2, <1>4, <1>5 DEF PinInv, OneByOne
<1>7. ASSUME NEW u \in Exchanges PROVE ByItself(u)'
  <2> SUFFICES ASSUME turn'[u].alone, turn'[u].pc # "new", NEW w \in Exchanges, w # u, w < u \/ A!Active(u)'
               PROVE  ~A!Active(w)'
    BY DEF ByItself
  <2>1. CASE u = t
    BY <1>4, <1>5, <2>1 DEF quiet
  <2>2. CASE u # t
    <3>1. /\ turn[u].alone /\ turn[u].pc # "new" /\ ~A!Active(u) /\ w < u
      BY <1>5, <2>2
    <3>2. w # t
      BY <1>2, <3>1 DEF PinInv, OneByOne
    <3> QED BY <1>5, <3>1, <3>2 DEF PinInv, ByItself
  <2> QED BY <2>1, <2>2
<1>8. lastTurn # 0 => lastTurn # t /\ turn'[lastTurn].pc = "done"
  BY <1>1, <1>2, <1>5 DEF PinInv
<1>9. ASSUME NEW u \in Exchanges, turn'[u].alone, A!Active(u)' PROVE Remembers(turn'[u], Held(u)')
  <2>1. u = t
    BY <1>5, <1>9
  <2> QED BY <1>4, <2>1 DEF Remembers
<1>10. PinHolds'
  <2> SUFFICES ASSUME ~lost, lastTurn # 0, \A u \in Exchanges : turn'[u].pc # "new" => u <= lastTurn
               PROVE  FALSE
    BY <1>2 DEF PinHolds
  <2>1. t < lastTurn
    BY <1>1, <1>4, <1>8
  <2> QED BY <1>1, <1>2, <1>8, <2>1 DEF PinInv, OneByOne
<1> QED BY <1>2, <1>6, <1>7, <1>8, <1>9, <1>10 DEF PinInv

LEMMA PinRests ==
  ASSUME PinInv, turn' = turn, lastTurn' = lastTurn,
         \/ entry' = entry /\ lost' = lost
         \/ lost' = TRUE
  PROVE  PinInv'
BY DEF PinInv, OneByOne, ByItself, PinHolds, A!Pinned, A!Session, A!Active, Undisputed, Held, Remembers

LEMMA PinStep == KeyInv /\ PinInv /\ [A!Next]_affinityVars => PinInv'
<1> SUFFICES ASSUME KeyInv, PinInv, [A!Next]_affinityVars PROVE PinInv'
  OBVIOUS
<1>1. CASE \/ UNCHANGED affinityVars
           \/ \E k \in A!Keys : A!Scan(k) \/ A!Expire(k)
           \/ A!Delete \/ A!Cleared
           \/ \E a \in Accounts : A!Leave(a) \/ A!Readmit(a)
  <2>1. /\ turn' = turn /\ lastTurn' = lastTurn
        /\ \/ entry' = entry /\ lost' = lost
           \/ lost' = TRUE
    BY <1>1, OtherRecovers
  <2> QED BY <2>1, PinRests
<1>2. ASSUME NEW t \in Exchanges, A!Start(t) PROVE PinInv'
  BY <1>2, PinStarts
<1>3. ASSUME NEW t \in Exchanges,
             \/ A!ReadChain(t) \/ A!TouchChain(t) \/ A!ReadSession(t) \/ A!Touch(t)
             \/ A!NoneLeft(t) \/ A!Refused(t) \/ A!Open(t) \/ A!Broken(t) \/ A!Answer(t)
             \/ A!ReadPin(t) \/ A!Rebind(t) \/ A!Bind(t) \/ A!Link(t)
             \/ \E a \in Accounts : A!Try(t, a)
      PROVE  PinInv'
  <2>1. Leads(t)
    BY <1>3, ReadsLead, WritesLead
  <2> QED BY <2>1, PinGoesOn
<1> QED BY <1>1, <1>2, <1>3 DEF A!Next

\* A turn that nobody overlaps leaves its session pinned to the account that
\* answered (bind, rebind_on_failover, bind_response_chain), after a failover
\* too, for any number of accounts and turns and any length of the chain.
THEOREM PinsFollow == GatewaySpec => []PinFollowsAnswer
<1>1. A!Init => PinInv
  <2> SUFFICES ASSUME A!Init PROVE PinInv
    OBVIOUS
  <2>1. turn = [t \in Exchanges |-> A!Unstarted] /\ lastTurn = 0
    BY DEF A!Init
  <2>2. \A t \in Exchanges : turn[t].pc = "new" /\ ~A!Active(t)
    BY <2>1 DEF A!Unstarted, A!Active
  <2> QED BY <2>1, <2>2 DEF PinInv, OneByOne, ByItself, PinHolds
<1>2. PinInv => PinFollowsAnswer
  BY DEF PinInv, PinHolds, Undisputed, PinFollowsAnswer, A!PinFollowsAnswer
<1>3. GatewayInit => A!Init
  BY DEF GatewayInit
<1>4. GatewaySpec => [](KeyInv /\ PinInv)
  BY <1>1, <1>3, PartsStepAlone, BindingInit, BindingStep, PinStep, PTL DEF GatewaySpec
<1> QED BY <1>2, <1>4, PTL

-----------------------------------------------------------------------------
(* The client keys, for any threads, workers and keys.  While only one       *)
(* worker writes and PostgreSQL answers, the thread that is at work has its  *)
(* worker's lock, and what it writes back of the other keys is what stands.  *)
KeyRow == {Absent} \cup [gen : Nat, enabled : BOOLEAN]
KeyTable == [ClientKeys -> KeyRow]
KeyOp == [what : {"create", "regenerate", "enable", "disable", "rename", "delete", "verify"},
          key : ClientKeys, gen : Nat]
KeyStages == {"idle", "load", "upsert", "save", "delete", "invalidate", "find", "scan", "touch"}
KeyTyping ==
  /\ storage \in {"postgres", "file"} /\ counting \in BOOLEAN /\ overlap \in BOOLEAN
  /\ pg \in KeyTable /\ file \in KeyTable /\ wanted \in KeyTable
  /\ lock \in [K!Workers -> Threads \cup {Nobody}]
  /\ verified \in [K!Workers -> SUBSET (ClientKeys \X Nat)]
  /\ at \in [Threads -> KeyStages] /\ op \in [Threads -> KeyOp \cup {Nobody}]
  /\ seen \in [Threads -> KeyTable]
  /\ by \in [ClientKeys -> K!Workers \cup {Nobody}]
  /\ newest \in Nat /\ faults \in Nat

\* Whoever is under way holds the lock of its worker.
Locked ==
  \A t \in Threads :
    /\ at[t] # "idle" => lock[Home[t]] = t /\ op[t] \in KeyOp
    /\ at[t] = "find" => storage = "postgres"
    /\ at[t] \in {"load", "delete"} => op[t].what # "verify"
    /\ at[t] = "delete" => op[t].what = "delete" /\ storage = "postgres"
Together == ~overlap => \A u, v \in K!Busy(at) : Home[u] = Home[v]
KeyBase == KeyTyping /\ Locked /\ Together

LEMMA HomesAreWorkers == \A t \in Threads : Home[t] \in K!Workers
BY DEF K!Workers

LEMMA OneAtWork ==
  ASSUME KeyBase, ~overlap, NEW u \in K!Busy(at), NEW v \in K!Busy(at)
  PROVE  u = v
<1>1. u \in Threads /\ v \in Threads /\ at[u] # "idle" /\ at[v] # "idle" /\ Home[u] = Home[v]
  BY DEF K!Busy, KeyBase, Together
<1> QED BY <1>1 DEF KeyBase, Locked

\* A thread that may go on, because the lock is its own or free, goes to
\* another stage with the lock, or gives it back.
LEMMA LocksKeep ==
  ASSUME KeyBase, NEW t \in Threads, NEW where \in KeyStages, K!Goto(t, where), storage' = storage,
         lock[Home[t]] \in {t, Nobody}, NEW holder, lock' = [lock EXCEPT ![Home[t]] = holder],
         \A u \in Threads \ {t} : op'[u] = op[u],
         /\ where # "idle" => holder = t /\ op'[t] \in KeyOp
         /\ where = "find" => storage = "postgres"
         /\ where \in {"load", "delete"} => op'[t].what # "verify"
         /\ where = "delete" => op'[t].what = "delete" /\ storage = "postgres"
  PROVE  Locked' /\ Together' /\ at' = [at EXCEPT ![t] = where] /\ (~overlap' => ~overlap)
<1>1. /\ at' = [at EXCEPT ![t] = where]
      /\ ~overlap' => ~overlap /\ \A u, v \in K!Busy(at') : Home[u] = Home[v]
  BY DEF K!Goto
<1>2. at'[t] = where /\ \A u \in Threads \ {t} : at'[u] = at[u]
  BY <1>1 DEF KeyBase, KeyTyping
<1>3. lock'[Home[t]] = holder /\ \A w \in K!Workers : w # Home[t] => lock'[w] = lock[w]
  BY HomesAreWorkers DEF KeyBase, KeyTyping
<1>4. ASSUME NEW u \in Threads \ {t}, at[u] # "idle" PROVE lock'[Home[u]] = u
  <2>1. lock[Home[u]] = u /\ u # Nobody
    BY <1>4, NobodyIsNoThread DEF KeyBase, Locked
  <2> QED BY <1>3, <2>1, HomesAreWorkers
<1>5. Locked'
  BY <1>2, <1>3, <1>4 DEF KeyBase, Locked
<1> QED BY <1>1, <1>5 DEF Together, K!Busy

LEMMA RowsOfKeys ==
  ASSUME NEW kept \in KeyRow, NEW o \in KeyOp, o.what # "verify", kept # Absent \/ o.what = "create"
  PROVE  K!Changed(kept, o) \in KeyRow
BY DEF KeyRow, KeyOp, K!Changed, K!Row

\* The stage an action starts from, and that it keeps the kinds of things.
LEMMA Returns ==
  ASSUME KeyBase, NEW t \in Threads, K!Return(t), at[t] # "idle", storage' = storage
  PROVE  /\ Locked' /\ Together' /\ at' = [at EXCEPT ![t] = "idle"] /\ (~overlap' => ~overlap)
         /\ lock' \in [K!Workers -> Threads \cup {Nobody}] /\ op' \in [Threads -> KeyOp \cup {Nobody}]
         /\ seen' \in [Threads -> KeyTable]
         /\ \A u \in Threads \ {t} : op'[u] = op[u] /\ seen'[u] = seen[u]
<1>1. /\ K!Goto(t, "idle") /\ lock' = [lock EXCEPT ![Home[t]] = Nobody]
      /\ op' = [op EXCEPT ![t] = Nobody] /\ seen' = [seen EXCEPT ![t] = [k \in ClientKeys |-> Absent]]
  BY DEF K!Return
<1>2. lock[Home[t]] = t /\ "idle" \in KeyStages
  BY DEF KeyBase, Locked, KeyStages
<1>3. [k \in ClientKeys |-> Absent] \in KeyTable
  BY DEF KeyTable, KeyRow
<1>4. \A u \in Threads \ {t} : op'[u] = op[u] /\ seen'[u] = seen[u]
  BY <1>1 DEF KeyBase, KeyTyping
<1>5. /\ lock' \in [K!Workers -> Threads \cup {Nobody}] /\ op' \in [Threads -> KeyOp \cup {Nobody}]
      /\ seen' \in [Threads -> KeyTable]
  BY <1>1, <1>3 DEF KeyBase, KeyTyping
<1>6. Locked' /\ Together' /\ at' = [at EXCEPT ![t] = "idle"] /\ (~overlap' => ~overlap)
  BY <1>1, <1>2, <1>4, LocksKeep
<1> QED BY <1>4, <1>5, <1>6

\* A thread at work goes to another stage.
LEMMA Proceeds ==
  ASSUME KeyBase, NEW t \in Threads, NEW where \in KeyStages \ {"idle", "find", "delete"}, K!Goto(t, where),
         at[t] # "idle", storage' = storage, UNCHANGED <<lock, op>>,
         where = "load" => at[t] = "delete"
  PROVE  /\ Locked' /\ Together' /\ at' = [at EXCEPT ![t] = where] /\ (~overlap' => ~overlap)
<1>1. lock[Home[t]] = t /\ op[t] \in KeyOp /\ lock' = [lock EXCEPT ![Home[t]] = t]
  BY HomesAreWorkers DEF KeyBase, Locked, KeyTyping
<1>2. where = "load" => op[t].what = "delete"
  BY DEF KeyBase, Locked
<1> QED BY <1>1, <1>2, LocksKeep

LEMMA Begins ==
  ASSUME KeyBase, NEW t \in Threads, NEW where \in {"load", "delete", "find", "scan"}, K!Goto(t, where),
         at[t] = "idle", lock[Home[t]] = Nobody, lock' = [lock EXCEPT ![Home[t]] = t],
         NEW o \in KeyOp, op' = [op EXCEPT ![t] = o], storage' = storage,
         where = "find" => storage = "postgres",
         where \in {"load", "delete"} => o.what # "verify",
         where = "delete" => o.what = "delete" /\ storage = "postgres"
  PROVE  /\ Locked' /\ Together' /\ at' = [at EXCEPT ![t] = where] /\ (~overlap' => ~overlap)
         /\ lock' \in [K!Workers -> Threads \cup {Nobody}] /\ op' \in [Threads -> KeyOp \cup {Nobody}]
<1>1. op'[t] = o /\ \A u \in Threads \ {t} : op'[u] = op[u]
  BY DEF KeyBase, KeyTyping
<1>2. where \in KeyStages /\ where # "idle"
  BY DEF KeyStages
<1>3. Locked' /\ Together' /\ at' = [at EXCEPT ![t] = where] /\ (~overlap' => ~overlap)
  BY <1>1, <1>2, LocksKeep
<1> QED BY <1>3 DEF KeyBase, KeyTyping

\* What a thread remembers is a secret.
LEMMA Remembered ==
  ASSUME KeyBase, NEW t \in Threads, op[t] \in KeyOp, K!Remember(t) \/ UNCHANGED verified
  PROVE  verified' \in [K!Workers -> SUBSET (ClientKeys \X Nat)]
BY DEF KeyBase, KeyTyping, K!Remember, KeyOp

LEMMA KeyBaseStep == KeyBase /\ [K!Next]_keyVars => KeyBase'
<1> SUFFICES ASSUME KeyBase, [K!Next]_keyVars PROVE KeyBase'
  OBVIOUS
<1> USE DEF KeyBase
<1>1. CASE UNCHANGED keyVars
  BY <1>1 DEF keyVars, KeyTyping, Locked, Together, K!Busy
<1>2. ASSUME NEW w \in K!Workers, K!Expire(w) PROVE KeyBase'
  BY <1>2 DEF K!Expire, KeyTyping, Locked, Together, K!Busy
<1> DEFINE Steady == /\ storage' = storage /\ counting' = counting
                     /\ faults' \in Nat /\ overlap' \in BOOLEAN
<1>3. ASSUME NEW t \in Threads,
             \/ K!Administer(t) \/ K!Load(t) \/ K!Upsert(t) \/ K!Save(t) \/ K!Delete(t) \/ K!Invalidate(t)
             \/ K!Verify(t) \/ K!Find(t) \/ K!Scan(t) \/ K!Touch(t)
      PROVE  Steady
  <2>1. storage' = storage /\ counting' = counting
    BY <1>3 DEF K!Administer, K!Load, K!Upsert, K!Save, K!Delete, K!Invalidate, K!Verify, K!Find, K!Scan, K!Touch
  <2>2. K!Calm \/ K!Fault
    BY <1>3 DEF K!Administer, K!Load, K!Upsert, K!Save, K!Delete, K!Invalidate, K!Verify, K!Find, K!Scan, K!Touch,
                K!Loaded, K!Saved
  <2>3. overlap' \in BOOLEAN
    <3>1. \E where : K!Goto(t, where)
      BY <1>3 DEF K!Administer, K!Load, K!Upsert, K!Save, K!Delete, K!Invalidate, K!Verify, K!Find, K!Scan, K!Touch,
                  K!Return
    <3> QED BY <3>1 DEF K!Goto
  <2> QED BY <2>1, <2>2, <2>3 DEF K!Calm, K!Fault, KeyTyping
<1>4. ASSUME NEW t \in Threads, K!Administer(t) PROVE KeyBase'
  <2>1. PICK o \in K!Asked :
          /\ op' = [op EXCEPT ![t] = o]
          /\ by' = IF o.what = "create" THEN [by EXCEPT ![o.key] = Home[t]] ELSE by
          /\ newest' = IF o.what \in {"create", "regenerate"} THEN newest + 1 ELSE newest
          /\ K!Goto(t, IF o.what = "delete" /\ storage = "postgres" THEN "delete" ELSE "load")
    BY <1>4 DEF K!Administer
  <2>2. /\ at[t] = "idle" /\ lock[Home[t]] = Nobody /\ lock' = [lock EXCEPT ![Home[t]] = t]
        /\ UNCHANGED <<storage, counting, pg, file, verified, seen, wanted>>
    BY <1>4 DEF K!Administer
  <2>3. o \in KeyOp /\ o.what # "verify"
    BY DEF K!Asked, KeyOp, KeyTyping
  <2> DEFINE where == IF o.what = "delete" /\ storage = "postgres" THEN "delete" ELSE "load"
  <2>4. /\ Locked' /\ Together' /\ at' = [at EXCEPT ![t] = where]
        /\ lock' \in [K!Workers -> Threads \cup {Nobody}] /\ op' \in [Threads -> KeyOp \cup {Nobody}]
    <3>1. where \in {"load", "delete"} /\ (where = "delete" => o.what = "delete" /\ storage = "postgres")
      OBVIOUS
    <3> HIDE DEF where
    <3> QED BY <2>1, <2>2, <2>3, <3>1, Begins DEF where
  <2>5. where \in KeyStages
    BY DEF KeyStages
  <2> HIDE DEF where
  <2>6. at' \in [Threads -> KeyStages] /\ newest' \in Nat
    BY <2>1, <2>4, <2>5 DEF KeyTyping
  <2>7. by' \in [ClientKeys -> K!Workers \cup {Nobody}]
    BY <2>1, HomesAreWorkers DEF KeyTyping
  <2> QED BY <1>3, <1>4, <2>2, <2>4, <2>6, <2>7 DEF KeyTyping
<1>5. ASSUME NEW t \in Threads, K!Verify(t) PROVE KeyBase'
  <2>1. PICK k \in ClientKeys, g \in 1..newest : op' = [op EXCEPT ![t] = [what |-> "verify", key |-> k, gen |-> g]]
    BY <1>5 DEF K!Verify
  <2>2. /\ at[t] = "idle" /\ lock[Home[t]] = Nobody /\ lock' = [lock EXCEPT ![Home[t]] = t]
        /\ K!Goto(t, IF storage = "postgres" THEN "find" ELSE "scan")
        /\ UNCHANGED <<storage, counting, pg, file, verified, seen, newest, wanted, by>>
    BY <1>5 DEF K!Verify
  <2> DEFINE o == [what |-> "verify", key |-> k, gen |-> g]
             where == IF storage = "postgres" THEN "find" ELSE "scan"
  <2>3. o \in KeyOp /\ where \in {"find", "scan"} /\ (where = "find" => storage = "postgres")
    BY DEF KeyOp, KeyTyping
  <2> HIDE DEF o, where
  <2>4. /\ Locked' /\ Together' /\ at' = [at EXCEPT ![t] = where]
        /\ lock' \in [K!Workers -> Threads \cup {Nobody}] /\ op' \in [Threads -> KeyOp \cup {Nobody}]
    BY <2>1, <2>2, <2>3, Begins DEF where, o
  <2>5. at' \in [Threads -> KeyStages]
    BY <2>3, <2>4 DEF KeyTyping, KeyStages
  <2> QED BY <1>3, <1>5, <2>2, <2>4, <2>5 DEF KeyTyping
<1>6. ASSUME NEW t \in Threads, K!Load(t) PROVE KeyBase'
  <2>1. at[t] = "load" /\ UNCHANGED <<storage, counting, pg, file, verified, newest, wanted, by>>
    BY <1>6 DEF K!Load
  <2>2. op[t] \in KeyOp /\ op[t].what # "verify"
    BY <2>1 DEF Locked
  <2>3. PICK data \in {pg, file} :
          IF data[op[t].key] = Absent /\ op[t].what # "create" THEN K!Return(t)
          ELSE /\ seen' = [seen EXCEPT ![t] = [data EXCEPT ![op[t].key] = K!Changed(data[op[t].key], op[t])]]
               /\ K!Goto(t, IF storage = "postgres" /\ op[t].what \notin {"create", "delete"} THEN "upsert" ELSE "save")
               /\ UNCHANGED <<lock, op>>
    BY <1>6 DEF K!Load
  <2>4. CASE K!Return(t)
    <3>1. at' \in [Threads -> KeyStages]
      BY <2>1, <2>4, Returns DEF KeyTyping, KeyStages
    <3> QED BY <1>3, <1>6, <2>1, <2>4, <3>1, Returns DEF KeyTyping
  <2>5. CASE ~K!Return(t)
    <3> DEFINE k == op[t].key
               where == IF storage = "postgres" /\ op[t].what \notin {"create", "delete"} THEN "upsert" ELSE "save"
    <3>1. where \in {"upsert", "save"} /\ k \in ClientKeys /\ data \in KeyTable
      BY <2>2 DEF KeyOp, KeyTyping
    <3>2. K!Changed(data[k], op[t]) \in KeyRow
      BY <2>2, <2>3, <2>5, <3>1, RowsOfKeys DEF KeyTable
    <3> HIDE DEF k, where
    <3>3. seen' \in [Threads -> KeyTable]
      BY <2>3, <2>5, <3>1, <3>2 DEF KeyTyping, KeyTable, k
    <3>4. Locked' /\ Together' /\ at' = [at EXCEPT ![t] = where]
      BY <2>1, <2>3, <2>5, <3>1, Proceeds DEF where, KeyStages
    <3>5. at' \in [Threads -> KeyStages]
      BY <3>1, <3>4 DEF KeyTyping, KeyStages
    <3> QED BY <1>3, <1>6, <2>1, <2>3, <2>5, <3>3, <3>4, <3>5 DEF KeyTyping
  <2> QED BY <2>4, <2>5
<1>7. ASSUME NEW t \in Threads, K!Upsert(t) \/ K!Save(t) PROVE KeyBase'
  <2>1. PICK where \in {"save", "invalidate"} : K!Goto(t, where)
    BY <1>7 DEF K!Upsert, K!Save
  <2>2. /\ at[t] \in {"upsert", "save"}
        /\ UNCHANGED <<storage, counting, lock, verified, op, seen, newest, wanted, by>>
    BY <1>7 DEF K!Upsert, K!Save
  <2>3. pg' \in KeyTable /\ file' \in KeyTable
    <3>1. op[t] \in KeyOp /\ seen[t] \in KeyTable
      BY <2>2 DEF Locked, KeyTyping
    <3> QED BY <1>7, <3>1 DEF K!Upsert, K!Save, K!Saved, KeyTyping, KeyTable, KeyOp
  <2>4. Locked' /\ Together' /\ at' = [at EXCEPT ![t] = where]
    BY <2>1, <2>2, Proceeds DEF KeyStages
  <2>5. at' \in [Threads -> KeyStages]
    BY <2>4 DEF KeyTyping, KeyStages
  <2> QED BY <1>3, <1>7, <2>2, <2>3, <2>4, <2>5 DEF KeyTyping
<1>8. ASSUME NEW t \in Threads, K!Delete(t) PROVE KeyBase'
  <2>1. /\ at[t] = "delete" /\ UNCHANGED <<storage, counting, file, verified, newest, wanted, by>>
        /\ pg' = [pg EXCEPT ![op[t].key] = Absent] \/ pg' = pg
        /\ \/ K!Return(t)
           \/ K!Goto(t, "invalidate") /\ UNCHANGED <<lock, op, seen>>
           \/ K!Goto(t, "load") /\ UNCHANGED <<lock, op, seen>>
    BY <1>8 DEF K!Delete
  <2>2. pg' \in KeyTable
    BY <2>1 DEF KeyTyping, KeyTable, KeyRow
  <2>3. CASE K!Return(t)
    <3>1. at' \in [Threads -> KeyStages]
      BY <2>1, <2>3, Returns DEF KeyTyping, KeyStages
    <3> QED BY <1>3, <1>8, <2>1, <2>2, <2>3, <3>1, Returns DEF KeyTyping
  <2>4. ASSUME NEW where \in {"invalidate", "load"}, K!Goto(t, where), UNCHANGED <<lock, op, seen>> PROVE KeyBase'
    <3>1. Locked' /\ Together' /\ at' = [at EXCEPT ![t] = where]
      BY <2>1, <2>4, Proceeds DEF KeyStages
    <3>2. at' \in [Threads -> KeyStages]
      BY <3>1 DEF KeyTyping, KeyStages
    <3> QED BY <1>3, <1>8, <2>1, <2>2, <2>4, <3>1, <3>2 DEF KeyTyping
  <2> QED BY <2>1, <2>3, <2>4
<1>9. ASSUME NEW t \in Threads, K!Invalidate(t) PROVE KeyBase'
  <2>1. /\ at[t] = "invalidate" /\ K!Return(t) /\ UNCHANGED <<storage, counting, pg, file, newest>>
        /\ verified' = [verified EXCEPT ![Home[t]] = {}]
        /\ wanted' = [wanted EXCEPT ![op[t].key] = IF op[t].what = "delete" THEN Absent ELSE seen[t][op[t].key]]
        /\ by' = [by EXCEPT ![op[t].key] = Home[t]]
    BY <1>9 DEF K!Invalidate
  <2>2. op[t] \in KeyOp /\ seen[t] \in KeyTable
    BY <2>1 DEF Locked, KeyTyping
  <2>3. /\ wanted' \in KeyTable /\ by' \in [ClientKeys -> K!Workers \cup {Nobody}]
        /\ verified' \in [K!Workers -> SUBSET (ClientKeys \X Nat)]
    BY <2>1, <2>2, HomesAreWorkers DEF KeyTyping, KeyTable, KeyRow, KeyOp
  <2>4. at' \in [Threads -> KeyStages]
    BY <2>1, Returns DEF KeyTyping, KeyStages
  <2> QED BY <1>3, <1>9, <2>1, <2>3, <2>4, Returns DEF KeyTyping
<1>10. ASSUME NEW t \in Threads, K!Find(t) \/ K!Scan(t) PROVE KeyBase'
  <2>1. /\ at[t] \in {"find", "scan"}
        /\ K!Remember(t) \/ UNCHANGED verified
    BY <1>10 DEF K!Find, K!Scan
  <2>2. UNCHANGED <<storage, counting, pg, file, newest, wanted, by>>
    BY <1>10 DEF K!Find, K!Scan
  <2>3. verified' \in [K!Workers -> SUBSET (ClientKeys \X Nat)]
    BY <2>1, Remembered DEF Locked
  <2>4. CASE K!Return(t)
    <3>1. at' \in [Threads -> KeyStages]
      BY <2>1, <2>2, <2>4, Returns DEF KeyTyping, KeyStages
    <3> QED BY <1>3, <1>10, <2>1, <2>2, <2>3, <2>4, <3>1, Returns DEF KeyTyping
  <2>5. CASE ~K!Return(t)
    <3>1. PICK where \in {"scan", "touch"} : K!Goto(t, where)
      BY <1>10, <2>5 DEF K!Find, K!Scan
    <3>2. UNCHANGED <<lock, op>> /\ seen' \in [Threads -> KeyTable]
      BY <1>10, <2>5 DEF K!Find, K!Scan, KeyTyping
    <3>3. Locked' /\ Together' /\ at' = [at EXCEPT ![t] = where]
      BY <2>1, <2>2, <3>1, <3>2, Proceeds DEF KeyStages
    <3>4. at' \in [Threads -> KeyStages]
      BY <3>3 DEF KeyTyping, KeyStages
    <3> QED BY <1>3, <1>10, <2>2, <2>3, <3>2, <3>3, <3>4 DEF KeyTyping
  <2> QED BY <2>4, <2>5
<1>11. ASSUME NEW t \in Threads, K!Touch(t) PROVE KeyBase'
  <2>1. /\ at[t] = "touch" /\ K!Return(t) /\ UNCHANGED <<storage, counting, verified, newest, wanted, by>>
    BY <1>11 DEF K!Touch
  <2>2. pg' \in KeyTable /\ file' \in KeyTable
    BY <1>11 DEF K!Touch, K!Saved, KeyTyping
  <2>3. at' \in [Threads -> KeyStages]
    BY <2>1, Returns DEF KeyTyping, KeyStages
  <2> QED BY <1>3, <1>11, <2>1, <2>2, <2>3, Returns DEF KeyTyping
<1> QED BY <1>1, <1>2, <1>4, <1>5, <1>6, <1>7, <1>8, <1>9, <1>10, <1>11 DEF K!Next

\* As long as nothing has gone wrong, the keys nobody works on stand as they
\* should, and the thread at work has seen the others as they stand.
Stands == \A n \in ClientKeys : K!Store[n] = wanted[n]
Sees(t) ==
  LET k == op[t].key
  IN /\ at[t] \in {"load", "delete", "upsert", "touch"} => Stands
     /\ \A n \in ClientKeys \ {k} : K!Store[n] = wanted[n]
     /\ at[t] \in {"upsert", "save"} => \A n \in ClientKeys \ {k} : seen[t][n] = K!Store[n]
     /\ at[t] = "upsert" => op[t].what # "delete"
     /\ at[t] = "save" /\ op[t].what = "delete" => seen[t][k] = Absent
     /\ at[t] = "touch" => \A n \in ClientKeys : seen[t][n] = K!Store[n]
     /\ at[t] = "invalidate" => K!Store[k] = IF op[t].what = "delete" THEN Absent ELSE seen[t][k]
Orderly == (K!Busy(at) = {} => Stands) /\ \A t \in K!Busy(at) : Sees(t)
TableInv == K!Quiet => Orderly

\* A key whose row is being changed, from the moment it cannot be left as it is.
Changing(k) ==
  \E t \in K!Busy(at) : /\ op[t].key = k
                        /\ \/ at[t] \in {"upsert", "save", "invalidate"}
                           \/ at[t] = "load" /\ op[t].what = "create"
Trusted(s) == ~Changing(s[1]) => K!Accepts(wanted[s[1]], s[2])
Remembering == \A w \in K!Workers : \A s \in verified[w] : by[s[1]] = w => Trusted(s)
CacheInv == K!Quiet => Remembering

LEMMA OneAtWorkNext ==
  ASSUME KeyBase', ~overlap', NEW u \in K!Busy(at'), NEW v \in K!Busy(at')
  PROVE  u = v
<1>1. u \in Threads /\ v \in Threads /\ at'[u] # "idle" /\ at'[v] # "idle" /\ Home[u] = Home[v]
  BY DEF K!Busy, KeyBase, Together
<1> QED BY <1>1 DEF KeyBase, Locked

\* An orderly step of a thread begins in order and meets no failure.
LEMMA QuietBefore ==
  ASSUME KeyBase, K!Quiet', storage' = storage, K!Calm \/ K!Fault, ~overlap' => ~overlap
  PROVE  K!Quiet /\ K!Calm /\ ~K!Fault
BY DEF K!Quiet, K!Calm, K!Fault, KeyBase, KeyTyping

\* A thread that does not write, before or after, leaves the others alone.
LEMMA Bystander ==
  ASSUME KeyBase, Orderly, NEW t \in Threads, t \notin K!Busy(at), at' = [at EXCEPT ![t] = at'[t]],
         at'[t] \in {"idle", "find", "scan"}, UNCHANGED <<storage, pg, file, wanted>>,
         \A u \in Threads \ {t} : op'[u] = op[u] /\ seen'[u] = seen[u]
  PROVE  Orderly' /\ \A k \in ClientKeys : Changing(k)' <=> Changing(k)
<1>1. \A u \in Threads \ {t} : at'[u] = at[u]
  BY DEF KeyBase, KeyTyping
<1>2. K!Busy(at') = K!Busy(at)
  BY <1>1 DEF K!Busy
<1>3. K!Store' = K!Store /\ Stands' = Stands
  BY DEF K!Store, Stands
<1>4. \A u \in K!Busy(at) : u \in Threads \ {t}
  BY DEF K!Busy
<1>5. ASSUME NEW u \in K!Busy(at) PROVE Sees(u)'
  BY <1>1, <1>3, <1>4, <1>5 DEF Orderly, Sees, Stands
<1>6. Orderly'
  BY <1>2, <1>3, <1>5 DEF Orderly
<1>7. \A k \in ClientKeys : Changing(k)' <=> Changing(k)
  BY <1>1, <1>2, <1>4 DEF Changing
<1> QED BY <1>6, <1>7

\* A thread that begins to write is then the only one.
LEMMA BeginsAlone ==
  ASSUME KeyBase', ~overlap', Orderly, NEW t \in Threads, t \notin K!Busy(at), at' = [at EXCEPT ![t] = at'[t]],
         KeyBase, at'[t] \notin {"idle", "find", "scan"}
  PROVE  K!Busy(at') = {t} /\ K!Busy(at) = {} /\ Stands
<1>1. \A u \in Threads \ {t} : at'[u] = at[u]
  BY DEF KeyBase, KeyTyping
<1>2. t \in K!Busy(at')
  BY DEF K!Busy
<1>3. K!Busy(at') = {t}
  BY <1>2, OneAtWorkNext
<1>4. K!Busy(at) = {}
  BY <1>1, <1>3 DEF K!Busy
<1> QED BY <1>3, <1>4 DEF Orderly

\* A thread at work is the only one, and then still the only one or none.
LEMMA WorksAlone ==
  ASSUME KeyBase, ~overlap, NEW t \in K!Busy(at), at' = [at EXCEPT ![t] = at'[t]]
  PROVE  /\ K!Busy(at) = {t} /\ t \in Threads
         /\ K!Busy(at') = IF at'[t] \in {"idle", "find", "scan"} THEN {} ELSE {t}
<1>1. t \in Threads /\ K!Busy(at) = {t}
  BY OneAtWork DEF K!Busy
<1>2. \A u \in Threads \ {t} : at'[u] = at[u] /\ u \notin K!Busy(at)
  BY <1>1 DEF KeyBase, KeyTyping
<1> QED BY <1>1, <1>2 DEF K!Busy

KeyActs(t) ==
  \/ K!Administer(t) \/ K!Load(t) \/ K!Upsert(t) \/ K!Save(t) \/ K!Delete(t) \/ K!Invalidate(t)
  \/ K!Verify(t) \/ K!Find(t) \/ K!Scan(t) \/ K!Touch(t)

LEMMA ActsGo ==
  ASSUME KeyBase, NEW t \in Threads, KeyActs(t)
  PROVE  /\ at' = [at EXCEPT ![t] = at'[t]] /\ (~overlap' => ~overlap)
         /\ storage' = storage /\ (K!Calm \/ K!Fault)
         /\ \A u \in Threads \ {t} : op'[u] = op[u] /\ seen'[u] = seen[u]
<1>1. \E where : K!Goto(t, where)
  BY DEF KeyActs, K!Administer, K!Load, K!Upsert, K!Save, K!Delete, K!Invalidate, K!Verify, K!Find, K!Scan, K!Touch,
         K!Return
<1>2. at' = [at EXCEPT ![t] = at'[t]] /\ (~overlap' => ~overlap)
  BY <1>1 DEF K!Goto, KeyBase, KeyTyping
<1>3. storage' = storage
  BY DEF KeyActs, K!Administer, K!Load, K!Upsert, K!Save, K!Delete, K!Invalidate, K!Verify, K!Find, K!Scan, K!Touch
<1>4. K!Calm \/ K!Fault
  BY DEF KeyActs, K!Administer, K!Load, K!Upsert, K!Save, K!Delete, K!Invalidate, K!Verify, K!Find, K!Scan, K!Touch,
         K!Loaded, K!Saved
<1>5. (\E o : op' = [op EXCEPT ![t] = o]) \/ op' = op
  BY DEF KeyActs, K!Administer, K!Load, K!Upsert, K!Save, K!Delete, K!Invalidate, K!Verify, K!Find, K!Scan, K!Touch,
         K!Return
<1>6. (\E data : seen' = [seen EXCEPT ![t] = data]) \/ seen' = seen
  BY DEF KeyActs, K!Administer, K!Load, K!Upsert, K!Save, K!Delete, K!Invalidate, K!Verify, K!Find, K!Scan, K!Touch,
         K!Return
<1>7. \A u \in Threads \ {t} : op'[u] = op[u] /\ seen'[u] = seen[u]
  BY <1>5, <1>6 DEF KeyBase, KeyTyping
<1> QED BY <1>2, <1>3, <1>4, <1>7

\* Writing the whole table puts it in the place that is read.
LEMMA SavedStands ==
  ASSUME KeyBase, storage' = storage, NEW data \in KeyTable, K!Saved(data), ~K!Fault
  PROVE  K!Store' = data
BY DEF K!Saved, K!Store, KeyBase, KeyTyping

LEMMA OrderlyStep ==
  ASSUME KeyBase, KeyBase', K!Quiet, K!Quiet', ~K!Fault, Orderly, NEW t \in Threads, KeyActs(t)
  PROVE  Orderly'
<1>1. /\ at' = [at EXCEPT ![t] = at'[t]] /\ ~overlap /\ ~overlap' /\ storage' = storage
      /\ \A u \in Threads \ {t} : op'[u] = op[u] /\ seen'[u] = seen[u]
  BY ActsGo DEF K!Quiet
<1>2. /\ pg \in KeyTable /\ file \in KeyTable /\ wanted \in KeyTable /\ seen[t] \in KeyTable
      /\ at \in [Threads -> KeyStages] /\ op \in [Threads -> KeyOp \cup {Nobody}] /\ seen \in [Threads -> KeyTable]
      /\ storage \in {"postgres", "file"}
  BY DEF KeyBase, KeyTyping
<1>3. at[t] # "idle" => op[t] \in KeyOp /\ op[t].key \in ClientKeys
  BY DEF KeyBase, Locked, KeyOp
<1>4. ASSUME t \in K!Busy(at)
      PROVE  /\ K!Busy(at) = {t} /\ Sees(t)
             /\ K!Busy(at') = IF at'[t] \in {"idle", "find", "scan"} THEN {} ELSE {t}
    BY <1>1, <1>4, WorksAlone DEF Orderly
<1>5. CASE K!Administer(t)
  <2>1. /\ at[t] = "idle" /\ UNCHANGED <<storage, pg, file, wanted>>
        /\ \E o \in K!Asked : K!Goto(t, IF o.what = "delete" /\ storage = "postgres" THEN "delete" ELSE "load")
    BY <1>5 DEF K!Administer
  <2>2. at'[t] \in {"load", "delete"}
    BY <1>2, <2>1 DEF K!Goto
  <2>3. K!Busy(at') = {t} /\ Stands
    BY <1>1, <2>1, <2>2, BeginsAlone DEF K!Busy
  <2>4. K!Store' = K!Store
    BY <2>1 DEF K!Store
  <2>5. Sees(t)'
    BY <2>1, <2>2, <2>3, <2>4 DEF Sees, Stands
  <2> QED BY <2>3, <2>5 DEF Orderly
<1>6. CASE K!Load(t)
  <2>1. at[t] = "load" /\ UNCHANGED <<storage, pg, file, wanted>> /\ t \in K!Busy(at)
    BY <1>6 DEF K!Load, K!Busy
  <2>2. K!Store' = K!Store /\ Stands' = Stands /\ Stands
    BY <1>4, <2>1 DEF K!Store, Stands, Sees
  <2>3. PICK data \in {pg, file} :
          /\ data = K!Store
          /\ IF data[op[t].key] = Absent /\ op[t].what # "create" THEN K!Return(t)
             ELSE /\ seen' = [seen EXCEPT ![t] = [data EXCEPT ![op[t].key] = K!Changed(data[op[t].key], op[t])]]
                  /\ K!Goto(t, IF storage = "postgres" /\ op[t].what \notin {"create", "delete"} THEN "upsert" ELSE "save")
                  /\ UNCHANGED <<lock, op>>
    BY <1>6 DEF K!Load, K!Loaded
  <2>4. CASE K!Return(t)
    <3>1. at'[t] = "idle"
      BY <1>2, <2>4 DEF K!Return, K!Goto
    <3>2. K!Busy(at') = {}
      BY <1>4, <2>1, <3>1
    <3> QED BY <2>2, <3>2 DEF Orderly
  <2>5. CASE ~K!Return(t)
    <3> DEFINE k == op[t].key
    <3>1. /\ op' = op /\ seen'[t] = [data EXCEPT ![k] = K!Changed(data[k], op[t])] /\ data \in KeyTable
          /\ at'[t] = IF storage = "postgres" /\ op[t].what \notin {"create", "delete"} THEN "upsert" ELSE "save"
      BY <1>2, <2>3, <2>5 DEF K!Goto
    <3>2. K!Busy(at') = {t}
      BY <1>4, <2>1, <3>1
    <3>3. k \in ClientKeys /\ (op[t].what = "delete" => K!Changed(data[k], op[t]) = Absent)
      BY <1>3, <2>1 DEF K!Changed
    <3> DEFINE kept == K!Changed(data[k], op[t])
    <3> HIDE DEF k, kept
    <3>4. /\ seen'[t][k] = kept /\ \A n \in ClientKeys \ {k} : seen'[t][n] = K!Store[n]
          /\ op[t].what = "delete" => kept = Absent
      BY <2>3, <3>1, <3>3 DEF KeyTable, k, kept
    <3>5. Sees(t)'
      BY <2>2, <3>1, <3>4 DEF Sees, Stands, k
    <3> QED BY <3>2, <3>5 DEF Orderly
  <2> QED BY <2>4, <2>5
<1>7. CASE K!Upsert(t)
  <2> DEFINE k == op[t].key
  <2>1. /\ at[t] = "upsert" /\ K!Goto(t, "save") /\ UNCHANGED <<storage, file, op, seen, wanted>>
        /\ pg' = [pg EXCEPT ![k] = seen[t][k]] /\ t \in K!Busy(at)
    BY <1>7 DEF K!Upsert, K!Busy
  <2>2. at'[t] = "save" /\ K!Busy(at') = {t} /\ Sees(t) /\ k \in ClientKeys
    BY <1>2, <1>3, <1>4, <2>1 DEF K!Goto
  <2> HIDE DEF k
  <2>3. \A n \in ClientKeys \ {k} : K!Store'[n] = K!Store[n]
    BY <1>2, <2>1 DEF K!Store, KeyTable
  <2>4. Sees(t)'
    BY <2>1, <2>2, <2>3 DEF Sees, k
  <2> QED BY <2>2, <2>4 DEF Orderly
<1>8. CASE K!Save(t)
  <2> DEFINE k == op[t].key
  <2>1. /\ at[t] = "save" /\ K!Goto(t, "invalidate") /\ UNCHANGED <<storage, op, seen, wanted>>
        /\ K!Saved(seen[t]) /\ t \in K!Busy(at)
    BY <1>8 DEF K!Save, K!Busy
  <2>2. at'[t] = "invalidate" /\ K!Busy(at') = {t} /\ Sees(t) /\ k \in ClientKeys
    BY <1>2, <1>3, <1>4, <2>1 DEF K!Goto
  <2>3. K!Store' = seen[t]
    BY <1>1, <1>2, <2>1, SavedStands
  <2> HIDE DEF k
  <2>4. Sees(t)'
    BY <2>1, <2>2, <2>3 DEF Sees, k
  <2> QED BY <2>2, <2>4 DEF Orderly
<1>9. CASE K!Delete(t)
  <2> DEFINE k == op[t].key
  <2>1. /\ at[t] = "delete" /\ UNCHANGED <<storage, file, wanted>> /\ pg' = [pg EXCEPT ![k] = Absent]
        /\ IF pg[k] = Absent THEN K!Return(t) ELSE K!Goto(t, "invalidate") /\ UNCHANGED <<lock, op, seen>>
        /\ t \in K!Busy(at)
    BY <1>9 DEF K!Delete, K!Busy
  <2>2. Sees(t) /\ k \in ClientKeys /\ storage = "postgres" /\ op[t].what = "delete" /\ Stands
    BY <1>3, <1>4, <2>1 DEF Sees, KeyBase, Locked
  <2> HIDE DEF k
  <2>3. K!Store' = pg' /\ K!Store = pg /\ pg'[k] = Absent /\ \A n \in ClientKeys \ {k} : pg'[n] = pg[n]
    BY <1>1, <1>2, <2>1, <2>2 DEF K!Store, KeyTable
  <2>4. CASE pg[k] = Absent
    <3>1. at'[t] = "idle"
      BY <1>2, <2>1, <2>4 DEF K!Return, K!Goto
    <3>2. K!Busy(at') = {}
      BY <1>4, <2>1, <3>1
    <3>3. Stands'
      BY <2>1, <2>2, <2>3, <2>4 DEF Stands
    <3> QED BY <3>2, <3>3 DEF Orderly
  <2>5. CASE pg[k] # Absent
    <3>1. at'[t] = "invalidate" /\ op' = op
      BY <1>2, <2>1, <2>5 DEF K!Goto
    <3>2. K!Busy(at') = {t}
      BY <1>4, <2>1, <3>1
    <3>3. Sees(t)'
      BY <2>1, <2>2, <2>3, <3>1 DEF Sees, Stands, k
    <3> QED BY <3>2, <3>3 DEF Orderly
  <2> QED BY <2>4, <2>5
<1>10. CASE K!Invalidate(t)
  <2> DEFINE k == op[t].key
             kept == IF op[t].what = "delete" THEN Absent ELSE seen[t][k]
  <2>1. /\ at[t] = "invalidate" /\ K!Return(t) /\ UNCHANGED <<storage, pg, file>>
        /\ wanted' = [wanted EXCEPT ![k] = kept] /\ t \in K!Busy(at)
    BY <1>10 DEF K!Invalidate, K!Busy
  <2>2. at'[t] = "idle"
    BY <1>2, <2>1 DEF K!Return, K!Goto
  <2>3. K!Busy(at') = {} /\ Sees(t)
    BY <1>4, <2>1, <2>2
  <2>4. K!Store' = K!Store /\ K!Store[k] = kept
    BY <2>1, <2>3 DEF K!Store, Sees
  <2> HIDE DEF kept
  <2>5. Stands'
    BY <1>2, <1>3, <2>1, <2>3, <2>4 DEF Stands, Sees, KeyTable
  <2> QED BY <2>3, <2>5 DEF Orderly
<1>11. CASE K!Verify(t) \/ K!Find(t)
  <2>1. UNCHANGED <<storage, pg, file, wanted>> /\ at[t] \in {"idle", "find"}
    BY <1>11 DEF K!Verify, K!Find
  <2>2. at'[t] \in {"idle", "find", "scan"}
    <3>1. \E where \in {"idle", "find", "scan"} : K!Goto(t, where)
      BY <1>11 DEF K!Verify, K!Find, K!Return
    <3> QED BY <1>2, <3>1 DEF K!Goto
  <2> QED BY <1>1, <2>1, <2>2, Bystander DEF K!Busy
<1>12. CASE K!Scan(t)
  <2>1. UNCHANGED <<storage, pg, file, wanted>> /\ at[t] = "scan" /\ t \notin K!Busy(at)
    BY <1>12 DEF K!Scan, K!Busy
  <2>2. CASE K!Return(t)
    <3>1. at'[t] = "idle"
      BY <1>2, <2>2 DEF K!Return, K!Goto
    <3> QED BY <1>1, <2>1, <3>1, Bystander
  <2>3. CASE ~K!Return(t)
    <3>1. seen' = [seen EXCEPT ![t] = K!Store] /\ K!Goto(t, "touch") /\ op' = op
      BY <1>12, <2>3 DEF K!Scan, K!Loaded
    <3>2. at'[t] = "touch" /\ seen'[t] = K!Store
      BY <1>2, <3>1 DEF K!Goto
    <3>3. K!Busy(at') = {t} /\ Stands
      BY <1>1, <2>1, <3>2, BeginsAlone
    <3>4. K!Store' = K!Store
      BY <2>1 DEF K!Store
    <3>5. Sees(t)'
      BY <2>1, <3>2, <3>3, <3>4 DEF Sees, Stands
    <3> QED BY <3>3, <3>5 DEF Orderly
  <2> QED BY <2>2, <2>3
<1>13. CASE K!Touch(t)
  <2>1. at[t] = "touch" /\ K!Return(t) /\ UNCHANGED <<storage, wanted>> /\ K!Saved(seen[t]) /\ t \in K!Busy(at)
    BY <1>13 DEF K!Touch, K!Busy
  <2>2. at'[t] = "idle"
    BY <1>2, <2>1 DEF K!Return, K!Goto
  <2>3. K!Busy(at') = {} /\ Sees(t)
    BY <1>4, <2>1, <2>2
  <2>4. K!Store' = seen[t]
    BY <1>1, <1>2, <2>1, SavedStands
  <2>5. Stands'
    BY <2>1, <2>3, <2>4 DEF Stands, Sees
  <2> QED BY <2>3, <2>5 DEF Orderly
<1> QED BY <1>5, <1>6, <1>7, <1>8, <1>9, <1>10, <1>11, <1>12, <1>13 DEF KeyActs

\* A key that nobody is changing stands as it should.
LEMMA UntouchedStands ==
  ASSUME KeyBase, Orderly, NEW k \in ClientKeys, ~Changing(k)
  PROVE  K!Store[k] = wanted[k]
<1>1. CASE K!Busy(at) = {}
  BY <1>1 DEF Orderly, Stands
<1>2. ASSUME NEW u \in K!Busy(at) PROVE K!Store[k] = wanted[k]
  <2>1. Sees(u) /\ at[u] \in KeyStages \ {"idle", "find", "scan"}
    BY DEF Orderly, K!Busy, KeyBase, KeyTyping
  <2>2. CASE op[u].key # k
    BY <2>1, <2>2 DEF Sees
  <2>3. CASE op[u].key = k
    <3>1. at[u] \in {"load", "delete", "touch"}
      BY <2>1, <2>3 DEF Changing, KeyStages
    <3> QED BY <2>1, <3>1 DEF Sees, Stands
  <2> QED BY <2>2, <2>3
<1> QED BY <1>1, <1>2

\* What the caches hold stays right where nothing is remembered anew.
LEMMA NothingNew ==
  ASSUME KeyBase, Remembering, UNCHANGED <<verified, wanted, by>>,
         \A k \in ClientKeys : Changing(k) => Changing(k)'
  PROVE  Remembering'
<1> SUFFICES ASSUME NEW w \in K!Workers, NEW s \in verified[w], by[s[1]] = w, ~Changing(s[1])'
             PROVE  K!Accepts(wanted[s[1]], s[2])'
  BY DEF Remembering, Trusted
<1>1. s[1] \in ClientKeys
  BY DEF KeyBase, KeyTyping
<1> QED BY <1>1 DEF Remembering, Trusted, K!Accepts, K!Has

LEMMA RemembersAnew ==
  ASSUME KeyBase, Orderly, Remembering, NEW t \in Threads, at[t] # "idle", K!Remember(t),
         K!Accepts(K!Store[op[t].key], op[t].gen), UNCHANGED <<wanted, by>>,
         \A k \in ClientKeys : Changing(k)' <=> Changing(k)
  PROVE  Remembering'
<1> SUFFICES ASSUME NEW w \in K!Workers, NEW s \in verified'[w], by[s[1]] = w, ~Changing(s[1])'
             PROVE  K!Accepts(wanted[s[1]], s[2])'
  BY DEF Remembering, Trusted
<1>1. op[t].key \in ClientKeys /\ op[t].gen \in Nat
  BY DEF KeyBase, Locked, KeyOp
<1>2. s \in verified[w] \/ s = <<op[t].key, op[t].gen>>
  BY DEF K!Remember, KeyBase, KeyTyping
<1>3. CASE s \in verified[w]
  <2>1. s[1] \in ClientKeys
    BY <1>3 DEF KeyBase, KeyTyping
  <2> QED BY <1>3, <2>1 DEF Remembering, Trusted, K!Accepts, K!Has
<1>4. CASE s = <<op[t].key, op[t].gen>>
  <2>1. s[1] = op[t].key /\ s[2] = op[t].gen
    BY <1>4
  <2>2. K!Store[s[1]] = wanted[s[1]]
    BY <1>1, <2>1, UntouchedStands
  <2> QED BY <2>1, <2>2 DEF K!Accepts, K!Has
<1> QED BY <1>2, <1>3, <1>4

LEMMA CacheStep ==
  ASSUME KeyBase, KeyBase', K!Quiet, K!Quiet', ~K!Fault, Orderly, Remembering, NEW t \in Threads, KeyActs(t)
  PROVE  Remembering'
<1>1. /\ at' = [at EXCEPT ![t] = at'[t]] /\ ~overlap /\ ~overlap' /\ storage' = storage
      /\ \A u \in Threads \ {t} : op'[u] = op[u] /\ seen'[u] = seen[u]
  BY ActsGo DEF K!Quiet
<1>2. /\ at \in [Threads -> KeyStages] /\ op \in [Threads -> KeyOp \cup {Nobody}]
      /\ by \in [ClientKeys -> K!Workers \cup {Nobody}] /\ wanted \in KeyTable
      /\ verified \in [K!Workers -> SUBSET (ClientKeys \X Nat)]
  BY DEF KeyBase, KeyTyping
<1>3. at[t] # "idle" => op[t] \in KeyOp /\ op[t].key \in ClientKeys
  BY DEF KeyBase, Locked, KeyOp
<1>4. ASSUME t \in K!Busy(at)
      PROVE  /\ K!Busy(at) = {t}
             /\ K!Busy(at') = IF at'[t] \in {"idle", "find", "scan"} THEN {} ELSE {t}
  BY <1>1, <1>4, WorksAlone
<1>5. CASE K!Administer(t)
  <2>1. PICK o \in K!Asked :
          /\ op' = [op EXCEPT ![t] = o]
          /\ by' = IF o.what = "create" THEN [by EXCEPT ![o.key] = Home[t]] ELSE by
          /\ K!Goto(t, IF o.what = "delete" /\ storage = "postgres" THEN "delete" ELSE "load")
    BY <1>5 DEF K!Administer
  <2>2. /\ at[t] = "idle" /\ UNCHANGED <<verified, wanted>> /\ op'[t] = o /\ t \notin K!Busy(at)
        /\ at'[t] = IF o.what = "delete" /\ storage = "postgres" THEN "delete" ELSE "load"
    BY <1>2, <1>5, <2>1 DEF K!Administer, K!Goto, K!Busy
  <2>3. K!Busy(at') = {t} /\ K!Busy(at) = {}
    BY <1>1, <2>2, BeginsAlone
  <2> SUFFICES ASSUME NEW w \in K!Workers, NEW s \in verified[w], by'[s[1]] = w, ~Changing(s[1])'
               PROVE  K!Accepts(wanted[s[1]], s[2])'
    BY <2>2 DEF Remembering, Trusted
  <2>4. s[1] \in ClientKeys /\ ~Changing(s[1])
    BY <1>2, <2>3 DEF Changing
  <2>5. ~(o.what = "create" /\ o.key = s[1])
    BY <2>2, <2>3 DEF Changing
  <2>6. by'[s[1]] = by[s[1]]
    BY <1>2, <2>1, <2>4, <2>5
  <2> QED BY <2>2, <2>4, <2>6 DEF Remembering, Trusted, K!Accepts, K!Has
<1>6. CASE K!Load(t) \/ K!Upsert(t) \/ K!Save(t) \/ K!Delete(t) \/ K!Touch(t)
  <2>1. /\ UNCHANGED <<verified, wanted, by>>
        /\ at[t] \in {"load", "upsert", "save", "delete", "touch"} /\ t \in K!Busy(at)
    BY <1>6 DEF K!Load, K!Upsert, K!Save, K!Delete, K!Touch, K!Busy
  <2>2. K!Busy(at) = {t} /\ K!Busy(at') = IF at'[t] \in {"idle", "find", "scan"} THEN {} ELSE {t}
    BY <1>4, <2>1
  <2>3. /\ at[t] \in {"upsert", "save"} => at'[t] \in {"save", "invalidate"} /\ op' = op
        /\ at[t] = "load" /\ op[t].what = "create" => at'[t] \in {"upsert", "save"} /\ op' = op
    BY <1>2, <1>6 DEF K!Load, K!Upsert, K!Save, K!Delete, K!Touch, K!Goto
  <2>4. \A k \in ClientKeys : Changing(k) => Changing(k)'
    BY <2>1, <2>2, <2>3 DEF Changing
  <2> QED BY <2>1, <2>4, NothingNew
<1>7. CASE K!Invalidate(t)
  <2> DEFINE k == op[t].key
             kept == IF op[t].what = "delete" THEN Absent ELSE seen[t][k]
  <2>1. /\ at[t] = "invalidate" /\ verified' = [verified EXCEPT ![Home[t]] = {}]
        /\ wanted' = [wanted EXCEPT ![k] = kept] /\ by' = [by EXCEPT ![k] = Home[t]] /\ t \in K!Busy(at)
    BY <1>7 DEF K!Invalidate, K!Busy
  <2>2. K!Busy(at) = {t} /\ k \in ClientKeys
    BY <1>3, <1>4, <2>1
  <2> HIDE DEF kept
  <2> SUFFICES ASSUME NEW w \in K!Workers, NEW s \in verified'[w], by'[s[1]] = w
               PROVE  K!Accepts(wanted'[s[1]], s[2])
    BY DEF Remembering, Trusted, K!Accepts, K!Has
  <2>3. w # Home[t] /\ s \in verified[w]
    BY <1>2, <2>1, HomesAreWorkers
  <2>4. s[1] \in ClientKeys /\ s[1] # k
    BY <1>2, <2>1, <2>2, <2>3
  <2>5. wanted'[s[1]] = wanted[s[1]] /\ by[s[1]] = w /\ ~Changing(s[1])
    BY <1>2, <2>1, <2>2, <2>4 DEF Changing, KeyTable
  <2> QED BY <2>3, <2>5 DEF Remembering, Trusted
<1>8. CASE K!Verify(t)
  <2>1. at[t] = "idle" /\ UNCHANGED <<storage, pg, file, verified, wanted, by>> /\ at'[t] \in {"find", "scan"}
    BY <1>2, <1>8 DEF K!Verify, K!Goto
  <2>2. \A k \in ClientKeys : Changing(k)' <=> Changing(k)
    BY <1>1, <2>1, Bystander DEF K!Busy
  <2> QED BY <2>1, <2>2, NothingNew
<1>9. CASE K!Find(t) \/ K!Scan(t)
  <2>1. at[t] \in {"find", "scan"} /\ UNCHANGED <<storage, pg, file, wanted, by>> /\ t \notin K!Busy(at)
    BY <1>9 DEF K!Find, K!Scan, K!Busy
  <2>2. \/ UNCHANGED verified
        \/ K!Remember(t) /\ K!Accepts(K!Store[op[t].key], op[t].gen)
    <3>1. CASE K!Find(t)
      <4>1. K!Store = pg
        BY <3>1 DEF K!Store, K!Find, KeyBase, Locked
      <4> QED BY <3>1, <4>1 DEF K!Find, K!Accepts
    <3>2. CASE K!Scan(t)
      BY <3>2 DEF K!Scan, K!Loaded
    <3> QED BY <1>9, <3>1, <3>2
  <2>3. CASE at'[t] \in {"idle", "find", "scan"}
    <3>1. \A k \in ClientKeys : Changing(k)' <=> Changing(k)
      BY <1>1, <2>1, <2>3, Bystander
    <3> QED BY <2>1, <2>2, <3>1, NothingNew, RemembersAnew
  <2>4. CASE at'[t] \notin {"idle", "find", "scan"}
    <3>1. at'[t] = "touch"
      <4>1. \E where \in {"idle", "scan", "touch"} : K!Goto(t, where)
        BY <1>9 DEF K!Find, K!Scan, K!Return
      <4> QED BY <1>2, <2>4, <4>1 DEF K!Goto
    <3>2. K!Busy(at') = {t} /\ K!Busy(at) = {}
      BY <1>1, <2>1, <2>4, BeginsAlone
    <3>3. \A k \in ClientKeys : Changing(k)' <=> Changing(k)
      BY <3>1, <3>2 DEF Changing
    <3> QED BY <2>1, <2>2, <3>3, NothingNew, RemembersAnew
  <2> QED BY <2>3, <2>4
<1> QED BY <1>5, <1>6, <1>7, <1>8, <1>9 DEF KeyActs

KeyInvariant == KeyBase /\ TableInv /\ CacheInv

LEMMA KeyInit == K!Init => KeyInvariant
<1> SUFFICES ASSUME K!Init PROVE KeyInvariant
  OBVIOUS
<1> DEFINE table == [k \in ClientKeys |-> IF k \in Made THEN K!Row(1, TRUE) ELSE Absent]
           none == [k \in ClientKeys |-> Absent]
<1>1. table \in KeyTable /\ none \in KeyTable
  BY DEF KeyTable, KeyRow, K!Row
<1>2. /\ pg = (IF storage = "postgres" THEN table ELSE none) /\ file = (IF storage = "file" THEN table ELSE none)
      /\ wanted = table /\ storage \in {"postgres", "file"} /\ counting \in BOOLEAN
      /\ seen = [t \in Threads |-> none]
  BY DEF K!Init
<1> HIDE DEF table, none
<1>3. /\ lock = [w \in K!Workers |-> Nobody] /\ verified = [w \in K!Workers |-> {}]
      /\ at = [t \in Threads |-> "idle"] /\ op = [t \in Threads |-> Nobody]
      /\ newest = 1 /\ faults = 0 /\ overlap = FALSE
  BY DEF K!Init
<1>4. by \in [ClientKeys -> K!Workers \cup {Nobody}]
  <2>1. by = [k \in ClientKeys |-> IF k \in Made THEN Home[CHOOSE t \in Threads : TRUE] ELSE Nobody]
    BY DEF K!Init
  <2>2. (CHOOSE t \in Threads : TRUE) \in Threads
    BY NobodyIsNoThread
  <2> QED BY <2>1, <2>2, HomesAreWorkers
<1>5. KeyBase
  BY <1>1, <1>2, <1>3, <1>4 DEF KeyBase, KeyTyping, Locked, Together, K!Busy, KeyStages
<1>6. Stands /\ K!Busy(at) = {}
  BY <1>2, <1>3 DEF Stands, K!Store, K!Busy
<1>7. Orderly /\ Remembering
  BY <1>3, <1>6 DEF Orderly, Remembering
<1> QED BY <1>5, <1>7 DEF KeyInvariant, TableInv, CacheInv

LEMMA KeyStep == KeyInvariant /\ [K!Next]_keyVars => KeyInvariant'
<1> SUFFICES ASSUME KeyInvariant, [K!Next]_keyVars PROVE KeyInvariant'
  OBVIOUS
<1>1. KeyBase /\ KeyBase'
  BY KeyBaseStep DEF KeyInvariant
<1> SUFFICES ASSUME K!Quiet' PROVE Orderly' /\ Remembering'
  BY <1>1 DEF KeyInvariant, TableInv, CacheInv
<1>2. CASE UNCHANGED keyVars
  <2>1. K!Quiet
    BY <1>2 DEF keyVars, K!Quiet
  <2>2. Orderly'
    BY <1>2, <2>1 DEF KeyInvariant, TableInv, Orderly, keyVars, Sees, Stands, K!Store, K!Busy
  <2>3. Remembering'
    BY <1>2, <2>1 DEF KeyInvariant, CacheInv, Remembering, Trusted, Changing, K!Accepts, K!Has, keyVars, K!Busy
  <2> QED BY <2>2, <2>3
<1>3. ASSUME NEW w \in K!Workers, K!Expire(w) PROVE Orderly' /\ Remembering'
  <2>1. /\ UNCHANGED <<storage, counting, pg, file, lock, at, op, seen, newest, wanted, by, ops, overlap>>
        /\ faults' = faults + 1
        /\ \E s \in verified[w] : verified' = [verified EXCEPT ![w] = @ \ {s}]
    BY <1>3 DEF K!Expire
  <2>2. K!Quiet
    BY <1>1, <2>1 DEF K!Quiet, KeyBase, KeyTyping
  <2>3. Orderly'
    BY <2>1, <2>2 DEF KeyInvariant, TableInv, Orderly, Sees, Stands, K!Store, K!Busy
  <2>4. \A v \in K!Workers : verified'[v] \subseteq verified[v]
    BY <1>1, <2>1 DEF KeyBase, KeyTyping
  <2>5. Remembering'
    BY <2>1, <2>2, <2>4 DEF KeyInvariant, CacheInv, Remembering, Trusted, Changing, K!Accepts, K!Has, K!Busy
  <2> QED BY <2>3, <2>5
<1>4. ASSUME NEW t \in Threads, KeyActs(t) PROVE Orderly' /\ Remembering'
  <2>1. K!Quiet /\ ~K!Fault
    BY <1>1, <1>4, ActsGo, QuietBefore
  <2>2. Orderly /\ Remembering
    BY <2>1 DEF KeyInvariant, TableInv, CacheInv
  <2> QED BY <1>1, <1>4, <2>1, <2>2, OrderlyStep, CacheStep
<1> QED BY <1>2, <1>3, <1>4 DEF K!Next, KeyActs

\* Every key nobody is working on stands as its last administrator has left it
\* (create_key, regenerate_key, set_enabled, update_key, delete_key rewrite the
\* table from a copy), and the worker where a key was changed accepts only its
\* present secret (_verify_cache), unless PostgreSQL fails or two workers
\* overlap: for any keys, threads and workers.
THEOREM KeysFollow == GatewaySpec => []KeysFollowAdmin
<1>1. KeyInvariant => K!TableFollowsAdmin
  <2> SUFFICES ASSUME KeyInvariant, K!Quiet, NEW k \in ClientKeys, \A t \in K!Busy(at) : op[t].key # k
               PROVE  K!Store[k] = wanted[k]
    BY DEF K!TableFollowsAdmin
  <2>1. ~Changing(k)
    BY DEF Changing
  <2> QED BY <2>1, UntouchedStands DEF KeyInvariant, TableInv
<1>2. KeyInvariant => K!WithdrawnIsForgotten
  <2> SUFFICES ASSUME KeyInvariant, K!Quiet, NEW w \in K!Workers, NEW s \in verified[w], by[s[1]] = w,
                      \A t \in K!Busy(at) : op[t].key # s[1]
               PROVE  K!Accepts(wanted[s[1]], s[2])
    BY DEF K!WithdrawnIsForgotten
  <2>1. ~Changing(s[1])
    BY DEF Changing
  <2> QED BY <2>1 DEF KeyInvariant, CacheInv, Remembering, Trusted
<1>3. KeyInvariant => KeysFollowAdmin
  BY <1>1, <1>2 DEF KeysFollowAdmin
<1>4. GatewayInit => K!Init
  BY DEF GatewayInit
<1> QED BY <1>3, <1>4, PartsStepAlone, KeyInit, KeyStep, PTL DEF GatewaySpec
-----------------------------------------------------------------------------
(* The choice of an account: any pool, window, rows and requests.  The       *)
(* operators on lists come first, then what a request is given, then the     *)
(* marks, which are counted with the requests that are served.               *)
\* The counting and listing of Selector are the standard ones.
LEMMA StandardCounting == \A X : S!Cardinality(X) = Cardinality(X)
BY Zenon DEF S!Cardinality, Cardinality

Members(t) == {t[j] : j \in DOMAIN t}

\* Of a list, those that belong to a set, and all of them.
LEMMA WithinsAre ==
  ASSUME NEW X, NEW s \in Seq(X), NEW C
  PROVE  /\ S!Within(s, C) \in Seq(X \cap C)
         /\ \A i \in DOMAIN s : s[i] \in C => s[i] \in Members(S!Within(s, C))
<1> DEFINE m == Len(s)
           V == Seq(X \cap C)
           G == [x \in V \X X |-> IF x[2] \in C THEN Append(x[1], x[2]) ELSE x[1]]
           Runs(f) == f = [i \in 0 .. m |-> IF i = 0 THEN <<>>
                                            ELSE IF s[i] \in C THEN Append(f[i - 1], s[i]) ELSE f[i - 1]]
           g == CHOOSE f : Runs(f)
<1>1. m \in Nat /\ s \in [1 .. m -> X] /\ DOMAIN s = 1 .. m
  OBVIOUS
<1>2. ASSUME NEW x \in V, NEW y \in X PROVE (IF y \in C THEN Append(x, y) ELSE x) \in V
  OBVIOUS
<1>3. G \in [V \X X -> V] /\ <<>> \in V
  BY <1>2
<1>4. \E f : Runs(f)
  <2>1. PICK f \in [0 .. m -> V] : f[0] = <<>> /\ \A i \in 1 .. m : f[i] = G[<<f[i - 1], s[i]>>]
    <3> HIDE DEF V, G, m
    <3>1. Iterated(V, G, <<>>, m, s)
      BY <1>1, <1>3, Iterates
    <3> QED BY <3>1 DEF Iterated
  <2>2. ASSUME NEW i \in 1 .. m PROVE f[i] = IF s[i] \in C THEN Append(f[i - 1], s[i]) ELSE f[i - 1]
    <3>1. f[i - 1] \in V /\ s[i] \in X
      BY <1>1, <2>1
    <3> QED BY <2>1, <3>1
  <2>3. \A i \in 0 .. m : i # 0 => i \in 1 .. m
    BY <1>1
  <2>4. Runs(f)
    <3> HIDE DEF V, G
    <3> QED BY <2>1, <2>2, <2>3
  <2> QED BY <2>4
<1>5. Runs(g)
  BY <1>4, Zenon
<1>6. S!Within(s, C) = g[m]
  BY Zenon DEF S!Within
<1> HIDE DEF g
<1>7. g[0] = <<>> /\ \A i \in 1 .. m : g[i] = IF s[i] \in C THEN Append(g[i - 1], s[i]) ELSE g[i - 1]
  <2>1. \A i \in 0 .. m : g[i] = IF i = 0 THEN <<>> ELSE IF s[i] \in C THEN Append(g[i - 1], s[i]) ELSE g[i - 1]
    BY <1>5, Zenon
  <2> QED BY <1>1, <2>1
<1> DEFINE Has(t, x) == \E j \in DOMAIN t : t[j] = x
           T == {n \in Nat : n <= m => g[n] \in V /\ \A i \in 1 .. n : s[i] \in C => Has(g[n], s[i])}
<1>8. T = Nat
  <2>1. 0 \in T
    <3>1. g[0] \in V /\ ~(\E i \in 1 .. 0 : TRUE)
      BY <1>3, <1>7
    <3> HIDE DEF V
    <3> QED BY <3>1
  <2>2. ASSUME NEW n \in T PROVE n + 1 \in T
    <3> SUFFICES ASSUME n + 1 <= m
                 PROVE  g[n + 1] \in V /\ \A i \in 1 .. n + 1 : s[i] \in C => Has(g[n + 1], s[i])
      OBVIOUS
    <3>1. g[n] \in V /\ (\A i \in 1 .. n : s[i] \in C => Has(g[n], s[i])) /\ s[n + 1] \in X
      BY <1>1
    <3>2. g[n + 1] = IF s[n + 1] \in C THEN Append(g[n], s[n + 1]) ELSE g[n]
      BY <1>7
    <3>3. CASE s[n + 1] \in C
      <4>1. g[n + 1] = Append(g[n], s[n + 1]) /\ g[n] \in Seq(X \cap C) /\ s[n + 1] \in X \cap C
        BY <3>1, <3>2, <3>3
      <4>2. /\ g[n + 1] \in Seq(X \cap C) /\ Len(g[n + 1]) = Len(g[n]) + 1
            /\ \A j \in 1 .. Len(g[n]) : g[n + 1][j] = g[n][j]
            /\ g[n + 1][Len(g[n]) + 1] = s[n + 1]
        BY <4>1
      <4>3. \A x : Has(g[n], x) => Has(g[n + 1], x)
        BY <4>1, <4>2
      <4>4. Has(g[n + 1], s[n + 1])
        <5>1. Len(g[n]) + 1 \in DOMAIN g[n + 1]
          BY <4>1, <4>2
        <5> QED BY <4>2, <5>1
      <4> HIDE DEF Has
      <4>5. \A i \in 1 .. n + 1 : i \in 1 .. n \/ i = n + 1
        OBVIOUS
      <4> QED BY <3>1, <4>2, <4>3, <4>4, <4>5
    <3>4. CASE s[n + 1] \notin C
      <4>1. g[n + 1] = g[n]
        BY <3>2, <3>4
      <4>2. \A i \in 1 .. n + 1 : i \in 1 .. n \/ i = n + 1
        OBVIOUS
      <4> HIDE DEF Has
      <4> QED BY <3>1, <3>4, <4>1, <4>2
    <3> QED BY <3>3, <3>4
  <2> HIDE DEF T
  <2>3. T \in SUBSET Nat
    BY DEF T
  <2> QED BY <2>1, <2>2, <2>3, SetInduction
<1>9. m \in T
  BY <1>1, <1>8
<1>10. g[m] \in V /\ \A i \in 1 .. m : s[i] \in C => Has(g[m], s[i])
  BY <1>1, <1>9
<1> QED BY <1>1, <1>6, <1>10 DEF Members

LEMMA ListedAre ==
  ASSUME NEW C
  PROVE  /\ S!Listed(C) \in Seq(Pool \cap C)
         /\ \A a \in Pool \cap C : a \in Members(S!Listed(C))
<1>1. PICK n \in Nat : Pool = 1 .. n
  BY CandidatesAreListed, FS_CardinalityType
<1>2. S!Cardinality(Pool) = n
  BY <1>1, StandardCounting, FS_Interval
<1> DEFINE all == [i \in 1 .. n |-> i]
<1>3. all \in Seq(Pool) /\ DOMAIN all = Pool /\ \A a \in Pool : all[a] = a
  BY <1>1
<1>4. S!Listed(C) = S!Within(all, C)
  BY <1>2 DEF S!Listed
<1> HIDE DEF all
<1>5. /\ S!Within(all, C) \in Seq(Pool \cap C)
      /\ \A i \in DOMAIN all : all[i] \in C => all[i] \in Members(S!Within(all, C))
  BY <1>3, WithinsAre
<1> QED BY <1>3, <1>4, <1>5

LEMMA FirstAre ==
  ASSUME NEW X, NEW s \in Seq(X), NEW n \in Nat
  PROVE  /\ S!First(s, n) \in Seq(X) /\ DOMAIN S!First(s, n) \subseteq DOMAIN s
         /\ \A i \in DOMAIN S!First(s, n) : S!First(s, n)[i] = s[i]
         /\ n # 0 /\ s # <<>> => S!First(s, n) # <<>>
<1> DEFINE m == S!Lesser(n, Len(s))
<1>1. m \in 0 .. Len(s) /\ Len(s) \in Nat /\ DOMAIN s = 1 .. Len(s)
  BY DEF S!Lesser
<1>2. n # 0 /\ s # <<>> => m # 0
  BY DEF S!Lesser
<1>3. S!First(s, n) = SubSeq(s, 1, m)
  BY DEF S!First
<1> HIDE DEF m
<1>4. SubSeq(s, 1, m) \in Seq(X) /\ Len(SubSeq(s, 1, m)) = m /\ \A i \in 1 .. m : SubSeq(s, 1, m)[i] = s[i]
  BY <1>1
<1>5. DOMAIN SubSeq(s, 1, m) = 1 .. m
  BY <1>1, <1>4
<1> QED BY <1>1, <1>2, <1>3, <1>4, <1>5

LEMMA PreferringAre ==
  ASSUME NEW X \in SUBSET Pool, NEW s \in Seq(X), NEW p
  PROVE  /\ S!Preferring(s, p) \in Seq(X)
         /\ s # <<>> => S!Preferring(s, p) # <<>>
         /\ \A i \in DOMAIN s : s[i] \in Members(S!Preferring(s, p))
<1>1. CASE p = Nobody
  BY <1>1 DEF S!Preferring, Members
<1>2. CASE p # Nobody
  <2> DEFINE a == S!Within(s, {p})
             b == S!Within(s, Pool \ {p})
  <2>1. a \in Seq(X \cap {p}) /\ \A i \in DOMAIN s : s[i] \in {p} => s[i] \in Members(a)
    BY WithinsAre
  <2>2. b \in Seq(X \cap (Pool \ {p}))
        /\ \A i \in DOMAIN s : s[i] \in Pool \ {p} => s[i] \in Members(b)
    BY WithinsAre
  <2>3. S!Preferring(s, p) = a \o b
    BY <1>2 DEF S!Preferring, S!Without
  <2> HIDE DEF a, b
  <2>4. a \in Seq(X) /\ b \in Seq(X)
    BY <2>1, <2>2
  <2>5. /\ a \o b \in Seq(X) /\ Len(a \o b) = Len(a) + Len(b) /\ DOMAIN (a \o b) = 1 .. Len(a) + Len(b)
        /\ \A i \in 1 .. Len(a) : (a \o b)[i] = a[i]
        /\ \A i \in 1 .. Len(b) : (a \o b)[Len(a) + i] = b[i]
    BY <2>4
  <2>6. ASSUME NEW i \in DOMAIN s PROVE \E j \in DOMAIN (a \o b) : (a \o b)[j] = s[i]
    <3>1. CASE s[i] = p
      <4>1. PICK j \in DOMAIN a : a[j] = s[i]
        BY <2>1, <3>1 DEF Members
      <4>2. j \in 1 .. Len(a) /\ Len(a) \in Nat /\ Len(b) \in Nat
        BY <2>4, <4>1
      <4> QED BY <2>5, <4>1, <4>2
    <3>2. CASE s[i] # p
      <4>1. s[i] \in Pool \ {p}
        BY <3>2
      <4>2. PICK j \in DOMAIN b : b[j] = s[i]
        BY <2>2, <4>1 DEF Members
      <4>3. j \in 1 .. Len(b) /\ Len(a) \in Nat /\ Len(b) \in Nat
        BY <2>4, <4>2
      <4>4. Len(a) + j \in 1 .. Len(a) + Len(b)
        BY <4>3
      <4> QED BY <2>5, <4>2, <4>3, <4>4
    <3> QED BY <3>1, <3>2
  <2>7. s # <<>> => 1 \in DOMAIN s
    OBVIOUS
  <2>8. s # <<>> => a \o b # <<>>
    BY <2>5, <2>6, <2>7
  <2> QED BY <2>3, <2>5, <2>6, <2>8 DEF Members
<1> QED BY <1>1, <1>2

PoolRow == [cool : BOOLEAN, off : BOOLEAN, quota : BOOLEAN, expired : BOOLEAN,
            block : {"no", "soft", "hard"}, fails : Nat]
Warm(v, X) == {a \in X : ~v[a].cool}

\* The passes never overlook a cooldown, and together nothing else but a
\* quota that is used up.
LEMMA FirstPassIs ==
  ASSUME NEW X \in SUBSET Pool, NEW s \in Seq(X), NEW v \in [Pool -> PoolRow]
  PROVE  /\ S!FirstPass(v, s) \in Seq(Warm(v, X))
         /\ S!FirstPass(v, s) = <<>> => \A i \in DOMAIN s : v[s[i]].cool \/ v[s[i]].quota
<1> DEFINE C(i) == CASE i = 1 -> S!Usable(v) [] i = 2 -> S!SoftlyBlocked(v) [] i = 3 -> S!Switched(v)
                     [] i = 4 -> {a \in Pool : ~v[a].cool /\ ~v[a].quota}
           passes == S!Passes(v, s)
           found == {i \in 1 .. 4 : passes[i] # <<>>}
           least == CHOOSE i \in found : \A j \in found : i <= j
<1>1. \A i \in 1 .. 4 : passes[i] = S!Within(s, C(i))
  BY DEF S!Passes
<1>2. \A i \in 1 .. 4 : C(i) \subseteq Warm(v, Pool)
  BY DEF S!Usable, S!SoftlyBlocked, S!Switched, S!Enabled, Warm
<1>3. S!FirstPass(v, s) = IF found = {} THEN <<>> ELSE passes[least]
  BY DEF S!FirstPass
<1> HIDE DEF passes
<1>4. ASSUME NEW i \in 1 .. 4 PROVE passes[i] \in Seq(Warm(v, X))
  <2> DEFINE k == C(i)
  <2>1. passes[i] = S!Within(s, k) /\ k \subseteq Warm(v, Pool)
    BY <1>1, <1>2
  <2> HIDE DEF k
  <2>2. S!Within(s, k) \in Seq(X \cap k)
    BY WithinsAre
  <2>3. X \cap k \subseteq Warm(v, X)
    BY <2>1 DEF Warm
  <2> HIDE DEF Warm
  <2> QED BY <2>1, <2>2, <2>3
<1>5. found # {} => least \in found
  <2>1. found \in SUBSET Nat
    OBVIOUS
  <2> HIDE DEF found
  <2>2. found # {} => \E i \in found : \A j \in found : i <= j
    BY <2>1, LeastOfSet
  <2> QED BY <2>2
<1>6. <<>> \in Seq(Warm(v, X))
  OBVIOUS
<1>7. S!FirstPass(v, s) \in Seq(Warm(v, X))
  BY <1>3, <1>4, <1>5, <1>6
<1>8. ASSUME S!FirstPass(v, s) = <<>>, NEW i \in DOMAIN s
      PROVE  v[s[i]].cool \/ v[s[i]].quota
  <2> DEFINE k == C(4)
  <2>1. found = {}
    BY <1>3, <1>5, <1>8
  <2>2. passes[4] = <<>> /\ passes[4] = S!Within(s, k)
    BY <1>1, <2>1
  <2>3. s[i] \in Pool
    OBVIOUS
  <2>4. k = {a \in Pool : ~v[a].cool /\ ~v[a].quota}
    OBVIOUS
  <2> HIDE DEF k
  <2>5. s[i] \in k => s[i] \in Members(S!Within(s, k))
    BY WithinsAre
  <2>6. s[i] \notin k
    BY <2>2, <2>5 DEF Members
  <2> QED BY <2>3, <2>4, <2>6
<1> QED BY <1>7, <1>8

\* The orders the modes allow are orders of the same accounts.
LEMMA OrdersAre ==
  ASSUME NEW X \in SUBSET Pool, NEW s \in Seq(X), NEW v, NEW t \in S!Orders(v, s)
  PROVE  t \in Seq(X) /\ (s # <<>> => t # <<>>)
<1> DEFINE R == S!ToSet(s)
<1>1. R \subseteq X /\ (s # <<>> => s[1] \in R)
  BY DEF S!ToSet
<1>2. PICK n \in Nat : Pool = 1 .. n
  BY CandidatesAreListed, FS_CardinalityType
<1>3. IsFiniteSet(Pool)
  BY <1>2, FS_Interval
<1>4. R \in SUBSET Pool
  BY <1>1
<1> HIDE DEF R
<1>5. IsFiniteSet(R)
  BY <1>3, <1>4, FS_Subset
<1>6. Cardinality(R) \in Nat /\ (R # {} => Cardinality(R) # 0)
  BY <1>5, FS_CardinalityType, FS_EmptySet
<1>7. t \in S!SetToSeqs(R)
  BY DEF S!Orders, R
<1>8. t \in [1 .. Cardinality(R) -> R]
  BY <1>7, StandardCounting DEF S!SetToSeqs
<1>9. t \in Seq(R) /\ Len(t) = Cardinality(R)
  BY <1>6, <1>8
<1>10. s # <<>> => Len(t) # 0
  BY <1>1, <1>6, <1>9
<1> QED BY <1>1, <1>9, <1>10

LEMMA StickyAre ==
  ASSUME NEW X \in SUBSET Pool, NEW s \in Seq(X), NEW v, NEW p
  PROVE  S!Sticky(v, s, p) \in Seq(X) /\ (s # <<>> => S!Sticky(v, s, p) # <<>>)
<1>1. CASE S!Sticky(v, s, p) = s
  BY <1>1
<1>2. CASE S!Contains(s, p) /\ S!Sticky(v, s, p) = S!Without(s, p) \o <<p>>
  <2>1. p \in X
    BY <1>2 DEF S!Contains
  <2> DEFINE w == S!Within(s, Pool \ {p})
  <2>2. w \in Seq(X \cap (Pool \ {p}))
    BY WithinsAre
  <2>3. S!Sticky(v, s, p) = w \o <<p>>
    BY <1>2 DEF S!Without
  <2> HIDE DEF w
  <2>4. w \in Seq(X)
    BY <2>2
  <2>5. w \o <<p>> \in Seq(X) /\ Len(w \o <<p>>) = Len(w) + 1 /\ Len(w) \in Nat
    BY <2>1, <2>4
  <2>6. Len(w \o <<p>>) # 0
    BY <2>5
  <2> QED BY <2>3, <2>5, <2>6
<1>3. CASE S!Sticky(v, s, p) = S!Preferring(s, p)
  <2>1. S!Preferring(s, p) \in Seq(X) /\ (s # <<>> => S!Preferring(s, p) # <<>>)
    BY PreferringAre
  <2> QED BY <1>3, <2>1
<1> QED BY <1>1, <1>2, <1>3 DEF S!Sticky

LEMMA WindowsAre ==
  ASSUME fresh \subseteq Pool, fresh # {}, cursor \in Nat, NEW p, NEW w \in S!Windows(p)
  PROVE  w \in Seq(Pool)
<1> DEFINE order == S!Preferring(S!Listed(fresh), p)
           start == cursor % Len(order)
           front == SubSeq(order, start + 1, Len(order))
           back == SubSeq(order, 1, start)
           turned == S!First(front \o back, Window)
<1>1. S!Listed(fresh) \in Seq(Pool) /\ S!Listed(fresh) # <<>>
  <2>1. S!Listed(fresh) \in Seq(Pool \cap fresh)
        /\ \A a \in Pool \cap fresh : a \in Members(S!Listed(fresh))
    BY ListedAre
  <2>2. PICK a \in Pool \cap fresh : TRUE
    OBVIOUS
  <2>3. S!Listed(fresh) # <<>>
    BY <2>1, <2>2 DEF Members
  <2> QED BY <2>1, <2>3
<1>2. order \in Seq(Pool) /\ order # <<>>
  BY <1>1, PreferringAre
<1>3. S!Windows(p) = IF Len(order) <= Window \/ mode = "least_used" THEN {S!First(order, Window)}
                     ELSE IF mode = "random"
                     THEN {s \in S!SeqOf(fresh, Window) : Len(s) = Window /\ S!IsInjective(s)}
                     ELSE {S!Preferring(turned, p)}
  BY DEF S!Windows
<1> HIDE DEF order
<1>4. Window \in Nat
  BY CandidatesAreListed
<1>5. CASE w = S!First(order, Window)
  BY <1>2, <1>4, <1>5, FirstAre
<1>6. CASE w \in S!SeqOf(fresh, Window)
  <2>1. PICK n \in 0 .. Window : w \in [1 .. n -> fresh]
    BY <1>6 DEF S!SeqOf
  <2>2. n \in Nat /\ w \in [1 .. n -> Pool]
    BY <1>4, <2>1
  <2> QED BY <2>2
<1>7. CASE w = S!Preferring(turned, p)
  <2>1. Len(order) \in Nat \ {0}
    BY <1>2
  <2>2. start \in 0 .. Len(order) - 1
    BY <2>1
  <2> HIDE DEF start
  <2>3. front \in Seq(Pool) /\ back \in Seq(Pool)
    BY <1>2, <2>1, <2>2
  <2> HIDE DEF front, back
  <2>4. front \o back \in Seq(Pool)
    BY <2>3
  <2>5. turned \in Seq(Pool)
    BY <1>4, <2>4, FirstAre
  <2> HIDE DEF turned
  <2> QED BY <1>7, <2>5, PreferringAre
<1> QED BY <1>3, <1>5, <1>6, <1>7

\* What a search over the window and beyond it finds is warm.
LEMMA CandidatesAre ==
  ASSUME NEW v \in [Pool -> PoolRow], fresh \subseteq Pool, NEW p, NEW w \in Seq(Pool)
  PROVE  S!Candidates(v, w, p) \in Seq(Warm(v, Pool))
<1> DEFINE all == S!Preferring(S!Listed(fresh), p)
           rest == S!Within(all, Pool \ S!ToSet(w))
           extra == S!First(rest, Window)
           usable == S!Within(extra, S!Usable(v))
<1>1. CASE S!FirstPass(v, w) # <<>>
  <2>1. S!FirstPass(v, w) \in Seq(Warm(v, Pool))
    BY FirstPassIs
  <2> QED BY <1>1, <2>1 DEF S!Candidates
<1>2. CASE S!FirstPass(v, w) = <<>>
  <2>1. Window \in Nat /\ 2 * Attempts \in Nat
    BY CandidatesAreListed, TurnAssumption
  <2>2. S!Candidates(v, w, p) = S!First(usable, 2 * Attempts)
    BY <1>2 DEF S!Candidates
  <2>3. S!Listed(fresh) \in Seq(Pool)
    <3>1. S!Listed(fresh) \in Seq(Pool \cap fresh)
      BY ListedAre
    <3> QED BY <3>1
  <2>4. all \in Seq(Pool)
    BY <2>3, PreferringAre
  <2> HIDE DEF all
  <2>5. rest \in Seq(Pool)
    <3>1. rest \in Seq(Pool \cap (Pool \ S!ToSet(w)))
      BY <2>4, WithinsAre
    <3> QED BY <3>1
  <2> HIDE DEF rest
  <2>6. extra \in Seq(Pool)
    BY <2>1, <2>5, FirstAre
  <2> HIDE DEF extra
  <2>7. usable \in Seq(Pool \cap S!Usable(v))
    BY <2>6, WithinsAre
  <2>8. Pool \cap S!Usable(v) \subseteq Warm(v, Pool)
    BY DEF S!Usable, S!Enabled, Warm
  <2> HIDE DEF usable, Warm
  <2>9. usable \in Seq(Warm(v, Pool))
    BY <2>7, <2>8
  <2>10. S!First(usable, 2 * Attempts) \in Seq(Warm(v, Pool))
    BY <2>1, <2>9, FirstAre
  <2> QED BY <2>2, <2>10
<1> QED BY <1>1, <1>2

\* What is known of the choice of accounts: types, and that the worker's copy
\* of the rows differs from them only where others have changed them.
Request == [pc : {"new", "choosing", "chosen", "serving", "refused", "over"},
            chain : Seq(Pool), fast : BOOLEAN, prefer : Pool \cup {Nobody}]
ChoiceTyping ==
  /\ row \in [Pool -> PoolRow] /\ fresh \subseteq Pool /\ cursor \in Nat
  /\ busy \in [Pool -> Nat] /\ leaked \in [Pool -> Nat]
  /\ request \in [Requests -> Request]
  /\ \A n \in Requests : request[n].pc \in {"chosen", "serving"} => request[n].chain # <<>>
CopyIsOld ==
  cache # Cold => cache \in [Pool -> PoolRow] /\ \A a \in Pool \ behind : cache[a] = row[a]
ChoiceInv == ChoiceTyping /\ CopyIsOld

LEMMA ViewIs ==
  ASSUME ChoiceInv
  PROVE  /\ S!View \in [Pool -> PoolRow]
         /\ \A a \in Pool : S!View[a] = row[a] \/ S!Unseen(a)
BY DEF ChoiceInv, ChoiceTyping, CopyIsOld, S!View, S!Unseen

\* The record of a request that has its chain.
Served(chain, fast) ==
  [pc |-> IF chain = <<>> THEN "refused" ELSE IF fast THEN "serving" ELSE "chosen",
   chain |-> chain, fast |-> fast, prefer |-> Nobody]
Cools(a) == S!View[a].cool
OutOfUse(a) == S!View[a].cool \/ S!View[a].quota \/ S!View[a].expired
Chooses(n, chain, fast) ==
  /\ chain \in Seq(Pool) /\ fast \in BOOLEAN
  /\ request' = [request EXCEPT ![n] = Served(chain, fast)]
  /\ \A i \in DOMAIN chain : Cools(chain[i]) => fast /\ i > 1 /\ cache = Cold
  /\ chain = <<>> => \A a \in fresh : OutOfUse(a)
  /\ fast => ~plain'
  /\ ~fast => plain' = plain
  /\ cursor' \in Nat
  /\ \/ cache' = cache /\ behind' = behind
     \/ cache' = S!View /\ behind' = IF cache = Cold THEN {} ELSE behind

LEMMA GivenIs ==
  ASSUME NEW n, NEW chain, NEW fast, S!Given(n, chain, fast)
  PROVE  request' = [request EXCEPT ![n] = Served(chain, fast)]
BY Zenon DEF S!Given, Served

LEMMA FastChooses ==
  ASSUME ChoiceInv, NEW n \in Requests, S!Fast(n)
  PROVE  \E chain, fast : Chooses(n, chain, fast)
<1> DEFINE p == request[n].prefer
           others == S!Without(S!Listed(fresh), p)
           known == IF cache = Cold THEN others ELSE S!Within(others, S!Usable(cache))
<1>1. PICK backups \in {<<>>, S!First(known, Attempts - 1)} : S!Given(n, <<p>> \o backups, TRUE)
  BY DEF S!Fast
<1>2. p # Nobody /\ S!Ready(p) /\ plain' = FALSE /\ UNCHANGED <<cache, cursor, behind>>
  BY DEF S!Fast
<1>3. p \in Pool /\ ~Cools(p)
  BY <1>2 DEF S!Ready, S!Enabled, Cools, ChoiceInv, ChoiceTyping
<1> HIDE DEF p
<1>4. others \in Seq(Pool)
  <2>1. S!Listed(fresh) \in Seq(Pool \cap fresh)
    BY ListedAre
  <2>2. S!Listed(fresh) \in Seq(Pool)
    BY <2>1
  <2>3. S!Within(S!Listed(fresh), Pool \ {p}) \in Seq(Pool \cap (Pool \ {p}))
    BY <2>2, WithinsAre
  <2> QED BY <2>3 DEF S!Without
<1> HIDE DEF others
<1> DEFINE Y == IF cache = Cold THEN Pool ELSE Warm(S!View, Pool)
<1>5. known \in Seq(Y)
  <2>1. CASE cache = Cold
    BY <1>4, <2>1
  <2>2. CASE cache # Cold
    <3>1. S!Within(others, S!Usable(cache)) \in Seq(Pool \cap S!Usable(cache))
      BY <1>4, WithinsAre
    <3>2. Pool \cap S!Usable(cache) \subseteq Y
      BY <2>2 DEF S!Usable, S!Enabled, S!View, Warm
    <3> HIDE DEF Y
    <3> QED BY <2>2, <3>1, <3>2
  <2> QED BY <2>1, <2>2
<1> HIDE DEF known, Y
<1>6. backups \in Seq(Y)
  <2>1. Attempts - 1 \in Nat
    BY TurnAssumption
  <2>2. S!First(known, Attempts - 1) \in Seq(Y) /\ <<>> \in Seq(Y)
    BY <1>5, <2>1, FirstAre
  <2> QED BY <1>1, <2>2
<1> DEFINE chain == <<p>> \o backups
<1>7. /\ Len(chain) = 1 + Len(backups) /\ Len(backups) \in Nat
      /\ chain[1] = p /\ \A i \in 1 .. Len(backups) : chain[1 + i] = backups[i]
  BY <1>6
<1>8. Y \subseteq Pool
  BY DEF Y, Warm
<1>9. chain \in Seq(Pool) /\ chain # <<>>
  <2>1. backups \in Seq(Pool)
    BY <1>6, <1>8
  <2> QED BY <1>3, <1>7, <2>1
<1>10. ASSUME NEW i \in DOMAIN chain, Cools(chain[i]) PROVE i > 1 /\ cache = Cold
  <2>1. i \in 1 .. 1 + Len(backups)
    BY <1>7, <1>9
  <2>2. i # 1
    BY <1>3, <1>7, <1>10
  <2> DEFINE j == i - 1
  <2>3. j \in 1 .. Len(backups) /\ i = 1 + j
    BY <1>7, <2>1, <2>2
  <2>4. chain[i] = backups[j] /\ backups[j] \in Y
    BY <1>6, <1>7, <2>3
  <2> QED BY <1>10, <2>1, <2>2, <2>4 DEF Y, Warm, Cools
<1> HIDE DEF chain
<1>11. request' = [request EXCEPT ![n] = Served(chain, TRUE)]
  BY <1>1, GivenIs DEF chain
<1>12. Chooses(n, chain, TRUE)
  BY <1>2, <1>9, <1>10, <1>11 DEF Chooses, ChoiceInv, ChoiceTyping
<1> QED BY <1>12

LEMMA FullChooses ==
  ASSUME ChoiceInv, NEW n \in Requests, S!Full(n)
  PROVE  \E chain, fast : Chooses(n, chain, fast)
<1> DEFINE p == request[n].prefer
           v == S!View
           found == IF fresh = {} THEN {<<>>} ELSE {S!Candidates(v, w, p) : w \in S!Windows(p)}
<1>1. PICK s \in found :
        IF s = <<>> THEN S!Acquire(n)
        ELSE /\ \E t \in S!Orders(v, s) : S!Given(n, S!First(S!Sticky(v, t, p), Attempts), FALSE)
             /\ cursor' = IF S!Advances THEN cursor + 1 ELSE cursor
             /\ UNCHANGED <<cache, behind, plain>>
  BY DEF S!Full
<1>2. v \in [Pool -> PoolRow] /\ fresh \subseteq Pool /\ cursor \in Nat
  BY ViewIs DEF ChoiceInv, ChoiceTyping
<1> HIDE DEF p, v
<1>3. CASE s # <<>>
  <2>1. fresh # {}
    BY <1>1, <1>3
  <2>2. PICK w \in S!Windows(p) : s = S!Candidates(v, w, p)
    BY <1>1, <2>1
  <2>3. w \in Seq(Pool)
    BY <1>2, <2>1, WindowsAre
  <2>4. s \in Seq(Warm(v, Pool))
    BY <1>2, <2>2, <2>3, CandidatesAre
  <2>5. PICK t \in S!Orders(v, s) : S!Given(n, S!First(S!Sticky(v, t, p), Attempts), FALSE)
    BY <1>1, <1>3
  <2> DEFINE W == Warm(v, Pool)
             sticky == S!Sticky(v, t, p)
             chain == S!First(sticky, Attempts)
  <2>6. W \in SUBSET Pool
    BY DEF Warm
  <2> HIDE DEF W
  <2>7. t \in Seq(W) /\ t # <<>>
    BY <1>3, <2>4, <2>5, <2>6, OrdersAre DEF W
  <2>8. sticky \in Seq(W) /\ sticky # <<>>
    BY <2>6, <2>7, StickyAre
  <2> HIDE DEF sticky
  <2>9. chain \in Seq(W) /\ chain # <<>>
    <3>1. Attempts \in Nat /\ Attempts # 0
      BY TurnAssumption
    <3> QED BY <2>8, <3>1, FirstAre
  <2>10. request' = [request EXCEPT ![n] = Served(chain, FALSE)]
    BY <2>5, GivenIs DEF sticky
  <2> HIDE DEF chain
  <2>11. chain \in Seq(Pool) /\ \A i \in DOMAIN chain : chain[i] \in W
    BY <2>6, <2>9
  <2>12. \A i \in DOMAIN chain : ~Cools(chain[i])
    BY <2>11 DEF W, Warm, Cools, v
  <2>13. cursor' \in Nat /\ UNCHANGED <<cache, behind, plain>>
    BY <1>1, <1>2, <1>3
  <2>14. Chooses(n, chain, FALSE)
    BY <2>9, <2>10, <2>11, <2>12, <2>13 DEF Chooses
  <2> QED BY <2>14
<1>4. CASE s = <<>>
  <2> DEFINE F == {a \in fresh : ~v[a].expired}
             list == S!Listed(F)
             eligible == S!FirstPass(v, list)
  <2>1. S!Eligible(v) = eligible
    BY DEF S!Eligible
  <2>2. /\ IF eligible = <<>> THEN S!Given(n, <<>>, FALSE) /\ UNCHANGED cursor
           ELSE \E i \in S!Picks(v, eligible) :
                  /\ S!Given(n, <<eligible[i]>>, FALSE)
                  /\ cursor' = IF mode = "round_robin" THEN cursor + 1 ELSE cursor
        /\ cache' = v /\ behind' = IF cache = Cold THEN {} ELSE behind
        /\ UNCHANGED plain
    BY <1>1, <1>4, <2>1 DEF S!Acquire, v
  <2>3. list \in Seq(Pool) /\ \A a \in F : a \in Members(list)
    <3>1. list \in Seq(Pool \cap F) /\ \A a \in Pool \cap F : a \in Members(list)
      <4> HIDE DEF F
      <4> QED BY ListedAre
    <3>2. Pool \cap F = F
      BY <1>2
    <3> HIDE DEF F, list
    <3> QED BY <3>1, <3>2
  <2> HIDE DEF list
  <2>4. /\ eligible \in Seq(Warm(v, Pool))
        /\ eligible = <<>> => \A i \in DOMAIN list : v[list[i]].cool \/ v[list[i]].quota
    BY <1>2, <2>3, FirstPassIs
  <2> HIDE DEF eligible
  <2>5. cursor' \in Nat /\ cache' = S!View /\ behind' = (IF cache = Cold THEN {} ELSE behind) /\ plain' = plain
    <3>1. cursor' = cursor \/ cursor' = cursor + 1
      BY <2>2
    <3> QED BY <1>2, <2>2, <3>1 DEF v
  <2>6. CASE eligible = <<>>
    <3>1. ASSUME NEW a \in fresh PROVE OutOfUse(a)
      <4>1. CASE v[a].expired
        BY <4>1 DEF OutOfUse, v
      <4>2. CASE ~v[a].expired
        <5>1. PICK i \in DOMAIN list : list[i] = a
          BY <2>3, <4>2 DEF Members
        <5> QED BY <2>4, <2>6, <5>1 DEF OutOfUse, v
      <4> QED BY <4>1, <4>2
    <3>2. request' = [request EXCEPT ![n] = Served(<<>>, FALSE)]
      BY <2>2, <2>6, GivenIs
    <3>3. Chooses(n, <<>>, FALSE)
      BY <2>5, <3>1, <3>2 DEF Chooses
    <3> QED BY <3>3
  <2>7. CASE eligible # <<>>
    <3>1. PICK i \in S!Picks(v, eligible) : S!Given(n, <<eligible[i]>>, FALSE)
      BY <2>2, <2>7
    <3>2. i \in DOMAIN eligible
      BY <3>1 DEF S!Picks
    <3>3. eligible[i] \in Warm(v, Pool)
      BY <2>4, <3>2
    <3> DEFINE chain == <<eligible[i]>>
    <3>4. chain \in Seq(Pool) /\ chain # <<>> /\ \A j \in DOMAIN chain : ~Cools(chain[j])
      BY <3>3 DEF Warm, Cools, v
    <3>5. request' = [request EXCEPT ![n] = Served(chain, FALSE)]
      BY <3>1, GivenIs
    <3> HIDE DEF chain
    <3>6. Chooses(n, chain, FALSE)
      BY <2>5, <3>4, <3>5 DEF Chooses
    <3> QED BY <3>6
  <2> QED BY <2>6, <2>7
<1> QED BY <1>3, <1>4

LEMMA ChooseChooses ==
  ASSUME ChoiceInv, NEW n \in Requests, S!Choose(n)
  PROVE  /\ \E chain, fast : Chooses(n, chain, fast)
         /\ request[n].pc = "choosing"
         /\ UNCHANGED <<row, fresh, queued, busy, leaked>>
BY FastChooses, FullChooses DEF S!Choose, S!Unchanged

LEMMA ServedIs ==
  ASSUME NEW chain \in Seq(Pool), NEW fast \in BOOLEAN
  PROVE  /\ Served(chain, fast) \in Request
         /\ Served(chain, fast).chain = chain /\ Served(chain, fast).fast = fast
         /\ Served(chain, fast).pc = IF chain = <<>> THEN "refused" ELSE IF fast THEN "serving" ELSE "chosen"
BY DEF Served, Request

LEMMA ReportedIs ==
  ASSUME NEW r \in PoolRow, NEW what
  PROVE  S!Reported(r, what) \in PoolRow
<1>1. S!Lesser(2, r.fails + 1) \in Nat
  BY DEF S!Lesser, PoolRow
<1>2. CASE what = "ok"
  BY <1>2 DEF S!Reported, PoolRow
<1>3. CASE what # "ok"
  <2>1. (r.cool \/ what = "cool") \in BOOLEAN
    OBVIOUS
  <2> QED BY <1>1, <1>3, <2>1 DEF S!Reported, PoolRow
<1> QED BY <1>2, <1>3

\* What a request changes while it is served: its own record, whose chain it
\* may shorten from the front, and marks.
LEMMA RequestKeeps ==
  ASSUME ChoiceInv, NEW n \in Requests, NEW r \in Request, request' = [request EXCEPT ![n] = r],
         r.pc \in {"chosen", "serving"} => r.chain # <<>>,
         busy' \in [Pool -> Nat], leaked' \in [Pool -> Nat],
         row' \in [Pool -> PoolRow], fresh' \subseteq Pool, cursor' \in Nat, CopyIsOld'
  PROVE  ChoiceInv'
BY DEF ChoiceInv, ChoiceTyping

LEMMA ReportKeeps ==
  ASSUME ChoiceInv, NEW a, NEW what, S!Report(a, what)
  PROVE  row' \in [Pool -> PoolRow] /\ CopyIsOld'
<1>1. CASE UNCHANGED <<row, cache, behind>>
  BY <1>1 DEF ChoiceInv, ChoiceTyping, CopyIsOld
<1>2. CASE row' = [row EXCEPT ![a] = S!Reported(@, what)] /\ cache' = Cold
  <2>1. a \in Pool => S!Reported(row[a], what) \in PoolRow
    BY ReportedIs DEF ChoiceInv, ChoiceTyping
  <2> QED BY <1>2, <2>1 DEF ChoiceInv, ChoiceTyping, CopyIsOld
<1> QED BY <1>1, <1>2 DEF S!Report

LEMMA ReleasedIs ==
  ASSUME NEW b \in [Pool -> Nat], NEW a \in Pool, NEW times \in {1, 2}
  PROVE  /\ S!Released(b, a, times) \in [Pool -> Nat]
         /\ \A c \in Pool : S!Released(b, a, times)[c] =
              IF c # a THEN b[c] ELSE IF b[c] > times THEN b[c] - times ELSE 0
BY DEF S!Released

LEMMA ChoiceAtFirst == ASSUME S!Init PROVE ChoiceInv
<1>1. S!Waiting \in Request /\ S!Waiting.pc = "new"
  BY DEF S!Waiting, Request
<1>2. Rows \subseteq [Pool -> PoolRow]
  BY CandidatesAreListed DEF PoolRow
<1> QED BY <1>1, <1>2 DEF S!Init, ChoiceInv, ChoiceTyping, CopyIsOld

LEMMA ChainGoesOn ==
  ASSUME NEW chain \in Seq(Pool), chain # <<>>
  PROVE  /\ Head(chain) = chain[1] /\ Head(chain) \in Pool
         /\ Len(chain) # 1 => /\ Tail(chain) \in Seq(Pool) /\ Tail(chain) # <<>>
                              /\ Head(Tail(chain)) = chain[2] /\ chain[2] \in Pool
<1>1. Len(chain) \in Nat \ {0} /\ Head(chain) = chain[1] /\ chain[1] \in Pool
  OBVIOUS
<1>2. ASSUME Len(chain) # 1
      PROVE  /\ Tail(chain) \in Seq(Pool) /\ Tail(chain) # <<>>
             /\ Head(Tail(chain)) = chain[2] /\ chain[2] \in Pool
  <2>1. PICK m \in Nat : m = Len(chain)
    OBVIOUS
  <2>2. m >= 2 /\ DOMAIN chain = 1 .. m
    BY <1>1, <1>2, <2>1
  <2>3. chain[2] \in Pool
    BY <2>2
  <2>4. Tail(chain) \in Seq(Pool) /\ Len(Tail(chain)) = m - 1
    BY <1>1, <2>1
  <2>5. Tail(chain)[1] = chain[2]
    BY <1>1, <2>1, <2>2
  <2>6. Len(Tail(chain)) # 0 /\ Head(Tail(chain)) = Tail(chain)[1]
    BY <2>2, <2>4
  <2>7. Tail(chain) # <<>>
    <3>1. Len(<<>>) = 0 /\ \A t : Len(t) # 0 => t # <<>>
      OBVIOUS
    <3> QED BY <2>6, <3>1, Zenon
  <2>8. Head(Tail(chain)) = chain[2]
    BY <2>5, <2>6
  <2> QED BY <2>3, <2>4, <2>7, <2>8
<1> QED BY <1>1, <1>2

LEMMA DoneIs == S!Done \in Request /\ S!Done.pc = "over"
<1> DEFINE w == S!Waiting
<1>1. w \in Request
  BY DEF S!Waiting, Request
<1>2. S!Done = [w EXCEPT !.pc = "over"]
  BY DEF S!Done
<1> HIDE DEF w
<1> QED BY <1>1, <1>2 DEF Request

\* What a failure does to the requests and the marks.
LEMMA FailIs ==
  ASSUME ChoiceInv, NEW n \in Requests, S!Fail(n)
  PROVE  \E what \in {"cool", "soft", "minor"}, times \in {1, 2}, r \in Request :
           LET h == Head(request[n].chain)
               freed == S!Released(busy, h, times)
           IN /\ h \in Pool /\ S!Serving(request[n]) /\ S!Report(h, what)
              /\ request' = [request EXCEPT ![n] = r]
              /\ \/ r = S!Done /\ busy' = freed
                 \/ /\ r.pc = "serving" /\ r.chain # <<>> /\ Head(r.chain) \in Pool
                    /\ busy' = [freed EXCEPT ![Head(r.chain)] = @ + 1]
              /\ plain' = (plain /\ times = 1)
              /\ UNCHANGED <<fresh, cursor, leaked>>
<1> DEFINE chain == request[n].chain
           h == Head(chain)
<1>1. PICK what \in {"cool", "soft", "minor"}, times \in {1, 2} :
        /\ S!Report(h, what)
        /\ IF Len(chain) = 1
           THEN request' = [request EXCEPT ![n] = S!Done] /\ busy' = S!Released(busy, h, times)
           ELSE /\ request' = [request EXCEPT ![n].chain = Tail(@)]
                /\ busy' = [S!Released(busy, h, times) EXCEPT ![chain[2]] = @ + 1]
        /\ plain' = (plain /\ times = 1)
  BY DEF S!Fail
<1>2. S!Serving(request[n]) /\ request[n] \in Request /\ UNCHANGED <<fresh, cursor, leaked>>
  BY DEF S!Fail, S!Unchanged, ChoiceInv, ChoiceTyping
<1>3. chain \in Seq(Pool) /\ chain # <<>> /\ request[n].pc = "serving"
  BY <1>2 DEF S!Serving, Request, ChoiceInv, ChoiceTyping
<1>4. h \in Pool
  BY <1>3, ChainGoesOn
<1>5. CASE Len(chain) = 1
  BY <1>1, <1>2, <1>4, <1>5, DoneIs
<1>6. CASE Len(chain) # 1
  <2>1. /\ Tail(chain) \in Seq(Pool) /\ Tail(chain) # <<>>
        /\ Head(Tail(chain)) = chain[2] /\ chain[2] \in Pool
    BY <1>3, <1>6, ChainGoesOn
  <2> DEFINE t == Tail(chain)
             r == [request[n] EXCEPT !.chain = t]
  <2>2. request' = [request EXCEPT ![n] = r]
    BY <1>1, <1>6 DEF ChoiceInv, ChoiceTyping
  <2>3. t \in Seq(Pool) /\ t # <<>> /\ Head(t) = chain[2]
    BY <2>1
  <2> HIDE DEF t
  <2>4. r \in Request /\ r.pc = "serving" /\ r.chain = t
    BY <1>2, <1>3, <2>3 DEF Request
  <2> HIDE DEF r
  <2>5. busy' = [S!Released(busy, h, times) EXCEPT ![Head(r.chain)] = @ + 1]
    BY <1>1, <1>6, <2>3, <2>4
  <2> QED BY <1>1, <1>2, <1>4, <2>1, <2>2, <2>3, <2>4, <2>5
<1> QED BY <1>5, <1>6

LEMMA ChoiceKeeps ==
  ASSUME ChoiceInv, S!Next
  PROVE  ChoiceInv'
<1>0. \A n \in Requests : request[n] \in Request
  BY DEF ChoiceInv, ChoiceTyping
<1> USE DEF S!Unchanged, S!Others
<1>1. ASSUME NEW n \in Requests, S!Arrive(n) PROVE ChoiceInv'
  <2>1. PICK p \in Pool \cup {Nobody} :
          request' = [request EXCEPT ![n] = [@ EXCEPT !.pc = "choosing", !.prefer = p]]
    BY <1>1 DEF S!Arrive
  <2> DEFINE r == [request[n] EXCEPT !.pc = "choosing", !.prefer = p]
  <2>2. r \in Request /\ r.pc = "choosing" /\ request' = [request EXCEPT ![n] = r]
    BY <1>0, <2>1 DEF Request, ChoiceInv, ChoiceTyping
  <2> HIDE DEF r
  <2>3. UNCHANGED <<row, fresh, cache, cursor, busy, behind, leaked>>
    BY <1>1 DEF S!Arrive
  <2> QED BY <2>2, <2>3, RequestKeeps DEF ChoiceInv, ChoiceTyping, CopyIsOld
<1>2. ASSUME NEW n \in Requests, S!Choose(n) PROVE ChoiceInv'
  <2>1. PICK chain, fast : Chooses(n, chain, fast)
    BY <1>2, ChooseChooses
  <2>2. UNCHANGED <<row, fresh, queued, busy, leaked>>
    BY <1>2, ChooseChooses
  <2> DEFINE r == Served(chain, fast)
  <2>3. r \in Request /\ (r.pc \in {"chosen", "serving"} => r.chain # <<>>)
        /\ request' = [request EXCEPT ![n] = r] /\ cursor' \in Nat
    BY <2>1, ServedIs DEF Chooses
  <2> HIDE DEF r
  <2>4. CopyIsOld'
    <3>1. CASE cache' = cache /\ behind' = behind
      BY <2>2, <3>1 DEF ChoiceInv, CopyIsOld
    <3>2. CASE cache' = S!View /\ behind' = IF cache = Cold THEN {} ELSE behind
      BY <2>2, <3>2, ViewIs DEF ChoiceInv, CopyIsOld, S!View
    <3> QED BY <2>1, <3>1, <3>2 DEF Chooses
  <2> QED BY <2>2, <2>3, <2>4, RequestKeeps DEF ChoiceInv, ChoiceTyping
<1>3. ASSUME NEW n \in Requests, S!Mark(n) PROVE ChoiceInv'
  <2> DEFINE r == [request[n] EXCEPT !.pc = "serving"]
             h == Head(request[n].chain)
  <2>1. request[n].pc = "chosen" /\ request' = [request EXCEPT ![n] = r] /\ busy' = [busy EXCEPT ![h] = @ + 1]
        /\ UNCHANGED <<row, fresh, cache, cursor, behind, leaked>>
    BY <1>3 DEF S!Mark, ChoiceInv, ChoiceTyping
  <2>2. r \in Request /\ r.chain # <<>>
    BY <1>0, <2>1 DEF Request, ChoiceInv, ChoiceTyping
  <2> HIDE DEF r
  <2>3. h \in Pool
    BY <1>0, <2>1, ChainGoesOn DEF Request, ChoiceInv, ChoiceTyping
  <2> HIDE DEF h
  <2>4. busy' \in [Pool -> Nat]
    BY <2>1, <2>3 DEF ChoiceInv, ChoiceTyping
  <2> QED BY <2>1, <2>2, <2>4, RequestKeeps DEF ChoiceInv, ChoiceTyping, CopyIsOld
<1>4. ASSUME NEW n \in Requests, S!Fail(n) PROVE ChoiceInv'
  <2> DEFINE h == Head(request[n].chain)
  <2>1. PICK what \in {"cool", "soft", "minor"}, times \in {1, 2}, r \in Request :
              /\ h \in Pool /\ S!Report(h, what)
              /\ request' = [request EXCEPT ![n] = r]
              /\ \/ r = S!Done /\ busy' = S!Released(busy, h, times)
                 \/ /\ r.pc = "serving" /\ r.chain # <<>> /\ Head(r.chain) \in Pool
                    /\ busy' = [S!Released(busy, h, times) EXCEPT ![Head(r.chain)] = @ + 1]
              /\ UNCHANGED <<fresh, cursor, leaked>>
    BY <1>4, FailIs
  <2> HIDE DEF h
  <2>2. S!Released(busy, h, times) \in [Pool -> Nat]
    BY <2>1, ReleasedIs DEF ChoiceInv, ChoiceTyping
  <2>3. busy' \in [Pool -> Nat]
    BY <2>1, <2>2
  <2>4. row' \in [Pool -> PoolRow] /\ CopyIsOld'
    BY <2>1, ReportKeeps
  <2>5. r.pc \in {"chosen", "serving"} => r.chain # <<>>
    BY <2>1, DoneIs
  <2> QED BY <2>1, <2>3, <2>4, <2>5, RequestKeeps DEF ChoiceInv, ChoiceTyping
<1>5. ASSUME NEW n \in Requests, S!Succeed(n) PROVE ChoiceInv'
  <2> DEFINE h == Head(request[n].chain)
  <2>1. /\ S!Report(h, "ok") /\ request' = [request EXCEPT ![n] = S!Done]
        /\ busy' = S!Released(busy, h, 1) /\ UNCHANGED <<fresh, cursor, leaked>>
        /\ request[n].pc = "serving"
    BY <1>5 DEF S!Succeed, S!Serving
  <2>2. h \in Pool
    BY <1>0, <2>1, ChainGoesOn DEF Request, ChoiceInv, ChoiceTyping
  <2> HIDE DEF h
  <2>3. busy' \in [Pool -> Nat]
    BY <2>1, <2>2, ReleasedIs DEF ChoiceInv, ChoiceTyping
  <2>4. row' \in [Pool -> PoolRow] /\ CopyIsOld'
    BY <2>1, ReportKeeps
  <2> QED BY <2>1, <2>3, <2>4, DoneIs, RequestKeeps DEF ChoiceInv, ChoiceTyping
<1>6. ASSUME NEW n \in Requests, S!Cancel(n) PROVE ChoiceInv'
  <2> DEFINE h == Head(request[n].chain)
  <2>1. /\ request' = [request EXCEPT ![n] = S!Done] /\ leaked' = [leaked EXCEPT ![h] = @ + 1]
        /\ UNCHANGED <<row, fresh, cache, cursor, busy, behind>> /\ request[n].pc = "serving"
    BY <1>6 DEF S!Cancel, S!Serving
  <2>2. h \in Pool
    BY <1>0, <2>1, ChainGoesOn DEF Request, ChoiceInv, ChoiceTyping
  <2> HIDE DEF h
  <2>3. leaked' \in [Pool -> Nat]
    BY <2>1, <2>2 DEF ChoiceInv, ChoiceTyping
  <2> QED BY <2>1, <2>3, DoneIs, RequestKeeps DEF ChoiceInv, ChoiceTyping, CopyIsOld
<1>7. ASSUME NEW x \in queued, S!Apply(x) PROVE ChoiceInv'
  <2>1. x[1] \in Pool => S!Reported(row[x[1]], x[2]) \in PoolRow
    BY ReportedIs DEF ChoiceInv, ChoiceTyping
  <2> QED BY <1>7, <2>1 DEF S!Apply, ChoiceInv, ChoiceTyping, CopyIsOld
<1>8. ASSUME NEW a \in Pool, S!Token(a) PROVE ChoiceInv'
  BY <1>8 DEF S!Token, ChoiceInv, ChoiceTyping, CopyIsOld
<1>9. ASSUME NEW a \in Pool, S!Fade(a) PROVE ChoiceInv'
  BY <1>9 DEF S!Fade, ChoiceInv, ChoiceTyping, CopyIsOld
<1>10. ASSUME NEW a \in Pool, S!Change(a) PROVE ChoiceInv'
  <2>1. [row[a] EXCEPT !.cool = ~@] \in PoolRow
    BY DEF ChoiceInv, ChoiceTyping, PoolRow
  <2> QED BY <1>10, <2>1 DEF S!Change, ChoiceInv, ChoiceTyping, CopyIsOld
<1>11. CASE S!Load \/ S!Lapse
  BY <1>11 DEF S!Load, S!Lapse, ChoiceInv, ChoiceTyping, CopyIsOld
<1> QED BY <1>1, <1>2, <1>3, <1>4, <1>5, <1>6, <1>7, <1>8, <1>9, <1>10, <1>11 DEF S!Next

\* Only Choose gives a request its chain.
LEMMA ChoosingIsChosen ==
  ASSUME ChoiceInv, S!Next, NEW n \in Requests, S!Chosen(n)
  PROVE  S!Choose(n)
<1>1. request \in [Requests -> Request] /\ request[n].pc = "choosing" /\ request'[n].pc # "choosing"
  BY DEF S!Chosen, ChoiceInv, ChoiceTyping
<1>2. ASSUME NEW m \in Requests, S!Choose(m) PROVE m = n
  <2>1. PICK chain, fast : Chooses(m, chain, fast)
    BY <1>2, ChooseChooses
  <2>2. request' = [request EXCEPT ![m] = Served(chain, fast)]
    BY <2>1 DEF Chooses
  <2> QED BY <1>1, <2>2
<1>3. ASSUME NEW m \in Requests, S!Arrive(m) PROVE FALSE
  BY <1>1, <1>3 DEF S!Arrive
<1>4. ASSUME NEW m \in Requests, S!Mark(m) PROVE FALSE
  BY <1>1, <1>4 DEF S!Mark
<1>5. ASSUME NEW m \in Requests, S!Fail(m) PROVE FALSE
  <2>1. PICK r : request' = [request EXCEPT ![m] = r]
    BY <1>5, FailIs
  <2>2. request[m].pc = "serving"
    BY <1>5 DEF S!Fail, S!Serving
  <2> QED BY <1>1, <2>1, <2>2
<1>6. ASSUME NEW m \in Requests, S!Succeed(m) \/ S!Cancel(m) PROVE FALSE
  BY <1>1, <1>6 DEF S!Succeed, S!Cancel, S!Serving
<1>7. request' # request
  BY <1>1
<1>8. ASSUME NEW x, S!Apply(x) \/ S!Token(x) \/ S!Fade(x) \/ S!Change(x) PROVE FALSE
  BY <1>7, <1>8 DEF S!Apply, S!Token, S!Fade, S!Change
<1>9. ~S!Load /\ ~S!Lapse
  BY <1>7 DEF S!Load, S!Lapse
<1> QED BY <1>2, <1>3, <1>4, <1>5, <1>6, <1>8, <1>9 DEF S!Next

StaysOut(n) ==
  S!Chosen(n) =>
    \A i \in DOMAIN request'[n].chain :
      row[request'[n].chain[i]].cool =>
        S!Unseen(request'[n].chain[i]) \/ (request'[n].fast /\ i > 1 /\ cache = Cold)
NoneIsLeft(n) ==
  S!Chosen(n) /\ request'[n].pc = "refused" =>
    \A a \in fresh : row[a].cool \/ row[a].quota \/ row[a].expired \/ S!Unseen(a)

LEMMA ChoiceIsRight ==
  ASSUME ChoiceInv, S!Next, NEW n \in Requests
  PROVE  StaysOut(n) /\ NoneIsLeft(n)
<1> SUFFICES ASSUME S!Chosen(n) PROVE StaysOut(n) /\ NoneIsLeft(n)
  BY DEF StaysOut, NoneIsLeft
<1>1. PICK chain, fast : Chooses(n, chain, fast)
  BY ChoosingIsChosen, ChooseChooses
<1>2. request'[n] = Served(chain, fast)
  BY <1>1 DEF Chooses, ChoiceInv, ChoiceTyping
<1>3. request'[n].chain = chain /\ request'[n].fast = fast /\ (request'[n].pc = "refused" => chain = <<>>)
  BY <1>1, <1>2, ServedIs DEF Chooses
<1>4. StaysOut(n)
  <2> SUFFICES ASSUME NEW i \in DOMAIN chain, row[chain[i]].cool
               PROVE  S!Unseen(chain[i]) \/ (fast /\ i > 1 /\ cache = Cold)
    BY <1>3 DEF StaysOut
  <2>1. chain[i] \in Pool
    BY <1>1 DEF Chooses
  <2> QED BY <1>1, <2>1, ViewIs DEF Chooses, Cools
<1>5. NoneIsLeft(n)
  <2> SUFFICES ASSUME chain = <<>>, NEW a \in fresh
               PROVE  row[a].cool \/ row[a].quota \/ row[a].expired \/ S!Unseen(a)
    BY <1>3 DEF NoneIsLeft
  <2>1. OutOfUse(a) /\ a \in Pool
    BY <1>1 DEF Chooses, ChoiceInv, ChoiceTyping
  <2> QED BY <2>1, ViewIs DEF OutOfUse
<1> QED BY <1>4, <1>5

LEMMA ChoiceStep ==
  ASSUME ChoiceInv, [S!Next]_choiceVars
  PROVE  ChoiceInv'
<1>1. CASE S!Next
  BY <1>1, ChoiceKeeps
<1>2. CASE UNCHANGED choiceVars
  BY <1>2 DEF choiceVars, ChoiceInv, ChoiceTyping, CopyIsOld
<1> QED BY <1>1, <1>2

\* An account that cools is in no chain a request is given (try_acquire_
\* sequence and acquire), whichever pass had to fill it, unless another process
\* has cooled it since the worker's copy was made, or it stands behind a
\* sticky account that was chosen without a copy.
THEOREM CoolingIsPassedOver == GatewaySpec => CoolingStaysOut
<1>1. ChoiceInv /\ [S!Next]_choiceVars => [\A n \in Requests : StaysOut(n)]_choiceVars
  BY ChoiceIsRight
<1>2. GatewayInit => ChoiceInv
  BY ChoiceAtFirst DEF GatewayInit
<1>3. GatewaySpec => [][\A n \in Requests : StaysOut(n)]_choiceVars
  BY <1>1, <1>2, PartsStepAlone, ChoiceStep, PTL DEF GatewaySpec
<1> QED BY <1>3 DEF CoolingStaysOut, S!CoolingStaysOut, StaysOut, choiceVars, S!pvars

\* A request is turned away only if every account with a valid token cools, is
\* out of quota or is marked expired: the passes over the window, the next
\* candidates and acquire's passes over the pool together miss nobody.
THEOREM NobodyIsPassedOver == GatewaySpec => RefusedOnlyIfNone
<1>1. ChoiceInv /\ [S!Next]_choiceVars => [\A n \in Requests : NoneIsLeft(n)]_choiceVars
  BY ChoiceIsRight
<1>2. GatewayInit => ChoiceInv
  BY ChoiceAtFirst DEF GatewayInit
<1>3. GatewaySpec => [][\A n \in Requests : NoneIsLeft(n)]_choiceVars
  BY <1>1, <1>2, PartsStepAlone, ChoiceStep, PTL DEF GatewaySpec
<1> QED BY <1>3 DEF RefusedOnlyIfNone, S!RefusedOnlyIfNone, NoneIsLeft, choiceVars, S!pvars

\* The marks of an account are counted with the requests it serves.
Serves(r, a) == S!Serving(r) /\ Head(r.chain) = a
Load(a) == Cardinality(S!At(a))
MarksInv ==
  /\ plain => \A a \in Pool : busy[a] = Load(a) + leaked[a]
  /\ \A a \in Pool : busy[a] <= Load(a) + leaked[a]

LEMMA LoadChanges ==
  ASSUME ChoiceInv, NEW n \in Requests, NEW r, request' = [request EXCEPT ![n] = r], NEW a
  PROVE  /\ Load(a) \in Nat /\ Load(a)' \in Nat
         /\ Serves(request[n], a) => Load(a) # 0
         /\ Load(a)' = Load(a) + (IF Serves(r, a) THEN 1 ELSE 0) - (IF Serves(request[n], a) THEN 1 ELSE 0)
<1> DEFINE A0 == S!At(a)
           A1 == S!At(a)'
           R == A0 \ {n}
<1>1. A0 = {m \in Requests : Serves(request[m], a)} /\ A1 = {m \in Requests : Serves(request'[m], a)}
  BY DEF S!At, Serves, S!Serving
<1>2. request'[n] = r /\ \A m \in Requests \ {n} : request'[m] = request[m]
  BY DEF ChoiceInv, ChoiceTyping
<1>3. A1 = IF Serves(r, a) THEN R \cup {n} ELSE R
  BY <1>1, <1>2
<1>4. n \in A0 <=> Serves(request[n], a)
  BY <1>1
<1>5. Load(a) = Cardinality(A0) /\ Load(a)' = Cardinality(A1)
  BY DEF Load
<1>6. A0 \in SUBSET Requests /\ n \notin R
  BY <1>1
<1> HIDE DEF A0, A1
<1>7. IsFiniteSet(A0) /\ Cardinality(A0) \in Nat
  BY <1>6, CandidatesAreListed, FS_Subset, FS_CardinalityType
<1>8. IsFiniteSet(R) /\ Cardinality(R) = IF n \in A0 THEN Cardinality(A0) - 1 ELSE Cardinality(A0)
  BY <1>7, FS_RemoveElement
<1> HIDE DEF R
<1>9. Cardinality(R) \in Nat
  BY <1>8, FS_CardinalityType
<1>10. Cardinality(R \cup {n}) = Cardinality(R) + 1
  BY <1>6, <1>8, FS_AddElement
<1> QED BY <1>3, <1>4, <1>5, <1>7, <1>8, <1>9, <1>10

LEMMA MarksStay ==
  ASSUME MarksInv, UNCHANGED <<request, busy, leaked, plain>>
  PROVE  MarksInv'
<1>1. \A a : S!At(a)' = S!At(a)
  BY DEF S!At
<1>2. \A a : Load(a)' = Load(a)
  BY <1>1 DEF Load
<1> QED BY <1>2 DEF MarksInv

LEMMA MarksKeep ==
  ASSUME ChoiceInv, MarksInv, S!Next
  PROVE  MarksInv'
<1> USE DEF S!Unchanged, S!Others
<1>0. /\ \A a \in Pool : busy[a] \in Nat /\ leaked[a] \in Nat
      /\ busy \in [Pool -> Nat] /\ leaked \in [Pool -> Nat]
      /\ request \in [Requests -> Request]
  BY DEF ChoiceInv, ChoiceTyping
<1>1. ASSUME NEW n \in Requests, S!Arrive(n) PROVE MarksInv'
  <2>1. PICK p \in Pool \cup {Nobody} :
          request' = [request EXCEPT ![n] = [@ EXCEPT !.pc = "choosing", !.prefer = p]]
    BY <1>1 DEF S!Arrive
  <2> DEFINE r == [request[n] EXCEPT !.pc = "choosing", !.prefer = p]
  <2>2. request' = [request EXCEPT ![n] = r] /\ r.pc = "choosing" /\ request[n].pc = "new"
    BY <1>0, <1>1, <2>1 DEF S!Arrive, Request
  <2> HIDE DEF r
  <2>3. \A a : Load(a)' = Load(a)
    <3> TAKE a
    <3>1. ~Serves(r, a) /\ ~Serves(request[n], a)
      BY <2>2 DEF Serves, S!Serving
    <3>2. Load(a) \in Nat /\ Load(a)' = Load(a) + (IF Serves(r, a) THEN 1 ELSE 0) - (IF Serves(request[n], a) THEN 1 ELSE 0)
      BY <2>2, LoadChanges
    <3> QED BY <3>1, <3>2
  <2>4. UNCHANGED <<busy, leaked, plain>>
    BY <1>1 DEF S!Arrive
  <2> QED BY <2>3, <2>4 DEF MarksInv
<1>2. ASSUME NEW n \in Requests, S!Choose(n) PROVE MarksInv'
  <2>1. PICK chain, fast : Chooses(n, chain, fast)
    BY <1>2, ChooseChooses
  <2>2. UNCHANGED <<busy, leaked>> /\ request[n].pc = "choosing"
    BY <1>2, ChooseChooses
  <2> DEFINE r == Served(chain, fast)
  <2>3. request' = [request EXCEPT ![n] = r] /\ fast \in BOOLEAN /\ (~fast => r.pc # "serving")
        /\ (fast => ~plain') /\ (~fast => plain' = plain)
    BY <2>1, ServedIs DEF Chooses
  <2> HIDE DEF r
  <2>4. \A a : ~Serves(request[n], a) /\ (~fast => ~Serves(r, a))
    BY <2>2, <2>3 DEF Serves, S!Serving
  <2>5. \A a : /\ Load(a) \in Nat /\ Load(a)' \in Nat
               /\ Load(a)' = Load(a) + (IF Serves(r, a) THEN 1 ELSE 0) - (IF Serves(request[n], a) THEN 1 ELSE 0)
    BY <2>3, LoadChanges
  <2>6. \A a : Load(a)' >= Load(a) /\ (~fast => Load(a)' = Load(a))
    BY <2>4, <2>5
  <2>7. \A a : Load(a) \in Nat /\ Load(a)' \in Nat
    BY <2>5
  <2>8. CASE fast
    <3>1. \A a \in Pool : busy[a] <= Load(a)' + leaked[a]
      <4> TAKE a \in Pool
      <4>1. busy[a] <= Load(a) + leaked[a] /\ busy[a] \in Nat /\ leaked[a] \in Nat
        BY <1>0 DEF MarksInv
      <4> QED BY <2>6, <2>7, <4>1
    <3> QED BY <2>2, <2>3, <2>8, <3>1 DEF MarksInv
  <2>9. CASE ~fast
    BY <2>2, <2>3, <2>6, <2>9 DEF MarksInv
  <2> QED BY <2>3, <2>8, <2>9
<1>3. ASSUME NEW n \in Requests, S!Mark(n) PROVE MarksInv'
  <2> DEFINE r == [request[n] EXCEPT !.pc = "serving"]
             h == Head(request[n].chain)
  <2>1. /\ request[n].pc = "chosen" /\ request' = [request EXCEPT ![n] = r]
        /\ busy' = [busy EXCEPT ![h] = @ + 1] /\ UNCHANGED <<leaked, plain>>
    BY <1>0, <1>3 DEF S!Mark
  <2>2. \A a : ~Serves(request[n], a) /\ (Serves(r, a) <=> h = a)
    BY <1>0, <2>1 DEF Serves, S!Serving, Request
  <2> HIDE DEF r, h
  <2>3. ASSUME NEW a \in Pool
        PROVE  /\ busy'[a] <= Load(a)' + leaked'[a]
               /\ plain' => busy'[a] = Load(a)' + leaked'[a]
    <3>1. Load(a) \in Nat /\ Load(a)' = Load(a) + (IF Serves(r, a) THEN 1 ELSE 0) - (IF Serves(request[n], a) THEN 1 ELSE 0)
      BY <2>1, LoadChanges
    <3>2. Load(a)' = Load(a) + (IF a = h THEN 1 ELSE 0)
      BY <2>2, <3>1
    <3>3. busy'[a] = busy[a] + (IF a = h THEN 1 ELSE 0) /\ busy[a] \in Nat /\ leaked[a] \in Nat
      BY <1>0, <2>1
    <3>4. busy[a] <= Load(a) + leaked[a] /\ (plain => busy[a] = Load(a) + leaked[a])
      BY DEF MarksInv
    <3> QED BY <2>1, <3>1, <3>2, <3>3, <3>4
  <2> QED BY <2>3 DEF MarksInv
<1>4. ASSUME NEW n \in Requests, NEW h \in Pool, NEW times \in {1, 2}, NEW r,
             S!Serving(request[n]), h = Head(request[n].chain),
             request' = [request EXCEPT ![n] = r],
             \/ ~S!Serving(r) /\ busy' = S!Released(busy, h, times)
             \/ /\ S!Serving(r) /\ Head(r.chain) \in Pool
                /\ busy' = [S!Released(busy, h, times) EXCEPT ![Head(r.chain)] = @ + 1],
             plain' => plain /\ times = 1, leaked' = leaked
      PROVE  MarksInv'
  <2> DEFINE g == Head(r.chain)
             freed == S!Released(busy, h, times)
  <2>1. \A a : (Serves(request[n], a) <=> h = a) /\ (Serves(r, a) <=> S!Serving(r) /\ g = a)
    BY <1>4 DEF Serves
  <2>2. /\ freed \in [Pool -> Nat]
        /\ \A c \in Pool : freed[c] = IF c # h THEN busy[c]
                                            ELSE IF busy[c] > times THEN busy[c] - times ELSE 0
    BY <1>0, <1>4, ReleasedIs
  <2> HIDE DEF g, freed
  <2>3. \A a \in Pool : busy'[a] = freed[a] + (IF S!Serving(r) /\ a = g THEN 1 ELSE 0)
    BY <1>4, <2>2 DEF g, freed
  <2>4. ASSUME NEW a \in Pool
        PROVE  /\ busy'[a] <= Load(a)' + leaked'[a]
               /\ plain' => busy'[a] = Load(a)' + leaked'[a]
    <3>1. /\ Load(a) \in Nat /\ (Serves(request[n], a) => Load(a) # 0)
          /\ Load(a)' = Load(a) + (IF Serves(r, a) THEN 1 ELSE 0) - (IF Serves(request[n], a) THEN 1 ELSE 0)
      BY <1>4, LoadChanges
    <3> DEFINE x == IF S!Serving(r) /\ a = g THEN 1 ELSE 0
               y == IF a = h THEN 1 ELSE 0
    <3>2. Load(a)' = Load(a) + x - y /\ Load(a) \in Nat /\ (a = h => Load(a) # 0) /\ x \in Nat
      BY <2>1, <3>1
    <3>3. busy'[a] = freed[a] + x /\ busy[a] \in Nat /\ leaked[a] \in Nat /\ leaked'[a] = leaked[a]
      BY <1>0, <1>4, <2>3
    <3>4. freed[a] = IF a # h THEN busy[a] ELSE IF busy[a] > times THEN busy[a] - times ELSE 0
      BY <2>2
    <3>5. busy[a] <= Load(a) + leaked[a] /\ (plain => busy[a] = Load(a) + leaked[a])
      BY DEF MarksInv
    <3> HIDE DEF x
    <3>6. plain' => plain /\ times = 1
      BY <1>4
    <3>7. CASE a # h
      BY <3>2, <3>3, <3>4, <3>5, <3>6, <3>7
    <3>8. CASE a = h
      <4>1. Load(a) \in Nat \ {0} /\ Load(a)' = Load(a) + x - 1 /\ x \in Nat
        BY <3>2, <3>8
      <4>2. freed[a] = IF busy[a] > times THEN busy[a] - times ELSE 0
        BY <3>4, <3>8
      <4>3. CASE times = 1
        BY <3>3, <3>5, <3>6, <4>1, <4>2, <4>3
      <4>4. CASE times = 2
        BY <3>3, <3>5, <3>6, <4>1, <4>2, <4>4
      <4> QED BY <4>3, <4>4
    <3> QED BY <3>7, <3>8
  <2> QED BY <2>4 DEF MarksInv
<1>5. ASSUME NEW n \in Requests, S!Fail(n) PROVE MarksInv'
  <2> DEFINE h == Head(request[n].chain)
  <2>1. PICK what \in {"cool", "soft", "minor"}, times \in {1, 2}, r \in Request :
              /\ h \in Pool /\ S!Serving(request[n])
              /\ request' = [request EXCEPT ![n] = r]
              /\ \/ r = S!Done /\ busy' = S!Released(busy, h, times)
                 \/ /\ r.pc = "serving" /\ r.chain # <<>> /\ Head(r.chain) \in Pool
                    /\ busy' = [S!Released(busy, h, times) EXCEPT ![Head(r.chain)] = @ + 1]
              /\ plain' = (plain /\ times = 1)
              /\ UNCHANGED <<fresh, cursor, leaked>>
    BY <1>5, FailIs
  <2>2. r = S!Done => ~S!Serving(r)
    BY DoneIs DEF S!Serving
  <2>3. r.pc = "serving" => S!Serving(r)
    BY DEF S!Serving
  <2>4. \/ ~S!Serving(r) /\ busy' = S!Released(busy, h, times)
        \/ /\ S!Serving(r) /\ Head(r.chain) \in Pool
           /\ busy' = [S!Released(busy, h, times) EXCEPT ![Head(r.chain)] = @ + 1]
    BY <2>1, <2>2, <2>3
  <2>5. /\ h \in Pool /\ S!Serving(request[n]) /\ h = Head(request[n].chain)
        /\ request' = [request EXCEPT ![n] = r] /\ (plain' => plain /\ times = 1) /\ leaked' = leaked
    BY <2>1
  <2> HIDE DEF h
  <2> QED BY <1>4, <2>4, <2>5
<1>6. ASSUME NEW n \in Requests, S!Succeed(n) PROVE MarksInv'
  <2> DEFINE h == Head(request[n].chain)
             r == S!Done
  <2>1. /\ request' = [request EXCEPT ![n] = r] /\ S!Serving(request[n])
        /\ busy' = S!Released(busy, h, 1) /\ UNCHANGED <<leaked, plain>> /\ ~S!Serving(r)
    BY <1>6, DoneIs DEF S!Succeed, S!Serving
  <2>2. h \in Pool
    BY <1>0, <2>1, ChainGoesOn DEF Request, ChoiceInv, ChoiceTyping, S!Serving
  <2> HIDE DEF r
  <2> QED BY <1>4, <2>1, <2>2
<1>7. ASSUME NEW n \in Requests, S!Cancel(n) PROVE MarksInv'
  <2> DEFINE h == Head(request[n].chain)
             r == S!Done
  <2>1. /\ request' = [request EXCEPT ![n] = r] /\ S!Serving(request[n])
        /\ leaked' = [leaked EXCEPT ![h] = @ + 1] /\ UNCHANGED <<busy, plain>> /\ ~S!Serving(r)
    BY <1>7, DoneIs DEF S!Cancel, S!Serving
  <2>2. \A a : (Serves(request[n], a) <=> h = a) /\ ~Serves(r, a)
    BY <2>1 DEF Serves
  <2> HIDE DEF r, h
  <2>3. ASSUME NEW a \in Pool
        PROVE  /\ busy'[a] <= Load(a)' + leaked'[a]
               /\ plain' => busy'[a] = Load(a)' + leaked'[a]
    <3>1. Load(a) \in Nat /\ Load(a)' = Load(a) + (IF Serves(r, a) THEN 1 ELSE 0) - (IF Serves(request[n], a) THEN 1 ELSE 0)
      BY <2>1, LoadChanges
    <3>2. Load(a)' = Load(a) - (IF a = h THEN 1 ELSE 0)
      BY <2>2, <3>1
    <3>3. leaked'[a] = leaked[a] + (IF a = h THEN 1 ELSE 0) /\ busy[a] \in Nat /\ leaked[a] \in Nat
      BY <1>0, <2>1
    <3>4. busy[a] <= Load(a) + leaked[a] /\ (plain => busy[a] = Load(a) + leaked[a])
      BY DEF MarksInv
    <3> QED BY <2>1, <3>1, <3>2, <3>3, <3>4
  <2> QED BY <2>3 DEF MarksInv
<1>8. ASSUME NEW a \in Pool, S!Fade(a) PROVE MarksInv'
  <2>1. \A c : S!At(c)' = S!At(c)
    BY <1>8 DEF S!Fade, S!At
  <2>2. \A c : Load(c)' = Load(c)
    BY <2>1 DEF Load
  <2>3. ASSUME NEW c \in Pool PROVE busy'[c] <= Load(c)' + leaked'[c]
    <3>1. busy'[c] \in {0, busy[c]} /\ busy[c] <= Load(c) + leaked[c] /\ leaked'[c] = leaked[c]
      BY <1>0, <1>8 DEF S!Fade, MarksInv
    <3>2. Load(c) \in Nat
      <4>1. S!At(c) \in SUBSET Requests
        BY DEF S!At
      <4> QED BY <4>1, CandidatesAreListed, FS_Subset, FS_CardinalityType DEF Load
    <3> QED BY <1>0, <2>2, <3>1, <3>2
  <2> QED BY <1>8, <2>3 DEF S!Fade, MarksInv
<1>9. ASSUME NEW x, S!Apply(x) \/ S!Token(x) \/ S!Change(x) \/ S!Load \/ S!Lapse PROVE MarksInv'
  BY <1>9, MarksStay DEF S!Apply, S!Token, S!Change, S!Load, S!Lapse
<1> QED BY <1>1, <1>2, <1>3, <1>5, <1>6, <1>7, <1>8, <1>9 DEF S!Next

\* An account's in-flight marks are the requests it serves and those that were
\* cancelled (note_account_pick, release_account_pick), as long as requests are
\* chosen in full and end in the ordinary way, and otherwise never more.
THEOREM MarksAreTrue == GatewaySpec => []MarksMatch
<1>1. MarksInv => MarksMatch
  BY StandardCounting DEF MarksInv, Load, MarksMatch, S!MarksMatch
<1>2. GatewayInit => ChoiceInv /\ MarksInv
  <2> SUFFICES ASSUME S!Init PROVE ChoiceInv /\ MarksInv
    BY DEF GatewayInit
  <2>1. \A a : S!At(a) = {}
    BY DEF S!Init, S!At, S!Waiting, S!Serving
  <2>2. \A a : Load(a) = 0
    BY <2>1, FS_EmptySet DEF Load
  <2> QED BY <2>2, ChoiceAtFirst DEF S!Init, MarksInv
<1>3. ChoiceInv /\ MarksInv /\ [S!Next]_choiceVars => MarksInv'
  <2>1. UNCHANGED choiceVars => UNCHANGED <<request, busy, leaked, plain>>
    BY DEF choiceVars
  <2> QED BY <2>1, MarksKeep, MarksStay
<1> QED BY <1>1, <1>2, <1>3, PartsStepAlone, ChoiceStep, PTL DEF GatewaySpec

-----------------------------------------------------------------------------
(* Sums over finite sets.  F is the sum of w over the subsets of X.          *)
SumOver(F, X, w) ==
  /\ F[{}] = 0
  /\ \A Q \in SUBSET X : F[Q] \in Nat /\ \A x \in Q : F[Q] = w[x] + F[Q \ {x}]

\* What holds of no element, and of a set if it holds of it without any one of
\* its elements, holds of all finite sets.
LEMMA SubsetInduction ==
  ASSUME NEW X, IsFiniteSet(X), NEW T, {} \in T,
         \A Q \in SUBSET X : Q # {} /\ (\A x \in Q : Q \ {x} \in T) => Q \in T
  PROVE  SUBSET X \subseteq T
<1> DEFINE N == {n \in Nat : \A Q \in SUBSET X : Cardinality(Q) = n => Q \in T}
<1>1. \A Q \in SUBSET X : IsFiniteSet(Q) /\ Cardinality(Q) \in Nat
  BY FS_Subset, FS_CardinalityType
<1>2. 0 \in N
  BY <1>1, FS_EmptySet
<1>3. ASSUME NEW n \in N PROVE n + 1 \in N
  <2> SUFFICES ASSUME NEW Q \in SUBSET X, Cardinality(Q) = n + 1 PROVE Q \in T
    OBVIOUS
  <2>1. Q # {}
    <3>1. n \in Nat /\ Cardinality({}) = 0
      BY FS_EmptySet
    <3> QED BY <3>1
  <2>2. ASSUME NEW x \in Q PROVE Q \ {x} \in T
    <3>1. Cardinality(Q \ {x}) = n
      BY <1>1, FS_RemoveElement
    <3> QED BY <3>1
  <2> QED BY <2>1, <2>2
<1>4. N \in SUBSET Nat
  OBVIOUS
<1> HIDE DEF N
<1>5. N = Nat
  BY <1>2, <1>3, <1>4, SetInduction
<1> QED BY <1>1, <1>5 DEF N

LEMMA SumsAgree ==
  ASSUME NEW X, IsFiniteSet(X), NEW F, NEW w, SumOver(F, X, w), NEW G, NEW v, SumOver(G, X, v),
         NEW Y \in SUBSET X, \A x \in Y : w[x] = v[x]
  PROVE  F[Y] = G[Y]
<1> DEFINE T == {Q \in SUBSET X : (\A x \in Q : w[x] = v[x]) => F[Q] = G[Q]}
<1>1. {} \in T
  BY DEF SumOver
<1>2. ASSUME NEW Q \in SUBSET X, Q # {}, \A x \in Q : Q \ {x} \in T PROVE Q \in T
  <2> SUFFICES ASSUME \A x \in Q : w[x] = v[x] PROVE F[Q] = G[Q]
    OBVIOUS
  <2>1. PICK x \in Q : TRUE
    BY <1>2
  <2>2. F[Q \ {x}] = G[Q \ {x}]
    BY <1>2
  <2> QED BY <2>2 DEF SumOver
<1> HIDE DEF T
<1>3. SUBSET X \subseteq T
  BY <1>1, <1>2, SubsetInduction
<1> QED BY <1>3 DEF T

LEMMA SumOfUnion ==
  ASSUME NEW X, IsFiniteSet(X), NEW F, NEW w, SumOver(F, X, w), \A x \in X : w[x] \in Nat,
         NEW Y \in SUBSET X, NEW B \in SUBSET X, Y \cap B = {}
  PROVE  F[Y \cup B] = F[Y] + F[B]
<1> DEFINE T == {Q \in SUBSET X : Y \cap Q = {} => F[Y \cup Q] = F[Y] + F[Q]}
<1>1. {} \in T
  <2>1. Y \cup {} = Y /\ F[Y] \in Nat
    BY DEF SumOver
  <2> QED BY <2>1 DEF SumOver
<1>2. ASSUME NEW Q \in SUBSET X, Q # {}, \A x \in Q : Q \ {x} \in T PROVE Q \in T
  <2> SUFFICES ASSUME Y \cap Q = {} PROVE F[Y \cup Q] = F[Y] + F[Q]
    OBVIOUS
  <2>1. PICK x \in Q : TRUE
    BY <1>2
  <2>2. F[Y \cup (Q \ {x})] = F[Y] + F[Q \ {x}]
    BY <1>2
  <2>3. (Y \cup Q) \ {x} = Y \cup (Q \ {x})
    OBVIOUS
  <2>4. F[Y \cup Q] = w[x] + F[Y \cup (Q \ {x})]
    <3>1. Y \cup Q \in SUBSET X /\ x \in Y \cup Q
      OBVIOUS
    <3> QED BY <2>3, <3>1 DEF SumOver
  <2>5. F[Q] = w[x] + F[Q \ {x}] /\ F[Q \ {x}] \in Nat /\ F[Y] \in Nat /\ w[x] \in Nat
    BY DEF SumOver
  <2> QED BY <2>2, <2>4, <2>5
<1> HIDE DEF T
<1>3. SUBSET X \subseteq T
  BY <1>1, <1>2, SubsetInduction
<1> QED BY <1>3 DEF T

Splits(F, X) ==
  \A B \in SUBSET X : \A Y \in SUBSET B :
    /\ F[B] = F[Y] + F[B \ Y]
    /\ F[Y] \in Nat /\ F[B \ Y] \in Nat /\ F[Y] <= F[B]

LEMMA SumSplits ==
  ASSUME NEW X, IsFiniteSet(X), NEW F, NEW w, SumOver(F, X, w), \A x \in X : w[x] \in Nat
  PROVE  Splits(F, X)
<1> SUFFICES ASSUME NEW B \in SUBSET X, NEW Y \in SUBSET B
             PROVE  /\ F[B] = F[Y] + F[B \ Y]
                    /\ F[Y] \in Nat /\ F[B \ Y] \in Nat /\ F[Y] <= F[B]
  BY Zenon DEF Splits
<1> DEFINE C == B \ Y
<1>1. Y \in SUBSET X /\ C \in SUBSET X /\ Y \cap C = {}
  OBVIOUS
<1>4. F[B] = F[Y \cup C]
  <2>1. Y \cup C = B
    OBVIOUS
  <2> HIDE DEF C
  <2> QED BY <2>1, Zenon
<1> HIDE DEF C
<1>2. F[Y \cup C] = F[Y] + F[C]
  <2>1. Y \in SUBSET X /\ C \in SUBSET X /\ Y \cap C = {}
    BY <1>1
  <2> QED BY <2>1, SumOfUnion
<1>3. F[Y] \in Nat /\ F[C] \in Nat
  BY <1>1 DEF SumOver
<1>5. F[B] = F[Y] + F[C] /\ F[Y] <= F[B]
  BY <1>2, <1>3, <1>4
<1> QED BY <1>3, <1>5 DEF C

LEMMA SumGrows ==
  ASSUME NEW X, IsFiniteSet(X), NEW F, NEW w, SumOver(F, X, w), \A x \in X : w[x] \in Nat,
         NEW B \in SUBSET X, NEW Y \in SUBSET B
  PROVE  F[Y] <= F[B]
<1>1. Splits(F, X)
  BY SumSplits
<1> QED BY <1>1 DEF Splits

LEMMA SumOfZeros ==
  ASSUME NEW X, IsFiniteSet(X), NEW F, NEW w, SumOver(F, X, w), NEW Y \in SUBSET X, \A x \in Y : w[x] = 0
  PROVE  F[Y] = 0
<1> DEFINE G == [Q \in SUBSET X |-> 0]
           v == [x \in X |-> 0]
<1>1. SumOver(G, X, v)
  BY DEF SumOver
<1> HIDE DEF G
<1>2. F[Y] = G[Y]
  <2>1. \A x \in Y : w[x] = v[x]
    OBVIOUS
  <2> HIDE DEF v
  <2> QED BY <1>1, <2>1, SumsAgree
<1> QED BY <1>2 DEF G

LEMMA SumOfOnes ==
  ASSUME NEW X, IsFiniteSet(X), NEW F, NEW w, SumOver(F, X, w), NEW Y \in SUBSET X, \A x \in Y : w[x] = 1
  PROVE  F[Y] = Cardinality(Y)
<1> DEFINE G == [Q \in SUBSET X |-> Cardinality(Q)]
           v == [x \in X |-> 1]
<1>1. SumOver(G, X, v)
  <2>1. G[{}] = 0
    BY FS_EmptySet
  <2>2. ASSUME NEW Q \in SUBSET X PROVE G[Q] \in Nat
    BY FS_Subset, FS_CardinalityType
  <2>3. ASSUME NEW Q \in SUBSET X, NEW x \in Q PROVE G[Q] = v[x] + G[Q \ {x}]
    <3>1. IsFiniteSet(Q) /\ Q \ {x} \in SUBSET X
      BY FS_Subset
    <3>2. Cardinality(Q \ {x}) = Cardinality(Q) - 1 /\ Cardinality(Q) \in Nat
      BY <3>1, FS_RemoveElement, FS_CardinalityType
    <3> QED BY <3>1, <3>2
  <2> HIDE DEF G, v
  <2> QED BY <2>1, <2>2, <2>3 DEF SumOver
<1> HIDE DEF G
<1>2. F[Y] = G[Y]
  <2>1. \A x \in Y : w[x] = v[x]
    OBVIOUS
  <2> HIDE DEF v
  <2> QED BY <1>1, <2>1, SumsAgree
<1> QED BY <1>2 DEF G

\* Elements that add nothing can be left out.
LEMMA SumWithoutZeros ==
  ASSUME NEW X, IsFiniteSet(X), NEW F, NEW w, SumOver(F, X, w), \A x \in X : w[x] \in Nat,
         NEW B \in SUBSET X, NEW Y \in SUBSET B, \A x \in B \ Y : w[x] = 0
  PROVE  F[B] = F[Y]
<1> DEFINE C == B \ Y
<1>1. Splits(F, X)
  BY SumSplits
<1>2. F[B] = F[Y] + F[C] /\ F[Y] \in Nat
  BY <1>1 DEF Splits
<1>3. C \in SUBSET X /\ \A x \in C : w[x] = 0
  OBVIOUS
<1> HIDE DEF C
<1>4. F[C] = 0
  BY <1>3, SumOfZeros
<1> QED BY <1>2, <1>4

\* Whichever element is taken first, the iteration of MapThenFoldSet is the
\* sum.
Picks(c, X) == \A Q \in SUBSET X : Q # {} => c[Q] \in Q

LEMMA IterationIsSum ==
  ASSUME NEW X, IsFiniteSet(X), NEW w, \A x \in X : w[x] \in Nat, NEW c, Picks(c, X), NEW F,
         \A Q \in SUBSET X : F[Q] = IF Q = {} THEN 0 ELSE w[c[Q]] + F[Q \ {c[Q]}]
  PROVE  SumOver(F, X, w)
<1>1. F[{}] = 0
  OBVIOUS
<1>2. \A Q \in SUBSET X : F[Q] \in Nat
  <2> DEFINE T == {Q \in SUBSET X : F[Q] \in Nat}
  <2>1. {} \in T
    BY <1>1
  <2>2. ASSUME NEW Q \in SUBSET X, Q # {}, \A x \in Q : Q \ {x} \in T PROVE Q \in T
    <3>1. c[Q] \in Q
      BY <2>2 DEF Picks
    <3>2. F[Q] = w[c[Q]] + F[Q \ {c[Q]}] /\ F[Q \ {c[Q]}] \in Nat /\ w[c[Q]] \in Nat
      BY <2>2, <3>1
    <3> QED BY <3>2
  <2> HIDE DEF T
  <2>3. SUBSET X \subseteq T
    BY <2>1, <2>2, SubsetInduction
  <2> QED BY <2>3 DEF T
<1> DEFINE T == {Q \in SUBSET X : \A x \in Q : F[Q] = w[x] + F[Q \ {x}]}
<1>3. {} \in T
  OBVIOUS
<1>4. ASSUME NEW Q \in SUBSET X, Q # {}, \A x \in Q : Q \ {x} \in T PROVE Q \in T
  <2>1. PICK y \in Q : F[Q] = w[y] + F[Q \ {y}]
    BY <1>4 DEF Picks
  <2>2. ASSUME NEW x \in Q, x # y PROVE F[Q] = w[x] + F[Q \ {x}]
    <3>1. F[Q \ {y}] = w[x] + F[(Q \ {y}) \ {x}]
      BY <1>4, <2>2
    <3>2. F[Q \ {x}] = w[y] + F[(Q \ {x}) \ {y}]
      BY <1>4, <2>2
    <3>3. F[(Q \ {y}) \ {x}] = F[(Q \ {x}) \ {y}]
      <4>1. (Q \ {y}) \ {x} = (Q \ {x}) \ {y}
        OBVIOUS
      <4> QED BY <4>1, Zenon
    <3>4. (Q \ {x}) \ {y} \in SUBSET X
      OBVIOUS
    <3>5. F[(Q \ {x}) \ {y}] \in Nat
      BY <1>2, <3>4
    <3>6. w[x] \in Nat /\ w[y] \in Nat
      OBVIOUS
    <3> QED BY <2>1, <3>1, <3>2, <3>3, <3>5, <3>6
  <2>3. \A x \in Q : F[Q] = w[x] + F[Q \ {x}]
    BY <2>1, <2>2
  <2> QED BY <2>3
<1> HIDE DEF T
<1>5. SUBSET X \subseteq T
  BY <1>3, <1>4, SubsetInduction
<1> QED BY <1>1, <1>2, <1>5 DEF T, SumOver

Iteration(F, X, w, c) ==
  /\ F \in [SUBSET X -> Nat]
  /\ \A Q \in SUBSET X : F[Q] = IF Q = {} THEN 0 ELSE w[c[Q]] + F[Q \ {c[Q]}]

LEMMA IterationExists ==
  ASSUME NEW X, IsFiniteSet(X), NEW w, \A x \in X : w[x] \in Nat, NEW c, Picks(c, X)
  PROVE  \E F : Iteration(F, X, w, c)
<1> DEFINE Until(F, n) == \A Q \in SUBSET X : Cardinality(Q) <= n =>
                            F[Q] = IF Q = {} THEN 0 ELSE w[c[Q]] + F[Q \ {c[Q]}]
           N == {n \in Nat : \E F \in [SUBSET X -> Nat] : Until(F, n)}
<1>1. \A Q \in SUBSET X : IsFiniteSet(Q) /\ Cardinality(Q) \in Nat /\ (Cardinality(Q) = 0 <=> Q = {})
  BY FS_Subset, FS_CardinalityType, FS_EmptySet
<1>2. 0 \in N
  <2> DEFINE F == [Q \in SUBSET X |-> 0]
  <2>1. F \in [SUBSET X -> Nat] /\ Until(F, 0)
    BY <1>1
  <2> QED BY <2>1
<1>3. ASSUME NEW n \in N PROVE n + 1 \in N
  <2>1. PICK F \in [SUBSET X -> Nat] : Until(F, n)
    OBVIOUS
  <2> DEFINE Before == [Q \in SUBSET X |-> IF Q = {} THEN 0 ELSE w[c[Q]] + F[Q \ {c[Q]}]]
  <2>2. \A Q \in SUBSET X : Q # {} => c[Q] \in Q /\ Q \ {c[Q]} \in SUBSET X
    BY DEF Picks
  <2>3. Before \in [SUBSET X -> Nat]
    BY <2>2
  <2>4. \A Q \in SUBSET X : Cardinality(Q) <= n => Before[Q] = F[Q]
    BY <2>1
  <2>5. \A Q \in SUBSET X : Q # {} => Cardinality(Q \ {c[Q]}) = Cardinality(Q) - 1
    BY <1>1, <2>2, FS_RemoveElement
  <2>6. Until(Before, n + 1)
    <3> SUFFICES ASSUME NEW Q \in SUBSET X, Cardinality(Q) <= n + 1, Q # {}
                 PROVE  Before[Q] = w[c[Q]] + Before[Q \ {c[Q]}]
      OBVIOUS
    <3>1. n \in Nat /\ Cardinality(Q) \in Nat
      BY <1>1
    <3>2. Cardinality(Q \ {c[Q]}) <= n
      BY <2>5, <3>1
    <3>3. Before[Q \ {c[Q]}] = F[Q \ {c[Q]}]
      BY <2>2, <2>4, <3>2
    <3> QED BY <3>3
  <2>7. n + 1 \in Nat
    OBVIOUS
  <2> HIDE DEF Before, Until
  <2> QED BY <2>3, <2>6, <2>7
<1>4. N \in SUBSET Nat
  OBVIOUS
<1> HIDE DEF N
<1>5. N = Nat
  BY <1>2, <1>3, <1>4, SetInduction
<1>6. PICK F \in [SUBSET X -> Nat] : Until(F, Cardinality(X))
  BY <1>1, <1>5 DEF N
<1>7. \A Q \in SUBSET X : Cardinality(Q) <= Cardinality(X)
  BY FS_Subset
<1>8. Iteration(F, X, w, c)
  BY <1>6, <1>7 DEF Iteration
<1> QED BY <1>8

\* Sums that are computed each for itself are one sum.
LEMMA SumsCollect ==
  ASSUME NEW X, IsFiniteSet(X), NEW w, NEW F,
         \A Q \in SUBSET X : \E G : SumOver(G, Q, w) /\ F[Q] = G[Q]
  PROVE  SumOver(F, X, w)
<1>1. F[{}] = 0
  BY DEF SumOver
<1>2. ASSUME NEW Q \in SUBSET X PROVE F[Q] \in Nat
  BY DEF SumOver
<1>3. ASSUME NEW Q \in SUBSET X, NEW x \in Q PROVE F[Q] = w[x] + F[Q \ {x}]
  <2> DEFINE Those == Q \ {x}
  <2>1. PICK G : SumOver(G, Q, w) /\ F[Q] = G[Q]
    OBVIOUS
  <2>2. Those \in SUBSET X /\ Those \in SUBSET Q
    OBVIOUS
  <2>3. G[Q] = w[x] + G[Those]
    BY <2>1 DEF SumOver
  <2> HIDE DEF Those
  <2>4. PICK Before : SumOver(Before, Those, w) /\ F[Those] = Before[Those]
    BY <2>2
  <2>5. SumOver(G, Those, w) /\ IsFiniteSet(Those) /\ Those \in SUBSET Those
    BY <2>1, <2>2, FS_Subset DEF SumOver
  <2>6. G[Those] = Before[Those]
    BY <2>4, <2>5, SumsAgree
  <2> QED BY <2>1, <2>3, <2>4, <2>6 DEF Those
<1> QED BY <1>1, <1>2, <1>3 DEF SumOver

-----------------------------------------------------------------------------
(* What a set of requests adds to a bucket.                                  *)
Figures == {"requests", "success", "tokens"}
Bucket == [requests : Nat, success : Nat, tokens : Nat]
Done == {r \in Requests : shape[r] \in Uses}
Weight(f) == [r \in Done |-> U!Count(r)[f]]
Added(f) == [Q \in SUBSET Done |-> U!Total(Q)[f]]
TotalsAdd ==
  /\ \A Q \in SUBSET Done : U!Total(Q) \in Bucket
  /\ \A f \in Figures : SumOver(Added(f), Done, Weight(f))

LEMMA RequestsAreCounted == IsFiniteSet(Requests) /\ IsFiniteSet(Done) /\ Done \in SUBSET Requests
<1>1. IsFiniteSet(Requests)
  BY CandidatesAreListed
<1>2. Done \in SUBSET Requests
  BY DEF Done
<1> QED BY <1>1, <1>2, FS_Subset

LEMMA CountIs ==
  ASSUME NEW r \in Done
  PROVE  /\ shape[r].ok \in BOOLEAN /\ shape[r].tokens \in Nat
         /\ shape[r].account \in Accounts \cup {Nobody}
         /\ U!Count(r) = [requests |-> 1, success |-> IF shape[r].ok THEN 1 ELSE 0,
                          tokens |-> IF shape[r].ok THEN shape[r].tokens ELSE 0]
         /\ U!Count(r) \in Bucket
<1>1. shape[r] \in [account : Accounts \cup {Nobody}, ok : BOOLEAN, tokens : Nat, sampled : BOOLEAN]
  BY UsesAreTyped DEF Done
<1> QED BY <1>1 DEF U!Count, Bucket

LEMMA PlusIs ==
  ASSUME NEW b \in Bucket, NEW d \in Bucket
  PROVE  /\ U!Plus(b, d) = [requests |-> b.requests + d.requests, success |-> b.success + d.success,
                            tokens |-> b.tokens + d.tokens]
         /\ U!Plus(b, d) \in Bucket
         /\ \A f \in Figures : U!Plus(b, d)[f] = b[f] + d[f]
BY DEF U!Plus, Bucket, Figures

LEMMA BucketsEqual ==
  ASSUME NEW b \in Bucket, NEW d \in Bucket, \A f \in Figures : b[f] = d[f]
  PROVE  b = d
BY DEF Bucket, Figures

LEMMA WeightIs ==
  ASSUME NEW f \in Figures, NEW r \in Done
  PROVE  Weight(f)[r] = U!Count(r)[f] /\ Weight(f)[r] \in Nat
<1>1. U!Count(r) \in Bucket
  BY CountIs
<1> QED BY <1>1 DEF Weight, Bucket, Figures

LEMMA TotalIsSums ==
  ASSUME NEW R \in SUBSET Done
  PROVE  /\ U!Total(R) \in Bucket
         /\ \A f \in Figures : \E G : SumOver(G, R, Weight(f)) /\ U!Total(R)[f] = G[R]
<1> DEFINE first(s) == CHOOSE x \in s : TRUE
           Runs(g) == g = [s \in SUBSET R |->
                             IF s = {} THEN U!Zero
                             ELSE U!Plus(U!Count(first(s)), g[s \ {first(s)}])]
           it == CHOOSE g : Runs(g)
           c == [s \in SUBSET R |-> first(s)]
<1>1. IsFiniteSet(R) /\ R \in SUBSET Requests
  BY RequestsAreCounted, FS_Subset DEF Done
<1>2. \A s \in SUBSET R : s # {} => first(s) \in s /\ c[s] = first(s)
  OBVIOUS
<1>3. Picks(c, R)
  BY <1>2 DEF Picks
<1>4. U!Zero \in Bucket /\ U!Zero = [requests |-> 0, success |-> 0, tokens |-> 0]
  BY DEF U!Zero, Bucket
<1>5. U!Total(R) = it[R]
  BY Zenon DEF U!Total, U!MapThenFoldSet
<1> HIDE DEF first, c
<1>6. ASSUME NEW f \in Figures
      PROVE  \E F : Iteration(F, R, Weight(f), c)
  <2> DEFINE w == Weight(f)
  <2>1. \A x \in R : w[x] \in Nat
    BY WeightIs
  <2> HIDE DEF w
  <2>2. \E F : Iteration(F, R, w, c)
    <3>1. IsFiniteSet(R) /\ Picks(c, R)
      BY <1>1, <1>3
    <3> QED BY <2>1, <3>1, IterationExists, ZenonT(30)
  <2> QED BY <2>2 DEF w
<1>7. \E g : Runs(g)
  <2>1. PICK Fr : Iteration(Fr, R, Weight("requests"), c)
    BY <1>6 DEF Figures
  <2>2. PICK Fs : Iteration(Fs, R, Weight("success"), c)
    BY <1>6 DEF Figures
  <2>3. PICK Ft : Iteration(Ft, R, Weight("tokens"), c)
    BY <1>6 DEF Figures
  <2> DEFINE g == [s \in SUBSET R |-> [requests |-> Fr[s], success |-> Fs[s], tokens |-> Ft[s]]]
  <2>4. g[{}] = U!Zero
    BY <1>4, <2>1, <2>2, <2>3 DEF Iteration
  <2>5. ASSUME NEW s \in SUBSET R, s # {}
        PROVE  g[s] = U!Plus(U!Count(first(s)), g[s \ {first(s)}])
    <3> DEFINE x == first(s)
               rest == s \ {x}
    <3>1. x \in Done /\ x \in R /\ rest \in SUBSET R
      BY <1>2, <2>5
    <3>2. Fr[s] = Weight("requests")[x] + Fr[rest] /\ Fs[s] = Weight("success")[x] + Fs[rest]
          /\ Ft[s] = Weight("tokens")[x] + Ft[rest]
      BY <1>2, <2>1, <2>2, <2>3, <2>5 DEF Iteration
    <3> HIDE DEF x, rest
    <3>3. U!Count(x) \in Bucket
      BY <3>1, CountIs
    <3>4. g[rest] \in Bucket /\ g[rest] = [requests |-> Fr[rest], success |-> Fs[rest], tokens |-> Ft[rest]]
      BY <2>1, <2>2, <2>3, <3>1 DEF Bucket, Iteration
    <3>5. Weight("requests")[x] = U!Count(x).requests /\ Weight("success")[x] = U!Count(x).success
          /\ Weight("tokens")[x] = U!Count(x).tokens
      BY <3>1, WeightIs DEF Figures
    <3>6. g[s] = [requests |-> Fr[s], success |-> Fs[s], tokens |-> Ft[s]]
      OBVIOUS
    <3> HIDE DEF g
    <3>7. U!Plus(U!Count(x), g[rest]) = [requests |-> U!Count(x).requests + Fr[rest],
             success |-> U!Count(x).success + Fs[rest], tokens |-> U!Count(x).tokens + Ft[rest]]
      <4> DEFINE b == U!Count(x)
                 d == g[rest]
      <4>1. b \in Bucket /\ d \in Bucket
        BY <3>3, <3>4
      <4>2. d.requests = Fr[rest] /\ d.success = Fs[rest] /\ d.tokens = Ft[rest]
        BY <3>4
      <4> HIDE DEF b, d
      <4>3. U!Plus(b, d) = [requests |-> b.requests + d.requests, success |-> b.success + d.success,
                            tokens |-> b.tokens + d.tokens]
        BY <4>1, PlusIs
      <4>4. U!Plus(b, d) = [requests |-> b.requests + Fr[rest], success |-> b.success + Fs[rest],
                            tokens |-> b.tokens + Ft[rest]]
        BY <4>2, <4>3
      <4> QED BY <4>4 DEF b, d
    <3>8. g[s] = U!Plus(U!Count(x), g[rest])
      BY <3>2, <3>5, <3>6, <3>7
    <3> QED BY <3>8 DEF x, rest
  <2>6. g = [s \in SUBSET R |-> g[s]]
    OBVIOUS
  <2> HIDE DEF g
  <2>7. Runs(g)
    BY <2>4, <2>5, <2>6
  <2> QED BY <2>7, Zenon
<1>8. Runs(it)
  BY <1>7, Zenon
<1> HIDE DEF it
<1>9. it[{}] = U!Zero
  BY <1>8
<1>10. \A s \in SUBSET R : s # {} => it[s] = U!Plus(U!Count(first(s)), it[s \ {first(s)}])
  BY <1>8
<1> HIDE DEF Runs
<1>11. SUBSET R \subseteq {s \in SUBSET R : it[s] \in Bucket}
  <2> DEFINE T == {s \in SUBSET R : it[s] \in Bucket}
  <2>1. {} \in T
    BY <1>4, <1>9
  <2>2. ASSUME NEW Q \in SUBSET R, Q # {}, \A x \in Q : Q \ {x} \in T PROVE Q \in T
    <3>1. first(Q) \in Q /\ first(Q) \in Done
      BY <1>2, <2>2
    <3>2. it[Q] = U!Plus(U!Count(first(Q)), it[Q \ {first(Q)}]) /\ it[Q \ {first(Q)}] \in Bucket
      BY <1>10, <2>2, <3>1
    <3>3. U!Count(first(Q)) \in Bucket
      BY <3>1, CountIs
    <3> QED BY <3>2, <3>3, PlusIs
  <2> HIDE DEF T
  <2>3. SUBSET R \subseteq T
    BY <1>1, <2>1, <2>2, SubsetInduction
  <2> QED BY <2>3 DEF T
<1>12. ASSUME NEW f \in Figures PROVE SumOver([s \in SUBSET R |-> it[s][f]], R, Weight(f))
  <2> DEFINE F == [s \in SUBSET R |-> it[s][f]]
  <2>1. F[{}] = 0
    BY <1>4, <1>9 DEF Figures
  <2>2. ASSUME NEW Q \in SUBSET R, Q # {} PROVE F[Q] = Weight(f)[c[Q]] + F[Q \ {c[Q]}]
    <3> DEFINE x == first(Q)
               rest == Q \ {x}
    <3>1. x \in Done /\ rest \in SUBSET R /\ c[Q] = x
      BY <1>2, <2>2
    <3>2. it[Q] = U!Plus(U!Count(x), it[rest])
      BY <1>10, <2>2
    <3> HIDE DEF x
    <3>3. U!Count(x) \in Bucket /\ it[rest] \in Bucket
      BY <1>11, <3>1, CountIs
    <3>4. it[Q][f] = U!Count(x)[f] + it[rest][f]
      <4> DEFINE b == U!Count(x)
                 d == it[rest]
      <4>1. b \in Bucket /\ d \in Bucket
        BY <3>3
      <4> HIDE DEF b, d
      <4>2. U!Plus(b, d)[f] = b[f] + d[f]
        BY <4>1, PlusIs
      <4> QED BY <3>2, <4>2 DEF b, d
    <3>5. Weight(f)[x] = U!Count(x)[f]
      BY <3>1, WeightIs
    <3> QED BY <3>1, <3>4, <3>5
  <2>3. \A Q \in SUBSET R : F[Q] = IF Q = {} THEN 0 ELSE Weight(f)[c[Q]] + F[Q \ {c[Q]}]
    BY <2>1, <2>2
  <2>4. \A x \in R : Weight(f)[x] \in Nat
    BY WeightIs
  <2> HIDE DEF F
  <2>5. SumOver(F, R, Weight(f))
    BY <1>1, <1>3, <2>3, <2>4, IterationIsSum
  <2> QED BY <2>5 DEF F
<1>13. it[R] \in Bucket
  BY <1>11
<1>14. ASSUME NEW f \in Figures PROVE \E G : SumOver(G, R, Weight(f)) /\ U!Total(R)[f] = G[R]
  <2> DEFINE F == [s \in SUBSET R |-> it[s][f]]
  <2>1. F[R] = U!Total(R)[f]
    BY <1>5
  <2>2. SumOver(F, R, Weight(f))
    BY <1>12
  <2> HIDE DEF F
  <2> QED BY <2>1, <2>2
<1> QED BY <1>5, <1>13, <1>14

LEMMA TotalsAreSums == TotalsAdd
<1>1. \A Q \in SUBSET Done : U!Total(Q) \in Bucket
  BY TotalIsSums
<1>2. ASSUME NEW f \in Figures PROVE SumOver(Added(f), Done, Weight(f))
  <2>1. ASSUME NEW Q \in SUBSET Done PROVE \E G : SumOver(G, Q, Weight(f)) /\ Added(f)[Q] = G[Q]
    <3>1. Added(f)[Q] = U!Total(Q)[f]
      BY DEF Added
    <3> QED BY <3>1, TotalIsSums
  <2> QED BY <2>1, RequestsAreCounted, SumsCollect
<1> QED BY <1>1, <1>2 DEF TotalsAdd

-----------------------------------------------------------------------------
\* MapThenSumSet, of the tokens of requests and of the days of a column.
Tokens == [r \in Requests |-> shape[r].tokens]
SumOfTokens(R) == U!MapThenSumSet(LAMBDA r : shape[r].tokens, R)

LEMMA TokensAreSummed ==
  ASSUME NEW R \in SUBSET Done
  PROVE  \E G : SumOver(G, R, Tokens) /\ SumOfTokens(R) = G[R]
<1> DEFINE first(s) == CHOOSE x \in s : TRUE
           Runs(g) == g = [s \in SUBSET R |->
                             IF s = {} THEN 0 ELSE shape[first(s)].tokens + g[s \ {first(s)}]]
           it == CHOOSE g : Runs(g)
           c == [s \in SUBSET R |-> first(s)]
<1>1. IsFiniteSet(R) /\ R \in SUBSET Requests
  BY RequestsAreCounted, FS_Subset DEF Done
<1>2. \A s \in SUBSET R : s # {} => first(s) \in s /\ c[s] = first(s)
  OBVIOUS
<1>3. Picks(c, R)
  BY <1>2 DEF Picks
<1>4. \A x \in R : Tokens[x] = shape[x].tokens /\ Tokens[x] \in Nat
  BY <1>1, CountIs DEF Tokens
<1>5. SumOfTokens(R) = it[R]
  BY Zenon DEF SumOfTokens, U!MapThenSumSet, U!MapThenFoldSet
<1> HIDE DEF first, c
<1>6. PICK F : Iteration(F, R, Tokens, c)
  BY <1>1, <1>3, <1>4, IterationExists
<1>7. \A s \in SUBSET R : F[s] = IF s = {} THEN 0 ELSE shape[first(s)].tokens + F[s \ {first(s)}]
  BY <1>2, <1>4, <1>6 DEF Iteration
<1>8. F = [s \in SUBSET R |-> F[s]]
  BY <1>6 DEF Iteration
<1>9. Runs(F)
  BY <1>7, <1>8
<1>10. Runs(it)
  BY <1>9, Zenon
<1> HIDE DEF it
<1>11. \A s \in SUBSET R : it[s] = IF s = {} THEN 0 ELSE shape[first(s)].tokens + it[s \ {first(s)}]
  BY <1>10
<1> HIDE DEF Runs
<1>12. \A s \in SUBSET R : it[s] = IF s = {} THEN 0 ELSE Tokens[c[s]] + it[s \ {c[s]}]
  <2> TAKE s \in SUBSET R
  <2>1. CASE s = {}
    BY <1>11, <2>1
  <2>2. CASE s # {}
    <3>1. c[s] = first(s) /\ first(s) \in R
      BY <1>2, <2>2
    <3> HIDE DEF it
    <3>2. it[s] = Tokens[first(s)] + it[s \ {first(s)}]
      BY <1>4, <1>11, <2>2, <3>1
    <3> QED BY <2>2, <3>1, <3>2
  <2> QED BY <2>1, <2>2
<1>13. SumOver(it, R, Tokens)
  BY <1>1, <1>3, <1>4, <1>12, IterationIsSum
<1> QED BY <1>5, <1>13

LEMMA TokensAdd == SumOver([R \in SUBSET Done |-> SumOfTokens(R)], Done, Tokens)
<1> DEFINE F == [R \in SUBSET Done |-> SumOfTokens(R)]
<1>1. \A Q \in SUBSET Done : \E G : SumOver(G, Q, Tokens) /\ F[Q] = G[Q]
  BY TokensAreSummed
<1> HIDE DEF F
<1>2. SumOver(F, Done, Tokens)
  BY <1>1, RequestsAreCounted, SumsCollect
<1> QED BY <1>2 DEF F

Booked(a) == [d \in U!Days |-> daily[d][a].tokens]
SumOfDays(a) == U!MapThenSumSet(LAMBDA d : daily[d][a].tokens, U!Days)

LEMMA DaysAreCounted == IsFiniteSet(U!Days)
BY UsesAreTyped, FS_Interval DEF U!Days

LEMMA DaysAreSummed ==
  ASSUME NEW a, \A d \in U!Days : daily[d][a].tokens \in Nat
  PROVE  \E G : SumOver(G, U!Days, Booked(a)) /\ SumOfDays(a) = G[U!Days]
<1> DEFINE R == U!Days
           first(s) == CHOOSE x \in s : TRUE
           Runs(g) == g = [s \in SUBSET R |->
                             IF s = {} THEN 0 ELSE daily[first(s)][a].tokens + g[s \ {first(s)}]]
           it == CHOOSE g : Runs(g)
           c == [s \in SUBSET R |-> first(s)]
<1>1. IsFiniteSet(R)
  BY DaysAreCounted
<1>2. \A s \in SUBSET R : s # {} => first(s) \in s /\ c[s] = first(s)
  OBVIOUS
<1>3. Picks(c, R)
  BY <1>2 DEF Picks
<1> DEFINE w == Booked(a)
<1>4. \A x \in R : w[x] = daily[x][a].tokens /\ w[x] \in Nat
  BY DEF Booked
<1>5. SumOfDays(a) = it[R]
  BY Zenon DEF SumOfDays, U!MapThenSumSet, U!MapThenFoldSet
<1> HIDE DEF first, c, w, R
<1>6. PICK F : Iteration(F, R, w, c)
  BY <1>1, <1>3, <1>4, IterationExists
<1>7. \A s \in SUBSET R : F[s] = IF s = {} THEN 0 ELSE daily[first(s)][a].tokens + F[s \ {first(s)}]
  BY <1>2, <1>4, <1>6 DEF Iteration
<1>8. F = [s \in SUBSET R |-> F[s]]
  BY <1>6 DEF Iteration
<1>9. Runs(F)
  BY <1>7, <1>8
<1>10. Runs(it)
  BY <1>9, Zenon
<1> HIDE DEF it
<1>11. \A s \in SUBSET R : it[s] = IF s = {} THEN 0 ELSE daily[first(s)][a].tokens + it[s \ {first(s)}]
  BY <1>10
<1> HIDE DEF Runs
<1>12. \A s \in SUBSET R : it[s] = IF s = {} THEN 0 ELSE w[c[s]] + it[s \ {c[s]}]
  <2> TAKE s \in SUBSET R
  <2>1. CASE s = {}
    BY <1>11, <2>1
  <2>2. CASE s # {}
    <3>1. c[s] = first(s) /\ first(s) \in R
      BY <1>2, <2>2
    <3> HIDE DEF it
    <3>2. it[s] = w[first(s)] + it[s \ {first(s)}]
      BY <1>4, <1>11, <2>2, <3>1
    <3> QED BY <2>2, <3>1, <3>2
  <2> QED BY <2>1, <2>2
<1>13. SumOver(it, R, w)
  BY <1>1, <1>3, <1>4, <1>12, IterationIsSum
<1> QED BY <1>5, <1>13 DEF R, w

DaysAdd ==
  \A a : (\A d \in U!Days : daily[d][a].tokens \in Nat) =>
    \E F : SumOver(F, U!Days, Booked(a)) /\ SumOfDays(a) = F[U!Days]
LEMMA DaysAlwaysAdd == DaysAdd
BY DaysAreSummed DEF DaysAdd

-----------------------------------------------------------------------------
\* Truth counts the requests one by one, the books add them up.
LEMMA StandardCounts == \A Q : U!Cardinality(Q) = Cardinality(Q)
BY Zenon DEF U!Cardinality, Cardinality

LEMMA TruthIsTotal ==
  ASSUME NEW R \in SUBSET Done
  PROVE  U!Truth(R) = U!Total(R)
<1> DEFINE good == {r \in R : shape[r].ok}
           total == U!Total(R)
           F(f) == Added(f)
<1>1. /\ total \in Bucket /\ total.requests = F("requests")[R] /\ total.success = F("success")[R]
      /\ total.tokens = F("tokens")[R]
  BY TotalsAreSums DEF TotalsAdd, Added
<1>2. U!Truth(R) = [requests |-> U!Cardinality(R), success |-> U!Cardinality(good), tokens |-> SumOfTokens(good)]
  BY Zenon DEF U!Truth, SumOfTokens
<1>3. good \in SUBSET R /\ good \in SUBSET Done
  OBVIOUS
<1>4. IsFiniteSet(Done)
  BY RequestsAreCounted
<1>5. \A f \in Figures, r \in Done : Weight(f)[r] = U!Count(r)[f] /\ Weight(f)[r] \in Nat
  BY WeightIs
<1>6. \A r \in Done : /\ Weight("requests")[r] = 1 /\ Weight("success")[r] = (IF shape[r].ok THEN 1 ELSE 0)
                      /\ Weight("tokens")[r] = IF shape[r].ok THEN shape[r].tokens ELSE 0
  BY <1>5, CountIs DEF Figures
<1>7. F("requests")[R] = Cardinality(R)
  <2> DEFINE G == F("requests")
             w == Weight("requests")
  <2>1. SumOver(G, Done, w) /\ \A x \in R : w[x] = 1
    BY <1>6, TotalsAreSums DEF TotalsAdd, Figures
  <2> HIDE DEF G, w
  <2> QED BY <1>4, <2>1, SumOfOnes DEF G
<1>8. F("success")[R] = Cardinality(good)
  <2> DEFINE G == F("success")
             w == Weight("success")
  <2>1. SumOver(G, Done, w) /\ (\A x \in Done : w[x] \in Nat) /\ (\A x \in good : w[x] = 1)
        /\ \A x \in R \ good : w[x] = 0
    BY <1>5, <1>6, TotalsAreSums DEF TotalsAdd, Figures
  <2> HIDE DEF G, w, good
  <2>2. G[R] = G[good]
    BY <1>3, <1>4, <2>1, SumWithoutZeros
  <2>3. G[good] = Cardinality(good)
    BY <1>3, <1>4, <2>1, SumOfOnes
  <2> QED BY <2>2, <2>3 DEF G
<1>9. F("tokens")[R] = SumOfTokens(good)
  <2> DEFINE G == F("tokens")
             Before == [Q \in SUBSET Done |-> SumOfTokens(Q)]
             w == Weight("tokens")
  <2>1. SumOver(G, Done, w) /\ (\A x \in Done : w[x] \in Nat) /\ (\A x \in good : w[x] = Tokens[x])
        /\ \A x \in R \ good : w[x] = 0
    BY <1>3, <1>5, <1>6, TotalsAreSums, RequestsAreCounted DEF TotalsAdd, Figures, Tokens
  <2>2. SumOver(Before, Done, Tokens) /\ Before[good] = SumOfTokens(good)
    BY <1>3, TokensAdd
  <2> HIDE DEF G, w, good, Before
  <2>3. G[R] = G[good]
    BY <1>3, <1>4, <2>1, SumWithoutZeros
  <2>4. G[good] = Before[good]
    BY <1>3, <1>4, <2>1, <2>2, SumsAgree
  <2> QED BY <2>2, <2>3, <2>4 DEF G
<1>10. total = [requests |-> total.requests, success |-> total.success, tokens |-> total.tokens]
  <2> HIDE DEF total
  <2> QED BY <1>1 DEF Bucket
<1> HIDE DEF total, good, F
<1> QED BY <1>1, <1>2, <1>7, <1>8, <1>9, <1>10, StandardCounts DEF total

-----------------------------------------------------------------------------
\* Sums of requests at one state and over a step.
LEMMA TotalOfNone == U!Total({}) = U!Zero
<1>1. {} \in SUBSET Done
  OBVIOUS
<1>2. U!Total({}) \in Bucket /\ \A f \in Figures : U!Total({})[f] = 0
  BY <1>1, TotalsAreSums DEF TotalsAdd, Added, SumOver
<1>3. U!Zero \in Bucket /\ \A f \in Figures : U!Zero[f] = 0
  BY DEF U!Zero, Bucket, Figures
<1> QED BY <1>2, <1>3, BucketsEqual

LEMMA TotalOfUnion ==
  ASSUME NEW A1 \in SUBSET Done, NEW B1 \in SUBSET Done, A1 \cap B1 = {}
  PROVE  U!Total(A1 \cup B1) = U!Plus(U!Total(A1), U!Total(B1))
<1>1. A1 \cup B1 \in SUBSET Done
  OBVIOUS
<1>2. U!Total(A1) \in Bucket /\ U!Total(B1) \in Bucket /\ U!Total(A1 \cup B1) \in Bucket
  BY <1>1, TotalsAreSums DEF TotalsAdd
<1>3. U!Plus(U!Total(A1), U!Total(B1)) \in Bucket
      /\ \A f \in Figures : U!Plus(U!Total(A1), U!Total(B1))[f] = U!Total(A1)[f] + U!Total(B1)[f]
  BY <1>2, PlusIs
<1>4. ASSUME NEW f \in Figures PROVE U!Total(A1 \cup B1)[f] = U!Total(A1)[f] + U!Total(B1)[f]
  <2> DEFINE F == Added(f)
             w == Weight(f)
  <2>1. SumOver(F, Done, w) /\ \A x \in Done : w[x] \in Nat
    BY TotalsAreSums, WeightIs DEF TotalsAdd
  <2>2. \A Q \in SUBSET Done : F[Q] = U!Total(Q)[f]
    BY DEF Added
  <2> HIDE DEF F, w
  <2>3. IsFiniteSet(Done)
    BY RequestsAreCounted
  <2>4. F[A1 \cup B1] = F[A1] + F[B1]
    BY <2>1, <2>3, SumOfUnion
  <2> QED BY <1>1, <2>2, <2>4
<1> QED BY <1>2, <1>3, <1>4, BucketsEqual

LEMMA TotalGrows ==
  ASSUME NEW B1 \in SUBSET Done, NEW A1 \in SUBSET B1, NEW f \in Figures
  PROVE  U!Total(A1)[f] <= U!Total(B1)[f]
<1> DEFINE F == Added(f)
           w == Weight(f)
<1>1. SumOver(F, Done, w) /\ \A x \in Done : w[x] \in Nat
  BY TotalsAreSums, WeightIs DEF TotalsAdd
<1>2. \A Q \in SUBSET Done : F[Q] = U!Total(Q)[f]
  BY DEF Added
<1> HIDE DEF F, w
<1>3. F[A1] <= F[B1]
  BY <1>1, RequestsAreCounted, SumGrows
<1>4. A1 \in SUBSET Done
  OBVIOUS
<1> QED BY <1>2, <1>3, <1>4

LEMMA TotalStays ==
  ASSUME NEW Q \in SUBSET Done, \A r \in Q : shape'[r] = shape[r]
  PROVE  Q \in SUBSET Done' /\ U!Total(Q)' = U!Total(Q)
<1>1. Q \in SUBSET Done'
  BY DEF Done
<1>2. TotalsAdd /\ TotalsAdd'
  BY TotalsAreSums, PTL
<1>3. U!Total(Q) \in Bucket /\ U!Total(Q)' \in Bucket
  BY <1>1, <1>2 DEF TotalsAdd
<1>4. IsFiniteSet(Q)
  BY RequestsAreCounted, FS_Subset
<1>5. \A r \in Q : U!Count(r)' = U!Count(r)
  BY DEF U!Count
<1>6. ASSUME NEW f \in Figures PROVE U!Total(Q)[f] = U!Total(Q)'[f]
  <2> DEFINE F == Added(f)
             G == Added(f)'
             w == Weight(f)
             v == Weight(f)'
  <2>1. F[Q] = U!Total(Q)[f] /\ G[Q] = U!Total(Q)'[f]
    BY <1>1 DEF Added
  <2>2. SumOver(F, Q, w) /\ SumOver(G, Q, v)
    BY <1>1, <1>2 DEF TotalsAdd, SumOver
  <2>3. \A r \in Q : w[r] = v[r]
    BY <1>1, <1>5 DEF Weight
  <2> HIDE DEF F, G, w, v
  <2>4. F[Q] = G[Q]
    BY <1>4, <2>2, <2>3, SumsAgree
  <2> QED BY <2>1, <2>4
<1> QED BY <1>1, <1>3, <1>6, BucketsEqual

-----------------------------------------------------------------------------
(* The books.  Every bucket holds the requests that were booked on its day,  *)
(* each once: those of the inbox, and those that a worker booked itself,     *)
(* which are neither on their way to the writer nor missed.                  *)
UsageStages == {"new", "hot", "publish", "direct", "detail", "over"}
Books == [U!Days -> [U!Dims -> Bucket]]
UsageTyping ==
  /\ day \in U!Days /\ stage \in [Requests -> UsageStages] /\ DOMAIN shape = Requests
  /\ on \in [Requests -> U!Days \cup {0}] /\ hot \in [Requests -> U!Days \cup {0}]
  /\ daily \in Books /\ redis \in Books /\ column \in [Accounts -> Nat]
  /\ stream \in SUBSET Requests /\ inbox \in SUBSET Requests /\ missed \in SUBSET Requests

InPlace ==
  /\ \A r \in Requests :
       /\ stage[r] # "new" => r \in Done
       /\ stage[r] = "new" => on[r] = 0
       /\ stage[r] \in {"new", "hot"} => hot[r] = 0
       /\ r \in stream \cup inbox =>
            stage[r] \in {"direct", "detail", "over"} /\ on[r] \in U!Days /\ (stage[r] # "over" => doubled # {})
  /\ doubled = {} => \A r \in missed : stage[r] \in {"detail", "over"}

Recorded == inbox \cup ({r \in Requests : stage[r] \in {"detail", "over"}} \ (stream \cup missed))
HeldOn(d, dim) == {r \in Recorded : on[r] = d /\ dim \in U!DimsOf(r)}

DailyRight == doubled = {} => \A d \in U!Days, dim \in U!Dims : daily[d][dim] = U!Total(HeldOn(d, dim))
RedisRight ==
  \A d \in U!Days :
    /\ \A f \in Figures : redis[d]["global"][f] <= U!Total(U!Seen(d))[f]
    /\ ~forgot => redis[d]["global"] = U!Total(U!Seen(d))
ColumnsRight == \A a \in Accounts : column[a] = SumOfDays(a)
FailuresKept == {r \in inbox : ~shape[r].ok} \subseteq details

BooksInv == UsageTyping /\ InPlace /\ DailyRight /\ RedisRight /\ ColumnsRight /\ FailuresKept

LEMMA CountedAreDone ==
  ASSUME UsageTyping, InPlace
  PROVE  Recorded \in SUBSET Done
BY DEF UsageTyping, InPlace, Recorded, Done

LEMMA DimsStay ==
  ASSUME NEW r, shape'[r] = shape[r]
  PROVE  U!DimsOf(r)' = U!DimsOf(r)
BY DEF U!DimsOf

LEMMA DimsAre ==
  ASSUME NEW r \in Done
  PROVE  /\ "global" \in U!DimsOf(r) /\ U!DimsOf(r) \subseteq U!Dims
         /\ \A a \in Accounts : a \in U!DimsOf(r) <=> shape[r].account = a
BY CountIs, UsesAreTyped, ExchangesCount DEF U!DimsOf, U!Dims

\* The requests N are booked: those of Recorded stay as they are.
LEMMA DailyGrows ==
  ASSUME UsageTyping, InPlace, DailyRight, doubled = {},
         NEW N \in SUBSET Done, N \cap Recorded = {}, Recorded' = Recorded \cup N,
         \A r \in Recorded \cup N : shape'[r] = shape[r],
         \A r \in Recorded : on'[r] = on[r],
         \A d \in U!Days, dim \in U!Dims :
           daily'[d][dim] = U!Plus(daily[d][dim], U!Total({r \in N : on'[r] = d /\ dim \in U!DimsOf(r)}))
  PROVE  DailyRight'
<1> SUFFICES ASSUME NEW d \in U!Days, NEW dim \in U!Dims
             PROVE  daily'[d][dim] = U!Total(HeldOn(d, dim))'
  BY DEF DailyRight, U!Days, U!Dims
<1> DEFINE Those == {r \in N : on'[r] = d /\ dim \in U!DimsOf(r)}
           Before == HeldOn(d, dim)
<1>1. Recorded \in SUBSET Done
  BY CountedAreDone
<1>2. Before \in SUBSET Done /\ Those \in SUBSET Done /\ Before \cap Those = {}
  BY <1>1 DEF HeldOn
<1>3. HeldOn(d, dim)' = Before \cup Those
  <2>1. \A r \in Recorded \cup N : U!DimsOf(r)' = U!DimsOf(r)
    BY DimsStay
  <2>2. HeldOn(d, dim)' = {r \in Recorded \cup N : on'[r] = d /\ dim \in U!DimsOf(r)'}
    BY DEF HeldOn
  <2> QED BY <2>1, <2>2 DEF HeldOn
<1>4. \A r \in Before \cup Those : shape'[r] = shape[r]
  BY DEF HeldOn
<1>5. daily[d][dim] = U!Total(Before)
  BY DEF DailyRight
<1>6. daily'[d][dim] = U!Plus(daily[d][dim], U!Total(Those))
  OBVIOUS
<1> HIDE DEF Those, Before
<1> DEFINE B1 == Before \cup Those
<1>7. U!Total(B1) = U!Plus(U!Total(Before), U!Total(Those))
  BY <1>2, TotalOfUnion
<1>8. B1 \in SUBSET Done /\ \A r \in B1 : shape'[r] = shape[r]
  BY <1>2, <1>4
<1>9. HeldOn(d, dim)' = B1
  BY <1>3
<1> HIDE DEF B1
<1>10. \A Q \in SUBSET Done : (\A r \in Q : shape'[r] = shape[r]) => U!Total(Q)' = U!Total(Q)
  BY TotalStays
<1>11. U!Total(HeldOn(d, dim))' = U!Total(B1)
  BY <1>8, <1>9, <1>10
<1> QED BY <1>5, <1>6, <1>7, <1>11

LEMMA DailyStays ==
  ASSUME UsageTyping, InPlace, DailyRight, doubled' = {} => doubled = {} /\ Recorded' = Recorded,
         \A r \in Recorded : shape'[r] = shape[r] /\ on'[r] = on[r],
         daily' = daily
  PROVE  DailyRight'
<1> SUFFICES ASSUME doubled' = {}, NEW d \in U!Days, NEW dim \in U!Dims
             PROVE  daily'[d][dim] = U!Total(HeldOn(d, dim))'
  BY DEF DailyRight, U!Days, U!Dims
<1> DEFINE Before == HeldOn(d, dim)
<1>1. Recorded \in SUBSET Done
  BY CountedAreDone
<1>2. HeldOn(d, dim)' = Before
  <2>1. \A r \in Recorded : U!DimsOf(r)' = U!DimsOf(r)
    BY DimsStay
  <2> QED BY <2>1 DEF HeldOn
<1>3. Before \in SUBSET Done /\ \A r \in Before : shape'[r] = shape[r]
  BY <1>1 DEF HeldOn
<1>4. daily'[d][dim] = U!Total(Before)
  BY DEF DailyRight
<1> HIDE DEF Before
<1>5. \A Q \in SUBSET Done : (\A r \in Q : shape'[r] = shape[r]) => U!Total(Q)' = U!Total(Q)
  BY TotalStays
<1> QED BY <1>2, <1>3, <1>4, <1>5

LEMMA ColumnsGrow ==
  ASSUME UsageTyping, ColumnsRight, daily' \in Books,
         NEW N \in SUBSET Done, \A r \in N : on'[r] \in U!Days,
         \A d \in U!Days, a \in Accounts :
           daily'[d][a].tokens = daily[d][a].tokens + U!Total({r \in N : on'[r] = d /\ a \in U!DimsOf(r)}).tokens,
         \A a \in Accounts : column'[a] = column[a] + U!Total({r \in N : shape[r].account = a}).tokens
  PROVE  ColumnsRight'
<1> SUFFICES ASSUME NEW a \in Accounts PROVE column'[a] = SumOfDays(a)'
  BY DEF ColumnsRight
<1> DEFINE Those(D) == {r \in N : on'[r] \in D /\ shape[r].account = a}
           Of(D) == U!Total(Those(D)).tokens
           w == Booked(a)
           v == Booked(a)'
<1>1. a \in U!Dims
  BY DEF U!Dims
<1>2. (\A d \in U!Days : daily[d][a].tokens \in Nat) /\ (\A d \in U!Days : daily'[d][a].tokens \in Nat)
  BY <1>1 DEF UsageTyping, Books, Bucket
<1>3. \E F, G : /\ SumOver(F, U!Days, w) /\ SumOfDays(a) = F[U!Days]
                /\ SumOver(G, U!Days, v) /\ SumOfDays(a)' = G[U!Days]
  <2>1. DaysAdd /\ DaysAdd'
    BY DaysAlwaysAdd, PTL
  <2> QED BY <1>2, <2>1 DEF DaysAdd, U!Days
<1>4. PICK F, G : /\ SumOver(F, U!Days, w) /\ SumOfDays(a) = F[U!Days]
                  /\ SumOver(G, U!Days, v) /\ SumOfDays(a)' = G[U!Days]
  BY <1>3
<1>5. \A D \in SUBSET U!Days : Those(D) \in SUBSET Done /\ Of(D) \in Nat
  <2> TAKE D \in SUBSET U!Days
  <2>1. Those(D) \in SUBSET Done
    OBVIOUS
  <2> HIDE DEF Those
  <2>2. U!Total(Those(D)) \in Bucket
    BY <2>1, TotalsAreSums DEF TotalsAdd
  <2> QED BY <2>1, <2>2 DEF Bucket
<1>6. ASSUME NEW d \in U!Days PROVE w[d] \in Nat /\ v[d] = w[d] + Of({d})
  <2>1. {r \in N : on'[r] = d /\ a \in U!DimsOf(r)} = Those({d})
    BY DimsAre
  <2>2. w[d] = daily[d][a].tokens /\ v[d] = daily'[d][a].tokens
    BY DEF Booked, U!Days
  <2> QED BY <1>2, <2>1, <2>2
<1>7. ASSUME NEW D \in SUBSET U!Days, NEW d \in D PROVE Of(D) = Of({d}) + Of(D \ {d})
  <2> DEFINE A1 == Those({d})
             B1 == Those(D \ {d})
  <2>1. Those(D) = A1 \cup B1 /\ A1 \cap B1 = {} /\ A1 \in SUBSET Done /\ B1 \in SUBSET Done
    OBVIOUS
  <2> HIDE DEF A1, B1, Those
  <2>2. U!Total(A1 \cup B1) = U!Plus(U!Total(A1), U!Total(B1))
    BY <2>1, TotalOfUnion
  <2>3. U!Total(A1) \in Bucket /\ U!Total(B1) \in Bucket
    BY <2>1, TotalsAreSums DEF TotalsAdd
  <2>4. U!Total(A1 \cup B1).tokens = U!Total(A1).tokens + U!Total(B1).tokens
    BY <2>2, <2>3, PlusIs
  <2> QED BY <2>1, <2>4 DEF A1, B1
<1>8. Of({}) = 0
  <2>1. Those({}) = {}
    OBVIOUS
  <2> HIDE DEF Those
  <2>2. U!Total(Those({})) = U!Total({})
    BY <2>1, Zenon
  <2>3. U!Total({}).tokens = 0
    BY TotalOfNone DEF U!Zero
  <2> QED BY <2>2, <2>3
<1>9. Those(U!Days) = {r \in N : shape[r].account = a}
  OBVIOUS
<1> HIDE DEF Of, w, v
<1> DEFINE T == {D \in SUBSET U!Days : G[D] = F[D] + Of(D)}
<1>10. {} \in T
  BY <1>4, <1>8 DEF SumOver
<1>11. ASSUME NEW D \in SUBSET U!Days, D # {}, \A d \in D : D \ {d} \in T PROVE D \in T
  <2>1. PICK d \in D : TRUE
    BY <1>11
  <2>2. G[D \ {d}] = F[D \ {d}] + Of(D \ {d})
    BY <1>11
  <2>3. F[D] = w[d] + F[D \ {d}] /\ G[D] = v[d] + G[D \ {d}] /\ F[D \ {d}] \in Nat
    BY <1>4 DEF SumOver
  <2>4. w[d] \in Nat /\ v[d] = w[d] + Of({d}) /\ Of({d}) \in Nat /\ Of(D \ {d}) \in Nat
    BY <1>5, <1>6
  <2>5. Of(D) = Of({d}) + Of(D \ {d})
    BY <1>7
  <2>6. G[D] = F[D] + Of(D)
    BY <2>2, <2>3, <2>4, <2>5
  <2> QED BY <2>6
<1> HIDE DEF T
<1>12. SUBSET U!Days \subseteq T
  BY <1>10, <1>11, DaysAreCounted, SubsetInduction
<1>13. G[U!Days] = F[U!Days] + Of(U!Days)
  BY <1>12 DEF T
<1>14. column'[a] = column[a] + Of(U!Days)
  BY <1>9 DEF Of
<1>15. column[a] = F[U!Days]
  BY <1>4 DEF ColumnsRight
<1> QED BY <1>4, <1>13, <1>14, <1>15

LEMMA ColumnsStay ==
  ASSUME UsageTyping, ColumnsRight, daily' = daily, column' = column
  PROVE  ColumnsRight'
<1> SUFFICES ASSUME NEW a \in Accounts PROVE SumOfDays(a)' = SumOfDays(a)
  BY DEF ColumnsRight
<1> DEFINE w == Booked(a)
           v == Booked(a)'
<1>1. a \in U!Dims
  BY DEF U!Dims
<1>2. (\A d \in U!Days : daily[d][a].tokens \in Nat) /\ (\A d \in U!Days : daily'[d][a].tokens \in Nat)
  BY <1>1 DEF UsageTyping, Books, Bucket
<1>3. DaysAdd /\ DaysAdd'
  BY DaysAlwaysAdd, PTL
<1>4. PICK F, G : /\ SumOver(F, U!Days, w) /\ SumOfDays(a) = F[U!Days]
                  /\ SumOver(G, U!Days, v) /\ SumOfDays(a)' = G[U!Days]
  BY <1>2, <1>3 DEF DaysAdd, U!Days
<1>5. \A d \in U!Days : w[d] = v[d]
  BY DEF Booked, U!Days
<1> HIDE DEF w, v
<1>6. IsFiniteSet(U!Days) /\ U!Days \in SUBSET U!Days
  BY DaysAreCounted
<1>7. F[U!Days] = G[U!Days]
  BY <1>4, <1>5, <1>6, SumsAgree
<1> QED BY <1>4, <1>7

LEMMA SeenAreDone ==
  ASSUME UsageTyping, InPlace, NEW d \in U!Days
  PROVE  U!Seen(d) \in SUBSET Done
BY UsesAreTyped DEF UsageTyping, InPlace, U!Seen, U!Days

LEMMA RedisStays ==
  ASSUME UsageTyping, InPlace, RedisRight, redis' = redis, hot' = hot,
         \A r \in Requests : stage[r] # "new" => shape'[r] = shape[r],
         ~forgot' => ~forgot
  PROVE  RedisRight'
<1> SUFFICES ASSUME NEW d \in U!Days
             PROVE  /\ \A f \in Figures : redis[d]["global"][f] <= U!Total(U!Seen(d))'[f]
                    /\ ~forgot' => redis[d]["global"] = U!Total(U!Seen(d))'
  BY DEF RedisRight, U!Days
<1> DEFINE Before == U!Seen(d)
<1>1. Before \in SUBSET Done /\ U!Seen(d)' = Before
  BY SeenAreDone DEF U!Seen
<1>2. \A r \in Before : shape'[r] = shape[r]
  BY UsesAreTyped DEF U!Seen, U!Days, InPlace
<1>3. /\ \A f \in Figures : redis[d]["global"][f] <= U!Total(Before)[f]
      /\ ~forgot => redis[d]["global"] = U!Total(Before)
  BY DEF RedisRight
<1> HIDE DEF Before
<1>4. \A Q \in SUBSET Done : (\A r \in Q : shape'[r] = shape[r]) => U!Total(Q)' = U!Total(Q)
  BY TotalStays
<1>5. U!Total(U!Seen(d))' = U!Total(Before)
  BY <1>1, <1>2, <1>4
<1> QED BY <1>3, <1>5

\* The buckets of one day after one request.
LEMMA BumpedIs ==
  ASSUME NEW buckets \in Books, NEW e \in U!Days, NEW R \in SUBSET Done
  PROVE  /\ U!Bumped(buckets, e, R) \in Books
         /\ \A d \in U!Days, dim \in U!Dims :
              U!Bumped(buckets, e, R)[d][dim] =
                IF d = e THEN U!Plus(buckets[d][dim], U!Total({r \in R : dim \in U!DimsOf(r)}))
                ELSE buckets[d][dim]
<1> DEFINE Those(dim) == {r \in R : dim \in U!DimsOf(r)}
           new == [dim \in U!Dims |-> U!Plus(buckets[e][dim], U!Total(Those(dim)))]
<1>1. \A dim \in U!Dims : buckets[e][dim] \in Bucket /\ U!Total(Those(dim)) \in Bucket
  <2> TAKE dim \in U!Dims
  <2>1. Those(dim) \in SUBSET Done
    OBVIOUS
  <2> HIDE DEF Those
  <2> QED BY <2>1, TotalsAreSums DEF TotalsAdd, Books
<1>2. \A dim \in U!Dims : U!Plus(buckets[e][dim], U!Total(Those(dim))) \in Bucket
  <2> HIDE DEF Those
  <2> QED BY <1>1, PlusIs
<1>3. U!Bumped(buckets, e, R) = [buckets EXCEPT ![e] = new]
  BY DEF U!Bumped, Books
<1>4. new \in [U!Dims -> Bucket]
  BY <1>2
<1>5. \A dim \in U!Dims : new[dim] = U!Plus(buckets[e][dim], U!Total(Those(dim)))
  OBVIOUS
<1> HIDE DEF new, Those
<1>6. U!Bumped(buckets, e, R) \in Books
  BY <1>3, <1>4 DEF Books
<1>7. \A d \in U!Days, dim \in U!Dims :
        U!Bumped(buckets, e, R)[d][dim] =
          IF d = e THEN U!Plus(buckets[d][dim], U!Total(Those(dim))) ELSE buckets[d][dim]
  BY <1>3, <1>5 DEF Books
<1> QED BY <1>6, <1>7 DEF Those

LEMMA PlusNothing ==
  ASSUME NEW b \in Bucket
  PROVE  U!Plus(b, U!Zero) = b
<1>1. U!Zero \in Bucket /\ \A f \in Figures : U!Zero[f] = 0
  BY DEF U!Zero, Bucket, Figures
<1>2. U!Plus(b, U!Zero) \in Bucket /\ \A f \in Figures : U!Plus(b, U!Zero)[f] = b[f] + 0
  <2> DEFINE z == U!Zero
  <2>1. z \in Bucket /\ \A f \in Figures : z[f] = 0
    BY <1>1
  <2> HIDE DEF z
  <2>2. U!Plus(b, z) \in Bucket /\ \A f \in Figures : U!Plus(b, z)[f] = b[f] + z[f]
    BY <2>1, PlusIs
  <2>3. U!Plus(b, z) \in Bucket /\ \A f \in Figures : U!Plus(b, z)[f] = b[f] + 0
    BY <2>1, <2>2
  <2> QED BY <2>3 DEF z
<1>3. \A f \in Figures : b[f] + 0 = b[f]
  BY DEF Bucket, Figures
<1> QED BY <1>2, <1>3, BucketsEqual

\* usage_redis.record
LEMMA RedisGrows ==
  ASSUME BooksInv, NEW r \in Requests, U!Hot(r)
  PROVE  RedisRight' /\ redis' \in Books
<1> USE DEF BooksInv
<1>1. /\ stage[r] = "hot" /\ hot[r] = 0 /\ r \in Done /\ UNCHANGED shape
      /\ hot' = [hot EXCEPT ![r] = day] /\ day \in U!Days
      /\ \/ redis' = U!Bumped(redis, day, {r}) /\ UNCHANGED forgot
         \/ redis' = redis /\ forgot' = TRUE
  BY DEF U!Hot, U!Calm, InPlace, UsageTyping
<1>2. ASSUME NEW d \in U!Days
      PROVE  /\ U!Seen(d) \in SUBSET Done /\ r \notin U!Seen(d)
             /\ U!Seen(d)' = IF d = day THEN U!Seen(d) \cup {r} ELSE U!Seen(d)
  <2>1. U!Seen(d) \in SUBSET Done
    BY SeenAreDone
  <2>2. r \notin U!Seen(d)
    BY <1>1, UsesAreTyped DEF U!Seen, U!Days
  <2>3. U!Seen(d)' = {x \in Requests : hot'[x] = d}
    BY DEF U!Seen
  <2> QED BY <1>1, <2>1, <2>2, <2>3 DEF U!Seen, UsageTyping
<1>3. ASSUME NEW Q \in SUBSET Done PROVE U!Total(Q)' = U!Total(Q)
  BY <1>1, TotalStays
<1>4. redis' \in Books
  <2>1. {r} \in SUBSET Done
    BY <1>1
  <2> QED BY <1>1, <2>1, BumpedIs DEF UsageTyping
<1>5. ASSUME NEW d \in U!Days
      PROVE  /\ \A f \in Figures : redis'[d]["global"][f] <= U!Total(U!Seen(d))'[f]
             /\ ~forgot' => redis'[d]["global"] = U!Total(U!Seen(d))'
  <2> DEFINE Before == U!Seen(d)
             B1 == Before \cup {r}
  <2>1. Before \in SUBSET Done /\ {r} \in SUBSET Done /\ Before \cap {r} = {} /\ B1 \in SUBSET Done /\ Before \in SUBSET B1
    BY <1>1, <1>2
  <2>2. /\ \A f \in Figures : redis[d]["global"][f] <= U!Total(Before)[f]
        /\ ~forgot => redis[d]["global"] = U!Total(Before)
    BY DEF RedisRight
  <2>3. "global" \in U!Dims /\ redis[d]["global"] \in Bucket
    BY DEF U!Dims, UsageTyping, Books
  <2>4. {x \in {r} : "global" \in U!DimsOf(x)} = {r}
    BY <1>1, DimsAre
  <2>5. U!Seen(d)' = IF d = day THEN B1 ELSE Before
    BY <1>2
  <2> HIDE DEF Before
  <2>6. U!Total(B1) = U!Plus(U!Total(Before), U!Total({r}))
    BY <2>1, TotalOfUnion
  <2>7. U!Total(Before) \in Bucket /\ U!Total({r}) \in Bucket /\ U!Total(B1) \in Bucket
    BY <2>1, TotalsAreSums DEF TotalsAdd
  <2>8. \A f \in Figures : U!Total(B1)[f] = U!Total(Before)[f] + U!Total({r})[f]
    <3> DEFINE b == U!Total(Before)
               c == U!Total({r})
    <3>1. b \in Bucket /\ c \in Bucket /\ U!Total(B1) = U!Plus(b, c)
      BY <2>6, <2>7
    <3> HIDE DEF b, c, B1
    <3>2. \A f \in Figures : U!Plus(b, c)[f] = b[f] + c[f]
      BY <3>1, PlusIs
    <3>3. \A f \in Figures : U!Total(B1)[f] = b[f] + c[f]
      BY <3>1, <3>2
    <3> QED BY <3>3 DEF b, c
  <2>9. \A f \in Figures : U!Total(Before)[f] \in Nat /\ U!Total({r})[f] \in Nat /\ redis[d]["global"][f] \in Nat
    BY <2>3, <2>7 DEF Bucket, Figures
  <2> HIDE DEF B1
  <2>10. U!Total(U!Seen(d))' = IF d = day THEN U!Total(B1) ELSE U!Total(Before)
    <3>1. CASE d = day
      BY <1>3, <2>1, <2>5, <3>1
    <3>2. CASE d # day
      BY <1>3, <2>1, <2>5, <3>2
    <3> QED BY <3>1, <3>2
  <2>11. CASE redis' = redis /\ forgot' = TRUE
    <3>1. ASSUME NEW f \in Figures PROVE redis[d]["global"][f] <= U!Total(B1)[f]
      <4> DEFINE old == redis[d]["global"][f]
                 sum == U!Total(Before)[f]
                 one == U!Total({r})[f]
                 all == U!Total(B1)[f]
      <4>1. old <= sum /\ all = sum + one
        BY <2>2, <2>8
      <4>2. old \in Nat /\ sum \in Nat /\ one \in Nat
        BY <2>9
      <4> HIDE DEF old, sum, one, all
      <4>3. old <= all
        BY <4>1, <4>2
      <4> QED BY <4>3 DEF old, all
    <3> QED BY <2>2, <2>10, <2>11, <3>1
  <2>12. CASE redis' = U!Bumped(redis, day, {r}) /\ UNCHANGED forgot
    <3>1. redis'[d]["global"] = IF d = day THEN U!Plus(redis[d]["global"], U!Total({r})) ELSE redis[d]["global"]
      <4>1. \A e \in U!Days, dim \in U!Dims :
              redis'[e][dim] = IF e = day THEN U!Plus(redis[e][dim], U!Total({x \in {r} : dim \in U!DimsOf(x)}))
                               ELSE redis[e][dim]
        BY <1>1, <2>1, <2>12, BumpedIs DEF UsageTyping
      <4>2. redis'[d]["global"] = IF d = day
                THEN U!Plus(redis[d]["global"], U!Total({x \in {r} : "global" \in U!DimsOf(x)}))
                ELSE redis[d]["global"]
        BY <2>3, <4>1
      <4> QED BY <2>4, <4>2
    <3>2. U!Plus(redis[d]["global"], U!Total({r})) \in Bucket
          /\ \A f \in Figures : U!Plus(redis[d]["global"], U!Total({r}))[f] = redis[d]["global"][f] + U!Total({r})[f]
      BY <2>3, <2>7, PlusIs
    <3>3. CASE d = day
      <4>1. \A f \in Figures : redis'[d]["global"][f] <= U!Total(B1)[f]
        <5> TAKE f \in Figures
        <5>1. redis'[d]["global"][f] = redis[d]["global"][f] + U!Total({r})[f]
          BY <3>1, <3>2, <3>3
        <5>2. U!Total(B1)[f] = U!Total(Before)[f] + U!Total({r})[f]
          BY <2>8
        <5>3. redis[d]["global"][f] <= U!Total(Before)[f]
          BY <2>2
        <5> DEFINE old == redis[d]["global"][f]
                   sum == U!Total(Before)[f]
                   one == U!Total({r})[f]
                   all == U!Total(B1)[f]
                   now == redis'[d]["global"][f]
        <5>4. now = old + one /\ all = sum + one /\ old <= sum
          BY <5>1, <5>2, <5>3
        <5>5. old \in Nat /\ sum \in Nat /\ one \in Nat
          BY <2>9
        <5> HIDE DEF old, sum, one, all, now
        <5>6. now <= all
          BY <5>4, <5>5
        <5> QED BY <5>6 DEF all, now
      <4>2. ~forgot' => redis'[d]["global"] = U!Total(B1)
        BY <2>2, <2>6, <2>12, <3>1, <3>3
      <4> QED BY <2>10, <3>3, <4>1, <4>2
    <3>4. CASE d # day
      BY <2>2, <2>10, <2>12, <3>1, <3>4
    <3> QED BY <3>3, <3>4
  <2> QED BY <1>1, <2>11, <2>12
<1>6. RedisRight'
  BY <1>5 DEF RedisRight, U!Days
<1> QED BY <1>4, <1>6

\* Y step that books nothing and leaves Redis' buckets alone.
LEMMA NothingBooked ==
  ASSUME BooksInv, UsageTyping', InPlace',
         daily' = daily, column' = column, redis' = redis, hot' = hot, inbox' = inbox,
         details \subseteq details', ~forgot' => ~forgot,
         doubled' = {} => doubled = {} /\ Recorded' = Recorded,
         \A r \in Requests : stage[r] # "new" => shape'[r] = shape[r],
         \A r \in Recorded : on'[r] = on[r]
  PROVE  BooksInv'
<1>1. UsageTyping /\ InPlace /\ DailyRight /\ RedisRight /\ ColumnsRight /\ FailuresKept
  BY DEF BooksInv
<1>2. \A r \in Recorded : r \in Requests /\ stage[r] # "new"
  BY <1>1 DEF Recorded, InPlace, UsageTyping
<1>3. DailyRight'
  BY <1>1, <1>2, DailyStays
<1>4. ColumnsRight'
  BY <1>1, ColumnsStay
<1>5. RedisRight'
  BY <1>1, RedisStays
<1>6. FailuresKept'
  BY <1>1, <1>2 DEF FailuresKept, Recorded
<1> QED BY <1>3, <1>4, <1>5, <1>6 DEF BooksInv

LEMMA FinishBooks ==
  ASSUME BooksInv, NEW r \in Requests, U!Finish(r)
  PROVE  BooksInv'
<1> USE DEF U!Finish, U!Goto, U!Calm
<1>1. UsageTyping /\ InPlace
  BY DEF BooksInv
<1>2. PICK s \in Uses : shape' = [shape EXCEPT ![r] = s]
  OBVIOUS
<1>3. /\ stage[r] = "new" /\ stage' = [stage EXCEPT ![r] = "hot"]
      /\ UNCHANGED <<async, day, hot, on, redis, stream, inbox, daily, column, details, missed, doubled, forgot, losses>>
  OBVIOUS
<1>4. UsageTyping'
  <2>1. day' \in U!Days /\ stage' \in [Requests -> UsageStages]
    BY <1>1, <1>3 DEF UsageTyping, UsageStages
  <2>2. DOMAIN shape' = Requests
    BY <1>1, <1>2 DEF UsageTyping
  <2>3. /\ on' \in [Requests -> U!Days \cup {0}] /\ hot' \in [Requests -> U!Days \cup {0}]
        /\ daily' \in Books /\ redis' \in Books /\ column' \in [Accounts -> Nat]
    BY <1>1, <1>3 DEF UsageTyping, Books, U!Days, U!Dims
  <2>4. stream' \in SUBSET Requests /\ inbox' \in SUBSET Requests /\ missed' \in SUBSET Requests
    BY <1>1, <1>3 DEF UsageTyping
  <2> QED BY <2>1, <2>2, <2>3, <2>4 DEF UsageTyping
<1>5. \A x \in Requests : x # r => (x \in Done' <=> x \in Done) /\ stage'[x] = stage[x]
  BY <1>1, <1>2, <1>3 DEF Done, UsageTyping
<1>6. r \in Done' /\ stage'[r] = "hot"
  BY <1>1, <1>2, <1>3 DEF Done, UsageTyping
<1>7. InPlace'
  BY <1>1, <1>3, <1>5, <1>6 DEF InPlace, U!Days, UsageTyping
<1>8. r \notin Recorded /\ Recorded' = Recorded
  BY <1>1, <1>3, <1>5, <1>6 DEF Recorded, InPlace, UsageTyping
<1>9. \A x \in Requests : stage[x] # "new" => shape'[x] = shape[x]
  BY <1>1, <1>2, <1>3 DEF UsageTyping
<1> QED BY <1>3, <1>4, <1>7, <1>8, <1>9, NothingBooked

LEMMA HotBooks ==
  ASSUME BooksInv, NEW r \in Requests, U!Hot(r)
  PROVE  BooksInv'
<1>1. UsageTyping /\ InPlace /\ DailyRight /\ ColumnsRight /\ FailuresKept
  BY DEF BooksInv
<1>2. RedisRight' /\ redis' \in Books
  BY RedisGrows
<1>3. /\ stage[r] = "hot" /\ stage' = [stage EXCEPT ![r] = IF async THEN "publish" ELSE "direct"]
      /\ hot' = [hot EXCEPT ![r] = day]
      /\ UNCHANGED <<async, day, shape, on, stream, inbox, daily, column, details, missed, doubled>>
  BY DEF U!Hot, U!Goto
<1>4. redis' \in [U!Days -> [U!Dims -> Bucket]]
  BY <1>2 DEF Books
<1>5. UsageTyping'
  BY <1>1, <1>3, <1>4 DEF UsageTyping, UsageStages, Books, U!Days, U!Dims
<1>6. InPlace'
  BY <1>1, <1>3 DEF InPlace, Done, UsageTyping, U!Days
<1>7. Recorded' = Recorded
  BY <1>1, <1>3 DEF Recorded, UsageTyping
<1>8. DailyRight'
  BY <1>1, <1>3, <1>7, DailyStays
<1>9. ColumnsRight'
  BY <1>1, <1>3, ColumnsStay
<1>10. FailuresKept'
  BY <1>1, <1>3 DEF FailuresKept
<1> QED BY <1>2, <1>5, <1>6, <1>8, <1>9, <1>10 DEF BooksInv

LEMMA PublishBooks ==
  ASSUME BooksInv, NEW r \in Requests, U!Publish(r)
  PROVE  BooksInv'
<1>1. UsageTyping /\ InPlace
  BY DEF BooksInv
<1>2. /\ stage[r] = "publish" /\ on' = [on EXCEPT ![r] = day]
      /\ UNCHANGED <<async, day, shape, hot, redis, inbox, daily, column, details, missed, forgot>>
      /\ \/ stream' = stream \cup {r} /\ stage' = [stage EXCEPT ![r] = "over"] /\ UNCHANGED doubled
         \/ stream' = stream /\ stage' = [stage EXCEPT ![r] = "direct"] /\ UNCHANGED doubled
         \/ stream' = stream \cup {r} /\ stage' = [stage EXCEPT ![r] = "direct"] /\ doubled' = doubled \cup {r}
  BY DEF U!Publish, U!Goto, U!Calm
<1>3. r \notin stream \cup inbox /\ r \notin Recorded /\ r \in Done
  BY <1>1, <1>2 DEF InPlace, Recorded
<1>4. UsageTyping'
  BY <1>1, <1>2 DEF UsageTyping, UsageStages, Books, U!Days, U!Dims
<1>5. InPlace'
  <2>1. on'[r] \in U!Days /\ \A x \in Requests : x # r => on'[x] = on[x] /\ stage'[x] = stage[x]
    BY <1>1, <1>2 DEF UsageTyping
  <2>2. \A x \in Requests : x \in Done' <=> x \in Done
    BY <1>2 DEF Done
  <2>3. stage'[r] \in {"over", "direct"} /\ (stage'[r] = "direct" => r \notin stream' \cup inbox' \/ doubled' # {})
    BY <1>1, <1>2, <1>3 DEF UsageTyping
  <2>4. stream' \subseteq stream \cup {r} /\ doubled \subseteq doubled' /\ UNCHANGED <<hot, inbox, missed>>
    BY <1>2
  <2>5. ASSUME NEW x \in Requests
        PROVE  /\ stage'[x] # "new" => x \in Done'
               /\ stage'[x] = "new" => on'[x] = 0
               /\ stage'[x] \in {"new", "hot"} => hot'[x] = 0
               /\ x \in stream' \cup inbox' =>
                    stage'[x] \in {"direct", "detail", "over"} /\ on'[x] \in U!Days
                    /\ (stage'[x] # "over" => doubled' # {})
    <3>1. CASE x = r
      BY <1>3, <2>1, <2>2, <2>3, <3>1
    <3>2. CASE x # r
      <4>1. stage'[x] = stage[x] /\ on'[x] = on[x] /\ (x \in stream' \cup inbox' => x \in stream \cup inbox)
        BY <2>1, <2>4, <3>2
      <4>2. doubled # {} => doubled' # {}
        BY <2>4
      <4> QED BY <1>1, <2>2, <2>4, <4>1, <4>2 DEF InPlace
    <3> QED BY <3>1, <3>2
  <2>6. doubled' = {} => \A x \in missed' : stage'[x] \in {"detail", "over"}
    <3>1. doubled' = {} => doubled = {}
      BY <1>2
    <3>2. doubled = {} => \A x \in missed : x \in Requests /\ x # r /\ stage[x] \in {"detail", "over"}
      BY <1>1, <1>2 DEF InPlace, UsageTyping
    <3> QED BY <2>1, <2>4, <3>1, <3>2
  <2> QED BY <2>5, <2>6 DEF InPlace, U!Days
<1>6. doubled' = {} => doubled = {} /\ Recorded' = Recorded
  BY <1>1, <1>2, <1>3 DEF Recorded, UsageTyping
<1>7. \A x \in Recorded : on'[x] = on[x]
  <2>1. \A x \in Recorded : x \in Requests
    BY <1>1 DEF Recorded, UsageTyping
  <2> QED BY <1>1, <1>2, <1>3, <2>1 DEF UsageTyping
<1> QED BY <1>2, <1>4, <1>5, <1>6, <1>7, NothingBooked

\* usage_pg.record of a worker, or its failure
LEMMA DirectBooks ==
  ASSUME BooksInv, NEW r \in Requests, U!Direct(r)
  PROVE  BooksInv'
<1>1. UsageTyping /\ InPlace /\ DailyRight /\ RedisRight /\ ColumnsRight /\ FailuresKept
  BY DEF BooksInv
<1>2. /\ stage[r] = "direct" /\ stage' = [stage EXCEPT ![r] = "detail"] /\ on' = [on EXCEPT ![r] = day]
      /\ UNCHANGED <<async, day, shape, hot, redis, stream, inbox, details, doubled, forgot>>
      /\ \/ U!Booked(r) /\ UNCHANGED missed
         \/ missed' = missed \cup {r} /\ UNCHANGED <<daily, column>>
  BY DEF U!Direct, U!Goto, U!Calm
<1>3. r \in Done /\ {r} \in SUBSET Done /\ day \in U!Days
  BY <1>1, <1>2 DEF InPlace, UsageTyping
<1>4. on'[r] = day /\ stage'[r] = "detail" /\ \A x \in Requests : x # r => on'[x] = on[x] /\ stage'[x] = stage[x]
  BY <1>1, <1>2 DEF UsageTyping
<1>5. InPlace'
  <2>1. \A x \in Requests : x \in Done' <=> x \in Done
    BY <1>2 DEF Done
  <2>2. \A x \in Requests : /\ stage'[x] # "new" => x \in Done'
                            /\ stage'[x] = "new" => on'[x] = 0
                            /\ stage'[x] \in {"new", "hot"} => hot'[x] = 0
    BY <1>1, <1>2, <1>3, <1>4, <2>1 DEF InPlace
  <2>3. \A x \in Requests : x \in stream' \cup inbox' =>
          stage'[x] \in {"direct", "detail", "over"} /\ on'[x] \in U!Days /\ (stage'[x] # "over" => doubled' # {})
    BY <1>1, <1>2, <1>3, <1>4 DEF InPlace
  <2>4. doubled' = {} => \A x \in missed' : stage'[x] \in {"detail", "over"}
    BY <1>1, <1>2, <1>4 DEF InPlace, UsageTyping
  <2> QED BY <2>2, <2>3, <2>4 DEF InPlace, U!Days
<1>6. doubled = {} => r \notin Recorded /\ r \notin stream \cup inbox \cup missed
  BY <1>1, <1>2 DEF InPlace, Recorded
<1>7. \A x \in Recorded : x \in Requests
  BY <1>1 DEF Recorded, UsageTyping
<1>8. CASE missed' = missed \cup {r} /\ UNCHANGED <<daily, column>>
  <2>1. UsageTyping'
    BY <1>1, <1>2, <1>3, <1>8 DEF UsageTyping, UsageStages, Books, U!Days, U!Dims
  <2>2. doubled' = {} => doubled = {} /\ Recorded' = Recorded
    BY <1>2, <1>4, <1>6, <1>8 DEF Recorded
  <2>3. DailyRight'
    <3>1. CASE doubled = {}
      BY <1>1, <1>2, <1>4, <1>6, <1>7, <1>8, <2>2, <3>1, DailyStays
    <3>2. CASE doubled # {}
      BY <1>2, <3>2 DEF DailyRight
    <3> QED BY <3>1, <3>2
  <2>4. ColumnsRight'
    BY <1>1, <1>8, ColumnsStay
  <2>5. RedisRight'
    BY <1>1, <1>2, RedisStays
  <2>6. FailuresKept'
    BY <1>1, <1>2 DEF FailuresKept
  <2> QED BY <1>5, <2>1, <2>3, <2>4, <2>5, <2>6 DEF BooksInv
<1>9. CASE U!Booked(r) /\ UNCHANGED missed
  <2>1. daily' = U!Bumped(daily, day, {r})
        /\ column' = [a \in Accounts |-> column[a] + U!Total({x \in {r} : shape[x].account = a}).tokens]
    BY <1>9 DEF U!Booked, U!Credited
  <2>2. daily' \in Books
        /\ \A d \in U!Days, dim \in U!Dims :
             daily'[d][dim] = IF d = day THEN U!Plus(daily[d][dim], U!Total({x \in {r} : dim \in U!DimsOf(x)}))
                              ELSE daily[d][dim]
    <3> DEFINE new == U!Bumped(daily, day, {r})
    <3>1. daily \in Books
      BY <1>1 DEF UsageTyping
    <3>2. new \in Books
          /\ \A d \in U!Days, dim \in U!Dims :
               new[d][dim] = IF d = day THEN U!Plus(daily[d][dim], U!Total({x \in {r} : dim \in U!DimsOf(x)}))
                             ELSE daily[d][dim]
      BY <1>3, <3>1, BumpedIs
    <3>3. daily' = new
      BY <2>1
    <3> HIDE DEF new
    <3> QED BY <3>2, <3>3
  <2>3. ASSUME NEW d \in U!Days, NEW dim \in U!Dims
        PROVE  /\ daily[d][dim] \in Bucket
               /\ U!Total({x \in {r} : on'[x] = d /\ dim \in U!DimsOf(x)}) \in Bucket
               /\ daily'[d][dim] = U!Plus(daily[d][dim], U!Total({x \in {r} : on'[x] = d /\ dim \in U!DimsOf(x)}))
    <3> DEFINE Those == {x \in {r} : on'[x] = d /\ dim \in U!DimsOf(x)}
               R == {x \in {r} : dim \in U!DimsOf(x)}
    <3>1. daily[d][dim] \in Bucket
      BY <1>1 DEF UsageTyping, Books
    <3>2. Those \in SUBSET Done
      BY <1>3
    <3>3. daily'[d][dim] = IF d = day THEN U!Plus(daily[d][dim], U!Total(R)) ELSE daily[d][dim]
      BY <2>2
    <3>4. d = day => Those = R
      BY <1>4
    <3>5. d # day => Those = {}
      BY <1>4
    <3> HIDE DEF Those, R
    <3>6. U!Total(Those) \in Bucket
      BY <3>2, TotalsAreSums DEF TotalsAdd
    <3>7. CASE d = day
      BY <3>1, <3>3, <3>4, <3>6, <3>7 DEF Those
    <3>8. CASE d # day
      <4>1. U!Total(Those) = U!Total({})
        BY <3>5, <3>8, Zenon
      <4>2. U!Plus(daily[d][dim], U!Zero) = daily[d][dim]
        BY <3>1, PlusNothing
      <4>3. U!Total(Those) = U!Zero
        BY <4>1, TotalOfNone
      <4>4. daily'[d][dim] = U!Plus(daily[d][dim], U!Total(Those))
        BY <3>3, <3>8, <4>2, <4>3
      <4> QED BY <3>1, <3>6, <4>4 DEF Those
    <3> QED BY <3>7, <3>8
  <2>4. UsageTyping'
    <3>1. column' \in [Accounts -> Nat]
      <4>1. ASSUME NEW a \in Accounts PROVE column[a] + U!Total({x \in {r} : shape[x].account = a}).tokens \in Nat
        <5> DEFINE Those == {x \in {r} : shape[x].account = a}
        <5>1. Those \in SUBSET Done /\ column[a] \in Nat
          BY <1>1, <1>3 DEF UsageTyping
        <5> HIDE DEF Those
        <5>2. U!Total(Those) \in Bucket
          BY <5>1, TotalsAreSums DEF TotalsAdd
        <5>3. column[a] + U!Total(Those).tokens \in Nat
          BY <5>1, <5>2 DEF Bucket
        <5> QED BY <5>3 DEF Those
      <4> QED BY <2>1, <4>1
    <3>2. daily' \in [U!Days -> [U!Dims -> Bucket]]
      BY <2>2 DEF Books
    <3> QED BY <1>1, <1>2, <1>3, <3>1, <3>2 DEF UsageTyping, UsageStages, Books, U!Days, U!Dims
  <2>5. DailyRight'
    <3>1. CASE doubled = {}
      <4>1. {r} \cap Recorded = {} /\ Recorded' = Recorded \cup {r}
        BY <1>2, <1>4, <1>6, <1>9, <3>1 DEF Recorded
      <4>2. (\A x \in Recorded \cup {r} : shape'[x] = shape[x]) /\ \A x \in Recorded : on'[x] = on[x]
        BY <1>2, <1>4, <1>7, <4>1
      <4> QED BY <1>1, <1>3, <2>3, <3>1, <4>1, <4>2, DailyGrows
    <3>2. CASE doubled # {}
      BY <1>2, <3>2 DEF DailyRight
    <3> QED BY <3>1, <3>2
  <2>6. ColumnsRight'
    <3>1. ASSUME NEW d \in U!Days, NEW a \in Accounts
          PROVE  daily'[d][a].tokens =
                   daily[d][a].tokens + U!Total({x \in {r} : on'[x] = d /\ a \in U!DimsOf(x)}).tokens
      <4> DEFINE b == daily[d][a]
                 c == U!Total({x \in {r} : on'[x] = d /\ a \in U!DimsOf(x)})
      <4>1. a \in U!Dims
        BY DEF U!Dims
      <4>2. b \in Bucket /\ c \in Bucket /\ daily'[d][a] = U!Plus(b, c)
        BY <2>3, <4>1
      <4> HIDE DEF b, c
      <4>3. daily'[d][a].tokens = b.tokens + c.tokens
        BY <4>2, PlusIs
      <4> QED BY <4>3 DEF b, c
    <3>2. \A a \in Accounts : column'[a] = column[a] + U!Total({x \in {r} : shape[x].account = a}).tokens
      BY <2>1
    <3>3. \A x \in {r} : on'[x] \in U!Days
      BY <1>3, <1>4
    <3> QED BY <1>1, <1>3, <2>2, <3>1, <3>2, <3>3, ColumnsGrow
  <2>7. RedisRight'
    BY <1>1, <1>2, RedisStays
  <2>8. FailuresKept'
    BY <1>1, <1>2 DEF FailuresKept
  <2> QED BY <1>5, <2>4, <2>5, <2>6, <2>7, <2>8 DEF BooksInv
<1> QED BY <1>2, <1>8, <1>9

LEMMA DetailBooks ==
  ASSUME BooksInv, NEW r \in Requests, U!Detail(r)
  PROVE  BooksInv'
<1>1. UsageTyping /\ InPlace
  BY DEF BooksInv
<1>2. /\ stage[r] = "detail" /\ stage' = [stage EXCEPT ![r] = "over"] /\ details \subseteq details'
      /\ UNCHANGED <<async, day, shape, hot, on, redis, stream, inbox, daily, column, missed, doubled, forgot>>
  BY DEF U!Detail, U!Goto, U!Calm
<1>3. stage'[r] = "over" /\ \A x \in Requests : x # r => stage'[x] = stage[x]
  BY <1>1, <1>2 DEF UsageTyping
<1>4. UsageTyping'
  BY <1>1, <1>2 DEF UsageTyping, UsageStages, Books, U!Days, U!Dims
<1>5. Done' = Done /\ r \in Done
  BY <1>1, <1>2 DEF Done, InPlace
<1>6. InPlace'
  <2>1. \A x \in Requests : /\ stage'[x] # "new" => x \in Done'
                            /\ stage'[x] = "new" => on'[x] = 0
                            /\ stage'[x] \in {"new", "hot"} => hot'[x] = 0
    BY <1>1, <1>2, <1>3, <1>5 DEF InPlace
  <2>2. \A x \in Requests : x \in stream' \cup inbox' =>
          stage'[x] \in {"direct", "detail", "over"} /\ on'[x] \in U!Days /\ (stage'[x] # "over" => doubled' # {})
    BY <1>1, <1>2, <1>3 DEF InPlace
  <2>3. doubled' = {} => \A x \in missed' : stage'[x] \in {"detail", "over"}
    BY <1>1, <1>2, <1>3 DEF InPlace, UsageTyping
  <2> QED BY <2>1, <2>2, <2>3 DEF InPlace, U!Days
<1>7. Recorded' = Recorded
  BY <1>2, <1>3 DEF Recorded
<1> QED BY <1>2, <1>4, <1>6, <1>7, NothingBooked

LEMMA AckBooks ==
  ASSUME BooksInv, NEW r \in Requests, U!Ack(r)
  PROVE  BooksInv'
<1>1. UsageTyping /\ InPlace
  BY DEF BooksInv
<1>2. /\ r \in stream \cap inbox /\ stream' = stream \ {r}
      /\ UNCHANGED <<async, day, stage, shape, hot, on, redis, inbox, daily, column, details, missed, doubled, forgot>>
  BY DEF U!Ack, U!Calm
<1>3. UsageTyping'
  BY <1>1, <1>2 DEF UsageTyping, UsageStages, Books, U!Days, U!Dims
<1>4. InPlace'
  BY <1>1, <1>2 DEF InPlace, Done, U!Days
<1>5. Recorded' = Recorded
  <2>1. Recorded' = inbox \cup ({x \in Requests : stage[x] \in {"detail", "over"}} \ ((stream \ {r}) \cup missed))
    BY <1>2 DEF Recorded
  <2> QED BY <1>2, <2>1 DEF Recorded
<1> QED BY <1>2, <1>3, <1>4, <1>5, NothingBooked

LEMMA MidnightBooks ==
  ASSUME BooksInv, U!Midnight
  PROVE  BooksInv'
<1>1. UsageTyping /\ InPlace
  BY DEF BooksInv
<1>2. /\ day < LastDay /\ day' = day + 1
      /\ UNCHANGED <<async, stage, shape, hot, on, redis, stream, inbox, daily, column, details, missed, doubled, forgot>>
  BY DEF U!Midnight, U!Calm
<1>3. day' \in U!Days
  BY <1>1, <1>2, UsesAreTyped DEF UsageTyping, U!Days
<1>4. UsageTyping'
  BY <1>1, <1>2, <1>3 DEF UsageTyping, UsageStages, Books, U!Days, U!Dims
<1>5. InPlace' /\ Recorded' = Recorded
  BY <1>1, <1>2 DEF InPlace, Done, U!Days, Recorded
<1> QED BY <1>2, <1>4, <1>5, NothingBooked

LEMMA CrashBooks ==
  ASSUME BooksInv, NEW r \in Requests, U!Crash(r)
  PROVE  BooksInv'
<1>1. UsageTyping /\ InPlace
  BY DEF BooksInv
<1>2. /\ stage[r] \in {"hot", "publish", "direct", "detail"} /\ stage' = [stage EXCEPT ![r] = "over"]
      /\ missed' = IF stage[r] = "detail" THEN missed ELSE missed \cup {r}
      /\ UNCHANGED <<async, day, shape, hot, on, redis, stream, inbox, daily, column, details, doubled, forgot>>
  BY DEF U!Crash, U!Goto
<1>3. stage'[r] = "over" /\ \A x \in Requests : x # r => stage'[x] = stage[x]
  BY <1>1, <1>2 DEF UsageTyping
<1>4. UsageTyping'
  BY <1>1, <1>2 DEF UsageTyping, UsageStages, Books, U!Days, U!Dims
<1>5. Done' = Done /\ r \in Done
  BY <1>1, <1>2 DEF Done, InPlace
<1>6. InPlace'
  <2>1. \A x \in Requests : /\ stage'[x] # "new" => x \in Done'
                            /\ stage'[x] = "new" => on'[x] = 0
                            /\ stage'[x] \in {"new", "hot"} => hot'[x] = 0
    BY <1>1, <1>2, <1>3, <1>5 DEF InPlace
  <2>2. \A x \in Requests : x \in stream' \cup inbox' =>
          stage'[x] \in {"direct", "detail", "over"} /\ on'[x] \in U!Days /\ (stage'[x] # "over" => doubled' # {})
    BY <1>1, <1>2, <1>3 DEF InPlace
  <2>3. doubled' = {} => \A x \in missed' : stage'[x] \in {"detail", "over"}
    BY <1>1, <1>2, <1>3 DEF InPlace, UsageTyping
  <2> QED BY <2>1, <2>2, <2>3 DEF InPlace, U!Days
<1>7. Recorded' = Recorded
  BY <1>2, <1>3 DEF Recorded
<1> QED BY <1>2, <1>4, <1>6, <1>7, NothingBooked

\* Redis loses its data, the events of the stream included.
LEMMA FlushBooks ==
  ASSUME BooksInv, U!Flush
  PROVE  BooksInv'
<1>1. UsageTyping /\ InPlace /\ DailyRight /\ RedisRight /\ ColumnsRight /\ FailuresKept
  BY DEF BooksInv
<1>2. /\ forgot' = TRUE /\ redis' = [d \in U!Days |-> [dim \in U!Dims |-> U!Zero]]
      /\ missed' = missed \cup (stream \ inbox) /\ stream' = {}
      /\ UNCHANGED <<async, day, stage, shape, hot, on, inbox, daily, column, details, doubled>>
  BY DEF U!Flush
<1>3. U!Zero \in Bucket /\ \A f \in Figures : U!Zero[f] = 0
  BY DEF U!Zero, Bucket, Figures
<1>4. UsageTyping'
  BY <1>1, <1>2, <1>3 DEF UsageTyping, UsageStages, Books, U!Days, U!Dims
<1>5. InPlace'
  <2>1. Done' = Done
    BY <1>2 DEF Done
  <2>2. doubled' = {} => \A x \in missed' : stage'[x] \in {"detail", "over"}
    BY <1>1, <1>2 DEF InPlace, UsageTyping
  <2> QED BY <1>1, <1>2, <2>1, <2>2 DEF InPlace, U!Days
<1>6. Recorded' = Recorded
  <2>1. Recorded' = inbox \cup ({x \in Requests : stage[x] \in {"detail", "over"}} \ (missed \cup (stream \ inbox)))
    BY <1>2 DEF Recorded
  <2> QED BY <2>1 DEF Recorded
<1>7. DailyRight'
  <2>1. \A x \in Recorded : shape'[x] = shape[x] /\ on'[x] = on[x]
    BY <1>2
  <2> QED BY <1>1, <1>2, <1>6, <2>1, DailyStays
<1>8. ColumnsRight'
  BY <1>1, <1>2, ColumnsStay
<1>9. RedisRight'
  <2> SUFFICES ASSUME NEW d \in U!Days, NEW f \in Figures
               PROVE  redis'[d]["global"][f] <= U!Total(U!Seen(d))'[f]
    BY <1>2 DEF RedisRight, U!Days
  <2>1. redis'[d]["global"][f] = 0
    BY <1>2, <1>3 DEF U!Dims
  <2>2. U!Seen(d)' \in SUBSET Done'
    <3>1. U!Seen(d)' = U!Seen(d) /\ Done' = Done
      BY <1>2 DEF U!Seen, Done
    <3> QED BY <1>1, <3>1, SeenAreDone
  <2>3. TotalsAdd'
    BY TotalsAreSums, PTL
  <2>4. U!Total(U!Seen(d))' \in Bucket
    BY <2>2, <2>3 DEF TotalsAdd
  <2> QED BY <2>1, <2>4 DEF Bucket, Figures
<1>10. FailuresKept'
  BY <1>1, <1>2 DEF FailuresKept
<1> QED BY <1>4, <1>5, <1>7, <1>8, <1>9, <1>10 DEF BooksInv

\* The writer's transaction: the events of the batch that the inbox has not are booked
\* on their days.
LEMMA ApplyBooks ==
  ASSUME BooksInv, NEW S1 \in SUBSET stream, U!Apply(S1)
  PROVE  BooksInv'
<1> DEFINE N == S1 \ inbox
           On(d) == {r \in N : on[r] = d}
           Those(d, dim) == {x \in N : on'[x] = d /\ dim \in U!DimsOf(x)}
           Q(a) == {r \in N : shape[r].account = a}
<1>1. UsageTyping /\ InPlace /\ DailyRight /\ RedisRight /\ ColumnsRight /\ FailuresKept
  BY DEF BooksInv
<1>2. /\ inbox' = inbox \cup S1
      /\ daily' = [d \in U!Days |-> U!Bumped(daily, d, On(d))[d]]
      /\ column' = [a \in Accounts |-> column[a] + U!Total(Q(a)).tokens]
      /\ details' = details \cup {r \in N : U!Kept(r)}
      /\ UNCHANGED <<async, day, stage, shape, hot, on, redis, stream, missed, doubled, forgot>>
  BY DEF U!Apply, U!Credited, U!Detailed, U!Calm
<1>3. N \in SUBSET Done /\ (\A r \in N : on[r] \in U!Days) /\ N \subseteq stream
  BY <1>1 DEF UsageTyping, InPlace
<1>4. \A d : On(d) \in SUBSET Done
  BY <1>3
<1>5. ASSUME NEW d \in U!Days, NEW dim \in U!Dims
      PROVE  /\ daily[d][dim] \in Bucket /\ U!Total(Those(d, dim)) \in Bucket
             /\ daily'[d][dim] = U!Plus(daily[d][dim], U!Total(Those(d, dim)))
  <2> DEFINE R == On(d)
             new == U!Bumped(daily, d, R)
  <2>1. daily \in Books /\ R \in SUBSET Done
    BY <1>1, <1>4 DEF UsageTyping
  <2>2. daily'[d] = new[d]
    BY <1>2
  <2>3. {x \in R : dim \in U!DimsOf(x)} = Those(d, dim) /\ Those(d, dim) \in SUBSET Done
    BY <1>2, <1>3
  <2> HIDE DEF R, Those, On, N
  <2>4. \A e \in U!Days, m \in U!Dims :
          new[e][m] = IF e = d THEN U!Plus(daily[e][m], U!Total({x \in R : m \in U!DimsOf(x)})) ELSE daily[e][m]
    BY <2>1, BumpedIs
  <2> HIDE DEF new
  <2>5. new[d][dim] = U!Plus(daily[d][dim], U!Total({x \in R : dim \in U!DimsOf(x)}))
    BY <2>4
  <2>6. new[d][dim] = U!Plus(daily[d][dim], U!Total(Those(d, dim)))
    BY <2>3, <2>5
  <2>7. daily[d][dim] \in Bucket /\ U!Total(Those(d, dim)) \in Bucket
    BY <2>1, <2>3, TotalsAreSums DEF TotalsAdd, Books
  <2> QED BY <2>2, <2>6, <2>7
<1>6. daily' \in Books
  <2> DEFINE R(d) == U!Bumped(daily, d, On(d))
  <2>1. ASSUME NEW d \in U!Days PROVE R(d) \in Books
    <3>1. daily \in Books /\ On(d) \in SUBSET Done
      BY <1>1, <1>4 DEF UsageTyping
    <3> HIDE DEF On
    <3> QED BY <3>1, BumpedIs
  <2>2. daily' = [d \in U!Days |-> R(d)[d]]
    BY <1>2
  <2> HIDE DEF R
  <2> QED BY <2>1, <2>2 DEF Books
<1>7. UsageTyping'
  <2>1. column' \in [Accounts -> Nat]
    <3>1. ASSUME NEW a \in Accounts PROVE column[a] + U!Total(Q(a)).tokens \in Nat
      <4>1. Q(a) \in SUBSET Done /\ column[a] \in Nat
        BY <1>1, <1>3 DEF UsageTyping
      <4> HIDE DEF Q
      <4>2. U!Total(Q(a)) \in Bucket
        BY <4>1, TotalsAreSums DEF TotalsAdd
      <4> QED BY <4>1, <4>2 DEF Bucket
    <3> HIDE DEF Q
    <3> QED BY <1>2, <3>1
  <2>2. daily' \in [U!Days -> [U!Dims -> Bucket]]
    BY <1>6 DEF Books
  <2>3. inbox' \in SUBSET Requests
    BY <1>1, <1>2 DEF UsageTyping
  <2> HIDE DEF On, Q, Those, N
  <2> QED BY <1>1, <1>2, <2>1, <2>2, <2>3 DEF UsageTyping, UsageStages, Books, U!Days, U!Dims
<1> HIDE DEF On, Q, Those
<1>8. InPlace'
  <2>1. Done' = Done /\ \A x \in inbox' : x \in stream \cup inbox
    BY <1>2 DEF Done
  <2> HIDE DEF N
  <2> QED BY <1>1, <1>2, <2>1 DEF InPlace, U!Days
<1>9. DailyRight'
  <2>1. CASE doubled = {}
    <3>1. N \cap Recorded = {}
      BY <1>3 DEF Recorded
    <3>2. Recorded' = Recorded \cup N
      <4>1. \A x \in N : x \in Requests /\ x \in stream
        BY <1>1, <1>3 DEF UsageTyping
      <4>2. inbox' = inbox \cup N
        BY <1>2
      <4> HIDE DEF N
      <4> QED BY <1>2, <4>1, <4>2 DEF Recorded
    <3>3. (\A x \in Recorded \cup N : shape'[x] = shape[x]) /\ \A x \in Recorded : on'[x] = on[x]
      BY <1>2
    <3>4. \A d \in U!Days, dim \in U!Dims :
            daily'[d][dim] = U!Plus(daily[d][dim], U!Total({x \in N : on'[x] = d /\ dim \in U!DimsOf(x)}))
      BY <1>5 DEF Those
    <3> HIDE DEF N
    <3> QED BY <1>1, <1>3, <2>1, <3>1, <3>2, <3>3, <3>4, DailyGrows
  <2>2. CASE doubled # {}
    BY <1>2, <2>2 DEF DailyRight
  <2> QED BY <2>1, <2>2
<1>10. ColumnsRight'
  <2>1. ASSUME NEW d \in U!Days, NEW a \in Accounts
        PROVE  daily'[d][a].tokens = daily[d][a].tokens + U!Total({x \in N : on'[x] = d /\ a \in U!DimsOf(x)}).tokens
    <3> DEFINE b == daily[d][a]
               c == U!Total(Those(d, a))
    <3>1. a \in U!Dims
      BY DEF U!Dims
    <3>2. b \in Bucket /\ c \in Bucket /\ daily'[d][a] = U!Plus(b, c)
      BY <1>5, <3>1
    <3> HIDE DEF b, c
    <3>3. daily'[d][a].tokens = b.tokens + c.tokens
      BY <3>2, PlusIs
    <3> QED BY <3>3 DEF b, c, Those
  <2>2. \A a \in Accounts : column'[a] = column[a] + U!Total({x \in N : shape[x].account = a}).tokens
    <3>1. \A a \in Accounts : column'[a] = column[a] + U!Total(Q(a)).tokens
      BY <1>2
    <3> QED BY <3>1 DEF Q
  <2>3. \A x \in N : on'[x] \in U!Days
    BY <1>2, <1>3
  <2> HIDE DEF N
  <2> QED BY <1>1, <1>3, <1>6, <2>1, <2>2, <2>3, ColumnsGrow
<1>11. RedisRight'
  BY <1>1, <1>2, RedisStays
<1>12. FailuresKept'
  BY <1>1, <1>2 DEF FailuresKept, U!Kept
<1> QED BY <1>7, <1>8, <1>9, <1>10, <1>11, <1>12 DEF BooksInv


LEMMA BooksStep == BooksInv /\ [U!Next]_usageVars => BooksInv'
<1> SUFFICES ASSUME BooksInv, [U!Next]_usageVars PROVE BooksInv'
  OBVIOUS
<1>1. CASE U!Next
  <2>1. \/ \E r \in Requests : \/ U!Finish(r) \/ U!Hot(r) \/ U!Publish(r) \/ U!Direct(r)
                               \/ U!Detail(r) \/ U!Ack(r) \/ U!Crash(r)
        \/ \E S1 \in SUBSET stream : U!Apply(S1)
        \/ U!Midnight \/ U!Flush
    BY <1>1 DEF U!Next
  <2> QED BY <2>1, FinishBooks, HotBooks, PublishBooks, DirectBooks, DetailBooks, AckBooks, CrashBooks,
             ApplyBooks, MidnightBooks, FlushBooks
<1>2. CASE UNCHANGED usageVars
  <2>1. UNCHANGED <<day, stage, shape, hot, on, redis, stream, inbox, daily, column, details, missed, doubled, forgot>>
    BY <1>2 DEF usageVars
  <2>2. UsageTyping' /\ InPlace' /\ Recorded' = Recorded
    BY <2>1 DEF BooksInv, UsageTyping, InPlace, Done, Books, U!Days, U!Dims, Recorded
  <2> QED BY <2>1, <2>2, NothingBooked
<1> QED BY <1>1, <1>2

LEMMA BooksAtFirst == U!Init => BooksInv
<1> SUFFICES ASSUME U!Init PROVE BooksInv
  OBVIOUS
<1>1. /\ day = 1 /\ stage = [r \in Requests |-> "new"] /\ shape = [r \in Requests |-> Nobody]
      /\ hot = [r \in Requests |-> 0] /\ on = [r \in Requests |-> 0]
      /\ redis = [d \in U!Days |-> [dim \in U!Dims |-> U!Zero]] /\ daily = redis
      /\ stream = {} /\ inbox = {} /\ column = [a \in Accounts |-> 0] /\ details = {}
      /\ missed = {} /\ doubled = {} /\ forgot = FALSE
  BY DEF U!Init
<1>2. U!Zero \in Bucket /\ U!Zero.tokens = 0
  BY DEF U!Zero, Bucket
<1>3. 1 \in U!Days
  BY UsesAreTyped DEF U!Days
<1>4. UsageTyping
  BY <1>1, <1>2, <1>3 DEF UsageTyping, UsageStages, Books
<1>5. InPlace /\ Recorded = {}
  BY <1>1 DEF InPlace, Recorded
<1>6. DailyRight
  <2> SUFFICES ASSUME NEW d \in U!Days, NEW dim \in U!Dims PROVE daily[d][dim] = U!Total(HeldOn(d, dim))
    BY DEF DailyRight
  <2>1. HeldOn(d, dim) = {}
    BY <1>5 DEF HeldOn
  <2>2. U!Total(HeldOn(d, dim)) = U!Total({})
    BY <2>1, Zenon
  <2> QED BY <1>1, <2>2, TotalOfNone
<1>7. RedisRight
  <2> SUFFICES ASSUME NEW d \in U!Days PROVE redis[d]["global"] = U!Total(U!Seen(d)) /\ redis[d]["global"] \in Bucket
    <3>1. ASSUME NEW b \in Bucket, NEW f \in Figures PROVE b[f] <= b[f]
      BY DEF Bucket, Figures
    <3> QED BY <3>1 DEF RedisRight
  <2>1. U!Seen(d) = {}
    BY <1>1, UsesAreTyped DEF U!Seen, U!Days
  <2>2. U!Total(U!Seen(d)) = U!Total({})
    BY <2>1, Zenon
  <2>3. redis[d]["global"] = U!Zero
    BY <1>1 DEF U!Dims
  <2> QED BY <1>2, <2>2, <2>3, TotalOfNone
<1>8. ColumnsRight
  <2> SUFFICES ASSUME NEW a \in Accounts PROVE SumOfDays(a) = 0
    BY <1>1 DEF ColumnsRight
  <2> DEFINE w == Booked(a)
  <2>1. \A d \in U!Days : daily[d][a].tokens = 0
    BY <1>1, <1>2 DEF U!Dims
  <2>2. PICK F : SumOver(F, U!Days, w) /\ SumOfDays(a) = F[U!Days]
    BY <2>1, DaysAlwaysAdd DEF DaysAdd
  <2>3. \A d \in U!Days : w[d] = 0
    BY <2>1 DEF Booked
  <2> HIDE DEF w
  <2>4. U!Days \in SUBSET U!Days
    OBVIOUS
  <2>5. F[U!Days] = 0
    BY <2>2, <2>3, <2>4, DaysAreCounted, SumOfZeros
  <2> QED BY <2>2, <2>5
<1>9. FailuresKept
  BY <1>1 DEF FailuresKept
<1> QED BY <1>4, <1>5, <1>6, <1>7, <1>8, <1>9 DEF BooksInv

LEMMA BooksTell == BooksInv => U!BooksBalance /\ U!ShownOnce
<1> SUFFICES ASSUME BooksInv PROVE U!BooksBalance /\ U!ShownOnce
  OBVIOUS
<1>1. UsageTyping /\ InPlace /\ DailyRight /\ RedisRight /\ ColumnsRight /\ FailuresKept
  BY DEF BooksInv
<1>2. ASSUME NEW d \in U!Days PROVE U!On(d) \in SUBSET Done /\ U!Seen(d) \in SUBSET Done
  BY <1>1, UsesAreTyped, SeenAreDone DEF U!On, U!Days, UsageTyping, InPlace
<1>3. \A a \in Accounts : column[a] = U!MapThenSumSet(LAMBDA d : daily[d][a].tokens, U!Days)
  BY <1>1 DEF ColumnsRight, SumOfDays
<1>4. ASSUME stream \subseteq inbox, \A r \in Requests : stage[r] \in {"new", "over"}, missed \cup doubled = {},
             NEW d \in U!Days, NEW dim \in U!Dims
      PROVE  daily[d][dim] = U!Truth({r \in U!On(d) : dim \in U!DimsOf(r)})
  <2> DEFINE T1 == {r \in U!On(d) : dim \in U!DimsOf(r)}
  <2>1. HeldOn(d, dim) = T1
    <3>1. d # 0
      BY DEF U!Days
    <3>2. \A r \in Requests : on[r] = d => r \in Recorded
      BY <1>1, <1>4, <3>1 DEF InPlace, Recorded
    <3>3. \A r \in Recorded : r \in Requests
      BY <1>1 DEF Recorded, UsageTyping
    <3> QED BY <3>2, <3>3 DEF HeldOn, U!On
  <2>2. T1 \in SUBSET Done
    BY <1>2
  <2>3. daily[d][dim] = U!Total(HeldOn(d, dim))
    BY <1>1, <1>4 DEF DailyRight
  <2> HIDE DEF T1
  <2>4. U!Truth(T1) = U!Total(T1)
    BY <2>2, TruthIsTotal
  <2>5. daily[d][dim] = U!Truth(T1)
    BY <2>1, <2>3, <2>4
  <2> QED BY <2>5 DEF T1
<1>5. U!BooksBalance
  BY <1>1, <1>3, <1>4 DEF U!BooksBalance, FailuresKept
<1>6. DOMAIN U!Zero = Figures
  BY DEF U!Zero, Figures
<1>7. ASSUME NEW m \in Nat, NEW n \in Nat
      PROVE  /\ U!Greater(m, n) >= m
             /\ \A p \in Nat, q \in Nat : m <= p /\ n <= q => U!Greater(m, n) <= U!Greater(p, q)
  BY DEF U!Greater
<1>8. ASSUME NEW d \in U!Days, NEW f \in Figures
      PROVE  /\ ~forgot => U!Shown(d)[f] >= U!Truth(U!Seen(d))[f]
             /\ doubled = {} => U!Shown(d)[f] <= U!Greater(U!Truth(U!Seen(d))[f], U!Truth(U!On(d))[f])
  <2> DEFINE fast == redis[d]["global"]
             slow == daily[d]["global"]
             seen1 == U!Total(U!Seen(d))
             on1 == U!Total(U!On(d))
  <2>1. "global" \in U!Dims
    BY DEF U!Dims
  <2>2. fast \in Bucket /\ slow \in Bucket
    BY <1>1, <2>1 DEF UsageTyping, Books
  <2>3. U!Shown(d)[f] = U!Greater(fast[f], slow[f])
    BY <1>6 DEF U!Shown
  <2>4. U!Truth(U!Seen(d)) = seen1 /\ U!Truth(U!On(d)) = on1
    BY <1>2, TruthIsTotal
  <2>5. seen1 \in Bucket /\ on1 \in Bucket
    BY <1>2, TotalsAreSums DEF TotalsAdd
  <2>6. fast[f] <= seen1[f] /\ (~forgot => fast = seen1)
    BY <1>1 DEF RedisRight
  <2>7. doubled = {} => slow[f] <= on1[f]
    <3> SUFFICES ASSUME doubled = {} PROVE slow[f] <= on1[f]
      OBVIOUS
    <3>1. slow = U!Total(HeldOn(d, "global"))
      BY <1>1, <2>1 DEF DailyRight
    <3>2. HeldOn(d, "global") \in SUBSET U!On(d)
      BY <1>1 DEF HeldOn, U!On, Recorded, UsageTyping
    <3> DEFINE B1 == U!On(d)
               A1 == HeldOn(d, "global")
    <3>3. B1 \in SUBSET Done /\ A1 \in SUBSET B1
      BY <1>2, <3>2
    <3> HIDE DEF A1, B1, slow, on1
    <3>4. U!Total(A1)[f] <= U!Total(B1)[f]
      BY <3>3, TotalGrows
    <3> QED BY <3>1, <3>4 DEF A1, B1, on1
  <2>8. fast[f] \in Nat /\ slow[f] \in Nat /\ seen1[f] \in Nat /\ on1[f] \in Nat
    BY <2>2, <2>5 DEF Bucket, Figures
  <2> HIDE DEF fast, slow, seen1, on1
  <2>9. ~forgot => U!Shown(d)[f] >= U!Truth(U!Seen(d))[f]
    BY <1>7, <2>3, <2>4, <2>6, <2>8
  <2>10. doubled = {} => U!Shown(d)[f] <= U!Greater(U!Truth(U!Seen(d))[f], U!Truth(U!On(d))[f])
    BY <1>7, <2>3, <2>4, <2>6, <2>7, <2>8
  <2> QED BY <2>9, <2>10
<1>9. U!ShownOnce
  BY <1>6, <1>8 DEF U!ShownOnce
<1> QED BY <1>5, <1>9

\* The books of what the clients used agree with what they used, through lost
\* replies, crashes, losses of Redis, the writer's lag and midnight.
THEOREM BooksAlwaysAgree == GatewaySpec => []BooksAgree
<1>1. BooksInv => BooksAgree
  BY BooksTell DEF BooksAgree
<1>2. GatewayInit => BooksInv
  BY BooksAtFirst DEF GatewayInit
<1> QED BY <1>1, <1>2, PartsStepAlone, BooksStep, PTL DEF GatewaySpec
=============================================================================
