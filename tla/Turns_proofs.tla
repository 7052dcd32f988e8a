---------------------------- MODULE Turns_proofs ----------------------------
(* The turns the gateway serves, for any upstream lines, any tools, any      *)
(* chain of accounts and any caps.                                           *)
EXTENDS Turns, FiniteSetTheorems, SequenceTheorems, WellFoundedInduction, TLAPS

(* Induction.  A set of numbers that holds 0 and with a number its successor *)
(* holds all numbers: what is proved by induction below is stated of the set *)
(* of the numbers it is true of.                                             *)
LEMMA LeastOfSet ==
  ASSUME NEW T \in SUBSET Nat, T # {}
  PROVE  \E x \in T : \A y \in T : x <= y
<1> DEFINE R == OpToRel(<, Nat)
<1>1. IsWellFoundedOn(R, Nat)
  BY NatLessThanWellFounded
<1>2. \A x, y \in Nat : y < x => <<y, x>> \in R
  BY DEF OpToRel
<1> HIDE DEF R
<1>3. PICK x \in T : \A y \in T : ~(<<y, x>> \in R)
  BY <1>1, WFMin
<1>4. ASSUME NEW y \in T PROVE x <= y
  <2>1. x \in Nat /\ y \in Nat /\ <<y, x>> \notin R
    BY <1>3
  <2>2. ~(y < x)
    BY <1>2, <2>1, Zenon
  <2> QED BY <2>1, <2>2
<1> QED BY <1>4

LEMMA SetInduction ==
  ASSUME NEW T \in SUBSET Nat, 0 \in T, \A n \in T : n + 1 \in T
  PROVE  T = Nat
<1> SUFFICES ASSUME Nat \ T # {} PROVE FALSE
  OBVIOUS
<1>1. PICK x \in Nat \ T : \A y \in Nat \ T : x <= y
  BY LeastOfSet
<1>2. x # 0 /\ x - 1 \in Nat /\ x - 1 \notin Nat \ T
  BY <1>1
<1> QED BY <1>1, <1>2

\* What a function makes of a value and a list, one element after another.
Iterated(S, G, o, m, h) ==
  \E f \in [0 .. m -> S] : f[0] = o /\ \A i \in 1 .. m : f[i] = G[<<f[i - 1], h[i]>>]
LEMMA Iterates ==
  ASSUME NEW S, NEW X, NEW G \in [S \X X -> S], NEW o \in S,
         NEW m \in Nat, NEW h \in [1 .. m -> X]
  PROVE  Iterated(S, G, o, m, h)
<1> DEFINE Good(n, f) == f[0] = o /\ \A i \in 1 .. n : f[i] = G[<<f[i - 1], h[i]>>]
           T == {n \in Nat : n <= m => \E f \in [0 .. n -> S] : Good(n, f)}
<1>1. 0 \in T
  <2>1. [i \in 0 .. 0 |-> o] \in [0 .. 0 -> S] /\ Good(0, [i \in 0 .. 0 |-> o])
    OBVIOUS
  <2> QED BY <2>1
<1>2. ASSUME NEW n \in T PROVE n + 1 \in T
  <2>1. CASE n + 1 <= m
    <3>1. PICK f \in [0 .. n -> S] : Good(n, f)
      BY <2>1
    <3> DEFINE g == [i \in 0 .. n + 1 |-> IF i = n + 1 THEN G[<<f[n], h[n + 1]>>] ELSE f[i]]
    <3>2. h[n + 1] \in X /\ <<f[n], h[n + 1]>> \in S \X X
      BY <2>1
    <3>3. g \in [0 .. n + 1 -> S]
      BY <3>2
    <3>4. /\ \A i \in 0 .. n : g[i] = f[i]
          /\ g[n + 1] = G[<<f[n], h[n + 1]>>]
      OBVIOUS
    <3> HIDE DEF g
    <3>5. ASSUME NEW i \in 1 .. n + 1 PROVE g[i] = G[<<g[i - 1], h[i]>>]
      <4>1. CASE i = n + 1
        <5>1. n \in Nat /\ i - 1 = n /\ n \in 0 .. n
          BY <4>1
        <5> QED BY <3>4, <4>1, <5>1
      <4>2. CASE i \in 1 .. n
        BY <3>1, <3>4, <4>2
      <4> QED BY <4>1, <4>2
    <3>6. g[0] = o
      BY <3>1, <3>4
    <3> QED BY <3>3, <3>5, <3>6
  <2> QED BY <2>1
<1>3. T = Nat
  <2> HIDE DEF T
  <2>1. T \in SUBSET Nat
    BY DEF T
  <2> QED BY <1>1, <1>2, <2>1, SetInduction
<1> QED BY <1>3 DEF Iterated

\* A finite set of numbers has an enumeration in ascending order, so that
\* InOrder is one.
LEMMA Ascending ==
  ASSUME NEW m \in Nat
  PROVE  \A S \in SUBSET Nat : IsFiniteSet(S) /\ Cardinality(S) = m =>
           \E s \in [1 .. m -> S] : \A i, j \in 1 .. m : i < j => s[i] < s[j]
<1> DEFINE Up(n, s) == \A i, j \in 1 .. n : i < j => s[i] < s[j]
           T == {n \in Nat : \A S \in SUBSET Nat : IsFiniteSet(S) /\ Cardinality(S) = n =>
                               \E s \in [1 .. n -> S] : Up(n, s)}
<1>1. 0 \in T
  <2> SUFFICES ASSUME NEW S \in SUBSET Nat, IsFiniteSet(S), Cardinality(S) = 0
               PROVE  \E s \in [1 .. 0 -> S] : Up(0, s)
    OBVIOUS
  <2>1. S = {}
    BY FS_EmptySet
  <2>2. [i \in 1 .. 0 |-> i] \in [1 .. 0 -> S] /\ Up(0, [i \in 1 .. 0 |-> i])
    BY <2>1
  <2> QED BY <2>2
<1>2. ASSUME NEW n \in T PROVE n + 1 \in T
  <2> SUFFICES ASSUME NEW S \in SUBSET Nat, IsFiniteSet(S), Cardinality(S) = n + 1
               PROVE  \E s \in [1 .. n + 1 -> S] : Up(n + 1, s)
    OBVIOUS
  <2>1. S # {} /\ n \in Nat
    BY FS_EmptySet
  <2>2. PICK x \in S : \A y \in S : x <= y
    BY <2>1, LeastOfSet
  <2>3. IsFiniteSet(S \ {x}) /\ Cardinality(S \ {x}) = n /\ S \ {x} \in SUBSET Nat
    <3>1. IsFiniteSet(S \ {x}) /\ Cardinality(S \ {x}) = Cardinality(S) - 1
      BY FS_RemoveElement
    <3> QED BY <2>1, <3>1
  <2>4. PICK r \in [1 .. n -> S \ {x}] : Up(n, r)
    BY <2>3
  <2> DEFINE s == [i \in 1 .. n + 1 |-> IF i = 1 THEN x ELSE r[i - 1]]
  <2>5. s \in [1 .. n + 1 -> S] /\ s[1] = x /\ \A i \in 2 .. n + 1 : s[i] = r[i - 1] /\ i - 1 \in 1 .. n
    BY <2>1
  <2> HIDE DEF s
  <2>6. ASSUME NEW i \in 1 .. n + 1, NEW j \in 1 .. n + 1, i < j PROVE s[i] < s[j]
    <3>1. s[j] = r[j - 1] /\ j - 1 \in 1 .. n
      BY <2>1, <2>5, <2>6
    <3>2. CASE i = 1
      <4>1. r[j - 1] \in S \ {x}
        BY <3>1
      <4>2. x \in Nat /\ r[j - 1] \in Nat /\ x <= r[j - 1] /\ x # r[j - 1]
        BY <2>2, <4>1
      <4> QED BY <2>5, <3>1, <3>2, <4>2
    <3>3. CASE i # 1
      <4>1. s[i] = r[i - 1] /\ i - 1 \in 1 .. n /\ i - 1 < j - 1
        BY <2>1, <2>5, <2>6, <3>3
      <4> QED BY <2>4, <3>1, <4>1
    <3> QED BY <3>2, <3>3
  <2> QED BY <2>5, <2>6
<1>3. T = Nat
  <2> HIDE DEF T
  <2>1. T \in SUBSET Nat
    BY DEF T
  <2> QED BY <1>1, <1>2, <2>1, SetInduction
<1> QED BY <1>3

LEMMA InOrderEnumerates ==
  ASSUME NEW S \in SUBSET Tools
  PROVE  /\ IsFiniteSet(S) /\ Cardinality(S) \in Nat
         /\ InOrder(S) \in [1 .. Cardinality(S) -> S]
         /\ \A i, j \in 1 .. Cardinality(S) : i < j => InOrder(S)[i] < InOrder(S)[j]
<1> DEFINE m == Cardinality(S)
           Up(s) == \A i, j \in 1 .. m : i < j => s[i] < s[j]
<1>1. IsFiniteSet(S) /\ m \in Nat /\ S \in SUBSET Nat
  BY TurnAssumption, FS_Subset, FS_CardinalityType
<1>2. PICK a \in [1 .. m -> S] : Up(a)
  BY <1>1, Ascending
<1>3. InOrder(S) = CHOOSE s \in [1 .. m -> S] : Up(s)
  BY DEF InOrder
<1>4. InOrder(S) \in [1 .. m -> S] /\ Up(InOrder(S))
  BY <1>2, <1>3
<1> QED BY <1>1, <1>4
-----------------------------------------------------------------------------
(* The frames and what the operations of a stream make of them.  A stream is *)
(* sound if its blocks and calls are counted, every block that is not the    *)
(* open one was stopped, and no call was sent twice.                         *)
Kinds == {"open", "start", "delta", "stop", "tool", "end", "fail"}
Whats == Parts \cup Tools \cup Finishes \cup {"-", "completed"}
FrameSet == [kind : Kinds, what : Whats, n : Nat]
Outs == [wire : Seq(FrameSet), block : Parts \cup {"none"}, index : Nat, next : Nat]

Nums(o) == {i \in DOMAIN o.wire : o.wire[i].kind \in {"start", "tool"}}
Counted(o) ==
  /\ o.next = Cardinality(Nums(o))
  /\ \A i \in Nums(o) : o.wire[i].n = Cardinality({j \in Nums(o) : j < i})
Balanced(o) == Sent(o, "start") = Sent(o, "stop") \cup ({o.block} \ {"none"})
Once(o) == Contract!CallsOnce(o.wire)
Sound(o) == o \in Outs /\ Counted(o) /\ Balanced(o) /\ Once(o)

\* p is o and frames of the kinds K after it.
Adds(o, p, K) ==
  /\ Len(o.wire) <= Len(p.wire)
  /\ \A i \in 1 .. Len(o.wire) : p.wire[i] = o.wire[i]
  /\ \A i \in Len(o.wire) + 1 .. Len(p.wire) : p.wire[i].kind \in K

\* The open block was started and only its deltas were sent since.
InBlock(o) ==
  o.block # "none" =>
    \E j \in DOMAIN o.wire :
      /\ o.wire[j] = Frame("start", o.block, o.index)
      /\ \A k \in j + 1 .. Len(o.wire) : o.wire[k].kind = "delta"
Nested(o) ==
  \A i \in DOMAIN o.wire : o.wire[i].kind \in {"delta", "stop"} =>
    \E j \in 1 .. i - 1 :
      /\ o.wire[j] = Frame("start", o.wire[i].what, o.wire[i].n)
      /\ \A k \in j + 1 .. i - 1 : o.wire[k].kind = "delta"

\* What was sent stays sent, and of the kinds that were not added no more.
LEMMA AddsKeeps ==
  ASSUME NEW o \in Outs, NEW p \in Outs, NEW K, Adds(o, p, K)
  PROVE  /\ \A k : Sent(o, k) \subseteq Sent(p, k)
         /\ \A k : k \notin K => Sent(p, k) = Sent(o, k)
<1>1. o.wire \in Seq(FrameSet) /\ p.wire \in Seq(FrameSet)
  BY DEF Outs
<1>2. DOMAIN o.wire = 1 .. Len(o.wire) /\ DOMAIN p.wire = 1 .. Len(p.wire)
      /\ Len(o.wire) \in Nat /\ Len(p.wire) \in Nat
  BY <1>1
<1>3. \A k : Sent(o, k) \subseteq Sent(p, k)
  BY <1>2 DEF Sent, Adds
<1>4. ASSUME NEW k, k \notin K PROVE Sent(p, k) = Sent(o, k)
  <2> SUFFICES ASSUME NEW w \in Sent(p, k) PROVE w \in Sent(o, k)
    BY <1>3
  <2>1. PICK i \in 1 .. Len(p.wire) : p.wire[i].kind = k /\ p.wire[i].what = w
    BY <1>2, <1>4 DEF Sent
  <2>2. i \in 1 .. Len(o.wire)
    BY <1>2, <1>4, <2>1 DEF Adds
  <2> QED BY <1>2, <2>1, <2>2 DEF Sent, Adds
<1> QED BY <1>3, <1>4, Zenon

LEMMA AddsMore ==
  ASSUME NEW o \in Outs, NEW p \in Outs, NEW q \in Outs, NEW J, NEW K,
         Adds(o, p, J), Adds(p, q, K)
  PROVE  Adds(o, q, J \cup K)
<1>1. Len(o.wire) \in Nat /\ Len(p.wire) \in Nat /\ Len(q.wire) \in Nat
  BY DEF Outs
<1>2. ASSUME NEW i \in Len(o.wire) + 1 .. Len(q.wire) PROVE q.wire[i].kind \in J \cup K
  <2>1. CASE i <= Len(p.wire)
    BY <1>1, <1>2, <2>1 DEF Adds
  <2>2. CASE i > Len(p.wire)
    BY <1>1, <1>2, <2>2 DEF Adds
  <2> QED BY <1>1, <1>2, <2>1, <2>2
<1> QED BY <1>1, <1>2 DEF Adds

LEMMA AddsSome ==
  ASSUME NEW o \in Outs, NEW p \in Outs, NEW J, NEW K, Adds(o, p, J), J \subseteq K
  PROVE  Adds(o, p, K)
BY DEF Adds

\* One frame more.
LEMMA PutSends ==
  ASSUME NEW o \in Outs, NEW f \in FrameSet
  PROVE  /\ Put(o, f) \in Outs /\ Adds(o, Put(o, f), {f.kind})
         /\ Sent(Put(o, f), f.kind) = Sent(o, f.kind) \cup {f.what}
         /\ Put(o, f).block = o.block /\ Put(o, f).index = o.index /\ Put(o, f).next = o.next
         /\ \/ f.kind = "delta" /\ Put(o, f) = o /\ o.wire # <<>> /\ o.wire[Len(o.wire)] = f
            \/ Put(o, f).wire = Append(o.wire, f)
         /\ Put(o, f).wire[Len(Put(o, f).wire)] = f /\ Len(Put(o, f).wire) > 0
<1>1. o.wire \in Seq(FrameSet) /\ Len(o.wire) \in Nat /\ DOMAIN o.wire = 1 .. Len(o.wire)
  BY DEF Outs
<1>2. CASE f.kind = "delta" /\ o.wire # <<>> /\ o.wire[Len(o.wire)] = f
  <2>1. Put(o, f) = o
    BY <1>2 DEF Put
  <2>2. Len(o.wire) \in DOMAIN o.wire
    BY <1>1, <1>2
  <2>3. f.what \in Sent(o, f.kind)
    BY <1>2, <2>2 DEF Sent
  <2> QED BY <1>1, <1>2, <2>1, <2>2, <2>3 DEF Adds
<1>3. CASE ~(f.kind = "delta" /\ o.wire # <<>> /\ o.wire[Len(o.wire)] = f)
  <2> DEFINE p == Put(o, f)
  <2>1. p = [o EXCEPT !.wire = Append(o.wire, f)]
    BY <1>3 DEF Put
  <2>2. p.wire = Append(o.wire, f) /\ p \in Outs /\ p.block = o.block
        /\ p.index = o.index /\ p.next = o.next
    <3> HIDE DEF p
    <3>1. Append(o.wire, f) \in Seq(FrameSet)
      BY <1>1
    <3> QED BY <2>1, <3>1 DEF Outs
  <2>3. Len(p.wire) = Len(o.wire) + 1 /\ DOMAIN p.wire = 1 .. Len(o.wire) + 1
        /\ p.wire[Len(o.wire) + 1] = f /\ \A i \in 1 .. Len(o.wire) : p.wire[i] = o.wire[i]
    BY <1>1, <2>2
  <2> HIDE DEF p
  <2>4. Adds(o, p, {f.kind})
    BY <1>1, <2>3 DEF Adds
  <2>5. ASSUME NEW w \in Sent(p, f.kind) PROVE w \in Sent(o, f.kind) \cup {f.what}
    <3>1. PICK i \in 1 .. Len(o.wire) + 1 : p.wire[i].kind = f.kind /\ p.wire[i].what = w
      BY <2>3, <2>5 DEF Sent
    <3>2. CASE i = Len(o.wire) + 1
      BY <2>3, <3>1, <3>2
    <3>3. CASE i \in 1 .. Len(o.wire)
      BY <1>1, <2>3, <3>1, <3>3 DEF Sent
    <3> QED BY <1>1, <3>1, <3>2, <3>3
  <2>6. f.what \in Sent(p, f.kind)
    <3>1. Len(o.wire) + 1 \in DOMAIN p.wire
      BY <1>1, <2>3
    <3> QED BY <2>3, <3>1 DEF Sent
  <2>7. Sent(o, f.kind) \subseteq Sent(p, f.kind)
    BY <2>2, <2>4, AddsKeeps
  <2>8. /\ p \in Outs /\ Adds(o, p, {f.kind})
        /\ Sent(p, f.kind) = Sent(o, f.kind) \cup {f.what}
        /\ p.block = o.block /\ p.index = o.index /\ p.next = o.next
        /\ p.wire = Append(o.wire, f)
        /\ p.wire[Len(p.wire)] = f /\ Len(p.wire) > 0
    BY <1>1, <2>2, <2>3, <2>4, <2>5, <2>6, <2>7
  <2> QED BY <2>8 DEF p
<1> QED BY <1>2, <1>3

\* Frames that start no block, stop none and call nothing leave it sound.
LEMMA QuietSound ==
  ASSUME NEW o \in Outs, NEW p \in Outs, NEW K, Adds(o, p, K),
         K \cap {"start", "stop", "tool"} = {}, p.next = o.next, p.block = o.block, Sound(o)
  PROVE  Sound(p)
<1>1. DOMAIN o.wire = 1 .. Len(o.wire) /\ DOMAIN p.wire = 1 .. Len(p.wire)
      /\ Len(o.wire) \in Nat /\ Len(p.wire) \in Nat
  BY DEF Outs
<1>2. \A i \in DOMAIN p.wire : p.wire[i].kind \in {"start", "stop", "tool"} => i \in DOMAIN o.wire
  BY <1>1 DEF Adds
<1>3. \A i \in DOMAIN o.wire : i \in DOMAIN p.wire /\ p.wire[i] = o.wire[i]
  BY <1>1 DEF Adds
<1>4. Nums(p) = Nums(o)
  BY <1>2, <1>3 DEF Nums
<1>5. Counted(p)
  BY <1>3, <1>4 DEF Counted, Sound, Nums
<1>6. "start" \notin K /\ "stop" \notin K
  OBVIOUS
<1>7. Balanced(p)
  BY <1>6, AddsKeeps DEF Balanced, Sound
<1>8. Once(p)
  BY <1>2, <1>3 DEF Once, Contract!CallsOnce, Sound
<1> QED BY <1>5, <1>7, <1>8 DEF Sound

\* The number of the frame that is appended to a counted stream.
LEMMA CountOne ==
  ASSUME NEW o \in Outs, NEW p \in Outs, NEW f \in FrameSet, p.wire = Append(o.wire, f),
         f.kind \in {"start", "tool"}, f.n = o.next, p.next = o.next + 1, Counted(o)
  PROVE  Counted(p)
<1> DEFINE L == Len(o.wire)
<1>1. L \in Nat /\ DOMAIN o.wire = 1 .. L /\ DOMAIN p.wire = 1 .. L + 1 /\ p.wire[L + 1] = f
      /\ \A i \in 1 .. L : p.wire[i] = o.wire[i]
  BY DEF Outs
<1> HIDE DEF L
<1>2. Nums(p) = Nums(o) \cup {L + 1} /\ Nums(o) \subseteq 1 .. L /\ L + 1 \notin Nums(o)
  BY <1>1 DEF Nums
<1>3. IsFiniteSet(Nums(o))
  <2>1. IsFiniteSet(1 .. L)
    BY <1>1, FS_Interval
  <2> QED BY <1>2, <2>1, FS_Subset
<1>4. Cardinality(Nums(p)) = Cardinality(Nums(o)) + 1
  BY <1>2, <1>3, FS_AddElement
<1>5. ASSUME NEW i \in Nums(p)
      PROVE  p.wire[i].n = Cardinality({j \in Nums(p) : j < i})
  <2>1. CASE i = L + 1
    <3>1. {j \in Nums(p) : j < i} = Nums(o)
      BY <1>1, <1>2, <2>1
    <3> QED BY <1>1, <2>1, <3>1 DEF Counted
  <2>2. CASE i \in Nums(o)
    <3>1. {j \in Nums(p) : j < i} = {j \in Nums(o) : j < i}
      BY <1>1, <1>2, <2>2
    <3>2. p.wire[i] = o.wire[i]
      BY <1>1, <1>2, <2>2
    <3> QED BY <2>2, <3>1, <3>2 DEF Counted
  <2> QED BY <1>2, <1>5, <2>1, <2>2
<1> QED BY <1>4, <1>5 DEF Counted

\* A block is started where none is open, under the next index.
Started(o, part) ==
  [Put(o, Frame("start", part, o.next)) EXCEPT !.block = part, !.index = o.next, !.next = @ + 1]

LEMMA BlockStarts ==
  ASSUME NEW o \in Outs, Sound(o), o.block = "none", NEW part \in Parts, NEW p,
         p = Started(o, part)
  PROVE  /\ Sound(p) /\ Adds(o, p, {"start"}) /\ p.block = part /\ p.index = o.next
         /\ p.wire = Append(o.wire, Frame("start", part, p.index))
<1> DEFINE f == Frame("start", part, o.next)
           q == Put(o, f)
<1>1. f \in FrameSet /\ f.kind = "start" /\ f.what = part /\ f.n = o.next
  BY DEF Frame, FrameSet, Kinds, Whats, Outs
<1>2. q \in Outs /\ Adds(o, q, {"start"}) /\ Sent(q, "start") = Sent(o, "start") \cup {part}
      /\ q.wire = Append(o.wire, f) /\ q.next = o.next
  <2> HIDE DEF f
  <2> QED BY <1>1, PutSends
<1> HIDE DEF q, f
<1>3. p \in Outs /\ p.wire = q.wire /\ p.block = part /\ p.index = o.next /\ p.next = o.next + 1
  <2>1. p = [q EXCEPT !.block = part, !.index = o.next, !.next = q.next + 1]
    BY DEF f, q, Started
  <2>2. o.next \in Nat /\ q.next + 1 \in Nat /\ q.next = o.next
    BY <1>2 DEF Outs
  <2> QED BY <1>2, <2>1, <2>2 DEF Outs
<1>4. Adds(o, p, {"start"})
  BY <1>2, <1>3 DEF Adds
<1>5. Counted(p)
  <2>1. p.wire = Append(o.wire, f) /\ f \in FrameSet /\ f.kind \in {"start", "tool"}
        /\ f.n = o.next /\ p.next = o.next + 1 /\ Counted(o) /\ p \in Outs
    BY <1>1, <1>2, <1>3 DEF Sound
  <2> QED BY <2>1, CountOne
<1>6. Balanced(p)
  <2>1. Sent(p, "start") = Sent(o, "start") \cup {part}
    BY <1>2, <1>3 DEF Sent
  <2>2. Sent(p, "stop") = Sent(o, "stop")
    BY <1>3, <1>4, AddsKeeps
  <2>3. part # "none"
    BY DEF Parts
  <2> QED BY <1>3, <2>1, <2>2, <2>3 DEF Balanced, Sound
<1>7. Once(p)
  <2>1. DOMAIN o.wire = 1 .. Len(o.wire) /\ DOMAIN p.wire = 1 .. Len(o.wire) + 1
        /\ p.wire[Len(o.wire) + 1].kind = "start" /\ Len(o.wire) \in Nat
        /\ \A i \in 1 .. Len(o.wire) : p.wire[i] = o.wire[i]
    BY <1>1, <1>2, <1>3 DEF Outs
  <2>2. \A i \in DOMAIN p.wire : p.wire[i].kind = "tool" => i \in DOMAIN o.wire /\ p.wire[i] = o.wire[i]
    BY <2>1
  <2> QED BY <2>2 DEF Once, Contract!CallsOnce, Sound
<1> QED BY <1>2, <1>3, <1>4, <1>5, <1>6, <1>7 DEF Sound, f

\* The open block is stopped.
Stopped(o) == [Put(o, Frame("stop", o.block, o.index)) EXCEPT !.block = "none"]

LEMMA BlockStops ==
  ASSUME NEW o \in Outs, Sound(o), o.block # "none", NEW p, p = Stopped(o)
  PROVE  /\ Sound(p) /\ Adds(o, p, {"stop"}) /\ p.block = "none"
         /\ p.wire = Append(o.wire, Frame("stop", o.block, o.index))
<1> DEFINE f == Frame("stop", o.block, o.index)
           q == Put(o, f)
<1>1. f \in FrameSet /\ f.kind = "stop" /\ f.what = o.block /\ o.block \in Parts
  BY DEF Frame, FrameSet, Kinds, Whats, Outs
<1>2. q \in Outs /\ Adds(o, q, {"stop"}) /\ Sent(q, "stop") = Sent(o, "stop") \cup {o.block}
      /\ q.wire = Append(o.wire, f) /\ q.next = o.next
  <2> HIDE DEF f
  <2>1. /\ Put(o, f) \in Outs /\ Adds(o, Put(o, f), {f.kind})
        /\ Sent(Put(o, f), f.kind) = Sent(o, f.kind) \cup {f.what}
        /\ Put(o, f).next = o.next
        /\ f.kind = "delta" \/ Put(o, f).wire = Append(o.wire, f)
    BY <1>1, PutSends, Zenon
  <2>2. f.kind = "stop" /\ f.what = o.block /\ "stop" # "delta"
    BY <1>1
  <2> QED BY <2>1, <2>2, Zenon
<1> HIDE DEF q, f
<1>3. p \in Outs /\ p.wire = q.wire /\ p.block = "none" /\ p.next = o.next
  BY <1>2 DEF f, q, Outs, Stopped
<1>4. Adds(o, p, {"stop"})
  BY <1>2, <1>3 DEF Adds
<1>5. DOMAIN o.wire = 1 .. Len(o.wire) /\ DOMAIN p.wire = 1 .. Len(o.wire) + 1
      /\ p.wire[Len(o.wire) + 1].kind = "stop" /\ Len(o.wire) \in Nat
      /\ \A i \in 1 .. Len(o.wire) : p.wire[i] = o.wire[i]
  BY <1>1, <1>2, <1>3 DEF Outs
<1>6. Counted(p)
  <2>1. Nums(p) = Nums(o) /\ \A i \in Nums(o) : p.wire[i] = o.wire[i]
    BY <1>5 DEF Nums
  <2> QED BY <1>3, <2>1 DEF Counted, Sound
<1>7. Balanced(p)
  <2>1. Sent(p, "stop") = Sent(o, "stop") \cup {o.block}
    BY <1>2, <1>3, Zenon DEF Sent
  <2>2. Sent(p, "start") = Sent(o, "start")
    BY <1>3, <1>4, AddsKeeps
  <2> QED BY <1>3, <2>1, <2>2 DEF Balanced, Sound
<1>8. Once(p)
  <2>1. \A i \in DOMAIN p.wire : p.wire[i].kind = "tool" => i \in DOMAIN o.wire /\ p.wire[i] = o.wire[i]
    BY <1>5
  <2> QED BY <2>1 DEF Once, Contract!CallsOnce, Sound
<1> QED BY <1>2, <1>3, <1>4, <1>6, <1>7, <1>8 DEF Sound, f

\* Calls leave under the next numbers, each of them once.
LEMMA CountBlock ==
  ASSUME NEW l \in Nat, NEW N \in SUBSET (1 .. l), NEW k \in Nat
  PROVE  Cardinality(N \cup (l + 1 .. l + k)) = Cardinality(N) + k
<1>1. IsFiniteSet(1 .. l)
  BY FS_Interval
<1>2. IsFiniteSet(N) /\ Cardinality(N) \in Nat
  BY <1>1, FS_Subset, FS_CardinalityType
<1>3. IsFiniteSet(l + 1 .. l + k) /\ Cardinality(l + 1 .. l + k) = k
  <2>1. /\ IsFiniteSet(l + 1 .. l + k)
        /\ Cardinality(l + 1 .. l + k)
             = IF l + 1 > l + k THEN 0 ELSE (l + k) - (l + 1) + 1
    BY FS_Interval
  <2> QED BY <2>1
<1>4. N \cap (l + 1 .. l + k) = {}
  OBVIOUS
<1>5. Cardinality(N \cap (l + 1 .. l + k)) = 0
  BY <1>4, FS_EmptySet
<1>6. Cardinality(N \cup (l + 1 .. l + k))
        = Cardinality(N) + Cardinality(l + 1 .. l + k) - Cardinality(N \cap (l + 1 .. l + k))
  BY <1>2, <1>3, FS_Union
<1> QED BY <1>2, <1>3, <1>5, <1>6

LEMMA Joined ==
  ASSUME NEW X, NEW s \in Seq(X), NEW t \in Seq(X)
  PROVE  /\ Len(s \o t) = Len(s) + Len(t) /\ DOMAIN (s \o t) = 1 .. Len(s) + Len(t)
         /\ \A i \in 1 .. Len(s) : (s \o t)[i] = s[i]
         /\ \A i \in 1 .. Len(t) : (s \o t)[Len(s) + i] = t[i]
OBVIOUS

LEMMA CallsSent ==
  ASSUME NEW o \in Outs, NEW S \in SUBSET Tools
  PROVE  /\ CallAll(o, S) \in Outs /\ Adds(o, CallAll(o, S), {"tool"})
         /\ Called(CallAll(o, S)) \subseteq Called(o) \cup S
         /\ S # {} => Called(CallAll(o, S)) # {}
         /\ S = {} => CallAll(o, S) = o
         /\ CallAll(o, S).block = o.block /\ CallAll(o, S).index = o.index
         /\ Sound(o) /\ S \cap Called(o) = {} => Sound(CallAll(o, S))
<1> DEFINE m == Cardinality(S)
           L == Len(o.wire)
           c == [i \in 1 .. m |-> Frame("tool", InOrder(S)[i], o.next + i - 1)]
           p == CallAll(o, S)
<1>1. IsFiniteSet(S) /\ m \in Nat /\ InOrder(S) \in [1 .. m -> S]
      /\ \A i, j \in 1 .. m : i < j => InOrder(S)[i] < InOrder(S)[j]
  BY InOrderEnumerates
<1>2. L \in Nat /\ DOMAIN o.wire = 1 .. L /\ o.wire \in Seq(FrameSet) /\ o.next \in Nat
  BY DEF Outs
<1>3. c \in Seq(FrameSet) /\ Len(c) = m
      /\ \A i \in 1 .. m : c[i].kind = "tool" /\ c[i].what = InOrder(S)[i] /\ c[i].n = o.next + i - 1
  <2>1. ASSUME NEW i \in 1 .. m PROVE c[i] \in FrameSet
    <3>1. InOrder(S)[i] \in Tools /\ o.next + i - 1 \in Nat
      BY <1>1, <1>2
    <3> QED BY <3>1 DEF Frame, FrameSet, Kinds, Whats
  <2>2. c \in [1 .. m -> FrameSet]
    BY <2>1
  <2>3. \A i \in 1 .. m : c[i].kind = "tool" /\ c[i].what = InOrder(S)[i] /\ c[i].n = o.next + i - 1
    BY DEF Frame
  <2> HIDE DEF c
  <2> QED BY <1>1, <2>2, <2>3
<1>4. p = [o EXCEPT !.wire = o.wire \o c, !.next = o.next + m]
  BY DEF CallAll
<1> HIDE DEF c, p, L, m
<1>5. o.wire \o c \in Seq(FrameSet) /\ o.next + m \in Nat
  BY <1>1, <1>2, <1>3
<1>6. p \in Outs /\ p.wire = o.wire \o c /\ p.next = o.next + m /\ p.block = o.block /\ p.index = o.index
  BY <1>4, <1>5 DEF Outs
<1>7. Len(p.wire) = L + m /\ DOMAIN p.wire = 1 .. L + m /\ (\A i \in 1 .. L : p.wire[i] = o.wire[i])
      /\ \A i \in 1 .. m : p.wire[L + i] = c[i]
  <2>1. o.wire \in Seq(FrameSet) /\ c \in Seq(FrameSet)
    BY <1>2, <1>3
  <2>2. /\ Len(o.wire \o c) = Len(o.wire) + Len(c)
        /\ DOMAIN (o.wire \o c) = 1 .. Len(o.wire) + Len(c)
        /\ \A i \in 1 .. Len(o.wire) : (o.wire \o c)[i] = o.wire[i]
        /\ \A i \in 1 .. Len(c) : (o.wire \o c)[Len(o.wire) + i] = c[i]
    BY <2>1, Joined
  <2>3. p.wire = o.wire \o c /\ Len(c) = m
    BY <1>3, <1>6
  <2> QED BY <2>2, <2>3, Zenon DEF L
<1>8. \A k \in L + 1 .. L + m : k - L \in 1 .. m /\ p.wire[k] = c[k - L]
  <2> SUFFICES ASSUME NEW k \in L + 1 .. L + m PROVE k - L \in 1 .. m /\ p.wire[k] = c[k - L]
    OBVIOUS
  <2>1. k - L \in 1 .. m /\ k = L + (k - L)
    BY <1>1, <1>2
  <2> QED BY <1>7, <2>1
<1>9. Adds(o, p, {"tool"})
  <2>1. L <= L + m /\ \A k \in L + 1 .. L + m : p.wire[k].kind = "tool"
    BY <1>1, <1>2, <1>3, <1>8
  <2> QED BY <1>7, <2>1, Zenon DEF Adds, L
<1>10. ASSUME NEW w \in Called(p) PROVE w \in Called(o) \cup S
  <2>1. PICK k \in 1 .. L + m : p.wire[k].kind = "tool" /\ p.wire[k].what = w
    BY <1>7, <1>10 DEF Called, Sent
  <2>2. CASE k \in 1 .. L
    BY <1>2, <1>7, <2>1, <2>2 DEF Called, Sent
  <2>3. CASE k \in L + 1 .. L + m
    BY <1>1, <1>3, <1>8, <2>1, <2>3
  <2> QED BY <1>1, <1>2, <2>2, <2>3
<1>11. ASSUME S # {} PROVE Called(p) # {}
  <2>1. m # 0
    BY <1>1, <1>11, FS_EmptySet DEF m
  <2>2. 1 \in 1 .. m /\ L + 1 \in DOMAIN p.wire
    BY <1>1, <1>2, <1>7, <2>1
  <2>3. p.wire[L + 1].kind = "tool"
    BY <1>3, <1>7, <2>2
  <2> QED BY <2>2, <2>3 DEF Called, Sent
<1>12. ASSUME S = {} PROVE p = o
  <2>1. m = 0
    BY <1>12, FS_EmptySet DEF m
  <2>2. p.wire = o.wire
    <3>1. Len(p.wire) = Len(o.wire) /\ \A i \in 1 .. Len(o.wire) : p.wire[i] = o.wire[i]
      BY <1>2, <1>7, <2>1 DEF L
    <3>2. p.wire \in Seq(FrameSet) /\ o.wire \in Seq(FrameSet)
      BY <1>6 DEF Outs
    <3> QED BY <3>1, <3>2
  <2>3. p.next = o.next
    BY <1>2, <1>6, <2>1
  <2> QED BY <1>6, <2>2, <2>3 DEF Outs
<1>13. ASSUME Sound(o), S \cap Called(o) = {} PROVE Sound(p)
  <2>1. Nums(o) \in SUBSET (1 .. L) /\ o.next = Cardinality(Nums(o))
    BY <1>2, <1>13 DEF Nums, Sound, Counted
  <2>2. ASSUME NEW k \in 0 .. m
        PROVE  {i \in Nums(p) : i <= L + k} = Nums(o) \cup (L + 1 .. L + k)
    <3>1. \A i \in 1 .. L : i \in Nums(p) <=> i \in Nums(o)
      BY <1>1, <1>2, <1>7 DEF Nums
    <3>2. ASSUME NEW i \in L + 1 .. L + m PROVE i \in Nums(p)
      <4>1. i \in DOMAIN p.wire
        BY <1>1, <1>2, <1>7
      <4>2. p.wire[i].kind = "tool"
        BY <1>3, <1>8
      <4> QED BY <4>1, <4>2 DEF Nums
    <3>3. Nums(p) \subseteq 1 .. L + m
      BY <1>7 DEF Nums
    <3> QED BY <1>1, <1>2, <2>1, <3>1, <3>2, <3>3
  <2>3. \A k \in 0 .. m : Cardinality({i \in Nums(p) : i <= L + k}) = o.next + k
    <3> SUFFICES ASSUME NEW k \in 0 .. m
                 PROVE  Cardinality({i \in Nums(p) : i <= L + k}) = o.next + k
      OBVIOUS
    <3>1. k \in Nat
      BY <1>1
    <3>2. Cardinality(Nums(o) \cup (L + 1 .. L + k)) = Cardinality(Nums(o)) + k
      BY <1>2, <2>1, <3>1, CountBlock
    <3> QED BY <2>1, <2>2, <3>2
  <2>4. Counted(p)
    <3>1. Nums(p) = {i \in Nums(p) : i <= L + m}
      BY <1>1, <1>2, <1>7 DEF Nums
    <3>2. p.next = Cardinality(Nums(p))
      BY <1>1, <1>6, <2>3, <3>1
    <3>3. ASSUME NEW i \in Nums(p) PROVE p.wire[i].n = Cardinality({j \in Nums(p) : j < i})
      <4>1. i \in 1 .. L + m
        BY <1>7 DEF Nums
      <4>2. CASE i \in 1 .. L
        <5>1. {j \in Nums(p) : j < i} = {j \in Nums(o) : j < i}
          BY <1>1, <1>2, <1>7, <4>2 DEF Nums
        <5>2. i \in Nums(o) /\ p.wire[i] = o.wire[i]
          BY <1>2, <1>7, <3>3, <4>2 DEF Nums
        <5> QED BY <1>13, <5>1, <5>2 DEF Sound, Counted
      <4>3. CASE i \in L + 1 .. L + m
        <5>1. i - L - 1 \in 0 .. m /\ i = L + (i - L - 1) + 1
          BY <1>1, <1>2, <4>3
        <5>2. {j \in Nums(p) : j < i} = {j \in Nums(p) : j <= L + (i - L - 1)}
          <6>1. \A j \in Nums(p) : j \in 1 .. L + m
            BY <1>7 DEF Nums
          <6>2. \A j \in Nums(p) : j < i <=> j <= L + (i - L - 1)
            BY <1>1, <1>2, <4>1, <6>1
          <6> QED BY <6>2, Zenon
        <5>3. Cardinality({j \in Nums(p) : j < i}) = o.next + (i - L - 1)
          BY <2>3, <5>1, <5>2
        <5>4. p.wire[i].n = o.next + (i - L) - 1
          BY <1>3, <1>8, <4>3
        <5> QED BY <1>2, <4>3, <5>3, <5>4
      <4> QED BY <1>1, <1>2, <4>1, <4>2, <4>3
    <3> QED BY <3>2, <3>3 DEF Counted
  <2>5. Balanced(p)
    <3>1. Sent(p, "start") = Sent(o, "start") /\ Sent(p, "stop") = Sent(o, "stop")
      BY <1>6, <1>9, AddsKeeps
    <3> QED BY <1>6, <1>13, <3>1 DEF Sound, Balanced
  <2>6. Once(p)
    <3> SUFFICES ASSUME NEW i \in 1 .. L + m, NEW j \in 1 .. L + m,
                        p.wire[i].kind = "tool", p.wire[j].kind = "tool",
                        p.wire[i].what = p.wire[j].what
                 PROVE  i = j
      BY <1>7 DEF Once, Contract!CallsOnce
    <3>1. \A a \in 1 .. L : p.wire[a].kind = "tool" => p.wire[a].what \in Called(o)
      BY <1>2, <1>7 DEF Called, Sent
    <3>2. \A a \in L + 1 .. L + m : p.wire[a].what \in S /\ p.wire[a].what = InOrder(S)[a - L]
      BY <1>1, <1>3, <1>8
    <3>3. CASE i \in 1 .. L /\ j \in 1 .. L
      BY <1>2, <1>7, <1>13, <3>3 DEF Sound, Once, Contract!CallsOnce
    <3>4. CASE i \in L + 1 .. L + m /\ j \in L + 1 .. L + m
      <4>1. InOrder(S)[i - L] = InOrder(S)[j - L] /\ i - L \in 1 .. m /\ j - L \in 1 .. m
        BY <1>8, <3>2, <3>4
      <4>2. InOrder(S)[i - L] \in Nat
        BY <1>1, <4>1, TurnAssumption
      <4>3. ~(i - L < j - L) /\ ~(j - L < i - L)
        BY <1>1, <4>1, <4>2
      <4> QED BY <1>2, <4>3
    <3>5. i \in 1 .. L \/ i \in L + 1 .. L + m
      BY <1>1, <1>2
    <3>6. j \in 1 .. L \/ j \in L + 1 .. L + m
      BY <1>1, <1>2
    <3> QED BY <1>13, <3>1, <3>2, <3>3, <3>4, <3>5, <3>6
  <2> QED BY <1>6, <2>4, <2>5, <2>6 DEF Sound
<1> QED BY <1>6, <1>9, <1>10, <1>11, <1>12, <1>13 DEF p

\* The operations of the three streams.
LEMMA QuietPut ==
  ASSUME NEW o \in Outs, Sound(o), NEW f \in FrameSet, f.kind \notin {"start", "stop", "tool"}
  PROVE  Sound(Put(o, f))
<1>1. Put(o, f) \in Outs /\ Adds(o, Put(o, f), {f.kind}) /\ Put(o, f).next = o.next
      /\ Put(o, f).block = o.block
  BY PutSends
<1>2. {f.kind} \cap {"start", "stop", "tool"} = {}
  OBVIOUS
<1> QED BY <1>1, <1>2, QuietSound

LEMMA FrameIsOne ==
  ASSUME NEW k \in Kinds, NEW w \in Whats, NEW n \in Nat
  PROVE  Frame(k, w, n) \in FrameSet /\ Frame(k, w, n).kind = k
         /\ Frame(k, w, n).what = w /\ Frame(k, w, n).n = n
BY DEF Frame, FrameSet

LEMMA OpenSound ==
  ASSUME NEW o \in Outs, Sound(o)
  PROVE  /\ Sound(Open(o)) /\ Adds(o, Open(o), {"open"}) /\ Opened(Open(o))
         /\ Open(o).block = o.block /\ Open(o).index = o.index /\ Open(o).next = o.next
<1>1. CASE Opened(o)
  BY <1>1 DEF Open, Adds, Outs
<1>2. CASE ~Opened(o)
  <2> DEFINE f == Frame("open", "-", 0)
  <2>1. f \in FrameSet /\ f.kind = "open"
    BY FrameIsOne DEF Kinds, Whats
  <2> HIDE DEF f
  <2>2. Open(o) = Put(o, f)
    BY <1>2 DEF Open, f
  <2>3. Sound(Put(o, f))
    BY <2>1, QuietPut
  <2>4. /\ Adds(o, Put(o, f), {"open"}) /\ Opened(Put(o, f)) /\ Put(o, f).block = o.block
        /\ Put(o, f).index = o.index /\ Put(o, f).next = o.next
    BY <2>1, PutSends DEF Opened
  <2> QED BY <2>2, <2>3, <2>4
<1> QED BY <1>1, <1>2

LEMMA EndSound ==
  ASSUME NEW o \in Outs, Sound(o), NEW why \in Whats
  PROVE  /\ Sound(End(o, why)) /\ Adds(o, End(o, why), {"end"}) /\ End(o, why).block = o.block
         /\ End(o, why).wire = Append(o.wire, Frame("end", why, 0))
<1> DEFINE f == Frame("end", why, 0)
<1>1. f \in FrameSet /\ f.kind = "end"
  BY FrameIsOne DEF Kinds
<1> HIDE DEF f
<1>2. Sound(Put(o, f))
  BY <1>1, QuietPut
<1>3. Adds(o, Put(o, f), {"end"}) /\ Put(o, f).block = o.block /\ Put(o, f).wire = Append(o.wire, f)
  BY <1>1, PutSends
<1> QED BY <1>2, <1>3 DEF End, f

LEMMA FailSound ==
  ASSUME NEW o \in Outs, Sound(o)
  PROVE  /\ Sound(Fail(o)) /\ Adds(o, Fail(o), {"fail"}) /\ Fail(o).block = o.block
         /\ Fail(o).wire = Append(o.wire, Frame("fail", "-", 0))
<1> DEFINE f == Frame("fail", "-", 0)
<1>1. f \in FrameSet /\ f.kind = "fail"
  BY FrameIsOne DEF Kinds, Whats
<1> HIDE DEF f
<1>2. Sound(Put(o, f))
  BY <1>1, QuietPut
<1>3. Adds(o, Put(o, f), {"fail"}) /\ Put(o, f).block = o.block /\ Put(o, f).wire = Append(o.wire, f)
  BY <1>1, PutSends
<1> QED BY <1>2, <1>3 DEF Fail, f

\* One delta, or none.
LEMMA DeltaSound ==
  ASSUME NEW o \in Outs, Sound(o), NEW part \in Parts, NEW n \in Nat, NEW p,
         p = Put(o, Frame("delta", part, n))
  PROVE  /\ Sound(p) /\ Adds(o, p, {"delta"}) /\ Said(p) = Said(o) \cup {part}
         /\ p.block = o.block /\ p.index = o.index /\ p.next = o.next
<1> DEFINE f == Frame("delta", part, n)
<1>1. f \in FrameSet /\ f.kind = "delta" /\ f.what = part
  BY FrameIsOne DEF Kinds, Whats
<1> HIDE DEF f
<1>2. Sound(Put(o, f))
  BY <1>1, QuietPut
<1>3. /\ Adds(o, Put(o, f), {f.kind}) /\ Sent(Put(o, f), f.kind) = Sent(o, f.kind) \cup {f.what}
      /\ Put(o, f).block = o.block /\ Put(o, f).index = o.index /\ Put(o, f).next = o.next
  BY <1>1, PutSends
<1> QED BY <1>1, <1>2, <1>3 DEF Said, f

\* What saying something makes of a chat stream.
SaysOn(o, p) ==
  /\ Sound(p) /\ Adds(o, p, {"delta"}) /\ Said(o) \subseteq Said(p)
  /\ p.block = o.block /\ p.index = o.index /\ p.next = o.next

LEMMA ChatSays ==
  ASSUME NEW o \in Outs, Sound(o), NEW say \in SUBSET Parts
  PROVE  SaysOn(o, ChatSay(o, say)) /\ Said(ChatSay(o, say)) = Said(o) \cup say
<1> DEFINE q == IF "thinking" \in say THEN Put(o, Frame("delta", "thinking", 0)) ELSE o
           p == IF "text" \in say THEN Put(q, Frame("delta", "text", 0)) ELSE q
<1>1. ChatSay(o, say) = p
  BY Zenon DEF ChatSay
<1>2. "thinking" \in Parts /\ "text" \in Parts
  BY DEF Parts
<1>3. /\ Sound(q) /\ Adds(o, q, {"delta"}) /\ Said(q) = Said(o) \cup (say \cap {"thinking"})
      /\ q.block = o.block /\ q.index = o.index /\ q.next = o.next
  <2>1. CASE "thinking" \in say
    BY <1>2, <2>1, DeltaSound
  <2>2. CASE "thinking" \notin say
    BY <2>2 DEF Adds, Outs
  <2> QED BY <2>1, <2>2
<1> HIDE DEF q
<1>4. q \in Outs
  BY <1>3 DEF Sound
<1>5. /\ Sound(p) /\ Adds(q, p, {"delta"}) /\ Said(p) = Said(q) \cup (say \cap {"text"})
      /\ p.block = q.block /\ p.index = q.index /\ p.next = q.next
  <2>1. CASE "text" \in say
    BY <1>2, <1>3, <1>4, <2>1, DeltaSound
  <2>2. CASE "text" \notin say
    BY <1>3, <1>4, <2>2 DEF Adds, Outs
  <2> QED BY <2>1, <2>2
<1> HIDE DEF p
<1>6. p \in Outs
  BY <1>5 DEF Sound
<1>7. Adds(o, p, {"delta"} \cup {"delta"})
  BY <1>3, <1>4, <1>5, <1>6, AddsMore
<1>8. Said(p) = Said(o) \cup say
  BY <1>3, <1>5 DEF Parts
<1> QED BY <1>1, <1>3, <1>5, <1>7, <1>8 DEF SaysOn

LEMMA ChatSaysAll ==
  ASSUME NEW o \in Outs, Sound(o), NEW h \in Seq(SUBSET Parts)
  PROVE  /\ SaysOn(o, ChatSayAll(o, h))
         /\ \A i \in DOMAIN h : h[i] \subseteq Said(ChatSayAll(o, h))
         /\ h = <<>> => ChatSayAll(o, h) = o
<1> DEFINE m == Len(h)
           S == {p \in Outs : SaysOn(o, p)}
           G == [x \in S \X SUBSET Parts |-> ChatSay(x[1], x[2])]
           Runs(f) == f = [i \in 0 .. m |-> IF i = 0 THEN o ELSE ChatSay(f[i - 1], h[i])]
           g == CHOOSE f : Runs(f)
<1>1. m \in Nat /\ h \in [1 .. m -> SUBSET Parts] /\ DOMAIN h = 1 .. m
  OBVIOUS
<1>2. ASSUME NEW p \in S, NEW say \in SUBSET Parts
      PROVE  ChatSay(p, say) \in S /\ Said(ChatSay(p, say)) = Said(p) \cup say
  <2>1. p \in Outs /\ Sound(p) /\ SaysOn(o, p)
    BY DEF SaysOn
  <2>2. SaysOn(p, ChatSay(p, say)) /\ Said(ChatSay(p, say)) = Said(p) \cup say
    BY <2>1, ChatSays
  <2>3. ChatSay(p, say) \in Outs
    BY <2>2 DEF SaysOn, Sound
  <2>4. Adds(o, ChatSay(p, say), {"delta"} \cup {"delta"})
    BY <2>1, <2>2, <2>3, AddsMore DEF SaysOn
  <2>5. SaysOn(o, ChatSay(p, say))
    BY <2>1, <2>2, <2>4 DEF SaysOn
  <2> QED BY <2>2, <2>3, <2>5
<1>3. o \in S
  BY DEF SaysOn, Adds, Outs
<1>4. G \in [S \X SUBSET Parts -> S]
  BY <1>2
<1>5. \E f : Runs(f)
  <2>1. PICK f \in [0 .. m -> S] : f[0] = o /\ \A i \in 1 .. m : f[i] = G[<<f[i - 1], h[i]>>]
    <3> DEFINE X == SUBSET Parts
    <3>1. G \in [S \X X -> S] /\ o \in S /\ m \in Nat /\ h \in [1 .. m -> X]
      BY <1>1, <1>3, <1>4
    <3> HIDE DEF S, G, m, X
    <3>2. Iterated(S, G, o, m, h)
      BY <3>1, Iterates
    <3> QED BY <3>2 DEF Iterated
  <2>2. ASSUME NEW i \in 1 .. m PROVE f[i] = ChatSay(f[i - 1], h[i])
    <3>1. f[i - 1] \in S /\ h[i] \in SUBSET Parts
      BY <1>1, <2>1
    <3> QED BY <2>1, <3>1
  <2>3. \A i \in 0 .. m : i # 0 => i \in 1 .. m
    BY <1>1
  <2>4. Runs(f)
    <3> HIDE DEF S, G
    <3> QED BY <2>1, <2>2, <2>3
  <2> QED BY <2>4
<1>6. Runs(g)
  BY <1>5, Zenon
<1>7. ChatSayAll(o, h) = g[m]
  BY Zenon DEF ChatSayAll
<1> HIDE DEF g
<1>8. g[0] = o /\ \A i \in 1 .. m : g[i] = ChatSay(g[i - 1], h[i])
  <2>1. \A i \in 0 .. m : g[i] = IF i = 0 THEN o ELSE ChatSay(g[i - 1], h[i])
    BY <1>6, Zenon
  <2> QED BY <1>1, <2>1
<1> DEFINE T == {n \in Nat : n <= m => g[n] \in S /\ \A i \in 1 .. n : h[i] \subseteq Said(g[n])}
<1>9. T = Nat
  <2>1. 0 \in T
    BY <1>3, <1>8
  <2>2. ASSUME NEW n \in T PROVE n + 1 \in T
    <3> SUFFICES ASSUME n + 1 <= m
                 PROVE  g[n + 1] \in S /\ \A i \in 1 .. n + 1 : h[i] \subseteq Said(g[n + 1])
      OBVIOUS
    <3>1. g[n] \in S /\ (\A i \in 1 .. n : h[i] \subseteq Said(g[n])) /\ h[n + 1] \in SUBSET Parts
      BY <1>1
    <3>2. g[n + 1] = ChatSay(g[n], h[n + 1])
      BY <1>8
    <3> HIDE DEF S, T
    <3>3. g[n + 1] \in S /\ Said(g[n + 1]) = Said(g[n]) \cup h[n + 1]
      BY <1>2, <3>1, <3>2
    <3> QED BY <2>2, <3>1, <3>3 DEF T
  <2> HIDE DEF T
  <2>3. T \in SUBSET Nat
    BY DEF T
  <2> QED BY <2>1, <2>2, <2>3, SetInduction
<1>10. h = <<>> => g[m] = o
  BY <1>8
<1> QED BY <1>1, <1>7, <1>9, <1>10

\* The blocks of the Messages stream.
Writes(o) == Sound(o) /\ Nested(o) /\ InBlock(o)

LEMMA NestedKeeps ==
  ASSUME NEW o \in Outs, NEW p \in Outs, NEW K, Adds(o, p, K), K \cap {"delta", "stop"} = {},
         Nested(o)
  PROVE  Nested(p)
<1>1. DOMAIN o.wire = 1 .. Len(o.wire) /\ DOMAIN p.wire = 1 .. Len(p.wire)
      /\ Len(o.wire) \in Nat /\ Len(p.wire) \in Nat
  BY DEF Outs
<1> SUFFICES ASSUME NEW i \in DOMAIN p.wire, p.wire[i].kind \in {"delta", "stop"}
             PROVE  \E j \in 1 .. i - 1 :
                      /\ p.wire[j] = Frame("start", p.wire[i].what, p.wire[i].n)
                      /\ \A k \in j + 1 .. i - 1 : p.wire[k].kind = "delta"
  BY DEF Nested
<1>2. i \in 1 .. Len(o.wire)
  BY <1>1 DEF Adds
<1>3. \A k \in 1 .. i : p.wire[k] = o.wire[k]
  BY <1>1, <1>2 DEF Adds
<1>4. i \in 1 .. i /\ i \in DOMAIN o.wire
  BY <1>1, <1>2
<1>5. PICK j \in 1 .. i - 1 : /\ o.wire[j] = Frame("start", o.wire[i].what, o.wire[i].n)
                              /\ \A k \in j + 1 .. i - 1 : o.wire[k].kind = "delta"
  BY <1>3, <1>4 DEF Nested
<1>6. p.wire[j] = Frame("start", p.wire[i].what, p.wire[i].n)
  BY <1>2, <1>3, <1>4, <1>5
<1>7. \A k \in j + 1 .. i - 1 : p.wire[k].kind = "delta"
  BY <1>2, <1>3, <1>5
<1> QED BY <1>6, <1>7

LEMMA NestedMore ==
  ASSUME NEW o \in Outs, NEW p \in Outs, NEW f \in FrameSet, p.wire = Append(o.wire, f),
         f.kind \in {"delta", "stop"}, f.what = o.block, f.n = o.index, o.block # "none",
         Nested(o), InBlock(o)
  PROVE  Nested(p) /\ (f.kind = "delta" /\ p.block = o.block /\ p.index = o.index => InBlock(p))
<1> DEFINE L == Len(o.wire)
<1>1. L \in Nat /\ DOMAIN o.wire = 1 .. L /\ DOMAIN p.wire = 1 .. L + 1 /\ Len(p.wire) = L + 1
      /\ p.wire[L + 1] = f /\ \A i \in 1 .. L : p.wire[i] = o.wire[i]
  BY DEF Outs
<1>2. PICK b \in 1 .. L : /\ o.wire[b] = Frame("start", o.block, o.index)
                          /\ \A k \in b + 1 .. L : o.wire[k].kind = "delta"
  BY <1>1 DEF InBlock
<1> HIDE DEF L
<1>3. p.wire[b] = Frame("start", o.block, o.index) /\ \A k \in b + 1 .. L : p.wire[k].kind = "delta"
  BY <1>1, <1>2
<1>4. ASSUME NEW i \in DOMAIN p.wire, p.wire[i].kind \in {"delta", "stop"}
      PROVE  \E j \in 1 .. i - 1 :
               /\ p.wire[j] = Frame("start", p.wire[i].what, p.wire[i].n)
               /\ \A k \in j + 1 .. i - 1 : p.wire[k].kind = "delta"
  <2>1. CASE i = L + 1
    <3>1. b \in 1 .. i - 1 /\ i - 1 = L
      BY <1>1, <2>1
    <3> QED BY <1>1, <1>3, <2>1, <3>1
  <2>2. CASE i \in 1 .. L
    <3>1. p.wire[i] = o.wire[i] /\ i \in DOMAIN o.wire
      BY <1>1, <2>2
    <3>2. PICK j \in 1 .. i - 1 : /\ o.wire[j] = Frame("start", o.wire[i].what, o.wire[i].n)
                                  /\ \A k \in j + 1 .. i - 1 : o.wire[k].kind = "delta"
      BY <1>4, <3>1 DEF Nested
    <3>3. \A k \in 1 .. i - 1 : p.wire[k] = o.wire[k]
      BY <1>1, <2>2
    <3>4. \A k \in j + 1 .. i - 1 : k \in 1 .. i - 1
      BY <2>2, <3>2
    <3> QED BY <3>1, <3>2, <3>3, <3>4
  <2>3. i = L + 1 \/ i \in 1 .. L
    BY <1>1
  <2> QED BY <2>1, <2>2, <2>3, Zenon
<1>5. ASSUME f.kind = "delta", p.block = o.block, p.index = o.index PROVE InBlock(p)
  <2>1. \A k \in b + 1 .. L + 1 : p.wire[k].kind = "delta"
    BY <1>1, <1>3, <1>5
  <2>2. b \in DOMAIN p.wire
    BY <1>1
  <2> QED BY <1>1, <1>3, <1>5, <2>1, <2>2 DEF InBlock
<1> QED BY <1>4, <1>5 DEF Nested

LEMMA BlockCloses ==
  ASSUME NEW o \in Outs, Writes(o)
  PROVE  /\ Writes(CloseBlock(o)) /\ Adds(o, CloseBlock(o), {"stop"}) /\ CloseBlock(o).block = "none"
<1>1. CASE o.block = "none"
  BY <1>1 DEF CloseBlock, Adds, Outs
<1>2. CASE o.block # "none"
  <2> DEFINE p == Stopped(o)
             f == Frame("stop", o.block, o.index)
  <2>1. CloseBlock(o) = p
    BY <1>2 DEF CloseBlock, Stopped
  <2> HIDE DEF p
  <2>2. Sound(p) /\ Adds(o, p, {"stop"}) /\ p.block = "none" /\ p.wire = Append(o.wire, f)
    BY <1>2, BlockStops DEF Writes, p
  <2>3. f \in FrameSet /\ f.kind = "stop" /\ f.what = o.block /\ f.n = o.index
    BY <1>2, FrameIsOne DEF Kinds, Whats, Outs
  <2>4. Nested(p)
    <3> HIDE DEF f
    <3>1. p \in Outs /\ Nested(o) /\ InBlock(o)
      BY <2>2 DEF Sound, Writes
    <3> QED BY <1>2, <2>2, <2>3, <3>1, NestedMore
  <2> QED BY <2>1, <2>2, <2>4 DEF Writes, InBlock
<1> QED BY <1>1, <1>2

LEMMA BlockBegins ==
  ASSUME NEW o \in Outs, Writes(o), NEW part \in Parts
  PROVE  /\ Writes(StartBlock(o, part)) /\ Adds(o, StartBlock(o, part), {"stop", "start"})
         /\ StartBlock(o, part).block = part
<1>1. CASE o.block = part
  BY <1>1 DEF StartBlock, Adds, Outs
<1>2. CASE o.block # part
  <2> DEFINE c == CloseBlock(o)
             p == Started(c, part)
  <2>1. StartBlock(o, part) = p
    BY <1>2 DEF StartBlock, Started
  <2>2. Writes(c) /\ c \in Outs /\ Adds(o, c, {"stop"}) /\ c.block = "none"
    BY BlockCloses DEF Writes, Sound
  <2> HIDE DEF c
  <2>3. /\ Sound(p) /\ Adds(c, p, {"start"}) /\ p.block = part
        /\ p.wire = Append(c.wire, Frame("start", part, p.index))
    <3>1. Sound(c) /\ c \in Outs /\ c.block = "none"
      BY <2>2 DEF Writes
    <3>2. p = Started(c, part)
      OBVIOUS
    <3> HIDE DEF p
    <3> QED BY <3>1, <3>2, BlockStarts
  <2> HIDE DEF p
  <2>4. p \in Outs
    BY <2>3 DEF Sound
  <2>5. Nested(p)
    <3>1. {"start"} \cap {"delta", "stop"} = {}
      OBVIOUS
    <3> QED BY <2>2, <2>3, <2>4, <3>1, NestedKeeps DEF Writes
  <2>6. InBlock(p)
    <3>1. Len(p.wire) = Len(c.wire) + 1 /\ DOMAIN p.wire = 1 .. Len(c.wire) + 1 /\ Len(c.wire) \in Nat
          /\ p.wire[Len(c.wire) + 1] = Frame("start", part, p.index)
      BY <2>2, <2>3 DEF Outs
    <3> QED BY <2>3, <3>1 DEF InBlock
  <2>7. Adds(o, p, {"stop"} \cup {"start"})
    BY <2>2, <2>3, <2>4, AddsMore
  <2>8. {"stop"} \cup {"start"} = {"stop", "start"}
    OBVIOUS
  <2> QED BY <2>1, <2>3, <2>5, <2>6, <2>7, <2>8 DEF Writes
<1> QED BY <1>1, <1>2

\* A delta in its block.
LEMMA PartWrites ==
  ASSUME NEW o \in Outs, Writes(o), NEW part \in Parts, NEW p,
         p = Put(StartBlock(o, part), Frame("delta", part, StartBlock(o, part).index))
  PROVE  Writes(p) /\ Adds(o, p, {"stop", "start", "delta"}) /\ Said(p) = Said(o) \cup {part}
<1> DEFINE s == StartBlock(o, part)
           f == Frame("delta", part, s.index)
<1>1. Writes(s) /\ s \in Outs /\ Adds(o, s, {"stop", "start"}) /\ s.block = part
  BY BlockBegins DEF Writes, Sound
<1>2. p = Put(s, Frame("delta", part, s.index))
  OBVIOUS
<1> HIDE DEF s
<1>3. s.index \in Nat /\ part # "none"
  BY <1>1 DEF Outs, Parts
<1>4. f \in FrameSet /\ f.kind = "delta" /\ f.what = part /\ f.n = s.index
  BY <1>3, FrameIsOne DEF Kinds, Whats
<1>5. /\ Sound(p) /\ Adds(s, p, {"delta"}) /\ Said(p) = Said(s) \cup {part}
      /\ p.block = s.block /\ p.index = s.index
  BY <1>1, <1>2, <1>3, DeltaSound DEF Writes
<1>6. p \in Outs
  BY <1>5 DEF Sound
<1>7. Nested(p) /\ InBlock(p)
  <2>1. p = s \/ p.wire = Append(s.wire, f)
    <3> HIDE DEF f
    <3>1. p = Put(s, f)
      BY <1>2 DEF f
    <3>2. Put(s, f) = s \/ Put(s, f).wire = Append(s.wire, f)
      BY <1>1, <1>4, PutSends
    <3> QED BY <3>1, <3>2
  <2>2. CASE p = s
    BY <1>1, <2>2 DEF Writes
  <2>3. CASE p.wire = Append(s.wire, f)
    <3> HIDE DEF f
    <3>1. s \in Outs /\ p \in Outs /\ f \in FrameSet /\ f.kind \in {"delta", "stop"}
          /\ f.what = s.block /\ f.n = s.index /\ s.block # "none" /\ Nested(s) /\ InBlock(s)
      BY <1>1, <1>3, <1>4, <1>6 DEF Writes
    <3> QED BY <1>4, <1>5, <2>3, <3>1, NestedMore
  <2> QED BY <2>1, <2>2, <2>3
<1>8. Adds(o, p, {"stop", "start"} \cup {"delta"})
  BY <1>1, <1>5, <1>6, AddsMore
<1>9. {"stop", "start"} \cup {"delta"} = {"stop", "start", "delta"}
  OBVIOUS
<1>10. Said(s) = Said(o)
  BY <1>1, AddsKeeps DEF Said
<1> QED BY <1>5, <1>7, <1>8, <1>9, <1>10 DEF Writes

\* What saying something makes of a Messages stream.
WritesOn(o, p) ==
  Writes(p) /\ Adds(o, p, {"stop", "start", "delta"}) /\ Said(o) \subseteq Said(p)

LEMMA WritesOnMore ==
  ASSUME NEW o \in Outs, NEW p, NEW q, WritesOn(o, p), WritesOn(p, q)
  PROVE  WritesOn(o, q)
<1> DEFINE K == {"stop", "start", "delta"}
<1>1. p \in Outs /\ q \in Outs /\ Adds(o, p, K) /\ Adds(p, q, K)
  BY DEF WritesOn, Writes, Sound
<1> HIDE DEF K
<1>2. Adds(o, q, K \cup K)
  BY <1>1, AddsMore
<1>3. Adds(o, q, K)
  BY <1>2
<1> QED BY <1>3 DEF WritesOn, K

LEMMA MsgSays ==
  ASSUME NEW o \in Outs, Writes(o), NEW say \in SUBSET Parts
  PROVE  WritesOn(o, MsgSay(o, say)) /\ Said(MsgSay(o, say)) = Said(o) \cup say
<1> DEFINE Delta(oo, part) ==
             IF part \in say
             THEN Put(StartBlock(oo, part), Frame("delta", part, StartBlock(oo, part).index)) ELSE oo
           q == Delta(o, "thinking")
           p == Delta(q, "text")
<1>1. MsgSay(o, say) = p
  BY Zenon DEF MsgSay
<1>2. ASSUME NEW x \in Outs, Writes(x), NEW part \in Parts
      PROVE  /\ WritesOn(x, Delta(x, part))
             /\ Said(Delta(x, part)) = Said(x) \cup (say \cap {part})
  <2>1. CASE part \in say
    <3> DEFINE y == Put(StartBlock(x, part), Frame("delta", part, StartBlock(x, part).index))
    <3>1. Delta(x, part) = y
      BY <2>1
    <3> HIDE DEF Delta
    <3>2. Writes(y) /\ Adds(x, y, {"stop", "start", "delta"}) /\ Said(y) = Said(x) \cup {part}
      BY <1>2, PartWrites
    <3> HIDE DEF y
    <3> QED BY <2>1, <3>1, <3>2 DEF WritesOn
  <2>2. CASE part \notin say
    BY <1>2, <2>2 DEF WritesOn, Adds, Outs
  <2> QED BY <2>1, <2>2
<1>3. "thinking" \in Parts /\ "text" \in Parts
  BY DEF Parts
<1> HIDE DEF Delta
<1>4. WritesOn(o, q) /\ Said(q) = Said(o) \cup (say \cap {"thinking"})
  BY <1>2, <1>3
<1>5. q \in Outs /\ Writes(q)
  BY <1>4 DEF WritesOn, Writes, Sound
<1> HIDE DEF q
<1>6. WritesOn(q, p) /\ Said(p) = Said(q) \cup (say \cap {"text"})
  BY <1>2, <1>3, <1>5
<1> HIDE DEF p
<1>7. WritesOn(o, p)
  BY <1>4, <1>6, WritesOnMore
<1>8. Said(p) = Said(o) \cup say
  BY <1>4, <1>6 DEF Parts
<1> QED BY <1>1, <1>7, <1>8

LEMMA MsgSaysAll ==
  ASSUME NEW o \in Outs, Writes(o), NEW h \in Seq(SUBSET Parts)
  PROVE  /\ WritesOn(o, MsgSayAll(o, h))
         /\ \A i \in DOMAIN h : h[i] \subseteq Said(MsgSayAll(o, h))
<1> DEFINE m == Len(h)
           S == {p \in Outs : WritesOn(o, p)}
           G == [x \in S \X SUBSET Parts |-> MsgSay(x[1], x[2])]
           Runs(f) == f = [i \in 0 .. m |-> IF i = 0 THEN o ELSE MsgSay(f[i - 1], h[i])]
           g == CHOOSE f : Runs(f)
<1>1. m \in Nat /\ h \in [1 .. m -> SUBSET Parts] /\ DOMAIN h = 1 .. m
  OBVIOUS
<1>2. ASSUME NEW p \in S, NEW say \in SUBSET Parts
      PROVE  MsgSay(p, say) \in S /\ Said(MsgSay(p, say)) = Said(p) \cup say
  <2>1. p \in Outs /\ Writes(p) /\ WritesOn(o, p)
    BY DEF WritesOn
  <2>2. WritesOn(p, MsgSay(p, say)) /\ Said(MsgSay(p, say)) = Said(p) \cup say
    BY <2>1, MsgSays
  <2>3. WritesOn(o, MsgSay(p, say)) /\ MsgSay(p, say) \in Outs
    <3>1. WritesOn(o, MsgSay(p, say))
      BY <2>1, <2>2, WritesOnMore
    <3> QED BY <3>1 DEF WritesOn, Writes, Sound
  <2> QED BY <2>2, <2>3
<1>3. o \in S
  BY DEF WritesOn, Adds, Outs
<1>4. G \in [S \X SUBSET Parts -> S]
  BY <1>2
<1>5. \E f : Runs(f)
  <2>1. PICK f \in [0 .. m -> S] : f[0] = o /\ \A i \in 1 .. m : f[i] = G[<<f[i - 1], h[i]>>]
    <3> DEFINE X == SUBSET Parts
    <3>1. G \in [S \X X -> S] /\ o \in S /\ m \in Nat /\ h \in [1 .. m -> X]
      BY <1>1, <1>3, <1>4
    <3> HIDE DEF S, G, m, X
    <3>2. Iterated(S, G, o, m, h)
      BY <3>1, Iterates
    <3> QED BY <3>2 DEF Iterated
  <2>2. ASSUME NEW i \in 1 .. m PROVE f[i] = MsgSay(f[i - 1], h[i])
    <3>1. f[i - 1] \in S /\ h[i] \in SUBSET Parts
      BY <1>1, <2>1
    <3> QED BY <2>1, <3>1
  <2>3. \A i \in 0 .. m : i # 0 => i \in 1 .. m
    BY <1>1
  <2>4. Runs(f)
    <3> HIDE DEF S, G
    <3> QED BY <2>1, <2>2, <2>3
  <2> QED BY <2>4
<1>6. Runs(g)
  BY <1>5, Zenon
<1>7. MsgSayAll(o, h) = g[m]
  BY Zenon DEF MsgSayAll
<1> HIDE DEF g
<1>8. g[0] = o /\ \A i \in 1 .. m : g[i] = MsgSay(g[i - 1], h[i])
  <2>1. \A i \in 0 .. m : g[i] = IF i = 0 THEN o ELSE MsgSay(g[i - 1], h[i])
    BY <1>6, Zenon
  <2> QED BY <1>1, <2>1
<1> DEFINE T == {n \in Nat : n <= m => g[n] \in S /\ \A i \in 1 .. n : h[i] \subseteq Said(g[n])}
<1>9. T = Nat
  <2>1. 0 \in T
    BY <1>3, <1>8
  <2>2. ASSUME NEW n \in T PROVE n + 1 \in T
    <3> SUFFICES ASSUME n + 1 <= m
                 PROVE  g[n + 1] \in S /\ \A i \in 1 .. n + 1 : h[i] \subseteq Said(g[n + 1])
      OBVIOUS
    <3>1. g[n] \in S /\ (\A i \in 1 .. n : h[i] \subseteq Said(g[n])) /\ h[n + 1] \in SUBSET Parts
      BY <1>1
    <3>2. g[n + 1] = MsgSay(g[n], h[n + 1])
      BY <1>8
    <3> HIDE DEF S, T
    <3>3. g[n + 1] \in S /\ Said(g[n + 1]) = Said(g[n]) \cup h[n + 1]
      BY <1>2, <3>1, <3>2
    <3> QED BY <2>2, <3>1, <3>3 DEF T
  <2> HIDE DEF T
  <2>3. T \in SUBSET Nat
    BY DEF T
  <2> QED BY <2>1, <2>2, <2>3, SetInduction
<1> QED BY <1>1, <1>7, <1>9

\* What saying something makes of a Responses stream.
LEMMA RespSays ==
  ASSUME NEW o \in Outs, Sound(o), o.block \in {"none", "text"}, NEW say
  PROVE  /\ Sound(RespSay(o, say)) /\ RespSay(o, say).block \in {"none", "text"}
         /\ Adds(o, RespSay(o, say), {"start", "delta"})
         /\ "text" \in say => "text" \in Said(RespSay(o, say))
<1>1. CASE "text" \notin say
  BY <1>1 DEF RespSay, Adds, Outs
<1>2. CASE "text" \in say
  <2> DEFINE s == IF o.block = "text" THEN o ELSE Started(o, "text")
             p == Put(s, Frame("delta", "text", s.index))
  <2>1. RespSay(o, say) = p
    BY <1>2 DEF RespSay, Started
  <2>2. "text" \in Parts
    BY DEF Parts
  <2>3. Sound(s) /\ s \in Outs /\ Adds(o, s, {"start"}) /\ s.block = "text"
    <3>1. CASE o.block = "text"
      BY <3>1 DEF Adds, Outs
    <3>2. CASE o.block # "text"
      <4> DEFINE t == Started(o, "text")
      <4>1. o.block = "none" /\ s = t
        BY <3>2
      <4> HIDE DEF t, s
      <4>2. Sound(t) /\ Adds(o, t, {"start"}) /\ t.block = "text"
        BY <2>2, <4>1, BlockStarts DEF t
      <4> QED BY <4>1, <4>2 DEF Sound
    <3> QED BY <3>1, <3>2
  <2> HIDE DEF s
  <2>4. s.index \in Nat
    BY <2>3 DEF Outs
  <2>5. Sound(p) /\ Adds(s, p, {"delta"}) /\ Said(p) = Said(s) \cup {"text"} /\ p.block = s.block
    BY <2>2, <2>3, <2>4, DeltaSound
  <2> HIDE DEF p
  <2>6. p \in Outs
    BY <2>5 DEF Sound
  <2>7. Adds(o, p, {"start"} \cup {"delta"})
    BY <2>3, <2>5, <2>6, AddsMore
  <2>8. {"start"} \cup {"delta"} = {"start", "delta"}
    OBVIOUS
  <2> QED BY <2>1, <2>3, <2>5, <2>7, <2>8
<1> QED BY <1>1, <1>2

\* The calls an operation picks are calls that are known well enough.
Ready(known) == {t \in Tools : known[t] = "ready"}

LEMMA Picked ==
  ASSUME NEW known, NEW o, NEW S \in SUBSET Tools
  PROVE  /\ Deliverable(known, o) \subseteq Ready(known) \ Called(o)
         /\ Finishable(known, o) \subseteq (Ready(known) \cup (Tools \ Strict)) \ Called(o)
         /\ ChatFlushable(known, o) \subseteq (Ready(known) \cup (Tools \ Strict)) \ Called(o)
         /\ Terminal(known, o) \subseteq Tools \ Called(o)
         /\ Budgeted(o, S) \subseteq S /\ Lowest(S) \subseteq S
BY DEF Deliverable, Finishable, ChatFlushable, Terminal, Budgeted, Lowest, Ready

\* What Messages lines make of the stream.
Fed(o, h, say, known, calls, r) ==
  /\ Writes(r.out) /\ Adds(o, r.out, {"stop", "start", "delta", "tool"})
  /\ Called(r.out) \subseteq Called(o) \cup Ready(known)
  /\ tooled => Said(r.out) = Said(o)
  /\ ~tooled => Said(r.out) = Said(o) \cup say
  /\ say = {} /\ calls = {} => r.out = o /\ r.held = h
  /\ \/ r.held = h /\ (tooled => Called(o) # {} \/ say = {})
     \/ r.held = <<>> /\ Called(r.out) # {}
     \/ r.held = Append(h, say)

LEMMA FeedWrites ==
  ASSUME NEW o \in Outs, Writes(o), NEW h, NEW say \in SUBSET Parts, NEW known, NEW calls,
         NEW r, r = Feed(o, h, say, known, calls)
  PROVE  Fed(o, h, say, known, calls, r)
<1> DEFINE early == tooled /\ Called(o) = {}
           o1 == IF tooled THEN o ELSE MsgSay(o, say)
           o2 == IF calls = {} THEN o1 ELSE CloseBlock(o1)
           ready == IF calls = {} THEN {} ELSE Budgeted(o2, Deliverable(known, o2))
           p == CallAll(o2, ready)
<1>1. /\ r.out = p
      /\ r.held = IF ready # {} THEN <<>>
                  ELSE IF early /\ say # {} THEN Append(h, say) ELSE h
  BY DEF Feed
<1>2. /\ Writes(o1) /\ o1 \in Outs /\ Adds(o, o1, {"stop", "start", "delta"})
      /\ (tooled => Said(o1) = Said(o)) /\ (~tooled => Said(o1) = Said(o) \cup say)
  <2>1. CASE tooled
    BY <2>1 DEF Adds, Outs
  <2>2. CASE ~tooled
    BY <2>2, MsgSays DEF WritesOn, Writes, Sound
  <2> QED BY <2>1, <2>2
<1>3. say = {} => o1 = o
  <2>1. say = {} => MsgSay(o, say) = o
    BY Zenon DEF MsgSay
  <2> QED BY <2>1
<1> HIDE DEF o1
<1>4. /\ Writes(o2) /\ o2 \in Outs /\ Adds(o1, o2, {"stop"})
      /\ (calls = {} => o2 = o1) /\ (calls # {} => o2.block = "none")
  <2>1. CASE calls = {}
    BY <1>2, <2>1 DEF Adds, Outs
  <2>2. CASE calls # {}
    BY <1>2, <2>2, BlockCloses DEF Writes, Sound
  <2> QED BY <2>1, <2>2
<1> HIDE DEF o2
<1>5. ready \subseteq Ready(known) \ Called(o2) /\ ready \in SUBSET Tools
      /\ (calls = {} => ready = {})
  <2>1. Deliverable(known, o2) \in SUBSET Tools
    BY DEF Deliverable
  <2>2. Deliverable(known, o2) \subseteq Ready(known) \ Called(o2)
    BY Picked
  <2>3. Budgeted(o2, Deliverable(known, o2)) \subseteq Deliverable(known, o2)
    BY <2>1, Picked
  <2> QED BY <2>1, <2>2, <2>3
<1> HIDE DEF ready
<1>6. /\ p \in Outs /\ Adds(o2, p, {"tool"}) /\ Called(p) \subseteq Called(o2) \cup ready
      /\ (ready # {} => Called(p) # {}) /\ (ready = {} => p = o2) /\ p.block = o2.block /\ Sound(p)
  <2>1. ready \cap Called(o2) = {} /\ Sound(o2)
    BY <1>4, <1>5 DEF Writes
  <2> QED BY <1>4, <1>5, <2>1, CallsSent
<1> HIDE DEF p
<1>7. Writes(p)
  <2>1. CASE ready = {}
    BY <1>4, <1>6, <2>1
  <2>2. CASE ready # {}
    <3>1. {"tool"} \cap {"delta", "stop"} = {}
      OBVIOUS
    <3>2. Nested(p)
      BY <1>4, <1>6, <3>1, NestedKeeps DEF Writes
    <3>3. p.block = "none"
      BY <1>4, <1>5, <1>6, <2>2
    <3> QED BY <1>6, <3>2, <3>3 DEF Writes, InBlock
  <2> QED BY <2>1, <2>2
<1>8. Adds(o, p, {"stop", "start", "delta", "tool"})
  <2>1. Adds(o, o2, {"stop", "start", "delta"} \cup {"stop"})
    BY <1>2, <1>4, AddsMore
  <2>2. Adds(o, p, ({"stop", "start", "delta"} \cup {"stop"}) \cup {"tool"})
    BY <1>4, <1>6, <2>1, AddsMore
  <2>3. ({"stop", "start", "delta"} \cup {"stop"}) \cup {"tool"} = {"stop", "start", "delta", "tool"}
    OBVIOUS
  <2> QED BY <2>2, <2>3
<1>9. Called(o2) = Called(o) /\ Said(o2) = Said(o1) /\ Said(p) = Said(o2)
  <2>1. Called(o1) = Called(o)
    BY <1>2, AddsKeeps DEF Called
  <2>2. Called(o2) = Called(o1) /\ Said(o2) = Said(o1)
    BY <1>2, <1>4, AddsKeeps DEF Called, Said
  <2>3. Said(p) = Said(o2)
    BY <1>4, <1>6, AddsKeeps DEF Said
  <2> QED BY <2>1, <2>2, <2>3
<1>10. Called(p) \subseteq Called(o) \cup Ready(known)
  BY <1>5, <1>6, <1>9
<1>11. say = {} /\ calls = {} => p = o /\ r.held = h
  BY <1>1, <1>3, <1>4, <1>5, <1>6
<1>12. \/ r.held = h /\ (tooled => Called(o) # {} \/ say = {})
       \/ r.held = <<>> /\ Called(p) # {}
       \/ r.held = Append(h, say)
  <2>1. CASE ready # {}
    BY <1>1, <1>6, <2>1
  <2>2. CASE ready = {} /\ early /\ say # {}
    BY <1>1, <2>2
  <2>3. CASE ready = {} /\ ~(early /\ say # {})
    BY <1>1, <2>3
  <2> QED BY <2>1, <2>2, <2>3
<1> QED BY <1>1, <1>2, <1>7, <1>8, <1>9, <1>10, <1>11, <1>12 DEF Fed

\* The last frame of a turn.
Final(f) == f.kind \in {"end", "fail"}
NoFinal(o) == \A i \in DOMAIN o.wire : ~Final(o.wire[i])
LastOnly(o) ==
  o.wire # <<>> =>
    Final(o.wire[Len(o.wire)]) /\ \A i \in 1 .. Len(o.wire) - 1 : ~Final(o.wire[i])

LEMMA StillNoFinal ==
  ASSUME NEW o \in Outs, NEW p \in Outs, NEW K, Adds(o, p, K), K \cap {"end", "fail"} = {}, NoFinal(o)
  PROVE  NoFinal(p)
<1>1. DOMAIN o.wire = 1 .. Len(o.wire) /\ DOMAIN p.wire = 1 .. Len(p.wire)
      /\ Len(o.wire) \in Nat /\ Len(p.wire) \in Nat
  BY DEF Outs
<1> SUFFICES ASSUME NEW i \in 1 .. Len(p.wire) PROVE p.wire[i].kind \notin {"end", "fail"}
  BY <1>1 DEF NoFinal, Final
<1>2. CASE i \in 1 .. Len(o.wire)
  BY <1>1, <1>2 DEF Adds, NoFinal, Final
<1>3. CASE i \in Len(o.wire) + 1 .. Len(p.wire)
  BY <1>3 DEF Adds
<1> QED BY <1>1, <1>2, <1>3

\* What ends a stream ends it once.
LEMMA Closed ==
  ASSUME NEW o \in Outs, Sound(o), NoFinal(o)
  PROVE  /\ \A why \in Whats :
              /\ Sound(End(o, why)) /\ Adds(o, End(o, why), Kinds) /\ LastOnly(End(o, why))
              /\ End(o, why).block = o.block /\ Called(End(o, why)) = Called(o)
              /\ Said(End(o, why)) = Said(o) /\ (Nested(o) => Nested(End(o, why)))
         /\ Sound(Fail(o)) /\ Adds(o, Fail(o), Kinds) /\ LastOnly(Fail(o))
         /\ Fail(o).block = o.block /\ Called(Fail(o)) = Called(o) /\ Said(Fail(o)) = Said(o)
         /\ (Nested(o) => Nested(Fail(o))) /\ Sent(Fail(o), "end") = {}
<1>1. ASSUME NEW p \in Outs, NEW f \in FrameSet, p.wire = Append(o.wire, f), Final(f),
             Adds(o, p, {f.kind})
      PROVE  /\ Adds(o, p, Kinds) /\ LastOnly(p) /\ Called(p) = Called(o)
             /\ Said(p) = Said(o) /\ (Nested(o) => Nested(p))
  <2>1. Adds(o, p, Kinds)
    BY <1>1, AddsSome DEF FrameSet
  <2>2. LastOnly(p)
    <3>1. Len(p.wire) = Len(o.wire) + 1 /\ p.wire[Len(o.wire) + 1] = f /\ Len(o.wire) \in Nat
          /\ DOMAIN o.wire = 1 .. Len(o.wire) /\ \A i \in 1 .. Len(o.wire) : p.wire[i] = o.wire[i]
      BY <1>1 DEF Outs
    <3>2. Len(p.wire) - 1 = Len(o.wire)
      BY <3>1
    <3> QED BY <1>1, <3>1, <3>2 DEF LastOnly, NoFinal
  <2>3. {f.kind} \cap {"delta", "stop"} = {} /\ "tool" \notin {f.kind} /\ "delta" \notin {f.kind}
    BY <1>1 DEF Final
  <2>4. Called(p) = Called(o) /\ Said(p) = Said(o)
    BY <1>1, <2>3, AddsKeeps DEF Called, Said
  <2>5. Nested(o) => Nested(p)
    BY <1>1, <2>3, NestedKeeps
  <2> QED BY <2>1, <2>2, <2>4, <2>5
<1>2. ASSUME NEW why \in Whats
      PROVE  /\ Sound(End(o, why)) /\ Adds(o, End(o, why), Kinds) /\ LastOnly(End(o, why))
             /\ End(o, why).block = o.block /\ Called(End(o, why)) = Called(o)
             /\ Said(End(o, why)) = Said(o) /\ (Nested(o) => Nested(End(o, why)))
  <2> DEFINE p == End(o, why)
             f == Frame("end", why, 0)
  <2>1. f \in FrameSet /\ f.kind = "end"
    BY FrameIsOne DEF Kinds
  <2>2. Sound(p) /\ Adds(o, p, {"end"}) /\ p.block = o.block /\ p.wire = Append(o.wire, f)
    BY EndSound
  <2>3. p \in Outs
    BY <2>2 DEF Sound
  <2> HIDE DEF p, f
  <2> QED BY <1>1, <2>1, <2>2, <2>3 DEF Final, p
<1>3. /\ Sound(Fail(o)) /\ Adds(o, Fail(o), Kinds) /\ LastOnly(Fail(o))
      /\ Fail(o).block = o.block /\ Called(Fail(o)) = Called(o) /\ Said(Fail(o)) = Said(o)
      /\ (Nested(o) => Nested(Fail(o))) /\ Sent(Fail(o), "end") = {}
  <2> DEFINE p == Fail(o)
             f == Frame("fail", "-", 0)
  <2>1. f \in FrameSet /\ f.kind = "fail"
    BY FrameIsOne DEF Kinds, Whats
  <2>2. Sound(p) /\ Adds(o, p, {"fail"}) /\ p.block = o.block /\ p.wire = Append(o.wire, f)
    BY FailSound
  <2>3. p \in Outs
    BY <2>2 DEF Sound
  <2> HIDE DEF p, f
  <2>4. Sent(p, "end") = Sent(o, "end")
    BY <2>2, <2>3, AddsKeeps
  <2>5. Sent(o, "end") = {}
    BY DEF NoFinal, Final, Sent
  <2> QED BY <1>1, <2>1, <2>2, <2>3, <2>4, <2>5 DEF Final, p
<1> QED BY <1>2, <1>3

LEMMA BudgetSome ==
  ASSUME proto \in Protocols, NEW o, Called(o) = {}, NEW S \in SUBSET Tools, S # {}
  PROVE  Budgeted(o, S) # {}
<1>1. Cap[proto] \in Nat
  BY TurnAssumption
<1>2. CASE Cap[proto] = 0
  BY <1>2 DEF Budgeted
<1>3. CASE Cap[proto] # 0
  <2>1. S \in SUBSET Nat
    BY TurnAssumption
  <2>2. PICK t \in S : \A u \in S : t <= u
    BY <2>1, LeastOfSet
  <2>3. {u \in S : u <= t} = {t}
    <3>1. \A u \in S : u \in Nat /\ t \in Nat /\ t <= u
      BY <2>1, <2>2
    <3>2. \A u \in S : u <= t <=> u = t
      BY <3>1
    <3> QED BY <3>2
  <2>4. Cardinality({u \in S : u <= t}) = 1
    BY <2>3, FS_Singleton
  <2>5. Cardinality(Called(o)) = 0
    BY FS_EmptySet
  <2>6. t \in Budgeted(o, S)
    BY <1>1, <1>3, <2>4, <2>5 DEF Budgeted
  <2> QED BY <2>6
<1> QED BY <1>2, <1>3

\* The end of a Messages stream.
LEMMA FinishWrites ==
  ASSUME proto \in Protocols, NEW o \in Outs, Writes(o), NoFinal(o),
         NEW h \in Seq(SUBSET Parts), NEW known, NEW why \in Finishes \cup {"none"},
         NEW p, p = FinishStream(o, h, known, why)
  PROVE  /\ Sound(p) /\ Nested(p) /\ p.block = "none" /\ Adds(o, p, Kinds) /\ LastOnly(p)
         /\ Called(p) \subseteq Called(o) \cup Ready(known) \cup (Tools \ Strict)
         /\ Called(o) # {} \/ Finishable(known, o) # {} => Said(p) = Said(o) /\ Called(p) # {}
         /\ Called(o) = {} /\ Finishable(known, o) = {} =>
              Called(p) = {} /\ \A i \in DOMAIN h : h[i] \subseteq Said(p)
<1> DEFINE ready == Finishable(known, o)
           said == IF Called(o) # {} \/ ready # {} THEN o ELSE MsgSayAll(o, h)
           c == CloseBlock(said)
           S == Budgeted(o, ready)
           o1 == CallAll(c, S)
<1>1. p = End(o1, StopReason(why, Called(o1) # {}))
  BY DEF FinishStream
<1>2. /\ Writes(said) /\ said \in Outs /\ Adds(o, said, {"stop", "start", "delta"})
      /\ Said(o) \subseteq Said(said)
      /\ (Called(o) # {} \/ ready # {} => said = o)
      /\ (Called(o) = {} /\ ready = {} => \A i \in DOMAIN h : h[i] \subseteq Said(said))
  <2>1. CASE Called(o) # {} \/ ready # {}
    BY <2>1 DEF Adds, Outs
  <2>2. CASE ~(Called(o) # {} \/ ready # {})
    BY <2>2, MsgSaysAll DEF WritesOn, Writes, Sound
  <2> QED BY <2>1, <2>2
<1>3. ready \in SUBSET Tools /\ ready \subseteq (Ready(known) \cup (Tools \ Strict)) \ Called(o)
  <2>1. ready \in SUBSET Tools
    BY DEF Finishable
  <2> QED BY <2>1, Picked
<1> HIDE DEF said, ready
<1>4. Writes(c) /\ c \in Outs /\ Adds(said, c, {"stop"}) /\ c.block = "none"
  BY <1>2, BlockCloses DEF Writes, Sound
<1>5. S \in SUBSET Tools /\ S \subseteq ready /\ (Called(o) = {} /\ ready # {} => S # {})
  <2>1. S \subseteq ready
    BY <1>3, Picked
  <2>2. Called(o) = {} /\ ready # {} => S # {}
    BY <1>3, BudgetSome
  <2> QED BY <1>3, <2>1, <2>2
<1> HIDE DEF c, S
<1>6. Called(c) = Called(o) /\ Said(c) = Said(said)
  <2>1. Called(said) = Called(o)
    BY <1>2, AddsKeeps DEF Called
  <2>2. Called(c) = Called(said) /\ Said(c) = Said(said)
    BY <1>2, <1>4, AddsKeeps DEF Called, Said
  <2> QED BY <2>1, <2>2
<1>7. /\ o1 \in Outs /\ Sound(o1) /\ Adds(c, o1, {"tool"}) /\ Called(o1) \subseteq Called(o) \cup S
      /\ (S # {} => Called(o1) # {}) /\ (S = {} => o1 = c) /\ o1.block = "none"
  <2>1. S \cap Called(c) = {} /\ Sound(c)
    BY <1>3, <1>4, <1>5, <1>6 DEF Writes
  <2> QED BY <1>4, <1>5, <1>6, <2>1, CallsSent
<1> HIDE DEF o1
<1>8. Said(o1) = Said(c) /\ Called(c) \subseteq Called(o1)
  BY <1>4, <1>7, AddsKeeps DEF Said, Called
<1>9. Nested(o1)
  <2>1. {"tool"} \cap {"delta", "stop"} = {}
    OBVIOUS
  <2> QED BY <1>4, <1>7, <2>1, NestedKeeps DEF Writes
<1>10. Adds(o, o1, ({"stop", "start", "delta"} \cup {"stop"}) \cup {"tool"})
  <2>1. Adds(o, c, {"stop", "start", "delta"} \cup {"stop"})
    BY <1>2, <1>4, AddsMore
  <2> QED BY <1>4, <1>7, <2>1, AddsMore
<1>11. NoFinal(o1)
  <2>1. (({"stop", "start", "delta"} \cup {"stop"}) \cup {"tool"}) \cap {"end", "fail"} = {}
    OBVIOUS
  <2> QED BY <1>7, <1>10, <2>1, StillNoFinal
<1>12. StopReason(why, Called(o1) # {}) \in Whats
  BY DEF StopReason, Finishes, Whats
<1>13. /\ Sound(p) /\ Adds(o1, p, Kinds) /\ LastOnly(p) /\ p.block = "none"
       /\ Called(p) = Called(o1) /\ Said(p) = Said(o1) /\ Nested(p)
  <2> DEFINE reason == StopReason(why, Called(o1) # {})
  <2>1. p = End(o1, reason) /\ reason \in Whats
    BY <1>1, <1>12
  <2> HIDE DEF reason
  <2> QED BY <1>7, <1>9, <1>11, <2>1, Closed
<1>14. p \in Outs
  BY <1>13 DEF Sound
<1>15. Adds(o, p, Kinds)
  <2>1. (({"stop", "start", "delta"} \cup {"stop"}) \cup {"tool"}) \cup Kinds = Kinds
    BY DEF Kinds
  <2> QED BY <1>7, <1>10, <1>13, <1>14, <2>1, AddsMore
<1>16. Called(p) \subseteq Called(o) \cup Ready(known) \cup (Tools \ Strict)
  BY <1>3, <1>5, <1>7, <1>13
<1>17. Called(o) # {} \/ ready # {} => Said(p) = Said(o) /\ Called(p) # {}
  BY <1>2, <1>5, <1>6, <1>7, <1>8, <1>13
<1>18. Called(o) = {} /\ ready = {} =>
         Called(p) = {} /\ \A i \in DOMAIN h : h[i] \subseteq Said(p)
  BY <1>2, <1>5, <1>6, <1>7, <1>8, <1>13
<1> QED BY <1>13, <1>15, <1>16, <1>17, <1>18 DEF ready

\* The end of a Responses stream.
LEMMA CompleteSound ==
  ASSUME NEW o \in Outs, Sound(o), NoFinal(o), o.block \in {"none", "text"}, NEW known,
         NEW p, p = CompleteStream(o, known)
  PROVE  Sound(p) /\ p.block = "none" /\ Adds(o, p, Kinds) /\ LastOnly(p)
<1> DEFINE o1 == CallAll(o, Deliverable(known, o))
           o2 == CallAll(o1, Terminal(known, o1))
           o3 == IF o2.block = "none" THEN o2 ELSE Stopped(o2)
<1>1. o2.block = "none" \/ o2.block = "text" => p = End(o3, "completed")
  BY DEF CompleteStream, Stopped
<1>2. Sound(o1) /\ o1 \in Outs /\ Adds(o, o1, {"tool"}) /\ o1.block = o.block
  <2>1. Deliverable(known, o) \in SUBSET Tools /\ Deliverable(known, o) \cap Called(o) = {}
    BY DEF Deliverable
  <2> QED BY <2>1, CallsSent
<1> HIDE DEF o1
<1>3. Sound(o2) /\ o2 \in Outs /\ Adds(o1, o2, {"tool"}) /\ o2.block \in {"none", "text"}
  <2>1. Terminal(known, o1) \in SUBSET Tools /\ Terminal(known, o1) \cap Called(o1) = {}
    BY DEF Terminal
  <2> QED BY <1>2, <2>1, CallsSent
<1> HIDE DEF o2
<1>4. Sound(o3) /\ o3 \in Outs /\ Adds(o2, o3, {"stop"}) /\ o3.block = "none"
  <2>1. CASE o2.block = "none"
    BY <1>3, <2>1 DEF Adds, Outs
  <2>2. CASE o2.block # "none"
    <3> DEFINE q == Stopped(o2)
    <3>1. Sound(q) /\ Adds(o2, q, {"stop"}) /\ q.block = "none"
      BY <1>3, <2>2, BlockStops
    <3> HIDE DEF q
    <3>2. o3 = q
      BY <2>2 DEF q
    <3> QED BY <3>1, <3>2 DEF Sound
  <2> QED BY <2>1, <2>2
<1> HIDE DEF o3
<1>5. Adds(o, o3, ({"tool"} \cup {"tool"}) \cup {"stop"})
  <2>1. Adds(o, o2, {"tool"} \cup {"tool"})
    BY <1>2, <1>3, AddsMore
  <2> QED BY <1>3, <1>4, <2>1, AddsMore
<1>6. NoFinal(o3)
  <2>1. (({"tool"} \cup {"tool"}) \cup {"stop"}) \cap {"end", "fail"} = {}
    OBVIOUS
  <2> QED BY <1>4, <1>5, <2>1, StillNoFinal
<1>7. "completed" \in Whats
  BY DEF Whats
<1>8. /\ Sound(p) /\ Adds(o3, p, Kinds) /\ LastOnly(p) /\ p.block = "none"
  BY <1>1, <1>3, <1>4, <1>6, <1>7, Closed
<1>9. Adds(o, p, Kinds)
  <2>1. (({"tool"} \cup {"tool"}) \cup {"stop"}) \cup Kinds = Kinds
    BY DEF Kinds
  <2>2. p \in Outs
    BY <1>8 DEF Sound
  <2> QED BY <1>4, <1>5, <1>8, <2>1, <2>2, AddsMore
<1> QED BY <1>8, <1>9

LEMMA AddsAny ==
  ASSUME NEW o \in Outs, NEW p \in Outs, NEW K, Adds(o, p, K)
  PROVE  Adds(o, p, Kinds)
<1>1. o.wire \in Seq(FrameSet) /\ p.wire \in Seq(FrameSet)
  BY DEF Outs
<1>2. ASSUME NEW i \in Len(o.wire) + 1 .. Len(p.wire) PROVE p.wire[i].kind \in Kinds
  <2>1. i \in 1 .. Len(p.wire)
    BY <1>1
  <2>2. p.wire[i] \in FrameSet
    BY <1>1, <2>1
  <2> QED BY <2>2 DEF FrameSet
<1> QED BY <1>2 DEF Adds

\* Nothing has been sent yet.
LEMMA SilentIsSound ==
  /\ Silent \in Outs /\ Sound(Silent) /\ Silent.block = "none" /\ Silent.wire = <<>>
  /\ NoFinal(Silent) /\ LastOnly(Silent) /\ Nested(Silent) /\ InBlock(Silent)
  /\ \A k : Sent(Silent, k) = {}
  /\ \A o \in Outs : Adds(Silent, o, Kinds)
<1>1. Silent \in Outs /\ Silent.block = "none" /\ Silent.wire = <<>> /\ Silent.next = 0
  BY DEF Silent, Outs
<1>2. \A k : Sent(Silent, k) = {}
  BY <1>1 DEF Sent
<1>3. Nums(Silent) = {}
  BY <1>1 DEF Nums
<1>4. Counted(Silent)
  BY <1>1, <1>3, FS_EmptySet DEF Counted
<1>5. Balanced(Silent) /\ Once(Silent)
  BY <1>1, <1>2 DEF Balanced, Once, Contract!CallsOnce
<1>6. NoFinal(Silent) /\ LastOnly(Silent) /\ Nested(Silent) /\ InBlock(Silent)
  BY <1>1 DEF NoFinal, LastOnly, Nested, InBlock
<1>7. ASSUME NEW o \in Outs PROVE Adds(Silent, o, Kinds)
  <2> DEFINE K == {o.wire[i].kind : i \in 1 .. Len(o.wire)}
  <2>1. o.wire \in Seq(FrameSet)
    BY DEF Outs
  <2>2. Adds(Silent, o, K)
    BY <1>1, <2>1 DEF Adds
  <2> HIDE DEF K
  <2> QED BY <1>1, <2>2, AddsAny
<1> QED BY <1>1, <1>2, <1>4, <1>5, <1>6, <1>7 DEF Sound

\* An answer that is not streamed.
LEMMA ReplySound ==
  ASSUME NEW known, NEW heard, NEW why \in Finishes \cup {"none"}, NEW raw,
         NEW p, p = Reply(known, heard, why, raw)
  PROVE  /\ Sound(p) /\ p.block = "none" /\ LastOnly(p)
         /\ Called(p) \subseteq Shown(known, raw)
<1> DEFINE calls == Shown(known, raw)
           q == Open(Silent)
           say(o, part) == IF part \in heard /\ ~(proto = "responses" /\ part = "thinking")
                           THEN Put(o, Frame("delta", part, 0)) ELSE o
           t == say(q, "thinking")
           s == say(t, "text")
           o1 == CallAll(s, calls)
           reason == IF proto = "messages"
                     THEN (IF calls # {} THEN "tool_calls"
                           ELSE IF why \in {"none", "tool_calls"} THEN "stop" ELSE why)
                     ELSE IF proto = "responses" THEN "completed"
                     ELSE NormalFinish(why, calls # {})
<1>1. p = End(o1, reason)
  BY Zenon DEF Reply
<1>2. reason \in Whats
  BY DEF Whats, Finishes, NormalFinish
<1> HIDE DEF reason
<1>3. /\ Sound(q) /\ q \in Outs /\ Called(q) = {} /\ q.block = "none" /\ Adds(Silent, q, {"open"})
  <2>1. Sound(q) /\ Adds(Silent, q, {"open"}) /\ q.block = "none"
    BY SilentIsSound, OpenSound
  <2>2. q \in Outs
    BY <2>1 DEF Sound
  <2>3. Called(q) = {}
    <3> HIDE DEF q
    <3>1. "tool" \notin {"open"}
      OBVIOUS
    <3>2. Sent(q, "tool") = Sent(Silent, "tool")
      BY <2>1, <2>2, <3>1, SilentIsSound, AddsKeeps
    <3> QED BY <3>2, SilentIsSound DEF Called
  <2> QED BY <2>1, <2>2, <2>3
<1>4. ASSUME NEW o \in Outs, Sound(o), NEW part \in Parts
      PROVE  /\ Sound(say(o, part)) /\ say(o, part) \in Outs /\ Adds(o, say(o, part), {"delta"})
             /\ say(o, part).block = o.block
  <2> DEFINE d == Put(o, Frame("delta", part, 0))
  <2>1. Sound(d) /\ Adds(o, d, {"delta"}) /\ d.block = o.block
    BY <1>4, DeltaSound
  <2>2. d \in Outs
    BY <2>1 DEF Sound
  <2> HIDE DEF d
  <2>3. Adds(o, o, {"delta"})
    BY DEF Adds, Outs
  <2>4. say(o, part) = d \/ say(o, part) = o
    BY DEF d
  <2> HIDE DEF say
  <2> QED BY <1>4, <2>1, <2>2, <2>3, <2>4
<1>5. "thinking" \in Parts /\ "text" \in Parts
  BY DEF Parts
<1> HIDE DEF say, q
<1>6. Sound(t) /\ t \in Outs /\ Adds(q, t, {"delta"}) /\ t.block = "none"
  BY <1>3, <1>4, <1>5
<1> HIDE DEF t
<1>7. Sound(s) /\ s \in Outs /\ Adds(t, s, {"delta"}) /\ s.block = "none"
  BY <1>4, <1>5, <1>6
<1> HIDE DEF s
<1>8. Called(s) = {}
  BY <1>3, <1>6, <1>7, AddsKeeps DEF Called
<1>9. calls \in SUBSET Tools
  BY DEF Shown, Collected
<1> HIDE DEF calls
<1>10. Sound(o1) /\ o1 \in Outs /\ Adds(s, o1, {"tool"}) /\ Called(o1) \subseteq calls /\ o1.block = "none"
  <2>1. calls \cap Called(s) = {}
    BY <1>8
  <2> QED BY <1>7, <1>8, <1>9, <2>1, CallsSent
<1> HIDE DEF o1
<1>11. NoFinal(o1)
  <2>1. NoFinal(q)
    BY <1>3, SilentIsSound, StillNoFinal
  <2>2. NoFinal(t)
    BY <1>3, <1>6, <2>1, StillNoFinal
  <2>3. NoFinal(s)
    BY <1>6, <1>7, <2>2, StillNoFinal
  <2> QED BY <1>7, <1>10, <2>3, StillNoFinal
<1>12. Sound(p) /\ LastOnly(p) /\ p.block = "none" /\ Called(p) = Called(o1)
  BY <1>1, <1>2, <1>10, <1>11, Closed
<1> QED BY <1>10, <1>12 DEF calls
-----------------------------------------------------------------------------
(* The variables keep their types.                                           *)
LEMMA MergedIsSlots ==
  ASSUME TypeOK, NEW l \in Lines
  PROVE  Merged(l.calls) \in [Tools -> SlotStates]
<1> SUFFICES ASSUME NEW t \in Tools
             PROVE  (IF t \in DOMAIN l.calls THEN Merge(slots[t], l.calls[t]) ELSE slots[t]) \in SlotStates
  BY DEF Merged
<1>1. slots[t] \in SlotStates
  BY DEF TypeOK
<1>2. t \in DOMAIN l.calls => l.calls[t] \in Fragments
  BY TurnAssumption
<1>3. ASSUME NEW s \in SlotStates, NEW f \in Fragments PROVE Merge(s, f) \in SlotStates
  <2>1. s \in {"unseen", "anon", "named", "cut", "ready"} /\ f \in {"name", "args", "cut", "whole"}
    BY DEF SlotStates, Fragments
  <2>2. CASE s = "unseen" /\ f # "whole"
    <3>1. f \in {"name", "args", "cut"}
      BY <2>1, <2>2
    <3> QED BY <2>2, <3>1 DEF Merge, SlotStates
  <2>3. CASE ~(s = "unseen" /\ f # "whole")
    BY <2>1, <2>3 DEF Merge, SlotStates
  <2> QED BY <2>2, <2>3
<1> QED BY <1>1, <1>2, <1>3

LEMMA TypeSteps == TypeOK /\ [Next]_vars => TypeOK'
<1> SUFFICES ASSUME TypeOK, [Next]_vars PROVE TypeOK'
  OBVIOUS
<1> USE DEF TypeOK
<1>t. ASSUME NEW what \in {"ok", "fail", "pinned"}, Tell(what)
      PROVE  reports' \in [1 .. Attempts -> SUBSET {"ok", "fail", "pinned"}]
  BY <1>t DEF Tell
<1>n. ASSUME NextAccount, attempt < Attempts, tooled' \in BOOLEAN,
             reports' \in [1 .. Attempts -> SUBSET {"ok", "fail", "pinned"}]
      PROVE  TypeOK'
  <2>1. attempt' \in 1 .. Attempts /\ 0 \in 0 .. MaxLines
    BY <1>n, TurnAssumption DEF NextAccount
  <2>2. slots' \in [Tools -> SlotStates] /\ held' \in Seq(SUBSET Parts)
    BY <1>n DEF NextAccount, NoSlots, SlotStates
  <2> QED BY <1>n, <2>1, <2>2 DEF NextAccount
<1>o. ASSUME Over, tooled' \in BOOLEAN, slots' \in [Tools -> SlotStates], held' \in Seq(SUBSET Parts),
             got' \in SUBSET Parts, finish' \in Finishes \cup {"none"},
             reports' \in [1 .. Attempts -> SUBSET {"ok", "fail", "pinned"}]
      PROVE  TypeOK'
  BY <1>o DEF Over
<1>r. ASSUME NEW l \in Lines, Read(l)
      PROVE  /\ slots' \in [Tools -> SlotStates] /\ got' \in SUBSET Parts
             /\ finish' \in Finishes \cup {"none"}
  BY <1>r, MergedIsSlots, TurnAssumption DEF Read
<1>l. ASSUME NEW l \in Lines PROVE l.say \in SUBSET Parts /\ l.finish \in Finishes \cup {"none"}
  BY TurnAssumption
<1>h. \A say \in SUBSET Parts : <<>> \in Seq(SUBSET Parts) /\ Append(held, say) \in Seq(SUBSET Parts)
  OBVIOUS
<1>1. CASE ChatNext
  <2>1. CASE ChatAnswered
    BY <2>1 DEF ChatAnswered, Answered
  <2>2. ASSUME NEW mayRetry, ChatGiveUp(mayRetry), tooled' \in BOOLEAN PROVE TypeOK'
    BY <2>2, <1>t, <1>n, <1>o DEF ChatGiveUp
  <2>3. CASE ChatRefused
    BY <2>2, <2>3 DEF ChatRefused
  <2>4. CASE ChatBroken
    BY <2>2, <2>4 DEF ChatBroken
  <2>5. ASSUME NEW o, NEW h, NEW known \in [Tools -> SlotStates], NEW heard \in SUBSET Parts,
               NEW why \in Finishes \cup {"none"}, ChatClose(o, h, known, heard, why),
               tooled' \in BOOLEAN
        PROVE  TypeOK'
    <3>1. CASE ChatGiveUp(TRUE)
      BY <2>2, <2>5, <3>1
    <3>2. CASE Tell("ok") /\ Over /\ slots' = known /\ got' = heard /\ finish' = why /\ held' = <<>>
      BY <1>t, <1>o, <2>5, <3>2
    <3> QED BY <2>5, <3>1, <3>2 DEF ChatClose
  <2>6. CASE ChatDrained
    BY <2>5, <2>6 DEF ChatDrained
  <2>7. CASE ChatCancelled
    BY <1>o, <2>7 DEF ChatCancelled
  <2>8. ASSUME NEW l \in Lines, ChatLine(l) PROVE TypeOK'
    <3>1. held' \in Seq(SUBSET Parts)
      <4>1. held' \in {<<>>, Append(held, l.say), held}
        BY <2>8 DEF ChatLine
      <4> QED BY <1>h, <1>l, <4>1, Zenon
    <3>2. reports' \in [1 .. Attempts -> SUBSET {"ok", "fail", "pinned"}]
      BY <1>t, <2>8 DEF ChatLine
    <3>3. lines' \in 0 .. MaxLines /\ tooled' \in BOOLEAN
      BY <2>8, TurnAssumption DEF ChatLine
    <3> QED BY <1>r, <2>8, <3>1, <3>2, <3>3 DEF ChatLine
  <2>9. ASSUME NEW l \in Lines, ChatBody(l) PROVE TypeOK'
    <3> DEFINE why == IF l.finish = "none" THEN "stop" ELSE l.finish
    <3>1. why \in Finishes \cup {"none"} /\ Merged(l.calls) \in [Tools -> SlotStates]
          /\ l.say \in SUBSET Parts /\ tooled' \in BOOLEAN
      BY <1>l, <2>9, MergedIsSlots DEF ChatBody, Finishes
    <3>2. \E o : ChatClose(o, <<>>, Merged(l.calls), l.say, why)
      BY <2>9, Zenon DEF ChatBody
    <3> HIDE DEF why
    <3> QED BY <2>5, <3>1, <3>2
  <2> QED BY <1>1, <2>1, <2>3, <2>4, <2>6, <2>7, <2>8, <2>9 DEF ChatNext
<1>2. CASE MsgNext
  <2>1. CASE MsgAnswered
    BY <2>1 DEF MsgAnswered, Answered
  <2>2. ASSUME NEW mayRetry, MsgGiveUp(mayRetry) PROVE TypeOK'
    BY <2>2, <1>t, <1>n, <1>o DEF MsgGiveUp
  <2>3. CASE MsgRefused
    BY <2>2, <2>3 DEF MsgRefused
  <2>4. CASE MsgBroken
    BY <2>2, <2>4 DEF MsgBroken
  <2>5. ASSUME NEW o, NEW h, NEW known \in [Tools -> SlotStates], NEW heard \in SUBSET Parts,
               NEW calls, NEW why \in Finishes \cup {"none"}, MsgClose(o, h, known, heard, calls, why)
        PROVE  TypeOK'
    <3>1. CASE MsgGiveUp(TRUE)
      BY <2>2, <3>1
    <3>2. CASE /\ Tell("ok") /\ Over /\ slots' = known /\ got' = heard /\ finish' = why
               /\ held' = <<>> /\ tooled' = tooled
      BY <1>t, <1>o, <2>5, <3>2
    <3> QED BY <2>5, <3>1, <3>2 DEF MsgClose
  <2>6. CASE MsgDrained
    BY <2>5, <2>6 DEF MsgDrained
  <2>7. CASE MsgCancelled
    BY <1>o, <2>7 DEF MsgCancelled
  <2>8. ASSUME NEW l \in Lines, MsgLine(l) PROVE TypeOK'
    <3>1. held' \in Seq(SUBSET Parts)
      <4>1. held' \in {<<>>, Append(held, l.say), held}
        BY <2>8 DEF MsgLine, Feed
      <4> QED BY <1>h, <1>l, <4>1, Zenon
    <3>2. reports' \in [1 .. Attempts -> SUBSET {"ok", "fail", "pinned"}]
      BY <1>t, <2>8 DEF MsgLine
    <3>3. lines' \in 0 .. MaxLines
      BY <2>8, TurnAssumption DEF MsgLine
    <3> QED BY <1>r, <2>8, <3>1, <3>2, <3>3 DEF MsgLine
  <2>9. ASSUME NEW l \in Lines, MsgBody(l) PROVE TypeOK'
    <3>1. Merged(l.calls) \in [Tools -> SlotStates]
          /\ l.say \in SUBSET Parts /\ l.finish \in Finishes \cup {"none"}
      BY <1>l, MergedIsSlots
    <3>2. \E o, h : MsgClose(o, h, Merged(l.calls), l.say, DOMAIN l.calls, l.finish)
      BY <2>9, Zenon DEF MsgBody
    <3> QED BY <2>5, <3>1, <3>2
  <2> QED BY <1>2, <2>1, <2>3, <2>4, <2>6, <2>7, <2>8, <2>9 DEF MsgNext
<1>3. CASE RespNext
  <2>1. CASE RespAnswered
    BY <1>t, <2>1 DEF RespAnswered, Answered
  <2>2. ASSUME NEW mayRetry, RespGiveUp(mayRetry),
               reports' \in [1 .. Attempts -> SUBSET {"ok", "fail", "pinned"}]
        PROVE  TypeOK'
    BY <2>2, <1>n, <1>o DEF RespGiveUp
  <2>3. CASE RespRefused
    BY <1>t, <2>2, <2>3 DEF RespRefused
  <2>4. CASE RespBroken
    BY <1>t, <2>2, <2>4 DEF RespBroken
  <2>5. ASSUME NEW o, NEW known \in [Tools -> SlotStates], NEW heard \in SUBSET Parts,
               NEW why \in Finishes \cup {"none"}, RespClose(o, known, heard, why)
        PROVE  TypeOK'
    BY <1>t, <1>o, <2>5 DEF RespClose
  <2>6. CASE RespDrained
    BY <2>5, <2>6 DEF RespDrained
  <2>7. CASE RespCancelled
    BY <1>o, <2>7 DEF RespCancelled
  <2>8. ASSUME NEW l \in Lines, RespLine(l) PROVE TypeOK'
    <3>2. reports' \in [1 .. Attempts -> SUBSET {"ok", "fail", "pinned"}]
      BY <1>t, <2>8 DEF RespLine
    <3>3. lines' \in 0 .. MaxLines
      BY <2>8, TurnAssumption DEF RespLine
    <3> QED BY <1>r, <2>8, <3>2, <3>3 DEF RespLine
  <2>9. ASSUME NEW l \in Lines, RespBody(l) PROVE TypeOK'
    <3>1. Merged(l.calls) \in [Tools -> SlotStates]
          /\ l.say \in SUBSET Parts /\ l.finish \in Finishes \cup {"none"}
      BY <1>l, MergedIsSlots
    <3>2. \E o : RespClose(o, Merged(l.calls), l.say, l.finish)
      BY <2>9, Zenon DEF RespBody
    <3> QED BY <2>5, <3>1, <3>2
  <2> QED BY <1>3, <2>1, <2>3, <2>4, <2>6, <2>7, <2>8, <2>9 DEF RespNext
<1>4. CASE CollectNext
  <2>1. CASE CollectAnswered
    BY <2>1 DEF CollectAnswered, Answered
  <2>2. ASSUME NEW mayRetry, CollectGiveUp(mayRetry) PROVE TypeOK'
    BY <2>2, <1>t, <1>n, <1>o DEF CollectGiveUp
  <2>3. CASE CollectRefused
    BY <2>2, <2>3 DEF CollectRefused
  <2>4. CASE CollectBroken
    BY <2>2, <2>4 DEF CollectBroken
  <2>5. ASSUME NEW known \in [Tools -> SlotStates], NEW heard \in SUBSET Parts,
               NEW why \in Finishes \cup {"none"}, NEW raw, CollectClose(known, heard, why, raw)
        PROVE  TypeOK'
    <3>1. CASE CollectGiveUp(TRUE)
      BY <2>2, <3>1
    <3>2. CASE /\ Tell("ok") /\ Over /\ slots' = known /\ got' = heard /\ finish' = why
               /\ UNCHANGED <<tooled, held>>
      BY <1>t, <1>o, <2>5, <3>2
    <3> QED BY <2>5, <3>1, <3>2 DEF CollectClose
  <2>6. CASE CollectDrained
    BY <2>5, <2>6 DEF CollectDrained
  <2>7. CASE CollectCancelled
    BY <1>o, <2>7 DEF CollectCancelled
  <2>8. ASSUME NEW l \in Lines, CollectLine(l) PROVE TypeOK'
    <3>1. lines' \in 0 .. MaxLines
      BY <2>8, TurnAssumption DEF CollectLine
    <3> QED BY <1>r, <2>8, <3>1 DEF CollectLine
  <2>9. ASSUME NEW l \in Lines, CollectBody(l) PROVE TypeOK'
    <3>1. Merged(l.calls) \in [Tools -> SlotStates]
          /\ l.say \in SUBSET Parts /\ l.finish \in Finishes \cup {"none"}
      BY <1>l, MergedIsSlots
    <3> QED BY <2>5, <2>9, <3>1 DEF CollectBody
  <2> QED BY <1>4, <2>1, <2>3, <2>4, <2>6, <2>7, <2>8, <2>9 DEF CollectNext
<1>5. CASE Leave
  BY <1>5 DEF Leave
<1>6. CASE UNCHANGED vars
  BY <1>6 DEF vars
<1> QED BY <1>1, <1>2, <1>3, <1>4, <1>5, <1>6 DEF Next

LEMMA TypeAtFirst == Init => TypeOK
<1> SUFFICES ASSUME Init PROVE TypeOK
  OBVIOUS
<1>1. slots \in [Tools -> SlotStates]
  BY DEF Init, NoSlots, SlotStates
<1>2. attempt \in 1 .. Attempts /\ lines \in 0 .. MaxLines
  BY TurnAssumption DEF Init
<1>3. reports \in [1 .. Attempts -> SUBSET {"ok", "fail", "pinned"}]
  BY DEF Init
<1>4. held \in Seq(SUBSET Parts)
  BY DEF Init
<1> QED BY <1>1, <1>2, <1>3, <1>4 DEF Init, TypeOK
-----------------------------------------------------------------------------
(* The stream.  It is sound at any time; until the turn is over it has no    *)
(* final frame and was opened if anything was sent; one of an answer that is *)
(* read was opened; what is not streamed is sent as a whole.                 *)
WireInv ==
  /\ Sound(out)
  /\ ~streamed => out.block = "none" /\ (pc # "over" => out = Silent)
  /\ streamed /\ pc # "over" => Opened(out) \/ out = Silent
  /\ streamed /\ pc \in {"lines", "body"} => Opened(out)
  /\ IF pc = "over" THEN LastOnly(out) ELSE NoFinal(out)
  /\ Sent(out, "end") # {} => out.block = "none"
  /\ proto = "chat" => out.block = "none"
  /\ proto = "responses" => out.block # "thinking"
  /\ streamed /\ proto = "messages" => Nested(out) /\ (pc # "over" => InBlock(out))

\* A step of the turn: it sends more, or it goes on to the next account.
Lawful ==
  /\ WireInv' /\ pc # "over"
  /\ \/ attempt' = attempt /\ Adds(out, out', Kinds)
     \/ /\ attempt < Attempts /\ attempt' = attempt + 1 /\ pc' = "dial"
        /\ out' = out /\ ~Payload(out)

LEMMA Onward ==
  ASSUME WireInv, pc # "over", pc' \in {"lines", "body"}, UNCHANGED <<proto, streamed, attempt>>,
         Sound(out'), NEW K, Adds(out, out', K), K \cap {"end", "fail"} = {},
         streamed => Opened(out'), ~streamed => out' = out,
         proto = "chat" => out'.block = "none", proto = "responses" => out'.block # "thinking",
         streamed /\ proto = "messages" => Nested(out') /\ InBlock(out')
  PROVE  Lawful
<1>1. out \in Outs /\ out' \in Outs /\ NoFinal(out)
  BY DEF WireInv, Sound
<1>2. NoFinal(out')
  BY <1>1, StillNoFinal
<1>3. Sent(out', "end") = {}
  BY <1>2 DEF NoFinal, Final, Sent
<1>4. Adds(out, out', Kinds)
  BY <1>1, AddsAny
<1>5. ~streamed => out'.block = "none" /\ out' = Silent
  BY DEF WireInv
<1>6. WireInv'
  BY <1>2, <1>3, <1>5 DEF WireInv
<1> QED BY <1>4, <1>6 DEF Lawful

LEMMA Again ==
  ASSUME WireInv, pc # "over", attempt < Attempts, NextAccount, ~Payload(out)
  PROVE  Lawful
BY DEF WireInv, NextAccount, Lawful

LEMMA Finally ==
  ASSUME WireInv, pc # "over", Over, Sound(out'), Adds(out, out', Kinds), LastOnly(out'),
         Sent(out', "end") # {} => out'.block = "none", ~streamed => out'.block = "none",
         proto = "chat" => out'.block = "none", proto = "responses" => out'.block # "thinking",
         streamed /\ proto = "messages" => Nested(out')
  PROVE  Lawful
BY DEF WireInv, Over, Lawful

LEMMA FailsLast ==
  ASSUME WireInv, pc # "over", Over, out' = Fail(out)
  PROVE  Lawful
<1>1. out \in Outs /\ Sound(out) /\ NoFinal(out)
  BY DEF WireInv, Sound
<1>2. /\ Sound(Fail(out)) /\ Adds(out, Fail(out), Kinds) /\ LastOnly(Fail(out))
      /\ Fail(out).block = out.block /\ (Nested(out) => Nested(Fail(out)))
      /\ Sent(Fail(out), "end") = {}
  BY <1>1, Closed
<1> QED BY <1>2, Finally DEF WireInv

\* Without a frame there is no content.
LEMMA NoContent ==
  ASSUME WireInv, pc # "over", ~Opened(out)
  PROVE  out = Silent /\ ~Payload(out)
<1>1. out = Silent
  BY DEF WireInv
<1> QED BY <1>1, SilentIsSound DEF Payload, Said, Called

LEMMA StreamOpens ==
  ASSUME WireInv, streamed, Answered, out' = Open(out)
  PROVE  Lawful
<1>1. out \in Outs /\ Sound(out)
  BY DEF WireInv, Sound
<1> DEFINE p == Open(out)
<1>2. /\ Sound(p) /\ Adds(out, p, {"open"}) /\ Opened(p)
      /\ p.block = out.block /\ p.index = out.index
  BY <1>1, OpenSound
<1>3. p \in Outs
  BY <1>2 DEF Sound
<1>4. {"open"} \cap {"end", "fail"} = {} /\ {"open"} \cap {"delta", "stop"} = {}
  OBVIOUS
<1>5. pc # "over" /\ pc' \in {"lines", "body"} /\ UNCHANGED <<proto, streamed, attempt>>
  BY DEF Answered
<1>6. proto = "messages" => Nested(p) /\ InBlock(p)
  <2> SUFFICES ASSUME proto = "messages" PROVE Nested(p) /\ InBlock(p)
    OBVIOUS
  <2>1. Nested(out) /\ InBlock(out)
    BY <1>5 DEF WireInv
  <2> HIDE DEF p
  <2>2. Nested(p)
    BY <1>1, <1>2, <1>3, <1>4, <2>1, NestedKeeps
  <2>3. CASE Opened(out)
    BY <2>1, <2>2, <2>3 DEF p, Open
  <2>4. CASE ~Opened(out)
    BY <1>2, <1>5, <2>2, <2>4, NoContent, SilentIsSound DEF InBlock
  <2> QED BY <2>3, <2>4
<1>7. out' = p
  OBVIOUS
<1> HIDE DEF p
<1> QED BY <1>2, <1>4, <1>5, <1>6, <1>7, Onward DEF WireInv

\* The end of a chat stream.
ChatEnding(o, h, known, why) ==
  LET o1 == IF gone THEN o ELSE CallAll(o, Budgeted(o, ChatFlushable(known, o)))
      keep == IF Called(o1) # {} THEN <<>> ELSE h
  IN End(IF gone THEN o1 ELSE ChatSayAll(o1, keep), NormalFinish(why, Called(o1) # {}))

LEMMA ChatEnds ==
  ASSUME NEW o \in Outs, Sound(o), NoFinal(o), NEW h \in Seq(SUBSET Parts), NEW known,
         NEW why \in Finishes \cup {"none"}, NEW p, p = ChatEnding(o, h, known, why)
  PROVE  /\ Sound(p) /\ Adds(o, p, Kinds) /\ LastOnly(p) /\ p.block = o.block
         /\ Called(p) \subseteq Called(o) \cup Ready(known) \cup (Tools \ Strict)
         /\ Called(o) \subseteq Called(p) /\ Said(o) \subseteq Said(p)
         /\ Called(p) # {} => Adds(o, p, {"tool", "end"})
         /\ ~gone /\ Called(p) = {} => \A i \in DOMAIN h : h[i] \subseteq Said(p)
         /\ known = NoSlots => Called(p) = Called(o)
<1> DEFINE S == Budgeted(o, ChatFlushable(known, o))
           o1 == IF gone THEN o ELSE CallAll(o, S)
           keep == IF Called(o1) # {} THEN <<>> ELSE h
           o2 == IF gone THEN o1 ELSE ChatSayAll(o1, keep)
           reason == NormalFinish(why, Called(o1) # {})
<1>1. p = End(o2, reason)
  BY DEF ChatEnding
<1>2. S \in SUBSET Tools /\ S \subseteq (Ready(known) \cup (Tools \ Strict)) \ Called(o)
      /\ (known = NoSlots => S = {})
  <2>1. ChatFlushable(known, o) \in SUBSET Tools
    BY DEF ChatFlushable, Finishable
  <2>2. S \subseteq ChatFlushable(known, o)
    BY <2>1, Picked
  <2>3. known = NoSlots => ChatFlushable(known, o) = {}
    BY DEF ChatFlushable, Finishable, NoSlots
  <2> QED BY <2>1, <2>2, <2>3, Picked
<1> HIDE DEF S
<1>3. /\ Sound(o1) /\ o1 \in Outs /\ Adds(o, o1, {"tool"}) /\ o1.block = o.block
      /\ Called(o1) \subseteq Called(o) \cup S /\ (S = {} => o1 = o)
  <2>1. CASE gone
    BY <2>1 DEF Adds, Outs
  <2>2. CASE ~gone
    <3>1. S \cap Called(o) = {}
      BY <1>2
    <3> QED BY <1>2, <2>2, <3>1, CallsSent
  <2> QED BY <2>1, <2>2
<1>4. reason \in Whats
  BY DEF NormalFinish, Finishes, Whats
<1> HIDE DEF o1, reason
<1>5. /\ Sound(o2) /\ o2 \in Outs /\ Adds(o1, o2, {"delta"}) /\ Said(o1) \subseteq Said(o2)
      /\ o2.block = o1.block /\ (Called(o1) # {} => o2 = o1)
      /\ (~gone /\ Called(o1) = {} => \A i \in DOMAIN h : h[i] \subseteq Said(o2))
  <2>1. CASE gone
    BY <1>3, <2>1 DEF Adds, Outs
  <2>2. CASE ~gone
    <3>1. keep \in Seq(SUBSET Parts)
      OBVIOUS
    <3>2. o2 = ChatSayAll(o1, keep)
      BY <2>2
    <3>3. (Called(o1) # {} => keep = <<>>) /\ (Called(o1) = {} => keep = h)
      OBVIOUS
    <3> HIDE DEF keep, o2
    <3> QED BY <1>3, <3>1, <3>2, <3>3, ChatSaysAll DEF SaysOn, Sound
  <2> QED BY <2>1, <2>2
<1> HIDE DEF o2
<1>6. Adds(o, o2, {"tool"} \cup {"delta"})
  BY <1>3, <1>5, AddsMore
<1>7. NoFinal(o2)
  <2>1. ({"tool"} \cup {"delta"}) \cap {"end", "fail"} = {}
    OBVIOUS
  <2> QED BY <1>5, <1>6, <2>1, StillNoFinal
<1>8. /\ Sound(p) /\ Adds(o2, p, Kinds) /\ LastOnly(p) /\ p.block = o2.block
      /\ Called(p) = Called(o2) /\ Said(p) = Said(o2)
  BY <1>1, <1>4, <1>5, <1>7, Closed
<1>9. Adds(o2, p, {"end"})
  BY <1>1, <1>4, <1>5, EndSound
<1>10. p \in Outs
  BY <1>8 DEF Sound
<1>11. Adds(o, p, Kinds)
  <2>1. ({"tool"} \cup {"delta"}) \cup Kinds = Kinds
    BY DEF Kinds
  <2> QED BY <1>5, <1>6, <1>8, <1>10, <2>1, AddsMore
<1>12. Called(o2) = Called(o1) /\ Said(o1) = Said(o) /\ Called(o) \subseteq Called(o1)
  BY <1>3, <1>5, AddsKeeps DEF Called, Said
<1>13. Called(p) # {} => Adds(o, p, {"tool", "end"})
  <2>1. Adds(o1, p, {"end"}) => Adds(o, p, {"tool"} \cup {"end"})
    BY <1>3, <1>10, AddsMore
  <2>2. {"tool"} \cup {"end"} = {"tool", "end"}
    OBVIOUS
  <2> QED BY <1>5, <1>8, <1>9, <1>12, <2>1, <2>2
<1>14. known = NoSlots => Called(p) = Called(o)
  BY <1>2, <1>3, <1>8, <1>12
<1> QED BY <1>2, <1>3, <1>5, <1>8, <1>11, <1>12, <1>13, <1>14

\* Lines and bodies of a chat answer.
ChatFed(l, known) ==
  LET ready == IF DOMAIN l.calls = {} THEN {} ELSE Budgeted(out, Deliverable(known, out))
  IN CallAll(IF tooled \/ DOMAIN l.calls # {} THEN out ELSE ChatSay(out, l.say), ready)

LEMMA ChatFeeds ==
  ASSUME out \in Outs, Sound(out), NEW l \in Lines, NEW known, NEW p, p = ChatFed(l, known)
  PROVE  /\ Sound(p) /\ p \in Outs /\ Adds(out, p, {"delta", "tool"}) /\ p.block = out.block
         /\ Called(p) \subseteq Called(out) \cup Ready(known)
         /\ tooled \/ DOMAIN l.calls # {} => Adds(out, p, {"tool"})
         /\ ~(tooled \/ DOMAIN l.calls # {}) =>
              Adds(out, p, {"delta"}) /\ Said(p) = Said(out) \cup l.say
         /\ DOMAIN l.calls # {} /\ Budgeted(out, Deliverable(known, out)) # {} => Called(p) # {}
<1> DEFINE won == tooled \/ DOMAIN l.calls # {}
           S == IF DOMAIN l.calls = {} THEN {} ELSE Budgeted(out, Deliverable(known, out))
           o == IF won THEN out ELSE ChatSay(out, l.say)
<1>1. p = CallAll(o, S)
  BY DEF ChatFed
<1>2. /\ Sound(o) /\ o \in Outs /\ Adds(out, o, {"delta"}) /\ o.block = out.block
      /\ (won => o = out) /\ (~won => Said(o) = Said(out) \cup l.say) /\ Called(o) = Called(out)
  <2>1. CASE won
    BY <2>1 DEF Adds, Outs
  <2>2. CASE ~won
    <3> DEFINE q == ChatSay(out, l.say)
    <3>1. l.say \in SUBSET Parts
      BY TurnAssumption
    <3>2. SaysOn(out, q) /\ Said(q) = Said(out) \cup l.say
      BY <3>1, ChatSays
    <3>3. o = q
      BY <2>2
    <3> HIDE DEF q, o
    <3>4. q \in Outs
      BY <3>2 DEF SaysOn, Sound
    <3>5. Called(q) = Called(out)
      BY <3>2, <3>4, AddsKeeps DEF SaysOn, Called
    <3> QED BY <2>2, <3>2, <3>3, <3>4, <3>5 DEF SaysOn
  <2> QED BY <2>1, <2>2
<1>3. /\ S \in SUBSET Tools /\ S \subseteq Ready(known) \ Called(out) /\ (~won => S = {})
      /\ (DOMAIN l.calls # {} => S = Budgeted(out, Deliverable(known, out)))
  <2>1. Deliverable(known, out) \in SUBSET Tools
    BY DEF Deliverable
  <2>2. Budgeted(out, Deliverable(known, out)) \subseteq Deliverable(known, out)
    BY <2>1, Picked
  <2> QED BY <2>1, <2>2, Picked
<1> HIDE DEF o, S
<1>4. /\ Sound(p) /\ p \in Outs /\ Adds(o, p, {"tool"}) /\ p.block = o.block
      /\ Called(p) \subseteq Called(o) \cup S /\ (S = {} => p = o) /\ (S # {} => Called(p) # {})
  <2>1. S \cap Called(o) = {}
    BY <1>2, <1>3
  <2> QED BY <1>1, <1>2, <1>3, <2>1, CallsSent
<1>5. Adds(out, p, {"delta", "tool"})
  <2>1. Adds(out, p, {"delta"} \cup {"tool"})
    BY <1>2, <1>4, AddsMore
  <2>2. {"delta"} \cup {"tool"} = {"delta", "tool"}
    OBVIOUS
  <2> QED BY <2>1, <2>2
<1> QED BY <1>2, <1>3, <1>4, <1>5

ChatBodySaid(l, known) ==
  LET o == CallAll(out, Budgeted(out, ChatFlushable(known, out)))
  IN IF DOMAIN l.calls = {} THEN ChatSay(o, l.say) ELSE o

LEMMA ChatBodySays ==
  ASSUME out \in Outs, Sound(out), NoFinal(out), NEW l \in Lines, NEW known,
         NEW p, p = ChatBodySaid(l, known)
  PROVE  /\ Sound(p) /\ p \in Outs /\ NoFinal(p) /\ Adds(out, p, {"tool", "delta"})
         /\ p.block = out.block
         /\ Called(p) \subseteq Called(out) \cup Ready(known) \cup (Tools \ Strict)
         /\ DOMAIN l.calls = {} => l.say \subseteq Said(p)
         /\ DOMAIN l.calls # {} => Said(p) = Said(out)
         /\ known = NoSlots => Called(p) = Called(out)
<1> DEFINE S == Budgeted(out, ChatFlushable(known, out))
           o == CallAll(out, S)
<1>1. p = IF DOMAIN l.calls = {} THEN ChatSay(o, l.say) ELSE o
  BY DEF ChatBodySaid
<1>2. S \in SUBSET Tools /\ S \subseteq (Ready(known) \cup (Tools \ Strict)) \ Called(out)
      /\ (known = NoSlots => S = {})
  <2>1. ChatFlushable(known, out) \in SUBSET Tools
    BY DEF ChatFlushable, Finishable
  <2>2. S \subseteq ChatFlushable(known, out)
    BY <2>1, Picked
  <2>3. known = NoSlots => ChatFlushable(known, out) = {}
    BY DEF ChatFlushable, Finishable, NoSlots
  <2> QED BY <2>1, <2>2, <2>3, Picked
<1> HIDE DEF S
<1>3. /\ Sound(o) /\ o \in Outs /\ Adds(out, o, {"tool"}) /\ o.block = out.block
      /\ Called(o) \subseteq Called(out) \cup S /\ (S = {} => o = out)
  <2>1. S \cap Called(out) = {}
    BY <1>2
  <2> QED BY <1>2, <2>1, CallsSent
<1> HIDE DEF o
<1>4. /\ Sound(p) /\ p \in Outs /\ Adds(o, p, {"delta"}) /\ p.block = o.block
      /\ (DOMAIN l.calls = {} => l.say \subseteq Said(p)) /\ (DOMAIN l.calls # {} => p = o)
  <2>1. CASE DOMAIN l.calls = {}
    <3> DEFINE q == ChatSay(o, l.say)
    <3>1. l.say \in SUBSET Parts
      BY TurnAssumption
    <3>2. SaysOn(o, q) /\ Said(q) = Said(o) \cup l.say
      BY <1>3, <3>1, ChatSays
    <3>3. p = q
      BY <1>1, <2>1
    <3> HIDE DEF q
    <3> QED BY <2>1, <3>2, <3>3 DEF SaysOn, Sound
  <2>2. CASE DOMAIN l.calls # {}
    BY <1>1, <1>3, <2>2 DEF Adds, Outs
  <2> QED BY <2>1, <2>2
<1>5. Adds(out, p, {"tool", "delta"})
  <2>1. Adds(out, p, {"tool"} \cup {"delta"})
    BY <1>3, <1>4, AddsMore
  <2>2. {"tool"} \cup {"delta"} = {"tool", "delta"}
    OBVIOUS
  <2> QED BY <2>1, <2>2
<1>6. NoFinal(p)
  <2>1. {"tool", "delta"} \cap {"end", "fail"} = {}
    OBVIOUS
  <2> QED BY <1>4, <1>5, <2>1, StillNoFinal
<1>7. Called(p) = Called(o) /\ Said(o) = Said(out)
  BY <1>3, <1>4, AddsKeeps DEF Called, Said
<1> QED BY <1>2, <1>3, <1>4, <1>5, <1>6, <1>7

LEMMA ChatLawful == TypeOK /\ WireInv /\ ChatNext => Lawful
<1> SUFFICES ASSUME TypeOK, WireInv, ChatNext PROVE Lawful
  OBVIOUS
<1>i. out \in Outs /\ Sound(out) /\ held \in Seq(SUBSET Parts) /\ finish \in Finishes \cup {"none"}
      /\ (pc # "over" => NoFinal(out))
  BY DEF TypeOK, WireInv, Sound
<1>1. CASE ChatAnswered
  BY <1>1, StreamOpens DEF ChatAnswered, Speaks
<1>2. ASSUME NEW mayRetry, ChatGiveUp(mayRetry), pc # "over" PROVE Lawful
  BY <1>2, Again, FailsLast DEF ChatGiveUp
<1>3. CASE ChatRefused
  BY <1>2, <1>3 DEF ChatRefused
<1>4. CASE ChatBroken
  BY <1>2, <1>4 DEF ChatBroken
<1>5. ASSUME NEW o \in Outs, Sound(o), NoFinal(o), NEW J, Adds(out, o, J), o.block = out.block,
             NEW h \in Seq(SUBSET Parts), NEW known, NEW heard, NEW why \in Finishes \cup {"none"},
             ChatClose(o, h, known, heard, why), pc # "over", Speaks("chat")
      PROVE  Lawful
  <2>1. CASE ChatGiveUp(TRUE)
    BY <1>2, <1>5, <2>1
  <2>2. CASE Over /\ out' = ChatEnding(o, h, known, why)
    <3> DEFINE p == ChatEnding(o, h, known, why)
    <3>1. Sound(p) /\ Adds(o, p, Kinds) /\ LastOnly(p) /\ p.block = o.block
      BY <1>5, ChatEnds
    <3>2. out' = p
      BY <2>2
    <3> HIDE DEF p
    <3>3. Adds(out, p, J \cup Kinds)
      BY <1>i, <1>5, <3>1, AddsMore DEF Sound
    <3>4. Adds(out, p, Kinds)
      BY <1>i, <3>1, <3>3, AddsAny DEF Sound
    <3>5. streamed /\ proto = "chat" /\ p.block = "none"
      BY <1>5, <3>1 DEF Speaks, WireInv
    <3> QED BY <1>5, <2>2, <3>1, <3>2, <3>4, <3>5, Finally
  <2> QED BY <1>5, <2>1, <2>2 DEF ChatClose, ChatEnding
<1>6. CASE ChatDrained
  <2>1. Adds(out, out, {})
    BY <1>i DEF Adds, Outs
  <2>2. pc # "over" /\ Speaks("chat") /\ ChatClose(out, held, slots, got, finish)
    BY <1>6 DEF ChatDrained
  <2> QED BY <1>i, <1>5, <2>1, <2>2
<1>7. CASE ChatCancelled
  <2>1. pc # "over" /\ Over /\ streamed /\ proto = "chat" /\ out.block = "none"
    BY <1>7 DEF ChatCancelled, Speaks, WireInv
  <2>2. CASE Opened(out)
    <3> DEFINE p == End(out, "stop")
    <3>1. "stop" \in Whats
      BY DEF Whats, Finishes
    <3>2. Sound(p) /\ Adds(out, p, Kinds) /\ LastOnly(p) /\ p.block = out.block
      BY <1>i, <2>1, <3>1, Closed
    <3>3. out' = p
      BY <1>7, <2>2 DEF ChatCancelled
    <3> HIDE DEF p
    <3> QED BY <2>1, <3>2, <3>3, Finally
  <2>3. CASE ~Opened(out)
    <3>1. out' = out /\ out = Silent
      BY <1>7, <2>1, <2>3, NoContent DEF ChatCancelled
    <3> QED BY <1>i, <2>1, <3>1, SilentIsSound, Finally
  <2> QED BY <2>2, <2>3
<1>8. ASSUME NEW l \in Lines, ChatLine(l) PROVE Lawful
  <2> DEFINE p == ChatFed(l, slots')
  <2>1. out' = p
    <3> DEFINE S == IF DOMAIN l.calls = {} THEN {} ELSE Budgeted(out, Deliverable(slots', out))
    <3>1. out' = CallAll(IF tooled' THEN out ELSE ChatSay(out, l.say), S)
      BY <1>8 DEF ChatLine
    <3>2. tooled' = (tooled \/ DOMAIN l.calls # {})
      BY <1>8 DEF ChatLine
    <3> QED BY <3>1, <3>2 DEF ChatFed
  <2>2. Sound(p) /\ p \in Outs /\ Adds(out, p, {"delta", "tool"}) /\ p.block = out.block
    BY <1>i, ChatFeeds
  <2> HIDE DEF p
  <2>3. pc = "lines" /\ pc' = pc /\ streamed /\ proto = "chat" /\ UNCHANGED <<proto, streamed, attempt>>
    BY <1>8 DEF ChatLine, Speaks
  <2>4. {"delta", "tool"} \cap {"end", "fail"} = {} /\ Opened(out) /\ out.block = "none"
    BY <2>3 DEF WireInv
  <2>5. Opened(p)
    BY <1>i, <2>2, <2>4, AddsKeeps DEF Opened
  <2> QED BY <2>1, <2>2, <2>3, <2>4, <2>5, Onward
<1>9. ASSUME NEW l \in Lines, ChatBody(l) PROVE Lawful
  <2> DEFINE known == Merged(l.calls)
             p == ChatBodySaid(l, known)
             why == IF l.finish = "none" THEN "stop" ELSE l.finish
  <2>1. pc # "over" /\ Speaks("chat") /\ ChatClose(p, <<>>, known, l.say, why)
    BY <1>9, Zenon DEF ChatBody, ChatBodySaid
  <2>2. Sound(p) /\ p \in Outs /\ NoFinal(p) /\ Adds(out, p, {"tool", "delta"}) /\ p.block = out.block
    BY <1>i, <2>1, ChatBodySays
  <2>3. why \in Finishes \cup {"none"} /\ <<>> \in Seq(SUBSET Parts)
    BY TurnAssumption DEF Finishes
  <2> HIDE DEF p, known, why
  <2> QED BY <1>5, <2>1, <2>2, <2>3
<1> QED BY <1>1, <1>3, <1>4, <1>6, <1>7, <1>8, <1>9 DEF ChatNext

LEMMA MsgLawful == TypeOK /\ WireInv /\ MsgNext => Lawful
<1> SUFFICES ASSUME TypeOK, WireInv, MsgNext PROVE Lawful
  OBVIOUS
<1>i. /\ out \in Outs /\ Sound(out) /\ held \in Seq(SUBSET Parts) /\ finish \in Finishes \cup {"none"}
      /\ proto \in Protocols /\ (pc # "over" => NoFinal(out))
      /\ (streamed /\ proto = "messages" /\ pc # "over" => Writes(out))
  BY DEF TypeOK, WireInv, Sound, Writes
<1>1. CASE MsgAnswered
  BY <1>1, StreamOpens DEF MsgAnswered, Speaks
<1>2. ASSUME NEW mayRetry, MsgGiveUp(mayRetry), pc # "over" PROVE Lawful
  BY <1>2, Again, FailsLast, NoContent DEF MsgGiveUp
<1>3. CASE MsgRefused
  BY <1>2, <1>3 DEF MsgRefused
<1>4. CASE MsgBroken
  BY <1>2, <1>4 DEF MsgBroken
<1>5. ASSUME NEW o \in Outs, Writes(o), NoFinal(o), NEW J, Adds(out, o, J),
             NEW h \in Seq(SUBSET Parts), NEW known, NEW heard, NEW calls,
             NEW why \in Finishes \cup {"none"},
             MsgClose(o, h, known, heard, calls, why), pc # "over", Speaks("messages")
      PROVE  Lawful
  <2>1. CASE MsgGiveUp(TRUE)
    BY <1>2, <1>5, <2>1
  <2>2. CASE Over /\ out' = FinishStream(o, h, known, why)
    <3> DEFINE p == FinishStream(o, h, known, why)
    <3>1. Sound(p) /\ Nested(p) /\ p.block = "none" /\ Adds(o, p, Kinds) /\ LastOnly(p)
      BY <1>i, <1>5, FinishWrites
    <3>2. out' = p
      BY <2>2
    <3> HIDE DEF p
    <3>3. Adds(out, p, J \cup Kinds)
      BY <1>i, <1>5, <3>1, AddsMore DEF Sound
    <3>4. Adds(out, p, Kinds)
      BY <1>i, <3>1, <3>3, AddsAny DEF Sound
    <3> QED BY <1>5, <2>2, <3>1, <3>2, <3>4, Finally
  <2> QED BY <1>5, <2>1, <2>2 DEF MsgClose
<1>6. CASE MsgDrained
  <2>1. Adds(out, out, {})
    BY <1>i DEF Adds, Outs
  <2>2. pc # "over" /\ Speaks("messages")
        /\ MsgClose(out, held, slots, got, {t \in Tools : slots[t] # "unseen"}, finish)
    BY <1>6 DEF MsgDrained
  <2>3. Writes(out)
    BY <1>i, <2>2 DEF Speaks
  <2> QED BY <1>i, <1>5, <2>1, <2>2, <2>3
<1>7. CASE MsgCancelled
  <2>1. pc # "over" /\ Over /\ streamed /\ proto = "messages"
    BY <1>7 DEF MsgCancelled, Speaks
  <2>2. CASE Opened(out)
    BY <1>7, <2>1, <2>2, FailsLast DEF MsgCancelled
  <2>3. CASE ~Opened(out)
    <3>1. out' = out /\ out = Silent
      BY <1>7, <2>1, <2>3, NoContent DEF MsgCancelled
    <3> QED BY <1>i, <2>1, <3>1, SilentIsSound, Finally
  <2> QED BY <2>2, <2>3
<1>8. ASSUME NEW l \in Lines, MsgLine(l) PROVE Lawful
  <2> DEFINE r == Feed(out, held, l.say, slots', DOMAIN l.calls)
  <2>1. out' = r.out
    BY <1>8 DEF MsgLine
  <2>2. pc = "lines" /\ pc' = pc /\ streamed /\ proto = "messages" /\ UNCHANGED <<proto, streamed, attempt>>
    BY <1>8 DEF MsgLine, Speaks
  <2>3. l.say \in SUBSET Parts
    BY TurnAssumption
  <2>4. Writes(r.out) /\ Adds(out, r.out, {"stop", "start", "delta", "tool"})
    <3>1. Writes(out) /\ r = Feed(out, held, l.say, slots', DOMAIN l.calls)
      BY <1>i, <2>2
    <3> HIDE DEF r
    <3>2. Fed(out, held, l.say, slots', DOMAIN l.calls, r)
      BY <1>i, <2>3, <3>1, FeedWrites
    <3> QED BY <3>2 DEF Fed
  <2> HIDE DEF r
  <2>5. {"stop", "start", "delta", "tool"} \cap {"end", "fail"} = {} /\ Opened(out)
    BY <2>2 DEF WireInv
  <2>6. Opened(r.out)
    BY <1>i, <2>4, <2>5, AddsKeeps DEF Opened, Writes, Sound
  <2> QED BY <2>1, <2>2, <2>4, <2>5, <2>6, Onward DEF Writes
<1>9. ASSUME NEW l \in Lines, MsgBody(l) PROVE Lawful
  <2> DEFINE known == Merged(l.calls)
             r == Feed(out, held, l.say, known, DOMAIN l.calls)
  <2>1. pc # "over" /\ Speaks("messages")
        /\ MsgClose(r.out, r.held, known, l.say, DOMAIN l.calls, l.finish)
    BY <1>9, Zenon DEF MsgBody
  <2>2. l.say \in SUBSET Parts /\ l.finish \in Finishes \cup {"none"}
    BY TurnAssumption
  <2>3. /\ Writes(r.out) /\ Adds(out, r.out, {"stop", "start", "delta", "tool"})
        /\ (r.held = held \/ r.held = <<>> \/ r.held = Append(held, l.say))
    <3>1. Writes(out) /\ r = Feed(out, held, l.say, known, DOMAIN l.calls)
      BY <1>i, <2>1 DEF Speaks
    <3> HIDE DEF r, known
    <3>2. Fed(out, held, l.say, known, DOMAIN l.calls, r)
      BY <1>i, <2>2, <3>1, FeedWrites
    <3> QED BY <3>2 DEF Fed
  <2> HIDE DEF r, known
  <2>4. r.held \in Seq(SUBSET Parts) /\ r.out \in Outs
    <3>1. \A s \in SUBSET Parts : <<>> \in Seq(SUBSET Parts) /\ Append(held, s) \in Seq(SUBSET Parts)
      BY <1>i
    <3>2. r.held \in Seq(SUBSET Parts)
      BY <1>i, <2>2, <2>3, <3>1
    <3> QED BY <2>3, <3>2 DEF Writes, Sound
  <2>5. {"stop", "start", "delta", "tool"} \cap {"end", "fail"} = {}
    OBVIOUS
  <2>6. NoFinal(r.out)
    BY <1>i, <2>1, <2>3, <2>4, <2>5, StillNoFinal
  <2> QED BY <1>5, <2>1, <2>2, <2>3, <2>4, <2>6
<1> QED BY <1>1, <1>3, <1>4, <1>6, <1>7, <1>8, <1>9 DEF MsgNext

\* Lines and bodies of a Responses answer.
LEMMA RespFeeds ==
  ASSUME out \in Outs, Sound(out), out.block \in {"none", "text"}, NEW say, NEW known, NEW calls,
         NEW p, p = RespCall(RespSay(out, say), known, calls)
  PROVE  /\ Sound(p) /\ p \in Outs /\ Adds(out, p, {"start", "delta", "tool"})
         /\ p.block \in {"none", "text"} /\ ("text" \in say => "text" \in Said(p))
<1> DEFINE o == RespSay(out, say)
<1>1. /\ Sound(o) /\ o.block \in {"none", "text"} /\ Adds(out, o, {"start", "delta"})
      /\ ("text" \in say => "text" \in Said(o))
  BY RespSays
<1>2. o \in Outs
  BY <1>1 DEF Sound
<1>3. p = RespCall(o, known, calls)
  OBVIOUS
<1> HIDE DEF o
<1>4. Sound(p) /\ p \in Outs /\ Adds(o, p, {"tool"}) /\ p.block = o.block
  <2>1. CASE calls = {}
    BY <1>1, <1>2, <1>3, <2>1 DEF RespCall, Adds, Outs
  <2>2. CASE calls # {}
    <3> DEFINE S == Lowest(Deliverable(known, o))
    <3>1. S \in SUBSET Tools /\ S \cap Called(o) = {}
      BY DEF Lowest, Deliverable
    <3>2. p = CallAll(o, S)
      BY <1>3, <2>2 DEF RespCall
    <3> HIDE DEF S
    <3> QED BY <1>1, <1>2, <3>1, <3>2, CallsSent
  <2> QED BY <2>1, <2>2
<1>5. Adds(out, p, {"start", "delta"} \cup {"tool"})
  BY <1>1, <1>2, <1>4, AddsMore
<1>6. {"start", "delta"} \cup {"tool"} = {"start", "delta", "tool"}
  OBVIOUS
<1>7. Said(o) \subseteq Said(p)
  BY <1>2, <1>4, AddsKeeps DEF Said
<1> QED BY <1>1, <1>4, <1>5, <1>6, <1>7

LEMMA RespLawful == TypeOK /\ WireInv /\ RespNext => Lawful
<1> SUFFICES ASSUME TypeOK, WireInv, RespNext PROVE Lawful
  OBVIOUS
<1>i. /\ out \in Outs /\ Sound(out) /\ (pc # "over" => NoFinal(out))
      /\ (proto = "responses" => out.block \in {"none", "text"})
  BY DEF TypeOK, WireInv, Sound, Outs, Parts
<1>1. CASE RespAnswered
  BY <1>1, StreamOpens DEF RespAnswered, Speaks
<1>2. ASSUME NEW mayRetry, RespGiveUp(mayRetry), pc # "over", Speaks("responses") PROVE Lawful
  <2>1. CASE attempt < Attempts /\ NextAccount /\ ~Opened(out)
    BY <1>2, <2>1, Again, NoContent
  <2>2. CASE Over /\ out' = Fail(Open(out))
    <3> DEFINE o == Open(out)
               p == Fail(o)
    <3>1. Sound(o) /\ Adds(out, o, {"open"}) /\ o.block = out.block
      BY <1>i, OpenSound
    <3>2. {"open"} \cap {"end", "fail"} = {} /\ o \in Outs
      BY <3>1 DEF Sound
    <3> HIDE DEF o
    <3>3. NoFinal(o)
      BY <1>i, <1>2, <3>1, <3>2, StillNoFinal
    <3>4. Sound(p) /\ Adds(o, p, Kinds) /\ LastOnly(p) /\ p.block = o.block /\ Sent(p, "end") = {}
      BY <3>1, <3>2, <3>3, Closed
    <3>5. out' = p /\ p \in Outs
      BY <2>2, <3>4 DEF o, Sound
    <3> HIDE DEF p
    <3>6. Adds(out, p, {"open"} \cup Kinds)
      BY <1>i, <3>1, <3>2, <3>4, <3>5, AddsMore
    <3>7. Adds(out, p, Kinds)
      BY <1>i, <3>5, <3>6, AddsAny
    <3>8. streamed /\ proto = "responses" /\ p.block # "thinking"
      BY <1>2, <3>1, <3>4 DEF Speaks, WireInv
    <3> QED BY <1>2, <2>2, <3>4, <3>5, <3>7, <3>8, Finally
  <2> QED BY <1>2, <2>1, <2>2 DEF RespGiveUp
<1>3. CASE RespRefused
  BY <1>2, <1>3 DEF RespRefused
<1>4. CASE RespBroken
  BY <1>2, <1>4 DEF RespBroken
<1>5. ASSUME NEW o \in Outs, Sound(o), NoFinal(o), NEW J, Adds(out, o, J),
             o.block \in {"none", "text"}, NEW known, NEW heard, NEW why,
             RespClose(o, known, heard, why), pc # "over", Speaks("responses")
      PROVE  Lawful
  <2> DEFINE q == CompleteStream(o, known)
  <2>1. Sound(q) /\ q.block = "none" /\ Adds(o, q, Kinds) /\ LastOnly(q)
    BY <1>5, CompleteSound
  <2>2. /\ Sound(Fail(o)) /\ Fail(o).block = o.block /\ Adds(o, Fail(o), Kinds)
        /\ LastOnly(Fail(o)) /\ Sent(Fail(o), "end") = {}
    BY <1>5, Closed
  <2>3. out' = q \/ out' = Fail(o)
    BY <1>5 DEF RespClose
  <2> HIDE DEF q
  <2>4. /\ Sound(out') /\ Adds(o, out', Kinds) /\ LastOnly(out') /\ out'.block # "thinking"
        /\ (Sent(out', "end") # {} => out'.block = "none")
    BY <1>5, <2>1, <2>2, <2>3
  <2>5. Adds(out, out', J \cup Kinds)
    BY <1>i, <1>5, <2>4, AddsMore DEF Sound
  <2>6. Adds(out, out', Kinds)
    BY <1>i, <2>4, <2>5, AddsAny DEF Sound
  <2>7. streamed /\ proto = "responses" /\ Over
    BY <1>5 DEF Speaks, RespClose
  <2> QED BY <1>5, <2>4, <2>6, <2>7, Finally
<1>6. CASE RespDrained
  <2>1. Adds(out, out, {})
    BY <1>i DEF Adds, Outs
  <2>2. pc # "over" /\ Speaks("responses") /\ RespClose(out, slots, got, finish)
    BY <1>6 DEF RespDrained
  <2> QED BY <1>i, <1>5, <2>1, <2>2 DEF Speaks
<1>7. CASE RespCancelled
  <2>1. pc # "over" /\ Over /\ streamed /\ proto = "responses"
    BY <1>7 DEF RespCancelled, Speaks
  <2>2. CASE Opened(out)
    BY <1>7, <2>1, <2>2, FailsLast DEF RespCancelled
  <2>3. CASE ~Opened(out)
    <3>1. out' = out /\ out = Silent
      BY <1>7, <2>1, <2>3, NoContent DEF RespCancelled
    <3> QED BY <1>i, <2>1, <3>1, SilentIsSound, Finally
  <2> QED BY <2>2, <2>3
<1>8. ASSUME NEW l \in Lines, RespLine(l) PROVE Lawful
  <2> DEFINE p == RespCall(RespSay(out, l.say), slots', DOMAIN l.calls)
  <2>1. out' = p
    BY <1>8 DEF RespLine
  <2>2. pc = "lines" /\ pc' = pc /\ streamed /\ proto = "responses" /\ UNCHANGED <<proto, streamed, attempt>>
    BY <1>8 DEF RespLine, Speaks
  <2>3. /\ Sound(p) /\ p \in Outs /\ Adds(out, p, {"start", "delta", "tool"})
        /\ p.block \in {"none", "text"}
    BY <1>i, <2>2, RespFeeds
  <2> HIDE DEF p
  <2>4. {"start", "delta", "tool"} \cap {"end", "fail"} = {} /\ Opened(out)
    BY <2>2 DEF WireInv
  <2>5. Opened(p)
    BY <1>i, <2>3, <2>4, AddsKeeps DEF Opened
  <2> QED BY <2>1, <2>2, <2>3, <2>4, <2>5, Onward
<1>9. ASSUME NEW l \in Lines, RespBody(l) PROVE Lawful
  <2> DEFINE known == Merged(l.calls)
             p == RespCall(RespSay(out, l.say), known, DOMAIN l.calls)
  <2>1. pc # "over" /\ Speaks("responses") /\ RespClose(p, known, l.say, l.finish)
    BY <1>9, Zenon DEF RespBody
  <2>2. /\ Sound(p) /\ p \in Outs /\ Adds(out, p, {"start", "delta", "tool"})
        /\ p.block \in {"none", "text"}
    BY <1>i, <2>1, RespFeeds DEF Speaks
  <2> HIDE DEF p, known
  <2>3. {"start", "delta", "tool"} \cap {"end", "fail"} = {}
    OBVIOUS
  <2>4. NoFinal(p)
    BY <1>i, <2>1, <2>2, <2>3, StillNoFinal
  <2> QED BY <1>5, <2>1, <2>2, <2>4
<1> QED BY <1>1, <1>3, <1>4, <1>6, <1>7, <1>8, <1>9 DEF RespNext

LEMMA CollectLawful == TypeOK /\ WireInv /\ CollectNext => Lawful
<1> SUFFICES ASSUME TypeOK, WireInv, CollectNext PROVE Lawful
  OBVIOUS
<1>i. /\ finish \in Finishes \cup {"none"} /\ ~streamed /\ pc # "over" /\ out = Silent
  BY DEF TypeOK, WireInv, CollectNext, CollectAnswered, Answered, CollectRefused, CollectBroken,
         CollectDrained, CollectCancelled, CollectLine, CollectBody
<1>k. Adds(out, out, {}) /\ {} \cap {"end", "fail"} = {} /\ Sound(out) /\ ~Payload(out)
      /\ Adds(out, out, Kinds) /\ LastOnly(out) /\ out.block = "none"
  BY <1>i, SilentIsSound DEF Adds, Outs, Payload, Said, Called
<1>1. CASE CollectAnswered
  <2>1. pc' \in {"lines", "body"} /\ UNCHANGED <<proto, streamed, attempt, out>>
    BY <1>1 DEF CollectAnswered, Answered
  <2> QED BY <1>i, <1>k, <2>1, Onward
<1>2. ASSUME NEW mayRetry, CollectGiveUp(mayRetry) PROVE Lawful
  BY <1>i, <1>k, <1>2, Again, FailsLast DEF CollectGiveUp
<1>3. CASE CollectRefused
  BY <1>2, <1>3 DEF CollectRefused
<1>4. CASE CollectBroken
  BY <1>2, <1>4 DEF CollectBroken
<1>5. ASSUME NEW known, NEW heard, NEW why \in Finishes \cup {"none"}, NEW raw,
             CollectClose(known, heard, why, raw)
      PROVE  Lawful
  <2>1. CASE CollectGiveUp(TRUE)
    BY <1>2, <2>1
  <2>2. CASE Over /\ out' = Reply(known, heard, why, raw)
    <3> DEFINE p == Reply(known, heard, why, raw)
    <3>1. Sound(p) /\ p.block = "none" /\ LastOnly(p)
      BY <1>5, ReplySound
    <3>2. out' = p
      BY <2>2
    <3> HIDE DEF p
    <3>3. Adds(out, p, Kinds)
      BY <1>i, <3>1, SilentIsSound DEF Sound
    <3> QED BY <1>i, <2>2, <3>1, <3>2, <3>3, Finally
  <2> QED BY <1>5, <2>1, <2>2 DEF CollectClose
<1>6. CASE CollectDrained
  BY <1>i, <1>5, <1>6 DEF CollectDrained
<1>7. CASE CollectCancelled
  <2>1. Over /\ out' = out
    BY <1>7 DEF CollectCancelled
  <2> QED BY <1>i, <1>k, <2>1, Finally
<1>8. ASSUME NEW l \in Lines, CollectLine(l) PROVE Lawful
  <2>1. pc = "lines" /\ UNCHANGED <<pc, proto, streamed, attempt, out>>
    BY <1>8 DEF CollectLine
  <2> QED BY <1>i, <1>k, <2>1, Onward
<1>9. ASSUME NEW l \in Lines, CollectBody(l) PROVE Lawful
  <2>1. l.finish \in Finishes \cup {"none"}
    BY TurnAssumption
  <2> QED BY <1>5, <1>9, <2>1 DEF CollectBody
<1> QED BY <1>1, <1>3, <1>4, <1>6, <1>7, <1>8, <1>9 DEF CollectNext

\* Every step is lawful, but for the probe that settles that the client left.
LEMMA LawfulStep == TypeOK /\ WireInv /\ Next => Lawful \/ Leave
BY ChatLawful, MsgLawful, RespLawful, CollectLawful DEF Next

\* WireInv is inductive.
LEMMA WireAtFirst == Init => WireInv
<1> SUFFICES ASSUME Init PROVE WireInv
  OBVIOUS
<1>1. out = Silent /\ pc = "dial"
  BY DEF Init
<1> QED BY <1>1, SilentIsSound DEF WireInv

LEMMA WireSteps == TypeOK /\ WireInv /\ [Next]_vars => WireInv'
<1> SUFFICES ASSUME TypeOK, WireInv, [Next]_vars PROVE WireInv'
  OBVIOUS
<1>1. CASE Lawful
  BY <1>1 DEF Lawful
<1>2. CASE Leave
  <2>1. UNCHANGED <<proto, streamed, pc, out>>
    BY <1>2 DEF Leave
  <2> QED BY <2>1 DEF WireInv
<1>3. CASE UNCHANGED vars
  <2>1. UNCHANGED <<proto, streamed, pc, out>>
    BY <1>3 DEF vars
  <2> QED BY <2>1 DEF WireInv
<1> QED BY <1>1, <1>2, <1>3, LawfulStep

\* The variables keep their types, whatever the upstream sends.
THEOREM TypesHold == Spec => []TypeOK
BY TypeAtFirst, TypeSteps, PTL DEF Spec

\* The frames on the wire stay sound (WireInv), from the first to the last.
THEOREM WireAlways == Spec => []WireInv
BY TypesHold, WireAtFirst, WireSteps, PTL DEF Spec
-----------------------------------------------------------------------------
(* The contract of a turn, for every chain, every cap and every upstream.    *)

\* What was sent stays sent, as the contract says it.
LEMMA WireGrows ==
  ASSUME NEW o \in Outs, NEW p \in Outs, NEW K, Adds(o, p, K)
  PROVE  Len(o.wire) <= Len(p.wire) /\ SubSeq(p.wire, 1, Len(o.wire)) = o.wire
<1>1. o.wire \in Seq(FrameSet) /\ p.wire \in Seq(FrameSet) /\ Len(o.wire) <= Len(p.wire)
  BY DEF Outs, Adds
<1>2. \A i \in 1 .. Len(o.wire) : SubSeq(p.wire, 1, Len(o.wire))[i] = o.wire[i]
  BY <1>1 DEF Adds
<1>3. SubSeq(p.wire, 1, Len(o.wire)) \in Seq(FrameSet) /\ Len(SubSeq(p.wire, 1, Len(o.wire))) = Len(o.wire)
  BY <1>1
<1>4. SubSeq(p.wire, 1, Len(o.wire)) = o.wire
  BY <1>1, <1>2, <1>3, SeqEqual
<1> QED BY <1>1, <1>4

\* A turn starts as the contract's, and each step of it is a step of the
\* contract's or changes nothing it speaks of.
LEMMA ContractAtFirst == Init => Contract!CInit
<1> SUFFICES ASSUME Init PROVE Contract!CInit
  OBVIOUS
<1>1. out.wire = <<>>
  BY SilentIsSound DEF Init
<1> QED BY <1>1 DEF Init, Contract!CInit

LEMMA LawfulKeepsContract == TypeOK /\ WireInv /\ Lawful => Contract!CNext
<1> SUFFICES ASSUME TypeOK, WireInv, Lawful PROVE Contract!CNext
  OBVIOUS
<1>1. /\ pc # "over" /\ out \in Outs /\ out' \in Outs /\ NoFinal(out) /\ Once(out')
      /\ (IF pc' = "over" THEN LastOnly(out') ELSE NoFinal(out'))
  BY DEF WireInv, Lawful, Sound
<1>2. CASE attempt' = attempt /\ Adds(out, out', Kinds)
  <2>1. Contract!Grows
    BY <1>1, <1>2, WireGrows DEF Contract!Grows
  <2>2. Contract!CallsOnce(out'.wire)
    BY <1>1 DEF Once
  <2>3. CASE pc' = "over"
    <3>1. \/ out'.wire = <<>>
          \/ /\ Contract!Final(out'.wire[Len(out'.wire)])
             /\ \A i \in 1 .. Len(out'.wire) - 1 : ~Contract!Final(out'.wire[i])
      BY <1>1, <2>3 DEF LastOnly, Contract!Final, Final
    <3>2. Contract!Conclude
      BY <1>1, <1>2, <2>1, <2>2, <2>3, <3>1 DEF Contract!Conclude
    <3> QED BY <3>2 DEF Contract!CNext
  <2>4. CASE pc' # "over"
    <3>1. ~Contract!Has(out'.wire, Contract!Final)
      BY <1>1, <2>4 DEF NoFinal, Contract!Has, Contract!Final, Final
    <3>2. Contract!Deliver
      BY <1>1, <1>2, <2>1, <2>2, <2>4, <3>1 DEF Contract!Deliver
    <3> QED BY <3>2 DEF Contract!CNext
  <2> QED BY <2>3, <2>4
<1>3. CASE attempt < Attempts /\ attempt' = attempt + 1 /\ pc' = "dial" /\ out' = out /\ ~Payload(out)
  <2>1. ~Contract!Has(out.wire, Contract!Content)
    BY <1>3 DEF Payload, Said, Called, Sent, Contract!Has, Contract!Content
  <2>2. Contract!Retry
    BY <1>1, <1>3, <2>1 DEF Contract!Retry
  <2> QED BY <2>2 DEF Contract!CNext
<1> QED BY <1>2, <1>3 DEF Lawful

LEMMA ContractSteps == TypeOK /\ WireInv /\ [Next]_vars => [Contract!CNext]_(Contract!cvars)
<1> SUFFICES ASSUME TypeOK, WireInv, [Next]_vars PROVE [Contract!CNext]_(Contract!cvars)
  OBVIOUS
<1>1. CASE Lawful
  BY <1>1, LawfulKeepsContract
<1>2. CASE Leave
  BY <1>2 DEF Leave, Contract!cvars
<1>3. CASE UNCHANGED vars
  BY <1>3 DEF vars, Contract!cvars
<1> QED BY <1>1, <1>2, <1>3, LawfulStep

\* Whatever the upstream answers, no protocol asks another account once the
\* client has content, repeats a call, takes back what it sent, or sends
\* anything after the frame that ends the turn.
THEOREM TurnsKeepContract == Spec => ImplementsContract
BY TypesHold, WireAlways, ContractAtFirst, ContractSteps, PTL
   DEF Spec, ImplementsContract, Contract!CSpec

LEMMA SoundNests == WireInv => FramesNest
<1> SUFFICES ASSUME WireInv, streamed PROVE FramesNest
  BY DEF FramesNest
<1>1. Numbered = Nums(out) /\ Wire = out.wire
  BY DEF Numbered, Nums, Wire
<1>2. Counted(out) /\ Balanced(out)
  BY DEF WireInv, Sound
<1>3. \A i \in Numbered : Wire[i].n = Cardinality({j \in Numbered : j < i})
  BY <1>1, <1>2 DEF Counted
<1>4. proto = "messages" => Nested(out)
  BY DEF WireInv
<1>5. Sent(out, "end") # {} => Sent(out, "start") = Sent(out, "stop")
  BY <1>2 DEF WireInv, Balanced
<1> QED BY <1>1, <1>3, <1>4, <1>5 DEF FramesNest, Nested, Wire

\* Blocks and calls are numbered without gaps, a delta belongs to the open
\* block, and a stream that ends well leaves none open.
THEOREM FramesAlwaysNest == Spec => []FramesNest
BY WireAlways, SoundNests, PTL
-----------------------------------------------------------------------------
(* What the pool hears of every account.                                     *)

LEMMA NoPayload ==
  ASSUME NEW o \in Outs, NEW p \in Outs, NEW K, Adds(o, p, K), K \cap {"delta", "tool"} = {}
  PROVE  Payload(p) <=> Payload(o)
<1>1. "delta" \notin K /\ "tool" \notin K
  OBVIOUS
<1>2. Sent(p, "delta") = Sent(o, "delta") /\ Sent(p, "tool") = Sent(o, "tool")
  BY <1>1, AddsKeeps
<1> QED BY <1>2 DEF Payload, Said, Called

\* The frames that end a stream, and the one that opens it, are no content.
LEMMA FinalsAreNoPayload ==
  ASSUME NEW o \in Outs, Sound(o)
  PROVE  /\ Payload(Open(o)) <=> Payload(o)
         /\ Payload(Fail(o)) <=> Payload(o)
         /\ \A why \in Whats : Payload(End(o, why)) <=> Payload(o)
<1>1. Open(o) \in Outs /\ Fail(o) \in Outs /\ Adds(o, Open(o), {"open"}) /\ Adds(o, Fail(o), {"fail"})
  BY OpenSound, FailSound DEF Sound
<1>2. \A why \in Whats : End(o, why) \in Outs /\ Adds(o, End(o, why), {"end"})
  BY EndSound DEF Sound
<1>3. /\ {"open"} \cap {"delta", "tool"} = {} /\ {"fail"} \cap {"delta", "tool"} = {}
      /\ {"end"} \cap {"delta", "tool"} = {}
  OBVIOUS
<1>4. (Payload(Open(o)) <=> Payload(o)) /\ (Payload(Fail(o)) <=> Payload(o))
  BY <1>1, <1>3, NoPayload
<1> QED BY <1>2, <1>3, <1>4, NoPayload

\* The pool was told what the step requires.
Told ==
  \/ Tell("ok") /\ attempt' = attempt
  \/ Tell("fail") /\ (attempt' = attempt => (Payload(out') => Payload(out)))
  \/ /\ attempt' = attempt /\ (Payload(out') => Payload(out))
     /\ Tell("pinned") \/ UNCHANGED reports

LEMMA ToldIsHeard ==
  ASSUME TypeOK, PoolHears, Lawful, Told
  PROVE  PoolHears'
<1>1. attempt \in 1 .. Attempts /\ Attempts \in Nat /\ reports \in [1 .. Attempts -> SUBSET {"ok", "fail", "pinned"}]
  BY TurnAssumption DEF TypeOK
<1>2. ASSUME NEW w, Tell(w)
      PROVE  /\ w \in reports'[attempt]
             /\ \A a \in 1 .. attempt : reports[a] \subseteq reports'[a]
  BY <1>1, <1>2 DEF Tell
<1>3. \A a \in 1 .. attempt : reports[a] \subseteq reports'[a]
  BY <1>2 DEF Told
<1>4. CASE attempt' = attempt
  <2>1. \A a \in 1 .. attempt - 1 : "fail" \in reports'[a]
    BY <1>1, <1>3 DEF PoolHears
  <2>2. Payload(out') => "ok" \in reports'[attempt]
    <3>1. CASE Tell("ok")
      BY <1>2, <3>1
    <3>2. CASE Payload(out') => Payload(out)
      BY <1>1, <1>3, <3>2 DEF PoolHears
    <3> QED BY <1>4, <3>1, <3>2 DEF Told
  <2> QED BY <1>4, <2>1, <2>2 DEF PoolHears
<1>5. CASE attempt' = attempt + 1 /\ out' = out /\ ~Payload(out)
  <2>1. Tell("fail")
    BY <1>1, <1>5 DEF Told
  <2>2. \A a \in 1 .. attempt : "fail" \in reports'[a]
    BY <1>1, <1>2, <1>3, <2>1 DEF PoolHears
  <2>3. ~Payload(out')
    BY <1>5
  <2> QED BY <1>1, <1>5, <2>2, <2>3 DEF PoolHears
<1> QED BY <1>4, <1>5 DEF Lawful

LEMMA ChatTold == TypeOK /\ WireInv /\ ChatNext => Told
<1> SUFFICES ASSUME TypeOK, WireInv, ChatNext PROVE Told
  OBVIOUS
<1>i. out \in Outs /\ Sound(out) /\ attempt + 1 # attempt
  BY DEF WireInv, Sound, TypeOK
<1>f. (Payload(Open(out)) <=> Payload(out)) /\ (Payload(Fail(out)) <=> Payload(out))
      /\ (Payload(End(out, "stop")) <=> Payload(out))
  <2>1. "stop" \in Whats
    BY DEF Whats, Finishes
  <2> QED BY <1>i, <2>1, FinalsAreNoPayload
<1>1. CASE ChatAnswered
  BY <1>f, <1>1 DEF ChatAnswered, Answered, Told
<1>2. ASSUME NEW mayRetry, ChatGiveUp(mayRetry) PROVE Told
  BY <1>i, <1>f, <1>2 DEF ChatGiveUp, NextAccount, Over, Told
<1>3. CASE ChatRefused
  BY <1>2, <1>3 DEF ChatRefused
<1>4. CASE ChatBroken
  BY <1>2, <1>4 DEF ChatBroken
<1>5. ASSUME NEW o, NEW h, NEW known, NEW heard, NEW why, ChatClose(o, h, known, heard, why)
      PROVE  Told
  <2>1. ChatGiveUp(TRUE) \/ (Tell("ok") /\ Over)
    BY <1>5, Zenon DEF ChatClose
  <2> QED BY <1>2, <2>1 DEF Over, Told
<1>6. CASE ChatDrained
  BY <1>5, <1>6 DEF ChatDrained
<1>7. CASE ChatCancelled
  BY <1>f, <1>7 DEF ChatCancelled, Over, Told
<1>8. ASSUME NEW l \in Lines, ChatLine(l) PROVE Told
  <2>1. attempt' = attempt /\ (Tell("ok") \/ (UNCHANGED reports /\ out' = out))
    BY <1>8, Zenon DEF ChatLine
  <2> QED BY <2>1 DEF Told
<1>9. ASSUME NEW l \in Lines, ChatBody(l) PROVE Told
  BY <1>5, <1>9, Zenon DEF ChatBody
<1> QED BY <1>1, <1>3, <1>4, <1>6, <1>7, <1>8, <1>9 DEF ChatNext

LEMMA MsgTold == TypeOK /\ WireInv /\ MsgNext => Told
<1> SUFFICES ASSUME TypeOK, WireInv, MsgNext PROVE Told
  OBVIOUS
<1>i. out \in Outs /\ Sound(out) /\ attempt + 1 # attempt
  BY DEF WireInv, Sound, TypeOK
<1>f. (Payload(Open(out)) <=> Payload(out)) /\ (Payload(Fail(out)) <=> Payload(out))
  BY <1>i, FinalsAreNoPayload
<1>1. CASE MsgAnswered
  BY <1>f, <1>1 DEF MsgAnswered, Answered, Told
<1>2. ASSUME NEW mayRetry, MsgGiveUp(mayRetry) PROVE Told
  BY <1>i, <1>f, <1>2 DEF MsgGiveUp, NextAccount, Over, Told
<1>3. CASE MsgRefused
  BY <1>2, <1>3 DEF MsgRefused
<1>4. CASE MsgBroken
  BY <1>2, <1>4 DEF MsgBroken
<1>5. ASSUME NEW o, NEW h, NEW known, NEW heard, NEW calls, NEW why,
             MsgClose(o, h, known, heard, calls, why)
      PROVE  Told
  <2>1. MsgGiveUp(TRUE) \/ (Tell("ok") /\ Over)
    BY <1>5 DEF MsgClose
  <2> QED BY <1>2, <2>1 DEF Over, Told
<1>6. CASE MsgDrained
  BY <1>5, <1>6 DEF MsgDrained
<1>7. CASE MsgCancelled
  BY <1>f, <1>7 DEF MsgCancelled, Over, Told
<1>8. ASSUME NEW l \in Lines, MsgLine(l) PROVE Told
  <2> DEFINE fed == Feed(out, held, l.say, slots', DOMAIN l.calls)
  <2>1. /\ attempt' = attempt /\ out' = fed.out /\ pc = "lines" /\ streamed /\ proto = "messages"
        /\ Tell("ok") \/ (UNCHANGED reports /\ l.say = {} /\ DOMAIN l.calls = {})
    BY <1>8 DEF MsgLine, Speaks
  <2>2. Writes(out) /\ l.say \in SUBSET Parts
    BY <1>i, <2>1, TurnAssumption DEF WireInv, Writes
  <2>3. fed = Feed(out, held, l.say, slots', DOMAIN l.calls)
    OBVIOUS
  <2> HIDE DEF fed
  <2>4. l.say = {} /\ DOMAIN l.calls = {} => fed.out = out
    <3>1. Fed(out, held, l.say, slots', DOMAIN l.calls, fed)
      BY <1>i, <2>2, <2>3, FeedWrites
    <3> QED BY <3>1 DEF Fed
  <2> QED BY <2>1, <2>4 DEF Told
<1>9. ASSUME NEW l \in Lines, MsgBody(l) PROVE Told
  BY <1>5, <1>9, Zenon DEF MsgBody
<1> QED BY <1>1, <1>3, <1>4, <1>6, <1>7, <1>8, <1>9 DEF MsgNext

LEMMA RespTold == TypeOK /\ WireInv /\ RespNext => Told
<1> SUFFICES ASSUME TypeOK, WireInv, RespNext PROVE Told
  OBVIOUS
<1>i. out \in Outs /\ Sound(out) /\ attempt + 1 # attempt
  BY DEF WireInv, Sound, TypeOK
<1>f. (Payload(Open(out)) <=> Payload(out)) /\ (Payload(Fail(out)) <=> Payload(out))
      /\ (Payload(Fail(Open(out))) <=> Payload(out))
  BY <1>i, FinalsAreNoPayload, OpenSound DEF Sound
<1>1. CASE RespAnswered
  BY <1>f, <1>1 DEF RespAnswered, Answered, Told
<1>2. ASSUME NEW mayRetry, RespGiveUp(mayRetry),
             Tell("fail") \/ (Opened(out) /\ UNCHANGED reports)
      PROVE  Told
  BY <1>i, <1>f, <1>2 DEF RespGiveUp, NextAccount, Over, Told
<1>3. CASE RespRefused
  BY <1>2, <1>3 DEF RespRefused
<1>4. CASE RespBroken
  BY <1>2, <1>4 DEF RespBroken
<1>5. ASSUME NEW o \in Outs, Sound(o), NEW known, NEW heard, NEW why, RespClose(o, known, heard, why)
      PROVE  Told
  <2>1. Payload(Fail(o)) <=> Payload(o)
    BY <1>5, FinalsAreNoPayload
  <2>2. attempt' = attempt /\ (Tell("ok") \/ (Tell("fail") /\ out' = Fail(o) /\ ~Payload(o)))
    BY <1>5 DEF RespClose, Over
  <2> QED BY <2>1, <2>2 DEF Told
<1>6. CASE RespDrained
  BY <1>i, <1>5, <1>6 DEF RespDrained
<1>7. CASE RespCancelled
  BY <1>f, <1>7 DEF RespCancelled, Over, Told
<1>8. ASSUME NEW l \in Lines, RespLine(l) PROVE Told
  <2>1. attempt' = attempt /\ (Tell("ok") \/ (UNCHANGED reports /\ (out' = out \/ ~Payload(out'))))
    BY <1>8 DEF RespLine
  <2> QED BY <2>1 DEF Told
<1>9. ASSUME NEW l \in Lines, RespBody(l) PROVE Told
  <2> DEFINE known == Merged(l.calls)
             p == RespCall(RespSay(out, l.say), known, DOMAIN l.calls)
  <2>1. pc # "over" /\ Speaks("responses") /\ RespClose(p, known, l.say, l.finish)
    BY <1>9, Zenon DEF RespBody
  <2>2. out.block \in {"none", "text"}
    BY <1>i, <2>1 DEF WireInv, Speaks, Outs, Parts
  <2>3. Sound(p) /\ p \in Outs
    BY <1>i, <2>2, RespFeeds
  <2> HIDE DEF p, known
  <2> QED BY <1>5, <2>1, <2>3
<1> QED BY <1>1, <1>3, <1>4, <1>6, <1>7, <1>8, <1>9 DEF RespNext

LEMMA CollectTold == TypeOK /\ WireInv /\ CollectNext => Told
<1> SUFFICES ASSUME TypeOK, WireInv, CollectNext PROVE Told
  OBVIOUS
<1>i. Sound(out) /\ out \in Outs /\ attempt + 1 # attempt
  BY DEF WireInv, Sound, TypeOK
<1>f. Payload(Fail(out)) <=> Payload(out)
  BY <1>i, FinalsAreNoPayload
<1>1. CASE CollectAnswered
  BY <1>1 DEF CollectAnswered, Answered, Told
<1>2. ASSUME NEW mayRetry, CollectGiveUp(mayRetry) PROVE Told
  BY <1>i, <1>f, <1>2 DEF CollectGiveUp, NextAccount, Over, Told
<1>3. CASE CollectRefused
  BY <1>2, <1>3 DEF CollectRefused
<1>4. CASE CollectBroken
  BY <1>2, <1>4 DEF CollectBroken
<1>5. ASSUME NEW known, NEW heard, NEW why, NEW raw, CollectClose(known, heard, why, raw)
      PROVE  Told
  <2>1. CollectGiveUp(TRUE) \/ (Tell("ok") /\ Over)
    BY <1>5 DEF CollectClose
  <2> QED BY <1>2, <2>1 DEF Over, Told
<1>6. CASE CollectDrained
  BY <1>5, <1>6 DEF CollectDrained
<1>7. CASE CollectCancelled
  BY <1>7 DEF CollectCancelled, Over, Told
<1>8. ASSUME NEW l \in Lines, CollectLine(l) PROVE Told
  BY <1>8 DEF CollectLine, Told
<1>9. ASSUME NEW l \in Lines, CollectBody(l) PROVE Told
  BY <1>5, <1>9 DEF CollectBody
<1> QED BY <1>1, <1>3, <1>4, <1>6, <1>7, <1>8, <1>9 DEF CollectNext

LEMMA HearsAtFirst == Init => PoolHears
<1> SUFFICES ASSUME Init PROVE PoolHears
  OBVIOUS
<1>1. ~Payload(out)
  BY SilentIsSound DEF Init, Payload, Said, Called
<1> QED BY <1>1 DEF Init, PoolHears

LEMMA HearsSteps == TypeOK /\ WireInv /\ PoolHears /\ [Next]_vars => PoolHears'
<1> SUFFICES ASSUME TypeOK, WireInv, PoolHears, [Next]_vars PROVE PoolHears'
  OBVIOUS
<1>1. CASE ChatNext \/ MsgNext \/ RespNext \/ CollectNext
  BY <1>1, ChatLawful, MsgLawful, RespLawful, CollectLawful, ChatTold, MsgTold, RespTold,
     CollectTold, ToldIsHeard
<1>2. CASE Leave \/ UNCHANGED vars
  <2>1. UNCHANGED <<attempt, out, reports>>
    BY <1>2 DEF Leave, vars
  <2> QED BY <2>1 DEF PoolHears, Payload, Said, Called, Sent
<1> QED BY <1>1, <1>2 DEF Next

\* Every account that is left for the next has been reported as failed, and
\* the one whose content reached the client has been credited, in every
\* protocol and whether its answer was streamed, a body or collected.
THEOREM PoolAlwaysHears == Spec => []PoolHears
BY TypesHold, WireAlways, HearsAtFirst, HearsSteps, PTL DEF Spec
-----------------------------------------------------------------------------
(* Calls leave whole.                                                        *)

\* The slots only gain, and what was sent is complete or asks for nothing.
WholeStep ==
  /\ UNCHANGED <<proto, streamed>>
  /\ Called(out') \subseteq Called(out) \cup Ready(slots') \cup (Tools \ Strict)
  /\ \A t \in Tools : slots[t] = "ready" => slots'[t] = "ready"

LEMMA WholeKeeps == KnownToolsWhole /\ WholeStep => KnownToolsWhole'
<1> SUFFICES ASSUME KnownToolsWhole, WholeStep PROVE KnownToolsWhole'
  OBVIOUS
<1> SUFFICES ASSUME proto = "messages" \/ (proto = "chat" /\ streamed),
                    NEW t \in Called(out') \cap Strict
             PROVE  slots'[t] = "ready"
  BY DEF KnownToolsWhole, WholeStep
<1>1. t \in Tools /\ (t \in Called(out) \/ t \in Ready(slots'))
  BY TurnAssumption DEF WholeStep
<1> QED BY <1>1 DEF KnownToolsWhole, WholeStep, Ready

\* A turn that goes on to the next account has sent no call.
LEMMA NothingCalled ==
  ASSUME KnownToolsWhole, ~Payload(out), NextAccount
  PROVE  KnownToolsWhole'
<1>1. Called(out') = {}
  BY DEF NextAccount, Payload
<1> QED BY <1>1 DEF KnownToolsWhole

LEMMA MergedGains ==
  ASSUME NEW l \in Lines
  PROVE  \A t \in Tools : slots[t] = "ready" => Merged(l.calls)[t] = "ready"
BY DEF Merged, Merge

LEMMA FinalsCallNothing ==
  ASSUME NEW o \in Outs, Sound(o)
  PROVE  /\ Called(Open(o)) = Called(o) /\ Called(Fail(o)) = Called(o)
         /\ \A why \in Whats : Called(End(o, why)) = Called(o)
<1>1. Open(o) \in Outs /\ Fail(o) \in Outs /\ Adds(o, Open(o), {"open"}) /\ Adds(o, Fail(o), {"fail"})
  BY OpenSound, FailSound DEF Sound
<1>2. \A why \in Whats : End(o, why) \in Outs /\ Adds(o, End(o, why), {"end"})
  BY EndSound DEF Sound
<1>3. "tool" \notin {"open"} /\ "tool" \notin {"fail"} /\ "tool" \notin {"end"}
  OBVIOUS
<1>4. Called(Open(o)) = Called(o) /\ Called(Fail(o)) = Called(o)
  BY <1>1, <1>3, AddsKeeps DEF Called
<1> QED BY <1>2, <1>3, <1>4, AddsKeeps DEF Called

LEMMA ChatWhole == TypeOK /\ WireInv /\ KnownToolsWhole /\ ChatNext => KnownToolsWhole'
<1> SUFFICES ASSUME TypeOK, WireInv, KnownToolsWhole, ChatNext PROVE KnownToolsWhole'
  OBVIOUS
<1>i. out \in Outs /\ Sound(out) /\ held \in Seq(SUBSET Parts) /\ finish \in Finishes \cup {"none"}
      /\ (pc # "over" => NoFinal(out))
  BY DEF TypeOK, WireInv, Sound
<1>f. /\ Called(Open(out)) = Called(out) /\ Called(Fail(out)) = Called(out)
      /\ Called(End(out, "stop")) = Called(out)
  <2>1. "stop" \in Whats
    BY DEF Whats, Finishes
  <2> QED BY <1>i, <2>1, FinalsCallNothing
<1>1. CASE ChatAnswered
  BY <1>f, <1>1, WholeKeeps DEF ChatAnswered, Answered, WholeStep
<1>2. ASSUME NEW mayRetry, ChatGiveUp(mayRetry) PROVE KnownToolsWhole'
  BY <1>f, <1>2, NothingCalled, WholeKeeps DEF ChatGiveUp, Over, WholeStep
<1>3. CASE ChatRefused
  BY <1>2, <1>3 DEF ChatRefused
<1>4. CASE ChatBroken
  BY <1>2, <1>4 DEF ChatBroken
<1>5. ASSUME NEW o \in Outs, Sound(o), NoFinal(o), NEW h \in Seq(SUBSET Parts), NEW known,
             NEW heard, NEW why \in Finishes \cup {"none"},
             Called(o) \subseteq Called(out) \cup Ready(known) \cup (Tools \ Strict),
             \A t \in Tools : slots[t] = "ready" => known[t] = "ready",
             ChatClose(o, h, known, heard, why)
      PROVE  KnownToolsWhole'
  <2>1. CASE ChatGiveUp(TRUE)
    BY <1>2, <2>1
  <2>2. CASE Over /\ out' = ChatEnding(o, h, known, why) /\ slots' = known
    <3> DEFINE p == ChatEnding(o, h, known, why)
    <3>1. Called(p) \subseteq Called(o) \cup Ready(known) \cup (Tools \ Strict)
      BY <1>5, ChatEnds
    <3>2. out' = p
      BY <2>2
    <3> HIDE DEF p
    <3>3. WholeStep
      BY <1>5, <2>2, <3>1, <3>2 DEF Over, WholeStep
    <3> QED BY <3>3, WholeKeeps
  <2> QED BY <1>5, <2>1, <2>2 DEF ChatClose, ChatEnding
<1>6. CASE ChatDrained
  <2>1. pc # "over" /\ ChatClose(out, held, slots, got, finish)
    BY <1>6 DEF ChatDrained
  <2> QED BY <1>i, <1>5, <2>1
<1>7. CASE ChatCancelled
  BY <1>f, <1>7, WholeKeeps DEF ChatCancelled, Over, WholeStep
<1>8. ASSUME NEW l \in Lines, ChatLine(l) PROVE KnownToolsWhole'
  <2> DEFINE p == ChatFed(l, slots')
  <2>1. out' = p /\ slots' = Merged(l.calls) /\ UNCHANGED <<proto, streamed>>
    <3> DEFINE S == IF DOMAIN l.calls = {} THEN {} ELSE Budgeted(out, Deliverable(slots', out))
    <3>1. out' = CallAll(IF tooled' THEN out ELSE ChatSay(out, l.say), S)
      BY <1>8 DEF ChatLine
    <3>2. tooled' = (tooled \/ DOMAIN l.calls # {})
      BY <1>8 DEF ChatLine
    <3>3. slots' = Merged(l.calls) /\ UNCHANGED <<proto, streamed>>
      BY <1>8 DEF ChatLine, Read
    <3> QED BY <3>1, <3>2, <3>3 DEF ChatFed
  <2>2. Called(p) \subseteq Called(out) \cup Ready(slots')
    BY <1>i, ChatFeeds
  <2> HIDE DEF p
  <2>3. WholeStep
    BY <2>1, <2>2, MergedGains DEF WholeStep
  <2> QED BY <2>3, WholeKeeps
<1>9. ASSUME NEW l \in Lines, ChatBody(l) PROVE KnownToolsWhole'
  <2> DEFINE known == Merged(l.calls)
             p == ChatBodySaid(l, known)
             why == IF l.finish = "none" THEN "stop" ELSE l.finish
  <2>1. pc # "over" /\ ChatClose(p, <<>>, known, l.say, why)
    BY <1>9, Zenon DEF ChatBody, ChatBodySaid
  <2>2. Sound(p) /\ p \in Outs /\ NoFinal(p)
        /\ Called(p) \subseteq Called(out) \cup Ready(known) \cup (Tools \ Strict)
    BY <1>i, <2>1, ChatBodySays
  <2>3. why \in Finishes \cup {"none"} /\ <<>> \in Seq(SUBSET Parts)
    BY TurnAssumption DEF Finishes
  <2>4. \A t \in Tools : slots[t] = "ready" => known[t] = "ready"
    BY MergedGains
  <2> HIDE DEF p, known, why
  <2> QED BY <1>5, <2>1, <2>2, <2>3, <2>4
<1> QED BY <1>1, <1>3, <1>4, <1>6, <1>7, <1>8, <1>9 DEF ChatNext

LEMMA MsgWhole == TypeOK /\ WireInv /\ KnownToolsWhole /\ MsgNext => KnownToolsWhole'
<1> SUFFICES ASSUME TypeOK, WireInv, KnownToolsWhole, MsgNext PROVE KnownToolsWhole'
  OBVIOUS
<1>i. /\ out \in Outs /\ Sound(out) /\ held \in Seq(SUBSET Parts) /\ finish \in Finishes \cup {"none"}
      /\ proto \in Protocols /\ (pc # "over" => NoFinal(out))
      /\ (streamed /\ proto = "messages" /\ pc # "over" => Writes(out))
  BY DEF TypeOK, WireInv, Sound, Writes
<1>f. Called(Open(out)) = Called(out) /\ Called(Fail(out)) = Called(out)
  BY <1>i, FinalsCallNothing
<1>1. CASE MsgAnswered
  BY <1>f, <1>1, WholeKeeps DEF MsgAnswered, Answered, WholeStep
<1>2. ASSUME NEW mayRetry, MsgGiveUp(mayRetry), pc # "over" PROVE KnownToolsWhole'
  BY <1>f, <1>2, NothingCalled, NoContent, WholeKeeps DEF MsgGiveUp, Over, WholeStep
<1>3. CASE MsgRefused
  BY <1>2, <1>3 DEF MsgRefused
<1>4. CASE MsgBroken
  BY <1>2, <1>4 DEF MsgBroken
<1>5. ASSUME NEW o \in Outs, Writes(o), NoFinal(o), NEW h \in Seq(SUBSET Parts), NEW known,
             NEW heard, NEW calls, NEW why \in Finishes \cup {"none"},
             Called(o) \subseteq Called(out) \cup Ready(known),
             \A t \in Tools : slots[t] = "ready" => known[t] = "ready",
             MsgClose(o, h, known, heard, calls, why), pc # "over"
      PROVE  KnownToolsWhole'
  <2>1. CASE MsgGiveUp(TRUE)
    BY <1>2, <1>5, <2>1
  <2>2. CASE Over /\ out' = FinishStream(o, h, known, why) /\ slots' = known
    <3> DEFINE p == FinishStream(o, h, known, why)
    <3>1. Called(p) \subseteq Called(o) \cup Ready(known) \cup (Tools \ Strict)
      BY <1>i, <1>5, FinishWrites
    <3>2. out' = p
      BY <2>2
    <3> HIDE DEF p
    <3>3. WholeStep
      BY <1>5, <2>2, <3>1, <3>2 DEF Over, WholeStep
    <3> QED BY <3>3, WholeKeeps
  <2> QED BY <1>5, <2>1, <2>2 DEF MsgClose
<1>6. CASE MsgDrained
  <2>1. pc # "over" /\ Speaks("messages")
        /\ MsgClose(out, held, slots, got, {t \in Tools : slots[t] # "unseen"}, finish)
    BY <1>6 DEF MsgDrained
  <2>2. Writes(out)
    BY <1>i, <2>1 DEF Speaks
  <2> QED BY <1>i, <1>5, <2>1, <2>2
<1>7. CASE MsgCancelled
  BY <1>f, <1>7, WholeKeeps DEF MsgCancelled, Over, WholeStep
<1>8. ASSUME NEW l \in Lines, MsgLine(l) PROVE KnownToolsWhole'
  <2> DEFINE r == Feed(out, held, l.say, slots', DOMAIN l.calls)
  <2>1. out' = r.out /\ slots' = Merged(l.calls) /\ UNCHANGED <<proto, streamed>>
    BY <1>8 DEF MsgLine, Read
  <2>2. Writes(out) /\ r = Feed(out, held, l.say, slots', DOMAIN l.calls)
    BY <1>i, <1>8 DEF MsgLine, Speaks
  <2> HIDE DEF r
  <2>3. Called(r.out) \subseteq Called(out) \cup Ready(slots')
    <3>1. out \in Outs /\ l.say \in SUBSET Parts
      BY <1>i, TurnAssumption
    <3>2. Fed(out, held, l.say, slots', DOMAIN l.calls, r)
      BY <2>2, <3>1, FeedWrites
    <3> QED BY <3>2 DEF Fed
  <2>4. WholeStep
    BY <2>1, <2>3, MergedGains DEF WholeStep
  <2> QED BY <2>4, WholeKeeps
<1>9. ASSUME NEW l \in Lines, MsgBody(l) PROVE KnownToolsWhole'
  <2> DEFINE known == Merged(l.calls)
             r == Feed(out, held, l.say, known, DOMAIN l.calls)
  <2>1. pc # "over" /\ Speaks("messages")
        /\ MsgClose(r.out, r.held, known, l.say, DOMAIN l.calls, l.finish)
    BY <1>9, Zenon DEF MsgBody
  <2>2. l.say \in SUBSET Parts /\ l.finish \in Finishes \cup {"none"}
    BY TurnAssumption
  <2>3. Writes(out) /\ r = Feed(out, held, l.say, known, DOMAIN l.calls)
    BY <1>i, <2>1 DEF Speaks
  <2>4. r.held = held \/ r.held = <<>> \/ r.held = Append(held, l.say)
    BY DEF Feed
  <2>5. \A t \in Tools : slots[t] = "ready" => known[t] = "ready"
    BY MergedGains
  <2> HIDE DEF r, known
  <2>6. /\ Writes(r.out) /\ Adds(out, r.out, {"stop", "start", "delta", "tool"})
        /\ Called(r.out) \subseteq Called(out) \cup Ready(known)
    <3>1. Fed(out, held, l.say, known, DOMAIN l.calls, r)
      BY <1>i, <2>2, <2>3, FeedWrites
    <3> QED BY <3>1 DEF Fed
  <2>7. r.held \in Seq(SUBSET Parts) /\ r.out \in Outs
    <3>1. \A s \in SUBSET Parts : <<>> \in Seq(SUBSET Parts) /\ Append(held, s) \in Seq(SUBSET Parts)
      BY <1>i
    <3>2. r.held \in Seq(SUBSET Parts)
      BY <1>i, <2>2, <2>4, <3>1
    <3> QED BY <2>6, <3>2 DEF Writes, Sound
  <2>8. {"stop", "start", "delta", "tool"} \cap {"end", "fail"} = {}
    OBVIOUS
  <2>9. NoFinal(r.out)
    BY <1>i, <2>1, <2>6, <2>7, <2>8, StillNoFinal
  <2> QED BY <1>5, <2>1, <2>2, <2>5, <2>6, <2>7, <2>9
<1> QED BY <1>1, <1>3, <1>4, <1>6, <1>7, <1>8, <1>9 DEF MsgNext

LEMMA CollectWhole == TypeOK /\ WireInv /\ KnownToolsWhole /\ CollectNext => KnownToolsWhole'
<1> SUFFICES ASSUME TypeOK, WireInv, KnownToolsWhole, CollectNext PROVE KnownToolsWhole'
  OBVIOUS
<1>g. \A mayRetry : CollectGiveUp(mayRetry) => UNCHANGED <<proto, streamed>>
  BY DEF CollectGiveUp, NextAccount, Over
<1>c. \A known, heard, why, raw : CollectClose(known, heard, why, raw) => UNCHANGED <<proto, streamed>>
  BY <1>g DEF CollectClose, Over
<1>s. ~streamed /\ UNCHANGED <<proto, streamed>>
  BY <1>g, <1>c DEF CollectNext, CollectAnswered, Answered, CollectRefused, CollectBroken,
                    CollectDrained, CollectCancelled, CollectLine, CollectBody, Over
<1> SUFFICES ASSUME proto = "messages" PROVE KnownToolsWhole'
  BY <1>s DEF KnownToolsWhole
<1>i. /\ finish \in Finishes \cup {"none"} /\ ~streamed /\ pc # "over" /\ out = Silent
      /\ Sound(out) /\ out \in Outs
  BY SilentIsSound
     DEF TypeOK, WireInv, CollectNext, CollectAnswered, Answered, CollectRefused, CollectBroken,
         CollectDrained, CollectCancelled, CollectLine, CollectBody
<1>f. Called(Fail(out)) = Called(out) /\ ~Payload(out)
  BY <1>i, FinalsCallNothing, SilentIsSound DEF Payload, Said, Called
<1>1. CASE CollectAnswered
  BY <1>1, WholeKeeps DEF CollectAnswered, Answered, WholeStep
<1>2. ASSUME NEW mayRetry, CollectGiveUp(mayRetry) PROVE KnownToolsWhole'
  BY <1>f, <1>2, NothingCalled, WholeKeeps DEF CollectGiveUp, Over, WholeStep
<1>3. CASE CollectRefused
  BY <1>2, <1>3 DEF CollectRefused
<1>4. CASE CollectBroken
  BY <1>2, <1>4 DEF CollectBroken
<1>5. ASSUME NEW known, NEW heard, NEW why \in Finishes \cup {"none"}, NEW raw,
             \A t \in Tools : slots[t] = "ready" => known[t] = "ready",
             CollectClose(known, heard, why, raw)
      PROVE  KnownToolsWhole'
  <2>1. CASE CollectGiveUp(TRUE)
    BY <1>2, <2>1
  <2>2. CASE Over /\ out' = Reply(known, heard, why, raw) /\ slots' = known
    <3> DEFINE p == Reply(known, heard, why, raw)
    <3>1. Called(p) \subseteq Shown(known, raw)
      BY <1>5, ReplySound
    <3>2. out' = p
      BY <2>2
    <3> HIDE DEF p
    <3>3. Shown(known, raw) \subseteq Finishable(known, Silent)
      BY DEF Shown
    <3>4. Finishable(known, Silent) \subseteq Ready(known) \cup (Tools \ Strict)
      BY Picked
    <3>5. WholeStep
      BY <1>5, <2>2, <3>1, <3>2, <3>3, <3>4 DEF Over, WholeStep
    <3> QED BY <3>5, WholeKeeps
  <2> QED BY <1>5, <2>1, <2>2 DEF CollectClose
<1>6. CASE CollectDrained
  BY <1>i, <1>5, <1>6 DEF CollectDrained
<1>7. CASE CollectCancelled
  BY <1>7, WholeKeeps DEF CollectCancelled, Over, WholeStep
<1>8. ASSUME NEW l \in Lines, CollectLine(l) PROVE KnownToolsWhole'
  <2>1. WholeStep
    BY <1>8, MergedGains DEF CollectLine, Read, WholeStep
  <2> QED BY <2>1, WholeKeeps
<1>9. ASSUME NEW l \in Lines, CollectBody(l) PROVE KnownToolsWhole'
  <2>1. l.finish \in Finishes \cup {"none"}
    BY TurnAssumption
  <2>2. \A t \in Tools : slots[t] = "ready" => Merged(l.calls)[t] = "ready"
    BY MergedGains
  <2> QED BY <1>5, <1>9, <2>1, <2>2 DEF CollectBody
<1> QED BY <1>1, <1>3, <1>4, <1>6, <1>7, <1>8, <1>9 DEF CollectNext

LEMMA WholeAtFirst == Init => KnownToolsWhole
BY SilentIsSound DEF Init, KnownToolsWhole, Called

LEMMA WholeSteps == TypeOK /\ WireInv /\ KnownToolsWhole /\ [Next]_vars => KnownToolsWhole'
<1> SUFFICES ASSUME TypeOK, WireInv, KnownToolsWhole, [Next]_vars PROVE KnownToolsWhole'
  OBVIOUS
<1>1. CASE RespNext
  <2>1. proto' = "responses"
    BY <1>1 DEF RespNext, RespAnswered, Answered, RespRefused, RespBroken, RespGiveUp, NextAccount,
                RespDrained, RespClose, RespBody, RespCancelled, RespLine, Over, Speaks
  <2> QED BY <2>1 DEF KnownToolsWhole
<1>2. CASE Leave \/ UNCHANGED vars
  <2>1. UNCHANGED <<proto, streamed, slots, out>>
    BY <1>2 DEF Leave, vars
  <2> QED BY <2>1 DEF KnownToolsWhole, Called, Sent
<1> QED BY <1>1, <1>2, ChatWhole, MsgWhole, CollectWhole DEF Next

\* A call whose tool has required arguments reaches a chat stream or a
\* Messages client only once all of them have arrived, for every schema,
\* every order of the fragments and every path that sends it.
THEOREM CallsAreWhole == Spec => []KnownToolsWhole
BY TypesHold, WireAlways, WholeAtFirst, WholeSteps, PTL DEF Spec
-----------------------------------------------------------------------------
(* Text and calls.  TextGivesWay alone is not inductive: that an account     *)
(* starts with nothing, that a chat turn without tools has no slots, and     *)
(* that a Messages turn with tools says nothing before it ends must be       *)
(* carried along (TextInv).                                                  *)
Kept(o, h, heard) ==
  "text" \in heard =>
    "text" \in Said(o) \/ Called(o) # {} \/ \E i \in DOMAIN h : "text" \in h[i]

CallsAfterText(o) ==
  \A i, j \in DOMAIN o.wire : o.wire[i].kind = "tool" /\ o.wire[j].kind = "delta" => j < i

Fresh ==
  streamed /\ pc \in {"dial", "body"} =>
    slots = NoSlots /\ held = <<>> /\ got = {} /\ lines = 0 /\ ~Payload(out)
ChatText ==
  streamed /\ proto = "chat" =>
    (~tooled => slots = NoSlots /\ Called(out) = {}) /\ CallsAfterText(out)
MsgText ==
  streamed /\ proto = "messages" /\ tooled =>
    (pc # "over" => Said(out) = {}) /\ (Said(out) = {} \/ Called(out) = {})
TextInv == Fresh /\ ChatText /\ MsgText /\ TextKept

LEMMA KeptIsTextKept ==
  TextKept <=> (streamed /\ ~gone /\ ~(proto = "chat" /\ pc = "over" /\ lines = 0)
                  => Kept(out, held, got))
BY DEF TextKept, Kept

LEMMA KeptMore ==
  ASSUME NEW o \in Outs, NEW p \in Outs, NEW K, Adds(o, p, K), NEW h, NEW heard, Kept(o, h, heard)
  PROVE  Kept(p, h, heard)
<1>1. Said(o) \subseteq Said(p) /\ Called(o) \subseteq Called(p)
  BY AddsKeeps DEF Said, Called
<1> QED BY <1>1 DEF Kept

LEMMA OrderKept ==
  ASSUME NEW o \in Outs, NEW p \in Outs, NEW K, Adds(o, p, K), "delta" \notin K, CallsAfterText(o)
  PROVE  CallsAfterText(p)
<1> SUFFICES ASSUME NEW i \in DOMAIN p.wire, NEW j \in DOMAIN p.wire,
                    p.wire[i].kind = "tool", p.wire[j].kind = "delta"
             PROVE  j < i
  BY DEF CallsAfterText
<1>1. /\ o.wire \in Seq(FrameSet) /\ p.wire \in Seq(FrameSet)
      /\ Len(o.wire) \in Nat /\ Len(p.wire) \in Nat /\ Len(o.wire) <= Len(p.wire)
      /\ DOMAIN o.wire = 1 .. Len(o.wire) /\ DOMAIN p.wire = 1 .. Len(p.wire)
  BY DEF Outs, Adds
<1>2. j \in 1 .. Len(o.wire) /\ o.wire[j] = p.wire[j]
  BY <1>1 DEF Adds
<1>3. CASE i \in 1 .. Len(o.wire)
  <2>1. o.wire[i] = p.wire[i]
    BY <1>3 DEF Adds
  <2> QED BY <1>1, <1>2, <1>3, <2>1 DEF CallsAfterText
<1>4. CASE i \notin 1 .. Len(o.wire)
  BY <1>1, <1>2, <1>4
<1> QED BY <1>3, <1>4

LEMMA OneKindOrdered ==
  ASSUME NEW o, Called(o) = {} \/ Said(o) = {}
  PROVE  CallsAfterText(o)
BY DEF Called, Said, Sent, CallsAfterText

\* The three ways a turn goes on that all protocols share.
LEMMA TextOpens ==
  ASSUME TextInv, WireInv, Answered, out' = Open(out), tooled' = tooled
  PROVE  TextInv'
<1>1. /\ out \in Outs /\ out' \in Outs /\ Adds(out, out', {"open"}) /\ "delta" \notin {"open"}
      /\ "tool" \notin {"open"}
  BY OpenSound DEF WireInv, Sound
<1>2. Said(out') = Said(out) /\ Called(out') = Called(out)
  BY <1>1, AddsKeeps DEF Said, Called
<1>3. Payload(out') <=> Payload(out)
  BY <1>2 DEF Payload
<1>4. pc = "dial" /\ UNCHANGED <<proto, streamed, lines, slots, held, got, gone>> /\ pc' # "over"
  BY DEF Answered
<1>5. Fresh' /\ ChatText' /\ MsgText'
  <2>1. CallsAfterText(out) => CallsAfterText(out')
    BY <1>1, OrderKept
  <2>2. Fresh'
    BY <1>3, <1>4 DEF TextInv, Fresh, NoSlots
  <2>3. ChatText'
    BY <1>2, <1>4, <2>1 DEF TextInv, ChatText, NoSlots
  <2> QED BY <1>2, <1>4, <2>2, <2>3 DEF TextInv, MsgText
<1>6. streamed => got' = {}
  BY <1>4 DEF TextInv, Fresh
<1> QED BY <1>4, <1>5, <1>6 DEF TextInv, TextKept

LEMMA TextAgain ==
  ASSUME TextInv, NextAccount, ~Payload(out), tooled => tooled'
  PROVE  TextInv'
<1>1. /\ UNCHANGED <<proto, streamed, out>> /\ slots' = NoSlots /\ held' = <<>> /\ got' = {}
      /\ lines' = 0 /\ pc' = "dial"
  BY DEF NextAccount
<1>2. Said(out) = {} /\ Called(out) = {} /\ CallsAfterText(out)
  BY OneKindOrdered DEF Payload
<1>3. Fresh' /\ ChatText'
  BY <1>1, <1>2 DEF Fresh, ChatText, NoSlots, Payload
<1> QED BY <1>1, <1>2, <1>3 DEF TextInv, MsgText, TextKept

LEMMA TextCut ==
  ASSUME TextInv, WireInv, pc # "over", Over, UNCHANGED <<slots, held, got>>, tooled => tooled',
         proto = "messages" => tooled' = tooled, out' \in Outs, NEW K, Adds(out, out', K),
         "delta" \notin K, "tool" \notin K
  PROVE  TextInv'
<1>1. out \in Outs /\ UNCHANGED <<proto, streamed, lines, gone>> /\ pc' = "over"
  BY DEF WireInv, Sound, Over
<1>2. Said(out') = Said(out) /\ Called(out') = Called(out)
  BY <1>1, AddsKeeps DEF Said, Called
<1>3. CallsAfterText(out) => CallsAfterText(out')
  BY <1>1, OrderKept
<1>4. Fresh'
  BY <1>1 DEF Fresh
<1>5. ChatText'
  BY <1>1, <1>2, <1>3 DEF TextInv, ChatText, NoSlots
<1>6. MsgText'
  BY <1>1, <1>2 DEF TextInv, MsgText
<1>7. TextKept'
  BY <1>1, <1>2 DEF TextInv, TextKept
<1> QED BY <1>4, <1>5, <1>6, <1>7 DEF TextInv

LEMMA ChatTexts == TypeOK /\ WireInv /\ TextInv /\ ChatNext => TextInv'
<1> SUFFICES ASSUME TypeOK, WireInv, TextInv, ChatNext PROVE TextInv'
  OBVIOUS
<1>i. /\ out \in Outs /\ Sound(out) /\ held \in Seq(SUBSET Parts) /\ finish \in Finishes \cup {"none"}
      /\ (pc # "over" => NoFinal(out)) /\ slots \in [Tools -> SlotStates] /\ lines \in Nat
  BY DEF TypeOK, WireInv, Sound
<1>1. CASE ChatAnswered
  BY <1>1, TextOpens DEF ChatAnswered
<1>2. ASSUME NEW mayRetry, ChatGiveUp(mayRetry), pc # "over", Speaks("chat"), tooled => tooled'
      PROVE  TextInv'
  <2>1. CASE NextAccount /\ ~Payload(out)
    BY <1>2, <2>1, TextAgain
  <2>2. CASE Over /\ out' = Fail(out) /\ UNCHANGED <<slots, held, got, finish>>
    <3>1. out' \in Outs /\ Adds(out, out', {"fail"}) /\ "delta" \notin {"fail"} /\ "tool" \notin {"fail"}
      BY <1>i, <2>2, FailSound DEF Sound
    <3>2. proto # "messages"
      BY <1>2 DEF Speaks
    <3> QED BY <1>2, <2>2, <3>1, <3>2, TextCut
  <2> QED BY <1>2, <2>1, <2>2 DEF ChatGiveUp
<1>3. CASE ChatRefused
  <2>1. pc # "over" /\ Speaks("chat") /\ (tooled => tooled')
    BY <1>3 DEF ChatRefused
  <2> QED BY <1>2, <1>3, <2>1 DEF ChatRefused
<1>4. CASE ChatBroken
  <2>1. pc # "over" /\ Speaks("chat") /\ (tooled => tooled') /\ ChatGiveUp(TRUE)
    BY <1>4 DEF ChatBroken
  <2> QED BY <1>2, <2>1
<1>5. ASSUME NEW o \in Outs, Sound(o), NoFinal(o), CallsAfterText(o), NEW h \in Seq(SUBSET Parts),
             NEW known, NEW heard, NEW why \in Finishes \cup {"none"}, tooled => tooled',
             ~tooled' => known = NoSlots /\ Called(o) = {}, lines # 0 /\ ~gone => Kept(o, h, heard),
             ChatClose(o, h, known, heard, why), pc # "over", Speaks("chat")
      PROVE  TextInv'
  <2>1. CASE ChatGiveUp(TRUE)
    BY <1>2, <1>5, <2>1
  <2>2. CASE Over /\ out' = ChatEnding(o, h, known, why) /\ slots' = known /\ got' = heard /\ held' = <<>>
    <3> DEFINE p == ChatEnding(o, h, known, why)
    <3>1. /\ Sound(p) /\ Called(o) \subseteq Called(p) /\ Said(o) \subseteq Said(p)
          /\ Called(p) # {} => Adds(o, p, {"tool", "end"})
          /\ ~gone /\ Called(p) = {} => \A i \in DOMAIN h : h[i] \subseteq Said(p)
          /\ known = NoSlots => Called(p) = Called(o)
      BY <1>5, ChatEnds
    <3>2. out' = p
      BY <2>2
    <3> HIDE DEF p
    <3>3. CallsAfterText(p)
      <4>1. CASE Called(p) = {}
        BY <4>1, OneKindOrdered
      <4>2. CASE Called(p) # {}
        <5>1. p \in Outs /\ "delta" \notin {"tool", "end"} /\ Adds(o, p, {"tool", "end"})
          BY <3>1, <4>2 DEF Sound
        <5> QED BY <1>5, <5>1, OrderKept
      <4> QED BY <4>1, <4>2
    <3>4. proto' = "chat" /\ pc' = "over" /\ UNCHANGED <<lines, gone>>
      BY <1>5, <2>2 DEF Over, Speaks
    <3>5. ChatText'
      BY <1>5, <2>2, <3>1, <3>2, <3>3, <3>4 DEF ChatText, NoSlots
    <3>6. lines # 0 /\ ~gone => Kept(p, <<>>, heard)
      BY <1>5, <3>1 DEF Kept
    <3>7. TextKept'
      BY <2>2, <3>2, <3>4, <3>6 DEF TextKept, Kept
    <3> QED BY <3>4, <3>5, <3>7 DEF TextInv, Fresh, MsgText
  <2> QED BY <1>5, <2>1, <2>2 DEF ChatClose, ChatEnding
<1>6. CASE ChatDrained
  <2>1. pc # "over" /\ Speaks("chat") /\ tooled' = tooled /\ ChatClose(out, held, slots, got, finish)
    BY <1>6 DEF ChatDrained
  <2>2. /\ CallsAfterText(out) /\ (~tooled => slots = NoSlots /\ Called(out) = {})
        /\ (~gone => Kept(out, held, got))
    BY <2>1, KeptIsTextKept DEF TextInv, ChatText, Speaks
  <2> QED BY <1>i, <1>5, <2>1, <2>2
<1>7. CASE ChatCancelled
  <2>1. pc # "over" /\ Over /\ UNCHANGED <<tooled, slots, held, got>>
    BY <1>7 DEF ChatCancelled
  <2>2. "stop" \in Whats
    BY DEF Whats, Finishes
  <2>3. out' \in Outs /\ Adds(out, out', {"end"}) /\ "delta" \notin {"end"} /\ "tool" \notin {"end"}
    <3>1. CASE out' = out
      BY <1>i, <3>1 DEF Adds, Outs
    <3>2. CASE out' = End(out, "stop")
      BY <1>i, <2>2, <3>2, EndSound DEF Sound
    <3> QED BY <1>7, <3>1, <3>2 DEF ChatCancelled
  <2> QED BY <2>1, <2>3, TextCut
<1>8. ASSUME NEW l \in Lines, ChatLine(l) PROVE TextInv'
  <2> DEFINE p == ChatFed(l, slots')
             S == IF DOMAIN l.calls = {} THEN {} ELSE Budgeted(out, Deliverable(slots', out))
             won == S # {} \/ Called(out) # {}
  <2>1. /\ Speaks("chat") /\ pc = "lines" /\ pc' = "lines"
        /\ UNCHANGED <<proto, streamed, gone>> /\ slots' = Merged(l.calls) /\ got' = got \cup l.say
        /\ tooled' = (tooled \/ DOMAIN l.calls # {})
    BY <1>8 DEF ChatLine, Read
  <2>2. out' = p
    <3>1. out' = CallAll(IF tooled' THEN out ELSE ChatSay(out, l.say), S)
      BY <1>8 DEF ChatLine
    <3> QED BY <2>1, <3>1 DEF ChatFed
  <2>3. held' = IF S # {} THEN <<>>
                ELSE IF tooled' /\ ~won /\ l.say # {} THEN Append(held, l.say) ELSE held
    BY <1>8 DEF ChatLine
  <2>4. /\ p \in Outs /\ Adds(out, p, {"delta", "tool"})
        /\ (tooled' => Adds(out, p, {"tool"}))
        /\ (~tooled' => Adds(out, p, {"delta"}) /\ Said(p) = Said(out) \cup l.say)
        /\ (S # {} => Called(p) # {})
    <3>1. /\ p \in Outs /\ Adds(out, p, {"delta", "tool"})
          /\ (tooled \/ DOMAIN l.calls # {} => Adds(out, p, {"tool"}))
          /\ (~(tooled \/ DOMAIN l.calls # {}) =>
                Adds(out, p, {"delta"}) /\ Said(p) = Said(out) \cup l.say)
          /\ (DOMAIN l.calls # {} /\ Budgeted(out, Deliverable(slots', out)) # {} => Called(p) # {})
      BY <1>i, ChatFeeds
    <3> QED BY <2>1, <3>1
  <2> HIDE DEF p, S
  <2>5. /\ CallsAfterText(out) /\ (~tooled => slots = NoSlots /\ Called(out) = {})
        /\ (~gone => Kept(out, held, got))
    BY <2>1, KeptIsTextKept DEF TextInv, ChatText, Speaks
  <2>6. ~tooled' => slots' = NoSlots /\ Called(p) = {}
    <3> SUFFICES ASSUME ~tooled' PROVE slots' = NoSlots /\ Called(p) = {}
      OBVIOUS
    <3>1. DOMAIN l.calls = {} /\ ~tooled
      BY <2>1
    <3>2. Merged(l.calls) = slots
      BY <1>i, <3>1 DEF Merged
    <3>3. "tool" \notin {"delta"}
      OBVIOUS
    <3>4. Called(p) = Called(out)
      BY <1>i, <2>4, <3>3, AddsKeeps DEF Called
    <3> QED BY <2>1, <2>5, <3>1, <3>2, <3>4
  <2>7. CallsAfterText(p)
    <3>1. CASE tooled'
      <4>1. "delta" \notin {"tool"}
        OBVIOUS
      <4> QED BY <1>i, <2>4, <2>5, <3>1, <4>1, OrderKept
    <3>2. CASE ~tooled'
      BY <2>6, <3>2, OneKindOrdered
    <3> QED BY <3>1, <3>2
  <2>8. ~gone => Kept(p, held', got \cup l.say)
    <3> SUFFICES ASSUME ~gone PROVE Kept(p, held', got \cup l.say)
      OBVIOUS
    <3>1. Said(out) \subseteq Said(p) /\ Called(out) \subseteq Called(p)
      BY <1>i, <2>4, AddsKeeps DEF Said, Called
    <3>2. CASE won
      BY <2>4, <3>1, <3>2 DEF Kept
    <3>3. CASE ~won /\ tooled' /\ l.say # {}
      <4>1. held' = Append(held, l.say)
        BY <2>3, <3>3
      <4>2. /\ DOMAIN held' = 1 .. Len(held) + 1 /\ DOMAIN held = 1 .. Len(held) /\ Len(held) \in Nat
            /\ held'[Len(held) + 1] = l.say /\ \A i \in DOMAIN held : held'[i] = held[i]
        BY <1>i, <4>1
      <4>3. Len(held) + 1 \in DOMAIN held' /\ \A i \in DOMAIN held : i \in DOMAIN held'
        BY <4>2
      <4>4. CASE "text" \in l.say
        BY <4>2, <4>3, <4>4 DEF Kept
      <4>5. CASE "text" \notin l.say
        BY <2>5, <3>1, <4>2, <4>3, <4>5 DEF Kept
      <4> QED BY <4>4, <4>5
    <3>4. CASE ~won /\ tooled' /\ l.say = {}
      <4>1. held' = held /\ got \cup l.say = got
        BY <2>3, <3>4
      <4> QED BY <2>5, <3>1, <4>1 DEF Kept
    <3>5. CASE ~won /\ ~tooled'
      <4>1. held' = held
        BY <2>3, <3>5
      <4> QED BY <2>4, <2>5, <3>1, <3>5, <4>1 DEF Kept
    <3> QED BY <3>2, <3>3, <3>4, <3>5
  <2>9. TextKept'
    BY <2>1, <2>2, <2>8 DEF TextKept, Kept
  <2>10. ChatText'
    BY <2>1, <2>2, <2>6, <2>7 DEF ChatText, NoSlots
  <2> QED BY <2>1, <2>9, <2>10 DEF TextInv, Fresh, MsgText, Speaks
<1>9. ASSUME NEW l \in Lines, ChatBody(l) PROVE TextInv'
  <2> DEFINE known == Merged(l.calls)
             p == ChatBodySaid(l, known)
             why == IF l.finish = "none" THEN "stop" ELSE l.finish
  <2>1. /\ pc = "body" /\ pc # "over" /\ Speaks("chat") /\ ChatClose(p, <<>>, known, l.say, why)
        /\ tooled' = (tooled \/ DOMAIN l.calls # {})
    BY <1>9, Zenon DEF ChatBody, ChatBodySaid
  <2>2. /\ Sound(p) /\ p \in Outs /\ NoFinal(p)
        /\ (DOMAIN l.calls # {} => Said(p) = Said(out)) /\ (known = NoSlots => Called(p) = Called(out))
    BY <1>i, <2>1, ChatBodySays
  <2>3. why \in Finishes \cup {"none"} /\ <<>> \in Seq(SUBSET Parts)
    BY TurnAssumption DEF Finishes
  <2>4. slots = NoSlots /\ lines = 0 /\ Said(out) = {} /\ Called(out) = {}
    BY <2>1 DEF TextInv, Fresh, Speaks, Payload
  <2>5. DOMAIN l.calls = {} => known = NoSlots
    BY <1>i, <2>4 DEF Merged
  <2> HIDE DEF p, known, why
  <2>6. CallsAfterText(p)
    BY <2>2, <2>4, <2>5, OneKindOrdered
  <2>7. (tooled => tooled') /\ (~tooled' => known = NoSlots /\ Called(p) = {})
    BY <2>1, <2>2, <2>4, <2>5
  <2> QED BY <1>5, <2>1, <2>2, <2>3, <2>4, <2>6, <2>7
<1> QED BY <1>1, <1>3, <1>4, <1>6, <1>7, <1>8, <1>9 DEF ChatNext

\* What a Messages line brings is said, kept back, or gives way to a call.
LEMMA FeedKeeps ==
  ASSUME NEW o \in Outs, Writes(o), NEW h \in Seq(SUBSET Parts), NEW say \in SUBSET Parts,
         NEW known, NEW calls, NEW r, r = Feed(o, h, say, known, calls),
         NEW heard, Kept(o, h, heard)
  PROVE  Kept(r.out, r.held, heard \cup say)
<1>1. Fed(o, h, say, known, calls, r)
  BY FeedWrites
<1>2. Adds(o, r.out, {"stop", "start", "delta", "tool"}) /\ r.out \in Outs
      /\ (~tooled => Said(r.out) = Said(o) \cup say)
  BY <1>1 DEF Fed, Writes, Sound
<1>3. \/ r.held = h /\ (tooled => Called(o) # {} \/ say = {})
      \/ r.held = <<>> /\ Called(r.out) # {}
      \/ r.held = Append(h, say)
  BY <1>1 DEF Fed
<1>4. Said(o) \subseteq Said(r.out) /\ Called(o) \subseteq Called(r.out)
  BY <1>2, AddsKeeps DEF Said, Called
<1>5. CASE r.held = h /\ (tooled => Called(o) # {} \/ say = {})
  BY <1>2, <1>4, <1>5 DEF Kept
<1>6. CASE r.held = <<>> /\ Called(r.out) # {}
  BY <1>6 DEF Kept
<1>7. CASE r.held = Append(h, say)
  <2>1. /\ DOMAIN r.held = 1 .. Len(h) + 1 /\ DOMAIN h = 1 .. Len(h) /\ Len(h) \in Nat
        /\ r.held[Len(h) + 1] = say /\ \A i \in DOMAIN h : r.held[i] = h[i]
        /\ r.held \in Seq(SUBSET Parts)
    BY <1>7
  <2>2. Len(h) + 1 \in DOMAIN r.held /\ \A i \in DOMAIN h : i \in DOMAIN r.held
    BY <2>1
  <2>3. CASE "text" \in say
    BY <2>1, <2>2, <2>3 DEF Kept
  <2>4. CASE "text" \notin say
    BY <1>4, <2>1, <2>2, <2>4 DEF Kept
  <2> QED BY <2>1, <2>3, <2>4
<1> QED BY <1>3, <1>5, <1>6, <1>7

LEMMA MsgTexts == TypeOK /\ WireInv /\ TextInv /\ MsgNext => TextInv'
<1> SUFFICES ASSUME TypeOK, WireInv, TextInv, MsgNext PROVE TextInv'
  OBVIOUS
<1>i. /\ out \in Outs /\ Sound(out) /\ held \in Seq(SUBSET Parts) /\ finish \in Finishes \cup {"none"}
      /\ proto \in Protocols /\ (pc # "over" => NoFinal(out))
      /\ (streamed /\ proto = "messages" /\ pc # "over" => Writes(out))
  BY DEF TypeOK, WireInv, Sound, Writes
<1>m. Speaks("messages") /\ pc # "over" =>
        (tooled => Said(out) = {}) /\ (~gone => Kept(out, held, got))
  BY KeptIsTextKept DEF TextInv, MsgText, Speaks
<1>1. CASE MsgAnswered
  BY <1>1, TextOpens DEF MsgAnswered
<1>c. ASSUME Over, out' = Fail(out), UNCHANGED <<slots, held, got, tooled>>, pc # "over"
      PROVE  TextInv'
  <2>1. out' \in Outs /\ Adds(out, out', {"fail"}) /\ "delta" \notin {"fail"} /\ "tool" \notin {"fail"}
    BY <1>i, <1>c, FailSound DEF Sound
  <2> QED BY <1>c, <2>1, TextCut
<1>2. ASSUME NEW mayRetry, MsgGiveUp(mayRetry), pc # "over" PROVE TextInv'
  <2>1. CASE NextAccount /\ ~Opened(out)
    BY <1>2, <2>1, TextAgain, NoContent DEF MsgGiveUp
  <2>2. CASE Over /\ out' = Fail(out) /\ UNCHANGED <<slots, held, got, finish>>
    BY <1>2, <2>2, <1>c DEF MsgGiveUp
  <2> QED BY <1>2, <2>1, <2>2 DEF MsgGiveUp
<1>3. CASE MsgRefused
  BY <1>2, <1>3 DEF MsgRefused
<1>4. CASE MsgBroken
  BY <1>2, <1>4 DEF MsgBroken
<1>5. ASSUME NEW o \in Outs, Writes(o), NoFinal(o), NEW h \in Seq(SUBSET Parts), NEW known,
             NEW heard, NEW calls, NEW why \in Finishes \cup {"none"},
             tooled => Said(o) = {}, ~gone => Kept(o, h, heard),
             MsgClose(o, h, known, heard, calls, why), pc # "over", Speaks("messages")
      PROVE  TextInv'
  <2>1. CASE MsgGiveUp(TRUE)
    BY <1>2, <1>5, <2>1
  <2>2. CASE Over /\ out' = FinishStream(o, h, known, why) /\ got' = heard /\ held' = <<>>
             /\ UNCHANGED tooled
    <3> DEFINE p == FinishStream(o, h, known, why)
    <3>1. /\ Sound(p) /\ Adds(o, p, Kinds)
          /\ (Called(o) # {} \/ Finishable(known, o) # {} => Said(p) = Said(o) /\ Called(p) # {})
          /\ (Called(o) = {} /\ Finishable(known, o) = {} =>
                Called(p) = {} /\ \A i \in DOMAIN h : h[i] \subseteq Said(p))
      BY <1>i, <1>5, FinishWrites
    <3>2. out' = p
      BY <2>2
    <3> HIDE DEF p
    <3>3. Said(o) \subseteq Said(p) /\ Called(o) \subseteq Called(p)
      BY <3>1, AddsKeeps DEF Sound, Said, Called
    <3>4. ~gone => Kept(p, <<>>, heard)
      BY <1>5, <3>1, <3>3 DEF Kept
    <3>5. tooled => Said(p) = {} \/ Called(p) = {}
      BY <1>5, <3>1
    <3>6. proto' = "messages" /\ pc' = "over" /\ UNCHANGED <<streamed, lines, gone>>
      BY <1>5, <2>2 DEF Over, Speaks
    <3>7. TextKept'
      BY <2>2, <3>2, <3>4, <3>6 DEF TextKept, Kept
    <3>8. MsgText'
      BY <2>2, <3>2, <3>5, <3>6 DEF MsgText
    <3> QED BY <3>6, <3>7, <3>8 DEF TextInv, Fresh, ChatText
  <2> QED BY <1>5, <2>1, <2>2 DEF MsgClose
<1>6. CASE MsgDrained
  <2>1. pc # "over" /\ Speaks("messages")
        /\ MsgClose(out, held, slots, got, {t \in Tools : slots[t] # "unseen"}, finish)
    BY <1>6 DEF MsgDrained
  <2>2. Writes(out)
    BY <1>i, <2>1 DEF Speaks
  <2> QED BY <1>i, <1>m, <1>5, <2>1, <2>2
<1>7. CASE MsgCancelled
  <2>1. pc # "over" /\ Over /\ UNCHANGED <<tooled, slots, held, got>>
    BY <1>7 DEF MsgCancelled
  <2>2. CASE out' = out
    <3>1. Adds(out, out', {}) /\ "delta" \notin {} /\ "tool" \notin {}
      BY <1>i, <2>2 DEF Adds, Outs
    <3> QED BY <1>i, <2>1, <2>2, <3>1, TextCut
  <2> QED BY <1>7, <2>1, <2>2, <1>c DEF MsgCancelled
<1>8. ASSUME NEW l \in Lines, MsgLine(l) PROVE TextInv'
  <2> DEFINE r == Feed(out, held, l.say, slots', DOMAIN l.calls)
  <2>1. /\ out' = r.out /\ held' = r.held /\ got' = got \cup l.say /\ UNCHANGED <<streamed, tooled, gone>>
        /\ pc = "lines" /\ pc' = "lines" /\ proto' = "messages" /\ Speaks("messages")
    BY <1>8 DEF MsgLine, Read, Speaks
  <2>2. r = Feed(out, held, l.say, slots', DOMAIN l.calls)
    OBVIOUS
  <2> HIDE DEF r
  <2>3. Writes(out) /\ l.say \in SUBSET Parts
    BY <1>i, <2>1, TurnAssumption DEF Speaks
  <2>4. tooled => Said(r.out) = Said(out)
    <3>1. Fed(out, held, l.say, slots', DOMAIN l.calls, r)
      BY <1>i, <2>2, <2>3, FeedWrites
    <3> QED BY <3>1 DEF Fed
  <2>5. ~gone => Kept(r.out, r.held, got \cup l.say)
    <3>1. out \in Outs /\ held \in Seq(SUBSET Parts)
      BY <1>i
    <3>2. ~gone => Kept(out, held, got)
      BY <1>m, <2>1
    <3> QED BY <2>2, <2>3, <3>1, <3>2, FeedKeeps
  <2>6. TextKept'
    BY <2>1, <2>5 DEF TextKept, Kept
  <2>7. MsgText'
    BY <1>m, <2>1, <2>4 DEF MsgText
  <2> QED BY <2>1, <2>6, <2>7 DEF TextInv, Fresh, ChatText
<1>9. ASSUME NEW l \in Lines, MsgBody(l) PROVE TextInv'
  <2> DEFINE known == Merged(l.calls)
             r == Feed(out, held, l.say, known, DOMAIN l.calls)
  <2>1. pc = "body" /\ pc # "over" /\ Speaks("messages")
        /\ MsgClose(r.out, r.held, known, l.say, DOMAIN l.calls, l.finish)
    BY <1>9, Zenon DEF MsgBody
  <2>2. r = Feed(out, held, l.say, known, DOMAIN l.calls)
    OBVIOUS
  <2> HIDE DEF r, known
  <2>3. l.say \in SUBSET Parts /\ l.finish \in Finishes \cup {"none"} /\ Writes(out)
    BY <1>i, <2>1, TurnAssumption DEF Speaks
  <2>f. Fed(out, held, l.say, known, DOMAIN l.calls, r)
    BY <1>i, <2>2, <2>3, FeedWrites
  <2>4. Writes(r.out) /\ Adds(out, r.out, {"stop", "start", "delta", "tool"})
    BY <2>f DEF Fed
  <2>5. tooled => Said(r.out) = {}
    BY <1>m, <2>1, <2>f DEF Fed
  <2>6. Kept(r.out, r.held, l.say) /\ r.held \in Seq(SUBSET Parts)
    <3>1. out \in Outs /\ held \in Seq(SUBSET Parts)
      BY <1>i
    <3>2. Kept(out, held, got)
      BY <2>1 DEF Kept, TextInv, Fresh, Speaks
    <3>3. Kept(r.out, r.held, got \cup l.say)
      BY <2>2, <2>3, <3>1, <3>2, FeedKeeps
    <3>4. r.held \in Seq(SUBSET Parts)
      <4>1. r.held = held \/ r.held = <<>> \/ r.held = Append(held, l.say)
        BY <2>f DEF Fed
      <4>2. \A s \in SUBSET Parts : <<>> \in Seq(SUBSET Parts) /\ Append(held, s) \in Seq(SUBSET Parts)
        BY <3>1
      <4> QED BY <2>3, <3>1, <4>1, <4>2
    <3>5. l.say = got \cup l.say
      BY <2>1 DEF TextInv, Fresh, Speaks
    <3> QED BY <3>3, <3>4, <3>5
  <2>7. {"stop", "start", "delta", "tool"} \cap {"end", "fail"} = {} /\ r.out \in Outs
    BY <2>4 DEF Writes, Sound
  <2>8. NoFinal(r.out)
    BY <1>i, <2>1, <2>4, <2>7, StillNoFinal
  <2> QED BY <1>5, <2>1, <2>3, <2>4, <2>5, <2>6, <2>7, <2>8
<1> QED BY <1>1, <1>3, <1>4, <1>6, <1>7, <1>8, <1>9 DEF MsgNext

LEMMA RespTexts == TypeOK /\ WireInv /\ TextInv /\ RespNext => TextInv'
<1> SUFFICES ASSUME TypeOK, WireInv, TextInv, RespNext PROVE TextInv'
  OBVIOUS
<1>i. /\ out \in Outs /\ Sound(out) /\ (pc # "over" => NoFinal(out))
      /\ (streamed /\ proto = "responses" => out.block \in {"none", "text"})
      /\ held \in Seq(SUBSET Parts)
  BY DEF TypeOK, WireInv, Sound, Outs, Parts
<1>m. Speaks("responses") /\ pc # "over" =>
        (~gone => Kept(out, held, got)) /\ proto # "chat" /\ proto # "messages"
  BY KeptIsTextKept DEF TextInv, Speaks
<1>1. CASE RespAnswered
  BY <1>1, TextOpens DEF RespAnswered
<1>2. ASSUME NEW mayRetry, RespGiveUp(mayRetry), pc # "over" PROVE TextInv'
  <2>1. CASE NextAccount /\ ~Opened(out)
    BY <1>2, <2>1, TextAgain, NoContent DEF RespGiveUp
  <2>2. CASE Over /\ out' = Fail(Open(out)) /\ UNCHANGED <<slots, held, got, finish>>
    <3>1. Open(out) \in Outs /\ Sound(Open(out)) /\ Adds(out, Open(out), {"open"})
      BY <1>i, OpenSound DEF Sound
    <3>2. out' \in Outs /\ Adds(Open(out), out', {"fail"})
      BY <2>2, <3>1, FailSound DEF Sound
    <3>3. Adds(out, out', {"open"} \cup {"fail"})
      BY <1>i, <3>1, <3>2, AddsMore
    <3>4. "delta" \notin {"open"} \cup {"fail"} /\ "tool" \notin {"open"} \cup {"fail"}
      OBVIOUS
    <3> QED BY <1>2, <2>2, <3>2, <3>3, <3>4, TextCut DEF RespGiveUp
  <2> QED BY <1>2, <2>1, <2>2 DEF RespGiveUp
<1>3. CASE RespRefused
  BY <1>2, <1>3 DEF RespRefused
<1>4. CASE RespBroken
  BY <1>2, <1>4 DEF RespBroken
<1>5. ASSUME NEW o \in Outs, Sound(o), NoFinal(o), o.block \in {"none", "text"}, NEW known,
             NEW heard, ~gone => Kept(o, held, heard), NEW why, RespClose(o, known, heard, why),
             pc # "over", Speaks("responses")
      PROVE  TextInv'
  <2> DEFINE q == CompleteStream(o, known)
             f == Fail(o)
  <2>1. Adds(o, q, Kinds) /\ q \in Outs
    BY <1>5, CompleteSound DEF Sound
  <2>2. Adds(o, f, Kinds) /\ f \in Outs
    BY <1>5, Closed DEF Sound
  <2>3. /\ out' = q \/ out' = f
        /\ got' = heard /\ proto' = "responses" /\ pc' = "over"
        /\ UNCHANGED <<gone, streamed, lines, tooled, held>>
    BY <1>5 DEF RespClose, Over, Speaks
  <2> HIDE DEF q, f
  <2>4. ~gone => Kept(out', held, heard)
    BY <1>5, <2>1, <2>2, <2>3, KeptMore
  <2>5. TextKept'
    BY <2>3, <2>4 DEF TextKept, Kept
  <2> QED BY <2>3, <2>5 DEF TextInv, Fresh, ChatText, MsgText
<1>6. CASE RespDrained
  <2>1. pc # "over" /\ Speaks("responses") /\ RespClose(out, slots, got, finish)
    BY <1>6 DEF RespDrained
  <2> QED BY <1>i, <1>m, <1>5, <2>1 DEF Speaks
<1>7. CASE RespCancelled
  <2>1. pc # "over" /\ Over /\ UNCHANGED <<tooled, slots, held, got>>
    BY <1>7 DEF RespCancelled
  <2>2. out' \in Outs /\ Adds(out, out', {"fail"}) /\ "delta" \notin {"fail"} /\ "tool" \notin {"fail"}
    <3>1. CASE out' = out
      BY <1>i, <3>1 DEF Adds, Outs
    <3>2. CASE out' = Fail(out)
      BY <1>i, <3>2, FailSound DEF Sound
    <3> QED BY <1>7, <3>1, <3>2 DEF RespCancelled
  <2> QED BY <2>1, <2>2, TextCut
<1>s. ASSUME Speaks("responses"), NEW say, NEW known, NEW calls, NEW p,
             p = RespCall(RespSay(out, say), known, calls)
      PROVE  /\ Sound(p) /\ p \in Outs /\ p.block \in {"none", "text"}
             /\ Adds(out, p, {"start", "delta", "tool"})
             /\ \A heard : Kept(out, held, heard) => Kept(p, held, heard \cup say)
  <2>1. out.block \in {"none", "text"}
    BY <1>i, <1>s DEF Speaks
  <2>2. /\ Sound(p) /\ p \in Outs /\ p.block \in {"none", "text"}
        /\ Adds(out, p, {"start", "delta", "tool"}) /\ ("text" \in say => "text" \in Said(p))
    BY <1>i, <1>s, <2>1, RespFeeds
  <2>3. ASSUME NEW heard, Kept(out, held, heard) PROVE Kept(p, held, heard \cup say)
    <3>1. Kept(p, held, heard)
      BY <1>i, <2>2, <2>3, KeptMore
    <3> QED BY <2>2, <3>1 DEF Kept
  <2> QED BY <2>2, <2>3
<1>8. ASSUME NEW l \in Lines, RespLine(l) PROVE TextInv'
  <2> DEFINE p == RespCall(RespSay(out, l.say), slots', DOMAIN l.calls)
  <2>1. /\ out' = p /\ got' = got \cup l.say /\ Speaks("responses") /\ pc = "lines" /\ pc' = "lines"
        /\ proto' = "responses" /\ UNCHANGED <<streamed, tooled, held, gone>>
    BY <1>8 DEF RespLine, Read, Speaks
  <2>2. \A heard : Kept(out, held, heard) => Kept(p, held, heard \cup l.say)
    BY <1>s, <2>1
  <2> HIDE DEF p
  <2>3. ~gone => Kept(p, held, got \cup l.say)
    BY <1>m, <2>1, <2>2
  <2>4. TextKept'
    BY <2>1, <2>3 DEF TextKept, Kept
  <2> QED BY <2>1, <2>4 DEF TextInv, Fresh, ChatText, MsgText
<1>9. ASSUME NEW l \in Lines, RespBody(l) PROVE TextInv'
  <2> DEFINE known == Merged(l.calls)
             p == RespCall(RespSay(out, l.say), known, DOMAIN l.calls)
  <2>1. pc = "body" /\ pc # "over" /\ Speaks("responses") /\ RespClose(p, known, l.say, l.finish)
    BY <1>9, Zenon DEF RespBody
  <2>2. /\ Sound(p) /\ p \in Outs /\ p.block \in {"none", "text"}
        /\ Adds(out, p, {"start", "delta", "tool"})
        /\ \A heard : Kept(out, held, heard) => Kept(p, held, heard \cup l.say)
    BY <1>s, <2>1
  <2> HIDE DEF p, known
  <2>3. {"start", "delta", "tool"} \cap {"end", "fail"} = {}
    OBVIOUS
  <2>4. NoFinal(p)
    BY <1>i, <2>1, <2>2, <2>3, StillNoFinal
  <2>5. ~gone => Kept(p, held, l.say)
    BY <1>m, <2>1, <2>2 DEF Kept
  <2> QED BY <1>5, <2>1, <2>2, <2>4, <2>5
<1> QED BY <1>1, <1>3, <1>4, <1>6, <1>7, <1>8, <1>9 DEF RespNext

LEMMA TextAtFirst == Init => TextInv
<1> SUFFICES ASSUME Init PROVE TextInv
  OBVIOUS
<1>1. Said(out) = {} /\ Called(out) = {} /\ CallsAfterText(out)
  BY SilentIsSound, OneKindOrdered DEF Init, Said, Called
<1> QED BY <1>1 DEF Init, TextInv, Fresh, ChatText, MsgText, TextKept, Payload

\* Who only closes the connection, or does nothing, leaves the text as it is.
LEMMA TextStands ==
  ASSUME TextInv, UNCHANGED <<proto, streamed, tooled, pc, lines, slots, held, got, out>>,
         gone' = gone \/ gone' = TRUE
  PROVE  TextInv'
<1>1. /\ proto' = proto /\ streamed' = streamed /\ tooled' = tooled /\ pc' = pc /\ lines' = lines
      /\ slots' = slots /\ held' = held /\ got' = got /\ out' = out
  OBVIOUS
<1>2. (Payload(out) <=> Payload(out)') /\ Said(out)' = Said(out) /\ Called(out)' = Called(out)
      /\ (CallsAfterText(out) <=> CallsAfterText(out)')
  BY <1>1, Zenon DEF Payload, Said, Called, Sent, CallsAfterText
<1>3. Fresh'
  BY <1>1, <1>2 DEF TextInv, Fresh, NoSlots
<1>4. ChatText'
  BY <1>1, <1>2 DEF TextInv, ChatText, NoSlots
<1>5. MsgText'
  BY <1>1, <1>2 DEF TextInv, MsgText
<1>6. TextKept'
  BY <1>1, <1>2 DEF TextInv, TextKept
<1> QED BY <1>3, <1>4, <1>5, <1>6 DEF TextInv

LEMMA TextSteps == TypeOK /\ WireInv /\ TextInv /\ [Next]_vars => TextInv'
<1> SUFFICES ASSUME TypeOK, WireInv, TextInv, [Next]_vars PROVE TextInv'
  OBVIOUS
<1>1. CASE CollectNext
  <2>1. \A mayRetry : CollectGiveUp(mayRetry) => UNCHANGED streamed
    BY DEF CollectGiveUp, NextAccount, Over
  <2>2. \A known, heard, why, raw : CollectClose(known, heard, why, raw) => UNCHANGED streamed
    BY <2>1 DEF CollectClose, Over
  <2>3. ~streamed /\ UNCHANGED streamed
    BY <1>1, <2>1, <2>2 DEF CollectNext, CollectAnswered, Answered, CollectRefused, CollectBroken,
                            CollectDrained, CollectCancelled, CollectLine, CollectBody, Over
  <2> QED BY <2>3 DEF TextInv, Fresh, ChatText, MsgText, TextKept
<1>2. CASE Leave
  <2>1. gone' = TRUE /\ UNCHANGED <<proto, streamed, tooled, pc, lines, slots, held, got, out>>
    BY <1>2 DEF Leave
  <2> QED BY <2>1, TextStands
<1>3. CASE UNCHANGED vars
  <2>1. UNCHANGED <<proto, streamed, tooled, pc, lines, slots, held, got, gone, out>>
    BY <1>3 DEF vars
  <2> QED BY <2>1, TextStands
<1> QED BY <1>1, <1>2, <1>3, ChatTexts, MsgTexts, RespTexts DEF Next

LEMMA TextGives == TypeOK /\ TextInv => TextGivesWay
<1> SUFFICES ASSUME TypeOK, TextInv PROVE ToolsWin
  BY DEF TextGivesWay, TextInv
<1> SUFFICES ASSUME streamed, tooled, proto # "responses", NEW i \in DOMAIN out.wire,
                    NEW j \in DOMAIN out.wire, out.wire[i].kind = "tool", out.wire[j].kind = "delta"
             PROVE  proto = "chat" /\ j < i
  BY DEF ToolsWin, Wire
<1>1. CASE proto = "chat"
  BY <1>1 DEF TextInv, ChatText, CallsAfterText
<1>2. CASE proto = "messages"
  <2>1. Called(out) # {} /\ Said(out) # {}
    BY DEF Called, Said, Sent
  <2> QED BY <1>2, <2>1 DEF TextInv, MsgText
<1> QED BY <1>1, <1>2 DEF TypeOK, Protocols

\* Text and calls exclude each other in a turn with tools, and no text that
\* an account has said is lost: it is on the wire, kept back, or a call was
\* sent in its place.
THEOREM TextAlwaysGivesWay == Spec => []TextGivesWay
BY TypesHold, WireAlways, TextAtFirst, TextSteps, TextGives, PTL DEF Spec
=============================================================================
