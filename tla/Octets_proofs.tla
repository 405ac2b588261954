----------------------------- MODULE Octets_proofs -----------------------------
(***************************************************************************)
(* Facts that the proofs about codecs and addresses rest on: induction and *)
(* recursion, and the functions of Octets.  Induction speaks of sets of    *)
(* numbers where the library's theorems speak of predicates.               *)
(***************************************************************************)
EXTENDS Octets, SequenceTheorems, WellFoundedInduction, TLAPS

-----------------------------------------------------------------------------
(* Numbers.                                                                *)

\* A set of numbers has a least.
LEMMA NatMin ==
  ASSUME NEW T \in SUBSET Nat, T # {}
  PROVE  \E x \in T : \A y \in T : x <= y
<1> DEFINE R == OpToRel(<, Nat)
<1>1. IsWellFoundedOn(R, Nat)
  BY NatLessThanWellFounded
<1>2. \A x, y \in Nat : y < x => <<y, x>> \in R
  BY DEF OpToRel
<1> HIDE DEF R
<1>3. \E x \in T : \A y \in T : ~(<<y, x>> \in R)
  BY <1>1, WFMin
<1>4. PICK x \in T : \A y \in T : ~(<<y, x>> \in R)
  BY <1>3
<1>5. ASSUME NEW y \in T PROVE x <= y
  <2>1. x \in Nat /\ y \in Nat /\ ~(y < x)
    BY <1>2, <1>4, <1>5
  <2> QED
    BY <2>1
<1> QED
  BY <1>5

\* A set of numbers that are bounded has a greatest.
LEMMA NatMax ==
  ASSUME NEW T \in SUBSET Nat, T # {}, NEW bound \in Nat, \A x \in T : x <= bound
  PROVE  \E x \in T : \A y \in T : y <= x
<1> DEFINE D == {d \in Nat : bound - d \in T}
<1>1. PICK t \in T : TRUE
  OBVIOUS
<1>2. bound - t \in D
  <2>1. t \in Nat /\ t <= bound
    BY <1>1
  <2>2. bound - t \in Nat /\ bound - (bound - t) = t
    BY <2>1
  <2> QED
    BY <2>2
<1>3. PICK d \in D : \A e \in D : d <= e
  <2>1. D \in SUBSET Nat /\ D # {}
    BY <1>2
  <2> HIDE DEF D
  <2> QED
    BY <2>1, NatMin
<1>4. ASSUME NEW y \in T PROVE y <= bound - d
  <2>1. y \in Nat /\ y <= bound
    BY <1>4
  <2>2. bound - y \in Nat /\ bound - (bound - y) = y
    BY <2>1
  <2>3. bound - y \in D
    BY <2>2
  <2>4. d \in Nat /\ d <= bound - y
    BY <1>3, <2>3
  <2> QED
    BY <2>1, <2>4
<1>5. bound - d \in T
  BY <1>3
<1> QED
  BY <1>4, <1>5

\* A set that holds zero and with each number the next holds all numbers.
LEMMA NatInd ==
  ASSUME NEW S, 0 \in S, \A n \in Nat : n \in S => n + 1 \in S
  PROVE  Nat \subseteq S
<1> SUFFICES ASSUME Nat \ S # {} PROVE FALSE
  OBVIOUS
<1>1. PICK x \in Nat \ S : \A y \in Nat \ S : x <= y
  BY NatMin
<1>2. x # 0 /\ x - 1 \in Nat /\ x = (x - 1) + 1 /\ ~(x <= x - 1)
  BY <1>1
<1>3. x - 1 \in S
  BY <1>1, <1>2
<1> QED
  BY <1>1, <1>2, <1>3

-----------------------------------------------------------------------------
(* Recursion on what gets smaller: f[x] is base[x] where stop holds, and    *)
(* made of x and f[next[x]] elsewhere.                                     *)

Unfolds(f, x, stop, base, next, join) ==
  f[x] = IF x \in stop THEN base[x] ELSE join[<<x, f[next[x]]>>]

UnfoldsBelow(f, n, D, size, stop, base, next, join) ==
  \A x \in D : size[x] < n => Unfolds(f, x, stop, base, next, join)

Shrinks(D, size, stop, next) ==
  /\ size \in [D -> Nat] /\ next \in [D -> D]
  /\ \A x \in D \ stop : size[next[x]] < size[x]

\* What holds where stop does, and of x if of next[x], holds everywhere.
LEMMA SizeInduction ==
  ASSUME NEW D, NEW size, NEW stop, NEW next, Shrinks(D, size, stop, next), NEW P,
         \A x \in D : x \in stop => x \in P,
         \A x \in D : x \notin stop /\ next[x] \in D /\ next[x] \in P => x \in P
  PROVE  D \subseteq P
<1> DEFINE Bad == D \ P
           T == {size[x] : x \in Bad}
<1> SUFFICES ASSUME Bad # {} PROVE FALSE
  OBVIOUS
<1>1. size \in [D -> Nat] /\ next \in [D -> D]
  BY DEF Shrinks
<1>2. PICK x \in Bad : \A y \in Bad : size[x] <= size[y]
  <2>1. T \in SUBSET Nat /\ T # {}
    BY <1>1
  <2>2. PICK s \in T : \A t \in T : s <= t
    <3> HIDE DEF T
    <3> QED
      BY <2>1, NatMin
  <2> QED
    BY <2>2
<1>3. x \in D /\ x \notin stop /\ next[x] \in D /\ next[x] \notin P
  BY <1>1, <1>2
<1>4. size[next[x]] < size[x] /\ size[x] \in Nat /\ size[next[x]] \in Nat
  BY <1>1, <1>3 DEF Shrinks
<1>5. size[x] <= size[next[x]]
  BY <1>2, <1>3
<1> QED
  BY <1>4, <1>5

\* Such a function is determined,
LEMMA RecursionUnique ==
  ASSUME NEW D, NEW size, NEW stop, NEW base, NEW next, NEW join,
         Shrinks(D, size, stop, next), NEW n \in Nat,
         NEW f, UnfoldsBelow(f, n, D, size, stop, base, next, join),
         NEW g, UnfoldsBelow(g, n, D, size, stop, base, next, join)
  PROVE  \A x \in D : size[x] < n => f[x] = g[x]
<1> DEFINE Bad == {x \in D : size[x] < n /\ f[x] # g[x]}
<1> SUFFICES ASSUME Bad # {} PROVE FALSE
  OBVIOUS
<1>1. size \in [D -> Nat] /\ next \in [D -> D]
  BY DEF Shrinks
<1>2. PICK x \in Bad : \A y \in Bad : size[x] <= size[y]
  <2> DEFINE T == {size[x] : x \in Bad}
  <2>1. T \in SUBSET Nat /\ T # {}
    BY <1>1
  <2>2. PICK s \in T : \A t \in T : s <= t
    <3> HIDE DEF T
    <3> QED
      BY <2>1, NatMin
  <2> QED
    BY <2>2
<1>3. x \in D /\ size[x] < n /\ f[x] # g[x]
  BY <1>2
<1>4. x \notin stop
  BY <1>3 DEF Unfolds, UnfoldsBelow
<1>5. next[x] \in D /\ size[next[x]] < size[x]
  BY <1>1, <1>3, <1>4 DEF Shrinks
<1>6. size[x] \in Nat /\ size[next[x]] \in Nat
  BY <1>1, <1>3, <1>5
<1>7. size[next[x]] < n /\ ~(size[x] <= size[next[x]])
  BY <1>3, <1>5, <1>6
<1>8. next[x] \notin Bad
  BY <1>2, <1>7
<1>9. f[next[x]] = g[next[x]]
  BY <1>5, <1>7, <1>8
<1> QED
  BY <1>3, <1>4, <1>9 DEF Unfolds, UnfoldsBelow

\* and there is one.
LEMMA RecursionExists ==
  ASSUME NEW D, NEW R, NEW size, NEW stop, NEW base \in [D -> R], NEW next,
         NEW join \in [D \X R -> R], Shrinks(D, size, stop, next)
  PROVE  \E f \in [D -> R] : \A x \in D : Unfolds(f, x, stop, base, next, join)
<1> DEFINE Upto(n) ==
             {f \in [D -> R] : \A x \in D : size[x] < n => Unfolds(f, x, stop, base, next, join)}
           S == {n \in Nat : Upto(n) # {}}
<1>1. size \in [D -> Nat] /\ next \in [D -> D]
  BY DEF Shrinks
<1>2. 0 \in S
  <2>1. \A x \in D : ~(size[x] < 0)
    BY <1>1
  <2>2. base \in Upto(0)
    BY <2>1
  <2> QED
    BY <2>2
<1>3. ASSUME NEW n \in Nat, n \in S PROVE n + 1 \in S
  <2>1. PICK f \in [D -> R] :
          \A x \in D : size[x] < n => Unfolds(f, x, stop, base, next, join)
    BY <1>3
  <2> DEFINE g == [x \in D |-> IF x \in stop THEN base[x] ELSE join[<<x, f[next[x]]>>]]
  <2>2. g \in [D -> R]
    <3>1. ASSUME NEW x \in D
          PROVE  (IF x \in stop THEN base[x] ELSE join[<<x, f[next[x]]>>]) \in R
      <4>1. <<x, f[next[x]]>> \in D \X R
        BY <1>1
      <4> QED
        BY <4>1
    <3> QED
      BY <3>1
  <2>3. ASSUME NEW x \in D, size[x] < n + 1 PROVE Unfolds(g, x, stop, base, next, join)
    <3>1. CASE x \in stop
      BY <3>1 DEF Unfolds
    <3>2. CASE x \notin stop
      <4>1. next[x] \in D /\ size[next[x]] < size[x]
        BY <1>1, <3>2 DEF Shrinks
      <4>2. size[x] \in Nat /\ size[next[x]] \in Nat
        BY <1>1, <4>1
      <4>3. size[next[x]] < n
        BY <2>3, <4>1, <4>2
      <4>4. Unfolds(f, next[x], stop, base, next, join)
        BY <2>1, <4>1, <4>3
      <4>5. g[next[x]] = f[next[x]]
        BY <4>1, <4>4 DEF Unfolds
      <4> QED
        BY <3>2, <4>5 DEF Unfolds
    <3> QED
      BY <3>1, <3>2
  <2> HIDE DEF g
  <2>4. g \in Upto(n + 1)
    BY <2>2, <2>3
  <2> QED
    BY <2>4
<1>4. Nat \subseteq S
  <2> HIDE DEF S
  <2> QED
    BY <1>2, <1>3, NatInd
<1> DEFINE F(n) == CHOOSE f \in [D -> R] :
                     \A x \in D : size[x] < n => Unfolds(f, x, stop, base, next, join)
           f == [x \in D |-> F(size[x] + 1)[x]]
<1>5. ASSUME NEW n \in Nat
      PROVE  /\ F(n) \in [D -> R]
             /\ \A x \in D : size[x] < n => Unfolds(F(n), x, stop, base, next, join)
  <2>1. \E h \in [D -> R] : \A x \in D : size[x] < n => Unfolds(h, x, stop, base, next, join)
    BY <1>4
  <2> QED
    BY <2>1, Zenon
<1> HIDE DEF F
<1>6. ASSUME NEW x \in D, NEW n \in Nat, size[x] < n PROVE F(n)[x] = f[x]
  <2>1. PICK m \in Nat : m = size[x] + 1
    BY <1>1
  <2>2. PICK g, h : g = F(m) /\ h = F(n)
    OBVIOUS
  <2>3. size[x] < m /\ m <= n
    BY <1>1, <1>6, <2>1
  <2>4. UnfoldsBelow(g, m, D, size, stop, base, next, join)
    BY <1>5, <2>2 DEF UnfoldsBelow
  <2>5. UnfoldsBelow(h, m, D, size, stop, base, next, join)
    <3>1. \A y \in D : size[y] < m => size[y] < n
      BY <1>1, <2>3
    <3> QED
      BY <1>5, <2>2, <3>1 DEF UnfoldsBelow
  <2>6. h[x] = g[x]
    BY <2>3, <2>4, <2>5, RecursionUnique, SMTT(60)
  <2> QED
    BY <2>1, <2>2, <2>6
<1>7. f \in [D -> R]
  <2>1. ASSUME NEW x \in D PROVE F(size[x] + 1)[x] \in R
    BY <1>1, <1>5
  <2> QED
    BY <2>1
<1>8. ASSUME NEW x \in D PROVE Unfolds(f, x, stop, base, next, join)
  <2>1. size[x] \in Nat /\ size[x] + 1 \in Nat /\ size[x] < size[x] + 1
    BY <1>1
  <2>2. Unfolds(F(size[x] + 1), x, stop, base, next, join)
    BY <1>5, <2>1
  <2>3. F(size[x] + 1)[x] = f[x]
    BY <1>6, <2>1
  <2>4. x \notin stop => F(size[x] + 1)[next[x]] = f[next[x]]
    <3> SUFFICES ASSUME x \notin stop PROVE F(size[x] + 1)[next[x]] = f[next[x]]
      OBVIOUS
    <3>1. next[x] \in D /\ size[next[x]] < size[x]
      BY <1>1 DEF Shrinks
    <3>2. size[next[x]] \in Nat /\ size[next[x]] < size[x] + 1
      BY <1>1, <2>1, <3>1
    <3> QED
      BY <1>6, <2>1, <3>1, <3>2
  <2> QED
    BY <2>2, <2>3, <2>4 DEF Unfolds
<1> HIDE DEF f
<1> QED
  BY <1>7, <1>8

-----------------------------------------------------------------------------
(* Octet strings.                                                          *)

String == Seq(Octet)

\* Strings one behind the other.
LEMMA StringConcat ==
  ASSUME NEW a \in String, NEW b \in String
  PROVE  /\ Len(a) \in Nat /\ Len(b) \in Nat
         /\ a \o b \in String /\ Len(a \o b) = Len(a) + Len(b)
         /\ \A i \in 1 .. Len(a) : (a \o b)[i] = a[i]
         /\ \A i \in 1 .. Len(b) : (a \o b)[Len(a) + i] = b[i]
<1> DEFINE S == Octet
<1>1. a \in Seq(S) /\ b \in Seq(S)
  BY DEF String
<1> HIDE DEF S
<1>2. Len(a) \in Nat /\ Len(b) \in Nat
  BY <1>1
<1>3. /\ a \o b \in Seq(S) /\ Len(a \o b) = Len(a) + Len(b)
      /\ \A i \in 1 .. Len(a) : (a \o b)[i] = a[i]
      /\ \A i \in 1 .. Len(b) : (a \o b)[Len(a) + i] = b[i]
  BY <1>1, <1>2, ConcatProperties
<1> QED
  BY <1>2, <1>3 DEF S, String

LEMMA StringAssoc ==
  ASSUME NEW a \in String, NEW b \in String, NEW c \in String
  PROVE  (a \o b) \o c = a \o (b \o c)
<1> DEFINE S == Octet
<1>1. a \in Seq(S) /\ b \in Seq(S) /\ c \in Seq(S)
  BY DEF String
<1> HIDE DEF S
<1> QED
  BY <1>1, ConcatAssociative

LEMMA StringEmpty ==
  /\ <<>> \in String
  /\ \A a \in String : a \o <<>> = a /\ <<>> \o a = a
  /\ \A a \in String : Len(a) = 0 <=> a = <<>>
<1>1. <<>> \in Seq(Octet)
  OBVIOUS
<1>2. \A a \in Seq(Octet) : a \o <<>> = a /\ <<>> \o a = a
  BY ConcatEmptySeq, Zenon
<1>3. \A a \in Seq(Octet) : Len(a) = 0 <=> a = <<>>
  BY EmptySeq, Zenon
<1> QED
  BY <1>1, <1>2, <1>3, Zenon DEF String

\* What is cut out of a string,
LEMMA SliceProps ==
  ASSUME NEW b \in String, NEW from \in Nat, NEW to \in Nat
  PROVE  /\ Slice(b, from, to) \in String
         /\ from <= to /\ to <= Len(b) => Len(Slice(b, from, to)) = to - from
         /\ from <= Len(b) /\ Len(b) <= to => Len(Slice(b, from, to)) = Len(b) - from
         /\ Len(Slice(b, from, to)) <= Len(b)
         /\ \A i \in 1 .. Len(Slice(b, from, to)) : Slice(b, from, to)[i] = b[from + i]
<1> DEFINE end == IF to < Len(b) THEN to ELSE Len(b)
<1>1. Len(b) \in Nat /\ end \in Nat /\ end <= Len(b)
  BY DEF String
<1>2. \A i \in from + 1 .. end : b[i] \in Octet
  BY <1>1 DEF String
<1>3. Slice(b, from, to) = SubSeq(b, from + 1, end)
  BY DEF Slice
<1>4. from + 1 \in Int /\ end \in Int
  BY <1>1
<1> HIDE DEF end
<1>5. /\ SubSeq(b, from + 1, end) \in Seq(Octet)
      /\ Len(SubSeq(b, from + 1, end)) = IF from + 1 <= end THEN end - (from + 1) + 1 ELSE 0
      /\ \A i \in 1 .. end - (from + 1) + 1 : SubSeq(b, from + 1, end)[i] = b[from + 1 + i - 1]
  BY <1>2, <1>4, SubSeqProperties
<1>6. /\ Len(Slice(b, from, to)) = IF from + 1 <= end THEN end - from ELSE 0
      /\ \A i \in 1 .. Len(Slice(b, from, to)) : Slice(b, from, to)[i] = b[from + i]
  <2>1. end - (from + 1) + 1 = end - from
    BY <1>4
  <2>2. \A i \in 1 .. end - from : from + 1 + i - 1 = from + i
    OBVIOUS
  <2> QED
    BY <1>3, <1>4, <1>5, <2>1, <2>2
<1>7. /\ from <= to /\ to <= Len(b) => Len(Slice(b, from, to)) = to - from
      /\ from <= Len(b) /\ Len(b) <= to => Len(Slice(b, from, to)) = Len(b) - from
      /\ Len(Slice(b, from, to)) <= Len(b)
  BY <1>1, <1>6 DEF end
<1> QED
  BY <1>3, <1>5, <1>6, <1>7 DEF String

\* and out of a string made of others.
LEMMA SliceOfJoin ==
  ASSUME NEW a \in String, NEW v \in String, NEW c \in String
  PROVE  Slice(a \o (v \o c), Len(a), Len(a) + Len(v)) = v
<1> DEFINE b == a \o (v \o c)
           to == Len(a) + Len(v)
           s == Slice(b, Len(a), to)
<1>1. Len(a) \in Nat /\ Len(v) \in Nat /\ Len(c) \in Nat
  BY DEF String
<1>2. b \in String /\ Len(b) = Len(a) + Len(v) + Len(c)
  BY ConcatProperties DEF String
<1>3. \A i \in 1 .. Len(v) : b[Len(a) + i] = v[i]
  BY <1>1, ConcatProperties DEF String
<1>4. to \in Nat /\ Len(a) <= to /\ to <= Len(b) /\ to - Len(a) = Len(v)
  BY <1>1, <1>2
<1> HIDE DEF b, to
<1>5. /\ s \in String /\ Len(s) = Len(v)
      /\ \A i \in 1 .. Len(s) : s[i] = b[Len(a) + i]
  BY <1>1, <1>2, <1>4, SliceProps
<1>6. \A i \in 1 .. Len(s) : s[i] = v[i]
  BY <1>3, <1>5
<1> HIDE DEF s
<1>7. s = v
  BY <1>5, <1>6, SeqEqual DEF String
<1> QED
  BY <1>7 DEF s, b, to

LEMMA RestOfJoin ==
  ASSUME NEW a \in String, NEW c \in String
  PROVE  Rest(a \o c, Len(a)) = c
<1>1. Len(a) \in Nat /\ Len(c) \in Nat
  BY DEF String
<1>2. a \o c \in String /\ Len(a \o c) = Len(a) + Len(c)
  BY ConcatProperties DEF String
<1>3. <<>> \in String /\ c \o <<>> = c
  BY ConcatEmptySeq DEF String
<1>4. Slice(a \o (c \o <<>>), Len(a), Len(a) + Len(c)) = c
  BY <1>3, SliceOfJoin
<1> QED
  BY <1>2, <1>3, <1>4 DEF Rest

LEMMA HeadOfJoin ==
  ASSUME NEW a \in String, NEW c \in String
  PROVE  Slice(a \o c, 0, Len(a)) = a
<1>1. <<>> \in String /\ <<>> \o (a \o c) = a \o c /\ Len(<<>>) = 0
  <2>1. a \o c \in String
    BY ConcatProperties DEF String
  <2> QED
    BY <2>1, ConcatEmptySeq DEF String
<1>2. Slice(<<>> \o (a \o c), Len(<<>>), Len(<<>>) + Len(a)) = a
  BY <1>1, SliceOfJoin
<1>3. 0 + Len(a) = Len(a)
  BY DEF String
<1> QED
  BY <1>1, <1>2, <1>3

\* The same of operators that the provers do not look into.
Cat(a, b) == a \o b
One(o) == <<o>>

LEMMA CatProps ==
  ASSUME NEW a \in String, NEW b \in String
  PROVE  /\ Len(a) \in Nat /\ Len(b) \in Nat
         /\ Cat(a, b) \in String /\ Len(Cat(a, b)) = Len(a) + Len(b)
         /\ \A i \in 1 .. Len(a) : Cat(a, b)[i] = a[i]
         /\ \A i \in 1 .. Len(b) : Cat(a, b)[Len(a) + i] = b[i]
BY StringConcat, Zenon DEF Cat

LEMMA CatAssoc ==
  ASSUME NEW a \in String, NEW b \in String, NEW c \in String
  PROVE  Cat(Cat(a, b), c) = Cat(a, Cat(b, c))
BY StringAssoc, Zenon DEF Cat

LEMMA CatEmpty ==
  /\ <<>> \in String
  /\ \A a \in String : Cat(a, <<>>) = a /\ Cat(<<>>, a) = a
  /\ \A a \in String : Len(a) = 0 <=> a = <<>>
BY StringEmpty, Zenon DEF Cat

LEMMA SliceOfCat ==
  ASSUME NEW a \in String, NEW v \in String, NEW c \in String
  PROVE  Slice(Cat(a, Cat(v, c)), Len(a), Len(a) + Len(v)) = v
BY SliceOfJoin, Zenon DEF Cat

LEMMA RestOfCat ==
  ASSUME NEW a \in String, NEW c \in String
  PROVE  Rest(Cat(a, c), Len(a)) = c
BY RestOfJoin, Zenon DEF Cat

LEMMA HeadOfCat ==
  ASSUME NEW a \in String, NEW c \in String
  PROVE  Slice(Cat(a, c), 0, Len(a)) = a
BY HeadOfJoin, Zenon DEF Cat

\* What is cut off from a string made of two, behind the first.
LEMMA HeadBeyond ==
  ASSUME NEW a \in String, NEW c \in String, NEW k \in Nat, k <= Len(c)
  PROVE  Slice(Cat(a, c), 0, Len(a) + k) = Cat(a, Slice(c, 0, k))
<1>1. /\ Len(a) \in Nat /\ Len(c) \in Nat /\ Cat(a, c) \in String
      /\ Len(Cat(a, c)) = Len(a) + Len(c)
  BY CatProps, Zenon
<1>2. PICK b \in String : b = Cat(a, c) /\ Len(b) = Len(a) + Len(c)
  BY <1>1, Zenon
<1>3. PICK m \in Nat : m = Len(a) + k
  BY <1>1
<1>4. 0 \in Nat /\ 0 <= m /\ m <= Len(b) /\ 0 <= k /\ k <= Len(c) /\ m - 0 = m /\ k - 0 = k
  BY <1>1, <1>2, <1>3
<1>5. PICK s \in String : s = Slice(b, 0, m) /\ Len(s) = m /\ \A i \in 1 .. Len(s) : s[i] = b[0 + i]
  <2>1. /\ Slice(b, 0, m) \in String /\ Len(Slice(b, 0, m)) = m - 0
        /\ \A i \in 1 .. Len(Slice(b, 0, m)) : Slice(b, 0, m)[i] = b[0 + i]
    BY <1>4, SliceProps, Zenon
  <2> QED
    BY <1>4, <2>1, Zenon
<1>6. PICK d \in String : d = Slice(c, 0, k) /\ Len(d) = k /\ \A i \in 1 .. Len(d) : d[i] = c[0 + i]
  <2>1. /\ Slice(c, 0, k) \in String /\ Len(Slice(c, 0, k)) = k - 0
        /\ \A i \in 1 .. Len(Slice(c, 0, k)) : Slice(c, 0, k)[i] = c[0 + i]
    BY <1>4, SliceProps, Zenon
  <2> QED
    BY <1>4, <2>1, Zenon
<1>7. PICK e \in String : /\ e = Cat(a, d) /\ Len(e) = m
                          /\ \A i \in 1 .. Len(a) : e[i] = a[i]
                          /\ \A i \in 1 .. Len(d) : e[Len(a) + i] = d[i]
  <2>1. /\ Cat(a, d) \in String /\ Len(Cat(a, d)) = Len(a) + Len(d)
        /\ \A i \in 1 .. Len(a) : Cat(a, d)[i] = a[i]
        /\ \A i \in 1 .. Len(d) : Cat(a, d)[Len(a) + i] = d[i]
    BY CatProps, Zenon
  <2>2. Len(a) + Len(d) = m
    BY <1>3, <1>6, Zenon
  <2>3. Len(Cat(a, d)) = m
    BY <2>1, <2>2, Zenon
  <2> QED
    BY <2>1, <2>3, Zenon
<1>8. /\ \A i \in 1 .. Len(a) : b[i] = a[i]
      /\ \A i \in 1 .. Len(c) : b[Len(a) + i] = c[i]
  <2>1. /\ \A i \in 1 .. Len(a) : Cat(a, c)[i] = a[i]
        /\ \A i \in 1 .. Len(c) : Cat(a, c)[Len(a) + i] = c[i]
    BY CatProps, Zenon
  <2> QED
    BY <1>2, <2>1, Zenon
<1>9. ASSUME NEW i \in 1 .. Len(s) PROVE s[i] = e[i]
  <2>1. i \in Int /\ 1 <= i /\ i <= m /\ 0 + i = i
    BY <1>5
  <2>2. s[i] = b[i]
    BY <1>5, <2>1, Zenon
  <2>3. CASE i <= Len(a)
    <3>1. i \in 1 .. Len(a)
      BY <1>1, <2>1, <2>3
    <3> QED
      BY <1>7, <1>8, <2>2, <3>1, Zenon
  <2>4. CASE i > Len(a)
    <3>1. PICK j \in Nat : j = i - Len(a)
      BY <1>1, <2>1, <2>4
    <3>2. j \in 1 .. Len(d) /\ j \in 1 .. Len(c) /\ i = Len(a) + j /\ 0 + j = j
      BY <1>1, <1>3, <1>4, <1>6, <2>1, <2>4, <3>1
    <3> QED
      BY <1>6, <1>7, <1>8, <2>2, <3>2, Zenon
  <2> QED
    BY <1>1, <2>1, <2>3, <2>4
<1>10. s = e
  BY <1>5, <1>7, <1>9, SeqEqual, Zenon DEF String
<1> QED
  BY <1>2, <1>3, <1>5, <1>6, <1>7, <1>10, Zenon

LEMMA FrontLast ==
  ASSUME NEW b \in String, b # <<>>
  PROVE  /\ Front(b) \in String /\ Len(b) \in Nat \ {0} /\ Len(Front(b)) = Len(b) - 1
         /\ \A i \in 1 .. Len(b) - 1 : Front(b)[i] = b[i]
         /\ Last(b) = b[Len(b)] /\ Last(b) \in Octet
<1>1. Len(b) \in Nat \ {0}
  BY EmptySeq DEF String
<1>2. \A i \in 1 .. Len(b) : b[i] \in Octet
  BY DEF String
<1>3. Front(b) = SubSeq(b, 1, Len(b) - 1)
  BY DEF Front
<1>4. /\ SubSeq(b, 1, Len(b) - 1) \in Seq(Octet)
      /\ Len(SubSeq(b, 1, Len(b) - 1)) = Len(b) - 1
      /\ \A i \in 1 .. Len(b) - 1 : SubSeq(b, 1, Len(b) - 1)[i] = b[i]
  <2>1. \A i \in 1 .. Len(b) - 1 : b[i] \in Octet
    BY <1>1, <1>2
  <2>2. PICK n \in Nat : n = Len(b) - 1
    <3>1. Len(b) - 1 \in Nat
      BY <1>1
    <3> QED
      BY <3>1
  <2>3. /\ SubSeq(b, 1, n) \in Seq(Octet)
        /\ Len(SubSeq(b, 1, n)) = IF 1 <= n THEN n - 1 + 1 ELSE 0
        /\ \A i \in 1 .. n - 1 + 1 : SubSeq(b, 1, n)[i] = b[1 + i - 1]
    BY <2>1, <2>2, SubSeqProperties
  <2>4. \A i \in 1 .. n : 1 + i - 1 = i
    OBVIOUS
  <2>5. n - 1 + 1 = n
    OBVIOUS
  <2> QED
    BY <2>2, <2>3, <2>4, <2>5
<1> QED
  BY <1>1, <1>2, <1>3, <1>4 DEF Last, String

LEMMA NextNumber ==
  ASSUME NEW n \in Nat, NEW x \in Octet
  PROVE  256 * n + x \in Nat
BY DEF Octet

\* The number that a string is: its recursion, and what it is of at most four octets.
LEMMA NumberUnfolds ==
  /\ Number \in [String -> Nat]
  /\ \A b \in String :
       Number[b] = IF b = <<>> THEN 0 ELSE 256 * Number[Front(b)] + Last(b)
<1> DEFINE size == [b \in String |-> Len(b)]
           base == [b \in String |-> 0]
           next == [b \in String |-> IF b = <<>> THEN b ELSE Front(b)]
           join == [p \in String \X Nat |-> IF p[1] = <<>> THEN 0 ELSE 256 * p[2] + Last(p[1])]
<1>1. Shrinks(String, size, {<<>>}, next)
  <2>1. \A b \in String : Len(b) \in Nat /\ (b # <<>> => Front(b) \in String /\ Len(Front(b)) < Len(b))
    BY FrontLast DEF String
  <2> QED
    BY <2>1 DEF Shrinks
<1>2. base \in [String -> Nat]
  OBVIOUS
<1>3. join \in [String \X Nat -> Nat]
  <2>1. ASSUME NEW p \in String \X Nat
        PROVE  (IF p[1] = <<>> THEN 0 ELSE 256 * p[2] + Last(p[1])) \in Nat
    <3>1. p[1] \in String /\ p[2] \in Nat
      OBVIOUS
    <3>2. p[1] # <<>> => Last(p[1]) \in Octet
      BY <3>1, FrontLast
    <3> QED
      BY <3>1, <3>2, NextNumber
  <2> QED
    BY <2>1
<1>4. PICK f \in [String -> Nat] : \A b \in String : Unfolds(f, b, {<<>>}, base, next, join)
  <2> HIDE DEF size, base, next, join
  <2> QED
    BY <1>1, <1>2, <1>3, RecursionExists
<1>5. ASSUME NEW b \in String
      PROVE  f[b] = IF b = <<>> THEN 0 ELSE 256 * f[Front(b)] + Last(b)
  <2>1. CASE b = <<>>
    BY <1>4, <2>1 DEF Unfolds
  <2>2. CASE b # <<>>
    <3>1. Front(b) \in String
      BY <2>2, FrontLast
    <3>2. f[b] = join[<<b, f[Front(b)]>>]
      <4>1. Unfolds(f, b, {<<>>}, base, next, join) /\ next[b] = Front(b)
        BY <1>4, <2>2
      <4> HIDE DEF base, join, next
      <4> QED
        BY <2>2, <4>1 DEF Unfolds
    <3>3. <<b, f[Front(b)]>> \in String \X Nat
      BY <1>4, <3>1
    <3> QED
      BY <2>2, <3>2, <3>3
  <2> QED
    BY <2>1, <2>2
<1>6. f = [b \in Seq(Octet) |-> IF b = <<>> THEN 0 ELSE 256 * f[Front(b)] + Last(b)]
  BY <1>4, <1>5 DEF String
<1>7. Number = [b \in Seq(Octet) |-> IF b = <<>> THEN 0 ELSE 256 * Number[Front(b)] + Last(b)]
  BY <1>6, Zenon DEF Number
<1>8. \A b \in String : Number[b] = IF b = <<>> THEN 0 ELSE 256 * Number[Front(b)] + Last(b)
  BY <1>7, Zenon DEF String
<1>9. String \subseteq {b \in String : Number[b] \in Nat}
  <2>1. ASSUME NEW b \in String, b = <<>> PROVE Number[b] \in Nat
    BY <1>8, <2>1
  <2>2. ASSUME NEW b \in String, b # <<>>, Number[Front(b)] \in Nat PROVE Number[b] \in Nat
    <3>1. Number[b] = 256 * Number[Front(b)] + Last(b) /\ Last(b) \in Octet
      BY <1>8, <2>2, FrontLast
    <3> QED
      BY <2>2, <3>1, NextNumber
  <2>3. \A b \in String : b # <<>> => next[b] = Front(b)
    OBVIOUS
  <2> DEFINE P == {b \in String : Number[b] \in Nat}
  <2>4. /\ \A b \in String : b \in {<<>>} => b \in P
        /\ \A b \in String : b \notin {<<>>} /\ next[b] \in String /\ next[b] \in P => b \in P
    BY <2>1, <2>2, <2>3
  <2> HIDE DEF P, size, next
  <2>5. String \subseteq P
    BY <1>1, <2>4, SizeInduction
  <2> QED
    BY <2>5 DEF P
<1>10. Number = [b \in String |-> Number[b]]
  BY <1>7, Zenon DEF String
<1> QED
  BY <1>8, <1>9, <1>10

\* Numbers written out in octets: all but the last are those of n \div 256.
LEMMA DivDiv ==
  ASSUME NEW n \in Int
  PROVE  (n \div 256) \div 256 = n \div 65536 /\ (n \div 256) \div 65536 = n \div 16777216
         /\ (n \div 256) \div 1 = n \div 256
OBVIOUS

Pow(k) == 256 ^ k

LEMMA PowBelow4 ==
  Pow(0) = 1 /\ Pow(1) = 256 /\ Pow(2) = 65536 /\ Pow(3) = 16777216
<1>1. 256 ^ 0 = 1
  OBVIOUS
<1>2. 256 ^ 1 = 256
  OBVIOUS
<1>3. 256 ^ 2 = 65536
  OBVIOUS
<1>4. 256 ^ 3 = 16777216
  OBVIOUS
<1> QED
  BY <1>1, <1>2, <1>3, <1>4 DEF Pow

LEMMA PowOctet ==
  ASSUME NEW n \in Int, NEW k \in 0 .. 3
  PROVE  (n \div Pow(k)) % 256 \in Octet
<1>1. ASSUME NEW d \in {1, 256, 65536, 16777216} PROVE (n \div d) % 256 \in Octet
  BY DEF Octet
<1>2. Pow(k) \in {1, 256, 65536, 16777216}
  BY PowBelow4
<1> QED
  BY <1>1, <1>2

LEMMA PowStep ==
  ASSUME NEW n \in Int, NEW k \in 0 .. 2
  PROVE  (n \div 256) \div Pow(k) = n \div Pow(k + 1)
<1>1. CASE k = 0
  BY <1>1, DivDiv, PowBelow4
<1>2. CASE k = 1
  BY <1>2, DivDiv, PowBelow4
<1>3. CASE k = 2
  BY <1>3, DivDiv, PowBelow4
<1> QED
  BY <1>1, <1>2, <1>3

LEMMA InOctetsPow ==
  ASSUME NEW n, NEW w
  PROVE  InOctets(n, w) = [i \in 1 .. w |-> (n \div Pow(w - i)) % 256]
BY Zenon DEF InOctets, Pow

LEMMA InOctetsString ==
  ASSUME NEW n \in Int, NEW w \in 1 .. 4
  PROVE  InOctets(n, w) \in String /\ Len(InOctets(n, w)) = w
<1>1. ASSUME NEW i \in 1 .. w PROVE (n \div Pow(w - i)) % 256 \in Octet
  <2>1. w - i \in 0 .. 3
    OBVIOUS
  <2> QED
    BY <2>1, PowOctet
<1>2. [i \in 1 .. w |-> (n \div Pow(w - i)) % 256] \in [1 .. w -> Octet]
  BY <1>1
<1>3. PICK f \in [1 .. w -> Octet] : f = InOctets(n, w)
  BY <1>2, InOctetsPow, Zenon
<1>4. f \in Seq(Octet) /\ Len(f) = w
  OBVIOUS
<1> QED
  BY <1>3, <1>4, Zenon DEF String

LEMMA InOctetsStep ==
  ASSUME NEW n \in Int, NEW w \in 1 .. 3
  PROVE  /\ Front(InOctets(n, w + 1)) = InOctets(n \div 256, w)
         /\ Last(InOctets(n, w + 1)) = n % 256
<1> DEFINE b == InOctets(n, w + 1)
           c == InOctets(n \div 256, w)
<1>1. w + 1 \in 1 .. 4 /\ w \in 1 .. 4 /\ n \div 256 \in Int /\ w + 1 # 0 /\ (w + 1) - 1 = w
  OBVIOUS
<1>2. b \in String /\ Len(b) = w + 1 /\ c \in String /\ Len(c) = w
  BY <1>1, InOctetsString
<1>3. \A i \in 1 .. w + 1 : b[i] = (n \div Pow((w + 1) - i)) % 256
  BY InOctetsPow, Zenon
<1>4. \A i \in 1 .. w : c[i] = ((n \div 256) \div Pow(w - i)) % 256
  BY InOctetsPow, Zenon
<1> HIDE DEF b, c
<1>5. b # <<>>
  BY <1>1, <1>2, EmptySeq DEF String
<1>6. ASSUME NEW i \in 1 .. w PROVE Front(b)[i] = c[i]
  <2>1. w - i \in 0 .. 2 /\ (w - i) + 1 = (w + 1) - i /\ i \in 1 .. w + 1
    OBVIOUS
  <2>2. Front(b)[i] = b[i]
    BY <1>1, <1>2, <1>5, FrontLast
  <2>3. (n \div 256) \div Pow(w - i) = n \div Pow((w + 1) - i)
    <3>1. PICK k \in 0 .. 2 : k = w - i
      BY <2>1
    <3>2. k + 1 = (w + 1) - i
      BY <3>1
    <3> QED
      BY <3>1, <3>2, PowStep
  <2>4. b[i] = (n \div Pow((w + 1) - i)) % 256
    BY <1>3, <2>1, Zenon
  <2>5. c[i] = ((n \div 256) \div Pow(w - i)) % 256
    BY <1>4, Zenon
  <2> QED
    BY <2>2, <2>3, <2>4, <2>5, Zenon
<1>7. Front(b) = c
  <2>1. Front(b) \in String /\ Len(Front(b)) = w
    BY <1>1, <1>2, <1>5, FrontLast
  <2> QED
    BY <1>2, <1>6, <2>1, SeqEqual, Zenon DEF String
<1>8. Last(b) = n % 256
  <2>1. w + 1 \in 1 .. w + 1 /\ (w + 1) - (w + 1) = 0 /\ n \div 1 = n
    OBVIOUS
  <2>2. Last(b) = b[w + 1]
    BY <1>2, <1>5, FrontLast
  <2>3. b[w + 1] = (n \div Pow(0)) % 256
    BY <1>3, <2>1, Zenon
  <2>4. b[w + 1] = (n \div 1) % 256
    BY <2>3, PowBelow4
  <2> QED
    BY <2>1, <2>2, <2>4, Zenon
<1> QED
  BY <1>7, <1>8 DEF b, c

LEMMA InOctets1 ==
  ASSUME NEW n \in Int
  PROVE  InOctets(n, 1) = <<n % 256>>
<1>1. InOctets(n, 1)[1] = n % 256
  <2>1. 1 \in 1 .. 1 /\ 1 - 1 = 0 /\ n \div 1 = n
    OBVIOUS
  <2>2. InOctets(n, 1)[1] = (n \div Pow(0)) % 256
    BY <2>1, InOctetsPow, Zenon
  <2> QED
    BY <2>1, <2>2, PowBelow4
<1>2. InOctets(n, 1) \in Seq(Octet) /\ Len(InOctets(n, 1)) = 1
  BY InOctetsString DEF String
<1>3. n % 256 \in Octet
  BY DEF Octet
<1>4. PICK b \in Seq(Octet) : b = InOctets(n, 1)
  BY <1>2
<1>5. Len(b) = 1 /\ b[1] = n % 256
  BY <1>1, <1>2, <1>4
<1>6. b = <<b[1]>>
  BY <1>5
<1> QED
  BY <1>4, <1>5, <1>6

\* The recursion of Signed.
LEMMA SignedUnfolds ==
  ASSUME NEW b \in String
  PROVE  Signed[b] = CASE b = <<>> -> 0
                       [] Len(b) = 1 -> IF b[1] < 128 THEN b[1] ELSE b[1] - 256
                       [] OTHER -> 256 * Signed[Front(b)] + Last(b)
<1> DEFINE low(c) == IF c[1] < 128 THEN c[1] ELSE c[1] - 256
           stop == {c \in String : c = <<>> \/ Len(c) = 1}
           size == [c \in String |-> Len(c)]
           base == [c \in String |-> IF c = <<>> THEN 0 ELSE IF Len(c) = 1 THEN low(c) ELSE 0]
           next == [c \in String |-> IF c = <<>> THEN c ELSE Front(c)]
           join == [p \in String \X Int |-> IF p[1] = <<>> THEN 0 ELSE 256 * p[2] + Last(p[1])]
           body(f, c) == CASE c = <<>> -> 0
                           [] Len(c) = 1 -> low(c)
                           [] OTHER -> 256 * f[Front(c)] + Last(c)
<1>1. Shrinks(String, size, stop, next)
  <2>1. \A c \in String : Len(c) \in Nat /\ (c # <<>> => Front(c) \in String /\ Len(Front(c)) < Len(c))
    BY FrontLast DEF String
  <2> QED
    BY <2>1 DEF Shrinks
<1>2. base \in [String -> Int]
  <2>1. \A c \in String : Len(c) = 1 => low(c) \in Int
    <3> SUFFICES ASSUME NEW c \in String, Len(c) = 1 PROVE low(c) \in Int
      OBVIOUS
    <3>1. c[1] \in Octet
      BY DEF String
    <3> QED
      BY <3>1 DEF Octet
  <2> HIDE DEF low
  <2> QED
    BY <2>1
<1>3. join \in [String \X Int -> Int]
  <2>1. ASSUME NEW p \in String \X Int
        PROVE  (IF p[1] = <<>> THEN 0 ELSE 256 * p[2] + Last(p[1])) \in Int
    <3>1. p[1] \in String /\ p[2] \in Int
      OBVIOUS
    <3>2. p[1] # <<>> => Last(p[1]) \in Octet
      BY <3>1, FrontLast
    <3>3. ASSUME NEW k \in Int, NEW o \in Octet PROVE 256 * k + o \in Int
      BY DEF Octet
    <3> QED
      BY <3>1, <3>2, <3>3
  <2> QED
    BY <2>1
<1>4. PICK f \in [String -> Int] : \A c \in String : Unfolds(f, c, stop, base, next, join)
  <2> HIDE DEF size, stop, base, next, join
  <2> QED
    BY <1>1, <1>2, <1>3, RecursionExists
<1>5. ASSUME NEW c \in String
      PROVE  f[c] = body(f, c)
  <2> HIDE DEF low
  <2>1. CASE c = <<>> \/ Len(c) = 1
    <3>1. f[c] = base[c]
      BY <1>4, <2>1 DEF Unfolds
    <3> QED
      BY <2>1, <3>1
  <2>2. CASE c # <<>> /\ Len(c) # 1
    <3>1. Front(c) \in String
      BY <2>2, FrontLast
    <3>2. f[c] = join[<<c, f[Front(c)]>>]
      <4>1. Unfolds(f, c, stop, base, next, join) /\ next[c] = Front(c) /\ c \notin stop
        BY <1>4, <2>2
      <4> HIDE DEF base, join, next, stop
      <4> QED
        BY <4>1 DEF Unfolds
    <3>3. <<c, f[Front(c)]>> \in String \X Int
      BY <1>4, <3>1
    <3>4. f[c] = 256 * f[Front(c)] + Last(c)
      BY <2>2, <3>2, <3>3
    <3> QED
      BY <2>2, <3>4
  <2> QED
    BY <2>1, <2>2
<1>6. f = [c \in String |-> body(f, c)]
  <2> HIDE DEF body
  <2> QED
    BY <1>4, <1>5
<1>7. Signed = [c \in String |-> body(Signed, c)]
  BY <1>6, Zenon DEF Signed, String
<1> HIDE DEF body
<1>8. Signed[b] = body(Signed, b)
  BY <1>7, Zenon
<1> QED
  BY <1>8 DEF body

\* Strings one behind the other.
Strings == Seq(String)

LEMMA JoinedUnfolds ==
  ASSUME NEW s \in Strings
  PROVE  Joined[s] = IF s = <<>> THEN <<>> ELSE Head(s) \o Joined[Tail(s)]
<1> DEFINE size == [t \in Strings |-> Len(t)]
           base == [t \in Strings |-> <<>>]
           next == [t \in Strings |-> IF t = <<>> THEN t ELSE Tail(t)]
           join == [p \in Strings \X String |-> IF p[1] = <<>> THEN <<>> ELSE Head(p[1]) \o p[2]]
           body(f, t) == IF t = <<>> THEN <<>> ELSE Head(t) \o f[Tail(t)]
<1>0. \A t \in Strings : /\ Len(t) \in Nat
                         /\ t # <<>> => Head(t) \in String /\ Tail(t) \in Strings /\ Len(Tail(t)) < Len(t)
  <2> SUFFICES ASSUME NEW t \in Strings
               PROVE  /\ Len(t) \in Nat
                      /\ t # <<>> => /\ Head(t) \in String /\ Tail(t) \in Strings
                                     /\ Len(Tail(t)) < Len(t)
    OBVIOUS
  <2>1. t \in Seq(String)
    BY DEF Strings
  <2>2. t # <<>> => Head(t) \in String /\ Tail(t) \in Seq(String) /\ Len(Tail(t)) = Len(t) - 1
    BY <2>1, HeadTailProperties
  <2> QED
    BY <2>1, <2>2 DEF Strings
<1>1. Shrinks(Strings, size, {<<>>}, next)
  BY <1>0 DEF Shrinks
<1>2. base \in [Strings -> String]
  BY DEF String
<1>3. join \in [Strings \X String -> String]
  <2>1. ASSUME NEW p \in Strings \X String
        PROVE  (IF p[1] = <<>> THEN <<>> ELSE Head(p[1]) \o p[2]) \in String
    <3>1. p[1] \in Strings /\ p[2] \in String /\ <<>> \in String
      BY DEF String
    <3>2. p[1] # <<>> => Head(p[1]) \o p[2] \in String
      BY <1>0, <3>1, ConcatProperties DEF String
    <3> QED
      BY <3>1, <3>2
  <2> QED
    BY <2>1
<1>4. PICK f \in [Strings -> String] : \A t \in Strings : Unfolds(f, t, {<<>>}, base, next, join)
  <2> HIDE DEF size, base, next, join
  <2> QED
    BY <1>1, <1>2, <1>3, RecursionExists
<1>5. ASSUME NEW t \in Strings
      PROVE  f[t] = body(f, t)
  <2>1. CASE t = <<>>
    BY <1>4, <2>1 DEF Unfolds
  <2>2. CASE t # <<>>
    <3>1. Tail(t) \in Strings
      BY <1>0, <2>2
    <3>2. f[t] = join[<<t, f[Tail(t)]>>]
      <4>1. Unfolds(f, t, {<<>>}, base, next, join) /\ next[t] = Tail(t)
        BY <1>4, <2>2
      <4> HIDE DEF base, join, next
      <4> QED
        BY <2>2, <4>1 DEF Unfolds
    <3>3. <<t, f[Tail(t)]>> \in Strings \X String
      BY <1>4, <3>1
    <3> QED
      BY <2>2, <3>2, <3>3
  <2> QED
    BY <2>1, <2>2
<1>6. f = [t \in Strings |-> body(f, t)]
  <2> HIDE DEF body
  <2> QED
    BY <1>4, <1>5
<1>7. Joined = [t \in Strings |-> body(Joined, t)]
  BY <1>6, Zenon DEF Joined, Strings, String
<1> HIDE DEF body
<1>8. Joined[s] = body(Joined, s)
  BY <1>7, Zenon
<1> QED
  BY <1>8 DEF body

\* What holds of the empty sequence, and of one if of its tail, holds of all.
LEMMA SeqInd ==
  ASSUME NEW T, NEW P, <<>> \in P,
         \A s \in Seq(T) : s # <<>> /\ Tail(s) \in Seq(T) /\ Tail(s) \in P => s \in P
  PROVE  Seq(T) \subseteq P
<1> DEFINE D == Seq(T)
           size == [s \in D |-> Len(s)]
           next == [s \in D |-> IF s = <<>> THEN s ELSE Tail(s)]
<1>1. Shrinks(D, size, {<<>>}, next)
  <2>1. \A s \in D : Len(s) \in Nat /\ (s # <<>> => Tail(s) \in D /\ Len(Tail(s)) < Len(s))
    <3> SUFFICES ASSUME NEW s \in D
                 PROVE  Len(s) \in Nat /\ (s # <<>> => Tail(s) \in D /\ Len(Tail(s)) < Len(s))
      OBVIOUS
    <3>1. s # <<>> => Tail(s) \in D /\ Len(Tail(s)) = Len(s) - 1
      OBVIOUS
    <3> QED
      BY <3>1
  <2> HIDE DEF D
  <2> QED
    BY <2>1 DEF Shrinks
<1>2. \A s \in D : s \notin {<<>>} => next[s] = Tail(s)
  BY Zenon
<1>3. \A s \in D : s \in {<<>>} => s \in P
  BY Zenon
<1>4. \A s \in D : s \notin {<<>>} /\ next[s] \in D /\ next[s] \in P => s \in P
  <2> HIDE DEF next
  <2> QED
    BY <1>2, Zenon
<1> HIDE DEF D, size, next
<1>5. D \subseteq P
  BY <1>1, <1>3, <1>4, SizeInduction
<1> QED
  BY <1>5 DEF D

\* What a sequence is written as, item by item.
Mapped(enc, s) == [i \in 1 .. Len(s) |-> enc[s[i]]]
Written(enc, s) == Joined[Mapped(enc, s)]

LEMMA WrittenUnfolds ==
  ASSUME NEW T, NEW enc \in [T -> String]
  PROVE  /\ Written(enc, <<>>) = <<>>
         /\ \A s \in Seq(T) : s # <<>> =>
              /\ s[1] \in T /\ Tail(s) \in Seq(T) /\ s = <<s[1]>> \o Tail(s)
              /\ Written(enc, s) = Cat(enc[s[1]], Written(enc, Tail(s)))
<1>1. ASSUME NEW s \in Seq(T)
      PROVE  Mapped(enc, s) \in Strings /\ Len(Mapped(enc, s)) = Len(s)
  <2>1. Len(s) \in Nat /\ \A i \in 1 .. Len(s) : s[i] \in T
    OBVIOUS
  <2>2. PICK f \in [1 .. Len(s) -> String] : f = Mapped(enc, s)
    BY <2>1, Zenon DEF Mapped
  <2>3. f \in Seq(String) /\ Len(f) = Len(s)
    BY <2>1
  <2> QED
    BY <2>2, <2>3, Zenon DEF Strings
<1>2. Written(enc, <<>>) = <<>>
  <2>1. <<>> \in Seq(T) /\ Len(<<>>) = 0
    OBVIOUS
  <2>2. PICK m \in Strings : m = Mapped(enc, <<>>) /\ Len(m) = 0
    BY <1>1, <2>1, Zenon
  <2>3. m = <<>>
    BY <2>2 DEF Strings
  <2>4. Joined[m] = <<>>
    BY <2>3, JoinedUnfolds, Zenon
  <2> QED
    BY <2>2, <2>4, Zenon DEF Written
<1>3. ASSUME NEW s \in Seq(T), s # <<>>
      PROVE  /\ s[1] \in T /\ Tail(s) \in Seq(T) /\ s = <<s[1]>> \o Tail(s)
             /\ Written(enc, s) = Cat(enc[s[1]], Written(enc, Tail(s)))
  <2>1. Len(s) \in Nat /\ Len(s) >= 1 /\ 1 \in 1 .. Len(s) /\ s[1] \in T
    BY <1>3
  <2>2. PICK m \in Seq(String) : m = Mapped(enc, s) /\ Len(m) = Len(s)
    BY <1>1, Zenon DEF Strings
  <2>3. m # <<>> /\ Head(m) = m[1]
    BY <2>1, <2>2
  <2>4. \A i \in 1 .. Len(s) : m[i] = enc[s[i]]
    BY <2>2, Zenon DEF Mapped
  <2>5. PICK r : r = Tail(s)
    BY Zenon
  <2>6. /\ r \in Seq(T) /\ Len(r) = Len(s) - 1 /\ Len(r) \in Nat
        /\ \A i \in 1 .. Len(r) : r[i] = s[i + 1]
    BY <1>3, <2>5
  <2>7. PICK u : u = Tail(m)
    BY Zenon
  <2>8. /\ u \in Seq(String) /\ Len(u) = Len(m) - 1
        /\ \A i \in 1 .. Len(u) : u[i] = m[i + 1]
    BY <2>2, <2>3, <2>7
  <2>9. u = Mapped(enc, r)
    <3>1. u = [i \in 1 .. Len(u) |-> u[i]]
      BY <2>8
    <3>2. Len(u) = Len(r)
      BY <2>2, <2>6, <2>8, Zenon
    <3>3. ASSUME NEW i \in 1 .. Len(r) PROVE u[i] = enc[r[i]]
      <4>1. i + 1 \in 1 .. Len(s)
        BY <2>1, <2>6
      <4>2. u[i] = m[i + 1] /\ r[i] = s[i + 1]
        BY <2>6, <2>8, <3>2, Zenon
      <4> QED
        BY <2>4, <4>1, <4>2, Zenon
    <3> QED
      BY <3>1, <3>2, <3>3, Zenon DEF Mapped
  <2>10. s = <<s[1]>> \o r
    <3>1. s = <<Head(s)>> \o Tail(s) /\ Head(s) = s[1]
      BY <1>3
    <3> QED
      BY <2>5, <3>1, Zenon
  <2>11. Joined[m] = m[1] \o Joined[u]
    BY <2>2, <2>3, <2>7, JoinedUnfolds, Zenon DEF Strings
  <2>12. m[1] = enc[s[1]]
    BY <2>1, <2>4, Zenon
  <2> QED
    BY <2>1, <2>2, <2>5, <2>6, <2>9, <2>10, <2>11, <2>12, Zenon DEF Written, Cat
<1> QED
  BY <1>2, <1>3, Zenon

LEMMA Interval ==
  ASSUME NEW x, NEW lo \in Int, NEW hi \in Int
  PROVE  x \in lo .. hi <=> x \in Int /\ lo <= x /\ x <= hi
OBVIOUS

LEMMA OctetIs ==
  ASSUME NEW x
  PROVE  x \in Octet <=> x \in Int /\ 0 <= x /\ x <= 255
<1>1. PICK lo, hi : lo = 0 /\ hi = 255
  OBVIOUS
<1>2. Octet = lo .. hi
  BY <1>1 DEF Octet
<1> QED
  BY <1>1, <1>2, Interval, SMT

LEMMA OctetString ==
  ASSUME NEW o \in Octet
  PROVE  <<o>> \in String
<1> DEFINE S == Octet
<1>1. o \in S
  OBVIOUS
<1> HIDE DEF S
<1>2. <<o>> \in Seq(S)
  BY <1>1
<1> QED
  BY <1>2 DEF S, String

LEMMA OneProps ==
  ASSUME NEW o \in Octet
  PROVE  One(o) \in String /\ Len(One(o)) = 1 /\ One(o)[1] = o
BY OctetString, SMT DEF One

\* What is written in octets is read from them.
LEMMA InOctetsSplit ==
  ASSUME NEW n \in Int, NEW w \in 1 .. 3, NEW b, b = InOctets(n, w + 1),
         NEW c, c = InOctets(n \div 256, w), NEW r, r = n % 256
  PROVE  Number[b] = 256 * Number[c] + r /\ Signed[b] = 256 * Signed[c] + r
<1>1. b \in String /\ Len(b) = w + 1
  <2>1. w + 1 \in 1 .. 4
    OBVIOUS
  <2> QED
    BY <2>1, InOctetsString
<1>2. Front(b) = c /\ Last(b) = r
  BY InOctetsStep, Zenon
<1>3. b # <<>> /\ Len(b) # 1
  <2>1. w + 1 # 0 /\ w + 1 # 1
    OBVIOUS
  <2>2. b = <<>> => Len(b) = 0
    OBVIOUS
  <2> QED
    BY <1>1, <2>1, <2>2
<1>4. Number[b] = 256 * Number[Front(b)] + Last(b)
  BY <1>1, <1>3, NumberUnfolds, Zenon
<1>5. Signed[b] = 256 * Signed[Front(b)] + Last(b)
  BY <1>1, <1>3, SignedUnfolds, SMT
<1> QED
  BY <1>2, <1>4, <1>5, SMT

LEMMA Divided ==
  ASSUME NEW n \in Int
  PROVE  \E q, r \in Int : /\ q = n \div 256 /\ r = n % 256
                           /\ 0 <= r /\ r <= 255 /\ n = 256 * q + r
<1>1. n \div 256 \in Int /\ n % 256 \in Int
  BY SMT
<1>2. PICK q, r \in Int : q = n \div 256 /\ r = n % 256
  BY <1>1, SMT
<1>3. 0 <= r /\ r <= 255 /\ n = 256 * q + r
  BY <1>2, SMT
<1> QED
  BY <1>2, <1>3, SMT

LEMMA NumberRead1 ==
  ASSUME NEW n \in Octet
  PROVE  Number[InOctets(n, 1)] = n
<1>1. InOctets(n, 1) = <<n>>
  <2>1. n \in Int /\ n % 256 = n
    BY OctetIs, SMT
  <2> QED
    BY <2>1, InOctets1, SMT
<1>2. PICK b \in String : b = <<n>>
  <2>1. <<n>> \in String
    BY OctetString, SMT
  <2> QED
    BY <2>1, Zenon
<1>3. b # <<>> /\ Len(b) = 1 /\ b[1] = n
  BY <1>2, SMT
<1>4. Front(b) \in String /\ Len(Front(b)) = 0 /\ Last(b) = n
  BY <1>3, FrontLast, SMT
<1>5. Front(b) = <<>> /\ <<>> \in String
  BY <1>4, EmptySeq, SMT DEF String
<1>6. Number[<<>>] = 0
  BY <1>5, NumberUnfolds, Zenon
<1>7. Number[b] = 256 * Number[Front(b)] + Last(b)
  BY <1>3, NumberUnfolds, Zenon
<1>8. n \in Int
  BY OctetIs, SMT
<1> QED
  BY <1>1, <1>2, <1>4, <1>5, <1>6, <1>7, <1>8, SMT

LEMMA Split2 ==
  ASSUME NEW n \in Int
  PROVE  \E q, r \in Int :
           /\ 0 <= r /\ r <= 255 /\ n = 256 * q + r
           /\ Number[InOctets(n, 2)] = 256 * Number[InOctets(q, 1)] + r
           /\ Signed[InOctets(n, 2)] = 256 * Signed[InOctets(q, 1)] + r
<1>1. PICK q, r \in Int : q = n \div 256 /\ r = n % 256 /\ 0 <= r /\ r <= 255 /\ n = 256 * q + r
  BY Divided, SMT
<1>2. 1 \in 1 .. 3 /\ 1 + 1 = 2
  OBVIOUS
<1>3. PICK b : b = InOctets(n, 2)
  OBVIOUS
<1>4. PICK c : c = InOctets(q, 1)
  OBVIOUS
<1>5. b = InOctets(n, 1 + 1) /\ c = InOctets(n \div 256, 1)
  BY <1>1, <1>2, <1>3, <1>4, Zenon
<1>6. Number[b] = 256 * Number[c] + r /\ Signed[b] = 256 * Signed[c] + r
  BY <1>1, <1>2, <1>5, InOctetsSplit, SMT
<1> QED
  BY <1>1, <1>3, <1>4, <1>6, SMT

LEMMA Split3 ==
  ASSUME NEW n \in Int
  PROVE  \E q, r \in Int :
           /\ 0 <= r /\ r <= 255 /\ n = 256 * q + r
           /\ Number[InOctets(n, 3)] = 256 * Number[InOctets(q, 2)] + r
           /\ Signed[InOctets(n, 3)] = 256 * Signed[InOctets(q, 2)] + r
<1>1. PICK q, r \in Int : q = n \div 256 /\ r = n % 256 /\ 0 <= r /\ r <= 255 /\ n = 256 * q + r
  BY Divided, SMT
<1>2. 2 \in 1 .. 3 /\ 2 + 1 = 3
  OBVIOUS
<1>3. PICK b : b = InOctets(n, 3)
  OBVIOUS
<1>4. PICK c : c = InOctets(q, 2)
  OBVIOUS
<1>5. b = InOctets(n, 2 + 1) /\ c = InOctets(n \div 256, 2)
  BY <1>1, <1>2, <1>3, <1>4, Zenon
<1>6. Number[b] = 256 * Number[c] + r /\ Signed[b] = 256 * Signed[c] + r
  BY <1>1, <1>2, <1>5, InOctetsSplit, SMT
<1> QED
  BY <1>1, <1>3, <1>4, <1>6, SMT

LEMMA Split4 ==
  ASSUME NEW n \in Int
  PROVE  \E q, r \in Int :
           /\ 0 <= r /\ r <= 255 /\ n = 256 * q + r
           /\ Number[InOctets(n, 4)] = 256 * Number[InOctets(q, 3)] + r
           /\ Signed[InOctets(n, 4)] = 256 * Signed[InOctets(q, 3)] + r
<1>1. PICK q, r \in Int : q = n \div 256 /\ r = n % 256 /\ 0 <= r /\ r <= 255 /\ n = 256 * q + r
  BY Divided, SMT
<1>2. 3 \in 1 .. 3 /\ 3 + 1 = 4
  OBVIOUS
<1>3. PICK b : b = InOctets(n, 4)
  OBVIOUS
<1>4. PICK c : c = InOctets(q, 3)
  OBVIOUS
<1>5. b = InOctets(n, 3 + 1) /\ c = InOctets(n \div 256, 3)
  BY <1>1, <1>2, <1>3, <1>4, Zenon
<1>6. Number[b] = 256 * Number[c] + r /\ Signed[b] = 256 * Signed[c] + r
  BY <1>1, <1>2, <1>5, InOctetsSplit, SMT
<1> QED
  BY <1>1, <1>3, <1>4, <1>6, SMT

LEMMA NumberRead2 ==
  ASSUME NEW n \in Int, 0 <= n, n <= 65535
  PROVE  Number[InOctets(n, 2)] = n
<1>1. PICK q, r \in Int : /\ 0 <= r /\ r <= 255 /\ n = 256 * q + r
                         /\ Number[InOctets(n, 2)] = 256 * Number[InOctets(q, 1)] + r
  BY Split2, SMT
<1>2. Number[InOctets(q, 1)] = q
  <2>1. q \in Octet
    BY <1>1, OctetIs, SMT
  <2> QED
    BY <2>1, NumberRead1, SMT
<1> QED
  BY <1>1, <1>2, SMT

LEMMA SignedRead1 ==
  ASSUME NEW n \in Int, -128 <= n, n <= 127
  PROVE  Signed[InOctets(n, 1)] = n
<1>1. PICK q, o \in Int : o = n % 256 /\ 0 <= o /\ o <= 255 /\ n = 256 * q + o
  BY Divided, SMT
<1>2. o \in Octet
  BY <1>1, OctetIs, SMT
<1>3. PICK b \in String : b = <<o>>
  <2>1. <<o>> \in String
    BY <1>2, OctetString, SMT
  <2> QED
    BY <2>1, Zenon
<1>4. b # <<>> /\ Len(b) = 1 /\ b[1] = o
  BY <1>3, SMT
<1>5. Signed[b] = IF o < 128 THEN o ELSE o - 256
  BY <1>4, SignedUnfolds, SMT
<1>6. n = IF o < 128 THEN o ELSE o - 256
  BY <1>1, SMT
<1>7. InOctets(n, 1) = b
  BY <1>1, <1>3, InOctets1, SMT
<1> QED
  BY <1>5, <1>6, <1>7, SMT

LEMMA SignedRead2 ==
  ASSUME NEW n \in Int, -32768 <= n, n <= 32767
  PROVE  Signed[InOctets(n, 2)] = n
<1>1. PICK q, r \in Int : /\ 0 <= r /\ r <= 255 /\ n = 256 * q + r
                         /\ Signed[InOctets(n, 2)] = 256 * Signed[InOctets(q, 1)] + r
  BY Split2, SMT
<1>2. Signed[InOctets(q, 1)] = q
  <2>1. -128 <= q /\ q <= 127
    BY <1>1, SMT
  <2> QED
    BY <2>1, SignedRead1, SMT
<1> QED
  BY <1>1, <1>2, SMT

LEMMA SignedRead3 ==
  ASSUME NEW n \in Int, -8388608 <= n, n <= 8388607
  PROVE  Signed[InOctets(n, 3)] = n
<1>1. PICK q, r \in Int : /\ 0 <= r /\ r <= 255 /\ n = 256 * q + r
                         /\ Signed[InOctets(n, 3)] = 256 * Signed[InOctets(q, 2)] + r
  BY Split3, SMT
<1>2. Signed[InOctets(q, 2)] = q
  <2>1. -32768 <= q /\ q <= 32767
    BY <1>1, SMT
  <2> QED
    BY <2>1, SignedRead2, SMT
<1> QED
  BY <1>1, <1>2, SMT

LEMMA SignedRead4 ==
  ASSUME NEW n \in Int, -2147483648 <= n, n <= 2147483647
  PROVE  Signed[InOctets(n, 4)] = n
<1>1. PICK q, r \in Int : /\ 0 <= r /\ r <= 255 /\ n = 256 * q + r
                         /\ Number[InOctets(n, 4)] = 256 * Number[InOctets(q, 3)] + r
                         /\ Signed[InOctets(n, 4)] = 256 * Signed[InOctets(q, 3)] + r
  BY Split4, SMTT(30)
<1>2. Signed[InOctets(q, 3)] = q
  <2>1. -8388608 <= q /\ q <= 8388607
    BY <1>1, SMT
  <2> QED
    BY <2>1, SignedRead3, SMT
<1> QED
  BY <1>1, <1>2, SMT

\* The first octet of a string, and the rest of it.
LEMMA TailOfCat ==
  ASSUME NEW o \in Octet, NEW b \in String
  PROVE  LET c == Cat(One(o), b)
         IN c \in String /\ c # <<>> /\ c[1] = o /\ Tail(c) = b /\ Len(c) = 1 + Len(b)
<1> DEFINE c == Cat(One(o), b)
<1>1. One(o) \in String /\ Len(One(o)) = 1 /\ One(o)[1] = o
  BY OneProps, Zenon
<1>2. PICK a \in String : a = One(o) /\ Len(a) = 1 /\ a[1] = o
  BY <1>1, Zenon
<1>3. c = Cat(a, b)
  BY <1>2, Zenon
<1> HIDE DEF c
<1>4. /\ Cat(a, b) \in String /\ Len(Cat(a, b)) = Len(a) + Len(b) /\ Len(b) \in Nat
      /\ \A i \in 1 .. Len(a) : Cat(a, b)[i] = a[i]
      /\ \A i \in 1 .. Len(b) : Cat(a, b)[Len(a) + i] = b[i]
  BY CatProps, Zenon
<1>5. /\ c \in String /\ Len(c) = 1 + Len(b)
      /\ \A i \in 1 .. 1 : c[i] = a[i]
      /\ \A i \in 1 .. Len(b) : c[1 + i] = b[i]
  BY <1>2, <1>3, <1>4, Zenon
<1>6. c[1] = o
  BY <1>2, <1>5
<1> DEFINE S == Octet
<1>7. c \in Seq(S) /\ b \in Seq(S)
  BY <1>5, Zenon DEF String
<1> HIDE DEF S
<1>8. c # <<>>
  BY <1>4, <1>5, <1>7
<1>9. PICK u : u = Tail(c)
  BY Zenon
<1>10. /\ u \in Seq(S) /\ Len(u) = Len(c) - 1
       /\ \A i \in 1 .. Len(u) : u[i] = c[i + 1]
  BY <1>7, <1>8, <1>9
<1>11. Len(u) = Len(b)
  BY <1>4, <1>5, <1>10
<1>12. \A i \in 1 .. Len(u) : u[i] = b[i]
  <2>1. \A i \in 1 .. Len(u) : i + 1 = 1 + i
    OBVIOUS
  <2> QED
    BY <1>5, <1>10, <1>11, <2>1, Zenon
<1>13. u = b
  BY <1>7, <1>10, <1>11, <1>12, SeqEqual, Zenon
<1> QED
  BY <1>5, <1>6, <1>8, <1>9, <1>13, Zenon DEF c

-----------------------------------------------------------------------------
(* What a joined string begins with; numbers of three and four octets.     *)

LEMMA CatFirst ==
  ASSUME NEW a \in String, NEW b \in String
  PROVE  /\ Len(a) \in Nat /\ Len(b) \in Nat
         /\ Cat(a, b) \in String /\ Len(Cat(a, b)) = Len(a) + Len(b)
         /\ Len(a) >= 1 => Cat(a, b)[1] = a[1]
         /\ Len(a) >= 2 => Cat(a, b)[2] = a[2]
         /\ Len(a) = 1 /\ Len(b) >= 1 => Cat(a, b)[2] = b[1]
<1>1. /\ Len(a) \in Nat /\ Len(b) \in Nat
      /\ Cat(a, b) \in String /\ Len(Cat(a, b)) = Len(a) + Len(b)
  BY CatProps, Zenon
<1>2. ASSUME Len(a) >= 1 PROVE Cat(a, b)[1] = a[1]
  <2>1. 1 \in 1 .. Len(a)
    BY <1>1, <1>2
  <2> QED
    BY <2>1, CatProps, Zenon
<1>3. ASSUME Len(a) >= 2 PROVE Cat(a, b)[2] = a[2]
  <2>1. 2 \in 1 .. Len(a)
    BY <1>1, <1>3
  <2> QED
    BY <2>1, CatProps, Zenon
<1>4. ASSUME Len(a) = 1, Len(b) >= 1 PROVE Cat(a, b)[2] = b[1]
  <2>1. 1 \in 1 .. Len(b) /\ Len(a) + 1 = 2
    BY <1>1, <1>4
  <2>2. Cat(a, b)[Len(a) + 1] = b[1]
    BY <2>1, CatProps, Zenon
  <2> QED
    BY <2>1, <2>2, Zenon
<1> QED
  BY <1>1, <1>2, <1>3, <1>4, Zenon

LEMMA OneCat ==
  ASSUME NEW t \in Octet, NEW y \in String, Len(y) >= 1
  PROVE  LET c == Cat(One(t), y)
         IN c \in String /\ Len(c) = 1 + Len(y) /\ c[1] = t /\ c[2] = y[1]
<1> DEFINE c == Cat(One(t), y)
<1>1. PICK a \in String : a = One(t) /\ Len(a) = 1 /\ a[1] = t
  <2>1. One(t) \in String /\ Len(One(t)) = 1 /\ One(t)[1] = t
    BY OneProps, Zenon
  <2> QED
    BY <2>1, Zenon
<1>2. c = Cat(a, y)
  BY <1>1, Zenon
<1> HIDE DEF c
<1>3. /\ Len(y) \in Nat /\ c \in String /\ Len(c) = Len(a) + Len(y)
      /\ Len(a) >= 1 => c[1] = a[1]
      /\ Len(a) = 1 /\ Len(y) >= 1 => c[2] = y[1]
  <2>1. /\ Len(y) \in Nat /\ Cat(a, y) \in String /\ Len(Cat(a, y)) = Len(a) + Len(y)
        /\ Len(a) >= 1 => Cat(a, y)[1] = a[1]
        /\ Len(a) = 1 /\ Len(y) >= 1 => Cat(a, y)[2] = y[1]
    BY CatFirst, Zenon
  <2> QED
    BY <1>2, <2>1, Zenon
<1>4. c \in String /\ Len(c) = 1 + Len(y)
  BY <1>1, <1>3, Zenon
<1>5. c[1] = a[1]
  <2>1. Len(a) >= 1
    BY <1>1
  <2> QED
    BY <1>3, <2>1, Zenon
<1>6. c[2] = y[1]
  BY <1>1, <1>3, Zenon
<1> QED
  BY <1>1, <1>4, <1>5, <1>6, Zenon DEF c

LEMMA NumberRead3 ==
  ASSUME NEW n \in Int, 0 <= n, n <= 16777215
  PROVE  Number[InOctets(n, 3)] = n
<1>1. PICK q, r \in Int : /\ 0 <= r /\ r <= 255 /\ n = 256 * q + r
                         /\ Number[InOctets(n, 3)] = 256 * Number[InOctets(q, 2)] + r
  BY Split3, SMT
<1>2. Number[InOctets(q, 2)] = q
  <2>1. 0 <= q /\ q <= 65535
    BY <1>1, SMT
  <2> QED
    BY <2>1, NumberRead2, SMT
<1> QED
  BY <1>1, <1>2, SMT

LEMMA NumberRead4 ==
  ASSUME NEW n \in Int, 0 <= n, n <= 2147483647
  PROVE  Number[InOctets(n, 4)] = n
<1>1. PICK q, r \in Int : /\ 0 <= r /\ r <= 255 /\ n = 256 * q + r
                         /\ Number[InOctets(n, 4)] = 256 * Number[InOctets(q, 3)] + r
  BY Split4, SMTT(30)
<1>2. Number[InOctets(q, 3)] = q
  <2>1. 0 <= q /\ q <= 16777215
    BY <1>1, SMT
  <2> QED
    BY <2>1, NumberRead3, SMT
<1> QED
  BY <1>1, <1>2, SMT

\* A function on what gets smaller that collects what it finds.
Collects(f, D, stop, next, item) ==
  \A x \in D : f[x] = IF x \in stop THEN <<>> ELSE item[x] \o f[next[x]]

LEMMA ListRecursion ==
  ASSUME NEW D, NEW T, NEW size, NEW stop, NEW next, Shrinks(D, size, stop, next),
         NEW item \in [D -> Seq(T)]
  PROVE  \E f \in [D -> Seq(T)] : Collects(f, D, stop, next, item)
<1> DEFINE R == Seq(T)
           base == [x \in D |-> <<>>]
           join == [p \in D \X R |-> item[p[1]] \o p[2]]
<1>1. base \in [D -> R]
  <2>1. <<>> \in R
    OBVIOUS
  <2> QED
    BY <2>1, Zenon
<1>2. join \in [D \X R -> R]
  <2>1. ASSUME NEW p \in D \X R PROVE item[p[1]] \o p[2] \in R
    <3>1. p[1] \in D /\ p[2] \in R
      OBVIOUS
    <3>2. PICK s \in Seq(T) : s = item[p[1]]
      BY <3>1, Zenon
    <3>3. s \o p[2] \in Seq(T)
      BY <3>1, <3>2, ConcatProperties, Zenon
    <3> QED
      BY <3>2, <3>3, Zenon
  <2> HIDE DEF R
  <2> QED
    BY <2>1, Zenon
<1>3. \A x \in D : Shrinks(D, size, stop, next) /\ next[x] \in D
  BY SMT DEF Shrinks
<1>4. \A x \in D, r \in R : join[<<x, r>>] = item[x] \o r
  <2> SUFFICES ASSUME NEW x \in D, NEW r \in R PROVE join[<<x, r>>] = item[x] \o r
    OBVIOUS
  <2> HIDE DEF R
  <2>1. <<x, r>> \in D \X R /\ <<x, r>>[1] = x /\ <<x, r>>[2] = r
    OBVIOUS
  <2> QED
    BY <2>1, Zenon
<1> HIDE DEF R, join
<1>5. PICK f \in [D -> R] : \A x \in D : Unfolds(f, x, stop, base, next, join)
  <2> HIDE DEF base
  <2> QED
    BY <1>1, <1>2, RecursionExists, Zenon
<1>6. ASSUME NEW x \in D
      PROVE  f[x] = IF x \in stop THEN <<>> ELSE item[x] \o f[next[x]]
  <2>1. Unfolds(f, x, stop, base, next, join)
    BY <1>5, Zenon
  <2>2. CASE x \in stop
    <3>1. f[x] = base[x] /\ base[x] = <<>>
      BY <2>1, <2>2, Zenon DEF Unfolds
    <3> QED
      BY <2>2, <3>1, Zenon
  <2>3. CASE x \notin stop
    <3>1. f[next[x]] \in R
      BY <1>3, <1>5, Zenon
    <3> HIDE DEF base
    <3>2. f[x] = join[<<x, f[next[x]]>>]
      BY <2>1, <2>3, Zenon DEF Unfolds
    <3> QED
      BY <1>4, <2>3, <3>1, <3>2, Zenon
  <2> QED
    BY <2>2, <2>3, Zenon
<1>7. f \in [D -> Seq(T)]
  BY <1>5, Zenon DEF R
<1> QED
  BY <1>6, <1>7, Zenon DEF Collects

LEMMA WrittenString ==
  ASSUME NEW T, NEW enc \in [T -> String], NEW s \in Seq(T)
  PROVE  Written(enc, s) \in String
<1> DEFINE P == {u \in Seq(T) : Written(enc, u) \in String}
<1>1. <<>> \in P
  <2>1. <<>> \in Seq(T)
    OBVIOUS
  <2> QED
    BY <2>1, WrittenUnfolds, CatEmpty, Zenon
<1>2. ASSUME NEW u \in Seq(T), u # <<>>, Tail(u) \in Seq(T), Tail(u) \in P PROVE u \in P
  <2>1. u[1] \in T /\ Written(enc, u) = Cat(enc[u[1]], Written(enc, Tail(u)))
    BY <1>2, WrittenUnfolds, Zenon
  <2>2. enc[u[1]] \in String /\ Written(enc, Tail(u)) \in String
    BY <1>2, <2>1, Zenon
  <2> QED
    BY <2>1, <2>2, CatProps, Zenon
<1>3. Seq(T) \subseteq P
  <2> HIDE DEF P
  <2> QED
    BY <1>1, <1>2, SeqInd, Zenon
<1> QED
  BY <1>3, Zenon

\* An item more is written behind the others.
LEMMA WrittenAppend ==
  ASSUME NEW T, NEW enc \in [T -> String], NEW e \in T, NEW s \in Seq(T)
  PROVE  Written(enc, s \o <<e>>) = Cat(Written(enc, s), enc[e])
<1> DEFINE P == {u \in Seq(T) : Written(enc, u \o <<e>>) = Cat(Written(enc, u), enc[e])}
<1>0. /\ \A u \in Seq(T) : Written(enc, u) \in String
      /\ \A u \in Seq(T) : u # <<>> => Written(enc, u) = Cat(enc[u[1]], Written(enc, Tail(u)))
  BY WrittenString, WrittenUnfolds, Zenon
<1>1. <<>> \in P
  <2>1. <<>> \in Seq(T) /\ <<>> \o <<e>> = <<e>>
    OBVIOUS
  <2>2. PICK w : w = <<e>>
    OBVIOUS
  <2>3. w # <<>> /\ w \in Seq(T) /\ w[1] = e /\ Tail(w) = <<>>
    BY <2>2
  <2>4. Written(enc, w) = Cat(enc[e], <<>>)
    BY <1>0, <2>3, WrittenUnfolds, Zenon
  <2>5. enc[e] \in String
    BY Zenon
  <2>6. Cat(enc[e], <<>>) = Cat(<<>>, enc[e])
    BY <2>5, CatEmpty, Zenon
  <2> QED
    BY <2>1, <2>2, <2>4, <2>6, WrittenUnfolds, Zenon
<1>2. ASSUME NEW u \in Seq(T), u # <<>>, Tail(u) \in Seq(T), Tail(u) \in P PROVE u \in P
  <2>1. /\ u[1] \in T /\ u = <<u[1]>> \o Tail(u)
        /\ Written(enc, u) = Cat(enc[u[1]], Written(enc, Tail(u)))
    BY <1>2, WrittenUnfolds, Zenon
  <2>2. PICK x \in T, r \in Seq(T) : x = u[1] /\ r = Tail(u)
    BY <1>2, <2>1, Zenon
  <2>3. PICK w : w = u \o <<e>>
    OBVIOUS
  <2>4. w \in Seq(T) /\ w # <<>> /\ w[1] = x /\ Tail(w) = r \o <<e>>
    BY <1>2, <2>2, <2>3
  <2>5. Written(enc, w) = Cat(enc[x], Written(enc, r \o <<e>>))
    BY <1>0, <2>4, Zenon
  <2>6. Written(enc, r \o <<e>>) = Cat(Written(enc, r), enc[e])
    BY <1>2, <2>2, Zenon
  <2>7. PICK a, b, c \in String : a = enc[x] /\ b = Written(enc, r) /\ c = enc[e]
    <3>1. enc[x] \in String /\ enc[e] \in String
      BY Zenon
    <3> QED
      BY <1>0, <3>1, Zenon
  <2>8. Cat(a, Cat(b, c)) = Cat(Cat(a, b), c)
    BY CatAssoc, Zenon
  <2> QED
    BY <2>1, <2>2, <2>3, <2>5, <2>6, <2>7, <2>8, Zenon
<1>3. Seq(T) \subseteq P
  <2> HIDE DEF P
  <2> QED
    BY <1>1, <1>2, SeqInd, Zenon
<1> QED
  BY <1>3, Zenon

\* A string cut off behind all of it is all of it,
LEMMA SliceAll ==
  ASSUME NEW b \in String
  PROVE  Slice(b, 0, Len(b)) = b
<1>1. <<>> \in String /\ Cat(b, <<>>) = b
  BY CatEmpty, Zenon
<1>2. Slice(Cat(b, <<>>), 0, Len(b)) = b
  BY <1>1, HeadOfCat, Zenon
<1> QED
  BY <1>1, <1>2, Zenon

\* and one cut off in the first of its parts is that part cut off.
LEMMA HeadWithin ==
  ASSUME NEW a \in String, NEW c \in String, NEW k \in Nat, k <= Len(a)
  PROVE  Slice(Cat(a, c), 0, k) = Slice(a, 0, k)
<1>1. PICK u \in String, v \in String : u = Slice(a, 0, k) /\ v = Slice(a, k, Len(a))
  <2>1. Slice(a, 0, k) \in String /\ Slice(a, k, Len(a)) \in String
    <3>1. 0 \in Nat /\ Len(a) \in Nat
      BY CatProps, SMT
    <3> QED
      BY <3>1, SliceProps, Zenon
  <2> QED
    BY <2>1, Zenon
<1>2. 0 \in Nat /\ Len(a) \in Nat /\ 0 <= k /\ k <= Len(a) /\ k - 0 = k
  <2>1. Len(a) \in Nat
    BY CatProps, Zenon
  <2> QED
    BY <2>1
<1>3. Len(u) = k /\ \A i \in 1 .. Len(u) : u[i] = a[0 + i]
  <2>1. /\ Len(Slice(a, 0, k)) = k - 0
        /\ \A i \in 1 .. Len(Slice(a, 0, k)) : Slice(a, 0, k)[i] = a[0 + i]
    BY <1>2, SliceProps, Zenon
  <2> QED
    BY <1>1, <1>2, <2>1, Zenon
<1>4. Len(v) = Len(a) - k /\ \A i \in 1 .. Len(v) : v[i] = a[k + i]
  <2>1. Len(a) <= Len(a)
    BY <1>2
  <2>2. /\ Len(Slice(a, k, Len(a))) = Len(a) - k
        /\ \A i \in 1 .. Len(Slice(a, k, Len(a))) : Slice(a, k, Len(a))[i] = a[k + i]
    BY <1>2, <2>1, SliceProps, Zenon
  <2> QED
    BY <1>1, <2>2, Zenon
<1>5. a = Cat(u, v)
  <2>1. PICK w \in String : /\ w = Cat(u, v) /\ Len(w) = Len(u) + Len(v)
                            /\ \A i \in 1 .. Len(u) : w[i] = u[i]
                            /\ \A i \in 1 .. Len(v) : w[Len(u) + i] = v[i]
    <3>1. PICK w : w = Cat(u, v)
      OBVIOUS
    <3>2. /\ w \in String /\ Len(w) = Len(u) + Len(v)
          /\ \A i \in 1 .. Len(u) : w[i] = u[i]
          /\ \A i \in 1 .. Len(v) : w[Len(u) + i] = v[i]
      BY <3>1, CatProps, Zenon
    <3> QED
      BY <3>1, <3>2, Zenon
  <2>2. Len(w) = Len(a)
    BY <1>2, <1>3, <1>4, <2>1, SMT
  <2>3. ASSUME NEW i \in 1 .. Len(w) PROVE w[i] = a[i]
    <3>1. CASE i <= k
      BY <1>2, <1>3, <2>1, <2>2, <3>1, SMT
    <3>2. CASE i > k
      <4>1. i - k \in 1 .. Len(v) /\ k + (i - k) = i
        BY <1>2, <1>4, <2>2, <3>2, SMT
      <4>2. PICK j \in 1 .. Len(v) : k + j = i
        BY <4>1, Zenon
      <4>3. w[k + j] = v[j]
        BY <1>3, <2>1, <4>2, Zenon
      <4> QED
        BY <1>4, <4>2, <4>3, Zenon
    <3> QED
      BY <1>2, <2>2, <3>1, <3>2, SMT
  <2>4. w \in Seq(Octet) /\ a \in Seq(Octet)
    BY Zenon DEF String
  <2>5. w = a
    BY <2>2, <2>3, <2>4, SeqEqual, Zenon
  <2> QED
    BY <2>1, <2>5, Zenon
<1>6. Cat(a, c) = Cat(u, Cat(v, c)) /\ Cat(v, c) \in String
  <2>1. Cat(Cat(u, v), c) = Cat(u, Cat(v, c))
    BY CatAssoc, Zenon
  <2>2. Cat(v, c) \in String
    BY CatProps, Zenon
  <2> QED
    BY <1>5, <2>1, <2>2, Zenon
<1>7. Slice(Cat(u, Cat(v, c)), 0, Len(u)) = u
  BY <1>6, HeadOfCat, Zenon
<1> QED
  BY <1>1, <1>3, <1>6, <1>7, Zenon

-----------------------------------------------------------------------------
(* Items that are read one by one, up to one that is cut off or an end.    *)

ReadsItems(f, T, enc) ==
  /\ \A e \in T : \A c \in String : f[Cat(enc[e], c)] = <<e>> \o f[c]
  /\ \A e \in T : \A k \in Nat : k < Len(enc[e]) => f[Slice(enc[e], 0, k)] = <<>>

Ends(f, end) == \A k \in Nat : k <= Len(end) => f[Slice(end, 0, k)] = <<>>

\* r is how s begins.
IsStart(r, s, T) ==
  /\ r \in Seq(T) /\ Len(r) <= Len(s)
  /\ \A i \in 1 .. Len(r) : r[i] = s[i]

LEMMA StartMore ==
  ASSUME NEW T, NEW s \in Seq(T), s # <<>>, NEW r, IsStart(r, Tail(s), T)
  PROVE  IsStart(<<s[1]>> \o r, s, T)
<1>1. /\ r \in Seq(T) /\ Tail(s) \in Seq(T) /\ s[1] \in T /\ Len(Tail(s)) = Len(s) - 1
      /\ Len(s) \in Nat /\ Len(r) \in Nat /\ \A i \in 1 .. Len(s) - 1 : Tail(s)[i] = s[i + 1]
  BY DEF IsStart
<1>2. PICK q : q = <<s[1]>> \o r
  OBVIOUS
<1>3. /\ q \in Seq(T) /\ Len(q) = 1 + Len(r) /\ q[1] = s[1]
      /\ \A i \in 2 .. Len(q) : q[i] = r[i - 1]
  BY <1>1, <1>2
<1>4. Len(r) <= Len(s) - 1 /\ \A i \in 1 .. Len(r) : r[i] = Tail(s)[i]
  BY <1>1 DEF IsStart
<1>5. ASSUME NEW i \in 1 .. Len(q) PROVE q[i] = s[i]
  <2>1. CASE i = 1
    BY <1>3, <2>1
  <2>2. CASE i # 1
    <3>1. i \in 2 .. Len(q) /\ i - 1 \in 1 .. Len(r) /\ i - 1 \in 1 .. Len(s) - 1 /\ (i - 1) + 1 = i
      BY <1>1, <1>3, <1>4, <2>2, SMT
    <3> QED
      BY <1>1, <1>3, <1>4, <3>1, Zenon
  <2> QED
    BY <2>1, <2>2
<1>6. Len(q) <= Len(s)
  BY <1>1, <1>3, <1>4, SMT
<1> QED
  BY <1>2, <1>3, <1>5, <1>6, Zenon DEF IsStart

LEMMA ItemsRead ==
  ASSUME NEW T, NEW enc \in [T -> String], NEW f, ReadsItems(f, T, enc),
         NEW end \in String, Ends(f, end), NEW items \in Seq(T)
  PROVE  /\ f[Cat(Written(enc, items), end)] = items
         /\ \A n \in Nat : n <= Len(Cat(Written(enc, items), end)) =>
              IsStart(f[Slice(Cat(Written(enc, items), end), 0, n)], items, T)
<1> DEFINE Good(s, b) == f[b] = s /\ \A n \in Nat : n <= Len(b) => IsStart(f[Slice(b, 0, n)], s, T)
           P == {s \in Seq(T) : Good(s, Cat(Written(enc, s), end))}
<1>0. \A s \in Seq(T) : Written(enc, s) \in String
  BY WrittenString, Zenon
<1>1. <<>> \in P
  <2>1. <<>> \in Seq(T) /\ IsStart(<<>>, <<>>, T)
    BY DEF IsStart
  <2>2. Cat(Written(enc, <<>>), end) = end
    <3>1. Written(enc, <<>>) = <<>>
      BY WrittenUnfolds, Zenon
    <3> QED
      BY <3>1, CatEmpty, Zenon
  <2>3. f[end] = <<>>
    <3>1. Len(end) \in Nat /\ Len(end) <= Len(end)
      <4>1. Len(end) \in Nat
        BY CatProps, Zenon
      <4> QED
        BY <4>1
    <3>2. Slice(end, 0, Len(end)) = end
      BY SliceAll, Zenon
    <3> QED
      BY <3>1, <3>2, Zenon DEF Ends
  <2>4. \A n \in Nat : n <= Len(end) => f[Slice(end, 0, n)] = <<>>
    BY Zenon DEF Ends
  <2>5. Good(<<>>, end)
    BY <2>1, <2>3, <2>4, Zenon
  <2> HIDE DEF Good
  <2> QED
    BY <2>1, <2>2, <2>5, Zenon
<1>2. ASSUME NEW s \in Seq(T), s # <<>>, Tail(s) \in Seq(T), Tail(s) \in P PROVE s \in P
  <2>1. /\ s[1] \in T /\ s = <<s[1]>> \o Tail(s)
        /\ Written(enc, s) = Cat(enc[s[1]], Written(enc, Tail(s)))
    BY <1>2, WrittenUnfolds, Zenon
  <2>2. PICK e \in T, a, w, b \in String :
          e = s[1] /\ a = enc[e] /\ w = Written(enc, Tail(s)) /\ b = Cat(w, end)
    <3>1. enc[s[1]] \in String /\ Written(enc, Tail(s)) \in String
      BY <1>0, <1>2, <2>1, Zenon
    <3>2. Cat(Written(enc, Tail(s)), end) \in String
      BY <3>1, CatProps, Zenon
    <3> QED
      BY <2>1, <3>1, <3>2, Zenon
  <2>3. Good(Tail(s), b)
    BY <1>2, <2>2, Zenon
  <2>4. Cat(Written(enc, s), end) = Cat(a, b)
    <3>1. Cat(Cat(a, w), end) = Cat(a, Cat(w, end))
      BY CatAssoc, Zenon
    <3>2. Written(enc, s) = Cat(a, w)
      BY <2>1, <2>2, Zenon
    <3> QED
      BY <2>2, <3>1, <3>2, Zenon
  <2>5. f[Cat(a, b)] = s
    <3>1. f[Cat(a, b)] = <<e>> \o f[b]
      BY <2>2, Zenon DEF ReadsItems
    <3> QED
      BY <2>1, <2>2, <2>3, <3>1, Zenon
  <2>6. ASSUME NEW n \in Nat, n <= Len(Cat(a, b)) PROVE IsStart(f[Slice(Cat(a, b), 0, n)], s, T)
    <3>1. Len(a) \in Nat /\ Len(b) \in Nat /\ Len(Cat(a, b)) = Len(a) + Len(b)
      BY CatProps, Zenon
    <3>2. CASE n < Len(a)
      <4>1. n <= Len(a)
        BY <3>1, <3>2, SMT
      <4>2. Slice(Cat(a, b), 0, n) = Slice(a, 0, n)
        BY <4>1, HeadWithin, Zenon
      <4>3. f[Slice(a, 0, n)] = <<>>
        BY <2>2, <3>2, Zenon DEF ReadsItems
      <4>4. IsStart(<<>>, s, T)
        BY DEF IsStart
      <4> QED
        BY <4>2, <4>3, <4>4, Zenon
    <3>3. CASE ~(n < Len(a))
      <4>1. PICK k \in Nat : n = Len(a) + k /\ k <= Len(b)
        <5>1. n - Len(a) \in Nat /\ n = Len(a) + (n - Len(a)) /\ n - Len(a) <= Len(b)
          BY <2>6, <3>1, <3>3, SMT
        <5> QED
          BY <5>1, Zenon
      <4>2. Slice(Cat(a, b), 0, n) = Cat(a, Slice(b, 0, k)) /\ Slice(b, 0, k) \in String
        <5>1. 0 \in Nat
          OBVIOUS
        <5> QED
          BY <4>1, <5>1, HeadBeyond, SliceProps, Zenon
      <4>3. f[Cat(a, Slice(b, 0, k))] = <<e>> \o f[Slice(b, 0, k)]
        BY <2>2, <4>2, Zenon DEF ReadsItems
      <4>4. IsStart(f[Slice(b, 0, k)], Tail(s), T)
        BY <2>3, <4>1, Zenon
      <4>5. IsStart(<<s[1]>> \o f[Slice(b, 0, k)], s, T)
        BY <1>2, <4>4, StartMore, Zenon
      <4> QED
        BY <2>2, <4>2, <4>3, <4>5, Zenon
    <3> QED
      BY <3>2, <3>3, Zenon
  <2>7. Good(s, Cat(a, b))
    BY <2>5, <2>6, Zenon
  <2> HIDE DEF Good
  <2> QED
    BY <2>4, <2>7, Zenon
<1>3. Seq(T) \subseteq P
  <2> HIDE DEF P
  <2> QED
    BY <1>1, <1>2, SeqInd, Zenon
<1>4. items \in P
  BY <1>3, Zenon
<1> QED
  BY <1>4, Zenon

-----------------------------------------------------------------------------
(* Parts of strings.                                                       *)

\* A number as the parsers find it: not negative, whatever the octets are.
LEMMA NumberIs ==
  ASSUME NEW b \in String
  PROVE  Number[b] \in Nat
BY NumberUnfolds, Zenon

LEMMA OctetAt ==
  ASSUME NEW b \in String, NEW i \in Nat, 1 <= i, i <= Len(b)
  PROVE  b[i] \in Octet /\ b[i] \in Nat
<1>1. b[i] \in Octet
  <2> DEFINE S == Octet
  <2>1. b \in Seq(S)
    BY Zenon DEF String
  <2> HIDE DEF S
  <2>2. b[i] \in S
    BY <2>1
  <2> QED
    BY <2>2 DEF S
<1> QED
  BY <1>1, OctetIs, SMT

\* Nothing is cut out of a string but a string,
LEMMA SliceString ==
  ASSUME NEW b \in String, NEW from \in Nat, NEW to \in Nat
  PROVE  Slice(b, from, to) \in String
BY SliceProps, Zenon

\* and what is left of one is shorter.
LEMMA RestShrinks ==
  ASSUME NEW b \in String, NEW k \in Nat, 1 <= k, k <= Len(b)
  PROVE  Rest(b, k) \in String /\ Len(Rest(b, k)) = Len(b) - k /\ Len(Rest(b, k)) < Len(b)
<1>1. Len(b) \in Nat
  BY CatProps, Zenon
<1>2. Len(b) <= Len(b) /\ Len(b) - k < Len(b)
  BY <1>1, SMT
<1>3. Slice(b, k, Len(b)) \in String /\ Len(Slice(b, k, Len(b))) = Len(b) - k
  BY <1>1, <1>2, SliceProps, Zenon
<1> QED
  BY <1>2, <1>3, Zenon DEF Rest

\* What is cut out of the first part of a string,
LEMMA SliceWithin ==
  ASSUME NEW a \in String, NEW c \in String, NEW from \in Nat, NEW to \in Nat,
         from <= to, to <= Len(a)
  PROVE  Slice(Cat(a, c), from, to) = Slice(a, from, to)
<1>1. PICK b \in String : /\ b = Cat(a, c) /\ Len(b) = Len(a) + Len(c)
                          /\ \A i \in 1 .. Len(a) : b[i] = a[i]
  <2>1. /\ Cat(a, c) \in String /\ Len(Cat(a, c)) = Len(a) + Len(c)
        /\ \A i \in 1 .. Len(a) : Cat(a, c)[i] = a[i]
    BY CatProps, Zenon
  <2> QED
    BY <2>1, Zenon
<1>2. Len(a) \in Nat /\ Len(c) \in Nat
  BY CatProps, Zenon
<1>3. to <= Len(b)
  BY <1>1, <1>2, SMT
<1>4. PICK u \in String : /\ u = Slice(a, from, to) /\ Len(u) = to - from
                          /\ \A i \in 1 .. Len(u) : u[i] = a[from + i]
  <2>1. /\ Slice(a, from, to) \in String /\ Len(Slice(a, from, to)) = to - from
        /\ \A i \in 1 .. Len(Slice(a, from, to)) : Slice(a, from, to)[i] = a[from + i]
    BY SliceProps, Zenon
  <2> QED
    BY <2>1, Zenon
<1>5. PICK w \in String : /\ w = Slice(b, from, to) /\ Len(w) = to - from
                          /\ \A i \in 1 .. Len(w) : w[i] = b[from + i]
  <2>1. /\ Slice(b, from, to) \in String /\ Len(Slice(b, from, to)) = to - from
        /\ \A i \in 1 .. Len(Slice(b, from, to)) : Slice(b, from, to)[i] = b[from + i]
    BY <1>3, SliceProps, Zenon
  <2> QED
    BY <2>1, Zenon
<1>6. \A i \in 1 .. Len(w) : w[i] = u[i]
  <2> SUFFICES ASSUME NEW i \in 1 .. Len(w) PROVE w[i] = u[i]
    OBVIOUS
  <2>1. from + i \in 1 .. Len(a) /\ i \in 1 .. Len(u)
    BY <1>2, <1>4, <1>5, SMT
  <2> QED
    BY <1>1, <1>4, <1>5, <2>1, Zenon
<1>7. Len(w) = Len(u) /\ w \in Seq(Octet) /\ u \in Seq(Octet)
  BY <1>4, <1>5, Zenon DEF String
<1>8. w = u
  BY <1>6, <1>7, SeqEqual, Zenon
<1> QED
  BY <1>1, <1>4, <1>5, <1>8, Zenon

\* and the last part.
LEMMA SliceLast ==
  ASSUME NEW a \in String, NEW v \in String
  PROVE  Slice(Cat(a, v), Len(a), Len(a) + Len(v)) = v
<1>1. <<>> \in String /\ Cat(v, <<>>) = v
  BY CatEmpty, Zenon
<1>2. Slice(Cat(a, Cat(v, <<>>)), Len(a), Len(a) + Len(v)) = v
  BY <1>1, SliceOfCat, Zenon
<1> QED
  BY <1>1, <1>2, Zenon

\* A string that is made of a header, a value, and more.
LEMMA Framed ==
  ASSUME NEW h \in String, NEW v \in String, NEW c \in String
  PROVE  /\ Len(h) \in Nat /\ Len(v) \in Nat /\ Len(c) \in Nat
         /\ Cat(Cat(h, v), c) = Cat(h, Cat(v, c)) /\ Cat(v, c) \in String
         /\ Cat(h, Cat(v, c)) \in String
         /\ Len(Cat(h, Cat(v, c))) = Len(h) + Len(v) + Len(c)
         /\ Slice(Cat(h, Cat(v, c)), Len(h), Len(h) + Len(v)) = v
         /\ Rest(Cat(h, Cat(v, c)), Len(h) + Len(v)) = c
<1>1. Len(h) \in Nat /\ Len(v) \in Nat /\ Len(c) \in Nat
  BY CatProps, Zenon
<1>2. Cat(Cat(h, v), c) = Cat(h, Cat(v, c))
  BY CatAssoc, Zenon
<1>3. PICK x \in String : x = Cat(v, c) /\ Len(x) = Len(v) + Len(c)
  <2>1. Cat(v, c) \in String /\ Len(Cat(v, c)) = Len(v) + Len(c)
    BY CatProps, Zenon
  <2> QED
    BY <2>1, Zenon
<1>4. PICK y \in String : y = Cat(h, v) /\ Len(y) = Len(h) + Len(v)
  <2>1. Cat(h, v) \in String /\ Len(Cat(h, v)) = Len(h) + Len(v)
    BY CatProps, Zenon
  <2> QED
    BY <2>1, Zenon
<1>5. Cat(h, x) \in String /\ Len(Cat(h, x)) = Len(h) + Len(x)
  BY CatProps, Zenon
<1>6. Len(h) + (Len(v) + Len(c)) = Len(h) + Len(v) + Len(c)
  BY <1>1, SMT
<1>7. Slice(Cat(h, Cat(v, c)), Len(h), Len(h) + Len(v)) = v
  BY SliceOfCat, Zenon
<1>8. Rest(Cat(y, c), Len(y)) = c
  BY RestOfCat, Zenon
<1> QED
  BY <1>1, <1>2, <1>3, <1>4, <1>5, <1>6, <1>7, <1>8, Zenon

\* One that is cut off behind its header.
LEMMA FramedCut ==
  ASSUME NEW h \in String, NEW v \in String, NEW k \in Nat, k <= Len(Cat(h, v))
  PROVE  /\ Slice(Cat(h, v), 0, k) \in String /\ Len(Slice(Cat(h, v), 0, k)) = k
         /\ ~(k < Len(h)) => \E x \in String : Slice(Cat(h, v), 0, k) = Cat(h, x)
<1>1. PICK b \in String : b = Cat(h, v) /\ Len(b) = Len(h) + Len(v)
  <2>1. Cat(h, v) \in String /\ Len(Cat(h, v)) = Len(h) + Len(v)
    BY CatProps, Zenon
  <2> QED
    BY <2>1, Zenon
<1>2. Len(h) \in Nat /\ Len(v) \in Nat
  BY CatProps, Zenon
<1>3. 0 \in Nat /\ 0 <= k /\ k - 0 = k
  BY SMT
<1>4. Slice(b, 0, k) \in String /\ Len(Slice(b, 0, k)) = k
  <2>1. k <= Len(b)
    BY <1>1, Zenon
  <2>2. Slice(b, 0, k) \in String /\ Len(Slice(b, 0, k)) = k - 0
    BY <1>3, <2>1, SliceProps, Zenon
  <2> QED
    BY <1>3, <2>2, Zenon
<1>5. ASSUME ~(k < Len(h)) PROVE \E x \in String : Slice(b, 0, k) = Cat(h, x)
  <2>1. k <= Len(b)
    BY <1>1, Zenon
  <2>2. k - Len(h) \in Nat /\ k - Len(h) <= Len(v) /\ k = Len(h) + (k - Len(h))
    BY <1>1, <1>2, <1>5, <2>1, SMT
  <2>3. PICK m \in Nat : m <= Len(v) /\ k = Len(h) + m
    BY <2>2, Zenon
  <2>4. Slice(Cat(h, v), 0, Len(h) + m) = Cat(h, Slice(v, 0, m))
    BY <2>3, HeadBeyond, Zenon
  <2>5. Slice(v, 0, m) \in String
    BY <1>3, SliceString, Zenon
  <2> QED
    BY <1>1, <2>3, <2>4, <2>5, Zenon
<1> QED
  BY <1>1, <1>4, <1>5, Zenon

=============================================================================
