-------------------------- MODULE SnmpExchange_proofs --------------------------
(***************************************************************************)
(* Proofs about SnmpExchange, for tables and retries of any extent: a result *)
(* consists of what was asked for, in order and without a gap, the outcome *)
(* of a get is of that get, reading a table implements TableRead, and an   *)
(* answer is read as what was written.                                     *)
(***************************************************************************)
EXTENDS MCSnmpExchange, Octets_proofs

-----------------------------------------------------------------------------
(* The header of a TLV.                                                    *)

Size(n) == n \in Nat /\ n < 65536

LEMMA SizeIs ==
  ASSUME NEW n, Size(n)
  PROVE  n \in Nat /\ n <= 65535 /\ n < 65536 /\ n \in Int
BY DEF Size

Lead(n, w) == Cat(One(128 + w), InOctets(n, w))
LenOf(n) == EncodeLen(n)
Header(t, n) == Cat(One(t), LenOf(n))

\* A length is written as one octet, or marked and followed by one or two.
LEMMA LenEncoded ==
  ASSUME NEW n, Size(n)
  PROVE  \/ n < 128 /\ LenOf(n) = One(n)
         \/ n >= 128 /\ n <= 255 /\ LenOf(n) = Lead(n, 1)
         \/ n > 255 /\ LenOf(n) = Lead(n, 2)
<1>1. CASE n < 128
  BY <1>1, SMT DEF EncodeLen, LenOf, One
<1>2. ASSUME NEW w, w = Width(n), n >= 128 PROVE LenOf(n) = Lead(n, w)
  <2>1. EncodeLen(n) = IF n < 128 THEN <<n>> ELSE <<128 + Width(n)>> \o InOctets(n, Width(n))
    BY Zenon DEF EncodeLen
  <2>2. ~(n < 128)
    BY <1>2, SizeIs, SMT
  <2>3. EncodeLen(n) = <<128 + Width(n)>> \o InOctets(n, Width(n))
    BY <2>1, <2>2, Zenon
  <2> QED
    BY <1>2, <2>3, Zenon DEF LenOf, Lead, Cat, One
<1>3. CASE n >= 128 /\ n <= 255
  <2>1. Width(n) = 1
    BY <1>3, SizeIs, SMT DEF Width
  <2> QED
    BY <1>2, <1>3, <2>1, SMT
<1>4. CASE n > 255
  <2>1. Width(n) = 2 /\ n >= 128
    BY <1>4, SizeIs, SMT DEF Width
  <2> QED
    BY <1>2, <1>4, <2>1, SMT
<1>5. n \in Int
  BY SizeIs, SMT
<1> QED
  BY <1>1, <1>3, <1>4, <1>5, SMT

LEMMA LeadProps ==
  ASSUME NEW n \in Nat, NEW w \in 1 .. 2
  PROVE  /\ Lead(n, w) \in String /\ Len(Lead(n, w)) = w + 1 /\ Lead(n, w)[1] = 128 + w
         /\ 128 + w \in Octet /\ InOctets(n, w) \in String /\ Len(InOctets(n, w)) = w
<1>1. 128 + w \in Octet
  BY OctetIs, SMT
<1>2. InOctets(n, w) \in String /\ Len(InOctets(n, w)) = w
  <2>1. w \in 1 .. 4 /\ n \in Int
    OBVIOUS
  <2> QED
    BY <2>1, InOctetsString, Zenon
<1>3. Lead(n, w) \in String /\ Len(Lead(n, w)) = 1 + w /\ Lead(n, w)[1] = 128 + w
  <2>1. PICK y \in String : y = InOctets(n, w) /\ Len(y) = w
    BY <1>2, Zenon
  <2>2. PICK o \in Octet : o = 128 + w
    BY <1>1, Zenon
  <2>3. PICK c : c = Lead(n, w)
    BY Zenon
  <2>4. c = Cat(One(o), y)
    BY <2>1, <2>2, <2>3, Zenon DEF Lead
  <2>5. Len(y) >= 1
    BY <2>1
  <2>6. c \in String /\ Len(c) = 1 + Len(y) /\ c[1] = o
    BY <2>4, <2>5, OneCat, Zenon
  <2> QED
    BY <2>1, <2>2, <2>3, <2>6, Zenon
<1>4. 1 + w = w + 1
  OBVIOUS
<1> QED
  BY <1>1, <1>2, <1>3, <1>4, Zenon

\* Where a header of two octets, or of two and w more, puts what.
Short(h, t, n) == Len(h) = 2 /\ h[1] = t /\ h[2] = n /\ n < 128
Long(h, t, n, w) ==
  /\ Len(h) = 2 + w /\ h[1] = t /\ h[2] = 128 + w
  /\ \E m, v \in String : Len(m) = 2 /\ Len(v) = w /\ h = Cat(m, v) /\ Number[v] = n

LEMMA HeaderIs ==
  ASSUME NEW t \in Octet, NEW n, Size(n), NEW h, h = Header(t, n)
  PROVE  h \in String /\ (Short(h, t, n) \/ \E w \in 1 .. 2 : Long(h, t, n, w))
<1>1. One(t) \in String /\ Len(One(t)) = 1 /\ One(t)[1] = t
  BY OneProps, SMT
<1>2. n \in Nat
  BY SizeIs, SMT
<1>3. CASE n < 128 /\ LenOf(n) = One(n)
  <2>1. n \in Octet
    BY <1>2, <1>3, OctetIs, SMT
  <2>2. One(n) \in String /\ Len(One(n)) = 1 /\ One(n)[1] = n
    BY <2>1, OneProps, SMT
  <2>3. h = Cat(One(t), One(n))
    BY <1>3, SMT DEF Header
  <2>4. h \in String /\ Len(h) = 2 /\ h[1] = t /\ h[2] = n
    <3>1. PICK y \in String : y = One(n) /\ Len(y) = 1 /\ y[1] = n
      BY <2>2, Zenon
    <3>2. Len(y) >= 1 /\ 1 + 1 = 2
      BY <3>1
    <3>3. h = Cat(One(t), y)
      BY <2>3, <3>1, Zenon
    <3>4. h \in String /\ Len(h) = 1 + Len(y) /\ h[1] = t /\ h[2] = y[1]
      BY <3>2, <3>3, OneCat, SMT
    <3> QED
      BY <3>1, <3>2, <3>4, Zenon
  <2> QED
    BY <1>3, <2>4, SMT DEF Short
<1>4. ASSUME NEW w \in 1 .. 2, LenOf(n) = Lead(n, w), Number[InOctets(n, w)] = n
      PROVE  h \in String /\ Long(h, t, n, w)
  <2>1. /\ Lead(n, w) \in String /\ Len(Lead(n, w)) = w + 1 /\ Lead(n, w)[1] = 128 + w
        /\ 128 + w \in Octet /\ InOctets(n, w) \in String /\ Len(InOctets(n, w)) = w
    BY <1>2, LeadProps, Zenon
  <2>2. One(128 + w) \in String /\ Len(One(128 + w)) = 1
    BY <2>1, OneProps, SMT
  <2>3. Cat(One(t), One(128 + w)) \in String /\ Len(Cat(One(t), One(128 + w))) = 2
    <3>1. PICK y \in String : y = One(128 + w) /\ Len(y) = 1
      BY <2>2, Zenon
    <3>2. Len(y) >= 1 /\ 1 + 1 = 2
      <4>1. Len(y) = 1
        BY <3>1, Zenon
      <4> QED
        BY <4>1
    <3>3. PICK c : c = Cat(One(t), y)
      BY Zenon
    <3>4. c \in String /\ Len(c) = 1 + Len(y)
      BY <3>2, <3>3, OneCat, SMT
    <3> QED
      BY <3>1, <3>2, <3>3, <3>4, Zenon
  <2>4. h = Cat(One(t), Lead(n, w))
    BY <1>4, SMT DEF Header
  <2>5. h = Cat(Cat(One(t), One(128 + w)), InOctets(n, w))
    BY <1>1, <2>1, <2>2, <2>4, CatAssoc, SMT DEF Lead
  <2>6. h \in String /\ Len(h) = 2 + w /\ h[1] = t /\ h[2] = 128 + w
    <3>1. PICK y \in String : y = Lead(n, w) /\ Len(y) = w + 1 /\ y[1] = 128 + w
      BY <2>1, Zenon
    <3>2. Len(y) >= 1 /\ 1 + (w + 1) = 2 + w
      BY <3>1
    <3>3. h = Cat(One(t), y)
      BY <2>4, <3>1, Zenon
    <3>4. h \in String /\ Len(h) = 1 + Len(y) /\ h[1] = t /\ h[2] = y[1]
      BY <3>2, <3>3, OneCat, SMT
    <3> QED
      BY <3>1, <3>2, <3>4, Zenon
  <2> QED
    BY <1>4, <2>1, <2>3, <2>5, <2>6, SMT DEF Long
<1>5. CASE n >= 128 /\ n <= 255 /\ LenOf(n) = Lead(n, 1)
  <2>1. n \in Octet
    BY <1>2, <1>5, OctetIs, SMT
  <2>2. Number[InOctets(n, 1)] = n
    BY <2>1, NumberRead1, SMT
  <2> QED
    BY <1>4, <1>5, <2>2, SMT
<1>6. CASE n > 255 /\ LenOf(n) = Lead(n, 2)
  <2>1. Number[InOctets(n, 2)] = n
    BY SizeIs, <1>2, NumberRead2, SMT
  <2> QED
    BY <1>4, <1>6, <2>1, SMT
<1> QED
  BY <1>3, <1>5, <1>6, LenEncoded, SMT

\* The second octet of a header tells how long it is,
LEMMA HeaderBegins ==
  ASSUME NEW t \in Octet, NEW n, Size(n), NEW h, h = Header(t, n)
  PROVE  /\ h \in String /\ Len(h) \in Nat /\ Len(h) >= 2 /\ h[1] = t
         /\ \A b : b[2] = h[2] => Begins(b) = Len(h)
<1>1. CASE Short(h, t, n)
  BY <1>1, HeaderIs, SMT DEF Short, Begins
<1>2. ASSUME NEW w \in 1 .. 2, Long(h, t, n, w)
      PROVE  /\ Len(h) \in Nat /\ Len(h) >= 2 /\ h[1] = t
             /\ \A b : b[2] = h[2] => Begins(b) = Len(h)
  <2>1. Len(h) = 2 + w /\ h[1] = t /\ h[2] = 128 + w
    BY <1>2, SMT DEF Long
  <2>2. 2 + w \in Nat /\ 2 + w >= 2 /\ ~(128 + w < 128) /\ (128 + w) % 128 = w
    BY SMT
  <2> QED
    BY <2>1, <2>2, SMT DEF Begins
<1> QED
  BY <1>1, <1>2, HeaderIs, SMT

\* and with what follows how long its value is.
LEMMA HeaderLength ==
  ASSUME NEW t \in Octet, NEW n, Size(n), NEW x \in String
  PROVE  LET h == Header(t, n)
             b == Cat(h, x)
         IN /\ b \in String /\ Len(b) = Len(h) + Len(x) /\ b[1] = t
            /\ Begins(b) = Len(h) /\ Length(b) = n
<1> DEFINE h == Header(t, n)
           b == Cat(h, x)
<1>0. b = Cat(h, x) /\ h = Header(t, n)
  BY Zenon
<1> HIDE DEF b, h
<1>1. h \in String /\ Len(h) \in Nat /\ Len(h) >= 2 /\ h[1] = t
  BY <1>0, HeaderBegins, SMT
<1>2. b \in String /\ Len(b) = Len(h) + Len(x) /\ b[1] = h[1] /\ b[2] = h[2]
  <2>1. /\ b \in String /\ Len(b) = Len(h) + Len(x)
        /\ Len(h) >= 1 => b[1] = h[1]
        /\ Len(h) >= 2 => b[2] = h[2]
    BY <1>0, <1>1, CatFirst, Zenon
  <2> QED
    BY <1>1, <2>1, SMT
<1>3. Begins(b) = Len(h)
  BY <1>0, <1>2, HeaderBegins, SMT
<1>4. ASSUME Short(h, t, n) PROVE Length(b) = n
  BY <1>2, <1>4, SMT DEF Length, Short
<1>5. ASSUME NEW w \in 1 .. 2, Long(h, t, n, w) PROVE Length(b) = n
  <2>1. Len(h) = 2 + w /\ h[2] = 128 + w /\ ~(128 + w < 128)
    BY <1>5, SMT DEF Long
  <2>2. PICK m, v \in String : Len(m) = 2 /\ Len(v) = w /\ h = Cat(m, v) /\ Number[v] = n
    BY <1>5, SMT DEF Long
  <2>3. b = Cat(m, Cat(v, x))
    BY <1>0, <2>2, CatAssoc, SMT
  <2>4. Slice(b, 2, Len(h)) = v
    <3>1. Slice(b, Len(m), Len(m) + Len(v)) = v
      BY <2>3, SliceOfCat, SMT
    <3> QED
      BY <2>1, <2>2, <3>1, SMT
  <2>5. Length(b) = Number[Slice(b, 2, Begins(b))]
    BY <1>2, <2>1, SMT DEF Length
  <2> QED
    BY <1>3, <2>2, <2>4, <2>5, Zenon
<1>6. Length(b) = n
  BY <1>0, <1>4, <1>5, HeaderIs, SMT
<1>7. b[1] = t
  BY <1>1, <1>2, Zenon
<1> QED
  BY <1>2, <1>3, <1>6, <1>7, Zenon DEF b, h

-----------------------------------------------------------------------------
(* One TLV, whole or cut off.                                              *)

Tlv(t, v) == Encode(t, v)

LEMMA TlvIs ==
  ASSUME NEW t, NEW v
  PROVE  Tlv(t, v) = Cat(Header(t, Len(v)), v)
BY Zenon DEF Tlv, Encode, Header, LenOf, Cat, One

LEMMA AtLeastTwo ==
  ASSUME NEW p \in Nat, p >= 2, NEW q \in Nat
  PROVE  p + q \in Nat /\ p + q >= 2 + q
OBVIOUS

LEMMA TlvString ==
  ASSUME NEW t \in Octet, NEW v \in String, Size(Len(v))
  PROVE  /\ Tlv(t, v) \in String /\ Len(Tlv(t, v)) \in Nat
         /\ Len(Tlv(t, v)) >= 2 + Len(v)
<1>1. PICK h : h = Header(t, Len(v))
  BY Zenon
<1>2. h \in String /\ Len(h) \in Nat /\ Len(h) >= 2
  BY <1>1, HeaderBegins, Zenon
<1>3. /\ Len(v) \in Nat /\ Cat(h, v) \in String /\ Len(Cat(h, v)) = Len(h) + Len(v)
  BY <1>2, CatFirst, Zenon
<1>4. Tlv(t, v) = Cat(h, v)
  BY <1>1, TlvIs, Zenon
<1>5. PICK b \in String : b = Tlv(t, v) /\ Len(b) = Len(h) + Len(v)
  BY <1>3, <1>4, Zenon
<1>6. Len(b) \in Nat /\ Len(b) >= 2 + Len(v)
  <2>1. Len(h) + Len(v) \in Nat /\ Len(h) + Len(v) >= 2 + Len(v)
    BY <1>2, <1>3, AtLeastTwo, Zenon
  <2> QED
    BY <1>5, <2>1, Zenon
<1> QED
  BY <1>5, <1>6, Zenon

\* The TLV at the head of a string, and what is behind it.
LEMMA TlvRead ==
  ASSUME NEW t \in Octet, NEW v \in String, Size(Len(v)), NEW rest \in String
  PROVE  LET b == Cat(Tlv(t, v), rest)
         IN /\ b \in String /\ Whole(b) /\ b[1] = t
            /\ Slice(b, Begins(b), End(b)) = v /\ Rest(b, End(b)) = rest
<1> DEFINE b == Cat(Tlv(t, v), rest)
<1>0. b = Cat(Tlv(t, v), rest)
  BY Zenon
<1> HIDE DEF b
<1>1. PICK h : h = Header(t, Len(v))
  BY Zenon
<1>2. h \in String /\ Len(h) \in Nat /\ Len(h) >= 2
  BY <1>1, HeaderBegins, Zenon
<1>3. PICK x : x = Cat(v, rest)
  BY Zenon
<1>4. x \in String /\ Len(v) \in Nat /\ Len(rest) \in Nat /\ Len(x) = Len(v) + Len(rest)
  BY <1>3, CatFirst, Zenon
<1>5. b = Cat(Cat(h, v), rest)
  BY <1>0, <1>1, TlvIs, Zenon
<1>6. b = Cat(h, x)
  BY <1>2, <1>3, <1>5, CatAssoc, Zenon
<1>7. /\ b \in String /\ Len(b) = Len(h) + Len(x) /\ b[1] = t
      /\ Begins(b) = Len(h) /\ Length(b) = Len(v)
  <2>1. LET c == Cat(h, x)
        IN /\ c \in String /\ Len(c) = Len(h) + Len(x) /\ c[1] = t
           /\ Begins(c) = Len(h) /\ Length(c) = Len(v)
    BY <1>1, <1>4, HeaderLength, Zenon
  <2> QED
    BY <1>6, <2>1, Zenon
<1>8. End(b) = Len(h) + Len(v)
  BY <1>7, Zenon DEF End
<1>9. Whole(b)
  <2>1. Len(b) >= 2 /\ Len(b) >= Len(h) /\ Len(b) >= Len(h) + Len(v)
    BY <1>2, <1>4, <1>7
  <2> QED
    BY <1>7, <2>1, Zenon DEF Whole
<1>10. Slice(b, Begins(b), End(b)) = v
  <2>1. Slice(Cat(h, Cat(v, rest)), Len(h), Len(h) + Len(v)) = v
    BY <1>2, SliceOfCat, Zenon
  <2> QED
    BY <1>3, <1>6, <1>7, <1>8, <2>1, Zenon
<1>11. Rest(b, End(b)) = rest
  <2>1. PICK a : a = Cat(h, v)
    BY Zenon
  <2>2. a \in String /\ Len(a) = Len(h) + Len(v)
    BY <1>2, <2>1, CatFirst, Zenon
  <2>3. Rest(Cat(a, rest), Len(a)) = rest
    BY <2>2, RestOfCat, Zenon
  <2> QED
    BY <1>5, <1>8, <2>1, <2>2, <2>3, Zenon
<1> QED
  BY <1>7, <1>9, <1>10, <1>11, Zenon DEF b

\* No part of a TLV that lacks its end is whole.
LEMMA TlvCut ==
  ASSUME NEW t \in Octet, NEW v \in String, Size(Len(v)),
         NEW n \in Nat, n < Len(Tlv(t, v)), NEW b, b = Slice(Tlv(t, v), 0, n)
  PROVE  b \in String /\ ~Whole(b)
<1>1. PICK h : h = Header(t, Len(v))
  BY Zenon
<1>2. h \in String /\ Len(h) \in Nat /\ Len(h) >= 2
  BY <1>1, HeaderBegins, Zenon
<1>3. PICK a : a = Tlv(t, v)
  BY Zenon
<1>4. a = Cat(h, v)
  BY <1>1, <1>3, TlvIs, Zenon
<1>5. /\ a \in String /\ Len(v) \in Nat /\ Len(a) = Len(h) + Len(v)
      /\ Len(h) >= 2 => a[2] = h[2]
  BY <1>2, <1>4, CatFirst, Zenon
<1>6. n < Len(a) /\ b = Slice(a, 0, n)
  BY <1>3, Zenon
<1>7. 0 \in Nat /\ 0 <= n /\ n <= Len(a) /\ n - 0 = n
  BY <1>5, <1>6
<1>8. b \in String /\ Len(b) = n /\ \A i \in 1 .. Len(b) : b[i] = a[0 + i]
  <2>1. /\ Slice(a, 0, n) \in String /\ Len(Slice(a, 0, n)) = n - 0
        /\ \A i \in 1 .. Len(Slice(a, 0, n)) : Slice(a, 0, n)[i] = a[0 + i]
    BY <1>5, <1>7, SliceProps, Zenon
  <2> QED
    BY <1>6, <1>7, <2>1, Zenon
<1>9. CASE n < 2
  BY <1>8, <1>9 DEF Whole
<1>10. CASE n >= 2 /\ n < Len(h)
  <2>1. 2 \in 1 .. Len(b) /\ 0 + 2 = 2
    BY <1>8, <1>10
  <2>2. b[2] = h[2]
    BY <1>2, <1>5, <1>8, <2>1, Zenon
  <2>3. Begins(b) = Len(h)
    BY <1>1, <2>2, HeaderBegins, SMT
  <2>4. ~(Len(b) >= Begins(b))
    BY <1>2, <1>8, <1>10, <2>3
  <2> QED
    BY <1>8, <2>4, Zenon DEF Whole
<1>11. CASE n >= Len(h)
  <2>1. PICK k \in Nat : k = n - Len(h)
    BY <1>2, <1>11
  <2>2. k < Len(v) /\ k <= Len(v) /\ n = Len(h) + k
    BY <1>2, <1>5, <1>6, <2>1
  <2>3. PICK x : x = Slice(v, 0, k)
    BY Zenon
  <2>4. x \in String
    <3>1. 0 \in Nat
      OBVIOUS
    <3> QED
      BY <2>3, <3>1, SliceProps, Zenon
  <2>5. b = Cat(h, x)
    <3>1. Slice(Cat(h, v), 0, Len(h) + k) = Cat(h, Slice(v, 0, k))
      BY <1>2, <2>2, HeadBeyond, Zenon
    <3> QED
      BY <1>4, <1>6, <2>2, <2>3, <3>1, Zenon
  <2>6. Begins(b) = Len(h) /\ Length(b) = Len(v)
    <3>1. Begins(Cat(h, x)) = Len(h) /\ Length(Cat(h, x)) = Len(v)
      BY <1>1, <2>4, HeaderLength, Zenon
    <3> QED
      BY <2>5, <3>1, Zenon
  <2>7. ~(Len(b) >= Len(h) + Len(v))
    BY <1>2, <1>5, <1>6, <1>8
  <2> QED
    BY <1>8, <2>6, <2>7, Zenon DEF Whole
<1> QED
  BY <1>2, <1>8, <1>9, <1>10, <1>11

-----------------------------------------------------------------------------
(* The TLVs of a string.                                                   *)

Element == [tag : Octet, value : String]

\* A whole TLV has a tag, a value and a rest that is shorter.
LEMMA WholeParts ==
  ASSUME NEW b \in String, Whole(b)
  PROVE  /\ b[1] \in Octet /\ Slice(b, Begins(b), End(b)) \in String
         /\ Rest(b, End(b)) \in String /\ Len(Rest(b, End(b))) < Len(b)
<1>1. Len(b) >= 2 /\ Len(b) >= Begins(b) + Length(b)
  BY Zenon DEF Whole
<1>2. Len(b) \in Nat /\ \A i \in 1 .. Len(b) : b[i] \in Octet
  BY SMT DEF String
<1>3. b[1] \in Octet /\ b[2] \in Octet
  <2>1. 1 \in 1 .. Len(b) /\ 2 \in 1 .. Len(b)
    BY <1>1, <1>2
  <2> QED
    BY <1>2, <2>1, Zenon
<1>4. PICK k \in Nat : k = b[2]
  BY <1>3, OctetIs, SMT
<1>5. Begins(b) \in Nat /\ Begins(b) >= 2
  BY <1>4, SMT DEF Begins
<1>6. Length(b) \in Nat
  <2>1. 2 \in Nat
    OBVIOUS
  <2>2. Slice(b, 2, Begins(b)) \in String
    BY <1>5, <2>1, SliceProps, Zenon
  <2>3. Number[Slice(b, 2, Begins(b))] \in Nat
    BY <2>2, NumberUnfolds, SMT
  <2> QED
    BY <1>4, <2>3, SMT DEF Length
<1>7. PICK p, q, n \in Nat : p = Begins(b) /\ q = Length(b) /\ n = Len(b)
  BY <1>2, <1>5, <1>6, Zenon
<1>8. p + q \in Nat /\ p + q <= n /\ p + q >= 2 /\ n - (p + q) < n
  BY <1>1, <1>5, <1>7
<1>9. PICK e \in Nat : e = End(b) /\ e <= n /\ n - e < n
  BY <1>7, <1>8, Zenon DEF End
<1>10. Slice(b, Begins(b), End(b)) \in String
  BY <1>5, <1>9, SliceProps, Zenon
<1>11. Slice(b, e, n) \in String /\ Len(Slice(b, e, n)) = n - e
  <2>1. n <= n
    OBVIOUS
  <2> QED
    BY <1>7, <1>9, <2>1, SliceProps, Zenon
<1>12. Rest(b, End(b)) = Slice(b, e, n)
  BY <1>7, <1>9, Zenon DEF Rest
<1> QED
  BY <1>3, <1>7, <1>9, <1>10, <1>11, <1>12, Zenon

TailOf(b) == IF Whole(b) THEN Rest(b, End(b)) ELSE b
Split(f, b) ==
  IF ~Whole(b) THEN <<>>
  ELSE <<[tag |-> b[1], value |-> Slice(b, Begins(b), End(b))]>> \o f[Rest(b, End(b))]

LEMMA TailShrinks ==
  Shrinks(String, [b \in String |-> Len(b)], {b \in String : ~Whole(b)},
          [b \in String |-> TailOf(b)])
<1>1. ASSUME NEW b \in String
      PROVE  Len(b) \in Nat /\ TailOf(b) \in String /\ (Whole(b) => Len(TailOf(b)) < Len(b))
  <2>1. Len(b) \in Nat
    BY SMT DEF String
  <2> QED
    BY <2>1, WholeParts, Zenon DEF TailOf
<1> HIDE DEF TailOf, Whole
<1> QED
  BY <1>1, SMT DEF Shrinks

LEMMA ElementsUnfold ==
  ASSUME NEW b \in String
  PROVE  Elements[b] = Split(Elements, b)
<1> DEFINE R == Seq(Element)
           first(c) == [tag |-> c[1], value |-> Slice(c, Begins(c), End(c))]
           extent == [c \in String |-> Len(c)]
           stop == {c \in String : ~Whole(c)}
           next == [c \in String |-> TailOf(c)]
           base == [c \in String |-> <<>>]
           join == [p \in String \X R |-> IF ~Whole(p[1]) THEN <<>> ELSE <<first(p[1])>> \o p[2]]
<1>1. Shrinks(String, extent, stop, next)
  BY TailShrinks
<1>2. base \in [String -> R]
  OBVIOUS
<1>3. join \in [String \X R -> R]
  <2>1. ASSUME NEW c \in String, NEW r \in R, Whole(c)
        PROVE  <<first(c)>> \o r \in R
    <3>1. first(c) \in Element
      BY <2>1, WholeParts, SMT DEF Element
    <3> HIDE DEF first
    <3>2. <<first(c)>> \in Seq(Element)
      BY <3>1
    <3> QED
      BY <3>2, ConcatProperties
  <2>2. <<>> \in R
    OBVIOUS
  <2> HIDE DEF R, first
  <2> QED
    BY <2>1, <2>2
<1>4. PICK f \in [String -> R] : \A c \in String : Unfolds(f, c, stop, base, next, join)
  <2> HIDE DEF extent, stop, base, next, join, R
  <2> QED
    BY <1>1, <1>2, <1>3, RecursionExists
<1>5. ASSUME NEW c \in String PROVE f[c] = Split(f, c)
  <2>1. CASE ~Whole(c)
    <3>1. c \in stop /\ base[c] = <<>>
      BY <2>1, Zenon
    <3>2. f[c] = base[c]
      BY <1>4, <3>1, Zenon DEF Unfolds
    <3> QED
      BY <2>1, <3>1, <3>2, Zenon DEF Split
  <2>2. CASE Whole(c)
    <3>1. c \notin stop /\ next[c] = Rest(c, End(c)) /\ Rest(c, End(c)) \in String
      BY <2>2, WholeParts, Zenon DEF TailOf
    <3>2. f[c] = join[<<c, f[Rest(c, End(c))]>>]
      <4>1. Unfolds(f, c, stop, base, next, join)
        BY <1>4, Zenon
      <4> HIDE DEF base, join, next, stop
      <4> QED
        BY <3>1, <4>1, Zenon DEF Unfolds
    <3>3. <<c, f[Rest(c, End(c))]>> \in String \X R
      <4> HIDE DEF R
      <4> QED
        BY <1>4, <3>1
    <3>4. f[c] = <<first(c)>> \o f[Rest(c, End(c))]
      <4> HIDE DEF R, first, Whole
      <4>1. PICK r \in R : r = f[Rest(c, End(c))]
        BY <1>4, <3>1
      <4>2. join[<<c, r>>] = <<first(c)>> \o r
        <5>1. <<c, r>> \in String \X R /\ <<c, r>>[1] = c /\ <<c, r>>[2] = r
          OBVIOUS
        <5> QED
          BY <2>2, <5>1, Zenon
      <4> QED
        BY <3>2, <4>1, <4>2, Zenon
    <3> QED
      BY <2>2, <3>4, Zenon DEF Split
  <2> QED
    BY <2>1, <2>2
<1>6. f = [c \in Seq(Octet) |-> Split(f, c)]
  <2>1. f = [c \in String |-> Split(f, c)]
    <3> HIDE DEF R
    <3> QED
      BY <1>4, <1>5
  <2> QED
    BY <2>1, Zenon DEF String
<1>7. Elements = [c \in Seq(Octet) |-> Split(Elements, c)]
  BY <1>6, Zenon DEF Elements, Split
<1> QED
  BY <1>7, Zenon DEF String

LEMMA LeftUnfolds ==
  ASSUME NEW b \in String
  PROVE  Left[b] = IF Whole(b) THEN Left[Rest(b, End(b))] ELSE b
<1> DEFINE extent == [c \in String |-> Len(c)]
           stop == {c \in String : ~Whole(c)}
           next == [c \in String |-> TailOf(c)]
           base == [c \in String |-> c]
           join == [p \in String \X String |-> p[2]]
           body(f, c) == IF Whole(c) THEN f[Rest(c, End(c))] ELSE c
<1>1. Shrinks(String, extent, stop, next)
  BY TailShrinks
<1>2. base \in [String -> String] /\ join \in [String \X String -> String]
  OBVIOUS
<1>3. PICK f \in [String -> String] : \A c \in String : Unfolds(f, c, stop, base, next, join)
  <2> HIDE DEF extent, stop, base, next, join
  <2> QED
    BY <1>1, <1>2, RecursionExists
<1>4. ASSUME NEW c \in String PROVE f[c] = body(f, c)
  <2>1. CASE ~Whole(c)
    <3>1. c \in stop /\ base[c] = c
      BY <2>1, Zenon
    <3>2. f[c] = base[c]
      BY <1>3, <3>1, Zenon DEF Unfolds
    <3> QED
      BY <2>1, <3>1, <3>2, Zenon
  <2>2. CASE Whole(c)
    <3>1. c \notin stop /\ next[c] = Rest(c, End(c)) /\ Rest(c, End(c)) \in String
      BY <2>2, WholeParts, Zenon DEF TailOf
    <3>2. f[c] = join[<<c, f[Rest(c, End(c))]>>]
      <4>1. Unfolds(f, c, stop, base, next, join)
        BY <1>3, Zenon
      <4> HIDE DEF base, join, next, stop
      <4> QED
        BY <3>1, <4>1, Zenon DEF Unfolds
    <3>3. <<c, f[Rest(c, End(c))]>> \in String \X String
      BY <1>3, <3>1
    <3>4. f[c] = f[Rest(c, End(c))]
      BY <3>2, <3>3
    <3> QED
      BY <2>2, <3>4, Zenon
  <2> QED
    BY <2>1, <2>2
<1>5. f = [c \in Seq(Octet) |-> body(f, c)]
  <2>1. f = [c \in String |-> body(f, c)]
    <3> HIDE DEF body
    <3> QED
      BY <1>3, <1>4
  <2> QED
    BY <2>1, Zenon DEF String
<1>6. Left = [c \in Seq(Octet) |-> body(Left, c)]
  BY <1>5, Zenon DEF Left
<1> QED
  BY <1>6, Zenon DEF String

\* A TLV in front of a string is its first element,
LEMMA ElementsOfTlv ==
  ASSUME NEW t \in Octet, NEW v \in String, Size(Len(v)), NEW rest \in String
  PROVE  /\ Cat(Tlv(t, v), rest) \in String
         /\ Elements[Cat(Tlv(t, v), rest)] = <<[tag |-> t, value |-> v]>> \o Elements[rest]
         /\ Left[Cat(Tlv(t, v), rest)] = Left[rest]
<1>1. PICK b : b = Cat(Tlv(t, v), rest)
  BY Zenon
<1>2. /\ b \in String /\ Whole(b) /\ b[1] = t
      /\ Slice(b, Begins(b), End(b)) = v /\ Rest(b, End(b)) = rest
  BY <1>1, TlvRead, Zenon
<1>3. Elements[b] = <<[tag |-> b[1], value |-> Slice(b, Begins(b), End(b))]>>
                    \o Elements[Rest(b, End(b))]
  BY <1>2, ElementsUnfold, Zenon DEF Split
<1>4. Left[b] = Left[Rest(b, End(b))]
  BY <1>2, LeftUnfolds, Zenon
<1> QED
  BY <1>1, <1>2, <1>3, <1>4, Zenon

\* and there is none where no TLV is whole.
LEMMA ElementsOfNone ==
  /\ Elements[<<>>] = <<>> /\ Left[<<>>] = <<>>
  /\ \A b \in String : ~Whole(b) => Elements[b] = <<>>
<1>1. \A b \in String : ~Whole(b) => Elements[b] = <<>>
  BY ElementsUnfold, Zenon DEF Split
<1>2. <<>> \in String /\ ~Whole(<<>>)
  <2>1. Len(<<>>) = 0 /\ ~(0 >= 2)
    OBVIOUS
  <2> QED
    BY <2>1, CatEmpty, Zenon DEF Whole
<1> QED
  BY <1>1, <1>2, LeftUnfolds, Zenon

ShortElement == {e \in Element : Size(Len(e.value))}
TlvOf == [e \in ShortElement |-> Tlv(e.tag, e.value)]

LEMMA TlvOfIs ==
  /\ TlvOf \in [ShortElement -> String]
  /\ \A e \in ShortElement :
       /\ e.tag \in Octet /\ e.value \in String /\ Size(Len(e.value))
       /\ e = [tag |-> e.tag, value |-> e.value] /\ TlvOf[e] = Tlv(e.tag, e.value)
<1>1. \A e \in ShortElement :
        /\ e.tag \in Octet /\ e.value \in String /\ Size(Len(e.value))
        /\ e = [tag |-> e.tag, value |-> e.value]
  BY DEF ShortElement, Element
<1>2. \A e \in ShortElement : Tlv(e.tag, e.value) \in String
  BY <1>1, TlvString, Zenon
<1> QED
  BY <1>1, <1>2, Zenon DEF TlvOf

\* TLVs one behind the other are read as what they are, with nothing left.
LEMMA ElementsOfTlvs ==
  ASSUME NEW es \in Seq(ShortElement)
  PROVE  /\ Written(TlvOf, es) \in String
         /\ Elements[Written(TlvOf, es)] = es /\ Left[Written(TlvOf, es)] = <<>>
<1> DEFINE P == {x \in Seq(ShortElement) :
                   /\ Written(TlvOf, x) \in String
                   /\ Elements[Written(TlvOf, x)] = x /\ Left[Written(TlvOf, x)] = <<>>}
<1>1. <<>> \in P
  <2>1. Written(TlvOf, <<>>) = <<>>
    BY TlvOfIs, WrittenUnfolds, Zenon
  <2>2. <<>> \in Seq(ShortElement)
    OBVIOUS
  <2> QED
    BY <2>1, <2>2, ElementsOfNone, CatEmpty, Zenon
<1>2. ASSUME NEW x \in Seq(ShortElement), x # <<>>, Tail(x) \in Seq(ShortElement), Tail(x) \in P
      PROVE  x \in P
  <2>1. /\ x[1] \in ShortElement /\ x = <<x[1]>> \o Tail(x)
        /\ Written(TlvOf, x) = Cat(TlvOf[x[1]], Written(TlvOf, Tail(x)))
    BY <1>2, TlvOfIs, WrittenUnfolds, Zenon
  <2>2. PICK e \in ShortElement : e = x[1]
    BY <2>1, Zenon
  <2>3. /\ e.tag \in Octet /\ e.value \in String /\ Size(Len(e.value))
        /\ e = [tag |-> e.tag, value |-> e.value] /\ TlvOf[e] = Tlv(e.tag, e.value)
    BY TlvOfIs, Zenon
  <2>4. PICK t, v : t = e.tag /\ v = e.value
    BY Zenon
  <2>5. PICK rest \in String :
          /\ rest = Written(TlvOf, Tail(x))
          /\ Elements[rest] = Tail(x) /\ Left[rest] = <<>>
    BY <1>2, Zenon
  <2>6. Written(TlvOf, x) = Cat(Tlv(t, v), rest)
    BY <2>1, <2>2, <2>3, <2>4, <2>5, Zenon
  <2>7. /\ Cat(Tlv(t, v), rest) \in String
        /\ Elements[Cat(Tlv(t, v), rest)] = <<[tag |-> t, value |-> v]>> \o Elements[rest]
        /\ Left[Cat(Tlv(t, v), rest)] = Left[rest]
    BY <2>3, <2>4, ElementsOfTlv, Zenon
  <2>8. Elements[Cat(Tlv(t, v), rest)] = x
    BY <2>1, <2>2, <2>3, <2>4, <2>5, <2>7, Zenon
  <2> QED
    BY <2>5, <2>6, <2>7, <2>8, Zenon
<1>3. Seq(ShortElement) \subseteq P
  <2> HIDE DEF P
  <2> QED
    BY <1>1, <1>2, SeqInd
<1> QED
  BY <1>3

-----------------------------------------------------------------------------
(* Integers.                                                               *)

IntOctets(n) == InOctets(n, SignedWidth(n))

LEMMA IntRead ==
  ASSUME NEW n \in Int32
  PROVE  IntOctets(n) \in String /\ Size(Len(IntOctets(n))) /\ Signed[IntOctets(n)] = n
<1>1. n \in Int /\ Magnitude(n) <= 2147483647
  BY SMT DEF Int32
<1>2. ASSUME NEW w \in 1 .. 4, SignedWidth(n) = w, Signed[InOctets(n, w)] = n
      PROVE  IntOctets(n) \in String /\ Size(Len(IntOctets(n))) /\ Signed[IntOctets(n)] = n
  <2>1. n \in Int
    BY <1>1, SMT
  <2>2. PICK b \in String : b = InOctets(n, w) /\ Len(b) = w
    BY <2>1, InOctetsString, Zenon
  <2>3. Size(w)
    BY SMT DEF Size
  <2>4. IntOctets(n) = b
    BY <1>2, <2>2, SMT DEF IntOctets
  <2> QED
    BY <1>2, <2>2, <2>3, <2>4, SMT
<1>3. CASE SignedWidth(n) = 1
  <2>1. -128 <= n /\ n <= 127
    BY <1>1, <1>3, SMT DEF SignedWidth, Magnitude
  <2>2. Signed[InOctets(n, 1)] = n
    BY <1>1, <2>1, SignedRead1, SMT
  <2> QED
    BY <1>2, <1>3, <2>2, SMT
<1>4. CASE SignedWidth(n) = 2
  <2>1. -32768 <= n /\ n <= 32767
    BY <1>1, <1>4, SMT DEF SignedWidth, Magnitude
  <2>2. Signed[InOctets(n, 2)] = n
    BY <1>1, <2>1, SignedRead2, SMT
  <2> QED
    BY <1>2, <1>4, <2>2, SMT
<1>5. CASE SignedWidth(n) = 3
  <2>1. -8388608 <= n /\ n <= 8388607
    BY <1>1, <1>5, SMT DEF SignedWidth, Magnitude
  <2>2. Signed[InOctets(n, 3)] = n
    BY <1>1, <2>1, SignedRead3, SMT
  <2> QED
    BY <1>2, <1>5, <2>2, SMT
<1>6. CASE SignedWidth(n) = 4
  <2>1. -2147483648 <= n /\ n <= 2147483647
    BY <1>1, SMT DEF Magnitude
  <2>2. Signed[InOctets(n, 4)] = n
    BY <1>1, <2>1, SignedRead4, SMT
  <2> QED
    BY <1>2, <1>6, <2>2, SMT
<1>7. SignedWidth(n) = 1 \/ SignedWidth(n) = 2 \/ SignedWidth(n) = 3 \/ SignedWidth(n) = 4
  BY SMT DEF SignedWidth
<1> QED
  BY <1>3, <1>4, <1>5, <1>6, <1>7, SMT

-----------------------------------------------------------------------------
(* Arcs.                                                                   *)

\* The last seven bits, and whether they are the last of their arc.
High(n) == 128 + (n % 128)

LEMMA SevenBits ==
  ASSUME NEW n \in Nat
  PROVE  /\ n \div 128 \in Nat /\ n % 128 \in Nat
         /\ \A q, r \in Int : q = n \div 128 /\ r = n % 128 => 128 * q + r = n
         /\ n >= 128 => n \div 128 < n
         /\ n < 128 => n % 128 = n
         /\ n % 128 \in Octet /\ n % 128 < 128 /\ (n % 128) % 128 = n % 128
         /\ High(n) \in Octet /\ ~(High(n) < 128) /\ High(n) % 128 = n % 128
<1>1. /\ n \div 128 \in Nat /\ n % 128 \in Nat
      /\ \A q, r \in Int : q = n \div 128 /\ r = n % 128 => 128 * q + r = n
      /\ n >= 128 => n \div 128 < n
      /\ n < 128 => n % 128 = n
      /\ n % 128 < 128 /\ (n % 128) % 128 = n % 128
  <2>1. n \div 128 \in Nat /\ n % 128 \in Nat /\ n % 128 < 128
    BY SMT
  <2>2. \A q, r \in Int : q = n \div 128 /\ r = n % 128 => 128 * q + r = n
    BY SMT
  <2>3. n < 128 \/ n \div 128 < n
    BY SMT
  <2>4. n < 128 => n % 128 = n
    BY SMT
  <2>5. (n % 128) % 128 = n % 128
    BY SMT
  <2>6. n >= 128 => ~(n < 128)
    BY SMT
  <2> QED
    BY <2>1, <2>2, <2>3, <2>4, <2>5, <2>6, Zenon
<1>2. PICK r \in Nat : r = n % 128 /\ r < 128
  BY <1>1, SMT
<1>3. 128 + r \in Octet /\ r \in Octet
  BY <1>2, OctetIs, SMT
<1>4. ~(128 + r < 128) /\ (128 + r) % 128 = r
  BY <1>2, SMT
<1> QED
  BY <1>1, <1>2, <1>3, <1>4, SMT DEF High

LEMMA MarkedUnfolds ==
  ASSUME NEW n \in Nat
  PROVE  Marked[n] = (IF n < 128 THEN <<>> ELSE Marked[n \div 128]) \o <<128 + (n % 128)>>
<1> DEFINE extent == [m \in Nat |-> m]
           stop == {m \in Nat : m < 128}
           next == [m \in Nat |-> m \div 128]
           base == [m \in Nat |-> Cat(<<>>, One(High(m)))]
           join == [p \in Nat \X String |-> Cat(p[2], One(High(p[1])))]
           body(f, m) == (IF m < 128 THEN <<>> ELSE f[m \div 128]) \o <<128 + (m % 128)>>
<1>1. Shrinks(Nat, extent, stop, next)
  <2>1. \A m \in Nat : m \div 128 \in Nat /\ (m < 128 \/ m \div 128 < m)
    BY SMT
  <2> QED
    BY <2>1, SMT DEF Shrinks
<1>2. base \in [Nat -> String]
  <2>1. ASSUME NEW m \in Nat PROVE Cat(<<>>, One(High(m))) \in String
    BY SevenBits, OneProps, CatProps, CatEmpty, Zenon
  <2> QED
    BY <2>1, Zenon
<1>3. join \in [Nat \X String -> String]
  <2>1. ASSUME NEW m \in Nat, NEW b \in String PROVE Cat(b, One(High(m))) \in String
    BY SevenBits, OneProps, CatProps, Zenon
  <2>2. ASSUME NEW p \in Nat \X String PROVE Cat(p[2], One(High(p[1]))) \in String
    BY <2>1
  <2> QED
    BY <2>2, Zenon
<1>4. PICK f \in [Nat -> String] : \A m \in Nat : Unfolds(f, m, stop, base, next, join)
  <2> HIDE DEF extent, stop, base, next, join
  <2> QED
    BY <1>1, <1>2, <1>3, RecursionExists
<1>5. ASSUME NEW m \in Nat PROVE f[m] = body(f, m)
  <2>1. CASE m < 128
    <3>1. m \in stop /\ base[m] = Cat(<<>>, One(High(m)))
      BY <2>1, Zenon
    <3>2. f[m] = base[m]
      <4> HIDE DEF stop, base, next, join
      <4> QED
        BY <1>4, <3>1, Zenon DEF Unfolds
    <3> QED
      BY <2>1, <3>1, <3>2, Zenon DEF Cat, One, High
  <2>2. CASE ~(m < 128)
    <3>1. m \notin stop /\ next[m] = m \div 128 /\ m \div 128 \in Nat
      BY <2>2, SevenBits, Zenon
    <3>2. f[m] = join[<<m, f[m \div 128]>>]
      <4>1. Unfolds(f, m, stop, base, next, join)
        BY <1>4, Zenon
      <4> HIDE DEF base, join, next, stop
      <4> QED
        BY <3>1, <4>1, Zenon DEF Unfolds
    <3>3. PICK r \in String : r = f[m \div 128]
      BY <1>4, <3>1, Zenon
    <3>4. join[<<m, r>>] = Cat(r, One(High(m)))
      <4>1. <<m, r>> \in Nat \X String /\ <<m, r>>[1] = m /\ <<m, r>>[2] = r
        OBVIOUS
      <4> QED
        BY <4>1, Zenon
    <3> QED
      BY <2>2, <3>2, <3>3, <3>4, Zenon DEF Cat, One, High
  <2> QED
    BY <2>1, <2>2
<1>6. f = [m \in Nat |-> body(f, m)]
  <2> HIDE DEF body
  <2> QED
    BY <1>4, <1>5
<1>7. Marked = [m \in Nat |-> body(Marked, m)]
  BY <1>6, Zenon DEF Marked
<1> HIDE DEF body
<1>8. Marked[n] = body(Marked, n)
  BY <1>7, Zenon
<1> QED
  BY <1>8 DEF body

LEMMA MarkedIs ==
  /\ \A n \in Nat : Marked[n] \in String
  /\ \A n \in Nat : Marked[n] = IF n < 128 THEN One(High(n)) ELSE Cat(Marked[n \div 128], One(High(n)))
<1>1. ASSUME NEW n \in Nat, n < 128 PROVE Marked[n] = One(High(n)) /\ Marked[n] \in String
  <2>1. Marked[n] = Cat(<<>>, One(High(n)))
    BY <1>1, MarkedUnfolds, Zenon DEF Cat, One, High
  <2>2. One(High(n)) \in String
    BY SevenBits, OneProps, Zenon
  <2> QED
    BY <2>1, <2>2, CatEmpty, Zenon
<1>2. ASSUME NEW n \in Nat, ~(n < 128)
      PROVE  /\ Marked[n] = Cat(Marked[n \div 128], One(High(n)))
             /\ Marked[n \div 128] \in String => Marked[n] \in String
  <2>1. Marked[n] = Cat(Marked[n \div 128], One(High(n)))
    BY <1>2, MarkedUnfolds, Zenon DEF Cat, One, High
  <2>2. One(High(n)) \in String
    BY SevenBits, OneProps, Zenon
  <2>3. ASSUME Marked[n \div 128] \in String PROVE Marked[n] \in String
    <3>1. PICK a, b \in String : a = Marked[n \div 128] /\ b = One(High(n))
      BY <2>2, <2>3, Zenon
    <3>2. Cat(a, b) \in String
      BY CatProps, Zenon
    <3> QED
      BY <2>1, <3>1, <3>2, Zenon
  <2> QED
    BY <2>1, <2>3, Zenon
<1> DEFINE P == {n \in Nat : Marked[n] \in String}
           extent == [m \in Nat |-> m]
           stop == {m \in Nat : m < 128}
           next == [m \in Nat |-> m \div 128]
<1>3. Shrinks(Nat, extent, stop, next)
  <2>1. \A m \in Nat : m \div 128 \in Nat /\ (m < 128 \/ m \div 128 < m)
    BY SMT
  <2> QED
    BY <2>1, SMT DEF Shrinks
<1>4. /\ \A n \in Nat : n \in stop => n \in P
      /\ \A n \in Nat : n \notin stop /\ next[n] \in Nat /\ next[n] \in P => n \in P
  <2>1. \A n \in Nat : n \in stop => n \in P
    BY <1>1, Zenon
  <2>2. ASSUME NEW n \in Nat, n \notin stop, next[n] \in P PROVE n \in P
    <3>1. next[n] = n \div 128 /\ ~(n < 128)
      BY <2>2, Zenon
    <3> QED
      BY <1>2, <2>2, <3>1, Zenon
  <2> HIDE DEF P, stop, next
  <2> QED
    BY <2>1, <2>2, Zenon
<1>5. Nat \subseteq P
  <2> HIDE DEF P, extent, stop, next
  <2> QED
    BY <1>3, <1>4, SizeInduction
<1> QED
  BY <1>1, <1>2, <1>5, Zenon

\* What the arcs of b are when those before it left k.
ArcsOf(b, k) == Arcs[<<b, k>>]
Follow(f, b, k) ==
  IF b = <<>> THEN <<>>
  ELSE IF b[1] < 128 THEN <<128 * k + (b[1] % 128)>> \o f[<<Tail(b), 0>>]
  ELSE f[<<Tail(b), 128 * k + (b[1] % 128)>>]

FollowsArcs(g) ==
  g = [p \in Seq(Octet) \X Nat |->
         LET b == p[1]
             n == 128 * p[2] + (b[1] % 128)
         IN IF b = <<>> THEN <<>>
            ELSE IF b[1] < 128 THEN <<n>> \o g[<<Tail(b), 0>>]
            ELSE g[<<Tail(b), n>>]]

LEMMA TailProps ==
  ASSUME NEW b \in String, b # <<>>
  PROVE  /\ Tail(b) \in String /\ Len(Tail(b)) < Len(b) /\ Len(b) \in Nat /\ b[1] \in Octet
         /\ \A k \in Nat : 128 * k + (b[1] % 128) \in Nat
<1> DEFINE S == Octet
<1>1. b \in Seq(S)
  BY Zenon DEF String
<1> HIDE DEF S
<1>2. Tail(b) \in Seq(S) /\ Len(Tail(b)) = Len(b) - 1 /\ Len(b) \in Nat /\ b[1] \in S
  BY <1>1
<1>3. PICK o \in Nat : o = b[1]
  <2>1. b[1] \in Octet
    BY <1>2 DEF S
  <2> QED
    BY <2>1, OctetIs, SMT
<1>4. \A k \in Nat : 128 * k + (o % 128) \in Nat
  BY SMT
<1>5. Len(Tail(b)) < Len(b)
  BY <1>2
<1> QED
  BY <1>2, <1>3, <1>4, <1>5, Zenon DEF S, String

LEMMA ArcsUnfold ==
  ASSUME NEW b \in String, NEW k \in Nat
  PROVE  ArcsOf(b, k) = Follow(Arcs, b, k)
<1> DEFINE D == String \X Nat
           R == Seq(Nat)
           acc(p) == 128 * p[2] + (p[1][1] % 128)
           extent == [p \in D |-> Len(p[1])]
           stop == {p \in D : p[1] = <<>>}
           step(p) == <<Tail(p[1]), IF p[1][1] < 128 THEN 0 ELSE acc(p)>>
           next == [p \in D |-> IF p[1] = <<>> THEN p ELSE step(p)]
           base == [p \in D |-> <<>>]
           put(p, r) == IF p[1] # <<>> /\ p[1][1] < 128 THEN <<acc(p)>> \o r ELSE r
           join == [q \in D \X R |-> put(q[1], q[2])]
<1>0. \A p \in D : p[1] \in String /\ p[2] \in Nat /\ p = <<p[1], p[2]>>
  OBVIOUS
<1>1. ASSUME NEW p \in D, p[1] # <<>>
      PROVE  step(p) \in D /\ Len(step(p)[1]) < Len(p[1]) /\ acc(p) \in Nat
  <2>1. PICK c \in String, m \in Nat : c = p[1] /\ m = p[2]
    BY <1>0, Zenon
  <2>2. Tail(c) \in String /\ Len(Tail(c)) < Len(c) /\ 128 * m + (c[1] % 128) \in Nat
    BY <1>1, <2>1, TailProps, Zenon
  <2>3. PICK u \in String, a \in Nat : u = Tail(c) /\ a = 128 * m + (c[1] % 128)
    BY <2>2, Zenon
  <2>4. step(p) = <<u, IF c[1] < 128 THEN 0 ELSE a>>
    BY <2>1, <2>3, Zenon
  <2>5. /\ <<u, IF c[1] < 128 THEN 0 ELSE a>> \in D
        /\ <<u, IF c[1] < 128 THEN 0 ELSE a>>[1] = u
    OBVIOUS
  <2> QED
    BY <2>1, <2>2, <2>3, <2>4, <2>5, Zenon
<1>2. Shrinks(D, extent, stop, next)
  <2>1. \A p \in D : Len(p[1]) \in Nat
    BY <1>0, CatProps, CatEmpty, Zenon
  <2> HIDE DEF D, step
  <2> QED
    BY <1>1, <2>1, SMT DEF Shrinks
<1>3. base \in [D -> R]
  <2>1. <<>> \in R
    OBVIOUS
  <2> QED
    BY <2>1, Zenon
<1>4. join \in [D \X R -> R]
  <2>1. ASSUME NEW p \in D, NEW r \in R PROVE put(p, r) \in R
    <3>1. CASE p[1] # <<>> /\ p[1][1] < 128
      <4>1. PICK a \in Nat : a = acc(p)
        BY <1>1, <3>1, Zenon
      <4>2. <<a>> \o r \in R
        BY ConcatProperties
      <4> QED
        BY <3>1, <4>1, <4>2, Zenon
    <3>2. CASE ~(p[1] # <<>> /\ p[1][1] < 128)
      BY <3>2, Zenon
    <3> QED
      BY <3>1, <3>2, Zenon
  <2> HIDE DEF D, R, put
  <2>2. ASSUME NEW q \in D \X R PROVE put(q[1], q[2]) \in R
    <3>1. q[1] \in D /\ q[2] \in R
      OBVIOUS
    <3> QED
      BY <2>1, <3>1, Zenon
  <2> QED
    BY <2>2, Zenon
<1>5. PICK f \in [D -> R] : \A p \in D : Unfolds(f, p, stop, base, next, join)
  <2> HIDE DEF D, R, extent, stop, base, next, join
  <2> QED
    BY <1>2, <1>3, <1>4, RecursionExists
<1>6. ASSUME NEW p \in D PROVE f[p] = Follow(f, p[1], p[2])
  <2>1. CASE p[1] = <<>>
    <3>1. p \in stop /\ base[p] = <<>>
      BY <2>1, Zenon
    <3>2. f[p] = base[p]
      <4> HIDE DEF D, stop, base, next, join
      <4> QED
        BY <1>5, <3>1, Zenon DEF Unfolds
    <3> QED
      BY <2>1, <3>1, <3>2, Zenon DEF Follow
  <2>2. CASE p[1] # <<>>
    <3>1. p \notin stop /\ next[p] = step(p) /\ step(p) \in D
      <4>1. step(p) \in D
        BY <1>1, <2>2, Zenon
      <4> HIDE DEF D, step
      <4> QED
        BY <2>2, <4>1, Zenon
    <3>2. PICK r \in R : r = f[step(p)]
      <4> HIDE DEF D, R, step
      <4> QED
        BY <1>5, <3>1, Zenon
    <3>3. f[p] = join[<<p, r>>]
      <4> HIDE DEF D, R, stop, base, next, join, step
      <4> QED
        BY <1>5, <3>1, <3>2, Zenon DEF Unfolds
    <3>4. join[<<p, r>>] = put(p, r)
      <4> HIDE DEF D, R, put
      <4>1. <<p, r>> \in D \X R /\ <<p, r>>[1] = p /\ <<p, r>>[2] = r
        OBVIOUS
      <4> QED
        BY <4>1, Zenon
    <3>5. CASE p[1][1] < 128
      BY <2>2, <3>2, <3>3, <3>4, <3>5, Zenon DEF Follow
    <3>6. CASE ~(p[1][1] < 128)
      BY <2>2, <3>2, <3>3, <3>4, <3>6, Zenon DEF Follow
    <3> QED
      BY <3>5, <3>6, Zenon
  <2> QED
    BY <2>1, <2>2, Zenon
<1>7. FollowsArcs(f)
  <2>1. f = [p \in D |-> f[p]]
    <3> HIDE DEF D, R
    <3> QED
      BY <1>5, Zenon
  <2> QED
    BY <1>6, <2>1, Zenon DEF FollowsArcs, Follow, String
<1>8. FollowsArcs(Arcs)
  <2>1. Arcs = CHOOSE g : FollowsArcs(g)
    BY Zenon DEF Arcs, FollowsArcs
  <2> QED
    BY <1>7, <2>1, Zenon
<1>9. PICK p \in Seq(Octet) \X Nat : p = <<b, k>> /\ p[1] = b /\ p[2] = k
  <2>1. <<b, k>> \in String \X Nat /\ <<b, k>>[1] = b /\ <<b, k>>[2] = k
    OBVIOUS
  <2> QED
    BY <2>1, Zenon DEF String
<1>10. Arcs[p] = Follow(Arcs, p[1], p[2])
  BY <1>8, Zenon DEF FollowsArcs, Follow
<1> QED
  BY <1>9, <1>10, Zenon DEF ArcsOf

\* An arc with seven bits more.
Acc(k, n) == 128 * k + (n % 128)

LEMMA AccIs ==
  /\ \A k, n \in Nat : Acc(k, n) \in Nat
  /\ \A n \in Nat : n < 128 => Acc(0, n) = n
  /\ \A n \in Nat : Acc(n \div 128, n) = n
<1>1. \A k, n \in Nat : Acc(k, n) \in Nat
  BY SMT DEF Acc
<1>2. \A n \in Nat : n < 128 => Acc(0, n) = n
  BY SMT DEF Acc
<1>3. \A n \in Nat : Acc(n \div 128, n) = n
  BY SMT DEF Acc
<1> QED
  BY <1>1, <1>2, <1>3, Zenon

\* One octet more: it ends an arc, or is the next part of one.
LEMMA ArcsOfOne ==
  ASSUME NEW b \in String, NEW k \in Nat, NEW o \in Octet
  PROVE  /\ Cat(One(o), b) \in String
         /\ o < 128 => ArcsOf(Cat(One(o), b), k) = <<Acc(k, o)>> \o ArcsOf(b, 0)
         /\ ~(o < 128) => ArcsOf(Cat(One(o), b), k) = ArcsOf(b, Acc(k, o))
<1>1. PICK c : c = Cat(One(o), b)
  BY Zenon
<1>2. c \in String /\ c # <<>> /\ c[1] = o /\ Tail(c) = b
  BY <1>1, TailOfCat, Zenon
<1>3. ArcsOf(c, k) = Follow(Arcs, c, k)
  BY <1>2, ArcsUnfold, Zenon
<1>4. CASE o < 128
  BY <1>1, <1>2, <1>3, <1>4, Zenon DEF Follow, ArcsOf, Acc
<1>5. CASE ~(o < 128)
  BY <1>1, <1>2, <1>3, <1>5, Zenon DEF Follow, ArcsOf, Acc
<1> QED
  BY <1>1, <1>2, <1>4, <1>5, Zenon

LEMMA ArcGoesOn ==
  ASSUME NEW b \in String, NEW k \in Nat, NEW n \in Nat
  PROVE  /\ Cat(One(High(n)), b) \in String
         /\ ArcsOf(Cat(One(High(n)), b), k) = ArcsOf(b, Acc(k, n))
<1>1. PICK o \in Octet : o = High(n) /\ ~(o < 128) /\ o % 128 = n % 128
  BY SevenBits, Zenon
<1>2. Acc(k, o) = Acc(k, n)
  BY <1>1, Zenon DEF Acc
<1>3. Cat(One(o), b) \in String /\ ArcsOf(Cat(One(o), b), k) = ArcsOf(b, Acc(k, o))
  BY <1>1, ArcsOfOne, Zenon
<1> QED
  BY <1>1, <1>2, <1>3, Zenon

LEMMA ArcEnds ==
  ASSUME NEW b \in String, NEW k \in Nat, NEW n \in Nat
  PROVE  /\ Cat(One(n % 128), b) \in String
         /\ ArcsOf(Cat(One(n % 128), b), k) = <<Acc(k, n)>> \o ArcsOf(b, 0)
<1>1. PICK o \in Octet : o = n % 128 /\ o < 128 /\ o % 128 = n % 128
  BY SevenBits, Zenon
<1>2. Acc(k, o) = Acc(k, n)
  BY <1>1, Zenon DEF Acc
<1>3. Cat(One(o), b) \in String /\ ArcsOf(Cat(One(o), b), k) = <<Acc(k, o)>> \o ArcsOf(b, 0)
  BY <1>1, ArcsOfOne, Zenon
<1> QED
  BY <1>1, <1>2, <1>3, Zenon

LEMMA MarkedRead ==
  ASSUME NEW n \in Nat, NEW b \in String
  PROVE  Cat(Marked[n], b) \in String /\ ArcsOf(Cat(Marked[n], b), 0) = ArcsOf(b, n)
<1> DEFINE P == {m \in Nat : \A c \in String : ArcsOf(Cat(Marked[m], c), 0) = ArcsOf(c, m)}
           extent == [m \in Nat |-> m]
           stop == {m \in Nat : m < 128}
           next == [m \in Nat |-> m \div 128]
<1>1. Shrinks(Nat, extent, stop, next)
  <2>1. \A m \in Nat : m \div 128 \in Nat /\ (m < 128 \/ m \div 128 < m)
    BY SMT
  <2> QED
    BY <2>1, SMT DEF Shrinks
<1>2. ASSUME NEW m \in Nat, m \in stop PROVE m \in P
  <2>1. m < 128 /\ m % 128 = m
    BY <1>2, SevenBits, Zenon
  <2>2. 0 \in Nat /\ Acc(0, m) = m
    BY <1>2, <2>1, AccIs, Zenon
  <2>3. ASSUME NEW c \in String PROVE ArcsOf(Cat(Marked[m], c), 0) = ArcsOf(c, m)
    <3>1. Marked[m] = One(High(m))
      BY <2>1, MarkedIs, Zenon
    <3>2. ArcsOf(Cat(One(High(m)), c), 0) = ArcsOf(c, Acc(0, m))
      BY <2>2, ArcGoesOn, Zenon
    <3> QED
      BY <2>1, <2>2, <3>1, <3>2, Zenon
  <2> QED
    BY <2>3, Zenon
<1>3. ASSUME NEW m \in Nat, m \notin stop, next[m] \in P PROVE m \in P
  <2>1. ~(m < 128) /\ next[m] = m \div 128
    BY <1>3, Zenon
  <2>2. PICK q \in Nat : q = m \div 128
    BY SevenBits, Zenon
  <2>3. Acc(q, m) = m
    BY <2>2, AccIs, Zenon
  <2>4. ASSUME NEW c \in String PROVE ArcsOf(Cat(Marked[m], c), 0) = ArcsOf(c, m)
    <3>1. Marked[m] = Cat(Marked[q], One(High(m)))
      BY <2>1, <2>2, MarkedIs, Zenon
    <3>2. PICK a, o \in String : a = Marked[q] /\ o = One(High(m))
      BY MarkedIs, SevenBits, OneProps, Zenon
    <3>3. Cat(o, c) \in String
      BY CatProps, Zenon
    <3>4. Cat(Cat(a, o), c) = Cat(a, Cat(o, c))
      BY CatAssoc, Zenon
    <3>5. ArcsOf(Cat(a, Cat(o, c)), 0) = ArcsOf(Cat(o, c), q)
      BY <1>3, <2>1, <2>2, <3>2, <3>3, Zenon
    <3>6. ArcsOf(Cat(o, c), q) = ArcsOf(c, Acc(q, m))
      BY <3>2, ArcGoesOn, Zenon
    <3> QED
      BY <2>2, <2>3, <3>1, <3>2, <3>4, <3>5, <3>6, Zenon
  <2> QED
    BY <2>4, Zenon
<1>4. Nat \subseteq P
  <2>1. /\ \A m \in Nat : m \in stop => m \in P
        /\ \A m \in Nat : m \notin stop /\ next[m] \in Nat /\ next[m] \in P => m \in P
    <3> HIDE DEF P, stop, next
    <3> QED
      BY <1>2, <1>3, Zenon
  <2> HIDE DEF P, extent, stop, next
  <2> QED
    BY <1>1, <2>1, SizeInduction
<1>5. Cat(Marked[n], b) \in String
  <2>1. PICK a \in String : a = Marked[n]
    BY MarkedIs, Zenon
  <2>2. Cat(a, b) \in String
    BY CatProps, Zenon
  <2> QED
    BY <2>1, <2>2, Zenon
<1> QED
  BY <1>4, <1>5, Zenon

\* An arc in front of others is read as the first of them,
LEMMA ArcRead ==
  ASSUME NEW n \in Nat, NEW b \in String
  PROVE  /\ Arc(n) \in String /\ Cat(Arc(n), b) \in String
         /\ ArcsOf(Cat(Arc(n), b), 0) = <<n>> \o ArcsOf(b, 0)
<1>1. CASE n < 128
  <2>1. n % 128 = n /\ n % 128 \in Octet
    BY <1>1, SevenBits, Zenon
  <2>2. Arc(n) = One(n % 128)
    BY <1>1, <2>1, Zenon DEF Arc, One
  <2>3. One(n % 128) \in String
    BY <2>1, OneProps, Zenon
  <2>4. 0 \in Nat /\ Acc(0, n) = n
    BY <1>1, AccIs, Zenon
  <2>5. /\ Cat(One(n % 128), b) \in String
        /\ ArcsOf(Cat(One(n % 128), b), 0) = <<Acc(0, n)>> \o ArcsOf(b, 0)
    BY <2>4, ArcEnds, Zenon
  <2> QED
    BY <2>1, <2>2, <2>3, <2>4, <2>5, Zenon
<1>2. CASE ~(n < 128)
  <2>1. PICK q, r \in Nat : q = n \div 128 /\ r = n % 128 /\ r \in Octet
    BY SevenBits, Zenon
  <2>2. Acc(q, n) = n
    BY <2>1, AccIs, Zenon
  <2>3. PICK a, o \in String : a = Marked[q] /\ o = One(r)
    BY <2>1, MarkedIs, OneProps, Zenon
  <2>4. Arc(n) = Cat(a, o)
    BY <1>2, <2>1, <2>3, Zenon DEF Arc, Cat, One
  <2>5. Cat(a, o) \in String /\ Cat(o, b) \in String /\ Cat(a, Cat(o, b)) \in String
    <3>1. Cat(a, o) \in String /\ Cat(o, b) \in String
      BY CatProps, Zenon
    <3> QED
      BY <3>1, CatProps, Zenon
  <2>6. Cat(Cat(a, o), b) = Cat(a, Cat(o, b))
    BY CatAssoc, Zenon
  <2>7. ArcsOf(Cat(a, Cat(o, b)), 0) = ArcsOf(Cat(o, b), q)
    BY <2>3, <2>5, MarkedRead, Zenon
  <2>8. ArcsOf(Cat(o, b), q) = <<Acc(q, n)>> \o ArcsOf(b, 0)
    <3>1. ArcsOf(Cat(One(n % 128), b), q) = <<Acc(q, n)>> \o ArcsOf(b, 0)
      BY ArcEnds, Zenon
    <3> QED
      BY <2>1, <2>3, <3>1, Zenon
  <2> QED
    BY <2>1, <2>2, <2>4, <2>5, <2>6, <2>7, <2>8, Zenon
<1> QED
  BY <1>1, <1>2

ArcOf == [n \in Nat |-> Arc(n)]

\* and so are all of them.
LEMMA ArcsRead ==
  ASSUME NEW s \in Seq(Nat)
  PROVE  Written(ArcOf, s) \in String /\ ArcsOf(Written(ArcOf, s), 0) = s
<1> DEFINE P == {x \in Seq(Nat) : Written(ArcOf, x) \in String /\ ArcsOf(Written(ArcOf, x), 0) = x}
<1>1. ArcOf \in [Nat -> String]
  <2>1. \A n \in Nat : Arc(n) \in String
    BY ArcRead, CatEmpty, Zenon
  <2> QED
    BY <2>1, Zenon DEF ArcOf
<1>2. <<>> \in P
  <2>1. Written(ArcOf, <<>>) = <<>>
    BY <1>1, WrittenUnfolds, Zenon
  <2>2. <<>> \in Seq(Nat) /\ 0 \in Nat
    OBVIOUS
  <2>3. ArcsOf(<<>>, 0) = <<>>
    BY <2>2, ArcsUnfold, CatEmpty, Zenon DEF Follow
  <2> QED
    BY <2>1, <2>2, <2>3, CatEmpty, Zenon
<1>3. ASSUME NEW x \in Seq(Nat), x # <<>>, Tail(x) \in Seq(Nat), Tail(x) \in P
      PROVE  x \in P
  <2>1. /\ x[1] \in Nat /\ x = <<x[1]>> \o Tail(x)
        /\ Written(ArcOf, x) = Cat(ArcOf[x[1]], Written(ArcOf, Tail(x)))
    BY <1>1, <1>3, WrittenUnfolds, Zenon
  <2>2. PICK n \in Nat : n = x[1]
    BY <2>1, Zenon
  <2>3. PICK rest \in String : rest = Written(ArcOf, Tail(x)) /\ ArcsOf(rest, 0) = Tail(x)
    BY <1>3, Zenon
  <2>4. Written(ArcOf, x) = Cat(Arc(n), rest)
    BY <2>1, <2>2, <2>3, Zenon DEF ArcOf
  <2>5. /\ Cat(Arc(n), rest) \in String
        /\ ArcsOf(Cat(Arc(n), rest), 0) = <<n>> \o ArcsOf(rest, 0)
    BY ArcRead, Zenon
  <2> QED
    BY <2>1, <2>2, <2>3, <2>4, <2>5, Zenon
<1>4. Seq(Nat) \subseteq P
  <2> HIDE DEF P
  <2> QED
    BY <1>2, <1>3, SeqInd
<1> QED
  BY <1>4

\* An object identifier: the octet of its first two arcs, and its other arcs.
Lowest(o) == 40 * o[1] + o[2]
Beyond(o) == [i \in 1 .. Len(o) - 2 |-> o[i + 2]]
OidOctets(o) == Cat(One(Lowest(o)), Written(ArcOf, Beyond(o)))

LEMMA OidParts ==
  ASSUME NEW o \in Oids
  PROVE  /\ Lowest(o) \in Octet /\ Lowest(o) \div 40 = o[1] /\ Lowest(o) % 40 = o[2]
         /\ Len(o) - 2 \in Nat /\ ~(Len(o) < 2)
         /\ Beyond(o) \in Seq(Nat) /\ Len(Beyond(o)) = Len(o) - 2
         /\ <<o[1], o[2]>> \o Beyond(o) = o
<1>1. /\ o \in Seq(Nat) /\ Len(o) \in Nat /\ Len(o) >= 2 /\ o[1] \in Nat /\ o[2] \in Nat
      /\ o[2] < 40 /\ 40 * o[1] + o[2] <= 255
  BY DEF Oids
<1>2. PICK a, b, n \in Nat : a = o[1] /\ b = o[2] /\ n = Len(o)
  BY <1>1, Zenon
<1>3. /\ 40 * a + b \in Int /\ 0 <= 40 * a + b /\ 40 * a + b <= 255
      /\ (40 * a + b) \div 40 = a /\ (40 * a + b) % 40 = b
  <2>1. b < 40 /\ 40 * a + b <= 255
    BY <1>1, <1>2, Zenon
  <2>2. 40 * a + b \in Int /\ 0 <= 40 * a + b
    BY SMT
  <2>3. (40 * a + b) \div 40 = a /\ (40 * a + b) % 40 = b
    BY <2>1, SMT
  <2> QED
    BY <2>1, <2>2, <2>3, Zenon
<1>4. Lowest(o) = 40 * a + b
  BY <1>2, Zenon DEF Lowest
<1>5. Lowest(o) \in Octet /\ Lowest(o) \div 40 = o[1] /\ Lowest(o) % 40 = o[2]
  BY <1>2, <1>3, <1>4, OctetIs, Zenon
<1>6. n - 2 \in Nat /\ ~(n < 2)
  BY <1>1, <1>2, SMT
<1>7. \A i \in 1 .. n - 2 : o[i + 2] \in Nat
  <2>1. \A j \in 1 .. Len(o) : o[j] \in Nat
    BY <1>1
  <2>2. \A i \in 1 .. n - 2 : i + 2 \in 1 .. n
    BY <1>6, SMT
  <2> QED
    BY <1>2, <2>1, <2>2, Zenon
<1>8. Beyond(o) \in Seq(Nat) /\ Len(Beyond(o)) = n - 2
  BY <1>2, <1>6, <1>7, SMT DEF Beyond
<1>9. <<o[1], o[2]>> \o Beyond(o) = o
  <2>1. Beyond(o) = [i \in 1 .. n - 2 |-> o[i + 2]]
    BY <1>2, Zenon DEF Beyond
  <2>2. PICK s : s = Beyond(o)
    BY Zenon
  <2>3. /\ s \in Seq(Nat) /\ Len(s) = n - 2 /\ \A i \in 1 .. n - 2 : s[i] = o[i + 2]
    BY <1>8, <2>1, <2>2, Zenon
  <2>4. /\ <<a, b>> \o s \in Seq(Nat) /\ Len(<<a, b>> \o s) = n
    BY <1>6, <2>3, SMT
  <2>5. ASSUME NEW i \in 1 .. n PROVE (<<a, b>> \o s)[i] = o[i]
    <3>1. CASE i = 1
      BY <3>1, <2>3, <1>2, SMT
    <3>2. CASE i = 2
      BY <3>2, <2>3, <1>2, SMT
    <3>3. CASE i > 2
      <4>1. i - 2 \in 1 .. n - 2 /\ (i - 2) + 2 = i /\ i \in Int
        BY <3>3, <1>6, SMT
      <4>2. (<<a, b>> \o s)[i] = s[i - 2]
        BY <3>3, <2>3, SMT
      <4> QED
        BY <4>1, <4>2, <2>3, Zenon
    <3>4. i = 1 \/ i = 2 \/ i > 2
      BY SMT
    <3> QED
      BY <3>1, <3>2, <3>3, <3>4, Zenon
  <2>6. <<a, b>> \o s = o
    BY <1>1, <1>2, <2>4, <2>5, SeqEqual, Zenon
  <2> QED
    BY <2>6, <2>2, <1>2, Zenon
<1> QED
  BY <1>2, <1>5, <1>6, <1>8, <1>9, Zenon

\* It is written so,
LEMMA OidWritten ==
  ASSUME NEW o \in Oids
  PROVE  /\ OidOctets(o) \in String
         /\ EncodeOid(o) = Tlv(TagOid, OidOctets(o))
<1>1. PICK s \in Seq(Nat) : s = Beyond(o) /\ Len(s) = Len(o) - 2
  BY OidParts, Zenon
<1>2. Written(ArcOf, s) \in String
  BY ArcsRead, Zenon
<1>3. One(Lowest(o)) \in String
  BY OidParts, OneProps, Zenon
<1>4. OidOctets(o) \in String
  BY <1>1, <1>2, <1>3, CatProps, Zenon DEF OidOctets
<1>5. [i \in 1 .. Len(o) - 2 |-> Arc(o[i + 2])] = Mapped(ArcOf, s)
  <2>1. ASSUME NEW i \in 1 .. Len(o) - 2 PROVE s[i] = o[i + 2] /\ s[i] \in Nat
    <3>1. s[i] = o[i + 2]
      BY <1>1, Zenon DEF Beyond
    <3>2. s[i] \in Nat
      <4>1. i \in 1 .. Len(s)
        BY <1>1, Zenon
      <4> QED
        BY <4>1, SMT
    <3> QED
      BY <3>1, <3>2
  <2>2. ASSUME NEW i \in 1 .. Len(o) - 2 PROVE Arc(o[i + 2]) = ArcOf[s[i]]
    BY <2>1, Zenon DEF ArcOf
  <2> QED
    BY <1>1, <2>2, Zenon DEF Mapped
<1>6. EncodeOid(o) = Encode(TagOid, <<40 * o[1] + o[2]>> \o Joined[Mapped(ArcOf, s)])
  BY <1>5, OidParts, Zenon DEF EncodeOid
<1> QED
  BY <1>1, <1>4, <1>6, Zenon DEF Tlv, OidOctets, Cat, One, Lowest, Written

\* and read so.
LEMMA OidRead ==
  ASSUME NEW o \in Oids
  PROVE  DecodeOid(OidOctets(o)) = o
<1>1. PICK s \in Seq(Nat) : s = Beyond(o) /\ <<o[1], o[2]>> \o s = o
  BY OidParts, Zenon
<1>2. PICK a \in String : a = Written(ArcOf, s) /\ ArcsOf(a, 0) = s
  BY ArcsRead, Zenon
<1>3. PICK x \in Octet : x = Lowest(o) /\ x \div 40 = o[1] /\ x % 40 = o[2]
  BY OidParts, Zenon
<1>4. PICK b : b = OidOctets(o)
  BY Zenon
<1>5. b = Cat(One(x), a)
  BY <1>1, <1>2, <1>3, <1>4, Zenon DEF OidOctets
<1>6. b # <<>> /\ b[1] = x /\ Tail(b) = a
  BY <1>5, TailOfCat, Zenon
<1>7. DecodeOid(b) = <<x \div 40, x % 40>> \o ArcsOf(a, 0)
  BY <1>6, Zenon DEF DecodeOid, ArcsOf
<1> QED
  BY <1>1, <1>2, <1>3, <1>4, <1>7, Zenon

\* What is read from an element of the tags that are written.
Elem(t, b) == [tag |-> t, value |-> b]

LEMMA DecodeTags ==
  ASSUME NEW b
  PROVE  /\ DecodeValue(Elem(TagInteger, b)) = Num(Signed[b])
         /\ DecodeValue(Elem(TagString, b)) = Str(b)
         /\ DecodeValue(Elem(TagNull, b)) = Null
<1>1. /\ TagString # TagInteger /\ TagNull # TagInteger /\ TagNull # TagString
      /\ TagInteger # TagOid /\ TagString # TagOid /\ TagNull # TagOid
  BY SMT DEF TagInteger, TagString, TagNull, TagOid
<1>2. /\ TagInteger \notin Unsigned /\ TagString \notin Unsigned /\ TagNull \notin Unsigned
      /\ TagInteger \notin Missing /\ TagString \notin Missing /\ TagNull \notin Missing
  BY SMT DEF TagInteger, TagString, TagNull, Unsigned, Missing
<1>3. \A t : Elem(t, b).tag = t /\ Elem(t, b).value = b
  BY Zenon DEF Elem
<1>4. ASSUME NEW e
      PROVE  /\ e.tag = TagInteger => DecodeValue(e) = Num(Signed[e.value])
             /\ e.tag = TagString => DecodeValue(e) = Str(e.value)
             /\ e.tag = TagNull => DecodeValue(e) = Null
  <2>1. CASE e.tag = TagInteger
    BY <1>1, <1>2, <2>1, Zenon DEF DecodeValue
  <2>2. CASE e.tag = TagString
    BY <1>1, <1>2, <2>2, Zenon DEF DecodeValue
  <2>3. CASE e.tag = TagNull
    BY <1>1, <1>2, <2>3, Zenon DEF DecodeValue
  <2> QED
    BY <1>1, <2>1, <2>2, <2>3, Zenon
<1> QED
  BY <1>3, <1>4, Zenon

LEMMA TagOctets ==
  /\ TagInteger \in Octet /\ TagString \in Octet /\ TagNull \in Octet
  /\ TagOid \in Octet /\ TagSequence \in Octet /\ GetResponse \in Octet
BY OctetIs, SMT DEF TagInteger, TagString, TagNull, TagOid, TagSequence, GetResponse

\* A value is written as one element, and read from it.
ValueTag(v) == IF v.is = "int" THEN TagInteger ELSE IF v.is = "string" THEN TagString ELSE TagNull
ValueOctets(v) == IF v.is = "int" THEN IntOctets(v.n) ELSE IF v.is = "string" THEN v.b ELSE <<>>

LEMMA ValueRead ==
  ASSUME NEW v \in Values
  PROVE  /\ ValueTag(v) \in Octet /\ ValueOctets(v) \in String
         /\ EncodeValue(v) = Tlv(ValueTag(v), ValueOctets(v))
         /\ DecodeValue(Elem(ValueTag(v), ValueOctets(v))) = v
<1>1. \/ v = Null /\ v.is = "null"
      \/ v.is = "int" /\ v.n \in Int32 /\ v = Num(v.n)
      \/ v.is = "string" /\ v.b \in String /\ v = Str(v.b)
  BY SMT DEF Values, Null, Num, Str, String
<1>2. "null" # "int" /\ "null" # "string" /\ "string" # "int"
  OBVIOUS
<1>3. CASE v = Null /\ v.is = "null"
  <2>1. ValueTag(v) = TagNull /\ ValueOctets(v) = <<>>
    BY <1>2, <1>3, Zenon DEF ValueTag, ValueOctets
  <2>2. EncodeValue(v) = Tlv(TagNull, <<>>)
    BY <1>2, <1>3, Zenon DEF EncodeValue, Tlv
  <2> QED
    BY <1>3, <2>1, <2>2, DecodeTags, TagOctets, CatEmpty, Zenon
<1>4. CASE v.is = "int" /\ v.n \in Int32 /\ v = Num(v.n)
  <2>1. ValueTag(v) = TagInteger /\ ValueOctets(v) = IntOctets(v.n)
    BY <1>4, Zenon DEF ValueTag, ValueOctets
  <2>2. EncodeValue(v) = Tlv(TagInteger, IntOctets(v.n))
    BY <1>4, Zenon DEF EncodeValue, EncodeInt, IntOctets, Tlv
  <2> QED
    BY <1>4, <2>1, <2>2, DecodeTags, TagOctets, IntRead, Zenon
<1>5. CASE v.is = "string" /\ v.b \in String /\ v = Str(v.b)
  <2>1. ValueTag(v) = TagString /\ ValueOctets(v) = v.b
    BY <1>2, <1>5, Zenon DEF ValueTag, ValueOctets
  <2>2. EncodeValue(v) = Tlv(TagString, v.b)
    BY <1>2, <1>5, Zenon DEF EncodeValue, Tlv
  <2> QED
    BY <1>5, <2>1, <2>2, DecodeTags, TagOctets, Zenon
<1> QED
  BY <1>1, <1>3, <1>4, <1>5, Zenon

\* A TLV is longer than its value, whatever the length of this.
LEMMA TlvLonger ==
  ASSUME NEW t \in Octet, NEW v \in String
  PROVE  /\ Tlv(t, v) \in String /\ Len(v) \in Nat /\ Len(Tlv(t, v)) \in Nat
         /\ Len(Tlv(t, v)) >= Len(v)
<1>1. PICK n : n = Len(v)
  BY Zenon
<1>2. n \in Nat
  BY <1>1, CatProps, Zenon
<1>3. PICK w : w = Width(n)
  BY Zenon
<1>4. w \in 1 .. 4
  BY <1>3, SMT DEF Width
<1>5. LenOf(n) \in String
  <2>1. CASE n < 128
    <3>1. n \in Octet
      BY <1>2, <2>1, OctetIs, SMT
    <3> QED
      BY <2>1, <3>1, OneProps, Zenon DEF LenOf, EncodeLen, One
  <2>2. CASE ~(n < 128)
    <3>1. 128 + w \in Octet
      BY <1>4, OctetIs, SMT
    <3>2. One(128 + w) \in String
      BY <3>1, OneProps, Zenon
    <3>3. n \in Int
      BY <1>2, SMT
    <3>4. InOctets(n, w) \in String
      BY <1>4, <3>3, InOctetsString, Zenon
    <3>5. LenOf(n) = Cat(One(128 + w), InOctets(n, w))
      BY <1>3, <2>2, Zenon DEF LenOf, EncodeLen, One, Cat
    <3>6. PICK x, y \in String : x = One(128 + w) /\ y = InOctets(n, w)
      BY <3>2, <3>4, Zenon
    <3>7. Cat(x, y) \in String
      BY CatProps, Zenon
    <3> QED
      BY <3>5, <3>6, <3>7, Zenon
  <2> QED
    BY <2>1, <2>2
<1>6. PICK h : h = Header(t, n)
  BY Zenon
<1>7. h \in String
  BY <1>5, <1>6, OneProps, CatProps, Zenon DEF Header
<1>8. PICK b : b = Tlv(t, v)
  BY Zenon
<1>9. b = Cat(h, v)
  BY <1>1, <1>6, <1>8, TlvIs, Zenon
<1>10. b \in String /\ Len(h) \in Nat /\ Len(b) = Len(h) + Len(v)
  BY <1>7, <1>9, CatProps, Zenon
<1>11. PICK k \in Nat : k = Len(h) /\ Len(b) = k + n
  BY <1>1, <1>10, Zenon
<1>12. k + n \in Nat /\ k + n >= n
  BY <1>2, <1>11, SMT
<1> QED
  BY <1>1, <1>2, <1>8, <1>10, <1>11, <1>12, Zenon

LEMMA SizeBelow ==
  ASSUME NEW n, Size(n), NEW m \in Nat, n >= m
  PROVE  Size(m)
BY SMT DEF Size

LEMMA TlvSize ==
  ASSUME NEW t \in Octet, NEW v \in String, Size(Len(Tlv(t, v)))
  PROVE  Size(Len(v))
BY TlvLonger, SizeBelow, Zenon

LEMMA CatSize ==
  ASSUME NEW a \in String, NEW b \in String, Size(Len(Cat(a, b)))
  PROVE  Size(Len(a)) /\ Size(Len(b))
<1>1. PICK m, n \in Nat : m = Len(a) /\ n = Len(b) /\ Len(Cat(a, b)) = m + n
  BY CatProps, Zenon
<1>2. m + n >= m /\ m + n >= n
  OBVIOUS
<1> QED
  BY <1>1, <1>2, SizeBelow, Zenon

\* Elements one behind the other, each with its extent.
LEMMA ElementsOfOne ==
  ASSUME NEW t \in Octet, NEW v \in String, Size(Len(v))
  PROVE  /\ Tlv(t, v) \in String
         /\ Elements[Tlv(t, v)] = <<Elem(t, v)>> /\ Left[Tlv(t, v)] = <<>>
<1>1. PICK b \in String : b = Tlv(t, v)
  BY TlvString, Zenon
<1>2. Cat(b, <<>>) = b /\ <<>> \in String
  BY CatEmpty, Zenon
<1>3. /\ Elements[Cat(b, <<>>)] = <<Elem(t, v)>> \o Elements[<<>>]
      /\ Left[Cat(b, <<>>)] = Left[<<>>]
  BY <1>1, <1>2, ElementsOfTlv, Zenon DEF Elem
<1>4. \A e : <<e>> \o <<>> = <<e>>
  OBVIOUS
<1> QED
  BY <1>1, <1>2, <1>3, <1>4, ElementsOfNone, Zenon

LEMMA ElementsOfMore ==
  ASSUME NEW t \in Octet, NEW v \in String, Size(Len(v)), NEW rest \in String
  PROVE  /\ Cat(Tlv(t, v), rest) \in String
         /\ Elements[Cat(Tlv(t, v), rest)] = <<Elem(t, v)>> \o Elements[rest]
BY ElementsOfTlv, Zenon DEF Elem

\* A value bound to a name, as it is written and read.
VarBind == [oid : Oids, val : Values]
BindOctets(vb) ==
  Cat(Tlv(TagOid, OidOctets(vb.oid)), Tlv(ValueTag(vb.val), ValueOctets(vb.val)))

LEMMA BindWritten ==
  ASSUME NEW vb \in VarBind
  PROVE  BindOctets(vb) \in String /\ EncodeBind(vb) = Tlv(TagSequence, BindOctets(vb))
<1>1. vb.oid \in Oids /\ vb.val \in Values
  BY DEF VarBind
<1>2. PICK o : o = OidOctets(vb.oid)
  BY Zenon
<1>3. o \in String /\ EncodeOid(vb.oid) = Tlv(TagOid, o)
  BY <1>1, <1>2, OidWritten, Zenon
<1>4. PICK t, v : t = ValueTag(vb.val) /\ v = ValueOctets(vb.val)
  BY Zenon
<1>5. t \in Octet /\ v \in String /\ EncodeValue(vb.val) = Tlv(t, v)
  BY <1>1, <1>4, ValueRead, Zenon
<1>6. PICK x, y \in String : x = Tlv(TagOid, o) /\ y = Tlv(t, v)
  BY <1>3, <1>5, TlvLonger, TagOctets, Zenon
<1>7. BindOctets(vb) = Cat(x, y)
  BY <1>2, <1>4, <1>6, Zenon DEF BindOctets
<1>8. Cat(x, y) \in String
  BY CatProps, Zenon
<1>9. EncodeBind(vb) = Tlv(TagSequence, Cat(x, y))
  BY <1>3, <1>5, <1>6, Zenon DEF EncodeBind, Tlv, Cat
<1> QED
  BY <1>7, <1>8, <1>9, Zenon

LEMMA BindRead ==
  ASSUME NEW vb \in VarBind, Size(Len(BindOctets(vb)))
  PROVE  /\ Len(Elements[BindOctets(vb)]) = 2
         /\ DecodeBind(Elem(TagSequence, BindOctets(vb))) = vb
<1>1. vb.oid \in Oids /\ vb.val \in Values /\ vb = [oid |-> vb.oid, val |-> vb.val]
  BY DEF VarBind
<1>2. PICK o \in String : o = OidOctets(vb.oid) /\ DecodeOid(o) = vb.oid
  BY <1>1, OidWritten, OidRead, Zenon
<1>3. PICK t \in Octet, v \in String :
        t = ValueTag(vb.val) /\ v = ValueOctets(vb.val) /\ DecodeValue(Elem(t, v)) = vb.val
  BY <1>1, ValueRead, Zenon
<1>4. PICK x, y \in String : x = Tlv(TagOid, o) /\ y = Tlv(t, v)
  BY TlvLonger, TagOctets, Zenon
<1>5. PICK b : b = BindOctets(vb)
  BY Zenon
<1>6. b = Cat(x, y)
  BY <1>2, <1>3, <1>4, <1>5, Zenon DEF BindOctets
<1>7. Size(Len(x)) /\ Size(Len(y))
  BY <1>5, <1>6, CatSize, Zenon
<1>8. Size(Len(o)) /\ Size(Len(v))
  BY <1>4, <1>7, TlvSize, TagOctets, Zenon
<1>9. Elements[y] = <<Elem(t, v)>>
  BY <1>4, <1>8, ElementsOfOne, Zenon
<1>10. Elements[b] = <<Elem(TagOid, o)>> \o <<Elem(t, v)>>
  <2>1. Elements[Cat(Tlv(TagOid, o), y)] = <<Elem(TagOid, o)>> \o Elements[y]
    BY <1>8, ElementsOfMore, TagOctets, Zenon
  <2> QED
    BY <1>4, <1>6, <1>9, <2>1, Zenon
<1>11. \A e, f : /\ Len(<<e>> \o <<f>>) = 2
                 /\ (<<e>> \o <<f>>)[1] = e /\ (<<e>> \o <<f>>)[2] = f
  OBVIOUS
<1>12. PICK s : s = Elements[b] /\ Len(s) = 2 /\ s[1] = Elem(TagOid, o) /\ s[2] = Elem(t, v)
  <2>1. PICK s : s = <<Elem(TagOid, o)>> \o <<Elem(t, v)>>
    BY Zenon
  <2>2. Len(s) = 2 /\ s[1] = Elem(TagOid, o) /\ s[2] = Elem(t, v)
    BY <1>11, <2>1, Zenon
  <2> QED
    BY <1>10, <2>1, <2>2, Zenon
<1>13. Elem(TagSequence, b).value = b /\ Elem(TagOid, o).value = o
  BY Zenon DEF Elem
<1>14. DecodeBind(Elem(TagSequence, b)) = [oid |-> DecodeOid(s[1].value), val |-> DecodeValue(s[2])]
  BY <1>12, <1>13, Zenon DEF DecodeBind
<1> QED
  BY <1>1, <1>2, <1>3, <1>5, <1>12, <1>13, <1>14, Zenon

\* What is written of a sequence is a string, no shorter than any part of it.
LEMMA WrittenHolds ==
  ASSUME NEW T, NEW enc \in [T -> String], NEW s \in Seq(T)
  PROVE  /\ Written(enc, s) \in String
         /\ \A i \in 1 .. Len(s) : Size(Len(Written(enc, s))) => Size(Len(enc[s[i]]))
<1> DEFINE P == {x \in Seq(T) :
                   /\ Written(enc, x) \in String
                   /\ \A i \in 1 .. Len(x) : Size(Len(Written(enc, x))) => Size(Len(enc[x[i]]))}
<1>1. <<>> \in P
  <2>1. Written(enc, <<>>) = <<>>
    BY WrittenUnfolds, Zenon
  <2>2. <<>> \in Seq(T) /\ \A i \in 1 .. Len(<<>>) : FALSE
    OBVIOUS
  <2> QED
    BY <2>1, <2>2, CatEmpty, Zenon
<1>2. ASSUME NEW x \in Seq(T), x # <<>>, Tail(x) \in Seq(T), Tail(x) \in P
      PROVE  x \in P
  <2>1. x[1] \in T /\ Written(enc, x) = Cat(enc[x[1]], Written(enc, Tail(x)))
    BY <1>2, WrittenUnfolds, Zenon
  <2>2. PICK a \in String : a = enc[x[1]]
    BY <2>1, Zenon
  <2>3. PICK y : y = Tail(x)
    BY Zenon
  <2>4. PICK b \in String : b = Written(enc, y)
    BY <1>2, <2>3, Zenon
  <2>5. Written(enc, x) = Cat(a, b) /\ Cat(a, b) \in String
    BY <2>1, <2>2, <2>3, <2>4, CatProps, Zenon
  <2>6. \A i \in 1 .. Len(x) : i = 1 \/ (i - 1 \in 1 .. Len(y) /\ x[i] = y[i - 1])
    BY <1>2, <2>3
  <2>7. ASSUME NEW i \in 1 .. Len(x), Size(Len(Cat(a, b))) PROVE Size(Len(enc[x[i]]))
    <3>1. Size(Len(a)) /\ Size(Len(b))
      BY <2>7, CatSize, Zenon
    <3>2. CASE i = 1
      BY <3>1, <3>2, <2>2, Zenon
    <3>3. CASE i - 1 \in 1 .. Len(y) /\ x[i] = y[i - 1]
      BY <1>2, <2>3, <2>4, <3>1, <3>3, Zenon
    <3> QED
      BY <2>6, <3>2, <3>3, Zenon
  <2> QED
    BY <2>5, <2>7, Zenon
<1>3. Seq(T) \subseteq P
  <2> HIDE DEF P
  <2> QED
    BY <1>1, <1>2, SeqInd
<1> QED
  BY <1>3, Zenon

\* The list of bound values.
List(bs) == Joined[[i \in DOMAIN bs |-> EncodeBind(bs[i])]]
BindOf == [vb \in VarBind |-> EncodeBind(vb)]
BindElements(bs) == [i \in 1 .. Len(bs) |-> Elem(TagSequence, BindOctets(bs[i]))]

LEMMA ListWritten ==
  ASSUME NEW bs \in Seq(VarBind)
  PROVE  /\ BindOf \in [VarBind -> String]
         /\ List(bs) = Written(BindOf, bs) /\ List(bs) \in String
<1>1. \A vb \in VarBind : EncodeBind(vb) \in String
  BY BindWritten, TlvLonger, TagOctets, Zenon
<1>2. BindOf \in [VarBind -> String]
  BY <1>1, Zenon DEF BindOf
<1>3. DOMAIN bs = 1 .. Len(bs) /\ \A i \in 1 .. Len(bs) : bs[i] \in VarBind
  OBVIOUS
<1>4. \A i \in 1 .. Len(bs) : EncodeBind(bs[i]) = BindOf[bs[i]]
  BY <1>3, Zenon DEF BindOf
<1>5. [i \in DOMAIN bs |-> EncodeBind(bs[i])] = Mapped(BindOf, bs)
  BY <1>3, <1>4, Zenon DEF Mapped
<1>6. List(bs) = Written(BindOf, bs)
  BY <1>5, Zenon DEF List, Written
<1> QED
  BY <1>2, <1>6, WrittenHolds, Zenon

LEMMA ListRead ==
  ASSUME NEW bs \in Seq(VarBind), Size(Len(List(bs)))
  PROVE  /\ Elements[List(bs)] = BindElements(bs) /\ Left[List(bs)] = <<>>
         /\ Len(BindElements(bs)) = Len(bs)
         /\ \A i \in 1 .. Len(bs) : Size(Len(BindOctets(bs[i])))
<1>1. \A i \in 1 .. Len(bs) : bs[i] \in VarBind
  OBVIOUS
<1>2. ASSUME NEW i \in 1 .. Len(bs)
      PROVE  /\ Size(Len(BindOctets(bs[i]))) /\ BindOctets(bs[i]) \in String
             /\ BindOf[bs[i]] = Tlv(TagSequence, BindOctets(bs[i]))
  <2>1. PICK vb \in VarBind : vb = bs[i]
    BY <1>1, Zenon
  <2>2. Size(Len(BindOf[bs[i]]))
    BY ListWritten, WrittenHolds, Zenon
  <2>3. BindOf[vb] = Tlv(TagSequence, BindOctets(vb)) /\ BindOctets(vb) \in String
    BY BindWritten, Zenon DEF BindOf
  <2>4. Size(Len(Tlv(TagSequence, BindOctets(vb))))
    BY <2>1, <2>2, <2>3, Zenon
  <2> QED
    BY <2>1, <2>3, <2>4, TlvSize, TagOctets, Zenon
<1>3. PICK es : es = BindElements(bs)
  BY Zenon
<1>4. \A e : Elem(TagSequence, e).tag = TagSequence /\ Elem(TagSequence, e).value = e
  BY Zenon DEF Elem
<1>5. ASSUME NEW i \in 1 .. Len(bs)
      PROVE  Elem(TagSequence, BindOctets(bs[i])) \in ShortElement
  <2>1. PICK v \in String : v = BindOctets(bs[i]) /\ Size(Len(v))
    BY <1>2, Zenon
  <2>2. Elem(TagSequence, v) \in Element
    BY TagOctets, Zenon DEF Elem, Element
  <2> QED
    BY <1>4, <2>1, <2>2, Zenon DEF ShortElement
<1>6. /\ es \in Seq(ShortElement) /\ Len(es) = Len(bs)
      /\ \A i \in 1 .. Len(bs) : es[i] = Elem(TagSequence, BindOctets(bs[i]))
  <2>1. Len(bs) \in Nat
    OBVIOUS
  <2>2. es = [i \in 1 .. Len(bs) |-> Elem(TagSequence, BindOctets(bs[i]))]
    BY <1>3, Zenon DEF BindElements
  <2> QED
    BY <1>5, <2>1, <2>2, SMT
<1>7. Mapped(TlvOf, es) = Mapped(BindOf, bs)
  <2>1. ASSUME NEW i \in 1 .. Len(bs) PROVE TlvOf[es[i]] = BindOf[bs[i]]
    <3>1. PICK e \in ShortElement : e = Elem(TagSequence, BindOctets(bs[i])) /\ e = es[i]
      BY <1>5, <1>6, Zenon
    <3>2. TlvOf[e] = Tlv(e.tag, e.value)
      BY TlvOfIs, Zenon
    <3>3. e.tag = TagSequence /\ e.value = BindOctets(bs[i])
      BY <1>4, <3>1, Zenon
    <3> QED
      BY <1>2, <3>1, <3>2, <3>3, Zenon
  <2> QED
    BY <1>6, <2>1, Zenon DEF Mapped
<1>8. Written(TlvOf, es) = List(bs)
  BY <1>7, ListWritten, Zenon DEF Written
<1> QED
  BY <1>2, <1>3, <1>6, <1>8, ElementsOfTlvs, Zenon

\* A response: its identifier and two zeros and the list, in a PDU behind the
\* version and the community.
IntTlv(n) == Tlv(TagInteger, IntOctets(n))
PduOctets(id, bs) == Cat(Cat(Cat(IntTlv(id), IntTlv(0)), IntTlv(0)), Tlv(TagSequence, List(bs)))
MsgOctets(c, id, bs) ==
  Cat(Cat(IntTlv(1), Tlv(TagString, c)), Tlv(GetResponse, PduOctets(id, bs)))

LEMMA IntTlvIs ==
  ASSUME NEW n \in Int32
  PROVE  /\ IntTlv(n) \in String /\ EncodeInt(n) = IntTlv(n)
         /\ IntOctets(n) \in String /\ Size(Len(IntOctets(n)))
         /\ DecodeValue(Elem(TagInteger, IntOctets(n))) = Num(n)
<1>1. PICK v \in String : v = IntOctets(n) /\ Size(Len(v)) /\ Signed[v] = n
  BY IntRead, Zenon
<1>2. Tlv(TagInteger, v) \in String
  BY TlvLonger, TagOctets, Zenon
<1>3. EncodeInt(n) = Tlv(TagInteger, v)
  BY <1>1, Zenon DEF EncodeInt, IntOctets, Tlv
<1>4. DecodeValue(Elem(TagInteger, v)) = Num(n)
  BY <1>1, DecodeTags, Zenon
<1> QED
  BY <1>1, <1>2, <1>3, <1>4, Zenon DEF IntTlv

LEMMA SmallInts ==
  0 \in Int32 /\ 1 \in Int32
BY SMT DEF Int32, Magnitude

LEMMA Strung ==
  ASSUME NEW c \in String, NEW id \in Int32, NEW bs \in Seq(VarBind)
  PROVE  PduOctets(id, bs) \in String /\ MsgOctets(c, id, bs) \in String
<1>1. PICK i, z, v \in String : i = IntTlv(id) /\ z = IntTlv(0) /\ v = IntTlv(1)
  BY IntTlvIs, SmallInts, Zenon
<1>2. PICK l \in String : l = Tlv(TagSequence, List(bs))
  BY ListWritten, TlvLonger, TagOctets, Zenon
<1>3. PICK p : p = PduOctets(id, bs)
  BY Zenon
<1>4. p = Cat(Cat(Cat(i, z), z), l)
  BY <1>1, <1>2, <1>3, Zenon DEF PduOctets
<1>5. p \in String
  <2>1. Cat(i, z) \in String
    BY CatProps, Zenon
  <2>2. Cat(Cat(i, z), z) \in String
    BY <2>1, CatProps, Zenon
  <2> QED
    BY <1>4, <2>2, CatProps, Zenon
<1>6. PICK k, q \in String : k = Tlv(TagString, c) /\ q = Tlv(GetResponse, p)
  BY <1>5, TlvLonger, TagOctets, Zenon
<1>7. MsgOctets(c, id, bs) = Cat(Cat(v, k), q)
  BY <1>1, <1>3, <1>6, Zenon DEF MsgOctets
<1>8. Cat(v, k) \in String
  BY CatProps, Zenon
<1>9. Cat(Cat(v, k), q) \in String
  BY <1>8, CatProps, Zenon
<1> QED
  BY <1>3, <1>5, <1>7, <1>9, Zenon

LEMMA ResponseWritten ==
  ASSUME NEW c \in String, NEW id \in Int32, NEW bs \in Seq(VarBind)
  PROVE  Build(c, GetResponse, id, bs, 0, 0) = Tlv(TagSequence, MsgOctets(c, id, bs))
<1>1. EncodeInt(id) = IntTlv(id) /\ EncodeInt(0) = IntTlv(0) /\ EncodeInt(1) = IntTlv(1)
  BY IntTlvIs, SmallInts, Zenon
<1>2. PICK l : l = List(bs)
  BY Zenon
<1>3. EncodeInt(id) \o EncodeInt(0) \o EncodeInt(0) \o Encode(TagSequence, l) = PduOctets(id, bs)
  BY <1>1, <1>2, Zenon DEF PduOctets, Cat, Tlv
<1>4. Build(c, GetResponse, id, bs, 0, 0) =
        Encode(TagSequence, EncodeInt(1) \o Encode(TagString, c) \o Encode(GetResponse,
          EncodeInt(id) \o EncodeInt(0) \o EncodeInt(0) \o Encode(TagSequence, l)))
  BY <1>2, Zenon DEF Build, List
<1>5. EncodeInt(1) \o Encode(TagString, c) \o Encode(GetResponse, PduOctets(id, bs))
        = MsgOctets(c, id, bs)
  BY <1>1, Zenon DEF MsgOctets, Cat, Tlv
<1> QED
  BY <1>3, <1>4, <1>5, Zenon DEF Tlv

\* The elements of one made of several.
LEMMA ElementsOfTwo ==
  ASSUME NEW t \in Octet, NEW v \in String, Size(Len(v)), NEW u \in Octet, NEW w \in String,
         Size(Len(w))
  PROVE  /\ Cat(Tlv(t, v), Tlv(u, w)) \in String
         /\ Elements[Cat(Tlv(t, v), Tlv(u, w))] = <<Elem(t, v)>> \o <<Elem(u, w)>>
<1>1. PICK x, y \in String : x = Tlv(t, v) /\ y = Tlv(u, w)
  BY TlvLonger, Zenon
<1>2. Elements[y] = <<Elem(u, w)>>
  BY <1>1, ElementsOfOne, Zenon
<1>3. Elements[Cat(Tlv(t, v), y)] = <<Elem(t, v)>> \o Elements[y] /\ Cat(Tlv(t, v), y) \in String
  BY ElementsOfMore, Zenon
<1> QED
  BY <1>1, <1>2, <1>3, Zenon

LEMMA ElementsOfThree ==
  ASSUME NEW t \in Octet, NEW v \in String, Size(Len(v)),
         NEW u \in Octet, NEW w \in String, Size(Len(w)),
         NEW r \in Octet, NEW z \in String, Size(Len(z))
  PROVE  LET b == Cat(Cat(Tlv(t, v), Tlv(u, w)), Tlv(r, z))
         IN /\ b \in String /\ Len(Elements[b]) = 3
            /\ Elements[b][1] = Elem(t, v) /\ Elements[b][2] = Elem(u, w)
            /\ Elements[b][3] = Elem(r, z)
<1>1. PICK x, y, q \in String : x = Tlv(t, v) /\ y = Tlv(u, w) /\ q = Tlv(r, z)
  BY TlvLonger, Zenon
<1>2. Cat(Cat(x, y), q) = Cat(x, Cat(y, q))
  BY CatAssoc, Zenon
<1>3. Cat(y, q) \in String /\ Elements[Cat(y, q)] = <<Elem(u, w)>> \o <<Elem(r, z)>>
  <2>1. /\ Cat(Tlv(u, w), Tlv(r, z)) \in String
        /\ Elements[Cat(Tlv(u, w), Tlv(r, z))] = <<Elem(u, w)>> \o <<Elem(r, z)>>
    BY ElementsOfTwo, SMT
  <2> QED
    BY <1>1, <2>1, Zenon
<1>4. PICK s \in String : s = Cat(y, q)
  BY <1>3, Zenon
<1>5. Cat(Tlv(t, v), s) \in String /\ Elements[Cat(Tlv(t, v), s)] = <<Elem(t, v)>> \o Elements[s]
  BY ElementsOfMore, Zenon
<1>6. PICK b : b = Cat(Cat(x, y), q)
  BY Zenon
<1>7. PICK e : e = Elements[b]
  BY Zenon
<1>8. b \in String /\ e = <<Elem(t, v)>> \o (<<Elem(u, w)>> \o <<Elem(r, z)>>)
  BY <1>1, <1>2, <1>3, <1>4, <1>5, <1>6, <1>7, Zenon
<1>9. /\ Len(e) = 3 /\ e[1] = Elem(t, v) /\ e[2] = Elem(u, w) /\ e[3] = Elem(r, z)
  <2>1. PICK m, n, o : m = Elem(t, v) /\ n = Elem(u, w) /\ o = Elem(r, z)
    BY Zenon
  <2>2. e = <<m>> \o (<<n>> \o <<o>>)
    BY <1>8, <2>1, Zenon
  <2>3. Len(e) = 3 /\ e[1] = m /\ e[2] = n /\ e[3] = o
    BY <2>2, SMT
  <2> QED
    BY <2>1, <2>3, Zenon
<1> QED
  BY <1>1, <1>6, <1>7, <1>8, <1>9, Zenon

LEMMA ElementsOfFour ==
  ASSUME NEW t \in Octet, NEW v \in String, Size(Len(v)),
         NEW u \in Octet, NEW w \in String, Size(Len(w)),
         NEW r \in Octet, NEW z \in String, Size(Len(z)),
         NEW o \in Octet, NEW a \in String, Size(Len(a))
  PROVE  LET b == Cat(Cat(Cat(Tlv(t, v), Tlv(u, w)), Tlv(r, z)), Tlv(o, a))
         IN /\ b \in String /\ Len(Elements[b]) = 4
            /\ Elements[b][1] = Elem(t, v) /\ Elements[b][2] = Elem(u, w)
            /\ Elements[b][4] = Elem(o, a)
<1>1. PICK x, y, q, f \in String :
        x = Tlv(t, v) /\ y = Tlv(u, w) /\ q = Tlv(r, z) /\ f = Tlv(o, a)
  BY TlvLonger, Zenon
<1>2. Cat(q, f) \in String /\ Elements[Cat(q, f)] = <<Elem(r, z)>> \o <<Elem(o, a)>>
  <2>1. /\ Cat(Tlv(r, z), Tlv(o, a)) \in String
        /\ Elements[Cat(Tlv(r, z), Tlv(o, a))] = <<Elem(r, z)>> \o <<Elem(o, a)>>
    BY ElementsOfTwo, SMT
  <2> QED
    BY <1>1, <2>1, Zenon
<1>3. PICK g \in String : g = Cat(q, f)
  BY <1>2, Zenon
<1>4. Cat(y, g) \in String /\ Elements[Cat(y, g)] = <<Elem(u, w)>> \o Elements[g]
  <2>1. Cat(Tlv(u, w), g) \in String /\ Elements[Cat(Tlv(u, w), g)] = <<Elem(u, w)>> \o Elements[g]
    BY ElementsOfMore, Zenon
  <2> QED
    BY <1>1, <2>1, Zenon
<1>5. PICK s \in String : s = Cat(y, g)
  BY <1>4, Zenon
<1>6. Cat(Tlv(t, v), s) \in String /\ Elements[Cat(Tlv(t, v), s)] = <<Elem(t, v)>> \o Elements[s]
  BY ElementsOfMore, SMT
<1>7. Cat(Cat(Cat(x, y), q), f) = Cat(x, s)
  <2>1. PICK h \in String : h = Cat(x, y)
    BY CatProps, Zenon
  <2>2. Cat(Cat(h, q), f) = Cat(h, g)
    <3>1. Cat(Cat(h, q), f) = Cat(h, Cat(q, f))
      BY CatAssoc, SMT
    <3> QED
      BY <1>3, <3>1, Zenon
  <2>3. Cat(Cat(x, y), g) = Cat(x, s)
    <3>1. Cat(Cat(x, y), g) = Cat(x, Cat(y, g))
      BY CatAssoc, SMT
    <3> QED
      BY <1>5, <3>1, Zenon
  <2> QED
    BY <2>1, <2>2, <2>3, Zenon
<1>8. PICK b : b = Cat(Cat(Cat(x, y), q), f)
  BY Zenon
<1>9. PICK e : e = Elements[b]
  BY Zenon
<1>10. /\ b \in String
       /\ e = <<Elem(t, v)>> \o (<<Elem(u, w)>> \o (<<Elem(r, z)>> \o <<Elem(o, a)>>))
  BY <1>1, <1>2, <1>3, <1>4, <1>5, <1>6, <1>7, <1>8, <1>9, Zenon
<1>11. /\ Len(e) = 4 /\ e[1] = Elem(t, v) /\ e[2] = Elem(u, w) /\ e[4] = Elem(o, a)
  <2>1. PICK m, n, i, k : m = Elem(t, v) /\ n = Elem(u, w) /\ i = Elem(r, z) /\ k = Elem(o, a)
    BY Zenon
  <2>2. e = <<m>> \o (<<n>> \o (<<i>> \o <<k>>))
    BY <1>10, <2>1, Zenon
  <2>3. Len(e) = 4 /\ e[1] = m /\ e[2] = n /\ e[4] = k
    BY <2>2, SMT
  <2> QED
    BY <2>1, <2>3, Zenon
<1> QED
  BY <1>1, <1>8, <1>9, <1>10, <1>11, Zenon

LEMMA PduRead ==
  ASSUME NEW id \in Int32, NEW bs \in Seq(VarBind), Size(Len(PduOctets(id, bs)))
  PROVE  LET pdu == Elements[PduOctets(id, bs)]
         IN /\ Len(pdu) = 4 /\ Size(Len(List(bs)))
            /\ pdu[1] = Elem(TagInteger, IntOctets(id)) /\ pdu[2] = Elem(TagInteger, IntOctets(0))
            /\ pdu[4] = Elem(TagSequence, List(bs))
<1>1. PICK i, z, l \in String :
        /\ i = IntOctets(id) /\ z = IntOctets(0) /\ l = List(bs) /\ Size(Len(i)) /\ Size(Len(z))
  BY IntTlvIs, SmallInts, ListWritten, Zenon
<1>2. PICK x, y, q \in String :
        x = Tlv(TagInteger, i) /\ y = Tlv(TagInteger, z) /\ q = Tlv(TagSequence, l)
  BY TlvLonger, TagOctets, Zenon
<1>3. PICK p : p = PduOctets(id, bs)
  BY Zenon
<1>4. p = Cat(Cat(Cat(x, y), y), q)
  BY <1>1, <1>2, <1>3, Zenon DEF PduOctets, IntTlv
<1>5. Size(Len(l))
  <2>1. PICK h \in String : h = Cat(Cat(x, y), y)
    <3>1. Cat(x, y) \in String
      BY CatProps, Zenon
    <3> QED
      BY <3>1, CatProps, Zenon
  <2>2. Size(Len(q))
    BY <1>3, <1>4, <2>1, CatSize, Zenon
  <2> QED
    BY <1>2, <2>2, TlvSize, TagOctets, Zenon
<1>6. /\ Len(Elements[p]) = 4
      /\ Elements[p][1] = Elem(TagInteger, i) /\ Elements[p][2] = Elem(TagInteger, z)
      /\ Elements[p][4] = Elem(TagSequence, l)
  <2>1. p = Cat(Cat(Cat(Tlv(TagInteger, i), Tlv(TagInteger, z)), Tlv(TagInteger, z)),
                Tlv(TagSequence, l))
    BY <1>2, <1>4, Zenon
  <2>2. PICK a, b \in Octet : a = TagInteger /\ b = TagSequence
    BY TagOctets, Zenon
  <2>3. PICK o : o = Cat(Cat(Cat(Tlv(a, i), Tlv(a, z)), Tlv(a, z)), Tlv(b, l))
    BY Zenon
  <2>4. /\ Len(Elements[o]) = 4 /\ Elements[o][1] = Elem(a, i) /\ Elements[o][2] = Elem(a, z)
        /\ Elements[o][4] = Elem(b, l)
    <3>1. /\ Size(Len(i)) /\ Size(Len(z)) /\ Size(Len(l))
      BY <1>1, <1>5, Zenon
    <3> HIDE <1>1, <1>2, <1>4, <1>5, <2>1, <2>2
    <3>2. LET e == Cat(Cat(Cat(Tlv(a, i), Tlv(a, z)), Tlv(a, z)), Tlv(b, l))
          IN /\ e \in String /\ Len(Elements[e]) = 4
             /\ Elements[e][1] = Elem(a, i) /\ Elements[e][2] = Elem(a, z)
             /\ Elements[e][4] = Elem(b, l)
      BY <3>1, ElementsOfFour, SMTT(30)
    <3> QED
      BY <2>3, <3>2, Zenon
  <2> QED
    BY <2>1, <2>2, <2>3, <2>4, Zenon
<1> QED
  BY <1>1, <1>3, <1>5, <1>6, Zenon

LEMMA MsgRead ==
  ASSUME NEW c \in String, NEW id \in Int32, NEW bs \in Seq(VarBind),
         Size(Len(MsgOctets(c, id, bs)))
  PROVE  LET msg == Elements[MsgOctets(c, id, bs)]
         IN /\ Len(msg) = 3 /\ Size(Len(PduOctets(id, bs)))
            /\ msg[2] = Elem(TagString, c)
            /\ msg[3] = Elem(GetResponse, PduOctets(id, bs))
<1>1. PICK i, p \in String : i = IntOctets(1) /\ p = PduOctets(id, bs) /\ Size(Len(i))
  BY IntTlvIs, SmallInts, Strung, Zenon
<1>2. PICK x, y, q \in String :
        x = Tlv(TagInteger, i) /\ y = Tlv(TagString, c) /\ q = Tlv(GetResponse, p)
  BY TlvLonger, TagOctets, Zenon
<1>3. PICK m : m = MsgOctets(c, id, bs)
  BY Zenon
<1>4. m = Cat(Cat(x, y), q)
  BY <1>1, <1>2, <1>3, Zenon DEF MsgOctets, IntTlv
<1>5. Size(Len(c)) /\ Size(Len(p))
  <2>1. PICK h \in String : h = Cat(x, y)
    BY CatProps, Zenon
  <2>2. Size(Len(h)) /\ Size(Len(q))
    BY <1>3, <1>4, <2>1, CatSize, Zenon
  <2>3. Size(Len(y))
    BY <2>1, <2>2, CatSize, Zenon
  <2> QED
    BY <1>2, <2>2, <2>3, TlvSize, TagOctets, Zenon
<1>6. /\ Len(Elements[m]) = 3
      /\ Elements[m][2] = Elem(TagString, c) /\ Elements[m][3] = Elem(GetResponse, p)
  <2>1. m = Cat(Cat(Tlv(TagInteger, i), Tlv(TagString, c)), Tlv(GetResponse, p))
    BY <1>2, <1>4, Zenon
  <2>2. PICK a, b, d \in Octet : a = TagInteger /\ b = TagString /\ d = GetResponse
    BY TagOctets, Zenon
  <2>3. PICK o : o = Cat(Cat(Tlv(a, i), Tlv(b, c)), Tlv(d, p))
    BY Zenon
  <2>4. /\ Len(Elements[o]) = 3 /\ Elements[o][2] = Elem(b, c) /\ Elements[o][3] = Elem(d, p)
    BY <1>1, <1>5, <2>3, ElementsOfThree, SMT
  <2> QED
    BY <2>1, <2>2, <2>3, <2>4, Zenon
<1> QED
  BY <1>1, <1>3, <1>5, <1>6, Zenon

\* What a response says.
Said(c, id, bs) ==
  [is |-> "response", community |-> Str(c), id |-> Num(id), status |-> Num(0), binds |-> bs]

LEMMA ResponseRead ==
  ASSUME NEW c \in String, NEW id \in Int32, NEW bs \in Seq(VarBind),
         Size(Len(MsgOctets(c, id, bs)))
  PROVE  Parse(Tlv(TagSequence, MsgOctets(c, id, bs))) = Said(c, id, bs)
<1>1. PICK m, p, l \in String : m = MsgOctets(c, id, bs) /\ p = PduOctets(id, bs) /\ l = List(bs)
  BY Strung, ListWritten, Zenon
<1>2. PICK data \in String : data = Tlv(TagSequence, m)
  BY TlvLonger, TagOctets, Zenon
<1>3. \A t, v : Elem(t, v).tag = t /\ Elem(t, v).value = v
  BY Zenon DEF Elem
<1>4. PICK outer : outer = Elements[data] /\ outer = <<Elem(TagSequence, m)>>
  BY <1>1, <1>2, ElementsOfOne, TagOctets, Zenon
<1>5. Len(outer) = 1 /\ outer[1].tag = TagSequence /\ outer[1].value = m
  <2>1. Len(outer) = 1 /\ outer[1] = Elem(TagSequence, m)
    BY <1>4
  <2>2. /\ Elem(TagSequence, m).tag = TagSequence /\ Elem(TagSequence, m).value = m
    BY <1>3, Zenon
  <2> QED
    BY <2>1, <2>2, Zenon
<1>6. PICK msg : /\ msg = Elements[m] /\ Len(msg) = 3 /\ Size(Len(p))
                 /\ msg[2] = Elem(TagString, c) /\ msg[3] = Elem(GetResponse, p)
  <2>1. /\ Len(Elements[MsgOctets(c, id, bs)]) = 3 /\ Size(Len(PduOctets(id, bs)))
        /\ Elements[MsgOctets(c, id, bs)][2] = Elem(TagString, c)
        /\ Elements[MsgOctets(c, id, bs)][3] = Elem(GetResponse, PduOctets(id, bs))
    BY MsgRead, Zenon
  <2> QED
    BY <1>1, <2>1, Zenon
<1>7. PICK pdu : /\ pdu = Elements[p] /\ Len(pdu) = 4 /\ Size(Len(l))
                 /\ pdu[1] = Elem(TagInteger, IntOctets(id)) /\ pdu[2] = Elem(TagInteger, IntOctets(0))
                 /\ pdu[4] = Elem(TagSequence, l)
  BY <1>1, <1>6, PduRead, Zenon
<1>8. PICK binds : /\ binds = Elements[l] /\ binds = BindElements(bs) /\ Left[l] = <<>>
                   /\ \A i \in 1 .. Len(bs) : Size(Len(BindOctets(bs[i])))
  BY <1>1, <1>7, ListRead, Zenon
<1>9. DOMAIN binds = 1 .. Len(bs) /\ DOMAIN bs = 1 .. Len(bs)
  <2>1. DOMAIN binds = 1 .. Len(bs)
    BY <1>8, Zenon DEF BindElements
  <2>2. DOMAIN bs = 1 .. Len(bs)
    OBVIOUS
  <2> QED
    BY <2>1, <2>2
<1>10. ASSUME NEW i \in 1 .. Len(bs)
       PROVE  Len(Elements[binds[i].value]) = 2 /\ DecodeBind(binds[i]) = bs[i]
  <2>1. bs[i] \in VarBind
    OBVIOUS
  <2>2. PICK vb \in VarBind : vb = bs[i] /\ Size(Len(BindOctets(vb)))
    BY <1>8, <2>1, Zenon
  <2>3. binds[i] = Elem(TagSequence, BindOctets(vb))
    BY <1>8, <2>2, Zenon DEF BindElements
  <2>4. binds[i].value = BindOctets(vb)
    <3>1. Elem(TagSequence, BindOctets(vb)).value = BindOctets(vb)
      BY <1>3, Zenon
    <3> QED
      BY <2>3, <3>1, Zenon
  <2> QED
    BY <2>2, <2>3, <2>4, BindRead, Zenon
<1>11. [i \in DOMAIN binds |-> DecodeBind(binds[i])] = bs
  <2>1. bs = [i \in 1 .. Len(bs) |-> bs[i]]
    OBVIOUS
  <2> QED
    BY <1>9, <1>10, <2>1, Zenon
<1>12. /\ DecodeValue(msg[2]) = Str(c) /\ DecodeValue(pdu[1]) = Num(id)
       /\ DecodeValue(pdu[2]) = Num(0)
  BY <1>6, <1>7, DecodeTags, IntTlvIs, SmallInts, Zenon
<1>13. /\ msg[3].tag = GetResponse /\ msg[3].value = p /\ pdu[4].value = l
  <2>1. Elem(GetResponse, p).tag = GetResponse /\ Elem(GetResponse, p).value = p
    BY <1>3, Zenon
  <2>2. Elem(TagSequence, l).value = l
    BY <1>3, Zenon
  <2> QED
    BY <1>6, <1>7, <2>1, <2>2, Zenon
<1>14. /\ ~(Len(outer) < 1) /\ ~(Len(msg) < 3) /\ ~(Len(pdu) < 4)
       /\ \A i \in DOMAIN binds : ~(Len(Elements[binds[i].value]) < 2)
  <2>1. ~(1 < 1) /\ ~(2 < 2) /\ ~(3 < 3) /\ ~(4 < 4)
    OBVIOUS
  <2> QED
    BY <1>5, <1>6, <1>7, <1>9, <1>10, <2>1, Zenon
<1>15. Parse(data) = Said(c, id, bs)
  <2>1. outer = Elements[data] /\ msg = Elements[outer[1].value] /\ pdu = Elements[msg[3].value]
        /\ l = pdu[4].value /\ binds = Elements[l]
    BY <1>4, <1>5, <1>6, <1>7, <1>8, <1>13, Zenon
  <2>2. outer[1].tag = TagSequence /\ msg[3].tag = GetResponse /\ Left[l] = <<>>
    BY <1>5, <1>8, <1>13, Zenon
  <2>3. Parse(data) =
          [is |-> "response", community |-> DecodeValue(msg[2]),
           id |-> DecodeValue(pdu[1]), status |-> DecodeValue(pdu[2]),
           binds |-> [i \in DOMAIN binds |-> DecodeBind(binds[i])]]
    BY <1>14, <2>1, <2>2, Zenon DEF Parse
  <2> QED
    BY <1>11, <1>12, <2>3, Zenon DEF Said
<1> QED
  BY <1>1, <1>2, <1>15, Zenon

LEMMA CutRefused ==
  ASSUME NEW m \in String, Size(Len(m)), NEW n \in Nat, n < Len(Tlv(TagSequence, m))
  PROVE  Parse(Slice(Tlv(TagSequence, m), 0, n)) = Refused
<1>1. PICK b : b = Slice(Tlv(TagSequence, m), 0, n)
  BY Zenon
<1>2. b \in String /\ ~Whole(b)
  BY <1>1, TlvCut, TagOctets, Zenon
<1>3. Elements[b] = <<>>
  BY <1>2, ElementsOfNone, Zenon
<1>4. Len(<<>>) < 1
  OBVIOUS
<1> QED
  BY <1>1, <1>3, <1>4, Zenon DEF Parse

\* Every sample response is read as what was written, and nothing is read of what
\* one was cut off to.
THEOREM RoundTrip == ResponsesRoundTrip
<1> SUFFICES ASSUME NEW r \in Responses
    PROVE  /\ Parse(BuildResponse(r)) = Said(r.community, r.id, r.binds)
           /\ \A n \in 0 .. Len(BuildResponse(r)) - 1 : Parse(Slice(BuildResponse(r), 0, n)) = Refused
  BY Zenon DEF ResponsesRoundTrip, Said
<1>1. /\ Communities \subseteq String /\ Ids \subseteq Int32
      /\ Binds \subseteq Seq(VarBind)
  <2>1. /\ Communities \subseteq Seq(Octet) /\ Ids \subseteq Int32
        /\ Binds \subseteq Seq([oid : Oids, val : Values])
    BY SamplesAssumption, Zenon
  <2> QED
    BY <2>1, Zenon DEF String, VarBind
<1>2. r.community \in Communities /\ r.id \in Ids /\ r.binds \in Binds
  BY DEF Responses
<1>3. PICK c \in String, id \in Int32, bs \in Seq(VarBind) :
        c = r.community /\ id = r.id /\ bs = r.binds
  BY <1>1, <1>2, Zenon
<1>4. PICK m \in String : m = MsgOctets(c, id, bs)
  BY Strung, Zenon
<1>5. PICK data \in String : data = Tlv(TagSequence, m) /\ Len(data) \in Nat
  BY TlvLonger, TagOctets, Zenon
<1>6. BuildResponse(r) = data
  BY <1>3, <1>4, <1>5, ResponseWritten, Zenon DEF BuildResponse
<1>7. Size(Len(data))
  <2>1. PICK k \in Nat : k = Len(data)
    BY <1>5, Zenon
  <2>2. k < 65536
    BY <1>6, <2>1, SamplesAssumption, SMT DEF DatagramLimit
  <2> QED
    BY <2>1, <2>2, SMT DEF Size
<1>8. Size(Len(m))
  BY <1>5, <1>7, TlvSize, TagOctets, Zenon
<1>9. Parse(data) = Said(c, id, bs)
  BY <1>4, <1>5, <1>8, ResponseRead, Zenon
<1>10. ASSUME NEW n \in 0 .. Len(data) - 1 PROVE Parse(Slice(data, 0, n)) = Refused
  <2>1. n \in Nat /\ n < Len(data)
    <3>1. PICK k \in Nat : k = Len(data)
      BY <1>5, Zenon
    <3>2. n \in 0 .. k - 1
      BY <3>1, Zenon
    <3>3. n \in Nat /\ n < k
      BY <3>2, SMT
    <3> QED
      BY <3>1, <3>3, Zenon
  <2> QED
    BY <1>5, <1>8, <2>1, CutRefused, Zenon
<1> QED
  BY <1>3, <1>6, <1>9, <1>10, Zenon

-----------------------------------------------------------------------------
(* The exchange.                                                           *)

\* The request in flight is the last one; a walk's asks for the row after the
\* last one read, and there is room for it.
InFlight ==
  waiting =>
    /\ asked # <<>>
    /\ walking => asked[Len(asked)] = [kind |-> "next", oid |-> Cursor] /\ Len(rows) < MaxRows
    /\ ~walking => asked[Len(asked)].kind = "get"

WalkOpen == walking => ~ended

\* Answers suit their requests, and an honest agent's are the next rows.
AnswersSuit ==
  \A i \in DOMAIN asked :
    told[i] # None =>
      /\ told[i] \in IF asked[i].kind = "get" THEN GetAnswer ELSE NextAnswer
      /\ honest /\ told[i].what = "row" => told[i].oid = asked[i].oid + 1

IInv ==
  /\ TypeOK /\ InFlight /\ WalkOpen /\ AnswersSuit
  /\ RowsWereAskedFor /\ RowsBeginTable /\ OutcomeIsOfItsRequest

-----------------------------------------------------------------------------
(* Answers and rows.                                                       *)

\* An answer that is a row has nothing but the row's number.
LEMMA RowAnswer ==
  ASSUME NEW a \in Answer, a.what = "row"
  PROVE  a \in [what : {"row"}, oid : Oid] /\ a = [what |-> "row", oid |-> a.oid] /\ a.oid \in Oid
<1>1. a \notin GetAnswer /\ a \notin [what : {"end", "error"}, oid : {0}]
  BY DEF GetAnswer
<1>2. a \in [what : {"row"}, oid : Oid]
  BY <1>1 DEF Answer, NextAnswer
<1> QED
  BY <1>2

LEMMA OidFacts ==
  ASSUME TypeOK
  PROVE  /\ Oid \subseteq Nat /\ 0 \in Oid /\ Row \subseteq Oid /\ size \in Nat
         /\ Len(rows) \in Nat /\ Len(asked) \in Nat
         /\ Cursor \in Oid
         /\ \A o \in Oid : InTable(o) => o \in Row
<1>1. /\ MaxSize \in Nat /\ size \in 1 .. MaxSize
      /\ rows \in Seq(Row) /\ asked \in Seq(Request)
  BY SizeAssumption DEF TypeOK, Row
<1>2. Oid \subseteq Nat /\ 0 \in Oid /\ Row \subseteq Oid
  BY <1>1 DEF Oid, Row
<1>3. Len(rows) \in Nat /\ Len(asked) \in Nat
  BY <1>1
<1>4. Cursor \in Oid
  <2>1. CASE rows = <<>>
    BY <1>2, <2>1 DEF Cursor
  <2>2. CASE rows # <<>>
    <3>1. Len(rows) \in 1 .. Len(rows)
      BY <1>1, <2>2, EmptySeq
    <3>2. rows[Len(rows)] \in Row
      BY <1>1, <3>1, ElementOfSeq
    <3> QED
      BY <1>2, <2>2, <3>2 DEF Cursor
  <2> QED
    BY <2>1, <2>2
<1>5. \A o \in Oid : InTable(o) => o \in Row
  BY <1>1, <1>2 DEF InTable, Row
<1> QED
  BY <1>1, <1>2, <1>3, <1>4, <1>5

\* What appending a row does to a result.
LEMMA AppendRow ==
  ASSUME TypeOK, NEW o \in Row, rows' = Append(rows, o)
  PROVE  /\ rows' \in Seq(Row) /\ Len(rows') = Len(rows) + 1
         /\ \A k \in DOMAIN rows : rows'[k] = rows[k] /\ Before(k)' = Before(k)
         /\ rows'[Len(rows')] = o
         /\ \A k \in Nat : k = Len(rows) + 1 => Before(k)' = Cursor
         /\ DOMAIN rows' = DOMAIN rows \cup {Len(rows')}
<1>1. rows \in Seq(Row) /\ Len(rows) \in Nat
  BY DEF TypeOK
<1>2. /\ rows' \in Seq(Row) /\ Len(rows') = Len(rows) + 1
      /\ \A k \in 1 .. Len(rows) : rows'[k] = rows[k]
      /\ rows'[Len(rows) + 1] = o
  BY <1>1, AppendProperties
<1>3. DOMAIN rows = 1 .. Len(rows) /\ DOMAIN rows' = 1 .. Len(rows) + 1
  BY <1>1, <1>2
<1>4. \A k \in DOMAIN rows : Before(k)' = Before(k)
  BY <1>1, <1>2, <1>3 DEF Before
<1>5. ASSUME NEW k \in Nat, k = Len(rows) + 1 PROVE Before(k)' = Cursor
  <2>1. CASE rows = <<>>
    <3>1. k = 1
      BY <1>5, <2>1, EmptySeq
    <3> QED
      BY <2>1, <3>1 DEF Before, Cursor
  <2>2. CASE rows # <<>>
    <3>1. Len(rows) \in 1 .. Len(rows) /\ k # 1 /\ k - 1 = Len(rows)
      BY <1>1, <1>5, <2>2, EmptySeq
    <3> QED
      BY <1>2, <2>2, <3>1 DEF Before, Cursor
  <2> QED
    BY <2>1, <2>2
<1> QED
  BY <1>1, <1>2, <1>3, <1>4, <1>5

-----------------------------------------------------------------------------
(* The invariant.                                                          *)

LEMMA InitOK == Init => IInv
<1> SUFFICES ASSUME Init PROVE IInv
  OBVIOUS
<1>1. Len(asked) = 0 /\ Len(rows) = 0 /\ asked = <<>> /\ told = <<>> /\ rows = <<>>
  BY EmptySeq DEF Init
<1>2. 0 \in 0 .. Retries /\ 0 <= MaxRows
  BY RetriesAssumption, RowsAssumption
<1>3. TypeOK
  BY <1>1, <1>2, EmptySeq DEF Init, TypeOK
<1>4. InFlight /\ WalkOpen /\ AnswersSuit
  BY <1>1 DEF Init, InFlight, WalkOpen, AnswersSuit
<1>5. RowsWereAskedFor /\ RowsBeginTable
  BY <1>1 DEF RowsWereAskedFor, RowsBeginTable
<1>6. OutcomeIsOfItsRequest
  BY NoneAssumption DEF Init, OutcomeIsOfItsRequest
<1> QED
  BY <1>3, <1>4, <1>5, <1>6 DEF IInv

\* What a request adds: none of the earlier ones changes, nor their answers.
LEMMA SendStep ==
  ASSUME TypeOK, NEW kind \in {"get", "next"}, NEW o \in Oid, Send(kind, o)
  PROVE  /\ asked' \in Seq(Request) /\ told' \in Seq(Answer \cup {None})
         /\ Len(told') = Len(asked')
         /\ Len(asked') = Len(asked) + 1 /\ asked' # <<>>
         /\ \A i \in DOMAIN asked : asked'[i] = asked[i] /\ told'[i] = told[i]
         /\ asked'[Len(asked')] = [kind |-> kind, oid |-> o] /\ told'[Len(asked')] = None
         /\ DOMAIN asked' = DOMAIN asked \cup {Len(asked')}
<1> DEFINE q == [kind |-> kind, oid |-> o]
<1>1. /\ asked \in Seq(Request) /\ told \in Seq(Answer \cup {None}) /\ q \in Request
      /\ Len(told) = Len(asked) /\ Len(asked) \in Nat
  BY DEF TypeOK, Request
<1>2. asked' = Append(asked, q) /\ told' = Append(told, None)
  BY DEF Send
<1> HIDE DEF q
<1>3. /\ asked' \in Seq(Request) /\ Len(asked') = Len(asked) + 1
      /\ \A i \in 1 .. Len(asked) : asked'[i] = asked[i]
      /\ asked'[Len(asked) + 1] = q
  BY <1>1, <1>2, AppendProperties
<1>4. /\ told' \in Seq(Answer \cup {None}) /\ Len(told') = Len(told) + 1
      /\ \A i \in 1 .. Len(told) : told'[i] = told[i]
      /\ told'[Len(told) + 1] = None
  BY <1>1, <1>2, AppendProperties
<1>5. asked' # <<>> /\ DOMAIN asked' = DOMAIN asked \cup {Len(asked')}
  BY <1>1, <1>3
<1> QED
  BY <1>1, <1>3, <1>4, <1>5 DEF q

\* A request leaves what was read, and the answers to the others.
LEMMA SendKeeps ==
  ASSUME IInv, NEW kind \in {"get", "next"}, NEW o \in Oid, Send(kind, o),
         UNCHANGED <<agent, outcome, table>>
  PROVE  TypeOK' /\ WalkOpen' /\ AnswersSuit' /\ RowsWereAskedFor' /\ RowsBeginTable'
<1>1. /\ asked' \in Seq(Request) /\ told' \in Seq(Answer \cup {None})
      /\ Len(told') = Len(asked')
      /\ \A i \in DOMAIN asked : asked'[i] = asked[i] /\ told'[i] = told[i]
      /\ asked'[Len(asked')] = [kind |-> kind, oid |-> o] /\ told'[Len(asked')] = None
      /\ DOMAIN asked' = DOMAIN asked \cup {Len(asked')}
  BY SendStep DEF IInv
<1>2. 0 \in 0 .. Retries
  BY RetriesAssumption
<1>3. TypeOK'
  BY <1>1, <1>2 DEF IInv, TypeOK, Send, agent, table
<1>4. AnswersSuit'
  BY <1>1 DEF IInv, AnswersSuit, agent
<1>5. RowsWereAskedFor'
  <2> SUFFICES ASSUME NEW k \in DOMAIN rows
               PROVE  \E i \in DOMAIN asked' :
                        /\ asked'[i] = [kind |-> "next", oid |-> Before(k)]
                        /\ told'[i] = [what |-> "row", oid |-> rows[k]]
    BY DEF RowsWereAskedFor, Before, table
  <2>1. PICK i \in DOMAIN asked : /\ asked[i] = [kind |-> "next", oid |-> Before(k)]
                                  /\ told[i] = [what |-> "row", oid |-> rows[k]]
    BY DEF IInv, RowsWereAskedFor
  <2> QED
    BY <1>1, <2>1
<1>6. WalkOpen' /\ RowsBeginTable'
  BY DEF IInv, WalkOpen, RowsBeginTable, agent, table
<1> QED
  BY <1>3, <1>4, <1>5, <1>6

LEMMA GetStep == ASSUME IInv, Get PROVE IInv'
<1>1. /\ Send("get", 0) /\ UNCHANGED <<agent, outcome, table>> /\ ~walking /\ 0 \in Oid
  BY OidFacts DEF Get, IInv
<1>2. TypeOK' /\ WalkOpen' /\ AnswersSuit' /\ RowsWereAskedFor' /\ RowsBeginTable'
  BY <1>1, SendKeeps
<1>3. asked' # <<>> /\ asked'[Len(asked')] = [kind |-> "get", oid |-> 0] /\ waiting' /\ ~walking'
  <2>1. asked' # <<>> /\ asked'[Len(asked')] = [kind |-> "get", oid |-> 0]
    BY <1>1, SendStep DEF IInv
  <2> QED
    BY <1>1, <2>1 DEF Send, table
<1>4. InFlight' /\ OutcomeIsOfItsRequest'
  BY <1>3 DEF InFlight, OutcomeIsOfItsRequest
<1> QED
  BY <1>2, <1>4 DEF IInv

\* The request of a walk for the next row is not a get.
LEMMA AskNextStep == ASSUME IInv, AskNext PROVE IInv'
<1>1. /\ Send("next", Cursor) /\ UNCHANGED <<agent, outcome, table>> /\ walking
      /\ Len(rows) < MaxRows /\ Cursor \in Oid
  BY OidFacts DEF AskNext, IInv
<1>2. TypeOK' /\ WalkOpen' /\ AnswersSuit' /\ RowsWereAskedFor' /\ RowsBeginTable'
  BY <1>1, SendKeeps
<1>3. /\ asked' # <<>> /\ asked'[Len(asked')] = [kind |-> "next", oid |-> Cursor]
      /\ \A i \in DOMAIN asked : asked'[i] = asked[i] /\ told'[i] = told[i]
      /\ DOMAIN asked' = DOMAIN asked \cup {Len(asked')}
  BY <1>1, SendStep DEF IInv
<1>4. Cursor' = Cursor /\ walking' = walking /\ Len(rows') = Len(rows)
  BY <1>1 DEF Cursor, table
<1>5. InFlight'
  BY <1>1, <1>3, <1>4 DEF InFlight
<1>6. OutcomeIsOfItsRequest'
  <2>1. Gets' = Gets
    <3>1. ASSUME NEW j PROVE j \in Gets' <=> j \in Gets
      <4>1. CASE j \in DOMAIN asked
        BY <1>3, <4>1 DEF Gets
      <4>2. CASE j \notin DOMAIN asked
        <5>1. j \in DOMAIN asked' => asked'[j] = [kind |-> "next", oid |-> Cursor]
          BY <1>3, <4>2
        <5>2. j \in DOMAIN asked' => asked'[j].kind # "get"
          BY <5>1
        <5> QED
          BY <4>2, <5>2 DEF Gets
      <4> QED
        BY <4>1, <4>2
    <3> QED
      BY <3>1
  <2> SUFFICES ASSUME outcome \in {"value", "none", "auth"}
               PROVE  \E i \in Gets' :
                        /\ \A j \in Gets' : j <= i
                        /\ told'[i] # None /\ Reported(told'[i].what) = outcome
    BY <1>1 DEF OutcomeIsOfItsRequest, Reported
  <2>2. PICK i \in Gets : /\ \A j \in Gets : j <= i
                          /\ told[i] # None /\ Reported(told[i].what) = outcome
    BY <1>1 DEF IInv, OutcomeIsOfItsRequest
  <2>3. told'[i] = told[i]
    BY <1>3, <2>2 DEF Gets
  <2> QED
    BY <2>1, <2>2, <2>3
<1> QED
  BY <1>2, <1>5, <1>6 DEF IInv

\* Nothing is asked, answered or read: what was asked, answered and read stands.
LEMMA QuietKeeps ==
  ASSUME IInv, UNCHANGED <<agent, asked, told, rows>>
  PROVE  AnswersSuit' /\ RowsWereAskedFor' /\ RowsBeginTable'
<1>1. AnswersSuit' /\ RowsBeginTable'
  BY DEF IInv, AnswersSuit, RowsBeginTable, agent
<1>2. RowsWereAskedFor'
  BY DEF IInv, RowsWereAskedFor, Before
<1> QED
  BY <1>1, <1>2

\* ... and so does what a get reported, unless it is one of a get.
LEMMA OutcomeKept ==
  ASSUME IInv, UNCHANGED <<asked, told, outcome>>, ~(waiting /\ ~walking)
  PROVE  OutcomeIsOfItsRequest'
<1> SUFFICES ASSUME outcome \in {"value", "none", "auth"}
             PROVE  \E i \in Gets' :
                      /\ \A j \in Gets' : j <= i
                      /\ told'[i] # None /\ Reported(told'[i].what) = outcome
  BY DEF OutcomeIsOfItsRequest, Reported
<1>1. Gets' = Gets
  BY DEF Gets
<1> QED
  BY <1>1 DEF IInv, OutcomeIsOfItsRequest

LEMMA BeginWalkStep == ASSUME IInv, BeginWalk PROVE IInv'
<1>1. AnswersSuit' /\ RowsWereAskedFor' /\ RowsBeginTable' /\ OutcomeIsOfItsRequest'
  BY QuietKeeps, OutcomeKept DEF BeginWalk
<1>2. TypeOK' /\ InFlight' /\ WalkOpen'
  BY DEF IInv, TypeOK, InFlight, WalkOpen, BeginWalk, agent
<1> QED
  BY <1>1, <1>2 DEF IInv

\* The end of a walk, with or without a request in flight.
LEMMA WalkEndsStep ==
  ASSUME IInv, WalkEnds, walking, ~waiting', waiting' \in BOOLEAN, attempt' = attempt,
         UNCHANGED <<agent, asked, told, outcome>>
  PROVE  IInv'
<1>1. AnswersSuit' /\ RowsWereAskedFor' /\ RowsBeginTable' /\ OutcomeIsOfItsRequest'
  BY QuietKeeps, OutcomeKept DEF WalkEnds
<1>2. TypeOK' /\ InFlight' /\ WalkOpen'
  BY DEF IInv, TypeOK, InFlight, WalkOpen, WalkEnds, agent
<1> QED
  BY <1>1, <1>2 DEF IInv

LEMMA ResendStep == ASSUME IInv, Resend PROVE IInv'
<1>1. AnswersSuit' /\ RowsWereAskedFor' /\ RowsBeginTable'
  BY QuietKeeps DEF Resend, table
<1>2. attempt' \in 0 .. Retries
  BY RetriesAssumption DEF IInv, TypeOK, Resend
<1>3. TypeOK' /\ WalkOpen'
  BY <1>2 DEF IInv, TypeOK, WalkOpen, Resend, agent, table
<1>4. InFlight' /\ OutcomeIsOfItsRequest'
  BY DEF IInv, InFlight, OutcomeIsOfItsRequest, Cursor, Gets, Reported, Resend, table
<1> QED
  BY <1>1, <1>3, <1>4 DEF IInv

LEMMA GiveUpStep == ASSUME IInv, GiveUp PROVE IInv'
<1>1. CASE walking
  BY <1>1, WalkEndsStep DEF GiveUp
<1>2. CASE ~walking
  <2>1. /\ outcome' \in {"timeout", "error"} /\ waiting' = FALSE
        /\ UNCHANGED <<agent, asked, told, attempt, table>>
    BY <1>2 DEF GiveUp
  <2>2. AnswersSuit' /\ RowsWereAskedFor' /\ RowsBeginTable'
    BY <2>1, QuietKeeps DEF table
  <2>3. TypeOK' /\ InFlight' /\ WalkOpen'
    BY <2>1 DEF IInv, TypeOK, InFlight, WalkOpen, agent, table
  <2>4. OutcomeIsOfItsRequest'
    BY <2>1 DEF OutcomeIsOfItsRequest
  <2> QED
    BY <2>2, <2>3, <2>4 DEF IInv
<1> QED
  BY <1>1, <1>2

\* What has been answered is an answer; the last request's is of its kind.
LEMMA ArrivedFacts ==
  ASSUME IInv, NEW i \in DOMAIN asked, NEW what, Arrives(i, what)
  PROVE  /\ i = Len(asked) /\ told[i] \in Answer /\ told[i].what \in what
         /\ told[i] \in IF asked[i].kind = "get" THEN GetAnswer ELSE NextAnswer
         /\ waiting /\ waiting' = FALSE
<1>1. i = Len(asked) /\ waiting /\ waiting' = FALSE /\ told[i] # None /\ told[i].what \in what
  BY DEF Arrives, Matches, Current
<1>2. told[i] \in IF asked[i].kind = "get" THEN GetAnswer ELSE NextAnswer
  BY <1>1 DEF IInv, AnswersSuit
<1>3. told[i] \in Answer
  BY <1>2 DEF Answer
<1> QED
  BY <1>1, <1>2, <1>3

LEMMA GetAnsweredStep ==
  ASSUME IInv, NEW i \in DOMAIN asked, GetAnswered(i)
  PROVE  IInv'
<1>1. /\ i = Len(asked) /\ told[i] \in Answer /\ waiting /\ waiting' = FALSE
      /\ told[i].what \in {"value", "missing", "noSuchName", "auth", "error"}
      /\ ~walking
  BY ArrivedFacts DEF GetAnswered
<1>2. /\ outcome' = Reported(told[i].what)
      /\ UNCHANGED <<agent, asked, told, attempt, table>>
  BY DEF GetAnswered, Reported
<1>3. outcome' \in {"value", "none", "auth", "error"}
  BY <1>1, <1>2 DEF Reported
<1>4. AnswersSuit' /\ RowsWereAskedFor' /\ RowsBeginTable'
  BY <1>2, QuietKeeps DEF table
<1>5. TypeOK' /\ InFlight' /\ WalkOpen'
  BY <1>1, <1>2, <1>3 DEF IInv, TypeOK, InFlight, WalkOpen, agent, table
<1>6. OutcomeIsOfItsRequest'
  <2>1. i \in Gets /\ \A j \in Gets : j <= i
    BY <1>1 DEF IInv, InFlight, Gets, TypeOK
  <2>2. told[i] # None
    BY <1>1, NoneAssumption
  <2>3. Gets' = Gets
    BY <1>2 DEF Gets
  <2> QED
    BY <1>2, <2>1, <2>2, <2>3 DEF OutcomeIsOfItsRequest, Reported
<1> QED
  BY <1>4, <1>5, <1>6 DEF IInv

\* The row that is accepted is the answer to the request for the one after
\* the last.
LEMMA RowReceivedFacts ==
  ASSUME IInv, NEW i \in DOMAIN asked, RowReceived(i)
  PROVE  /\ asked[i] = [kind |-> "next", oid |-> Cursor]
         /\ told[i] = [what |-> "row", oid |-> told[i].oid]
         /\ told[i].oid \in Row /\ told[i].oid > Cursor
         /\ honest => told[i].oid = Cursor + 1
         /\ Len(rows) < MaxRows
         /\ rows' = Append(rows, told[i].oid)
         /\ waiting' = FALSE /\ walking
         /\ UNCHANGED <<agent, asked, told, attempt, outcome, walking, ended>>
<1>1. /\ i = Len(asked) /\ told[i] \in Answer /\ told[i].what = "row"
      /\ waiting /\ waiting' = FALSE /\ walking
      /\ told[i].oid > Cursor /\ InTable(told[i].oid)
      /\ rows' = Append(rows, told[i].oid)
      /\ UNCHANGED <<agent, asked, told, attempt, outcome, walking, ended>>
  <2>1. /\ Arrives(i, {"row"}) /\ walking /\ Accepted(told[i].oid)
        /\ rows' = Append(rows, told[i].oid)
        /\ UNCHANGED <<agent, asked, told, attempt, outcome, walking, ended>>
    BY DEF RowReceived
  <2>2. /\ i = Len(asked) /\ told[i] \in Answer /\ told[i].what \in {"row"}
        /\ waiting /\ waiting' = FALSE
    BY <2>1, ArrivedFacts
  <2> QED
    BY <2>1, <2>2 DEF Accepted
<1>2. told[i] = [what |-> "row", oid |-> told[i].oid] /\ told[i].oid \in Oid
  BY <1>1, RowAnswer
<1>3. told[i].oid \in Row
  BY <1>1, <1>2, OidFacts DEF IInv
<1>4. asked[i] = [kind |-> "next", oid |-> Cursor] /\ Len(rows) < MaxRows
  BY <1>1 DEF IInv, InFlight
<1>5. told[i] # None
  BY <1>1, NoneAssumption
<1>6. honest => told[i].oid = Cursor + 1
  BY <1>1, <1>4, <1>5 DEF IInv, AnswersSuit
<1> QED
  BY <1>1, <1>2, <1>3, <1>4, <1>6

LEMMA RowReceivedStep ==
  ASSUME IInv, NEW i \in DOMAIN asked, RowReceived(i)
  PROVE  IInv'
<1> DEFINE o == told[i].oid
<1>1. /\ asked[i] = [kind |-> "next", oid |-> Cursor]
      /\ told[i] = [what |-> "row", oid |-> o]
      /\ o \in Row /\ (honest => o = Cursor + 1)
      /\ Len(rows) < MaxRows /\ rows' = Append(rows, o)
      /\ waiting' = FALSE /\ walking
      /\ UNCHANGED <<agent, asked, told, attempt, outcome, walking, ended>>
  BY RowReceivedFacts
<1> HIDE DEF o
<1>2. /\ rows' \in Seq(Row) /\ Len(rows') = Len(rows) + 1
      /\ \A k \in DOMAIN rows : rows'[k] = rows[k] /\ Before(k)' = Before(k)
      /\ rows'[Len(rows')] = o
      /\ \A k \in Nat : k = Len(rows) + 1 => Before(k)' = Cursor
      /\ DOMAIN rows' = DOMAIN rows \cup {Len(rows')}
  BY <1>1, AppendRow DEF IInv
<1>3. Len(rows) \in Nat /\ DOMAIN rows = 1 .. Len(rows) /\ Len(rows') <= MaxRows
  BY <1>1, <1>2, RowsAssumption DEF IInv, TypeOK
<1>4. TypeOK' /\ InFlight' /\ WalkOpen'
  BY <1>1, <1>2, <1>3 DEF IInv, TypeOK, InFlight, WalkOpen, agent
<1>5. AnswersSuit' /\ OutcomeIsOfItsRequest'
  BY <1>1, OutcomeKept DEF IInv, AnswersSuit, agent
<1>6. RowsWereAskedFor'
  <2> SUFFICES ASSUME NEW k \in DOMAIN rows'
               PROVE  \E j \in DOMAIN asked :
                        /\ asked[j] = [kind |-> "next", oid |-> Before(k)']
                        /\ told[j] = [what |-> "row", oid |-> rows'[k]]
    BY <1>1 DEF RowsWereAskedFor
  <2>1. CASE k \in DOMAIN rows
    BY <1>2, <2>1 DEF IInv, RowsWereAskedFor
  <2>2. CASE k = Len(rows')
    <3>1. Before(k)' = Cursor /\ rows'[k] = o
      BY <1>2, <1>3, <2>2
    <3> QED
      BY <1>1, <3>1
  <2> QED
    BY <1>2, <2>1, <2>2
<1>7. RowsBeginTable'
  <2> SUFFICES ASSUME honest, NEW k \in DOMAIN rows' PROVE rows'[k] = k
    BY <1>1 DEF RowsBeginTable, agent
  <2>1. CASE k \in DOMAIN rows
    BY <1>2, <2>1 DEF IInv, RowsBeginTable
  <2>2. CASE k = Len(rows')
    <3>1. Cursor = Len(rows)
      <4>1. CASE rows = <<>>
        BY <4>1, EmptySeq DEF Cursor
      <4>2. CASE rows # <<>>
        <5>1. Len(rows) \in DOMAIN rows
          BY <1>3, <4>2, EmptySeq DEF IInv, TypeOK
        <5> QED
          BY <4>2, <5>1 DEF Cursor, IInv, RowsBeginTable
      <4> QED
        BY <4>1, <4>2
    <3> QED
      BY <1>1, <1>2, <2>2, <3>1
  <2> QED
    BY <1>2, <2>1, <2>2
<1> QED
  BY <1>4, <1>5, <1>6, <1>7 DEF IInv

LEMMA LastReceivedStep ==
  ASSUME IInv, NEW i \in DOMAIN asked, LastReceived(i)
  PROVE  IInv'
BY WalkEndsStep DEF LastReceived, Arrives

\* An answer is given once, and to its own request.
LEMMA AgentAnswersStep ==
  ASSUME IInv, NEW i \in DOMAIN asked, AgentAnswers(i)
  PROVE  IInv'
<1>1. PICK a \in Answers(asked[i]) : told' = [told EXCEPT ![i] = a]
  BY DEF AgentAnswers
<1>2. /\ told[i] = None
      /\ UNCHANGED <<agent, asked, waiting, attempt, outcome, table>>
  BY DEF AgentAnswers
<1>3. /\ asked \in Seq(Request) /\ told \in Seq(Answer \cup {None}) /\ Len(told) = Len(asked)
      /\ i \in 1 .. Len(told) /\ asked[i] \in Request
  BY ElementOfSeq DEF IInv, TypeOK
<1>4. /\ a \in Answer
      /\ a \in IF asked[i].kind = "get" THEN GetAnswer ELSE NextAnswer
      /\ honest /\ a.what = "row" => a.oid = asked[i].oid + 1
  <2>1. CASE asked[i].kind = "get"
    BY <1>1, <2>1 DEF Answers, Answer, GetAnswer
  <2>2. CASE asked[i].kind # "get"
    BY <1>1, <2>2 DEF Answers, Answer
  <2> QED
    BY <2>1, <2>2
<1>5. /\ told' \in Seq(Answer \cup {None}) /\ Len(told') = Len(told)
      /\ \A j \in 1 .. Len(told) : told'[j] = IF j = i THEN a ELSE told[j]
  BY <1>1, <1>3, <1>4, ExceptSeq
<1>6. \A j \in DOMAIN asked : told[j] # None => told'[j] = told[j]
  BY <1>2, <1>3, <1>5
<1>7. TypeOK'
  BY <1>2, <1>5 DEF IInv, TypeOK, agent, table
<1>8. InFlight' /\ WalkOpen' /\ RowsBeginTable'
  BY <1>2 DEF IInv, InFlight, WalkOpen, RowsBeginTable, Cursor, agent, table
<1>9. AnswersSuit'
  BY <1>2, <1>3, <1>4, <1>5 DEF IInv, AnswersSuit, agent
<1>10. RowsWereAskedFor'
  <2> SUFFICES ASSUME NEW k \in DOMAIN rows
               PROVE  \E j \in DOMAIN asked :
                        /\ asked[j] = [kind |-> "next", oid |-> Before(k)]
                        /\ told'[j] = [what |-> "row", oid |-> rows[k]]
    BY <1>2 DEF RowsWereAskedFor, Before, table
  <2>1. PICK j \in DOMAIN asked : /\ asked[j] = [kind |-> "next", oid |-> Before(k)]
                                  /\ told[j] = [what |-> "row", oid |-> rows[k]]
    BY DEF IInv, RowsWereAskedFor
  <2>2. told[j] # None
    <3>1. told[j].what = "row" /\ told[j] \in Answer \cup {None}
      BY <1>3, <2>1, ElementOfSeq
    <3>2. [what |-> "row", oid |-> rows[k]] \in NextAnswer
      <4>1. rows[k] \in Oid
        BY OidFacts, ElementOfSeq DEF IInv, TypeOK
      <4> QED
        BY <4>1 DEF NextAnswer
    <3> QED
      BY <2>1, <3>2, NoneAssumption DEF Answer
  <2> QED
    BY <1>6, <2>1, <2>2
<1>11. OutcomeIsOfItsRequest'
  <2> SUFFICES ASSUME outcome \in {"value", "none", "auth"}, ~(waiting /\ ~walking)
               PROVE  \E j \in Gets :
                        /\ \A g \in Gets : g <= j
                        /\ told'[j] # None /\ Reported(told'[j].what) = outcome
    BY <1>2 DEF OutcomeIsOfItsRequest, Reported, Gets, table
  <2>1. PICK j \in Gets : /\ \A g \in Gets : g <= j
                          /\ told[j] # None /\ Reported(told[j].what) = outcome
    BY DEF IInv, OutcomeIsOfItsRequest
  <2> QED
    BY <1>6, <2>1 DEF Gets
<1> QED
  BY <1>7, <1>8, <1>9, <1>10, <1>11 DEF IInv

LEMMA NextStep == IInv /\ [Next]_vars => IInv'
<1> SUFFICES ASSUME IInv, [Next]_vars PROVE IInv'
  OBVIOUS
<1>1. CASE Get
  BY <1>1, GetStep
<1>2. CASE BeginWalk
  BY <1>2, BeginWalkStep
<1>3. CASE AskNext
  BY <1>3, AskNextStep
<1>4. CASE RowLimit
  BY <1>4, WalkEndsStep DEF RowLimit, IInv, TypeOK
<1>5. CASE Resend
  BY <1>5, ResendStep
<1>6. CASE GiveUp
  BY <1>6, GiveUpStep
<1>7. CASE Receive
  BY <1>7, GetAnsweredStep, RowReceivedStep, LastReceivedStep DEF Receive
<1>8. CASE \E i \in DOMAIN asked : AgentAnswers(i)
  BY <1>8, AgentAnswersStep
<1>9. CASE UNCHANGED vars
  <2>1. AnswersSuit' /\ RowsWereAskedFor' /\ RowsBeginTable'
    BY <1>9, QuietKeeps DEF vars, table
  <2>2. TypeOK' /\ InFlight' /\ WalkOpen'
    BY <1>9 DEF IInv, TypeOK, InFlight, WalkOpen, Cursor, vars, agent, table
  <2>3. OutcomeIsOfItsRequest'
    BY <1>9 DEF IInv, OutcomeIsOfItsRequest, Gets, Reported, vars, table
  <2> QED
    BY <2>1, <2>2, <2>3 DEF IInv
<1> QED
  BY <1>1, <1>2, <1>3, <1>4, <1>5, <1>6, <1>7, <1>8, <1>9 DEF Next

\* The invariant holds of every state of the exchange.
THEOREM Invariant == Spec => []IInv
BY InitOK, NextStep, PTL DEF Spec

-----------------------------------------------------------------------------
(* The properties.                                                         *)

\* Types, whatever the network loses or repeats.
THEOREM TypeCorrect == Spec => []TypeOK
<1>1. IInv => TypeOK
  BY DEF IInv
<1> QED
  BY <1>1, Invariant, PTL

\* A result has only rows that were asked for (SnmpClient.walk and the check
\* of the request's number in _send_recv).
THEOREM RowsWereAskedForHolds == Spec => []RowsWereAskedFor
<1>1. IInv => RowsWereAskedFor
  BY DEF IInv
<1> QED
  BY <1>1, Invariant, PTL

\* A result of an agent that keeps to the protocol is the table's beginning
\* (SnmpClient.walk asks for the row after the last one).
THEOREM RowsBeginTableHolds == Spec => []RowsBeginTable
<1>1. IInv => RowsBeginTable
  BY DEF IInv
<1> QED
  BY <1>1, Invariant, PTL

\* A get reports what the agent answered to it (SnmpClient.get, _send_recv).
THEOREM OutcomeIsOfItsRequestHolds == Spec => []OutcomeIsOfItsRequest
<1>1. IInv => OutcomeIsOfItsRequest
  BY DEF IInv
<1> QED
  BY <1>1, Invariant, PTL

-----------------------------------------------------------------------------
(* Reading a table implements TableRead.                                   *)

LEMMA InitRefines == Init => Promise!Init
BY DEF Init, Promise!Init

\* A row received is one more of the promise's rows.
LEMMA RowReceivedRefines ==
  ASSUME IInv, NEW i \in DOMAIN asked, RowReceived(i)
  PROVE  Promise!More
<1>1. /\ told[i].oid \in Row /\ told[i].oid > Cursor
      /\ Len(rows) < MaxRows /\ rows' = Append(rows, told[i].oid)
      /\ walking /\ ended' = ended
  BY RowReceivedFacts
<1>2. ~ended /\ ended' \in BOOLEAN
  BY <1>1 DEF IInv, WalkOpen, TypeOK
<1>3. rows # <<>> => rows[Len(rows)] < told[i].oid
  <2> SUFFICES ASSUME rows # <<>> PROVE rows[Len(rows)] < told[i].oid
    OBVIOUS
  <2>1. Cursor = rows[Len(rows)] /\ Cursor \in Nat /\ told[i].oid \in Nat
    BY <1>1, OidFacts DEF Cursor, IInv
  <2> QED
    BY <1>1, <2>1
<1> QED
  BY <1>1, <1>2, <1>3 DEF Promise!More

\* The end of a walk is the promise's end.
LEMMA WalkEndsRefines ==
  ASSUME IInv, walking, WalkEnds
  PROVE  Promise!End
BY DEF IInv, WalkOpen, WalkEnds, Promise!End

LEMMA NextRefines == IInv /\ [Next]_vars => [Promise!Next]_(Promise!vars)
<1> SUFFICES ASSUME IInv, [Next]_vars PROVE Promise!Next \/ UNCHANGED <<rows, ended>>
  BY DEF Promise!vars
<1>1. CASE Get \/ BeginWalk \/ AskNext \/ Resend
  BY <1>1 DEF Get, BeginWalk, AskNext, Resend, table
<1>2. CASE RowLimit
  BY <1>2, WalkEndsRefines DEF RowLimit, Promise!Next
<1>3. CASE GiveUp
  BY <1>3, WalkEndsRefines DEF GiveUp, table, Promise!Next
<1>4. CASE Receive
  <2>1. PICK i \in DOMAIN asked : GetAnswered(i) \/ RowReceived(i) \/ LastReceived(i)
    BY <1>4 DEF Receive
  <2>2. CASE GetAnswered(i)
    BY <2>2 DEF GetAnswered, table
  <2>3. CASE RowReceived(i)
    BY <2>3, RowReceivedRefines DEF Promise!Next
  <2>4. CASE LastReceived(i)
    BY <2>4, WalkEndsRefines DEF LastReceived, Promise!Next
  <2> QED
    BY <2>1, <2>2, <2>3, <2>4
<1>5. CASE \E i \in DOMAIN asked : AgentAnswers(i)
  BY <1>5 DEF AgentAnswers, table
<1>6. CASE UNCHANGED vars
  BY <1>6 DEF vars, table
<1> QED
  BY <1>1, <1>2, <1>3, <1>4, <1>5, <1>6 DEF Next

\* Reading a table keeps the promise of TableRead (SnmpClient.walk): rows of
\* the table in ascending order, no more than the limit, and an end that stands.
THEOREM ReadPromiseHolds == Spec => ReadPromise
BY InitRefines, NextRefines, Invariant, PTL DEF Spec, ReadPromise, Promise!Spec

-----------------------------------------------------------------------------
(* What an answer says.                                                    *)

\* Whatever responses of the size of a datagram are sent, a client that waits for
\* one reads it as what was written, and nothing that was cut off (snmp_pdu.py:
\* build_snmp_request and parse_snmp_response).
THEOREM AnswersRead == Spec => []AnswersAreRead
<1>1. AnswersAreRead
  BY RoundTrip DEF AnswersAreRead
<1> QED
  BY <1>1, PTL
====
