-------------------------- MODULE FrameFormats_proofs --------------------------
(***************************************************************************)
(* Every frame is read as the facts that were built into it, and a part of *)
(* one that was cut off says nothing that the whole frame does not.        *)
(*                                                                         *)
(* A body is a string of items, and a parser finds those items again       *)
(* (ItemsRead); of a body that was cut off it finds the first of them.     *)
(* Items of different types set different fields, so that a field is what  *)
(* its item says or, where the item is missing, what it is by default.     *)
(***************************************************************************)
EXTENDS FrameFormats, Octets_proofs

-----------------------------------------------------------------------------
(* How the parsers go on from one TLV to the next.                         *)

Tlvs == [type : Nat, value : String]

LldpEnd(b) == 2 + LldpLength(b)
LldpStops(b) == Len(b) < 2 \/ Cut(b, LldpEnd(b)) \/ b[1] \div 2 = 0
LldpItem(b) == [type |-> b[1] \div 2, value |-> Slice(b, 2, LldpEnd(b))]
LldpStep(f, b) == IF LldpStops(b) THEN <<>> ELSE <<LldpItem(b)>> \o f[Rest(b, LldpEnd(b))]

LEMMA LldpParts ==
  ASSUME NEW b \in String, ~LldpStops(b)
  PROVE  LldpEnd(b) \in Nat /\ 1 <= LldpEnd(b) /\ LldpEnd(b) <= Len(b) /\ LldpItem(b) \in Tlvs
<1>1. Len(b) \in Nat
  BY CatProps, Zenon
<1>2. PICK n \in Nat : n = Number[Slice(b, 0, 2)]
  <2>1. 0 \in Nat /\ 2 \in Nat
    OBVIOUS
  <2> QED
    BY <2>1, SliceString, NumberIs, Zenon
<1>3. PICK end \in Nat : end = LldpEnd(b) /\ 2 <= end
  <2>1. 2 + (n % 512) \in Nat /\ 2 <= 2 + (n % 512)
    OBVIOUS
  <2> QED
    BY <1>2, <2>1, Zenon DEF LldpEnd, LldpLength
<1>4. ~(Len(b) < 2) /\ ~(Len(b) < end)
  BY <1>3, Zenon DEF LldpStops, Cut
<1>5. PICK o \in Nat : o = b[1]
  <2>1. 1 \in Nat /\ 1 <= 1 /\ 1 <= Len(b)
    BY <1>1, <1>4, SMT
  <2> QED
    BY <2>1, OctetAt, Zenon
<1>6. o \div 2 \in Nat
  BY SMT
<1>7. Slice(b, 2, end) \in String
  <2>1. 2 \in Nat
    OBVIOUS
  <2> QED
    BY <2>1, SliceString, Zenon
<1>8. LldpItem(b) \in Tlvs
  BY <1>3, <1>5, <1>6, <1>7, Zenon DEF LldpItem, Tlvs
<1>9. 1 <= end /\ end <= Len(b)
  BY <1>1, <1>3, <1>4, SMT
<1> QED
  BY <1>3, <1>8, <1>9, Zenon

LEMMA LldpTlvsUnfold ==
  ASSUME NEW b \in String
  PROVE  LldpTlvs[b] = LldpStep(LldpTlvs, b)
<1> DEFINE T == Tlvs
           size == [c \in String |-> Len(c)]
           stop == {c \in String : LldpStops(c)}
           next == [c \in String |-> IF LldpStops(c) THEN c ELSE Rest(c, LldpEnd(c))]
           item == [c \in String |-> IF LldpStops(c) THEN <<>> ELSE <<LldpItem(c)>>]
<1>1. Shrinks(String, size, stop, next)
  <2>1. ASSUME NEW c \in String
        PROVE  /\ Len(c) \in Nat
               /\ ~LldpStops(c) => /\ Rest(c, LldpEnd(c)) \in String
                                    /\ Len(Rest(c, LldpEnd(c))) < Len(c)
    <3>1. Len(c) \in Nat
      BY CatProps, Zenon
    <3> QED
      BY <3>1, LldpParts, RestShrinks, Zenon
  <2> QED
    BY <2>1, SMT DEF Shrinks
<1>2. item \in [String -> Seq(T)]
  <2>1. <<>> \in Seq(T)
    OBVIOUS
  <2>2. ASSUME NEW c \in String, ~LldpStops(c) PROVE <<LldpItem(c)>> \in Seq(T)
    <3>1. PICK e \in T : e = LldpItem(c)
      BY <2>2, LldpParts, Zenon
    <3>2. <<e>> \in Seq(T)
      OBVIOUS
    <3> QED
      BY <3>1, <3>2, Zenon
  <2> HIDE DEF T
  <2> QED
    BY <2>1, <2>2, Zenon
<1>3. PICK f \in [String -> Seq(T)] : Collects(f, String, stop, next, item)
  <2> HIDE DEF size, stop, next, item, T
  <2> QED
    BY <1>1, <1>2, ListRecursion, Zenon
<1>4. ASSUME NEW c \in String PROVE f[c] = LldpStep(f, c)
  <2>1. CASE LldpStops(c)
    BY <1>3, <2>1, Zenon DEF LldpStep, Collects
  <2>2. CASE ~LldpStops(c)
    BY <1>3, <2>2, Zenon DEF LldpStep, Collects
  <2> QED
    BY <2>1, <2>2, Zenon
<1>5. f = [c \in Seq(Octet) |-> LldpStep(f, c)]
  <2>1. f = [c \in String |-> f[c]]
    <3> HIDE DEF T
    <3> QED
      BY <1>3, Zenon
  <2> QED
    BY <1>4, <2>1, Zenon DEF String
<1>6. LldpTlvs = [c \in Seq(Octet) |-> LldpStep(LldpTlvs, c)]
  BY <1>5, Zenon DEF LldpTlvs, LldpStep, LldpStops, LldpItem, LldpEnd
<1> QED
  BY <1>6, Zenon DEF String

CdpEnd(b) == Number[Slice(b, 2, 4)]
CdpStops(b) == Len(b) < 4 \/ CdpEnd(b) < 4 \/ Cut(b, CdpEnd(b))
CdpItem(b) == [type |-> Number[Slice(b, 0, 2)], value |-> Slice(b, 4, CdpEnd(b))]
CdpStep(f, b) == IF CdpStops(b) THEN <<>> ELSE <<CdpItem(b)>> \o f[Rest(b, CdpEnd(b))]

LEMMA CdpParts ==
  ASSUME NEW b \in String, ~CdpStops(b)
  PROVE  CdpEnd(b) \in Nat /\ 1 <= CdpEnd(b) /\ CdpEnd(b) <= Len(b) /\ CdpItem(b) \in Tlvs
<1>1. Len(b) \in Nat
  BY CatProps, Zenon
<1>2. 0 \in Nat /\ 2 \in Nat /\ 4 \in Nat
  OBVIOUS
<1>3. PICK n, end \in Nat : n = Number[Slice(b, 0, 2)] /\ end = CdpEnd(b)
  BY <1>2, SliceString, NumberIs, Zenon DEF CdpEnd
<1>4. ~(end < 4) /\ ~(Len(b) < end)
  BY <1>3, Zenon DEF CdpStops, Cut
<1>5. Slice(b, 4, end) \in String
  BY <1>2, SliceString, Zenon
<1>6. CdpItem(b) \in Tlvs
  BY <1>3, <1>5, Zenon DEF CdpItem, Tlvs
<1>7. 1 <= end /\ end <= Len(b)
  BY <1>1, <1>4, SMT
<1> QED
  BY <1>3, <1>6, <1>7, Zenon

LEMMA CdpTlvsUnfold ==
  ASSUME NEW b \in String
  PROVE  CdpTlvs[b] = CdpStep(CdpTlvs, b)
<1> DEFINE T == Tlvs
           size == [c \in String |-> Len(c)]
           stop == {c \in String : CdpStops(c)}
           next == [c \in String |-> IF CdpStops(c) THEN c ELSE Rest(c, CdpEnd(c))]
           item == [c \in String |-> IF CdpStops(c) THEN <<>> ELSE <<CdpItem(c)>>]
<1>1. Shrinks(String, size, stop, next)
  <2>1. ASSUME NEW c \in String
        PROVE  /\ Len(c) \in Nat
               /\ ~CdpStops(c) => /\ Rest(c, CdpEnd(c)) \in String
                                    /\ Len(Rest(c, CdpEnd(c))) < Len(c)
    <3>1. Len(c) \in Nat
      BY CatProps, Zenon
    <3> QED
      BY <3>1, CdpParts, RestShrinks, Zenon
  <2> QED
    BY <2>1, SMT DEF Shrinks
<1>2. item \in [String -> Seq(T)]
  <2>1. <<>> \in Seq(T)
    OBVIOUS
  <2>2. ASSUME NEW c \in String, ~CdpStops(c) PROVE <<CdpItem(c)>> \in Seq(T)
    <3>1. PICK e \in T : e = CdpItem(c)
      BY <2>2, CdpParts, Zenon
    <3>2. <<e>> \in Seq(T)
      OBVIOUS
    <3> QED
      BY <3>1, <3>2, Zenon
  <2> HIDE DEF T
  <2> QED
    BY <2>1, <2>2, Zenon
<1>3. PICK f \in [String -> Seq(T)] : Collects(f, String, stop, next, item)
  <2> HIDE DEF size, stop, next, item, T
  <2> QED
    BY <1>1, <1>2, ListRecursion, Zenon
<1>4. ASSUME NEW c \in String PROVE f[c] = CdpStep(f, c)
  <2>1. CASE CdpStops(c)
    BY <1>3, <2>1, Zenon DEF CdpStep, Collects
  <2>2. CASE ~CdpStops(c)
    BY <1>3, <2>2, Zenon DEF CdpStep, Collects
  <2> QED
    BY <2>1, <2>2, Zenon
<1>5. f = [c \in Seq(Octet) |-> CdpStep(f, c)]
  <2>1. f = [c \in String |-> f[c]]
    <3> HIDE DEF T
    <3> QED
      BY <1>3, Zenon
  <2> QED
    BY <1>4, <2>1, Zenon DEF String
<1>6. CdpTlvs = [c \in Seq(Octet) |-> CdpStep(CdpTlvs, c)]
  BY <1>5, Zenon DEF CdpTlvs, CdpStep, CdpStops, CdpItem, CdpEnd
<1> QED
  BY <1>6, Zenon DEF String

LEMMA RestBelow ==
  ASSUME NEW b \in String, NEW k \in Nat, 1 <= k, b # <<>>
  PROVE  Rest(b, k) \in String /\ Len(Rest(b, k)) < Len(b)
<1> DEFINE S == Octet
<1>1. b \in Seq(S) /\ Len(b) \in Nat /\ Len(b) # 0
  BY CatProps, CatEmpty, Zenon DEF String
<1>2. CASE k <= Len(b)
  BY <1>2, RestShrinks, Zenon
<1>3. CASE ~(k <= Len(b))
  <2>1. Rest(b, k) = SubSeq(b, k + 1, Len(b))
    <3>1. ~(Len(b) < Len(b))
      BY <1>1, SMT
    <3> QED
      BY <3>1, Zenon DEF Rest, Slice
  <2> HIDE DEF S
  <2>2. SubSeq(b, k + 1, Len(b)) \in Seq(S) /\ Len(SubSeq(b, k + 1, Len(b))) = 0
    BY <1>1, <1>3
  <2>3. 0 < Len(b)
    BY <1>1, SMT
  <2> QED
    BY <2>1, <2>2, <2>3, Zenon DEF S, String
<1> QED
  BY <1>2, <1>3, Zenon

LEMMA TailBelow ==
  ASSUME NEW b \in String, b # <<>>
  PROVE  Tail(b) \in String /\ Len(Tail(b)) < Len(b)
<1> DEFINE S == Octet
<1>1. b \in Seq(S)
  BY Zenon DEF String
<1> HIDE DEF S
<1>2. Tail(b) \in Seq(S) /\ Len(Tail(b)) < Len(b)
  BY <1>1
<1> QED
  BY <1>2, Zenon DEF S, String

OptionEnd(b) == 2 + b[2]
OptionsStop(b) == b = <<>> \/ b[1] = 255
OptionStops(b) == Len(b) < 2 \/ Cut(b, OptionEnd(b))
OptionItem(b) == [type |-> b[1], value |-> Slice(b, 2, OptionEnd(b))]
OptionsStep(f, b) ==
  IF OptionsStop(b) THEN <<>>
  ELSE IF b[1] = 0 THEN f[Tail(b)]
  ELSE IF OptionStops(b) THEN <<>>
  ELSE <<OptionItem(b)>> \o f[Rest(b, OptionEnd(b))]

FollowsOptions(g) == g = [b \in Seq(Octet) |-> OptionsStep(g, b)]

LEMMA OptionParts ==
  ASSUME NEW b \in String, ~OptionStops(b)
  PROVE  /\ OptionEnd(b) \in Nat /\ 1 <= OptionEnd(b) /\ OptionEnd(b) <= Len(b)
         /\ OptionItem(b) \in Tlvs
<1>1. Len(b) \in Nat
  BY CatProps, Zenon
<1>2. ~(Len(b) < 2) /\ ~(Len(b) < OptionEnd(b))
  BY Zenon DEF OptionStops, Cut
<1>3. PICK o \in Nat, l \in Nat : o = b[1] /\ l = b[2]
  <2>1. 1 \in Nat /\ 1 <= 1 /\ 1 <= Len(b) /\ 2 \in Nat /\ 1 <= 2 /\ 2 <= Len(b)
    BY <1>1, <1>2, SMT
  <2> QED
    BY <2>1, OctetAt, Zenon
<1>4. PICK end \in Nat : end = OptionEnd(b) /\ 1 <= end
  <2>1. 2 + l \in Nat /\ 1 <= 2 + l
    BY SMT
  <2> QED
    BY <1>3, <2>1, Zenon DEF OptionEnd
<1>5. Slice(b, 2, end) \in String
  <2>1. 2 \in Nat
    OBVIOUS
  <2> QED
    BY <2>1, SliceString, Zenon
<1>6. OptionItem(b) \in Tlvs
  BY <1>3, <1>4, <1>5, Zenon DEF OptionItem, Tlvs
<1>7. end <= Len(b)
  BY <1>1, <1>2, <1>4, SMT
<1> QED
  BY <1>4, <1>6, <1>7, Zenon

LEMMA OptionsUnfold ==
  ASSUME NEW b \in String
  PROVE  Options[b] = OptionsStep(Options, b)
<1> DEFINE T == Tlvs
           Stops(c) == OptionsStop(c) \/ (c[1] # 0 /\ OptionStops(c))
           to(c) == IF c[1] = 0 THEN Tail(c) ELSE Rest(c, OptionEnd(c))
           found(c) == IF c[1] = 0 THEN <<>> ELSE <<OptionItem(c)>>
           size == [c \in String |-> Len(c)]
           stop == {c \in String : Stops(c)}
           next == [c \in String |-> IF Stops(c) THEN c ELSE to(c)]
           item == [c \in String |-> IF Stops(c) THEN <<>> ELSE found(c)]
<1>1. Shrinks(String, size, stop, next)
  <2>1. ASSUME NEW c \in String
        PROVE  /\ Len(c) \in Nat
               /\ ~Stops(c) => to(c) \in String /\ Len(to(c)) < Len(c)
    <3>1. Len(c) \in Nat
      BY CatProps, Zenon
    <3>2. ASSUME ~Stops(c) PROVE to(c) \in String /\ Len(to(c)) < Len(c)
      <4>1. CASE c[1] = 0
        <5>1. c # <<>>
          BY <3>2, Zenon DEF OptionsStop
        <5> QED
          BY <4>1, <5>1, TailBelow, Zenon
      <4>2. CASE c[1] # 0
        BY <3>2, <4>2, OptionParts, RestShrinks, Zenon
      <4> QED
        BY <4>1, <4>2, Zenon
    <3> QED
      BY <3>1, <3>2, Zenon
  <2> HIDE DEF Stops, to
  <2> QED
    BY <2>1, SMT DEF Shrinks
<1>2. item \in [String -> Seq(T)]
  <2>1. <<>> \in Seq(T)
    OBVIOUS
  <2>2. ASSUME NEW c \in String, ~Stops(c) PROVE found(c) \in Seq(T)
    <3>1. CASE c[1] = 0
      BY <2>1, <3>1, Zenon
    <3>2. CASE c[1] # 0
      <4>1. PICK e \in T : e = OptionItem(c)
        BY <2>2, <3>2, OptionParts, Zenon
      <4>2. <<e>> \in Seq(T)
        OBVIOUS
      <4> QED
        BY <3>2, <4>1, <4>2, Zenon
    <3> QED
      BY <3>1, <3>2, Zenon
  <2> HIDE DEF T, Stops, found
  <2> QED
    BY <2>1, <2>2, Zenon
<1>3. PICK f \in [String -> Seq(T)] : Collects(f, String, stop, next, item)
  <2> HIDE DEF size, stop, next, item, T
  <2> QED
    BY <1>1, <1>2, ListRecursion, Zenon
<1>4. ASSUME NEW c \in String PROVE f[c] = OptionsStep(f, c)
  <2>1. CASE Stops(c)
    <3>1. f[c] = <<>>
      <4>1. c \in stop
        BY <2>1, Zenon
      <4> HIDE DEF stop, next, item
      <4> QED
        BY <1>3, <4>1, Zenon DEF Collects
    <3> QED
      BY <2>1, <3>1, Zenon DEF OptionsStep
  <2>2. CASE ~Stops(c)
    <3>1. f[c] = found(c) \o f[to(c)]
      <4>1. c \notin stop /\ item[c] = found(c) /\ next[c] = to(c)
        BY <2>2, Zenon
      <4> HIDE DEF stop, next, item, found, to
      <4> QED
        BY <1>3, <4>1, Zenon DEF Collects
    <3>2. CASE c[1] = 0
      <4>1. PICK s \in Seq(T) : s = f[Tail(c)]
        <5>1. Tail(c) \in String
          BY <2>2, TailBelow, Zenon DEF OptionsStop
        <5> HIDE DEF T
        <5> QED
          BY <1>3, <5>1, Zenon
      <4>2. <<>> \o s = s
        OBVIOUS
      <4> QED
        BY <2>2, <3>1, <3>2, <4>1, <4>2, Zenon DEF OptionsStep
    <3>3. CASE c[1] # 0
      BY <2>2, <3>1, <3>3, Zenon DEF OptionsStep
    <3> QED
      BY <3>2, <3>3, Zenon
  <2> QED
    BY <2>1, <2>2, Zenon
<1>5. f = [c \in Seq(Octet) |-> OptionsStep(f, c)]
  <2>1. f = [c \in String |-> f[c]]
    <3> HIDE DEF T
    <3> QED
      BY <1>3, Zenon
  <2> QED
    BY <1>4, <2>1, Zenon DEF String
<1>6. FollowsOptions(Options)
  <2>1. Options = CHOOSE g : FollowsOptions(g)
    BY DEF Options, FollowsOptions, OptionsStep, OptionsStop, OptionStops, OptionItem, OptionEnd
  <2>2. FollowsOptions(f)
    BY <1>5, Zenon DEF FollowsOptions
  <2> QED
    BY <2>1, <2>2, Zenon
<1> QED
  BY <1>6, Zenon DEF String, FollowsOptions

MgmtEnd(v) == 1 + v[1]
MgmtNext(v) == MgmtEnd(v) + 6 + v[MgmtEnd(v) + 6]
MgmtStops(v) == v = <<>> \/ v[1] = 0 \/ Len(v) < MgmtEnd(v)
MgmtItem(v) == IF v[2] = 1 /\ v[1] = 5 THEN <<Slice(v, 2, MgmtEnd(v))>> ELSE <<>>
MgmtMore(f, v) == IF Len(v) < MgmtEnd(v) + 6 THEN <<>> ELSE f[Rest(v, MgmtNext(v))]
MgmtStep(f, v) == IF MgmtStops(v) THEN <<>> ELSE MgmtItem(v) \o MgmtMore(f, v)

LEMMA MgmtParts ==
  ASSUME NEW v \in String, ~MgmtStops(v)
  PROVE  /\ MgmtItem(v) \in Seq(String)
         /\ ~(Len(v) < MgmtEnd(v) + 6) =>
              Rest(v, MgmtNext(v)) \in String /\ Len(Rest(v, MgmtNext(v))) < Len(v)
<1>1. Len(v) \in Nat /\ v # <<>> /\ ~(Len(v) < MgmtEnd(v))
  BY CatProps, Zenon DEF MgmtStops
<1>2. PICK o \in Nat : o = v[1]
  <2>1. Len(v) # 0
    BY <1>1, CatEmpty, Zenon
  <2>2. 1 \in Nat /\ 1 <= 1 /\ 1 <= Len(v)
    BY <1>1, <2>1, SMT
  <2> QED
    BY <2>2, OctetAt, Zenon
<1>3. PICK end \in Nat : end = MgmtEnd(v) /\ 1 <= end
  <2>1. 1 + o \in Nat /\ 1 <= 1 + o
    BY SMT
  <2> QED
    BY <1>2, <2>1, Zenon DEF MgmtEnd
<1>4. MgmtItem(v) \in Seq(String)
  <2>1. 2 \in Nat
    OBVIOUS
  <2>2. PICK s \in String : s = Slice(v, 2, end)
    BY <2>1, SliceString, Zenon
  <2>3. <<s>> \in Seq(String) /\ <<>> \in Seq(String)
    OBVIOUS
  <2> QED
    BY <1>3, <2>2, <2>3, Zenon DEF MgmtItem
<1>5. ASSUME ~(Len(v) < MgmtEnd(v) + 6)
      PROVE  Rest(v, MgmtNext(v)) \in String /\ Len(Rest(v, MgmtNext(v))) < Len(v)
  <2>1. ~(Len(v) < end + 6)
    BY <1>3, <1>5, Zenon
  <2>2. end + 6 \in Nat /\ 1 <= end + 6 /\ end + 6 <= Len(v)
    BY <1>1, <2>1, SMT
  <2>3. PICK o2 \in Nat : o2 = v[end + 6]
    BY <2>2, OctetAt, Zenon
  <2>4. end + 6 + o2 \in Nat /\ 1 <= end + 6 + o2
    BY <2>2, SMT
  <2>5. MgmtNext(v) = end + 6 + o2
    BY <1>3, <2>3, Zenon DEF MgmtNext
  <2> QED
    BY <1>1, <2>4, <2>5, RestBelow, Zenon
<1> QED
  BY <1>4, <1>5, Zenon

LEMMA MgmtAddrsUnfold ==
  ASSUME NEW b \in String
  PROVE  MgmtAddrs[b] = MgmtStep(MgmtAddrs, b)
<1> DEFINE T == String
           to(v) == IF Len(v) < MgmtEnd(v) + 6 THEN <<>> ELSE Rest(v, MgmtNext(v))
           size == [v \in String |-> Len(v)]
           stop == {v \in String : MgmtStops(v)}
           next == [v \in String |-> IF MgmtStops(v) THEN v ELSE to(v)]
           item == [v \in String |-> IF MgmtStops(v) THEN <<>> ELSE MgmtItem(v)]
<1>1. ASSUME NEW v \in String
      PROVE  /\ Len(v) \in Nat
             /\ ~MgmtStops(v) => to(v) \in String /\ Len(to(v)) < Len(v)
  <2>1. Len(v) \in Nat
    BY CatProps, Zenon
  <2>2. ASSUME ~MgmtStops(v), Len(v) < MgmtEnd(v) + 6
        PROVE  <<>> \in String /\ Len(<<>>) < Len(v)
    <3>1. Len(v) # 0 /\ <<>> \in String /\ Len(<<>>) = 0
      BY <2>2, CatEmpty, Zenon DEF MgmtStops
    <3>2. 0 < Len(v)
      BY <2>1, <3>1, SMT
    <3> QED
      BY <3>1, <3>2, Zenon
  <2> QED
    BY <2>1, <2>2, MgmtParts, Zenon
<1>2. Shrinks(String, size, stop, next)
  <2> HIDE DEF to
  <2> QED
    BY <1>1, SMT DEF Shrinks
<1>3. item \in [String -> Seq(T)]
  <2>1. <<>> \in Seq(T)
    OBVIOUS
  <2>2. \A v \in String : ~MgmtStops(v) => MgmtItem(v) \in Seq(T)
    BY MgmtParts, Zenon
  <2> HIDE DEF T
  <2> QED
    BY <2>1, <2>2, Zenon
<1>4. PICK f \in [String -> Seq(T)] : Collects(f, String, stop, next, item)
  <2> HIDE DEF size, stop, next, item, T
  <2> QED
    BY <1>2, <1>3, ListRecursion, Zenon
<1>5. f[<<>>] = <<>>
  <2>1. <<>> \in stop /\ <<>> \in String
    BY CatEmpty, Zenon DEF MgmtStops
  <2> HIDE DEF stop, next, item
  <2> QED
    BY <1>4, <2>1, Zenon DEF Collects
<1>6. ASSUME NEW v \in String PROVE f[v] = MgmtStep(f, v)
  <2>1. CASE MgmtStops(v)
    BY <1>4, <2>1, Zenon DEF MgmtStep, Collects
  <2>2. CASE ~MgmtStops(v)
    <3>1. v \notin stop /\ item[v] = MgmtItem(v) /\ next[v] = to(v)
      BY <2>2, Zenon
    <3>2. f[v] = MgmtItem(v) \o f[to(v)]
      <4> HIDE DEF stop, next, item, to
      <4> QED
        BY <1>4, <3>1, Zenon DEF Collects
    <3>3. f[to(v)] = MgmtMore(f, v)
      BY <1>5, Zenon DEF MgmtMore
    <3> QED
      BY <2>2, <3>2, <3>3, Zenon DEF MgmtStep
  <2> QED
    BY <2>1, <2>2, Zenon
<1>7. f = [v \in Seq(Octet) |-> MgmtStep(f, v)]
  <2>1. f = [v \in String |-> f[v]]
    <3> HIDE DEF T
    <3> QED
      BY <1>4, Zenon
  <2> QED
    BY <1>6, <2>1, Zenon DEF String
<1>8. MgmtAddrs = [v \in Seq(Octet) |-> MgmtStep(MgmtAddrs, v)]
  BY <1>7, Zenon DEF MgmtAddrs, MgmtStep, MgmtStops, MgmtItem, MgmtMore, MgmtEnd, MgmtNext
<1> QED
  BY <1>8, Zenon DEF String

EntryAt(v) == 4 + v[2]
EntryEnd(v) == EntryAt(v) + Number[Slice(v, 2 + v[2], EntryAt(v))]
EntryStops(v, n) == n = 0 \/ Len(v) < 4 \/ Len(v) < EntryAt(v) \/ Len(v) < EntryEnd(v)
EntryItem(v) ==
  IF Slice(v, 0, 3) = <<1, 1, 204>> /\ EntryEnd(v) = EntryAt(v) + 4
  THEN <<Slice(v, EntryAt(v), EntryEnd(v))>> ELSE <<>>
EntryStep(f, v, n) ==
  IF EntryStops(v, n) THEN <<>> ELSE EntryItem(v) \o f[<<Rest(v, EntryEnd(v)), n - 1>>]

LEMMA EntryParts ==
  ASSUME NEW v \in String, NEW n \in Nat, ~EntryStops(v, n)
  PROVE  /\ EntryItem(v) \in Seq(String) /\ n - 1 \in Nat
         /\ Rest(v, EntryEnd(v)) \in String /\ Len(Rest(v, EntryEnd(v))) < Len(v)
<1>1. Len(v) \in Nat /\ n # 0 /\ ~(Len(v) < 4) /\ ~(Len(v) < EntryEnd(v))
  BY CatProps, Zenon DEF EntryStops
<1>2. PICK o \in Nat : o = v[2]
  <2>1. 2 \in Nat /\ 1 <= 2 /\ 2 <= Len(v)
    BY <1>1, SMT
  <2> QED
    BY <2>1, OctetAt, Zenon
<1>3. PICK at \in Nat, from \in Nat : at = EntryAt(v) /\ from = 2 + v[2] /\ 1 <= at
  <2>1. 4 + o \in Nat /\ 2 + o \in Nat /\ 1 <= 4 + o
    BY SMT
  <2> QED
    BY <1>2, <2>1, Zenon DEF EntryAt
<1>4. PICK m \in Nat : m = Number[Slice(v, from, at)]
  BY SliceString, NumberIs, Zenon
<1>5. PICK end \in Nat : end = EntryEnd(v) /\ 1 <= end
  <2>1. at + m \in Nat /\ 1 <= at + m
    BY <1>3, SMT
  <2> QED
    BY <1>3, <1>4, <2>1, Zenon DEF EntryEnd
<1>6. EntryItem(v) \in Seq(String)
  <2>1. PICK s \in String : s = Slice(v, at, end)
    BY SliceString, Zenon
  <2>2. <<s>> \in Seq(String) /\ <<>> \in Seq(String)
    OBVIOUS
  <2> QED
    BY <1>3, <1>5, <2>1, <2>2, Zenon DEF EntryItem
<1>7. end <= Len(v) /\ n - 1 \in Nat
  BY <1>1, <1>5, SMT
<1> QED
  BY <1>5, <1>6, <1>7, RestShrinks, Zenon

LEMMA CdpEntriesUnfold ==
  ASSUME NEW b \in String, NEW k \in Nat
  PROVE  CdpEntries[<<b, k>>] = EntryStep(CdpEntries, b, k)
<1> DEFINE T == String
           D == String \X Nat
           Stops(p) == EntryStops(p[1], p[2])
           to(p) == <<Rest(p[1], EntryEnd(p[1])), p[2] - 1>>
           size == [p \in D |-> Len(p[1])]
           stop == {p \in D : Stops(p)}
           next == [p \in D |-> IF Stops(p) THEN p ELSE to(p)]
           item == [p \in D |-> IF Stops(p) THEN <<>> ELSE EntryItem(p[1])]
<1>0. \A p \in D : p[1] \in String /\ p[2] \in Nat /\ p = <<p[1], p[2]>>
  OBVIOUS
<1>1. ASSUME NEW p \in D
      PROVE  /\ Len(p[1]) \in Nat
             /\ ~Stops(p) => to(p) \in D /\ Len(to(p)[1]) < Len(p[1])
  <2>1. Len(p[1]) \in Nat
    BY <1>0, CatProps, Zenon
  <2>2. ASSUME ~Stops(p) PROVE to(p) \in D /\ Len(to(p)[1]) < Len(p[1])
    <3>1. PICK v \in String, n \in Nat : v = p[1] /\ n = p[2]
      BY <1>0, Zenon
    <3>2. PICK r \in String, m \in Nat : r = Rest(v, EntryEnd(v)) /\ m = n - 1 /\ Len(r) < Len(v)
      BY <2>2, <3>1, EntryParts, Zenon
    <3>3. to(p) = <<r, m>>
      BY <3>1, <3>2, Zenon
    <3>4. <<r, m>> \in D /\ <<r, m>>[1] = r
      OBVIOUS
    <3> HIDE DEF D, to
    <3> QED
      BY <3>1, <3>2, <3>3, <3>4, Zenon
  <2> QED
    BY <2>1, <2>2, Zenon
<1>2. Shrinks(D, size, stop, next)
  <2> HIDE DEF to, D, Stops
  <2> QED
    BY <1>1, SMT DEF Shrinks
<1>3. item \in [D -> Seq(T)]
  <2>1. <<>> \in Seq(T)
    OBVIOUS
  <2>2. \A p \in D : ~Stops(p) => EntryItem(p[1]) \in Seq(T)
    BY <1>0, EntryParts, Zenon
  <2> HIDE DEF T, D, Stops
  <2> QED
    BY <2>1, <2>2, Zenon
<1>4. PICK f \in [D -> Seq(T)] : Collects(f, D, stop, next, item)
  <2> HIDE DEF size, stop, next, item, T, D
  <2> QED
    BY <1>2, <1>3, ListRecursion, Zenon
<1>5. ASSUME NEW p \in D PROVE f[p] = EntryStep(f, p[1], p[2])
  <2> HIDE DEF D
  <2>1. CASE Stops(p)
    BY <1>4, <2>1, Zenon DEF EntryStep, Collects
  <2>2. CASE ~Stops(p)
    BY <1>4, <2>2, Zenon DEF EntryStep, Collects
  <2> QED
    BY <2>1, <2>2, Zenon
<1>6. f = [p \in Seq(Octet) \X Nat |-> EntryStep(f, p[1], p[2])]
  <2>1. f = [p \in D |-> f[p]]
    <3> HIDE DEF T, D
    <3> QED
      BY <1>4, Zenon
  <2> QED
    BY <1>5, <2>1, Zenon DEF String
<1>7. CdpEntries = [p \in Seq(Octet) \X Nat |-> EntryStep(CdpEntries, p[1], p[2])]
  BY <1>6, Zenon DEF CdpEntries, EntryStep, EntryStops, EntryItem, EntryEnd, EntryAt
<1>8. PICK p \in Seq(Octet) \X Nat : p = <<b, k>> /\ p[1] = b /\ p[2] = k
  <2>1. <<b, k>> \in String \X Nat /\ <<b, k>>[1] = b /\ <<b, k>>[2] = k
    OBVIOUS
  <2> QED
    BY <2>1, Zenon DEF String
<1> QED
  BY <1>7, <1>8, Zenon

-----------------------------------------------------------------------------
(* How a TLV is written and read.                                          *)

LldpItems == {e \in Tlvs : 1 <= e.type /\ e.type <= 127 /\ Len(e.value) <= 511}
LldpEnc == [e \in LldpItems |-> Tlv(e.type, e.value)]

LldpFits(t, l) == t \in Nat /\ t <= 127 /\ l \in Nat /\ l <= 511
Low9(n) == n % 512
LldpHead(t, l) == InOctets(512 * t + (l % 512), 2)

LEMMA LldpHeadIs ==
  ASSUME NEW t, NEW l, LldpFits(t, l)
  PROVE  /\ t \in Nat /\ l \in Nat
         /\ LldpHead(t, l) \in String /\ Len(LldpHead(t, l)) = 2
         /\ Low9(Number[LldpHead(t, l)]) = l /\ LldpHead(t, l)[1] \div 2 = t
<1>0. t \in Nat /\ t <= 127 /\ l \in Nat /\ l <= 511
  BY Zenon DEF LldpFits
<1>1. PICK n \in Int : n = 512 * t + (l % 512) /\ 0 <= n /\ n <= 65535 /\ n = 512 * t + l
  <2>1. 512 * t + (l % 512) \in Int /\ l % 512 = l
    BY <1>0, SMT
  <2>2. 0 <= 512 * t + l /\ 512 * t + l <= 65535
    BY <1>0, SMT
  <2> QED
    BY <1>0, <2>1, <2>2, SMT
<1>2. PICK h : h = InOctets(n, 2)
  OBVIOUS
<1>3. h \in String /\ Len(h) = 2
  <2>1. 2 \in 1 .. 4
    OBVIOUS
  <2> QED
    BY <1>2, <2>1, InOctetsString, Zenon
<1>4. Number[h] = n
  BY <1>1, <1>2, NumberRead2, SMT
<1>5. n % 512 = l
  BY <1>0, <1>1, SMT
<1>6. h[1] = (n \div 256) % 256
  <2>1. h = [i \in 1 .. 2 |-> (n \div Pow(2 - i)) % 256]
    BY <1>2, InOctetsPow, Zenon
  <2>2. 1 \in 1 .. 2 /\ 2 - 1 = 1
    OBVIOUS
  <2>3. h[1] = (n \div Pow(1)) % 256
    BY <2>1, <2>2, Zenon
  <2> QED
    BY <2>3, PowBelow4, SMT
<1>7. ((n \div 256) % 256) \div 2 = t
  BY <1>0, <1>1, SMT
<1>8. h = LldpHead(t, l)
  BY <1>1, <1>2, SMT DEF LldpHead
<1> QED
  BY <1>0, <1>3, <1>4, <1>5, <1>6, <1>7, <1>8, SMT DEF Low9

\* What is read of a TLV's header, whatever follows.
LEMMA LldpHeaded ==
  ASSUME NEW t, NEW l, LldpFits(t, l), NEW x \in String
  PROVE  LET b == Cat(LldpHead(t, l), x)
         IN /\ b \in String /\ ~(Len(b) < 2) /\ Len(b) = 2 + Len(x)
            /\ LldpEnd(b) = 2 + l /\ b[1] \div 2 = t
<1>1. PICK h \in String : /\ h = LldpHead(t, l) /\ Len(h) = 2
                          /\ Low9(Number[h]) = l /\ h[1] \div 2 = t
  BY LldpHeadIs, Zenon
<1>2. PICK b : b = Cat(h, x)
  OBVIOUS
<1>3. b \in String /\ Len(b) = Len(h) + Len(x) /\ Len(x) \in Nat /\ Len(h) >= 1 => b[1] = h[1]
  BY <1>2, CatFirst, Zenon
<1>4. Len(h) >= 1
  BY <1>1, SMT
<1>5. b \in String /\ Len(b) = Len(h) + Len(x) /\ Len(x) \in Nat /\ b[1] = h[1]
  BY <1>2, <1>4, CatFirst, Zenon
<1>6. ~(Len(b) < 2)
  BY <1>1, <1>5, SMT
<1>7. Slice(b, 0, 2) = h
  BY <1>1, <1>2, HeadOfCat, Zenon
<1>8. LldpEnd(b) = 2 + l
  <2>1. LldpEnd(b) = 2 + Low9(Number[Slice(b, 0, 2)])
    BY SMT DEF LldpEnd, LldpLength, Low9
  <2> QED
    BY <1>1, <1>7, <2>1, Zenon
<1> QED
  BY <1>1, <1>2, <1>5, <1>6, <1>8, Zenon

LEMMA TlvsParts ==
  ASSUME NEW e \in Tlvs
  PROVE  /\ e.type \in Nat /\ e.value \in String /\ Len(e.value) \in Nat
         /\ e = [type |-> e.type, value |-> e.value]
<1> DEFINE S == String
<1>1. \A r \in [type : Nat, value : S] :
         r.type \in Nat /\ r.value \in S /\ r = [type |-> r.type, value |-> r.value]
  <2> HIDE DEF S
  <2> QED
    OBVIOUS
<1>2. e.type \in Nat /\ e.value \in String /\ e = [type |-> e.type, value |-> e.value]
  BY <1>1, Zenon DEF Tlvs
<1> QED
  BY <1>2, CatProps, Zenon

\* The parts of an item, and what it is written as.
LldpHeadOf(e) == LldpHead(e.type, Len(e.value))

LEMMA LldpItemIs ==
  ASSUME NEW e \in LldpItems
  PROVE  /\ e = [type |-> e.type, value |-> e.value]
         /\ LldpFits(e.type, Len(e.value)) /\ e.type # 0 /\ Len(e.value) \in Nat
         /\ e.value \in String /\ LldpHeadOf(e) \in String /\ Len(LldpHeadOf(e)) = 2
         /\ LldpEnc[e] = Cat(LldpHeadOf(e), e.value) /\ LldpEnc[e] \in String
<1>1. e \in Tlvs /\ 1 <= e.type /\ e.type <= 127 /\ Len(e.value) <= 511
  BY SMT DEF LldpItems
<1>2. PICK t \in Nat, v \in String, l \in Nat :
        t = e.type /\ v = e.value /\ l = Len(v) /\ e = [type |-> t, value |-> v]
  BY <1>1, TlvsParts, Zenon
<1>3. LldpFits(t, l) /\ t # 0
  BY <1>1, <1>2, SMT DEF LldpFits
<1>4. PICK h \in String : h = LldpHead(t, l) /\ Len(h) = 2
  BY <1>3, LldpHeadIs, Zenon
<1>5. LldpEnc[e] = Tlv(e.type, e.value)
  BY Zenon DEF LldpEnc
<1>6. Tlv(e.type, e.value) = Cat(LldpHeadOf(e), e.value)
  BY SMT DEF Tlv, LldpHead, LldpHeadOf, Cat
<1>7. Cat(h, v) \in String
  BY CatProps, Zenon
<1>8. LldpHeadOf(e) = h
  BY <1>2, <1>4, Zenon DEF LldpHeadOf
<1> QED
  BY <1>2, <1>3, <1>4, <1>5, <1>6, <1>7, <1>8, Zenon

LEMMA LldpReads ==
  ReadsItems(LldpTlvs, LldpItems, LldpEnc) /\ LldpEnc \in [LldpItems -> String]
<1>1. ASSUME NEW e \in LldpItems, NEW c \in String
      PROVE  LldpTlvs[Cat(LldpEnc[e], c)] = <<e>> \o LldpTlvs[c]
  <2>1. PICK t, v, l, h : t = e.type /\ v = e.value /\ l = Len(e.value) /\ h = LldpHeadOf(e)
    OBVIOUS
  <2>2. h = LldpHead(t, l) /\ l = Len(v)
    BY <2>1, Zenon DEF LldpHeadOf
  <2>3. /\ e = [type |-> t, value |-> v] /\ LldpFits(t, l) /\ t # 0
        /\ v \in String /\ h \in String /\ Len(h) = 2 /\ l \in Nat /\ LldpEnc[e] = Cat(h, v)
    BY <2>1, LldpItemIs, Zenon
  <2>4. PICK x, b : x = Cat(v, c) /\ b = Cat(h, x)
    OBVIOUS
  <2>5. /\ Cat(LldpEnc[e], c) = b /\ x \in String /\ b \in String
        /\ Len(b) = Len(h) + Len(v) + Len(c) /\ Len(c) \in Nat
        /\ Slice(b, Len(h), Len(h) + Len(v)) = v /\ Rest(b, Len(h) + Len(v)) = c
    <3>0. h \in String /\ v \in String
      BY <2>3, Zenon
    <3>1. /\ Cat(Cat(h, v), c) = Cat(h, Cat(v, c)) /\ Cat(v, c) \in String
          /\ Cat(h, Cat(v, c)) \in String /\ Len(c) \in Nat
          /\ Len(Cat(h, Cat(v, c))) = Len(h) + Len(v) + Len(c)
          /\ Slice(Cat(h, Cat(v, c)), Len(h), Len(h) + Len(v)) = v
          /\ Rest(Cat(h, Cat(v, c)), Len(h) + Len(v)) = c
      BY <3>0, Framed, SMT
    <3> QED
      BY <2>3, <2>4, <3>1, Zenon
  <2>6. /\ ~(Len(b) < 2) /\ Len(b) = 2 + Len(x) /\ LldpEnd(b) = 2 + l /\ b[1] \div 2 = t
    <3>1. LET d == Cat(LldpHead(t, l), x)
          IN /\ d \in String /\ ~(Len(d) < 2) /\ Len(d) = 2 + Len(x)
             /\ LldpEnd(d) = 2 + l /\ d[1] \div 2 = t
      BY <2>3, <2>5, LldpHeaded, Zenon
    <3> QED
      BY <2>2, <2>4, <3>1, Zenon
  <2>7. Slice(b, 2, 2 + l) = v /\ Rest(b, 2 + l) = c /\ Len(b) = 2 + l + Len(c)
    BY <2>2, <2>3, <2>5, Zenon
  <2>8. ~(Len(b) < 2 + l)
    BY <2>3, <2>5, <2>7, SMT
  <2>9. ~LldpStops(b)
    BY <2>3, <2>6, <2>8, Zenon DEF LldpStops, Cut
  <2>10. LldpItem(b) = e
    BY <2>3, <2>6, <2>7, Zenon DEF LldpItem
  <2> QED
    BY <2>5, <2>6, <2>7, <2>9, <2>10, LldpTlvsUnfold, Zenon DEF LldpStep
<1>2. ASSUME NEW e \in LldpItems, NEW k \in Nat, k < Len(LldpEnc[e])
      PROVE  LldpTlvs[Slice(LldpEnc[e], 0, k)] = <<>>
  <2>1. PICK t, v, l, h : t = e.type /\ v = e.value /\ l = Len(e.value) /\ h = LldpHeadOf(e)
    OBVIOUS
  <2>2. h = LldpHead(t, l) /\ l = Len(v)
    BY <2>1, Zenon DEF LldpHeadOf
  <2>3. /\ LldpFits(t, l) /\ v \in String /\ h \in String /\ Len(h) = 2 /\ l \in Nat
        /\ LldpEnc[e] = Cat(h, v) /\ LldpEnc[e] \in String
    BY <2>1, LldpItemIs, Zenon
  <2>4. Len(LldpEnc[e]) = 2 + l
    <3>1. Len(Cat(h, v)) = Len(h) + Len(v)
      BY <2>3, CatProps, Zenon
    <3> QED
      BY <2>2, <2>3, <3>1, Zenon
  <2>5. k < 2 + l /\ k <= Len(Cat(h, v))
    BY <1>2, <2>3, <2>4, SMT
  <2>6. PICK s : s = Slice(LldpEnc[e], 0, k)
    OBVIOUS
  <2>7. s \in String /\ Len(s) = k /\ (~(k < 2) => \E x \in String : s = Cat(h, x))
    <3>1. /\ Slice(Cat(h, v), 0, k) \in String /\ Len(Slice(Cat(h, v), 0, k)) = k
          /\ ~(k < Len(h)) => \E x \in String : Slice(Cat(h, v), 0, k) = Cat(h, x)
      BY <2>3, <2>5, FramedCut, Zenon
    <3> QED
      BY <2>3, <2>6, <3>1, Zenon
  <2>8. LldpStops(s)
    <3>1. CASE k < 2
      BY <2>7, <3>1, Zenon DEF LldpStops
    <3>2. CASE ~(k < 2)
      <4>1. PICK x \in String : s = Cat(h, x)
        BY <2>7, <3>2, Zenon
      <4>2. LldpEnd(s) = 2 + l
        <5>1. LET d == Cat(LldpHead(t, l), x)
              IN /\ d \in String /\ ~(Len(d) < 2) /\ Len(d) = 2 + Len(x)
                 /\ LldpEnd(d) = 2 + l /\ d[1] \div 2 = t
          BY <2>3, LldpHeaded, Zenon
        <5> QED
          BY <2>2, <4>1, <5>1, Zenon
      <4> QED
        BY <2>5, <2>7, <4>2, Zenon DEF LldpStops, Cut
    <3> QED
      BY <3>1, <3>2, Zenon
  <2> QED
    BY <2>6, <2>7, <2>8, LldpTlvsUnfold, Zenon DEF LldpStep
<1>3. \A e \in LldpItems : LldpEnc[e] \in String
  BY LldpItemIs, Zenon
<1>4. LldpEnc \in [LldpItems -> String]
  <2>1. LldpEnc = [e \in LldpItems |-> LldpEnc[e]]
    BY Zenon DEF LldpEnc
  <2> HIDE DEF LldpEnc
  <2> QED
    BY <1>3, <2>1, Zenon
<1> QED
  BY <1>1, <1>2, <1>4, Zenon DEF ReadsItems

CdpItems == {e \in Tlvs : e.type <= 65535 /\ Len(e.value) <= 65531}
CdpEnc == [e \in CdpItems |-> CdpTlv(e.type, e.value)]

CdpFits(t, l) == t \in Nat /\ t <= 65535 /\ l \in Nat /\ l <= 65531
CdpHead(t, l) == Cat(InOctets(t, 2), InOctets(l + 4, 2))

LEMMA CdpHeadIs ==
  ASSUME NEW t, NEW l, CdpFits(t, l)
  PROVE  /\ t \in Nat /\ l \in Nat
         /\ CdpHead(t, l) \in String /\ Len(CdpHead(t, l)) = 4
         /\ Number[Slice(CdpHead(t, l), 0, 2)] = t
         /\ Number[Slice(CdpHead(t, l), 2, 4)] = 4 + l
<1>1. t \in Nat /\ t <= 65535 /\ l \in Nat /\ l <= 65531
  BY SMT DEF CdpFits
<1>2. PICK n \in Int : n = l + 4 /\ 0 <= n /\ n <= 65535 /\ n = 4 + l
  BY <1>1, SMT
<1>3. t \in Int /\ 0 <= t
  BY <1>1, SMT
<1>4. PICK a \in String : a = InOctets(t, 2) /\ Len(a) = 2 /\ Number[a] = t
  <2>1. 2 \in 1 .. 4
    OBVIOUS
  <2>2. InOctets(t, 2) \in String /\ Len(InOctets(t, 2)) = 2
    BY <1>3, <2>1, InOctetsString, Zenon
  <2>3. Number[InOctets(t, 2)] = t
    BY <1>1, <1>3, NumberRead2, SMT
  <2> QED
    BY <2>2, <2>3, Zenon
<1>5. PICK c \in String : c = InOctets(n, 2) /\ Len(c) = 2 /\ Number[c] = n
  <2>1. 2 \in 1 .. 4
    OBVIOUS
  <2>2. InOctets(n, 2) \in String /\ Len(InOctets(n, 2)) = 2
    BY <2>1, InOctetsString, Zenon
  <2>3. Number[InOctets(n, 2)] = n
    BY <1>2, NumberRead2, SMT
  <2> QED
    BY <2>2, <2>3, Zenon
<1>6. CdpHead(t, l) = Cat(a, c)
  <2>1. n = l + 4
    BY <1>2, SMT
  <2> QED
    BY <1>4, <1>5, <2>1, Zenon DEF CdpHead
<1>7. 2 + 2 = 4
  OBVIOUS
<1>8. Cat(a, c) \in String /\ Len(Cat(a, c)) = 4
  <2>1. Cat(a, c) \in String /\ Len(Cat(a, c)) = Len(a) + Len(c)
    BY CatProps, Zenon
  <2> QED
    BY <1>4, <1>5, <1>7, <2>1, Zenon
<1>9. Slice(Cat(a, c), 0, 2) = a
  BY <1>4, HeadOfCat, Zenon
<1>10. Slice(Cat(a, c), 2, 4) = c
  <2>1. Slice(Cat(a, c), Len(a), Len(a) + Len(c)) = c
    BY SliceLast, Zenon
  <2>2. Len(a) + Len(c) = 4
    BY <1>4, <1>5, <1>7, Zenon
  <2> QED
    BY <1>4, <2>1, <2>2, Zenon
<1> QED
  BY <1>1, <1>2, <1>4, <1>5, <1>6, <1>8, <1>9, <1>10, SMT

LEMMA CdpHeaded ==
  ASSUME NEW t, NEW l, CdpFits(t, l), NEW x \in String
  PROVE  LET b == Cat(CdpHead(t, l), x)
         IN /\ b \in String /\ ~(Len(b) < 4) /\ Len(b) = 4 + Len(x)
            /\ CdpEnd(b) = 4 + l /\ Number[Slice(b, 0, 2)] = t
<1>1. PICK h \in String : /\ h = CdpHead(t, l) /\ Len(h) = 4
                          /\ Number[Slice(h, 0, 2)] = t /\ Number[Slice(h, 2, 4)] = 4 + l
  BY CdpHeadIs, Zenon
<1>2. PICK b : b = Cat(h, x)
  OBVIOUS
<1>3. b \in String /\ Len(b) = Len(h) + Len(x) /\ Len(x) \in Nat
  BY <1>2, CatProps, Zenon
<1>4. ~(Len(b) < 4)
  BY <1>1, <1>3, SMT
<1>5. /\ 0 \in Nat /\ 2 \in Nat /\ 4 \in Nat /\ 0 <= 2 /\ 2 <= 4 /\ 2 <= Len(h) /\ 4 <= Len(h)
  BY <1>1, SMT
<1>6. Slice(b, 0, 2) = Slice(h, 0, 2) /\ Slice(b, 2, 4) = Slice(h, 2, 4)
  BY <1>2, <1>5, SliceWithin, Zenon
<1>7. CdpEnd(b) = 4 + l
  BY <1>1, <1>6, Zenon DEF CdpEnd
<1> QED
  BY <1>1, <1>2, <1>3, <1>4, <1>6, <1>7, Zenon

CdpHeadOf(e) == CdpHead(e.type, Len(e.value))

LEMMA CdpItemIs ==
  ASSUME NEW e \in CdpItems
  PROVE  /\ e = [type |-> e.type, value |-> e.value]
         /\ CdpFits(e.type, Len(e.value)) /\ Len(e.value) \in Nat
         /\ e.value \in String /\ CdpHeadOf(e) \in String /\ Len(CdpHeadOf(e)) = 4
         /\ CdpEnc[e] = Cat(CdpHeadOf(e), e.value) /\ CdpEnc[e] \in String
<1>1. e \in Tlvs /\ e.type <= 65535 /\ Len(e.value) <= 65531
  BY SMT DEF CdpItems
<1>2. PICK t \in Nat, v \in String, l \in Nat :
        t = e.type /\ v = e.value /\ l = Len(v) /\ e = [type |-> t, value |-> v]
  <2>1. e \in Tlvs
    BY <1>1, SMT
  <2> QED
    BY <2>1, TlvsParts, Zenon
<1>3. CdpFits(t, l)
  BY <1>1, <1>2, SMT DEF CdpFits
<1>4. PICK h \in String : h = CdpHead(t, l) /\ Len(h) = 4
  BY <1>3, CdpHeadIs, Zenon
<1>5. CdpEnc[e] = CdpTlv(e.type, e.value)
  BY SMT DEF CdpEnc
<1>6. CdpTlv(e.type, e.value) = Cat(CdpHeadOf(e), e.value)
  BY Zenon DEF CdpTlv, CdpHead, CdpHeadOf, Cat
<1>7. Cat(h, v) \in String
  BY CatProps, Zenon
<1>8. CdpHeadOf(e) = h
  BY <1>2, <1>4, Zenon DEF CdpHeadOf
<1> QED
  BY <1>2, <1>3, <1>4, <1>5, <1>6, <1>7, <1>8, Zenon

LEMMA CdpReads ==
  ReadsItems(CdpTlvs, CdpItems, CdpEnc) /\ CdpEnc \in [CdpItems -> String]
<1>1. ASSUME NEW e \in CdpItems, NEW c \in String
      PROVE  CdpTlvs[Cat(CdpEnc[e], c)] = <<e>> \o CdpTlvs[c]
  <2>1. PICK t, v, l, h : t = e.type /\ v = e.value /\ l = Len(e.value) /\ h = CdpHeadOf(e)
    OBVIOUS
  <2>2. h = CdpHead(t, l) /\ l = Len(v)
    BY <2>1, Zenon DEF CdpHeadOf
  <2>3. /\ e = [type |-> t, value |-> v] /\ CdpFits(t, l)
        /\ v \in String /\ h \in String /\ Len(h) = 4 /\ l \in Nat /\ CdpEnc[e] = Cat(h, v)
    BY <2>1, CdpItemIs, Zenon
  <2>4. PICK x, b : x = Cat(v, c) /\ b = Cat(h, x)
    OBVIOUS
  <2>5. /\ Cat(CdpEnc[e], c) = b /\ x \in String /\ b \in String
        /\ Len(b) = Len(h) + Len(v) + Len(c) /\ Len(c) \in Nat
        /\ Slice(b, Len(h), Len(h) + Len(v)) = v /\ Rest(b, Len(h) + Len(v)) = c
    <3>0. h \in String /\ v \in String
      BY <2>3, Zenon
    <3>1. /\ Cat(Cat(h, v), c) = Cat(h, Cat(v, c)) /\ Cat(v, c) \in String
          /\ Cat(h, Cat(v, c)) \in String /\ Len(c) \in Nat
          /\ Len(Cat(h, Cat(v, c))) = Len(h) + Len(v) + Len(c)
          /\ Slice(Cat(h, Cat(v, c)), Len(h), Len(h) + Len(v)) = v
          /\ Rest(Cat(h, Cat(v, c)), Len(h) + Len(v)) = c
      BY <3>0, Framed, SMT
    <3> QED
      BY <2>3, <2>4, <3>1, Zenon
  <2>6. /\ ~(Len(b) < 4) /\ Len(b) = 4 + Len(x) /\ CdpEnd(b) = 4 + l /\ Number[Slice(b, 0, 2)] = t
    <3>1. LET d == Cat(CdpHead(t, l), x)
          IN /\ d \in String /\ ~(Len(d) < 4) /\ Len(d) = 4 + Len(x)
             /\ CdpEnd(d) = 4 + l /\ Number[Slice(d, 0, 2)] = t
      BY <2>3, <2>5, CdpHeaded, SMT
    <3> QED
      BY <2>2, <2>4, <3>1, Zenon
  <2>7. Slice(b, 4, 4 + l) = v /\ Rest(b, 4 + l) = c /\ Len(b) = 4 + l + Len(c)
    BY <2>2, <2>3, <2>5, Zenon
  <2>8. ~(Len(b) < 4 + l) /\ ~(4 + l < 4)
    BY <2>3, <2>5, <2>7, SMT
  <2>9. ~CdpStops(b)
    BY <2>3, <2>6, <2>8, Zenon DEF CdpStops, Cut
  <2>10. CdpItem(b) = e
    BY <2>3, <2>6, <2>7, Zenon DEF CdpItem
  <2> QED
    BY <2>5, <2>6, <2>7, <2>9, <2>10, CdpTlvsUnfold, Zenon DEF CdpStep
<1>2. ASSUME NEW e \in CdpItems, NEW k \in Nat, k < Len(CdpEnc[e])
      PROVE  CdpTlvs[Slice(CdpEnc[e], 0, k)] = <<>>
  <2>1. PICK t, v, l, h : t = e.type /\ v = e.value /\ l = Len(e.value) /\ h = CdpHeadOf(e)
    OBVIOUS
  <2>2. h = CdpHead(t, l) /\ l = Len(v)
    BY <2>1, Zenon DEF CdpHeadOf
  <2>3. /\ CdpFits(t, l) /\ v \in String /\ h \in String /\ Len(h) = 4 /\ l \in Nat
        /\ CdpEnc[e] = Cat(h, v) /\ CdpEnc[e] \in String
    BY <2>1, CdpItemIs, Zenon
  <2>4. Len(CdpEnc[e]) = 4 + l
    <3>1. Len(Cat(h, v)) = Len(h) + Len(v)
      BY <2>3, CatProps, Zenon
    <3> QED
      BY <2>2, <2>3, <3>1, Zenon
  <2>5. k < 4 + l /\ k <= Len(Cat(h, v))
    BY <1>2, <2>3, <2>4, SMT
  <2>6. PICK s : s = Slice(CdpEnc[e], 0, k)
    OBVIOUS
  <2>7. s \in String /\ Len(s) = k /\ (~(k < 4) => \E x \in String : s = Cat(h, x))
    <3>1. /\ Slice(Cat(h, v), 0, k) \in String /\ Len(Slice(Cat(h, v), 0, k)) = k
          /\ ~(k < Len(h)) => \E x \in String : Slice(Cat(h, v), 0, k) = Cat(h, x)
      BY <2>3, <2>5, FramedCut, Zenon
    <3> QED
      BY <2>3, <2>6, <3>1, Zenon
  <2>8. CdpStops(s)
    <3>1. CASE k < 4
      BY <2>7, <3>1, Zenon DEF CdpStops
    <3>2. CASE ~(k < 4)
      <4>1. PICK x \in String : s = Cat(h, x)
        BY <2>7, <3>2, Zenon
      <4>2. CdpEnd(s) = 4 + l
        <5>1. LET d == Cat(CdpHead(t, l), x)
              IN /\ d \in String /\ ~(Len(d) < 4) /\ Len(d) = 4 + Len(x)
                 /\ CdpEnd(d) = 4 + l /\ Number[Slice(d, 0, 2)] = t
          BY <2>3, CdpHeaded, SMT
        <5> QED
          BY <2>2, <4>1, <5>1, Zenon
      <4> QED
        BY <2>5, <2>7, <4>2, Zenon DEF CdpStops, Cut
    <3> QED
      BY <3>1, <3>2, Zenon
  <2> QED
    BY <2>6, <2>7, <2>8, CdpTlvsUnfold, Zenon DEF CdpStep
<1>3. \A e \in CdpItems : CdpEnc[e] \in String
  BY CdpItemIs, Zenon
<1>4. CdpEnc \in [CdpItems -> String]
  <2>1. CdpEnc = [e \in CdpItems |-> CdpEnc[e]]
    BY Zenon DEF CdpEnc
  <2> HIDE DEF CdpEnc
  <2> QED
    BY <1>3, <2>1, Zenon
<1> QED
  BY <1>1, <1>2, <1>4, Zenon DEF ReadsItems

OptionItems == {e \in Tlvs : 1 <= e.type /\ e.type <= 254 /\ Len(e.value) <= 255}
OptionEnc == [e \in OptionItems |-> Opt(e.type, e.value)]

OptionFits(t, l) == t \in Octet /\ t # 0 /\ t # 255 /\ l \in Octet
OptionHead(t, l) == Cat(One(t), One(l))
OptionHeadOf(e) == OptionHead(e.type, Len(e.value))

LEMMA OptionHeaded ==
  ASSUME NEW t, NEW l, OptionFits(t, l), NEW x \in String
  PROVE  LET b == Cat(OptionHead(t, l), x)
         IN /\ b \in String /\ ~(Len(b) < 2) /\ ~OptionsStop(b)
            /\ OptionEnd(b) = 2 + l /\ b[1] = t /\ b[1] # 0
            /\ OptionHead(t, l) \in String /\ Len(OptionHead(t, l)) = 2
<1>1. t \in Octet /\ t # 0 /\ t # 255 /\ l \in Octet
  BY SMT DEF OptionFits
<1>2. PICK p, q \in String : /\ p = One(t) /\ Len(p) = 1 /\ p[1] = t
                             /\ q = One(l) /\ Len(q) = 1 /\ q[1] = l
  <2>1. t \in Octet /\ l \in Octet
    BY <1>1, SMT
  <2>2. /\ One(t) \in String /\ Len(One(t)) = 1 /\ One(t)[1] = t
        /\ One(l) \in String /\ Len(One(l)) = 1 /\ One(l)[1] = l
    BY <2>1, OneProps, Zenon
  <2> QED
    BY <2>2, Zenon
<1>3. PICK h : h = Cat(p, q)
  OBVIOUS
<1>4. h = OptionHead(t, l)
  BY <1>2, <1>3, Zenon DEF OptionHead
<1>5. h \in String /\ Len(h) = 2 /\ h[1] = t /\ h[2] = l
  <2>1. Len(p) >= 1 /\ Len(q) >= 1 /\ Len(p) + Len(q) = 2
    BY <1>2, SMT
  <2>2. /\ Cat(p, q) \in String /\ Len(Cat(p, q)) = Len(p) + Len(q)
        /\ Cat(p, q)[1] = p[1] /\ Cat(p, q)[2] = q[1]
    BY <1>2, <2>1, CatFirst, Zenon
  <2> QED
    BY <1>2, <1>3, <2>1, <2>2, Zenon
<1>6. PICK b : b = Cat(h, x)
  OBVIOUS
<1>7. b \in String /\ Len(b) = 2 + Len(x) /\ b[1] = t /\ b[2] = l /\ Len(x) \in Nat
  <2>1. Len(h) >= 1 /\ Len(h) >= 2
    BY <1>5, SMT
  <2>2. /\ Cat(h, x) \in String /\ Len(Cat(h, x)) = Len(h) + Len(x) /\ Len(x) \in Nat
        /\ Cat(h, x)[1] = h[1] /\ Cat(h, x)[2] = h[2]
    BY <1>5, <2>1, CatFirst, Zenon
  <2> QED
    BY <1>5, <1>6, <2>2, Zenon
<1>8. ~(Len(b) < 2) /\ b # <<>>
  <2>1. Len(b) # 0
    BY <1>7, SMT
  <2> QED
    BY <1>7, <2>1, CatEmpty, SMT
<1>9. OptionEnd(b) = 2 + l
  BY <1>7, Zenon DEF OptionEnd
<1>10. ~OptionsStop(b)
  BY <1>1, <1>7, <1>8, SMT DEF OptionsStop
<1> QED
  BY <1>1, <1>4, <1>5, <1>6, <1>7, <1>8, <1>9, <1>10, SMT

LEMMA OptionItemIs ==
  ASSUME NEW e \in OptionItems
  PROVE  /\ e = [type |-> e.type, value |-> e.value]
         /\ OptionFits(e.type, Len(e.value)) /\ Len(e.value) \in Nat
         /\ e.value \in String /\ OptionHeadOf(e) \in String /\ Len(OptionHeadOf(e)) = 2
         /\ OptionEnc[e] = Cat(OptionHeadOf(e), e.value) /\ OptionEnc[e] \in String
<1>1. e \in Tlvs /\ 1 <= e.type /\ e.type <= 254 /\ Len(e.value) <= 255
  BY SMT DEF OptionItems
<1>2. PICK t \in Nat, v \in String, l \in Nat :
        t = e.type /\ v = e.value /\ l = Len(v) /\ e = [type |-> t, value |-> v]
  <2>1. e \in Tlvs
    BY <1>1, SMT
  <2> QED
    BY <2>1, TlvsParts, Zenon
<1>3. OptionFits(t, l)
  BY <1>1, <1>2, OctetIs, SMT DEF OptionFits
<1>4. PICK h \in String : h = OptionHead(t, l) /\ Len(h) = 2
  <2>1. <<>> \in String
    BY CatEmpty, Zenon
  <2>2. OptionHead(t, l) \in String /\ Len(OptionHead(t, l)) = 2
    BY <1>3, <2>1, OptionHeaded, Zenon
  <2> QED
    BY <2>2, Zenon
<1>5. OptionEnc[e] = Opt(e.type, e.value)
  BY SMT DEF OptionEnc
<1>6. Opt(e.type, e.value) = Cat(OptionHeadOf(e), e.value)
  <2>1. <<t, l>> = <<t>> \o <<l>>
    OBVIOUS
  <2> QED
    BY <1>2, <2>1, Zenon DEF Opt, OptionHead, OptionHeadOf, Cat, One
<1>7. Cat(h, v) \in String
  BY CatProps, Zenon
<1>8. OptionHeadOf(e) = h
  BY <1>2, <1>4, Zenon DEF OptionHeadOf
<1> QED
  BY <1>2, <1>3, <1>4, <1>5, <1>6, <1>7, <1>8, Zenon

LEMMA OptionsEnd ==
  /\ Options[<<>>] = <<>>
  /\ \A c \in String : c # <<>> /\ c[1] = 255 => Options[c] = <<>>
<1>1. \A c \in String : OptionsStop(c) => Options[c] = <<>>
  BY OptionsUnfold, Zenon DEF OptionsStep
<1>2. <<>> \in String
  BY CatEmpty, Zenon
<1>3. \A c \in String : c = <<>> \/ c[1] = 255 => Options[c] = <<>>
  BY <1>1, SMT DEF OptionsStop
<1> QED
  BY <1>2, <1>3, SMT

LEMMA OptionsRead ==
  ReadsItems(Options, OptionItems, OptionEnc) /\ OptionEnc \in [OptionItems -> String]
<1>1. ASSUME NEW e \in OptionItems, NEW c \in String
      PROVE  Options[Cat(OptionEnc[e], c)] = <<e>> \o Options[c]
  <2>1. PICK t, v, l, h : t = e.type /\ v = e.value /\ l = Len(e.value) /\ h = OptionHeadOf(e)
    OBVIOUS
  <2>2. h = OptionHead(t, l) /\ l = Len(v)
    BY <2>1, Zenon DEF OptionHeadOf
  <2>3. /\ e = [type |-> t, value |-> v] /\ OptionFits(t, l)
        /\ v \in String /\ h \in String /\ Len(h) = 2 /\ l \in Nat /\ OptionEnc[e] = Cat(h, v)
    BY <2>1, OptionItemIs, Zenon
  <2>4. PICK x, b : x = Cat(v, c) /\ b = Cat(h, x)
    OBVIOUS
  <2>5. /\ Cat(OptionEnc[e], c) = b /\ x \in String /\ b \in String
        /\ Len(b) = Len(h) + Len(v) + Len(c) /\ Len(c) \in Nat
        /\ Slice(b, Len(h), Len(h) + Len(v)) = v /\ Rest(b, Len(h) + Len(v)) = c
    <3>0. h \in String /\ v \in String
      BY <2>3, Zenon
    <3>1. /\ Cat(Cat(h, v), c) = Cat(h, Cat(v, c)) /\ Cat(v, c) \in String
          /\ Cat(h, Cat(v, c)) \in String /\ Len(c) \in Nat
          /\ Len(Cat(h, Cat(v, c))) = Len(h) + Len(v) + Len(c)
          /\ Slice(Cat(h, Cat(v, c)), Len(h), Len(h) + Len(v)) = v
          /\ Rest(Cat(h, Cat(v, c)), Len(h) + Len(v)) = c
      BY <3>0, Framed, SMT
    <3> QED
      BY <2>3, <2>4, <3>1, Zenon
  <2>6. ~(Len(b) < 2) /\ ~OptionsStop(b) /\ OptionEnd(b) = 2 + l /\ b[1] = t /\ b[1] # 0
    <3>1. LET d == Cat(OptionHead(t, l), x)
          IN /\ d \in String /\ ~(Len(d) < 2) /\ ~OptionsStop(d)
             /\ OptionEnd(d) = 2 + l /\ d[1] = t /\ d[1] # 0
      BY <2>3, <2>5, OptionHeaded, SMT
    <3> QED
      BY <2>2, <2>4, <3>1, Zenon
  <2>7. Slice(b, 2, 2 + l) = v /\ Rest(b, 2 + l) = c /\ Len(b) = 2 + l + Len(c)
    BY <2>2, <2>3, <2>5, Zenon
  <2>8. ~(Len(b) < 2 + l)
    BY <2>3, <2>5, <2>7, SMT
  <2>9. ~OptionStops(b)
    BY <2>6, <2>8, Zenon DEF OptionStops, Cut
  <2>10. OptionItem(b) = e
    BY <2>3, <2>6, <2>7, Zenon DEF OptionItem
  <2> QED
    BY <2>5, <2>6, <2>7, <2>9, <2>10, OptionsUnfold, Zenon DEF OptionsStep
<1>2. ASSUME NEW e \in OptionItems, NEW k \in Nat, k < Len(OptionEnc[e])
      PROVE  Options[Slice(OptionEnc[e], 0, k)] = <<>>
  <2>1. PICK t, v, l, h : t = e.type /\ v = e.value /\ l = Len(e.value) /\ h = OptionHeadOf(e)
    OBVIOUS
  <2>2. h = OptionHead(t, l) /\ l = Len(v)
    BY <2>1, Zenon DEF OptionHeadOf
  <2>3. /\ OptionFits(t, l) /\ v \in String /\ h \in String /\ Len(h) = 2 /\ l \in Nat
        /\ OptionEnc[e] = Cat(h, v) /\ OptionEnc[e] \in String
    BY <2>1, OptionItemIs, Zenon
  <2>4. Len(OptionEnc[e]) = 2 + l
    <3>1. Len(Cat(h, v)) = Len(h) + Len(v)
      BY <2>3, CatProps, Zenon
    <3> QED
      BY <2>2, <2>3, <3>1, Zenon
  <2>5. k < 2 + l /\ k <= Len(Cat(h, v))
    BY <1>2, <2>3, <2>4, SMT
  <2>6. PICK s : s = Slice(OptionEnc[e], 0, k)
    OBVIOUS
  <2>7. s \in String /\ Len(s) = k /\ (~(k < 2) => \E x \in String : s = Cat(h, x))
    <3>1. /\ Slice(Cat(h, v), 0, k) \in String /\ Len(Slice(Cat(h, v), 0, k)) = k
          /\ ~(k < Len(h)) => \E x \in String : Slice(Cat(h, v), 0, k) = Cat(h, x)
      BY <2>3, <2>5, FramedCut, Zenon
    <3> QED
      BY <2>3, <2>6, <3>1, Zenon
  <2>8. OptionStops(s)
    <3>1. CASE k < 2
      BY <2>7, <3>1, Zenon DEF OptionStops
    <3>2. CASE ~(k < 2)
      <4>1. PICK x \in String : s = Cat(h, x)
        BY <2>7, <3>2, Zenon
      <4>2. OptionEnd(s) = 2 + l
        <5>1. LET d == Cat(OptionHead(t, l), x)
              IN OptionEnd(d) = 2 + l
          BY <2>3, OptionHeaded, SMT
        <5> QED
          BY <2>2, <4>1, <5>1, Zenon
      <4> QED
        BY <2>5, <2>7, <4>2, Zenon DEF OptionStops, Cut
    <3> QED
      BY <3>1, <3>2, Zenon
  <2>9. CASE OptionsStop(s)
    BY <2>6, <2>7, <2>9, OptionsUnfold, Zenon DEF OptionsStep
  <2>10. CASE ~OptionsStop(s) /\ s[1] = 0
    <3>1. Options[s] = Options[Tail(s)]
      BY <2>7, <2>10, OptionsUnfold, Zenon DEF OptionsStep
    <3>2. ~(k < 2) => s[1] # 0
      <4> SUFFICES ASSUME ~(k < 2) PROVE s[1] # 0
        OBVIOUS
      <4>1. PICK x \in String : s = Cat(h, x)
        BY <2>7, Zenon
      <4>2. LET d == Cat(OptionHead(t, l), x) IN d[1] # 0
        BY <2>3, OptionHeaded, SMT
      <4> QED
        BY <2>2, <4>1, <4>2, Zenon
    <3>3. k < 2
      BY <2>10, <3>2, Zenon
    <3>4. s # <<>>
      BY <2>10, SMT DEF OptionsStop
    <3>5. Tail(s) \in String /\ Len(Tail(s)) < Len(s)
      BY <2>7, <3>4, TailBelow, Zenon
    <3>6. Len(Tail(s)) = 0
      <4>1. Len(Tail(s)) \in Nat
        BY <3>5, CatProps, Zenon
      <4> QED
        BY <2>7, <3>3, <3>5, <4>1, SMT
    <3>7. Tail(s) = <<>>
      BY <3>5, <3>6, CatEmpty, Zenon
    <3> QED
      BY <2>6, <3>1, <3>7, OptionsEnd, Zenon
  <2>11. CASE ~OptionsStop(s) /\ s[1] # 0
    BY <2>6, <2>7, <2>8, <2>11, OptionsUnfold, Zenon DEF OptionsStep
  <2> QED
    BY <2>9, <2>10, <2>11, Zenon
<1>3. \A e \in OptionItems : OptionEnc[e] \in String
  BY OptionItemIs, Zenon
<1>4. OptionEnc \in [OptionItems -> String]
  <2>1. OptionEnc = [e \in OptionItems |-> OptionEnc[e]]
    BY SMT DEF OptionEnc
  <2> HIDE DEF OptionEnc
  <2> QED
    BY <1>3, <2>1, Zenon
<1> QED
  BY <1>1, <1>2, <1>4, Zenon DEF ReadsItems

\* Where the items end.
LEMMA LldpEnds == Tlv(0, <<>>) \in String /\ Ends(LldpTlvs, Tlv(0, <<>>))
<1>1. LldpFits(0, 0) /\ <<>> \in String /\ Len(<<>>) = 0
  BY CatEmpty, SMT DEF LldpFits
<1>2. PICK h \in String : h = LldpHead(0, 0) /\ Len(h) = 2 /\ h[1] \div 2 = 0
  BY <1>1, LldpHeadIs, Zenon
<1>3. Tlv(0, <<>>) = h
  <2>1. Tlv(0, <<>>) = Cat(h, <<>>)
    BY <1>1, <1>2, SMT DEF Tlv, LldpHead, Cat
  <2> QED
    BY <2>1, CatEmpty, Zenon
<1>4. ASSUME NEW k \in Nat, k <= Len(h) PROVE LldpTlvs[Slice(h, 0, k)] = <<>>
  <2>1. PICK s \in String : s = Slice(h, 0, k) /\ Len(s) = k
    <3>1. k <= Len(Cat(h, <<>>)) /\ Cat(h, <<>>) = h
      BY <1>4, CatEmpty, Zenon
    <3> QED
      BY <1>1, <3>1, FramedCut, Zenon
  <2>2. LldpStops(s)
    <3>1. CASE k < 2
      BY <2>1, <3>1, Zenon DEF LldpStops
    <3>2. CASE ~(k < 2)
      <4>1. k = Len(h)
        <5>1. Len(h) = 2
          BY <1>2, Zenon
        <5> QED
          BY <1>4, <3>2, <5>1, SMT
      <4>2. s = h
        BY <2>1, <4>1, SliceAll, Zenon
      <4> QED
        BY <1>2, <4>2, Zenon DEF LldpStops
    <3> QED
      BY <3>1, <3>2, Zenon
  <2> QED
    BY <2>1, <2>2, LldpTlvsUnfold, Zenon DEF LldpStep
<1> QED
  BY <1>3, <1>4, Zenon DEF Ends

LEMMA NoneLeft ==
  ASSUME NEW k \in Nat, k <= Len(<<>>)
  PROVE  Slice(<<>>, 0, k) = <<>>
<1>1. <<>> \in String /\ Len(<<>>) = 0
  BY CatEmpty, Zenon
<1>2. k = Len(<<>>)
  BY <1>1, SMT
<1> QED
  BY <1>1, <1>2, SliceAll, Zenon

LEMMA CdpEnds == <<>> \in String /\ Ends(CdpTlvs, <<>>)
<1>1. <<>> \in String /\ Len(<<>>) = 0 /\ 0 < 4
  BY CatEmpty, SMT
<1>2. CdpStops(<<>>)
  BY <1>1, Zenon DEF CdpStops
<1>3. CdpTlvs[<<>>] = <<>>
  BY <1>1, <1>2, CdpTlvsUnfold, Zenon DEF CdpStep
<1> QED
  BY <1>1, <1>3, NoneLeft, Zenon DEF Ends

LEMMA OptionEnds == One(255) \in String /\ Ends(Options, One(255))
<1>1. PICK e \in String : e = One(255) /\ Len(e) = 1 /\ e[1] = 255
  <2>1. 255 \in Octet
    BY OctetIs, SMT
  <2> QED
    BY <2>1, OneProps, SMT
<1>2. ASSUME NEW k \in Nat, k <= Len(e) PROVE Options[Slice(e, 0, k)] = <<>>
  <2>1. CASE k = 0
    <3>1. Slice(e, 0, k) \in String /\ Len(Slice(e, 0, k)) = k
      <4>1. k <= Len(Cat(e, <<>>)) /\ Cat(e, <<>>) = e /\ <<>> \in String
        BY <1>2, CatEmpty, Zenon
      <4>2. /\ Slice(Cat(e, <<>>), 0, k) \in String
            /\ Len(Slice(Cat(e, <<>>), 0, k)) = k
        BY <4>1, FramedCut, Zenon
      <4> QED
        BY <4>1, <4>2, Zenon
    <3>2. Slice(e, 0, k) = <<>>
      BY <2>1, <3>1, CatEmpty, Zenon
    <3> QED
      BY <3>2, OptionsEnd, SMT
  <2>2. CASE k # 0
    <3>1. k = Len(e)
      <4>1. Len(e) = 1
        BY <1>1, SMT
      <4> QED
        BY <1>2, <2>2, <4>1, SMT
    <3>2. Slice(e, 0, k) = e
      BY <3>1, SliceAll, Zenon
    <3>3. e # <<>>
      BY <1>1, CatEmpty, SMT
    <3> QED
      BY <1>1, <3>2, <3>3, OptionsEnd, SMT
  <2> QED
    BY <2>1, <2>2, Zenon
<1> QED
  BY <1>1, <1>2, SMT DEF Ends

-----------------------------------------------------------------------------
(* Items of different types, and the fields they set.                      *)

Distinct(s) == \A i, j \in 1 .. Len(s) : s[i].type = s[j].type => i = j
ItemsOf(s) == {s[i] : i \in 1 .. Len(s)}

\* These items, in some order, are written as this string.
Encodes(T, enc, items, b) ==
  \E s \in Seq(T) : Distinct(s) /\ ItemsOf(s) = items /\ Written(enc, s) = b

LEMMA EncodesNone ==
  ASSUME NEW T, NEW enc \in [T -> String]
  PROVE  Encodes(T, enc, {}, <<>>)
<1>1. PICK s \in Seq(T) : s = <<>>
  <2>1. <<>> \in Seq(T)
    OBVIOUS
  <2> QED
    BY <2>1, Zenon
<1>2. Distinct(s) /\ ItemsOf(s) = {}
  BY <1>1 DEF Distinct, ItemsOf
<1>3. Written(enc, s) = <<>>
  BY <1>1, WrittenUnfolds, Zenon
<1> QED
  BY <1>2, <1>3, Zenon DEF Encodes

LEMMA EncodesMore ==
  ASSUME NEW T, NEW enc \in [T -> String], NEW items, NEW b, Encodes(T, enc, items, b),
         NEW e \in T, \A x \in items : x.type # e.type
  PROVE  Encodes(T, enc, items \cup {e}, Cat(b, enc[e]))
<1>1. PICK s \in Seq(T) : Distinct(s) /\ ItemsOf(s) = items /\ Written(enc, s) = b
  BY Zenon DEF Encodes
<1>2. PICK u : u = s \o <<e>>
  OBVIOUS
<1>3. /\ u \in Seq(T) /\ Len(u) = Len(s) + 1 /\ Len(s) \in Nat /\ u[Len(s) + 1] = e
      /\ \A i \in 1 .. Len(s) : u[i] = s[i]
  BY <1>2
<1>4. ItemsOf(u) = items \cup {e}
  <2>1. \A i \in 1 .. Len(u) : i \in 1 .. Len(s) \/ i = Len(s) + 1
    BY <1>3
  <2>2. Len(s) + 1 \in 1 .. Len(u) /\ \A i \in 1 .. Len(s) : i \in 1 .. Len(u)
    BY <1>3
  <2>3. ItemsOf(u) = ItemsOf(s) \cup {e}
    BY <1>3, <2>1, <2>2, Zenon DEF ItemsOf
  <2> QED
    BY <1>1, <2>3, Zenon
<1>5. ASSUME NEW i \in 1 .. Len(u), NEW j \in 1 .. Len(u), u[i].type = u[j].type PROVE i = j
  <2>1. \A k \in 1 .. Len(s) : s[k].type # e.type
    BY <1>1, Zenon DEF ItemsOf
  <2>2. (i \in 1 .. Len(s) \/ i = Len(s) + 1) /\ (j \in 1 .. Len(s) \/ j = Len(s) + 1)
    BY <1>3
  <2>3. \A k \in 1 .. Len(s), l \in 1 .. Len(s) : s[k].type = s[l].type => k = l
    BY <1>1, Zenon DEF Distinct
  <2> QED
    BY <1>3, <1>5, <2>1, <2>2, <2>3, Zenon
<1>6. Written(enc, u) = Cat(b, enc[e])
  BY <1>1, <1>2, WrittenAppend, Zenon
<1> QED
  BY <1>3, <1>4, <1>5, <1>6, Zenon DEF Encodes, Distinct

\* The same of an item that may be left out.
LEMMA EncodesOptional ==
  ASSUME NEW T, NEW enc \in [T -> String], NEW items, NEW b \in String,
         Encodes(T, enc, items, b), NEW out \in BOOLEAN,
         NEW e, ~out => e \in T, \A x \in items : x.type # e.type
  PROVE  Encodes(T, enc, items \cup (IF out THEN {} ELSE {e}),
                 Cat(b, IF out THEN <<>> ELSE enc[e]))
<1>1. CASE out
  <2>1. Cat(b, <<>>) = b /\ items \cup {} = items
    BY CatEmpty, Zenon
  <2> QED
    BY <1>1, <2>1, Zenon
<1>2. CASE ~out
  BY <1>2, EncodesMore, Zenon
<1> QED
  BY <1>1, <1>2, Zenon

\* The item that sets a field, and the value it sets it from.
Sets(s, at, v) == at # {} /\ s[Max(at)].value = v

LEMMA MaxOfOne ==
  ASSUME NEW i \in Nat
  PROVE  Max({i}) = i
BY SMT DEF Max

LEMMA FieldSet ==
  ASSUME NEW T \in SUBSET Tlvs, NEW s \in Seq(T), Distinct(s), NEW e \in ItemsOf(s),
         NEW n \in Nat, n <= Len(e.value)
  PROVE  \E i \in 1 .. Len(s) : /\ s[i] = e /\ OfType(s, e.type, n) = {i}
                                /\ Max({i}) = i /\ Sets(s, OfType(s, e.type, n), e.value)
<1>1. PICK i \in 1 .. Len(s) : s[i] = e
  BY Zenon DEF ItemsOf
<1>2. Len(s) \in Nat /\ DOMAIN s = 1 .. Len(s) /\ i \in Nat
  OBVIOUS
<1>3. e \in T
  BY <1>1
<1>4. Len(e.value) \in Nat
  BY <1>3, TlvsParts, Zenon
<1>5. Len(e.value) >= n
  BY <1>4, SMT
<1>6. \A j \in 1 .. Len(s) : s[j].type = e.type => j = i
  BY <1>1, Zenon DEF Distinct
<1>7. OfType(s, e.type, n) = {i}
  BY <1>1, <1>2, <1>5, <1>6, Zenon DEF OfType
<1>8. Max({i}) = i
  BY <1>2, MaxOfOne, Zenon
<1>9. Sets(s, OfType(s, e.type, n), e.value)
  BY <1>1, <1>7, <1>8, SMT DEF Sets
<1> QED
  BY <1>1, <1>7, <1>8, <1>9, Zenon

LEMMA FieldUnset ==
  ASSUME NEW T \in SUBSET Tlvs, NEW s \in Seq(T), NEW t, NEW n,
         \A e \in ItemsOf(s) : e.type # t
  PROVE  OfType(s, t, n) = {}
<1>1. DOMAIN s = 1 .. Len(s)
  OBVIOUS
<1> QED
  BY <1>1, Zenon DEF OfType, ItemsOf

OnlyAt(r, s, t, n, i) ==
  r[i] = s[i] /\ Max({i}) = i /\ OfType(r, t, n) = {i} /\ OfType(s, t, n) = {i}

\* When only the first items are there, a field is set as it was, or not at all.
LEMMA FieldCut ==
  ASSUME NEW T \in SUBSET Tlvs, NEW s \in Seq(T), Distinct(s), NEW r, IsStart(r, s, T),
         NEW t, NEW n, NEW i \in OfType(r, t, n)
  PROVE  OnlyAt(r, s, t, n, i)
<1>1. /\ r \in Seq(T) /\ Len(r) <= Len(s) /\ Len(r) \in Nat /\ Len(s) \in Nat
      /\ DOMAIN r = 1 .. Len(r) /\ DOMAIN s = 1 .. Len(s)
  BY DEF IsStart
<1>2. \A j \in 1 .. Len(r) : j \in 1 .. Len(s) /\ r[j] = s[j]
  <2>1. \A j \in 1 .. Len(r) : j \in 1 .. Len(s)
    BY <1>1
  <2> QED
    BY <2>1, Zenon DEF IsStart
<1>3. i \in 1 .. Len(r) /\ r[i].type = t /\ Len(r[i].value) >= n
  BY <1>1, Zenon DEF OfType
<1>4. \A j \in 1 .. Len(s) : s[j].type = t => j = i
  BY <1>2, <1>3, Zenon DEF Distinct
<1>5. OfType(s, t, n) = {i}
  BY <1>1, <1>2, <1>3, <1>4, Zenon DEF OfType
<1>6. OfType(r, t, n) = {i}
  BY <1>1, <1>2, <1>3, <1>4, Zenon DEF OfType
<1>7. i \in Nat
  BY <1>1, <1>3
<1> QED
  BY <1>2, <1>3, <1>5, <1>6, <1>7, MaxOfOne, Zenon DEF OnlyAt

\* The same with the types of the items that have been written so far.
Holds(T, enc, types, items, b) ==
  /\ Encodes(T, enc, items, b)
  /\ \A x \in items : x.type \in types
  /\ b \in String

LEMMA HoldsNone ==
  ASSUME NEW T, NEW enc \in [T -> String]
  PROVE  Holds(T, enc, {}, {}, <<>>)
BY EncodesNone, CatEmpty, Zenon DEF Holds

LEMMA HoldsMore ==
  ASSUME NEW T, NEW enc \in [T -> String], NEW types, NEW items, NEW b,
         Holds(T, enc, types, items, b), NEW e \in T, e.type \notin types
  PROVE  Holds(T, enc, types \cup {e.type}, items \cup {e}, Cat(b, enc[e]))
<1>1. Encodes(T, enc, items, b) /\ b \in String /\ \A x \in items : x.type \in types
  BY Zenon DEF Holds
<1>2. \A x \in items : x.type # e.type
  BY <1>1, Zenon
<1>3. Encodes(T, enc, items \cup {e}, Cat(b, enc[e]))
  BY <1>1, <1>2, EncodesMore, Zenon
<1>4. \A x \in items \cup {e} : x.type \in types \cup {e.type}
  BY <1>1, Zenon
<1>5. enc[e] \in String
  BY Zenon
<1>6. Cat(b, enc[e]) \in String
  BY <1>1, <1>5, CatProps, Zenon
<1> QED
  BY <1>3, <1>4, <1>6, Zenon DEF Holds

LEMMA HoldsOptional ==
  ASSUME NEW T, NEW enc \in [T -> String], NEW types, NEW items, NEW b,
         Holds(T, enc, types, items, b), NEW out \in BOOLEAN,
         NEW e, ~out => e \in T, e.type \notin types
  PROVE  Holds(T, enc, types \cup {e.type}, items \cup (IF out THEN {} ELSE {e}),
               Cat(b, IF out THEN <<>> ELSE enc[e]))
<1>1. CASE out
  <2>1. b \in String /\ \A x \in items : x.type \in types \cup {e.type}
    BY Zenon DEF Holds
  <2>2. Cat(b, <<>>) = b /\ items \cup {} = items
    BY <2>1, CatEmpty, Zenon
  <2>3. Holds(T, enc, types \cup {e.type}, items, b)
    BY <2>1, Zenon DEF Holds
  <2> QED
    BY <1>1, <2>2, <2>3, Zenon
<1>2. CASE ~out
  BY <1>2, HoldsMore, Zenon
<1> QED
  BY <1>1, <1>2, Zenon

-----------------------------------------------------------------------------
(* Frames, whole and cut off, by their EtherTypes.                         *)

\* The numbers of two octets.
Wide(n) == n \in Int /\ 0 <= n /\ n <= 65535
High(n) == n \div 256

EthHead(dst, src, type) == Cat(Cat(dst, src), InOctets(type, 2))

\* A frame that has this EtherType, whose octets are these two.
IsOf(f, type, hi) == f \in String /\ Len(f) >= 14 /\ EtherType(f) = type /\ f[13] = hi

LEMMA Octets2 ==
  ASSUME NEW n, Wide(n)
  PROVE  InOctets(n, 2)[1] = High(n)
<1>1. n \in Int /\ 0 <= n /\ n <= 65535
  BY SMT DEF Wide
<1>2. InOctets(n, 2) = [i \in 1 .. 2 |-> (n \div Pow(2 - i)) % 256]
  BY InOctetsPow, Zenon
<1>3. 1 \in 1 .. 2 /\ 2 - 1 = 1
  BY SMT
<1>4. InOctets(n, 2)[1] = (n \div Pow(1)) % 256
  BY <1>2, <1>3, SMT
<1>5. (n \div 256) % 256 = n \div 256
  BY <1>1, SMT
<1> QED
  BY <1>4, <1>5, PowBelow4, SMT DEF High

\* h is a header of this EtherType in front of x.
EthFrame(h, x, type, hi) ==
  h \in String /\ Len(h) = 14 /\ Rest(Cat(h, x), 14) = x /\ IsOf(Cat(h, x), type, hi)

LEMMA EthIs ==
  ASSUME NEW dst \in String, Len(dst) = 6, NEW src \in String, Len(src) = 6,
         NEW type, Wide(type), NEW hi, hi = High(type),
         NEW x \in String
  PROVE  EthFrame(EthHead(dst, src, type), x, type, hi)
<1>1. PICK ds \in String : ds = Cat(dst, src) /\ Len(ds) = 12
  <2>1. Cat(dst, src) \in String /\ Len(Cat(dst, src)) = Len(dst) + Len(src)
    BY CatProps, Zenon
  <2>2. Len(dst) + Len(src) = 12
    BY SMT
  <2> QED
    BY <2>1, <2>2, Zenon
<1>2. PICK ty \in String : ty = InOctets(type, 2) /\ Len(ty) = 2 /\ Number[ty] = type /\ ty[1] = hi
  <2>1. 2 \in 1 .. 4 /\ type \in Int
    BY SMT DEF Wide
  <2>2. InOctets(type, 2) \in String /\ Len(InOctets(type, 2)) = 2
    BY <2>1, InOctetsString, Zenon
  <2>3. Number[InOctets(type, 2)] = type
    BY NumberRead2, SMT DEF Wide
  <2>4. InOctets(type, 2)[1] = hi
    BY Octets2, Zenon
  <2> QED
    BY <2>2, <2>3, <2>4, Zenon
<1>3. PICK h : h = Cat(ds, ty)
  OBVIOUS
<1>4. h = EthHead(dst, src, type)
  BY <1>1, <1>2, <1>3, Zenon DEF EthHead
<1>5. h \in String /\ Len(h) = 14 /\ h[13] = hi
  <2>1. /\ Cat(ds, ty) \in String /\ Len(Cat(ds, ty)) = Len(ds) + Len(ty)
        /\ \A i \in 1 .. Len(ty) : Cat(ds, ty)[Len(ds) + i] = ty[i]
    BY CatProps, Zenon
  <2>2. 1 \in 1 .. Len(ty) /\ Len(ds) + 1 = 13 /\ Len(ds) + Len(ty) = 14
    <3>1. Len(ds) = 12 /\ Len(ty) = 2
      BY <1>1, <1>2, Zenon
    <3> QED
      BY <3>1, SMT
  <2>3. Cat(ds, ty)[Len(ds) + 1] = ty[1]
    BY <2>1, <2>2, Zenon
  <2> QED
    BY <1>2, <1>3, <2>1, <2>2, <2>3, Zenon
<1>6. PICK f : f = Cat(h, x)
  OBVIOUS
<1>7. /\ f \in String /\ Len(f) = Len(h) + Len(x) /\ Len(x) \in Nat
      /\ \A i \in 1 .. Len(h) : f[i] = h[i]
  BY <1>5, <1>6, CatProps, Zenon
<1>8. f[13] = hi /\ Len(f) >= 14
  <2>1. Len(f) >= 14 /\ 13 \in 1 .. Len(h)
    BY <1>5, <1>7, SMT
  <2> QED
    BY <1>5, <1>7, <2>1, Zenon
<1>9. Rest(f, 14) = x
  <2>1. Rest(Cat(h, x), Len(h)) = x
    BY <1>5, RestOfCat, Zenon
  <2> QED
    BY <1>5, <1>6, <2>1, Zenon
<1>10. Slice(f, 12, 14) = ty
  <2>1. Cat(Cat(ds, ty), x) = Cat(ds, Cat(ty, x))
    BY CatAssoc, Zenon
  <2>2. Slice(Cat(ds, Cat(ty, x)), Len(ds), Len(ds) + Len(ty)) = ty
    BY SliceOfCat, Zenon
  <2>3. Len(ds) + Len(ty) = 14
    <3>1. Len(ds) = 12 /\ Len(ty) = 2
      BY <1>1, <1>2, Zenon
    <3> QED
      BY <3>1, SMT
  <2> QED
    BY <1>1, <1>3, <1>6, <2>1, <2>2, <2>3, Zenon
<1>11. EtherType(f) = type
  BY <1>2, <1>10, Zenon DEF EtherType
<1> QED
  BY <1>4, <1>5, <1>6, <1>7, <1>8, <1>9, <1>11, Zenon DEF IsOf, EthFrame

\* The encapsulated form has other octets in the place of the EtherType.
Encapsulated(f) == Slice(f, 12, 22) = <<170, 170>> \o CdpSnap
IsSnap(o) == o = 170

LEMMA NotEncapsulated ==
  ASSUME NEW f \in String, Len(f) < 14 \/ ~IsSnap(f[13])
  PROVE  ~Encapsulated(f)
<1> SUFFICES ASSUME Slice(f, 12, 22) = <<170, 170>> \o CdpSnap PROVE FALSE
  BY Zenon DEF Encapsulated
<1>1. PICK s : s = <<170, 170>> \o CdpSnap
  OBVIOUS
<1>2. Len(s) = 10 /\ s[1] = 170
  BY <1>1 DEF CdpSnap
<1>3. Len(f) \in Nat
  BY CatProps, Zenon
<1>4. s = Slice(f, 12, 22)
  BY <1>1
<1>5. 12 \in Nat /\ 22 \in Nat /\ 1 \in 1 .. Len(s) /\ 12 + 1 = 13
  BY <1>2, SMT
<1>6. s[1] = f[13]
  <2>1. \A i \in 1 .. Len(s) : s[i] = f[12 + i]
    BY <1>4, <1>5, SliceProps, SMT
  <2> QED
    BY <1>5, <2>1, SMT
<1>7. CASE Len(f) < 14
  <2>1. CASE 12 <= Len(f)
    <3>1. 12 <= Len(f) /\ Len(f) <= 22
      BY <1>3, <1>7, <2>1, SMT
    <3>2. Len(Slice(f, 12, 22)) = Len(f) - 12
      BY <1>5, <3>1, SliceProps, SMT
    <3> QED
      BY <1>2, <1>3, <1>4, <1>7, <3>2, SMT
  <2>2. CASE ~(12 <= Len(f))
    <3> DEFINE S == Octet
    <3>1. f \in Seq(S)
      BY Zenon DEF String
    <3>2. Slice(f, 12, 22) = SubSeq(f, 13, Len(f))
      <4>1. ~(22 < Len(f)) /\ 12 + 1 = 13
        BY <1>3, <2>2, SMT
      <4>2. Slice(f, 12, 22) = SubSeq(f, 12 + 1, IF 22 < Len(f) THEN 22 ELSE Len(f))
        BY DEF Slice
      <4> QED
        BY <4>1, <4>2, SMT
    <3> HIDE DEF S
    <3>3. Len(SubSeq(f, 13, Len(f))) = 0
      BY <1>3, <2>2, <3>1
    <3>4. Len(s) = 0
      BY <1>4, <3>2, <3>3, Zenon
    <3> QED
      BY <1>2, <3>4, SMT
  <2> QED
    BY <2>1, <2>2
<1>8. CASE ~IsSnap(f[13])
  BY <1>2, <1>6, <1>8, SMT DEF IsSnap
<1> QED
  BY <1>7, <1>8

LEMMA NoDhcp ==
  ASSUME NEW f, Len(f) \in Nat, Len(f) < 42 \/ EtherType(f) # 2048
  PROVE  HearDhcp(f) = Nothing
<1>1. ~(Len(f) >= 42 /\ EtherType(f) = 2048)
  BY SMT
<1> QED
  BY <1>1 DEF HearDhcp

\* Which parser a frame is given to.
IsLldp(f) == IsOf(f, 35020, 136)
IsCdp(f) == IsOf(f, 8192, 32)
IsDhcp(f) == IsOf(f, 2048, 8)

LEMMA HearsLldp ==
  ASSUME NEW f, IsLldp(f)
  PROVE  Hear(f) = ParseLldp(f)
<1>1. f \in String /\ Len(f) >= 14 /\ EtherType(f) = 35020 /\ f[13] = 136 /\ Len(f) \in Nat
  BY CatProps, SMT DEF IsOf, IsLldp, IsCdp
<1>2. HearDhcp(f) = Nothing
  <2>1. EtherType(f) # 2048
    BY <1>1, SMT
  <2> QED
    BY <1>1, <2>1, NoDhcp, SMT
<1>3. ~Encapsulated(f)
  <2>1. ~IsSnap(f[13])
    BY <1>1, SMT DEF IsSnap
  <2> QED
    BY <1>1, <2>1, NotEncapsulated, SMT
<1>4. EtherType(f) # 8192
  BY <1>1, SMT
<1>5. ParseFrame(f) = ParseLldp(f)
  BY <1>1, <1>3, <1>4, SMT DEF ParseFrame, Encapsulated
<1> QED
  BY <1>2, <1>5, Zenon DEF Hear

LEMMA HearsCdp ==
  ASSUME NEW f, IsCdp(f)
  PROVE  Hear(f) = ParseCdp(f)
<1>1. f \in String /\ Len(f) >= 14 /\ EtherType(f) = 8192 /\ f[13] = 32 /\ Len(f) \in Nat
  BY CatProps, SMT DEF IsOf, IsLldp, IsCdp
<1>2. HearDhcp(f) = Nothing
  <2>1. EtherType(f) # 2048
    BY <1>1, SMT
  <2> QED
    BY <1>1, <2>1, NoDhcp, SMT
<1>3. ~Encapsulated(f)
  <2>1. ~IsSnap(f[13])
    BY <1>1, SMT DEF IsSnap
  <2> QED
    BY <1>1, <2>1, NotEncapsulated, SMT
<1>4. EtherType(f) # 35020
  BY <1>1, SMT
<1>5. ParseFrame(f) = ParseCdp(f)
  BY <1>1, <1>3, <1>4, SMT DEF ParseFrame, Encapsulated
<1> QED
  BY <1>2, <1>5, Zenon DEF Hear

LEMMA HearsDhcp ==
  ASSUME NEW f, IsDhcp(f)
  PROVE  Hear(f) = HearDhcp(f)
<1>1. f \in String /\ Len(f) >= 14 /\ EtherType(f) = 2048 /\ f[13] = 8
  BY SMT DEF IsOf, IsDhcp
<1>2. ~Encapsulated(f)
  <2>1. ~IsSnap(f[13])
    BY <1>1, SMT DEF IsSnap
  <2> QED
    BY <1>1, <2>1, NotEncapsulated, SMT
<1>3. EtherType(f) # 35020 /\ EtherType(f) # 8192
  BY <1>1, SMT
<1>4. ParseFrame(f) = Nothing
  BY <1>2, <1>3, SMT DEF ParseFrame, Encapsulated
<1> QED
  BY <1>4, Zenon DEF Hear

LEMMA HearsNothing ==
  ASSUME NEW f \in String, Len(f) < 14
  PROVE  Hear(f) = Nothing
<1>1. Len(f) \in Nat
  BY CatProps, Zenon
<1>2. HearDhcp(f) = Nothing
  <2>1. Len(f) < 42
    BY <1>1, SMT
  <2> QED
    BY <1>1, <2>1, NoDhcp, SMT
<1>3. ~Encapsulated(f)
  BY NotEncapsulated, Zenon
<1>4. ~(Len(f) >= 14)
  BY <1>1, SMT
<1>5. ParseFrame(f) = Nothing
  BY <1>3, <1>4, SMT DEF ParseFrame, Encapsulated
<1> QED
  BY <1>2, <1>5, Zenon DEF Hear

\* What is cut off, if it is not in the first part.
LEMMA CutBehind ==
  ASSUME NEW a \in String, NEW c \in String, NEW n \in Nat, n <= Len(Cat(a, c)), ~(n < Len(a))
  PROVE  \E k \in Nat : k <= Len(c) /\ Slice(Cat(a, c), 0, n) = Cat(a, Slice(c, 0, k))
<1>1. Len(a) \in Nat /\ Len(c) \in Nat /\ Len(Cat(a, c)) = Len(a) + Len(c)
  BY CatProps, Zenon
<1>2. PICK k \in Nat : n = Len(a) + k /\ k <= Len(c)
  <2>1. n - Len(a) \in Nat /\ n = Len(a) + (n - Len(a)) /\ n - Len(a) <= Len(c)
    BY <1>1, SMT
  <2> QED
    BY <2>1, Zenon
<1>3. Slice(Cat(a, c), 0, Len(a) + k) = Cat(a, Slice(c, 0, k))
  BY <1>2, HeadBeyond, Zenon
<1> QED
  BY <1>2, <1>3, Zenon

-----------------------------------------------------------------------------
(* What follows a prefix: the items written so far.                        *)

Item(t, v) == [type |-> t, value |-> v]

LEMMA ItemIs ==
  ASSUME NEW t, NEW v
  PROVE  /\ Item(t, v).type = t /\ Item(t, v).value = v
         /\ t \in Nat /\ v \in String => Item(t, v) \in Tlvs
BY SMT DEF Item, Tlvs

After(T, enc, p, types, items, B) ==
  \E b : Holds(T, enc, types, items, b) /\ B = Cat(p, b)

LEMMA AfterNone ==
  ASSUME NEW T, NEW enc \in [T -> String], NEW p \in String
  PROVE  After(T, enc, p, {}, {}, p)
<1>1. Cat(p, <<>>) = p
  BY CatEmpty, Zenon
<1> QED
  BY <1>1, HoldsNone, Zenon DEF After

LEMMA AfterMore ==
  ASSUME NEW T, NEW enc \in [T -> String], NEW p \in String, NEW types, NEW items, NEW B,
         After(T, enc, p, types, items, B), NEW t, t \notin types, NEW v, Item(t, v) \in T,
         NEW c, enc[Item(t, v)] = c
  PROVE  After(T, enc, p, types \cup {t}, items \cup {Item(t, v)}, Cat(B, c))
<1>1. PICK b : Holds(T, enc, types, items, b) /\ B = Cat(p, b)
  BY Zenon DEF After
<1>2. PICK e \in T : e = Item(t, v) /\ e.type = t /\ enc[e] = c
  BY ItemIs, Zenon
<1>3. Holds(T, enc, types \cup {e.type}, items \cup {e}, Cat(b, enc[e]))
  BY <1>1, <1>2, HoldsMore, Zenon
<1>4. b \in String /\ enc[e] \in String
  BY <1>1, Zenon DEF Holds
<1>5. Cat(Cat(p, b), enc[e]) = Cat(p, Cat(b, enc[e]))
  BY <1>4, CatAssoc, Zenon
<1> QED
  BY <1>1, <1>2, <1>3, <1>5, Zenon DEF After

LEMMA AfterOptional ==
  ASSUME NEW T, NEW enc \in [T -> String], NEW p \in String, NEW types, NEW items, NEW B,
         After(T, enc, p, types, items, B), NEW t, t \notin types, NEW v, NEW out \in BOOLEAN,
         NEW c, ~out => Item(t, v) \in T /\ enc[Item(t, v)] = c
  PROVE  After(T, enc, p, types \cup {t}, items \cup (IF out THEN {} ELSE {Item(t, v)}),
               Cat(B, IF out THEN <<>> ELSE c))
<1>1. CASE out
  <2>1. PICK b : Holds(T, enc, types, items, b) /\ B = Cat(p, b)
    BY Zenon DEF After
  <2>2. Holds(T, enc, types \cup {t}, items, b) /\ b \in String
    BY <2>1, Zenon DEF Holds
  <2>3. B \in String
    BY <2>1, <2>2, CatProps, Zenon
  <2>4. Cat(B, <<>>) = B /\ items \cup {} = items
    BY <2>3, CatEmpty, Zenon
  <2>5. After(T, enc, p, types \cup {t}, items, B)
    BY <2>1, <2>2, Zenon DEF After
  <2> QED
    BY <1>1, <2>4, <2>5, Zenon
<1>2. CASE ~out
  BY <1>2, AfterMore, Zenon
<1> QED
  BY <1>1, <1>2, Zenon

\* These items are read from y, and the first of them from what is cut off of y.
ReadFrom(f, T, s, items, y) ==
  /\ s \in Seq(T) /\ Distinct(s) /\ ItemsOf(s) = items
  /\ y \in String /\ f[y] = s
  /\ \A n \in Nat : n <= Len(y) => IsStart(f[Slice(y, 0, n)], s, T)

ReadAfter(f, T, types, items, p, all) ==
  /\ \A x \in items : x.type \in types
  /\ \E s, y : ReadFrom(f, T, s, items, y) /\ all = Cat(p, y)

LEMMA AfterRead ==
  ASSUME NEW T, NEW enc \in [T -> String], NEW p \in String, NEW types, NEW items, NEW B,
         After(T, enc, p, types, items, B),
         NEW f, ReadsItems(f, T, enc), NEW end \in String, Ends(f, end)
  PROVE  ReadAfter(f, T, types, items, p, Cat(B, end))
<1>1. PICK b : Holds(T, enc, types, items, b) /\ B = Cat(p, b)
  BY Zenon DEF After
<1>2. /\ b \in String /\ \A x \in items : x.type \in types
      /\ \E s \in Seq(T) : Distinct(s) /\ ItemsOf(s) = items /\ Written(enc, s) = b
  BY <1>1, Zenon DEF Holds, Encodes
<1>3. PICK s \in Seq(T) : Distinct(s) /\ ItemsOf(s) = items /\ Written(enc, s) = b
  BY <1>2, Zenon
<1>4. PICK y : y = Cat(b, end)
  OBVIOUS
<1>5. y \in String /\ Cat(B, end) = Cat(p, y)
  BY <1>1, <1>2, <1>4, CatProps, CatAssoc, Zenon
<1>6. f[y] = s /\ \A n \in Nat : n <= Len(y) => IsStart(f[Slice(y, 0, n)], s, T)
  <2>1. /\ f[Cat(Written(enc, s), end)] = s
        /\ \A n \in Nat : n <= Len(Cat(Written(enc, s), end)) =>
             IsStart(f[Slice(Cat(Written(enc, s), end), 0, n)], s, T)
    BY ItemsRead, Zenon
  <2> QED
    BY <1>3, <1>4, <2>1, Zenon
<1>7. ReadFrom(f, T, s, items, y)
  BY <1>3, <1>5, <1>6, Zenon DEF ReadFrom
<1> QED
  BY <1>2, <1>5, <1>7, Zenon DEF ReadAfter

\* What a field is read from: of the items, and of the first of them.
Less(r, s, atr, ats) == atr = {} \/ (atr # {} /\ ats = atr /\ r[Max(atr)] = s[Max(ats)])

LEMMA ItemGives ==
  ASSUME NEW f, NEW T \in SUBSET Tlvs, NEW s, NEW items, NEW y, ReadFrom(f, T, s, items, y),
         NEW t, NEW v, Item(t, v) \in items, NEW n \in Nat, n <= Len(v)
  PROVE  Sets(s, OfType(s, t, n), v)
<1>1. s \in Seq(T) /\ Distinct(s) /\ ItemsOf(s) = items
  BY Zenon DEF ReadFrom
<1>2. PICK e : e = Item(t, v) /\ e.type = t /\ e.value = v
  BY ItemIs, Zenon
<1>3. e \in ItemsOf(s) /\ n <= Len(e.value)
  BY <1>1, <1>2, Zenon
<1>4. Sets(s, OfType(s, e.type, n), e.value)
  BY <1>1, <1>3, FieldSet, Zenon
<1> QED
  BY <1>2, <1>4, Zenon

LEMMA NoItemGives ==
  ASSUME NEW f, NEW T \in SUBSET Tlvs, NEW s, NEW items, NEW y, ReadFrom(f, T, s, items, y),
         NEW t, \A x \in items : x.type # t, NEW n
  PROVE  OfType(s, t, n) = {}
<1>1. s \in Seq(T) /\ ItemsOf(s) = items
  BY Zenon DEF ReadFrom
<1>2. \A x \in ItemsOf(s) : x.type # t
  BY <1>1, Zenon
<1> QED
  BY <1>1, <1>2, FieldUnset, Zenon

LEMMA CutGives ==
  ASSUME NEW T \in SUBSET Tlvs, NEW s \in Seq(T), Distinct(s), NEW r, IsStart(r, s, T),
         NEW t, NEW n
  PROVE  Less(r, s, OfType(r, t, n), OfType(s, t, n))
<1>1. CASE OfType(r, t, n) = {}
  BY <1>1, Zenon DEF Less
<1>2. CASE OfType(r, t, n) # {}
  <2>1. PICK i : i \in OfType(r, t, n)
    BY <1>2, Zenon
  <2>2. OnlyAt(r, s, t, n, i)
    BY <2>1, FieldCut, Zenon
  <2> QED
    BY <2>2, Zenon DEF Less, OnlyAt
<1> QED
  BY <1>1, <1>2, Zenon

-----------------------------------------------------------------------------
(* The values of single items, as they are read.                           *)

LEMMA TextIs ==
  ASSUME NEW n \in Nat, NEW b \in Texts(n)
  PROVE  /\ b \in String /\ Len(b) \in Nat /\ Len(b) <= n /\ DecodeText(b) = Text(b)
         /\ b # <<>> => DecodeIdentity(b) = Text(b) /\ ~IsBlank(Text(b)) /\ 1 <= Len(b)
<1>1. b \in Seq(Octet) /\ Len(b) <= n /\ Clean(b) = b /\ OnlyIn(b, Printable)
  BY Zenon DEF Texts
<1>2. b \in String
  BY <1>1, Zenon DEF String
<1>3. Len(b) \in Nat
  BY <1>2, CatProps, Zenon
<1>4. DecodeText(b) = Text(b)
  BY <1>1, Zenon DEF DecodeText
<1>5. ASSUME b # <<>> PROVE DecodeIdentity(b) = Text(b)
  BY <1>1, <1>5, Zenon DEF DecodeIdentity
<1>6. ASSUME b # <<>> PROVE 1 <= Len(b)
  <2>1. Len(b) # 0
    BY <1>2, <1>6, CatEmpty, Zenon
  <2> QED
    BY <1>3, <2>1, SMT
<1>7. ASSUME b # <<>> PROVE ~IsBlank(Text(b))
  BY <1>7, SMT DEF IsBlank, Text
<1> QED
  BY <1>1, <1>2, <1>3, <1>4, <1>5, <1>6, <1>7, Zenon

\* Octets in front of a string.
LEMMA Prefixed ==
  ASSUME NEW o \in Octet, NEW b \in String
  PROVE  /\ Cat(One(o), b) \in String /\ Len(Cat(One(o), b)) = 1 + Len(b)
         /\ Cat(One(o), b)[1] = o /\ Rest(Cat(One(o), b), 1) = b
         /\ Slice(Cat(One(o), b), 1, 1 + Len(b)) = b
<1>1. One(o) \in String /\ Len(One(o)) = 1
  BY OneProps, Zenon
<1>2. LET c == Cat(One(o), b)
      IN c \in String /\ c # <<>> /\ c[1] = o /\ Tail(c) = b /\ Len(c) = 1 + Len(b)
  BY TailOfCat, Zenon
<1>3. Rest(Cat(One(o), b), Len(One(o))) = b
  BY <1>1, RestOfCat, Zenon
<1>4. Slice(Cat(One(o), b), Len(One(o)), Len(One(o)) + Len(b)) = b
  BY <1>1, SliceLast, Zenon
<1> QED
  BY <1>1, <1>2, <1>3, <1>4, Zenon

LEMMA ChassisRead ==
  ASSUME NEW c \in String, Len(c) = 6, NEW v, v = Cat(One(4), c)
  PROVE  v \in String /\ Len(v) = 7 /\ ChassisId(v) = Mac(c)
<1>1. 4 \in Octet /\ 1 + 6 = 7
  BY OctetIs, SMT
<1>2. v \in String /\ Len(v) = 7 /\ v[1] = 4 /\ Slice(v, 1, 7) = c
  <2>1. /\ Cat(One(4), c) \in String /\ Len(Cat(One(4), c)) = 1 + Len(c)
        /\ Cat(One(4), c)[1] = 4
        /\ Slice(Cat(One(4), c), 1, 1 + Len(c)) = c
    BY <1>1, Prefixed, Zenon
  <2> QED
    BY <1>1, <2>1, Zenon
<1>3. v[1] = 4 /\ Len(v) >= 7
  <2>1. 7 >= 7
    BY SMT
  <2> QED
    BY <1>2, <2>1, Zenon
<1>4. ChassisId(v) = Mac(Slice(v, 1, 7))
  BY <1>3, SMT DEF ChassisId
<1> QED
  BY <1>2, <1>4, Zenon

LEMMA PortRead ==
  ASSUME NEW n \in Nat, NEW p \in Names(n), NEW v, v = Cat(One(5), p)
  PROVE  v \in String /\ Len(v) = 1 + Len(p) /\ PortId(v) = Text(p)
<1>1. 5 \in Octet
  BY OctetIs, SMT
<1>2. p \in Texts(n) /\ p # <<>>
  BY Zenon DEF Names
<1>3. p \in String /\ Len(p) \in Nat /\ 1 <= Len(p) /\ DecodeIdentity(p) = Text(p)
  BY <1>2, TextIs, Zenon
<1>4. v \in String /\ Len(v) = 1 + Len(p) /\ v[1] = 5 /\ Rest(v, 1) = p
  BY <1>1, <1>3, Prefixed, Zenon
<1>5. v[1] \in {5, 7} /\ Len(v) >= 2 /\ v[1] # 3
  BY <1>3, <1>4, SMT
<1>6. PortId(v) = DecodeIdentity(Rest(v, 1))
  BY <1>5, SMT DEF PortId
<1> QED
  BY <1>3, <1>4, <1>6, Zenon

LEMMA Wide2 ==
  ASSUME NEW n, Wide(n)
  PROVE  InOctets(n, 2) \in String /\ Len(InOctets(n, 2)) = 2 /\ Number[InOctets(n, 2)] = n
<1>1. n \in Int /\ 0 <= n /\ n <= 65535
  BY SMT DEF Wide
<1>2. Number[InOctets(n, 2)] = n
  BY <1>1, NumberRead2, SMT
<1>3. n \in Int /\ 2 \in 1 .. 4
  BY <1>1, SMT
<1> QED
  BY <1>2, <1>3, InOctetsString, Zenon

LEMMA LldpCapsRead ==
  ASSUME NEW c, Wide(c), NEW v, v = Cat(InOctets(c, 2), InOctets(c, 2))
  PROVE  v \in String /\ Len(v) = 4 /\ Capabilities(v, 2, 11) = Bits(c, 11)
<1>1. PICK b \in String : b = InOctets(c, 2) /\ Len(b) = 2 /\ Number[b] = c
  BY Wide2, Zenon
<1>2. Cat(b, b) \in String /\ Len(Cat(b, b)) = Len(b) + Len(b)
  BY CatProps, Zenon
<1>3. v = Cat(b, b) /\ 2 + 2 = 4
  BY <1>1, SMT
<1>4. Slice(Cat(b, b), 0, Len(b)) = b
  BY HeadOfCat, Zenon
<1>5. v \in String /\ Len(v) = 4 /\ Number[Slice(v, 0, 2)] = c
  BY <1>1, <1>2, <1>3, <1>4, Zenon
<1>6. ~(Len(v) < 2)
  BY <1>5, SMT
<1> QED
  BY <1>5, <1>6, Zenon DEF Capabilities

\* The string of four octets.
LEMMA Four ==
  ASSUME NEW a \in Octet, NEW b \in Octet, NEW c \in Octet, NEW d \in Octet
  PROVE  <<a, b, c, d>> \in String /\ Len(<<a, b, c, d>>) = 4
<1>1. <<a, b, c, d>> \in Seq(Octet)
  OBVIOUS
<1>2. Len(<<a, b, c, d>>) = 4
  OBVIOUS
<1> QED
  BY <1>1, <1>2, Zenon DEF String

LEMMA VlanRead ==
  ASSUME NEW n, Wide(n), NEW v, v = Cat(PortVlan, InOctets(n, 2))
  PROVE  v \in String /\ Len(v) = 6 /\ Slice(v, 0, 4) = PortVlan /\ Number[Slice(v, 4, 6)] = n
<1>1. PICK b \in String : b = InOctets(n, 2) /\ Len(b) = 2 /\ Number[b] = n
  BY Wide2, Zenon
<1>2. PICK p \in String : p = PortVlan /\ Len(p) = 4
  <2>1. 0 \in Octet /\ 128 \in Octet /\ 194 \in Octet /\ 1 \in Octet
    BY OctetIs, SMT
  <2> QED
    BY <2>1, Four DEF PortVlan
<1>3. v = Cat(p, b) /\ 4 + 2 = 6
  BY <1>1, <1>2, SMT
<1>4. /\ Cat(p, b) \in String /\ Len(Cat(p, b)) = Len(p) + Len(b)
      /\ Slice(Cat(p, b), 0, Len(p)) = p /\ Slice(Cat(p, b), Len(p), Len(p) + Len(b)) = b
  BY CatProps, HeadOfCat, SliceLast, Zenon
<1> QED
  BY <1>1, <1>2, <1>3, <1>4, Zenon

LEMMA MgmtRead ==
  ASSUME NEW ip \in String, Len(ip) = 4,
         NEW v, v = Cat(Cat(<<5, 1>>, ip), <<1, 0, 0, 0, 1, 0>>)
  PROVE  v \in String /\ Len(v) = 12 /\ MgmtAddrs[v] = <<ip>>
<1>1. 0 \in Octet /\ 1 \in Octet /\ 5 \in Octet
  BY OctetIs, SMT
<1>2. PICK p \in String : p = <<5, 1>> /\ Len(p) = 2 /\ p[1] = 5 /\ p[2] = 1
  <2>1. <<5, 1>> \in Seq(Octet)
    BY <1>1
  <2>2. Len(<<5, 1>>) = 2 /\ <<5, 1>>[1] = 5 /\ <<5, 1>>[2] = 1
    OBVIOUS
  <2> QED
    BY <2>1, <2>2, Zenon DEF String
<1>3. PICK q \in String : q = <<1, 0, 0, 0, 1, 0>> /\ Len(q) = 6 /\ q[6] = 0
  <2>1. <<1, 0, 0, 0, 1, 0>> \in Seq(Octet)
    BY <1>1
  <2>2. Len(<<1, 0, 0, 0, 1, 0>>) = 6 /\ <<1, 0, 0, 0, 1, 0>>[6] = 0
    OBVIOUS
  <2> QED
    BY <2>1, <2>2, Zenon DEF String
<1>4. PICK a \in String : a = Cat(p, ip) /\ Len(a) = 6 /\ a[1] = 5 /\ a[2] = 1
  <2>1. /\ Cat(p, ip) \in String /\ Len(Cat(p, ip)) = Len(p) + Len(ip)
        /\ \A i \in 1 .. Len(p) : Cat(p, ip)[i] = p[i]
    BY CatProps, Zenon
  <2>2. 2 + 4 = 6 /\ 1 \in 1 .. 2 /\ 2 \in 1 .. 2
    BY SMT
  <2> QED
    BY <1>2, <2>1, <2>2, Zenon
<1>5. v \in String /\ v = Cat(a, q) /\ Len(v) = 12 /\ v[1] = 5 /\ v[2] = 1 /\ v[12] = 0
  <2>1. /\ Cat(a, q) \in String /\ Len(Cat(a, q)) = Len(a) + Len(q)
        /\ \A i \in 1 .. Len(a) : Cat(a, q)[i] = a[i]
        /\ \A i \in 1 .. Len(q) : Cat(a, q)[Len(a) + i] = q[i]
    BY CatProps, Zenon
  <2>2. 6 + 6 = 12 /\ 1 \in 1 .. 6 /\ 2 \in 1 .. 6 /\ 6 \in 1 .. 6
    BY SMT
  <2>3. v = Cat(a, q)
    BY <1>2, <1>3, <1>4, Zenon
  <2>4. Len(Cat(a, q)) = 12
    BY <1>3, <1>4, <2>1, <2>2, Zenon
  <2>5. Cat(a, q)[1] = 5 /\ Cat(a, q)[2] = 1
    BY <1>4, <2>1, <2>2, Zenon
  <2>6. Cat(a, q)[12] = 0
    <3>1. Cat(a, q)[Len(a) + 6] = q[6]
      BY <1>3, <2>1, <2>2, Zenon
    <3> QED
      BY <1>3, <1>4, <2>2, <3>1, Zenon
  <2> QED
    BY <2>1, <2>3, <2>4, <2>5, <2>6, Zenon
<1>6. Slice(v, 2, 6) = ip
  <2>1. Cat(Cat(p, ip), q) = Cat(p, Cat(ip, q))
    BY CatAssoc, Zenon
  <2>2. Slice(Cat(p, Cat(ip, q)), Len(p), Len(p) + Len(ip)) = ip
    BY SliceOfCat, Zenon
  <2>3. 2 + 4 = 6
    BY SMT
  <2> QED
    BY <1>2, <1>4, <1>5, <2>1, <2>2, <2>3, Zenon
<1>7. MgmtEnd(v) = 6 /\ MgmtNext(v) = 12
  <2>1. MgmtEnd(v) = 6
    BY <1>5, SMT DEF MgmtEnd
  <2>2. MgmtNext(v) = 6 + 6 + v[6 + 6]
    BY <2>1, Zenon DEF MgmtNext
  <2> QED
    BY <1>5, <2>1, <2>2, SMT
<1>8. ~MgmtStops(v)
  <2>1. v[1] # 0 /\ ~(Len(v) < 6) /\ Len(v) # 0
    BY <1>5, SMT
  <2>2. v # <<>>
    BY <1>5, <2>1, CatEmpty, Zenon
  <2> QED
    BY <1>7, <2>1, <2>2, Zenon DEF MgmtStops
<1>9. MgmtItem(v) = <<ip>>
  BY <1>5, <1>6, <1>7, Zenon DEF MgmtItem
<1>10. MgmtMore(MgmtAddrs, v) = <<>>
  <2>1. ~(Len(v) < 6 + 6)
    BY <1>5, SMT
  <2>2. Rest(v, 12) = <<>>
    <3>1. Len(v) = 12 /\ 12 \in Nat /\ 1 <= 12 /\ 12 <= Len(v) /\ 12 - 12 = 0
      BY <1>5, SMT
    <3>2. Rest(v, 12) \in String /\ Len(Rest(v, 12)) = Len(v) - 12
      BY <1>5, <3>1, RestShrinks, Zenon
    <3> QED
      BY <3>1, <3>2, CatEmpty, Zenon
  <2>3. MgmtAddrs[<<>>] = <<>>
    <3>1. MgmtAddrs[<<>>] = MgmtStep(MgmtAddrs, <<>>)
      BY CatEmpty, MgmtAddrsUnfold, Zenon
    <3> QED
      BY <3>1, Zenon DEF MgmtStep, MgmtStops
  <2> QED
    BY <1>7, <2>1, <2>2, <2>3, Zenon DEF MgmtMore
<1>11. MgmtAddrs[v] = <<ip>> \o <<>>
  BY <1>5, <1>8, <1>9, <1>10, MgmtAddrsUnfold, Zenon DEF MgmtStep
<1>12. <<ip>> \o <<>> = <<ip>>
  <2>1. <<ip>> \in Seq(String)
    OBVIOUS
  <2> QED
    BY <2>1
<1> QED
  BY <1>5, <1>11, <1>12, Zenon

-----------------------------------------------------------------------------
(* LLDP frames.                                                            *)

LldpPart(t) == t \in Nat /\ 1 <= t /\ t <= 127
LldpValue(v) == v \in String /\ Len(v) <= 511
LldpSoFar(types, items, B) == After(LldpItems, LldpEnc, <<>>, types, items, B)

LEMMA LldpItemFits ==
  ASSUME NEW t, LldpPart(t), NEW v, LldpValue(v)
  PROVE  Item(t, v) \in LldpItems /\ LldpEnc[Item(t, v)] = Tlv(t, v)
<1>1. PICK e : e = Item(t, v) /\ e \in Tlvs /\ e.type = t /\ e.value = v
  <2>1. t \in Nat /\ v \in String
    BY SMT DEF LldpPart, LldpValue
  <2> QED
    BY <2>1, ItemIs, Zenon
<1>2. e \in LldpItems
  BY <1>1, SMT DEF LldpPart, LldpValue, LldpItems
<1>3. LldpEnc[e] = Tlv(e.type, e.value)
  BY <1>2, SMT DEF LldpEnc
<1> QED
  BY <1>1, <1>2, <1>3, Zenon

LEMMA LldpMore ==
  ASSUME NEW types, NEW items, NEW B, LldpSoFar(types, items, B),
         NEW t, LldpPart(t), t \notin types, NEW v, LldpValue(v)
  PROVE  LldpSoFar(types \cup {t}, items \cup {Item(t, v)}, Cat(B, Tlv(t, v)))
<1>1. Item(t, v) \in LldpItems /\ LldpEnc[Item(t, v)] = Tlv(t, v)
  BY LldpItemFits, Zenon
<1>2. LldpEnc \in [LldpItems -> String] /\ <<>> \in String
  BY LldpReads, CatEmpty, Zenon
<1>3. After(LldpItems, LldpEnc, <<>>, types, items, B)
  BY Zenon DEF LldpSoFar
<1>4. After(LldpItems, LldpEnc, <<>>, types \cup {t}, items \cup {Item(t, v)}, Cat(B, Tlv(t, v)))
  BY <1>1, <1>2, <1>3, AfterMore, Zenon
<1> QED
  BY <1>4, Zenon DEF LldpSoFar

LEMMA LldpOptional ==
  ASSUME NEW types, NEW items, NEW B, LldpSoFar(types, items, B),
         NEW t, LldpPart(t), t \notin types, NEW v, NEW out \in BOOLEAN, ~out => LldpValue(v)
  PROVE  LldpSoFar(types \cup {t}, items \cup (IF out THEN {} ELSE {Item(t, v)}),
                   Cat(B, IF out THEN <<>> ELSE Tlv(t, v)))
<1>1. ~out => Item(t, v) \in LldpItems /\ LldpEnc[Item(t, v)] = Tlv(t, v)
  BY LldpItemFits, Zenon
<1>2. LldpEnc \in [LldpItems -> String] /\ <<>> \in String
  BY LldpReads, CatEmpty, Zenon
<1>3. After(LldpItems, LldpEnc, <<>>, types, items, B)
  BY Zenon DEF LldpSoFar
<1>4. After(LldpItems, LldpEnc, <<>>, types \cup {t},
            items \cup (IF out THEN {} ELSE {Item(t, v)}),
            Cat(B, IF out THEN <<>> ELSE Tlv(t, v)))
  BY <1>1, <1>2, <1>3, AfterOptional, Zenon
<1> QED
  BY <1>4, Zenon DEF LldpSoFar

\* Texts that fit an LLDP TLV, and those that fit behind an octet.
LldpTexts == Texts(511)
LldpNames == Names(510)

LEMMA LldpTextIs ==
  ASSUME NEW b \in LldpTexts
  PROVE  /\ LldpValue(b) /\ DecodeText(b) = Text(b)
         /\ b # <<>> => ~IsBlank(Text(b))
<1>1. PICK n \in Nat : n = 511
  BY SMT
<1>2. b \in Texts(n)
  BY <1>1, SMT DEF LldpTexts
<1>3. /\ b \in String /\ Len(b) \in Nat /\ Len(b) <= n /\ DecodeText(b) = Text(b)
      /\ b # <<>> => ~IsBlank(Text(b))
  BY <1>2, TextIs, Zenon
<1>4. LldpValue(b)
  <2>1. b \in String /\ Len(b) <= n
    BY <1>3, Zenon
  <2> QED
    BY <1>1, <2>1, SMT DEF LldpValue
<1> QED
  BY <1>3, <1>4, Zenon

LEMMA LldpNameIs ==
  ASSUME NEW p \in LldpNames, NEW v, v = Cat(One(5), p)
  PROVE  LldpValue(v) /\ Len(v) >= 1 /\ PortId(v) = Text(p)
<1>1. PICK n \in Nat : n = 510
  BY SMT
<1>2. p \in Names(n)
  BY <1>1, SMT DEF LldpNames
<1>3. p \in Texts(n)
  BY <1>2, Zenon DEF Names
<1>4. Len(p) \in Nat /\ Len(p) <= n
  BY <1>3, TextIs, Zenon
<1>5. v \in String /\ Len(v) = 1 + Len(p) /\ PortId(v) = Text(p)
  BY <1>2, PortRead, Zenon
<1>6. Len(v) <= 511 /\ Len(v) >= 1
  <2>1. Len(v) = 1 + Len(p)
    BY <1>5, Zenon
  <2> QED
    BY <1>1, <1>4, <2>1, SMT
<1>7. LldpValue(v)
  <2>1. v \in String
    BY <1>5, Zenon
  <2> QED
    BY <1>6, <2>1, SMT DEF LldpValue
<1> QED
  BY <1>5, <1>6, <1>7, Zenon

LEMMA WordIs ==
  ASSUME NEW n \in Word
  PROVE  Wide(n)
BY SMT DEF Word, Wide

LEMMA OctetsIs ==
  ASSUME NEW n, NEW b \in Octets(n)
  PROVE  b \in String /\ Len(b) = n
BY Zenon DEF Octets, String

LEMMA OptionalIs ==
  ASSUME NEW n, NEW b \in Optional(Octets(n)), b # <<>>
  PROVE  b \in String /\ Len(b) = n
BY Zenon DEF Optional, Octets, String

LEMMA LldpFactIs ==
  ASSUME NEW d \in LldpFacts
  PROVE  /\ d.chassis \in String /\ Len(d.chassis) = 6
         /\ d.port \in LldpNames /\ d.name \in LldpTexts /\ d.descr \in LldpTexts
         /\ Wide(d.caps)
         /\ d.ip # <<>> => d.ip \in String /\ Len(d.ip) = 4
         /\ d.vlan # NoVlan => Wide(d.vlan)
<1>1. d \in LldpFact
  BY FactsAssumption, Zenon
<1>2. d \in [chassis : Octets(6), port : LldpNames, name : LldpTexts, descr : LldpTexts,
             caps : Word, ip : Optional(Octets(4)), vlan : Word \cup {NoVlan}]
  BY <1>1, Zenon DEF LldpFact, LldpNames, LldpTexts
<1>3. /\ d.chassis \in Octets(6) /\ d.port \in LldpNames /\ d.name \in LldpTexts
      /\ d.descr \in LldpTexts /\ d.caps \in Word /\ d.ip \in Optional(Octets(4))
      /\ d.vlan \in Word \cup {NoVlan}
  BY <1>2, SMT
<1>4. d.vlan # NoVlan => d.vlan \in Word
  BY <1>3, Zenon
<1> QED
  BY <1>3, <1>4, WordIs, OctetsIs, OptionalIs, Zenon

LldpChassisOf(d) == Cat(One(4), d.chassis)
LldpPortOf(d) == Cat(One(5), d.port)
LldpCapsOf(d) == Cat(InOctets(d.caps, 2), InOctets(d.caps, 2))
LldpIpOf(d) == Cat(Cat(<<5, 1>>, d.ip), <<1, 0, 0, 0, 1, 0>>)
LldpVlanOf(d) == Cat(PortVlan, InOctets(d.vlan, 2))

LEMMA LldpValues ==
  ASSUME NEW d \in LldpFacts
  PROVE  /\ LldpValue(LldpChassisOf(d)) /\ LldpValue(LldpPortOf(d)) /\ LldpValue(<<0, 120>>)
         /\ LldpValue(d.name) /\ LldpValue(d.descr) /\ LldpValue(LldpCapsOf(d))
         /\ d.ip # <<>> => LldpValue(LldpIpOf(d))
         /\ d.vlan # NoVlan => LldpValue(LldpVlanOf(d))
<1>1. LldpValue(LldpChassisOf(d))
  <2>1. LldpChassisOf(d) \in String /\ Len(LldpChassisOf(d)) = 7
    BY LldpFactIs, ChassisRead, Zenon DEF LldpChassisOf
  <2> QED
    BY <2>1, SMT DEF LldpValue
<1>2. LldpValue(LldpPortOf(d))
  BY LldpFactIs, LldpNameIs, Zenon DEF LldpPortOf
<1>3. LldpValue(<<0, 120>>)
  <2>1. <<0, 120>> \in Seq(Octet)
    BY OctetIs, SMT
  <2>2. Len(<<0, 120>>) <= 511
    OBVIOUS
  <2> QED
    BY <2>1, <2>2, SMT DEF LldpValue, String
<1>4. LldpValue(d.name) /\ LldpValue(d.descr)
  BY LldpFactIs, LldpTextIs, Zenon
<1>5. LldpValue(LldpCapsOf(d))
  <2>1. Wide(d.caps)
    BY LldpFactIs, Zenon
  <2>2. LldpCapsOf(d) \in String /\ Len(LldpCapsOf(d)) = 4
    BY <2>1, LldpCapsRead, Zenon DEF LldpCapsOf
  <2> QED
    BY <2>2, SMT DEF LldpValue
<1>6. ASSUME d.ip # <<>> PROVE LldpValue(LldpIpOf(d))
  <2>1. d.ip \in String /\ Len(d.ip) = 4
    BY <1>6, LldpFactIs, Zenon
  <2>2. LldpIpOf(d) \in String /\ Len(LldpIpOf(d)) = 12
    BY <2>1, MgmtRead, Zenon DEF LldpIpOf
  <2> QED
    BY <2>2, SMT DEF LldpValue
<1>7. ASSUME d.vlan # NoVlan PROVE LldpValue(LldpVlanOf(d))
  <2>1. Wide(d.vlan)
    BY <1>7, LldpFactIs, Zenon
  <2>2. LldpVlanOf(d) \in String /\ Len(LldpVlanOf(d)) = 6
    BY <2>1, VlanRead, Zenon DEF LldpVlanOf
  <2> QED
    BY <2>2, SMT DEF LldpValue
<1> QED
  BY <1>1, <1>2, <1>3, <1>4, <1>5, <1>6, <1>7, Zenon

Organization == 127

\* What is written of d: the items and the string they make.
LldpItemsOf(d) ==
  {Item(1, LldpChassisOf(d)), Item(2, LldpPortOf(d)), Item(3, <<0, 120>>),
   Item(5, d.name), Item(6, d.descr), Item(7, LldpCapsOf(d))}
  \cup (IF d.ip = <<>> THEN {} ELSE {Item(8, LldpIpOf(d))})
  \cup (IF d.vlan = NoVlan THEN {} ELSE {Item(Organization, LldpVlanOf(d))})

LldpText(d) ==
  Cat(Cat(Cat(Cat(Cat(Cat(Cat(Cat(<<>>,
      Tlv(1, LldpChassisOf(d))),
      Tlv(2, LldpPortOf(d))),
      Tlv(3, <<0, 120>>)),
      Tlv(5, d.name)),
      Tlv(6, d.descr)),
      Tlv(7, LldpCapsOf(d))),
      IF d.ip = <<>> THEN <<>> ELSE Tlv(8, LldpIpOf(d))),
      IF d.vlan = NoVlan THEN <<>> ELSE Tlv(Organization, LldpVlanOf(d)))

LldpTypes == {1, 2, 3, 5, 6, 7, 8, Organization}

LEMMA LldpWritten ==
  ASSUME NEW d \in LldpFacts
  PROVE  LldpSoFar(LldpTypes, LldpItemsOf(d), LldpText(d))
<1>1. \A t \in LldpTypes : LldpPart(t)
  BY SMT DEF LldpPart, LldpTypes, Organization
<1>2. PICK B0 : B0 = <<>> /\ LldpSoFar({}, {}, B0)
  <2>1. After(LldpItems, LldpEnc, <<>>, {}, {}, <<>>)
    BY LldpReads, CatEmpty, AfterNone, Zenon
  <2> QED
    BY <2>1, Zenon DEF LldpSoFar
<1>3. PICK I1, B1 : /\ I1 = {} \cup {Item(1, LldpChassisOf(d))}
                    /\ B1 = Cat(B0, Tlv(1, LldpChassisOf(d)))
                    /\ LldpSoFar({1}, I1, B1)
  <2>1. 1 \notin {} /\ 1 \in LldpTypes
    BY SMT DEF LldpTypes, Organization
  <2>2. LldpValue(LldpChassisOf(d))
    BY LldpValues, Zenon
  <2>3. LldpSoFar({} \cup {1}, {} \cup {Item(1, LldpChassisOf(d))},
                  Cat(B0, Tlv(1, LldpChassisOf(d))))
    BY <1>1, <1>2, <2>1, <2>2, LldpMore, Zenon
  <2>4. {} \cup {1} = {1}
    BY SMT
  <2> QED
    BY <2>3, <2>4, Zenon
<1>4. PICK I2, B2 : /\ I2 = I1 \cup {Item(2, LldpPortOf(d))}
                    /\ B2 = Cat(B1, Tlv(2, LldpPortOf(d)))
                    /\ LldpSoFar({1, 2}, I2, B2)
  <2>1. 2 \notin {1} /\ 2 \in LldpTypes
    BY SMT DEF LldpTypes, Organization
  <2>2. LldpValue(LldpPortOf(d))
    BY LldpValues, Zenon
  <2>3. LldpSoFar({1} \cup {2}, I1 \cup {Item(2, LldpPortOf(d))},
                  Cat(B1, Tlv(2, LldpPortOf(d))))
    BY <1>1, <1>3, <2>1, <2>2, LldpMore, Zenon
  <2>4. {1} \cup {2} = {1, 2}
    BY SMT
  <2> QED
    BY <2>3, <2>4, Zenon
<1>5. PICK I3, B3 : /\ I3 = I2 \cup {Item(3, <<0, 120>>)}
                    /\ B3 = Cat(B2, Tlv(3, <<0, 120>>))
                    /\ LldpSoFar({1, 2, 3}, I3, B3)
  <2>1. 3 \notin {1, 2} /\ 3 \in LldpTypes
    BY SMT DEF LldpTypes, Organization
  <2>2. LldpValue(<<0, 120>>)
    BY LldpValues, Zenon
  <2>3. LldpSoFar({1, 2} \cup {3}, I2 \cup {Item(3, <<0, 120>>)},
                  Cat(B2, Tlv(3, <<0, 120>>)))
    BY <1>1, <1>4, <2>1, <2>2, LldpMore, Zenon
  <2>4. {1, 2} \cup {3} = {1, 2, 3}
    BY SMT
  <2> QED
    BY <2>3, <2>4, Zenon
<1>6. PICK I4, B4 : /\ I4 = I3 \cup {Item(5, d.name)}
                    /\ B4 = Cat(B3, Tlv(5, d.name))
                    /\ LldpSoFar({1, 2, 3, 5}, I4, B4)
  <2>1. 5 \notin {1, 2, 3} /\ 5 \in LldpTypes
    BY SMT DEF LldpTypes, Organization
  <2>2. LldpValue(d.name)
    BY LldpValues, Zenon
  <2>3. LldpSoFar({1, 2, 3} \cup {5}, I3 \cup {Item(5, d.name)},
                  Cat(B3, Tlv(5, d.name)))
    BY <1>1, <1>5, <2>1, <2>2, LldpMore, Zenon
  <2>4. {1, 2, 3} \cup {5} = {1, 2, 3, 5}
    BY SMT
  <2> QED
    BY <2>3, <2>4, Zenon
<1>7. PICK I5, B5 : /\ I5 = I4 \cup {Item(6, d.descr)}
                    /\ B5 = Cat(B4, Tlv(6, d.descr))
                    /\ LldpSoFar({1, 2, 3, 5, 6}, I5, B5)
  <2>1. 6 \notin {1, 2, 3, 5} /\ 6 \in LldpTypes
    BY SMT DEF LldpTypes, Organization
  <2>2. LldpValue(d.descr)
    BY LldpValues, Zenon
  <2>3. LldpSoFar({1, 2, 3, 5} \cup {6}, I4 \cup {Item(6, d.descr)},
                  Cat(B4, Tlv(6, d.descr)))
    BY <1>1, <1>6, <2>1, <2>2, LldpMore, Zenon
  <2>4. {1, 2, 3, 5} \cup {6} = {1, 2, 3, 5, 6}
    BY SMT
  <2> QED
    BY <2>3, <2>4, Zenon
<1>8. PICK I6, B6 : /\ I6 = I5 \cup {Item(7, LldpCapsOf(d))}
                    /\ B6 = Cat(B5, Tlv(7, LldpCapsOf(d)))
                    /\ LldpSoFar({1, 2, 3, 5, 6, 7}, I6, B6)
  <2>1. 7 \notin {1, 2, 3, 5, 6} /\ 7 \in LldpTypes
    BY SMT DEF LldpTypes, Organization
  <2>2. LldpValue(LldpCapsOf(d))
    BY LldpValues, Zenon
  <2>3. LldpSoFar({1, 2, 3, 5, 6} \cup {7}, I5 \cup {Item(7, LldpCapsOf(d))},
                  Cat(B5, Tlv(7, LldpCapsOf(d))))
    BY <1>1, <1>7, <2>1, <2>2, LldpMore, Zenon
  <2>4. {1, 2, 3, 5, 6} \cup {7} = {1, 2, 3, 5, 6, 7}
    BY SMT
  <2> QED
    BY <2>3, <2>4, Zenon
<1>9. PICK I7, B7 : /\ I7 = I6 \cup (IF d.ip = <<>> THEN {} ELSE {Item(8, LldpIpOf(d))})
                    /\ B7 = Cat(B6, IF d.ip = <<>> THEN <<>> ELSE Tlv(8, LldpIpOf(d)))
                    /\ LldpSoFar({1, 2, 3, 5, 6, 7, 8}, I7, B7)
  <2>1. 8 \notin {1, 2, 3, 5, 6, 7} /\ 8 \in LldpTypes
    BY SMT DEF LldpTypes, Organization
  <2>2. (d.ip = <<>>) \in BOOLEAN /\ (~(d.ip = <<>>) => LldpValue(LldpIpOf(d)))
    BY LldpValues, Zenon
  <2>3. LldpSoFar({1, 2, 3, 5, 6, 7} \cup {8},
                  I6 \cup (IF d.ip = <<>> THEN {} ELSE {Item(8, LldpIpOf(d))}),
                  Cat(B6, IF d.ip = <<>> THEN <<>> ELSE Tlv(8, LldpIpOf(d))))
    BY <1>1, <1>8, <2>1, <2>2, LldpOptional, Zenon
  <2>4. {1, 2, 3, 5, 6, 7} \cup {8} = {1, 2, 3, 5, 6, 7, 8}
    BY SMT
  <2> QED
    BY <2>3, <2>4, Zenon
<1>10. PICK I8, B8 :
         /\ I8 = I7 \cup (IF d.vlan = NoVlan THEN {} ELSE {Item(Organization, LldpVlanOf(d))})
         /\ B8 = Cat(B7, IF d.vlan = NoVlan THEN <<>>
                         ELSE Tlv(Organization, LldpVlanOf(d)))
         /\ LldpSoFar({1, 2, 3, 5, 6, 7, 8, Organization}, I8, B8)
  <2>1. Organization \notin {1, 2, 3, 5, 6, 7, 8} /\ Organization \in LldpTypes
    BY SMT DEF LldpTypes, Organization
  <2>2. (d.vlan = NoVlan) \in BOOLEAN /\ (~(d.vlan = NoVlan) => LldpValue(LldpVlanOf(d)))
    BY LldpValues, Zenon
  <2>3. LldpSoFar({1, 2, 3, 5, 6, 7, 8} \cup {Organization},
                  I7 \cup (IF d.vlan = NoVlan THEN {} ELSE {Item(Organization, LldpVlanOf(d))}),
                  Cat(B7, IF d.vlan = NoVlan THEN <<>> ELSE Tlv(Organization, LldpVlanOf(d))))
    BY <1>1, <1>9, <2>1, <2>2, LldpOptional, Zenon
  <2>4. {1, 2, 3, 5, 6, 7, 8} \cup {Organization} = {1, 2, 3, 5, 6, 7, 8, Organization}
    BY SMT
  <2> QED
    BY <2>3, <2>4, Zenon
<1>11. I8 = LldpItemsOf(d)
  BY <1>3, <1>4, <1>5, <1>6, <1>7, <1>8, <1>9, <1>10, Zenon DEF LldpItemsOf
<1>12. B8 = LldpText(d)
  BY <1>2, <1>3, <1>4, <1>5, <1>6, <1>7, <1>8, <1>9, <1>10, Zenon DEF LldpText
<1> QED
  BY <1>10, <1>11, <1>12, Zenon DEF LldpTypes

\* The same with what stands in the place of the first item.
LldpBehind(first, d) ==
  Cat(Cat(Cat(Cat(Cat(Cat(Cat(first,
      Tlv(2, LldpPortOf(d))),
      Tlv(3, <<0, 120>>)),
      Tlv(5, d.name)),
      Tlv(6, d.descr)),
      Tlv(7, LldpCapsOf(d))),
      IF d.ip = <<>> THEN <<>> ELSE Tlv(8, LldpIpOf(d))),
      IF d.vlan = NoVlan THEN <<>> ELSE Tlv(Organization, LldpVlanOf(d)))

LldpTo == <<1, 128, 194, 0, 0, 14>>
LldpEthHead(d) == EthHead(LldpTo, d.chassis, 35020)

LEMMA LldpBuilt ==
  ASSUME NEW d \in LldpFacts
  PROVE  BuildLldp(d) = Cat(LldpEthHead(d), Cat(LldpText(d), Tlv(0, <<>>)))
<1>1. BuildLldp(d) =
        Cat(LldpEthHead(d), Cat(LldpBehind(Tlv(1, LldpChassisOf(d)), d), Tlv(0, <<>>)))
  BY DEF BuildLldp, Eth, LldpEthHead, LldpTo, EthHead, Cat, LldpBehind, LldpChassisOf, LldpPortOf,
         LldpCapsOf, LldpIpOf, LldpVlanOf, Organization, One
<1>2. LldpText(d) = LldpBehind(Cat(<<>>, Tlv(1, LldpChassisOf(d))), d)
  BY DEF LldpText, LldpBehind
<1>3. Cat(<<>>, Tlv(1, LldpChassisOf(d))) = Tlv(1, LldpChassisOf(d))
  <2>1. LldpPart(1) /\ LldpValue(LldpChassisOf(d))
    <3>1. LldpPart(1)
      BY SMT DEF LldpPart
    <3> QED
      BY <3>1, LldpValues, Zenon
  <2>2. Item(1, LldpChassisOf(d)) \in LldpItems
        /\ LldpEnc[Item(1, LldpChassisOf(d))] = Tlv(1, LldpChassisOf(d))
    BY <2>1, LldpItemFits, Zenon
  <2>3. LldpEnc[Item(1, LldpChassisOf(d))] \in String
    BY <2>2, LldpReads, Zenon
  <2> QED
    BY <2>2, <2>3, CatEmpty, Zenon
<1> QED
  BY <1>1, <1>2, <1>3, Zenon

\* What is behind the header of an LLDP frame is read as the items.
LldpRead(d, s, y) == ReadFrom(LldpTlvs, LldpItems, s, LldpItemsOf(d), y)

\* A header of 14 octets that makes an LLDP frame of whatever follows it.
LldpHeads(h) ==
  /\ h \in String /\ Len(h) = 14
  /\ \A x \in String : IsLldp(Cat(h, x)) /\ Rest(Cat(h, x), 14) = x

LEMMA LldpFrame ==
  ASSUME NEW d \in LldpFacts
  PROVE  \E h, s, y : LldpHeads(h) /\ BuildLldp(d) = Cat(h, y) /\ LldpRead(d, s, y)
<1>1. PICK h : h = LldpEthHead(d)
  OBVIOUS
<1>2. LldpHeads(h)
  <2>1. LldpTo \in String /\ Len(LldpTo) = 6
    <3>1. 0 \in Octet /\ 1 \in Octet /\ 14 \in Octet /\ 128 \in Octet /\ 194 \in Octet
      BY OctetIs, SMT
    <3>2. LldpTo \in Seq(Octet)
      BY <3>1 DEF LldpTo
    <3>3. Len(LldpTo) = 6
      BY DEF LldpTo
    <3> QED
      BY <3>2, <3>3, Zenon DEF String
  <2>2. d.chassis \in String /\ Len(d.chassis) = 6
    BY LldpFactIs, Zenon
  <2>3. PICK type, hi : type = 35020 /\ hi = 136 /\ Wide(type) /\ hi = High(type)
    <3>1. Wide(35020) /\ 136 = High(35020)
      BY SMT DEF Wide, High
    <3> QED
      BY <3>1
  <2>4. h = EthHead(LldpTo, d.chassis, type)
    BY <1>1, <2>3, SMT DEF LldpEthHead
  <2>5. Wide(type) /\ hi = High(type)
    BY <2>3
  <2>6. /\ h \in String /\ Len(h) = 14
        /\ \A x \in String : IsOf(Cat(h, x), type, hi) /\ Rest(Cat(h, x), 14) = x
    <3>1. ASSUME NEW x \in String
          PROVE  EthFrame(EthHead(LldpTo, d.chassis, type), x, type, hi)
      BY <2>1, <2>2, <2>5, EthIs, Zenon
    <3> QED
      BY <2>4, <3>1, CatEmpty, Zenon DEF EthFrame
  <2>7. \A f : IsOf(f, type, hi) => IsLldp(f)
    BY <2>3, SMT DEF IsLldp
  <2> QED
    BY <2>6, <2>7, Zenon DEF LldpHeads
<1>3. PICK end : end = Tlv(0, <<>>) /\ end \in String /\ Ends(LldpTlvs, end)
  BY LldpEnds, Zenon
<1>4. PICK T, enc, p, types, items, B :
        /\ T = LldpItems /\ enc = LldpEnc /\ p = <<>> /\ types = LldpTypes
        /\ items = LldpItemsOf(d) /\ B = LldpText(d)
  OBVIOUS
<1>5. After(T, enc, p, types, items, B)
  BY <1>4, LldpWritten, Zenon DEF LldpSoFar
<1>6. enc \in [T -> String] /\ p \in String /\ ReadsItems(LldpTlvs, T, enc)
  BY <1>4, LldpReads, CatEmpty, Zenon
<1>7. PICK s, y : ReadFrom(LldpTlvs, T, s, items, y) /\ Cat(B, end) = Cat(p, y)
  <2>1. ReadAfter(LldpTlvs, T, types, items, p, Cat(B, end))
    BY <1>3, <1>5, <1>6, AfterRead, Zenon
  <2> QED
    BY <2>1, Zenon DEF ReadAfter
<1>8. y \in String
  BY <1>7, Zenon DEF ReadFrom
<1>9. Cat(B, end) = y
  BY <1>4, <1>7, <1>8, CatEmpty, Zenon
<1>10. BuildLldp(d) = Cat(h, y)
  BY <1>1, <1>3, <1>4, <1>9, LldpBuilt, Zenon
<1>11. LldpRead(d, s, y)
  BY <1>4, <1>7, Zenon DEF LldpRead
<1> QED
  BY <1>2, <1>10, <1>11, Zenon

\* The fields of an LLDP neighbor.
LldpChassis(s) == Field(s, OfType(s, 1, 1), ChassisId, Blank)
LldpName(s) == Field(s, OfType(s, 5, 0), DecodeText, Blank)
LldpPort(s) == Field(s, OfType(s, 2, 1), PortId, Blank)
LldpPortDescr(s) == Field(s, OfType(s, 4, 0), DecodeText, Blank)
LldpDescr(s) == Field(s, OfType(s, 6, 0), DecodeText, Blank)
LldpCaps(s) == Field(s, OfType(s, 7, 0), LAMBDA v : Capabilities(v, 2, 11), {})
LldpIps(s) == Field(s, OfType(s, 8, 0), LAMBDA v : MgmtAddrs[v], <<>>)
LldpVlan(s) == Field(s, PortVlans(s), LAMBDA v : Number[Slice(v, 4, 6)], NoVlan)

LldpNeighbor(s) ==
  [protocol |-> "lldp", chassis |-> LldpChassis(s), name |-> LldpName(s),
   port |-> LldpPort(s), portDescr |-> LldpPortDescr(s), descr |-> LldpDescr(s),
   caps |-> LldpCaps(s), ips |-> LldpIps(s), vlan |-> LldpVlan(s)]

LldpHeard(s) ==
  IF IsBlank(LldpChassis(s)) /\ IsBlank(LldpName(s)) THEN Nothing ELSE LldpNeighbor(s)

LEMMA LldpParsed ==
  ASSUME NEW f
  PROVE  ParseLldp(f) = LldpHeard(LldpTlvs[Rest(f, 14)])
BY DEF ParseLldp, LldpHeard, LldpNeighbor, LldpChassis, LldpName, LldpPort, LldpPortDescr,
       LldpDescr, LldpCaps, LldpIps, LldpVlan

LEMMA LldpSet ==
  ASSUME NEW s
  PROVE  /\ \A v : Sets(s, OfType(s, 1, 1), v) => LldpChassis(s) = ChassisId(v)
         /\ \A v : Sets(s, OfType(s, 5, 0), v) => LldpName(s) = DecodeText(v)
         /\ \A v : Sets(s, OfType(s, 2, 1), v) => LldpPort(s) = PortId(v)
         /\ OfType(s, 4, 0) = {} => LldpPortDescr(s) = Blank
         /\ \A v : Sets(s, OfType(s, 6, 0), v) => LldpDescr(s) = DecodeText(v)
         /\ \A v : Sets(s, OfType(s, 7, 0), v) => LldpCaps(s) = Capabilities(v, 2, 11)
         /\ \A v : Sets(s, OfType(s, 8, 0), v) => LldpIps(s) = MgmtAddrs[v]
         /\ OfType(s, 8, 0) = {} => LldpIps(s) = <<>>
         /\ \A v : Sets(s, PortVlans(s), v) => LldpVlan(s) = Number[Slice(v, 4, 6)]
         /\ PortVlans(s) = {} => LldpVlan(s) = NoVlan
<1>1. \A v : Sets(s, OfType(s, 1, 1), v) => LldpChassis(s) = ChassisId(v)
  BY Zenon DEF LldpChassis, Field, Sets
<1>2. \A v : Sets(s, OfType(s, 5, 0), v) => LldpName(s) = DecodeText(v)
  BY Zenon DEF LldpName, Field, Sets
<1>3. \A v : Sets(s, OfType(s, 2, 1), v) => LldpPort(s) = PortId(v)
  BY Zenon DEF LldpPort, Field, Sets
<1>4. OfType(s, 4, 0) = {} => LldpPortDescr(s) = Blank
  BY Zenon DEF LldpPortDescr, Field
<1>5. \A v : Sets(s, OfType(s, 6, 0), v) => LldpDescr(s) = DecodeText(v)
  BY Zenon DEF LldpDescr, Field, Sets
<1>6. \A v : Sets(s, OfType(s, 7, 0), v) => LldpCaps(s) = Capabilities(v, 2, 11)
  BY Zenon DEF LldpCaps, Field, Sets
<1>7. \A v : Sets(s, OfType(s, 8, 0), v) => LldpIps(s) = MgmtAddrs[v]
  BY Zenon DEF LldpIps, Field, Sets
<1>8. OfType(s, 8, 0) = {} => LldpIps(s) = <<>>
  BY Zenon DEF LldpIps, Field
<1>9. \A v : Sets(s, PortVlans(s), v) => LldpVlan(s) = Number[Slice(v, 4, 6)]
  BY Zenon DEF LldpVlan, Field, Sets
<1>10. PortVlans(s) = {} => LldpVlan(s) = NoVlan
  BY Zenon DEF LldpVlan, Field
<1> QED
  BY <1>1, <1>2, <1>3, <1>4, <1>5, <1>6, <1>7, <1>8, <1>9, <1>10

LEMMA LldpItemTypes ==
  ASSUME NEW d, NEW x \in LldpItemsOf(d)
  PROVE  /\ x.type # 4
         /\ d.ip = <<>> => x.type # 8
         /\ d.vlan = NoVlan => x.type # Organization
<1>1. /\ 1 # 4 /\ 2 # 4 /\ 3 # 4 /\ 5 # 4 /\ 6 # 4 /\ 7 # 4 /\ 8 # 4 /\ Organization # 4
      /\ 1 # 8 /\ 2 # 8 /\ 3 # 8 /\ 5 # 8 /\ 6 # 8 /\ 7 # 8 /\ Organization # 8
      /\ 1 # Organization /\ 2 # Organization /\ 3 # Organization /\ 5 # Organization
      /\ 6 # Organization /\ 7 # Organization /\ 8 # Organization
  BY SMT DEF Organization
<1>2. \/ \E t \in {1, 2, 3, 5, 6, 7} : \E v : x = Item(t, v)
      \/ d.ip # <<>> /\ \E v : x = Item(8, v)
      \/ d.vlan # NoVlan /\ \E v : x = Item(Organization, v)
  BY Zenon DEF LldpItemsOf
<1>3. \/ x.type \in {1, 2, 3, 5, 6, 7}
      \/ d.ip # <<>> /\ x.type = 8
      \/ d.vlan # NoVlan /\ x.type = Organization
  <2>1. \A u, v : x = Item(u, v) => x.type = u
    BY ItemIs, Zenon
  <2> QED
    BY <1>2, <2>1, Zenon
<1> QED
  BY <1>1, <1>3, Zenon

\* The same with the place.
ItemAt(s, at, v) == \E i : at = {i} /\ Max({i}) = i /\ s[i].value = v

LEMMA ItemIsAt ==
  ASSUME NEW f, NEW T \in SUBSET Tlvs, NEW s, NEW items, NEW y, ReadFrom(f, T, s, items, y),
         NEW t, NEW v, Item(t, v) \in items, NEW n \in Nat, n <= Len(v)
  PROVE  ItemAt(s, OfType(s, t, n), v)
<1>1. s \in Seq(T) /\ Distinct(s) /\ ItemsOf(s) = items
  BY Zenon DEF ReadFrom
<1>2. PICK e : e = Item(t, v) /\ e.type = t /\ e.value = v
  BY ItemIs, Zenon
<1>3. e \in ItemsOf(s) /\ n <= Len(e.value)
  BY <1>1, <1>2, Zenon
<1>4. \E i \in 1 .. Len(s) : /\ s[i] = e /\ OfType(s, e.type, n) = {i}
                             /\ Max({i}) = i /\ Sets(s, OfType(s, e.type, n), e.value)
  BY <1>1, <1>3, FieldSet, Zenon
<1> QED
  BY <1>2, <1>4, Zenon DEF ItemAt

LEMMA VlanSet ==
  ASSUME NEW s, NEW v, ItemAt(s, OfType(s, Organization, 6), v), Slice(v, 0, 4) = PortVlan
  PROVE  Sets(s, PortVlans(s), v)
<1>1. PICK i : OfType(s, Organization, 6) = {i} /\ Max({i}) = i /\ s[i].value = v
  BY Zenon DEF ItemAt
<1>2. PortVlans(s) = {k \in OfType(s, Organization, 6) : Slice(s[k].value, 0, 4) = PortVlan}
  BY DEF PortVlans, Organization
<1>3. PortVlans(s) = {i}
  BY <1>1, <1>2, Zenon
<1> QED
  BY <1>1, <1>3, Zenon DEF Sets

LEMMA VlanUnset ==
  ASSUME NEW s, OfType(s, Organization, 6) = {}
  PROVE  PortVlans(s) = {}
<1>1. PortVlans(s) = {i \in OfType(s, Organization, 6) : Slice(s[i].value, 0, 4) = PortVlan}
  BY DEF PortVlans, Organization
<1> QED
  BY <1>1, Zenon

\* What is said of the facts d.
LldpSays(d) ==
  [protocol |-> "lldp", chassis |-> Mac(d.chassis), name |-> Text(d.name),
   port |-> Text(d.port), portDescr |-> Blank, descr |-> Text(d.descr),
   caps |-> Bits(d.caps, 11), ips |-> Ips(d), vlan |-> d.vlan]

LEMMA LldpWhole ==
  ASSUME NEW d \in LldpFacts, NEW s, NEW y, LldpRead(d, s, y)
  PROVE  /\ LldpHeard(s) = LldpSays(d) /\ LldpHeard(s) = LldpNeighbor(s)
         /\ s \in Seq(LldpItems) /\ Distinct(s)
<1>1. ReadFrom(LldpTlvs, LldpItems, s, LldpItemsOf(d), y) /\ LldpItems \in SUBSET Tlvs
  BY Zenon DEF LldpRead, LldpItems
<1>2. 0 \in Nat /\ 1 \in Nat /\ 6 \in Nat /\ 1 <= 7 /\ 6 <= 6
  BY SMT
<1>3. \A v : LldpValue(v) => v \in String /\ 0 <= Len(v)
  <2> SUFFICES ASSUME NEW v, LldpValue(v) PROVE v \in String /\ 0 <= Len(v)
    OBVIOUS
  <2>1. v \in String
    BY SMT DEF LldpValue
  <2>2. Len(v) \in Nat
    BY <2>1, CatProps, Zenon
  <2> QED
    BY <2>1, <2>2, SMT
<1>4. LldpChassis(s) = Mac(d.chassis)
  <2>1. Item(1, LldpChassisOf(d)) \in LldpItemsOf(d)
    BY Zenon DEF LldpItemsOf
  <2>2. Len(LldpChassisOf(d)) = 7 /\ ChassisId(LldpChassisOf(d)) = Mac(d.chassis)
    BY LldpFactIs, ChassisRead, Zenon DEF LldpChassisOf
  <2>3. 1 <= Len(LldpChassisOf(d))
    BY <1>2, <2>2, Zenon
  <2>4. Sets(s, OfType(s, 1, 1), LldpChassisOf(d))
    BY <1>1, <1>2, <2>1, <2>3, ItemGives, Zenon
  <2> QED
    BY <2>2, <2>4, LldpSet, Zenon
<1>5. LldpName(s) = Text(d.name)
  <2>1. Item(5, d.name) \in LldpItemsOf(d)
    BY Zenon DEF LldpItemsOf
  <2>2. DecodeText(d.name) = Text(d.name) /\ 0 <= Len(d.name)
    BY <1>3, LldpFactIs, LldpTextIs, Zenon
  <2>3. Sets(s, OfType(s, 5, 0), d.name)
    BY <1>1, <1>2, <2>1, <2>2, ItemGives, Zenon
  <2> QED
    BY <2>2, <2>3, LldpSet, Zenon
<1>6. LldpPort(s) = Text(d.port)
  <2>1. Item(2, LldpPortOf(d)) \in LldpItemsOf(d)
    BY Zenon DEF LldpItemsOf
  <2>2. Len(LldpPortOf(d)) >= 1 /\ PortId(LldpPortOf(d)) = Text(d.port)
    BY LldpFactIs, LldpNameIs, Zenon DEF LldpPortOf
  <2>3. 1 <= Len(LldpPortOf(d))
    <3>1. LldpPortOf(d) \in String
      BY <1>3, LldpValues, Zenon
    <3>2. Len(LldpPortOf(d)) \in Nat
      BY <3>1, CatProps, Zenon
    <3> QED
      BY <2>2, <3>2, SMT
  <2>4. Sets(s, OfType(s, 2, 1), LldpPortOf(d))
    BY <1>1, <1>2, <2>1, <2>3, ItemGives, Zenon
  <2> QED
    BY <2>2, <2>4, LldpSet, Zenon
<1>7. LldpPortDescr(s) = Blank
  <2>1. OfType(s, 4, 0) = {}
    BY <1>1, LldpItemTypes, NoItemGives, Zenon
  <2> QED
    BY <2>1, LldpSet, Zenon
<1>8. LldpDescr(s) = Text(d.descr)
  <2>1. Item(6, d.descr) \in LldpItemsOf(d)
    BY Zenon DEF LldpItemsOf
  <2>2. DecodeText(d.descr) = Text(d.descr) /\ 0 <= Len(d.descr)
    BY <1>3, LldpFactIs, LldpTextIs, Zenon
  <2>3. Sets(s, OfType(s, 6, 0), d.descr)
    BY <1>1, <1>2, <2>1, <2>2, ItemGives, Zenon
  <2> QED
    BY <2>2, <2>3, LldpSet, Zenon
<1>9. LldpCaps(s) = Bits(d.caps, 11)
  <2>1. Item(7, LldpCapsOf(d)) \in LldpItemsOf(d)
    BY Zenon DEF LldpItemsOf
  <2>2. 0 <= Len(LldpCapsOf(d))
    BY <1>3, LldpValues, Zenon
  <2>3. Sets(s, OfType(s, 7, 0), LldpCapsOf(d))
    BY <1>1, <1>2, <2>1, <2>2, ItemGives, Zenon
  <2>4. Capabilities(LldpCapsOf(d), 2, 11) = Bits(d.caps, 11)
    BY LldpFactIs, LldpCapsRead, Zenon DEF LldpCapsOf
  <2> QED
    BY <2>3, <2>4, LldpSet, Zenon
<1>10. LldpIps(s) = Ips(d)
  <2>1. CASE d.ip = <<>>
    <3>1. OfType(s, 8, 0) = {}
      <4>1. \A x \in LldpItemsOf(d) : x.type # 8
        BY <2>1, LldpItemTypes, Zenon
      <4> QED
        BY <1>1, <4>1, NoItemGives, SMT
    <3> QED
      BY <2>1, <3>1, LldpSet, Zenon DEF Ips
  <2>2. CASE d.ip # <<>>
    <3>1. Item(8, LldpIpOf(d)) \in LldpItemsOf(d)
      BY <2>2, Zenon DEF LldpItemsOf
    <3>2. 0 <= Len(LldpIpOf(d))
      BY <1>3, <2>2, LldpValues, Zenon
    <3>3. Sets(s, OfType(s, 8, 0), LldpIpOf(d))
      BY <1>1, <1>2, <3>1, <3>2, ItemGives, Zenon
    <3>4. MgmtAddrs[LldpIpOf(d)] = <<d.ip>>
      BY <2>2, LldpFactIs, MgmtRead, Zenon DEF LldpIpOf
    <3> QED
      BY <2>2, <3>3, <3>4, LldpSet, Zenon DEF Ips
  <2> QED
    BY <2>1, <2>2, Zenon
<1>11. LldpVlan(s) = d.vlan
  <2>1. CASE d.vlan = NoVlan
    <3>1. OfType(s, Organization, 6) = {}
      BY <1>1, <2>1, LldpItemTypes, NoItemGives, Zenon
    <3> QED
      BY <2>1, <3>1, VlanUnset, LldpSet, Zenon
  <2>2. CASE d.vlan # NoVlan
    <3>1. Item(Organization, LldpVlanOf(d)) \in LldpItemsOf(d)
      BY <2>2, Zenon DEF LldpItemsOf
    <3>2. /\ Len(LldpVlanOf(d)) = 6 /\ Slice(LldpVlanOf(d), 0, 4) = PortVlan
          /\ Number[Slice(LldpVlanOf(d), 4, 6)] = d.vlan
      BY <2>2, LldpFactIs, VlanRead, Zenon DEF LldpVlanOf
    <3>3. 6 <= Len(LldpVlanOf(d))
      BY <1>2, <3>2, Zenon
    <3>4. ItemAt(s, OfType(s, Organization, 6), LldpVlanOf(d))
      BY <1>1, <1>2, <3>1, <3>3, ItemIsAt, Zenon
    <3>5. Sets(s, PortVlans(s), LldpVlanOf(d))
      BY <3>2, <3>4, VlanSet, Zenon
    <3> QED
      BY <3>2, <3>5, LldpSet, Zenon
  <2> QED
    BY <2>1, <2>2, Zenon
<1>12. LldpNeighbor(s) = LldpSays(d)
  BY <1>4, <1>5, <1>6, <1>7, <1>8, <1>9, <1>10, <1>11, Zenon DEF LldpNeighbor, LldpSays
<1>13. ~IsBlank(LldpChassis(s))
  <2>1. d.chassis \in String /\ Len(d.chassis) = 6
    BY LldpFactIs, Zenon
  <2>2. d.chassis # <<>>
    <3>1. 6 # 0
      BY SMT
    <3> QED
      BY <2>1, <3>1, CatEmpty, Zenon
  <2> QED
    BY <1>4, <2>2, SMT DEF IsBlank, Mac
<1>14. LldpHeard(s) = LldpNeighbor(s)
  BY <1>13, Zenon DEF LldpHeard
<1>15. s \in Seq(LldpItems) /\ Distinct(s)
  BY <1>1, Zenon DEF ReadFrom
<1> QED
  BY <1>12, <1>14, <1>15, Zenon

\* A field of what is left of a frame: as the whole frame says, or not set.
Kept(a, b, default) == a = b \/ a = default

LEMMA VlanKept ==
  ASSUME NEW s \in Seq(LldpItems), Distinct(s), NEW r, IsStart(r, s, LldpItems)
  PROVE  Less(r, s, PortVlans(r), PortVlans(s))
<1>1. \A u : PortVlans(u) =
               {i \in OfType(u, Organization, 6) : Slice(u[i].value, 0, 4) = PortVlan}
  BY DEF PortVlans, Organization
<1>2. LldpItems \in SUBSET Tlvs
  BY Zenon DEF LldpItems
<1>3. CASE OfType(r, Organization, 6) = {}
  BY <1>1, <1>3, Zenon DEF Less
<1>4. CASE OfType(r, Organization, 6) # {}
  <2>1. PICK i : i \in OfType(r, Organization, 6)
    BY <1>4, Zenon
  <2>2. OnlyAt(r, s, Organization, 6, i)
    BY <1>2, <2>1, FieldCut, Zenon
  <2>3. /\ r[i] = s[i] /\ Max({i}) = i
        /\ OfType(r, Organization, 6) = {i} /\ OfType(s, Organization, 6) = {i}
    BY <2>2, Zenon DEF OnlyAt
  <2>4. PortVlans(r) = {j \in {i} : Slice(r[j].value, 0, 4) = PortVlan}
    BY <1>1, <2>3, Zenon
  <2>5. PortVlans(s) = {j \in {i} : Slice(s[j].value, 0, 4) = PortVlan}
    BY <1>1, <2>3, Zenon
  <2>6. CASE Slice(r[i].value, 0, 4) = PortVlan
    <3>1. PortVlans(r) = {i} /\ PortVlans(s) = {i}
      BY <2>3, <2>4, <2>5, <2>6, Zenon
    <3> QED
      BY <2>3, <3>1, Zenon DEF Less
  <2>7. CASE Slice(r[i].value, 0, 4) # PortVlan
    <3>1. PortVlans(r) = {}
      BY <2>4, <2>7, Zenon
    <3> QED
      BY <3>1, Zenon DEF Less
  <2> QED
    BY <2>6, <2>7, Zenon
<1> QED
  BY <1>3, <1>4, Zenon

LEMMA LldpKept ==
  ASSUME NEW s \in Seq(LldpItems), Distinct(s), NEW r, IsStart(r, s, LldpItems)
  PROVE  /\ Kept(LldpChassis(r), LldpChassis(s), Blank)
         /\ Kept(LldpName(r), LldpName(s), Blank)
         /\ Kept(LldpPort(r), LldpPort(s), Blank)
         /\ Kept(LldpPortDescr(r), LldpPortDescr(s), Blank)
         /\ Kept(LldpDescr(r), LldpDescr(s), Blank)
         /\ Kept(LldpCaps(r), LldpCaps(s), {})
         /\ Kept(LldpIps(r), LldpIps(s), <<>>)
         /\ Kept(LldpVlan(r), LldpVlan(s), NoVlan)
<1>1. \A t, n : Less(r, s, OfType(r, t, n), OfType(s, t, n))
  <2>1. LldpItems \in SUBSET Tlvs
    BY Zenon DEF LldpItems
  <2> QED
    BY <2>1, CutGives, Zenon
<1>2. Kept(LldpChassis(r), LldpChassis(s), Blank)
  <2>1. Less(r, s, OfType(r, 1, 1), OfType(s, 1, 1))
    BY <1>1, Zenon
  <2> QED
    BY <2>1, Zenon DEF LldpChassis, Field, Less, Kept
<1>3. Kept(LldpName(r), LldpName(s), Blank)
  <2>1. Less(r, s, OfType(r, 5, 0), OfType(s, 5, 0))
    BY <1>1, Zenon
  <2> QED
    BY <2>1, Zenon DEF LldpName, Field, Less, Kept
<1>4. Kept(LldpPort(r), LldpPort(s), Blank)
  <2>1. Less(r, s, OfType(r, 2, 1), OfType(s, 2, 1))
    BY <1>1, Zenon
  <2> QED
    BY <2>1, Zenon DEF LldpPort, Field, Less, Kept
<1>5. Kept(LldpPortDescr(r), LldpPortDescr(s), Blank)
  <2>1. Less(r, s, OfType(r, 4, 0), OfType(s, 4, 0))
    BY <1>1, Zenon
  <2> QED
    BY <2>1, Zenon DEF LldpPortDescr, Field, Less, Kept
<1>6. Kept(LldpDescr(r), LldpDescr(s), Blank)
  <2>1. Less(r, s, OfType(r, 6, 0), OfType(s, 6, 0))
    BY <1>1, Zenon
  <2> QED
    BY <2>1, Zenon DEF LldpDescr, Field, Less, Kept
<1>7. Kept(LldpCaps(r), LldpCaps(s), {})
  <2>1. Less(r, s, OfType(r, 7, 0), OfType(s, 7, 0))
    BY <1>1, Zenon
  <2> QED
    BY <2>1, Zenon DEF LldpCaps, Field, Less, Kept
<1>8. Kept(LldpIps(r), LldpIps(s), <<>>)
  <2>1. Less(r, s, OfType(r, 8, 0), OfType(s, 8, 0))
    BY <1>1, Zenon
  <2> QED
    BY <2>1, Zenon DEF LldpIps, Field, Less, Kept
<1>9. Kept(LldpVlan(r), LldpVlan(s), NoVlan)
  BY VlanKept, Zenon DEF LldpVlan, Field, Less, Kept
<1> QED
  BY <1>2, <1>3, <1>4, <1>5, <1>6, <1>7, <1>8, <1>9, Zenon

\* What is heard of a part of a frame says less than the whole.
OnlyLoses(whole, cut) ==
  cut # Nothing =>
    \A k \in DOMAIN whole : cut[k] = whole[k] \/ (k \in DOMAIN Unset /\ cut[k] = Unset[k])

LEMMA LldpLess ==
  ASSUME NEW s \in Seq(LldpItems), Distinct(s), NEW r, IsStart(r, s, LldpItems)
  PROVE  OnlyLoses(LldpNeighbor(s), LldpHeard(r))
<1>1. LldpHeard(r) # Nothing => LldpHeard(r) = LldpNeighbor(r)
  BY Zenon DEF LldpHeard
<1>2. PICK w, c : w = LldpNeighbor(s) /\ c = LldpNeighbor(r)
  OBVIOUS
<1>3. DOMAIN w =
        {"protocol", "chassis", "name", "port", "portDescr", "descr", "caps", "ips", "vlan"}
  BY <1>2, SMT DEF LldpNeighbor
<1>4. /\ w.protocol = "lldp" /\ w.chassis = LldpChassis(s) /\ w.name = LldpName(s)
      /\ w.port = LldpPort(s) /\ w.portDescr = LldpPortDescr(s) /\ w.descr = LldpDescr(s)
      /\ w.caps = LldpCaps(s) /\ w.ips = LldpIps(s) /\ w.vlan = LldpVlan(s)
  BY <1>2, SMT DEF LldpNeighbor
<1>5. /\ c.protocol = "lldp" /\ c.chassis = LldpChassis(r) /\ c.name = LldpName(r)
      /\ c.port = LldpPort(r) /\ c.portDescr = LldpPortDescr(r) /\ c.descr = LldpDescr(r)
      /\ c.caps = LldpCaps(r) /\ c.ips = LldpIps(r) /\ c.vlan = LldpVlan(r)
  BY <1>2, SMT DEF LldpNeighbor
<1>6. /\ Unset.chassis = Blank /\ Unset.name = Blank /\ Unset.port = Blank
      /\ Unset.portDescr = Blank /\ Unset.descr = Blank /\ Unset.caps = {}
      /\ Unset.ips = <<>> /\ Unset.vlan = NoVlan
      /\ {"chassis", "name", "port", "portDescr", "descr", "caps", "ips", "vlan"}
           \subseteq DOMAIN Unset
  BY SMT DEF Unset
<1>7. ASSUME NEW k \in DOMAIN w
      PROVE  c[k] = w[k] \/ (k \in DOMAIN Unset /\ c[k] = Unset[k])
  <2>1. CASE k = "protocol"
    BY <1>4, <1>5, <2>1, Zenon
  <2>2. CASE k = "chassis"
    BY <1>4, <1>5, <1>6, <2>2, LldpKept, Zenon DEF Kept
  <2>3. CASE k = "name"
    BY <1>4, <1>5, <1>6, <2>3, LldpKept, Zenon DEF Kept
  <2>4. CASE k = "port"
    BY <1>4, <1>5, <1>6, <2>4, LldpKept, Zenon DEF Kept
  <2>5. CASE k = "portDescr"
    BY <1>4, <1>5, <1>6, <2>5, LldpKept, Zenon DEF Kept
  <2>6. CASE k = "descr"
    BY <1>4, <1>5, <1>6, <2>6, LldpKept, Zenon DEF Kept
  <2>7. CASE k = "caps"
    BY <1>4, <1>5, <1>6, <2>7, LldpKept, Zenon DEF Kept
  <2>8. CASE k = "ips"
    BY <1>4, <1>5, <1>6, <2>8, LldpKept, Zenon DEF Kept
  <2>9. CASE k = "vlan"
    BY <1>4, <1>5, <1>6, <2>9, LldpKept, Zenon DEF Kept
  <2> QED
    BY <1>3, <2>1, <2>2, <2>3, <2>4, <2>5, <2>6, <2>7, <2>8, <2>9, Zenon
<1> QED
  BY <1>1, <1>2, <1>7, Zenon DEF OnlyLoses

LEMMA LldpRoundTrip ==
  ASSUME NEW d \in LldpFacts
  PROVE  /\ Hear(BuildLldp(d)) = LldpSays(d)
         /\ \A n \in Nat : n <= Len(BuildLldp(d)) =>
              OnlyLoses(Hear(BuildLldp(d)), Hear(Slice(BuildLldp(d), 0, n)))
<1>1. PICK h, s, y : LldpHeads(h) /\ BuildLldp(d) = Cat(h, y) /\ LldpRead(d, s, y)
  BY LldpFrame, Zenon
<1>2. PICK g : g = 14 /\ h \in String /\ Len(h) = g
  BY <1>1, Zenon DEF LldpHeads
<1>3. \A x \in String : Hear(Cat(h, x)) = LldpHeard(LldpTlvs[x])
  <2> SUFFICES ASSUME NEW x \in String PROVE Hear(Cat(h, x)) = LldpHeard(LldpTlvs[x])
    OBVIOUS
  <2>1. IsLldp(Cat(h, x)) /\ Rest(Cat(h, x), 14) = x
    BY <1>1, Zenon DEF LldpHeads
  <2> QED
    BY <2>1, HearsLldp, LldpParsed, Zenon
<1>4. /\ y \in String /\ LldpTlvs[y] = s
      /\ \A n \in Nat : n <= Len(y) => IsStart(LldpTlvs[Slice(y, 0, n)], s, LldpItems)
  BY <1>1, Zenon DEF LldpRead, ReadFrom
<1>5. /\ LldpHeard(s) = LldpSays(d) /\ LldpHeard(s) = LldpNeighbor(s)
      /\ s \in Seq(LldpItems) /\ Distinct(s)
  BY <1>1, LldpWhole, Zenon
<1>6. Hear(Cat(h, y)) = LldpHeard(s)
  BY <1>3, <1>4, Zenon
<1>7. ASSUME NEW n \in Nat, n <= Len(Cat(h, y))
      PROVE  OnlyLoses(LldpNeighbor(s), Hear(Slice(Cat(h, y), 0, n)))
  <2>1. CASE n < g
    <3>1. Slice(Cat(h, y), 0, n) \in String /\ Len(Slice(Cat(h, y), 0, n)) = n
      BY <1>2, <1>4, <1>7, FramedCut, Zenon
    <3>2. Hear(Slice(Cat(h, y), 0, n)) = Nothing
      BY <1>2, <2>1, <3>1, HearsNothing, Zenon
    <3> QED
      BY <3>2, Zenon DEF OnlyLoses
  <2>2. CASE ~(n < g)
    <3>1. PICK k \in Nat : k <= Len(y) /\ Slice(Cat(h, y), 0, n) = Cat(h, Slice(y, 0, k))
      BY <1>2, <1>4, <1>7, <2>2, CutBehind, Zenon
    <3>2. Slice(y, 0, k) \in String
      BY <1>4, SliceString, Zenon
    <3>3. Hear(Slice(Cat(h, y), 0, n)) = LldpHeard(LldpTlvs[Slice(y, 0, k)])
      BY <1>3, <3>1, <3>2, Zenon
    <3>4. IsStart(LldpTlvs[Slice(y, 0, k)], s, LldpItems)
      BY <1>4, <3>1, Zenon
    <3>5. OnlyLoses(LldpNeighbor(s), LldpHeard(LldpTlvs[Slice(y, 0, k)]))
      BY <1>5, <3>4, LldpLess, Zenon
    <3> QED
      BY <3>3, <3>5, Zenon
  <2> QED
    BY <2>1, <2>2, Zenon
<1> QED
  BY <1>1, <1>5, <1>6, <1>7, Zenon

-----------------------------------------------------------------------------
(* CDP frames.                                                             *)

NextIs(n, o) == 256 * n + o

LEMMA NumberAppend ==
  ASSUME NEW b \in String, NEW o \in Octet
  PROVE  Number[Cat(b, One(o))] = NextIs(Number[b], o)
<1>1. PICK p \in String : p = One(o) /\ Len(p) = 1 /\ p[1] = o
  BY OneProps, Zenon
<1>2. PICK c \in String : c = Cat(b, p)
  BY CatProps, Zenon
<1>3. Len(b) \in Nat /\ Len(c) = Len(b) + 1 /\ c[Len(b) + 1] = o
  <2>1. /\ Len(b) \in Nat /\ Len(Cat(b, p)) = Len(b) + Len(p)
        /\ \A i \in 1 .. Len(p) : Cat(b, p)[Len(b) + i] = p[i]
    BY CatProps, Zenon
  <2>2. 1 \in 1 .. 1
    BY SMT
  <2> QED
    BY <1>1, <1>2, <2>1, <2>2, Zenon
<1>4. c # <<>>
  <2>1. Len(c) # 0
    BY <1>3, SMT
  <2> QED
    BY <2>1, CatEmpty, Zenon
<1>5. Front(c) = b /\ Last(c) = o
  <2>1. c = b \o <<o>>
    BY <1>1, <1>2, Zenon DEF Cat, One
  <2>2. b \in Seq(Octet)
    BY Zenon DEF String
  <2> QED
    BY <2>1, <2>2 DEF Front, Last
<1> QED
  <2>1. \A x \in String :
          Number[x] = IF x = <<>> THEN 0 ELSE NextIs(Number[Front(x)], Last(x))
    BY NumberUnfolds, Zenon DEF NextIs
  <2>2. Number[c] = NextIs(Number[Front(c)], Last(c))
    BY <1>4, <2>1, Zenon
  <2> QED
    BY <1>1, <1>2, <1>5, <2>2, Zenon

LEMMA NumberOne ==
  ASSUME NEW o \in Octet
  PROVE  Number[One(o)] = o
<1>1. Number[Cat(<<>>, One(o))] = NextIs(Number[<<>>], o)
  BY CatEmpty, NumberAppend, Zenon
<1>2. Number[<<>>] = 0
  BY CatEmpty, NumberUnfolds, Zenon
<1>3. Cat(<<>>, One(o)) = One(o)
  BY OneProps, CatEmpty, Zenon
<1>4. o \in Int
  BY OctetIs, SMT
<1> QED
  <2>1. NextIs(0, o) = o
    BY <1>4, SMT DEF NextIs
  <2> QED
    BY <1>1, <1>2, <1>3, <2>1, Zenon

\* The count of one address, and the length of an address.
OneAddress == <<0, 0, 0, 1>>
FourOctets == <<0, 4>>
Ip4Protocol == <<1, 1, 204>>

LEMMA AddressParts ==
  /\ OneAddress \in String /\ Len(OneAddress) = 4 /\ Number[OneAddress] = 1
  /\ FourOctets \in String /\ Len(FourOctets) = 2 /\ Number[FourOctets] = 4
  /\ Ip4Protocol \in String /\ Len(Ip4Protocol) = 3 /\ Ip4Protocol[2] = 1
<1>1. 0 \in Octet /\ 1 \in Octet /\ 4 \in Octet /\ 204 \in Octet
  BY OctetIs, SMT
<1>2. PICK z, u, w : /\ z = One(0) /\ u = One(1) /\ w = One(4)
                     /\ z \in String /\ u \in String /\ w \in String
                     /\ Number[z] = 0
  BY <1>1, OneProps, NumberOne, Zenon
<1>3. FourOctets = Cat(z, w)
  BY <1>2 DEF FourOctets, Cat, One
<1>4. Number[FourOctets] = 4
  <2>1. Number[Cat(z, w)] = NextIs(Number[z], 4)
    BY <1>1, <1>2, NumberAppend, Zenon
  <2>2. NextIs(0, 4) = 4
    BY SMT DEF NextIs
  <2> QED
    BY <1>2, <1>3, <2>1, <2>2, Zenon
<1>5. OneAddress = Cat(Cat(Cat(z, z), z), u)
  BY <1>2 DEF OneAddress, Cat, One
<1>6. Number[OneAddress] = 1
  <2>1. Cat(z, z) \in String /\ Cat(Cat(z, z), z) \in String
    BY <1>2, CatProps, Zenon
  <2>2. /\ Number[Cat(z, z)] = NextIs(Number[z], 0)
        /\ Number[Cat(Cat(z, z), z)] = NextIs(Number[Cat(z, z)], 0)
        /\ Number[Cat(Cat(Cat(z, z), z), u)] = NextIs(Number[Cat(Cat(z, z), z)], 1)
    BY <1>1, <1>2, <2>1, NumberAppend, Zenon
  <2>3. NextIs(0, 0) = 0 /\ NextIs(0, 1) = 1
    BY SMT DEF NextIs
  <2> QED
    BY <1>2, <1>5, <2>2, <2>3, Zenon
<1>7. OneAddress \in Seq(Octet) /\ FourOctets \in Seq(Octet) /\ Ip4Protocol \in Seq(Octet)
  BY <1>1 DEF OneAddress, FourOctets, Ip4Protocol
<1>8. Len(OneAddress) = 4 /\ Len(FourOctets) = 2 /\ Len(Ip4Protocol) = 3 /\ Ip4Protocol[2] = 1
  BY DEF OneAddress, FourOctets, Ip4Protocol
<1> QED
  BY <1>4, <1>6, <1>7, <1>8, Zenon DEF String

\* One entry of an IPv4 address, and an address TLV of it.
LEMMA EntryRead ==
  ASSUME NEW ip \in String, Len(ip) = 4, NEW w, w = Cat(Cat(Ip4Protocol, FourOctets), ip)
  PROVE  w \in String /\ Len(w) = 9 /\ CdpEntries[<<w, 1>>] = <<ip>>
<1>1. PICK p, q \in String : /\ p = Ip4Protocol /\ Len(p) = 3 /\ p[2] = 1
                             /\ q = FourOctets /\ Len(q) = 2 /\ Number[q] = 4
  BY AddressParts, Zenon
<1>2. PICK a : a = Cat(p, q)
  OBVIOUS
<1>3. a \in String /\ Len(a) = 5 /\ a[2] = 1
  <2>1. /\ Cat(p, q) \in String /\ Len(Cat(p, q)) = Len(p) + Len(q)
        /\ \A i \in 1 .. Len(p) : Cat(p, q)[i] = p[i]
    BY CatProps, Zenon
  <2>2. 3 + 2 = 5 /\ 2 \in 1 .. 3
    BY SMT
  <2> QED
    BY <1>1, <1>2, <2>1, <2>2, Zenon
<1>4. w = Cat(a, ip) /\ w \in String /\ Len(w) = 9 /\ w[2] = 1
  <2>1. /\ Cat(a, ip) \in String /\ Len(Cat(a, ip)) = Len(a) + Len(ip)
        /\ \A i \in 1 .. Len(a) : Cat(a, ip)[i] = a[i]
    BY <1>3, CatProps, Zenon
  <2>2. 5 + 4 = 9 /\ 2 \in 1 .. 5
    BY SMT
  <2>3. w = Cat(a, ip)
    BY <1>1, <1>2, Zenon
  <2> QED
    BY <1>3, <2>1, <2>2, <2>3, Zenon
<1>5. Slice(w, 0, 3) = p
  <2>1. Slice(Cat(a, ip), 0, 3) = Slice(a, 0, 3)
    <3>1. 0 \in Nat /\ 3 \in Nat /\ 0 <= 3 /\ 3 <= Len(a)
      BY <1>3, SMT
    <3> QED
      BY <1>3, <3>1, SliceWithin, Zenon
  <2>2. Slice(Cat(p, q), 0, Len(p)) = p
    BY HeadOfCat, Zenon
  <2> QED
    BY <1>1, <1>2, <1>4, <2>1, <2>2, Zenon
<1>6. Slice(w, 3, 5) = q
  <2>1. Slice(Cat(a, ip), 3, 5) = Slice(a, 3, 5)
    <3>1. 3 \in Nat /\ 5 \in Nat /\ 3 <= 5 /\ 5 <= Len(a)
      BY <1>3, SMT
    <3> QED
      BY <1>3, <3>1, SliceWithin, Zenon
  <2>2. Slice(Cat(p, q), Len(p), Len(p) + Len(q)) = q
    BY SliceLast, Zenon
  <2>3. 3 + 2 = 5
    BY SMT
  <2> QED
    BY <1>1, <1>2, <1>4, <2>1, <2>2, <2>3, Zenon
<1>7. Slice(w, 5, 9) = ip
  <2>1. Slice(Cat(a, ip), Len(a), Len(a) + Len(ip)) = ip
    BY <1>3, SliceLast, Zenon
  <2>2. 5 + 4 = 9
    BY SMT
  <2> QED
    BY <1>3, <1>4, <2>1, <2>2, Zenon
<1>8. EntryAt(w) = 5 /\ EntryEnd(w) = 9
  <2>1. EntryAt(w) = 5 /\ 2 + w[2] = 3
    BY <1>4, SMT DEF EntryAt
  <2>2. EntryEnd(w) = 5 + Number[Slice(w, 3, 5)]
    BY <2>1, Zenon DEF EntryEnd
  <2>3. EntryEnd(w) = 5 + 4
    BY <1>1, <1>6, <2>2, Zenon
  <2> QED
    BY <2>1, <2>3, SMT
<1>9. ~EntryStops(w, 1)
  <2>1. Len(w) = 9
    BY <1>4, Zenon
  <2>2. 1 # 0 /\ ~(Len(w) < 4) /\ ~(Len(w) < 5) /\ ~(Len(w) < 9)
    BY <2>1, SMT
  <2> QED
    BY <1>8, <2>2, Zenon DEF EntryStops
<1>10. EntryItem(w) = <<ip>>
  <2>1. 9 = 5 + 4
    BY SMT
  <2>2. Slice(w, 0, 3) = <<1, 1, 204>>
    BY <1>1, <1>5 DEF Ip4Protocol
  <2>3. EntryEnd(w) = EntryAt(w) + 4 /\ Slice(w, EntryAt(w), EntryEnd(w)) = ip
    BY <1>7, <1>8, <2>1, Zenon
  <2> QED
    BY <2>2, <2>3, SMT DEF EntryItem
<1>11. CdpEntries[<<Rest(w, 9), 0>>] = <<>>
  <2>1. Rest(w, 9) \in String
    <3>1. 9 \in Nat /\ Len(w) \in Nat
      BY <1>4, CatProps, SMT
    <3> QED
      BY <1>4, <3>1, SliceString, Zenon DEF Rest
  <2>2. 0 \in Nat
    BY SMT
  <2> QED
    BY <2>1, <2>2, CdpEntriesUnfold, Zenon DEF EntryStep, EntryStops
<1>12. CdpEntries[<<w, 1>>] = <<ip>> \o <<>>
  <2>1. 1 \in Nat /\ 1 - 1 = 0
    BY SMT
  <2>2. CdpEntries[<<w, 1>>] = EntryStep(CdpEntries, w, 1)
    BY <1>4, <2>1, CdpEntriesUnfold, Zenon
  <2>3. EntryStep(CdpEntries, w, 1) = EntryItem(w) \o CdpEntries[<<Rest(w, 9), 0>>]
    BY <1>8, <1>9, <2>1, Zenon DEF EntryStep
  <2> QED
    BY <1>10, <1>11, <2>2, <2>3, Zenon
<1>13. <<ip>> \o <<>> = <<ip>>
  <2>1. <<ip>> \in Seq(String)
    OBVIOUS
  <2> QED
    BY <2>1
<1> QED
  BY <1>4, <1>12, <1>13, Zenon

OneIp4 == <<0, 0, 0, 1, 1, 1, 204, 0, 4>>

LEMMA AddressesRead ==
  ASSUME NEW ip \in String, Len(ip) = 4, NEW v, v = Cat(OneIp4, ip)
  PROVE  v \in String /\ Len(v) = 13 /\ Addresses(v) = <<ip>>
<1>1. PICK n, p, q \in String : /\ n = OneAddress /\ p = Ip4Protocol /\ q = FourOctets
                                /\ Len(n) = 4 /\ Number[n] = 1
  BY AddressParts, Zenon
<1>2. OneIp4 = Cat(n, Cat(p, q))
  BY <1>1 DEF OneIp4, OneAddress, Ip4Protocol, FourOctets, Cat
<1>3. PICK w \in String : w = Cat(Cat(p, q), ip) /\ Len(w) = 9 /\ CdpEntries[<<w, 1>>] = <<ip>>
  BY <1>1, EntryRead, Zenon
<1>4. v = Cat(n, w)
  <2>1. PICK a \in String : a = Cat(p, q)
    BY CatProps, Zenon
  <2>2. Cat(Cat(n, a), ip) = Cat(n, Cat(a, ip))
    BY CatAssoc, SMT
  <2> QED
    BY <1>2, <1>3, <2>1, <2>2, Zenon
<1>5. v \in String /\ Len(v) = 13
  <2>1. Cat(n, w) \in String /\ Len(Cat(n, w)) = Len(n) + Len(w)
    BY CatProps, Zenon
  <2>2. 4 + 9 = 13
    BY SMT
  <2> QED
    BY <1>1, <1>3, <1>4, <2>1, <2>2, Zenon
<1>6. Slice(v, 0, 4) = n /\ Rest(v, 4) = w
  <2>1. Slice(Cat(n, w), 0, Len(n)) = n /\ Rest(Cat(n, w), Len(n)) = w
    BY HeadOfCat, RestOfCat, Zenon
  <2> QED
    BY <1>1, <1>4, <2>1, Zenon
<1>7. ~(Len(v) < 4) /\ 1 < 16
  <2>1. Len(v) = 13
    BY <1>5, Zenon
  <2> QED
    BY <2>1, SMT
<1>8. Addresses(v) = CdpEntries[<<w, 1>>]
  BY <1>1, <1>6, <1>7, Zenon DEF Addresses
<1> QED
  BY <1>3, <1>5, <1>8, Zenon

CdpPrefix == <<1, 1, 0, 0>>

LEMMA CdpPrefixIs == CdpPrefix \in String /\ Len(CdpPrefix) = 4
<1>1. 0 \in Octet /\ 1 \in Octet
  BY OctetIs, SMT
<1> QED
  BY <1>1, Four DEF CdpPrefix

CdpPart(t) == t \in Nat /\ t <= 65535
CdpValue(v) == v \in String /\ Len(v) <= 65531
CdpSoFar(types, items, B) == After(CdpItems, CdpEnc, CdpPrefix, types, items, B)

LEMMA CdpItemFits ==
  ASSUME NEW t, CdpPart(t), NEW v, CdpValue(v)
  PROVE  Item(t, v) \in CdpItems /\ CdpEnc[Item(t, v)] = CdpTlv(t, v)
<1>1. PICK e : e = Item(t, v) /\ e \in Tlvs /\ e.type = t /\ e.value = v
  <2>1. t \in Nat /\ v \in String
    BY SMT DEF CdpPart, CdpValue
  <2> QED
    BY <2>1, ItemIs, Zenon
<1>2. e \in CdpItems
  BY <1>1, SMT DEF CdpPart, CdpValue, CdpItems
<1>3. CdpEnc[e] = CdpTlv(e.type, e.value)
  BY <1>2, SMT DEF CdpEnc
<1> QED
  BY <1>1, <1>2, <1>3, Zenon

LEMMA CdpMore ==
  ASSUME NEW types, NEW items, NEW B, CdpSoFar(types, items, B),
         NEW t, CdpPart(t), t \notin types, NEW v, CdpValue(v)
  PROVE  CdpSoFar(types \cup {t}, items \cup {Item(t, v)}, Cat(B, CdpTlv(t, v)))
<1>1. Item(t, v) \in CdpItems /\ CdpEnc[Item(t, v)] = CdpTlv(t, v)
  BY CdpItemFits, Zenon
<1>2. CdpEnc \in [CdpItems -> String] /\ CdpPrefix \in String
  BY CdpReads, CdpPrefixIs, Zenon
<1>3. After(CdpItems, CdpEnc, CdpPrefix, types, items, B)
  BY Zenon DEF CdpSoFar
<1>4. After(CdpItems, CdpEnc, CdpPrefix, types \cup {t},
          items \cup {Item(t, v)}, Cat(B, CdpTlv(t, v)))
  BY <1>1, <1>2, <1>3, AfterMore, Zenon
<1> QED
  BY <1>4, Zenon DEF CdpSoFar

LEMMA CdpOptional ==
  ASSUME NEW types, NEW items, NEW B, CdpSoFar(types, items, B),
         NEW t, CdpPart(t), t \notin types, NEW v, NEW out \in BOOLEAN, ~out => CdpValue(v)
  PROVE  CdpSoFar(types \cup {t}, items \cup (IF out THEN {} ELSE {Item(t, v)}),
                   Cat(B, IF out THEN <<>> ELSE CdpTlv(t, v)))
<1>1. ~out => Item(t, v) \in CdpItems /\ CdpEnc[Item(t, v)] = CdpTlv(t, v)
  BY CdpItemFits, Zenon
<1>2. CdpEnc \in [CdpItems -> String] /\ CdpPrefix \in String
  BY CdpReads, CdpPrefixIs, Zenon
<1>3. After(CdpItems, CdpEnc, CdpPrefix, types, items, B)
  BY Zenon DEF CdpSoFar
<1>4. After(CdpItems, CdpEnc, CdpPrefix, types \cup {t},
            items \cup (IF out THEN {} ELSE {Item(t, v)}),
            Cat(B, IF out THEN <<>> ELSE CdpTlv(t, v)))
  BY <1>1, <1>2, <1>3, AfterOptional, Zenon
<1> QED
  BY <1>4, Zenon DEF CdpSoFar


\* Texts that fit a CDP TLV.
CdpTexts == Texts(65531)
CdpNames == Names(65531)

LEMMA CdpTextIs ==
  ASSUME NEW b \in CdpTexts
  PROVE  CdpValue(b) /\ DecodeText(b) = Text(b)
<1>1. PICK n \in Nat : n = 65531
  BY SMT
<1>2. b \in Texts(n)
  BY <1>1, SMT DEF CdpTexts
<1>3. b \in String /\ Len(b) <= n /\ DecodeText(b) = Text(b)
  BY <1>2, TextIs, Zenon
<1>4. CdpValue(b)
  <2>1. b \in String /\ Len(b) <= n
    BY <1>3, Zenon
  <2> QED
    BY <1>1, <2>1, SMT DEF CdpValue
<1> QED
  BY <1>3, <1>4, Zenon

LEMMA CdpNameIs ==
  ASSUME NEW b \in CdpNames
  PROVE  /\ CdpValue(b) /\ DecodeText(b) = Text(b) /\ DecodeIdentity(b) = Text(b)
         /\ ~IsBlank(Text(b))
<1>1. PICK n \in Nat : n = 65531
  BY SMT
<1>2. b \in Names(n)
  BY <1>1, SMT DEF CdpNames
<1>3. b \in Texts(n) /\ b # <<>>
  BY <1>2, Zenon DEF Names
<1>4. DecodeIdentity(b) = Text(b) /\ ~IsBlank(Text(b))
  BY <1>3, TextIs, Zenon
<1>5. b \in CdpTexts
  BY <1>1, <1>3, SMT DEF CdpTexts
<1> QED
  BY <1>4, <1>5, CdpTextIs, Zenon

LEMMA CdpFactIs ==
  ASSUME NEW d \in CdpFacts
  PROVE  /\ d.chassis \in String /\ Len(d.chassis) = 6
         /\ d.port \in CdpNames /\ d.name \in CdpNames
         /\ d.descr \in CdpTexts /\ d.platform \in CdpTexts
         /\ d.caps \in Long
         /\ d.ip # <<>> => d.ip \in String /\ Len(d.ip) = 4
         /\ Wide(d.vlan)
<1>1. d \in CdpFact
  BY FactsAssumption, Zenon
<1>2. d \in [chassis : Octets(6), port : CdpNames, name : CdpNames, descr : CdpTexts,
             platform : CdpTexts, caps : Long, ip : Optional(Octets(4)), vlan : Word]
  BY <1>1, SMT DEF CdpFact, CdpNames, CdpTexts
<1>3. /\ d.chassis \in Octets(6) /\ d.port \in CdpNames /\ d.name \in CdpNames
      /\ d.descr \in CdpTexts /\ d.platform \in CdpTexts /\ d.caps \in Long
      /\ d.ip \in Optional(Octets(4)) /\ d.vlan \in Word
  BY <1>2, SMT
<1> QED
  BY <1>3, WordIs, OctetsIs, OptionalIs, Zenon

LEMMA CdpCapsRead ==
  ASSUME NEW c \in Long, NEW v, v = InOctets(c, 4)
  PROVE  v \in String /\ Len(v) = 4 /\ Capabilities(v, 4, 9) = Bits(c, 9)
<1>1. c \in Int /\ 0 <= c /\ c <= 2147483647 /\ 4 \in 1 .. 4
  BY SMT DEF Long
<1>2. Number[InOctets(c, 4)] = c
  BY <1>1, NumberRead4, SMT
<1>3. c \in Int /\ 4 \in 1 .. 4
  BY <1>1, SMT
<1>4. v \in String /\ Len(v) = 4
  BY <1>3, InOctetsString, Zenon
<1>5. Slice(v, 0, Len(v)) = v
  BY <1>4, SliceAll, Zenon
<1>6. Number[Slice(v, 0, 4)] = c
  BY <1>2, <1>4, <1>5, Zenon
<1>7. ~(Len(v) < 4)
  <2>1. ~(4 < 4)
    BY SMT
  <2> QED
    BY <1>4, <2>1, Zenon
<1> QED
  BY <1>4, <1>6, <1>7, Zenon DEF Capabilities

CdpIpOf(d) == Cat(OneIp4, d.ip)
CdpCapsOf(d) == InOctets(d.caps, 4)
CdpVlanOf(d) == InOctets(d.vlan, 2)

LEMMA CdpValues ==
  ASSUME NEW d \in CdpFacts
  PROVE  /\ CdpValue(d.name) /\ CdpValue(d.port) /\ CdpValue(d.descr) /\ CdpValue(d.platform)
         /\ CdpValue(CdpCapsOf(d)) /\ CdpValue(CdpVlanOf(d)) /\ CdpValue(<<1>>)
         /\ d.ip # <<>> => CdpValue(CdpIpOf(d))
<1>1. \A v \in String : (Len(v) = 1 \/ Len(v) = 2 \/ Len(v) = 4 \/ Len(v) = 13) => CdpValue(v)
  <2>1. \A n \in {1, 2, 4, 13} : n <= 65531
    BY SMT
  <2>2. ASSUME NEW v \in String, NEW n \in {1, 2, 4, 13}, Len(v) = n PROVE CdpValue(v)
    BY <2>1, <2>2, SMT DEF CdpValue
  <2> QED
    BY <2>2, Zenon
<1>2. CdpValue(d.name) /\ CdpValue(d.port) /\ CdpValue(d.descr) /\ CdpValue(d.platform)
  BY CdpFactIs, CdpNameIs, CdpTextIs, Zenon
<1>3. CdpValue(CdpCapsOf(d))
  BY <1>1, CdpFactIs, CdpCapsRead, Zenon DEF CdpCapsOf
<1>4. CdpValue(CdpVlanOf(d))
  BY <1>1, CdpFactIs, Wide2, Zenon DEF CdpVlanOf
<1>5. CdpValue(<<1>>)
  <2>1. 1 \in Octet
    BY OctetIs, SMT
  <2>2. One(1) \in String /\ Len(One(1)) = 1
    BY <2>1, OneProps, Zenon
  <2> QED
    BY <1>1, <2>2, Zenon DEF One
<1>6. d.ip # <<>> => CdpValue(CdpIpOf(d))
  BY <1>1, CdpFactIs, AddressesRead, Zenon DEF CdpIpOf
<1> QED
  BY <1>2, <1>3, <1>4, <1>5, <1>6, Zenon

CdpItemsOf(d) ==
  {Item(1, d.name)} \cup (IF d.ip = <<>> THEN {} ELSE {Item(2, CdpIpOf(d))})
  \cup {Item(3, d.port), Item(4, CdpCapsOf(d)), Item(5, d.descr), Item(6, d.platform),
        Item(10, CdpVlanOf(d)), Item(11, <<1>>)}

CdpText(d) ==
  Cat(Cat(Cat(Cat(Cat(Cat(Cat(Cat(CdpPrefix,
      CdpTlv(1, d.name)),
      IF d.ip = <<>> THEN <<>> ELSE CdpTlv(2, CdpIpOf(d))),
      CdpTlv(3, d.port)),
      CdpTlv(4, CdpCapsOf(d))),
      CdpTlv(5, d.descr)),
      CdpTlv(6, d.platform)),
      CdpTlv(10, CdpVlanOf(d))),
      CdpTlv(11, <<1>>))

CdpTypes == {1, 2, 3, 4, 5, 6, 10, 11}

LEMMA CdpWritten ==
  ASSUME NEW d \in CdpFacts
  PROVE  CdpSoFar(CdpTypes, CdpItemsOf(d), CdpText(d))
<1>1. \A t \in CdpTypes : CdpPart(t)
  BY SMT DEF CdpPart, CdpTypes
<1>2. PICK B0 : B0 = CdpPrefix /\ CdpSoFar({}, {}, B0)
  <2>1. After(CdpItems, CdpEnc, CdpPrefix, {}, {}, CdpPrefix)
    BY CdpReads, CdpPrefixIs, AfterNone, Zenon
  <2> QED
    BY <2>1, Zenon DEF CdpSoFar
<1>3. PICK I1, B1 : /\ I1 = {} \cup {Item(1, d.name)}
                    /\ B1 = Cat(B0, CdpTlv(1, d.name))
                    /\ CdpSoFar({1}, I1, B1)
  <2>1. 1 \notin {} /\ 1 \in CdpTypes
    BY SMT DEF CdpTypes
  <2>2. CdpValue(d.name)
    BY CdpValues, Zenon
  <2>3. CdpSoFar({} \cup {1}, {} \cup {Item(1, d.name)},
                 Cat(B0, CdpTlv(1, d.name)))
    BY <1>1, <1>2, <2>1, <2>2, CdpMore, Zenon
  <2>4. {} \cup {1} = {1}
    BY SMT
  <2> QED
    BY <2>3, <2>4, Zenon
<1>4. PICK I2, B2 : /\ I2 = I1 \cup (IF d.ip = <<>> THEN {} ELSE {Item(2, CdpIpOf(d))})
                    /\ B2 = Cat(B1, IF d.ip = <<>> THEN <<>> ELSE CdpTlv(2, CdpIpOf(d)))
                    /\ CdpSoFar({1, 2}, I2, B2)
  <2>1. 2 \notin {1} /\ 2 \in CdpTypes
    BY SMT DEF CdpTypes
  <2>2. (d.ip = <<>>) \in BOOLEAN /\ (~(d.ip = <<>>) => CdpValue(CdpIpOf(d)))
    BY CdpValues, Zenon
  <2>3. CdpSoFar({1} \cup {2}, I1 \cup (IF d.ip = <<>> THEN {} ELSE {Item(2, CdpIpOf(d))}),
                 Cat(B1, IF d.ip = <<>> THEN <<>> ELSE CdpTlv(2, CdpIpOf(d))))
    BY <1>1, <1>3, <2>1, <2>2, CdpOptional, Zenon
  <2>4. {1} \cup {2} = {1, 2}
    BY SMT
  <2> QED
    BY <2>3, <2>4, Zenon
<1>5. PICK I3, B3 : /\ I3 = I2 \cup {Item(3, d.port)}
                    /\ B3 = Cat(B2, CdpTlv(3, d.port))
                    /\ CdpSoFar({1, 2, 3}, I3, B3)
  <2>1. 3 \notin {1, 2} /\ 3 \in CdpTypes
    BY SMT DEF CdpTypes
  <2>2. CdpValue(d.port)
    BY CdpValues, Zenon
  <2>3. CdpSoFar({1, 2} \cup {3}, I2 \cup {Item(3, d.port)},
                 Cat(B2, CdpTlv(3, d.port)))
    BY <1>1, <1>4, <2>1, <2>2, CdpMore, Zenon
  <2>4. {1, 2} \cup {3} = {1, 2, 3}
    BY SMT
  <2> QED
    BY <2>3, <2>4, Zenon
<1>6. PICK I4, B4 : /\ I4 = I3 \cup {Item(4, CdpCapsOf(d))}
                    /\ B4 = Cat(B3, CdpTlv(4, CdpCapsOf(d)))
                    /\ CdpSoFar({1, 2, 3, 4}, I4, B4)
  <2>1. 4 \notin {1, 2, 3} /\ 4 \in CdpTypes
    BY SMT DEF CdpTypes
  <2>2. CdpValue(CdpCapsOf(d))
    BY CdpValues, Zenon
  <2>3. CdpSoFar({1, 2, 3} \cup {4}, I3 \cup {Item(4, CdpCapsOf(d))},
                 Cat(B3, CdpTlv(4, CdpCapsOf(d))))
    BY <1>1, <1>5, <2>1, <2>2, CdpMore, Zenon
  <2>4. {1, 2, 3} \cup {4} = {1, 2, 3, 4}
    BY SMT
  <2> QED
    BY <2>3, <2>4, Zenon
<1>7. PICK I5, B5 : /\ I5 = I4 \cup {Item(5, d.descr)}
                    /\ B5 = Cat(B4, CdpTlv(5, d.descr))
                    /\ CdpSoFar({1, 2, 3, 4, 5}, I5, B5)
  <2>1. 5 \notin {1, 2, 3, 4} /\ 5 \in CdpTypes
    BY SMT DEF CdpTypes
  <2>2. CdpValue(d.descr)
    BY CdpValues, Zenon
  <2>3. CdpSoFar({1, 2, 3, 4} \cup {5}, I4 \cup {Item(5, d.descr)},
                 Cat(B4, CdpTlv(5, d.descr)))
    BY <1>1, <1>6, <2>1, <2>2, CdpMore, Zenon
  <2>4. {1, 2, 3, 4} \cup {5} = {1, 2, 3, 4, 5}
    BY SMT
  <2> QED
    BY <2>3, <2>4, Zenon
<1>8. PICK I6, B6 : /\ I6 = I5 \cup {Item(6, d.platform)}
                    /\ B6 = Cat(B5, CdpTlv(6, d.platform))
                    /\ CdpSoFar({1, 2, 3, 4, 5, 6}, I6, B6)
  <2>1. 6 \notin {1, 2, 3, 4, 5} /\ 6 \in CdpTypes
    BY SMT DEF CdpTypes
  <2>2. CdpValue(d.platform)
    BY CdpValues, Zenon
  <2>3. CdpSoFar({1, 2, 3, 4, 5} \cup {6}, I5 \cup {Item(6, d.platform)},
                 Cat(B5, CdpTlv(6, d.platform)))
    BY <1>1, <1>7, <2>1, <2>2, CdpMore, Zenon
  <2>4. {1, 2, 3, 4, 5} \cup {6} = {1, 2, 3, 4, 5, 6}
    BY SMT
  <2> QED
    BY <2>3, <2>4, Zenon
<1>9. PICK I7, B7 : /\ I7 = I6 \cup {Item(10, CdpVlanOf(d))}
                    /\ B7 = Cat(B6, CdpTlv(10, CdpVlanOf(d)))
                    /\ CdpSoFar({1, 2, 3, 4, 5, 6, 10}, I7, B7)
  <2>1. 10 \notin {1, 2, 3, 4, 5, 6} /\ 10 \in CdpTypes
    BY SMT DEF CdpTypes
  <2>2. CdpValue(CdpVlanOf(d))
    BY CdpValues, Zenon
  <2>3. CdpSoFar({1, 2, 3, 4, 5, 6} \cup {10}, I6 \cup {Item(10, CdpVlanOf(d))},
                 Cat(B6, CdpTlv(10, CdpVlanOf(d))))
    BY <1>1, <1>8, <2>1, <2>2, CdpMore, Zenon
  <2>4. {1, 2, 3, 4, 5, 6} \cup {10} = {1, 2, 3, 4, 5, 6, 10}
    BY SMT
  <2> QED
    BY <2>3, <2>4, Zenon
<1>10. PICK I8, B8 : /\ I8 = I7 \cup {Item(11, <<1>>)}
                     /\ B8 = Cat(B7, CdpTlv(11, <<1>>))
                     /\ CdpSoFar({1, 2, 3, 4, 5, 6, 10, 11}, I8, B8)
  <2>1. 11 \notin {1, 2, 3, 4, 5, 6, 10} /\ 11 \in CdpTypes
    BY SMT DEF CdpTypes
  <2>2. CdpValue(<<1>>)
    BY CdpValues, Zenon
  <2>3. CdpSoFar({1, 2, 3, 4, 5, 6, 10} \cup {11}, I7 \cup {Item(11, <<1>>)},
                 Cat(B7, CdpTlv(11, <<1>>)))
    BY <1>1, <1>9, <2>1, <2>2, CdpMore, Zenon
  <2>4. {1, 2, 3, 4, 5, 6, 10} \cup {11} = {1, 2, 3, 4, 5, 6, 10, 11}
    BY SMT
  <2> QED
    BY <2>3, <2>4, Zenon
<1>11. I8 = CdpItemsOf(d)
  BY <1>3, <1>4, <1>5, <1>6, <1>7, <1>8, <1>9, <1>10, Zenon DEF CdpItemsOf
<1>12. B8 = CdpText(d)
  BY <1>2, <1>3, <1>4, <1>5, <1>6, <1>7, <1>8, <1>9, <1>10, Zenon DEF CdpText
<1> QED
  BY <1>10, <1>11, <1>12, Zenon DEF CdpTypes

CdpTo == <<1, 0, 12, 204, 204, 204>>
CdpEthHead(d) == EthHead(CdpTo, d.chassis, 8192)

LEMMA CdpBuilt ==
  ASSUME NEW d
  PROVE  BuildCdp(d) = Cat(CdpEthHead(d), CdpText(d))
BY DEF BuildCdp, Eth, CdpEthHead, CdpTo, EthHead, Cat, CdpText, CdpPrefix, CdpIpOf,
       CdpCapsOf, CdpVlanOf, OneIp4

\* The fields of a CDP neighbor.
CdpId(s) == Field(s, OfType(s, 1, 0), DeviceId, Blank)
CdpPort(s) == Field(s, OfType(s, 3, 0), DecodeIdentity, Blank)
CdpDescr(s) == Field(s, OfType(s, 5, 0), DecodeText, Blank)
CdpPlatform(s) == Field(s, OfType(s, 6, 0), DecodeText, Blank)
CdpCaps(s) == Field(s, OfType(s, 4, 0), LAMBDA v : Capabilities(v, 4, 9), {})
CdpIps(s) == Field(s, OfType(s, 2, 0), Addresses, <<>>)
CdpVlan(s) == Field(s, OfType(s, 10, 2), LAMBDA v : Number[Slice(v, 0, 2)], NoVlan)

CdpNeighbor(s) ==
  [protocol |-> "cdp", chassis |-> CdpId(s), name |-> CdpId(s), port |-> CdpPort(s),
   descr |-> CdpDescr(s), platform |-> CdpPlatform(s), caps |-> CdpCaps(s),
   ips |-> CdpIps(s), vlan |-> CdpVlan(s)]

CdpHeard(s) == IF IsBlank(CdpId(s)) THEN Nothing ELSE CdpNeighbor(s)
CdpBodyHeard(b) == IF Len(b) < 4 THEN Nothing ELSE CdpHeard(CdpTlvs[Rest(b, 4)])

LEMMA CdpParsed ==
  ASSUME NEW f
  PROVE  ParseCdp(f) = CdpBodyHeard(CdpBody(f))
<1>1. ParseCdp(f) =
        LET s == CdpTlvs[Rest(CdpBody(f), 4)]
        IN IF Len(CdpBody(f)) < 4 \/ IsBlank(CdpId(s)) THEN Nothing ELSE CdpNeighbor(s)
  BY DEF ParseCdp, CdpNeighbor, CdpId, CdpPort, CdpDescr, CdpPlatform, CdpCaps, CdpIps, CdpVlan
<1> QED
  BY <1>1, Zenon DEF CdpBodyHeard, CdpHeard

\* What is behind the header and the version is read as the items.
CdpRead(d, s, y) == ReadFrom(CdpTlvs, CdpItems, s, CdpItemsOf(d), y)
CdpHeads(h) ==
  /\ h \in String /\ Len(h) = 14
  /\ \A x \in String : IsCdp(Cat(h, x)) /\ Rest(Cat(h, x), 14) = x

LEMMA CdpFrame ==
  ASSUME NEW d \in CdpFacts
  PROVE  \E h, s, y : /\ CdpHeads(h) /\ BuildCdp(d) = Cat(h, Cat(CdpPrefix, y))
                      /\ CdpRead(d, s, y)
<1>1. PICK h : h = CdpEthHead(d)
  OBVIOUS
<1>2. CdpHeads(h)
  <2>1. CdpTo \in String /\ Len(CdpTo) = 6
    <3>1. 0 \in Octet /\ 1 \in Octet /\ 12 \in Octet /\ 204 \in Octet
      BY OctetIs, SMT
    <3>2. CdpTo \in Seq(Octet)
      BY <3>1 DEF CdpTo
    <3>3. Len(CdpTo) = 6
      BY DEF CdpTo
    <3> QED
      BY <3>2, <3>3, Zenon DEF String
  <2>2. d.chassis \in String /\ Len(d.chassis) = 6
    BY CdpFactIs, Zenon
  <2>3. PICK type, hi : type = 8192 /\ hi = 32 /\ Wide(type) /\ hi = High(type)
    <3>1. Wide(8192) /\ 32 = High(8192)
      BY SMT DEF Wide, High
    <3> QED
      BY <3>1
  <2>4. h = EthHead(CdpTo, d.chassis, type)
    BY <1>1, <2>3, SMT DEF CdpEthHead
  <2>5. Wide(type) /\ hi = High(type)
    BY <2>3
  <2>6. /\ h \in String /\ Len(h) = 14
        /\ \A x \in String : IsOf(Cat(h, x), type, hi) /\ Rest(Cat(h, x), 14) = x
    <3>1. ASSUME NEW x \in String
          PROVE  EthFrame(EthHead(CdpTo, d.chassis, type), x, type, hi)
      BY <2>1, <2>2, <2>5, EthIs, Zenon
    <3> QED
      BY <2>4, <3>1, CatEmpty, Zenon DEF EthFrame
  <2>7. \A f : IsOf(f, type, hi) => IsCdp(f)
    BY <2>3, SMT DEF IsCdp
  <2> QED
    BY <2>6, <2>7, Zenon DEF CdpHeads
<1>3. PICK end : end = <<>> /\ end \in String /\ Ends(CdpTlvs, end)
  BY CdpEnds, Zenon
<1>4. PICK T, enc, p, types, items, B :
        /\ T = CdpItems /\ enc = CdpEnc /\ p = CdpPrefix /\ types = CdpTypes
        /\ items = CdpItemsOf(d) /\ B = CdpText(d)
  OBVIOUS
<1>5. After(T, enc, p, types, items, B)
  BY <1>4, CdpWritten, Zenon DEF CdpSoFar
<1>6. enc \in [T -> String] /\ p \in String /\ ReadsItems(CdpTlvs, T, enc)
  BY <1>4, CdpReads, CdpPrefixIs, Zenon
<1>7. PICK s, y : ReadFrom(CdpTlvs, T, s, items, y) /\ Cat(B, end) = Cat(p, y)
  <2>1. ReadAfter(CdpTlvs, T, types, items, p, Cat(B, end))
    BY <1>3, <1>5, <1>6, AfterRead, Zenon
  <2> QED
    BY <2>1, Zenon DEF ReadAfter
<1>8. B \in String
  <2>1. PICK b : Holds(T, enc, types, items, b) /\ B = Cat(p, b)
    BY <1>5, Zenon DEF After
  <2>2. b \in String
    BY <2>1, Zenon DEF Holds
  <2> QED
    BY <1>6, <2>1, <2>2, CatProps, Zenon
<1>9. B = Cat(CdpPrefix, y)
  BY <1>3, <1>4, <1>7, <1>8, CatEmpty, Zenon
<1>10. BuildCdp(d) = Cat(h, Cat(CdpPrefix, y))
  BY <1>1, <1>4, <1>9, CdpBuilt, Zenon
<1>11. CdpRead(d, s, y)
  BY <1>4, <1>7, Zenon DEF CdpRead
<1> QED
  BY <1>2, <1>10, <1>11, Zenon

LEMMA CdpSet ==
  ASSUME NEW s
  PROVE  /\ \A v : Sets(s, OfType(s, 1, 0), v) => CdpId(s) = DeviceId(v)
         /\ \A v : Sets(s, OfType(s, 3, 0), v) => CdpPort(s) = DecodeIdentity(v)
         /\ \A v : Sets(s, OfType(s, 5, 0), v) => CdpDescr(s) = DecodeText(v)
         /\ \A v : Sets(s, OfType(s, 6, 0), v) => CdpPlatform(s) = DecodeText(v)
         /\ \A v : Sets(s, OfType(s, 4, 0), v) => CdpCaps(s) = Capabilities(v, 4, 9)
         /\ \A v : Sets(s, OfType(s, 2, 0), v) => CdpIps(s) = Addresses(v)
         /\ OfType(s, 2, 0) = {} => CdpIps(s) = <<>>
         /\ \A v : Sets(s, OfType(s, 10, 2), v) => CdpVlan(s) = Number[Slice(v, 0, 2)]
<1>1. \A v : Sets(s, OfType(s, 1, 0), v) => CdpId(s) = DeviceId(v)
  BY Zenon DEF CdpId, Field, Sets
<1>2. \A v : Sets(s, OfType(s, 3, 0), v) => CdpPort(s) = DecodeIdentity(v)
  BY Zenon DEF CdpPort, Field, Sets
<1>3. \A v : Sets(s, OfType(s, 5, 0), v) => CdpDescr(s) = DecodeText(v)
  BY Zenon DEF CdpDescr, Field, Sets
<1>4. \A v : Sets(s, OfType(s, 6, 0), v) => CdpPlatform(s) = DecodeText(v)
  BY Zenon DEF CdpPlatform, Field, Sets
<1>5. \A v : Sets(s, OfType(s, 4, 0), v) => CdpCaps(s) = Capabilities(v, 4, 9)
  BY Zenon DEF CdpCaps, Field, Sets
<1>6. \A v : Sets(s, OfType(s, 2, 0), v) => CdpIps(s) = Addresses(v)
  BY Zenon DEF CdpIps, Field, Sets
<1>7. OfType(s, 2, 0) = {} => CdpIps(s) = <<>>
  BY Zenon DEF CdpIps, Field
<1>8. \A v : Sets(s, OfType(s, 10, 2), v) => CdpVlan(s) = Number[Slice(v, 0, 2)]
  BY Zenon DEF CdpVlan, Field, Sets
<1> QED
  BY <1>1, <1>2, <1>3, <1>4, <1>5, <1>6, <1>7, <1>8

LEMMA CdpItemTypes ==
  ASSUME NEW d, d.ip = <<>>, NEW x \in CdpItemsOf(d)
  PROVE  x.type # 2
<1>1. /\ 1 # 2 /\ 3 # 2 /\ 4 # 2 /\ 5 # 2 /\ 6 # 2 /\ 10 # 2 /\ 11 # 2
  BY SMT
<1>2. \E t \in {1, 3, 4, 5, 6, 10, 11} : \E v : x = Item(t, v)
  BY Zenon DEF CdpItemsOf
<1>3. x.type \in {1, 3, 4, 5, 6, 10, 11}
  <2>1. ASSUME NEW u, NEW v, x = Item(u, v) PROVE x.type = u
    <3>1. Item(u, v).type = u
      BY ItemIs, Zenon
    <3> QED
      BY <2>1, <3>1, Zenon
  <2> QED
    BY <1>2, <2>1, Zenon
<1> QED
  BY <1>1, <1>3, Zenon

LEMMA CdpItemsIn == CdpItems \in SUBSET Tlvs
BY SMT DEF CdpItems

CdpSays(d) ==
  [protocol |-> "cdp", chassis |-> Text(d.name), name |-> Text(d.name),
   port |-> Text(d.port), descr |-> Text(d.descr), platform |-> Text(d.platform),
   caps |-> Bits(d.caps, 9), ips |-> Ips(d), vlan |-> d.vlan]

LEMMA CdpWhole ==
  ASSUME NEW d \in CdpFacts, NEW s, NEW y, CdpRead(d, s, y)
  PROVE  /\ CdpHeard(s) = CdpSays(d) /\ CdpHeard(s) = CdpNeighbor(s)
         /\ s \in Seq(CdpItems) /\ Distinct(s)
<1>1. ReadFrom(CdpTlvs, CdpItems, s, CdpItemsOf(d), y) /\ CdpItems \in SUBSET Tlvs
  BY CdpItemsIn, Zenon DEF CdpRead
<1>2. 0 \in Nat /\ 2 \in Nat /\ 2 <= 2
  BY SMT
<1>3. \A v : CdpValue(v) => v \in String /\ 0 <= Len(v)
  <2> SUFFICES ASSUME NEW v, CdpValue(v) PROVE v \in String /\ 0 <= Len(v)
    OBVIOUS
  <2>1. v \in String
    BY SMT DEF CdpValue
  <2>2. Len(v) \in Nat
    BY <2>1, CatProps, Zenon
  <2> QED
    BY <2>1, <2>2, SMT
<1>4. \A t, v : Item(t, v) \in CdpItemsOf(d) /\ CdpValue(v) => Sets(s, OfType(s, t, 0), v)
  BY <1>1, <1>2, <1>3, ItemGives, Zenon
<1>5. /\ CdpValue(d.name) /\ CdpValue(d.port) /\ CdpValue(d.descr) /\ CdpValue(d.platform)
      /\ CdpValue(CdpCapsOf(d)) /\ CdpValue(CdpVlanOf(d))
      /\ d.ip # <<>> => CdpValue(CdpIpOf(d))
  BY CdpValues, Zenon
<1>6. CdpId(s) = Text(d.name) /\ ~IsBlank(Text(d.name))
  <2>1. Item(1, d.name) \in CdpItemsOf(d)
    BY Zenon DEF CdpItemsOf
  <2>2. DecodeText(d.name) = Text(d.name) /\ ~IsBlank(Text(d.name))
    BY CdpFactIs, CdpNameIs, Zenon
  <2>3. Sets(s, OfType(s, 1, 0), d.name)
    BY <1>4, <1>5, <2>1, Zenon
  <2>4. DeviceId(d.name) = Text(d.name)
    BY <2>2, Zenon DEF DeviceId
  <2> QED
    BY <2>2, <2>3, <2>4, CdpSet, Zenon
<1>7. CdpPort(s) = Text(d.port)
  <2>1. Item(3, d.port) \in CdpItemsOf(d)
    BY Zenon DEF CdpItemsOf
  <2>2. DecodeIdentity(d.port) = Text(d.port)
    BY CdpFactIs, CdpNameIs, Zenon
  <2>3. Sets(s, OfType(s, 3, 0), d.port)
    BY <1>4, <1>5, <2>1, Zenon
  <2> QED
    BY <2>2, <2>3, CdpSet, Zenon
<1>8. CdpDescr(s) = Text(d.descr)
  <2>1. Item(5, d.descr) \in CdpItemsOf(d)
    BY Zenon DEF CdpItemsOf
  <2>2. DecodeText(d.descr) = Text(d.descr)
    BY CdpFactIs, CdpTextIs, Zenon
  <2>3. Sets(s, OfType(s, 5, 0), d.descr)
    BY <1>4, <1>5, <2>1, Zenon
  <2> QED
    BY <2>2, <2>3, CdpSet, Zenon
<1>9. CdpPlatform(s) = Text(d.platform)
  <2>1. Item(6, d.platform) \in CdpItemsOf(d)
    BY Zenon DEF CdpItemsOf
  <2>2. DecodeText(d.platform) = Text(d.platform)
    BY CdpFactIs, CdpTextIs, Zenon
  <2>3. Sets(s, OfType(s, 6, 0), d.platform)
    BY <1>4, <1>5, <2>1, Zenon
  <2> QED
    BY <2>2, <2>3, CdpSet, Zenon
<1>10. CdpCaps(s) = Bits(d.caps, 9)
  <2>1. Item(4, CdpCapsOf(d)) \in CdpItemsOf(d)
    BY Zenon DEF CdpItemsOf
  <2>2. Sets(s, OfType(s, 4, 0), CdpCapsOf(d))
    BY <1>4, <1>5, <2>1, Zenon
  <2>3. Capabilities(CdpCapsOf(d), 4, 9) = Bits(d.caps, 9)
    BY CdpFactIs, CdpCapsRead, Zenon DEF CdpCapsOf
  <2> QED
    BY <2>2, <2>3, CdpSet, Zenon
<1>11. CdpIps(s) = Ips(d)
  <2>1. CASE d.ip = <<>>
    <3>1. \A x \in CdpItemsOf(d) : x.type # 2
      BY <2>1, CdpItemTypes, Zenon
    <3>2. OfType(s, 2, 0) = {}
      BY <1>1, <3>1, NoItemGives, SMT
    <3> QED
      BY <2>1, <3>2, CdpSet, Zenon DEF Ips
  <2>2. CASE d.ip # <<>>
    <3>1. Item(2, CdpIpOf(d)) \in CdpItemsOf(d)
      BY <2>2, Zenon DEF CdpItemsOf
    <3>2. Sets(s, OfType(s, 2, 0), CdpIpOf(d))
      BY <1>4, <1>5, <2>2, <3>1, Zenon
    <3>3. Addresses(CdpIpOf(d)) = <<d.ip>>
      BY <2>2, CdpFactIs, AddressesRead, Zenon DEF CdpIpOf
    <3> QED
      BY <2>2, <3>2, <3>3, CdpSet, Zenon DEF Ips
  <2> QED
    BY <2>1, <2>2, Zenon
<1>12. CdpVlan(s) = d.vlan
  <2>1. Item(10, CdpVlanOf(d)) \in CdpItemsOf(d)
    BY Zenon DEF CdpItemsOf
  <2>2. PICK v \in String : v = CdpVlanOf(d) /\ Len(v) = 2 /\ Number[v] = d.vlan
    BY CdpFactIs, Wide2, Zenon DEF CdpVlanOf
  <2>3. 2 <= Len(v)
    BY <1>2, <2>2, Zenon
  <2>4. Sets(s, OfType(s, 10, 2), v)
    BY <1>1, <1>2, <2>1, <2>2, <2>3, ItemGives, Zenon
  <2>5. Slice(v, 0, 2) = v
    BY <2>2, SliceAll, Zenon
  <2> QED
    BY <2>2, <2>4, <2>5, CdpSet, Zenon
<1>13. CdpNeighbor(s) = CdpSays(d)
  BY <1>6, <1>7, <1>8, <1>9, <1>10, <1>11, <1>12, Zenon DEF CdpNeighbor, CdpSays
<1>14. CdpHeard(s) = CdpNeighbor(s)
  BY <1>6, Zenon DEF CdpHeard
<1>15. s \in Seq(CdpItems) /\ Distinct(s)
  BY <1>1, Zenon DEF ReadFrom
<1> QED
  BY <1>13, <1>14, <1>15, Zenon

LEMMA CdpKept ==
  ASSUME NEW s \in Seq(CdpItems), Distinct(s), NEW r, IsStart(r, s, CdpItems)
  PROVE  /\ Kept(CdpId(r), CdpId(s), Blank)
         /\ Kept(CdpPort(r), CdpPort(s), Blank)
         /\ Kept(CdpDescr(r), CdpDescr(s), Blank)
         /\ Kept(CdpPlatform(r), CdpPlatform(s), Blank)
         /\ Kept(CdpCaps(r), CdpCaps(s), {})
         /\ Kept(CdpIps(r), CdpIps(s), <<>>)
         /\ Kept(CdpVlan(r), CdpVlan(s), NoVlan)
<1>1. \A t, n : Less(r, s, OfType(r, t, n), OfType(s, t, n))
  BY CdpItemsIn, CutGives, Zenon
<1>2. Kept(CdpId(r), CdpId(s), Blank)
  <2>1. Less(r, s, OfType(r, 1, 0), OfType(s, 1, 0))
    BY <1>1, Zenon
  <2> QED
    BY <2>1, Zenon DEF CdpId, Field, Less, Kept
<1>3. Kept(CdpPort(r), CdpPort(s), Blank)
  <2>1. Less(r, s, OfType(r, 3, 0), OfType(s, 3, 0))
    BY <1>1, Zenon
  <2> QED
    BY <2>1, Zenon DEF CdpPort, Field, Less, Kept
<1>4. Kept(CdpDescr(r), CdpDescr(s), Blank)
  <2>1. Less(r, s, OfType(r, 5, 0), OfType(s, 5, 0))
    BY <1>1, Zenon
  <2> QED
    BY <2>1, Zenon DEF CdpDescr, Field, Less, Kept
<1>5. Kept(CdpPlatform(r), CdpPlatform(s), Blank)
  <2>1. Less(r, s, OfType(r, 6, 0), OfType(s, 6, 0))
    BY <1>1, Zenon
  <2> QED
    BY <2>1, Zenon DEF CdpPlatform, Field, Less, Kept
<1>6. Kept(CdpCaps(r), CdpCaps(s), {})
  <2>1. Less(r, s, OfType(r, 4, 0), OfType(s, 4, 0))
    BY <1>1, Zenon
  <2> QED
    BY <2>1, Zenon DEF CdpCaps, Field, Less, Kept
<1>7. Kept(CdpIps(r), CdpIps(s), <<>>)
  <2>1. Less(r, s, OfType(r, 2, 0), OfType(s, 2, 0))
    BY <1>1, Zenon
  <2> QED
    BY <2>1, Zenon DEF CdpIps, Field, Less, Kept
<1>8. Kept(CdpVlan(r), CdpVlan(s), NoVlan)
  <2>1. Less(r, s, OfType(r, 10, 2), OfType(s, 10, 2))
    BY <1>1, Zenon
  <2> QED
    BY <2>1, Zenon DEF CdpVlan, Field, Less, Kept
<1> QED
  BY <1>2, <1>3, <1>4, <1>5, <1>6, <1>7, <1>8, Zenon

LEMMA CdpLess ==
  ASSUME NEW s \in Seq(CdpItems), Distinct(s), NEW r, IsStart(r, s, CdpItems)
  PROVE  OnlyLoses(CdpNeighbor(s), CdpHeard(r))
<1>1. CdpHeard(r) # Nothing => CdpHeard(r) = CdpNeighbor(r)
  BY Zenon DEF CdpHeard
<1>2. PICK w, c : w = CdpNeighbor(s) /\ c = CdpNeighbor(r)
  OBVIOUS
<1>3. DOMAIN w = {"protocol", "chassis", "name", "port", "descr", "platform", "caps", "ips", "vlan"}
  BY <1>2, SMT DEF CdpNeighbor
<1>4. /\ w.protocol = "cdp" /\ w.chassis = CdpId(s) /\ w.name = CdpId(s)
      /\ w.port = CdpPort(s) /\ w.descr = CdpDescr(s) /\ w.platform = CdpPlatform(s)
      /\ w.caps = CdpCaps(s) /\ w.ips = CdpIps(s) /\ w.vlan = CdpVlan(s)
  BY <1>2, SMT DEF CdpNeighbor
<1>5. /\ c.protocol = "cdp" /\ c.chassis = CdpId(r) /\ c.name = CdpId(r)
      /\ c.port = CdpPort(r) /\ c.descr = CdpDescr(r) /\ c.platform = CdpPlatform(r)
      /\ c.caps = CdpCaps(r) /\ c.ips = CdpIps(r) /\ c.vlan = CdpVlan(r)
  BY <1>2, SMT DEF CdpNeighbor
<1>6. /\ Unset.chassis = Blank /\ Unset.name = Blank /\ Unset.port = Blank
      /\ Unset.descr = Blank /\ Unset.platform = Blank /\ Unset.caps = {}
      /\ Unset.ips = <<>> /\ Unset.vlan = NoVlan
      /\ {"chassis", "name", "port", "descr", "platform", "caps", "ips", "vlan"}
           \subseteq DOMAIN Unset
  BY SMT DEF Unset
<1>7. ASSUME NEW k \in DOMAIN w
      PROVE  c[k] = w[k] \/ (k \in DOMAIN Unset /\ c[k] = Unset[k])
  <2>1. CASE k = "protocol"
    BY <1>4, <1>5, <2>1, Zenon
  <2>2. CASE k = "chassis"
    BY <1>4, <1>5, <1>6, <2>2, CdpKept, Zenon DEF Kept
  <2>3. CASE k = "name"
    BY <1>4, <1>5, <1>6, <2>3, CdpKept, Zenon DEF Kept
  <2>4. CASE k = "port"
    BY <1>4, <1>5, <1>6, <2>4, CdpKept, Zenon DEF Kept
  <2>5. CASE k = "descr"
    BY <1>4, <1>5, <1>6, <2>5, CdpKept, Zenon DEF Kept
  <2>6. CASE k = "platform"
    BY <1>4, <1>5, <1>6, <2>6, CdpKept, Zenon DEF Kept
  <2>7. CASE k = "caps"
    BY <1>4, <1>5, <1>6, <2>7, CdpKept, Zenon DEF Kept
  <2>8. CASE k = "ips"
    BY <1>4, <1>5, <1>6, <2>8, CdpKept, Zenon DEF Kept
  <2>9. CASE k = "vlan"
    BY <1>4, <1>5, <1>6, <2>9, CdpKept, Zenon DEF Kept
  <2> QED
    BY <1>3, <2>1, <2>2, <2>3, <2>4, <2>5, <2>6, <2>7, <2>8, <2>9, Zenon
<1> QED
  BY <1>1, <1>2, <1>7, Zenon DEF OnlyLoses

LEMMA CdpRoundTrip ==
  ASSUME NEW d \in CdpFacts
  PROVE  /\ Hear(BuildCdp(d)) = CdpSays(d)
         /\ \A n \in Nat : n <= Len(BuildCdp(d)) =>
              OnlyLoses(Hear(BuildCdp(d)), Hear(Slice(BuildCdp(d), 0, n)))
<1>1. PICK h, s, y : /\ CdpHeads(h) /\ BuildCdp(d) = Cat(h, Cat(CdpPrefix, y))
                     /\ CdpRead(d, s, y)
  BY CdpFrame, Zenon
<1>2. PICK g : g = 14 /\ h \in String /\ Len(h) = g
  BY <1>1, Zenon DEF CdpHeads
<1>3. \A x \in String : Hear(Cat(h, x)) = CdpBodyHeard(x)
  <2> SUFFICES ASSUME NEW x \in String PROVE Hear(Cat(h, x)) = CdpBodyHeard(x)
    OBVIOUS
  <2>1. IsCdp(Cat(h, x)) /\ Rest(Cat(h, x), 14) = x
    BY <1>1, Zenon DEF CdpHeads
  <2>2. EtherType(Cat(h, x)) = 8192
    BY <2>1, SMT DEF IsCdp, IsOf
  <2>3. CdpBody(Cat(h, x)) = x
    BY <2>1, <2>2, SMT DEF CdpBody
  <2> QED
    BY <2>1, <2>3, HearsCdp, CdpParsed, Zenon
<1>4. /\ y \in String /\ CdpTlvs[y] = s
      /\ \A n \in Nat : n <= Len(y) => IsStart(CdpTlvs[Slice(y, 0, n)], s, CdpItems)
  BY <1>1, Zenon DEF CdpRead, ReadFrom
<1>5. /\ CdpHeard(s) = CdpSays(d) /\ CdpHeard(s) = CdpNeighbor(s)
      /\ s \in Seq(CdpItems) /\ Distinct(s)
  BY <1>1, CdpWhole, Zenon
<1>6. PICK p \in String : p = CdpPrefix /\ Len(p) = 4
  BY CdpPrefixIs, Zenon
<1>7. ASSUME NEW x \in String PROVE CdpBodyHeard(Cat(p, x)) = CdpHeard(CdpTlvs[x])
  <2>1. Rest(Cat(p, x), 4) = x
    BY <1>6, RestOfCat, Zenon
  <2>2. ~(Len(Cat(p, x)) < 4)
    <3>1. Len(Cat(p, x)) = Len(p) + Len(x) /\ Len(x) \in Nat
      BY CatProps, Zenon
    <3>2. Len(p) = 4
      BY <1>6, Zenon
    <3> QED
      BY <3>1, <3>2, SMT
  <2> QED
    BY <2>1, <2>2, Zenon DEF CdpBodyHeard
<1>8. PICK x \in String : x = Cat(p, y)
  BY <1>4, CatProps, Zenon
<1>9. BuildCdp(d) = Cat(h, x)
  BY <1>1, <1>6, <1>8, Zenon
<1>10. Hear(Cat(h, x)) = CdpHeard(s)
  BY <1>3, <1>4, <1>7, <1>8, Zenon
<1>11. ASSUME NEW n \in Nat, n <= Len(Cat(h, x))
       PROVE  OnlyLoses(CdpNeighbor(s), Hear(Slice(Cat(h, x), 0, n)))
  <2>1. CASE n < g
    <3>1. Slice(Cat(h, x), 0, n) \in String /\ Len(Slice(Cat(h, x), 0, n)) = n
      BY <1>2, <1>11, FramedCut, Zenon
    <3>2. Hear(Slice(Cat(h, x), 0, n)) = Nothing
      BY <1>2, <2>1, <3>1, HearsNothing, Zenon
    <3> QED
      BY <3>2, Zenon DEF OnlyLoses
  <2>2. CASE ~(n < g)
    <3>1. PICK k \in Nat : k <= Len(x) /\ Slice(Cat(h, x), 0, n) = Cat(h, Slice(x, 0, k))
      BY <1>2, <1>11, <2>2, CutBehind, Zenon
    <3>2. Slice(x, 0, k) \in String
      BY SliceString, Zenon
    <3>3. Hear(Slice(Cat(h, x), 0, n)) = CdpBodyHeard(Slice(x, 0, k))
      BY <1>3, <3>1, <3>2, Zenon
    <3>4. CASE k < Len(p)
      <4>1. Len(Slice(x, 0, k)) = k
        BY <1>4, <1>8, <3>1, FramedCut, Zenon
      <4>2. CdpBodyHeard(Slice(x, 0, k)) = Nothing
        BY <1>6, <3>4, <4>1, Zenon DEF CdpBodyHeard
      <4> QED
        BY <3>3, <4>2, Zenon DEF OnlyLoses
    <3>5. CASE ~(k < Len(p))
      <4>1. PICK j \in Nat : j <= Len(y) /\ Slice(Cat(p, y), 0, k) = Cat(p, Slice(y, 0, j))
        BY <1>4, <1>8, <3>1, <3>5, CutBehind, Zenon
      <4>2. Slice(y, 0, j) \in String
        BY <1>4, SliceString, Zenon
      <4>3. CdpBodyHeard(Slice(x, 0, k)) = CdpHeard(CdpTlvs[Slice(y, 0, j)])
        BY <1>7, <1>8, <4>1, <4>2, Zenon
      <4>4. IsStart(CdpTlvs[Slice(y, 0, j)], s, CdpItems)
        BY <1>4, <4>1, Zenon
      <4>5. OnlyLoses(CdpNeighbor(s), CdpHeard(CdpTlvs[Slice(y, 0, j)]))
        BY <1>5, <4>4, CdpLess, Zenon
      <4> QED
        BY <3>3, <4>3, <4>5, Zenon
    <3> QED
      BY <3>4, <3>5, Zenon
  <2> QED
    BY <2>1, <2>2, Zenon
<1> QED
  BY <1>5, <1>9, <1>10, <1>11, Zenon

-----------------------------------------------------------------------------
(* Fields at fixed places.                                                 *)

LEMMA SliceShift ==
  ASSUME NEW a \in String, NEW c \in String, NEW from \in Nat, NEW to \in Nat,
         from <= to, to <= Len(c)
  PROVE  Slice(Cat(a, c), Len(a) + from, Len(a) + to) = Slice(c, from, to)
<1>1. PICK b \in String : /\ b = Cat(a, c) /\ Len(b) = Len(a) + Len(c)
                          /\ \A i \in 1 .. Len(c) : b[Len(a) + i] = c[i]
  <2>1. /\ Cat(a, c) \in String /\ Len(Cat(a, c)) = Len(a) + Len(c)
        /\ \A i \in 1 .. Len(c) : Cat(a, c)[Len(a) + i] = c[i]
    BY CatProps, Zenon
  <2> QED
    BY <2>1, Zenon
<1>2. Len(a) \in Nat /\ Len(c) \in Nat
  BY CatProps, Zenon
<1>3. PICK f, t \in Nat : f = Len(a) + from /\ t = Len(a) + to
  <2>1. Len(a) + from \in Nat /\ Len(a) + to \in Nat
    BY <1>2, SMT
  <2> QED
    BY <2>1, Zenon
<1>4. f <= t /\ t <= Len(b) /\ t - f = to - from
  BY <1>1, <1>2, <1>3, SMT
<1>5. PICK u \in String : /\ u = Slice(c, from, to) /\ Len(u) = to - from
                          /\ \A i \in 1 .. Len(u) : u[i] = c[from + i]
  <2>1. /\ Slice(c, from, to) \in String /\ Len(Slice(c, from, to)) = to - from
        /\ \A i \in 1 .. Len(Slice(c, from, to)) : Slice(c, from, to)[i] = c[from + i]
    BY SliceProps, Zenon
  <2> QED
    BY <2>1, Zenon
<1>6. PICK w \in String : /\ w = Slice(b, f, t) /\ Len(w) = t - f
                          /\ \A i \in 1 .. Len(w) : w[i] = b[f + i]
  <2>1. /\ Slice(b, f, t) \in String /\ Len(Slice(b, f, t)) = t - f
        /\ \A i \in 1 .. Len(Slice(b, f, t)) : Slice(b, f, t)[i] = b[f + i]
    BY <1>4, SliceProps, Zenon
  <2> QED
    BY <2>1, Zenon
<1>7. \A i \in 1 .. Len(w) : w[i] = u[i]
  <2> SUFFICES ASSUME NEW i \in 1 .. Len(w) PROVE w[i] = u[i]
    OBVIOUS
  <2>1. from + i \in 1 .. Len(c) /\ i \in 1 .. Len(u) /\ f + i = Len(a) + (from + i)
    BY <1>2, <1>3, <1>4, <1>5, <1>6, SMT
  <2> QED
    BY <1>1, <1>5, <1>6, <2>1, Zenon
<1>8. Len(w) = Len(u) /\ w \in Seq(Octet) /\ u \in Seq(Octet)
  BY <1>4, <1>5, <1>6, Zenon DEF String
<1>9. w = u
  BY <1>7, <1>8, SeqEqual, Zenon
<1> QED
  BY <1>1, <1>3, <1>5, <1>6, <1>9, Zenon

\* v is what b has from n to m.
PartAt(b, v, n, m) ==
  b \in String /\ n \in Nat /\ m \in Nat /\ n <= m /\ m <= Len(b) /\ Slice(b, n, m) = v

\* A part stays where it is when more follows.
LEMMA PartMore ==
  ASSUME NEW b, NEW v, NEW n, NEW m, PartAt(b, v, n, m), NEW c \in String
  PROVE  PartAt(Cat(b, c), v, n, m)
<1>1. b \in String /\ n \in Nat /\ m \in Nat /\ n <= m /\ m <= Len(b) /\ Slice(b, n, m) = v
  BY Zenon DEF PartAt
<1>2. Slice(Cat(b, c), n, m) = Slice(b, n, m)
  BY <1>1, SliceWithin, Zenon
<1>3. /\ Cat(b, c) \in String /\ Len(Cat(b, c)) = Len(b) + Len(c)
      /\ Len(b) \in Nat /\ Len(c) \in Nat
  BY <1>1, CatProps, Zenon
<1>4. m <= Len(Cat(b, c))
  BY <1>1, <1>3, SMT
<1> QED
  BY <1>1, <1>2, <1>3, <1>4, Zenon DEF PartAt

\* A string of n octets, and one that follows it.
Sized(b, n) == b \in String /\ Len(b) = n /\ n \in Nat

EndsWith(b, v, n, m) == Sized(b, m) /\ PartAt(b, v, n, m)

LEMMA Behind ==
  ASSUME NEW a, NEW n, Sized(a, n), NEW v, NEW k, Sized(v, k), NEW m, m = n + k
  PROVE  EndsWith(Cat(a, v), v, n, m)
<1>1. a \in String /\ v \in String /\ Len(a) = n /\ Len(v) = k /\ n \in Nat /\ k \in Nat
  BY SMT DEF Sized
<1>2. Cat(a, v) \in String /\ Len(Cat(a, v)) = m
  BY <1>1, CatProps, Zenon
<1>3. Slice(Cat(a, v), n, m) = v
  BY <1>1, SliceLast, Zenon
<1>4. n <= m /\ m <= m /\ m \in Nat
  BY <1>1, SMT
<1> QED
  BY <1>1, <1>2, <1>3, <1>4, Zenon DEF EndsWith, PartAt, Sized

\* The part of what follows a head of h octets.
LEMMA PartShift ==
  ASSUME NEW a, NEW h, Sized(a, h), NEW b, NEW v, NEW n, NEW m, PartAt(b, v, n, m)
  PROVE  PartAt(Cat(a, b), v, h + n, h + m)
<1>1. b \in String /\ n \in Nat /\ m \in Nat /\ n <= m /\ m <= Len(b) /\ Slice(b, n, m) = v
  BY Zenon DEF PartAt
<1>2. a \in String /\ Len(a) = h /\ h \in Nat
  BY Zenon DEF Sized
<1>3. Slice(Cat(a, b), h + n, h + m) = v
  BY <1>1, <1>2, SliceShift, Zenon
<1>4. /\ Cat(a, b) \in String /\ Len(Cat(a, b)) = h + Len(b) /\ Len(b) \in Nat
  BY <1>1, <1>2, CatProps, Zenon
<1>5. h + n \in Nat /\ h + m \in Nat /\ h + n <= h + m /\ h + m <= h + Len(b)
  BY <1>1, <1>2, <1>4, SMT
<1> QED
  BY <1>3, <1>4, <1>5, Zenon DEF PartAt

LEMMA PartOctet ==
  ASSUME NEW b, NEW v, NEW n, NEW m, PartAt(b, v, n, m), NEW i \in 1 .. Len(v)
  PROVE  b[n + i] = v[i]
<1>1. b \in String /\ n \in Nat /\ m \in Nat /\ Slice(b, n, m) = v
  BY Zenon DEF PartAt
<1>2. \A j \in 1 .. Len(Slice(b, n, m)) : Slice(b, n, m)[j] = b[n + j]
  BY <1>1, SliceProps, Zenon
<1> QED
  BY <1>1, <1>2, Zenon

\* A string that ends before a part is over does not have all of it.
LEMMA PartCut ==
  ASSUME NEW b \in String, NEW n \in Nat, NEW m \in Nat, n < m, Len(b) < m
  PROVE  Len(Slice(b, n, m)) \in Nat /\ Len(Slice(b, n, m)) < m - n
<1>1. Len(b) \in Nat
  BY CatProps, Zenon
<1>2. CASE n <= Len(b)
  <2>1. Len(b) <= m
    BY <1>1, SMT
  <2>2. Len(Slice(b, n, m)) = Len(b) - n
    BY <1>2, <2>1, SliceProps, Zenon
  <2> QED
    BY <1>1, <1>2, <2>2, SMT
<1>3. CASE ~(n <= Len(b))
  <2> DEFINE S == Octet
  <2>1. b \in Seq(S)
    BY Zenon DEF String
  <2>2. Slice(b, n, m) = SubSeq(b, n + 1, Len(b))
    <3>1. ~(m < Len(b))
      BY <1>1, SMT
    <3> QED
      BY <3>1, Zenon DEF Slice
  <2> HIDE DEF S
  <2>3. Len(SubSeq(b, n + 1, Len(b))) = 0
    BY <1>1, <1>3, <2>1
  <2> QED
    BY <2>2, <2>3, SMT
<1> QED
  BY <1>2, <1>3, Zenon

-----------------------------------------------------------------------------
(* Lists of addresses.                                                     *)

Addrs == Octets(4)
Listed(s) == Sized(Joined[s], 4 * Len(s))
             /\ \A i \in 1 .. Len(s) : Slice(Joined[s], 4 * i - 4, 4 * i) = s[i]

LEMMA ListedMore ==
  ASSUME NEW s \in Seq(Addrs), s # <<>>, Tail(s) \in Seq(Addrs), Listed(Tail(s))
  PROVE  Listed(s)
<1>1. PICK h, t : h = Head(s) /\ t = Tail(s)
  OBVIOUS
<1>2. /\ h \in Addrs /\ Len(t) \in Nat /\ Len(s) = Len(t) + 1 /\ s[1] = h
      /\ \A i \in 1 .. Len(t) : s[i + 1] = t[i]
  BY <1>1
<1>3. Sized(h, 4)
  <2>1. 4 \in Nat
    BY SMT
  <2> QED
    BY <1>2, <2>1, OctetsIs, Zenon DEF Addrs, Sized
<1>4. PICK x, n : /\ x = Joined[t] /\ n = 4 * Len(t) /\ Sized(x, n)
                  /\ \A i \in 1 .. Len(t) : Slice(x, 4 * i - 4, 4 * i) = t[i]
  BY <1>1, Zenon DEF Listed
<1>5. Joined[s] = Cat(h, x)
  <2>1. s \in Strings
    <3> DEFINE A == Addrs
               S == String
    <3>1. A \subseteq S
      BY OctetsIs, Zenon DEF Addrs
    <3>2. s \in Seq(A)
      OBVIOUS
    <3> HIDE DEF A, S
    <3>3. s \in Seq(S)
      BY <3>1, <3>2
    <3> QED
      BY <3>3, Zenon DEF S, Strings
  <2>2. Joined[s] = Head(s) \o Joined[Tail(s)]
    BY <2>1, JoinedUnfolds, Zenon
  <2> QED
    BY <1>1, <1>4, <2>2, Zenon DEF Cat
<1>6. PICK y, m : y = Cat(h, x) /\ m = 4 + n /\ Sized(y, m)
  <2>1. PICK m : m = 4 + n
    OBVIOUS
  <2>2. Sized(Cat(h, x), m)
    BY <1>3, <1>4, <2>1, Behind, Zenon DEF EndsWith
  <2> QED
    BY <2>1, <2>2, Zenon
<1>7. Sized(y, 4 * Len(s))
  <2>1. m = 4 * Len(s)
    BY <1>2, <1>4, <1>6, SMT
  <2> QED
    BY <1>6, <2>1, Zenon
<1>8. ASSUME NEW i \in 1 .. Len(s) PROVE Slice(y, 4 * i - 4, 4 * i) = s[i]
  <2>1. CASE i = 1
    <3>1. 4 * i - 4 = 0 /\ 4 * i = 4
      BY <2>1, SMT
    <3>2. h \in String /\ x \in String /\ Len(h) = 4
      BY <1>3, <1>4, Zenon DEF Sized
    <3>3. Slice(Cat(h, x), 0, 4) = h
      BY <3>2, HeadOfCat, Zenon
    <3> QED
      BY <1>2, <1>6, <2>1, <3>1, <3>3, Zenon
  <2>2. CASE i # 1
    <3>1. PICK j \in 1 .. Len(t) : i = j + 1
      <4>1. i - 1 \in 1 .. Len(t) /\ i = (i - 1) + 1
        BY <1>2, <2>2, SMT
      <4> QED
        BY <4>1, Zenon
    <3>2. PICK from, to \in Nat : /\ from = 4 * j - 4 /\ to = 4 * j /\ from <= to /\ to <= n
                                  /\ 4 + from = 4 * i - 4 /\ 4 + to = 4 * i
      <4>1. /\ 4 * j - 4 \in Nat /\ 4 * j \in Nat /\ 4 * j - 4 <= 4 * j /\ 4 * j <= n
            /\ 4 + (4 * j - 4) = 4 * i - 4 /\ 4 + 4 * j = 4 * i
        BY <1>2, <1>4, <3>1, SMT
      <4> QED
        BY <4>1, Zenon
    <3>3. h \in String /\ x \in String /\ Len(h) = 4 /\ Len(x) = n
      BY <1>3, <1>4, Zenon DEF Sized
    <3>4. Slice(Cat(h, x), 4 + from, 4 + to) = Slice(x, from, to)
      <4>1. from <= to /\ to <= Len(x)
        BY <3>2, <3>3, SMT
      <4>2. Slice(Cat(h, x), Len(h) + from, Len(h) + to) = Slice(x, from, to)
        BY <3>3, <4>1, SliceShift, Zenon
      <4> QED
        BY <3>3, <4>2, Zenon
    <3>5. Slice(x, from, to) = t[j]
      BY <1>4, <3>2, Zenon
    <3> QED
      BY <1>2, <1>6, <3>1, <3>2, <3>4, <3>5, Zenon
  <2> QED
    BY <2>1, <2>2, Zenon
<1> QED
  BY <1>5, <1>6, <1>7, <1>8, Zenon DEF Listed

LEMMA AllListed ==
  ASSUME NEW s \in Seq(Addrs)
  PROVE  Listed(s)
<1> DEFINE P == {u \in Seq(Addrs) : Listed(u)}
<1>1. <<>> \in P
  <2>1. PICK e : e = <<>>
    OBVIOUS
  <2>2. e \in Seq(Addrs) /\ Len(e) = 0 /\ \A i \in 1 .. Len(e) : FALSE
    BY <2>1
  <2>3. Joined[e] = <<>>
    <3>1. e \in Strings
      BY <2>1 DEF Strings
    <3> QED
      BY <2>1, <3>1, JoinedUnfolds, Zenon
  <2>4. Sized(Joined[e], 4 * Len(e))
    <3>1. 4 * Len(e) = 0 /\ 0 \in Nat
      BY <2>2, SMT
    <3>2. <<>> \in String /\ Len(<<>>) = 0
      BY CatEmpty, Zenon
    <3> QED
      BY <2>3, <3>1, <3>2, Zenon DEF Sized
  <2>5. Listed(e)
    BY <2>2, <2>4, Zenon DEF Listed
  <2> QED
    BY <2>1, <2>2, <2>5, Zenon
<1>2. \A u \in Seq(Addrs) : u # <<>> /\ Tail(u) \in Seq(Addrs) /\ Tail(u) \in P => u \in P
  BY ListedMore, Zenon
<1> HIDE DEF P
<1>3. Seq(Addrs) \subseteq P
  BY <1>1, <1>2, SeqInd, Zenon
<1> QED
  BY <1>3, Zenon DEF P

\* Addresses written one behind the other are read as the list of them.
LEMMA ListRead ==
  ASSUME NEW s \in Seq(Addrs), NEW v, v = Joined[s]
  PROVE  Sized(v, 4 * Len(s)) /\ Ip4s(v) = s
<1>1. /\ Sized(v, 4 * Len(s))
      /\ \A i \in 1 .. Len(s) : Slice(v, 4 * i - 4, 4 * i) = s[i]
  BY AllListed, Zenon DEF Listed
<1>2. Len(s) \in Nat /\ s = [i \in 1 .. Len(s) |-> s[i]]
  OBVIOUS
<1>3. Len(v) \div 4 = Len(s)
  <2>1. Len(v) = 4 * Len(s)
    BY <1>1, Zenon DEF Sized
  <2>2. \A n \in Nat : (4 * n) \div 4 = n
    BY SMT
  <2> QED
    BY <1>2, <2>1, <2>2, Zenon
<1>4. Ip4s(v) = [i \in 1 .. Len(s) |-> Slice(v, 4 * i - 4, 4 * i)]
  BY <1>3, Zenon DEF Ip4s
<1>5. Ip4s(v) = [i \in 1 .. Len(s) |-> s[i]]
  BY <1>1, <1>4, Zenon
<1> QED
  BY <1>1, <1>2, <1>5, Zenon

-----------------------------------------------------------------------------
(* The options of a DHCP reply.                                            *)

OptionPart(t) == t \in Nat /\ 1 <= t /\ t <= 254
OptionValue(v) == v \in String /\ Len(v) <= 255
OptionsSoFar(p, types, items, B) == After(OptionItems, OptionEnc, p, types, items, B)

LEMMA OptionItemFits ==
  ASSUME NEW t, OptionPart(t), NEW v, OptionValue(v)
  PROVE  Item(t, v) \in OptionItems /\ OptionEnc[Item(t, v)] = Opt(t, v)
<1>1. PICK e : e = Item(t, v) /\ e \in Tlvs /\ e.type = t /\ e.value = v
  <2>1. t \in Nat /\ v \in String
    BY SMT DEF OptionPart, OptionValue
  <2> QED
    BY <2>1, ItemIs, Zenon
<1>2. e \in OptionItems
  BY <1>1, SMT DEF OptionPart, OptionValue, OptionItems
<1>3. OptionEnc[e] = Opt(e.type, e.value)
  BY <1>2, SMT DEF OptionEnc
<1> QED
  BY <1>1, <1>2, <1>3, Zenon

LEMMA OptionsMore ==
  ASSUME NEW p \in String, NEW types, NEW items, NEW B, OptionsSoFar(p, types, items, B),
         NEW t, OptionPart(t), t \notin types, NEW v, OptionValue(v)
  PROVE  OptionsSoFar(p, types \cup {t}, items \cup {Item(t, v)}, Cat(B, Opt(t, v)))
<1>1. Item(t, v) \in OptionItems /\ OptionEnc[Item(t, v)] = Opt(t, v)
  BY OptionItemFits, Zenon
<1>2. OptionEnc \in [OptionItems -> String]
  BY OptionsRead, Zenon
<1>3. After(OptionItems, OptionEnc, p, types, items, B)
  BY Zenon DEF OptionsSoFar
<1>4. After(OptionItems, OptionEnc, p, types \cup {t}, items \cup {Item(t, v)}, Cat(B, Opt(t, v)))
  BY <1>1, <1>2, <1>3, AfterMore, Zenon
<1> QED
  BY <1>4, Zenon DEF OptionsSoFar

LEMMA OptionsOptional ==
  ASSUME NEW p \in String, NEW types, NEW items, NEW B, OptionsSoFar(p, types, items, B),
         NEW t, OptionPart(t), t \notin types, NEW v, NEW out \in BOOLEAN, ~out => OptionValue(v)
  PROVE  OptionsSoFar(p, types \cup {t}, items \cup (IF out THEN {} ELSE {Item(t, v)}),
                      Cat(B, IF out THEN <<>> ELSE Opt(t, v)))
<1>1. ~out => Item(t, v) \in OptionItems /\ OptionEnc[Item(t, v)] = Opt(t, v)
  BY OptionItemFits, Zenon
<1>2. OptionEnc \in [OptionItems -> String]
  BY OptionsRead, Zenon
<1>3. After(OptionItems, OptionEnc, p, types, items, B)
  BY Zenon DEF OptionsSoFar
<1>4. After(OptionItems, OptionEnc, p, types \cup {t},
            items \cup (IF out THEN {} ELSE {Item(t, v)}),
            Cat(B, IF out THEN <<>> ELSE Opt(t, v)))
  BY <1>1, <1>2, <1>3, AfterOptional, Zenon
<1> QED
  BY <1>4, Zenon DEF OptionsSoFar

AddrLists == {s \in Seq(Addrs) : Len(s) <= 63}

\* The routers that the option names: the server if there are none.
RoutersOf(d) == IF d.gateways = <<>> THEN <<d.server>> ELSE d.gateways

LEMMA DhcpFactIs ==
  ASSUME NEW d \in DhcpFacts
  PROVE  /\ d.type \in Octet /\ Sized(d.xid, 4) /\ Sized(d.client, 6) /\ Sized(d.offered, 4)
         /\ Sized(d.server, 4) /\ Sized(d.lease, 4)
         /\ d.mask # <<>> => Sized(d.mask, 4)
         /\ RoutersOf(d) \in AddrLists /\ d.dns \in AddrLists
         /\ OptionValue(d.domain)
         /\ [d EXCEPT !.gateways = IF @ = <<>> THEN <<d.server>> ELSE @] =
              [protocol |-> "dhcp", type |-> d.type, xid |-> d.xid, client |-> d.client,
               offered |-> d.offered, server |-> d.server, mask |-> d.mask,
               gateways |-> RoutersOf(d), dns |-> d.dns, lease |-> d.lease,
               domain |-> d.domain]
<1>1. d \in DhcpFact
  BY FactsAssumption, Zenon
<1>2. PICK O4, O6, Op, L, D :
        /\ O4 = Octets(4) /\ O6 = Octets(6) /\ Op = Optional(Octets(4)) /\ L = Lists(63)
        /\ D = {b \in Seq(Octet) : Len(b) <= 255}
  OBVIOUS
<1>3. d \in [protocol : {"dhcp"}, type : Octet, xid : O4, client : O6, offered : O4,
             server : O4, mask : Op, gateways : L, dns : L, lease : O4, domain : D]
  BY <1>1, <1>2, Zenon DEF DhcpFact
<1>4. PICK Oc : Oc = Octet
  OBVIOUS
<1>5. d \in [protocol : {"dhcp"}, type : Oc, xid : O4, client : O6, offered : O4,
             server : O4, mask : Op, gateways : L, dns : L, lease : O4, domain : D]
  BY <1>3, <1>4, Zenon
<1>6. /\ d.protocol = "dhcp" /\ d.type \in Oc /\ d.xid \in O4 /\ d.client \in O6
      /\ d.offered \in O4 /\ d.server \in O4 /\ d.mask \in Op /\ d.gateways \in L
      /\ d.dns \in L /\ d.lease \in O4 /\ d.domain \in D
  BY <1>5, SMT
<1>7. ASSUME NEW x PROVE
        [d EXCEPT !.gateways = x] =
              [protocol |-> "dhcp", type |-> d.type, xid |-> d.xid, client |-> d.client,
               offered |-> d.offered, server |-> d.server, mask |-> d.mask,
               gateways |-> x, dns |-> d.dns, lease |-> d.lease,
               domain |-> d.domain]
  BY <1>5, SMT
<1>8. 4 \in Nat /\ 6 \in Nat
  BY SMT
<1>9. \A b \in O4 : Sized(b, 4)
  BY <1>2, <1>8, OctetsIs, Zenon DEF Sized
<1>10. Sized(d.client, 6)
  BY <1>2, <1>6, <1>8, OctetsIs, Zenon DEF Sized
<1>11. d.mask # <<>> => Sized(d.mask, 4)
  BY <1>2, <1>6, <1>8, OptionalIs, Zenon DEF Sized
<1>12. L = AddrLists
  BY <1>2, Zenon DEF Lists, AddrLists, Addrs
<1>13. RoutersOf(d) \in AddrLists
  <2>1. CASE d.gateways = <<>>
    <3>1. d.server \in Addrs
      BY <1>2, <1>6, Zenon DEF Addrs
    <3>2. <<d.server>> \in Seq(Addrs) /\ Len(<<d.server>>) = 1
      <4> DEFINE A == Addrs
      <4>1. d.server \in A
        BY <3>1
      <4> HIDE DEF A
      <4>2. <<d.server>> \in Seq(A) /\ Len(<<d.server>>) = 1
        BY <4>1
      <4> QED
        BY <4>2 DEF A
    <3>3. 1 <= 63
      BY SMT
    <3>4. <<d.server>> \in AddrLists
      BY <3>2, <3>3, Zenon DEF AddrLists
    <3> QED
      BY <2>1, <3>4, Zenon DEF RoutersOf
  <2>2. CASE d.gateways # <<>>
    BY <1>6, <1>12, <2>2, Zenon DEF RoutersOf
  <2> QED
    BY <2>1, <2>2, Zenon
<1>14. OptionValue(d.domain)
  BY <1>2, <1>6, Zenon DEF OptionValue, String
<1>15. [d EXCEPT !.gateways = IF @ = <<>> THEN <<d.server>> ELSE @] =
              [protocol |-> "dhcp", type |-> d.type, xid |-> d.xid, client |-> d.client,
               offered |-> d.offered, server |-> d.server, mask |-> d.mask,
               gateways |-> RoutersOf(d), dns |-> d.dns, lease |-> d.lease,
               domain |-> d.domain]
  BY <1>7, Zenon DEF RoutersOf
<1> QED
  BY <1>4, <1>6, <1>9, <1>10, <1>11, <1>12, <1>13, <1>14, <1>15, Zenon

LEMMA ListFits ==
  ASSUME NEW s \in AddrLists
  PROVE  OptionValue(Joined[s]) /\ Ip4s(Joined[s]) = s
<1>1. s \in Seq(Addrs) /\ Len(s) <= 63 /\ Len(s) \in Nat
  BY SMT DEF AddrLists
<1>2. Sized(Joined[s], 4 * Len(s)) /\ Ip4s(Joined[s]) = s
  BY <1>1, ListRead, Zenon
<1>3. Joined[s] \in String /\ Len(Joined[s]) = 4 * Len(s)
  BY <1>2, Zenon DEF Sized
<1>4. Len(Joined[s]) <= 255
  BY <1>1, <1>3, SMT
<1> QED
  BY <1>2, <1>3, <1>4, Zenon DEF OptionValue

\* The codes of the options, as numbers that need not be counted up to.
MessageType == 53
ServerId == 54
LeaseTime == 51

LEMMA DhcpValues ==
  ASSUME NEW d \in DhcpFacts
  PROVE  /\ OptionValue(One(d.type)) /\ OptionValue(d.server) /\ OptionValue(d.lease)
         /\ d.mask # <<>> => OptionValue(d.mask)
         /\ OptionValue(Joined[RoutersOf(d)]) /\ OptionValue(Joined[d.dns])
         /\ OptionValue(d.domain)
<1>1. \A v : Sized(v, 4) => OptionValue(v)
  BY SMT DEF OptionValue, Sized
<1>2. OptionValue(One(d.type))
  <2>1. One(d.type) \in String /\ Len(One(d.type)) = 1
    BY DhcpFactIs, OneProps, Zenon
  <2>2. 1 <= 255
    BY SMT
  <2> QED
    BY <2>1, <2>2, Zenon DEF OptionValue
<1>3. /\ Sized(d.server, 4) /\ Sized(d.lease, 4)
      /\ d.mask # <<>> => Sized(d.mask, 4)
      /\ RoutersOf(d) \in AddrLists /\ d.dns \in AddrLists /\ OptionValue(d.domain)
  BY DhcpFactIs, Zenon
<1> QED
  BY <1>1, <1>2, <1>3, ListFits, Zenon

DhcpItemsOf(d) ==
  {Item(MessageType, One(d.type)), Item(ServerId, d.server)}
  \cup (IF d.mask = <<>> THEN {} ELSE {Item(1, d.mask)})
  \cup {Item(3, Joined[RoutersOf(d)])}
  \cup (IF d.dns = <<>> THEN {} ELSE {Item(6, Joined[d.dns])})
  \cup (IF d.domain = <<>> THEN {} ELSE {Item(15, d.domain)})
  \cup {Item(LeaseTime, d.lease)}

DhcpText(p, d) ==
  Cat(Cat(Cat(Cat(Cat(Cat(Cat(p,
      Opt(MessageType, One(d.type))),
      Opt(ServerId, d.server)),
      IF d.mask = <<>> THEN <<>> ELSE Opt(1, d.mask)),
      Opt(3, Joined[RoutersOf(d)])),
      IF d.dns = <<>> THEN <<>> ELSE Opt(6, Joined[d.dns])),
      IF d.domain = <<>> THEN <<>> ELSE Opt(15, d.domain)),
      Opt(LeaseTime, d.lease))

DhcpTypes == {MessageType, ServerId, 1, 3, 6, 15, LeaseTime}

LEMMA DhcpWritten ==
  ASSUME NEW p \in String, NEW d \in DhcpFacts
  PROVE  OptionsSoFar(p, DhcpTypes, DhcpItemsOf(d), DhcpText(p, d))
<1>1. \A t \in DhcpTypes : OptionPart(t)
  BY SMT DEF OptionPart, DhcpTypes, MessageType, ServerId, LeaseTime
<1>2. PICK B0 : B0 = p /\ OptionsSoFar(p, {}, {}, B0)
  <2>1. After(OptionItems, OptionEnc, p, {}, {}, p)
    BY OptionsRead, AfterNone, Zenon
  <2> QED
    BY <2>1, Zenon DEF OptionsSoFar
<1>3. PICK I1, B1 : /\ I1 = {} \cup {Item(MessageType, One(d.type))}
                    /\ B1 = Cat(B0, Opt(MessageType, One(d.type)))
                    /\ OptionsSoFar(p, {MessageType}, I1, B1)
  <2>1. MessageType \notin {} /\ MessageType \in DhcpTypes
    BY SMT DEF DhcpTypes, MessageType, ServerId, LeaseTime
  <2>2. OptionValue(One(d.type))
    BY DhcpValues, Zenon
  <2>3. OptionsSoFar(p, {} \cup {MessageType}, {} \cup {Item(MessageType, One(d.type))},
                 Cat(B0, Opt(MessageType, One(d.type))))
    BY <1>1, <1>2, <2>1, <2>2, OptionsMore, Zenon
  <2>4. {} \cup {MessageType} = {MessageType}
    BY SMT
  <2> QED
    BY <2>3, <2>4, Zenon
<1>4. PICK I2, B2 : /\ I2 = I1 \cup {Item(ServerId, d.server)}
                    /\ B2 = Cat(B1, Opt(ServerId, d.server))
                    /\ OptionsSoFar(p, {MessageType, ServerId}, I2, B2)
  <2>1. ServerId \notin {MessageType} /\ ServerId \in DhcpTypes
    BY SMT DEF DhcpTypes, MessageType, ServerId, LeaseTime
  <2>2. OptionValue(d.server)
    BY DhcpValues, Zenon
  <2>3. OptionsSoFar(p, {MessageType} \cup {ServerId}, I1 \cup {Item(ServerId, d.server)},
                 Cat(B1, Opt(ServerId, d.server)))
    BY <1>1, <1>3, <2>1, <2>2, OptionsMore, Zenon
  <2>4. {MessageType} \cup {ServerId} = {MessageType, ServerId}
    BY SMT
  <2> QED
    BY <2>3, <2>4, Zenon
<1>5. PICK I3, B3 : /\ I3 = I2 \cup (IF d.mask = <<>> THEN {} ELSE {Item(1, d.mask)})
                    /\ B3 = Cat(B2, IF d.mask = <<>> THEN <<>> ELSE Opt(1, d.mask))
                    /\ OptionsSoFar(p, {MessageType, ServerId, 1}, I3, B3)
  <2>1. 1 \notin {MessageType, ServerId} /\ 1 \in DhcpTypes
    BY SMT DEF DhcpTypes, MessageType, ServerId, LeaseTime
  <2>2. (d.mask = <<>>) \in BOOLEAN /\ (~(d.mask = <<>>) => OptionValue(d.mask))
    BY DhcpValues, Zenon
  <2>3. OptionsSoFar(p, {MessageType, ServerId} \cup {1},
                     I2 \cup (IF d.mask = <<>> THEN {} ELSE {Item(1, d.mask)}),
                 Cat(B2, IF d.mask = <<>> THEN <<>> ELSE Opt(1, d.mask)))
    BY <1>1, <1>4, <2>1, <2>2, OptionsOptional, Zenon
  <2>4. {MessageType, ServerId} \cup {1} = {MessageType, ServerId, 1}
    BY SMT
  <2> QED
    BY <2>3, <2>4, Zenon
<1>6. PICK I4, B4 : /\ I4 = I3 \cup {Item(3, Joined[RoutersOf(d)])}
                    /\ B4 = Cat(B3, Opt(3, Joined[RoutersOf(d)]))
                    /\ OptionsSoFar(p, {MessageType, ServerId, 1, 3}, I4, B4)
  <2>1. 3 \notin {MessageType, ServerId, 1} /\ 3 \in DhcpTypes
    BY SMT DEF DhcpTypes, MessageType, ServerId, LeaseTime
  <2>2. OptionValue(Joined[RoutersOf(d)])
    BY DhcpValues, Zenon
  <2>3. OptionsSoFar(p, {MessageType, ServerId, 1} \cup {3},
                     I3 \cup {Item(3, Joined[RoutersOf(d)])},
                 Cat(B3, Opt(3, Joined[RoutersOf(d)])))
    BY <1>1, <1>5, <2>1, <2>2, OptionsMore, Zenon
  <2>4. {MessageType, ServerId, 1} \cup {3} = {MessageType, ServerId, 1, 3}
    BY SMT
  <2> QED
    BY <2>3, <2>4, Zenon
<1>7. PICK I5, B5 : /\ I5 = I4 \cup (IF d.dns = <<>> THEN {} ELSE {Item(6, Joined[d.dns])})
                    /\ B5 = Cat(B4, IF d.dns = <<>> THEN <<>> ELSE Opt(6, Joined[d.dns]))
                    /\ OptionsSoFar(p, {MessageType, ServerId, 1, 3, 6}, I5, B5)
  <2>1. 6 \notin {MessageType, ServerId, 1, 3} /\ 6 \in DhcpTypes
    BY SMT DEF DhcpTypes, MessageType, ServerId, LeaseTime
  <2>2. (d.dns = <<>>) \in BOOLEAN /\ (~(d.dns = <<>>) => OptionValue(Joined[d.dns]))
    BY DhcpValues, Zenon
  <2>3. OptionsSoFar(p, {MessageType, ServerId, 1, 3} \cup {6},
                     I4 \cup (IF d.dns = <<>> THEN {} ELSE {Item(6, Joined[d.dns])}),
                 Cat(B4, IF d.dns = <<>> THEN <<>> ELSE Opt(6, Joined[d.dns])))
    BY <1>1, <1>6, <2>1, <2>2, OptionsOptional, Zenon
  <2>4. {MessageType, ServerId, 1, 3} \cup {6} = {MessageType, ServerId, 1, 3, 6}
    BY SMT
  <2> QED
    BY <2>3, <2>4, Zenon
<1>8. PICK I6, B6 : /\ I6 = I5 \cup (IF d.domain = <<>> THEN {} ELSE {Item(15, d.domain)})
                    /\ B6 = Cat(B5, IF d.domain = <<>> THEN <<>> ELSE Opt(15, d.domain))
                    /\ OptionsSoFar(p, {MessageType, ServerId, 1, 3, 6, 15}, I6, B6)
  <2>1. 15 \notin {MessageType, ServerId, 1, 3, 6} /\ 15 \in DhcpTypes
    BY SMT DEF DhcpTypes, MessageType, ServerId, LeaseTime
  <2>2. (d.domain = <<>>) \in BOOLEAN /\ (~(d.domain = <<>>) => OptionValue(d.domain))
    BY DhcpValues, Zenon
  <2>3. OptionsSoFar(p, {MessageType, ServerId, 1, 3, 6} \cup {15},
                     I5 \cup (IF d.domain = <<>> THEN {} ELSE {Item(15, d.domain)}),
                 Cat(B5, IF d.domain = <<>> THEN <<>> ELSE Opt(15, d.domain)))
    BY <1>1, <1>7, <2>1, <2>2, OptionsOptional, Zenon
  <2>4. {MessageType, ServerId, 1, 3, 6} \cup {15} = {MessageType, ServerId, 1, 3, 6, 15}
    BY SMT
  <2> QED
    BY <2>3, <2>4, Zenon
<1>9. PICK I7, B7 : /\ I7 = I6 \cup {Item(LeaseTime, d.lease)}
                    /\ B7 = Cat(B6, Opt(LeaseTime, d.lease))
                    /\ OptionsSoFar(p, {MessageType, ServerId, 1, 3, 6, 15, LeaseTime}, I7, B7)
  <2>1. LeaseTime \notin {MessageType, ServerId, 1, 3, 6, 15} /\ LeaseTime \in DhcpTypes
    BY SMT DEF DhcpTypes, MessageType, ServerId, LeaseTime
  <2>2. OptionValue(d.lease)
    BY DhcpValues, Zenon
  <2>3. OptionsSoFar(p, {MessageType, ServerId, 1, 3, 6, 15} \cup {LeaseTime},
                     I6 \cup {Item(LeaseTime, d.lease)},
                 Cat(B6, Opt(LeaseTime, d.lease)))
    BY <1>1, <1>8, <2>1, <2>2, OptionsMore, Zenon
  <2>4. {MessageType, ServerId, 1, 3, 6, 15} \cup {LeaseTime} =
          {MessageType, ServerId, 1, 3, 6, 15, LeaseTime}
    BY SMT
  <2> QED
    BY <2>3, <2>4, Zenon
<1>10. I7 = DhcpItemsOf(d)
  BY <1>3, <1>4, <1>5, <1>6, <1>7, <1>8, <1>9, Zenon DEF DhcpItemsOf
<1>11. B7 = DhcpText(p, d)
  BY <1>2, <1>3, <1>4, <1>5, <1>6, <1>7, <1>8, <1>9, Zenon DEF DhcpText
<1> QED
  BY <1>9, <1>10, <1>11, Zenon DEF DhcpTypes

-----------------------------------------------------------------------------
(* The headers in front of the options.                                    *)

LEMMA ZerosIs ==
  ASSUME NEW n \in Nat
  PROVE  Sized(Zeros(n), n)
<1> DEFINE S == Octet
<1>1. 0 \in S
  BY OctetIs, SMT
<1> HIDE DEF S
<1>2. Zeros(n) \in Seq(S) /\ Len(Zeros(n)) = n
  BY <1>1 DEF Zeros
<1> QED
  BY <1>2, Zenon DEF S, String, Sized

LEMMA BroadcastIs == Broadcast \in String /\ Len(Broadcast) = 6
<1> DEFINE S == Octet
<1>1. 255 \in S
  BY OctetIs, SMT
<1> HIDE DEF S
<1>2. Broadcast \in Seq(S) /\ Len(Broadcast) = 6
  BY <1>1 DEF Broadcast
<1> QED
  BY <1>2, Zenon DEF S, String

\* Two octets, and four.
LEMMA Pair ==
  ASSUME NEW a \in Octet, NEW b \in Octet
  PROVE  Sized(<<a, b>>, 2)
<1> DEFINE S == Octet
<1>1. a \in S /\ b \in S
  OBVIOUS
<1> HIDE DEF S
<1>2. <<a, b>> \in Seq(S) /\ Len(<<a, b>>) = 2 /\ 2 \in Nat
  BY <1>1
<1> QED
  BY <1>2, Zenon DEF S, String, Sized

LEMMA Quad ==
  ASSUME NEW a \in Octet, NEW b \in Octet, NEW c \in Octet, NEW d \in Octet
  PROVE  Sized(<<a, b, c, d>>, 4)
<1>1. 4 \in Nat
  BY SMT
<1> QED
  BY <1>1, Four, Zenon DEF Sized

BootReply == <<2, 1, 6, 0>>
CookieAt == 236
HeaderEnd == 240

DhcpHeader(d) ==
  Cat(Cat(Cat(Cat(Cat(Cat(Cat(Cat(BootReply,
      d.xid),
      Zeros(8)),
      d.offered),
      d.server),
      Zeros(4)),
      d.client),
      Zeros(202)),
      Magic)

\* The header of a reply with these facts.
IsHeader(p, d) ==
  /\ Sized(p, HeaderEnd)
  /\ PartAt(p, d.xid, 4, 8) /\ PartAt(p, d.offered, 16, 20) /\ PartAt(p, d.server, 20, 24)
  /\ PartAt(p, d.client, 28, 34) /\ PartAt(p, Magic, CookieAt, HeaderEnd)

LEMMA DhcpHeaderIs ==
  ASSUME NEW d \in DhcpFacts
  PROVE  IsHeader(DhcpHeader(d), d)
<1>1. /\ Sized(d.xid, 4) /\ Sized(d.client, 6) /\ Sized(d.offered, 4) /\ Sized(d.server, 4)
  BY DhcpFactIs, Zenon
<1>2. PICK z, k, n : /\ z = Zeros(202) /\ k = CookieAt /\ n = HeaderEnd
                     /\ Sized(z, k - 34) /\ k = 34 + (k - 34) /\ n = k + 4
                     /\ Sized(Zeros(8), 8) /\ Sized(Zeros(4), 4)
  <2>1. /\ CookieAt = 34 + (CookieAt - 34) /\ HeaderEnd = CookieAt + 4
        /\ 202 \in Nat /\ 8 \in Nat /\ 4 \in Nat /\ 202 = CookieAt - 34
    BY SMT DEF CookieAt, HeaderEnd
  <2> QED
    BY <2>1, ZerosIs, SMT
<1>3. Sized(BootReply, 4) /\ Sized(Magic, 4)
  <2>1. /\ 0 \in Octet /\ 1 \in Octet /\ 2 \in Octet /\ 6 \in Octet
        /\ 99 \in Octet /\ 130 \in Octet /\ 83 \in Octet
    BY OctetIs, SMT
  <2>2. Sized(BootReply, 4)
    BY <2>1, Quad DEF BootReply
  <2>3. Sized(Magic, 4)
    BY <2>1, Quad DEF Magic
  <2> QED
    BY <2>2, <2>3
<1>4. 4 + 4 = 8 /\ 8 + 8 = 16 /\ 16 + 4 = 20 /\ 20 + 4 = 24 /\ 24 + 4 = 28 /\ 28 + 6 = 34
  BY SMT
<1>5. PICK h1 : h1 = Cat(BootReply, d.xid) /\ Sized(h1, 8) /\ PartAt(h1, d.xid, 4, 8)
  <2>1. EndsWith(Cat(BootReply, d.xid), d.xid, 4, 8)
    BY <1>1, <1>3, <1>4, Behind, Zenon
  <2> QED
    BY <2>1, Zenon DEF EndsWith
<1>6. PICK h2 : h2 = Cat(h1, Zeros(8)) /\ Sized(h2, 16)
  <2>1. EndsWith(Cat(h1, Zeros(8)), Zeros(8), 8, 16)
    BY <1>2, <1>4, <1>5, Behind, Zenon
  <2> QED
    BY <2>1, Zenon DEF EndsWith
<1>7. PICK h3 : h3 = Cat(h2, d.offered) /\ Sized(h3, 20) /\ PartAt(h3, d.offered, 16, 20)
  <2>1. EndsWith(Cat(h2, d.offered), d.offered, 16, 20)
    BY <1>1, <1>4, <1>6, Behind, Zenon
  <2> QED
    BY <2>1, Zenon DEF EndsWith
<1>8. PICK h4 : h4 = Cat(h3, d.server) /\ Sized(h4, 24) /\ PartAt(h4, d.server, 20, 24)
  <2>1. EndsWith(Cat(h3, d.server), d.server, 20, 24)
    BY <1>1, <1>4, <1>7, Behind, Zenon
  <2> QED
    BY <2>1, Zenon DEF EndsWith
<1>9. PICK h5 : h5 = Cat(h4, Zeros(4)) /\ Sized(h5, 28)
  <2>1. EndsWith(Cat(h4, Zeros(4)), Zeros(4), 24, 28)
    BY <1>2, <1>4, <1>8, Behind, Zenon
  <2> QED
    BY <2>1, Zenon DEF EndsWith
<1>10. PICK h6 : h6 = Cat(h5, d.client) /\ Sized(h6, 34) /\ PartAt(h6, d.client, 28, 34)
  <2>1. EndsWith(Cat(h5, d.client), d.client, 28, 34)
    BY <1>1, <1>4, <1>9, Behind, Zenon
  <2> QED
    BY <2>1, Zenon DEF EndsWith
<1>11. PICK h7 : h7 = Cat(h6, z) /\ Sized(h7, k)
  <2>1. EndsWith(Cat(h6, z), z, 34, k)
    BY <1>2, <1>10, Behind, Zenon
  <2> QED
    BY <2>1, Zenon DEF EndsWith
<1>12. PICK h8 : h8 = Cat(h7, Magic) /\ Sized(h8, n) /\ PartAt(h8, Magic, k, n)
  <2>1. EndsWith(Cat(h7, Magic), Magic, k, n)
    BY <1>2, <1>3, <1>11, Behind, Zenon
  <2> QED
    BY <2>1, Zenon DEF EndsWith
<1>13. h8 = DhcpHeader(d)
  BY <1>2, <1>5, <1>6, <1>7, <1>8, <1>9, <1>10, <1>11, <1>12, Zenon DEF DhcpHeader
<1>14. /\ Zeros(8) \in String /\ Zeros(4) \in String /\ z \in String /\ Magic \in String
       /\ d.offered \in String /\ d.server \in String /\ d.client \in String
  BY <1>1, <1>2, <1>3, Zenon DEF Sized
<1>15. PartAt(h8, d.xid, 4, 8)
  <2>1. PartAt(h4, d.xid, 4, 8)
    BY <1>5, <1>6, <1>7, <1>8, <1>14, PartMore, Zenon
  <2> QED
    BY <2>1, <1>9, <1>10, <1>11, <1>12, <1>14, PartMore, Zenon
<1>16. PartAt(h8, d.offered, 16, 20)
  BY <1>7, <1>8, <1>9, <1>10, <1>11, <1>12, <1>14, PartMore, Zenon
<1>17. PartAt(h8, d.server, 20, 24)
  BY <1>8, <1>9, <1>10, <1>11, <1>12, <1>14, PartMore, Zenon
<1>18. PartAt(h8, d.client, 28, 34)
  BY <1>10, <1>11, <1>12, <1>14, PartMore, Zenon
<1> QED
  BY <1>2, <1>12, <1>13, <1>15, <1>16, <1>17, <1>18, Zenon DEF IsHeader

\* The IP and UDP headers in front of n octets.
Ip4Udp == <<69, 0>>
Protocol == <<64, 17, 0, 0>>

UdpHead(src, sport, dst, dport, n) ==
  Cat(Cat(Cat(Cat(Cat(Cat(Cat(Cat(Cat(Ip4Udp,
      InOctets(28 + n, 2)),
      Zeros(4)),
      Protocol),
      src),
      dst),
      InOctets(sport, 2)),
      InOctets(dport, 2)),
      InOctets(8 + n, 2)),
      <<0, 0>>)

LEMMA UdpBuilt ==
  ASSUME NEW mac, NEW src, NEW sport, NEW dst, NEW dport, NEW b
  PROVE  BuildUdp(mac, src, sport, dst, dport, b) =
           Cat(EthHead(Broadcast, mac, 2048), Cat(UdpHead(src, sport, dst, dport, Len(b)), b))
BY DEF BuildUdp, Eth, EthHead, Cat, UdpHead, Ip4Udp, Protocol

IsUdpHead(u, src, sport, dport) ==
  /\ Sized(u, 28) /\ PartAt(u, Ip4Udp, 0, 2) /\ PartAt(u, Protocol, 8, 12)
  /\ PartAt(u, src, 12, 16) /\ PartAt(u, InOctets(sport, 2), 20, 22)
  /\ PartAt(u, InOctets(dport, 2), 22, 24)

LEMMA UdpHeadIs ==
  ASSUME NEW src, Sized(src, 4), NEW dst, Sized(dst, 4), NEW sport \in Int, NEW dport \in Int,
         NEW n \in Nat
  PROVE  IsUdpHead(UdpHead(src, sport, dst, dport, n), src, sport, dport)
<1>1. PICK l, m, s, t : /\ l = InOctets(28 + n, 2) /\ m = InOctets(8 + n, 2)
                        /\ s = InOctets(sport, 2) /\ t = InOctets(dport, 2)
                        /\ Sized(l, 2) /\ Sized(m, 2) /\ Sized(s, 2) /\ Sized(t, 2)
  <2>1. 28 + n \in Int /\ 8 + n \in Int /\ 2 \in 1 .. 4 /\ 2 \in Nat
    BY SMT
  <2>2. \A x \in Int : Sized(InOctets(x, 2), 2)
    BY <2>1, InOctetsString, Zenon DEF Sized
  <2> QED
    BY <2>1, <2>2, Zenon
<1>2. PICK z, e : z = Zeros(4) /\ Sized(z, 4) /\ e = <<0, 0>> /\ Sized(e, 2)
  <2>1. 0 \in Octet /\ 4 \in Nat
    BY OctetIs, SMT
  <2> QED
    BY <2>1, ZerosIs, Pair, Zenon
<1>3. Sized(Ip4Udp, 2) /\ Sized(Protocol, 4) /\ PartAt(Ip4Udp, Ip4Udp, 0, 2)
  <2>1. 0 \in Octet /\ 69 \in Octet /\ 64 \in Octet /\ 17 \in Octet
    BY OctetIs, SMT
  <2>2. Sized(Ip4Udp, 2)
    BY <2>1, Pair DEF Ip4Udp
  <2>3. Sized(Protocol, 4)
    BY <2>1, Quad DEF Protocol
  <2>4. 0 \in Nat /\ 2 \in Nat /\ 0 <= 2 /\ 2 <= 2
    BY SMT
  <2>5. Slice(Ip4Udp, 0, 2) = Ip4Udp
    BY <2>2, SliceAll, Zenon DEF Sized
  <2> QED
    BY <2>2, <2>3, <2>4, <2>5, Zenon DEF Sized, PartAt
<1>4. /\ 2 + 2 = 4 /\ 4 + 4 = 8 /\ 8 + 4 = 12 /\ 12 + 4 = 16 /\ 16 + 4 = 20 /\ 20 + 2 = 22
      /\ 22 + 2 = 24 /\ 24 + 2 = 26 /\ 26 + 2 = 28
  BY SMT
<1>5. PICK u1 : u1 = Cat(Ip4Udp, l) /\ Sized(u1, 4)
  <2>1. EndsWith(Cat(Ip4Udp, l), l, 2, 4)
    BY <1>1, <1>3, <1>4, Behind, Zenon
  <2> QED
    BY <2>1, Zenon DEF EndsWith
<1>6. PICK u2 : u2 = Cat(u1, z) /\ Sized(u2, 8)
  <2>1. EndsWith(Cat(u1, z), z, 4, 8)
    BY <1>2, <1>4, <1>5, Behind, Zenon
  <2> QED
    BY <2>1, Zenon DEF EndsWith
<1>7. PICK u3 : u3 = Cat(u2, Protocol) /\ Sized(u3, 12) /\ PartAt(u3, Protocol, 8, 12)
  <2>1. EndsWith(Cat(u2, Protocol), Protocol, 8, 12)
    BY <1>3, <1>4, <1>6, Behind, Zenon
  <2> QED
    BY <2>1, Zenon DEF EndsWith
<1>8. PICK u4 : u4 = Cat(u3, src) /\ Sized(u4, 16) /\ PartAt(u4, src, 12, 16)
  <2>1. EndsWith(Cat(u3, src), src, 12, 16)
    BY <1>4, <1>7, Behind, Zenon
  <2> QED
    BY <2>1, Zenon DEF EndsWith
<1>9. PICK u5 : u5 = Cat(u4, dst) /\ Sized(u5, 20)
  <2>1. EndsWith(Cat(u4, dst), dst, 16, 20)
    BY <1>4, <1>8, Behind, Zenon
  <2> QED
    BY <2>1, Zenon DEF EndsWith
<1>10. PICK u6 : u6 = Cat(u5, s) /\ Sized(u6, 22) /\ PartAt(u6, s, 20, 22)
  <2>1. EndsWith(Cat(u5, s), s, 20, 22)
    BY <1>1, <1>4, <1>9, Behind, Zenon
  <2> QED
    BY <2>1, Zenon DEF EndsWith
<1>11. PICK u7 : u7 = Cat(u6, t) /\ Sized(u7, 24) /\ PartAt(u7, t, 22, 24)
  <2>1. EndsWith(Cat(u6, t), t, 22, 24)
    BY <1>1, <1>4, <1>10, Behind, Zenon
  <2> QED
    BY <2>1, Zenon DEF EndsWith
<1>12. PICK u8 : u8 = Cat(u7, m) /\ Sized(u8, 26)
  <2>1. EndsWith(Cat(u7, m), m, 24, 26)
    BY <1>1, <1>4, <1>11, Behind, Zenon
  <2> QED
    BY <2>1, Zenon DEF EndsWith
<1>13. PICK u9 : u9 = Cat(u8, e) /\ Sized(u9, 28)
  <2>1. EndsWith(Cat(u8, e), e, 26, 28)
    BY <1>2, <1>4, <1>12, Behind, Zenon
  <2> QED
    BY <2>1, Zenon DEF EndsWith
<1>14. u9 = UdpHead(src, sport, dst, dport, n)
  BY <1>1, <1>2, <1>5, <1>6, <1>7, <1>8, <1>9, <1>10, <1>11, <1>12, <1>13, Zenon DEF UdpHead
<1>15. /\ l \in String /\ m \in String /\ s \in String /\ t \in String /\ z \in String
       /\ e \in String /\ Protocol \in String /\ src \in String /\ dst \in String
  BY <1>1, <1>2, <1>3, Zenon DEF Sized
<1>16. PartAt(u9, Ip4Udp, 0, 2)
  <2>1. PartAt(u4, Ip4Udp, 0, 2)
    BY <1>3, <1>5, <1>6, <1>7, <1>8, <1>15, PartMore, Zenon
  <2> QED
    BY <2>1, <1>9, <1>10, <1>11, <1>12, <1>13, <1>15, PartMore, Zenon
<1>17. PartAt(u9, Protocol, 8, 12)
  BY <1>7, <1>8, <1>9, <1>10, <1>11, <1>12, <1>13, <1>15, PartMore, Zenon
<1>18. PartAt(u9, src, 12, 16)
  BY <1>8, <1>9, <1>10, <1>11, <1>12, <1>13, <1>15, PartMore, Zenon
<1>19. PartAt(u9, s, 20, 22)
  BY <1>10, <1>11, <1>12, <1>13, <1>15, PartMore, Zenon
<1>20. PartAt(u9, t, 22, 24)
  BY <1>11, <1>12, <1>13, <1>15, PartMore, Zenon
<1> QED
  BY <1>1, <1>13, <1>14, <1>16, <1>17, <1>18, <1>19, <1>20, Zenon DEF IsUdpHead

UdpAt(f) == 14 + 4 * (f[15] % 16)
Ports(f, u) == {Number[Slice(f, u, u + 2)], Number[Slice(f, u + 2, u + 4)]}

\* An Ethernet frame with these headers in front of x.
UdpFrame(f, src, x) ==
  /\ IsDhcp(f) /\ Len(f) >= 42 /\ Rest(f, 42) = x
  /\ PartAt(f, Ip4Udp, 14, 16) /\ PartAt(f, Protocol, 22, 26) /\ PartAt(f, src, 26, 30)
  /\ PartAt(f, InOctets(67, 2), 34, 36)

LEMMA UdpHeard ==
  ASSUME NEW f, NEW src, NEW x, UdpFrame(f, src, x)
  PROVE  Hear(f) = ParseDhcp(x, src)
<1>1. f[15] = 69
  <2>1. 1 \in 1 .. Len(Ip4Udp) /\ Ip4Udp[1] = 69
    BY DEF Ip4Udp
  <2>2. f[14 + 1] = Ip4Udp[1]
    <3>1. PartAt(f, Ip4Udp, 14, 16)
      BY Zenon DEF UdpFrame
    <3> QED
      BY <2>1, <3>1, PartOctet, SMT
  <2>3. 14 + 1 = 15
    BY SMT
  <2> QED
    BY <2>1, <2>2, <2>3, SMT
<1>2. f[24] = 17
  <2>1. 2 \in 1 .. Len(Protocol) /\ Protocol[2] = 17
    BY DEF Protocol
  <2>2. f[22 + 2] = Protocol[2]
    <3>1. PartAt(f, Protocol, 22, 26)
      BY Zenon DEF UdpFrame
    <3> QED
      BY <2>1, <3>1, PartOctet, SMT
  <2>3. 22 + 2 = 24
    BY SMT
  <2> QED
    BY <2>1, <2>2, <2>3, SMT
<1>3. UdpAt(f) = 34
  BY <1>1, SMT DEF UdpAt
<1>4. Ports(f, 34) \cap {67, 68} # {}
  <2>1. Wide(67) /\ 34 + 2 = 36
    BY SMT DEF Wide
  <2>2. Slice(f, 34, 36) = InOctets(67, 2)
    BY Zenon DEF UdpFrame, PartAt
  <2>3. Number[InOctets(67, 2)] = 67
    BY <2>1, Wide2, Zenon
  <2>4. Number[Slice(f, 34, 34 + 2)] = 67
    BY <2>1, <2>2, <2>3, Zenon
  <2>5. 67 \in Ports(f, 34)
    BY <2>4, Zenon DEF Ports
  <2> QED
    BY <2>5, Zenon
<1>5. /\ IsDhcp(f) /\ Len(f) >= 42 /\ Rest(f, 42) = x /\ Slice(f, 26, 30) = src
  BY Zenon DEF UdpFrame, PartAt
<1>6. EtherType(f) = 2048
  BY <1>5, SMT DEF IsDhcp, IsOf
<1>7. HearDhcp(f) =
        IF /\ Len(f) >= 42 /\ EtherType(f) = 2048
           /\ f[24] = 17
           /\ Ports(f, UdpAt(f)) \cap {67, 68} # {}
        THEN ParseDhcp(Rest(f, UdpAt(f) + 8), Slice(f, 26, 30))
        ELSE Nothing
  BY DEF HearDhcp, Ports, UdpAt
<1>8. Ports(f, UdpAt(f)) \cap {67, 68} # {} /\ UdpAt(f) + 8 = 42
  <2>1. Ports(f, UdpAt(f)) = Ports(f, 34)
    BY <1>3, Zenon
  <2>2. UdpAt(f) + 8 = 42
    BY <1>3, SMT
  <2> QED
    BY <1>4, <2>1, <2>2, Zenon
<1>9. HearDhcp(f) = ParseDhcp(Rest(f, 42), Slice(f, 26, 30))
  <2>1. HearDhcp(f) = ParseDhcp(Rest(f, UdpAt(f) + 8), Slice(f, 26, 30))
    <3>1. PICK t : t = EtherType(f) /\ t = 2048
      BY <1>6
    <3> QED
      BY <1>2, <1>5, <1>6, <1>7, <1>8, SMT
  <2> QED
    BY <1>8, <2>1, Zenon
<1>10. Hear(f) = HearDhcp(f)
  BY <1>5, HearsDhcp, Zenon
<1> QED
  BY <1>5, <1>9, <1>10, Zenon

\* All the headers in front of a reply; a frame that ends within them is nothing.
Ahead == 42
DhcpHeads(w, src) ==
  /\ Sized(w, Ahead)
  /\ \A x \in String : Hear(Cat(w, x)) = ParseDhcp(x, src)
  /\ \A x \in String, n \in Nat :
       n <= Len(Cat(w, x)) /\ n < Ahead => Hear(Slice(Cat(w, x), 0, n)) = Nothing

DhcpEthHead(d) == EthHead(Broadcast, d.client, 2048)
Everyone == <<255, 255, 255, 255>>
DhcpUdpHead(d, n) == UdpHead(d.server, 67, Everyone, 68, n)

LEMMA EveryoneIs == Sized(Everyone, 4)
<1>1. 255 \in Octet
  BY OctetIs, SMT
<1> QED
  BY <1>1, Quad DEF Everyone

LEMMA DhcpHeadsIs ==
  ASSUME NEW d \in DhcpFacts, NEW n \in Nat, NEW w, w = Cat(DhcpEthHead(d), DhcpUdpHead(d, n))
  PROVE  DhcpHeads(w, d.server)
<1>1. Sized(d.client, 6) /\ Sized(d.server, 4)
  BY DhcpFactIs, Zenon
<1>2. PICK h : h = DhcpEthHead(d)
  OBVIOUS
<1>3. h \in String /\ Len(h) = 14 /\ \A x \in String : IsDhcp(Cat(h, x))
  <2>1. PICK type, hi : type = 2048 /\ hi = 8 /\ Wide(type) /\ hi = High(type)
    <3>1. Wide(2048) /\ 8 = High(2048)
      BY SMT DEF Wide, High
    <3> QED
      BY <3>1
  <2>2. h = EthHead(Broadcast, d.client, type)
    BY <1>2, <2>1, SMT DEF DhcpEthHead
  <2>3. Wide(type) /\ hi = High(type)
    BY <2>1
  <2>4. d.client \in String /\ Len(d.client) = 6
    BY <1>1, Zenon DEF Sized
  <2>5. h \in String /\ Len(h) = 14 /\ \A x \in String : IsOf(Cat(h, x), type, hi)
    <3>1. ASSUME NEW x \in String
          PROVE  EthFrame(EthHead(Broadcast, d.client, type), x, type, hi)
      BY <2>3, <2>4, BroadcastIs, EthIs, Zenon
    <3> QED
      BY <2>2, <3>1, CatEmpty, Zenon DEF EthFrame
  <2>6. \A f : IsOf(f, type, hi) => IsDhcp(f)
    BY <2>1, SMT DEF IsDhcp
  <2> QED
    BY <2>5, <2>6, Zenon
<1>4. PICK u, sport : /\ u = DhcpUdpHead(d, n) /\ sport = 67
                      /\ IsUdpHead(u, d.server, sport, 68)
  <2>1. 67 \in Int /\ 68 \in Int
    BY SMT
  <2>2. Sized(Everyone, 4)
    BY EveryoneIs, Zenon
  <2>3. IsUdpHead(UdpHead(d.server, 67, Everyone, 68, n), d.server, 67, 68)
    BY <1>1, <2>1, <2>2, UdpHeadIs, Zenon
  <2> QED
    BY <2>3, Zenon DEF DhcpUdpHead
<1>5. /\ Sized(u, 28) /\ PartAt(u, Ip4Udp, 0, 2) /\ PartAt(u, Protocol, 8, 12)
      /\ PartAt(u, d.server, 12, 16) /\ PartAt(u, InOctets(sport, 2), 20, 22)
  BY <1>4, Zenon DEF IsUdpHead
<1>6. /\ 14 + 0 = 14 /\ 14 + 2 = 16 /\ 14 + 8 = 22 /\ 14 + 12 = 26 /\ 14 + 16 = 30
      /\ 14 + 20 = 34 /\ 14 + 22 = 36 /\ 14 + 28 = 42 /\ 14 \in Nat
  BY SMT
<1>7. Sized(h, 14)
  BY <1>3, <1>6, Zenon DEF Sized
<1>8. w = Cat(h, u) /\ u \in String
  BY <1>2, <1>4, <1>5, Zenon DEF Sized
<1>9. Sized(w, 42)
  <2>1. EndsWith(Cat(h, u), u, 14, 42)
    BY <1>5, <1>6, <1>7, Behind, Zenon
  <2> QED
    BY <1>8, <2>1, Zenon DEF EndsWith
<1>10. PartAt(w, Ip4Udp, 14, 16)
  <2>1. PartAt(Cat(h, u), Ip4Udp, 14 + 0, 14 + 2)
    BY <1>5, <1>7, PartShift, Zenon
  <2> QED
    BY <1>6, <1>8, <2>1, Zenon
<1>11. PartAt(w, Protocol, 22, 26)
  <2>1. PartAt(Cat(h, u), Protocol, 14 + 8, 14 + 12)
    BY <1>5, <1>7, PartShift, Zenon
  <2> QED
    BY <1>6, <1>8, <2>1, Zenon
<1>12. PartAt(w, d.server, 26, 30)
  <2>1. PartAt(Cat(h, u), d.server, 14 + 12, 14 + 16)
    BY <1>5, <1>7, PartShift, Zenon
  <2> QED
    BY <1>6, <1>8, <2>1, Zenon
<1>13. PartAt(w, InOctets(sport, 2), 34, 36)
  <2>1. PartAt(Cat(h, u), InOctets(sport, 2), 14 + 20, 14 + 22)
    BY <1>5, <1>7, PartShift, Zenon
  <2> QED
    BY <1>6, <1>8, <2>1, Zenon
<1>14. PICK len : len = 42 /\ Sized(w, len)
  BY <1>9, Zenon
<1>15. ASSUME NEW x \in String PROVE Hear(Cat(w, x)) = ParseDhcp(x, d.server)
  <2>1. w \in String /\ Len(w) = len
    BY <1>14, Zenon DEF Sized
  <2>2. Len(Cat(w, x)) >= 42
    <3>1. Len(Cat(w, x)) = Len(w) + Len(x) /\ Len(x) \in Nat
      BY <2>1, CatProps, Zenon
    <3> QED
      BY <1>14, <2>1, <3>1, SMT
  <2>3. Rest(Cat(w, x), 42) = x
    <3>1. Rest(Cat(w, x), Len(w)) = x
      BY <2>1, RestOfCat, Zenon
    <3> QED
      BY <1>14, <2>1, <3>1, Zenon
  <2>4. IsDhcp(Cat(w, x))
    <3>1. Cat(Cat(h, u), x) = Cat(h, Cat(u, x)) /\ Cat(u, x) \in String
      BY <1>3, <1>8, CatAssoc, CatProps, Zenon
    <3> QED
      BY <1>3, <1>8, <3>1, Zenon
  <2>5. /\ PartAt(Cat(w, x), Ip4Udp, 14, 16) /\ PartAt(Cat(w, x), Protocol, 22, 26)
        /\ PartAt(Cat(w, x), d.server, 26, 30)
    BY <1>10, <1>11, <1>12, PartMore, Zenon
  <2>6. PartAt(Cat(w, x), InOctets(sport, 2), 34, 36)
    BY <1>13, PartMore, Zenon
  <2>7. PartAt(Cat(w, x), InOctets(67, 2), 34, 36)
    BY <1>4, <2>6, Zenon
  <2>8. UdpFrame(Cat(w, x), d.server, x)
    BY <2>2, <2>3, <2>4, <2>5, <2>7, Zenon DEF UdpFrame
  <2> QED
    BY <2>8, UdpHeard, Zenon
<1>16. ASSUME NEW x \in String, NEW k \in Nat, k <= Len(Cat(w, x)), k < Ahead
       PROVE  Hear(Slice(Cat(w, x), 0, k)) = Nothing
  <2>1. PICK y \in String : y = Cat(u, x) /\ Cat(w, x) = Cat(h, y) /\ k <= Len(Cat(h, y))
    <3>1. Cat(u, x) \in String
      BY <1>8, CatProps, Zenon
    <3>2. Cat(Cat(h, u), x) = Cat(h, Cat(u, x))
      BY <1>3, <1>8, CatAssoc, Zenon
    <3> QED
      BY <1>8, <1>16, <3>1, <3>2, Zenon
  <2>2. PICK g : g = 14 /\ Len(h) = g
    BY <1>3, Zenon
  <2>3. PICK c \in String : c = Slice(Cat(h, y), 0, k) /\ Len(c) = k
    <3>1. Slice(Cat(h, y), 0, k) \in String /\ Len(Slice(Cat(h, y), 0, k)) = k
      BY <1>3, <2>1, FramedCut, Zenon
    <3> QED
      BY <3>1, Zenon
  <2>4. CASE k < g
    BY <2>1, <2>2, <2>3, <2>4, HearsNothing, Zenon
  <2>5. CASE ~(k < g)
    <3>1. PICK j \in Nat : j <= Len(y) /\ c = Cat(h, Slice(y, 0, j))
      <4>1. ~(k < Len(h))
        BY <2>2, <2>5, Zenon
      <4>2. PICK j \in Nat : j <= Len(y) /\ Slice(Cat(h, y), 0, k) = Cat(h, Slice(y, 0, j))
        BY <1>3, <2>1, <4>1, CutBehind, Zenon
      <4> QED
        BY <2>3, <4>2, Zenon
    <3>2. Slice(y, 0, j) \in String
      BY SliceString, Zenon
    <3>3. IsDhcp(c)
      BY <1>3, <3>1, <3>2, Zenon
    <3>4. HearDhcp(c) = Nothing
      <4>1. Len(c) \in Nat /\ Len(c) < 42
        BY <1>16, <2>3, Zenon DEF Ahead
      <4> QED
        BY <4>1, NoDhcp, SMT
    <3> QED
      BY <2>1, <2>3, <3>3, <3>4, HearsDhcp, Zenon
  <2> QED
    BY <2>4, <2>5, Zenon
<1> QED
  BY <1>9, <1>15, <1>16, Zenon DEF DhcpHeads, Ahead

\* The fields of a DHCP reply; its fixed fields are those of d.
DhcpType(s) == Field(s, OfType(s, MessageType, 1), Head, NoType)
DhcpServer(s, next) == Field(s, OfType(s, ServerId, 0), Ip4, next)
DhcpMask(s) == Field(s, OfType(s, 1, 0), Ip4, <<>>)
DhcpGateways(s) == Field(s, OfType(s, 3, 0), Ip4s, <<>>)
DhcpDns(s) == Field(s, OfType(s, 6, 0), Ip4s, <<>>)
DhcpLease(s) == Field(s, OfType(s, LeaseTime, 4), LAMBDA v : Slice(v, 0, 4), <<>>)
DhcpDomain(s) == Field(s, OfType(s, 15, 0), LAMBDA v : v, <<>>)

DhcpNetwork(d, s) ==
  [protocol |-> "dhcp", type |-> DhcpType(s), xid |-> d.xid, client |-> d.client,
   offered |-> d.offered,
   server |-> IF DhcpServer(s, d.server) = <<>> THEN d.server ELSE DhcpServer(s, d.server),
   mask |-> DhcpMask(s), gateways |-> DhcpGateways(s), dns |-> DhcpDns(s),
   lease |-> DhcpLease(s), domain |-> DhcpDomain(s)]

DhcpHeard(d, s) == IF DhcpType(s) = NoType THEN Nothing ELSE DhcpNetwork(d, s)

LEMMA DhcpParsed ==
  ASSUME NEW b, NEW d, PartAt(b, d.xid, 4, 8), PartAt(b, d.offered, 16, 20),
         PartAt(b, d.server, 20, 24), PartAt(b, d.client, 28, 34)
  PROVE  ParseDhcp(b, d.server) =
           IF Slice(b, CookieAt, HeaderEnd) # Magic THEN Nothing
           ELSE DhcpHeard(d, Options[Rest(b, HeaderEnd)])
<1> DEFINE s == Options[Rest(b, HeaderEnd)]
           server(n) == Field(s, OfType(s, ServerId, 0), Ip4, n)
           network(x, c, o, n) ==
             [protocol |-> "dhcp", type |-> DhcpType(s), xid |-> x, client |-> c,
              offered |-> o,
              server |-> IF server(n) = <<>> THEN d.server ELSE server(n),
              mask |-> DhcpMask(s), gateways |-> DhcpGateways(s), dns |-> DhcpDns(s),
              lease |-> DhcpLease(s), domain |-> DhcpDomain(s)]
<1>1. ParseDhcp(b, d.server) =
        IF Slice(b, CookieAt, HeaderEnd) # Magic \/ DhcpType(s) = NoType THEN Nothing
        ELSE network(Slice(b, 4, 8), Slice(b, 28, 34), Slice(b, 16, 20), Slice(b, 20, 24))
  BY DEF ParseDhcp, CookieAt, HeaderEnd, DhcpType, DhcpMask, DhcpGateways, DhcpDns, DhcpLease,
         DhcpDomain, MessageType, ServerId, LeaseTime
<1>2. /\ Slice(b, 4, 8) = d.xid /\ Slice(b, 28, 34) = d.client
      /\ Slice(b, 16, 20) = d.offered /\ Slice(b, 20, 24) = d.server
  BY Zenon DEF PartAt
<1>3. network(d.xid, d.client, d.offered, d.server) = DhcpNetwork(d, s)
  BY Zenon DEF DhcpNetwork, DhcpServer
<1>4. ParseDhcp(b, d.server) =
        IF Slice(b, CookieAt, HeaderEnd) # Magic \/ DhcpType(s) = NoType THEN Nothing
        ELSE network(d.xid, d.client, d.offered, d.server)
  <2> HIDE DEF network
  <2> QED
    BY <1>1, <1>2, Zenon
<1> HIDE DEF network, s
<1>5. ParseDhcp(b, d.server) =
        IF Slice(b, CookieAt, HeaderEnd) # Magic THEN Nothing ELSE DhcpHeard(d, s)
  BY <1>3, <1>4, Zenon DEF DhcpHeard
<1> QED
  BY <1>5, Zenon DEF s

\* What is behind the header is read as the options; a header that is cut off is nothing.
LEMMA HeaderParsed ==
  ASSUME NEW d, NEW p, IsHeader(p, d), NEW x \in String
  PROVE  ParseDhcp(Cat(p, x), d.server) = DhcpHeard(d, Options[x])
<1>1. /\ PartAt(Cat(p, x), d.xid, 4, 8) /\ PartAt(Cat(p, x), d.offered, 16, 20)
      /\ PartAt(Cat(p, x), d.server, 20, 24) /\ PartAt(Cat(p, x), d.client, 28, 34)
      /\ PartAt(Cat(p, x), Magic, CookieAt, HeaderEnd)
  BY PartMore, Zenon DEF IsHeader
<1>2. p \in String /\ Len(p) = HeaderEnd
  BY Zenon DEF IsHeader, Sized
<1>3. Rest(Cat(p, x), HeaderEnd) = x
  BY <1>2, RestOfCat, Zenon
<1>4. Slice(Cat(p, x), CookieAt, HeaderEnd) = Magic
  BY <1>1, Zenon DEF PartAt
<1> QED
  BY <1>1, <1>3, <1>4, DhcpParsed, Zenon

LEMMA HeaderCut ==
  ASSUME NEW b \in String, Len(b) < HeaderEnd, NEW src
  PROVE  ParseDhcp(b, src) = Nothing
<1>1. CookieAt \in Nat /\ HeaderEnd \in Nat /\ CookieAt < HeaderEnd /\ HeaderEnd - CookieAt = 4
  BY SMT DEF CookieAt, HeaderEnd
<1>2. Len(Slice(b, CookieAt, HeaderEnd)) < HeaderEnd - CookieAt
  BY <1>1, PartCut, Zenon
<1>3. Len(Slice(b, CookieAt, HeaderEnd)) \in Nat
  BY <1>1, PartCut, Zenon
<1>4. Len(Magic) = 4
  BY DEF Magic
<1>5. Slice(b, CookieAt, HeaderEnd) # Magic
  <2>1. ~(Len(Magic) < HeaderEnd - CookieAt)
    BY <1>1, <1>4, SMT
  <2> QED
    BY <1>2, <2>1, Zenon
<1>6. Slice(b, 236, 240) # Magic
  BY <1>5, SMT DEF CookieAt, HeaderEnd
<1> QED
  BY <1>6 DEF ParseDhcp

-----------------------------------------------------------------------------
(* A whole reply.                                                          *)

DhcpRead(d, s, y) == ReadFrom(Options, OptionItems, s, DhcpItemsOf(d), y)
DhcpPayload(d) == Cat(DhcpText(DhcpHeader(d), d), One(255))

LEMMA DhcpBuilt ==
  ASSUME NEW d
  PROVE  BuildDhcp(d) =
           Cat(DhcpEthHead(d), Cat(DhcpUdpHead(d, Len(DhcpPayload(d))), DhcpPayload(d)))
<1> DEFINE b == DhcpPayload(d)
<1>1. BuildDhcp(d) = BuildUdp(d.client, d.server, 67, Everyone, 68, b)
  BY DEF BuildDhcp, Everyone, DhcpPayload, DhcpText, DhcpHeader, Cat, One, BootReply,
         RoutersOf, MessageType, ServerId, LeaseTime
<1> HIDE DEF b
<1>2. BuildUdp(d.client, d.server, 67, Everyone, 68, b) =
        Cat(EthHead(Broadcast, d.client, 2048),
            Cat(UdpHead(d.server, 67, Everyone, 68, Len(b)), b))
  BY UdpBuilt, SMT
<1>3. BuildDhcp(d) = Cat(DhcpEthHead(d), Cat(DhcpUdpHead(d, Len(b)), b))
  BY <1>1, <1>2, SMT DEF DhcpEthHead, DhcpUdpHead
<1> QED
  BY <1>3, Zenon DEF b

LEMMA DhcpFrame ==
  ASSUME NEW d \in DhcpFacts
  PROVE  \E w, p, s, y : /\ DhcpHeads(w, d.server) /\ IsHeader(p, d)
                         /\ BuildDhcp(d) = Cat(w, Cat(p, y)) /\ DhcpRead(d, s, y)
<1>1. PICK p : p = DhcpHeader(d) /\ IsHeader(p, d)
  BY DhcpHeaderIs, Zenon
<1>2. p \in String
  BY <1>1, Zenon DEF IsHeader, Sized
<1>3. PICK end \in String : end = One(255) /\ Ends(Options, end)
  BY OptionEnds, Zenon
<1>4. PICK T, enc, types, items, B :
        /\ T = OptionItems /\ enc = OptionEnc /\ types = DhcpTypes
        /\ items = DhcpItemsOf(d) /\ B = DhcpText(p, d)
  OBVIOUS
<1>5. After(T, enc, p, types, items, B)
  BY <1>2, <1>4, DhcpWritten, Zenon DEF OptionsSoFar
<1>6. enc \in [T -> String] /\ ReadsItems(Options, T, enc)
  BY <1>4, OptionsRead, Zenon
<1>7. PICK s, y : ReadFrom(Options, T, s, items, y) /\ Cat(B, end) = Cat(p, y)
  <2>1. ReadAfter(Options, T, types, items, p, Cat(B, end))
    <3>1. end \in String /\ Ends(Options, end)
      BY <1>3
    <3> QED
      BY <1>2, <1>5, <1>6, <3>1, AfterRead, Zenon
  <2> QED
    BY <2>1, Zenon DEF ReadAfter
<1>8. DhcpRead(d, s, y)
  BY <1>4, <1>7, Zenon DEF DhcpRead
<1>9. y \in String
  BY <1>7, Zenon DEF ReadFrom
<1>10. PICK b \in String : b = Cat(p, y) /\ b = DhcpPayload(d)
  <2>1. Cat(p, y) \in String
    BY <1>2, <1>9, CatProps, Zenon
  <2>2. Cat(p, y) = DhcpPayload(d)
    BY <1>1, <1>3, <1>4, <1>7, Zenon DEF DhcpPayload
  <2> QED
    BY <2>1, <2>2, Zenon
<1>11. PICK n \in Nat : n = Len(b)
  BY CatProps, Zenon
<1>12. PICK h, u : h = DhcpEthHead(d) /\ u = DhcpUdpHead(d, n)
  OBVIOUS
<1>13. DhcpHeads(Cat(h, u), d.server)
  BY <1>12, DhcpHeadsIs, Zenon
<1>14. h \in String /\ u \in String
  <2>1. u \in String
    <3>1. Sized(d.server, 4) /\ Sized(Everyone, 4) /\ 67 \in Int /\ 68 \in Int
      <4>1. 67 \in Int /\ 68 \in Int
        BY SMT
      <4> QED
        BY <4>1, DhcpFactIs, EveryoneIs, Zenon
    <3>2. IsUdpHead(UdpHead(d.server, 67, Everyone, 68, n), d.server, 67, 68)
      BY <3>1, UdpHeadIs, Zenon
    <3> QED
      BY <1>12, <3>2, Zenon DEF DhcpUdpHead, IsUdpHead, Sized
  <2>2. h \in String
    <3>1. d.client \in String
      BY DhcpFactIs, Zenon DEF Sized
    <3>2. PICK type : type = 2048 /\ type \in Int
      BY SMT
    <3>3. InOctets(type, 2) \in String
      <4>1. 2 \in 1 .. 4 /\ type \in Int
        BY <3>2, SMT
      <4> QED
        BY <4>1, InOctetsString, Zenon
    <3>4. h = EthHead(Broadcast, d.client, type)
      BY <1>12, <3>2, SMT DEF DhcpEthHead
    <3>5. Cat(Cat(Broadcast, d.client), InOctets(type, 2)) \in String
      <4>1. Cat(Broadcast, d.client) \in String
        BY <3>1, BroadcastIs, CatProps, Zenon
      <4> QED
        BY <3>3, <4>1, CatProps, Zenon
    <3> QED
      BY <3>4, <3>5, Zenon DEF EthHead
  <2> QED
    BY <2>1, <2>2, Zenon
<1>15. BuildDhcp(d) = Cat(Cat(h, u), b)
  <2>1. BuildDhcp(d) = Cat(h, Cat(u, b))
    BY <1>10, <1>11, <1>12, DhcpBuilt, Zenon
  <2>2. Cat(Cat(h, u), b) = Cat(h, Cat(u, b))
    BY <1>14, CatAssoc, Zenon
  <2> QED
    BY <2>1, <2>2, Zenon
<1> QED
  BY <1>1, <1>8, <1>10, <1>13, <1>15, Zenon

LEMMA DhcpSet ==
  ASSUME NEW s
  PROVE  /\ \A v : Sets(s, OfType(s, MessageType, 1), v) => DhcpType(s) = Head(v)
         /\ \A v, n : Sets(s, OfType(s, ServerId, 0), v) => DhcpServer(s, n) = Ip4(v)
         /\ \A v : Sets(s, OfType(s, 1, 0), v) => DhcpMask(s) = Ip4(v)
         /\ OfType(s, 1, 0) = {} => DhcpMask(s) = <<>>
         /\ \A v : Sets(s, OfType(s, 3, 0), v) => DhcpGateways(s) = Ip4s(v)
         /\ \A v : Sets(s, OfType(s, 6, 0), v) => DhcpDns(s) = Ip4s(v)
         /\ OfType(s, 6, 0) = {} => DhcpDns(s) = <<>>
         /\ \A v : Sets(s, OfType(s, LeaseTime, 4), v) => DhcpLease(s) = Slice(v, 0, 4)
         /\ \A v : Sets(s, OfType(s, 15, 0), v) => DhcpDomain(s) = v
         /\ OfType(s, 15, 0) = {} => DhcpDomain(s) = <<>>
<1>1. \A v : Sets(s, OfType(s, MessageType, 1), v) => DhcpType(s) = Head(v)
  BY Zenon DEF DhcpType, Field, Sets
<1>2. \A v, n : Sets(s, OfType(s, ServerId, 0), v) => DhcpServer(s, n) = Ip4(v)
  BY Zenon DEF DhcpServer, Field, Sets
<1>3. \A v : Sets(s, OfType(s, 1, 0), v) => DhcpMask(s) = Ip4(v)
  BY Zenon DEF DhcpMask, Field, Sets
<1>4. OfType(s, 1, 0) = {} => DhcpMask(s) = <<>>
  BY Zenon DEF DhcpMask, Field
<1>5. \A v : Sets(s, OfType(s, 3, 0), v) => DhcpGateways(s) = Ip4s(v)
  BY Zenon DEF DhcpGateways, Field, Sets
<1>6. \A v : Sets(s, OfType(s, 6, 0), v) => DhcpDns(s) = Ip4s(v)
  BY Zenon DEF DhcpDns, Field, Sets
<1>7. OfType(s, 6, 0) = {} => DhcpDns(s) = <<>>
  BY Zenon DEF DhcpDns, Field
<1>8. \A v : Sets(s, OfType(s, LeaseTime, 4), v) => DhcpLease(s) = Slice(v, 0, 4)
  BY Zenon DEF DhcpLease, Field, Sets
<1>9. \A v : Sets(s, OfType(s, 15, 0), v) => DhcpDomain(s) = v
  BY Zenon DEF DhcpDomain, Field, Sets
<1>10. OfType(s, 15, 0) = {} => DhcpDomain(s) = <<>>
  BY Zenon DEF DhcpDomain, Field
<1> QED
  BY <1>1, <1>2, <1>3, <1>4, <1>5, <1>6, <1>7, <1>8, <1>9, <1>10

LEMMA DhcpItemTypes ==
  ASSUME NEW d, NEW x \in DhcpItemsOf(d)
  PROVE  /\ d.mask = <<>> => x.type # 1
         /\ d.dns = <<>> => x.type # 6
         /\ d.domain = <<>> => x.type # 15
<1>1. /\ MessageType \notin {1, 6, 15} /\ ServerId \notin {1, 6, 15}
      /\ LeaseTime \notin {1, 6, 15} /\ 3 \notin {1, 6, 15}
      /\ 1 \notin {6, 15} /\ 6 \notin {1, 15} /\ 15 \notin {1, 6}
  BY SMT DEF MessageType, ServerId, LeaseTime
<1>2. \E t \in {MessageType, ServerId, LeaseTime, 3}
           \cup (IF d.mask = <<>> THEN {} ELSE {1}) \cup (IF d.dns = <<>> THEN {} ELSE {6})
           \cup (IF d.domain = <<>> THEN {} ELSE {15}) : \E v : x = Item(t, v)
  BY Zenon DEF DhcpItemsOf
<1>3. PICK t \in {MessageType, ServerId, LeaseTime, 3}
           \cup (IF d.mask = <<>> THEN {} ELSE {1}) \cup (IF d.dns = <<>> THEN {} ELSE {6})
           \cup (IF d.domain = <<>> THEN {} ELSE {15}) : \E v : x = Item(t, v)
  BY <1>2, Zenon
<1>4. PICK v : x = Item(t, v)
  BY <1>3, Zenon
<1>5. x.type = t
  <2>1. Item(t, v).type = t
    BY ItemIs, Zenon
  <2> QED
    BY <1>4, <2>1, Zenon
<1> QED
  BY <1>1, <1>3, <1>5, Zenon

LEMMA OptionItemsIn == OptionItems \in SUBSET Tlvs
BY SMT DEF OptionItems

LEMMA Ip4Is ==
  ASSUME NEW b, Sized(b, 4)
  PROVE  Ip4(b) = b /\ b # <<>>
<1>1. b \in String /\ Len(b) = 4
  BY Zenon DEF Sized
<1>2. Ip4(b) = b
  BY <1>1, Zenon DEF Ip4
<1>3. Len(b) # 0
  BY <1>1, SMT
<1> QED
  BY <1>1, <1>2, <1>3, CatEmpty, Zenon

\* What is said of the facts d.
DhcpSays(d) ==
  [protocol |-> "dhcp", type |-> d.type, xid |-> d.xid, client |-> d.client,
   offered |-> d.offered, server |-> d.server, mask |-> d.mask,
   gateways |-> RoutersOf(d), dns |-> d.dns, lease |-> d.lease, domain |-> d.domain]

LEMMA DhcpWhole ==
  ASSUME NEW d \in DhcpFacts, NEW s, NEW y, DhcpRead(d, s, y)
  PROVE  /\ DhcpHeard(d, s) = DhcpSays(d) /\ DhcpHeard(d, s) = DhcpNetwork(d, s)
         /\ s \in Seq(OptionItems) /\ Distinct(s) /\ DhcpServer(s, d.server) = d.server
<1>1. ReadFrom(Options, OptionItems, s, DhcpItemsOf(d), y) /\ OptionItems \in SUBSET Tlvs
  BY OptionItemsIn, Zenon DEF DhcpRead
<1>2. 0 \in Nat /\ 1 \in Nat /\ 4 \in Nat /\ 1 <= 1 /\ 4 <= 4
  BY SMT
<1>3. \A v : OptionValue(v) => v \in String /\ 0 <= Len(v)
  <2> SUFFICES ASSUME NEW v, OptionValue(v) PROVE v \in String /\ 0 <= Len(v)
    OBVIOUS
  <2>1. v \in String
    BY SMT DEF OptionValue
  <2>2. Len(v) \in Nat
    BY <2>1, CatProps, Zenon
  <2> QED
    BY <2>1, <2>2, SMT
<1>4. \A t, v : Item(t, v) \in DhcpItemsOf(d) /\ OptionValue(v) => Sets(s, OfType(s, t, 0), v)
  BY <1>1, <1>2, <1>3, ItemGives, Zenon
<1>5. /\ OptionValue(d.server) /\ OptionValue(Joined[RoutersOf(d)])
      /\ OptionValue(Joined[d.dns]) /\ OptionValue(d.domain)
      /\ d.mask # <<>> => OptionValue(d.mask)
  BY DhcpValues, Zenon
<1>6. DhcpType(s) = d.type /\ d.type # NoType
  <2>1. Item(MessageType, One(d.type)) \in DhcpItemsOf(d)
    BY Zenon DEF DhcpItemsOf
  <2>2. PICK v : v = One(d.type) /\ v \in String /\ Len(v) = 1
    BY DhcpFactIs, OneProps, Zenon
  <2>3. Sets(s, OfType(s, MessageType, 1), v)
    <3>1. 1 <= Len(v) /\ Item(MessageType, v) \in DhcpItemsOf(d)
      BY <1>2, <2>1, <2>2, Zenon
    <3> QED
      BY <1>1, <1>2, <3>1, ItemGives, Zenon
  <2>4. Head(v) = d.type
    BY <2>2 DEF One
  <2>5. d.type # NoType
    <3>1. d.type \in Octet
      BY DhcpFactIs, Zenon
    <3>2. 0 <= d.type
      BY <3>1, OctetIs, SMT
    <3> QED
      BY <3>2, SMT DEF NoType
  <2> QED
    BY <2>3, <2>4, <2>5, DhcpSet, Zenon
<1>7. DhcpServer(s, d.server) = d.server /\ d.server # <<>>
  <2>1. Item(ServerId, d.server) \in DhcpItemsOf(d)
    BY Zenon DEF DhcpItemsOf
  <2>2. Sets(s, OfType(s, ServerId, 0), d.server)
    BY <1>4, <1>5, <2>1, Zenon
  <2>3. Ip4(d.server) = d.server /\ d.server # <<>>
    BY DhcpFactIs, Ip4Is, Zenon
  <2> QED
    BY <2>2, <2>3, DhcpSet, Zenon
<1>8. DhcpMask(s) = d.mask
  <2>1. CASE d.mask = <<>>
    <3>1. \A x \in DhcpItemsOf(d) : x.type # 1
      BY <2>1, DhcpItemTypes, Zenon
    <3>2. OfType(s, 1, 0) = {}
      BY <1>1, <3>1, NoItemGives, SMT
    <3> QED
      BY <2>1, <3>2, DhcpSet, Zenon
  <2>2. CASE d.mask # <<>>
    <3>1. Item(1, d.mask) \in DhcpItemsOf(d)
      BY <2>2, Zenon DEF DhcpItemsOf
    <3>2. Sets(s, OfType(s, 1, 0), d.mask)
      BY <1>4, <1>5, <2>2, <3>1, Zenon
    <3>3. Ip4(d.mask) = d.mask
      BY <2>2, DhcpFactIs, Ip4Is, Zenon
    <3> QED
      BY <3>2, <3>3, DhcpSet, Zenon
  <2> QED
    BY <2>1, <2>2, Zenon
<1>9. DhcpGateways(s) = RoutersOf(d)
  <2>1. Item(3, Joined[RoutersOf(d)]) \in DhcpItemsOf(d)
    BY Zenon DEF DhcpItemsOf
  <2>2. Sets(s, OfType(s, 3, 0), Joined[RoutersOf(d)])
    BY <1>4, <1>5, <2>1, Zenon
  <2>3. Ip4s(Joined[RoutersOf(d)]) = RoutersOf(d)
    BY DhcpFactIs, ListFits, Zenon
  <2> QED
    BY <2>2, <2>3, DhcpSet, Zenon
<1>10. DhcpDns(s) = d.dns
  <2>1. CASE d.dns = <<>>
    <3>1. \A x \in DhcpItemsOf(d) : x.type # 6
      BY <2>1, DhcpItemTypes, Zenon
    <3>2. OfType(s, 6, 0) = {}
      BY <1>1, <3>1, NoItemGives, SMT
    <3> QED
      BY <2>1, <3>2, DhcpSet, Zenon
  <2>2. CASE d.dns # <<>>
    <3>1. Item(6, Joined[d.dns]) \in DhcpItemsOf(d)
      BY <2>2, Zenon DEF DhcpItemsOf
    <3>2. Sets(s, OfType(s, 6, 0), Joined[d.dns])
      BY <1>4, <1>5, <3>1, Zenon
    <3>3. Ip4s(Joined[d.dns]) = d.dns
      BY DhcpFactIs, ListFits, Zenon
    <3> QED
      BY <3>2, <3>3, DhcpSet, Zenon
  <2> QED
    BY <2>1, <2>2, Zenon
<1>11. DhcpLease(s) = d.lease
  <2>1. Item(LeaseTime, d.lease) \in DhcpItemsOf(d)
    BY Zenon DEF DhcpItemsOf
  <2>2. d.lease \in String /\ Len(d.lease) = 4
    BY DhcpFactIs, Zenon DEF Sized
  <2>3. 4 <= Len(d.lease)
    BY <1>2, <2>2, Zenon
  <2>4. Sets(s, OfType(s, LeaseTime, 4), d.lease)
    BY <1>1, <1>2, <2>1, <2>3, ItemGives, Zenon
  <2>5. Slice(d.lease, 0, 4) = d.lease
    BY <2>2, SliceAll, Zenon
  <2> QED
    BY <2>4, <2>5, DhcpSet, Zenon
<1>12. DhcpDomain(s) = d.domain
  <2>1. CASE d.domain = <<>>
    <3>1. \A x \in DhcpItemsOf(d) : x.type # 15
      BY <2>1, DhcpItemTypes, Zenon
    <3>2. OfType(s, 15, 0) = {}
      BY <1>1, <3>1, NoItemGives, SMT
    <3> QED
      BY <2>1, <3>2, DhcpSet, Zenon
  <2>2. CASE d.domain # <<>>
    <3>1. Item(15, d.domain) \in DhcpItemsOf(d)
      BY <2>2, Zenon DEF DhcpItemsOf
    <3>2. Sets(s, OfType(s, 15, 0), d.domain)
      BY <1>4, <1>5, <3>1, Zenon
    <3> QED
      BY <3>2, DhcpSet, Zenon
  <2> QED
    BY <2>1, <2>2, Zenon
<1>13. DhcpNetwork(d, s) = DhcpSays(d)
  BY <1>6, <1>7, <1>8, <1>9, <1>10, <1>11, <1>12, Zenon DEF DhcpNetwork, DhcpSays
<1>14. DhcpHeard(d, s) = DhcpNetwork(d, s)
  BY <1>6, Zenon DEF DhcpHeard
<1>15. s \in Seq(OptionItems) /\ Distinct(s)
  BY <1>1, Zenon DEF ReadFrom
<1> QED
  BY <1>7, <1>13, <1>14, <1>15, Zenon

-----------------------------------------------------------------------------
(* One that is cut off.                                                    *)

LEMMA DhcpKept ==
  ASSUME NEW s \in Seq(OptionItems), Distinct(s), NEW r, IsStart(r, s, OptionItems)
  PROVE  /\ Kept(DhcpType(r), DhcpType(s), NoType)
         /\ \A n : Kept(DhcpServer(r, n), DhcpServer(s, n), n)
         /\ Kept(DhcpMask(r), DhcpMask(s), <<>>)
         /\ Kept(DhcpGateways(r), DhcpGateways(s), <<>>)
         /\ Kept(DhcpDns(r), DhcpDns(s), <<>>)
         /\ Kept(DhcpLease(r), DhcpLease(s), <<>>)
         /\ Kept(DhcpDomain(r), DhcpDomain(s), <<>>)
<1>1. \A t, n : Less(r, s, OfType(r, t, n), OfType(s, t, n))
  BY OptionItemsIn, CutGives, Zenon

<1>2. Kept(DhcpType(r), DhcpType(s), NoType)
  <2>1. Less(r, s, OfType(r, MessageType, 1), OfType(s, MessageType, 1))
    BY <1>1, Zenon
  <2> QED
    BY <2>1, Zenon DEF DhcpType, Field, Less, Kept

<1>3. \A n : Kept(DhcpServer(r, n), DhcpServer(s, n), n)
  <2>1. Less(r, s, OfType(r, ServerId, 0), OfType(s, ServerId, 0))
    BY <1>1, Zenon
  <2> QED
    BY <2>1, Zenon DEF DhcpServer, Field, Less, Kept

<1>4. Kept(DhcpMask(r), DhcpMask(s), <<>>)
  <2>1. Less(r, s, OfType(r, 1, 0), OfType(s, 1, 0))
    BY <1>1, Zenon
  <2> QED
    BY <2>1, Zenon DEF DhcpMask, Field, Less, Kept

<1>5. Kept(DhcpGateways(r), DhcpGateways(s), <<>>)
  <2>1. Less(r, s, OfType(r, 3, 0), OfType(s, 3, 0))
    BY <1>1, Zenon
  <2> QED
    BY <2>1, Zenon DEF DhcpGateways, Field, Less, Kept

<1>6. Kept(DhcpDns(r), DhcpDns(s), <<>>)
  <2>1. Less(r, s, OfType(r, 6, 0), OfType(s, 6, 0))
    BY <1>1, Zenon
  <2> QED
    BY <2>1, Zenon DEF DhcpDns, Field, Less, Kept

<1>7. Kept(DhcpLease(r), DhcpLease(s), <<>>)
  <2>1. Less(r, s, OfType(r, LeaseTime, 4), OfType(s, LeaseTime, 4))
    BY <1>1, Zenon
  <2> QED
    BY <2>1, Zenon DEF DhcpLease, Field, Less, Kept

<1>8. Kept(DhcpDomain(r), DhcpDomain(s), <<>>)
  <2>1. Less(r, s, OfType(r, 15, 0), OfType(s, 15, 0))
    BY <1>1, Zenon
  <2> QED
    BY <2>1, Zenon DEF DhcpDomain, Field, Less, Kept

<1> QED
  BY <1>2, <1>3, <1>4, <1>5, <1>6, <1>7, <1>8, Zenon

LEMMA DhcpLess ==
  ASSUME NEW d, NEW s \in Seq(OptionItems), Distinct(s), DhcpServer(s, d.server) = d.server,
         NEW r, IsStart(r, s, OptionItems)
  PROVE  OnlyLoses(DhcpNetwork(d, s), DhcpHeard(d, r))
<1>1. DhcpHeard(d, r) # Nothing => DhcpHeard(d, r) = DhcpNetwork(d, r) /\ DhcpType(r) # NoType
  BY Zenon DEF DhcpHeard
<1>2. PICK w, c, a, b :
        /\ w = DhcpNetwork(d, s) /\ c = DhcpNetwork(d, r)
        /\ a = (IF DhcpServer(s, d.server) = <<>> THEN d.server ELSE DhcpServer(s, d.server))
        /\ b = (IF DhcpServer(r, d.server) = <<>> THEN d.server ELSE DhcpServer(r, d.server))
  OBVIOUS
<1>3. DOMAIN w = {"protocol", "type", "xid", "client", "offered", "server", "mask",
                  "gateways", "dns", "lease", "domain"}
  BY <1>2, SMT DEF DhcpNetwork
<1>4. /\ w.protocol = "dhcp" /\ w.type = DhcpType(s) /\ w.xid = d.xid /\ w.client = d.client
      /\ w.offered = d.offered /\ w.server = a /\ w.mask = DhcpMask(s)
      /\ w.gateways = DhcpGateways(s) /\ w.dns = DhcpDns(s) /\ w.lease = DhcpLease(s)
      /\ w.domain = DhcpDomain(s)
  BY <1>2, SMT DEF DhcpNetwork
<1>5. /\ c.protocol = "dhcp" /\ c.type = DhcpType(r) /\ c.xid = d.xid /\ c.client = d.client
      /\ c.offered = d.offered /\ c.server = b /\ c.mask = DhcpMask(r)
      /\ c.gateways = DhcpGateways(r) /\ c.dns = DhcpDns(r) /\ c.lease = DhcpLease(r)
      /\ c.domain = DhcpDomain(r)
  BY <1>2, SMT DEF DhcpNetwork
<1>6. /\ Unset.mask = <<>> /\ Unset.gateways = <<>> /\ Unset.dns = <<>> /\ Unset.lease = <<>>
      /\ Unset.domain = <<>>
      /\ {"mask", "gateways", "dns", "lease", "domain"} \subseteq DOMAIN Unset
  BY SMT DEF Unset
<1>7. a = b
  <2>1. Kept(DhcpServer(r, d.server), DhcpServer(s, d.server), d.server)
    BY DhcpKept, Zenon
  <2> QED
    BY <1>2, <2>1, Zenon DEF Kept
<1>8. ASSUME DhcpType(r) # NoType, NEW k \in DOMAIN w
      PROVE  c[k] = w[k] \/ (k \in DOMAIN Unset /\ c[k] = Unset[k])
  <2>1. CASE k \in {"protocol", "xid", "client", "offered", "server"}
    BY <1>4, <1>5, <1>7, <2>1, Zenon
  <2>2. CASE k = "type"
    BY <1>4, <1>5, <1>8, <2>2, DhcpKept, Zenon DEF Kept

  <2>3. CASE k = "mask"
    BY <1>4, <1>5, <1>6, <2>3, DhcpKept, Zenon DEF Kept

  <2>4. CASE k = "gateways"
    BY <1>4, <1>5, <1>6, <2>4, DhcpKept, Zenon DEF Kept

  <2>5. CASE k = "dns"
    BY <1>4, <1>5, <1>6, <2>5, DhcpKept, Zenon DEF Kept

  <2>6. CASE k = "lease"
    BY <1>4, <1>5, <1>6, <2>6, DhcpKept, Zenon DEF Kept

  <2>7. CASE k = "domain"
    BY <1>4, <1>5, <1>6, <2>7, DhcpKept, Zenon DEF Kept

  <2> QED
    BY <1>3, <2>1, <2>2, <2>3, <2>4, <2>5, <2>6, <2>7, Zenon
<1> QED
  BY <1>1, <1>2, <1>8, Zenon DEF OnlyLoses

LEMMA DhcpRoundTrip ==
  ASSUME NEW d \in DhcpFacts
  PROVE  /\ Hear(BuildDhcp(d)) = DhcpSays(d)
         /\ \A n \in Nat : n <= Len(BuildDhcp(d)) =>
              OnlyLoses(Hear(BuildDhcp(d)), Hear(Slice(BuildDhcp(d), 0, n)))
<1>1. PICK w, p, s, y : /\ DhcpHeads(w, d.server) /\ IsHeader(p, d)
                        /\ BuildDhcp(d) = Cat(w, Cat(p, y)) /\ DhcpRead(d, s, y)
  BY DhcpFrame, Zenon
<1>2. /\ w \in String /\ Len(w) = Ahead
      /\ \A x \in String : Hear(Cat(w, x)) = ParseDhcp(x, d.server)
      /\ \A x \in String, n \in Nat :
           n <= Len(Cat(w, x)) /\ n < Ahead => Hear(Slice(Cat(w, x), 0, n)) = Nothing
  BY <1>1, Zenon DEF DhcpHeads, Sized
<1>3. p \in String /\ Len(p) = HeaderEnd
  BY <1>1, Zenon DEF IsHeader, Sized
<1>4. /\ y \in String /\ Options[y] = s
      /\ \A n \in Nat : n <= Len(y) => IsStart(Options[Slice(y, 0, n)], s, OptionItems)
  BY <1>1, Zenon DEF DhcpRead, ReadFrom
<1>5. /\ DhcpHeard(d, s) = DhcpSays(d) /\ DhcpHeard(d, s) = DhcpNetwork(d, s)
      /\ s \in Seq(OptionItems) /\ Distinct(s) /\ DhcpServer(s, d.server) = d.server
  BY <1>1, DhcpWhole, Zenon
<1>6. \A x \in String : ParseDhcp(Cat(p, x), d.server) = DhcpHeard(d, Options[x])
  BY <1>1, HeaderParsed, Zenon
<1>7. PICK x \in String : x = Cat(p, y)
  BY <1>3, <1>4, CatProps, Zenon
<1>8. BuildDhcp(d) = Cat(w, x)
  BY <1>1, <1>7, Zenon
<1>9. Hear(Cat(w, x)) = DhcpHeard(d, s)
  BY <1>2, <1>4, <1>6, <1>7, Zenon
<1>10. ASSUME NEW n \in Nat, n <= Len(Cat(w, x))
       PROVE  OnlyLoses(DhcpNetwork(d, s), Hear(Slice(Cat(w, x), 0, n)))
  <2>1. CASE n < Ahead
    <3>1. Hear(Slice(Cat(w, x), 0, n)) = Nothing
      BY <1>2, <1>10, <2>1, Zenon
    <3> QED
      BY <3>1, Zenon DEF OnlyLoses
  <2>2. CASE ~(n < Ahead)
    <3>1. ~(n < Len(w))
      BY <1>2, <2>2, Zenon
    <3>2. PICK k \in Nat : k <= Len(x) /\ Slice(Cat(w, x), 0, n) = Cat(w, Slice(x, 0, k))
      BY <1>2, <1>10, <3>1, CutBehind, Zenon
    <3>3. Slice(x, 0, k) \in String
      BY SliceString, Zenon
    <3>4. Hear(Slice(Cat(w, x), 0, n)) = ParseDhcp(Slice(x, 0, k), d.server)
      BY <1>2, <3>2, <3>3, Zenon
    <3>5. CASE k < Len(p)
      <4>1. Len(Slice(x, 0, k)) = k
        BY <1>3, <1>4, <1>7, <3>2, FramedCut, Zenon
      <4>2. Len(Slice(x, 0, k)) < HeaderEnd
        BY <1>3, <3>5, <4>1, Zenon
      <4>3. ParseDhcp(Slice(x, 0, k), d.server) = Nothing
        BY <3>3, <4>2, HeaderCut, Zenon
      <4> QED
        BY <3>4, <4>3, Zenon DEF OnlyLoses
    <3>6. CASE ~(k < Len(p))
      <4>1. PICK j \in Nat : j <= Len(y) /\ Slice(Cat(p, y), 0, k) = Cat(p, Slice(y, 0, j))
        BY <1>3, <1>4, <1>7, <3>2, <3>6, CutBehind, Zenon
      <4>2. Slice(y, 0, j) \in String
        BY <1>4, SliceString, Zenon
      <4>3. ParseDhcp(Slice(x, 0, k), d.server) = DhcpHeard(d, Options[Slice(y, 0, j)])
        BY <1>6, <1>7, <4>1, <4>2, Zenon
      <4>4. IsStart(Options[Slice(y, 0, j)], s, OptionItems)
        BY <1>4, <4>1, Zenon
      <4>5. OnlyLoses(DhcpNetwork(d, s), DhcpHeard(d, Options[Slice(y, 0, j)]))
        BY <1>5, <4>4, DhcpLess, Zenon
      <4> QED
        BY <3>4, <4>3, <4>5, Zenon
    <3> QED
      BY <3>5, <3>6, Zenon
  <2> QED
    BY <2>1, <2>2, Zenon
<1> QED
  BY <1>5, <1>8, <1>9, <1>10, Zenon

-----------------------------------------------------------------------------
(* All samples.                                                            *)

LEMMA RoundTrips == FramesRoundTrip
<1>1. \A d \in LldpFacts : Hear(BuildLldp(d)) = LldpSays(d)
  BY LldpRoundTrip, Zenon
<1>2. \A d \in CdpFacts : Hear(BuildCdp(d)) = CdpSays(d)
  BY CdpRoundTrip, Zenon
<1>3. \A d \in DhcpFacts :
        Hear(BuildDhcp(d)) = [d EXCEPT !.gateways = IF @ = <<>> THEN <<d.server>> ELSE @]
  <2> SUFFICES ASSUME NEW d \in DhcpFacts
               PROVE  Hear(BuildDhcp(d)) =
                        [d EXCEPT !.gateways = IF @ = <<>> THEN <<d.server>> ELSE @]
    OBVIOUS
  <2>1. Hear(BuildDhcp(d)) = DhcpSays(d)
    BY DhcpRoundTrip, Zenon
  <2>2. [d EXCEPT !.gateways = IF @ = <<>> THEN <<d.server>> ELSE @] = DhcpSays(d)
    BY DhcpFactIs, Zenon DEF DhcpSays
  <2> QED
    BY <2>1, <2>2, Zenon
<1> QED
  BY <1>1, <1>2, <1>3, Zenon DEF FramesRoundTrip, LldpSays, CdpSays

LEMMA FramesAreStrings ==
  ASSUME NEW f \in Frames
  PROVE  f \in String
<1>1. ASSUME NEW d \in LldpFacts PROVE BuildLldp(d) \in String
  <2>1. PICK h, s, y : LldpHeads(h) /\ BuildLldp(d) = Cat(h, y) /\ LldpRead(d, s, y)
    BY LldpFrame, Zenon
  <2>2. h \in String /\ y \in String
    BY <2>1, Zenon DEF LldpHeads, LldpRead, ReadFrom
  <2> QED
    BY <2>1, <2>2, CatProps, Zenon
<1>2. ASSUME NEW d \in CdpFacts PROVE BuildCdp(d) \in String
  <2>1. PICK h, s, y : /\ CdpHeads(h) /\ BuildCdp(d) = Cat(h, Cat(CdpPrefix, y))
                       /\ CdpRead(d, s, y)
    BY CdpFrame, Zenon
  <2>2. h \in String /\ y \in String /\ CdpPrefix \in String
    BY <2>1, CdpPrefixIs, Zenon DEF CdpHeads, CdpRead, ReadFrom
  <2>3. Cat(CdpPrefix, y) \in String
    BY <2>2, CatProps, Zenon
  <2> QED
    BY <2>1, <2>2, <2>3, CatProps, Zenon
<1>3. ASSUME NEW d \in DhcpFacts PROVE BuildDhcp(d) \in String
  <2>1. PICK w, p, s, y : /\ DhcpHeads(w, d.server) /\ IsHeader(p, d)
                          /\ BuildDhcp(d) = Cat(w, Cat(p, y)) /\ DhcpRead(d, s, y)
    BY DhcpFrame, Zenon
  <2>2. w \in String /\ p \in String /\ y \in String
    BY <2>1, Zenon DEF DhcpHeads, IsHeader, Sized, DhcpRead, ReadFrom
  <2>3. Cat(p, y) \in String
    BY <2>2, CatProps, Zenon
  <2> QED
    BY <2>1, <2>2, <2>3, CatProps, Zenon
<1> QED
  BY <1>1, <1>2, <1>3, Zenon DEF Frames

LEMMA OnlyLosesAll == TruncationOnlyLoses
<1>1. ASSUME NEW f \in Frames, NEW n \in 0 .. Len(f) - 1
      PROVE  OnlyLoses(Hear(f), Hear(Slice(f, 0, n)))
  <2>1. /\ \A d \in LldpFacts : \A m \in Nat : m <= Len(BuildLldp(d)) =>
             OnlyLoses(Hear(BuildLldp(d)), Hear(Slice(BuildLldp(d), 0, m)))
        /\ \A d \in CdpFacts : \A m \in Nat : m <= Len(BuildCdp(d)) =>
             OnlyLoses(Hear(BuildCdp(d)), Hear(Slice(BuildCdp(d), 0, m)))
        /\ \A d \in DhcpFacts : \A m \in Nat : m <= Len(BuildDhcp(d)) =>
             OnlyLoses(Hear(BuildDhcp(d)), Hear(Slice(BuildDhcp(d), 0, m)))
    BY LldpRoundTrip, CdpRoundTrip, DhcpRoundTrip, Zenon
  <2>2. \A m \in Nat : m <= Len(f) => OnlyLoses(Hear(f), Hear(Slice(f, 0, m)))
    BY <2>1, Zenon DEF Frames
  <2>3. n \in Nat /\ n <= Len(f)
    <3>1. f \in String
      BY FramesAreStrings, Zenon
    <3>2. Len(f) \in Nat
      BY <3>1, CatProps, Zenon
    <3> QED
      BY <3>2, SMT
  <2> QED
    BY <2>2, <2>3, Zenon
<1> QED
  BY <1>1, Zenon DEF TruncationOnlyLoses, OnlyLoses

=============================================================================
