------------------------------- MODULE SnmpCodec -------------------------------
(***************************************************************************)
(* SNMP v2c messages as the client writes and reads them: BER integers,    *)
(* octet strings, object identifiers and the sequences around them.        *)
(* Object identifiers are sequences of numbers.  An error that the code    *)
(* raises makes the message Refused.  Integers stay below 2^31.            *)
(***************************************************************************)
EXTENDS Octets

TagInteger == 2
TagString == 4
TagNull == 5
TagOid == 6
TagSequence == 48
Unsigned == {65, 66, 67, 70}
Missing == {128, 129, 130}
GetBulk == 165
GetResponse == 162

-----------------------------------------------------------------------------
(* Writing.                                                                *)

\* The least number of octets that hold n, below 2^32.
Width(n) ==
  IF n < 256 THEN 1 ELSE IF n < 65536 THEN 2 ELSE IF n < 16777216 THEN 3 ELSE 4

EncodeLen(n) == IF n < 128 THEN <<n>> ELSE <<128 + Width(n)>> \o InOctets(n, Width(n))

Encode(tag, v) == <<tag>> \o EncodeLen(Len(v)) \o v

Magnitude(n) == IF n < 0 THEN -n ELSE n

\* Variant: no octet is added for the sign.
UnsignedWidth(n) == Width(Magnitude(n))

\* Octets for the bits of n's magnitude and one for its sign.
SignedWidth(n) ==
  IF Magnitude(n) < 128 THEN 1 ELSE IF Magnitude(n) < 32768 THEN 2
  ELSE IF Magnitude(n) < 8388608 THEN 3 ELSE 4

EncodeInt(n) == Encode(TagInteger, InOctets(n, SignedWidth(n)))

\* An arc in groups of seven bits, all but the last marked.
Marked[n \in Nat] == (IF n < 128 THEN <<>> ELSE Marked[n \div 128]) \o <<128 + (n % 128)>>
Arc(n) == IF n < 128 THEN <<n>> ELSE Marked[n \div 128] \o <<n % 128>>

EncodeOid(oid) ==
  IF Len(oid) < 2 THEN Encode(TagOid, <<>>)
  ELSE Encode(TagOid,
         <<40 * oid[1] + oid[2]>> \o Joined[[i \in 1 .. Len(oid) - 2 |-> Arc(oid[i + 2])]])

Null == [is |-> "null"]
Num(n) == [is |-> "int", n |-> n]
Str(b) == [is |-> "string", b |-> b]
Name(o) == [is |-> "oid", o |-> o]
NoSuch == [is |-> "missing"]
Raw(b) == [is |-> "raw", b |-> b]

EncodeValue(v) ==
  CASE v.is = "int" -> EncodeInt(v.n)
    [] v.is = "string" -> Encode(TagString, v.b)
    [] OTHER -> Encode(TagNull, <<>>)

EncodeBind(vb) == Encode(TagSequence, EncodeOid(vb.oid) \o EncodeValue(vb.val))

\* build_snmp_request.
Build(community, pdu, id, binds, nonRepeaters, maxRepetitions) ==
  LET status == IF pdu = GetBulk THEN nonRepeaters ELSE 0
      index == IF pdu = GetBulk THEN maxRepetitions ELSE 0
      list == Joined[[i \in DOMAIN binds |-> EncodeBind(binds[i])]]
  IN Encode(TagSequence,
       EncodeInt(1) \o Encode(TagString, community)
       \o Encode(pdu, EncodeInt(id) \o EncodeInt(status) \o EncodeInt(index)
                      \o Encode(TagSequence, list)))

-----------------------------------------------------------------------------
(* Reading.                                                                *)

\* Where the value of the TLV at the head of b begins, and what length it has.
Begins(b) == IF b[2] < 128 THEN 2 ELSE 2 + (b[2] % 128)
Length(b) == IF b[2] < 128 THEN b[2] ELSE Number[Slice(b, 2, Begins(b))]
Whole(b) == Len(b) >= 2 /\ Len(b) >= Begins(b) /\ Len(b) >= Begins(b) + Length(b)
End(b) == Begins(b) + Length(b)

\* The TLVs of b, up to where it ends or one that is not whole, and what is left.
Elements[b \in Seq(Octet)] ==
  IF ~Whole(b) THEN <<>>
  ELSE <<[tag |-> b[1], value |-> Slice(b, Begins(b), End(b))]>> \o Elements[Rest(b, End(b))]

Left[b \in Seq(Octet)] == IF Whole(b) THEN Left[Rest(b, End(b))] ELSE b

\* The arcs that end within b, the first with n in front; a last one that does
\* not end is dropped.
Arcs[p \in Seq(Octet) \X Nat] ==
  LET b == p[1]
      n == 128 * p[2] + (b[1] % 128)
  IN IF b = <<>> THEN <<>>
     ELSE IF b[1] < 128 THEN <<n>> \o Arcs[<<Tail(b), 0>>]
     ELSE Arcs[<<Tail(b), n>>]

DecodeOid(b) ==
  IF b = <<>> THEN <<>> ELSE <<b[1] \div 40, b[1] % 40>> \o Arcs[<<Tail(b), 0>>]

DecodeValue(e) ==
  CASE e.tag = TagInteger -> Num(Signed[e.value])
    [] e.tag = TagString -> Str(e.value)
    [] e.tag = TagNull -> Null
    [] e.tag = TagOid -> Name(DecodeOid(e.value))
    [] e.tag \in Unsigned -> Num(Number[e.value])
    [] e.tag \in Missing -> NoSuch
    [] OTHER -> Raw(e.value)

DecodeBind(e) ==
  LET parts == Elements[e.value]
  IN [oid |-> DecodeOid(parts[1].value), val |-> DecodeValue(parts[2])]

Refused == [is |-> "refused"]

\* parse_snmp_response, which reads the elements it needs in turn.
Parse(data) ==
  LET outer == Elements[data]
      msg == Elements[outer[1].value]
      pdu == Elements[msg[3].value]
      list == pdu[4].value
      binds == Elements[list]
  IN IF \/ Len(outer) < 1 \/ outer[1].tag # TagSequence
        \/ Len(msg) < 3 \/ msg[3].tag # GetResponse
        \/ Len(pdu) < 4
        \/ Left[list] # <<>>
        \/ \E i \in DOMAIN binds : Len(Elements[binds[i].value]) < 2
     THEN Refused
     ELSE [is |-> "response", community |-> DecodeValue(msg[2]),
           id |-> DecodeValue(pdu[1]), status |-> DecodeValue(pdu[2]),
           binds |-> [i \in DOMAIN binds |-> DecodeBind(binds[i])]]

-----------------------------------------------------------------------------
(* Properties, of sample messages.                                         *)

CONSTANTS Communities, Ids, Binds

\* Identifiers and values of 32 bits; object identifiers whose first two arcs fit
\* the octet that holds both; the values a client reads.
Int32 == {n \in Int : Magnitude(n) <= 2147483647}
Oids == {o \in Seq(Nat) : Len(o) >= 2 /\ o[2] < 40 /\ 40 * o[1] + o[2] <= 255}
Values == {Null} \cup [is : {"int"}, n : Int32] \cup [is : {"string"}, b : Seq(Octet)]

Responses ==
  {[community |-> c, id |-> i, binds |-> b] : c \in Communities, i \in Ids, b \in Binds}

BuildResponse(r) == Build(r.community, GetResponse, r.id, r.binds, 0, 0)

\* Messages come in datagrams, whose lengths are of 16 bits.
DatagramLimit == 65536

ASSUME SamplesAssumption ==
  /\ Communities \subseteq Seq(Octet)
  /\ Ids \subseteq Int32
  /\ Binds \subseteq Seq([oid : Oids, val : Values])
  /\ \A r \in Responses : Len(BuildResponse(r)) < DatagramLimit

\* A response that carries an identifier, a community and values is read as
\* carrying these, at every width an integer, a length or an arc may have; the
\* client, which knows an answer by its identifier alone, cannot take one for
\* another.  What is left of a response that was cut off is no answer at all.
ResponsesRoundTrip ==
  \A r \in Responses :
    LET data == BuildResponse(r)
    IN /\ Parse(data) =
            [is |-> "response", community |-> Str(r.community),
             id |-> Num(r.id), status |-> Num(0), binds |-> r.binds]
       /\ \A n \in 0 .. Len(data) - 1 : Parse(Slice(data, 0, n)) = Refused
====
