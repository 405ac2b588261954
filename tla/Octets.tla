-------------------------------- MODULE Octets --------------------------------
(***************************************************************************)
(* Octet strings: numbers in network order, and slices, which are clipped  *)
(* at the end of the string as they are in Python.                         *)
(***************************************************************************)
EXTENDS Integers, Sequences, SequencesExt

Octet == 0 .. 255

Number[b \in Seq(Octet)] == IF b = <<>> THEN 0 ELSE 256 * Number[Front(b)] + Last(b)

\* In two's complement.
Signed[b \in Seq(Octet)] ==
  CASE b = <<>> -> 0
    [] Len(b) = 1 -> IF b[1] < 128 THEN b[1] ELSE b[1] - 256
    [] OTHER -> 256 * Signed[Front(b)] + Last(b)

\* n in w octets; a negative n in two's complement.
InOctets(n, w) == [i \in 1 .. w |-> (n \div 256 ^ (w - i)) % 256]

\* b[from:to] and b[from:]
Slice(b, from, to) == SubSeq(b, from + 1, IF to < Len(b) THEN to ELSE Len(b))
Rest(b, from) == Slice(b, from, Len(b))

\* Strings one behind the other.
Joined[bs \in Seq(Seq(Octet))] == IF bs = <<>> THEN <<>> ELSE Head(bs) \o Joined[Tail(bs)]

\* The bits of n, of w, that are set.
Bits(n, w) == {k \in 0 .. w - 1 : (n \div 2 ^ k) % 2 = 1}
====
