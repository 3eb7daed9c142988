-------------------------- MODULE PerCodecProofs -----------------------------
(***************************************************************************)
(* Proofs about the codecs of sequences, continued: absent fields, the     *)
(* extension container and the end. Then the three shapes of programs are  *)
(* joined in one invariant: every codec of the tables reads back what it   *)
(* writes and understands what its peer writes otherwise.                  *)
(***************************************************************************)
EXTENDS PerMessageProofs

\* A statement that is not the header's comes after it.
LEMMA PastHeader ==
  ASSUME Typed(Program), IsFields(Program), FieldsInv, phase = "decode", pc <= Len(Program.decode),
         ~IsHeader(Program.decode[pc]), IsHeader(Program.encode[Lead(Program) + 1])
  PROVE  optionals = BitsOf(Program, val, container, Lead(Program) + 1)
<1> DEFINE p == Program
<1>1. /\ pc \in 1..Len(p.decode)
      /\ Pair(p, pc, Lead(p) + pc, p.encode[Lead(p) + pc], p.decode[pc], p.encode[Lead(p) + 1])
  BY Zenon, FieldsAt
<1>2. Len(p.decode) \in Nat /\ Len(p.encode) \in Nat /\ Lead(p) \in Nat /\ Lead(p) < Len(p.encode)
  BY Zenon, FieldsFacts
<1>3. Lead(p) + 1 <= Len(p.encode)
  BY <1>2
<1>4. pc # 1
  BY Zenon, <1>1, <1>3 DEF Pair, IsHeader
<1>5. pc > 1
  BY ONLY <1>1, <1>2, <1>4
<1> QED
  BY Zenon, <1>5, FieldsDecoding DEF Reading

\* Past a container that is not there.
LEMMA ReadingSkip ==
  ASSUME AtCounts, NEW p, NEW v, NEW c, NEW j, NEW at, NEW bits, NEW g, Typed(p), IsFields(p),
         Reading(p, v, c, j, at, bits, 0, g), j \in 1..Len(p.decode),
         IsHeader(p.encode[Lead(p) + 1]) => bits = BitsOf(p, v, c, Lead(p) + 1),
         \/ Lead(p) + j > Len(p.encode)
         \/ Lead(p) + j = Len(p.encode) /\ IsExtensions(p.encode[Lead(p) + j]) /\ c = <<>>
  PROVE  Reading(p, v, c, j + 1, at, bits, 0, g)
<1> DEFINE i == Lead(p) + j
           end == Len(p.encode) + 1
<1>1. Lead(p) \in Nat /\ Len(p.encode) \in Nat /\ Len(p.decode) \in Nat
  BY Zenon, FieldsFacts
<1>2. /\ i \in Nat /\ i > Lead(p) /\ Lead(p) + (j + 1) = i + 1
      /\ j + 1 \in 1..(Len(p.decode) + 1)
  BY <1>1
<1>3. i > Len(p.encode) \/ (i = Len(p.encode) /\ IsExtensions(p.encode[i]) /\ c = <<>>)
  BY Zenon
<1>4. /\ at = At(p, v, Least(i, end)) + Extra(p, c, i)
      /\ g = FieldsGot(p, v, i) \cup IesGot(c, IF Extra(p, c, i) = 0 THEN 0 ELSE Len(c))
  BY Zenon DEF Reading
<1> HIDE DEF i
<1>5. Extra(p, c, i + 1) = Extra(p, c, i)
  <2>1. CASE i > Len(p.encode)
    <3>1. i + 1 > Len(p.encode)
      BY ONLY <1>1, <1>2, <2>1
    <3> QED
      BY Zenon, <2>1, <3>1 DEF Extra
  <2>2. CASE c = <<>>
    BY Zenon, <2>2 DEF Extra, HasContainer
  <2> QED
    BY Zenon, <1>3, <2>1, <2>2
<1>6. ~(i <= Len(p.encode) /\ IsPut(p.encode[i]) /\ Included(p, v, i)) /\ (i <= Len(p.encode) => ~Writes(p, v, i))
  <2>1. CASE i > Len(p.encode)
    BY ONLY <1>1, <1>2, <2>1
  <2>2. CASE IsExtensions(p.encode[i])
    BY Zenon, <2>2 DEF IsExtensions, IsPut, Writes
  <2> QED
    BY <1>3, <2>1, <2>2
<1>7. FieldsGot(p, v, i + 1) = FieldsGot(p, v, i)
  <2>1. FieldsGot(p, v, i + 1) =
          FieldsGot(p, v, i) \cup
            (IF i <= Len(p.encode) /\ IsPut(p.encode[i]) /\ Included(p, v, i)
             THEN {Carries(p, v, i)} ELSE {})
    BY ONLY Zenon, <1>1, <1>2, GotNext
  <2> QED
    BY ONLY Zenon, <1>6, <2>1
<1>8. At(p, v, Least(i + 1, end)) = At(p, v, Least(i, end))
  <2>1. CASE i > Len(p.encode)
    <3>1. Least(i, end) = end /\ Least(i + 1, end) = end
      BY ONLY <1>1, <1>2, <2>1 DEF Least
    <3> QED
      BY Zenon, <3>1
  <2>2. CASE ~(i > Len(p.encode))
    <3>1. Least(i, end) = i /\ Least(i + 1, end) = i + 1 /\ i <= Len(p.encode)
      BY ONLY <1>1, <1>2, <1>3, <2>2 DEF Least
    <3>2. At(p, v, i + 1) = At(p, v, i) + 0 /\ At(p, v, i) \in Nat
      BY ONLY AtCounts, <1>1, <1>2, <1>6, <3>1, AtNext
    <3> QED
      BY ONLY <3>1, <3>2
  <2> QED
    BY Zenon, <2>1, <2>2
<1>9. at = At(p, v, Least(i + 1, end)) + Extra(p, c, i + 1)
  BY ONLY Zenon, <1>4, <1>5, <1>8
<1>10. g = FieldsGot(p, v, i + 1) \cup IesGot(c, IF Extra(p, c, i + 1) = 0 THEN 0 ELSE Len(c))
  BY ONLY Zenon, <1>4, <1>5, <1>7
<1> QED
  BY <1>2, <1>9, <1>10 DEF Reading

\* Outside the loop no IE is left.
LEMMA ReadingOutside ==
  ASSUME NEW p, NEW v, NEW c, NEW j, NEW at, NEW bits, NEW n, NEW g,
         Reading(p, v, c, j, at, bits, n, g), Len(c) \in Nat, ~(n > 0)
  PROVE  n = 0
<1>1. n = 0 \/ n \in 1..Len(c)
  BY Zenon DEF Reading
<1> QED
  BY <1>1

\* A field that is absent leaves the decoder at its token.
LEMMA FieldsDecodeNone ==
  ASSUME AtCounts, Typed(Program), IsFields(Program), FieldsInv, DecodeNone
  PROVE  FieldsInv'
<1> DEFINE p == Program
           i == Lead(p) + pc
           e == p.encode[i]
           d == p.decode[pc]
           h == p.encode[Lead(p) + 1]
<1>1. phase = "decode" /\ pc <= Len(p.decode)
  BY Zenon DEF DecodeNone, Decoding, Decoder, Program
<1>2. d.op \in {"get if", "extensions"}
  BY Zenon DEF DecodeNone, Decoding, Decoder, Program
<1>3. /\ pc \in 1..Len(p.decode) /\ S = d
      /\ Pair(p, pc, i, e, d, h)
  BY Zenon, <1>1, FieldsAt
<1>4. /\ Lead(p) \in Nat /\ Len(p.encode) \in Nat
  BY Zenon, FieldsFacts
<1>5. i \in Nat /\ i > Lead(p) /\ (i <= Len(p.encode) \/ i > Len(p.encode))
  BY <1>3, <1>4
<1>6. /\ h.op = "header" /\ d.bit \in DOMAIN h.bits
      /\ \/ i <= Len(p.encode) /\ e.op = "put if" /\ h.bits[d.bit] = e.f /\ e.f \notin {"false", "num_ies"}
         \/ i = Len(p.encode) /\ e.op = "extensions" /\ h.bits[d.bit] = "num_ies"
         \/ i > Len(p.encode)
  BY Zenon, <1>2, <1>3, <1>5 DEF Pair
<1>7. IsHeader(h) /\ ~IsHeader(d)
  BY Zenon, <1>2, <1>6 DEF IsHeader
<1>8. optionals = BitsOf(p, val, container, Lead(p) + 1)
  BY Zenon, <1>1, <1>7, PastHeader
<1>9. ~BitOf(val, container, h.bits[d.bit])
  <2>1. ~optionals[d.bit]
    BY Zenon, <1>3 DEF DecodeNone
  <2> QED
    BY Zenon, <1>6, <1>8, <2>1 DEF BitsOf
<1>10. Reading(p, val, container, pc, pos, optionals, left, got) /\ Len(container) \in Nat
  BY Zenon, <1>1, FieldsDecoding, SeqFacts
<1>11. left = 0
  BY Zenon, <1>10, ReadingOutside DEF DecodeNone, InLoop
<1>12. /\ pos' = pos + 0 /\ got' = got /\ pc' = pc + 1 /\ phase' = "decode"
       /\ left' = left /\ optionals' = optionals /\ UNCHANGED <<codec, val, wire, container, peer>>
  BY Zenon, <1>1 DEF DecodeNone, Advance
<1>13. CASE i <= Len(p.encode) /\ e.op = "put if" /\ h.bits[d.bit] = e.f /\ e.f \notin {"false", "num_ies"}
  <2>1. ~Included(p, val, i)
    BY Zenon, <1>9, <1>13 DEF BitOf, Included
  <2>2. ~IsExtensions(e) /\ ~Writes(p, val, i)
    BY Zenon, <1>13, <2>1 DEF IsExtensions, Writes
  <2>3. pos = At(p, val, i) /\ got = FieldsGot(p, val, i)
    BY Zenon, <1>10, <1>13, <2>2, ReadingPlain
  <2>4. At(p, val, i) \in Nat
    BY Zenon, <1>4, <1>5, AtNext
  <2> HIDE DEF e, d, p, i
  <2>5. Reading(p, val, container, pc + 1, pos + 0, optionals, 0, got)
    <3>1. /\ IsHeader(p.encode[Lead(p) + 1]) => optionals = BitsOf(p, val, container, Lead(p) + 1)
          /\ pos + 0 = At(p, val, Lead(p) + pc) + (IF Writes(p, val, Lead(p) + pc) THEN 1 ELSE 0)
          /\ got = FieldsGot(p, val, Lead(p) + pc) \cup
               (IF IsPut(p.encode[Lead(p) + pc]) /\ Included(p, val, Lead(p) + pc)
                THEN {Carries(p, val, Lead(p) + pc)} ELSE {})
          /\ ~IsExtensions(p.encode[Lead(p) + pc]) /\ Lead(p) + pc <= Len(p.encode)
          /\ pc \in 1..Len(p.decode)
      BY Zenon, <1>3, <1>8, <1>13, <2>1, <2>2, <2>3, <2>4 DEF e, i
    <3> QED
      BY ZenonT(30), <3>1, ReadingNext DEF p
  <2>6. Reading(p, val, container, pc', pos', optionals', left', got')
    BY <1>11, <1>12, <2>5
  <2> QED
    BY <1>1, <1>12, <2>6, FieldsRead DEF p
<1>14. CASE \/ i = Len(p.encode) /\ e.op = "extensions" /\ h.bits[d.bit] = "num_ies"
            \/ i > Len(p.encode)
  <2>1. \/ i > Len(p.encode)
        \/ i = Len(p.encode) /\ IsExtensions(e) /\ container = <<>>
    BY Zenon, <1>9, <1>14 DEF BitOf, IsExtensions
  <2>2. At(p, val, Least(i, Len(p.encode) + 1)) \in Nat /\ Extra(p, container, i) \in Nat
    <3>1. Least(i, Len(p.encode) + 1) \in Nat
      BY <1>4, <1>5 DEF Least
    <3>2. Extra(p, container, i) \in Nat
      BY <1>10 DEF Extra
    <3> QED
      BY <1>4, <3>1, <3>2, AtNext
  <2>3. pos = At(p, val, Least(i, Len(p.encode) + 1)) + Extra(p, container, i)
    BY Zenon, <1>10, <1>11 DEF Reading
  <2>4. pos + 0 = pos
    BY ONLY <2>2, <2>3
  <2> HIDE DEF e, d, p
  <2>5. Reading(p, val, container, pc, pos, optionals, 0, got)
    BY Zenon, <1>10, <1>11
  <2>6. Reading(p, val, container, pc + 1, pos, optionals, 0, got)
    BY SMTT(30), <1>3, <1>8, <2>1, <2>5, ReadingSkip DEF p, e
  <2>7. Reading(p, val, container, pc', pos', optionals', left', got')
    BY <1>11, <1>12, <2>4, <2>6
  <2> QED
    BY Zenon, <1>1, <1>12, <2>7, FieldsRead DEF p
<1> QED
  BY Zenon, <1>6, <1>13, <1>14

\* The loop over the container is entered with the number of its IEs.
LEMMA FieldsDecodeLength ==
  ASSUME AtCounts, Typed(Program), IsFields(Program), FieldsInv, DecodeLength
  PROVE  FieldsInv'
<1> DEFINE p == Program
           i == Lead(p) + pc
           e == p.encode[i]
           d == p.decode[pc]
           h == p.encode[Lead(p) + 1]
           c == container
<1>1. phase = "decode" /\ pc <= Len(p.decode)
  BY Zenon DEF DecodeLength, Decoding, Decoder, Program
<1>2. d.op \in {"ies", "extensions"}
  BY SMTT(30) DEF DecodeLength, Decoding, Decoder, Program
<1>3. /\ pc \in 1..Len(p.decode) /\ S = d
      /\ Pair(p, pc, i, e, d, h)
  BY Zenon, <1>1, FieldsAt
<1>4. /\ Lead(p) \in Nat /\ Len(p.encode) \in Nat
  BY Zenon, FieldsFacts
<1>5. i \in Nat /\ i > Lead(p) /\ (i <= Len(p.encode) \/ i > Len(p.encode))
  BY <1>3, <1>4
<1>6. /\ h.op = "header" /\ d.bit \in DOMAIN h.bits /\ d.op = "extensions"
      /\ \/ i = Len(p.encode) /\ e.op = "extensions" /\ h.bits[d.bit] = "num_ies"
         \/ h.bits[d.bit] = "false"
  BY Zenon, <1>2, <1>3, <1>5 DEF Pair
<1>7. IsHeader(h) /\ ~IsHeader(d)
  BY Zenon, <1>6 DEF IsHeader
<1>8. optionals = BitsOf(p, val, c, Lead(p) + 1)
  BY Zenon, <1>1, <1>7, PastHeader
<1>9. BitOf(val, c, h.bits[d.bit])
  <2>1. optionals[d.bit]
    BY Zenon, <1>3, <1>6 DEF DecodeLength
  <2> QED
    BY ZenonT(30), <1>6, <1>8, <2>1 DEF BitsOf
<1>10. i = Len(p.encode) /\ HasContainer(p, c)
  BY Zenon, <1>6, <1>9 DEF BitOf, HasContainer
<1>11. Reading(p, val, c, pc, pos, optionals, left, got) /\ Len(c) \in Nat
       /\ c \in Seq(Elements(c)) /\ OnWire(p, val, c, wire, Len(p.encode) + 1)
  BY <1>1, FieldsDecoding, SeqFacts
<1>12. left = 0
  BY Zenon, <1>11, ReadingOutside DEF DecodeLength, InLoop
<1>13. /\ At(p, val, i) \in Nat /\ Len(c) \in Nat \ {0} /\ Len(wire) = At(p, val, i) + Len(c)
       /\ wire[At(p, val, i)] = Length(Len(c))
  <2>1. /\ At(p, val, Len(p.encode)) \in Nat /\ Len(c) \in Nat \ {0}
        /\ At(p, val, Len(p.encode) + 1) = At(p, val, Len(p.encode))
        /\ Extra(p, c, Len(p.encode) + 1) = 1 + Len(c)
        /\ Len(wire) = At(p, val, Len(p.encode)) + Len(c)
        /\ wire[At(p, val, Len(p.encode))] = Length(Len(c))
        /\ \A m \in 1..Len(c) : wire[At(p, val, Len(p.encode)) + m] = c[m]
    <3>1. /\ Typed(p) /\ IsFields(p) /\ c \in Seq(Elements(c))
          /\ OnWire(p, val, c, wire, Len(p.encode) + 1) /\ HasContainer(p, c)
      BY Zenon, <1>10, <1>11
    <3> HIDE DEF p, c
    <3> QED
      <4>1. ContainerOn(p, val, c, wire)
        BY ONLY Zenon, AtCounts, <3>1, ContainerAt
      <4> QED
        BY ONLY Zenon, <4>1 DEF ContainerOn
  <2> HIDE DEF i
  <2> QED
    BY Zenon, <1>10, <2>1
<1>14. i <= Len(p.encode)
  BY <1>4, <1>10
<1>15. pos = At(p, val, i) /\ got = FieldsGot(p, val, i)
  BY <1>11, <1>12, <1>14, ReadingPlain
<1>16. Token(pos) = Length(Len(c))
  <2>1. pos <= Len(wire)
    BY SMTT(30), <1>13, <1>15
  <2> QED
    BY <1>13, <1>15, <2>1 DEF Token
<1>17. Legible
  <2>1. Tok.tok = "length"
    BY <1>16 DEF Tok, Length
  <2>2. ~InLoop
    BY Zenon DEF DecodeLength
  <2> QED
    BY <1>3, <1>6, <2>1, <2>2 DEF Legible
<1>18. /\ pos' = pos + 1 /\ left' = Len(c) /\ pc' = pc /\ phase' = "decode" /\ got' = got
       /\ optionals' = optionals /\ UNCHANGED <<codec, val, wire, container, peer>>
  <2>1. Token(pos).n = Len(c) /\ Len(c) # 0
    BY <1>13, <1>16 DEF Length
  <2>2. ~(S.op = "ies")
    BY Zenon, <1>3, <1>6
  <2> QED
    BY <1>1, <1>17, <2>1, <2>2 DEF DecodeLength
<1> HIDE DEF p, i, e, d, h
<1>19. Reading(p, val, c, pc, pos + 1, optionals, Len(c), got)
  <2>1. /\ pc \in 1..(Len(p.decode) + 1)
        /\ pc > 1 /\ IsHeader(p.encode[Lead(p) + 1]) => optionals = BitsOf(p, val, c, Lead(p) + 1)
    BY Zenon, <1>11 DEF Reading
  <2>2. Len(c) # 0 /\ Len(c) \in 1..Len(c) /\ pos + 1 = At(p, val, i) + 1 + (Len(c) - Len(c))
    BY ONLY <1>13, <1>15
  <2>3. IesGot(c, Len(c) - Len(c)) = {}
    <3>1. Len(c) - Len(c) = 0
      BY ONLY <1>13
    <3> QED
      BY <3>1 DEF IesGot
  <2> QED
    BY SMTT(30), <1>10, <1>15, <2>1, <2>2, <2>3 DEF Reading, i
<1>20. Reading(p, val, c, pc', pos', optionals', left', got')
  BY Zenon, <1>18, <1>19
<1> QED
  BY <1>1, <1>18, <1>20, FieldsRead DEF p

\* Each IE of the container is that of one statement.
LEMMA IeOfStatement ==
  ASSUME NEW p, NEW v, NEW c, c \in Seq(Elements(c)),
         Elements(c) = IeToks(p, v, Len(p.encode) + 1), NEW m \in 1..Len(c)
  PROVE  \E h \in 1..Lead(p) : Included(p, v, h) /\ c[m] = IeTok(p, v, h)
<1>1. c[m] \in Elements(c)
  BY Zenon, SeqFacts DEF Elements
<1> QED
  BY Zenon, <1>1 DEF IeToks

\* A turn of the loop fills the field of one IE.
LEMMA FieldsDecodeIe ==
  ASSUME AtCounts, Typed(Program), IsFields(Program), FieldsInv, DecodeIe, val.edge \in {"lo", "hi"}
  PROVE  FieldsInv'
<1> DEFINE p == Program
           i == Lead(p) + pc
           e == p.encode[i]
           d == p.decode[pc]
           c == container
           m == Len(c) - left + 1
<1>1. phase = "decode" /\ pc <= Len(p.decode)
  BY Zenon DEF DecodeIe, Decoding, Decoder, Program
<1>2. left > 0
  BY Zenon DEF DecodeIe, InLoop
<1>3. /\ pc \in 1..Len(p.decode) /\ S = d
      /\ Pair(p, pc, i, e, d, p.encode[Lead(p) + 1])
  BY Zenon, <1>1, FieldsAt
<1>4. /\ Lead(p) \in Nat /\ Len(p.encode) \in Nat /\ Len(p.decode) \in Nat
  BY Zenon, FieldsFacts
<1>5. /\ Reading(p, val, c, pc, pos, optionals, left, got) /\ Len(c) \in Nat
      /\ c \in Seq(Elements(c)) /\ OnWire(p, val, c, wire, Len(p.encode) + 1)
      /\ Elements(c) = IeToks(p, val, Len(p.encode) + 1)
  BY Zenon, <1>1, FieldsDecoding, SeqFacts
<1>6. /\ left \in 1..Len(c) /\ i = Len(p.encode) /\ HasContainer(p, c)
      /\ pos = At(p, val, i) + 1 + (Len(c) - left)
      /\ got = FieldsGot(p, val, i) \cup IesGot(c, Len(c) - left)
  BY <1>2, <1>5 DEF Reading
<1>7. /\ At(p, val, i) \in Nat /\ Len(wire) = At(p, val, i) + Len(c)
      /\ \A q \in 1..Len(c) : wire[At(p, val, i) + q] = c[q]
      /\ At(p, val, Len(p.encode) + 1) = At(p, val, Len(p.encode))
      /\ Extra(p, c, Len(p.encode) + 1) = 1 + Len(c)
  <2>1. /\ At(p, val, Len(p.encode)) \in Nat /\ Len(c) \in Nat \ {0}
        /\ At(p, val, Len(p.encode) + 1) = At(p, val, Len(p.encode))
        /\ Extra(p, c, Len(p.encode) + 1) = 1 + Len(c)
        /\ Len(wire) = At(p, val, Len(p.encode)) + Len(c)
        /\ wire[At(p, val, Len(p.encode))] = Length(Len(c))
        /\ \A q \in 1..Len(c) : wire[At(p, val, Len(p.encode)) + q] = c[q]
    <3>1. /\ Typed(p) /\ IsFields(p) /\ c \in Seq(Elements(c))
          /\ OnWire(p, val, c, wire, Len(p.encode) + 1) /\ HasContainer(p, c)
      BY Zenon, <1>5, <1>6
    <3> HIDE DEF p, c
    <3> QED
      <4>1. ContainerOn(p, val, c, wire)
        BY ONLY Zenon, AtCounts, <3>1, ContainerAt
      <4> QED
        BY ONLY Zenon, <4>1 DEF ContainerOn
  <2>2. i = Len(p.encode)
    BY Zenon, <1>6
  <2> HIDE DEF i
  <2> QED
    BY SMTT(30), <2>1, <2>2
<1>8. m \in 1..Len(c) /\ pos = At(p, val, i) + m /\ pos <= Len(wire) /\ m - 1 = Len(c) - left
  BY <1>5, <1>6, <1>7
<1>9. e.op = "extensions" /\ IsExtensions(e) /\ ~IsPut(e)
  BY Zenon, <1>6 DEF HasContainer, IsExtensions, IsPut
<1>10. i <= Len(p.encode)
  BY <1>4, <1>6
<1>11. /\ d.op = "extensions"
       /\ \A q \in 1..Lead(p) : Knows(d.ies, p.encode[q].id, p.encode[q].f, p.encode[q].l)
  BY Zenon, <1>3, <1>9, <1>10 DEF Pair
<1>12. PICK h \in 1..Lead(p) : Included(p, val, h) /\ c[m] = IeTok(p, val, h)
  BY Zenon, <1>5, <1>8, IeOfStatement
<1>26. \A r \in 1..Len(c) : \E k \in 1..Lead(p) : Included(p, val, k) /\ c[r] = IeTok(p, val, k)
  BY Zenon, <1>5, IeOfStatement
<1> DEFINE s == p.encode[h]
           n == Number(s.l, val.edge)
<1>13. Tok = IeTok(p, val, h)
  BY <1>7, <1>8, <1>12 DEF Tok, Token
<1>14. Tok.tok = "ie" /\ Tok.id = s.id /\ Tok.l = s.l /\ Tok.n = n
  BY Zenon, <1>13 DEF IeTok, IeToken
<1>15. ById(S.ies, Tok.id) = {Ie(s.id, s.f, s.l)} /\ Fits(s.l)
  BY Zenon, <1>3, <1>11, <1>14 DEF Knows
<1>16. Legible
  <2>1. IsIeOf(pos, S.ies)
    BY <1>14, <1>15 DEF IsIeOf, Tok, Ie
  <2> QED
    BY SMTT(30), <1>2, <1>3, <1>11, <1>14, <2>1 DEF Legible, InLoop
<1>17. Decoded(s.l, n) = n
  BY <1>15, FitsEdge
<1>18. /\ got' = Filled(s.f, n) /\ pos' = pos + 1 /\ left' = left - 1
       /\ pc' = (IF left = 1 THEN pc + 1 ELSE pc)
       /\ phase' = "decode" /\ optionals' = optionals /\ UNCHANGED <<codec, val, wire, container, peer>>
  <2>1. UNION {Filled(x.f, Decoded(x.l, Tok.n)) : x \in ById(S.ies, Tok.id)} = Filled(s.f, n)
    <3>1. Ie(s.id, s.f, s.l).f = s.f /\ Ie(s.id, s.f, s.l).l = s.l
      BY Zenon DEF Ie
    <3> HIDE DEF s, n
    <3> QED
      BY <1>14, <1>15, <1>17, <3>1
  <2>2. ById(S.ies, Tok.id) # {}
    BY Zenon, <1>15
  <2> HIDE DEF s, n
  <2> QED
    BY Zenon, <1>1, <1>16, <2>1, <2>2 DEF DecodeIe
<1>19. /\ DistinctFields(p.encode) /\ DOMAIN p.encode = 1..Len(p.encode) /\ Lead(p) < Len(p.encode)
       /\ \A q \in 1..Lead(p) : IsIe(p.encode[q])
  BY Zenon, FieldsFacts DEF IsIe
<1>20. \A q \in FieldsGot(p, val, i) : q[1] # s.f
  <2> SUFFICES ASSUME NEW k \in (Lead(p) + 1)..(i - 1), k <= Len(p.encode), IsPut(p.encode[k]),
                      p.encode[k].f = s.f
               PROVE  FALSE
    BY DEF FieldsGot, Carries
  <2>1. k \in DOMAIN p.encode /\ h \in DOMAIN p.encode /\ k # h
    BY <1>4, <1>19
  <2> QED
    BY <1>19, <2>1 DEF DistinctFields
<1>21. \A q \in IesGot(c, m - 1) : q[1] = s.f => q = <<s.f, n>>
  <2> SUFFICES ASSUME NEW r \in 1..(m - 1), c[r].f = s.f PROVE <<c[r].f, c[r].n>> = <<s.f, n>>
    BY DEF IesGot
  <2>1. r \in 1..Len(c)
    BY <1>5, <1>8
  <2>2. PICK k \in 1..Lead(p) : Included(p, val, k) /\ c[r] = IeTok(p, val, k)
    BY Zenon, <1>26, <2>1
  <2>3. c[r].f = p.encode[k].f /\ c[r].n = Number(p.encode[k].l, val.edge)
    BY <2>2 DEF IeTok, IeToken
  <2>4. k \in DOMAIN p.encode /\ h \in DOMAIN p.encode
    BY <1>4, <1>19
  <2>5. k = h
    BY Zenon, <1>19, <2>3, <2>4 DEF DistinctFields
  <2> QED
    BY Zenon, <2>3, <2>5
<1>22. IesGot(c, m) = IesGot(c, m - 1) \cup {<<s.f, n>>}
  <2>1. c[m].f = s.f /\ c[m].n = n
    BY <1>12 DEF IeTok, IeToken
  <2>2. 1..m = 1..(m - 1) \cup {m}
    BY <1>5, <1>8
  <2> HIDE DEF m, s, n
  <2> QED
    BY Zenon, <2>1, <2>2 DEF IesGot
<1>23. Filled(s.f, n) = FieldsGot(p, val, i) \cup IesGot(c, m)
  <2>1. got = FieldsGot(p, val, i) \cup IesGot(c, m - 1)
    BY Zenon, <1>6, <1>8
  <2> HIDE DEF m, s, n, p, i
  <2>2. \A q \in got : q[1] = s.f => q = <<s.f, n>>
    BY <1>20, <1>21, <2>1
  <2>3. Filled(s.f, n) = got \cup {<<s.f, n>>}
    BY Zenon, <2>2 DEF Filled
  <2> QED
    BY Zenon, <1>22, <2>1, <2>3
<1> HIDE DEF p, i, e, d, s, n, m
<1>24. CASE left = 1
  <2>1. /\ pc + 1 \in 1..(Len(p.decode) + 1) /\ Lead(p) + (pc + 1) = i + 1 /\ m = Len(c)
        /\ pos + 1 = At(p, val, i) + (1 + Len(c)) /\ left - 1 = 0
    <3>1. pc \in 1..Len(p.decode) /\ Len(c) \in Nat /\ At(p, val, i) \in Nat
      BY Zenon, <1>3, <1>5, <1>7
    <3>2. m = Len(c)
      BY ONLY <1>24, <3>1 DEF m
    <3>3. Lead(p) + (pc + 1) = i + 1
      BY ONLY <1>4, <3>1 DEF i
    <3>4. pc + 1 \in 1..(Len(p.decode) + 1)
      BY ONLY <1>4, <3>1
    <3>5. pos + 1 = At(p, val, i) + (1 + Len(c))
      BY ONLY <1>8, <3>1, <3>2
    <3> QED
      BY ONLY SMTT(30), <1>24, <3>2, <3>3, <3>4, <3>5
  <2>2. Extra(p, c, i + 1) = 1 + Len(c) /\ 1 + Len(c) # 0 /\ At(p, val, i + 1) = At(p, val, i)
    BY <1>5, <1>6, <1>7
  <2>3. Least(i + 1, Len(p.encode) + 1) = i + 1
    BY Zenon, <1>4, <1>6 DEF Least
  <2>4. FieldsGot(p, val, i + 1) = FieldsGot(p, val, i)
    <3>1. i \in Nat /\ i > Lead(p)
      BY Zenon, <1>4, <1>6, <1>19
    <3>2. FieldsGot(p, val, i + 1) =
            FieldsGot(p, val, i) \cup
              (IF i <= Len(p.encode) /\ IsPut(p.encode[i]) /\ Included(p, val, i)
               THEN {Carries(p, val, i)} ELSE {})
      BY ONLY Zenon, <1>4, <3>1, GotNext
    <3> QED
      BY Zenon, <1>9, <3>2 DEF e
  <2>5. IsHeader(p.encode[Lead(p) + 1]) => optionals = BitsOf(p, val, c, Lead(p) + 1)
    <3>1. ~IsHeader(d)
      BY Zenon, <1>11 DEF IsHeader
    <3> QED
      BY Zenon, <1>1, <3>1, PastHeader DEF p, d
  <2>6. Reading(p, val, c, pc + 1, pos + 1, optionals, 0, Filled(s.f, n))
    BY SMTT(30), <1>23, <2>1, <2>2, <2>3, <2>4, <2>5 DEF Reading
  <2>7. Reading(p, val, c, pc', pos', optionals', left', got')
    BY SMTT(30), <1>18, <1>24, <2>1, <2>6
  <2> QED
    BY SMTT(30), <1>1, <1>18, <2>7, FieldsRead DEF p
<1>25. CASE left # 1
  <2>1. /\ left - 1 \in 1..Len(c) /\ left - 1 # 0 /\ Len(c) - (left - 1) = m
        /\ pos + 1 = At(p, val, i) + 1 + (Len(c) - (left - 1))
    <3>1. left \in 1..Len(c) /\ Len(c) \in Nat /\ At(p, val, i) \in Nat
      BY Zenon, <1>5, <1>6, <1>7
    <3>2. Len(c) - (left - 1) = m
      BY ONLY <3>1 DEF m
    <3>3. left - 1 \in 1..Len(c) /\ left - 1 # 0
      BY ONLY <1>25, <3>1
    <3>4. m \in Nat
      BY ONLY <3>1, <3>2
    <3>5. pos + 1 = At(p, val, i) + 1 + m
      BY ONLY <1>8, <3>1, <3>4
    <3> QED
      BY ONLY Zenon, <3>2, <3>3, <3>5
  <2>2. /\ pc \in 1..(Len(p.decode) + 1)
        /\ pc > 1 /\ IsHeader(p.encode[Lead(p) + 1]) => optionals = BitsOf(p, val, c, Lead(p) + 1)
    BY Zenon, <1>5 DEF Reading
  <2>3. Reading(p, val, c, pc, pos + 1, optionals, left - 1, Filled(s.f, n))
    BY Zenon, <1>6, <1>23, <2>1, <2>2 DEF Reading, i
  <2>4. Reading(p, val, c, pc', pos', optionals', left', got')
    BY Zenon, <1>18, <1>25, <2>3
  <2> QED
    BY Zenon, <1>1, <1>18, <2>4, FieldsRead DEF p
<1> QED
  BY Zenon, <1>24, <1>25

\* The decoder starts at the first token.
LEMMA FieldsReceive ==
  ASSUME AtCounts, Typed(Program), IsFields(Program), FieldsInv, Receive
  PROVE  FieldsInv'
<1> DEFINE p == Program
<1>1. Lead(p) \in Nat /\ Len(p.encode) \in Nat /\ Len(p.decode) \in Nat /\ Lead(p) < Len(p.encode)
  BY Zenon, FieldsFacts
<1>2. /\ phase = "sent" /\ phase' = "decode" /\ pc' = 1 /\ pos' = 1 /\ left' = 0 /\ got' = {}
      /\ Program' = Program /\ val' = val /\ container' = container /\ wire' = wire /\ peer' = peer
  BY Zenon DEF Receive, FieldsInv, Program
<1>3. Encoded1(Program', val', container', wire', Len(Program'.encode) + 1)
  BY Zenon, <1>2 DEF FieldsInv
<1>4. Reading(p, val, container, 1, 1, optionals', 0, {})
  <2>1. Least(Lead(p) + 1, Len(p.encode) + 1) = Lead(p) + 1 /\ ~(Lead(p) + 1 > Len(p.encode))
    BY <1>1 DEF Least
  <2>2. At(p, val, Lead(p) + 1) = 1
    BY <1>1, AtNext
  <2>3. Extra(p, container, Lead(p) + 1) = 0
    BY Zenon, <2>1 DEF Extra
  <2>4. FieldsGot(p, val, Lead(p) + 1) = {}
    BY <1>1 DEF FieldsGot
  <2>5. IesGot(container, 0) = {}
    BY DEF IesGot
  <2>6. 1 \in 1..(Len(p.decode) + 1) /\ ~(1 > 1)
    BY <1>1
  <2> HIDE DEF p
  <2> QED
    BY SMTT(30), <2>1, <2>2, <2>3, <2>4, <2>5, <2>6 DEF Reading
<1>5. Reading(Program', val', container', pc', pos', optionals', left', got')
  BY Zenon, <1>2, <1>4
<1> QED
  BY Zenon, <1>2, <1>3, <1>5 DEF FieldsInv

\* The container holds the IEs of the value, and those only.
LEMMA IesAre ==
  ASSUME NEW p, NEW v, NEW c, Typed(p), IsFields(p), c \in Seq(Elements(c)),
         Elements(c) = IeToks(p, v, Len(p.encode) + 1), Len(c) \in Nat
  PROVE  IesGot(c, IF HasContainer(p, c) THEN Len(c) ELSE 0) =
           {Carries(p, v, h) : h \in {k \in 1..Lead(p) : Included(p, v, k)}}
<1>1. Lead(p) \in Nat /\ Len(p.encode) \in Nat /\ Lead(p) < Len(p.encode)
  BY Zenon, FieldsFacts
<1>2. DOMAIN c = 1..Len(c)
  BY Zenon, SeqFacts
<1>3. Elements(c) = {IeTok(p, v, h) : h \in {k \in 1..Lead(p) : Included(p, v, k)}}
  <2>1. \A k \in 1..Lead(p) : k < Len(p.encode) + 1
    BY <1>1
  <2> QED
    BY Zenon, <2>1 DEF IeToks
<1>4. \A h : IeTok(p, v, h).f = p.encode[h].f /\ IeTok(p, v, h).n = Number(p.encode[h].l, v.edge)
  BY Zenon DEF IeTok, IeToken
<1>5. {<<t.f, t.n>> : t \in Elements(c)} =
        {Carries(p, v, h) : h \in {k \in 1..Lead(p) : Included(p, v, k)}}
  <2> DEFINE H == {k \in 1..Lead(p) : Included(p, v, k)}
             x(h) == IeTok(p, v, h)
  <2>1. \A h : <<x(h).f, x(h).n>> = Carries(p, v, h)
    BY Zenon, <1>4 DEF Carries
  <2>2. Elements(c) = {x(h) : h \in H}
    BY Zenon, <1>3
  <2> HIDE DEF H, x
  <2>3. {<<t.f, t.n>> : t \in Elements(c)} = {<<x(h).f, x(h).n>> : h \in H}
    BY ONLY Zenon, <2>2
  <2>4. {<<x(h).f, x(h).n>> : h \in H} = {Carries(p, v, h) : h \in H}
    BY ONLY <2>1, Zenon
  <2> QED
    BY Zenon, <2>3, <2>4 DEF H
<1>6. {<<t.f, t.n>> : t \in Elements(c)} = IesGot(c, Len(c))
  BY Zenon, <1>2 DEF Elements, IesGot
<1>7. CASE HasContainer(p, c)
  BY Zenon, <1>5, <1>6, <1>7
<1>8. CASE ~HasContainer(p, c)
  <2>1. Elements(c) = {}
    <3>1. CASE c = <<>>
      BY Zenon, <3>1, EmptyFacts
    <3>2. CASE c # <<>>
      <4>1. ~(Lead(p) > 0)
        BY Zenon, <1>8, <3>2, FieldsFacts DEF HasContainer
      <4>2. 1..Lead(p) = {}
        BY <1>1, <4>1
      <4> QED
        BY Zenon, <1>3, <4>2
    <3> QED
      BY Zenon, <3>1, <3>2
  <2>2. {Carries(p, v, h) : h \in {k \in 1..Lead(p) : Included(p, v, k)}} = {}
    BY Zenon, <1>5, <2>1
  <2>3. IesGot(c, 0) = {}
    BY DEF IesGot
  <2> QED
    BY Zenon, <1>8, <2>2, <2>3
<1> QED
  BY Zenon, <1>7, <1>8

\* At its end the decoder has filled what was sent and read every token.
LEMMA FieldsDecodeEnds ==
  ASSUME AtCounts, Typed(Program), IsFields(Program), FieldsInv, DecodeEnds
  PROVE  FieldsInv'
<1> DEFINE p == Program
           c == container
           i == Lead(p) + pc
           end == Len(p.encode) + 1
<1>1. /\ Lead(p) \in Nat /\ Len(p.encode) \in Nat /\ Len(p.decode) \in Nat /\ Lead(p) < Len(p.encode)
      /\ Len(p.encode) - Lead(p) <= Len(p.decode) /\ DOMAIN p.encode = 1..Len(p.encode)
  BY Zenon, FieldsFacts
<1>2. phase = "decode" /\ pc > Len(p.decode) /\ End("done")
  BY Zenon DEF DecodeEnds, Decoder, Program
<1>3. /\ Reading(p, val, c, pc, pos, optionals, left, got) /\ Len(c) \in Nat
      /\ c \in Seq(Elements(c)) /\ OnWire(p, val, c, wire, Len(p.encode) + 1)
      /\ Elements(c) = IeToks(p, val, Len(p.encode) + 1)
  BY Zenon, <1>2, FieldsDecoding, SeqFacts
<1>4. pc \in 1..(Len(p.decode) + 1)
  BY Zenon, <1>3 DEF Reading
<1>5. i \in Nat /\ i > Len(p.encode) /\ i > Lead(p) /\ Lead(p) + pc # Len(p.encode)
  BY <1>1, <1>2, <1>4
<1>6. left = 0
  BY Zenon, <1>3, <1>5 DEF Reading
<1>7. /\ pos = At(p, val, Least(i, end)) + Extra(p, c, i)
      /\ got = FieldsGot(p, val, i) \cup IesGot(c, IF Extra(p, c, i) = 0 THEN 0 ELSE Len(c))
  BY Zenon, <1>3, <1>6 DEF Reading
<1> HIDE DEF i
<1>8. Least(i, end) = end
  BY <1>1, <1>5 DEF Least
<1>9. Extra(p, c, i) = (IF HasContainer(p, c) THEN 1 + Len(c) ELSE 0) /\ Extra(p, c, end) = Extra(p, c, i)
  <2>1. end > Len(p.encode)
    BY <1>1
  <2> QED
    BY Zenon, <1>5, <2>1 DEF Extra
<1>10. pos = Len(wire) + 1
  <2>1. Len(wire) = At(p, val, end) - 1 + Extra(p, c, end)
    BY Zenon, <1>3 DEF OnWire
  <2>2. At(p, val, end) \in Nat
    BY <1>1, AtNext
  <2>3. Extra(p, c, end) \in Nat
    BY <1>3, <1>9
  <2> HIDE DEF end
  <2> QED
    BY SMTT(30), <1>7, <1>8, <1>9, <2>1, <2>2, <2>3
<1>11. got = ValueSent
  <2>1. (IF Extra(p, c, i) = 0 THEN 0 ELSE Len(c)) = (IF HasContainer(p, c) THEN Len(c) ELSE 0)
    BY <1>3, <1>9
  <2>2. got = FieldsGot(p, val, i) \cup
                {Carries(p, val, h) : h \in {k \in 1..Lead(p) : Included(p, val, k)}}
    BY Zenon, <1>3, <1>7, <2>1, IesAre
  <2>3. ValueSent = {Carries(p, val, h) : h \in {k \in 1..Len(p.encode) : Included(p, val, k)}}
    <3>1. \A k \in 1..Len(Program.encode) : Program.encode[k].op \notin {"choice", "procedure", "enum"}
      BY Zenon, FieldsOps
    <3> QED
      BY Zenon, <1>1, <3>1, SentAre
  <2>4. \A h \in (Lead(p) + 1)..Len(p.encode) : Included(p, val, h) => IsPut(p.encode[h])
    BY Zenon, FieldsStatement DEF Included, IsPut
  <2> DEFINE A == {k \in 1..Len(p.encode) : Included(p, val, k)}
             B == {k \in 1..Lead(p) : Included(p, val, k)}
             C == {k \in (Lead(p) + 1)..(i - 1) : k <= Len(p.encode) /\ IsPut(p.encode[k]) /\ Included(p, val, k)}
  <2>5. A = B \cup C
    <3>1. ASSUME NEW k \in A PROVE k \in B \cup C
      <4>1. k \in 1..Lead(p) \/ k \in (Lead(p) + 1)..Len(p.encode)
        BY <1>1
      <4>2. k \in (Lead(p) + 1)..Len(p.encode) => k \in (Lead(p) + 1)..(i - 1) /\ k <= Len(p.encode)
        BY <1>1, <1>5
      <4> QED
        BY Zenon, <2>4, <4>1, <4>2
    <3>2. B \cup C \subseteq A
      BY <1>1
    <3> QED
      BY Zenon, <3>1, <3>2
  <2>6. FieldsGot(p, val, i) = {Carries(p, val, h) : h \in C}
    BY Zenon DEF FieldsGot
  <2> HIDE DEF A, B, C
  <2>7. ValueSent = {Carries(p, val, h) : h \in A} /\ got = {Carries(p, val, h) : h \in C} \cup {Carries(p, val, h) : h \in B}
    BY Zenon, <2>2, <2>3, <2>6 DEF A, B
  <2> QED
    BY Zenon, <2>5, <2>7
<1>12. /\ phase' = "done" /\ got' = got /\ pos' = pos /\ wire' = wire /\ peer' = peer
       /\ codec' = codec /\ val' = val /\ container' = container
  BY Zenon, <1>2 DEF End
<1>13. ValueSent' = ValueSent
  BY <1>12 DEF ValueSent, Written, Encoder
<1>14. Program' = Program
  BY Zenon, <1>12 DEF Program
<1>15. Encoded1(Program', val', container', wire', Len(Program'.encode) + 1)
  BY Zenon, <1>2, <1>12, <1>14 DEF FieldsInv
<1> HIDE DEF p, c
<1> QED
  BY SMTT(30), <1>10, <1>11, <1>12, <1>13, <1>15 DEF FieldsInv

\* The invariant holds before the encoder's first statement.
LEMMA FieldsInitially ==
  ASSUME AtCounts, Typed(Program), IsFields(Program), CodecInit
  PROVE  FieldsInv
<1> DEFINE p == Program
<1>1. Lead(p) \in Nat /\ Len(p.encode) \in Nat /\ Lead(p) < Len(p.encode)
  BY Zenon, FieldsFacts
<1>2. InContainer(p, val, <<>>, 1)
  <2>1. IeToks(p, val, 1) = {}
    BY DEF IeToks
  <2> QED
    BY Zenon, <2>1, EmptyFacts DEF InContainer
<1>3. OnWire(p, val, <<>>, <<>>, 1)
  <2>1. At(p, val, 1) = 1
    BY <1>1, AtNext
  <2>2. Extra(p, <<>>, 1) = 0
    BY <1>1 DEF Extra
  <2>3. (Lead(p) + 1)..(1 - 1) = {}
    BY <1>1
  <2> QED
    BY <2>1, <2>2, <2>3, EmptyFacts DEF OnWire
<1>4. Implemented(p, val, 1)
  BY <1>1 DEF Implemented
<1>5. Encoded1(p, val, <<>>, <<>>, 1)
  BY Zenon, <1>2, <1>3, <1>4 DEF Encoded1
<1>6. 1 \in 1..(Len(p.encode) + 1)
  BY <1>1
<1>7. phase = "encode" /\ pc = 1 /\ wire = <<>> /\ container = <<>> /\ pos = 1 /\ left = 0 /\ got = {} /\ peer = Untouched
  BY Zenon DEF CodecInit
<1> QED
  BY Zenon, <1>5, <1>6, <1>7 DEF FieldsInv

\* What a sequence or single value never runs.
LEMMA FieldsNotOthers ==
  ASSUME Typed(Program), IsFields(Program), FieldsInv,
         \/ EncodeIes \/ EncodeChoice \/ EncodeEnum \/ EncodeProcedure
         \/ PeerReorders \/ PeerOmits \/ PeerRepeats \/ PeerAdds \/ PeerExtends
         \/ DecodeRequire \/ DecodeChoice \/ DecodeEnum \/ DecodeProcedure
  PROVE  FALSE
<1>1. Len(Program.encode) \in Nat
  BY Zenon, FieldsFacts
<1>2. \A k \in 1..Len(Program.encode) : Program.encode[k].op \notin {"ies", "choice", "enum", "procedure"}
  BY Zenon, FieldsOps
<1>3. \A k \in 1..Len(Program.decode) : Program.decode[k].op \notin {"require", "choice", "enum", "procedure"}
  BY Zenon, FieldsOps
<1>4. ASSUME NEW ops, Encoding(ops) PROVE pc \in 1..Len(Program.encode)
  <2>1. phase = "encode" /\ pc <= Len(Program.encode)
    BY Zenon, <1>4 DEF Encoding, Encoder, Program
  <2>2. pc \in 1..(Len(Program.encode) + 1)
    BY Zenon, <2>1 DEF FieldsInv
  <2> QED
    BY ONLY <1>1, <2>1, <2>2
<1>5. ASSUME NEW ops, Decoding(ops) PROVE pc \in 1..Len(Program.decode)
  BY Zenon, <1>5, FieldsAt DEF Decoding, Decoder, Program
<1>6. ASSUME NEW ops \in SUBSET {"ies", "choice", "enum", "procedure"}, Encoding(ops) PROVE FALSE
  BY Zenon, <1>2, <1>4, <1>6 DEF Encoding, Encoder, Program
<1>7. ASSUME NEW ops \in SUBSET {"require", "choice", "enum", "procedure"}, Decoding(ops) PROVE FALSE
  BY Zenon, <1>3, <1>5, <1>7 DEF Decoding, Decoder, Program
<1>8. ASSUME NEW ops \in SUBSET {"ies", "choice", "enum"}, Disturbable(ops) PROVE FALSE
  BY Zenon, <1>8, FieldsOps DEF Disturbable, Decoder, Program
<1>9. CASE EncodeIes \/ EncodeChoice \/ EncodeEnum \/ EncodeProcedure
  BY Zenon, <1>6, <1>9 DEF EncodeIes, EncodeChoice, EncodeEnum, EncodeProcedure
<1>10. CASE PeerReorders \/ PeerOmits \/ PeerRepeats \/ PeerAdds \/ PeerExtends
  BY ZenonT(30), <1>8, <1>10 DEF PeerReorders, PeerOmits, PeerRepeats, PeerAdds, PeerExtends
<1>11. CASE DecodeRequire \/ DecodeChoice \/ DecodeEnum \/ DecodeProcedure
  BY Zenon, <1>7, <1>11 DEF DecodeRequire, DecodeChoice, DecodeEnum, DecodeProcedure
<1> QED
  BY Zenon, <1>9, <1>10, <1>11

\* Additions come after the wire.
LEMMA FieldsAppends ==
  ASSUME FieldsInv, PeerAppends
  PROVE  FieldsInv'
<1>1. /\ phase = "sent" /\ phase' = "sent" /\ peer' = Appended
      /\ Program' = Program /\ val' = val /\ container' = container /\ wire' = wire
      /\ pos' = pos /\ left' = left /\ got' = got
  BY Zenon DEF PeerAppends, Disturbable, Sent, Appended, Program
<1> QED
  BY Zenon, <1>1 DEF FieldsInv

\* Every step keeps the invariant of a sequence.
LEMMA FieldsPreserved ==
  ASSUME AtCounts, Typed(Program), IsFields(Program), FieldsInv, val.edge \in {"lo", "hi"},
         [CodecNext]_codecVars
  PROVE  FieldsInv'
<1>1. CASE EncodeHeader
  BY Zenon, <1>1, FieldsEncodeHeader
<1>2. CASE EncodeField
  BY SMTT(30), <1>2, FieldsEncodeField
<1>3. CASE EncodeNone
  BY Zenon, <1>3, FieldsEncodeNone
<1>4. CASE EncodeIe
  BY Zenon, <1>4, FieldsEncodeIe
<1>5. CASE EncodeExtensions
  BY Zenon, <1>5, FieldsEncodeExtensions
<1>6. CASE Send
  BY SMTT(30), <1>6, FieldsSend
<1>7. CASE Receive
  BY Zenon, <1>7, FieldsReceive
<1>8. CASE DecodeHeader
  BY Zenon, <1>8, FieldsDecodeHeader
<1>9. CASE DecodeField
  BY SMTT(30), <1>9, FieldsDecodeField
<1>10. CASE DecodeNone
  BY Zenon, <1>10, FieldsDecodeNone
<1>11. CASE DecodeLength
  BY Zenon, <1>11, FieldsDecodeLength
<1>12. CASE DecodeIe
  BY <1>12, FieldsDecodeIe
<1>13. CASE DecodeEnds
  BY Zenon, <1>13, FieldsDecodeEnds
<1>14. CASE UNCHANGED codecVars
  BY Zenon, <1>14, Stutters DEF FieldsInv
<1>16. CASE PeerAppends
  BY Zenon, <1>16, FieldsAppends
<1>15. CASE \/ EncodeIes \/ EncodeChoice \/ EncodeEnum \/ EncodeProcedure
            \/ PeerReorders \/ PeerOmits \/ PeerRepeats \/ PeerAdds \/ PeerExtends
            \/ DecodeRequire \/ DecodeChoice \/ DecodeEnum \/ DecodeProcedure
  BY Zenon, <1>15, FieldsNotOthers
<1> QED
  BY SMTT(30), <1>1, <1>2, <1>3, <1>4, <1>5, <1>6, <1>7, <1>8, <1>9, <1>10, <1>11, <1>12, <1>13,
     <1>14, <1>15, <1>16 DEF CodecNext

\* A sequence that was sent has no SetupRelease.
LEMMA FieldsNoSetupRelease ==
  ASSUME Typed(Program), IsFields(Program), Implemented(Program, val, Len(Program.encode) + 1)
  PROVE  ~UsesSetupRelease
<1> DEFINE p == Program
<1>1. /\ Lead(p) \in Nat /\ Len(p.encode) \in Nat /\ Len(p.decode) \in Nat
      /\ Len(p.encode) - Lead(p) <= Len(p.decode) /\ Lead(p) < Len(p.encode)
      /\ DOMAIN p.encode = 1..Len(p.encode)
  BY Zenon, FieldsFacts
<1> SUFFICES ASSUME NEW h \in 1..Len(p.encode), Included(p, val, h), IsSetupRelease(p.encode[h])
             PROVE  FALSE
  BY Zenon, <1>1, WrittenAre DEF UsesSetupRelease, IsSetupRelease
<1>2. CASE h <= Lead(p)
  <2> DEFINE j == Len(p.encode) - Lead(p)
  <2>1. Lead(p) > 0 /\ h \in 1..Lead(p)
    BY <1>1, <1>2
  <2>2. p.encode[Len(p.encode)].op = "extensions"
    BY Zenon, <2>1, FieldsFacts
  <2>3. j \in 1..Len(p.decode) /\ Lead(p) + j = Len(p.encode) /\ Len(p.encode) <= Len(p.encode)
    BY <1>1
  <2>4. Pair(p, j, Len(p.encode), p.encode[Len(p.encode)], p.decode[j], p.encode[Lead(p) + 1])
    <3> HIDE DEF j
    <3> QED
      BY Zenon, <2>3, FieldsPair
  <2>5. Knows(p.decode[j].ies, p.encode[h].id, p.encode[h].f, p.encode[h].l)
    <3> HIDE DEF j
    <3> QED
      BY Zenon, <2>1, <2>2, <2>3, <2>4 DEF Pair
  <2> QED
    BY Zenon, <2>5 DEF Knows, IsSetupRelease
<1>3. CASE ~(h <= Lead(p))
  <2>1. h \in (Lead(p) + 1)..Len(p.encode) /\ (Len(p.encode) + 1) - 1 = Len(p.encode)
    BY <1>1, <1>3
  <2>2. IsPut(p.encode[h])
    BY Zenon, <2>1, FieldsStatement DEF Included, IsPut
  <2> QED
    BY Zenon, <2>1, <2>2 DEF Implemented
<1> QED
  BY Zenon, <1>2, <1>3

\* The invariant says that the value is read back.
LEMMA FieldsRight ==
  ASSUME Typed(Program), IsFields(Program), FieldsInv
  PROVE  RoundTrip /\ PeerUnderstood
<1>1. peer # Untouched => peer = Appended
  BY Zenon DEF FieldsInv
<1>2. phase \in Final => phase \in {"done", "unimplemented"}
  BY Zenon DEF FieldsInv, Final
<1>3. phase = "unimplemented" => UsesSetupRelease /\ peer = Untouched
  BY Zenon DEF FieldsInv
<1>4. phase = "done" => ~UsesSetupRelease /\ got = ValueSent /\ pos = Len(wire) + 1
  BY Zenon, FieldsNoSetupRelease DEF FieldsInv, Encoded1
<1>5. RoundTrip
  BY Zenon, <1>2, <1>3, <1>4 DEF RoundTrip
<1>6. PeerUnderstood
  <2> SUFFICES ASSUME phase \in Final, peer # Untouched
               PROVE  PeerUnderstood
    BY Zenon DEF PeerUnderstood
  <2>1. peer.what = "appended"
    <3>1. peer = Appended /\ Appended.what = "appended"
      BY Zenon, <1>1 DEF Appended
    <3> QED
      BY Zenon, <3>1
  <2>2. \A q \in ValueSent : q = <<q[1], q[2]>>
    <3> SUFFICES ASSUME NEW q \in ValueSent PROVE q = <<q[1], q[2]>>
      BY Zenon
    <3>1. \A k \in 1..Len(Program.encode) : Program.encode[k].op \notin {"choice", "procedure", "enum"}
      BY Zenon, FieldsOps
    <3>2. PICK h \in 1..Len(Program.encode) : q = Carries(Program, val, h)
      <4>1. DOMAIN Program.encode = 1..Len(Program.encode)
        BY Zenon, SeqFacts DEF Typed
      <4> QED
        BY Zenon, <3>1, <4>1, SentAre
    <3> DEFINE a == Program.encode[h].f
               b == Number(Program.encode[h].l, val.edge)
    <3>3. q = <<a, b>>
      BY Zenon, <3>2 DEF Carries
    <3> HIDE DEF a, b
    <3> QED
      BY <3>3
  <2>3. {<<q[1], q[2]>> : q \in ValueSent} = ValueSent
    BY Zenon, <2>2
  <2> DEFINE E(q) == <<q[1], IF peer.what = "repeated" /\ q[1] = peer.f THEN q[2] + 1 ELSE q[2]>>
             Out(q) == peer.what = "omitted" /\ q[1] = peer.f
  <2>4. \A q : E(q) = <<q[1], q[2]>> /\ ~Out(q)
    BY Zenon, <2>1
  <2>5. {E(q) : q \in {r \in ValueSent : ~Out(r)}} = ValueSent
    <3> HIDE DEF E, Out
    <3> QED
      BY Zenon, <2>3, <2>4
  <2> QED
    BY Zenon, <1>2, <1>3, <1>4, <2>1, <2>5 DEF PeerUnderstood
<1> QED
  BY Zenon, <1>5, <1>6

-----------------------------------------------------------------------------
(* Every codec.                                                            *)

\* The positions of tokens are counted, with the theory of finite sets.
INSTANCE FiniteSetTheorems

(* The programs of the type match and the value is one of the type; each   *)
(* shape of programs has the invariant of its own.                         *)
CodecInv ==
  /\ Matched(Program) /\ val \in ValuesOf(Program.encode)
  /\ \/ IsFields(Program) /\ FieldsInv
     \/ IsMessage(Program) /\ MessageInv
     \/ IsSingle(Program) /\ SingleInv

\* Both programs of a type that match are sequences of statements.
LEMMA MatchedTyped ==
  ASSUME Matched(Program)
  PROVE  Typed(Program)
BY Zenon DEF Matched, Typed

\* There are no other shapes.
LEMMA MatchedShape ==
  ASSUME Matched(Program)
  PROVE  IsFields(Program) \/ IsMessage(Program) \/ IsSingle(Program)
BY Zenon DEF Matched, IsFields, IsMessage, IsSingle

\* A value takes one end of every range.
LEMMA EdgeOfValue ==
  ASSUME val \in ValuesOf(Program.encode)
  PROVE  val.edge \in {"lo", "hi"}
BY Zenon DEF ValuesOf

\* The bound Sampled leaves out values and adds none.
LEMMA SamplesAreValues ==
  ASSUME NEW program
  PROVE  Samples(program) \subseteq ValuesOf(program)
<1>1. Patterns(OptionFields(program)) \subseteq SUBSET OptionFields(program)
  BY Zenon DEF Patterns
<1> QED
  BY Zenon, <1>1 DEF Samples, ValuesOf

\* Positions are counted as the lemmas about sequences assume.
LEMMA AtDoesCount == AtCounts
<1> SUFFICES ASSUME NEW p, NEW v, Lead(p) \in Nat, NEW i \in Nat
             PROVE  /\ At(p, v, i) \in Nat \ {0}
                    /\ i > Lead(p) => At(p, v, i + 1) = At(p, v, i) + (IF Writes(p, v, i) THEN 1 ELSE 0)
                    /\ i <= Lead(p) + 1 => At(p, v, i) = 1
  BY Zenon DEF AtCounts
<1> DEFINE k == Lead(p)
<1>1. \A h \in Nat : IsFiniteSet(WritesBefore(p, v, h)) /\ Cardinality(WritesBefore(p, v, h)) \in Nat
  <2> TAKE h \in Nat
  <2>1. IsFiniteSet((k + 1)..(h - 1))
    BY FS_Interval
  <2>2. WritesBefore(p, v, h) \subseteq (k + 1)..(h - 1)
    BY Zenon DEF WritesBefore
  <2> QED
    BY SMTT(30), <2>1, <2>2, FS_Subset, FS_CardinalityType
<1>2. At(p, v, i) \in Nat \ {0}
  BY <1>1 DEF At
<1>3. ASSUME i > k PROVE At(p, v, i + 1) = At(p, v, i) + (IF Writes(p, v, i) THEN 1 ELSE 0)
  <2>1. i \notin WritesBefore(p, v, i)
    BY DEF WritesBefore
  <2>2. CASE Writes(p, v, i)
    <3>1. WritesBefore(p, v, i + 1) = WritesBefore(p, v, i) \cup {i}
      BY SMTT(30), <1>3, <2>2 DEF WritesBefore
    <3>2. Cardinality(WritesBefore(p, v, i + 1)) = Cardinality(WritesBefore(p, v, i)) + 1
      BY SMTT(30), <1>1, <2>1, <3>1, FS_AddElement
    <3> QED
      BY SMTT(30), <1>1, <2>2, <3>2 DEF At
  <2>3. CASE ~Writes(p, v, i)
    <3>1. WritesBefore(p, v, i + 1) = WritesBefore(p, v, i)
      BY <1>3, <2>3 DEF WritesBefore
    <3> QED
      BY SMTT(30), <1>1, <2>3, <3>1 DEF At
  <2> QED
    BY Zenon, <2>2, <2>3
<1>4. ASSUME i <= k + 1 PROVE At(p, v, i) = 1
  <2>1. WritesBefore(p, v, i) = {}
    BY <1>4 DEF WritesBefore
  <2> QED
    BY <2>1, FS_EmptySet DEF At
<1> QED
  BY SMTT(30), <1>2, <1>3, <1>4

\* The invariant holds before encode_inner's first statement.
LEMMA CodecInitially == CodecInit => CodecInv
<1> SUFFICES ASSUME CodecInit
             PROVE  CodecInv
  BY Zenon
<1>1. Matched(Program)
  BY TablesMatch DEF CodecInit, Program
<1>2. val \in ValuesOf(Program.encode)
  BY Zenon, SamplesAreValues DEF CodecInit, Program, Encoder
<1>3. Typed(Program)
  BY Zenon, <1>1, MatchedTyped
<1>4. IsFields(Program) => FieldsInv
  BY Zenon, <1>3, AtDoesCount, FieldsInitially
<1>5. IsMessage(Program) => MessageInv
  BY Zenon, <1>3, MessageInitially
<1>6. IsSingle(Program) => SingleInv
  BY SMTT(30), SingleInitially
<1> QED
  BY Zenon, <1>1, <1>2, <1>4, <1>5, <1>6, MatchedShape DEF CodecInv

\* No step changes the type or the value.
LEMMA CodecFixed ==
  ASSUME [CodecNext]_codecVars
  PROVE  codec' = codec /\ val' = val
BY Zenon DEF CodecNext, codecVars, EncodeHeader, EncodeField, EncodeNone, EncodeIe,
   EncodeExtensions,
       EncodeIes, EncodeChoice, EncodeEnum, EncodeProcedure, Send, PeerReorders, PeerOmits,
       PeerRepeats, PeerAdds, PeerExtends, PeerAppends, Receive, DecodeHeader, DecodeField, DecodeNone,
       DecodeLength, DecodeIe, DecodeRequire, DecodeChoice, DecodeEnum, DecodeProcedure, DecodeEnds,
       Encoded, End, Sent, Advance

\* Every step preserves the invariant of the shape its programs have.
LEMMA CodecPreserved == CodecInv /\ [CodecNext]_codecVars => CodecInv'
<1> SUFFICES ASSUME CodecInv, [CodecNext]_codecVars
             PROVE  CodecInv'
  BY Zenon
<1>1. Matched(Program) /\ val \in ValuesOf(Program.encode)
  BY Zenon DEF CodecInv
<1>2. Program' = Program /\ val' = val
  BY Zenon, CodecFixed DEF Program
<1>3. Typed(Program) /\ val.edge \in {"lo", "hi"}
  BY SMTT(30), <1>1, MatchedTyped, EdgeOfValue
<1>4. (Matched(Program) /\ val \in ValuesOf(Program.encode))'
  BY SMTT(30), <1>1, <1>2
<1>5. /\ IsFields(Program) => IsFields(Program)'
      /\ IsMessage(Program) => IsMessage(Program)'
      /\ IsSingle(Program) => IsSingle(Program)'
  BY Zenon, <1>2
<1>6. ASSUME IsFields(Program), FieldsInv
      PROVE  FieldsInv'
  BY SMTT(30), <1>3, <1>6, AtDoesCount, FieldsPreserved
<1>7. ASSUME IsMessage(Program), MessageInv
      PROVE  MessageInv'
  BY SMTT(30), <1>3, <1>7, MessagePreserved
<1>8. ASSUME IsSingle(Program), SingleInv
      PROVE  SingleInv'
  BY SMTT(30), <1>1, <1>3, <1>8, SinglePreserved
<1> QED
  BY SMTT(30), <1>4, <1>5, <1>6, <1>7, <1>8 DEF CodecInv

\* What the invariant says of a codec that has ended.
LEMMA CodecRight == CodecInv => RoundTrip /\ PeerUnderstood
<1> SUFFICES ASSUME CodecInv
             PROVE  RoundTrip /\ PeerUnderstood
  BY Zenon
<1>1. Matched(Program) /\ val \in ValuesOf(Program.encode)
  BY Zenon DEF CodecInv
<1>2. Typed(Program) /\ val.edge \in {"lo", "hi"}
  BY SMTT(30), <1>1, MatchedTyped, EdgeOfValue
<1>3. CASE IsFields(Program) /\ FieldsInv
  BY SMTT(30), <1>2, <1>3, FieldsRight
<1>4. CASE IsMessage(Program) /\ MessageInv
  BY <1>2, <1>4, MessageRight
<1>5. CASE IsSingle(Program) /\ SingleInv
  BY SMTT(30), <1>1, <1>2, <1>5, SingleRight
<1> QED
  BY SMTT(30), <1>3, <1>4, <1>5 DEF CodecInv

(* Whatever encode_inner of a type of the tables writes, with any set of   *)
(* its Option fields Some, any variant and either end of its ranges,       *)
(* decode_inner reads back as the same value and to the last token, if the *)
(* two programs match as TablesMatch says.                                 *)
THEOREM CodecsRoundTrip == CodecSpec => []RoundTrip
<1>1. CodecInit => CodecInv
  BY Zenon, CodecInitially
<1>2. CodecInv /\ [CodecNext]_codecVars => CodecInv'
  BY Zenon, CodecPreserved
<1>3. CodecInv => RoundTrip
  BY SMTT(30), CodecRight
<1> QED
  BY <1>1, <1>2, <1>3, PTL DEF CodecSpec

(* A message the peer sends otherwise (IEs in any order, one missing, one  *)
(* twice, one unknown), a choice or enumeration of a later release, and a  *)
(* sequence or message with additions are read as meant, or refused exactly *)
(* when PeerUnderstood says, by every decode_inner of the tables; additions *)
(* are left unread.                                                        *)
THEOREM CodecsUnderstandPeers == CodecSpec => []PeerUnderstood
<1>1. CodecInit => CodecInv
  BY Zenon, CodecInitially
<1>2. CodecInv /\ [CodecNext]_codecVars => CodecInv'
  BY Zenon, CodecPreserved
<1>3. CodecInv => PeerUnderstood
  BY Zenon, CodecRight
<1> QED
  BY <1>1, <1>2, <1>3, PTL DEF CodecSpec
=============================================================================
