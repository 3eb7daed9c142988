---------------------------- MODULE WireProofs ----------------------------
(***************************************************************************)
(* Proofs about what is read from the wire: the headers of an uplink       *)
(* packet, for packets of every length; a UE's mobile identity, for every  *)
(* string of digits; and the replies to F1AP requests, for any number of   *)
(* requests outstanding.                                                   *)
(***************************************************************************)
EXTENDS UplinkHeader, MobileIdentity, F1apProcedures, SequenceTheorems, WellFoundedInduction,
        TLAPS

-----------------------------------------------------------------------------
(* MobileIdentity                                                          *)

(* Every set of natural numbers that is not empty has a least element: the *)
(* form of induction the proofs below use, on the first position at which  *)
(* something fails.                                                        *)
LEMMA LeastElement ==
  ASSUME NEW S, S \subseteq Nat, S # {}
  PROVE  \E x \in S : \A y \in S : x <= y
<1> DEFINE R == OpToRel(<,Nat)
<1>1. IsWellFoundedOn(R, Nat)
  BY Zenon, NatLessThanWellFounded
<1>2. \A x, y \in Nat : <<y, x>> \in R <=> y < x
  BY Zenon DEF OpToRel
<1> HIDE DEF R
<1>3. \E x \in S : \A y \in S : ~(<<y, x>> \in R)
  BY Zenon, <1>1, WFMin
<1>4. PICK x \in S : \A y \in S : ~(<<y, x>> \in R)
  BY Zenon, <1>3
<1>5. ASSUME NEW y \in S PROVE x <= y
  <2>1. ~(y < x)
    BY Zenon, <1>2, <1>4
  <2>2. x \in Nat /\ y \in Nat
    BY Zenon
  <2> QED
    BY <2>1, <2>2
<1> QED
  BY Zenon, <1>5

\* What the filler of an odd MSIN is written as.
FillerText(t) == IF t = <<>> THEN <<>> ELSE <<1, 5>>

(* The fold writes digits as themselves, however many there are, and a     *)
(* filler after them as 15.                                                *)
LEMMA WriteOutOfDigits ==
  ASSUME NEW d \in Seq(Digits), NEW t \in {<<>>, <<Filler>>}
  PROVE  WriteOut(d \o t) = d \o FillerText(t)
<1> DEFINE n == d \o t
           N == Len(n)
           Turn(f) == [i \in 0..N |-> IF i = 0 THEN <<>> ELSE f[i - 1] \o Decimal(n[i])]
           w == [i \in 0..N |-> IF i <= Len(d) THEN SubSeq(d, 1, i) ELSE d \o <<1, 5>>]
<1>1. /\ Len(d) \in Nat /\ N = Len(d) + Len(t) /\ N \in Nat
      /\ \A i \in 1..Len(d) : n[i] = d[i] /\ d[i] \in Digits
      /\ t # <<>> => N = Len(d) + 1 /\ n[N] = Filler
      /\ t = <<>> => N = Len(d)
  <2>1. d \in Seq(Nat) /\ t \in Seq(Nat) /\ Len(t) = IF t = <<>> THEN 0 ELSE 1
    <3>1. d \in Seq(Nat)
      BY SeqMonotonic DEF Digits
    <3>2. CASE t = <<>>
      BY <3>1, <3>2
    <3>3. CASE t = <<15>>
      BY <3>1, <3>3
    <3> QED
      BY Zenon, <3>2, <3>3 DEF Filler
  <2> QED
    BY <2>1, ConcatProperties, LenProperties, ElementOfSeq
<1>2. w[0] = <<>>
  BY <1>1
<1>3. ASSUME NEW i \in 1..Len(d) PROVE w[i] = w[i - 1] \o Decimal(n[i])
  <2>1. Decimal(n[i]) = <<d[i]>>
    <3>1. n[i] = d[i] /\ d[i] \in Nat /\ ~(d[i] > 9)
      BY <1>1 DEF Digits
    <3> HIDE DEF n
    <3> QED
      BY Zenon, <3>1 DEF Decimal
  <2>2. w[i] = SubSeq(d, 1, i) /\ w[i - 1] = SubSeq(d, 1, i - 1)
    BY SMTT(30), <1>1
  <2>3. SubSeq(d, 1, i) = SubSeq(d, 1, i - 1) \o <<d[i]>>
    BY <1>1, SubSeqRecursiveSecond
  <2> QED
    BY Zenon, <2>1, <2>2, <2>3
<1>4. ASSUME t # <<>> PROVE w[N] = w[N - 1] \o Decimal(n[N])
  <2>1. Decimal(n[N]) = <<1, 5>>
    BY <1>1, <1>4 DEF Decimal, Filler
  <2>2. w[N] = d \o <<1, 5>> /\ w[N - 1] = SubSeq(d, 1, Len(d))
    BY SMTT(30), <1>1, <1>4
  <2> QED
    BY Zenon, <2>1, <2>2, SubSeqFull
<1>5. w = Turn(w)
  <2>1. ASSUME NEW i \in 0..N, i # 0 PROVE w[i] = w[i - 1] \o Decimal(n[i])
    <3>1. i \in 1..Len(d) \/ (t # <<>> /\ i = N)
      BY <1>1, <2>1
    <3> QED
      BY Zenon, <1>3, <1>4, <3>1
  <2> HIDE DEF w
  <2>2. \A i \in 0..N : w[i] = Turn(w)[i]
    BY Zenon, <1>2, <2>1
  <2>3. w = [i \in 0..N |-> w[i]]
    BY Zenon DEF w
  <2> QED
    BY Zenon, <2>2, <2>3
<1>6. ASSUME NEW f, f = Turn(f) PROVE f = w
  <2> DEFINE apart == {i \in 0..N : f[i] # w[i]}
  <2>1. CASE apart = {}
    <3>1. \A i \in 0..N : f[i] = w[i]
      BY Zenon, <2>1
    <3>2. f = [i \in 0..N |-> f[i]] /\ w = [i \in 0..N |-> w[i]]
      BY Zenon, <1>6
    <3> HIDE DEF w
    <3> QED
      BY Zenon, <3>1, <3>2
  <2>2. CASE apart # {}
    <3>1. PICK i \in apart : \A j \in apart : i <= j
      <4>1. apart \subseteq Nat
        BY <1>1
      <4> HIDE DEF apart
      <4> QED
        BY Zenon, <2>2, <4>1, LeastElement
    <3>2. i \in 0..N /\ f[i] # w[i]
      BY Zenon, <3>1
    <3>3. i # 0
      BY Zenon, <1>2, <1>6, <3>2
    <3>4. f[i - 1] = w[i - 1]
      <4>1. N \in Nat
        BY Zenon, <1>1
      <4> HIDE DEF N, w
      <4>2. i - 1 \in 0..N /\ ~(i <= i - 1)
        BY ONLY <3>2, <3>3, <4>1
      <4> QED
        BY ONLY <3>1, <4>2, Zenon DEF apart
    <3>5. f[i] = f[i - 1] \o Decimal(n[i]) /\ w[i] = w[i - 1] \o Decimal(n[i])
      BY Zenon, <1>5, <1>6, <3>2, <3>3
    <3> QED
      BY Zenon, <3>2, <3>4, <3>5
  <2> QED
    BY Zenon, <2>1, <2>2
<1>7. (CHOOSE f : f = Turn(f)) = w
  <2> HIDE DEF w, Turn
  <2> QED
    BY Zenon, <1>5, <1>6
<1>8. WriteOut(n) = w[N]
  BY Zenon, <1>7 DEF WriteOut
<1>9. w[N] = d \o FillerText(t)
  BY <1>1, SubSeqFull, ConcatEmptySeq DEF FillerText
<1> QED
  BY Zenon, <1>8, <1>9

Nibble == 0..15

\* The two halves of an octet are what it was put together from.
LEMMA OctetNibbles ==
  ASSUME NEW l \in Nibble, NEW h \in Nibble
  PROVE  Low(Octet(l, h)) = l /\ High(Octet(l, h)) = h /\ Octet(l, h) \in 0..255
BY DEF Nibble, Low, High, Octet

(* convert_mcc_mnc and the reading of the PLMN in fgs_mobile_identity are  *)
(* inverse, for two and for three digits of MNC.                           *)
LEMMA PlmnRoundTrip ==
  ASSUME NEW c, NEW n, Convertible(c, n)
  PROVE  /\ PlmnNibbles(ConvertMccMnc(c, n)) = c \o n
         /\ ConvertMccMnc(c, n) \in [1..3 -> 0..255]
<1> DEFINE p == ConvertMccMnc(c, n)
<1>1. /\ c \in Seq(Digits) /\ n \in Seq(Digits) /\ Len(c) = 3 /\ Len(n) \in {2, 3}
      /\ c = <<c[1], c[2], c[3]>>
      /\ \A i \in 1..3 : c[i] \in Digits
      /\ \A i \in 1..Len(n) : n[i] \in Digits
  BY DEF Convertible
<1>2. \A i \in Digits : i \in Nibble /\ i # Filler
  BY DEF Digits, Nibble, Filler
<1>3. CASE Len(n) = 2
  <2>1. n = <<n[1], n[2]>>
    BY <1>1, <1>3
  <2> DEFINE d == c \o <<Filler>> \o n
  <2>2. /\ d[1] = c[1] /\ d[2] = c[2] /\ d[3] = c[3] /\ d[4] = Filler
        /\ d[5] = n[1] /\ d[6] = n[2]
    <3>1. c \in Seq(Nat) /\ n \in Seq(Nat) /\ <<Filler>> \in Seq(Nat)
      BY <1>1, SeqMonotonic DEF Digits, Filler
    <3> DEFINE cf == c \o <<Filler>>
    <3>2. /\ cf \in Seq(Nat) /\ Len(cf) = 4
          /\ cf[1] = c[1] /\ cf[2] = c[2] /\ cf[3] = c[3] /\ cf[4] = Filler
      <4>1. \A i \in 1..(Len(c) + Len(<<Filler>>)) :
               cf[i] = IF i <= Len(c) THEN c[i] ELSE <<Filler>>[i - Len(c)]
        BY Zenon, <3>1, ConcatProperties
      <4>2. cf \in Seq(Nat) /\ Len(cf) = Len(c) + Len(<<Filler>>)
        BY Zenon, <3>1, ConcatProperties
      <4> QED
        BY <1>1, <4>1, <4>2
    <3> HIDE DEF cf
    <3>3. /\ Len(cf \o n) = 6
          /\ \A i \in 1..6 : (cf \o n)[i] = IF i <= 4 THEN cf[i] ELSE n[i - 4]
      <4>1. \A i \in 1..(Len(cf) + Len(n)) :
               (cf \o n)[i] = IF i <= Len(cf) THEN cf[i] ELSE n[i - Len(cf)]
        BY Zenon, <3>1, <3>2, ConcatProperties
      <4>2. Len(cf \o n) = Len(cf) + Len(n)
        BY Zenon, <3>1, <3>2, ConcatProperties
      <4> QED
        BY SMTT(30), <1>3, <3>2, <4>1, <4>2
    <3> DEFINE g == cf \o n
    <3>4. \A i \in 1..6 : g[i] = IF i <= 4 THEN cf[i] ELSE n[i - 4]
      BY ONLY <3>3, Zenon DEF g
    <3> HIDE DEF g
    <3>5. /\ g[1] = c[1] /\ g[2] = c[2] /\ g[3] = c[3] /\ g[4] = Filler
          /\ g[5] = n[1] /\ g[6] = n[2]
      BY ONLY <3>2, <3>4
    <3> QED
      BY ONLY <3>5, Zenon DEF d, g, cf
  <2>3. p = [i \in 1..3 |-> Octet(d[2 * i - 1], d[2 * i])]
    BY Zenon, <1>3 DEF ConvertMccMnc
  <2> HIDE DEF d
  <2>4. /\ p[1] = Octet(c[1], c[2]) /\ p[2] = Octet(c[3], Filler) /\ p[3] = Octet(n[1], n[2])
        /\ p = [i \in 1..3 |-> p[i]]
    BY <2>2, <2>3
  <2>5. n[1] \in Digits /\ n[2] \in Digits /\ Filler \in Nibble
    BY <1>1, <1>3 DEF Filler, Nibble
  <2> HIDE DEF p
  <2>6. /\ Low(p[1]) = c[1] /\ High(p[1]) = c[2] /\ Low(p[2]) = c[3] /\ High(p[2]) = Filler
        /\ Low(p[3]) = n[1] /\ High(p[3]) = n[2] /\ \A i \in 1..3 : p[i] \in 0..255
    <3>1. \A i \in 1..3 : c[i] \in Nibble
      BY Zenon, <1>1, <1>2
    <3> QED
      BY <1>2, <2>4, <2>5, <3>1, OctetNibbles
  <2>7. PlmnNibbles(p) = <<c[1], c[2], c[3]>> \o <<>> \o <<n[1], n[2]>>
    BY Zenon, <2>6 DEF PlmnNibbles
  <2>8. c \o <<>> = c
    BY Zenon, <1>1, ConcatEmptySeq
  <2> QED
    BY Zenon, <1>1, <2>1, <2>4, <2>6, <2>7, <2>8 DEF p
<1>4. CASE Len(n) = 3
  <2>1. n = <<n[1], n[2], n[3]>>
    BY <1>1, <1>4
  <2> DEFINE d == c \o <<>> \o n
  <2>2. /\ d[1] = c[1] /\ d[2] = c[2] /\ d[3] = c[3] /\ d[4] = n[1]
        /\ d[5] = n[2] /\ d[6] = n[3]
    <3>1. c \in Seq(Nat) /\ n \in Seq(Nat) /\ <<>> \in Seq(Nat)
      BY <1>1, SeqMonotonic DEF Digits, Filler
    <3> DEFINE cf == c \o <<>>
    <3>2. /\ cf \in Seq(Nat) /\ Len(cf) = 3
          /\ cf[1] = c[1] /\ cf[2] = c[2] /\ cf[3] = c[3]
      <4>1. \A i \in 1..(Len(c) + Len(<<>>)) :
               cf[i] = IF i <= Len(c) THEN c[i] ELSE <<>>[i - Len(c)]
        BY Zenon, <3>1, ConcatProperties
      <4>2. cf \in Seq(Nat) /\ Len(cf) = Len(c) + Len(<<>>)
        BY Zenon, <3>1, ConcatProperties
      <4> QED
        BY <1>1, <4>1, <4>2
    <3> HIDE DEF cf
    <3>3. /\ Len(cf \o n) = 6
          /\ \A i \in 1..6 : (cf \o n)[i] = IF i <= 3 THEN cf[i] ELSE n[i - 3]
      <4>1. \A i \in 1..(Len(cf) + Len(n)) :
               (cf \o n)[i] = IF i <= Len(cf) THEN cf[i] ELSE n[i - Len(cf)]
        BY Zenon, <3>1, <3>2, ConcatProperties
      <4>2. Len(cf \o n) = Len(cf) + Len(n)
        BY Zenon, <3>1, <3>2, ConcatProperties
      <4> QED
        BY <1>4, <3>2, <4>1, <4>2
    <3> DEFINE g == cf \o n
    <3>4. \A i \in 1..6 : g[i] = IF i <= 3 THEN cf[i] ELSE n[i - 3]
      BY ONLY <3>3, Zenon DEF g
    <3> HIDE DEF g
    <3>5. /\ g[1] = c[1] /\ g[2] = c[2] /\ g[3] = c[3] /\ g[4] = n[1]
          /\ g[5] = n[2] /\ g[6] = n[3]
      BY ONLY <3>2, <3>4
    <3> QED
      BY ONLY <3>5, Zenon DEF d, g, cf
  <2>3. p = [i \in 1..3 |-> Octet(d[2 * i - 1], d[2 * i])]
    BY <1>4 DEF ConvertMccMnc
  <2> HIDE DEF d
  <2>4. /\ p[1] = Octet(c[1], c[2]) /\ p[2] = Octet(c[3], n[1]) /\ p[3] = Octet(n[2], n[3])
        /\ p = [i \in 1..3 |-> p[i]]
    BY <2>2, <2>3
  <2>5. n[1] \in Digits /\ n[2] \in Digits /\ n[3] \in Digits
    BY <1>1, <1>4
  <2> HIDE DEF p
  <2>6. /\ Low(p[1]) = c[1] /\ High(p[1]) = c[2] /\ Low(p[2]) = c[3] /\ High(p[2]) = n[1]
        /\ Low(p[3]) = n[2] /\ High(p[3]) = n[3] /\ \A i \in 1..3 : p[i] \in 0..255
    <3>1. \A i \in 1..3 : c[i] \in Nibble
      BY Zenon, <1>1, <1>2
    <3> QED
      BY <1>2, <2>4, <2>5, <3>1, OctetNibbles
  <2>7. PlmnNibbles(p) = <<c[1], c[2], c[3]>> \o <<n[1]>> \o <<n[2], n[3]>>
    BY Zenon, <1>2, <2>5, <2>6 DEF PlmnNibbles
  <2>8. c \o <<n[1]>> \o <<n[2], n[3]>> = c \o <<n[1], n[2], n[3]>>
    BY <1>1, <2>5
  <2> QED
    BY Zenon, <1>1, <2>1, <2>4, <2>6, <2>7, <2>8 DEF p
<1> QED
  BY Zenon, <1>1, <1>3, <1>4

\* The octets of a string of nibbles, as a UE sends them.
Packed(e) == [i \in 1..(Len(e) \div 2) |-> Octet(e[2 * i - 1], e[2 * i])]

\* The loop over the octets of the MSIN finds the nibbles they were made of.
LEMMA MsinRoundTrip ==
  ASSUME NEW e \in Seq(Nibble), Len(e) % 2 = 0
  PROVE  Packed(e) \in Seq(0..255) /\ MsinNibbles(Packed(e)) = e
<1> DEFINE k == Len(e) \div 2
<1>1. k \in Nat /\ Len(e) = 2 * k
  <2>1. Len(e) \in Nat
    OBVIOUS
  <2> QED
    BY <2>1
<1>2. \A i \in 1..k : 2 * i - 1 \in 1..Len(e) /\ 2 * i \in 1..Len(e)
  BY SMTT(30), <1>1
<1>3. \A i \in 1..k : /\ Low(Packed(e)[i]) = e[2 * i - 1] /\ High(Packed(e)[i]) = e[2 * i]
                      /\ Packed(e)[i] \in 0..255
  <2> TAKE i \in 1..k
  <2>1. e[2 * i - 1] \in Nibble /\ e[2 * i] \in Nibble
    BY Zenon, <1>2, ElementOfSeq
  <2>2. Packed(e)[i] = Octet(e[2 * i - 1], e[2 * i])
    BY Zenon DEF Packed
  <2> QED
    BY SMTT(30), <2>1, <2>2, OctetNibbles
<1>4. Packed(e) \in Seq(0..255) /\ Len(Packed(e)) = k
  BY SMTT(30), <1>1, <1>3 DEF Packed
<1> DEFINE m == MsinNibbles(Packed(e))
<1>5. \A i \in 1..(2 * k) : m[i] = e[i]
  <2> TAKE i \in 1..(2 * k)
  <2>1. CASE i % 2 = 1
    <3>1. (i + 1) \div 2 \in 1..k /\ 2 * ((i + 1) \div 2) - 1 = i
      BY <1>1, <2>1
    <3>2. m[i] = Low(Packed(e)[(i + 1) \div 2])
      BY Zenon, <1>4, <2>1 DEF MsinNibbles
    <3> QED
      BY Zenon, <1>3, <3>1, <3>2
  <2>2. CASE i % 2 # 1
    <3>1. i \div 2 \in 1..k /\ 2 * (i \div 2) = i
      BY <1>1, <2>2
    <3>2. m[i] = High(Packed(e)[i \div 2])
      BY Zenon, <1>4, <2>2 DEF MsinNibbles
    <3> QED
      BY Zenon, <1>3, <3>1, <3>2
  <2> QED
    BY Zenon, <2>1, <2>2
<1>6. m = [i \in 1..(2 * k) |-> m[i]] /\ e = [i \in 1..(2 * k) |-> e[i]]
  BY <1>1, <1>4 DEF MsinNibbles
<1> HIDE DEF m
<1>7. m = e
  BY Zenon, <1>5, <1>6
<1> QED
  BY Zenon, <1>4, <1>7 DEF m

\* Where fgs_mobile_identity finds the parts of the identity IE.
LEMMA IdentityParts ==
  ASSUME NEW octets \in [1..3 -> 0..255], NEW q \in Seq(0..255)
  PROVE  LET ie == <<1>> \o octets \o <<240, 255, 0, 0>> \o q
         IN  /\ Len(ie) = 8 + Len(q)
             /\ PlmnOf(ie) = octets
             /\ SubSeq(ie, 9, Len(ie)) = q
<1> DEFINE B == 0..255
           one == <<1>>
           scheme == <<240, 255, 0, 0>>
           a == one \o octets
           b == a \o scheme
           ie == b \o q
<1>1. /\ octets \in Seq(B) /\ Len(octets) = 3 /\ one \in Seq(B) /\ Len(one) = 1
      /\ scheme \in Seq(B) /\ Len(scheme) = 4 /\ q \in Seq(B) /\ Len(q) \in Nat
  <2>1. octets \in Seq(B) /\ Len(octets) = 3
    <3>1. octets \in Seq(B)
      <4>1. 3 \in Nat /\ octets \in [1..3 -> B]
        BY Zenon
      <4> HIDE DEF B
      <4>2. octets \in UNION {[1..n -> B] : n \in Nat}
        BY Zenon, <4>1
      <4>3. Seq(B) = UNION {[1..n -> B] : n \in Nat}
        BY SeqDef, Zenon
      <4> QED
        BY <4>2, <4>3, Zenon
    <3>2. 1..3 = 1..Len(octets) /\ Len(octets) \in Nat
      BY ZenonT(30), <3>1, LenProperties
    <3> QED
      BY <3>1, <3>2
  <2>2. scheme \in Seq(B) /\ Len(scheme) = 4
    OBVIOUS
  <2>3. one \in Seq(B) /\ Len(one) = 1
    OBVIOUS
  <2> QED
    BY <2>1, <2>2, <2>3
<1> HIDE DEF B, scheme, one
<1>2. /\ a \in Seq(B) /\ Len(a) = 4
      /\ \A i \in 1..4 : a[i] = IF i <= 1 THEN one[i] ELSE octets[i - 1]
  <2>1. /\ a \in Seq(B) /\ Len(a) = Len(one) + Len(octets)
        /\ \A i \in 1..(Len(one) + Len(octets)) :
              a[i] = IF i <= Len(one) THEN one[i] ELSE octets[i - Len(one)]
    BY ZenonT(30), <1>1, ConcatProperties
  <2> QED
    BY SMTT(30), <1>1, <2>1
<1> HIDE DEF a
<1>3. /\ b \in Seq(B) /\ Len(b) = 8
      /\ \A i \in 1..4 : b[i] = a[i]
  <2>1. /\ b \in Seq(B) /\ Len(b) = Len(a) + Len(scheme)
        /\ \A i \in 1..(Len(a) + Len(scheme)) :
              b[i] = IF i <= Len(a) THEN a[i] ELSE scheme[i - Len(a)]
    BY ZenonT(30), <1>1, <1>2, ConcatProperties
  <2> QED
    BY <1>1, <1>2, <2>1
<1> HIDE DEF b
<1>4. /\ ie \in Seq(B) /\ Len(ie) = 8 + Len(q)
      /\ \A i \in 1..(8 + Len(q)) : ie[i] = IF i <= 8 THEN b[i] ELSE q[i - 8]
  <2>1. /\ ie \in Seq(B) /\ Len(ie) = Len(b) + Len(q)
        /\ \A i \in 1..(Len(b) + Len(q)) : ie[i] = IF i <= Len(b) THEN b[i] ELSE q[i - Len(b)]
    <3>1. b \in Seq(B) /\ q \in Seq(B)
      BY Zenon, <1>1, <1>3
    <3> QED
      BY ONLY <3>1, ConcatProperties
  <2> QED
    BY Zenon, <1>3, <2>1
<1> HIDE DEF ie
<1>5. Len(q) \in Nat
  BY Zenon, <1>1
<1>6. PlmnOf(ie) = octets
  <2>1. \A i \in 2..4 : ie[i] = octets[i - 1] /\ ie[i] \in B
    BY SMTT(30), <1>1, <1>2, <1>3, <1>4, <1>5
  <2>2. /\ PlmnOf(ie) \in Seq(B) /\ Len(PlmnOf(ie)) = 3
        /\ \A i \in 1..3 : PlmnOf(ie)[i] = ie[i + 1]
    BY <2>1, SubSeqProperties DEF PlmnOf
  <2>3. \A i \in 1..3 : PlmnOf(ie)[i] = octets[i]
    BY <2>1, <2>2
  <2> QED
    BY SMTT(30), <1>1, <2>2, <2>3, SeqEqual
<1>7. SubSeq(ie, 9, Len(ie)) = q
  <2> DEFINE r == SubSeq(ie, 9, Len(ie))
  <2>1. \A i \in 9..Len(ie) : ie[i] \in B
    BY SMTT(30), <1>4, <1>5, ElementOfSeq
  <2>2. /\ r \in Seq(B) /\ Len(r) = IF 9 <= Len(ie) THEN Len(ie) - 9 + 1 ELSE 0
        /\ \A i \in 1..(Len(ie) - 9 + 1) : r[i] = ie[9 + i - 1]
    BY <1>4, <1>5, <2>1, SubSeqProperties
  <2> HIDE DEF r
  <2>3. Len(r) = Len(q) /\ \A i \in 1..Len(q) : r[i] = ie[i + 8]
    BY <1>4, <1>5, <2>2
  <2>4. \A i \in 1..Len(q) : r[i] = q[i]
    BY SMTT(30), <1>4, <1>5, <2>3
  <2> QED
    BY SMTT(30), <2>2, <2>3, <2>4, SeqEqual DEF r
<1> QED
  BY Zenon, <1>4, <1>6, <1>7 DEF ie, b, a, scheme, one

Padding(digits) == IF Len(digits) % 2 = 0 THEN <<>> ELSE <<Filler>>

\* The text of an IMSI: the filler of an odd MSIN is written out too.
Subscribed(c, n, digits) ==
  c \o n \o digits \o (IF Len(digits) % 2 = 0 THEN <<>> ELSE <<1, 5>>)

(* The IMSI of one identity IE: with the operator's PLMN in it, the MCC,   *)
(* the MNC and the MSIN.                                                   *)
LEMMA SubscriberImsi ==
  ASSUME NEW c, NEW n, Convertible(c, n), NEW digits \in Seq(Digits),
         NEW octets \in [1..3 -> 0..255]
  PROVE  /\ PlmnOf(IdentityIe(octets, digits)) = octets
         /\ octets = ConvertMccMnc(c, n) =>
              FgsMobileIdentity(IdentityIe(octets, digits)) =
                 Subscribed(c, n, digits)
<1> DEFINE even == digits \o Padding(digits)
           ie == IdentityIe(octets, digits)
<1>1. digits \in Seq(Nibble) /\ Padding(digits) \in Seq(Nibble)
  <2>1. Digits \subseteq Nibble
    BY DEF Digits, Nibble
  <2>2. Padding(digits) \in Seq(Nibble)
    <3>1. <<>> \in Seq(Nibble) /\ <<15>> \in Seq(Nibble)
      BY DEF Nibble
    <3> QED
      BY Zenon, <3>1 DEF Padding, Filler
  <2> QED
    BY Zenon, <2>1, <2>2, SeqMonotonic
<1>2. even \in Seq(Nibble) /\ Len(even) % 2 = 0
  <2>1. even \in Seq(Nibble) /\ Len(even) = Len(digits) + Len(Padding(digits))
    BY Zenon, <1>1, ConcatProperties
  <2>2. Len(digits) \in Nat /\ Len(Padding(digits)) = IF Len(digits) % 2 = 0 THEN 0 ELSE 1
    BY DEF Padding
  <2> DEFINE l == Len(digits)
  <2>3. l \in Nat => IF l % 2 = 0 THEN (l + 0) % 2 = 0 ELSE (l + 1) % 2 = 0
    <3> HIDE DEF l
    <3> QED
      OBVIOUS
  <2> QED
    BY Zenon, <2>1, <2>2, <2>3
<1>3. ie = <<1>> \o octets \o <<240, 255, 0, 0>> \o Packed(even)
  <2>1. even = IF Len(digits) % 2 = 0 THEN digits ELSE Append(digits, Filler)
    <3>1. CASE Len(digits) % 2 = 0
      <4>1. digits \o <<>> = digits
        BY Zenon, ConcatEmptySeq
      <4> QED
        BY ONLY <3>1, <4>1, Zenon DEF even, Padding
    <3>2. CASE Len(digits) % 2 # 0
      <4>1. Append(digits, Filler) = digits \o <<Filler>>
        BY <1>1, AppendIsConcat DEF Filler, Nibble
      <4> QED
        BY ONLY <3>2, <4>1, Zenon DEF even, Padding
    <3> QED
      BY Zenon, <3>1, <3>2
  <2> HIDE DEF even
  <2> QED
    BY ZenonT(30), <2>1 DEF IdentityIe, Packed
<1> HIDE DEF ie, even
<1>4. Packed(even) \in Seq(0..255) /\ MsinNibbles(Packed(even)) = even
  BY Zenon, <1>2, MsinRoundTrip
<1>5. PlmnOf(ie) = octets /\ SubSeq(ie, 9, Len(ie)) = Packed(even)
  BY <1>3, <1>4, IdentityParts
<1>6. ASSUME octets = ConvertMccMnc(c, n)
      PROVE  FgsMobileIdentity(ie) =
                Subscribed(c, n, digits)
  <2>1. FgsMobileIdentity(ie) = WriteOut((c \o n) \o even)
    <3>1. PlmnNibbles(PlmnOf(ie)) = c \o n
      BY Zenon, <1>5, <1>6, PlmnRoundTrip
    <3>2. MsinNibbles(SubSeq(ie, 9, Len(ie))) = even
      BY Zenon, <1>4, <1>5
    <3> QED
      BY Zenon, <3>1, <3>2 DEF FgsMobileIdentity
  <2>2. c \in Seq(Digits) /\ n \in Seq(Digits)
    BY Zenon DEF Convertible
  <2>3. c \o n \in Seq(Digits) /\ (c \o n) \o digits \in Seq(Digits)
    BY Zenon, <2>2, ConcatProperties
  <2>4. (c \o n) \o even = ((c \o n) \o digits) \o Padding(digits)
    <3>1. c \o n \in Seq(Nibble)
      BY <2>3, SeqMonotonic DEF Digits, Nibble
    <3> DEFINE cn == c \o n
    <3> HIDE DEF cn
    <3>2. cn \in Seq(Nibble)
      BY Zenon, <3>1 DEF cn
    <3>3. cn \o (digits \o Padding(digits)) = (cn \o digits) \o Padding(digits)
      BY SMTT(30), <1>1, <3>2, ConcatAssociative
    <3> QED
      BY Zenon, <3>3 DEF even, cn
  <2>5. Padding(digits) \in {<<>>, <<Filler>>}
    BY Zenon DEF Padding
  <2>6. WriteOut(((c \o n) \o digits) \o Padding(digits))
          = ((c \o n) \o digits) \o FillerText(Padding(digits))
    BY Zenon, <2>3, <2>5, WriteOutOfDigits
  <2>7. FillerText(Padding(digits)) = IF Len(digits) % 2 = 0 THEN <<>> ELSE <<1, 5>>
    BY Zenon DEF FillerText, Padding
  <2> QED
    BY Zenon, <2>1, <2>4, <2>6, <2>7 DEF Subscribed
<1> QED
  BY Zenon, <1>5, <1>6 DEF ie

\* The PLMN compared with is the one convert_mcc_mnc made of the arguments.
IdentityInv ==
  /\ process = "serving" => Convertible(mcc, mnc) /\ plmn = ConvertMccMnc(mcc, mnc)
  /\ verdict # "" => process = "serving"
  /\ ImsiIsTheSubscribers

(* For every MCC, every MNC of two or three digits, every MSIN of an even  *)
(* number of digits and whatever PLMN a UE sends, the IMSI a SIM is looked *)
(* up by is the MCC, the MNC and the MSIN (fgs_mobile_identity,            *)
(* convert_mcc_mnc).                                                       *)
THEOREM IdentityCorrect == IdentitySpec => []ImsiIsTheSubscribers
<1>1. IdentityInit => IdentityInv
  BY Zenon DEF IdentityInit, IdentityInv, ImsiIsTheSubscribers
<1>2. IdentityInv /\ [IdentityNext]_identityVars => IdentityInv'
  <2> SUFFICES ASSUME IdentityInv, [IdentityNext]_identityVars PROVE IdentityInv'
    BY Zenon
  <2>1. CASE Start
    BY Zenon, <2>1 DEF Start, IdentityInv, ImsiIsTheSubscribers
  <2>2. CASE Register
    <3>1. PICK octets \in PlmnOctets \cup {plmn}, digits \in Msins :
             LET ie == IdentityIe(octets, digits)
             IN  /\ msin' = digits
                 /\ IF Acceptable(ie) /\ PlmnOf(ie) = plmn
                    THEN verdict' = "looked up" /\ imsi' = FgsMobileIdentity(ie)
                    ELSE verdict' = "refused" /\ UNCHANGED imsi
      BY Zenon, <2>2 DEF Register
    <3>2. /\ process = "serving" /\ Convertible(mcc, mnc) /\ plmn = ConvertMccMnc(mcc, mnc)
          /\ UNCHANGED <<process, mcc, mnc, plmn>>
      BY Zenon, <2>2 DEF Register, IdentityInv
    <3>3. octets \in [1..3 -> 0..255] /\ digits \in Seq(Digits)
      BY SMTT(30), <3>2, IdentityInputs, PlmnRoundTrip
    <3>4. verdict' = "looked up" =>
             imsi' = Subscribed(mcc, mnc, digits)
      <4> DEFINE ie == IdentityIe(octets, digits)
      <4>1. /\ PlmnOf(ie) = octets
            /\ octets = plmn =>
                 FgsMobileIdentity(ie) =
                    Subscribed(mcc, mnc, digits)
        <5>1. Convertible(mcc, mnc)
          BY Zenon, <3>2
        <5>2. /\ PlmnOf(ie) = octets
              /\ octets = ConvertMccMnc(mcc, mnc) =>
                   FgsMobileIdentity(ie) =
                      Subscribed(mcc, mnc, digits)
          BY ONLY <3>3, <5>1, SubscriberImsi, Zenon DEF ie
        <5> QED
          BY ONLY <3>2, <5>2, Zenon
      <4>2. verdict' = "looked up" => PlmnOf(ie) = plmn /\ imsi' = FgsMobileIdentity(ie)
        BY Zenon, <3>1
      <4> HIDE DEF ie
      <4> QED
        BY Zenon, <4>1, <4>2
    <3>5. Len(digits) % 2 = 0 => Subscribed(mcc, mnc, digits) = mcc \o mnc \o digits
      <4>1. mcc \o mnc \o digits \in Seq(Digits)
        BY Zenon, <3>2, <3>3, ConcatProperties DEF Convertible
      <4> DEFINE plain == mcc \o mnc \o digits
      <4>2. plain \o <<>> = plain
        <5> HIDE DEF plain
        <5> QED
          BY Zenon, <4>1, ConcatEmptySeq DEF plain
      <4> QED
        BY Zenon, <4>2 DEF Subscribed
    <3> QED
      BY Zenon, <3>1, <3>2, <3>4, <3>5 DEF IdentityInv, ImsiIsTheSubscribers
  <2>3. CASE UNCHANGED identityVars
    BY Zenon, <2>3 DEF identityVars, IdentityInv, ImsiIsTheSubscribers
  <2> QED
    BY Zenon, <2>1, <2>2, <2>3 DEF IdentityNext
<1>3. IdentityInv => ImsiIsTheSubscribers
  BY Zenon DEF IdentityInv
<1> QED
  BY <1>1, <1>2, <1>3, PTL DEF IdentitySpec

-----------------------------------------------------------------------------
(* F1apProcedures                                                          *)

\* The octets of a procedure's messages.
RequestOf(p) == IntoBytes("InitiatingMessage", Proc(p).request)
SuccessOf(p) == IntoBytes("SuccessfulOutcome", Proc(p).answer)
FailureOf(p) == IntoBytes("UnsuccessfulOutcome", Proc(p).failure)

ProcTypeOK ==
  /\ running \in [proc : Procs, from : Ends]
  /\ outstanding \in [Ends -> Seq(Answerable)]
  /\ stage \in {"start", "requested", "routing", "replied", "matched", "taken", "unanswered"}

\* While the reply is awaited, the request is pending where it was sent.
Pending ==
  stage \in {"requested", "routing", "replied"} /\ running.proc \in Answerable =>
     running.proc \in In(outstanding[running.from])

\* What is on the wire is the running procedure's.
OnTheWire ==
  /\ stage \in {"requested", "routing"} => message = RequestOf(running.proc)
  /\ stage \in {"replied", "matched"} =>
        /\ running.proc \in Answerable
        /\ \/ meant = "success" /\ message = SuccessOf(running.proc)
           \/ /\ meant = "failure" /\ message = FailureOf(running.proc)
              /\ Proc(running.proc).failure # ""

\* The position found is still that of a request of the procedure: requests
\* that came in since are behind it.
Found ==
  stage = "matched" =>
     index \in 1..Len(outstanding[running.from])
     /\ outstanding[running.from][index] = running.proc

\* The inductive invariant.
ProcInv ==
  ProcTypeOK /\ Pending /\ OnTheWire /\ Found /\ ReplyReachesItsRequest /\ ServedIsAnswered

\* The assumptions on the tables, in these terms.
LEMMA Decodes ==
  /\ \A p \in Procs : RequestOf(p).top = 0
                      /\ FromBytes(RequestOf(p)) = {<<"InitiatingMessage", Proc(p).request>>}
  /\ \A p \in Answerable :
        /\ SuccessOf(p).top # 0 /\ SuccessOf(p).code = Proc(p).code
        /\ FromBytes(SuccessOf(p)) = {<<"SuccessfulOutcome", Proc(p).success>>}
        /\ Proc(p).failure # "" =>
              /\ FailureOf(p).top # 0 /\ FailureOf(p).code = Proc(p).code
              /\ FromBytes(FailureOf(p)) = {<<"UnsuccessfulOutcome", Proc(p).failure>>}
BY RequestsDecode, RepliesDecode, Zenon DEF RequestOf, SuccessOf, FailureOf

\* A request is routed to its own procedure, if to any.
LEMMA RoutesToItself ==
  ASSUME NEW p \in Procs, NEW end \in Ends, NEW q \in Routes(end, Proc(p).request)
  PROVE  q = p
<1>1. CASE end = "cu"
  <2>1. PICK v \in DOMAIN CuRoutes \cap {Proc(p).request} : q = CuRoutes[v]
    BY Zenon, <1>1 DEF Routes
  <2>2. q \in Procs /\ Proc(q).request = Proc(p).request
    BY Zenon, <2>1, ProceduresDistinct
  <2> QED
    BY Zenon, <2>2, ProceduresDistinct
<1>2. CASE end # "cu"
  <2>1. q \in Procs /\ Proc(q).request = Proc(p).request
    BY Zenon, <1>2 DEF Routes
  <2> QED
    BY Zenon, <2>1, ProceduresDistinct
<1> QED
  BY Zenon, <1>1, <1>2

\* A procedure the receiver is a RequestProvider of has a route.
LEMMA ServedRoutes ==
  ASSUME NEW p \in Procs, NEW end \in Ends, end = "cu" => p \in CuProvides
  PROVE  p \in Routes(end, Proc(p).request)
<1>1. CASE end = "cu"
  <2>1. Proc(p).request \in DOMAIN CuRoutes
    BY Zenon, <1>1, ProceduresDistinct
  <2>2. CuRoutes[Proc(p).request] \in Procs
        /\ Proc(CuRoutes[Proc(p).request]).request = Proc(p).request
    BY Zenon, <2>1, ProceduresDistinct
  <2>3. CuRoutes[Proc(p).request] = p
    BY Zenon, <2>2, ProceduresDistinct
  <2> QED
    BY Zenon, <1>1, <2>1, <2>3 DEF Routes
<1>2. CASE end # "cu"
  BY Zenon, <1>2 DEF Routes
<1> QED
  BY Zenon, <1>1, <1>2

\* What swap_remove leaves.
LEMMA SwapRemoveType ==
  ASSUME NEW T, NEW s \in Seq(T), NEW i \in 1..Len(s)
  PROVE  SwapRemove(s, i) \in Seq(T)
<1>1. Len(s) \in Nat /\ Len(s) >= 1
  OBVIOUS
<1>2. \A j \in 1..(Len(s) - 1) : (IF j = i THEN s[Len(s)] ELSE s[j]) \in T
  BY <1>1
<1> QED
  BY <1>1, <1>2 DEF SwapRemove

LEMMA ProcInitially == ProcInit => ProcInv
<1> SUFFICES ASSUME ProcInit PROVE ProcInv
  BY Zenon
<1>1. <<>> \in Seq(Answerable)
  BY Zenon, EmptySeq
<1>2. ProcTypeOK
  BY Zenon, <1>1 DEF ProcInit, ProcTypeOK
<1> QED
  BY Zenon, <1>2 DEF ProcInit, ProcInv, Pending, OnTheWire, Found, ReplyReachesItsRequest, ServedIsAnswered

(* handle_message finds a pending request of the running procedure for its *)
(* reply.                                                                  *)
LEMMA ReplyFound ==
  ASSUME ProcInv, FindPending
  PROVE  /\ stage' = "matched" /\ UNCHANGED <<running, outstanding, message, meant, taken>>
         /\ index' \in 1..Len(outstanding[running.from])
         /\ outstanding[running.from][index'] = running.proc
<1> USE DEF ProcInv
<1> DEFINE p == running.proc
           from == running.from
<1>a. p \in Procs /\ from \in Ends /\ outstanding[from] \in Seq(Answerable)
      /\ Answerable \subseteq Procs
  BY Zenon DEF ProcTypeOK, Ends, Answerable
<1> DEFINE M == Matching(from)
<1>1. stage = "replied" /\ p \in Answerable
  BY Zenon DEF FindPending, OnTheWire
<1>2. message.top # 0 /\ message.code = Proc(p).code
  BY Zenon, <1>1, Decodes DEF OnTheWire
<1>3. M = {i \in DOMAIN outstanding[from] : outstanding[from][i] = p}
  <2>1. \A i \in DOMAIN outstanding[from] : outstanding[from][i] \in Procs
    BY <1>a
  <2>2. \A i \in DOMAIN outstanding[from] :
           MatchFn(outstanding[from][i], message) <=> outstanding[from][i] = p
    BY <1>a, <1>2, <2>1, ProceduresDistinct DEF MatchFn
  <2> QED
    BY Zenon, <2>2 DEF Matching
<1>4. M # {} /\ M \subseteq Nat
  <2>1. p \in In(outstanding[from])
    BY Zenon, <1>1 DEF Pending
  <2>2. DOMAIN outstanding[from] \subseteq Nat
    BY <1>a
  <2> QED
    BY Zenon, <1>3, <2>1, <2>2 DEF In
<1>5. FirstMatch(from) \in M
  <2>1. \E i \in M : \A j \in M : i <= j
    BY Zenon, <1>4, LeastElement
  <2> QED
    BY Zenon, <2>1 DEF FirstMatch
<1>6. /\ index' = FirstMatch(from) /\ stage' = "matched"
      /\ UNCHANGED <<running, outstanding, message, meant, taken>>
  BY Zenon, <1>4 DEF FindPending
<1>7. FirstMatch(from) \in 1..Len(outstanding[from])
  BY Zenon, <1>a, <1>3, <1>5, LenProperties
<1> QED
  BY Zenon, <1>3, <1>5, <1>6, <1>7

\* The request takes it for what was meant.
LEMMA ReplyTaken ==
  ASSUME ProcInv, TakePending
  PROVE  taken' = [by |-> running.proc, as |-> meant]
<1> USE DEF ProcInv
<1> DEFINE p == running.proc
<1>1. stage = "matched" /\ p \in Answerable
  BY Zenon DEF TakePending, OnTheWire
<1>2. DecodeResponse(p, message) = meant
  <2>1. CASE meant = "success" /\ message = SuccessOf(p)
    <3>1. FromBytes(message) = {<<"SuccessfulOutcome", Proc(p).success>>}
      BY Zenon, <1>1, <2>1, Decodes
    <3> QED
      BY Zenon, <2>1, <3>1 DEF DecodeResponse
  <2>2. CASE meant = "failure" /\ message = FailureOf(p) /\ Proc(p).failure # ""
    <3>1. FromBytes(message) = {<<"UnsuccessfulOutcome", Proc(p).failure>>}
      BY Zenon, <1>1, <2>2, Decodes
    <3>2. <<"SuccessfulOutcome", Proc(p).success>> \notin FromBytes(message)
      BY Zenon, <3>1
    <3> QED
      BY Zenon, <2>2, <3>1, <3>2 DEF DecodeResponse
  <2> QED
    BY Zenon, <1>1, <2>1, <2>2 DEF OnTheWire
<1>3. outstanding[running.from][index] = p
  BY Zenon, <1>1 DEF Found
<1> QED
  BY Zenon, <1>2, <1>3 DEF TakePending

(* Every action keeps the invariant.  The one that matters is the reply:   *)
(* the first pending request that matches it is one of the running         *)
(* procedure, since no other procedure has its code.                       *)
LEMMA ProcPreserved == ProcInv /\ [ProcNext]_procVars => ProcInv'
<1> SUFFICES ASSUME ProcInv, [ProcNext]_procVars PROVE ProcInv'
  BY Zenon
<1> USE DEF ProcInv
<1> DEFINE p == running.proc
           from == running.from
<1>0. p \in Procs /\ from \in Ends /\ Peer \in Ends /\ Peer # from
      /\ outstanding[from] \in Seq(Answerable) /\ Answerable \subseteq Procs
  BY Zenon DEF ProcTypeOK, Ends, Peer, Other, Answerable
<1>1. CASE Request
  <2>1. outstanding' = IF p \notin Answerable THEN outstanding
                       ELSE [outstanding EXCEPT ![from] = Append(@, p)]
    BY Zenon, <1>1 DEF Request
  <2>2. outstanding' \in [Ends -> Seq(Answerable)]
    BY Zenon, <1>0, <2>1, AppendProperties DEF ProcTypeOK
  <2>3. p \in Answerable => p \in In(outstanding'[from])
    <3> SUFFICES ASSUME p \in Answerable PROVE p \in In(outstanding'[from])
      BY Zenon
    <3> DEFINE older == outstanding[from]
    <3>1. outstanding'[from] = Append(older, p)
      BY Zenon, <1>0, <2>1 DEF ProcTypeOK
    <3>2. Append(older, p) \in Seq(Answerable) /\ Append(older, p)[Len(older) + 1] = p
          /\ Len(Append(older, p)) = Len(older) + 1 /\ Len(older) \in Nat
      BY <1>0, AppendProperties
    <3>3. Len(older) + 1 \in DOMAIN Append(older, p)
      BY <3>2, LenProperties
    <3> QED
      BY Zenon, <3>1, <3>2, <3>3 DEF In
  <2> QED
    BY Zenon, <1>1, <2>2, <2>3
       DEF Request, ProcTypeOK, Pending, OnTheWire, Found, RequestOf, ReplyReachesItsRequest,
           ServedIsAnswered
<1>2. CASE HandleRequest
  <2>1. message = RequestOf(p)
    BY ZenonT(30), <1>2 DEF HandleRequest, OnTheWire
  <2>2. Matching(Peer) = {}
    BY Zenon, <1>0, <2>1, Decodes DEF Matching, MatchFn
  <2>3. FromBytes(message) # {}
    BY Zenon, <1>0, <2>1, Decodes
  <2>4. stage' = "routing"
    BY Zenon, <1>2, <2>2, <2>3 DEF HandleRequest
  <2> QED
    BY Zenon, <1>2, <2>4
       DEF HandleRequest, ProcTypeOK, Pending, OnTheWire, Found, ReplyReachesItsRequest, ServedIsAnswered
<1>3. CASE Answer
  <2>1. PICK routed \in FromBytes(message), q \in Answerable :
           /\ q \in Routes(Peer, routed[2])
           /\ Reply("SuccessfulOutcome", Proc(q).answer, "success")
    BY Zenon, <1>3 DEF Answer
  <2>2. stage = "routing" /\ message = RequestOf(p)
    BY Zenon, <1>3 DEF Answer, OnTheWire
  <2>3. routed[2] = Proc(p).request
    <3>1. routed = <<"InitiatingMessage", Proc(p).request>>
      BY Zenon, <1>0, <2>1, <2>2, Decodes
    <3> QED
      BY Zenon, <3>1
  <2>4. q = p
    BY Zenon, <1>0, <2>1, <2>3, RoutesToItself
  <2> QED
    BY Zenon, <2>1, <2>2, <2>4
       DEF Reply, ProcTypeOK, Pending, OnTheWire, Found, SuccessOf, ReplyReachesItsRequest,
       ServedIsAnswered
<1>4. CASE Refuse
  <2>1. PICK routed \in FromBytes(message), q \in Answerable :
           /\ q \in Routes("du", routed[2]) /\ Proc(q).failure # ""
           /\ Reply("UnsuccessfulOutcome", Proc(q).failure, "failure")
    BY Zenon, <1>4 DEF Refuse
  <2>2. stage = "routing" /\ message = RequestOf(p)
    BY Zenon, <1>4 DEF Refuse, OnTheWire
  <2>3. routed[2] = Proc(p).request
    <3>1. routed = <<"InitiatingMessage", Proc(p).request>>
      BY ZenonT(30), <1>0, <2>1, <2>2, Decodes
    <3> QED
      BY Zenon, <3>1
  <2>4. q = p
    BY Zenon, <1>0, <2>1, <2>3, RoutesToItself DEF Ends
  <2> QED
    BY Zenon, <2>1, <2>2, <2>4
       DEF Reply, ProcTypeOK, Pending, OnTheWire, Found, FailureOf, ReplyReachesItsRequest,
       ServedIsAnswered
<1>5. CASE NoAnswer
  <2>1. stage = "routing" /\ message = RequestOf(p)
    BY Zenon, <1>5 DEF NoAnswer, OnTheWire
  <2>2. Routes(Peer, Proc(p).request) \cap Answerable = {}
    <3>1. <<"InitiatingMessage", Proc(p).request>> \in FromBytes(message)
      BY Zenon, <1>0, <2>1, Decodes
    <3> QED
      BY Zenon, <1>5, <3>1 DEF NoAnswer
  <2>3. p \notin Answerable \/ (Peer = "cu" /\ p \notin CuProvides)
    BY Zenon, <1>0, <2>2, ServedRoutes
  <2> QED
    BY Zenon, <1>5, <2>3
       DEF NoAnswer, ProcTypeOK, Pending, OnTheWire, Found, ReplyReachesItsRequest, ServedIsAnswered,
           Peer
<1>6. CASE FindPending
  <2>1. /\ stage' = "matched" /\ UNCHANGED <<running, outstanding, message, meant, taken>>
        /\ index' \in 1..Len(outstanding[from]) /\ outstanding[from][index'] = p
    BY Zenon, <1>6, ReplyFound
  <2>2. stage = "replied"
    BY Zenon, <1>6 DEF FindPending
  <2> QED
    BY Zenon, <2>1, <2>2
       DEF ProcTypeOK, Pending, OnTheWire, Found, ReplyReachesItsRequest, ServedIsAnswered
<1>9. CASE TakePending
  <2>1. /\ taken' = [by |-> p, as |-> meant] /\ stage' = "taken"
        /\ outstanding' = [outstanding EXCEPT ![from] = SwapRemove(@, index)]
        /\ UNCHANGED <<running, message, meant>>
    BY Zenon, <1>9, ReplyTaken DEF TakePending
  <2>2. ProcTypeOK'
    <3>1. SwapRemove(outstanding[from], index) \in Seq(Answerable)
      BY Zenon, <1>0, <1>9, SwapRemoveType DEF TakePending, Found
    <3> QED
      BY Zenon, <1>0, <2>1, <3>1 DEF ProcTypeOK
  <2> QED
    BY Zenon, <2>1, <2>2 DEF Pending, OnTheWire, Found, ReplyReachesItsRequest, ServedIsAnswered
<1>7. CASE OtherRequest
  <2>1. PICK end \in Ends, q \in OtherProcs :
           outstanding' = [outstanding EXCEPT ![end] = Append(@, q)]
    BY Zenon, <1>7 DEF OtherRequest
  <2> DEFINE before == outstanding[end]
  <2>2. before \in Seq(Answerable) /\ q \in Answerable
    BY Zenon, OthersAnswerable DEF ProcTypeOK
  <2>3. /\ Append(before, q) \in Seq(Answerable) /\ In(before) \subseteq In(Append(before, q))
        /\ \A j \in 1..Len(before) : /\ j \in 1..Len(Append(before, q))
                                      /\ Append(before, q)[j] = before[j]
    <3>1. /\ Append(before, q) \in Seq(Answerable) /\ Len(Append(before, q)) = Len(before) + 1
          /\ \A j \in 1..Len(before) : Append(before, q)[j] = before[j]
          /\ Len(before) \in Nat
      BY <2>2, AppendProperties
    <3>2. DOMAIN before = 1..Len(before) /\ DOMAIN Append(before, q) = 1..(Len(before) + 1)
      BY Zenon, <2>2, <3>1, LenProperties
    <3> DEFINE after == Append(before, q)
    <3> HIDE DEF after
    <3>3. In(before) \subseteq In(after)
      <4>1. \A j \in DOMAIN before : j \in DOMAIN after /\ before[j] = after[j]
        BY <3>1, <3>2 DEF after
      <4> QED
        BY ONLY <4>1, Zenon DEF In
    <3>4. \A j \in 1..Len(before) : j \in 1..Len(after) /\ after[j] = before[j]
      BY <3>1 DEF after
    <3> QED
      BY Zenon, <3>1, <3>3, <3>4 DEF after
  <2>4. /\ outstanding' \in [Ends -> Seq(Answerable)]
        /\ \A e \in Ends : /\ In(outstanding[e]) \subseteq In(outstanding'[e])
                           /\ \A j \in 1..Len(outstanding[e]) :
                                 /\ j \in 1..Len(outstanding'[e])
                                 /\ outstanding'[e][j] = outstanding[e][j]
    <3>1. outstanding \in [Ends -> Seq(Answerable)]
      BY Zenon DEF ProcTypeOK
    <3>2. \A e \in Ends : outstanding'[e] = IF e = end THEN Append(before, q) ELSE outstanding[e]
      BY Zenon, <2>1, <3>1
    <3> QED
      BY Zenon, <2>1, <2>3, <3>1, <3>2
  <2>5. Found'
    BY Zenon, <1>0, <1>7, <2>4 DEF OtherRequest, Found
  <2> QED
    BY Zenon, <1>0, <1>7, <2>4, <2>5
       DEF OtherRequest, ProcTypeOK, Pending, OnTheWire, Found, ReplyReachesItsRequest, ServedIsAnswered
<1>8. CASE UNCHANGED procVars
  BY Zenon, <1>8 DEF procVars, ProcTypeOK, Pending, OnTheWire, Found, ReplyReachesItsRequest,
     ServedIsAnswered, Peer
<1> QED
  BY Zenon, <1>1, <1>2, <1>3, <1>4, <1>5, <1>6, <1>7, <1>8, <1>9 DEF ProcNext

(* For any requests outstanding at either end, a request is never mistaken *)
(* for a reply, and its reply is taken by a request of its procedure and   *)
(* as the outcome it is (Stack::request, handle_message, top_pdu.rs).      *)
THEOREM RepliesReachTheirRequests == ProcSpec => []ReplyReachesItsRequest
<1>1. ProcInv => ReplyReachesItsRequest
  BY Zenon DEF ProcInv
<1> QED
  BY ProcInitially, ProcPreserved, <1>1, PTL DEF ProcSpec

(* For any requests outstanding, the CU answers every request of the       *)
(* procedures it is a RequestProvider of (F1apCu::route_request).          *)
THEOREM ServedAreAnswered == ProcSpec => []ServedIsAnswered
<1>1. ProcInv => ServedIsAnswered
  BY Zenon DEF ProcInv
<1> QED
  BY ProcInitially, ProcPreserved, <1>1, PTL DEF ProcSpec

-----------------------------------------------------------------------------
(* UplinkHeader: the walk over the headers stays inside the packet.        *)

Stages == {"receive", "type", "extension", "spinning", "pdcp", "sdap",
           "version", "teid", "dropped", "written"}

UplinkTypeOK ==
  /\ at \in Stages /\ bytes_read \in Nat /\ offset \in Nat /\ furthest \in Nat
  /\ header \in {"base", "extended"} /\ skipped \in Seq(SkipOctets)

\* With twelve octets of GTP header and no extension the length is checked
\* only as if there were eight.
Unextended == header = "extended" /\ skipped = <<>>

\* done: how much of the inner headers offset has passed.
RoomAfter(done) ==
  bytes_read + done >= offset + InnerHeaders - (IF Unextended THEN 4 ELSE 0)

\* What has been checked of the length, stage by stage.
Room ==
  /\ at = "type" =>
        bytes_read >= 31 /\ offset = 0 /\ header = "base" /\ skipped = <<>>
  /\ at = "extension" => header = "extended" /\ offset >= 12 /\ RoomAfter(0)
  /\ at = "pdcp" => offset >= 8 /\ RoomAfter(0)
  /\ at = "sdap" => offset >= 10 /\ RoomAfter(2)
  /\ at \in {"version", "teid", "written"} => offset >= 11 /\ RoomAfter(3)

Fresh == at = "receive" => bytes_read = 0 /\ offset = 0 /\ furthest = 0
                           /\ header = "base" /\ skipped = <<>>

UplinkInv == UplinkTypeOK /\ Room /\ Fresh /\ LooksInsidePacket

-----------------------------------------------------------------------------
USE DEF GTP_BASE_HEADER_LEN, GTP_EXTENDED_HEADER_LEN, PDCP_HEADER_LEN, SDAP_HEADER_LEN,
        IPV4_HEADER_LEN, InnerHeaders

LEMMA UplinkInitially == UplinkInit => UplinkInv
BY DEF UplinkInit, UplinkInv, UplinkTypeOK, Stages, Room, Fresh, LooksInsidePacket

(* Every action keeps the invariant.  The one that matters is the loop     *)
(* over the extension headers: what it skips was compared with bytes_read  *)
(* before it looks further.                                                *)
LEMMA UplinkPreserved == UplinkInv /\ [UplinkNext]_uplinkVars => UplinkInv'
<1> SUFFICES ASSUME UplinkInv, [UplinkNext]_uplinkVars PROVE UplinkInv'
  BY Zenon
<1> USE UplinkInputs
<1>1. CASE RecvFrom
  <2>1. UplinkTypeOK'
    BY <1>1 DEF RecvFrom, UplinkInv, UplinkTypeOK, Stages
  <2>2. Room'
    BY <1>1 DEF RecvFrom, UplinkInv, UplinkTypeOK, Room, RoomAfter, Unextended, Fresh
  <2>3. Fresh' /\ LooksInsidePacket'
    BY <1>1 DEF RecvFrom, UplinkInv, UplinkTypeOK, Room, RoomAfter, Unextended,
                  Fresh, LooksInsidePacket
  <2> QED
    BY Zenon, <2>1, <2>2, <2>3 DEF UplinkInv
<1>2. CASE MessageType
  <2>1. UplinkTypeOK'
    BY <1>2 DEF MessageType, UplinkInv, UplinkTypeOK, Stages
  <2>2. Room'
    BY <1>2 DEF MessageType, UplinkInv, UplinkTypeOK, Room, RoomAfter, Unextended
  <2>3. Fresh' /\ LooksInsidePacket'
    BY Zenon, <1>2 DEF MessageType, UplinkInv, UplinkTypeOK, Room, RoomAfter, Unextended,
                  Fresh, LooksInsidePacket
  <2> QED
    BY Zenon, <2>1, <2>2, <2>3 DEF UplinkInv
<1>3. CASE SkipExtension
  <2>1. CASE at' = "pdcp"
    BY <1>3, <2>1 DEF SkipExtension, UplinkInv, UplinkTypeOK, Stages, Room, RoomAfter,
                      Unextended, Fresh, LooksInsidePacket, Larger
  <2>2. ASSUME NEW octet \in SkipOctets,
               furthest' = Larger(furthest, offset + 1),
               offset' = offset + octet * 4,
               skipped' = Append(skipped, octet),
               at' = IF bytes_read < offset' + InnerHeaders THEN "dropped"
                     ELSE IF octet = 0 THEN "spinning" ELSE "extension"
        PROVE  UplinkInv'
    <3>1. octet \in Nat /\ octet * 4 \in Nat
      OBVIOUS
    <3>2. skipped' \in Seq(SkipOctets) /\ skipped' # <<>>
      BY <2>2 DEF UplinkInv, UplinkTypeOK
    <3>3. bytes_read' = bytes_read /\ header' = header /\ at = "extension"
      BY Zenon, <1>3 DEF SkipExtension
    <3>4. UplinkTypeOK'
      BY <2>2, <3>1, <3>2, <3>3 DEF UplinkInv, UplinkTypeOK, Stages, Larger
    <3>5. Room' /\ Fresh'
      BY <2>2, <3>1, <3>2, <3>3 DEF UplinkInv, UplinkTypeOK, Stages, Room, RoomAfter,
                                    Unextended, Fresh
    <3>6. LooksInsidePacket'
      BY <2>2, <3>3 DEF UplinkInv, UplinkTypeOK, Room, RoomAfter, LooksInsidePacket,
         Larger
    <3> QED
      BY Zenon, <3>4, <3>5, <3>6 DEF UplinkInv
  <2> QED
    BY Zenon, <1>3, <2>1, <2>2 DEF SkipExtension
<1>4. CASE PdcpHeader
  <2>1. UplinkTypeOK'
    BY <1>4 DEF PdcpHeader, Look, Larger, UplinkInv, UplinkTypeOK, Stages
  <2>2. Room'
    BY <1>4 DEF PdcpHeader, Look, Larger, UplinkInv, UplinkTypeOK, Room, RoomAfter, Unextended
  <2>3. Fresh' /\ LooksInsidePacket'
    BY <1>4 DEF PdcpHeader, Look, Larger, UplinkInv, UplinkTypeOK, Room, RoomAfter, Unextended,
                  Fresh, LooksInsidePacket
  <2> QED
    BY Zenon, <2>1, <2>2, <2>3 DEF UplinkInv
<1>5. CASE SdapHeader
  <2>1. UplinkTypeOK'
    BY <1>5 DEF SdapHeader, Look, Larger, UplinkInv, UplinkTypeOK, Stages
  <2>2. Room'
    BY <1>5 DEF SdapHeader, Look, Larger, UplinkInv, UplinkTypeOK, Room, RoomAfter, Unextended
  <2>3. Fresh' /\ LooksInsidePacket'
    BY <1>5 DEF SdapHeader, Look, Larger, UplinkInv, UplinkTypeOK, Room, RoomAfter, Unextended,
                  Fresh, LooksInsidePacket
  <2> QED
    BY Zenon, <2>1, <2>2, <2>3 DEF UplinkInv
<1>6. CASE IpVersion
  <2>1. UplinkTypeOK'
    BY <1>6 DEF IpVersion, Look, Larger, UplinkInv, UplinkTypeOK, Stages
  <2>2. Room'
    BY <1>6 DEF IpVersion, Look, Larger, UplinkInv, UplinkTypeOK, Room, RoomAfter, Unextended
  <2>3. Fresh' /\ LooksInsidePacket'
    BY <1>6 DEF IpVersion, Look, Larger, UplinkInv, UplinkTypeOK, Room, RoomAfter, Unextended,
                  Fresh, LooksInsidePacket
  <2> QED
    BY Zenon, <2>1, <2>2, <2>3 DEF UplinkInv
<1>7. CASE WriteInner
  <2>1. UplinkTypeOK'
    BY Zenon, <1>7 DEF WriteInner, Larger, UplinkInv, UplinkTypeOK, Stages
  <2>2. Room'
    BY Zenon, <1>7 DEF WriteInner, Larger, UplinkInv, UplinkTypeOK, Room, RoomAfter, Unextended
  <2>3. Fresh' /\ LooksInsidePacket'
    BY <1>7 DEF WriteInner, Larger, UplinkInv, UplinkTypeOK, Room, RoomAfter, Unextended,
                  Fresh, LooksInsidePacket
  <2> QED
    BY Zenon, <2>1, <2>2, <2>3 DEF UplinkInv
<1>8. CASE UNCHANGED uplinkVars
  BY Zenon, <1>8 DEF uplinkVars, UplinkInv, UplinkTypeOK, Room, RoomAfter, Unextended, Fresh,
              LooksInsidePacket
<1> QED
  BY Zenon, <1>1, <1>2, <1>3, <1>4, <1>5, <1>6, <1>7, <1>8 DEF UplinkNext

(* handle_next_uplink_packet looks at no octet beyond the packet it read.  *)
THEOREM UplinkLooksInside == UplinkSpec => []LooksInsidePacket
<1>1. UplinkInv => LooksInsidePacket
  BY Zenon DEF UplinkInv
<1> QED
  BY <1>1, UplinkInitially, UplinkPreserved, PTL DEF UplinkSpec

(* What it writes to the tun device has the IPv4 header it looked at, or   *)
(* at least sixteen octets of it.                                          *)
THEOREM UplinkInnerLength == UplinkSpec => []InnerPacketLength
<1>1. UplinkInv => InnerPacketLength
  BY DEF UplinkInv, UplinkTypeOK, Room, RoomAfter, Unextended, InnerPacketLength
<1> QED
  BY <1>1, UplinkInitially, UplinkPreserved, PTL DEF UplinkSpec
=============================================================================
