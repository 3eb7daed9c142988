-------------------------- MODULE PerFieldsProofs ----------------------------
(***************************************************************************)
(* Proofs about the codecs, for any tables that match. First the facts     *)
(* that the proofs of every codec share; then a single choice, enumeration *)
(* or elementary procedure; then sequences and single values: what their   *)
(* encode_inner puts on the wire, and the header and the fields that their *)
(* decode_inner reads.                                                     *)
(***************************************************************************)
EXTENDS PerCodec, TLAPS

Program == codec.program

\* Statement i puts its field on the wire or into the container.
Included(p, v, i) ==
  \/ p.encode[i].op \in {"put", "put ie"}
  \/ p.encode[i].op \in {"put if", "put ie if"} /\ p.encode[i].f \in v.present
Carries(p, v, i) == <<p.encode[i].f, Number(p.encode[i].l, v.edge)>>
IeTok(p, v, i) == IeToken(p.encode[i].id, p.encode[i].l, p.encode[i].f, v.edge)

\* A program, the wire and the container are sequences.
LEMMA SeqFacts ==
  ASSUME NEW s, s \in Seq(Elements(s))
  PROVE  Len(s) \in Nat /\ DOMAIN s = 1..Len(s)
OBVIOUS

\* Nothing written yet.
LEMMA EmptyFacts == <<>> \in Seq(Elements(<<>>)) /\ Len(<<>>) = 0 /\ Elements(<<>>) = {}
BY DEF Elements

\* A statement that writes nothing.
LEMMA NothingAdded ==
  ASSUME NEW U, NEW s \in Seq(U)
  PROVE  s \o <<>> = s /\ <<>> \o s = s
OBVIOUS

\* A statement that writes one token.
LEMMA OneFacts ==
  ASSUME NEW x
  PROVE  <<x>> \in Seq(Elements(<<x>>)) /\ Len(<<x>>) = 1 /\ Elements(<<x>>) = {x} /\ <<x>>[1] = x
<1>1. Elements(<<x>>) = {x}
  BY DEF Elements
<1>2. <<x>> \in Seq({x})
  OBVIOUS
<1> QED
  BY Zenon, <1>1, <1>2

\* Writing tokens after those already written moves none of them.
LEMMA ConcatFacts ==
  ASSUME NEW s, NEW t, s \in Seq(Elements(s)), t \in Seq(Elements(t))
  PROVE  /\ s \o t \in Seq(Elements(s \o t))
         /\ Len(s \o t) = Len(s) + Len(t)
         /\ \A i \in 1..Len(s) : (s \o t)[i] = s[i]
         /\ \A i \in 1..Len(t) : (s \o t)[Len(s) + i] = t[i]
         /\ Elements(s \o t) = Elements(s) \cup Elements(t)
<1> DEFINE U == Elements(s) \cup Elements(t)
           r == s \o t
<1>1. s \in Seq(U) /\ t \in Seq(U)
  OBVIOUS
<1>2. Len(s) \in Nat /\ DOMAIN s = 1..Len(s) /\ Len(t) \in Nat /\ DOMAIN t = 1..Len(t)
  BY Zenon, SeqFacts
<1> HIDE DEF U
<1>3. /\ r \in Seq(U) /\ Len(r) = Len(s) + Len(t)
      /\ \A i \in 1..(Len(s) + Len(t)) : r[i] = IF i <= Len(s) THEN s[i] ELSE t[i - Len(s)]
  BY ONLY <1>1
<1>4. DOMAIN r = 1..(Len(s) + Len(t))
  BY <1>3
<1> HIDE DEF r
<1>5. \A i \in 1..Len(s) : r[i] = s[i]
  BY <1>2, <1>3
<1>6. \A i \in 1..Len(t) : r[Len(s) + i] = t[i]
  BY SMTT(30), <1>2, <1>3
<1>7. Elements(r) \subseteq U
  <2> SUFFICES ASSUME NEW i \in 1..(Len(s) + Len(t)) PROVE r[i] \in U
    BY Zenon, <1>4 DEF Elements
  <2> QED
    BY <1>3, <1>4
<1>8. Elements(s) \subseteq Elements(r)
  <2> SUFFICES ASSUME NEW i \in 1..Len(s) PROVE s[i] \in Elements(r)
    BY Zenon, <1>2 DEF Elements
  <2>1. i \in DOMAIN r
    BY <1>2, <1>4
  <2> QED
    BY Zenon, <1>5, <2>1 DEF Elements
<1>9. Elements(t) \subseteq Elements(r)
  <2> SUFFICES ASSUME NEW i \in 1..Len(t) PROVE t[i] \in Elements(r)
    BY Zenon, <1>2 DEF Elements
  <2>1. Len(s) + i \in DOMAIN r
    BY <1>2, <1>4
  <2> QED
    BY Zenon, <1>6, <2>1 DEF Elements
<1>10. Elements(r) = U
  BY Zenon, <1>7, <1>8, <1>9 DEF U
<1> QED
  BY Zenon, <1>3, <1>5, <1>6, <1>10 DEF r, U

\* Nor does adding an IE to the container.
LEMMA AppendFacts ==
  ASSUME NEW s, NEW x, s \in Seq(Elements(s))
  PROVE  /\ Append(s, x) \in Seq(Elements(Append(s, x)))
         /\ Len(Append(s, x)) = Len(s) + 1
         /\ \A i \in 1..Len(s) : Append(s, x)[i] = s[i]
         /\ Append(s, x)[Len(s) + 1] = x
         /\ Elements(Append(s, x)) = Elements(s) \cup {x}
<1>1. Append(s, x) = s \o <<x>>
  <2> DEFINE U == Elements(s) \cup {x}
  <2>1. s \in Seq(U) /\ x \in U
    OBVIOUS
  <2> HIDE DEF U
  <2> QED
    BY <2>1
<1>2. <<x>> \in Seq(Elements(<<x>>)) /\ Len(<<x>>) = 1 /\ Elements(<<x>>) = {x} /\ <<x>>[1] = x
  BY Zenon, OneFacts
<1> DEFINE o == <<x>>
<1> HIDE DEF o
<1>3. o \in Seq(Elements(o)) /\ Len(o) = 1 /\ Elements(o) = {x} /\ o[1] = x
  BY Zenon, <1>2 DEF o
<1>4. /\ s \o o \in Seq(Elements(s \o o))
      /\ Len(s \o o) = Len(s) + Len(o)
      /\ \A i \in 1..Len(s) : (s \o o)[i] = s[i]
      /\ \A i \in 1..Len(o) : (s \o o)[Len(s) + i] = o[i]
      /\ Elements(s \o o) = Elements(s) \cup Elements(o)
  BY Zenon, <1>3, ConcatFacts
<1> QED
  BY <1>1, <1>3, <1>4 DEF o

-----------------------------------------------------------------------------
(* Sequences and single values.                                            *)

Typed(p) == p.encode \in Seq(Elements(p.encode)) /\ p.decode \in Seq(Elements(p.decode))

\* A number at an end of its range survives the cast, and unwrap() succeeds.
LEMMA FitsEdge ==
  ASSUME NEW l, Fits(l), val.edge \in {"lo", "hi"}
  PROVE  /\ Decoded(l, Number(l, val.edge)) = Number(l, val.edge)
         /\ ~Unwraps(l, Number(l, val.edge))
BY Zenon DEF Fits

\* The statements that write of a value, by their place in encode_inner.
LEMMA WrittenAre ==
  ASSUME DOMAIN Program.encode = 1..Len(Program.encode)
  PROVE  Written = {Program.encode[h] : h \in {k \in 1..Len(Program.encode) : Included(Program, val, k)}}
BY Zenon DEF Written, Elements, Encoder, Program, Included

\* What a program of plain statements sends, by their place in encode_inner.
LEMMA SentAre ==
  ASSUME DOMAIN Program.encode = 1..Len(Program.encode),
         \A k \in 1..Len(Program.encode) : Program.encode[k].op \notin {"choice", "procedure", "enum"}
  PROVE  ValueSent = {Carries(Program, val, h) :
                         h \in {k \in 1..Len(Program.encode) : Included(Program, val, k)}}
<1>1. \A s \in Elements(Encoder) : s.op \notin {"choice", "procedure"} /\ ~(s.op # "enum") = FALSE
  BY Zenon DEF Elements, Encoder, Program
<1>2. UNION {IF s.op \notin {"choice", "procedure"} THEN {}
                ELSE {<<s.arms[val.arm].variant, Number(s.arms[val.arm].l, val.edge)>>} :
                   s \in Elements(Encoder)} = {}
  BY Zenon, <1>1
<1>3. UNION {IF s.op # "enum" THEN {}
                ELSE {<<"", IF val.edge = "lo" THEN 0 ELSE s.hi>>} : s \in Elements(Encoder)} = {}
  BY Zenon, <1>1
<1>4. ValueSent = {<<s.f, Number(s.l, val.edge)>> : s \in Written}
  BY Zenon, <1>2, <1>3 DEF ValueSent
<1>5. Written = {Program.encode[h] : h \in {k \in 1..Len(Program.encode) : Included(Program, val, k)}}
  BY Zenon, WrittenAre
<1> QED
  BY Zenon, <1>4, <1>5 DEF Carries

\* Every part of the state and of what was sent is left alone.
LEMMA Stutters ==
  ASSUME UNCHANGED codecVars
  PROVE  /\ Program' = Program /\ val' = val /\ phase' = phase /\ pc' = pc /\ wire' = wire
         /\ container' = container /\ pos' = pos /\ optionals' = optionals /\ left' = left
         /\ got' = got /\ peer' = peer /\ ValueSent' = ValueSent /\ Written' = Written
         /\ UsesSetupRelease' = UsesSetupRelease
<1>1. /\ codec' = codec /\ val' = val /\ phase' = phase /\ pc' = pc /\ wire' = wire
      /\ container' = container /\ pos' = pos /\ optionals' = optionals /\ left' = left
      /\ got' = got /\ peer' = peer
  BY Zenon DEF codecVars
<1>2. Written' = Written
  BY Zenon, <1>1 DEF Written, Encoder
<1>3. ValueSent' = ValueSent
  BY <1>1, <1>2 DEF ValueSent, Encoder
<1>4. UsesSetupRelease' = UsesSetupRelease
  BY Zenon, <1>2 DEF UsesSetupRelease
<1> QED
  BY Zenon, <1>1, <1>2, <1>3, <1>4 DEF Program

(* Choices, enumerations and procedures: one statement each way.           *)

IsSingle(p) ==
  ChoiceMatch(p.encode, p.decode) \/ EnumMatch(p.encode, p.decode) \/ ProcedureMatch(p.encode, p.decode)

ArmOf(p, v) == p.encode[1].arms[v.arm]
ArmToks(a, v) ==
  IF a.id # <<>> THEN <<IeToken(a.id[1], a.l, a.variant, v.edge)>>
  ELSE IF a.l = Null THEN <<>>
  ELSE <<[tok |-> "value", l |-> a.l, f |-> a.variant, n |-> Number(a.l, v.edge)]>>
EnumIndex(p, v) == IF v.edge = "lo" THEN p.encode[1].lo ELSE p.decode[1].variants - 1

\* What encode_inner writes and what decode_inner makes of it.
SingleToks(p, v) ==
  CASE p.encode[1].op = "choice" ->
         <<Index("choice", p.encode[1], ArmOf(p, v).idx)>> \o ArmToks(ArmOf(p, v), v)
    [] p.encode[1].op = "enum" -> <<Index("enum", p.encode[1], EnumIndex(p, v))>>
    [] p.encode[1].op = "procedure" ->
         <<IeToken(ArmOf(p, v).idx, ArmOf(p, v).l, ArmOf(p, v).variant, v.edge)>>
SingleGot(p, v) ==
  IF p.encode[1].op = "enum" THEN {<<"", EnumIndex(p, v)>>}
  ELSE {<<ArmOf(p, v).variant, Number(ArmOf(p, v).l, v.edge)>>}

Extended == [what |-> "extended", f |-> ""]
SingleWire(p, v, by) ==
  IF by = Untouched THEN SingleToks(p, v) ELSE [SingleToks(p, v) EXCEPT ![1].extended = TRUE]

SingleInv ==
  /\ peer \in {Untouched, Extended} /\ (Program.encode[1].op = "procedure" => peer = Untouched)
  /\ phase \in {"encode", "sent", "decode", "done", "refused"}
  /\ phase = "encode" =>
        /\ peer = Untouched
        /\ (pc = 1 /\ wire = <<>>) \/ (pc = 2 /\ wire = SingleToks(Program, val))
  /\ phase # "encode" => wire = SingleWire(Program, val, peer)
  /\ phase \in {"encode", "sent"} => pos = 1
  /\ phase = "decode" =>
        \/ pc = 1 /\ pos = 1
        \/ pc = 2 /\ peer = Untouched /\ pos = Len(wire) + 1 /\ got = SingleGot(Program, val)
  /\ phase = "done" => peer = Untouched /\ pos = Len(wire) + 1 /\ got = SingleGot(Program, val)
  /\ phase = "refused" => peer = Extended

\* The one statement of each program, and what the two have in common.
LEMMA SingleFacts ==
  ASSUME NEW p, NEW v, Typed(p), IsSingle(p), v \in ValuesOf(p.encode)
  PROVE  /\ Len(p.encode) = 1 /\ Len(p.decode) = 1 /\ DOMAIN p.encode = {1} /\ DOMAIN p.decode = {1}
         /\ p.encode[1].op \in {"choice", "enum", "procedure"} /\ p.decode[1].op = p.encode[1].op
         /\ p.encode[1].op = "choice" => ChoiceMatch(p.encode, p.decode)
         /\ p.encode[1].op = "enum" => EnumMatch(p.encode, p.decode)
         /\ p.encode[1].op = "procedure" => ProcedureMatch(p.encode, p.decode)
         /\ v.edge \in {"lo", "hi"}
         /\ p.encode[1].op \in {"choice", "procedure"} => ArmOf(p, v) \in Elements(p.encode[1].arms)
<1>1. Len(p.encode) = 1 /\ Len(p.decode) = 1
  BY Zenon DEF IsSingle, ChoiceMatch, EnumMatch, ProcedureMatch
<1>2. DOMAIN p.encode = 1..Len(p.encode) /\ DOMAIN p.decode = 1..Len(p.decode)
  BY Zenon, SeqFacts DEF Typed
<1>3. 1..1 = {1}
  OBVIOUS
<1>4. /\ p.encode[1].op \in {"choice", "enum", "procedure"} /\ p.decode[1].op = p.encode[1].op
      /\ p.encode[1].op = "choice" => ChoiceMatch(p.encode, p.decode)
      /\ p.encode[1].op = "enum" => EnumMatch(p.encode, p.decode)
      /\ p.encode[1].op = "procedure" => ProcedureMatch(p.encode, p.decode)
  <2>1. CASE ChoiceMatch(p.encode, p.decode)
    <3>1. p.encode[1].op = "choice" /\ p.decode[1].op = "choice"
      BY Zenon, <2>1 DEF ChoiceMatch
    <3> QED
      BY Zenon, <2>1, <3>1
  <2>2. CASE EnumMatch(p.encode, p.decode)
    <3>1. p.encode[1].op = "enum" /\ p.decode[1].op = "enum"
      BY Zenon, <2>2 DEF EnumMatch
    <3> QED
      BY Zenon, <2>2, <3>1
  <2>3. CASE ProcedureMatch(p.encode, p.decode)
    <3>1. p.encode[1].op = "procedure" /\ p.decode[1].op = "procedure"
      BY Zenon, <2>3 DEF ProcedureMatch
    <3> QED
      BY Zenon, <2>3, <3>1
  <2> QED
    BY Zenon, <2>1, <2>2, <2>3 DEF IsSingle
<1>5. v.edge \in {"lo", "hi"} /\ v.arm \in Arms(p.encode)
  BY Zenon DEF ValuesOf
<1>6. ASSUME p.encode[1].op \in {"choice", "procedure"}
      PROVE  ArmOf(p, v) \in Elements(p.encode[1].arms)
  <2>1. DOMAIN p.encode[1].arms # {}
    BY Zenon, <1>4, <1>6 DEF ChoiceMatch, ProcedureMatch
  <2>2. Elements(p.encode) = {p.encode[1]}
    BY Zenon, <1>1, <1>2, <1>3 DEF Elements
  <2>3. UNION {IF s.op \in {"choice", "procedure"} THEN DOMAIN s.arms ELSE {} : s \in Elements(p.encode)}
          = DOMAIN p.encode[1].arms
    BY Zenon, <1>6, <2>2
  <2>4. Arms(p.encode) = DOMAIN p.encode[1].arms
    BY Zenon, <2>1, <2>3 DEF Arms
  <2>5. v.arm \in DOMAIN p.encode[1].arms
    BY Zenon, <1>5, <2>4
  <2> QED
    BY ONLY Zenon, <2>5 DEF ArmOf, Elements
<1> QED
  BY Zenon, <1>1, <1>2, <1>3, <1>4, <1>5, <1>6

\* The first token, and the second if there is one.
LEMMA SingleToksAre ==
  ASSUME NEW p, NEW v, p.encode[1].op \in {"choice", "enum", "procedure"}
  PROVE  /\ SingleToks(p, v) \in Seq(Elements(SingleToks(p, v)))
         /\ p.encode[1].op = "choice" =>
              /\ SingleToks(p, v)[1] = Index("choice", p.encode[1], ArmOf(p, v).idx)
              /\ Len(SingleToks(p, v)) = 1 + Len(ArmToks(ArmOf(p, v), v))
              /\ Len(ArmToks(ArmOf(p, v), v)) \in {0, 1}
              /\ Len(ArmToks(ArmOf(p, v), v)) = 1 => SingleToks(p, v)[2] = ArmToks(ArmOf(p, v), v)[1]
         /\ p.encode[1].op = "enum" =>
              /\ SingleToks(p, v)[1] = Index("enum", p.encode[1], EnumIndex(p, v))
              /\ Len(SingleToks(p, v)) = 1
         /\ p.encode[1].op = "procedure" =>
              /\ SingleToks(p, v)[1] = IeToken(ArmOf(p, v).idx, ArmOf(p, v).l, ArmOf(p, v).variant, v.edge)
              /\ Len(SingleToks(p, v)) = 1
<1>1. CASE p.encode[1].op = "choice"
  <2> DEFINE x == <<Index("choice", p.encode[1], ArmOf(p, v).idx)>>
             y == ArmToks(ArmOf(p, v), v)
  <2>1. SingleToks(p, v) = x \o y
    BY Zenon, <1>1 DEF SingleToks
  <2>2. x \in Seq(Elements(x)) /\ Len(x) = 1 /\ x[1] = Index("choice", p.encode[1], ArmOf(p, v).idx)
    BY Zenon, OneFacts
  <2>3. y \in Seq(Elements(y)) /\ Len(y) \in {0, 1}
    BY Zenon, OneFacts, EmptyFacts DEF ArmToks
  <2> HIDE DEF x, y
  <2>4. /\ x \o y \in Seq(Elements(x \o y))
        /\ Len(x \o y) = Len(x) + Len(y)
        /\ \A q \in 1..Len(x) : (x \o y)[q] = x[q]
        /\ \A q \in 1..Len(y) : (x \o y)[Len(x) + q] = y[q]
        /\ Elements(x \o y) = Elements(x) \cup Elements(y)
    BY ONLY Zenon, <2>2, <2>3, ConcatFacts
  <2>5. (x \o y)[1] = x[1] /\ (Len(y) = 1 => (x \o y)[2] = y[1])
    BY ONLY <2>2, <2>3, <2>4
  <2>6. Len(x \o y) = 1 + Len(y)
    BY ONLY Zenon, <2>2, <2>3, <2>4
  <2> QED
    BY Zenon, <1>1, <2>1, <2>2, <2>3, <2>4, <2>5, <2>6 DEF y
<1>2. CASE p.encode[1].op = "enum"
  <2>1. SingleToks(p, v) = <<Index("enum", p.encode[1], EnumIndex(p, v))>>
    BY Zenon, <1>2 DEF SingleToks
  <2> QED
    BY <1>2, <2>1, OneFacts
<1>3. CASE p.encode[1].op = "procedure"
  <2>1. SingleToks(p, v) = <<IeToken(ArmOf(p, v).idx, ArmOf(p, v).l, ArmOf(p, v).variant, v.edge)>>
    BY Zenon, <1>3 DEF SingleToks
  <2> QED
    BY <1>3, <2>1, OneFacts
<1> QED
  BY Zenon, <1>1, <1>2, <1>3

\* A later release's value differs in nothing but its extension bit.
LEMMA SingleWireAre ==
  ASSUME NEW p, NEW v, NEW by, p.encode[1].op \in {"choice", "enum"},
         by \in {Untouched, Extended}, NEW w, w = SingleWire(p, v, by),
         NEW t, t = SingleToks(p, v)
  PROVE  /\ Len(w) = Len(t) /\ Len(t) \in {1, 2} /\ (Len(t) = 2 => w[2] = t[2])
         /\ w[1].tok = t[1].tok /\ w[1].lo = t[1].lo /\ w[1].hi = t[1].hi /\ w[1].ext = t[1].ext
         /\ w[1].idx = t[1].idx /\ w[1].extended = (by = Extended)
<1>1. t \in Seq(Elements(t)) /\ Len(t) \in {1, 2}
  <2>1. t \in Seq(Elements(t))
    BY SingleToksAre
  <2>2. CASE p.encode[1].op = "choice"
    <3> DEFINE k == Len(ArmToks(ArmOf(p, v), v))
    <3>1. Len(t) = 1 + k /\ k \in {0, 1}
      BY <2>2, SingleToksAre
    <3> HIDE DEF k
    <3>2. Len(t) \in {1, 2}
      BY ONLY <3>1
    <3> QED
      BY Zenon, <2>1, <3>2
  <2>3. CASE p.encode[1].op = "enum"
    BY <2>1, <2>3, SingleToksAre
  <2> QED
    BY Zenon, <2>2, <2>3
<1>2. \E tok, idx : t[1] = Index(tok, p.encode[1], idx)
  BY SingleToksAre
<1>3. PICK tok, idx : t[1] = Index(tok, p.encode[1], idx)
  BY Zenon, <1>2
<1>4. Untouched # Extended
  BY Zenon DEF Untouched, Extended
<1>5. CASE by = Untouched
  <2>1. w = t /\ t[1].extended = FALSE
    BY <1>3, <1>5 DEF SingleWire, Index
  <2> QED
    BY Zenon, <1>1, <1>4, <1>5, <2>1
<1>6. CASE by = Extended
  <2> DEFINE x == [t[1] EXCEPT !.extended = TRUE]
  <2>1. w = [t EXCEPT ![1] = x]
    BY Zenon, <1>4, <1>6 DEF SingleWire
  <2>2. DOMAIN t = 1..Len(t)
    BY Zenon, <1>1, SeqFacts
  <2>3. /\ x.tok = t[1].tok /\ x.lo = t[1].lo /\ x.hi = t[1].hi /\ x.ext = t[1].ext
        /\ x.idx = t[1].idx /\ x.extended = TRUE
    BY Zenon, <1>3 DEF Index
  <2> HIDE DEF x
  <2>4. w[1] = x
    BY <1>1, <2>1, <2>2
  <2>5. Len(t) = 2 => w[2] = t[2]
    BY <1>1, <2>1, <2>2
  <2>6. Len(w) = Len(t)
    <3> DEFINE E == Elements(t) \cup {x}
    <3>1. t \in Seq(E) /\ x \in E
      BY <1>1
    <3> HIDE DEF E
    <3>2. 1 \in 1..Len(t)
      BY SMTT(30), <1>1
    <3> QED
      BY <2>1, <3>1, <3>2
  <2> QED
    BY Zenon, <1>1, <1>6, <2>3, <2>4, <2>5, <2>6
<1> QED
  BY Zenon, <1>5, <1>6

\* The encoder's only statement writes all tokens.
LEMMA SingleEncode ==
  ASSUME Typed(Program), IsSingle(Program), val \in ValuesOf(Program.encode), SingleInv,
         EncodeChoice \/ EncodeEnum \/ EncodeProcedure
  PROVE  SingleInv'
<1> DEFINE p == Program
           e == p.encode[1]
           a == ArmOf(p, val)
<1>1. Len(p.encode) = 1 /\ e.op \in {"choice", "enum", "procedure"}
  BY Zenon, SingleFacts
<1>2. \E ops : Encoding(ops)
  BY Zenon DEF EncodeChoice, EncodeEnum, EncodeProcedure
<1>3. phase = "encode" /\ pc <= 1
  BY Zenon, <1>1, <1>2 DEF Encoding, Encoder, Program
<1>4. pc = 1 /\ wire = <<>> /\ peer = Untouched /\ pos = 1
  BY <1>3 DEF SingleInv
<1>5. S = e
  BY Zenon, <1>3, <1>4 DEF S, Encoder, Program
<1>6. Encoded(SingleToks(p, val))
  <2>1. CASE EncodeChoice
    <3>1. e.op = "choice"
      BY Zenon, <1>4, <2>1 DEF EncodeChoice, Encoding, Encoder, Program
    <3>2. S.arms[val.arm] = a
      BY Zenon, <1>5 DEF ArmOf
    <3>3. (IF a.id = <<>> THEN Values(a.l, a.variant)
                      ELSE <<IeToken(a.id[1], a.l, a.variant, val.edge)>>) = ArmToks(a, val)
      BY Zenon DEF Values, Value, ArmToks
    <3>4. Encoded(<<Index("choice", S, a.idx)>> \o ArmToks(a, val))
      <4> HIDE DEF a
      <4> QED
        BY Zenon, <2>1, <3>2, <3>3 DEF EncodeChoice
    <3> QED
      BY Zenon, <1>5, <3>1, <3>4 DEF SingleToks
  <2>2. CASE EncodeEnum
    <3>1. e.op = "enum"
      BY Zenon, <1>4, <2>2 DEF EncodeEnum, Encoding, Encoder, Program
    <3> QED
      BY Zenon, <1>5, <2>2, <3>1 DEF SingleToks, EncodeEnum, EnumIndex, Decoder, Program
  <2>3. CASE EncodeProcedure
    <3>1. e.op = "procedure"
      BY Zenon, <1>4, <2>3 DEF EncodeProcedure, Encoding, Encoder, Program
    <3> QED
      BY Zenon, <1>5, <2>3, <3>1 DEF SingleToks, EncodeProcedure, ArmOf
  <2> QED
    BY Zenon, <2>1, <2>2, <2>3
<1>7. SingleToks(p, val) \in Seq(Elements(SingleToks(p, val)))
  BY <1>1, SingleToksAre
<1>8. <<>> \o SingleToks(p, val) = SingleToks(p, val)
  BY Zenon, <1>7, NothingAdded
<1>9. /\ wire' = SingleToks(p, val) /\ pc' = 2 /\ phase' = "encode" /\ peer' = peer /\ pos' = pos
      /\ Program' = p /\ val' = val
  BY <1>3, <1>4, <1>6, <1>8 DEF Encoded, Program
<1> HIDE DEF p, e, a
<1> QED
  BY Zenon, <1>4, <1>9 DEF SingleInv

\* Sending leaves them.
LEMMA SingleSend ==
  ASSUME Typed(Program), IsSingle(Program), val \in ValuesOf(Program.encode), SingleInv, Send
  PROVE  SingleInv'
<1>1. Len(Program.encode) = 1
  BY Zenon, SingleFacts
<1>2. phase = "encode" /\ pc > 1
  BY Zenon, <1>1 DEF Send, Encoder, Program
<1>3. wire = SingleToks(Program, val) /\ peer = Untouched /\ pos = 1
  BY <1>2 DEF SingleInv
<1>4. /\ phase' = "sent" /\ wire' = wire /\ peer' = peer /\ pos' = pos /\ Program' = Program /\ val' = val
  BY Zenon DEF Send, End, Program
<1> QED
  BY Zenon, <1>3, <1>4 DEF SingleInv, SingleWire

\* The peer may set the extension bit, where there is one.
LEMMA SingleExtends ==
  ASSUME Typed(Program), IsSingle(Program), val \in ValuesOf(Program.encode), SingleInv, PeerExtends
  PROVE  SingleInv'
<1>1. phase = "sent" /\ peer = Untouched /\ Sent([wire EXCEPT ![1].extended = TRUE], "extended", "")
  BY Zenon DEF PeerExtends, Disturbable
<1>2. wire = SingleToks(Program, val) /\ pos = 1
  BY Zenon, <1>1 DEF SingleInv, SingleWire
<1>3. /\ wire' = [wire EXCEPT ![1].extended = TRUE] /\ peer' = Extended /\ phase' = "sent" /\ pos' = pos
      /\ Program' = Program /\ val' = val
  BY Zenon, <1>1 DEF Sent, Extended, Program
<1>4. Extended # Untouched
  BY Zenon DEF Untouched, Extended
<1>5. wire' = SingleWire(Program', val', peer')
  BY Zenon, <1>2, <1>3, <1>4 DEF SingleWire
<1>6. Program.encode[1].op # "procedure"
  BY Zenon, SingleFacts DEF PeerExtends, Disturbable, Decoder, Program
<1> QED
  BY Zenon, <1>2, <1>3, <1>5, <1>6 DEF SingleInv

\* The decoder starts at the first token.
LEMMA SingleReceive ==
  ASSUME SingleInv, Receive
  PROVE  SingleInv'
<1>1. /\ phase = "sent" /\ phase' = "decode" /\ pc' = 1 /\ pos' = pos /\ wire' = wire /\ peer' = peer
      /\ Program' = Program /\ val' = val
  BY Zenon DEF Receive, Program
<1> QED
  BY Zenon, <1>1 DEF SingleInv

\* The decoder ends after its only statement, having read the value.
LEMMA SingleDecodeEnds ==
  ASSUME Typed(Program), IsSingle(Program), val \in ValuesOf(Program.encode), SingleInv, DecodeEnds
  PROVE  SingleInv'
<1>1. Len(Program.decode) = 1
  BY Zenon, SingleFacts
<1>2. phase = "decode" /\ pc > 1 /\ End("done")
  BY Zenon, <1>1 DEF DecodeEnds, Decoder, Program
<1>3. peer = Untouched /\ pos = Len(wire) + 1 /\ got = SingleGot(Program, val)
  BY <1>2 DEF SingleInv
<1>4. /\ phase' = "done" /\ pos' = pos /\ got' = got /\ wire' = wire /\ peer' = peer
      /\ Program' = Program /\ val' = val
  BY Zenon, <1>2 DEF End, Program
<1> QED
  BY Zenon, <1>2, <1>3, <1>4 DEF SingleInv

\* The decoder is at its only statement.
LEMMA SingleAt ==
  ASSUME Typed(Program), IsSingle(Program), val \in ValuesOf(Program.encode), SingleInv,
         NEW ops, Decoding(ops)
  PROVE  /\ phase = "decode" /\ pc = 1 /\ pos = 1 /\ wire = SingleWire(Program, val, peer)
         /\ S = Program.decode[1] /\ Program.encode[1].op \in ops
         /\ Program.encode[1].op \in {"choice", "enum", "procedure"}
         /\ Program.decode[1].op = Program.encode[1].op
<1>1. Len(Program.decode) = 1 /\ Program.decode[1].op = Program.encode[1].op
      /\ Program.encode[1].op \in {"choice", "enum", "procedure"}
  BY Zenon, SingleFacts
<1>2. phase = "decode" /\ pc <= 1
  BY Zenon, <1>1 DEF Decoding, Decoder, Program
<1>3. pc = 1 /\ pos = 1 /\ wire = SingleWire(Program, val, peer)
  BY <1>2 DEF SingleInv
<1>4. S = Program.decode[1]
  BY Zenon, <1>2, <1>3 DEF S, Decoder, Program
<1>5. Program.encode[1].op \in ops
  BY Zenon, <1>1, <1>3 DEF Decoding, Decoder, Program
<1> QED
  BY Zenon, <1>1, <1>2, <1>3, <1>4, <1>5

\* How the statement ends.
LEMMA SingleRefused ==
  ASSUME SingleInv, phase = "decode", peer = Extended, End("refused")
  PROVE  SingleInv'
BY Zenon DEF SingleInv, End, Program

\* A statement that reads all tokens and fills the value sent.
LEMMA SingleReads ==
  ASSUME SingleInv, phase = "decode", pc = 1, peer = Untouched, NEW n, n = Len(wire), pos = 1,
         Advance(n, SingleGot(Program, val)), n \in Nat
  PROVE  SingleInv'
<1>1. /\ phase' = "decode" /\ pc' = 2 /\ pos' = Len(wire) + 1 /\ got' = SingleGot(Program, val)
      /\ wire' = wire /\ peer' = peer /\ Program' = Program /\ val' = val
  BY DEF Advance, Program
<1> QED
  BY Zenon, <1>1 DEF SingleInv

\* The index of an enumeration is below the number of its variants.
LEMMA SingleDecodeEnum ==
  ASSUME Typed(Program), IsSingle(Program), val \in ValuesOf(Program.encode), SingleInv, DecodeEnum
  PROVE  SingleInv'
<1> DEFINE p == Program
           e == p.encode[1]
           d == p.decode[1]
           t == SingleToks(p, val)
<1>1. /\ phase = "decode" /\ pc = 1 /\ pos = 1 /\ wire = SingleWire(p, val, peer)
      /\ S = d /\ e.op = "enum" /\ d.op = "enum"
  <2>1. Decoding({"enum"})
    BY Zenon DEF DecodeEnum
  <2>2. /\ phase = "decode" /\ pc = 1 /\ pos = 1 /\ wire = SingleWire(Program, val, peer)
        /\ S = Program.decode[1] /\ Program.encode[1].op \in {"enum"}
        /\ Program.encode[1].op \in {"choice", "enum", "procedure"}
        /\ Program.decode[1].op = Program.encode[1].op
    BY ONLY Zenon, Typed(Program), IsSingle(Program), val \in ValuesOf(Program.encode), SingleInv,
       <2>1, SingleAt
  <2> QED
    BY Zenon, <2>2
<1>2. EnumMatch(p.encode, p.decode)
  BY Zenon, <1>1, SingleFacts
<1>3. /\ e.lo = d.lo /\ e.hi = d.hi /\ e.ext = d.ext /\ e.lo = 0 /\ d.variants \in Nat \ {0}
  BY Zenon, <1>2 DEF EnumMatch, SameIndex
<1>4. peer \in {Untouched, Extended}
  BY Zenon DEF SingleInv
<1>5. t[1] = Index("enum", e, EnumIndex(p, val)) /\ Len(t) = 1
  BY <1>1, SingleToksAre
<1>6. /\ Len(wire) = Len(t) /\ wire[1].tok = t[1].tok /\ wire[1].lo = t[1].lo /\ wire[1].hi = t[1].hi
      /\ wire[1].ext = t[1].ext /\ wire[1].idx = t[1].idx /\ wire[1].extended = (peer = Extended)
  BY <1>1, <1>4, SingleWireAre
<1>7. Tok = wire[1]
  BY <1>1, <1>5, <1>6 DEF Tok, Token
<1>8. /\ Tok.tok = "enum" /\ Tok.lo = e.lo /\ Tok.hi = e.hi /\ Tok.ext = e.ext
      /\ Tok.idx = EnumIndex(p, val) /\ Tok.extended = (peer = Extended)
  BY <1>5, <1>6, <1>7 DEF Index
<1>9. Legible
  BY Zenon, <1>1, <1>3, <1>8 DEF Legible, IsIndex
<1>10. CASE peer = Extended
  <2>1. End("refused")
    BY Zenon, <1>8, <1>9, <1>10 DEF DecodeEnum
  <2> QED
    BY Zenon, <1>1, <1>10, <2>1, SingleRefused
<1>11. CASE peer = Untouched
  <2>1. ~(Tok.extended)
    <3>1. Untouched # Extended
      BY Zenon DEF Untouched, Extended
    <3> QED
      BY Zenon, <1>8, <1>11, <3>1
  <2>2. ~(Tok.idx >= S.variants)
    <3>1. EnumIndex(p, val) = 0 \/ EnumIndex(p, val) = d.variants - 1
      BY Zenon, <1>3 DEF EnumIndex
    <3> HIDE DEF d, p
    <3> QED
      BY <1>1, <1>3, <1>8, <3>1
  <2>3. Advance(1, {<<"", Tok.idx>>})
    BY Zenon, <1>9, <2>1, <2>2 DEF DecodeEnum
  <2>4. {<<"", Tok.idx>>} = SingleGot(p, val)
    BY Zenon, <1>1, <1>8 DEF SingleGot
  <2>5. Len(wire) = 1
    BY Zenon, <1>5, <1>6
  <2> HIDE DEF p, d, e, t
  <2>6. Advance(1, SingleGot(Program, val))
    BY Zenon, <2>3, <2>4 DEF p
  <2> QED
    BY Zenon, <1>1, <1>11, <2>5, <2>6, SingleReads
<1> QED
  BY Zenon, <1>4, <1>10, <1>11

\* The code of an outcome selects the message it was written for.
LEMMA SingleDecodeProcedure ==
  ASSUME Typed(Program), IsSingle(Program), val \in ValuesOf(Program.encode), SingleInv, DecodeProcedure
  PROVE  SingleInv'
<1> DEFINE p == Program
           e == p.encode[1]
           d == p.decode[1]
           a == ArmOf(p, val)
           n == Number(a.l, val.edge)
           t == SingleToks(p, val)
<1>1. /\ phase = "decode" /\ pc = 1 /\ pos = 1 /\ wire = SingleWire(p, val, peer)
      /\ S = d /\ e.op = "procedure" /\ d.op = "procedure"
  <2>1. Decoding({"procedure"})
    BY Zenon DEF DecodeProcedure
  <2>2. /\ phase = "decode" /\ pc = 1 /\ pos = 1 /\ wire = SingleWire(Program, val, peer)
        /\ S = Program.decode[1] /\ Program.encode[1].op \in {"procedure"}
        /\ Program.encode[1].op \in {"choice", "enum", "procedure"}
        /\ Program.decode[1].op = Program.encode[1].op
    BY ONLY Zenon, Typed(Program), IsSingle(Program), val \in ValuesOf(Program.encode), SingleInv,
       <2>1, SingleAt
  <2> QED
    BY Zenon, <2>2
<1>2. /\ ProcedureMatch(p.encode, p.decode) /\ a \in Elements(e.arms) /\ val.edge \in {"lo", "hi"}
  BY Zenon, <1>1, SingleFacts
<1>3. ById(d.ies, a.idx) = {Ie(a.idx, a.variant, a.l)} /\ Fits(a.l)
  BY Zenon, <1>2 DEF ProcedureMatch, Knows
<1>4. t[1] = IeToken(a.idx, a.l, a.variant, val.edge) /\ Len(t) = 1
  BY <1>1, SingleToksAre
<1>5. peer = Untouched /\ wire = t
  BY Zenon, <1>1 DEF SingleInv, SingleWire
<1>6. Tok = IeToken(a.idx, a.l, a.variant, val.edge)
  <2> DEFINE x == IeToken(a.idx, a.l, a.variant, val.edge)
  <2>1. pos = 1 /\ Len(wire) = 1 /\ wire[1] = x
    BY Zenon, <1>1, <1>4, <1>5
  <2> HIDE DEF x
  <2>2. Tok = x
    BY ONLY <2>1 DEF Tok, Token
  <2> QED
    BY Zenon, <2>2 DEF x
<1>7. Tok.tok = "ie" /\ Tok.id = a.idx /\ Tok.l = a.l /\ Tok.n = n
  BY Zenon, <1>6 DEF IeToken
<1>8. ById(S.ies, Tok.id) = {Ie(a.idx, a.variant, a.l)}
  BY Zenon, <1>1, <1>3, <1>7
<1>9. Legible
  <2>1. IsIeOf(pos, S.ies)
    BY <1>7, <1>8 DEF IsIeOf, Tok, Ie
  <2> QED
    BY Zenon, <1>1, <1>7, <2>1 DEF Legible
<1>10. Decoded(a.l, n) = n
  BY Zenon, <1>2, <1>3, FitsEdge
<1>11. Advance(1, {<<a.variant, n>>})
  <2>1. Ie(a.idx, a.variant, a.l).f = a.variant /\ Ie(a.idx, a.variant, a.l).l = a.l
    BY Zenon DEF Ie
  <2> HIDE DEF a, n
  <2>2. \E x \in ById(S.ies, Tok.id) : Advance(1, {<<x.f, Decoded(x.l, Tok.n)>>})
    BY Zenon, <1>8, <1>9 DEF DecodeProcedure
  <2> QED
    BY Zenon, <1>7, <1>8, <1>10, <2>1, <2>2
<1>12. {<<a.variant, n>>} = SingleGot(p, val)
  BY Zenon, <1>1 DEF SingleGot
<1>13. Len(wire) = 1
  BY Zenon, <1>4, <1>5
<1> HIDE DEF p, e, d, a, n, t
<1>14. Advance(1, SingleGot(Program, val))
  BY Zenon, <1>11, <1>12 DEF p
<1> QED
  BY Zenon, <1>1, <1>5, <1>13, <1>14, SingleReads

\* The index of a choice, and the id of an extension IE, select one variant.
LEMMA SingleDecodeChoice ==
  ASSUME Typed(Program), IsSingle(Program), val \in ValuesOf(Program.encode), SingleInv, DecodeChoice
  PROVE  SingleInv'
<1> DEFINE p == Program
           e == p.encode[1]
           d == p.decode[1]
           a == ArmOf(p, val)
           n == Number(a.l, val.edge)
           t == SingleToks(p, val)
           y == ArmToks(a, val)
<1>1. /\ phase = "decode" /\ pc = 1 /\ pos = 1 /\ wire = SingleWire(p, val, peer)
      /\ S = d /\ e.op = "choice" /\ d.op = "choice"
  <2>1. Decoding({"choice"})
    BY Zenon DEF DecodeChoice
  <2>2. /\ phase = "decode" /\ pc = 1 /\ pos = 1 /\ wire = SingleWire(Program, val, peer)
        /\ S = Program.decode[1] /\ Program.encode[1].op \in {"choice"}
        /\ Program.encode[1].op \in {"choice", "enum", "procedure"}
        /\ Program.decode[1].op = Program.encode[1].op
    BY ONLY Zenon, Typed(Program), IsSingle(Program), val \in ValuesOf(Program.encode), SingleInv,
       <2>1, SingleAt
  <2> QED
    BY Zenon, <2>2
<1>2. /\ ChoiceMatch(p.encode, p.decode) /\ a \in Elements(e.arms) /\ val.edge \in {"lo", "hi"}
  BY Zenon, <1>1, SingleFacts
<1>3. /\ e.lo = d.lo /\ e.hi = d.hi /\ e.ext = d.ext
      /\ Fits(a.l) /\ a.variant # ""
  BY Zenon, <1>2 DEF ChoiceMatch, SameIndex
<1>4. IF a.id = <<>> THEN ByIndex(d.alts, a.idx) = {Alt(a.idx, a.variant, a.l)}
      ELSE \E alt \in Elements(d.alts) :
              /\ ByIndex(d.alts, a.idx) = {alt} /\ alt.variant = ""
              /\ ById(alt.ies, a.id[1]) = {Ie(a.id[1], a.variant, a.l)}
  BY Zenon, <1>2 DEF ChoiceMatch
<1>5. peer \in {Untouched, Extended}
  BY Zenon DEF SingleInv
<1>6. /\ t[1] = Index("choice", e, a.idx) /\ Len(t) = 1 + Len(y) /\ Len(y) \in {0, 1}
      /\ Len(y) = 1 => t[2] = y[1]
  BY <1>1, SingleToksAre
<1>7. /\ Len(wire) = Len(t) /\ (Len(t) = 2 => wire[2] = t[2])
      /\ wire[1].tok = t[1].tok /\ wire[1].lo = t[1].lo /\ wire[1].hi = t[1].hi
      /\ wire[1].ext = t[1].ext /\ wire[1].idx = t[1].idx /\ wire[1].extended = (peer = Extended)
  BY <1>1, <1>5, SingleWireAre
<1>8. Tok = wire[1] /\ (Len(y) = 1 => Token(pos + 1) = y[1])
  <2>1. Len(wire) >= 1 /\ (Len(y) = 1 => Len(wire) = 2)
    <3> HIDE DEF t, y
    <3>1. Len(wire) = 1 + Len(y) /\ Len(y) \in {0, 1}
      BY Zenon, <1>6, <1>7
    <3>2. CASE Len(y) = 0
      <4>1. Len(wire) = 1 + 0
        BY Zenon, <3>1, <3>2
      <4> QED
        BY ONLY <3>2, <4>1
    <3>3. CASE Len(y) = 1
      <4>1. Len(wire) = 1 + 1
        BY Zenon, <3>1, <3>3
      <4> QED
        BY ONLY <3>3, <4>1
    <3> QED
      BY Zenon, <3>1, <3>2, <3>3
  <2> HIDE DEF t, y
  <2> QED
    BY <1>1, <1>6, <1>7, <2>1 DEF Tok, Token
<1>9. /\ Tok.tok = "choice" /\ Tok.lo = e.lo /\ Tok.hi = e.hi /\ Tok.ext = e.ext
      /\ Tok.idx = a.idx /\ Tok.extended = (peer = Extended)
  BY <1>6, <1>7, <1>8 DEF Index
<1>10. IsIndex("choice")
  BY Zenon, <1>1, <1>3, <1>9 DEF IsIndex
<1>11. Untouched # Extended
  BY Zenon DEF Untouched, Extended
<1>12. Decoded(a.l, n) = n
  BY Zenon, <1>2, <1>3, FitsEdge
<1>13. SingleGot(p, val) = {<<a.variant, n>>}
  BY Zenon, <1>1 DEF SingleGot
<1> DEFINE chosen == ByIndex(S.alts, Tok.idx)
           next == Token(pos + 1)
           inIe == UNION {ById(b.ies, next.id) : b \in {x \in chosen : x.variant = ""}}
           plain == {x \in chosen : x.variant # ""}
<1>14. \/ ~Legible /\ End("misread")
       \/ Legible /\ (Tok.extended \/ plain \cup inIe = {}) /\ End("refused")
       \/ /\ Legible /\ ~Tok.extended
          /\ \/ \E x \in plain :
                    IF x.l = Null THEN Advance(1, {<<x.variant, 0>>})
                    ELSE Advance(2, {<<x.variant, Decoded(x.l, next.n)>>})
             \/ \E x \in inIe : Advance(2, {<<x.f, Decoded(x.l, next.n)>>})
  BY Zenon DEF DecodeChoice
<1>15. /\ Legible /\ plain \cup inIe # {}
       /\ \A x \in plain : /\ x.variant = a.variant /\ x.l = a.l /\ a.id = <<>>
                           /\ x.l # Null => next.n = n
       /\ \A x \in inIe : x.f = a.variant /\ x.l = a.l /\ next.n = n /\ a.id # <<>>
  <2>1. CASE a.id = <<>>
    <3> DEFINE alt == Alt(a.idx, a.variant, a.l)
    <3>1. chosen = {alt}
      BY Zenon, <1>1, <1>4, <1>9, <2>1
    <3>2. alt.variant = a.variant /\ alt.l = a.l
      BY Zenon DEF Alt
    <3> HIDE DEF alt
    <3>3. plain = {alt} /\ inIe = {}
      BY Zenon, <1>3, <3>1, <3>2
    <3>4. a.l # Null => next.tok = "value" /\ next.l = a.l /\ next.n = n
      <4> SUFFICES ASSUME a.l # Null PROVE next.tok = "value" /\ next.l = a.l /\ next.n = n
        BY Zenon
      <4>1. y = <<[tok |-> "value", l |-> a.l, f |-> a.variant, n |-> n]>>
        BY Zenon, <2>1 DEF ArmToks
      <4>2. Len(y) = 1 /\ y[1] = [tok |-> "value", l |-> a.l, f |-> a.variant, n |-> n]
        BY Zenon, <4>1, OneFacts
      <4> QED
        BY <1>8, <4>2
    <3>5. Legible
      <4>1. \A x \in chosen : x.variant # "" /\ (x.l = Null \/ IsValue(pos + 1, x.l))
        BY Zenon, <1>3, <3>1, <3>2, <3>4 DEF IsValue
      <4> QED
        BY Zenon, <1>1, <1>10, <4>1 DEF Legible
    <3> HIDE DEF plain, inIe, a, n, next
    <3> QED
      BY Zenon, <2>1, <3>2, <3>3, <3>4, <3>5
  <2>2. CASE a.id # <<>>
    <3>1. PICK alt \in Elements(d.alts) :
             /\ ByIndex(d.alts, a.idx) = {alt} /\ alt.variant = ""
             /\ ById(alt.ies, a.id[1]) = {Ie(a.id[1], a.variant, a.l)}
      BY Zenon, <1>4, <2>2
    <3>2. chosen = {alt}
      BY Zenon, <1>1, <1>9, <3>1
    <3>3. y = <<IeToken(a.id[1], a.l, a.variant, val.edge)>>
      BY Zenon, <2>2 DEF ArmToks
    <3>4. Len(y) = 1 /\ y[1] = IeToken(a.id[1], a.l, a.variant, val.edge)
      BY Zenon, <3>3, OneFacts
    <3>5. next = IeToken(a.id[1], a.l, a.variant, val.edge)
      BY Zenon, <1>8, <3>4
    <3>6. next.tok = "ie" /\ next.id = a.id[1] /\ next.l = a.l /\ next.n = n
      BY <3>5 DEF IeToken
    <3>7. plain = {} /\ inIe = {Ie(a.id[1], a.variant, a.l)}
      <4> HIDE DEF next, chosen
      <4> QED
        BY Zenon, <3>1, <3>2, <3>6
    <3>8. Legible
      <4>1. \A x \in chosen : x.variant = "" /\ Token(pos + 1).tok = "ie" /\ IsIeOf(pos + 1, x.ies)
        <5>1. ById(alt.ies, Token(pos + 1).id) = {Ie(a.id[1], a.variant, a.l)}
          BY Zenon, <3>1, <3>6
        <5>2. Ie(a.id[1], a.variant, a.l).l = Token(pos + 1).l
          BY Zenon, <3>6 DEF Ie
        <5>3. IsIeOf(pos + 1, alt.ies)
          BY Zenon, <5>1, <5>2 DEF IsIeOf
        <5> HIDE DEF chosen
        <5> QED
          BY Zenon, <3>1, <3>2, <3>6, <5>3
      <4> QED
        BY Zenon, <1>1, <1>10, <4>1 DEF Legible
    <3>9. Ie(a.id[1], a.variant, a.l).f = a.variant /\ Ie(a.id[1], a.variant, a.l).l = a.l
      BY Zenon DEF Ie
    <3> HIDE DEF plain, inIe, a, n, next
    <3> QED
      BY Zenon, <2>2, <3>6, <3>7, <3>8, <3>9
  <2> QED
    BY Zenon, <2>1, <2>2
<1>16. CASE peer = Extended
  <2>1. End("refused")
    <3> HIDE DEF plain, inIe, next
    <3> QED
      BY Zenon, <1>9, <1>14, <1>15, <1>16
  <2> QED
    BY Zenon, <1>1, <1>16, <2>1, SingleRefused
<1>17. CASE peer = Untouched
  <2>1. ~Tok.extended
    BY Zenon, <1>9, <1>11, <1>17
  <2>2. Len(wire) = 1 + Len(y) /\ Len(y) \in {0, 1}
    BY Zenon, <1>6, <1>7
  <2> DEFINE k == 1 + Len(y)
  <2>3. Advance(k, {<<a.variant, n>>})
    <3>1. \/ \E x \in plain :
                    IF x.l = Null THEN Advance(1, {<<x.variant, 0>>})
                    ELSE Advance(2, {<<x.variant, Decoded(x.l, next.n)>>})
          \/ \E x \in inIe : Advance(2, {<<x.f, Decoded(x.l, next.n)>>})
      <4> HIDE DEF plain, inIe, next
      <4> QED
        BY Zenon, <1>14, <1>15, <2>1
    <3> HIDE DEF plain, inIe, next
    <3>2. CASE \E x \in plain :
                    IF x.l = Null THEN Advance(1, {<<x.variant, 0>>})
                    ELSE Advance(2, {<<x.variant, Decoded(x.l, next.n)>>})
      <4>1. PICK x \in plain :
                    IF x.l = Null THEN Advance(1, {<<x.variant, 0>>})
                    ELSE Advance(2, {<<x.variant, Decoded(x.l, next.n)>>})
        BY Zenon, <3>2
      <4>2. x.variant = a.variant /\ x.l = a.l /\ a.id = <<>> /\ (x.l # Null => next.n = n)
        BY Zenon, <1>15
      <4>3. CASE a.l = Null
        <5>1. k = 1
          BY <4>2, <4>3, EmptyFacts DEF ArmToks
        <5>2. n = 0
          BY <4>3 DEF Number, Null
        <5>3. Advance(1, {<<x.variant, 0>>})
          BY Zenon, <4>1, <4>2, <4>3
        <5> HIDE DEF k, n, a
        <5> QED
          BY Zenon, <4>2, <5>1, <5>2, <5>3
      <4>4. CASE a.l # Null
        <5>1. k = 2
          BY <4>2, <4>4, OneFacts DEF ArmToks
        <5>2. Advance(2, {<<x.variant, Decoded(x.l, next.n)>>})
          BY Zenon, <4>1, <4>2, <4>4
        <5>3. x.variant = a.variant /\ Decoded(x.l, next.n) = n
          BY Zenon, <1>12, <4>2, <4>4
        <5> HIDE DEF k, n, a
        <5> QED
          BY Zenon, <5>1, <5>2, <5>3
      <4> QED
        BY Zenon, <4>3, <4>4
    <3>3. CASE \E x \in inIe : Advance(2, {<<x.f, Decoded(x.l, next.n)>>})
      <4>1. PICK x \in inIe : Advance(2, {<<x.f, Decoded(x.l, next.n)>>})
        BY Zenon, <3>3
      <4>2. x.f = a.variant /\ x.l = a.l /\ next.n = n /\ a.id # <<>>
        BY Zenon, <1>15
      <4>3. k = 2
        BY <4>2, OneFacts DEF ArmToks
      <4>4. Decoded(x.l, next.n) = n
        BY Zenon, <1>12, <4>2
      <4> HIDE DEF k, n, a
      <4> QED
        BY Zenon, <4>1, <4>2, <4>3, <4>4
    <3> QED
      BY Zenon, <3>1, <3>2, <3>3
  <2> HIDE DEF p, e, d, a, n, t, y, plain, inIe, next
  <2>4. Advance(k, SingleGot(Program, val))
    BY Zenon, <1>13, <2>3 DEF p
  <2>5. k = Len(wire) /\ k \in Nat
    BY <2>2
  <2> HIDE DEF k
  <2> QED
    BY Zenon, <1>1, <1>17, <2>4, <2>5, SingleReads
<1> QED
  BY Zenon, <1>5, <1>16, <1>17

\* The invariant holds before the encoder's statement.
LEMMA SingleInitially ==
  ASSUME CodecInit
  PROVE  SingleInv
BY Zenon DEF CodecInit, SingleInv

\* What a choice, enumeration or procedure never runs.
LEMMA SingleNotOthers ==
  ASSUME Typed(Program), IsSingle(Program), val \in ValuesOf(Program.encode), SingleInv,
         \/ EncodeHeader \/ EncodeField \/ EncodeNone \/ EncodeIe \/ EncodeExtensions \/ EncodeIes
         \/ PeerReorders \/ PeerOmits \/ PeerRepeats \/ PeerAdds \/ PeerAppends
         \/ DecodeHeader \/ DecodeField \/ DecodeNone \/ DecodeLength \/ DecodeIe \/ DecodeRequire
  PROVE  FALSE
<1>1. /\ Len(Program.encode) = 1 /\ Len(Program.decode) = 1
      /\ Program.encode[1].op \in {"choice", "enum", "procedure"}
      /\ Program.decode[1].op = Program.encode[1].op
  BY Zenon, SingleFacts
<1>2. ASSUME NEW ops, Encoding(ops) PROVE Program.encode[1].op \in ops
  <2>1. phase = "encode" /\ pc <= 1 /\ Program.encode[pc].op \in ops
    BY Zenon, <1>1, <1>2 DEF Encoding, Encoder, Program
  <2>2. pc = 1
    BY <2>1 DEF SingleInv
  <2> QED
    BY Zenon, <2>1, <2>2
<1>3. ASSUME NEW ops, Decoding(ops) PROVE Program.encode[1].op \in ops
  <2>1. phase = "decode" /\ pc <= 1 /\ Program.decode[pc].op \in ops
    BY Zenon, <1>1, <1>3 DEF Decoding, Decoder, Program
  <2>2. pc = 1
    BY <2>1 DEF SingleInv
  <2> QED
    BY Zenon, <1>1, <2>1, <2>2
<1>4. ASSUME Disturbable({"ies"}) \/ Disturbable({"header", "ies"}) PROVE FALSE
  BY Zenon, <1>1, <1>4 DEF Disturbable, Decoder, Program
<1>5. CASE EncodeHeader
  BY Zenon, <1>1, <1>2, <1>5 DEF EncodeHeader
<1>6. CASE EncodeField
  BY Zenon, <1>1, <1>2, <1>6 DEF EncodeField
<1>7. CASE EncodeNone
  BY Zenon, <1>1, <1>2, <1>7 DEF EncodeNone
<1>8. CASE EncodeIe
  BY Zenon, <1>1, <1>2, <1>8 DEF EncodeIe
<1>9. CASE EncodeExtensions
  BY Zenon, <1>1, <1>2, <1>9 DEF EncodeExtensions
<1>10. CASE EncodeIes
  BY Zenon, <1>1, <1>2, <1>10 DEF EncodeIes
<1>11. CASE PeerReorders \/ PeerOmits \/ PeerRepeats \/ PeerAdds \/ PeerAppends
  BY Zenon, <1>4, <1>11 DEF PeerReorders, PeerOmits, PeerRepeats, PeerAdds, PeerAppends
<1>12. CASE DecodeHeader
  BY Zenon, <1>1, <1>3, <1>12 DEF DecodeHeader
<1>13. CASE DecodeField
  BY Zenon, <1>1, <1>3, <1>13 DEF DecodeField
<1>14. CASE DecodeNone
  BY Zenon, <1>1, <1>3, <1>14 DEF DecodeNone
<1>15. CASE DecodeLength
  BY Zenon, <1>1, <1>3, <1>15 DEF DecodeLength
<1>16. CASE DecodeIe
  BY Zenon, <1>1, <1>3, <1>16 DEF DecodeIe
<1>17. CASE DecodeRequire
  BY Zenon, <1>1, <1>3, <1>17 DEF DecodeRequire
<1> QED
  BY Zenon, <1>5, <1>6, <1>7, <1>8, <1>9, <1>10, <1>11, <1>12, <1>13, <1>14, <1>15, <1>16, <1>17

\* Every step keeps the invariant of a choice, enumeration or outcome.
LEMMA SinglePreserved ==
  ASSUME Typed(Program), IsSingle(Program), val \in ValuesOf(Program.encode), SingleInv,
         [CodecNext]_codecVars
  PROVE  SingleInv'
<1>1. CASE EncodeChoice \/ EncodeEnum \/ EncodeProcedure
  BY Zenon, <1>1, SingleEncode
<1>2. CASE Send
  BY Zenon, <1>2, SingleSend
<1>3. CASE PeerExtends
  BY Zenon, <1>3, SingleExtends
<1>4. CASE Receive
  BY Zenon, <1>4, SingleReceive
<1>5. CASE DecodeChoice
  BY Zenon, <1>5, SingleDecodeChoice
<1>6. CASE DecodeEnum
  BY Zenon, <1>6, SingleDecodeEnum
<1>7. CASE DecodeProcedure
  BY Zenon, <1>7, SingleDecodeProcedure
<1>8. CASE DecodeEnds
  BY Zenon, <1>8, SingleDecodeEnds
<1>9. CASE UNCHANGED codecVars
  BY Zenon, <1>9, Stutters DEF SingleInv
<1>10. CASE \/ EncodeHeader \/ EncodeField \/ EncodeNone \/ EncodeIe \/ EncodeExtensions \/ EncodeIes
            \/ PeerReorders \/ PeerOmits \/ PeerRepeats \/ PeerAdds \/ PeerAppends
            \/ DecodeHeader \/ DecodeField \/ DecodeNone \/ DecodeLength \/ DecodeIe \/ DecodeRequire
  BY Zenon, <1>10, SingleNotOthers
<1> QED
  BY Zenon, <1>1, <1>2, <1>3, <1>4, <1>5, <1>6, <1>7, <1>8, <1>9, <1>10 DEF CodecNext

\* The invariant says that the value is read back, or refused if extended.
LEMMA SingleRight ==
  ASSUME Typed(Program), IsSingle(Program), val \in ValuesOf(Program.encode), SingleInv
  PROVE  RoundTrip /\ PeerUnderstood
<1> DEFINE p == Program
           e == p.encode[1]
<1>1. /\ DOMAIN p.encode = {1} /\ e.op \in {"choice", "enum", "procedure"} /\ val.edge \in {"lo", "hi"}
  BY Zenon, SingleFacts
<1>2. Elements(Encoder) = {e}
  BY Zenon, <1>1 DEF Elements, Encoder, Program
<1>3. Written = {}
  BY Zenon, <1>1, <1>2 DEF Written
<1>4. ~UsesSetupRelease
  BY Zenon, <1>3 DEF UsesSetupRelease
<1>5. ValueSent = SingleGot(p, val)
  <2>1. CASE e.op = "enum"
    <3>1. EnumMatch(p.encode, p.decode)
      BY Zenon, <2>1, SingleFacts
    <3>2. EnumIndex(p, val) = IF val.edge = "lo" THEN 0 ELSE e.hi
      BY Zenon, <3>1 DEF EnumMatch, EnumIndex
    <3> HIDE DEF p, e
    <3>3. ValueSent = {<<"", IF val.edge = "lo" THEN 0 ELSE e.hi>>}
      <4> DEFINE F(s) == IF s.op # "enum" THEN {} ELSE {<<"", IF val.edge = "lo" THEN 0 ELSE s.hi>>}
                 A == {<<s.f, Number(s.l, val.edge)>> : s \in Written}
                 B == UNION {IF s.op \notin {"choice", "procedure"} THEN {}
                             ELSE {<<s.arms[val.arm].variant, Number(s.arms[val.arm].l, val.edge)>>} :
                                s \in Elements(Encoder)}
                 C == UNION {IF s.op # "enum" THEN {}
                             ELSE {<<"", IF val.edge = "lo" THEN 0 ELSE s.hi>>} : s \in Elements(Encoder)}
      <4>1. A = {}
        BY Zenon, <1>3
      <4>2. B = {}
        BY Zenon, <1>2, <2>1
      <4>3. F(e) = {<<"", IF val.edge = "lo" THEN 0 ELSE e.hi>>}
        BY Zenon, <2>1
      <4>4. C = F(e)
        <5>1. C = UNION {F(s) : s \in Elements(Encoder)}
          BY Zenon
        <5> HIDE DEF C, F
        <5> QED
          BY Zenon, <1>2, <5>1
      <4>5. ValueSent = A \cup B \cup C
        BY Zenon DEF ValueSent
      <4> HIDE DEF A, B, C, F
      <4> QED
        BY Zenon, <4>1, <4>2, <4>3, <4>4, <4>5
    <3> QED
      BY Zenon, <2>1, <3>2, <3>3 DEF SingleGot, e
  <2>2. CASE e.op \in {"choice", "procedure"}
    <3>1. SingleGot(p, val) = {<<e.arms[val.arm].variant, Number(e.arms[val.arm].l, val.edge)>>}
      BY Zenon, <2>2 DEF SingleGot, ArmOf
    <3> HIDE DEF p, e
    <3>2. ValueSent = {<<e.arms[val.arm].variant, Number(e.arms[val.arm].l, val.edge)>>}
      BY Zenon, <1>2, <1>3, <2>2 DEF ValueSent
    <3> QED
      BY Zenon, <3>1, <3>2
  <2> QED
    BY Zenon, <1>1, <2>1, <2>2
<1>6. /\ peer \in {Untouched, Extended}
      /\ phase \in {"encode", "sent", "decode", "done", "refused"}
      /\ phase = "done" => peer = Untouched /\ pos = Len(wire) + 1 /\ got = SingleGot(p, val)
      /\ phase = "refused" => peer = Extended
  BY Zenon DEF SingleInv
<1>7. Untouched # Extended /\ Extended.what = "extended"
  BY Zenon DEF Untouched, Extended
<1> HIDE DEF p, e
<1>8. phase \in Final => phase \in {"done", "refused"}
  BY Zenon, <1>6 DEF Final
<1>9. RoundTrip
  BY Zenon, <1>4, <1>5, <1>6, <1>7, <1>8 DEF RoundTrip
<1>10. PeerUnderstood
  BY Zenon, <1>6, <1>7, <1>8 DEF PeerUnderstood
<1> QED
  BY Zenon, <1>9, <1>10

-----------------------------------------------------------------------------
(* Sequences and single values.                                            *)

\* The IEs of a sequence's extension container come first in encode_inner.
IsFields(p) == \E k \in 0..Len(p.encode) : FieldsMatch(p.encode, p.decode, k)
Lead(p) == CHOOSE k \in 0..Len(p.encode) : FieldsMatch(p.encode, p.decode, k)

BitOf(v, c, b) == CASE b = "false" -> FALSE
                    [] b = "num_ies" -> c # <<>>
                    [] OTHER -> b \in v.present
BitsOf(p, v, c, i) == [b \in DOMAIN p.encode[i].bits |-> BitOf(v, c, p.encode[i].bits[b])]
TokenOf(p, v, c, i) ==
  IF p.encode[i].op = "header" THEN Header(p.encode[i].ext, BitsOf(p, v, c, i))
  ELSE [tok |-> "value", l |-> p.encode[i].l, f |-> p.encode[i].f,
        n |-> Number(p.encode[i].l, v.edge)]

\* Statement i writes one token to the wire; where it is.
Writes(p, v, i) ==
  \/ p.encode[i].op = "header"
  \/ IsPut(p.encode[i]) /\ Included(p, v, i) /\ p.encode[i].l # Null
WritesBefore(p, v, i) == {j \in (Lead(p) + 1)..(i - 1) : Writes(p, v, j)}
At(p, v, i) == 1 + Cardinality(WritesBefore(p, v, i))

HasContainer(p, c) == p.encode[Len(p.encode)].op = "extensions" /\ c # <<>>
Extra(p, c, i) == IF i > Len(p.encode) /\ HasContainer(p, c) THEN 1 + Len(c) ELSE 0

IeToks(p, v, i) == {IeTok(p, v, j) : j \in {h \in 1..Lead(p) : h < i /\ Included(p, v, h)}}
InContainer(p, v, c, i) == c \in Seq(Elements(c)) /\ Elements(c) = IeToks(p, v, i)
OnWire(p, v, c, w, i) ==
  /\ w \in Seq(Elements(w))
  /\ Len(w) = At(p, v, i) - 1 + Extra(p, c, i)
  /\ \A j \in (Lead(p) + 1)..(i - 1) :
        Writes(p, v, j) => At(p, v, j) < At(p, v, i) /\ w[At(p, v, j)] = TokenOf(p, v, c, j)
  /\ Extra(p, c, i) # 0 =>
        /\ w[At(p, v, i)] = Length(Len(c))
        /\ \A m \in 1..Len(c) : w[At(p, v, i) + m] = c[m]
IsSetupRelease(e) == e.l.kind = "setup release"
Implemented(p, v, i) ==
  \A j \in (Lead(p) + 1)..(i - 1) :
     IsPut(p.encode[j]) /\ Included(p, v, j) => ~IsSetupRelease(p.encode[j])
Encoded1(p, v, c, w, i) == InContainer(p, v, c, i) /\ OnWire(p, v, c, w, i) /\ Implemented(p, v, i)

FieldsGot(p, v, i) ==
  {Carries(p, v, j) : j \in {h \in (Lead(p) + 1)..(i - 1) :
                                h <= Len(p.encode) /\ IsPut(p.encode[h]) /\ Included(p, v, h)}}
IesGot(c, m) == {<<c[q].f, c[q].n>> : q \in 1..m}

Least(a, b) == IF a <= b THEN a ELSE b

IsHeader(e) == e.op = "header"

\* decode_inner is before statement j: at which token, which bits it has
\* read, how many IEs its loop has still to read and what it has filled.
Reading(p, v, c, j, at, bits, n, g) ==
  /\ j \in 1..(Len(p.decode) + 1)
  /\ j > 1 /\ IsHeader(p.encode[Lead(p) + 1]) => bits = BitsOf(p, v, c, Lead(p) + 1)
  /\ n = 0 =>
        /\ at = At(p, v, Least(Lead(p) + j, Len(p.encode) + 1)) + Extra(p, c, Lead(p) + j)
        /\ g = FieldsGot(p, v, Lead(p) + j) \cup
                 IesGot(c, IF Extra(p, c, Lead(p) + j) = 0 THEN 0 ELSE Len(c))
  /\ n # 0 =>
        /\ n \in 1..Len(c) /\ Lead(p) + j = Len(p.encode) /\ HasContainer(p, c)
        /\ at = At(p, v, Lead(p) + j) + 1 + (Len(c) - n)
        /\ g = FieldsGot(p, v, Lead(p) + j) \cup IesGot(c, Len(c) - n)

Appended == [what |-> "appended", f |-> ""]

FieldsInv ==
  /\ peer \in {Untouched, Appended}
  /\ phase \in {"encode", "unimplemented"} => peer = Untouched
  /\ phase \in {"encode", "sent", "decode", "done", "unimplemented"}
  /\ phase = "encode" => /\ pc \in 1..(Len(Program.encode) + 1)
                         /\ Encoded1(Program, val, container, wire, pc)
  /\ phase \in {"sent", "decode", "done"} =>
        Encoded1(Program, val, container, wire, Len(Program.encode) + 1)
  /\ phase \in {"encode", "sent"} => pos = 1 /\ left = 0 /\ got = {}
  /\ phase = "decode" => Reading(Program, val, container, pc, pos, optionals, left, got)
  /\ phase = "done" => got = ValueSent /\ pos = Len(wire) + 1
  /\ phase = "unimplemented" => UsesSetupRelease

-----------------------------------------------------------------------------
(* Sequences and single values.                                            *)

\* The number of IEs in front is one the programs match for.
LEMMA LeadMatches ==
  ASSUME NEW p, IsFields(p)
  PROVE  Lead(p) \in 0..Len(p.encode) /\ FieldsMatch(p.encode, p.decode, Lead(p))
BY Zenon DEF IsFields, Lead

\* The position moves by what a statement writes. The lemmas about sequences
\* assume it, and AtDoesCount shows it once they are through.
AtCounts ==
  \A p, v : \A i \in Nat : Lead(p) \in Nat =>
     /\ At(p, v, i) \in Nat \ {0}
     /\ i > Lead(p) => At(p, v, i + 1) = At(p, v, i) + (IF Writes(p, v, i) THEN 1 ELSE 0)
     /\ i <= Lead(p) + 1 => At(p, v, i) = 1

\* The same, of one program and value.
LEMMA AtNext ==
  ASSUME AtCounts, NEW p, NEW v, Lead(p) \in Nat, NEW i \in Nat
  PROVE  /\ At(p, v, i) \in Nat \ {0}
         /\ i > Lead(p) => At(p, v, i + 1) = At(p, v, i) + (IF Writes(p, v, i) THEN 1 ELSE 0)
         /\ i <= Lead(p) + 1 => At(p, v, i) = 1
BY Zenon DEF AtCounts

\* Sizes and order of the two programs.
LEMMA FieldsFacts ==
  ASSUME NEW p, Typed(p), IsFields(p)
  PROVE  /\ Lead(p) \in Nat /\ Len(p.encode) \in Nat /\ Len(p.decode) \in Nat
         /\ DOMAIN p.encode = 1..Len(p.encode) /\ DOMAIN p.decode = 1..Len(p.decode)
         /\ Lead(p) < Len(p.encode) /\ Len(p.decode) >= 1
         /\ Len(p.encode) - Lead(p) <= Len(p.decode)
         /\ \A i \in 1..Lead(p) : p.encode[i].op \in {"put ie", "put ie if"}
         /\ Lead(p) > 0 => p.encode[Len(p.encode)].op = "extensions"
         /\ DistinctFields(p.encode)
<1>1. /\ Len(p.encode) \in Nat /\ DOMAIN p.encode = 1..Len(p.encode)
      /\ Len(p.decode) \in Nat /\ DOMAIN p.decode = 1..Len(p.decode)
  BY Zenon, SeqFacts DEF Typed
<1>2. Lead(p) \in 0..Len(p.encode) /\ FieldsMatch(p.encode, p.decode, Lead(p))
  BY Zenon, LeadMatches
<1> DEFINE enc == p.encode
           dec == p.decode
           k == Lead(p)
<1> HIDE DEF enc, dec, k
<1>3. FieldsMatch(enc, dec, k) /\ DOMAIN enc = 1..Len(enc) /\ Len(enc) \in Nat /\ k \in 0..Len(enc)
  BY Zenon, <1>1, <1>2 DEF enc, dec, k
<1>4. \A i \in 1..k : enc[i].op \in {"put ie", "put ie if"}
  <2> TAKE i \in 1..k
  <2>1. i \in DOMAIN enc /\ i <= k
    BY <1>3
  <2>2. IsIe(enc[i])
    BY Zenon, <1>3, <2>1 DEF FieldsMatch
  <2> QED
    BY Zenon, <2>2 DEF IsIe
<1>5. /\ k < Len(enc) /\ Len(dec) >= 1 /\ Len(enc) - k <= Len(dec)
      /\ k > 0 => enc[Len(enc)].op = "extensions"
      /\ DistinctFields(enc)
  BY Zenon, <1>3 DEF FieldsMatch
<1>6. k \in Nat
  BY <1>3
<1> QED
  BY Zenon, <1>1, <1>4, <1>5, <1>6 DEF enc, dec, k

\* What the decoder's statement j and the encoder's statement it reads are.
Pair(p, j, i, e, d, h) ==
  /\ i <= Len(p.encode) =>
       \/ e.op = "header" /\ d.op = "header" /\ j = 1
          /\ d.ext = e.ext /\ DOMAIN e.bits = 1..d.n /\ d.n \in Nat
       \/ e.op = "put" /\ d.op = "get" /\ d.f = e.f /\ d.l = e.l /\ Fits(e.l)
       \/ e.op = "put if" /\ d.op = "get if" /\ d.f = e.f /\ d.l = e.l /\ Fits(e.l)
          /\ h.op = "header" /\ d.bit \in DOMAIN h.bits /\ h.bits[d.bit] = e.f
          /\ e.f \notin {"false", "num_ies"}
       \/ e.op = "extensions" /\ d.op = "extensions" /\ j = Len(p.decode) /\ i = Len(p.encode)
          /\ h.op = "header" /\ d.bit \in DOMAIN h.bits /\ h.bits[d.bit] = "num_ies"
          /\ \A q \in 1..Lead(p) : Knows(d.ies, p.encode[q].id, p.encode[q].f, p.encode[q].l)
  /\ i > Len(p.encode) =>
       d.op = "extensions" /\ h.op = "header" /\ d.bit \in DOMAIN h.bits /\ h.bits[d.bit] = "false"

\* Each statement of the decoder and the one it reads the token of.
LEMMA FieldsPair ==
  ASSUME NEW p, Typed(p), IsFields(p), NEW j \in 1..Len(p.decode)
  PROVE  Pair(p, j, Lead(p) + j, p.encode[Lead(p) + j], p.decode[j], p.encode[Lead(p) + 1])
<1> DEFINE i == Lead(p) + j
           e == p.encode[i]
           d == p.decode[j]
           h == p.encode[Lead(p) + 1]
<1> SUFFICES Pair(p, j, i, e, d, h)
  BY Zenon
<1>1. /\ Len(p.encode) \in Nat /\ Len(p.decode) \in Nat /\ Lead(p) \in Nat
      /\ Lead(p) < Len(p.encode) /\ Len(p.encode) - Lead(p) <= Len(p.decode)
  BY Zenon, FieldsFacts
<1>2. FieldsMatch(p.encode, p.decode, Lead(p))
  BY Zenon, LeadMatches
<1>3. CASE i <= Len(p.encode)
  <2>1. j \in 1..(Len(p.encode) - Lead(p))
    BY <1>1, <1>3
  <2>2. /\ Reads1(p.encode, Lead(p), e, d)
        /\ e.op = "header" => j = 1
        /\ e.op = "extensions" => j = Len(p.decode)
    BY Zenon, <1>2, <2>1 DEF FieldsMatch
  <2>0. i \in Nat
    BY <1>1
  <2> HIDE DEF e, d, i
  <2>3. CASE e.op = "header"
    <3>1. d.op = "header" /\ d.ext = e.ext /\ DOMAIN e.bits = 1..d.n /\ d.n \in Nat
      BY Zenon, <2>2, <2>3 DEF Reads1
    <3> HIDE DEF h
    <3> QED
      BY <1>1, <1>3, <2>0, <2>2, <2>3, <3>1 DEF Pair
  <2>4. CASE e.op = "put"
    <3>1. d = Get(e.f, e.l) /\ Fits(e.l)
      BY Zenon, <2>2, <2>4 DEF Reads1
    <3>2. d.op = "get" /\ d.f = e.f /\ d.l = e.l
      BY Zenon, <3>1 DEF Get
    <3> HIDE DEF h
    <3> QED
      BY <1>1, <1>3, <2>0, <2>4, <3>1, <3>2 DEF Pair
  <2>5. CASE e.op = "put if"
    <3>1. d = GetIf(d.bit, e.f, e.l) /\ Fits(e.l) /\ HasBit(p.encode, Lead(p), d, e.f)
          /\ e.f \notin {"false", "num_ies"}
      BY Zenon, <2>2, <2>5 DEF Reads1
    <3>2. PICK b : d = GetIf(b, e.f, e.l)
      BY Zenon, <3>1
    <3>3. d.op = "get if" /\ d.f = e.f /\ d.l = e.l
      BY Zenon, <3>2 DEF GetIf
    <3>4. Fits(e.l) /\ HasBit(p.encode, Lead(p), d, e.f) /\ e.f \notin {"false", "num_ies"}
      BY Zenon, <3>1
    <3>5. h.op = "header" /\ d.bit \in DOMAIN h.bits /\ h.bits[d.bit] = e.f
      BY Zenon, <3>4 DEF HasBit
    <3>6. ~(i > Len(p.encode))
      BY <1>1, <1>3, <2>0
    <3> HIDE DEF h
    <3> QED
      BY <2>5, <3>3, <3>4, <3>5, <3>6, Zenon DEF Pair
  <2>6. CASE e.op = "extensions"
    <3>1. i = Len(p.encode)
      BY <1>1, <1>3, <2>2, <2>6 DEF i
    <3>2. d.op = "extensions" /\ HasBit(p.encode, Lead(p), d, "num_ies")
      BY Zenon, <2>2, <2>6 DEF Reads1
    <3>3. \A q \in 1..Lead(p) : Knows(d.ies, p.encode[q].id, p.encode[q].f, p.encode[q].l)
      BY Zenon, <2>2, <2>6 DEF Reads1
    <3>4. h.op = "header" /\ d.bit \in DOMAIN h.bits /\ h.bits[d.bit] = "num_ies"
      BY Zenon, <3>2 DEF HasBit
    <3>5. j = Len(p.decode) /\ ~(i > Len(p.encode))
      BY <1>1, <1>3, <2>0, <2>2, <2>6
    <3> HIDE DEF h
    <3> QED
      BY <2>6, <3>1, <3>2, <3>3, <3>4, <3>5, Zenon DEF Pair
  <2> QED
    BY Zenon, <2>2, <2>3, <2>4, <2>5, <2>6 DEF Reads1
<1>4. CASE i > Len(p.encode)
  <2>1. j \in (Len(p.encode) - Lead(p) + 1)..Len(p.decode)
    BY <1>1, <1>4
  <2>2. d.op = "extensions" /\ HasBit(p.encode, Lead(p), d, "false")
    BY Zenon, <1>2, <2>1 DEF FieldsMatch
  <2>3. h.op = "header" /\ d.bit \in DOMAIN h.bits /\ h.bits[d.bit] = "false"
    BY Zenon, <2>2 DEF HasBit
  <2> HIDE DEF h, e, d
  <2> QED
    BY <1>1, <1>4, <2>2, <2>3 DEF Pair
<1> QED
  BY <1>1, <1>3, <1>4

\* What the encoder's statement i after the lead is.
LEMMA FieldsStatement ==
  ASSUME NEW p, Typed(p), IsFields(p), NEW i \in (Lead(p) + 1)..Len(p.encode)
  PROVE  /\ p.encode[i].op \in {"header", "put", "put if", "extensions"}
         /\ p.encode[i].op = "header" => i = Lead(p) + 1
         /\ p.encode[i].op = "extensions" => i = Len(p.encode)
<1>1. /\ Len(p.encode) \in Nat /\ Len(p.decode) \in Nat /\ Lead(p) \in Nat
      /\ Len(p.encode) - Lead(p) <= Len(p.decode)
  BY Zenon, FieldsFacts
<1> DEFINE j == i - Lead(p)
<1>2. j \in 1..Len(p.decode) /\ i = Lead(p) + j /\ i <= Len(p.encode)
  BY <1>1
<1> HIDE DEF j
<1>3. \/ p.encode[i].op = "header" /\ j = 1
      \/ p.encode[i].op = "put"
      \/ p.encode[i].op = "put if"
      \/ p.encode[i].op = "extensions" /\ i = Len(p.encode)
  <2>1. Pair(p, j, i, p.encode[i], p.decode[j], p.encode[Lead(p) + 1])
    BY Zenon, <1>2, FieldsPair
  <2> QED
    BY Zenon, <1>2, <2>1 DEF Pair
<1> QED
  BY Zenon, <1>1, <1>2, <1>3

-----------------------------------------------------------------------------
(* One statement of encode_inner.                                          *)

\* An IE put into the container writes nothing to the wire.
LEMMA LeadStep ==
  ASSUME AtCounts, NEW p, NEW v, NEW c, NEW cc, NEW w, Typed(p), IsFields(p),
         NEW i \in 1..Lead(p), OnWire(p, v, c, w, i), Implemented(p, v, i)
  PROVE  OnWire(p, v, cc, w, i + 1) /\ Implemented(p, v, i + 1)
<1>1. /\ Len(p.encode) \in Nat /\ Lead(p) \in Nat /\ Lead(p) < Len(p.encode)
  BY Zenon, FieldsFacts
<1>2. At(p, v, i) = 1 /\ At(p, v, i + 1) = 1
  BY <1>1, AtNext
<1>3. Extra(p, c, i) = 0 /\ Extra(p, cc, i + 1) = 0
  BY <1>1 DEF Extra
<1>4. (Lead(p) + 1)..((i + 1) - 1) = {} /\ (Lead(p) + 1)..(i - 1) = {}
  BY <1>1
<1> QED
  BY Zenon, <1>2, <1>3, <1>4 DEF OnWire, Implemented

\* Any other statement writes at most its token, after all earlier ones.
LEMMA WriteStep ==
  ASSUME AtCounts, NEW p, NEW v, NEW c, NEW w, NEW t, Typed(p), IsFields(p),
         NEW i \in (Lead(p) + 1)..Len(p.encode), OnWire(p, v, c, w, i),
         p.encode[i].op # "extensions",
         t = IF Writes(p, v, i) THEN <<TokenOf(p, v, c, i)>> ELSE <<>>
  PROVE  OnWire(p, v, c, w \o t, i + 1)
<1>0. /\ Len(p.encode) \in Nat /\ Lead(p) \in Nat
  BY Zenon, FieldsFacts
<1>1. /\ Len(p.encode) \in Nat /\ Lead(p) \in Nat /\ i \in Nat
  BY <1>0
<1>2. /\ At(p, v, i) \in Nat \ {0}
      /\ At(p, v, i + 1) = At(p, v, i) + (IF Writes(p, v, i) THEN 1 ELSE 0)
  BY <1>1, AtNext
<1>3. Extra(p, c, i) = 0 /\ Extra(p, c, i + 1) = 0
  BY <1>1 DEF Extra, HasContainer
<1>4. /\ t \in Seq(Elements(t)) /\ Len(t) = (IF Writes(p, v, i) THEN 1 ELSE 0)
      /\ Writes(p, v, i) => t[1] = TokenOf(p, v, c, i)
  BY Zenon, OneFacts, EmptyFacts
<1>5. w \in Seq(Elements(w)) /\ Len(w) = At(p, v, i) - 1
  BY <1>2, <1>3 DEF OnWire
<1>6. /\ w \o t \in Seq(Elements(w \o t))
      /\ Len(w \o t) = Len(w) + Len(t)
      /\ \A q \in 1..Len(w) : (w \o t)[q] = w[q]
      /\ \A q \in 1..Len(t) : (w \o t)[Len(w) + q] = t[q]
  <2>1. w \in Seq(Elements(w)) /\ t \in Seq(Elements(t))
    BY ONLY Zenon, <1>4, <1>5
  <2>2. /\ w \o t \in Seq(Elements(w \o t))
        /\ Len(w \o t) = Len(w) + Len(t)
        /\ \A q \in 1..Len(w) : (w \o t)[q] = w[q]
        /\ \A q \in 1..Len(t) : (w \o t)[Len(w) + q] = t[q]
        /\ Elements(w \o t) = Elements(w) \cup Elements(t)
    BY ONLY Zenon, <2>1, ConcatFacts
  <2> QED
    BY ONLY Zenon, <2>2
<1>7. ASSUME NEW j \in (Lead(p) + 1)..i, Writes(p, v, j)
      PROVE  At(p, v, j) < At(p, v, i + 1) /\ (w \o t)[At(p, v, j)] = TokenOf(p, v, c, j)
  <2>1. At(p, v, j) \in Nat \ {0}
    BY <1>1, AtNext
  <2>2. CASE j = i
    BY <1>2, <1>4, <1>5, <1>6, <1>7, <2>2
  <2>3. CASE j # i
    <3>1. j \in (Lead(p) + 1)..(i - 1)
      BY <1>1, <2>3
    <3>2. At(p, v, j) < At(p, v, i) /\ w[At(p, v, j)] = TokenOf(p, v, c, j)
      BY Zenon, <1>7, <3>1 DEF OnWire
    <3>3. At(p, v, j) \in 1..Len(w)
      BY <1>2, <1>5, <2>1, <3>2
    <3> QED
      BY <1>2, <1>6, <3>2, <3>3, <2>1
  <2> QED
    BY Zenon, <2>2, <2>3
<1>8. Len(w \o t) = At(p, v, i + 1) - 1 + Extra(p, c, i + 1)
  BY <1>2, <1>3, <1>4, <1>5, <1>6
<1>9. (i + 1) - 1 = i
  BY <1>1
<1> QED
  BY Zenon, <1>3, <1>6, <1>7, <1>8, <1>9 DEF OnWire

\* The container comes last, behind its length.
LEMMA ExtensionsStep ==
  ASSUME AtCounts, NEW p, NEW v, NEW c, NEW w, NEW t, Typed(p), IsFields(p), c \in Seq(Elements(c)),
         OnWire(p, v, c, w, Len(p.encode)), p.encode[Len(p.encode)].op = "extensions",
         t = IF c # <<>> THEN <<Length(Len(c))>> \o c ELSE <<>>
  PROVE  OnWire(p, v, c, w \o t, Len(p.encode) + 1)
<1> DEFINE i == Len(p.encode)
<1>1. /\ i \in Nat /\ Lead(p) \in Nat /\ Lead(p) < i
  BY Zenon, FieldsFacts
<1>2. /\ At(p, v, i) \in Nat \ {0} /\ At(p, v, i + 1) = At(p, v, i)
  <2>1. ~Writes(p, v, i)
    BY Zenon DEF Writes, IsPut
  <2> QED
    BY <1>1, <2>1, AtNext
<1>3. Extra(p, c, i) = 0 /\ Extra(p, c, i + 1) = (IF c # <<>> THEN 1 + Len(c) ELSE 0)
  BY <1>1 DEF Extra, HasContainer
<1>4. /\ t \in Seq(Elements(t)) /\ Len(t) = Extra(p, c, i + 1)
      /\ c # <<>> => t[1] = Length(Len(c)) /\ \A m \in 1..Len(c) : t[1 + m] = c[m]
  <2>1. CASE c = <<>>
    BY Zenon, <1>3, <2>1, EmptyFacts
  <2>2. CASE c # <<>>
    <3> DEFINE o == <<Length(Len(c))>>
    <3>1. o \in Seq(Elements(o)) /\ Len(o) = 1 /\ o[1] = Length(Len(c))
      BY Zenon, OneFacts
    <3>2. t = o \o c
      BY Zenon, <2>2
    <3> HIDE DEF o
    <3>3. /\ o \o c \in Seq(Elements(o \o c)) /\ Len(o \o c) = Len(o) + Len(c)
          /\ \A q \in 1..Len(o) : (o \o c)[q] = o[q]
          /\ \A q \in 1..Len(c) : (o \o c)[Len(o) + q] = c[q]
      <4>1. c \in Seq(Elements(c)) /\ o \in Seq(Elements(o))
        BY Zenon, <3>1
      <4>2. /\ o \o c \in Seq(Elements(o \o c)) /\ Len(o \o c) = Len(o) + Len(c)
            /\ \A q \in 1..Len(o) : (o \o c)[q] = o[q]
            /\ \A q \in 1..Len(c) : (o \o c)[Len(o) + q] = c[q]
            /\ Elements(o \o c) = Elements(o) \cup Elements(c)
        BY ONLY <4>1, ConcatFacts
      <4> QED
        BY ONLY Zenon, <4>2
    <3> QED
      BY SMTT(30), <1>3, <2>2, <3>1, <3>2, <3>3
  <2> QED
    BY Zenon, <2>1, <2>2
<1>5. w \in Seq(Elements(w)) /\ Len(w) = At(p, v, i) - 1
  BY <1>2, <1>3 DEF OnWire
<1>6. /\ w \o t \in Seq(Elements(w \o t))
      /\ Len(w \o t) = Len(w) + Len(t)
      /\ \A q \in 1..Len(w) : (w \o t)[q] = w[q]
      /\ \A q \in 1..Len(t) : (w \o t)[Len(w) + q] = t[q]
  <2>1. w \in Seq(Elements(w)) /\ t \in Seq(Elements(t))
    BY ONLY Zenon, <1>4, <1>5
  <2>2. /\ w \o t \in Seq(Elements(w \o t))
        /\ Len(w \o t) = Len(w) + Len(t)
        /\ \A q \in 1..Len(w) : (w \o t)[q] = w[q]
        /\ \A q \in 1..Len(t) : (w \o t)[Len(w) + q] = t[q]
        /\ Elements(w \o t) = Elements(w) \cup Elements(t)
    BY ONLY Zenon, <2>1, ConcatFacts
  <2> QED
    BY ONLY Zenon, <2>2
<1>7. ASSUME NEW j \in (Lead(p) + 1)..i, Writes(p, v, j)
      PROVE  At(p, v, j) < At(p, v, i + 1) /\ (w \o t)[At(p, v, j)] = TokenOf(p, v, c, j)
  <2>1. At(p, v, j) \in Nat \ {0}
    BY <1>1, AtNext
  <2>2. j # i
    BY Zenon, <1>7 DEF Writes, IsPut
  <2>3. j \in (Lead(p) + 1)..(i - 1)
    BY <1>1, <2>2
  <2>4. At(p, v, j) < At(p, v, i) /\ w[At(p, v, j)] = TokenOf(p, v, c, j)
    BY Zenon, <1>7, <2>3 DEF OnWire
  <2>5. At(p, v, j) \in 1..Len(w)
    BY <1>2, <1>5, <2>1, <2>4
  <2> QED
    BY Zenon, <1>2, <1>6, <2>1, <2>4, <2>5
<1>8. Len(w \o t) = At(p, v, i + 1) - 1 + Extra(p, c, i + 1)
  BY Zenon, <1>2, <1>3, <1>4, <1>5, <1>6
<1>9. (i + 1) - 1 = i
  BY <1>1
<1>10. ASSUME Extra(p, c, i + 1) # 0
       PROVE  /\ (w \o t)[At(p, v, i + 1)] = Length(Len(c))
              /\ \A m \in 1..Len(c) : (w \o t)[At(p, v, i + 1) + m] = c[m]
  <2>1. c # <<>> /\ Len(t) = 1 + Len(c) /\ Len(c) \in Nat
    BY Zenon, <1>3, <1>4, <1>10, SeqFacts
  <2>2. (w \o t)[Len(w) + 1] = t[1] /\ Len(w) + 1 = At(p, v, i + 1)
    BY SMTT(30), <1>2, <1>5, <1>6, <2>1
  <2>3. \A m \in 1..Len(c) : (w \o t)[Len(w) + (1 + m)] = t[1 + m]
    BY <1>6, <2>1
  <2>4. \A m \in 1..Len(c) : At(p, v, i + 1) + m = Len(w) + (1 + m)
    BY <1>2, <1>5, <2>1
  <2> QED
    BY Zenon, <1>4, <2>1, <2>2, <2>3, <2>4
<1> QED
  BY Zenon, <1>6, <1>7, <1>8, <1>9, <1>10 DEF OnWire

IsExtensions(e) == e.op = "extensions"

\* The statements such programs have.
LEMMA FieldsOps ==
  ASSUME NEW p, Typed(p), IsFields(p)
  PROVE  /\ \A i \in 1..Len(p.encode) :
               p.encode[i].op \in {"put ie", "put ie if", "header", "put", "put if", "extensions"}
         /\ \A j \in 1..Len(p.decode) : p.decode[j].op \in {"header", "get", "get if", "extensions"}
         /\ p.decode[1].op \in {"header", "get", "get if", "extensions"}
<1>1. /\ Len(p.encode) \in Nat /\ Len(p.decode) \in Nat /\ Lead(p) \in Nat /\ Len(p.decode) >= 1
  BY Zenon, FieldsFacts
<1>0. \A i \in 1..Lead(p) : p.encode[i].op \in {"put ie", "put ie if"}
  BY Zenon, FieldsFacts
<1>2. ASSUME NEW i \in 1..Len(p.encode)
      PROVE  p.encode[i].op \in {"put ie", "put ie if", "header", "put", "put if", "extensions"}
  <2>1. CASE i <= Lead(p)
    <3>1. i \in 1..Lead(p)
      BY <1>1, <2>1
    <3> QED
      BY Zenon, <1>0, <3>1
  <2>2. CASE ~(i <= Lead(p))
    <3>1. i \in (Lead(p) + 1)..Len(p.encode)
      BY <1>1, <2>2
    <3> QED
      BY Zenon, <3>1, FieldsStatement
  <2> QED
    BY Zenon, <2>1, <2>2
<1>3. ASSUME NEW j \in 1..Len(p.decode)
      PROVE  p.decode[j].op \in {"header", "get", "get if", "extensions"}
  <2>1. Pair(p, j, Lead(p) + j, p.encode[Lead(p) + j], p.decode[j], p.encode[Lead(p) + 1])
    BY Zenon, FieldsPair
  <2>2. Lead(p) + j <= Len(p.encode) \/ Lead(p) + j > Len(p.encode)
    BY <1>1
  <2> QED
    BY Zenon, <2>1, <2>2 DEF Pair
<1>4. 1 \in 1..Len(p.decode)
  BY <1>1
<1> QED
  BY Zenon, <1>2, <1>3, <1>4

\* What an IE statement adds to the container.
LEMMA IeToksNext ==
  ASSUME NEW p, NEW v, Lead(p) \in Nat, NEW i \in Nat
  PROVE  /\ i \in 1..Lead(p) /\ Included(p, v, i) =>
              IeToks(p, v, i + 1) = IeToks(p, v, i) \cup {IeTok(p, v, i)}
         /\ ~(i \in 1..Lead(p) /\ Included(p, v, i)) => IeToks(p, v, i + 1) = IeToks(p, v, i)
<1> DEFINE Earlier(m) == {h \in 1..Lead(p) : h < m /\ Included(p, v, h)}
<1>1. ASSUME i \in 1..Lead(p), Included(p, v, i) PROVE Earlier(i + 1) = Earlier(i) \cup {i}
  BY <1>1
<1>2. ASSUME ~(i \in 1..Lead(p) /\ Included(p, v, i)) PROVE Earlier(i + 1) = Earlier(i)
  BY <1>2
<1>3. \A m : IeToks(p, v, m) = {IeTok(p, v, j) : j \in Earlier(m)}
  BY Zenon DEF IeToks
<1> HIDE DEF Earlier
<1> QED
  BY <1>1, <1>2, <1>3

\* A statement that is no SetupRelease may be encoded.
LEMMA ImplementedNext ==
  ASSUME NEW p, NEW v, Lead(p) \in Nat, NEW i \in Nat, Implemented(p, v, i),
         IsPut(p.encode[i]) /\ Included(p, v, i) => ~IsSetupRelease(p.encode[i])
  PROVE  Implemented(p, v, i + 1)
<1> SUFFICES ASSUME NEW j \in (Lead(p) + 1)..((i + 1) - 1), IsPut(p.encode[j]), Included(p, v, j)
             PROVE  ~IsSetupRelease(p.encode[j])
  BY Zenon DEF Implemented
<1>1. j = i \/ j \in (Lead(p) + 1)..(i - 1)
  OBVIOUS
<1> QED
  BY Zenon, <1>1 DEF Implemented

\* The statements of encode_inner, with p, v, c and w for the state.
LEMMA EncodedNext ==
  ASSUME AtCounts, NEW p, NEW v, NEW c, NEW w, NEW t, Typed(p), IsFields(p),
         NEW i \in 1..Len(p.encode), Encoded1(p, v, c, w, i),
         ~IsExtensions(p.encode[i]),
         IsIe(p.encode[i]) => ~Included(p, v, i) /\ t = <<>>,
         ~IsIe(p.encode[i]) => t = (IF Writes(p, v, i) THEN <<TokenOf(p, v, c, i)>> ELSE <<>>),
         IsPut(p.encode[i]) /\ Included(p, v, i) => ~IsSetupRelease(p.encode[i])
  PROVE  Encoded1(p, v, c, w \o t, i + 1)
<1>1. /\ Len(p.encode) \in Nat /\ Lead(p) \in Nat /\ Lead(p) < Len(p.encode)
  BY Zenon, FieldsFacts
<1>0. \A q \in 1..Lead(p) : p.encode[q].op \in {"put ie", "put ie if"}
  BY Zenon, FieldsFacts
<1>9. i \in Nat
  BY <1>1
<1>2. InContainer(p, v, c, i) /\ OnWire(p, v, c, w, i) /\ Implemented(p, v, i)
  BY Zenon DEF Encoded1
<1>3. CASE i \in 1..Lead(p)
  <2>1. IsIe(p.encode[i])
    BY Zenon, <1>0, <1>3 DEF IsIe
  <2>2. OnWire(p, v, c, w, i + 1) /\ Implemented(p, v, i + 1)
    BY Zenon, <1>2, <1>3, LeadStep
  <2>3. InContainer(p, v, c, i + 1)
    <3>1. IeToks(p, v, i + 1) = IeToks(p, v, i)
      BY <1>1, <1>9, <2>1, IeToksNext
    <3> QED
      BY Zenon, <1>2, <3>1 DEF InContainer
  <2>4. w \o t = w
    BY Zenon, <1>2, <2>1, NothingAdded DEF OnWire
  <2> QED
    BY Zenon, <2>2, <2>3, <2>4 DEF Encoded1
<1>4. CASE ~(i \in 1..Lead(p))
  <2>0. i \in (Lead(p) + 1)..Len(p.encode)
    BY <1>1, <1>4
  <2>1. ~IsIe(p.encode[i])
    BY Zenon, <2>0, FieldsStatement DEF IsIe
  <2>2. OnWire(p, v, c, w \o t, i + 1)
    BY Zenon, <1>2, <2>0, <2>1, WriteStep DEF IsExtensions
  <2>3. InContainer(p, v, c, i + 1)
    <3>1. IeToks(p, v, i + 1) = IeToks(p, v, i)
      <4>1. ~(i \in 1..Lead(p) /\ Included(p, v, i))
        BY Zenon, <1>4
      <4> QED
        BY ONLY <1>1, <1>9, <4>1, IeToksNext
    <3> QED
      BY Zenon, <1>2, <3>1 DEF InContainer
  <2>4. Implemented(p, v, i + 1)
    BY Zenon, <1>1, <1>2, <1>9, ImplementedNext
  <2> QED
    BY Zenon, <2>2, <2>3, <2>4 DEF Encoded1
<1> QED
  BY Zenon, <1>3, <1>4

\* What is encoded after a statement that puts an IE.
LEMMA IeEncodedNext ==
  ASSUME AtCounts, NEW p, NEW v, NEW c, NEW w, Typed(p), IsFields(p),
         NEW i \in 1..Len(p.encode), Encoded1(p, v, c, w, i),
         IsIe(p.encode[i]), Included(p, v, i)
  PROVE  Encoded1(p, v, Append(c, IeTok(p, v, i)), w, i + 1)
<1>1. /\ Len(p.encode) \in Nat /\ Lead(p) \in Nat
  BY Zenon, FieldsFacts
<1>2. i \in 1..Lead(p)
  <2> SUFFICES ASSUME ~(i \in 1..Lead(p)) PROVE FALSE
    BY Zenon
  <2>1. i \in (Lead(p) + 1)..Len(p.encode)
    BY <1>1
  <2> QED
    BY Zenon, <2>1, FieldsStatement DEF IsIe
<1>3. InContainer(p, v, c, i) /\ OnWire(p, v, c, w, i) /\ Implemented(p, v, i)
  BY Zenon DEF Encoded1
<1>4. \A cc : OnWire(p, v, cc, w, i + 1) /\ Implemented(p, v, i + 1)
  BY Zenon, <1>2, <1>3, LeadStep
<1> DEFINE x == IeTok(p, v, i)
<1>5. IeToks(p, v, i + 1) = IeToks(p, v, i) \cup {x}
  BY <1>1, <1>2, IeToksNext
<1> HIDE DEF x
<1>6. /\ Append(c, x) \in Seq(Elements(Append(c, x)))
      /\ Elements(Append(c, x)) = Elements(c) \cup {x}
  BY Zenon, <1>3, AppendFacts DEF InContainer
<1>7. InContainer(p, v, Append(c, x), i + 1)
  BY Zenon, <1>3, <1>5, <1>6 DEF InContainer
<1> QED
  BY Zenon, <1>4, <1>7 DEF Encoded1, x

\* What is encoded after the container.
LEMMA ExtensionsEncoded ==
  ASSUME AtCounts, NEW p, NEW v, NEW c, NEW w, NEW t, Typed(p), IsFields(p),
         NEW i \in 1..Len(p.encode), Encoded1(p, v, c, w, i), IsExtensions(p.encode[i]),
         t = IF c # <<>> THEN <<Length(Len(c))>> \o c ELSE <<>>
  PROVE  Encoded1(p, v, c, w \o t, i + 1)
<1>1. /\ Len(p.encode) \in Nat /\ Lead(p) \in Nat /\ Lead(p) < Len(p.encode)
  BY Zenon, FieldsFacts
<1>0. \A q \in 1..Lead(p) : p.encode[q].op \in {"put ie", "put ie if"}
  BY Zenon, FieldsFacts
<1>9. i \in Nat
  BY <1>1
<1>2. InContainer(p, v, c, i) /\ OnWire(p, v, c, w, i) /\ Implemented(p, v, i)
  BY Zenon DEF Encoded1
<1>3. ~(i \in 1..Lead(p))
  BY Zenon, <1>0 DEF IsExtensions
<1>4. i \in (Lead(p) + 1)..Len(p.encode)
  BY <1>1, <1>3
<1>5. i = Len(p.encode)
  BY Zenon, <1>4, FieldsStatement DEF IsExtensions
<1>6. OnWire(p, v, c, w \o t, i + 1)
  BY Zenon, <1>2, <1>5, ExtensionsStep DEF InContainer, IsExtensions
<1>7. InContainer(p, v, c, i + 1)
  <2>1. IeToks(p, v, i + 1) = IeToks(p, v, i)
    BY <1>1, <1>9, <1>3, IeToksNext
  <2> QED
    BY Zenon, <1>2, <2>1 DEF InContainer
<1>8. Implemented(p, v, i + 1)
  <2>1. ~IsPut(p.encode[i])
    BY Zenon DEF IsPut, IsExtensions
  <2> QED
    BY Zenon, <1>1, <1>2, <1>9, <2>1, ImplementedNext
<1> QED
  BY Zenon, <1>6, <1>7, <1>8 DEF Encoded1

\* A step of the encoder, if the tokens written are those of its statement.
LEMMA FieldsEncodedStep ==
  ASSUME FieldsInv, phase = "encode", NEW t, Encoded(t), pc \in 1..Len(Program.encode),
         Len(Program.encode) \in Nat, Encoded1(Program, val, container, wire \o t, pc + 1)
  PROVE  FieldsInv'
<1>1. /\ phase' = "encode" /\ pc' = pc + 1 /\ peer' = peer /\ pos' = pos /\ left' = left /\ got' = got
      /\ Program' = Program /\ val' = val /\ container' = container /\ wire' = wire \o t
  BY Zenon DEF Encoded, Program
<1>2. pc' \in 1..(Len(Program.encode) + 1)
  BY <1>1
<1>3. Encoded1(Program', val', container', wire', pc')
  BY Zenon, <1>1
<1> QED
  BY Zenon, <1>1, <1>2, <1>3 DEF FieldsInv

\* The header has the presence bits of the value and of the container.
LEMMA FieldsEncodeHeader ==
  ASSUME AtCounts, Typed(Program), IsFields(Program), FieldsInv, EncodeHeader
  PROVE  FieldsInv'
<1> DEFINE e == Program.encode[pc]
           t == <<Header(e.ext, BitsOf(Program, val, container, pc))>>
<1>1. phase = "encode" /\ pc <= Len(Program.encode) /\ e.op = "header"
  BY Zenon DEF EncodeHeader, Encoding, Encoder, Program
<1>2. Encoded(t)
  <2>1. S = e
    BY Zenon, <1>1 DEF S, Encoder, Program
  <2>2. [i \in DOMAIN S.bits |-> Bit(S.bits[i])] = BitsOf(Program, val, container, pc)
    BY Zenon, <2>1 DEF BitsOf, Bit, BitOf
  <2> QED
    BY Zenon, <2>1, <2>2 DEF EncodeHeader
<1>3. Len(Program.encode) \in Nat
  BY Zenon, FieldsFacts
<1>4. pc \in 1..Len(Program.encode) /\ Encoded1(Program, val, container, wire, pc)
  BY <1>1, <1>3 DEF FieldsInv
<1>5. Encoded1(Program, val, container, wire \o t, pc + 1)
  <2>1. ~IsIe(e) /\ ~IsExtensions(e) /\ ~IsPut(e) /\ Writes(Program, val, pc)
        /\ t = <<TokenOf(Program, val, container, pc)>>
    BY Zenon, <1>1 DEF IsIe, IsExtensions, IsPut, Writes, TokenOf
  <2> HIDE DEF t
  <2> QED
    BY Zenon, <1>4, <2>1, EncodedNext
<1> QED
  BY Zenon, <1>1, <1>2, <1>3, <1>4, <1>5, FieldsEncodedStep

\* A field is written behind the tokens before it, or has no codec.
LEMMA FieldsEncodeField ==
  ASSUME AtCounts, Typed(Program), IsFields(Program), FieldsInv, EncodeField
  PROVE  FieldsInv'
<1> DEFINE e == Program.encode[pc]
           t == Values(e.l, e.f)
<1>0. phase = "encode" /\ pc <= Len(Program.encode)
  BY Zenon DEF EncodeField, Encoding, Encoder, Program
<1>1. /\ phase = "encode" /\ pc <= Len(Program.encode) /\ e.op \in {"put", "put if"}
      /\ S = e /\ (e.op = "put if" => e.f \in val.present)
  BY Zenon DEF EncodeField, Encoding, Encoder, Program, S
<1>2. IsPut(e) /\ Included(Program, val, pc)
  BY Zenon, <1>1 DEF IsPut, Included
<1>3. Len(Program.encode) \in Nat
  BY Zenon, FieldsFacts
<1>4. pc \in 1..Len(Program.encode) /\ Encoded1(Program, val, container, wire, pc)
  BY <1>0, <1>3 DEF FieldsInv
<1>5. CASE IsSetupRelease(e)
  <2>1. End("unimplemented")
    BY Zenon, <1>1, <1>5 DEF EncodeField, IsSetupRelease
  <2>2. UsesSetupRelease
    <3>1. e \in Written
      <4>1. pc \in DOMAIN Encoder
        BY Zenon, <1>4, FieldsFacts DEF Encoder, Program
      <4>2. e \in Elements(Encoder)
        BY Zenon, <4>1 DEF Elements, Encoder, Program
      <4> QED
        BY Zenon, <1>1, <4>2 DEF Written
    <3> QED
      BY Zenon, <1>5, <3>1 DEF UsesSetupRelease, IsSetupRelease
  <2>3. UsesSetupRelease'
    <3>1. Encoder' = Encoder /\ val' = val
      BY Zenon, <2>1 DEF End, Encoder
    <3>2. Written' = Written
      BY Zenon, <3>1 DEF Written
    <3> QED
      BY Zenon, <2>2, <3>2 DEF UsesSetupRelease
  <2>4. peer' = Untouched
    BY Zenon, <1>0, <2>1 DEF FieldsInv, End
  <2> QED
    BY Zenon, <2>1, <2>3, <2>4 DEF FieldsInv, End
<1>6. CASE ~IsSetupRelease(e)
  <2>1. Encoded(t)
    BY Zenon, <1>1, <1>6 DEF EncodeField, IsSetupRelease
  <2>2. ~IsIe(e) /\ ~IsExtensions(e)
    BY Zenon, <1>1 DEF IsIe, IsExtensions
  <2>3. t = (IF Writes(Program, val, pc) THEN <<TokenOf(Program, val, container, pc)>> ELSE <<>>)
    BY Zenon, <1>1, <1>2 DEF Values, Value, Writes, TokenOf
  <2>4. Encoded1(Program, val, container, wire \o t, pc + 1)
    <3> HIDE DEF t
    <3> QED
      BY Zenon, <1>4, <1>6, <2>2, <2>3, EncodedNext
  <2> QED
    BY Zenon, <1>1, <1>3, <1>4, <2>1, <2>4, FieldsEncodedStep
<1> QED
  BY Zenon, <1>5, <1>6

\* An Option field that is None leaves no token.
LEMMA FieldsEncodeNone ==
  ASSUME AtCounts, Typed(Program), IsFields(Program), FieldsInv, EncodeNone
  PROVE  FieldsInv'
<1> DEFINE e == Program.encode[pc]
           t == <<>>
<1>0. phase = "encode" /\ pc <= Len(Program.encode)
  BY Zenon DEF EncodeNone, Encoding, Encoder, Program
<1>1. /\ phase = "encode" /\ pc <= Len(Program.encode) /\ e.op \in {"put if", "put ie if"}
      /\ e.f \notin val.present
  BY Zenon DEF EncodeNone, Encoding, Encoder, Program, S
<1>2. Encoded(t)
  BY Zenon DEF EncodeNone
<1>3. Len(Program.encode) \in Nat
  BY Zenon, FieldsFacts
<1>4. pc \in 1..Len(Program.encode) /\ Encoded1(Program, val, container, wire, pc)
  BY <1>0, <1>3 DEF FieldsInv
<1>5. Encoded1(Program, val, container, wire \o t, pc + 1)
  <2>1. ~IsExtensions(e) /\ ~Included(Program, val, pc) /\ ~Writes(Program, val, pc)
    BY Zenon, <1>1 DEF IsExtensions, IsPut, Writes, Included
  <2> QED
    BY Zenon, <1>4, <2>1, EncodedNext
<1> QED
  BY Zenon, <1>1, <1>2, <1>3, <1>4, <1>5, FieldsEncodedStep

\* An extension IE is counted.
LEMMA FieldsEncodeIe ==
  ASSUME AtCounts, Typed(Program), IsFields(Program), FieldsInv, EncodeIe
  PROVE  FieldsInv'
<1> DEFINE e == Program.encode[pc]
           cc == Append(container, IeTok(Program, val, pc))
<1>0. phase = "encode" /\ pc <= Len(Program.encode)
  BY Zenon DEF EncodeIe, Encoding, Encoder, Program
<1>1. /\ phase = "encode" /\ pc <= Len(Program.encode) /\ e.op \in {"put ie", "put ie if"}
      /\ S = e /\ (e.op = "put ie if" => e.f \in val.present)
  BY Zenon DEF EncodeIe, Encoding, Encoder, Program, S
<1>2. IsIe(e) /\ Included(Program, val, pc)
  BY Zenon, <1>1 DEF IsIe, Included
<1>3. Len(Program.encode) \in Nat
  BY Zenon, FieldsFacts
<1>4. pc \in 1..Len(Program.encode) /\ Encoded1(Program, val, container, wire, pc)
  BY <1>0, <1>3 DEF FieldsInv
<1>5. Encoded1(Program, val, cc, wire, pc + 1)
  BY Zenon, <1>2, <1>4, IeEncodedNext
<1>6. /\ phase' = "encode" /\ pc' = pc + 1 /\ peer' = peer /\ pos' = pos /\ left' = left /\ got' = got
      /\ Program' = Program /\ val' = val /\ container' = cc /\ wire' = wire
  BY Zenon, <1>1 DEF EncodeIe, Program, IeTok
<1>7. pc' \in 1..(Len(Program.encode) + 1)
  BY <1>3, <1>4, <1>6
<1> HIDE DEF cc
<1>8. Encoded1(Program', val', container', wire', pc')
  BY Zenon, <1>5, <1>6
<1> QED
  BY Zenon, <1>1, <1>6, <1>7, <1>8 DEF FieldsInv

\* The container is written if anything was counted.
LEMMA FieldsEncodeExtensions ==
  ASSUME AtCounts, Typed(Program), IsFields(Program), FieldsInv, EncodeExtensions
  PROVE  FieldsInv'
<1> DEFINE e == Program.encode[pc]
           t == IF container # <<>> THEN <<Length(Len(container))>> \o container ELSE <<>>
<1>1. /\ phase = "encode" /\ pc <= Len(Program.encode) /\ IsExtensions(e)
  BY Zenon DEF EncodeExtensions, Encoding, Encoder, Program, IsExtensions
<1>2. Encoded(t)
  BY Zenon DEF EncodeExtensions
<1>3. Len(Program.encode) \in Nat
  BY Zenon, FieldsFacts
<1>4. pc \in 1..Len(Program.encode) /\ Encoded1(Program, val, container, wire, pc)
  BY <1>1, <1>3 DEF FieldsInv
<1> HIDE DEF t
<1>5. Encoded1(Program, val, container, wire \o t, pc + 1)
  BY Zenon, <1>1, <1>4, ExtensionsEncoded DEF t
<1> QED
  BY Zenon, <1>1, <1>2, <1>3, <1>4, <1>5, FieldsEncodedStep

\* Sending leaves the tokens.
LEMMA FieldsSend ==
  ASSUME Typed(Program), IsFields(Program), FieldsInv, Send
  PROVE  FieldsInv'
<1>1. Len(Program.encode) \in Nat
  BY Zenon, FieldsFacts
<1>2. phase = "encode" /\ pc > Len(Program.encode) /\ phase' = "sent"
  BY Zenon DEF Send, End, Encoder, Program
<1>3. pc = Len(Program.encode) + 1
  BY <1>1, <1>2 DEF FieldsInv
<1>4. /\ peer' = peer /\ pos' = pos /\ left' = left /\ got' = got
      /\ Program' = Program /\ val' = val /\ container' = container /\ wire' = wire
  BY Zenon DEF Send, End, Program
<1>5. Encoded1(Program', val', container', wire', Len(Program'.encode) + 1)
  BY Zenon, <1>2, <1>3, <1>4 DEF FieldsInv
<1> QED
  BY Zenon, <1>2, <1>4, <1>5 DEF FieldsInv

\* What one more statement fills.
LEMMA GotNext ==
  ASSUME NEW p, NEW v, Lead(p) \in Nat, Len(p.encode) \in Nat, NEW i \in Nat, i > Lead(p)
  PROVE  FieldsGot(p, v, i + 1) =
           FieldsGot(p, v, i) \cup
             (IF i <= Len(p.encode) /\ IsPut(p.encode[i]) /\ Included(p, v, i)
              THEN {Carries(p, v, i)} ELSE {})
<1> DEFINE Puts(h) == h <= Len(p.encode) /\ IsPut(p.encode[h]) /\ Included(p, v, h)
           Earlier(m) == {h \in (Lead(p) + 1)..(m - 1) : Puts(h)}
<1>1. \A m : FieldsGot(p, v, m) = {Carries(p, v, j) : j \in Earlier(m)}
  BY Zenon DEF FieldsGot
<1> HIDE DEF Puts
<1>2. Earlier(i + 1) = Earlier(i) \cup (IF Puts(i) THEN {i} ELSE {})
  OBVIOUS
<1> HIDE DEF Earlier
<1>3. FieldsGot(p, v, i + 1) = FieldsGot(p, v, i) \cup (IF Puts(i) THEN {Carries(p, v, i)} ELSE {})
  BY <1>1, <1>2
<1> QED
  BY Zenon, <1>3 DEF Puts

\* A field is not filled before its statement.
LEMMA GotFresh ==
  ASSUME NEW p, NEW v, Typed(p), IsFields(p), NEW i \in (Lead(p) + 1)..Len(p.encode), IsPut(p.encode[i])
  PROVE  \A q \in FieldsGot(p, v, i) : q[1] # p.encode[i].f
<1> SUFFICES ASSUME NEW h \in (Lead(p) + 1)..(i - 1), IsPut(p.encode[h]),
                    p.encode[h].f = p.encode[i].f
             PROVE  FALSE
  BY DEF FieldsGot, Carries
<1>1. Lead(p) \in Nat /\ Len(p.encode) \in Nat /\ DOMAIN p.encode = 1..Len(p.encode)
  BY Zenon, FieldsFacts
<1>2. DistinctFields(p.encode)
  BY Zenon, FieldsFacts
<1>3. h \in DOMAIN p.encode /\ i \in DOMAIN p.encode /\ h # i
  BY <1>1
<1> QED
  BY Zenon, <1>2, <1>3 DEF DistinctFields

\* Where the token of a statement is in the encoded value.
LEMMA TokenAt ==
  ASSUME AtCounts, NEW p, NEW v, NEW c, NEW w, Typed(p), IsFields(p), c \in Seq(Elements(c)),
         OnWire(p, v, c, w, Len(p.encode) + 1),
         NEW i \in (Lead(p) + 1)..Len(p.encode), Writes(p, v, i)
  PROVE  At(p, v, i) <= Len(w) /\ w[At(p, v, i)] = TokenOf(p, v, c, i)
<1> DEFINE end == Len(p.encode) + 1
<1>1. Lead(p) \in Nat /\ Len(p.encode) \in Nat
  BY Zenon, FieldsFacts
<1>2. end - 1 = Len(p.encode)
  BY <1>1
<1>3. At(p, v, i) < At(p, v, end) /\ w[At(p, v, i)] = TokenOf(p, v, c, i)
  BY Zenon, <1>2 DEF OnWire
<1>4. At(p, v, end) \in Nat /\ At(p, v, i) \in Nat
  BY <1>1, AtNext
<1>5. Len(c) \in Nat
  BY Zenon, SeqFacts
<1>6. Extra(p, c, end) \in Nat
  BY <1>5 DEF Extra
<1>7. Len(w) = At(p, v, end) - 1 + Extra(p, c, end)
  BY Zenon DEF OnWire
<1> HIDE DEF end
<1> QED
  BY <1>3, <1>4, <1>6, <1>7

\* Where the container is.
ContainerOn(p, v, c, w) ==
  /\ At(p, v, Len(p.encode)) \in Nat /\ Len(c) \in Nat \ {0}
  /\ At(p, v, Len(p.encode) + 1) = At(p, v, Len(p.encode))
  /\ Extra(p, c, Len(p.encode) + 1) = 1 + Len(c)
  /\ Len(w) = At(p, v, Len(p.encode)) + Len(c)
  /\ w[At(p, v, Len(p.encode))] = Length(Len(c))
  /\ \A m \in 1..Len(c) : w[At(p, v, Len(p.encode)) + m] = c[m]

\* Where the container's length and IEs are.
LEMMA ContainerAt ==
  ASSUME AtCounts, NEW p, NEW v, NEW c, NEW w, Typed(p), IsFields(p), c \in Seq(Elements(c)),
         OnWire(p, v, c, w, Len(p.encode) + 1), HasContainer(p, c)
  PROVE  ContainerOn(p, v, c, w)
<1> DEFINE i == Len(p.encode)
<1>1. Lead(p) \in Nat /\ i \in Nat /\ Lead(p) < i
  BY Zenon, FieldsFacts
<1>2. ~Writes(p, v, i)
  BY Zenon DEF HasContainer, Writes, IsPut
<1> HIDE DEF i
<1>3. At(p, v, i) \in Nat /\ At(p, v, i + 1) = At(p, v, i)
  BY <1>1, <1>2, AtNext
<1>4. Len(c) \in Nat /\ Len(c) # 0
  BY SeqFacts DEF HasContainer
<1>5. Extra(p, c, i + 1) = 1 + Len(c)
  BY <1>1 DEF Extra, i
<1>6. OnWire(p, v, c, w, i + 1)
  BY Zenon DEF i
<1>7. /\ Len(w) = At(p, v, i + 1) - 1 + Extra(p, c, i + 1)
      /\ Extra(p, c, i + 1) # 0 =>
            /\ w[At(p, v, i + 1)] = Length(Len(c))
            /\ \A m \in 1..Len(c) : w[At(p, v, i + 1) + m] = c[m]
  BY Zenon, <1>6 DEF OnWire
<1>8. Extra(p, c, i + 1) # 0 /\ Len(w) = At(p, v, i) + Len(c)
  BY <1>3, <1>4, <1>5, <1>7
<1> QED
  BY Zenon, <1>3, <1>4, <1>5, <1>7, <1>8 DEF i, ContainerOn

\* Outside a loop, before a statement that encode_inner has too.
LEMMA ReadingPlain ==
  ASSUME AtCounts, NEW p, NEW v, NEW c, NEW j, NEW at, NEW bits, NEW n, NEW g, Typed(p), IsFields(p),
         Reading(p, v, c, j, at, bits, n, g), Lead(p) + j <= Len(p.encode),
         n = 0 \/ ~IsExtensions(p.encode[Lead(p) + j])
  PROVE  n = 0 /\ at = At(p, v, Lead(p) + j) /\ g = FieldsGot(p, v, Lead(p) + j)
<1>1. Lead(p) \in Nat /\ Len(p.encode) \in Nat /\ Len(p.decode) \in Nat
  BY Zenon, FieldsFacts
<1>2. j \in 1..(Len(p.decode) + 1)
  BY Zenon DEF Reading
<1>3. n = 0
  <2> SUFFICES ASSUME n # 0 PROVE FALSE
    BY Zenon
  <2>1. Lead(p) + j = Len(p.encode) /\ HasContainer(p, c)
    BY Zenon DEF Reading
  <2> QED
    BY Zenon, <2>1 DEF HasContainer, IsExtensions
<1> DEFINE i == Lead(p) + j
<1>4. i \in Nat /\ i <= Len(p.encode) /\ Least(i, Len(p.encode) + 1) = i
  BY <1>1, <1>2 DEF Least
<1> HIDE DEF i
<1>5. Extra(p, c, i) = 0
  BY <1>1, <1>4 DEF Extra
<1>6. /\ at = At(p, v, Least(i, Len(p.encode) + 1)) + Extra(p, c, i)
      /\ g = FieldsGot(p, v, i) \cup IesGot(c, IF Extra(p, c, i) = 0 THEN 0 ELSE Len(c))
  BY Zenon, <1>3 DEF Reading, i
<1>7. IesGot(c, 0) = {}
  BY DEF IesGot
<1>8. At(p, v, i) \in Nat
  BY Zenon, <1>1, <1>4, AtNext
<1>9. at = At(p, v, i)
  BY <1>4, <1>5, <1>6, <1>8
<1>10. g = FieldsGot(p, v, i)
  BY Zenon, <1>5, <1>6, <1>7
<1> QED
  BY Zenon, <1>3, <1>9, <1>10 DEF i

\* Past such a statement, if it is not the container.
LEMMA ReadingNext ==
  ASSUME AtCounts, NEW p, NEW v, NEW c, NEW j, NEW at, NEW bits, NEW g, Typed(p), IsFields(p),
         j \in 1..Len(p.decode), Lead(p) + j <= Len(p.encode),
         ~IsExtensions(p.encode[Lead(p) + j]),
         IsHeader(p.encode[Lead(p) + 1]) => bits = BitsOf(p, v, c, Lead(p) + 1),
         at = At(p, v, Lead(p) + j) + (IF Writes(p, v, Lead(p) + j) THEN 1 ELSE 0),
         g = FieldsGot(p, v, Lead(p) + j) \cup
               (IF IsPut(p.encode[Lead(p) + j]) /\ Included(p, v, Lead(p) + j)
                THEN {Carries(p, v, Lead(p) + j)} ELSE {})
  PROVE  Reading(p, v, c, j + 1, at, bits, 0, g)
<1> DEFINE i == Lead(p) + j
<1>1. Lead(p) \in Nat /\ Len(p.encode) \in Nat /\ Len(p.decode) \in Nat
  BY Zenon, FieldsFacts
<1>2. /\ i \in Nat /\ i > Lead(p) /\ i <= Len(p.encode) /\ Lead(p) + (j + 1) = i + 1
      /\ j + 1 \in 1..(Len(p.decode) + 1)
  BY SMTT(30), <1>1
<1>3. /\ ~IsExtensions(p.encode[i])
      /\ at = At(p, v, i) + (IF Writes(p, v, i) THEN 1 ELSE 0)
      /\ g = FieldsGot(p, v, i) \cup
               (IF IsPut(p.encode[i]) /\ Included(p, v, i) THEN {Carries(p, v, i)} ELSE {})
  BY Zenon
<1> HIDE DEF i
<1>4. Least(i + 1, Len(p.encode) + 1) = i + 1
  BY <1>1, <1>2 DEF Least
<1>5. Extra(p, c, i + 1) = 0
  <2>1. CASE i = Len(p.encode)
    <3>1. ~HasContainer(p, c)
      BY Zenon, <1>3, <2>1 DEF HasContainer, IsExtensions
    <3> QED
      BY Zenon, <3>1 DEF Extra
  <2>2. CASE i # Len(p.encode)
    <3>1. ~(i + 1 > Len(p.encode))
      BY <1>1, <1>2, <2>2
    <3> QED
      BY Zenon, <3>1 DEF Extra
  <2> QED
    BY Zenon, <2>1, <2>2
<1>6. At(p, v, i + 1) \in Nat /\ at = At(p, v, i + 1)
  BY ONLY AtCounts, <1>1, <1>2, <1>3, AtNext
<1>7. g = FieldsGot(p, v, i + 1)
  BY ONLY Zenon, <1>1, <1>2, <1>3, GotNext
<1>8. IesGot(c, 0) = {}
  BY DEF IesGot
<1>9. at = At(p, v, Least(i + 1, Len(p.encode) + 1)) + Extra(p, c, i + 1)
  BY ONLY <1>4, <1>5, <1>6
<1>10. g = FieldsGot(p, v, i + 1) \cup IesGot(c, IF Extra(p, c, i + 1) = 0 THEN 0 ELSE Len(c))
  BY ONLY Zenon, <1>5, <1>7, <1>8
<1> QED
  BY ZenonT(30), <1>2, <1>9, <1>10 DEF Reading

\* A step of the decoder, if it leaves the decoder where it says.
LEMMA FieldsRead ==
  ASSUME FieldsInv, phase = "decode", phase' = "decode", UNCHANGED <<codec, val, wire, container, peer>>,
         Reading(Program, val, container, pc', pos', optionals', left', got')
  PROVE  FieldsInv'
<1>1. /\ Program' = Program /\ val' = val /\ container' = container /\ wire' = wire /\ peer' = peer
  BY Zenon DEF Program
<1>2. Encoded1(Program', val', container', wire', Len(Program'.encode) + 1)
  BY Zenon, <1>1 DEF FieldsInv
<1>3. Reading(Program', val', container', pc', pos', optionals', left', got')
  BY Zenon, <1>1
<1> QED
  BY Zenon, <1>1, <1>2, <1>3 DEF FieldsInv

\* What holds while decoding.
LEMMA FieldsDecoding ==
  ASSUME Typed(Program), IsFields(Program), FieldsInv, phase = "decode"
  PROVE  /\ Reading(Program, val, container, pc, pos, optionals, left, got)
         /\ container \in Seq(Elements(container))
         /\ Elements(container) = IeToks(Program, val, Len(Program.encode) + 1)
         /\ OnWire(Program, val, container, wire, Len(Program.encode) + 1)
         /\ Implemented(Program, val, Len(Program.encode) + 1)
BY Zenon DEF FieldsInv, Encoded1, InContainer

\* The statement decode_inner is at, and the encoder's.
LEMMA FieldsAt ==
  ASSUME Typed(Program), IsFields(Program), FieldsInv, phase = "decode", pc <= Len(Program.decode)
  PROVE  /\ pc \in 1..Len(Program.decode) /\ S = Program.decode[pc]
         /\ Pair(Program, pc, Lead(Program) + pc, Program.encode[Lead(Program) + pc],
                 Program.decode[pc], Program.encode[Lead(Program) + 1])
<1>1. Reading(Program, val, container, pc, pos, optionals, left, got)
  BY Zenon, FieldsDecoding
<1>2. Len(Program.decode) \in Nat
  BY Zenon, FieldsFacts
<1>3. pc \in 1..Len(Program.decode)
  BY <1>1, <1>2 DEF Reading
<1>4. S = Program.decode[pc]
  BY Zenon DEF S, Decoder, Program
<1> QED
  BY Zenon, <1>3, <1>4, FieldsPair

\* A presence bit is a bit.
LEMMA BitIsBoolean ==
  ASSUME NEW v, NEW c, NEW b
  PROVE  BitOf(v, c, b) \in BOOLEAN
<1>1. CASE b = "false"
  BY Zenon, <1>1 DEF BitOf
<1>2. CASE b = "num_ies"
  <2>1. BitOf(v, c, b) = (c # <<>>)
    BY Zenon, <1>2 DEF BitOf
  <2> QED
    BY Zenon, <2>1
<1>3. CASE b # "false" /\ b # "num_ies"
  <2>1. BitOf(v, c, b) = (b \in v.present)
    BY Zenon, <1>3 DEF BitOf
  <2> QED
    BY <2>1
<1> QED
  BY Zenon, <1>1, <1>2, <1>3

\* Equal ranges have equal ends.
LEMMA SameRange ==
  ASSUME NEW m \in Nat, NEW n \in Nat, 1..m = 1..n
  PROVE  m = n
<1>1. m > 0 => m \in 1..n
  <2>1. m > 0 => m \in 1..m
    OBVIOUS
  <2> QED
    BY <2>1, Zenon
<1>2. n > 0 => n \in 1..m
  <2>1. n > 0 => n \in 1..n
    OBVIOUS
  <2> QED
    BY <2>1, Zenon
<1> QED
  BY <1>1, <1>2

\* As many bits are read as were written.
LEMMA BitsAreSeq ==
  ASSUME NEW p, NEW v, NEW c, NEW i, NEW n \in Nat, DOMAIN p.encode[i].bits = 1..n
  PROVE  Len(BitsOf(p, v, c, i)) = n
<1> DEFINE b == BitsOf(p, v, c, i)
<1>0. n \in Nat
  BY Zenon
<1>1. b \in [1..n -> BOOLEAN]
  <2> DEFINE x(q) == BitOf(v, c, p.encode[i].bits[q])
  <2>1. b = [q \in 1..n |-> x(q)]
    BY Zenon DEF BitsOf
  <2>2. \A q \in 1..n : x(q) \in BOOLEAN
    BY Zenon, BitIsBoolean
  <2> HIDE DEF x, b
  <2> QED
    BY ONLY Zenon, <2>1, <2>2
<1> HIDE DEF b
<1>2. b \in Seq(BOOLEAN)
  BY ONLY <1>1, n \in Nat
<1>3. Len(b) \in Nat /\ DOMAIN b = 1..Len(b) /\ DOMAIN b = 1..n
  BY <1>1, <1>2
<1>4. Len(b) = n
  BY ONLY Zenon, <1>0, <1>3, SameRange
<1> QED
  BY Zenon, <1>4 DEF b

\* A bit the decoder tests is the one the encoder set.
LEMMA BitRead ==
  ASSUME NEW p, NEW v, NEW c, NEW j, NEW at, NEW bits, NEW n, NEW g,
         Reading(p, v, c, j, at, bits, n, g), j > 1, IsHeader(p.encode[Lead(p) + 1]),
         NEW b \in DOMAIN p.encode[Lead(p) + 1].bits
  PROVE  bits[b] = BitOf(v, c, p.encode[Lead(p) + 1].bits[b])
BY Zenon DEF Reading, BitsOf

\* The decoder takes the header's bits.
LEMMA FieldsDecodeHeader ==
  ASSUME AtCounts, Typed(Program), IsFields(Program), FieldsInv, DecodeHeader
  PROVE  FieldsInv'
<1> DEFINE p == Program
           i == Lead(p) + pc
           e == p.encode[i]
           d == p.decode[pc]
           t == Header(e.ext, BitsOf(p, val, container, i))
<1>1. phase = "decode" /\ pc <= Len(p.decode)
  BY Zenon DEF DecodeHeader, Decoding, Decoder, Program
<1>2. d.op = "header"
  BY Zenon DEF DecodeHeader, Decoding, Decoder, Program
<1>3. /\ pc \in 1..Len(p.decode) /\ S = d
      /\ Pair(p, pc, i, e, d, p.encode[Lead(p) + 1])
  BY Zenon, <1>1, FieldsAt
<1>4. /\ Lead(p) \in Nat /\ Len(p.encode) \in Nat
  BY Zenon, FieldsFacts
<1>5. i \in Nat /\ i > Lead(p)
  BY <1>3, <1>4
<1>6. i <= Len(p.encode)
  <2>1. ~(i > Len(p.encode))
    BY ZenonT(30), <1>2, <1>3 DEF Pair
  <2> QED
    BY <1>4, <1>5, <2>1
<1>7. e.op = "header" /\ pc = 1 /\ d.ext = e.ext /\ DOMAIN e.bits = 1..d.n /\ d.n \in Nat
  BY ZenonT(30), <1>2, <1>3, <1>6 DEF Pair
<1>8. ~IsExtensions(e) /\ ~IsPut(e) /\ Writes(p, val, i) /\ TokenOf(p, val, container, i) = t
      /\ IsHeader(e)
  BY ZenonT(30), <1>7 DEF IsExtensions, IsPut, Writes, TokenOf, IsHeader
<1>9. left = 0 /\ pos = At(p, val, i) /\ got = FieldsGot(p, val, i)
  BY ZenonT(30), <1>1, <1>6, <1>8, FieldsDecoding, ReadingPlain
<1>10. Tok = t
  <2>1. At(p, val, i) <= Len(wire) /\ wire[At(p, val, i)] = TokenOf(p, val, container, i)
    <3>1. i \in (Lead(p) + 1)..Len(p.encode)
      BY <1>4, <1>5, <1>6
    <3> QED
      BY Zenon, <1>1, <1>8, <3>1, FieldsDecoding, TokenAt
  <2> QED
    BY ZenonT(30), <1>8, <1>9, <2>1 DEF Tok, Token
<1>11. Legible
  <2>1. Len(BitsOf(p, val, container, i)) = d.n
    BY <1>7, BitsAreSeq
  <2>2. Tok.tok = "header" /\ Tok.ext = e.ext /\ Tok.bits = BitsOf(p, val, container, i)
    BY Zenon, <1>10 DEF Header
  <2> QED
    BY ZenonT(30), <1>2, <1>3, <1>7, <2>1, <2>2 DEF Legible
<1>12. /\ optionals' = BitsOf(p, val, container, i) /\ pos' = pos + 1 /\ pc' = pc + 1 /\ phase' = "decode"
       /\ left' = left /\ got' = got /\ UNCHANGED <<codec, val, wire, container, peer>>
  BY Zenon, <1>1, <1>10, <1>11 DEF DecodeHeader, Header
<1>13. Lead(p) + 1 = i
  BY Zenon, <1>7
<1> HIDE DEF e, d, t, p, i
<1>14. Reading(p, val, container, pc + 1, pos + 1, optionals', 0, got)
  <2>1. /\ IsHeader(p.encode[Lead(p) + 1]) => optionals' = BitsOf(p, val, container, Lead(p) + 1)
        /\ pos + 1 = At(p, val, Lead(p) + pc) + (IF Writes(p, val, Lead(p) + pc) THEN 1 ELSE 0)
        /\ got = FieldsGot(p, val, Lead(p) + pc) \cup
               (IF IsPut(p.encode[Lead(p) + pc]) /\ Included(p, val, Lead(p) + pc)
                THEN {Carries(p, val, Lead(p) + pc)} ELSE {})
        /\ ~IsExtensions(p.encode[Lead(p) + pc]) /\ Lead(p) + pc <= Len(p.encode)
        /\ pc \in 1..Len(p.decode)
    BY Zenon, <1>3, <1>6, <1>8, <1>9, <1>12, <1>13 DEF e, i
  <2> QED
    BY ZenonT(30), <2>1, ReadingNext DEF p
<1>15. Reading(p, val, container, pc', pos', optionals', left', got')
  BY Zenon, <1>9, <1>12, <1>14
<1> QED
  BY Zenon, <1>1, <1>12, <1>15, FieldsRead DEF p

\* A field filled for the first time.
LEMMA FilledFresh ==
  ASSUME NEW f, NEW n, \A q \in got : q[1] # f
  PROVE  Filled(f, n) = got \cup {<<f, n>>}
BY Zenon DEF Filled

\* A presence bit read is that of the Option field.
LEMMA OptionBit ==
  ASSUME Typed(Program), IsFields(Program), FieldsInv, phase = "decode", pc <= Len(Program.decode),
         NEW h, h = Program.encode[Lead(Program) + 1], NEW b, h.op = "header",
         b \in DOMAIN h.bits, Program.encode[Lead(Program) + pc].op # "header"
  PROVE  optionals[b] = BitOf(val, container, h.bits[b])
<1>1. pc \in 1..Len(Program.decode)
  BY Zenon, FieldsAt
<1>2. Len(Program.decode) \in Nat
  BY Zenon, FieldsFacts
<1>3. pc # 1
  BY Zenon
<1>4. pc > 1
  BY ONLY <1>1, <1>2, <1>3
<1>5. Reading(Program, val, container, pc, pos, optionals, left, got)
  BY Zenon, FieldsDecoding
<1>6. IsHeader(h)
  BY Zenon DEF IsHeader
<1> QED
  BY <1>4, <1>5, <1>6, BitRead

\* A field that is present is read from the token written for it.
LEMMA FieldsDecodeField ==
  ASSUME AtCounts, Typed(Program), IsFields(Program), FieldsInv, DecodeField, val.edge \in {"lo", "hi"}
  PROVE  FieldsInv'
<1> DEFINE p == Program
           i == Lead(p) + pc
           e == p.encode[i]
           d == p.decode[pc]
           h == p.encode[Lead(p) + 1]
           n == Number(e.l, val.edge)
<1>1. phase = "decode" /\ pc <= Len(p.decode)
  BY Zenon DEF DecodeField, Decoding, Decoder, Program
<1>2. d.op \in {"get", "get if"}
  BY Zenon DEF DecodeField, Decoding, Decoder, Program
<1>3. /\ pc \in 1..Len(p.decode) /\ S = d
      /\ Pair(p, pc, i, e, d, h)
  BY Zenon, <1>1, FieldsAt
<1>4. /\ Lead(p) \in Nat /\ Len(p.encode) \in Nat
  BY Zenon, FieldsFacts
<1>5. i \in Nat /\ i > Lead(p)
  BY <1>3, <1>4
<1>6. i <= Len(p.encode)
  <2>1. ~(i > Len(p.encode))
    BY ZenonT(30), <1>2, <1>3 DEF Pair
  <2> QED
    BY <1>4, <1>5, <2>1
<1>7. /\ d.f = e.f /\ d.l = e.l /\ Fits(e.l)
      /\ \/ e.op = "put" /\ d.op = "get"
         \/ e.op = "put if" /\ d.op = "get if" /\ h.op = "header" /\ d.bit \in DOMAIN h.bits
            /\ h.bits[d.bit] = e.f /\ e.f \notin {"false", "num_ies"}
  BY Zenon, <1>2, <1>3, <1>6 DEF Pair
<1>8. Included(p, val, i)
  <2>1. CASE e.op = "put"
    BY Zenon, <2>1 DEF Included
  <2>2. CASE e.op # "put"
    <3>1. optionals[d.bit] = BitOf(val, container, h.bits[d.bit])
      BY ZenonT(30), <1>1, <1>7, <2>2, OptionBit
    <3>2. optionals[d.bit]
      BY ZenonT(30), <1>3, <1>7, <2>2 DEF DecodeField, Reads
    <3>3. e.f \in val.present
      BY ZenonT(30), <1>7, <2>2, <3>1, <3>2 DEF BitOf
    <3> QED
      BY ZenonT(30), <1>7, <2>2, <3>3 DEF Included
  <2> QED
    BY Zenon, <2>1, <2>2
<1>9. ~IsExtensions(e) /\ IsPut(e) /\ ~IsHeader(e)
  BY ZenonT(30), <1>7 DEF IsExtensions, IsPut, IsHeader
<1>10. left = 0 /\ pos = At(p, val, i) /\ got = FieldsGot(p, val, i)
  BY Zenon, <1>1, <1>6, <1>9, FieldsDecoding, ReadingPlain
<1>11. i \in (Lead(p) + 1)..Len(p.encode)
  BY <1>4, <1>5, <1>6
<1>12. ~IsSetupRelease(e)
  <2>1. (Len(p.encode) + 1) - 1 = Len(p.encode)
    BY <1>4
  <2>2. Implemented(p, val, Len(p.encode) + 1)
    BY Zenon, <1>1, FieldsDecoding
  <2> QED
    BY Zenon, <1>8, <1>9, <1>11, <2>1, <2>2 DEF Implemented
<1>13. \A m : Filled(e.f, m) = got \cup {<<e.f, m>>}
  BY <1>9, <1>10, <1>11, GotFresh, FilledFresh
<1>14. \E k \in {0, 1} : /\ k = (IF Writes(p, val, i) THEN 1 ELSE 0)
                         /\ Advance(k, got \cup {Carries(p, val, i)})
  <2>1. CASE e.l = Null
    <3>1. ~Writes(p, val, i)
      BY Zenon, <1>9, <2>1 DEF Writes, IsHeader
    <3>2. Legible
      BY Zenon, <1>2, <1>3, <1>7, <2>1 DEF Legible
    <3>3. Carries(p, val, i) = <<e.f, 0>>
      BY <2>1 DEF Carries, Number, Null
    <3>4. Advance(0, Filled(e.f, 0))
      BY ZenonT(30), <1>3, <1>7, <2>1, <3>2 DEF DecodeField
    <3> QED
      BY Zenon, <1>13, <3>1, <3>3, <3>4
  <2>2. CASE e.l # Null
    <3>1. Writes(p, val, i)
      BY Zenon, <1>8, <1>9, <2>2 DEF Writes
    <3>2. At(p, val, i) <= Len(wire) /\ wire[At(p, val, i)] = TokenOf(p, val, container, i)
      BY ZenonT(30), <1>1, <1>11, <3>1, FieldsDecoding, TokenAt
    <3>3. Tok = TokenOf(p, val, container, i)
      BY Zenon, <1>10, <3>2 DEF Tok, Token
    <3>4. TokenOf(p, val, container, i) = [tok |-> "value", l |-> e.l, f |-> e.f, n |-> n]
      BY Zenon, <1>9 DEF TokenOf, IsHeader
    <3>5. Tok.tok = "value" /\ Tok.l = e.l /\ Tok.n = n
      BY <3>3, <3>4
    <3>6. IsValue(pos, S.l)
      BY Zenon, <1>3, <1>7, <3>5 DEF IsValue, Tok
    <3>7. Legible
      BY ZenonT(30), <1>2, <1>3, <3>6 DEF Legible
    <3>8. Decoded(e.l, n) = n /\ ~Unwraps(e.l, n)
      BY ZenonT(30), <1>7, FitsEdge
    <3>9. ~(S.l.kind = "setup release")
      BY ZenonT(30), <1>3, <1>7, <1>12 DEF IsSetupRelease
    <3>10. S.l = e.l /\ S.f = e.f /\ S.l # Null
      BY Zenon, <1>3, <1>7, <2>2
    <3>11. Advance(1, Filled(e.f, n))
      <4> HIDE DEF e, n
      <4> QED
        BY Zenon, <3>5, <3>7, <3>8, <3>9, <3>10 DEF DecodeField
    <3>12. Carries(p, val, i) = <<e.f, n>>
      BY Zenon DEF Carries
    <3> QED
      BY Zenon, <1>13, <3>1, <3>11, <3>12
  <2> QED
    BY Zenon, <2>1, <2>2
<1>15. PICK k \in {0, 1} : /\ k = (IF Writes(p, val, i) THEN 1 ELSE 0)
                           /\ Advance(k, got \cup {Carries(p, val, i)})
  BY Zenon, <1>14
<1>16. /\ pos' = pos + k /\ pc' = pc + 1 /\ got' = got \cup {Carries(p, val, i)}
       /\ phase' = "decode" /\ left' = left /\ optionals' = optionals
       /\ UNCHANGED <<codec, val, wire, container, peer>>
  BY Zenon, <1>1, <1>15 DEF Advance
<1>17. IsHeader(h) => optionals = BitsOf(p, val, container, Lead(p) + 1)
  <2> SUFFICES ASSUME IsHeader(h) PROVE optionals = BitsOf(p, val, container, Lead(p) + 1)
    BY Zenon
  <2>1. pc # 1
    BY Zenon, <1>9
  <2>2. Len(p.decode) \in Nat
    BY Zenon, FieldsFacts
  <2>3. pc > 1
    BY ONLY <1>3, <2>1, <2>2
  <2> QED
    BY ZenonT(30), <1>1, <2>3, FieldsDecoding DEF Reading
<1> HIDE DEF e, d, n, p, i
<1>18. Reading(p, val, container, pc + 1, pos + k, optionals, 0, got \cup {Carries(p, val, i)})
  <2>1. /\ IsHeader(p.encode[Lead(p) + 1]) => optionals = BitsOf(p, val, container, Lead(p) + 1)
        /\ pos + k = At(p, val, Lead(p) + pc) + (IF Writes(p, val, Lead(p) + pc) THEN 1 ELSE 0)
        /\ got \cup {Carries(p, val, i)} = FieldsGot(p, val, Lead(p) + pc) \cup
               (IF IsPut(p.encode[Lead(p) + pc]) /\ Included(p, val, Lead(p) + pc)
                THEN {Carries(p, val, Lead(p) + pc)} ELSE {})
        /\ ~IsExtensions(p.encode[Lead(p) + pc]) /\ Lead(p) + pc <= Len(p.encode)
        /\ pc \in 1..Len(p.decode)
    BY Zenon, <1>3, <1>6, <1>8, <1>9, <1>10, <1>15, <1>17 DEF e, i
  <2> QED
    BY ZenonT(30), <2>1, ReadingNext DEF p
<1>19. Reading(p, val, container, pc', pos', optionals', left', got')
  BY Zenon, <1>10, <1>16, <1>18
<1> QED
  BY Zenon, <1>1, <1>16, <1>19, FieldsRead DEF p
=============================================================================
