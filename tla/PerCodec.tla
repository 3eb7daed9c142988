------------------------------- MODULE PerCodec -------------------------------
(***************************************************************************)
(* What the generated PER codecs do: one value of one type goes through    *)
(* its encode_inner and, perhaps sent otherwise by the peer, through its   *)
(* decode_inner, a statement at a time.                                    *)
(***************************************************************************)
EXTENDS PerLayout, FiniteSets

CONSTANTS
  CodecTables,  \* a set of tables: name of a type |-> its two programs
  Sampled       \* bound: only some presences of Option fields, and one disturbance

VARIABLES
  codec,   \* [name, program]: the type whose codec runs
  val,     \* which Option fields are Some, which variant, which end of each range
  phase,   \* "encode", "sent", "decode", or how the decoder ended
  pc,      \* the statement of the running program
  wire,    \* tokens written so far
  container, \* the encoder's second buffer, for IEs counted before they are written
  pos,     \* the decoder's offset in the wire
  optionals, \* the presence bits it read
  left,    \* IEs its loop has still to read
  got,     \* the fields it has filled: <<field, number>>
  peer     \* what the sender did otherwise than encode_inner, and to which field

codecVars == <<codec, val, phase, pc, wire, container, pos, optionals, left, got, peer>>

Final == {"done", "refused", "misread", "panicked", "unimplemented"}
Untouched == [what |-> "nothing", f |-> ""]
UnknownId == 65535

Encoder == codec.program.encode
Decoder == codec.program.decode
Elements(s) == {s[i] : i \in DOMAIN s}

OptionFields(program) == {s.f : s \in {t \in Elements(program) : t.op \in {"put if", "put ie if"}}}

\* The number a value carries: an integer, or the length of a list or array.
Number(l, edge) ==
  IF l.kind \in {"integer", "list", "array"} THEN IF edge = "lo" THEN l.lo ELSE l.hi ELSE 0

\* Two's complement casts; a negative number cast to u32 is beyond TLC's integers.
Cast(as, n) ==
  CASE as = "u8"  -> n % 256
    [] as = "u16" -> n % 65536
    [] as = "i8"  -> ((n + 128) % 256) - 128
    [] as = "i16" -> ((n + 32768) % 65536) - 32768
    [] as \in {"u32", "u64"} -> IF n < 0 THEN 2147483647 ELSE n
    [] OTHER -> n
Decoded(l, n) == IF l.kind = "integer" THEN Cast(l.as, n) ELSE n

\* unwrap() of an empty list, or of octets that do not fill the array.
Unwraps(l, n) == \/ l.kind = "list" /\ l.nonEmpty /\ n = 0
                 \/ l.kind = "array" /\ n # l.size

Value(l, f) == [tok |-> "value", l |-> l, f |-> f, n |-> Number(l, val.edge)]
Values(l, f) == IF l = Null THEN <<>> ELSE <<Value(l, f)>>
IeToken(id, l, f, edge) == [tok |-> "ie", id |-> id, l |-> l, f |-> f, n |-> Number(l, edge)]
Header(ext, present) == [tok |-> "header", ext |-> ext, bits |-> present]
Length(n) == [tok |-> "length", n |-> n]
Index(tok, s, idx) ==
  [tok |-> tok, lo |-> s.lo, hi |-> s.hi, ext |-> s.ext, idx |-> idx, extended |-> FALSE]

Patterns(options) ==
  {{}, options} \cup {{f} : f \in options} \cup {options \ {f} : f \in options}

Arms(program) ==
  LET arms == UNION {IF s.op \in {"choice", "procedure"} THEN DOMAIN s.arms ELSE {} :
                        s \in Elements(program)}
  IN  IF arms = {} THEN {0} ELSE arms

\* Any Option fields Some, any variant, either end of every range.
ValuesOf(program) ==
  [present : SUBSET OptionFields(program), arm : Arms(program), edge : {"lo", "hi"}]

\* Every Option field present, absent, alone and alone absent; every variant;
\* both ends of every range.
Samples(program) ==
  LET options == OptionFields(program)
  IN  [present : Patterns(options), arm : Arms(program), edge : {"lo"}]
        \cup [present : {options}, arm : Arms(program), edge : {"lo", "hi"}]

CodecInit ==
  /\ \E table \in CodecTables : \E name \in DOMAIN table :
        codec = [name |-> name, program |-> table[name]]
  /\ val \in IF Sampled THEN Samples(Encoder) ELSE ValuesOf(Encoder)
  /\ phase = "encode" /\ pc = 1 /\ wire = <<>> /\ container = <<>> /\ pos = 1
  /\ optionals = <<>> /\ left = 0 /\ got = {} /\ peer = Untouched

-----------------------------------------------------------------------------
(* encode_inner                                                            *)

\* The next statement of the running program is one of these.
Encoding(ops) == phase = "encode" /\ pc <= Len(Encoder) /\ Encoder[pc].op \in ops
S == IF phase = "encode" THEN Encoder[pc] ELSE Decoder[pc]

Encoded(tokens) ==
  /\ wire' = wire \o tokens
  /\ pc' = pc + 1
  /\ UNCHANGED <<codec, val, phase, container, pos, optionals, left, got, peer>>

End(how) ==
  /\ phase' = how
  /\ UNCHANGED <<codec, val, pc, wire, container, pos, optionals, left, got, peer>>

\* Mutant: the bit of the extension container is never set.
BitNoContainer(b) == b \notin {"false", "num_ies"} /\ b \in val.present
Bit(b) == CASE b = "false" -> FALSE
            [] b = "num_ies" -> container # <<>>
            [] OTHER -> b \in val.present

EncodeHeader ==
  /\ Encoding({"header"})
  /\ Encoded(<<Header(S.ext, [i \in DOMAIN S.bits |-> Bit(S.bits[i])])>>)

\* A mandatory field, or an Option field that is Some; SetupRelease::encode is todo!().
EncodeField ==
  /\ Encoding({"put", "put if"})
  /\ S.op = "put if" => S.f \in val.present
  /\ IF S.l.kind = "setup release" THEN End("unimplemented") ELSE Encoded(Values(S.l, S.f))

EncodeNone ==
  /\ Encoding({"put if", "put ie if"})
  /\ S.f \notin val.present
  /\ Encoded(<<>>)

\* An IE goes to a buffer of its own and is counted.
EncodeIe ==
  /\ Encoding({"put ie", "put ie if"})
  /\ S.op = "put ie if" => S.f \in val.present
  /\ container' = Append(container, IeToken(S.id, S.l, S.f, val.edge))
  /\ pc' = pc + 1
  /\ UNCHANGED <<codec, val, phase, wire, pos, optionals, left, got, peer>>

EncodeExtensions ==
  /\ Encoding({"extensions"})
  /\ Encoded(IF container # <<>> THEN <<Length(Len(container))>> \o container ELSE <<>>)

\* A message: sequence header without presence bits, then the IEs counted.
EncodeIes ==
  /\ Encoding({"ies"})
  /\ Encoded(<<Header(TRUE, <<>>), Length(Len(container))>> \o container)

EncodeChoice ==
  /\ Encoding({"choice"})
  /\ LET a == S.arms[val.arm]
     IN  Encoded(<<Index("choice", S, a.idx)>>
                   \o IF a.id = <<>> THEN Values(a.l, a.variant)
                      ELSE <<IeToken(a.id[1], a.l, a.variant, val.edge)>>)

\* The discriminant of the first or the last variant.
EncodeEnum ==
  /\ Encoding({"enum"})
  /\ Encoded(<<Index("enum", S, IF val.edge = "lo" THEN S.lo ELSE Decoder[1].variants - 1)>>)

\* Procedure code, criticality, length and the message.
EncodeProcedure ==
  /\ Encoding({"procedure"})
  /\ LET a == S.arms[val.arm] IN Encoded(<<IeToken(a.idx, a.l, a.variant, val.edge)>>)

Send ==
  /\ phase = "encode" /\ pc > Len(Encoder)
  /\ End("sent")

-----------------------------------------------------------------------------
(* The peer need not send the IEs of a message as encode_inner would: it   *)
(* may order them otherwise, leave one out, repeat one with another value, *)
(* or add one this release does not know.  Of an extensible choice or      *)
(* enumeration it may send a later release's value, and to an extensible   *)
(* sequence it may append a later release's additions, with the extension  *)
(* bit of the header set.                                                  *)

Disturbable(ops) ==
  /\ phase = "sent" /\ Decoder[1].op \in ops
  /\ val.edge = "lo" /\ (Sampled => val.present = OptionFields(Encoder))

Sent(tokens, what, f) ==
  /\ wire' = tokens
  /\ peer' = [what |-> what, f |-> f]
  /\ UNCHANGED <<codec, val, phase, pc, container, pos, optionals, left, got>>

IePositions == 3 .. Len(wire)
Recount(tokens) == [tokens EXCEPT ![2] = Length(Len(tokens) - 2)]

PeerReorders ==
  /\ Disturbable({"ies"})
  /\ peer = Untouched \/ (~Sampled /\ peer.what = "reordered")
  /\ \E i \in IePositions \ {Len(wire)} :
        Sent([wire EXCEPT ![i] = wire[i + 1], ![i + 1] = wire[i]], "reordered", wire[i].f)

PeerOmits ==
  /\ Disturbable({"ies"}) /\ peer = Untouched
  /\ \E i \in IePositions :
        Sent(Recount(SubSeq(wire, 1, i - 1) \o SubSeq(wire, i + 1, Len(wire))),
             "omitted", wire[i].f)

PeerRepeats ==
  /\ Disturbable({"ies"}) /\ peer = Untouched
  /\ \E i \in IePositions :
        Sent(Recount(Append(wire, [wire[i] EXCEPT !.n = @ + 1])),
             "repeated", wire[i].f)

PeerAdds ==
  /\ Disturbable({"ies"}) /\ peer = Untouched
  /\ Sent(Recount(Append(wire, IeToken(UnknownId, T("unknown"), "unknown", "lo"))), "added", "")

PeerExtends ==
  /\ Disturbable({"choice", "enum"}) /\ peer = Untouched /\ Decoder[1].ext
  /\ Sent([wire EXCEPT ![1].extended = TRUE], "extended", "")

\* The additions come after the wire (Token): its tokens are those of the root.
PeerAppends ==
  /\ Disturbable({"header", "ies"}) /\ peer = Untouched
  /\ Decoder[1].op = "header" => Decoder[1].ext
  /\ Sent(wire, "appended", "")

-----------------------------------------------------------------------------
(* decode_inner                                                            *)

Receive ==
  /\ phase = "sent"
  /\ phase' = "decode" /\ pc' = 1
  /\ UNCHANGED <<codec, val, wire, container, pos, optionals, left, got, peer>>

Decoding(ops) == phase = "decode" /\ pc <= Len(Decoder) /\ Decoder[pc].op \in ops

\* What follows the last token of the root.
EndOfData == [tok |-> IF peer.what = "appended" THEN "additions" ELSE "end"]
Token(i) == IF i <= Len(wire) THEN wire[i] ELSE EndOfData
Tok == Token(pos)

Filled(f, n) == {p \in got : p[1] # f} \cup {<<f, n>>}
ById(table, id) == {e \in Elements(table) : e.id = id}
ByIndex(alts, idx) == {a \in Elements(alts) : a.idx = idx}

IsValue(i, l) == Token(i).tok = "value" /\ Token(i).l = l
IsIeOf(i, table) == \A e \in ById(table, Token(i).id) : Token(i).l = e.l
IsIndex(tok) == Tok.tok = tok /\ Tok.lo = S.lo /\ Tok.hi = S.hi /\ Tok.ext = S.ext
\* A field is read if it is mandatory or its presence bit is set.
Reads == S.op = "get if" => optionals[S.bit]
\* An IE loop has been entered and reads its next IE.
InLoop == left > 0

\* The data is what the next statement reads: a value written with the
\* bounds it is read with.  Otherwise other bits are read.
Legible ==
  CASE S.op = "header" -> Tok.tok = "header" /\ Tok.ext = S.ext /\ Len(Tok.bits) = S.n
    [] S.op \in {"get", "get if"} -> ~Reads \/ S.l = Null \/ IsValue(pos, S.l)
    [] S.op = "extensions" -> IF InLoop THEN Tok.tok = "ie" /\ IsIeOf(pos, S.ies)
                              ELSE ~optionals[S.bit] \/ Tok.tok = "length"
    [] S.op = "ies" -> IF InLoop THEN Tok.tok = "ie" /\ IsIeOf(pos, S.ies)
                       ELSE Tok = Header(TRUE, <<>>) /\ Token(pos + 1).tok = "length"
    [] S.op = "choice" -> /\ IsIndex("choice")
                          /\ \A a \in ByIndex(S.alts, Tok.idx) :
                                \/ a.variant # "" /\ (a.l = Null \/ IsValue(pos + 1, a.l))
                                \/ a.variant = "" /\ Token(pos + 1).tok = "ie"
                                   /\ IsIeOf(pos + 1, a.ies)
    [] S.op = "enum" -> IsIndex("enum")
    [] S.op = "procedure" -> Tok.tok = "ie" /\ IsIeOf(pos, S.ies)
    [] OTHER -> TRUE

Advance(tokens, filled) ==
  /\ pos' = pos + tokens
  /\ got' = filled
  /\ pc' = pc + 1
  /\ UNCHANGED <<codec, val, phase, wire, container, optionals, left, peer>>

\* The presence bits are kept.  The extension bit goes to _extensions_present,
\* which no decode_inner looks at: whether additions follow makes no difference.
DecodeHeader ==
  /\ Decoding({"header"})
  /\ IF ~Legible THEN End("misread")
     ELSE /\ optionals' = Tok.bits
          /\ pos' = pos + 1 /\ pc' = pc + 1
          /\ UNCHANGED <<codec, val, phase, wire, container, left, got, peer>>

\* unwrap() may panic; SetupRelease::decode is todo!().
DecodeField ==
  /\ Decoding({"get", "get if"}) /\ Reads
  /\ IF ~Legible THEN End("misread")
     ELSE IF S.l = Null THEN Advance(0, Filled(S.f, 0))
     ELSE IF S.l.kind = "setup release" THEN End("unimplemented")
     ELSE IF Unwraps(S.l, Tok.n) THEN End("panicked")
     ELSE Advance(1, Filled(S.f, Decoded(S.l, Tok.n)))

DecodeNone ==
  /\ Decoding({"get if", "extensions"}) /\ ~InLoop
  /\ ~optionals[S.bit]
  /\ Advance(0, got)

\* The length of an IE container; a message reads its sequence header first.
DecodeLength ==
  /\ Decoding({"ies", "extensions"}) /\ ~InLoop
  /\ S.op = "extensions" => optionals[S.bit]
  /\ LET at == IF S.op = "ies" THEN pos + 1 ELSE pos
     IN  IF ~Legible THEN End("misread")
         ELSE /\ pos' = at + 1
              /\ left' = Token(at).n
              /\ pc' = IF Token(at).n = 0 THEN pc + 1 ELSE pc
              /\ UNCHANGED <<codec, val, phase, wire, container, optionals, got, peer>>

\* One turn of the loop: a known id sets its field, a later one of the same
\* id sets it again; an unknown id is skipped in an extension container and
\* an error in a message.
DecodeIe ==
  /\ Decoding({"ies", "extensions"}) /\ InLoop
  /\ LET known == ById(S.ies, Tok.id)
     IN  IF ~Legible THEN End("misread")
         ELSE IF known = {} /\ S.op = "ies" THEN End("refused")
         ELSE /\ got' = IF known = {} THEN got
                        ELSE UNION {Filled(e.f, Decoded(e.l, Tok.n)) : e \in known}
              /\ pos' = pos + 1 /\ left' = left - 1
              /\ pc' = IF left = 1 THEN pc + 1 ELSE pc
              /\ UNCHANGED <<codec, val, phase, wire, container, optionals, peer>>

\* Mutant: a mandatory field may be missing.
DecodeRequireNothing == Decoding({"require"}) /\ Advance(0, got)
\* ok_or(..)? of every mandatory field.
DecodeRequire ==
  /\ Decoding({"require"})
  /\ IF \A f \in S.fs : \E p \in got : p[1] = f THEN Advance(0, got) ELSE End("refused")

DecodeChoice ==
  /\ Decoding({"choice"})
  /\ LET next == Token(pos + 1)
         chosen == ByIndex(S.alts, Tok.idx)
         inIe == UNION {ById(a.ies, next.id) : a \in {b \in chosen : b.variant = ""}}
         plain == {a \in chosen : a.variant # ""}
     IN  IF ~Legible THEN End("misread")
         ELSE IF Tok.extended \/ plain \cup inIe = {} THEN End("refused")
         ELSE \/ \E a \in plain :
                    IF a.l = Null THEN Advance(1, {<<a.variant, 0>>})
                    ELSE Advance(2, {<<a.variant, Decoded(a.l, next.n)>>})
              \/ \E e \in inIe : Advance(2, {<<e.f, Decoded(e.l, next.n)>>})

DecodeEnum ==
  /\ Decoding({"enum"})
  /\ IF ~Legible THEN End("misread")
     ELSE IF Tok.extended \/ Tok.idx >= S.variants THEN End("refused")
     ELSE Advance(1, {<<"", Tok.idx>>})

DecodeProcedure ==
  /\ Decoding({"procedure"})
  /\ LET known == ById(S.ies, Tok.id)
     IN  IF ~Legible THEN End("misread")
         ELSE IF known = {} THEN End("refused")
         ELSE \E e \in known : Advance(1, {<<e.f, Decoded(e.l, Tok.n)>>})

DecodeEnds ==
  /\ phase = "decode" /\ pc > Len(Decoder)
  /\ End("done")

CodecNext ==
  \/ EncodeHeader \/ EncodeField \/ EncodeNone \/ EncodeIe \/ EncodeExtensions \/ EncodeIes
  \/ EncodeChoice \/ EncodeEnum \/ EncodeProcedure \/ Send
  \/ PeerReorders \/ PeerOmits \/ PeerRepeats \/ PeerAdds \/ PeerExtends \/ PeerAppends
  \/ Receive \/ DecodeHeader \/ DecodeField \/ DecodeNone \/ DecodeLength \/ DecodeIe
  \/ DecodeRequire \/ DecodeChoice \/ DecodeEnum \/ DecodeProcedure \/ DecodeEnds

CodecSpec == CodecInit /\ [][CodecNext]_codecVars

-----------------------------------------------------------------------------
(* What the two programs of a type have in common, if each was generated   *)
(* from the same definition.  TLC evaluates the assumption on every type   *)
(* of the tables.                                                          *)

IsIe(s) == s.op \in {"put ie", "put ie if"}
IsPut(s) == s.op \in {"put", "put if"}

\* Both ends of the layout's range survive the cast, and unwrap() succeeds.
Fits(l) ==
  \A edge \in {"lo", "hi"} :
     Decoded(l, Number(l, edge)) = Number(l, edge) /\ ~Unwraps(l, Number(l, edge))

\* The table of a decoder's loop has one entry for the id, with the field and layout.
Knows(ies, id, f, l) == ById(ies, id) = {Ie(id, f, l)} /\ Fits(l) /\ l.kind # "setup release"

\* The header of a sequence, if its programs have one, comes before its fields.
HasBit(enc, k, d, b) ==
  enc[k + 1].op = "header" /\ d.bit \in DOMAIN enc[k + 1].bits /\ enc[k + 1].bits[d.bit] = b

\* The decoder's statement d reads what the encoder's e writes.
Reads1(enc, k, e, d) ==
  CASE e.op = "header" -> d.op = "header" /\ d.ext = e.ext /\ DOMAIN e.bits = 1..d.n /\ d.n \in Nat
    [] e.op = "put" -> d = Get(e.f, e.l) /\ Fits(e.l)
    [] e.op = "put if" -> /\ d = GetIf(d.bit, e.f, e.l) /\ Fits(e.l) /\ HasBit(enc, k, d, e.f)
                          /\ e.f \notin {"false", "num_ies"}
    [] e.op = "extensions" -> /\ d.op = "extensions" /\ HasBit(enc, k, d, "num_ies")
                              /\ \A i \in 1..k : Knows(d.ies, enc[i].id, enc[i].f, enc[i].l)
    [] OTHER -> FALSE

DistinctFields(enc) ==
  \A i, j \in DOMAIN enc :
     (IsIe(enc[i]) \/ IsPut(enc[i])) /\ (IsIe(enc[j]) \/ IsPut(enc[j])) /\ enc[i].f = enc[j].f => i = j

\* A sequence or a single value: k IEs for the extension container, then as
\* many statements as the decoder has, but for a container that is never there.
FieldsMatch(enc, dec, k) ==
  /\ \A i \in DOMAIN enc : IsIe(enc[i]) <=> i <= k
  /\ DistinctFields(enc)
  /\ Len(dec) >= 1 /\ Len(enc) > k /\ Len(enc) - k <= Len(dec)
  /\ \A j \in 1..(Len(enc) - k) :
        /\ Reads1(enc, k, enc[k + j], dec[j])
        /\ enc[k + j].op = "header" => j = 1
        /\ enc[k + j].op = "extensions" => j = Len(dec)
  /\ k > 0 => enc[Len(enc)].op = "extensions"
  /\ \A j \in (Len(enc) - k + 1)..Len(dec) :
        dec[j].op = "extensions" /\ HasBit(enc, k, dec[j], "false")

\* A message: its IEs, counted and appended; the mandatory ones required.
MessageMatch(enc, dec) ==
  LET k == Len(enc) - 1
  IN  /\ k >= 0 /\ enc[k + 1].op = "ies" /\ DistinctFields(enc)
      /\ Len(dec) = 2 /\ dec[1].op = "ies" /\ dec[2].op = "require"
      /\ \A i \in 1..k : /\ IsIe(enc[i]) /\ Knows(dec[1].ies, enc[i].id, enc[i].f, enc[i].l)
                         /\ LET n == Number(enc[i].l, "lo") IN Decoded(enc[i].l, n + 1) = n + 1
      /\ dec[2].fs = {enc[i].f : i \in {j \in 1..k : enc[j].op = "put ie"}}
      /\ ById(dec[1].ies, UnknownId) = {}

SameIndex(e, d) == e.lo = d.lo /\ e.hi = d.hi /\ e.ext = d.ext

ChoiceMatch(enc, dec) ==
  /\ Len(enc) = 1 /\ Len(dec) = 1 /\ enc[1].op = "choice" /\ dec[1].op = "choice"
  /\ SameIndex(enc[1], dec[1]) /\ DOMAIN enc[1].arms # {}
  /\ \A a \in Elements(enc[1].arms) :
        /\ Fits(a.l) /\ a.variant # ""
        /\ IF a.id = <<>> THEN ByIndex(dec[1].alts, a.idx) = {Alt(a.idx, a.variant, a.l)}
           ELSE \E alt \in Elements(dec[1].alts) :
                   /\ ByIndex(dec[1].alts, a.idx) = {alt} /\ alt.variant = ""
                   /\ ById(alt.ies, a.id[1]) = {Ie(a.id[1], a.variant, a.l)}

EnumMatch(enc, dec) ==
  /\ Len(enc) = 1 /\ Len(dec) = 1 /\ enc[1].op = "enum" /\ dec[1].op = "enum"
  /\ SameIndex(enc[1], dec[1])
  /\ enc[1].lo = 0 /\ dec[1].variants \in Nat \ {0} /\ enc[1].hi = dec[1].variants - 1

ProcedureMatch(enc, dec) ==
  /\ Len(enc) = 1 /\ Len(dec) = 1 /\ enc[1].op = "procedure" /\ dec[1].op = "procedure"
  /\ DOMAIN enc[1].arms # {}
  /\ \A a \in Elements(enc[1].arms) : Knows(dec[1].ies, a.idx, a.variant, a.l)

Matched(program) ==
  LET enc == program.encode
      dec == program.decode
  IN  /\ enc \in Seq(Elements(enc)) /\ dec \in Seq(Elements(dec))
      /\ \/ \E k \in 0..Len(enc) : FieldsMatch(enc, dec, k)
         \/ MessageMatch(enc, dec) \/ ChoiceMatch(enc, dec)
         \/ EnumMatch(enc, dec) \/ ProcedureMatch(enc, dec)

ASSUME TablesMatch ==
  Sampled \in BOOLEAN /\ \A table \in CodecTables : \A name \in DOMAIN table : Matched(table[name])

-----------------------------------------------------------------------------
(* Properties                                                              *)

\* The fields encode_inner writes, as the struct declares them.
Mandatory == {s.f : s \in {t \in Elements(Encoder) : t.op \in {"put", "put ie"}}}
Written == {s \in Elements(Encoder) : \/ s.op \in {"put", "put ie"}
                                      \/ s.op \in {"put if", "put ie if"} /\ s.f \in val.present}
ValueSent ==
  {<<s.f, Number(s.l, val.edge)>> : s \in Written}
    \cup (UNION {IF s.op \notin {"choice", "procedure"} THEN {}
                 ELSE {<<s.arms[val.arm].variant, Number(s.arms[val.arm].l, val.edge)>>} :
                    s \in Elements(Encoder)})
    \cup (UNION {IF s.op # "enum" THEN {}
                 ELSE {<<"", IF val.edge = "lo" THEN 0 ELSE s.hi>>} : s \in Elements(Encoder)})

UsesSetupRelease == \E s \in Written : s.l.kind = "setup release"

(* Whatever encode_inner writes of a value, with any of its Option fields  *)
(* Some or None and at either end of its ranges, decode_inner reads back   *)
(* as the same value and to the last token, without an error, a panic or a *)
(* misread bit.  Only a SetupRelease, which has no codec, stops it.        *)
RoundTrip ==
  phase \in Final /\ peer = Untouched =>
     IF UsesSetupRelease THEN phase = "unimplemented"
     ELSE phase = "done" /\ got = ValueSent /\ pos = Len(wire) + 1

(* A message means the same in whatever order its IEs come and the last of *)
(* two IEs with one id counts.  It is refused exactly when a mandatory IE  *)
(* is missing or an IE is unknown, and a choice or an enumeration when its *)
(* value is one of a later release.  A sequence or message with a later    *)
(* release's additions is read as if it had none, and the decoder stops in *)
(* front of them.  They are never skipped: what reads on after the value,  *)
(* be it the loop of a message, which drops the length of the IE, reads    *)
(* them next.                                                              *)
PeerUnderstood ==
  phase \in Final /\ peer # Untouched =>
     IF peer.what \in {"added", "extended"} \/ (peer.what = "omitted" /\ peer.f \in Mandatory)
     THEN phase = "refused"
     ELSE /\ phase = "done" /\ pos = Len(wire) + 1
          /\ got = {<<p[1], IF peer.what = "repeated" /\ p[1] = peer.f THEN p[2] + 1 ELSE p[2]>> :
                       p \in {q \in ValueSent : ~(peer.what = "omitted" /\ q[1] = peer.f)}}
=============================================================================
