------------------------- MODULE PerMessageProofs ----------------------------
(***************************************************************************)
(* Proofs about the codecs of messages, whose counted IEs the peer may     *)
(* send otherwise than encode_inner would: reordered, without one, with    *)
(* one twice, with one it does not know, with additions behind them.       *)
(***************************************************************************)
EXTENDS PerFieldsProofs

(* Messages: IEs counted into a container, and read in a loop.             *)

IsMessage(p) == MessageMatch(p.encode, p.decode)
IeCount(p) == Len(p.encode) - 1

\* The statements before i that put an IE into the container, and those
\* whose IE the decoder comes to see.
Counted(p, v, i) == {h \in 1..IeCount(p) : h < i /\ Included(p, v, h)}
Shown(p, v, by) ==
  {h \in 1..IeCount(p) : Included(p, v, h) /\ ~(by.what = "omitted" /\ p.encode[h].f = by.f)}

\* Positions lo to hi of w hold one IE for each statement of H, in some order.
Lists(p, v, w, lo, hi, H) ==
  /\ \A m \in lo..hi : \E h \in H : w[m] = IeTok(p, v, h)
  /\ \A h \in H : \E m \in lo..hi : w[m] = IeTok(p, v, h)
  /\ \A m, q \in lo..hi : w[m].f = w[q].f => m = q

Again(t) == [t EXCEPT !.n = @ + 1]
Stranger == IeToken(UnknownId, T("unknown"), "unknown", "lo")
LastListed(w, by) == IF by.what \in {"repeated", "added"} THEN Len(w) - 1 ELSE Len(w)

\* What arrives of a message.
MessageWire(p, v, w, by) ==
  /\ w \in Seq(Elements(w)) /\ Len(w) >= 2
  /\ w[1] = Header(TRUE, <<>>) /\ w[2] = Length(Len(w) - 2)
  /\ Lists(p, v, w, 3, LastListed(w, by), Shown(p, v, by))
  /\ by.what = "repeated" =>
        /\ Len(w) >= 3 /\ v.edge = "lo"
        /\ \E h \in Shown(p, v, by) : by.f = p.encode[h].f /\ w[Len(w)] = Again(IeTok(p, v, h))
  /\ by.what = "added" => Len(w) >= 3 /\ w[Len(w)] = Stranger

\* What the decoder makes of it.
MessageGot(p, v, by) ==
  {<<p.encode[h].f, IF by.what = "repeated" /\ p.encode[h].f = by.f
                    THEN Number(p.encode[h].l, v.edge) + 1 ELSE Number(p.encode[h].l, v.edge)>> :
      h \in Shown(p, v, by)}
Before(w, m) == {<<w[q].f, w[q].n>> : q \in 3..(m - 1)}

Refuses(p, by) == by.what = "added" \/ (by.what = "omitted" /\ by.f \in p.decode[2].fs)
MessageDecoding(p, v, w, by, j, at, n, g) ==
  \/ j = 1 /\ n = 0 /\ at = 1 /\ g = {}
  \/ j = 1 /\ at \in 3..Len(w) /\ n = Len(w) + 1 - at /\ g = Before(w, at)
  \/ j \in {2, 3} /\ n = 0 /\ at = Len(w) + 1 /\ by.what # "added" /\ g = MessageGot(p, v, by)
     /\ (j = 3 => ~Refuses(p, by))

MessageInv ==
  /\ peer.what \in {"nothing", "reordered", "omitted", "repeated", "added", "appended"}
  /\ peer.what = "nothing" => peer = Untouched
  /\ phase \in {"encode", "sent", "decode", "done", "refused"}
  /\ phase = "encode" =>
        /\ peer = Untouched
        /\ \/ /\ pc \in 1..Len(Program.encode) /\ wire = <<>> /\ container \in Seq(Elements(container))
              /\ Lists(Program, val, container, 1, Len(container), Counted(Program, val, pc))
           \/ pc = Len(Program.encode) + 1 /\ MessageWire(Program, val, wire, Untouched)
  /\ phase # "encode" => MessageWire(Program, val, wire, peer)
  /\ phase \in {"encode", "sent"} => pos = 1 /\ left = 0 /\ got = {}
  /\ phase = "decode" => MessageDecoding(Program, val, wire, peer, pc, pos, left, got)
  /\ phase = "done" => got = MessageGot(Program, val, peer) /\ pos = Len(wire) + 1 /\ ~Refuses(Program, peer)
  /\ phase = "refused" => Refuses(Program, peer)

\* One position changed, one left out.
IsUpdate(r, s, i, x) == r = [s EXCEPT ![i] = x]
Updated(r, s, i, x) ==
  /\ r \in Seq(Elements(r)) /\ Len(r) = Len(s) /\ r[i] = x
  /\ \A m \in 1..Len(s) : m # i => r[m] = s[m]
IsRemoval(r, s, i) == r = SubSeq(s, 1, i - 1) \o SubSeq(s, i + 1, Len(s))
Removed(r, s, i) ==
  /\ r \in Seq(Elements(r)) /\ Len(r) = Len(s) - 1
  /\ \A m \in 1..(i - 1) : r[m] = s[m]
  /\ \A m \in i..(Len(s) - 1) : r[m] = s[m + 1]

\* Changing one position of the wire.
LEMMA UpdateFacts ==
  ASSUME NEW s, NEW i, NEW x, s \in Seq(Elements(s)), i \in 1..Len(s), NEW r, IsUpdate(r, s, i, x)
  PROVE  Updated(r, s, i, x)
<1>1. Len(s) \in Nat /\ DOMAIN s = 1..Len(s)
  BY Zenon, SeqFacts
<1>2. /\ r = [m \in 1..Len(s) |-> IF m = i THEN x ELSE s[m]] /\ DOMAIN r = 1..Len(s)
  BY Zenon, <1>1 DEF IsUpdate
<1>3. r \in [1..Len(s) -> Elements(r)]
  BY Zenon, <1>2 DEF Elements
<1>4. r \in Seq(Elements(r))
  <2> DEFINE n == Len(s)
             E == Elements(r)
  <2>1. n \in Nat /\ r \in [1..n -> E]
    BY Zenon, <1>1, <1>3
  <2> HIDE DEF n, E
  <2>2. r \in Seq(E)
    BY ONLY <2>1
  <2> QED
    BY Zenon, <2>2 DEF E
<1>5. Len(r) = Len(s)
  BY <1>1, <1>2, <1>4
<1> QED
  BY Zenon, <1>1, <1>2, <1>4, <1>5 DEF Updated

\* Leaving one position of the wire out.
LEMMA RemoveFacts ==
  ASSUME NEW s, NEW i, s \in Seq(Elements(s)), i \in 1..Len(s), NEW r, IsRemoval(r, s, i)
  PROVE  Removed(r, s, i)
<1>1. Len(s) \in Nat /\ DOMAIN s = 1..Len(s) /\ i \in Nat
  BY SeqFacts
<1> DEFINE a == SubSeq(s, 1, i - 1)
           b == SubSeq(s, i + 1, Len(s))
           n == Len(s)
           U == Elements(s)
<1>2. \A m \in 1..n : s[m] \in U
  BY Zenon, <1>1 DEF Elements
<1>3. 1 \in Int /\ i - 1 \in Int /\ (\A m \in 1..(i - 1) : s[m] \in U)
  <2> HIDE DEF U, n
  <2>1. n \in Nat /\ i \in 1..n
    BY Zenon, <1>1 DEF n
  <2> QED
    BY ONLY <1>1, <1>2, <2>1
<1>4. i + 1 \in Int /\ n \in Int /\ (\A m \in (i + 1)..n : s[m] \in U)
  <2> HIDE DEF U, n
  <2>1. n \in Nat /\ i \in 1..n
    BY Zenon, <1>1 DEF n
  <2> QED
    BY ONLY <1>1, <1>2, <2>1
<1> HIDE DEF U
<1>5. /\ a \in Seq(U) /\ Len(a) = (IF 1 <= i - 1 THEN (i - 1) - 1 + 1 ELSE 0)
      /\ \A m \in 1..((i - 1) - 1 + 1) : a[m] = s[1 + m - 1]
  BY ONLY <1>3
<1>6. /\ b \in Seq(U) /\ Len(b) = (IF i + 1 <= n THEN n - (i + 1) + 1 ELSE 0)
      /\ \A m \in 1..(n - (i + 1) + 1) : b[m] = s[(i + 1) + m - 1]
  BY ONLY <1>4
<1> HIDE DEF a, b
<1>7. r = a \o b /\ n \in Nat /\ i \in 1..n
  BY Zenon, <1>1 DEF a, b, IsRemoval
<1>8. /\ r \in Seq(U) /\ Len(r) = Len(a) + Len(b)
      /\ \A m \in 1..(Len(a) + Len(b)) : r[m] = IF m <= Len(a) THEN a[m] ELSE b[m - Len(a)]
  <2>1. a \in Seq(U) /\ b \in Seq(U) /\ r = a \o b
    BY Zenon, <1>5, <1>6, <1>7
  <2> QED
    BY ONLY <2>1
<1> HIDE DEF n
<1>9. Len(a) = i - 1 /\ Len(b) = n - i
  BY ONLY <1>5, <1>6, <1>7
<1>10. Len(r) = n - 1
  BY ONLY <1>7, <1>8, <1>9
<1>11. \A m \in 1..(i - 1) : r[m] = s[m]
  <2> SUFFICES ASSUME NEW m \in 1..(i - 1) PROVE r[m] = s[m]
    BY Zenon
  <2>1. m \in 1..(Len(a) + Len(b)) /\ m <= Len(a) /\ m \in 1..((i - 1) - 1 + 1) /\ 1 + m - 1 = m
    BY ONLY <1>7, <1>9, m \in 1..(i - 1)
  <2>2. r[m] = a[m]
    BY ONLY Zenon, <1>8, <2>1
  <2>3. a[m] = s[1 + m - 1]
    BY ONLY Zenon, <1>5, <2>1
  <2> QED
    BY ONLY Zenon, <2>1, <2>2, <2>3
<1>12. \A m \in i..(n - 1) : r[m] = s[m + 1]
  <2> SUFFICES ASSUME NEW m \in i..(n - 1) PROVE r[m] = s[m + 1]
    BY Zenon
  <2> DEFINE q == m - (i - 1)
  <2>1. /\ m \in 1..(Len(a) + Len(b)) /\ ~(m <= Len(a)) /\ q \in 1..(n - (i + 1) + 1)
        /\ (i + 1) + q - 1 = m + 1 /\ m - Len(a) = q
    BY ONLY <1>7, <1>9, m \in i..(n - 1)
  <2> HIDE DEF q
  <2>2. r[m] = b[q]
    BY ONLY Zenon, <1>8, <2>1
  <2>3. b[q] = s[(i + 1) + q - 1]
    BY ONLY Zenon, <1>6, <2>1
  <2> QED
    BY ONLY Zenon, <2>1, <2>2, <2>3
<1>13. r \in Seq(Elements(r))
  <2>1. DOMAIN r = 1..Len(r) /\ Len(r) \in Nat
    BY <1>8
  <2>2. r \in [1..Len(r) -> Elements(r)]
    <3>1. r \in [1..Len(r) -> U]
      BY <1>8
    <3> QED
      BY Zenon, <2>1, <3>1 DEF Elements
  <2> QED
    BY <2>1, <2>2
<1> QED
  BY Zenon, <1>10, <1>11, <1>12, <1>13 DEF n, Removed

\* What is listed stays listed where it is moved to, but for what is left out.
LEMMA ListsMoved ==
  ASSUME NEW p, NEW v, NEW w, NEW lo, NEW hi, NEW H, Lists(p, v, w, lo, hi, H),
         NEW u, NEW lo2, NEW hi2, NEW G, G \subseteq H, NEW from,
         \A m \in lo2..hi2 : from[m] \in lo..hi /\ u[m] = w[from[m]],
         \A m, q \in lo2..hi2 : from[m] = from[q] => m = q,
         \A m \in lo2..hi2 : \E h \in G : w[from[m]] = IeTok(p, v, h),
         \A h \in G : \A m \in lo..hi : w[m] = IeTok(p, v, h) => \E q \in lo2..hi2 : from[q] = m
  PROVE  Lists(p, v, u, lo2, hi2, G)
<1> DEFINE A == lo..hi
           B == lo2..hi2
           X(h) == IeTok(p, v, h)
<1>1. /\ \A m \in A : \E h \in H : w[m] = X(h)
      /\ \A h \in H : \E m \in A : w[m] = X(h)
      /\ \A m, q \in A : w[m].f = w[q].f => m = q
  BY Zenon DEF Lists
<1>2. /\ \A m \in B : from[m] \in A /\ u[m] = w[from[m]]
      /\ \A m, q \in B : from[m] = from[q] => m = q
      /\ \A m \in B : \E h \in G : w[from[m]] = X(h)
      /\ \A h \in G : \A m \in A : w[m] = X(h) => \E q \in B : from[q] = m
  BY Zenon
<1> HIDE DEF A, B, X
<1>3. \A m \in B : \E h \in G : u[m] = X(h)
  BY <1>2
<1>4. \A h \in G : \E m \in B : u[m] = X(h)
  BY <1>1, <1>2
<1>5. \A m, q \in B : u[m].f = u[q].f => m = q
  BY <1>1, <1>2
<1> QED
  BY Zenon, <1>3, <1>4, <1>5 DEF Lists, A, B, X

\* A message's IEs come first, the container last; its decoder is a loop and a check.
LEMMA MessageFacts ==
  ASSUME NEW p, Typed(p), IsMessage(p)
  PROVE  /\ Len(p.encode) \in Nat /\ IeCount(p) \in Nat /\ Len(p.encode) = IeCount(p) + 1
         /\ DOMAIN p.encode = 1..Len(p.encode)
         /\ Len(p.decode) = 2 /\ DOMAIN p.decode = 1..2
<1>1. /\ Len(p.encode) \in Nat /\ Len(p.decode) \in Nat
      /\ DOMAIN p.encode = 1..Len(p.encode) /\ DOMAIN p.decode = 1..Len(p.decode)
  BY Zenon, SeqFacts DEF Typed
<1>2. Len(p.encode) - 1 >= 0 /\ Len(p.decode) = 2
  BY Zenon DEF IsMessage, MessageMatch
<1>3. IeCount(p) = Len(p.encode) - 1
  BY Zenon DEF IeCount
<1> QED
  BY <1>1, <1>2, <1>3

\* Which statements those are.
LEMMA MessageOps ==
  ASSUME NEW p, Typed(p), IsMessage(p)
  PROVE  /\ \A h \in 1..IeCount(p) : p.encode[h].op \in {"put ie", "put ie if"}
         /\ p.encode[Len(p.encode)].op = "ies"
         /\ p.decode[1].op = "ies" /\ p.decode[2].op = "require"
         /\ p.decode[2].fs = {p.encode[h].f : h \in {j \in 1..IeCount(p) : p.encode[j].op = "put ie"}}
         /\ ById(p.decode[1].ies, UnknownId) = {}
<1>1. Len(p.encode) = (Len(p.encode) - 1) + 1
  BY MessageFacts
<1> QED
  BY Zenon, <1>1 DEF IsMessage, MessageMatch, IeCount, IsIe

\* The loop knows every IE the encoder writes, and takes a number one higher.
LEMMA MessageIe ==
  ASSUME NEW p, Typed(p), IsMessage(p), NEW h \in 1..IeCount(p)
  PROVE  /\ Knows(p.decode[1].ies, p.encode[h].id, p.encode[h].f, p.encode[h].l)
         /\ Decoded(p.encode[h].l, Number(p.encode[h].l, "lo") + 1) = Number(p.encode[h].l, "lo") + 1
BY Zenon DEF IsMessage, MessageMatch, IeCount

\* No two IEs fill one field.
LEMMA MessageDistinct ==
  ASSUME NEW p, Typed(p), IsMessage(p), NEW h \in 1..IeCount(p), NEW g \in 1..IeCount(p),
         p.encode[h].f = p.encode[g].f
  PROVE  h = g
<1>1. h \in DOMAIN p.encode /\ g \in DOMAIN p.encode
  BY MessageFacts
<1>2. IsIe(p.encode[h]) /\ IsIe(p.encode[g])
  BY Zenon, MessageOps DEF IsIe
<1> QED
  BY Zenon, <1>1, <1>2 DEF IsMessage, MessageMatch, DistinctFields

\* The header and the length before the IEs.
LEMMA TwoFacts ==
  ASSUME NEW x, NEW y
  PROVE  /\ <<x, y>> \in Seq(Elements(<<x, y>>)) /\ Len(<<x, y>>) = 2
         /\ <<x, y>>[1] = x /\ <<x, y>>[2] = y
<1>1. Elements(<<x, y>>) = {x, y}
  BY DEF Elements
<1>2. <<x, y>> \in Seq({x, y}) /\ Len(<<x, y>>) = 2
  OBVIOUS
<1> QED
  BY Zenon, <1>1, <1>2

\* Where the encoder of a message is.
LEMMA MessageEncoding ==
  ASSUME Typed(Program), IsMessage(Program), MessageInv, NEW ops, Encoding(ops)
  PROVE  /\ phase = "encode" /\ pc \in 1..Len(Program.encode) /\ S = Program.encode[pc]
         /\ Program.encode[pc].op \in ops
         /\ wire = <<>> /\ container \in Seq(Elements(container)) /\ peer = Untouched
         /\ Lists(Program, val, container, 1, Len(container), Counted(Program, val, pc))
         /\ pos = 1 /\ left = 0 /\ got = {}
<1>1. phase = "encode" /\ pc <= Len(Program.encode) /\ Program.encode[pc].op \in ops
  BY Zenon DEF Encoding, Encoder, Program
<1>2. Len(Program.encode) \in Nat
  BY Zenon, MessageFacts
<1>3. ~(pc = Len(Program.encode) + 1)
  BY ONLY <1>1, <1>2
<1>4. S = Program.encode[pc]
  BY Zenon, <1>1 DEF S, Encoder, Program
<1> QED
  BY Zenon, <1>1, <1>3, <1>4 DEF MessageInv

\* A statement that writes nothing, or puts its IE into the container.
LEMMA MessageEncodeNone ==
  ASSUME Typed(Program), IsMessage(Program), MessageInv, EncodeNone
  PROVE  MessageInv'
<1> DEFINE p == Program
<1>1. Encoding({"put if", "put ie if"}) /\ S.f \notin val.present /\ Encoded(<<>>)
  BY Zenon DEF EncodeNone
<1>2. /\ phase = "encode" /\ pc \in 1..Len(Program.encode) /\ S = Program.encode[pc]
      /\ Program.encode[pc].op \in {"put if", "put ie if"}
      /\ wire = <<>> /\ container \in Seq(Elements(container)) /\ peer = Untouched
      /\ Lists(Program, val, container, 1, Len(container), Counted(Program, val, pc))
      /\ pos = 1 /\ left = 0 /\ got = {}
  BY ONLY Zenon, Typed(Program), IsMessage(Program), MessageInv, <1>1, MessageEncoding
<1>3. /\ wire' = wire \o <<>> /\ pc' = pc + 1 /\ Program' = Program /\ val' = val /\ phase' = phase
      /\ container' = container /\ pos' = pos /\ left' = left /\ got' = got /\ peer' = peer
  BY Zenon, <1>1 DEF Encoded, Program
<1>4. wire' = <<>>
  BY Zenon, <1>2, <1>3, EmptyFacts, NothingAdded
<1>5. /\ Len(p.encode) \in Nat /\ IeCount(p) \in Nat /\ Len(p.encode) = IeCount(p) + 1
  BY Zenon, MessageFacts
<1>6. pc # Len(p.encode)
  BY Zenon, <1>2, MessageOps
<1>7. pc + 1 \in 1..Len(p.encode) /\ pc \in 1..IeCount(p)
  <2>1. pc \in 1..Len(p.encode)
    BY Zenon, <1>2
  <2> QED
    BY ONLY <1>5, <1>6, <2>1
<1>8. ~Included(p, val, pc)
  BY Zenon, <1>1, <1>2 DEF Included
<1>9. Counted(p, val, pc + 1) = Counted(p, val, pc)
  <2> HIDE DEF p
  <2>1. \A h \in 1..IeCount(p) : h < pc + 1 <=> h < pc \/ h = pc
    BY ONLY <1>5, <1>7
  <2> QED
    BY Zenon, <1>8, <2>1 DEF Counted
<1>10. /\ pc' \in 1..Len(Program'.encode)
       /\ Lists(Program', val', container', 1, Len(container'), Counted(Program', val', pc'))
  BY Zenon, <1>2, <1>3, <1>7, <1>9
<1> HIDE DEF p
<1> QED
  BY Zenon, <1>2, <1>3, <1>4, <1>10 DEF MessageInv, Untouched

\* An IE the encoder counts is one more that is listed.
LEMMA MessageEncodeIe ==
  ASSUME Typed(Program), IsMessage(Program), MessageInv, EncodeIe
  PROVE  MessageInv'
<1> DEFINE p == Program
           c == container
           n == Len(c)
           x == IeTok(p, val, pc)
           H == Counted(p, val, pc)
           G == Counted(p, val, pc + 1)
<1>1. /\ Encoding({"put ie", "put ie if"}) /\ (S.op = "put ie if" => S.f \in val.present)
      /\ container' = Append(container, IeToken(S.id, S.l, S.f, val.edge)) /\ pc' = pc + 1
      /\ Program' = Program /\ val' = val /\ phase' = phase
      /\ wire' = wire /\ pos' = pos /\ left' = left /\ got' = got /\ peer' = peer
  BY Zenon DEF EncodeIe, Program
<1>2. /\ phase = "encode" /\ pc \in 1..Len(Program.encode) /\ S = Program.encode[pc]
      /\ Program.encode[pc].op \in {"put ie", "put ie if"}
      /\ wire = <<>> /\ container \in Seq(Elements(container)) /\ peer = Untouched
      /\ Lists(Program, val, container, 1, Len(container), Counted(Program, val, pc))
      /\ pos = 1 /\ left = 0 /\ got = {}
  BY ONLY Zenon, Typed(Program), IsMessage(Program), MessageInv, <1>1, MessageEncoding
<1>3. container' = Append(c, x)
  BY Zenon, <1>1, <1>2 DEF IeTok
<1>4. /\ Len(p.encode) \in Nat /\ IeCount(p) \in Nat /\ Len(p.encode) = IeCount(p) + 1
  BY Zenon, MessageFacts
<1>5. pc # Len(p.encode)
  BY Zenon, <1>2, MessageOps
<1>6. pc + 1 \in 1..Len(p.encode) /\ pc \in 1..IeCount(p)
  <2>1. pc \in 1..Len(p.encode)
    BY Zenon, <1>2
  <2> QED
    BY ONLY <1>4, <1>5, <2>1
<1>7. Included(p, val, pc)
  BY Zenon, <1>1, <1>2 DEF Included
<1>8. G = H \cup {pc}
  <2>1. \A h \in 1..IeCount(p) : h < pc + 1 <=> h < pc \/ h = pc
    BY ONLY <1>4, <1>6
  <2>2. ~(pc < pc)
    BY <1>6
  <2> HIDE DEF p
  <2> QED
    BY Zenon, <1>6, <1>7, <2>1, <2>2 DEF Counted
<1>9. n \in Nat
  BY Zenon, <1>2, SeqFacts
<1>10. /\ Append(c, x) \in Seq(Elements(Append(c, x))) /\ Len(Append(c, x)) = n + 1
       /\ (\A i \in 1..n : Append(c, x)[i] = c[i]) /\ Append(c, x)[n + 1] = x
  <2>1. c \in Seq(Elements(c))
    BY Zenon, <1>2
  <2> HIDE DEF c, x
  <2>2. /\ Append(c, x) \in Seq(Elements(Append(c, x)))
        /\ Len(Append(c, x)) = Len(c) + 1
        /\ \A i \in 1..Len(c) : Append(c, x)[i] = c[i]
        /\ Append(c, x)[Len(c) + 1] = x
        /\ Elements(Append(c, x)) = Elements(c) \cup {x}
    BY ONLY Zenon, <2>1, AppendFacts
  <2> QED
    BY Zenon, <2>2
<1>11. Lists(p, val, c, 1, n, H)
  BY Zenon, <1>2
<1>12. \A m \in 1..n : c[m].f # x.f
  <2> SUFFICES ASSUME NEW m \in 1..n, c[m].f = x.f PROVE FALSE
    BY Zenon
  <2>1. PICK h \in H : c[m] = IeTok(p, val, h)
    BY Zenon, <1>11 DEF Lists
  <2>2. h \in 1..IeCount(p) /\ h < pc
    BY Zenon DEF Counted
  <2>3. p.encode[h].f = p.encode[pc].f
    BY <2>1 DEF IeTok, IeToken
  <2>4. h = pc
    BY Zenon, <1>6, <2>2, <2>3, MessageDistinct
  <2> QED
    BY <1>6, <2>2, <2>4
<1>13. Lists(p, val, Append(c, x), 1, n + 1, G)
  <2> DEFINE d == Append(c, x)
             X(h) == IeTok(p, val, h)
  <2>1. /\ \A m \in 1..n : \E h \in H : c[m] = X(h)
        /\ \A h \in H : \E m \in 1..n : c[m] = X(h)
        /\ \A m, q \in 1..n : c[m].f = c[q].f => m = q
    BY Zenon, <1>11 DEF Lists
  <2>2. x = X(pc)
    BY Zenon
  <2>3. 1..(n + 1) = (1..n) \cup {n + 1} /\ n + 1 \notin 1..n
    BY ONLY <1>9
  <2> DEFINE N == 1..n
             M == 1..(n + 1)
             z == n + 1
  <2>4. /\ \A m \in N : \E h \in H : c[m] = X(h)
        /\ \A h \in H : \E m \in N : c[m] = X(h)
        /\ \A m, q \in N : c[m].f = c[q].f => m = q
        /\ M = N \cup {z} /\ z \notin N
        /\ \A m \in N : d[m] = c[m] /\ c[m].f # x.f
        /\ d[z] = x
    BY Zenon, <1>10, <1>12, <2>1, <2>3
  <2> HIDE DEF d, X, N, M, z, x, G, H
  <2>5. /\ \A m \in M : \E h \in G : d[m] = X(h)
        /\ \A h \in G : \E m \in M : d[m] = X(h)
    BY ONLY <1>8, <2>2, <2>4
  <2>6. \A m, q \in M : d[m].f = d[q].f => m = q
    BY ONLY <2>4
  <2> QED
    BY Zenon, <2>5, <2>6 DEF Lists, M, X, d
<1>14. /\ container' \in Seq(Elements(container')) /\ pc' \in 1..Len(Program'.encode)
       /\ Lists(Program', val', container', 1, Len(container'), Counted(Program', val', pc'))
  BY Zenon, <1>1, <1>3, <1>6, <1>10, <1>13
<1> HIDE DEF p, c, n, x, H, G
<1> QED
  BY Zenon, <1>1, <1>2, <1>14 DEF MessageInv, Untouched

\* The whole message.
LEMMA MessageEncodeIes ==
  ASSUME Typed(Program), IsMessage(Program), MessageInv, EncodeIes
  PROVE  MessageInv'
<1> DEFINE p == Program
           c == container
           n == Len(c)
           a == <<Header(TRUE, <<>>), Length(n)>>
           w == a \o c
<1>1. Encoding({"ies"}) /\ Encoded(w)
  BY Zenon DEF EncodeIes
<1>2. /\ phase = "encode" /\ pc \in 1..Len(Program.encode) /\ S = Program.encode[pc]
      /\ Program.encode[pc].op \in {"ies"}
      /\ wire = <<>> /\ container \in Seq(Elements(container)) /\ peer = Untouched
      /\ Lists(Program, val, container, 1, Len(container), Counted(Program, val, pc))
      /\ pos = 1 /\ left = 0 /\ got = {}
  BY ONLY Zenon, Typed(Program), IsMessage(Program), MessageInv, <1>1, MessageEncoding
<1>3. /\ wire' = wire \o w /\ pc' = pc + 1 /\ Program' = Program /\ val' = val /\ phase' = phase
      /\ pos' = pos /\ left' = left /\ got' = got /\ peer' = peer
  BY Zenon, <1>1 DEF Encoded, Program
<1>4. /\ Len(p.encode) \in Nat /\ IeCount(p) \in Nat /\ Len(p.encode) = IeCount(p) + 1
  BY Zenon, MessageFacts
<1>5. pc = Len(p.encode)
  <2>1. pc \notin 1..IeCount(p)
    BY Zenon, <1>2, MessageOps
  <2> QED
    BY ONLY <1>2, <1>4, <2>1
<1>6. Counted(p, val, pc) = Shown(p, val, Untouched)
  <2>1. \A h \in 1..IeCount(p) : h < pc
    BY <1>4, <1>5
  <2> QED
    BY Zenon, <2>1 DEF Counted, Shown, Untouched
<1>7. n \in Nat /\ c \in Seq(Elements(c))
  BY Zenon, <1>2, SeqFacts
<1>8. a \in Seq(Elements(a)) /\ Len(a) = 2 /\ a[1] = Header(TRUE, <<>>) /\ a[2] = Length(n)
  BY Zenon, TwoFacts
<1> HIDE DEF a, c
<1>9. /\ w \in Seq(Elements(w)) /\ Len(w) = 2 + n
      /\ (\A i \in 1..2 : w[i] = a[i]) /\ (\A i \in 1..n : w[2 + i] = c[i])
  <2>1. /\ a \o c \in Seq(Elements(a \o c))
        /\ Len(a \o c) = Len(a) + Len(c)
        /\ \A i \in 1..Len(a) : (a \o c)[i] = a[i]
        /\ \A i \in 1..Len(c) : (a \o c)[Len(a) + i] = c[i]
        /\ Elements(a \o c) = Elements(a) \cup Elements(c)
    BY ONLY Zenon, <1>7, <1>8, ConcatFacts
  <2> QED
    BY Zenon, <1>8, <2>1
<1>10. wire \o w = w
  BY <1>2, <1>9
<1> HIDE DEF n, w
<1>11. Lists(p, val, w, 3, Len(w), Shown(p, val, Untouched))
  <2> DEFINE from == [m \in 3..Len(w) |-> m - 2]
             H == Shown(p, val, Untouched)
  <2>1. Lists(p, val, c, 1, n, H)
    BY Zenon, <1>2, <1>6 DEF c, n
  <2> HIDE DEF H
  <2>2. \A m \in 3..Len(w) : from[m] \in 1..n /\ w[m] = c[from[m]]
    <3> SUFFICES ASSUME NEW m \in 3..Len(w) PROVE m - 2 \in 1..n /\ w[m] = c[m - 2]
      BY Zenon
    <3>1. m - 2 \in 1..n /\ 2 + (m - 2) = m
      BY <1>7, <1>9
    <3> QED
      BY Zenon, <1>9, <3>1
  <2>3. \A m, q \in 3..Len(w) : from[m] = from[q] => m = q
    BY <1>7, <1>9
  <2>4. \A m \in 3..Len(w) : \E h \in H : c[from[m]] = IeTok(p, val, h)
    <3> HIDE DEF from
    <3> QED
      BY Zenon, <2>1, <2>2 DEF Lists
  <2>5. \A m \in 1..n : \E q \in 3..Len(w) : from[q] = m
    <3> SUFFICES ASSUME NEW m \in 1..n PROVE \E q \in 3..Len(w) : from[q] = m
      BY Zenon
    <3>1. m + 2 \in 3..Len(w) /\ (m + 2) - 2 = m
      BY <1>7, <1>9
    <3> QED
      BY Zenon, <3>1
  <2>6. /\ \A h \in H : \A m \in 1..n : c[m] = IeTok(p, val, h) => \E q \in 3..Len(w) : from[q] = m
        /\ H \subseteq H
    BY Zenon, <2>5
  <2> HIDE DEF from
  <2>7. Lists(p, val, w, 3, Len(w), H)
    BY ONLY <2>1, <2>2, <2>3, <2>4, <2>6, ListsMoved
  <2> QED
    BY Zenon, <2>7 DEF H
<1>12. MessageWire(p, val, w, Untouched)
  <2>1. Untouched.what = "nothing"
    BY Zenon DEF Untouched
  <2>2. LastListed(w, Untouched) = Len(w)
    BY Zenon, <2>1 DEF LastListed
  <2>3. Len(w) >= 2 /\ Len(w) - 2 = n /\ 1 \in 1..2 /\ 2 \in 1..2
    BY <1>7, <1>9
  <2>4. w[1] = Header(TRUE, <<>>) /\ w[2] = Length(Len(w) - 2)
    BY Zenon, <1>8, <1>9, <2>3
  <2> QED
    BY Zenon, <1>9, <1>11, <2>1, <2>2, <2>3, <2>4 DEF MessageWire
<1>13. pc' = Len(Program'.encode) + 1 /\ MessageWire(Program', val', wire', Untouched)
  BY Zenon, <1>3, <1>5, <1>10, <1>12
<1> HIDE DEF p
<1> QED
  BY Zenon, <1>2, <1>3, <1>13 DEF MessageInv, Untouched

\* What is sent is header, length and one IE for each statement included.
LEMMA MessageSend ==
  ASSUME Typed(Program), IsMessage(Program), MessageInv, Send
  PROVE  MessageInv'
<1>1. /\ phase = "encode" /\ pc > Len(Program.encode) /\ phase' = "sent"
      /\ Program' = Program /\ val' = val /\ wire' = wire /\ pos' = pos /\ left' = left /\ got' = got
      /\ peer' = peer
  BY Zenon DEF Send, End, Encoder, Program
<1>2. Len(Program.encode) \in Nat
  BY Zenon, MessageFacts
<1>3. pc \notin 1..Len(Program.encode)
  BY ONLY <1>1, <1>2
<1>4. peer = Untouched /\ MessageWire(Program, val, wire, Untouched) /\ pos = 1 /\ left = 0 /\ got = {}
  BY Zenon, <1>1, <1>3 DEF MessageInv
<1>5. peer.what \in {"nothing", "reordered", "omitted", "repeated", "added", "appended"}
  BY Zenon DEF MessageInv
<1> QED
  BY Zenon, <1>1, <1>4, <1>5 DEF MessageInv

\* Unless one was omitted the decoder sees every IE that was put.
LEMMA ShownAll ==
  ASSUME NEW p, NEW v, NEW by, by.what # "omitted"
  PROVE  Shown(p, v, by) = Shown(p, v, Untouched)
BY Zenon DEF Shown, Untouched

\* A list of IEs depends on nothing but its positions.
LEMMA ListsSame ==
  ASSUME NEW p, NEW v, NEW w, NEW lo, NEW hi, NEW H, Lists(p, v, w, lo, hi, H),
         NEW u, \A m \in lo..hi : u[m] = w[m]
  PROVE  Lists(p, v, u, lo, hi, H)
<1> DEFINE A == lo..hi
           X(h) == IeTok(p, v, h)
<1>1. /\ \A m \in A : \E h \in H : w[m] = X(h)
      /\ \A h \in H : \E m \in A : w[m] = X(h)
      /\ \A m, q \in A : w[m].f = w[q].f => m = q
      /\ \A m \in A : u[m] = w[m]
  BY Zenon DEF Lists
<1> HIDE DEF A, X
<1>2. /\ \A m \in A : \E h \in H : u[m] = X(h)
      /\ \A h \in H : \E m \in A : u[m] = X(h)
      /\ \A m, q \in A : u[m].f = u[q].f => m = q
  BY <1>1
<1> QED
  BY Zenon, <1>2 DEF Lists, A, X

\* The peer's length counts its IEs.
LEMMA RecountFacts ==
  ASSUME NEW r, r \in Seq(Elements(r)), Len(r) >= 2
  PROVE  /\ Recount(r) \in Seq(Elements(Recount(r))) /\ Len(Recount(r)) = Len(r)
         /\ Recount(r)[2] = Length(Len(Recount(r)) - 2)
         /\ \A m \in 1..Len(r) : m # 2 => Recount(r)[m] = r[m]
<1> DEFINE u == Recount(r)
           x == Length(Len(r) - 2)
<1>1. IsUpdate(u, r, 2, x)
  BY Zenon DEF Recount, IsUpdate
<1>2. 2 \in 1..Len(r)
  <2>1. Len(r) \in Nat
    BY Zenon, SeqFacts
  <2> QED
    BY <2>1
<1> HIDE DEF u, x
<1>3. /\ u \in Seq(Elements(u)) /\ Len(u) = Len(r) /\ u[2] = x
      /\ \A m \in 1..Len(r) : m # 2 => u[m] = r[m]
  <2>1. Updated(u, r, 2, x)
    BY Zenon, <1>1, <1>2, UpdateFacts
  <2> QED
    BY Zenon, <2>1 DEF Updated
<1> QED
  BY Zenon, <1>3 DEF u, x

\* What has not been disturbed, or only reordered.
LEMMA MessagePlain ==
  ASSUME Typed(Program), IsMessage(Program), MessageInv, Disturbable({"ies"}),
         peer = Untouched \/ peer.what = "reordered"
  PROVE  /\ phase = "sent" /\ val.edge = "lo"
         /\ wire \in Seq(Elements(wire)) /\ Len(wire) \in Nat /\ Len(wire) >= 2
         /\ wire[1] = Header(TRUE, <<>>) /\ wire[2] = Length(Len(wire) - 2)
         /\ Lists(Program, val, wire, 3, Len(wire), Shown(Program, val, Untouched))
<1>1. phase = "sent" /\ val.edge = "lo"
  BY Zenon DEF Disturbable
<1>2. MessageWire(Program, val, wire, peer)
  BY Zenon, <1>1 DEF MessageInv
<1>3. peer.what \in {"nothing", "reordered"}
  <2>1. Untouched.what = "nothing"
    BY Zenon DEF Untouched
  <2> QED
    BY Zenon, <2>1
<1>4. Shown(Program, val, peer) = Shown(Program, val, Untouched)
  BY Zenon, <1>3, ShownAll
<1>5. LastListed(wire, peer) = Len(wire)
  BY Zenon, <1>3 DEF LastListed
<1>6. Len(wire) \in Nat
  BY Zenon, <1>2, SeqFacts DEF MessageWire
<1> QED
  BY Zenon, <1>1, <1>2, <1>4, <1>5, <1>6 DEF MessageWire

\* The peer may change a message to any other that could have been sent.
LEMMA MessageDisturbed ==
  ASSUME MessageInv, phase = "sent", NEW u, NEW what, NEW f, Sent(u, what, f),
         what \in {"reordered", "omitted", "repeated", "added", "appended"},
         MessageWire(Program, val, u, [what |-> what, f |-> f])
  PROVE  MessageInv'
<1>1. /\ wire' = u /\ peer' = [what |-> what, f |-> f] /\ phase' = "sent"
      /\ Program' = Program /\ val' = val /\ pos' = pos /\ left' = left /\ got' = got
  BY Zenon DEF Sent, Program
<1>2. pos = 1 /\ left = 0 /\ got = {}
  BY Zenon DEF MessageInv
<1>3. peer'.what = what
  BY Zenon, <1>1
<1> QED
  BY Zenon, <1>1, <1>2, <1>3 DEF MessageInv

\* Two neighbours exchanged list the same IEs.
LEMMA MessageReorders ==
  ASSUME Typed(Program), IsMessage(Program), MessageInv, PeerReorders
  PROVE  MessageInv'
<1> DEFINE p == Program
           w == wire
           n == Len(w)
           H == Shown(p, val, Untouched)
<1>1. Disturbable({"ies"}) /\ (peer = Untouched \/ peer.what = "reordered")
  BY Zenon DEF PeerReorders
<1>2. PICK i \in IePositions \ {Len(wire)} :
         Sent([wire EXCEPT ![i] = wire[i + 1], ![i + 1] = wire[i]], "reordered", wire[i].f)
  BY Zenon DEF PeerReorders
<1> DEFINE s == [w EXCEPT ![i] = w[i + 1]]
           u == [w EXCEPT ![i] = w[i + 1], ![i + 1] = w[i]]
           by == [what |-> "reordered", f |-> wire[i].f]
<1>3. /\ phase = "sent" /\ w \in Seq(Elements(w)) /\ n \in Nat /\ n >= 2
      /\ w[1] = Header(TRUE, <<>>) /\ w[2] = Length(n - 2) /\ Lists(p, val, w, 3, n, H)
  BY Zenon, <1>1, MessagePlain
<1>4. i \in 3..n /\ i # n
  BY Zenon DEF IePositions
<1>5. i \in 1..n /\ i + 1 \in 1..n /\ i \in 3..n /\ i + 1 \in 3..n /\ i # i + 1
  BY ONLY <1>3, <1>4
<1>6. IsUpdate(u, s, i + 1, w[i])
  BY Zenon DEF IsUpdate
<1>7. /\ s \in Seq(Elements(s)) /\ Len(s) = Len(w) /\ s[i] = w[i + 1]
      /\ \A m \in 1..Len(w) : m # i => s[m] = w[m]
  <2>1. IsUpdate(s, w, i, w[i + 1])
    BY Zenon DEF IsUpdate
  <2> HIDE DEF s
  <2>2. Updated(s, w, i, w[i + 1])
    BY <1>3, <1>5, <2>1, UpdateFacts
  <2> QED
    BY Zenon, <2>2 DEF Updated
<1> HIDE DEF s
<1>8. /\ u \in Seq(Elements(u)) /\ Len(u) = Len(s) /\ u[i + 1] = w[i]
      /\ \A m \in 1..Len(s) : m # i + 1 => u[m] = s[m]
  <2>1. i + 1 \in 1..Len(s)
    BY Zenon, <1>5, <1>7
  <2> HIDE DEF u
  <2>2. Updated(u, s, i + 1, w[i])
    BY <1>6, <1>7, <2>1, UpdateFacts
  <2> QED
    BY Zenon, <1>6, <1>7, <2>1, <2>2 DEF Updated
<1> HIDE DEF u
<1>9. Len(u) = n /\ u[i] = w[i + 1] /\ u[i + 1] = w[i]
      /\ \A m \in 1..n : m # i /\ m # i + 1 => u[m] = w[m]
  BY Zenon, <1>5, <1>7, <1>8
<1>10. Lists(p, val, u, 3, n, H)
  <2> DEFINE from == [m \in 3..n |-> IF m = i THEN i + 1 ELSE IF m = i + 1 THEN i ELSE m]
  <2>1. \A m \in 3..n : from[m] \in 3..n /\ u[m] = w[from[m]]
    <3> SUFFICES ASSUME NEW m \in 3..n PROVE from[m] \in 3..n /\ u[m] = w[from[m]]
      BY Zenon
    <3>1. m \in 1..n
      BY <1>3
    <3> HIDE DEF w, n
    <3> QED
      BY Zenon, <1>5, <1>9, <3>1
  <2>2. \A m \in 3..n : from[from[m]] = m
    BY Zenon, <1>5
  <2> HIDE DEF from, H
  <2>3. \A m, q \in 3..n : from[m] = from[q] => m = q
    BY ONLY Zenon, <2>2
  <2>4. \A m \in 3..n : \E h \in H : w[from[m]] = IeTok(p, val, h)
    BY Zenon, <1>3, <2>1 DEF Lists
  <2>5. \A h \in H : \A m \in 3..n : w[m] = IeTok(p, val, h) => \E q \in 3..n : from[q] = m
    BY Zenon, <2>1, <2>2
  <2>6. Lists(p, val, w, 3, n, H) /\ H \subseteq H
    BY Zenon, <1>3
  <2> HIDE DEF p, w, n
  <2> QED
    BY ONLY <2>1, <2>3, <2>4, <2>5, <2>6, ListsMoved
<1>11. by.what = "reordered"
  BY Zenon
<1>12. LastListed(u, by) = n /\ Shown(p, val, by) = H
  <2> HIDE DEF by
  <2> QED
    BY Zenon, <1>9, <1>11, ShownAll DEF LastListed
<1>13. u[1] = w[1] /\ u[2] = w[2]
  <2>1. 1 \in 1..n /\ 2 \in 1..n /\ 1 # i /\ 1 # i + 1 /\ 2 # i /\ 2 # i + 1
    BY ONLY <1>3, <1>4
  <2> QED
    BY Zenon, <1>9, <2>1
<1> HIDE DEF by, H, w, n
<1>14. MessageWire(p, val, u, by)
  BY <1>3, <1>8, <1>9, <1>10, <1>11, <1>12, <1>13 DEF MessageWire
<1>15. Sent(u, "reordered", wire[i].f)
  BY Zenon, <1>2 DEF u, w
<1> QED
  BY <1>3, <1>14, <1>15, MessageDisturbed DEF by

\* Without one IE the others are listed.
LEMMA MessageOmits ==
  ASSUME Typed(Program), IsMessage(Program), MessageInv, PeerOmits
  PROVE  MessageInv'
<1> DEFINE p == Program
           w == wire
           n == Len(w)
           H == Shown(p, val, Untouched)
<1>1. Disturbable({"ies"}) /\ peer = Untouched
  BY Zenon DEF PeerOmits
<1>2. PICK i \in IePositions :
         Sent(Recount(SubSeq(wire, 1, i - 1) \o SubSeq(wire, i + 1, Len(wire))), "omitted", wire[i].f)
  BY Zenon DEF PeerOmits
<1> DEFINE r == SubSeq(w, 1, i - 1) \o SubSeq(w, i + 1, n)
           u == Recount(r)
           by == [what |-> "omitted", f |-> w[i].f]
           G == Shown(p, val, by)
<1>3. /\ phase = "sent" /\ w \in Seq(Elements(w)) /\ n \in Nat /\ n >= 2
      /\ w[1] = Header(TRUE, <<>>) /\ w[2] = Length(n - 2) /\ Lists(p, val, w, 3, n, H)
  BY Zenon, <1>1, MessagePlain
<1>4. i \in 3..n
  BY Zenon DEF IePositions
<1>5. i \in 1..n /\ n - 1 >= 2 /\ n - 1 \in Nat
  BY ONLY <1>3, <1>4
<1>6. /\ r \in Seq(Elements(r)) /\ Len(r) = n - 1
      /\ \A m \in 1..(i - 1) : r[m] = w[m]
      /\ \A m \in i..(n - 1) : r[m] = w[m + 1]
  <2>1. IsRemoval(r, w, i)
    BY Zenon DEF IsRemoval
  <2> HIDE DEF r
  <2>2. Removed(r, w, i)
    BY Zenon, <1>3, <1>5, <2>1, RemoveFacts
  <2> QED
    BY Zenon, <2>2 DEF Removed
<1> HIDE DEF r
<1>7. /\ u \in Seq(Elements(u)) /\ Len(u) = Len(r) /\ u[2] = Length(Len(u) - 2)
      /\ \A m \in 1..Len(r) : m # 2 => u[m] = r[m]
  BY Zenon, <1>5, <1>6, RecountFacts
<1> HIDE DEF u, w, n
<1>8. Len(u) = n - 1 /\ u[1] = w[1]
      /\ (\A m \in 3..(i - 1) : u[m] = w[m]) /\ (\A m \in i..(n - 1) : u[m] = w[m + 1])
  <2>1. Len(r) = n - 1
    BY Zenon, <1>6
  <2>2. 1 \in 1..(n - 1) /\ 1 \in 1..(i - 1) /\ 1 # 2
    BY ONLY <1>3, <1>4
  <2>3. \A m \in 3..(i - 1) : m \in 1..(n - 1) /\ m \in 1..(i - 1) /\ m # 2
    BY ONLY <1>3, <1>4
  <2>4. \A m \in i..(n - 1) : m \in 1..(n - 1) /\ m # 2
    BY ONLY <1>3, <1>4
  <2>5. u[1] = w[1]
    BY ONLY Zenon, <1>6, <1>7, <2>1, <2>2
  <2>6. \A m \in 3..(i - 1) : u[m] = w[m]
    BY ONLY <1>6, <1>7, <2>1, <2>3
  <2>7. \A m \in i..(n - 1) : u[m] = w[m + 1]
    BY ONLY Zenon, <1>6, <1>7, <2>1, <2>4
  <2> QED
    BY <1>7, <2>1, <2>5, <2>6, <2>7
<1>9. by.what = "omitted" /\ by.f = w[i].f
  BY Zenon
<1> HIDE DEF by
<1>10. G = {h \in H : p.encode[h].f # w[i].f}
  BY Zenon, <1>9 DEF Shown, Untouched
<1>11. /\ \A m \in 3..n : \E h \in H : w[m] = IeTok(p, val, h)
       /\ \A m, q \in 3..n : w[m].f = w[q].f => m = q
  BY Zenon, <1>3 DEF Lists
<1>12. \A h \in H : IeTok(p, val, h).f = p.encode[h].f
  BY Zenon DEF IeTok, IeToken
<1> HIDE DEF H, G
<1>13. Lists(p, val, u, 3, n - 1, G)
  <2> DEFINE from == [m \in 3..(n - 1) |-> IF m < i THEN m ELSE m + 1]
  <2>1. \A m \in 3..(n - 1) : from[m] \in 3..n /\ u[m] = w[from[m]]
    <3> SUFFICES ASSUME NEW m \in 3..(n - 1) PROVE from[m] \in 3..n /\ u[m] = w[from[m]]
      BY Zenon
    <3>1. from[m] = IF m < i THEN m ELSE m + 1
      BY Zenon
    <3> HIDE DEF from
    <3>2. CASE m < i
      <4>1. m \in 3..(i - 1) /\ m \in 3..n
        BY ONLY <1>3, <1>4, <3>2, m \in 3..(n - 1)
      <4> QED
        BY Zenon, <1>8, <3>1, <3>2, <4>1
    <3>3. CASE ~(m < i)
      <4>1. m \in i..(n - 1) /\ m + 1 \in 3..n
        BY ONLY <1>3, <1>4, <3>3, m \in 3..(n - 1)
      <4> QED
        BY Zenon, <1>8, <3>1, <3>3, <4>1
    <3> QED
      BY Zenon, <3>2, <3>3
  <2>2. \A m, q \in 3..(n - 1) : from[m] = from[q] => m = q
    BY ONLY <1>3, <1>4
  <2>3. \A m \in 3..(n - 1) : from[m] # i
    BY ONLY <1>3, <1>4
  <2>4. \A m \in 3..n : m # i => \E q \in 3..(n - 1) : from[q] = m
    <3> SUFFICES ASSUME NEW m \in 3..n, m # i PROVE \E q \in 3..(n - 1) : from[q] = m
      BY Zenon
    <3>1. CASE m < i
      <4>1. m \in 3..(n - 1)
        BY ONLY <1>3, <1>4, <3>1, m \in 3..n
      <4> QED
        BY Zenon, <3>1, <4>1
    <3>2. CASE ~(m < i)
      <4>1. m - 1 \in 3..(n - 1) /\ ~(m - 1 < i) /\ (m - 1) + 1 = m
        BY ONLY <1>3, <1>4, <3>2, m \in 3..n, m # i
      <4> QED
        BY Zenon, <4>1
    <3> QED
      BY Zenon, <3>1, <3>2
  <2> HIDE DEF from
  <2>5. \A m \in 3..(n - 1) : \E h \in G : w[from[m]] = IeTok(p, val, h)
    <3> SUFFICES ASSUME NEW m \in 3..(n - 1) PROVE \E h \in G : w[from[m]] = IeTok(p, val, h)
      BY Zenon
    <3>1. from[m] \in 3..n /\ from[m] # i
      BY Zenon, <2>1, <2>3
    <3>2. PICK h \in H : w[from[m]] = IeTok(p, val, h)
      BY Zenon, <1>11, <3>1
    <3>3. w[from[m]].f # w[i].f
      BY Zenon, <1>4, <1>11, <3>1
    <3> QED
      BY Zenon, <1>10, <1>12, <3>2, <3>3
  <2>6. \A h \in G : \A m \in 3..n : w[m] = IeTok(p, val, h) => \E q \in 3..(n - 1) : from[q] = m
    <3> SUFFICES ASSUME NEW h \in G, NEW m \in 3..n, w[m] = IeTok(p, val, h)
                 PROVE  \E q \in 3..(n - 1) : from[q] = m
      BY Zenon
    <3>1. w[m].f # w[i].f
      BY Zenon, <1>10, <1>12
    <3>2. m # i
      BY Zenon, <3>1
    <3> QED
      BY Zenon, <2>4, <3>2
  <2>7. Lists(p, val, w, 3, n, H) /\ G \subseteq H
    BY Zenon, <1>3, <1>10
  <2> QED
    BY ONLY <2>1, <2>2, <2>5, <2>6, <2>7, ListsMoved
<1>14. LastListed(u, by) = n - 1
  BY Zenon, <1>8, <1>9 DEF LastListed
<1>15. MessageWire(p, val, u, by)
  BY <1>3, <1>5, <1>7, <1>8, <1>9, <1>13, <1>14 DEF MessageWire, G
<1>16. Sent(u, "omitted", w[i].f)
  BY Zenon, <1>2 DEF u, r, w, n
<1> QED
  BY Zenon, <1>3, <1>15, <1>16, MessageDisturbed DEF by

\* One more IE at the end, and the count with it.
OneMore(p, v, x, by) ==
  \/ /\ by.what = "repeated"
     /\ \E h \in Shown(p, v, Untouched) : by.f = p.encode[h].f /\ x = Again(IeTok(p, v, h))
  \/ by.what = "added" /\ x = Stranger

\* An IE after the others leaves them listed.
LEMMA MessageLonger ==
  ASSUME Typed(Program), IsMessage(Program), MessageInv, Disturbable({"ies"}), peer = Untouched,
         NEW x, NEW u, u = Recount(Append(wire, x)), NEW by, OneMore(Program, val, x, by)
  PROVE  phase = "sent" /\ MessageWire(Program, val, u, by)
<1> DEFINE p == Program
           w == wire
           n == Len(w)
           r == Append(w, x)
           H == Shown(p, val, Untouched)
<1>1. /\ phase = "sent" /\ val.edge = "lo" /\ w \in Seq(Elements(w)) /\ n \in Nat /\ n >= 2
      /\ w[1] = Header(TRUE, <<>>) /\ w[2] = Length(n - 2) /\ Lists(p, val, w, 3, n, H)
  BY Zenon, MessagePlain
<1> HIDE DEF w
<1>2. /\ r \in Seq(Elements(r)) /\ Len(r) = n + 1
      /\ (\A i \in 1..n : r[i] = w[i]) /\ r[n + 1] = x
  <2>1. /\ Append(w, x) \in Seq(Elements(Append(w, x)))
        /\ Len(Append(w, x)) = Len(w) + 1
        /\ \A i \in 1..Len(w) : Append(w, x)[i] = w[i]
        /\ Append(w, x)[Len(w) + 1] = x
        /\ Elements(Append(w, x)) = Elements(w) \cup {x}
    BY ONLY Zenon, <1>1, AppendFacts
  <2> QED
    BY Zenon, <2>1
<1>3. u = Recount(r)
  BY Zenon DEF w
<1> HIDE DEF r, n
<1>4. Len(r) >= 2
  BY <1>1, <1>2
<1>5. /\ u \in Seq(Elements(u)) /\ Len(u) = Len(r) /\ u[2] = Length(Len(u) - 2)
      /\ \A m \in 1..Len(r) : m # 2 => u[m] = r[m]
  BY <1>2, <1>3, <1>4, RecountFacts
<1>6. /\ Len(u) = n + 1 /\ Len(u) >= 3 /\ Len(u) - 1 = n
  BY <1>1, <1>2, <1>5
<1>7. u[1] = w[1] /\ u[n + 1] = x /\ \A m \in 3..n : u[m] = w[m]
  <2>1. /\ 1 \in 1..(n + 1) /\ 1 \in 1..n /\ 1 # 2 /\ n + 1 \in 1..(n + 1) /\ n + 1 # 2
        /\ \A m \in 3..n : m \in 1..n /\ m \in 1..(n + 1) /\ m # 2
    BY ONLY <1>1
  <2>2. u[1] = w[1]
    BY Zenon, <1>2, <1>5, <2>1
  <2>3. u[n + 1] = x
    BY Zenon, <1>2, <1>5, <2>1
  <2>4. \A m \in 3..n : u[m] = w[m]
    BY Zenon, <1>2, <1>5, <2>1
  <2> QED
    BY Zenon, <2>2, <2>3, <2>4
<1>8. Lists(p, val, u, 3, n, H)
  BY <1>1, <1>7, ListsSame
<1>9. LastListed(u, by) = n /\ Shown(p, val, by) = H
  <2>1. LastListed(u, by) = Len(u) - 1
    BY Zenon DEF LastListed, OneMore
  <2>2. by.what # "omitted"
    BY Zenon DEF OneMore
  <2> QED
    BY Zenon, <1>6, <2>1, <2>2, ShownAll
<1>10. /\ by.what = "repeated" =>
             \E h \in H : by.f = p.encode[h].f /\ x = Again(IeTok(p, val, h))
       /\ by.what = "added" => x = Stranger
  BY Zenon DEF OneMore
<1> HIDE DEF p, H
<1> QED
  BY <1>1, <1>5, <1>6, <1>7, <1>8, <1>9, <1>10 DEF MessageWire, p

\* The peer sends the IE of a field again, with another number.
LEMMA MessageRepeats ==
  ASSUME Typed(Program), IsMessage(Program), MessageInv, PeerRepeats
  PROVE  MessageInv'
<1>1. Disturbable({"ies"}) /\ peer = Untouched
  BY Zenon DEF PeerRepeats
<1>2. PICK i \in IePositions :
         Sent(Recount(Append(wire, [wire[i] EXCEPT !.n = @ + 1])), "repeated", wire[i].f)
  BY Zenon DEF PeerRepeats
<1> DEFINE x == Again(wire[i])
           u == Recount(Append(wire, x))
           by == [what |-> "repeated", f |-> wire[i].f]
<1>3. PICK h \in Shown(Program, val, Untouched) : wire[i] = IeTok(Program, val, h)
  <2>1. Lists(Program, val, wire, 3, Len(wire), Shown(Program, val, Untouched))
    BY Zenon, <1>1, MessagePlain
  <2> QED
    BY Zenon, <2>1 DEF Lists, IePositions
<1>4. wire[i].f = Program.encode[h].f
  BY <1>3 DEF IeTok, IeToken
<1>5. Sent(u, "repeated", wire[i].f)
  BY Zenon, <1>2 DEF Again
<1>6. by.what = "repeated" /\ by.f = Program.encode[h].f /\ x = Again(IeTok(Program, val, h))
  BY Zenon, <1>3, <1>4
<1>7. u = Recount(Append(wire, x))
  BY Zenon
<1> HIDE DEF x, u, by
<1>8. phase = "sent" /\ MessageWire(Program, val, u, by)
  <2>1. OneMore(Program, val, x, by)
    BY Zenon, <1>6 DEF OneMore
  <2> QED
    BY Zenon, <1>1, <1>7, <2>1, MessageLonger
<1> QED
  BY Zenon, <1>5, <1>8, MessageDisturbed DEF by

\* The peer sends an IE the table does not have.
LEMMA MessageAdds ==
  ASSUME Typed(Program), IsMessage(Program), MessageInv, PeerAdds
  PROVE  MessageInv'
<1> DEFINE x == Stranger
           u == Recount(Append(wire, x))
           by == [what |-> "added", f |-> ""]
<1>1. Disturbable({"ies"}) /\ peer = Untouched /\ Sent(u, "added", "")
  BY Zenon DEF PeerAdds, Stranger
<1>2. by.what = "added" /\ u = Recount(Append(wire, x)) /\ x = Stranger
  BY Zenon
<1> HIDE DEF x, u, by
<1>3. phase = "sent" /\ MessageWire(Program, val, u, by)
  <2>1. OneMore(Program, val, x, by)
    BY Zenon, <1>2 DEF OneMore
  <2> QED
    BY Zenon, <1>1, <1>2, <2>1, MessageLonger
<1> QED
  BY Zenon, <1>1, <1>3, MessageDisturbed DEF by

\* The peer appends additions, which are not among the IEs.
LEMMA MessageAppends ==
  ASSUME Typed(Program), IsMessage(Program), MessageInv, PeerAppends
  PROVE  MessageInv'
<1> DEFINE by == [what |-> "appended", f |-> ""]
<1>1. phase = "sent" /\ peer = Untouched /\ Sent(wire, "appended", "")
  BY Zenon DEF PeerAppends, Disturbable
<1>2. MessageWire(Program, val, wire, Untouched)
  BY Zenon, <1>1 DEF MessageInv
<1>3. by.what = "appended" /\ Untouched.what = "nothing"
  BY Zenon DEF Untouched
<1> HIDE DEF by
<1>4. Shown(Program, val, by) = Shown(Program, val, Untouched)
  BY Zenon, <1>3, ShownAll
<1>5. LastListed(wire, by) = LastListed(wire, Untouched)
  BY Zenon, <1>3 DEF LastListed
<1>6. MessageWire(Program, val, wire, by)
  BY Zenon, <1>2, <1>3, <1>4, <1>5 DEF MessageWire
<1> QED
  BY Zenon, <1>1, <1>6, MessageDisturbed DEF by

\* The decoder starts before the header.
LEMMA MessageReceive ==
  ASSUME MessageInv, Receive
  PROVE  MessageInv'
<1>1. /\ phase = "sent" /\ phase' = "decode" /\ pc' = 1 /\ Program' = Program /\ val' = val
      /\ wire' = wire /\ pos' = pos /\ left' = left /\ got' = got /\ peer' = peer
  BY Zenon DEF Receive, Program
<1>2. pos = 1 /\ left = 0 /\ got = {} /\ MessageWire(Program, val, wire, peer)
  BY Zenon, <1>1 DEF MessageInv
<1>3. MessageDecoding(Program', val', wire', peer', pc', pos', left', got')
  BY Zenon, <1>1, <1>2 DEF MessageDecoding
<1>4. /\ peer.what \in {"nothing", "reordered", "omitted", "repeated", "added", "appended"}
      /\ peer.what = "nothing" => peer = Untouched
  BY Zenon DEF MessageInv
<1> QED
  BY Zenon, <1>1, <1>2, <1>3, <1>4 DEF MessageInv

\* A step of the decoder.
LEMMA MessageReads ==
  ASSUME MessageInv, phase = "decode",
         UNCHANGED <<codec, val, phase, wire, peer>>,
         MessageDecoding(Program, val, wire, peer, pc', pos', left', got')
  PROVE  MessageInv'
<1>1. Program' = Program /\ val' = val /\ phase' = phase /\ wire' = wire /\ peer' = peer
  BY Zenon DEF Program
<1>2. MessageWire(Program, val, wire, peer)
  BY Zenon DEF MessageInv
<1>3. /\ peer.what \in {"nothing", "reordered", "omitted", "repeated", "added", "appended"}
      /\ peer.what = "nothing" => peer = Untouched
  BY Zenon DEF MessageInv
<1>4. MessageDecoding(Program', val', wire', peer', pc', pos', left', got')
  BY Zenon, <1>1
<1> QED
  BY Zenon, <1>1, <1>2, <1>3, <1>4 DEF MessageInv

\* A refusal of what has to be refused.
LEMMA MessageRefused ==
  ASSUME MessageInv, phase = "decode", End("refused"), Refuses(Program, peer)
  PROVE  MessageInv'
<1>1. /\ phase' = "refused" /\ Program' = Program /\ val' = val /\ wire' = wire /\ peer' = peer
  BY Zenon DEF End, Program
<1>2. MessageWire(Program, val, wire, peer)
  BY Zenon DEF MessageInv
<1>3. /\ peer.what \in {"nothing", "reordered", "omitted", "repeated", "added", "appended"}
      /\ peer.what = "nothing" => peer = Untouched
  BY Zenon DEF MessageInv
<1> QED
  BY Zenon, <1>1, <1>2, <1>3 DEF MessageInv

\* The decoder ends after the check, with what it made of the message.
LEMMA MessageDecodeEnds ==
  ASSUME Typed(Program), IsMessage(Program), MessageInv, DecodeEnds
  PROVE  MessageInv'
<1>1. /\ phase = "decode" /\ pc > 2 /\ phase' = "done" /\ Program' = Program /\ val' = val
      /\ wire' = wire /\ pos' = pos /\ left' = left /\ got' = got /\ peer' = peer
  BY Zenon, MessageFacts DEF DecodeEnds, End, Decoder, Program
<1>2. MessageWire(Program, val, wire, peer) /\ MessageDecoding(Program, val, wire, peer, pc, pos, left, got)
  BY Zenon, <1>1 DEF MessageInv
<1>3. pc = 3
  BY <1>1, <1>2 DEF MessageDecoding
<1>4. got = MessageGot(Program, val, peer) /\ pos = Len(wire) + 1 /\ ~Refuses(Program, peer)
  BY <1>2, <1>3 DEF MessageDecoding
<1>5. /\ peer.what \in {"nothing", "reordered", "omitted", "repeated", "added", "appended"}
      /\ peer.what = "nothing" => peer = Untouched
  BY Zenon DEF MessageInv
<1> QED
  BY Zenon, <1>1, <1>2, <1>4, <1>5 DEF MessageInv

\* Where the decoder of a message is.
LEMMA MessageAt ==
  ASSUME Typed(Program), IsMessage(Program), MessageInv, NEW ops, Decoding(ops)
  PROVE  /\ phase = "decode" /\ pc \in {1, 2} /\ S = Program.decode[pc] /\ Program.decode[pc].op \in ops
         /\ MessageWire(Program, val, wire, peer)
         /\ MessageDecoding(Program, val, wire, peer, pc, pos, left, got)
         /\ Len(wire) \in Nat
         /\ peer.what \in {"nothing", "reordered", "omitted", "repeated", "added", "appended"}
<1>1. phase = "decode" /\ pc <= 2 /\ Program.decode[pc].op \in ops
  BY Zenon, MessageFacts DEF Decoding, Decoder, Program
<1>2. /\ MessageWire(Program, val, wire, peer)
      /\ MessageDecoding(Program, val, wire, peer, pc, pos, left, got)
      /\ peer.what \in {"nothing", "reordered", "omitted", "repeated", "added", "appended"}
  BY Zenon, <1>1 DEF MessageInv
<1>3. pc \in {1, 2}
  BY <1>1, <1>2 DEF MessageDecoding
<1>4. S = Program.decode[pc]
  BY Zenon, <1>1 DEF S, Decoder, Program
<1>5. Len(wire) \in Nat
  BY ZenonT(30), <1>2, SeqFacts DEF MessageWire
<1> QED
  BY Zenon, <1>1, <1>2, <1>3, <1>4, <1>5

\* What the IEs that are listed fill.
Fills(p, v, H) == {<<p.encode[h].f, Number(p.encode[h].l, v.edge)>> : h \in H}

\* At the end of a list its IEs have filled the fields of their statements.
LEMMA BeforeListed ==
  ASSUME NEW p, NEW v, NEW w, NEW M \in Int, NEW H, Lists(p, v, w, 3, M, H)
  PROVE  Before(w, M + 1) = Fills(p, v, H)
<1> DEFINE A == 3..M
           X(h) == IeTok(p, v, h)
<1>1. 3..((M + 1) - 1) = A
  OBVIOUS
<1>2. /\ \A m \in A : \E h \in H : w[m] = X(h)
      /\ \A h \in H : \E m \in A : w[m] = X(h)
  BY Zenon DEF Lists
<1>3. \A h \in H : X(h).f = p.encode[h].f /\ X(h).n = Number(p.encode[h].l, v.edge)
  BY Zenon DEF IeTok, IeToken
<1>4. Before(w, M + 1) = {<<w[q].f, w[q].n>> : q \in A}
  BY Zenon, <1>1 DEF Before
<1> HIDE DEF A, X
<1>5. {<<w[q].f, w[q].n>> : q \in A} = {<<X(h).f, X(h).n>> : h \in H}
  BY ONLY Zenon, <1>2
<1>6. {<<X(h).f, X(h).n>> : h \in H} = Fills(p, v, H)
  BY Zenon, <1>3 DEF Fills
<1> QED
  BY Zenon, <1>4, <1>5, <1>6

\* An IE of a list fills a field no earlier one has.
LEMMA BeforeNext ==
  ASSUME NEW p, NEW v, NEW w, NEW M \in Int, NEW H, Lists(p, v, w, 3, M, H), NEW at \in 3..M
  PROVE  {g \in Before(w, at) : g[1] # w[at].f} \cup {<<w[at].f, w[at].n>>} = Before(w, at + 1)
<1> DEFINE A == 3..(at - 1)
           B == 3..((at + 1) - 1)
           P(q) == <<w[q].f, w[q].n>>
<1>1. B = A \cup {at} /\ at \notin A /\ A \subseteq 3..M
  OBVIOUS
<1>2. \A q \in A : w[q].f # w[at].f
  BY Zenon, <1>1 DEF Lists
<1>3. \A q : P(q)[1] = w[q].f
  BY Zenon
<1>4. Before(w, at) = {P(q) : q \in A} /\ Before(w, at + 1) = {P(q) : q \in B}
  BY Zenon DEF Before
<1>5. <<w[at].f, w[at].n>> = P(at)
  BY Zenon
<1> HIDE DEF A, B, P
<1>6. {g \in Before(w, at) : g[1] # w[at].f} = Before(w, at)
  BY <1>2, <1>3, <1>4
<1> QED
  BY Zenon, <1>1, <1>4, <1>5, <1>6

\* Without a repeated IE the decoder gets the fields shown.
LEMMA GotPlain ==
  ASSUME NEW p, NEW v, NEW by, by.what # "repeated"
  PROVE  MessageGot(p, v, by) = Fills(p, v, Shown(p, v, by))
BY Zenon DEF MessageGot, Fills

\* With one, the last number counts.
LEMMA GotRepeated ==
  ASSUME NEW p, NEW v, NEW by, Typed(p), IsMessage(p), by.what = "repeated",
         NEW h \in Shown(p, v, by), by.f = p.encode[h].f
  PROVE  MessageGot(p, v, by) =
           {g \in Fills(p, v, Shown(p, v, by)) : g[1] # by.f}
             \cup {<<by.f, Number(p.encode[h].l, v.edge) + 1>>}
<1> DEFINE H == Shown(p, v, by)
           F(j) == p.encode[j].f
           N(j) == Number(p.encode[j].l, v.edge)
           a == by.f
<1>1. \A j \in H : F(j) = a => j = h
  <2>1. H \subseteq 1..IeCount(p)
    BY Zenon DEF Shown
  <2> QED
    BY Zenon, <2>1, MessageDistinct
<1>2. MessageGot(p, v, by) = {<<F(j), IF F(j) = a THEN N(j) + 1 ELSE N(j)>> : j \in H}
  BY Zenon DEF MessageGot
<1>3. Fills(p, v, H) = {<<F(j), N(j)>> : j \in H}
  BY Zenon DEF Fills
<1>4. h \in H /\ F(h) = a
  BY Zenon
<1> HIDE DEF H, F, N, a
<1> DEFINE L == {<<F(j), IF F(j) = a THEN N(j) + 1 ELSE N(j)>> : j \in H}
           R == {g \in {<<F(j), N(j)>> : j \in H} : g[1] # a} \cup {<<a, N(h) + 1>>}
<1>5. L \subseteq R
  <2> SUFFICES ASSUME NEW j \in H PROVE <<F(j), IF F(j) = a THEN N(j) + 1 ELSE N(j)>> \in R
    BY Zenon
  <2>1. CASE F(j) = a
    <3>1. j = h
      BY Zenon, <1>1, <2>1
    <3> QED
      BY Zenon, <2>1, <3>1
  <2>2. CASE F(j) # a
    BY Zenon, <2>2
  <2> QED
    BY Zenon, <2>1, <2>2
<1>6. R \subseteq L
  <2>1. <<a, N(h) + 1>> \in L
    BY Zenon, <1>4
  <2>2. ASSUME NEW j \in H, F(j) # a PROVE <<F(j), N(j)>> \in L
    BY Zenon, <2>2
  <2> QED
    BY <2>1, <2>2
<1>7. L = R
  BY Zenon, <1>5, <1>6
<1> QED
  BY Zenon, <1>2, <1>3, <1>7 DEF H, N, a

\* The loop is entered with the number of IEs left, or passed over.
LEMMA MessageDecodeLength ==
  ASSUME Typed(Program), IsMessage(Program), MessageInv, DecodeLength
  PROVE  MessageInv'
<1> DEFINE p == Program
           n == Len(wire)
<1>1. Decoding({"ies", "extensions"}) /\ ~(left > 0)
  BY Zenon DEF DecodeLength, InLoop
<1>2. /\ phase = "decode" /\ pc \in {1, 2} /\ S = p.decode[pc] /\ p.decode[pc].op \in {"ies", "extensions"}
      /\ MessageWire(p, val, wire, peer)
      /\ MessageDecoding(p, val, wire, peer, pc, pos, left, got)
      /\ n \in Nat
      /\ peer.what \in {"nothing", "reordered", "omitted", "repeated", "added", "appended"}
  BY ONLY Zenon, Typed(Program), IsMessage(Program), MessageInv, <1>1, MessageAt
<1>3. pc = 1 /\ S = p.decode[1] /\ S.op = "ies"
  BY Zenon, <1>2, MessageOps
<1>4. pos = 1 /\ got = {}
  <2>1. ASSUME pos \in 3..n, left = n + 1 - pos PROVE FALSE
    BY ONLY <1>1, <1>2, <2>1
  <2> QED
    BY <1>2, <1>3, <2>1 DEF MessageDecoding
<1>5. n >= 2 /\ wire[1] = Header(TRUE, <<>>) /\ wire[2] = Length(n - 2)
  BY Zenon, <1>2 DEF MessageWire
<1>6. Tok = wire[1] /\ Token(pos + 1) = wire[2]
  <2>1. pos <= n /\ pos + 1 <= n /\ pos + 1 = 2
    BY ONLY <1>2, <1>4, <1>5
  <2> QED
    BY Zenon, <1>4, <2>1 DEF Tok, Token
<1>7. Token(pos + 1).tok = "length" /\ Token(pos + 1).n = n - 2
  BY <1>5, <1>6 DEF Length
<1>8. Legible
  BY <1>1, <1>3, <1>5, <1>6, <1>7 DEF Legible, InLoop
<1>9. /\ pos' = (pos + 1) + 1 /\ left' = n - 2 /\ pc' = (IF n - 2 = 0 THEN pc + 1 ELSE pc)
      /\ got' = got /\ UNCHANGED <<codec, val, phase, wire, peer>>
  <2> DEFINE at == IF S.op = "ies" THEN pos + 1 ELSE pos
  <2>1. at = pos + 1
    BY Zenon, <1>3
  <2>2. /\ pos' = at + 1 /\ left' = Token(at).n /\ pc' = IF Token(at).n = 0 THEN pc + 1 ELSE pc
        /\ got' = got /\ UNCHANGED <<codec, val, phase, wire, peer>>
    BY Zenon, <1>8 DEF DecodeLength
  <2> HIDE DEF n, at
  <2> QED
    BY Zenon, <1>7, <2>1, <2>2
<1>10. MessageDecoding(p, val, wire, peer, pc', pos', left', got')
  <2>1. CASE n = 2
    <3>1. pos' = n + 1 /\ left' = 0 /\ pc' = 2 /\ pc' # 3
      BY ONLY <1>3, <1>4, <1>9, <2>1
    <3>2. peer.what # "added"
      <4>1. ~(n >= 3)
        BY ONLY <2>1
      <4> QED
        BY Zenon, <1>2, <4>1 DEF MessageWire
    <3>3. Shown(p, val, peer) = {}
      <4>1. LastListed(wire, peer) = n - 1 \/ LastListed(wire, peer) = n
        BY Zenon DEF LastListed
      <4>2. 3..LastListed(wire, peer) = {}
        BY ONLY <2>1, <4>1
      <4> QED
        BY Zenon, <1>2, <4>2 DEF MessageWire, Lists
    <3>4. MessageGot(p, val, peer) = {}
      BY Zenon, <3>3 DEF MessageGot
    <3> QED
      BY Zenon, <1>4, <1>9, <3>1, <3>2, <3>4 DEF MessageDecoding
  <2>2. CASE n # 2
    <3>1. pos' = 3 /\ pos' \in 3..n /\ left' = n + 1 - pos' /\ pc' = 1
      <4>1. n \in Nat /\ n >= 2 /\ pos = 1 /\ pc = 1
        BY Zenon, <1>2, <1>3, <1>4, <1>5
      <4>2. pos' = (pos + 1) + 1 /\ left' = n - 2 /\ pc' = (IF n - 2 = 0 THEN pc + 1 ELSE pc)
        BY Zenon, <1>9
      <4> HIDE DEF n
      <4> QED
        BY ONLY <2>2, <4>1, <4>2
    <3>2. Before(wire, 3) = {}
      BY DEF Before
    <3> QED
      BY Zenon, <1>4, <1>9, <3>1, <3>2 DEF MessageDecoding
  <2> QED
    BY Zenon, <2>1, <2>2
<1> QED
  BY Zenon, <1>2, <1>9, <1>10, MessageReads

\* Where the loop of a message is.
LEMMA MessageLoop ==
  ASSUME Typed(Program), IsMessage(Program), MessageInv, DecodeIe
  PROVE  /\ phase = "decode" /\ pc = 1 /\ S = Program.decode[1] /\ S.op = "ies" /\ InLoop
         /\ MessageWire(Program, val, wire, peer) /\ Len(wire) \in Nat
         /\ pos \in 3..Len(wire) /\ left = Len(wire) + 1 - pos /\ got = Before(wire, pos)
         /\ Tok = wire[pos]
         /\ peer.what \in {"nothing", "reordered", "omitted", "repeated", "added", "appended"}
<1> DEFINE p == Program
           n == Len(wire)
<1>1. Decoding({"ies", "extensions"}) /\ left > 0 /\ InLoop
  BY Zenon DEF DecodeIe, InLoop
<1>2. /\ phase = "decode" /\ pc \in {1, 2} /\ S = p.decode[pc] /\ p.decode[pc].op \in {"ies", "extensions"}
      /\ MessageWire(p, val, wire, peer)
      /\ MessageDecoding(p, val, wire, peer, pc, pos, left, got)
      /\ n \in Nat
      /\ peer.what \in {"nothing", "reordered", "omitted", "repeated", "added", "appended"}
  BY ONLY Typed(Program), IsMessage(Program), MessageInv, <1>1, MessageAt
<1>3. pc = 1 /\ S = p.decode[1] /\ S.op = "ies"
  BY Zenon, <1>2, MessageOps
<1>4. pos \in 3..n /\ left = n + 1 - pos /\ got = Before(wire, pos)
  <2>1. left # 0 /\ pc \notin {2, 3}
    BY ONLY <1>1, <1>3
  <2> QED
    BY Zenon, <1>2, <2>1 DEF MessageDecoding
<1>5. Tok = wire[pos]
  <2>1. pos <= n
    BY <1>4
  <2> QED
    BY Zenon, <2>1 DEF Tok, Token
<1> QED
  BY Zenon, <1>1, <1>2, <1>3, <1>4, <1>5

\* A turn that reads an IE the decoder knows.
LEMMA MessageTurn ==
  ASSUME Typed(Program), IsMessage(Program), MessageInv, DecodeIe, NEW h \in 1..IeCount(Program),
         NEW n, Tok.tok = "ie", Tok.id = Program.encode[h].id, Tok.l = Program.encode[h].l, Tok.n = n,
         Decoded(Program.encode[h].l, n) = n
  PROVE  /\ got' = Filled(Program.encode[h].f, n) /\ pos' = pos + 1 /\ left' = left - 1
         /\ pc' = (IF left = 1 THEN pc + 1 ELSE pc) /\ UNCHANGED <<codec, val, phase, wire, peer>>
<1> DEFINE e == Program.encode[h]
           k == Ie(e.id, e.f, e.l)
<1>1. S = Program.decode[1] /\ S.op = "ies" /\ InLoop
  BY Zenon, MessageLoop
<1>2. ById(S.ies, Tok.id) = {k}
  BY ZenonT(30), <1>1, MessageIe DEF Knows
<1>3. k.f = e.f /\ k.l = e.l
  BY Zenon DEF Ie
<1> HIDE DEF k, e
<1>4. Legible
  <2>1. IsIeOf(pos, S.ies)
    BY Zenon, <1>2, <1>3 DEF IsIeOf, Tok, e
  <2> QED
    BY Zenon, <1>1, <2>1 DEF Legible
<1>5. /\ got' = (IF {k} = {} THEN got ELSE UNION {Filled(x.f, Decoded(x.l, Tok.n)) : x \in {k}})
      /\ pos' = pos + 1 /\ left' = left - 1
      /\ pc' = (IF left = 1 THEN pc + 1 ELSE pc) /\ UNCHANGED <<codec, val, phase, wire, peer>>
  BY Zenon, <1>2, <1>4 DEF DecodeIe
<1>6. Decoded(k.l, Tok.n) = n
  BY Zenon, <1>3 DEF e
<1>7. got' = Filled(k.f, Decoded(k.l, Tok.n))
  BY ZenonT(30), <1>5
<1>8. got' = Filled(Program.encode[h].f, n)
  BY Zenon, <1>3, <1>6, <1>7 DEF e
<1> QED
  BY Zenon, <1>5, <1>8

\* A turn of the loop reads the next IE, or refuses an unknown one.
LEMMA MessageDecodeIe ==
  ASSUME Typed(Program), IsMessage(Program), MessageInv, DecodeIe, val.edge \in {"lo", "hi"}
  PROVE  MessageInv'
<1> DEFINE p == Program
           w == wire
           n == Len(w)
           M == LastListed(w, peer)
           H == Shown(p, val, peer)
<1>1. /\ phase = "decode" /\ pc = 1 /\ S = p.decode[1] /\ S.op = "ies" /\ InLoop
      /\ MessageWire(p, val, w, peer) /\ n \in Nat
      /\ pos \in 3..n /\ left = n + 1 - pos /\ got = Before(w, pos) /\ Tok = w[pos]
      /\ peer.what \in {"nothing", "reordered", "omitted", "repeated", "added", "appended"}
  BY Zenon, MessageLoop
<1>2. Lists(p, val, w, 3, M, H)
  BY Zenon, <1>1 DEF MessageWire
<1>3. H \subseteq 1..IeCount(p)
  BY Zenon DEF Shown
<1>4. /\ peer.what \in {"repeated", "added"} => M = n - 1
      /\ peer.what \notin {"repeated", "added"} => M = n
  BY Zenon DEF LastListed
<1>5. n \in Nat /\ pos \in 3..n /\ left = n + 1 - pos /\ pc = 1
  BY Zenon, <1>1
<1>6. M = n - 1 \/ M = n
  BY Zenon, <1>4
<1> HIDE DEF M, H, n, w, p
<1>7. M \in Int
  BY ONLY <1>5, <1>6
<1>8. CASE pos <= M
  <2>1. pos \in 3..M
    BY ONLY <1>5, <1>7, <1>8
  <2>2. PICK h \in H : w[pos] = IeTok(p, val, h)
    BY Zenon, <1>2, <2>1 DEF Lists
  <2> DEFINE x == Number(p.encode[h].l, val.edge)
             f == p.encode[h].f
  <2>3. /\ Tok.tok = "ie" /\ Tok.id = p.encode[h].id /\ Tok.l = p.encode[h].l /\ Tok.n = x
        /\ w[pos].f = f /\ w[pos].n = x
    BY <1>1, <2>2 DEF IeTok, IeToken
  <2>4. h \in 1..IeCount(p)
    BY Zenon, <1>3
  <2>5. Decoded(p.encode[h].l, x) = x
    <3>1. Fits(p.encode[h].l)
      BY ZenonT(30), <2>4, MessageIe DEF Knows, p
    <3> QED
      BY Zenon, <3>1, FitsEdge
  <2> HIDE DEF x, f
  <2>6. /\ got' = Filled(p.encode[h].f, x) /\ pos' = pos + 1 /\ left' = left - 1
        /\ pc' = (IF left = 1 THEN pc + 1 ELSE pc) /\ UNCHANGED <<codec, val, phase, wire, peer>>
    BY Zenon, <2>3, <2>4, <2>5, MessageTurn DEF p
  <2>7. got' = Before(w, pos + 1)
    <3>1. {g \in Before(w, pos) : g[1] # w[pos].f} \cup {<<w[pos].f, w[pos].n>>} = Before(w, pos + 1)
      BY <1>2, <1>7, <2>1, BeforeNext
    <3>2. got' = {g \in got : g[1] # f} \cup {<<f, x>>}
      BY Zenon, <2>6 DEF Filled, f
    <3> QED
      BY Zenon, <1>1, <2>3, <3>1, <3>2
  <2>8. pos' = pos + 1 /\ left' = left - 1 /\ pc' = (IF left = 1 THEN pc + 1 ELSE pc)
    BY Zenon, <2>6
  <2>9. MessageDecoding(p, val, w, peer, pc', pos', left', got')
    <3>1. CASE pos # n
      <4>1. pc' = 1 /\ pos' \in 3..n /\ left' = n + 1 - pos' /\ pos' = pos + 1
        BY ONLY <1>5, <2>8, <3>1
      <4> QED
        BY Zenon, <2>7, <4>1 DEF MessageDecoding, n
    <3>2. CASE pos = n
      <4>1. pc' = 2 /\ pc' # 3 /\ left' = 0 /\ pos' = n + 1 /\ M = n /\ M # n - 1 /\ pos + 1 = M + 1
        BY ONLY <1>5, <1>6, <1>8, <2>8, <3>2
      <4>2. peer.what \notin {"repeated", "added"}
        BY Zenon, <1>4, <4>1
      <4>3. Before(w, M + 1) = Fills(p, val, H)
        BY Zenon, <1>2, <1>7, BeforeListed
      <4>4. MessageGot(p, val, peer) = Fills(p, val, H)
        BY Zenon, <4>2, GotPlain DEF H
      <4>5. got' = MessageGot(p, val, peer)
        BY <2>7, <4>1, <4>3, <4>4
      <4> QED
        BY Zenon, <4>1, <4>2, <4>5 DEF MessageDecoding, n
    <3> QED
      BY Zenon, <3>1, <3>2
  <2>10. phase = "decode" /\ UNCHANGED <<codec, val, phase, wire, peer>>
    BY Zenon, <1>1, <2>6
  <2> QED
    BY Zenon, <2>9, <2>10, MessageReads DEF p, w
<1>9. CASE ~(pos <= M)
  <2>1. pos = n /\ M = n - 1 /\ M # n
    BY ONLY <1>5, <1>6, <1>9
  <2>2. peer.what \in {"repeated", "added"}
    BY Zenon, <1>4, <2>1
  <2>3. CASE peer.what = "added"
    <3>1. Tok = Stranger
      BY Zenon, <1>1, <2>1, <2>3 DEF MessageWire, n
    <3>2. Tok.tok = "ie" /\ Tok.id = UnknownId
      BY Zenon, <3>1 DEF Stranger, IeToken
    <3>3. ById(S.ies, Tok.id) = {}
      BY Zenon, <1>1, <3>2, MessageOps DEF p
    <3>4. Legible
      <4>1. IsIeOf(pos, S.ies)
        BY Zenon, <3>3 DEF IsIeOf, Tok
      <4> QED
        BY Zenon, <1>1, <3>2, <4>1 DEF Legible
    <3>5. End("refused")
      BY Zenon, <1>1, <3>3, <3>4 DEF DecodeIe
    <3>6. Refuses(Program, peer)
      BY <2>3 DEF Refuses
    <3> QED
      BY Zenon, <1>1, <3>5, <3>6, MessageRefused
  <2>4. CASE peer.what = "repeated"
    <3>1. PICK h \in H : peer.f = p.encode[h].f /\ w[n] = Again(IeTok(p, val, h))
      BY Zenon, <1>1, <2>4 DEF MessageWire, H, n
    <3>2. val.edge = "lo"
      BY Zenon, <1>1, <2>4 DEF MessageWire
    <3> DEFINE x == Number(p.encode[h].l, val.edge) + 1
    <3>3. Tok.tok = "ie" /\ Tok.id = p.encode[h].id /\ Tok.l = p.encode[h].l /\ Tok.n = x
      <4>1. Tok = Again(IeTok(p, val, h))
        BY <1>1, <2>1, <3>1
      <4> QED
        BY Zenon, <4>1 DEF Again, IeTok, IeToken
    <3>4. h \in 1..IeCount(p)
      BY Zenon, <1>3
    <3>5. Decoded(p.encode[h].l, x) = x
      BY Zenon, <3>2, <3>4, MessageIe DEF p
    <3> HIDE DEF x
    <3>6. /\ got' = Filled(p.encode[h].f, x) /\ pos' = pos + 1 /\ left' = left - 1
          /\ pc' = (IF left = 1 THEN pc + 1 ELSE pc) /\ UNCHANGED <<codec, val, phase, wire, peer>>
      BY <3>3, <3>4, <3>5, MessageTurn DEF p
    <3>7. got = Fills(p, val, H)
      <4>1. pos = M + 1
        BY ONLY <1>5, <2>1
      <4>2. Before(w, M + 1) = Fills(p, val, H)
        BY Zenon, <1>2, <1>7, BeforeListed
      <4> QED
        BY Zenon, <1>1, <4>1, <4>2
    <3>8. got' = {g \in Fills(p, val, H) : g[1] # peer.f} \cup {<<peer.f, x>>}
      BY ZenonT(30), <3>1, <3>6, <3>7 DEF Filled
    <3>9. MessageGot(p, val, peer) =
            {g \in Fills(p, val, H) : g[1] # peer.f} \cup {<<peer.f, x>>}
      BY <2>4, <3>1, GotRepeated DEF H, x, p
    <3>10. pc' = 2 /\ pc' # 3 /\ left' = 0 /\ pos' = n + 1
      <4>1. pos' = pos + 1 /\ left' = left - 1 /\ pc' = (IF left = 1 THEN pc + 1 ELSE pc)
        BY Zenon, <3>6
      <4> QED
        BY ONLY <1>5, <2>1, <4>1
    <3>11. MessageDecoding(p, val, w, peer, pc', pos', left', got')
      BY Zenon, <2>4, <3>8, <3>9, <3>10 DEF MessageDecoding, n
    <3>12. phase = "decode" /\ UNCHANGED <<codec, val, phase, wire, peer>>
      BY Zenon, <1>1, <3>6
    <3> QED
      BY Zenon, <3>11, <3>12, MessageReads DEF p, w
  <2> QED
    BY Zenon, <2>2, <2>3, <2>4
<1> QED
  BY Zenon, <1>8, <1>9

\* The fields that are filled include every mandatory one, unless it was left out.
LEMMA Required ==
  ASSUME NEW p, NEW v, NEW by, Typed(p), IsMessage(p), by.what # "added"
  PROVE  (\A f \in p.decode[2].fs : \E g \in MessageGot(p, v, by) : g[1] = f) <=> ~Refuses(p, by)
<1> DEFINE K == 1..IeCount(p)
           fs == p.decode[2].fs
           H == Shown(p, v, by)
           G == MessageGot(p, v, by)
           F(h) == p.encode[h].f
<1>1. fs = {F(h) : h \in {j \in K : p.encode[j].op = "put ie"}}
  BY ZenonT(30), MessageOps
<1>2. \A f : (\E g \in G : g[1] = f) <=> \E h \in H : F(h) = f
  <2> DEFINE V(h) == IF by.what = "repeated" /\ p.encode[h].f = by.f
                     THEN Number(p.encode[h].l, v.edge) + 1 ELSE Number(p.encode[h].l, v.edge)
             P(h) == <<F(h), V(h)>>
  <2>1. G = {P(h) : h \in H}
    BY Zenon DEF MessageGot
  <2>2. \A h : P(h)[1] = F(h)
    BY Zenon
  <2> HIDE DEF G, H, F, P
  <2> QED
    BY Zenon, <2>1, <2>2
<1>3. \A h \in K : p.encode[h].op = "put ie" => (h \in H <=> ~(by.what = "omitted" /\ F(h) = by.f))
  BY Zenon DEF Shown, Included
<1>4. H \subseteq K /\ (by.what = "omitted" => \A h \in H : F(h) # by.f)
  BY Zenon DEF Shown
<1>5. Refuses(p, by) <=> by.what = "omitted" /\ by.f \in fs
  BY Zenon DEF Refuses
<1> HIDE DEF K, fs, H, G, F
<1>6. ASSUME Refuses(p, by) PROVE ~(\A f \in fs : \E g \in G : g[1] = f)
  BY Zenon, <1>2, <1>4, <1>5, <1>6
<1>7. ASSUME ~Refuses(p, by), NEW f \in fs PROVE \E g \in G : g[1] = f
  <2>1. PICK h \in K : p.encode[h].op = "put ie" /\ f = F(h)
    BY Zenon, <1>1
  <2>2. h \in H
    BY Zenon, <1>3, <1>5, <1>7, <2>1
  <2> QED
    BY Zenon, <1>2, <2>1, <2>2
<1>8. (\A f \in fs : \E g \in G : g[1] = f) <=> ~Refuses(p, by)
  BY Zenon, <1>6, <1>7
<1> QED
  BY Zenon, <1>8 DEF fs, G

\* A mandatory field is missing exactly when the peer left its IE out.
LEMMA MessageDecodeRequire ==
  ASSUME Typed(Program), IsMessage(Program), MessageInv, DecodeRequire
  PROVE  MessageInv'
<1> DEFINE p == Program
<1>1. Decoding({"require"})
  BY Zenon DEF DecodeRequire
<1>2. /\ phase = "decode" /\ pc \in {1, 2} /\ S = p.decode[pc] /\ p.decode[pc].op \in {"require"}
      /\ MessageWire(p, val, wire, peer)
      /\ MessageDecoding(p, val, wire, peer, pc, pos, left, got)
      /\ Len(wire) \in Nat
      /\ peer.what \in {"nothing", "reordered", "omitted", "repeated", "added", "appended"}
  BY ONLY Typed(Program), IsMessage(Program), MessageInv, <1>1, MessageAt
<1>3. pc = 2 /\ S = p.decode[2]
  BY Zenon, <1>2, MessageOps
<1>4. left = 0 /\ pos = Len(wire) + 1 /\ peer.what # "added" /\ got = MessageGot(p, val, peer)
  <2>1. pc # 1
    BY ONLY <1>3
  <2> QED
    BY Zenon, <1>2, <2>1 DEF MessageDecoding
<1>5. (\A f \in S.fs : \E g \in got : g[1] = f) <=> ~Refuses(p, peer)
  BY <1>3, <1>4, Required
<1>6. CASE Refuses(p, peer)
  <2>1. End("refused")
    BY Zenon, <1>5, <1>6 DEF DecodeRequire
  <2> QED
    BY Zenon, <1>2, <1>6, <2>1, MessageRefused
<1>7. CASE ~Refuses(p, peer)
  <2>1. Advance(0, got)
    BY Zenon, <1>5, <1>7 DEF DecodeRequire
  <2>2. /\ pos' = pos + 0 /\ got' = got /\ pc' = pc + 1 /\ left' = left
        /\ UNCHANGED <<codec, val, phase, wire, peer>>
    BY Zenon, <2>1 DEF Advance
  <2>3. pos' = Len(wire) + 1 /\ pc' = 3 /\ left' = 0
    <3>1. Len(wire) \in Nat /\ pos = Len(wire) + 1 /\ pos' = pos + 0 /\ pc' = pc + 1 /\ pc = 2 /\ left' = 0
      BY Zenon, <1>2, <1>3, <1>4, <2>2
    <3> QED
      BY ONLY <3>1
  <2>4. MessageDecoding(p, val, wire, peer, pc', pos', left', got')
    BY <1>4, <1>7, <2>2, <2>3 DEF MessageDecoding
  <2> QED
    BY Zenon, <1>2, <2>2, <2>4, MessageReads
<1> QED
  BY Zenon, <1>6, <1>7

\* The invariant holds before the encoder's first statement.
LEMMA MessageInitially ==
  ASSUME Typed(Program), IsMessage(Program), CodecInit
  PROVE  MessageInv
<1>1. /\ phase = "encode" /\ pc = 1 /\ wire = <<>> /\ container = <<>> /\ pos = 1 /\ left = 0 /\ got = {}
      /\ peer = Untouched
  BY Zenon DEF CodecInit
<1>2. 1 \in 1..Len(Program.encode)
  <2>1. IeCount(Program) \in Nat /\ Len(Program.encode) = IeCount(Program) + 1
    BY Zenon, MessageFacts
  <2> QED
    BY ONLY <2>1
<1>3. Counted(Program, val, 1) = {}
  BY DEF Counted
<1>4. 1..Len(<<>>) = {}
  BY EmptyFacts
<1>5. Lists(Program, val, <<>>, 1, Len(<<>>), Counted(Program, val, 1))
  BY Zenon, <1>3, <1>4 DEF Lists
<1>6. Untouched.what = "nothing"
  BY Zenon DEF Untouched
<1> QED
  BY <1>1, <1>2, <1>5, <1>6, EmptyFacts DEF MessageInv

\* The encoder of a message has no other statements.
LEMMA MessageStatement ==
  ASSUME NEW p, Typed(p), IsMessage(p), NEW i \in 1..Len(p.encode)
  PROVE  p.encode[i].op \in {"put ie", "put ie if", "ies"}
<1> DEFINE k == IeCount(p)
           z == Len(p.encode)
<1>1. k \in Nat /\ z = k + 1
  BY Zenon, MessageFacts
<1>2. i \in 1..k \/ i = z
  <2> HIDE DEF k, z
  <2> QED
    BY <1>1 DEF z
<1>3. (\A h \in 1..k : p.encode[h].op \in {"put ie", "put ie if"}) /\ p.encode[z].op = "ies"
  BY Zenon, MessageOps
<1> QED
  BY Zenon, <1>2, <1>3

\* What a message never runs.
LEMMA MessageNotOthers ==
  ASSUME Typed(Program), IsMessage(Program), MessageInv,
         \/ EncodeHeader \/ EncodeField \/ EncodeExtensions
         \/ EncodeChoice \/ EncodeEnum \/ EncodeProcedure \/ PeerExtends
         \/ DecodeHeader \/ DecodeField \/ DecodeNone \/ DecodeChoice \/ DecodeEnum \/ DecodeProcedure
  PROVE  FALSE
<1>1. ASSUME NEW ops \in SUBSET {"header", "put", "put if", "extensions", "choice", "enum", "procedure"},
             Encoding(ops)
      PROVE  FALSE
  <2>1. pc \in 1..Len(Program.encode) /\ Program.encode[pc].op \in ops
    BY Zenon, <1>1, MessageEncoding
  <2>2. Program.encode[pc].op \in {"put ie", "put ie if", "ies"}
    BY Zenon, <2>1, MessageStatement
  <2> QED
    BY Zenon, <1>1, <2>1, <2>2
<1>2. ASSUME NEW ops \in SUBSET {"header", "get", "get if", "extensions", "choice", "enum", "procedure"},
             Decoding(ops)
      PROVE  FALSE
  <2>1. pc \in {1, 2} /\ Program.decode[pc].op \in ops
    BY Zenon, <1>2, MessageAt
  <2> QED
    BY Zenon, <2>1, MessageOps
<1>3. CASE EncodeHeader
  BY Zenon, <1>1, <1>3 DEF EncodeHeader
<1>4. CASE EncodeField
  BY Zenon, <1>1, <1>4 DEF EncodeField
<1>5. CASE EncodeExtensions
  BY Zenon, <1>1, <1>5 DEF EncodeExtensions
<1>6. CASE EncodeChoice
  BY Zenon, <1>1, <1>6 DEF EncodeChoice
<1>7. CASE EncodeEnum
  BY Zenon, <1>1, <1>7 DEF EncodeEnum
<1>8. CASE EncodeProcedure
  BY Zenon, <1>1, <1>8 DEF EncodeProcedure
<1>9. CASE PeerExtends
  BY Zenon, <1>9, MessageOps DEF PeerExtends, Disturbable, Decoder, Program
<1>10. CASE DecodeHeader
  BY Zenon, <1>2, <1>10 DEF DecodeHeader
<1>11. CASE DecodeField
  BY Zenon, <1>2, <1>11 DEF DecodeField
<1>12. CASE DecodeNone
  BY Zenon, <1>2, <1>12 DEF DecodeNone
<1>13. CASE DecodeChoice
  BY Zenon, <1>2, <1>13 DEF DecodeChoice
<1>14. CASE DecodeEnum
  BY Zenon, <1>2, <1>14 DEF DecodeEnum
<1>15. CASE DecodeProcedure
  BY Zenon, <1>2, <1>15 DEF DecodeProcedure
<1> QED
  BY <1>3, <1>4, <1>5, <1>6, <1>7, <1>8, <1>9, <1>10, <1>11, <1>12, <1>13, <1>14, <1>15

\* Every step of the two programs and of the peer keeps the invariant of a message.
LEMMA MessagePreserved ==
  ASSUME Typed(Program), IsMessage(Program), MessageInv, val.edge \in {"lo", "hi"},
         [CodecNext]_codecVars
  PROVE  MessageInv'
<1>1. CASE EncodeNone
  BY Zenon, <1>1, MessageEncodeNone
<1>2. CASE EncodeIe
  BY <1>2, MessageEncodeIe
<1>3. CASE EncodeIes
  BY Zenon, <1>3, MessageEncodeIes
<1>4. CASE Send
  BY Zenon, <1>4, MessageSend
<1>5. CASE PeerReorders
  BY Zenon, <1>5, MessageReorders
<1>6. CASE PeerOmits
  BY Zenon, <1>6, MessageOmits
<1>7. CASE PeerRepeats
  BY Zenon, <1>7, MessageRepeats
<1>8. CASE PeerAdds
  BY Zenon, <1>8, MessageAdds
<1>9. CASE Receive
  BY Zenon, <1>9, MessageReceive
<1>10. CASE DecodeLength
  BY Zenon, <1>10, MessageDecodeLength
<1>11. CASE DecodeIe
  BY <1>11, MessageDecodeIe
<1>12. CASE DecodeRequire
  BY Zenon, <1>12, MessageDecodeRequire
<1>13. CASE DecodeEnds
  BY Zenon, <1>13, MessageDecodeEnds
<1>14. CASE UNCHANGED codecVars
  BY Zenon, <1>14, Stutters DEF MessageInv
<1>16. CASE PeerAppends
  BY Zenon, <1>16, MessageAppends
<1>15. CASE \/ EncodeHeader \/ EncodeField \/ EncodeExtensions
            \/ EncodeChoice \/ EncodeEnum \/ EncodeProcedure \/ PeerExtends
            \/ DecodeHeader \/ DecodeField \/ DecodeNone \/ DecodeChoice \/ DecodeEnum \/ DecodeProcedure
  BY Zenon, <1>15, MessageNotOthers
<1> QED
  BY <1>1, <1>2, <1>3, <1>4, <1>5, <1>6, <1>7, <1>8, <1>9, <1>10, <1>11, <1>12, <1>13, <1>14,
     <1>15, <1>16 DEF CodecNext

\* A message sent without disturbance carries the value's fields, and no SetupRelease.
LEMMA MessageSentAre ==
  ASSUME Typed(Program), IsMessage(Program)
  PROVE  /\ ValueSent = Fills(Program, val, Shown(Program, val, Untouched)) /\ ~UsesSetupRelease
         /\ Mandatory = Program.decode[2].fs
<1> DEFINE p == Program
           K == 1..IeCount(p)
           z == Len(p.encode)
<1>1. /\ IeCount(p) \in Nat /\ z = IeCount(p) + 1 /\ DOMAIN p.encode = 1..z
  BY Zenon, MessageFacts
<1>2. 1..z = K \cup {z}
  BY ONLY <1>1
<1>3. (\A h \in K : p.encode[h].op \in {"put ie", "put ie if"}) /\ p.encode[z].op = "ies"
  BY Zenon, MessageOps
<1>4. ~Included(p, val, z)
  BY Zenon, <1>3 DEF Included
<1>5. {h \in 1..z : Included(p, val, h)} = Shown(p, val, Untouched)
  <2>1. Untouched.what # "omitted"
    BY Zenon DEF Untouched
  <2>2. Shown(p, val, Untouched) = {h \in K : Included(p, val, h)}
    BY Zenon, <2>1 DEF Shown
  <2> HIDE DEF K, z, p
  <2> QED
    BY Zenon, <1>2, <1>4, <2>2
<1>6. \A h \in 1..z : p.encode[h].op \notin {"choice", "procedure", "enum"}
  BY Zenon, <1>2, <1>3
<1>7. ValueSent = {Carries(p, val, h) : h \in {k \in 1..z : Included(p, val, k)}}
  BY Zenon, <1>1, <1>6, SentAre
<1>8. ValueSent = Fills(p, val, Shown(p, val, Untouched))
  BY Zenon, <1>5, <1>7 DEF Fills, Carries
<1>9. ~UsesSetupRelease
  <2>1. Written = {p.encode[h] : h \in Shown(p, val, Untouched)}
    BY Zenon, <1>1, <1>5, WrittenAre
  <2>2. \A h \in Shown(p, val, Untouched) : p.encode[h].l.kind # "setup release"
    BY Zenon, MessageIe DEF Knows, Shown
  <2> QED
    BY Zenon, <2>1, <2>2 DEF UsesSetupRelease
<1>10. Mandatory = p.decode[2].fs
  <2>1. p.decode[2].fs = {p.encode[h].f : h \in {j \in K : p.encode[j].op = "put ie"}}
    BY ZenonT(30), MessageOps
  <2>2. Elements(Encoder) = {p.encode[h] : h \in 1..z}
    BY Zenon, <1>1 DEF Elements, Encoder, Program
  <2>3. Mandatory = {p.encode[h].f : h \in {j \in 1..z : p.encode[j].op \in {"put", "put ie"}}}
    BY Zenon, <2>2 DEF Mandatory
  <2>4. {j \in 1..z : p.encode[j].op \in {"put", "put ie"}} = {j \in K : p.encode[j].op = "put ie"}
    <3> HIDE DEF K, z, p
    <3> QED
      BY Zenon, <1>2, <1>3
  <2> QED
    BY ZenonT(30), <2>1, <2>3, <2>4
<1> QED
  BY Zenon, <1>8, <1>9, <1>10

\* What the decoder makes of a message that was disturbed, in the terms of the property.
LEMMA MessageHeard ==
  ASSUME NEW p, NEW v, NEW by
  PROVE  MessageGot(p, v, by) =
           {<<q[1], IF by.what = "repeated" /\ q[1] = by.f THEN q[2] + 1 ELSE q[2]>> :
               q \in {r \in Fills(p, v, Shown(p, v, Untouched)) : ~(by.what = "omitted" /\ r[1] = by.f)}}
<1> DEFINE F(h) == p.encode[h].f
           N(h) == Number(p.encode[h].l, v.edge)
           Out(f) == by.what = "omitted" /\ f = by.f
           Up(f) == by.what = "repeated" /\ f = by.f
           A == Shown(p, v, Untouched)
           B == Shown(p, v, by)
<1>1. B = {h \in A : ~Out(F(h))}
  BY Zenon DEF Shown, Untouched
<1>2. Fills(p, v, A) = {<<F(h), N(h)>> : h \in A}
  BY Zenon DEF Fills
<1>3. MessageGot(p, v, by) = {<<F(h), IF Up(F(h)) THEN N(h) + 1 ELSE N(h)>> : h \in B}
  BY Zenon DEF MessageGot
<1> DEFINE E(f, n) == <<f, IF Up(f) THEN n + 1 ELSE n>>
<1>4. MessageGot(p, v, by) = {E(F(h), N(h)) : h \in B}
  BY Zenon, <1>3
<1> HIDE DEF F, N, Out, Up, A, B, E
<1>5. {r \in {<<F(h), N(h)>> : h \in A} : ~Out(r[1])} = {<<F(h), N(h)>> : h \in B}
  BY <1>1
<1>6. {E(q[1], q[2]) : q \in {<<F(h), N(h)>> : h \in B}} = {E(F(h), N(h)) : h \in B}
  <2> DEFINE P(h) == <<F(h), N(h)>>
  <2>1. \A h : P(h)[1] = F(h) /\ P(h)[2] = N(h)
    BY Zenon
  <2> HIDE DEF P
  <2>2. {E(q[1], q[2]) : q \in {P(h) : h \in B}} = {E(F(h), N(h)) : h \in B}
    BY Zenon, <2>1
  <2> QED
    BY Zenon, <2>2 DEF P
<1>7. MessageGot(p, v, by) = {E(q[1], q[2]) : q \in {r \in Fills(p, v, A) : ~Out(r[1])}}
  BY Zenon, <1>2, <1>4, <1>5, <1>6
<1> QED
  BY Zenon, <1>7 DEF E, Up, Out, A

\* The invariant says that a message is read as meant, or refused when it must be.
LEMMA MessageRight ==
  ASSUME Typed(Program), IsMessage(Program), MessageInv
  PROVE  RoundTrip /\ PeerUnderstood
<1>1. /\ ValueSent = Fills(Program, val, Shown(Program, val, Untouched)) /\ ~UsesSetupRelease
      /\ Mandatory = Program.decode[2].fs
  BY Zenon, MessageSentAre
<1>2. /\ phase \in Final => phase \in {"done", "refused"}
      /\ phase = "done" => got = MessageGot(Program, val, peer) /\ pos = Len(wire) + 1 /\ ~Refuses(Program, peer)
      /\ phase = "refused" => Refuses(Program, peer)
      /\ peer.what \in {"nothing", "reordered", "omitted", "repeated", "added", "appended"}
      /\ peer.what = "nothing" => peer = Untouched
  BY Zenon DEF MessageInv, Final
<1>3. Untouched.what = "nothing"
  BY Zenon DEF Untouched
<1>4. RoundTrip
  <2> SUFFICES ASSUME phase \in Final, peer = Untouched
               PROVE  phase = "done" /\ got = ValueSent /\ pos = Len(wire) + 1
    BY Zenon, <1>1 DEF RoundTrip
  <2>1. ~Refuses(Program, peer)
    BY Zenon, <1>3 DEF Refuses
  <2>2. MessageGot(Program, val, peer) = Fills(Program, val, Shown(Program, val, peer))
    BY Zenon, <1>3, GotPlain
  <2> QED
    BY ZenonT(30), <1>1, <1>2, <2>1, <2>2
<1>5. PeerUnderstood
  <2> SUFFICES ASSUME phase \in Final, peer # Untouched
               PROVE  IF peer.what \in {"added", "extended"} \/ (peer.what = "omitted" /\ peer.f \in Mandatory)
                      THEN phase = "refused"
                      ELSE /\ phase = "done" /\ pos = Len(wire) + 1
                           /\ got = {<<q[1], IF peer.what = "repeated" /\ q[1] = peer.f THEN q[2] + 1 ELSE q[2]>> :
                                q \in {r \in ValueSent : ~(peer.what = "omitted" /\ r[1] = peer.f)}}
    BY Zenon DEF PeerUnderstood
  <2>1. Refuses(Program, peer) <=>
          peer.what \in {"added", "extended"} \/ (peer.what = "omitted" /\ peer.f \in Mandatory)
    BY Zenon, <1>1, <1>2 DEF Refuses
  <2>2. MessageGot(Program, val, peer) =
          {<<q[1], IF peer.what = "repeated" /\ q[1] = peer.f THEN q[2] + 1 ELSE q[2]>> :
              q \in {r \in ValueSent : ~(peer.what = "omitted" /\ r[1] = peer.f)}}
    BY Zenon, <1>1, MessageHeard
  <2> QED
    BY Zenon, <1>2, <2>1, <2>2
<1> QED
  BY Zenon, <1>4, <1>5
=============================================================================
