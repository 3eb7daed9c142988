-------------------------- MODULE UserPlaneProofs ---------------------------
(***************************************************************************)
(* Proofs about the sessions and the forwarding tables of PacketProcessor, *)
(* for any number of sessions and any table size; about the sequence       *)
(* numbers it writes into downlink packets, for any counter widths that    *)
(* are multiples of the field widths; and that it implements Forwarding.   *)
(***************************************************************************)
EXTENDS ForwardingRefinement, TLAPS

-----------------------------------------------------------------------------
(* Type correctness.                                                       *)

\* A remainder fits its field.
LEMMA ModRange == \A n \in Nat, m \in Nat \ {0} : n % m \in 0 .. m - 1
BY Z3

\* The initial state is well typed.
LEMMA TypeInit == Init => TypeOK
<1> SUFFICES ASSUME Init PROVE TypeOK
    BY Zenon
<1>1. 0 \in Slot /\ 0 \in 0 .. SnMod - 1 /\ 0 \in 0 .. NrSnMod - 1
    BY PacketProcessorAssumption DEF Slot
<1>2. /\ ids \subseteq Nat
      /\ pc \in [Users -> SessionState]
      /\ slot \in [Users -> Slot]
      /\ teid \in [Users -> Teid \cup {None}]
    BY <1>1 DEF Init, SessionState
<1>3. /\ dl \in [Slot -> DlRule \cup {None}]
      /\ ul \in [Slot -> Teid \cup {None}]
      /\ sent \in [Users -> Nat]
    BY Zenon DEF Init
<1> QED
    BY Zenon, <1>1, <1>2, <1>3 DEF Init, TypeOK

\* The id after one taken from the pool is a number.
LEMMA SuccNat ==
    \A S : S \subseteq Nat => \A j \in S : j + 1 \in Nat /\ S \cup {j + 1} \subseteq Nat
OBVIOUS

\* A call of the session API keeps the types.
LEMMA TypeSession ==
    ASSUME TypeOK, NEW u \in Users, SessionStep(u)
    PROVE  TypeOK'
<1> USE PacketProcessorAssumption DEF TypeOK, dlVars, ulVars, SessionState
<1>1. ASSUME NEW i \in {j + 1 : j \in ids}, NEW t \in Tops, NewId(u, i, t)
      PROVE  TypeOK'
    <2>1. i \in Nat /\ ids' \subseteq Nat
        <3>1. PICK j \in ids : i = j + 1
            BY Zenon, <1>1
        <3>2. ids \subseteq Nat /\ ids' = ids \cup {i}
            BY Zenon, <1>1 DEF NewId
        <3> QED
            BY Zenon, <3>1, <3>2, SuccNat
    <2>2. CASE i < MaxUes
        <3>1. i \in Slot /\ [top |-> t, idx |-> i] \in Teid
            BY <2>1, <2>2 DEF Slot, Teid, Octet
        <3> QED
            BY <1>1, <2>1, <2>2, <3>1 DEF NewId
    <2>3. CASE i >= MaxUes
        BY <1>1, <2>1, <2>3 DEF NewId
    <2> QED
        BY <2>1, <2>2, <2>3
<1>2. CASE AddUplink(u)
    BY Zenon, <1>2 DEF AddUplink
<1>3. CASE Commit(u)
    <2>1. slot[u] \in Octet
        BY DEF Slot, Octet
    <2>2. [tunnel |-> u, addr |-> UeAddr(slot[u]), pdcp |-> 0, nr |-> 0] \in DlRule
        BY <2>1 DEF DlRule, UeAddr, Address
    <2> QED
        BY Zenon, <1>3, <2>2 DEF Commit
<1>4. CASE Abandon(u)
    BY Zenon, <1>4 DEF Abandon
<1>5. CASE DeleteDownlink(u)
    BY Zenon, <1>5 DEF DeleteDownlink
<1>6. CASE DeleteUplink(u)
    BY Zenon, <1>6 DEF DeleteUplink
<1> QED
    BY Zenon, <1>1, <1>2, <1>3, <1>4, <1>5, <1>6 DEF SessionStep

\* Forwarding a downlink packet: the rule with its counters advanced.
LEMMA ForwardedRule ==
    ASSUME TypeOK, NEW a \in Address, DlForward(a)
    PROVE  LET r == dl[a.host]
               s == [r EXCEPT !.pdcp = (@ + 1) % PdcpMod, !.nr = (@ + 1) % NrMod]
           IN  /\ r \in DlRule
               /\ s \in DlRule
               /\ s.tunnel = r.tunnel /\ s.addr = r.addr
               /\ s.pdcp = (r.pdcp + 1) % PdcpMod /\ s.nr = (r.nr + 1) % NrMod
               /\ dl' = [dl EXCEPT ![a.host] = s]
               /\ r.pdcp \in Nat /\ r.nr \in Nat
<1> DEFINE r == dl[a.host]
           s == [r EXCEPT !.pdcp = (@ + 1) % PdcpMod, !.nr = (@ + 1) % NrMod]
<1>1. r \in DlRule
    BY Zenon DEF DlForward, TypeOK
<1>2. r.pdcp \in Nat /\ r.nr \in Nat
    BY <1>1, PacketProcessorAssumption DEF DlRule
<1>3. (r.pdcp + 1) % PdcpMod \in 0 .. PdcpMod - 1 /\ (r.nr + 1) % NrMod \in 0 .. NrMod - 1
    <2>1. r.pdcp + 1 \in Nat /\ r.nr + 1 \in Nat /\ PdcpMod \in Nat \ {0} /\ NrMod \in Nat \ {0}
        BY <1>2, PacketProcessorAssumption
    <2> QED
        BY <2>1, ModRange, Zenon
<1>4. /\ s \in DlRule
      /\ s.tunnel = r.tunnel /\ s.addr = r.addr
      /\ s.pdcp = (r.pdcp + 1) % PdcpMod /\ s.nr = (r.nr + 1) % NrMod
    BY Zenon, <1>1, <1>3 DEF DlRule
<1>5. dl' = [dl EXCEPT ![a.host] = s]
    BY Zenon DEF DlForward
<1> QED
    BY Zenon, <1>1, <1>2, <1>4, <1>5

\* A step of the downlink pipeline keeps the types.
LEMMA TypeDownlink ==
    ASSUME TypeOK, DownlinkStep
    PROVE  TypeOK'
<1> USE DEF TypeOK, sessionVars, ulVars
<1>0. 0 \in 0 .. SnMod - 1 /\ 0 \in 0 .. NrSnMod - 1
    BY PacketProcessorAssumption
<1>1. ASSUME NEW a \in Address, DlDrop(a) PROVE TypeOK'
    BY Zenon, <1>1 DEF DlDrop, vars, dlVars
<1>2. ASSUME NEW a \in Address, DlPanicIndex(a) \/ DlPanicOverflow(a) PROVE TypeOK'
    BY Zenon, <1>2 DEF DlPanicIndex, DlPanicOverflow, dlVars
<1>3. ASSUME NEW a \in Address, DlForward(a) PROVE TypeOK'
    <2> DEFINE r == dl[a.host]
               s == [r EXCEPT !.pdcp = (@ + 1) % PdcpMod, !.nr = (@ + 1) % NrMod]
    <2>1. /\ r \in DlRule /\ s \in DlRule /\ dl' = [dl EXCEPT ![a.host] = s]
          /\ r.pdcp \in Nat /\ r.nr \in Nat
        BY Zenon, <1>3, ForwardedRule
    <2>2. dlSn' \in 0 .. SnMod - 1 /\ dlNr' \in 0 .. NrSnMod - 1
        BY Zenon, <1>3, <2>1, ModRange, PacketProcessorAssumption DEF DlForward, WireSn
    <2>3. dl' \in [Slot -> DlRule \cup {None}]
        BY Zenon, <2>1
    <2>4. dlTo' \in Users /\ dlPkt' = a /\ dlPc' = "send"
        BY Zenon, <1>3, <2>1 DEF DlForward, DlRule
    <2>5. UNCHANGED <<ids, pc, slot, teid, ul, sent, ulPc, ulPkt, panicked>>
        BY Zenon, <1>3 DEF DlForward
    <2> QED
        BY Zenon, <2>2, <2>3, <2>4, <2>5
<1>4. CASE DlSend
    <2>1. sent' \in [Users -> Nat]
        <3>1. sent \in [Users -> Nat] /\ sent' = [sent EXCEPT ![dlTo] = @ + 1]
            BY Zenon, <1>4 DEF DlSend
        <3>2. \A u \in Users : sent'[u] = IF u = dlTo THEN sent[u] + 1 ELSE sent[u]
            BY Zenon, <3>1
        <3>3. sent' = [u \in Users |-> sent'[u]]
            BY Zenon, <3>1
        <3>4. \A u \in Users : sent[u] \in Nat
            BY Zenon, <3>1
        <3>5. \A u \in Users : sent'[u] \in Nat
            BY <3>2, <3>4
        <3> HIDE DEF TypeOK
        <3> QED
            BY Zenon, <3>3, <3>5
    <2> QED
        BY Zenon, <1>0, <1>4, <2>1 DEF DlSend, DlLocalsDropped
<1>5. CASE DlEnd
    BY Zenon, <1>0, <1>5 DEF DlEnd, DlLocalsDropped
<1> QED
    BY Zenon, <1>1, <1>2, <1>3, <1>4, <1>5 DEF DownlinkStep

\* A step of the uplink pipeline keeps the types.
LEMMA TypeUplink ==
    ASSUME TypeOK, UplinkStep
    PROVE  TypeOK'
<1> USE DEF TypeOK, sessionVars, dlVars, ulVars
<1>1. ASSUME NEW t \in Teid, UlDrop(t) PROVE TypeOK'
    BY Zenon, <1>1 DEF UlDrop, vars
<1>2. ASSUME NEW t \in Teid, UlPanicIndex(t) PROVE TypeOK'
    BY Zenon, <1>2 DEF UlPanicIndex
<1>3. ASSUME NEW t \in Teid, UlForward(t) PROVE TypeOK'
    BY Zenon, <1>3 DEF UlForward
<1>4. CASE UlWrite
    BY Zenon, <1>4 DEF UlWrite
<1>5. CASE UlEnd
    BY Zenon, <1>5 DEF UlEnd
<1> QED
    BY Zenon, <1>1, <1>2, <1>3, <1>4, <1>5 DEF UplinkStep

\* Every step keeps the types.
LEMMA TypeNext == TypeOK /\ [Next]_vars => TypeOK'
<1> SUFFICES ASSUME TypeOK, [Next]_vars PROVE TypeOK'
    BY Zenon
<1>1. CASE UNCHANGED vars
    BY Zenon, <1>1 DEF TypeOK, vars, sessionVars, dlVars, ulVars
<1> QED
    BY Zenon, <1>1, TypeSession, TypeDownlink, TypeUplink DEF Next

\* Every state of PacketProcessor is well typed.
THEOREM TypeCorrect == Spec => []TypeOK
BY TypeInit, TypeNext, PTL DEF Spec

-----------------------------------------------------------------------------
(* The inductive invariant.                                                *)

Numbered(u) == pc[u] \notin {"idle", "refused"}

\* No two sessions have the same index, because an index taken from the pool
\* never goes back.
SlotsDistinct ==
    /\ \A u \in Users :
        Numbered(u) => slot[u] \in ids /\ teid[u] \in Teid /\ teid[u].idx = slot[u]
    /\ \A u, v \in Users : Numbered(u) /\ Numbered(v) /\ slot[u] = slot[v] => u = v

\* Each rule belongs to a session in the state that has such a rule.
DlOwned ==
    \A i \in Slot : dl[i] # None =>
        pc[dl[i].tunnel] = "committed" /\ slot[dl[i].tunnel] = i /\ dl[i].addr = UeAddr(i)

UlOwned ==
    \A i \in Slot : ul[i] # None =>
        \E u \in Users : HasUplink(u) /\ slot[u] = i /\ teid[u] = ul[i]

IInv ==
    /\ TypeOK
    /\ SlotsDistinct
    /\ DlOwned
    /\ UlOwned
    /\ SessionKeepsRules
    /\ DownlinkToLiveSession
    /\ UplinkFromLiveSession

\* The invariant holds initially.
LEMMA InvInit == Init => IInv
<1> SUFFICES ASSUME Init PROVE IInv
    BY Zenon
<1>1. TypeOK
    BY Zenon, TypeInit
<1>2. SlotsDistinct /\ SessionKeepsRules
    BY Zenon DEF Init, SlotsDistinct, SessionKeepsRules, Numbered, HasUplink
<1>3. DlOwned /\ UlOwned
    BY Zenon DEF Init, DlOwned, UlOwned
<1>4. DownlinkToLiveSession /\ UplinkFromLiveSession
    BY Zenon DEF Init, DownlinkToLiveSession, UplinkFromLiveSession
<1> QED
    BY Zenon, <1>1, <1>2, <1>3, <1>4 DEF IInv

\* A new index: only the session that takes it changes, and it had no rule.
LEMMA InvNewId ==
    ASSUME IInv, NEW u \in Users, NEW i \in {j + 1 : j \in ids}, NEW t \in Tops, NewId(u, i, t)
    PROVE  IInv'
<1>0. /\ pc \in [Users -> SessionState] /\ slot \in [Users -> Slot]
      /\ teid \in [Users -> Teid \cup {None}] /\ dl \in [Slot -> DlRule \cup {None}]
      /\ ul \in [Slot -> Teid \cup {None}]
    BY Zenon DEF IInv, TypeOK
<1>1. TypeOK'
    BY Zenon, TypeSession DEF IInv, SessionStep
<1>2. /\ pc[u] = "idle"
      /\ \E s \in {"numbered", "refused"} : pc' = [pc EXCEPT ![u] = s]
      /\ UNCHANGED <<dl, ul, dlPc, dlPkt, dlTo, ulPc, ulPkt>>
      /\ \A v \in Users : v # u => slot'[v] = slot[v] /\ teid'[v] = teid[v] /\ pc'[v] = pc[v]
      /\ pc'[u] \in {"numbered", "refused"}
    BY Zenon, <1>0 DEF NewId, dlVars, ulVars
<1>3. i \notin ids /\ ids' = ids \cup {i}
    BY Zenon DEF NewId, IsNewId
<1>4. pc'[u] = "numbered" => slot'[u] = i /\ teid'[u] \in Teid /\ teid'[u].idx = i
    <2>0. i \in Nat
        <3>1. ids \subseteq Nat
            BY Zenon DEF IInv, TypeOK
        <3> QED
            BY <3>1
    <2>1. CASE i < MaxUes
        <3>1. slot' = [slot EXCEPT ![u] = i] /\ teid' = [teid EXCEPT ![u] = [top |-> t, idx |-> i]]
            BY <2>0, <2>1, PacketProcessorAssumption DEF NewId
        <3>2. slot'[u] = i /\ teid'[u] = [top |-> t, idx |-> i]
            BY Zenon, <1>0, <3>1
        <3>3. i \in Octet
            BY <2>0, <2>1, PacketProcessorAssumption DEF Octet
        <3> QED
            BY <3>2, <3>3 DEF Teid
    <2>2. CASE ~(i < MaxUes)
        BY Zenon, <1>0, <2>2 DEF NewId
    <2> QED
        BY Zenon, <2>1, <2>2
<1>5. SlotsDistinct'
    BY <1>2, <1>3, <1>4 DEF IInv, SlotsDistinct, Numbered
<1>6. DlOwned'
    <2>1. \A j \in Slot : dl[j] # None => dl[j].tunnel \in Users /\ dl[j].tunnel # u
        BY <1>0, <1>2 DEF IInv, DlOwned, DlRule
    <2> QED
        BY <1>2, <2>1 DEF IInv, DlOwned, UeAddr
<1>7. UlOwned'
    BY <1>2 DEF IInv, UlOwned, HasUplink
<1>8. SessionKeepsRules'
    BY <1>2 DEF IInv, SessionKeepsRules, HasUplink, UeAddr
<1>9. DownlinkToLiveSession' /\ UplinkFromLiveSession'
    BY Zenon, <1>2 DEF IInv, DownlinkToLiveSession, UplinkFromLiveSession, HasUplink, UeAddr
<1> QED
    BY Zenon, <1>1, <1>5, <1>6, <1>7, <1>8, <1>9 DEF IInv

\* The other calls of the session API: the rule they touch is their own.
LEMMA InvSession ==
    ASSUME IInv, NEW u \in Users,
           AddUplink(u) \/ Commit(u) \/ Abandon(u) \/ DeleteDownlink(u) \/ DeleteUplink(u)
    PROVE  IInv'
<1>0. /\ pc \in [Users -> SessionState] /\ slot \in [Users -> Slot]
      /\ teid \in [Users -> Teid \cup {None}] /\ dl \in [Slot -> DlRule \cup {None}]
      /\ ul \in [Slot -> Teid \cup {None}]
    BY Zenon DEF IInv, TypeOK
<1>1. TypeOK'
    BY Zenon, TypeSession DEF IInv, SessionStep
<1>2. /\ UNCHANGED <<ids, slot, teid, dlPc, dlPkt, dlTo, ulPc, ulPkt>>
      /\ Numbered(u) /\ Numbered(u)'
      /\ \A v \in Users : v # u => pc'[v] = pc[v]
    BY Zenon, <1>0
       DEF AddUplink, Commit, Abandon, DeleteDownlink, DeleteUplink, Numbered, dlVars, ulVars
<1>3. SlotsDistinct'
    BY Zenon, <1>2 DEF IInv, SlotsDistinct, Numbered
<1>4. \A v \in Users : v # u /\ Numbered(v) => slot[v] # slot[u]
    BY Zenon, <1>2 DEF IInv, SlotsDistinct
<1>5. \A v \in Users : HasUplink(v) \/ pc[v] \in {"committed", "deleting", "deleted"} => Numbered(v)
    BY Zenon DEF HasUplink, Numbered
<1>6. \A j \in Slot : dl[j] # None =>
        /\ dl[j].tunnel \in Users /\ pc[dl[j].tunnel] = "committed"
        /\ slot[dl[j].tunnel] = j /\ dl[j].addr = UeAddr(j)
    <2>1. \A j \in Slot : dl[j] # None => dl[j].tunnel \in Users
        BY Zenon, <1>0 DEF DlRule
    <2> QED
        BY Zenon, <2>1 DEF IInv, DlOwned
<1>7. ASSUME \A j \in Slot : dl'[j] # None =>
                 \/ dl'[j] = dl[j] /\ dl[j].tunnel # u
                 \/ /\ j = slot[u] /\ pc'[u] = "committed"
                    /\ dl'[j].tunnel = u /\ dl'[j].addr = UeAddr(j)
      PROVE  DlOwned'
    <2> SUFFICES ASSUME NEW j \in Slot, dl'[j] # None
                 PROVE  /\ pc'[dl'[j].tunnel] = "committed" /\ slot'[dl'[j].tunnel] = j
                        /\ dl'[j].addr = UeAddr(j)
        BY Zenon DEF DlOwned, UeAddr
    <2>1. CASE dl'[j] = dl[j] /\ dl[j].tunnel # u
        <3>1. /\ dl[j].tunnel \in Users /\ pc[dl[j].tunnel] = "committed"
              /\ slot[dl[j].tunnel] = j /\ dl[j].addr = UeAddr(j)
            BY Zenon, <1>6, <2>1
        <3> QED
            BY Zenon, <1>2, <2>1, <3>1
    <2>2. CASE /\ j = slot[u] /\ pc'[u] = "committed"
               /\ dl'[j].tunnel = u /\ dl'[j].addr = UeAddr(j)
        BY Zenon, <1>2, <2>2
    <2> QED
        BY Zenon, <1>7, <2>1, <2>2
<1>8. ASSUME \A j \in Slot : j # slot[u] => dl'[j] = dl[j] /\ ul'[j] = ul[j],
             pc'[u] # "deleted" => ul'[slot[u]] = teid[u],
             pc'[u] = "committed" => /\ dl'[slot[u]] # None /\ dl'[slot[u]].tunnel = u
                                     /\ dl'[slot[u]].addr = UeAddr(slot[u]),
             pc'[u] \in {"deleting", "deleted"} => dl'[slot[u]] = None,
             pc'[u] = "deleted" => ul'[slot[u]] = None
      PROVE  SessionKeepsRules'
    <2> SUFFICES ASSUME NEW v \in Users
                 PROVE  /\ HasUplink(v)' => ul'[slot[v]] = teid[v]
                        /\ pc'[v] = "committed" =>
                              /\ dl'[slot[v]] # None /\ dl'[slot[v]].tunnel = v
                              /\ dl'[slot[v]].addr = UeAddr(slot[v])
                        /\ pc'[v] = "deleting" => dl'[slot[v]] = None
                        /\ pc'[v] = "deleted" => dl'[slot[v]] = None /\ ul'[slot[v]] = None
        BY Zenon, <1>2 DEF SessionKeepsRules, UeAddr
    <2>1. CASE v = u
        BY Zenon, <1>8, <2>1 DEF HasUplink
    <2>2. CASE v # u
        <3>1. pc'[v] = pc[v] /\ slot[v] \in Slot
            BY Zenon, <1>0, <1>2, <2>2
        <3>2. CASE Numbered(v)
            <4>1. dl'[slot[v]] = dl[slot[v]] /\ ul'[slot[v]] = ul[slot[v]]
                BY Zenon, <1>4, <1>8, <2>2, <3>1, <3>2
            <4> QED
                BY <3>1, <4>1 DEF IInv, SessionKeepsRules, HasUplink
        <3>3. CASE ~Numbered(v)
            BY Zenon, <3>1, <3>3 DEF Numbered, HasUplink
        <3> QED
            BY Zenon, <3>2, <3>3
    <2> QED
        BY Zenon, <2>1, <2>2
<1>9. /\ HasUplink(u) => ul[slot[u]] = teid[u]
      /\ pc[u] = "deleting" => dl[slot[u]] = None
      /\ pc[u] # "committed" => \A j \in Slot : dl[j] # None => dl[j].tunnel # u
    BY <1>6 DEF IInv, SessionKeepsRules
<1>10. slot[u] \in Slot /\ teid[u] \in Teid \cup {None}
    BY Zenon, <1>0
<1>11. CASE AddUplink(u)
    <2>1. /\ pc[u] = "numbered" /\ pc'[u] = "reserved" /\ UNCHANGED dl /\ ulPc # "write"
          /\ ul' = [ul EXCEPT ![slot[u]] = teid[u]]
        BY Zenon, <1>0, <1>11 DEF AddUplink
    <2>2. DlOwned'
        BY Zenon, <1>7, <1>9, <2>1
    <2>3. UlOwned'
        BY Zenon, <1>0, <1>2, <2>1 DEF IInv, UlOwned, HasUplink
    <2>4. SessionKeepsRules'
        BY Zenon, <1>0, <1>8, <1>10, <2>1
    <2>5. DownlinkToLiveSession' /\ UplinkFromLiveSession'
        BY ZenonT(30), <1>2, <2>1 DEF IInv, DownlinkToLiveSession, UplinkFromLiveSession, UeAddr
    <2> QED
        BY Zenon, <1>1, <1>3, <2>2, <2>3, <2>4, <2>5 DEF IInv
<1>12. CASE Commit(u)
    <2> DEFINE r == [tunnel |-> u, addr |-> UeAddr(slot[u]), pdcp |-> 0, nr |-> 0]
    <2>1. /\ pc[u] = "reserved" /\ pc'[u] = "committed" /\ UNCHANGED ul /\ dlPc # "send"
          /\ dl' = [dl EXCEPT ![slot[u]] = r]
        BY Zenon, <1>0, <1>12 DEF Commit
    <2>2. r \in DlRule /\ r # None /\ r.tunnel = u /\ r.addr = UeAddr(slot[u])
        <3>1. slot[u] \in Octet
            BY <1>0, PacketProcessorAssumption DEF Slot, Octet
        <3>2. r \in DlRule
            BY <3>1, PacketProcessorAssumption DEF DlRule, UeAddr, Address
        <3> QED
            BY Zenon, <3>2, PacketProcessorAssumption
    <2> HIDE DEF r
    <2>7. dl'[slot[u]] = r /\ \A j \in Slot : j # slot[u] => dl'[j] = dl[j]
        BY Zenon, <1>0, <1>10, <2>1
    <2>3. DlOwned'
        BY Zenon, <1>7, <1>9, <2>1, <2>2, <2>7
    <2>4. UlOwned'
        BY <1>0, <1>2, <2>1 DEF IInv, UlOwned, HasUplink
    <2>5. SessionKeepsRules'
        <3>1. ul'[slot[u]] = teid[u]
            BY Zenon, <1>9, <2>1 DEF HasUplink
        <3> QED
            BY Zenon, <1>8, <2>1, <2>2, <2>7, <3>1
    <2>6. DownlinkToLiveSession' /\ UplinkFromLiveSession'
        BY Zenon, <1>2, <2>1 DEF IInv, DownlinkToLiveSession, UplinkFromLiveSession, HasUplink,
           UeAddr
    <2> QED
        BY Zenon, <1>1, <1>3, <2>3, <2>4, <2>5, <2>6 DEF IInv
<1>13. CASE Abandon(u)
    <2>1. pc[u] = "reserved" /\ pc'[u] = "abandoned" /\ UNCHANGED <<dl, ul>>
        BY Zenon, <1>0, <1>13 DEF Abandon
    <2>2. DlOwned'
        BY Zenon, <1>7, <1>9, <2>1
    <2>3. UlOwned'
        BY <1>0, <1>2, <2>1 DEF IInv, UlOwned, HasUplink
    <2>4. SessionKeepsRules'
        <3>1. ul'[slot[u]] = teid[u]
            BY Zenon, <1>9, <2>1 DEF HasUplink
        <3> QED
            BY Zenon, <1>8, <2>1, <3>1
    <2>5. DownlinkToLiveSession' /\ UplinkFromLiveSession'
        BY Zenon, <1>2, <2>1 DEF IInv, DownlinkToLiveSession, UplinkFromLiveSession, HasUplink,
           UeAddr
    <2> QED
        BY Zenon, <1>1, <1>3, <2>2, <2>3, <2>4, <2>5 DEF IInv
<1>14. CASE DeleteDownlink(u)
    <2>1. /\ pc[u] = "committed" /\ pc'[u] = "deleting" /\ UNCHANGED ul /\ dlPc # "send"
          /\ dl' = [dl EXCEPT ![slot[u]] = None]
        BY Zenon, <1>0, <1>14 DEF DeleteDownlink
    <2>6. dl'[slot[u]] = None /\ \A j \in Slot : j # slot[u] => dl'[j] = dl[j]
        BY Zenon, <1>0, <1>10, <2>1
    <2>2. DlOwned'
        BY Zenon, <1>6, <1>7, <2>6
    <2>3. UlOwned'
        BY <1>0, <1>2, <2>1 DEF IInv, UlOwned, HasUplink
    <2>4. SessionKeepsRules'
        <3>1. ul'[slot[u]] = teid[u]
            BY Zenon, <1>9, <2>1 DEF HasUplink
        <3> QED
            BY Zenon, <1>8, <2>1, <2>6, <3>1
    <2>5. DownlinkToLiveSession' /\ UplinkFromLiveSession'
        BY Zenon, <1>2, <2>1
           DEF IInv, DownlinkToLiveSession, UplinkFromLiveSession, HasUplink, UeAddr
    <2> QED
        BY Zenon, <1>1, <1>3, <2>2, <2>3, <2>4, <2>5 DEF IInv
<1>15. CASE DeleteUplink(u)
    <2>1. /\ pc[u] = "deleting" /\ pc'[u] = "deleted" /\ UNCHANGED dl /\ ulPc # "write"
          /\ ul' = [ul EXCEPT ![slot[u]] = None]
        BY Zenon, <1>0, <1>15 DEF DeleteUplink
    <2>6. ul'[slot[u]] = None /\ \A j \in Slot : j # slot[u] => ul'[j] = ul[j]
        BY Zenon, <1>0, <1>10, <2>1
    <2>2. DlOwned'
        BY Zenon, <1>7, <1>9, <2>1
    <2>3. UlOwned'
        BY <1>0, <1>2, <2>1 DEF IInv, UlOwned, HasUplink
    <2>4. SessionKeepsRules'
        BY Zenon, <1>8, <1>9, <2>1, <2>6
    <2>5. DownlinkToLiveSession' /\ UplinkFromLiveSession'
        BY ZenonT(30), <1>2, <2>1 DEF IInv, DownlinkToLiveSession, UplinkFromLiveSession, UeAddr
    <2> QED
        BY Zenon, <1>1, <1>3, <2>2, <2>3, <2>4, <2>5 DEF IInv
<1> QED
    BY Zenon, <1>11, <1>12, <1>13, <1>14, <1>15

\* A step of the downlink pipeline: only the counters of a rule change.
LEMMA InvDownlink ==
    ASSUME IInv, DownlinkStep
    PROVE  IInv'
<1>0. /\ pc \in [Users -> SessionState] /\ slot \in [Users -> Slot]
      /\ dl \in [Slot -> DlRule \cup {None}]
    BY Zenon DEF IInv, TypeOK
<1>1. TypeOK'
    BY Zenon, TypeDownlink DEF IInv
<1>2. UNCHANGED <<ids, pc, slot, teid, ul, ulPc, ulPkt>>
    BY ZenonT(30) DEF DownlinkStep, DlDrop, DlPanicIndex, DlForward, DlPanicOverflow, DlSend, DlEnd,
           vars, sessionVars, dlVars, ulVars
<1>3. SlotsDistinct' /\ UlOwned' /\ UplinkFromLiveSession'
    BY Zenon, <1>2 DEF IInv, SlotsDistinct, Numbered, UlOwned, UplinkFromLiveSession, HasUplink
<1>4. ASSUME NEW a \in Address, DlForward(a) PROVE IInv'
    <2> DEFINE r == dl[a.host]
               s == [r EXCEPT !.pdcp = (@ + 1) % PdcpMod, !.nr = (@ + 1) % NrMod]
    <2>1. /\ r \in DlRule /\ s \in DlRule /\ s.tunnel = r.tunnel /\ s.addr = r.addr
          /\ dl' = [dl EXCEPT ![a.host] = s]
        BY Zenon, <1>4, ForwardedRule DEF IInv
    <2>2. /\ a.host \in Slot /\ r # None /\ r.addr = a
          /\ dlTo' = r.tunnel /\ dlPkt' = a /\ dlPc' = "send"
        BY Zenon, <1>4 DEF DlForward
    <2>3. s # None
        BY Zenon, <2>1, PacketProcessorAssumption
    <2>4. r.tunnel \in Users
        BY Zenon, <2>1 DEF DlRule
    <2> HIDE DEF s
    <2>5. \A i \in Slot : /\ dl'[i] = None <=> dl[i] = None
                          /\ dl[i] # None => dl'[i].tunnel = dl[i].tunnel /\ dl'[i].addr = dl[i].addr
        BY Zenon, <1>0, <2>1, <2>2, <2>3
    <2>6. DlOwned'
        BY <1>2, <2>5 DEF IInv, DlOwned, UeAddr
    <2>7. SessionKeepsRules'
        BY <1>0, <1>2, <2>5 DEF IInv, SessionKeepsRules, HasUplink, UeAddr
    <2>8. DownlinkToLiveSession'
        BY ZenonT(30), <1>2, <2>2, <2>4 DEF IInv, DlOwned, DownlinkToLiveSession, UeAddr
    <2> QED
        BY Zenon, <1>1, <1>3, <2>6, <2>7, <2>8 DEF IInv
<1>5. ASSUME UNCHANGED <<dl, dlPc, dlPkt, dlTo>> PROVE IInv'
    <2>1. DlOwned' /\ SessionKeepsRules' /\ DownlinkToLiveSession'
        BY Zenon, <1>2, <1>5
           DEF IInv, DlOwned, SessionKeepsRules, HasUplink, DownlinkToLiveSession, UeAddr
    <2> QED
        BY Zenon, <1>1, <1>3, <2>1 DEF IInv
<1>6. ASSUME UNCHANGED dl, dlPc' # "send" PROVE IInv'
    <2>1. DlOwned' /\ SessionKeepsRules' /\ DownlinkToLiveSession'
        BY ZenonT(30), <1>2, <1>6
           DEF IInv, DlOwned, SessionKeepsRules, HasUplink, DownlinkToLiveSession, UeAddr
    <2> QED
        BY Zenon, <1>1, <1>3, <2>1 DEF IInv
<1> QED
    BY ZenonT(30), <1>4, <1>5, <1>6
       DEF DownlinkStep, DlDrop, DlPanicIndex, DlPanicOverflow, DlSend, DlEnd,
                            vars, dlVars

\* A step of the uplink pipeline changes no table.
LEMMA InvUplink ==
    ASSUME IInv, UplinkStep
    PROVE  IInv'
<1>1. TypeOK'
    BY Zenon, TypeUplink DEF IInv
<1>2. UNCHANGED <<ids, pc, slot, teid, dl, ul, dlPc, dlPkt, dlTo>>
    BY ZenonT(30) DEF UplinkStep, UlDrop, UlPanicIndex, UlForward, UlWrite, UlEnd,
           vars, sessionVars, dlVars, ulVars
<1>3. SlotsDistinct' /\ DlOwned' /\ UlOwned' /\ SessionKeepsRules' /\ DownlinkToLiveSession'
    BY <1>2
       DEF IInv, SlotsDistinct, Numbered, DlOwned, UlOwned, SessionKeepsRules, HasUplink,
                DownlinkToLiveSession, UeAddr
<1>4. UplinkFromLiveSession'
    <2>1. ASSUME NEW t \in Teid, UlForward(t) PROVE UplinkFromLiveSession'
        <3>1. ul[t.idx] # None /\ t.idx \in Slot /\ ul[t.idx] = t /\ ulPkt' = t
            BY Zenon, <2>1, PacketProcessorAssumption DEF UlForward
        <3> QED
            BY <1>2, <3>1 DEF IInv, UlOwned, UplinkFromLiveSession, HasUplink
    <2> QED
        BY Zenon, <1>2, <2>1 DEF UplinkStep, UlDrop, UlPanicIndex, UlWrite, UlEnd, IInv,
                          UplinkFromLiveSession, HasUplink, vars, ulVars
<1> QED
    BY Zenon, <1>1, <1>3, <1>4 DEF IInv

\* Every step keeps the invariant.
LEMMA InvNext == IInv /\ [Next]_vars => IInv'
<1> SUFFICES ASSUME IInv, [Next]_vars PROVE IInv'
    BY Zenon
<1>1. CASE UNCHANGED vars
    BY <1>1
       DEF IInv, TypeOK, SlotsDistinct, Numbered, DlOwned, UlOwned, SessionKeepsRules, HasUplink,
                DownlinkToLiveSession, UplinkFromLiveSession, UeAddr, vars, sessionVars, dlVars, ulVars
<1>2. ASSUME NEW u \in Users, SessionStep(u) PROVE IInv'
    BY Zenon, <1>2, InvNewId, InvSession DEF SessionStep
<1> QED
    BY Zenon, <1>1, <1>2, InvDownlink, InvUplink DEF Next

\* The inductive invariant holds in every state.
THEOREM Invariance == Spec => []IInv
BY InvInit, InvNext, PTL DEF Spec

\* A session's rules stay as its own calls left them, whatever the calls of
\* other sessions and the pipelines do (packet_processor.rs:87-152).
THEOREM SessionKeepsRulesAlways == Spec => []SessionKeepsRules
<1>1. IInv => SessionKeepsRules
    BY Zenon DEF IInv
<1> QED
    BY <1>1, Invariance, PTL

\* A downlink rule is never without the uplink rule of the same session
\* (packet_processor.rs:105-107, 136-138, 144-149).
THEOREM DownlinkHasUplinkAlways == Spec => []DownlinkHasUplink
<1>1. IInv => DownlinkHasUplink
    <2> SUFFICES ASSUME IInv, NEW i \in Slot, dl[i] # None
                 PROVE  ul[i] # None /\ ul[i] = teid[dl[i].tunnel]
        BY Zenon DEF DownlinkHasUplink
    <2> DEFINE u == dl[i].tunnel
    <2>1. u \in Users /\ pc[u] = "committed" /\ slot[u] = i
        BY Zenon DEF IInv, DlOwned, TypeOK, DlRule
    <2>2. ul[i] = teid[u] /\ teid[u] \in Teid
        BY Zenon, <2>1 DEF IInv, SessionKeepsRules, SlotsDistinct, HasUplink, Numbered
    <2> QED
        BY Zenon, <2>2, PacketProcessorAssumption
<1> QED
    BY <1>1, Invariance, PTL

\* A packet leaves only for the tunnel of the session it is addressed to, and
\* that session is not deleted while it leaves (downlink_pipeline.rs:124-209);
\* an uplink packet is let through only for a session not deleted
\* (uplink_pipeline.rs:165-185).
THEOREM ForwardsForLiveSessions == Spec => [](DownlinkToLiveSession /\ UplinkFromLiveSession)
<1>1. IInv => DownlinkToLiveSession /\ UplinkFromLiveSession
    BY Zenon DEF IInv
<1> QED
    BY <1>1, Invariance, PTL

\* In particular an uplink packet carries the TEID of a session that is
\* reserved and not deleted (uplink_pipeline.rs:165-185).
THEOREM UplinkFromLiveSessionAlways == Spec => []UplinkFromLiveSession
<1>1. DownlinkToLiveSession /\ UplinkFromLiveSession => UplinkFromLiveSession
    BY Zenon
<1> QED
    BY <1>1, ForwardsForLiveSessions, PTL

-----------------------------------------------------------------------------
(* Counters that wrap.                                                     *)

\* Division with remainder.
LEMMA DivMod ==
    ASSUME NEW x \in Nat, NEW m \in Nat \ {0}
    PROVE  \E q \in Nat, r \in 0 .. m - 1 : x = m * q + r /\ x % m = r
<1>1. x \div m \in Int /\ x % m \in 0 .. m - 1
    BY Z3
<1>2. x = m * (x \div m) + (x % m)
    BY Z3
<1>3. x \div m >= 0
    BY <1>1, <1>2, Z3
<1>4. x \div m \in Nat
    BY <1>1, <1>3
<1> WITNESS x \div m \in Nat, x % m \in 0 .. m - 1
<1> QED
    BY Zenon, <1>2

\* The remainder is the only one.
LEMMA ModUnique ==
    ASSUME NEW m \in Nat \ {0}, NEW q \in Nat, NEW r \in 0 .. m - 1
    PROVE  (m * q + r) % m = r
BY Z3

\* A counter that wraps counts modulo its width.
LEMMA ModSucc ==
    ASSUME NEW x \in Nat, NEW m \in Nat \ {0}
    PROVE  ((x % m) + 1) % m = (x + 1) % m
<1>1. PICK q \in Nat, r \in 0 .. m - 1 : x = m * q + r /\ x % m = r
    BY Zenon, DivMod
<1>2. CASE r + 1 < m
    <2>1. (m * q + (r + 1)) % m = r + 1 /\ (m * 0 + (r + 1)) % m = r + 1
        BY <1>2, ModUnique
    <2> QED
        BY <1>1, <2>1
<1>3. CASE r + 1 = m
    <2>1. (m * (q + 1) + 0) % m = 0 /\ (m * 1 + 0) % m = 0
        BY <1>3, ModUnique
    <2>2. x + 1 = m * (q + 1) + 0
        BY <1>1, <1>3
    <2> QED
        BY <1>1, <1>3, <2>1, <2>2
<1> QED
    BY <1>2, <1>3

\* The low bits of a counter that wraps are the low bits of the count.
LEMMA ModMod ==
    ASSUME NEW x \in Nat, NEW n \in Nat \ {0}, NEW m \in Nat \ {0}, n % m = 0
    PROVE  (x % n) % m = x % m
<1>1. PICK k \in Nat, z \in 0 .. m - 1 : n = m * k + z /\ n % m = z
    BY DivMod
<1>2. n = m * k
    BY <1>1
<1>3. PICK q \in Nat, r \in 0 .. n - 1 : x = n * q + r /\ x % n = r
    BY ZenonT(30), DivMod
<1>4. r \in Nat
    BY <1>3
<1>5. PICK p \in Nat, s \in 0 .. m - 1 : r = m * p + s /\ r % m = s
    BY Zenon, <1>4, DivMod
<1>6. k * q + p \in Nat /\ x = m * (k * q + p) + s
    BY <1>2, <1>3, <1>5
<1>7. x % m = s
    BY Zenon, <1>6, ModUnique
<1> QED
    BY Zenon, <1>3, <1>5, <1>7

-----------------------------------------------------------------------------
(* Sequence numbers.  A rule's counters hold the number of packets taken   *)
(* for its session, the one being sent included, modulo their widths.      *)

Taken(u) == IF dlPc = "send" /\ dlTo = u THEN sent[u] + 1 ELSE sent[u]

PdcpCount(u) == Taken(u) % PdcpMod
NrCount(u) == Taken(u) % NrMod

Uncommitted(u) == pc[u] \in {"idle", "numbered", "refused", "reserved"}

Counted(u) ==
    /\ Uncommitted(u) => sent[u] = 0
    /\ dlPc # "ended" /\ pc[u] = "committed" =>
        dl[slot[u]].pdcp = PdcpCount(u) /\ dl[slot[u]].nr = NrCount(u)

CountersCount == \A u \in Users : Counted(u)

SeqInv == CountersCount /\ SequenceNumbersCount

\* A call of the session API starts the counters of its own rule at 0 and
\* leaves the others alone.
LEMMA SeqSession ==
    ASSUME IInv, SeqInv, NEW u \in Users, SessionStep(u)
    PROVE  SeqInv'
<1>0. /\ pc \in [Users -> SessionState] /\ slot \in [Users -> Slot]
      /\ dl \in [Slot -> DlRule \cup {None}]
    BY Zenon DEF IInv, TypeOK
<1>1. UNCHANGED <<dlPc, dlTo, dlSn, dlNr, sent>>
    BY Zenon
       DEF SessionStep, NewId, AddUplink, Commit, Abandon, DeleteDownlink, DeleteUplink, dlVars
<1>2. SequenceNumbersCount'
    BY Zenon, <1>1 DEF SeqInv, SequenceNumbersCount
<1>3. \A v \in Users : PdcpCount(v)' = PdcpCount(v) /\ NrCount(v)' = NrCount(v)
    BY Zenon, <1>1 DEF PdcpCount, NrCount, Taken
<1>4. ASSUME NEW i \in {j + 1 : j \in ids}, NEW t \in Tops, NewId(u, i, t) PROVE CountersCount'
    <2>1. /\ pc[u] = "idle" /\ pc'[u] # "committed" /\ UNCHANGED dl
          /\ \A v \in Users : v # u => slot'[v] = slot[v] /\ pc'[v] = pc[v]
        BY Zenon, <1>0, <1>4 DEF NewId
    <2>2. ASSUME NEW v \in Users PROVE Counted(v)'
        BY Zenon, <1>1, <1>3, <2>1 DEF SeqInv, CountersCount, Counted, Uncommitted
    <2> QED
        BY Zenon, <2>2 DEF CountersCount
<1>5. CASE AddUplink(u) \/ Abandon(u) \/ DeleteUplink(u)
    <2>1. /\ pc'[u] \in {"reserved", "abandoned", "deleted"} /\ UNCHANGED <<dl, slot>>
          /\ pc'[u] = "reserved" => pc[u] = "numbered"
          /\ \A v \in Users : v # u => pc'[v] = pc[v]
        BY Zenon, <1>0, <1>5 DEF AddUplink, Abandon, DeleteUplink
    <2>2. Counted(u)'
        BY Zenon, <1>1, <2>1 DEF SeqInv, CountersCount, Counted, Uncommitted
    <2>3. ASSUME NEW v \in Users, v # u PROVE Counted(v)'
        BY Zenon, <1>1, <1>3, <2>1, <2>3 DEF SeqInv, CountersCount, Counted, Uncommitted
    <2> QED
        BY Zenon, <1>2, <2>2, <2>3 DEF SeqInv, CountersCount
<1>6. CASE Commit(u) \/ DeleteDownlink(u)
    <2>1. /\ pc[u] \in {"reserved", "committed"} /\ UNCHANGED slot /\ dlPc # "send"
          /\ pc'[u] \in {"committed", "deleting"}
          /\ pc'[u] = "committed" => pc[u] = "reserved"
          /\ \A v \in Users : v # u => pc'[v] = pc[v]
        BY Zenon, <1>0, <1>6 DEF Commit, DeleteDownlink
    <2>2. \A i \in Slot : i # slot[u] => dl'[i] = dl[i]
        <3>1. dl' = [dl EXCEPT ![slot[u]] = dl'[slot[u]]]
            BY Zenon, <1>0, <1>6 DEF Commit, DeleteDownlink
        <3> QED
            BY Zenon, <1>0, <3>1
    <2>3. \A v \in Users : v # u /\ pc[v] = "committed" => slot[v] \in Slot /\ dl'[slot[v]] = dl[slot[v]]
        BY Zenon, <1>0, <2>1, <2>2 DEF IInv, SlotsDistinct, Numbered
    <2>4. pc'[u] = "committed" =>
            dl'[slot[u]].pdcp = PdcpCount(u) /\ dl'[slot[u]].nr = NrCount(u)
        <3> SUFFICES ASSUME pc'[u] = "committed"
                     PROVE  dl'[slot[u]].pdcp = PdcpCount(u) /\ dl'[slot[u]].nr = NrCount(u)
            BY Zenon
        <3>1. dl'[slot[u]].pdcp = 0 /\ dl'[slot[u]].nr = 0
            BY <1>0, <1>6 DEF Commit, DeleteDownlink
        <3>2. Taken(u) = 0
            BY Zenon, <2>1 DEF SeqInv, CountersCount, Counted, Uncommitted, Taken
        <3>3. (PdcpMod * 0 + 0) % PdcpMod = 0 /\ (NrMod * 0 + 0) % NrMod = 0
            BY ModUnique, PacketProcessorAssumption
        <3>4. 0 % PdcpMod = 0 /\ 0 % NrMod = 0
            BY <3>3, PacketProcessorAssumption
        <3> QED
            BY Zenon, <3>1, <3>2, <3>4 DEF PdcpCount, NrCount
    <2>5. Counted(u)'
        BY Zenon, <1>1, <1>3, <2>1, <2>4 DEF Counted, Uncommitted
    <2>6. ASSUME NEW v \in Users, v # u PROVE Counted(v)'
        BY Zenon, <1>1, <1>3, <2>1, <2>3, <2>6 DEF SeqInv, CountersCount, Counted, Uncommitted
    <2> QED
        BY Zenon, <1>2, <2>5, <2>6 DEF SeqInv, CountersCount
<1> QED
    BY Zenon, <1>2, <1>4, <1>5, <1>6 DEF SeqInv, SessionStep

\* A step of the downlink pipeline.
LEMMA SeqDownlink ==
    ASSUME IInv, IInv', SeqInv, DownlinkStep
    PROVE  SeqInv'
<1>0. /\ pc \in [Users -> SessionState] /\ slot \in [Users -> Slot]
      /\ dl \in [Slot -> DlRule \cup {None}] /\ sent \in [Users -> Nat]
    BY Zenon DEF IInv, TypeOK
<1>1. UNCHANGED <<pc, slot>>
    BY Zenon DEF DownlinkStep, DlDrop, DlPanicIndex, DlForward, DlPanicOverflow, DlSend, DlEnd,
           vars, sessionVars
<1>2. ASSUME NEW a \in Address, DlForward(a) PROVE SeqInv'
    <2> DEFINE r == dl[a.host]
               s == [r EXCEPT !.pdcp = (@ + 1) % PdcpMod, !.nr = (@ + 1) % NrMod]
    <2>1. /\ r \in DlRule /\ s.pdcp = (r.pdcp + 1) % PdcpMod /\ s.nr = (r.nr + 1) % NrMod
          /\ dl' = [dl EXCEPT ![a.host] = s]
        BY Zenon, <1>2, ForwardedRule DEF IInv
    <2> PICK u \in Users : u = r.tunnel
        BY Zenon, <2>1 DEF DlRule
    <2>2. /\ a.host \in Slot /\ r # None /\ dlPc = "read" /\ dlPc' = "send" /\ dlTo' = u
          /\ dlSn' = r.pdcp % SnMod /\ dlNr' = r.nr % NrSnMod /\ UNCHANGED sent
        BY Zenon, <1>2 DEF DlForward, WireSn
    <2>3. pc[u] = "committed" /\ slot[u] = a.host
        BY Zenon, <2>1, <2>2 DEF IInv, DlOwned
    <2>4. r.pdcp = sent[u] % PdcpMod /\ r.nr = sent[u] % NrMod
        BY Zenon, <2>2, <2>3 DEF SeqInv, CountersCount, Counted, PdcpCount, NrCount, Taken
    <2>5. sent[u] \in Nat
        BY Zenon, <1>0, <2>3
    <2>6. SequenceNumbersCount'
        <3>1. (sent[u] % PdcpMod) % SnMod = sent[u] % SnMod
            BY Zenon, <2>5, ModMod, PacketProcessorAssumption, CounterAssumption
        <3>2. (sent[u] % NrMod) % NrSnMod = sent[u] % NrSnMod
            BY ZenonT(30), <2>5, ModMod, PacketProcessorAssumption, CounterAssumption
        <3> QED
            BY Zenon, <2>2, <2>4, <3>1, <3>2 DEF SequenceNumbersCount
    <2>7. s.pdcp = PdcpCount(u)' /\ s.nr = NrCount(u)'
        <3>1. ((sent[u] % PdcpMod) + 1) % PdcpMod = (sent[u] + 1) % PdcpMod
            BY Zenon, <2>5, ModSucc, PacketProcessorAssumption
        <3>2. ((sent[u] % NrMod) + 1) % NrMod = (sent[u] + 1) % NrMod
            BY Zenon, <2>5, ModSucc, PacketProcessorAssumption
        <3>3. Taken(u)' = sent[u] + 1
            BY Zenon, <2>2 DEF Taken
        <3> QED
            BY ZenonT(30), <2>1, <2>4, <3>1, <3>2, <3>3 DEF PdcpCount, NrCount
    <2>8. \A v \in Users : v # u => PdcpCount(v)' = PdcpCount(v) /\ NrCount(v)' = NrCount(v)
        BY Zenon, <2>2 DEF PdcpCount, NrCount, Taken
    <2>9. dl'[slot[u]] = s
        BY Zenon, <1>0, <2>1, <2>2, <2>3
    <2>10. \A v \in Users : v # u /\ pc[v] = "committed" => dl'[slot[v]] = dl[slot[v]]
        BY <1>0, <2>1, <2>2, <2>3 DEF IInv, SlotsDistinct, Numbered
    <2> HIDE DEF s
    <2>11. Counted(u)'
        BY Zenon, <1>1, <2>2, <2>3, <2>7, <2>9 DEF Counted, Uncommitted
    <2>12. ASSUME NEW v \in Users, v # u PROVE Counted(v)'
        BY Zenon, <1>1, <2>2, <2>8, <2>10, <2>12 DEF SeqInv, CountersCount, Counted, Uncommitted
    <2> QED
        BY Zenon, <2>6, <2>11, <2>12 DEF SeqInv, CountersCount
<1>3. CASE DlSend
    <2>1. /\ dlPc = "send" /\ dlPc' = "read" /\ sent' = [sent EXCEPT ![dlTo] = @ + 1]
          /\ UNCHANGED dl
        BY Zenon, <1>3 DEF DlSend
    <2>2. dlTo \in Users /\ pc[dlTo] = "committed"
        BY Zenon, <2>1 DEF IInv, DownlinkToLiveSession
    <2>3. \A v \in Users : Taken(v)' = Taken(v)
        BY Zenon, <1>0, <2>1, <2>2 DEF Taken
    <2>4. \A v \in Users : PdcpCount(v)' = PdcpCount(v) /\ NrCount(v)' = NrCount(v)
        BY Zenon, <2>3 DEF PdcpCount, NrCount
    <2>5. \A v \in Users : Uncommitted(v) => sent'[v] = sent[v]
        BY Zenon, <1>0, <2>1, <2>2 DEF Uncommitted
    <2>6. ASSUME NEW v \in Users PROVE Counted(v)'
        BY Zenon, <1>1, <2>1, <2>4, <2>5 DEF SeqInv, CountersCount, Counted, Uncommitted
    <2> QED
        BY Zenon, <2>1, <2>6 DEF SeqInv, CountersCount, SequenceNumbersCount
<1>4. CASE DlEnd
    BY Zenon, <1>1, <1>4 DEF DlEnd, SeqInv, CountersCount, Counted, SequenceNumbersCount,
       Uncommitted
<1>5. ASSUME UNCHANGED <<dl, dlVars>> PROVE SeqInv'
    BY Zenon, <1>1, <1>5
       DEF SeqInv, CountersCount, Counted, SequenceNumbersCount, Uncommitted, PdcpCount, NrCount,
                      Taken, dlVars
<1> QED
    BY Zenon, <1>2, <1>3, <1>4, <1>5 DEF DownlinkStep, DlDrop, DlPanicIndex, DlPanicOverflow, vars

\* The sequence numbers in a session's packets count them from 0 in the width
\* of each field, for any number of packets (downlink_pipeline.rs:134-137,
\* 182-195).
THEOREM SequenceNumbersCountAlways == Spec => []SequenceNumbersCount
<1>1. Init => SeqInv
    BY Zenon DEF Init, SeqInv, CountersCount, Counted, SequenceNumbersCount
<1>2. IInv /\ IInv' /\ SeqInv /\ [Next]_vars => SeqInv'
    <2> SUFFICES ASSUME IInv, IInv', SeqInv, [Next]_vars PROVE SeqInv'
        BY Zenon
    <2>1. ASSUME UNCHANGED <<pc, slot, dl, dlVars>> PROVE SeqInv'
        BY Zenon, <2>1
           DEF SeqInv, CountersCount, Counted, SequenceNumbersCount, Uncommitted, PdcpCount,
           NrCount,
                    Taken, dlVars
    <2>2. CASE UplinkStep
        BY Zenon, <2>1, <2>2
           DEF UplinkStep, UlDrop, UlPanicIndex, UlForward, UlWrite, UlEnd, vars, sessionVars
    <2>3. CASE UNCHANGED vars
        BY Zenon, <2>1, <2>3 DEF vars, sessionVars
    <2> QED
        BY Zenon, <2>2, <2>3, SeqSession, SeqDownlink DEF Next
<1>3. SeqInv => SequenceNumbersCount
    BY Zenon DEF SeqInv
<1> QED
    BY <1>1, <1>2, <1>3, Invariance, PTL DEF Spec

-----------------------------------------------------------------------------
(* The abstract forwarding service.                                        *)

\* dlTo names a session, and sequence numbers are set, exactly while a packet
\* is being sent.
DownNamed == (dlPc = "send" <=> dlTo # None) /\ (dlPc # "send" => dlSn = 0 /\ dlNr = 0)

\* DownNamed is an invariant.
LEMMA DownNamedNext == IInv /\ IInv' /\ DownNamed /\ [Next]_vars => DownNamed'
<1> SUFFICES ASSUME IInv, IInv', DownNamed, [Next]_vars PROVE DownNamed'
    BY Zenon
<1>1. ASSUME UNCHANGED <<dlPc, dlTo, dlSn, dlNr>> PROVE DownNamed'
    BY Zenon, <1>1 DEF DownNamed
<1>2. ASSUME NEW u \in Users, SessionStep(u) PROVE DownNamed'
    BY Zenon, <1>1, <1>2 DEF SessionStep, NewId, AddUplink, Commit, Abandon, DeleteDownlink,
       DeleteUplink,
                      dlVars
<1>3. CASE UplinkStep
    BY Zenon, <1>1, <1>3 DEF UplinkStep, UlDrop, UlPanicIndex, UlForward, UlWrite, UlEnd, vars,
       dlVars
<1>4. CASE DownlinkStep
    <2>1. ASSUME NEW a \in Address, DlForward(a) PROVE DownNamed'
        <3>1. dlPc' = "send"
            BY Zenon, <2>1 DEF DlForward
        <3>2. dlTo' \in Users
            BY Zenon, <3>1 DEF IInv, DownlinkToLiveSession
        <3> QED
            BY Zenon, <3>1, <3>2, PacketProcessorAssumption DEF DownNamed
    <2>2. CASE DlSend \/ DlEnd
        BY Zenon, <2>2 DEF DlSend, DlEnd, DlLocalsDropped, DownNamed
    <2> QED
        BY Zenon, <1>1, <1>4, <2>1, <2>2 DEF DownlinkStep, DlDrop, DlPanicIndex, DlPanicOverflow,
           vars, dlVars
<1>5. CASE UNCHANGED vars
    BY Zenon, <1>1, <1>5 DEF vars, dlVars
<1> QED
    BY Zenon, <1>2, <1>3, <1>4, <1>5 DEF Next

\* The session of the uplink packet, and no other, has its TEID.
LEMMA UplinkSessionIs ==
    ASSUME IInv, ulPc = "write"
    PROVE  /\ UplinkSession \in Users /\ HasUplink(UplinkSession) /\ teid[UplinkSession] = ulPkt
           /\ \A v \in Users : HasUplink(v) /\ teid[v] = ulPkt => v = UplinkSession
<1>1. \E u \in Users : HasUplink(u) /\ teid[u] = ulPkt
    BY Zenon DEF IInv, UplinkFromLiveSession
<1>2. UplinkSession \in Users /\ HasUplink(UplinkSession) /\ teid[UplinkSession] = ulPkt
    BY Zenon, <1>1 DEF UplinkSession
<1>3. ASSUME NEW v \in Users, HasUplink(v), teid[v] = ulPkt PROVE v = UplinkSession
    <2>1. slot[v] = ulPkt.idx /\ slot[UplinkSession] = ulPkt.idx
        BY Zenon, <1>2, <1>3 DEF IInv, SlotsDistinct, Numbered, HasUplink
    <2> QED
        BY Zenon, <1>2, <1>3, <2>1 DEF IInv, SlotsDistinct, Numbered, HasUplink
<1> QED
    BY Zenon, <1>2, <1>3

\* It stays the same while the packet is written.
LEMMA UplinkSessionKept ==
    ASSUME IInv, IInv', UNCHANGED <<ulPc, ulPkt>>,
           \A v \in Users : HasUplink(v)' /\ HasUplink(v) => teid'[v] = teid[v],
           ulPc = "write" => \A v \in Users : HasUplink(v) => HasUplink(v)'
    PROVE  UplinkSession' = UplinkSession
<1>1. CASE ulPc = "write"
    <2>1. PICK u \in Users : u = UplinkSession /\ HasUplink(u) /\ teid[u] = ulPkt
        BY Zenon, <1>1, UplinkSessionIs
    <2>2. HasUplink(u)' /\ teid'[u] = ulPkt' /\ ulPc' = "write"
        BY Zenon, <1>1, <2>1
    <2>3. PICK v \in Users : v = UplinkSession' /\ HasUplink(v)' /\ teid'[v] = ulPkt'
        BY Zenon, <2>2 DEF UplinkSession
    <2>4. slot'[u] = ulPkt'.idx /\ slot'[v] = ulPkt'.idx
        BY Zenon, <2>2, <2>3 DEF IInv, SlotsDistinct, Numbered, HasUplink
    <2>5. u = v
        BY <2>2, <2>3, <2>4 DEF IInv, SlotsDistinct, Numbered, HasUplink
    <2> QED
        BY Zenon, <2>1, <2>3, <2>5
<1>2. CASE ulPc # "write"
    BY Zenon, <1>2 DEF UplinkSession
<1> QED
    BY Zenon, <1>1, <1>2

\* A step that leaves the gates, the packets and the uplink session alone.
LEMMA Stutters ==
    ASSUME UNCHANGED <<pc, sent, dlTo, dlSn, dlNr>>, UplinkSession' = UplinkSession
    PROVE  UNCHANGED Service!gateVars
BY DEF Service!gateVars, GateOf

\* A call that moves the session of u through its gate.
LEMMA GateStep ==
    ASSUME IInv, NEW u \in Users, NEW s \in SessionState, pc' = [pc EXCEPT ![u] = s],
           UNCHANGED <<sent, dlTo, dlSn, dlNr>>, UplinkSession' = UplinkSession,
           NEW from, NEW to, GateOf(u) = from, GateOf(u)' = to
    PROVE  Service!Gate(u, from, to)
<1>1. pc \in [Users -> SessionState]
    BY Zenon DEF IInv, TypeOK
<1>2. \A v \in Users \ {u} : GateOf(v)' = GateOf(v)
    BY Zenon, <1>1 DEF GateOf
<1>3. [v \in Users |-> GateOf(v)]' = [[v \in Users |-> GateOf(v)] EXCEPT ![u] = to]
    BY Zenon, <1>2
<1> QED
    BY Zenon, <1>3 DEF Service!Gate

\* The calls of a session.
LEMMA SessionImplements ==
    ASSUME IInv, IInv', DownNamed, NEW u \in Users, SessionStep(u)
    PROVE  [Service!ForwardingNext]_(Service!gateVars)
<1>0. /\ pc \in [Users -> SessionState] /\ slot \in [Users -> Slot]
      /\ teid \in [Users -> Teid \cup {None}]
    BY Zenon DEF IInv, TypeOK
<1>1. UNCHANGED <<sent, dlTo, dlSn, dlNr, dlPc, ulPc, ulPkt>>
    BY Zenon DEF SessionStep, NewId, AddUplink, Commit, Abandon, DeleteDownlink, DeleteUplink,
       dlVars, ulVars
<1>2. \A v \in Users : v # u => pc'[v] = pc[v] /\ teid'[v] = teid[v]
    BY Zenon, <1>0 DEF SessionStep, NewId, AddUplink, Commit, Abandon, DeleteDownlink, DeleteUplink
<1>3. ASSUME NEW i, NEW t, NewId(u, i, t) PROVE UNCHANGED Service!gateVars
    <2>1. pc[u] = "idle" /\ pc'[u] \in {"numbered", "refused"}
        BY Zenon, <1>0, <1>3 DEF NewId
    <2>2. UplinkSession' = UplinkSession
        BY Zenon, <1>1, <1>2, <2>1, UplinkSessionKept DEF HasUplink
    <2>3. \A v \in Users : GateOf(v)' = GateOf(v)
        BY Zenon, <1>2, <2>1 DEF GateOf
    <2> QED
        BY Zenon, <1>1, <2>2, <2>3 DEF Service!gateVars
<1>4. CASE AddUplink(u)
    <2>1. pc[u] = "numbered" /\ pc' = [pc EXCEPT ![u] = "reserved"] /\ UNCHANGED teid /\ ulPc # "write"
        BY Zenon, <1>4 DEF AddUplink
    <2>2. UplinkSession' = UplinkSession
        BY Zenon, <1>1, <2>1, UplinkSessionKept
    <2>3. Service!OpenUplink(u)
        <3>1. GateOf(u) = "shut" /\ GateOf(u)' = "uplink"
            BY Zenon, <1>0, <2>1 DEF GateOf
        <3>2. Service!Gate(u, "shut", "uplink")
            BY Zenon, <1>1, <2>1, <2>2, <3>1, GateStep DEF SessionState
        <3> QED
            BY Zenon, <3>2 DEF Service!OpenUplink
    <2> QED
        BY Zenon, <2>3 DEF Service!ForwardingNext
<1>5. CASE Commit(u)
    <2>1. pc[u] = "reserved" /\ pc' = [pc EXCEPT ![u] = "committed"] /\ UNCHANGED teid
        BY Zenon, <1>5 DEF Commit
    <2>2. UplinkSession' = UplinkSession
        BY Zenon, <1>0, <1>1, <1>2, <2>1, UplinkSessionKept DEF HasUplink
    <2>3. Service!OpenDownlink(u)
        <3>1. GateOf(u) = "uplink" /\ GateOf(u)' = "open"
            BY Zenon, <1>0, <2>1 DEF GateOf
        <3>2. Service!Gate(u, "uplink", "open")
            BY Zenon, <1>1, <2>1, <2>2, <3>1, GateStep DEF SessionState
        <3> QED
            BY Zenon, <3>2 DEF Service!OpenDownlink
    <2> QED
        BY Zenon, <2>3 DEF Service!ForwardingNext
<1>6. CASE Abandon(u)
    <2>1. pc[u] = "reserved" /\ pc' = [pc EXCEPT ![u] = "abandoned"] /\ UNCHANGED teid
        BY Zenon, <1>6 DEF Abandon
    <2>2. UplinkSession' = UplinkSession
        BY Zenon, <1>0, <1>1, <1>2, <2>1, UplinkSessionKept DEF HasUplink
    <2>3. \A v \in Users : GateOf(v)' = GateOf(v)
        BY Zenon, <1>0, <1>2, <2>1 DEF GateOf
    <2> QED
        BY Zenon, <1>1, <2>2, <2>3 DEF Service!gateVars
<1>7. CASE DeleteDownlink(u)
    <2>1. /\ pc[u] = "committed" /\ pc' = [pc EXCEPT ![u] = "deleting"] /\ UNCHANGED teid
          /\ dlPc # "send"
        BY Zenon, <1>7 DEF DeleteDownlink
    <2>2. UplinkSession' = UplinkSession
        BY Zenon, <1>0, <1>1, <1>2, <2>1, UplinkSessionKept DEF HasUplink
    <2>3. dlTo # u
        BY Zenon, <2>1, PacketProcessorAssumption DEF DownNamed
    <2>4. Service!CloseDownlink(u)
        <3>1. GateOf(u) = "open" /\ GateOf(u)' = "closing"
            BY Zenon, <1>0, <2>1 DEF GateOf
        <3>2. Service!Gate(u, "open", "closing")
            BY Zenon, <1>1, <2>1, <2>2, <3>1, GateStep DEF SessionState
        <3> QED
            BY Zenon, <2>3, <3>2 DEF Service!CloseDownlink
    <2> QED
        BY Zenon, <2>4 DEF Service!ForwardingNext
<1>8. CASE DeleteUplink(u)
    <2>1. /\ pc[u] = "deleting" /\ pc' = [pc EXCEPT ![u] = "deleted"] /\ UNCHANGED teid
          /\ ulPc # "write"
        BY Zenon, <1>8 DEF DeleteUplink
    <2>2. UplinkSession' = UplinkSession /\ UplinkSession = None
        BY Zenon, <1>1, <2>1 DEF UplinkSession
    <2>3. UplinkSession # u
        BY Zenon, <2>2, PacketProcessorAssumption
    <2>4. Service!CloseUplink(u)
        <3>1. GateOf(u) = "closing" /\ GateOf(u)' = "closed"
            BY Zenon, <1>0, <2>1 DEF GateOf
        <3>2. Service!Gate(u, "closing", "closed")
            BY Zenon, <1>1, <2>1, <2>2, <3>1, GateStep DEF SessionState
        <3> QED
            BY Zenon, <2>3, <3>2 DEF Service!CloseUplink
    <2> QED
        BY Zenon, <2>4 DEF Service!ForwardingNext
<1> QED
    BY Zenon, <1>3, <1>4, <1>5, <1>6, <1>7, <1>8 DEF SessionStep

\* The downlink pipeline.
LEMMA DownlinkImplements ==
    ASSUME IInv, IInv', DownNamed, DownNamed', SequenceNumbersCount', DownlinkStep
    PROVE  [Service!ForwardingNext]_(Service!gateVars)
<1>0. sent \in [Users -> Nat] /\ pc \in [Users -> SessionState]
    BY Zenon DEF IInv, TypeOK
<1>1. UNCHANGED <<pc, teid, ulPc, ulPkt>>
    BY Zenon DEF DownlinkStep, DlDrop, DlPanicIndex, DlForward, DlPanicOverflow, DlSend, DlEnd,
           vars, sessionVars, ulVars
<1>2. UplinkSession' = UplinkSession
    BY Zenon, <1>1, UplinkSessionKept DEF HasUplink
<1>3. [u \in Users |-> GateOf(u)]' = [u \in Users |-> GateOf(u)]
    BY <1>1 DEF GateOf
<1>4. ASSUME NEW a \in Address, DlForward(a) PROVE \E u \in Users : Service!EnterDown(u)
    <2>1. dlPc = "read" /\ dlPc' = "send" /\ UNCHANGED sent
        BY Zenon, <1>4 DEF DlForward
    <2>2. PICK u \in Users : u = dlTo' /\ pc'[u] = "committed"
        BY Zenon, <2>1 DEF IInv, DownlinkToLiveSession
    <2>3. dlSn' = sent[u] % SnMod /\ dlNr' = sent[u] % NrSnMod
        BY Zenon, <2>1, <2>2 DEF SequenceNumbersCount
    <2>4. dlTo = None
        BY Zenon, <2>1 DEF DownNamed
    <2>5. GateOf(u) = "open"
        BY Zenon, <1>1, <2>2 DEF GateOf
    <2>6. [v \in Users |-> GateOf(v)][u] = "open"
        BY Zenon, <2>5
    <2> QED
        BY Zenon, <1>2, <1>3, <2>1, <2>2, <2>3, <2>4, <2>6 DEF Service!EnterDown
<1>5. CASE DlSend
    <2>1. dlTo # None /\ sent' = [sent EXCEPT ![dlTo] = @ + 1]
        BY Zenon, <1>5 DEF DlSend, DownNamed
    <2> QED
        BY Zenon, <1>2, <1>3, <1>5, <2>1 DEF DlSend, DlLocalsDropped, Service!LeaveDown,
           Service!ForwardingNext
<1>6. CASE DlEnd
    <2>1. CASE dlPc = "send"
        BY Zenon, <1>2, <1>3, <1>6, <2>1
           DEF DlEnd, DlLocalsDropped, DownNamed, Service!LeaveDown, Service!ForwardingNext
    <2>2. CASE dlPc # "send"
        BY Zenon, <1>2, <1>3, <1>6, <2>2 DEF DlEnd, DlLocalsDropped, DownNamed, Service!gateVars
    <2> QED
        BY Zenon, <2>1, <2>2
<1>7. ASSUME UNCHANGED dlVars PROVE UNCHANGED Service!gateVars
    BY Zenon, <1>2, <1>3, <1>7 DEF dlVars, Service!gateVars
<1> QED
    BY Zenon, <1>4, <1>5, <1>6, <1>7
       DEF DownlinkStep, DlDrop, DlPanicIndex, DlPanicOverflow, vars, Service!ForwardingNext

\* The uplink pipeline.
LEMMA UplinkImplements ==
    ASSUME IInv, IInv', UplinkStep
    PROVE  [Service!ForwardingNext]_(Service!gateVars)
<1>1. UNCHANGED <<pc, teid, sent, dlTo, dlSn, dlNr>>
    BY Zenon DEF UplinkStep, UlDrop, UlPanicIndex, UlForward, UlWrite, UlEnd, vars, sessionVars,
       dlVars
<1>2. [u \in Users |-> GateOf(u)]' = [u \in Users |-> GateOf(u)]
    BY <1>1 DEF GateOf
<1>3. ASSUME NEW t \in Teid, UlForward(t) PROVE \E u \in Users : Service!EnterUp(u)
    <2>1. ulPc = "read" /\ ulPc' = "write"
        BY Zenon, <1>3 DEF UlForward
    <2>2. \E v \in Users : HasUplink(v)' /\ teid'[v] = ulPkt'
        BY Zenon, <2>1 DEF IInv, UplinkFromLiveSession
    <2>3. PICK u \in Users : u = UplinkSession' /\ HasUplink(u)'
        BY Zenon, <2>1, <2>2 DEF UplinkSession
    <2>4. UplinkSession = None
        BY Zenon, <2>1 DEF UplinkSession
    <2>5. GateOf(u) \in {"uplink", "open", "closing"}
        BY Zenon, <1>1, <2>3 DEF HasUplink, GateOf
    <2>6. [v \in Users |-> GateOf(v)][u] \in {"uplink", "open", "closing"}
        BY Zenon, <2>5
    <2> QED
        BY Zenon, <1>1, <1>2, <2>3, <2>4, <2>6 DEF Service!EnterUp
<1>4. CASE UlWrite \/ UlEnd
    <2>1. UplinkSession' = None
        BY Zenon, <1>4 DEF UlWrite, UlEnd, UplinkSession
    <2>2. CASE ulPc = "write"
        <3>1. UplinkSession # None
            BY Zenon, <2>2, UplinkSessionIs, PacketProcessorAssumption
        <3> QED
            BY Zenon, <1>1, <1>2, <2>1, <3>1 DEF Service!LeaveUp, Service!ForwardingNext
    <2>3. CASE ulPc # "write"
        <3>1. UplinkSession = None
            BY Zenon, <2>3 DEF UplinkSession
        <3> QED
            BY Zenon, <1>1, <1>2, <2>1, <3>1 DEF Service!gateVars
    <2> QED
        BY Zenon, <2>2, <2>3
<1>5. ASSUME UNCHANGED ulVars PROVE UNCHANGED Service!gateVars
    <2>1. UplinkSession' = UplinkSession
        BY <1>1, <1>5 DEF ulVars, UplinkSession, HasUplink
    <2> QED
        BY Zenon, <1>1, <1>2, <2>1 DEF Service!gateVars
<1> QED
    BY Zenon, <1>3, <1>4, <1>5 DEF UplinkStep, UlDrop, UlPanicIndex, vars, Service!ForwardingNext

\* PacketProcessor gives every session the service of Forwarding.
THEOREM GivesForwardingAlways == Spec => GivesForwarding
<1>1. Init => Service!ForwardingInit /\ DownNamed
    BY Zenon DEF Init, Service!ForwardingInit, GateOf, UplinkSession, DownNamed
<1>2. IInv /\ IInv' /\ DownNamed /\ DownNamed' /\ SequenceNumbersCount' /\ [Next]_vars
         => [Service!ForwardingNext]_(Service!gateVars)
    <2> SUFFICES ASSUME IInv, IInv', DownNamed, DownNamed', SequenceNumbersCount', [Next]_vars
                 PROVE  [Service!ForwardingNext]_(Service!gateVars)
        BY Zenon
    <2>1. CASE UNCHANGED vars
        <3>1. UplinkSession' = UplinkSession
            BY <2>1 DEF vars, sessionVars, ulVars, UplinkSession, HasUplink
        <3> QED
            BY Zenon, <2>1, <3>1, Stutters DEF vars, sessionVars, dlVars
    <2> QED
        BY Zenon, <2>1, SessionImplements, DownlinkImplements, UplinkImplements DEF Next
<1> QED
    BY <1>1, <1>2, DownNamedNext, Invariance, SequenceNumbersCountAlways, PTL
       DEF Spec, GivesForwarding, Service!ForwardingSpec
=============================================================================
