-------------------------- MODULE PacketProcessor --------------------------
(***************************************************************************)
(* The user plane (qcore/src/userplane): the sessions that                 *)
(* reserve/commit/delete_userplane_session install in the two forwarding   *)
(* tables, and the two pipeline tasks that look packets up in them.        *)
(*                                                                         *)
(* A user of the API is one PDU session establishment.  Each call is       *)
(* split where it waits for a lock.  A pipeline binds its table entry by   *)
(* reference ("let Some(ref mut entry) = ...lock().await[idx]"), so the    *)
(* lock guard lives until the handler returns: the table is locked while   *)
(* the packet is written out.                                              *)
(***************************************************************************)
EXTENDS Integers, FiniteSets

CONSTANTS Users,     \* PDU session establishments
          MaxUes,    \* MAX_UES, the length of each table (254)
          Octets,    \* number of values of an octet (256)
          Tops,      \* values of the three random octets of a TEID
          Nets,      \* network parts of IPv4 addresses
          Subnet,    \* the network part of the UE subnet
          PdcpMod,   \* 2^16: pdcp_seq_num is a u16
          SnMod,     \* 2^12: the PDCP SN field
          NrMod,     \* 2^32: nr_seq_num is a u32
          NrSnMod,   \* 2^24: the NR-U sequence number field
          MaxSent,   \* bound of the model: downlink packets per session
          None       \* Option::None

Octet == 0 .. Octets - 1
Slot == 0 .. MaxUes - 1
Address == [net : Nets, host : Octet]
Teid == [top : Tops, idx : Octet]
DlRule == [tunnel : Users, addr : Address, pdcp : 0 .. PdcpMod - 1, nr : 0 .. NrMod - 1]

ASSUME PacketProcessorAssumption ==
    /\ MaxUes \in Nat /\ Octets \in Nat /\ 0 < MaxUes /\ MaxUes <= Octets
    /\ Subnet \in Nets
    /\ Tops # {}
    /\ PdcpMod \in Nat \ {0} /\ SnMod \in Nat \ {0}
    /\ NrMod \in Nat \ {0} /\ NrSnMod \in Nat \ {0}
    /\ MaxSent \in Nat
    /\ None \notin DlRule /\ None \notin Teid /\ None \notin Users

\* Each sequence number field is the low bits of its counter.
ASSUME CounterAssumption == PdcpMod % SnMod = 0 /\ NrMod % NrSnMod = 0

VARIABLES ids,       \* ids taken from index_pool
          pc,        \* pc[u]: how far the session of u is
          slot,      \* slot[u]: the index of u's session
          teid,      \* teid[u]: uplink_gtp_teid of u's session
          dl,        \* downlink_forwarding_table
          ul,        \* uplink_forwarding_table
          dlPc,      \* the downlink pipeline: reading, sending or ended
          dlPkt,     \* destination address of the packet it sends
          dlTo,      \* the tunnel the packet goes to
          dlSn,      \* the PDCP SN written into the packet
          dlNr,      \* the NR-U sequence number written into the packet
          ulPc,      \* the uplink pipeline: reading, writing or ended
          ulPkt,     \* TEID of the packet it writes
          sent,      \* sent[u]: downlink packets sent for u's session
          panicked   \* a task panicked: exit_on_panic ends the process

sessionVars == <<ids, pc, slot, teid>>
dlVars == <<dlPc, dlPkt, dlTo, dlSn, dlNr, sent>>
ulVars == <<ulPc, ulPkt>>
vars == <<sessionVars, dl, ul, dlVars, ulVars, panicked>>

SessionState ==
    {"idle", "numbered", "refused", "reserved", "abandoned", "committed", "deleting", "deleted"}

TypeOK ==
    /\ ids \subseteq Nat
    /\ pc \in [Users -> SessionState]
    /\ slot \in [Users -> Slot]
    /\ teid \in [Users -> Teid \cup {None}]
    /\ dl \in [Slot -> DlRule \cup {None}]
    /\ ul \in [Slot -> Teid \cup {None}]
    /\ dlPc \in {"read", "send", "ended"}
    /\ dlPkt \in Address \cup {None}
    /\ dlTo \in Users \cup {None}
    /\ dlSn \in 0 .. SnMod - 1
    /\ dlNr \in 0 .. NrSnMod - 1
    /\ ulPc \in {"read", "write", "ended"}
    /\ ulPkt \in Teid \cup {None}
    /\ sent \in [Users -> Nat]
    /\ panicked \in BOOLEAN

\* PacketProcessor::new takes id 0, so that the first UE gets address .1.
Init ==
    /\ ids = {0}
    /\ pc = [u \in Users |-> "idle"]
    /\ slot = [u \in Users |-> 0]
    /\ teid = [u \in Users |-> None]
    /\ dl = [i \in Slot |-> None]
    /\ ul = [i \in Slot |-> None]
    /\ dlPc = "read"
    /\ dlPkt = None
    /\ dlTo = None
    /\ dlSn = 0
    /\ dlNr = 0
    /\ ulPc = "read"
    /\ ulPkt = None
    /\ sent = [u \in Users |-> 0]
    /\ panicked = FALSE

-----------------------------------------------------------------------------
(* Sessions.                                                               *)

\* IndexPool::new_id: the smallest id not in use.
IsNewId(i) == i \notin ids /\ \A j \in 0 .. i - 1 : j \in ids

\* The address of the UE with index i.
UeAddr(i) == [net |-> Subnet, host |-> i]

\* Mutant: the check of the index against the table is off by one.
NewIdOneMore(u, i, t) ==
    /\ pc[u] = "idle"
    /\ IsNewId(i)
    /\ i <= MaxUes
    /\ ids' = ids \cup {i}
    /\ slot' = [slot EXCEPT ![u] = i]
    /\ teid' = [teid EXCEPT ![u] = [top |-> t, idx |-> i]]
    /\ pc' = [pc EXCEPT ![u] = "numbered"]
    /\ UNCHANGED <<dl, ul, dlVars, ulVars, panicked>>

\* reserve_userplane_session, up to the lock of the uplink table: an index,
\* refused when there is no slot for it, and a TEID that ends in the index.
NewId(u, i, t) ==
    /\ pc[u] = "idle"
    /\ IsNewId(i)
    /\ ids' = ids \cup {i}
    /\ \/ /\ i < MaxUes
          /\ slot' = [slot EXCEPT ![u] = i]
          /\ teid' = [teid EXCEPT ![u] = [top |-> t, idx |-> i]]
          /\ pc' = [pc EXCEPT ![u] = "numbered"]
       \/ /\ i >= MaxUes
          /\ pc' = [pc EXCEPT ![u] = "refused"]
          /\ UNCHANGED <<slot, teid>>
    /\ UNCHANGED <<dl, ul, dlVars, ulVars, panicked>>

\* UplinkForwardingTable::add_rule.
AddUplink(u) ==
    /\ pc[u] = "numbered"
    /\ ulPc # "write"
    /\ ul' = [ul EXCEPT ![slot[u]] = teid[u]]
    /\ pc' = [pc EXCEPT ![u] = "reserved"]
    /\ UNCHANGED <<ids, slot, teid, dl, dlVars, ulVars, panicked>>

\* Mutant: a session that is being deleted can be committed again.
CommitAgain(u) ==
    /\ pc[u] \in {"reserved", "deleting"}
    /\ dlPc # "send"
    /\ dl' = [dl EXCEPT ![slot[u]] =
                [tunnel |-> u, addr |-> UeAddr(slot[u]), pdcp |-> 0, nr |-> 0]]
    /\ pc' = [pc EXCEPT ![u] = "committed"]
    /\ UNCHANGED <<ids, slot, teid, ul, dlVars, ulVars, panicked>>

\* commit_userplane_session: DownlinkForwardingTable::add_rule.
Commit(u) ==
    /\ pc[u] = "reserved"
    /\ dlPc # "send"
    /\ dl' = [dl EXCEPT ![slot[u]] =
                [tunnel |-> u, addr |-> UeAddr(slot[u]), pdcp |-> 0, nr |-> 0]]
    /\ pc' = [pc EXCEPT ![u] = "committed"]
    /\ UNCHANGED <<ids, slot, teid, ul, dlVars, ulVars, panicked>>

\* The session establishment fails between reserve and commit; nothing is
\* called and the session is forgotten.
Abandon(u) ==
    /\ pc[u] = "reserved"
    /\ pc' = [pc EXCEPT ![u] = "abandoned"]
    /\ UNCHANGED <<ids, slot, teid, dl, ul, dlVars, ulVars, panicked>>

\* Mutants of the first half: it returns the index to the pool; it does not
\* wait for the table's lock; it removes the uplink rule.
DeleteReturnsId(u) ==
    /\ pc[u] = "committed"
    /\ dlPc # "send"
    /\ dl' = [dl EXCEPT ![slot[u]] = None]
    /\ ids' = ids \ {slot[u]}
    /\ pc' = [pc EXCEPT ![u] = "deleting"]
    /\ UNCHANGED <<slot, teid, ul, dlVars, ulVars, panicked>>

DeleteUnlocked(u) ==
    /\ pc[u] = "committed"
    /\ dl' = [dl EXCEPT ![slot[u]] = None]
    /\ pc' = [pc EXCEPT ![u] = "deleting"]
    /\ UNCHANGED <<ids, slot, teid, ul, dlVars, ulVars, panicked>>

DeleteUplinkFirst(u) ==
    /\ pc[u] = "committed"
    /\ ulPc # "write"
    /\ ul' = [ul EXCEPT ![slot[u]] = None]
    /\ pc' = [pc EXCEPT ![u] = "deleting"]
    /\ UNCHANGED <<ids, slot, teid, dl, dlVars, ulVars, panicked>>

\* delete_userplane_session: first the downlink rule, then the uplink rule.
\* The index does not go back to the pool.
DeleteDownlink(u) ==
    /\ pc[u] = "committed"
    /\ dlPc # "send"
    /\ dl' = [dl EXCEPT ![slot[u]] = None]
    /\ pc' = [pc EXCEPT ![u] = "deleting"]
    /\ UNCHANGED <<ids, slot, teid, ul, dlVars, ulVars, panicked>>

DeleteUplink(u) ==
    /\ pc[u] = "deleting"
    /\ ulPc # "write"
    /\ ul' = [ul EXCEPT ![slot[u]] = None]
    /\ pc' = [pc EXCEPT ![u] = "deleted"]
    /\ UNCHANGED <<ids, slot, teid, dl, dlVars, ulVars, panicked>>

-----------------------------------------------------------------------------
(* The downlink pipeline (N6 -> F1-U).                                     *)

\* Mutant: the sequence number written is the one after the increment.
WireSnNext(n, mod) == (n + 1) % mod

\* The low bits of a counter are what is written into the packet.
WireSn(n, mod) == n % mod

\* No rule, or a rule for another address.
DlDrop(a) ==
    /\ dlPc = "read"
    /\ a.host \in Slot
    /\ dl[a.host] # None => dl[a.host].addr # a
    /\ UNCHANGED vars

\* The table index is the last octet; beyond the table it panics.
DlPanicIndex(a) ==
    /\ dlPc = "read"
    /\ a.host \notin Slot
    /\ panicked' = TRUE
    /\ UNCHANGED <<sessionVars, dl, ul, dlVars, ulVars>>

\* The packet takes the counters' values and the counters advance, with the
\* lock taken and kept.  On overflow a build without overflow checks wraps.
DlForward(a) ==
    /\ dlPc = "read"
    /\ a.host \in Slot
    /\ dl[a.host] # None
    /\ LET r == dl[a.host] IN
        /\ r.addr = a
        /\ sent[r.tunnel] < MaxSent
        /\ dlTo' = r.tunnel
        /\ dlSn' = WireSn(r.pdcp, SnMod)
        /\ dlNr' = WireSn(r.nr, NrSnMod)
        /\ dl' = [dl EXCEPT ![a.host] = [r EXCEPT !.pdcp = (@ + 1) % PdcpMod,
                                                  !.nr = (@ + 1) % NrMod]]
    /\ dlPkt' = a
    /\ dlPc' = "send"
    /\ UNCHANGED <<sessionVars, ul, sent, ulVars, panicked>>

\* A build with overflow checks panics instead.
DlPanicOverflow(a) ==
    /\ dlPc = "read"
    /\ a.host \in Slot
    /\ dl[a.host] # None
    /\ dl[a.host].addr = a
    /\ dl[a.host].pdcp + 1 = PdcpMod \/ dl[a.host].nr + 1 = NrMod
    /\ panicked' = TRUE
    /\ UNCHANGED <<sessionVars, dl, ul, dlVars, ulVars>>

\* The handler's local variables go out of scope.
DlLocalsDropped == dlPkt' = None /\ dlTo' = None /\ dlSn' = 0 /\ dlNr' = 0

\* send_to succeeds, the handler returns and the lock is free.
DlSend ==
    /\ dlPc = "send"
    /\ dlPc' = "read"
    /\ sent' = [sent EXCEPT ![dlTo] = @ + 1]
    /\ DlLocalsDropped
    /\ UNCHANGED <<sessionVars, dl, ul, ulVars, panicked>>

\* The read, the conversion of the DU's address or send_to fails: the task's
\* loop ends, for good.
DlEnd ==
    /\ dlPc \in {"read", "send"}
    /\ dlPc' = "ended"
    /\ DlLocalsDropped
    /\ UNCHANGED <<sessionVars, dl, ul, sent, ulVars, panicked>>

-----------------------------------------------------------------------------
(* The uplink pipeline (F1-U -> N6), for packets whose headers are those   *)
(* of a user data packet.                                                  *)

UlDrop(t) ==
    /\ ulPc = "read"
    /\ t.idx \in Slot
    /\ ul[t.idx] # t
    /\ UNCHANGED vars

UlPanicIndex(t) ==
    /\ ulPc = "read"
    /\ t.idx \notin Slot
    /\ panicked' = TRUE
    /\ UNCHANGED <<sessionVars, dl, ul, dlVars, ulVars>>

\* Mutant: any rule in the slot will do.
UlForwardBySlot(t) ==
    /\ ulPc = "read"
    /\ t.idx \in Slot
    /\ ul[t.idx] # None
    /\ ulPkt' = t
    /\ ulPc' = "write"
    /\ UNCHANGED <<sessionVars, dl, ul, dlVars, panicked>>

UlForward(t) ==
    /\ ulPc = "read"
    /\ t.idx \in Slot
    /\ ul[t.idx] = t
    /\ ulPkt' = t
    /\ ulPc' = "write"
    /\ UNCHANGED <<sessionVars, dl, ul, dlVars, panicked>>

\* The inner packet is written to the tun device and flushed.
UlWrite ==
    /\ ulPc = "write"
    /\ ulPc' = "read"
    /\ ulPkt' = None
    /\ UNCHANGED <<sessionVars, dl, ul, dlVars, panicked>>

UlEnd ==
    /\ ulPc \in {"read", "write"}
    /\ ulPc' = "ended"
    /\ ulPkt' = None
    /\ UNCHANGED <<sessionVars, dl, ul, dlVars, panicked>>

-----------------------------------------------------------------------------
SessionStep(u) ==
    \/ \E i \in {j + 1 : j \in ids}, t \in Tops : NewId(u, i, t)
    \/ AddUplink(u)
    \/ Commit(u)
    \/ Abandon(u)
    \/ DeleteDownlink(u)
    \/ DeleteUplink(u)

DownlinkStep ==
    \/ \E a \in Address : DlDrop(a) \/ DlPanicIndex(a) \/ DlForward(a) \/ DlPanicOverflow(a)
    \/ DlSend
    \/ DlEnd

UplinkStep ==
    \/ \E t \in Teid : UlDrop(t) \/ UlPanicIndex(t) \/ UlForward(t)
    \/ UlWrite
    \/ UlEnd

Next ==
    /\ ~panicked
    /\ \/ \E u \in Users : SessionStep(u)
       \/ DownlinkStep
       \/ UplinkStep

Spec == Init /\ [][Next]_vars

-----------------------------------------------------------------------------
(* Properties.                                                             *)

\* u's session is known to the uplink pipeline from the end of reserve to
\* the end of delete.
HasUplink(u) == pc[u] \in {"reserved", "abandoned", "committed", "deleting"}

\* Whatever the other users of the API do, a session's rules are those its
\* own calls installed, until its own delete removes them; and no later
\* session brings them back (packet_processor.rs:87-152).
SessionKeepsRules ==
    \A u \in Users :
        /\ HasUplink(u) => ul[slot[u]] = teid[u]
        /\ pc[u] = "committed" =>
            dl[slot[u]] # None /\ dl[slot[u]].tunnel = u /\ dl[slot[u]].addr = UeAddr(slot[u])
        /\ pc[u] = "deleting" => dl[slot[u]] = None
        /\ pc[u] = "deleted" => dl[slot[u]] = None /\ ul[slot[u]] = None

\* Downlink packets are accepted for an address only while the uplink of the
\* same session is open, through reserve, commit and delete
\* (packet_processor.rs:105-107, 136-138, 144-149).
DownlinkHasUplink ==
    \A i \in Slot : dl[i] # None => ul[i] # None /\ ul[i] = teid[dl[i].tunnel]

\* A packet that leaves for a tunnel is addressed to the UE the tunnel was
\* set up for, and that session is not deleted meanwhile
\* (downlink_pipeline.rs:124-209).
DownlinkToLiveSession ==
    dlPc = "send" => dlTo \in Users /\ pc[dlTo] = "committed" /\ dlPkt = UeAddr(slot[dlTo])

\* A packet let through to the N6 side carries the TEID of a session that is
\* reserved and not yet deleted (uplink_pipeline.rs:165-185).
UplinkFromLiveSession ==
    ulPc = "write" => \E u \in Users : HasUplink(u) /\ teid[u] = ulPkt

\* The PDCP and NR-U sequence numbers of a session's packets count its
\* packets from 0, in the width of each field, also when the counters wrap
\* (downlink_pipeline.rs:134-137, 182-195).
SequenceNumbersCount ==
    dlPc = "send" => dlSn = sent[dlTo] % SnMod /\ dlNr = sent[dlTo] % NrSnMod

\* A reservation is refused only while some session occupies a slot: deleting
\* a session frees it (deregistration.rs:29-30).
RefusedOnlyInUse ==
    \A u \in Users : pc[u] = "refused" => \E v \in Users : HasUplink(v) \/ pc[v] = "numbered"
=============================================================================
