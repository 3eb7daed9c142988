----------------------------- MODULE Forwarding -----------------------------
(***************************************************************************)
(* What the user plane promises to a PDU session, without tables, indices, *)
(* TEIDs, addresses or locks: each session has a gate of its own, which    *)
(* its calls open and close once; packets pass only an open gate; a gate   *)
(* does not close on a packet that is passing; and the downlink packets    *)
(* that pass are numbered one after the other.                             *)
(***************************************************************************)
EXTENDS Naturals

CONSTANTS Users,    \* PDU session establishments
          SnMod,    \* number of PDCP sequence numbers
          NrSnMod,  \* number of NR-U sequence numbers
          None

VARIABLES gate,       \* gate[u]: shut, uplink, open, closing or closed
          delivered,  \* delivered[u]: downlink packets that have passed
          down,       \* the session of the downlink packet that is passing
          sn,         \* its PDCP sequence number
          nr,         \* its NR-U sequence number
          up          \* the session of the uplink packet that is passing

gateVars == <<gate, delivered, down, sn, nr, up>>

ForwardingInit ==
    /\ gate = [u \in Users |-> "shut"]
    /\ delivered = [u \in Users |-> 0]
    /\ down = None /\ sn = 0 /\ nr = 0
    /\ up = None

-----------------------------------------------------------------------------
Gate(u, from, to) ==
    /\ gate[u] = from
    /\ gate' = [gate EXCEPT ![u] = to]
    /\ UNCHANGED <<delivered, down, sn, nr, up>>

OpenUplink(u) == Gate(u, "shut", "uplink")
OpenDownlink(u) == Gate(u, "uplink", "open")
CloseDownlink(u) == down # u /\ Gate(u, "open", "closing")
CloseUplink(u) == up # u /\ Gate(u, "closing", "closed")

EnterDown(u) ==
    /\ gate[u] = "open"
    /\ down = None
    /\ down' = u
    /\ sn' = delivered[u] % SnMod
    /\ nr' = delivered[u] % NrSnMod
    /\ UNCHANGED <<gate, delivered, up>>

\* The packet is out, or lost on its way.
LeaveDown ==
    /\ down # None
    /\ \/ delivered' = [delivered EXCEPT ![down] = @ + 1]
       \/ UNCHANGED delivered
    /\ down' = None /\ sn' = 0 /\ nr' = 0
    /\ UNCHANGED <<gate, up>>

EnterUp(u) ==
    /\ gate[u] \in {"uplink", "open", "closing"}
    /\ up = None
    /\ up' = u
    /\ UNCHANGED <<gate, delivered, down, sn, nr>>

LeaveUp ==
    /\ up # None
    /\ up' = None
    /\ UNCHANGED <<gate, delivered, down, sn, nr>>

ForwardingNext ==
    \/ \E u \in Users : \/ OpenUplink(u) \/ OpenDownlink(u) \/ CloseDownlink(u) \/ CloseUplink(u)
                        \/ EnterDown(u) \/ EnterUp(u)
    \/ LeaveDown \/ LeaveUp

ForwardingSpec == ForwardingInit /\ [][ForwardingNext]_gateVars
=============================================================================
