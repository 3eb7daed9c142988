------------------------ MODULE ForwardingRefinement ------------------------
(***************************************************************************)
(* PacketProcessor implements Forwarding: the refinement mapping.          *)
(***************************************************************************)
EXTENDS PacketProcessor

\* The gate of a session, from how far its calls have come.
GateOf(u) ==
    CASE pc[u] \in {"idle", "numbered", "refused"} -> "shut"
      [] pc[u] \in {"reserved", "abandoned"} -> "uplink"
      [] pc[u] = "committed" -> "open"
      [] pc[u] = "deleting" -> "closing"
      [] pc[u] = "deleted" -> "closed"

\* The session whose TEID the uplink packet carries.
UplinkSession ==
    IF ulPc = "write" THEN CHOOSE u \in Users : HasUplink(u) /\ teid[u] = ulPkt ELSE None

Service == INSTANCE Forwarding
    WITH gate <- [u \in Users |-> GateOf(u)], delivered <- sent,
         down <- dlTo, sn <- dlSn, nr <- dlNr, up <- UplinkSession

\* The two tables, the index pool and the locks of PacketProcessor give every
\* session the service of Forwarding, whatever the other sessions and the two
\* pipelines do meanwhile (packet_processor.rs:87-152,
\* downlink_pipeline.rs:104-211, uplink_pipeline.rs:92-189).
GivesForwarding == Service!ForwardingSpec
=============================================================================
