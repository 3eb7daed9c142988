---------------------------- MODULE UplinkHeader ----------------------------
(***************************************************************************)
(* handle_next_uplink_packet of uplink_pipeline.rs: the walk over the GTP, *)
(* PDCP and SDAP headers of one packet, an octet at a time.                *)
(*                                                                         *)
(* The buffer is 2000 octets long and reused: beyond bytes_read it holds   *)
(* an earlier packet.  An octet's value is chosen when it is first looked  *)
(* at.  The forwarding table is PacketProcessor's.                         *)
(***************************************************************************)
EXTENDS Naturals, Sequences

CONSTANTS
  PacketLengths,  \* sizes of the datagrams received
  SkipOctets      \* length octets of extension headers, in units of four octets

ASSUME UplinkInputs == PacketLengths \subseteq Nat /\ SkipOctets \subseteq Nat

GTP_BASE_HEADER_LEN == 8
GTP_EXTENDED_HEADER_LEN == 12
PDCP_HEADER_LEN == 2
SDAP_HEADER_LEN == 1
IPV4_HEADER_LEN == 20
InnerHeaders == PDCP_HEADER_LEN + SDAP_HEADER_LEN + IPV4_HEADER_LEN

VARIABLES
  at,          \* what is looked at next, or how the packet ended
  bytes_read,  \* octets of this packet
  offset,
  furthest,    \* one more than the largest index looked at
  header,      \* "base" or "extended"
  skipped      \* lengths of the extension headers skipped

uplinkVars == <<at, bytes_read, offset, furthest, header, skipped>>

Larger(a, b) == IF a >= b THEN a ELSE b

UplinkInit ==
  /\ at = "receive" /\ bytes_read = 0 /\ offset = 0 /\ furthest = 0
  /\ header = "base" /\ skipped = <<>>

\* Mutant: the PDCP and SDAP headers are left out of the minimum.
RecvFromShort ==
  /\ at = "receive"
  /\ bytes_read' \in PacketLengths
  /\ IF bytes_read' < GTP_BASE_HEADER_LEN + IPV4_HEADER_LEN
     THEN at' = "dropped" /\ UNCHANGED furthest
     ELSE at' = "type" /\ furthest' = 2
  /\ UNCHANGED <<offset, header, skipped>>
\* recv_from and the first length check; then octet 1 and octet 0.
RecvFrom ==
  /\ at = "receive"
  /\ bytes_read' \in PacketLengths
  /\ IF bytes_read' < GTP_BASE_HEADER_LEN + InnerHeaders
     THEN at' = "dropped" /\ UNCHANGED furthest
     ELSE at' = "type" /\ furthest' = 2
  /\ UNCHANGED <<offset, header, skipped>>

MessageType ==
  /\ at = "type"
  /\ \/ at' = "dropped" /\ UNCHANGED <<offset, header>>         \* not a G-PDU
     \/ /\ at' = "pdcp" /\ offset' = GTP_BASE_HEADER_LEN        \* 0x30
        /\ UNCHANGED header
     \/ /\ at' = "extension" /\ offset' = GTP_EXTENDED_HEADER_LEN
        /\ header' = "extended"
  /\ UNCHANGED <<bytes_read, furthest, skipped>>

\* Mutant: the offset is not compared with the length of the packet.
SkipExtensionUnchecked ==
  /\ at = "extension"
  /\ \/ at' = "pdcp" /\ furthest' = Larger(furthest, offset) /\ UNCHANGED <<offset, skipped>>
     \/ \E octet \in SkipOctets :
           /\ furthest' = Larger(furthest, offset + 1)
           /\ offset' = offset + octet * 4
           /\ skipped' = Append(skipped, octet)
           /\ at' = IF octet = 0 THEN "spinning" ELSE "extension"
  /\ UNCHANGED <<bytes_read, header>>
\* One evaluation of the loop's condition and, if it holds, of its body.  A
\* length of 0 leaves offset where it was: the same octets again, for ever.
SkipExtension ==
  /\ at = "extension"
  /\ \/ /\ at' = "pdcp"                                         \* buf[offset - 1] = 0
        /\ furthest' = Larger(furthest, offset)
        /\ UNCHANGED <<offset, skipped>>
     \/ \E octet \in SkipOctets :
           /\ furthest' = Larger(furthest, offset + 1)
           /\ offset' = offset + octet * 4
           /\ skipped' = Append(skipped, octet)
           /\ at' = IF bytes_read < offset' + InnerHeaders THEN "dropped"
                    ELSE IF octet = 0 THEN "spinning" ELSE "extension"
  /\ UNCHANGED <<bytes_read, header>>

\* A D/C bit, or the IP version: look at the octet, go on or drop.
Look(next, skip) ==
  /\ furthest' = Larger(furthest, offset + 1)
  /\ \/ at' = "dropped" /\ UNCHANGED offset
     \/ at' = next /\ offset' = offset + skip
  /\ UNCHANGED <<bytes_read, header, skipped>>

PdcpHeader == at = "pdcp" /\ Look("sdap", 2)
SdapHeader == at = "sdap" /\ Look("version", 1)
IpVersion == at = "version" /\ Look("teid", 0)

\* Octets 4 to 7 against the forwarding table; write(&buf[offset..bytes_read]).
WriteInner ==
  /\ at = "teid"
  /\ at' \in {"dropped", "written"}
  /\ furthest' = Larger(furthest, 8)
  /\ UNCHANGED <<bytes_read, offset, header, skipped>>

UplinkNext ==
  RecvFrom \/ MessageType \/ SkipExtension \/ PdcpHeader \/ SdapHeader \/ IpVersion \/ WriteInner

UplinkSpec == UplinkInit /\ [][UplinkNext]_uplinkVars

-----------------------------------------------------------------------------
(* However many extension headers a packet has and however long each is,   *)
(* no octet beyond the packet is looked at: the decision to forward never  *)
(* rests on what an earlier packet left in the buffer, and no index is out *)
(* of range.                                                               *)
LooksInsidePacket == furthest <= bytes_read

(* What is written to the tun device starts right after the headers and is *)
(* never empty.  It holds a whole IPv4 header, except after a GTP header   *)
(* of twelve octets with no extension: the length is not checked again for *)
(* the four octets it is longer by, and sixteen octets may be all there is.*)
InnerPacketLength ==
  at = "written" =>
     bytes_read >= offset + (IF header = "extended" /\ skipped = <<>> THEN 16 ELSE IPV4_HEADER_LEN)
=============================================================================
