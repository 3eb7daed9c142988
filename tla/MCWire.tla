------------------------------- MODULE MCWire -------------------------------
(***************************************************************************)
(* Everything between a value and its octets, for TLC: the generated       *)
(* codecs, the F1AP procedure codes, the uplink packet headers and the     *)
(* mobile identity.  The four do not interact; a behaviour exercises one.  *)
(***************************************************************************)
EXTENDS PerCodec, F1apProcedures, UplinkHeader, MobileIdentity

F1ap == INSTANCE F1apTopPdu
IesAtoD == INSTANCE F1apIesAtoD
IesEtoL == INSTANCE F1apIesEtoL
IesMtoQ == INSTANCE F1apIesMtoQ
IesRtoS == INSTANCE F1apIesRtoS
IesTtoV == INSTANCE F1apIesTtoV
Msgs == INSTANCE F1apMessages
ServiceMsgs == INSTANCE F1apServiceMessages
Rrc == INSTANCE RrcMessages
RrcReports == INSTANCE RrcReportMessages
RrcAtoN == INSTANCE RrcIesAtoN
RrcPtoW == INSTANCE RrcIesPtoW
Sidelink == INSTANCE RrcSidelink
InMessages == INSTANCE RrcInnerOfMessages
InIes == INSTANCE RrcInnerOfIes

MCCodecs ==
  IesAtoD!Codecs \cup IesEtoL!Codecs \cup IesMtoQ!Codecs \cup IesRtoS!Codecs \cup IesTtoV!Codecs
    \cup Msgs!Codecs \cup ServiceMsgs!Codecs \cup F1ap!Codecs
    \cup Rrc!Codecs \cup RrcReports!Codecs \cup RrcAtoN!Codecs \cup RrcPtoW!Codecs
    \cup Sidelink!Codecs \cup InMessages!Codecs \cup InIes!Codecs

MCProcedures == F1ap!ProcedureTable
MCPduCodec == F1ap!F1apPdu
MCOutcomeCodecs ==
  [InitiatingMessage |-> F1ap!InitiatingMessage, SuccessfulOutcome |-> F1ap!SuccessfulOutcome,
   UnsuccessfulOutcome |-> F1ap!UnsuccessfulOutcome]
MCOtherProcs == {"ResetProcedure", "F1SetupProcedure"}

MCPacketLengths == {0, 30, 31, 34, 35, 38, 39, 43, 60}
MCSkipOctets == {0, 1, 2, 255}

Strings(digits, lengths) == UNION {[1..n -> digits] : n \in lengths}
MCCountryCodes == Strings({0, 9}, {3}) \cup {<<1, 2>>, <<1, 10, 3>>}
MCNetworkCodes == Strings({1, 9}, {1, 2, 3})
MCPlmnOctets == [1..3 -> {0, 25, 145, 153, 249}]
MCMsins == {<<1, 2, 3>>, <<0, 1, 2, 3, 4, 5, 6, 7>>, <<9, 8, 7, 6, 5, 4, 3, 2, 1>>,
            <<0, 0, 0, 0, 0, 0, 0, 0, 0, 1>>, <<1, 5, 1, 5, 1, 5, 1, 5, 1, 5>>}

CodecIdle ==
  /\ codec = <<>> /\ val = <<>> /\ phase = "idle" /\ pc = 1 /\ wire = <<>> /\ container = <<>>
  /\ pos = 1 /\ optionals = <<>> /\ left = 0 /\ got = {} /\ peer = Untouched
ProcIdle ==
  /\ running = <<>> /\ outstanding = <<>> /\ message = Nothing /\ stage = "idle"
  /\ meant = "" /\ index = 0 /\ taken = NotTaken
UplinkIdle ==
  /\ at = "idle" /\ bytes_read = 0 /\ offset = 0 /\ furthest = 0
  /\ header = "base" /\ skipped = <<>>
IdentityIdle ==
  /\ process = "idle" /\ mcc = <<>> /\ mnc = <<>> /\ plmn = <<>> /\ msin = <<>>
  /\ imsi = <<>> /\ verdict = ""

WireInit ==
  \/ CodecInit /\ ProcIdle /\ UplinkIdle /\ IdentityIdle
  \/ CodecIdle /\ ProcInit /\ UplinkIdle /\ IdentityIdle
  \/ CodecIdle /\ ProcIdle /\ UplinkInit /\ IdentityIdle
  \/ CodecIdle /\ ProcIdle /\ UplinkIdle /\ IdentityInit

WireNext ==
  \/ CodecNext /\ UNCHANGED <<procVars, uplinkVars, identityVars>>
  \/ ProcNext /\ UNCHANGED <<codecVars, uplinkVars, identityVars>>
  \/ UplinkNext /\ UNCHANGED <<codecVars, procVars, identityVars>>
  \/ IdentityNext /\ UNCHANGED <<codecVars, procVars, uplinkVars>>

WireSpec == WireInit /\ [][WireNext]_<<codecVars, procVars, uplinkVars, identityVars>>
=============================================================================
