------------------------- MODULE RrcInnerOfMessages -------------------------
(***************************************************************************)
(* The programs of the codecs of rrc/src/rrc.rs that a message of the CCCH *)
(* or the DCCH, in either direction, or SIB2 may hold: the types declared  *)
(* inside its messages.                                                    *)
(***************************************************************************)
EXTENDS PerLayout

FromC1_1 ==
  [C1_1 |-> Codec(
     <<ReadChoice(0, 3, FALSE, <<Alt(0, "RrcReject", T("RrcReject")),
       Alt(1, "RrcSetup", T("RrcSetup")), Alt(2, "Spare2", Null), Alt(3, "Spare1", Null)>>)>>,
     <<WriteChoice(0, 3, FALSE, <<Arm("RrcReject", 0, T("RrcReject")),
       Arm("RrcSetup", 1, T("RrcSetup")), Arm("Spare2", 2, Null), Arm("Spare1", 3, Null)>>)>>),
   C1_2 |-> Codec(
     <<ReadChoice(0, 15, FALSE, <<Alt(0, "RrcReconfiguration", T("RrcReconfiguration")),
       Alt(1, "RrcResume", T("RrcResume")), Alt(2, "RrcRelease", T("RrcRelease")),
       Alt(3, "RrcReestablishment", T("RrcReestablishment")),
       Alt(4, "SecurityModeCommand", T("SecurityModeCommand")),
       Alt(5, "DlInformationTransfer", T("DlInformationTransfer")),
       Alt(6, "UeCapabilityEnquiry", T("UeCapabilityEnquiry")),
       Alt(7, "CounterCheck", T("CounterCheck")),
       Alt(8, "MobilityFromNrCommand", T("MobilityFromNrCommand")),
       Alt(9, "DlDedicatedMessageSegmentR16", T("DlDedicatedMessageSegmentR16")),
       Alt(10, "UeInformationRequestR16", T("UeInformationRequestR16")),
       Alt(11, "DlInformationTransferMrdcR16", T("DlInformationTransferMrdcR16")),
       Alt(12, "LoggedMeasurementConfigurationR16", T("LoggedMeasurementConfigurationR16")),
       Alt(13, "Spare3", Null), Alt(14, "Spare2", Null), Alt(15, "Spare1", Null)>>)>>,
     <<WriteChoice(0, 15, FALSE, <<Arm("RrcReconfiguration", 0, T("RrcReconfiguration")),
       Arm("RrcResume", 1, T("RrcResume")), Arm("RrcRelease", 2, T("RrcRelease")),
       Arm("RrcReestablishment", 3, T("RrcReestablishment")),
       Arm("SecurityModeCommand", 4, T("SecurityModeCommand")),
       Arm("DlInformationTransfer", 5, T("DlInformationTransfer")),
       Arm("UeCapabilityEnquiry", 6, T("UeCapabilityEnquiry")),
       Arm("CounterCheck", 7, T("CounterCheck")),
       Arm("MobilityFromNrCommand", 8, T("MobilityFromNrCommand")),
       Arm("DlDedicatedMessageSegmentR16", 9, T("DlDedicatedMessageSegmentR16")),
       Arm("UeInformationRequestR16", 10, T("UeInformationRequestR16")),
       Arm("DlInformationTransferMrdcR16", 11, T("DlInformationTransferMrdcR16")),
       Arm("LoggedMeasurementConfigurationR16", 12, T("LoggedMeasurementConfigurationR16")),
       Arm("Spare3", 13, Null), Arm("Spare2", 14, Null), Arm("Spare1", 15, Null)>>)>>)]
FromC1_4 ==
  [C1_4 |-> Codec(
     <<ReadChoice(0, 3, FALSE, <<Alt(0, "RrcSetupRequest", T("RrcSetupRequest")),
       Alt(1, "RrcResumeRequest", T("RrcResumeRequest")),
       Alt(2, "RrcReestablishmentRequest", T("RrcReestablishmentRequest")),
       Alt(3, "RrcSystemInfoRequest", T("RrcSystemInfoRequest"))>>)>>,
     <<WriteChoice(0, 3, FALSE, <<Arm("RrcSetupRequest", 0, T("RrcSetupRequest")),
       Arm("RrcResumeRequest", 1, T("RrcResumeRequest")),
       Arm("RrcReestablishmentRequest", 2, T("RrcReestablishmentRequest")),
       Arm("RrcSystemInfoRequest", 3, T("RrcSystemInfoRequest"))>>)>>)]
FromC1_6 ==
  [C1_6 |-> Codec(
     <<ReadChoice(0, 15, FALSE, <<Alt(0, "MeasurementReport", T("MeasurementReport")),
       Alt(1, "RrcReconfigurationComplete", T("RrcReconfigurationComplete")),
       Alt(2, "RrcSetupComplete", T("RrcSetupComplete")),
       Alt(3, "RrcReestablishmentComplete", T("RrcReestablishmentComplete")),
       Alt(4, "RrcResumeComplete", T("RrcResumeComplete")),
       Alt(5, "SecurityModeComplete", T("SecurityModeComplete")),
       Alt(6, "SecurityModeFailure", T("SecurityModeFailure")),
       Alt(7, "UlInformationTransfer", T("UlInformationTransfer")),
       Alt(8, "LocationMeasurementIndication", T("LocationMeasurementIndication")),
       Alt(9, "UeCapabilityInformation", T("UeCapabilityInformation")),
       Alt(10, "CounterCheckResponse", T("CounterCheckResponse")),
       Alt(11, "UeAssistanceInformation", T("UeAssistanceInformation")),
       Alt(12, "FailureInformation", T("FailureInformation")),
       Alt(13, "UlInformationTransferMrdc", T("UlInformationTransferMrdc")),
       Alt(14, "ScgFailureInformation", T("ScgFailureInformation")),
       Alt(15, "ScgFailureInformationEutra", T("ScgFailureInformationEutra"))>>)>>,
     <<WriteChoice(0, 15, FALSE, <<Arm("MeasurementReport", 0, T("MeasurementReport")),
       Arm("RrcReconfigurationComplete", 1, T("RrcReconfigurationComplete")),
       Arm("RrcSetupComplete", 2, T("RrcSetupComplete")),
       Arm("RrcReestablishmentComplete", 3, T("RrcReestablishmentComplete")),
       Arm("RrcResumeComplete", 4, T("RrcResumeComplete")),
       Arm("SecurityModeComplete", 5, T("SecurityModeComplete")),
       Arm("SecurityModeFailure", 6, T("SecurityModeFailure")),
       Arm("UlInformationTransfer", 7, T("UlInformationTransfer")),
       Arm("LocationMeasurementIndication", 8, T("LocationMeasurementIndication")),
       Arm("UeCapabilityInformation", 9, T("UeCapabilityInformation")),
       Arm("CounterCheckResponse", 10, T("CounterCheckResponse")),
       Arm("UeAssistanceInformation", 11, T("UeAssistanceInformation")),
       Arm("FailureInformation", 12, T("FailureInformation")),
       Arm("UlInformationTransferMrdc", 13, T("UlInformationTransferMrdc")),
       Arm("ScgFailureInformation", 14, T("ScgFailureInformation")),
       Arm("ScgFailureInformationEutra", 15, T("ScgFailureInformationEutra"))>>)>>)]
FromC2 ==
  [C2 |-> Codec(
     <<ReadChoice(0, 15, FALSE, <<Alt(0, "UlDedicatedMessageSegmentR16", T("UlDedicatedMessageSegmentR16")),
       Alt(1, "DedicatedSibRequestR16", T("DedicatedSibRequestR16")),
       Alt(2, "McgFailureInformationR16", T("McgFailureInformationR16")),
       Alt(3, "UeInformationResponseR16", T("UeInformationResponseR16")),
       Alt(4, "SidelinkUeInformationNrR16", T("SidelinkUeInformationNrR16")),
       Alt(5, "UlInformationTransferIratR16", T("UlInformationTransferIratR16")),
       Alt(6, "IabOtherInformationR16", T("IabOtherInformationR16")), Alt(7, "Spare9", Null),
       Alt(8, "Spare8", Null), Alt(9, "Spare7", Null), Alt(10, "Spare6", Null),
       Alt(11, "Spare5", Null), Alt(12, "Spare4", Null), Alt(13, "Spare3", Null),
       Alt(14, "Spare2", Null), Alt(15, "Spare1", Null)>>)>>,
     <<WriteChoice(0, 15, FALSE, <<Arm("UlDedicatedMessageSegmentR16", 0, T("UlDedicatedMessageSegmentR16")),
       Arm("DedicatedSibRequestR16", 1, T("DedicatedSibRequestR16")),
       Arm("McgFailureInformationR16", 2, T("McgFailureInformationR16")),
       Arm("UeInformationResponseR16", 3, T("UeInformationResponseR16")),
       Arm("SidelinkUeInformationNrR16", 4, T("SidelinkUeInformationNrR16")),
       Arm("UlInformationTransferIratR16", 5, T("UlInformationTransferIratR16")),
       Arm("IabOtherInformationR16", 6, T("IabOtherInformationR16")), Arm("Spare9", 7, Null),
       Arm("Spare8", 8, Null), Arm("Spare7", 9, Null), Arm("Spare6", 10, Null),
       Arm("Spare5", 11, Null), Arm("Spare4", 12, Null), Arm("Spare3", 13, Null),
       Arm("Spare2", 14, Null), Arm("Spare1", 15, Null)>>)>>)]
FromMessageClassExtension ==
  [MessageClassExtension |-> Codec(
     <<ReadChoice(0, 1, FALSE, <<Alt(0, "C2", T("C2"))>>)>>,
     <<WriteChoice(0, 1, FALSE, <<Arm("C2", 0, T("C2"))>>)>>),
   CriticalExtensions |-> Codec(
     <<ReadChoice(0, 1, FALSE, <<Alt(0, "CounterCheck", T("CounterCheckIEs"))>>)>>,
     <<WriteChoice(0, 1, FALSE, <<Arm("CounterCheck", 0, T("CounterCheckIEs"))>>)>>),
   CriticalExtensions1 |-> Codec(
     <<ReadChoice(0, 1, FALSE, <<Alt(0, "CounterCheckResponse", T("CounterCheckResponseIEs"))>>)>>,
     <<WriteChoice(0, 1, FALSE, <<Arm("CounterCheckResponse", 0, T("CounterCheckResponseIEs"))>>)>>)]
FromCriticalExtensions2 ==
  [CriticalExtensions2 |-> Codec(
     <<ReadChoice(0, 1, FALSE, <<Alt(0, "DedicatedSibRequestR16", T("DedicatedSibRequestR16IEs"))>>)>>,
     <<WriteChoice(0, 1, FALSE, <<Arm("DedicatedSibRequestR16", 0, T("DedicatedSibRequestR16IEs"))>>)>>),
   OnDemandSibRequestListR16 |-> Codec(
     <<ReadHeader(FALSE, 2),
       GetIf(1, "requested_sib_list_r_16", NonEmpty(1, 8, T("SibReqInfoR16"))),
       GetIf(2, "requested_pos_sib_list_r_16", NonEmpty(1, 32, T("PosSibReqInfoR16")))>>,
     <<WriteHeader(FALSE, <<"requested_sib_list_r_16", "requested_pos_sib_list_r_16">>),
       PutIf("requested_sib_list_r_16", NonEmpty(1, 8, T("SibReqInfoR16"))),
       PutIf("requested_pos_sib_list_r_16", NonEmpty(1, 32, T("PosSibReqInfoR16")))>>),
   PosSibTypeR16_1 |-> Codec(<<ReadEnum(0, 36, TRUE, 37)>>, <<WriteEnum(0, 36, TRUE)>>)]
FromCriticalExtensions3 ==
  [CriticalExtensions3 |-> Codec(
     <<ReadChoice(0, 1, FALSE, <<Alt(0, "DlDedicatedMessageSegmentR16", T("DlDedicatedMessageSegmentR16IEs"))>>)>>,
     <<WriteChoice(0, 1, FALSE, <<Arm("DlDedicatedMessageSegmentR16", 0, T("DlDedicatedMessageSegmentR16IEs"))>>)>>),
   RrcMessageSegmentTypeR16 |-> Codec(<<ReadEnum(0, 1, FALSE, 2)>>, <<WriteEnum(0, 1, FALSE)>>),
   CriticalExtensions4 |-> Codec(
     <<ReadChoice(0, 1, FALSE, <<Alt(0, "DlInformationTransfer", T("DlInformationTransferIEs"))>>)>>,
     <<WriteChoice(0, 1, FALSE, <<Arm("DlInformationTransfer", 0, T("DlInformationTransferIEs"))>>)>>),
   C1_7 |-> Codec(
     <<ReadChoice(0, 3, FALSE, <<Alt(0, "DlInformationTransferMrdcR16", T("DlInformationTransferMrdcR16IEs")),
       Alt(1, "Spare3", Null), Alt(2, "Spare2", Null), Alt(3, "Spare1", Null)>>)>>,
     <<WriteChoice(0, 3, FALSE, <<Arm("DlInformationTransferMrdcR16", 0, T("DlInformationTransferMrdcR16IEs")),
       Arm("Spare3", 1, Null), Arm("Spare2", 2, Null), Arm("Spare1", 3, Null)>>)>>)]
FromCriticalExtensions5 ==
  [CriticalExtensions5 |-> Codec(
     <<ReadChoice(0, 1, FALSE, <<Alt(0, "C1", T("C1_7"))>>)>>,
     <<WriteChoice(0, 1, FALSE, <<Arm("C1", 0, T("C1_7"))>>)>>),
   CriticalExtensions6 |-> Codec(
     <<ReadChoice(0, 1, FALSE, <<Alt(0, "FailureInformation", T("FailureInformationIEs"))>>)>>,
     <<WriteChoice(0, 1, FALSE, <<Arm("FailureInformation", 0, T("FailureInformationIEs"))>>)>>),
   FailureType |-> Codec(<<ReadEnum(0, 3, FALSE, 4)>>, <<WriteEnum(0, 3, FALSE)>>),
   FailureTypeR16 |-> Codec(<<ReadEnum(0, 3, FALSE, 4)>>, <<WriteEnum(0, 3, FALSE)>>)]
FromCriticalExtensions7 ==
  [CriticalExtensions7 |-> Codec(
     <<ReadChoice(0, 1, FALSE, <<Alt(0, "IabOtherInformationR16", T("IabOtherInformationR16IEs"))>>)>>,
     <<WriteChoice(0, 1, FALSE, <<Arm("IabOtherInformationR16", 0, T("IabOtherInformationR16IEs"))>>)>>),
   IabIPv6AddressReqR16 |-> Codec(
     <<ReadChoice(0, 1, TRUE, <<Alt(0, "IabIPv6AddressNumReqR16", T("IabIpAddressNumReqR16")),
       Alt(1, "IabIPv6AddressPrefixReqR16", T("IabIpAddressPrefixReqR16"))>>)>>,
     <<WriteChoice(0, 1, TRUE, <<Arm("IabIPv6AddressNumReqR16", 0, T("IabIpAddressNumReqR16")),
       Arm("IabIPv6AddressPrefixReqR16", 1, T("IabIpAddressPrefixReqR16"))>>)>>),
   IabIpRequestR16 |-> Codec(
     <<ReadHeader(FALSE, 2),
       GetIf(1, "iab_i_pv_4_address_num_req_r_16", T("IabIpAddressNumReqR16")),
       GetIf(2, "iab_i_pv_6_address_req_r_16", T("IabIPv6AddressReqR16"))>>,
     <<WriteHeader(FALSE, <<"iab_i_pv_4_address_num_req_r_16", "iab_i_pv_6_address_req_r_16">>),
       PutIf("iab_i_pv_4_address_num_req_r_16", T("IabIpAddressNumReqR16")),
       PutIf("iab_i_pv_6_address_req_r_16", T("IabIPv6AddressReqR16"))>>)]
FromIabIPv6ReportR16 ==
  [IabIPv6ReportR16 |-> Codec(
     <<ReadChoice(0, 1, TRUE, <<Alt(0, "IabIPv6AddressReportR16", T("IabIpAddressAndTrafficR16")),
       Alt(1, "IabIPv6PrefixReportR16", T("IabIpPrefixAndTrafficR16"))>>)>>,
     <<WriteChoice(0, 1, TRUE, <<Arm("IabIPv6AddressReportR16", 0, T("IabIpAddressAndTrafficR16")),
       Arm("IabIPv6PrefixReportR16", 1, T("IabIpPrefixAndTrafficR16"))>>)>>),
   IabIpReportR16 |-> Codec(
     <<ReadHeader(FALSE, 2),
       GetIf(1, "iab_i_pv_4_address_report_r_16", T("IabIpAddressAndTrafficR16")),
       GetIf(2, "iab_i_pv_6_report_r_16", T("IabIPv6ReportR16"))>>,
     <<WriteHeader(FALSE, <<"iab_i_pv_4_address_report_r_16", "iab_i_pv_6_report_r_16">>),
       PutIf("iab_i_pv_4_address_report_r_16", T("IabIpAddressAndTrafficR16")),
       PutIf("iab_i_pv_6_report_r_16", T("IabIPv6ReportR16"))>>),
   IpInfoTypeR16 |-> Codec(
     <<ReadChoice(0, 1, TRUE, <<Alt(0, "IabIpRequestR16", T("IabIpRequestR16")),
       Alt(1, "IabIpReportR16", T("IabIpReportR16"))>>)>>,
     <<WriteChoice(0, 1, TRUE, <<Arm("IabIpRequestR16", 0, T("IabIpRequestR16")),
       Arm("IabIpReportR16", 1, T("IabIpReportR16"))>>)>>)]
FromAllTrafficPrefixReqR16 ==
  [AllTrafficPrefixReqR16 |-> Codec(<<ReadEnum(0, 0, FALSE, 1)>>, <<WriteEnum(0, 0, FALSE)>>),
   F1CTrafficPrefixReqR16 |-> Codec(<<ReadEnum(0, 0, FALSE, 1)>>, <<WriteEnum(0, 0, FALSE)>>),
   F1UTrafficPrefixReqR16 |-> Codec(<<ReadEnum(0, 0, FALSE, 1)>>, <<WriteEnum(0, 0, FALSE)>>),
   NonF1TrafficPrefixReqR16 |-> Codec(<<ReadEnum(0, 0, FALSE, 1)>>, <<WriteEnum(0, 0, FALSE)>>)]
FromCriticalExtensions8 ==
  [CriticalExtensions8 |-> Codec(
     <<ReadChoice(0, 1, FALSE, <<Alt(0, "LocationMeasurementIndication", T("LocationMeasurementIndicationIEs"))>>)>>,
     <<WriteChoice(0, 1, FALSE, <<Arm("LocationMeasurementIndication", 0, T("LocationMeasurementIndicationIEs"))>>)>>),
   CriticalExtensions9 |-> Codec(
     <<ReadChoice(0, 1, FALSE, <<Alt(0, "LoggedMeasurementConfigurationR16", T("LoggedMeasurementConfigurationR16IEs"))>>)>>,
     <<WriteChoice(0, 1, FALSE, <<Arm("LoggedMeasurementConfigurationR16", 0, T("LoggedMeasurementConfigurationR16IEs"))>>)>>),
   ReportType |-> Codec(
     <<ReadChoice(0, 1, TRUE, <<Alt(0, "Periodical", T("LoggedPeriodicalReportConfigR16")),
       Alt(1, "EventTriggered", T("LoggedEventTriggerConfigR16"))>>)>>,
     <<WriteChoice(0, 1, TRUE, <<Arm("Periodical", 0, T("LoggedPeriodicalReportConfigR16")),
       Arm("EventTriggered", 1, T("LoggedEventTriggerConfigR16"))>>)>>)]
FromEventL1 ==
  [EventL1 |-> Codec(
     <<ReadHeader(FALSE, 0), Get("l1_threshold", T("MeasTriggerQuantity")),
       Get("hysteresis", T("Hysteresis")), Get("time_to_trigger", T("TimeToTrigger"))>>,
     <<WriteHeader(FALSE, <<>>), Put("l1_threshold", T("MeasTriggerQuantity")),
       Put("hysteresis", T("Hysteresis")), Put("time_to_trigger", T("TimeToTrigger"))>>),
   CriticalExtensions10 |-> Codec(
     <<ReadChoice(0, 1, FALSE, <<Alt(0, "McgFailureInformationR16", T("McgFailureInformationR16IEs"))>>)>>,
     <<WriteChoice(0, 1, FALSE, <<Arm("McgFailureInformationR16", 0, T("McgFailureInformationR16IEs"))>>)>>),
   FailureTypeR16_1 |-> Codec(<<ReadEnum(0, 7, FALSE, 8)>>, <<WriteEnum(0, 7, FALSE)>>)]
FromCriticalExtensions11 ==
  [CriticalExtensions11 |-> Codec(
     <<ReadChoice(0, 1, FALSE, <<Alt(0, "MeasurementReport", T("MeasurementReportIEs"))>>)>>,
     <<WriteChoice(0, 1, FALSE, <<Arm("MeasurementReport", 0, T("MeasurementReportIEs"))>>)>>)]
FromCriticalExtensions12 ==
  [CriticalExtensions12 |-> Codec(
     <<ReadChoice(0, 1, FALSE, <<Alt(0, "MobilityFromNrCommand", T("MobilityFromNrCommandIEs"))>>)>>,
     <<WriteChoice(0, 1, FALSE, <<Arm("MobilityFromNrCommand", 0, T("MobilityFromNrCommandIEs"))>>)>>),
   TargetRatType |-> Codec(<<ReadEnum(0, 3, TRUE, 4)>>, <<WriteEnum(0, 3, TRUE)>>),
   VoiceFallbackIndicationR16 |-> Codec(<<ReadEnum(0, 0, FALSE, 1)>>, <<WriteEnum(0, 0, FALSE)>>)]
FromCriticalExtensions13 ==
  [CriticalExtensions13 |-> Codec(
     <<ReadChoice(0, 1, FALSE, <<Alt(0, "RrcReestablishment", T("RrcReestablishmentIEs"))>>)>>,
     <<WriteChoice(0, 1, FALSE, <<Arm("RrcReestablishment", 0, T("RrcReestablishmentIEs"))>>)>>),
   CriticalExtensions14 |-> Codec(
     <<ReadChoice(0, 1, FALSE, <<Alt(0, "RrcReestablishmentComplete", T("RrcReestablishmentCompleteIEs"))>>)>>,
     <<WriteChoice(0, 1, FALSE, <<Arm("RrcReestablishmentComplete", 0, T("RrcReestablishmentCompleteIEs"))>>)>>),
   CriticalExtensions15 |-> Codec(
     <<ReadChoice(0, 1, FALSE, <<Alt(0, "RrcReconfiguration", T("RrcReconfigurationIEs"))>>)>>,
     <<WriteChoice(0, 1, FALSE, <<Arm("RrcReconfiguration", 0, T("RrcReconfigurationIEs"))>>)>>)]
FromFullConfig ==
  [FullConfig |-> Codec(<<ReadEnum(0, 0, FALSE, 1)>>, <<WriteEnum(0, 0, FALSE)>>),
   DapsSourceReleaseR16 |-> Codec(<<ReadEnum(0, 0, FALSE, 1)>>, <<WriteEnum(0, 0, FALSE)>>),
   MrdcReleaseAndAdd |-> Codec(<<ReadEnum(0, 0, FALSE, 1)>>, <<WriteEnum(0, 0, FALSE)>>),
   MrdcSecondaryCellGroup |-> Codec(
     <<ReadChoice(0, 1, FALSE, <<Alt(0, "NrScg", OctetString), Alt(1, "EutraScg", OctetString)>>)>>,
     <<WriteChoice(0, 1, FALSE, <<Arm("NrScg", 0, OctetString), Arm("EutraScg", 1, OctetString)>>)>>)]
FromFlowControlFeedbackTypeR16 ==
  [FlowControlFeedbackTypeR16 |-> Codec(<<ReadEnum(0, 2, FALSE, 3)>>, <<WriteEnum(0, 2, FALSE)>>),
   OnDemandSibRequestProhibitTimerR16 |-> Codec(
     <<ReadEnum(0, 7, FALSE, 8)>>,
     <<WriteEnum(0, 7, FALSE)>>),
   CriticalExtensions16 |-> Codec(
     <<ReadChoice(0, 1, FALSE, <<Alt(0, "RrcReconfigurationComplete", T("RrcReconfigurationCompleteIEs"))>>)>>,
     <<WriteChoice(0, 1, FALSE, <<Arm("RrcReconfigurationComplete", 0, T("RrcReconfigurationCompleteIEs"))>>)>>),
   ScgResponse |-> Codec(
     <<ReadChoice(0, 1, FALSE, <<Alt(0, "NrScgResponse", OctetString),
       Alt(1, "EutraScgResponse", OctetString)>>)>>,
     <<WriteChoice(0, 1, FALSE, <<Arm("NrScgResponse", 0, OctetString),
       Arm("EutraScgResponse", 1, OctetString)>>)>>)]
FromCriticalExtensions17 ==
  [CriticalExtensions17 |-> Codec(
     <<ReadChoice(0, 1, FALSE, <<Alt(0, "RrcReject", T("RrcRejectIEs"))>>)>>,
     <<WriteChoice(0, 1, FALSE, <<Arm("RrcReject", 0, T("RrcRejectIEs"))>>)>>),
   CriticalExtensions18 |-> Codec(
     <<ReadChoice(0, 1, FALSE, <<Alt(0, "RrcRelease", T("RrcReleaseIEs"))>>)>>,
     <<WriteChoice(0, 1, FALSE, <<Arm("RrcRelease", 0, T("RrcReleaseIEs"))>>)>>),
   DeprioritisationType |-> Codec(<<ReadEnum(0, 1, FALSE, 2)>>, <<WriteEnum(0, 1, FALSE)>>),
   DeprioritisationTimer |-> Codec(<<ReadEnum(0, 3, FALSE, 4)>>, <<WriteEnum(0, 3, FALSE)>>)]
FromDeprioritisationReq ==
  [DeprioritisationReq |-> Codec(
     <<ReadHeader(FALSE, 0), Get("deprioritisation_type", T("DeprioritisationType")),
       Get("deprioritisation_timer", T("DeprioritisationTimer"))>>,
     <<WriteHeader(FALSE, <<>>), Put("deprioritisation_type", T("DeprioritisationType")),
       Put("deprioritisation_timer", T("DeprioritisationTimer"))>>),
   VoiceFallbackIndicationR16_1 |-> Codec(
     <<ReadEnum(0, 0, FALSE, 1)>>,
     <<WriteEnum(0, 0, FALSE)>>),
   MpsPriorityIndicationR16 |-> Codec(<<ReadEnum(0, 0, FALSE, 1)>>, <<WriteEnum(0, 0, FALSE)>>),
   CnType |-> Codec(<<ReadEnum(0, 1, FALSE, 2)>>, <<WriteEnum(0, 1, FALSE)>>)]
FromT320 ==
  [T320 |-> Codec(<<ReadEnum(0, 7, FALSE, 8)>>, <<WriteEnum(0, 7, FALSE)>>),
   CriticalExtensions19 |-> Codec(
     <<ReadChoice(0, 1, FALSE, <<Alt(0, "RrcResume", T("RrcResumeIEs"))>>)>>,
     <<WriteChoice(0, 1, FALSE, <<Arm("RrcResume", 0, T("RrcResumeIEs"))>>)>>),
   FullConfig1 |-> Codec(<<ReadEnum(0, 0, FALSE, 1)>>, <<WriteEnum(0, 0, FALSE)>>),
   IdleModeMeasurementReqR16 |-> Codec(<<ReadEnum(0, 0, FALSE, 1)>>, <<WriteEnum(0, 0, FALSE)>>)]
FromRestoreMcgSCellsR16 ==
  [RestoreMcgSCellsR16 |-> Codec(<<ReadEnum(0, 0, FALSE, 1)>>, <<WriteEnum(0, 0, FALSE)>>),
   RestoreScgR16 |-> Codec(<<ReadEnum(0, 0, FALSE, 1)>>, <<WriteEnum(0, 0, FALSE)>>),
   MrdcSecondaryCellGroupR16 |-> Codec(
     <<ReadChoice(0, 1, FALSE, <<Alt(0, "NrScgR16", OctetString),
       Alt(1, "EutraScgR16", OctetString)>>)>>,
     <<WriteChoice(0, 1, FALSE, <<Arm("NrScgR16", 0, OctetString),
       Arm("EutraScgR16", 1, OctetString)>>)>>),
   CriticalExtensions20 |-> Codec(
     <<ReadChoice(0, 1, FALSE, <<Alt(0, "RrcResumeComplete", T("RrcResumeCompleteIEs"))>>)>>,
     <<WriteChoice(0, 1, FALSE, <<Arm("RrcResumeComplete", 0, T("RrcResumeCompleteIEs"))>>)>>)]
FromIdleMeasAvailableR16 ==
  [IdleMeasAvailableR16 |-> Codec(<<ReadEnum(0, 0, FALSE, 1)>>, <<WriteEnum(0, 0, FALSE)>>),
   ScgResponseR16 |-> Codec(
     <<ReadChoice(0, 1, FALSE, <<Alt(0, "NrScgResponse", OctetString),
       Alt(1, "EutraScgResponse", OctetString)>>)>>,
     <<WriteChoice(0, 1, FALSE, <<Arm("NrScgResponse", 0, OctetString),
       Arm("EutraScgResponse", 1, OctetString)>>)>>),
   MobilityHistoryAvailR16 |-> Codec(<<ReadEnum(0, 0, FALSE, 1)>>, <<WriteEnum(0, 0, FALSE)>>),
   MobilityStateR16 |-> Codec(<<ReadEnum(0, 3, FALSE, 4)>>, <<WriteEnum(0, 3, FALSE)>>)]
FromCriticalExtensions21 ==
  [CriticalExtensions21 |-> Codec(
     <<ReadChoice(0, 1, FALSE, <<Alt(0, "RrcSetup", T("RrcSetupIEs"))>>)>>,
     <<WriteChoice(0, 1, FALSE, <<Arm("RrcSetup", 0, T("RrcSetupIEs"))>>)>>),
   CriticalExtensions22 |-> Codec(
     <<ReadChoice(0, 1, FALSE, <<Alt(0, "RrcSetupComplete", T("RrcSetupCompleteIEs"))>>)>>,
     <<WriteChoice(0, 1, FALSE, <<Arm("RrcSetupComplete", 0, T("RrcSetupCompleteIEs"))>>)>>),
   GuamiType |-> Codec(<<ReadEnum(0, 1, FALSE, 2)>>, <<WriteEnum(0, 1, FALSE)>>),
   Ng5gSTmsiValue |-> Codec(
     <<ReadChoice(0, 1, FALSE, <<Alt(0, "Ng5gSTmsi", T("Ng5gSTmsi")),
       Alt(1, "Ng5gSTmsiPart2", Bits(9, 9, FALSE))>>)>>,
     <<WriteChoice(0, 1, FALSE, <<Arm("Ng5gSTmsi", 0, T("Ng5gSTmsi")),
       Arm("Ng5gSTmsiPart2", 1, Bits(9, 9, FALSE))>>)>>)]
FromIabNodeIndicationR16 ==
  [IabNodeIndicationR16 |-> Codec(<<ReadEnum(0, 0, FALSE, 1)>>, <<WriteEnum(0, 0, FALSE)>>),
   IdleMeasAvailableR16_1 |-> Codec(<<ReadEnum(0, 0, FALSE, 1)>>, <<WriteEnum(0, 0, FALSE)>>),
   MobilityHistoryAvailR16_1 |-> Codec(<<ReadEnum(0, 0, FALSE, 1)>>, <<WriteEnum(0, 0, FALSE)>>),
   MobilityStateR16_1 |-> Codec(<<ReadEnum(0, 3, FALSE, 4)>>, <<WriteEnum(0, 3, FALSE)>>)]
FromCriticalExtensionsFutureR16 ==
  [CriticalExtensionsFutureR16 |-> Codec(
     <<ReadChoice(0, 1, FALSE, <<Alt(0, "RrcPosSystemInfoRequestR16", T("RrcPosSystemInfoRequestR16IEs"))>>)>>,
     <<WriteChoice(0, 1, FALSE, <<Arm("RrcPosSystemInfoRequestR16", 0, T("RrcPosSystemInfoRequestR16IEs"))>>)>>),
   CriticalExtensions23 |-> Codec(
     <<ReadChoice(0, 1, FALSE, <<Alt(0, "RrcSystemInfoRequest", T("RrcSystemInfoRequestIEs")),
       Alt(1, "CriticalExtensionsFutureR16", T("CriticalExtensionsFutureR16"))>>)>>,
     <<WriteChoice(0, 1, FALSE, <<Arm("RrcSystemInfoRequest", 0, T("RrcSystemInfoRequestIEs")),
       Arm("CriticalExtensionsFutureR16", 1, T("CriticalExtensionsFutureR16"))>>)>>),
   CriticalExtensions24 |-> Codec(
     <<ReadChoice(0, 1, FALSE, <<Alt(0, "ScgFailureInformation", T("ScgFailureInformationIEs"))>>)>>,
     <<WriteChoice(0, 1, FALSE, <<Arm("ScgFailureInformation", 0, T("ScgFailureInformationIEs"))>>)>>)]
FromFailureType1 ==
  [FailureType1 |-> Codec(<<ReadEnum(0, 7, FALSE, 8)>>, <<WriteEnum(0, 7, FALSE)>>),
   CriticalExtensions25 |-> Codec(
     <<ReadChoice(0, 1, FALSE, <<Alt(0, "ScgFailureInformationEutra", T("ScgFailureInformationEutraIEs"))>>)>>,
     <<WriteChoice(0, 1, FALSE, <<Arm("ScgFailureInformationEutra", 0, T("ScgFailureInformationEutraIEs"))>>)>>),
   FailureType2 |-> Codec(<<ReadEnum(0, 7, FALSE, 8)>>, <<WriteEnum(0, 7, FALSE)>>),
   CriticalExtensions26 |-> Codec(
     <<ReadChoice(0, 1, FALSE, <<Alt(0, "SecurityModeCommand", T("SecurityModeCommandIEs"))>>)>>,
     <<WriteChoice(0, 1, FALSE, <<Arm("SecurityModeCommand", 0, T("SecurityModeCommandIEs"))>>)>>)]
FromCriticalExtensions27 ==
  [CriticalExtensions27 |-> Codec(
     <<ReadChoice(0, 1, FALSE, <<Alt(0, "SecurityModeComplete", T("SecurityModeCompleteIEs"))>>)>>,
     <<WriteChoice(0, 1, FALSE, <<Arm("SecurityModeComplete", 0, T("SecurityModeCompleteIEs"))>>)>>),
   CriticalExtensions28 |-> Codec(
     <<ReadChoice(0, 1, FALSE, <<Alt(0, "SecurityModeFailure", T("SecurityModeFailureIEs"))>>)>>,
     <<WriteChoice(0, 1, FALSE, <<Arm("SecurityModeFailure", 0, T("SecurityModeFailureIEs"))>>)>>)]
FromCriticalExtensions29 ==
  [CriticalExtensions29 |-> Codec(
     <<ReadChoice(0, 1, FALSE, <<Alt(0, "SidelinkUeInformationNrR16", T("SidelinkUeInformationNrR16IEs"))>>)>>,
     <<WriteChoice(0, 1, FALSE, <<Arm("SidelinkUeInformationNrR16", 0, T("SidelinkUeInformationNrR16IEs"))>>)>>),
   SlCastTypeR16 |-> Codec(<<ReadEnum(0, 3, FALSE, 4)>>, <<WriteEnum(0, 3, FALSE)>>),
   SlModeR16 |-> Codec(
     <<ReadChoice(0, 1, FALSE, <<Alt(0, "SlAmModeR16", Null), Alt(1, "SlUmModeR16", Null)>>)>>,
     <<WriteChoice(0, 1, FALSE, <<Arm("SlAmModeR16", 0, Null), Arm("SlUmModeR16", 1, Null)>>)>>),
   SlFailureR16_1 |-> Codec(<<ReadEnum(0, 7, FALSE, 8)>>, <<WriteEnum(0, 7, FALSE)>>)]
FromCriticalExtensions31 ==
  [CriticalExtensions31 |-> Codec(
     <<ReadChoice(0, 1, FALSE, <<Alt(0, "UeAssistanceInformation", T("UeAssistanceInformationIEs"))>>)>>,
     <<WriteChoice(0, 1, FALSE, <<Arm("UeAssistanceInformation", 0, T("UeAssistanceInformationIEs"))>>)>>),
   Type1 |-> Codec(<<ReadEnum(0, 16, FALSE, 17)>>, <<WriteEnum(0, 16, FALSE)>>),
   ReducedMaxMimoLayersFr1 |-> Codec(
     <<ReadHeader(FALSE, 0), Get("reduced_mimo_layers_fr1_dl", T("MimoLayersDl")),
       Get("reduced_mimo_layers_fr1_ul", T("MimoLayersUl"))>>,
     <<WriteHeader(FALSE, <<>>), Put("reduced_mimo_layers_fr1_dl", T("MimoLayersDl")),
       Put("reduced_mimo_layers_fr1_ul", T("MimoLayersUl"))>>)]
FromReducedMaxMimoLayersFr2 ==
  [ReducedMaxMimoLayersFr2 |-> Codec(
     <<ReadHeader(FALSE, 0), Get("reduced_mimo_layers_fr2_dl", T("MimoLayersDl")),
       Get("reduced_mimo_layers_fr2_ul", T("MimoLayersUl"))>>,
     <<WriteHeader(FALSE, <<>>), Put("reduced_mimo_layers_fr2_dl", T("MimoLayersDl")),
       Put("reduced_mimo_layers_fr2_ul", T("MimoLayersUl"))>>),
   InterferenceDirectionR16 |-> Codec(<<ReadEnum(0, 3, FALSE, 4)>>, <<WriteEnum(0, 3, FALSE)>>),
   GpsR16 |-> Codec(<<ReadEnum(0, 0, FALSE, 1)>>, <<WriteEnum(0, 0, FALSE)>>),
   GlonassR16 |-> Codec(<<ReadEnum(0, 0, FALSE, 1)>>, <<WriteEnum(0, 0, FALSE)>>)]
FromBdsR16 ==
  [BdsR16 |-> Codec(<<ReadEnum(0, 0, FALSE, 1)>>, <<WriteEnum(0, 0, FALSE)>>),
   GalileoR16 |-> Codec(<<ReadEnum(0, 0, FALSE, 1)>>, <<WriteEnum(0, 0, FALSE)>>),
   NavIcR16 |-> Codec(<<ReadEnum(0, 0, FALSE, 1)>>, <<WriteEnum(0, 0, FALSE)>>),
   WlanR16 |-> Codec(<<ReadEnum(0, 0, FALSE, 1)>>, <<WriteEnum(0, 0, FALSE)>>)]
FromBluetoothR16 ==
  [BluetoothR16 |-> Codec(<<ReadEnum(0, 0, FALSE, 1)>>, <<WriteEnum(0, 0, FALSE)>>),
   PreferredDrxInactivityTimerR16 |-> Codec(
     <<ReadEnum(0, 31, FALSE, 32)>>,
     <<WriteEnum(0, 31, FALSE)>>),
   PreferredDrxLongCycleR16 |-> Codec(<<ReadEnum(0, 31, FALSE, 32)>>, <<WriteEnum(0, 31, FALSE)>>)]
FromPreferredDrxShortCycleR16 ==
  [PreferredDrxShortCycleR16 |-> Codec(
     <<ReadEnum(0, 31, FALSE, 32)>>,
     <<WriteEnum(0, 31, FALSE)>>),
   ReducedMaxMimoLayersFr1R16 |-> Codec(
     <<ReadHeader(FALSE, 0), Get("reduced_mimo_layers_fr1_dl_r_16", Num(1, 8, FALSE, "u8")),
       Get("reduced_mimo_layers_fr1_ul_r_16", Num(1, 4, FALSE, "u8"))>>,
     <<WriteHeader(FALSE, <<>>), Put("reduced_mimo_layers_fr1_dl_r_16", Num(1, 8, FALSE, "u8")),
       Put("reduced_mimo_layers_fr1_ul_r_16", Num(1, 4, FALSE, "u8"))>>),
   ReducedMaxMimoLayersFr2R16 |-> Codec(
     <<ReadHeader(FALSE, 0), Get("reduced_mimo_layers_fr2_dl_r_16", Num(1, 8, FALSE, "u8")),
       Get("reduced_mimo_layers_fr2_ul_r_16", Num(1, 4, FALSE, "u8"))>>,
     <<WriteHeader(FALSE, <<>>), Put("reduced_mimo_layers_fr2_dl_r_16", Num(1, 8, FALSE, "u8")),
       Put("reduced_mimo_layers_fr2_ul_r_16", Num(1, 4, FALSE, "u8"))>>)]
FromPreferredK0Scs15kHzR16 ==
  [PreferredK0Scs15kHzR16 |-> Codec(<<ReadEnum(0, 3, FALSE, 4)>>, <<WriteEnum(0, 3, FALSE)>>),
   PreferredK0Scs30kHzR16 |-> Codec(<<ReadEnum(0, 3, FALSE, 4)>>, <<WriteEnum(0, 3, FALSE)>>),
   PreferredK0Scs60kHzR16 |-> Codec(<<ReadEnum(0, 3, FALSE, 4)>>, <<WriteEnum(0, 3, FALSE)>>),
   PreferredK0Scs120kHzR16 |-> Codec(<<ReadEnum(0, 3, FALSE, 4)>>, <<WriteEnum(0, 3, FALSE)>>)]
FromPreferredK0R16 ==
  [PreferredK0R16 |-> Codec(
     <<ReadHeader(FALSE, 4), GetIf(1, "preferred_k0_scs_15k_hz_r_16", T("PreferredK0Scs15kHzR16")),
       GetIf(2, "preferred_k0_scs_30k_hz_r_16", T("PreferredK0Scs30kHzR16")),
       GetIf(3, "preferred_k0_scs_60k_hz_r_16", T("PreferredK0Scs60kHzR16")),
       GetIf(4, "preferred_k0_scs_120k_hz_r_16", T("PreferredK0Scs120kHzR16"))>>,
     <<WriteHeader(FALSE, <<"preferred_k0_scs_15k_hz_r_16", "preferred_k0_scs_30k_hz_r_16",
       "preferred_k0_scs_60k_hz_r_16", "preferred_k0_scs_120k_hz_r_16">>),
       PutIf("preferred_k0_scs_15k_hz_r_16", T("PreferredK0Scs15kHzR16")),
       PutIf("preferred_k0_scs_30k_hz_r_16", T("PreferredK0Scs30kHzR16")),
       PutIf("preferred_k0_scs_60k_hz_r_16", T("PreferredK0Scs60kHzR16")),
       PutIf("preferred_k0_scs_120k_hz_r_16", T("PreferredK0Scs120kHzR16"))>>),
   PreferredK2Scs15kHzR16 |-> Codec(<<ReadEnum(0, 3, FALSE, 4)>>, <<WriteEnum(0, 3, FALSE)>>),
   PreferredK2Scs30kHzR16 |-> Codec(<<ReadEnum(0, 3, FALSE, 4)>>, <<WriteEnum(0, 3, FALSE)>>)]
FromPreferredK2Scs60kHzR16 ==
  [PreferredK2Scs60kHzR16 |-> Codec(<<ReadEnum(0, 3, FALSE, 4)>>, <<WriteEnum(0, 3, FALSE)>>),
   PreferredK2Scs120kHzR16 |-> Codec(<<ReadEnum(0, 3, FALSE, 4)>>, <<WriteEnum(0, 3, FALSE)>>),
   PreferredK2R16 |-> Codec(
     <<ReadHeader(FALSE, 4), GetIf(1, "preferred_k2_scs_15k_hz_r_16", T("PreferredK2Scs15kHzR16")),
       GetIf(2, "preferred_k2_scs_30k_hz_r_16", T("PreferredK2Scs30kHzR16")),
       GetIf(3, "preferred_k2_scs_60k_hz_r_16", T("PreferredK2Scs60kHzR16")),
       GetIf(4, "preferred_k2_scs_120k_hz_r_16", T("PreferredK2Scs120kHzR16"))>>,
     <<WriteHeader(FALSE, <<"preferred_k2_scs_15k_hz_r_16", "preferred_k2_scs_30k_hz_r_16",
       "preferred_k2_scs_60k_hz_r_16", "preferred_k2_scs_120k_hz_r_16">>),
       PutIf("preferred_k2_scs_15k_hz_r_16", T("PreferredK2Scs15kHzR16")),
       PutIf("preferred_k2_scs_30k_hz_r_16", T("PreferredK2Scs30kHzR16")),
       PutIf("preferred_k2_scs_60k_hz_r_16", T("PreferredK2Scs60kHzR16")),
       PutIf("preferred_k2_scs_120k_hz_r_16", T("PreferredK2Scs120kHzR16"))>>)]
FromPreferredRrcStateR16 ==
  [PreferredRrcStateR16 |-> Codec(<<ReadEnum(0, 3, FALSE, 4)>>, <<WriteEnum(0, 3, FALSE)>>),
   TrafficPeriodicityR16 |-> Codec(<<ReadEnum(0, 11, FALSE, 12)>>, <<WriteEnum(0, 11, FALSE)>>),
   CriticalExtensions32 |-> Codec(
     <<ReadChoice(0, 1, FALSE, <<Alt(0, "UeCapabilityEnquiry", T("UeCapabilityEnquiryIEs"))>>)>>,
     <<WriteChoice(0, 1, FALSE, <<Arm("UeCapabilityEnquiry", 0, T("UeCapabilityEnquiryIEs"))>>)>>)]
FromCriticalExtensions33 ==
  [CriticalExtensions33 |-> Codec(
     <<ReadChoice(0, 1, FALSE, <<Alt(0, "UeCapabilityInformation", T("UeCapabilityInformationIEs"))>>)>>,
     <<WriteChoice(0, 1, FALSE, <<Arm("UeCapabilityInformation", 0, T("UeCapabilityInformationIEs"))>>)>>),
   CriticalExtensions34 |-> Codec(
     <<ReadChoice(0, 1, FALSE, <<Alt(0, "UeInformationRequestR16", T("UeInformationRequestR16IEs"))>>)>>,
     <<WriteChoice(0, 1, FALSE, <<Arm("UeInformationRequestR16", 0, T("UeInformationRequestR16IEs"))>>)>>),
   IdleModeMeasurementReqR16_1 |-> Codec(<<ReadEnum(0, 0, FALSE, 1)>>, <<WriteEnum(0, 0, FALSE)>>),
   LogMeasReportReqR16 |-> Codec(<<ReadEnum(0, 0, FALSE, 1)>>, <<WriteEnum(0, 0, FALSE)>>)]
FromConnEstFailReportReqR16 ==
  [ConnEstFailReportReqR16 |-> Codec(<<ReadEnum(0, 0, FALSE, 1)>>, <<WriteEnum(0, 0, FALSE)>>),
   RaReportReqR16 |-> Codec(<<ReadEnum(0, 0, FALSE, 1)>>, <<WriteEnum(0, 0, FALSE)>>),
   RlfReportReqR16 |-> Codec(<<ReadEnum(0, 0, FALSE, 1)>>, <<WriteEnum(0, 0, FALSE)>>),
   MobilityHistoryReportReqR16 |-> Codec(<<ReadEnum(0, 0, FALSE, 1)>>, <<WriteEnum(0, 0, FALSE)>>)]
FromCriticalExtensions35 ==
  [CriticalExtensions35 |-> Codec(
     <<ReadChoice(0, 1, FALSE, <<Alt(0, "UeInformationResponseR16", T("UeInformationResponseR16IEs"))>>)>>,
     <<WriteChoice(0, 1, FALSE, <<Arm("UeInformationResponseR16", 0, T("UeInformationResponseR16IEs"))>>)>>),
   LogMeasAvailableR16 |-> Codec(<<ReadEnum(0, 0, FALSE, 1)>>, <<WriteEnum(0, 0, FALSE)>>),
   LogMeasAvailableBtR16 |-> Codec(<<ReadEnum(0, 0, FALSE, 1)>>, <<WriteEnum(0, 0, FALSE)>>),
   LogMeasAvailableWlanR16 |-> Codec(<<ReadEnum(0, 0, FALSE, 1)>>, <<WriteEnum(0, 0, FALSE)>>)]
FromMeasResultNeighCellsR16 ==
  [MeasResultNeighCellsR16 |-> Codec(
     <<ReadHeader(FALSE, 2),
       GetIf(1, "meas_result_neigh_cell_list_nr", T("MeasResultListLogging2NrR16")),
       GetIf(2, "meas_result_neigh_cell_list_eutra", T("MeasResultList2eutraR16"))>>,
     <<WriteHeader(FALSE, <<"meas_result_neigh_cell_list_nr",
       "meas_result_neigh_cell_list_eutra">>),
       PutIf("meas_result_neigh_cell_list_nr", T("MeasResultListLogging2NrR16")),
       PutIf("meas_result_neigh_cell_list_eutra", T("MeasResultList2eutraR16"))>>),
   AnyCellSelectionDetectedR16 |-> Codec(<<ReadEnum(0, 0, FALSE, 1)>>, <<WriteEnum(0, 0, FALSE)>>),
   MeasResultNeighCellsR16_1 |-> Codec(
     <<ReadHeader(FALSE, 2), GetIf(1, "meas_result_neigh_cell_list_nr", T("MeasResultList2NrR16")),
       GetIf(2, "meas_result_neigh_cell_list_eutra", T("MeasResultList2eutraR16"))>>,
     <<WriteHeader(FALSE, <<"meas_result_neigh_cell_list_nr",
       "meas_result_neigh_cell_list_eutra">>),
       PutIf("meas_result_neigh_cell_list_nr", T("MeasResultList2NrR16")),
       PutIf("meas_result_neigh_cell_list_eutra", T("MeasResultList2eutraR16"))>>)]
FromResultsSsb ==
  [ResultsSsb |-> Codec(
     <<ReadHeader(FALSE, 0), Get("best_ssb_index", T("SsbIndex")),
       Get("best_ssb_results", T("MeasQuantityResults")),
       Get("number_of_good_ssb", Num(1, 64, FALSE, "u8"))>>,
     <<WriteHeader(FALSE, <<>>), Put("best_ssb_index", T("SsbIndex")),
       Put("best_ssb_results", T("MeasQuantityResults")),
       Put("number_of_good_ssb", Num(1, 64, FALSE, "u8"))>>),
   CellResultsR16 |-> Codec(
     <<ReadHeader(FALSE, 0), Get("results_ssb_cell_r_16", T("MeasQuantityResults"))>>,
     <<WriteHeader(FALSE, <<>>), Put("results_ssb_cell_r_16", T("MeasQuantityResults"))>>),
   RsIndexResultsR16 |-> Codec(
     <<ReadHeader(FALSE, 0), Get("results_ssb_indexes_r_16", T("ResultsPerSsbIndexList"))>>,
     <<WriteHeader(FALSE, <<>>), Put("results_ssb_indexes_r_16", T("ResultsPerSsbIndexList"))>>)]
FromMeasResultR16 ==
  [MeasResultR16 |-> Codec(
     <<ReadHeader(FALSE, 0), Get("cell_results_r_16", T("CellResultsR16")),
       Get("rs_index_results_r_16", T("RsIndexResultsR16"))>>,
     <<WriteHeader(FALSE, <<>>), Put("cell_results_r_16", T("CellResultsR16")),
       Put("rs_index_results_r_16", T("RsIndexResultsR16"))>>),
   PciArfcnR16 |-> Codec(
     <<ReadHeader(FALSE, 0), Get("phys_cell_id_r_16", T("PhysCellId")),
       Get("carrier_freq_r_16", T("ArfcnValueNr"))>>,
     <<WriteHeader(FALSE, <<>>), Put("phys_cell_id_r_16", T("PhysCellId")),
       Put("carrier_freq_r_16", T("ArfcnValueNr"))>>),
   CellIdR16 |-> Codec(
     <<ReadChoice(0, 1, FALSE, <<Alt(0, "CellGlobalIdR16", T("CgiInfoLoggingR16")),
       Alt(1, "PciArfcnR16", T("PciArfcnR16"))>>)>>,
     <<WriteChoice(0, 1, FALSE, <<Arm("CellGlobalIdR16", 0, T("CgiInfoLoggingR16")),
       Arm("PciArfcnR16", 1, T("PciArfcnR16"))>>)>>)]
FromRaPurposeR16 ==
  [RaPurposeR16 |-> Codec(<<ReadEnum(0, 15, FALSE, 16)>>, <<WriteEnum(0, 15, FALSE)>>),
   Msg1FdmR16 |-> Codec(<<ReadEnum(0, 3, FALSE, 4)>>, <<WriteEnum(0, 3, FALSE)>>),
   Msg1FdmcfraR16 |-> Codec(<<ReadEnum(0, 3, FALSE, 4)>>, <<WriteEnum(0, 3, FALSE)>>),
   MeasResultNeighCellsR16_2 |-> Codec(
     <<ReadHeader(FALSE, 2), GetIf(1, "meas_result_list_nr_r_16", T("MeasResultList2NrR16")),
       GetIf(2, "meas_result_list_eutra_r_16", T("MeasResultList2eutraR16"))>>,
     <<WriteHeader(FALSE, <<"meas_result_list_nr_r_16", "meas_result_list_eutra_r_16">>),
       PutIf("meas_result_list_nr_r_16", T("MeasResultList2NrR16")),
       PutIf("meas_result_list_eutra_r_16", T("MeasResultList2eutraR16"))>>)]
FromPreviousPCellIdR16 ==
  [PreviousPCellIdR16 |-> Codec(
     <<ReadChoice(0, 1, FALSE, <<Alt(0, "NrPreviousCellR16", T("CgiInfoLoggingR16")),
       Alt(1, "EutraPreviousCellR16", T("CgiInfoEutraLogging"))>>)>>,
     <<WriteChoice(0, 1, FALSE, <<Arm("NrPreviousCellR16", 0, T("CgiInfoLoggingR16")),
       Arm("EutraPreviousCellR16", 1, T("CgiInfoEutraLogging"))>>)>>),
   PciArfcnR16_1 |-> Codec(
     <<ReadHeader(FALSE, 0), Get("phys_cell_id_r_16", T("PhysCellId")),
       Get("carrier_freq_r_16", T("ArfcnValueNr"))>>,
     <<WriteHeader(FALSE, <<>>), Put("phys_cell_id_r_16", T("PhysCellId")),
       Put("carrier_freq_r_16", T("ArfcnValueNr"))>>),
   NrFailedPCellIdR16 |-> Codec(
     <<ReadChoice(0, 1, FALSE, <<Alt(0, "CellGlobalIdR16", T("CgiInfoLoggingR16")),
       Alt(1, "PciArfcnR16", T("PciArfcnR16_1"))>>)>>,
     <<WriteChoice(0, 1, FALSE, <<Arm("CellGlobalIdR16", 0, T("CgiInfoLoggingR16")),
       Arm("PciArfcnR16", 1, T("PciArfcnR16_1"))>>)>>)]
FromPciArfcnR16_2 ==
  [PciArfcnR16_2 |-> Codec(
     <<ReadHeader(FALSE, 0), Get("phys_cell_id_r_16", T("EutraPhysCellId")),
       Get("carrier_freq_r_16", T("ArfcnValueEutra"))>>,
     <<WriteHeader(FALSE, <<>>), Put("phys_cell_id_r_16", T("EutraPhysCellId")),
       Put("carrier_freq_r_16", T("ArfcnValueEutra"))>>),
   EutraFailedPCellIdR16 |-> Codec(
     <<ReadChoice(0, 1, FALSE, <<Alt(0, "CellGlobalIdR16", T("CgiInfoEutraLogging")),
       Alt(1, "PciArfcnR16", T("PciArfcnR16_2"))>>)>>,
     <<WriteChoice(0, 1, FALSE, <<Arm("CellGlobalIdR16", 0, T("CgiInfoEutraLogging")),
       Arm("PciArfcnR16", 1, T("PciArfcnR16_2"))>>)>>),
   FailedPCellIdR16 |-> Codec(
     <<ReadChoice(0, 1, FALSE, <<Alt(0, "NrFailedPCellIdR16", T("NrFailedPCellIdR16")),
       Alt(1, "EutraFailedPCellIdR16", T("EutraFailedPCellIdR16"))>>)>>,
     <<WriteChoice(0, 1, FALSE, <<Arm("NrFailedPCellIdR16", 0, T("NrFailedPCellIdR16")),
       Arm("EutraFailedPCellIdR16", 1, T("EutraFailedPCellIdR16"))>>)>>)]
FromReconnectCellIdR16 ==
  [ReconnectCellIdR16 |-> Codec(
     <<ReadChoice(0, 1, FALSE, <<Alt(0, "NrReconnectCellIdR16", T("CgiInfoLoggingR16")),
       Alt(1, "EutraReconnectCellIdR16", T("CgiInfoEutraLogging"))>>)>>,
     <<WriteChoice(0, 1, FALSE, <<Arm("NrReconnectCellIdR16", 0, T("CgiInfoLoggingR16")),
       Arm("EutraReconnectCellIdR16", 1, T("CgiInfoEutraLogging"))>>)>>),
   ConnectionFailureTypeR16 |-> Codec(<<ReadEnum(0, 1, FALSE, 2)>>, <<WriteEnum(0, 1, FALSE)>>),
   RlfCauseR16 |-> Codec(<<ReadEnum(0, 7, FALSE, 8)>>, <<WriteEnum(0, 7, FALSE)>>),
   NoSuitableCellFoundR16 |-> Codec(<<ReadEnum(0, 0, FALSE, 1)>>, <<WriteEnum(0, 0, FALSE)>>)]
FromNrRlfReportR16 ==
  [NrRlfReportR16 |-> Codec(
     <<ReadHeader(TRUE, 9), Get("meas_result_last_serv_cell_r_16", T("MeasResultRlfNrR16")),
       GetIf(1, "meas_result_neigh_cells_r_16", T("MeasResultNeighCellsR16_2")),
       Get("c_rnti_r_16", T("RntiValue")),
       GetIf(2, "previous_p_cell_id_r_16", T("PreviousPCellIdR16")),
       Get("failed_p_cell_id_r_16", T("FailedPCellIdR16")),
       GetIf(3, "reconnect_cell_id_r_16", T("ReconnectCellIdR16")),
       GetIf(4, "time_until_reconnection_r_16", T("TimeUntilReconnectionR16")),
       GetIf(5, "reestablishment_cell_id_r_16", T("CgiInfoLoggingR16")),
       GetIf(6, "time_conn_failure_r_16", Num(0, 1023, FALSE, "u16")),
       Get("time_since_failure_r_16", T("TimeSinceFailureR16")),
       Get("connection_failure_type_r_16", T("ConnectionFailureTypeR16")),
       Get("rlf_cause_r_16", T("RlfCauseR16")),
       GetIf(7, "location_info_r_16", T("LocationInfoR16")),
       GetIf(8, "no_suitable_cell_found_r_16", T("NoSuitableCellFoundR16")),
       GetIf(9, "ra_information_common_r_16", T("RaInformationCommonR16"))>>,
     <<WriteHeader(TRUE, <<"meas_result_neigh_cells_r_16", "previous_p_cell_id_r_16",
       "reconnect_cell_id_r_16", "time_until_reconnection_r_16", "reestablishment_cell_id_r_16",
       "time_conn_failure_r_16", "location_info_r_16", "no_suitable_cell_found_r_16",
       "ra_information_common_r_16">>),
       Put("meas_result_last_serv_cell_r_16", T("MeasResultRlfNrR16")),
       PutIf("meas_result_neigh_cells_r_16", T("MeasResultNeighCellsR16_2")),
       Put("c_rnti_r_16", T("RntiValue")),
       PutIf("previous_p_cell_id_r_16", T("PreviousPCellIdR16")),
       Put("failed_p_cell_id_r_16", T("FailedPCellIdR16")),
       PutIf("reconnect_cell_id_r_16", T("ReconnectCellIdR16")),
       PutIf("time_until_reconnection_r_16", T("TimeUntilReconnectionR16")),
       PutIf("reestablishment_cell_id_r_16", T("CgiInfoLoggingR16")),
       PutIf("time_conn_failure_r_16", Num(0, 1023, FALSE, "u16")),
       Put("time_since_failure_r_16", T("TimeSinceFailureR16")),
       Put("connection_failure_type_r_16", T("ConnectionFailureTypeR16")),
       Put("rlf_cause_r_16", T("RlfCauseR16")), PutIf("location_info_r_16", T("LocationInfoR16")),
       PutIf("no_suitable_cell_found_r_16", T("NoSuitableCellFoundR16")),
       PutIf("ra_information_common_r_16", T("RaInformationCommonR16"))>>)]
FromEutraRlfReportR16 ==
  [EutraRlfReportR16 |-> Codec(
     <<ReadHeader(TRUE, 0), Get("failed_p_cell_id_eutra", T("CgiInfoEutraLogging")),
       Get("meas_result_rlf_report_eutra_r_16", OctetString)>>,
     <<WriteHeader(TRUE, <<>>), Put("failed_p_cell_id_eutra", T("CgiInfoEutraLogging")),
       Put("meas_result_rlf_report_eutra_r_16", OctetString)>>),
   CellResultsR16_1 |-> Codec(
     <<ReadHeader(FALSE, 2), GetIf(1, "results_ssb_cell_r_16", T("MeasQuantityResults")),
       GetIf(2, "results_csi_rs_cell_r_16", T("MeasQuantityResults"))>>,
     <<WriteHeader(FALSE, <<"results_ssb_cell_r_16", "results_csi_rs_cell_r_16">>),
       PutIf("results_ssb_cell_r_16", T("MeasQuantityResults")),
       PutIf("results_csi_rs_cell_r_16", T("MeasQuantityResults"))>>),
   RsIndexResultsR16_1 |-> Codec(
     <<ReadHeader(FALSE, 4), GetIf(1, "results_ssb_indexes_r_16", T("ResultsPerSsbIndexList")),
       GetIf(2, "ssb_rlm_config_bitmap_r_16", Bits(64, 64, FALSE)),
       GetIf(3, "results_csi_rs_indexes_r_16", T("ResultsPerCsiRsIndexList")),
       GetIf(4, "csi_rs_rlm_config_bitmap_r_16", Bits(96, 96, FALSE))>>,
     <<WriteHeader(FALSE, <<"results_ssb_indexes_r_16", "ssb_rlm_config_bitmap_r_16",
       "results_csi_rs_indexes_r_16", "csi_rs_rlm_config_bitmap_r_16">>),
       PutIf("results_ssb_indexes_r_16", T("ResultsPerSsbIndexList")),
       PutIf("ssb_rlm_config_bitmap_r_16", Bits(64, 64, FALSE)),
       PutIf("results_csi_rs_indexes_r_16", T("ResultsPerCsiRsIndexList")),
       PutIf("csi_rs_rlm_config_bitmap_r_16", Bits(96, 96, FALSE))>>)]
FromMeasResultR16_1 ==
  [MeasResultR16_1 |-> Codec(
     <<ReadHeader(FALSE, 1), Get("cell_results_r_16", T("CellResultsR16_1")),
       GetIf(1, "rs_index_results_r_16", T("RsIndexResultsR16_1"))>>,
     <<WriteHeader(FALSE, <<"rs_index_results_r_16">>),
       Put("cell_results_r_16", T("CellResultsR16_1")),
       PutIf("rs_index_results_r_16", T("RsIndexResultsR16_1"))>>),
   CriticalExtensions36 |-> Codec(
     <<ReadChoice(0, 1, FALSE, <<Alt(0, "UlDedicatedMessageSegmentR16", T("UlDedicatedMessageSegmentR16IEs"))>>)>>,
     <<WriteChoice(0, 1, FALSE, <<Arm("UlDedicatedMessageSegmentR16", 0, T("UlDedicatedMessageSegmentR16IEs"))>>)>>),
   RrcMessageSegmentTypeR16_1 |-> Codec(<<ReadEnum(0, 1, FALSE, 2)>>, <<WriteEnum(0, 1, FALSE)>>),
   CriticalExtensions37 |-> Codec(
     <<ReadChoice(0, 1, FALSE, <<Alt(0, "UlInformationTransfer", T("UlInformationTransferIEs"))>>)>>,
     <<WriteChoice(0, 1, FALSE, <<Arm("UlInformationTransfer", 0, T("UlInformationTransferIEs"))>>)>>)]
FromC1_8 ==
  [C1_8 |-> Codec(
     <<ReadChoice(0, 3, FALSE, <<Alt(0, "UlInformationTransferIratR16", T("UlInformationTransferIratR16IEs")),
       Alt(1, "Spare3", Null), Alt(2, "Spare2", Null), Alt(3, "Spare1", Null)>>)>>,
     <<WriteChoice(0, 3, FALSE, <<Arm("UlInformationTransferIratR16", 0, T("UlInformationTransferIratR16IEs")),
       Arm("Spare3", 1, Null), Arm("Spare2", 2, Null), Arm("Spare1", 3, Null)>>)>>),
   CriticalExtensions38 |-> Codec(
     <<ReadChoice(0, 1, FALSE, <<Alt(0, "C1", T("C1_8"))>>)>>,
     <<WriteChoice(0, 1, FALSE, <<Arm("C1", 0, T("C1_8"))>>)>>),
   C1_9 |-> Codec(
     <<ReadChoice(0, 3, FALSE, <<Alt(0, "UlInformationTransferMrdc", T("UlInformationTransferMrdcIEs")),
       Alt(1, "Spare3", Null), Alt(2, "Spare2", Null), Alt(3, "Spare1", Null)>>)>>,
     <<WriteChoice(0, 3, FALSE, <<Arm("UlInformationTransferMrdc", 0, T("UlInformationTransferMrdcIEs")),
       Arm("Spare3", 1, Null), Arm("Spare2", 2, Null), Arm("Spare1", 3, Null)>>)>>)]
FromCriticalExtensions39 ==
  [CriticalExtensions39 |-> Codec(
     <<ReadChoice(0, 1, FALSE, <<Alt(0, "C1", T("C1_9"))>>)>>,
     <<WriteChoice(0, 1, FALSE, <<Arm("C1", 0, T("C1_9"))>>)>>),
   QHyst |-> Codec(<<ReadEnum(0, 15, FALSE, 16)>>, <<WriteEnum(0, 15, FALSE)>>),
   SfMedium |-> Codec(<<ReadEnum(0, 3, FALSE, 4)>>, <<WriteEnum(0, 3, FALSE)>>),
   SfHigh |-> Codec(<<ReadEnum(0, 3, FALSE, 4)>>, <<WriteEnum(0, 3, FALSE)>>)]
FromQHystSf ==
  [QHystSf |-> Codec(
     <<ReadHeader(FALSE, 0), Get("sf_medium", T("SfMedium")), Get("sf_high", T("SfHigh"))>>,
     <<WriteHeader(FALSE, <<>>), Put("sf_medium", T("SfMedium")), Put("sf_high", T("SfHigh"))>>),
   SpeedStateReselectionPars |-> Codec(
     <<ReadHeader(FALSE, 0), Get("mobility_state_parameters", T("MobilityStateParameters")),
       Get("q_hyst_sf", T("QHystSf"))>>,
     <<WriteHeader(FALSE, <<>>), Put("mobility_state_parameters", T("MobilityStateParameters")),
       Put("q_hyst_sf", T("QHystSf"))>>),
   CellReselectionInfoCommon |-> Codec(
     <<ReadHeader(TRUE, 4), GetIf(1, "nrof_ss_blocks_to_average", Num(2, 16, FALSE, "u8")),
       GetIf(2, "abs_thresh_ss_blocks_consolidation", T("ThresholdNr")),
       GetIf(3, "range_to_best_cell", T("RangeToBestCell")), Get("q_hyst", T("QHyst")),
       GetIf(4, "speed_state_reselection_pars", T("SpeedStateReselectionPars"))>>,
     <<WriteHeader(TRUE, <<"nrof_ss_blocks_to_average", "abs_thresh_ss_blocks_consolidation",
       "range_to_best_cell", "speed_state_reselection_pars">>),
       PutIf("nrof_ss_blocks_to_average", Num(2, 16, FALSE, "u8")),
       PutIf("abs_thresh_ss_blocks_consolidation", T("ThresholdNr")),
       PutIf("range_to_best_cell", T("RangeToBestCell")), Put("q_hyst", T("QHyst")),
       PutIf("speed_state_reselection_pars", T("SpeedStateReselectionPars"))>>)]
FromCellReselectionServingFreqInfo ==
  [CellReselectionServingFreqInfo |-> Codec(
     <<ReadHeader(TRUE, 4), GetIf(1, "s_non_intra_search_p", T("ReselectionThreshold")),
       GetIf(2, "s_non_intra_search_q", T("ReselectionThresholdQ")),
       Get("thresh_serving_low_p", T("ReselectionThreshold")),
       GetIf(3, "thresh_serving_low_q", T("ReselectionThresholdQ")),
       Get("cell_reselection_priority", T("CellReselectionPriority")),
       GetIf(4, "cell_reselection_sub_priority", T("CellReselectionSubPriority"))>>,
     <<WriteHeader(TRUE, <<"s_non_intra_search_p", "s_non_intra_search_q", "thresh_serving_low_q",
       "cell_reselection_sub_priority">>), PutIf("s_non_intra_search_p", T("ReselectionThreshold")),
       PutIf("s_non_intra_search_q", T("ReselectionThresholdQ")),
       Put("thresh_serving_low_p", T("ReselectionThreshold")),
       PutIf("thresh_serving_low_q", T("ReselectionThresholdQ")),
       Put("cell_reselection_priority", T("CellReselectionPriority")),
       PutIf("cell_reselection_sub_priority", T("CellReselectionSubPriority"))>>),
   IntraFreqCellReselectionInfo |-> Codec(
     <<ReadHeader(TRUE, 9), Get("q_rx_lev_min", T("QRxLevMin")),
       GetIf(1, "q_rx_lev_min_sul", T("QRxLevMin")), GetIf(2, "q_qual_min", T("QQualMin")),
       Get("s_intra_search_p", T("ReselectionThreshold")),
       GetIf(3, "s_intra_search_q", T("ReselectionThresholdQ")),
       Get("t_reselection_nr", T("TReselection")),
       GetIf(4, "frequency_band_list", T("MultiFrequencyBandListNrSib")),
       GetIf(5, "frequency_band_list_sul", T("MultiFrequencyBandListNrSib")),
       GetIf(6, "p_max", T("PMax")), GetIf(7, "smtc", T("SsbMtc")),
       GetIf(8, "ss_rssi_measurement", T("SsRssiMeasurement")),
       GetIf(9, "ssb_to_measure", T("SsbToMeasure")), Get("derive_ssb_index_from_cell", T("BOOL"))>>,
     <<WriteHeader(TRUE, <<"q_rx_lev_min_sul", "q_qual_min", "s_intra_search_q",
       "frequency_band_list", "frequency_band_list_sul", "p_max", "smtc", "ss_rssi_measurement",
       "ssb_to_measure">>), Put("q_rx_lev_min", T("QRxLevMin")),
       PutIf("q_rx_lev_min_sul", T("QRxLevMin")), PutIf("q_qual_min", T("QQualMin")),
       Put("s_intra_search_p", T("ReselectionThreshold")),
       PutIf("s_intra_search_q", T("ReselectionThresholdQ")),
       Put("t_reselection_nr", T("TReselection")),
       PutIf("frequency_band_list", T("MultiFrequencyBandListNrSib")),
       PutIf("frequency_band_list_sul", T("MultiFrequencyBandListNrSib")),
       PutIf("p_max", T("PMax")), PutIf("smtc", T("SsbMtc")),
       PutIf("ss_rssi_measurement", T("SsRssiMeasurement")),
       PutIf("ssb_to_measure", T("SsbToMeasure")), Put("derive_ssb_index_from_cell", T("BOOL"))>>)]
FromGnssIdR16_1 ==
  [GnssIdR16_1 |-> Codec(<<ReadEnum(0, 5, TRUE, 6)>>, <<WriteEnum(0, 5, TRUE)>>),
   SbasIdR16_1 |-> Codec(<<ReadEnum(0, 3, TRUE, 4)>>, <<WriteEnum(0, 3, TRUE)>>)]

Codecs == {FromC1_1, FromC1_4, FromC1_6, FromC2, FromMessageClassExtension, FromCriticalExtensions2,
  FromCriticalExtensions3, FromCriticalExtensions5, FromCriticalExtensions7, FromIabIPv6ReportR16,
  FromAllTrafficPrefixReqR16, FromCriticalExtensions8, FromEventL1, FromCriticalExtensions11,
  FromCriticalExtensions12, FromCriticalExtensions13, FromFullConfig,
  FromFlowControlFeedbackTypeR16, FromCriticalExtensions17, FromDeprioritisationReq, FromT320,
  FromRestoreMcgSCellsR16, FromIdleMeasAvailableR16, FromCriticalExtensions21,
  FromIabNodeIndicationR16, FromCriticalExtensionsFutureR16, FromFailureType1,
  FromCriticalExtensions27, FromCriticalExtensions29, FromCriticalExtensions31,
  FromReducedMaxMimoLayersFr2, FromBdsR16, FromBluetoothR16, FromPreferredDrxShortCycleR16,
  FromPreferredK0Scs15kHzR16, FromPreferredK0R16, FromPreferredK2Scs60kHzR16,
  FromPreferredRrcStateR16, FromCriticalExtensions33, FromConnEstFailReportReqR16,
  FromCriticalExtensions35, FromMeasResultNeighCellsR16, FromResultsSsb, FromMeasResultR16,
  FromRaPurposeR16, FromPreviousPCellIdR16, FromPciArfcnR16_2, FromReconnectCellIdR16,
  FromNrRlfReportR16, FromEutraRlfReportR16, FromMeasResultR16_1, FromC1_8,
  FromCriticalExtensions39, FromQHystSf, FromCellReselectionServingFreqInfo, FromGnssIdR16_1}
=============================================================================
