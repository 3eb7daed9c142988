---------------------------- MODULE F1apIesRtoS ----------------------------
(***************************************************************************)
(* The programs of the codecs of f1ap/src/ies.rs, from RachConfigCommon to *)
(* SystemInformationAreaId: what decode_inner reads and encode_inner       *)
(* writes, each in the order of its source.                                *)
(***************************************************************************)
EXTENDS PerLayout

FromRachConfigCommon ==
  [RachConfigCommon |-> Codec(<<Get("0", OctetString)>>, <<Put("0", OctetString)>>),
   RachConfigCommonIab |-> Codec(<<Get("0", OctetString)>>, <<Put("0", OctetString)>>),
   RachReportContainer |-> Codec(<<Get("0", OctetString)>>, <<Put("0", OctetString)>>),
   RachReportInformationList |-> Codec(
     <<Get("0", NonEmpty(1, 64, T("RachReportInformationItem")))>>,
     <<Put("0", NonEmpty(1, 64, T("RachReportInformationItem")))>>),
   RachReportInformationItem |-> Codec(
     <<ReadHeader(TRUE, 2), Get("rach_report_container", T("RachReportContainer")),
       GetIf(1, "ue_assitant_identifier", T("GnbDuUeF1apId")), ReadExtensions(2, <<>>)>>,
     <<WriteHeader(TRUE, <<"ue_assitant_identifier", "false">>),
       Put("rach_report_container", T("RachReportContainer")),
       PutIf("ue_assitant_identifier", T("GnbDuUeF1apId"))>>)]
FromRadioResourceStatus ==
  [RadioResourceStatus |-> Codec(
     <<ReadHeader(FALSE, 1),
       Get("ssb_area_radio_resource_status_list", T("SsbAreaRadioResourceStatusList")),
       ReadExtensions(1, <<>>)>>,
     <<WriteHeader(FALSE, <<"false">>),
       Put("ssb_area_radio_resource_status_list", T("SsbAreaRadioResourceStatusList"))>>),
   Ranac |-> Codec(<<Get("0", Num(0, 255, FALSE, "u8"))>>, <<Put("0", Num(0, 255, FALSE, "u8"))>>),
   RanMeasurementId |-> Codec(
     <<Get("0", Num(1, 65536, TRUE, "u32"))>>,
     <<Put("0", Num(1, 65536, TRUE, "u32"))>>),
   RanUeMeasurementId |-> Codec(
     <<Get("0", Num(1, 256, TRUE, "u16"))>>,
     <<Put("0", Num(1, 256, TRUE, "u16"))>>)]
FromRanUeId ==
  [RanUeId |-> Codec(
     <<Get("0", OctetArray(8, 8, FALSE, 8))>>,
     <<Put("0", OctetArray(8, 8, FALSE, 8))>>),
   RanUePagingIdentity |-> Codec(
     <<ReadHeader(FALSE, 1), Get("irnti", Bits(40, 40, FALSE)), ReadExtensions(1, <<>>)>>,
     <<WriteHeader(FALSE, <<"false">>), Put("irnti", Bits(40, 40, FALSE))>>),
   RatFrequencyPriorityInformation |-> Codec(
     <<ReadChoice(0, 2, FALSE, <<Alt(0, "Endc", T("SubscriberProfileIDforRfp")),
       Alt(1, "Ngran", T("RatFrequencySelectionPriority")), AltIes(2, <<>>)>>)>>,
     <<WriteChoice(0, 2, FALSE, <<Arm("Endc", 0, T("SubscriberProfileIDforRfp")),
       Arm("Ngran", 1, T("RatFrequencySelectionPriority"))>>)>>)]
FromRatFrequencySelectionPriority ==
  [RatFrequencySelectionPriority |-> Codec(
     <<Get("0", Num(1, 256, TRUE, "u16"))>>,
     <<Put("0", Num(1, 256, TRUE, "u16"))>>),
   ReestablishmentIndication |-> Codec(<<ReadEnum(0, 0, TRUE, 1)>>, <<WriteEnum(0, 0, TRUE)>>),
   ReferencePoint |-> Codec(
     <<ReadChoice(0, 3, FALSE, <<Alt(0, "CoordinateId", T("CoordinateId")),
       Alt(1, "ReferencePointCoordinate", T("AccessPointPosition")),
       Alt(2, "ReferencePointCoordinateHa", T("NgranHighAccuracyAccessPointPosition")),
       AltIes(3, <<>>)>>)>>,
     <<WriteChoice(0, 3, FALSE, <<Arm("CoordinateId", 0, T("CoordinateId")),
       Arm("ReferencePointCoordinate", 1, T("AccessPointPosition")),
       Arm("ReferencePointCoordinateHa", 2, T("NgranHighAccuracyAccessPointPosition"))>>)>>),
   ReferenceSfn |-> Codec(
     <<Get("0", Num(0, 1023, FALSE, "u16"))>>,
     <<Put("0", Num(0, 1023, FALSE, "u16"))>>)]
FromReferenceSignal ==
  [ReferenceSignal |-> Codec(
     <<ReadChoice(0, 5, FALSE, <<Alt(0, "NzpCsiRs", T("NzpCsiRsResourceId")),
       Alt(1, "Ssb", T("Ssb")), Alt(2, "Srs", T("SrsResourceId")),
       Alt(3, "PositioningSrs", T("SrsPosResourceId")), Alt(4, "DlPrs", T("DlPrs")),
       AltIes(5, <<>>)>>)>>,
     <<WriteChoice(0, 5, FALSE, <<Arm("NzpCsiRs", 0, T("NzpCsiRsResourceId")),
       Arm("Ssb", 1, T("Ssb")), Arm("Srs", 2, T("SrsResourceId")),
       Arm("PositioningSrs", 3, T("SrsPosResourceId")), Arm("DlPrs", 4, T("DlPrs"))>>)>>),
   RelativeCartesianLocation |-> Codec(
     <<ReadHeader(FALSE, 1), Get("xy_zunit", T("XyZunit")),
       Get("xvalue", Num(-65536, 65535, FALSE, "i32")),
       Get("yvalue", Num(-65536, 65535, FALSE, "i32")),
       Get("zvalue", Num(-32768, 32767, FALSE, "i16")),
       Get("location_uncertainty", T("LocationUncertainty")), ReadExtensions(1, <<>>)>>,
     <<WriteHeader(FALSE, <<"false">>), Put("xy_zunit", T("XyZunit")),
       Put("xvalue", Num(-65536, 65535, FALSE, "i32")),
       Put("yvalue", Num(-65536, 65535, FALSE, "i32")),
       Put("zvalue", Num(-32768, 32767, FALSE, "i16")),
       Put("location_uncertainty", T("LocationUncertainty"))>>)]
FromRelativeGeodeticLocation ==
  [RelativeGeodeticLocation |-> Codec(
     <<ReadHeader(FALSE, 1), Get("milli_arc_second_units", T("MilliArcSecondUnits")),
       Get("height_units", T("HeightUnits")), Get("delta_latitude", Num(-1024, 1023, FALSE, "i16")),
       Get("delta_longitude", Num(-1024, 1023, FALSE, "i16")),
       Get("delta_height", Num(-1024, 1023, FALSE, "i16")),
       Get("location_uncertainty", T("LocationUncertainty")), ReadExtensions(1, <<>>)>>,
     <<WriteHeader(FALSE, <<"false">>), Put("milli_arc_second_units", T("MilliArcSecondUnits")),
       Put("height_units", T("HeightUnits")), Put("delta_latitude", Num(-1024, 1023, FALSE, "i16")),
       Put("delta_longitude", Num(-1024, 1023, FALSE, "i16")),
       Put("delta_height", Num(-1024, 1023, FALSE, "i16")),
       Put("location_uncertainty", T("LocationUncertainty"))>>),
   ReferenceTime |-> Codec(<<Get("0", OctetString)>>, <<Put("0", OctetString)>>),
   RegistrationRequest |-> Codec(<<ReadEnum(0, 2, TRUE, 3)>>, <<WriteEnum(0, 2, TRUE)>>)]
FromReportCharacteristics ==
  [ReportCharacteristics |-> Codec(
     <<Get("0", Bits(32, 32, FALSE))>>,
     <<Put("0", Bits(32, 32, FALSE))>>),
   ReportingPeriodicity |-> Codec(<<ReadEnum(0, 4, TRUE, 5)>>, <<WriteEnum(0, 4, TRUE)>>),
   RequestedBandCombinationIndex |-> Codec(<<Get("0", OctetString)>>, <<Put("0", OctetString)>>),
   RequestedFeatureSetEntryIndex |-> Codec(<<Get("0", OctetString)>>, <<Put("0", OctetString)>>),
   RequestedPMaxFr2 |-> Codec(<<Get("0", OctetString)>>, <<Put("0", OctetString)>>)]
FromRequestedPdcchBlindDetectionScg ==
  [RequestedPdcchBlindDetectionScg |-> Codec(<<Get("0", OctetString)>>, <<Put("0", OctetString)>>),
   RequestedSrsTransmissionCharacteristics |-> Codec(
     <<ReadHeader(FALSE, 4), GetIf(1, "number_of_transmissions", Num(0, 500, TRUE, "u16")),
       Get("resource_type", T("ResourceType2")), Get("bandwidth_srs", T("BandwidthSrs")),
       GetIf(2, "srs_resource_set_list", T("SrsResourceSetList")),
       GetIf(3, "ssb_information", T("SsbInformation")),
       ReadExtensions(4, <<Ie(431, "srs_frequency", T("SrsFrequency"))>>)>>,
     <<PutIeIf(431, "srs_frequency", T("SrsFrequency")),
       WriteHeader(FALSE, <<"number_of_transmissions", "srs_resource_set_list", "ssb_information",
       "num_ies">>), PutIf("number_of_transmissions", Num(0, 500, TRUE, "u16")),
       Put("resource_type", T("ResourceType2")), Put("bandwidth_srs", T("BandwidthSrs")),
       PutIf("srs_resource_set_list", T("SrsResourceSetList")),
       PutIf("ssb_information", T("SsbInformation")), AppendExtensions>>)]
FromRequestType ==
  [RequestType |-> Codec(<<ReadEnum(0, 1, TRUE, 2)>>, <<WriteEnum(0, 1, TRUE)>>),
   ResourceCoordinationEutraCellInfo |-> Codec(
     <<ReadHeader(TRUE, 1), Get("eutra_mode_info", T("EutraCoexModeInfo")),
       Get("eutra_prach_configuration", T("EutraPrachConfiguration")),
       ReadExtensions(1, <<Ie(233, "ignore_prach_configuration", T("IgnorePrachConfiguration"))>>)>>,
     <<PutIeIf(233, "ignore_prach_configuration", T("IgnorePrachConfiguration")),
       WriteHeader(TRUE, <<"num_ies">>), Put("eutra_mode_info", T("EutraCoexModeInfo")),
       Put("eutra_prach_configuration", T("EutraPrachConfiguration")), AppendExtensions>>),
   ResourceCoordinationTransferInformation |-> Codec(
     <<ReadHeader(TRUE, 2), Get("m_enb_cell_id", T("EutraCellId")),
       GetIf(1, "resource_coordination_eutra_cell_info", T("ResourceCoordinationEutraCellInfo")),
       ReadExtensions(2, <<>>)>>,
     <<WriteHeader(TRUE, <<"resource_coordination_eutra_cell_info", "false">>),
       Put("m_enb_cell_id", T("EutraCellId")),
       PutIf("resource_coordination_eutra_cell_info", T("ResourceCoordinationEutraCellInfo"))>>)]
FromResourceCoordinationTransferContainer ==
  [ResourceCoordinationTransferContainer |-> Codec(
     <<Get("0", OctetString)>>,
     <<Put("0", OctetString)>>),
   ResourceSetType |-> Codec(
     <<ReadChoice(0, 3, FALSE, <<Alt(0, "Periodic", T("ResourceSetTypePeriodic")),
       Alt(1, "SemiPersistent", T("ResourceSetTypeSemiPersistent")),
       Alt(2, "Aperiodic", T("ResourceSetTypeAperiodic")), AltIes(3, <<>>)>>)>>,
     <<WriteChoice(0, 3, FALSE, <<Arm("Periodic", 0, T("ResourceSetTypePeriodic")),
       Arm("SemiPersistent", 1, T("ResourceSetTypeSemiPersistent")),
       Arm("Aperiodic", 2, T("ResourceSetTypeAperiodic"))>>)>>),
   ResourceSetTypePeriodic |-> Codec(
     <<ReadHeader(FALSE, 1), Get("periodic_set", T("PeriodicSet")), ReadExtensions(1, <<>>)>>,
     <<WriteHeader(FALSE, <<"false">>), Put("periodic_set", T("PeriodicSet"))>>)]
FromResourceSetTypeSemiPersistent ==
  [ResourceSetTypeSemiPersistent |-> Codec(
     <<ReadHeader(FALSE, 1), Get("semi_persistent_set", T("SemiPersistentSet")),
       ReadExtensions(1, <<>>)>>,
     <<WriteHeader(FALSE, <<"false">>), Put("semi_persistent_set", T("SemiPersistentSet"))>>),
   ResourceSetTypeAperiodic |-> Codec(
     <<ReadHeader(FALSE, 1), Get("srs_resource_trigger_list", Num(1, 3, FALSE, "u8")),
       Get("slotoffset", Num(0, 32, FALSE, "u8")), ReadExtensions(1, <<>>)>>,
     <<WriteHeader(FALSE, <<"false">>), Put("srs_resource_trigger_list", Num(1, 3, FALSE, "u8")),
       Put("slotoffset", Num(0, 32, FALSE, "u8"))>>),
   RepetitionPeriod |-> Codec(
     <<Get("0", Num(0, 131071, TRUE, "u32"))>>,
     <<Put("0", Num(0, 131071, TRUE, "u32"))>>)]
FromReportingRequestType ==
  [ReportingRequestType |-> Codec(
     <<ReadHeader(FALSE, 2), Get("event_type", T("EventType")),
       GetIf(1, "reporting_periodicity_value", T("ReportingPeriodicityValue")),
       ReadExtensions(2, <<>>)>>,
     <<WriteHeader(FALSE, <<"reporting_periodicity_value", "false">>),
       Put("event_type", T("EventType")),
       PutIf("reporting_periodicity_value", T("ReportingPeriodicityValue"))>>),
   ResourceType |-> Codec(
     <<ReadChoice(0, 3, FALSE, <<Alt(0, "Periodic", T("ResourceTypePeriodic")),
       Alt(1, "SemiPersistent", T("ResourceTypeSemiPersistent")),
       Alt(2, "Aperiodic", T("ResourceTypeAperiodic")), AltIes(3, <<>>)>>)>>,
     <<WriteChoice(0, 3, FALSE, <<Arm("Periodic", 0, T("ResourceTypePeriodic")),
       Arm("SemiPersistent", 1, T("ResourceTypeSemiPersistent")),
       Arm("Aperiodic", 2, T("ResourceTypeAperiodic"))>>)>>),
   ResourceTypePeriodic |-> Codec(
     <<ReadHeader(FALSE, 1), Get("periodicity", T("Periodicity1")),
       Get("offset", Num(0, 2559, TRUE, "u16")), ReadExtensions(1, <<>>)>>,
     <<WriteHeader(FALSE, <<"false">>), Put("periodicity", T("Periodicity1")),
       Put("offset", Num(0, 2559, TRUE, "u16"))>>)]
FromResourceTypeSemiPersistent ==
  [ResourceTypeSemiPersistent |-> Codec(
     <<ReadHeader(FALSE, 1), Get("periodicity", T("Periodicity2")),
       Get("offset", Num(0, 2559, TRUE, "u16")), ReadExtensions(1, <<>>)>>,
     <<WriteHeader(FALSE, <<"false">>), Put("periodicity", T("Periodicity2")),
       Put("offset", Num(0, 2559, TRUE, "u16"))>>),
   ResourceTypeAperiodic |-> Codec(
     <<ReadHeader(FALSE, 1), Get("aperiodic_resource_type", T("AperiodicResourceType")),
       ReadExtensions(1, <<>>)>>,
     <<WriteHeader(FALSE, <<"false">>), Put("aperiodic_resource_type", T("AperiodicResourceType"))>>),
   ResourceTypePos |-> Codec(
     <<ReadChoice(0, 3, FALSE, <<Alt(0, "Periodic", T("ResourceTypePeriodicPos")),
       Alt(1, "SemiPersistent", T("ResourceTypeSemiPersistentPos")),
       Alt(2, "Aperiodic", T("ResourceTypeAperiodicPos")), AltIes(3, <<>>)>>)>>,
     <<WriteChoice(0, 3, FALSE, <<Arm("Periodic", 0, T("ResourceTypePeriodicPos")),
       Arm("SemiPersistent", 1, T("ResourceTypeSemiPersistentPos")),
       Arm("Aperiodic", 2, T("ResourceTypeAperiodicPos"))>>)>>)]
FromResourceTypePeriodicPos ==
  [ResourceTypePeriodicPos |-> Codec(
     <<ReadHeader(FALSE, 1), Get("periodicity", T("Periodicity3")),
       Get("offset", Num(0, 81919, TRUE, "u32")), ReadExtensions(1, <<>>)>>,
     <<WriteHeader(FALSE, <<"false">>), Put("periodicity", T("Periodicity3")),
       Put("offset", Num(0, 81919, TRUE, "u32"))>>),
   ResourceTypeSemiPersistentPos |-> Codec(
     <<ReadHeader(FALSE, 1), Get("periodicity", T("Periodicity4")),
       Get("offset", Num(0, 81919, TRUE, "u32")), ReadExtensions(1, <<>>)>>,
     <<WriteHeader(FALSE, <<"false">>), Put("periodicity", T("Periodicity4")),
       Put("offset", Num(0, 81919, TRUE, "u32"))>>),
   ResourceTypeAperiodicPos |-> Codec(
     <<ReadHeader(FALSE, 1), Get("slot_offset", Num(0, 32, FALSE, "u8")), ReadExtensions(1, <<>>)>>,
     <<WriteHeader(FALSE, <<"false">>), Put("slot_offset", Num(0, 32, FALSE, "u8"))>>)]
FromRlcDuplicationInformation ==
  [RlcDuplicationInformation |-> Codec(
     <<ReadHeader(FALSE, 2), Get("rlc_duplication_state_list", T("RlcDuplicationStateList")),
       GetIf(1, "primary_path_indication", T("PrimaryPathIndication")), ReadExtensions(2, <<>>)>>,
     <<WriteHeader(FALSE, <<"primary_path_indication", "false">>),
       Put("rlc_duplication_state_list", T("RlcDuplicationStateList")),
       PutIf("primary_path_indication", T("PrimaryPathIndication"))>>),
   RlcDuplicationStateList |-> Codec(
     <<Get("0", NonEmpty(1, 3, T("RlcDuplicationStateItem")))>>,
     <<Put("0", NonEmpty(1, 3, T("RlcDuplicationStateItem")))>>),
   RlcDuplicationStateItem |-> Codec(
     <<ReadHeader(TRUE, 1), Get("duplication_state", T("DuplicationState")),
       ReadExtensions(1, <<>>)>>,
     <<WriteHeader(TRUE, <<"false">>), Put("duplication_state", T("DuplicationState"))>>)]
FromRlcFailureIndication ==
  [RlcFailureIndication |-> Codec(
     <<ReadHeader(FALSE, 1), Get("assocated_lcid", T("Lcid")), ReadExtensions(1, <<>>)>>,
     <<WriteHeader(FALSE, <<"false">>), Put("assocated_lcid", T("Lcid"))>>),
   RlcMode |-> Codec(<<ReadEnum(0, 3, TRUE, 4)>>, <<WriteEnum(0, 3, TRUE)>>),
   RlcStatus |-> Codec(
     <<ReadHeader(TRUE, 1), Get("reestablishment_indication", T("ReestablishmentIndication")),
       ReadExtensions(1, <<>>)>>,
     <<WriteHeader(TRUE, <<"false">>),
       Put("reestablishment_indication", T("ReestablishmentIndication"))>>)]
FromRlfReportInformationList ==
  [RlfReportInformationList |-> Codec(
     <<Get("0", NonEmpty(1, 64, T("RlfReportInformationItem")))>>,
     <<Put("0", NonEmpty(1, 64, T("RlfReportInformationItem")))>>),
   RlfReportInformationItem |-> Codec(
     <<ReadHeader(TRUE, 2), Get("nr_ue_rlf_report_container", T("NrUeRlfReportContainer")),
       GetIf(1, "ue_assitant_identifier", T("GnbDuUeF1apId")), ReadExtensions(2, <<>>)>>,
     <<WriteHeader(TRUE, <<"ue_assitant_identifier", "false">>),
       Put("nr_ue_rlf_report_container", T("NrUeRlfReportContainer")),
       PutIf("ue_assitant_identifier", T("GnbDuUeF1apId"))>>),
   RimrsDetectionStatus |-> Codec(<<ReadEnum(0, 1, TRUE, 2)>>, <<WriteEnum(0, 1, TRUE)>>)]
FromRrcContainer ==
  [RrcContainer |-> Codec(<<Get("0", OctetString)>>, <<Put("0", OctetString)>>),
   RrcContainerRrcSetupComplete |-> Codec(<<Get("0", OctetString)>>, <<Put("0", OctetString)>>),
   RrcDeliveryStatus |-> Codec(
     <<ReadHeader(FALSE, 1), Get("delivery_status", T("PdcpSn")),
       Get("triggering_message", T("PdcpSn")), ReadExtensions(1, <<>>)>>,
     <<WriteHeader(FALSE, <<"false">>), Put("delivery_status", T("PdcpSn")),
       Put("triggering_message", T("PdcpSn"))>>),
   RrcDeliveryStatusRequest |-> Codec(<<ReadEnum(0, 0, TRUE, 1)>>, <<WriteEnum(0, 0, TRUE)>>)]
FromRrcReconfigurationCompleteIndicator ==
  [RrcReconfigurationCompleteIndicator |-> Codec(
     <<ReadEnum(0, 0, TRUE, 1)>>,
     <<WriteEnum(0, 0, TRUE)>>),
   RrcVersion |-> Codec(
     <<ReadHeader(FALSE, 1), Get("latest_rrc_version", Bits(3, 3, FALSE)),
       ReadExtensions(1, <<Ie(199, "latest_rrc_version_enhanced", OctetArray(3, 3, FALSE, 3))>>)>>,
     <<PutIeIf(199, "latest_rrc_version_enhanced", OctetArray(3, 3, FALSE, 3)),
       WriteHeader(FALSE, <<"num_ies">>), Put("latest_rrc_version", Bits(3, 3, FALSE)),
       AppendExtensions>>),
   RoutingId |-> Codec(<<Get("0", OctetString)>>, <<Put("0", OctetString)>>)]
FromSCellFailedtoSetupItem ==
  [SCellFailedtoSetupItem |-> Codec(
     <<ReadHeader(TRUE, 2), Get("s_cell_id", T("NrCgi")), GetIf(1, "cause", T("Cause")),
       ReadExtensions(2, <<>>)>>,
     <<WriteHeader(TRUE, <<"cause", "false">>), Put("s_cell_id", T("NrCgi")),
       PutIf("cause", T("Cause"))>>),
   SCellFailedtoSetupModItem |-> Codec(
     <<ReadHeader(TRUE, 2), Get("s_cell_id", T("NrCgi")), GetIf(1, "cause", T("Cause")),
       ReadExtensions(2, <<>>)>>,
     <<WriteHeader(TRUE, <<"cause", "false">>), Put("s_cell_id", T("NrCgi")),
       PutIf("cause", T("Cause"))>>),
   SCellToBeRemovedItem |-> Codec(
     <<ReadHeader(TRUE, 1), Get("s_cell_id", T("NrCgi")), ReadExtensions(1, <<>>)>>,
     <<WriteHeader(TRUE, <<"false">>), Put("s_cell_id", T("NrCgi"))>>)]
FromSCellToBeSetupItem ==
  [SCellToBeSetupItem |-> Codec(
     <<ReadHeader(TRUE, 2), Get("s_cell_id", T("NrCgi")), Get("s_cell_index", T("SCellIndex")),
       GetIf(1, "s_cell_ul_configured", T("CellUlConfigured")),
       ReadExtensions(2, <<Ie(182, "serving_cell_mo", T("ServingCellMo"))>>)>>,
     <<PutIeIf(182, "serving_cell_mo", T("ServingCellMo")),
       WriteHeader(TRUE, <<"s_cell_ul_configured", "num_ies">>), Put("s_cell_id", T("NrCgi")),
       Put("s_cell_index", T("SCellIndex")), PutIf("s_cell_ul_configured", T("CellUlConfigured")),
       AppendExtensions>>),
   SCellToBeSetupModItem |-> Codec(
     <<ReadHeader(TRUE, 2), Get("s_cell_id", T("NrCgi")), Get("s_cell_index", T("SCellIndex")),
       GetIf(1, "s_cell_ul_configured", T("CellUlConfigured")),
       ReadExtensions(2, <<Ie(182, "serving_cell_mo", T("ServingCellMo"))>>)>>,
     <<PutIeIf(182, "serving_cell_mo", T("ServingCellMo")),
       WriteHeader(TRUE, <<"s_cell_ul_configured", "num_ies">>), Put("s_cell_id", T("NrCgi")),
       Put("s_cell_index", T("SCellIndex")), PutIf("s_cell_ul_configured", T("CellUlConfigured")),
       AppendExtensions>>)]
FromSCellIndex ==
  [SCellIndex |-> Codec(
     <<Get("0", Num(1, 31, TRUE, "u8"))>>,
     <<Put("0", Num(1, 31, TRUE, "u8"))>>),
   ScgIndicator |-> Codec(<<ReadEnum(0, 0, TRUE, 1)>>, <<WriteEnum(0, 0, TRUE)>>),
   ScsSpecificCarrier |-> Codec(
     <<ReadHeader(FALSE, 1), Get("offset_to_carrier", Num(0, 2199, TRUE, "u16")),
       Get("subcarrier_spacing", T("SubcarrierSpacing3")),
       Get("carrier_bandwidth", Num(1, 275, TRUE, "u16")), ReadExtensions(1, <<>>)>>,
     <<WriteHeader(FALSE, <<"false">>), Put("offset_to_carrier", Num(0, 2199, TRUE, "u16")),
       Put("subcarrier_spacing", T("SubcarrierSpacing3")),
       Put("carrier_bandwidth", Num(1, 275, TRUE, "u16"))>>)]
FromSearchWindowInformation ==
  [SearchWindowInformation |-> Codec(
     <<ReadHeader(FALSE, 1), Get("expected_propagation_delay", Num(-3841, 3841, TRUE, "i16")),
       Get("delay_uncertainty", Num(1, 246, TRUE, "u8")), ReadExtensions(1, <<>>)>>,
     <<WriteHeader(FALSE, <<"false">>),
       Put("expected_propagation_delay", Num(-3841, 3841, TRUE, "i16")),
       Put("delay_uncertainty", Num(1, 246, TRUE, "u8"))>>),
   SerialNumber |-> Codec(<<Get("0", Bits(16, 16, FALSE))>>, <<Put("0", Bits(16, 16, FALSE))>>),
   SibTypePws |-> Codec(<<Get("0", Num(6, 8, TRUE, "u8"))>>, <<Put("0", Num(6, 8, TRUE, "u8"))>>)]
FromSelectedBandCombinationIndex ==
  [SelectedBandCombinationIndex |-> Codec(<<Get("0", OctetString)>>, <<Put("0", OctetString)>>),
   SelectedFeatureSetEntryIndex |-> Codec(<<Get("0", OctetString)>>, <<Put("0", OctetString)>>),
   CgConfigInfo |-> Codec(<<Get("0", OctetString)>>, <<Put("0", OctetString)>>),
   ServCellIndex |-> Codec(
     <<Get("0", Num(0, 31, TRUE, "u8"))>>,
     <<Put("0", Num(0, 31, TRUE, "u8"))>>),
   ServingCellMo |-> Codec(
     <<Get("0", Num(1, 64, TRUE, "u8"))>>,
     <<Put("0", Num(1, 64, TRUE, "u8"))>>)]
ServedCellInformationDecode ==
  <<ReadHeader(TRUE, 3), Get("nr_cgi", T("NrCgi")), Get("nr_pci", T("NrPci")),
    GetIf(1, "five_gs_tac", T("FiveGsTac")), GetIf(2, "configured_eps_tac", T("ConfiguredEpsTac")),
    Get("served_plmns", T("ServedPlmnsList")), Get("nr_mode_info", T("NrModeInfo")),
    Get("measurement_timing_configuration", OctetString),
    ReadExtensions(3, <<Ie(139, "ranac", T("Ranac")),
    Ie(196, "extended_served_plmns_list", T("ExtendedServedPlmnsList")),
    Ie(201, "cell_direction", T("CellDirection")),
    Ie(223, "b_plmn_id_info_list", T("BPlmnIdInfoList")), Ie(232, "cell_type", T("CellType")),
    Ie(425, "configured_tac_indication", T("ConfiguredTacIndication")),
    Ie(251, "aggressor_gnb_set_id", T("AggressorGnbSetId")),
    Ie(252, "victim_gnb_set_id", T("VictimGnbSetId")),
    Ie(290, "iab_info_iab_du", T("IabInfoIabDu")),
    Ie(357, "ssb_positions_in_burst", T("SsbPositionsInBurst")),
    Ie(358, "nr_prach_config", T("NrPrachConfig")), Ie(429, "sfn_offset", T("SfnOffset"))>>)>>
ServedCellInformationEncode ==
  <<PutIeIf(139, "ranac", T("Ranac")),
    PutIeIf(196, "extended_served_plmns_list", T("ExtendedServedPlmnsList")),
    PutIeIf(201, "cell_direction", T("CellDirection")),
    PutIeIf(223, "b_plmn_id_info_list", T("BPlmnIdInfoList")),
    PutIeIf(232, "cell_type", T("CellType")),
    PutIeIf(425, "configured_tac_indication", T("ConfiguredTacIndication")),
    PutIeIf(251, "aggressor_gnb_set_id", T("AggressorGnbSetId")),
    PutIeIf(252, "victim_gnb_set_id", T("VictimGnbSetId")),
    PutIeIf(290, "iab_info_iab_du", T("IabInfoIabDu")),
    PutIeIf(357, "ssb_positions_in_burst", T("SsbPositionsInBurst")),
    PutIeIf(358, "nr_prach_config", T("NrPrachConfig")), PutIeIf(429, "sfn_offset", T("SfnOffset")),
    WriteHeader(TRUE, <<"five_gs_tac", "configured_eps_tac", "num_ies">>),
    Put("nr_cgi", T("NrCgi")), Put("nr_pci", T("NrPci")), PutIf("five_gs_tac", T("FiveGsTac")),
    PutIf("configured_eps_tac", T("ConfiguredEpsTac")), Put("served_plmns", T("ServedPlmnsList")),
    Put("nr_mode_info", T("NrModeInfo")), Put("measurement_timing_configuration", OctetString),
    AppendExtensions>>
FromServedCellInformation ==
  [ServedCellInformation |-> Codec(ServedCellInformationDecode, ServedCellInformationEncode)]
FromSfnOffset ==
  [SfnOffset |-> Codec(
     <<ReadHeader(TRUE, 1), Get("sfn_time_offset", Bits(24, 24, FALSE)), ReadExtensions(1, <<>>)>>,
     <<WriteHeader(TRUE, <<"false">>), Put("sfn_time_offset", Bits(24, 24, FALSE))>>),
   ServedCellsToAddItem |-> Codec(
     <<ReadHeader(TRUE, 2), Get("served_cell_information", T("ServedCellInformation")),
       GetIf(1, "gnb_du_system_information", T("GnbDuSystemInformation")), ReadExtensions(2, <<>>)>>,
     <<WriteHeader(TRUE, <<"gnb_du_system_information", "false">>),
       Put("served_cell_information", T("ServedCellInformation")),
       PutIf("gnb_du_system_information", T("GnbDuSystemInformation"))>>),
   ServedCellsToDeleteItem |-> Codec(
     <<ReadHeader(TRUE, 1), Get("old_nr_cgi", T("NrCgi")), ReadExtensions(1, <<>>)>>,
     <<WriteHeader(TRUE, <<"false">>), Put("old_nr_cgi", T("NrCgi"))>>)]
FromServedCellsToModifyItem ==
  [ServedCellsToModifyItem |-> Codec(
     <<ReadHeader(TRUE, 2), Get("old_nr_cgi", T("NrCgi")),
       Get("served_cell_information", T("ServedCellInformation")),
       GetIf(1, "gnb_du_system_information", T("GnbDuSystemInformation")), ReadExtensions(2, <<>>)>>,
     <<WriteHeader(TRUE, <<"gnb_du_system_information", "false">>), Put("old_nr_cgi", T("NrCgi")),
       Put("served_cell_information", T("ServedCellInformation")),
       PutIf("gnb_du_system_information", T("GnbDuSystemInformation"))>>),
   ServedEutraCellsInformation |-> Codec(
     <<ReadHeader(TRUE, 1), Get("eutra_mode_info", T("EutraModeInfo")),
       Get("protected_eutra_resource_indication", T("ProtectedEutraResourceIndication")),
       ReadExtensions(1, <<>>)>>,
     <<WriteHeader(TRUE, <<"false">>), Put("eutra_mode_info", T("EutraModeInfo")),
       Put("protected_eutra_resource_indication", T("ProtectedEutraResourceIndication"))>>),
   ServiceState |-> Codec(<<ReadEnum(0, 1, TRUE, 2)>>, <<WriteEnum(0, 1, TRUE)>>)]
FromServiceStatus ==
  [ServiceStatus |-> Codec(
     <<ReadHeader(TRUE, 2), Get("service_state", T("ServiceState")),
       GetIf(1, "switching_off_ongoing", T("SwitchingOffOngoing")), ReadExtensions(2, <<>>)>>,
     <<WriteHeader(TRUE, <<"switching_off_ongoing", "false">>),
       Put("service_state", T("ServiceState")),
       PutIf("switching_off_ongoing", T("SwitchingOffOngoing"))>>),
   RelativeTime1900 |-> Codec(
     <<Get("0", Bits(64, 64, FALSE))>>,
     <<Put("0", Bits(64, 64, FALSE))>>),
   ShortDrxCycleLength |-> Codec(<<ReadEnum(0, 22, TRUE, 23)>>, <<WriteEnum(0, 22, TRUE)>>)]
FromShortDrxCycleTimer ==
  [ShortDrxCycleTimer |-> Codec(
     <<Get("0", Num(1, 16, FALSE, "u8"))>>,
     <<Put("0", Num(1, 16, FALSE, "u8"))>>),
   Sib1Message |-> Codec(<<Get("0", OctetString)>>, <<Put("0", OctetString)>>),
   Sib10Message |-> Codec(<<Get("0", OctetString)>>, <<Put("0", OctetString)>>),
   Sib12Message |-> Codec(<<Get("0", OctetString)>>, <<Put("0", OctetString)>>),
   Sib13Message |-> Codec(<<Get("0", OctetString)>>, <<Put("0", OctetString)>>)]
FromSib14Message ==
  [Sib14Message |-> Codec(<<Get("0", OctetString)>>, <<Put("0", OctetString)>>),
   SiType |-> Codec(<<Get("0", Num(1, 32, TRUE, "u8"))>>, <<Put("0", Num(1, 32, TRUE, "u8"))>>),
   SiTypeList |-> Codec(
     <<Get("0", NonEmpty(1, 32, T("SiTypeItem")))>>,
     <<Put("0", NonEmpty(1, 32, T("SiTypeItem")))>>),
   SiTypeItem |-> Codec(
     <<ReadHeader(FALSE, 1), Get("si_type", T("SiType")), ReadExtensions(1, <<>>)>>,
     <<WriteHeader(FALSE, <<"false">>), Put("si_type", T("SiType"))>>)]
FromSibTypeToBeUpdatedListItem ==
  [SibTypeToBeUpdatedListItem |-> Codec(
     <<ReadHeader(TRUE, 1), Get("sib_type", Num(2, 32, TRUE, "u8")),
       Get("sib_message", OctetString), Get("value_tag", Num(0, 31, TRUE, "u8")),
       ReadExtensions(1, <<Ie(240, "area_scope", T("AreaScope"))>>)>>,
     <<PutIeIf(240, "area_scope", T("AreaScope")), WriteHeader(TRUE, <<"num_ies">>),
       Put("sib_type", Num(2, 32, TRUE, "u8")), Put("sib_message", OctetString),
       Put("value_tag", Num(0, 31, TRUE, "u8")), AppendExtensions>>),
   SlDrbId |-> Codec(
     <<Get("0", Num(1, 512, TRUE, "u16"))>>,
     <<Put("0", Num(1, 512, TRUE, "u16"))>>),
   SlDrbInformation |-> Codec(
     <<ReadHeader(TRUE, 0), Get("sl_drb_qos", T("Pc5QosParameters")),
       Get("flows_mapped_to_sl_drb_list", T("FlowsMappedToSlDrbList"))>>,
     <<WriteHeader(TRUE, <<>>), Put("sl_drb_qos", T("Pc5QosParameters")),
       Put("flows_mapped_to_sl_drb_list", T("FlowsMappedToSlDrbList"))>>)]
FromSlDrbsFailedToBeModifiedItem ==
  [SlDrbsFailedToBeModifiedItem |-> Codec(
     <<ReadHeader(FALSE, 2), Get("sl_drb_id", T("SlDrbId")), GetIf(1, "cause", T("Cause")),
       ReadExtensions(2, <<>>)>>,
     <<WriteHeader(FALSE, <<"cause", "false">>), Put("sl_drb_id", T("SlDrbId")),
       PutIf("cause", T("Cause"))>>),
   SlDrbsFailedToBeSetupItem |-> Codec(
     <<ReadHeader(FALSE, 2), Get("sl_drb_id", T("SlDrbId")), GetIf(1, "cause", T("Cause")),
       ReadExtensions(2, <<>>)>>,
     <<WriteHeader(FALSE, <<"cause", "false">>), Put("sl_drb_id", T("SlDrbId")),
       PutIf("cause", T("Cause"))>>),
   SlDrbsFailedToBeSetupModItem |-> Codec(
     <<ReadHeader(FALSE, 2), Get("sl_drb_id", T("SlDrbId")), GetIf(1, "cause", T("Cause")),
       ReadExtensions(2, <<>>)>>,
     <<WriteHeader(FALSE, <<"cause", "false">>), Put("sl_drb_id", T("SlDrbId")),
       PutIf("cause", T("Cause"))>>)]
FromSlDrbsModifiedItem ==
  [SlDrbsModifiedItem |-> Codec(
     <<ReadHeader(FALSE, 1), Get("sl_drb_id", T("SlDrbId")), ReadExtensions(1, <<>>)>>,
     <<WriteHeader(FALSE, <<"false">>), Put("sl_drb_id", T("SlDrbId"))>>),
   SlDrbsModifiedConfItem |-> Codec(
     <<ReadHeader(FALSE, 1), Get("sl_drb_id", T("SlDrbId")), ReadExtensions(1, <<>>)>>,
     <<WriteHeader(FALSE, <<"false">>), Put("sl_drb_id", T("SlDrbId"))>>),
   SlDrbsRequiredToBeModifiedItem |-> Codec(
     <<ReadHeader(FALSE, 1), Get("sl_drb_id", T("SlDrbId")), ReadExtensions(1, <<>>)>>,
     <<WriteHeader(FALSE, <<"false">>), Put("sl_drb_id", T("SlDrbId"))>>)]
FromSlDrbsRequiredToBeReleasedItem ==
  [SlDrbsRequiredToBeReleasedItem |-> Codec(
     <<ReadHeader(FALSE, 1), Get("sl_drb_id", T("SlDrbId")), ReadExtensions(1, <<>>)>>,
     <<WriteHeader(FALSE, <<"false">>), Put("sl_drb_id", T("SlDrbId"))>>),
   SlDrbsSetupItem |-> Codec(
     <<ReadHeader(FALSE, 1), Get("sl_drb_id", T("SlDrbId")), ReadExtensions(1, <<>>)>>,
     <<WriteHeader(FALSE, <<"false">>), Put("sl_drb_id", T("SlDrbId"))>>),
   SlDrbsSetupModItem |-> Codec(
     <<ReadHeader(FALSE, 1), Get("sl_drb_id", T("SlDrbId")), ReadExtensions(1, <<>>)>>,
     <<WriteHeader(FALSE, <<"false">>), Put("sl_drb_id", T("SlDrbId"))>>)]
FromSlDrbsToBeModifiedItem ==
  [SlDrbsToBeModifiedItem |-> Codec(
     <<ReadHeader(FALSE, 3), Get("sl_drb_id", T("SlDrbId")),
       GetIf(1, "sl_drb_information", T("SlDrbInformation")), GetIf(2, "rlc_mode", T("RlcMode")),
       ReadExtensions(3, <<>>)>>,
     <<WriteHeader(FALSE, <<"sl_drb_information", "rlc_mode", "false">>),
       Put("sl_drb_id", T("SlDrbId")), PutIf("sl_drb_information", T("SlDrbInformation")),
       PutIf("rlc_mode", T("RlcMode"))>>),
   SlDrbsToBeReleasedItem |-> Codec(
     <<ReadHeader(FALSE, 1), Get("sl_drb_id", T("SlDrbId")), ReadExtensions(1, <<>>)>>,
     <<WriteHeader(FALSE, <<"false">>), Put("sl_drb_id", T("SlDrbId"))>>),
   SlDrbsToBeSetupItem |-> Codec(
     <<ReadHeader(FALSE, 1), Get("sl_drb_id", T("SlDrbId")),
       Get("sl_drb_information", T("SlDrbInformation")), Get("rlc_mode", T("RlcMode")),
       ReadExtensions(1, <<>>)>>,
     <<WriteHeader(FALSE, <<"false">>), Put("sl_drb_id", T("SlDrbId")),
       Put("sl_drb_information", T("SlDrbInformation")), Put("rlc_mode", T("RlcMode"))>>)]
FromSlDrbsToBeSetupModItem ==
  [SlDrbsToBeSetupModItem |-> Codec(
     <<ReadHeader(FALSE, 2), Get("sl_drb_id", T("SlDrbId")),
       Get("sl_drb_information", T("SlDrbInformation")), GetIf(1, "rlc_mode", T("RlcMode")),
       ReadExtensions(2, <<>>)>>,
     <<WriteHeader(FALSE, <<"rlc_mode", "false">>), Put("sl_drb_id", T("SlDrbId")),
       Put("sl_drb_information", T("SlDrbInformation")), PutIf("rlc_mode", T("RlcMode"))>>),
   SlPhyMacRlcConfig |-> Codec(<<Get("0", OctetString)>>, <<Put("0", OctetString)>>),
   SlConfigDedicatedEutraInfo |-> Codec(<<Get("0", OctetString)>>, <<Put("0", OctetString)>>),
   SliceAvailableCapacity |-> Codec(
     <<ReadHeader(FALSE, 1), Get("slice_available_capacity_list", T("SliceAvailableCapacityList")),
       ReadExtensions(1, <<>>)>>,
     <<WriteHeader(FALSE, <<"false">>),
       Put("slice_available_capacity_list", T("SliceAvailableCapacityList"))>>)]
FromSliceAvailableCapacityList ==
  [SliceAvailableCapacityList |-> Codec(
     <<Get("0", NonEmpty(1, 12, T("SliceAvailableCapacityItem")))>>,
     <<Put("0", NonEmpty(1, 12, T("SliceAvailableCapacityItem")))>>),
   SliceAvailableCapacityItem |-> Codec(
     <<ReadHeader(FALSE, 1), Get("plmn_identity", T("PlmnIdentity")),
       Get("snssai_available_capacity_list", T("SnssaiAvailableCapacityList")),
       ReadExtensions(1, <<>>)>>,
     <<WriteHeader(FALSE, <<"false">>), Put("plmn_identity", T("PlmnIdentity")),
       Put("snssai_available_capacity_list", T("SnssaiAvailableCapacityList"))>>),
   SnssaiAvailableCapacityList |-> Codec(
     <<Get("0", NonEmpty(1, 1024, T("SnssaiAvailableCapacityItem")))>>,
     <<Put("0", NonEmpty(1, 1024, T("SnssaiAvailableCapacityItem")))>>)]
FromSnssaiAvailableCapacityItem ==
  [SnssaiAvailableCapacityItem |-> Codec(
     <<ReadHeader(FALSE, 3), Get("snssai", T("Snssai")),
       GetIf(1, "slice_available_capacity_value_downlink", Num(0, 100, FALSE, "u8")),
       GetIf(2, "slice_available_capacity_value_uplink", Num(0, 100, FALSE, "u8")),
       ReadExtensions(3, <<>>)>>,
     <<WriteHeader(FALSE, <<"slice_available_capacity_value_downlink",
       "slice_available_capacity_value_uplink", "false">>), Put("snssai", T("Snssai")),
       PutIf("slice_available_capacity_value_downlink", Num(0, 100, FALSE, "u8")),
       PutIf("slice_available_capacity_value_uplink", Num(0, 100, FALSE, "u8"))>>),
   SliceSupportList |-> Codec(
     <<Get("0", NonEmpty(1, 1024, T("SliceSupportItem")))>>,
     <<Put("0", NonEmpty(1, 1024, T("SliceSupportItem")))>>),
   SliceSupportItem |-> Codec(
     <<ReadHeader(FALSE, 1), Get("snssai", T("Snssai")), ReadExtensions(1, <<>>)>>,
     <<WriteHeader(FALSE, <<"false">>), Put("snssai", T("Snssai"))>>)]
FromSliceToReportList ==
  [SliceToReportList |-> Codec(
     <<Get("0", NonEmpty(1, 12, T("SliceToReportItem")))>>,
     <<Put("0", NonEmpty(1, 12, T("SliceToReportItem")))>>),
   SliceToReportItem |-> Codec(
     <<ReadHeader(FALSE, 1), Get("plmn_identity", T("PlmnIdentity")),
       Get("snssa_ilist", T("SnssaiList")), ReadExtensions(1, <<>>)>>,
     <<WriteHeader(FALSE, <<"false">>), Put("plmn_identity", T("PlmnIdentity")),
       Put("snssa_ilist", T("SnssaiList"))>>),
   SlotNumber |-> Codec(
     <<Get("0", Num(0, 79, FALSE, "u8"))>>,
     <<Put("0", Num(0, 79, FALSE, "u8"))>>),
   SnssaiList |-> Codec(
     <<Get("0", NonEmpty(1, 1024, T("SnssaiItem")))>>,
     <<Put("0", NonEmpty(1, 1024, T("SnssaiItem")))>>)]
FromSnssaiItem ==
  [SnssaiItem |-> Codec(
     <<ReadHeader(FALSE, 1), Get("snssai", T("Snssai")), ReadExtensions(1, <<>>)>>,
     <<WriteHeader(FALSE, <<"false">>), Put("snssai", T("Snssai"))>>),
   SlotConfigurationList |-> Codec(
     <<Get("0", NonEmpty(1, 5120, T("SlotConfigurationItem")))>>,
     <<Put("0", NonEmpty(1, 5120, T("SlotConfigurationItem")))>>),
   SlotConfigurationItem |-> Codec(
     <<ReadHeader(FALSE, 1), Get("slot_index", Num(0, 5119, TRUE, "u16")),
       Get("symbol_alloc_in_slot", T("SymbolAllocInSlot")), ReadExtensions(1, <<>>)>>,
     <<WriteHeader(FALSE, <<"false">>), Put("slot_index", Num(0, 5119, TRUE, "u16")),
       Put("symbol_alloc_in_slot", T("SymbolAllocInSlot"))>>)]
FromSnssai ==
  [Snssai |-> Codec(
     <<ReadHeader(FALSE, 2), Get("sst", OctetArray(1, 1, FALSE, 1)),
       GetIf(1, "sd", OctetArray(3, 3, FALSE, 3)), ReadExtensions(2, <<>>)>>,
     <<WriteHeader(FALSE, <<"sd", "false">>), Put("sst", OctetArray(1, 1, FALSE, 1)),
       PutIf("sd", OctetArray(3, 3, FALSE, 3))>>),
   SpatialDirectionInformation |-> Codec(
     <<ReadHeader(FALSE, 1), Get("nr_prs_beam_information", T("NrPrsBeamInformation")),
       ReadExtensions(1, <<>>)>>,
     <<WriteHeader(FALSE, <<"false">>), Put("nr_prs_beam_information", T("NrPrsBeamInformation"))>>),
   SpatialRelationInfo |-> Codec(
     <<ReadHeader(FALSE, 1),
       Get("spatial_relationfor_resource_id", T("SpatialRelationforResourceId")),
       ReadExtensions(1, <<>>)>>,
     <<WriteHeader(FALSE, <<"false">>),
       Put("spatial_relationfor_resource_id", T("SpatialRelationforResourceId"))>>)]
FromSpatialRelationforResourceId ==
  [SpatialRelationforResourceId |-> Codec(
     <<Get("0", NonEmpty(1, 64, T("SpatialRelationforResourceIdItem")))>>,
     <<Put("0", NonEmpty(1, 64, T("SpatialRelationforResourceIdItem")))>>),
   SpatialRelationforResourceIdItem |-> Codec(
     <<ReadHeader(FALSE, 1), Get("reference_signal", T("ReferenceSignal")),
       ReadExtensions(1, <<>>)>>,
     <<WriteHeader(FALSE, <<"false">>), Put("reference_signal", T("ReferenceSignal"))>>),
   SpatialRelationPos |-> Codec(
     <<ReadChoice(0, 2, FALSE, <<Alt(0, "SsbPos", T("Ssb")),
       Alt(1, "PrsInformationPos", T("PrsInformationPos")), AltIes(2, <<>>)>>)>>,
     <<WriteChoice(0, 2, FALSE, <<Arm("SsbPos", 0, T("Ssb")),
       Arm("PrsInformationPos", 1, T("PrsInformationPos"))>>)>>)]
FromSpectrumSharingGroupId ==
  [SpectrumSharingGroupId |-> Codec(
     <<Get("0", Num(1, 256, FALSE, "u16"))>>,
     <<Put("0", Num(1, 256, FALSE, "u16"))>>),
   SrbId |-> Codec(<<Get("0", Num(0, 3, TRUE, "u8"))>>, <<Put("0", Num(0, 3, TRUE, "u8"))>>),
   SrbsFailedToBeSetupItem |-> Codec(
     <<ReadHeader(TRUE, 2), Get("srb_id", T("SrbId")), GetIf(1, "cause", T("Cause")),
       ReadExtensions(2, <<>>)>>,
     <<WriteHeader(TRUE, <<"cause", "false">>), Put("srb_id", T("SrbId")),
       PutIf("cause", T("Cause"))>>),
   SrbsFailedToBeSetupModItem |-> Codec(
     <<ReadHeader(TRUE, 2), Get("srb_id", T("SrbId")), GetIf(1, "cause", T("Cause")),
       ReadExtensions(2, <<>>)>>,
     <<WriteHeader(TRUE, <<"cause", "false">>), Put("srb_id", T("SrbId")),
       PutIf("cause", T("Cause"))>>)]
FromSrbsModifiedItem ==
  [SrbsModifiedItem |-> Codec(
     <<ReadHeader(TRUE, 1), Get("srb_id", T("SrbId")), Get("lcid", T("Lcid")),
       ReadExtensions(1, <<>>)>>,
     <<WriteHeader(TRUE, <<"false">>), Put("srb_id", T("SrbId")), Put("lcid", T("Lcid"))>>),
   SrbsRequiredToBeReleasedItem |-> Codec(
     <<ReadHeader(TRUE, 1), Get("srb_id", T("SrbId")), ReadExtensions(1, <<>>)>>,
     <<WriteHeader(TRUE, <<"false">>), Put("srb_id", T("SrbId"))>>),
   SrbsSetupItem |-> Codec(
     <<ReadHeader(TRUE, 1), Get("srb_id", T("SrbId")), Get("lcid", T("Lcid")),
       ReadExtensions(1, <<>>)>>,
     <<WriteHeader(TRUE, <<"false">>), Put("srb_id", T("SrbId")), Put("lcid", T("Lcid"))>>)]
FromSrbsSetupModItem ==
  [SrbsSetupModItem |-> Codec(
     <<ReadHeader(TRUE, 1), Get("srb_id", T("SrbId")), Get("lcid", T("Lcid")),
       ReadExtensions(1, <<>>)>>,
     <<WriteHeader(TRUE, <<"false">>), Put("srb_id", T("SrbId")), Put("lcid", T("Lcid"))>>),
   SrbsToBeReleasedItem |-> Codec(
     <<ReadHeader(TRUE, 1), Get("srb_id", T("SrbId")), ReadExtensions(1, <<>>)>>,
     <<WriteHeader(TRUE, <<"false">>), Put("srb_id", T("SrbId"))>>),
   SrbsToBeSetupItem |-> Codec(
     <<ReadHeader(TRUE, 2), Get("srb_id", T("SrbId")),
       GetIf(1, "duplication_indication", T("DuplicationIndication")),
       ReadExtensions(2, <<Ie(372, "additional_duplication_indication", T("AdditionalDuplicationIndication"))>>)>>,
     <<PutIeIf(372, "additional_duplication_indication", T("AdditionalDuplicationIndication")),
       WriteHeader(TRUE, <<"duplication_indication", "num_ies">>), Put("srb_id", T("SrbId")),
       PutIf("duplication_indication", T("DuplicationIndication")), AppendExtensions>>)]
FromSrbsToBeSetupModItem ==
  [SrbsToBeSetupModItem |-> Codec(
     <<ReadHeader(TRUE, 2), Get("srb_id", T("SrbId")),
       GetIf(1, "duplication_indication", T("DuplicationIndication")),
       ReadExtensions(2, <<Ie(372, "additional_duplication_indication", T("AdditionalDuplicationIndication"))>>)>>,
     <<PutIeIf(372, "additional_duplication_indication", T("AdditionalDuplicationIndication")),
       WriteHeader(TRUE, <<"duplication_indication", "num_ies">>), Put("srb_id", T("SrbId")),
       PutIf("duplication_indication", T("DuplicationIndication")), AppendExtensions>>),
   SrsCarrierList |-> Codec(
     <<Get("0", NonEmpty(1, 32, T("SrsCarrierListItem")))>>,
     <<Put("0", NonEmpty(1, 32, T("SrsCarrierListItem")))>>),
   SrsCarrierListItem |-> Codec(
     <<ReadHeader(FALSE, 2), Get("point_a", Num(0, 3279165, FALSE, "u32")),
       Get("uplink_channel_bw_per_scs_list", T("UplinkChannelBwPerScsList")),
       Get("active_ul_bwp", T("ActiveUlBwp")), GetIf(1, "pci", T("NrPci")),
       ReadExtensions(2, <<>>)>>,
     <<WriteHeader(FALSE, <<"pci", "false">>), Put("point_a", Num(0, 3279165, FALSE, "u32")),
       Put("uplink_channel_bw_per_scs_list", T("UplinkChannelBwPerScsList")),
       Put("active_ul_bwp", T("ActiveUlBwp")), PutIf("pci", T("NrPci"))>>)]
FromSrsConfig ==
  [SrsConfig |-> Codec(
     <<ReadHeader(FALSE, 5), GetIf(1, "srs_resource_list", T("SrsResourceList")),
       GetIf(2, "pos_srs_resource_list", T("PosSrsResourceList")),
       GetIf(3, "srs_resource_set_list", T("SrsResourceSetList1")),
       GetIf(4, "pos_srs_resource_set_list", T("PosSrsResourceSetList")), ReadExtensions(5, <<>>)>>,
     <<WriteHeader(FALSE, <<"srs_resource_list", "pos_srs_resource_list", "srs_resource_set_list",
       "pos_srs_resource_set_list", "false">>), PutIf("srs_resource_list", T("SrsResourceList")),
       PutIf("pos_srs_resource_list", T("PosSrsResourceList")),
       PutIf("srs_resource_set_list", T("SrsResourceSetList1")),
       PutIf("pos_srs_resource_set_list", T("PosSrsResourceSetList"))>>),
   SrsConfiguration |-> Codec(
     <<ReadHeader(FALSE, 1), Get("srs_carrier_list", T("SrsCarrierList")), ReadExtensions(1, <<>>)>>,
     <<WriteHeader(FALSE, <<"false">>), Put("srs_carrier_list", T("SrsCarrierList"))>>)]
FromSrsFrequency ==
  [SrsFrequency |-> Codec(
     <<Get("0", Num(0, 3279165, FALSE, "u32"))>>,
     <<Put("0", Num(0, 3279165, FALSE, "u32"))>>),
   SrsPosResourceId |-> Codec(
     <<Get("0", Num(0, 63, FALSE, "u8"))>>,
     <<Put("0", Num(0, 63, FALSE, "u8"))>>),
   SrsResource |-> Codec(
     <<ReadHeader(FALSE, 1), Get("srs_resource_id", T("SrsResourceId")),
       Get("nrof_srs_ports", T("NrofSrsPorts")), Get("transmission_comb", T("TransmissionComb")),
       Get("start_position", Num(0, 13, FALSE, "u8")), Get("nrof_symbols", T("NrofSymbols1")),
       Get("repetition_factor", T("RepetitionFactor")),
       Get("freq_domain_position", Num(0, 67, FALSE, "u8")),
       Get("freq_domain_shift", Num(0, 268, FALSE, "u16")), Get("c_srs", Num(0, 63, FALSE, "u8")),
       Get("b_srs", Num(0, 3, FALSE, "u8")), Get("b_hop", Num(0, 3, FALSE, "u8")),
       Get("group_or_sequence_hopping", T("GroupOrSequenceHopping1")),
       Get("resource_type", T("ResourceType")), Get("sequence_id", Num(0, 1023, FALSE, "u16")),
       ReadExtensions(1, <<>>)>>,
     <<WriteHeader(FALSE, <<"false">>), Put("srs_resource_id", T("SrsResourceId")),
       Put("nrof_srs_ports", T("NrofSrsPorts")), Put("transmission_comb", T("TransmissionComb")),
       Put("start_position", Num(0, 13, FALSE, "u8")), Put("nrof_symbols", T("NrofSymbols1")),
       Put("repetition_factor", T("RepetitionFactor")),
       Put("freq_domain_position", Num(0, 67, FALSE, "u8")),
       Put("freq_domain_shift", Num(0, 268, FALSE, "u16")), Put("c_srs", Num(0, 63, FALSE, "u8")),
       Put("b_srs", Num(0, 3, FALSE, "u8")), Put("b_hop", Num(0, 3, FALSE, "u8")),
       Put("group_or_sequence_hopping", T("GroupOrSequenceHopping1")),
       Put("resource_type", T("ResourceType")), Put("sequence_id", Num(0, 1023, FALSE, "u16"))>>)]
FromSrsResourceId ==
  [SrsResourceId |-> Codec(
     <<Get("0", Num(0, 63, FALSE, "u8"))>>,
     <<Put("0", Num(0, 63, FALSE, "u8"))>>),
   SrsResourceIdList |-> Codec(
     <<Get("0", NonEmpty(1, 16, T("SrsResourceId")))>>,
     <<Put("0", NonEmpty(1, 16, T("SrsResourceId")))>>),
   SrsResourceList |-> Codec(
     <<Get("0", NonEmpty(1, 64, T("SrsResource")))>>,
     <<Put("0", NonEmpty(1, 64, T("SrsResource")))>>),
   SrsResourceSet |-> Codec(
     <<ReadHeader(FALSE, 1), Get("srs_resource_set_id", T("SrsResourceSetId")),
       Get("srs_resource_id_list", T("SrsResourceIdList")),
       Get("resource_set_type", T("ResourceSetType")), ReadExtensions(1, <<>>)>>,
     <<WriteHeader(FALSE, <<"false">>), Put("srs_resource_set_id", T("SrsResourceSetId")),
       Put("srs_resource_id_list", T("SrsResourceIdList")),
       Put("resource_set_type", T("ResourceSetType"))>>)]
FromSrsResourceSetId ==
  [SrsResourceSetId |-> Codec(
     <<Get("0", Num(0, 15, TRUE, "u8"))>>,
     <<Put("0", Num(0, 15, TRUE, "u8"))>>),
   SrsResourceSetList |-> Codec(
     <<Get("0", NonEmpty(1, 16, T("SrsResourceSetItem")))>>,
     <<Put("0", NonEmpty(1, 16, T("SrsResourceSetItem")))>>),
   SrsResourceSetItem |-> Codec(
     <<ReadHeader(FALSE, 5), GetIf(1, "num_sr_sresourcesperset", Num(1, 16, TRUE, "u8")),
       GetIf(2, "periodicity_list", T("PeriodicityList")),
       GetIf(3, "spatial_relation_info", T("SpatialRelationInfo")),
       GetIf(4, "pathloss_reference_info", T("PathlossReferenceInfo")), ReadExtensions(5, <<>>)>>,
     <<WriteHeader(FALSE, <<"num_sr_sresourcesperset", "periodicity_list", "spatial_relation_info",
       "pathloss_reference_info", "false">>),
       PutIf("num_sr_sresourcesperset", Num(1, 16, TRUE, "u8")),
       PutIf("periodicity_list", T("PeriodicityList")),
       PutIf("spatial_relation_info", T("SpatialRelationInfo")),
       PutIf("pathloss_reference_info", T("PathlossReferenceInfo"))>>)]
FromSrsResourceSetList1 ==
  [SrsResourceSetList1 |-> Codec(
     <<Get("0", NonEmpty(1, 16, T("SrsResourceSet")))>>,
     <<Put("0", NonEmpty(1, 16, T("SrsResourceSet")))>>),
   SrsResourceTrigger |-> Codec(
     <<ReadHeader(FALSE, 1),
       Get("aperiodic_srs_resource_trigger_list", T("AperiodicSrsResourceTriggerList")),
       ReadExtensions(1, <<>>)>>,
     <<WriteHeader(FALSE, <<"false">>),
       Put("aperiodic_srs_resource_trigger_list", T("AperiodicSrsResourceTriggerList"))>>),
   Ssb |-> Codec(
     <<ReadHeader(FALSE, 2), Get("pci_nr", T("NrPci")), GetIf(1, "ssb_index", T("SsbIndex")),
       ReadExtensions(2, <<>>)>>,
     <<WriteHeader(FALSE, <<"ssb_index", "false">>), Put("pci_nr", T("NrPci")),
       PutIf("ssb_index", T("SsbIndex"))>>)]
FromSsbFreqInfo ==
  [SsbFreqInfo |-> Codec(
     <<Get("0", Num(0, 3279165, FALSE, "u32"))>>,
     <<Put("0", Num(0, 3279165, FALSE, "u32"))>>),
   SsbIndex |-> Codec(
     <<Get("0", Num(0, 63, FALSE, "u8"))>>,
     <<Put("0", Num(0, 63, FALSE, "u8"))>>),
   SsbSubcarrierSpacing |-> Codec(<<ReadEnum(0, 6, TRUE, 7)>>, <<WriteEnum(0, 6, TRUE)>>),
   SsbTransmissionPeriodicity |-> Codec(<<ReadEnum(0, 6, TRUE, 7)>>, <<WriteEnum(0, 6, TRUE)>>)]
FromSsbTransmissionTimingOffset ==
  [SsbTransmissionTimingOffset |-> Codec(
     <<Get("0", Num(0, 127, TRUE, "u8"))>>,
     <<Put("0", Num(0, 127, TRUE, "u8"))>>),
   SsbTransmissionBitmap |-> Codec(
     <<ReadChoice(0, 3, FALSE, <<Alt(0, "ShortBitmap", Bits(4, 4, FALSE)),
       Alt(1, "MediumBitmap", Bits(8, 8, FALSE)), Alt(2, "LongBitmap", Bits(64, 64, FALSE)),
       AltIes(3, <<>>)>>)>>,
     <<WriteChoice(0, 3, FALSE, <<Arm("ShortBitmap", 0, Bits(4, 4, FALSE)),
       Arm("MediumBitmap", 1, Bits(8, 8, FALSE)), Arm("LongBitmap", 2, Bits(64, 64, FALSE))>>)>>),
   SsbAreaCapacityValueList |-> Codec(
     <<Get("0", NonEmpty(1, 64, T("SsbAreaCapacityValueItem")))>>,
     <<Put("0", NonEmpty(1, 64, T("SsbAreaCapacityValueItem")))>>)]
FromSsbAreaCapacityValueItem ==
  [SsbAreaCapacityValueItem |-> Codec(
     <<ReadHeader(FALSE, 1), Get("ssb_index", Num(0, 63, FALSE, "u8")),
       Get("ssb_area_capacity_value", Num(0, 100, FALSE, "u8")), ReadExtensions(1, <<>>)>>,
     <<WriteHeader(FALSE, <<"false">>), Put("ssb_index", Num(0, 63, FALSE, "u8")),
       Put("ssb_area_capacity_value", Num(0, 100, FALSE, "u8"))>>),
   SsbAreaRadioResourceStatusList |-> Codec(
     <<Get("0", NonEmpty(1, 64, T("SsbAreaRadioResourceStatusItem")))>>,
     <<Put("0", NonEmpty(1, 64, T("SsbAreaRadioResourceStatusItem")))>>)]
FromSsbAreaRadioResourceStatusItem ==
  [SsbAreaRadioResourceStatusItem |-> Codec(
     <<ReadHeader(FALSE, 3), Get("ssb_index", Num(0, 63, FALSE, "u8")),
       Get("ssb_area_dl_gbrpr_busage", Num(0, 100, FALSE, "u8")),
       Get("ssb_area_ul_gbrpr_busage", Num(0, 100, FALSE, "u8")),
       Get("ssb_area_dl_non_gbrpr_busage", Num(0, 100, FALSE, "u8")),
       Get("ssb_area_ul_non_gbrpr_busage", Num(0, 100, FALSE, "u8")),
       Get("ssb_area_dl_total_pr_busage", Num(0, 100, FALSE, "u8")),
       Get("ssb_area_ul_total_pr_busage", Num(0, 100, FALSE, "u8")),
       GetIf(1, "d_lscheduling_pdcchcc_eusage", Num(0, 100, FALSE, "u8")),
       GetIf(2, "u_lscheduling_pdcchcc_eusage", Num(0, 100, FALSE, "u8")), ReadExtensions(3, <<>>)>>,
     <<WriteHeader(FALSE, <<"d_lscheduling_pdcchcc_eusage", "u_lscheduling_pdcchcc_eusage",
       "false">>), Put("ssb_index", Num(0, 63, FALSE, "u8")),
       Put("ssb_area_dl_gbrpr_busage", Num(0, 100, FALSE, "u8")),
       Put("ssb_area_ul_gbrpr_busage", Num(0, 100, FALSE, "u8")),
       Put("ssb_area_dl_non_gbrpr_busage", Num(0, 100, FALSE, "u8")),
       Put("ssb_area_ul_non_gbrpr_busage", Num(0, 100, FALSE, "u8")),
       Put("ssb_area_dl_total_pr_busage", Num(0, 100, FALSE, "u8")),
       Put("ssb_area_ul_total_pr_busage", Num(0, 100, FALSE, "u8")),
       PutIf("d_lscheduling_pdcchcc_eusage", Num(0, 100, FALSE, "u8")),
       PutIf("u_lscheduling_pdcchcc_eusage", Num(0, 100, FALSE, "u8"))>>)]
FromSsbInformation ==
  [SsbInformation |-> Codec(
     <<ReadHeader(FALSE, 1), Get("ssb_information_list", T("SsbInformationList")),
       ReadExtensions(1, <<>>)>>,
     <<WriteHeader(FALSE, <<"false">>), Put("ssb_information_list", T("SsbInformationList"))>>),
   SsbInformationList |-> Codec(
     <<Get("0", NonEmpty(1, 255, T("SsbInformationItem")))>>,
     <<Put("0", NonEmpty(1, 255, T("SsbInformationItem")))>>),
   SsbInformationItem |-> Codec(
     <<ReadHeader(FALSE, 1), Get("ssb_configuration", T("SsbTfConfiguration")),
       Get("pci_nr", T("NrPci")), ReadExtensions(1, <<>>)>>,
     <<WriteHeader(FALSE, <<"false">>), Put("ssb_configuration", T("SsbTfConfiguration")),
       Put("pci_nr", T("NrPci"))>>)]
FromSsbPositionsInBurst ==
  [SsbPositionsInBurst |-> Codec(
     <<ReadChoice(0, 3, FALSE, <<Alt(0, "ShortBitmap", Bits(4, 4, FALSE)),
       Alt(1, "MediumBitmap", Bits(8, 8, FALSE)), Alt(2, "LongBitmap", Bits(64, 64, FALSE)),
       AltIes(3, <<>>)>>)>>,
     <<WriteChoice(0, 3, FALSE, <<Arm("ShortBitmap", 0, Bits(4, 4, FALSE)),
       Arm("MediumBitmap", 1, Bits(8, 8, FALSE)), Arm("LongBitmap", 2, Bits(64, 64, FALSE))>>)>>),
   SsbTfConfiguration |-> Codec(
     <<ReadHeader(FALSE, 3), Get("ssb_frequency", Num(0, 3279165, FALSE, "u32")),
       Get("ssb_subcarrier_spacing", T("SsbSubcarrierSpacing1")),
       Get("ssb_transmit_power", Num(-60, 50, FALSE, "i8")),
       Get("ssb_periodicity", T("SsbPeriodicity")),
       Get("ssb_half_frame_offset", Num(0, 1, FALSE, "u8")),
       Get("ssb_sfn_offset", Num(0, 15, FALSE, "u8")),
       GetIf(1, "ssb_position_in_burst", T("SsbPositionsInBurst")),
       GetIf(2, "sfn_initialisation_time", T("RelativeTime1900")), ReadExtensions(3, <<>>)>>,
     <<WriteHeader(FALSE, <<"ssb_position_in_burst", "sfn_initialisation_time", "false">>),
       Put("ssb_frequency", Num(0, 3279165, FALSE, "u32")),
       Put("ssb_subcarrier_spacing", T("SsbSubcarrierSpacing1")),
       Put("ssb_transmit_power", Num(-60, 50, FALSE, "i8")),
       Put("ssb_periodicity", T("SsbPeriodicity")),
       Put("ssb_half_frame_offset", Num(0, 1, FALSE, "u8")),
       Put("ssb_sfn_offset", Num(0, 15, FALSE, "u8")),
       PutIf("ssb_position_in_burst", T("SsbPositionsInBurst")),
       PutIf("sfn_initialisation_time", T("RelativeTime1900"))>>)]
FromSsbToReportList ==
  [SsbToReportList |-> Codec(
     <<Get("0", NonEmpty(1, 64, T("SsbToReportItem")))>>,
     <<Put("0", NonEmpty(1, 64, T("SsbToReportItem")))>>),
   SsbToReportItem |-> Codec(
     <<ReadHeader(FALSE, 1), Get("ssb_index", Num(0, 63, FALSE, "u8")), ReadExtensions(1, <<>>)>>,
     <<WriteHeader(FALSE, <<"false">>), Put("ssb_index", Num(0, 63, FALSE, "u8"))>>),
   SulInformation |-> Codec(
     <<ReadHeader(TRUE, 1), Get("sul_nr_arfcn", Num(0, 3279165, FALSE, "u32")),
       Get("sul_transmission_bandwidth", T("TransmissionBandwidth")),
       ReadExtensions(1, <<Ie(354, "carrier_list", T("NrCarrierList")),
       Ie(356, "frequency_shift7p5khz", T("FrequencyShift7p5khz"))>>)>>,
     <<PutIeIf(354, "carrier_list", T("NrCarrierList")),
       PutIeIf(356, "frequency_shift7p5khz", T("FrequencyShift7p5khz")),
       WriteHeader(TRUE, <<"num_ies">>), Put("sul_nr_arfcn", Num(0, 3279165, FALSE, "u32")),
       Put("sul_transmission_bandwidth", T("TransmissionBandwidth")), AppendExtensions>>)]
FromSubcarrierSpacing ==
  [SubcarrierSpacing |-> Codec(<<ReadEnum(0, 7, TRUE, 8)>>, <<WriteEnum(0, 7, TRUE)>>),
   SubscriberProfileIDforRfp |-> Codec(
     <<Get("0", Num(1, 256, TRUE, "u16"))>>,
     <<Put("0", Num(1, 256, TRUE, "u16"))>>),
   SulAccessIndication |-> Codec(<<ReadEnum(0, 0, TRUE, 1)>>, <<WriteEnum(0, 0, TRUE)>>),
   SupportedSulFreqBandItem |-> Codec(
     <<ReadHeader(TRUE, 1), Get("freq_band_indicator_nr", Num(1, 1024, TRUE, "u16")),
       ReadExtensions(1, <<>>)>>,
     <<WriteHeader(TRUE, <<"false">>), Put("freq_band_indicator_nr", Num(1, 1024, TRUE, "u16"))>>)]
FromSymbolAllocInSlot ==
  [SymbolAllocInSlot |-> Codec(
     <<ReadChoice(0, 3, FALSE, <<Alt(0, "AllDl", Null), Alt(1, "AllUl", Null),
       Alt(2, "BothDlAndUl", T("NumDlUlSymbols")), AltIes(3, <<>>)>>)>>,
     <<WriteChoice(0, 3, FALSE, <<Arm("AllDl", 0, Null), Arm("AllUl", 1, Null),
       Arm("BothDlAndUl", 2, T("NumDlUlSymbols"))>>)>>),
   SystemFrameNumber |-> Codec(
     <<Get("0", Num(0, 1023, FALSE, "u16"))>>,
     <<Put("0", Num(0, 1023, FALSE, "u16"))>>),
   SystemInformationAreaId |-> Codec(
     <<Get("0", Bits(24, 24, FALSE))>>,
     <<Put("0", Bits(24, 24, FALSE))>>)]

Codecs == {FromRachConfigCommon, FromRadioResourceStatus, FromRanUeId,
  FromRatFrequencySelectionPriority, FromReferenceSignal, FromRelativeGeodeticLocation,
  FromReportCharacteristics, FromRequestedPdcchBlindDetectionScg, FromRequestType,
  FromResourceCoordinationTransferContainer, FromResourceSetTypeSemiPersistent,
  FromReportingRequestType, FromResourceTypeSemiPersistent, FromResourceTypePeriodicPos,
  FromRlcDuplicationInformation, FromRlcFailureIndication, FromRlfReportInformationList,
  FromRrcContainer, FromRrcReconfigurationCompleteIndicator, FromSCellFailedtoSetupItem,
  FromSCellToBeSetupItem, FromSCellIndex, FromSearchWindowInformation,
  FromSelectedBandCombinationIndex, FromServedCellInformation, FromSfnOffset,
  FromServedCellsToModifyItem, FromServiceStatus, FromShortDrxCycleTimer, FromSib14Message,
  FromSibTypeToBeUpdatedListItem, FromSlDrbsFailedToBeModifiedItem, FromSlDrbsModifiedItem,
  FromSlDrbsRequiredToBeReleasedItem, FromSlDrbsToBeModifiedItem, FromSlDrbsToBeSetupModItem,
  FromSliceAvailableCapacityList, FromSnssaiAvailableCapacityItem, FromSliceToReportList,
  FromSnssaiItem, FromSnssai, FromSpatialRelationforResourceId, FromSpectrumSharingGroupId,
  FromSrbsModifiedItem, FromSrbsSetupModItem, FromSrbsToBeSetupModItem, FromSrsConfig,
  FromSrsFrequency, FromSrsResourceId, FromSrsResourceSetId, FromSrsResourceSetList1,
  FromSsbFreqInfo, FromSsbTransmissionTimingOffset, FromSsbAreaCapacityValueItem,
  FromSsbAreaRadioResourceStatusItem, FromSsbInformation, FromSsbPositionsInBurst,
  FromSsbToReportList, FromSubcarrierSpacing, FromSymbolAllocInSlot}
=============================================================================
