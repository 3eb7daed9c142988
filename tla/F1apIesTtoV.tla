---------------------------- MODULE F1apIesTtoV ----------------------------
(***************************************************************************)
(* The programs of the codecs of f1ap/src/ies.rs, from FiveGsTac to        *)
(* VehicleUe and the types declared inside others, of the F1AP common      *)
(* types and of the shared types of xxap/src/ies.rs: what decode_inner     *)
(* reads and encode_inner writes, each in the order of its source.         *)
(***************************************************************************)
EXTENDS PerLayout

FromFiveGsTac ==
  [FiveGsTac |-> Codec(
     <<Get("0", OctetArray(3, 3, FALSE, 3))>>,
     <<Put("0", OctetArray(3, 3, FALSE, 3))>>),
   ConfiguredEpsTac |-> Codec(
     <<Get("0", OctetArray(2, 2, FALSE, 2))>>,
     <<Put("0", OctetArray(2, 2, FALSE, 2))>>),
   TargetCellList |-> Codec(
     <<Get("0", NonEmpty(1, 8, T("TargetCellListItem")))>>,
     <<Put("0", NonEmpty(1, 8, T("TargetCellListItem")))>>),
   TargetCellListItem |-> Codec(
     <<ReadHeader(FALSE, 1), Get("target_cell", T("NrCgi")), ReadExtensions(1, <<>>)>>,
     <<WriteHeader(FALSE, <<"false">>), Put("target_cell", T("NrCgi"))>>)]
FromTddInfo ==
  [TddInfo |-> Codec(
     <<ReadHeader(TRUE, 1), Get("nr_freq_info", T("NrFreqInfo")),
       Get("transmission_bandwidth", T("TransmissionBandwidth")),
       ReadExtensions(1, <<Ie(256, "intended_tdd_dl_ul_config", T("IntendedTddDlUlConfig")),
       Ie(361, "tdd_ul_dl_config_common_nr", T("TddUlDlConfigCommonNr")),
       Ie(354, "carrier_list", T("NrCarrierList"))>>)>>,
     <<PutIeIf(256, "intended_tdd_dl_ul_config", T("IntendedTddDlUlConfig")),
       PutIeIf(361, "tdd_ul_dl_config_common_nr", T("TddUlDlConfigCommonNr")),
       PutIeIf(354, "carrier_list", T("NrCarrierList")), WriteHeader(TRUE, <<"num_ies">>),
       Put("nr_freq_info", T("NrFreqInfo")),
       Put("transmission_bandwidth", T("TransmissionBandwidth")), AppendExtensions>>),
   TddUlDlConfigCommonNr |-> Codec(<<Get("0", OctetString)>>, <<Put("0", OctetString)>>),
   TimeReferenceInformation |-> Codec(
     <<ReadHeader(FALSE, 1), Get("reference_time", T("ReferenceTime")),
       Get("reference_sfn", T("ReferenceSfn")), Get("uncertainty", T("Uncertainty")),
       Get("time_information_type", T("TimeInformationType")), ReadExtensions(1, <<>>)>>,
     <<WriteHeader(FALSE, <<"false">>), Put("reference_time", T("ReferenceTime")),
       Put("reference_sfn", T("ReferenceSfn")), Put("uncertainty", T("Uncertainty")),
       Put("time_information_type", T("TimeInformationType"))>>)]
FromTimeInformationType ==
  [TimeInformationType |-> Codec(<<ReadEnum(0, 0, FALSE, 1)>>, <<WriteEnum(0, 0, FALSE)>>),
   TimeStamp |-> Codec(
     <<ReadHeader(FALSE, 2), Get("system_frame_number", T("SystemFrameNumber")),
       Get("slot_index", T("TimeStampSlotIndex")),
       GetIf(1, "measurement_time", T("RelativeTime1900")), ReadExtensions(2, <<>>)>>,
     <<WriteHeader(FALSE, <<"measurement_time", "false">>),
       Put("system_frame_number", T("SystemFrameNumber")),
       Put("slot_index", T("TimeStampSlotIndex")),
       PutIf("measurement_time", T("RelativeTime1900"))>>),
   TimeStampSlotIndex |-> Codec(
     <<ReadChoice(0, 4, FALSE, <<Alt(0, "Scs15", Num(0, 9, FALSE, "u8")),
       Alt(1, "Scs30", Num(0, 19, FALSE, "u8")), Alt(2, "Scs60", Num(0, 39, FALSE, "u8")),
       Alt(3, "Scs120", Num(0, 79, FALSE, "u8")), AltIes(4, <<>>)>>)>>,
     <<WriteChoice(0, 4, FALSE, <<Arm("Scs15", 0, Num(0, 9, FALSE, "u8")),
       Arm("Scs30", 1, Num(0, 19, FALSE, "u8")), Arm("Scs60", 2, Num(0, 39, FALSE, "u8")),
       Arm("Scs120", 3, Num(0, 79, FALSE, "u8"))>>)>>)]
FromTimeToWait ==
  [TimeToWait |-> Codec(<<ReadEnum(0, 5, TRUE, 6)>>, <<WriteEnum(0, 5, TRUE)>>),
   TimingMeasurementQuality |-> Codec(
     <<ReadHeader(FALSE, 1), Get("measurement_quality", Num(0, 31, FALSE, "u8")),
       Get("resolution", T("Resolution1")), ReadExtensions(1, <<>>)>>,
     <<WriteHeader(FALSE, <<"false">>), Put("measurement_quality", Num(0, 31, FALSE, "u8")),
       Put("resolution", T("Resolution1"))>>),
   TnlAssociationUsage |-> Codec(<<ReadEnum(0, 2, TRUE, 3)>>, <<WriteEnum(0, 2, TRUE)>>)]
FromTnlCapacityIndicator ==
  [TnlCapacityIndicator |-> Codec(
     <<ReadHeader(FALSE, 1), Get("dltnl_offered_capacity", Num(1, 16777216, TRUE, "u32")),
       Get("dltnl_available_capacity", Num(0, 100, TRUE, "u8")),
       Get("ultnl_offered_capacity", Num(1, 16777216, TRUE, "u32")),
       Get("ultnl_available_capacity", Num(0, 100, TRUE, "u8")), ReadExtensions(1, <<>>)>>,
     <<WriteHeader(FALSE, <<"false">>),
       Put("dltnl_offered_capacity", Num(1, 16777216, TRUE, "u32")),
       Put("dltnl_available_capacity", Num(0, 100, TRUE, "u8")),
       Put("ultnl_offered_capacity", Num(1, 16777216, TRUE, "u32")),
       Put("ultnl_available_capacity", Num(0, 100, TRUE, "u8"))>>),
   TraceActivation |-> Codec(
     <<ReadHeader(FALSE, 1), Get("trace_id", T("TraceId")),
       Get("interfaces_to_trace", T("InterfacesToTrace")), Get("trace_depth", T("TraceDepth")),
       Get("trace_collection_entity_ip_address", T("TransportLayerAddress")),
       ReadExtensions(1, <<Ie(381, "mdt_configuration", T("MdtConfiguration")),
       Ie(380, "trace_collection_entity_uri", T("UriAddress"))>>)>>,
     <<PutIeIf(381, "mdt_configuration", T("MdtConfiguration")),
       PutIeIf(380, "trace_collection_entity_uri", T("UriAddress")),
       WriteHeader(FALSE, <<"num_ies">>), Put("trace_id", T("TraceId")),
       Put("interfaces_to_trace", T("InterfacesToTrace")), Put("trace_depth", T("TraceDepth")),
       Put("trace_collection_entity_ip_address", T("TransportLayerAddress")), AppendExtensions>>)]
FromTraceDepth ==
  [TraceDepth |-> Codec(<<ReadEnum(0, 5, TRUE, 6)>>, <<WriteEnum(0, 5, TRUE)>>),
   TraceId |-> Codec(
     <<Get("0", OctetArray(8, 8, FALSE, 8))>>,
     <<Put("0", OctetArray(8, 8, FALSE, 8))>>),
   TrafficMappingInfo |-> Codec(
     <<ReadChoice(0, 2, FALSE, <<Alt(0, "IPtolayer2TrafficMappingInfo", T("IPtolayer2TrafficMappingInfo")),
       Alt(1, "BaPlayerBhrlCchannelMappingInfo", T("BaPlayerBhrlCchannelMappingInfo")),
       AltIes(2, <<>>)>>)>>,
     <<WriteChoice(0, 2, FALSE, <<Arm("IPtolayer2TrafficMappingInfo", 0, T("IPtolayer2TrafficMappingInfo")),
       Arm("BaPlayerBhrlCchannelMappingInfo", 1, T("BaPlayerBhrlCchannelMappingInfo"))>>)>>),
   TransactionId |-> Codec(
     <<Get("0", Num(0, 255, TRUE, "u8"))>>,
     <<Put("0", Num(0, 255, TRUE, "u8"))>>)]
FromTransmissionBandwidth ==
  [TransmissionBandwidth |-> Codec(
     <<ReadHeader(TRUE, 1), Get("nr_scs", T("NrScs")), Get("nr_nr_b", T("NrNrB")),
       ReadExtensions(1, <<>>)>>,
     <<WriteHeader(TRUE, <<"false">>), Put("nr_scs", T("NrScs")), Put("nr_nr_b", T("NrNrB"))>>),
   TransmissionComb |-> Codec(
     <<ReadChoice(0, 2, FALSE, <<Alt(0, "N2", T("N2")), Alt(1, "N4", T("N4")), AltIes(2, <<>>)>>)>>,
     <<WriteChoice(0, 2, FALSE, <<Arm("N2", 0, T("N2")), Arm("N4", 1, T("N4"))>>)>>),
   TransmissionCombPos |-> Codec(
     <<ReadChoice(0, 3, FALSE, <<Alt(0, "N2", T("N2_1")), Alt(1, "N4", T("N4_1")),
       Alt(2, "N8", T("N8")), AltIes(3, <<>>)>>)>>,
     <<WriteChoice(0, 3, FALSE, <<Arm("N2", 0, T("N2_1")), Arm("N4", 1, T("N4_1")),
       Arm("N8", 2, T("N8"))>>)>>)]
FromTransmissionStopIndicator ==
  [TransmissionStopIndicator |-> Codec(<<ReadEnum(0, 0, TRUE, 1)>>, <<WriteEnum(0, 0, TRUE)>>),
   TransportUpLayerAddressInfoToAddList |-> Codec(
     <<Get("0", NonEmpty(1, 16, T("TransportUpLayerAddressInfoToAddItem")))>>,
     <<Put("0", NonEmpty(1, 16, T("TransportUpLayerAddressInfoToAddItem")))>>),
   TransportUpLayerAddressInfoToAddItem |-> Codec(
     <<ReadHeader(FALSE, 2), Get("ip_sec_transport_layer_address", T("TransportLayerAddress")),
       GetIf(1, "gtp_transport_layer_address_to_add", T("GtptlAs")), ReadExtensions(2, <<>>)>>,
     <<WriteHeader(FALSE, <<"gtp_transport_layer_address_to_add", "false">>),
       Put("ip_sec_transport_layer_address", T("TransportLayerAddress")),
       PutIf("gtp_transport_layer_address_to_add", T("GtptlAs"))>>)]
FromTransportUpLayerAddressInfoToRemoveList ==
  [TransportUpLayerAddressInfoToRemoveList |-> Codec(
     <<Get("0", NonEmpty(1, 16, T("TransportUpLayerAddressInfoToRemoveItem")))>>,
     <<Put("0", NonEmpty(1, 16, T("TransportUpLayerAddressInfoToRemoveItem")))>>),
   TransportUpLayerAddressInfoToRemoveItem |-> Codec(
     <<ReadHeader(FALSE, 2), Get("ip_sec_transport_layer_address", T("TransportLayerAddress")),
       GetIf(1, "gtp_transport_layer_address_to_remove", T("GtptlAs")), ReadExtensions(2, <<>>)>>,
     <<WriteHeader(FALSE, <<"gtp_transport_layer_address_to_remove", "false">>),
       Put("ip_sec_transport_layer_address", T("TransportLayerAddress")),
       PutIf("gtp_transport_layer_address_to_remove", T("GtptlAs"))>>),
   TransmissionActionIndicator |-> Codec(<<ReadEnum(0, 0, TRUE, 1)>>, <<WriteEnum(0, 0, TRUE)>>)]
FromTrpid ==
  [Trpid |-> Codec(
     <<Get("0", Num(0, 65535, TRUE, "u16"))>>,
     <<Put("0", Num(0, 65535, TRUE, "u16"))>>),
   TrpInformation |-> Codec(
     <<ReadHeader(FALSE, 1), Get("trpid", T("Trpid")),
       Get("trp_information_type_response_list", T("TrpInformationTypeResponseList")),
       ReadExtensions(1, <<>>)>>,
     <<WriteHeader(FALSE, <<"false">>), Put("trpid", T("Trpid")),
       Put("trp_information_type_response_list", T("TrpInformationTypeResponseList"))>>),
   TrpInformationItem |-> Codec(
     <<ReadHeader(FALSE, 1), Get("trp_information", T("TrpInformation")), ReadExtensions(1, <<>>)>>,
     <<WriteHeader(FALSE, <<"false">>), Put("trp_information", T("TrpInformation"))>>)]
FromTrpInformationTypeItem ==
  [TrpInformationTypeItem |-> Codec(<<ReadEnum(0, 7, TRUE, 8)>>, <<WriteEnum(0, 7, TRUE)>>),
   TrpInformationTypeResponseList |-> Codec(
     <<Get("0", NonEmpty(1, 64, T("TrpInformationTypeResponseItem")))>>,
     <<Put("0", NonEmpty(1, 64, T("TrpInformationTypeResponseItem")))>>),
   TrpInformationTypeResponseItem |-> Codec(
     <<ReadChoice(0, 8, FALSE, <<Alt(0, "PciNr", T("NrPci")), Alt(1, "NgRanCgi", T("NrCgi")),
       Alt(2, "NrArfcn", Num(0, 3279165, FALSE, "u32")),
       Alt(3, "PrsConfiguration", T("PrsConfiguration")),
       Alt(4, "SsBinformation", T("SsbInformation")),
       Alt(5, "SfnInitialisationTime", T("RelativeTime1900")),
       Alt(6, "SpatialDirectionInformation", T("SpatialDirectionInformation")),
       Alt(7, "GeographicalCoordinates", T("GeographicalCoordinates")), AltIes(8, <<>>)>>)>>,
     <<WriteChoice(0, 8, FALSE, <<Arm("PciNr", 0, T("NrPci")), Arm("NgRanCgi", 1, T("NrCgi")),
       Arm("NrArfcn", 2, Num(0, 3279165, FALSE, "u32")),
       Arm("PrsConfiguration", 3, T("PrsConfiguration")),
       Arm("SsBinformation", 4, T("SsbInformation")),
       Arm("SfnInitialisationTime", 5, T("RelativeTime1900")),
       Arm("SpatialDirectionInformation", 6, T("SpatialDirectionInformation")),
       Arm("GeographicalCoordinates", 7, T("GeographicalCoordinates"))>>)>>)]
FromTrpList ==
  [TrpList |-> Codec(
     <<Get("0", NonEmpty(1, 65535, T("TrpListItem")))>>,
     <<Put("0", NonEmpty(1, 65535, T("TrpListItem")))>>),
   TrpListItem |-> Codec(
     <<ReadHeader(FALSE, 1), Get("trpid", T("Trpid")), ReadExtensions(1, <<>>)>>,
     <<WriteHeader(FALSE, <<"false">>), Put("trpid", T("Trpid"))>>),
   TrpMeasurementQuality |-> Codec(
     <<ReadHeader(FALSE, 1), Get("tr_pmeasurement_quality_item", T("TrpMeasurementQualityItem")),
       ReadExtensions(1, <<>>)>>,
     <<WriteHeader(FALSE, <<"false">>),
       Put("tr_pmeasurement_quality_item", T("TrpMeasurementQualityItem"))>>)]
FromTrpMeasurementQualityItem ==
  [TrpMeasurementQualityItem |-> Codec(
     <<ReadChoice(0, 2, FALSE, <<Alt(0, "TimingMeasurementQuality", T("TimingMeasurementQuality")),
       Alt(1, "AngleMeasurementQuality", T("AngleMeasurementQuality")), AltIes(2, <<>>)>>)>>,
     <<WriteChoice(0, 2, FALSE, <<Arm("TimingMeasurementQuality", 0, T("TimingMeasurementQuality")),
       Arm("AngleMeasurementQuality", 1, T("AngleMeasurementQuality"))>>)>>),
   TrpMeasurementRequestList |-> Codec(
     <<Get("0", NonEmpty(1, 64, T("TrpMeasurementRequestItem")))>>,
     <<Put("0", NonEmpty(1, 64, T("TrpMeasurementRequestItem")))>>),
   TrpMeasurementRequestItem |-> Codec(
     <<ReadHeader(FALSE, 2), Get("trpid", T("Trpid")),
       GetIf(1, "search_window_information", T("SearchWindowInformation")),
       ReadExtensions(2, <<Ie(111, "nr_cgi", T("NrCgi"))>>)>>,
     <<PutIeIf(111, "nr_cgi", T("NrCgi")), WriteHeader(FALSE, <<"search_window_information",
       "num_ies">>), Put("trpid", T("Trpid")),
       PutIf("search_window_information", T("SearchWindowInformation")), AppendExtensions>>)]
FromTrpPositionDefinitionType ==
  [TrpPositionDefinitionType |-> Codec(
     <<ReadChoice(0, 2, FALSE, <<Alt(0, "Direct", T("TrpPositionDirect")),
       Alt(1, "Referenced", T("TrpPositionReferenced")), AltIes(2, <<>>)>>)>>,
     <<WriteChoice(0, 2, FALSE, <<Arm("Direct", 0, T("TrpPositionDirect")),
       Arm("Referenced", 1, T("TrpPositionReferenced"))>>)>>),
   TrpPositionDirect |-> Codec(
     <<ReadHeader(FALSE, 1), Get("accuracy", T("TrpPositionDirectAccuracy")),
       ReadExtensions(1, <<>>)>>,
     <<WriteHeader(FALSE, <<"false">>), Put("accuracy", T("TrpPositionDirectAccuracy"))>>),
   TrpPositionDirectAccuracy |-> Codec(
     <<ReadChoice(0, 2, FALSE, <<Alt(0, "TrpPosition", T("AccessPointPosition")),
       Alt(1, "TrphAposition", T("NgranHighAccuracyAccessPointPosition")), AltIes(2, <<>>)>>)>>,
     <<WriteChoice(0, 2, FALSE, <<Arm("TrpPosition", 0, T("AccessPointPosition")),
       Arm("TrphAposition", 1, T("NgranHighAccuracyAccessPointPosition"))>>)>>)]
FromTrpPositionReferenced ==
  [TrpPositionReferenced |-> Codec(
     <<ReadHeader(FALSE, 1), Get("reference_point", T("ReferencePoint")),
       Get("reference_point_type", T("TrpReferencePointType")), ReadExtensions(1, <<>>)>>,
     <<WriteHeader(FALSE, <<"false">>), Put("reference_point", T("ReferencePoint")),
       Put("reference_point_type", T("TrpReferencePointType"))>>),
   TrpReferencePointType |-> Codec(
     <<ReadChoice(0, 2, FALSE, <<Alt(0, "TrpPositionRelativeGeodetic", T("RelativeGeodeticLocation")),
       Alt(1, "TrpPositionRelativeCartesian", T("RelativeCartesianLocation")), AltIes(2, <<>>)>>)>>,
     <<WriteChoice(0, 2, FALSE, <<Arm("TrpPositionRelativeGeodetic", 0, T("RelativeGeodeticLocation")),
       Arm("TrpPositionRelativeCartesian", 1, T("RelativeCartesianLocation"))>>)>>),
   TypeOfError |-> Codec(<<ReadEnum(0, 1, TRUE, 2)>>, <<WriteEnum(0, 1, TRUE)>>)]
FromTransportLayerAddressInfo ==
  [TransportLayerAddressInfo |-> Codec(
     <<ReadHeader(FALSE, 3),
       GetIf(1, "transport_up_layer_address_info_to_add_list", T("TransportUpLayerAddressInfoToAddList")),
       GetIf(2, "transport_up_layer_address_info_to_remove_list", T("TransportUpLayerAddressInfoToRemoveList")),
       ReadExtensions(3, <<>>)>>,
     <<WriteHeader(FALSE, <<"transport_up_layer_address_info_to_add_list",
       "transport_up_layer_address_info_to_remove_list", "false">>),
       PutIf("transport_up_layer_address_info_to_add_list", T("TransportUpLayerAddressInfoToAddList")),
       PutIf("transport_up_layer_address_info_to_remove_list", T("TransportUpLayerAddressInfoToRemoveList"))>>),
   TscAssistanceInformation |-> Codec(
     <<ReadHeader(TRUE, 2), Get("periodicity", T("Periodicity")),
       GetIf(1, "burst_arrival_time", T("BurstArrivalTime")), ReadExtensions(2, <<>>)>>,
     <<WriteHeader(TRUE, <<"burst_arrival_time", "false">>), Put("periodicity", T("Periodicity")),
       PutIf("burst_arrival_time", T("BurstArrivalTime"))>>)]
FromTscTrafficCharacteristics ==
  [TscTrafficCharacteristics |-> Codec(
     <<ReadHeader(TRUE, 3),
       GetIf(1, "tsc_assistance_information_dl", T("TscAssistanceInformation")),
       GetIf(2, "tsc_assistance_information_ul", T("TscAssistanceInformation")),
       ReadExtensions(3, <<>>)>>,
     <<WriteHeader(TRUE, <<"tsc_assistance_information_dl", "tsc_assistance_information_ul",
       "false">>), PutIf("tsc_assistance_information_dl", T("TscAssistanceInformation")),
       PutIf("tsc_assistance_information_ul", T("TscAssistanceInformation"))>>),
   UacAssistanceInfo |-> Codec(
     <<ReadHeader(FALSE, 1), Get("uac_plmn_list", T("UacPlmnList")), ReadExtensions(1, <<>>)>>,
     <<WriteHeader(FALSE, <<"false">>), Put("uac_plmn_list", T("UacPlmnList"))>>),
   UacPlmnList |-> Codec(
     <<Get("0", NonEmpty(1, 12, T("UacPlmnItem")))>>,
     <<Put("0", NonEmpty(1, 12, T("UacPlmnItem")))>>)]
FromUacPlmnItem ==
  [UacPlmnItem |-> Codec(
     <<ReadHeader(FALSE, 1), Get("plmn_identity", T("PlmnIdentity")),
       Get("uac_type_list", T("UacTypeList")), ReadExtensions(1, <<Ie(385, "nid", T("Nid"))>>)>>,
     <<PutIeIf(385, "nid", T("Nid")), WriteHeader(FALSE, <<"num_ies">>),
       Put("plmn_identity", T("PlmnIdentity")), Put("uac_type_list", T("UacTypeList")),
       AppendExtensions>>),
   UacTypeList |-> Codec(
     <<Get("0", NonEmpty(1, 64, T("UacTypeItem")))>>,
     <<Put("0", NonEmpty(1, 64, T("UacTypeItem")))>>),
   UacTypeItem |-> Codec(
     <<ReadHeader(FALSE, 1), Get("uac_reduction_indication", T("UacReductionIndication")),
       Get("uac_category_type", T("UacCategoryType")), ReadExtensions(1, <<>>)>>,
     <<WriteHeader(FALSE, <<"false">>),
       Put("uac_reduction_indication", T("UacReductionIndication")),
       Put("uac_category_type", T("UacCategoryType"))>>)]
FromUacCategoryType ==
  [UacCategoryType |-> Codec(
     <<ReadChoice(0, 2, FALSE, <<Alt(0, "UaCstandardized", T("UacAction")),
       Alt(1, "UacOperatorDefined", T("UacOperatorDefined")), AltIes(2, <<>>)>>)>>,
     <<WriteChoice(0, 2, FALSE, <<Arm("UaCstandardized", 0, T("UacAction")),
       Arm("UacOperatorDefined", 1, T("UacOperatorDefined"))>>)>>),
   UacOperatorDefined |-> Codec(
     <<ReadHeader(FALSE, 1), Get("access_category", Num(32, 63, TRUE, "u8")),
       Get("access_identity", Bits(7, 7, FALSE)), ReadExtensions(1, <<>>)>>,
     <<WriteHeader(FALSE, <<"false">>), Put("access_category", Num(32, 63, TRUE, "u8")),
       Put("access_identity", Bits(7, 7, FALSE))>>),
   UacAction |-> Codec(<<ReadEnum(0, 3, TRUE, 4)>>, <<WriteEnum(0, 3, TRUE)>>)]
FromUacReductionIndication ==
  [UacReductionIndication |-> Codec(
     <<Get("0", Num(0, 100, FALSE, "u8"))>>,
     <<Put("0", Num(0, 100, FALSE, "u8"))>>),
   UeAssociatedLogicalF1ConnectionItem |-> Codec(
     <<ReadHeader(TRUE, 3), GetIf(1, "gnb_cu_ue_f1ap_id", T("GnbCuUeF1apId")),
       GetIf(2, "gnb_du_ue_f1ap_id", T("GnbDuUeF1apId")), ReadExtensions(3, <<>>)>>,
     <<WriteHeader(TRUE, <<"gnb_cu_ue_f1ap_id", "gnb_du_ue_f1ap_id", "false">>),
       PutIf("gnb_cu_ue_f1ap_id", T("GnbCuUeF1apId")),
       PutIf("gnb_du_ue_f1ap_id", T("GnbDuUeF1apId"))>>),
   UeAssistanceInformation |-> Codec(<<Get("0", OctetString)>>, <<Put("0", OctetString)>>),
   UeAssistanceInformationEutra |-> Codec(<<Get("0", OctetString)>>, <<Put("0", OctetString)>>)]
FromUeCapabilityRatContainerList ==
  [UeCapabilityRatContainerList |-> Codec(<<Get("0", OctetString)>>, <<Put("0", OctetString)>>),
   UeContextNotRetrievable |-> Codec(<<ReadEnum(0, 0, TRUE, 1)>>, <<WriteEnum(0, 0, TRUE)>>),
   UeIdentityIndexValue |-> Codec(
     <<ReadChoice(0, 1, FALSE, <<Alt(0, "IndexLength10", Bits(10, 10, FALSE)), AltIes(1, <<>>)>>)>>,
     <<WriteChoice(0, 1, FALSE, <<Arm("IndexLength10", 0, Bits(10, 10, FALSE))>>)>>),
   UlAoA |-> Codec(
     <<ReadHeader(FALSE, 3), Get("azimuth_ao_a", Num(0, 3599, FALSE, "u16")),
       GetIf(1, "zenith_ao_a", Num(0, 1799, FALSE, "u16")),
       GetIf(2, "lcs_to_gcs_translation_ao_a", T("LcsToGcsTranslationAoA")),
       ReadExtensions(3, <<>>)>>,
     <<WriteHeader(FALSE, <<"zenith_ao_a", "lcs_to_gcs_translation_ao_a", "false">>),
       Put("azimuth_ao_a", Num(0, 3599, FALSE, "u16")),
       PutIf("zenith_ao_a", Num(0, 1799, FALSE, "u16")),
       PutIf("lcs_to_gcs_translation_ao_a", T("LcsToGcsTranslationAoA"))>>)]
FromUlBhNonUpTrafficMapping ==
  [UlBhNonUpTrafficMapping |-> Codec(
     <<ReadHeader(FALSE, 1),
       Get("ul_bh_non_up_traffic_mapping_list", T("UlBhNonUpTrafficMappingList")),
       ReadExtensions(1, <<>>)>>,
     <<WriteHeader(FALSE, <<"false">>),
       Put("ul_bh_non_up_traffic_mapping_list", T("UlBhNonUpTrafficMappingList"))>>),
   UlBhNonUpTrafficMappingList |-> Codec(
     <<Get("0", NonEmpty(1, 32, T("UlBhNonUpTrafficMappingItem")))>>,
     <<Put("0", NonEmpty(1, 32, T("UlBhNonUpTrafficMappingItem")))>>),
   UlBhNonUpTrafficMappingItem |-> Codec(
     <<ReadHeader(FALSE, 1), Get("non_up_traffic_type", T("NonUpTrafficType")),
       Get("bh_info", T("BhInfo")), ReadExtensions(1, <<>>)>>,
     <<WriteHeader(FALSE, <<"false">>), Put("non_up_traffic_type", T("NonUpTrafficType")),
       Put("bh_info", T("BhInfo"))>>)]
FromUlConfiguration ==
  [UlConfiguration |-> Codec(
     <<ReadHeader(TRUE, 1), Get("ul_ue_configuration", T("UlUeConfiguration")),
       ReadExtensions(1, <<>>)>>,
     <<WriteHeader(TRUE, <<"false">>), Put("ul_ue_configuration", T("UlUeConfiguration"))>>),
   UlRtoaMeasurement |-> Codec(
     <<ReadHeader(FALSE, 2), Get("ul_rtoa_measurement_item", T("UlRtoaMeasurementItem")),
       GetIf(1, "additional_path_list", T("AdditionalPathList")), ReadExtensions(2, <<>>)>>,
     <<WriteHeader(FALSE, <<"additional_path_list", "false">>),
       Put("ul_rtoa_measurement_item", T("UlRtoaMeasurementItem")),
       PutIf("additional_path_list", T("AdditionalPathList"))>>)]
FromUlRtoaMeasurementItem ==
  [UlRtoaMeasurementItem |-> Codec(
     <<ReadChoice(0, 6, FALSE, <<Alt(0, "K0", Num(0, 1970049, FALSE, "u32")),
       Alt(1, "K1", Num(0, 985025, FALSE, "u32")), Alt(2, "K2", Num(0, 492513, FALSE, "u32")),
       Alt(3, "K3", Num(0, 246257, FALSE, "u32")), Alt(4, "K4", Num(0, 123129, FALSE, "u32")),
       Alt(5, "K5", Num(0, 61565, FALSE, "u16")), AltIes(6, <<>>)>>)>>,
     <<WriteChoice(0, 6, FALSE, <<Arm("K0", 0, Num(0, 1970049, FALSE, "u32")),
       Arm("K1", 1, Num(0, 985025, FALSE, "u32")), Arm("K2", 2, Num(0, 492513, FALSE, "u32")),
       Arm("K3", 3, Num(0, 246257, FALSE, "u32")), Arm("K4", 4, Num(0, 123129, FALSE, "u32")),
       Arm("K5", 5, Num(0, 61565, FALSE, "u16"))>>)>>),
   UlSrsRsrp |-> Codec(
     <<Get("0", Num(0, 126, FALSE, "u8"))>>,
     <<Put("0", Num(0, 126, FALSE, "u8"))>>),
   UlUeConfiguration |-> Codec(<<ReadEnum(0, 2, TRUE, 3)>>, <<WriteEnum(0, 2, TRUE)>>)]
FromUlUpTnlInformationToUpdateListItem ==
  [UlUpTnlInformationToUpdateListItem |-> Codec(
     <<ReadHeader(TRUE, 2), Get("ul_up_tnl_information", T("UpTransportLayerInformation")),
       GetIf(1, "new_ul_up_tnl_information", T("UpTransportLayerInformation")),
       Get("bh_info", T("BhInfo")), ReadExtensions(2, <<>>)>>,
     <<WriteHeader(TRUE, <<"new_ul_up_tnl_information", "false">>),
       Put("ul_up_tnl_information", T("UpTransportLayerInformation")),
       PutIf("new_ul_up_tnl_information", T("UpTransportLayerInformation")),
       Put("bh_info", T("BhInfo"))>>),
   UlUpTnlAddressToUpdateListItem |-> Codec(
     <<ReadHeader(TRUE, 1), Get("old_ip_adress", T("TransportLayerAddress")),
       Get("new_ip_adress", T("TransportLayerAddress")), ReadExtensions(1, <<>>)>>,
     <<WriteHeader(TRUE, <<"false">>), Put("old_ip_adress", T("TransportLayerAddress")),
       Put("new_ip_adress", T("TransportLayerAddress"))>>),
   UlUpTnlInformationToBeSetupList |-> Codec(
     <<Get("0", NonEmpty(1, 2, T("UlUpTnlInformationToBeSetupItem")))>>,
     <<Put("0", NonEmpty(1, 2, T("UlUpTnlInformationToBeSetupItem")))>>)]
FromUlUpTnlInformationToBeSetupItem ==
  [UlUpTnlInformationToBeSetupItem |-> Codec(
     <<ReadHeader(TRUE, 1), Get("ul_up_tnl_information", T("UpTransportLayerInformation")),
       ReadExtensions(1, <<Ie(280, "bh_info", T("BhInfo"))>>)>>,
     <<PutIeIf(280, "bh_info", T("BhInfo")), WriteHeader(TRUE, <<"num_ies">>),
       Put("ul_up_tnl_information", T("UpTransportLayerInformation")), AppendExtensions>>),
   Uncertainty |-> Codec(
     <<Get("0", Num(0, 32767, TRUE, "u16"))>>,
     <<Put("0", Num(0, 32767, TRUE, "u16"))>>),
   UplinkChannelBwPerScsList |-> Codec(
     <<Get("0", NonEmpty(1, 5, T("ScsSpecificCarrier")))>>,
     <<Put("0", NonEmpty(1, 5, T("ScsSpecificCarrier")))>>)]
FromUplinkTxDirectCurrentListInformation ==
  [UplinkTxDirectCurrentListInformation |-> Codec(
     <<Get("0", OctetString)>>,
     <<Put("0", OctetString)>>),
   UpTransportLayerInformation |-> Codec(
     <<ReadChoice(0, 1, FALSE, <<Alt(0, "GtpTunnel", T("GtpTunnel")), AltIes(1, <<>>)>>)>>,
     <<WriteChoice(0, 1, FALSE, <<Arm("GtpTunnel", 0, T("GtpTunnel"))>>)>>),
   UriAddress |-> Codec(
     <<Get("0", CharString("visible_string"))>>,
     <<Put("0", CharString("visible_string"))>>),
   VictimGnbSetId |-> Codec(
     <<ReadHeader(FALSE, 1), Get("victim_gnb_set_id", T("GnbSetId")), ReadExtensions(1, <<>>)>>,
     <<WriteHeader(FALSE, <<"false">>), Put("victim_gnb_set_id", T("GnbSetId"))>>)]
FromVehicleUe ==
  [VehicleUe |-> Codec(<<ReadEnum(0, 1, TRUE, 2)>>, <<WriteEnum(0, 1, TRUE)>>),
   PedestrianUe |-> Codec(<<ReadEnum(0, 1, TRUE, 2)>>, <<WriteEnum(0, 1, TRUE)>>),
   LatitudeSign |-> Codec(<<ReadEnum(0, 1, FALSE, 2)>>, <<WriteEnum(0, 1, FALSE)>>),
   DirectionOfAltitude |-> Codec(<<ReadEnum(0, 1, FALSE, 2)>>, <<WriteEnum(0, 1, FALSE)>>)]
FromSubcarrierSpacing1 ==
  [SubcarrierSpacing1 |-> Codec(<<ReadEnum(0, 3, TRUE, 4)>>, <<WriteEnum(0, 3, TRUE)>>),
   CyclicPrefix |-> Codec(<<ReadEnum(0, 1, FALSE, 2)>>, <<WriteEnum(0, 1, FALSE)>>),
   Shift7dot5kHz |-> Codec(<<ReadEnum(0, 0, TRUE, 1)>>, <<WriteEnum(0, 0, TRUE)>>),
   Resolution |-> Codec(<<ReadEnum(0, 0, TRUE, 1)>>, <<WriteEnum(0, 0, TRUE)>>)]
FromDelayCritical ==
  [DelayCritical |-> Codec(<<ReadEnum(0, 1, FALSE, 2)>>, <<WriteEnum(0, 1, FALSE)>>),
   ResourceType1 |-> Codec(<<ReadEnum(0, 2, TRUE, 3)>>, <<WriteEnum(0, 2, TRUE)>>),
   NrScs1 |-> Codec(<<ReadEnum(0, 3, TRUE, 4)>>, <<WriteEnum(0, 3, TRUE)>>),
   NrCp |-> Codec(<<ReadEnum(0, 1, TRUE, 2)>>, <<WriteEnum(0, 1, TRUE)>>)]
FromNrDlUlTxPeriodicity ==
  [NrDlUlTxPeriodicity |-> Codec(<<ReadEnum(0, 17, TRUE, 18)>>, <<WriteEnum(0, 17, TRUE)>>),
   Msg1scs |-> Codec(<<ReadEnum(0, 3, TRUE, 4)>>, <<WriteEnum(0, 3, TRUE)>>),
   RestrictedSetConfig |-> Codec(<<ReadEnum(0, 2, TRUE, 3)>>, <<WriteEnum(0, 2, TRUE)>>),
   Msg1fdm |-> Codec(<<ReadEnum(0, 3, TRUE, 4)>>, <<WriteEnum(0, 3, TRUE)>>)]
FromSsbPerRachOccasion ==
  [SsbPerRachOccasion |-> Codec(<<ReadEnum(0, 7, TRUE, 8)>>, <<WriteEnum(0, 7, TRUE)>>),
   PosperiodicSet |-> Codec(<<ReadEnum(0, 0, TRUE, 1)>>, <<WriteEnum(0, 0, TRUE)>>),
   PossemiPersistentSet |-> Codec(<<ReadEnum(0, 0, TRUE, 1)>>, <<WriteEnum(0, 0, TRUE)>>),
   NrofSymbols |-> Codec(<<ReadEnum(0, 4, FALSE, 5)>>, <<WriteEnum(0, 4, FALSE)>>)]
FromGroupOrSequenceHopping ==
  [GroupOrSequenceHopping |-> Codec(<<ReadEnum(0, 2, FALSE, 3)>>, <<WriteEnum(0, 2, FALSE)>>),
   MutingBitRepetitionFactor |-> Codec(<<ReadEnum(0, 3, TRUE, 4)>>, <<WriteEnum(0, 3, TRUE)>>),
   SubcarrierSpacing2 |-> Codec(<<ReadEnum(0, 3, TRUE, 4)>>, <<WriteEnum(0, 3, TRUE)>>),
   CombSize |-> Codec(<<ReadEnum(0, 3, TRUE, 4)>>, <<WriteEnum(0, 3, TRUE)>>)]
FromCpType ==
  [CpType |-> Codec(<<ReadEnum(0, 1, TRUE, 2)>>, <<WriteEnum(0, 1, TRUE)>>),
   ResourceSetPeriodicity |-> Codec(<<ReadEnum(0, 19, TRUE, 20)>>, <<WriteEnum(0, 19, TRUE)>>),
   ResourceRepetitionFactor |-> Codec(<<ReadEnum(0, 6, TRUE, 7)>>, <<WriteEnum(0, 6, TRUE)>>),
   ResourceTimeGap |-> Codec(<<ReadEnum(0, 5, TRUE, 6)>>, <<WriteEnum(0, 5, TRUE)>>)]
FromResourceNumberofSymbols ==
  [ResourceNumberofSymbols |-> Codec(<<ReadEnum(0, 3, TRUE, 4)>>, <<WriteEnum(0, 3, TRUE)>>),
   ReflectiveQosAttribute |-> Codec(<<ReadEnum(0, 0, TRUE, 1)>>, <<WriteEnum(0, 0, TRUE)>>),
   XyZunit |-> Codec(<<ReadEnum(0, 2, TRUE, 3)>>, <<WriteEnum(0, 2, TRUE)>>),
   MilliArcSecondUnits |-> Codec(<<ReadEnum(0, 2, TRUE, 3)>>, <<WriteEnum(0, 2, TRUE)>>)]
FromHeightUnits ==
  [HeightUnits |-> Codec(<<ReadEnum(0, 2, TRUE, 3)>>, <<WriteEnum(0, 2, TRUE)>>),
   ResourceType2 |-> Codec(<<ReadEnum(0, 2, TRUE, 3)>>, <<WriteEnum(0, 2, TRUE)>>),
   PeriodicSet |-> Codec(<<ReadEnum(0, 0, TRUE, 1)>>, <<WriteEnum(0, 0, TRUE)>>),
   SemiPersistentSet |-> Codec(<<ReadEnum(0, 0, TRUE, 1)>>, <<WriteEnum(0, 0, TRUE)>>)]
FromPeriodicity1 ==
  [Periodicity1 |-> Codec(<<ReadEnum(0, 16, TRUE, 17)>>, <<WriteEnum(0, 16, TRUE)>>),
   Periodicity2 |-> Codec(<<ReadEnum(0, 16, TRUE, 17)>>, <<WriteEnum(0, 16, TRUE)>>),
   AperiodicResourceType |-> Codec(<<ReadEnum(0, 0, TRUE, 1)>>, <<WriteEnum(0, 0, TRUE)>>)]
FromPeriodicity3 ==
  [Periodicity3 |-> Codec(<<ReadEnum(0, 20, TRUE, 21)>>, <<WriteEnum(0, 20, TRUE)>>),
   Periodicity4 |-> Codec(<<ReadEnum(0, 20, TRUE, 21)>>, <<WriteEnum(0, 20, TRUE)>>),
   SubcarrierSpacing3 |-> Codec(<<ReadEnum(0, 3, TRUE, 4)>>, <<WriteEnum(0, 3, TRUE)>>)]
FromSwitchingOffOngoing ==
  [SwitchingOffOngoing |-> Codec(<<ReadEnum(0, 0, TRUE, 1)>>, <<WriteEnum(0, 0, TRUE)>>),
   NrofSrsPorts |-> Codec(<<ReadEnum(0, 2, FALSE, 3)>>, <<WriteEnum(0, 2, FALSE)>>),
   NrofSymbols1 |-> Codec(<<ReadEnum(0, 2, FALSE, 3)>>, <<WriteEnum(0, 2, FALSE)>>),
   RepetitionFactor |-> Codec(<<ReadEnum(0, 2, FALSE, 3)>>, <<WriteEnum(0, 2, FALSE)>>)]
FromGroupOrSequenceHopping1 ==
  [GroupOrSequenceHopping1 |-> Codec(<<ReadEnum(0, 2, FALSE, 3)>>, <<WriteEnum(0, 2, FALSE)>>),
   SsbSubcarrierSpacing1 |-> Codec(<<ReadEnum(0, 4, TRUE, 5)>>, <<WriteEnum(0, 4, TRUE)>>),
   SsbPeriodicity |-> Codec(<<ReadEnum(0, 5, TRUE, 6)>>, <<WriteEnum(0, 5, TRUE)>>),
   Resolution1 |-> Codec(<<ReadEnum(0, 3, TRUE, 4)>>, <<WriteEnum(0, 3, TRUE)>>)]
FromN2 ==
  [N2 |-> Codec(
     <<ReadHeader(FALSE, 0), Get("comb_offset_n_2", Num(0, 1, FALSE, "u8")),
       Get("cyclic_shift_n_2", Num(0, 7, FALSE, "u8"))>>,
     <<WriteHeader(FALSE, <<>>), Put("comb_offset_n_2", Num(0, 1, FALSE, "u8")),
       Put("cyclic_shift_n_2", Num(0, 7, FALSE, "u8"))>>),
   N4 |-> Codec(
     <<ReadHeader(FALSE, 0), Get("comb_offset_n_4", Num(0, 3, FALSE, "u8")),
       Get("cyclic_shift_n_4", Num(0, 11, FALSE, "u8"))>>,
     <<WriteHeader(FALSE, <<>>), Put("comb_offset_n_4", Num(0, 3, FALSE, "u8")),
       Put("cyclic_shift_n_4", Num(0, 11, FALSE, "u8"))>>),
   N2_1 |-> Codec(
     <<ReadHeader(FALSE, 0), Get("comb_offset_n_2", Num(0, 1, FALSE, "u8")),
       Get("cyclic_shift_n_2", Num(0, 7, FALSE, "u8"))>>,
     <<WriteHeader(FALSE, <<>>), Put("comb_offset_n_2", Num(0, 1, FALSE, "u8")),
       Put("cyclic_shift_n_2", Num(0, 7, FALSE, "u8"))>>)]
FromN4_1 ==
  [N4_1 |-> Codec(
     <<ReadHeader(FALSE, 0), Get("comb_offset_n_4", Num(0, 3, FALSE, "u8")),
       Get("cyclic_shift_n_4", Num(0, 11, FALSE, "u8"))>>,
     <<WriteHeader(FALSE, <<>>), Put("comb_offset_n_4", Num(0, 3, FALSE, "u8")),
       Put("cyclic_shift_n_4", Num(0, 11, FALSE, "u8"))>>),
   N8 |-> Codec(
     <<ReadHeader(FALSE, 0), Get("comb_offset_n_8", Num(0, 7, FALSE, "u8")),
       Get("cyclic_shift_n_8", Num(0, 5, FALSE, "u8"))>>,
     <<WriteHeader(FALSE, <<>>), Put("comb_offset_n_8", Num(0, 7, FALSE, "u8")),
       Put("cyclic_shift_n_8", Num(0, 5, FALSE, "u8"))>>)]
FromCriticality ==
  [Criticality |-> Codec(<<ReadEnum(0, 2, FALSE, 3)>>, <<WriteEnum(0, 2, FALSE)>>),
   Presence |-> Codec(<<ReadEnum(0, 2, FALSE, 3)>>, <<WriteEnum(0, 2, FALSE)>>),
   PrivateIeId |-> Codec(
     <<ReadChoice(0, 1, FALSE, <<Alt(0, "Local", Num(0, 65535, FALSE, "u16")),
       Alt(1, "Global", OctetString)>>)>>,
     <<WriteChoice(0, 1, FALSE, <<Arm("Local", 0, Num(0, 65535, FALSE, "u16")),
       Arm("Global", 1, OctetString)>>)>>),
   ProcedureCode |-> Codec(
     <<Get("0", Num(0, 255, FALSE, "u8"))>>,
     <<Put("0", Num(0, 255, FALSE, "u8"))>>)]
FromProtocolExtensionId ==
  [ProtocolExtensionId |-> Codec(
     <<Get("0", Num(0, 65535, FALSE, "u16"))>>,
     <<Put("0", Num(0, 65535, FALSE, "u16"))>>),
   ProtocolIeId |-> Codec(
     <<Get("0", Num(0, 65535, FALSE, "u16"))>>,
     <<Put("0", Num(0, 65535, FALSE, "u16"))>>),
   TriggeringMessage |-> Codec(<<ReadEnum(0, 2, FALSE, 3)>>, <<WriteEnum(0, 2, FALSE)>>)]
FromTransportLayerAddress ==
  [TransportLayerAddress |-> Codec(
     <<Get("0", Bits(1, 160, TRUE))>>,
     <<Put("0", Bits(1, 160, TRUE))>>),
   GtpTeid |-> Codec(
     <<Get("0", OctetArray(4, 4, FALSE, 4))>>,
     <<Put("0", OctetArray(4, 4, FALSE, 4))>>)]
FromGtpTunnel ==
  [GtpTunnel |-> Codec(
     <<ReadHeader(TRUE, 1), Get("transport_layer_address", T("TransportLayerAddress")),
       Get("gtp_teid", T("GtpTeid")), ReadExtensions(1, <<>>)>>,
     <<WriteHeader(TRUE, <<"false">>), Put("transport_layer_address", T("TransportLayerAddress")),
       Put("gtp_teid", T("GtpTeid"))>>)]
FromPduSessionId ==
  [PduSessionId |-> Codec(
     <<Get("0", Num(0, 255, FALSE, "u8"))>>,
     <<Put("0", Num(0, 255, FALSE, "u8"))>>)]

Codecs == {FromFiveGsTac, FromTddInfo, FromTimeInformationType, FromTimeToWait,
  FromTnlCapacityIndicator, FromTraceDepth, FromTransmissionBandwidth,
  FromTransmissionStopIndicator, FromTransportUpLayerAddressInfoToRemoveList, FromTrpid,
  FromTrpInformationTypeItem, FromTrpList, FromTrpMeasurementQualityItem,
  FromTrpPositionDefinitionType, FromTrpPositionReferenced, FromTransportLayerAddressInfo,
  FromTscTrafficCharacteristics, FromUacPlmnItem, FromUacCategoryType, FromUacReductionIndication,
  FromUeCapabilityRatContainerList, FromUlBhNonUpTrafficMapping, FromUlConfiguration,
  FromUlRtoaMeasurementItem, FromUlUpTnlInformationToUpdateListItem,
  FromUlUpTnlInformationToBeSetupItem, FromUplinkTxDirectCurrentListInformation, FromVehicleUe,
  FromSubcarrierSpacing1, FromDelayCritical, FromNrDlUlTxPeriodicity, FromSsbPerRachOccasion,
  FromGroupOrSequenceHopping, FromCpType, FromResourceNumberofSymbols, FromHeightUnits,
  FromPeriodicity1, FromPeriodicity3, FromSwitchingOffOngoing, FromGroupOrSequenceHopping1, FromN2,
  FromN4_1, FromCriticality, FromProtocolExtensionId, FromTransportLayerAddress, FromGtpTunnel,
  FromPduSessionId}
=============================================================================
