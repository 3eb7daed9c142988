---------------------------- MODULE F1apIesEtoL ----------------------------
(***************************************************************************)
(* The programs of the codecs of f1ap/src/ies.rs, from                     *)
(* ECidMeasurementQuantities to Ltev2xServicesAuthorized: what             *)
(* decode_inner reads and encode_inner writes, each in the order of its    *)
(* source.                                                                 *)
(***************************************************************************)
EXTENDS PerLayout

FromECidMeasurementQuantities ==
  [ECidMeasurementQuantities |-> Codec(
     <<Get("0", NonEmpty(1, 64, InIe(T("ECidMeasurementQuantitiesItem"))))>>,
     <<Put("0", NonEmpty(1, 64, InIe(T("ECidMeasurementQuantitiesItem"))))>>),
   ECidMeasurementQuantitiesItem |-> Codec(
     <<ReadHeader(FALSE, 1),
       Get("e_ci_dmeasurement_quantities_value", T("ECidMeasurementQuantitiesValue")),
       ReadExtensions(1, <<>>)>>,
     <<WriteHeader(FALSE, <<"false">>),
       Put("e_ci_dmeasurement_quantities_value", T("ECidMeasurementQuantitiesValue"))>>),
   ECidMeasurementQuantitiesValue |-> Codec(
     <<ReadEnum(0, 1, TRUE, 2)>>,
     <<WriteEnum(0, 1, TRUE)>>)]
FromECidMeasurementResult ==
  [ECidMeasurementResult |-> Codec(
     <<ReadHeader(FALSE, 3), GetIf(1, "geographical_coordinates", T("GeographicalCoordinates")),
       GetIf(2, "measured_results_list", T("ECidMeasuredResultsList")), ReadExtensions(3, <<>>)>>,
     <<WriteHeader(FALSE, <<"geographical_coordinates", "measured_results_list", "false">>),
       PutIf("geographical_coordinates", T("GeographicalCoordinates")),
       PutIf("measured_results_list", T("ECidMeasuredResultsList"))>>),
   ECidMeasuredResultsList |-> Codec(
     <<Get("0", NonEmpty(1, 64, T("ECidMeasuredResultsItem")))>>,
     <<Put("0", NonEmpty(1, 64, T("ECidMeasuredResultsItem")))>>),
   ECidMeasuredResultsItem |-> Codec(
     <<ReadHeader(FALSE, 1), Get("e_cid_measured_results_value", T("ECidMeasuredResultsValue")),
       ReadExtensions(1, <<>>)>>,
     <<WriteHeader(FALSE, <<"false">>),
       Put("e_cid_measured_results_value", T("ECidMeasuredResultsValue"))>>)]
FromECidMeasuredResultsValue ==
  [ECidMeasuredResultsValue |-> Codec(
     <<ReadChoice(0, 1, FALSE, <<Alt(0, "ValueAngleofArrivalNr", T("UlAoA")), AltIes(1, <<>>)>>)>>,
     <<WriteChoice(0, 1, FALSE, <<Arm("ValueAngleofArrivalNr", 0, T("UlAoA"))>>)>>),
   ECidReportCharacteristics |-> Codec(<<ReadEnum(0, 1, TRUE, 2)>>, <<WriteEnum(0, 1, TRUE)>>),
   EgressBhrlcchList |-> Codec(
     <<Get("0", NonEmpty(1, 2, T("EgressBhrlcchItem")))>>,
     <<Put("0", NonEmpty(1, 2, T("EgressBhrlcchItem")))>>),
   EgressBhrlcchItem |-> Codec(
     <<ReadHeader(FALSE, 1), Get("next_hop_bap_address", T("BapAddress")),
       Get("bhrlc_channel_id", T("BhrlcChannelId")), ReadExtensions(1, <<>>)>>,
     <<WriteHeader(FALSE, <<"false">>), Put("next_hop_bap_address", T("BapAddress")),
       Put("bhrlc_channel_id", T("BhrlcChannelId"))>>)]
FromEndpointIpAddressAndPort ==
  [EndpointIpAddressAndPort |-> Codec(
     <<ReadHeader(FALSE, 1), Get("endpoint_ip_address", T("TransportLayerAddress")),
       ReadExtensions(1, <<Ie(230, "port_number", T("PortNumber"))>>)>>,
     <<PutIeIf(230, "port_number", T("PortNumber")), WriteHeader(FALSE, <<"num_ies">>),
       Put("endpoint_ip_address", T("TransportLayerAddress")), AppendExtensions>>),
   ExtendedAvailablePlmnList |-> Codec(
     <<Get("0", NonEmpty(1, 6, T("ExtendedAvailablePlmnItem")))>>,
     <<Put("0", NonEmpty(1, 6, T("ExtendedAvailablePlmnItem")))>>),
   ExtendedAvailablePlmnItem |-> Codec(
     <<ReadHeader(FALSE, 1), Get("plmn_identity", T("PlmnIdentity")), ReadExtensions(1, <<>>)>>,
     <<WriteHeader(FALSE, <<"false">>), Put("plmn_identity", T("PlmnIdentity"))>>)]
FromExplicitFormat ==
  [ExplicitFormat |-> Codec(
     <<ReadHeader(FALSE, 3), Get("permutation", T("Permutation")),
       GetIf(1, "noof_downlink_symbols", T("NoofDownlinkSymbols")),
       GetIf(2, "noof_uplink_symbols", T("NoofUplinkSymbols")), ReadExtensions(3, <<>>)>>,
     <<WriteHeader(FALSE, <<"noof_downlink_symbols", "noof_uplink_symbols", "false">>),
       Put("permutation", T("Permutation")),
       PutIf("noof_downlink_symbols", T("NoofDownlinkSymbols")),
       PutIf("noof_uplink_symbols", T("NoofUplinkSymbols"))>>),
   ExtendedServedPlmnsList |-> Codec(
     <<Get("0", NonEmpty(1, 6, T("ExtendedServedPlmnsItem")))>>,
     <<Put("0", NonEmpty(1, 6, T("ExtendedServedPlmnsItem")))>>)]
FromExtendedServedPlmnsItem ==
  [ExtendedServedPlmnsItem |-> Codec(
     <<ReadHeader(TRUE, 2), Get("plmn_identity", T("PlmnIdentity")),
       GetIf(1, "tai_slice_support_list", T("SliceSupportList")),
       ReadExtensions(2, <<Ie(384, "npn_support_info", T("NpnSupportInfo")),
       Ie(390, "extended_tai_slice_support_list", T("ExtendedSliceSupportList"))>>)>>,
     <<PutIeIf(384, "npn_support_info", T("NpnSupportInfo")),
       PutIeIf(390, "extended_tai_slice_support_list", T("ExtendedSliceSupportList")),
       WriteHeader(TRUE, <<"tai_slice_support_list", "num_ies">>),
       Put("plmn_identity", T("PlmnIdentity")),
       PutIf("tai_slice_support_list", T("SliceSupportList")), AppendExtensions>>),
   ExtendedSliceSupportList |-> Codec(
     <<Get("0", NonEmpty(1, 65535, T("SliceSupportItem")))>>,
     <<Put("0", NonEmpty(1, 65535, T("SliceSupportItem")))>>)]
FromEutraCellsList ==
  [EutraCellsList |-> Codec(
     <<Get("0", NonEmpty(1, 256, T("EutraCellsListItem")))>>,
     <<Put("0", NonEmpty(1, 256, T("EutraCellsListItem")))>>),
   EutraCellsListItem |-> Codec(
     <<ReadHeader(FALSE, 1), Get("eutra_cell_id", T("EutraCellId")),
       Get("served_eutra_cells_information", T("ServedEutraCellsInformation")),
       ReadExtensions(1, <<>>)>>,
     <<WriteHeader(FALSE, <<"false">>), Put("eutra_cell_id", T("EutraCellId")),
       Put("served_eutra_cells_information", T("ServedEutraCellsInformation"))>>),
   EutraCellId |-> Codec(<<Get("0", Bits(28, 28, FALSE))>>, <<Put("0", Bits(28, 28, FALSE))>>)]
FromEutraCoexFddInfo ==
  [EutraCoexFddInfo |-> Codec(
     <<ReadHeader(TRUE, 3), GetIf(1, "ul_earfcn", T("ExtendedEarfcn")),
       Get("dl_earfcn", T("ExtendedEarfcn")),
       GetIf(2, "ul_transmission_bandwidth", T("EutraTransmissionBandwidth")),
       Get("dl_transmission_bandwidth", T("EutraTransmissionBandwidth")), ReadExtensions(3, <<>>)>>,
     <<WriteHeader(TRUE, <<"ul_earfcn", "ul_transmission_bandwidth", "false">>),
       PutIf("ul_earfcn", T("ExtendedEarfcn")), Put("dl_earfcn", T("ExtendedEarfcn")),
       PutIf("ul_transmission_bandwidth", T("EutraTransmissionBandwidth")),
       Put("dl_transmission_bandwidth", T("EutraTransmissionBandwidth"))>>),
   EutraCoexModeInfo |-> Codec(
     <<ReadChoice(0, 1, TRUE, <<Alt(0, "Fdd", T("EutraCoexFddInfo")),
       Alt(1, "Tdd", T("EutraCoexTddInfo"))>>)>>,
     <<WriteChoice(0, 1, TRUE, <<Arm("Fdd", 0, T("EutraCoexFddInfo")),
       Arm("Tdd", 1, T("EutraCoexTddInfo"))>>)>>),
   EutraCoexTddInfo |-> Codec(
     <<ReadHeader(TRUE, 1), Get("earfcn", T("ExtendedEarfcn")),
       Get("transmission_bandwidth", T("EutraTransmissionBandwidth")),
       Get("subframe_assignment", T("EutraSubframeAssignment")),
       Get("special_subframe_info", T("EutraSpecialSubframeInfo")), ReadExtensions(1, <<>>)>>,
     <<WriteHeader(TRUE, <<"false">>), Put("earfcn", T("ExtendedEarfcn")),
       Put("transmission_bandwidth", T("EutraTransmissionBandwidth")),
       Put("subframe_assignment", T("EutraSubframeAssignment")),
       Put("special_subframe_info", T("EutraSpecialSubframeInfo"))>>)]
FromEutraCyclicPrefixDl ==
  [EutraCyclicPrefixDl |-> Codec(<<ReadEnum(0, 1, TRUE, 2)>>, <<WriteEnum(0, 1, TRUE)>>),
   EutraCyclicPrefixUl |-> Codec(<<ReadEnum(0, 1, TRUE, 2)>>, <<WriteEnum(0, 1, TRUE)>>),
   EutraPrachConfiguration |-> Codec(
     <<ReadHeader(TRUE, 2), Get("root_sequence_index", Num(0, 837, FALSE, "u16")),
       Get("zero_correlation_index", Num(0, 15, FALSE, "u8")), Get("high_speed_flag", T("BOOL")),
       Get("prach_freq_offset", Num(0, 94, FALSE, "u8")),
       GetIf(1, "prach_config_index", Num(0, 63, FALSE, "u8")), ReadExtensions(2, <<>>)>>,
     <<WriteHeader(TRUE, <<"prach_config_index", "false">>),
       Put("root_sequence_index", Num(0, 837, FALSE, "u16")),
       Put("zero_correlation_index", Num(0, 15, FALSE, "u8")), Put("high_speed_flag", T("BOOL")),
       Put("prach_freq_offset", Num(0, 94, FALSE, "u8")),
       PutIf("prach_config_index", Num(0, 63, FALSE, "u8"))>>)]
FromEutraSpecialSubframeInfo ==
  [EutraSpecialSubframeInfo |-> Codec(
     <<ReadHeader(TRUE, 1), Get("special_subframe_patterns", T("EutraSpecialSubframePatterns")),
       Get("cyclic_prefix_dl", T("EutraCyclicPrefixDl")),
       Get("cyclic_prefix_ul", T("EutraCyclicPrefixUl")), ReadExtensions(1, <<>>)>>,
     <<WriteHeader(TRUE, <<"false">>),
       Put("special_subframe_patterns", T("EutraSpecialSubframePatterns")),
       Put("cyclic_prefix_dl", T("EutraCyclicPrefixDl")),
       Put("cyclic_prefix_ul", T("EutraCyclicPrefixUl"))>>),
   EutraSpecialSubframePatterns |-> Codec(
     <<ReadEnum(0, 10, TRUE, 11)>>,
     <<WriteEnum(0, 10, TRUE)>>),
   EutraSubframeAssignment |-> Codec(<<ReadEnum(0, 6, TRUE, 7)>>, <<WriteEnum(0, 6, TRUE)>>)]
FromEutraTransmissionBandwidth ==
  [EutraTransmissionBandwidth |-> Codec(<<ReadEnum(0, 5, TRUE, 6)>>, <<WriteEnum(0, 5, TRUE)>>),
   EutranQos |-> Codec(
     <<ReadHeader(TRUE, 2), Get("qci", T("Qci")),
       Get("allocation_and_retention_priority", T("AllocationAndRetentionPriority")),
       GetIf(1, "gbr_qos_information", T("GbrQosInformation")), ReadExtensions(2, <<>>)>>,
     <<WriteHeader(TRUE, <<"gbr_qos_information", "false">>), Put("qci", T("Qci")),
       Put("allocation_and_retention_priority", T("AllocationAndRetentionPriority")),
       PutIf("gbr_qos_information", T("GbrQosInformation"))>>),
   ExecuteDuplication |-> Codec(<<ReadEnum(0, 0, TRUE, 1)>>, <<WriteEnum(0, 0, TRUE)>>)]
FromExtendedEarfcn ==
  [ExtendedEarfcn |-> Codec(
     <<Get("0", Num(0, 262143, FALSE, "u32"))>>,
     <<Put("0", Num(0, 262143, FALSE, "u32"))>>),
   EutraModeInfo |-> Codec(
     <<ReadChoice(0, 2, FALSE, <<Alt(0, "Eutrafdd", T("EutraFddInfo")),
       Alt(1, "Eutratdd", T("EutraTddInfo")), AltIes(2, <<>>)>>)>>,
     <<WriteChoice(0, 2, FALSE, <<Arm("Eutrafdd", 0, T("EutraFddInfo")),
       Arm("Eutratdd", 1, T("EutraTddInfo"))>>)>>),
   EutraNrCellResourceCoordinationReqContainer |-> Codec(
     <<Get("0", OctetString)>>,
     <<Put("0", OctetString)>>),
   EutraNrCellResourceCoordinationReqAckContainer |-> Codec(
     <<Get("0", OctetString)>>,
     <<Put("0", OctetString)>>)]
FromEutraFddInfo ==
  [EutraFddInfo |-> Codec(
     <<ReadHeader(TRUE, 1), Get("ul_offset_to_point_a", T("OffsetToPointA")),
       Get("dl_offset_to_point_a", T("OffsetToPointA")), ReadExtensions(1, <<>>)>>,
     <<WriteHeader(TRUE, <<"false">>), Put("ul_offset_to_point_a", T("OffsetToPointA")),
       Put("dl_offset_to_point_a", T("OffsetToPointA"))>>),
   EutraTddInfo |-> Codec(
     <<ReadHeader(TRUE, 1), Get("offset_to_point_a", T("OffsetToPointA")), ReadExtensions(1, <<>>)>>,
     <<WriteHeader(TRUE, <<"false">>), Put("offset_to_point_a", T("OffsetToPointA"))>>),
   EventType |-> Codec(<<ReadEnum(0, 2, TRUE, 3)>>, <<WriteEnum(0, 2, TRUE)>>)]
FromExtendedPacketDelayBudget ==
  [ExtendedPacketDelayBudget |-> Codec(
     <<Get("0", Num(1, 65535, TRUE, "u16"))>>,
     <<Put("0", Num(1, 65535, TRUE, "u16"))>>),
   F1cPathNsa |-> Codec(<<ReadEnum(0, 2, FALSE, 3)>>, <<WriteEnum(0, 2, FALSE)>>),
   F1cTransferPath |-> Codec(
     <<ReadHeader(TRUE, 1), Get("f1c_path_nsa", T("F1cPathNsa")), ReadExtensions(1, <<>>)>>,
     <<WriteHeader(TRUE, <<"false">>), Put("f1c_path_nsa", T("F1cPathNsa"))>>)]
FromFddInfo ==
  [FddInfo |-> Codec(
     <<ReadHeader(TRUE, 1), Get("ul_nr_freq_info", T("NrFreqInfo")),
       Get("dl_nr_freq_info", T("NrFreqInfo")),
       Get("ul_transmission_bandwidth", T("TransmissionBandwidth")),
       Get("dl_transmission_bandwidth", T("TransmissionBandwidth")),
       ReadExtensions(1, <<Ie(355, "ul_carrier_list", T("NrCarrierList")),
       Ie(389, "dl_carrier_list", T("NrCarrierList"))>>)>>,
     <<PutIeIf(355, "ul_carrier_list", T("NrCarrierList")),
       PutIeIf(389, "dl_carrier_list", T("NrCarrierList")), WriteHeader(TRUE, <<"num_ies">>),
       Put("ul_nr_freq_info", T("NrFreqInfo")), Put("dl_nr_freq_info", T("NrFreqInfo")),
       Put("ul_transmission_bandwidth", T("TransmissionBandwidth")),
       Put("dl_transmission_bandwidth", T("TransmissionBandwidth")), AppendExtensions>>),
   FlowsMappedToDrbList |-> Codec(
     <<Get("0", NonEmpty(1, 64, T("FlowsMappedToDrbItem")))>>,
     <<Put("0", NonEmpty(1, 64, T("FlowsMappedToDrbItem")))>>)]
FromFlowsMappedToDrbItem ==
  [FlowsMappedToDrbItem |-> Codec(
     <<ReadHeader(FALSE, 1), Get("qos_flow_identifier", T("QosFlowIdentifier")),
       Get("qos_flow_level_qos_parameters", T("QosFlowLevelQosParameters")),
       ReadExtensions(1, <<Ie(183, "qos_flow_mapping_indication", T("QosFlowMappingIndication")),
       Ie(364, "tsc_traffic_characteristics", T("TscTrafficCharacteristics"))>>)>>,
     <<PutIeIf(183, "qos_flow_mapping_indication", T("QosFlowMappingIndication")),
       PutIeIf(364, "tsc_traffic_characteristics", T("TscTrafficCharacteristics")),
       WriteHeader(FALSE, <<"num_ies">>), Put("qos_flow_identifier", T("QosFlowIdentifier")),
       Put("qos_flow_level_qos_parameters", T("QosFlowLevelQosParameters")), AppendExtensions>>),
   Fr1Bandwidth |-> Codec(<<ReadEnum(0, 6, TRUE, 7)>>, <<WriteEnum(0, 6, TRUE)>>)]
FromFr2Bandwidth ==
  [Fr2Bandwidth |-> Codec(<<ReadEnum(0, 3, TRUE, 4)>>, <<WriteEnum(0, 3, TRUE)>>),
   FreqBandNrItem |-> Codec(
     <<ReadHeader(TRUE, 1), Get("freq_band_indicator_nr", Num(1, 1024, TRUE, "u16")),
       Get("supported_sul_band_list", Vec(0, 32, T("SupportedSulFreqBandItem"))),
       ReadExtensions(1, <<>>)>>,
     <<WriteHeader(TRUE, <<"false">>), Put("freq_band_indicator_nr", Num(1, 1024, TRUE, "u16")),
       Put("supported_sul_band_list", Vec(0, 32, T("SupportedSulFreqBandItem")))>>),
   FreqDomainLength |-> Codec(
     <<ReadChoice(0, 2, FALSE, <<Alt(0, "L839", T("L839Info")), Alt(1, "L139", T("L139Info")),
       AltIes(2, <<>>)>>)>>,
     <<WriteChoice(0, 2, FALSE, <<Arm("L839", 0, T("L839Info")), Arm("L139", 1, T("L139Info"))>>)>>)]
FromFrequencyShift7p5khz ==
  [FrequencyShift7p5khz |-> Codec(<<ReadEnum(0, 1, TRUE, 2)>>, <<WriteEnum(0, 1, TRUE)>>),
   FullConfiguration |-> Codec(<<ReadEnum(0, 0, TRUE, 1)>>, <<WriteEnum(0, 0, TRUE)>>),
   FlowsMappedToSlDrbList |-> Codec(
     <<Get("0", NonEmpty(1, 2048, T("FlowsMappedToSlDrbItem")))>>,
     <<Put("0", NonEmpty(1, 2048, T("FlowsMappedToSlDrbItem")))>>),
   FlowsMappedToSlDrbItem |-> Codec(
     <<ReadHeader(TRUE, 1), Get("pc_5_qos_flow_identifier", T("Pc5QosFlowIdentifier")),
       ReadExtensions(1, <<>>)>>,
     <<WriteHeader(TRUE, <<"false">>), Put("pc_5_qos_flow_identifier", T("Pc5QosFlowIdentifier"))>>)]
FromGbrQosInformation ==
  [GbrQosInformation |-> Codec(
     <<ReadHeader(TRUE, 1), Get("e_rab_maximum_bitrate_dl", T("BitRate")),
       Get("e_rab_maximum_bitrate_ul", T("BitRate")),
       Get("e_rab_guaranteed_bitrate_dl", T("BitRate")),
       Get("e_rab_guaranteed_bitrate_ul", T("BitRate")), ReadExtensions(1, <<>>)>>,
     <<WriteHeader(TRUE, <<"false">>), Put("e_rab_maximum_bitrate_dl", T("BitRate")),
       Put("e_rab_maximum_bitrate_ul", T("BitRate")),
       Put("e_rab_guaranteed_bitrate_dl", T("BitRate")),
       Put("e_rab_guaranteed_bitrate_ul", T("BitRate"))>>),
   GbrQosFlowInformation |-> Codec(
     <<ReadHeader(TRUE, 3), Get("max_flow_bit_rate_downlink", T("BitRate")),
       Get("max_flow_bit_rate_uplink", T("BitRate")),
       Get("guaranteed_flow_bit_rate_downlink", T("BitRate")),
       Get("guaranteed_flow_bit_rate_uplink", T("BitRate")),
       GetIf(1, "max_packet_loss_rate_downlink", T("MaxPacketLossRate")),
       GetIf(2, "max_packet_loss_rate_uplink", T("MaxPacketLossRate")),
       ReadExtensions(3, <<Ie(343, "alternative_qos_para_set_list", T("AlternativeQosParaSetList"))>>)>>,
     <<PutIeIf(343, "alternative_qos_para_set_list", T("AlternativeQosParaSetList")),
       WriteHeader(TRUE, <<"max_packet_loss_rate_downlink", "max_packet_loss_rate_uplink",
       "num_ies">>), Put("max_flow_bit_rate_downlink", T("BitRate")),
       Put("max_flow_bit_rate_uplink", T("BitRate")),
       Put("guaranteed_flow_bit_rate_downlink", T("BitRate")),
       Put("guaranteed_flow_bit_rate_uplink", T("BitRate")),
       PutIf("max_packet_loss_rate_downlink", T("MaxPacketLossRate")),
       PutIf("max_packet_loss_rate_uplink", T("MaxPacketLossRate")), AppendExtensions>>)]
FromCgConfig ==
  [CgConfig |-> Codec(<<Get("0", OctetString)>>, <<Put("0", OctetString)>>),
   GeographicalCoordinates |-> Codec(
     <<ReadHeader(FALSE, 2), Get("trp_position_definition_type", T("TrpPositionDefinitionType")),
       GetIf(1, "dlprs_resource_coordinates", T("DlprsResourceCoordinates")),
       ReadExtensions(2, <<>>)>>,
     <<WriteHeader(FALSE, <<"dlprs_resource_coordinates", "false">>),
       Put("trp_position_definition_type", T("TrpPositionDefinitionType")),
       PutIf("dlprs_resource_coordinates", T("DlprsResourceCoordinates"))>>),
   GnbCuMeasurementId |-> Codec(
     <<Get("0", Num(0, 4095, TRUE, "u16"))>>,
     <<Put("0", Num(0, 4095, TRUE, "u16"))>>),
   GnbDuMeasurementId |-> Codec(
     <<Get("0", Num(0, 4095, TRUE, "u16"))>>,
     <<Put("0", Num(0, 4095, TRUE, "u16"))>>)]
FromGnbCuSystemInformation ==
  [GnbCuSystemInformation |-> Codec(
     <<ReadHeader(TRUE, 1),
       Get("sib_type_to_be_updated_list", NonEmpty(1, 32, T("SibTypeToBeUpdatedListItem"))),
       ReadExtensions(1, <<Ie(239, "system_information_area_id", T("SystemInformationAreaId"))>>)>>,
     <<PutIeIf(239, "system_information_area_id", T("SystemInformationAreaId")),
       WriteHeader(TRUE, <<"num_ies">>),
       Put("sib_type_to_be_updated_list", NonEmpty(1, 32, T("SibTypeToBeUpdatedListItem"))),
       AppendExtensions>>),
   GnbCuTnlAssociationSetupItem |-> Codec(
     <<ReadHeader(FALSE, 1),
       Get("tnl_association_transport_layer_address", T("CpTransportLayerAddress")),
       ReadExtensions(1, <<>>)>>,
     <<WriteHeader(FALSE, <<"false">>),
       Put("tnl_association_transport_layer_address", T("CpTransportLayerAddress"))>>)]
FromGnbCuTnlAssociationFailedToSetupItem ==
  [GnbCuTnlAssociationFailedToSetupItem |-> Codec(
     <<ReadHeader(FALSE, 1),
       Get("tnl_association_transport_layer_address", T("CpTransportLayerAddress")),
       Get("cause", T("Cause")), ReadExtensions(1, <<>>)>>,
     <<WriteHeader(FALSE, <<"false">>),
       Put("tnl_association_transport_layer_address", T("CpTransportLayerAddress")),
       Put("cause", T("Cause"))>>),
   GnbCuTnlAssociationToAddItem |-> Codec(
     <<ReadHeader(FALSE, 1),
       Get("tnl_association_transport_layer_address", T("CpTransportLayerAddress")),
       Get("tnl_association_usage", T("TnlAssociationUsage")), ReadExtensions(1, <<>>)>>,
     <<WriteHeader(FALSE, <<"false">>),
       Put("tnl_association_transport_layer_address", T("CpTransportLayerAddress")),
       Put("tnl_association_usage", T("TnlAssociationUsage"))>>),
   GnbCuTnlAssociationToRemoveItem |-> Codec(
     <<ReadHeader(FALSE, 1),
       Get("tnl_association_transport_layer_address", T("CpTransportLayerAddress")),
       ReadExtensions(1, <<Ie(229, "tnl_association_transport_layer_address_gnb_du", T("CpTransportLayerAddress"))>>)>>,
     <<PutIeIf(229, "tnl_association_transport_layer_address_gnb_du", T("CpTransportLayerAddress")),
       WriteHeader(FALSE, <<"num_ies">>),
       Put("tnl_association_transport_layer_address", T("CpTransportLayerAddress")),
       AppendExtensions>>)]
FromGnbCuTnlAssociationToUpdateItem ==
  [GnbCuTnlAssociationToUpdateItem |-> Codec(
     <<ReadHeader(FALSE, 2),
       Get("tnl_association_transport_layer_address", T("CpTransportLayerAddress")),
       GetIf(1, "tnl_association_usage", T("TnlAssociationUsage")), ReadExtensions(2, <<>>)>>,
     <<WriteHeader(FALSE, <<"tnl_association_usage", "false">>),
       Put("tnl_association_transport_layer_address", T("CpTransportLayerAddress")),
       PutIf("tnl_association_usage", T("TnlAssociationUsage"))>>),
   GnbCuUeF1apId |-> Codec(
     <<Get("0", BigNum("0..4294967295", FALSE, "u32"))>>,
     <<Put("0", BigNum("0..4294967295", FALSE, "u32"))>>),
   GnbDuCellResourceConfiguration |-> Codec(
     <<ReadHeader(FALSE, 4), Get("subcarrier_spacing", T("SubcarrierSpacing")),
       GetIf(1, "du_f_transmission_periodicity", T("DuFTransmissionPeriodicity")),
       GetIf(2, "du_f_slot_config_list", T("DuFSlotConfigList")),
       Get("hsna_transmission_periodicity", T("HsnaTransmissionPeriodicity")),
       GetIf(3, "hnsa_slot_config_list", T("HsnaSlotConfigList")), ReadExtensions(4, <<>>)>>,
     <<WriteHeader(FALSE, <<"du_f_transmission_periodicity", "du_f_slot_config_list",
       "hnsa_slot_config_list", "false">>), Put("subcarrier_spacing", T("SubcarrierSpacing")),
       PutIf("du_f_transmission_periodicity", T("DuFTransmissionPeriodicity")),
       PutIf("du_f_slot_config_list", T("DuFSlotConfigList")),
       Put("hsna_transmission_periodicity", T("HsnaTransmissionPeriodicity")),
       PutIf("hnsa_slot_config_list", T("HsnaSlotConfigList"))>>)]
FromGnbDuUeF1apId ==
  [GnbDuUeF1apId |-> Codec(
     <<Get("0", BigNum("0..4294967295", FALSE, "u32"))>>,
     <<Put("0", BigNum("0..4294967295", FALSE, "u32"))>>),
   GnbDuId |-> Codec(
     <<Get("0", BigNum("0..68719476735", FALSE, "u64"))>>,
     <<Put("0", BigNum("0..68719476735", FALSE, "u64"))>>),
   GnbCuName |-> Codec(
     <<Get("0", Chars("printable_string", 1, 150, TRUE))>>,
     <<Put("0", Chars("printable_string", 1, 150, TRUE))>>),
   GnbDuName |-> Codec(
     <<Get("0", Chars("printable_string", 1, 150, TRUE))>>,
     <<Put("0", Chars("printable_string", 1, 150, TRUE))>>)]
FromExtendedGnbCuName ==
  [ExtendedGnbCuName |-> Codec(
     <<ReadHeader(TRUE, 3), GetIf(1, "gnb_cu_name_visible_string", T("GnbCuNameVisibleString")),
       GetIf(2, "gnb_cu_name_utf8_string", T("GnbCuNameUtf8String")), ReadExtensions(3, <<>>)>>,
     <<WriteHeader(TRUE, <<"gnb_cu_name_visible_string", "gnb_cu_name_utf8_string", "false">>),
       PutIf("gnb_cu_name_visible_string", T("GnbCuNameVisibleString")),
       PutIf("gnb_cu_name_utf8_string", T("GnbCuNameUtf8String"))>>),
   GnbCuNameVisibleString |-> Codec(
     <<Get("0", Chars("visible_string", 1, 150, TRUE))>>,
     <<Put("0", Chars("visible_string", 1, 150, TRUE))>>),
   GnbCuNameUtf8String |-> Codec(
     <<Get("0", Chars("utf8_string", 1, 150, TRUE))>>,
     <<Put("0", Chars("utf8_string", 1, 150, TRUE))>>)]
FromExtendedGnbDuName ==
  [ExtendedGnbDuName |-> Codec(
     <<ReadHeader(TRUE, 3), GetIf(1, "gnb_du_name_visible_string", T("GnbDuNameVisibleString")),
       GetIf(2, "gnb_du_name_utf8_string", T("GnbDuNameUtf8String")), ReadExtensions(3, <<>>)>>,
     <<WriteHeader(TRUE, <<"gnb_du_name_visible_string", "gnb_du_name_utf8_string", "false">>),
       PutIf("gnb_du_name_visible_string", T("GnbDuNameVisibleString")),
       PutIf("gnb_du_name_utf8_string", T("GnbDuNameUtf8String"))>>),
   GnbDuNameVisibleString |-> Codec(
     <<Get("0", Chars("visible_string", 1, 150, TRUE))>>,
     <<Put("0", Chars("visible_string", 1, 150, TRUE))>>),
   GnbDuNameUtf8String |-> Codec(
     <<Get("0", Chars("utf8_string", 1, 150, TRUE))>>,
     <<Put("0", Chars("utf8_string", 1, 150, TRUE))>>)]
FromGnbDuServedCellsItem ==
  [GnbDuServedCellsItem |-> Codec(
     <<ReadHeader(TRUE, 2), Get("served_cell_information", T("ServedCellInformation")),
       GetIf(1, "gnb_du_system_information", T("GnbDuSystemInformation")), ReadExtensions(2, <<>>)>>,
     <<WriteHeader(TRUE, <<"gnb_du_system_information", "false">>),
       Put("served_cell_information", T("ServedCellInformation")),
       PutIf("gnb_du_system_information", T("GnbDuSystemInformation"))>>),
   GnbDuSystemInformation |-> Codec(
     <<ReadHeader(TRUE, 1), Get("mib_message", T("MibMessage")),
       Get("sib_1_message", T("Sib1Message")),
       ReadExtensions(1, <<Ie(310, "sib_12_message", T("Sib12Message")),
       Ie(311, "sib_13_message", T("Sib13Message")), Ie(312, "sib_14_message", T("Sib14Message")),
       Ie(387, "sib_10_message", T("Sib10Message"))>>)>>,
     <<PutIeIf(310, "sib_12_message", T("Sib12Message")),
       PutIeIf(311, "sib_13_message", T("Sib13Message")),
       PutIeIf(312, "sib_14_message", T("Sib14Message")),
       PutIeIf(387, "sib_10_message", T("Sib10Message")), WriteHeader(TRUE, <<"num_ies">>),
       Put("mib_message", T("MibMessage")), Put("sib_1_message", T("Sib1Message")),
       AppendExtensions>>)]
FromGnbDuConfigurationQuery ==
  [GnbDuConfigurationQuery |-> Codec(<<ReadEnum(0, 0, TRUE, 1)>>, <<WriteEnum(0, 0, TRUE)>>),
   GnbDuOverloadInformation |-> Codec(<<ReadEnum(0, 1, FALSE, 2)>>, <<WriteEnum(0, 1, FALSE)>>),
   GnbDuTnlAssociationToRemoveItem |-> Codec(
     <<ReadHeader(FALSE, 2),
       Get("tnl_association_transport_layer_address", T("CpTransportLayerAddress")),
       GetIf(1, "tnl_association_transport_layer_address_gnb_cu", T("CpTransportLayerAddress")),
       ReadExtensions(2, <<>>)>>,
     <<WriteHeader(FALSE, <<"tnl_association_transport_layer_address_gnb_cu", "false">>),
       Put("tnl_association_transport_layer_address", T("CpTransportLayerAddress")),
       PutIf("tnl_association_transport_layer_address_gnb_cu", T("CpTransportLayerAddress"))>>)]
FromGnbRxTxTimeDiff ==
  [GnbRxTxTimeDiff |-> Codec(
     <<ReadHeader(FALSE, 2), Get("rx_tx_time_diff", T("GnbRxTxTimeDiffMeas")),
       GetIf(1, "additional_path_list", T("AdditionalPathList")), ReadExtensions(2, <<>>)>>,
     <<WriteHeader(FALSE, <<"additional_path_list", "false">>),
       Put("rx_tx_time_diff", T("GnbRxTxTimeDiffMeas")),
       PutIf("additional_path_list", T("AdditionalPathList"))>>),
   GnbRxTxTimeDiffMeas |-> Codec(
     <<ReadChoice(0, 6, FALSE, <<Alt(0, "K0", Num(0, 1970049, FALSE, "u32")),
       Alt(1, "K1", Num(0, 985025, FALSE, "u32")), Alt(2, "K2", Num(0, 492513, FALSE, "u32")),
       Alt(3, "K3", Num(0, 246257, FALSE, "u32")), Alt(4, "K4", Num(0, 123129, FALSE, "u32")),
       Alt(5, "K5", Num(0, 61565, FALSE, "u16")), AltIes(6, <<>>)>>)>>,
     <<WriteChoice(0, 6, FALSE, <<Arm("K0", 0, Num(0, 1970049, FALSE, "u32")),
       Arm("K1", 1, Num(0, 985025, FALSE, "u32")), Arm("K2", 2, Num(0, 492513, FALSE, "u32")),
       Arm("K3", 3, Num(0, 246257, FALSE, "u32")), Arm("K4", 4, Num(0, 123129, FALSE, "u32")),
       Arm("K5", 5, Num(0, 61565, FALSE, "u16"))>>)>>)]
FromGnbSetId ==
  [GnbSetId |-> Codec(<<Get("0", Bits(22, 22, FALSE))>>, <<Put("0", Bits(22, 22, FALSE))>>),
   GtptlAs |-> Codec(
     <<Get("0", NonEmpty(1, 16, T("GtptlaItem")))>>,
     <<Put("0", NonEmpty(1, 16, T("GtptlaItem")))>>),
   GtptlaItem |-> Codec(
     <<ReadHeader(FALSE, 1), Get("gtp_transport_layer_address", T("TransportLayerAddress")),
       ReadExtensions(1, <<>>)>>,
     <<WriteHeader(FALSE, <<"false">>),
       Put("gtp_transport_layer_address", T("TransportLayerAddress"))>>),
   HandoverPreparationInformation |-> Codec(<<Get("0", OctetString)>>, <<Put("0", OctetString)>>)]
FromHardwareLoadIndicator ==
  [HardwareLoadIndicator |-> Codec(
     <<ReadHeader(TRUE, 1), Get("dl_hardware_load_indicator", Num(0, 100, TRUE, "u8")),
       Get("ul_hardware_load_indicator", Num(0, 100, TRUE, "u8")), ReadExtensions(1, <<>>)>>,
     <<WriteHeader(TRUE, <<"false">>), Put("dl_hardware_load_indicator", Num(0, 100, TRUE, "u8")),
       Put("ul_hardware_load_indicator", Num(0, 100, TRUE, "u8"))>>),
   HsnaSlotConfigList |-> Codec(
     <<Get("0", NonEmpty(1, 5120, T("HsnaSlotConfigItem")))>>,
     <<Put("0", NonEmpty(1, 5120, T("HsnaSlotConfigItem")))>>),
   HsnaSlotConfigItem |-> Codec(
     <<ReadHeader(FALSE, 4), GetIf(1, "hsna_downlink", T("HsnaDownlink")),
       GetIf(2, "hsna_uplink", T("HsnaUplink")), GetIf(3, "hsna_flexible", T("HsnaFlexible")),
       ReadExtensions(4, <<>>)>>,
     <<WriteHeader(FALSE, <<"hsna_downlink", "hsna_uplink", "hsna_flexible", "false">>),
       PutIf("hsna_downlink", T("HsnaDownlink")), PutIf("hsna_uplink", T("HsnaUplink")),
       PutIf("hsna_flexible", T("HsnaFlexible"))>>)]
FromHsnaDownlink ==
  [HsnaDownlink |-> Codec(<<ReadEnum(0, 2, FALSE, 3)>>, <<WriteEnum(0, 2, FALSE)>>),
   HsnaFlexible |-> Codec(<<ReadEnum(0, 2, FALSE, 3)>>, <<WriteEnum(0, 2, FALSE)>>),
   HsnaUplink |-> Codec(<<ReadEnum(0, 2, FALSE, 3)>>, <<WriteEnum(0, 2, FALSE)>>),
   HsnaTransmissionPeriodicity |-> Codec(
     <<ReadEnum(0, 11, TRUE, 12)>>,
     <<WriteEnum(0, 11, TRUE)>>)]
FromIabBarred ==
  [IabBarred |-> Codec(<<ReadEnum(0, 1, TRUE, 2)>>, <<WriteEnum(0, 1, TRUE)>>),
   IabInfoIabDonorCu |-> Codec(
     <<ReadHeader(FALSE, 2), GetIf(1, "iab_stc_info", T("IabStcInfo")), ReadExtensions(2, <<>>)>>,
     <<WriteHeader(FALSE, <<"iab_stc_info", "false">>), PutIf("iab_stc_info", T("IabStcInfo"))>>),
   IabInfoIabDu |-> Codec(
     <<ReadHeader(FALSE, 3), GetIf(1, "multiplexing_info", T("MultiplexingInfo")),
       GetIf(2, "iab_stc_info", T("IabStcInfo")), ReadExtensions(3, <<>>)>>,
     <<WriteHeader(FALSE, <<"multiplexing_info", "iab_stc_info", "false">>),
       PutIf("multiplexing_info", T("MultiplexingInfo")), PutIf("iab_stc_info", T("IabStcInfo"))>>)]
FromIabMtCellList ==
  [IabMtCellList |-> Codec(
     <<Get("0", NonEmpty(1, 32, T("IabMtCellListItem")))>>,
     <<Put("0", NonEmpty(1, 32, T("IabMtCellListItem")))>>),
   IabMtCellListItem |-> Codec(
     <<ReadHeader(FALSE, 1), Get("nr_cell_identity", T("NrCellIdentity")),
       Get("du_rx_mt_rx", T("DuRxMtRx")), Get("du_tx_mt_tx", T("DuTxMtTx")),
       Get("du_rx_mt_tx", T("DuRxMtTx")), Get("du_tx_mt_rx", T("DuTxMtRx")),
       ReadExtensions(1, <<>>)>>,
     <<WriteHeader(FALSE, <<"false">>), Put("nr_cell_identity", T("NrCellIdentity")),
       Put("du_rx_mt_rx", T("DuRxMtRx")), Put("du_tx_mt_tx", T("DuTxMtTx")),
       Put("du_rx_mt_tx", T("DuRxMtTx")), Put("du_tx_mt_rx", T("DuTxMtRx"))>>),
   IabStcInfo |-> Codec(
     <<ReadHeader(FALSE, 1), Get("iab_stc_info_list", T("IabStcInfoList")),
       ReadExtensions(1, <<>>)>>,
     <<WriteHeader(FALSE, <<"false">>), Put("iab_stc_info_list", T("IabStcInfoList"))>>)]
FromIabStcInfoList ==
  [IabStcInfoList |-> Codec(
     <<Get("0", NonEmpty(1, 45, T("IabStcInfoItem")))>>,
     <<Put("0", NonEmpty(1, 45, T("IabStcInfoItem")))>>),
   IabStcInfoItem |-> Codec(
     <<ReadHeader(FALSE, 1), Get("ssb_freq_info", T("SsbFreqInfo")),
       Get("ssb_subcarrier_spacing", T("SsbSubcarrierSpacing")),
       Get("ssb_transmission_periodicity", T("SsbTransmissionPeriodicity")),
       Get("ssb_transmission_timing_offset", T("SsbTransmissionTimingOffset")),
       Get("ssb_transmission_bitmap", T("SsbTransmissionBitmap")), ReadExtensions(1, <<>>)>>,
     <<WriteHeader(FALSE, <<"false">>), Put("ssb_freq_info", T("SsbFreqInfo")),
       Put("ssb_subcarrier_spacing", T("SsbSubcarrierSpacing")),
       Put("ssb_transmission_periodicity", T("SsbTransmissionPeriodicity")),
       Put("ssb_transmission_timing_offset", T("SsbTransmissionTimingOffset")),
       Put("ssb_transmission_bitmap", T("SsbTransmissionBitmap"))>>),
   IabAllocatedTnlAddressItem |-> Codec(
     <<ReadHeader(FALSE, 2), Get("iabtnl_address", T("IabtnlAddress")),
       GetIf(1, "iabtnl_address_usage", T("IabtnlAddressUsage")), ReadExtensions(2, <<>>)>>,
     <<WriteHeader(FALSE, <<"iabtnl_address_usage", "false">>),
       Put("iabtnl_address", T("IabtnlAddress")),
       PutIf("iabtnl_address_usage", T("IabtnlAddressUsage"))>>)]
FromIabDuCellResourceConfigurationModeInfo ==
  [IabDuCellResourceConfigurationModeInfo |-> Codec(
     <<ReadChoice(0, 2, FALSE, <<Alt(0, "Fdd", T("IabDuCellResourceConfigurationFddInfo")),
       Alt(1, "Tdd", T("IabDuCellResourceConfigurationTddInfo")), AltIes(2, <<>>)>>)>>,
     <<WriteChoice(0, 2, FALSE, <<Arm("Fdd", 0, T("IabDuCellResourceConfigurationFddInfo")),
       Arm("Tdd", 1, T("IabDuCellResourceConfigurationTddInfo"))>>)>>),
   IabDuCellResourceConfigurationFddInfo |-> Codec(
     <<ReadHeader(TRUE, 1),
       Get("gnb_du_cell_resource_configuration_fdd_ul", T("GnbDuCellResourceConfiguration")),
       Get("gnb_du_cell_resource_configuration_fdd_dl", T("GnbDuCellResourceConfiguration")),
       ReadExtensions(1, <<>>)>>,
     <<WriteHeader(TRUE, <<"false">>),
       Put("gnb_du_cell_resource_configuration_fdd_ul", T("GnbDuCellResourceConfiguration")),
       Put("gnb_du_cell_resource_configuration_fdd_dl", T("GnbDuCellResourceConfiguration"))>>),
   IabDuCellResourceConfigurationTddInfo |-> Codec(
     <<ReadHeader(TRUE, 1),
       Get("gnb_du_cell_resourc_configuration_tdd", T("GnbDuCellResourceConfiguration")),
       ReadExtensions(1, <<>>)>>,
     <<WriteHeader(TRUE, <<"false">>),
       Put("gnb_du_cell_resourc_configuration_tdd", T("GnbDuCellResourceConfiguration"))>>)]
FromIabiPv6RequestType ==
  [IabiPv6RequestType |-> Codec(
     <<ReadChoice(0, 2, FALSE, <<Alt(0, "IPv6Address", T("IabtnlAddressesRequested")),
       Alt(1, "IPv6Prefix", T("IabtnlAddressesRequested")), AltIes(2, <<>>)>>)>>,
     <<WriteChoice(0, 2, FALSE, <<Arm("IPv6Address", 0, T("IabtnlAddressesRequested")),
       Arm("IPv6Prefix", 1, T("IabtnlAddressesRequested"))>>)>>),
   IabtnlAddress |-> Codec(
     <<ReadChoice(0, 3, FALSE, <<Alt(0, "IPv4Address", Bits(32, 32, FALSE)),
       Alt(1, "IPv6Address", Bits(128, 128, FALSE)), Alt(2, "IPv6Prefix", Bits(64, 64, FALSE)),
       AltIes(3, <<>>)>>)>>,
     <<WriteChoice(0, 3, FALSE, <<Arm("IPv4Address", 0, Bits(32, 32, FALSE)),
       Arm("IPv6Address", 1, Bits(128, 128, FALSE)), Arm("IPv6Prefix", 2, Bits(64, 64, FALSE))>>)>>)]
FromIabtnlAddressesRequested ==
  [IabtnlAddressesRequested |-> Codec(
     <<ReadHeader(FALSE, 5),
       GetIf(1, "tnl_addresses_or_prefixes_requested_all_traffic", Num(1, 256, FALSE, "u16")),
       GetIf(2, "tnl_addresses_or_prefixes_requested_f1_c", Num(1, 256, FALSE, "u16")),
       GetIf(3, "tnl_addresses_or_prefixes_requested_f1_u", Num(1, 256, FALSE, "u16")),
       GetIf(4, "tnl_addresses_or_prefixes_requested_no_nf1", Num(1, 256, FALSE, "u16")),
       ReadExtensions(5, <<>>)>>,
     <<WriteHeader(FALSE, <<"tnl_addresses_or_prefixes_requested_all_traffic",
       "tnl_addresses_or_prefixes_requested_f1_c", "tnl_addresses_or_prefixes_requested_f1_u",
       "tnl_addresses_or_prefixes_requested_no_nf1", "false">>),
       PutIf("tnl_addresses_or_prefixes_requested_all_traffic", Num(1, 256, FALSE, "u16")),
       PutIf("tnl_addresses_or_prefixes_requested_f1_c", Num(1, 256, FALSE, "u16")),
       PutIf("tnl_addresses_or_prefixes_requested_f1_u", Num(1, 256, FALSE, "u16")),
       PutIf("tnl_addresses_or_prefixes_requested_no_nf1", Num(1, 256, FALSE, "u16"))>>),
   IabTnlAddressesToRemoveItem |-> Codec(
     <<ReadHeader(FALSE, 1), Get("iabtnl_address", T("IabtnlAddress")), ReadExtensions(1, <<>>)>>,
     <<WriteHeader(FALSE, <<"false">>), Put("iabtnl_address", T("IabtnlAddress"))>>)]
FromIabtnlAddressUsage ==
  [IabtnlAddressUsage |-> Codec(<<ReadEnum(0, 2, TRUE, 3)>>, <<WriteEnum(0, 2, TRUE)>>),
   IaBv4AddressesRequested |-> Codec(
     <<ReadHeader(FALSE, 1), Get("ia_bv_4_addresses_requested", T("IabtnlAddressesRequested")),
       ReadExtensions(1, <<>>)>>,
     <<WriteHeader(FALSE, <<"false">>),
       Put("ia_bv_4_addresses_requested", T("IabtnlAddressesRequested"))>>),
   ImplicitFormat |-> Codec(
     <<ReadHeader(FALSE, 1), Get("du_f_slotformat_index", T("DuFSlotformatIndex")),
       ReadExtensions(1, <<>>)>>,
     <<WriteHeader(FALSE, <<"false">>), Put("du_f_slotformat_index", T("DuFSlotformatIndex"))>>)]
FromIgnorePrachConfiguration ==
  [IgnorePrachConfiguration |-> Codec(<<ReadEnum(0, 0, TRUE, 1)>>, <<WriteEnum(0, 0, TRUE)>>),
   IgnoreResourceCoordinationContainer |-> Codec(
     <<ReadEnum(0, 0, TRUE, 1)>>,
     <<WriteEnum(0, 0, TRUE)>>),
   InactivityMonitoringRequest |-> Codec(<<ReadEnum(0, 0, TRUE, 1)>>, <<WriteEnum(0, 0, TRUE)>>),
   InactivityMonitoringResponse |-> Codec(<<ReadEnum(0, 0, TRUE, 1)>>, <<WriteEnum(0, 0, TRUE)>>)]
FromInterfacesToTrace ==
  [InterfacesToTrace |-> Codec(<<Get("0", Bits(8, 8, FALSE))>>, <<Put("0", Bits(8, 8, FALSE))>>),
   IntendedTddDlUlConfig |-> Codec(
     <<ReadHeader(FALSE, 1), Get("nr_scs", T("NrScs1")), Get("nr_cp", T("NrCp")),
       Get("nr_dl_ul_tx_periodicity", T("NrDlUlTxPeriodicity")),
       Get("slot_configuration_list", T("SlotConfigurationList")), ReadExtensions(1, <<>>)>>,
     <<WriteHeader(FALSE, <<"false">>), Put("nr_scs", T("NrScs1")), Put("nr_cp", T("NrCp")),
       Put("nr_dl_ul_tx_periodicity", T("NrDlUlTxPeriodicity")),
       Put("slot_configuration_list", T("SlotConfigurationList"))>>),
   IpHeaderInformation |-> Codec(
     <<ReadHeader(TRUE, 3), Get("destination_iabtnl_address", T("IabtnlAddress")),
       GetIf(1, "ds_information_list", T("DsInformationList")),
       GetIf(2, "i_pv_6_flow_label", Bits(20, 20, FALSE)), ReadExtensions(3, <<>>)>>,
     <<WriteHeader(TRUE, <<"ds_information_list", "i_pv_6_flow_label", "false">>),
       Put("destination_iabtnl_address", T("IabtnlAddress")),
       PutIf("ds_information_list", T("DsInformationList")),
       PutIf("i_pv_6_flow_label", Bits(20, 20, FALSE))>>)]
FromIPtolayer2TrafficMappingInfo ==
  [IPtolayer2TrafficMappingInfo |-> Codec(
     <<ReadHeader(TRUE, 3),
       GetIf(1, "i_ptolayer_2_traffic_mapping_info_to_add", T("IPtolayer2TrafficMappingInfoList")),
       GetIf(2, "i_ptolayer_2_traffic_mapping_info_to_remove", T("MappingInformationtoRemove")),
       ReadExtensions(3, <<>>)>>,
     <<WriteHeader(TRUE, <<"i_ptolayer_2_traffic_mapping_info_to_add",
       "i_ptolayer_2_traffic_mapping_info_to_remove", "false">>),
       PutIf("i_ptolayer_2_traffic_mapping_info_to_add", T("IPtolayer2TrafficMappingInfoList")),
       PutIf("i_ptolayer_2_traffic_mapping_info_to_remove", T("MappingInformationtoRemove"))>>),
   IPtolayer2TrafficMappingInfoList |-> Codec(
     <<Get("0", NonEmpty(1, 67108864, T("IPtolayer2TrafficMappingInfoItem")))>>,
     <<Put("0", NonEmpty(1, 67108864, T("IPtolayer2TrafficMappingInfoItem")))>>),
   IPtolayer2TrafficMappingInfoItem |-> Codec(
     <<ReadHeader(TRUE, 1), Get("mapping_information_index", T("MappingInformationIndex")),
       Get("ip_header_information", T("IpHeaderInformation")), Get("bh_info", T("BhInfo")),
       ReadExtensions(1, <<>>)>>,
     <<WriteHeader(TRUE, <<"false">>),
       Put("mapping_information_index", T("MappingInformationIndex")),
       Put("ip_header_information", T("IpHeaderInformation")), Put("bh_info", T("BhInfo"))>>)]
FromL139Info ==
  [L139Info |-> Codec(
     <<ReadHeader(TRUE, 2), Get("msg_1scs", T("Msg1scs")),
       GetIf(1, "root_sequence_index", Num(0, 137, FALSE, "u8")), ReadExtensions(2, <<>>)>>,
     <<WriteHeader(TRUE, <<"root_sequence_index", "false">>), Put("msg_1scs", T("Msg1scs")),
       PutIf("root_sequence_index", Num(0, 137, FALSE, "u8"))>>),
   L839Info |-> Codec(
     <<ReadHeader(TRUE, 1), Get("root_sequence_index", Num(0, 837, FALSE, "u16")),
       Get("restricted_set_config", T("RestrictedSetConfig")), ReadExtensions(1, <<>>)>>,
     <<WriteHeader(TRUE, <<"false">>), Put("root_sequence_index", Num(0, 837, FALSE, "u16")),
       Put("restricted_set_config", T("RestrictedSetConfig"))>>),
   Lcid |-> Codec(<<Get("0", Num(1, 32, TRUE, "u8"))>>, <<Put("0", Num(1, 32, TRUE, "u8"))>>)]
FromLcsToGcsTranslationAoA ==
  [LcsToGcsTranslationAoA |-> Codec(
     <<ReadHeader(TRUE, 1), Get("alpha", Num(0, 3599, FALSE, "u16")),
       Get("beta", Num(0, 3599, FALSE, "u16")), Get("gamma", Num(0, 3599, FALSE, "u16")),
       ReadExtensions(1, <<>>)>>,
     <<WriteHeader(TRUE, <<"false">>), Put("alpha", Num(0, 3599, FALSE, "u16")),
       Put("beta", Num(0, 3599, FALSE, "u16")), Put("gamma", Num(0, 3599, FALSE, "u16"))>>),
   LcStoGcsTranslationList |-> Codec(
     <<Get("0", NonEmpty(1, 3, T("LcStoGcsTranslation")))>>,
     <<Put("0", NonEmpty(1, 3, T("LcStoGcsTranslation")))>>),
   LcStoGcsTranslation |-> Codec(
     <<ReadHeader(FALSE, 4), Get("alpha", Num(0, 359, FALSE, "u16")),
       GetIf(1, "alpha_fine", Num(0, 9, FALSE, "u8")), Get("beta", Num(0, 359, FALSE, "u16")),
       GetIf(2, "beta_fine", Num(0, 9, FALSE, "u8")), Get("gamma", Num(0, 359, FALSE, "u16")),
       GetIf(3, "gamma_fine", Num(0, 9, FALSE, "u8")), ReadExtensions(4, <<>>)>>,
     <<WriteHeader(FALSE, <<"alpha_fine", "beta_fine", "gamma_fine", "false">>),
       Put("alpha", Num(0, 359, FALSE, "u16")), PutIf("alpha_fine", Num(0, 9, FALSE, "u8")),
       Put("beta", Num(0, 359, FALSE, "u16")), PutIf("beta_fine", Num(0, 9, FALSE, "u8")),
       Put("gamma", Num(0, 359, FALSE, "u16")), PutIf("gamma_fine", Num(0, 9, FALSE, "u8"))>>)]
FromLmfMeasurementId ==
  [LmfMeasurementId |-> Codec(
     <<Get("0", Num(1, 65536, TRUE, "u32"))>>,
     <<Put("0", Num(1, 65536, TRUE, "u32"))>>),
   LmfUeMeasurementId |-> Codec(
     <<Get("0", Num(1, 256, TRUE, "u16"))>>,
     <<Put("0", Num(1, 256, TRUE, "u16"))>>),
   LocationUncertainty |-> Codec(
     <<ReadHeader(FALSE, 1), Get("horizontal_uncertainty", Num(0, 255, FALSE, "u8")),
       Get("horizontal_confidence", Num(0, 100, FALSE, "u8")),
       Get("vertical_uncertainty", Num(0, 255, FALSE, "u8")),
       Get("vertical_confidence", Num(0, 100, FALSE, "u8")), ReadExtensions(1, <<>>)>>,
     <<WriteHeader(FALSE, <<"false">>), Put("horizontal_uncertainty", Num(0, 255, FALSE, "u8")),
       Put("horizontal_confidence", Num(0, 100, FALSE, "u8")),
       Put("vertical_uncertainty", Num(0, 255, FALSE, "u8")),
       Put("vertical_confidence", Num(0, 100, FALSE, "u8"))>>)]
FromLongDrxCycleLength ==
  [LongDrxCycleLength |-> Codec(<<ReadEnum(0, 19, TRUE, 20)>>, <<WriteEnum(0, 19, TRUE)>>),
   LowerLayerPresenceStatusChange |-> Codec(
     <<ReadEnum(0, 1, TRUE, 2)>>,
     <<WriteEnum(0, 1, TRUE)>>),
   LteUeSidelinkAggregateMaximumBitrate |-> Codec(
     <<ReadHeader(FALSE, 1), Get("ue_lte_sidelink_aggregate_maximum_bitrate", T("BitRate")),
       ReadExtensions(1, <<>>)>>,
     <<WriteHeader(FALSE, <<"false">>),
       Put("ue_lte_sidelink_aggregate_maximum_bitrate", T("BitRate"))>>)]
FromLtev2xServicesAuthorized ==
  [Ltev2xServicesAuthorized |-> Codec(
     <<ReadHeader(FALSE, 3), GetIf(1, "vehicle_ue", T("VehicleUe")),
       GetIf(2, "pedestrian_ue", T("PedestrianUe")), ReadExtensions(3, <<>>)>>,
     <<WriteHeader(FALSE, <<"vehicle_ue", "pedestrian_ue", "false">>),
       PutIf("vehicle_ue", T("VehicleUe")), PutIf("pedestrian_ue", T("PedestrianUe"))>>)]

Codecs == {FromECidMeasurementQuantities, FromECidMeasurementResult, FromECidMeasuredResultsValue,
  FromEndpointIpAddressAndPort, FromExplicitFormat, FromExtendedServedPlmnsItem, FromEutraCellsList,
  FromEutraCoexFddInfo, FromEutraCyclicPrefixDl, FromEutraSpecialSubframeInfo,
  FromEutraTransmissionBandwidth, FromExtendedEarfcn, FromEutraFddInfo,
  FromExtendedPacketDelayBudget, FromFddInfo, FromFlowsMappedToDrbItem, FromFr2Bandwidth,
  FromFrequencyShift7p5khz, FromGbrQosInformation, FromCgConfig, FromGnbCuSystemInformation,
  FromGnbCuTnlAssociationFailedToSetupItem, FromGnbCuTnlAssociationToUpdateItem, FromGnbDuUeF1apId,
  FromExtendedGnbCuName, FromExtendedGnbDuName, FromGnbDuServedCellsItem,
  FromGnbDuConfigurationQuery, FromGnbRxTxTimeDiff, FromGnbSetId, FromHardwareLoadIndicator,
  FromHsnaDownlink, FromIabBarred, FromIabMtCellList, FromIabStcInfoList,
  FromIabDuCellResourceConfigurationModeInfo, FromIabiPv6RequestType, FromIabtnlAddressesRequested,
  FromIabtnlAddressUsage, FromIgnorePrachConfiguration, FromInterfacesToTrace,
  FromIPtolayer2TrafficMappingInfo, FromL139Info, FromLcsToGcsTranslationAoA, FromLmfMeasurementId,
  FromLongDrxCycleLength, FromLtev2xServicesAuthorized}
=============================================================================
