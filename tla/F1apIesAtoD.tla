---------------------------- MODULE F1apIesAtoD ----------------------------
(***************************************************************************)
(* The programs of the codecs of f1ap/src/ies.rs, from AbortTransmission   *)
(* to DynamicPqiDescriptor: what decode_inner reads and encode_inner       *)
(* writes, each in the order of its source.                                *)
(***************************************************************************)
EXTENDS PerLayout

FromAbortTransmission ==
  [AbortTransmission |-> Codec(
     <<ReadChoice(0, 2, FALSE, <<Alt(0, "SrsResourceSetId", T("SrsResourceSetId")),
       Alt(1, "ReleaseAll", Null), AltIes(2, <<>>)>>)>>,
     <<WriteChoice(0, 2, FALSE, <<Arm("SrsResourceSetId", 0, T("SrsResourceSetId")),
       Arm("ReleaseAll", 1, Null)>>)>>),
   AccessPointPosition |-> Codec(
     <<ReadHeader(FALSE, 1), Get("latitude_sign", T("LatitudeSign")),
       Get("latitude", Num(0, 8388607, FALSE, "u32")),
       Get("longitude", Num(-8388608, 8388607, FALSE, "i32")),
       Get("direction_of_altitude", T("DirectionOfAltitude")),
       Get("altitude", Num(0, 32767, FALSE, "u16")),
       Get("uncertainty_semi_major", Num(0, 127, FALSE, "u8")),
       Get("uncertainty_semi_minor", Num(0, 127, FALSE, "u8")),
       Get("orientation_of_major_axis", Num(0, 179, FALSE, "u8")),
       Get("uncertainty_altitude", Num(0, 127, FALSE, "u8")),
       Get("confidence", Num(0, 100, FALSE, "u8")), ReadExtensions(1, <<>>)>>,
     <<WriteHeader(FALSE, <<"false">>), Put("latitude_sign", T("LatitudeSign")),
       Put("latitude", Num(0, 8388607, FALSE, "u32")),
       Put("longitude", Num(-8388608, 8388607, FALSE, "i32")),
       Put("direction_of_altitude", T("DirectionOfAltitude")),
       Put("altitude", Num(0, 32767, FALSE, "u16")),
       Put("uncertainty_semi_major", Num(0, 127, FALSE, "u8")),
       Put("uncertainty_semi_minor", Num(0, 127, FALSE, "u8")),
       Put("orientation_of_major_axis", Num(0, 179, FALSE, "u8")),
       Put("uncertainty_altitude", Num(0, 127, FALSE, "u8")),
       Put("confidence", Num(0, 100, FALSE, "u8"))>>)]
FromActivatedCellsToBeUpdatedList ==
  [ActivatedCellsToBeUpdatedList |-> Codec(
     <<Get("0", NonEmpty(1, 512, T("ActivatedCellsToBeUpdatedListItem")))>>,
     <<Put("0", NonEmpty(1, 512, T("ActivatedCellsToBeUpdatedListItem")))>>),
   ActivatedCellsToBeUpdatedListItem |-> Codec(
     <<ReadHeader(FALSE, 1), Get("nr_cgi", T("NrCgi")),
       Get("iab_du_cell_resource_configuration_mode_info", T("IabDuCellResourceConfigurationModeInfo")),
       ReadExtensions(1, <<>>)>>,
     <<WriteHeader(FALSE, <<"false">>), Put("nr_cgi", T("NrCgi")),
       Put("iab_du_cell_resource_configuration_mode_info", T("IabDuCellResourceConfigurationModeInfo"))>>),
   ActiveUlBwp |-> Codec(
     <<ReadHeader(FALSE, 2), Get("location_and_bandwidth", Num(0, 37949, TRUE, "u16")),
       Get("subcarrier_spacing", T("SubcarrierSpacing1")), Get("cyclic_prefix", T("CyclicPrefix")),
       Get("tx_direct_current_location", Num(0, 3301, TRUE, "u16")),
       GetIf(1, "shift7dot5k_hz", T("Shift7dot5kHz")), Get("srs_config", T("SrsConfig")),
       ReadExtensions(2, <<>>)>>,
     <<WriteHeader(FALSE, <<"shift7dot5k_hz", "false">>),
       Put("location_and_bandwidth", Num(0, 37949, TRUE, "u16")),
       Put("subcarrier_spacing", T("SubcarrierSpacing1")), Put("cyclic_prefix", T("CyclicPrefix")),
       Put("tx_direct_current_location", Num(0, 3301, TRUE, "u16")),
       PutIf("shift7dot5k_hz", T("Shift7dot5kHz")), Put("srs_config", T("SrsConfig"))>>)]
FromAdditionalDuplicationIndication ==
  [AdditionalDuplicationIndication |-> Codec(
     <<ReadEnum(0, 1, TRUE, 2)>>,
     <<WriteEnum(0, 1, TRUE)>>),
   AdditionalPathList |-> Codec(
     <<Get("0", NonEmpty(1, 2, T("AdditionalPathItem")))>>,
     <<Put("0", NonEmpty(1, 2, T("AdditionalPathItem")))>>),
   AdditionalPathItem |-> Codec(
     <<ReadHeader(FALSE, 2), Get("relative_path_delay", T("RelativePathDelay")),
       GetIf(1, "path_quality", T("TrpMeasurementQuality")), ReadExtensions(2, <<>>)>>,
     <<WriteHeader(FALSE, <<"path_quality", "false">>),
       Put("relative_path_delay", T("RelativePathDelay")),
       PutIf("path_quality", T("TrpMeasurementQuality"))>>)]
FromAdditionalPdcpDuplicationTnlList ==
  [AdditionalPdcpDuplicationTnlList |-> Codec(
     <<Get("0", NonEmpty(1, 2, T("AdditionalPdcpDuplicationTnlItem")))>>,
     <<Put("0", NonEmpty(1, 2, T("AdditionalPdcpDuplicationTnlItem")))>>),
   AdditionalPdcpDuplicationTnlItem |-> Codec(
     <<ReadHeader(TRUE, 1),
       Get("additional_pdcp_duplication_up_tnl_information", T("UpTransportLayerInformation")),
       ReadExtensions(1, <<Ie(280, "bh_info", T("BhInfo"))>>)>>,
     <<PutIeIf(280, "bh_info", T("BhInfo")), WriteHeader(TRUE, <<"num_ies">>),
       Put("additional_pdcp_duplication_up_tnl_information", T("UpTransportLayerInformation")),
       AppendExtensions>>),
   AdditionalSibMessageList |-> Codec(
     <<Get("0", NonEmpty(1, 63, T("AdditionalSibMessageListItem")))>>,
     <<Put("0", NonEmpty(1, 63, T("AdditionalSibMessageListItem")))>>)]
FromAdditionalSibMessageListItem ==
  [AdditionalSibMessageListItem |-> Codec(
     <<ReadHeader(FALSE, 1), Get("additional_sib", OctetString), ReadExtensions(1, <<>>)>>,
     <<WriteHeader(FALSE, <<"false">>), Put("additional_sib", OctetString)>>),
   AdditionalRrmPriorityIndex |-> Codec(
     <<Get("0", Bits(32, 32, FALSE))>>,
     <<Put("0", Bits(32, 32, FALSE))>>),
   AggressorCellList |-> Codec(
     <<Get("0", NonEmpty(1, 512, T("AggressorCellListItem")))>>,
     <<Put("0", NonEmpty(1, 512, T("AggressorCellListItem")))>>),
   AggressorCellListItem |-> Codec(
     <<ReadHeader(FALSE, 1), Get("aggressor_cell_id", T("NrCgi")), ReadExtensions(1, <<>>)>>,
     <<WriteHeader(FALSE, <<"false">>), Put("aggressor_cell_id", T("NrCgi"))>>)]
FromAggressorGnbSetId ==
  [AggressorGnbSetId |-> Codec(
     <<ReadHeader(FALSE, 1), Get("aggressor_gnb_set_id", T("GnbSetId")), ReadExtensions(1, <<>>)>>,
     <<WriteHeader(FALSE, <<"false">>), Put("aggressor_gnb_set_id", T("GnbSetId"))>>),
   AllocationAndRetentionPriority |-> Codec(
     <<ReadHeader(TRUE, 1), Get("priority_level", T("PriorityLevel")),
       Get("pre_emption_capability", T("PreEmptionCapability")),
       Get("pre_emption_vulnerability", T("PreEmptionVulnerability")), ReadExtensions(1, <<>>)>>,
     <<WriteHeader(TRUE, <<"false">>), Put("priority_level", T("PriorityLevel")),
       Put("pre_emption_capability", T("PreEmptionCapability")),
       Put("pre_emption_vulnerability", T("PreEmptionVulnerability"))>>),
   AlternativeQosParaSetList |-> Codec(
     <<Get("0", NonEmpty(1, 8, T("AlternativeQosParaSetItem")))>>,
     <<Put("0", NonEmpty(1, 8, T("AlternativeQosParaSetItem")))>>)]
FromAlternativeQosParaSetItem ==
  [AlternativeQosParaSetItem |-> Codec(
     <<ReadHeader(TRUE, 5), Get("alternative_qos_para_set_index", T("QosParaSetIndex")),
       GetIf(1, "guaranteed_flow_bit_rate_dl", T("BitRate")),
       GetIf(2, "guaranteed_flow_bit_rate_ul", T("BitRate")),
       GetIf(3, "packet_delay_budget", T("PacketDelayBudget")),
       GetIf(4, "packet_error_rate", T("PacketErrorRate")), ReadExtensions(5, <<>>)>>,
     <<WriteHeader(TRUE, <<"guaranteed_flow_bit_rate_dl", "guaranteed_flow_bit_rate_ul",
       "packet_delay_budget", "packet_error_rate", "false">>),
       Put("alternative_qos_para_set_index", T("QosParaSetIndex")),
       PutIf("guaranteed_flow_bit_rate_dl", T("BitRate")),
       PutIf("guaranteed_flow_bit_rate_ul", T("BitRate")),
       PutIf("packet_delay_budget", T("PacketDelayBudget")),
       PutIf("packet_error_rate", T("PacketErrorRate"))>>),
   AngleMeasurementQuality |-> Codec(
     <<ReadHeader(FALSE, 2), Get("azimuth_quality", Num(0, 255, FALSE, "u8")),
       GetIf(1, "zenith_quality", Num(0, 255, FALSE, "u8")), Get("resolution", T("Resolution")),
       ReadExtensions(2, <<>>)>>,
     <<WriteHeader(FALSE, <<"zenith_quality", "false">>),
       Put("azimuth_quality", Num(0, 255, FALSE, "u8")),
       PutIf("zenith_quality", Num(0, 255, FALSE, "u8")), Put("resolution", T("Resolution"))>>)]
FromAperiodicSrsResourceTriggerList ==
  [AperiodicSrsResourceTriggerList |-> Codec(
     <<Get("0", NonEmpty(1, 3, T("AperiodicSrsResourceTrigger")))>>,
     <<Put("0", NonEmpty(1, 3, T("AperiodicSrsResourceTrigger")))>>),
   AperiodicSrsResourceTrigger |-> Codec(
     <<Get("0", Num(1, 3, FALSE, "u8"))>>,
     <<Put("0", Num(1, 3, FALSE, "u8"))>>),
   AssociatedSCellItem |-> Codec(
     <<ReadHeader(FALSE, 1), Get("s_cell_id", T("NrCgi")), ReadExtensions(1, <<>>)>>,
     <<WriteHeader(FALSE, <<"false">>), Put("s_cell_id", T("NrCgi"))>>),
   AvailablePlmnList |-> Codec(
     <<Get("0", NonEmpty(1, 6, T("AvailablePlmnListItem")))>>,
     <<Put("0", NonEmpty(1, 6, T("AvailablePlmnListItem")))>>)]
FromAvailablePlmnListItem ==
  [AvailablePlmnListItem |-> Codec(
     <<ReadHeader(FALSE, 1), Get("plmn_identity", T("PlmnIdentity")), ReadExtensions(1, <<>>)>>,
     <<WriteHeader(FALSE, <<"false">>), Put("plmn_identity", T("PlmnIdentity"))>>),
   AvailableSnpnIdList |-> Codec(
     <<Get("0", NonEmpty(1, 12, T("AvailableSnpnIdListItem")))>>,
     <<Put("0", NonEmpty(1, 12, T("AvailableSnpnIdListItem")))>>),
   AvailableSnpnIdListItem |-> Codec(
     <<ReadHeader(TRUE, 1), Get("plmn_identity", T("PlmnIdentity")),
       Get("available_nid_list", T("BroadcastNidList")), ReadExtensions(1, <<>>)>>,
     <<WriteHeader(TRUE, <<"false">>), Put("plmn_identity", T("PlmnIdentity")),
       Put("available_nid_list", T("BroadcastNidList"))>>)]
FromAveragingWindow ==
  [AveragingWindow |-> Codec(
     <<Get("0", Num(0, 4095, TRUE, "u16"))>>,
     <<Put("0", Num(0, 4095, TRUE, "u16"))>>),
   AreaScope |-> Codec(<<ReadEnum(0, 0, TRUE, 1)>>, <<WriteEnum(0, 0, TRUE)>>),
   BandwidthSrs |-> Codec(
     <<ReadChoice(0, 2, FALSE, <<Alt(0, "Fr1", T("Fr1Bandwidth")), Alt(1, "Fr2", T("Fr2Bandwidth")),
       AltIes(2, <<>>)>>)>>,
     <<WriteChoice(0, 2, FALSE, <<Arm("Fr1", 0, T("Fr1Bandwidth")),
       Arm("Fr2", 1, T("Fr2Bandwidth"))>>)>>),
   BapAddress |-> Codec(<<Get("0", Bits(10, 10, FALSE))>>, <<Put("0", Bits(10, 10, FALSE))>>)]
FromBapCtrlPduChannel ==
  [BapCtrlPduChannel |-> Codec(<<ReadEnum(0, 0, TRUE, 1)>>, <<WriteEnum(0, 0, TRUE)>>),
   BaPlayerBhrlCchannelMappingInfo |-> Codec(
     <<ReadHeader(TRUE, 3),
       GetIf(1, "ba_player_bhrl_cchannel_mapping_info_to_add", T("BaPlayerBhrlCchannelMappingInfoList")),
       GetIf(2, "ba_player_bhrl_cchannel_mapping_info_to_remove", T("MappingInformationtoRemove")),
       ReadExtensions(3, <<>>)>>,
     <<WriteHeader(TRUE, <<"ba_player_bhrl_cchannel_mapping_info_to_add",
       "ba_player_bhrl_cchannel_mapping_info_to_remove", "false">>),
       PutIf("ba_player_bhrl_cchannel_mapping_info_to_add", T("BaPlayerBhrlCchannelMappingInfoList")),
       PutIf("ba_player_bhrl_cchannel_mapping_info_to_remove", T("MappingInformationtoRemove"))>>),
   BaPlayerBhrlCchannelMappingInfoList |-> Codec(
     <<Get("0", NonEmpty(1, 67108864, T("BaPlayerBhrlCchannelMappingInfoItem")))>>,
     <<Put("0", NonEmpty(1, 67108864, T("BaPlayerBhrlCchannelMappingInfoItem")))>>)]
FromBaPlayerBhrlCchannelMappingInfoItem ==
  [BaPlayerBhrlCchannelMappingInfoItem |-> Codec(
     <<ReadHeader(TRUE, 5), Get("mapping_information_index", T("MappingInformationIndex")),
       GetIf(1, "prior_hop_bap_address", T("BapAddress")),
       GetIf(2, "ingressb_hrlc_channel_id", T("BhrlcChannelId")),
       GetIf(3, "next_hop_bap_address", T("BapAddress")),
       GetIf(4, "egressb_hrlc_channel_id", T("BhrlcChannelId")), ReadExtensions(5, <<>>)>>,
     <<WriteHeader(TRUE, <<"prior_hop_bap_address", "ingressb_hrlc_channel_id",
       "next_hop_bap_address", "egressb_hrlc_channel_id", "false">>),
       Put("mapping_information_index", T("MappingInformationIndex")),
       PutIf("prior_hop_bap_address", T("BapAddress")),
       PutIf("ingressb_hrlc_channel_id", T("BhrlcChannelId")),
       PutIf("next_hop_bap_address", T("BapAddress")),
       PutIf("egressb_hrlc_channel_id", T("BhrlcChannelId"))>>),
   BapPathId |-> Codec(<<Get("0", Bits(10, 10, FALSE))>>, <<Put("0", Bits(10, 10, FALSE))>>),
   BapRoutingId |-> Codec(
     <<ReadHeader(FALSE, 1), Get("bap_address", T("BapAddress")),
       Get("bap_path_id", T("BapPathId")), ReadExtensions(1, <<>>)>>,
     <<WriteHeader(FALSE, <<"false">>), Put("bap_address", T("BapAddress")),
       Put("bap_path_id", T("BapPathId"))>>)]
FromBitRate ==
  [BitRate |-> Codec(
     <<Get("0", BigNum("0..4000000000000", TRUE, "u64"))>>,
     <<Put("0", BigNum("0..4000000000000", TRUE, "u64"))>>),
   BearerTypeChange |-> Codec(<<ReadEnum(0, 0, TRUE, 1)>>, <<WriteEnum(0, 0, TRUE)>>),
   BhrlcChannelId |-> Codec(<<Get("0", Bits(16, 16, FALSE))>>, <<Put("0", Bits(16, 16, FALSE))>>),
   BhChannelsFailedToBeModifiedItem |-> Codec(
     <<ReadHeader(FALSE, 2), Get("bhrlc_channel_id", T("BhrlcChannelId")),
       GetIf(1, "cause", T("Cause")), ReadExtensions(2, <<>>)>>,
     <<WriteHeader(FALSE, <<"cause", "false">>), Put("bhrlc_channel_id", T("BhrlcChannelId")),
       PutIf("cause", T("Cause"))>>)]
FromBhChannelsFailedToBeSetupItem ==
  [BhChannelsFailedToBeSetupItem |-> Codec(
     <<ReadHeader(FALSE, 2), Get("bhrlc_channel_id", T("BhrlcChannelId")),
       GetIf(1, "cause", T("Cause")), ReadExtensions(2, <<>>)>>,
     <<WriteHeader(FALSE, <<"cause", "false">>), Put("bhrlc_channel_id", T("BhrlcChannelId")),
       PutIf("cause", T("Cause"))>>),
   BhChannelsFailedToBeSetupModItem |-> Codec(
     <<ReadHeader(FALSE, 2), Get("bhrlc_channel_id", T("BhrlcChannelId")),
       GetIf(1, "cause", T("Cause")), ReadExtensions(2, <<>>)>>,
     <<WriteHeader(FALSE, <<"cause", "false">>), Put("bhrlc_channel_id", T("BhrlcChannelId")),
       PutIf("cause", T("Cause"))>>),
   BhChannelsModifiedItem |-> Codec(
     <<ReadHeader(FALSE, 1), Get("bhrlc_channel_id", T("BhrlcChannelId")), ReadExtensions(1, <<>>)>>,
     <<WriteHeader(FALSE, <<"false">>), Put("bhrlc_channel_id", T("BhrlcChannelId"))>>)]
FromBhChannelsRequiredToBeReleasedItem ==
  [BhChannelsRequiredToBeReleasedItem |-> Codec(
     <<ReadHeader(FALSE, 1), Get("bhrlc_channel_id", T("BhrlcChannelId")), ReadExtensions(1, <<>>)>>,
     <<WriteHeader(FALSE, <<"false">>), Put("bhrlc_channel_id", T("BhrlcChannelId"))>>),
   BhChannelsSetupItem |-> Codec(
     <<ReadHeader(FALSE, 1), Get("bhrlc_channel_id", T("BhrlcChannelId")), ReadExtensions(1, <<>>)>>,
     <<WriteHeader(FALSE, <<"false">>), Put("bhrlc_channel_id", T("BhrlcChannelId"))>>),
   BhChannelsSetupModItem |-> Codec(
     <<ReadHeader(FALSE, 1), Get("bhrlc_channel_id", T("BhrlcChannelId")), ReadExtensions(1, <<>>)>>,
     <<WriteHeader(FALSE, <<"false">>), Put("bhrlc_channel_id", T("BhrlcChannelId"))>>)]
FromBhChannelsToBeModifiedItem ==
  [BhChannelsToBeModifiedItem |-> Codec(
     <<ReadHeader(FALSE, 4), Get("bhrlc_channel_id", T("BhrlcChannelId")),
       Get("bh_qos_information", T("BhQosInformation")), GetIf(1, "rl_cmode", T("RlcMode")),
       GetIf(2, "bap_ctrl_pdu_channel", T("BapCtrlPduChannel")),
       GetIf(3, "traffic_mapping_info", T("TrafficMappingInfo")), ReadExtensions(4, <<>>)>>,
     <<WriteHeader(FALSE, <<"rl_cmode", "bap_ctrl_pdu_channel", "traffic_mapping_info", "false">>),
       Put("bhrlc_channel_id", T("BhrlcChannelId")),
       Put("bh_qos_information", T("BhQosInformation")), PutIf("rl_cmode", T("RlcMode")),
       PutIf("bap_ctrl_pdu_channel", T("BapCtrlPduChannel")),
       PutIf("traffic_mapping_info", T("TrafficMappingInfo"))>>),
   BhChannelsToBeReleasedItem |-> Codec(
     <<ReadHeader(FALSE, 1), Get("bhrlc_channel_id", T("BhrlcChannelId")), ReadExtensions(1, <<>>)>>,
     <<WriteHeader(FALSE, <<"false">>), Put("bhrlc_channel_id", T("BhrlcChannelId"))>>)]
FromBhChannelsToBeSetupItem ==
  [BhChannelsToBeSetupItem |-> Codec(
     <<ReadHeader(FALSE, 3), Get("bhrlc_channel_id", T("BhrlcChannelId")),
       Get("bh_qos_information", T("BhQosInformation")), Get("rl_cmode", T("RlcMode")),
       GetIf(1, "bap_ctrl_pdu_channel", T("BapCtrlPduChannel")),
       GetIf(2, "traffic_mapping_info", T("TrafficMappingInfo")), ReadExtensions(3, <<>>)>>,
     <<WriteHeader(FALSE, <<"bap_ctrl_pdu_channel", "traffic_mapping_info", "false">>),
       Put("bhrlc_channel_id", T("BhrlcChannelId")),
       Put("bh_qos_information", T("BhQosInformation")), Put("rl_cmode", T("RlcMode")),
       PutIf("bap_ctrl_pdu_channel", T("BapCtrlPduChannel")),
       PutIf("traffic_mapping_info", T("TrafficMappingInfo"))>>),
   BhChannelsToBeSetupModItem |-> Codec(
     <<ReadHeader(FALSE, 3), Get("bhrlc_channel_id", T("BhrlcChannelId")),
       Get("bh_qos_information", T("BhQosInformation")), Get("rl_cmode", T("RlcMode")),
       GetIf(1, "bap_ctrl_pdu_channel", T("BapCtrlPduChannel")),
       GetIf(2, "traffic_mapping_info", T("TrafficMappingInfo")), ReadExtensions(3, <<>>)>>,
     <<WriteHeader(FALSE, <<"bap_ctrl_pdu_channel", "traffic_mapping_info", "false">>),
       Put("bhrlc_channel_id", T("BhrlcChannelId")),
       Put("bh_qos_information", T("BhQosInformation")), Put("rl_cmode", T("RlcMode")),
       PutIf("bap_ctrl_pdu_channel", T("BapCtrlPduChannel")),
       PutIf("traffic_mapping_info", T("TrafficMappingInfo"))>>)]
FromBhInfo ==
  [BhInfo |-> Codec(
     <<ReadHeader(FALSE, 3), GetIf(1, "ba_prouting_id", T("BapRoutingId")),
       GetIf(2, "egress_bhrlcch_list", T("EgressBhrlcchList")), ReadExtensions(3, <<>>)>>,
     <<WriteHeader(FALSE, <<"ba_prouting_id", "egress_bhrlcch_list", "false">>),
       PutIf("ba_prouting_id", T("BapRoutingId")),
       PutIf("egress_bhrlcch_list", T("EgressBhrlcchList"))>>),
   BhQosInformation |-> Codec(
     <<ReadChoice(0, 3, FALSE, <<Alt(0, "BhrlcchQos", T("QosFlowLevelQosParameters")),
       Alt(1, "EutranBhrlcchQos", T("EutranQos")), Alt(2, "CpTrafficType", T("CpTrafficType")),
       AltIes(3, <<>>)>>)>>,
     <<WriteChoice(0, 3, FALSE, <<Arm("BhrlcchQos", 0, T("QosFlowLevelQosParameters")),
       Arm("EutranBhrlcchQos", 1, T("EutranQos")), Arm("CpTrafficType", 2, T("CpTrafficType"))>>)>>)]
FromBhRoutingInformationAddedListItem ==
  [BhRoutingInformationAddedListItem |-> Codec(
     <<ReadHeader(FALSE, 1), Get("bap_routing_id", T("BapRoutingId")),
       Get("next_hop_bap_address", T("BapAddress")), ReadExtensions(1, <<>>)>>,
     <<WriteHeader(FALSE, <<"false">>), Put("bap_routing_id", T("BapRoutingId")),
       Put("next_hop_bap_address", T("BapAddress"))>>),
   BhRoutingInformationRemovedListItem |-> Codec(
     <<ReadHeader(FALSE, 1), Get("bap_routing_id", T("BapRoutingId")), ReadExtensions(1, <<>>)>>,
     <<WriteHeader(FALSE, <<"false">>), Put("bap_routing_id", T("BapRoutingId"))>>),
   BPlmnIdInfoList |-> Codec(
     <<Get("0", NonEmpty(1, 12, T("BPlmnIdInfoItem")))>>,
     <<Put("0", NonEmpty(1, 12, T("BPlmnIdInfoItem")))>>)]
FromBPlmnIdInfoItem ==
  [BPlmnIdInfoItem |-> Codec(
     <<ReadHeader(TRUE, 4), Get("plmn_identity_list", T("AvailablePlmnList")),
       GetIf(1, "extended_plmn_identity_list", T("ExtendedAvailablePlmnList")),
       GetIf(2, "five_gs_tac", T("FiveGsTac")), Get("nr_cell_id", T("NrCellIdentity")),
       GetIf(3, "ranac", T("Ranac")),
       ReadExtensions(4, <<Ie(425, "configured_tac_indication", T("ConfiguredTacIndication")),
       Ie(383, "npn_broadcast_information", T("NpnBroadcastInformation"))>>)>>,
     <<PutIeIf(425, "configured_tac_indication", T("ConfiguredTacIndication")),
       PutIeIf(383, "npn_broadcast_information", T("NpnBroadcastInformation")),
       WriteHeader(TRUE, <<"extended_plmn_identity_list", "five_gs_tac", "ranac", "num_ies">>),
       Put("plmn_identity_list", T("AvailablePlmnList")),
       PutIf("extended_plmn_identity_list", T("ExtendedAvailablePlmnList")),
       PutIf("five_gs_tac", T("FiveGsTac")), Put("nr_cell_id", T("NrCellIdentity")),
       PutIf("ranac", T("Ranac")), AppendExtensions>>),
   ServedPlmnsList |-> Codec(
     <<Get("0", NonEmpty(1, 6, T("ServedPlmnsItem")))>>,
     <<Put("0", NonEmpty(1, 6, T("ServedPlmnsItem")))>>)]
FromServedPlmnsItem ==
  [ServedPlmnsItem |-> Codec(
     <<ReadHeader(TRUE, 1), Get("plmn_identity", T("PlmnIdentity")),
       ReadExtensions(1, <<Ie(131, "tai_slice_support_list", T("SliceSupportList")),
       Ie(384, "npn_support_info", T("NpnSupportInfo")),
       Ie(390, "extended_tai_slice_support_list", T("ExtendedSliceSupportList"))>>)>>,
     <<PutIeIf(131, "tai_slice_support_list", T("SliceSupportList")),
       PutIeIf(384, "npn_support_info", T("NpnSupportInfo")),
       PutIeIf(390, "extended_tai_slice_support_list", T("ExtendedSliceSupportList")),
       WriteHeader(TRUE, <<"num_ies">>), Put("plmn_identity", T("PlmnIdentity")), AppendExtensions>>),
   BroadcastCagList |-> Codec(
     <<Get("0", NonEmpty(1, 12, T("Cagid")))>>,
     <<Put("0", NonEmpty(1, 12, T("Cagid")))>>)]
FromBroadcastNidList ==
  [BroadcastNidList |-> Codec(
     <<Get("0", NonEmpty(1, 12, T("Nid")))>>,
     <<Put("0", NonEmpty(1, 12, T("Nid")))>>),
   BroadcastSnpnIdList |-> Codec(
     <<Get("0", NonEmpty(1, 12, T("BroadcastSnpnIdListItem")))>>,
     <<Put("0", NonEmpty(1, 12, T("BroadcastSnpnIdListItem")))>>),
   BroadcastSnpnIdListItem |-> Codec(
     <<ReadHeader(TRUE, 1), Get("plmn_identity", T("PlmnIdentity")),
       Get("broadcast_nid_list", T("BroadcastNidList")), ReadExtensions(1, <<>>)>>,
     <<WriteHeader(TRUE, <<"false">>), Put("plmn_identity", T("PlmnIdentity")),
       Put("broadcast_nid_list", T("BroadcastNidList"))>>)]
FromBroadcastPniNpnIdList ==
  [BroadcastPniNpnIdList |-> Codec(
     <<Get("0", NonEmpty(1, 12, T("BroadcastPniNpnIdListItem")))>>,
     <<Put("0", NonEmpty(1, 12, T("BroadcastPniNpnIdListItem")))>>),
   BroadcastPniNpnIdListItem |-> Codec(
     <<ReadHeader(TRUE, 1), Get("plmn_identity", T("PlmnIdentity")),
       Get("broadcast_cag_list", T("BroadcastCagList")), ReadExtensions(1, <<>>)>>,
     <<WriteHeader(TRUE, <<"false">>), Put("plmn_identity", T("PlmnIdentity")),
       Put("broadcast_cag_list", T("BroadcastCagList"))>>),
   BurstArrivalTime |-> Codec(<<Get("0", OctetString)>>, <<Put("0", OctetString)>>),
   Cagid |-> Codec(<<Get("0", Bits(32, 32, FALSE))>>, <<Put("0", Bits(32, 32, FALSE))>>)]
FromCancelAllWarningMessagesIndicator ==
  [CancelAllWarningMessagesIndicator |-> Codec(
     <<ReadEnum(0, 0, TRUE, 1)>>,
     <<WriteEnum(0, 0, TRUE)>>),
   CandidateSpCellItem |-> Codec(
     <<ReadHeader(TRUE, 1), Get("candidate_sp_cell_id", T("NrCgi")), ReadExtensions(1, <<>>)>>,
     <<WriteHeader(TRUE, <<"false">>), Put("candidate_sp_cell_id", T("NrCgi"))>>),
   CapacityValue |-> Codec(
     <<ReadHeader(FALSE, 2), Get("capacity_value", Num(0, 100, FALSE, "u8")),
       GetIf(1, "ssb_area_capacity_value_list", T("SsbAreaCapacityValueList")),
       ReadExtensions(2, <<>>)>>,
     <<WriteHeader(FALSE, <<"ssb_area_capacity_value_list", "false">>),
       Put("capacity_value", Num(0, 100, FALSE, "u8")),
       PutIf("ssb_area_capacity_value_list", T("SsbAreaCapacityValueList"))>>)]
FromCause ==
  [Cause |-> Codec(
     <<ReadChoice(0, 4, FALSE, <<Alt(0, "RadioNetwork", T("CauseRadioNetwork")),
       Alt(1, "Transport", T("CauseTransport")), Alt(2, "Protocol", T("CauseProtocol")),
       Alt(3, "Misc", T("CauseMisc")), AltIes(4, <<>>)>>)>>,
     <<WriteChoice(0, 4, FALSE, <<Arm("RadioNetwork", 0, T("CauseRadioNetwork")),
       Arm("Transport", 1, T("CauseTransport")), Arm("Protocol", 2, T("CauseProtocol")),
       Arm("Misc", 3, T("CauseMisc"))>>)>>),
   CauseMisc |-> Codec(<<ReadEnum(0, 4, TRUE, 5)>>, <<WriteEnum(0, 4, TRUE)>>),
   CauseProtocol |-> Codec(<<ReadEnum(0, 6, TRUE, 7)>>, <<WriteEnum(0, 6, TRUE)>>)]
FromCauseRadioNetwork ==
  [CauseRadioNetwork |-> Codec(<<ReadEnum(0, 10, TRUE, 11)>>, <<WriteEnum(0, 10, TRUE)>>),
   CauseTransport |-> Codec(<<ReadEnum(0, 1, TRUE, 2)>>, <<WriteEnum(0, 1, TRUE)>>),
   CellGroupConfig |-> Codec(<<Get("0", OctetString)>>, <<Put("0", OctetString)>>),
   CellCapacityClassValue |-> Codec(
     <<Get("0", Num(1, 100, TRUE, "u8"))>>,
     <<Put("0", Num(1, 100, TRUE, "u8"))>>)]
FromCellDirection ==
  [CellDirection |-> Codec(<<ReadEnum(0, 1, FALSE, 2)>>, <<WriteEnum(0, 1, FALSE)>>),
   CellMeasurementResultList |-> Codec(
     <<Get("0", NonEmpty(1, 512, T("CellMeasurementResultItem")))>>,
     <<Put("0", NonEmpty(1, 512, T("CellMeasurementResultItem")))>>),
   CellMeasurementResultItem |-> Codec(
     <<ReadHeader(FALSE, 5), Get("cell_id", T("NrCgi")),
       GetIf(1, "radio_resource_status", T("RadioResourceStatus")),
       GetIf(2, "composite_available_capacity_group", T("CompositeAvailableCapacityGroup")),
       GetIf(3, "slice_available_capacity", T("SliceAvailableCapacity")),
       GetIf(4, "numberof_active_ues", T("NumberofActiveUes")), ReadExtensions(5, <<>>)>>,
     <<WriteHeader(FALSE, <<"radio_resource_status", "composite_available_capacity_group",
       "slice_available_capacity", "numberof_active_ues", "false">>), Put("cell_id", T("NrCgi")),
       PutIf("radio_resource_status", T("RadioResourceStatus")),
       PutIf("composite_available_capacity_group", T("CompositeAvailableCapacityGroup")),
       PutIf("slice_available_capacity", T("SliceAvailableCapacity")),
       PutIf("numberof_active_ues", T("NumberofActiveUes"))>>)]
FromCellPortionId ==
  [CellPortionId |-> Codec(
     <<Get("0", Num(0, 4095, TRUE, "u16"))>>,
     <<Put("0", Num(0, 4095, TRUE, "u16"))>>),
   CellsFailedToBeActivatedListItem |-> Codec(
     <<ReadHeader(TRUE, 1), Get("nr_cgi", T("NrCgi")), Get("cause", T("Cause")),
       ReadExtensions(1, <<>>)>>,
     <<WriteHeader(TRUE, <<"false">>), Put("nr_cgi", T("NrCgi")), Put("cause", T("Cause"))>>),
   CellsStatusItem |-> Codec(
     <<ReadHeader(TRUE, 1), Get("nr_cgi", T("NrCgi")), Get("service_status", T("ServiceStatus")),
       ReadExtensions(1, <<>>)>>,
     <<WriteHeader(TRUE, <<"false">>), Put("nr_cgi", T("NrCgi")),
       Put("service_status", T("ServiceStatus"))>>)]
FromCellsToBeBroadcastItem ==
  [CellsToBeBroadcastItem |-> Codec(
     <<ReadHeader(TRUE, 1), Get("nr_cgi", T("NrCgi")), ReadExtensions(1, <<>>)>>,
     <<WriteHeader(TRUE, <<"false">>), Put("nr_cgi", T("NrCgi"))>>),
   CellsBroadcastCompletedItem |-> Codec(
     <<ReadHeader(TRUE, 1), Get("nr_cgi", T("NrCgi")), ReadExtensions(1, <<>>)>>,
     <<WriteHeader(TRUE, <<"false">>), Put("nr_cgi", T("NrCgi"))>>),
   BroadcastToBeCancelledItem |-> Codec(
     <<ReadHeader(TRUE, 1), Get("nr_cgi", T("NrCgi")), ReadExtensions(1, <<>>)>>,
     <<WriteHeader(TRUE, <<"false">>), Put("nr_cgi", T("NrCgi"))>>)]
FromCellsBroadcastCancelledItem ==
  [CellsBroadcastCancelledItem |-> Codec(
     <<ReadHeader(TRUE, 1), Get("nr_cgi", T("NrCgi")),
       Get("number_of_broadcasts", T("NumberOfBroadcasts")), ReadExtensions(1, <<>>)>>,
     <<WriteHeader(TRUE, <<"false">>), Put("nr_cgi", T("NrCgi")),
       Put("number_of_broadcasts", T("NumberOfBroadcasts"))>>),
   CellsToBeActivatedListItem |-> Codec(
     <<ReadHeader(TRUE, 2), Get("nr_cgi", T("NrCgi")), GetIf(1, "nr_pci", T("NrPci")),
       ReadExtensions(2, <<Ie(118, "gnb_cu_system_information", T("GnbCuSystemInformation")),
       Ie(179, "available_plmn_list", T("AvailablePlmnList")),
       Ie(197, "extended_available_plmn_list", T("ExtendedAvailablePlmnList")),
       Ie(291, "iab_info_iab_donor_cu", T("IabInfoIabDonorCu")),
       Ie(386, "available_snpn_id_list", T("AvailableSnpnIdList"))>>)>>,
     <<PutIeIf(118, "gnb_cu_system_information", T("GnbCuSystemInformation")),
       PutIeIf(179, "available_plmn_list", T("AvailablePlmnList")),
       PutIeIf(197, "extended_available_plmn_list", T("ExtendedAvailablePlmnList")),
       PutIeIf(291, "iab_info_iab_donor_cu", T("IabInfoIabDonorCu")),
       PutIeIf(386, "available_snpn_id_list", T("AvailableSnpnIdList")),
       WriteHeader(TRUE, <<"nr_pci", "num_ies">>), Put("nr_cgi", T("NrCgi")),
       PutIf("nr_pci", T("NrPci")), AppendExtensions>>)]
FromCellsToBeDeactivatedListItem ==
  [CellsToBeDeactivatedListItem |-> Codec(
     <<ReadHeader(TRUE, 1), Get("nr_cgi", T("NrCgi")), ReadExtensions(1, <<>>)>>,
     <<WriteHeader(TRUE, <<"false">>), Put("nr_cgi", T("NrCgi"))>>),
   CellsToBeBarredItem |-> Codec(
     <<ReadHeader(FALSE, 1), Get("nr_cgi", T("NrCgi")), Get("cell_barred", T("CellBarred")),
       ReadExtensions(1, <<Ie(298, "iab_barred", T("IabBarred"))>>)>>,
     <<PutIeIf(298, "iab_barred", T("IabBarred")), WriteHeader(FALSE, <<"num_ies">>),
       Put("nr_cgi", T("NrCgi")), Put("cell_barred", T("CellBarred")), AppendExtensions>>),
   CellBarred |-> Codec(<<ReadEnum(0, 1, TRUE, 2)>>, <<WriteEnum(0, 1, TRUE)>>)]
FromCellSize ==
  [CellSize |-> Codec(<<ReadEnum(0, 3, TRUE, 4)>>, <<WriteEnum(0, 3, TRUE)>>),
   CellToReportList |-> Codec(
     <<Get("0", NonEmpty(1, 512, T("CellToReportItem")))>>,
     <<Put("0", NonEmpty(1, 512, T("CellToReportItem")))>>),
   CellToReportItem |-> Codec(
     <<ReadHeader(FALSE, 3), Get("cell_id", T("NrCgi")),
       GetIf(1, "ssb_to_report_list", T("SsbToReportList")),
       GetIf(2, "slice_to_report_list", T("SliceToReportList")), ReadExtensions(3, <<>>)>>,
     <<WriteHeader(FALSE, <<"ssb_to_report_list", "slice_to_report_list", "false">>),
       Put("cell_id", T("NrCgi")), PutIf("ssb_to_report_list", T("SsbToReportList")),
       PutIf("slice_to_report_list", T("SliceToReportList"))>>)]
FromCellType ==
  [CellType |-> Codec(
     <<ReadHeader(TRUE, 1), Get("cell_size", T("CellSize")), ReadExtensions(1, <<>>)>>,
     <<WriteHeader(TRUE, <<"false">>), Put("cell_size", T("CellSize"))>>),
   CellUlConfigured |-> Codec(<<ReadEnum(0, 3, TRUE, 4)>>, <<WriteEnum(0, 3, TRUE)>>),
   ChildNodeCellsList |-> Codec(
     <<Get("0", NonEmpty(1, 1024, T("ChildNodeCellsListItem")))>>,
     <<Put("0", NonEmpty(1, 1024, T("ChildNodeCellsListItem")))>>)]
FromChildNodeCellsListItem ==
  [ChildNodeCellsListItem |-> Codec(
     <<ReadHeader(FALSE, 10), Get("nr_cgi", T("NrCgi")),
       GetIf(1, "iab_du_cell_resource_configuration_mode_info", T("IabDuCellResourceConfigurationModeInfo")),
       GetIf(2, "iab_stc_info", T("IabStcInfo")),
       GetIf(3, "rach_config_common", T("RachConfigCommon")),
       GetIf(4, "rach_config_common_iab", T("RachConfigCommonIab")),
       GetIf(5, "csi_rs_configuration", OctetString), GetIf(6, "sr_configuration", OctetString),
       GetIf(7, "pdcch_config_sib_1", OctetString), GetIf(8, "scs_common", OctetString),
       GetIf(9, "multiplexing_info", T("MultiplexingInfo")), ReadExtensions(10, <<>>)>>,
     <<WriteHeader(FALSE, <<"iab_du_cell_resource_configuration_mode_info", "iab_stc_info",
       "rach_config_common", "rach_config_common_iab", "csi_rs_configuration", "sr_configuration",
       "pdcch_config_sib_1", "scs_common", "multiplexing_info", "false">>),
       Put("nr_cgi", T("NrCgi")),
       PutIf("iab_du_cell_resource_configuration_mode_info", T("IabDuCellResourceConfigurationModeInfo")),
       PutIf("iab_stc_info", T("IabStcInfo")), PutIf("rach_config_common", T("RachConfigCommon")),
       PutIf("rach_config_common_iab", T("RachConfigCommonIab")),
       PutIf("csi_rs_configuration", OctetString), PutIf("sr_configuration", OctetString),
       PutIf("pdcch_config_sib_1", OctetString), PutIf("scs_common", OctetString),
       PutIf("multiplexing_info", T("MultiplexingInfo"))>>)]
FromChildNodesList ==
  [ChildNodesList |-> Codec(
     <<Get("0", NonEmpty(1, 1024, T("ChildNodesListItem")))>>,
     <<Put("0", NonEmpty(1, 1024, T("ChildNodesListItem")))>>),
   ChildNodesListItem |-> Codec(
     <<ReadHeader(FALSE, 2), Get("gnb_cu_ue_f1ap_id", T("GnbCuUeF1apId")),
       Get("gnb_du_ue_f1ap_id", T("GnbDuUeF1apId")),
       GetIf(1, "child_node_cells_list", T("ChildNodeCellsList")), ReadExtensions(2, <<>>)>>,
     <<WriteHeader(FALSE, <<"child_node_cells_list", "false">>),
       Put("gnb_cu_ue_f1ap_id", T("GnbCuUeF1apId")), Put("gnb_du_ue_f1ap_id", T("GnbDuUeF1apId")),
       PutIf("child_node_cells_list", T("ChildNodeCellsList"))>>),
   ChOtriggerInterDu |-> Codec(<<ReadEnum(0, 1, TRUE, 2)>>, <<WriteEnum(0, 1, TRUE)>>)]
FromChOtriggerIntraDu ==
  [ChOtriggerIntraDu |-> Codec(<<ReadEnum(0, 2, TRUE, 3)>>, <<WriteEnum(0, 2, TRUE)>>),
   CnUePagingIdentity |-> Codec(
     <<ReadChoice(0, 1, FALSE, <<Alt(0, "FiveGSTmsi", Bits(48, 48, FALSE)), AltIes(1, <<>>)>>)>>,
     <<WriteChoice(0, 1, FALSE, <<Arm("FiveGSTmsi", 0, Bits(48, 48, FALSE))>>)>>),
   CompositeAvailableCapacityGroup |-> Codec(
     <<ReadHeader(FALSE, 1),
       Get("composite_available_capacity_downlink", T("CompositeAvailableCapacity")),
       Get("composite_available_capacity_uplink", T("CompositeAvailableCapacity")),
       ReadExtensions(1, <<>>)>>,
     <<WriteHeader(FALSE, <<"false">>),
       Put("composite_available_capacity_downlink", T("CompositeAvailableCapacity")),
       Put("composite_available_capacity_uplink", T("CompositeAvailableCapacity"))>>)]
FromCompositeAvailableCapacity ==
  [CompositeAvailableCapacity |-> Codec(
     <<ReadHeader(FALSE, 2), GetIf(1, "cell_capacity_class_value", T("CellCapacityClassValue")),
       Get("capacity_value", T("CapacityValue")), ReadExtensions(2, <<>>)>>,
     <<WriteHeader(FALSE, <<"cell_capacity_class_value", "false">>),
       PutIf("cell_capacity_class_value", T("CellCapacityClassValue")),
       Put("capacity_value", T("CapacityValue"))>>),
   ChoProbability |-> Codec(
     <<Get("0", Num(1, 100, FALSE, "u8"))>>,
     <<Put("0", Num(1, 100, FALSE, "u8"))>>),
   ConditionalInterDuMobilityInformation |-> Codec(
     <<ReadHeader(TRUE, 2), Get("cho_trigger", T("ChOtriggerInterDu")),
       GetIf(1, "target_gnb_du_ue_f1apid", T("GnbDuUeF1apId")),
       ReadExtensions(2, <<Ie(433, "estimated_arrival_probability", T("ChoProbability"))>>)>>,
     <<PutIeIf(433, "estimated_arrival_probability", T("ChoProbability")),
       WriteHeader(TRUE, <<"target_gnb_du_ue_f1apid", "num_ies">>),
       Put("cho_trigger", T("ChOtriggerInterDu")),
       PutIf("target_gnb_du_ue_f1apid", T("GnbDuUeF1apId")), AppendExtensions>>)]
FromConditionalIntraDuMobilityInformation ==
  [ConditionalIntraDuMobilityInformation |-> Codec(
     <<ReadHeader(TRUE, 2), Get("cho_trigger", T("ChOtriggerIntraDu")),
       GetIf(1, "target_cells_tocancel", T("TargetCellList")),
       ReadExtensions(2, <<Ie(433, "estimated_arrival_probability", T("ChoProbability"))>>)>>,
     <<PutIeIf(433, "estimated_arrival_probability", T("ChoProbability")),
       WriteHeader(TRUE, <<"target_cells_tocancel", "num_ies">>),
       Put("cho_trigger", T("ChOtriggerIntraDu")),
       PutIf("target_cells_tocancel", T("TargetCellList")), AppendExtensions>>),
   ConfiguredTacIndication |-> Codec(<<ReadEnum(0, 0, TRUE, 1)>>, <<WriteEnum(0, 0, TRUE)>>),
   CoordinateId |-> Codec(
     <<Get("0", Num(0, 511, TRUE, "u16"))>>,
     <<Put("0", Num(0, 511, TRUE, "u16"))>>)]
FromCpTransportLayerAddress ==
  [CpTransportLayerAddress |-> Codec(
     <<ReadChoice(0, 2, FALSE, <<Alt(0, "EndpointIpAddress", T("TransportLayerAddress")),
       Alt(1, "EndpointIpAddressAndPort", T("EndpointIpAddressAndPort")), AltIes(2, <<>>)>>)>>,
     <<WriteChoice(0, 2, FALSE, <<Arm("EndpointIpAddress", 0, T("TransportLayerAddress")),
       Arm("EndpointIpAddressAndPort", 1, T("EndpointIpAddressAndPort"))>>)>>),
   CpTrafficType |-> Codec(
     <<Get("0", Num(1, 3, TRUE, "u8"))>>,
     <<Put("0", Num(1, 3, TRUE, "u8"))>>),
   CriticalityDiagnostics |-> Codec(
     <<ReadHeader(TRUE, 6), GetIf(1, "procedure_code", T("ProcedureCode")),
       GetIf(2, "triggering_message", T("TriggeringMessage")),
       GetIf(3, "procedure_criticality", T("Criticality")),
       GetIf(4, "transaction_id", T("TransactionId")),
       GetIf(5, "i_es_criticality_diagnostics", T("CriticalityDiagnosticsIeList")),
       ReadExtensions(6, <<>>)>>,
     <<WriteHeader(TRUE, <<"procedure_code", "triggering_message", "procedure_criticality",
       "transaction_id", "i_es_criticality_diagnostics", "false">>),
       PutIf("procedure_code", T("ProcedureCode")),
       PutIf("triggering_message", T("TriggeringMessage")),
       PutIf("procedure_criticality", T("Criticality")),
       PutIf("transaction_id", T("TransactionId")),
       PutIf("i_es_criticality_diagnostics", T("CriticalityDiagnosticsIeList"))>>)]
FromCriticalityDiagnosticsIeList ==
  [CriticalityDiagnosticsIeList |-> Codec(
     <<Get("0", NonEmpty(1, 256, T("CriticalityDiagnosticsIeItem")))>>,
     <<Put("0", NonEmpty(1, 256, T("CriticalityDiagnosticsIeItem")))>>),
   CriticalityDiagnosticsIeItem |-> Codec(
     <<ReadHeader(TRUE, 1), Get("ie_criticality", T("Criticality")),
       Get("ie_id", T("ProtocolIeId")), Get("type_of_error", T("TypeOfError")),
       ReadExtensions(1, <<>>)>>,
     <<WriteHeader(TRUE, <<"false">>), Put("ie_criticality", T("Criticality")),
       Put("ie_id", T("ProtocolIeId")), Put("type_of_error", T("TypeOfError"))>>),
   CRnti |-> Codec(
     <<Get("0", Num(0, 65535, TRUE, "u16"))>>,
     <<Put("0", Num(0, 65535, TRUE, "u16"))>>),
   CuDuRadioInformationType |-> Codec(
     <<ReadChoice(0, 1, FALSE, <<Alt(0, "Rim", T("CuDuRimInformation")), AltIes(1, <<>>)>>)>>,
     <<WriteChoice(0, 1, FALSE, <<Arm("Rim", 0, T("CuDuRimInformation"))>>)>>)]
FromCuDuRimInformation ==
  [CuDuRimInformation |-> Codec(
     <<ReadHeader(FALSE, 1), Get("victim_gnb_set_id", T("GnbSetId")),
       Get("rimrs_detection_status", T("RimrsDetectionStatus")), ReadExtensions(1, <<>>)>>,
     <<WriteHeader(FALSE, <<"false">>), Put("victim_gnb_set_id", T("GnbSetId")),
       Put("rimrs_detection_status", T("RimrsDetectionStatus"))>>),
   CuToDuRrcInformation |-> Codec(
     <<ReadHeader(TRUE, 4), GetIf(1, "cg_config_info", T("CgConfigInfo")),
       GetIf(2, "ue_capability_rat_container_list", T("UeCapabilityRatContainerList")),
       GetIf(3, "meas_config", T("MeasConfig")),
       ReadExtensions(4, <<Ie(119, "handover_preparation_information", T("HandoverPreparationInformation")),
       Ie(173, "cell_group_config", T("CellGroupConfig")),
       Ie(163, "measurement_timing_configuration", T("MeasurementTimingConfiguration")),
       Ie(214, "ue_assistance_information", T("UeAssistanceInformation")),
       Ie(234, "cg_config", T("CgConfig")),
       Ie(339, "ue_assistance_information_eutra", T("UeAssistanceInformationEutra"))>>)>>,
     <<PutIeIf(119, "handover_preparation_information", T("HandoverPreparationInformation")),
       PutIeIf(173, "cell_group_config", T("CellGroupConfig")),
       PutIeIf(163, "measurement_timing_configuration", T("MeasurementTimingConfiguration")),
       PutIeIf(214, "ue_assistance_information", T("UeAssistanceInformation")),
       PutIeIf(234, "cg_config", T("CgConfig")),
       PutIeIf(339, "ue_assistance_information_eutra", T("UeAssistanceInformationEutra")),
       WriteHeader(TRUE, <<"cg_config_info", "ue_capability_rat_container_list", "meas_config",
       "num_ies">>), PutIf("cg_config_info", T("CgConfigInfo")),
       PutIf("ue_capability_rat_container_list", T("UeCapabilityRatContainerList")),
       PutIf("meas_config", T("MeasConfig")), AppendExtensions>>)]
FromDcBasedDuplicationConfigured ==
  [DcBasedDuplicationConfigured |-> Codec(<<ReadEnum(0, 0, TRUE, 1)>>, <<WriteEnum(0, 0, TRUE)>>),
   DedicatedSiDeliveryNeededUeItem |-> Codec(
     <<ReadHeader(TRUE, 1), Get("gnb_cu_ue_f1ap_id", T("GnbCuUeF1apId")), Get("nr_cgi", T("NrCgi")),
       ReadExtensions(1, <<>>)>>,
     <<WriteHeader(TRUE, <<"false">>), Put("gnb_cu_ue_f1ap_id", T("GnbCuUeF1apId")),
       Put("nr_cgi", T("NrCgi"))>>),
   DlPrs |-> Codec(
     <<ReadHeader(FALSE, 2), Get("prsid", Num(0, 255, FALSE, "u8")),
       Get("dl_prs_resource_set_id", T("PrsResourceSetId")),
       GetIf(1, "dl_prs_resource_id", T("PrsResourceId")), ReadExtensions(2, <<>>)>>,
     <<WriteHeader(FALSE, <<"dl_prs_resource_id", "false">>),
       Put("prsid", Num(0, 255, FALSE, "u8")), Put("dl_prs_resource_set_id", T("PrsResourceSetId")),
       PutIf("dl_prs_resource_id", T("PrsResourceId"))>>)]
FromDlPrsMutingPattern ==
  [DlPrsMutingPattern |-> Codec(
     <<ReadChoice(0, 6, FALSE, <<Alt(0, "Two", Bits(2, 2, FALSE)),
       Alt(1, "Four", Bits(4, 4, FALSE)), Alt(2, "Six", Bits(6, 6, FALSE)),
       Alt(3, "Eight", Bits(8, 8, FALSE)), Alt(4, "Sixteen", Bits(16, 16, FALSE)),
       Alt(5, "ThirtyTwo", Bits(32, 32, FALSE)), AltIes(6, <<>>)>>)>>,
     <<WriteChoice(0, 6, FALSE, <<Arm("Two", 0, Bits(2, 2, FALSE)),
       Arm("Four", 1, Bits(4, 4, FALSE)), Arm("Six", 2, Bits(6, 6, FALSE)),
       Arm("Eight", 3, Bits(8, 8, FALSE)), Arm("Sixteen", 4, Bits(16, 16, FALSE)),
       Arm("ThirtyTwo", 5, Bits(32, 32, FALSE))>>)>>),
   DlprsResourceCoordinates |-> Codec(
     <<ReadHeader(FALSE, 1),
       Get("listof_dl_prs_resource_set_arp", NonEmpty(1, 2, T("DlprsResourceSetArp"))),
       ReadExtensions(1, <<>>)>>,
     <<WriteHeader(FALSE, <<"false">>),
       Put("listof_dl_prs_resource_set_arp", NonEmpty(1, 2, T("DlprsResourceSetArp")))>>)]
FromDlprsResourceSetArp ==
  [DlprsResourceSetArp |-> Codec(
     <<ReadHeader(FALSE, 1), Get("dl_prs_resource_set_id", T("PrsResourceSetId")),
       Get("dl_prs_resource_set_arp_location", T("DlPrsResourceSetArpLocation")),
       Get("listof_dl_prs_resource_arp", NonEmpty(1, 64, T("DlprsResourceArp"))),
       ReadExtensions(1, <<>>)>>,
     <<WriteHeader(FALSE, <<"false">>), Put("dl_prs_resource_set_id", T("PrsResourceSetId")),
       Put("dl_prs_resource_set_arp_location", T("DlPrsResourceSetArpLocation")),
       Put("listof_dl_prs_resource_arp", NonEmpty(1, 64, T("DlprsResourceArp")))>>),
   DlPrsResourceSetArpLocation |-> Codec(
     <<ReadChoice(0, 2, FALSE, <<Alt(0, "RelativeGeodeticLocation", T("RelativeGeodeticLocation")),
       Alt(1, "RelativeCartesianLocation", T("RelativeCartesianLocation")), AltIes(2, <<>>)>>)>>,
     <<WriteChoice(0, 2, FALSE, <<Arm("RelativeGeodeticLocation", 0, T("RelativeGeodeticLocation")),
       Arm("RelativeCartesianLocation", 1, T("RelativeCartesianLocation"))>>)>>)]
FromDlprsResourceArp ==
  [DlprsResourceArp |-> Codec(
     <<ReadHeader(FALSE, 1), Get("dl_prs_resource_id", T("PrsResourceId")),
       Get("dl_prs_resource_arp_location", T("DlPrsResourceArpLocation")), ReadExtensions(1, <<>>)>>,
     <<WriteHeader(FALSE, <<"false">>), Put("dl_prs_resource_id", T("PrsResourceId")),
       Put("dl_prs_resource_arp_location", T("DlPrsResourceArpLocation"))>>),
   DlPrsResourceArpLocation |-> Codec(
     <<ReadChoice(0, 2, FALSE, <<Alt(0, "RelativeGeodeticLocation", T("RelativeGeodeticLocation")),
       Alt(1, "RelativeCartesianLocation", T("RelativeCartesianLocation")), AltIes(2, <<>>)>>)>>,
     <<WriteChoice(0, 2, FALSE, <<Arm("RelativeGeodeticLocation", 0, T("RelativeGeodeticLocation")),
       Arm("RelativeCartesianLocation", 1, T("RelativeCartesianLocation"))>>)>>),
   DlUpTnlAddressToUpdateListItem |-> Codec(
     <<ReadHeader(TRUE, 1), Get("old_ip_adress", T("TransportLayerAddress")),
       Get("new_ip_adress", T("TransportLayerAddress")), ReadExtensions(1, <<>>)>>,
     <<WriteHeader(TRUE, <<"false">>), Put("old_ip_adress", T("TransportLayerAddress")),
       Put("new_ip_adress", T("TransportLayerAddress"))>>)]
FromDlUpTnlInformationToBeSetupList ==
  [DlUpTnlInformationToBeSetupList |-> Codec(
     <<Get("0", NonEmpty(1, 2, T("DlUpTnlInformationToBeSetupItem")))>>,
     <<Put("0", NonEmpty(1, 2, T("DlUpTnlInformationToBeSetupItem")))>>),
   DlUpTnlInformationToBeSetupItem |-> Codec(
     <<ReadHeader(TRUE, 1), Get("dl_up_tnl_information", T("UpTransportLayerInformation")),
       ReadExtensions(1, <<>>)>>,
     <<WriteHeader(TRUE, <<"false">>),
       Put("dl_up_tnl_information", T("UpTransportLayerInformation"))>>),
   DrbActivityItem |-> Codec(
     <<ReadHeader(TRUE, 2), Get("drb_id", T("DrbId")), GetIf(1, "drb_activity", T("DrbActivity")),
       ReadExtensions(2, <<>>)>>,
     <<WriteHeader(TRUE, <<"drb_activity", "false">>), Put("drb_id", T("DrbId")),
       PutIf("drb_activity", T("DrbActivity"))>>)]
FromDrbActivity ==
  [DrbActivity |-> Codec(<<ReadEnum(0, 1, FALSE, 2)>>, <<WriteEnum(0, 1, FALSE)>>),
   DrbId |-> Codec(<<Get("0", Num(1, 32, TRUE, "u8"))>>, <<Put("0", Num(1, 32, TRUE, "u8"))>>),
   DrbsFailedToBeModifiedItem |-> Codec(
     <<ReadHeader(TRUE, 2), Get("drb_id", T("DrbId")), GetIf(1, "cause", T("Cause")),
       ReadExtensions(2, <<>>)>>,
     <<WriteHeader(TRUE, <<"cause", "false">>), Put("drb_id", T("DrbId")),
       PutIf("cause", T("Cause"))>>),
   DrbsFailedToBeSetupItem |-> Codec(
     <<ReadHeader(TRUE, 2), Get("drb_id", T("DrbId")), GetIf(1, "cause", T("Cause")),
       ReadExtensions(2, <<>>)>>,
     <<WriteHeader(TRUE, <<"cause", "false">>), Put("drb_id", T("DrbId")),
       PutIf("cause", T("Cause"))>>)]
FromDrbsFailedToBeSetupModItem ==
  [DrbsFailedToBeSetupModItem |-> Codec(
     <<ReadHeader(TRUE, 2), Get("drb_id", T("DrbId")), GetIf(1, "cause", T("Cause")),
       ReadExtensions(2, <<>>)>>,
     <<WriteHeader(TRUE, <<"cause", "false">>), Put("drb_id", T("DrbId")),
       PutIf("cause", T("Cause"))>>),
   DrbInformation |-> Codec(
     <<ReadHeader(FALSE, 2), Get("drb_qos", T("QosFlowLevelQosParameters")),
       Get("snssai", T("Snssai")), GetIf(1, "notification_control", T("NotificationControl")),
       Get("flows_mapped_to_drb_list", T("FlowsMappedToDrbList")), ReadExtensions(2, <<>>)>>,
     <<WriteHeader(FALSE, <<"notification_control", "false">>),
       Put("drb_qos", T("QosFlowLevelQosParameters")), Put("snssai", T("Snssai")),
       PutIf("notification_control", T("NotificationControl")),
       Put("flows_mapped_to_drb_list", T("FlowsMappedToDrbList"))>>)]
FromDrbsModifiedItem ==
  [DrbsModifiedItem |-> Codec(
     <<ReadHeader(TRUE, 2), Get("drb_id", T("DrbId")), GetIf(1, "lcid", T("Lcid")),
       Get("dl_up_tnl_information_to_be_setup_list", T("DlUpTnlInformationToBeSetupList")),
       ReadExtensions(2, <<Ie(160, "rlc_status", T("RlcStatus")),
       Ie(370, "additional_pdcp_duplication_tnl_list", T("AdditionalPdcpDuplicationTnlList")),
       Ie(344, "current_qos_para_set_index", T("QosParaSetIndex"))>>)>>,
     <<PutIeIf(160, "rlc_status", T("RlcStatus")),
       PutIeIf(370, "additional_pdcp_duplication_tnl_list", T("AdditionalPdcpDuplicationTnlList")),
       PutIeIf(344, "current_qos_para_set_index", T("QosParaSetIndex")), WriteHeader(TRUE, <<"lcid",
       "num_ies">>), Put("drb_id", T("DrbId")), PutIf("lcid", T("Lcid")),
       Put("dl_up_tnl_information_to_be_setup_list", T("DlUpTnlInformationToBeSetupList")),
       AppendExtensions>>),
   DrbsModifiedConfItem |-> Codec(
     <<ReadHeader(TRUE, 1), Get("drb_id", T("DrbId")),
       Get("ul_up_tnl_information_to_be_setup_list", T("UlUpTnlInformationToBeSetupList")),
       ReadExtensions(1, <<Ie(370, "additional_pdcp_duplication_tnl_list", T("AdditionalPdcpDuplicationTnlList"))>>)>>,
     <<PutIeIf(370, "additional_pdcp_duplication_tnl_list", T("AdditionalPdcpDuplicationTnlList")),
       WriteHeader(TRUE, <<"num_ies">>), Put("drb_id", T("DrbId")),
       Put("ul_up_tnl_information_to_be_setup_list", T("UlUpTnlInformationToBeSetupList")),
       AppendExtensions>>)]
FromDrbNotifyItem ==
  [DrbNotifyItem |-> Codec(
     <<ReadHeader(TRUE, 1), Get("drb_id", T("DrbId")),
       Get("notification_cause", T("NotificationCause")),
       ReadExtensions(1, <<Ie(344, "current_qos_para_set_index", T("QosParaSetNotifyIndex"))>>)>>,
     <<PutIeIf(344, "current_qos_para_set_index", T("QosParaSetNotifyIndex")),
       WriteHeader(TRUE, <<"num_ies">>), Put("drb_id", T("DrbId")),
       Put("notification_cause", T("NotificationCause")), AppendExtensions>>),
   DrbsRequiredToBeModifiedItem |-> Codec(
     <<ReadHeader(TRUE, 1), Get("drb_id", T("DrbId")),
       Get("dl_up_tnl_information_to_be_setup_list", T("DlUpTnlInformationToBeSetupList")),
       ReadExtensions(1, <<Ie(160, "rlc_status", T("RlcStatus")),
       Ie(370, "additional_pdcp_duplication_tnl_list", T("AdditionalPdcpDuplicationTnlList"))>>)>>,
     <<PutIeIf(160, "rlc_status", T("RlcStatus")),
       PutIeIf(370, "additional_pdcp_duplication_tnl_list", T("AdditionalPdcpDuplicationTnlList")),
       WriteHeader(TRUE, <<"num_ies">>), Put("drb_id", T("DrbId")),
       Put("dl_up_tnl_information_to_be_setup_list", T("DlUpTnlInformationToBeSetupList")),
       AppendExtensions>>)]
FromDrbsRequiredToBeReleasedItem ==
  [DrbsRequiredToBeReleasedItem |-> Codec(
     <<ReadHeader(TRUE, 1), Get("drb_id", T("DrbId")), ReadExtensions(1, <<>>)>>,
     <<WriteHeader(TRUE, <<"false">>), Put("drb_id", T("DrbId"))>>),
   DrbsSetupItem |-> Codec(
     <<ReadHeader(TRUE, 2), Get("drb_id", T("DrbId")), GetIf(1, "lcid", T("Lcid")),
       Get("dl_up_tnl_information_to_be_setup_list", T("DlUpTnlInformationToBeSetupList")),
       ReadExtensions(2, <<Ie(370, "additional_pdcp_duplication_tnl_list", T("AdditionalPdcpDuplicationTnlList")),
       Ie(344, "current_qos_para_set_index", T("QosParaSetIndex"))>>)>>,
     <<PutIeIf(370, "additional_pdcp_duplication_tnl_list", T("AdditionalPdcpDuplicationTnlList")),
       PutIeIf(344, "current_qos_para_set_index", T("QosParaSetIndex")), WriteHeader(TRUE, <<"lcid",
       "num_ies">>), Put("drb_id", T("DrbId")), PutIf("lcid", T("Lcid")),
       Put("dl_up_tnl_information_to_be_setup_list", T("DlUpTnlInformationToBeSetupList")),
       AppendExtensions>>)]
DrbsToBeModifiedItemDecode ==
  <<ReadHeader(TRUE, 3), Get("drb_id", T("DrbId")),
    GetIf(1, "qos_information", T("QosInformation")),
    Get("ul_up_tnl_information_to_be_setup_list", T("UlUpTnlInformationToBeSetupList")),
    GetIf(2, "ul_configuration", T("UlConfiguration")),
    ReadExtensions(3, <<Ie(161, "dlpdcpsn_length", T("PdcpsnLength")),
    Ie(192, "ulpdcpsn_length", T("PdcpsnLength")),
    Ie(186, "bearer_type_change", T("BearerTypeChange")), Ie(187, "rlc_mode", T("RlcMode")),
    Ie(188, "duplication_activation", T("DuplicationActivation")),
    Ie(176, "dc_based_duplication_configured", T("DcBasedDuplicationConfigured")),
    Ie(177, "dc_based_duplication_activation", T("DuplicationActivation")),
    Ie(370, "additional_pdcp_duplication_tnl_list", T("AdditionalPdcpDuplicationTnlList")),
    Ie(371, "rlc_duplication_information", T("RlcDuplicationInformation")),
    Ie(430, "transmission_stop_indicator", T("TransmissionStopIndicator"))>>)>>
DrbsToBeModifiedItemEncode ==
  <<PutIeIf(161, "dlpdcpsn_length", T("PdcpsnLength")),
    PutIeIf(192, "ulpdcpsn_length", T("PdcpsnLength")),
    PutIeIf(186, "bearer_type_change", T("BearerTypeChange")),
    PutIeIf(187, "rlc_mode", T("RlcMode")),
    PutIeIf(188, "duplication_activation", T("DuplicationActivation")),
    PutIeIf(176, "dc_based_duplication_configured", T("DcBasedDuplicationConfigured")),
    PutIeIf(177, "dc_based_duplication_activation", T("DuplicationActivation")),
    PutIeIf(370, "additional_pdcp_duplication_tnl_list", T("AdditionalPdcpDuplicationTnlList")),
    PutIeIf(371, "rlc_duplication_information", T("RlcDuplicationInformation")),
    PutIeIf(430, "transmission_stop_indicator", T("TransmissionStopIndicator")),
    WriteHeader(TRUE, <<"qos_information", "ul_configuration", "num_ies">>),
    Put("drb_id", T("DrbId")), PutIf("qos_information", T("QosInformation")),
    Put("ul_up_tnl_information_to_be_setup_list", T("UlUpTnlInformationToBeSetupList")),
    PutIf("ul_configuration", T("UlConfiguration")), AppendExtensions>>
FromDrbsSetupModItem ==
  [DrbsSetupModItem |-> Codec(
     <<ReadHeader(TRUE, 2), Get("drb_id", T("DrbId")), GetIf(1, "lcid", T("Lcid")),
       Get("dl_up_tnl_information_to_be_setup_list", T("DlUpTnlInformationToBeSetupList")),
       ReadExtensions(2, <<Ie(370, "additional_pdcp_duplication_tnl_list", T("AdditionalPdcpDuplicationTnlList")),
       Ie(344, "current_qos_para_set_index", T("QosParaSetIndex"))>>)>>,
     <<PutIeIf(370, "additional_pdcp_duplication_tnl_list", T("AdditionalPdcpDuplicationTnlList")),
       PutIeIf(344, "current_qos_para_set_index", T("QosParaSetIndex")), WriteHeader(TRUE, <<"lcid",
       "num_ies">>), Put("drb_id", T("DrbId")), PutIf("lcid", T("Lcid")),
       Put("dl_up_tnl_information_to_be_setup_list", T("DlUpTnlInformationToBeSetupList")),
       AppendExtensions>>),
   DrbsToBeModifiedItem |-> Codec(DrbsToBeModifiedItemDecode, DrbsToBeModifiedItemEncode)]
FromDrbsToBeReleasedItem ==
  [DrbsToBeReleasedItem |-> Codec(
     <<ReadHeader(TRUE, 1), Get("drb_id", T("DrbId")), ReadExtensions(1, <<>>)>>,
     <<WriteHeader(TRUE, <<"false">>), Put("drb_id", T("DrbId"))>>),
   DrbsToBeSetupItem |-> Codec(
     <<ReadHeader(TRUE, 3), Get("drb_id", T("DrbId")), Get("qos_information", T("QosInformation")),
       Get("ul_up_tnl_information_to_be_setup_list", T("UlUpTnlInformationToBeSetupList")),
       Get("rlc_mode", T("RlcMode")), GetIf(1, "ul_configuration", T("UlConfiguration")),
       GetIf(2, "duplication_activation", T("DuplicationActivation")),
       ReadExtensions(3, <<Ie(176, "dc_based_duplication_configured", T("DcBasedDuplicationConfigured")),
       Ie(177, "dc_based_duplication_activation", T("DuplicationActivation")),
       Ie(161, "dlpdcpsn_length", T("PdcpsnLength")), Ie(192, "ulpdcpsn_length", T("PdcpsnLength")),
       Ie(370, "additional_pdcp_duplication_tnl_list", T("AdditionalPdcpDuplicationTnlList")),
       Ie(371, "rlc_duplication_information", T("RlcDuplicationInformation"))>>)>>,
     <<PutIeIf(176, "dc_based_duplication_configured", T("DcBasedDuplicationConfigured")),
       PutIeIf(177, "dc_based_duplication_activation", T("DuplicationActivation")),
       PutIeIf(161, "dlpdcpsn_length", T("PdcpsnLength")),
       PutIeIf(192, "ulpdcpsn_length", T("PdcpsnLength")),
       PutIeIf(370, "additional_pdcp_duplication_tnl_list", T("AdditionalPdcpDuplicationTnlList")),
       PutIeIf(371, "rlc_duplication_information", T("RlcDuplicationInformation")),
       WriteHeader(TRUE, <<"ul_configuration", "duplication_activation", "num_ies">>),
       Put("drb_id", T("DrbId")), Put("qos_information", T("QosInformation")),
       Put("ul_up_tnl_information_to_be_setup_list", T("UlUpTnlInformationToBeSetupList")),
       Put("rlc_mode", T("RlcMode")), PutIf("ul_configuration", T("UlConfiguration")),
       PutIf("duplication_activation", T("DuplicationActivation")), AppendExtensions>>)]
FromDrbsToBeSetupModItem ==
  [DrbsToBeSetupModItem |-> Codec(
     <<ReadHeader(TRUE, 3), Get("drb_id", T("DrbId")), Get("qos_information", T("QosInformation")),
       Get("ul_up_tnl_information_to_be_setup_list", T("UlUpTnlInformationToBeSetupList")),
       Get("rlc_mode", T("RlcMode")), GetIf(1, "ul_configuration", T("UlConfiguration")),
       GetIf(2, "duplication_activation", T("DuplicationActivation")),
       ReadExtensions(3, <<Ie(176, "dc_based_duplication_configured", T("DcBasedDuplicationConfigured")),
       Ie(177, "dc_based_duplication_activation", T("DuplicationActivation")),
       Ie(161, "dlpdcpsn_length", T("PdcpsnLength")), Ie(192, "ulpdcpsn_length", T("PdcpsnLength")),
       Ie(370, "additional_pdcp_duplication_tnl_list", T("AdditionalPdcpDuplicationTnlList")),
       Ie(371, "rlc_duplication_information", T("RlcDuplicationInformation"))>>)>>,
     <<PutIeIf(176, "dc_based_duplication_configured", T("DcBasedDuplicationConfigured")),
       PutIeIf(177, "dc_based_duplication_activation", T("DuplicationActivation")),
       PutIeIf(161, "dlpdcpsn_length", T("PdcpsnLength")),
       PutIeIf(192, "ulpdcpsn_length", T("PdcpsnLength")),
       PutIeIf(370, "additional_pdcp_duplication_tnl_list", T("AdditionalPdcpDuplicationTnlList")),
       PutIeIf(371, "rlc_duplication_information", T("RlcDuplicationInformation")),
       WriteHeader(TRUE, <<"ul_configuration", "duplication_activation", "num_ies">>),
       Put("drb_id", T("DrbId")), Put("qos_information", T("QosInformation")),
       Put("ul_up_tnl_information_to_be_setup_list", T("UlUpTnlInformationToBeSetupList")),
       Put("rlc_mode", T("RlcMode")), PutIf("ul_configuration", T("UlConfiguration")),
       PutIf("duplication_activation", T("DuplicationActivation")), AppendExtensions>>)]
FromDrxCycle ==
  [DrxCycle |-> Codec(
     <<ReadHeader(TRUE, 3), Get("long_drx_cycle_length", T("LongDrxCycleLength")),
       GetIf(1, "short_drx_cycle_length", T("ShortDrxCycleLength")),
       GetIf(2, "short_drx_cycle_timer", T("ShortDrxCycleTimer")), ReadExtensions(3, <<>>)>>,
     <<WriteHeader(TRUE, <<"short_drx_cycle_length", "short_drx_cycle_timer", "false">>),
       Put("long_drx_cycle_length", T("LongDrxCycleLength")),
       PutIf("short_drx_cycle_length", T("ShortDrxCycleLength")),
       PutIf("short_drx_cycle_timer", T("ShortDrxCycleTimer"))>>),
   DrxConfig |-> Codec(<<Get("0", OctetString)>>, <<Put("0", OctetString)>>),
   DrxConfigurationIndicator |-> Codec(<<ReadEnum(0, 0, TRUE, 1)>>, <<WriteEnum(0, 0, TRUE)>>)]
FromDrxLongCycleStartOffset ==
  [DrxLongCycleStartOffset |-> Codec(
     <<Get("0", Num(0, 10239, FALSE, "u16"))>>,
     <<Put("0", Num(0, 10239, FALSE, "u16"))>>),
   DsInformationList |-> Codec(
     <<Get("0", Vec(0, 64, T("Dscp")))>>,
     <<Put("0", Vec(0, 64, T("Dscp")))>>),
   Dscp |-> Codec(<<Get("0", Bits(6, 6, FALSE))>>, <<Put("0", Bits(6, 6, FALSE))>>),
   DuToCuRrcContainer |-> Codec(<<Get("0", OctetString)>>, <<Put("0", OctetString)>>),
   DuCuRadioInformationType |-> Codec(
     <<ReadChoice(0, 1, FALSE, <<Alt(0, "Rim", T("DuCuRimInformation")), AltIes(1, <<>>)>>)>>,
     <<WriteChoice(0, 1, FALSE, <<Arm("Rim", 0, T("DuCuRimInformation"))>>)>>)]
FromDuCuRimInformation ==
  [DuCuRimInformation |-> Codec(
     <<ReadHeader(FALSE, 1), Get("victim_gnb_set_id", T("GnbSetId")),
       Get("rimrs_detection_status", T("RimrsDetectionStatus")),
       Get("aggressor_cell_list", T("AggressorCellList")), ReadExtensions(1, <<>>)>>,
     <<WriteHeader(FALSE, <<"false">>), Put("victim_gnb_set_id", T("GnbSetId")),
       Put("rimrs_detection_status", T("RimrsDetectionStatus")),
       Put("aggressor_cell_list", T("AggressorCellList"))>>),
   DuFSlotConfigItem |-> Codec(
     <<ReadChoice(0, 2, FALSE, <<Alt(0, "ExplicitFormat", T("ExplicitFormat")),
       Alt(1, "ImplicitFormat", T("ImplicitFormat")), AltIes(2, <<>>)>>)>>,
     <<WriteChoice(0, 2, FALSE, <<Arm("ExplicitFormat", 0, T("ExplicitFormat")),
       Arm("ImplicitFormat", 1, T("ImplicitFormat"))>>)>>),
   DuFSlotConfigList |-> Codec(
     <<Get("0", NonEmpty(1, 320, T("DuFSlotConfigItem")))>>,
     <<Put("0", NonEmpty(1, 320, T("DuFSlotConfigItem")))>>)]
FromDuFSlotformatIndex ==
  [DuFSlotformatIndex |-> Codec(
     <<Get("0", Num(0, 254, FALSE, "u8"))>>,
     <<Put("0", Num(0, 254, FALSE, "u8"))>>),
   DuFTransmissionPeriodicity |-> Codec(<<ReadEnum(0, 7, TRUE, 8)>>, <<WriteEnum(0, 7, TRUE)>>),
   DuRxMtRx |-> Codec(<<ReadEnum(0, 1, FALSE, 2)>>, <<WriteEnum(0, 1, FALSE)>>),
   DuTxMtTx |-> Codec(<<ReadEnum(0, 1, FALSE, 2)>>, <<WriteEnum(0, 1, FALSE)>>)]
DuToCuRrcInformationDecode ==
  <<ReadHeader(TRUE, 3), Get("cell_group_config", T("CellGroupConfig")),
    GetIf(1, "meas_gap_config", T("MeasGapConfig")), GetIf(2, "requested_p_max_fr1", OctetString),
    ReadExtensions(3, <<Ie(191, "drx_long_cycle_start_offset", T("DrxLongCycleStartOffset")),
    Ie(193, "selected_band_combination_index", T("SelectedBandCombinationIndex")),
    Ie(194, "selected_feature_set_entry_index", T("SelectedFeatureSetEntryIndex")),
    Ie(208, "ph_info_scg", T("PhInfoScg")),
    Ie(209, "requested_band_combination_index", T("RequestedBandCombinationIndex")),
    Ie(210, "requested_feature_set_entry_index", T("RequestedFeatureSetEntryIndex")),
    Ie(212, "drx_config", T("DrxConfig")),
    Ie(235, "pdcch_blind_detection_scg", T("PdcchBlindDetectionScg")),
    Ie(236, "requested_pdcch_blind_detection_scg", T("RequestedPdcchBlindDetectionScg")),
    Ie(237, "ph_info_mcg", T("PhInfoMcg")),
    Ie(238, "meas_gap_sharing_config", T("MeasGapSharingConfig")),
    Ie(341, "sl_phy_mac_rlc_config", T("SlPhyMacRlcConfig")),
    Ie(342, "sl_config_dedicated_eutra_info", T("SlConfigDedicatedEutraInfo")),
    Ie(211, "requested_p_max_fr2", T("RequestedPMaxFr2"))>>)>>
DuToCuRrcInformationEncode ==
  <<PutIeIf(191, "drx_long_cycle_start_offset", T("DrxLongCycleStartOffset")),
    PutIeIf(193, "selected_band_combination_index", T("SelectedBandCombinationIndex")),
    PutIeIf(194, "selected_feature_set_entry_index", T("SelectedFeatureSetEntryIndex")),
    PutIeIf(208, "ph_info_scg", T("PhInfoScg")),
    PutIeIf(209, "requested_band_combination_index", T("RequestedBandCombinationIndex")),
    PutIeIf(210, "requested_feature_set_entry_index", T("RequestedFeatureSetEntryIndex")),
    PutIeIf(212, "drx_config", T("DrxConfig")),
    PutIeIf(235, "pdcch_blind_detection_scg", T("PdcchBlindDetectionScg")),
    PutIeIf(236, "requested_pdcch_blind_detection_scg", T("RequestedPdcchBlindDetectionScg")),
    PutIeIf(237, "ph_info_mcg", T("PhInfoMcg")),
    PutIeIf(238, "meas_gap_sharing_config", T("MeasGapSharingConfig")),
    PutIeIf(341, "sl_phy_mac_rlc_config", T("SlPhyMacRlcConfig")),
    PutIeIf(342, "sl_config_dedicated_eutra_info", T("SlConfigDedicatedEutraInfo")),
    PutIeIf(211, "requested_p_max_fr2", T("RequestedPMaxFr2")),
    WriteHeader(TRUE, <<"meas_gap_config", "requested_p_max_fr1", "num_ies">>),
    Put("cell_group_config", T("CellGroupConfig")), PutIf("meas_gap_config", T("MeasGapConfig")),
    PutIf("requested_p_max_fr1", OctetString), AppendExtensions>>
FromDuRxMtTx ==
  [DuRxMtTx |-> Codec(<<ReadEnum(0, 1, FALSE, 2)>>, <<WriteEnum(0, 1, FALSE)>>),
   DuTxMtRx |-> Codec(<<ReadEnum(0, 1, FALSE, 2)>>, <<WriteEnum(0, 1, FALSE)>>),
   DuToCuRrcInformation |-> Codec(DuToCuRrcInformationDecode, DuToCuRrcInformationEncode)]
FromDuplicationActivation ==
  [DuplicationActivation |-> Codec(<<ReadEnum(0, 1, TRUE, 2)>>, <<WriteEnum(0, 1, TRUE)>>),
   DuplicationIndication |-> Codec(<<ReadEnum(0, 0, TRUE, 1)>>, <<WriteEnum(0, 0, TRUE)>>),
   DuplicationState |-> Codec(<<ReadEnum(0, 1, TRUE, 2)>>, <<WriteEnum(0, 1, TRUE)>>)]
FromDynamic5qiDescriptor ==
  [Dynamic5qiDescriptor |-> Codec(
     <<ReadHeader(FALSE, 5), Get("qos_priority_level", Num(1, 127, FALSE, "u8")),
       Get("packet_delay_budget", T("PacketDelayBudget")),
       Get("packet_error_rate", T("PacketErrorRate")), GetIf(1, "five_qi", Num(0, 255, TRUE, "u8")),
       GetIf(2, "delay_critical", T("DelayCritical")),
       GetIf(3, "averaging_window", T("AveragingWindow")),
       GetIf(4, "max_data_burst_volume", T("MaxDataBurstVolume")),
       ReadExtensions(5, <<Ie(363, "extended_packet_delay_budget", T("ExtendedPacketDelayBudget")),
       Ie(362, "cn_packet_delay_budget_downlink", T("ExtendedPacketDelayBudget")),
       Ie(369, "cn_packet_delay_budget_uplink", T("ExtendedPacketDelayBudget"))>>)>>,
     <<PutIeIf(363, "extended_packet_delay_budget", T("ExtendedPacketDelayBudget")),
       PutIeIf(362, "cn_packet_delay_budget_downlink", T("ExtendedPacketDelayBudget")),
       PutIeIf(369, "cn_packet_delay_budget_uplink", T("ExtendedPacketDelayBudget")),
       WriteHeader(FALSE, <<"five_qi", "delay_critical", "averaging_window",
       "max_data_burst_volume", "num_ies">>), Put("qos_priority_level", Num(1, 127, FALSE, "u8")),
       Put("packet_delay_budget", T("PacketDelayBudget")),
       Put("packet_error_rate", T("PacketErrorRate")), PutIf("five_qi", Num(0, 255, TRUE, "u8")),
       PutIf("delay_critical", T("DelayCritical")), PutIf("averaging_window", T("AveragingWindow")),
       PutIf("max_data_burst_volume", T("MaxDataBurstVolume")), AppendExtensions>>)]
FromDynamicPqiDescriptor ==
  [DynamicPqiDescriptor |-> Codec(
     <<ReadHeader(FALSE, 4), GetIf(1, "resource_type", T("ResourceType1")),
       Get("qos_priority_level", Num(1, 8, TRUE, "u8")),
       Get("packet_delay_budget", T("PacketDelayBudget")),
       Get("packet_error_rate", T("PacketErrorRate")),
       GetIf(2, "averaging_window", T("AveragingWindow")),
       GetIf(3, "max_data_burst_volume", T("MaxDataBurstVolume")), ReadExtensions(4, <<>>)>>,
     <<WriteHeader(FALSE, <<"resource_type", "averaging_window", "max_data_burst_volume",
       "false">>), PutIf("resource_type", T("ResourceType1")),
       Put("qos_priority_level", Num(1, 8, TRUE, "u8")),
       Put("packet_delay_budget", T("PacketDelayBudget")),
       Put("packet_error_rate", T("PacketErrorRate")),
       PutIf("averaging_window", T("AveragingWindow")),
       PutIf("max_data_burst_volume", T("MaxDataBurstVolume"))>>)]

Codecs == {FromAbortTransmission, FromActivatedCellsToBeUpdatedList,
  FromAdditionalDuplicationIndication, FromAdditionalPdcpDuplicationTnlList,
  FromAdditionalSibMessageListItem, FromAggressorGnbSetId, FromAlternativeQosParaSetItem,
  FromAperiodicSrsResourceTriggerList, FromAvailablePlmnListItem, FromAveragingWindow,
  FromBapCtrlPduChannel, FromBaPlayerBhrlCchannelMappingInfoItem, FromBitRate,
  FromBhChannelsFailedToBeSetupItem, FromBhChannelsRequiredToBeReleasedItem,
  FromBhChannelsToBeModifiedItem, FromBhChannelsToBeSetupItem, FromBhInfo,
  FromBhRoutingInformationAddedListItem, FromBPlmnIdInfoItem, FromServedPlmnsItem,
  FromBroadcastNidList, FromBroadcastPniNpnIdList, FromCancelAllWarningMessagesIndicator, FromCause,
  FromCauseRadioNetwork, FromCellDirection, FromCellPortionId, FromCellsToBeBroadcastItem,
  FromCellsBroadcastCancelledItem, FromCellsToBeDeactivatedListItem, FromCellSize, FromCellType,
  FromChildNodeCellsListItem, FromChildNodesList, FromChOtriggerIntraDu,
  FromCompositeAvailableCapacity, FromConditionalIntraDuMobilityInformation,
  FromCpTransportLayerAddress, FromCriticalityDiagnosticsIeList, FromCuDuRimInformation,
  FromDcBasedDuplicationConfigured, FromDlPrsMutingPattern, FromDlprsResourceSetArp,
  FromDlprsResourceArp, FromDlUpTnlInformationToBeSetupList, FromDrbActivity,
  FromDrbsFailedToBeSetupModItem, FromDrbsModifiedItem, FromDrbNotifyItem,
  FromDrbsRequiredToBeReleasedItem, FromDrbsSetupModItem, FromDrbsToBeReleasedItem,
  FromDrbsToBeSetupModItem, FromDrxCycle, FromDrxLongCycleStartOffset, FromDuCuRimInformation,
  FromDuFSlotformatIndex, FromDuRxMtTx, FromDuplicationActivation, FromDynamic5qiDescriptor,
  FromDynamicPqiDescriptor}
=============================================================================
