---------------------------- MODULE F1apIesMtoQ ----------------------------
(***************************************************************************)
(* The programs of the codecs of f1ap/src/ies.rs, from                     *)
(* MappingInformationIndex to QosParaSetNotifyIndex: what decode_inner     *)
(* reads and encode_inner writes, each in the order of its source.         *)
(***************************************************************************)
EXTENDS PerLayout

FromMappingInformationIndex ==
  [MappingInformationIndex |-> Codec(
     <<Get("0", Bits(26, 26, FALSE))>>,
     <<Put("0", Bits(26, 26, FALSE))>>),
   MappingInformationtoRemove |-> Codec(
     <<Get("0", NonEmpty(1, 67108864, T("MappingInformationIndex")))>>,
     <<Put("0", NonEmpty(1, 67108864, T("MappingInformationIndex")))>>),
   MaskedImeisv |-> Codec(<<Get("0", Bits(64, 64, FALSE))>>, <<Put("0", Bits(64, 64, FALSE))>>),
   MaxDataBurstVolume |-> Codec(
     <<Get("0", Num(0, 4095, TRUE, "i128"))>>,
     <<Put("0", Num(0, 4095, TRUE, "i128"))>>)]
FromMaxPacketLossRate ==
  [MaxPacketLossRate |-> Codec(
     <<Get("0", Num(0, 1000, FALSE, "u16"))>>,
     <<Put("0", Num(0, 1000, FALSE, "u16"))>>),
   MibMessage |-> Codec(<<Get("0", OctetString)>>, <<Put("0", OctetString)>>),
   MeasConfig |-> Codec(<<Get("0", OctetString)>>, <<Put("0", OctetString)>>),
   MeasGapConfig |-> Codec(<<Get("0", OctetString)>>, <<Put("0", OctetString)>>),
   MeasGapSharingConfig |-> Codec(<<Get("0", OctetString)>>, <<Put("0", OctetString)>>)]
FromMeasurementBeamInfoRequest ==
  [MeasurementBeamInfoRequest |-> Codec(<<ReadEnum(0, 0, TRUE, 1)>>, <<WriteEnum(0, 0, TRUE)>>),
   MeasurementBeamInfo |-> Codec(
     <<ReadHeader(FALSE, 4), GetIf(1, "prs_resource_id", T("PrsResourceId")),
       GetIf(2, "prs_resource_set_id", T("PrsResourceSetId")), GetIf(3, "ssb_index", T("SsbIndex")),
       ReadExtensions(4, <<>>)>>,
     <<WriteHeader(FALSE, <<"prs_resource_id", "prs_resource_set_id", "ssb_index", "false">>),
       PutIf("prs_resource_id", T("PrsResourceId")),
       PutIf("prs_resource_set_id", T("PrsResourceSetId")), PutIf("ssb_index", T("SsbIndex"))>>),
   MeasurementTimingConfiguration |-> Codec(<<Get("0", OctetString)>>, <<Put("0", OctetString)>>)]
FromMessageIdentifier ==
  [MessageIdentifier |-> Codec(
     <<Get("0", Bits(16, 16, FALSE))>>,
     <<Put("0", Bits(16, 16, FALSE))>>),
   MultiplexingInfo |-> Codec(
     <<ReadHeader(FALSE, 1), Get("iab_mt_cell_list", T("IabMtCellList")), ReadExtensions(1, <<>>)>>,
     <<WriteHeader(FALSE, <<"false">>), Put("iab_mt_cell_list", T("IabMtCellList"))>>),
   M2Configuration |-> Codec(<<ReadEnum(0, 0, TRUE, 1)>>, <<WriteEnum(0, 0, TRUE)>>),
   M5Configuration |-> Codec(
     <<ReadHeader(TRUE, 1), Get("m5period", T("M5period")),
       Get("m5_links_to_log", T("M5LinksToLog")), ReadExtensions(1, <<>>)>>,
     <<WriteHeader(TRUE, <<"false">>), Put("m5period", T("M5period")),
       Put("m5_links_to_log", T("M5LinksToLog"))>>)]
FromM5period ==
  [M5period |-> Codec(<<ReadEnum(0, 4, TRUE, 5)>>, <<WriteEnum(0, 4, TRUE)>>),
   M5LinksToLog |-> Codec(<<ReadEnum(0, 2, TRUE, 3)>>, <<WriteEnum(0, 2, TRUE)>>),
   M6Configuration |-> Codec(
     <<ReadHeader(TRUE, 1), Get("m6report_interval", T("M6reportInterval")),
       Get("m6_links_to_log", T("M6LinksToLog")), ReadExtensions(1, <<>>)>>,
     <<WriteHeader(TRUE, <<"false">>), Put("m6report_interval", T("M6reportInterval")),
       Put("m6_links_to_log", T("M6LinksToLog"))>>)]
FromM6reportInterval ==
  [M6reportInterval |-> Codec(<<ReadEnum(0, 12, TRUE, 13)>>, <<WriteEnum(0, 12, TRUE)>>),
   M6LinksToLog |-> Codec(<<ReadEnum(0, 2, TRUE, 3)>>, <<WriteEnum(0, 2, TRUE)>>),
   M7Configuration |-> Codec(
     <<ReadHeader(TRUE, 1), Get("m7period", T("M7period")),
       Get("m7_links_to_log", T("M7LinksToLog")), ReadExtensions(1, <<>>)>>,
     <<WriteHeader(TRUE, <<"false">>), Put("m7period", T("M7period")),
       Put("m7_links_to_log", T("M7LinksToLog"))>>)]
FromM7period ==
  [M7period |-> Codec(<<Get("0", Num(1, 60, TRUE, "u8"))>>, <<Put("0", Num(1, 60, TRUE, "u8"))>>),
   M7LinksToLog |-> Codec(<<ReadEnum(0, 0, TRUE, 1)>>, <<WriteEnum(0, 0, TRUE)>>),
   MdtActivation |-> Codec(<<ReadEnum(0, 1, TRUE, 2)>>, <<WriteEnum(0, 1, TRUE)>>),
   MdtConfiguration |-> Codec(
     <<ReadHeader(TRUE, 5), Get("mdt_activation", T("MdtActivation")),
       Get("measurements_to_activate", T("MeasurementsToActivate")),
       GetIf(1, "m2_configuration", T("M2Configuration")),
       GetIf(2, "m5_configuration", T("M5Configuration")),
       GetIf(3, "m6_configuration", T("M6Configuration")),
       GetIf(4, "m7_configuration", T("M7Configuration")), ReadExtensions(5, <<>>)>>,
     <<WriteHeader(TRUE, <<"m2_configuration", "m5_configuration", "m6_configuration",
       "m7_configuration", "false">>), Put("mdt_activation", T("MdtActivation")),
       Put("measurements_to_activate", T("MeasurementsToActivate")),
       PutIf("m2_configuration", T("M2Configuration")),
       PutIf("m5_configuration", T("M5Configuration")),
       PutIf("m6_configuration", T("M6Configuration")),
       PutIf("m7_configuration", T("M7Configuration"))>>)]
FromMdtPlmnList ==
  [MdtPlmnList |-> Codec(
     <<Get("0", NonEmpty(1, 16, T("PlmnIdentity")))>>,
     <<Put("0", NonEmpty(1, 16, T("PlmnIdentity")))>>),
   MeasuredResultsValue |-> Codec(
     <<ReadChoice(0, 4, FALSE, <<Alt(0, "UlAngleOfArrival", T("UlAoA")),
       Alt(1, "UlSrsRsrp", T("UlSrsRsrp")), Alt(2, "UlRtoa", T("UlRtoaMeasurement")),
       Alt(3, "GnbRxTxTimeDiff", T("GnbRxTxTimeDiff")), AltIes(4, <<>>)>>)>>,
     <<WriteChoice(0, 4, FALSE, <<Arm("UlAngleOfArrival", 0, T("UlAoA")),
       Arm("UlSrsRsrp", 1, T("UlSrsRsrp")), Arm("UlRtoa", 2, T("UlRtoaMeasurement")),
       Arm("GnbRxTxTimeDiff", 3, T("GnbRxTxTimeDiff"))>>)>>),
   MeasurementsToActivate |-> Codec(
     <<Get("0", Bits(8, 8, FALSE))>>,
     <<Put("0", Bits(8, 8, FALSE))>>)]
FromNeedforGap ==
  [NeedforGap |-> Codec(<<ReadEnum(0, 0, TRUE, 1)>>, <<WriteEnum(0, 0, TRUE)>>),
   NeighbourCellInformationItem |-> Codec(
     <<ReadHeader(FALSE, 2), Get("nr_cgi", T("NrCgi")),
       GetIf(1, "intended_tdd_dl_ul_config", T("IntendedTddDlUlConfig")), ReadExtensions(2, <<>>)>>,
     <<WriteHeader(FALSE, <<"intended_tdd_dl_ul_config", "false">>), Put("nr_cgi", T("NrCgi")),
       PutIf("intended_tdd_dl_ul_config", T("IntendedTddDlUlConfig"))>>),
   NgranAllocationAndRetentionPriority |-> Codec(
     <<ReadHeader(FALSE, 1), Get("priority_level", T("PriorityLevel")),
       Get("pre_emption_capability", T("PreEmptionCapability")),
       Get("pre_emption_vulnerability", T("PreEmptionVulnerability")), ReadExtensions(1, <<>>)>>,
     <<WriteHeader(FALSE, <<"false">>), Put("priority_level", T("PriorityLevel")),
       Put("pre_emption_capability", T("PreEmptionCapability")),
       Put("pre_emption_vulnerability", T("PreEmptionVulnerability"))>>)]
FromNgranHighAccuracyAccessPointPosition ==
  [NgranHighAccuracyAccessPointPosition |-> Codec(
     <<ReadHeader(FALSE, 1), Get("latitude", BigNum("-2147483648..2147483647", FALSE, "i32")),
       Get("longitude", BigNum("-2147483648..2147483647", FALSE, "i32")),
       Get("altitude", Num(-64000, 1280000, FALSE, "i32")),
       Get("uncertainty_semi_major", Num(0, 255, FALSE, "u8")),
       Get("uncertainty_semi_minor", Num(0, 255, FALSE, "u8")),
       Get("orientation_of_major_axis", Num(0, 179, FALSE, "u8")),
       Get("horizontal_confidence", Num(0, 100, FALSE, "u8")),
       Get("uncertainty_altitude", Num(0, 255, FALSE, "u8")),
       Get("vertical_confidence", Num(0, 100, FALSE, "u8")), ReadExtensions(1, <<>>)>>,
     <<WriteHeader(FALSE, <<"false">>),
       Put("latitude", BigNum("-2147483648..2147483647", FALSE, "i32")),
       Put("longitude", BigNum("-2147483648..2147483647", FALSE, "i32")),
       Put("altitude", Num(-64000, 1280000, FALSE, "i32")),
       Put("uncertainty_semi_major", Num(0, 255, FALSE, "u8")),
       Put("uncertainty_semi_minor", Num(0, 255, FALSE, "u8")),
       Put("orientation_of_major_axis", Num(0, 179, FALSE, "u8")),
       Put("horizontal_confidence", Num(0, 100, FALSE, "u8")),
       Put("uncertainty_altitude", Num(0, 255, FALSE, "u8")),
       Put("vertical_confidence", Num(0, 100, FALSE, "u8"))>>)]
FromNid ==
  [Nid |-> Codec(<<Get("0", Bits(44, 44, FALSE))>>, <<Put("0", Bits(44, 44, FALSE))>>),
   NrCgiListForRestartItem |-> Codec(
     <<ReadHeader(TRUE, 1), Get("nr_cgi", T("NrCgi")), ReadExtensions(1, <<>>)>>,
     <<WriteHeader(TRUE, <<"false">>), Put("nr_cgi", T("NrCgi"))>>),
   NrPrsBeamInformation |-> Codec(
     <<ReadHeader(FALSE, 2), Get("nr_prs_beam_information_list", T("NrPrsBeamInformationList")),
       GetIf(1, "lc_sto_gcs_translation_list", T("LcStoGcsTranslationList")),
       ReadExtensions(2, <<>>)>>,
     <<WriteHeader(FALSE, <<"lc_sto_gcs_translation_list", "false">>),
       Put("nr_prs_beam_information_list", T("NrPrsBeamInformationList")),
       PutIf("lc_sto_gcs_translation_list", T("LcStoGcsTranslationList"))>>)]
FromNrPrsBeamInformationList ==
  [NrPrsBeamInformationList |-> Codec(
     <<Get("0", NonEmpty(1, 2, T("NrPrsBeamInformationItem")))>>,
     <<Put("0", NonEmpty(1, 2, T("NrPrsBeamInformationItem")))>>),
   NrPrsBeamInformationItem |-> Codec(
     <<ReadHeader(FALSE, 1), Get("prs_resource_set_id", T("PrsResourceSetId")),
       Get("prs_angle_list", T("PrsAngleList")), ReadExtensions(1, <<>>)>>,
     <<WriteHeader(FALSE, <<"false">>), Put("prs_resource_set_id", T("PrsResourceSetId")),
       Put("prs_angle_list", T("PrsAngleList"))>>)]
FromNonDynamic5qiDescriptor ==
  [NonDynamic5qiDescriptor |-> Codec(
     <<ReadHeader(FALSE, 4), Get("five_qi", Num(0, 255, TRUE, "u8")),
       GetIf(1, "qos_priority_level", Num(1, 127, FALSE, "u8")),
       GetIf(2, "averaging_window", T("AveragingWindow")),
       GetIf(3, "max_data_burst_volume", T("MaxDataBurstVolume")),
       ReadExtensions(4, <<Ie(362, "cn_packet_delay_budget_downlink", T("ExtendedPacketDelayBudget")),
       Ie(369, "cn_packet_delay_budget_uplink", T("ExtendedPacketDelayBudget"))>>)>>,
     <<PutIeIf(362, "cn_packet_delay_budget_downlink", T("ExtendedPacketDelayBudget")),
       PutIeIf(369, "cn_packet_delay_budget_uplink", T("ExtendedPacketDelayBudget")),
       WriteHeader(FALSE, <<"qos_priority_level", "averaging_window", "max_data_burst_volume",
       "num_ies">>), Put("five_qi", Num(0, 255, TRUE, "u8")),
       PutIf("qos_priority_level", Num(1, 127, FALSE, "u8")),
       PutIf("averaging_window", T("AveragingWindow")),
       PutIf("max_data_burst_volume", T("MaxDataBurstVolume")), AppendExtensions>>)]
FromNonDynamicPqiDescriptor ==
  [NonDynamicPqiDescriptor |-> Codec(
     <<ReadHeader(FALSE, 4), Get("five_qi", Num(0, 255, TRUE, "u8")),
       GetIf(1, "qos_priority_level", Num(1, 8, TRUE, "u8")),
       GetIf(2, "averaging_window", T("AveragingWindow")),
       GetIf(3, "max_data_burst_volume", T("MaxDataBurstVolume")), ReadExtensions(4, <<>>)>>,
     <<WriteHeader(FALSE, <<"qos_priority_level", "averaging_window", "max_data_burst_volume",
       "false">>), Put("five_qi", Num(0, 255, TRUE, "u8")),
       PutIf("qos_priority_level", Num(1, 8, TRUE, "u8")),
       PutIf("averaging_window", T("AveragingWindow")),
       PutIf("max_data_burst_volume", T("MaxDataBurstVolume"))>>),
   NonUpTrafficType |-> Codec(<<ReadEnum(0, 3, TRUE, 4)>>, <<WriteEnum(0, 3, TRUE)>>),
   NoofDownlinkSymbols |-> Codec(
     <<Get("0", Num(0, 14, FALSE, "u8"))>>,
     <<Put("0", Num(0, 14, FALSE, "u8"))>>)]
FromNoofUplinkSymbols ==
  [NoofUplinkSymbols |-> Codec(
     <<Get("0", Num(0, 14, FALSE, "u8"))>>,
     <<Put("0", Num(0, 14, FALSE, "u8"))>>),
   NotificationCause |-> Codec(<<ReadEnum(0, 1, TRUE, 2)>>, <<WriteEnum(0, 1, TRUE)>>),
   NotificationControl |-> Codec(<<ReadEnum(0, 1, TRUE, 2)>>, <<WriteEnum(0, 1, TRUE)>>),
   NotificationInformation |-> Codec(
     <<ReadHeader(TRUE, 1), Get("message_identifier", T("MessageIdentifier")),
       Get("serial_number", T("SerialNumber")), ReadExtensions(1, <<>>)>>,
     <<WriteHeader(TRUE, <<"false">>), Put("message_identifier", T("MessageIdentifier")),
       Put("serial_number", T("SerialNumber"))>>)]
FromNpnBroadcastInformation ==
  [NpnBroadcastInformation |-> Codec(
     <<ReadChoice(0, 2, FALSE, <<Alt(0, "SnpnBroadcastInformation", T("NpnBroadcastInformationSnpn")),
       Alt(1, "PniNpnBroadcastInformation", T("NpnBroadcastInformationPniNpn")),
       AltIes(2, <<>>)>>)>>,
     <<WriteChoice(0, 2, FALSE, <<Arm("SnpnBroadcastInformation", 0, T("NpnBroadcastInformationSnpn")),
       Arm("PniNpnBroadcastInformation", 1, T("NpnBroadcastInformationPniNpn"))>>)>>),
   NpnBroadcastInformationSnpn |-> Codec(
     <<ReadHeader(TRUE, 1), Get("broadcast_snpnid_list", T("BroadcastSnpnIdList")),
       ReadExtensions(1, <<>>)>>,
     <<WriteHeader(TRUE, <<"false">>), Put("broadcast_snpnid_list", T("BroadcastSnpnIdList"))>>),
   NpnBroadcastInformationPniNpn |-> Codec(
     <<ReadHeader(TRUE, 1), Get("broadcast_pni_npn_id_information", T("BroadcastPniNpnIdList")),
       ReadExtensions(1, <<>>)>>,
     <<WriteHeader(TRUE, <<"false">>),
       Put("broadcast_pni_npn_id_information", T("BroadcastPniNpnIdList"))>>)]
FromNpnSupportInfo ==
  [NpnSupportInfo |-> Codec(
     <<ReadChoice(0, 1, FALSE, <<Alt(0, "SnpnInformation", T("Nid")), AltIes(1, <<>>)>>)>>,
     <<WriteChoice(0, 1, FALSE, <<Arm("SnpnInformation", 0, T("Nid"))>>)>>),
   NrCarrierList |-> Codec(
     <<Get("0", NonEmpty(1, 5, T("NrCarrierItem")))>>,
     <<Put("0", NonEmpty(1, 5, T("NrCarrierItem")))>>),
   NrCarrierItem |-> Codec(
     <<ReadHeader(TRUE, 1), Get("carrier_scs", T("NrScs")),
       Get("offset_to_carrier", Num(0, 2199, TRUE, "u16")),
       Get("carrier_bandwidth", Num(0, 275, TRUE, "u16")), ReadExtensions(1, <<>>)>>,
     <<WriteHeader(TRUE, <<"false">>), Put("carrier_scs", T("NrScs")),
       Put("offset_to_carrier", Num(0, 2199, TRUE, "u16")),
       Put("carrier_bandwidth", Num(0, 275, TRUE, "u16"))>>)]
FromNrFreqInfo ==
  [NrFreqInfo |-> Codec(
     <<ReadHeader(TRUE, 2), Get("nr_arfcn", Num(0, 3279165, FALSE, "u32")),
       GetIf(1, "sul_information", T("SulInformation")),
       Get("freq_band_list_nr", NonEmpty(1, 32, T("FreqBandNrItem"))),
       ReadExtensions(2, <<Ie(356, "frequency_shift7p5khz", T("FrequencyShift7p5khz"))>>)>>,
     <<PutIeIf(356, "frequency_shift7p5khz", T("FrequencyShift7p5khz")),
       WriteHeader(TRUE, <<"sul_information", "num_ies">>),
       Put("nr_arfcn", Num(0, 3279165, FALSE, "u32")),
       PutIf("sul_information", T("SulInformation")),
       Put("freq_band_list_nr", NonEmpty(1, 32, T("FreqBandNrItem"))), AppendExtensions>>),
   NrCgi |-> Codec(
     <<ReadHeader(TRUE, 1), Get("plmn_identity", T("PlmnIdentity")),
       Get("nr_cell_identity", T("NrCellIdentity")), ReadExtensions(1, <<>>)>>,
     <<WriteHeader(TRUE, <<"false">>), Put("plmn_identity", T("PlmnIdentity")),
       Put("nr_cell_identity", T("NrCellIdentity"))>>)]
FromNrModeInfo ==
  [NrModeInfo |-> Codec(
     <<ReadChoice(0, 2, FALSE, <<Alt(0, "Fdd", T("FddInfo")), Alt(1, "Tdd", T("TddInfo")),
       AltIes(2, <<>>)>>)>>,
     <<WriteChoice(0, 2, FALSE, <<Arm("Fdd", 0, T("FddInfo")), Arm("Tdd", 1, T("TddInfo"))>>)>>),
   NrPrachConfig |-> Codec(
     <<ReadHeader(TRUE, 3), GetIf(1, "ul_prach_config_list", T("NrPrachConfigList")),
       GetIf(2, "sul_prach_config_list", T("NrPrachConfigList")), ReadExtensions(3, <<>>)>>,
     <<WriteHeader(TRUE, <<"ul_prach_config_list", "sul_prach_config_list", "false">>),
       PutIf("ul_prach_config_list", T("NrPrachConfigList")),
       PutIf("sul_prach_config_list", T("NrPrachConfigList"))>>),
   NrCellIdentity |-> Codec(<<Get("0", Bits(36, 36, FALSE))>>, <<Put("0", Bits(36, 36, FALSE))>>)]
FromNrNrB ==
  [NrNrB |-> Codec(<<ReadEnum(0, 28, TRUE, 29)>>, <<WriteEnum(0, 28, TRUE)>>),
   NrPci |-> Codec(
     <<Get("0", Num(0, 1007, FALSE, "u16"))>>,
     <<Put("0", Num(0, 1007, FALSE, "u16"))>>),
   NrPrachConfigList |-> Codec(
     <<Get("0", Vec(0, 16, T("NrPrachConfigItem")))>>,
     <<Put("0", Vec(0, 16, T("NrPrachConfigItem")))>>)]
FromNrPrachConfigItem ==
  [NrPrachConfigItem |-> Codec(
     <<ReadHeader(TRUE, 1), Get("nr_scs", T("NrScs")),
       Get("prach_freq_startfrom_carrier", Num(0, 274, TRUE, "u16")), Get("msg_1fdm", T("Msg1fdm")),
       Get("parch_config_index", Num(0, 255, TRUE, "i128")),
       Get("ssb_per_rach_occasion", T("SsbPerRachOccasion")),
       Get("freq_domain_length", T("FreqDomainLength")),
       Get("zero_correl_zone_config", Num(0, 15, FALSE, "u8")), ReadExtensions(1, <<>>)>>,
     <<WriteHeader(TRUE, <<"false">>), Put("nr_scs", T("NrScs")),
       Put("prach_freq_startfrom_carrier", Num(0, 274, TRUE, "u16")), Put("msg_1fdm", T("Msg1fdm")),
       Put("parch_config_index", Num(0, 255, TRUE, "i128")),
       Put("ssb_per_rach_occasion", T("SsbPerRachOccasion")),
       Put("freq_domain_length", T("FreqDomainLength")),
       Put("zero_correl_zone_config", Num(0, 15, FALSE, "u8"))>>),
   NrScs |-> Codec(<<ReadEnum(0, 3, TRUE, 4)>>, <<WriteEnum(0, 3, TRUE)>>)]
FromNrUeRlfReportContainer ==
  [NrUeRlfReportContainer |-> Codec(<<Get("0", OctetString)>>, <<Put("0", OctetString)>>),
   NumberofActiveUes |-> Codec(
     <<Get("0", Num(0, 16777215, TRUE, "u32"))>>,
     <<Put("0", Num(0, 16777215, TRUE, "u32"))>>),
   NumberOfBroadcasts |-> Codec(
     <<Get("0", Num(0, 65535, FALSE, "u16"))>>,
     <<Put("0", Num(0, 65535, FALSE, "u16"))>>),
   NumberofBroadcastRequest |-> Codec(
     <<Get("0", Num(0, 65535, FALSE, "u16"))>>,
     <<Put("0", Num(0, 65535, FALSE, "u16"))>>),
   NumDlUlSymbols |-> Codec(
     <<ReadHeader(FALSE, 1), Get("num_dl_symbols", Num(0, 13, TRUE, "u8")),
       Get("num_ul_symbols", Num(0, 13, TRUE, "u8")), ReadExtensions(1, <<>>)>>,
     <<WriteHeader(FALSE, <<"false">>), Put("num_dl_symbols", Num(0, 13, TRUE, "u8")),
       Put("num_ul_symbols", Num(0, 13, TRUE, "u8"))>>)]
FromNrV2xServicesAuthorized ==
  [NrV2xServicesAuthorized |-> Codec(
     <<ReadHeader(FALSE, 3), GetIf(1, "vehicle_ue", T("VehicleUe")),
       GetIf(2, "pedestrian_ue", T("PedestrianUe")), ReadExtensions(3, <<>>)>>,
     <<WriteHeader(FALSE, <<"vehicle_ue", "pedestrian_ue", "false">>),
       PutIf("vehicle_ue", T("VehicleUe")), PutIf("pedestrian_ue", T("PedestrianUe"))>>),
   NrUeSidelinkAggregateMaximumBitrate |-> Codec(
     <<ReadHeader(FALSE, 1), Get("ue_nr_sidelink_aggregate_maximum_bitrate", T("BitRate")),
       ReadExtensions(1, <<>>)>>,
     <<WriteHeader(FALSE, <<"false">>),
       Put("ue_nr_sidelink_aggregate_maximum_bitrate", T("BitRate"))>>),
   NzpCsiRsResourceId |-> Codec(
     <<Get("0", Num(0, 191, FALSE, "u8"))>>,
     <<Put("0", Num(0, 191, FALSE, "u8"))>>)]
FromOffsetToPointA ==
  [OffsetToPointA |-> Codec(
     <<Get("0", Num(0, 2199, TRUE, "u16"))>>,
     <<Put("0", Num(0, 2199, TRUE, "u16"))>>),
   PacketDelayBudget |-> Codec(
     <<Get("0", Num(0, 1023, TRUE, "u16"))>>,
     <<Put("0", Num(0, 1023, TRUE, "u16"))>>),
   PacketErrorRate |-> Codec(
     <<ReadHeader(TRUE, 1), Get("per_scalar", T("PerScalar")),
       Get("per_exponent", T("PerExponent")), ReadExtensions(1, <<>>)>>,
     <<WriteHeader(TRUE, <<"false">>), Put("per_scalar", T("PerScalar")),
       Put("per_exponent", T("PerExponent"))>>),
   PerScalar |-> Codec(<<Get("0", Num(0, 9, TRUE, "u8"))>>, <<Put("0", Num(0, 9, TRUE, "u8"))>>)]
FromPerExponent ==
  [PerExponent |-> Codec(<<Get("0", Num(0, 9, TRUE, "u8"))>>, <<Put("0", Num(0, 9, TRUE, "u8"))>>),
   PagingCellItem |-> Codec(
     <<ReadHeader(FALSE, 1), Get("nr_cgi", T("NrCgi")), ReadExtensions(1, <<>>)>>,
     <<WriteHeader(FALSE, <<"false">>), Put("nr_cgi", T("NrCgi"))>>),
   PagingDrx |-> Codec(<<ReadEnum(0, 3, TRUE, 4)>>, <<WriteEnum(0, 3, TRUE)>>),
   PagingIdentity |-> Codec(
     <<ReadChoice(0, 2, FALSE, <<Alt(0, "RanUePagingIdentity", T("RanUePagingIdentity")),
       Alt(1, "CnUePagingIdentity", T("CnUePagingIdentity")), AltIes(2, <<>>)>>)>>,
     <<WriteChoice(0, 2, FALSE, <<Arm("RanUePagingIdentity", 0, T("RanUePagingIdentity")),
       Arm("CnUePagingIdentity", 1, T("CnUePagingIdentity"))>>)>>)]
FromPagingOrigin ==
  [PagingOrigin |-> Codec(<<ReadEnum(0, 0, TRUE, 1)>>, <<WriteEnum(0, 0, TRUE)>>),
   PagingPriority |-> Codec(<<ReadEnum(0, 7, TRUE, 8)>>, <<WriteEnum(0, 7, TRUE)>>),
   RelativePathDelay |-> Codec(
     <<ReadChoice(0, 6, FALSE, <<Alt(0, "K0", Num(0, 16351, FALSE, "u16")),
       Alt(1, "K1", Num(0, 8176, FALSE, "u16")), Alt(2, "K2", Num(0, 4088, FALSE, "u16")),
       Alt(3, "K3", Num(0, 2044, FALSE, "u16")), Alt(4, "K4", Num(0, 1022, FALSE, "u16")),
       Alt(5, "K5", Num(0, 511, FALSE, "u16")), AltIes(6, <<>>)>>)>>,
     <<WriteChoice(0, 6, FALSE, <<Arm("K0", 0, Num(0, 16351, FALSE, "u16")),
       Arm("K1", 1, Num(0, 8176, FALSE, "u16")), Arm("K2", 2, Num(0, 4088, FALSE, "u16")),
       Arm("K3", 3, Num(0, 2044, FALSE, "u16")), Arm("K4", 4, Num(0, 1022, FALSE, "u16")),
       Arm("K5", 5, Num(0, 511, FALSE, "u16"))>>)>>)]
FromPathlossReferenceInfo ==
  [PathlossReferenceInfo |-> Codec(
     <<ReadHeader(FALSE, 1), Get("pathloss_reference_signal", T("PathlossReferenceSignal")),
       ReadExtensions(1, <<>>)>>,
     <<WriteHeader(FALSE, <<"false">>),
       Put("pathloss_reference_signal", T("PathlossReferenceSignal"))>>),
   PathlossReferenceSignal |-> Codec(
     <<ReadChoice(0, 2, FALSE, <<Alt(0, "Ssb", T("Ssb")), Alt(1, "DlPrs", T("DlPrs")),
       AltIes(2, <<>>)>>)>>,
     <<WriteChoice(0, 2, FALSE, <<Arm("Ssb", 0, T("Ssb")), Arm("DlPrs", 1, T("DlPrs"))>>)>>),
   Pc5QosFlowIdentifier |-> Codec(
     <<Get("0", Num(1, 2048, FALSE, "u16"))>>,
     <<Put("0", Num(1, 2048, FALSE, "u16"))>>)]
FromPc5QosCharacteristics ==
  [Pc5QosCharacteristics |-> Codec(
     <<ReadChoice(0, 2, FALSE, <<Alt(0, "NonDynamicPqi", T("NonDynamicPqiDescriptor")),
       Alt(1, "DynamicPqi", T("DynamicPqiDescriptor")), AltIes(2, <<>>)>>)>>,
     <<WriteChoice(0, 2, FALSE, <<Arm("NonDynamicPqi", 0, T("NonDynamicPqiDescriptor")),
       Arm("DynamicPqi", 1, T("DynamicPqiDescriptor"))>>)>>),
   Pc5QosParameters |-> Codec(
     <<ReadHeader(TRUE, 2), Get("pc5_qos_characteristics", T("Pc5QosCharacteristics")),
       GetIf(1, "pc5_qos_flow_bit_rates", T("Pc5FlowBitRates")), ReadExtensions(2, <<>>)>>,
     <<WriteHeader(TRUE, <<"pc5_qos_flow_bit_rates", "false">>),
       Put("pc5_qos_characteristics", T("Pc5QosCharacteristics")),
       PutIf("pc5_qos_flow_bit_rates", T("Pc5FlowBitRates"))>>),
   Pc5FlowBitRates |-> Codec(
     <<ReadHeader(TRUE, 1), Get("guaranteed_flow_bit_rate", T("BitRate")),
       Get("maximum_flow_bit_rate", T("BitRate")), ReadExtensions(1, <<>>)>>,
     <<WriteHeader(TRUE, <<"false">>), Put("guaranteed_flow_bit_rate", T("BitRate")),
       Put("maximum_flow_bit_rate", T("BitRate"))>>)]
FromPdcchBlindDetectionScg ==
  [PdcchBlindDetectionScg |-> Codec(<<Get("0", OctetString)>>, <<Put("0", OctetString)>>),
   PdcpSn |-> Codec(
     <<Get("0", Num(0, 4095, FALSE, "u16"))>>,
     <<Put("0", Num(0, 4095, FALSE, "u16"))>>),
   PdcpsnLength |-> Codec(<<ReadEnum(0, 1, TRUE, 2)>>, <<WriteEnum(0, 1, TRUE)>>),
   ReportingPeriodicityValue |-> Codec(
     <<Get("0", Num(0, 512, TRUE, "u16"))>>,
     <<Put("0", Num(0, 512, TRUE, "u16"))>>),
   Periodicity |-> Codec(
     <<Get("0", Num(0, 640000, TRUE, "u32"))>>,
     <<Put("0", Num(0, 640000, TRUE, "u32"))>>)]
FromPeriodicitySrs ==
  [PeriodicitySrs |-> Codec(<<ReadEnum(0, 24, TRUE, 25)>>, <<WriteEnum(0, 24, TRUE)>>),
   PeriodicityList |-> Codec(
     <<Get("0", NonEmpty(1, 16, T("PeriodicityListItem")))>>,
     <<Put("0", NonEmpty(1, 16, T("PeriodicityListItem")))>>),
   PeriodicityListItem |-> Codec(
     <<ReadHeader(FALSE, 1), Get("periodicity_srs", T("PeriodicitySrs")), ReadExtensions(1, <<>>)>>,
     <<WriteHeader(FALSE, <<"false">>), Put("periodicity_srs", T("PeriodicitySrs"))>>)]
FromPermutation ==
  [Permutation |-> Codec(<<ReadEnum(0, 1, TRUE, 2)>>, <<WriteEnum(0, 1, TRUE)>>),
   PhInfoMcg |-> Codec(<<Get("0", OctetString)>>, <<Put("0", OctetString)>>),
   PhInfoScg |-> Codec(<<Get("0", OctetString)>>, <<Put("0", OctetString)>>),
   PlmnIdentity |-> Codec(
     <<Get("0", OctetArray(3, 3, FALSE, 3))>>,
     <<Put("0", OctetArray(3, 3, FALSE, 3))>>),
   PortNumber |-> Codec(<<Get("0", Bits(16, 16, FALSE))>>, <<Put("0", Bits(16, 16, FALSE))>>)]
FromPosAssistanceInformation ==
  [PosAssistanceInformation |-> Codec(<<Get("0", OctetString)>>, <<Put("0", OctetString)>>),
   PosAssistanceInformationFailureList |-> Codec(
     <<Get("0", OctetString)>>,
     <<Put("0", OctetString)>>),
   PosBroadcast |-> Codec(<<ReadEnum(0, 1, TRUE, 2)>>, <<WriteEnum(0, 1, TRUE)>>),
   PositioningBroadcastCells |-> Codec(
     <<Get("0", NonEmpty(1, 16384, T("NrCgi")))>>,
     <<Put("0", NonEmpty(1, 16384, T("NrCgi")))>>),
   MeasurementPeriodicity |-> Codec(<<ReadEnum(0, 11, TRUE, 12)>>, <<WriteEnum(0, 11, TRUE)>>)]
FromPosMeasurementQuantities ==
  [PosMeasurementQuantities |-> Codec(
     <<Get("0", NonEmpty(1, 16384, T("PosMeasurementQuantitiesItem")))>>,
     <<Put("0", NonEmpty(1, 16384, T("PosMeasurementQuantitiesItem")))>>),
   PosMeasurementQuantitiesItem |-> Codec(
     <<ReadHeader(FALSE, 2), Get("pos_measurement_type", T("PosMeasurementType")),
       GetIf(1, "timing_reporting_granularity_factor", Num(0, 5, FALSE, "u8")),
       ReadExtensions(2, <<>>)>>,
     <<WriteHeader(FALSE, <<"timing_reporting_granularity_factor", "false">>),
       Put("pos_measurement_type", T("PosMeasurementType")),
       PutIf("timing_reporting_granularity_factor", Num(0, 5, FALSE, "u8"))>>),
   PosMeasurementResult |-> Codec(
     <<Get("0", NonEmpty(1, 16384, T("PosMeasurementResultItem")))>>,
     <<Put("0", NonEmpty(1, 16384, T("PosMeasurementResultItem")))>>)]
FromPosMeasurementResultItem ==
  [PosMeasurementResultItem |-> Codec(
     <<ReadHeader(FALSE, 3), Get("measured_results_value", T("MeasuredResultsValue")),
       Get("time_stamp", T("TimeStamp")),
       GetIf(1, "measurement_quality", T("TrpMeasurementQuality")),
       GetIf(2, "measurement_beam_info", T("MeasurementBeamInfo")), ReadExtensions(3, <<>>)>>,
     <<WriteHeader(FALSE, <<"measurement_quality", "measurement_beam_info", "false">>),
       Put("measured_results_value", T("MeasuredResultsValue")), Put("time_stamp", T("TimeStamp")),
       PutIf("measurement_quality", T("TrpMeasurementQuality")),
       PutIf("measurement_beam_info", T("MeasurementBeamInfo"))>>),
   PosMeasurementResultList |-> Codec(
     <<Get("0", NonEmpty(1, 64, T("PosMeasurementResultListItem")))>>,
     <<Put("0", NonEmpty(1, 64, T("PosMeasurementResultListItem")))>>),
   PosMeasurementResultListItem |-> Codec(
     <<ReadHeader(FALSE, 1), Get("pos_measurement_result", T("PosMeasurementResult")),
       Get("trpid", T("Trpid")), ReadExtensions(1, <<Ie(111, "nr_cgi", T("NrCgi"))>>)>>,
     <<PutIeIf(111, "nr_cgi", T("NrCgi")), WriteHeader(FALSE, <<"num_ies">>),
       Put("pos_measurement_result", T("PosMeasurementResult")), Put("trpid", T("Trpid")),
       AppendExtensions>>)]
FromPosMeasurementType ==
  [PosMeasurementType |-> Codec(<<ReadEnum(0, 3, TRUE, 4)>>, <<WriteEnum(0, 3, TRUE)>>),
   PosReportCharacteristics |-> Codec(<<ReadEnum(0, 1, TRUE, 2)>>, <<WriteEnum(0, 1, TRUE)>>),
   PosResourceSetType |-> Codec(
     <<ReadChoice(0, 3, FALSE, <<Alt(0, "Periodic", T("PosResourceSetTypePr")),
       Alt(1, "SemiPersistent", T("PosResourceSetTypeSp")),
       Alt(2, "Aperiodic", T("PosResourceSetTypeAp")), AltIes(3, <<>>)>>)>>,
     <<WriteChoice(0, 3, FALSE, <<Arm("Periodic", 0, T("PosResourceSetTypePr")),
       Arm("SemiPersistent", 1, T("PosResourceSetTypeSp")),
       Arm("Aperiodic", 2, T("PosResourceSetTypeAp"))>>)>>)]
FromPosResourceSetTypePr ==
  [PosResourceSetTypePr |-> Codec(
     <<ReadHeader(FALSE, 1), Get("posperiodic_set", T("PosperiodicSet")), ReadExtensions(1, <<>>)>>,
     <<WriteHeader(FALSE, <<"false">>), Put("posperiodic_set", T("PosperiodicSet"))>>),
   PosResourceSetTypeSp |-> Codec(
     <<ReadHeader(FALSE, 1), Get("possemi_persistent_set", T("PossemiPersistentSet")),
       ReadExtensions(1, <<>>)>>,
     <<WriteHeader(FALSE, <<"false">>), Put("possemi_persistent_set", T("PossemiPersistentSet"))>>),
   PosResourceSetTypeAp |-> Codec(
     <<ReadHeader(FALSE, 1), Get("srs_resource_trigger_list", Num(1, 3, FALSE, "u8")),
       ReadExtensions(1, <<>>)>>,
     <<WriteHeader(FALSE, <<"false">>), Put("srs_resource_trigger_list", Num(1, 3, FALSE, "u8"))>>)]
FromPosSrsResourceIdList ==
  [PosSrsResourceIdList |-> Codec(
     <<Get("0", NonEmpty(1, 16, T("SrsPosResourceId")))>>,
     <<Put("0", NonEmpty(1, 16, T("SrsPosResourceId")))>>),
   PosSrsResourceItem |-> Codec(
     <<ReadHeader(FALSE, 2), Get("srs_pos_resource_id", T("SrsPosResourceId")),
       Get("transmission_comb_pos", T("TransmissionCombPos")),
       Get("start_position", Num(0, 13, FALSE, "u8")), Get("nrof_symbols", T("NrofSymbols")),
       Get("freq_domain_shift", Num(0, 268, FALSE, "u16")), Get("c_srs", Num(0, 63, FALSE, "u8")),
       Get("group_or_sequence_hopping", T("GroupOrSequenceHopping")),
       Get("resource_type_pos", T("ResourceTypePos")),
       Get("sequence_id", Num(0, 65535, FALSE, "u16")),
       GetIf(1, "spatial_relation_pos", T("SpatialRelationPos")), ReadExtensions(2, <<>>)>>,
     <<WriteHeader(FALSE, <<"spatial_relation_pos", "false">>),
       Put("srs_pos_resource_id", T("SrsPosResourceId")),
       Put("transmission_comb_pos", T("TransmissionCombPos")),
       Put("start_position", Num(0, 13, FALSE, "u8")), Put("nrof_symbols", T("NrofSymbols")),
       Put("freq_domain_shift", Num(0, 268, FALSE, "u16")), Put("c_srs", Num(0, 63, FALSE, "u8")),
       Put("group_or_sequence_hopping", T("GroupOrSequenceHopping")),
       Put("resource_type_pos", T("ResourceTypePos")),
       Put("sequence_id", Num(0, 65535, FALSE, "u16")),
       PutIf("spatial_relation_pos", T("SpatialRelationPos"))>>)]
FromPosSrsResourceList ==
  [PosSrsResourceList |-> Codec(
     <<Get("0", NonEmpty(1, 64, T("PosSrsResourceItem")))>>,
     <<Put("0", NonEmpty(1, 64, T("PosSrsResourceItem")))>>),
   PosSrsResourceSetItem |-> Codec(
     <<ReadHeader(FALSE, 1), Get("possrs_resource_set_id", Num(0, 15, FALSE, "u8")),
       Get("poss_rs_resource_id_list", T("PosSrsResourceIdList")),
       Get("posresource_set_type", T("PosResourceSetType")), ReadExtensions(1, <<>>)>>,
     <<WriteHeader(FALSE, <<"false">>), Put("possrs_resource_set_id", Num(0, 15, FALSE, "u8")),
       Put("poss_rs_resource_id_list", T("PosSrsResourceIdList")),
       Put("posresource_set_type", T("PosResourceSetType"))>>),
   PosSrsResourceSetList |-> Codec(
     <<Get("0", NonEmpty(1, 16, T("PosSrsResourceSetItem")))>>,
     <<Put("0", NonEmpty(1, 16, T("PosSrsResourceSetItem")))>>)]
FromPrimaryPathIndication ==
  [PrimaryPathIndication |-> Codec(<<ReadEnum(0, 1, TRUE, 2)>>, <<WriteEnum(0, 1, TRUE)>>),
   PreEmptionCapability |-> Codec(<<ReadEnum(0, 1, FALSE, 2)>>, <<WriteEnum(0, 1, FALSE)>>),
   PreEmptionVulnerability |-> Codec(<<ReadEnum(0, 1, FALSE, 2)>>, <<WriteEnum(0, 1, FALSE)>>),
   PriorityLevel |-> Codec(
     <<Get("0", Num(0, 15, FALSE, "u8"))>>,
     <<Put("0", Num(0, 15, FALSE, "u8"))>>)]
FromProtectedEutraResourceIndication ==
  [ProtectedEutraResourceIndication |-> Codec(
     <<Get("0", OctetString)>>,
     <<Put("0", OctetString)>>),
   ProtectedEutraResourcesItem |-> Codec(
     <<ReadHeader(FALSE, 1), Get("spectrum_sharing_group_id", T("SpectrumSharingGroupId")),
       Get("eutra_cells_list", T("EutraCellsList")), ReadExtensions(1, <<>>)>>,
     <<WriteHeader(FALSE, <<"false">>),
       Put("spectrum_sharing_group_id", T("SpectrumSharingGroupId")),
       Put("eutra_cells_list", T("EutraCellsList"))>>),
   PrsConfiguration |-> Codec(
     <<ReadHeader(FALSE, 1), Get("prs_resource_set_list", T("PrsResourceSetList")),
       ReadExtensions(1, <<>>)>>,
     <<WriteHeader(FALSE, <<"false">>), Put("prs_resource_set_list", T("PrsResourceSetList"))>>)]
FromPrsInformationPos ==
  [PrsInformationPos |-> Codec(
     <<ReadHeader(FALSE, 2), Get("prs_id_pos", Num(0, 255, FALSE, "u8")),
       Get("prs_resource_set_id_pos", Num(0, 7, FALSE, "u8")),
       GetIf(1, "prs_resource_id_pos", Num(0, 63, FALSE, "u8")), ReadExtensions(2, <<>>)>>,
     <<WriteHeader(FALSE, <<"prs_resource_id_pos", "false">>),
       Put("prs_id_pos", Num(0, 255, FALSE, "u8")),
       Put("prs_resource_set_id_pos", Num(0, 7, FALSE, "u8")),
       PutIf("prs_resource_id_pos", Num(0, 63, FALSE, "u8"))>>),
   PotentialSpCellItem |-> Codec(
     <<ReadHeader(TRUE, 1), Get("potential_sp_cell_id", T("NrCgi")), ReadExtensions(1, <<>>)>>,
     <<WriteHeader(TRUE, <<"false">>), Put("potential_sp_cell_id", T("NrCgi"))>>)]
FromPrsAngleList ==
  [PrsAngleList |-> Codec(
     <<Get("0", NonEmpty(1, 64, T("PrsAngleItem")))>>,
     <<Put("0", NonEmpty(1, 64, T("PrsAngleItem")))>>),
   PrsAngleItem |-> Codec(
     <<ReadHeader(FALSE, 1), Get("nr_prs_azimuth", Num(0, 359, FALSE, "u16")),
       Get("nr_prs_azimuth_fine", Num(0, 9, FALSE, "u8")),
       Get("nr_prs_elevation", Num(0, 180, FALSE, "u8")),
       Get("nr_prs_elevation_fine", Num(0, 9, FALSE, "u8")), ReadExtensions(1, <<>>)>>,
     <<WriteHeader(FALSE, <<"false">>), Put("nr_prs_azimuth", Num(0, 359, FALSE, "u16")),
       Put("nr_prs_azimuth_fine", Num(0, 9, FALSE, "u8")),
       Put("nr_prs_elevation", Num(0, 180, FALSE, "u8")),
       Put("nr_prs_elevation_fine", Num(0, 9, FALSE, "u8"))>>),
   PrsMuting |-> Codec(
     <<ReadHeader(FALSE, 1), Get("prs_muting_option_1", T("PrsMutingOption1")),
       Get("prs_muting_option_2", T("PrsMutingOption2")), ReadExtensions(1, <<>>)>>,
     <<WriteHeader(FALSE, <<"false">>), Put("prs_muting_option_1", T("PrsMutingOption1")),
       Put("prs_muting_option_2", T("PrsMutingOption2"))>>)]
FromPrsMutingOption1 ==
  [PrsMutingOption1 |-> Codec(
     <<ReadHeader(FALSE, 1), Get("muting_pattern", T("DlPrsMutingPattern")),
       Get("muting_bit_repetition_factor", T("MutingBitRepetitionFactor")),
       ReadExtensions(1, <<>>)>>,
     <<WriteHeader(FALSE, <<"false">>), Put("muting_pattern", T("DlPrsMutingPattern")),
       Put("muting_bit_repetition_factor", T("MutingBitRepetitionFactor"))>>),
   PrsMutingOption2 |-> Codec(
     <<ReadHeader(FALSE, 1), Get("muting_pattern", T("DlPrsMutingPattern")),
       ReadExtensions(1, <<>>)>>,
     <<WriteHeader(FALSE, <<"false">>), Put("muting_pattern", T("DlPrsMutingPattern"))>>),
   PrsResourceId |-> Codec(
     <<Get("0", Num(0, 63, FALSE, "u8"))>>,
     <<Put("0", Num(0, 63, FALSE, "u8"))>>)]
FromPrsResourceList ==
  [PrsResourceList |-> Codec(
     <<Get("0", NonEmpty(1, 64, T("PrsResourceItem")))>>,
     <<Put("0", NonEmpty(1, 64, T("PrsResourceItem")))>>),
   PrsResourceItem |-> Codec(
     <<ReadHeader(FALSE, 2), Get("prs_resource_id", T("PrsResourceId")),
       Get("sequence_id", Num(0, 4095, FALSE, "u16")), Get("re_offset", Num(0, 11, TRUE, "u8")),
       Get("resource_slot_offset", Num(0, 511, FALSE, "u16")),
       Get("resource_symbol_offset", Num(0, 12, FALSE, "u8")),
       GetIf(1, "qcl_info", T("PrsResourceQclInfo")), ReadExtensions(2, <<>>)>>,
     <<WriteHeader(FALSE, <<"qcl_info", "false">>), Put("prs_resource_id", T("PrsResourceId")),
       Put("sequence_id", Num(0, 4095, FALSE, "u16")), Put("re_offset", Num(0, 11, TRUE, "u8")),
       Put("resource_slot_offset", Num(0, 511, FALSE, "u16")),
       Put("resource_symbol_offset", Num(0, 12, FALSE, "u8")),
       PutIf("qcl_info", T("PrsResourceQclInfo"))>>)]
FromPrsResourceQclInfo ==
  [PrsResourceQclInfo |-> Codec(
     <<ReadChoice(0, 2, FALSE, <<Alt(0, "QclSourceSsb", T("PrsResourceQclSourceSsb")),
       Alt(1, "QclSourcePrs", T("PrsResourceQclSourcePrs")), AltIes(2, <<>>)>>)>>,
     <<WriteChoice(0, 2, FALSE, <<Arm("QclSourceSsb", 0, T("PrsResourceQclSourceSsb")),
       Arm("QclSourcePrs", 1, T("PrsResourceQclSourcePrs"))>>)>>),
   PrsResourceQclSourceSsb |-> Codec(
     <<ReadHeader(TRUE, 2), Get("pci_nr", Num(0, 1007, FALSE, "u16")),
       GetIf(1, "ssb_index", T("SsbIndex")), ReadExtensions(2, <<>>)>>,
     <<WriteHeader(TRUE, <<"ssb_index", "false">>), Put("pci_nr", Num(0, 1007, FALSE, "u16")),
       PutIf("ssb_index", T("SsbIndex"))>>),
   PrsResourceQclSourcePrs |-> Codec(
     <<ReadHeader(FALSE, 2), Get("qcl_source_prs_resource_set_id", T("PrsResourceSetId")),
       GetIf(1, "qcl_source_prs_resource_id", T("PrsResourceId")), ReadExtensions(2, <<>>)>>,
     <<WriteHeader(FALSE, <<"qcl_source_prs_resource_id", "false">>),
       Put("qcl_source_prs_resource_set_id", T("PrsResourceSetId")),
       PutIf("qcl_source_prs_resource_id", T("PrsResourceId"))>>)]
FromPrsResourceSetId ==
  [PrsResourceSetId |-> Codec(
     <<Get("0", Num(0, 7, FALSE, "u8"))>>,
     <<Put("0", Num(0, 7, FALSE, "u8"))>>),
   PrsResourceSetList |-> Codec(
     <<Get("0", NonEmpty(1, 8, T("PrsResourceSetItem")))>>,
     <<Put("0", NonEmpty(1, 8, T("PrsResourceSetItem")))>>),
   PrsResourceSetItem |-> Codec(
     <<ReadHeader(FALSE, 2), Get("prs_resource_set_id", T("PrsResourceSetId")),
       Get("subcarrier_spacing", T("SubcarrierSpacing2")),
       Get("pr_sbandwidth", Num(1, 63, FALSE, "u8")), Get("start_prb", Num(0, 2176, FALSE, "u16")),
       Get("point_a", Num(0, 3279165, FALSE, "u32")), Get("comb_size", T("CombSize")),
       Get("cp_type", T("CpType")), Get("resource_set_periodicity", T("ResourceSetPeriodicity")),
       Get("resource_set_slot_offset", Num(0, 81919, TRUE, "u32")),
       Get("resource_repetition_factor", T("ResourceRepetitionFactor")),
       Get("resource_time_gap", T("ResourceTimeGap")),
       Get("resource_numberof_symbols", T("ResourceNumberofSymbols")),
       GetIf(1, "prs_muting", T("PrsMuting")),
       Get("prs_resource_transmit_power", Num(-60, 50, FALSE, "i8")),
       Get("prs_resource_list", T("PrsResourceList")), ReadExtensions(2, <<>>)>>,
     <<WriteHeader(FALSE, <<"prs_muting", "false">>),
       Put("prs_resource_set_id", T("PrsResourceSetId")),
       Put("subcarrier_spacing", T("SubcarrierSpacing2")),
       Put("pr_sbandwidth", Num(1, 63, FALSE, "u8")), Put("start_prb", Num(0, 2176, FALSE, "u16")),
       Put("point_a", Num(0, 3279165, FALSE, "u32")), Put("comb_size", T("CombSize")),
       Put("cp_type", T("CpType")), Put("resource_set_periodicity", T("ResourceSetPeriodicity")),
       Put("resource_set_slot_offset", Num(0, 81919, TRUE, "u32")),
       Put("resource_repetition_factor", T("ResourceRepetitionFactor")),
       Put("resource_time_gap", T("ResourceTimeGap")),
       Put("resource_numberof_symbols", T("ResourceNumberofSymbols")),
       PutIf("prs_muting", T("PrsMuting")),
       Put("prs_resource_transmit_power", Num(-60, 50, FALSE, "i8")),
       Put("prs_resource_list", T("PrsResourceList"))>>)]
FromPwsFailedNrCgiItem ==
  [PwsFailedNrCgiItem |-> Codec(
     <<ReadHeader(TRUE, 1), Get("nr_cgi", T("NrCgi")),
       Get("number_of_broadcasts", T("NumberOfBroadcasts")), ReadExtensions(1, <<>>)>>,
     <<WriteHeader(TRUE, <<"false">>), Put("nr_cgi", T("NrCgi")),
       Put("number_of_broadcasts", T("NumberOfBroadcasts"))>>),
   PwsSystemInformation |-> Codec(
     <<ReadHeader(TRUE, 1), Get("sib_type", T("SibTypePws")), Get("sib_message", OctetString),
       ReadExtensions(1, <<Ie(220, "notification_information", T("NotificationInformation")),
       Ie(231, "additional_sib_message_list", T("AdditionalSibMessageList"))>>)>>,
     <<PutIeIf(220, "notification_information", T("NotificationInformation")),
       PutIeIf(231, "additional_sib_message_list", T("AdditionalSibMessageList")),
       WriteHeader(TRUE, <<"num_ies">>), Put("sib_type", T("SibTypePws")),
       Put("sib_message", OctetString), AppendExtensions>>)]
FromPrivacyIndicator ==
  [PrivacyIndicator |-> Codec(<<ReadEnum(0, 1, TRUE, 2)>>, <<WriteEnum(0, 1, TRUE)>>),
   Qci |-> Codec(<<Get("0", Num(0, 255, FALSE, "u8"))>>, <<Put("0", Num(0, 255, FALSE, "u8"))>>),
   QosCharacteristics |-> Codec(
     <<ReadChoice(0, 2, FALSE, <<Alt(0, "NonDynamic5qi", T("NonDynamic5qiDescriptor")),
       Alt(1, "Dynamic5qi", T("Dynamic5qiDescriptor")), AltIes(2, <<>>)>>)>>,
     <<WriteChoice(0, 2, FALSE, <<Arm("NonDynamic5qi", 0, T("NonDynamic5qiDescriptor")),
       Arm("Dynamic5qi", 1, T("Dynamic5qiDescriptor"))>>)>>),
   QosFlowIdentifier |-> Codec(
     <<Get("0", Num(0, 63, FALSE, "u8"))>>,
     <<Put("0", Num(0, 63, FALSE, "u8"))>>)]
FromQosFlowLevelQosParameters ==
  [QosFlowLevelQosParameters |-> Codec(
     <<ReadHeader(FALSE, 3), Get("qos_characteristics", T("QosCharacteristics")),
       Get("ngran_allocation_retention_priority", T("NgranAllocationAndRetentionPriority")),
       GetIf(1, "gbr_qos_flow_information", T("GbrQosFlowInformation")),
       GetIf(2, "reflective_qos_attribute", T("ReflectiveQosAttribute")),
       ReadExtensions(3, <<Ie(180, "pdu_session_id", T("PduSessionId")),
       Ie(181, "ulpdu_session_aggregate_maximum_bit_rate", T("BitRate")),
       Ie(257, "qos_monitoring_request", T("QosMonitoringRequest"))>>)>>,
     <<PutIeIf(180, "pdu_session_id", T("PduSessionId")),
       PutIeIf(181, "ulpdu_session_aggregate_maximum_bit_rate", T("BitRate")),
       PutIeIf(257, "qos_monitoring_request", T("QosMonitoringRequest")),
       WriteHeader(FALSE, <<"gbr_qos_flow_information", "reflective_qos_attribute", "num_ies">>),
       Put("qos_characteristics", T("QosCharacteristics")),
       Put("ngran_allocation_retention_priority", T("NgranAllocationAndRetentionPriority")),
       PutIf("gbr_qos_flow_information", T("GbrQosFlowInformation")),
       PutIf("reflective_qos_attribute", T("ReflectiveQosAttribute")), AppendExtensions>>),
   QosFlowMappingIndication |-> Codec(<<ReadEnum(0, 1, TRUE, 2)>>, <<WriteEnum(0, 1, TRUE)>>)]
FromQosInformation ==
  [QosInformation |-> Codec(
     <<ReadChoice(0, 1, FALSE, <<Alt(0, "EutranQos", T("EutranQos")),
       AltIes(1, <<Ie(164, "DrbInformation", T("DrbInformation"))>>)>>)>>,
     <<WriteChoice(0, 1, FALSE, <<Arm("EutranQos", 0, T("EutranQos")),
       ArmIe("DrbInformation", 1, 164, T("DrbInformation"))>>)>>),
   QosMonitoringRequest |-> Codec(<<ReadEnum(0, 2, TRUE, 3)>>, <<WriteEnum(0, 2, TRUE)>>),
   QosParaSetIndex |-> Codec(
     <<Get("0", Num(1, 8, TRUE, "u8"))>>,
     <<Put("0", Num(1, 8, TRUE, "u8"))>>),
   QosParaSetNotifyIndex |-> Codec(
     <<Get("0", Num(0, 8, TRUE, "u8"))>>,
     <<Put("0", Num(0, 8, TRUE, "u8"))>>)]

Codecs == {FromMappingInformationIndex, FromMaxPacketLossRate, FromMeasurementBeamInfoRequest,
  FromMessageIdentifier, FromM5period, FromM6reportInterval, FromM7period, FromMdtPlmnList,
  FromNeedforGap, FromNgranHighAccuracyAccessPointPosition, FromNid, FromNrPrsBeamInformationList,
  FromNonDynamic5qiDescriptor, FromNonDynamicPqiDescriptor, FromNoofUplinkSymbols,
  FromNpnBroadcastInformation, FromNpnSupportInfo, FromNrFreqInfo, FromNrModeInfo, FromNrNrB,
  FromNrPrachConfigItem, FromNrUeRlfReportContainer, FromNrV2xServicesAuthorized,
  FromOffsetToPointA, FromPerExponent, FromPagingOrigin, FromPathlossReferenceInfo,
  FromPc5QosCharacteristics, FromPdcchBlindDetectionScg, FromPeriodicitySrs, FromPermutation,
  FromPosAssistanceInformation, FromPosMeasurementQuantities, FromPosMeasurementResultItem,
  FromPosMeasurementType, FromPosResourceSetTypePr, FromPosSrsResourceIdList,
  FromPosSrsResourceList, FromPrimaryPathIndication, FromProtectedEutraResourceIndication,
  FromPrsInformationPos, FromPrsAngleList, FromPrsMutingOption1, FromPrsResourceList,
  FromPrsResourceQclInfo, FromPrsResourceSetId, FromPwsFailedNrCgiItem, FromPrivacyIndicator,
  FromQosFlowLevelQosParameters, FromQosInformation}
=============================================================================
