----------------------------- MODULE RrcIesPtoW -----------------------------
(***************************************************************************)
(* The programs of the codecs of rrc/src/rrc.rs that a message of the CCCH *)
(* or the DCCH, in either direction, or SIB2 may hold: the information     *)
(* elements from PMax to WlanNameR16.                                      *)
(***************************************************************************)
EXTENDS PerLayout

FromPMax ==
  [PMax |-> Codec(
     <<Get("0", Num(-30, 33, FALSE, "i8"))>>,
     <<Put("0", Num(-30, 33, FALSE, "i8"))>>),
   PciList |-> Codec(
     <<Get("0", NonEmpty(1, 32, T("PhysCellId")))>>,
     <<Put("0", NonEmpty(1, 32, T("PhysCellId")))>>),
   PciRange |-> Codec(
     <<ReadHeader(FALSE, 1), Get("start", T("PhysCellId")), GetIf(1, "range", T("Range"))>>,
     <<WriteHeader(FALSE, <<"range">>), Put("start", T("PhysCellId")), PutIf("range", T("Range"))>>),
   PciRangeElement |-> Codec(
     <<ReadHeader(FALSE, 0), Get("pci_range_index", T("PciRangeIndex")),
       Get("pci_range", T("PciRange"))>>,
     <<WriteHeader(FALSE, <<>>), Put("pci_range_index", T("PciRangeIndex")),
       Put("pci_range", T("PciRange"))>>)]
FromPciRangeIndex ==
  [PciRangeIndex |-> Codec(
     <<Get("0", Num(1, 8, FALSE, "u8"))>>,
     <<Put("0", Num(1, 8, FALSE, "u8"))>>),
   PciRangeIndexList |-> Codec(
     <<Get("0", NonEmpty(1, 8, T("PciRangeIndex")))>>,
     <<Put("0", NonEmpty(1, 8, T("PciRangeIndex")))>>)]
FromPdcpConfig ==
  [PdcpConfig |-> Codec(
     <<ReadHeader(TRUE, 3), GetIf(1, "drb", T("Drb")),
       GetIf(2, "more_than_one_rlc", T("MoreThanOneRlc")),
       GetIf(3, "t_reordering", T("TReordering"))>>,
     <<WriteHeader(TRUE, <<"drb", "more_than_one_rlc", "t_reordering">>), PutIf("drb", T("Drb")),
       PutIf("more_than_one_rlc", T("MoreThanOneRlc")), PutIf("t_reordering", T("TReordering"))>>)]
FromUlDataSplitThreshold ==
  [UlDataSplitThreshold |-> Codec(<<ReadEnum(0, 31, FALSE, 32)>>, <<WriteEnum(0, 31, FALSE)>>)]
FromPhysCellId ==
  [PhysCellId |-> Codec(
     <<Get("0", Num(0, 1007, FALSE, "u16"))>>,
     <<Put("0", Num(0, 1007, FALSE, "u16"))>>)]
FromPlmnIdentity ==
  [PlmnIdentity |-> Codec(
     <<ReadHeader(FALSE, 1), GetIf(1, "mcc", T("Mcc")), Get("mnc", T("Mnc"))>>,
     <<WriteHeader(FALSE, <<"mcc">>), PutIf("mcc", T("Mcc")), Put("mnc", T("Mnc"))>>),
   Mcc |-> Codec(
     <<Get("0", NonEmpty(3, 3, T("MccMncDigit")))>>,
     <<Put("0", NonEmpty(3, 3, T("MccMncDigit")))>>),
   Mnc |-> Codec(
     <<Get("0", NonEmpty(2, 3, T("MccMncDigit")))>>,
     <<Put("0", NonEmpty(2, 3, T("MccMncDigit")))>>),
   MccMncDigit |-> Codec(
     <<Get("0", Num(0, 9, FALSE, "u8"))>>,
     <<Put("0", Num(0, 9, FALSE, "u8"))>>)]
FromPlmnIdentityList2R16 ==
  [PlmnIdentityList2R16 |-> Codec(
     <<Get("0", NonEmpty(1, 16, T("PlmnIdentity")))>>,
     <<Put("0", NonEmpty(1, 16, T("PlmnIdentity")))>>)]
FromPucchResourceId ==
  [PucchResourceId |-> Codec(
     <<Get("0", Num(0, 127, FALSE, "u8"))>>,
     <<Put("0", Num(0, 127, FALSE, "u8"))>>)]
FromQOffsetRange ==
  [QOffsetRange |-> Codec(<<ReadEnum(0, 30, FALSE, 31)>>, <<WriteEnum(0, 30, FALSE)>>),
   QQualMin |-> Codec(
     <<Get("0", Num(-43, -12, FALSE, "i8"))>>,
     <<Put("0", Num(-43, -12, FALSE, "i8"))>>),
   QRxLevMin |-> Codec(
     <<Get("0", Num(-70, -22, FALSE, "i8"))>>,
     <<Put("0", Num(-70, -22, FALSE, "i8"))>>),
   QuantityConfig |-> Codec(
     <<ReadHeader(TRUE, 1),
       GetIf(1, "quantity_config_nr_list", NonEmpty(1, 2, T("QuantityConfigNr")))>>,
     <<WriteHeader(TRUE, <<"quantity_config_nr_list">>),
       PutIf("quantity_config_nr_list", NonEmpty(1, 2, T("QuantityConfigNr")))>>)]
FromQuantityConfigNr ==
  [QuantityConfigNr |-> Codec(
     <<ReadHeader(FALSE, 1), Get("quantity_config_cell", T("QuantityConfigRs")),
       GetIf(1, "quantity_config_rs_index", T("QuantityConfigRs"))>>,
     <<WriteHeader(FALSE, <<"quantity_config_rs_index">>),
       Put("quantity_config_cell", T("QuantityConfigRs")),
       PutIf("quantity_config_rs_index", T("QuantityConfigRs"))>>),
   QuantityConfigRs |-> Codec(
     <<ReadHeader(FALSE, 0), Get("ssb_filter_config", T("FilterConfig")),
       Get("csi_rs_filter_config", T("FilterConfig"))>>,
     <<WriteHeader(FALSE, <<>>), Put("ssb_filter_config", T("FilterConfig")),
       Put("csi_rs_filter_config", T("FilterConfig"))>>),
   FilterConfig |-> Codec(
     <<ReadHeader(FALSE, 3), GetIf(1, "filter_coefficient_rsrp", T("FilterCoefficient")),
       GetIf(2, "filter_coefficient_rsrq", T("FilterCoefficient")),
       GetIf(3, "filter_coefficient_rs_si_nr", T("FilterCoefficient"))>>,
     <<WriteHeader(FALSE, <<"filter_coefficient_rsrp", "filter_coefficient_rsrq",
       "filter_coefficient_rs_si_nr">>), PutIf("filter_coefficient_rsrp", T("FilterCoefficient")),
       PutIf("filter_coefficient_rsrq", T("FilterCoefficient")),
       PutIf("filter_coefficient_rs_si_nr", T("FilterCoefficient"))>>)]
FromRadioBearerConfig ==
  [RadioBearerConfig |-> Codec(
     <<ReadHeader(TRUE, 5), GetIf(1, "srb_to_add_mod_list", T("SrbToAddModList")),
       GetIf(2, "srb_3_to_release", T("Srb3ToRelease")),
       GetIf(3, "drb_to_add_mod_list", T("DrbToAddModList")),
       GetIf(4, "drb_to_release_list", T("DrbToReleaseList")),
       GetIf(5, "security_config", T("SecurityConfig"))>>,
     <<WriteHeader(TRUE, <<"srb_to_add_mod_list", "srb_3_to_release", "drb_to_add_mod_list",
       "drb_to_release_list", "security_config">>),
       PutIf("srb_to_add_mod_list", T("SrbToAddModList")),
       PutIf("srb_3_to_release", T("Srb3ToRelease")),
       PutIf("drb_to_add_mod_list", T("DrbToAddModList")),
       PutIf("drb_to_release_list", T("DrbToReleaseList")),
       PutIf("security_config", T("SecurityConfig"))>>),
   SrbToAddModList |-> Codec(
     <<Get("0", NonEmpty(1, 2, T("SrbToAddMod")))>>,
     <<Put("0", NonEmpty(1, 2, T("SrbToAddMod")))>>),
   SrbToAddMod |-> Codec(
     <<ReadHeader(TRUE, 3), Get("srb_identity", T("SrbIdentity")),
       GetIf(1, "reestablish_pdcp", T("ReestablishPdcp")),
       GetIf(2, "discard_on_pdcp", T("DiscardOnPdcp")), GetIf(3, "pdcp_config", T("PdcpConfig"))>>,
     <<WriteHeader(TRUE, <<"reestablish_pdcp", "discard_on_pdcp", "pdcp_config">>),
       Put("srb_identity", T("SrbIdentity")), PutIf("reestablish_pdcp", T("ReestablishPdcp")),
       PutIf("discard_on_pdcp", T("DiscardOnPdcp")), PutIf("pdcp_config", T("PdcpConfig"))>>)]
FromDrbToAddModList ==
  [DrbToAddModList |-> Codec(
     <<Get("0", NonEmpty(1, 29, T("DrbToAddMod")))>>,
     <<Put("0", NonEmpty(1, 29, T("DrbToAddMod")))>>),
   DrbToAddMod |-> Codec(
     <<ReadHeader(TRUE, 4), GetIf(1, "cn_association", T("CnAssociation")),
       Get("drb_identity", T("DrbIdentity")), GetIf(2, "reestablish_pdcp", T("ReestablishPdcp1")),
       GetIf(3, "recover_pdcp", T("RecoverPdcp")), GetIf(4, "pdcp_config", T("PdcpConfig"))>>,
     <<WriteHeader(TRUE, <<"cn_association", "reestablish_pdcp", "recover_pdcp", "pdcp_config">>),
       PutIf("cn_association", T("CnAssociation")), Put("drb_identity", T("DrbIdentity")),
       PutIf("reestablish_pdcp", T("ReestablishPdcp1")), PutIf("recover_pdcp", T("RecoverPdcp")),
       PutIf("pdcp_config", T("PdcpConfig"))>>),
   DrbToReleaseList |-> Codec(
     <<Get("0", NonEmpty(1, 29, T("DrbIdentity")))>>,
     <<Put("0", NonEmpty(1, 29, T("DrbIdentity")))>>)]
FromSecurityConfig ==
  [SecurityConfig |-> Codec(
     <<ReadHeader(TRUE, 2), GetIf(1, "security_algorithm_config", T("SecurityAlgorithmConfig")),
       GetIf(2, "key_to_use", T("KeyToUse"))>>,
     <<WriteHeader(TRUE, <<"security_algorithm_config", "key_to_use">>),
       PutIf("security_algorithm_config", T("SecurityAlgorithmConfig")),
       PutIf("key_to_use", T("KeyToUse"))>>)]
FromRanAreaCode ==
  [RanAreaCode |-> Codec(
     <<Get("0", Num(0, 255, FALSE, "u8"))>>,
     <<Put("0", Num(0, 255, FALSE, "u8"))>>)]
FromReferenceTimeInfoR16 ==
  [ReferenceTimeInfoR16 |-> Codec(
     <<ReadHeader(FALSE, 3), Get("time_r_16", T("ReferenceTimeR16")),
       GetIf(1, "uncertainty_r_16", Num(0, 32767, FALSE, "u16")),
       GetIf(2, "time_info_type_r_16", T("TimeInfoTypeR16")),
       GetIf(3, "reference_sfn_r_16", Num(0, 1023, FALSE, "u16"))>>,
     <<WriteHeader(FALSE, <<"uncertainty_r_16", "time_info_type_r_16", "reference_sfn_r_16">>),
       Put("time_r_16", T("ReferenceTimeR16")),
       PutIf("uncertainty_r_16", Num(0, 32767, FALSE, "u16")),
       PutIf("time_info_type_r_16", T("TimeInfoTypeR16")),
       PutIf("reference_sfn_r_16", Num(0, 1023, FALSE, "u16"))>>),
   ReferenceTimeR16 |-> Codec(
     <<ReadHeader(FALSE, 0), Get("ref_days_r_16", Num(0, 72999, FALSE, "u32")),
       Get("ref_seconds_r_16", Num(0, 86399, FALSE, "u32")),
       Get("ref_milli_seconds_r_16", Num(0, 999, FALSE, "u16")),
       Get("ref_ten_nano_seconds_r_16", Num(0, 99999, FALSE, "u32"))>>,
     <<WriteHeader(FALSE, <<>>), Put("ref_days_r_16", Num(0, 72999, FALSE, "u32")),
       Put("ref_seconds_r_16", Num(0, 86399, FALSE, "u32")),
       Put("ref_milli_seconds_r_16", Num(0, 999, FALSE, "u16")),
       Put("ref_ten_nano_seconds_r_16", Num(0, 99999, FALSE, "u32"))>>)]
FromRejectWaitTime ==
  [RejectWaitTime |-> Codec(
     <<Get("0", Num(1, 16, FALSE, "u8"))>>,
     <<Put("0", Num(1, 16, FALSE, "u8"))>>)]
FromReportConfigId ==
  [ReportConfigId |-> Codec(
     <<Get("0", Num(1, 64, FALSE, "u8"))>>,
     <<Put("0", Num(1, 64, FALSE, "u8"))>>)]
FromReportConfigNr ==
  [ReportConfigNr |-> Codec(
     <<ReadHeader(FALSE, 0), Get("report_type", T("ReportType2"))>>,
     <<WriteHeader(FALSE, <<>>), Put("report_type", T("ReportType2"))>>)]
FromEventTriggerConfig ==
  [EventTriggerConfig |-> Codec(
     <<ReadHeader(TRUE, 3), Get("event_id", T("EventId1")), Get("rs_type", T("NrRsType")),
       Get("report_interval", T("ReportInterval")), Get("report_amount", T("ReportAmount2")),
       Get("report_quantity_cell", T("MeasReportQuantity")),
       Get("max_report_cells", Num(1, 8, FALSE, "u8")),
       GetIf(1, "report_quantity_rs_indexes", T("MeasReportQuantity")),
       GetIf(2, "max_nrof_rs_indexes_to_report", Num(1, 32, FALSE, "u8")),
       Get("include_beam_measurements", T("BOOL")),
       GetIf(3, "report_add_neigh_meas", T("ReportAddNeighMeas"))>>,
     <<WriteHeader(TRUE, <<"report_quantity_rs_indexes", "max_nrof_rs_indexes_to_report",
       "report_add_neigh_meas">>), Put("event_id", T("EventId1")), Put("rs_type", T("NrRsType")),
       Put("report_interval", T("ReportInterval")), Put("report_amount", T("ReportAmount2")),
       Put("report_quantity_cell", T("MeasReportQuantity")),
       Put("max_report_cells", Num(1, 8, FALSE, "u8")),
       PutIf("report_quantity_rs_indexes", T("MeasReportQuantity")),
       PutIf("max_nrof_rs_indexes_to_report", Num(1, 32, FALSE, "u8")),
       Put("include_beam_measurements", T("BOOL")),
       PutIf("report_add_neigh_meas", T("ReportAddNeighMeas"))>>),
   PeriodicalReportConfig |-> Codec(
     <<ReadHeader(TRUE, 2), Get("rs_type", T("NrRsType")),
       Get("report_interval", T("ReportInterval")), Get("report_amount", T("ReportAmount3")),
       Get("report_quantity_cell", T("MeasReportQuantity")),
       Get("max_report_cells", Num(1, 8, FALSE, "u8")),
       GetIf(1, "report_quantity_rs_indexes", T("MeasReportQuantity")),
       GetIf(2, "max_nrof_rs_indexes_to_report", Num(1, 32, FALSE, "u8")),
       Get("include_beam_measurements", T("BOOL")), Get("use_white_cell_list", T("BOOL"))>>,
     <<WriteHeader(TRUE, <<"report_quantity_rs_indexes", "max_nrof_rs_indexes_to_report">>),
       Put("rs_type", T("NrRsType")), Put("report_interval", T("ReportInterval")),
       Put("report_amount", T("ReportAmount3")),
       Put("report_quantity_cell", T("MeasReportQuantity")),
       Put("max_report_cells", Num(1, 8, FALSE, "u8")),
       PutIf("report_quantity_rs_indexes", T("MeasReportQuantity")),
       PutIf("max_nrof_rs_indexes_to_report", Num(1, 32, FALSE, "u8")),
       Put("include_beam_measurements", T("BOOL")), Put("use_white_cell_list", T("BOOL"))>>)]
FromNrRsType ==
  [NrRsType |-> Codec(<<ReadEnum(0, 1, FALSE, 2)>>, <<WriteEnum(0, 1, FALSE)>>),
   MeasTriggerQuantity |-> Codec(
     <<ReadChoice(0, 2, FALSE, <<Alt(0, "Rsrp", T("RsrpRange")), Alt(1, "Rsrq", T("RsrqRange")),
       Alt(2, "Sinr", T("SiNrRange"))>>)>>,
     <<WriteChoice(0, 2, FALSE, <<Arm("Rsrp", 0, T("RsrpRange")), Arm("Rsrq", 1, T("RsrqRange")),
       Arm("Sinr", 2, T("SiNrRange"))>>)>>),
   MeasTriggerQuantityOffset |-> Codec(
     <<ReadChoice(0, 2, FALSE, <<Alt(0, "Rsrp", Num(-30, 30, FALSE, "i8")),
       Alt(1, "Rsrq", Num(-30, 30, FALSE, "i8")), Alt(2, "Sinr", Num(-30, 30, FALSE, "i8"))>>)>>,
     <<WriteChoice(0, 2, FALSE, <<Arm("Rsrp", 0, Num(-30, 30, FALSE, "i8")),
       Arm("Rsrq", 1, Num(-30, 30, FALSE, "i8")), Arm("Sinr", 2, Num(-30, 30, FALSE, "i8"))>>)>>)]
FromMeasReportQuantity ==
  [MeasReportQuantity |-> Codec(
     <<ReadHeader(FALSE, 0), Get("rsrp", T("BOOL")), Get("rsrq", T("BOOL")),
       Get("sinr", T("BOOL"))>>,
     <<WriteHeader(FALSE, <<>>), Put("rsrp", T("BOOL")), Put("rsrq", T("BOOL")),
       Put("sinr", T("BOOL"))>>)]
FromReportConfigToAddModList ==
  [ReportConfigToAddModList |-> Codec(
     <<Get("0", NonEmpty(1, 64, T("ReportConfigToAddMod")))>>,
     <<Put("0", NonEmpty(1, 64, T("ReportConfigToAddMod")))>>),
   ReportConfigToAddMod |-> Codec(
     <<ReadHeader(FALSE, 0), Get("report_config_id", T("ReportConfigId")),
       Get("report_config", T("ReportConfig"))>>,
     <<WriteHeader(FALSE, <<>>), Put("report_config_id", T("ReportConfigId")),
       Put("report_config", T("ReportConfig"))>>),
   ReportInterval |-> Codec(<<ReadEnum(0, 13, FALSE, 14)>>, <<WriteEnum(0, 13, FALSE)>>),
   ReselectionThreshold |-> Codec(
     <<Get("0", Num(0, 31, FALSE, "u8"))>>,
     <<Put("0", Num(0, 31, FALSE, "u8"))>>)]
FromReselectionThresholdQ ==
  [ReselectionThresholdQ |-> Codec(
     <<Get("0", Num(0, 31, FALSE, "u8"))>>,
     <<Put("0", Num(0, 31, FALSE, "u8"))>>),
   ResumeCause |-> Codec(<<ReadEnum(0, 15, FALSE, 16)>>, <<WriteEnum(0, 15, FALSE)>>)]
FromTPollRetransmit ==
  [TPollRetransmit |-> Codec(<<ReadEnum(0, 63, FALSE, 64)>>, <<WriteEnum(0, 63, FALSE)>>),
   PollPdu |-> Codec(<<ReadEnum(0, 31, FALSE, 32)>>, <<WriteEnum(0, 31, FALSE)>>)]
FromPollByte ==
  [PollByte |-> Codec(<<ReadEnum(0, 63, FALSE, 64)>>, <<WriteEnum(0, 63, FALSE)>>)]
FromSnFieldLengthUm ==
  [SnFieldLengthUm |-> Codec(<<ReadEnum(0, 1, FALSE, 2)>>, <<WriteEnum(0, 1, FALSE)>>),
   SnFieldLengthAm |-> Codec(<<ReadEnum(0, 1, FALSE, 2)>>, <<WriteEnum(0, 1, FALSE)>>)]
FromRntiValue ==
  [RntiValue |-> Codec(
     <<Get("0", Num(0, 65535, FALSE, "u16"))>>,
     <<Put("0", Num(0, 65535, FALSE, "u16"))>>),
   RsrpRange |-> Codec(
     <<Get("0", Num(0, 127, FALSE, "u8"))>>,
     <<Put("0", Num(0, 127, FALSE, "u8"))>>),
   RsrqRange |-> Codec(
     <<Get("0", Num(0, 127, FALSE, "u8"))>>,
     <<Put("0", Num(0, 127, FALSE, "u8"))>>)]
FromSchedulingRequestId ==
  [SchedulingRequestId |-> Codec(
     <<Get("0", Num(0, 7, FALSE, "u8"))>>,
     <<Put("0", Num(0, 7, FALSE, "u8"))>>)]
FromScsSpecificCarrier ==
  [ScsSpecificCarrier |-> Codec(
     <<ReadHeader(TRUE, 0), Get("offset_to_carrier", Num(0, 2199, FALSE, "u16")),
       Get("subcarrier_spacing", T("SubcarrierSpacing")),
       Get("carrier_bandwidth", Num(1, 275, FALSE, "u16"))>>,
     <<WriteHeader(TRUE, <<>>), Put("offset_to_carrier", Num(0, 2199, FALSE, "u16")),
       Put("subcarrier_spacing", T("SubcarrierSpacing")),
       Put("carrier_bandwidth", Num(1, 275, FALSE, "u16"))>>),
   SdapConfig |-> Codec(
     <<ReadHeader(TRUE, 2), Get("pdu_session", T("PduSessionId")),
       Get("sdap_header_dl", T("SdapHeaderDl")), Get("sdap_header_ul", T("SdapHeaderUl")),
       Get("default_drb", T("BOOL")),
       GetIf(1, "mapped_qos_flows_to_add", NonEmpty(1, 64, T("Qfi"))),
       GetIf(2, "mapped_qos_flows_to_release", NonEmpty(1, 64, T("Qfi")))>>,
     <<WriteHeader(TRUE, <<"mapped_qos_flows_to_add", "mapped_qos_flows_to_release">>),
       Put("pdu_session", T("PduSessionId")), Put("sdap_header_dl", T("SdapHeaderDl")),
       Put("sdap_header_ul", T("SdapHeaderUl")), Put("default_drb", T("BOOL")),
       PutIf("mapped_qos_flows_to_add", NonEmpty(1, 64, T("Qfi"))),
       PutIf("mapped_qos_flows_to_release", NonEmpty(1, 64, T("Qfi")))>>)]
FromQfi ==
  [Qfi |-> Codec(<<Get("0", Num(0, 63, FALSE, "u8"))>>, <<Put("0", Num(0, 63, FALSE, "u8"))>>),
   PduSessionId |-> Codec(
     <<Get("0", Num(0, 255, FALSE, "u8"))>>,
     <<Put("0", Num(0, 255, FALSE, "u8"))>>)]
FromSecurityAlgorithmConfig ==
  [SecurityAlgorithmConfig |-> Codec(
     <<ReadHeader(TRUE, 1), Get("ciphering_algorithm", T("CipheringAlgorithm")),
       GetIf(1, "integrity_prot_algorithm", T("IntegrityProtAlgorithm"))>>,
     <<WriteHeader(TRUE, <<"integrity_prot_algorithm">>),
       Put("ciphering_algorithm", T("CipheringAlgorithm")),
       PutIf("integrity_prot_algorithm", T("IntegrityProtAlgorithm"))>>),
   IntegrityProtAlgorithm |-> Codec(<<ReadEnum(0, 7, TRUE, 8)>>, <<WriteEnum(0, 7, TRUE)>>),
   CipheringAlgorithm |-> Codec(<<ReadEnum(0, 7, TRUE, 8)>>, <<WriteEnum(0, 7, TRUE)>>)]
FromSensorLocationInfoR16 ==
  [SensorLocationInfoR16 |-> Codec(
     <<ReadHeader(TRUE, 2), GetIf(1, "sensor_measurement_information_r_16", OctetString),
       GetIf(2, "sensor_motion_information_r_16", OctetString)>>,
     <<WriteHeader(TRUE, <<"sensor_measurement_information_r_16",
       "sensor_motion_information_r_16">>),
       PutIf("sensor_measurement_information_r_16", OctetString),
       PutIf("sensor_motion_information_r_16", OctetString)>>),
   ServCellIndex |-> Codec(
     <<Get("0", Num(0, 31, FALSE, "u8"))>>,
     <<Put("0", Num(0, 31, FALSE, "u8"))>>)]
FromShortIRntiValue ==
  [ShortIRntiValue |-> Codec(<<Get("0", Bits(24, 24, FALSE))>>, <<Put("0", Bits(24, 24, FALSE))>>),
   ShortMacI |-> Codec(<<Get("0", Bits(16, 16, FALSE))>>, <<Put("0", Bits(16, 16, FALSE))>>),
   SiNrRange |-> Codec(
     <<Get("0", Num(0, 127, FALSE, "u8"))>>,
     <<Put("0", Num(0, 127, FALSE, "u8"))>>)]
FromSkCounter ==
  [SkCounter |-> Codec(
     <<Get("0", Num(0, 65535, FALSE, "u16"))>>,
     <<Put("0", Num(0, 65535, FALSE, "u16"))>>)]
FromSnssai ==
  [Snssai |-> Codec(
     <<ReadChoice(0, 1, FALSE, <<Alt(0, "Sst", Bits(8, 8, FALSE)),
       Alt(1, "SstSd", Bits(32, 32, FALSE))>>)>>,
     <<WriteChoice(0, 1, FALSE, <<Arm("Sst", 0, Bits(8, 8, FALSE)),
       Arm("SstSd", 1, Bits(32, 32, FALSE))>>)>>)]
FromSrbIdentity ==
  [SrbIdentity |-> Codec(
     <<Get("0", Num(1, 3, FALSE, "u8"))>>,
     <<Put("0", Num(1, 3, FALSE, "u8"))>>)]
FromSsbIndex ==
  [SsbIndex |-> Codec(
     <<Get("0", Num(0, 63, FALSE, "u8"))>>,
     <<Put("0", Num(0, 63, FALSE, "u8"))>>),
   SsbMtc |-> Codec(
     <<ReadHeader(FALSE, 0), Get("periodicity_and_offset", T("PeriodicityAndOffset1")),
       Get("duration", T("Duration"))>>,
     <<WriteHeader(FALSE, <<>>), Put("periodicity_and_offset", T("PeriodicityAndOffset1")),
       Put("duration", T("Duration"))>>),
   SsbMtc2 |-> Codec(
     <<ReadHeader(FALSE, 1), GetIf(1, "pci_list", NonEmpty(1, 64, T("PhysCellId"))),
       Get("periodicity", T("Periodicity2"))>>,
     <<WriteHeader(FALSE, <<"pci_list">>), PutIf("pci_list", NonEmpty(1, 64, T("PhysCellId"))),
       Put("periodicity", T("Periodicity2"))>>)]
FromSsbToMeasure ==
  [SsbToMeasure |-> Codec(
     <<ReadChoice(0, 2, FALSE, <<Alt(0, "ShortBitmap", Bits(4, 4, FALSE)),
       Alt(1, "MediumBitmap", Bits(8, 8, FALSE)), Alt(2, "LongBitmap", Bits(64, 64, FALSE))>>)>>,
     <<WriteChoice(0, 2, FALSE, <<Arm("ShortBitmap", 0, Bits(4, 4, FALSE)),
       Arm("MediumBitmap", 1, Bits(8, 8, FALSE)), Arm("LongBitmap", 2, Bits(64, 64, FALSE))>>)>>),
   SsRssiMeasurement |-> Codec(
     <<ReadHeader(FALSE, 0), Get("measurement_slots", Bits(1, 80, FALSE)),
       Get("end_symbol", Num(0, 3, FALSE, "u8"))>>,
     <<WriteHeader(FALSE, <<>>), Put("measurement_slots", Bits(1, 80, FALSE)),
       Put("end_symbol", Num(0, 3, FALSE, "u8"))>>),
   SubcarrierSpacing |-> Codec(<<ReadEnum(0, 7, FALSE, 8)>>, <<WriteEnum(0, 7, FALSE)>>)]
FromTddUlDlConfigCommon ==
  [TddUlDlConfigCommon |-> Codec(
     <<ReadHeader(TRUE, 1), Get("reference_subcarrier_spacing", T("SubcarrierSpacing")),
       Get("pattern_1", T("TddUlDlPattern")), GetIf(1, "pattern_2", T("TddUlDlPattern"))>>,
     <<WriteHeader(TRUE, <<"pattern_2">>),
       Put("reference_subcarrier_spacing", T("SubcarrierSpacing")),
       Put("pattern_1", T("TddUlDlPattern")), PutIf("pattern_2", T("TddUlDlPattern"))>>),
   TddUlDlPattern |-> Codec(
     <<ReadHeader(TRUE, 0), Get("dl_ul_transmission_periodicity", T("DlUlTransmissionPeriodicity")),
       Get("nrof_downlink_slots", Num(0, 320, FALSE, "u16")),
       Get("nrof_downlink_symbols", Num(0, 13, FALSE, "u8")),
       Get("nrof_uplink_slots", Num(0, 320, FALSE, "u16")),
       Get("nrof_uplink_symbols", Num(0, 13, FALSE, "u8"))>>,
     <<WriteHeader(TRUE, <<>>),
       Put("dl_ul_transmission_periodicity", T("DlUlTransmissionPeriodicity")),
       Put("nrof_downlink_slots", Num(0, 320, FALSE, "u16")),
       Put("nrof_downlink_symbols", Num(0, 13, FALSE, "u8")),
       Put("nrof_uplink_slots", Num(0, 320, FALSE, "u16")),
       Put("nrof_uplink_symbols", Num(0, 13, FALSE, "u8"))>>)]
FromTrackingAreaCode ==
  [TrackingAreaCode |-> Codec(
     <<Get("0", Bits(24, 24, FALSE))>>,
     <<Put("0", Bits(24, 24, FALSE))>>),
   TReselection |-> Codec(
     <<Get("0", Num(0, 7, FALSE, "u8"))>>,
     <<Put("0", Num(0, 7, FALSE, "u8"))>>),
   TimeToTrigger |-> Codec(<<ReadEnum(0, 15, FALSE, 16)>>, <<WriteEnum(0, 15, FALSE)>>)]
FromUplinkTxDirectCurrentList ==
  [UplinkTxDirectCurrentList |-> Codec(
     <<Get("0", NonEmpty(1, 32, T("UplinkTxDirectCurrentCell")))>>,
     <<Put("0", NonEmpty(1, 32, T("UplinkTxDirectCurrentCell")))>>),
   UplinkTxDirectCurrentCell |-> Codec(
     <<ReadHeader(TRUE, 0), Get("serv_cell_index", T("ServCellIndex")),
       Get("uplink_direct_current_bwp", NonEmpty(1, 4, T("UplinkTxDirectCurrentBwp")))>>,
     <<WriteHeader(TRUE, <<>>), Put("serv_cell_index", T("ServCellIndex")),
       Put("uplink_direct_current_bwp", NonEmpty(1, 4, T("UplinkTxDirectCurrentBwp")))>>),
   UplinkTxDirectCurrentBwp |-> Codec(
     <<ReadHeader(FALSE, 0), Get("bwp_id", T("BwpId")), Get("shift7dot5k_hz", T("BOOL")),
       Get("tx_direct_current_location", Num(0, 3301, FALSE, "u16"))>>,
     <<WriteHeader(FALSE, <<>>), Put("bwp_id", T("BwpId")), Put("shift7dot5k_hz", T("BOOL")),
       Put("tx_direct_current_location", Num(0, 3301, FALSE, "u16"))>>)]
FromUplinkTxDirectCurrentTwoCarrierListR16 ==
  [UplinkTxDirectCurrentTwoCarrierListR16 |-> Codec(
     <<Get("0", NonEmpty(1, 64, T("UplinkTxDirectCurrentTwoCarrierR16")))>>,
     <<Put("0", NonEmpty(1, 64, T("UplinkTxDirectCurrentTwoCarrierR16")))>>),
   UplinkTxDirectCurrentTwoCarrierR16 |-> Codec(
     <<ReadHeader(FALSE, 1), Get("carrier_one_info_r_16", T("UplinkTxDirectCurrentCarrierInfoR16")),
       Get("carrier_two_info_r_16", T("UplinkTxDirectCurrentCarrierInfoR16")),
       Get("single_pa_tx_direct_current_r_16", T("UplinkTxDirectCurrentTwoCarrierInfoR16")),
       GetIf(1, "second_pa_tx_direct_current_r_16", T("UplinkTxDirectCurrentTwoCarrierInfoR16"))>>,
     <<WriteHeader(FALSE, <<"second_pa_tx_direct_current_r_16">>),
       Put("carrier_one_info_r_16", T("UplinkTxDirectCurrentCarrierInfoR16")),
       Put("carrier_two_info_r_16", T("UplinkTxDirectCurrentCarrierInfoR16")),
       Put("single_pa_tx_direct_current_r_16", T("UplinkTxDirectCurrentTwoCarrierInfoR16")),
       PutIf("second_pa_tx_direct_current_r_16", T("UplinkTxDirectCurrentTwoCarrierInfoR16"))>>),
   UplinkTxDirectCurrentCarrierInfoR16 |-> Codec(
     <<ReadHeader(FALSE, 0), Get("serv_cell_index_r_16", T("ServCellIndex")),
       Get("serv_cell_info_r_16", T("ServCellInfoR16"))>>,
     <<WriteHeader(FALSE, <<>>), Put("serv_cell_index_r_16", T("ServCellIndex")),
       Put("serv_cell_info_r_16", T("ServCellInfoR16"))>>)]
FromUplinkTxDirectCurrentTwoCarrierInfoR16 ==
  [UplinkTxDirectCurrentTwoCarrierInfoR16 |-> Codec(
     <<ReadHeader(FALSE, 0), Get("reference_carrier_index_r_16", T("ServCellIndex")),
       Get("shift7dot5k_hz_r_16", T("BOOL")),
       Get("tx_direct_current_location_r_16", Num(0, 3301, FALSE, "u16"))>>,
     <<WriteHeader(FALSE, <<>>), Put("reference_carrier_index_r_16", T("ServCellIndex")),
       Put("shift7dot5k_hz_r_16", T("BOOL")),
       Put("tx_direct_current_location_r_16", Num(0, 3301, FALSE, "u16"))>>)]
FromFreqBandIndicatorEutra ==
  [FreqBandIndicatorEutra |-> Codec(
     <<Get("0", Num(1, 256, FALSE, "u16"))>>,
     <<Put("0", Num(1, 256, FALSE, "u16"))>>)]
FromMimoLayersDl ==
  [MimoLayersDl |-> Codec(<<ReadEnum(0, 2, FALSE, 3)>>, <<WriteEnum(0, 2, FALSE)>>),
   MimoLayersUl |-> Codec(<<ReadEnum(0, 2, FALSE, 3)>>, <<WriteEnum(0, 2, FALSE)>>)]
FromRatType ==
  [RatType |-> Codec(<<ReadEnum(0, 3, TRUE, 4)>>, <<WriteEnum(0, 3, TRUE)>>)]
FromUeCapabilityRatContainerList ==
  [UeCapabilityRatContainerList |-> Codec(
     <<Get("0", Vec(0, 8, T("UeCapabilityRatContainer")))>>,
     <<Put("0", Vec(0, 8, T("UeCapabilityRatContainer")))>>),
   UeCapabilityRatContainer |-> Codec(
     <<ReadHeader(FALSE, 0), Get("rat_type", T("RatType")),
       Get("ue_capability_rat_container", OctetString)>>,
     <<WriteHeader(FALSE, <<>>), Put("rat_type", T("RatType")),
       Put("ue_capability_rat_container", OctetString)>>),
   UeCapabilityRatRequestList |-> Codec(
     <<Get("0", NonEmpty(1, 8, T("UeCapabilityRatRequest")))>>,
     <<Put("0", NonEmpty(1, 8, T("UeCapabilityRatRequest")))>>),
   UeCapabilityRatRequest |-> Codec(
     <<ReadHeader(TRUE, 1), Get("rat_type", T("RatType")),
       GetIf(1, "capability_request_filter", OctetString)>>,
     <<WriteHeader(TRUE, <<"capability_request_filter">>), Put("rat_type", T("RatType")),
       PutIf("capability_request_filter", OctetString)>>)]
FromAbsoluteTimeInfoR16 ==
  [AbsoluteTimeInfoR16 |-> Codec(
     <<Get("0", Bits(48, 48, FALSE))>>,
     <<Put("0", Bits(48, 48, FALSE))>>),
   AreaConfigurationR16 |-> Codec(
     <<ReadHeader(FALSE, 1), Get("area_config_r_16", T("AreaConfigR16")),
       GetIf(1, "inter_freq_target_list_r_16", NonEmpty(1, 8, T("InterFreqTargetInfoR16")))>>,
     <<WriteHeader(FALSE, <<"inter_freq_target_list_r_16">>),
       Put("area_config_r_16", T("AreaConfigR16")),
       PutIf("inter_freq_target_list_r_16", NonEmpty(1, 8, T("InterFreqTargetInfoR16")))>>),
   AreaConfigR16 |-> Codec(
     <<ReadChoice(0, 2, FALSE, <<Alt(0, "CellGlobalIdListR16", T("CellGlobalIdListR16")),
       Alt(1, "TrackingAreaCodeListR16", T("TrackingAreaCodeListR16")),
       Alt(2, "TrackingAreaIdentityListR16", T("TrackingAreaIdentityListR16"))>>)>>,
     <<WriteChoice(0, 2, FALSE, <<Arm("CellGlobalIdListR16", 0, T("CellGlobalIdListR16")),
       Arm("TrackingAreaCodeListR16", 1, T("TrackingAreaCodeListR16")),
       Arm("TrackingAreaIdentityListR16", 2, T("TrackingAreaIdentityListR16"))>>)>>)]
FromInterFreqTargetInfoR16 ==
  [InterFreqTargetInfoR16 |-> Codec(
     <<ReadHeader(FALSE, 1), Get("dl_carrier_freq", T("ArfcnValueNr")),
       GetIf(1, "cell_list", NonEmpty(1, 32, T("PhysCellId")))>>,
     <<WriteHeader(FALSE, <<"cell_list">>), Put("dl_carrier_freq", T("ArfcnValueNr")),
       PutIf("cell_list", NonEmpty(1, 32, T("PhysCellId")))>>),
   CellGlobalIdListR16 |-> Codec(
     <<Get("0", NonEmpty(1, 32, T("CgiInfoLoggingR16")))>>,
     <<Put("0", NonEmpty(1, 32, T("CgiInfoLoggingR16")))>>),
   TrackingAreaCodeListR16 |-> Codec(
     <<Get("0", NonEmpty(1, 8, T("TrackingAreaCode")))>>,
     <<Put("0", NonEmpty(1, 8, T("TrackingAreaCode")))>>)]
FromTrackingAreaIdentityListR16 ==
  [TrackingAreaIdentityListR16 |-> Codec(
     <<Get("0", NonEmpty(1, 8, T("TrackingAreaIdentityR16")))>>,
     <<Put("0", NonEmpty(1, 8, T("TrackingAreaIdentityR16")))>>),
   TrackingAreaIdentityR16 |-> Codec(
     <<ReadHeader(FALSE, 0), Get("plmn_identity_r_16", T("PlmnIdentity")),
       Get("tracking_area_code_r_16", T("TrackingAreaCode"))>>,
     <<WriteHeader(FALSE, <<>>), Put("plmn_identity_r_16", T("PlmnIdentity")),
       Put("tracking_area_code_r_16", T("TrackingAreaCode"))>>),
   BtNameListR16 |-> Codec(
     <<Get("0", NonEmpty(1, 4, T("BtNameR16")))>>,
     <<Put("0", NonEmpty(1, 4, T("BtNameR16")))>>),
   BtNameR16 |-> Codec(<<Get("0", Octets(1, 248, FALSE))>>, <<Put("0", Octets(1, 248, FALSE))>>)]
FromEutraAllowedMeasBandwidth ==
  [EutraAllowedMeasBandwidth |-> Codec(<<ReadEnum(0, 5, FALSE, 6)>>, <<WriteEnum(0, 5, FALSE)>>)]
FromEutraPhysCellId ==
  [EutraPhysCellId |-> Codec(
     <<Get("0", Num(0, 503, FALSE, "u16"))>>,
     <<Put("0", Num(0, 503, FALSE, "u16"))>>),
   EutraPhysCellIdRange |-> Codec(
     <<ReadHeader(FALSE, 1), Get("start", T("EutraPhysCellId")), GetIf(1, "range", T("Range1"))>>,
     <<WriteHeader(FALSE, <<"range">>), Put("start", T("EutraPhysCellId")),
       PutIf("range", T("Range1"))>>)]
FromIabIpAddressR16 ==
  [IabIpAddressR16 |-> Codec(
     <<ReadChoice(0, 2, TRUE, <<Alt(0, "IPv4AddressR16", Bits(32, 32, FALSE)),
       Alt(1, "IPv6AddressR16", Bits(128, 128, FALSE)),
       Alt(2, "IPv6PrefixR16", Bits(64, 64, FALSE))>>)>>,
     <<WriteChoice(0, 2, TRUE, <<Arm("IPv4AddressR16", 0, Bits(32, 32, FALSE)),
       Arm("IPv6AddressR16", 1, Bits(128, 128, FALSE)),
       Arm("IPv6PrefixR16", 2, Bits(64, 64, FALSE))>>)>>),
   IabIpAddressIndexR16 |-> Codec(
     <<Get("0", Num(1, 32, FALSE, "u8"))>>,
     <<Put("0", Num(1, 32, FALSE, "u8"))>>),
   IabIpUsageR16 |-> Codec(<<ReadEnum(0, 3, FALSE, 4)>>, <<WriteEnum(0, 3, FALSE)>>)]
FromLoggingDurationR16 ==
  [LoggingDurationR16 |-> Codec(<<ReadEnum(0, 7, FALSE, 8)>>, <<WriteEnum(0, 7, FALSE)>>),
   LoggingIntervalR16 |-> Codec(<<ReadEnum(0, 10, FALSE, 11)>>, <<WriteEnum(0, 10, FALSE)>>),
   LogMeasResultListBtR16 |-> Codec(
     <<Get("0", NonEmpty(1, 32, T("LogMeasResultBtR16")))>>,
     <<Put("0", NonEmpty(1, 32, T("LogMeasResultBtR16")))>>),
   LogMeasResultBtR16 |-> Codec(
     <<ReadHeader(TRUE, 1), Get("bt_addr_r_16", Bits(48, 48, FALSE)),
       GetIf(1, "rssi_bt_r_16", Num(-128, 127, FALSE, "i8"))>>,
     <<WriteHeader(TRUE, <<"rssi_bt_r_16">>), Put("bt_addr_r_16", Bits(48, 48, FALSE)),
       PutIf("rssi_bt_r_16", Num(-128, 127, FALSE, "i8"))>>)]
FromLogMeasResultListWlanR16 ==
  [LogMeasResultListWlanR16 |-> Codec(
     <<Get("0", NonEmpty(1, 32, T("LogMeasResultWlanR16")))>>,
     <<Put("0", NonEmpty(1, 32, T("LogMeasResultWlanR16")))>>),
   LogMeasResultWlanR16 |-> Codec(
     <<ReadHeader(TRUE, 2), Get("wlan_identifiers_r_16", T("WlanIdentifiersR16")),
       GetIf(1, "rssi_wlan_r_16", T("WlanRssiRangeR16")),
       GetIf(2, "rtt_wlan_r_16", T("WlanRttR16"))>>,
     <<WriteHeader(TRUE, <<"rssi_wlan_r_16", "rtt_wlan_r_16">>),
       Put("wlan_identifiers_r_16", T("WlanIdentifiersR16")),
       PutIf("rssi_wlan_r_16", T("WlanRssiRangeR16")), PutIf("rtt_wlan_r_16", T("WlanRttR16"))>>),
   WlanIdentifiersR16 |-> Codec(
     <<ReadHeader(TRUE, 3), GetIf(1, "ssid_r_16", Octets(1, 32, FALSE)),
       GetIf(2, "bssid_r_16", OctetArray(6, 6, FALSE, 6)),
       GetIf(3, "hessid_r_16", OctetArray(6, 6, FALSE, 6))>>,
     <<WriteHeader(TRUE, <<"ssid_r_16", "bssid_r_16", "hessid_r_16">>),
       PutIf("ssid_r_16", Octets(1, 32, FALSE)), PutIf("bssid_r_16", OctetArray(6, 6, FALSE, 6)),
       PutIf("hessid_r_16", OctetArray(6, 6, FALSE, 6))>>)]
FromWlanRssiRangeR16 ==
  [WlanRssiRangeR16 |-> Codec(
     <<Get("0", Num(0, 141, FALSE, "u8"))>>,
     <<Put("0", Num(0, 141, FALSE, "u8"))>>),
   WlanRttR16 |-> Codec(
     <<ReadHeader(TRUE, 1), Get("rtt_value_r_16", Num(0, 16777215, FALSE, "u32")),
       Get("rtt_units_r_16", T("RttUnitsR16")),
       GetIf(1, "rtt_accuracy_r_16", Num(0, 255, FALSE, "u8"))>>,
     <<WriteHeader(TRUE, <<"rtt_accuracy_r_16">>),
       Put("rtt_value_r_16", Num(0, 16777215, FALSE, "u32")),
       Put("rtt_units_r_16", T("RttUnitsR16")),
       PutIf("rtt_accuracy_r_16", Num(0, 255, FALSE, "u8"))>>),
   OtherConfig |-> Codec(
     <<ReadHeader(FALSE, 1),
       GetIf(1, "delay_budget_reporting_config", T("DelayBudgetReportingConfig"))>>,
     <<WriteHeader(FALSE, <<"delay_budget_reporting_config">>),
       PutIf("delay_budget_reporting_config", T("DelayBudgetReportingConfig"))>>)]
FromOtherConfigV1540 ==
  [OtherConfigV1540 |-> Codec(
     <<ReadHeader(TRUE, 1),
       GetIf(1, "overheating_assistance_config", SetupRelease("OverheatingAssistanceConfig"))>>,
     <<WriteHeader(TRUE, <<"overheating_assistance_config">>),
       PutIf("overheating_assistance_config", SetupRelease("OverheatingAssistanceConfig"))>>),
   CandidateServingFreqListNrR16 |-> Codec(
     <<Get("0", NonEmpty(1, 128, T("ArfcnValueNr")))>>,
     <<Put("0", NonEmpty(1, 128, T("ArfcnValueNr")))>>),
   OtherConfigV1610 |-> Codec(
     <<ReadHeader(FALSE, 13),
       GetIf(1, "idc_assistance_config_r_16", SetupRelease("IdcAssistanceConfigR16")),
       GetIf(2, "drx_preference_config_r_16", SetupRelease("DrxPreferenceConfigR16")),
       GetIf(3, "max_bw_preference_config_r_16", SetupRelease("MaxBwPreferenceConfigR16")),
       GetIf(4, "max_cc_preference_config_r_16", SetupRelease("MaxCcPreferenceConfigR16")),
       GetIf(5, "max_mimo_layer_preference_config_r_16", SetupRelease("MaxMimoLayerPreferenceConfigR16")),
       GetIf(6, "min_scheduling_offset_preference_config_r_16", SetupRelease("MinSchedulingOffsetPreferenceConfigR16")),
       GetIf(7, "release_preference_config_r_16", SetupRelease("ReleasePreferenceConfigR16")),
       GetIf(8, "reference_time_preference_reporting_r_16", T("ReferenceTimePreferenceReportingR16")),
       GetIf(9, "bt_name_list_r_16", SetupRelease("BtNameListR16")),
       GetIf(10, "wlan_name_list_r_16", SetupRelease("WlanNameListR16")),
       GetIf(11, "sensor_name_list_r_16", SetupRelease("SensorNameListR16")),
       GetIf(12, "obtain_common_location_r_16", T("ObtainCommonLocationR16")),
       GetIf(13, "sl_assistance_config_nr_r_16", T("SlAssistanceConfigNrR16"))>>,
     <<WriteHeader(FALSE, <<"idc_assistance_config_r_16", "drx_preference_config_r_16",
       "max_bw_preference_config_r_16", "max_cc_preference_config_r_16",
       "max_mimo_layer_preference_config_r_16", "min_scheduling_offset_preference_config_r_16",
       "release_preference_config_r_16", "reference_time_preference_reporting_r_16",
       "bt_name_list_r_16", "wlan_name_list_r_16", "sensor_name_list_r_16",
       "obtain_common_location_r_16", "sl_assistance_config_nr_r_16">>),
       PutIf("idc_assistance_config_r_16", SetupRelease("IdcAssistanceConfigR16")),
       PutIf("drx_preference_config_r_16", SetupRelease("DrxPreferenceConfigR16")),
       PutIf("max_bw_preference_config_r_16", SetupRelease("MaxBwPreferenceConfigR16")),
       PutIf("max_cc_preference_config_r_16", SetupRelease("MaxCcPreferenceConfigR16")),
       PutIf("max_mimo_layer_preference_config_r_16", SetupRelease("MaxMimoLayerPreferenceConfigR16")),
       PutIf("min_scheduling_offset_preference_config_r_16", SetupRelease("MinSchedulingOffsetPreferenceConfigR16")),
       PutIf("release_preference_config_r_16", SetupRelease("ReleasePreferenceConfigR16")),
       PutIf("reference_time_preference_reporting_r_16", T("ReferenceTimePreferenceReportingR16")),
       PutIf("bt_name_list_r_16", SetupRelease("BtNameListR16")),
       PutIf("wlan_name_list_r_16", SetupRelease("WlanNameListR16")),
       PutIf("sensor_name_list_r_16", SetupRelease("SensorNameListR16")),
       PutIf("obtain_common_location_r_16", T("ObtainCommonLocationR16")),
       PutIf("sl_assistance_config_nr_r_16", T("SlAssistanceConfigNrR16"))>>)]
FromOverheatingAssistanceConfig ==
  [OverheatingAssistanceConfig |-> Codec(
     <<ReadHeader(FALSE, 0),
       Get("overheating_indication_prohibit_timer", T("OverheatingIndicationProhibitTimer"))>>,
     <<WriteHeader(FALSE, <<>>),
       Put("overheating_indication_prohibit_timer", T("OverheatingIndicationProhibitTimer"))>>),
   IdcAssistanceConfigR16 |-> Codec(
     <<ReadHeader(TRUE, 1),
       GetIf(1, "candidate_serving_freq_list_nr_r_16", T("CandidateServingFreqListNrR16"))>>,
     <<WriteHeader(TRUE, <<"candidate_serving_freq_list_nr_r_16">>),
       PutIf("candidate_serving_freq_list_nr_r_16", T("CandidateServingFreqListNrR16"))>>),
   DrxPreferenceConfigR16 |-> Codec(
     <<ReadHeader(FALSE, 0),
       Get("drx_preference_prohibit_timer_r_16", T("DrxPreferenceProhibitTimerR16"))>>,
     <<WriteHeader(FALSE, <<>>),
       Put("drx_preference_prohibit_timer_r_16", T("DrxPreferenceProhibitTimerR16"))>>),
   MaxBwPreferenceConfigR16 |-> Codec(
     <<ReadHeader(FALSE, 0),
       Get("max_bw_preference_prohibit_timer_r_16", T("MaxBwPreferenceProhibitTimerR16"))>>,
     <<WriteHeader(FALSE, <<>>),
       Put("max_bw_preference_prohibit_timer_r_16", T("MaxBwPreferenceProhibitTimerR16"))>>)]
FromMaxCcPreferenceConfigR16 ==
  [MaxCcPreferenceConfigR16 |-> Codec(
     <<ReadHeader(FALSE, 0),
       Get("max_cc_preference_prohibit_timer_r_16", T("MaxCcPreferenceProhibitTimerR16"))>>,
     <<WriteHeader(FALSE, <<>>),
       Put("max_cc_preference_prohibit_timer_r_16", T("MaxCcPreferenceProhibitTimerR16"))>>),
   MaxMimoLayerPreferenceConfigR16 |-> Codec(
     <<ReadHeader(FALSE, 0),
       Get("max_mimo_layer_preference_prohibit_timer_r_16", T("MaxMimoLayerPreferenceProhibitTimerR16"))>>,
     <<WriteHeader(FALSE, <<>>),
       Put("max_mimo_layer_preference_prohibit_timer_r_16", T("MaxMimoLayerPreferenceProhibitTimerR16"))>>),
   MinSchedulingOffsetPreferenceConfigR16 |-> Codec(
     <<ReadHeader(FALSE, 0),
       Get("min_scheduling_offset_preference_prohibit_timer_r_16", T("MinSchedulingOffsetPreferenceProhibitTimerR16"))>>,
     <<WriteHeader(FALSE, <<>>),
       Put("min_scheduling_offset_preference_prohibit_timer_r_16", T("MinSchedulingOffsetPreferenceProhibitTimerR16"))>>),
   ReleasePreferenceConfigR16 |-> Codec(
     <<ReadHeader(FALSE, 1),
       Get("release_preference_prohibit_timer_r_16", T("ReleasePreferenceProhibitTimerR16")),
       GetIf(1, "connected_reporting", T("ConnectedReporting"))>>,
     <<WriteHeader(FALSE, <<"connected_reporting">>),
       Put("release_preference_prohibit_timer_r_16", T("ReleasePreferenceProhibitTimerR16")),
       PutIf("connected_reporting", T("ConnectedReporting"))>>)]
FromPhysCellIdUtraFddR16 ==
  [PhysCellIdUtraFddR16 |-> Codec(
     <<Get("0", Num(0, 511, FALSE, "u16"))>>,
     <<Put("0", Num(0, 511, FALSE, "u16"))>>),
   RrcTransactionIdentifier |-> Codec(
     <<Get("0", Num(0, 3, FALSE, "u8"))>>,
     <<Put("0", Num(0, 3, FALSE, "u8"))>>),
   SensorNameListR16 |-> Codec(
     <<ReadHeader(FALSE, 3), GetIf(1, "meas_uncom_bar_pre_r_16", T("MeasUncomBarPreR16")),
       GetIf(2, "meas_ue_speed", T("MeasUeSpeed")),
       GetIf(3, "meas_ue_orientation", T("MeasUeOrientation"))>>,
     <<WriteHeader(FALSE, <<"meas_uncom_bar_pre_r_16", "meas_ue_speed", "meas_ue_orientation">>),
       PutIf("meas_uncom_bar_pre_r_16", T("MeasUncomBarPreR16")),
       PutIf("meas_ue_speed", T("MeasUeSpeed")),
       PutIf("meas_ue_orientation", T("MeasUeOrientation"))>>),
   TraceReferenceR16 |-> Codec(
     <<ReadHeader(FALSE, 0), Get("plmn_identity_r_16", T("PlmnIdentity")),
       Get("trace_id_r_16", OctetArray(3, 3, FALSE, 3))>>,
     <<WriteHeader(FALSE, <<>>), Put("plmn_identity_r_16", T("PlmnIdentity")),
       Put("trace_id_r_16", OctetArray(3, 3, FALSE, 3))>>)]
FromUeMeasurementsAvailableR16 ==
  [UeMeasurementsAvailableR16 |-> Codec(
     <<ReadHeader(TRUE, 5), GetIf(1, "log_meas_available_r_16", T("LogMeasAvailableR16_1")),
       GetIf(2, "log_meas_available_bt_r_16", T("LogMeasAvailableBtR16_1")),
       GetIf(3, "log_meas_available_wlan_r_16", T("LogMeasAvailableWlanR16_1")),
       GetIf(4, "conn_est_fail_info_available_r_16", T("ConnEstFailInfoAvailableR16")),
       GetIf(5, "rlf_info_available_r_16", T("RlfInfoAvailableR16"))>>,
     <<WriteHeader(TRUE, <<"log_meas_available_r_16", "log_meas_available_bt_r_16",
       "log_meas_available_wlan_r_16", "conn_est_fail_info_available_r_16",
       "rlf_info_available_r_16">>), PutIf("log_meas_available_r_16", T("LogMeasAvailableR16_1")),
       PutIf("log_meas_available_bt_r_16", T("LogMeasAvailableBtR16_1")),
       PutIf("log_meas_available_wlan_r_16", T("LogMeasAvailableWlanR16_1")),
       PutIf("conn_est_fail_info_available_r_16", T("ConnEstFailInfoAvailableR16")),
       PutIf("rlf_info_available_r_16", T("RlfInfoAvailableR16"))>>)]
FromVisitedCellInfoListR16 ==
  [VisitedCellInfoListR16 |-> Codec(
     <<Get("0", NonEmpty(1, 16, T("VisitedCellInfoR16")))>>,
     <<Put("0", NonEmpty(1, 16, T("VisitedCellInfoR16")))>>),
   VisitedCellInfoR16 |-> Codec(
     <<ReadHeader(TRUE, 1), GetIf(1, "visited_cell_id_r_16", T("VisitedCellIdR16")),
       Get("time_spent_r_16", Num(0, 4095, FALSE, "u16"))>>,
     <<WriteHeader(TRUE, <<"visited_cell_id_r_16">>),
       PutIf("visited_cell_id_r_16", T("VisitedCellIdR16")),
       Put("time_spent_r_16", Num(0, 4095, FALSE, "u16"))>>),
   WlanNameListR16 |-> Codec(
     <<Get("0", NonEmpty(1, 4, T("WlanNameR16")))>>,
     <<Put("0", NonEmpty(1, 4, T("WlanNameR16")))>>)]
FromWlanNameR16 ==
  [WlanNameR16 |-> Codec(<<Get("0", Octets(1, 32, FALSE))>>, <<Put("0", Octets(1, 32, FALSE))>>)]

Codecs == {FromPMax, FromPciRangeIndex, FromPdcpConfig, FromUlDataSplitThreshold, FromPhysCellId,
  FromPlmnIdentity, FromPlmnIdentityList2R16, FromPucchResourceId, FromQOffsetRange,
  FromQuantityConfigNr, FromRadioBearerConfig, FromDrbToAddModList, FromSecurityConfig,
  FromRanAreaCode, FromReferenceTimeInfoR16, FromRejectWaitTime, FromReportConfigId,
  FromReportConfigNr, FromEventTriggerConfig, FromNrRsType, FromMeasReportQuantity,
  FromReportConfigToAddModList, FromReselectionThresholdQ, FromTPollRetransmit, FromPollByte,
  FromSnFieldLengthUm, FromRntiValue, FromSchedulingRequestId, FromScsSpecificCarrier, FromQfi,
  FromSecurityAlgorithmConfig, FromSensorLocationInfoR16, FromShortIRntiValue, FromSkCounter,
  FromSnssai, FromSrbIdentity, FromSsbIndex, FromSsbToMeasure, FromTddUlDlConfigCommon,
  FromTrackingAreaCode, FromUplinkTxDirectCurrentList, FromUplinkTxDirectCurrentTwoCarrierListR16,
  FromUplinkTxDirectCurrentTwoCarrierInfoR16, FromFreqBandIndicatorEutra, FromMimoLayersDl,
  FromRatType, FromUeCapabilityRatContainerList, FromAbsoluteTimeInfoR16,
  FromInterFreqTargetInfoR16, FromTrackingAreaIdentityListR16, FromEutraAllowedMeasBandwidth,
  FromEutraPhysCellId, FromIabIpAddressR16, FromLoggingDurationR16, FromLogMeasResultListWlanR16,
  FromWlanRssiRangeR16, FromOtherConfigV1540, FromOverheatingAssistanceConfig,
  FromMaxCcPreferenceConfigR16, FromPhysCellIdUtraFddR16, FromUeMeasurementsAvailableR16,
  FromVisitedCellInfoListR16, FromWlanNameR16}
=============================================================================
