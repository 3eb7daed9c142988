--------------------------- MODULE RrcInnerOfIes ---------------------------
(***************************************************************************)
(* The programs of the codecs of rrc/src/rrc.rs that a message of the CCCH *)
(* or the DCCH, in either direction, or SIB2 may hold: the types declared  *)
(* inside its information elements.                                        *)
(***************************************************************************)
EXTENDS PerLayout

FromPeriodicBsrTimer ==
  [PeriodicBsrTimer |-> Codec(<<ReadEnum(0, 15, FALSE, 16)>>, <<WriteEnum(0, 15, FALSE)>>),
   RetxBsrTimer |-> Codec(<<ReadEnum(0, 15, FALSE, 16)>>, <<WriteEnum(0, 15, FALSE)>>),
   LogicalChannelSrDelayTimer |-> Codec(<<ReadEnum(0, 7, FALSE, 8)>>, <<WriteEnum(0, 7, FALSE)>>)]
FromCyclicPrefix ==
  [CyclicPrefix |-> Codec(<<ReadEnum(0, 0, FALSE, 1)>>, <<WriteEnum(0, 0, FALSE)>>)]
FromCgiInfoEpc ==
  [CgiInfoEpc |-> Codec(
     <<ReadHeader(FALSE, 1), Get("cgi_info_epc_legacy", T("CellAccessRelatedInfoEutraEpc")),
       GetIf(1, "cgi_info_epc_list", NonEmpty(1, 12, T("CellAccessRelatedInfoEutraEpc")))>>,
     <<WriteHeader(FALSE, <<"cgi_info_epc_list">>),
       Put("cgi_info_epc_legacy", T("CellAccessRelatedInfoEutraEpc")),
       PutIf("cgi_info_epc_list", NonEmpty(1, 12, T("CellAccessRelatedInfoEutraEpc")))>>),
   FreqBandIndicatorPriority |-> Codec(<<ReadEnum(0, 0, FALSE, 1)>>, <<WriteEnum(0, 0, FALSE)>>)]
FromAttemptCondReconfigR16 ==
  [AttemptCondReconfigR16 |-> Codec(<<ReadEnum(0, 0, FALSE, 1)>>, <<WriteEnum(0, 0, FALSE)>>)]
FromNrofPrBs ==
  [NrofPrBs |-> Codec(<<ReadEnum(0, 4, FALSE, 5)>>, <<WriteEnum(0, 4, FALSE)>>),
   CsiRsMeasurementBw |-> Codec(
     <<ReadHeader(FALSE, 0), Get("nrof_pr_bs", T("NrofPrBs")),
       Get("start_prb", Num(0, 2169, FALSE, "u16"))>>,
     <<WriteHeader(FALSE, <<>>), Put("nrof_pr_bs", T("NrofPrBs")),
       Put("start_prb", Num(0, 2169, FALSE, "u16"))>>),
   Density |-> Codec(<<ReadEnum(0, 1, FALSE, 2)>>, <<WriteEnum(0, 1, FALSE)>>),
   SlotConfig |-> Codec(
     <<ReadChoice(0, 4, FALSE, <<Alt(0, "Ms4", Num(0, 31, FALSE, "u8")),
       Alt(1, "Ms5", Num(0, 39, FALSE, "u8")), Alt(2, "Ms10", Num(0, 79, FALSE, "u8")),
       Alt(3, "Ms20", Num(0, 159, FALSE, "u8")), Alt(4, "Ms40", Num(0, 319, FALSE, "u16"))>>)>>,
     <<WriteChoice(0, 4, FALSE, <<Arm("Ms4", 0, Num(0, 31, FALSE, "u8")),
       Arm("Ms5", 1, Num(0, 39, FALSE, "u8")), Arm("Ms10", 2, Num(0, 79, FALSE, "u8")),
       Arm("Ms20", 3, Num(0, 159, FALSE, "u8")), Arm("Ms40", 4, Num(0, 319, FALSE, "u16"))>>)>>)]
FromAssociatedSsb ==
  [AssociatedSsb |-> Codec(
     <<ReadHeader(FALSE, 0), Get("ssb_index", T("SsbIndex")), Get("is_quasi_colocated", T("BOOL"))>>,
     <<WriteHeader(FALSE, <<>>), Put("ssb_index", T("SsbIndex")),
       Put("is_quasi_colocated", T("BOOL"))>>),
   FrequencyDomainAllocation |-> Codec(
     <<ReadChoice(0, 1, FALSE, <<Alt(0, "Row1", Bits(4, 4, FALSE)),
       Alt(1, "Row2", Bits(12, 12, FALSE))>>)>>,
     <<WriteChoice(0, 1, FALSE, <<Arm("Row1", 0, Bits(4, 4, FALSE)),
       Arm("Row2", 1, Bits(12, 12, FALSE))>>)>>)]
FromSMeasureConfig ==
  [SMeasureConfig |-> Codec(
     <<ReadChoice(0, 1, FALSE, <<Alt(0, "SsbRsrp", T("RsrpRange")),
       Alt(1, "CsiRsrp", T("RsrpRange"))>>)>>,
     <<WriteChoice(0, 1, FALSE, <<Arm("SsbRsrp", 0, T("RsrpRange")),
       Arm("CsiRsrp", 1, T("RsrpRange"))>>)>>),
   Mgl |-> Codec(<<ReadEnum(0, 5, FALSE, 6)>>, <<WriteEnum(0, 5, FALSE)>>),
   Mgrp |-> Codec(<<ReadEnum(0, 3, FALSE, 4)>>, <<WriteEnum(0, 3, FALSE)>>),
   Mgta |-> Codec(<<ReadEnum(0, 2, FALSE, 3)>>, <<WriteEnum(0, 2, FALSE)>>)]
FromMeasIdleDurationR16 ==
  [MeasIdleDurationR16 |-> Codec(<<ReadEnum(0, 7, FALSE, 8)>>, <<WriteEnum(0, 7, FALSE)>>),
   ReportQuantitiesR16 |-> Codec(<<ReadEnum(0, 2, FALSE, 3)>>, <<WriteEnum(0, 2, FALSE)>>),
   QualityThresholdR16 |-> Codec(
     <<ReadHeader(FALSE, 2), GetIf(1, "idle_rsrp_threshold_nr_r_16", T("RsrpRange")),
       GetIf(2, "idle_rsrq_threshold_nr_r_16", T("RsrqRange"))>>,
     <<WriteHeader(FALSE, <<"idle_rsrp_threshold_nr_r_16", "idle_rsrq_threshold_nr_r_16">>),
       PutIf("idle_rsrp_threshold_nr_r_16", T("RsrpRange")),
       PutIf("idle_rsrq_threshold_nr_r_16", T("RsrqRange"))>>)]
FromSsbMeasConfigR16 ==
  [SsbMeasConfigR16 |-> Codec(
     <<ReadHeader(FALSE, 5), GetIf(1, "nrof_ss_blocks_to_average_r_16", Num(2, 16, FALSE, "u8")),
       GetIf(2, "abs_thresh_ss_blocks_consolidation_r_16", T("ThresholdNr")),
       GetIf(3, "smtc_r_16", T("SsbMtc")), GetIf(4, "ssb_to_measure_r_16", T("SsbToMeasure")),
       Get("derive_ssb_index_from_cell_r_16", T("BOOL")),
       GetIf(5, "ss_rssi_measurement_r_16", T("SsRssiMeasurement"))>>,
     <<WriteHeader(FALSE, <<"nrof_ss_blocks_to_average_r_16",
       "abs_thresh_ss_blocks_consolidation_r_16", "smtc_r_16", "ssb_to_measure_r_16",
       "ss_rssi_measurement_r_16">>),
       PutIf("nrof_ss_blocks_to_average_r_16", Num(2, 16, FALSE, "u8")),
       PutIf("abs_thresh_ss_blocks_consolidation_r_16", T("ThresholdNr")),
       PutIf("smtc_r_16", T("SsbMtc")), PutIf("ssb_to_measure_r_16", T("SsbToMeasure")),
       Put("derive_ssb_index_from_cell_r_16", T("BOOL")),
       PutIf("ss_rssi_measurement_r_16", T("SsRssiMeasurement"))>>),
   ReportQuantitiesEutraR16 |-> Codec(<<ReadEnum(0, 2, FALSE, 3)>>, <<WriteEnum(0, 2, FALSE)>>),
   QualityThresholdEutraR16 |-> Codec(
     <<ReadHeader(FALSE, 2), GetIf(1, "idle_rsrp_threshold_eutra_r_16", T("RsrpRangeEutra")),
       GetIf(2, "idle_rsrq_threshold_eutra_r_16", T("RsrqRangeEutraR16"))>>,
     <<WriteHeader(FALSE, <<"idle_rsrp_threshold_eutra_r_16", "idle_rsrq_threshold_eutra_r_16">>),
       PutIf("idle_rsrp_threshold_eutra_r_16", T("RsrpRangeEutra")),
       PutIf("idle_rsrq_threshold_eutra_r_16", T("RsrqRangeEutraR16"))>>)]
FromReportQuantityRsIndexesR16 ==
  [ReportQuantityRsIndexesR16 |-> Codec(<<ReadEnum(0, 2, FALSE, 3)>>, <<WriteEnum(0, 2, FALSE)>>)]
FromMeasObject ==
  [MeasObject |-> Codec(
     <<ReadChoice(0, 0, TRUE, <<Alt(0, "MeasObjectNr", T("MeasObjectNr"))>>)>>,
     <<WriteChoice(0, 0, TRUE, <<Arm("MeasObjectNr", 0, T("MeasObjectNr"))>>)>>),
   MeasResultNeighCells |-> Codec(
     <<ReadChoice(0, 0, TRUE, <<Alt(0, "MeasResultListNr", T("MeasResultListNr"))>>)>>,
     <<WriteChoice(0, 0, TRUE, <<Arm("MeasResultListNr", 0, T("MeasResultListNr"))>>)>>),
   CellResults |-> Codec(
     <<ReadHeader(FALSE, 2), GetIf(1, "results_ssb_cell", T("MeasQuantityResults")),
       GetIf(2, "results_csi_rs_cell", T("MeasQuantityResults"))>>,
     <<WriteHeader(FALSE, <<"results_ssb_cell", "results_csi_rs_cell">>),
       PutIf("results_ssb_cell", T("MeasQuantityResults")),
       PutIf("results_csi_rs_cell", T("MeasQuantityResults"))>>)]
FromRsIndexResults ==
  [RsIndexResults |-> Codec(
     <<ReadHeader(FALSE, 2), GetIf(1, "results_ssb_indexes", T("ResultsPerSsbIndexList")),
       GetIf(2, "results_csi_rs_indexes", T("ResultsPerCsiRsIndexList"))>>,
     <<WriteHeader(FALSE, <<"results_ssb_indexes", "results_csi_rs_indexes">>),
       PutIf("results_ssb_indexes", T("ResultsPerSsbIndexList")),
       PutIf("results_csi_rs_indexes", T("ResultsPerCsiRsIndexList"))>>),
   MeasResult |-> Codec(
     <<ReadHeader(FALSE, 1), Get("cell_results", T("CellResults")),
       GetIf(1, "rs_index_results", T("RsIndexResults"))>>,
     <<WriteHeader(FALSE, <<"rs_index_results">>), Put("cell_results", T("CellResults")),
       PutIf("rs_index_results", T("RsIndexResults"))>>),
   MeasResultR16_2 |-> Codec(
     <<ReadHeader(FALSE, 2), GetIf(1, "utra_fdd_rscp_r_16", Num(-5, 91, FALSE, "i8")),
       GetIf(2, "utra_fdd_ec_n0_r_16", Num(0, 49, FALSE, "u8"))>>,
     <<WriteHeader(FALSE, <<"utra_fdd_rscp_r_16", "utra_fdd_ec_n0_r_16">>),
       PutIf("utra_fdd_rscp_r_16", Num(-5, 91, FALSE, "i8")),
       PutIf("utra_fdd_ec_n0_r_16", Num(0, 49, FALSE, "u8"))>>)]
FromMeasIdleResultEutraR16 ==
  [MeasIdleResultEutraR16 |-> Codec(
     <<ReadHeader(FALSE, 2), GetIf(1, "rsrp_result_eutra_r_16", T("RsrpRangeEutra")),
       GetIf(2, "rsrq_result_eutra_r_16", T("RsrqRangeEutraR16"))>>,
     <<WriteHeader(FALSE, <<"rsrp_result_eutra_r_16", "rsrq_result_eutra_r_16">>),
       PutIf("rsrp_result_eutra_r_16", T("RsrpRangeEutra")),
       PutIf("rsrq_result_eutra_r_16", T("RsrqRangeEutraR16"))>>),
   MeasResultServingCellR16_1 |-> Codec(
     <<ReadHeader(FALSE, 3), GetIf(1, "rsrp_result_r_16", T("RsrpRange")),
       GetIf(2, "rsrq_result_r_16", T("RsrqRange")),
       GetIf(3, "results_ssb_indexes_r_16", T("ResultsPerSsbIndexListR16"))>>,
     <<WriteHeader(FALSE, <<"rsrp_result_r_16", "rsrq_result_r_16", "results_ssb_indexes_r_16">>),
       PutIf("rsrp_result_r_16", T("RsrpRange")), PutIf("rsrq_result_r_16", T("RsrqRange")),
       PutIf("results_ssb_indexes_r_16", T("ResultsPerSsbIndexListR16"))>>),
   MeasIdleResultNrR16 |-> Codec(
     <<ReadHeader(FALSE, 3), GetIf(1, "rsrp_result_r_16", T("RsrpRange")),
       GetIf(2, "rsrq_result_r_16", T("RsrqRange")),
       GetIf(3, "results_ssb_indexes_r_16", T("ResultsPerSsbIndexListR16"))>>,
     <<WriteHeader(FALSE, <<"rsrp_result_r_16", "rsrq_result_r_16", "results_ssb_indexes_r_16">>),
       PutIf("rsrp_result_r_16", T("RsrpRange")), PutIf("rsrq_result_r_16", T("RsrqRange")),
       PutIf("results_ssb_indexes_r_16", T("ResultsPerSsbIndexListR16"))>>)]
FromSsbResultsR16 ==
  [SsbResultsR16 |-> Codec(
     <<ReadHeader(FALSE, 2), GetIf(1, "ssb_rsrp_result_r_16", T("RsrpRange")),
       GetIf(2, "ssb_rsrq_result_r_16", T("RsrqRange"))>>,
     <<WriteHeader(FALSE, <<"ssb_rsrp_result_r_16", "ssb_rsrq_result_r_16">>),
       PutIf("ssb_rsrp_result_r_16", T("RsrpRange")),
       PutIf("ssb_rsrq_result_r_16", T("RsrqRange"))>>)]
FromTEvaluation ==
  [TEvaluation |-> Codec(<<ReadEnum(0, 7, FALSE, 8)>>, <<WriteEnum(0, 7, FALSE)>>),
   THystNormal |-> Codec(<<ReadEnum(0, 7, FALSE, 8)>>, <<WriteEnum(0, 7, FALSE)>>)]
FromGapIndicationIntraR16 ==
  [GapIndicationIntraR16 |-> Codec(<<ReadEnum(0, 1, FALSE, 2)>>, <<WriteEnum(0, 1, FALSE)>>),
   GapIndicationR16 |-> Codec(<<ReadEnum(0, 1, FALSE, 2)>>, <<WriteEnum(0, 1, FALSE)>>)]
FromRange ==
  [Range |-> Codec(<<ReadEnum(0, 15, FALSE, 16)>>, <<WriteEnum(0, 15, FALSE)>>),
   DiscardTimer |-> Codec(<<ReadEnum(0, 15, FALSE, 16)>>, <<WriteEnum(0, 15, FALSE)>>),
   PdcpSnSizeUl |-> Codec(<<ReadEnum(0, 1, FALSE, 2)>>, <<WriteEnum(0, 1, FALSE)>>)]
FromPdcpSnSizeDl ==
  [PdcpSnSizeDl |-> Codec(<<ReadEnum(0, 1, FALSE, 2)>>, <<WriteEnum(0, 1, FALSE)>>),
   Profiles |-> Codec(
     <<ReadHeader(FALSE, 0), Get("profile0x_0001", T("BOOL")), Get("profile0x_0002", T("BOOL")),
       Get("profile0x_0003", T("BOOL")), Get("profile0x_0004", T("BOOL")),
       Get("profile0x_0006", T("BOOL")), Get("profile0x_0101", T("BOOL")),
       Get("profile0x_0102", T("BOOL")), Get("profile0x_0103", T("BOOL")),
       Get("profile0x_0104", T("BOOL"))>>,
     <<WriteHeader(FALSE, <<>>), Put("profile0x_0001", T("BOOL")), Put("profile0x_0002", T("BOOL")),
       Put("profile0x_0003", T("BOOL")), Put("profile0x_0004", T("BOOL")),
       Put("profile0x_0006", T("BOOL")), Put("profile0x_0101", T("BOOL")),
       Put("profile0x_0102", T("BOOL")), Put("profile0x_0103", T("BOOL")),
       Put("profile0x_0104", T("BOOL"))>>),
   DrbContinueRohc |-> Codec(<<ReadEnum(0, 0, FALSE, 1)>>, <<WriteEnum(0, 0, FALSE)>>)]
FromRohc ==
  [Rohc |-> Codec(
     <<ReadHeader(FALSE, 2), GetIf(1, "max_cid", Num(1, 16383, FALSE, "u16")),
       Get("profiles", T("Profiles")), GetIf(2, "drb_continue_rohc", T("DrbContinueRohc"))>>,
     <<WriteHeader(FALSE, <<"max_cid", "drb_continue_rohc">>),
       PutIf("max_cid", Num(1, 16383, FALSE, "u16")), Put("profiles", T("Profiles")),
       PutIf("drb_continue_rohc", T("DrbContinueRohc"))>>),
   Profiles1 |-> Codec(
     <<ReadHeader(FALSE, 0), Get("profile0x_0006", T("BOOL"))>>,
     <<WriteHeader(FALSE, <<>>), Put("profile0x_0006", T("BOOL"))>>),
   DrbContinueRohc1 |-> Codec(<<ReadEnum(0, 0, FALSE, 1)>>, <<WriteEnum(0, 0, FALSE)>>)]
FromUplinkOnlyRohc ==
  [UplinkOnlyRohc |-> Codec(
     <<ReadHeader(FALSE, 2), GetIf(1, "max_cid", Num(1, 16383, FALSE, "u16")),
       Get("profiles", T("Profiles1")), GetIf(2, "drb_continue_rohc", T("DrbContinueRohc1"))>>,
     <<WriteHeader(FALSE, <<"max_cid", "drb_continue_rohc">>),
       PutIf("max_cid", Num(1, 16383, FALSE, "u16")), Put("profiles", T("Profiles1")),
       PutIf("drb_continue_rohc", T("DrbContinueRohc1"))>>),
   HeaderCompression |-> Codec(
     <<ReadChoice(0, 2, TRUE, <<Alt(0, "NotUsed", Null), Alt(1, "Rohc", T("Rohc")),
       Alt(2, "UplinkOnlyRohc", T("UplinkOnlyRohc"))>>)>>,
     <<WriteChoice(0, 2, TRUE, <<Arm("NotUsed", 0, Null), Arm("Rohc", 1, T("Rohc")),
       Arm("UplinkOnlyRohc", 2, T("UplinkOnlyRohc"))>>)>>),
   IntegrityProtection |-> Codec(<<ReadEnum(0, 0, FALSE, 1)>>, <<WriteEnum(0, 0, FALSE)>>)]
FromStatusReportRequired ==
  [StatusReportRequired |-> Codec(<<ReadEnum(0, 0, FALSE, 1)>>, <<WriteEnum(0, 0, FALSE)>>),
   OutOfOrderDelivery |-> Codec(<<ReadEnum(0, 0, FALSE, 1)>>, <<WriteEnum(0, 0, FALSE)>>),
   Drb |-> Codec(
     <<ReadHeader(FALSE, 6), GetIf(1, "discard_timer", T("DiscardTimer")),
       GetIf(2, "pdcp_sn_size_ul", T("PdcpSnSizeUl")),
       GetIf(3, "pdcp_sn_size_dl", T("PdcpSnSizeDl")),
       Get("header_compression", T("HeaderCompression")),
       GetIf(4, "integrity_protection", T("IntegrityProtection")),
       GetIf(5, "status_report_required", T("StatusReportRequired")),
       GetIf(6, "out_of_order_delivery", T("OutOfOrderDelivery"))>>,
     <<WriteHeader(FALSE, <<"discard_timer", "pdcp_sn_size_ul", "pdcp_sn_size_dl",
       "integrity_protection", "status_report_required", "out_of_order_delivery">>),
       PutIf("discard_timer", T("DiscardTimer")), PutIf("pdcp_sn_size_ul", T("PdcpSnSizeUl")),
       PutIf("pdcp_sn_size_dl", T("PdcpSnSizeDl")),
       Put("header_compression", T("HeaderCompression")),
       PutIf("integrity_protection", T("IntegrityProtection")),
       PutIf("status_report_required", T("StatusReportRequired")),
       PutIf("out_of_order_delivery", T("OutOfOrderDelivery"))>>)]
FromPrimaryPath ==
  [PrimaryPath |-> Codec(
     <<ReadHeader(FALSE, 2), GetIf(1, "cell_group", T("CellGroupId")),
       GetIf(2, "logical_channel", T("LogicalChannelIdentity"))>>,
     <<WriteHeader(FALSE, <<"cell_group", "logical_channel">>),
       PutIf("cell_group", T("CellGroupId")),
       PutIf("logical_channel", T("LogicalChannelIdentity"))>>),
   MoreThanOneRlc |-> Codec(
     <<ReadHeader(FALSE, 2), Get("primary_path", T("PrimaryPath")),
       GetIf(1, "ul_data_split_threshold", T("UlDataSplitThreshold")),
       GetIf(2, "pdcp_duplication", T("BOOL"))>>,
     <<WriteHeader(FALSE, <<"ul_data_split_threshold", "pdcp_duplication">>),
       Put("primary_path", T("PrimaryPath")),
       PutIf("ul_data_split_threshold", T("UlDataSplitThreshold")),
       PutIf("pdcp_duplication", T("BOOL"))>>)]
FromTReordering ==
  [TReordering |-> Codec(<<ReadEnum(0, 63, FALSE, 64)>>, <<WriteEnum(0, 63, FALSE)>>)]
FromSrb3ToRelease ==
  [Srb3ToRelease |-> Codec(<<ReadEnum(0, 0, FALSE, 1)>>, <<WriteEnum(0, 0, FALSE)>>),
   ReestablishPdcp |-> Codec(<<ReadEnum(0, 0, FALSE, 1)>>, <<WriteEnum(0, 0, FALSE)>>),
   DiscardOnPdcp |-> Codec(<<ReadEnum(0, 0, FALSE, 1)>>, <<WriteEnum(0, 0, FALSE)>>),
   CnAssociation |-> Codec(
     <<ReadChoice(0, 1, FALSE, <<Alt(0, "EpsBearerIdentity", Num(0, 15, FALSE, "u8")),
       Alt(1, "SdapConfig", T("SdapConfig"))>>)>>,
     <<WriteChoice(0, 1, FALSE, <<Arm("EpsBearerIdentity", 0, Num(0, 15, FALSE, "u8")),
       Arm("SdapConfig", 1, T("SdapConfig"))>>)>>)]
FromReestablishPdcp1 ==
  [ReestablishPdcp1 |-> Codec(<<ReadEnum(0, 0, FALSE, 1)>>, <<WriteEnum(0, 0, FALSE)>>),
   RecoverPdcp |-> Codec(<<ReadEnum(0, 0, FALSE, 1)>>, <<WriteEnum(0, 0, FALSE)>>),
   KeyToUse |-> Codec(<<ReadEnum(0, 1, FALSE, 2)>>, <<WriteEnum(0, 1, FALSE)>>)]
FromTimeInfoTypeR16 ==
  [TimeInfoTypeR16 |-> Codec(<<ReadEnum(0, 0, FALSE, 1)>>, <<WriteEnum(0, 0, FALSE)>>)]
FromReportType2 ==
  [ReportType2 |-> Codec(
     <<ReadChoice(0, 1, TRUE, <<Alt(0, "Periodical", T("PeriodicalReportConfig")),
       Alt(1, "EventTriggered", T("EventTriggerConfig"))>>)>>,
     <<WriteChoice(0, 1, TRUE, <<Arm("Periodical", 0, T("PeriodicalReportConfig")),
       Arm("EventTriggered", 1, T("EventTriggerConfig"))>>)>>)]
FromEventA1 ==
  [EventA1 |-> Codec(
     <<ReadHeader(FALSE, 0), Get("a1_threshold", T("MeasTriggerQuantity")),
       Get("report_on_leave", T("BOOL")), Get("hysteresis", T("Hysteresis")),
       Get("time_to_trigger", T("TimeToTrigger"))>>,
     <<WriteHeader(FALSE, <<>>), Put("a1_threshold", T("MeasTriggerQuantity")),
       Put("report_on_leave", T("BOOL")), Put("hysteresis", T("Hysteresis")),
       Put("time_to_trigger", T("TimeToTrigger"))>>),
   EventA2 |-> Codec(
     <<ReadHeader(FALSE, 0), Get("a2_threshold", T("MeasTriggerQuantity")),
       Get("report_on_leave", T("BOOL")), Get("hysteresis", T("Hysteresis")),
       Get("time_to_trigger", T("TimeToTrigger"))>>,
     <<WriteHeader(FALSE, <<>>), Put("a2_threshold", T("MeasTriggerQuantity")),
       Put("report_on_leave", T("BOOL")), Put("hysteresis", T("Hysteresis")),
       Put("time_to_trigger", T("TimeToTrigger"))>>),
   EventA3 |-> Codec(
     <<ReadHeader(FALSE, 0), Get("a3_offset", T("MeasTriggerQuantityOffset")),
       Get("report_on_leave", T("BOOL")), Get("hysteresis", T("Hysteresis")),
       Get("time_to_trigger", T("TimeToTrigger")), Get("use_white_cell_list", T("BOOL"))>>,
     <<WriteHeader(FALSE, <<>>), Put("a3_offset", T("MeasTriggerQuantityOffset")),
       Put("report_on_leave", T("BOOL")), Put("hysteresis", T("Hysteresis")),
       Put("time_to_trigger", T("TimeToTrigger")), Put("use_white_cell_list", T("BOOL"))>>)]
FromEventA4 ==
  [EventA4 |-> Codec(
     <<ReadHeader(FALSE, 0), Get("a4_threshold", T("MeasTriggerQuantity")),
       Get("report_on_leave", T("BOOL")), Get("hysteresis", T("Hysteresis")),
       Get("time_to_trigger", T("TimeToTrigger")), Get("use_white_cell_list", T("BOOL"))>>,
     <<WriteHeader(FALSE, <<>>), Put("a4_threshold", T("MeasTriggerQuantity")),
       Put("report_on_leave", T("BOOL")), Put("hysteresis", T("Hysteresis")),
       Put("time_to_trigger", T("TimeToTrigger")), Put("use_white_cell_list", T("BOOL"))>>),
   EventA5 |-> Codec(
     <<ReadHeader(FALSE, 0), Get("a5_threshold_1", T("MeasTriggerQuantity")),
       Get("a5_threshold_2", T("MeasTriggerQuantity")), Get("report_on_leave", T("BOOL")),
       Get("hysteresis", T("Hysteresis")), Get("time_to_trigger", T("TimeToTrigger")),
       Get("use_white_cell_list", T("BOOL"))>>,
     <<WriteHeader(FALSE, <<>>), Put("a5_threshold_1", T("MeasTriggerQuantity")),
       Put("a5_threshold_2", T("MeasTriggerQuantity")), Put("report_on_leave", T("BOOL")),
       Put("hysteresis", T("Hysteresis")), Put("time_to_trigger", T("TimeToTrigger")),
       Put("use_white_cell_list", T("BOOL"))>>),
   EventA6 |-> Codec(
     <<ReadHeader(FALSE, 0), Get("a6_offset", T("MeasTriggerQuantityOffset")),
       Get("report_on_leave", T("BOOL")), Get("hysteresis", T("Hysteresis")),
       Get("time_to_trigger", T("TimeToTrigger")), Get("use_white_cell_list", T("BOOL"))>>,
     <<WriteHeader(FALSE, <<>>), Put("a6_offset", T("MeasTriggerQuantityOffset")),
       Put("report_on_leave", T("BOOL")), Put("hysteresis", T("Hysteresis")),
       Put("time_to_trigger", T("TimeToTrigger")), Put("use_white_cell_list", T("BOOL"))>>)]
FromEventId1 ==
  [EventId1 |-> Codec(
     <<ReadChoice(0, 5, TRUE, <<Alt(0, "EventA1", T("EventA1")), Alt(1, "EventA2", T("EventA2")),
       Alt(2, "EventA3", T("EventA3")), Alt(3, "EventA4", T("EventA4")),
       Alt(4, "EventA5", T("EventA5")), Alt(5, "EventA6", T("EventA6"))>>)>>,
     <<WriteChoice(0, 5, TRUE, <<Arm("EventA1", 0, T("EventA1")), Arm("EventA2", 1, T("EventA2")),
       Arm("EventA3", 2, T("EventA3")), Arm("EventA4", 3, T("EventA4")),
       Arm("EventA5", 4, T("EventA5")), Arm("EventA6", 5, T("EventA6"))>>)>>),
   ReportAmount2 |-> Codec(<<ReadEnum(0, 7, FALSE, 8)>>, <<WriteEnum(0, 7, FALSE)>>),
   ReportAddNeighMeas |-> Codec(<<ReadEnum(0, 0, FALSE, 1)>>, <<WriteEnum(0, 0, FALSE)>>)]
FromReportAmount3 ==
  [ReportAmount3 |-> Codec(<<ReadEnum(0, 7, FALSE, 8)>>, <<WriteEnum(0, 7, FALSE)>>)]
FromReportConfig ==
  [ReportConfig |-> Codec(
     <<ReadChoice(0, 0, TRUE, <<Alt(0, "ReportConfigNr", T("ReportConfigNr"))>>)>>,
     <<WriteChoice(0, 0, TRUE, <<Arm("ReportConfigNr", 0, T("ReportConfigNr"))>>)>>)]
FromSdapHeaderDl ==
  [SdapHeaderDl |-> Codec(<<ReadEnum(0, 1, FALSE, 2)>>, <<WriteEnum(0, 1, FALSE)>>),
   SdapHeaderUl |-> Codec(<<ReadEnum(0, 1, FALSE, 2)>>, <<WriteEnum(0, 1, FALSE)>>)]
FromPeriodicityAndOffset1 ==
  [PeriodicityAndOffset1 |-> Codec(
     <<ReadChoice(0, 5, FALSE, <<Alt(0, "Sf5", Num(0, 4, FALSE, "u8")),
       Alt(1, "Sf10", Num(0, 9, FALSE, "u8")), Alt(2, "Sf20", Num(0, 19, FALSE, "u8")),
       Alt(3, "Sf40", Num(0, 39, FALSE, "u8")), Alt(4, "Sf80", Num(0, 79, FALSE, "u8")),
       Alt(5, "Sf160", Num(0, 159, FALSE, "u8"))>>)>>,
     <<WriteChoice(0, 5, FALSE, <<Arm("Sf5", 0, Num(0, 4, FALSE, "u8")),
       Arm("Sf10", 1, Num(0, 9, FALSE, "u8")), Arm("Sf20", 2, Num(0, 19, FALSE, "u8")),
       Arm("Sf40", 3, Num(0, 39, FALSE, "u8")), Arm("Sf80", 4, Num(0, 79, FALSE, "u8")),
       Arm("Sf160", 5, Num(0, 159, FALSE, "u8"))>>)>>),
   Duration |-> Codec(<<ReadEnum(0, 4, FALSE, 5)>>, <<WriteEnum(0, 4, FALSE)>>),
   Periodicity2 |-> Codec(<<ReadEnum(0, 7, FALSE, 8)>>, <<WriteEnum(0, 7, FALSE)>>)]
FromDlUlTransmissionPeriodicity ==
  [DlUlTransmissionPeriodicity |-> Codec(<<ReadEnum(0, 7, FALSE, 8)>>, <<WriteEnum(0, 7, FALSE)>>)]
FromDeactivatedCarrierR16 ==
  [DeactivatedCarrierR16 |-> Codec(<<ReadEnum(0, 0, FALSE, 1)>>, <<WriteEnum(0, 0, FALSE)>>),
   ServCellInfoR16 |-> Codec(
     <<ReadChoice(0, 1, FALSE, <<Alt(0, "BwpIdR16", T("BwpId")),
       Alt(1, "DeactivatedCarrierR16", T("DeactivatedCarrierR16"))>>)>>,
     <<WriteChoice(0, 1, FALSE, <<Arm("BwpIdR16", 0, T("BwpId")),
       Arm("DeactivatedCarrierR16", 1, T("DeactivatedCarrierR16"))>>)>>)]
FromRange1 ==
  [Range1 |-> Codec(<<ReadEnum(0, 15, FALSE, 16)>>, <<WriteEnum(0, 15, FALSE)>>),
   RttUnitsR16 |-> Codec(<<ReadEnum(0, 4, TRUE, 5)>>, <<WriteEnum(0, 4, TRUE)>>),
   DelayBudgetReportingProhibitTimer |-> Codec(
     <<ReadEnum(0, 7, FALSE, 8)>>,
     <<WriteEnum(0, 7, FALSE)>>),
   Setup |-> Codec(
     <<ReadHeader(FALSE, 0),
       Get("delay_budget_reporting_prohibit_timer", T("DelayBudgetReportingProhibitTimer"))>>,
     <<WriteHeader(FALSE, <<>>),
       Put("delay_budget_reporting_prohibit_timer", T("DelayBudgetReportingProhibitTimer"))>>)]
FromDelayBudgetReportingConfig ==
  [DelayBudgetReportingConfig |-> Codec(
     <<ReadChoice(0, 1, FALSE, <<Alt(0, "Release", Null), Alt(1, "Setup", T("Setup"))>>)>>,
     <<WriteChoice(0, 1, FALSE, <<Arm("Release", 0, Null), Arm("Setup", 1, T("Setup"))>>)>>),
   ReferenceTimePreferenceReportingR16 |-> Codec(
     <<ReadEnum(0, 0, FALSE, 1)>>,
     <<WriteEnum(0, 0, FALSE)>>),
   ObtainCommonLocationR16 |-> Codec(<<ReadEnum(0, 0, FALSE, 1)>>, <<WriteEnum(0, 0, FALSE)>>),
   SlAssistanceConfigNrR16 |-> Codec(<<ReadEnum(0, 0, FALSE, 1)>>, <<WriteEnum(0, 0, FALSE)>>)]
FromOverheatingIndicationProhibitTimer ==
  [OverheatingIndicationProhibitTimer |-> Codec(
     <<ReadEnum(0, 15, FALSE, 16)>>,
     <<WriteEnum(0, 15, FALSE)>>),
   DrxPreferenceProhibitTimerR16 |-> Codec(
     <<ReadEnum(0, 15, FALSE, 16)>>,
     <<WriteEnum(0, 15, FALSE)>>),
   MaxBwPreferenceProhibitTimerR16 |-> Codec(
     <<ReadEnum(0, 15, FALSE, 16)>>,
     <<WriteEnum(0, 15, FALSE)>>)]
FromMaxCcPreferenceProhibitTimerR16 ==
  [MaxCcPreferenceProhibitTimerR16 |-> Codec(
     <<ReadEnum(0, 15, FALSE, 16)>>,
     <<WriteEnum(0, 15, FALSE)>>),
   MaxMimoLayerPreferenceProhibitTimerR16 |-> Codec(
     <<ReadEnum(0, 15, FALSE, 16)>>,
     <<WriteEnum(0, 15, FALSE)>>),
   MinSchedulingOffsetPreferenceProhibitTimerR16 |-> Codec(
     <<ReadEnum(0, 15, FALSE, 16)>>,
     <<WriteEnum(0, 15, FALSE)>>)]
FromReleasePreferenceProhibitTimerR16 ==
  [ReleasePreferenceProhibitTimerR16 |-> Codec(
     <<ReadEnum(0, 15, FALSE, 16)>>,
     <<WriteEnum(0, 15, FALSE)>>),
   ConnectedReporting |-> Codec(<<ReadEnum(0, 0, FALSE, 1)>>, <<WriteEnum(0, 0, FALSE)>>),
   MeasUncomBarPreR16 |-> Codec(<<ReadEnum(0, 0, FALSE, 1)>>, <<WriteEnum(0, 0, FALSE)>>),
   MeasUeSpeed |-> Codec(<<ReadEnum(0, 0, FALSE, 1)>>, <<WriteEnum(0, 0, FALSE)>>)]
FromMeasUeOrientation ==
  [MeasUeOrientation |-> Codec(<<ReadEnum(0, 0, FALSE, 1)>>, <<WriteEnum(0, 0, FALSE)>>),
   LogMeasAvailableR16_1 |-> Codec(<<ReadEnum(0, 0, FALSE, 1)>>, <<WriteEnum(0, 0, FALSE)>>),
   LogMeasAvailableBtR16_1 |-> Codec(<<ReadEnum(0, 0, FALSE, 1)>>, <<WriteEnum(0, 0, FALSE)>>),
   LogMeasAvailableWlanR16_1 |-> Codec(<<ReadEnum(0, 0, FALSE, 1)>>, <<WriteEnum(0, 0, FALSE)>>)]
FromConnEstFailInfoAvailableR16 ==
  [ConnEstFailInfoAvailableR16 |-> Codec(<<ReadEnum(0, 0, FALSE, 1)>>, <<WriteEnum(0, 0, FALSE)>>),
   RlfInfoAvailableR16 |-> Codec(<<ReadEnum(0, 0, FALSE, 1)>>, <<WriteEnum(0, 0, FALSE)>>),
   PciArfcnR16_3 |-> Codec(
     <<ReadHeader(FALSE, 0), Get("phys_cell_id_r_16", T("PhysCellId")),
       Get("carrier_freq_r_16", T("ArfcnValueNr"))>>,
     <<WriteHeader(FALSE, <<>>), Put("phys_cell_id_r_16", T("PhysCellId")),
       Put("carrier_freq_r_16", T("ArfcnValueNr"))>>),
   NrCellIdR16 |-> Codec(
     <<ReadChoice(0, 1, FALSE, <<Alt(0, "CgiInfo", T("CgiInfoLoggingR16")),
       Alt(1, "PciArfcnR16", T("PciArfcnR16_3"))>>)>>,
     <<WriteChoice(0, 1, FALSE, <<Arm("CgiInfo", 0, T("CgiInfoLoggingR16")),
       Arm("PciArfcnR16", 1, T("PciArfcnR16_3"))>>)>>)]
FromPciArfcnR16_4 ==
  [PciArfcnR16_4 |-> Codec(
     <<ReadHeader(FALSE, 0), Get("phys_cell_id_r_16", T("EutraPhysCellId")),
       Get("carrier_freq_r_16", T("ArfcnValueEutra"))>>,
     <<WriteHeader(FALSE, <<>>), Put("phys_cell_id_r_16", T("EutraPhysCellId")),
       Put("carrier_freq_r_16", T("ArfcnValueEutra"))>>),
   EutraCellIdR16 |-> Codec(
     <<ReadChoice(0, 1, FALSE, <<Alt(0, "CellGlobalIdR16", T("CgiInfoEutra")),
       Alt(1, "PciArfcnR16", T("PciArfcnR16_4"))>>)>>,
     <<WriteChoice(0, 1, FALSE, <<Arm("CellGlobalIdR16", 0, T("CgiInfoEutra")),
       Arm("PciArfcnR16", 1, T("PciArfcnR16_4"))>>)>>),
   VisitedCellIdR16 |-> Codec(
     <<ReadChoice(0, 1, FALSE, <<Alt(0, "NrCellIdR16", T("NrCellIdR16")),
       Alt(1, "EutraCellIdR16", T("EutraCellIdR16"))>>)>>,
     <<WriteChoice(0, 1, FALSE, <<Arm("NrCellIdR16", 0, T("NrCellIdR16")),
       Arm("EutraCellIdR16", 1, T("EutraCellIdR16"))>>)>>)]
FromSlLengthSymbolsR16 ==
  [SlLengthSymbolsR16 |-> Codec(<<ReadEnum(0, 7, FALSE, 8)>>, <<WriteEnum(0, 7, FALSE)>>),
   SlStartSymbolR16 |-> Codec(<<ReadEnum(0, 7, FALSE, 8)>>, <<WriteEnum(0, 7, FALSE)>>),
   T400R16_1 |-> Codec(<<ReadEnum(0, 7, FALSE, 8)>>, <<WriteEnum(0, 7, FALSE)>>),
   SlMaxNumConsecutiveDtxR16_1 |-> Codec(<<ReadEnum(0, 7, FALSE, 8)>>, <<WriteEnum(0, 7, FALSE)>>)]
FromSlCsiAcquisitionR16_1 ==
  [SlCsiAcquisitionR16_1 |-> Codec(<<ReadEnum(0, 0, FALSE, 1)>>, <<WriteEnum(0, 0, FALSE)>>),
   NetworkControlledSyncTxR16 |-> Codec(<<ReadEnum(0, 1, FALSE, 2)>>, <<WriteEnum(0, 1, FALSE)>>),
   SlTimeReferenceSfnType1R16 |-> Codec(<<ReadEnum(0, 0, FALSE, 1)>>, <<WriteEnum(0, 0, FALSE)>>)]
FromRrcConfiguredSidelinkGrantR16 ==
  [RrcConfiguredSidelinkGrantR16 |-> Codec(
     <<ReadHeader(FALSE, 8), GetIf(1, "sl_time_resource_cg_type_1_r_16", Num(0, 496, FALSE, "u16")),
       GetIf(2, "sl_start_subchannel_cg_type_1_r_16", Num(0, 26, FALSE, "u8")),
       GetIf(3, "sl_freq_resource_cg_type_1_r_16", Num(0, 6929, FALSE, "u16")),
       GetIf(4, "sl_time_offset_cg_type_1_r_16", Num(0, 7999, FALSE, "u16")),
       GetIf(5, "sl_n1pucch_an_r_16", T("PucchResourceId")),
       GetIf(6, "sl_psfch_to_pucch_cg_type_1_r_16", Num(0, 15, FALSE, "u8")),
       GetIf(7, "sl_resource_pool_id_r_16", T("SlResourcePoolIdR16")),
       GetIf(8, "sl_time_reference_sfn_type_1_r_16", T("SlTimeReferenceSfnType1R16"))>>,
     <<WriteHeader(FALSE, <<"sl_time_resource_cg_type_1_r_16", "sl_start_subchannel_cg_type_1_r_16",
       "sl_freq_resource_cg_type_1_r_16", "sl_time_offset_cg_type_1_r_16", "sl_n1pucch_an_r_16",
       "sl_psfch_to_pucch_cg_type_1_r_16", "sl_resource_pool_id_r_16",
       "sl_time_reference_sfn_type_1_r_16">>),
       PutIf("sl_time_resource_cg_type_1_r_16", Num(0, 496, FALSE, "u16")),
       PutIf("sl_start_subchannel_cg_type_1_r_16", Num(0, 26, FALSE, "u8")),
       PutIf("sl_freq_resource_cg_type_1_r_16", Num(0, 6929, FALSE, "u16")),
       PutIf("sl_time_offset_cg_type_1_r_16", Num(0, 7999, FALSE, "u16")),
       PutIf("sl_n1pucch_an_r_16", T("PucchResourceId")),
       PutIf("sl_psfch_to_pucch_cg_type_1_r_16", Num(0, 15, FALSE, "u8")),
       PutIf("sl_resource_pool_id_r_16", T("SlResourcePoolIdR16")),
       PutIf("sl_time_reference_sfn_type_1_r_16", T("SlTimeReferenceSfnType1R16"))>>),
   SlPeriodCg1R16 |-> Codec(<<ReadEnum(0, 15, FALSE, 16)>>, <<WriteEnum(0, 15, FALSE)>>)]
FromFrequencyShift7p5khzSlR16 ==
  [FrequencyShift7p5khzSlR16 |-> Codec(<<ReadEnum(0, 0, FALSE, 1)>>, <<WriteEnum(0, 0, FALSE)>>),
   SlSyncPriorityR16 |-> Codec(<<ReadEnum(0, 1, FALSE, 2)>>, <<WriteEnum(0, 1, FALSE)>>)]
FromSlPrioritisedBitRateR16 ==
  [SlPrioritisedBitRateR16 |-> Codec(<<ReadEnum(0, 15, FALSE, 16)>>, <<WriteEnum(0, 15, FALSE)>>),
   SlBucketSizeDurationR16 |-> Codec(<<ReadEnum(0, 15, FALSE, 16)>>, <<WriteEnum(0, 15, FALSE)>>),
   SlConfiguredGrantType1AllowedR16 |-> Codec(
     <<ReadEnum(0, 0, FALSE, 1)>>,
     <<WriteEnum(0, 0, FALSE)>>)]
FromSlHarqFeedbackEnabledR16 ==
  [SlHarqFeedbackEnabledR16 |-> Codec(<<ReadEnum(0, 1, FALSE, 2)>>, <<WriteEnum(0, 1, FALSE)>>),
   SlMaxPuschDurationR16 |-> Codec(<<ReadEnum(0, 7, FALSE, 8)>>, <<WriteEnum(0, 7, FALSE)>>),
   SlDiscardTimerR16 |-> Codec(<<ReadEnum(0, 17, FALSE, 18)>>, <<WriteEnum(0, 17, FALSE)>>),
   SlPdcpSnSizeR16 |-> Codec(<<ReadEnum(0, 1, FALSE, 2)>>, <<WriteEnum(0, 1, FALSE)>>)]
FromSlOutOfOrderDelivery ==
  [SlOutOfOrderDelivery |-> Codec(<<ReadEnum(0, 0, FALSE, 1)>>, <<WriteEnum(0, 0, FALSE)>>),
   DlAlphaPsbchR16 |-> Codec(<<ReadEnum(0, 7, FALSE, 8)>>, <<WriteEnum(0, 7, FALSE)>>),
   SlThresUeSpeedR16 |-> Codec(<<ReadEnum(0, 7, FALSE, 8)>>, <<WriteEnum(0, 7, FALSE)>>),
   SlResourceTypeR16 |-> Codec(<<ReadEnum(0, 3, FALSE, 4)>>, <<WriteEnum(0, 3, FALSE)>>)]
FromSlNonStandardizedPqiR16 ==
  [SlNonStandardizedPqiR16 |-> Codec(
     <<ReadHeader(TRUE, 6), GetIf(1, "sl_resource_type_r_16", T("SlResourceTypeR16")),
       GetIf(2, "sl_priority_level_r_16", Num(1, 8, FALSE, "u8")),
       GetIf(3, "sl_packet_delay_budget_r_16", Num(0, 1023, FALSE, "u16")),
       GetIf(4, "sl_packet_error_rate_r_16", Num(0, 9, FALSE, "u8")),
       GetIf(5, "sl_averaging_window_r_16", Num(0, 4095, FALSE, "u16")),
       GetIf(6, "sl_max_data_burst_volume_r_16", Num(0, 4095, FALSE, "u16"))>>,
     <<WriteHeader(TRUE, <<"sl_resource_type_r_16", "sl_priority_level_r_16",
       "sl_packet_delay_budget_r_16", "sl_packet_error_rate_r_16", "sl_averaging_window_r_16",
       "sl_max_data_burst_volume_r_16">>), PutIf("sl_resource_type_r_16", T("SlResourceTypeR16")),
       PutIf("sl_priority_level_r_16", Num(1, 8, FALSE, "u8")),
       PutIf("sl_packet_delay_budget_r_16", Num(0, 1023, FALSE, "u16")),
       PutIf("sl_packet_error_rate_r_16", Num(0, 9, FALSE, "u8")),
       PutIf("sl_averaging_window_r_16", Num(0, 4095, FALSE, "u16")),
       PutIf("sl_max_data_burst_volume_r_16", Num(0, 4095, FALSE, "u16"))>>),
   SlTransRangeR16 |-> Codec(<<ReadEnum(0, 31, FALSE, 32)>>, <<WriteEnum(0, 31, FALSE)>>)]
FromSlReportTypeR16 ==
  [SlReportTypeR16 |-> Codec(
     <<ReadChoice(0, 1, TRUE, <<Alt(0, "SlPeriodicalR16", T("SlPeriodicalReportConfigR16")),
       Alt(1, "SlEventTriggeredR16", T("SlEventTriggerConfigR16"))>>)>>,
     <<WriteChoice(0, 1, TRUE, <<Arm("SlPeriodicalR16", 0, T("SlPeriodicalReportConfigR16")),
       Arm("SlEventTriggeredR16", 1, T("SlEventTriggerConfigR16"))>>)>>),
   SlReportAmountR16 |-> Codec(<<ReadEnum(0, 7, FALSE, 8)>>, <<WriteEnum(0, 7, FALSE)>>),
   EventS1R16 |-> Codec(
     <<ReadHeader(TRUE, 0), Get("s1_threshold_r_16", T("SlMeasTriggerQuantityR16")),
       Get("sl_report_on_leave_r_16", T("BOOL")), Get("sl_hysteresis_r_16", T("Hysteresis")),
       Get("sl_time_to_trigger_r_16", T("TimeToTrigger"))>>,
     <<WriteHeader(TRUE, <<>>), Put("s1_threshold_r_16", T("SlMeasTriggerQuantityR16")),
       Put("sl_report_on_leave_r_16", T("BOOL")), Put("sl_hysteresis_r_16", T("Hysteresis")),
       Put("sl_time_to_trigger_r_16", T("TimeToTrigger"))>>)]
FromEventS2R16 ==
  [EventS2R16 |-> Codec(
     <<ReadHeader(TRUE, 0), Get("s2_threshold_r_16", T("SlMeasTriggerQuantityR16")),
       Get("sl_report_on_leave_r_16", T("BOOL")), Get("sl_hysteresis_r_16", T("Hysteresis")),
       Get("sl_time_to_trigger_r_16", T("TimeToTrigger"))>>,
     <<WriteHeader(TRUE, <<>>), Put("s2_threshold_r_16", T("SlMeasTriggerQuantityR16")),
       Put("sl_report_on_leave_r_16", T("BOOL")), Put("sl_hysteresis_r_16", T("Hysteresis")),
       Put("sl_time_to_trigger_r_16", T("TimeToTrigger"))>>),
   SlEventIdR16 |-> Codec(
     <<ReadChoice(0, 1, TRUE, <<Alt(0, "EventS1R16", T("EventS1R16")),
       Alt(1, "EventS2R16", T("EventS2R16"))>>)>>,
     <<WriteChoice(0, 1, TRUE, <<Arm("EventS1R16", 0, T("EventS1R16")),
       Arm("EventS2R16", 1, T("EventS2R16"))>>)>>),
   SlReportAmountR16_1 |-> Codec(<<ReadEnum(0, 7, FALSE, 8)>>, <<WriteEnum(0, 7, FALSE)>>)]
FromSlSubchannelSizeR16 ==
  [SlSubchannelSizeR16 |-> Codec(<<ReadEnum(0, 7, FALSE, 8)>>, <<WriteEnum(0, 7, FALSE)>>),
   SlAdditionalMcsTableR16 |-> Codec(<<ReadEnum(0, 2, FALSE, 3)>>, <<WriteEnum(0, 2, FALSE)>>),
   SlTimeWindowSizeCbrR16 |-> Codec(<<ReadEnum(0, 1, FALSE, 2)>>, <<WriteEnum(0, 1, FALSE)>>),
   SlTimeWindowSizeCrR16 |-> Codec(<<ReadEnum(0, 1, FALSE, 2)>>, <<WriteEnum(0, 1, FALSE)>>)]
FromSlRxParametersNcellR16 ==
  [SlRxParametersNcellR16 |-> Codec(
     <<ReadHeader(FALSE, 1), GetIf(1, "sl_tdd_configuration_r_16", T("TddUlDlConfigCommon")),
       Get("sl_sync_config_index_r_16", Num(0, 15, FALSE, "u8"))>>,
     <<WriteHeader(FALSE, <<"sl_tdd_configuration_r_16">>),
       PutIf("sl_tdd_configuration_r_16", T("TddUlDlConfigCommon")),
       Put("sl_sync_config_index_r_16", Num(0, 15, FALSE, "u8"))>>),
   SlPreemptionEnableR16 |-> Codec(<<ReadEnum(0, 8, FALSE, 9)>>, <<WriteEnum(0, 8, FALSE)>>),
   SlXOverheadR16 |-> Codec(<<ReadEnum(0, 3, FALSE, 4)>>, <<WriteEnum(0, 3, FALSE)>>)]
FromSlTransRangeR16_1 ==
  [SlTransRangeR16_1 |-> Codec(<<ReadEnum(0, 31, FALSE, 32)>>, <<WriteEnum(0, 31, FALSE)>>),
   GnssSyncR16 |-> Codec(<<ReadEnum(0, 0, FALSE, 1)>>, <<WriteEnum(0, 0, FALSE)>>),
   GnbEnbSyncR16 |-> Codec(<<ReadEnum(0, 0, FALSE, 1)>>, <<WriteEnum(0, 0, FALSE)>>)]
FromUeSyncR16 ==
  [UeSyncR16 |-> Codec(<<ReadEnum(0, 0, FALSE, 1)>>, <<WriteEnum(0, 0, FALSE)>>),
   SlTimeResourcePscchR16 |-> Codec(<<ReadEnum(0, 1, FALSE, 2)>>, <<WriteEnum(0, 1, FALSE)>>),
   SlFreqResourcePscchR16 |-> Codec(<<ReadEnum(0, 4, FALSE, 5)>>, <<WriteEnum(0, 4, FALSE)>>),
   SlScalingR16 |-> Codec(<<ReadEnum(0, 3, FALSE, 4)>>, <<WriteEnum(0, 3, FALSE)>>)]
FromSlPsfchPeriodR16 ==
  [SlPsfchPeriodR16 |-> Codec(<<ReadEnum(0, 3, FALSE, 4)>>, <<WriteEnum(0, 3, FALSE)>>),
   SlNumMuxCsPairR16 |-> Codec(<<ReadEnum(0, 3, FALSE, 4)>>, <<WriteEnum(0, 3, FALSE)>>),
   SlMinTimeGapPsfchR16 |-> Codec(<<ReadEnum(0, 1, FALSE, 2)>>, <<WriteEnum(0, 1, FALSE)>>),
   SlPsfchCandidateResourceTypeR16 |-> Codec(
     <<ReadEnum(0, 1, FALSE, 2)>>,
     <<WriteEnum(0, 1, FALSE)>>)]
FromSlPtrsReOffsetR16 ==
  [SlPtrsReOffsetR16 |-> Codec(<<ReadEnum(0, 2, FALSE, 3)>>, <<WriteEnum(0, 2, FALSE)>>),
   SlMultiReserveResourceR16 |-> Codec(<<ReadEnum(0, 0, FALSE, 1)>>, <<WriteEnum(0, 0, FALSE)>>),
   SlMaxNumPerReserveR16 |-> Codec(<<ReadEnum(0, 1, FALSE, 2)>>, <<WriteEnum(0, 1, FALSE)>>),
   SlSensingWindowR16 |-> Codec(<<ReadEnum(0, 1, FALSE, 2)>>, <<WriteEnum(0, 1, FALSE)>>)]
FromSlRsForSensingR16 ==
  [SlRsForSensingR16 |-> Codec(<<ReadEnum(0, 1, FALSE, 2)>>, <<WriteEnum(0, 1, FALSE)>>),
   SlResourceReservePeriod1R16 |-> Codec(
     <<ReadEnum(0, 10, FALSE, 11)>>,
     <<WriteEnum(0, 10, FALSE)>>),
   SlSelectionWindowR16 |-> Codec(<<ReadEnum(0, 3, FALSE, 4)>>, <<WriteEnum(0, 3, FALSE)>>),
   SlTxPercentageR16 |-> Codec(<<ReadEnum(0, 2, FALSE, 3)>>, <<WriteEnum(0, 2, FALSE)>>)]
FromSlMcsTableR16 ==
  [SlMcsTableR16 |-> Codec(<<ReadEnum(0, 2, FALSE, 3)>>, <<WriteEnum(0, 2, FALSE)>>),
   SlAlphaPsschPscchR16 |-> Codec(<<ReadEnum(0, 7, FALSE, 8)>>, <<WriteEnum(0, 7, FALSE)>>),
   DlAlphaPsschPscchR16 |-> Codec(<<ReadEnum(0, 7, FALSE, 8)>>, <<WriteEnum(0, 7, FALSE)>>),
   DlAlphaPsfchR16 |-> Codec(<<ReadEnum(0, 7, FALSE, 8)>>, <<WriteEnum(0, 7, FALSE)>>)]
FromSlMaxRetxThresholdR16 ==
  [SlMaxRetxThresholdR16 |-> Codec(<<ReadEnum(0, 7, FALSE, 8)>>, <<WriteEnum(0, 7, FALSE)>>),
   SlAmRlcR16 |-> Codec(
     <<ReadHeader(TRUE, 1), GetIf(1, "sl_sn_field_length_am_r_16", T("SnFieldLengthAm")),
       Get("sl_t_poll_retransmit_r_16", T("TPollRetransmit")),
       Get("sl_poll_pdu_r_16", T("PollPdu")), Get("sl_poll_byte_r_16", T("PollByte")),
       Get("sl_max_retx_threshold_r_16", T("SlMaxRetxThresholdR16"))>>,
     <<WriteHeader(TRUE, <<"sl_sn_field_length_am_r_16">>),
       PutIf("sl_sn_field_length_am_r_16", T("SnFieldLengthAm")),
       Put("sl_t_poll_retransmit_r_16", T("TPollRetransmit")),
       Put("sl_poll_pdu_r_16", T("PollPdu")), Put("sl_poll_byte_r_16", T("PollByte")),
       Put("sl_max_retx_threshold_r_16", T("SlMaxRetxThresholdR16"))>>),
   SlUmRlcR16 |-> Codec(
     <<ReadHeader(TRUE, 1), GetIf(1, "sl_sn_field_length_um_r_16", T("SnFieldLengthUm"))>>,
     <<WriteHeader(TRUE, <<"sl_sn_field_length_um_r_16">>),
       PutIf("sl_sn_field_length_um_r_16", T("SnFieldLengthUm"))>>)]
FromSlSdapHeaderR16 ==
  [SlSdapHeaderR16 |-> Codec(<<ReadEnum(0, 1, FALSE, 2)>>, <<WriteEnum(0, 1, FALSE)>>),
   SlMappedQosFlowsR16 |-> Codec(
     <<ReadChoice(0, 1, FALSE, <<Alt(0, "SlMappedQosFlowsListR16", NonEmpty(1, 2048, T("SlQosProfileR16"))),
       Alt(1, "SlMappedQosFlowsListDedicatedR16", T("SlMappedQosFlowsListDedicatedR16"))>>)>>,
     <<WriteChoice(0, 1, FALSE, <<Arm("SlMappedQosFlowsListR16", 0, NonEmpty(1, 2048, T("SlQosProfileR16"))),
       Arm("SlMappedQosFlowsListDedicatedR16", 1, T("SlMappedQosFlowsListDedicatedR16"))>>)>>),
   SlCastTypeR16_1 |-> Codec(<<ReadEnum(0, 3, FALSE, 4)>>, <<WriteEnum(0, 3, FALSE)>>)]
FromSlSyncRefMinHystR16 ==
  [SlSyncRefMinHystR16 |-> Codec(<<ReadEnum(0, 4, FALSE, 5)>>, <<WriteEnum(0, 4, FALSE)>>),
   SlSyncRefDiffHystR16 |-> Codec(<<ReadEnum(0, 5, FALSE, 6)>>, <<WriteEnum(0, 5, FALSE)>>),
   TxParametersR16 |-> Codec(
     <<ReadHeader(FALSE, 3), GetIf(1, "sync_tx_thresh_ic_r_16", T("SlRsrpRangeR16")),
       GetIf(2, "sync_tx_thresh_oo_c_r_16", T("SlRsrpRangeR16")),
       GetIf(3, "sync_info_reserved_r_16", Bits(2, 2, FALSE))>>,
     <<WriteHeader(FALSE, <<"sync_tx_thresh_ic_r_16", "sync_tx_thresh_oo_c_r_16",
       "sync_info_reserved_r_16">>), PutIf("sync_tx_thresh_ic_r_16", T("SlRsrpRangeR16")),
       PutIf("sync_tx_thresh_oo_c_r_16", T("SlRsrpRangeR16")),
       PutIf("sync_info_reserved_r_16", Bits(2, 2, FALSE))>>)]
FromGnssSyncR16_1 ==
  [GnssSyncR16_1 |-> Codec(<<ReadEnum(0, 0, FALSE, 1)>>, <<WriteEnum(0, 0, FALSE)>>),
   SlNumSsbWithinPeriodR16 |-> Codec(<<ReadEnum(0, 6, FALSE, 7)>>, <<WriteEnum(0, 6, FALSE)>>),
   SlProbResourceKeepR16 |-> Codec(<<ReadEnum(0, 4, FALSE, 5)>>, <<WriteEnum(0, 4, FALSE)>>),
   SlReselectAfterR16 |-> Codec(<<ReadEnum(0, 8, FALSE, 9)>>, <<WriteEnum(0, 8, FALSE)>>)]
FromSlZoneLengthR16 ==
  [SlZoneLengthR16 |-> Codec(<<ReadEnum(0, 7, FALSE, 8)>>, <<WriteEnum(0, 7, FALSE)>>)]

Codecs == {FromPeriodicBsrTimer, FromCyclicPrefix, FromCgiInfoEpc, FromAttemptCondReconfigR16,
  FromNrofPrBs, FromAssociatedSsb, FromSMeasureConfig, FromMeasIdleDurationR16,
  FromSsbMeasConfigR16, FromReportQuantityRsIndexesR16, FromMeasObject, FromRsIndexResults,
  FromMeasIdleResultEutraR16, FromSsbResultsR16, FromTEvaluation, FromGapIndicationIntraR16,
  FromRange, FromPdcpSnSizeDl, FromRohc, FromUplinkOnlyRohc, FromStatusReportRequired,
  FromPrimaryPath, FromTReordering, FromSrb3ToRelease, FromReestablishPdcp1, FromTimeInfoTypeR16,
  FromReportType2, FromEventA1, FromEventA4, FromEventId1, FromReportAmount3, FromReportConfig,
  FromSdapHeaderDl, FromPeriodicityAndOffset1, FromDlUlTransmissionPeriodicity,
  FromDeactivatedCarrierR16, FromRange1, FromDelayBudgetReportingConfig,
  FromOverheatingIndicationProhibitTimer, FromMaxCcPreferenceProhibitTimerR16,
  FromReleasePreferenceProhibitTimerR16, FromMeasUeOrientation, FromConnEstFailInfoAvailableR16,
  FromPciArfcnR16_4, FromSlLengthSymbolsR16, FromSlCsiAcquisitionR16_1,
  FromRrcConfiguredSidelinkGrantR16, FromFrequencyShift7p5khzSlR16, FromSlPrioritisedBitRateR16,
  FromSlHarqFeedbackEnabledR16, FromSlOutOfOrderDelivery, FromSlNonStandardizedPqiR16,
  FromSlReportTypeR16, FromEventS2R16, FromSlSubchannelSizeR16, FromSlRxParametersNcellR16,
  FromSlTransRangeR16_1, FromUeSyncR16, FromSlPsfchPeriodR16, FromSlPtrsReOffsetR16,
  FromSlRsForSensingR16, FromSlMcsTableR16, FromSlMaxRetxThresholdR16, FromSlSdapHeaderR16,
  FromSlSyncRefMinHystR16, FromGnssSyncR16_1, FromSlZoneLengthR16}
=============================================================================
