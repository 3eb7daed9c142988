----------------------------- MODULE RrcIesAtoN -----------------------------
(***************************************************************************)
(* The programs of the codecs of rrc/src/rrc.rs that a message of the CCCH *)
(* or the DCCH, in either direction, or SIB2 may hold: the information     *)
(* elements from AdditionalSpectrumEmission to NrNsPmaxValue.              *)
(***************************************************************************)
EXTENDS PerLayout

FromAdditionalSpectrumEmission ==
  [AdditionalSpectrumEmission |-> Codec(
     <<Get("0", Num(0, 7, FALSE, "u8"))>>,
     <<Put("0", Num(0, 7, FALSE, "u8"))>>)]
FromAmfIdentifier ==
  [AmfIdentifier |-> Codec(<<Get("0", Bits(24, 24, FALSE))>>, <<Put("0", Bits(24, 24, FALSE))>>),
   ArfcnValueEutra |-> Codec(
     <<Get("0", Num(0, 262143, FALSE, "u32"))>>,
     <<Put("0", Num(0, 262143, FALSE, "u32"))>>),
   ArfcnValueNr |-> Codec(
     <<Get("0", Num(0, 3279165, FALSE, "u32"))>>,
     <<Put("0", Num(0, 3279165, FALSE, "u32"))>>),
   ArfcnValueUtraFddR16 |-> Codec(
     <<Get("0", Num(0, 16383, FALSE, "u16"))>>,
     <<Put("0", Num(0, 16383, FALSE, "u16"))>>)]
FromBapRoutingIdR16 ==
  [BapRoutingIdR16 |-> Codec(
     <<ReadHeader(FALSE, 0), Get("bap_address_r_16", Bits(10, 10, FALSE)),
       Get("bap_path_id_r_16", Bits(10, 10, FALSE))>>,
     <<WriteHeader(FALSE, <<>>), Put("bap_address_r_16", Bits(10, 10, FALSE)),
       Put("bap_path_id_r_16", Bits(10, 10, FALSE))>>)]
FromBhRlcChannelIdR16 ==
  [BhRlcChannelIdR16 |-> Codec(
     <<Get("0", Bits(16, 16, FALSE))>>,
     <<Put("0", Bits(16, 16, FALSE))>>),
   BsrConfig |-> Codec(
     <<ReadHeader(TRUE, 1), Get("periodic_bsr_timer", T("PeriodicBsrTimer")),
       Get("retx_bsr_timer", T("RetxBsrTimer")),
       GetIf(1, "logical_channel_sr_delay_timer", T("LogicalChannelSrDelayTimer"))>>,
     <<WriteHeader(TRUE, <<"logical_channel_sr_delay_timer">>),
       Put("periodic_bsr_timer", T("PeriodicBsrTimer")), Put("retx_bsr_timer", T("RetxBsrTimer")),
       PutIf("logical_channel_sr_delay_timer", T("LogicalChannelSrDelayTimer"))>>),
   Bwp |-> Codec(
     <<ReadHeader(FALSE, 1), Get("location_and_bandwidth", Num(0, 37949, FALSE, "u16")),
       Get("subcarrier_spacing", T("SubcarrierSpacing")),
       GetIf(1, "cyclic_prefix", T("CyclicPrefix"))>>,
     <<WriteHeader(FALSE, <<"cyclic_prefix">>),
       Put("location_and_bandwidth", Num(0, 37949, FALSE, "u16")),
       Put("subcarrier_spacing", T("SubcarrierSpacing")),
       PutIf("cyclic_prefix", T("CyclicPrefix"))>>)]
FromBwpId ==
  [BwpId |-> Codec(<<Get("0", Num(0, 4, FALSE, "u8"))>>, <<Put("0", Num(0, 4, FALSE, "u8"))>>)]
FromCellAccessRelatedInfoEutra5gc ==
  [CellAccessRelatedInfoEutra5gc |-> Codec(
     <<ReadHeader(FALSE, 1), Get("plmn_identity_list_eutra_5gc", T("PlmnIdentityListEutra5gc")),
       Get("tracking_area_code_eutra_5gc", T("TrackingAreaCode")),
       GetIf(1, "ranac_5gc", T("RanAreaCode")),
       Get("cell_identity_eutra_5gc", T("CellIdentityEutra5gc"))>>,
     <<WriteHeader(FALSE, <<"ranac_5gc">>),
       Put("plmn_identity_list_eutra_5gc", T("PlmnIdentityListEutra5gc")),
       Put("tracking_area_code_eutra_5gc", T("TrackingAreaCode")),
       PutIf("ranac_5gc", T("RanAreaCode")),
       Put("cell_identity_eutra_5gc", T("CellIdentityEutra5gc"))>>),
   PlmnIdentityListEutra5gc |-> Codec(
     <<Get("0", NonEmpty(1, 12, T("PlmnIdentityEutra5gc")))>>,
     <<Put("0", NonEmpty(1, 12, T("PlmnIdentityEutra5gc")))>>),
   PlmnIdentityEutra5gc |-> Codec(
     <<ReadChoice(0, 1, FALSE, <<Alt(0, "PlmnIdentityEutra5gc", T("PlmnIdentity")),
       Alt(1, "PlmnIndex", Num(1, 12, FALSE, "u8"))>>)>>,
     <<WriteChoice(0, 1, FALSE, <<Arm("PlmnIdentityEutra5gc", 0, T("PlmnIdentity")),
       Arm("PlmnIndex", 1, Num(1, 12, FALSE, "u8"))>>)>>)]
FromCellIdentityEutra5gc ==
  [CellIdentityEutra5gc |-> Codec(
     <<ReadChoice(0, 1, FALSE, <<Alt(0, "CellIdentityEutra", Bits(28, 28, FALSE)),
       Alt(1, "CellIdIndex", Num(1, 12, FALSE, "u8"))>>)>>,
     <<WriteChoice(0, 1, FALSE, <<Arm("CellIdentityEutra", 0, Bits(28, 28, FALSE)),
       Arm("CellIdIndex", 1, Num(1, 12, FALSE, "u8"))>>)>>),
   CellAccessRelatedInfoEutraEpc |-> Codec(
     <<ReadHeader(FALSE, 0), Get("plmn_identity_list_eutra_epc", T("PlmnIdentityListEutraEpc")),
       Get("tracking_area_code_eutra_epc", Bits(16, 16, FALSE)),
       Get("cell_identity_eutra_epc", Bits(28, 28, FALSE))>>,
     <<WriteHeader(FALSE, <<>>), Put("plmn_identity_list_eutra_epc", T("PlmnIdentityListEutraEpc")),
       Put("tracking_area_code_eutra_epc", Bits(16, 16, FALSE)),
       Put("cell_identity_eutra_epc", Bits(28, 28, FALSE))>>),
   PlmnIdentityListEutraEpc |-> Codec(
     <<Get("0", NonEmpty(1, 12, T("PlmnIdentity")))>>,
     <<Put("0", NonEmpty(1, 12, T("PlmnIdentity")))>>)]
FromCellGroupId ==
  [CellGroupId |-> Codec(
     <<Get("0", Num(0, 3, FALSE, "u8"))>>,
     <<Put("0", Num(0, 3, FALSE, "u8"))>>),
   CellIdentity |-> Codec(<<Get("0", Bits(36, 36, FALSE))>>, <<Put("0", Bits(36, 36, FALSE))>>),
   CellReselectionPriority |-> Codec(
     <<Get("0", Num(0, 7, FALSE, "u8"))>>,
     <<Put("0", Num(0, 7, FALSE, "u8"))>>),
   CellReselectionSubPriority |-> Codec(<<ReadEnum(0, 3, FALSE, 4)>>, <<WriteEnum(0, 3, FALSE)>>)]
FromCgiInfoEutra ==
  [CgiInfoEutra |-> Codec(
     <<ReadHeader(FALSE, 4), GetIf(1, "cgi_info_epc", T("CgiInfoEpc")),
       GetIf(2, "cgi_info_5gc", NonEmpty(1, 12, T("CellAccessRelatedInfoEutra5gc"))),
       Get("freq_band_indicator", T("FreqBandIndicatorEutra")),
       GetIf(3, "multi_band_info_list", T("MultiBandInfoListEutra")),
       GetIf(4, "freq_band_indicator_priority", T("FreqBandIndicatorPriority"))>>,
     <<WriteHeader(FALSE, <<"cgi_info_epc", "cgi_info_5gc", "multi_band_info_list",
       "freq_band_indicator_priority">>), PutIf("cgi_info_epc", T("CgiInfoEpc")),
       PutIf("cgi_info_5gc", NonEmpty(1, 12, T("CellAccessRelatedInfoEutra5gc"))),
       Put("freq_band_indicator", T("FreqBandIndicatorEutra")),
       PutIf("multi_band_info_list", T("MultiBandInfoListEutra")),
       PutIf("freq_band_indicator_priority", T("FreqBandIndicatorPriority"))>>),
   CgiInfoEutraLogging |-> Codec(
     <<ReadHeader(FALSE, 6), GetIf(1, "plmn_identity_eutra_5gc", T("PlmnIdentity")),
       GetIf(2, "tracking_area_code_eutra_5gc", T("TrackingAreaCode")),
       GetIf(3, "cell_identity_eutra_5gc", Bits(28, 28, FALSE)),
       GetIf(4, "plmn_identity_eutra_epc", T("PlmnIdentity")),
       GetIf(5, "tracking_area_code_eutra_epc", Bits(16, 16, FALSE)),
       GetIf(6, "cell_identity_eutra_epc", Bits(28, 28, FALSE))>>,
     <<WriteHeader(FALSE, <<"plmn_identity_eutra_5gc", "tracking_area_code_eutra_5gc",
       "cell_identity_eutra_5gc", "plmn_identity_eutra_epc", "tracking_area_code_eutra_epc",
       "cell_identity_eutra_epc">>), PutIf("plmn_identity_eutra_5gc", T("PlmnIdentity")),
       PutIf("tracking_area_code_eutra_5gc", T("TrackingAreaCode")),
       PutIf("cell_identity_eutra_5gc", Bits(28, 28, FALSE)),
       PutIf("plmn_identity_eutra_epc", T("PlmnIdentity")),
       PutIf("tracking_area_code_eutra_epc", Bits(16, 16, FALSE)),
       PutIf("cell_identity_eutra_epc", Bits(28, 28, FALSE))>>)]
FromCgiInfoLoggingR16 ==
  [CgiInfoLoggingR16 |-> Codec(
     <<ReadHeader(FALSE, 1), Get("plmn_identity_r_16", T("PlmnIdentity")),
       Get("cell_identity_r_16", T("CellIdentity")),
       GetIf(1, "tracking_area_code_r_16", T("TrackingAreaCode"))>>,
     <<WriteHeader(FALSE, <<"tracking_area_code_r_16">>),
       Put("plmn_identity_r_16", T("PlmnIdentity")), Put("cell_identity_r_16", T("CellIdentity")),
       PutIf("tracking_area_code_r_16", T("TrackingAreaCode"))>>)]
FromCommonLocationInfoR16 ==
  [CommonLocationInfoR16 |-> Codec(
     <<ReadHeader(FALSE, 6), GetIf(1, "gnss_tod_msec_r_16", OctetString),
       GetIf(2, "location_timestamp_r_16", OctetString),
       GetIf(3, "location_coordinate_r_16", OctetString),
       GetIf(4, "location_error_r_16", OctetString), GetIf(5, "location_source_r_16", OctetString),
       GetIf(6, "velocity_estimate_r_16", OctetString)>>,
     <<WriteHeader(FALSE, <<"gnss_tod_msec_r_16", "location_timestamp_r_16",
       "location_coordinate_r_16", "location_error_r_16", "location_source_r_16",
       "velocity_estimate_r_16">>), PutIf("gnss_tod_msec_r_16", OctetString),
       PutIf("location_timestamp_r_16", OctetString),
       PutIf("location_coordinate_r_16", OctetString), PutIf("location_error_r_16", OctetString),
       PutIf("location_source_r_16", OctetString), PutIf("velocity_estimate_r_16", OctetString)>>),
   CondReconfigIdR16 |-> Codec(
     <<Get("0", Num(1, 8, FALSE, "u8"))>>,
     <<Put("0", Num(1, 8, FALSE, "u8"))>>),
   CondReconfigToAddModListR16 |-> Codec(
     <<Get("0", NonEmpty(1, 8, T("CondReconfigToAddModR16")))>>,
     <<Put("0", NonEmpty(1, 8, T("CondReconfigToAddModR16")))>>)]
FromCondReconfigToAddModR16 ==
  [CondReconfigToAddModR16 |-> Codec(
     <<ReadHeader(TRUE, 2), Get("cond_reconfig_id_r_16", T("CondReconfigIdR16")),
       GetIf(1, "cond_execution_cond_r_16", NonEmpty(1, 2, T("MeasId"))),
       GetIf(2, "cond_rrc_reconfig_r_16", OctetString)>>,
     <<WriteHeader(TRUE, <<"cond_execution_cond_r_16", "cond_rrc_reconfig_r_16">>),
       Put("cond_reconfig_id_r_16", T("CondReconfigIdR16")),
       PutIf("cond_execution_cond_r_16", NonEmpty(1, 2, T("MeasId"))),
       PutIf("cond_rrc_reconfig_r_16", OctetString)>>),
   ConditionalReconfigurationR16 |-> Codec(
     <<ReadHeader(TRUE, 3), GetIf(1, "attempt_cond_reconfig_r_16", T("AttemptCondReconfigR16")),
       GetIf(2, "cond_reconfig_to_remove_list_r_16", T("CondReconfigToRemoveListR16")),
       GetIf(3, "cond_reconfig_to_add_mod_list_r_16", T("CondReconfigToAddModListR16"))>>,
     <<WriteHeader(TRUE, <<"attempt_cond_reconfig_r_16", "cond_reconfig_to_remove_list_r_16",
       "cond_reconfig_to_add_mod_list_r_16">>),
       PutIf("attempt_cond_reconfig_r_16", T("AttemptCondReconfigR16")),
       PutIf("cond_reconfig_to_remove_list_r_16", T("CondReconfigToRemoveListR16")),
       PutIf("cond_reconfig_to_add_mod_list_r_16", T("CondReconfigToAddModListR16"))>>)]
FromCondReconfigToRemoveListR16 ==
  [CondReconfigToRemoveListR16 |-> Codec(
     <<Get("0", NonEmpty(1, 8, T("CondReconfigIdR16")))>>,
     <<Put("0", NonEmpty(1, 8, T("CondReconfigIdR16")))>>)]
FromCsiRsResourceConfigMobility ==
  [CsiRsResourceConfigMobility |-> Codec(
     <<ReadHeader(TRUE, 0), Get("subcarrier_spacing", T("SubcarrierSpacing")),
       Get("csi_rs_cell_list_mobility", NonEmpty(1, 96, T("CsiRsCellMobility")))>>,
     <<WriteHeader(TRUE, <<>>), Put("subcarrier_spacing", T("SubcarrierSpacing")),
       Put("csi_rs_cell_list_mobility", NonEmpty(1, 96, T("CsiRsCellMobility")))>>),
   CsiRsCellMobility |-> Codec(
     <<ReadHeader(FALSE, 1), Get("cell_id", T("PhysCellId")),
       Get("csi_rs_measurement_bw", T("CsiRsMeasurementBw")), GetIf(1, "density", T("Density")),
       Get("csi_rs_resource_list_mobility", NonEmpty(1, 96, T("CsiRsResourceMobility")))>>,
     <<WriteHeader(FALSE, <<"density">>), Put("cell_id", T("PhysCellId")),
       Put("csi_rs_measurement_bw", T("CsiRsMeasurementBw")), PutIf("density", T("Density")),
       Put("csi_rs_resource_list_mobility", NonEmpty(1, 96, T("CsiRsResourceMobility")))>>)]
FromCsiRsResourceMobility ==
  [CsiRsResourceMobility |-> Codec(
     <<ReadHeader(TRUE, 1), Get("csi_rs_index", T("CsiRsIndex")),
       Get("slot_config", T("SlotConfig")), GetIf(1, "associated_ssb", T("AssociatedSsb")),
       Get("frequency_domain_allocation", T("FrequencyDomainAllocation")),
       Get("first_ofdm_symbol_in_time_domain", Num(0, 13, FALSE, "u8")),
       Get("sequence_generation_config", Num(0, 1023, FALSE, "u16"))>>,
     <<WriteHeader(TRUE, <<"associated_ssb">>), Put("csi_rs_index", T("CsiRsIndex")),
       Put("slot_config", T("SlotConfig")), PutIf("associated_ssb", T("AssociatedSsb")),
       Put("frequency_domain_allocation", T("FrequencyDomainAllocation")),
       Put("first_ofdm_symbol_in_time_domain", Num(0, 13, FALSE, "u8")),
       Put("sequence_generation_config", Num(0, 1023, FALSE, "u16"))>>),
   CsiRsIndex |-> Codec(
     <<Get("0", Num(0, 95, FALSE, "u8"))>>,
     <<Put("0", Num(0, 95, FALSE, "u8"))>>)]
FromDedicatedNasMessage ==
  [DedicatedNasMessage |-> Codec(<<Get("0", OctetString)>>, <<Put("0", OctetString)>>)]
FromDrbIdentity ==
  [DrbIdentity |-> Codec(
     <<Get("0", Num(1, 32, FALSE, "u8"))>>,
     <<Put("0", Num(1, 32, FALSE, "u8"))>>)]
FromFilterCoefficient ==
  [FilterCoefficient |-> Codec(<<ReadEnum(0, 15, TRUE, 16)>>, <<WriteEnum(0, 15, TRUE)>>),
   FreqBandIndicatorNr |-> Codec(
     <<Get("0", Num(1, 1024, FALSE, "u16"))>>,
     <<Put("0", Num(1, 1024, FALSE, "u16"))>>)]
FromHysteresis ==
  [Hysteresis |-> Codec(
     <<Get("0", Num(0, 30, FALSE, "u8"))>>,
     <<Put("0", Num(0, 30, FALSE, "u8"))>>)]
FromIRntiValue ==
  [IRntiValue |-> Codec(<<Get("0", Bits(40, 40, FALSE))>>, <<Put("0", Bits(40, 40, FALSE))>>)]
FromLocationInfoR16 ==
  [LocationInfoR16 |-> Codec(
     <<ReadHeader(TRUE, 4), GetIf(1, "common_location_info_r_16", T("CommonLocationInfoR16")),
       GetIf(2, "bt_location_info_r_16", T("LogMeasResultListBtR16")),
       GetIf(3, "wlan_location_info_r_16", T("LogMeasResultListWlanR16")),
       GetIf(4, "sensor_location_info_r_16", T("SensorLocationInfoR16"))>>,
     <<WriteHeader(TRUE, <<"common_location_info_r_16", "bt_location_info_r_16",
       "wlan_location_info_r_16", "sensor_location_info_r_16">>),
       PutIf("common_location_info_r_16", T("CommonLocationInfoR16")),
       PutIf("bt_location_info_r_16", T("LogMeasResultListBtR16")),
       PutIf("wlan_location_info_r_16", T("LogMeasResultListWlanR16")),
       PutIf("sensor_location_info_r_16", T("SensorLocationInfoR16"))>>),
   LocationMeasurementInfo |-> Codec(
     <<ReadChoice(0, 0, TRUE, <<Alt(0, "EutraRstd", T("EutraRstdInfoList"))>>)>>,
     <<WriteChoice(0, 0, TRUE, <<Arm("EutraRstd", 0, T("EutraRstdInfoList"))>>)>>),
   EutraRstdInfoList |-> Codec(
     <<Get("0", NonEmpty(1, 3, T("EutraRstdInfo")))>>,
     <<Put("0", NonEmpty(1, 3, T("EutraRstdInfo")))>>)]
FromEutraRstdInfo ==
  [EutraRstdInfo |-> Codec(
     <<ReadHeader(TRUE, 0), Get("carrier_freq", T("ArfcnValueEutra")),
       Get("meas_prs_offset", Num(0, 39, FALSE, "u8"))>>,
     <<WriteHeader(TRUE, <<>>), Put("carrier_freq", T("ArfcnValueEutra")),
       Put("meas_prs_offset", Num(0, 39, FALSE, "u8"))>>)]
FromLogicalChannelIdentity ==
  [LogicalChannelIdentity |-> Codec(
     <<Get("0", Num(1, 32, FALSE, "u8"))>>,
     <<Put("0", Num(1, 32, FALSE, "u8"))>>)]
FromMeasConfig ==
  [MeasConfig |-> Codec(
     <<ReadHeader(TRUE, 10), GetIf(1, "meas_object_to_remove_list", T("MeasObjectToRemoveList")),
       GetIf(2, "meas_object_to_add_mod_list", T("MeasObjectToAddModList")),
       GetIf(3, "report_config_to_remove_list", T("ReportConfigToRemoveList")),
       GetIf(4, "report_config_to_add_mod_list", T("ReportConfigToAddModList")),
       GetIf(5, "meas_id_to_remove_list", T("MeasIdToRemoveList")),
       GetIf(6, "meas_id_to_add_mod_list", T("MeasIdToAddModList")),
       GetIf(7, "s_measure_config", T("SMeasureConfig")),
       GetIf(8, "quantity_config", T("QuantityConfig")),
       GetIf(9, "meas_gap_config", T("MeasGapConfig")),
       GetIf(10, "meas_gap_sharing_config", T("MeasGapSharingConfig"))>>,
     <<WriteHeader(TRUE, <<"meas_object_to_remove_list", "meas_object_to_add_mod_list",
       "report_config_to_remove_list", "report_config_to_add_mod_list", "meas_id_to_remove_list",
       "meas_id_to_add_mod_list", "s_measure_config", "quantity_config", "meas_gap_config",
       "meas_gap_sharing_config">>),
       PutIf("meas_object_to_remove_list", T("MeasObjectToRemoveList")),
       PutIf("meas_object_to_add_mod_list", T("MeasObjectToAddModList")),
       PutIf("report_config_to_remove_list", T("ReportConfigToRemoveList")),
       PutIf("report_config_to_add_mod_list", T("ReportConfigToAddModList")),
       PutIf("meas_id_to_remove_list", T("MeasIdToRemoveList")),
       PutIf("meas_id_to_add_mod_list", T("MeasIdToAddModList")),
       PutIf("s_measure_config", T("SMeasureConfig")),
       PutIf("quantity_config", T("QuantityConfig")), PutIf("meas_gap_config", T("MeasGapConfig")),
       PutIf("meas_gap_sharing_config", T("MeasGapSharingConfig"))>>)]
FromMeasObjectToRemoveList ==
  [MeasObjectToRemoveList |-> Codec(
     <<Get("0", NonEmpty(1, 64, T("MeasObjectId")))>>,
     <<Put("0", NonEmpty(1, 64, T("MeasObjectId")))>>),
   MeasIdToRemoveList |-> Codec(
     <<Get("0", NonEmpty(1, 64, T("MeasId")))>>,
     <<Put("0", NonEmpty(1, 64, T("MeasId")))>>),
   ReportConfigToRemoveList |-> Codec(
     <<Get("0", NonEmpty(1, 64, T("ReportConfigId")))>>,
     <<Put("0", NonEmpty(1, 64, T("ReportConfigId")))>>),
   MeasGapConfig |-> Codec(
     <<ReadHeader(TRUE, 1), GetIf(1, "gap_fr2", SetupRelease("GapConfig"))>>,
     <<WriteHeader(TRUE, <<"gap_fr2">>), PutIf("gap_fr2", SetupRelease("GapConfig"))>>)]
FromGapConfig ==
  [GapConfig |-> Codec(
     <<ReadHeader(TRUE, 0), Get("gap_offset", Num(0, 159, FALSE, "u8")), Get("mgl", T("Mgl")),
       Get("mgrp", T("Mgrp")), Get("mgta", T("Mgta"))>>,
     <<WriteHeader(TRUE, <<>>), Put("gap_offset", Num(0, 159, FALSE, "u8")), Put("mgl", T("Mgl")),
       Put("mgrp", T("Mgrp")), Put("mgta", T("Mgta"))>>),
   MeasGapSharingConfig |-> Codec(
     <<ReadHeader(TRUE, 1), GetIf(1, "gap_sharing_fr2", SetupRelease("MeasGapSharingScheme"))>>,
     <<WriteHeader(TRUE, <<"gap_sharing_fr2">>),
       PutIf("gap_sharing_fr2", SetupRelease("MeasGapSharingScheme"))>>),
   MeasGapSharingScheme |-> Codec(<<ReadEnum(0, 3, FALSE, 4)>>, <<WriteEnum(0, 3, FALSE)>>)]
FromMeasId ==
  [MeasId |-> Codec(<<Get("0", Num(1, 64, FALSE, "u8"))>>, <<Put("0", Num(1, 64, FALSE, "u8"))>>)]
FromMeasIdleConfigDedicatedR16 ==
  [MeasIdleConfigDedicatedR16 |-> Codec(
     <<ReadHeader(TRUE, 3),
       GetIf(1, "meas_idle_carrier_list_nr_r_16", NonEmpty(1, 8, T("MeasIdleCarrierNrR16"))),
       GetIf(2, "meas_idle_carrier_list_eutra_r_16", NonEmpty(1, 8, T("MeasIdleCarrierEutraR16"))),
       Get("meas_idle_duration_r_16", T("MeasIdleDurationR16")),
       GetIf(3, "validity_area_list_r_16", T("ValidityAreaListR16"))>>,
     <<WriteHeader(TRUE, <<"meas_idle_carrier_list_nr_r_16", "meas_idle_carrier_list_eutra_r_16",
       "validity_area_list_r_16">>),
       PutIf("meas_idle_carrier_list_nr_r_16", NonEmpty(1, 8, T("MeasIdleCarrierNrR16"))),
       PutIf("meas_idle_carrier_list_eutra_r_16", NonEmpty(1, 8, T("MeasIdleCarrierEutraR16"))),
       Put("meas_idle_duration_r_16", T("MeasIdleDurationR16")),
       PutIf("validity_area_list_r_16", T("ValidityAreaListR16"))>>),
   ValidityAreaListR16 |-> Codec(
     <<Get("0", NonEmpty(1, 8, T("ValidityAreaR16")))>>,
     <<Put("0", NonEmpty(1, 8, T("ValidityAreaR16")))>>),
   ValidityAreaR16 |-> Codec(
     <<ReadHeader(FALSE, 1), Get("carrier_freq_r_16", T("ArfcnValueNr")),
       GetIf(1, "validity_cell_list_r_16", T("ValidityCellList"))>>,
     <<WriteHeader(FALSE, <<"validity_cell_list_r_16">>),
       Put("carrier_freq_r_16", T("ArfcnValueNr")),
       PutIf("validity_cell_list_r_16", T("ValidityCellList"))>>)]
FromValidityCellList ==
  [ValidityCellList |-> Codec(
     <<Get("0", NonEmpty(1, 8, T("PciRange")))>>,
     <<Put("0", NonEmpty(1, 8, T("PciRange")))>>),
   MeasIdleCarrierNrR16 |-> Codec(
     <<ReadHeader(TRUE, 5), Get("carrier_freq_r_16", T("ArfcnValueNr")),
       Get("ssb_subcarrier_spacing_r_16", T("SubcarrierSpacing")),
       GetIf(1, "frequency_band_list", T("MultiFrequencyBandListNr")),
       GetIf(2, "meas_cell_list_nr_r_16", T("CellListNrR16")),
       Get("report_quantities_r_16", T("ReportQuantitiesR16")),
       GetIf(3, "quality_threshold_r_16", T("QualityThresholdR16")),
       GetIf(4, "ssb_meas_config_r_16", T("SsbMeasConfigR16")),
       GetIf(5, "beam_meas_config_idle_r_16", T("BeamMeasConfigIdleNrR16"))>>,
     <<WriteHeader(TRUE, <<"frequency_band_list", "meas_cell_list_nr_r_16",
       "quality_threshold_r_16", "ssb_meas_config_r_16", "beam_meas_config_idle_r_16">>),
       Put("carrier_freq_r_16", T("ArfcnValueNr")),
       Put("ssb_subcarrier_spacing_r_16", T("SubcarrierSpacing")),
       PutIf("frequency_band_list", T("MultiFrequencyBandListNr")),
       PutIf("meas_cell_list_nr_r_16", T("CellListNrR16")),
       Put("report_quantities_r_16", T("ReportQuantitiesR16")),
       PutIf("quality_threshold_r_16", T("QualityThresholdR16")),
       PutIf("ssb_meas_config_r_16", T("SsbMeasConfigR16")),
       PutIf("beam_meas_config_idle_r_16", T("BeamMeasConfigIdleNrR16"))>>)]
FromMeasIdleCarrierEutraR16 ==
  [MeasIdleCarrierEutraR16 |-> Codec(
     <<ReadHeader(TRUE, 2), Get("carrier_freq_eutra_r_16", T("ArfcnValueEutra")),
       Get("allowed_meas_bandwidth_r_16", T("EutraAllowedMeasBandwidth")),
       GetIf(1, "meas_cell_list_eutra_r_16", T("CellListEutraR16")),
       Get("report_quantities_eutra_r_16", T("ReportQuantitiesEutraR16")),
       GetIf(2, "quality_threshold_eutra_r_16", T("QualityThresholdEutraR16"))>>,
     <<WriteHeader(TRUE, <<"meas_cell_list_eutra_r_16", "quality_threshold_eutra_r_16">>),
       Put("carrier_freq_eutra_r_16", T("ArfcnValueEutra")),
       Put("allowed_meas_bandwidth_r_16", T("EutraAllowedMeasBandwidth")),
       PutIf("meas_cell_list_eutra_r_16", T("CellListEutraR16")),
       Put("report_quantities_eutra_r_16", T("ReportQuantitiesEutraR16")),
       PutIf("quality_threshold_eutra_r_16", T("QualityThresholdEutraR16"))>>),
   CellListNrR16 |-> Codec(
     <<Get("0", NonEmpty(1, 8, T("PciRange")))>>,
     <<Put("0", NonEmpty(1, 8, T("PciRange")))>>),
   CellListEutraR16 |-> Codec(
     <<Get("0", NonEmpty(1, 8, T("EutraPhysCellIdRange")))>>,
     <<Put("0", NonEmpty(1, 8, T("EutraPhysCellIdRange")))>>)]
FromBeamMeasConfigIdleNrR16 ==
  [BeamMeasConfigIdleNrR16 |-> Codec(
     <<ReadHeader(FALSE, 0),
       Get("report_quantity_rs_indexes_r_16", T("ReportQuantityRsIndexesR16")),
       Get("max_nrof_rs_indexes_to_report_r_16", Num(1, 32, FALSE, "u8")),
       Get("include_beam_measurements_r_16", T("BOOL"))>>,
     <<WriteHeader(FALSE, <<>>),
       Put("report_quantity_rs_indexes_r_16", T("ReportQuantityRsIndexesR16")),
       Put("max_nrof_rs_indexes_to_report_r_16", Num(1, 32, FALSE, "u8")),
       Put("include_beam_measurements_r_16", T("BOOL"))>>),
   RsrqRangeEutraR16 |-> Codec(
     <<Get("0", Num(-30, 46, FALSE, "i8"))>>,
     <<Put("0", Num(-30, 46, FALSE, "i8"))>>),
   MeasIdToAddModList |-> Codec(
     <<Get("0", NonEmpty(1, 64, T("MeasIdToAddMod")))>>,
     <<Put("0", NonEmpty(1, 64, T("MeasIdToAddMod")))>>),
   MeasIdToAddMod |-> Codec(
     <<ReadHeader(FALSE, 0), Get("meas_id", T("MeasId")), Get("meas_object_id", T("MeasObjectId")),
       Get("report_config_id", T("ReportConfigId"))>>,
     <<WriteHeader(FALSE, <<>>), Put("meas_id", T("MeasId")),
       Put("meas_object_id", T("MeasObjectId")), Put("report_config_id", T("ReportConfigId"))>>)]
MeasObjectNrDecode ==
  <<ReadHeader(TRUE, 15), GetIf(1, "ssb_frequency", T("ArfcnValueNr")),
    GetIf(2, "ssb_subcarrier_spacing", T("SubcarrierSpacing")), GetIf(3, "smtc_1", T("SsbMtc")),
    GetIf(4, "smtc_2", T("SsbMtc2")), GetIf(5, "ref_freq_csi_rs", T("ArfcnValueNr")),
    Get("reference_signal_config", T("ReferenceSignalConfig")),
    GetIf(6, "abs_thresh_ss_blocks_consolidation", T("ThresholdNr")),
    GetIf(7, "abs_thresh_csi_rs_consolidation", T("ThresholdNr")),
    GetIf(8, "nrof_ss_blocks_to_average", Num(2, 16, FALSE, "u8")),
    GetIf(9, "nrof_csi_rs_resources_to_average", Num(2, 16, FALSE, "u8")),
    Get("quantity_config_index", Num(1, 2, FALSE, "u8")), Get("offset_mo", T("QOffsetRangeList")),
    GetIf(10, "cells_to_remove_list", T("PciList")),
    GetIf(11, "cells_to_add_mod_list", T("CellsToAddModList")),
    GetIf(12, "black_cells_to_remove_list", T("PciRangeIndexList")),
    GetIf(13, "black_cells_to_add_mod_list", NonEmpty(1, 8, T("PciRangeElement"))),
    GetIf(14, "white_cells_to_remove_list", T("PciRangeIndexList")),
    GetIf(15, "white_cells_to_add_mod_list", NonEmpty(1, 8, T("PciRangeElement")))>>
MeasObjectNrEncode ==
  <<WriteHeader(TRUE, <<"ssb_frequency", "ssb_subcarrier_spacing", "smtc_1", "smtc_2",
    "ref_freq_csi_rs", "abs_thresh_ss_blocks_consolidation", "abs_thresh_csi_rs_consolidation",
    "nrof_ss_blocks_to_average", "nrof_csi_rs_resources_to_average", "cells_to_remove_list",
    "cells_to_add_mod_list", "black_cells_to_remove_list", "black_cells_to_add_mod_list",
    "white_cells_to_remove_list", "white_cells_to_add_mod_list">>),
    PutIf("ssb_frequency", T("ArfcnValueNr")),
    PutIf("ssb_subcarrier_spacing", T("SubcarrierSpacing")), PutIf("smtc_1", T("SsbMtc")),
    PutIf("smtc_2", T("SsbMtc2")), PutIf("ref_freq_csi_rs", T("ArfcnValueNr")),
    Put("reference_signal_config", T("ReferenceSignalConfig")),
    PutIf("abs_thresh_ss_blocks_consolidation", T("ThresholdNr")),
    PutIf("abs_thresh_csi_rs_consolidation", T("ThresholdNr")),
    PutIf("nrof_ss_blocks_to_average", Num(2, 16, FALSE, "u8")),
    PutIf("nrof_csi_rs_resources_to_average", Num(2, 16, FALSE, "u8")),
    Put("quantity_config_index", Num(1, 2, FALSE, "u8")), Put("offset_mo", T("QOffsetRangeList")),
    PutIf("cells_to_remove_list", T("PciList")),
    PutIf("cells_to_add_mod_list", T("CellsToAddModList")),
    PutIf("black_cells_to_remove_list", T("PciRangeIndexList")),
    PutIf("black_cells_to_add_mod_list", NonEmpty(1, 8, T("PciRangeElement"))),
    PutIf("white_cells_to_remove_list", T("PciRangeIndexList")),
    PutIf("white_cells_to_add_mod_list", NonEmpty(1, 8, T("PciRangeElement")))>>
FromMeasObjectId ==
  [MeasObjectId |-> Codec(
     <<Get("0", Num(1, 64, FALSE, "u8"))>>,
     <<Put("0", Num(1, 64, FALSE, "u8"))>>),
   MeasObjectNr |-> Codec(MeasObjectNrDecode, MeasObjectNrEncode)]
FromReferenceSignalConfig ==
  [ReferenceSignalConfig |-> Codec(
     <<ReadHeader(FALSE, 2), GetIf(1, "ssb_config_mobility", T("SsbConfigMobility")),
       GetIf(2, "csi_rs_resource_config_mobility", SetupRelease("CsiRsResourceConfigMobility"))>>,
     <<WriteHeader(FALSE, <<"ssb_config_mobility", "csi_rs_resource_config_mobility">>),
       PutIf("ssb_config_mobility", T("SsbConfigMobility")),
       PutIf("csi_rs_resource_config_mobility", SetupRelease("CsiRsResourceConfigMobility"))>>),
   SsbConfigMobility |-> Codec(
     <<ReadHeader(TRUE, 2), GetIf(1, "ssb_to_measure", SetupRelease("SsbToMeasure")),
       Get("derive_ssb_index_from_cell", T("BOOL")),
       GetIf(2, "ss_rssi_measurement", T("SsRssiMeasurement"))>>,
     <<WriteHeader(TRUE, <<"ssb_to_measure", "ss_rssi_measurement">>),
       PutIf("ssb_to_measure", SetupRelease("SsbToMeasure")),
       Put("derive_ssb_index_from_cell", T("BOOL")),
       PutIf("ss_rssi_measurement", T("SsRssiMeasurement"))>>)]
FromQOffsetRangeList ==
  [QOffsetRangeList |-> Codec(
     <<ReadHeader(FALSE, 6), GetIf(1, "rsrp_offset_ssb", T("QOffsetRange")),
       GetIf(2, "rsrq_offset_ssb", T("QOffsetRange")),
       GetIf(3, "sinr_offset_ssb", T("QOffsetRange")),
       GetIf(4, "rsrp_offset_csi_rs", T("QOffsetRange")),
       GetIf(5, "rsrq_offset_csi_rs", T("QOffsetRange")),
       GetIf(6, "sinr_offset_csi_rs", T("QOffsetRange"))>>,
     <<WriteHeader(FALSE, <<"rsrp_offset_ssb", "rsrq_offset_ssb", "sinr_offset_ssb",
       "rsrp_offset_csi_rs", "rsrq_offset_csi_rs", "sinr_offset_csi_rs">>),
       PutIf("rsrp_offset_ssb", T("QOffsetRange")), PutIf("rsrq_offset_ssb", T("QOffsetRange")),
       PutIf("sinr_offset_ssb", T("QOffsetRange")), PutIf("rsrp_offset_csi_rs", T("QOffsetRange")),
       PutIf("rsrq_offset_csi_rs", T("QOffsetRange")),
       PutIf("sinr_offset_csi_rs", T("QOffsetRange"))>>),
   ThresholdNr |-> Codec(
     <<ReadHeader(FALSE, 3), GetIf(1, "threshold_rsrp", T("RsrpRange")),
       GetIf(2, "threshold_rsrq", T("RsrqRange")), GetIf(3, "threshold_si_nr", T("SiNrRange"))>>,
     <<WriteHeader(FALSE, <<"threshold_rsrp", "threshold_rsrq", "threshold_si_nr">>),
       PutIf("threshold_rsrp", T("RsrpRange")), PutIf("threshold_rsrq", T("RsrqRange")),
       PutIf("threshold_si_nr", T("SiNrRange"))>>)]
FromCellsToAddModList ==
  [CellsToAddModList |-> Codec(
     <<Get("0", NonEmpty(1, 32, T("CellsToAddMod")))>>,
     <<Put("0", NonEmpty(1, 32, T("CellsToAddMod")))>>),
   CellsToAddMod |-> Codec(
     <<ReadHeader(FALSE, 0), Get("phys_cell_id", T("PhysCellId")),
       Get("cell_individual_offset", T("QOffsetRangeList"))>>,
     <<WriteHeader(FALSE, <<>>), Put("phys_cell_id", T("PhysCellId")),
       Put("cell_individual_offset", T("QOffsetRangeList"))>>)]
FromMeasObjectToAddModList ==
  [MeasObjectToAddModList |-> Codec(
     <<Get("0", NonEmpty(1, 64, T("MeasObjectToAddMod")))>>,
     <<Put("0", NonEmpty(1, 64, T("MeasObjectToAddMod")))>>),
   MeasObjectToAddMod |-> Codec(
     <<ReadHeader(FALSE, 0), Get("meas_object_id", T("MeasObjectId")),
       Get("meas_object", T("MeasObject"))>>,
     <<WriteHeader(FALSE, <<>>), Put("meas_object_id", T("MeasObjectId")),
       Put("meas_object", T("MeasObject"))>>)]
FromMeasResults ==
  [MeasResults |-> Codec(
     <<ReadHeader(TRUE, 1), Get("meas_id", T("MeasId")),
       Get("meas_result_serving_mo_list", T("MeasResultServMoList")),
       GetIf(1, "meas_result_neigh_cells", T("MeasResultNeighCells"))>>,
     <<WriteHeader(TRUE, <<"meas_result_neigh_cells">>), Put("meas_id", T("MeasId")),
       Put("meas_result_serving_mo_list", T("MeasResultServMoList")),
       PutIf("meas_result_neigh_cells", T("MeasResultNeighCells"))>>),
   MeasResultServMoList |-> Codec(
     <<Get("0", NonEmpty(1, 32, T("MeasResultServMo")))>>,
     <<Put("0", NonEmpty(1, 32, T("MeasResultServMo")))>>),
   MeasResultServMo |-> Codec(
     <<ReadHeader(TRUE, 1), Get("serv_cell_id", T("ServCellIndex")),
       Get("meas_result_serving_cell", T("MeasResultNr")),
       GetIf(1, "meas_result_best_neigh_cell", T("MeasResultNr"))>>,
     <<WriteHeader(TRUE, <<"meas_result_best_neigh_cell">>),
       Put("serv_cell_id", T("ServCellIndex")), Put("meas_result_serving_cell", T("MeasResultNr")),
       PutIf("meas_result_best_neigh_cell", T("MeasResultNr"))>>)]
FromMeasResultListNr ==
  [MeasResultListNr |-> Codec(
     <<Get("0", NonEmpty(1, 8, T("MeasResultNr")))>>,
     <<Put("0", NonEmpty(1, 8, T("MeasResultNr")))>>),
   MeasResultNr |-> Codec(
     <<ReadHeader(TRUE, 1), GetIf(1, "phys_cell_id", T("PhysCellId")),
       Get("meas_result", T("MeasResult"))>>,
     <<WriteHeader(TRUE, <<"phys_cell_id">>), PutIf("phys_cell_id", T("PhysCellId")),
       Put("meas_result", T("MeasResult"))>>),
   MeasResultListEutra |-> Codec(
     <<Get("0", NonEmpty(1, 8, T("MeasResultEutra")))>>,
     <<Put("0", NonEmpty(1, 8, T("MeasResultEutra")))>>),
   MeasResultEutra |-> Codec(
     <<ReadHeader(TRUE, 1), Get("eutra_phys_cell_id", T("PhysCellId")),
       Get("meas_result", T("MeasQuantityResultsEutra")), GetIf(1, "cgi_info", T("CgiInfoEutra"))>>,
     <<WriteHeader(TRUE, <<"cgi_info">>), Put("eutra_phys_cell_id", T("PhysCellId")),
       Put("meas_result", T("MeasQuantityResultsEutra")), PutIf("cgi_info", T("CgiInfoEutra"))>>)]
FromMultiBandInfoListEutra ==
  [MultiBandInfoListEutra |-> Codec(
     <<Get("0", NonEmpty(1, 8, T("FreqBandIndicatorEutra")))>>,
     <<Put("0", NonEmpty(1, 8, T("FreqBandIndicatorEutra")))>>),
   MeasQuantityResults |-> Codec(
     <<ReadHeader(FALSE, 3), GetIf(1, "rsrp", T("RsrpRange")), GetIf(2, "rsrq", T("RsrqRange")),
       GetIf(3, "sinr", T("SiNrRange"))>>,
     <<WriteHeader(FALSE, <<"rsrp", "rsrq", "sinr">>), PutIf("rsrp", T("RsrpRange")),
       PutIf("rsrq", T("RsrqRange")), PutIf("sinr", T("SiNrRange"))>>),
   MeasQuantityResultsEutra |-> Codec(
     <<ReadHeader(FALSE, 3), GetIf(1, "rsrp", T("RsrpRangeEutra")),
       GetIf(2, "rsrq", T("RsrqRangeEutra")), GetIf(3, "sinr", T("SiNrRangeEutra"))>>,
     <<WriteHeader(FALSE, <<"rsrp", "rsrq", "sinr">>), PutIf("rsrp", T("RsrpRangeEutra")),
       PutIf("rsrq", T("RsrqRangeEutra")), PutIf("sinr", T("SiNrRangeEutra"))>>)]
FromResultsPerSsbIndexList ==
  [ResultsPerSsbIndexList |-> Codec(
     <<Get("0", NonEmpty(1, 64, T("ResultsPerSsbIndex")))>>,
     <<Put("0", NonEmpty(1, 64, T("ResultsPerSsbIndex")))>>),
   ResultsPerSsbIndex |-> Codec(
     <<ReadHeader(FALSE, 1), Get("ssb_index", T("SsbIndex")),
       GetIf(1, "ssb_results", T("MeasQuantityResults"))>>,
     <<WriteHeader(FALSE, <<"ssb_results">>), Put("ssb_index", T("SsbIndex")),
       PutIf("ssb_results", T("MeasQuantityResults"))>>),
   ResultsPerCsiRsIndexList |-> Codec(
     <<Get("0", NonEmpty(1, 64, T("ResultsPerCsiRsIndex")))>>,
     <<Put("0", NonEmpty(1, 64, T("ResultsPerCsiRsIndex")))>>),
   ResultsPerCsiRsIndex |-> Codec(
     <<ReadHeader(FALSE, 1), Get("csi_rs_index", T("CsiRsIndex")),
       GetIf(1, "csi_rs_results", T("MeasQuantityResults"))>>,
     <<WriteHeader(FALSE, <<"csi_rs_results">>), Put("csi_rs_index", T("CsiRsIndex")),
       PutIf("csi_rs_results", T("MeasQuantityResults"))>>)]
FromMeasResultListUtraFddR16 ==
  [MeasResultListUtraFddR16 |-> Codec(
     <<Get("0", NonEmpty(1, 8, T("MeasResultUtraFddR16")))>>,
     <<Put("0", NonEmpty(1, 8, T("MeasResultUtraFddR16")))>>),
   MeasResultUtraFddR16 |-> Codec(
     <<ReadHeader(FALSE, 0), Get("phys_cell_id_r_16", T("PhysCellIdUtraFddR16")),
       Get("meas_result_r_16", T("MeasResultR16_2"))>>,
     <<WriteHeader(FALSE, <<>>), Put("phys_cell_id_r_16", T("PhysCellIdUtraFddR16")),
       Put("meas_result_r_16", T("MeasResultR16_2"))>>)]
FromMeasResult2eutra ==
  [MeasResult2eutra |-> Codec(
     <<ReadHeader(TRUE, 2), Get("carrier_freq", T("ArfcnValueEutra")),
       GetIf(1, "meas_result_serving_cell", T("MeasResultEutra")),
       GetIf(2, "meas_result_best_neigh_cell", T("MeasResultEutra"))>>,
     <<WriteHeader(TRUE, <<"meas_result_serving_cell", "meas_result_best_neigh_cell">>),
       Put("carrier_freq", T("ArfcnValueEutra")),
       PutIf("meas_result_serving_cell", T("MeasResultEutra")),
       PutIf("meas_result_best_neigh_cell", T("MeasResultEutra"))>>),
   MeasResult2Nr |-> Codec(
     <<ReadHeader(TRUE, 4), GetIf(1, "ssb_frequency", T("ArfcnValueNr")),
       GetIf(2, "ref_freq_csi_rs", T("ArfcnValueNr")),
       GetIf(3, "meas_result_serving_cell", T("MeasResultNr")),
       GetIf(4, "meas_result_neigh_cell_list_nr", T("MeasResultListNr"))>>,
     <<WriteHeader(TRUE, <<"ssb_frequency", "ref_freq_csi_rs", "meas_result_serving_cell",
       "meas_result_neigh_cell_list_nr">>), PutIf("ssb_frequency", T("ArfcnValueNr")),
       PutIf("ref_freq_csi_rs", T("ArfcnValueNr")),
       PutIf("meas_result_serving_cell", T("MeasResultNr")),
       PutIf("meas_result_neigh_cell_list_nr", T("MeasResultListNr"))>>)]
FromMeasResultIdleEutraR16 ==
  [MeasResultIdleEutraR16 |-> Codec(
     <<ReadHeader(TRUE, 0),
       Get("meas_results_per_carrier_list_idle_eutra_r_16", NonEmpty(1, 8, T("MeasResultsPerCarrierIdleEutraR16")))>>,
     <<WriteHeader(TRUE, <<>>),
       Put("meas_results_per_carrier_list_idle_eutra_r_16", NonEmpty(1, 8, T("MeasResultsPerCarrierIdleEutraR16")))>>),
   MeasResultsPerCarrierIdleEutraR16 |-> Codec(
     <<ReadHeader(TRUE, 0), Get("carrier_freq_eutra_r_16", T("ArfcnValueEutra")),
       Get("meas_results_per_cell_list_idle_eutra_r_16", NonEmpty(1, 8, T("MeasResultsPerCellIdleEutraR16")))>>,
     <<WriteHeader(TRUE, <<>>), Put("carrier_freq_eutra_r_16", T("ArfcnValueEutra")),
       Put("meas_results_per_cell_list_idle_eutra_r_16", NonEmpty(1, 8, T("MeasResultsPerCellIdleEutraR16")))>>),
   MeasResultsPerCellIdleEutraR16 |-> Codec(
     <<ReadHeader(TRUE, 0), Get("eutra_phys_cell_id_r_16", T("EutraPhysCellId")),
       Get("meas_idle_result_eutra_r_16", T("MeasIdleResultEutraR16"))>>,
     <<WriteHeader(TRUE, <<>>), Put("eutra_phys_cell_id_r_16", T("EutraPhysCellId")),
       Put("meas_idle_result_eutra_r_16", T("MeasIdleResultEutraR16"))>>)]
FromMeasResultIdleNrR16 ==
  [MeasResultIdleNrR16 |-> Codec(
     <<ReadHeader(TRUE, 1), Get("meas_result_serving_cell_r_16", T("MeasResultServingCellR16_1")),
       GetIf(1, "meas_results_per_carrier_list_idle_nr_r_16", NonEmpty(1, 8, T("MeasResultsPerCarrierIdleNrR16")))>>,
     <<WriteHeader(TRUE, <<"meas_results_per_carrier_list_idle_nr_r_16">>),
       Put("meas_result_serving_cell_r_16", T("MeasResultServingCellR16_1")),
       PutIf("meas_results_per_carrier_list_idle_nr_r_16", NonEmpty(1, 8, T("MeasResultsPerCarrierIdleNrR16")))>>),
   MeasResultsPerCarrierIdleNrR16 |-> Codec(
     <<ReadHeader(TRUE, 0), Get("carrier_freq_r_16", T("ArfcnValueNr")),
       Get("meas_results_per_cell_list_idle_nr_r_16", NonEmpty(1, 8, T("MeasResultsPerCellIdleNrR16")))>>,
     <<WriteHeader(TRUE, <<>>), Put("carrier_freq_r_16", T("ArfcnValueNr")),
       Put("meas_results_per_cell_list_idle_nr_r_16", NonEmpty(1, 8, T("MeasResultsPerCellIdleNrR16")))>>),
   MeasResultsPerCellIdleNrR16 |-> Codec(
     <<ReadHeader(TRUE, 0), Get("phys_cell_id_r_16", T("PhysCellId")),
       Get("meas_idle_result_nr_r_16", T("MeasIdleResultNrR16"))>>,
     <<WriteHeader(TRUE, <<>>), Put("phys_cell_id_r_16", T("PhysCellId")),
       Put("meas_idle_result_nr_r_16", T("MeasIdleResultNrR16"))>>)]
FromResultsPerSsbIndexListR16 ==
  [ResultsPerSsbIndexListR16 |-> Codec(
     <<Get("0", NonEmpty(1, 32, T("ResultsPerSsbIndexIdleR16")))>>,
     <<Put("0", NonEmpty(1, 32, T("ResultsPerSsbIndexIdleR16")))>>),
   ResultsPerSsbIndexIdleR16 |-> Codec(
     <<ReadHeader(FALSE, 1), Get("ssb_index_r_16", T("SsbIndex")),
       GetIf(1, "ssb_results_r_16", T("SsbResultsR16"))>>,
     <<WriteHeader(FALSE, <<"ssb_results_r_16">>), Put("ssb_index_r_16", T("SsbIndex")),
       PutIf("ssb_results_r_16", T("SsbResultsR16"))>>)]
FromMeasResultList2Nr ==
  [MeasResultList2Nr |-> Codec(
     <<Get("0", NonEmpty(1, 8, T("MeasResult2Nr")))>>,
     <<Put("0", NonEmpty(1, 8, T("MeasResult2Nr")))>>)]
FromRsrpRangeEutra ==
  [RsrpRangeEutra |-> Codec(
     <<Get("0", Num(0, 97, FALSE, "u8"))>>,
     <<Put("0", Num(0, 97, FALSE, "u8"))>>),
   RsrqRangeEutra |-> Codec(
     <<Get("0", Num(0, 34, FALSE, "u8"))>>,
     <<Put("0", Num(0, 34, FALSE, "u8"))>>),
   SiNrRangeEutra |-> Codec(
     <<Get("0", Num(0, 127, FALSE, "u8"))>>,
     <<Put("0", Num(0, 127, FALSE, "u8"))>>),
   MobilityStateParameters |-> Codec(
     <<ReadHeader(FALSE, 0), Get("t_evaluation", T("TEvaluation")),
       Get("t_hyst_normal", T("THystNormal")), Get("n_cell_change_medium", Num(1, 16, FALSE, "u8")),
       Get("n_cell_change_high", Num(1, 16, FALSE, "u8"))>>,
     <<WriteHeader(FALSE, <<>>), Put("t_evaluation", T("TEvaluation")),
       Put("t_hyst_normal", T("THystNormal")), Put("n_cell_change_medium", Num(1, 16, FALSE, "u8")),
       Put("n_cell_change_high", Num(1, 16, FALSE, "u8"))>>)]
FromMultiFrequencyBandListNr ==
  [MultiFrequencyBandListNr |-> Codec(
     <<Get("0", NonEmpty(1, 8, T("FreqBandIndicatorNr")))>>,
     <<Put("0", NonEmpty(1, 8, T("FreqBandIndicatorNr")))>>),
   MultiFrequencyBandListNrSib |-> Codec(
     <<Get("0", NonEmpty(1, 8, T("NrMultiBandInfo")))>>,
     <<Put("0", NonEmpty(1, 8, T("NrMultiBandInfo")))>>),
   NrMultiBandInfo |-> Codec(
     <<ReadHeader(FALSE, 2), GetIf(1, "freq_band_indicator_nr", T("FreqBandIndicatorNr")),
       GetIf(2, "nr_ns_pmax_list", T("NrNsPmaxList"))>>,
     <<WriteHeader(FALSE, <<"freq_band_indicator_nr", "nr_ns_pmax_list">>),
       PutIf("freq_band_indicator_nr", T("FreqBandIndicatorNr")),
       PutIf("nr_ns_pmax_list", T("NrNsPmaxList"))>>)]
FromNeedForGapsConfigNrR16 ==
  [NeedForGapsConfigNrR16 |-> Codec(
     <<ReadHeader(FALSE, 1),
       GetIf(1, "requested_target_band_filter_nr_r_16", NonEmpty(1, 1024, T("FreqBandIndicatorNr")))>>,
     <<WriteHeader(FALSE, <<"requested_target_band_filter_nr_r_16">>),
       PutIf("requested_target_band_filter_nr_r_16", NonEmpty(1, 1024, T("FreqBandIndicatorNr")))>>),
   NeedForGapsInfoNrR16 |-> Codec(
     <<ReadHeader(FALSE, 0), Get("intra_freq_need_for_gap_r_16", T("NeedForGapsIntraFreqlistR16")),
       Get("inter_freq_need_for_gap_r_16", T("NeedForGapsBandlistNrR16"))>>,
     <<WriteHeader(FALSE, <<>>),
       Put("intra_freq_need_for_gap_r_16", T("NeedForGapsIntraFreqlistR16")),
       Put("inter_freq_need_for_gap_r_16", T("NeedForGapsBandlistNrR16"))>>),
   NeedForGapsIntraFreqlistR16 |-> Codec(
     <<Get("0", NonEmpty(1, 32, T("NeedForGapsIntraFreqR16")))>>,
     <<Put("0", NonEmpty(1, 32, T("NeedForGapsIntraFreqR16")))>>)]
FromNeedForGapsBandlistNrR16 ==
  [NeedForGapsBandlistNrR16 |-> Codec(
     <<Get("0", NonEmpty(1, 1024, T("NeedForGapsNrR16")))>>,
     <<Put("0", NonEmpty(1, 1024, T("NeedForGapsNrR16")))>>),
   NeedForGapsIntraFreqR16 |-> Codec(
     <<ReadHeader(FALSE, 0), Get("serv_cell_id_r_16", T("ServCellIndex")),
       Get("gap_indication_intra_r_16", T("GapIndicationIntraR16"))>>,
     <<WriteHeader(FALSE, <<>>), Put("serv_cell_id_r_16", T("ServCellIndex")),
       Put("gap_indication_intra_r_16", T("GapIndicationIntraR16"))>>),
   NeedForGapsNrR16 |-> Codec(
     <<ReadHeader(FALSE, 0), Get("band_nr_r_16", T("FreqBandIndicatorNr")),
       Get("gap_indication_r_16", T("GapIndicationR16"))>>,
     <<WriteHeader(FALSE, <<>>), Put("band_nr_r_16", T("FreqBandIndicatorNr")),
       Put("gap_indication_r_16", T("GapIndicationR16"))>>),
   NextHopChainingCount |-> Codec(
     <<Get("0", Num(0, 7, FALSE, "u8"))>>,
     <<Put("0", Num(0, 7, FALSE, "u8"))>>)]
FromNg5gSTmsi ==
  [Ng5gSTmsi |-> Codec(<<Get("0", Bits(48, 48, FALSE))>>, <<Put("0", Bits(48, 48, FALSE))>>)]
FromNrNsPmaxList ==
  [NrNsPmaxList |-> Codec(
     <<Get("0", NonEmpty(1, 8, T("NrNsPmaxValue")))>>,
     <<Put("0", NonEmpty(1, 8, T("NrNsPmaxValue")))>>),
   NrNsPmaxValue |-> Codec(
     <<ReadHeader(FALSE, 1), GetIf(1, "additional_pmax", T("PMax")),
       Get("additional_spectrum_emission", T("AdditionalSpectrumEmission"))>>,
     <<WriteHeader(FALSE, <<"additional_pmax">>), PutIf("additional_pmax", T("PMax")),
       Put("additional_spectrum_emission", T("AdditionalSpectrumEmission"))>>)]

Codecs == {FromAdditionalSpectrumEmission, FromAmfIdentifier, FromBapRoutingIdR16,
  FromBhRlcChannelIdR16, FromBwpId, FromCellAccessRelatedInfoEutra5gc, FromCellIdentityEutra5gc,
  FromCellGroupId, FromCgiInfoEutra, FromCgiInfoLoggingR16, FromCommonLocationInfoR16,
  FromCondReconfigToAddModR16, FromCondReconfigToRemoveListR16, FromCsiRsResourceConfigMobility,
  FromCsiRsResourceMobility, FromDedicatedNasMessage, FromDrbIdentity, FromFilterCoefficient,
  FromHysteresis, FromIRntiValue, FromLocationInfoR16, FromEutraRstdInfo,
  FromLogicalChannelIdentity, FromMeasConfig, FromMeasObjectToRemoveList, FromGapConfig, FromMeasId,
  FromMeasIdleConfigDedicatedR16, FromValidityCellList, FromMeasIdleCarrierEutraR16,
  FromBeamMeasConfigIdleNrR16, FromMeasObjectId, FromReferenceSignalConfig, FromQOffsetRangeList,
  FromCellsToAddModList, FromMeasObjectToAddModList, FromMeasResults, FromMeasResultListNr,
  FromMultiBandInfoListEutra, FromResultsPerSsbIndexList, FromMeasResultListUtraFddR16,
  FromMeasResult2eutra, FromMeasResultIdleEutraR16, FromMeasResultIdleNrR16,
  FromResultsPerSsbIndexListR16, FromMeasResultList2Nr, FromRsrpRangeEutra,
  FromMultiFrequencyBandListNr, FromNeedForGapsConfigNrR16, FromNeedForGapsBandlistNrR16,
  FromNg5gSTmsi, FromNrNsPmaxList}
=============================================================================
