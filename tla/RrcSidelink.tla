---------------------------- MODULE RrcSidelink ----------------------------
(***************************************************************************)
(* The programs of the codecs of rrc/src/rrc.rs that a message of the CCCH *)
(* or the DCCH, in either direction, or SIB2 may hold: the information     *)
(* elements of the sidelink.                                               *)
(***************************************************************************)
EXTENDS PerLayout

FromSlBwpConfigR16 ==
  [SlBwpConfigR16 |-> Codec(
     <<ReadHeader(TRUE, 2), Get("sl_bwp_id", T("BwpId")),
       GetIf(1, "sl_bwp_generic_r_16", T("SlBwpGenericR16")),
       GetIf(2, "sl_bwp_pool_config_r_16", T("SlBwpPoolConfigR16"))>>,
     <<WriteHeader(TRUE, <<"sl_bwp_generic_r_16", "sl_bwp_pool_config_r_16">>),
       Put("sl_bwp_id", T("BwpId")), PutIf("sl_bwp_generic_r_16", T("SlBwpGenericR16")),
       PutIf("sl_bwp_pool_config_r_16", T("SlBwpPoolConfigR16"))>>),
   SlBwpGenericR16 |-> Codec(
     <<ReadHeader(TRUE, 5), GetIf(1, "sl_bwp_r_16", T("Bwp")),
       GetIf(2, "sl_length_symbols_r_16", T("SlLengthSymbolsR16")),
       GetIf(3, "sl_start_symbol_r_16", T("SlStartSymbolR16")),
       GetIf(4, "sl_psbch_config_r_16", SetupRelease("SlPsbchConfigR16")),
       GetIf(5, "sl_tx_direct_current_location_r_16", Num(0, 3301, FALSE, "u16"))>>,
     <<WriteHeader(TRUE, <<"sl_bwp_r_16", "sl_length_symbols_r_16", "sl_start_symbol_r_16",
       "sl_psbch_config_r_16", "sl_tx_direct_current_location_r_16">>),
       PutIf("sl_bwp_r_16", T("Bwp")), PutIf("sl_length_symbols_r_16", T("SlLengthSymbolsR16")),
       PutIf("sl_start_symbol_r_16", T("SlStartSymbolR16")),
       PutIf("sl_psbch_config_r_16", SetupRelease("SlPsbchConfigR16")),
       PutIf("sl_tx_direct_current_location_r_16", Num(0, 3301, FALSE, "u16"))>>)]
FromSlBwpPoolConfigR16 ==
  [SlBwpPoolConfigR16 |-> Codec(
     <<ReadHeader(FALSE, 4), GetIf(1, "sl_rx_pool_r_16", NonEmpty(1, 16, T("SlResourcePoolR16"))),
       GetIf(2, "sl_tx_pool_selected_normal_r_16", T("SlTxPoolDedicatedR16")),
       GetIf(3, "sl_tx_pool_scheduling_r_16", T("SlTxPoolDedicatedR16")),
       GetIf(4, "sl_tx_pool_exceptional_r_16", T("SlResourcePoolConfigR16"))>>,
     <<WriteHeader(FALSE, <<"sl_rx_pool_r_16", "sl_tx_pool_selected_normal_r_16",
       "sl_tx_pool_scheduling_r_16", "sl_tx_pool_exceptional_r_16">>),
       PutIf("sl_rx_pool_r_16", NonEmpty(1, 16, T("SlResourcePoolR16"))),
       PutIf("sl_tx_pool_selected_normal_r_16", T("SlTxPoolDedicatedR16")),
       PutIf("sl_tx_pool_scheduling_r_16", T("SlTxPoolDedicatedR16")),
       PutIf("sl_tx_pool_exceptional_r_16", T("SlResourcePoolConfigR16"))>>),
   SlTxPoolDedicatedR16 |-> Codec(
     <<ReadHeader(FALSE, 2),
       GetIf(1, "sl_pool_to_release_list_r_16", NonEmpty(1, 8, T("SlResourcePoolIdR16"))),
       GetIf(2, "sl_pool_to_add_mod_list_r_16", NonEmpty(1, 8, T("SlResourcePoolConfigR16")))>>,
     <<WriteHeader(FALSE, <<"sl_pool_to_release_list_r_16", "sl_pool_to_add_mod_list_r_16">>),
       PutIf("sl_pool_to_release_list_r_16", NonEmpty(1, 8, T("SlResourcePoolIdR16"))),
       PutIf("sl_pool_to_add_mod_list_r_16", NonEmpty(1, 8, T("SlResourcePoolConfigR16")))>>)]
FromSlResourcePoolConfigR16 ==
  [SlResourcePoolConfigR16 |-> Codec(
     <<ReadHeader(FALSE, 1), Get("sl_resource_pool_id_r_16", T("SlResourcePoolIdR16")),
       GetIf(1, "sl_resource_pool_r_16", T("SlResourcePoolR16"))>>,
     <<WriteHeader(FALSE, <<"sl_resource_pool_r_16">>),
       Put("sl_resource_pool_id_r_16", T("SlResourcePoolIdR16")),
       PutIf("sl_resource_pool_r_16", T("SlResourcePoolR16"))>>),
   SlResourcePoolIdR16 |-> Codec(
     <<Get("0", Num(1, 16, FALSE, "u8"))>>,
     <<Put("0", Num(1, 16, FALSE, "u8"))>>)]
FromSlCbrPriorityTxConfigListR16 ==
  [SlCbrPriorityTxConfigListR16 |-> Codec(
     <<Get("0", NonEmpty(1, 8, T("SlPriorityTxConfigIndexR16")))>>,
     <<Put("0", NonEmpty(1, 8, T("SlPriorityTxConfigIndexR16")))>>)]
FromSlPriorityTxConfigIndexR16 ==
  [SlPriorityTxConfigIndexR16 |-> Codec(
     <<ReadHeader(FALSE, 4), GetIf(1, "sl_priority_threshold_r_16", Num(1, 8, FALSE, "u8")),
       GetIf(2, "sl_default_tx_config_index_r_16", Num(0, 15, FALSE, "u8")),
       GetIf(3, "sl_cbr_config_index_r_16", Num(0, 7, FALSE, "u8")),
       GetIf(4, "sl_tx_config_index_list_r_16", NonEmpty(1, 16, T("SlTxConfigIndexR16")))>>,
     <<WriteHeader(FALSE, <<"sl_priority_threshold_r_16", "sl_default_tx_config_index_r_16",
       "sl_cbr_config_index_r_16", "sl_tx_config_index_list_r_16">>),
       PutIf("sl_priority_threshold_r_16", Num(1, 8, FALSE, "u8")),
       PutIf("sl_default_tx_config_index_r_16", Num(0, 15, FALSE, "u8")),
       PutIf("sl_cbr_config_index_r_16", Num(0, 7, FALSE, "u8")),
       PutIf("sl_tx_config_index_list_r_16", NonEmpty(1, 16, T("SlTxConfigIndexR16")))>>)]
FromSlTxConfigIndexR16 ==
  [SlTxConfigIndexR16 |-> Codec(
     <<Get("0", Num(0, 63, FALSE, "u8"))>>,
     <<Put("0", Num(0, 63, FALSE, "u8"))>>),
   SlCbrCommonTxConfigListR16 |-> Codec(
     <<ReadHeader(FALSE, 2),
       GetIf(1, "sl_cbr_range_config_list_r_16", NonEmpty(1, 8, T("SlCbrLevelsConfigR16"))),
       GetIf(2, "sl_cbr_pssch_tx_config_list_r_16", NonEmpty(1, 64, T("SlCbrPsschTxConfigR16")))>>,
     <<WriteHeader(FALSE, <<"sl_cbr_range_config_list_r_16", "sl_cbr_pssch_tx_config_list_r_16">>),
       PutIf("sl_cbr_range_config_list_r_16", NonEmpty(1, 8, T("SlCbrLevelsConfigR16"))),
       PutIf("sl_cbr_pssch_tx_config_list_r_16", NonEmpty(1, 64, T("SlCbrPsschTxConfigR16")))>>),
   SlCbrLevelsConfigR16 |-> Codec(
     <<Get("0", NonEmpty(1, 16, T("SlCbrR16")))>>,
     <<Put("0", NonEmpty(1, 16, T("SlCbrR16")))>>)]
FromSlCbrPsschTxConfigR16 ==
  [SlCbrPsschTxConfigR16 |-> Codec(
     <<ReadHeader(FALSE, 2), GetIf(1, "sl_cr_limit_r_16", Num(0, 10000, FALSE, "u16")),
       GetIf(2, "sl_tx_parameters_r_16", T("SlPsschTxParametersR16"))>>,
     <<WriteHeader(FALSE, <<"sl_cr_limit_r_16", "sl_tx_parameters_r_16">>),
       PutIf("sl_cr_limit_r_16", Num(0, 10000, FALSE, "u16")),
       PutIf("sl_tx_parameters_r_16", T("SlPsschTxParametersR16"))>>),
   SlCbrR16 |-> Codec(
     <<Get("0", Num(0, 100, FALSE, "u8"))>>,
     <<Put("0", Num(0, 100, FALSE, "u8"))>>),
   SlConfigDedicatedNrR16 |-> Codec(
     <<ReadHeader(TRUE, 6), GetIf(1, "sl_phy_mac_rlc_config_r_16", T("SlPhyMacRlcConfigR16")),
       GetIf(2, "sl_radio_bearer_to_release_list_r_16", NonEmpty(1, 512, T("SlrbUuConfigIndexR16"))),
       GetIf(3, "sl_radio_bearer_to_add_mod_list_r_16", NonEmpty(1, 512, T("SlRadioBearerConfigR16"))),
       GetIf(4, "sl_meas_config_info_to_release_list_r_16", NonEmpty(1, 32, T("SlDestinationIndexR16"))),
       GetIf(5, "sl_meas_config_info_to_add_mod_list_r_16", NonEmpty(1, 32, T("SlMeasConfigInfoR16"))),
       GetIf(6, "t400_r_16", T("T400R16_1"))>>,
     <<WriteHeader(TRUE, <<"sl_phy_mac_rlc_config_r_16", "sl_radio_bearer_to_release_list_r_16",
       "sl_radio_bearer_to_add_mod_list_r_16", "sl_meas_config_info_to_release_list_r_16",
       "sl_meas_config_info_to_add_mod_list_r_16", "t400_r_16">>),
       PutIf("sl_phy_mac_rlc_config_r_16", T("SlPhyMacRlcConfigR16")),
       PutIf("sl_radio_bearer_to_release_list_r_16", NonEmpty(1, 512, T("SlrbUuConfigIndexR16"))),
       PutIf("sl_radio_bearer_to_add_mod_list_r_16", NonEmpty(1, 512, T("SlRadioBearerConfigR16"))),
       PutIf("sl_meas_config_info_to_release_list_r_16", NonEmpty(1, 32, T("SlDestinationIndexR16"))),
       PutIf("sl_meas_config_info_to_add_mod_list_r_16", NonEmpty(1, 32, T("SlMeasConfigInfoR16"))),
       PutIf("t400_r_16", T("T400R16_1"))>>)]
SlPhyMacRlcConfigR16Decode ==
  <<ReadHeader(FALSE, 11),
    GetIf(1, "sl_scheduled_config_r_16", SetupRelease("SlScheduledConfigR16")),
    GetIf(2, "sl_ue_selected_config_r_16", SetupRelease("SlUeSelectedConfigR16")),
    GetIf(3, "sl_freq_info_to_release_list_r_16", NonEmpty(1, 8, T("SlFreqIdR16"))),
    GetIf(4, "sl_freq_info_to_add_mod_list_r_16", NonEmpty(1, 8, T("SlFreqConfigR16"))),
    GetIf(5, "sl_rlc_bearer_to_release_list_r_16", NonEmpty(1, 512, T("SlRlcBearerConfigIndexR16"))),
    GetIf(6, "sl_rlc_bearer_to_add_mod_list_r_16", NonEmpty(1, 512, T("SlRlcBearerConfigR16"))),
    GetIf(7, "sl_max_num_consecutive_dtx_r_16", T("SlMaxNumConsecutiveDtxR16_1")),
    GetIf(8, "sl_csi_acquisition_r_16", T("SlCsiAcquisitionR16_1")),
    GetIf(9, "sl_csi_scheduling_request_id_r_16", SetupRelease("SchedulingRequestId")),
    GetIf(10, "sl_ssb_priority_nr_r_16", Num(1, 8, FALSE, "u8")),
    GetIf(11, "network_controlled_sync_tx_r_16", T("NetworkControlledSyncTxR16"))>>
SlPhyMacRlcConfigR16Encode ==
  <<WriteHeader(FALSE, <<"sl_scheduled_config_r_16", "sl_ue_selected_config_r_16",
    "sl_freq_info_to_release_list_r_16", "sl_freq_info_to_add_mod_list_r_16",
    "sl_rlc_bearer_to_release_list_r_16", "sl_rlc_bearer_to_add_mod_list_r_16",
    "sl_max_num_consecutive_dtx_r_16", "sl_csi_acquisition_r_16",
    "sl_csi_scheduling_request_id_r_16", "sl_ssb_priority_nr_r_16",
    "network_controlled_sync_tx_r_16">>),
    PutIf("sl_scheduled_config_r_16", SetupRelease("SlScheduledConfigR16")),
    PutIf("sl_ue_selected_config_r_16", SetupRelease("SlUeSelectedConfigR16")),
    PutIf("sl_freq_info_to_release_list_r_16", NonEmpty(1, 8, T("SlFreqIdR16"))),
    PutIf("sl_freq_info_to_add_mod_list_r_16", NonEmpty(1, 8, T("SlFreqConfigR16"))),
    PutIf("sl_rlc_bearer_to_release_list_r_16", NonEmpty(1, 512, T("SlRlcBearerConfigIndexR16"))),
    PutIf("sl_rlc_bearer_to_add_mod_list_r_16", NonEmpty(1, 512, T("SlRlcBearerConfigR16"))),
    PutIf("sl_max_num_consecutive_dtx_r_16", T("SlMaxNumConsecutiveDtxR16_1")),
    PutIf("sl_csi_acquisition_r_16", T("SlCsiAcquisitionR16_1")),
    PutIf("sl_csi_scheduling_request_id_r_16", SetupRelease("SchedulingRequestId")),
    PutIf("sl_ssb_priority_nr_r_16", Num(1, 8, FALSE, "u8")),
    PutIf("network_controlled_sync_tx_r_16", T("NetworkControlledSyncTxR16"))>>
FromSlDestinationIndexR16 ==
  [SlDestinationIndexR16 |-> Codec(
     <<Get("0", Num(0, 31, FALSE, "u8"))>>,
     <<Put("0", Num(0, 31, FALSE, "u8"))>>),
   SlPhyMacRlcConfigR16 |-> Codec(SlPhyMacRlcConfigR16Decode, SlPhyMacRlcConfigR16Encode)]
FromSlConfiguredGrantConfigR16 ==
  [SlConfiguredGrantConfigR16 |-> Codec(
     <<ReadHeader(TRUE, 5), Get("sl_config_index_cg_r_16", T("SlConfigIndexCgR16")),
       GetIf(1, "sl_period_cg_r_16", T("SlPeriodCgR16")),
       GetIf(2, "sl_nr_of_harq_processes_r_16", Num(1, 16, FALSE, "u8")),
       GetIf(3, "sl_harq_proc_id_offset_r_16", Num(0, 15, FALSE, "u8")),
       GetIf(4, "sl_cg_max_trans_num_list_r_16", T("SlCgMaxTransNumListR16")),
       GetIf(5, "rrc_configured_sidelink_grant_r_16", T("RrcConfiguredSidelinkGrantR16"))>>,
     <<WriteHeader(TRUE, <<"sl_period_cg_r_16", "sl_nr_of_harq_processes_r_16",
       "sl_harq_proc_id_offset_r_16", "sl_cg_max_trans_num_list_r_16",
       "rrc_configured_sidelink_grant_r_16">>),
       Put("sl_config_index_cg_r_16", T("SlConfigIndexCgR16")),
       PutIf("sl_period_cg_r_16", T("SlPeriodCgR16")),
       PutIf("sl_nr_of_harq_processes_r_16", Num(1, 16, FALSE, "u8")),
       PutIf("sl_harq_proc_id_offset_r_16", Num(0, 15, FALSE, "u8")),
       PutIf("sl_cg_max_trans_num_list_r_16", T("SlCgMaxTransNumListR16")),
       PutIf("rrc_configured_sidelink_grant_r_16", T("RrcConfiguredSidelinkGrantR16"))>>),
   SlConfigIndexCgR16 |-> Codec(
     <<Get("0", Num(0, 7, FALSE, "u8"))>>,
     <<Put("0", Num(0, 7, FALSE, "u8"))>>),
   SlCgMaxTransNumListR16 |-> Codec(
     <<Get("0", NonEmpty(1, 8, T("SlCgMaxTransNumR16")))>>,
     <<Put("0", NonEmpty(1, 8, T("SlCgMaxTransNumR16")))>>)]
FromSlCgMaxTransNumR16 ==
  [SlCgMaxTransNumR16 |-> Codec(
     <<ReadHeader(FALSE, 0), Get("sl_priority_r_16", Num(1, 8, FALSE, "u8")),
       Get("sl_max_trans_num_r_16", Num(1, 32, FALSE, "u8"))>>,
     <<WriteHeader(FALSE, <<>>), Put("sl_priority_r_16", Num(1, 8, FALSE, "u8")),
       Put("sl_max_trans_num_r_16", Num(1, 32, FALSE, "u8"))>>),
   SlPeriodCgR16 |-> Codec(
     <<ReadChoice(0, 1, FALSE, <<Alt(0, "SlPeriodCg1R16", T("SlPeriodCg1R16")),
       Alt(1, "SlPeriodCg2R16", Num(1, 99, FALSE, "u8"))>>)>>,
     <<WriteChoice(0, 1, FALSE, <<Arm("SlPeriodCg1R16", 0, T("SlPeriodCg1R16")),
       Arm("SlPeriodCg2R16", 1, Num(1, 99, FALSE, "u8"))>>)>>),
   SlDestinationIdentityR16 |-> Codec(
     <<Get("0", Bits(24, 24, FALSE))>>,
     <<Put("0", Bits(24, 24, FALSE))>>)]
FromSlFreqConfigR16 ==
  [SlFreqConfigR16 |-> Codec(
     <<ReadHeader(FALSE, 7), Get("sl_freq_id_r_16", T("SlFreqIdR16")),
       Get("sl_scs_specific_carrier_list_r_16", NonEmpty(1, 5, T("ScsSpecificCarrier"))),
       GetIf(1, "sl_absolute_frequency_point_a_r_16", T("ArfcnValueNr")),
       GetIf(2, "sl_absolute_frequency_ssb_r_16", T("ArfcnValueNr")),
       GetIf(3, "frequency_shift7p5khz_sl_r_16", T("FrequencyShift7p5khzSlR16")),
       Get("value_n_r_16", Num(-1, 1, FALSE, "i8")),
       GetIf(4, "sl_bwp_to_release_list_r_16", NonEmpty(1, 4, T("BwpId"))),
       GetIf(5, "sl_bwp_to_add_mod_list_r_16", NonEmpty(1, 4, T("SlBwpConfigR16"))),
       GetIf(6, "sl_sync_config_list_r_16", T("SlSyncConfigListR16")),
       GetIf(7, "sl_sync_priority_r_16", T("SlSyncPriorityR16"))>>,
     <<WriteHeader(FALSE, <<"sl_absolute_frequency_point_a_r_16", "sl_absolute_frequency_ssb_r_16",
       "frequency_shift7p5khz_sl_r_16", "sl_bwp_to_release_list_r_16",
       "sl_bwp_to_add_mod_list_r_16", "sl_sync_config_list_r_16", "sl_sync_priority_r_16">>),
       Put("sl_freq_id_r_16", T("SlFreqIdR16")),
       Put("sl_scs_specific_carrier_list_r_16", NonEmpty(1, 5, T("ScsSpecificCarrier"))),
       PutIf("sl_absolute_frequency_point_a_r_16", T("ArfcnValueNr")),
       PutIf("sl_absolute_frequency_ssb_r_16", T("ArfcnValueNr")),
       PutIf("frequency_shift7p5khz_sl_r_16", T("FrequencyShift7p5khzSlR16")),
       Put("value_n_r_16", Num(-1, 1, FALSE, "i8")),
       PutIf("sl_bwp_to_release_list_r_16", NonEmpty(1, 4, T("BwpId"))),
       PutIf("sl_bwp_to_add_mod_list_r_16", NonEmpty(1, 4, T("SlBwpConfigR16"))),
       PutIf("sl_sync_config_list_r_16", T("SlSyncConfigListR16")),
       PutIf("sl_sync_priority_r_16", T("SlSyncPriorityR16"))>>)]
FromSlFreqIdR16 ==
  [SlFreqIdR16 |-> Codec(
     <<Get("0", Num(1, 8, FALSE, "u8"))>>,
     <<Put("0", Num(1, 8, FALSE, "u8"))>>)]
FromSlLogicalChannelConfigR16 ==
  [SlLogicalChannelConfigR16 |-> Codec(
     <<ReadHeader(TRUE, 8), Get("sl_priority_r_16", Num(1, 8, FALSE, "u8")),
       Get("sl_prioritised_bit_rate_r_16", T("SlPrioritisedBitRateR16")),
       Get("sl_bucket_size_duration_r_16", T("SlBucketSizeDurationR16")),
       GetIf(1, "sl_configured_grant_type_1_allowed_r_16", T("SlConfiguredGrantType1AllowedR16")),
       GetIf(2, "sl_harq_feedback_enabled_r_16", T("SlHarqFeedbackEnabledR16")),
       GetIf(3, "sl_allowed_cg_list_r_16", Vec(0, 7, T("SlConfigIndexCgR16"))),
       GetIf(4, "sl_allowed_scs_list_r_16", NonEmpty(1, 5, T("SubcarrierSpacing"))),
       GetIf(5, "sl_max_pusch_duration_r_16", T("SlMaxPuschDurationR16")),
       GetIf(6, "sl_logical_channel_group_r_16", Num(0, 7, FALSE, "u8")),
       GetIf(7, "sl_scheduling_request_id_r_16", T("SchedulingRequestId")),
       GetIf(8, "sl_logical_channel_sr_delay_timer_applied_r_16", T("BOOL"))>>,
     <<WriteHeader(TRUE, <<"sl_configured_grant_type_1_allowed_r_16",
       "sl_harq_feedback_enabled_r_16", "sl_allowed_cg_list_r_16", "sl_allowed_scs_list_r_16",
       "sl_max_pusch_duration_r_16", "sl_logical_channel_group_r_16",
       "sl_scheduling_request_id_r_16", "sl_logical_channel_sr_delay_timer_applied_r_16">>),
       Put("sl_priority_r_16", Num(1, 8, FALSE, "u8")),
       Put("sl_prioritised_bit_rate_r_16", T("SlPrioritisedBitRateR16")),
       Put("sl_bucket_size_duration_r_16", T("SlBucketSizeDurationR16")),
       PutIf("sl_configured_grant_type_1_allowed_r_16", T("SlConfiguredGrantType1AllowedR16")),
       PutIf("sl_harq_feedback_enabled_r_16", T("SlHarqFeedbackEnabledR16")),
       PutIf("sl_allowed_cg_list_r_16", Vec(0, 7, T("SlConfigIndexCgR16"))),
       PutIf("sl_allowed_scs_list_r_16", NonEmpty(1, 5, T("SubcarrierSpacing"))),
       PutIf("sl_max_pusch_duration_r_16", T("SlMaxPuschDurationR16")),
       PutIf("sl_logical_channel_group_r_16", Num(0, 7, FALSE, "u8")),
       PutIf("sl_scheduling_request_id_r_16", T("SchedulingRequestId")),
       PutIf("sl_logical_channel_sr_delay_timer_applied_r_16", T("BOOL"))>>)]
FromSlMeasConfigInfoR16 ==
  [SlMeasConfigInfoR16 |-> Codec(
     <<ReadHeader(TRUE, 0), Get("sl_destination_index_r_16", T("SlDestinationIndexR16")),
       Get("sl_meas_config_r_16", T("SlMeasConfigR16"))>>,
     <<WriteHeader(TRUE, <<>>), Put("sl_destination_index_r_16", T("SlDestinationIndexR16")),
       Put("sl_meas_config_r_16", T("SlMeasConfigR16"))>>),
   SlMeasConfigR16 |-> Codec(
     <<ReadHeader(TRUE, 7),
       GetIf(1, "sl_meas_object_to_remove_list_r_16", T("SlMeasObjectToRemoveListR16")),
       GetIf(2, "sl_meas_object_to_add_mod_list_r_16", T("SlMeasObjectListR16")),
       GetIf(3, "sl_report_config_to_remove_list_r_16", T("SlReportConfigToRemoveListR16")),
       GetIf(4, "sl_report_config_to_add_mod_list_r_16", T("SlReportConfigListR16")),
       GetIf(5, "sl_meas_id_to_remove_list_r_16", T("SlMeasIdToRemoveListR16")),
       GetIf(6, "sl_meas_id_to_add_mod_list_r_16", T("SlMeasIdListR16")),
       GetIf(7, "sl_quantity_config_r_16", T("SlQuantityConfigR16"))>>,
     <<WriteHeader(TRUE, <<"sl_meas_object_to_remove_list_r_16",
       "sl_meas_object_to_add_mod_list_r_16", "sl_report_config_to_remove_list_r_16",
       "sl_report_config_to_add_mod_list_r_16", "sl_meas_id_to_remove_list_r_16",
       "sl_meas_id_to_add_mod_list_r_16", "sl_quantity_config_r_16">>),
       PutIf("sl_meas_object_to_remove_list_r_16", T("SlMeasObjectToRemoveListR16")),
       PutIf("sl_meas_object_to_add_mod_list_r_16", T("SlMeasObjectListR16")),
       PutIf("sl_report_config_to_remove_list_r_16", T("SlReportConfigToRemoveListR16")),
       PutIf("sl_report_config_to_add_mod_list_r_16", T("SlReportConfigListR16")),
       PutIf("sl_meas_id_to_remove_list_r_16", T("SlMeasIdToRemoveListR16")),
       PutIf("sl_meas_id_to_add_mod_list_r_16", T("SlMeasIdListR16")),
       PutIf("sl_quantity_config_r_16", T("SlQuantityConfigR16"))>>)]
FromSlMeasObjectToRemoveListR16 ==
  [SlMeasObjectToRemoveListR16 |-> Codec(
     <<Get("0", NonEmpty(1, 64, T("SlMeasObjectIdR16")))>>,
     <<Put("0", NonEmpty(1, 64, T("SlMeasObjectIdR16")))>>),
   SlReportConfigToRemoveListR16 |-> Codec(
     <<Get("0", NonEmpty(1, 64, T("SlReportConfigIdR16")))>>,
     <<Put("0", NonEmpty(1, 64, T("SlReportConfigIdR16")))>>),
   SlMeasIdToRemoveListR16 |-> Codec(
     <<Get("0", NonEmpty(1, 64, T("SlMeasIdR16")))>>,
     <<Put("0", NonEmpty(1, 64, T("SlMeasIdR16")))>>),
   SlMeasIdListR16 |-> Codec(
     <<Get("0", NonEmpty(1, 64, T("SlMeasIdInfoR16")))>>,
     <<Put("0", NonEmpty(1, 64, T("SlMeasIdInfoR16")))>>)]
FromSlMeasIdInfoR16 ==
  [SlMeasIdInfoR16 |-> Codec(
     <<ReadHeader(TRUE, 0), Get("sl_meas_id_r_16", T("SlMeasIdR16")),
       Get("sl_meas_object_id_r_16", T("SlMeasObjectIdR16")),
       Get("sl_report_config_id_r_16", T("SlReportConfigIdR16"))>>,
     <<WriteHeader(TRUE, <<>>), Put("sl_meas_id_r_16", T("SlMeasIdR16")),
       Put("sl_meas_object_id_r_16", T("SlMeasObjectIdR16")),
       Put("sl_report_config_id_r_16", T("SlReportConfigIdR16"))>>),
   SlMeasIdR16 |-> Codec(
     <<Get("0", Num(1, 64, FALSE, "u8"))>>,
     <<Put("0", Num(1, 64, FALSE, "u8"))>>),
   SlMeasObjectListR16 |-> Codec(
     <<Get("0", NonEmpty(1, 64, T("SlMeasObjectInfoR16")))>>,
     <<Put("0", NonEmpty(1, 64, T("SlMeasObjectInfoR16")))>>),
   SlMeasObjectInfoR16 |-> Codec(
     <<ReadHeader(TRUE, 0), Get("sl_meas_object_id_r_16", T("SlMeasObjectIdR16")),
       Get("sl_meas_object_r_16", T("SlMeasObjectR16"))>>,
     <<WriteHeader(TRUE, <<>>), Put("sl_meas_object_id_r_16", T("SlMeasObjectIdR16")),
       Put("sl_meas_object_r_16", T("SlMeasObjectR16"))>>)]
FromSlMeasObjectIdR16 ==
  [SlMeasObjectIdR16 |-> Codec(
     <<Get("0", Num(1, 64, FALSE, "u8"))>>,
     <<Put("0", Num(1, 64, FALSE, "u8"))>>),
   SlMeasObjectR16 |-> Codec(
     <<ReadHeader(TRUE, 0), Get("frequency_info_sl_r_16", T("ArfcnValueNr"))>>,
     <<WriteHeader(TRUE, <<>>), Put("frequency_info_sl_r_16", T("ArfcnValueNr"))>>),
   SlPdcpConfigR16 |-> Codec(
     <<ReadHeader(TRUE, 3), GetIf(1, "sl_discard_timer_r_16", T("SlDiscardTimerR16")),
       GetIf(2, "sl_pdcp_sn_size_r_16", T("SlPdcpSnSizeR16")),
       GetIf(3, "sl_out_of_order_delivery", T("SlOutOfOrderDelivery"))>>,
     <<WriteHeader(TRUE, <<"sl_discard_timer_r_16", "sl_pdcp_sn_size_r_16",
       "sl_out_of_order_delivery">>), PutIf("sl_discard_timer_r_16", T("SlDiscardTimerR16")),
       PutIf("sl_pdcp_sn_size_r_16", T("SlPdcpSnSizeR16")),
       PutIf("sl_out_of_order_delivery", T("SlOutOfOrderDelivery"))>>)]
FromSlPsbchConfigR16 ==
  [SlPsbchConfigR16 |-> Codec(
     <<ReadHeader(TRUE, 2), GetIf(1, "dl_p0_psbch_r_16", Num(-16, 15, FALSE, "i8")),
       GetIf(2, "dl_alpha_psbch_r_16", T("DlAlphaPsbchR16"))>>,
     <<WriteHeader(TRUE, <<"dl_p0_psbch_r_16", "dl_alpha_psbch_r_16">>),
       PutIf("dl_p0_psbch_r_16", Num(-16, 15, FALSE, "i8")),
       PutIf("dl_alpha_psbch_r_16", T("DlAlphaPsbchR16"))>>),
   SlPsschTxConfigListR16 |-> Codec(
     <<Get("0", NonEmpty(1, 16, T("SlPsschTxConfigR16")))>>,
     <<Put("0", NonEmpty(1, 16, T("SlPsschTxConfigR16")))>>),
   SlPsschTxConfigR16 |-> Codec(
     <<ReadHeader(TRUE, 1), GetIf(1, "sl_type_tx_sync_r_16", T("SlTypeTxSyncR16")),
       Get("sl_thres_ue_speed_r_16", T("SlThresUeSpeedR16")),
       Get("sl_parameters_above_thres_r_16", T("SlPsschTxParametersR16")),
       Get("sl_parameters_below_thres_r_16", T("SlPsschTxParametersR16"))>>,
     <<WriteHeader(TRUE, <<"sl_type_tx_sync_r_16">>),
       PutIf("sl_type_tx_sync_r_16", T("SlTypeTxSyncR16")),
       Put("sl_thres_ue_speed_r_16", T("SlThresUeSpeedR16")),
       Put("sl_parameters_above_thres_r_16", T("SlPsschTxParametersR16")),
       Put("sl_parameters_below_thres_r_16", T("SlPsschTxParametersR16"))>>)]
FromSlPsschTxParametersR16 ==
  [SlPsschTxParametersR16 |-> Codec(
     <<ReadHeader(FALSE, 1), Get("sl_min_mcs_pssch_r_16", Num(0, 27, FALSE, "u8")),
       Get("sl_max_mcs_pssch_r_16", Num(0, 31, FALSE, "u8")),
       Get("sl_min_sub_channel_num_pssch_r_16", Num(1, 27, FALSE, "u8")),
       Get("sl_max_subchannel_num_pssch_r_16", Num(1, 27, FALSE, "u8")),
       Get("sl_max_tx_trans_num_pssch_r_16", Num(1, 32, FALSE, "u8")),
       GetIf(1, "sl_max_tx_power_r_16", T("SlTxPowerR16"))>>,
     <<WriteHeader(FALSE, <<"sl_max_tx_power_r_16">>),
       Put("sl_min_mcs_pssch_r_16", Num(0, 27, FALSE, "u8")),
       Put("sl_max_mcs_pssch_r_16", Num(0, 31, FALSE, "u8")),
       Put("sl_min_sub_channel_num_pssch_r_16", Num(1, 27, FALSE, "u8")),
       Put("sl_max_subchannel_num_pssch_r_16", Num(1, 27, FALSE, "u8")),
       Put("sl_max_tx_trans_num_pssch_r_16", Num(1, 32, FALSE, "u8")),
       PutIf("sl_max_tx_power_r_16", T("SlTxPowerR16"))>>),
   SlQosFlowIdentityR16 |-> Codec(
     <<Get("0", Num(1, 2048, FALSE, "u16"))>>,
     <<Put("0", Num(1, 2048, FALSE, "u16"))>>)]
FromSlQosProfileR16 ==
  [SlQosProfileR16 |-> Codec(
     <<ReadHeader(TRUE, 4), GetIf(1, "sl_pqi_r_16", T("SlPqiR16")),
       GetIf(2, "sl_gfbr_r_16", BigNum("0..4000000000", FALSE, "u32")),
       GetIf(3, "sl_mfbr_r_16", BigNum("0..4000000000", FALSE, "u32")),
       GetIf(4, "sl_range_r_16", Num(1, 1000, FALSE, "u16"))>>,
     <<WriteHeader(TRUE, <<"sl_pqi_r_16", "sl_gfbr_r_16", "sl_mfbr_r_16", "sl_range_r_16">>),
       PutIf("sl_pqi_r_16", T("SlPqiR16")),
       PutIf("sl_gfbr_r_16", BigNum("0..4000000000", FALSE, "u32")),
       PutIf("sl_mfbr_r_16", BigNum("0..4000000000", FALSE, "u32")),
       PutIf("sl_range_r_16", Num(1, 1000, FALSE, "u16"))>>),
   SlPqiR16 |-> Codec(
     <<ReadChoice(0, 1, FALSE, <<Alt(0, "SlStandardizedPqiR16", Num(0, 255, FALSE, "u8")),
       Alt(1, "SlNonStandardizedPqiR16", T("SlNonStandardizedPqiR16"))>>)>>,
     <<WriteChoice(0, 1, FALSE, <<Arm("SlStandardizedPqiR16", 0, Num(0, 255, FALSE, "u8")),
       Arm("SlNonStandardizedPqiR16", 1, T("SlNonStandardizedPqiR16"))>>)>>),
   SlQuantityConfigR16 |-> Codec(
     <<ReadHeader(TRUE, 1), GetIf(1, "sl_filter_coefficient_dmrs_r_16", T("FilterCoefficient"))>>,
     <<WriteHeader(TRUE, <<"sl_filter_coefficient_dmrs_r_16">>),
       PutIf("sl_filter_coefficient_dmrs_r_16", T("FilterCoefficient"))>>)]
FromSlRadioBearerConfigR16 ==
  [SlRadioBearerConfigR16 |-> Codec(
     <<ReadHeader(TRUE, 3), Get("slrb_uu_config_index_r_16", T("SlrbUuConfigIndexR16")),
       GetIf(1, "sl_sdap_config_r_16", T("SlSdapConfigR16")),
       GetIf(2, "sl_pdcp_config_r_16", T("SlPdcpConfigR16")),
       GetIf(3, "sl_trans_range_r_16", T("SlTransRangeR16"))>>,
     <<WriteHeader(TRUE, <<"sl_sdap_config_r_16", "sl_pdcp_config_r_16", "sl_trans_range_r_16">>),
       Put("slrb_uu_config_index_r_16", T("SlrbUuConfigIndexR16")),
       PutIf("sl_sdap_config_r_16", T("SlSdapConfigR16")),
       PutIf("sl_pdcp_config_r_16", T("SlPdcpConfigR16")),
       PutIf("sl_trans_range_r_16", T("SlTransRangeR16"))>>),
   SlReportConfigListR16 |-> Codec(
     <<Get("0", NonEmpty(1, 64, T("SlReportConfigInfoR16")))>>,
     <<Put("0", NonEmpty(1, 64, T("SlReportConfigInfoR16")))>>),
   SlReportConfigInfoR16 |-> Codec(
     <<ReadHeader(TRUE, 0), Get("sl_report_config_id_r_16", T("SlReportConfigIdR16")),
       Get("sl_report_config_r_16", T("SlReportConfigR16"))>>,
     <<WriteHeader(TRUE, <<>>), Put("sl_report_config_id_r_16", T("SlReportConfigIdR16")),
       Put("sl_report_config_r_16", T("SlReportConfigR16"))>>)]
FromSlReportConfigIdR16 ==
  [SlReportConfigIdR16 |-> Codec(
     <<Get("0", Num(1, 64, FALSE, "u8"))>>,
     <<Put("0", Num(1, 64, FALSE, "u8"))>>),
   SlReportConfigR16 |-> Codec(
     <<ReadHeader(TRUE, 0), Get("sl_report_type_r_16", T("SlReportTypeR16"))>>,
     <<WriteHeader(TRUE, <<>>), Put("sl_report_type_r_16", T("SlReportTypeR16"))>>),
   SlPeriodicalReportConfigR16 |-> Codec(
     <<ReadHeader(TRUE, 0), Get("sl_report_interval_r_16", T("ReportInterval")),
       Get("sl_report_amount_r_16", T("SlReportAmountR16")),
       Get("sl_report_quantity_r_16", T("SlMeasReportQuantityR16")),
       Get("sl_rs_type_r_16", T("SlRsTypeR16"))>>,
     <<WriteHeader(TRUE, <<>>), Put("sl_report_interval_r_16", T("ReportInterval")),
       Put("sl_report_amount_r_16", T("SlReportAmountR16")),
       Put("sl_report_quantity_r_16", T("SlMeasReportQuantityR16")),
       Put("sl_rs_type_r_16", T("SlRsTypeR16"))>>),
   SlEventTriggerConfigR16 |-> Codec(
     <<ReadHeader(TRUE, 0), Get("sl_event_id_r_16", T("SlEventIdR16")),
       Get("sl_report_interval_r_16", T("ReportInterval")),
       Get("sl_report_amount_r_16", T("SlReportAmountR16_1")),
       Get("sl_report_quantity_r_16", T("SlMeasReportQuantityR16")),
       Get("sl_rs_type_r_16", T("SlRsTypeR16"))>>,
     <<WriteHeader(TRUE, <<>>), Put("sl_event_id_r_16", T("SlEventIdR16")),
       Put("sl_report_interval_r_16", T("ReportInterval")),
       Put("sl_report_amount_r_16", T("SlReportAmountR16_1")),
       Put("sl_report_quantity_r_16", T("SlMeasReportQuantityR16")),
       Put("sl_rs_type_r_16", T("SlRsTypeR16"))>>)]
SlResourcePoolR16Decode ==
  <<ReadHeader(TRUE, 25), GetIf(1, "sl_pscch_config_r_16", SetupRelease("SlPscchConfigR16")),
    GetIf(2, "sl_pssch_config_r_16", SetupRelease("SlPsschConfigR16")),
    GetIf(3, "sl_psfch_config_r_16", SetupRelease("SlPsfchConfigR16")),
    GetIf(4, "sl_sync_allowed_r_16", T("SlSyncAllowedR16")),
    GetIf(5, "sl_subchannel_size_r_16", T("SlSubchannelSizeR16")),
    GetIf(6, "dummy", Num(10, 160, FALSE, "u8")),
    GetIf(7, "sl_start_rb_subchannel_r_16", Num(0, 265, FALSE, "u16")),
    GetIf(8, "sl_num_subchannel_r_16", Num(1, 27, FALSE, "u8")),
    GetIf(9, "sl_additional_mcs_table_r_16", T("SlAdditionalMcsTableR16")),
    GetIf(10, "sl_thresh_s_rssi_cbr_r_16", Num(0, 45, FALSE, "u8")),
    GetIf(11, "sl_time_window_size_cbr_r_16", T("SlTimeWindowSizeCbrR16")),
    GetIf(12, "sl_time_window_size_cr_r_16", T("SlTimeWindowSizeCrR16")),
    GetIf(13, "sl_ptrs_config_r_16", T("SlPtrsConfigR16")),
    GetIf(14, "sl_ue_selected_config_rp_r_16", T("SlUeSelectedConfigRpR16")),
    GetIf(15, "sl_rx_parameters_ncell_r_16", T("SlRxParametersNcellR16")),
    GetIf(16, "sl_zone_config_mcr_list_r_16", NonEmpty(16, 16, T("SlZoneConfigMcrR16"))),
    GetIf(17, "sl_filter_coefficient_r_16", T("FilterCoefficient")),
    GetIf(18, "sl_rb_number_r_16", Num(10, 275, FALSE, "u16")),
    GetIf(19, "sl_preemption_enable_r_16", T("SlPreemptionEnableR16")),
    GetIf(20, "sl_priority_threshold_ul_urllc_r_16", Num(1, 9, FALSE, "u8")),
    GetIf(21, "sl_priority_threshold_r_16", Num(1, 9, FALSE, "u8")),
    GetIf(22, "sl_x_overhead_r_16", T("SlXOverheadR16")),
    GetIf(23, "sl_power_control_r_16", T("SlPowerControlR16")),
    GetIf(24, "sl_tx_percentage_list_r_16", T("SlTxPercentageListR16")),
    GetIf(25, "sl_min_max_mcs_list_r_16", T("SlMinMaxMcsListR16"))>>
SlResourcePoolR16Encode ==
  <<WriteHeader(TRUE, <<"sl_pscch_config_r_16", "sl_pssch_config_r_16", "sl_psfch_config_r_16",
    "sl_sync_allowed_r_16", "sl_subchannel_size_r_16", "dummy", "sl_start_rb_subchannel_r_16",
    "sl_num_subchannel_r_16", "sl_additional_mcs_table_r_16", "sl_thresh_s_rssi_cbr_r_16",
    "sl_time_window_size_cbr_r_16", "sl_time_window_size_cr_r_16", "sl_ptrs_config_r_16",
    "sl_ue_selected_config_rp_r_16", "sl_rx_parameters_ncell_r_16", "sl_zone_config_mcr_list_r_16",
    "sl_filter_coefficient_r_16", "sl_rb_number_r_16", "sl_preemption_enable_r_16",
    "sl_priority_threshold_ul_urllc_r_16", "sl_priority_threshold_r_16", "sl_x_overhead_r_16",
    "sl_power_control_r_16", "sl_tx_percentage_list_r_16", "sl_min_max_mcs_list_r_16">>),
    PutIf("sl_pscch_config_r_16", SetupRelease("SlPscchConfigR16")),
    PutIf("sl_pssch_config_r_16", SetupRelease("SlPsschConfigR16")),
    PutIf("sl_psfch_config_r_16", SetupRelease("SlPsfchConfigR16")),
    PutIf("sl_sync_allowed_r_16", T("SlSyncAllowedR16")),
    PutIf("sl_subchannel_size_r_16", T("SlSubchannelSizeR16")),
    PutIf("dummy", Num(10, 160, FALSE, "u8")),
    PutIf("sl_start_rb_subchannel_r_16", Num(0, 265, FALSE, "u16")),
    PutIf("sl_num_subchannel_r_16", Num(1, 27, FALSE, "u8")),
    PutIf("sl_additional_mcs_table_r_16", T("SlAdditionalMcsTableR16")),
    PutIf("sl_thresh_s_rssi_cbr_r_16", Num(0, 45, FALSE, "u8")),
    PutIf("sl_time_window_size_cbr_r_16", T("SlTimeWindowSizeCbrR16")),
    PutIf("sl_time_window_size_cr_r_16", T("SlTimeWindowSizeCrR16")),
    PutIf("sl_ptrs_config_r_16", T("SlPtrsConfigR16")),
    PutIf("sl_ue_selected_config_rp_r_16", T("SlUeSelectedConfigRpR16")),
    PutIf("sl_rx_parameters_ncell_r_16", T("SlRxParametersNcellR16")),
    PutIf("sl_zone_config_mcr_list_r_16", NonEmpty(16, 16, T("SlZoneConfigMcrR16"))),
    PutIf("sl_filter_coefficient_r_16", T("FilterCoefficient")),
    PutIf("sl_rb_number_r_16", Num(10, 275, FALSE, "u16")),
    PutIf("sl_preemption_enable_r_16", T("SlPreemptionEnableR16")),
    PutIf("sl_priority_threshold_ul_urllc_r_16", Num(1, 9, FALSE, "u8")),
    PutIf("sl_priority_threshold_r_16", Num(1, 9, FALSE, "u8")),
    PutIf("sl_x_overhead_r_16", T("SlXOverheadR16")),
    PutIf("sl_power_control_r_16", T("SlPowerControlR16")),
    PutIf("sl_tx_percentage_list_r_16", T("SlTxPercentageListR16")),
    PutIf("sl_min_max_mcs_list_r_16", T("SlMinMaxMcsListR16"))>>
FromSlMeasReportQuantityR16 ==
  [SlMeasReportQuantityR16 |-> Codec(
     <<ReadChoice(0, 0, TRUE, <<Alt(0, "SlRsrpR16", T("BOOL"))>>)>>,
     <<WriteChoice(0, 0, TRUE, <<Arm("SlRsrpR16", 0, T("BOOL"))>>)>>),
   SlMeasTriggerQuantityR16 |-> Codec(
     <<ReadChoice(0, 0, TRUE, <<Alt(0, "SlRsrpR16", T("RsrpRange"))>>)>>,
     <<WriteChoice(0, 0, TRUE, <<Arm("SlRsrpR16", 0, T("RsrpRange"))>>)>>),
   SlRsTypeR16 |-> Codec(<<ReadEnum(0, 3, FALSE, 4)>>, <<WriteEnum(0, 3, FALSE)>>),
   SlResourcePoolR16 |-> Codec(SlResourcePoolR16Decode, SlResourcePoolR16Encode)]
FromSlZoneConfigMcrR16 ==
  [SlZoneConfigMcrR16 |-> Codec(
     <<ReadHeader(TRUE, 2), Get("sl_zone_config_mcr_index_r_16", Num(0, 15, FALSE, "u8")),
       GetIf(1, "sl_trans_range_r_16", T("SlTransRangeR16_1")),
       GetIf(2, "sl_zone_config_r_16", T("SlZoneConfigR16"))>>,
     <<WriteHeader(TRUE, <<"sl_trans_range_r_16", "sl_zone_config_r_16">>),
       Put("sl_zone_config_mcr_index_r_16", Num(0, 15, FALSE, "u8")),
       PutIf("sl_trans_range_r_16", T("SlTransRangeR16_1")),
       PutIf("sl_zone_config_r_16", T("SlZoneConfigR16"))>>),
   SlSyncAllowedR16 |-> Codec(
     <<ReadHeader(FALSE, 3), GetIf(1, "gnss_sync_r_16", T("GnssSyncR16")),
       GetIf(2, "gnb_enb_sync_r_16", T("GnbEnbSyncR16")), GetIf(3, "ue_sync_r_16", T("UeSyncR16"))>>,
     <<WriteHeader(FALSE, <<"gnss_sync_r_16", "gnb_enb_sync_r_16", "ue_sync_r_16">>),
       PutIf("gnss_sync_r_16", T("GnssSyncR16")), PutIf("gnb_enb_sync_r_16", T("GnbEnbSyncR16")),
       PutIf("ue_sync_r_16", T("UeSyncR16"))>>)]
FromSlPscchConfigR16 ==
  [SlPscchConfigR16 |-> Codec(
     <<ReadHeader(TRUE, 4), GetIf(1, "sl_time_resource_pscch_r_16", T("SlTimeResourcePscchR16")),
       GetIf(2, "sl_freq_resource_pscch_r_16", T("SlFreqResourcePscchR16")),
       GetIf(3, "sl_dmrs_scramble_id_r_16", Num(0, 65535, FALSE, "u16")),
       GetIf(4, "sl_num_reserved_bits_r_16", Num(2, 4, FALSE, "u8"))>>,
     <<WriteHeader(TRUE, <<"sl_time_resource_pscch_r_16", "sl_freq_resource_pscch_r_16",
       "sl_dmrs_scramble_id_r_16", "sl_num_reserved_bits_r_16">>),
       PutIf("sl_time_resource_pscch_r_16", T("SlTimeResourcePscchR16")),
       PutIf("sl_freq_resource_pscch_r_16", T("SlFreqResourcePscchR16")),
       PutIf("sl_dmrs_scramble_id_r_16", Num(0, 65535, FALSE, "u16")),
       PutIf("sl_num_reserved_bits_r_16", Num(2, 4, FALSE, "u8"))>>),
   SlPsschConfigR16 |-> Codec(
     <<ReadHeader(TRUE, 3),
       GetIf(1, "sl_pssch_dmrs_time_pattern_list_r_16", NonEmpty(1, 3, Num(2, 4, FALSE, "u8"))),
       GetIf(2, "sl_beta_offsets2nd_sci_r_16", NonEmpty(4, 4, T("SlBetaOffsetsR16"))),
       GetIf(3, "sl_scaling_r_16", T("SlScalingR16"))>>,
     <<WriteHeader(TRUE, <<"sl_pssch_dmrs_time_pattern_list_r_16", "sl_beta_offsets2nd_sci_r_16",
       "sl_scaling_r_16">>),
       PutIf("sl_pssch_dmrs_time_pattern_list_r_16", NonEmpty(1, 3, Num(2, 4, FALSE, "u8"))),
       PutIf("sl_beta_offsets2nd_sci_r_16", NonEmpty(4, 4, T("SlBetaOffsetsR16"))),
       PutIf("sl_scaling_r_16", T("SlScalingR16"))>>)]
FromSlPsfchConfigR16 ==
  [SlPsfchConfigR16 |-> Codec(
     <<ReadHeader(TRUE, 6), GetIf(1, "sl_psfch_period_r_16", T("SlPsfchPeriodR16")),
       GetIf(2, "sl_psfch_rb_set_r_16", Bits(10, 275, FALSE)),
       GetIf(3, "sl_num_mux_cs_pair_r_16", T("SlNumMuxCsPairR16")),
       GetIf(4, "sl_min_time_gap_psfch_r_16", T("SlMinTimeGapPsfchR16")),
       GetIf(5, "sl_psfch_hop_id_r_16", Num(0, 1023, FALSE, "u16")),
       GetIf(6, "sl_psfch_candidate_resource_type_r_16", T("SlPsfchCandidateResourceTypeR16"))>>,
     <<WriteHeader(TRUE, <<"sl_psfch_period_r_16", "sl_psfch_rb_set_r_16",
       "sl_num_mux_cs_pair_r_16", "sl_min_time_gap_psfch_r_16", "sl_psfch_hop_id_r_16",
       "sl_psfch_candidate_resource_type_r_16">>),
       PutIf("sl_psfch_period_r_16", T("SlPsfchPeriodR16")),
       PutIf("sl_psfch_rb_set_r_16", Bits(10, 275, FALSE)),
       PutIf("sl_num_mux_cs_pair_r_16", T("SlNumMuxCsPairR16")),
       PutIf("sl_min_time_gap_psfch_r_16", T("SlMinTimeGapPsfchR16")),
       PutIf("sl_psfch_hop_id_r_16", Num(0, 1023, FALSE, "u16")),
       PutIf("sl_psfch_candidate_resource_type_r_16", T("SlPsfchCandidateResourceTypeR16"))>>),
   SlPtrsConfigR16 |-> Codec(
     <<ReadHeader(TRUE, 3),
       GetIf(1, "sl_ptrs_freq_density_r_16", NonEmpty(2, 2, Num(1, 276, FALSE, "u16"))),
       GetIf(2, "sl_ptrs_time_density_r_16", NonEmpty(3, 3, Num(0, 29, FALSE, "u8"))),
       GetIf(3, "sl_ptrs_re_offset_r_16", T("SlPtrsReOffsetR16"))>>,
     <<WriteHeader(TRUE, <<"sl_ptrs_freq_density_r_16", "sl_ptrs_time_density_r_16",
       "sl_ptrs_re_offset_r_16">>),
       PutIf("sl_ptrs_freq_density_r_16", NonEmpty(2, 2, Num(1, 276, FALSE, "u16"))),
       PutIf("sl_ptrs_time_density_r_16", NonEmpty(3, 3, Num(0, 29, FALSE, "u8"))),
       PutIf("sl_ptrs_re_offset_r_16", T("SlPtrsReOffsetR16"))>>)]
FromSlUeSelectedConfigRpR16 ==
  [SlUeSelectedConfigRpR16 |-> Codec(
     <<ReadHeader(TRUE, 7),
       GetIf(1, "sl_cbr_priority_tx_config_list_r_16", T("SlCbrPriorityTxConfigListR16")),
       GetIf(2, "sl_thres_rsrp_list_r_16", T("SlThresRsrpListR16")),
       GetIf(3, "sl_multi_reserve_resource_r_16", T("SlMultiReserveResourceR16")),
       GetIf(4, "sl_max_num_per_reserve_r_16", T("SlMaxNumPerReserveR16")),
       GetIf(5, "sl_sensing_window_r_16", T("SlSensingWindowR16")),
       GetIf(6, "sl_selection_window_list_r_16", T("SlSelectionWindowListR16")),
       GetIf(7, "sl_resource_reserve_period_list_r_16", NonEmpty(1, 16, T("SlResourceReservePeriodR16"))),
       Get("sl_rs_for_sensing_r_16", T("SlRsForSensingR16"))>>,
     <<WriteHeader(TRUE, <<"sl_cbr_priority_tx_config_list_r_16", "sl_thres_rsrp_list_r_16",
       "sl_multi_reserve_resource_r_16", "sl_max_num_per_reserve_r_16", "sl_sensing_window_r_16",
       "sl_selection_window_list_r_16", "sl_resource_reserve_period_list_r_16">>),
       PutIf("sl_cbr_priority_tx_config_list_r_16", T("SlCbrPriorityTxConfigListR16")),
       PutIf("sl_thres_rsrp_list_r_16", T("SlThresRsrpListR16")),
       PutIf("sl_multi_reserve_resource_r_16", T("SlMultiReserveResourceR16")),
       PutIf("sl_max_num_per_reserve_r_16", T("SlMaxNumPerReserveR16")),
       PutIf("sl_sensing_window_r_16", T("SlSensingWindowR16")),
       PutIf("sl_selection_window_list_r_16", T("SlSelectionWindowListR16")),
       PutIf("sl_resource_reserve_period_list_r_16", NonEmpty(1, 16, T("SlResourceReservePeriodR16"))),
       Put("sl_rs_for_sensing_r_16", T("SlRsForSensingR16"))>>),
   SlResourceReservePeriodR16 |-> Codec(
     <<ReadChoice(0, 1, FALSE, <<Alt(0, "SlResourceReservePeriod1R16", T("SlResourceReservePeriod1R16")),
       Alt(1, "SlResourceReservePeriod2R16", Num(1, 99, FALSE, "u8"))>>)>>,
     <<WriteChoice(0, 1, FALSE, <<Arm("SlResourceReservePeriod1R16", 0, T("SlResourceReservePeriod1R16")),
       Arm("SlResourceReservePeriod2R16", 1, Num(1, 99, FALSE, "u8"))>>)>>)]
FromSlSelectionWindowListR16 ==
  [SlSelectionWindowListR16 |-> Codec(
     <<Get("0", NonEmpty(8, 8, T("SlSelectionWindowConfigR16")))>>,
     <<Put("0", NonEmpty(8, 8, T("SlSelectionWindowConfigR16")))>>),
   SlSelectionWindowConfigR16 |-> Codec(
     <<ReadHeader(FALSE, 0), Get("sl_priority_r_16", Num(1, 8, FALSE, "u8")),
       Get("sl_selection_window_r_16", T("SlSelectionWindowR16"))>>,
     <<WriteHeader(FALSE, <<>>), Put("sl_priority_r_16", Num(1, 8, FALSE, "u8")),
       Put("sl_selection_window_r_16", T("SlSelectionWindowR16"))>>),
   SlTxPercentageListR16 |-> Codec(
     <<Get("0", NonEmpty(8, 8, T("SlTxPercentageConfigR16")))>>,
     <<Put("0", NonEmpty(8, 8, T("SlTxPercentageConfigR16")))>>),
   SlTxPercentageConfigR16 |-> Codec(
     <<ReadHeader(FALSE, 0), Get("sl_priority_r_16", Num(1, 8, FALSE, "u8")),
       Get("sl_tx_percentage_r_16", T("SlTxPercentageR16"))>>,
     <<WriteHeader(FALSE, <<>>), Put("sl_priority_r_16", Num(1, 8, FALSE, "u8")),
       Put("sl_tx_percentage_r_16", T("SlTxPercentageR16"))>>)]
FromSlMinMaxMcsListR16 ==
  [SlMinMaxMcsListR16 |-> Codec(
     <<Get("0", NonEmpty(1, 3, T("SlMinMaxMcsConfigR16")))>>,
     <<Put("0", NonEmpty(1, 3, T("SlMinMaxMcsConfigR16")))>>),
   SlMinMaxMcsConfigR16 |-> Codec(
     <<ReadHeader(FALSE, 0), Get("sl_mcs_table_r_16", T("SlMcsTableR16")),
       Get("sl_min_mcs_pssch_r_16", Num(0, 27, FALSE, "u8")),
       Get("sl_max_mcs_pssch_r_16", Num(0, 31, FALSE, "u8"))>>,
     <<WriteHeader(FALSE, <<>>), Put("sl_mcs_table_r_16", T("SlMcsTableR16")),
       Put("sl_min_mcs_pssch_r_16", Num(0, 27, FALSE, "u8")),
       Put("sl_max_mcs_pssch_r_16", Num(0, 31, FALSE, "u8"))>>),
   SlBetaOffsetsR16 |-> Codec(
     <<Get("0", Num(0, 31, FALSE, "u8"))>>,
     <<Put("0", Num(0, 31, FALSE, "u8"))>>)]
FromSlPowerControlR16 ==
  [SlPowerControlR16 |-> Codec(
     <<ReadHeader(TRUE, 6), Get("sl_max_trans_power_r_16", Num(-30, 33, FALSE, "i8")),
       GetIf(1, "sl_alpha_pssch_pscch_r_16", T("SlAlphaPsschPscchR16")),
       GetIf(2, "dl_alpha_pssch_pscch_r_16", T("DlAlphaPsschPscchR16")),
       GetIf(3, "sl_p0_pssch_pscch_r_16", Num(-16, 15, FALSE, "i8")),
       GetIf(4, "dl_p0_pssch_pscch_r_16", Num(-16, 15, FALSE, "i8")),
       GetIf(5, "dl_alpha_psfch_r_16", T("DlAlphaPsfchR16")),
       GetIf(6, "dl_p0_psfch_r_16", Num(-16, 15, FALSE, "i8"))>>,
     <<WriteHeader(TRUE, <<"sl_alpha_pssch_pscch_r_16", "dl_alpha_pssch_pscch_r_16",
       "sl_p0_pssch_pscch_r_16", "dl_p0_pssch_pscch_r_16", "dl_alpha_psfch_r_16",
       "dl_p0_psfch_r_16">>), Put("sl_max_trans_power_r_16", Num(-30, 33, FALSE, "i8")),
       PutIf("sl_alpha_pssch_pscch_r_16", T("SlAlphaPsschPscchR16")),
       PutIf("dl_alpha_pssch_pscch_r_16", T("DlAlphaPsschPscchR16")),
       PutIf("sl_p0_pssch_pscch_r_16", Num(-16, 15, FALSE, "i8")),
       PutIf("dl_p0_pssch_pscch_r_16", Num(-16, 15, FALSE, "i8")),
       PutIf("dl_alpha_psfch_r_16", T("DlAlphaPsfchR16")),
       PutIf("dl_p0_psfch_r_16", Num(-16, 15, FALSE, "i8"))>>),
   SlRlcBearerConfigR16 |-> Codec(
     <<ReadHeader(TRUE, 3), Get("sl_rlc_bearer_config_index_r_16", T("SlRlcBearerConfigIndexR16")),
       GetIf(1, "sl_served_radio_bearer_r_16", T("SlrbUuConfigIndexR16")),
       GetIf(2, "sl_rlc_config_r_16", T("SlRlcConfigR16")),
       GetIf(3, "sl_mac_logical_channel_config_r_16", T("SlLogicalChannelConfigR16"))>>,
     <<WriteHeader(TRUE, <<"sl_served_radio_bearer_r_16", "sl_rlc_config_r_16",
       "sl_mac_logical_channel_config_r_16">>),
       Put("sl_rlc_bearer_config_index_r_16", T("SlRlcBearerConfigIndexR16")),
       PutIf("sl_served_radio_bearer_r_16", T("SlrbUuConfigIndexR16")),
       PutIf("sl_rlc_config_r_16", T("SlRlcConfigR16")),
       PutIf("sl_mac_logical_channel_config_r_16", T("SlLogicalChannelConfigR16"))>>)]
FromSlRlcBearerConfigIndexR16 ==
  [SlRlcBearerConfigIndexR16 |-> Codec(
     <<Get("0", Num(1, 512, FALSE, "u16"))>>,
     <<Put("0", Num(1, 512, FALSE, "u16"))>>),
   SlRlcConfigR16 |-> Codec(
     <<ReadChoice(0, 1, TRUE, <<Alt(0, "SlAmRlcR16", T("SlAmRlcR16")),
       Alt(1, "SlUmRlcR16", T("SlUmRlcR16"))>>)>>,
     <<WriteChoice(0, 1, TRUE, <<Arm("SlAmRlcR16", 0, T("SlAmRlcR16")),
       Arm("SlUmRlcR16", 1, T("SlUmRlcR16"))>>)>>),
   SlScheduledConfigR16 |-> Codec(
     <<ReadHeader(TRUE, 4), Get("sl_rnti_r_16", T("RntiValue")),
       GetIf(1, "mac_main_config_sl_r_16", T("MacMainConfigSlR16")),
       GetIf(2, "sl_cs_rnti_r_16", T("RntiValue")),
       GetIf(3, "sl_psfch_to_pucch_r_16", NonEmpty(1, 8, Num(0, 15, FALSE, "u8"))),
       GetIf(4, "sl_configured_grant_config_list_r_16", T("SlConfiguredGrantConfigListR16"))>>,
     <<WriteHeader(TRUE, <<"mac_main_config_sl_r_16", "sl_cs_rnti_r_16", "sl_psfch_to_pucch_r_16",
       "sl_configured_grant_config_list_r_16">>), Put("sl_rnti_r_16", T("RntiValue")),
       PutIf("mac_main_config_sl_r_16", T("MacMainConfigSlR16")),
       PutIf("sl_cs_rnti_r_16", T("RntiValue")),
       PutIf("sl_psfch_to_pucch_r_16", NonEmpty(1, 8, Num(0, 15, FALSE, "u8"))),
       PutIf("sl_configured_grant_config_list_r_16", T("SlConfiguredGrantConfigListR16"))>>)]
FromMacMainConfigSlR16 ==
  [MacMainConfigSlR16 |-> Codec(
     <<ReadHeader(TRUE, 3), GetIf(1, "sl_bsr_config_r_16", T("BsrConfig")),
       GetIf(2, "ul_prioritization_thres_r_16", Num(1, 16, FALSE, "u8")),
       GetIf(3, "sl_prioritization_thres_r_16", Num(1, 8, FALSE, "u8"))>>,
     <<WriteHeader(TRUE, <<"sl_bsr_config_r_16", "ul_prioritization_thres_r_16",
       "sl_prioritization_thres_r_16">>), PutIf("sl_bsr_config_r_16", T("BsrConfig")),
       PutIf("ul_prioritization_thres_r_16", Num(1, 16, FALSE, "u8")),
       PutIf("sl_prioritization_thres_r_16", Num(1, 8, FALSE, "u8"))>>),
   SlConfiguredGrantConfigListR16 |-> Codec(
     <<ReadHeader(FALSE, 2),
       GetIf(1, "sl_configured_grant_config_to_release_list_r_16", NonEmpty(1, 8, T("SlConfigIndexCgR16"))),
       GetIf(2, "sl_configured_grant_config_to_add_mod_list_r_16", NonEmpty(1, 8, T("SlConfiguredGrantConfigR16")))>>,
     <<WriteHeader(FALSE, <<"sl_configured_grant_config_to_release_list_r_16",
       "sl_configured_grant_config_to_add_mod_list_r_16">>),
       PutIf("sl_configured_grant_config_to_release_list_r_16", NonEmpty(1, 8, T("SlConfigIndexCgR16"))),
       PutIf("sl_configured_grant_config_to_add_mod_list_r_16", NonEmpty(1, 8, T("SlConfiguredGrantConfigR16")))>>)]
FromSlSdapConfigR16 ==
  [SlSdapConfigR16 |-> Codec(
     <<ReadHeader(TRUE, 2), Get("sl_sdap_header_r_16", T("SlSdapHeaderR16")),
       Get("sl_default_rb_r_16", T("BOOL")),
       GetIf(1, "sl_mapped_qos_flows_r_16", T("SlMappedQosFlowsR16")),
       GetIf(2, "sl_cast_type_r_16", T("SlCastTypeR16_1"))>>,
     <<WriteHeader(TRUE, <<"sl_mapped_qos_flows_r_16", "sl_cast_type_r_16">>),
       Put("sl_sdap_header_r_16", T("SlSdapHeaderR16")), Put("sl_default_rb_r_16", T("BOOL")),
       PutIf("sl_mapped_qos_flows_r_16", T("SlMappedQosFlowsR16")),
       PutIf("sl_cast_type_r_16", T("SlCastTypeR16_1"))>>),
   SlMappedQosFlowsListDedicatedR16 |-> Codec(
     <<ReadHeader(FALSE, 2),
       GetIf(1, "sl_mapped_qos_flows_to_add_list_r_16", NonEmpty(1, 2048, T("SlQosFlowIdentityR16"))),
       GetIf(2, "sl_mapped_qos_flows_to_release_list_r_16", NonEmpty(1, 2048, T("SlQosFlowIdentityR16")))>>,
     <<WriteHeader(FALSE, <<"sl_mapped_qos_flows_to_add_list_r_16",
       "sl_mapped_qos_flows_to_release_list_r_16">>),
       PutIf("sl_mapped_qos_flows_to_add_list_r_16", NonEmpty(1, 2048, T("SlQosFlowIdentityR16"))),
       PutIf("sl_mapped_qos_flows_to_release_list_r_16", NonEmpty(1, 2048, T("SlQosFlowIdentityR16")))>>)]
FromSlSyncConfigListR16 ==
  [SlSyncConfigListR16 |-> Codec(
     <<Get("0", NonEmpty(1, 16, T("SlSyncConfigR16")))>>,
     <<Put("0", NonEmpty(1, 16, T("SlSyncConfigR16")))>>),
   SlSyncConfigR16 |-> Codec(
     <<ReadHeader(TRUE, 8), GetIf(1, "sl_sync_ref_min_hyst_r_16", T("SlSyncRefMinHystR16")),
       GetIf(2, "sl_sync_ref_diff_hyst_r_16", T("SlSyncRefDiffHystR16")),
       GetIf(3, "sl_filter_coefficient_r_16", T("FilterCoefficient")),
       GetIf(4, "sl_ssb_time_allocation_1_r_16", T("SlSsbTimeAllocationR16")),
       GetIf(5, "sl_ssb_time_allocation_2_r_16", T("SlSsbTimeAllocationR16")),
       GetIf(6, "sl_ssb_time_allocation_3_r_16", T("SlSsbTimeAllocationR16")),
       GetIf(7, "sl_ssid_r_16", Num(0, 671, FALSE, "u16")),
       Get("tx_parameters_r_16", T("TxParametersR16")),
       GetIf(8, "gnss_sync_r_16", T("GnssSyncR16_1"))>>,
     <<WriteHeader(TRUE, <<"sl_sync_ref_min_hyst_r_16", "sl_sync_ref_diff_hyst_r_16",
       "sl_filter_coefficient_r_16", "sl_ssb_time_allocation_1_r_16",
       "sl_ssb_time_allocation_2_r_16", "sl_ssb_time_allocation_3_r_16", "sl_ssid_r_16",
       "gnss_sync_r_16">>), PutIf("sl_sync_ref_min_hyst_r_16", T("SlSyncRefMinHystR16")),
       PutIf("sl_sync_ref_diff_hyst_r_16", T("SlSyncRefDiffHystR16")),
       PutIf("sl_filter_coefficient_r_16", T("FilterCoefficient")),
       PutIf("sl_ssb_time_allocation_1_r_16", T("SlSsbTimeAllocationR16")),
       PutIf("sl_ssb_time_allocation_2_r_16", T("SlSsbTimeAllocationR16")),
       PutIf("sl_ssb_time_allocation_3_r_16", T("SlSsbTimeAllocationR16")),
       PutIf("sl_ssid_r_16", Num(0, 671, FALSE, "u16")),
       Put("tx_parameters_r_16", T("TxParametersR16")),
       PutIf("gnss_sync_r_16", T("GnssSyncR16_1"))>>)]
FromSlRsrpRangeR16 ==
  [SlRsrpRangeR16 |-> Codec(
     <<Get("0", Num(0, 13, FALSE, "u8"))>>,
     <<Put("0", Num(0, 13, FALSE, "u8"))>>),
   SlSsbTimeAllocationR16 |-> Codec(
     <<ReadHeader(FALSE, 3),
       GetIf(1, "sl_num_ssb_within_period_r_16", T("SlNumSsbWithinPeriodR16")),
       GetIf(2, "sl_time_offset_ssb_r_16", Num(0, 1279, FALSE, "u16")),
       GetIf(3, "sl_time_interval_r_16", Num(0, 639, FALSE, "u16"))>>,
     <<WriteHeader(FALSE, <<"sl_num_ssb_within_period_r_16", "sl_time_offset_ssb_r_16",
       "sl_time_interval_r_16">>),
       PutIf("sl_num_ssb_within_period_r_16", T("SlNumSsbWithinPeriodR16")),
       PutIf("sl_time_offset_ssb_r_16", Num(0, 1279, FALSE, "u16")),
       PutIf("sl_time_interval_r_16", Num(0, 639, FALSE, "u16"))>>),
   SlThresRsrpListR16 |-> Codec(
     <<Get("0", NonEmpty(64, 64, T("SlThresRsrpR16")))>>,
     <<Put("0", NonEmpty(64, 64, T("SlThresRsrpR16")))>>)]
FromSlThresRsrpR16 ==
  [SlThresRsrpR16 |-> Codec(
     <<Get("0", Num(0, 66, FALSE, "u8"))>>,
     <<Put("0", Num(0, 66, FALSE, "u8"))>>),
   SlTxPowerR16 |-> Codec(
     <<ReadChoice(0, 1, FALSE, <<Alt(0, "MinusinfinityR16", Null),
       Alt(1, "TxPowerR16", Num(-30, 33, FALSE, "i8"))>>)>>,
     <<WriteChoice(0, 1, FALSE, <<Arm("MinusinfinityR16", 0, Null),
       Arm("TxPowerR16", 1, Num(-30, 33, FALSE, "i8"))>>)>>),
   SlTypeTxSyncR16 |-> Codec(<<ReadEnum(0, 2, FALSE, 3)>>, <<WriteEnum(0, 2, FALSE)>>)]
FromSlUeSelectedConfigR16 ==
  [SlUeSelectedConfigR16 |-> Codec(
     <<ReadHeader(TRUE, 6), GetIf(1, "sl_pssch_tx_config_list_r_16", T("SlPsschTxConfigListR16")),
       GetIf(2, "sl_prob_resource_keep_r_16", T("SlProbResourceKeepR16")),
       GetIf(3, "sl_reselect_after_r_16", T("SlReselectAfterR16")),
       GetIf(4, "sl_cbr_common_tx_config_list_r_16", T("SlCbrCommonTxConfigListR16")),
       GetIf(5, "ul_prioritization_thres_r_16", Num(1, 16, FALSE, "u8")),
       GetIf(6, "sl_prioritization_thres_r_16", Num(1, 8, FALSE, "u8"))>>,
     <<WriteHeader(TRUE, <<"sl_pssch_tx_config_list_r_16", "sl_prob_resource_keep_r_16",
       "sl_reselect_after_r_16", "sl_cbr_common_tx_config_list_r_16",
       "ul_prioritization_thres_r_16", "sl_prioritization_thres_r_16">>),
       PutIf("sl_pssch_tx_config_list_r_16", T("SlPsschTxConfigListR16")),
       PutIf("sl_prob_resource_keep_r_16", T("SlProbResourceKeepR16")),
       PutIf("sl_reselect_after_r_16", T("SlReselectAfterR16")),
       PutIf("sl_cbr_common_tx_config_list_r_16", T("SlCbrCommonTxConfigListR16")),
       PutIf("ul_prioritization_thres_r_16", Num(1, 16, FALSE, "u8")),
       PutIf("sl_prioritization_thres_r_16", Num(1, 8, FALSE, "u8"))>>),
   SlZoneConfigR16 |-> Codec(
     <<ReadHeader(TRUE, 0), Get("sl_zone_length_r_16", T("SlZoneLengthR16"))>>,
     <<WriteHeader(TRUE, <<>>), Put("sl_zone_length_r_16", T("SlZoneLengthR16"))>>)]
FromSlrbUuConfigIndexR16 ==
  [SlrbUuConfigIndexR16 |-> Codec(
     <<Get("0", Num(1, 512, FALSE, "u16"))>>,
     <<Put("0", Num(1, 512, FALSE, "u16"))>>)]

Codecs == {FromSlBwpConfigR16, FromSlBwpPoolConfigR16, FromSlResourcePoolConfigR16,
  FromSlCbrPriorityTxConfigListR16, FromSlPriorityTxConfigIndexR16, FromSlTxConfigIndexR16,
  FromSlCbrPsschTxConfigR16, FromSlDestinationIndexR16, FromSlConfiguredGrantConfigR16,
  FromSlCgMaxTransNumR16, FromSlFreqConfigR16, FromSlFreqIdR16, FromSlLogicalChannelConfigR16,
  FromSlMeasConfigInfoR16, FromSlMeasObjectToRemoveListR16, FromSlMeasIdInfoR16,
  FromSlMeasObjectIdR16, FromSlPsbchConfigR16, FromSlPsschTxParametersR16, FromSlQosProfileR16,
  FromSlRadioBearerConfigR16, FromSlReportConfigIdR16, FromSlMeasReportQuantityR16,
  FromSlZoneConfigMcrR16, FromSlPscchConfigR16, FromSlPsfchConfigR16, FromSlUeSelectedConfigRpR16,
  FromSlSelectionWindowListR16, FromSlMinMaxMcsListR16, FromSlPowerControlR16,
  FromSlRlcBearerConfigIndexR16, FromMacMainConfigSlR16, FromSlSdapConfigR16,
  FromSlSyncConfigListR16, FromSlRsrpRangeR16, FromSlThresRsrpR16, FromSlUeSelectedConfigR16,
  FromSlrbUuConfigIndexR16}
=============================================================================
