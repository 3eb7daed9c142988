------------------------- MODULE RrcReportMessages -------------------------
(***************************************************************************)
(* The programs of the codecs of rrc/src/rrc.rs that a message of the CCCH *)
(* or the DCCH, in either direction, or SIB2 may hold: the messages from   *)
(* ScgFailureInformation to UlInformationTransferMrdc, SIB2 and the        *)
(* satellite identifiers.                                                  *)
(***************************************************************************)
EXTENDS PerLayout

FromScgFailureInformation ==
  [ScgFailureInformation |-> Codec(
     <<ReadHeader(FALSE, 0), Get("critical_extensions", T("CriticalExtensions24"))>>,
     <<WriteHeader(FALSE, <<>>), Put("critical_extensions", T("CriticalExtensions24"))>>),
   ScgFailureInformationIEs |-> Codec(
     <<ReadHeader(FALSE, 2), GetIf(1, "failure_report_scg", T("FailureReportScg")),
       GetIf(2, "non_critical_extension", T("ScgFailureInformationV1590IEs"))>>,
     <<WriteHeader(FALSE, <<"failure_report_scg", "non_critical_extension">>),
       PutIf("failure_report_scg", T("FailureReportScg")),
       PutIf("non_critical_extension", T("ScgFailureInformationV1590IEs"))>>),
   ScgFailureInformationV1590IEs |-> Codec(
     <<ReadHeader(FALSE, 2), GetIf(1, "late_non_critical_extension", OctetString)>>,
     <<WriteHeader(FALSE, <<"late_non_critical_extension", "false">>),
       PutIf("late_non_critical_extension", OctetString)>>)]
FromFailureReportScg ==
  [FailureReportScg |-> Codec(
     <<ReadHeader(TRUE, 2), Get("failure_type", T("FailureType1")),
       GetIf(1, "meas_result_freq_list", T("MeasResultFreqList")),
       GetIf(2, "meas_result_scg_failure", OctetString)>>,
     <<WriteHeader(TRUE, <<"meas_result_freq_list", "meas_result_scg_failure">>),
       Put("failure_type", T("FailureType1")),
       PutIf("meas_result_freq_list", T("MeasResultFreqList")),
       PutIf("meas_result_scg_failure", OctetString)>>),
   MeasResultFreqList |-> Codec(
     <<Get("0", NonEmpty(1, 8, T("MeasResult2Nr")))>>,
     <<Put("0", NonEmpty(1, 8, T("MeasResult2Nr")))>>),
   ScgFailureInformationEutra |-> Codec(
     <<ReadHeader(FALSE, 0), Get("critical_extensions", T("CriticalExtensions25"))>>,
     <<WriteHeader(FALSE, <<>>), Put("critical_extensions", T("CriticalExtensions25"))>>)]
FromScgFailureInformationEutraIEs ==
  [ScgFailureInformationEutraIEs |-> Codec(
     <<ReadHeader(FALSE, 2), GetIf(1, "failure_report_scg_eutra", T("FailureReportScgEutra")),
       GetIf(2, "non_critical_extension", T("ScgFailureInformationEutraV1590IEs"))>>,
     <<WriteHeader(FALSE, <<"failure_report_scg_eutra", "non_critical_extension">>),
       PutIf("failure_report_scg_eutra", T("FailureReportScgEutra")),
       PutIf("non_critical_extension", T("ScgFailureInformationEutraV1590IEs"))>>),
   ScgFailureInformationEutraV1590IEs |-> Codec(
     <<ReadHeader(FALSE, 2), GetIf(1, "late_non_critical_extension", OctetString)>>,
     <<WriteHeader(FALSE, <<"late_non_critical_extension", "false">>),
       PutIf("late_non_critical_extension", OctetString)>>),
   FailureReportScgEutra |-> Codec(
     <<ReadHeader(TRUE, 2), Get("failure_type", T("FailureType2")),
       GetIf(1, "meas_result_freq_list_mrdc", T("MeasResultFreqListFailMrdc")),
       GetIf(2, "meas_result_scg_failure_mrdc", OctetString)>>,
     <<WriteHeader(TRUE, <<"meas_result_freq_list_mrdc", "meas_result_scg_failure_mrdc">>),
       Put("failure_type", T("FailureType2")),
       PutIf("meas_result_freq_list_mrdc", T("MeasResultFreqListFailMrdc")),
       PutIf("meas_result_scg_failure_mrdc", OctetString)>>)]
FromMeasResultFreqListFailMrdc ==
  [MeasResultFreqListFailMrdc |-> Codec(
     <<Get("0", NonEmpty(1, 8, T("MeasResult2eutra")))>>,
     <<Put("0", NonEmpty(1, 8, T("MeasResult2eutra")))>>),
   SecurityModeCommand |-> Codec(
     <<ReadHeader(FALSE, 0), Get("rrc_transaction_identifier", T("RrcTransactionIdentifier")),
       Get("critical_extensions", T("CriticalExtensions26"))>>,
     <<WriteHeader(FALSE, <<>>), Put("rrc_transaction_identifier", T("RrcTransactionIdentifier")),
       Put("critical_extensions", T("CriticalExtensions26"))>>),
   SecurityModeCommandIEs |-> Codec(
     <<ReadHeader(FALSE, 2), Get("security_config_smc", T("SecurityConfigSmc")),
       GetIf(1, "late_non_critical_extension", OctetString)>>,
     <<WriteHeader(FALSE, <<"late_non_critical_extension", "false">>),
       Put("security_config_smc", T("SecurityConfigSmc")),
       PutIf("late_non_critical_extension", OctetString)>>)]
FromSecurityConfigSmc ==
  [SecurityConfigSmc |-> Codec(
     <<ReadHeader(TRUE, 0), Get("security_algorithm_config", T("SecurityAlgorithmConfig"))>>,
     <<WriteHeader(TRUE, <<>>), Put("security_algorithm_config", T("SecurityAlgorithmConfig"))>>),
   SecurityModeComplete |-> Codec(
     <<ReadHeader(FALSE, 0), Get("rrc_transaction_identifier", T("RrcTransactionIdentifier")),
       Get("critical_extensions", T("CriticalExtensions27"))>>,
     <<WriteHeader(FALSE, <<>>), Put("rrc_transaction_identifier", T("RrcTransactionIdentifier")),
       Put("critical_extensions", T("CriticalExtensions27"))>>),
   SecurityModeCompleteIEs |-> Codec(
     <<ReadHeader(FALSE, 2), GetIf(1, "late_non_critical_extension", OctetString)>>,
     <<WriteHeader(FALSE, <<"late_non_critical_extension", "false">>),
       PutIf("late_non_critical_extension", OctetString)>>),
   SecurityModeFailure |-> Codec(
     <<ReadHeader(FALSE, 0), Get("rrc_transaction_identifier", T("RrcTransactionIdentifier")),
       Get("critical_extensions", T("CriticalExtensions28"))>>,
     <<WriteHeader(FALSE, <<>>), Put("rrc_transaction_identifier", T("RrcTransactionIdentifier")),
       Put("critical_extensions", T("CriticalExtensions28"))>>)]
FromSecurityModeFailureIEs ==
  [SecurityModeFailureIEs |-> Codec(
     <<ReadHeader(FALSE, 2), GetIf(1, "late_non_critical_extension", OctetString)>>,
     <<WriteHeader(FALSE, <<"late_non_critical_extension", "false">>),
       PutIf("late_non_critical_extension", OctetString)>>)]
FromSidelinkUeInformationNrR16 ==
  [SidelinkUeInformationNrR16 |-> Codec(
     <<ReadHeader(FALSE, 0), Get("critical_extensions", T("CriticalExtensions29"))>>,
     <<WriteHeader(FALSE, <<>>), Put("critical_extensions", T("CriticalExtensions29"))>>),
   SidelinkUeInformationNrR16IEs |-> Codec(
     <<ReadHeader(FALSE, 5),
       GetIf(1, "sl_rx_interested_freq_list_r_16", T("SlInterestedFreqListR16")),
       GetIf(2, "sl_tx_resource_req_list_r_16", T("SlTxResourceReqListR16")),
       GetIf(3, "sl_failure_list_r_16", T("SlFailureListR16")),
       GetIf(4, "late_non_critical_extension", OctetString)>>,
     <<WriteHeader(FALSE, <<"sl_rx_interested_freq_list_r_16", "sl_tx_resource_req_list_r_16",
       "sl_failure_list_r_16", "late_non_critical_extension", "false">>),
       PutIf("sl_rx_interested_freq_list_r_16", T("SlInterestedFreqListR16")),
       PutIf("sl_tx_resource_req_list_r_16", T("SlTxResourceReqListR16")),
       PutIf("sl_failure_list_r_16", T("SlFailureListR16")),
       PutIf("late_non_critical_extension", OctetString)>>),
   SlInterestedFreqListR16 |-> Codec(
     <<Get("0", NonEmpty(1, 8, Num(1, 8, FALSE, "u8")))>>,
     <<Put("0", NonEmpty(1, 8, Num(1, 8, FALSE, "u8")))>>)]
FromSlTxResourceReqListR16 ==
  [SlTxResourceReqListR16 |-> Codec(
     <<Get("0", NonEmpty(1, 32, T("SlTxResourceReqR16")))>>,
     <<Put("0", NonEmpty(1, 32, T("SlTxResourceReqR16")))>>),
   SlTxResourceReqR16 |-> Codec(
     <<ReadHeader(FALSE, 5), Get("sl_destination_identity_r_16", T("SlDestinationIdentityR16")),
       Get("sl_cast_type_r_16", T("SlCastTypeR16")),
       GetIf(1, "sl_rlc_mode_indication_list_r_16", NonEmpty(1, 512, T("SlRlcModeIndicationR16"))),
       GetIf(2, "sl_qos_info_list_r_16", NonEmpty(1, 64, T("SlQosInfoR16"))),
       GetIf(3, "sl_type_tx_sync_list_r_16", NonEmpty(1, 8, T("SlTypeTxSyncR16"))),
       GetIf(4, "sl_tx_interested_freq_list_r_16", T("SlTxInterestedFreqListR16")),
       GetIf(5, "sl_capability_information_sidelink_r_16", OctetString)>>,
     <<WriteHeader(FALSE, <<"sl_rlc_mode_indication_list_r_16", "sl_qos_info_list_r_16",
       "sl_type_tx_sync_list_r_16", "sl_tx_interested_freq_list_r_16",
       "sl_capability_information_sidelink_r_16">>),
       Put("sl_destination_identity_r_16", T("SlDestinationIdentityR16")),
       Put("sl_cast_type_r_16", T("SlCastTypeR16")),
       PutIf("sl_rlc_mode_indication_list_r_16", NonEmpty(1, 512, T("SlRlcModeIndicationR16"))),
       PutIf("sl_qos_info_list_r_16", NonEmpty(1, 64, T("SlQosInfoR16"))),
       PutIf("sl_type_tx_sync_list_r_16", NonEmpty(1, 8, T("SlTypeTxSyncR16"))),
       PutIf("sl_tx_interested_freq_list_r_16", T("SlTxInterestedFreqListR16")),
       PutIf("sl_capability_information_sidelink_r_16", OctetString)>>)]
FromSlTxInterestedFreqListR16 ==
  [SlTxInterestedFreqListR16 |-> Codec(
     <<Get("0", NonEmpty(1, 8, Num(1, 8, FALSE, "u8")))>>,
     <<Put("0", NonEmpty(1, 8, Num(1, 8, FALSE, "u8")))>>),
   SlQosInfoR16 |-> Codec(
     <<ReadHeader(FALSE, 1), Get("sl_qos_flow_identity_r_16", T("SlQosFlowIdentityR16")),
       GetIf(1, "sl_qos_profile_r_16", T("SlQosProfileR16"))>>,
     <<WriteHeader(FALSE, <<"sl_qos_profile_r_16">>),
       Put("sl_qos_flow_identity_r_16", T("SlQosFlowIdentityR16")),
       PutIf("sl_qos_profile_r_16", T("SlQosProfileR16"))>>),
   SlRlcModeIndicationR16 |-> Codec(
     <<ReadHeader(FALSE, 0), Get("sl_mode_r_16", T("SlModeR16")),
       Get("sl_qos_info_list_r_16", NonEmpty(1, 64, T("SlQosInfoR16")))>>,
     <<WriteHeader(FALSE, <<>>), Put("sl_mode_r_16", T("SlModeR16")),
       Put("sl_qos_info_list_r_16", NonEmpty(1, 64, T("SlQosInfoR16")))>>)]
FromSlFailureListR16 ==
  [SlFailureListR16 |-> Codec(
     <<Get("0", NonEmpty(1, 32, T("SlFailureR16")))>>,
     <<Put("0", NonEmpty(1, 32, T("SlFailureR16")))>>),
   SlFailureR16 |-> Codec(
     <<ReadHeader(FALSE, 0), Get("sl_destination_identity_r_16", T("SlDestinationIdentityR16")),
       Get("sl_failure_r_16", T("SlFailureR16_1"))>>,
     <<WriteHeader(FALSE, <<>>), Put("sl_destination_identity_r_16", T("SlDestinationIdentityR16")),
       Put("sl_failure_r_16", T("SlFailureR16_1"))>>)]
FromUeAssistanceInformation ==
  [UeAssistanceInformation |-> Codec(
     <<ReadHeader(FALSE, 0), Get("critical_extensions", T("CriticalExtensions31"))>>,
     <<WriteHeader(FALSE, <<>>), Put("critical_extensions", T("CriticalExtensions31"))>>),
   UeAssistanceInformationIEs |-> Codec(
     <<ReadHeader(FALSE, 3), GetIf(1, "delay_budget_report", T("DelayBudgetReport")),
       GetIf(2, "late_non_critical_extension", OctetString),
       GetIf(3, "non_critical_extension", T("UeAssistanceInformationV1540IEs"))>>,
     <<WriteHeader(FALSE, <<"delay_budget_report", "late_non_critical_extension",
       "non_critical_extension">>), PutIf("delay_budget_report", T("DelayBudgetReport")),
       PutIf("late_non_critical_extension", OctetString),
       PutIf("non_critical_extension", T("UeAssistanceInformationV1540IEs"))>>),
   DelayBudgetReport |-> Codec(
     <<ReadChoice(0, 0, TRUE, <<Alt(0, "Type1", T("Type1"))>>)>>,
     <<WriteChoice(0, 0, TRUE, <<Arm("Type1", 0, T("Type1"))>>)>>)]
FromUeAssistanceInformationV1540IEs ==
  [UeAssistanceInformationV1540IEs |-> Codec(
     <<ReadHeader(FALSE, 2), GetIf(1, "overheating_assistance", T("OverheatingAssistance")),
       GetIf(2, "non_critical_extension", T("UeAssistanceInformationV1610IEs"))>>,
     <<WriteHeader(FALSE, <<"overheating_assistance", "non_critical_extension">>),
       PutIf("overheating_assistance", T("OverheatingAssistance")),
       PutIf("non_critical_extension", T("UeAssistanceInformationV1610IEs"))>>),
   OverheatingAssistance |-> Codec(
     <<ReadHeader(FALSE, 5), GetIf(1, "reduced_max_c_cs", T("ReducedMaxCCsR16")),
       GetIf(2, "reduced_max_bw_fr1", T("ReducedMaxBwFRxR16")),
       GetIf(3, "reduced_max_bw_fr2", T("ReducedMaxBwFRxR16")),
       GetIf(4, "reduced_max_mimo_layers_fr1", T("ReducedMaxMimoLayersFr1")),
       GetIf(5, "reduced_max_mimo_layers_fr2", T("ReducedMaxMimoLayersFr2"))>>,
     <<WriteHeader(FALSE, <<"reduced_max_c_cs", "reduced_max_bw_fr1", "reduced_max_bw_fr2",
       "reduced_max_mimo_layers_fr1", "reduced_max_mimo_layers_fr2">>),
       PutIf("reduced_max_c_cs", T("ReducedMaxCCsR16")),
       PutIf("reduced_max_bw_fr1", T("ReducedMaxBwFRxR16")),
       PutIf("reduced_max_bw_fr2", T("ReducedMaxBwFRxR16")),
       PutIf("reduced_max_mimo_layers_fr1", T("ReducedMaxMimoLayersFr1")),
       PutIf("reduced_max_mimo_layers_fr2", T("ReducedMaxMimoLayersFr2"))>>)]
FromReducedAggregatedBandwidth ==
  [ReducedAggregatedBandwidth |-> Codec(
     <<ReadEnum(0, 11, FALSE, 12)>>,
     <<WriteEnum(0, 11, FALSE)>>),
   UeAssistanceInformationV1610IEs |-> Codec(
     <<ReadHeader(FALSE, 10), GetIf(1, "idc_assistance_r_16", T("IdcAssistanceR16")),
       GetIf(2, "drx_preference_r_16", T("DrxPreferenceR16")),
       GetIf(3, "max_bw_preference_r_16", T("MaxBwPreferenceR16")),
       GetIf(4, "max_cc_preference_r_16", T("MaxCcPreferenceR16")),
       GetIf(5, "max_mimo_layer_preference_r_16", T("MaxMimoLayerPreferenceR16")),
       GetIf(6, "min_scheduling_offset_preference_r_16", T("MinSchedulingOffsetPreferenceR16")),
       GetIf(7, "release_preference_r_16", T("ReleasePreferenceR16")),
       GetIf(8, "sl_ue_assistance_information_nr_r_16", T("SlUeAssistanceInformationNrR16")),
       GetIf(9, "reference_time_info_preference_r_16", T("BOOL"))>>,
     <<WriteHeader(FALSE, <<"idc_assistance_r_16", "drx_preference_r_16", "max_bw_preference_r_16",
       "max_cc_preference_r_16", "max_mimo_layer_preference_r_16",
       "min_scheduling_offset_preference_r_16", "release_preference_r_16",
       "sl_ue_assistance_information_nr_r_16", "reference_time_info_preference_r_16", "false">>),
       PutIf("idc_assistance_r_16", T("IdcAssistanceR16")),
       PutIf("drx_preference_r_16", T("DrxPreferenceR16")),
       PutIf("max_bw_preference_r_16", T("MaxBwPreferenceR16")),
       PutIf("max_cc_preference_r_16", T("MaxCcPreferenceR16")),
       PutIf("max_mimo_layer_preference_r_16", T("MaxMimoLayerPreferenceR16")),
       PutIf("min_scheduling_offset_preference_r_16", T("MinSchedulingOffsetPreferenceR16")),
       PutIf("release_preference_r_16", T("ReleasePreferenceR16")),
       PutIf("sl_ue_assistance_information_nr_r_16", T("SlUeAssistanceInformationNrR16")),
       PutIf("reference_time_info_preference_r_16", T("BOOL"))>>)]
FromIdcAssistanceR16 ==
  [IdcAssistanceR16 |-> Codec(
     <<ReadHeader(TRUE, 2),
       GetIf(1, "affected_carrier_freq_list_r_16", T("AffectedCarrierFreqListR16")),
       GetIf(2, "affected_carrier_freq_comb_list_r_16", T("AffectedCarrierFreqCombListR16"))>>,
     <<WriteHeader(TRUE, <<"affected_carrier_freq_list_r_16",
       "affected_carrier_freq_comb_list_r_16">>),
       PutIf("affected_carrier_freq_list_r_16", T("AffectedCarrierFreqListR16")),
       PutIf("affected_carrier_freq_comb_list_r_16", T("AffectedCarrierFreqCombListR16"))>>),
   AffectedCarrierFreqListR16 |-> Codec(
     <<Get("0", NonEmpty(1, 128, T("AffectedCarrierFreqR16")))>>,
     <<Put("0", NonEmpty(1, 128, T("AffectedCarrierFreqR16")))>>),
   AffectedCarrierFreqR16 |-> Codec(
     <<ReadHeader(FALSE, 0), Get("carrier_freq_r_16", T("ArfcnValueNr")),
       Get("interference_direction_r_16", T("InterferenceDirectionR16"))>>,
     <<WriteHeader(FALSE, <<>>), Put("carrier_freq_r_16", T("ArfcnValueNr")),
       Put("interference_direction_r_16", T("InterferenceDirectionR16"))>>)]
FromAffectedCarrierFreqCombListR16 ==
  [AffectedCarrierFreqCombListR16 |-> Codec(
     <<Get("0", NonEmpty(1, 128, T("AffectedCarrierFreqCombR16")))>>,
     <<Put("0", NonEmpty(1, 128, T("AffectedCarrierFreqCombR16")))>>),
   AffectedCarrierFreqCombR16 |-> Codec(
     <<ReadHeader(FALSE, 1),
       GetIf(1, "affected_carrier_freq_comb_r_16", NonEmpty(2, 32, T("ArfcnValueNr"))),
       Get("victim_system_type_r_16", T("VictimSystemTypeR16"))>>,
     <<WriteHeader(FALSE, <<"affected_carrier_freq_comb_r_16">>),
       PutIf("affected_carrier_freq_comb_r_16", NonEmpty(2, 32, T("ArfcnValueNr"))),
       Put("victim_system_type_r_16", T("VictimSystemTypeR16"))>>)]
FromVictimSystemTypeR16 ==
  [VictimSystemTypeR16 |-> Codec(
     <<ReadHeader(TRUE, 7), GetIf(1, "gps_r_16", T("GpsR16")),
       GetIf(2, "glonass_r_16", T("GlonassR16")), GetIf(3, "bds_r_16", T("BdsR16")),
       GetIf(4, "galileo_r_16", T("GalileoR16")), GetIf(5, "nav_ic_r_16", T("NavIcR16")),
       GetIf(6, "wlan_r_16", T("WlanR16")), GetIf(7, "bluetooth_r_16", T("BluetoothR16"))>>,
     <<WriteHeader(TRUE, <<"gps_r_16", "glonass_r_16", "bds_r_16", "galileo_r_16", "nav_ic_r_16",
       "wlan_r_16", "bluetooth_r_16">>), PutIf("gps_r_16", T("GpsR16")),
       PutIf("glonass_r_16", T("GlonassR16")), PutIf("bds_r_16", T("BdsR16")),
       PutIf("galileo_r_16", T("GalileoR16")), PutIf("nav_ic_r_16", T("NavIcR16")),
       PutIf("wlan_r_16", T("WlanR16")), PutIf("bluetooth_r_16", T("BluetoothR16"))>>),
   DrxPreferenceR16 |-> Codec(
     <<ReadHeader(FALSE, 4),
       GetIf(1, "preferred_drx_inactivity_timer_r_16", T("PreferredDrxInactivityTimerR16")),
       GetIf(2, "preferred_drx_long_cycle_r_16", T("PreferredDrxLongCycleR16")),
       GetIf(3, "preferred_drx_short_cycle_r_16", T("PreferredDrxShortCycleR16")),
       GetIf(4, "preferred_drx_short_cycle_timer_r_16", Num(1, 16, FALSE, "u8"))>>,
     <<WriteHeader(FALSE, <<"preferred_drx_inactivity_timer_r_16", "preferred_drx_long_cycle_r_16",
       "preferred_drx_short_cycle_r_16", "preferred_drx_short_cycle_timer_r_16">>),
       PutIf("preferred_drx_inactivity_timer_r_16", T("PreferredDrxInactivityTimerR16")),
       PutIf("preferred_drx_long_cycle_r_16", T("PreferredDrxLongCycleR16")),
       PutIf("preferred_drx_short_cycle_r_16", T("PreferredDrxShortCycleR16")),
       PutIf("preferred_drx_short_cycle_timer_r_16", Num(1, 16, FALSE, "u8"))>>)]
FromMaxBwPreferenceR16 ==
  [MaxBwPreferenceR16 |-> Codec(
     <<ReadHeader(FALSE, 2), GetIf(1, "reduced_max_bw_fr1_r_16", T("ReducedMaxBwFRxR16")),
       GetIf(2, "reduced_max_bw_fr2_r_16", T("ReducedMaxBwFRxR16"))>>,
     <<WriteHeader(FALSE, <<"reduced_max_bw_fr1_r_16", "reduced_max_bw_fr2_r_16">>),
       PutIf("reduced_max_bw_fr1_r_16", T("ReducedMaxBwFRxR16")),
       PutIf("reduced_max_bw_fr2_r_16", T("ReducedMaxBwFRxR16"))>>),
   MaxCcPreferenceR16 |-> Codec(
     <<ReadHeader(FALSE, 1), GetIf(1, "reduced_max_c_cs_r_16", T("ReducedMaxCCsR16"))>>,
     <<WriteHeader(FALSE, <<"reduced_max_c_cs_r_16">>),
       PutIf("reduced_max_c_cs_r_16", T("ReducedMaxCCsR16"))>>),
   MaxMimoLayerPreferenceR16 |-> Codec(
     <<ReadHeader(FALSE, 2),
       GetIf(1, "reduced_max_mimo_layers_fr1_r_16", T("ReducedMaxMimoLayersFr1R16")),
       GetIf(2, "reduced_max_mimo_layers_fr2_r_16", T("ReducedMaxMimoLayersFr2R16"))>>,
     <<WriteHeader(FALSE, <<"reduced_max_mimo_layers_fr1_r_16",
       "reduced_max_mimo_layers_fr2_r_16">>),
       PutIf("reduced_max_mimo_layers_fr1_r_16", T("ReducedMaxMimoLayersFr1R16")),
       PutIf("reduced_max_mimo_layers_fr2_r_16", T("ReducedMaxMimoLayersFr2R16"))>>)]
FromMinSchedulingOffsetPreferenceR16 ==
  [MinSchedulingOffsetPreferenceR16 |-> Codec(
     <<ReadHeader(FALSE, 2), GetIf(1, "preferred_k0_r_16", T("PreferredK0R16")),
       GetIf(2, "preferred_k2_r_16", T("PreferredK2R16"))>>,
     <<WriteHeader(FALSE, <<"preferred_k0_r_16", "preferred_k2_r_16">>),
       PutIf("preferred_k0_r_16", T("PreferredK0R16")),
       PutIf("preferred_k2_r_16", T("PreferredK2R16"))>>),
   ReleasePreferenceR16 |-> Codec(
     <<ReadHeader(FALSE, 0), Get("preferred_rrc_state_r_16", T("PreferredRrcStateR16"))>>,
     <<WriteHeader(FALSE, <<>>), Put("preferred_rrc_state_r_16", T("PreferredRrcStateR16"))>>),
   ReducedMaxBwFRxR16 |-> Codec(
     <<ReadHeader(FALSE, 0), Get("reduced_bw_dl_r_16", T("ReducedAggregatedBandwidth")),
       Get("reduced_bw_ul_r_16", T("ReducedAggregatedBandwidth"))>>,
     <<WriteHeader(FALSE, <<>>), Put("reduced_bw_dl_r_16", T("ReducedAggregatedBandwidth")),
       Put("reduced_bw_ul_r_16", T("ReducedAggregatedBandwidth"))>>)]
FromReducedMaxCCsR16 ==
  [ReducedMaxCCsR16 |-> Codec(
     <<ReadHeader(FALSE, 0), Get("reduced_c_cs_dl_r_16", Num(0, 31, FALSE, "u8")),
       Get("reduced_c_cs_ul_r_16", Num(0, 31, FALSE, "u8"))>>,
     <<WriteHeader(FALSE, <<>>), Put("reduced_c_cs_dl_r_16", Num(0, 31, FALSE, "u8")),
       Put("reduced_c_cs_ul_r_16", Num(0, 31, FALSE, "u8"))>>),
   SlUeAssistanceInformationNrR16 |-> Codec(
     <<Get("0", NonEmpty(1, 8, T("SlTrafficPatternInfoR16")))>>,
     <<Put("0", NonEmpty(1, 8, T("SlTrafficPatternInfoR16")))>>),
   SlTrafficPatternInfoR16 |-> Codec(
     <<ReadHeader(FALSE, 0), Get("traffic_periodicity_r_16", T("TrafficPeriodicityR16")),
       Get("timing_offset_r_16", Num(0, 10239, FALSE, "u16")),
       Get("message_size_r_16", Bits(8, 8, FALSE)),
       Get("sl_qos_flow_identity_r_16", T("SlQosFlowIdentityR16"))>>,
     <<WriteHeader(FALSE, <<>>), Put("traffic_periodicity_r_16", T("TrafficPeriodicityR16")),
       Put("timing_offset_r_16", Num(0, 10239, FALSE, "u16")),
       Put("message_size_r_16", Bits(8, 8, FALSE)),
       Put("sl_qos_flow_identity_r_16", T("SlQosFlowIdentityR16"))>>)]
FromUeCapabilityEnquiry ==
  [UeCapabilityEnquiry |-> Codec(
     <<ReadHeader(FALSE, 0), Get("rrc_transaction_identifier", T("RrcTransactionIdentifier")),
       Get("critical_extensions", T("CriticalExtensions32"))>>,
     <<WriteHeader(FALSE, <<>>), Put("rrc_transaction_identifier", T("RrcTransactionIdentifier")),
       Put("critical_extensions", T("CriticalExtensions32"))>>),
   UeCapabilityEnquiryIEs |-> Codec(
     <<ReadHeader(FALSE, 2), Get("ue_capability_rat_request_list", T("UeCapabilityRatRequestList")),
       GetIf(1, "late_non_critical_extension", OctetString),
       GetIf(2, "ue_capability_enquiry_ext", OctetString)>>,
     <<WriteHeader(FALSE, <<"late_non_critical_extension", "ue_capability_enquiry_ext">>),
       Put("ue_capability_rat_request_list", T("UeCapabilityRatRequestList")),
       PutIf("late_non_critical_extension", OctetString),
       PutIf("ue_capability_enquiry_ext", OctetString)>>)]
FromUeCapabilityInformation ==
  [UeCapabilityInformation |-> Codec(
     <<ReadHeader(FALSE, 0), Get("rrc_transaction_identifier", T("RrcTransactionIdentifier")),
       Get("critical_extensions", T("CriticalExtensions33"))>>,
     <<WriteHeader(FALSE, <<>>), Put("rrc_transaction_identifier", T("RrcTransactionIdentifier")),
       Put("critical_extensions", T("CriticalExtensions33"))>>),
   UeCapabilityInformationIEs |-> Codec(
     <<ReadHeader(FALSE, 3),
       GetIf(1, "ue_capability_rat_container_list", T("UeCapabilityRatContainerList")),
       GetIf(2, "late_non_critical_extension", OctetString)>>,
     <<WriteHeader(FALSE, <<"ue_capability_rat_container_list", "late_non_critical_extension",
       "false">>), PutIf("ue_capability_rat_container_list", T("UeCapabilityRatContainerList")),
       PutIf("late_non_critical_extension", OctetString)>>),
   UeInformationRequestR16 |-> Codec(
     <<ReadHeader(FALSE, 0), Get("rrc_transaction_identifier", T("RrcTransactionIdentifier")),
       Get("critical_extensions", T("CriticalExtensions34"))>>,
     <<WriteHeader(FALSE, <<>>), Put("rrc_transaction_identifier", T("RrcTransactionIdentifier")),
       Put("critical_extensions", T("CriticalExtensions34"))>>)]
FromUeInformationRequestR16IEs ==
  [UeInformationRequestR16IEs |-> Codec(
     <<ReadHeader(FALSE, 8),
       GetIf(1, "idle_mode_measurement_req_r_16", T("IdleModeMeasurementReqR16_1")),
       GetIf(2, "log_meas_report_req_r_16", T("LogMeasReportReqR16")),
       GetIf(3, "conn_est_fail_report_req_r_16", T("ConnEstFailReportReqR16")),
       GetIf(4, "ra_report_req_r_16", T("RaReportReqR16")),
       GetIf(5, "rlf_report_req_r_16", T("RlfReportReqR16")),
       GetIf(6, "mobility_history_report_req_r_16", T("MobilityHistoryReportReqR16")),
       GetIf(7, "late_non_critical_extension", OctetString)>>,
     <<WriteHeader(FALSE, <<"idle_mode_measurement_req_r_16", "log_meas_report_req_r_16",
       "conn_est_fail_report_req_r_16", "ra_report_req_r_16", "rlf_report_req_r_16",
       "mobility_history_report_req_r_16", "late_non_critical_extension", "false">>),
       PutIf("idle_mode_measurement_req_r_16", T("IdleModeMeasurementReqR16_1")),
       PutIf("log_meas_report_req_r_16", T("LogMeasReportReqR16")),
       PutIf("conn_est_fail_report_req_r_16", T("ConnEstFailReportReqR16")),
       PutIf("ra_report_req_r_16", T("RaReportReqR16")),
       PutIf("rlf_report_req_r_16", T("RlfReportReqR16")),
       PutIf("mobility_history_report_req_r_16", T("MobilityHistoryReportReqR16")),
       PutIf("late_non_critical_extension", OctetString)>>),
   UeInformationResponseR16 |-> Codec(
     <<ReadHeader(FALSE, 0), Get("rrc_transaction_identifier", T("RrcTransactionIdentifier")),
       Get("critical_extensions", T("CriticalExtensions35"))>>,
     <<WriteHeader(FALSE, <<>>), Put("rrc_transaction_identifier", T("RrcTransactionIdentifier")),
       Put("critical_extensions", T("CriticalExtensions35"))>>)]
FromUeInformationResponseR16IEs ==
  [UeInformationResponseR16IEs |-> Codec(
     <<ReadHeader(FALSE, 9), GetIf(1, "meas_result_idle_eutra_r_16", T("MeasResultIdleEutraR16")),
       GetIf(2, "meas_result_idle_nr_r_16", T("MeasResultIdleNrR16")),
       GetIf(3, "log_meas_report_r_16", T("LogMeasReportR16")),
       GetIf(4, "conn_est_fail_report_r_16", T("ConnEstFailReportR16")),
       GetIf(5, "ra_report_list_r_16", T("RaReportListR16")),
       GetIf(6, "rlf_report_r_16", T("RlfReportR16")),
       GetIf(7, "mobility_history_report_r_16", T("MobilityHistoryReportR16")),
       GetIf(8, "late_non_critical_extension", OctetString)>>,
     <<WriteHeader(FALSE, <<"meas_result_idle_eutra_r_16", "meas_result_idle_nr_r_16",
       "log_meas_report_r_16", "conn_est_fail_report_r_16", "ra_report_list_r_16",
       "rlf_report_r_16", "mobility_history_report_r_16", "late_non_critical_extension", "false">>),
       PutIf("meas_result_idle_eutra_r_16", T("MeasResultIdleEutraR16")),
       PutIf("meas_result_idle_nr_r_16", T("MeasResultIdleNrR16")),
       PutIf("log_meas_report_r_16", T("LogMeasReportR16")),
       PutIf("conn_est_fail_report_r_16", T("ConnEstFailReportR16")),
       PutIf("ra_report_list_r_16", T("RaReportListR16")),
       PutIf("rlf_report_r_16", T("RlfReportR16")),
       PutIf("mobility_history_report_r_16", T("MobilityHistoryReportR16")),
       PutIf("late_non_critical_extension", OctetString)>>)]
FromLogMeasReportR16 ==
  [LogMeasReportR16 |-> Codec(
     <<ReadHeader(TRUE, 3), Get("absolute_time_stamp_r_16", T("AbsoluteTimeInfoR16")),
       Get("trace_reference_r_16", T("TraceReferenceR16")),
       Get("trace_recording_session_ref_r_16", OctetArray(2, 2, FALSE, 2)),
       Get("tce_id_r_16", OctetArray(1, 1, FALSE, 1)),
       Get("log_meas_info_list_r_16", T("LogMeasInfoListR16")),
       GetIf(1, "log_meas_available_r_16", T("LogMeasAvailableR16")),
       GetIf(2, "log_meas_available_bt_r_16", T("LogMeasAvailableBtR16")),
       GetIf(3, "log_meas_available_wlan_r_16", T("LogMeasAvailableWlanR16"))>>,
     <<WriteHeader(TRUE, <<"log_meas_available_r_16", "log_meas_available_bt_r_16",
       "log_meas_available_wlan_r_16">>), Put("absolute_time_stamp_r_16", T("AbsoluteTimeInfoR16")),
       Put("trace_reference_r_16", T("TraceReferenceR16")),
       Put("trace_recording_session_ref_r_16", OctetArray(2, 2, FALSE, 2)),
       Put("tce_id_r_16", OctetArray(1, 1, FALSE, 1)),
       Put("log_meas_info_list_r_16", T("LogMeasInfoListR16")),
       PutIf("log_meas_available_r_16", T("LogMeasAvailableR16")),
       PutIf("log_meas_available_bt_r_16", T("LogMeasAvailableBtR16")),
       PutIf("log_meas_available_wlan_r_16", T("LogMeasAvailableWlanR16"))>>),
   LogMeasInfoListR16 |-> Codec(
     <<Get("0", NonEmpty(1, 520, T("LogMeasInfoR16")))>>,
     <<Put("0", NonEmpty(1, 520, T("LogMeasInfoR16")))>>)]
FromLogMeasInfoR16 ==
  [LogMeasInfoR16 |-> Codec(
     <<ReadHeader(TRUE, 4), GetIf(1, "location_info_r_16", T("LocationInfoR16")),
       Get("relative_time_stamp_r_16", Num(0, 7200, FALSE, "u16")),
       GetIf(2, "serv_cell_identity_r_16", T("CgiInfoLoggingR16")),
       GetIf(3, "meas_result_serving_cell_r_16", T("MeasResultServingCellR16")),
       Get("meas_result_neigh_cells_r_16", T("MeasResultNeighCellsR16")),
       GetIf(4, "any_cell_selection_detected_r_16", T("AnyCellSelectionDetectedR16"))>>,
     <<WriteHeader(TRUE, <<"location_info_r_16", "serv_cell_identity_r_16",
       "meas_result_serving_cell_r_16", "any_cell_selection_detected_r_16">>),
       PutIf("location_info_r_16", T("LocationInfoR16")),
       Put("relative_time_stamp_r_16", Num(0, 7200, FALSE, "u16")),
       PutIf("serv_cell_identity_r_16", T("CgiInfoLoggingR16")),
       PutIf("meas_result_serving_cell_r_16", T("MeasResultServingCellR16")),
       Put("meas_result_neigh_cells_r_16", T("MeasResultNeighCellsR16")),
       PutIf("any_cell_selection_detected_r_16", T("AnyCellSelectionDetectedR16"))>>),
   ConnEstFailReportR16 |-> Codec(
     <<ReadHeader(TRUE, 1), Get("meas_result_failed_cell_r_16", T("MeasResultFailedCellR16")),
       GetIf(1, "location_info_r_16", T("LocationInfoR16")),
       Get("meas_result_neigh_cells_r_16", T("MeasResultNeighCellsR16_1")),
       Get("number_of_conn_fail_r_16", Num(1, 8, FALSE, "u8")),
       Get("per_ra_info_list_r_16", T("PerRaInfoListR16")),
       Get("time_since_failure_r_16", T("TimeSinceFailureR16"))>>,
     <<WriteHeader(TRUE, <<"location_info_r_16">>),
       Put("meas_result_failed_cell_r_16", T("MeasResultFailedCellR16")),
       PutIf("location_info_r_16", T("LocationInfoR16")),
       Put("meas_result_neigh_cells_r_16", T("MeasResultNeighCellsR16_1")),
       Put("number_of_conn_fail_r_16", Num(1, 8, FALSE, "u8")),
       Put("per_ra_info_list_r_16", T("PerRaInfoListR16")),
       Put("time_since_failure_r_16", T("TimeSinceFailureR16"))>>)]
FromMeasResultServingCellR16 ==
  [MeasResultServingCellR16 |-> Codec(
     <<ReadHeader(FALSE, 1), Get("results_ssb_cell", T("MeasQuantityResults")),
       GetIf(1, "results_ssb", T("ResultsSsb"))>>,
     <<WriteHeader(FALSE, <<"results_ssb">>), Put("results_ssb_cell", T("MeasQuantityResults")),
       PutIf("results_ssb", T("ResultsSsb"))>>),
   MeasResultFailedCellR16 |-> Codec(
     <<ReadHeader(FALSE, 0), Get("cgi_info", T("CgiInfoLoggingR16")),
       Get("meas_result_r_16", T("MeasResultR16"))>>,
     <<WriteHeader(FALSE, <<>>), Put("cgi_info", T("CgiInfoLoggingR16")),
       Put("meas_result_r_16", T("MeasResultR16"))>>),
   RaReportListR16 |-> Codec(
     <<Get("0", NonEmpty(1, 8, T("RaReportR16")))>>,
     <<Put("0", NonEmpty(1, 8, T("RaReportR16")))>>),
   RaReportR16 |-> Codec(
     <<ReadHeader(TRUE, 1), Get("cell_id_r_16", T("CellIdR16")),
       GetIf(1, "ra_information_common_r_16", T("RaInformationCommonR16")),
       Get("ra_purpose_r_16", T("RaPurposeR16"))>>,
     <<WriteHeader(TRUE, <<"ra_information_common_r_16">>), Put("cell_id_r_16", T("CellIdR16")),
       PutIf("ra_information_common_r_16", T("RaInformationCommonR16")),
       Put("ra_purpose_r_16", T("RaPurposeR16"))>>)]
FromRaInformationCommonR16 ==
  [RaInformationCommonR16 |-> Codec(
     <<ReadHeader(TRUE, 6), Get("absolute_frequency_point_a_r_16", T("ArfcnValueNr")),
       Get("location_and_bandwidth_r_16", Num(0, 37949, FALSE, "u16")),
       Get("subcarrier_spacing_r_16", T("SubcarrierSpacing")),
       GetIf(1, "msg_1_frequency_start_r_16", Num(0, 274, FALSE, "u16")),
       GetIf(2, "msg_1_frequency_start_cfra_r_16", Num(0, 274, FALSE, "u16")),
       GetIf(3, "msg_1_subcarrier_spacing_r_16", T("SubcarrierSpacing")),
       GetIf(4, "msg_1_subcarrier_spacing_cfra_r_16", T("SubcarrierSpacing")),
       GetIf(5, "msg_1_fdm_r_16", T("Msg1FdmR16")),
       GetIf(6, "msg_1_fdmcfra_r_16", T("Msg1FdmcfraR16")),
       Get("per_ra_info_list_r_16", T("PerRaInfoListR16"))>>,
     <<WriteHeader(TRUE, <<"msg_1_frequency_start_r_16", "msg_1_frequency_start_cfra_r_16",
       "msg_1_subcarrier_spacing_r_16", "msg_1_subcarrier_spacing_cfra_r_16", "msg_1_fdm_r_16",
       "msg_1_fdmcfra_r_16">>), Put("absolute_frequency_point_a_r_16", T("ArfcnValueNr")),
       Put("location_and_bandwidth_r_16", Num(0, 37949, FALSE, "u16")),
       Put("subcarrier_spacing_r_16", T("SubcarrierSpacing")),
       PutIf("msg_1_frequency_start_r_16", Num(0, 274, FALSE, "u16")),
       PutIf("msg_1_frequency_start_cfra_r_16", Num(0, 274, FALSE, "u16")),
       PutIf("msg_1_subcarrier_spacing_r_16", T("SubcarrierSpacing")),
       PutIf("msg_1_subcarrier_spacing_cfra_r_16", T("SubcarrierSpacing")),
       PutIf("msg_1_fdm_r_16", T("Msg1FdmR16")), PutIf("msg_1_fdmcfra_r_16", T("Msg1FdmcfraR16")),
       Put("per_ra_info_list_r_16", T("PerRaInfoListR16"))>>),
   PerRaInfoListR16 |-> Codec(
     <<Get("0", NonEmpty(1, 200, T("PerRaInfoR16")))>>,
     <<Put("0", NonEmpty(1, 200, T("PerRaInfoR16")))>>)]
FromPerRaInfoR16 ==
  [PerRaInfoR16 |-> Codec(
     <<ReadChoice(0, 1, FALSE, <<Alt(0, "PerRassbInfoListR16", T("PerRassbInfoR16")),
       Alt(1, "PerRacsiRsInfoListR16", T("PerRacsiRsInfoR16"))>>)>>,
     <<WriteChoice(0, 1, FALSE, <<Arm("PerRassbInfoListR16", 0, T("PerRassbInfoR16")),
       Arm("PerRacsiRsInfoListR16", 1, T("PerRacsiRsInfoR16"))>>)>>),
   PerRassbInfoR16 |-> Codec(
     <<ReadHeader(FALSE, 0), Get("ssb_index_r_16", T("SsbIndex")),
       Get("number_of_preambles_sent_on_ssb_r_16", Num(1, 200, FALSE, "u8")),
       Get("per_ra_attempt_info_list_r_16", T("PerRaAttemptInfoListR16"))>>,
     <<WriteHeader(FALSE, <<>>), Put("ssb_index_r_16", T("SsbIndex")),
       Put("number_of_preambles_sent_on_ssb_r_16", Num(1, 200, FALSE, "u8")),
       Put("per_ra_attempt_info_list_r_16", T("PerRaAttemptInfoListR16"))>>),
   PerRacsiRsInfoR16 |-> Codec(
     <<ReadHeader(FALSE, 0), Get("csi_rs_index_r_16", T("CsiRsIndex")),
       Get("number_of_preambles_sent_on_csi_rs_r_16", Num(1, 200, FALSE, "u8"))>>,
     <<WriteHeader(FALSE, <<>>), Put("csi_rs_index_r_16", T("CsiRsIndex")),
       Put("number_of_preambles_sent_on_csi_rs_r_16", Num(1, 200, FALSE, "u8"))>>)]
FromPerRaAttemptInfoListR16 ==
  [PerRaAttemptInfoListR16 |-> Codec(
     <<Get("0", NonEmpty(1, 200, T("PerRaAttemptInfoR16")))>>,
     <<Put("0", NonEmpty(1, 200, T("PerRaAttemptInfoR16")))>>),
   PerRaAttemptInfoR16 |-> Codec(
     <<ReadHeader(TRUE, 2), GetIf(1, "contention_detected_r_16", T("BOOL")),
       GetIf(2, "dl_rsrp_above_threshold_r_16", T("BOOL"))>>,
     <<WriteHeader(TRUE, <<"contention_detected_r_16", "dl_rsrp_above_threshold_r_16">>),
       PutIf("contention_detected_r_16", T("BOOL")),
       PutIf("dl_rsrp_above_threshold_r_16", T("BOOL"))>>),
   RlfReportR16 |-> Codec(
     <<ReadChoice(0, 1, FALSE, <<Alt(0, "NrRlfReportR16", T("NrRlfReportR16")),
       Alt(1, "EutraRlfReportR16", T("EutraRlfReportR16"))>>)>>,
     <<WriteChoice(0, 1, FALSE, <<Arm("NrRlfReportR16", 0, T("NrRlfReportR16")),
       Arm("EutraRlfReportR16", 1, T("EutraRlfReportR16"))>>)>>)]
FromMeasResultList2NrR16 ==
  [MeasResultList2NrR16 |-> Codec(
     <<Get("0", NonEmpty(1, 8, T("MeasResult2NrR16")))>>,
     <<Put("0", NonEmpty(1, 8, T("MeasResult2NrR16")))>>),
   MeasResultList2eutraR16 |-> Codec(
     <<Get("0", NonEmpty(1, 8, T("MeasResult2eutraR16")))>>,
     <<Put("0", NonEmpty(1, 8, T("MeasResult2eutraR16")))>>),
   MeasResult2NrR16 |-> Codec(
     <<ReadHeader(FALSE, 2), GetIf(1, "ssb_frequency_r_16", T("ArfcnValueNr")),
       GetIf(2, "ref_freq_csi_rs_r_16", T("ArfcnValueNr")),
       Get("meas_result_list_r_16", T("MeasResultListNr"))>>,
     <<WriteHeader(FALSE, <<"ssb_frequency_r_16", "ref_freq_csi_rs_r_16">>),
       PutIf("ssb_frequency_r_16", T("ArfcnValueNr")),
       PutIf("ref_freq_csi_rs_r_16", T("ArfcnValueNr")),
       Put("meas_result_list_r_16", T("MeasResultListNr"))>>)]
FromMeasResultListLogging2NrR16 ==
  [MeasResultListLogging2NrR16 |-> Codec(
     <<Get("0", NonEmpty(1, 8, T("MeasResultLogging2NrR16")))>>,
     <<Put("0", NonEmpty(1, 8, T("MeasResultLogging2NrR16")))>>),
   MeasResultLogging2NrR16 |-> Codec(
     <<ReadHeader(FALSE, 0), Get("carrier_freq_r_16", T("ArfcnValueNr")),
       Get("meas_result_list_logging_nr_r_16", T("MeasResultListLoggingNrR16"))>>,
     <<WriteHeader(FALSE, <<>>), Put("carrier_freq_r_16", T("ArfcnValueNr")),
       Put("meas_result_list_logging_nr_r_16", T("MeasResultListLoggingNrR16"))>>),
   MeasResultListLoggingNrR16 |-> Codec(
     <<Get("0", NonEmpty(1, 8, T("MeasResultLoggingNrR16")))>>,
     <<Put("0", NonEmpty(1, 8, T("MeasResultLoggingNrR16")))>>),
   MeasResultLoggingNrR16 |-> Codec(
     <<ReadHeader(FALSE, 1), Get("phys_cell_id_r_16", T("PhysCellId")),
       Get("results_ssb_cell_r_16", T("MeasQuantityResults")),
       GetIf(1, "number_of_good_ssb_r_16", Num(1, 64, FALSE, "u8"))>>,
     <<WriteHeader(FALSE, <<"number_of_good_ssb_r_16">>), Put("phys_cell_id_r_16", T("PhysCellId")),
       Put("results_ssb_cell_r_16", T("MeasQuantityResults")),
       PutIf("number_of_good_ssb_r_16", Num(1, 64, FALSE, "u8"))>>)]
FromMeasResult2eutraR16 ==
  [MeasResult2eutraR16 |-> Codec(
     <<ReadHeader(FALSE, 0), Get("carrier_freq_r_16", T("ArfcnValueEutra")),
       Get("meas_result_list_r_16", T("MeasResultListEutra"))>>,
     <<WriteHeader(FALSE, <<>>), Put("carrier_freq_r_16", T("ArfcnValueEutra")),
       Put("meas_result_list_r_16", T("MeasResultListEutra"))>>),
   MeasResultRlfNrR16 |-> Codec(
     <<ReadHeader(FALSE, 0), Get("meas_result_r_16", T("MeasResultR16_1"))>>,
     <<WriteHeader(FALSE, <<>>), Put("meas_result_r_16", T("MeasResultR16_1"))>>),
   TimeSinceFailureR16 |-> Codec(
     <<Get("0", Num(0, 172800, FALSE, "u32"))>>,
     <<Put("0", Num(0, 172800, FALSE, "u32"))>>),
   MobilityHistoryReportR16 |-> Codec(
     <<Get("0", T("VisitedCellInfoListR16"))>>,
     <<Put("0", T("VisitedCellInfoListR16"))>>)]
FromTimeUntilReconnectionR16 ==
  [TimeUntilReconnectionR16 |-> Codec(
     <<Get("0", Num(0, 172800, FALSE, "u32"))>>,
     <<Put("0", Num(0, 172800, FALSE, "u32"))>>),
   UlDedicatedMessageSegmentR16 |-> Codec(
     <<ReadHeader(FALSE, 0), Get("critical_extensions", T("CriticalExtensions36"))>>,
     <<WriteHeader(FALSE, <<>>), Put("critical_extensions", T("CriticalExtensions36"))>>),
   UlDedicatedMessageSegmentR16IEs |-> Codec(
     <<ReadHeader(FALSE, 2), Get("segment_number_r_16", Num(0, 15, FALSE, "u8")),
       Get("rrc_message_segment_container_r_16", OctetString),
       Get("rrc_message_segment_type_r_16", T("RrcMessageSegmentTypeR16_1")),
       GetIf(1, "late_non_critical_extension", OctetString)>>,
     <<WriteHeader(FALSE, <<"late_non_critical_extension", "false">>),
       Put("segment_number_r_16", Num(0, 15, FALSE, "u8")),
       Put("rrc_message_segment_container_r_16", OctetString),
       Put("rrc_message_segment_type_r_16", T("RrcMessageSegmentTypeR16_1")),
       PutIf("late_non_critical_extension", OctetString)>>)]
FromUlInformationTransfer ==
  [UlInformationTransfer |-> Codec(
     <<ReadHeader(FALSE, 0), Get("critical_extensions", T("CriticalExtensions37"))>>,
     <<WriteHeader(FALSE, <<>>), Put("critical_extensions", T("CriticalExtensions37"))>>),
   UlInformationTransferIEs |-> Codec(
     <<ReadHeader(FALSE, 3), GetIf(1, "dedicated_nas_message", T("DedicatedNasMessage")),
       GetIf(2, "late_non_critical_extension", OctetString)>>,
     <<WriteHeader(FALSE, <<"dedicated_nas_message", "late_non_critical_extension", "false">>),
       PutIf("dedicated_nas_message", T("DedicatedNasMessage")),
       PutIf("late_non_critical_extension", OctetString)>>),
   UlInformationTransferIratR16 |-> Codec(
     <<ReadHeader(FALSE, 0), Get("critical_extensions", T("CriticalExtensions38"))>>,
     <<WriteHeader(FALSE, <<>>), Put("critical_extensions", T("CriticalExtensions38"))>>)]
FromUlInformationTransferIratR16IEs ==
  [UlInformationTransferIratR16IEs |-> Codec(
     <<ReadHeader(FALSE, 3), GetIf(1, "ul_dcch_message_eutra_r_16", OctetString),
       GetIf(2, "late_non_critical_extension", OctetString)>>,
     <<WriteHeader(FALSE, <<"ul_dcch_message_eutra_r_16", "late_non_critical_extension", "false">>),
       PutIf("ul_dcch_message_eutra_r_16", OctetString),
       PutIf("late_non_critical_extension", OctetString)>>),
   UlInformationTransferMrdc |-> Codec(
     <<ReadHeader(FALSE, 0), Get("critical_extensions", T("CriticalExtensions39"))>>,
     <<WriteHeader(FALSE, <<>>), Put("critical_extensions", T("CriticalExtensions39"))>>),
   UlInformationTransferMrdcIEs |-> Codec(
     <<ReadHeader(FALSE, 4), GetIf(1, "ul_dcch_message_nr", OctetString),
       GetIf(2, "ul_dcch_message_eutra", OctetString),
       GetIf(3, "late_non_critical_extension", OctetString)>>,
     <<WriteHeader(FALSE, <<"ul_dcch_message_nr", "ul_dcch_message_eutra",
       "late_non_critical_extension", "false">>), PutIf("ul_dcch_message_nr", OctetString),
       PutIf("ul_dcch_message_eutra", OctetString),
       PutIf("late_non_critical_extension", OctetString)>>)]
FromSib2 ==
  [Sib2 |-> Codec(
     <<ReadHeader(TRUE, 0), Get("cell_reselection_info_common", T("CellReselectionInfoCommon")),
       Get("cell_reselection_serving_freq_info", T("CellReselectionServingFreqInfo")),
       Get("intra_freq_cell_reselection_info", T("IntraFreqCellReselectionInfo"))>>,
     <<WriteHeader(TRUE, <<>>), Put("cell_reselection_info_common", T("CellReselectionInfoCommon")),
       Put("cell_reselection_serving_freq_info", T("CellReselectionServingFreqInfo")),
       Put("intra_freq_cell_reselection_info", T("IntraFreqCellReselectionInfo"))>>),
   RangeToBestCell |-> Codec(<<Get("0", T("QOffsetRange"))>>, <<Put("0", T("QOffsetRange"))>>)]
FromGnssIdR16 ==
  [GnssIdR16 |-> Codec(
     <<ReadHeader(TRUE, 0), Get("gnss_id_r_16", T("GnssIdR16_1"))>>,
     <<WriteHeader(TRUE, <<>>), Put("gnss_id_r_16", T("GnssIdR16_1"))>>),
   SbasIdR16 |-> Codec(
     <<ReadHeader(TRUE, 0), Get("sbas_id_r_16", T("SbasIdR16_1"))>>,
     <<WriteHeader(TRUE, <<>>), Put("sbas_id_r_16", T("SbasIdR16_1"))>>)]

Codecs == {FromScgFailureInformation, FromFailureReportScg, FromScgFailureInformationEutraIEs,
  FromMeasResultFreqListFailMrdc, FromSecurityConfigSmc, FromSecurityModeFailureIEs,
  FromSidelinkUeInformationNrR16, FromSlTxResourceReqListR16, FromSlTxInterestedFreqListR16,
  FromSlFailureListR16, FromUeAssistanceInformation, FromUeAssistanceInformationV1540IEs,
  FromReducedAggregatedBandwidth, FromIdcAssistanceR16, FromAffectedCarrierFreqCombListR16,
  FromVictimSystemTypeR16, FromMaxBwPreferenceR16, FromMinSchedulingOffsetPreferenceR16,
  FromReducedMaxCCsR16, FromUeCapabilityEnquiry, FromUeCapabilityInformation,
  FromUeInformationRequestR16IEs, FromUeInformationResponseR16IEs, FromLogMeasReportR16,
  FromLogMeasInfoR16, FromMeasResultServingCellR16, FromRaInformationCommonR16, FromPerRaInfoR16,
  FromPerRaAttemptInfoListR16, FromMeasResultList2NrR16, FromMeasResultListLogging2NrR16,
  FromMeasResult2eutraR16, FromTimeUntilReconnectionR16, FromUlInformationTransfer,
  FromUlInformationTransferIratR16IEs, FromSib2, FromGnssIdR16}
=============================================================================
