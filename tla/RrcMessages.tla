---------------------------- MODULE RrcMessages ----------------------------
(***************************************************************************)
(* The programs of the codecs of rrc/src/rrc.rs that a message of the CCCH *)
(* or the DCCH, in either direction, or SIB2 may hold: the channels and    *)
(* the messages from CounterCheck to RrcSystemInfoRequest.                 *)
(***************************************************************************)
EXTENDS PerLayout

FromDlCcchMessage ==
  [DlCcchMessage |-> Codec(
     <<ReadHeader(FALSE, 0), Get("message", T("DlCcchMessageType"))>>,
     <<WriteHeader(FALSE, <<>>), Put("message", T("DlCcchMessageType"))>>),
   DlCcchMessageType |-> Codec(
     <<ReadChoice(0, 1, FALSE, <<Alt(0, "C1", T("C1_1"))>>)>>,
     <<WriteChoice(0, 1, FALSE, <<Arm("C1", 0, T("C1_1"))>>)>>),
   DlDcchMessage |-> Codec(
     <<ReadHeader(FALSE, 0), Get("message", T("DlDcchMessageType"))>>,
     <<WriteHeader(FALSE, <<>>), Put("message", T("DlDcchMessageType"))>>),
   DlDcchMessageType |-> Codec(
     <<ReadChoice(0, 1, FALSE, <<Alt(0, "C1", T("C1_2"))>>)>>,
     <<WriteChoice(0, 1, FALSE, <<Arm("C1", 0, T("C1_2"))>>)>>)]
FromUlCcchMessage ==
  [UlCcchMessage |-> Codec(
     <<ReadHeader(FALSE, 0), Get("message", T("UlCcchMessageType"))>>,
     <<WriteHeader(FALSE, <<>>), Put("message", T("UlCcchMessageType"))>>),
   UlCcchMessageType |-> Codec(
     <<ReadChoice(0, 1, FALSE, <<Alt(0, "C1", T("C1_4"))>>)>>,
     <<WriteChoice(0, 1, FALSE, <<Arm("C1", 0, T("C1_4"))>>)>>)]
FromUlDcchMessage ==
  [UlDcchMessage |-> Codec(
     <<ReadHeader(FALSE, 0), Get("message", T("UlDcchMessageType"))>>,
     <<WriteHeader(FALSE, <<>>), Put("message", T("UlDcchMessageType"))>>),
   UlDcchMessageType |-> Codec(
     <<ReadChoice(0, 1, FALSE, <<Alt(0, "C1", T("C1_6")),
       Alt(1, "MessageClassExtension", T("MessageClassExtension"))>>)>>,
     <<WriteChoice(0, 1, FALSE, <<Arm("C1", 0, T("C1_6")),
       Arm("MessageClassExtension", 1, T("MessageClassExtension"))>>)>>),
   CounterCheck |-> Codec(
     <<ReadHeader(FALSE, 0), Get("rrc_transaction_identifier", T("RrcTransactionIdentifier")),
       Get("critical_extensions", T("CriticalExtensions"))>>,
     <<WriteHeader(FALSE, <<>>), Put("rrc_transaction_identifier", T("RrcTransactionIdentifier")),
       Put("critical_extensions", T("CriticalExtensions"))>>),
   CounterCheckIEs |-> Codec(
     <<ReadHeader(FALSE, 2), Get("drb_count_msb_info_list", T("DrbCountMsbInfoList")),
       GetIf(1, "late_non_critical_extension", OctetString)>>,
     <<WriteHeader(FALSE, <<"late_non_critical_extension", "false">>),
       Put("drb_count_msb_info_list", T("DrbCountMsbInfoList")),
       PutIf("late_non_critical_extension", OctetString)>>)]
FromDrbCountMsbInfoList ==
  [DrbCountMsbInfoList |-> Codec(
     <<Get("0", NonEmpty(1, 29, T("DrbCountMsbInfo")))>>,
     <<Put("0", NonEmpty(1, 29, T("DrbCountMsbInfo")))>>),
   DrbCountMsbInfo |-> Codec(
     <<ReadHeader(FALSE, 0), Get("drb_identity", T("DrbIdentity")),
       Get("count_msb_uplink", Num(0, 33554431, FALSE, "u32")),
       Get("count_msb_downlink", Num(0, 33554431, FALSE, "u32"))>>,
     <<WriteHeader(FALSE, <<>>), Put("drb_identity", T("DrbIdentity")),
       Put("count_msb_uplink", Num(0, 33554431, FALSE, "u32")),
       Put("count_msb_downlink", Num(0, 33554431, FALSE, "u32"))>>),
   CounterCheckResponse |-> Codec(
     <<ReadHeader(FALSE, 0), Get("rrc_transaction_identifier", T("RrcTransactionIdentifier")),
       Get("critical_extensions", T("CriticalExtensions1"))>>,
     <<WriteHeader(FALSE, <<>>), Put("rrc_transaction_identifier", T("RrcTransactionIdentifier")),
       Put("critical_extensions", T("CriticalExtensions1"))>>)]
FromCounterCheckResponseIEs ==
  [CounterCheckResponseIEs |-> Codec(
     <<ReadHeader(FALSE, 2), Get("drb_count_info_list", T("DrbCountInfoList")),
       GetIf(1, "late_non_critical_extension", OctetString)>>,
     <<WriteHeader(FALSE, <<"late_non_critical_extension", "false">>),
       Put("drb_count_info_list", T("DrbCountInfoList")),
       PutIf("late_non_critical_extension", OctetString)>>),
   DrbCountInfoList |-> Codec(
     <<Get("0", Vec(0, 29, T("DrbCountInfo")))>>,
     <<Put("0", Vec(0, 29, T("DrbCountInfo")))>>),
   DrbCountInfo |-> Codec(
     <<ReadHeader(FALSE, 0), Get("drb_identity", T("DrbIdentity")),
       Get("count_uplink", BigNum("0..4294967295", FALSE, "u32")),
       Get("count_downlink", BigNum("0..4294967295", FALSE, "u32"))>>,
     <<WriteHeader(FALSE, <<>>), Put("drb_identity", T("DrbIdentity")),
       Put("count_uplink", BigNum("0..4294967295", FALSE, "u32")),
       Put("count_downlink", BigNum("0..4294967295", FALSE, "u32"))>>)]
FromDedicatedSibRequestR16 ==
  [DedicatedSibRequestR16 |-> Codec(
     <<ReadHeader(FALSE, 0), Get("critical_extensions", T("CriticalExtensions2"))>>,
     <<WriteHeader(FALSE, <<>>), Put("critical_extensions", T("CriticalExtensions2"))>>),
   DedicatedSibRequestR16IEs |-> Codec(
     <<ReadHeader(FALSE, 3),
       GetIf(1, "on_demand_sib_request_list_r_16", T("OnDemandSibRequestListR16")),
       GetIf(2, "late_non_critical_extension", OctetString)>>,
     <<WriteHeader(FALSE, <<"on_demand_sib_request_list_r_16", "late_non_critical_extension",
       "false">>), PutIf("on_demand_sib_request_list_r_16", T("OnDemandSibRequestListR16")),
       PutIf("late_non_critical_extension", OctetString)>>),
   SibReqInfoR16 |-> Codec(<<ReadEnum(0, 7, FALSE, 8)>>, <<WriteEnum(0, 7, FALSE)>>)]
FromPosSibReqInfoR16 ==
  [PosSibReqInfoR16 |-> Codec(
     <<ReadHeader(FALSE, 2), GetIf(1, "gnss_id_r_16", T("GnssIdR16")),
       GetIf(2, "sbas_id_r_16", T("SbasIdR16")), Get("pos_sib_type_r_16", T("PosSibTypeR16_1"))>>,
     <<WriteHeader(FALSE, <<"gnss_id_r_16", "sbas_id_r_16">>),
       PutIf("gnss_id_r_16", T("GnssIdR16")), PutIf("sbas_id_r_16", T("SbasIdR16")),
       Put("pos_sib_type_r_16", T("PosSibTypeR16_1"))>>),
   DlDedicatedMessageSegmentR16 |-> Codec(
     <<ReadHeader(FALSE, 0), Get("critical_extensions", T("CriticalExtensions3"))>>,
     <<WriteHeader(FALSE, <<>>), Put("critical_extensions", T("CriticalExtensions3"))>>),
   DlDedicatedMessageSegmentR16IEs |-> Codec(
     <<ReadHeader(FALSE, 2), Get("segment_number_r_16", Num(0, 4, FALSE, "u8")),
       Get("rrc_message_segment_container_r_16", OctetString),
       Get("rrc_message_segment_type_r_16", T("RrcMessageSegmentTypeR16")),
       GetIf(1, "late_non_critical_extension", OctetString)>>,
     <<WriteHeader(FALSE, <<"late_non_critical_extension", "false">>),
       Put("segment_number_r_16", Num(0, 4, FALSE, "u8")),
       Put("rrc_message_segment_container_r_16", OctetString),
       Put("rrc_message_segment_type_r_16", T("RrcMessageSegmentTypeR16")),
       PutIf("late_non_critical_extension", OctetString)>>)]
FromDlInformationTransfer ==
  [DlInformationTransfer |-> Codec(
     <<ReadHeader(FALSE, 0), Get("rrc_transaction_identifier", T("RrcTransactionIdentifier")),
       Get("critical_extensions", T("CriticalExtensions4"))>>,
     <<WriteHeader(FALSE, <<>>), Put("rrc_transaction_identifier", T("RrcTransactionIdentifier")),
       Put("critical_extensions", T("CriticalExtensions4"))>>),
   DlInformationTransferIEs |-> Codec(
     <<ReadHeader(FALSE, 3), GetIf(1, "dedicated_nas_message", T("DedicatedNasMessage")),
       GetIf(2, "late_non_critical_extension", OctetString),
       GetIf(3, "non_critical_extension", T("DlInformationTransferV1610IEs"))>>,
     <<WriteHeader(FALSE, <<"dedicated_nas_message", "late_non_critical_extension",
       "non_critical_extension">>), PutIf("dedicated_nas_message", T("DedicatedNasMessage")),
       PutIf("late_non_critical_extension", OctetString),
       PutIf("non_critical_extension", T("DlInformationTransferV1610IEs"))>>),
   DlInformationTransferV1610IEs |-> Codec(
     <<ReadHeader(FALSE, 2), GetIf(1, "reference_time_info_r_16", T("ReferenceTimeInfoR16"))>>,
     <<WriteHeader(FALSE, <<"reference_time_info_r_16", "false">>),
       PutIf("reference_time_info_r_16", T("ReferenceTimeInfoR16"))>>)]
FromDlInformationTransferMrdcR16 ==
  [DlInformationTransferMrdcR16 |-> Codec(
     <<ReadHeader(FALSE, 0), Get("critical_extensions", T("CriticalExtensions5"))>>,
     <<WriteHeader(FALSE, <<>>), Put("critical_extensions", T("CriticalExtensions5"))>>),
   DlInformationTransferMrdcR16IEs |-> Codec(
     <<ReadHeader(FALSE, 4), GetIf(1, "dl_dcch_message_nr_r_16", OctetString),
       GetIf(2, "dl_dcch_message_eutra_r_16", OctetString),
       GetIf(3, "late_non_critical_extension", OctetString)>>,
     <<WriteHeader(FALSE, <<"dl_dcch_message_nr_r_16", "dl_dcch_message_eutra_r_16",
       "late_non_critical_extension", "false">>), PutIf("dl_dcch_message_nr_r_16", OctetString),
       PutIf("dl_dcch_message_eutra_r_16", OctetString),
       PutIf("late_non_critical_extension", OctetString)>>),
   FailureInformation |-> Codec(
     <<ReadHeader(FALSE, 0), Get("critical_extensions", T("CriticalExtensions6"))>>,
     <<WriteHeader(FALSE, <<>>), Put("critical_extensions", T("CriticalExtensions6"))>>)]
FromFailureInformationIEs ==
  [FailureInformationIEs |-> Codec(
     <<ReadHeader(FALSE, 3), GetIf(1, "failure_info_rlc_bearer", T("FailureInfoRlcBearer")),
       GetIf(2, "late_non_critical_extension", OctetString),
       GetIf(3, "non_critical_extension", T("FailureInformationV1610IEs"))>>,
     <<WriteHeader(FALSE, <<"failure_info_rlc_bearer", "late_non_critical_extension",
       "non_critical_extension">>), PutIf("failure_info_rlc_bearer", T("FailureInfoRlcBearer")),
       PutIf("late_non_critical_extension", OctetString),
       PutIf("non_critical_extension", T("FailureInformationV1610IEs"))>>),
   FailureInfoRlcBearer |-> Codec(
     <<ReadHeader(FALSE, 0), Get("cell_group_id", T("CellGroupId")),
       Get("logical_channel_identity", T("LogicalChannelIdentity")),
       Get("failure_type", T("FailureType"))>>,
     <<WriteHeader(FALSE, <<>>), Put("cell_group_id", T("CellGroupId")),
       Put("logical_channel_identity", T("LogicalChannelIdentity")),
       Put("failure_type", T("FailureType"))>>),
   FailureInformationV1610IEs |-> Codec(
     <<ReadHeader(FALSE, 2), GetIf(1, "failure_info_daps_r_16", T("FailureInfoDapsR16"))>>,
     <<WriteHeader(FALSE, <<"failure_info_daps_r_16", "false">>),
       PutIf("failure_info_daps_r_16", T("FailureInfoDapsR16"))>>)]
FromFailureInfoDapsR16 ==
  [FailureInfoDapsR16 |-> Codec(
     <<ReadHeader(FALSE, 0), Get("failure_type_r_16", T("FailureTypeR16"))>>,
     <<WriteHeader(FALSE, <<>>), Put("failure_type_r_16", T("FailureTypeR16"))>>),
   IabOtherInformationR16 |-> Codec(
     <<ReadHeader(FALSE, 0), Get("rrc_transaction_identifier", T("RrcTransactionIdentifier")),
       Get("critical_extensions", T("CriticalExtensions7"))>>,
     <<WriteHeader(FALSE, <<>>), Put("rrc_transaction_identifier", T("RrcTransactionIdentifier")),
       Put("critical_extensions", T("CriticalExtensions7"))>>),
   IabOtherInformationR16IEs |-> Codec(
     <<ReadHeader(FALSE, 2), Get("ip_info_type_r_16", T("IpInfoTypeR16")),
       GetIf(1, "late_non_critical_extension", OctetString)>>,
     <<WriteHeader(FALSE, <<"late_non_critical_extension", "false">>),
       Put("ip_info_type_r_16", T("IpInfoTypeR16")),
       PutIf("late_non_critical_extension", OctetString)>>)]
FromIabIpAddressNumReqR16 ==
  [IabIpAddressNumReqR16 |-> Codec(
     <<ReadHeader(TRUE, 4), GetIf(1, "all_traffic_num_req_r_16", Num(1, 8, FALSE, "u8")),
       GetIf(2, "f1_c_traffic_num_req_r_16", Num(1, 8, FALSE, "u8")),
       GetIf(3, "f1_u_traffic_num_req_r_16", Num(1, 8, FALSE, "u8")),
       GetIf(4, "non_f1_traffic_num_req_r_16", Num(1, 8, FALSE, "u8"))>>,
     <<WriteHeader(TRUE, <<"all_traffic_num_req_r_16", "f1_c_traffic_num_req_r_16",
       "f1_u_traffic_num_req_r_16", "non_f1_traffic_num_req_r_16">>),
       PutIf("all_traffic_num_req_r_16", Num(1, 8, FALSE, "u8")),
       PutIf("f1_c_traffic_num_req_r_16", Num(1, 8, FALSE, "u8")),
       PutIf("f1_u_traffic_num_req_r_16", Num(1, 8, FALSE, "u8")),
       PutIf("non_f1_traffic_num_req_r_16", Num(1, 8, FALSE, "u8"))>>),
   IabIpAddressPrefixReqR16 |-> Codec(
     <<ReadHeader(TRUE, 4), GetIf(1, "all_traffic_prefix_req_r_16", T("AllTrafficPrefixReqR16")),
       GetIf(2, "f1_c_traffic_prefix_req_r_16", T("F1CTrafficPrefixReqR16")),
       GetIf(3, "f1_u_traffic_prefix_req_r_16", T("F1UTrafficPrefixReqR16")),
       GetIf(4, "non_f1_traffic_prefix_req_r_16", T("NonF1TrafficPrefixReqR16"))>>,
     <<WriteHeader(TRUE, <<"all_traffic_prefix_req_r_16", "f1_c_traffic_prefix_req_r_16",
       "f1_u_traffic_prefix_req_r_16", "non_f1_traffic_prefix_req_r_16">>),
       PutIf("all_traffic_prefix_req_r_16", T("AllTrafficPrefixReqR16")),
       PutIf("f1_c_traffic_prefix_req_r_16", T("F1CTrafficPrefixReqR16")),
       PutIf("f1_u_traffic_prefix_req_r_16", T("F1UTrafficPrefixReqR16")),
       PutIf("non_f1_traffic_prefix_req_r_16", T("NonF1TrafficPrefixReqR16"))>>)]
FromIabIpAddressAndTrafficR16 ==
  [IabIpAddressAndTrafficR16 |-> Codec(
     <<ReadHeader(FALSE, 4),
       GetIf(1, "all_traffic_iab_ip_address_r_16", NonEmpty(1, 8, T("IabIpAddressR16"))),
       GetIf(2, "f1_c_traffic_ip_address_r_16", NonEmpty(1, 8, T("IabIpAddressR16"))),
       GetIf(3, "f1_u_traffic_ip_address_r_16", NonEmpty(1, 8, T("IabIpAddressR16"))),
       GetIf(4, "non_f1_traffic_ip_address_r_16", NonEmpty(1, 8, T("IabIpAddressR16")))>>,
     <<WriteHeader(FALSE, <<"all_traffic_iab_ip_address_r_16", "f1_c_traffic_ip_address_r_16",
       "f1_u_traffic_ip_address_r_16", "non_f1_traffic_ip_address_r_16">>),
       PutIf("all_traffic_iab_ip_address_r_16", NonEmpty(1, 8, T("IabIpAddressR16"))),
       PutIf("f1_c_traffic_ip_address_r_16", NonEmpty(1, 8, T("IabIpAddressR16"))),
       PutIf("f1_u_traffic_ip_address_r_16", NonEmpty(1, 8, T("IabIpAddressR16"))),
       PutIf("non_f1_traffic_ip_address_r_16", NonEmpty(1, 8, T("IabIpAddressR16")))>>),
   IabIpPrefixAndTrafficR16 |-> Codec(
     <<ReadHeader(FALSE, 4), GetIf(1, "all_traffic_iab_ip_address_r_16", T("IabIpAddressR16")),
       GetIf(2, "f1_c_traffic_ip_address_r_16", T("IabIpAddressR16")),
       GetIf(3, "f1_u_traffic_ip_address_r_16", T("IabIpAddressR16")),
       GetIf(4, "non_f1_traffic_ip_address_r_16", T("IabIpAddressR16"))>>,
     <<WriteHeader(FALSE, <<"all_traffic_iab_ip_address_r_16", "f1_c_traffic_ip_address_r_16",
       "f1_u_traffic_ip_address_r_16", "non_f1_traffic_ip_address_r_16">>),
       PutIf("all_traffic_iab_ip_address_r_16", T("IabIpAddressR16")),
       PutIf("f1_c_traffic_ip_address_r_16", T("IabIpAddressR16")),
       PutIf("f1_u_traffic_ip_address_r_16", T("IabIpAddressR16")),
       PutIf("non_f1_traffic_ip_address_r_16", T("IabIpAddressR16"))>>)]
FromLocationMeasurementIndication ==
  [LocationMeasurementIndication |-> Codec(
     <<ReadHeader(FALSE, 0), Get("critical_extensions", T("CriticalExtensions8"))>>,
     <<WriteHeader(FALSE, <<>>), Put("critical_extensions", T("CriticalExtensions8"))>>),
   LocationMeasurementIndicationIEs |-> Codec(
     <<ReadHeader(FALSE, 2), Get("measurement_indication", SetupRelease("LocationMeasurementInfo")),
       GetIf(1, "late_non_critical_extension", OctetString)>>,
     <<WriteHeader(FALSE, <<"late_non_critical_extension", "false">>),
       Put("measurement_indication", SetupRelease("LocationMeasurementInfo")),
       PutIf("late_non_critical_extension", OctetString)>>),
   LoggedMeasurementConfigurationR16 |-> Codec(
     <<ReadHeader(FALSE, 0), Get("critical_extensions", T("CriticalExtensions9"))>>,
     <<WriteHeader(FALSE, <<>>), Put("critical_extensions", T("CriticalExtensions9"))>>)]
FromLoggedMeasurementConfigurationR16IEs ==
  [LoggedMeasurementConfigurationR16IEs |-> Codec(
     <<ReadHeader(FALSE, 7), Get("trace_reference_r_16", T("TraceReferenceR16")),
       Get("trace_recording_session_ref_r_16", OctetArray(2, 2, FALSE, 2)),
       Get("tce_id_r_16", OctetArray(1, 1, FALSE, 1)),
       Get("absolute_time_info_r_16", T("AbsoluteTimeInfoR16")),
       GetIf(1, "area_configuration_r_16", T("AreaConfigurationR16")),
       GetIf(2, "plmn_identity_list_r_16", T("PlmnIdentityList2R16")),
       GetIf(3, "bt_name_list_r_16", SetupRelease("BtNameListR16")),
       GetIf(4, "wlan_name_list_r_16", SetupRelease("WlanNameListR16")),
       GetIf(5, "sensor_name_list_r_16", SetupRelease("SensorNameListR16")),
       Get("logging_duration_r_16", T("LoggingDurationR16")), Get("report_type", T("ReportType")),
       GetIf(6, "late_non_critical_extension", OctetString)>>,
     <<WriteHeader(FALSE, <<"area_configuration_r_16", "plmn_identity_list_r_16",
       "bt_name_list_r_16", "wlan_name_list_r_16", "sensor_name_list_r_16",
       "late_non_critical_extension", "false">>),
       Put("trace_reference_r_16", T("TraceReferenceR16")),
       Put("trace_recording_session_ref_r_16", OctetArray(2, 2, FALSE, 2)),
       Put("tce_id_r_16", OctetArray(1, 1, FALSE, 1)),
       Put("absolute_time_info_r_16", T("AbsoluteTimeInfoR16")),
       PutIf("area_configuration_r_16", T("AreaConfigurationR16")),
       PutIf("plmn_identity_list_r_16", T("PlmnIdentityList2R16")),
       PutIf("bt_name_list_r_16", SetupRelease("BtNameListR16")),
       PutIf("wlan_name_list_r_16", SetupRelease("WlanNameListR16")),
       PutIf("sensor_name_list_r_16", SetupRelease("SensorNameListR16")),
       Put("logging_duration_r_16", T("LoggingDurationR16")), Put("report_type", T("ReportType")),
       PutIf("late_non_critical_extension", OctetString)>>)]
FromLoggedPeriodicalReportConfigR16 ==
  [LoggedPeriodicalReportConfigR16 |-> Codec(
     <<ReadHeader(TRUE, 0), Get("logging_interval_r_16", T("LoggingIntervalR16"))>>,
     <<WriteHeader(TRUE, <<>>), Put("logging_interval_r_16", T("LoggingIntervalR16"))>>),
   LoggedEventTriggerConfigR16 |-> Codec(
     <<ReadHeader(TRUE, 0), Get("event_type_r_16", T("EventTypeR16")),
       Get("logging_interval_r_16", T("LoggingIntervalR16"))>>,
     <<WriteHeader(TRUE, <<>>), Put("event_type_r_16", T("EventTypeR16")),
       Put("logging_interval_r_16", T("LoggingIntervalR16"))>>),
   EventTypeR16 |-> Codec(
     <<ReadChoice(0, 1, TRUE, <<Alt(0, "OutOfCoverage", Null), Alt(1, "EventL1", T("EventL1"))>>)>>,
     <<WriteChoice(0, 1, TRUE, <<Arm("OutOfCoverage", 0, Null), Arm("EventL1", 1, T("EventL1"))>>)>>),
   McgFailureInformationR16 |-> Codec(
     <<ReadHeader(FALSE, 0), Get("critical_extensions", T("CriticalExtensions10"))>>,
     <<WriteHeader(FALSE, <<>>), Put("critical_extensions", T("CriticalExtensions10"))>>)]
FromMcgFailureInformationR16IEs ==
  [McgFailureInformationR16IEs |-> Codec(
     <<ReadHeader(FALSE, 3), GetIf(1, "failure_report_mcg_r_16", T("FailureReportMcgR16")),
       GetIf(2, "late_non_critical_extension", OctetString)>>,
     <<WriteHeader(FALSE, <<"failure_report_mcg_r_16", "late_non_critical_extension", "false">>),
       PutIf("failure_report_mcg_r_16", T("FailureReportMcgR16")),
       PutIf("late_non_critical_extension", OctetString)>>),
   FailureReportMcgR16 |-> Codec(
     <<ReadHeader(TRUE, 6), GetIf(1, "failure_type_r_16", T("FailureTypeR16_1")),
       GetIf(2, "meas_result_freq_list_r_16", T("MeasResultList2Nr")),
       GetIf(3, "meas_result_freq_list_eutra_r_16", T("MeasResultList2eutra")),
       GetIf(4, "meas_result_scg_r_16", OctetString),
       GetIf(5, "meas_result_scg_eutra_r_16", OctetString),
       GetIf(6, "meas_result_freq_list_utra_fdd_r_16", T("MeasResultList2utra"))>>,
     <<WriteHeader(TRUE, <<"failure_type_r_16", "meas_result_freq_list_r_16",
       "meas_result_freq_list_eutra_r_16", "meas_result_scg_r_16", "meas_result_scg_eutra_r_16",
       "meas_result_freq_list_utra_fdd_r_16">>), PutIf("failure_type_r_16", T("FailureTypeR16_1")),
       PutIf("meas_result_freq_list_r_16", T("MeasResultList2Nr")),
       PutIf("meas_result_freq_list_eutra_r_16", T("MeasResultList2eutra")),
       PutIf("meas_result_scg_r_16", OctetString), PutIf("meas_result_scg_eutra_r_16", OctetString),
       PutIf("meas_result_freq_list_utra_fdd_r_16", T("MeasResultList2utra"))>>)]
FromMeasResultList2utra ==
  [MeasResultList2utra |-> Codec(
     <<Get("0", NonEmpty(1, 8, T("MeasResult2utraFddR16")))>>,
     <<Put("0", NonEmpty(1, 8, T("MeasResult2utraFddR16")))>>),
   MeasResult2utraFddR16 |-> Codec(
     <<ReadHeader(FALSE, 0), Get("carrier_freq_r_16", T("ArfcnValueUtraFddR16")),
       Get("meas_result_neigh_cell_list_r_16", T("MeasResultListUtraFddR16"))>>,
     <<WriteHeader(FALSE, <<>>), Put("carrier_freq_r_16", T("ArfcnValueUtraFddR16")),
       Put("meas_result_neigh_cell_list_r_16", T("MeasResultListUtraFddR16"))>>),
   MeasResultList2eutra |-> Codec(
     <<Get("0", NonEmpty(1, 8, T("MeasResult2eutraR16")))>>,
     <<Put("0", NonEmpty(1, 8, T("MeasResult2eutraR16")))>>),
   MeasurementReport |-> Codec(
     <<ReadHeader(FALSE, 0), Get("critical_extensions", T("CriticalExtensions11"))>>,
     <<WriteHeader(FALSE, <<>>), Put("critical_extensions", T("CriticalExtensions11"))>>)]
FromMeasurementReportIEs ==
  [MeasurementReportIEs |-> Codec(
     <<ReadHeader(FALSE, 2), Get("meas_results", T("MeasResults")),
       GetIf(1, "late_non_critical_extension", OctetString)>>,
     <<WriteHeader(FALSE, <<"late_non_critical_extension", "false">>),
       Put("meas_results", T("MeasResults")), PutIf("late_non_critical_extension", OctetString)>>)]
FromMobilityFromNrCommand ==
  [MobilityFromNrCommand |-> Codec(
     <<ReadHeader(FALSE, 0), Get("rrc_transaction_identifier", T("RrcTransactionIdentifier")),
       Get("critical_extensions", T("CriticalExtensions12"))>>,
     <<WriteHeader(FALSE, <<>>), Put("rrc_transaction_identifier", T("RrcTransactionIdentifier")),
       Put("critical_extensions", T("CriticalExtensions12"))>>),
   MobilityFromNrCommandIEs |-> Codec(
     <<ReadHeader(FALSE, 3), Get("target_rat_type", T("TargetRatType")),
       Get("target_rat_message_container", OctetString),
       GetIf(1, "nas_security_param_from_nr", OctetString),
       GetIf(2, "late_non_critical_extension", OctetString),
       GetIf(3, "non_critical_extension", T("MobilityFromNrCommandV1610IEs"))>>,
     <<WriteHeader(FALSE, <<"nas_security_param_from_nr", "late_non_critical_extension",
       "non_critical_extension">>), Put("target_rat_type", T("TargetRatType")),
       Put("target_rat_message_container", OctetString),
       PutIf("nas_security_param_from_nr", OctetString),
       PutIf("late_non_critical_extension", OctetString),
       PutIf("non_critical_extension", T("MobilityFromNrCommandV1610IEs"))>>),
   MobilityFromNrCommandV1610IEs |-> Codec(
     <<ReadHeader(FALSE, 2),
       GetIf(1, "voice_fallback_indication_r_16", T("VoiceFallbackIndicationR16"))>>,
     <<WriteHeader(FALSE, <<"voice_fallback_indication_r_16", "false">>),
       PutIf("voice_fallback_indication_r_16", T("VoiceFallbackIndicationR16"))>>)]
FromRrcReestablishment ==
  [RrcReestablishment |-> Codec(
     <<ReadHeader(FALSE, 0), Get("rrc_transaction_identifier", T("RrcTransactionIdentifier")),
       Get("critical_extensions", T("CriticalExtensions13"))>>,
     <<WriteHeader(FALSE, <<>>), Put("rrc_transaction_identifier", T("RrcTransactionIdentifier")),
       Put("critical_extensions", T("CriticalExtensions13"))>>),
   RrcReestablishmentIEs |-> Codec(
     <<ReadHeader(FALSE, 2), Get("next_hop_chaining_count", T("NextHopChainingCount")),
       GetIf(1, "late_non_critical_extension", OctetString)>>,
     <<WriteHeader(FALSE, <<"late_non_critical_extension", "false">>),
       Put("next_hop_chaining_count", T("NextHopChainingCount")),
       PutIf("late_non_critical_extension", OctetString)>>),
   RrcReestablishmentComplete |-> Codec(
     <<ReadHeader(FALSE, 0), Get("rrc_transaction_identifier", T("RrcTransactionIdentifier")),
       Get("critical_extensions", T("CriticalExtensions14"))>>,
     <<WriteHeader(FALSE, <<>>), Put("rrc_transaction_identifier", T("RrcTransactionIdentifier")),
       Put("critical_extensions", T("CriticalExtensions14"))>>)]
FromRrcReestablishmentCompleteIEs ==
  [RrcReestablishmentCompleteIEs |-> Codec(
     <<ReadHeader(FALSE, 2), GetIf(1, "late_non_critical_extension", OctetString),
       GetIf(2, "non_critical_extension", T("RrcReestablishmentCompleteV1610IEs"))>>,
     <<WriteHeader(FALSE, <<"late_non_critical_extension", "non_critical_extension">>),
       PutIf("late_non_critical_extension", OctetString),
       PutIf("non_critical_extension", T("RrcReestablishmentCompleteV1610IEs"))>>),
   RrcReestablishmentCompleteV1610IEs |-> Codec(
     <<ReadHeader(FALSE, 2),
       GetIf(1, "ue_measurements_available_r_16", T("UeMeasurementsAvailableR16"))>>,
     <<WriteHeader(FALSE, <<"ue_measurements_available_r_16", "false">>),
       PutIf("ue_measurements_available_r_16", T("UeMeasurementsAvailableR16"))>>),
   RrcReestablishmentRequest |-> Codec(
     <<ReadHeader(FALSE, 0), Get("rrc_reestablishment_request", T("RrcReestablishmentRequestIEs"))>>,
     <<WriteHeader(FALSE, <<>>),
       Put("rrc_reestablishment_request", T("RrcReestablishmentRequestIEs"))>>)]
FromRrcReestablishmentRequestIEs ==
  [RrcReestablishmentRequestIEs |-> Codec(
     <<ReadHeader(FALSE, 0), Get("ue_identity", T("ReestabUeIdentity")),
       Get("reestablishment_cause", T("ReestablishmentCause")), Get("spare", Bits(1, 1, FALSE))>>,
     <<WriteHeader(FALSE, <<>>), Put("ue_identity", T("ReestabUeIdentity")),
       Put("reestablishment_cause", T("ReestablishmentCause")), Put("spare", Bits(1, 1, FALSE))>>),
   ReestabUeIdentity |-> Codec(
     <<ReadHeader(FALSE, 0), Get("c_rnti", T("RntiValue")), Get("phys_cell_id", T("PhysCellId")),
       Get("short_mac_i", T("ShortMacI"))>>,
     <<WriteHeader(FALSE, <<>>), Put("c_rnti", T("RntiValue")),
       Put("phys_cell_id", T("PhysCellId")), Put("short_mac_i", T("ShortMacI"))>>),
   ReestablishmentCause |-> Codec(<<ReadEnum(0, 3, FALSE, 4)>>, <<WriteEnum(0, 3, FALSE)>>),
   RrcReconfiguration |-> Codec(
     <<ReadHeader(FALSE, 0), Get("rrc_transaction_identifier", T("RrcTransactionIdentifier")),
       Get("critical_extensions", T("CriticalExtensions15"))>>,
     <<WriteHeader(FALSE, <<>>), Put("rrc_transaction_identifier", T("RrcTransactionIdentifier")),
       Put("critical_extensions", T("CriticalExtensions15"))>>)]
FromRrcReconfigurationIEs ==
  [RrcReconfigurationIEs |-> Codec(
     <<ReadHeader(FALSE, 5), GetIf(1, "radio_bearer_config", T("RadioBearerConfig")),
       GetIf(2, "secondary_cell_group", OctetString), GetIf(3, "meas_config", T("MeasConfig")),
       GetIf(4, "late_non_critical_extension", OctetString),
       GetIf(5, "non_critical_extension", T("RrcReconfigurationV1530IEs"))>>,
     <<WriteHeader(FALSE, <<"radio_bearer_config", "secondary_cell_group", "meas_config",
       "late_non_critical_extension", "non_critical_extension">>),
       PutIf("radio_bearer_config", T("RadioBearerConfig")),
       PutIf("secondary_cell_group", OctetString), PutIf("meas_config", T("MeasConfig")),
       PutIf("late_non_critical_extension", OctetString),
       PutIf("non_critical_extension", T("RrcReconfigurationV1530IEs"))>>)]
FromRrcReconfigurationV1530IEs ==
  [RrcReconfigurationV1530IEs |-> Codec(
     <<ReadHeader(FALSE, 8), GetIf(1, "master_cell_group", OctetString),
       GetIf(2, "full_config", T("FullConfig")),
       GetIf(3, "dedicated_nas_message_list", NonEmpty(1, 29, T("DedicatedNasMessage"))),
       GetIf(4, "master_key_update", T("MasterKeyUpdate")),
       GetIf(5, "dedicated_sib_1_delivery", OctetString),
       GetIf(6, "dedicated_system_information_delivery", OctetString),
       GetIf(7, "other_config", T("OtherConfig")),
       GetIf(8, "non_critical_extension", T("RrcReconfigurationV1540IEs"))>>,
     <<WriteHeader(FALSE, <<"master_cell_group", "full_config", "dedicated_nas_message_list",
       "master_key_update", "dedicated_sib_1_delivery", "dedicated_system_information_delivery",
       "other_config", "non_critical_extension">>), PutIf("master_cell_group", OctetString),
       PutIf("full_config", T("FullConfig")),
       PutIf("dedicated_nas_message_list", NonEmpty(1, 29, T("DedicatedNasMessage"))),
       PutIf("master_key_update", T("MasterKeyUpdate")),
       PutIf("dedicated_sib_1_delivery", OctetString),
       PutIf("dedicated_system_information_delivery", OctetString),
       PutIf("other_config", T("OtherConfig")),
       PutIf("non_critical_extension", T("RrcReconfigurationV1540IEs"))>>)]
FromRrcReconfigurationV1540IEs ==
  [RrcReconfigurationV1540IEs |-> Codec(
     <<ReadHeader(FALSE, 2), GetIf(1, "other_config_v_1540", T("OtherConfigV1540")),
       GetIf(2, "non_critical_extension", T("RrcReconfigurationV1560IEs"))>>,
     <<WriteHeader(FALSE, <<"other_config_v_1540", "non_critical_extension">>),
       PutIf("other_config_v_1540", T("OtherConfigV1540")),
       PutIf("non_critical_extension", T("RrcReconfigurationV1560IEs"))>>),
   RrcReconfigurationV1560IEs |-> Codec(
     <<ReadHeader(FALSE, 4),
       GetIf(1, "mrdc_secondary_cell_group_config", SetupRelease("MrdcSecondaryCellGroupConfig")),
       GetIf(2, "radio_bearer_config_2", OctetString), GetIf(3, "sk_counter", T("SkCounter")),
       GetIf(4, "non_critical_extension", T("RrcReconfigurationV1610IEs"))>>,
     <<WriteHeader(FALSE, <<"mrdc_secondary_cell_group_config", "radio_bearer_config_2",
       "sk_counter", "non_critical_extension">>),
       PutIf("mrdc_secondary_cell_group_config", SetupRelease("MrdcSecondaryCellGroupConfig")),
       PutIf("radio_bearer_config_2", OctetString), PutIf("sk_counter", T("SkCounter")),
       PutIf("non_critical_extension", T("RrcReconfigurationV1610IEs"))>>)]
FromRrcReconfigurationV1610IEs ==
  [RrcReconfigurationV1610IEs |-> Codec(
     <<ReadHeader(FALSE, 13), GetIf(1, "other_config_v_1610", T("OtherConfigV1610")),
       GetIf(2, "bap_config_r_16", SetupRelease("BapConfigR16")),
       GetIf(3, "iab_ip_address_configuration_list_r_16", T("IabIpAddressConfigurationListR16")),
       GetIf(4, "conditional_reconfiguration_r_16", T("ConditionalReconfigurationR16")),
       GetIf(5, "daps_source_release_r_16", T("DapsSourceReleaseR16")),
       GetIf(6, "t316_r_16", SetupRelease("T316R16")),
       GetIf(7, "need_for_gaps_config_nr_r_16", SetupRelease("NeedForGapsConfigNrR16")),
       GetIf(8, "on_demand_sib_request_r_16", SetupRelease("OnDemandSibRequestR16")),
       GetIf(9, "dedicated_pos_sys_info_delivery_r_16", OctetString),
       GetIf(10, "sl_config_dedicated_nr_r_16", SetupRelease("SlConfigDedicatedNrR16")),
       GetIf(11, "sl_config_dedicated_eutra_info_r_16", SetupRelease("SlConfigDedicatedEutraInfoR16")),
       GetIf(12, "target_cell_smtc_scg_r_16", T("SsbMtc"))>>,
     <<WriteHeader(FALSE, <<"other_config_v_1610", "bap_config_r_16",
       "iab_ip_address_configuration_list_r_16", "conditional_reconfiguration_r_16",
       "daps_source_release_r_16", "t316_r_16", "need_for_gaps_config_nr_r_16",
       "on_demand_sib_request_r_16", "dedicated_pos_sys_info_delivery_r_16",
       "sl_config_dedicated_nr_r_16", "sl_config_dedicated_eutra_info_r_16",
       "target_cell_smtc_scg_r_16", "false">>), PutIf("other_config_v_1610", T("OtherConfigV1610")),
       PutIf("bap_config_r_16", SetupRelease("BapConfigR16")),
       PutIf("iab_ip_address_configuration_list_r_16", T("IabIpAddressConfigurationListR16")),
       PutIf("conditional_reconfiguration_r_16", T("ConditionalReconfigurationR16")),
       PutIf("daps_source_release_r_16", T("DapsSourceReleaseR16")),
       PutIf("t316_r_16", SetupRelease("T316R16")),
       PutIf("need_for_gaps_config_nr_r_16", SetupRelease("NeedForGapsConfigNrR16")),
       PutIf("on_demand_sib_request_r_16", SetupRelease("OnDemandSibRequestR16")),
       PutIf("dedicated_pos_sys_info_delivery_r_16", OctetString),
       PutIf("sl_config_dedicated_nr_r_16", SetupRelease("SlConfigDedicatedNrR16")),
       PutIf("sl_config_dedicated_eutra_info_r_16", SetupRelease("SlConfigDedicatedEutraInfoR16")),
       PutIf("target_cell_smtc_scg_r_16", T("SsbMtc"))>>)]
FromMrdcSecondaryCellGroupConfig ==
  [MrdcSecondaryCellGroupConfig |-> Codec(
     <<ReadHeader(FALSE, 1), GetIf(1, "mrdc_release_and_add", T("MrdcReleaseAndAdd")),
       Get("mrdc_secondary_cell_group", T("MrdcSecondaryCellGroup"))>>,
     <<WriteHeader(FALSE, <<"mrdc_release_and_add">>),
       PutIf("mrdc_release_and_add", T("MrdcReleaseAndAdd")),
       Put("mrdc_secondary_cell_group", T("MrdcSecondaryCellGroup"))>>),
   BapConfigR16 |-> Codec(
     <<ReadHeader(TRUE, 4), GetIf(1, "bap_address_r_16", Bits(10, 10, FALSE)),
       GetIf(2, "default_ul_bap_routing_id_r_16", T("BapRoutingIdR16")),
       GetIf(3, "default_ul_bh_rlc_channel_r_16", T("BhRlcChannelIdR16")),
       GetIf(4, "flow_control_feedback_type_r_16", T("FlowControlFeedbackTypeR16"))>>,
     <<WriteHeader(TRUE, <<"bap_address_r_16", "default_ul_bap_routing_id_r_16",
       "default_ul_bh_rlc_channel_r_16", "flow_control_feedback_type_r_16">>),
       PutIf("bap_address_r_16", Bits(10, 10, FALSE)),
       PutIf("default_ul_bap_routing_id_r_16", T("BapRoutingIdR16")),
       PutIf("default_ul_bh_rlc_channel_r_16", T("BhRlcChannelIdR16")),
       PutIf("flow_control_feedback_type_r_16", T("FlowControlFeedbackTypeR16"))>>),
   MasterKeyUpdate |-> Codec(
     <<ReadHeader(TRUE, 1), Get("key_set_change_indicator", T("BOOL")),
       Get("next_hop_chaining_count", T("NextHopChainingCount")),
       GetIf(1, "nas_container", OctetString)>>,
     <<WriteHeader(TRUE, <<"nas_container">>), Put("key_set_change_indicator", T("BOOL")),
       Put("next_hop_chaining_count", T("NextHopChainingCount")),
       PutIf("nas_container", OctetString)>>)]
FromOnDemandSibRequestR16 ==
  [OnDemandSibRequestR16 |-> Codec(
     <<ReadHeader(FALSE, 0),
       Get("on_demand_sib_request_prohibit_timer_r_16", T("OnDemandSibRequestProhibitTimerR16"))>>,
     <<WriteHeader(FALSE, <<>>),
       Put("on_demand_sib_request_prohibit_timer_r_16", T("OnDemandSibRequestProhibitTimerR16"))>>),
   T316R16 |-> Codec(<<ReadEnum(0, 9, FALSE, 10)>>, <<WriteEnum(0, 9, FALSE)>>),
   IabIpAddressConfigurationListR16 |-> Codec(
     <<ReadHeader(TRUE, 2),
       GetIf(1, "iab_ip_address_to_add_mod_list_r_16", NonEmpty(1, 32, T("IabIpAddressConfigurationR16"))),
       GetIf(2, "iab_ip_address_to_release_list_r_16", NonEmpty(1, 32, T("IabIpAddressIndexR16")))>>,
     <<WriteHeader(TRUE, <<"iab_ip_address_to_add_mod_list_r_16",
       "iab_ip_address_to_release_list_r_16">>),
       PutIf("iab_ip_address_to_add_mod_list_r_16", NonEmpty(1, 32, T("IabIpAddressConfigurationR16"))),
       PutIf("iab_ip_address_to_release_list_r_16", NonEmpty(1, 32, T("IabIpAddressIndexR16")))>>)]
FromIabIpAddressConfigurationR16 ==
  [IabIpAddressConfigurationR16 |-> Codec(
     <<ReadHeader(TRUE, 3), Get("iab_ip_address_index_r_16", T("IabIpAddressIndexR16")),
       GetIf(1, "iab_ip_address_r_16", T("IabIpAddressR16")),
       GetIf(2, "iab_ip_usage_r_16", T("IabIpUsageR16")),
       GetIf(3, "iab_donor_du_bap_address_r_16", Bits(10, 10, FALSE))>>,
     <<WriteHeader(TRUE, <<"iab_ip_address_r_16", "iab_ip_usage_r_16",
       "iab_donor_du_bap_address_r_16">>),
       Put("iab_ip_address_index_r_16", T("IabIpAddressIndexR16")),
       PutIf("iab_ip_address_r_16", T("IabIpAddressR16")),
       PutIf("iab_ip_usage_r_16", T("IabIpUsageR16")),
       PutIf("iab_donor_du_bap_address_r_16", Bits(10, 10, FALSE))>>),
   SlConfigDedicatedEutraInfoR16 |-> Codec(
     <<ReadHeader(FALSE, 2), GetIf(1, "sl_config_dedicated_eutra_r_16", OctetString),
       GetIf(2, "sl_time_offset_eutra_list_r_16", NonEmpty(8, 8, T("SlTimeOffsetEutraR16")))>>,
     <<WriteHeader(FALSE, <<"sl_config_dedicated_eutra_r_16", "sl_time_offset_eutra_list_r_16">>),
       PutIf("sl_config_dedicated_eutra_r_16", OctetString),
       PutIf("sl_time_offset_eutra_list_r_16", NonEmpty(8, 8, T("SlTimeOffsetEutraR16")))>>)]
FromSlTimeOffsetEutraR16 ==
  [SlTimeOffsetEutraR16 |-> Codec(<<ReadEnum(0, 17, FALSE, 18)>>, <<WriteEnum(0, 17, FALSE)>>),
   RrcReconfigurationComplete |-> Codec(
     <<ReadHeader(FALSE, 0), Get("rrc_transaction_identifier", T("RrcTransactionIdentifier")),
       Get("critical_extensions", T("CriticalExtensions16"))>>,
     <<WriteHeader(FALSE, <<>>), Put("rrc_transaction_identifier", T("RrcTransactionIdentifier")),
       Put("critical_extensions", T("CriticalExtensions16"))>>),
   RrcReconfigurationCompleteIEs |-> Codec(
     <<ReadHeader(FALSE, 2), GetIf(1, "late_non_critical_extension", OctetString),
       GetIf(2, "non_critical_extension", T("RrcReconfigurationCompleteV1530IEs"))>>,
     <<WriteHeader(FALSE, <<"late_non_critical_extension", "non_critical_extension">>),
       PutIf("late_non_critical_extension", OctetString),
       PutIf("non_critical_extension", T("RrcReconfigurationCompleteV1530IEs"))>>)]
FromRrcReconfigurationCompleteV1530IEs ==
  [RrcReconfigurationCompleteV1530IEs |-> Codec(
     <<ReadHeader(FALSE, 2),
       GetIf(1, "uplink_tx_direct_current_list", T("UplinkTxDirectCurrentList")),
       GetIf(2, "non_critical_extension", T("RrcReconfigurationCompleteV1560IEs"))>>,
     <<WriteHeader(FALSE, <<"uplink_tx_direct_current_list", "non_critical_extension">>),
       PutIf("uplink_tx_direct_current_list", T("UplinkTxDirectCurrentList")),
       PutIf("non_critical_extension", T("RrcReconfigurationCompleteV1560IEs"))>>),
   RrcReconfigurationCompleteV1560IEs |-> Codec(
     <<ReadHeader(FALSE, 2), GetIf(1, "scg_response", T("ScgResponse")),
       GetIf(2, "non_critical_extension", T("RrcReconfigurationCompleteV1610IEs"))>>,
     <<WriteHeader(FALSE, <<"scg_response", "non_critical_extension">>),
       PutIf("scg_response", T("ScgResponse")),
       PutIf("non_critical_extension", T("RrcReconfigurationCompleteV1610IEs"))>>),
   RrcReconfigurationCompleteV1610IEs |-> Codec(
     <<ReadHeader(FALSE, 3),
       GetIf(1, "ue_measurements_available_r_16", T("UeMeasurementsAvailableR16")),
       GetIf(2, "need_for_gaps_info_nr_r_16", T("NeedForGapsInfoNrR16")),
       GetIf(3, "non_critical_extension", T("RrcReconfigurationCompleteV1640IEs"))>>,
     <<WriteHeader(FALSE, <<"ue_measurements_available_r_16", "need_for_gaps_info_nr_r_16",
       "non_critical_extension">>),
       PutIf("ue_measurements_available_r_16", T("UeMeasurementsAvailableR16")),
       PutIf("need_for_gaps_info_nr_r_16", T("NeedForGapsInfoNrR16")),
       PutIf("non_critical_extension", T("RrcReconfigurationCompleteV1640IEs"))>>)]
FromRrcReconfigurationCompleteV1640IEs ==
  [RrcReconfigurationCompleteV1640IEs |-> Codec(
     <<ReadHeader(FALSE, 2),
       GetIf(1, "uplink_tx_direct_current_two_carrier_list_r_16", T("UplinkTxDirectCurrentTwoCarrierListR16"))>>,
     <<WriteHeader(FALSE, <<"uplink_tx_direct_current_two_carrier_list_r_16", "false">>),
       PutIf("uplink_tx_direct_current_two_carrier_list_r_16", T("UplinkTxDirectCurrentTwoCarrierListR16"))>>),
   RrcReject |-> Codec(
     <<ReadHeader(FALSE, 0), Get("critical_extensions", T("CriticalExtensions17"))>>,
     <<WriteHeader(FALSE, <<>>), Put("critical_extensions", T("CriticalExtensions17"))>>),
   RrcRejectIEs |-> Codec(
     <<ReadHeader(FALSE, 3), GetIf(1, "wait_time", T("RejectWaitTime")),
       GetIf(2, "late_non_critical_extension", OctetString)>>,
     <<WriteHeader(FALSE, <<"wait_time", "late_non_critical_extension", "false">>),
       PutIf("wait_time", T("RejectWaitTime")), PutIf("late_non_critical_extension", OctetString)>>)]
FromRrcRelease ==
  [RrcRelease |-> Codec(
     <<ReadHeader(FALSE, 0), Get("rrc_transaction_identifier", T("RrcTransactionIdentifier")),
       Get("critical_extensions", T("CriticalExtensions18"))>>,
     <<WriteHeader(FALSE, <<>>), Put("rrc_transaction_identifier", T("RrcTransactionIdentifier")),
       Put("critical_extensions", T("CriticalExtensions18"))>>),
   RrcReleaseIEs |-> Codec(
     <<ReadHeader(FALSE, 6), GetIf(1, "redirected_carrier_info", T("RedirectedCarrierInfo")),
       GetIf(2, "cell_reselection_priorities", T("CellReselectionPriorities")),
       GetIf(3, "suspend_config", T("SuspendConfig")),
       GetIf(4, "deprioritisation_req", T("DeprioritisationReq")),
       GetIf(5, "late_non_critical_extension", OctetString),
       GetIf(6, "non_critical_extension", T("RrcReleaseV1540IEs"))>>,
     <<WriteHeader(FALSE, <<"redirected_carrier_info", "cell_reselection_priorities",
       "suspend_config", "deprioritisation_req", "late_non_critical_extension",
       "non_critical_extension">>), PutIf("redirected_carrier_info", T("RedirectedCarrierInfo")),
       PutIf("cell_reselection_priorities", T("CellReselectionPriorities")),
       PutIf("suspend_config", T("SuspendConfig")),
       PutIf("deprioritisation_req", T("DeprioritisationReq")),
       PutIf("late_non_critical_extension", OctetString),
       PutIf("non_critical_extension", T("RrcReleaseV1540IEs"))>>)]
FromRrcReleaseV1540IEs ==
  [RrcReleaseV1540IEs |-> Codec(
     <<ReadHeader(FALSE, 2), GetIf(1, "wait_time", T("RejectWaitTime")),
       GetIf(2, "non_critical_extension", T("RrcReleaseV1610IEs"))>>,
     <<WriteHeader(FALSE, <<"wait_time", "non_critical_extension">>),
       PutIf("wait_time", T("RejectWaitTime")),
       PutIf("non_critical_extension", T("RrcReleaseV1610IEs"))>>),
   RrcReleaseV1610IEs |-> Codec(
     <<ReadHeader(FALSE, 3),
       GetIf(1, "voice_fallback_indication_r_16", T("VoiceFallbackIndicationR16_1")),
       GetIf(2, "meas_idle_config_r_16", SetupRelease("MeasIdleConfigDedicatedR16")),
       GetIf(3, "non_critical_extension", T("RrcReleaseV1650IEs"))>>,
     <<WriteHeader(FALSE, <<"voice_fallback_indication_r_16", "meas_idle_config_r_16",
       "non_critical_extension">>),
       PutIf("voice_fallback_indication_r_16", T("VoiceFallbackIndicationR16_1")),
       PutIf("meas_idle_config_r_16", SetupRelease("MeasIdleConfigDedicatedR16")),
       PutIf("non_critical_extension", T("RrcReleaseV1650IEs"))>>),
   RrcReleaseV1650IEs |-> Codec(
     <<ReadHeader(FALSE, 2),
       GetIf(1, "mps_priority_indication_r_16", T("MpsPriorityIndicationR16"))>>,
     <<WriteHeader(FALSE, <<"mps_priority_indication_r_16", "false">>),
       PutIf("mps_priority_indication_r_16", T("MpsPriorityIndicationR16"))>>)]
FromRedirectedCarrierInfo ==
  [RedirectedCarrierInfo |-> Codec(
     <<ReadChoice(0, 1, TRUE, <<Alt(0, "Nr", T("CarrierInfoNr")),
       Alt(1, "Eutra", T("RedirectedCarrierInfoEutra"))>>)>>,
     <<WriteChoice(0, 1, TRUE, <<Arm("Nr", 0, T("CarrierInfoNr")),
       Arm("Eutra", 1, T("RedirectedCarrierInfoEutra"))>>)>>),
   RedirectedCarrierInfoEutra |-> Codec(
     <<ReadHeader(FALSE, 1), Get("eutra_frequency", T("ArfcnValueEutra")),
       GetIf(1, "cn_type", T("CnType"))>>,
     <<WriteHeader(FALSE, <<"cn_type">>), Put("eutra_frequency", T("ArfcnValueEutra")),
       PutIf("cn_type", T("CnType"))>>),
   CarrierInfoNr |-> Codec(
     <<ReadHeader(TRUE, 1), Get("carrier_freq", T("ArfcnValueNr")),
       Get("ssb_subcarrier_spacing", T("SubcarrierSpacing")), GetIf(1, "smtc", T("SsbMtc"))>>,
     <<WriteHeader(TRUE, <<"smtc">>), Put("carrier_freq", T("ArfcnValueNr")),
       Put("ssb_subcarrier_spacing", T("SubcarrierSpacing")), PutIf("smtc", T("SsbMtc"))>>)]
FromSuspendConfig ==
  [SuspendConfig |-> Codec(
     <<ReadHeader(TRUE, 2), Get("full_i_rnti", T("IRntiValue")),
       Get("short_i_rnti", T("ShortIRntiValue")), Get("ran_paging_cycle", T("PagingCycle")),
       GetIf(1, "ran_notification_area_info", T("RanNotificationAreaInfo")),
       GetIf(2, "t380", T("PeriodicRnauTimerValue")),
       Get("next_hop_chaining_count", T("NextHopChainingCount"))>>,
     <<WriteHeader(TRUE, <<"ran_notification_area_info", "t380">>),
       Put("full_i_rnti", T("IRntiValue")), Put("short_i_rnti", T("ShortIRntiValue")),
       Put("ran_paging_cycle", T("PagingCycle")),
       PutIf("ran_notification_area_info", T("RanNotificationAreaInfo")),
       PutIf("t380", T("PeriodicRnauTimerValue")),
       Put("next_hop_chaining_count", T("NextHopChainingCount"))>>),
   PeriodicRnauTimerValue |-> Codec(<<ReadEnum(0, 7, FALSE, 8)>>, <<WriteEnum(0, 7, FALSE)>>),
   CellReselectionPriorities |-> Codec(
     <<ReadHeader(TRUE, 3), GetIf(1, "freq_priority_list_eutra", T("FreqPriorityListEutra")),
       GetIf(2, "freq_priority_list_nr", T("FreqPriorityListNr")), GetIf(3, "t320", T("T320"))>>,
     <<WriteHeader(TRUE, <<"freq_priority_list_eutra", "freq_priority_list_nr", "t320">>),
       PutIf("freq_priority_list_eutra", T("FreqPriorityListEutra")),
       PutIf("freq_priority_list_nr", T("FreqPriorityListNr")), PutIf("t320", T("T320"))>>)]
FromPagingCycle ==
  [PagingCycle |-> Codec(<<ReadEnum(0, 3, FALSE, 4)>>, <<WriteEnum(0, 3, FALSE)>>),
   FreqPriorityListEutra |-> Codec(
     <<Get("0", NonEmpty(1, 8, T("FreqPriorityEutra")))>>,
     <<Put("0", NonEmpty(1, 8, T("FreqPriorityEutra")))>>),
   FreqPriorityListNr |-> Codec(
     <<Get("0", NonEmpty(1, 8, T("FreqPriorityNr")))>>,
     <<Put("0", NonEmpty(1, 8, T("FreqPriorityNr")))>>),
   FreqPriorityEutra |-> Codec(
     <<ReadHeader(FALSE, 1), Get("carrier_freq", T("ArfcnValueEutra")),
       Get("cell_reselection_priority", T("CellReselectionPriority")),
       GetIf(1, "cell_reselection_sub_priority", T("CellReselectionSubPriority"))>>,
     <<WriteHeader(FALSE, <<"cell_reselection_sub_priority">>),
       Put("carrier_freq", T("ArfcnValueEutra")),
       Put("cell_reselection_priority", T("CellReselectionPriority")),
       PutIf("cell_reselection_sub_priority", T("CellReselectionSubPriority"))>>)]
FromFreqPriorityNr ==
  [FreqPriorityNr |-> Codec(
     <<ReadHeader(FALSE, 1), Get("carrier_freq", T("ArfcnValueNr")),
       Get("cell_reselection_priority", T("CellReselectionPriority")),
       GetIf(1, "cell_reselection_sub_priority", T("CellReselectionSubPriority"))>>,
     <<WriteHeader(FALSE, <<"cell_reselection_sub_priority">>),
       Put("carrier_freq", T("ArfcnValueNr")),
       Put("cell_reselection_priority", T("CellReselectionPriority")),
       PutIf("cell_reselection_sub_priority", T("CellReselectionSubPriority"))>>),
   RanNotificationAreaInfo |-> Codec(
     <<ReadChoice(0, 1, TRUE, <<Alt(0, "CellList", T("PlmnRanAreaCellList")),
       Alt(1, "RanAreaConfigList", T("PlmnRanAreaConfigList"))>>)>>,
     <<WriteChoice(0, 1, TRUE, <<Arm("CellList", 0, T("PlmnRanAreaCellList")),
       Arm("RanAreaConfigList", 1, T("PlmnRanAreaConfigList"))>>)>>),
   PlmnRanAreaCellList |-> Codec(
     <<Get("0", NonEmpty(1, 8, T("PlmnRanAreaCell")))>>,
     <<Put("0", NonEmpty(1, 8, T("PlmnRanAreaCell")))>>)]
FromPlmnRanAreaCell ==
  [PlmnRanAreaCell |-> Codec(
     <<ReadHeader(FALSE, 1), GetIf(1, "plmn_identity", T("PlmnIdentity")),
       Get("ran_area_cells", NonEmpty(1, 32, T("CellIdentity")))>>,
     <<WriteHeader(FALSE, <<"plmn_identity">>), PutIf("plmn_identity", T("PlmnIdentity")),
       Put("ran_area_cells", NonEmpty(1, 32, T("CellIdentity")))>>),
   PlmnRanAreaConfigList |-> Codec(
     <<Get("0", NonEmpty(1, 8, T("PlmnRanAreaConfig")))>>,
     <<Put("0", NonEmpty(1, 8, T("PlmnRanAreaConfig")))>>),
   PlmnRanAreaConfig |-> Codec(
     <<ReadHeader(FALSE, 1), GetIf(1, "plmn_identity", T("PlmnIdentity")),
       Get("ran_area", NonEmpty(1, 16, T("RanAreaConfig")))>>,
     <<WriteHeader(FALSE, <<"plmn_identity">>), PutIf("plmn_identity", T("PlmnIdentity")),
       Put("ran_area", NonEmpty(1, 16, T("RanAreaConfig")))>>)]
FromRanAreaConfig ==
  [RanAreaConfig |-> Codec(
     <<ReadHeader(FALSE, 1), Get("tracking_area_code", T("TrackingAreaCode")),
       GetIf(1, "ran_area_code_list", NonEmpty(1, 32, T("RanAreaCode")))>>,
     <<WriteHeader(FALSE, <<"ran_area_code_list">>),
       Put("tracking_area_code", T("TrackingAreaCode")),
       PutIf("ran_area_code_list", NonEmpty(1, 32, T("RanAreaCode")))>>),
   RrcResume |-> Codec(
     <<ReadHeader(FALSE, 0), Get("rrc_transaction_identifier", T("RrcTransactionIdentifier")),
       Get("critical_extensions", T("CriticalExtensions19"))>>,
     <<WriteHeader(FALSE, <<>>), Put("rrc_transaction_identifier", T("RrcTransactionIdentifier")),
       Put("critical_extensions", T("CriticalExtensions19"))>>),
   RrcResumeIEs |-> Codec(
     <<ReadHeader(FALSE, 6), GetIf(1, "radio_bearer_config", T("RadioBearerConfig")),
       GetIf(2, "master_cell_group", OctetString), GetIf(3, "meas_config", T("MeasConfig")),
       GetIf(4, "full_config", T("FullConfig1")),
       GetIf(5, "late_non_critical_extension", OctetString),
       GetIf(6, "non_critical_extension", T("RrcResumeV1560IEs"))>>,
     <<WriteHeader(FALSE, <<"radio_bearer_config", "master_cell_group", "meas_config",
       "full_config", "late_non_critical_extension", "non_critical_extension">>),
       PutIf("radio_bearer_config", T("RadioBearerConfig")),
       PutIf("master_cell_group", OctetString), PutIf("meas_config", T("MeasConfig")),
       PutIf("full_config", T("FullConfig1")), PutIf("late_non_critical_extension", OctetString),
       PutIf("non_critical_extension", T("RrcResumeV1560IEs"))>>)]
FromRrcResumeV1560IEs ==
  [RrcResumeV1560IEs |-> Codec(
     <<ReadHeader(FALSE, 3), GetIf(1, "radio_bearer_config_2", OctetString),
       GetIf(2, "sk_counter", T("SkCounter")),
       GetIf(3, "non_critical_extension", T("RrcResumeV1610IEs"))>>,
     <<WriteHeader(FALSE, <<"radio_bearer_config_2", "sk_counter", "non_critical_extension">>),
       PutIf("radio_bearer_config_2", OctetString), PutIf("sk_counter", T("SkCounter")),
       PutIf("non_critical_extension", T("RrcResumeV1610IEs"))>>),
   RrcResumeV1610IEs |-> Codec(
     <<ReadHeader(FALSE, 6),
       GetIf(1, "idle_mode_measurement_req_r_16", T("IdleModeMeasurementReqR16")),
       GetIf(2, "restore_mcg_s_cells_r_16", T("RestoreMcgSCellsR16")),
       GetIf(3, "restore_scg_r_16", T("RestoreScgR16")),
       GetIf(4, "mrdc_secondary_cell_group_r_16", T("MrdcSecondaryCellGroupR16")),
       GetIf(5, "need_for_gaps_config_nr_r_16", SetupRelease("NeedForGapsConfigNrR16"))>>,
     <<WriteHeader(FALSE, <<"idle_mode_measurement_req_r_16", "restore_mcg_s_cells_r_16",
       "restore_scg_r_16", "mrdc_secondary_cell_group_r_16", "need_for_gaps_config_nr_r_16",
       "false">>), PutIf("idle_mode_measurement_req_r_16", T("IdleModeMeasurementReqR16")),
       PutIf("restore_mcg_s_cells_r_16", T("RestoreMcgSCellsR16")),
       PutIf("restore_scg_r_16", T("RestoreScgR16")),
       PutIf("mrdc_secondary_cell_group_r_16", T("MrdcSecondaryCellGroupR16")),
       PutIf("need_for_gaps_config_nr_r_16", SetupRelease("NeedForGapsConfigNrR16"))>>)]
FromRrcResumeComplete ==
  [RrcResumeComplete |-> Codec(
     <<ReadHeader(FALSE, 0), Get("rrc_transaction_identifier", T("RrcTransactionIdentifier")),
       Get("critical_extensions", T("CriticalExtensions20"))>>,
     <<WriteHeader(FALSE, <<>>), Put("rrc_transaction_identifier", T("RrcTransactionIdentifier")),
       Put("critical_extensions", T("CriticalExtensions20"))>>),
   RrcResumeCompleteIEs |-> Codec(
     <<ReadHeader(FALSE, 5), GetIf(1, "dedicated_nas_message", T("DedicatedNasMessage")),
       GetIf(2, "selected_plmn_identity", Num(1, 12, FALSE, "u8")),
       GetIf(3, "uplink_tx_direct_current_list", T("UplinkTxDirectCurrentList")),
       GetIf(4, "late_non_critical_extension", OctetString),
       GetIf(5, "non_critical_extension", T("RrcResumeCompleteV1610IEs"))>>,
     <<WriteHeader(FALSE, <<"dedicated_nas_message", "selected_plmn_identity",
       "uplink_tx_direct_current_list", "late_non_critical_extension", "non_critical_extension">>),
       PutIf("dedicated_nas_message", T("DedicatedNasMessage")),
       PutIf("selected_plmn_identity", Num(1, 12, FALSE, "u8")),
       PutIf("uplink_tx_direct_current_list", T("UplinkTxDirectCurrentList")),
       PutIf("late_non_critical_extension", OctetString),
       PutIf("non_critical_extension", T("RrcResumeCompleteV1610IEs"))>>)]
FromRrcResumeCompleteV1610IEs ==
  [RrcResumeCompleteV1610IEs |-> Codec(
     <<ReadHeader(FALSE, 9), GetIf(1, "idle_meas_available_r_16", T("IdleMeasAvailableR16")),
       GetIf(2, "meas_result_idle_eutra_r_16", T("MeasResultIdleEutraR16")),
       GetIf(3, "meas_result_idle_nr_r_16", T("MeasResultIdleNrR16")),
       GetIf(4, "scg_response_r_16", T("ScgResponseR16")),
       GetIf(5, "ue_measurements_available_r_16", T("UeMeasurementsAvailableR16")),
       GetIf(6, "mobility_history_avail_r_16", T("MobilityHistoryAvailR16")),
       GetIf(7, "mobility_state_r_16", T("MobilityStateR16")),
       GetIf(8, "need_for_gaps_info_nr_r_16", T("NeedForGapsInfoNrR16")),
       GetIf(9, "non_critical_extension", T("RrcResumeCompleteV1640IEs"))>>,
     <<WriteHeader(FALSE, <<"idle_meas_available_r_16", "meas_result_idle_eutra_r_16",
       "meas_result_idle_nr_r_16", "scg_response_r_16", "ue_measurements_available_r_16",
       "mobility_history_avail_r_16", "mobility_state_r_16", "need_for_gaps_info_nr_r_16",
       "non_critical_extension">>), PutIf("idle_meas_available_r_16", T("IdleMeasAvailableR16")),
       PutIf("meas_result_idle_eutra_r_16", T("MeasResultIdleEutraR16")),
       PutIf("meas_result_idle_nr_r_16", T("MeasResultIdleNrR16")),
       PutIf("scg_response_r_16", T("ScgResponseR16")),
       PutIf("ue_measurements_available_r_16", T("UeMeasurementsAvailableR16")),
       PutIf("mobility_history_avail_r_16", T("MobilityHistoryAvailR16")),
       PutIf("mobility_state_r_16", T("MobilityStateR16")),
       PutIf("need_for_gaps_info_nr_r_16", T("NeedForGapsInfoNrR16")),
       PutIf("non_critical_extension", T("RrcResumeCompleteV1640IEs"))>>)]
FromRrcResumeCompleteV1640IEs ==
  [RrcResumeCompleteV1640IEs |-> Codec(
     <<ReadHeader(FALSE, 2),
       GetIf(1, "uplink_tx_direct_current_two_carrier_list_r_16", T("UplinkTxDirectCurrentTwoCarrierListR16"))>>,
     <<WriteHeader(FALSE, <<"uplink_tx_direct_current_two_carrier_list_r_16", "false">>),
       PutIf("uplink_tx_direct_current_two_carrier_list_r_16", T("UplinkTxDirectCurrentTwoCarrierListR16"))>>),
   RrcResumeRequest |-> Codec(
     <<ReadHeader(FALSE, 0), Get("rrc_resume_request", T("RrcResumeRequestIEs"))>>,
     <<WriteHeader(FALSE, <<>>), Put("rrc_resume_request", T("RrcResumeRequestIEs"))>>),
   RrcResumeRequestIEs |-> Codec(
     <<ReadHeader(FALSE, 0), Get("resume_identity", T("ShortIRntiValue")),
       Get("resume_mac_i", Bits(16, 16, FALSE)), Get("resume_cause", T("ResumeCause")),
       Get("spare", Bits(1, 1, FALSE))>>,
     <<WriteHeader(FALSE, <<>>), Put("resume_identity", T("ShortIRntiValue")),
       Put("resume_mac_i", Bits(16, 16, FALSE)), Put("resume_cause", T("ResumeCause")),
       Put("spare", Bits(1, 1, FALSE))>>)]
FromRrcSetup ==
  [RrcSetup |-> Codec(
     <<ReadHeader(FALSE, 0), Get("rrc_transaction_identifier", T("RrcTransactionIdentifier")),
       Get("critical_extensions", T("CriticalExtensions21"))>>,
     <<WriteHeader(FALSE, <<>>), Put("rrc_transaction_identifier", T("RrcTransactionIdentifier")),
       Put("critical_extensions", T("CriticalExtensions21"))>>),
   RrcSetupIEs |-> Codec(
     <<ReadHeader(FALSE, 2), Get("radio_bearer_config", T("RadioBearerConfig")),
       Get("master_cell_group", OctetString), GetIf(1, "late_non_critical_extension", OctetString)>>,
     <<WriteHeader(FALSE, <<"late_non_critical_extension", "false">>),
       Put("radio_bearer_config", T("RadioBearerConfig")), Put("master_cell_group", OctetString),
       PutIf("late_non_critical_extension", OctetString)>>),
   RrcSetupComplete |-> Codec(
     <<ReadHeader(FALSE, 0), Get("rrc_transaction_identifier", T("RrcTransactionIdentifier")),
       Get("critical_extensions", T("CriticalExtensions22"))>>,
     <<WriteHeader(FALSE, <<>>), Put("rrc_transaction_identifier", T("RrcTransactionIdentifier")),
       Put("critical_extensions", T("CriticalExtensions22"))>>)]
FromRrcSetupCompleteIEs ==
  [RrcSetupCompleteIEs |-> Codec(
     <<ReadHeader(FALSE, 6), Get("selected_plmn_identity", Num(1, 12, FALSE, "u8")),
       GetIf(1, "registered_amf", T("RegisteredAmf")), GetIf(2, "guami_type", T("GuamiType")),
       GetIf(3, "snssai_list", NonEmpty(1, 8, T("Snssai"))),
       Get("dedicated_nas_message", T("DedicatedNasMessage")),
       GetIf(4, "ng_5g_s_tmsi_value", T("Ng5gSTmsiValue")),
       GetIf(5, "late_non_critical_extension", OctetString),
       GetIf(6, "non_critical_extension", T("RrcSetupCompleteV1610IEs"))>>,
     <<WriteHeader(FALSE, <<"registered_amf", "guami_type", "snssai_list", "ng_5g_s_tmsi_value",
       "late_non_critical_extension", "non_critical_extension">>),
       Put("selected_plmn_identity", Num(1, 12, FALSE, "u8")),
       PutIf("registered_amf", T("RegisteredAmf")), PutIf("guami_type", T("GuamiType")),
       PutIf("snssai_list", NonEmpty(1, 8, T("Snssai"))),
       Put("dedicated_nas_message", T("DedicatedNasMessage")),
       PutIf("ng_5g_s_tmsi_value", T("Ng5gSTmsiValue")),
       PutIf("late_non_critical_extension", OctetString),
       PutIf("non_critical_extension", T("RrcSetupCompleteV1610IEs"))>>)]
FromRrcSetupCompleteV1610IEs ==
  [RrcSetupCompleteV1610IEs |-> Codec(
     <<ReadHeader(FALSE, 6), GetIf(1, "iab_node_indication_r_16", T("IabNodeIndicationR16")),
       GetIf(2, "idle_meas_available_r_16", T("IdleMeasAvailableR16_1")),
       GetIf(3, "ue_measurements_available_r_16", T("UeMeasurementsAvailableR16")),
       GetIf(4, "mobility_history_avail_r_16", T("MobilityHistoryAvailR16_1")),
       GetIf(5, "mobility_state_r_16", T("MobilityStateR16_1"))>>,
     <<WriteHeader(FALSE, <<"iab_node_indication_r_16", "idle_meas_available_r_16",
       "ue_measurements_available_r_16", "mobility_history_avail_r_16", "mobility_state_r_16",
       "false">>), PutIf("iab_node_indication_r_16", T("IabNodeIndicationR16")),
       PutIf("idle_meas_available_r_16", T("IdleMeasAvailableR16_1")),
       PutIf("ue_measurements_available_r_16", T("UeMeasurementsAvailableR16")),
       PutIf("mobility_history_avail_r_16", T("MobilityHistoryAvailR16_1")),
       PutIf("mobility_state_r_16", T("MobilityStateR16_1"))>>),
   RegisteredAmf |-> Codec(
     <<ReadHeader(FALSE, 1), GetIf(1, "plmn_identity", T("PlmnIdentity")),
       Get("amf_identifier", T("AmfIdentifier"))>>,
     <<WriteHeader(FALSE, <<"plmn_identity">>), PutIf("plmn_identity", T("PlmnIdentity")),
       Put("amf_identifier", T("AmfIdentifier"))>>)]
FromRrcSetupRequest ==
  [RrcSetupRequest |-> Codec(
     <<ReadHeader(FALSE, 0), Get("rrc_setup_request", T("RrcSetupRequestIEs"))>>,
     <<WriteHeader(FALSE, <<>>), Put("rrc_setup_request", T("RrcSetupRequestIEs"))>>),
   RrcSetupRequestIEs |-> Codec(
     <<ReadHeader(FALSE, 0), Get("ue_identity", T("InitialUeIdentity")),
       Get("establishment_cause", T("EstablishmentCause")), Get("spare", Bits(1, 1, FALSE))>>,
     <<WriteHeader(FALSE, <<>>), Put("ue_identity", T("InitialUeIdentity")),
       Put("establishment_cause", T("EstablishmentCause")), Put("spare", Bits(1, 1, FALSE))>>),
   InitialUeIdentity |-> Codec(
     <<ReadChoice(0, 1, FALSE, <<Alt(0, "Ng5gSTmsiPart1", Bits(39, 39, FALSE)),
       Alt(1, "RandomValue", Bits(39, 39, FALSE))>>)>>,
     <<WriteChoice(0, 1, FALSE, <<Arm("Ng5gSTmsiPart1", 0, Bits(39, 39, FALSE)),
       Arm("RandomValue", 1, Bits(39, 39, FALSE))>>)>>)]
FromEstablishmentCause ==
  [EstablishmentCause |-> Codec(<<ReadEnum(0, 15, FALSE, 16)>>, <<WriteEnum(0, 15, FALSE)>>),
   RrcSystemInfoRequest |-> Codec(
     <<ReadHeader(FALSE, 0), Get("critical_extensions", T("CriticalExtensions23"))>>,
     <<WriteHeader(FALSE, <<>>), Put("critical_extensions", T("CriticalExtensions23"))>>),
   RrcSystemInfoRequestIEs |-> Codec(
     <<ReadHeader(FALSE, 0), Get("requested_si_list", Bits(32, 32, FALSE)),
       Get("spare", Bits(12, 12, FALSE))>>,
     <<WriteHeader(FALSE, <<>>), Put("requested_si_list", Bits(32, 32, FALSE)),
       Put("spare", Bits(12, 12, FALSE))>>)]
FromRrcPosSystemInfoRequestR16IEs ==
  [RrcPosSystemInfoRequestR16IEs |-> Codec(
     <<ReadHeader(FALSE, 0), Get("requested_pos_si_list", Bits(32, 32, FALSE)),
       Get("spare", Bits(11, 11, FALSE))>>,
     <<WriteHeader(FALSE, <<>>), Put("requested_pos_si_list", Bits(32, 32, FALSE)),
       Put("spare", Bits(11, 11, FALSE))>>)]

Codecs == {FromDlCcchMessage, FromUlCcchMessage, FromUlDcchMessage, FromDrbCountMsbInfoList,
  FromCounterCheckResponseIEs, FromDedicatedSibRequestR16, FromPosSibReqInfoR16,
  FromDlInformationTransfer, FromDlInformationTransferMrdcR16, FromFailureInformationIEs,
  FromFailureInfoDapsR16, FromIabIpAddressNumReqR16, FromIabIpAddressAndTrafficR16,
  FromLocationMeasurementIndication, FromLoggedMeasurementConfigurationR16IEs,
  FromLoggedPeriodicalReportConfigR16, FromMcgFailureInformationR16IEs, FromMeasResultList2utra,
  FromMeasurementReportIEs, FromMobilityFromNrCommand, FromRrcReestablishment,
  FromRrcReestablishmentCompleteIEs, FromRrcReestablishmentRequestIEs, FromRrcReconfigurationIEs,
  FromRrcReconfigurationV1530IEs, FromRrcReconfigurationV1540IEs, FromRrcReconfigurationV1610IEs,
  FromMrdcSecondaryCellGroupConfig, FromOnDemandSibRequestR16, FromIabIpAddressConfigurationR16,
  FromSlTimeOffsetEutraR16, FromRrcReconfigurationCompleteV1530IEs,
  FromRrcReconfigurationCompleteV1640IEs, FromRrcRelease, FromRrcReleaseV1540IEs,
  FromRedirectedCarrierInfo, FromSuspendConfig, FromPagingCycle, FromFreqPriorityNr,
  FromPlmnRanAreaCell, FromRanAreaConfig, FromRrcResumeV1560IEs, FromRrcResumeComplete,
  FromRrcResumeCompleteV1610IEs, FromRrcResumeCompleteV1640IEs, FromRrcSetup,
  FromRrcSetupCompleteIEs, FromRrcSetupCompleteV1610IEs, FromRrcSetupRequest,
  FromEstablishmentCause, FromRrcPosSystemInfoRequestR16IEs}
=============================================================================
