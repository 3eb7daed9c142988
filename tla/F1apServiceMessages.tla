------------------------ MODULE F1apServiceMessages ------------------------
(***************************************************************************)
(* The programs of the codecs of f1ap/src/pdu.rs, the messages and their   *)
(* lists: warnings, RRC transfer, paging, tracing, radio information, IAB, *)
(* resource status and positioning.                                        *)
(***************************************************************************)
EXTENDS PerLayout

FromWriteReplaceWarningRequest ==
  [WriteReplaceWarningRequest |-> Codec(
     <<ReadIes(<<Ie(78, "transaction_id", T("TransactionId")),
       Ie(140, "pws_system_information", T("PwsSystemInformation")),
       Ie(141, "repetition_period", T("RepetitionPeriod")),
       Ie(142, "numberof_broadcast_request", T("NumberofBroadcastRequest")),
       Ie(144, "cells_to_be_broadcast_list", T("CellsToBeBroadcastList"))>>),
       Require({"transaction_id", "pws_system_information", "repetition_period",
       "numberof_broadcast_request"})>>,
     <<PutIe(78, "transaction_id", T("TransactionId")),
       PutIe(140, "pws_system_information", T("PwsSystemInformation")),
       PutIe(141, "repetition_period", T("RepetitionPeriod")),
       PutIe(142, "numberof_broadcast_request", T("NumberofBroadcastRequest")),
       PutIeIf(144, "cells_to_be_broadcast_list", T("CellsToBeBroadcastList")), AppendIes>>),
   CellsToBeBroadcastList |-> Codec(
     <<Get("0", NonEmpty(1, 512, InIe(T("CellsToBeBroadcastItem"))))>>,
     <<Put("0", NonEmpty(1, 512, InIe(T("CellsToBeBroadcastItem"))))>>)]
FromWriteReplaceWarningResponse ==
  [WriteReplaceWarningResponse |-> Codec(
     <<ReadIes(<<Ie(78, "transaction_id", T("TransactionId")),
       Ie(146, "cells_broadcast_completed_list", T("CellsBroadcastCompletedList")),
       Ie(7, "criticality_diagnostics", T("CriticalityDiagnostics")),
       Ie(189, "dedicated_si_delivery_needed_ue_list", T("DedicatedSiDeliveryNeededUeList"))>>),
       Require({"transaction_id"})>>,
     <<PutIe(78, "transaction_id", T("TransactionId")),
       PutIeIf(146, "cells_broadcast_completed_list", T("CellsBroadcastCompletedList")),
       PutIeIf(7, "criticality_diagnostics", T("CriticalityDiagnostics")),
       PutIeIf(189, "dedicated_si_delivery_needed_ue_list", T("DedicatedSiDeliveryNeededUeList")),
       AppendIes>>),
   CellsBroadcastCompletedList |-> Codec(
     <<Get("0", NonEmpty(1, 512, InIe(T("CellsBroadcastCompletedItem"))))>>,
     <<Put("0", NonEmpty(1, 512, InIe(T("CellsBroadcastCompletedItem"))))>>)]
FromPwsCancelRequest ==
  [PwsCancelRequest |-> Codec(
     <<ReadIes(<<Ie(78, "transaction_id", T("TransactionId")),
       Ie(142, "numberof_broadcast_request", T("NumberofBroadcastRequest")),
       Ie(148, "broadcast_to_be_cancelled_list", T("BroadcastToBeCancelledList")),
       Ie(157, "cancel_all_warning_messages_indicator", T("CancelAllWarningMessagesIndicator")),
       Ie(220, "notification_information", T("NotificationInformation"))>>),
       Require({"transaction_id", "numberof_broadcast_request"})>>,
     <<PutIe(78, "transaction_id", T("TransactionId")),
       PutIe(142, "numberof_broadcast_request", T("NumberofBroadcastRequest")),
       PutIeIf(148, "broadcast_to_be_cancelled_list", T("BroadcastToBeCancelledList")),
       PutIeIf(157, "cancel_all_warning_messages_indicator", T("CancelAllWarningMessagesIndicator")),
       PutIeIf(220, "notification_information", T("NotificationInformation")), AppendIes>>),
   BroadcastToBeCancelledList |-> Codec(
     <<Get("0", NonEmpty(1, 512, InIe(T("BroadcastToBeCancelledItem"))))>>,
     <<Put("0", NonEmpty(1, 512, InIe(T("BroadcastToBeCancelledItem"))))>>)]
FromPwsCancelResponse ==
  [PwsCancelResponse |-> Codec(
     <<ReadIes(<<Ie(78, "transaction_id", T("TransactionId")),
       Ie(150, "cells_broadcast_cancelled_list", T("CellsBroadcastCancelledList")),
       Ie(7, "criticality_diagnostics", T("CriticalityDiagnostics"))>>),
       Require({"transaction_id"})>>,
     <<PutIe(78, "transaction_id", T("TransactionId")),
       PutIeIf(150, "cells_broadcast_cancelled_list", T("CellsBroadcastCancelledList")),
       PutIeIf(7, "criticality_diagnostics", T("CriticalityDiagnostics")), AppendIes>>),
   CellsBroadcastCancelledList |-> Codec(
     <<Get("0", NonEmpty(1, 512, InIe(T("CellsBroadcastCancelledItem"))))>>,
     <<Put("0", NonEmpty(1, 512, InIe(T("CellsBroadcastCancelledItem"))))>>)]
FromUeInactivityNotification ==
  [UeInactivityNotification |-> Codec(
     <<ReadIes(<<Ie(40, "gnb_cu_ue_f1ap_id", T("GnbCuUeF1apId")),
       Ie(41, "gnb_du_ue_f1ap_id", T("GnbDuUeF1apId")),
       Ie(100, "drb_activity_list", T("DrbActivityList"))>>), Require({"gnb_cu_ue_f1ap_id",
       "gnb_du_ue_f1ap_id", "drb_activity_list"})>>,
     <<PutIe(40, "gnb_cu_ue_f1ap_id", T("GnbCuUeF1apId")),
       PutIe(41, "gnb_du_ue_f1ap_id", T("GnbDuUeF1apId")),
       PutIe(100, "drb_activity_list", T("DrbActivityList")), AppendIes>>),
   DrbActivityList |-> Codec(
     <<Get("0", NonEmpty(1, 64, InIe(T("DrbActivityItem"))))>>,
     <<Put("0", NonEmpty(1, 64, InIe(T("DrbActivityItem"))))>>)]
FromInitialUlRrcMessageTransfer ==
  [InitialUlRrcMessageTransfer |-> Codec(
     <<ReadIes(<<Ie(41, "gnb_du_ue_f1ap_id", T("GnbDuUeF1apId")), Ie(111, "nr_cgi", T("NrCgi")),
       Ie(95, "c_rnti", T("CRnti")), Ie(50, "rrc_container", T("RrcContainer")),
       Ie(128, "du_to_cu_rrc_container", T("DuToCuRrcContainer")),
       Ie(178, "sul_access_indication", T("SulAccessIndication")),
       Ie(78, "transaction_id", T("TransactionId")), Ie(226, "ran_ue_id", T("RanUeId")),
       Ie(241, "rrc_container_rrc_setup_complete", T("RrcContainerRrcSetupComplete"))>>),
       Require({"gnb_du_ue_f1ap_id", "nr_cgi", "c_rnti", "rrc_container"})>>,
     <<PutIe(41, "gnb_du_ue_f1ap_id", T("GnbDuUeF1apId")), PutIe(111, "nr_cgi", T("NrCgi")),
       PutIe(95, "c_rnti", T("CRnti")), PutIe(50, "rrc_container", T("RrcContainer")),
       PutIeIf(128, "du_to_cu_rrc_container", T("DuToCuRrcContainer")),
       PutIeIf(178, "sul_access_indication", T("SulAccessIndication")),
       PutIeIf(78, "transaction_id", T("TransactionId")), PutIeIf(226, "ran_ue_id", T("RanUeId")),
       PutIeIf(241, "rrc_container_rrc_setup_complete", T("RrcContainerRrcSetupComplete")),
       AppendIes>>)]
DlRrcMessageTransferDecode ==
  <<ReadIes(<<Ie(40, "gnb_cu_ue_f1ap_id", T("GnbCuUeF1apId")),
    Ie(41, "gnb_du_ue_f1ap_id", T("GnbDuUeF1apId")),
    Ie(47, "old_gnb_du_ue_f1ap_id", T("GnbDuUeF1apId")), Ie(64, "srb_id", T("SrbId")),
    Ie(109, "execute_duplication", T("ExecuteDuplication")),
    Ie(50, "rrc_container", T("RrcContainer")),
    Ie(108, "rat_frequency_priority_information", T("RatFrequencyPriorityInformation")),
    Ie(184, "rrc_delivery_status_request", T("RrcDeliveryStatusRequest")),
    Ie(222, "ue_context_not_retrievable", T("UeContextNotRetrievable")),
    Ie(218, "redirected_rrc_message", OctetString),
    Ie(221, "plmn_assistance_info_for_net_shar", T("PlmnIdentity")),
    Ie(217, "new_gnb_cu_ue_f1ap_id", T("GnbCuUeF1apId")),
    Ie(248, "additional_rrm_priority_index", T("AdditionalRrmPriorityIndex"))>>),
    Require({"gnb_cu_ue_f1ap_id", "gnb_du_ue_f1ap_id", "srb_id", "rrc_container"})>>
DlRrcMessageTransferEncode ==
  <<PutIe(40, "gnb_cu_ue_f1ap_id", T("GnbCuUeF1apId")),
    PutIe(41, "gnb_du_ue_f1ap_id", T("GnbDuUeF1apId")),
    PutIeIf(47, "old_gnb_du_ue_f1ap_id", T("GnbDuUeF1apId")), PutIe(64, "srb_id", T("SrbId")),
    PutIeIf(109, "execute_duplication", T("ExecuteDuplication")),
    PutIe(50, "rrc_container", T("RrcContainer")),
    PutIeIf(108, "rat_frequency_priority_information", T("RatFrequencyPriorityInformation")),
    PutIeIf(184, "rrc_delivery_status_request", T("RrcDeliveryStatusRequest")),
    PutIeIf(222, "ue_context_not_retrievable", T("UeContextNotRetrievable")),
    PutIeIf(218, "redirected_rrc_message", OctetString),
    PutIeIf(221, "plmn_assistance_info_for_net_shar", T("PlmnIdentity")),
    PutIeIf(217, "new_gnb_cu_ue_f1ap_id", T("GnbCuUeF1apId")),
    PutIeIf(248, "additional_rrm_priority_index", T("AdditionalRrmPriorityIndex")), AppendIes>>
FromDlRrcMessageTransfer ==
  [DlRrcMessageTransfer |-> Codec(DlRrcMessageTransferDecode, DlRrcMessageTransferEncode)]
FromUlRrcMessageTransfer ==
  [UlRrcMessageTransfer |-> Codec(
     <<ReadIes(<<Ie(40, "gnb_cu_ue_f1ap_id", T("GnbCuUeF1apId")),
       Ie(41, "gnb_du_ue_f1ap_id", T("GnbDuUeF1apId")), Ie(64, "srb_id", T("SrbId")),
       Ie(50, "rrc_container", T("RrcContainer")), Ie(224, "selected_plmn_id", T("PlmnIdentity")),
       Ie(219, "new_gnb_du_ue_f1ap_id", T("GnbDuUeF1apId"))>>), Require({"gnb_cu_ue_f1ap_id",
       "gnb_du_ue_f1ap_id", "srb_id", "rrc_container"})>>,
     <<PutIe(40, "gnb_cu_ue_f1ap_id", T("GnbCuUeF1apId")),
       PutIe(41, "gnb_du_ue_f1ap_id", T("GnbDuUeF1apId")), PutIe(64, "srb_id", T("SrbId")),
       PutIe(50, "rrc_container", T("RrcContainer")),
       PutIeIf(224, "selected_plmn_id", T("PlmnIdentity")),
       PutIeIf(219, "new_gnb_du_ue_f1ap_id", T("GnbDuUeF1apId")), AppendIes>>)]
FromPrivateMessage ==
  [PrivateMessage |-> Codec(<<ReadHeader(TRUE, 0)>>, <<WriteHeader(TRUE, <<>>)>>),
   SystemInformationDeliveryCommand |-> Codec(
     <<ReadIes(<<Ie(78, "transaction_id", T("TransactionId")), Ie(111, "nr_cgi", T("NrCgi")),
       Ie(116, "si_type_list", T("SiTypeList")), Ie(156, "confirmed_ue_id", T("GnbDuUeF1apId"))>>),
       Require({"transaction_id", "nr_cgi", "si_type_list", "confirmed_ue_id"})>>,
     <<PutIe(78, "transaction_id", T("TransactionId")), PutIe(111, "nr_cgi", T("NrCgi")),
       PutIe(116, "si_type_list", T("SiTypeList")),
       PutIe(156, "confirmed_ue_id", T("GnbDuUeF1apId")), AppendIes>>)]
FromPaging ==
  [Paging |-> Codec(
     <<ReadIes(<<Ie(117, "ue_identity_index_value", T("UeIdentityIndexValue")),
       Ie(127, "paging_identity", T("PagingIdentity")), Ie(114, "paging_drx", T("PagingDrx")),
       Ie(115, "paging_priority", T("PagingPriority")),
       Ie(113, "paging_cell_list", T("PagingCellList")),
       Ie(216, "paging_origin", T("PagingOrigin"))>>), Require({"ue_identity_index_value",
       "paging_identity", "paging_cell_list"})>>,
     <<PutIe(117, "ue_identity_index_value", T("UeIdentityIndexValue")),
       PutIe(127, "paging_identity", T("PagingIdentity")),
       PutIeIf(114, "paging_drx", T("PagingDrx")),
       PutIeIf(115, "paging_priority", T("PagingPriority")),
       PutIe(113, "paging_cell_list", T("PagingCellList")),
       PutIeIf(216, "paging_origin", T("PagingOrigin")), AppendIes>>)]
FromPagingCellList ==
  [PagingCellList |-> Codec(
     <<Get("0", NonEmpty(1, 512, InIe(T("PagingCellItem"))))>>,
     <<Put("0", NonEmpty(1, 512, InIe(T("PagingCellItem"))))>>),
   Notify |-> Codec(
     <<ReadIes(<<Ie(40, "gnb_cu_ue_f1ap_id", T("GnbCuUeF1apId")),
       Ie(41, "gnb_du_ue_f1ap_id", T("GnbDuUeF1apId")),
       Ie(137, "drb_notify_list", T("DrbNotifyList"))>>), Require({"gnb_cu_ue_f1ap_id",
       "gnb_du_ue_f1ap_id", "drb_notify_list"})>>,
     <<PutIe(40, "gnb_cu_ue_f1ap_id", T("GnbCuUeF1apId")),
       PutIe(41, "gnb_du_ue_f1ap_id", T("GnbDuUeF1apId")),
       PutIe(137, "drb_notify_list", T("DrbNotifyList")), AppendIes>>)]
FromDrbNotifyList ==
  [DrbNotifyList |-> Codec(
     <<Get("0", NonEmpty(1, 64, InIe(T("DrbNotifyItem"))))>>,
     <<Put("0", NonEmpty(1, 64, InIe(T("DrbNotifyItem"))))>>),
   NetworkAccessRateReduction |-> Codec(
     <<ReadIes(<<Ie(78, "transaction_id", T("TransactionId")),
       Ie(225, "uac_assistance_info", T("UacAssistanceInfo"))>>), Require({"transaction_id",
       "uac_assistance_info"})>>,
     <<PutIe(78, "transaction_id", T("TransactionId")),
       PutIe(225, "uac_assistance_info", T("UacAssistanceInfo")), AppendIes>>),
   PwsRestartIndication |-> Codec(
     <<ReadIes(<<Ie(78, "transaction_id", T("TransactionId")),
       Ie(152, "nr_cgi_list_for_restart_list", T("NrCgiListForRestartList"))>>),
       Require({"transaction_id", "nr_cgi_list_for_restart_list"})>>,
     <<PutIe(78, "transaction_id", T("TransactionId")),
       PutIe(152, "nr_cgi_list_for_restart_list", T("NrCgiListForRestartList")), AppendIes>>)]
FromNrCgiListForRestartList ==
  [NrCgiListForRestartList |-> Codec(
     <<Get("0", NonEmpty(1, 512, InIe(T("NrCgiListForRestartItem"))))>>,
     <<Put("0", NonEmpty(1, 512, InIe(T("NrCgiListForRestartItem"))))>>),
   PwsFailureIndication |-> Codec(
     <<ReadIes(<<Ie(78, "transaction_id", T("TransactionId")),
       Ie(154, "pws_failed_nr_cgi_list", T("PwsFailedNrCgiList"))>>), Require({"transaction_id"})>>,
     <<PutIe(78, "transaction_id", T("TransactionId")),
       PutIeIf(154, "pws_failed_nr_cgi_list", T("PwsFailedNrCgiList")), AppendIes>>),
   PwsFailedNrCgiList |-> Codec(
     <<Get("0", NonEmpty(1, 512, InIe(T("PwsFailedNrCgiItem"))))>>,
     <<Put("0", NonEmpty(1, 512, InIe(T("PwsFailedNrCgiItem"))))>>)]
FromGnbDuStatusIndication ==
  [GnbDuStatusIndication |-> Codec(
     <<ReadIes(<<Ie(78, "transaction_id", T("TransactionId")),
       Ie(172, "gnb_du_overload_information", T("GnbDuOverloadInformation"))>>),
       Require({"transaction_id", "gnb_du_overload_information"})>>,
     <<PutIe(78, "transaction_id", T("TransactionId")),
       PutIe(172, "gnb_du_overload_information", T("GnbDuOverloadInformation")), AppendIes>>),
   RrcDeliveryReport |-> Codec(
     <<ReadIes(<<Ie(40, "gnb_cu_ue_f1ap_id", T("GnbCuUeF1apId")),
       Ie(41, "gnb_du_ue_f1ap_id", T("GnbDuUeF1apId")),
       Ie(185, "rrc_delivery_status", T("RrcDeliveryStatus")), Ie(64, "srb_id", T("SrbId"))>>),
       Require({"gnb_cu_ue_f1ap_id", "gnb_du_ue_f1ap_id", "rrc_delivery_status", "srb_id"})>>,
     <<PutIe(40, "gnb_cu_ue_f1ap_id", T("GnbCuUeF1apId")),
       PutIe(41, "gnb_du_ue_f1ap_id", T("GnbDuUeF1apId")),
       PutIe(185, "rrc_delivery_status", T("RrcDeliveryStatus")), PutIe(64, "srb_id", T("SrbId")),
       AppendIes>>)]
FromF1RemovalRequest ==
  [F1RemovalRequest |-> Codec(
     <<ReadIes(<<Ie(78, "transaction_id", T("TransactionId"))>>), Require({"transaction_id"})>>,
     <<PutIe(78, "transaction_id", T("TransactionId")), AppendIes>>),
   F1RemovalResponse |-> Codec(
     <<ReadIes(<<Ie(78, "transaction_id", T("TransactionId")),
       Ie(7, "criticality_diagnostics", T("CriticalityDiagnostics"))>>),
       Require({"transaction_id"})>>,
     <<PutIe(78, "transaction_id", T("TransactionId")),
       PutIeIf(7, "criticality_diagnostics", T("CriticalityDiagnostics")), AppendIes>>)]
FromF1RemovalFailure ==
  [F1RemovalFailure |-> Codec(
     <<ReadIes(<<Ie(78, "transaction_id", T("TransactionId")), Ie(0, "cause", T("Cause")),
       Ie(7, "criticality_diagnostics", T("CriticalityDiagnostics"))>>), Require({"transaction_id",
       "cause"})>>,
     <<PutIe(78, "transaction_id", T("TransactionId")), PutIe(0, "cause", T("Cause")),
       PutIeIf(7, "criticality_diagnostics", T("CriticalityDiagnostics")), AppendIes>>),
   TraceStart |-> Codec(
     <<ReadIes(<<Ie(40, "gnb_cu_ue_f1ap_id", T("GnbCuUeF1apId")),
       Ie(41, "gnb_du_ue_f1ap_id", T("GnbDuUeF1apId")),
       Ie(242, "trace_activation", T("TraceActivation"))>>), Require({"gnb_cu_ue_f1ap_id",
       "gnb_du_ue_f1ap_id", "trace_activation"})>>,
     <<PutIe(40, "gnb_cu_ue_f1ap_id", T("GnbCuUeF1apId")),
       PutIe(41, "gnb_du_ue_f1ap_id", T("GnbDuUeF1apId")),
       PutIe(242, "trace_activation", T("TraceActivation")), AppendIes>>)]
FromDeactivateTrace ==
  [DeactivateTrace |-> Codec(
     <<ReadIes(<<Ie(40, "gnb_cu_ue_f1ap_id", T("GnbCuUeF1apId")),
       Ie(41, "gnb_du_ue_f1ap_id", T("GnbDuUeF1apId")), Ie(243, "trace_id", T("TraceId"))>>),
       Require({"gnb_cu_ue_f1ap_id", "gnb_du_ue_f1ap_id", "trace_id"})>>,
     <<PutIe(40, "gnb_cu_ue_f1ap_id", T("GnbCuUeF1apId")),
       PutIe(41, "gnb_du_ue_f1ap_id", T("GnbDuUeF1apId")), PutIe(243, "trace_id", T("TraceId")),
       AppendIes>>)]
FromCellTrafficTrace ==
  [CellTrafficTrace |-> Codec(
     <<ReadIes(<<Ie(40, "gnb_cu_ue_f1ap_id", T("GnbCuUeF1apId")),
       Ie(41, "gnb_du_ue_f1ap_id", T("GnbDuUeF1apId")), Ie(243, "trace_id", T("TraceId")),
       Ie(378, "trace_collection_entity_ip_address", T("TransportLayerAddress")),
       Ie(379, "privacy_indicator", T("PrivacyIndicator")),
       Ie(380, "trace_collection_entity_uri", T("UriAddress"))>>), Require({"gnb_cu_ue_f1ap_id",
       "gnb_du_ue_f1ap_id", "trace_id", "trace_collection_entity_ip_address"})>>,
     <<PutIe(40, "gnb_cu_ue_f1ap_id", T("GnbCuUeF1apId")),
       PutIe(41, "gnb_du_ue_f1ap_id", T("GnbDuUeF1apId")), PutIe(243, "trace_id", T("TraceId")),
       PutIe(378, "trace_collection_entity_ip_address", T("TransportLayerAddress")),
       PutIeIf(379, "privacy_indicator", T("PrivacyIndicator")),
       PutIeIf(380, "trace_collection_entity_uri", T("UriAddress")), AppendIes>>)]
FromDuCuRadioInformationTransfer ==
  [DuCuRadioInformationTransfer |-> Codec(
     <<ReadIes(<<Ie(78, "transaction_id", T("TransactionId")),
       Ie(249, "du_cu_radio_information_type", T("DuCuRadioInformationType"))>>),
       Require({"transaction_id", "du_cu_radio_information_type"})>>,
     <<PutIe(78, "transaction_id", T("TransactionId")),
       PutIe(249, "du_cu_radio_information_type", T("DuCuRadioInformationType")), AppendIes>>),
   CuDuRadioInformationTransfer |-> Codec(
     <<ReadIes(<<Ie(78, "transaction_id", T("TransactionId")),
       Ie(250, "cu_du_radio_information_type", T("CuDuRadioInformationType"))>>),
       Require({"transaction_id", "cu_du_radio_information_type"})>>,
     <<PutIe(78, "transaction_id", T("TransactionId")),
       PutIe(250, "cu_du_radio_information_type", T("CuDuRadioInformationType")), AppendIes>>)]
FromBapMappingConfiguration ==
  [BapMappingConfiguration |-> Codec(
     <<ReadIes(<<Ie(78, "transaction_id", T("TransactionId")),
       Ie(283, "bh_routing_information_added_list", T("BhRoutingInformationAddedList")),
       Ie(285, "bh_routing_information_removed_list", T("BhRoutingInformationRemovedList")),
       Ie(299, "traffic_mapping_information", T("TrafficMappingInfo"))>>),
       Require({"transaction_id"})>>,
     <<PutIe(78, "transaction_id", T("TransactionId")),
       PutIeIf(283, "bh_routing_information_added_list", T("BhRoutingInformationAddedList")),
       PutIeIf(285, "bh_routing_information_removed_list", T("BhRoutingInformationRemovedList")),
       PutIeIf(299, "traffic_mapping_information", T("TrafficMappingInfo")), AppendIes>>),
   BhRoutingInformationAddedList |-> Codec(
     <<Get("0", NonEmpty(1, 1024, InIe(T("BhRoutingInformationAddedListItem"))))>>,
     <<Put("0", NonEmpty(1, 1024, InIe(T("BhRoutingInformationAddedListItem"))))>>)]
FromBhRoutingInformationRemovedList ==
  [BhRoutingInformationRemovedList |-> Codec(
     <<Get("0", NonEmpty(1, 1024, InIe(T("BhRoutingInformationRemovedListItem"))))>>,
     <<Put("0", NonEmpty(1, 1024, InIe(T("BhRoutingInformationRemovedListItem"))))>>),
   BapMappingConfigurationAcknowledge |-> Codec(
     <<ReadIes(<<Ie(78, "transaction_id", T("TransactionId")),
       Ie(7, "criticality_diagnostics", T("CriticalityDiagnostics"))>>),
       Require({"transaction_id"})>>,
     <<PutIe(78, "transaction_id", T("TransactionId")),
       PutIeIf(7, "criticality_diagnostics", T("CriticalityDiagnostics")), AppendIes>>)]
FromBapMappingConfigurationFailure ==
  [BapMappingConfigurationFailure |-> Codec(
     <<ReadIes(<<Ie(78, "transaction_id", T("TransactionId")), Ie(0, "cause", T("Cause")),
       Ie(77, "time_to_wait", T("TimeToWait")),
       Ie(7, "criticality_diagnostics", T("CriticalityDiagnostics"))>>), Require({"transaction_id",
       "cause"})>>,
     <<PutIe(78, "transaction_id", T("TransactionId")), PutIe(0, "cause", T("Cause")),
       PutIeIf(77, "time_to_wait", T("TimeToWait")),
       PutIeIf(7, "criticality_diagnostics", T("CriticalityDiagnostics")), AppendIes>>),
   GnbDuResourceConfiguration |-> Codec(
     <<ReadIes(<<Ie(78, "transaction_id", T("TransactionId")),
       Ie(288, "activated_cells_to_be_updated_list", T("ActivatedCellsToBeUpdatedList")),
       Ie(289, "child_nodes_list", T("ChildNodesList"))>>), Require({"transaction_id"})>>,
     <<PutIe(78, "transaction_id", T("TransactionId")),
       PutIeIf(288, "activated_cells_to_be_updated_list", T("ActivatedCellsToBeUpdatedList")),
       PutIeIf(289, "child_nodes_list", T("ChildNodesList")), AppendIes>>)]
FromGnbDuResourceConfigurationAcknowledge ==
  [GnbDuResourceConfigurationAcknowledge |-> Codec(
     <<ReadIes(<<Ie(78, "transaction_id", T("TransactionId")),
       Ie(7, "criticality_diagnostics", T("CriticalityDiagnostics"))>>),
       Require({"transaction_id"})>>,
     <<PutIe(78, "transaction_id", T("TransactionId")),
       PutIeIf(7, "criticality_diagnostics", T("CriticalityDiagnostics")), AppendIes>>),
   GnbDuResourceConfigurationFailure |-> Codec(
     <<ReadIes(<<Ie(78, "transaction_id", T("TransactionId")), Ie(0, "cause", T("Cause")),
       Ie(77, "time_to_wait", T("TimeToWait")),
       Ie(7, "criticality_diagnostics", T("CriticalityDiagnostics"))>>), Require({"transaction_id",
       "cause"})>>,
     <<PutIe(78, "transaction_id", T("TransactionId")), PutIe(0, "cause", T("Cause")),
       PutIeIf(77, "time_to_wait", T("TimeToWait")),
       PutIeIf(7, "criticality_diagnostics", T("CriticalityDiagnostics")), AppendIes>>)]
FromIabtnlAddressRequest ==
  [IabtnlAddressRequest |-> Codec(
     <<ReadIes(<<Ie(78, "transaction_id", T("TransactionId")),
       Ie(297, "ia_bv_4_addresses_requested", T("IaBv4AddressesRequested")),
       Ie(296, "iabi_pv_6_request_type", T("IabiPv6RequestType")),
       Ie(292, "iab_tnl_addresses_to_remove_list", T("IabTnlAddressesToRemoveList"))>>),
       Require({"transaction_id"})>>,
     <<PutIe(78, "transaction_id", T("TransactionId")),
       PutIeIf(297, "ia_bv_4_addresses_requested", T("IaBv4AddressesRequested")),
       PutIeIf(296, "iabi_pv_6_request_type", T("IabiPv6RequestType")),
       PutIeIf(292, "iab_tnl_addresses_to_remove_list", T("IabTnlAddressesToRemoveList")),
       AppendIes>>),
   IabTnlAddressesToRemoveList |-> Codec(
     <<Get("0", NonEmpty(1, 1024, InIe(T("IabTnlAddressesToRemoveItem"))))>>,
     <<Put("0", NonEmpty(1, 1024, InIe(T("IabTnlAddressesToRemoveItem"))))>>)]
FromIabtnlAddressResponse ==
  [IabtnlAddressResponse |-> Codec(
     <<ReadIes(<<Ie(78, "transaction_id", T("TransactionId")),
       Ie(294, "iab_allocated_tnl_address_list", T("IabAllocatedTnlAddressList"))>>),
       Require({"transaction_id", "iab_allocated_tnl_address_list"})>>,
     <<PutIe(78, "transaction_id", T("TransactionId")),
       PutIe(294, "iab_allocated_tnl_address_list", T("IabAllocatedTnlAddressList")), AppendIes>>),
   IabAllocatedTnlAddressList |-> Codec(
     <<Get("0", NonEmpty(1, 1024, InIe(T("IabAllocatedTnlAddressItem"))))>>,
     <<Put("0", NonEmpty(1, 1024, InIe(T("IabAllocatedTnlAddressItem"))))>>)]
FromIabtnlAddressFailure ==
  [IabtnlAddressFailure |-> Codec(
     <<ReadIes(<<Ie(78, "transaction_id", T("TransactionId")), Ie(0, "cause", T("Cause")),
       Ie(77, "time_to_wait", T("TimeToWait")),
       Ie(7, "criticality_diagnostics", T("CriticalityDiagnostics"))>>), Require({"transaction_id",
       "cause"})>>,
     <<PutIe(78, "transaction_id", T("TransactionId")), PutIe(0, "cause", T("Cause")),
       PutIeIf(77, "time_to_wait", T("TimeToWait")),
       PutIeIf(7, "criticality_diagnostics", T("CriticalityDiagnostics")), AppendIes>>),
   IabupConfigurationUpdateRequest |-> Codec(
     <<ReadIes(<<Ie(78, "transaction_id", T("TransactionId")),
       Ie(300, "ul_up_tnl_information_to_update_list", T("UlUpTnlInformationToUpdateList")),
       Ie(302, "ul_up_tnl_address_to_update_list", T("UlUpTnlAddressToUpdateList"))>>),
       Require({"transaction_id"})>>,
     <<PutIe(78, "transaction_id", T("TransactionId")),
       PutIeIf(300, "ul_up_tnl_information_to_update_list", T("UlUpTnlInformationToUpdateList")),
       PutIeIf(302, "ul_up_tnl_address_to_update_list", T("UlUpTnlAddressToUpdateList")),
       AppendIes>>)]
FromUlUpTnlInformationToUpdateList ==
  [UlUpTnlInformationToUpdateList |-> Codec(
     <<Get("0", NonEmpty(1, 32678, InIe(T("UlUpTnlInformationToUpdateListItem"))))>>,
     <<Put("0", NonEmpty(1, 32678, InIe(T("UlUpTnlInformationToUpdateListItem"))))>>),
   UlUpTnlAddressToUpdateList |-> Codec(
     <<Get("0", NonEmpty(1, 8, InIe(T("UlUpTnlAddressToUpdateListItem"))))>>,
     <<Put("0", NonEmpty(1, 8, InIe(T("UlUpTnlAddressToUpdateListItem"))))>>),
   IabupConfigurationUpdateResponse |-> Codec(
     <<ReadIes(<<Ie(78, "transaction_id", T("TransactionId")),
       Ie(7, "criticality_diagnostics", T("CriticalityDiagnostics")),
       Ie(304, "dl_up_tnl_address_to_update_list", T("DlUpTnlAddressToUpdateList"))>>),
       Require({"transaction_id"})>>,
     <<PutIe(78, "transaction_id", T("TransactionId")),
       PutIeIf(7, "criticality_diagnostics", T("CriticalityDiagnostics")),
       PutIeIf(304, "dl_up_tnl_address_to_update_list", T("DlUpTnlAddressToUpdateList")),
       AppendIes>>)]
FromDlUpTnlAddressToUpdateList ==
  [DlUpTnlAddressToUpdateList |-> Codec(
     <<Get("0", NonEmpty(1, 8, InIe(T("DlUpTnlAddressToUpdateListItem"))))>>,
     <<Put("0", NonEmpty(1, 8, InIe(T("DlUpTnlAddressToUpdateListItem"))))>>),
   IabupConfigurationUpdateFailure |-> Codec(
     <<ReadIes(<<Ie(78, "transaction_id", T("TransactionId")), Ie(0, "cause", T("Cause")),
       Ie(77, "time_to_wait", T("TimeToWait")),
       Ie(7, "criticality_diagnostics", T("CriticalityDiagnostics"))>>), Require({"transaction_id",
       "cause"})>>,
     <<PutIe(78, "transaction_id", T("TransactionId")), PutIe(0, "cause", T("Cause")),
       PutIeIf(77, "time_to_wait", T("TimeToWait")),
       PutIeIf(7, "criticality_diagnostics", T("CriticalityDiagnostics")), AppendIes>>)]
FromResourceStatusRequest ==
  [ResourceStatusRequest |-> Codec(
     <<ReadIes(<<Ie(78, "transaction_id", T("TransactionId")),
       Ie(345, "gnb_cu_measurement_id", T("GnbCuMeasurementId")),
       Ie(346, "gnb_du_measurement_id", T("GnbDuMeasurementId")),
       Ie(347, "registration_request", T("RegistrationRequest")),
       Ie(348, "report_characteristics", T("ReportCharacteristics")),
       Ie(349, "cell_to_report_list", T("CellToReportList")),
       Ie(352, "reporting_periodicity", T("ReportingPeriodicity"))>>), Require({"transaction_id",
       "gnb_cu_measurement_id", "registration_request"})>>,
     <<PutIe(78, "transaction_id", T("TransactionId")),
       PutIe(345, "gnb_cu_measurement_id", T("GnbCuMeasurementId")),
       PutIeIf(346, "gnb_du_measurement_id", T("GnbDuMeasurementId")),
       PutIe(347, "registration_request", T("RegistrationRequest")),
       PutIeIf(348, "report_characteristics", T("ReportCharacteristics")),
       PutIeIf(349, "cell_to_report_list", T("CellToReportList")),
       PutIeIf(352, "reporting_periodicity", T("ReportingPeriodicity")), AppendIes>>)]
FromResourceStatusResponse ==
  [ResourceStatusResponse |-> Codec(
     <<ReadIes(<<Ie(78, "transaction_id", T("TransactionId")),
       Ie(345, "gnb_cu_measurement_id", T("GnbCuMeasurementId")),
       Ie(346, "gnb_du_measurement_id", T("GnbDuMeasurementId")),
       Ie(7, "criticality_diagnostics", T("CriticalityDiagnostics"))>>), Require({"transaction_id",
       "gnb_cu_measurement_id", "gnb_du_measurement_id"})>>,
     <<PutIe(78, "transaction_id", T("TransactionId")),
       PutIe(345, "gnb_cu_measurement_id", T("GnbCuMeasurementId")),
       PutIe(346, "gnb_du_measurement_id", T("GnbDuMeasurementId")),
       PutIeIf(7, "criticality_diagnostics", T("CriticalityDiagnostics")), AppendIes>>)]
FromResourceStatusFailure ==
  [ResourceStatusFailure |-> Codec(
     <<ReadIes(<<Ie(78, "transaction_id", T("TransactionId")),
       Ie(345, "gnb_cu_measurement_id", T("GnbCuMeasurementId")),
       Ie(346, "gnb_du_measurement_id", T("GnbDuMeasurementId")), Ie(0, "cause", T("Cause")),
       Ie(7, "criticality_diagnostics", T("CriticalityDiagnostics"))>>), Require({"transaction_id",
       "gnb_cu_measurement_id", "gnb_du_measurement_id", "cause"})>>,
     <<PutIe(78, "transaction_id", T("TransactionId")),
       PutIe(345, "gnb_cu_measurement_id", T("GnbCuMeasurementId")),
       PutIe(346, "gnb_du_measurement_id", T("GnbDuMeasurementId")), PutIe(0, "cause", T("Cause")),
       PutIeIf(7, "criticality_diagnostics", T("CriticalityDiagnostics")), AppendIes>>)]
FromResourceStatusUpdate ==
  [ResourceStatusUpdate |-> Codec(
     <<ReadIes(<<Ie(78, "transaction_id", T("TransactionId")),
       Ie(345, "gnb_cu_measurement_id", T("GnbCuMeasurementId")),
       Ie(346, "gnb_du_measurement_id", T("GnbDuMeasurementId")),
       Ie(351, "hardware_load_indicator", T("HardwareLoadIndicator")),
       Ie(353, "tnl_capacity_indicator", T("TnlCapacityIndicator")),
       Ie(350, "cell_measurement_result_list", T("CellMeasurementResultList"))>>),
       Require({"transaction_id", "gnb_cu_measurement_id", "gnb_du_measurement_id"})>>,
     <<PutIe(78, "transaction_id", T("TransactionId")),
       PutIe(345, "gnb_cu_measurement_id", T("GnbCuMeasurementId")),
       PutIe(346, "gnb_du_measurement_id", T("GnbDuMeasurementId")),
       PutIeIf(351, "hardware_load_indicator", T("HardwareLoadIndicator")),
       PutIeIf(353, "tnl_capacity_indicator", T("TnlCapacityIndicator")),
       PutIeIf(350, "cell_measurement_result_list", T("CellMeasurementResultList")), AppendIes>>)]
FromAccessAndMobilityIndication ==
  [AccessAndMobilityIndication |-> Codec(
     <<ReadIes(<<Ie(78, "transaction_id", T("TransactionId")),
       Ie(359, "rach_report_information_list", T("RachReportInformationList")),
       Ie(360, "rlf_report_information_list", T("RlfReportInformationList"))>>),
       Require({"transaction_id"})>>,
     <<PutIe(78, "transaction_id", T("TransactionId")),
       PutIeIf(359, "rach_report_information_list", T("RachReportInformationList")),
       PutIeIf(360, "rlf_report_information_list", T("RlfReportInformationList")), AppendIes>>),
   ReferenceTimeInformationReportingControl |-> Codec(
     <<ReadIes(<<Ie(78, "transaction_id", T("TransactionId")),
       Ie(365, "reporting_request_type", T("ReportingRequestType"))>>), Require({"transaction_id",
       "reporting_request_type"})>>,
     <<PutIe(78, "transaction_id", T("TransactionId")),
       PutIe(365, "reporting_request_type", T("ReportingRequestType")), AppendIes>>)]
FromReferenceTimeInformationReport ==
  [ReferenceTimeInformationReport |-> Codec(
     <<ReadIes(<<Ie(78, "transaction_id", T("TransactionId")),
       Ie(366, "time_reference_information", T("TimeReferenceInformation"))>>),
       Require({"transaction_id", "time_reference_information"})>>,
     <<PutIe(78, "transaction_id", T("TransactionId")),
       PutIe(366, "time_reference_information", T("TimeReferenceInformation")), AppendIes>>),
   AccessSuccess |-> Codec(
     <<ReadIes(<<Ie(40, "gnb_cu_ue_f1ap_id", T("GnbCuUeF1apId")),
       Ie(41, "gnb_du_ue_f1ap_id", T("GnbDuUeF1apId")), Ie(111, "nr_cgi", T("NrCgi"))>>),
       Require({"gnb_cu_ue_f1ap_id", "gnb_du_ue_f1ap_id", "nr_cgi"})>>,
     <<PutIe(40, "gnb_cu_ue_f1ap_id", T("GnbCuUeF1apId")),
       PutIe(41, "gnb_du_ue_f1ap_id", T("GnbDuUeF1apId")), PutIe(111, "nr_cgi", T("NrCgi")),
       AppendIes>>)]
FromPositioningAssistanceInformationControl ==
  [PositioningAssistanceInformationControl |-> Codec(
     <<ReadIes(<<Ie(78, "transaction_id", T("TransactionId")),
       Ie(392, "pos_assistance_information", T("PosAssistanceInformation")),
       Ie(393, "pos_broadcast", T("PosBroadcast")),
       Ie(406, "positioning_broadcast_cells", T("PositioningBroadcastCells")),
       Ie(394, "routing_id", T("RoutingId"))>>), Require({"transaction_id"})>>,
     <<PutIe(78, "transaction_id", T("TransactionId")),
       PutIeIf(392, "pos_assistance_information", T("PosAssistanceInformation")),
       PutIeIf(393, "pos_broadcast", T("PosBroadcast")),
       PutIeIf(406, "positioning_broadcast_cells", T("PositioningBroadcastCells")),
       PutIeIf(394, "routing_id", T("RoutingId")), AppendIes>>)]
PositioningMeasurementRequestDecode ==
  <<ReadIes(<<Ie(78, "transaction_id", T("TransactionId")),
    Ie(402, "lmf_measurement_id", T("LmfMeasurementId")),
    Ie(411, "ran_measurement_id", T("RanMeasurementId")),
    Ie(422, "trp_measurement_request_list", T("TrpMeasurementRequestList")),
    Ie(408, "pos_report_characteristics", T("PosReportCharacteristics")),
    Ie(409, "pos_measurement_periodicity", T("MeasurementPeriodicity")),
    Ie(396, "pos_measurement_quantities", T("PosMeasurementQuantities")),
    Ie(419, "sfn_initialisation_time", T("RelativeTime1900")),
    Ie(407, "srs_configuration", T("SrsConfiguration")),
    Ie(423, "measurement_beam_info_request", T("MeasurementBeamInfoRequest")),
    Ie(420, "system_frame_number", T("SystemFrameNumber")),
    Ie(421, "slot_number", T("SlotNumber"))>>), Require({"transaction_id", "lmf_measurement_id",
    "ran_measurement_id", "trp_measurement_request_list", "pos_report_characteristics",
    "pos_measurement_quantities"})>>
PositioningMeasurementRequestEncode ==
  <<PutIe(78, "transaction_id", T("TransactionId")),
    PutIe(402, "lmf_measurement_id", T("LmfMeasurementId")),
    PutIe(411, "ran_measurement_id", T("RanMeasurementId")),
    PutIe(422, "trp_measurement_request_list", T("TrpMeasurementRequestList")),
    PutIe(408, "pos_report_characteristics", T("PosReportCharacteristics")),
    PutIeIf(409, "pos_measurement_periodicity", T("MeasurementPeriodicity")),
    PutIe(396, "pos_measurement_quantities", T("PosMeasurementQuantities")),
    PutIeIf(419, "sfn_initialisation_time", T("RelativeTime1900")),
    PutIeIf(407, "srs_configuration", T("SrsConfiguration")),
    PutIeIf(423, "measurement_beam_info_request", T("MeasurementBeamInfoRequest")),
    PutIeIf(420, "system_frame_number", T("SystemFrameNumber")),
    PutIeIf(421, "slot_number", T("SlotNumber")), AppendIes>>
FromPositioningAssistanceInformationFeedback ==
  [PositioningAssistanceInformationFeedback |-> Codec(
     <<ReadIes(<<Ie(78, "transaction_id", T("TransactionId")),
       Ie(395, "pos_assistance_information_failure_list", T("PosAssistanceInformationFailureList")),
       Ie(406, "positioning_broadcast_cells", T("PositioningBroadcastCells")),
       Ie(394, "routing_id", T("RoutingId")),
       Ie(7, "criticality_diagnostics", T("CriticalityDiagnostics"))>>),
       Require({"transaction_id"})>>,
     <<PutIe(78, "transaction_id", T("TransactionId")),
       PutIeIf(395, "pos_assistance_information_failure_list", T("PosAssistanceInformationFailureList")),
       PutIeIf(406, "positioning_broadcast_cells", T("PositioningBroadcastCells")),
       PutIeIf(394, "routing_id", T("RoutingId")),
       PutIeIf(7, "criticality_diagnostics", T("CriticalityDiagnostics")), AppendIes>>),
   PositioningMeasurementRequest |-> Codec(PositioningMeasurementRequestDecode, PositioningMeasurementRequestEncode)]
FromPositioningMeasurementResponse ==
  [PositioningMeasurementResponse |-> Codec(
     <<ReadIes(<<Ie(78, "transaction_id", T("TransactionId")),
       Ie(402, "lmf_measurement_id", T("LmfMeasurementId")),
       Ie(411, "ran_measurement_id", T("RanMeasurementId")),
       Ie(397, "pos_measurement_result_list", T("PosMeasurementResultList")),
       Ie(7, "criticality_diagnostics", T("CriticalityDiagnostics"))>>), Require({"transaction_id",
       "lmf_measurement_id", "ran_measurement_id"})>>,
     <<PutIe(78, "transaction_id", T("TransactionId")),
       PutIe(402, "lmf_measurement_id", T("LmfMeasurementId")),
       PutIe(411, "ran_measurement_id", T("RanMeasurementId")),
       PutIeIf(397, "pos_measurement_result_list", T("PosMeasurementResultList")),
       PutIeIf(7, "criticality_diagnostics", T("CriticalityDiagnostics")), AppendIes>>)]
FromPositioningMeasurementFailure ==
  [PositioningMeasurementFailure |-> Codec(
     <<ReadIes(<<Ie(78, "transaction_id", T("TransactionId")),
       Ie(402, "lmf_measurement_id", T("LmfMeasurementId")),
       Ie(411, "ran_measurement_id", T("RanMeasurementId")), Ie(0, "cause", T("Cause")),
       Ie(7, "criticality_diagnostics", T("CriticalityDiagnostics"))>>), Require({"transaction_id",
       "lmf_measurement_id", "ran_measurement_id", "cause"})>>,
     <<PutIe(78, "transaction_id", T("TransactionId")),
       PutIe(402, "lmf_measurement_id", T("LmfMeasurementId")),
       PutIe(411, "ran_measurement_id", T("RanMeasurementId")), PutIe(0, "cause", T("Cause")),
       PutIeIf(7, "criticality_diagnostics", T("CriticalityDiagnostics")), AppendIes>>)]
FromPositioningMeasurementReport ==
  [PositioningMeasurementReport |-> Codec(
     <<ReadIes(<<Ie(78, "transaction_id", T("TransactionId")),
       Ie(402, "lmf_measurement_id", T("LmfMeasurementId")),
       Ie(411, "ran_measurement_id", T("RanMeasurementId")),
       Ie(397, "pos_measurement_result_list", T("PosMeasurementResultList"))>>),
       Require({"transaction_id", "lmf_measurement_id", "ran_measurement_id",
       "pos_measurement_result_list"})>>,
     <<PutIe(78, "transaction_id", T("TransactionId")),
       PutIe(402, "lmf_measurement_id", T("LmfMeasurementId")),
       PutIe(411, "ran_measurement_id", T("RanMeasurementId")),
       PutIe(397, "pos_measurement_result_list", T("PosMeasurementResultList")), AppendIes>>),
   PositioningMeasurementAbort |-> Codec(
     <<ReadIes(<<Ie(78, "transaction_id", T("TransactionId")),
       Ie(402, "lmf_measurement_id", T("LmfMeasurementId")),
       Ie(411, "ran_measurement_id", T("RanMeasurementId"))>>), Require({"transaction_id",
       "lmf_measurement_id", "ran_measurement_id"})>>,
     <<PutIe(78, "transaction_id", T("TransactionId")),
       PutIe(402, "lmf_measurement_id", T("LmfMeasurementId")),
       PutIe(411, "ran_measurement_id", T("RanMeasurementId")), AppendIes>>)]
FromPositioningMeasurementFailureIndication ==
  [PositioningMeasurementFailureIndication |-> Codec(
     <<ReadIes(<<Ie(78, "transaction_id", T("TransactionId")),
       Ie(402, "lmf_measurement_id", T("LmfMeasurementId")),
       Ie(411, "ran_measurement_id", T("RanMeasurementId")), Ie(0, "cause", T("Cause"))>>),
       Require({"transaction_id", "lmf_measurement_id", "ran_measurement_id", "cause"})>>,
     <<PutIe(78, "transaction_id", T("TransactionId")),
       PutIe(402, "lmf_measurement_id", T("LmfMeasurementId")),
       PutIe(411, "ran_measurement_id", T("RanMeasurementId")), PutIe(0, "cause", T("Cause")),
       AppendIes>>)]
FromPositioningMeasurementUpdate ==
  [PositioningMeasurementUpdate |-> Codec(
     <<ReadIes(<<Ie(78, "transaction_id", T("TransactionId")),
       Ie(402, "lmf_measurement_id", T("LmfMeasurementId")),
       Ie(411, "ran_measurement_id", T("RanMeasurementId")),
       Ie(407, "srs_configuration", T("SrsConfiguration"))>>), Require({"transaction_id",
       "lmf_measurement_id", "ran_measurement_id"})>>,
     <<PutIe(78, "transaction_id", T("TransactionId")),
       PutIe(402, "lmf_measurement_id", T("LmfMeasurementId")),
       PutIe(411, "ran_measurement_id", T("RanMeasurementId")),
       PutIeIf(407, "srs_configuration", T("SrsConfiguration")), AppendIes>>),
   TrpInformationRequest |-> Codec(
     <<ReadIes(<<Ie(78, "transaction_id", T("TransactionId")), Ie(410, "trp_list", T("TrpList")),
       Ie(398, "trp_information_type_list_trp_req", T("TrpInformationTypeListTrpReq"))>>),
       Require({"transaction_id", "trp_information_type_list_trp_req"})>>,
     <<PutIe(78, "transaction_id", T("TransactionId")), PutIeIf(410, "trp_list", T("TrpList")),
       PutIe(398, "trp_information_type_list_trp_req", T("TrpInformationTypeListTrpReq")),
       AppendIes>>)]
FromTrpInformationTypeListTrpReq ==
  [TrpInformationTypeListTrpReq |-> Codec(
     <<Get("0", NonEmpty(1, 64, InIe(T("TrpInformationTypeItem"))))>>,
     <<Put("0", NonEmpty(1, 64, InIe(T("TrpInformationTypeItem"))))>>),
   TrpInformationResponse |-> Codec(
     <<ReadIes(<<Ie(78, "transaction_id", T("TransactionId")),
       Ie(400, "trp_information_list_trp_resp", T("TrpInformationListTrpResp")),
       Ie(7, "criticality_diagnostics", T("CriticalityDiagnostics"))>>), Require({"transaction_id",
       "trp_information_list_trp_resp"})>>,
     <<PutIe(78, "transaction_id", T("TransactionId")),
       PutIe(400, "trp_information_list_trp_resp", T("TrpInformationListTrpResp")),
       PutIeIf(7, "criticality_diagnostics", T("CriticalityDiagnostics")), AppendIes>>)]
FromTrpInformationListTrpResp ==
  [TrpInformationListTrpResp |-> Codec(
     <<Get("0", NonEmpty(1, 65535, InIe(T("TrpInformationItem"))))>>,
     <<Put("0", NonEmpty(1, 65535, InIe(T("TrpInformationItem"))))>>),
   TrpInformationFailure |-> Codec(
     <<ReadIes(<<Ie(78, "transaction_id", T("TransactionId")), Ie(0, "cause", T("Cause")),
       Ie(7, "criticality_diagnostics", T("CriticalityDiagnostics"))>>), Require({"transaction_id",
       "cause"})>>,
     <<PutIe(78, "transaction_id", T("TransactionId")), PutIe(0, "cause", T("Cause")),
       PutIeIf(7, "criticality_diagnostics", T("CriticalityDiagnostics")), AppendIes>>)]
FromPositioningInformationRequest ==
  [PositioningInformationRequest |-> Codec(
     <<ReadIes(<<Ie(40, "gnb_cu_ue_f1ap_id", T("GnbCuUeF1apId")),
       Ie(41, "gnb_du_ue_f1ap_id", T("GnbDuUeF1apId")),
       Ie(391, "requested_srs_transmission_characteristics", T("RequestedSrsTransmissionCharacteristics"))>>),
       Require({"gnb_cu_ue_f1ap_id", "gnb_du_ue_f1ap_id"})>>,
     <<PutIe(40, "gnb_cu_ue_f1ap_id", T("GnbCuUeF1apId")),
       PutIe(41, "gnb_du_ue_f1ap_id", T("GnbDuUeF1apId")),
       PutIeIf(391, "requested_srs_transmission_characteristics", T("RequestedSrsTransmissionCharacteristics")),
       AppendIes>>)]
FromPositioningInformationResponse ==
  [PositioningInformationResponse |-> Codec(
     <<ReadIes(<<Ie(40, "gnb_cu_ue_f1ap_id", T("GnbCuUeF1apId")),
       Ie(41, "gnb_du_ue_f1ap_id", T("GnbDuUeF1apId")),
       Ie(407, "srs_configuration", T("SrsConfiguration")),
       Ie(419, "sfn_initialisation_time", T("RelativeTime1900")),
       Ie(7, "criticality_diagnostics", T("CriticalityDiagnostics"))>>),
       Require({"gnb_cu_ue_f1ap_id", "gnb_du_ue_f1ap_id"})>>,
     <<PutIe(40, "gnb_cu_ue_f1ap_id", T("GnbCuUeF1apId")),
       PutIe(41, "gnb_du_ue_f1ap_id", T("GnbDuUeF1apId")),
       PutIeIf(407, "srs_configuration", T("SrsConfiguration")),
       PutIeIf(419, "sfn_initialisation_time", T("RelativeTime1900")),
       PutIeIf(7, "criticality_diagnostics", T("CriticalityDiagnostics")), AppendIes>>)]
FromPositioningInformationFailure ==
  [PositioningInformationFailure |-> Codec(
     <<ReadIes(<<Ie(40, "gnb_cu_ue_f1ap_id", T("GnbCuUeF1apId")),
       Ie(41, "gnb_du_ue_f1ap_id", T("GnbDuUeF1apId")), Ie(0, "cause", T("Cause")),
       Ie(7, "criticality_diagnostics", T("CriticalityDiagnostics"))>>),
       Require({"gnb_cu_ue_f1ap_id", "gnb_du_ue_f1ap_id", "cause"})>>,
     <<PutIe(40, "gnb_cu_ue_f1ap_id", T("GnbCuUeF1apId")),
       PutIe(41, "gnb_du_ue_f1ap_id", T("GnbDuUeF1apId")), PutIe(0, "cause", T("Cause")),
       PutIeIf(7, "criticality_diagnostics", T("CriticalityDiagnostics")), AppendIes>>)]
FromPositioningActivationRequest ==
  [PositioningActivationRequest |-> Codec(
     <<ReadIes(<<Ie(40, "gnb_cu_ue_f1ap_id", T("GnbCuUeF1apId")),
       Ie(41, "gnb_du_ue_f1ap_id", T("GnbDuUeF1apId")), Ie(403, "srs_type", T("SrsType")),
       Ie(404, "activation_time", T("RelativeTime1900"))>>), Require({"gnb_cu_ue_f1ap_id",
       "gnb_du_ue_f1ap_id", "srs_type"})>>,
     <<PutIe(40, "gnb_cu_ue_f1ap_id", T("GnbCuUeF1apId")),
       PutIe(41, "gnb_du_ue_f1ap_id", T("GnbDuUeF1apId")), PutIe(403, "srs_type", T("SrsType")),
       PutIeIf(404, "activation_time", T("RelativeTime1900")), AppendIes>>),
   SrsType |-> Codec(
     <<ReadChoice(0, 2, FALSE, <<Alt(0, "SemipersistentSrs", T("SemipersistentSrs")),
       Alt(1, "AperiodicSrs", T("AperiodicSrs")), AltIes(2, <<>>)>>)>>,
     <<WriteChoice(0, 2, FALSE, <<Arm("SemipersistentSrs", 0, T("SemipersistentSrs")),
       Arm("AperiodicSrs", 1, T("AperiodicSrs"))>>)>>)]
FromSemipersistentSrs ==
  [SemipersistentSrs |-> Codec(
     <<ReadHeader(TRUE, 2), Get("srs_resource_set_id", T("SrsResourceSetId")),
       GetIf(1, "srs_spatial_relation", T("SpatialRelationInfo")), ReadExtensions(2, <<>>)>>,
     <<WriteHeader(TRUE, <<"srs_spatial_relation", "false">>),
       Put("srs_resource_set_id", T("SrsResourceSetId")),
       PutIf("srs_spatial_relation", T("SpatialRelationInfo"))>>),
   AperiodicSrs |-> Codec(
     <<ReadHeader(TRUE, 2), Get("aperiodic", T("Aperiodic")),
       GetIf(1, "srs_resource_trigger", T("SrsResourceTrigger")), ReadExtensions(2, <<>>)>>,
     <<WriteHeader(TRUE, <<"srs_resource_trigger", "false">>), Put("aperiodic", T("Aperiodic")),
       PutIf("srs_resource_trigger", T("SrsResourceTrigger"))>>)]
FromPositioningActivationResponse ==
  [PositioningActivationResponse |-> Codec(
     <<ReadIes(<<Ie(40, "gnb_cu_ue_f1ap_id", T("GnbCuUeF1apId")),
       Ie(41, "gnb_du_ue_f1ap_id", T("GnbDuUeF1apId")),
       Ie(420, "system_frame_number", T("SystemFrameNumber")),
       Ie(421, "slot_number", T("SlotNumber")),
       Ie(7, "criticality_diagnostics", T("CriticalityDiagnostics"))>>),
       Require({"gnb_cu_ue_f1ap_id", "gnb_du_ue_f1ap_id"})>>,
     <<PutIe(40, "gnb_cu_ue_f1ap_id", T("GnbCuUeF1apId")),
       PutIe(41, "gnb_du_ue_f1ap_id", T("GnbDuUeF1apId")),
       PutIeIf(420, "system_frame_number", T("SystemFrameNumber")),
       PutIeIf(421, "slot_number", T("SlotNumber")),
       PutIeIf(7, "criticality_diagnostics", T("CriticalityDiagnostics")), AppendIes>>)]
FromPositioningActivationFailure ==
  [PositioningActivationFailure |-> Codec(
     <<ReadIes(<<Ie(40, "gnb_cu_ue_f1ap_id", T("GnbCuUeF1apId")),
       Ie(41, "gnb_du_ue_f1ap_id", T("GnbDuUeF1apId")), Ie(0, "cause", T("Cause")),
       Ie(7, "criticality_diagnostics", T("CriticalityDiagnostics"))>>),
       Require({"gnb_cu_ue_f1ap_id", "gnb_du_ue_f1ap_id", "cause"})>>,
     <<PutIe(40, "gnb_cu_ue_f1ap_id", T("GnbCuUeF1apId")),
       PutIe(41, "gnb_du_ue_f1ap_id", T("GnbDuUeF1apId")), PutIe(0, "cause", T("Cause")),
       PutIeIf(7, "criticality_diagnostics", T("CriticalityDiagnostics")), AppendIes>>),
   PositioningDeactivation |-> Codec(
     <<ReadIes(<<Ie(40, "gnb_cu_ue_f1ap_id", T("GnbCuUeF1apId")),
       Ie(41, "gnb_du_ue_f1ap_id", T("GnbDuUeF1apId")),
       Ie(405, "abort_transmission", T("AbortTransmission"))>>), Require({"gnb_cu_ue_f1ap_id",
       "gnb_du_ue_f1ap_id", "abort_transmission"})>>,
     <<PutIe(40, "gnb_cu_ue_f1ap_id", T("GnbCuUeF1apId")),
       PutIe(41, "gnb_du_ue_f1ap_id", T("GnbDuUeF1apId")),
       PutIe(405, "abort_transmission", T("AbortTransmission")), AppendIes>>)]
FromPositioningInformationUpdate ==
  [PositioningInformationUpdate |-> Codec(
     <<ReadIes(<<Ie(40, "gnb_cu_ue_f1ap_id", T("GnbCuUeF1apId")),
       Ie(41, "gnb_du_ue_f1ap_id", T("GnbDuUeF1apId")),
       Ie(407, "srs_configuration", T("SrsConfiguration")),
       Ie(419, "sfn_initialisation_time", T("RelativeTime1900"))>>), Require({"gnb_cu_ue_f1ap_id",
       "gnb_du_ue_f1ap_id"})>>,
     <<PutIe(40, "gnb_cu_ue_f1ap_id", T("GnbCuUeF1apId")),
       PutIe(41, "gnb_du_ue_f1ap_id", T("GnbDuUeF1apId")),
       PutIeIf(407, "srs_configuration", T("SrsConfiguration")),
       PutIeIf(419, "sfn_initialisation_time", T("RelativeTime1900")), AppendIes>>)]
FromECidMeasurementInitiationRequest ==
  [ECidMeasurementInitiationRequest |-> Codec(
     <<ReadIes(<<Ie(40, "gnb_cu_ue_f1ap_id", T("GnbCuUeF1apId")),
       Ie(41, "gnb_du_ue_f1ap_id", T("GnbDuUeF1apId")),
       Ie(412, "lmf_ue_measurement_id", T("LmfUeMeasurementId")),
       Ie(413, "ran_ue_measurement_id", T("RanUeMeasurementId")),
       Ie(424, "e_cid_report_characteristics", T("ECidReportCharacteristics")),
       Ie(416, "e_cid_measurement_periodicity", T("MeasurementPeriodicity")),
       Ie(414, "e_cid_measurement_quantities", T("ECidMeasurementQuantities"))>>),
       Require({"gnb_cu_ue_f1ap_id", "gnb_du_ue_f1ap_id", "lmf_ue_measurement_id",
       "ran_ue_measurement_id", "e_cid_report_characteristics", "e_cid_measurement_quantities"})>>,
     <<PutIe(40, "gnb_cu_ue_f1ap_id", T("GnbCuUeF1apId")),
       PutIe(41, "gnb_du_ue_f1ap_id", T("GnbDuUeF1apId")),
       PutIe(412, "lmf_ue_measurement_id", T("LmfUeMeasurementId")),
       PutIe(413, "ran_ue_measurement_id", T("RanUeMeasurementId")),
       PutIe(424, "e_cid_report_characteristics", T("ECidReportCharacteristics")),
       PutIeIf(416, "e_cid_measurement_periodicity", T("MeasurementPeriodicity")),
       PutIe(414, "e_cid_measurement_quantities", T("ECidMeasurementQuantities")), AppendIes>>)]
FromECidMeasurementInitiationResponse ==
  [ECidMeasurementInitiationResponse |-> Codec(
     <<ReadIes(<<Ie(40, "gnb_cu_ue_f1ap_id", T("GnbCuUeF1apId")),
       Ie(41, "gnb_du_ue_f1ap_id", T("GnbDuUeF1apId")),
       Ie(412, "lmf_ue_measurement_id", T("LmfUeMeasurementId")),
       Ie(413, "ran_ue_measurement_id", T("RanUeMeasurementId")),
       Ie(417, "e_cid_measurement_result", T("ECidMeasurementResult")),
       Ie(418, "cell_portion_id", T("CellPortionId")),
       Ie(7, "criticality_diagnostics", T("CriticalityDiagnostics"))>>),
       Require({"gnb_cu_ue_f1ap_id", "gnb_du_ue_f1ap_id", "lmf_ue_measurement_id",
       "ran_ue_measurement_id"})>>,
     <<PutIe(40, "gnb_cu_ue_f1ap_id", T("GnbCuUeF1apId")),
       PutIe(41, "gnb_du_ue_f1ap_id", T("GnbDuUeF1apId")),
       PutIe(412, "lmf_ue_measurement_id", T("LmfUeMeasurementId")),
       PutIe(413, "ran_ue_measurement_id", T("RanUeMeasurementId")),
       PutIeIf(417, "e_cid_measurement_result", T("ECidMeasurementResult")),
       PutIeIf(418, "cell_portion_id", T("CellPortionId")),
       PutIeIf(7, "criticality_diagnostics", T("CriticalityDiagnostics")), AppendIes>>)]
FromECidMeasurementInitiationFailure ==
  [ECidMeasurementInitiationFailure |-> Codec(
     <<ReadIes(<<Ie(40, "gnb_cu_ue_f1ap_id", T("GnbCuUeF1apId")),
       Ie(41, "gnb_du_ue_f1ap_id", T("GnbDuUeF1apId")),
       Ie(412, "lmf_ue_measurement_id", T("LmfUeMeasurementId")),
       Ie(413, "ran_ue_measurement_id", T("RanUeMeasurementId")), Ie(0, "cause", T("Cause")),
       Ie(7, "criticality_diagnostics", T("CriticalityDiagnostics"))>>),
       Require({"gnb_cu_ue_f1ap_id", "gnb_du_ue_f1ap_id", "lmf_ue_measurement_id",
       "ran_ue_measurement_id", "cause"})>>,
     <<PutIe(40, "gnb_cu_ue_f1ap_id", T("GnbCuUeF1apId")),
       PutIe(41, "gnb_du_ue_f1ap_id", T("GnbDuUeF1apId")),
       PutIe(412, "lmf_ue_measurement_id", T("LmfUeMeasurementId")),
       PutIe(413, "ran_ue_measurement_id", T("RanUeMeasurementId")), PutIe(0, "cause", T("Cause")),
       PutIeIf(7, "criticality_diagnostics", T("CriticalityDiagnostics")), AppendIes>>)]
FromECidMeasurementFailureIndication ==
  [ECidMeasurementFailureIndication |-> Codec(
     <<ReadIes(<<Ie(40, "gnb_cu_ue_f1ap_id", T("GnbCuUeF1apId")),
       Ie(41, "gnb_du_ue_f1ap_id", T("GnbDuUeF1apId")),
       Ie(412, "lmf_ue_measurement_id", T("LmfUeMeasurementId")),
       Ie(413, "ran_ue_measurement_id", T("RanUeMeasurementId")), Ie(0, "cause", T("Cause"))>>),
       Require({"gnb_cu_ue_f1ap_id", "gnb_du_ue_f1ap_id", "lmf_ue_measurement_id",
       "ran_ue_measurement_id", "cause"})>>,
     <<PutIe(40, "gnb_cu_ue_f1ap_id", T("GnbCuUeF1apId")),
       PutIe(41, "gnb_du_ue_f1ap_id", T("GnbDuUeF1apId")),
       PutIe(412, "lmf_ue_measurement_id", T("LmfUeMeasurementId")),
       PutIe(413, "ran_ue_measurement_id", T("RanUeMeasurementId")), PutIe(0, "cause", T("Cause")),
       AppendIes>>)]
FromECidMeasurementReport ==
  [ECidMeasurementReport |-> Codec(
     <<ReadIes(<<Ie(40, "gnb_cu_ue_f1ap_id", T("GnbCuUeF1apId")),
       Ie(41, "gnb_du_ue_f1ap_id", T("GnbDuUeF1apId")),
       Ie(412, "lmf_ue_measurement_id", T("LmfUeMeasurementId")),
       Ie(413, "ran_ue_measurement_id", T("RanUeMeasurementId")),
       Ie(417, "e_cid_measurement_result", T("ECidMeasurementResult")),
       Ie(418, "cell_portion_id", T("CellPortionId"))>>), Require({"gnb_cu_ue_f1ap_id",
       "gnb_du_ue_f1ap_id", "lmf_ue_measurement_id", "ran_ue_measurement_id",
       "e_cid_measurement_result"})>>,
     <<PutIe(40, "gnb_cu_ue_f1ap_id", T("GnbCuUeF1apId")),
       PutIe(41, "gnb_du_ue_f1ap_id", T("GnbDuUeF1apId")),
       PutIe(412, "lmf_ue_measurement_id", T("LmfUeMeasurementId")),
       PutIe(413, "ran_ue_measurement_id", T("RanUeMeasurementId")),
       PutIe(417, "e_cid_measurement_result", T("ECidMeasurementResult")),
       PutIeIf(418, "cell_portion_id", T("CellPortionId")), AppendIes>>)]
FromECidMeasurementTerminationCommand ==
  [ECidMeasurementTerminationCommand |-> Codec(
     <<ReadIes(<<Ie(40, "gnb_cu_ue_f1ap_id", T("GnbCuUeF1apId")),
       Ie(41, "gnb_du_ue_f1ap_id", T("GnbDuUeF1apId")),
       Ie(412, "lmf_ue_measurement_id", T("LmfUeMeasurementId")),
       Ie(413, "ran_ue_measurement_id", T("RanUeMeasurementId"))>>), Require({"gnb_cu_ue_f1ap_id",
       "gnb_du_ue_f1ap_id", "lmf_ue_measurement_id", "ran_ue_measurement_id"})>>,
     <<PutIe(40, "gnb_cu_ue_f1ap_id", T("GnbCuUeF1apId")),
       PutIe(41, "gnb_du_ue_f1ap_id", T("GnbDuUeF1apId")),
       PutIe(412, "lmf_ue_measurement_id", T("LmfUeMeasurementId")),
       PutIe(413, "ran_ue_measurement_id", T("RanUeMeasurementId")), AppendIes>>),
   Aperiodic |-> Codec(<<ReadEnum(0, 0, TRUE, 1)>>, <<WriteEnum(0, 0, TRUE)>>)]

Codecs == {FromWriteReplaceWarningRequest, FromWriteReplaceWarningResponse, FromPwsCancelRequest,
  FromPwsCancelResponse, FromUeInactivityNotification, FromInitialUlRrcMessageTransfer,
  FromDlRrcMessageTransfer, FromUlRrcMessageTransfer, FromPrivateMessage, FromPaging,
  FromPagingCellList, FromDrbNotifyList, FromNrCgiListForRestartList, FromGnbDuStatusIndication,
  FromF1RemovalRequest, FromF1RemovalFailure, FromDeactivateTrace, FromCellTrafficTrace,
  FromDuCuRadioInformationTransfer, FromBapMappingConfiguration,
  FromBhRoutingInformationRemovedList, FromBapMappingConfigurationFailure,
  FromGnbDuResourceConfigurationAcknowledge, FromIabtnlAddressRequest, FromIabtnlAddressResponse,
  FromIabtnlAddressFailure, FromUlUpTnlInformationToUpdateList, FromDlUpTnlAddressToUpdateList,
  FromResourceStatusRequest, FromResourceStatusResponse, FromResourceStatusFailure,
  FromResourceStatusUpdate, FromAccessAndMobilityIndication, FromReferenceTimeInformationReport,
  FromPositioningAssistanceInformationControl, FromPositioningAssistanceInformationFeedback,
  FromPositioningMeasurementResponse, FromPositioningMeasurementFailure,
  FromPositioningMeasurementReport, FromPositioningMeasurementFailureIndication,
  FromPositioningMeasurementUpdate, FromTrpInformationTypeListTrpReq, FromTrpInformationListTrpResp,
  FromPositioningInformationRequest, FromPositioningInformationResponse,
  FromPositioningInformationFailure, FromPositioningActivationRequest, FromSemipersistentSrs,
  FromPositioningActivationResponse, FromPositioningActivationFailure,
  FromPositioningInformationUpdate, FromECidMeasurementInitiationRequest,
  FromECidMeasurementInitiationResponse, FromECidMeasurementInitiationFailure,
  FromECidMeasurementFailureIndication, FromECidMeasurementReport,
  FromECidMeasurementTerminationCommand}
=============================================================================
