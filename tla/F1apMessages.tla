---------------------------- MODULE F1apMessages ----------------------------
(***************************************************************************)
(* The programs of the codecs of f1ap/src/pdu.rs, the messages and their   *)
(* lists: interface management and UE context management.                  *)
(***************************************************************************)
EXTENDS PerLayout

FromReset ==
  [Reset |-> Codec(
     <<ReadIes(<<Ie(78, "transaction_id", T("TransactionId")), Ie(0, "cause", T("Cause")),
       Ie(48, "reset_type", T("ResetType"))>>), Require({"transaction_id", "cause", "reset_type"})>>,
     <<PutIe(78, "transaction_id", T("TransactionId")), PutIe(0, "cause", T("Cause")),
       PutIe(48, "reset_type", T("ResetType")), AppendIes>>),
   ResetType |-> Codec(
     <<ReadChoice(0, 2, FALSE, <<Alt(0, "F1Interface", T("ResetAll")),
       Alt(1, "PartOfF1Interface", T("UeAssociatedLogicalF1ConnectionListRes")),
       AltIes(2, <<>>)>>)>>,
     <<WriteChoice(0, 2, FALSE, <<Arm("F1Interface", 0, T("ResetAll")),
       Arm("PartOfF1Interface", 1, T("UeAssociatedLogicalF1ConnectionListRes"))>>)>>)]
FromResetAll ==
  [ResetAll |-> Codec(<<ReadEnum(0, 0, TRUE, 1)>>, <<WriteEnum(0, 0, TRUE)>>),
   UeAssociatedLogicalF1ConnectionListRes |-> Codec(
     <<Get("0", NonEmpty(1, 65536, InIe(T("UeAssociatedLogicalF1ConnectionItem"))))>>,
     <<Put("0", NonEmpty(1, 65536, InIe(T("UeAssociatedLogicalF1ConnectionItem"))))>>),
   ResetAcknowledge |-> Codec(
     <<ReadIes(<<Ie(78, "transaction_id", T("TransactionId")),
       Ie(81, "ue_associated_logical_f1_connection_list_res_ack", T("UeAssociatedLogicalF1ConnectionListResAck")),
       Ie(7, "criticality_diagnostics", T("CriticalityDiagnostics"))>>),
       Require({"transaction_id"})>>,
     <<PutIe(78, "transaction_id", T("TransactionId")),
       PutIeIf(81, "ue_associated_logical_f1_connection_list_res_ack", T("UeAssociatedLogicalF1ConnectionListResAck")),
       PutIeIf(7, "criticality_diagnostics", T("CriticalityDiagnostics")), AppendIes>>)]
FromUeAssociatedLogicalF1ConnectionListResAck ==
  [UeAssociatedLogicalF1ConnectionListResAck |-> Codec(
     <<Get("0", NonEmpty(1, 65536, InIe(T("UeAssociatedLogicalF1ConnectionItem"))))>>,
     <<Put("0", NonEmpty(1, 65536, InIe(T("UeAssociatedLogicalF1ConnectionItem"))))>>),
   ErrorIndication |-> Codec(
     <<ReadIes(<<Ie(78, "transaction_id", T("TransactionId")),
       Ie(40, "gnb_cu_ue_f1ap_id", T("GnbCuUeF1apId")),
       Ie(41, "gnb_du_ue_f1ap_id", T("GnbDuUeF1apId")), Ie(0, "cause", T("Cause")),
       Ie(7, "criticality_diagnostics", T("CriticalityDiagnostics"))>>),
       Require({"transaction_id"})>>,
     <<PutIe(78, "transaction_id", T("TransactionId")),
       PutIeIf(40, "gnb_cu_ue_f1ap_id", T("GnbCuUeF1apId")),
       PutIeIf(41, "gnb_du_ue_f1ap_id", T("GnbDuUeF1apId")), PutIeIf(0, "cause", T("Cause")),
       PutIeIf(7, "criticality_diagnostics", T("CriticalityDiagnostics")), AppendIes>>)]
FromF1SetupRequest ==
  [F1SetupRequest |-> Codec(
     <<ReadIes(<<Ie(78, "transaction_id", T("TransactionId")), Ie(42, "gnb_du_id", T("GnbDuId")),
       Ie(45, "gnb_du_name", T("GnbDuName")),
       Ie(44, "gnb_du_served_cells_list", T("GnbDuServedCellsList")),
       Ie(171, "gnb_du_rrc_version", T("RrcVersion")),
       Ie(254, "transport_layer_address_info", T("TransportLayerAddressInfo")),
       Ie(281, "bap_address", T("BapAddress")),
       Ie(427, "extended_gnb_cu_name", T("ExtendedGnbCuName"))>>), Require({"transaction_id",
       "gnb_du_id", "gnb_du_rrc_version"})>>,
     <<PutIe(78, "transaction_id", T("TransactionId")), PutIe(42, "gnb_du_id", T("GnbDuId")),
       PutIeIf(45, "gnb_du_name", T("GnbDuName")),
       PutIeIf(44, "gnb_du_served_cells_list", T("GnbDuServedCellsList")),
       PutIe(171, "gnb_du_rrc_version", T("RrcVersion")),
       PutIeIf(254, "transport_layer_address_info", T("TransportLayerAddressInfo")),
       PutIeIf(281, "bap_address", T("BapAddress")),
       PutIeIf(427, "extended_gnb_cu_name", T("ExtendedGnbCuName")), AppendIes>>)]
FromGnbDuServedCellsList ==
  [GnbDuServedCellsList |-> Codec(
     <<Get("0", NonEmpty(1, 512, InIe(T("GnbDuServedCellsItem"))))>>,
     <<Put("0", NonEmpty(1, 512, InIe(T("GnbDuServedCellsItem"))))>>),
   F1SetupResponse |-> Codec(
     <<ReadIes(<<Ie(78, "transaction_id", T("TransactionId")),
       Ie(82, "gnb_cu_name", T("GnbCuName")),
       Ie(3, "cells_to_be_activated_list", T("CellsToBeActivatedList")),
       Ie(170, "gnb_cu_rrc_version", T("RrcVersion")),
       Ie(254, "transport_layer_address_info", T("TransportLayerAddressInfo")),
       Ie(287, "ul_bh_non_up_traffic_mapping", T("UlBhNonUpTrafficMapping")),
       Ie(281, "bap_address", T("BapAddress")),
       Ie(426, "extended_gnb_du_name", T("ExtendedGnbDuName"))>>), Require({"transaction_id",
       "gnb_cu_rrc_version"})>>,
     <<PutIe(78, "transaction_id", T("TransactionId")), PutIeIf(82, "gnb_cu_name", T("GnbCuName")),
       PutIeIf(3, "cells_to_be_activated_list", T("CellsToBeActivatedList")),
       PutIe(170, "gnb_cu_rrc_version", T("RrcVersion")),
       PutIeIf(254, "transport_layer_address_info", T("TransportLayerAddressInfo")),
       PutIeIf(287, "ul_bh_non_up_traffic_mapping", T("UlBhNonUpTrafficMapping")),
       PutIeIf(281, "bap_address", T("BapAddress")),
       PutIeIf(426, "extended_gnb_du_name", T("ExtendedGnbDuName")), AppendIes>>)]
FromCellsToBeActivatedList ==
  [CellsToBeActivatedList |-> Codec(
     <<Get("0", NonEmpty(1, 512, InIe(T("CellsToBeActivatedListItem"))))>>,
     <<Put("0", NonEmpty(1, 512, InIe(T("CellsToBeActivatedListItem"))))>>),
   F1SetupFailure |-> Codec(
     <<ReadIes(<<Ie(78, "transaction_id", T("TransactionId")), Ie(0, "cause", T("Cause")),
       Ie(77, "time_to_wait", T("TimeToWait")),
       Ie(7, "criticality_diagnostics", T("CriticalityDiagnostics"))>>), Require({"transaction_id",
       "cause"})>>,
     <<PutIe(78, "transaction_id", T("TransactionId")), PutIe(0, "cause", T("Cause")),
       PutIeIf(77, "time_to_wait", T("TimeToWait")),
       PutIeIf(7, "criticality_diagnostics", T("CriticalityDiagnostics")), AppendIes>>)]
FromGnbDuConfigurationUpdate ==
  [GnbDuConfigurationUpdate |-> Codec(
     <<ReadIes(<<Ie(78, "transaction_id", T("TransactionId")),
       Ie(58, "served_cells_to_add_list", T("ServedCellsToAddList")),
       Ie(62, "served_cells_to_modify_list", T("ServedCellsToModifyList")),
       Ie(60, "served_cells_to_delete_list", T("ServedCellsToDeleteList")),
       Ie(89, "cells_status_list", T("CellsStatusList")),
       Ie(189, "dedicated_si_delivery_needed_ue_list", T("DedicatedSiDeliveryNeededUeList")),
       Ie(42, "gnb_du_id", T("GnbDuId")),
       Ie(228, "gnb_du_tnl_association_to_remove_list", T("GnbDuTnlAssociationToRemoveList")),
       Ie(254, "transport_layer_address_info", T("TransportLayerAddressInfo"))>>),
       Require({"transaction_id"})>>,
     <<PutIe(78, "transaction_id", T("TransactionId")),
       PutIeIf(58, "served_cells_to_add_list", T("ServedCellsToAddList")),
       PutIeIf(62, "served_cells_to_modify_list", T("ServedCellsToModifyList")),
       PutIeIf(60, "served_cells_to_delete_list", T("ServedCellsToDeleteList")),
       PutIeIf(89, "cells_status_list", T("CellsStatusList")),
       PutIeIf(189, "dedicated_si_delivery_needed_ue_list", T("DedicatedSiDeliveryNeededUeList")),
       PutIeIf(42, "gnb_du_id", T("GnbDuId")),
       PutIeIf(228, "gnb_du_tnl_association_to_remove_list", T("GnbDuTnlAssociationToRemoveList")),
       PutIeIf(254, "transport_layer_address_info", T("TransportLayerAddressInfo")), AppendIes>>)]
FromServedCellsToAddList ==
  [ServedCellsToAddList |-> Codec(
     <<Get("0", NonEmpty(1, 512, InIe(T("ServedCellsToAddItem"))))>>,
     <<Put("0", NonEmpty(1, 512, InIe(T("ServedCellsToAddItem"))))>>),
   ServedCellsToModifyList |-> Codec(
     <<Get("0", NonEmpty(1, 512, InIe(T("ServedCellsToModifyItem"))))>>,
     <<Put("0", NonEmpty(1, 512, InIe(T("ServedCellsToModifyItem"))))>>),
   ServedCellsToDeleteList |-> Codec(
     <<Get("0", NonEmpty(1, 512, InIe(T("ServedCellsToDeleteItem"))))>>,
     <<Put("0", NonEmpty(1, 512, InIe(T("ServedCellsToDeleteItem"))))>>)]
FromCellsStatusList ==
  [CellsStatusList |-> Codec(
     <<Get("0", Vec(0, 512, InIe(T("CellsStatusItem"))))>>,
     <<Put("0", Vec(0, 512, InIe(T("CellsStatusItem"))))>>),
   DedicatedSiDeliveryNeededUeList |-> Codec(
     <<Get("0", NonEmpty(1, 65536, InIe(T("DedicatedSiDeliveryNeededUeItem"))))>>,
     <<Put("0", NonEmpty(1, 65536, InIe(T("DedicatedSiDeliveryNeededUeItem"))))>>),
   GnbDuTnlAssociationToRemoveList |-> Codec(
     <<Get("0", NonEmpty(1, 32, InIe(T("GnbDuTnlAssociationToRemoveItem"))))>>,
     <<Put("0", NonEmpty(1, 32, InIe(T("GnbDuTnlAssociationToRemoveItem"))))>>)]
FromGnbDuConfigurationUpdateAcknowledge ==
  [GnbDuConfigurationUpdateAcknowledge |-> Codec(
     <<ReadIes(<<Ie(78, "transaction_id", T("TransactionId")),
       Ie(3, "cells_to_be_activated_list", T("CellsToBeActivatedList")),
       Ie(7, "criticality_diagnostics", T("CriticalityDiagnostics")),
       Ie(5, "cells_to_be_deactivated_list", T("CellsToBeDeactivatedList")),
       Ie(254, "transport_layer_address_info", T("TransportLayerAddressInfo")),
       Ie(287, "ul_bh_non_up_traffic_mapping", T("UlBhNonUpTrafficMapping")),
       Ie(281, "bap_address", T("BapAddress"))>>), Require({"transaction_id"})>>,
     <<PutIe(78, "transaction_id", T("TransactionId")),
       PutIeIf(3, "cells_to_be_activated_list", T("CellsToBeActivatedList")),
       PutIeIf(7, "criticality_diagnostics", T("CriticalityDiagnostics")),
       PutIeIf(5, "cells_to_be_deactivated_list", T("CellsToBeDeactivatedList")),
       PutIeIf(254, "transport_layer_address_info", T("TransportLayerAddressInfo")),
       PutIeIf(287, "ul_bh_non_up_traffic_mapping", T("UlBhNonUpTrafficMapping")),
       PutIeIf(281, "bap_address", T("BapAddress")), AppendIes>>)]
GnbCuConfigurationUpdateDecode ==
  <<ReadIes(<<Ie(78, "transaction_id", T("TransactionId")),
    Ie(3, "cells_to_be_activated_list", T("CellsToBeActivatedList")),
    Ie(5, "cells_to_be_deactivated_list", T("CellsToBeDeactivatedList")),
    Ie(121, "gnb_cu_tnl_association_to_add_list", T("GnbCuTnlAssociationToAddList")),
    Ie(123, "gnb_cu_tnl_association_to_remove_list", T("GnbCuTnlAssociationToRemoveList")),
    Ie(125, "gnb_cu_tnl_association_to_update_list", T("GnbCuTnlAssociationToUpdateList")),
    Ie(129, "cells_to_be_barred_list", T("CellsToBeBarredList")),
    Ie(105, "protected_eutra_resources_list", T("ProtectedEutraResourcesList")),
    Ie(244, "neighbour_cell_information_list", T("NeighbourCellInformationList")),
    Ie(254, "transport_layer_address_info", T("TransportLayerAddressInfo")),
    Ie(287, "ul_bh_non_up_traffic_mapping", T("UlBhNonUpTrafficMapping")),
    Ie(281, "bap_address", T("BapAddress"))>>), Require({"transaction_id"})>>
GnbCuConfigurationUpdateEncode ==
  <<PutIe(78, "transaction_id", T("TransactionId")),
    PutIeIf(3, "cells_to_be_activated_list", T("CellsToBeActivatedList")),
    PutIeIf(5, "cells_to_be_deactivated_list", T("CellsToBeDeactivatedList")),
    PutIeIf(121, "gnb_cu_tnl_association_to_add_list", T("GnbCuTnlAssociationToAddList")),
    PutIeIf(123, "gnb_cu_tnl_association_to_remove_list", T("GnbCuTnlAssociationToRemoveList")),
    PutIeIf(125, "gnb_cu_tnl_association_to_update_list", T("GnbCuTnlAssociationToUpdateList")),
    PutIeIf(129, "cells_to_be_barred_list", T("CellsToBeBarredList")),
    PutIeIf(105, "protected_eutra_resources_list", T("ProtectedEutraResourcesList")),
    PutIeIf(244, "neighbour_cell_information_list", T("NeighbourCellInformationList")),
    PutIeIf(254, "transport_layer_address_info", T("TransportLayerAddressInfo")),
    PutIeIf(287, "ul_bh_non_up_traffic_mapping", T("UlBhNonUpTrafficMapping")),
    PutIeIf(281, "bap_address", T("BapAddress")), AppendIes>>
FromGnbDuConfigurationUpdateFailure ==
  [GnbDuConfigurationUpdateFailure |-> Codec(
     <<ReadIes(<<Ie(78, "transaction_id", T("TransactionId")), Ie(0, "cause", T("Cause")),
       Ie(77, "time_to_wait", T("TimeToWait")),
       Ie(7, "criticality_diagnostics", T("CriticalityDiagnostics"))>>), Require({"transaction_id",
       "cause"})>>,
     <<PutIe(78, "transaction_id", T("TransactionId")), PutIe(0, "cause", T("Cause")),
       PutIeIf(77, "time_to_wait", T("TimeToWait")),
       PutIeIf(7, "criticality_diagnostics", T("CriticalityDiagnostics")), AppendIes>>),
   GnbCuConfigurationUpdate |-> Codec(GnbCuConfigurationUpdateDecode, GnbCuConfigurationUpdateEncode)]
FromCellsToBeDeactivatedList ==
  [CellsToBeDeactivatedList |-> Codec(
     <<Get("0", NonEmpty(1, 512, InIe(T("CellsToBeDeactivatedListItem"))))>>,
     <<Put("0", NonEmpty(1, 512, InIe(T("CellsToBeDeactivatedListItem"))))>>),
   GnbCuTnlAssociationToAddList |-> Codec(
     <<Get("0", NonEmpty(1, 32, InIe(T("GnbCuTnlAssociationToAddItem"))))>>,
     <<Put("0", NonEmpty(1, 32, InIe(T("GnbCuTnlAssociationToAddItem"))))>>),
   GnbCuTnlAssociationToRemoveList |-> Codec(
     <<Get("0", NonEmpty(1, 32, InIe(T("GnbCuTnlAssociationToRemoveItem"))))>>,
     <<Put("0", NonEmpty(1, 32, InIe(T("GnbCuTnlAssociationToRemoveItem"))))>>)]
FromGnbCuTnlAssociationToUpdateList ==
  [GnbCuTnlAssociationToUpdateList |-> Codec(
     <<Get("0", NonEmpty(1, 32, InIe(T("GnbCuTnlAssociationToUpdateItem"))))>>,
     <<Put("0", NonEmpty(1, 32, InIe(T("GnbCuTnlAssociationToUpdateItem"))))>>),
   CellsToBeBarredList |-> Codec(
     <<Get("0", NonEmpty(1, 512, InIe(T("CellsToBeBarredItem"))))>>,
     <<Put("0", NonEmpty(1, 512, InIe(T("CellsToBeBarredItem"))))>>),
   ProtectedEutraResourcesList |-> Codec(
     <<Get("0", NonEmpty(1, 256, InIe(T("ProtectedEutraResourcesItem"))))>>,
     <<Put("0", NonEmpty(1, 256, InIe(T("ProtectedEutraResourcesItem"))))>>)]
FromNeighbourCellInformationList ==
  [NeighbourCellInformationList |-> Codec(
     <<Get("0", NonEmpty(1, 512, InIe(T("NeighbourCellInformationItem"))))>>,
     <<Put("0", NonEmpty(1, 512, InIe(T("NeighbourCellInformationItem"))))>>),
   GnbCuConfigurationUpdateAcknowledge |-> Codec(
     <<ReadIes(<<Ie(78, "transaction_id", T("TransactionId")),
       Ie(1, "cells_failed_to_be_activated_list", T("CellsFailedToBeActivatedList")),
       Ie(7, "criticality_diagnostics", T("CriticalityDiagnostics")),
       Ie(132, "gnb_cu_tnl_association_setup_list", T("GnbCuTnlAssociationSetupList")),
       Ie(134, "gnb_cu_tnl_association_failed_to_setup_list", T("GnbCuTnlAssociationFailedToSetupList")),
       Ie(189, "dedicated_si_delivery_needed_ue_list", T("DedicatedSiDeliveryNeededUeList")),
       Ie(254, "transport_layer_address_info", T("TransportLayerAddressInfo"))>>),
       Require({"transaction_id"})>>,
     <<PutIe(78, "transaction_id", T("TransactionId")),
       PutIeIf(1, "cells_failed_to_be_activated_list", T("CellsFailedToBeActivatedList")),
       PutIeIf(7, "criticality_diagnostics", T("CriticalityDiagnostics")),
       PutIeIf(132, "gnb_cu_tnl_association_setup_list", T("GnbCuTnlAssociationSetupList")),
       PutIeIf(134, "gnb_cu_tnl_association_failed_to_setup_list", T("GnbCuTnlAssociationFailedToSetupList")),
       PutIeIf(189, "dedicated_si_delivery_needed_ue_list", T("DedicatedSiDeliveryNeededUeList")),
       PutIeIf(254, "transport_layer_address_info", T("TransportLayerAddressInfo")), AppendIes>>)]
FromCellsFailedToBeActivatedList ==
  [CellsFailedToBeActivatedList |-> Codec(
     <<Get("0", NonEmpty(1, 512, InIe(T("CellsFailedToBeActivatedListItem"))))>>,
     <<Put("0", NonEmpty(1, 512, InIe(T("CellsFailedToBeActivatedListItem"))))>>),
   GnbCuTnlAssociationSetupList |-> Codec(
     <<Get("0", NonEmpty(1, 32, InIe(T("GnbCuTnlAssociationSetupItem"))))>>,
     <<Put("0", NonEmpty(1, 32, InIe(T("GnbCuTnlAssociationSetupItem"))))>>),
   GnbCuTnlAssociationFailedToSetupList |-> Codec(
     <<Get("0", NonEmpty(1, 32, InIe(T("GnbCuTnlAssociationFailedToSetupItem"))))>>,
     <<Put("0", NonEmpty(1, 32, InIe(T("GnbCuTnlAssociationFailedToSetupItem"))))>>)]
FromGnbCuConfigurationUpdateFailure ==
  [GnbCuConfigurationUpdateFailure |-> Codec(
     <<ReadIes(<<Ie(78, "transaction_id", T("TransactionId")), Ie(0, "cause", T("Cause")),
       Ie(77, "time_to_wait", T("TimeToWait")),
       Ie(7, "criticality_diagnostics", T("CriticalityDiagnostics"))>>), Require({"transaction_id",
       "cause"})>>,
     <<PutIe(78, "transaction_id", T("TransactionId")), PutIe(0, "cause", T("Cause")),
       PutIeIf(77, "time_to_wait", T("TimeToWait")),
       PutIeIf(7, "criticality_diagnostics", T("CriticalityDiagnostics")), AppendIes>>)]
FromGnbDuResourceCoordinationRequest ==
  [GnbDuResourceCoordinationRequest |-> Codec(
     <<ReadIes(<<Ie(78, "transaction_id", T("TransactionId")),
       Ie(106, "request_type", T("RequestType")),
       Ie(101, "eutra_nr_cell_resource_coordination_req_container", T("EutraNrCellResourceCoordinationReqContainer")),
       Ie(213, "ignore_resource_coordination_container", T("IgnoreResourceCoordinationContainer"))>>),
       Require({"transaction_id", "request_type",
       "eutra_nr_cell_resource_coordination_req_container"})>>,
     <<PutIe(78, "transaction_id", T("TransactionId")),
       PutIe(106, "request_type", T("RequestType")),
       PutIe(101, "eutra_nr_cell_resource_coordination_req_container", T("EutraNrCellResourceCoordinationReqContainer")),
       PutIeIf(213, "ignore_resource_coordination_container", T("IgnoreResourceCoordinationContainer")),
       AppendIes>>)]
UeContextSetupRequestDecode ==
  <<ReadIes(<<Ie(40, "gnb_cu_ue_f1ap_id", T("GnbCuUeF1apId")),
    Ie(41, "gnb_du_ue_f1ap_id", T("GnbDuUeF1apId")), Ie(63, "sp_cell_id", T("NrCgi")),
    Ie(107, "serv_cell_index", T("ServCellIndex")),
    Ie(96, "sp_cell_ul_configured", T("CellUlConfigured")),
    Ie(9, "cu_to_du_rrc_information", T("CuToDuRrcInformation")),
    Ie(90, "candidate_sp_cell_list", T("CandidateSpCellList")), Ie(38, "drx_cycle", T("DrxCycle")),
    Ie(49, "resource_coordination_transfer_container", T("ResourceCoordinationTransferContainer")),
    Ie(54, "s_cell_to_be_setup_list", T("SCellToBeSetupList")),
    Ie(74, "srbs_to_be_setup_list", T("SrbsToBeSetupList")),
    Ie(35, "drbs_to_be_setup_list", T("DrbsToBeSetupList")),
    Ie(97, "inactivity_monitoring_request", T("InactivityMonitoringRequest")),
    Ie(108, "rat_frequency_priority_information", T("RatFrequencyPriorityInformation")),
    Ie(50, "rrc_container", T("RrcContainer")), Ie(126, "masked_imeisv", T("MaskedImeisv")),
    Ie(165, "serving_plmn", T("PlmnIdentity")), Ie(158, "gnb_du_ue_ambr_ul", T("BitRate")),
    Ie(184, "rrc_delivery_status_request", T("RrcDeliveryStatusRequest")),
    Ie(195, "resource_coordination_transfer_information", T("ResourceCoordinationTransferInformation")),
    Ie(182, "serving_cell_mo", T("ServingCellMo")),
    Ie(217, "new_gnb_cu_ue_f1ap_id", T("GnbDuUeF1apId")), Ie(226, "ran_ue_id", T("RanUeId")),
    Ie(242, "trace_activation", T("TraceActivation")),
    Ie(248, "additional_rrm_priority_index", T("AdditionalRrmPriorityIndex")),
    Ie(258, "bh_channels_to_be_setup_list", T("BhChannelsToBeSetupList")),
    Ie(282, "configured_bap_address", T("BapAddress")),
    Ie(306, "nr_v2x_services_authorized", T("NrV2xServicesAuthorized")),
    Ie(307, "ltev2x_services_authorized", T("Ltev2xServicesAuthorized")),
    Ie(308, "nr_ue_sidelink_aggregate_maximum_bitrate", T("NrUeSidelinkAggregateMaximumBitrate")),
    Ie(309, "lte_ue_sidelink_aggregate_maximum_bitrate", T("LteUeSidelinkAggregateMaximumBitrate")),
    Ie(340, "pc5_link_ambr", T("BitRate")),
    Ie(330, "sl_drbs_to_be_setup_list", T("SlDrbsToBeSetupList")),
    Ie(373, "conditional_inter_du_mobility_information", T("ConditionalInterDuMobilityInformation")),
    Ie(377, "management_based_mdt_plmn_list", T("MdtPlmnList")), Ie(382, "serving_nid", T("Nid")),
    Ie(428, "f1c_transfer_path", T("F1cTransferPath"))>>), Require({"gnb_cu_ue_f1ap_id",
    "sp_cell_id", "serv_cell_index", "cu_to_du_rrc_information"})>>
UeContextSetupRequestEncode ==
  <<PutIe(40, "gnb_cu_ue_f1ap_id", T("GnbCuUeF1apId")),
    PutIeIf(41, "gnb_du_ue_f1ap_id", T("GnbDuUeF1apId")), PutIe(63, "sp_cell_id", T("NrCgi")),
    PutIe(107, "serv_cell_index", T("ServCellIndex")),
    PutIeIf(96, "sp_cell_ul_configured", T("CellUlConfigured")),
    PutIe(9, "cu_to_du_rrc_information", T("CuToDuRrcInformation")),
    PutIeIf(90, "candidate_sp_cell_list", T("CandidateSpCellList")),
    PutIeIf(38, "drx_cycle", T("DrxCycle")),
    PutIeIf(49, "resource_coordination_transfer_container", T("ResourceCoordinationTransferContainer")),
    PutIeIf(54, "s_cell_to_be_setup_list", T("SCellToBeSetupList")),
    PutIeIf(74, "srbs_to_be_setup_list", T("SrbsToBeSetupList")),
    PutIeIf(35, "drbs_to_be_setup_list", T("DrbsToBeSetupList")),
    PutIeIf(97, "inactivity_monitoring_request", T("InactivityMonitoringRequest")),
    PutIeIf(108, "rat_frequency_priority_information", T("RatFrequencyPriorityInformation")),
    PutIeIf(50, "rrc_container", T("RrcContainer")),
    PutIeIf(126, "masked_imeisv", T("MaskedImeisv")),
    PutIeIf(165, "serving_plmn", T("PlmnIdentity")),
    PutIeIf(158, "gnb_du_ue_ambr_ul", T("BitRate")),
    PutIeIf(184, "rrc_delivery_status_request", T("RrcDeliveryStatusRequest")),
    PutIeIf(195, "resource_coordination_transfer_information", T("ResourceCoordinationTransferInformation")),
    PutIeIf(182, "serving_cell_mo", T("ServingCellMo")),
    PutIeIf(217, "new_gnb_cu_ue_f1ap_id", T("GnbDuUeF1apId")),
    PutIeIf(226, "ran_ue_id", T("RanUeId")), PutIeIf(242, "trace_activation", T("TraceActivation")),
    PutIeIf(248, "additional_rrm_priority_index", T("AdditionalRrmPriorityIndex")),
    PutIeIf(258, "bh_channels_to_be_setup_list", T("BhChannelsToBeSetupList")),
    PutIeIf(282, "configured_bap_address", T("BapAddress")),
    PutIeIf(306, "nr_v2x_services_authorized", T("NrV2xServicesAuthorized")),
    PutIeIf(307, "ltev2x_services_authorized", T("Ltev2xServicesAuthorized")),
    PutIeIf(308, "nr_ue_sidelink_aggregate_maximum_bitrate", T("NrUeSidelinkAggregateMaximumBitrate")),
    PutIeIf(309, "lte_ue_sidelink_aggregate_maximum_bitrate", T("LteUeSidelinkAggregateMaximumBitrate")),
    PutIeIf(340, "pc5_link_ambr", T("BitRate")),
    PutIeIf(330, "sl_drbs_to_be_setup_list", T("SlDrbsToBeSetupList")),
    PutIeIf(373, "conditional_inter_du_mobility_information", T("ConditionalInterDuMobilityInformation")),
    PutIeIf(377, "management_based_mdt_plmn_list", T("MdtPlmnList")),
    PutIeIf(382, "serving_nid", T("Nid")), PutIeIf(428, "f1c_transfer_path", T("F1cTransferPath")),
    AppendIes>>
FromGnbDuResourceCoordinationResponse ==
  [GnbDuResourceCoordinationResponse |-> Codec(
     <<ReadIes(<<Ie(78, "transaction_id", T("TransactionId")),
       Ie(102, "eutra_nr_cell_resource_coordination_req_ack_container", T("EutraNrCellResourceCoordinationReqAckContainer"))>>),
       Require({"transaction_id", "eutra_nr_cell_resource_coordination_req_ack_container"})>>,
     <<PutIe(78, "transaction_id", T("TransactionId")),
       PutIe(102, "eutra_nr_cell_resource_coordination_req_ack_container", T("EutraNrCellResourceCoordinationReqAckContainer")),
       AppendIes>>),
   UeContextSetupRequest |-> Codec(UeContextSetupRequestDecode, UeContextSetupRequestEncode)]
FromCandidateSpCellList ==
  [CandidateSpCellList |-> Codec(
     <<Get("0", NonEmpty(1, 64, InIe(T("CandidateSpCellItem"))))>>,
     <<Put("0", NonEmpty(1, 64, InIe(T("CandidateSpCellItem"))))>>),
   SCellToBeSetupList |-> Codec(
     <<Get("0", NonEmpty(1, 32, InIe(T("SCellToBeSetupItem"))))>>,
     <<Put("0", NonEmpty(1, 32, InIe(T("SCellToBeSetupItem"))))>>),
   SrbsToBeSetupList |-> Codec(
     <<Get("0", NonEmpty(1, 8, InIe(T("SrbsToBeSetupItem"))))>>,
     <<Put("0", NonEmpty(1, 8, InIe(T("SrbsToBeSetupItem"))))>>)]
FromDrbsToBeSetupList ==
  [DrbsToBeSetupList |-> Codec(
     <<Get("0", NonEmpty(1, 64, InIe(T("DrbsToBeSetupItem"))))>>,
     <<Put("0", NonEmpty(1, 64, InIe(T("DrbsToBeSetupItem"))))>>),
   BhChannelsToBeSetupList |-> Codec(
     <<Get("0", NonEmpty(1, 65536, InIe(T("BhChannelsToBeSetupItem"))))>>,
     <<Put("0", NonEmpty(1, 65536, InIe(T("BhChannelsToBeSetupItem"))))>>),
   SlDrbsToBeSetupList |-> Codec(
     <<Get("0", NonEmpty(1, 512, InIe(T("SlDrbsToBeSetupItem"))))>>,
     <<Put("0", NonEmpty(1, 512, InIe(T("SlDrbsToBeSetupItem"))))>>)]
UeContextSetupResponseDecode ==
  <<ReadIes(<<Ie(40, "gnb_cu_ue_f1ap_id", T("GnbCuUeF1apId")),
    Ie(41, "gnb_du_ue_f1ap_id", T("GnbDuUeF1apId")),
    Ie(39, "du_to_cu_rrc_information", T("DuToCuRrcInformation")), Ie(95, "c_rnti", T("CRnti")),
    Ie(49, "resource_coordination_transfer_container", T("ResourceCoordinationTransferContainer")),
    Ie(94, "full_configuration", T("FullConfiguration")),
    Ie(27, "drbs_setup_list", T("DrbsSetupList")),
    Ie(66, "srbs_failed_to_be_setup_list", T("SrbsFailedToBeSetupList")),
    Ie(15, "drbs_failed_to_be_setup_list", T("DrbsFailedToBeSetupList")),
    Ie(83, "s_cell_failedto_setup_list", T("SCellFailedtoSetupList")),
    Ie(98, "inactivity_monitoring_response", T("InactivityMonitoringResponse")),
    Ie(7, "criticality_diagnostics", T("CriticalityDiagnostics")),
    Ie(202, "srbs_setup_list", T("SrbsSetupList")),
    Ie(260, "bh_channels_setup_list", T("BhChannelsSetupList")),
    Ie(279, "bh_channels_failed_to_be_setup_list", T("BhChannelsFailedToBeSetupList")),
    Ie(324, "sl_drbs_setup_list", T("SlDrbsSetupList")),
    Ie(316, "sl_drbs_failed_to_be_setup_list", T("SlDrbsFailedToBeSetupList")),
    Ie(376, "requested_target_cell_global_id", T("NrCgi"))>>), Require({"gnb_cu_ue_f1ap_id",
    "gnb_du_ue_f1ap_id", "du_to_cu_rrc_information"})>>
UeContextSetupResponseEncode ==
  <<PutIe(40, "gnb_cu_ue_f1ap_id", T("GnbCuUeF1apId")),
    PutIe(41, "gnb_du_ue_f1ap_id", T("GnbDuUeF1apId")),
    PutIe(39, "du_to_cu_rrc_information", T("DuToCuRrcInformation")),
    PutIeIf(95, "c_rnti", T("CRnti")),
    PutIeIf(49, "resource_coordination_transfer_container", T("ResourceCoordinationTransferContainer")),
    PutIeIf(94, "full_configuration", T("FullConfiguration")),
    PutIeIf(27, "drbs_setup_list", T("DrbsSetupList")),
    PutIeIf(66, "srbs_failed_to_be_setup_list", T("SrbsFailedToBeSetupList")),
    PutIeIf(15, "drbs_failed_to_be_setup_list", T("DrbsFailedToBeSetupList")),
    PutIeIf(83, "s_cell_failedto_setup_list", T("SCellFailedtoSetupList")),
    PutIeIf(98, "inactivity_monitoring_response", T("InactivityMonitoringResponse")),
    PutIeIf(7, "criticality_diagnostics", T("CriticalityDiagnostics")),
    PutIeIf(202, "srbs_setup_list", T("SrbsSetupList")),
    PutIeIf(260, "bh_channels_setup_list", T("BhChannelsSetupList")),
    PutIeIf(279, "bh_channels_failed_to_be_setup_list", T("BhChannelsFailedToBeSetupList")),
    PutIeIf(324, "sl_drbs_setup_list", T("SlDrbsSetupList")),
    PutIeIf(316, "sl_drbs_failed_to_be_setup_list", T("SlDrbsFailedToBeSetupList")),
    PutIeIf(376, "requested_target_cell_global_id", T("NrCgi")), AppendIes>>
FromUeContextSetupResponse ==
  [UeContextSetupResponse |-> Codec(UeContextSetupResponseDecode, UeContextSetupResponseEncode)]
FromDrbsSetupList ==
  [DrbsSetupList |-> Codec(
     <<Get("0", NonEmpty(1, 64, InIe(T("DrbsSetupItem"))))>>,
     <<Put("0", NonEmpty(1, 64, InIe(T("DrbsSetupItem"))))>>),
   SrbsFailedToBeSetupList |-> Codec(
     <<Get("0", NonEmpty(1, 8, InIe(T("SrbsFailedToBeSetupItem"))))>>,
     <<Put("0", NonEmpty(1, 8, InIe(T("SrbsFailedToBeSetupItem"))))>>),
   DrbsFailedToBeSetupList |-> Codec(
     <<Get("0", NonEmpty(1, 64, InIe(T("DrbsFailedToBeSetupItem"))))>>,
     <<Put("0", NonEmpty(1, 64, InIe(T("DrbsFailedToBeSetupItem"))))>>)]
FromSCellFailedtoSetupList ==
  [SCellFailedtoSetupList |-> Codec(
     <<Get("0", NonEmpty(1, 32, InIe(T("SCellFailedtoSetupItem"))))>>,
     <<Put("0", NonEmpty(1, 32, InIe(T("SCellFailedtoSetupItem"))))>>),
   SrbsSetupList |-> Codec(
     <<Get("0", NonEmpty(1, 8, InIe(T("SrbsSetupItem"))))>>,
     <<Put("0", NonEmpty(1, 8, InIe(T("SrbsSetupItem"))))>>),
   BhChannelsSetupList |-> Codec(
     <<Get("0", NonEmpty(1, 65536, InIe(T("BhChannelsSetupItem"))))>>,
     <<Put("0", NonEmpty(1, 65536, InIe(T("BhChannelsSetupItem"))))>>)]
FromBhChannelsFailedToBeSetupList ==
  [BhChannelsFailedToBeSetupList |-> Codec(
     <<Get("0", NonEmpty(1, 65536, InIe(T("BhChannelsFailedToBeSetupItem"))))>>,
     <<Put("0", NonEmpty(1, 65536, InIe(T("BhChannelsFailedToBeSetupItem"))))>>),
   SlDrbsSetupList |-> Codec(
     <<Get("0", NonEmpty(1, 512, InIe(T("SlDrbsSetupItem"))))>>,
     <<Put("0", NonEmpty(1, 512, InIe(T("SlDrbsSetupItem"))))>>),
   SlDrbsFailedToBeSetupList |-> Codec(
     <<Get("0", NonEmpty(1, 512, InIe(T("SlDrbsFailedToBeSetupItem"))))>>,
     <<Put("0", NonEmpty(1, 512, InIe(T("SlDrbsFailedToBeSetupItem"))))>>)]
FromUeContextSetupFailure ==
  [UeContextSetupFailure |-> Codec(
     <<ReadIes(<<Ie(40, "gnb_cu_ue_f1ap_id", T("GnbCuUeF1apId")),
       Ie(41, "gnb_du_ue_f1ap_id", T("GnbDuUeF1apId")), Ie(0, "cause", T("Cause")),
       Ie(7, "criticality_diagnostics", T("CriticalityDiagnostics")),
       Ie(92, "potential_sp_cell_list", T("PotentialSpCellList")),
       Ie(376, "requested_target_cell_global_id", T("NrCgi"))>>), Require({"gnb_cu_ue_f1ap_id",
       "cause"})>>,
     <<PutIe(40, "gnb_cu_ue_f1ap_id", T("GnbCuUeF1apId")),
       PutIeIf(41, "gnb_du_ue_f1ap_id", T("GnbDuUeF1apId")), PutIe(0, "cause", T("Cause")),
       PutIeIf(7, "criticality_diagnostics", T("CriticalityDiagnostics")),
       PutIeIf(92, "potential_sp_cell_list", T("PotentialSpCellList")),
       PutIeIf(376, "requested_target_cell_global_id", T("NrCgi")), AppendIes>>),
   PotentialSpCellList |-> Codec(
     <<Get("0", Vec(0, 64, InIe(T("PotentialSpCellItem"))))>>,
     <<Put("0", Vec(0, 64, InIe(T("PotentialSpCellItem"))))>>)]
FromUeContextReleaseRequest ==
  [UeContextReleaseRequest |-> Codec(
     <<ReadIes(<<Ie(40, "gnb_cu_ue_f1ap_id", T("GnbCuUeF1apId")),
       Ie(41, "gnb_du_ue_f1ap_id", T("GnbDuUeF1apId")), Ie(0, "cause", T("Cause")),
       Ie(375, "target_cells_to_cancel", T("TargetCellList"))>>), Require({"gnb_cu_ue_f1ap_id",
       "gnb_du_ue_f1ap_id", "cause"})>>,
     <<PutIe(40, "gnb_cu_ue_f1ap_id", T("GnbCuUeF1apId")),
       PutIe(41, "gnb_du_ue_f1ap_id", T("GnbDuUeF1apId")), PutIe(0, "cause", T("Cause")),
       PutIeIf(375, "target_cells_to_cancel", T("TargetCellList")), AppendIes>>)]
FromUeContextReleaseCommand ==
  [UeContextReleaseCommand |-> Codec(
     <<ReadIes(<<Ie(40, "gnb_cu_ue_f1ap_id", T("GnbCuUeF1apId")),
       Ie(41, "gnb_du_ue_f1ap_id", T("GnbDuUeF1apId")), Ie(0, "cause", T("Cause")),
       Ie(50, "rrc_container", T("RrcContainer")), Ie(64, "srb_id", T("SrbId")),
       Ie(47, "old_gnb_du_ue_f1ap_id", T("GnbDuUeF1apId")),
       Ie(109, "execute_duplication", T("ExecuteDuplication")),
       Ie(184, "rrc_delivery_status_request", T("RrcDeliveryStatusRequest")),
       Ie(375, "target_cells_to_cancel", T("TargetCellList"))>>), Require({"gnb_cu_ue_f1ap_id",
       "gnb_du_ue_f1ap_id", "cause"})>>,
     <<PutIe(40, "gnb_cu_ue_f1ap_id", T("GnbCuUeF1apId")),
       PutIe(41, "gnb_du_ue_f1ap_id", T("GnbDuUeF1apId")), PutIe(0, "cause", T("Cause")),
       PutIeIf(50, "rrc_container", T("RrcContainer")), PutIeIf(64, "srb_id", T("SrbId")),
       PutIeIf(47, "old_gnb_du_ue_f1ap_id", T("GnbDuUeF1apId")),
       PutIeIf(109, "execute_duplication", T("ExecuteDuplication")),
       PutIeIf(184, "rrc_delivery_status_request", T("RrcDeliveryStatusRequest")),
       PutIeIf(375, "target_cells_to_cancel", T("TargetCellList")), AppendIes>>)]
UeContextModificationRequestDecode ==
  <<ReadIes(<<Ie(40, "gnb_cu_ue_f1ap_id", T("GnbCuUeF1apId")),
    Ie(41, "gnb_du_ue_f1ap_id", T("GnbDuUeF1apId")), Ie(63, "sp_cell_id", T("NrCgi")),
    Ie(107, "serv_cell_index", T("ServCellIndex")),
    Ie(96, "sp_cell_ul_configured", T("CellUlConfigured")), Ie(38, "drx_cycle", T("DrxCycle")),
    Ie(9, "cu_to_du_rrc_information", T("CuToDuRrcInformation")),
    Ie(79, "transmission_action_indicator", T("TransmissionActionIndicator")),
    Ie(49, "resource_coordination_transfer_container", T("ResourceCoordinationTransferContainer")),
    Ie(87, "rrc_reconfiguration_complete_indicator", T("RrcReconfigurationCompleteIndicator")),
    Ie(50, "rrc_container", T("RrcContainer")),
    Ie(56, "s_cell_to_be_setup_mod_list", T("SCellToBeSetupModList")),
    Ie(52, "s_cell_to_be_removed_list", T("SCellToBeRemovedList")),
    Ie(76, "srbs_to_be_setup_mod_list", T("SrbsToBeSetupModList")),
    Ie(37, "drbs_to_be_setup_mod_list", T("DrbsToBeSetupModList")),
    Ie(31, "drbs_to_be_modified_list", T("DrbsToBeModifiedList")),
    Ie(72, "srbs_to_be_released_list", T("SrbsToBeReleasedList")),
    Ie(33, "drbs_to_be_released_list", T("DrbsToBeReleasedList")),
    Ie(97, "inactivity_monitoring_request", T("InactivityMonitoringRequest")),
    Ie(108, "rat_frequency_priority_information", T("RatFrequencyPriorityInformation")),
    Ie(159, "drx_configuration_indicator", T("DrxConfigurationIndicator")),
    Ie(174, "rlc_failure_indication", T("RlcFailureIndication")),
    Ie(175, "uplink_tx_direct_current_list_information", T("UplinkTxDirectCurrentListInformation")),
    Ie(162, "gnb_du_configuration_query", T("GnbDuConfigurationQuery")),
    Ie(158, "gnb_du_ue_ambr_ul", T("BitRate")),
    Ie(109, "execute_duplication", T("ExecuteDuplication")),
    Ie(184, "rrc_delivery_status_request", T("RrcDeliveryStatusRequest")),
    Ie(195, "resource_coordination_transfer_information", T("ResourceCoordinationTransferInformation")),
    Ie(182, "serving_cell_mo", T("ServingCellMo")), Ie(215, "needfor_gap", T("NeedforGap")),
    Ie(94, "full_configuration", T("FullConfiguration")),
    Ie(248, "additional_rrm_priority_index", T("AdditionalRrmPriorityIndex")),
    Ie(253, "lower_layer_presence_status_change", T("LowerLayerPresenceStatusChange")),
    Ie(267, "bh_channels_to_be_setup_mod_list", T("BhChannelsToBeSetupModList")),
    Ie(263, "bh_channels_to_be_modified_list", T("BhChannelsToBeModifiedList")),
    Ie(265, "bh_channels_to_be_released_list", T("BhChannelsToBeReleasedList")),
    Ie(306, "nr_v2x_services_authorized", T("NrV2xServicesAuthorized")),
    Ie(307, "ltev2x_services_authorized", T("Ltev2xServicesAuthorized")),
    Ie(308, "nr_ue_sidelink_aggregate_maximum_bitrate", T("NrUeSidelinkAggregateMaximumBitrate")),
    Ie(309, "lte_ue_sidelink_aggregate_maximum_bitrate", T("LteUeSidelinkAggregateMaximumBitrate")),
    Ie(340, "pc5_link_ambr", T("BitRate")),
    Ie(332, "sl_drbs_to_be_setup_mod_list", T("SlDrbsToBeSetupModList")),
    Ie(326, "sl_drbs_to_be_modified_list", T("SlDrbsToBeModifiedList")),
    Ie(328, "sl_drbs_to_be_released_list", T("SlDrbsToBeReleasedList")),
    Ie(374, "conditional_intra_du_mobility_information", T("ConditionalIntraDuMobilityInformation")),
    Ie(428, "f1c_transfer_path", T("F1cTransferPath")),
    Ie(432, "scg_indicator", T("ScgIndicator"))>>), Require({"gnb_cu_ue_f1ap_id",
    "gnb_du_ue_f1ap_id"})>>
UeContextModificationRequestEncode ==
  <<PutIe(40, "gnb_cu_ue_f1ap_id", T("GnbCuUeF1apId")),
    PutIe(41, "gnb_du_ue_f1ap_id", T("GnbDuUeF1apId")), PutIeIf(63, "sp_cell_id", T("NrCgi")),
    PutIeIf(107, "serv_cell_index", T("ServCellIndex")),
    PutIeIf(96, "sp_cell_ul_configured", T("CellUlConfigured")),
    PutIeIf(38, "drx_cycle", T("DrxCycle")),
    PutIeIf(9, "cu_to_du_rrc_information", T("CuToDuRrcInformation")),
    PutIeIf(79, "transmission_action_indicator", T("TransmissionActionIndicator")),
    PutIeIf(49, "resource_coordination_transfer_container", T("ResourceCoordinationTransferContainer")),
    PutIeIf(87, "rrc_reconfiguration_complete_indicator", T("RrcReconfigurationCompleteIndicator")),
    PutIeIf(50, "rrc_container", T("RrcContainer")),
    PutIeIf(56, "s_cell_to_be_setup_mod_list", T("SCellToBeSetupModList")),
    PutIeIf(52, "s_cell_to_be_removed_list", T("SCellToBeRemovedList")),
    PutIeIf(76, "srbs_to_be_setup_mod_list", T("SrbsToBeSetupModList")),
    PutIeIf(37, "drbs_to_be_setup_mod_list", T("DrbsToBeSetupModList")),
    PutIeIf(31, "drbs_to_be_modified_list", T("DrbsToBeModifiedList")),
    PutIeIf(72, "srbs_to_be_released_list", T("SrbsToBeReleasedList")),
    PutIeIf(33, "drbs_to_be_released_list", T("DrbsToBeReleasedList")),
    PutIeIf(97, "inactivity_monitoring_request", T("InactivityMonitoringRequest")),
    PutIeIf(108, "rat_frequency_priority_information", T("RatFrequencyPriorityInformation")),
    PutIeIf(159, "drx_configuration_indicator", T("DrxConfigurationIndicator")),
    PutIeIf(174, "rlc_failure_indication", T("RlcFailureIndication")),
    PutIeIf(175, "uplink_tx_direct_current_list_information", T("UplinkTxDirectCurrentListInformation")),
    PutIeIf(162, "gnb_du_configuration_query", T("GnbDuConfigurationQuery")),
    PutIeIf(158, "gnb_du_ue_ambr_ul", T("BitRate")),
    PutIeIf(109, "execute_duplication", T("ExecuteDuplication")),
    PutIeIf(184, "rrc_delivery_status_request", T("RrcDeliveryStatusRequest")),
    PutIeIf(195, "resource_coordination_transfer_information", T("ResourceCoordinationTransferInformation")),
    PutIeIf(182, "serving_cell_mo", T("ServingCellMo")),
    PutIeIf(215, "needfor_gap", T("NeedforGap")),
    PutIeIf(94, "full_configuration", T("FullConfiguration")),
    PutIeIf(248, "additional_rrm_priority_index", T("AdditionalRrmPriorityIndex")),
    PutIeIf(253, "lower_layer_presence_status_change", T("LowerLayerPresenceStatusChange")),
    PutIeIf(267, "bh_channels_to_be_setup_mod_list", T("BhChannelsToBeSetupModList")),
    PutIeIf(263, "bh_channels_to_be_modified_list", T("BhChannelsToBeModifiedList")),
    PutIeIf(265, "bh_channels_to_be_released_list", T("BhChannelsToBeReleasedList")),
    PutIeIf(306, "nr_v2x_services_authorized", T("NrV2xServicesAuthorized")),
    PutIeIf(307, "ltev2x_services_authorized", T("Ltev2xServicesAuthorized")),
    PutIeIf(308, "nr_ue_sidelink_aggregate_maximum_bitrate", T("NrUeSidelinkAggregateMaximumBitrate")),
    PutIeIf(309, "lte_ue_sidelink_aggregate_maximum_bitrate", T("LteUeSidelinkAggregateMaximumBitrate")),
    PutIeIf(340, "pc5_link_ambr", T("BitRate")),
    PutIeIf(332, "sl_drbs_to_be_setup_mod_list", T("SlDrbsToBeSetupModList")),
    PutIeIf(326, "sl_drbs_to_be_modified_list", T("SlDrbsToBeModifiedList")),
    PutIeIf(328, "sl_drbs_to_be_released_list", T("SlDrbsToBeReleasedList")),
    PutIeIf(374, "conditional_intra_du_mobility_information", T("ConditionalIntraDuMobilityInformation")),
    PutIeIf(428, "f1c_transfer_path", T("F1cTransferPath")),
    PutIeIf(432, "scg_indicator", T("ScgIndicator")), AppendIes>>
FromUeContextReleaseComplete ==
  [UeContextReleaseComplete |-> Codec(
     <<ReadIes(<<Ie(40, "gnb_cu_ue_f1ap_id", T("GnbCuUeF1apId")),
       Ie(41, "gnb_du_ue_f1ap_id", T("GnbDuUeF1apId")),
       Ie(7, "criticality_diagnostics", T("CriticalityDiagnostics"))>>),
       Require({"gnb_cu_ue_f1ap_id", "gnb_du_ue_f1ap_id"})>>,
     <<PutIe(40, "gnb_cu_ue_f1ap_id", T("GnbCuUeF1apId")),
       PutIe(41, "gnb_du_ue_f1ap_id", T("GnbDuUeF1apId")),
       PutIeIf(7, "criticality_diagnostics", T("CriticalityDiagnostics")), AppendIes>>),
   UeContextModificationRequest |-> Codec(UeContextModificationRequestDecode, UeContextModificationRequestEncode)]
FromSCellToBeSetupModList ==
  [SCellToBeSetupModList |-> Codec(
     <<Get("0", NonEmpty(1, 32, InIe(T("SCellToBeSetupModItem"))))>>,
     <<Put("0", NonEmpty(1, 32, InIe(T("SCellToBeSetupModItem"))))>>),
   SCellToBeRemovedList |-> Codec(
     <<Get("0", NonEmpty(1, 32, InIe(T("SCellToBeRemovedItem"))))>>,
     <<Put("0", NonEmpty(1, 32, InIe(T("SCellToBeRemovedItem"))))>>),
   SrbsToBeSetupModList |-> Codec(
     <<Get("0", NonEmpty(1, 8, InIe(T("SrbsToBeSetupModItem"))))>>,
     <<Put("0", NonEmpty(1, 8, InIe(T("SrbsToBeSetupModItem"))))>>)]
FromDrbsToBeSetupModList ==
  [DrbsToBeSetupModList |-> Codec(
     <<Get("0", NonEmpty(1, 64, InIe(T("DrbsToBeSetupModItem"))))>>,
     <<Put("0", NonEmpty(1, 64, InIe(T("DrbsToBeSetupModItem"))))>>),
   BhChannelsToBeSetupModList |-> Codec(
     <<Get("0", NonEmpty(1, 65536, InIe(T("BhChannelsToBeSetupModItem"))))>>,
     <<Put("0", NonEmpty(1, 65536, InIe(T("BhChannelsToBeSetupModItem"))))>>),
   DrbsToBeModifiedList |-> Codec(
     <<Get("0", NonEmpty(1, 64, InIe(T("DrbsToBeModifiedItem"))))>>,
     <<Put("0", NonEmpty(1, 64, InIe(T("DrbsToBeModifiedItem"))))>>)]
FromBhChannelsToBeModifiedList ==
  [BhChannelsToBeModifiedList |-> Codec(
     <<Get("0", NonEmpty(1, 65536, InIe(T("BhChannelsToBeModifiedItem"))))>>,
     <<Put("0", NonEmpty(1, 65536, InIe(T("BhChannelsToBeModifiedItem"))))>>),
   SrbsToBeReleasedList |-> Codec(
     <<Get("0", NonEmpty(1, 8, InIe(T("SrbsToBeReleasedItem"))))>>,
     <<Put("0", NonEmpty(1, 8, InIe(T("SrbsToBeReleasedItem"))))>>),
   DrbsToBeReleasedList |-> Codec(
     <<Get("0", NonEmpty(1, 64, InIe(T("DrbsToBeReleasedItem"))))>>,
     <<Put("0", NonEmpty(1, 64, InIe(T("DrbsToBeReleasedItem"))))>>)]
FromBhChannelsToBeReleasedList ==
  [BhChannelsToBeReleasedList |-> Codec(
     <<Get("0", NonEmpty(1, 65536, InIe(T("BhChannelsToBeReleasedItem"))))>>,
     <<Put("0", NonEmpty(1, 65536, InIe(T("BhChannelsToBeReleasedItem"))))>>),
   SlDrbsToBeSetupModList |-> Codec(
     <<Get("0", NonEmpty(1, 512, InIe(T("SlDrbsToBeSetupModItem"))))>>,
     <<Put("0", NonEmpty(1, 512, InIe(T("SlDrbsToBeSetupModItem"))))>>),
   SlDrbsToBeModifiedList |-> Codec(
     <<Get("0", NonEmpty(1, 512, InIe(T("SlDrbsToBeModifiedItem"))))>>,
     <<Put("0", NonEmpty(1, 512, InIe(T("SlDrbsToBeModifiedItem"))))>>)]
UeContextModificationResponseDecode ==
  <<ReadIes(<<Ie(40, "gnb_cu_ue_f1ap_id", T("GnbCuUeF1apId")),
    Ie(41, "gnb_du_ue_f1ap_id", T("GnbDuUeF1apId")),
    Ie(49, "resource_coordination_transfer_container", T("ResourceCoordinationTransferContainer")),
    Ie(39, "du_to_cu_rrc_information", T("DuToCuRrcInformation")),
    Ie(29, "drbs_setup_mod_list", T("DrbsSetupModList")),
    Ie(21, "drbs_modified_list", T("DrbsModifiedList")),
    Ie(68, "srbs_failed_to_be_setup_mod_list", T("SrbsFailedToBeSetupModList")),
    Ie(17, "drbs_failed_to_be_setup_mod_list", T("DrbsFailedToBeSetupModList")),
    Ie(85, "s_cell_failedto_setup_mod_list", T("SCellFailedtoSetupModList")),
    Ie(13, "drbs_failed_to_be_modified_list", T("DrbsFailedToBeModifiedList")),
    Ie(98, "inactivity_monitoring_response", T("InactivityMonitoringResponse")),
    Ie(7, "criticality_diagnostics", T("CriticalityDiagnostics")), Ie(95, "c_rnti", T("CRnti")),
    Ie(198, "associated_s_cell_list", T("AssociatedSCellList")),
    Ie(204, "srbs_setup_mod_list", T("SrbsSetupModList")),
    Ie(206, "srbs_modified_list", T("SrbsModifiedList")),
    Ie(94, "full_configuration", T("FullConfiguration")),
    Ie(275, "bh_channels_setup_mod_list", T("BhChannelsSetupModList")),
    Ie(273, "bh_channels_modified_list", T("BhChannelsModifiedList")),
    Ie(271, "bh_channels_failed_to_be_setup_mod_list", T("BhChannelsFailedToBeSetupModList")),
    Ie(269, "bh_channels_failed_to_be_modified_list", T("BhChannelsFailedToBeModifiedList")),
    Ie(333, "sl_drbs_setup_mod_list", T("SlDrbsSetupModList")),
    Ie(318, "sl_drbs_modified_list", T("SlDrbsModifiedList")),
    Ie(334, "sl_drbs_failed_to_be_setup_mod_list", T("SlDrbsFailedToBeSetupModList")),
    Ie(314, "sl_drbs_failed_to_be_modified_list", T("SlDrbsFailedToBeModifiedList")),
    Ie(376, "requested_target_cell_global_id", T("NrCgi"))>>), Require({"gnb_cu_ue_f1ap_id",
    "gnb_du_ue_f1ap_id"})>>
UeContextModificationResponseEncode ==
  <<PutIe(40, "gnb_cu_ue_f1ap_id", T("GnbCuUeF1apId")),
    PutIe(41, "gnb_du_ue_f1ap_id", T("GnbDuUeF1apId")),
    PutIeIf(49, "resource_coordination_transfer_container", T("ResourceCoordinationTransferContainer")),
    PutIeIf(39, "du_to_cu_rrc_information", T("DuToCuRrcInformation")),
    PutIeIf(29, "drbs_setup_mod_list", T("DrbsSetupModList")),
    PutIeIf(21, "drbs_modified_list", T("DrbsModifiedList")),
    PutIeIf(68, "srbs_failed_to_be_setup_mod_list", T("SrbsFailedToBeSetupModList")),
    PutIeIf(17, "drbs_failed_to_be_setup_mod_list", T("DrbsFailedToBeSetupModList")),
    PutIeIf(85, "s_cell_failedto_setup_mod_list", T("SCellFailedtoSetupModList")),
    PutIeIf(13, "drbs_failed_to_be_modified_list", T("DrbsFailedToBeModifiedList")),
    PutIeIf(98, "inactivity_monitoring_response", T("InactivityMonitoringResponse")),
    PutIeIf(7, "criticality_diagnostics", T("CriticalityDiagnostics")),
    PutIeIf(95, "c_rnti", T("CRnti")),
    PutIeIf(198, "associated_s_cell_list", T("AssociatedSCellList")),
    PutIeIf(204, "srbs_setup_mod_list", T("SrbsSetupModList")),
    PutIeIf(206, "srbs_modified_list", T("SrbsModifiedList")),
    PutIeIf(94, "full_configuration", T("FullConfiguration")),
    PutIeIf(275, "bh_channels_setup_mod_list", T("BhChannelsSetupModList")),
    PutIeIf(273, "bh_channels_modified_list", T("BhChannelsModifiedList")),
    PutIeIf(271, "bh_channels_failed_to_be_setup_mod_list", T("BhChannelsFailedToBeSetupModList")),
    PutIeIf(269, "bh_channels_failed_to_be_modified_list", T("BhChannelsFailedToBeModifiedList")),
    PutIeIf(333, "sl_drbs_setup_mod_list", T("SlDrbsSetupModList")),
    PutIeIf(318, "sl_drbs_modified_list", T("SlDrbsModifiedList")),
    PutIeIf(334, "sl_drbs_failed_to_be_setup_mod_list", T("SlDrbsFailedToBeSetupModList")),
    PutIeIf(314, "sl_drbs_failed_to_be_modified_list", T("SlDrbsFailedToBeModifiedList")),
    PutIeIf(376, "requested_target_cell_global_id", T("NrCgi")), AppendIes>>
FromSlDrbsToBeReleasedList ==
  [SlDrbsToBeReleasedList |-> Codec(
     <<Get("0", NonEmpty(1, 512, InIe(T("SlDrbsToBeReleasedItem"))))>>,
     <<Put("0", NonEmpty(1, 512, InIe(T("SlDrbsToBeReleasedItem"))))>>),
   UeContextModificationResponse |-> Codec(UeContextModificationResponseDecode, UeContextModificationResponseEncode)]
FromDrbsSetupModList ==
  [DrbsSetupModList |-> Codec(
     <<Get("0", NonEmpty(1, 64, InIe(T("DrbsSetupModItem"))))>>,
     <<Put("0", NonEmpty(1, 64, InIe(T("DrbsSetupModItem"))))>>),
   DrbsModifiedList |-> Codec(
     <<Get("0", NonEmpty(1, 64, InIe(T("DrbsModifiedItem"))))>>,
     <<Put("0", NonEmpty(1, 64, InIe(T("DrbsModifiedItem"))))>>),
   SrbsSetupModList |-> Codec(
     <<Get("0", NonEmpty(1, 8, InIe(T("SrbsSetupModItem"))))>>,
     <<Put("0", NonEmpty(1, 8, InIe(T("SrbsSetupModItem"))))>>)]
FromSrbsModifiedList ==
  [SrbsModifiedList |-> Codec(
     <<Get("0", NonEmpty(1, 8, InIe(T("SrbsModifiedItem"))))>>,
     <<Put("0", NonEmpty(1, 8, InIe(T("SrbsModifiedItem"))))>>),
   DrbsFailedToBeModifiedList |-> Codec(
     <<Get("0", NonEmpty(1, 64, InIe(T("DrbsFailedToBeModifiedItem"))))>>,
     <<Put("0", NonEmpty(1, 64, InIe(T("DrbsFailedToBeModifiedItem"))))>>),
   SrbsFailedToBeSetupModList |-> Codec(
     <<Get("0", NonEmpty(1, 8, InIe(T("SrbsFailedToBeSetupModItem"))))>>,
     <<Put("0", NonEmpty(1, 8, InIe(T("SrbsFailedToBeSetupModItem"))))>>)]
FromDrbsFailedToBeSetupModList ==
  [DrbsFailedToBeSetupModList |-> Codec(
     <<Get("0", NonEmpty(1, 64, InIe(T("DrbsFailedToBeSetupModItem"))))>>,
     <<Put("0", NonEmpty(1, 64, InIe(T("DrbsFailedToBeSetupModItem"))))>>),
   SCellFailedtoSetupModList |-> Codec(
     <<Get("0", NonEmpty(1, 32, InIe(T("SCellFailedtoSetupModItem"))))>>,
     <<Put("0", NonEmpty(1, 32, InIe(T("SCellFailedtoSetupModItem"))))>>),
   BhChannelsSetupModList |-> Codec(
     <<Get("0", NonEmpty(1, 65536, InIe(T("BhChannelsSetupModItem"))))>>,
     <<Put("0", NonEmpty(1, 65536, InIe(T("BhChannelsSetupModItem"))))>>)]
FromBhChannelsModifiedList ==
  [BhChannelsModifiedList |-> Codec(
     <<Get("0", NonEmpty(1, 65536, InIe(T("BhChannelsModifiedItem"))))>>,
     <<Put("0", NonEmpty(1, 65536, InIe(T("BhChannelsModifiedItem"))))>>),
   BhChannelsFailedToBeModifiedList |-> Codec(
     <<Get("0", NonEmpty(1, 65536, InIe(T("BhChannelsFailedToBeModifiedItem"))))>>,
     <<Put("0", NonEmpty(1, 65536, InIe(T("BhChannelsFailedToBeModifiedItem"))))>>),
   BhChannelsFailedToBeSetupModList |-> Codec(
     <<Get("0", NonEmpty(1, 65536, InIe(T("BhChannelsFailedToBeSetupModItem"))))>>,
     <<Put("0", NonEmpty(1, 65536, InIe(T("BhChannelsFailedToBeSetupModItem"))))>>)]
FromAssociatedSCellList ==
  [AssociatedSCellList |-> Codec(
     <<Get("0", NonEmpty(1, 32, InIe(T("AssociatedSCellItem"))))>>,
     <<Put("0", NonEmpty(1, 32, InIe(T("AssociatedSCellItem"))))>>),
   SlDrbsSetupModList |-> Codec(
     <<Get("0", NonEmpty(1, 512, InIe(T("SlDrbsSetupModItem"))))>>,
     <<Put("0", NonEmpty(1, 512, InIe(T("SlDrbsSetupModItem"))))>>),
   SlDrbsModifiedList |-> Codec(
     <<Get("0", NonEmpty(1, 512, InIe(T("SlDrbsModifiedItem"))))>>,
     <<Put("0", NonEmpty(1, 512, InIe(T("SlDrbsModifiedItem"))))>>)]
FromSlDrbsFailedToBeModifiedList ==
  [SlDrbsFailedToBeModifiedList |-> Codec(
     <<Get("0", NonEmpty(1, 512, InIe(T("SlDrbsFailedToBeModifiedItem"))))>>,
     <<Put("0", NonEmpty(1, 512, InIe(T("SlDrbsFailedToBeModifiedItem"))))>>),
   SlDrbsFailedToBeSetupModList |-> Codec(
     <<Get("0", NonEmpty(1, 512, InIe(T("SlDrbsFailedToBeSetupModItem"))))>>,
     <<Put("0", NonEmpty(1, 512, InIe(T("SlDrbsFailedToBeSetupModItem"))))>>)]
UeContextModificationRequiredDecode ==
  <<ReadIes(<<Ie(40, "gnb_cu_ue_f1ap_id", T("GnbCuUeF1apId")),
    Ie(41, "gnb_du_ue_f1ap_id", T("GnbDuUeF1apId")),
    Ie(49, "resource_coordination_transfer_container", T("ResourceCoordinationTransferContainer")),
    Ie(39, "du_to_cu_rrc_information", T("DuToCuRrcInformation")),
    Ie(23, "drbs_required_to_be_modified_list", T("DrbsRequiredToBeModifiedList")),
    Ie(70, "srbs_required_to_be_released_list", T("SrbsRequiredToBeReleasedList")),
    Ie(25, "drbs_required_to_be_released_list", T("DrbsRequiredToBeReleasedList")),
    Ie(0, "cause", T("Cause")),
    Ie(277, "bh_channels_required_to_be_released_list", T("BhChannelsRequiredToBeReleasedList")),
    Ie(320, "sl_drbs_required_to_be_modified_list", T("SlDrbsRequiredToBeModifiedList")),
    Ie(322, "sl_drbs_required_to_be_released_list", T("SlDrbsRequiredToBeReleasedList")),
    Ie(375, "target_cells_to_cancel", T("TargetCellList"))>>), Require({"gnb_cu_ue_f1ap_id",
    "gnb_du_ue_f1ap_id", "cause"})>>
UeContextModificationRequiredEncode ==
  <<PutIe(40, "gnb_cu_ue_f1ap_id", T("GnbCuUeF1apId")),
    PutIe(41, "gnb_du_ue_f1ap_id", T("GnbDuUeF1apId")),
    PutIeIf(49, "resource_coordination_transfer_container", T("ResourceCoordinationTransferContainer")),
    PutIeIf(39, "du_to_cu_rrc_information", T("DuToCuRrcInformation")),
    PutIeIf(23, "drbs_required_to_be_modified_list", T("DrbsRequiredToBeModifiedList")),
    PutIeIf(70, "srbs_required_to_be_released_list", T("SrbsRequiredToBeReleasedList")),
    PutIeIf(25, "drbs_required_to_be_released_list", T("DrbsRequiredToBeReleasedList")),
    PutIe(0, "cause", T("Cause")),
    PutIeIf(277, "bh_channels_required_to_be_released_list", T("BhChannelsRequiredToBeReleasedList")),
    PutIeIf(320, "sl_drbs_required_to_be_modified_list", T("SlDrbsRequiredToBeModifiedList")),
    PutIeIf(322, "sl_drbs_required_to_be_released_list", T("SlDrbsRequiredToBeReleasedList")),
    PutIeIf(375, "target_cells_to_cancel", T("TargetCellList")), AppendIes>>
FromUeContextModificationFailure ==
  [UeContextModificationFailure |-> Codec(
     <<ReadIes(<<Ie(40, "gnb_cu_ue_f1ap_id", T("GnbCuUeF1apId")),
       Ie(41, "gnb_du_ue_f1ap_id", T("GnbDuUeF1apId")), Ie(0, "cause", T("Cause")),
       Ie(7, "criticality_diagnostics", T("CriticalityDiagnostics")),
       Ie(376, "requested_target_cell_global_id", T("NrCgi"))>>), Require({"gnb_cu_ue_f1ap_id",
       "gnb_du_ue_f1ap_id", "cause"})>>,
     <<PutIe(40, "gnb_cu_ue_f1ap_id", T("GnbCuUeF1apId")),
       PutIe(41, "gnb_du_ue_f1ap_id", T("GnbDuUeF1apId")), PutIe(0, "cause", T("Cause")),
       PutIeIf(7, "criticality_diagnostics", T("CriticalityDiagnostics")),
       PutIeIf(376, "requested_target_cell_global_id", T("NrCgi")), AppendIes>>),
   UeContextModificationRequired |-> Codec(UeContextModificationRequiredDecode, UeContextModificationRequiredEncode)]
FromDrbsRequiredToBeModifiedList ==
  [DrbsRequiredToBeModifiedList |-> Codec(
     <<Get("0", NonEmpty(1, 64, InIe(T("DrbsRequiredToBeModifiedItem"))))>>,
     <<Put("0", NonEmpty(1, 64, InIe(T("DrbsRequiredToBeModifiedItem"))))>>),
   DrbsRequiredToBeReleasedList |-> Codec(
     <<Get("0", NonEmpty(1, 64, InIe(T("DrbsRequiredToBeReleasedItem"))))>>,
     <<Put("0", NonEmpty(1, 64, InIe(T("DrbsRequiredToBeReleasedItem"))))>>),
   SrbsRequiredToBeReleasedList |-> Codec(
     <<Get("0", NonEmpty(1, 8, InIe(T("SrbsRequiredToBeReleasedItem"))))>>,
     <<Put("0", NonEmpty(1, 8, InIe(T("SrbsRequiredToBeReleasedItem"))))>>)]
FromBhChannelsRequiredToBeReleasedList ==
  [BhChannelsRequiredToBeReleasedList |-> Codec(
     <<Get("0", NonEmpty(1, 65536, InIe(T("BhChannelsRequiredToBeReleasedItem"))))>>,
     <<Put("0", NonEmpty(1, 65536, InIe(T("BhChannelsRequiredToBeReleasedItem"))))>>),
   SlDrbsRequiredToBeModifiedList |-> Codec(
     <<Get("0", NonEmpty(1, 512, InIe(T("SlDrbsRequiredToBeModifiedItem"))))>>,
     <<Put("0", NonEmpty(1, 512, InIe(T("SlDrbsRequiredToBeModifiedItem"))))>>),
   SlDrbsRequiredToBeReleasedList |-> Codec(
     <<Get("0", NonEmpty(1, 512, InIe(T("SlDrbsRequiredToBeReleasedItem"))))>>,
     <<Put("0", NonEmpty(1, 512, InIe(T("SlDrbsRequiredToBeReleasedItem"))))>>)]
FromUeContextModificationConfirm ==
  [UeContextModificationConfirm |-> Codec(
     <<ReadIes(<<Ie(40, "gnb_cu_ue_f1ap_id", T("GnbCuUeF1apId")),
       Ie(41, "gnb_du_ue_f1ap_id", T("GnbDuUeF1apId")),
       Ie(49, "resource_coordination_transfer_container", T("ResourceCoordinationTransferContainer")),
       Ie(19, "drbs_modified_conf_list", T("DrbsModifiedConfList")),
       Ie(50, "rrc_container", T("RrcContainer")),
       Ie(7, "criticality_diagnostics", T("CriticalityDiagnostics")),
       Ie(109, "execute_duplication", T("ExecuteDuplication")),
       Ie(195, "resource_coordination_transfer_information", T("ResourceCoordinationTransferInformation")),
       Ie(337, "sl_drbs_modified_conf_list", T("SlDrbsModifiedConfList"))>>),
       Require({"gnb_cu_ue_f1ap_id", "gnb_du_ue_f1ap_id"})>>,
     <<PutIe(40, "gnb_cu_ue_f1ap_id", T("GnbCuUeF1apId")),
       PutIe(41, "gnb_du_ue_f1ap_id", T("GnbDuUeF1apId")),
       PutIeIf(49, "resource_coordination_transfer_container", T("ResourceCoordinationTransferContainer")),
       PutIeIf(19, "drbs_modified_conf_list", T("DrbsModifiedConfList")),
       PutIeIf(50, "rrc_container", T("RrcContainer")),
       PutIeIf(7, "criticality_diagnostics", T("CriticalityDiagnostics")),
       PutIeIf(109, "execute_duplication", T("ExecuteDuplication")),
       PutIeIf(195, "resource_coordination_transfer_information", T("ResourceCoordinationTransferInformation")),
       PutIeIf(337, "sl_drbs_modified_conf_list", T("SlDrbsModifiedConfList")), AppendIes>>)]
FromDrbsModifiedConfList ==
  [DrbsModifiedConfList |-> Codec(
     <<Get("0", NonEmpty(1, 64, InIe(T("DrbsModifiedConfItem"))))>>,
     <<Put("0", NonEmpty(1, 64, InIe(T("DrbsModifiedConfItem"))))>>),
   SlDrbsModifiedConfList |-> Codec(
     <<Get("0", NonEmpty(1, 512, InIe(T("SlDrbsModifiedConfItem"))))>>,
     <<Put("0", NonEmpty(1, 512, InIe(T("SlDrbsModifiedConfItem"))))>>),
   UeContextModificationRefuse |-> Codec(
     <<ReadIes(<<Ie(40, "gnb_cu_ue_f1ap_id", T("GnbCuUeF1apId")),
       Ie(41, "gnb_du_ue_f1ap_id", T("GnbDuUeF1apId")), Ie(0, "cause", T("Cause")),
       Ie(7, "criticality_diagnostics", T("CriticalityDiagnostics"))>>),
       Require({"gnb_cu_ue_f1ap_id", "gnb_du_ue_f1ap_id", "cause"})>>,
     <<PutIe(40, "gnb_cu_ue_f1ap_id", T("GnbCuUeF1apId")),
       PutIe(41, "gnb_du_ue_f1ap_id", T("GnbDuUeF1apId")), PutIe(0, "cause", T("Cause")),
       PutIeIf(7, "criticality_diagnostics", T("CriticalityDiagnostics")), AppendIes>>)]

Codecs == {FromReset, FromResetAll, FromUeAssociatedLogicalF1ConnectionListResAck,
  FromF1SetupRequest, FromGnbDuServedCellsList, FromCellsToBeActivatedList,
  FromGnbDuConfigurationUpdate, FromServedCellsToAddList, FromCellsStatusList,
  FromGnbDuConfigurationUpdateAcknowledge, FromGnbDuConfigurationUpdateFailure,
  FromCellsToBeDeactivatedList, FromGnbCuTnlAssociationToUpdateList,
  FromNeighbourCellInformationList, FromCellsFailedToBeActivatedList,
  FromGnbCuConfigurationUpdateFailure, FromGnbDuResourceCoordinationRequest,
  FromGnbDuResourceCoordinationResponse, FromCandidateSpCellList, FromDrbsToBeSetupList,
  FromUeContextSetupResponse, FromDrbsSetupList, FromSCellFailedtoSetupList,
  FromBhChannelsFailedToBeSetupList, FromUeContextSetupFailure, FromUeContextReleaseRequest,
  FromUeContextReleaseCommand, FromUeContextReleaseComplete, FromSCellToBeSetupModList,
  FromDrbsToBeSetupModList, FromBhChannelsToBeModifiedList, FromBhChannelsToBeReleasedList,
  FromSlDrbsToBeReleasedList, FromDrbsSetupModList, FromSrbsModifiedList,
  FromDrbsFailedToBeSetupModList, FromBhChannelsModifiedList, FromAssociatedSCellList,
  FromSlDrbsFailedToBeModifiedList, FromUeContextModificationFailure,
  FromDrbsRequiredToBeModifiedList, FromBhChannelsRequiredToBeReleasedList,
  FromUeContextModificationConfirm, FromDrbsModifiedConfList}
=============================================================================
