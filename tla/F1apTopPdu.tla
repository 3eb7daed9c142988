----------------------------- MODULE F1apTopPdu -----------------------------
(***************************************************************************)
(* The programs of the codecs of f1ap/src/top_pdu.rs, and its procedures.  *)
(***************************************************************************)
EXTENDS PerLayout, TLC

F1apPdu == Codec(
  <<ReadChoice(0, 3, FALSE, <<Alt(0, "InitiatingMessage", T("InitiatingMessage")),
    Alt(1, "SuccessfulOutcome", T("SuccessfulOutcome")),
    Alt(2, "UnsuccessfulOutcome", T("UnsuccessfulOutcome")), AltIes(3, <<>>)>>)>>,
  <<WriteChoice(0, 3, FALSE, <<Arm("InitiatingMessage", 0, T("InitiatingMessage")),
    Arm("SuccessfulOutcome", 1, T("SuccessfulOutcome")),
    Arm("UnsuccessfulOutcome", 2, T("UnsuccessfulOutcome"))>>)>>)
InitiatingMessageDecode ==
  <<ReadProcedure(<<Ie(0, "Reset", T("Reset")), Ie(1, "F1SetupRequest", T("F1SetupRequest")),
    Ie(3, "GnbDuConfigurationUpdate", T("GnbDuConfigurationUpdate")),
    Ie(4, "GnbCuConfigurationUpdate", T("GnbCuConfigurationUpdate")),
    Ie(5, "UeContextSetupRequest", T("UeContextSetupRequest")),
    Ie(6, "UeContextReleaseCommand", T("UeContextReleaseCommand")),
    Ie(7, "UeContextModificationRequest", T("UeContextModificationRequest")),
    Ie(8, "UeContextModificationRequired", T("UeContextModificationRequired")),
    Ie(20, "WriteReplaceWarningRequest", T("WriteReplaceWarningRequest")),
    Ie(21, "PwsCancelRequest", T("PwsCancelRequest")),
    Ie(2, "ErrorIndication", T("ErrorIndication")),
    Ie(10, "UeContextReleaseRequest", T("UeContextReleaseRequest")),
    Ie(11, "InitialUlRrcMessageTransfer", T("InitialUlRrcMessageTransfer")),
    Ie(12, "DlRrcMessageTransfer", T("DlRrcMessageTransfer")),
    Ie(13, "UlRrcMessageTransfer", T("UlRrcMessageTransfer")),
    Ie(15, "UeInactivityNotification", T("UeInactivityNotification")),
    Ie(16, "GnbDuResourceCoordinationRequest", T("GnbDuResourceCoordinationRequest")),
    Ie(17, "SystemInformationDeliveryCommand", T("SystemInformationDeliveryCommand")),
    Ie(18, "Paging", T("Paging")), Ie(19, "Notify", T("Notify")),
    Ie(27, "NetworkAccessRateReduction", T("NetworkAccessRateReduction")),
    Ie(22, "PwsRestartIndication", T("PwsRestartIndication")),
    Ie(23, "PwsFailureIndication", T("PwsFailureIndication")),
    Ie(24, "GnbDuStatusIndication", T("GnbDuStatusIndication")),
    Ie(25, "RrcDeliveryReport", T("RrcDeliveryReport")),
    Ie(26, "F1RemovalRequest", T("F1RemovalRequest")), Ie(28, "TraceStart", T("TraceStart")),
    Ie(29, "DeactivateTrace", T("DeactivateTrace")),
    Ie(30, "DuCuRadioInformationTransfer", T("DuCuRadioInformationTransfer")),
    Ie(31, "CuDuRadioInformationTransfer", T("CuDuRadioInformationTransfer")),
    Ie(32, "BapMappingConfiguration", T("BapMappingConfiguration")),
    Ie(33, "GnbDuResourceConfiguration", T("GnbDuResourceConfiguration")),
    Ie(34, "IabtnlAddressRequest", T("IabtnlAddressRequest")),
    Ie(35, "IabupConfigurationUpdateRequest", T("IabupConfigurationUpdateRequest")),
    Ie(36, "ResourceStatusRequest", T("ResourceStatusRequest")),
    Ie(37, "ResourceStatusUpdate", T("ResourceStatusUpdate")),
    Ie(38, "AccessAndMobilityIndication", T("AccessAndMobilityIndication")),
    Ie(58, "ReferenceTimeInformationReportingControl", T("ReferenceTimeInformationReportingControl")),
    Ie(57, "ReferenceTimeInformationReport", T("ReferenceTimeInformationReport")),
    Ie(39, "AccessSuccess", T("AccessSuccess")), Ie(40, "CellTrafficTrace", T("CellTrafficTrace")),
    Ie(42, "PositioningAssistanceInformationControl", T("PositioningAssistanceInformationControl")),
    Ie(43, "PositioningAssistanceInformationFeedback", T("PositioningAssistanceInformationFeedback")),
    Ie(41, "PositioningMeasurementRequest", T("PositioningMeasurementRequest")),
    Ie(44, "PositioningMeasurementReport", T("PositioningMeasurementReport")),
    Ie(45, "PositioningMeasurementAbort", T("PositioningMeasurementAbort")),
    Ie(46, "PositioningMeasurementFailureIndication", T("PositioningMeasurementFailureIndication")),
    Ie(47, "PositioningMeasurementUpdate", T("PositioningMeasurementUpdate")),
    Ie(48, "TrpInformationRequest", T("TrpInformationRequest")),
    Ie(49, "PositioningInformationRequest", T("PositioningInformationRequest")),
    Ie(50, "PositioningActivationRequest", T("PositioningActivationRequest")),
    Ie(51, "PositioningDeactivation", T("PositioningDeactivation")),
    Ie(52, "ECidMeasurementInitiationRequest", T("ECidMeasurementInitiationRequest")),
    Ie(53, "ECidMeasurementFailureIndication", T("ECidMeasurementFailureIndication")),
    Ie(54, "ECidMeasurementReport", T("ECidMeasurementReport")),
    Ie(55, "ECidMeasurementTerminationCommand", T("ECidMeasurementTerminationCommand")),
    Ie(56, "PositioningInformationUpdate", T("PositioningInformationUpdate"))>>)>>
InitiatingMessageEncode ==
  <<WriteProcedure(<<Arm("Reset", 0, T("Reset")), Arm("F1SetupRequest", 1, T("F1SetupRequest")),
    Arm("GnbDuConfigurationUpdate", 3, T("GnbDuConfigurationUpdate")),
    Arm("GnbCuConfigurationUpdate", 4, T("GnbCuConfigurationUpdate")),
    Arm("UeContextSetupRequest", 5, T("UeContextSetupRequest")),
    Arm("UeContextReleaseCommand", 6, T("UeContextReleaseCommand")),
    Arm("UeContextModificationRequest", 7, T("UeContextModificationRequest")),
    Arm("UeContextModificationRequired", 8, T("UeContextModificationRequired")),
    Arm("WriteReplaceWarningRequest", 20, T("WriteReplaceWarningRequest")),
    Arm("PwsCancelRequest", 21, T("PwsCancelRequest")),
    Arm("ErrorIndication", 2, T("ErrorIndication")),
    Arm("UeContextReleaseRequest", 10, T("UeContextReleaseRequest")),
    Arm("InitialUlRrcMessageTransfer", 11, T("InitialUlRrcMessageTransfer")),
    Arm("DlRrcMessageTransfer", 12, T("DlRrcMessageTransfer")),
    Arm("UlRrcMessageTransfer", 13, T("UlRrcMessageTransfer")),
    Arm("UeInactivityNotification", 15, T("UeInactivityNotification")),
    Arm("GnbDuResourceCoordinationRequest", 16, T("GnbDuResourceCoordinationRequest")),
    Arm("SystemInformationDeliveryCommand", 17, T("SystemInformationDeliveryCommand")),
    Arm("Paging", 18, T("Paging")), Arm("Notify", 19, T("Notify")),
    Arm("NetworkAccessRateReduction", 27, T("NetworkAccessRateReduction")),
    Arm("PwsRestartIndication", 22, T("PwsRestartIndication")),
    Arm("PwsFailureIndication", 23, T("PwsFailureIndication")),
    Arm("GnbDuStatusIndication", 24, T("GnbDuStatusIndication")),
    Arm("RrcDeliveryReport", 25, T("RrcDeliveryReport")),
    Arm("F1RemovalRequest", 26, T("F1RemovalRequest")), Arm("TraceStart", 28, T("TraceStart")),
    Arm("DeactivateTrace", 29, T("DeactivateTrace")),
    Arm("DuCuRadioInformationTransfer", 30, T("DuCuRadioInformationTransfer")),
    Arm("CuDuRadioInformationTransfer", 31, T("CuDuRadioInformationTransfer")),
    Arm("BapMappingConfiguration", 32, T("BapMappingConfiguration")),
    Arm("GnbDuResourceConfiguration", 33, T("GnbDuResourceConfiguration")),
    Arm("IabtnlAddressRequest", 34, T("IabtnlAddressRequest")),
    Arm("IabupConfigurationUpdateRequest", 35, T("IabupConfigurationUpdateRequest")),
    Arm("ResourceStatusRequest", 36, T("ResourceStatusRequest")),
    Arm("ResourceStatusUpdate", 37, T("ResourceStatusUpdate")),
    Arm("AccessAndMobilityIndication", 38, T("AccessAndMobilityIndication")),
    Arm("ReferenceTimeInformationReportingControl", 58, T("ReferenceTimeInformationReportingControl")),
    Arm("ReferenceTimeInformationReport", 57, T("ReferenceTimeInformationReport")),
    Arm("AccessSuccess", 39, T("AccessSuccess")),
    Arm("CellTrafficTrace", 40, T("CellTrafficTrace")),
    Arm("PositioningAssistanceInformationControl", 42, T("PositioningAssistanceInformationControl")),
    Arm("PositioningAssistanceInformationFeedback", 43, T("PositioningAssistanceInformationFeedback")),
    Arm("PositioningMeasurementRequest", 41, T("PositioningMeasurementRequest")),
    Arm("PositioningMeasurementReport", 44, T("PositioningMeasurementReport")),
    Arm("PositioningMeasurementAbort", 45, T("PositioningMeasurementAbort")),
    Arm("PositioningMeasurementFailureIndication", 46, T("PositioningMeasurementFailureIndication")),
    Arm("PositioningMeasurementUpdate", 47, T("PositioningMeasurementUpdate")),
    Arm("TrpInformationRequest", 48, T("TrpInformationRequest")),
    Arm("PositioningInformationRequest", 49, T("PositioningInformationRequest")),
    Arm("PositioningActivationRequest", 50, T("PositioningActivationRequest")),
    Arm("PositioningDeactivation", 51, T("PositioningDeactivation")),
    Arm("ECidMeasurementInitiationRequest", 52, T("ECidMeasurementInitiationRequest")),
    Arm("ECidMeasurementFailureIndication", 53, T("ECidMeasurementFailureIndication")),
    Arm("ECidMeasurementReport", 54, T("ECidMeasurementReport")),
    Arm("ECidMeasurementTerminationCommand", 55, T("ECidMeasurementTerminationCommand")),
    Arm("PositioningInformationUpdate", 56, T("PositioningInformationUpdate"))>>)>>
InitiatingMessage == Codec(InitiatingMessageDecode, InitiatingMessageEncode)
SuccessfulOutcomeDecode ==
  <<ReadProcedure(<<Ie(0, "ResetAcknowledge", T("ResetAcknowledge")),
    Ie(1, "F1SetupResponse", T("F1SetupResponse")),
    Ie(3, "GnbDuConfigurationUpdateAcknowledge", T("GnbDuConfigurationUpdateAcknowledge")),
    Ie(4, "GnbCuConfigurationUpdateAcknowledge", T("GnbCuConfigurationUpdateAcknowledge")),
    Ie(5, "UeContextSetupResponse", T("UeContextSetupResponse")),
    Ie(6, "UeContextReleaseComplete", T("UeContextReleaseComplete")),
    Ie(7, "UeContextModificationResponse", T("UeContextModificationResponse")),
    Ie(8, "UeContextModificationConfirm", T("UeContextModificationConfirm")),
    Ie(20, "WriteReplaceWarningResponse", T("WriteReplaceWarningResponse")),
    Ie(21, "PwsCancelResponse", T("PwsCancelResponse")),
    Ie(16, "GnbDuResourceCoordinationResponse", T("GnbDuResourceCoordinationResponse")),
    Ie(26, "F1RemovalResponse", T("F1RemovalResponse")),
    Ie(32, "BapMappingConfigurationAcknowledge", T("BapMappingConfigurationAcknowledge")),
    Ie(33, "GnbDuResourceConfigurationAcknowledge", T("GnbDuResourceConfigurationAcknowledge")),
    Ie(34, "IabtnlAddressResponse", T("IabtnlAddressResponse")),
    Ie(35, "IabupConfigurationUpdateResponse", T("IabupConfigurationUpdateResponse")),
    Ie(36, "ResourceStatusResponse", T("ResourceStatusResponse")),
    Ie(41, "PositioningMeasurementResponse", T("PositioningMeasurementResponse")),
    Ie(48, "TrpInformationResponse", T("TrpInformationResponse")),
    Ie(49, "PositioningInformationResponse", T("PositioningInformationResponse")),
    Ie(50, "PositioningActivationResponse", T("PositioningActivationResponse")),
    Ie(52, "ECidMeasurementInitiationResponse", T("ECidMeasurementInitiationResponse"))>>)>>
SuccessfulOutcomeEncode ==
  <<WriteProcedure(<<Arm("ResetAcknowledge", 0, T("ResetAcknowledge")),
    Arm("F1SetupResponse", 1, T("F1SetupResponse")),
    Arm("GnbDuConfigurationUpdateAcknowledge", 3, T("GnbDuConfigurationUpdateAcknowledge")),
    Arm("GnbCuConfigurationUpdateAcknowledge", 4, T("GnbCuConfigurationUpdateAcknowledge")),
    Arm("UeContextSetupResponse", 5, T("UeContextSetupResponse")),
    Arm("UeContextReleaseComplete", 6, T("UeContextReleaseComplete")),
    Arm("UeContextModificationResponse", 7, T("UeContextModificationResponse")),
    Arm("UeContextModificationConfirm", 8, T("UeContextModificationConfirm")),
    Arm("WriteReplaceWarningResponse", 20, T("WriteReplaceWarningResponse")),
    Arm("PwsCancelResponse", 21, T("PwsCancelResponse")),
    Arm("GnbDuResourceCoordinationResponse", 16, T("GnbDuResourceCoordinationResponse")),
    Arm("F1RemovalResponse", 26, T("F1RemovalResponse")),
    Arm("BapMappingConfigurationAcknowledge", 32, T("BapMappingConfigurationAcknowledge")),
    Arm("GnbDuResourceConfigurationAcknowledge", 33, T("GnbDuResourceConfigurationAcknowledge")),
    Arm("IabtnlAddressResponse", 34, T("IabtnlAddressResponse")),
    Arm("IabupConfigurationUpdateResponse", 35, T("IabupConfigurationUpdateResponse")),
    Arm("ResourceStatusResponse", 36, T("ResourceStatusResponse")),
    Arm("PositioningMeasurementResponse", 41, T("PositioningMeasurementResponse")),
    Arm("TrpInformationResponse", 48, T("TrpInformationResponse")),
    Arm("PositioningInformationResponse", 49, T("PositioningInformationResponse")),
    Arm("PositioningActivationResponse", 50, T("PositioningActivationResponse")),
    Arm("ECidMeasurementInitiationResponse", 52, T("ECidMeasurementInitiationResponse"))>>)>>
SuccessfulOutcome == Codec(SuccessfulOutcomeDecode, SuccessfulOutcomeEncode)
UnsuccessfulOutcomeDecode ==
  <<ReadProcedure(<<Ie(1, "F1SetupFailure", T("F1SetupFailure")),
    Ie(3, "GnbDuConfigurationUpdateFailure", T("GnbDuConfigurationUpdateFailure")),
    Ie(4, "GnbCuConfigurationUpdateFailure", T("GnbCuConfigurationUpdateFailure")),
    Ie(5, "UeContextSetupFailure", T("UeContextSetupFailure")),
    Ie(7, "UeContextModificationFailure", T("UeContextModificationFailure")),
    Ie(8, "UeContextModificationRefuse", T("UeContextModificationRefuse")),
    Ie(26, "F1RemovalFailure", T("F1RemovalFailure")),
    Ie(32, "BapMappingConfigurationFailure", T("BapMappingConfigurationFailure")),
    Ie(33, "GnbDuResourceConfigurationFailure", T("GnbDuResourceConfigurationFailure")),
    Ie(34, "IabtnlAddressFailure", T("IabtnlAddressFailure")),
    Ie(35, "IabupConfigurationUpdateFailure", T("IabupConfigurationUpdateFailure")),
    Ie(36, "ResourceStatusFailure", T("ResourceStatusFailure")),
    Ie(41, "PositioningMeasurementFailure", T("PositioningMeasurementFailure")),
    Ie(48, "TrpInformationFailure", T("TrpInformationFailure")),
    Ie(49, "PositioningInformationFailure", T("PositioningInformationFailure")),
    Ie(50, "PositioningActivationFailure", T("PositioningActivationFailure")),
    Ie(52, "ECidMeasurementInitiationFailure", T("ECidMeasurementInitiationFailure"))>>)>>
UnsuccessfulOutcomeEncode ==
  <<WriteProcedure(<<Arm("F1SetupFailure", 1, T("F1SetupFailure")),
    Arm("GnbDuConfigurationUpdateFailure", 3, T("GnbDuConfigurationUpdateFailure")),
    Arm("GnbCuConfigurationUpdateFailure", 4, T("GnbCuConfigurationUpdateFailure")),
    Arm("UeContextSetupFailure", 5, T("UeContextSetupFailure")),
    Arm("UeContextModificationFailure", 7, T("UeContextModificationFailure")),
    Arm("UeContextModificationRefuse", 8, T("UeContextModificationRefuse")),
    Arm("F1RemovalFailure", 26, T("F1RemovalFailure")),
    Arm("BapMappingConfigurationFailure", 32, T("BapMappingConfigurationFailure")),
    Arm("GnbDuResourceConfigurationFailure", 33, T("GnbDuResourceConfigurationFailure")),
    Arm("IabtnlAddressFailure", 34, T("IabtnlAddressFailure")),
    Arm("IabupConfigurationUpdateFailure", 35, T("IabupConfigurationUpdateFailure")),
    Arm("ResourceStatusFailure", 36, T("ResourceStatusFailure")),
    Arm("PositioningMeasurementFailure", 41, T("PositioningMeasurementFailure")),
    Arm("TrpInformationFailure", 48, T("TrpInformationFailure")),
    Arm("PositioningInformationFailure", 49, T("PositioningInformationFailure")),
    Arm("PositioningActivationFailure", 50, T("PositioningActivationFailure")),
    Arm("ECidMeasurementInitiationFailure", 52, T("ECidMeasurementInitiationFailure"))>>)>>
UnsuccessfulOutcome == Codec(UnsuccessfulOutcomeDecode, UnsuccessfulOutcomeEncode)

Codecs == {
  [F1apPdu |-> F1apPdu, InitiatingMessage |-> InitiatingMessage, SuccessfulOutcome |-> SuccessfulOutcome, UnsuccessfulOutcome |-> UnsuccessfulOutcome]}

(***************************************************************************)
(* A procedure: its CODE, the InitiatingMessage encode_request writes, the *)
(* SuccessfulOutcome call_provider answers with, and the outcomes          *)
(* decode_response takes for a success and for a failure.  An indication   *)
(* has no response.                                                        *)
(***************************************************************************)
Procedure(code, request, answer, success, failure) ==
  [code |-> code, request |-> request, answer |-> answer, success |-> success, failure |-> failure]
Indication(code, request) == Procedure(code, request, "", "", "")

FromResetProcedure ==
  [ResetProcedure |-> Procedure(0, "Reset", "ResetAcknowledge", "ResetAcknowledge", ""),
   F1SetupProcedure |->
     Procedure(1, "F1SetupRequest", "F1SetupResponse", "F1SetupResponse", "F1SetupFailure"),
   GnbDuConfigurationUpdateProcedure |->
     Procedure(3, "GnbDuConfigurationUpdate", "GnbDuConfigurationUpdateAcknowledge",
       "GnbDuConfigurationUpdateAcknowledge", "GnbDuConfigurationUpdateFailure"),
   GnbCuConfigurationUpdateProcedure |->
     Procedure(4, "GnbCuConfigurationUpdate", "GnbCuConfigurationUpdateAcknowledge",
       "GnbCuConfigurationUpdateAcknowledge", "GnbCuConfigurationUpdateFailure")]
FromUeContextSetupProcedure ==
  [UeContextSetupProcedure |->
     Procedure(5, "UeContextSetupRequest", "UeContextSetupResponse",
       "UeContextSetupResponse", "UeContextSetupFailure"),
   UeContextReleaseProcedure |->
     Procedure(6, "UeContextReleaseCommand", "UeContextReleaseComplete",
       "UeContextReleaseComplete", ""),
   UeContextModificationProcedure |->
     Procedure(7, "UeContextModificationRequest", "UeContextModificationResponse",
       "UeContextModificationResponse", "UeContextModificationFailure"),
   UeContextModificationRequiredProcedure |->
     Procedure(8, "UeContextModificationRequired", "UeContextModificationConfirm",
       "UeContextModificationConfirm", "UeContextModificationRefuse")]
FromWriteReplaceWarningProcedure ==
  [WriteReplaceWarningProcedure |->
     Procedure(20, "WriteReplaceWarningRequest", "WriteReplaceWarningResponse",
       "WriteReplaceWarningResponse", ""),
   PwsCancelProcedure |->
     Procedure(21, "PwsCancelRequest", "PwsCancelResponse", "PwsCancelResponse", ""),
   ErrorIndicationProcedure |-> Indication(2, "ErrorIndication"),
   UeContextReleaseRequestProcedure |-> Indication(10, "UeContextReleaseRequest"),
   InitialUlRrcMessageTransferProcedure |-> Indication(11, "InitialUlRrcMessageTransfer")]
FromDlRrcMessageTransferProcedure ==
  [DlRrcMessageTransferProcedure |-> Indication(12, "DlRrcMessageTransfer"),
   UlRrcMessageTransferProcedure |-> Indication(13, "UlRrcMessageTransfer"),
   UeInactivityNotificationProcedure |-> Indication(15, "UeInactivityNotification"),
   GnbDuResourceCoordinationProcedure |->
     Procedure(16, "GnbDuResourceCoordinationRequest", "GnbDuResourceCoordinationResponse",
       "GnbDuResourceCoordinationResponse", ""),
   SystemInformationDeliveryProcedure |-> Indication(17, "SystemInformationDeliveryCommand"),
   PagingProcedure |-> Indication(18, "Paging")]
FromNotifyProcedure ==
  [NotifyProcedure |-> Indication(19, "Notify"),
   NetworkAccessRateReductionProcedure |-> Indication(27, "NetworkAccessRateReduction"),
   PwsRestartIndicationProcedure |-> Indication(22, "PwsRestartIndication"),
   PwsFailureIndicationProcedure |-> Indication(23, "PwsFailureIndication"),
   GnbDuStatusIndicationProcedure |-> Indication(24, "GnbDuStatusIndication"),
   RrcDeliveryReportProcedure |-> Indication(25, "RrcDeliveryReport")]
FromF1RemovalProcedure ==
  [F1RemovalProcedure |->
     Procedure(26, "F1RemovalRequest", "F1RemovalResponse",
       "F1RemovalResponse", "F1RemovalFailure")]
FromTraceStartProcedure ==
  [TraceStartProcedure |-> Indication(28, "TraceStart"),
   DeactivateTraceProcedure |-> Indication(29, "DeactivateTrace"),
   DuCuRadioInformationTransferProcedure |-> Indication(30, "DuCuRadioInformationTransfer"),
   CuDuRadioInformationTransferProcedure |-> Indication(31, "CuDuRadioInformationTransfer"),
   BapMappingConfigurationProcedure |->
     Procedure(32, "BapMappingConfiguration", "BapMappingConfigurationAcknowledge",
       "BapMappingConfigurationAcknowledge", "BapMappingConfigurationFailure")]
FromGnbDuResourceConfigurationProcedure ==
  [GnbDuResourceConfigurationProcedure |->
     Procedure(33, "GnbDuResourceConfiguration", "GnbDuResourceConfigurationAcknowledge",
       "GnbDuResourceConfigurationAcknowledge", "GnbDuResourceConfigurationFailure"),
   IabtnlAddressAllocationProcedure |->
     Procedure(34, "IabtnlAddressRequest", "IabtnlAddressResponse",
       "IabtnlAddressResponse", "IabtnlAddressFailure"),
   IabupConfigurationUpdateProcedure |->
     Procedure(35, "IabupConfigurationUpdateRequest", "IabupConfigurationUpdateResponse",
       "IabupConfigurationUpdateResponse", "IabupConfigurationUpdateFailure")]
FromResourceStatusReportingInitiationProcedure ==
  [ResourceStatusReportingInitiationProcedure |->
     Procedure(36, "ResourceStatusRequest", "ResourceStatusResponse",
       "ResourceStatusResponse", "ResourceStatusFailure"),
   ResourceStatusReportingProcedure |-> Indication(37, "ResourceStatusUpdate"),
   AccessAndMobilityIndicationProcedure |-> Indication(38, "AccessAndMobilityIndication"),
   ReferenceTimeInformationReportingControlProcedure |-> Indication(58, "ReferenceTimeInformationReportingControl"),
   ReferenceTimeInformationReportProcedure |-> Indication(57, "ReferenceTimeInformationReport")]
FromAccessSuccessProcedure ==
  [AccessSuccessProcedure |-> Indication(39, "AccessSuccess"),
   CellTrafficTraceProcedure |-> Indication(40, "CellTrafficTrace"),
   PositioningAssistanceInformationControlProcedure |-> Indication(42, "PositioningAssistanceInformationControl"),
   PositioningAssistanceInformationFeedbackProcedure |-> Indication(43, "PositioningAssistanceInformationFeedback"),
   PositioningMeasurementExchangeProcedure |->
     Procedure(41, "PositioningMeasurementRequest", "PositioningMeasurementResponse",
       "PositioningMeasurementResponse", "PositioningMeasurementFailure")]
FromPositioningMeasurementReportProcedure ==
  [PositioningMeasurementReportProcedure |-> Indication(44, "PositioningMeasurementReport"),
   PositioningMeasurementAbortProcedure |-> Indication(45, "PositioningMeasurementAbort"),
   PositioningMeasurementFailureIndicationProcedure |-> Indication(46, "PositioningMeasurementFailureIndication"),
   PositioningMeasurementUpdateProcedure |-> Indication(47, "PositioningMeasurementUpdate"),
   TrpInformationExchangeProcedure |->
     Procedure(48, "TrpInformationRequest", "TrpInformationResponse",
       "TrpInformationResponse", "TrpInformationFailure")]
FromPositioningInformationExchangeProcedure ==
  [PositioningInformationExchangeProcedure |->
     Procedure(49, "PositioningInformationRequest", "PositioningInformationResponse",
       "PositioningInformationResponse", "PositioningInformationFailure"),
   PositioningActivationProcedure |->
     Procedure(50, "PositioningActivationRequest", "PositioningActivationResponse",
       "PositioningActivationResponse", "PositioningActivationFailure"),
   PositioningDeactivationProcedure |-> Indication(51, "PositioningDeactivation"),
   ECidMeasurementInitiationProcedure |->
     Procedure(52, "ECidMeasurementInitiationRequest", "ECidMeasurementInitiationResponse",
       "ECidMeasurementInitiationResponse", "ECidMeasurementInitiationFailure")]
FromECidMeasurementFailureIndicationProcedure ==
  [ECidMeasurementFailureIndicationProcedure |-> Indication(53, "ECidMeasurementFailureIndication"),
   ECidMeasurementReportProcedure |-> Indication(54, "ECidMeasurementReport"),
   ECidMeasurementTerminationProcedure |-> Indication(55, "ECidMeasurementTerminationCommand"),
   PositioningInformationUpdateProcedure |-> Indication(56, "PositioningInformationUpdate")]

ProcedureTable == FromResetProcedure @@ FromUeContextSetupProcedure @@
  FromWriteReplaceWarningProcedure @@ FromDlRrcMessageTransferProcedure @@ FromNotifyProcedure @@
  FromF1RemovalProcedure @@ FromTraceStartProcedure @@ FromGnbDuResourceConfigurationProcedure @@
  FromResourceStatusReportingInitiationProcedure @@ FromAccessSuccessProcedure @@
  FromPositioningMeasurementReportProcedure @@ FromPositioningInformationExchangeProcedure @@
  FromECidMeasurementFailureIndicationProcedure
=============================================================================
