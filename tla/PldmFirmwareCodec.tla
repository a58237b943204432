------------------------- MODULE PldmFirmwareCodec -------------------------
(***************************************************************************)
(* The messages of PLDM for firmware update: firmware_update.c of          *)
(* libpldm_intel, but for RequestFirmwareData.                             *)
(***************************************************************************)
EXTENDS PldmBaseCodec

\* The decoders of responses say with DECODE_SUCCESS that the device refused.
Refusal == CompletionOr(DECODE_SUCCESS)

\* The flag checks that have a code of their own
TransferFlag(f) == OneOfOr(f, check_transfer_flag_valid, PLDM_INVALID_TRANSFER_OPERATION_FLAG)
OperationFlag(f) ==
  OneOfOr(f, check_transfer_operation_flag_valid, PLDM_INVALID_TRANSFER_OPERATION_FLAG)

check_comp_ver_str_type_valid   == 0 .. 5
check_comp_classification_valid == 0 .. 13
check_comp_resp_valid           == {0, 1}
check_resp_code_valid           == (0 .. 8) \cup {10, 11} \cup (208 .. 239)

PLDM_FWU_TIME_OUT      == 9
PLDM_FWU_GENERIC_ERROR == 10

validate_verify_result   == {0, 1, 2, PLDM_FWU_TIME_OUT, PLDM_FWU_GENERIC_ERROR} \cup (144 .. 175)
validate_transfer_result == {0, 2, 3, PLDM_FWU_TIME_OUT, PLDM_FWU_GENERIC_ERROR} \cup (112 .. 143)
validate_apply_result    == {0, 1, 2, PLDM_FWU_TIME_OUT, PLDM_FWU_GENERIC_ERROR} \cup (176 .. 207)

validate_comp_activation_methods_modification == 0 .. 5

-----------------------------------------------------------------------------
(***************************************************************************)
(* Inventory.                                                              *)
(***************************************************************************)
PLDM_FWU_MIN_DESCRIPTOR_IDENTIFIERS_LEN == Bytes(5)

query_device_identifiers_resp ==
  << <<"completion_code", Bytes(1)>>, <<"device_identifiers_len", Bytes(4)>>,
     <<"descriptor_count", Bytes(1)>> >>

encode_query_device_identifiers_req == <<LengthIs(Bytes(0)), Header>>

decode_query_device_identifiers_resp ==
  <<Refusal, LengthAtLeast(SizeOfStruct(query_device_identifiers_resp))>>
  \o Body(query_device_identifiers_resp)
  \o <<Need("device_identifiers_len", ">=", PLDM_FWU_MIN_DESCRIPTOR_IDENTIFIERS_LEN,
            PLDM_ERROR_INVALID_LENGTH),
       LengthIs(Plus(SizeOfStruct(query_device_identifiers_resp),
                     Times(1, "device_identifiers_len"))),
       Need("descriptor_count", ">=", Bytes(1), PLDM_ERROR_INVALID_DATA),
       Field("descriptor_data", SizeOfStruct(query_device_identifiers_resp),
             Times(1, "device_identifiers_len"))>>

get_firmware_parameters_resp ==
  << <<"completion_code", Bytes(1)>>, <<"capabilities_during_update", Bytes(4)>>,
     <<"comp_count", Bytes(2)>>, <<"active_ver_str_type", Bytes(1)>>,
     <<"active_ver_str_len", Bytes(1)>>, <<"pending_ver_str_type", Bytes(1)>>,
     <<"pending_ver_str_len", Bytes(1)>> >>

component_parameter_table ==
  << <<"comp_classification", Bytes(2)>>, <<"comp_identifier", Bytes(2)>>,
     <<"comp_classification_index", Bytes(1)>>, <<"active_comp_comparison_stamp", Bytes(4)>>,
     <<"active_ver_str_type", Bytes(1)>>, <<"active_ver_str_len", Bytes(1)>>,
     <<"active_comp_release_date", Bytes(8)>>, <<"pending_comp_comparison_stamp", Bytes(4)>>,
     <<"pending_ver_str_type", Bytes(1)>>, <<"pending_ver_str_len", Bytes(1)>>,
     <<"pending_comp_release_date", Bytes(8)>>, <<"comp_activation_methods", Bytes(2)>>,
     <<"capabilities_during_update", Bytes(4)>> >>

\* The two version strings that follow a struct of that size
VersionStrings(size) ==
  <<Field("active_ver_str", size, Times(1, "active_ver_str_len")),
    Field("pending_ver_str", Plus(size, Times(1, "active_ver_str_len")),
          Times(1, "pending_ver_str_len"))>>

WithVersionStrings(size) ==
  Plus(size, Plus(Times(1, "active_ver_str_len"), Times(1, "pending_ver_str_len")))

encode_get_firmware_parameters_req == <<LengthIs(Bytes(0)), Header>>

\* The length is looked at before the completion code is.
decode_get_firmware_parameters_comp_img_set_resp ==
  <<LengthAtLeast(SizeOfStruct(get_firmware_parameters_resp)), Refusal>>
  \o Body(get_firmware_parameters_resp)
  \o <<Need("active_ver_str_len", ">=", Bytes(1), PLDM_ERROR_INVALID_DATA),
       LengthAtLeast(WithVersionStrings(SizeOfStruct(get_firmware_parameters_resp))),
       Need("comp_count", ">=", Bytes(1), PLDM_ERROR)>>
  \o VersionStrings(SizeOfStruct(get_firmware_parameters_resp))

\* Of the capabilities, le16toh takes the first two bytes.
decode_get_firmware_parameters_comp_resp ==
  <<LengthAtLeast(SizeOfStruct(component_parameter_table))>>
  \o Front(Layout(component_parameter_table))
  \o <<Need("active_ver_str_len", ">=", Bytes(1), PLDM_ERROR_INVALID_LENGTH),
       LengthAtLeast(WithVersionStrings(SizeOfStruct(component_parameter_table))),
       Field("capabilities_during_update", Bytes(35), Bytes(2))>>
  \o VersionStrings(SizeOfStruct(component_parameter_table))

-----------------------------------------------------------------------------
(***************************************************************************)
(* The update.                                                             *)
(***************************************************************************)
PLDM_FWU_BASELINE_TRANSFER_SIZE == Bytes(32)
PLDM_FWUP_MIN_OUTSTANDING_REQ   == Bytes(1)

request_update_req ==
  << <<"max_transfer_size", Bytes(4)>>, <<"no_of_comp", Bytes(2)>>,
     <<"max_outstand_transfer_req", Bytes(1)>>, <<"pkg_data_len", Bytes(2)>>,
     <<"comp_ver_str_type", Bytes(1)>>, <<"comp_image_set_ver_str_len", Bytes(1)>> >>

\* ver_str_length is the length of the string that is given; it is not
\* compared with the one in the struct.
encode_request_update_req ==
  <<LengthAtLeast(SizeOfStruct(request_update_req)),
    Need("max_outstand_transfer_req", ">=", PLDM_FWUP_MIN_OUTSTANDING_REQ,
         PLDM_ERROR_INVALID_DATA),
    OneOf("comp_ver_str_type", check_comp_ver_str_type_valid), Header,
    Need("max_transfer_size", ">=", PLDM_FWU_BASELINE_TRANSFER_SIZE, PLDM_ERROR_INVALID_DATA)>>
  \o Layout(request_update_req)
  \o <<LengthIs(Plus(SizeOfStruct(request_update_req), Times(1, "ver_str_length"))),
       Field("comp_ver_str", SizeOfStruct(request_update_req), Times(1, "ver_str_length"))>>

pldm_request_update_resp ==
  << <<"completion_code", Bytes(1)>>, <<"fd_meta_data_len", Bytes(2)>>,
     <<"fd_pkg_data", Bytes(1)>> >>

decode_request_update_resp ==
  <<Refusal, LengthIs(SizeOfStruct(pldm_request_update_resp))>> \o Body(pldm_request_update_resp)

get_device_meta_data_req ==
  << <<"data_transfer_handle", Bytes(4)>>, <<"transfer_opflag", Bytes(1)>> >>

get_device_meta_data_resp ==
  << <<"completion_code", Bytes(1)>>, <<"next_data_transfer_handle", Bytes(4)>>,
     <<"transfer_flag", Bytes(1)>> >>

encode_get_device_meta_data_req ==
  <<LengthIs(SizeOfStruct(get_device_meta_data_req)), Header,
    Layout(get_device_meta_data_req)[1], OperationFlag("transfer_opflag"),
    Layout(get_device_meta_data_req)[2]>>

decode_get_device_meta_data_resp ==
  <<Refusal, LengthAtLeast(SizeOfStruct(get_device_meta_data_resp))>>
  \o Body(get_device_meta_data_resp)
  \o <<TransferFlag("transfer_flag"),
       Rest("portion_of_meta_data", SizeOfStruct(get_device_meta_data_resp))>>

check_self_contained_activation_req_valid == {0, 1}

activate_firmware_req == << <<"self_contained_activation_req", Bytes(1)>> >>

activate_firmware_resp ==
  << <<"completion_code", Bytes(1)>>, <<"estimated_time_activation", Bytes(2)>> >>

encode_activate_firmware_req ==
  <<LengthIs(SizeOfStruct(activate_firmware_req)), Header,
    OneOf("self_contained_activation_req", check_self_contained_activation_req_valid)>>
  \o Layout(activate_firmware_req)

decode_activate_firmware_resp ==
  <<Refusal, LengthIs(SizeOfStruct(activate_firmware_resp))>> \o Body(activate_firmware_resp)

pass_component_table_req ==
  << <<"transfer_flag", Bytes(1)>>, <<"comp_class", Bytes(2)>>,
     <<"comp_identifier", Bytes(2)>>, <<"comp_classification_index", Bytes(1)>>,
     <<"comp_comparison_stamp", Bytes(4)>>, <<"comp_ver_str_type", Bytes(1)>>,
     <<"comp_ver_str_len", Bytes(1)>> >>

pass_component_table_resp ==
  << <<"completion_code", Bytes(1)>>, <<"comp_resp", Bytes(1)>>, <<"comp_resp_code", Bytes(1)>> >>

encode_pass_component_table_req ==
  <<LengthAtLeast(SizeOfStruct(pass_component_table_req)),
    Need("ver_str_length", "=", Times(1, "comp_ver_str_len"), PLDM_ERROR_INVALID_LENGTH),
    Header, TransferFlag("transfer_flag"),
    OneOf("comp_class", check_comp_classification_valid),
    OneOf("comp_ver_str_type", check_comp_ver_str_type_valid)>>
  \o Layout(pass_component_table_req)
  \o <<LengthIs(Plus(SizeOfStruct(pass_component_table_req), Times(1, "ver_str_length"))),
       Field("comp_ver_str", SizeOfStruct(pass_component_table_req),
             Times(1, "ver_str_length"))>>

decode_pass_component_table_resp ==
  <<Refusal, LengthIs(SizeOfStruct(pass_component_table_resp))>>
  \o Body(pass_component_table_resp)
  \o <<OneOf("comp_resp", check_comp_resp_valid),
       OneOf("comp_resp_code", check_resp_code_valid)>>

check_compatability_resp_valid      == {0, 1}
check_compatability_resp_code_valid == (0 .. 11) \cup (208 .. 239)

update_component_req ==
  << <<"comp_class", Bytes(2)>>, <<"comp_identifier", Bytes(2)>>,
     <<"comp_classification_index", Bytes(1)>>, <<"comp_comparison_stamp", Bytes(4)>>,
     <<"comp_image_size", Bytes(4)>>, <<"update_option_flags", Bytes(4)>>,
     <<"comp_ver_str_type", Bytes(1)>>, <<"comp_image_set_ver_str_len", Bytes(1)>> >>

update_component_resp ==
  << <<"completion_code", Bytes(1)>>, <<"comp_compatability_resp", Bytes(1)>>,
     <<"comp_compatability_resp_code", Bytes(1)>>, <<"update_option_flags_enabled", Bytes(4)>>,
     <<"estimated_time_req_fd", Bytes(2)>> >>

encode_update_component_req ==
  <<LengthAtLeast(SizeOfStruct(update_component_req)), Header,
    OneOf("comp_class", check_comp_classification_valid),
    OneOf("comp_ver_str_type", check_comp_ver_str_type_valid)>>
  \o Layout(update_component_req)
  \o <<LengthIs(Plus(SizeOfStruct(update_component_req), Times(1, "ver_str_length"))),
       Field("comp_ver_str", SizeOfStruct(update_component_req), Times(1, "ver_str_length"))>>

decode_update_component_resp ==
  <<Refusal, LengthIs(SizeOfStruct(update_component_resp))>>
  \o Body(update_component_resp)
  \o <<OneOf("comp_compatability_resp", check_compatability_resp_valid),
       OneOf("comp_compatability_resp_code", check_compatability_resp_code_valid)>>

encode_cancel_update_component_req  == encode_header_only_request
decode_cancel_update_component_resp == decode_cc_only_resp

check_non_functioning_component_indication_valid == {0, 1}

cancel_update_resp ==
  << <<"completion_code", Bytes(1)>>, <<"non_functioning_component_indication", Bytes(1)>>,
     <<"non_functioning_component_bitmap", Bytes(8)>> >>

encode_cancel_update_req == encode_header_only_request

\* The bitmap is read when there is something in it.
decode_cancel_update_resp ==
  <<Refusal, LengthIs(SizeOfStruct(cancel_update_resp)), Layout(cancel_update_resp)[2],
    OneOf("non_functioning_component_indication",
          check_non_functioning_component_indication_valid),
    Field("non_functioning_component_bitmap", Bytes(2),
          Times(8, "non_functioning_component_indication"))>>

-----------------------------------------------------------------------------
(***************************************************************************)
(* Requests of the device.                                                 *)
(***************************************************************************)
encode_verify_complete_resp == encode_cc_only_resp

\* The functions have no parameter for the length.
decode_verify_complete_req ==
  <<Field("verify_result", Bytes(0), Bytes(1)), OneOf("verify_result", validate_verify_result)>>

encode_transfer_complete_resp == encode_cc_only_resp

decode_transfer_complete_req ==
  <<Field("transfer_result", Bytes(0), Bytes(1)),
    OneOf("transfer_result", validate_transfer_result)>>

get_fd_data_req ==
  << <<"data_transfer_handle", Bytes(4)>>, <<"transfer_opflag", Bytes(1)>> >>

get_fd_data_resp ==
  << <<"completion_code", Bytes(1)>>, <<"next_data_transfer_handle", Bytes(4)>>,
     <<"transfer_flag", Bytes(1)>> >>

\* The portion is copied whatever payload_length has room for.
encode_firmware_device_data_resp ==
  <<Header, LengthAtLeast(SizeOfStruct(get_fd_data_resp)), TransferFlag("transfer_flag")>>
  \o Layout(get_fd_data_resp)
  \o <<Field("portion_of_meta_data", SizeOfStruct(get_fd_data_resp), Times(1, "data_length"))>>

decode_firmware_device_data_req ==
  <<LengthIs(SizeOfStruct(get_fd_data_req))>> \o Layout(get_fd_data_req)
  \o <<OperationFlag("transfer_opflag")>>

encode_get_package_data_resp == encode_firmware_device_data_resp
decode_get_pacakge_data_req  == decode_firmware_device_data_req
encode_get_meta_data_resp    == encode_firmware_device_data_resp
decode_get_meta_data_req     == decode_firmware_device_data_req

check_state_validity            == 0 .. 6
check_aux_state_validity        == 0 .. 3
check_aux_state_status_validity == {0, 9, 10} \cup (112 .. 239)
check_reason_code_validity      == (0 .. 5) \cup (200 .. 255)
FW_UPDATE_MAX_PROGRESS_PERCENT  == 101

get_status_resp ==
  << <<"completion_code", Bytes(1)>>, <<"current_state", Bytes(1)>>,
     <<"previous_state", Bytes(1)>>, <<"aux_state", Bytes(1)>>, <<"aux_state_status", Bytes(1)>>,
     <<"progress_percent", Bytes(1)>>, <<"reason_code", Bytes(1)>>,
     <<"update_option_flags_enabled", Bytes(4)>> >>

check_response_msg_validity ==
  <<OneOf("current_state", check_state_validity), OneOf("previous_state", check_state_validity),
    OneOf("aux_state", check_aux_state_validity),
    OneOf("aux_state_status", check_aux_state_status_validity),
    OneOf("progress_percent", 0 .. FW_UPDATE_MAX_PROGRESS_PERCENT),
    OneOf("reason_code", check_reason_code_validity)>>

encode_get_status_req == encode_header_only_request

decode_get_status_resp ==
  <<Refusal, LengthIs(SizeOfStruct(get_status_resp))>> \o Body(get_status_resp)
  \o check_response_msg_validity

apply_complete_req ==
  << <<"apply_result", Bytes(1)>>, <<"comp_activation_methods_modification", Bytes(2)>> >>

encode_apply_complete_resp == encode_cc_only_resp

decode_apply_complete_req ==
  <<LengthIs(SizeOfStruct(apply_complete_req))>> \o Layout(apply_complete_req)
  \o <<OneOf("apply_result", validate_apply_result),
       OneOf("comp_activation_methods_modification",
             validate_comp_activation_methods_modification)>>

-----------------------------------------------------------------------------
FirmwareCode ==
  [encode_query_device_identifiers_req |-> encode_query_device_identifiers_req,
   decode_query_device_identifiers_resp |-> decode_query_device_identifiers_resp,
   encode_get_firmware_parameters_req |-> encode_get_firmware_parameters_req,
   decode_get_firmware_parameters_comp_img_set_resp |-> decode_get_firmware_parameters_comp_img_set_resp,
   decode_get_firmware_parameters_comp_resp |-> decode_get_firmware_parameters_comp_resp,
   encode_request_update_req |-> encode_request_update_req,
   decode_request_update_resp |-> decode_request_update_resp,
   encode_get_device_meta_data_req |-> encode_get_device_meta_data_req,
   decode_get_device_meta_data_resp |-> decode_get_device_meta_data_resp,
   encode_activate_firmware_req |-> encode_activate_firmware_req,
   decode_activate_firmware_resp |-> decode_activate_firmware_resp,
   encode_pass_component_table_req |-> encode_pass_component_table_req,
   decode_pass_component_table_resp |-> decode_pass_component_table_resp,
   encode_update_component_req |-> encode_update_component_req,
   decode_update_component_resp |-> decode_update_component_resp,
   encode_cancel_update_component_req |-> encode_cancel_update_component_req,
   decode_cancel_update_component_resp |-> decode_cancel_update_component_resp,
   encode_cancel_update_req |-> encode_cancel_update_req,
   decode_cancel_update_resp |-> decode_cancel_update_resp,
   encode_verify_complete_resp |-> encode_verify_complete_resp,
   decode_verify_complete_req |-> decode_verify_complete_req,
   encode_transfer_complete_resp |-> encode_transfer_complete_resp,
   decode_transfer_complete_req |-> decode_transfer_complete_req,
   encode_firmware_device_data_resp |-> encode_firmware_device_data_resp,
   decode_firmware_device_data_req |-> decode_firmware_device_data_req,
   encode_get_package_data_resp |-> encode_get_package_data_resp,
   decode_get_pacakge_data_req |-> decode_get_pacakge_data_req,
   encode_get_meta_data_resp |-> encode_get_meta_data_resp,
   decode_get_meta_data_req |-> decode_get_meta_data_req,
   encode_get_status_req |-> encode_get_status_req,
   decode_get_status_resp |-> decode_get_status_resp,
   encode_apply_complete_resp |-> encode_apply_complete_resp,
   decode_apply_complete_req |-> decode_apply_complete_req]
=============================================================================
