--------------------------- MODULE PldmBaseCodec ---------------------------
(***************************************************************************)
(* The messages of PLDM for control and discovery and of PLDM for FRU      *)
(* data: libpldm_intel/base.c and fru.c.                                   *)
(***************************************************************************)
EXTENDS PldmMessage

pldm_get_types_resp ==
  << <<"completion_code", Bytes(1)>>, <<"types", Bytes(8)>> >>

pldm_get_commands_req ==
  << <<"type", Bytes(1)>>, <<"version", Bytes(4)>> >>

pldm_get_commands_resp ==
  << <<"completion_code", Bytes(1)>>, <<"commands", Bytes(32)>> >>

pldm_get_version_req ==
  << <<"transfer_handle", Bytes(4)>>, <<"transfer_opflag", Bytes(1)>>, <<"type", Bytes(1)>> >>

pldm_get_version_resp ==
  << <<"completion_code", Bytes(1)>>, <<"next_transfer_handle", Bytes(4)>>,
     <<"transfer_flag", Bytes(1)>> >>

pldm_get_tid_resp ==
  << <<"completion_code", Bytes(1)>>, <<"tid", Bytes(1)>> >>

PLDM_GET_COMMANDS_REQ_BYTES  == Bytes(5)
PLDM_GET_VERSION_REQ_BYTES   == Bytes(6)
PLDM_GET_TYPES_RESP_BYTES    == Bytes(9)
PLDM_GET_TID_RESP_BYTES      == Bytes(2)
PLDM_GET_COMMANDS_RESP_BYTES == Bytes(33)
PLDM_GET_VERSION_RESP_FIXED_BYTES == Bytes(6)

encode_get_types_req == <<HeaderUnchecked>>

encode_get_types_resp == <<HeaderUnchecked, Completion>> \o Body(pldm_get_types_resp)

decode_get_types_resp ==
  <<Completion, LengthIs(PLDM_GET_TYPES_RESP_BYTES)>> \o Body(pldm_get_types_resp)

encode_get_commands_req == <<HeaderUnchecked>> \o Layout(pldm_get_commands_req)

decode_get_commands_req ==
  <<LengthIs(PLDM_GET_COMMANDS_REQ_BYTES)>> \o Layout(pldm_get_commands_req)

encode_get_commands_resp ==
  <<HeaderUnchecked, Completion>> \o Body(pldm_get_commands_resp)

decode_get_commands_resp ==
  <<Completion, LengthIs(PLDM_GET_COMMANDS_RESP_BYTES)>> \o Body(pldm_get_commands_resp)

encode_get_version_req == <<Header>> \o Layout(pldm_get_version_req)

encode_get_version_resp ==
  <<Header, Completion, OneOf("transfer_flag", check_transfer_flag_valid),
    Need("data_length", ">=", Bytes(1), PLDM_ERROR_INVALID_DATA)>>
  \o Body(pldm_get_version_resp)
  \o <<Field("version_data", Bytes(6), Times(1, "data_length"))>>

decode_get_version_req ==
  <<LengthIs(PLDM_GET_VERSION_REQ_BYTES)>> \o Layout(pldm_get_version_req)
  \o <<OneOf("transfer_opflag", check_transfer_operation_flag_valid)>>

decode_get_version_resp ==
  <<Completion, LengthAtLeast(PLDM_GET_VERSION_RESP_FIXED_BYTES)>>
  \o Body(pldm_get_version_resp)
  \o <<OneOf("transfer_flag", check_transfer_flag_valid),
       Rest("version_data", PLDM_GET_VERSION_RESP_FIXED_BYTES)>>

encode_get_tid_req == <<HeaderUnchecked>>

encode_get_tid_resp == <<HeaderUnchecked>> \o Layout(pldm_get_tid_resp)

decode_get_tid_resp ==
  <<Completion, LengthIs(PLDM_GET_TID_RESP_BYTES)>> \o Body(pldm_get_tid_resp)

pldm_cc_only_rsp == << <<"completion_code", Bytes(1)>> >>

encode_cc_only_resp == <<HeaderOfType>> \o Layout(pldm_cc_only_rsp)

decode_cc_only_resp == <<LengthIs(Bytes(1))>> \o Layout(pldm_cc_only_rsp)

pldm_set_tid_req == << <<"tid", Bytes(1)>> >>

encode_set_tid_req == <<Header>> \o Layout(pldm_set_tid_req)

decode_set_tid_req == <<LengthIs(Bytes(1))>> \o Layout(pldm_set_tid_req)

encode_header_only_request == <<HeaderOfType>>

-----------------------------------------------------------------------------
pldm_get_fru_record_table_metadata_resp ==
  << <<"completion_code", Bytes(1)>>, <<"fru_data_major_version", Bytes(1)>>,
     <<"fru_data_minor_version", Bytes(1)>>, <<"fru_table_maximum_size", Bytes(4)>>,
     <<"fru_table_length", Bytes(4)>>, <<"total_record_set_identifiers", Bytes(2)>>,
     <<"total_table_records", Bytes(2)>>, <<"checksum", Bytes(4)>> >>

pldm_get_fru_record_table_req ==
  << <<"data_transfer_handle", Bytes(4)>>, <<"transfer_operation_flag", Bytes(1)>> >>

pldm_get_fru_record_table_resp ==
  << <<"completion_code", Bytes(1)>>, <<"next_data_transfer_handle", Bytes(4)>>,
     <<"any_transfer_flag", Bytes(1)>> >>

pldm_set_fru_record_table_req ==
  << <<"data_transfer_handle", Bytes(4)>>, <<"transfer_flag", Bytes(1)>> >>

pldm_set_fru_record_table_resp ==
  << <<"completion_code", Bytes(1)>>, <<"next_data_transfer_handle", Bytes(4)>> >>

pldm_get_fru_record_by_option_req ==
  << <<"data_transfer_handle", Bytes(4)>>, <<"fru_table_handle", Bytes(2)>>,
     <<"record_set_identifier", Bytes(2)>>, <<"record_type", Bytes(1)>>,
     <<"field_type", Bytes(1)>>, <<"any_transfer_op_flag", Bytes(1)>> >>

\* The struct without the data that follows it; the code checks none of the
\* transfer flags of these messages.
pldm_get_fru_record_by_option_resp ==
  << <<"completion_code", Bytes(1)>>, <<"next_data_transfer_handle", Bytes(4)>>,
     <<"any_transfer_flag", Bytes(1)>> >>

PLDM_GET_FRU_RECORD_TABLE_METADATA_RESP_BYTES == Bytes(19)
PLDM_GET_FRU_RECORD_TABLE_REQ_BYTES           == Bytes(5)
PLDM_GET_FRU_RECORD_TABLE_MIN_RESP_BYTES      == Bytes(6)
PLDM_GET_FRU_RECORD_BY_OPTION_MIN_RESP_BYTES  == Bytes(6)

encode_get_fru_record_table_metadata_req == <<LengthIs(Bytes(0)), Header>>

encode_get_fru_record_table_metadata_resp ==
  <<Header, Completion>> \o Body(pldm_get_fru_record_table_metadata_resp)

decode_get_fru_record_table_metadata_resp ==
  <<Completion, LengthIs(PLDM_GET_FRU_RECORD_TABLE_METADATA_RESP_BYTES)>>
  \o Body(pldm_get_fru_record_table_metadata_resp)

encode_get_fru_record_table_req ==
  <<LengthIs(SizeOfStruct(pldm_get_fru_record_table_req)), Header>>
  \o Layout(pldm_get_fru_record_table_req)

decode_get_fru_record_table_req ==
  <<LengthIs(PLDM_GET_FRU_RECORD_TABLE_REQ_BYTES)>> \o Layout(pldm_get_fru_record_table_req)

\* The caller appends the table.
encode_get_fru_record_table_resp ==
  <<Header, Completion>> \o Body(pldm_get_fru_record_table_resp)

decode_get_fru_record_table_resp ==
  <<Completion, LengthAtLeast(Plus(PLDM_GET_FRU_RECORD_TABLE_MIN_RESP_BYTES, Bytes(1)))>>
  \o Body(pldm_get_fru_record_table_resp)
  \o <<Rest("table_data", PLDM_GET_FRU_RECORD_TABLE_MIN_RESP_BYTES)>>

encode_set_fru_record_table_req ==
  <<LengthIs(Plus(SizeOfStruct(pldm_set_fru_record_table_req), Times(1, "data_length"))),
    Need("data_length", ">=", Bytes(1), PLDM_ERROR_INVALID_LENGTH),
    OneOf("transfer_flag", check_transfer_flag_valid), Header>>
  \o Layout(pldm_set_fru_record_table_req)
  \o <<Field("table_data", SizeOfStruct(pldm_set_fru_record_table_req),
             Times(1, "data_length"))>>

decode_set_fru_record_table_resp ==
  <<Completion, LengthIs(SizeOfStruct(pldm_set_fru_record_table_resp))>>
  \o Body(pldm_set_fru_record_table_resp)

encode_get_fru_record_by_option_req ==
  <<LengthIs(SizeOfStruct(pldm_get_fru_record_by_option_req)), Header>>
  \o Layout(pldm_get_fru_record_by_option_req)

decode_get_fru_record_by_option_req ==
  <<LengthIs(SizeOfStruct(pldm_get_fru_record_by_option_req))>>
  \o Layout(pldm_get_fru_record_by_option_req)

\* The transfer handle and flag are written before the completion code is
\* looked at.
encode_get_fru_record_by_option_resp ==
  <<LengthAtLeast(PLDM_GET_FRU_RECORD_BY_OPTION_MIN_RESP_BYTES), Header>>
  \o Body(pldm_get_fru_record_by_option_resp)
  \o <<Completion,
       LengthIs(Plus(PLDM_GET_FRU_RECORD_BY_OPTION_MIN_RESP_BYTES, Times(1, "data_length"))),
       Field("fru_structure_data", Bytes(6), Times(1, "data_length"))>>

decode_get_fru_record_by_option_resp ==
  <<Completion, LengthAtLeast(PLDM_GET_FRU_RECORD_BY_OPTION_MIN_RESP_BYTES)>>
  \o Body(pldm_get_fru_record_by_option_resp)
  \o <<Rest("fru_structure_data", PLDM_GET_FRU_RECORD_BY_OPTION_MIN_RESP_BYTES)>>

-----------------------------------------------------------------------------
BaseCode ==
  [encode_get_types_req     |-> encode_get_types_req,
   encode_get_types_resp    |-> encode_get_types_resp,
   decode_get_types_resp    |-> decode_get_types_resp,
   encode_get_commands_req  |-> encode_get_commands_req,
   decode_get_commands_req  |-> decode_get_commands_req,
   encode_get_commands_resp |-> encode_get_commands_resp,
   decode_get_commands_resp |-> decode_get_commands_resp,
   encode_get_version_req   |-> encode_get_version_req,
   decode_get_version_req   |-> decode_get_version_req,
   encode_get_version_resp  |-> encode_get_version_resp,
   decode_get_version_resp  |-> decode_get_version_resp,
   encode_get_tid_req       |-> encode_get_tid_req,
   encode_get_tid_resp      |-> encode_get_tid_resp,
   decode_get_tid_resp      |-> decode_get_tid_resp,
   encode_cc_only_resp      |-> encode_cc_only_resp,
   decode_cc_only_resp      |-> decode_cc_only_resp,
   encode_set_tid_req       |-> encode_set_tid_req,
   decode_set_tid_req       |-> decode_set_tid_req,
   encode_header_only_request |-> encode_header_only_request]

FruCode ==
  [encode_get_fru_record_table_metadata_req  |-> encode_get_fru_record_table_metadata_req,
   encode_get_fru_record_table_metadata_resp |-> encode_get_fru_record_table_metadata_resp,
   decode_get_fru_record_table_metadata_resp |-> decode_get_fru_record_table_metadata_resp,
   encode_get_fru_record_table_req           |-> encode_get_fru_record_table_req,
   decode_get_fru_record_table_req           |-> decode_get_fru_record_table_req,
   \* with the table the caller appends
   encode_get_fru_record_table_resp          |->
     encode_get_fru_record_table_resp
     \o <<Field("table_data", Bytes(6), Times(1, "data_length"))>>,
   decode_get_fru_record_table_resp          |-> decode_get_fru_record_table_resp,
   encode_set_fru_record_table_req           |-> encode_set_fru_record_table_req,
   decode_set_fru_record_table_resp          |-> decode_set_fru_record_table_resp,
   encode_get_fru_record_by_option_req       |-> encode_get_fru_record_by_option_req,
   decode_get_fru_record_by_option_req       |-> decode_get_fru_record_by_option_req,
   encode_get_fru_record_by_option_resp      |-> encode_get_fru_record_by_option_resp,
   decode_get_fru_record_by_option_resp      |-> decode_get_fru_record_by_option_resp]
=============================================================================
