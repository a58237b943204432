--------------------------- MODULE MCPldmExchange ---------------------------
(***************************************************************************)
(* The functions of libpldm_intel, who talks to whom, and a few values for *)
(* every field.  What a device sends where the library has no encoder is   *)
(* the struct the message is declared with.                                *)
(***************************************************************************)
EXTENDS PldmExchange, PldmPdrCodec, PldmFirmwareCodec

\* The device sends what the struct says; an error ends after the
\* completion code.
Sends(fields)   == Layout(fields)
Answers(fields) == <<Completion>> \o Body(fields)

Device ==
  [device_numeric_sensor_pdr  |->
     <<OneOf("sensor_data_size", DataSizes), OneOf("range_field_format", RangeFormats)>>
     \o Sends(pldm_numeric_sensor_value_pdr),
   device_numeric_effecter_pdr |->
     <<OneOf("effecter_data_size", DataSizes), OneOf("range_field_format", RangeFormats)>>
     \o Sends(pldm_numeric_effecter_value_pdr),
   device_entity_association  |->
     AssociationLength(PLDM_ERROR) \o Sends(pldm_pdr_entity_association),
   device_pdr_repository_info |-> Answers(pldm_get_pdr_repository_info_resp),
   device_terminus_uid        |-> Answers(pldm_get_terminus_uid_resp),
   device_thresholds          |->
     <<OneOf("sensor_data_size", DataSizes)>> \o Answers(pldm_get_sensor_threshold_resp),
   device_hysteresis          |->
     <<OneOf("sensor_data_size", DataSizes)>> \o Answers(pldm_get_sensor_hysteresis_resp),
   device_sensor_enable       |-> Answers(pldm_set_state_sensor_enable_resp),
   device_state_effecter      |-> Answers(pldm_get_state_effecter_states_resp),
   device_op_state_event      |-> Sends(pldm_sensor_event_sensor_op_state),
   device_state_event         |-> Sends(pldm_sensor_event_state_sensor_state),
   device_numeric_event       |->
     <<OneOf("sensor_data_size", DataSizes)>> \o Sends(pldm_sensor_event_numeric_sensor_state),
   device_change_record       |-> Sends(pldm_pdr_repository_change_record_data),
   device_identifiers         |->
     <<Need("device_identifiers_len", ">=", PLDM_FWU_MIN_DESCRIPTOR_IDENTIFIERS_LEN, PLDM_ERROR)>>
     \o Answers(query_device_identifiers_resp)
     \o <<Field("descriptor_data", SizeOfStruct(query_device_identifiers_resp),
                Times(1, "device_identifiers_len"))>>,
   device_firmware_parameters |->
     Answers(get_firmware_parameters_resp)
     \o VersionStrings(SizeOfStruct(get_firmware_parameters_resp)),
   device_component           |->
     <<Need("active_ver_str_len", ">=", Bytes(1), PLDM_ERROR)>>
     \o Sends(component_parameter_table)
     \o VersionStrings(SizeOfStruct(component_parameter_table)),
   device_request_update      |-> Answers(pldm_request_update_resp),
   device_meta_data           |->
     Answers(get_device_meta_data_resp)
     \o <<Field("portion_of_meta_data", Bytes(6), Times(1, "data_length"))>>,
   device_activate            |-> Answers(activate_firmware_resp),
   device_pass_component      |-> Answers(pass_component_table_resp),
   device_update_component    |-> Answers(update_component_resp),
   device_cancel_update       |-> Answers(cancel_update_resp),
   device_verify_complete     |-> Sends(<< <<"verify_result", Bytes(1)>> >>),
   device_transfer_complete   |-> Sends(<< <<"transfer_result", Bytes(1)>> >>),
   device_apply_complete      |-> Sends(apply_complete_req),
   device_get_data            |-> Sends(get_fd_data_req),
   device_status              |-> Answers(get_status_resp),
   device_set_fru             |-> Answers(pldm_set_fru_record_table_resp)]

MCCode == BaseCode @@ FruCode @@ PlatformCode @@ PdrCode @@ FirmwareCode @@ Device

Pairs == {
  \* base
  <<"encode_get_types_req", "none">>,
  <<"encode_get_types_resp", "decode_get_types_resp">>,
  <<"encode_get_commands_req", "decode_get_commands_req">>,
  <<"encode_get_commands_resp", "decode_get_commands_resp">>,
  <<"encode_get_version_req", "decode_get_version_req">>,
  <<"encode_get_version_resp", "decode_get_version_resp">>,
  <<"encode_get_tid_req", "none">>,
  <<"encode_get_tid_resp", "decode_get_tid_resp">>,
  <<"encode_cc_only_resp", "decode_cc_only_resp">>,
  <<"encode_set_tid_req", "decode_set_tid_req">>,
  <<"encode_header_only_request", "none">>,
  \* FRU
  <<"encode_get_fru_record_table_metadata_req", "none">>,
  <<"encode_get_fru_record_table_metadata_resp", "decode_get_fru_record_table_metadata_resp">>,
  <<"encode_get_fru_record_table_req", "decode_get_fru_record_table_req">>,
  <<"encode_get_fru_record_table_resp", "decode_get_fru_record_table_resp">>,
  <<"encode_set_fru_record_table_req", "none">>,
  <<"device_set_fru", "decode_set_fru_record_table_resp">>,
  <<"encode_get_fru_record_by_option_req", "decode_get_fru_record_by_option_req">>,
  <<"encode_get_fru_record_by_option_resp", "decode_get_fru_record_by_option_resp">>,
  \* descriptor records
  <<"encode_state_effecter_pdr", "none">>,
  <<"encode_state_sensor_pdr", "none">>,
  <<"encode_get_pdr_repository_info_req", "none">>,
  <<"device_pdr_repository_info", "decode_get_pdr_repository_info_resp">>,
  <<"device_terminus_uid", "decode_get_terminus_uid_resp">>,
  <<"encode_get_pdr_req", "decode_get_pdr_req">>,
  <<"encode_get_pdr_resp", "decode_get_pdr_resp">>,
  <<"device_numeric_sensor_pdr", "pldm_numeric_sensor_pdr_parse">>,
  <<"device_numeric_effecter_pdr", "pldm_numeric_effecter_pdr_parse">>,
  <<"device_entity_association", "pldm_entity_association_pdr_extract">>,
  \* effecters
  <<"encode_set_state_effecter_states_req", "decode_set_state_effecter_states_req">>,
  <<"encode_set_state_effecter_states_resp", "decode_set_state_effecter_states_resp">>,
  <<"encode_set_numeric_effecter_value_req", "decode_set_numeric_effecter_value_req">>,
  <<"encode_set_numeric_effecter_value_resp", "decode_set_numeric_effecter_value_resp">>,
  <<"encode_get_numeric_effecter_value_req", "decode_get_numeric_effecter_value_req">>,
  <<"encode_get_numeric_effecter_value_resp", "decode_get_numeric_effecter_value_resp">>,
  <<"encode_set_numeric_effecter_enable_req", "none">>,
  <<"encode_set_state_effecter_enable_req", "none">>,
  <<"encode_get_state_effecter_states_req", "none">>,
  <<"device_state_effecter", "decode_get_state_effecter_states_resp">>,
  \* sensors
  <<"encode_get_state_sensor_readings_req", "decode_get_state_sensor_readings_req">>,
  <<"encode_get_state_sensor_readings_resp", "decode_get_state_sensor_readings_resp">>,
  <<"encode_set_sensor_threshold_req", "none">>,
  <<"encode_cc_only_resp", "decode_set_sensor_threshold_resp">>,
  <<"encode_get_sensor_threshold_req", "none">>,
  <<"device_thresholds", "decode_get_sensor_threshold_resp">>,
  <<"encode_set_sensor_hysteresis_req", "none">>,
  <<"encode_cc_only_resp", "decode_set_sensor_hysteresis_resp">>,
  <<"encode_get_sensor_hysteresis_req", "none">>,
  <<"device_hysteresis", "decode_get_sensor_hysteresis_resp">>,
  <<"encode_set_numeric_sensor_enable_req", "none">>,
  <<"encode_cc_only_resp", "decode_set_numeric_sensor_enable_resp">>,
  <<"encode_set_state_sensor_enable_req", "none">>,
  <<"device_sensor_enable", "decode_set_state_sensor_enable_resp">>,
  <<"encode_get_sensor_reading_req", "decode_get_sensor_reading_req">>,
  <<"encode_get_sensor_reading_resp", "decode_get_sensor_reading_resp">>,
  \* events
  <<"encode_platform_event_message_req", "decode_platform_event_message_req">>,
  <<"encode_platform_event_message_resp", "decode_platform_event_message_resp">>,
  <<"encode_sensor_event_data", "decode_sensor_event_data">>,
  <<"device_op_state_event", "decode_sensor_op_data">>,
  <<"device_state_event", "decode_state_sensor_data">>,
  <<"device_numeric_event", "decode_numeric_sensor_data">>,
  <<"encode_pldm_pdr_repository_chg_event_data", "decode_pldm_pdr_repository_chg_event_data">>,
  <<"device_change_record", "decode_pldm_pdr_repository_change_record_data">>,
  \* firmware
  <<"encode_query_device_identifiers_req", "none">>,
  <<"device_identifiers", "decode_query_device_identifiers_resp">>,
  <<"encode_get_firmware_parameters_req", "none">>,
  <<"device_firmware_parameters", "decode_get_firmware_parameters_comp_img_set_resp">>,
  <<"device_component", "decode_get_firmware_parameters_comp_resp">>,
  <<"encode_request_update_req", "none">>,
  <<"device_request_update", "decode_request_update_resp">>,
  <<"encode_get_device_meta_data_req", "decode_get_pacakge_data_req">>,
  <<"device_meta_data", "decode_get_device_meta_data_resp">>,
  <<"encode_activate_firmware_req", "none">>,
  <<"device_activate", "decode_activate_firmware_resp">>,
  <<"encode_pass_component_table_req", "none">>,
  <<"device_pass_component", "decode_pass_component_table_resp">>,
  <<"encode_update_component_req", "none">>,
  <<"device_update_component", "decode_update_component_resp">>,
  <<"encode_cancel_update_component_req", "none">>,
  <<"encode_cc_only_resp", "decode_cancel_update_component_resp">>,
  <<"encode_cancel_update_req", "none">>,
  <<"device_cancel_update", "decode_cancel_update_resp">>,
  <<"device_verify_complete", "decode_verify_complete_req">>,
  <<"encode_verify_complete_resp", "none">>,
  <<"device_transfer_complete", "decode_transfer_complete_req">>,
  <<"encode_transfer_complete_resp", "none">>,
  <<"device_apply_complete", "decode_apply_complete_req">>,
  <<"encode_apply_complete_resp", "none">>,
  <<"device_get_data", "decode_get_pacakge_data_req">>,
  <<"encode_get_package_data_resp", "decode_get_device_meta_data_resp">>,
  <<"device_get_data", "decode_get_meta_data_req">>,
  <<"encode_get_meta_data_resp", "none">>,
  <<"encode_get_status_req", "none">>,
  <<"device_status", "decode_get_status_resp">>}

\* Every decoder may get anything.
MCConversations ==
  {[encode |-> p[1], decode |-> p[2]] : p \in Pairs}
  \cup {[encode |-> "none", decode |-> p[2]] : p \in {q \in Pairs : q[2] # "none"}}

\* For a field that is checked, values on both sides of the limits.
MCValues ==
  [association_length |-> {16, 22}, num_children |-> {0, 1, 2}, range_field_format |-> {0, 2, 6, 7},
   payload_length |-> 0 .. 105, completion_code |-> {0, 1},
   data_length |-> {0, 1, 3}, transfer_flag |-> 1 .. 5, transfer_opflag |-> {0, 1, 2},
   response_count |-> {0, 1, 3}, record_data_length |-> {0, 3},
   effecter_data_size |-> {0, 2, 5, 6}, effecter_oper_state |-> {8, 9},
   comp_effecter_count |-> {0, 1, 8, 9}, comp_sensor_count |-> {0, 1, 8, 9},
   capacity |-> {1, 8}, data_size_limit |-> {3, 5},
   sensor_data_size |-> {1, 3, 4, 6}, repository_state |-> {2, 3},
   effecter_operational_state |-> {2, 3}, effecter_event_enable |-> {1, 2, 255},
   op_effecter_oper_state |-> {8, 9}, event_message_enable |-> {0, 1, 255},
   op_sensor_oper_state |-> {2, 3}, sensor_event_enable |-> {4, 5},
   numeric_sensor_op_state |-> {2, 3}, platform_event_status |-> {5, 6},
   format_version |-> {1, 2}, event_data_length |-> {0, 1, 3},
   event_class |-> {6, 7, 240, 255}, sensor_event_class_type |-> 0 .. 3,
   number_of_change_records |-> {0, 2}, change_entries |-> {0, 3},
   possible_states_size |-> {0, 4, 8}, composite_effecter_count |-> {0, 1, 2},
   composite_sensor_count |-> {0, 1, 2}, device_identifiers_len |-> {4, 5, 6},
   descriptor_count |-> {0, 1}, comp_count |-> {0, 1}, active_ver_str_len |-> {0, 1, 2},
   pending_ver_str_len |-> {0, 1}, max_outstand_transfer_req |-> {0, 1},
   max_transfer_size |-> {31, 32}, comp_ver_str_type |-> {5, 6}, ver_str_length |-> {0, 2},
   comp_ver_str_len |-> {0, 2}, self_contained_activation_req |-> {0, 1, 2},
   comp_class |-> {13, 14}, comp_resp |-> {1, 2}, comp_resp_code |-> {8, 9, 239, 240},
   comp_compatability_resp |-> {1, 2}, comp_compatability_resp_code |-> {9, 12, 208, 240},
   non_functioning_component_indication |-> {0, 1, 2}, verify_result |-> {2, 3, 144, 176},
   transfer_result |-> {1, 3, 112, 144}, apply_result |-> {2, 3, 176, 208},
   comp_activation_methods_modification |-> {5, 6}, current_state |-> {6, 7},
   previous_state |-> {6, 7}, aux_state |-> {3, 4}, aux_state_status |-> {9, 11, 239},
   progress_percent |-> {101, 102}, reason_code |-> {5, 6, 200}]

MCInstances == {0, 31, 32, 33}

\* Decoders whose checks of the length are too few: a smaller lower limit, an
\* upper limit only, a limit that is in the record, or none.
MCLaxDecoders ==
  {"decode_set_state_effecter_states_req", "decode_get_state_sensor_readings_resp",
   "decode_get_state_effecter_states_resp", "decode_set_state_sensor_enable_resp",
   "decode_get_sensor_hysteresis_resp", "decode_verify_complete_req",
   "decode_transfer_complete_req", "pldm_entity_association_pdr_extract"}

-----------------------------------------------------------------------------
\* The data that ends a message of no fixed length, and a field of which the
\* decoder reads two bytes of four
OpenEnded == {"version_data", "portion_of_meta_data", "fru_structure_data", "table_data"}
ReadInPart == {"capabilities_during_update"}

(***************************************************************************)
(* What a decoder accepts is what the other side has encoded: each field   *)
(* is taken from exactly the bytes its encoder put it in, whatever the     *)
(* counts, widths and flags are that move it.  A message cut short or made *)
(* longer on the way is refused, unless its end is open.                   *)
(***************************************************************************)
DecodedWasEncoded ==
  Accepted /\ conversation.encode # None /\ Len(wire) # 0 /\ running \notin MCLaxDecoders =>
    garbled \subseteq ReadInPart \cup IF touched THEN OpenEnded ELSE {}

\* Decoders that refuse the length of messages that are right: a request
\* struct one byte shorter than its constant, five bytes asked for where there
\* are six, the length looked at before the completion code, a
\* table that is empty, and event data other than of a state sensor.
Refusing ==
  {"decode_get_sensor_reading_req", "decode_get_sensor_hysteresis_resp",
   "decode_get_firmware_parameters_comp_img_set_resp", "decode_get_fru_record_table_resp",
   "decode_sensor_event_data"}

\* Encoders that copy all they are given, whatever payload_length says
Unlimited == {"encode_get_package_data_resp", "encode_get_meta_data_resp"}

(***************************************************************************)
(* Both sides agree on the length: a message that arrives as it was        *)
(* encoded is not refused for its length, for any value of the fields the  *)
(* length depends on, and an encoder that is told how long the payload is  *)
(* writes no more than that.                                               *)
(***************************************************************************)
LengthsAgree ==
  /\ RefusedForLength => running \in Refusing
  /\ Overflows => running \in Unlimited

\* Encoders that do not look at the result of pack_pldm_header
HeaderIgnored ==
  {"encode_get_types_req", "encode_get_types_resp", "encode_get_commands_req",
   "encode_get_commands_resp", "encode_get_tid_req", "encode_get_tid_resp"}

(***************************************************************************)
(* The header names the instance id the encoder was given.  Instance 32 is *)
(* let through, and is 0 in the five bits of the header.                   *)
(***************************************************************************)
HeaderAsGiven ==
  Renamed => header.given = PLDM_INSTANCE_MAX \/ running \in HeaderIgnored
=============================================================================
