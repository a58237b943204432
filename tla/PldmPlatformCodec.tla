------------------------- MODULE PldmPlatformCodec -------------------------
(***************************************************************************)
(* The messages of PLDM for platform monitoring and control, and the event *)
(* data they carry: libpldm_intel/platform.c.                              *)
(***************************************************************************)
EXTENDS PldmMessage

\* n values of the width that field f says
WideTimes(n, f) == Per(f, [v \in Byte |-> IF v \in DataSizes THEN n * WidthOf(v) ELSE 0])

\* What a value of the width that field f says has more than its first byte.
More(f) == Per(f, [v \in Byte |-> IF v \in DataSizes THEN WidthOf(v) - 1 ELSE 0])

\* The same for n values
MoreTimes(n, f) ==
  Per(f, [v \in Byte |-> IF v \in DataSizes THEN n * (WidthOf(v) - 1) ELSE 0])

PLDM_COMPOSITE_EFFECTER_COUNT == 1 .. 8

\* A request for something about one sensor, or one effecter
pldm_sensor_req   == << <<"sensor_id", Bytes(2)>> >>
pldm_effecter_req == << <<"effecter_id", Bytes(2)>> >>

\* A response in which nothing follows the completion code: the decoders
\* here look for a payload that is too long only.
decode_completion_code_only == <<Completion, LengthAtMost(Bytes(1))>>

-----------------------------------------------------------------------------
(***************************************************************************)
(* Descriptor records with a list of possible states, each with one byte   *)
(* of states.                                                              *)
(***************************************************************************)
state_effecter_possible_states == << <<"state_set_id", Bytes(2)>>,
  <<"possible_states_size", Bytes(1)>>, <<"states", Bytes(1)>> >>

PossibleStates(count) == Times(SizeOfStruct(state_effecter_possible_states).n, count)

pldm_pdr_hdr == << <<"record_handle", Bytes(4)>>, <<"version", Bytes(1)>>, <<"pdr_type", Bytes(1)>>,
  <<"record_change_num", Bytes(2)>>, <<"hdr_length", Bytes(2)>> >>

pldm_state_effecter_pdr == pldm_pdr_hdr \o
  << <<"terminus_handle", Bytes(2)>>, <<"effecter_id", Bytes(2)>>, <<"entity_type", Bytes(2)>>,
     <<"entity_instance", Bytes(2)>>, <<"container_id", Bytes(2)>>,
     <<"effecter_semantic_id", Bytes(2)>>, <<"effecter_init", Bytes(1)>>,
     <<"has_description_pdr", Bytes(1)>>, <<"composite_effecter_count", Bytes(1)>> >>

pldm_state_sensor_pdr == pldm_pdr_hdr \o
  << <<"terminus_handle", Bytes(2)>>, <<"sensor_id", Bytes(2)>>, <<"entity_type", Bytes(2)>>,
     <<"entity_instance", Bytes(2)>>, <<"container_id", Bytes(2)>>, <<"sensor_init", Bytes(1)>>,
     <<"sensor_auxiliary_names_pdr", Bytes(1)>>, <<"composite_sensor_count", Bytes(1)>> >>

\* payload_length is the size of the allocation.
EncodePdr(pdr, count) ==
  <<Need("possible_states_size", "=", PossibleStates(count), PLDM_ERROR),
    LengthAtLeast(Plus(SizeOfStruct(pdr), Times(1, "possible_states_size")))>>
  \o Layout(pdr)
  \o <<Field("possible_states", SizeOfStruct(pdr), Times(1, "possible_states_size"))>>

encode_state_effecter_pdr == EncodePdr(pldm_state_effecter_pdr, "composite_effecter_count")
encode_state_sensor_pdr   == EncodePdr(pldm_state_sensor_pdr, "composite_sensor_count")

-----------------------------------------------------------------------------
(***************************************************************************)
(* Descriptor records: PDR repository, GetPDR.                             *)
(***************************************************************************)
PLDM_GET_PDR_REQ_BYTES      == Bytes(13)
PLDM_GET_PDR_MIN_RESP_BYTES == Bytes(12)

pldm_get_pdr_req ==
  << <<"record_handle", Bytes(4)>>, <<"data_transfer_handle", Bytes(4)>>,
     <<"transfer_op_flag", Bytes(1)>>, <<"request_count", Bytes(2)>>,
     <<"record_change_number", Bytes(2)>> >>

pldm_get_pdr_resp ==
  << <<"completion_code", Bytes(1)>>, <<"next_record_handle", Bytes(4)>>,
     <<"next_data_transfer_handle", Bytes(4)>>, <<"transfer_flag", Bytes(1)>>,
     <<"response_count", Bytes(2)>>, <<"record_data", Times(1, "response_count")>> >>

\* Only the last part of a record has a checksum.
transfer_crc == Per("transfer_flag", [v \in Byte |-> IF v = PLDM_END THEN 1 ELSE 0])

Crc == Field("transfer_crc", Plus(PLDM_GET_PDR_MIN_RESP_BYTES, Times(1, "response_count")),
             transfer_crc)

decode_get_pdr_req == <<LengthIs(PLDM_GET_PDR_REQ_BYTES)>> \o Layout(pldm_get_pdr_req)

encode_get_pdr_resp == <<Header, Completion>> \o Body(pldm_get_pdr_resp) \o <<Crc>>

encode_get_pdr_req == <<Header, LengthIs(PLDM_GET_PDR_REQ_BYTES)>> \o Layout(pldm_get_pdr_req)

\* Broken variant: the checksum of the last part is not counted.
PdrWithoutCrc ==
  <<Completion, LengthAtLeast(PLDM_GET_PDR_MIN_RESP_BYTES)>>
  \o Front(Body(pldm_get_pdr_resp))
  \o <<LengthIs(Plus(PLDM_GET_PDR_MIN_RESP_BYTES, Times(1, "response_count"))),
       Need("record_data_length", ">=", Times(1, "response_count"),
            PLDM_ERROR_INVALID_LENGTH),
       Last(Layout(pldm_get_pdr_resp)), Crc>>

\* record_data_length is the size of the caller's buffer.
decode_get_pdr_resp ==
  <<Completion, LengthAtLeast(PLDM_GET_PDR_MIN_RESP_BYTES)>>
  \o Front(Body(pldm_get_pdr_resp))
  \o <<LengthIs(Plus(PLDM_GET_PDR_MIN_RESP_BYTES,
                     Plus(Times(1, "response_count"), transfer_crc))),
       Need("record_data_length", ">=", Times(1, "response_count"),
            PLDM_ERROR_INVALID_LENGTH),
       Last(Layout(pldm_get_pdr_resp)), Crc>>

\* The repository's state, times, numbers and sizes
pldm_get_pdr_repository_info_resp ==
  << <<"completion_code", Bytes(1)>>, <<"repository_state", Bytes(1)>>,
     <<"update_time", Bytes(13)>>, <<"oem_update_time", Bytes(13)>>,
     <<"record_count", Bytes(4)>>, <<"repository_size", Bytes(4)>>,
     <<"largest_record_size", Bytes(4)>>, <<"data_transfer_handle_timeout", Bytes(1)>> >>

encode_get_pdr_repository_info_req == <<HeaderOfType>>

decode_get_pdr_repository_info_resp ==
  <<Completion, LengthIs(SizeOfStruct(pldm_get_pdr_repository_info_resp))>>
  \o Body(pldm_get_pdr_repository_info_resp)
  \o <<OneOf("repository_state", 0 .. 2)>>

pldm_get_terminus_uid_resp ==
  << <<"completion_code", Bytes(1)>>, <<"uuid", Bytes(16)>> >>

decode_get_terminus_uid_resp ==
  <<Completion, LengthIs(SizeOfStruct(pldm_get_terminus_uid_resp))>>
  \o Body(pldm_get_terminus_uid_resp)

-----------------------------------------------------------------------------
(***************************************************************************)
(* Effecters.                                                              *)
(***************************************************************************)
PLDM_SET_STATE_EFFECTER_STATES_REQ_BYTES == Bytes(19)

pldm_set_state_effecter_states_req ==
  << <<"effecter_id", Bytes(2)>>, <<"comp_effecter_count", Bytes(1)>>,
     <<"field", Times(2, "comp_effecter_count")>> >>

encode_set_state_effecter_states_resp ==
  <<Field("completion_code", Bytes(0), Bytes(1)), Header>>

encode_set_state_effecter_states_req ==
  <<Header, OneOf("comp_effecter_count", PLDM_COMPOSITE_EFFECTER_COUNT)>>
  \o Layout(pldm_set_state_effecter_states_req)

decode_set_state_effecter_states_resp == decode_completion_code_only

decode_set_state_effecter_states_req ==
  <<LengthAtMost(PLDM_SET_STATE_EFFECTER_STATES_REQ_BYTES)>>
  \o Layout(pldm_set_state_effecter_states_req)

PLDM_SET_NUMERIC_EFFECTER_VALUE_MIN_REQ_BYTES  == Bytes(4)
PLDM_GET_NUMERIC_EFFECTER_VALUE_MIN_RESP_BYTES == Bytes(5)
EFFECTER_OPER_STATE == 0 .. 8

\* The value's first byte is part of the least length.
NumericEffecterLength ==
  LengthIs(Plus(PLDM_SET_NUMERIC_EFFECTER_VALUE_MIN_REQ_BYTES, More("effecter_data_size")))

pldm_set_numeric_effecter_value_req ==
  << <<"effecter_id", Bytes(2)>>, <<"effecter_data_size", Bytes(1)>>,
     <<"effecter_value", Wide("effecter_data_size")>> >>

decode_set_numeric_effecter_value_req ==
  <<LengthAtLeast(PLDM_SET_NUMERIC_EFFECTER_VALUE_MIN_REQ_BYTES)>>
  \o Front(Layout(pldm_set_numeric_effecter_value_req))
  \o <<OneOf("effecter_data_size", DataSizes), NumericEffecterLength,
       Last(Layout(pldm_set_numeric_effecter_value_req))>>

encode_set_numeric_effecter_value_resp ==
  <<LengthIs(Bytes(1)), Field("completion_code", Bytes(0), Bytes(1)), Header>>

encode_set_numeric_effecter_value_req ==
  <<Header, OneOf("effecter_data_size", DataSizes), NumericEffecterLength>>
  \o Layout(pldm_set_numeric_effecter_value_req)

decode_set_numeric_effecter_value_resp ==
  <<LengthIs(Bytes(1)), Field("completion_code", Bytes(0), Bytes(1))>>

pldm_get_numeric_effecter_value_resp ==
  << <<"completion_code", Bytes(1)>>, <<"effecter_data_size", Bytes(1)>>,
     <<"effecter_oper_state", Bytes(1)>>, <<"pending_value", Wide("effecter_data_size")>>,
     <<"present_value", Wide("effecter_data_size")>> >>

NumericEffecterRespLength ==
  LengthIs(Plus(PLDM_GET_NUMERIC_EFFECTER_VALUE_MIN_RESP_BYTES,
                MoreTimes(2, "effecter_data_size")))

encode_get_numeric_effecter_value_req == <<Header>> \o Layout(pldm_effecter_req)

encode_get_numeric_effecter_value_resp ==
  <<OneOf("effecter_data_size", DataSizes), OneOf("effecter_oper_state", EFFECTER_OPER_STATE),
    Header>>
  \o SubSeq(Layout(pldm_get_numeric_effecter_value_resp), 1, 3)
  \o <<NumericEffecterRespLength>>
  \o SubSeq(Layout(pldm_get_numeric_effecter_value_resp), 4, 5)

decode_get_numeric_effecter_value_req == <<LengthIs(Bytes(2))>> \o Layout(pldm_effecter_req)

\* Broken variant: the second value is taken from behind a value of one byte.
SecondValueAtFixedOffset ==
  <<Completion, LengthAtLeast(PLDM_GET_NUMERIC_EFFECTER_VALUE_MIN_RESP_BYTES)>>
  \o SubSeq(Layout(pldm_get_numeric_effecter_value_resp), 2, 3)
  \o <<OneOf("effecter_data_size", DataSizes),
       OneOf("effecter_oper_state", EFFECTER_OPER_STATE), NumericEffecterRespLength,
       Layout(pldm_get_numeric_effecter_value_resp)[4],
       Field("present_value", Bytes(4), Wide("effecter_data_size"))>>

decode_get_numeric_effecter_value_resp ==
  <<Completion, LengthAtLeast(PLDM_GET_NUMERIC_EFFECTER_VALUE_MIN_RESP_BYTES)>>
  \o SubSeq(Layout(pldm_get_numeric_effecter_value_resp), 2, 3)
  \o <<OneOf("effecter_data_size", DataSizes),
       OneOf("effecter_oper_state", EFFECTER_OPER_STATE), NumericEffecterRespLength>>
  \o SubSeq(Layout(pldm_get_numeric_effecter_value_resp), 4, 5)

PLDM_SENSOR_OPERATIONAL_STATE == 0 .. 2

pldm_set_numeric_effecter_enable_req ==
  << <<"effecter_id", Bytes(2)>>, <<"effecter_operational_state", Bytes(1)>> >>

\* The limit is the one of a sensor's state.
encode_set_numeric_effecter_enable_req ==
  <<OneOf("effecter_operational_state", PLDM_SENSOR_OPERATIONAL_STATE), Header>>
  \o Layout(pldm_set_numeric_effecter_enable_req)

PLDM_NO_CHANGE_EVENTS == 255

\* Every op field is checked before it is copied; one stands for all.
is_state_effecter_op_field_valid ==
  <<OneOf("effecter_event_enable", {0, 1, PLDM_NO_CHANGE_EVENTS}),
    OneOf("op_effecter_oper_state", EFFECTER_OPER_STATE)>>

pldm_set_state_effecter_enable_req ==
  << <<"effecter_id", Bytes(2)>>, <<"comp_effecter_count", Bytes(1)>>,
     <<"op_field", Times(2, "comp_effecter_count")>> >>

encode_set_state_effecter_enable_req ==
  <<OneOf("comp_effecter_count", PLDM_COMPOSITE_EFFECTER_COUNT), Header>>
  \o Front(Layout(pldm_set_state_effecter_enable_req))
  \o is_state_effecter_op_field_valid
  \o <<Last(Layout(pldm_set_state_effecter_enable_req))>>

encode_get_state_effecter_states_req == <<Header>> \o Layout(pldm_effecter_req)

pldm_get_state_effecter_states_resp ==
  << <<"completion_code", Bytes(1)>>, <<"comp_effecter_count", Bytes(1)>>,
     <<"field", Times(3, "comp_effecter_count")>> >>

\* capacity is the number of fields the caller has room for.
decode_get_state_effecter_states_resp ==
  <<Completion, LengthAtMost(Plus(Bytes(2), Times(3, "capacity"))),
    Layout(pldm_get_state_effecter_states_resp)[2],
    OneOf("comp_effecter_count", PLDM_COMPOSITE_EFFECTER_COUNT),
    Need("comp_effecter_count", "<=", Times(1, "capacity"), PLDM_ERROR_INVALID_LENGTH),
    Layout(pldm_get_state_effecter_states_resp)[3]>>

-----------------------------------------------------------------------------
(***************************************************************************)
(* Sensors.                                                                *)
(***************************************************************************)
pldm_get_state_sensor_readings_req ==
  << <<"sensor_id", Bytes(2)>>, <<"sensor_rearm", Bytes(1)>>, <<"reserved", Bytes(1)>> >>

pldm_get_state_sensor_readings_resp ==
  << <<"completion_code", Bytes(1)>>, <<"comp_sensor_count", Bytes(1)>>,
     <<"field", Times(4, "comp_sensor_count")>> >>

\* The fields follow whatever the completion code is.
encode_get_state_sensor_readings_resp ==
  <<Header, OneOf("comp_sensor_count", PLDM_COMPOSITE_EFFECTER_COUNT)>>
  \o Layout(pldm_get_state_sensor_readings_resp)

encode_get_state_sensor_readings_req == <<Header>> \o Layout(pldm_get_state_sensor_readings_req)

decode_get_state_sensor_readings_resp ==
  <<Completion, LengthAtMost(Plus(Bytes(2), Times(4, "capacity"))),
    Layout(pldm_get_state_sensor_readings_resp)[2],
    OneOf("comp_sensor_count", PLDM_COMPOSITE_EFFECTER_COUNT),
    Need("comp_sensor_count", "<=", Times(1, "capacity"), PLDM_ERROR_INVALID_LENGTH),
    Layout(pldm_get_state_sensor_readings_resp)[3]>>

decode_get_state_sensor_readings_req ==
  <<LengthIs(Bytes(4))>> \o Layout(pldm_get_state_sensor_readings_req)

PLDM_GET_NUMERIC_SENSOR_THRESHOLD_MIN_RSP_BYTES  == Bytes(8)
PLDM_GET_NUMERIC_SENSOR_HYSTERESIS_MIN_RSP_BYTES == Bytes(3)

pldm_set_sensor_threshold_req ==
  << <<"sensor_id", Bytes(2)>>, <<"sensor_data_size", Bytes(1)>>,
     <<"thresholds", WideTimes(6, "sensor_data_size")>> >>

pldm_get_sensor_threshold_resp ==
  << <<"completion_code", Bytes(1)>>, <<"sensor_data_size", Bytes(1)>>,
     <<"thresholds", WideTimes(6, "sensor_data_size")>> >>

pldm_set_sensor_hysteresis_req ==
  << <<"sensor_id", Bytes(2)>>, <<"sensor_data_size", Bytes(1)>>,
     <<"hysteresis", Wide("sensor_data_size")>> >>

pldm_get_sensor_hysteresis_resp ==
  << <<"completion_code", Bytes(1)>>, <<"sensor_data_size", Bytes(1)>>,
     <<"hysteresis", Wide("sensor_data_size")>> >>

decode_set_sensor_threshold_resp == decode_completion_code_only

encode_set_sensor_threshold_req ==
  <<OneOf("sensor_data_size", DataSizes), Header>> \o Layout(pldm_set_sensor_threshold_req)

encode_get_sensor_threshold_req == <<Header>> \o Layout(pldm_sensor_req)

decode_get_sensor_threshold_resp ==
  <<Completion, LengthAtLeast(PLDM_GET_NUMERIC_SENSOR_THRESHOLD_MIN_RSP_BYTES),
    Layout(pldm_get_sensor_threshold_resp)[2],
    OneOf("sensor_data_size", DataSizes),
    LengthIs(Plus(PLDM_GET_NUMERIC_SENSOR_THRESHOLD_MIN_RSP_BYTES,
                  MoreTimes(6, "sensor_data_size"))),
    Layout(pldm_get_sensor_threshold_resp)[3]>>

decode_set_sensor_hysteresis_resp == decode_completion_code_only

encode_set_sensor_hysteresis_req ==
  <<OneOf("sensor_data_size", DataSizes), Header>> \o Layout(pldm_set_sensor_hysteresis_req)

encode_get_sensor_hysteresis_req == <<Header>> \o Layout(pldm_sensor_req)

\* A 32 bit hysteresis has three bytes more than an 8 bit one, the code asks
\* for two.
HysteresisMore ==
  Per("sensor_data_size",
      [v \in Byte |-> CASE v \in {2, 3} -> 1 [] v \in {4, 5} -> 2 [] OTHER -> 0])

decode_get_sensor_hysteresis_resp ==
  <<Completion, LengthAtLeast(PLDM_GET_NUMERIC_SENSOR_HYSTERESIS_MIN_RSP_BYTES),
    Layout(pldm_get_sensor_hysteresis_resp)[2],
    OneOf("sensor_data_size", DataSizes),
    LengthIs(Plus(PLDM_GET_NUMERIC_SENSOR_HYSTERESIS_MIN_RSP_BYTES, HysteresisMore)),
    Layout(pldm_get_sensor_hysteresis_resp)[3]>>

PLDM_SET_STATE_SENSOR_ENABLE_RESP_BYTES == Bytes(3)

pldm_set_state_sensor_enable_resp ==
  << <<"completion_code", Bytes(1)>>, <<"sensorOperationalState", Bytes(1)>>,
     <<"eventMessageEnable", Bytes(1)>> >>

decode_set_state_sensor_enable_resp ==
  <<Completion, LengthAtMost(PLDM_SET_STATE_SENSOR_ENABLE_RESP_BYTES)>>
  \o Body(pldm_set_state_sensor_enable_resp)

decode_set_numeric_sensor_enable_resp == decode_completion_code_only

PLDM_GET_SENSOR_READING_REQ_BYTES      == Bytes(4)
PLDM_GET_SENSOR_READING_MIN_RESP_BYTES == Bytes(8)

pldm_get_sensor_reading_req ==
  << <<"sensor_id", Bytes(2)>>, <<"rearm_event_state", Bytes(1)>> >>

pldm_get_sensor_reading_resp ==
  << <<"completion_code", Bytes(1)>>, <<"sensor_data_size", Bytes(1)>>,
     <<"sensor_operational_state", Bytes(1)>>, <<"sensor_event_message_enable", Bytes(1)>>,
     <<"present_state", Bytes(1)>>, <<"previous_state", Bytes(1)>>, <<"event_state", Bytes(1)>>,
     <<"present_reading", Wide("sensor_data_size")>> >>

SensorReadingLength ==
  LengthIs(Plus(PLDM_GET_SENSOR_READING_MIN_RESP_BYTES, More("sensor_data_size")))

encode_get_sensor_reading_req == <<Header>> \o Layout(pldm_get_sensor_reading_req)

\* data_size_limit is the largest size the caller can take.
decode_get_sensor_reading_resp ==
  <<Completion, LengthAtLeast(PLDM_GET_SENSOR_READING_MIN_RESP_BYTES),
    Layout(pldm_get_sensor_reading_resp)[2], OneOf("sensor_data_size", DataSizes),
    Need("sensor_data_size", "<=", Times(1, "data_size_limit"), PLDM_ERROR_INVALID_LENGTH)>>
  \o SubSeq(Layout(pldm_get_sensor_reading_resp), 3, 7)
  \o <<SensorReadingLength, Last(Layout(pldm_get_sensor_reading_resp))>>

encode_get_sensor_reading_resp ==
  <<OneOf("sensor_data_size", DataSizes), Header>>
  \o Front(Layout(pldm_get_sensor_reading_resp))
  \o <<SensorReadingLength, Last(Layout(pldm_get_sensor_reading_resp))>>

decode_get_sensor_reading_req ==
  <<LengthIs(PLDM_GET_SENSOR_READING_REQ_BYTES)>> \o Layout(pldm_get_sensor_reading_req)

pldm_set_numeric_sensor_enable_req ==
  << <<"sensor_id", Bytes(2)>>, <<"numeric_sensor_op_state", Bytes(1)>>,
     <<"sensor_event_enable", Bytes(1)>> >>

\* PLDM_NO_EVENT_GENERATION to PLDM_STATE_EVENTS_ONLY_ENABLED
pldm_sensor_event_message_enable == 0 .. 4

encode_set_numeric_sensor_enable_req ==
  <<OneOf("sensor_event_enable", pldm_sensor_event_message_enable),
    OneOf("numeric_sensor_op_state", PLDM_SENSOR_OPERATIONAL_STATE), Header>>
  \o Layout(pldm_set_numeric_sensor_enable_req)

is_state_sensor_op_field_valid ==
  <<OneOf("event_message_enable", {0, PLDM_NO_CHANGE_EVENTS}),
    OneOf("op_sensor_oper_state", PLDM_SENSOR_OPERATIONAL_STATE)>>

pldm_set_state_sensor_enable_req ==
  << <<"sensor_id", Bytes(2)>>, <<"comp_sensor_count", Bytes(1)>>,
     <<"op_field", Times(2, "comp_sensor_count")>> >>

encode_set_state_sensor_enable_req ==
  <<OneOf("comp_sensor_count", PLDM_COMPOSITE_EFFECTER_COUNT), Header>>
  \o Front(Layout(pldm_set_state_sensor_enable_req))
  \o is_state_sensor_op_field_valid
  \o <<Last(Layout(pldm_set_state_sensor_enable_req))>>

-----------------------------------------------------------------------------
(***************************************************************************)
(* Events.  payload_length is the length of the event data in the          *)
(* functions that are given event data.                                    *)
(***************************************************************************)
PLDM_PLATFORM_EVENT_MESSAGE_MIN_REQ_BYTES == Bytes(3)
PLDM_PLATFORM_EVENT_STATUS == 0 .. 5

pldm_platform_event_message_req ==
  << <<"format_version", Bytes(1)>>, <<"tid", Bytes(1)>>, <<"event_class", Bytes(1)>> >>

pldm_platform_event_message_resp ==
  << <<"completion_code", Bytes(1)>>, <<"platform_event_status", Bytes(1)>> >>

\* The event data is left to the caller, who is given its offset.
decode_platform_event_message_req ==
  <<LengthAtLeast(Bytes(4))>> \o Layout(pldm_platform_event_message_req)

encode_platform_event_message_resp ==
  <<OneOf("platform_event_status", PLDM_PLATFORM_EVENT_STATUS)>>
  \o Layout(pldm_platform_event_message_resp) \o <<Header>>

encode_platform_event_message_req ==
  <<OneOf("format_version", {1}),
    Need("event_data_length", ">=", Bytes(1), PLDM_ERROR_INVALID_DATA),
    LengthIs(Plus(PLDM_PLATFORM_EVENT_MESSAGE_MIN_REQ_BYTES, Times(1, "event_data_length"))),
    OneOf("event_class", (0 .. 6) \cup (240 .. 254)), Header>>
  \o Layout(pldm_platform_event_message_req)
  \o <<Field("event_data", Bytes(3), Times(1, "event_data_length"))>>

decode_platform_event_message_resp ==
  <<Completion, LengthIs(Bytes(2))>> \o Body(pldm_platform_event_message_resp)
  \o <<OneOf("platform_event_status", PLDM_PLATFORM_EVENT_STATUS)>>

\* enum sensor_event_class_states
PLDM_SENSOR_OP_STATE      == 0
PLDM_STATE_SENSOR_STATE   == 1
PLDM_NUMERIC_SENSOR_STATE == 2

pldm_sensor_event_data ==
  << <<"sensor_id", Bytes(2)>>, <<"sensor_event_class_type", Bytes(1)>> >>

pldm_sensor_event_state_sensor_state ==
  << <<"sensor_offset", Bytes(1)>>, <<"event_state", Bytes(1)>>,
     <<"previous_event_state", Bytes(1)>> >>

pldm_sensor_event_sensor_op_state ==
  << <<"present_op_state", Bytes(1)>>, <<"previous_op_state", Bytes(1)>> >>

\* The encoder writes the data of a state sensor whatever the class it is given.
encode_sensor_event_data ==
  <<LengthAtLeast(Bytes(6))>>
  \o Layout(pldm_sensor_event_data \o pldm_sensor_event_state_sensor_state)

\* The least and the most event data there is for a class
EventDataAtLeast ==
  [v \in Byte |-> CASE v = PLDM_SENSOR_OP_STATE      -> 5
                    [] v = PLDM_STATE_SENSOR_STATE   -> 6
                    [] v = PLDM_NUMERIC_SENSOR_STATE -> 7
                    [] OTHER                         -> 0]
EventDataAtMost ==
  [v \in Byte |-> CASE v = PLDM_SENSOR_OP_STATE      -> 5
                    [] v = PLDM_STATE_SENSOR_STATE   -> 6
                    [] v = PLDM_NUMERIC_SENSOR_STATE -> 10
                    [] OTHER                         -> 255]

decode_sensor_event_data ==
  <<LengthAtLeast(Bytes(5))>> \o Layout(pldm_sensor_event_data)
  \o <<LengthAtLeast(Per("sensor_event_class_type", EventDataAtLeast)),
       LengthAtMost(Per("sensor_event_class_type", EventDataAtMost)),
       OneOf("sensor_event_class_type", 0 .. 2)>>

decode_sensor_op_data == <<LengthIs(Bytes(2))>> \o Layout(pldm_sensor_event_sensor_op_state)

decode_state_sensor_data == <<LengthIs(Bytes(3))>> \o Layout(pldm_sensor_event_state_sensor_state)

pldm_sensor_event_numeric_sensor_state ==
  << <<"event_state", Bytes(1)>>, <<"previous_event_state", Bytes(1)>>,
     <<"sensor_data_size", Bytes(1)>>, <<"present_reading", Wide("sensor_data_size")>> >>

\* A size that is not defined is refused where the length is looked at.
decode_numeric_sensor_data ==
  <<LengthAtLeast(Bytes(4)), LengthAtMost(Bytes(7))>>
  \o Front(Layout(pldm_sensor_event_numeric_sensor_state))
  \o <<OneOf("sensor_data_size", DataSizes),
       LengthIs(Plus(Bytes(4), More("sensor_data_size"))),
       Last(Layout(pldm_sensor_event_numeric_sensor_state))>>

pldm_pdr_repository_chg_event_data ==
  << <<"event_data_format", Bytes(1)>>, <<"number_of_change_records", Bytes(1)>> >>

pldm_pdr_repository_change_record_data ==
  << <<"event_data_operation", Bytes(1)>>, <<"number_of_change_entries", Bytes(1)>> >>

\* Every change record has the same number of entries here; what follows the
\* two numbers is one field.
ChangeRecords ==
  Plus(Times(2, "number_of_change_records"), Times(4, "change_entries"))

encode_pldm_pdr_repository_chg_event_data ==
  <<LengthAtLeast(Plus(Bytes(2), ChangeRecords))>>
  \o Layout(pldm_pdr_repository_chg_event_data)
  \o <<Field("change_records", Bytes(2), ChangeRecords)>>

decode_pldm_pdr_repository_chg_event_data ==
  <<LengthAtLeast(Bytes(2))>> \o Layout(pldm_pdr_repository_chg_event_data)

decode_pldm_pdr_repository_change_record_data ==
  <<LengthAtLeast(Bytes(2))>> \o Layout(pldm_pdr_repository_change_record_data)

-----------------------------------------------------------------------------
PlatformCode ==
  [encode_state_effecter_pdr |-> encode_state_effecter_pdr,
   encode_state_sensor_pdr |-> encode_state_sensor_pdr,
   decode_get_pdr_req |-> decode_get_pdr_req,
   encode_get_pdr_resp |-> encode_get_pdr_resp,
   encode_get_pdr_req |-> encode_get_pdr_req,
   decode_get_pdr_resp |-> decode_get_pdr_resp,
   encode_get_pdr_repository_info_req |-> encode_get_pdr_repository_info_req,
   decode_get_pdr_repository_info_resp |-> decode_get_pdr_repository_info_resp,
   decode_get_terminus_uid_resp |-> decode_get_terminus_uid_resp,
   encode_set_state_effecter_states_resp |-> encode_set_state_effecter_states_resp,
   encode_set_state_effecter_states_req |-> encode_set_state_effecter_states_req,
   decode_set_state_effecter_states_resp |-> decode_set_state_effecter_states_resp,
   decode_set_state_effecter_states_req |-> decode_set_state_effecter_states_req,
   decode_set_numeric_effecter_value_req |-> decode_set_numeric_effecter_value_req,
   encode_set_numeric_effecter_value_resp |-> encode_set_numeric_effecter_value_resp,
   encode_set_numeric_effecter_value_req |-> encode_set_numeric_effecter_value_req,
   decode_set_numeric_effecter_value_resp |-> decode_set_numeric_effecter_value_resp,
   encode_get_numeric_effecter_value_req |-> encode_get_numeric_effecter_value_req,
   encode_get_numeric_effecter_value_resp |-> encode_get_numeric_effecter_value_resp,
   decode_get_numeric_effecter_value_req |-> decode_get_numeric_effecter_value_req,
   decode_get_numeric_effecter_value_resp |-> decode_get_numeric_effecter_value_resp,
   encode_set_numeric_effecter_enable_req |-> encode_set_numeric_effecter_enable_req,
   encode_set_state_effecter_enable_req |-> encode_set_state_effecter_enable_req,
   encode_get_state_effecter_states_req |-> encode_get_state_effecter_states_req,
   decode_get_state_effecter_states_resp |-> decode_get_state_effecter_states_resp,
   encode_get_state_sensor_readings_resp |-> encode_get_state_sensor_readings_resp,
   encode_get_state_sensor_readings_req |-> encode_get_state_sensor_readings_req,
   decode_get_state_sensor_readings_resp |-> decode_get_state_sensor_readings_resp,
   decode_get_state_sensor_readings_req |-> decode_get_state_sensor_readings_req,
   decode_set_sensor_threshold_resp |-> decode_set_sensor_threshold_resp,
   encode_set_sensor_threshold_req |-> encode_set_sensor_threshold_req,
   encode_get_sensor_threshold_req |-> encode_get_sensor_threshold_req,
   decode_get_sensor_threshold_resp |-> decode_get_sensor_threshold_resp,
   decode_set_sensor_hysteresis_resp |-> decode_set_sensor_hysteresis_resp,
   encode_set_sensor_hysteresis_req |-> encode_set_sensor_hysteresis_req,
   encode_get_sensor_hysteresis_req |-> encode_get_sensor_hysteresis_req,
   decode_get_sensor_hysteresis_resp |-> decode_get_sensor_hysteresis_resp,
   decode_set_state_sensor_enable_resp |-> decode_set_state_sensor_enable_resp,
   decode_set_numeric_sensor_enable_resp |-> decode_set_numeric_sensor_enable_resp,
   encode_get_sensor_reading_req |-> encode_get_sensor_reading_req,
   decode_get_sensor_reading_resp |-> decode_get_sensor_reading_resp,
   encode_get_sensor_reading_resp |-> encode_get_sensor_reading_resp,
   decode_get_sensor_reading_req |-> decode_get_sensor_reading_req,
   encode_set_numeric_sensor_enable_req |-> encode_set_numeric_sensor_enable_req,
   encode_set_state_sensor_enable_req |-> encode_set_state_sensor_enable_req,
   decode_platform_event_message_req |-> decode_platform_event_message_req,
   encode_platform_event_message_resp |-> encode_platform_event_message_resp,
   encode_platform_event_message_req |-> encode_platform_event_message_req,
   decode_platform_event_message_resp |-> decode_platform_event_message_resp,
   encode_sensor_event_data |-> encode_sensor_event_data,
   decode_sensor_event_data |-> decode_sensor_event_data,
   decode_sensor_op_data |-> decode_sensor_op_data,
   decode_state_sensor_data |-> decode_state_sensor_data,
   decode_numeric_sensor_data |-> decode_numeric_sensor_data,
   encode_pldm_pdr_repository_chg_event_data |-> encode_pldm_pdr_repository_chg_event_data,
   decode_pldm_pdr_repository_chg_event_data |-> decode_pldm_pdr_repository_chg_event_data,
   decode_pldm_pdr_repository_change_record_data |-> decode_pldm_pdr_repository_change_record_data]
=============================================================================
