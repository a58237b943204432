---------------------------- MODULE PldmPdrCodec ----------------------------
(***************************************************************************)
(* The descriptor records pldmd reads with functions of libpldm_intel:     *)
(* numeric sensors, numeric effecters and entity associations (pdr.c).     *)
(* payload_length is the length of the record.                             *)
(***************************************************************************)
EXTENDS PldmPlatformCodec

PLDM_NUMERIC_SENSOR_PDR_MIN_LENGTH   == 69
PLDM_NUMERIC_EFFECTER_PDR_MIN_LENGTH == 63

RangeFormats == 0 .. 6

\* A value of the width that range_field_format says, and what n of them have
\* more than their first bytes
Ranged == Per("range_field_format", [v \in Byte |-> IF v \in RangeFormats THEN WidthOf(v) ELSE 0])
RangedMore(n) ==
  Per("range_field_format",
      [v \in Byte |-> IF v \in RangeFormats THEN n * (WidthOf(v) - 1) ELSE 0])

\* The functions return false.
Fails == PLDM_ERROR

\* An assertion of the function fails.
Aborts == 256

-----------------------------------------------------------------------------
(***************************************************************************)
(* The structs, cut where the width of what follows is known: all up to    *)
(* the first value of the data size, those values with what is between     *)
(* them, the format of the range, the fields of the range.                 *)
(***************************************************************************)
SensorHead == pldm_pdr_hdr \o
  << <<"sensor", Bytes(10)>>, <<"sensor_init_to_is_linear", Bytes(12)>>,
     <<"sensor_data_size", Bytes(1)>>, <<"resolution_to_minus_tolerance", Bytes(12)>> >>

SensorSized ==
  << <<"hysteresis", Wide("sensor_data_size")>>, <<"thresholds_to_update_interval", Bytes(10)>>,
     <<"max_readable", Wide("sensor_data_size")>>, <<"min_readable", Wide("sensor_data_size")>> >>

EffecterHead == pldm_pdr_hdr \o
  << <<"effecter", Bytes(12)>>, <<"effecter_init_to_is_linear", Bytes(11)>>,
     <<"effecter_data_size", Bytes(1)>>, <<"resolution_to_transition_interval", Bytes(20)>> >>

EffecterSized ==
  << <<"max_set_table", Wide("effecter_data_size")>>,
     <<"min_set_table", Wide("effecter_data_size")>> >>

RangeFormat == << <<"range_field_format", Bytes(1)>>, <<"range_field_support", Bytes(1)>> >>

SensorRange ==
  << <<"nominal_value", Ranged>>, <<"normal_max", Ranged>>, <<"normal_min", Ranged>>,
     <<"warning_high", Ranged>>, <<"warning_low", Ranged>>, <<"critical_high", Ranged>>,
     <<"critical_low", Ranged>>, <<"fatal_high", Ranged>>, <<"fatal_low", Ranged>> >>

EffecterRange ==
  << <<"nominal_value", Ranged>>, <<"normal_max", Ranged>>, <<"normal_min", Ranged>>,
     <<"rated_max", Ranged>>, <<"rated_min", Ranged>> >>

pldm_numeric_sensor_value_pdr   == SensorHead \o SensorSized \o RangeFormat \o SensorRange
pldm_numeric_effecter_value_pdr == EffecterHead \o EffecterSized \o RangeFormat \o EffecterRange

\* Where range_field_format is: after what is as long for every data size, and
\* what the values of the data size have more than their first bytes.
SensorFormatAt   == Plus(Bytes(45 + 13), MoreTimes(3, "sensor_data_size"))
EffecterFormatAt == Plus(Bytes(54 + 2), MoreTimes(2, "effecter_data_size"))

\* Broken variant: the range fields are all as wide as their first bytes.
LengthWithoutRanges(min, n, size, formatAt, ranges) ==
  LET needed == Plus(Bytes(min), MoreTimes(n, size))
  IN  <<OneOfOr(size, DataSizes, Fails),
        Need("payload_length", ">=", needed, Fails),
        Field("range_field_format", formatAt, Bytes(1)),
        OneOfOr("range_field_format", RangeFormats, Fails)>>

\* The record is long enough for n values of the data size, and for as many
\* range fields; each field is counted with one byte in the minimum.
validate_numeric_pdr_len(min, n, size, formatAt, ranges) ==
  LET needed == Plus(Bytes(min), MoreTimes(n, size))
  IN  <<OneOfOr(size, DataSizes, Fails),
        Need("payload_length", ">=", needed, Fails),
        Field("range_field_format", formatAt, Bytes(1)),
        OneOfOr("range_field_format", RangeFormats, Fails),
        Need("payload_length", ">=", Plus(needed, RangedMore(ranges)), Fails)>>

validate_numeric_sensor_pdr_len ==
  <<Field("sensor_data_size", Bytes(32), Bytes(1))>>
  \o validate_numeric_pdr_len(PLDM_NUMERIC_SENSOR_PDR_MIN_LENGTH, 3, "sensor_data_size",
                              SensorFormatAt, 9)

validate_numeric_effecter_pdr_len ==
  <<Field("effecter_data_size", Bytes(33), Bytes(1))>>
  \o validate_numeric_pdr_len(PLDM_NUMERIC_EFFECTER_PDR_MIN_LENGTH, 2, "effecter_data_size",
                              EffecterFormatAt, 5)

\* The part of a struct that follows another, read from where that ends
After(before, part) == LayoutAt(SizeOfStruct(before), part)

\* The bytes that say widths have been looked at when the length was.
NotYetTaken(steps) ==
  SelectSeq(steps, LAMBDA s : s.f \notin {"sensor_data_size", "effecter_data_size",
                                          "range_field_format"})

numeric_sensor_pdr_sensor_data_size_parse     == After(SensorHead, SensorSized)
numeric_effecter_pdr_effecter_data_size_parse == After(EffecterHead, EffecterSized)

numeric_sensor_pdr_range_field_format_parse ==
  <<OneOfOr("range_field_format", RangeFormats, Fails)>>
  \o After(SensorHead \o SensorSized \o RangeFormat, SensorRange)
numeric_effecter_pdr_range_field_format_parse ==
  <<OneOfOr("range_field_format", RangeFormats, Fails)>>
  \o After(EffecterHead \o EffecterSized \o RangeFormat, EffecterRange)

pldm_numeric_sensor_pdr_parse ==
  <<Need("payload_length", ">=", Bytes(PLDM_NUMERIC_SENSOR_PDR_MIN_LENGTH), Fails)>>
  \o validate_numeric_sensor_pdr_len
  \o NotYetTaken(Layout(SensorHead))
  \o numeric_sensor_pdr_sensor_data_size_parse
  \o NotYetTaken(After(SensorHead \o SensorSized, RangeFormat))
  \o numeric_sensor_pdr_range_field_format_parse

pldm_numeric_effecter_pdr_parse ==
  <<Need("payload_length", ">=", Bytes(PLDM_NUMERIC_EFFECTER_PDR_MIN_LENGTH), Fails)>>
  \o validate_numeric_effecter_pdr_len
  \o NotYetTaken(Layout(EffecterHead))
  \o numeric_effecter_pdr_effecter_data_size_parse
  \o NotYetTaken(After(EffecterHead \o EffecterSized, RangeFormat))
  \o numeric_effecter_pdr_range_field_format_parse

-----------------------------------------------------------------------------
(***************************************************************************)
(* An association: a container and the entities in it.                     *)
(***************************************************************************)
pldm_entity == 6

AssociationHead ==
  << <<"pdr_header", Bytes(8)>>, <<"association_length", Bytes(2)>>,
     <<"container_id", Bytes(2)>>, <<"association_type", Bytes(1)>> >>

pldm_pdr_entity_association == AssociationHead \o
  << <<"container", Bytes(pldm_entity)>>, <<"num_children", Bytes(1)>>,
     <<"children", Times(pldm_entity, "num_children")>> >>

\* What follows the header is as long as the number of children says.
AssociationLength(result) ==
  <<Need("num_children", ">=", Bytes(1), result),
    Need("association_length", "=", Plus(Bytes(10), Times(pldm_entity, "num_children")), result)>>

\* The length in the header is looked at, not the one of the record.
pldm_entity_association_pdr_extract ==
  <<Need("payload_length", ">=", Bytes(10 + 10 + pldm_entity), Aborts),
    Field("association_length", Bytes(8), Bytes(2)),
    Field("num_children", Bytes(10 + 9), Bytes(1))>>
  \o AssociationLength(Aborts)
  \o After(AssociationHead, << <<"container", Bytes(pldm_entity)>> >>)
  \o After(SubSeq(pldm_pdr_entity_association, 1, 6),
           << <<"children", Times(pldm_entity, "num_children")>> >>)

PdrCode ==
  [pldm_numeric_sensor_pdr_parse       |-> pldm_numeric_sensor_pdr_parse,
   pldm_numeric_effecter_pdr_parse     |-> pldm_numeric_effecter_pdr_parse,
   pldm_entity_association_pdr_extract |-> pldm_entity_association_pdr_extract]
=============================================================================
