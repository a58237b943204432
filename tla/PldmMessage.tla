---------------------------- MODULE PldmMessage ----------------------------
(***************************************************************************)
(* The steps the encode_ and decode_ functions of libpldm_intel are made   *)
(* of.  A function is the sequence of its checks, reads and writes in the  *)
(* order of the code; PldmExchange runs such sequences.                    *)
(*                                                                         *)
(* Null pointer checks are left out: pldmd passes addresses of its own     *)
(* objects.  Byte order is the one of the message (the daemons run on      *)
(* little endian processors, where htole and letoh change nothing).        *)
(***************************************************************************)
EXTENDS Integers, Sequences, SequencesExt

\* pldm_completion_codes, and the code firmware_update.h adds for a response
\* that was decoded and says the device has refused
PLDM_SUCCESS                         == 0
PLDM_ERROR                           == 1
PLDM_ERROR_INVALID_DATA              == 2
PLDM_ERROR_INVALID_LENGTH            == 3
PLDM_ERROR_INVALID_PLDM_TYPE         == 32
PLDM_INVALID_TRANSFER_OPERATION_FLAG == 33
DATA_OUT_OF_RANGE                    == 130
INVALID_TRANSFER_LENGTH              == 131
DECODE_SUCCESS                       == 242

PLDM_INSTANCE_MAX == 32
PLDM_MAX_TYPES    == 64

\* The header has five bits for the instance id.
InstanceBits == 5

\* Broken variant: the instance id is cut to the bits there are.
PackedUnchecked(instance, type) ==
  IF type > PLDM_MAX_TYPES - 1 THEN PLDM_ERROR_INVALID_PLDM_TYPE ELSE PLDM_SUCCESS

pack_pldm_header(instance, type) ==
  IF instance > PLDM_INSTANCE_MAX THEN PLDM_ERROR_INVALID_DATA
  ELSE IF type > PLDM_MAX_TYPES - 1 THEN PLDM_ERROR_INVALID_PLDM_TYPE
  ELSE PLDM_SUCCESS

\* What the receiver reads out of a header packed with this instance id.
unpack_pldm_header(instance) == instance % 2 ^ InstanceBits

-----------------------------------------------------------------------------
(***************************************************************************)
(* A size is a number of bytes plus, for each field in `plus', a number    *)
(* that depends on the value of that field.                                *)
(***************************************************************************)
Bytes(n) == [n |-> n, plus |-> <<>>]

Per(f, by) == [n |-> 0, plus |-> <<[f |-> f, by |-> by]>>]

Plus(s, t) == [n |-> s.n + t.n, plus |-> s.plus \o t.plus]

\* The largest value a one byte field can have.
Byte == 0 .. 255

\* f elements of n bytes
Times(n, f) == Per(f, [v \in Byte |-> n * v])

FieldsOf(s) == {s.plus[i].f : i \in DOMAIN s.plus}

Amounts(s, values) == [i \in DOMAIN s.plus |-> s.plus[i].by[values[s.plus[i].f]]]

Total(q) == FoldSeq(+, 0, q)

SizeOf(s, values) == s.n + Total(Amounts(s, values))

-----------------------------------------------------------------------------
(***************************************************************************)
(* The steps.                                                              *)
(***************************************************************************)

\* pack_pldm_header, its result returned when it is not PLDM_SUCCESS
Header == [op |-> "header", type |-> FALSE, strict |-> TRUE]

\* pack_pldm_header for a PLDM type that is an argument
HeaderOfType == [op |-> "header", type |-> TRUE, strict |-> TRUE]

\* pack_pldm_header, its result ignored
HeaderUnchecked == [op |-> "header", type |-> FALSE, strict |-> FALSE]

\* The completion code: a function that finds or is given another one than
\* PLDM_SUCCESS ends there, with this result.
CompletionOr(result) == [op |-> "completion", rc |-> result]
Completion == CompletionOr(PLDM_SUCCESS)

\* f is related to a size, else the function returns this result.
Need(f, rel, s, result) == [op |-> "need", f |-> f, rel |-> rel, size |-> s, rc |-> result]

\* f is one of S, else the function returns this result.
OneOfOr(f, S, result) == [op |-> "oneOf", f |-> f, set |-> S, rc |-> result]
OneOf(f, S) == OneOfOr(f, S, PLDM_ERROR_INVALID_DATA)

\* n bytes at offset at are read into, or written from, f.
Field(f, at, n) == [op |-> "field", f |-> f, at |-> at, size |-> n]

\* The rest of the payload from offset at is f.
Rest(f, at) == [op |-> "rest", f |-> f, at |-> at]

-----------------------------------------------------------------------------
LengthIs(s)      == Need("payload_length", "=", s, PLDM_ERROR_INVALID_LENGTH)
LengthAtLeast(s) == Need("payload_length", ">=", s, PLDM_ERROR_INVALID_LENGTH)
LengthAtMost(s)  == Need("payload_length", "<=", s, PLDM_ERROR_INVALID_LENGTH)

\* Where a packed struct ends that begins at offset at: fields are pairs of a
\* name and a size.
EndOf(at, fields) == FoldSeq(LAMBDA f, s : Plus(f[2], s), at, fields)

\* The steps that write or read all of the struct
LayoutAt(at, fields) ==
  [i \in DOMAIN fields |-> Field(fields[i][1], EndOf(at, SubSeq(fields, 1, i - 1)), fields[i][2])]

Layout(fields) == LayoutAt(Bytes(0), fields)

\* The struct without its completion code.
Body(fields) == Tail(Layout(fields))

\* sizeof a struct
SizeOfStruct(fields) == EndOf(Bytes(0), fields)

-----------------------------------------------------------------------------
\* enum transfer_resp_flag and check_transfer_flag_valid
PLDM_START         == 1
PLDM_MIDDLE        == 2
PLDM_END           == 4
PLDM_START_AND_END == 5

check_transfer_flag_valid == {PLDM_START, PLDM_MIDDLE, PLDM_END, PLDM_START_AND_END}

\* PLDM_GET_NEXTPART and PLDM_GET_FIRSTPART
check_transfer_operation_flag_valid == {0, 1}

\* The width of a number whose data size or range format code is the index.
WidthOf(code) == CASE code \in {0, 1} -> 1 [] code \in {2, 3} -> 2 [] OTHER -> 4

\* pldm_effecter_data_size and pldm_sensor_readings_data_type
DataSizes == 0 .. 5

\* A value of the width that field f says
Wide(f) == Per(f, [v \in Byte |-> IF v \in DataSizes THEN WidthOf(v) ELSE 0])
=============================================================================
