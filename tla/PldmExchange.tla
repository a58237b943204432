---------------------------- MODULE PldmExchange ----------------------------
(***************************************************************************)
(* One PLDM message on its way from the function of libpldm_intel that     *)
(* encodes it to the one that decodes it, one step of either at a time.    *)
(*                                                                         *)
(* The payload is a sequence of cells: cell <<f, i>> is the i-th byte of   *)
(* field f.  Values are kept for the fields checks and sizes depend on.    *)
(* The message may come shorter or longer than it was encoded (another     *)
(* version of the device's firmware), and bytes may come that no function  *)
(* here encoded.                                                           *)
(***************************************************************************)
EXTENDS PldmMessage, FiniteSets

CONSTANTS Code,          \* name of a function -> its steps
          Conversations, \* [encode |-> name, decode |-> name]
          Values,        \* field -> the values to try
          Instances,     \* the instance ids to try
          LaxDecoders,   \* the decoders that take more than they have looked for
          MaxLength      \* a bound on the length of a payload

\* The message of nobody, or for nobody here
None == "none"

\* The fields that have a value
Fields == DOMAIN Values

Encoders == {c.encode : c \in Conversations} \ {None}
Decoders == {c.decode : c \in Conversations} \ {None}

ASSUME CodeAssumption ==
  /\ Encoders \cup Decoders \subseteq DOMAIN Code
  /\ \A d \in DOMAIN Code : DOMAIN Code[d] = 1 .. Len(Code[d])
  /\ MaxLength \in Nat
  /\ {"payload_length", "completion_code"} \subseteq Fields
  /\ Values["payload_length"] = 0 .. MaxLength

VARIABLES
  conversation, \* the functions that talk
  side,         \* where the message is
  running,      \* the function that runs or has run last
  pc,           \* its next step
  val,          \* the values of its arguments, and of the fields it has taken
  known,        \* the fields that have such a value
  wire,         \* the payload
  sent,         \* the encoder's values
  header,       \* the instance id given to the encoder and the one in the header
  touched,      \* the payload is not the one that was encoded
  rc,           \* what the function has returned
  garbled,      \* the fields taken from bytes that are not those of the field
  beyond        \* the fields taken from beyond the end of the payload

vars == <<conversation, side, running, pc, val, known, wire, sent, header, touched, rc, garbled,
          beyond>>

Sides == {"idle", "encode", "encoded", "decode", "returned"}

Unset == <<"unset", 0>>
Raw   == <<"raw", 0>>

NoValues == [f \in Fields |-> 0]
NoHeader == [given |-> 0, packed |-> 0]

Init ==
  /\ conversation = [encode |-> None, decode |-> None]
  /\ side = "idle"
  /\ running = None
  /\ pc = 1
  /\ val = NoValues
  /\ known = {}
  /\ wire = <<>>
  /\ sent = NoValues
  /\ header = NoHeader
  /\ touched = FALSE
  /\ rc = PLDM_SUCCESS
  /\ garbled = {}
  /\ beyond = {}

Active == side \in {"encode", "decode"}

\* The functions somebody calls
Function == [f \in Encoders \cup Decoders |-> <<>> \o Code[f]]

Argument == [f \in Fields |-> Values[f]]

Step == Function[running][pc]

AtStep(op) == Active /\ pc <= Len(Function[running]) /\ Step.op = op

\* The fields whose values step s needs, of those that have one
FieldsNeeded(s) ==
  Fields \cap
  CASE s.op = "need"       -> {s.f} \cup FieldsOf(s.size)
    [] s.op = "oneOf"      -> {s.f}
    [] s.op = "field"      -> FieldsOf(s.at) \cup FieldsOf(s.size)
                              \cup (IF side = "encode" THEN {s.f} ELSE {})
    [] s.op = "rest"       -> FieldsOf(s.at)
    [] s.op = "completion" -> IF side = "encode" THEN {"completion_code"} ELSE {}
    [] OTHER               -> {}

Unknown == FieldsNeeded(Step) \ known

\* The caller's argument is looked at for the first time.
Argue ==
  /\ Active /\ pc <= Len(Function[running]) /\ Unknown # {}
  /\ LET f == CHOOSE f \in Unknown : TRUE
     IN  /\ \E v \in Argument[f] : val' = [val EXCEPT ![f] = v]
         /\ known' = known \cup {f}
  /\ UNCHANGED <<conversation, side, running, pc, wire, sent, header, touched, rc, garbled, beyond>>

\* The function goes on, or returns r.
Proceed ==
  pc' = pc + 1 /\ UNCHANGED <<side, rc>>

Return(r) ==
  /\ rc' = r
  /\ side' = IF side = "encode" /\ r = PLDM_SUCCESS THEN "encoded" ELSE "returned"
  /\ UNCHANGED pc

Ready(op) == AtStep(op) /\ Unknown = {}

(***************************************************************************)
(* The checks.                                                             *)
(***************************************************************************)
Holds(s) ==
  CASE s.rel = "="  -> val[s.f] = SizeOf(s.size, val)
    [] s.rel = ">=" -> val[s.f] >= SizeOf(s.size, val)
    [] s.rel = "<=" -> val[s.f] <= SizeOf(s.size, val)

Check ==
  /\ \/ Ready("need")  /\ IF Holds(Step) THEN Proceed ELSE Return(Step.rc)
     \/ Ready("oneOf") /\ IF val[Step.f] \in Step.set THEN Proceed ELSE Return(Step.rc)
  /\ UNCHANGED <<conversation, running, val, known, wire, sent, header, touched, garbled, beyond>>

PackHeader ==
  /\ Ready("header")
  /\ \E instance \in Instances,
        type \in IF Step.type THEN {0, PLDM_MAX_TYPES - 1, PLDM_MAX_TYPES} ELSE {0} :
       LET result == pack_pldm_header(instance, type)
       IN  /\ header' = [given  |-> instance,
                         packed |-> IF result = PLDM_SUCCESS
                                    THEN unpack_pldm_header(instance) ELSE 0]
           /\ IF result = PLDM_SUCCESS \/ ~Step.strict THEN Proceed ELSE Return(result)
  /\ UNCHANGED <<conversation, running, val, known, wire, sent, touched, garbled, beyond>>

(***************************************************************************)
(* Writes.                                                                 *)
(***************************************************************************)
Longer(m, n) == IF m >= n THEN m ELSE n

Written(f, at, n) ==
  [i \in 1 .. Longer(Len(wire), IF n = 0 THEN 0 ELSE at + n) |->
     IF i > at /\ i <= at + n THEN <<f, i - at>>
     ELSE IF i <= Len(wire) THEN wire[i] ELSE Unset]

Put ==
  /\ side = "encode" /\ Ready("field")
  /\ wire' = Written(Step.f, SizeOf(Step.at, val), SizeOf(Step.size, val))
  /\ Proceed
  /\ UNCHANGED <<conversation, running, val, known, sent, header, touched, garbled, beyond>>

PutCompletion ==
  /\ side = "encode" /\ Ready("completion")
  /\ wire' = Written("completion_code", 0, 1)
  /\ IF val["completion_code"] = PLDM_SUCCESS THEN Proceed ELSE Return(Step.rc)
  /\ UNCHANGED <<conversation, running, val, known, sent, header, touched, garbled, beyond>>

(***************************************************************************)
(* Reads.                                                                  *)
(***************************************************************************)
CellsOf(f) == {i \in DOMAIN wire : wire[i][1] = f}

\* The n bytes at offset at are field f, the whole of it.
IsField(f, at, n) ==
  /\ CellsOf(f) = at + 1 .. at + n
  /\ \A i \in CellsOf(f) : wire[i] = <<f, i - at>>

\* The decoder takes n bytes at offset at for field f.
TakeBytes(f, at, n) ==
  /\ beyond' = IF at + n > Len(wire) THEN beyond \cup {f} ELSE beyond
  /\ garbled' = IF n = 0 \/ IsField(f, at, n) THEN garbled ELSE garbled \cup {f}
  /\ IF f \in Fields
     THEN /\ \E v \in IF n # 0 /\ IsField(f, at, n) THEN {sent[f]} ELSE Argument[f] :
               val' = [val EXCEPT ![f] = v]
          /\ known' = known \cup {f}
     ELSE UNCHANGED <<val, known>>

Take ==
  /\ side = "decode" /\ Ready("field")
  /\ TakeBytes(Step.f, SizeOf(Step.at, val), SizeOf(Step.size, val))
  /\ Proceed
  /\ UNCHANGED <<conversation, running, wire, sent, header, touched>>

\* The length of the rest is what is left of payload_length.
TakeRest ==
  /\ side = "decode" /\ Ready("rest")
  /\ LET at == SizeOf(Step.at, val)
         f  == Step.f
     IN  /\ beyond' = IF at > Len(wire) THEN beyond \cup {f} ELSE beyond
         /\ garbled' = IF at >= Len(wire) \/ IsField(f, at, Len(wire) - at)
                       THEN garbled ELSE garbled \cup {f}
  /\ Proceed
  /\ UNCHANGED <<conversation, running, val, known, wire, sent, header, touched>>

TakeCompletion ==
  /\ side = "decode" /\ Ready("completion")
  /\ TakeBytes("completion_code", 0, 1)
  /\ IF val'["completion_code"] = PLDM_SUCCESS THEN Proceed ELSE Return(Step.rc)
  /\ UNCHANGED <<conversation, running, wire, sent, header, touched>>

(***************************************************************************)
(* The caller, and the way between the two functions.                      *)
(***************************************************************************)
Finish ==
  /\ Active /\ pc > Len(Function[running])
  /\ Return(PLDM_SUCCESS)
  /\ UNCHANGED <<conversation, running, val, known, wire, sent, header, touched, garbled, beyond>>

Encode(c) ==
  /\ side = "idle" /\ c.encode # None
  /\ conversation' = c
  /\ side' = "encode"
  /\ running' = c.encode
  /\ UNCHANGED <<pc, val, known, wire, sent, header, touched, rc, garbled, beyond>>

\* The decoder is called with payload w.
CallDecoder(d, w) ==
  /\ side' = "decode"
  /\ running' = d
  /\ pc' = 1
  /\ wire' = w
  /\ val' = [NoValues EXCEPT !["payload_length"] = Len(w)]
  /\ known' = {"payload_length"}

\* Bytes nobody here has encoded
ReceiveRaw(c) ==
  /\ side = "idle" /\ c.encode = None
  /\ \E n \in 0 .. MaxLength : CallDecoder(c.decode, [i \in 1 .. n |-> Raw])
  /\ conversation' = c
  /\ touched' = TRUE
  /\ UNCHANGED <<sent, header, rc, garbled, beyond>>

Deliver(w) ==
  /\ side = "encoded" /\ conversation.decode # None
  /\ CallDecoder(conversation.decode, w)
  /\ sent' = val
  /\ touched' = (w # wire)
  /\ UNCHANGED <<conversation, header, rc, garbled, beyond>>

DeliverWhole == Deliver(wire)

DeliverShort == \E n \in 0 .. Len(wire) - 1 : Deliver(SubSeq(wire, 1, n))

DeliverLong == Len(wire) < MaxLength /\ Deliver(Append(wire, Raw))

\* The next message.
HangUp ==
  /\ side = "returned" \/ (side = "encoded" /\ conversation.decode = None)
  /\ conversation' = [encode |-> None, decode |-> None]
  /\ side' = "idle"
  /\ running' = None
  /\ pc' = 1
  /\ val' = NoValues
  /\ known' = {}
  /\ wire' = <<>>
  /\ sent' = NoValues
  /\ header' = NoHeader
  /\ touched' = FALSE
  /\ rc' = PLDM_SUCCESS
  /\ garbled' = {}
  /\ beyond' = {}

Next ==
  \/ \E c \in Conversations : Encode(c) \/ ReceiveRaw(c)
  \/ Argue
  \/ Check
  \/ PackHeader
  \/ Put
  \/ PutCompletion
  \/ Take
  \/ TakeRest
  \/ TakeCompletion
  \/ Finish
  \/ DeliverWhole
  \/ DeliverShort
  \/ DeliverLong
  \/ HangUp

Spec == Init /\ [][Next]_vars

-----------------------------------------------------------------------------
\* A decoder that looks at the completion code first takes it from an empty
\* payload too (pldmd compares the length with the smallest message before it
\* takes off the message type, so that an empty payload does get here).
Contained == beyond \subseteq IF Len(wire) = 0 THEN {"completion_code"} ELSE {}

(***************************************************************************)
(* Whatever comes, of whatever length, a decoder takes no field from       *)
(* beyond the payload: the checks it has made before, of the length        *)
(* against sizes that depend on fields taken or given by then, are enough  *)
(* for every field it takes, in each order the length and the fields can   *)
(* come.                                                                   *)
(***************************************************************************)
WithinPayload == running \in LaxDecoders \/ Contained

\* A decoder has found no fault with a response that says PLDM_SUCCESS, or
\* with a request.
Accepted ==
  /\ side = "returned" /\ running \in Decoders
  /\ rc = PLDM_SUCCESS
  /\ val["completion_code"] = PLDM_SUCCESS

\* What the functions' callers limit: room for elements, for a record, for
\* a number.
Limits == {"capacity", "record_data_length", "data_size_limit"}

\* A whole message has been refused for its length, and not for want of room.
RefusedForLength ==
  /\ side = "returned" /\ running \in Decoders
  /\ conversation.encode # None /\ ~touched
  /\ rc = PLDM_ERROR_INVALID_LENGTH
  /\ ~(Step.op = "need" /\ ({Step.f} \cup FieldsOf(Step.size)) \cap Limits # {})

\* An encoder that was told how long the payload is has written more.
Overflows ==
  /\ side = "encoded" /\ "payload_length" \in known
  /\ Len(wire) > val["payload_length"]

\* The header names another instance than the encoder was given.
Renamed == side = "encoded" /\ header.packed # header.given
=============================================================================
