---------------------------- MODULE RequestWindow ----------------------------
(***************************************************************************)
(* What mctpd promises a client of SendReceiveMctpMessagePayload, without  *)
(* tags, tables, timers or posted handlers: the requests to one endpoint   *)
(* go out in the order they were made, at most Window of them are          *)
(* outstanding at a time, and every call ends once, with a response that   *)
(* came while it was outstanding or with a timeout.  TransmissionQueue     *)
(* implements this specification (TransmissionQueueRefinement).            *)
(***************************************************************************)
EXTENDS Integers, FiniteSets

CONSTANTS Eids, Calls, Window, None

VARIABLES
    phase,   \* how far a call is
    dest,    \* its endpoint
    order,   \* its place among the calls to that endpoint
    made     \* number of calls made to an endpoint

vars == <<phase, dest, order, made>>

Phases == {"idle", "queued", "out", "failed", "answered",
           "returned", "timed_out"}

Init ==
    /\ phase = [c \in Calls |-> "idle"]
    /\ dest = [c \in Calls |-> None]
    /\ order = [c \in Calls |-> 0]
    /\ made = [e \in Eids |-> 0]

(***************************************************************************)
(* The oldest requests of line leave it: the members of out are sent, the  *)
(* members of failed could not be sent.                                    *)
(***************************************************************************)
Dispatch(e, line) ==
    \E out \in SUBSET line : \E failed \in SUBSET (line \ out) :
        /\ phase' = [c \in Calls |->
                        IF c \in out THEN "out"
                        ELSE IF c \in failed THEN "failed"
                        ELSE IF c \in line THEN "queued"
                        ELSE phase[c]]
        /\ \A c \in out \cup failed, d \in line \ (out \cup failed) :
              order'[c] < order'[d]
        /\ Cardinality({c \in Calls : dest'[c] = e /\ phase'[c] = "out"})
              <= Window

Line(e) == {c \in Calls : dest[c] = e /\ phase[c] = "queued"}

Make(c, e) ==
    /\ phase[c] = "idle"
    /\ dest' = [dest EXCEPT ![c] = e]
    /\ order' = [order EXCEPT ![c] = made[e]]
    /\ made' = [made EXCEPT ![e] = @ + 1]
    /\ Dispatch(e, Line(e) \cup {c})

Send(e) ==
    /\ Dispatch(e, Line(e))
    /\ UNCHANGED <<dest, order, made>>

Answer(c) ==
    /\ phase[c] = "out"
    /\ phase' = [phase EXCEPT ![c] = "answered"]
    /\ UNCHANGED <<dest, order, made>>

Return(c) ==
    /\ phase[c] = "answered"
    /\ phase' = [phase EXCEPT ![c] = "returned"]
    /\ UNCHANGED <<dest, order, made>>

TimeOut(c) ==
    /\ phase[c] \in {"queued", "out", "failed"}
    /\ phase' = [phase EXCEPT ![c] = "timed_out"]
    /\ UNCHANGED <<dest, order, made>>

Next ==
    \/ \E c \in Calls, e \in Eids : Make(c, e)
    \/ \E e \in Eids : Send(e)
    \/ \E c \in Calls : Answer(c) \/ Return(c) \/ TimeOut(c)

Spec == Init /\ [][Next]_vars
=============================================================================
