--------------------- MODULE TransmissionQueueRefinement ---------------------
(***************************************************************************)
(* The refinement mapping from TransmissionQueue to RequestWindow: the     *)
(* window is the number of tags, and the phase of a call follows from      *)
(* where its message is.                                                   *)
(***************************************************************************)
EXTENDS TransmissionQueue, FiniteSets

ASSUME FiniteTags == IsFiniteSet(Tags)

Phase ==
    [c \in Calls |->
        CASE result[c] # "waiting"              -> result[c]
          [] OTHER ->
             CASE message[c].response # None    -> "answered"
               [] message[c].response = None /\ message[c].tag # None
                                                -> "out"
               [] message[c].response = None /\ message[c].tag = None
                  /\ \E e \in Eids : c \in queuedMessages[e]
                                                -> "queued"
               [] OTHER                         -> "failed"]

Abstract == INSTANCE RequestWindow WITH
    Window <- Cardinality(Tags),
    phase  <- Phase,
    dest   <- [c \in Calls |-> message[c].dest],
    order  <- [c \in Calls |-> message[c].index],
    made   <- msgCounter

(***************************************************************************)
(* The queue gives its clients what RequestWindow promises: order, a       *)
(* bounded number of outstanding requests per endpoint, and one outcome    *)
(* per call that agrees with what happened to its message.                 *)
(***************************************************************************)
RefinesWindow == Abstract!Spec
=============================================================================
