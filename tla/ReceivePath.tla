----------------------------- MODULE ReceivePath -----------------------------
(***************************************************************************)
(* The control queue and the transmission queue of one mctpd together.     *)
(* Control requests are always sent with tag 0 (pushToCtrlTxQueue), the    *)
(* same tag that the transmission queue gives out first.  rxMessage offers *)
(* a control response to handleCtrlResp; if no control request matches, it *)
(* goes on to MctpTransmissionQueue::receive like any other response.      *)
(***************************************************************************)
EXTENDS TransmissionQueue, CtrlTxQueue

ASSUME ReceivePathAssumption ==
    /\ 0 \in Tags
    /\ Reqs \cap Calls = {}
    /\ None \notin Reqs

VARIABLE ctrlDest         \* the endpoint a control request goes to

CtrlTag == 0

allVars == <<vars, ctrlVars, ctrlDest>>

RxInit ==
    /\ Init
    /\ CtrlInit
    /\ ctrlDest = [r \in Reqs |-> None]

\* Upper layer calls, their responses and their timers.
UpperLayerStep == Next /\ UNCHANGED <<ctrlVars, ctrlDest>>

SendControl(r, e) ==
    /\ \E reaches \in BOOLEAN : Push(r, reaches)
    /\ ctrlDest' = [ctrlDest EXCEPT ![r] = e]
    /\ UNCHANGED vars

ControlStep ==
    /\ \/ \E reach \in SUBSET Resent : Poll(reach)
       \/ \E r, q \in Reqs : HandleCtrlResp(r, q)
       \/ \E r \in Reqs : Return(r)
    /\ UNCHANGED <<vars, ctrlDest>>

(***************************************************************************)
(* rxMessage for a control response that handleCtrlResp did not take.      *)
(***************************************************************************)
ControlFallsThrough(r) ==
    /\ CtrlRespUnmatched(r)
    /\ \/ /\ Deliver(ctrlDest[r], CtrlTag, r)
          /\ UNCHANGED peer
       \/ /\ transmittedMessages[ctrlDest[r]][CtrlTag] = None
          /\ UNCHANGED vars
    /\ UNCHANGED ctrlDest

RxNext ==
    \/ UpperLayerStep
    \/ \E r \in Reqs, e \in Eids : SendControl(r, e)
    \/ ControlStep
    \/ \E r \in Reqs : ControlFallsThrough(r)

RxSpec == RxInit /\ [][RxNext]_allVars

\* The timers and coroutines of the upper layer calls run.
RxFairSpec == RxSpec /\ Fairness
-----------------------------------------------------------------------------
(***************************************************************************)
(* Only a surplus control response can be taken for the response of an     *)
(* upper layer call: one to a request that was sent more than once and     *)
(* whose coroutine is no longer waiting.  (With no more requests than      *)
(* instance IDs, and at least one retry.)                                  *)
(***************************************************************************)
OnlySurplusFallsThrough ==
    \A c \in Calls, r \in Reqs : message[c].response = r =>
        tries[r] > 1 /\ pktState[r] # "pushedForTransmission"
=============================================================================
