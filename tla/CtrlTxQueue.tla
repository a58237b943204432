----------------------------- MODULE CtrlTxQueue -----------------------------
(***************************************************************************)
(* The control message queue of mctpd (MCTPBinding.cpp): a coroutine that  *)
(* needs an MCTP control command answered calls sendAndRcvMctpCtrl, which  *)
(* puts the request into ctrlTxQueue and waits; one poll timer serves the  *)
(* whole queue, resends requests and gives them up; handleCtrlResp matches *)
(* responses to requests by their instance ID alone.                       *)
(*                                                                         *)
(* A member of Reqs is one call of sendAndRcvMctpCtrl.  The response an    *)
(* endpoint makes to request r is r.  An endpoint answers each copy of a   *)
(* request that reaches it at most once; any copy or answer may be lost.   *)
(***************************************************************************)
EXTENDS Integers

CONSTANTS
    Reqs,
    InstanceIds,     \* number of instance IDs; 32 in the code
    RetryCount,      \* ctrlTxRetryCount
    RetryDelay,      \* ctrlTxRetryDelay, in ms
    PollInterval,    \* ctrlTxPollInterval, in ms
    Word,            \* unsigned int is arithmetic modulo Word; 2^32
    NoResp           \* the empty response of a coroutine

ASSUME CtrlAssumption ==
    /\ InstanceIds \in Nat \ {0}
    /\ RetryCount \in Nat
    /\ RetryDelay \in Nat
    /\ PollInterval \in Nat \ {0}
    /\ Word \in Nat \ {0}
    /\ NoResp \notin Reqs

VARIABLES
    instanceId,          \* the static counter of createInstanceId
    ctrlTxQueue,         \* the requests in the queue
    entry,               \* what the queue keeps for a request
    ctrlTxTimerExpired,  \* FALSE while the poll timer is armed
    pktState,            \* pktState of the coroutine
    resp,                \* the response the coroutine was given
    atEndpoint,          \* copies of a request its endpoint has to answer
    tries,               \* times a request was handed to mctp_message_tx
    polls,               \* polls a request has been through
    made                 \* number of requests made

ctrlVars == <<instanceId, ctrlTxQueue, entry, ctrlTxTimerExpired, pktState,
              resp, atEndpoint, tries, polls, made>>

Entry == [iid : 0 .. InstanceIds - 1, retryCount : 0 .. RetryCount,
          maxRespDelay : 0 .. Word - 1, place : Nat]

NoEntry == [iid |-> 0, retryCount |-> 0, maxRespDelay |-> 0, place |-> 0]

PacketStates == {"none", "pushedForTransmission", "receivedResponse",
                 "noResponse", "returned"}

CtrlTypeOK ==
    /\ instanceId \in 0 .. InstanceIds - 1
    /\ ctrlTxQueue \in SUBSET Reqs
    /\ entry \in [Reqs -> Entry]
    /\ ctrlTxTimerExpired \in BOOLEAN
    /\ pktState \in [Reqs -> PacketStates]
    /\ resp \in [Reqs -> Reqs \cup {NoResp}]
    /\ atEndpoint \in [Reqs -> Nat]
    /\ tries \in [Reqs -> Nat]
    /\ polls \in [Reqs -> Nat]
    /\ made \in Nat

CtrlInit ==
    /\ instanceId = 0
    /\ ctrlTxQueue = {}
    /\ entry = [r \in Reqs |-> NoEntry]
    /\ ctrlTxTimerExpired = TRUE
    /\ pktState = [r \in Reqs |-> "none"]
    /\ resp = [r \in Reqs |-> NoResp]
    /\ atEndpoint = [r \in Reqs |-> 0]
    /\ tries = [r \in Reqs |-> 0]
    /\ polls = [r \in Reqs |-> 0]
    /\ made = 0

\* createInstanceId
NextInstanceId == (instanceId + 1) % InstanceIds

(***************************************************************************)
(* sendAndRcvMctpCtrl up to its wait: pushToCtrlTxQueue appends the entry, *)
(* sends the request at once and starts the poll timer if it is not        *)
(* running.  reaches says whether this copy gets to the endpoint; a failed *)
(* mctp_message_tx is not told apart from a lost packet.                   *)
(***************************************************************************)
Push(r, reaches) ==
    /\ pktState[r] = "none"
    /\ instanceId' = NextInstanceId
    /\ ctrlTxQueue' = ctrlTxQueue \cup {r}
    /\ entry' = [entry EXCEPT ![r] =
                    [iid |-> NextInstanceId,
                     retryCount |-> RetryCount,
                     maxRespDelay |-> ((RetryCount + 1) * RetryDelay) % Word,
                     place |-> made]]
    /\ ctrlTxTimerExpired' = FALSE
    /\ pktState' = [pktState EXCEPT ![r] = "pushedForTransmission"]
    /\ atEndpoint' = [atEndpoint EXCEPT ![r] = IF reaches THEN 1 ELSE 0]
    /\ tries' = [tries EXCEPT ![r] = 1]
    /\ made' = made + 1
    /\ UNCHANGED <<resp, polls>>

\* Broken variant: counts polls instead of time.
LeftInPolls(r) == (entry[r].maxRespDelay - 1) % Word

(***************************************************************************)
(* The handler of the poll timer (processCtrlTxQueue).  The time left of   *)
(* every entry drops by the interval, as an unsigned number.  An entry     *)
(* with no time left is removed and its callback called with noResponse;   *)
(* one whose next retry is due is sent again.  The timer is started again  *)
(* unless the queue is empty.                                              *)
(***************************************************************************)
Left(r) == (entry[r].maxRespDelay - PollInterval) % Word

GivenUp == {r \in ctrlTxQueue : Left(r) = 0}

Resent == {r \in ctrlTxQueue \ GivenUp :
             /\ entry[r].retryCount > 0
             /\ Left(r) <= entry[r].retryCount * RetryDelay}

Poll(reach) ==
    /\ ~ ctrlTxTimerExpired
    /\ reach \subseteq Resent
    /\ entry' = [r \in Reqs |->
                    IF r \in ctrlTxQueue
                    THEN [entry[r] EXCEPT
                            !.maxRespDelay = Left(r),
                            !.retryCount = IF r \in Resent THEN @ - 1 ELSE @]
                    ELSE entry[r]]
    /\ ctrlTxQueue' = ctrlTxQueue \ GivenUp
    /\ ctrlTxTimerExpired' = (ctrlTxQueue' = {})
    /\ pktState' = [r \in Reqs |->
                       IF r \in GivenUp THEN "noResponse" ELSE pktState[r]]
    /\ atEndpoint' = [r \in Reqs |->
                        IF r \in reach THEN atEndpoint[r] + 1 ELSE atEndpoint[r]]
    /\ tries' = [r \in Reqs |->
                   IF r \in Resent THEN tries[r] + 1 ELSE tries[r]]
    /\ polls' = [r \in Reqs |->
                   IF r \in ctrlTxQueue THEN polls[r] + 1 ELSE polls[r]]
    /\ UNCHANGED <<instanceId, resp, made>>

\* Broken variant: the oldest request gets any response.
MatchingAny(r) == ctrlTxQueue

(***************************************************************************)
(* handleCtrlResp, for the response to request r: the first entry with the *)
(* same instance ID gets it, is called back and removed.                   *)
(***************************************************************************)
Matching(r) == {q \in ctrlTxQueue : entry[q].iid = entry[r].iid}

HandleCtrlResp(r, q) ==
    /\ atEndpoint[r] > 0
    /\ q \in Matching(r)
    /\ \A p \in Matching(r) : entry[q].place <= entry[p].place
    /\ atEndpoint' = [atEndpoint EXCEPT ![r] = @ - 1]
    /\ ctrlTxQueue' = ctrlTxQueue \ {q}
    /\ pktState' = [pktState EXCEPT ![q] = "receivedResponse"]
    /\ resp' = [resp EXCEPT ![q] = r]
    /\ UNCHANGED <<instanceId, entry, ctrlTxTimerExpired, tries, polls, made>>

\* Broken variant: does not look whether a request matches.
CtrlRespNotMatched(r) ==
    /\ atEndpoint[r] > 0
    /\ atEndpoint' = [atEndpoint EXCEPT ![r] = @ - 1]
    /\ UNCHANGED <<instanceId, ctrlTxQueue, entry, ctrlTxTimerExpired,
                   pktState, resp, tries, polls, made>>

\* handleCtrlResp finds no entry and returns false.
CtrlRespUnmatched(r) ==
    /\ atEndpoint[r] > 0
    /\ Matching(r) = {}
    /\ atEndpoint' = [atEndpoint EXCEPT ![r] = @ - 1]
    /\ UNCHANGED <<instanceId, ctrlTxQueue, entry, ctrlTxTimerExpired,
                   pktState, resp, tries, polls, made>>

\* Broken variant: waits for a response only.
ReturnIfAnswered(r) ==
    /\ pktState[r] = "receivedResponse"
    /\ pktState' = [pktState EXCEPT ![r] = "returned"]
    /\ UNCHANGED <<instanceId, ctrlTxQueue, entry, ctrlTxTimerExpired, resp,
                   atEndpoint, tries, polls, made>>

\* The wait loop of sendAndRcvMctpCtrl sees that pktState has changed.
Return(r) ==
    /\ pktState[r] \in {"receivedResponse", "noResponse"}
    /\ pktState' = [pktState EXCEPT ![r] = "returned"]
    /\ UNCHANGED <<instanceId, ctrlTxQueue, entry, ctrlTxTimerExpired, resp,
                   atEndpoint, tries, polls, made>>

CtrlNext ==
    \/ \E r \in Reqs, reaches \in BOOLEAN : Push(r, reaches)
    \/ \E reach \in SUBSET Resent : Poll(reach)
    \/ \E r, q \in Reqs : HandleCtrlResp(r, q)
    \/ \E r \in Reqs : CtrlRespUnmatched(r) \/ Return(r)

(***************************************************************************)
(* Timers expire and the io_context runs what is ready; endpoints need not *)
(* answer.                                                                 *)
(***************************************************************************)
CtrlFairness ==
    /\ WF_ctrlVars(\E reach \in SUBSET Resent : Poll(reach))
    /\ \A r \in Reqs : WF_ctrlVars(Return(r))

CtrlSpec == CtrlInit /\ [][CtrlNext]_ctrlVars

FairCtrlSpec == CtrlSpec /\ CtrlFairness
-----------------------------------------------------------------------------
(***************************************************************************)
(* "Total no of tries = 1 + ctrlTxRetryCount" (MCTPBinding.cpp:728): never *)
(* more, and a request is given up only after all of them.  "Discard the   *)
(* packet if retry count exceeded" (MCTPBinding.cpp:715): it stays in the  *)
(* queue no longer than its tries and the wait after each of them take.    *)
(***************************************************************************)
AllTriesInTime ==
    \A r \in Reqs :
        /\ tries[r] <= 1 + RetryCount
        /\ pktState[r] = "noResponse" => tries[r] = 1 + RetryCount
        /\ r \in ctrlTxQueue =>
              polls[r] * PollInterval <= (RetryCount + 1) * RetryDelay

(***************************************************************************)
(* A coroutine gets the response to its own request, or that of a request  *)
(* made a whole round of instance IDs before or after it.                  *)
(***************************************************************************)
OnlyAliasesStray ==
    \A r, q \in Reqs : resp[r] = q =>
        (entry[r].place - entry[q].place) % InstanceIds = 0

(***************************************************************************)
(* Every coroutine that waits for a control response goes on.              *)
(***************************************************************************)
WaitEnds ==
    \A r \in Reqs :
        pktState[r] = "pushedForTransmission" ~> pktState[r] = "returned"
=============================================================================
