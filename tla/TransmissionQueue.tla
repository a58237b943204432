-------------------------- MODULE TransmissionQueue --------------------------
(***************************************************************************)
(* The upper layer transmission queue of mctpd: MctpTransmissionQueue      *)
(* (utils/transmission_queue.cpp), the D-Bus method                        *)
(* SendReceiveMctpMessagePayload that uses it and the part of rxMessage    *)
(* that feeds it (MCTPBinding.cpp).                                        *)
(*                                                                         *)
(* mctpd runs one io_context thread, so every step below is one handler    *)
(* and the steps interleave between handlers.  A call to the D-Bus method  *)
(* is a coroutine: it puts its message into the queue, waits on the timer  *)
(* of the message, and is resumed once the timer has expired or has been   *)
(* cancelled.  A member of Calls is one call and the message made for it.  *)
(*                                                                         *)
(* Payloads are abstracted to the call they belong to: the request of call *)
(* c is c, and the response an endpoint makes to that request is c too.    *)
(***************************************************************************)
EXTENDS Integers, Functions

CONSTANTS
    Eids,      \* destination endpoints that have binding private data
    Tags,      \* MCTP message tags; 0 .. 7 in the code
    Calls,     \* calls of SendReceiveMctpMessagePayload
    None       \* the empty std::optional, and "no entry" in a map

ASSUME TagsAssumption == Tags \subseteq Nat
ASSUME NoneAssumption == None \notin Tags \cup Calls \cup Eids

VARIABLES
    availableTags,        \* Endpoint::availableTags, the set of free tags
    transmittedMessages,  \* Endpoint::transmittedMessages, tag -> message
    queuedMessages,       \* Endpoint::queuedMessages, ordered by index
    msgCounter,           \* Endpoint::msgCounter
    message,              \* struct Message, with its destination
    timer,                \* Message::timer: "unset", "armed" or "due"
    posted,               \* transmitQueuedMessages handlers in the io_context
    result,               \* how far each call is, and how it ended
    peer                  \* tag under which an endpoint holds a request

vars == <<availableTags, transmittedMessages, queuedMessages, msgCounter,
          message, timer, posted, result, peer>>

queue == <<availableTags, transmittedMessages, queuedMessages>>

NoMessage == [dest |-> None, index |-> 0, tag |-> None, response |-> None]

Message == [dest : Eids \cup {None}, index : Nat, tag : Tags \cup {None},
            response : Calls \cup {None}]

Results == {"idle", "waiting", "returned", "timed_out"}

TypeOK ==
    /\ availableTags \in [Eids -> SUBSET Tags]
    /\ transmittedMessages \in [Eids -> [Tags -> Calls \cup {None}]]
    /\ queuedMessages \in [Eids -> SUBSET Calls]
    /\ msgCounter \in [Eids -> Nat]
    /\ message \in [Calls -> Message]
    /\ timer \in [Calls -> {"unset", "armed", "due"}]
    /\ posted \in [Eids -> Nat]
    /\ result \in [Calls -> Results]
    /\ peer \in [Calls -> Tags \cup {None}]

Init ==
    /\ availableTags = [e \in Eids |-> Tags]
    /\ transmittedMessages = [e \in Eids |-> [t \in Tags |-> None]]
    /\ queuedMessages = [e \in Eids |-> {}]
    /\ msgCounter = [e \in Eids |-> 0]
    /\ message = [c \in Calls |-> NoMessage]
    /\ timer = [c \in Calls |-> "unset"]
    /\ posted = [e \in Eids |-> 0]
    /\ result = [c \in Calls |-> "idle"]
    /\ peer = [c \in Calls |-> None]

-----------------------------------------------------------------------------
\* Broken variant: the queue is not served in order.
IsPassInAnyOrder(waiting, free, msgs, tag, dropped) ==
    LET gone == DOMAIN tag \cup dropped
    IN  Range(tag) = free \/ gone = waiting

(***************************************************************************)
(* transmitQueuedMessages.  One run of the loop takes messages from the    *)
(* front of the queue until the queue or the tags run out.  tag maps the   *)
(* messages that were sent to their tags; dropped are the ones whose       *)
(* mctp_message_tx failed: they leave the queue and use no tag.            *)
(***************************************************************************)
IsPass(waiting, free, msgs, tag, dropped) ==
    LET sent == DOMAIN tag
        gone == sent \cup dropped
        Before(c, d) == msgs[c].index < msgs[d].index
    IN  \* begin() is the oldest message
        /\ \A c \in gone, d \in waiting \ gone : Before(c, d)
        \* Tags::next() is the lowest free tag
        /\ \A c, d \in sent : Before(c, d) => tag[c] < tag[d]
        /\ \A t \in Range(tag), u \in free \ Range(tag) : t < u
        \* the loop ends at the last free tag, or with an empty queue
        /\ \/ /\ Range(tag) = free
              /\ \A c \in dropped : \E d \in sent : Before(c, d)
           \/ /\ Range(tag) # free
              /\ gone = waiting

\* Broken variant: a tag stays available when it is given out.
PassOutcomeKeepingTags(e, waiting, msgs, sent, dropped, tag) ==
    /\ IsPass(waiting, availableTags[e], msgs, tag, dropped)
    /\ queuedMessages' = [queuedMessages EXCEPT
                            ![e] = waiting \ (sent \cup dropped)]
    /\ UNCHANGED availableTags
    /\ transmittedMessages' =
         [transmittedMessages EXCEPT ![e] =
            [t \in Tags |-> IF @[t] = None /\ t \in Range(tag)
                            THEN CHOOSE c \in sent : tag[c] = t
                            ELSE @[t]]]
    /\ message' = [c \in Calls |-> IF c \in sent
                                   THEN [msgs[c] EXCEPT !.tag = tag[c]]
                                   ELSE msgs[c]]
    /\ peer' = [c \in Calls |-> IF c \in sent THEN tag[c] ELSE peer[c]]

PassOutcome(e, waiting, msgs, sent, dropped, tag) ==
    /\ IsPass(waiting, availableTags[e], msgs, tag, dropped)
    /\ queuedMessages' = [queuedMessages EXCEPT
                            ![e] = waiting \ (sent \cup dropped)]
    /\ availableTags' = [availableTags EXCEPT ![e] = @ \ Range(tag)]
    \* std::map::emplace leaves an entry that is there
    /\ transmittedMessages' =
         [transmittedMessages EXCEPT ![e] =
            [t \in Tags |-> IF @[t] = None /\ t \in Range(tag)
                            THEN CHOOSE c \in sent : tag[c] = t
                            ELSE @[t]]]
    /\ message' = [c \in Calls |-> IF c \in sent
                                   THEN [msgs[c] EXCEPT !.tag = tag[c]]
                                   ELSE msgs[c]]
    /\ peer' = [c \in Calls |-> IF c \in sent THEN tag[c] ELSE peer[c]]

TransmitQueuedMessages(e, waiting, msgs) ==
    \E sent \in SUBSET waiting :
      \E dropped \in SUBSET (waiting \ sent) :
        \E tag \in Injection(sent, availableTags[e]) :
          PassOutcome(e, waiting, msgs, sent, dropped, tag)

(***************************************************************************)
(* SendReceiveMctpMessagePayload up to its wait: transmit() makes and      *)
(* queues the message, runs the loop, and the timer of the message starts. *)
(* Calls that are refused (no private data for the EID, or the bandwidth   *)
(* reserved for another EID) change nothing and are left out.              *)
(***************************************************************************)
SendReceive(c, e) ==
    /\ result[c] = "idle"
    /\ TransmitQueuedMessages(e, queuedMessages[e] \cup {c},
           [message EXCEPT ![c] = [NoMessage EXCEPT !.dest = e,
                                                    !.index = msgCounter[e]]])
    /\ msgCounter' = [msgCounter EXCEPT ![e] = @ + 1]
    /\ timer' = [timer EXCEPT ![c] = "armed"]
    /\ result' = [result EXCEPT ![c] = "waiting"]
    /\ UNCHANGED posted

\* Broken variant: the message stays in the table and nothing is posted.
DeliverForgetful(e, t, response) ==
    LET m == transmittedMessages[e][t]
    IN  /\ m # None
        /\ message' = [message EXCEPT ![m].response = response, ![m].tag = None]
        /\ availableTags' = [availableTags EXCEPT ![e] = @ \cup {t}]
        /\ timer' = [timer EXCEPT ![m] = "due"]
        /\ UNCHANGED <<transmittedMessages, posted, queuedMessages, msgCounter,
                       result>>

(***************************************************************************)
(* receive() with a tag that some message holds.  The message gets the     *)
(* response, whatever it is, and its tag is free again.                    *)
(***************************************************************************)
Deliver(e, t, response) ==
    LET m == transmittedMessages[e][t]
    IN  /\ m # None
        /\ message' = [message EXCEPT ![m].response = response, ![m].tag = None]
        /\ transmittedMessages' = [transmittedMessages EXCEPT ![e][t] = None]
        /\ availableTags' = [availableTags EXCEPT ![e] = @ \cup {t}]
        \* timer.cancel(); an expired timer stays due
        /\ timer' = [timer EXCEPT ![m] = "due"]
        /\ posted' = [posted EXCEPT ![e] = @ + 1]
        /\ UNCHANGED <<queuedMessages, msgCounter, result>>

(***************************************************************************)
(* rxMessage for the response to request r.  Its endpoint answers with the *)
(* tag of the request, and the message that holds this tag now gets it.    *)
(***************************************************************************)
Receive(r) ==
    /\ peer[r] # None
    /\ Deliver(message[r].dest, peer[r], r)
    /\ peer' = [peer EXCEPT ![r] = None]

(***************************************************************************)
(* receive() returns false: no message holds the tag, and rxMessage emits  *)
(* MessageReceivedSignal instead.                                          *)
(***************************************************************************)
ReceiveUnmatched(r) ==
    /\ peer[r] # None
    /\ transmittedMessages[message[r].dest][peer[r]] = None
    /\ peer' = [peer EXCEPT ![r] = None]
    /\ UNCHANGED <<queue, msgCounter, message, timer, posted, result>>

\* The handler that receive() posts to the io_context.
PostedTransmit(e) ==
    /\ posted[e] > 0
    /\ TransmitQueuedMessages(e, queuedMessages[e], message)
    /\ posted' = [posted EXCEPT ![e] = @ - 1]
    /\ UNCHANGED <<msgCounter, timer, result>>

\* Broken variant: only a message that was sent is timed.
TimerExpiresIfSent(c) ==
    /\ timer[c] = "armed"
    /\ message[c].tag # None
    /\ timer' = [timer EXCEPT ![c] = "due"]
    /\ UNCHANGED <<queue, msgCounter, message, posted, result, peer>>

\* The timer of a waiting call runs out; its handler is queued.
TimerExpires(c) ==
    /\ timer[c] = "armed"
    /\ timer' = [timer EXCEPT ![c] = "due"]
    /\ UNCHANGED <<queue, msgCounter, message, posted, result, peer>>

\* The coroutine resumes and finds a response.
ReturnResponse(c) ==
    /\ result[c] = "waiting"
    /\ timer[c] = "due"
    /\ message[c].response # None
    /\ timer' = [timer EXCEPT ![c] = "unset"]
    /\ result' = [result EXCEPT ![c] = "returned"]
    /\ UNCHANGED <<queue, msgCounter, message, posted, peer>>

\* Broken variant: takes every message for one that holds a tag.
DisposeUnchecked(e, c) ==
    LET t == message[c].tag
    IN  /\ UNCHANGED queuedMessages
        /\ availableTags' = [availableTags EXCEPT ![e] = @ \cup {t}]
        /\ transmittedMessages' = [transmittedMessages EXCEPT ![e] =
               [u \in Tags |-> IF u = t THEN None ELSE @[u]]]

\* dispose()
Dispose(e, c) ==
    LET t == message[c].tag
    IN  /\ queuedMessages' = [queuedMessages EXCEPT ![e] = @ \ {c}]
        /\ availableTags' = [availableTags EXCEPT ![e] =
                               IF t = None THEN @ ELSE @ \cup {t}]
        /\ transmittedMessages' =
             IF t = None THEN transmittedMessages
             ELSE [transmittedMessages EXCEPT ![e][t] = None]

\* The coroutine resumes without a response: dispose() and timed_out.
ReturnTimedOut(c) ==
    /\ result[c] = "waiting"
    /\ timer[c] = "due"
    /\ message[c].response = None
    /\ Dispose(message[c].dest, c)
    /\ timer' = [timer EXCEPT ![c] = "unset"]
    /\ result' = [result EXCEPT ![c] = "timed_out"]
    /\ UNCHANGED <<msgCounter, message, posted, peer>>

Next ==
    \/ \E c \in Calls, e \in Eids : SendReceive(c, e)
    \/ \E r \in Calls : Receive(r) \/ ReceiveUnmatched(r)
    \/ \E e \in Eids : PostedTransmit(e)
    \/ \E c \in Calls :
         TimerExpires(c) \/ ReturnResponse(c) \/ ReturnTimedOut(c)

(***************************************************************************)
(* The io_context runs every handler that is ready, and a timer that is    *)
(* not cancelled expires.  Nothing makes an endpoint answer or a client    *)
(* call.                                                                   *)
(***************************************************************************)
Fairness ==
    /\ \A e \in Eids : WF_vars(PostedTransmit(e))
    /\ \A c \in Calls :
         /\ WF_vars(TimerExpires(c))
         /\ WF_vars(ReturnResponse(c))
         /\ WF_vars(ReturnTimedOut(c))

Spec == Init /\ [][Next]_vars
-----------------------------------------------------------------------------
(***************************************************************************)
(* Properties                                                              *)
(***************************************************************************)
(***************************************************************************)
(* Tags are neither lost nor shared.  transmit, receive and dispose move   *)
(* tags and messages in three places and in any order; always a tag is     *)
(* either free or held by the one waiting message that carries it.         *)
(***************************************************************************)
TagsConserved ==
    \A e \in Eids, t \in Tags :
        LET m == transmittedMessages[e][t]
        IN  /\ t \in availableTags[e] <=> m = None
            /\ m # None => /\ message[m].dest = e
                           /\ message[m].tag = t
                           /\ result[m] = "waiting"

(***************************************************************************)
(* The converse: a message whose call has not ended can be found where it  *)
(* says it is, and no answered or ended call leaves a message behind in    *)
(* the queue or the table, where it would be sent for nobody or take a tag *)
(* forever.                                                                *)
(***************************************************************************)
NoDanglingMessage ==
    \A c \in Calls, e \in Eids :
        /\ c \in queuedMessages[e] => /\ result[c] = "waiting"
                                      /\ message[c].dest = e
                                      /\ message[c].tag = None
        /\ result[c] = "waiting" /\ message[c].tag # None =>
              transmittedMessages[message[c].dest][message[c].tag] = c
        /\ message[c].response # None => /\ message[c].tag = None
                                         /\ c \notin queuedMessages[e]

(***************************************************************************)
(* Requests reach an endpoint in the order they were made: no message that *)
(* has been sent is younger than one that still waits for a tag.           *)
(***************************************************************************)
SentInOrder ==
    \A e \in Eids : \A c \in queuedMessages[e], d \in Calls :
        message[d].dest = e /\ message[d].index > message[c].index =>
            peer[d] = None /\ message[d].tag = None

(***************************************************************************)
(* A response goes to the wrong call only after its own call is over: if c *)
(* is given the response to another request d, then d has timed out or has *)
(* itself been given a stray response before.  So the first stray of any   *)
(* endpoint comes from a call that timed out; receive() looks at the tag   *)
(* alone, and the code can promise no more than this.                      *)
(***************************************************************************)
OnlyLateResponsesStray ==
    \A c, d \in Calls :
        message[c].response = d /\ c # d =>
            \/ result[d] = "timed_out"
            \/ message[d].response \notin {None, d}

(***************************************************************************)
(* What a call was given is final: a response is never replaced by a later *)
(* one, although its tag goes to other messages at once, and nothing that  *)
(* comes after a call has ended touches the call or its message.           *)
(***************************************************************************)
AnswersAreFinal ==
    [][\A c \in Calls :
          /\ message[c].response # None =>
                message'[c].response = message[c].response
          /\ result[c] \in {"returned", "timed_out"} =>
                message'[c] = message[c] /\ result'[c] = result[c]]_vars

(***************************************************************************)
(* As long as no call to e has timed out, no message to e waits while a    *)
(* tag of e is free, unless the handler that will send it is already       *)
(* posted.                                                                 *)
(***************************************************************************)
NoIdleTagWithoutTimeout ==
    \A e \in Eids :
        (\A c \in Calls : message[c].dest = e => result[c] # "timed_out") =>
            queuedMessages[e] = {} \/ availableTags[e] = {} \/ posted[e] > 0

(***************************************************************************)
(* A call that succeeds hands its client the response to its own request   *)
(* (mctpwplus/README.md, the SendReceive examples: no error means "Valid   *)
(* response").                                                             *)
(***************************************************************************)
ReturnsOwnResponse ==
    \A c \in Calls : result[c] = "returned" => message[c].response = c

(***************************************************************************)
(* Every call ends, whatever the endpoints do.                             *)
(***************************************************************************)
EveryCallEnds ==
    \A c \in Calls :
        result[c] = "waiting" ~> result[c] \in {"returned", "timed_out"}
=============================================================================
