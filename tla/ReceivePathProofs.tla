-------------------------- MODULE ReceivePathProofs --------------------------
(***************************************************************************)
(* Theorems about the two queues of mctpd: about TransmissionQueue, for    *)
(* any endpoints, tags and calls, its invariants and that it implements    *)
(* RequestWindow; about CtrlTxQueue, for any requests, instance IDs,       *)
(* retries and delays; and about ReceivePath, where the two meet.          *)
(***************************************************************************)
EXTENDS ReceivePath, TransmissionQueueRefinement, FiniteSetTheorems, TLAPS

-----------------------------------------------------------------------------
(***************************************************************************)
(* The transmission queue.                                                 *)
(*                                                                         *)
(* TypeOK alone is not inductive: receive() looks the destination of a     *)
(* request up in the table, so a request that an endpoint holds must have  *)
(* one.                                                                    *)
(***************************************************************************)
CallsOK ==
    \A c \in Calls :
        /\ result[c] # "idle" => message[c].dest \in Eids
        /\ result[c] = "idle" =>
              /\ message[c] = NoMessage
              /\ peer[c] = None
              /\ timer[c] = "unset"
              /\ \A e \in Eids : c \notin queuedMessages[e]

(***************************************************************************)
(* What one run of the loop does.  The messages in sent get the free tags  *)
(* given by tag; nobody else changes.                                      *)
(***************************************************************************)
PassEffect(e, waiting, msgs, sent, tag) ==
    /\ sent \subseteq waiting
    /\ queuedMessages'[e] \subseteq waiting \ sent
    /\ tag \in [sent -> availableTags[e]]
    /\ \A c, d \in sent : tag[c] = tag[d] => c = d
    /\ queuedMessages' = [queuedMessages EXCEPT ![e] = queuedMessages'[e]]
    /\ availableTags' = [availableTags EXCEPT ![e] = @ \ {tag[c] : c \in sent}]
    /\ transmittedMessages' = [transmittedMessages EXCEPT
                                  ![e] = transmittedMessages'[e]]
    /\ transmittedMessages'[e] \in [Tags -> Calls \cup {None}]
    /\ \A t \in Tags :
          t \notin {tag[c] : c \in sent}
             => transmittedMessages'[e][t] = transmittedMessages[e][t]
    /\ \A c \in sent :
          transmittedMessages[e][tag[c]] = None
             => transmittedMessages'[e][tag[c]] = c
    /\ message' = [c \in Calls |-> IF c \in sent
                                   THEN [msgs[c] EXCEPT !.tag = tag[c]]
                                   ELSE msgs[c]]
    /\ peer' = [c \in Calls |-> IF c \in sent THEN tag[c] ELSE peer[c]]
    /\ \A c \in waiting \ queuedMessages'[e], d \in queuedMessages'[e] :
          msgs[c].index < msgs[d].index
    /\ queuedMessages'[e] = {} \/ availableTags'[e] = {}

LEMMA PassHasEffect ==
    ASSUME TypeOK, NEW e \in Eids, NEW waiting \in SUBSET Calls,
           NEW msgs \in [Calls -> Message],
           TransmitQueuedMessages(e, waiting, msgs)
    PROVE  \E sent \in SUBSET waiting : \E tag \in [sent -> availableTags[e]] :
              PassEffect(e, waiting, msgs, sent, tag)
<1>0. PICK sent \in SUBSET waiting :
        \E dropped \in SUBSET (waiting \ sent) :
          \E tag \in Injection(sent, availableTags[e]) :
            PassOutcome(e, waiting, msgs, sent, dropped, tag)
  BY DEF TransmitQueuedMessages, PassOutcome
<1>a. PICK dropped \in SUBSET (waiting \ sent) :
        \E tag \in Injection(sent, availableTags[e]) :
            PassOutcome(e, waiting, msgs, sent, dropped, tag)
  BY <1>0
<1>1. PICK tag \in Injection(sent, availableTags[e]) :
        /\ IsPass(waiting, availableTags[e], msgs, tag, dropped)
        /\ queuedMessages' = [queuedMessages EXCEPT
                                ![e] = waiting \ (sent \cup dropped)]
        /\ availableTags' = [availableTags EXCEPT ![e] = @ \ Range(tag)]
        /\ transmittedMessages' =
             [transmittedMessages EXCEPT ![e] =
                [t \in Tags |-> IF @[t] = None /\ t \in Range(tag)
                                THEN CHOOSE c \in sent : tag[c] = t
                                ELSE @[t]]]
        /\ message' = [c \in Calls |-> IF c \in sent
                                       THEN [msgs[c] EXCEPT !.tag = tag[c]]
                                       ELSE msgs[c]]
        /\ peer' = [c \in Calls |-> IF c \in sent THEN tag[c] ELSE peer[c]]
  BY <1>a DEF PassOutcome
<1>2. /\ tag \in [sent -> availableTags[e]]
      /\ \A c, d \in sent : tag[c] = tag[d] => c = d
      /\ Range(tag) = {tag[c] : c \in sent}
  BY <1>1 DEF Injection, IsInjective, Range
<1>3. /\ availableTags[e] \subseteq Tags
      /\ queuedMessages'[e] = waiting \ (sent \cup dropped)
      /\ availableTags' = [availableTags EXCEPT
                              ![e] = @ \ {tag[c] : c \in sent}]
  BY <1>1, <1>2 DEF TypeOK
<1>4. \A c \in sent : (CHOOSE d \in sent : tag[d] = tag[c]) = c
  <2>1. TAKE c \in sent
  <2>2. (CHOOSE d \in sent : tag[d] = tag[c]) \in sent
        /\ tag[CHOOSE d \in sent : tag[d] = tag[c]] = tag[c]
    BY <1>2
  <2> QED BY <1>2, <2>2
<1>5. transmittedMessages'[e] =
        [t \in Tags |->
            IF transmittedMessages[e][t] = None /\ t \in Range(tag)
            THEN CHOOSE c \in sent : tag[c] = t
            ELSE transmittedMessages[e][t]]
  BY <1>1 DEF TypeOK
<1>6. \A t \in Tags :
        /\ t \notin Range(tag)
             => transmittedMessages'[e][t] = transmittedMessages[e][t]
        /\ t \in Range(tag) /\ transmittedMessages[e][t] = None
             => transmittedMessages'[e][t] = CHOOSE c \in sent : tag[c] = t
  BY <1>5
<1>7. \A c \in sent : transmittedMessages[e][tag[c]] = None
                         => transmittedMessages'[e][tag[c]] = c
  BY <1>2, <1>3, <1>4, <1>6
<1>8. transmittedMessages'[e] \in [Tags -> Calls \cup {None}]
  <2>1. \A t \in Range(tag) : (CHOOSE c \in sent : tag[c] = t) \in Calls
    BY <1>2, <1>4
  <2> QED BY <1>5, <2>1 DEF TypeOK
<1>9. \A c \in waiting \ queuedMessages'[e], d \in queuedMessages'[e] :
        msgs[c].index < msgs[d].index
  <2>1. DOMAIN tag = sent
    BY <1>2
  <2> QED BY <1>1, <1>3, <2>1 DEF IsPass
<1>10. transmittedMessages' = [transmittedMessages EXCEPT
                                  ![e] = transmittedMessages'[e]]
  BY <1>1, <1>5 DEF TypeOK
<1>11. PassEffect(e, waiting, msgs, sent, tag)
  <2>1. queuedMessages'[e] = {} \/ availableTags'[e] = {}
    <3>1. availableTags'[e] = availableTags[e] \ Range(tag)
      BY <1>1 DEF TypeOK
    <3> QED BY <1>1, <1>2, <1>3, <3>1 DEF IsPass
  <2> QED
    BY <1>1, <1>2, <1>3, <1>6, <1>7, <1>8, <1>9, <1>10, <2>1 DEF PassEffect
<1> QED
  BY <1>2, <1>11

-----------------------------------------------------------------------------
Inv1 == TypeOK /\ CallsOK /\ TagsConserved /\ NoDanglingMessage

\* The message table SendReceive hands to the loop.
Fresh(c, e) ==
    [message EXCEPT ![c] = [NoMessage EXCEPT !.dest = e,
                                             !.index = msgCounter[e]]]

LEMMA FreshType ==
    ASSUME TypeOK, NEW c \in Calls, NEW e \in Eids
    PROVE  /\ Fresh(c, e) \in [Calls -> Message]
           /\ Fresh(c, e)[c] = [dest |-> e, index |-> msgCounter[e],
                                tag |-> None, response |-> None]
           /\ \A d \in Calls \ {c} : Fresh(c, e)[d] = message[d]
  BY NoneAssumption DEF Fresh, TypeOK, Message, NoMessage

(***************************************************************************)
(* The loop keeps the types.                                               *)
(***************************************************************************)
LEMMA PassType ==
    ASSUME TypeOK, NEW e \in Eids, NEW waiting \in SUBSET Calls,
           NEW msgs \in [Calls -> Message], NEW sent, NEW tag,
           PassEffect(e, waiting, msgs, sent, tag)
    PROVE  /\ queuedMessages' \in [Eids -> SUBSET Calls]
           /\ availableTags' \in [Eids -> SUBSET Tags]
           /\ transmittedMessages' \in [Eids -> [Tags -> Calls \cup {None}]]
           /\ message' \in [Calls -> Message]
           /\ peer' \in [Calls -> Tags \cup {None}]
<1>1. \A c \in sent : tag[c] \in Tags
  BY DEF PassEffect, TypeOK
<1>2. queuedMessages' \in [Eids -> SUBSET Calls]
  BY DEF PassEffect, TypeOK
<1>3. availableTags' \in [Eids -> SUBSET Tags]
  BY DEF PassEffect, TypeOK
<1>4. transmittedMessages' \in [Eids -> [Tags -> Calls \cup {None}]]
  BY DEF PassEffect, TypeOK
<1>5. message' \in [Calls -> Message]
  <2>1. ASSUME NEW c \in sent
        PROVE  [msgs[c] EXCEPT !.tag = tag[c]] \in Message
    <3>1. msgs[c] \in Message /\ tag[c] \in Tags
      BY <1>1 DEF PassEffect
    <3> QED BY <3>1 DEF Message
  <2>2. ASSUME NEW c \in Calls
        PROVE  (IF c \in sent THEN [msgs[c] EXCEPT !.tag = tag[c]]
                ELSE msgs[c]) \in Message
    BY <2>1
  <2> QED BY <2>2 DEF PassEffect
<1>6. peer' \in [Calls -> Tags \cup {None}]
  BY <1>1 DEF PassEffect, TypeOK
<1> QED BY <1>2, <1>3, <1>4, <1>5, <1>6

LEMMA Inv1Init == Init => Inv1
  BY NoneAssumption
  DEF Init, Inv1, TypeOK, CallsOK, TagsConserved, NoDanglingMessage, Message,
      NoMessage, Results

(***************************************************************************)
(* The loop, run on behalf of SendReceive or of a posted handler.  In msgs *)
(* and waiting the new message of SendReceive is already there; pending    *)
(* is the set of calls that wait when the loop ends.                       *)
(***************************************************************************)
PassReady(e, waiting, msgs, pending) ==
    /\ \A c \in waiting : /\ c \in pending
                          /\ msgs[c].dest = e
                          /\ msgs[c].tag = None
                          /\ message[c].tag = None
                          /\ msgs[c].response = None
                          /\ \A f \in Eids \ {e} : c \notin queuedMessages[f]
    /\ \A c \in queuedMessages[e] : c \in waiting
    /\ \A c \in Calls \ waiting : msgs[c] = message[c]
    /\ \A c \in Calls : result[c] = "waiting" => c \in pending

LEMMA PassKeepsTags ==
    ASSUME Inv1, NEW e \in Eids, NEW waiting \in SUBSET Calls,
           NEW msgs \in [Calls -> Message], NEW sent, NEW tag,
           PassEffect(e, waiting, msgs, sent, tag),
           NEW pending \in SUBSET Calls,
           PassReady(e, waiting, msgs, pending),
           \A c \in Calls : c \in pending <=> result'[c] = "waiting"
    PROVE  TagsConserved'
<1> SUFFICES ASSUME NEW d \in Eids, NEW t \in Tags
             PROVE  LET m == transmittedMessages'[d][t]
                    IN  /\ t \in availableTags'[d] <=> m = None
                        /\ m # None => /\ message'[m].dest = d
                                       /\ message'[m].tag = t
                                       /\ result'[m] = "waiting"
  BY DEF TagsConserved
<1>1. \A c \in sent : c \in Calls /\ tag[c] \in availableTags[e] /\ tag[c] \in Tags
  BY DEF PassEffect, Inv1, TypeOK
<1>2. CASE d = e /\ t \in {tag[c] : c \in sent}
  <2>1. PICK c \in sent : t = tag[c]
    BY <1>2
  <2>2. transmittedMessages'[e][t] = c
    BY <1>1, <2>1 DEF PassEffect, Inv1, TagsConserved
  <2>3. message'[c].dest = e /\ message'[c].tag = t /\ result'[c] = "waiting"
    BY <1>1, <2>1 DEF PassEffect, PassReady, Message
  <2>4. t \notin availableTags'[e]
    BY <1>2 DEF PassEffect, Inv1, TypeOK
  <2> QED BY <1>1, <1>2, <2>2, <2>3, <2>4, NoneAssumption
<1>3. CASE d = e /\ t \notin {tag[c] : c \in sent}
  <2>1. transmittedMessages'[e][t] = transmittedMessages[e][t]
    BY <1>3 DEF PassEffect
  <2>2. t \in availableTags'[e] <=> t \in availableTags[e]
    BY <1>3 DEF PassEffect, Inv1, TypeOK
  <2>3. ASSUME transmittedMessages[e][t] # None
        PROVE  LET m == transmittedMessages[e][t]
               IN message'[m] = message[m] /\ result'[m] = "waiting"
    <3> DEFINE m == transmittedMessages[e][t]
    <3>1. m \in Calls /\ result[m] = "waiting" /\ message[m].tag = t
      BY <2>3 DEF Inv1, TagsConserved, TypeOK
    <3>2. m \notin waiting
      BY <3>1, NoneAssumption DEF PassReady
    <3>3. m \notin sent /\ msgs[m] = message[m] /\ m \in pending
      BY <3>1, <3>2 DEF PassEffect, PassReady
    <3> QED BY <3>1, <3>3 DEF PassEffect
  <2> QED BY <1>3, <2>1, <2>2, <2>3 DEF Inv1, TagsConserved
<1>4. CASE d # e
  <2>1. /\ transmittedMessages'[d][t] = transmittedMessages[d][t]
        /\ availableTags'[d] = availableTags[d]
    BY <1>4 DEF PassEffect, Inv1, TypeOK
  <2>2. ASSUME transmittedMessages[d][t] # None
        PROVE  LET m == transmittedMessages[d][t]
               IN message'[m] = message[m] /\ result'[m] = "waiting"
    <3> DEFINE m == transmittedMessages[d][t]
    <3>1. m \in Calls /\ result[m] = "waiting" /\ message[m].tag = t
      BY <2>2 DEF Inv1, TagsConserved, TypeOK
    <3>2. m \notin waiting
      BY <3>1, NoneAssumption DEF PassReady
    <3>3. m \notin sent /\ msgs[m] = message[m] /\ m \in pending
      BY <3>1, <3>2 DEF PassEffect, PassReady
    <3> QED BY <3>1, <3>3 DEF PassEffect
  <2> QED BY <2>1, <2>2 DEF Inv1, TagsConserved
<1> QED BY <1>2, <1>3, <1>4

LEMMA PassKeepsMessages ==
    ASSUME Inv1, NEW e \in Eids, NEW waiting \in SUBSET Calls,
           NEW msgs \in [Calls -> Message], NEW sent, NEW tag,
           PassEffect(e, waiting, msgs, sent, tag),
           NEW pending \in SUBSET Calls,
           PassReady(e, waiting, msgs, pending),
           \A c \in Calls : c \in pending <=> result'[c] = "waiting",
           \A c \in Calls \ waiting : result'[c] = result[c]
    PROVE  NoDanglingMessage'
<1>1. \A c \in sent : c \in Calls /\ tag[c] \in availableTags[e] /\ tag[c] \in Tags
  BY DEF PassEffect, Inv1, TypeOK
<1>2. ASSUME NEW c \in Calls, NEW d \in Eids, c \in queuedMessages'[d]
      PROVE  result'[c] = "waiting" /\ message'[c].dest = d /\ message'[c].tag = None
  <2>1. CASE d = e
    <3>1. c \in waiting /\ c \notin sent
      BY <1>2, <2>1 DEF PassEffect
    <3> QED BY <2>1, <3>1 DEF PassEffect, PassReady
  <2>2. CASE d # e
    <3>1. c \in queuedMessages[d]
      BY <1>2, <2>2 DEF PassEffect, Inv1, TypeOK
    <3>2. c \notin waiting /\ c \notin sent /\ msgs[c] = message[c]
      BY <2>2, <3>1 DEF PassReady, PassEffect
    <3> QED BY <3>1, <3>2 DEF PassEffect, PassReady, Inv1, NoDanglingMessage
  <2> QED BY <2>1, <2>2
<1>3. ASSUME NEW c \in Calls, result'[c] = "waiting", message'[c].tag # None
      PROVE  transmittedMessages'[message'[c].dest][message'[c].tag] = c
  <2>1. CASE c \in sent
    <3>1. message'[c].tag = tag[c] /\ message'[c].dest = e
      BY <2>1 DEF PassEffect, PassReady, Message
    <3>2. transmittedMessages'[e][tag[c]] = c
      BY <1>1, <2>1 DEF PassEffect, Inv1, TagsConserved
    <3> QED BY <3>1, <3>2
  <2>2. CASE c \notin sent
    <3>1. message'[c] = msgs[c]
      BY <2>2 DEF PassEffect
    <3>2. c \notin waiting
      BY <1>3, <3>1 DEF PassReady
    <3>3. msgs[c] = message[c] /\ result[c] = "waiting"
      BY <1>3, <3>2 DEF PassReady
    <3> DEFINE d == message[c].dest
               t == message[c].tag
    <3>4. d \in Eids /\ t \in Tags /\ transmittedMessages[d][t] = c
      BY <1>3, <3>1, <3>3
      DEF Inv1, CallsOK, NoDanglingMessage, TypeOK, Message
    <3>5. CASE d = e
      <4>1. t \notin availableTags[e]
        BY <3>4, <3>5, NoneAssumption DEF Inv1, TagsConserved
      <4>2. transmittedMessages'[e][t] = transmittedMessages[e][t]
        BY <1>1, <3>4, <4>1 DEF PassEffect
      <4> QED BY <3>1, <3>3, <3>4, <3>5, <4>2
    <3>6. CASE d # e
      <4>1. transmittedMessages'[d] = transmittedMessages[d]
        BY <3>4, <3>6 DEF PassEffect, Inv1, TypeOK
      <4> QED BY <3>1, <3>3, <3>4, <4>1
    <3> QED BY <3>5, <3>6
  <2> QED BY <2>1, <2>2
<1>4. ASSUME NEW c \in Calls, NEW d \in Eids, message'[c].response # None
      PROVE  message'[c].tag = None /\ c \notin queuedMessages'[d]
  <2>1. message'[c].response = msgs[c].response
    BY DEF PassEffect, Message
  <2>2. c \notin waiting /\ message'[c] = message[c] /\ c \notin sent
    BY <1>4, <2>1 DEF PassReady, PassEffect
  <2>3. c \notin queuedMessages[d] /\ message[c].tag = None
    BY <1>4, <2>2 DEF Inv1, NoDanglingMessage
  <2> QED BY <2>2, <2>3 DEF PassEffect, Inv1, TypeOK
<1> QED BY <1>2, <1>3, <1>4 DEF NoDanglingMessage

LEMMA PassKeepsCalls ==
    ASSUME Inv1, NEW e \in Eids, NEW waiting \in SUBSET Calls,
           NEW msgs \in [Calls -> Message], NEW sent, NEW tag,
           PassEffect(e, waiting, msgs, sent, tag),
           \A c \in waiting : msgs[c].dest \in Eids /\ result'[c] # "idle",
           \A c \in Calls \ waiting : /\ msgs[c] = message[c]
                                      /\ result'[c] = result[c]
                                      /\ timer'[c] = timer[c]
    PROVE  CallsOK'
<1> SUFFICES ASSUME NEW c \in Calls
             PROVE  /\ result'[c] # "idle" => message'[c].dest \in Eids
                    /\ result'[c] = "idle" =>
                          /\ message'[c] = NoMessage
                          /\ peer'[c] = None
                          /\ timer'[c] = "unset"
                          /\ \A d \in Eids : c \notin queuedMessages'[d]
  BY DEF CallsOK
<1>1. CASE c \in waiting
  <2>1. message'[c].dest = msgs[c].dest
    BY DEF PassEffect, Message
  <2> QED BY <1>1, <2>1
<1>2. CASE c \notin waiting
  <2>1. c \notin sent /\ message'[c] = message[c] /\ peer'[c] = peer[c]
    BY <1>2 DEF PassEffect
  <2>2. \A d \in Eids : c \in queuedMessages'[d] => c \in queuedMessages[d]
    BY <1>2 DEF PassEffect, Inv1, TypeOK
  <2> QED BY <1>2, <2>1, <2>2 DEF Inv1, CallsOK
<1> QED BY <1>1, <1>2

(***************************************************************************)
(* The two ways to enter the loop meet its conditions.                     *)
(***************************************************************************)
LEMMA SendReceiveReady ==
    ASSUME Inv1, NEW c \in Calls, NEW e \in Eids, result[c] = "idle"
    PROVE  /\ queuedMessages[e] \cup {c} \in SUBSET Calls
           /\ Fresh(c, e) \in [Calls -> Message]
           /\ PassReady(e, queuedMessages[e] \cup {c}, Fresh(c, e),
                        {d \in Calls : result[d] = "waiting"} \cup {c})
<1>1. /\ Fresh(c, e) \in [Calls -> Message]
      /\ Fresh(c, e)[c] = [dest |-> e, index |-> msgCounter[e],
                           tag |-> None, response |-> None]
      /\ \A d \in Calls \ {c} : Fresh(c, e)[d] = message[d]
  BY FreshType DEF Inv1
<1>2. queuedMessages[e] \cup {c} \in SUBSET Calls
  BY DEF Inv1, TypeOK
<1>3. message[c].tag = None /\ \A d \in Eids : c \notin queuedMessages[d]
  BY DEF Inv1, CallsOK, NoMessage
<1>4. \A d \in queuedMessages[e] :
        /\ d \in Calls /\ d # c /\ result[d] = "waiting" /\ message[d].dest = e
        /\ message[d].tag = None /\ message[d].response = None
        /\ \A f \in Eids \ {e} : d \notin queuedMessages[f]
  BY <1>3 DEF Inv1, NoDanglingMessage, TypeOK
<1> QED BY <1>1, <1>2, <1>3, <1>4 DEF PassReady

LEMMA PostedReady ==
    ASSUME Inv1, NEW e \in Eids
    PROVE  /\ queuedMessages[e] \in SUBSET Calls
           /\ message \in [Calls -> Message]
           /\ PassReady(e, queuedMessages[e], message,
                        {d \in Calls : result[d] = "waiting"})
<1>1. \A d \in queuedMessages[e] :
        /\ d \in Calls /\ result[d] = "waiting" /\ message[d].dest = e
        /\ message[d].tag = None /\ message[d].response = None
        /\ \A f \in Eids \ {e} : d \notin queuedMessages[f]
  BY DEF Inv1, NoDanglingMessage, TypeOK
<1> QED BY <1>1 DEF PassReady, Inv1, TypeOK

LEMMA Inv1SendReceive ==
    ASSUME Inv1, NEW c \in Calls, NEW e \in Eids, SendReceive(c, e)
    PROVE  Inv1'
<1> DEFINE waiting == queuedMessages[e] \cup {c}
           pending == {d \in Calls : result[d] = "waiting"} \cup {c}
<1>1. /\ result[c] = "idle"
      /\ TransmitQueuedMessages(e, waiting, Fresh(c, e))
      /\ msgCounter' = [msgCounter EXCEPT ![e] = @ + 1]
      /\ timer' = [timer EXCEPT ![c] = "armed"]
      /\ result' = [result EXCEPT ![c] = "waiting"]
      /\ posted' = posted
  BY DEF SendReceive, Fresh
<1>2. /\ waiting \in SUBSET Calls
      /\ Fresh(c, e) \in [Calls -> Message]
      /\ PassReady(e, waiting, Fresh(c, e), pending)
  BY <1>1, SendReceiveReady
<1>3. PICK sent, tag : PassEffect(e, waiting, Fresh(c, e), sent, tag)
  BY <1>1, <1>2, PassHasEffect DEF Inv1
<1>4. /\ pending \in SUBSET Calls
      /\ \A d \in Calls : d \in pending <=> result'[d] = "waiting"
      /\ \A d \in Calls \ waiting : /\ result'[d] = result[d]
                                    /\ timer'[d] = timer[d]
  BY <1>1 DEF Inv1, TypeOK
<1>5. TypeOK'
  <2>1. /\ queuedMessages' \in [Eids -> SUBSET Calls]
        /\ availableTags' \in [Eids -> SUBSET Tags]
        /\ transmittedMessages' \in [Eids -> [Tags -> Calls \cup {None}]]
        /\ message' \in [Calls -> Message]
        /\ peer' \in [Calls -> Tags \cup {None}]
    <3> HIDE DEF waiting
    <3> QED BY <1>2, <1>3, PassType DEF Inv1
  <2>2. /\ msgCounter' \in [Eids -> Nat]
        /\ timer' \in [Calls -> {"unset", "armed", "due"}]
        /\ result' \in [Calls -> Results]
        /\ posted' \in [Eids -> Nat]
    BY <1>1 DEF Inv1, TypeOK, Results
  <2> QED BY <2>1, <2>2 DEF TypeOK
<1>6. CallsOK'
  <2>1. \A d \in waiting : /\ Fresh(c, e)[d].dest \in Eids
                           /\ result'[d] # "idle"
    BY <1>2, <1>4 DEF PassReady
  <2>2. \A d \in Calls \ waiting : Fresh(c, e)[d] = message[d]
    BY <1>2 DEF PassReady
  <2> QED BY <1>2, <1>3, <1>4, <2>1, <2>2, PassKeepsCalls
<1>7. TagsConserved'
  BY <1>2, <1>3, <1>4, PassKeepsTags
<1>8. NoDanglingMessage'
  BY <1>2, <1>3, <1>4, PassKeepsMessages
<1> QED BY <1>5, <1>6, <1>7, <1>8 DEF Inv1

LEMMA Inv1Posted ==
    ASSUME Inv1, NEW e \in Eids, PostedTransmit(e)
    PROVE  Inv1'
<1> DEFINE pending == {d \in Calls : result[d] = "waiting"}
           waiting == queuedMessages[e]
<1>1. /\ posted[e] > 0
      /\ TransmitQueuedMessages(e, waiting, message)
      /\ posted' = [posted EXCEPT ![e] = @ - 1]
      /\ msgCounter' = msgCounter /\ timer' = timer /\ result' = result
  BY DEF PostedTransmit
<1>2. /\ waiting \in SUBSET Calls
      /\ message \in [Calls -> Message]
      /\ PassReady(e, waiting, message, pending)
  BY PostedReady
<1>3. PICK sent, tag : PassEffect(e, waiting, message, sent, tag)
  BY <1>1, <1>2, PassHasEffect DEF Inv1
<1>4. /\ pending \in SUBSET Calls
      /\ \A d \in Calls : d \in pending <=> result'[d] = "waiting"
      /\ \A d \in Calls \ waiting : /\ result'[d] = result[d]
                                    /\ timer'[d] = timer[d]
  BY <1>1
<1>5. TypeOK'
  <2>1. posted' \in [Eids -> Nat]
    BY <1>1 DEF Inv1, TypeOK
  <2> QED BY <1>1, <1>2, <1>3, <2>1, PassType DEF Inv1, TypeOK
<1>6. CallsOK'
  <2>1. \A d \in waiting : message[d].dest \in Eids /\ result'[d] # "idle"
    BY <1>2, <1>4 DEF PassReady
  <2> QED BY <1>2, <1>3, <1>4, <2>1, PassKeepsCalls
<1>7. TagsConserved'
  BY <1>2, <1>3, <1>4, PassKeepsTags
<1>8. NoDanglingMessage'
  BY <1>2, <1>3, <1>4, PassKeepsMessages
<1> QED BY <1>5, <1>6, <1>7, <1>8 DEF Inv1

\* The message that gets the response to request r.
Holder(r) == transmittedMessages[message[r].dest][peer[r]]

LEMMA ReceiveFacts ==
    ASSUME Inv1, NEW r \in Calls, Receive(r)
    PROVE  /\ message[r].dest \in Eids /\ peer[r] \in Tags /\ Holder(r) \in Calls /\ peer[r] # None
           /\ message[Holder(r)].dest = message[r].dest /\ message[Holder(r)].tag = peer[r]
           /\ result[Holder(r)] = "waiting"
           /\ transmittedMessages' = [transmittedMessages EXCEPT ![message[r].dest][peer[r]] = None]
           /\ availableTags' = [availableTags EXCEPT ![message[r].dest] = @ \cup {peer[r]}]
           /\ timer' = [timer EXCEPT ![Holder(r)] = "due"]
           /\ posted' = [posted EXCEPT ![message[r].dest] = @ + 1]
           /\ peer' = [peer EXCEPT ![r] = None]
           /\ queuedMessages' = queuedMessages
           /\ msgCounter' = msgCounter /\ result' = result
           /\ message' = [message EXCEPT ![Holder(r)] =
                             [@ EXCEPT !.response = r, !.tag = None]]
           /\ message'[Holder(r)] \in Message
           /\ message'[Holder(r)].dest = message[r].dest /\ message'[Holder(r)].tag = None
           /\ message'[Holder(r)].response = r
           /\ message'[Holder(r)].index = message[Holder(r)].index
           /\ \A c \in Calls \ {Holder(r)} : message'[c] = message[c]
<1> DEFINE e == message[r].dest
           t == peer[r]
           m == Holder(r)
<1>1. /\ peer[r] # None /\ m # None
      /\ message' = [message EXCEPT ![m].response = r, ![m].tag = None]
      /\ transmittedMessages' = [transmittedMessages EXCEPT ![e][t] = None]
      /\ availableTags' = [availableTags EXCEPT ![e] = @ \cup {t}]
      /\ timer' = [timer EXCEPT ![m] = "due"]
      /\ posted' = [posted EXCEPT ![e] = @ + 1]
      /\ peer' = [peer EXCEPT ![r] = None]
      /\ queuedMessages' = queuedMessages
      /\ msgCounter' = msgCounter /\ result' = result
  BY DEF Receive, Deliver, Holder
<1>2. e \in Eids /\ t \in Tags
  BY <1>1 DEF Inv1, CallsOK, TypeOK
<1>3. /\ m \in Calls /\ message[m].dest = e /\ message[m].tag = t
      /\ result[m] = "waiting"
  BY <1>1, <1>2 DEF Inv1, TagsConserved, TypeOK, Holder
<1> HIDE DEF e, t, m
<1>4. message[m] \in Message
  BY <1>3 DEF Inv1, TypeOK
<1>5. message' = [message EXCEPT ![m] =
                     [@ EXCEPT !.response = r, !.tag = None]]
  BY <1>1, <1>3 DEF Inv1, TypeOK
<1>6. /\ message'[m] = [message[m] EXCEPT !.response = r, !.tag = None]
      /\ \A c \in Calls \ {m} : message'[c] = message[c]
  BY <1>3, <1>5 DEF Inv1, TypeOK
<1>7. /\ message'[m] \in Message
      /\ message'[m].dest = e /\ message'[m].tag = None
      /\ message'[m].response = r
      /\ message'[m].index = message[m].index
  BY <1>3, <1>4, <1>6 DEF Message
<1> QED BY <1>1, <1>2, <1>3, <1>5, <1>6, <1>7 DEF e, t, m

LEMMA Inv1Receive ==
    ASSUME Inv1, NEW r \in Calls, Receive(r)
    PROVE  Inv1'
<1> DEFINE e == message[r].dest
           t == peer[r]
           m == Holder(r)
<1>1. /\ transmittedMessages' = [transmittedMessages EXCEPT ![e][t] = None]
      /\ availableTags' = [availableTags EXCEPT ![e] = @ \cup {t}]
      /\ timer' = [timer EXCEPT ![m] = "due"]
      /\ posted' = [posted EXCEPT ![e] = @ + 1]
      /\ peer' = [peer EXCEPT ![r] = None]
      /\ queuedMessages' = queuedMessages
      /\ msgCounter' = msgCounter /\ result' = result
      /\ message' = [message EXCEPT ![m] =
                        [@ EXCEPT !.response = r, !.tag = None]]
  BY ReceiveFacts
<1>2. e \in Eids /\ t \in Tags /\ peer[r] # None
  BY ReceiveFacts
<1>3. /\ m \in Calls /\ message[m].dest = e /\ message[m].tag = t
      /\ result[m] = "waiting"
  BY ReceiveFacts
<1>4. /\ message'[m] \in Message
      /\ message'[m].dest = e /\ message'[m].tag = None
      /\ \A c \in Calls \ {m} : message'[c] = message[c]
  BY ReceiveFacts
<1> HIDE DEF e, t, m
<1>5. TypeOK'
  <2>1. message' \in [Calls -> Message]
    BY <1>1, <1>3, <1>4 DEF Inv1, TypeOK
  <2>2. /\ availableTags' \in [Eids -> SUBSET Tags]
        /\ transmittedMessages' \in [Eids -> [Tags -> Calls \cup {None}]]
    BY <1>1, <1>2 DEF Inv1, TypeOK
  <2>3. /\ timer' \in [Calls -> {"unset", "armed", "due"}]
        /\ posted' \in [Eids -> Nat]
        /\ peer' \in [Calls -> Tags \cup {None}]
    BY <1>1, <1>2, <1>3 DEF Inv1, TypeOK
  <2> QED BY <1>1, <2>1, <2>2, <2>3 DEF Inv1, TypeOK
<1>6. CallsOK'
  BY <1>1, <1>2, <1>3, <1>4 DEF Inv1, CallsOK, TypeOK
<1>7. \A d \in Eids, u \in Tags :
        /\ transmittedMessages'[d][u] =
              IF d = e /\ u = t THEN None ELSE transmittedMessages[d][u]
        /\ u \in availableTags'[d] <=>
              (d = e /\ u = t) \/ u \in availableTags[d]
  BY <1>1, <1>2 DEF Inv1, TypeOK
<1>8. TagsConserved'
  BY <1>1, <1>3, <1>4, <1>7, NoneAssumption DEF Inv1, TagsConserved, TypeOK
<1>9. NoDanglingMessage'
  <2>1. ASSUME NEW c \in Calls, NEW d \in Eids, c \in queuedMessages'[d]
        PROVE  result'[c] = "waiting" /\ message'[c].dest = d /\ message'[c].tag = None
    BY <1>1, <1>2, <1>3, <1>4, <2>1, NoneAssumption DEF Inv1, NoDanglingMessage
  <2>2. ASSUME NEW c \in Calls, result'[c] = "waiting", message'[c].tag # None
        PROVE  transmittedMessages'[message'[c].dest][message'[c].tag] = c
    <3>1. c # m /\ message'[c] = message[c] /\ result[c] = "waiting"
      BY <1>1, <1>4, <2>2
    <3>2. message[c].dest \in Eids /\ message[c].tag \in Tags
      BY <2>2, <3>1 DEF Inv1, CallsOK, TypeOK, Message
    <3>3. transmittedMessages[message[c].dest][message[c].tag] = c
      BY <1>2, <2>2, <3>1 DEF Inv1, NoDanglingMessage
    <3>4. <<message[c].dest, message[c].tag>> # <<e, t>>
      BY <3>1, <3>3 DEF m, Holder, e, t
    <3> QED BY <1>7, <3>1, <3>2, <3>3, <3>4
  <2>3. ASSUME NEW c \in Calls, NEW d \in Eids, message'[c].response # None
        PROVE  message'[c].tag = None /\ c \notin queuedMessages'[d]
    BY <1>1, <1>2, <1>3, <1>4, <2>3, NoneAssumption DEF Inv1, NoDanglingMessage
  <2> QED BY <2>1, <2>2, <2>3 DEF NoDanglingMessage
<1> QED BY <1>5, <1>6, <1>8, <1>9 DEF Inv1

LEMMA Inv1ReturnTimedOut ==
    ASSUME Inv1, NEW c \in Calls, ReturnTimedOut(c)
    PROVE  Inv1'
<1> DEFINE e == message[c].dest
           t == message[c].tag
<1>1. /\ result[c] = "waiting"
      /\ queuedMessages' = [queuedMessages EXCEPT ![e] = @ \ {c}]
      /\ availableTags' = [availableTags EXCEPT ![e] =
                              IF t = None THEN @ ELSE @ \cup {t}]
      /\ transmittedMessages' =
             IF t = None THEN transmittedMessages
             ELSE [transmittedMessages EXCEPT ![e][t] = None]
      /\ timer' = [timer EXCEPT ![c] = "unset"]
      /\ result' = [result EXCEPT ![c] = "timed_out"]
      /\ message' = message /\ peer' = peer
      /\ msgCounter' = msgCounter /\ posted' = posted
  BY DEF ReturnTimedOut, Dispose
<1>2. e \in Eids /\ t \in Tags \cup {None}
  BY <1>1 DEF Inv1, CallsOK, TypeOK, Message
<1>3. t # None => transmittedMessages[e][t] = c
  BY <1>1, <1>2 DEF Inv1, NoDanglingMessage
<1> HIDE DEF e, t
<1>4. TypeOK'
  <2>1. /\ availableTags' \in [Eids -> SUBSET Tags]
        /\ transmittedMessages' \in [Eids -> [Tags -> Calls \cup {None}]]
        /\ queuedMessages' \in [Eids -> SUBSET Calls]
    BY <1>1, <1>2 DEF Inv1, TypeOK
  <2> QED BY <1>1, <2>1 DEF Inv1, TypeOK, Results
<1>5. \A d \in Eids : queuedMessages'[d] \subseteq queuedMessages[d]
  BY <1>1 DEF Inv1, TypeOK
<1>6. CallsOK'
  BY <1>1, <1>5 DEF Inv1, CallsOK, TypeOK
<1>7. \A d \in Eids, u \in Tags :
        /\ transmittedMessages'[d][u] =
              IF d = e /\ u = t THEN None ELSE transmittedMessages[d][u]
        /\ u \in availableTags'[d] <=>
              (d = e /\ u = t) \/ u \in availableTags[d]
  BY <1>1, <1>2, NoneAssumption DEF Inv1, TypeOK
<1>8. TagsConserved'
  <2> SUFFICES ASSUME NEW d \in Eids, NEW u \in Tags
               PROVE  LET m == transmittedMessages'[d][u]
                      IN  /\ u \in availableTags'[d] <=> m = None
                          /\ m # None => /\ message'[m].dest = d
                                         /\ message'[m].tag = u
                                         /\ result'[m] = "waiting"
    BY DEF TagsConserved
  <2>1. CASE d = e /\ u = t
    BY <1>7, <2>1
  <2>2. CASE ~(d = e /\ u = t)
    <3>1. /\ transmittedMessages'[d][u] = transmittedMessages[d][u]
          /\ u \in availableTags'[d] <=> u \in availableTags[d]
      BY <1>7, <2>2
    <3>2. transmittedMessages[d][u] # c
      BY <1>1, <2>2, NoneAssumption DEF Inv1, TagsConserved, e, t
    <3> QED BY <1>1, <3>1, <3>2 DEF Inv1, TagsConserved, TypeOK
  <2> QED BY <2>1, <2>2
<1>9. NoDanglingMessage'
  <2>1. ASSUME NEW x \in Calls, NEW d \in Eids, x \in queuedMessages'[d]
        PROVE  result'[x] = "waiting" /\ message'[x].dest = d /\ message'[x].tag = None
    <3>1. x \in queuedMessages[d] /\ message[x].dest = d
      BY <1>5, <2>1 DEF Inv1, NoDanglingMessage
    <3>2. x # c
      BY <1>1, <1>2, <2>1, <3>1 DEF Inv1, TypeOK, e
    <3> QED BY <1>1, <3>1, <3>2 DEF Inv1, NoDanglingMessage, TypeOK
  <2>2. ASSUME NEW x \in Calls, result'[x] = "waiting", message'[x].tag # None
        PROVE  transmittedMessages'[message'[x].dest][message'[x].tag] = x
    <3>1. x # c /\ message'[x] = message[x] /\ result[x] = "waiting"
      BY <1>1, <2>2 DEF Inv1, TypeOK
    <3>2. message[x].dest \in Eids /\ message[x].tag \in Tags
      BY <2>2, <3>1 DEF Inv1, CallsOK, TypeOK, Message
    <3>3. transmittedMessages[message[x].dest][message[x].tag] = x
      BY <1>2, <2>2, <3>1 DEF Inv1, NoDanglingMessage
    <3> QED BY <1>3, <1>7, <3>1, <3>2, <3>3, NoneAssumption
  <2>3. ASSUME NEW x \in Calls, NEW d \in Eids, message'[x].response # None
        PROVE  message'[x].tag = None /\ x \notin queuedMessages'[d]
    BY <1>1, <1>5, <2>3 DEF Inv1, NoDanglingMessage
  <2> QED BY <2>1, <2>2, <2>3 DEF NoDanglingMessage
<1> QED BY <1>4, <1>6, <1>8, <1>9 DEF Inv1

LEMMA Inv1Next == Inv1 /\ [Next]_vars => Inv1'
<1> SUFFICES ASSUME Inv1, [Next]_vars
             PROVE  Inv1'
  OBVIOUS
<1>1. ASSUME NEW c \in Calls, NEW e \in Eids, SendReceive(c, e)
      PROVE  Inv1'
  BY <1>1, Inv1SendReceive
<1>2. ASSUME NEW r \in Calls, Receive(r)
      PROVE  Inv1'
  BY <1>2, Inv1Receive
<1>3. ASSUME NEW r \in Calls, ReceiveUnmatched(r)
      PROVE  Inv1'
  BY <1>3
  DEF ReceiveUnmatched, queue, Inv1, TypeOK, CallsOK, TagsConserved,
      NoDanglingMessage
<1>4. ASSUME NEW e \in Eids, PostedTransmit(e)
      PROVE  Inv1'
  BY <1>4, Inv1Posted
<1>5. ASSUME NEW c \in Calls, TimerExpires(c)
      PROVE  Inv1'
  BY <1>5
  DEF TimerExpires, queue, Inv1, TypeOK, CallsOK, TagsConserved,
      NoDanglingMessage
<1>6. ASSUME NEW c \in Calls, ReturnResponse(c)
      PROVE  Inv1'
  <2>1. /\ result[c] = "waiting" /\ message[c].response # None
        /\ result' = [result EXCEPT ![c] = "returned"]
        /\ timer' = [timer EXCEPT ![c] = "unset"]
        /\ UNCHANGED <<availableTags, transmittedMessages, queuedMessages,
                       msgCounter, message, posted, peer>>
    BY <1>6 DEF ReturnResponse, queue
  <2>2. message[c].tag = None /\ \A e \in Eids : c \notin queuedMessages[e]
    <3>1. message[c].dest \in Eids
      BY <2>1 DEF Inv1, CallsOK
    <3> QED BY <2>1, <3>1 DEF Inv1, NoDanglingMessage
  <2>3. TypeOK'
    BY <2>1 DEF Inv1, TypeOK, Results
  <2>4. CallsOK'
    BY <2>1 DEF Inv1, TypeOK, CallsOK
  <2>5. TagsConserved'
    <3>1. \A e \in Eids, t \in Tags : transmittedMessages[e][t] # c
      BY <2>2, NoneAssumption DEF Inv1, TagsConserved
    <3> QED BY <2>1, <3>1 DEF Inv1, TypeOK, TagsConserved
  <2>6. NoDanglingMessage'
    BY <2>1, <2>2 DEF Inv1, TypeOK, NoDanglingMessage
  <2> QED BY <2>3, <2>4, <2>5, <2>6 DEF Inv1
<1>7. ASSUME NEW c \in Calls, ReturnTimedOut(c)
      PROVE  Inv1'
  BY <1>7, Inv1ReturnTimedOut
<1>8. CASE UNCHANGED vars
  BY <1>8
  DEF vars, Inv1, TypeOK, CallsOK, TagsConserved, NoDanglingMessage
<1> QED
  BY <1>1, <1>2, <1>3, <1>4, <1>5, <1>6, <1>7, <1>8 DEF Next

(***************************************************************************)
(* Every reachable state is well typed.                                    *)
(***************************************************************************)
THEOREM TypeCorrect == Spec => []TypeOK
<1>1. Inv1 => TypeOK
  BY DEF Inv1
<1> QED BY <1>1, Inv1Init, Inv1Next, PTL DEF Spec

(***************************************************************************)
(* No tag is lost or held twice, for any number of tags, calls and         *)
(* endpoints and in any order of responses and timeouts.                   *)
(***************************************************************************)
THEOREM TagsAreConserved == Spec => []TagsConserved
<1>1. Inv1 => TagsConserved
  BY DEF Inv1
<1> QED BY <1>1, Inv1Init, Inv1Next, PTL DEF Spec

(***************************************************************************)
(* No message is lost track of.                                            *)
(***************************************************************************)
THEOREM NoMessageDangles == Spec => []NoDanglingMessage
<1>1. Inv1 => NoDanglingMessage
  BY DEF Inv1
<1> QED BY <1>1, Inv1Init, Inv1Next, PTL DEF Spec

-----------------------------------------------------------------------------
(***************************************************************************)
(* What the other invariants need to know of a step that runs the loop:    *)
(* fresh is the call that SendReceive makes, or empty.                     *)
(***************************************************************************)
LoopStep(e, fresh, msgs, sent, tag) ==
    /\ PassEffect(e, queuedMessages[e] \cup fresh, msgs, sent, tag)
    /\ msgs \in [Calls -> Message]
    /\ \A c \in fresh : /\ result[c] = "idle"
                        /\ msgs[c] = [dest |-> e, index |-> msgCounter[e],
                                      tag |-> None, response |-> None]
                        /\ result'[c] = "waiting"
    /\ \A c, d \in fresh : c = d
    /\ \A c \in Calls \ fresh : msgs[c] = message[c] /\ result'[c] = result[c]
    /\ \A d \in Eids : IF d = e /\ fresh # {}
                       THEN msgCounter'[d] = msgCounter[d] + 1
                       ELSE msgCounter'[d] = msgCounter[d]
    /\ \A d \in Eids \ {e} : posted'[d] = posted[d]

LEMMA LoopSteps ==
    ASSUME Inv1, NEW e \in Eids,
           PostedTransmit(e) \/ \E c \in Calls : SendReceive(c, e)
    PROVE  \E fresh \in SUBSET Calls : \E msgs, sent, tag :
              LoopStep(e, fresh, msgs, sent, tag)
<1>1. CASE PostedTransmit(e)
  <2>1. PICK sent, tag : PassEffect(e, queuedMessages[e], message, sent, tag)
    BY <1>1, PostedReady, PassHasEffect DEF Inv1, PostedTransmit
  <2>2. LoopStep(e, {}, message, sent, tag)
    BY <1>1, <2>1 DEF LoopStep, PostedTransmit, Inv1, TypeOK
  <2> QED BY <2>2
<1>2. CASE \E c \in Calls : SendReceive(c, e)
  <2>1. PICK c \in Calls : SendReceive(c, e)
    BY <1>2
  <2>2. /\ result[c] = "idle"
        /\ TransmitQueuedMessages(e, queuedMessages[e] \cup {c}, Fresh(c, e))
        /\ msgCounter' = [msgCounter EXCEPT ![e] = @ + 1]
        /\ result' = [result EXCEPT ![c] = "waiting"]
        /\ posted' = posted
    BY <2>1 DEF SendReceive, Fresh
  <2>3. PICK sent, tag : PassEffect(e, queuedMessages[e] \cup {c}, Fresh(c, e),
                                    sent, tag)
    BY <2>2, SendReceiveReady, PassHasEffect DEF Inv1
  <2>4. LoopStep(e, {c}, Fresh(c, e), sent, tag)
    BY <2>2, <2>3, FreshType DEF LoopStep, Inv1, TypeOK
  <2> QED BY <2>4
<1> QED BY <1>1, <1>2

(***************************************************************************)
(* Order of transmission.                                                  *)
(***************************************************************************)
IndexBelowCounter ==
    \A c \in Calls : result[c] # "idle" =>
        message[c].index < msgCounter[message[c].dest]

Inv2 == IndexBelowCounter /\ SentInOrder

LEMMA Inv2Loop ==
    ASSUME Inv1, Inv1', Inv2, NEW e \in Eids,
           NEW fresh \in SUBSET Calls, NEW msgs, NEW sent, NEW tag,
           LoopStep(e, fresh, msgs, sent, tag)
    PROVE  Inv2'
<1> USE DEF LoopStep
<1>1. \A c \in Calls : /\ message'[c].index = msgs[c].index
                       /\ message'[c].dest = msgs[c].dest
  BY DEF PassEffect, Message
<1>2. IndexBelowCounter'
  <2>1. SUFFICES ASSUME NEW c \in Calls, result'[c] # "idle"
                 PROVE  message'[c].index < msgCounter'[message'[c].dest]
    BY DEF IndexBelowCounter
  <2>2. CASE c \in fresh
    <3>1. message'[c].index = msgCounter[e] /\ message'[c].dest = e
      BY <1>1, <2>2
    <3>2. msgCounter'[e] = msgCounter[e] + 1 /\ msgCounter[e] \in Nat
      BY <2>2 DEF Inv1, TypeOK
    <3> QED BY <3>1, <3>2
  <2>3. CASE c \notin fresh
    <3>1. /\ message[c].dest \in Eids /\ message[c].index \in Nat
          /\ message[c].index < msgCounter[message[c].dest]
      BY <2>1, <2>3 DEF Inv1, TypeOK, CallsOK, Message, Inv2, IndexBelowCounter
    <3>2. /\ message'[c].dest = message[c].dest
          /\ message'[c].index = message[c].index
      BY <1>1, <2>3
    <3>3. \A d \in Eids : /\ msgCounter[d] \in Nat
                          /\ msgCounter'[d] \in {msgCounter[d], msgCounter[d] + 1}
      BY DEF Inv1, TypeOK
    <3> QED BY <3>1, <3>2, <3>3
  <2> QED BY <2>2, <2>3
<1>3. SentInOrder'
  <2> SUFFICES ASSUME NEW f \in Eids, NEW c \in queuedMessages'[f], NEW d \in Calls,
                      message'[d].dest = f, message'[d].index > message'[c].index
               PROVE  peer'[d] = None /\ message'[d].tag = None
    BY DEF SentInOrder
  <2>0. c \in Calls
    BY DEF Inv1, TypeOK
  <2>1. CASE f # e
    <3>1. queuedMessages'[f] = queuedMessages[f]
      BY <2>1 DEF PassEffect, Inv1, TypeOK
    <3>2. result[c] = "waiting" /\ message[c].dest = f
      BY <3>1, <2>0 DEF Inv1, NoDanglingMessage
    <3>3. c \notin fresh /\ msgs[c] = message[c]
      BY <2>0, <3>2
    <3>4. d \notin fresh /\ msgs[d] = message[d]
      BY <1>1, <2>1
    <3>5. d \notin sent
      <4>1. \A x \in queuedMessages[e] : message[x].dest = e
        BY DEF Inv1, NoDanglingMessage, TypeOK
      <4> QED BY <1>1, <2>1, <3>4, <4>1 DEF PassEffect
    <3>6. peer[d] = None /\ message[d].tag = None
      BY <1>1, <2>0, <3>1, <3>3, <3>4 DEF Inv2, SentInOrder
    <3> QED BY <3>4, <3>5, <3>6 DEF PassEffect
  <2>2. CASE f = e
    <3>1. c \in queuedMessages[e] \cup fresh /\ c \notin sent
      BY <2>2 DEF PassEffect
    <3>2. d \notin sent
      <4>1. ASSUME d \in sent
            PROVE  msgs[d].index < msgs[c].index
        BY <2>2, <4>1 DEF PassEffect
      <4> QED BY <1>1, <2>0, <4>1 DEF Message
    <3>3. message'[d] = msgs[d] /\ peer'[d] = peer[d]
      BY <3>2 DEF PassEffect
    <3>4. CASE d \in fresh
      BY <3>3, <3>4 DEF Inv1, CallsOK
    <3>5. CASE d \notin fresh /\ c \in fresh
      <4>1. message[d].dest = e /\ message[d].index > msgCounter[e]
        BY <1>1, <2>2, <3>5, <2>0
      <4>2. result[d] # "idle"
        BY <4>1, NoneAssumption DEF Inv1, CallsOK, NoMessage
      <4>3. message[d].index < msgCounter[e]
        BY <4>1, <4>2 DEF Inv2, IndexBelowCounter
      <4>4. message[d].index \in Nat /\ msgCounter[e] \in Nat
        BY DEF Inv1, TypeOK, Message
      <4> QED BY <4>1, <4>3, <4>4
    <3>6. CASE d \notin fresh /\ c \in queuedMessages[e] /\ c \notin fresh
      <4>1. message[d].dest = e /\ message[d].index > message[c].index
        BY <1>1, <2>2, <3>6, <2>0
      <4> QED BY <3>3, <3>6, <4>1 DEF Inv2, SentInOrder
    <3> QED BY <3>1, <3>4, <3>5, <3>6
  <2> QED BY <2>1, <2>2
<1> QED BY <1>2, <1>3 DEF Inv2

LEMMA Inv2Next == Inv1 /\ Inv1' /\ Inv2 /\ [Next]_vars => Inv2'
<1> SUFFICES ASSUME Inv1, Inv1', Inv2, [Next]_vars
             PROVE  Inv2'
  OBVIOUS
<1>1. CASE \E e \in Eids : PostedTransmit(e) \/ \E c \in Calls : SendReceive(c, e)
  BY <1>1, LoopSteps, Inv2Loop
<1>2. ASSUME NEW r \in Calls, Receive(r)
      PROVE  Inv2'
  <2> DEFINE m == Holder(r)
  <2>1. /\ peer' = [peer EXCEPT ![r] = None]
        /\ queuedMessages' = queuedMessages
        /\ msgCounter' = msgCounter /\ result' = result
        /\ \A c \in Calls \ {m} : message'[c] = message[c]
        /\ message'[m].tag = None /\ message'[m].index = message[m].index
        /\ message'[m].dest = message[m].dest
    BY <1>2, ReceiveFacts
  <2>2. \A c \in Calls : /\ message'[c].index = message[c].index
                         /\ message'[c].dest = message[c].dest
                         /\ (message[c].tag = None => message'[c].tag = None)
                         /\ (peer[c] = None => peer'[c] = None)
    BY <2>1 DEF Inv1, TypeOK
  <2>3. \A e \in Eids : queuedMessages[e] \subseteq Calls
    BY DEF Inv1, TypeOK
  <2>4. IndexBelowCounter'
    BY <2>1, <2>2 DEF Inv2, IndexBelowCounter
  <2>5. SentInOrder'
    <3> SUFFICES ASSUME NEW f \in Eids, NEW c \in queuedMessages[f], NEW d \in Calls,
                        message[d].dest = f, message[d].index > message[c].index
                 PROVE  peer'[d] = None /\ message'[d].tag = None
      BY <2>1, <2>2, <2>3 DEF SentInOrder
    <3>1. peer[d] = None /\ message[d].tag = None
      BY DEF Inv2, SentInOrder
    <3>2. peer'[d] = None
      BY <2>2, <3>1
    <3>3. message'[d].tag = None
      BY <2>2, <3>1
    <3> QED BY <3>2, <3>3
  <2> QED BY <2>4, <2>5 DEF Inv2
<1>3. ASSUME NEW r \in Calls, ReceiveUnmatched(r)
      PROVE  Inv2'
  BY <1>3 DEF ReceiveUnmatched, queue, Inv1, TypeOK, Inv2, IndexBelowCounter,
              SentInOrder
<1>4. ASSUME NEW c \in Calls, TimerExpires(c)
      PROVE  Inv2'
  BY <1>4 DEF TimerExpires, queue, Inv2, IndexBelowCounter, SentInOrder
<1>5. ASSUME NEW c \in Calls, ReturnResponse(c) \/ ReturnTimedOut(c)
      PROVE  Inv2'
  <2>1. /\ message' = message /\ peer' = peer /\ msgCounter' = msgCounter
        /\ result[c] = "waiting"
        /\ result' \in {[result EXCEPT ![c] = "returned"],
                       [result EXCEPT ![c] = "timed_out"]}
        /\ \/ queuedMessages' = queuedMessages
           \/ queuedMessages' = [queuedMessages EXCEPT
                                    ![message[c].dest] = @ \ {c}]
    BY <1>5 DEF ReturnResponse, ReturnTimedOut, Dispose, queue
  <2>2. \A d \in Calls : result'[d] # "idle" => result[d] # "idle"
    BY <2>1 DEF Inv1, TypeOK
  <2>3. \A e \in Eids : queuedMessages'[e] \subseteq queuedMessages[e]
    <3>1. queuedMessages \in [Eids -> SUBSET Calls]
      BY DEF Inv1, TypeOK
    <3>2. CASE queuedMessages' = [queuedMessages EXCEPT
                                    ![message[c].dest] = @ \ {c}]
      BY <3>1, <3>2
    <3> QED BY <2>1, <3>2
  <2>4. IndexBelowCounter'
    BY <2>1, <2>2 DEF Inv2, IndexBelowCounter
  <2>5. SentInOrder'
    <3> SUFFICES ASSUME NEW f \in Eids, NEW x \in queuedMessages'[f], NEW d \in Calls,
                        message[d].dest = f, message[d].index > message[x].index
                 PROVE  peer[d] = None /\ message[d].tag = None
      BY <2>1 DEF SentInOrder
    <3>1. x \in queuedMessages[f]
      BY <2>3
    <3> QED BY <3>1 DEF Inv2, SentInOrder
  <2> QED BY <2>4, <2>5 DEF Inv2
<1>6. CASE UNCHANGED vars
  BY <1>6 DEF vars, Inv2, IndexBelowCounter, SentInOrder
<1> QED BY <1>1, <1>2, <1>3, <1>4, <1>5, <1>6 DEF Next

(***************************************************************************)
(* Requests to one endpoint go out in the order in which they were made.   *)
(***************************************************************************)
THEOREM RequestsKeepOrder == Spec => []SentInOrder
<1>1. Init => Inv2
  BY DEF Init, Inv2, IndexBelowCounter, SentInOrder
<1>2. Inv2 => SentInOrder
  BY DEF Inv2
<1> QED BY <1>1, <1>2, Inv1Init, Inv1Next, Inv2Next, PTL DEF Spec

-----------------------------------------------------------------------------
(***************************************************************************)
(* Where responses go.  A request that an endpoint still holds has not     *)
(* been answered to anybody, and its tag leads back to its own message     *)
(* unless that message has timed out or was given a stray response.        *)
(***************************************************************************)
AnsweredOnce ==
    \A c, r \in Calls : message[c].response = r =>
        /\ result[r] # "idle"
        /\ peer[r] = None
        /\ \A e \in Eids : r \notin queuedMessages[e]

HeldOrStray ==
    \A r \in Calls : peer[r] # None =>
        \/ Holder(r) = r
        \/ result[r] = "timed_out"
        \/ message[r].response # None

Inv3 == AnsweredOnce /\ HeldOrStray /\ OnlyLateResponsesStray

LEMMA Inv3Loop ==
    ASSUME Inv1, Inv1', Inv3, NEW e \in Eids,
           NEW fresh \in SUBSET Calls, NEW msgs, NEW sent, NEW tag,
           LoopStep(e, fresh, msgs, sent, tag)
    PROVE  Inv3'
<1> USE DEF LoopStep
<1>1. \A c \in Calls : /\ message'[c].response = msgs[c].response
                       /\ message'[c].dest = msgs[c].dest
  BY DEF PassEffect, Message
<1>2. \A c \in Calls : message'[c].response = message[c].response
  BY <1>1 DEF Inv1, CallsOK, NoMessage
<1>3. \A c \in Calls : /\ result'[c] = "idle" => result[c] = "idle"
                       /\ result[c] = "timed_out" => result'[c] = "timed_out"
  BY DEF Inv1, TypeOK
<1>4. /\ sent \subseteq queuedMessages[e] \cup fresh
      /\ \A d \in Eids : queuedMessages'[d] \subseteq queuedMessages[d] \cup fresh
  BY ZenonT(40) DEF PassEffect, Inv1, TypeOK
<1>5. AnsweredOnce'
  <2> SUFFICES ASSUME NEW c \in Calls, NEW r \in Calls, message'[c].response = r
               PROVE  /\ result'[r] # "idle"
                      /\ peer'[r] = None
                      /\ \A d \in Eids : r \notin queuedMessages'[d]
    BY DEF AnsweredOnce
  <2>1. message[c].response = r
    BY <1>2
  <2>2. /\ result[r] # "idle" /\ peer[r] = None
        /\ \A d \in Eids : r \notin queuedMessages[d]
    BY <2>1 DEF Inv3, AnsweredOnce
  <2>3. r \notin fresh /\ r \notin sent
    BY <1>4, <2>2
  <2> QED BY <1>3, <1>4, <2>2, <2>3 DEF PassEffect
<1>6. HeldOrStray'
  <2> SUFFICES ASSUME NEW r \in Calls, peer'[r] # None
               PROVE  \/ Holder(r)' = r
                      \/ result'[r] = "timed_out"
                      \/ message'[r].response # None
    BY DEF HeldOrStray
  <2>1. CASE r \in sent
    <3>1. message'[r].dest = e
      <4>1. CASE r \in fresh
        BY <1>1, <4>1
      <4>2. CASE r \notin fresh
        BY <1>1, <1>4, <2>1, <4>2 DEF Inv1, NoDanglingMessage
      <4> QED BY <4>1, <4>2
    <3>2. peer'[r] = tag[r] /\ tag[r] \in availableTags[e] /\ tag[r] \in Tags
      BY <2>1 DEF PassEffect, Inv1, TypeOK
    <3>3. transmittedMessages'[e][tag[r]] = r
      BY <2>1, <3>2 DEF PassEffect, Inv1, TagsConserved
    <3> QED BY <3>1, <3>2, <3>3 DEF Holder
  <2>2. CASE r \notin sent
    <3>1. peer'[r] = peer[r] /\ peer[r] # None
      BY <2>2 DEF PassEffect
    <3>2. result[r] # "idle" /\ r \notin fresh
      BY <3>1 DEF Inv1, CallsOK
    <3>3. message'[r].dest = message[r].dest
      BY <1>1, <3>2
    <3>4. CASE Holder(r) = r
      <4>1. message[r].dest \in Eids /\ peer[r] \in Tags
        BY <3>1, <3>2 DEF Inv1, CallsOK, TypeOK
      <4>2. CASE message[r].dest = e
        <5>1. peer[r] \notin availableTags[e]
          BY <3>4, <4>1, <4>2, NoneAssumption DEF Inv1, TagsConserved, Holder
        <5>2. \A c \in sent : tag[c] # peer[r]
          BY <5>1 DEF PassEffect
        <5>3. transmittedMessages'[e][peer[r]] = transmittedMessages[e][peer[r]]
          BY <4>1, <5>2 DEF PassEffect
        <5> QED BY <3>1, <3>3, <3>4, <4>2, <5>3 DEF Holder
      <4>3. CASE message[r].dest # e
        <5>1. transmittedMessages'[message[r].dest]
                = transmittedMessages[message[r].dest]
          BY <4>1, <4>3 DEF PassEffect, Inv1, TypeOK
        <5> QED BY <3>1, <3>3, <3>4, <5>1 DEF Holder
      <4> QED BY <4>2, <4>3
    <3>5. CASE result[r] = "timed_out" \/ message[r].response # None
      BY <1>2, <1>3, <3>5
    <3> QED BY <3>1, <3>4, <3>5 DEF Inv3, HeldOrStray
  <2> QED BY <2>1, <2>2
<1>7. OnlyLateResponsesStray'
  BY <1>2, <1>3 DEF Inv3, OnlyLateResponsesStray
<1> QED BY <1>5, <1>6, <1>7 DEF Inv3

LEMMA Inv3Receive ==
    ASSUME Inv1, Inv3, NEW r \in Calls, Receive(r)
    PROVE  Inv3'
<1> DEFINE m == Holder(r)
<1>1. /\ message[r].dest \in Eids /\ peer[r] \in Tags /\ peer[r] # None
      /\ m \in Calls /\ m = Holder(r)
      /\ message[m].tag = peer[r] /\ message[m].dest = message[r].dest
      /\ transmittedMessages' =
            [transmittedMessages EXCEPT ![message[r].dest][peer[r]] = None]
      /\ peer' = [peer EXCEPT ![r] = None]
      /\ queuedMessages' = queuedMessages /\ result' = result
      /\ message'[m].response = r /\ message'[m].dest = message[m].dest
      /\ \A c \in Calls \ {m} : message'[c] = message[c]
      /\ result[m] = "waiting"
  BY ReceiveFacts
<1> HIDE DEF m
<1>2. \A c \in Calls : message[c].response # r
  BY <1>1 DEF Inv3, AnsweredOnce
<1>3. result[r] # "idle" /\ \A e \in Eids : r \notin queuedMessages[e]
  <2>1. result[r] # "idle"
    BY <1>1 DEF Inv1, CallsOK
  <2>2. ASSUME NEW e \in Eids, r \in queuedMessages[e]
        PROVE  FALSE
    <3>1. result[r] = "waiting" /\ message[r].tag = None /\ message[r].response = None
      BY <2>2 DEF Inv1, NoDanglingMessage
    <3>2. Holder(r) = r
      BY <1>1, <3>1 DEF Inv3, HeldOrStray
    <3> QED BY <1>1, <3>1, <3>2
  <2> QED BY <2>1, <2>2
<1>4. \A c \in Calls : c # r => peer'[c] = peer[c]
  BY <1>1 DEF Inv1, TypeOK
<1>5. AnsweredOnce'
  <2> SUFFICES ASSUME NEW c \in Calls, NEW x \in Calls, message'[c].response = x
               PROVE  /\ result'[x] # "idle"
                      /\ peer'[x] = None
                      /\ \A e \in Eids : x \notin queuedMessages'[e]
    BY DEF AnsweredOnce
  <2>1. CASE c = m
    <3>1. x = r
      BY <1>1, <2>1
    <3> QED BY <1>1, <1>3, <3>1 DEF Inv1, TypeOK
  <2>2. CASE c # m
    <3>1. message[c].response = x
      BY <1>1, <2>2
    <3>2. x # r
      BY <1>2, <3>1
    <3> QED BY <1>1, <1>4, <3>1, <3>2 DEF Inv3, AnsweredOnce
  <2> QED BY <2>1, <2>2
<1>6. HeldOrStray'
  <2> SUFFICES ASSUME NEW x \in Calls, peer'[x] # None
               PROVE  \/ Holder(x)' = x
                      \/ result'[x] = "timed_out"
                      \/ message'[x].response # None
    BY DEF HeldOrStray
  <2>1. x # r /\ peer'[x] = peer[x]
    BY <1>1, <1>4 DEF Inv1, TypeOK
  <2>2. CASE x = m
    BY <1>1, <2>2, NoneAssumption
  <2>3. CASE x # m
    <3>1. message'[x] = message[x]
      BY <1>1, <2>3
    <3>2. CASE Holder(x) = x
      <4>1. message[x].dest \in Eids /\ peer[x] \in Tags
        BY <2>1 DEF Inv1, CallsOK, TypeOK
      <4>2. <<message[x].dest, peer[x]>> # <<message[r].dest, peer[r]>>
        BY <1>1, <2>3, <3>2 DEF Holder
      <4>3. transmittedMessages'[message[x].dest][peer[x]]
              = transmittedMessages[message[x].dest][peer[x]]
        BY <1>1, <4>1, <4>2 DEF Inv1, TypeOK
      <4> QED BY <2>1, <3>1, <3>2, <4>3 DEF Holder
    <3> QED BY <1>1, <2>1, <3>1, <3>2 DEF Inv3, HeldOrStray
  <2> QED BY <2>2, <2>3
<1>7. OnlyLateResponsesStray'
  <2> SUFFICES ASSUME NEW c \in Calls, NEW d \in Calls,
                      message'[c].response = d, c # d
               PROVE  \/ result'[d] = "timed_out"
                      \/ message'[d].response \notin {None, d}
    BY DEF OnlyLateResponsesStray
  <2>1. CASE c = m
    <3>1. d = r /\ m # r
      BY <1>1, <2>1
    <3>2. \/ result[r] = "timed_out"
          \/ message[r].response # None
      BY <1>1, <3>1 DEF Inv3, HeldOrStray
    <3>3. message'[r] = message[r] /\ message[r].response # r
      BY <1>1, <1>2, <3>1
    <3> QED BY <1>1, <3>1, <3>2, <3>3
  <2>2. CASE c # m
    <3>1. message[c].response = d
      BY <1>1, <2>2
    <3>2. \/ result[d] = "timed_out"
          \/ message[d].response \notin {None, d}
      BY <3>1 DEF Inv3, OnlyLateResponsesStray
    <3>3. d # r
      BY <1>2, <3>1
    <3>4. CASE d = m
      BY <1>1, <3>3, <3>4, NoneAssumption
    <3>5. CASE d # m
      BY <1>1, <3>2, <3>5
    <3> QED BY <3>4, <3>5
  <2> QED BY <2>1, <2>2
<1> QED BY <1>5, <1>6, <1>7 DEF Inv3

LEMMA Inv3Next == Inv1 /\ Inv1' /\ Inv3 /\ [Next]_vars => Inv3'
<1> SUFFICES ASSUME Inv1, Inv1', Inv3, [Next]_vars
             PROVE  Inv3'
  OBVIOUS
<1>1. CASE \E e \in Eids : PostedTransmit(e) \/ \E c \in Calls : SendReceive(c, e)
  BY <1>1, LoopSteps, Inv3Loop
<1>2. ASSUME NEW r \in Calls, Receive(r)
      PROVE  Inv3'
  BY <1>2, Inv3Receive
<1>3. ASSUME NEW r \in Calls, ReceiveUnmatched(r)
      PROVE  Inv3'
  <2>1. /\ peer' = [peer EXCEPT ![r] = None]
        /\ message' = message /\ result' = result
        /\ queuedMessages' = queuedMessages
        /\ transmittedMessages' = transmittedMessages
    BY <1>3 DEF ReceiveUnmatched, queue
  <2>2. \A c \in Calls : peer'[c] = IF c = r THEN None ELSE peer[c]
    BY <2>1 DEF Inv1, TypeOK
  <2>3. AnsweredOnce'
    BY <2>1, <2>2 DEF Inv3, AnsweredOnce
  <2>4. HeldOrStray'
    BY <2>1, <2>2 DEF Inv3, HeldOrStray, Holder
  <2> QED
    BY <2>1, <2>3, <2>4 DEF Inv3, OnlyLateResponsesStray
<1>4. ASSUME NEW c \in Calls, TimerExpires(c)
      PROVE  Inv3'
  BY <1>4 DEF TimerExpires, queue, Inv3, AnsweredOnce, HeldOrStray, Holder,
              OnlyLateResponsesStray
<1>5. ASSUME NEW c \in Calls, ReturnResponse(c)
      PROVE  Inv3'
  <2>1. /\ result' = [result EXCEPT ![c] = "returned"] /\ result[c] = "waiting"
        /\ message' = message /\ peer' = peer
        /\ queuedMessages' = queuedMessages
        /\ transmittedMessages' = transmittedMessages
    BY <1>5 DEF ReturnResponse, queue
  <2>2. \A d \in Calls : /\ result'[d] = "idle" => result[d] = "idle"
                         /\ result[d] = "timed_out" => result'[d] = "timed_out"
    BY <2>1 DEF Inv1, TypeOK
  <2>3. AnsweredOnce'
    BY <2>1, <2>2 DEF Inv3, AnsweredOnce
  <2>4. HeldOrStray'
    BY <2>1, <2>2 DEF Inv3, HeldOrStray, Holder
  <2> QED
    BY <2>1, <2>2, <2>3, <2>4 DEF Inv3, OnlyLateResponsesStray
<1>6. ASSUME NEW c \in Calls, ReturnTimedOut(c)
      PROVE  Inv3'
  <2> DEFINE e == message[c].dest
             t == message[c].tag
  <2>1. /\ result[c] = "waiting"
        /\ result' = [result EXCEPT ![c] = "timed_out"]
        /\ message' = message /\ peer' = peer
        /\ queuedMessages' = [queuedMessages EXCEPT ![e] = @ \ {c}]
        /\ transmittedMessages' =
             IF t = None THEN transmittedMessages
             ELSE [transmittedMessages EXCEPT ![e][t] = None]
    BY <1>6 DEF ReturnTimedOut, Dispose
  <2>2. \A d \in Calls : /\ result'[d] = "idle" => result[d] = "idle"
                         /\ result[d] = "timed_out" => result'[d] = "timed_out"
    BY <2>1 DEF Inv1, TypeOK
  <2>3. \A d \in Eids : queuedMessages'[d] \subseteq queuedMessages[d]
    BY <2>1 DEF Inv1, TypeOK
  <2>4. AnsweredOnce'
    BY <2>1, <2>2, <2>3 DEF Inv3, AnsweredOnce
  <2>5. HeldOrStray'
    <3> SUFFICES ASSUME NEW r \in Calls, peer[r] # None
                 PROVE  \/ Holder(r)' = r
                        \/ result'[r] = "timed_out"
                        \/ message[r].response # None
      BY <2>1 DEF HeldOrStray
    <3>1. CASE r = c
      BY <2>1, <3>1 DEF Inv1, TypeOK
    <3>2. CASE r # c /\ Holder(r) = r
      <4>1. message[r].dest \in Eids /\ peer[r] \in Tags
        BY DEF Inv1, CallsOK, TypeOK
      <4>2. ASSUME t # None
            PROVE  <<message[r].dest, peer[r]>> # <<e, t>>
        <5>1. e \in Eids
          BY <2>1 DEF Inv1, CallsOK
        <5>2. transmittedMessages[e][t] = c
          BY <2>1, <4>2, <5>1 DEF Inv1, NoDanglingMessage
        <5> QED BY <3>2, <5>2 DEF Holder
      <4>3. transmittedMessages'[message[r].dest][peer[r]] = Holder(r)
        BY <2>1, <4>1, <4>2 DEF Inv1, TypeOK, Holder
      <4> QED BY <2>1, <3>2, <4>3 DEF Holder
    <3> QED BY <2>2, <3>1, <3>2 DEF Inv3, HeldOrStray
  <2> QED
    BY <2>1, <2>2, <2>4, <2>5 DEF Inv3, OnlyLateResponsesStray
<1>7. CASE UNCHANGED vars
  BY <1>7 DEF vars, Inv3, AnsweredOnce, HeldOrStray, Holder,
              OnlyLateResponsesStray
<1> QED BY <1>1, <1>2, <1>3, <1>4, <1>5, <1>6, <1>7 DEF Next

LEMMA Inv3Init == Init => Inv3
  BY NoneAssumption
  DEF Init, Inv3, AnsweredOnce, HeldOrStray, OnlyLateResponsesStray, NoMessage

(***************************************************************************)
(* A call is given another call's response only if that other call timed   *)
(* out, or was itself given a stray response first.                        *)
(***************************************************************************)
THEOREM StraysAreLate == Spec => []OnlyLateResponsesStray
<1>1. Inv3 => OnlyLateResponsesStray
  BY DEF Inv3
<1> QED BY <1>1, Inv1Init, Inv1Next, Inv3Init, Inv3Next, PTL DEF Spec

(***************************************************************************)
(* A response is never replaced, and a call that has ended is left alone,  *)
(* by the loop and by responses that come late.                            *)
(***************************************************************************)
Final ==
    \A c \in Calls :
        /\ message[c].response # None =>
              message'[c].response = message[c].response
        /\ result[c] \in {"returned", "timed_out"} =>
              message'[c] = message[c] /\ result'[c] = result[c]

LEMMA FinalLoop ==
    ASSUME Inv1, NEW e \in Eids,
           NEW fresh \in SUBSET Calls, NEW msgs, NEW sent, NEW tag,
           LoopStep(e, fresh, msgs, sent, tag)
    PROVE  Final
<1> SUFFICES ASSUME NEW c \in Calls
             PROVE  /\ message[c].response # None =>
                          message'[c].response = message[c].response
                    /\ result[c] \in {"returned", "timed_out"} =>
                          message'[c] = message[c] /\ result'[c] = result[c]
  BY DEF Final
<1>1. message'[c].response = msgs[c].response
  BY DEF LoopStep, PassEffect, Message
<1>2. CASE c \in fresh
  BY <1>1, <1>2 DEF LoopStep, Inv1, CallsOK, NoMessage
<1>3. CASE c \notin fresh
  <2>1. msgs[c] = message[c] /\ result'[c] = result[c]
    BY <1>3 DEF LoopStep
  <2>2. c \in sent => result[c] = "waiting"
    BY <1>3 DEF LoopStep, PassEffect, Inv1, NoDanglingMessage
  <2> QED BY <1>1, <2>1, <2>2 DEF LoopStep, PassEffect
<1> QED BY <1>2, <1>3

LEMMA FinalNext == Inv1 /\ Next => Final
<1> SUFFICES ASSUME Inv1, Next
             PROVE  Final
  OBVIOUS
<1>1. CASE \E e \in Eids : PostedTransmit(e) \/ \E c \in Calls : SendReceive(c, e)
  BY <1>1, LoopSteps, FinalLoop
<1>2. ASSUME NEW r \in Calls, Receive(r)
      PROVE  Final
  <2>1. /\ Holder(r) \in Calls /\ result[Holder(r)] = "waiting"
        /\ message[Holder(r)].tag = peer[r] /\ peer[r] # None
        /\ result' = result
        /\ \A c \in Calls \ {Holder(r)} : message'[c] = message[c]
    BY <1>2, ReceiveFacts
  <2>2. message[Holder(r)].response = None
    BY <2>1, ReceiveFacts, <1>2 DEF Inv1, NoDanglingMessage
  <2> QED BY <2>1, <2>2 DEF Final
<1>3. ASSUME NEW c \in Calls,
             ReceiveUnmatched(c) \/ TimerExpires(c)
      PROVE  Final
  BY <1>3 DEF ReceiveUnmatched, TimerExpires, Final
<1>4. ASSUME NEW c \in Calls, ReturnResponse(c) \/ ReturnTimedOut(c)
      PROVE  Final
  <2>1. message' = message /\ result[c] = "waiting"
        /\ \E x : result' = [result EXCEPT ![c] = x]
    BY <1>4 DEF ReturnResponse, ReturnTimedOut
  <2> QED BY <2>1 DEF Final, Inv1, TypeOK
<1> QED BY <1>1, <1>2, <1>3, <1>4 DEF Next

(***************************************************************************)
(* What a call was given is final (AnswersAreFinal).                       *)
(***************************************************************************)
THEOREM AnswersStay == Spec => AnswersAreFinal
<1>1. Inv1 /\ [Next]_vars =>
        [\A c \in Calls :
            /\ message[c].response # None =>
                  message'[c].response = message[c].response
            /\ result[c] \in {"returned", "timed_out"} =>
                  message'[c] = message[c] /\ result'[c] = result[c]]_vars
  BY FinalNext DEF Final
<1> QED BY <1>1, Inv1Init, Inv1Next, PTL DEF Spec, AnswersAreFinal

-----------------------------------------------------------------------------
(***************************************************************************)
(* While no call to an endpoint has timed out, no message waits for a tag  *)
(* that is free: transmit and the posted handler run the loop to its end,  *)
(* and receive, which frees a tag, posts that handler.                     *)
(***************************************************************************)
Quiet(e) == \A c \in Calls : message[c].dest = e => result[c] # "timed_out"

Busy(e) == queuedMessages[e] = {} \/ availableTags[e] = {} \/ posted[e] > 0

LEMMA IdleLoop ==
    ASSUME Inv1, NoIdleTagWithoutTimeout, NEW e \in Eids,
           NEW fresh \in SUBSET Calls, NEW msgs, NEW sent, NEW tag,
           LoopStep(e, fresh, msgs, sent, tag)
    PROVE  NoIdleTagWithoutTimeout'
<1> SUFFICES ASSUME NEW d \in Eids, Quiet(d)'
             PROVE  Busy(d)'
  BY DEF NoIdleTagWithoutTimeout, Quiet, Busy
<1>1. CASE d = e
  BY <1>1 DEF LoopStep, PassEffect, Busy
<1>2. CASE d # e
  <2>1. /\ queuedMessages'[d] = queuedMessages[d]
        /\ availableTags'[d] = availableTags[d]
        /\ posted'[d] = posted[d]
    BY <1>2 DEF LoopStep, PassEffect, Inv1, TypeOK
  <2>2. \A c \in Calls \ fresh : /\ message'[c].dest = message[c].dest
                                 /\ result'[c] = result[c]
    BY DEF LoopStep, PassEffect, Message
  <2>3. Quiet(d)
    <3> SUFFICES ASSUME NEW c \in Calls, message[c].dest = d
                 PROVE  result[c] # "timed_out"
      BY DEF Quiet
    <3>1. CASE c \in fresh
      BY <3>1 DEF LoopStep
    <3>2. CASE c \notin fresh
      BY <2>2, <3>2 DEF Quiet
    <3> QED BY <3>1, <3>2
  <2> QED BY <2>1, <2>3 DEF NoIdleTagWithoutTimeout, Quiet, Busy
<1> QED BY <1>1, <1>2

LEMMA IdleNext ==
    Inv1 /\ NoIdleTagWithoutTimeout /\ [Next]_vars => NoIdleTagWithoutTimeout'
<1> SUFFICES ASSUME Inv1, NoIdleTagWithoutTimeout, [Next]_vars
             PROVE  NoIdleTagWithoutTimeout'
  OBVIOUS
<1>1. CASE \E e \in Eids : PostedTransmit(e) \/ \E c \in Calls : SendReceive(c, e)
  BY <1>1, LoopSteps, IdleLoop
<1>2. ASSUME NEW r \in Calls, Receive(r)
      PROVE  NoIdleTagWithoutTimeout'
  <2> SUFFICES ASSUME NEW d \in Eids, Quiet(d)'
               PROVE  Busy(d)'
    BY DEF NoIdleTagWithoutTimeout, Quiet, Busy
  <2> DEFINE m == Holder(r)
             e == message[r].dest
  <2>1. /\ e \in Eids /\ m \in Calls /\ message'[m].dest = message[m].dest
        /\ \A c \in Calls \ {m} : message'[c] = message[c]
        /\ availableTags' = [availableTags EXCEPT ![e] = @ \cup {peer[r]}]
        /\ posted' = [posted EXCEPT ![e] = @ + 1]
        /\ queuedMessages' = queuedMessages /\ result' = result
    BY <1>2, ReceiveFacts
  <2> HIDE DEF m, e
  <2>2. CASE d = e
    BY <2>1, <2>2 DEF Busy, Inv1, TypeOK
  <2>3. CASE d # e
    <3>1. Busy(d)' <=> Busy(d)
      BY <2>1, <2>3 DEF Busy, Inv1, TypeOK
    <3>2. Quiet(d)
      BY <2>1 DEF Quiet
    <3> QED BY <3>1, <3>2 DEF NoIdleTagWithoutTimeout, Quiet, Busy
  <2> QED BY <2>2, <2>3
<1>3. ASSUME NEW c \in Calls, ReturnTimedOut(c)
      PROVE  NoIdleTagWithoutTimeout'
  <2> SUFFICES ASSUME NEW d \in Eids, Quiet(d)'
               PROVE  Busy(d)'
    BY DEF NoIdleTagWithoutTimeout, Quiet, Busy
  <2> DEFINE e == message[c].dest
  <2>1. /\ message' = message /\ posted' = posted
        /\ result' = [result EXCEPT ![c] = "timed_out"]
        /\ queuedMessages' = [queuedMessages EXCEPT ![e] = @ \ {c}]
        /\ availableTags' = [availableTags EXCEPT ![e] =
              IF message[c].tag = None THEN @ ELSE @ \cup {message[c].tag}]
    BY <1>3 DEF ReturnTimedOut, Dispose
  <2>2. result'[c] = "timed_out"
    BY <2>1 DEF Inv1, TypeOK
  <2>3. d # e
    BY <2>1, <2>2 DEF Quiet
  <2>4. Busy(d)' <=> Busy(d)
    BY <2>1, <2>3 DEF Busy, Inv1, TypeOK
  <2>5. Quiet(d)
    BY <2>1 DEF Quiet, Inv1, TypeOK
  <2> QED BY <2>4, <2>5 DEF NoIdleTagWithoutTimeout, Quiet, Busy
<1>4. ASSUME NEW c \in Calls, ReturnResponse(c)
      PROVE  NoIdleTagWithoutTimeout'
  <2>1. /\ message' = message /\ posted' = posted
        /\ queuedMessages' = queuedMessages /\ availableTags' = availableTags
        /\ result' = [result EXCEPT ![c] = "returned"] /\ result[c] = "waiting"
    BY <1>4 DEF ReturnResponse, queue
  <2>2. \A d \in Calls : result[d] = "timed_out" => result'[d] = "timed_out"
    BY <2>1 DEF Inv1, TypeOK
  <2> QED BY <2>1, <2>2 DEF NoIdleTagWithoutTimeout
<1>5. ASSUME NEW c \in Calls, ReceiveUnmatched(c) \/ TimerExpires(c)
      PROVE  NoIdleTagWithoutTimeout'
  BY <1>5 DEF ReceiveUnmatched, TimerExpires, queue, NoIdleTagWithoutTimeout
<1>6. CASE UNCHANGED vars
  BY <1>6 DEF vars, NoIdleTagWithoutTimeout
<1> QED BY <1>1, <1>2, <1>3, <1>4, <1>5, <1>6 DEF Next

(***************************************************************************)
(* Until a call to an endpoint times out, no message for it waits while a  *)
(* tag is free and nothing is posted to send it.                           *)
(***************************************************************************)
THEOREM NoTagIdlesWithoutTimeout == Spec => []NoIdleTagWithoutTimeout
<1>1. Init => NoIdleTagWithoutTimeout
  BY DEF Init, NoIdleTagWithoutTimeout
<1> QED BY <1>1, Inv1Init, Inv1Next, IdleNext, PTL DEF Spec

-----------------------------------------------------------------------------
(***************************************************************************)
(* TransmissionQueue implements RequestWindow.  The invariant above says   *)
(* where a call's message is in each phase; each step of the queue is one  *)
(* step of the window, or none.                                            *)
(***************************************************************************)

\* The phases, from the state of the message.
LEMMA Phases ==
    /\ Phase = [c \in Calls |-> Phase[c]]
    /\ \A c \in Calls :
         Phase[c] = IF result[c] # "waiting" THEN result[c]
                    ELSE IF message[c].response # None THEN "answered"
                    ELSE IF message[c].tag # None THEN "out"
                    ELSE IF \E e \in Eids : c \in queuedMessages[e] THEN "queued"
                    ELSE "failed"
  BY DEF Phase

\* The line to an endpoint is its queue.
LEMMA LineIsQueue ==
    ASSUME Inv1, NEW e \in Eids
    PROVE  /\ queuedMessages[e] \subseteq Calls
           /\ \A c \in Calls : c \in queuedMessages[e]
                                 <=> message[c].dest = e /\ Phase[c] = "queued"
<1>1. queuedMessages[e] \subseteq Calls
  BY DEF Inv1, TypeOK
<1>2. ASSUME NEW c \in Calls, c \in queuedMessages[e]
      PROVE  message[c].dest = e /\ Phase[c] = "queued"
  BY <1>2, Phases DEF Inv1, NoDanglingMessage
<1>3. ASSUME NEW c \in Calls, message[c].dest = e, Phase[c] = "queued"
      PROVE  c \in queuedMessages[e]
  <2>1. PICK f \in Eids : c \in queuedMessages[f]
    BY <1>3, Phases DEF Inv1, TypeOK, Results
  <2> QED
    BY <1>3, <2>1 DEF Inv1, NoDanglingMessage
<1> QED
  BY <1>1, <1>2, <1>3

\* RequestWindow counts as this module does.
LEMMA SameCardinality == \A S : Abstract!Cardinality(S) = Cardinality(S)
  BY DEF Abstract!Cardinality, Cardinality

\* The requests out at an endpoint have different tags.
WindowKept ==
    \A e \in Eids :
        Cardinality({c \in Calls : message[c].dest = e /\ Phase[c] = "out"})
           <= Cardinality(Tags)

LEMMA AtMostWindow == Inv1 => WindowKept
<1> SUFFICES ASSUME Inv1, NEW e \in Eids
             PROVE  Cardinality({c \in Calls : message[c].dest = e /\ Phase[c] = "out"})
                       <= Cardinality(Tags)
  BY DEF WindowKept
<1> DEFINE S == {c \in Calls : message[c].dest = e /\ Phase[c] = "out"}
           f == [c \in S |-> message[c].tag]
<1>1. ASSUME NEW c \in S
      PROVE  message[c].tag \in Tags /\ transmittedMessages[e][message[c].tag] = c
  BY ZenonT(40), Phases DEF Inv1, TypeOK, Message, NoDanglingMessage, Results
<1>2. f \in Injection(S, Tags)
  <2>1. f \in [S -> Tags]
    BY <1>1
  <2>2. \A c, d \in S : f[c] = f[d] => c = d
    BY <1>1
  <2> HIDE DEF S, f
  <2> QED
    BY <2>1, <2>2 DEF Injection, IsInjective
<1> HIDE DEF f, S
<1>3. Cardinality(S) <= Cardinality(Tags)
  BY <1>2, FiniteTags, FS_Injection
<1> QED
  BY <1>3 DEF S

\* The same after a step.
LEMMA StillAtMostWindow == Inv1' => WindowKept'
  BY AtMostWindow, PTL

\* The phases after a step.
LEMMA PhasesNext ==
    \A c \in Calls :
         Phase'[c] = IF result'[c] # "waiting" THEN result'[c]
                    ELSE IF message'[c].response # None THEN "answered"
                    ELSE IF message'[c].tag # None THEN "out"
                    ELSE IF \E e \in Eids : c \in queuedMessages'[e] THEN "queued"
                    ELSE "failed"
  BY DEF Phase

-----------------------------------------------------------------------------
(***************************************************************************)
(* The loop: the messages of sent go out, those that are neither sent nor  *)
(* queued any more have failed.                                            *)
(***************************************************************************)
LEMMA LoopPhases ==
    ASSUME Inv1, Inv1', NEW e \in Eids,
           NEW fresh \in SUBSET Calls, NEW msgs, NEW sent, NEW tag,
           LoopStep(e, fresh, msgs, sent, tag),
           NEW c \in Calls
    PROVE  /\ message'[c].dest = msgs[c].dest /\ message'[c].index = msgs[c].index
           /\ Phase'[c] = IF c \in sent THEN "out"
                          ELSE IF c \in (queuedMessages[e] \cup fresh) \ queuedMessages'[e]
                               THEN "failed"
                          ELSE IF c \in queuedMessages[e] \cup fresh THEN "queued"
                          ELSE Phase[c]
<1> DEFINE waiting == queuedMessages[e] \cup fresh
<1>1. /\ PassEffect(e, waiting, msgs, sent, tag) /\ msgs \in [Calls -> Message]
      /\ msgs[c] \in Message
  BY DEF LoopStep
<1>2. /\ sent \subseteq waiting
      /\ message'[c] = IF c \in sent THEN [msgs[c] EXCEPT !.tag = tag[c]] ELSE msgs[c]
      /\ \A f \in Eids \ {e} : queuedMessages'[f] = queuedMessages[f]
      /\ queuedMessages'[e] \subseteq waiting \ sent
      /\ c \in sent => tag[c] \in Tags
  BY <1>1 DEF PassEffect, Inv1, TypeOK
<1>3. /\ message'[c].dest = msgs[c].dest /\ message'[c].index = msgs[c].index
      /\ message'[c].response = msgs[c].response
      /\ message'[c].tag = IF c \in sent THEN tag[c] ELSE msgs[c].tag
  BY <1>1, <1>2 DEF Message
<1>4. ASSUME c \in waiting
      PROVE  /\ result'[c] = "waiting" /\ msgs[c].response = None /\ msgs[c].tag = None
             /\ \A f \in Eids \ {e} : c \notin queuedMessages[f]
  BY <1>4 DEF LoopStep, Inv1, NoDanglingMessage, CallsOK
<1>5. CASE c \in sent
  BY <1>2, <1>3, <1>4, <1>5, PhasesNext, NoneAssumption
<1>6. CASE c \in waiting \ sent
  BY <1>2, <1>3, <1>4, <1>6, PhasesNext
<1>7. CASE c \notin waiting
  <2>1. msgs[c] = message[c] /\ result'[c] = result[c]
    BY <1>7 DEF LoopStep
  <2>2. \A f \in Eids : c \in queuedMessages'[f] <=> c \in queuedMessages[f]
    BY <1>2, <1>7
  <2> HIDE DEF waiting
  <2>3. c \notin sent
    BY <1>2, <1>7
  <2>4. Phase'[c] = Phase[c]
    BY <1>3, <2>1, <2>2, <2>3, Phases, PhasesNext
  <2> QED
    BY <1>3, <1>7, <2>3, <2>4 DEF waiting
<1> QED
  BY <1>3, <1>5, <1>6, <1>7

\* A run of the loop is a call made, or a dispatch of the line.
LEMMA LoopRefines ==
    ASSUME Inv1, Inv1', NEW e \in Eids,
           NEW fresh \in SUBSET Calls, NEW msgs, NEW sent, NEW tag,
           LoopStep(e, fresh, msgs, sent, tag)
    PROVE  Abstract!Next
<1> DEFINE waiting == queuedMessages[e] \cup fresh
           failed == waiting \ (sent \cup queuedMessages'[e])
<1>1. /\ sent \in SUBSET waiting /\ failed \in SUBSET (waiting \ sent)
      /\ queuedMessages'[e] \subseteq waiting \ sent
      /\ waiting \subseteq Calls
      /\ \A c \in waiting \ queuedMessages'[e], d \in queuedMessages'[e] :
            msgs[c].index < msgs[d].index
  BY LineIsQueue DEF LoopStep, PassEffect
<1>2. \A c \in Calls :
        /\ message'[c].dest = msgs[c].dest /\ message'[c].index = msgs[c].index
        /\ Phase'[c] = IF c \in sent THEN "out"
                       ELSE IF c \in failed THEN "failed"
                       ELSE IF c \in waiting THEN "queued"
                       ELSE Phase[c]
  <2> SUFFICES ASSUME NEW c \in Calls
               PROVE  /\ message'[c].dest = msgs[c].dest /\ message'[c].index = msgs[c].index
                      /\ Phase'[c] = IF c \in sent THEN "out"
                                     ELSE IF c \in failed THEN "failed"
                                     ELSE IF c \in waiting THEN "queued"
                                     ELSE Phase[c]
    OBVIOUS
  <2> QED
    BY LoopPhases
<1>3. /\ Phase' = [c \in Calls |-> IF c \in sent THEN "out"
                                          ELSE IF c \in failed THEN "failed"
                                          ELSE IF c \in waiting THEN "queued"
                                          ELSE Phase[c]]
      /\ \A c \in sent \cup failed, d \in waiting \ (sent \cup failed) :
            [x \in Calls |-> message[x].index]'[c] < [x \in Calls |-> message[x].index]'[d]
      /\ Abstract!Cardinality({c \in Calls : [x \in Calls |-> message[x].dest]'[c] = e
                                           /\ Phase'[c] = "out"}) <= Cardinality(Tags)
  <2>1. Phase' = [c \in Calls |-> IF c \in sent THEN "out"
                                  ELSE IF c \in failed THEN "failed"
                                  ELSE IF c \in waiting THEN "queued"
                                  ELSE Phase[c]]
    <3>1. Phase' = [c \in Calls |-> Phase'[c]]
      BY DEF Phase
    <3> HIDE DEF waiting, failed
    <3> QED
      BY <1>2, <3>1
  <2>2. \A c \in sent \cup failed, d \in waiting \ (sent \cup failed) :
          message'[c].index < message'[d].index
    BY <1>1, <1>2
  <2>3. Cardinality({c \in Calls : message'[c].dest = e /\ Phase'[c] = "out"})
           <= Cardinality(Tags)
    BY StillAtMostWindow DEF WindowKept
  <2>4. {c \in Calls : [x \in Calls |-> message[x].dest]'[c] = e /\ Phase'[c] = "out"}
          = {c \in Calls : message'[c].dest = e /\ Phase'[c] = "out"}
    OBVIOUS
  <2>5. Abstract!Cardinality({c \in Calls : [x \in Calls |-> message[x].dest]'[c] = e
                                           /\ Phase'[c] = "out"}) <= Cardinality(Tags)
    BY <2>3, <2>4, SameCardinality, Zenon
  <2>6. \A c \in sent \cup failed, d \in waiting \ (sent \cup failed) :
          [x \in Calls |-> message[x].index]'[c] < [x \in Calls |-> message[x].index]'[d]
    BY <1>1, <2>2
  <2> HIDE DEF waiting, failed
  <2> QED
    BY <2>1, <2>5, <2>6
<1>4. Abstract!Line(e) = queuedMessages[e]
  BY LineIsQueue DEF Abstract!Line
<1>5. CASE fresh = {}
  <2>1. waiting = Abstract!Line(e)
    BY <1>4, <1>5
  <2>2. /\ [c \in Calls |-> message[c].dest]' = [c \in Calls |-> message[c].dest]
        /\ [c \in Calls |-> message[c].index]' = [c \in Calls |-> message[c].index]
    <3>1. \A c \in Calls : message'[c].dest = message[c].dest /\ message'[c].index = message[c].index
      BY <1>2, <1>5 DEF LoopStep
    <3> QED
      BY <3>1
  <2>3. msgCounter' = msgCounter
    BY <1>5 DEF LoopStep, Inv1, TypeOK
  <2>4. Abstract!Send(e)
    <3> HIDE DEF waiting, failed
    <3>1. Abstract!Dispatch(e, Abstract!Line(e))
      <4>1. /\ sent \in SUBSET Abstract!Line(e) /\ failed \in SUBSET (Abstract!Line(e) \ sent)
            /\ Phase' = [d \in Calls |-> IF d \in sent THEN "out"
                                         ELSE IF d \in failed THEN "failed"
                                         ELSE IF d \in Abstract!Line(e) THEN "queued"
                                         ELSE Phase[d]]
            /\ \A x \in sent \cup failed, d \in Abstract!Line(e) \ (sent \cup failed) :
                  [y \in Calls |-> message[y].index]'[x] < [y \in Calls |-> message[y].index]'[d]
        BY <1>1, <1>3, <2>1
      <4> USE <4>1 DEF Abstract!Dispatch
      <4> WITNESS sent \in SUBSET Abstract!Line(e)
      <4> WITNESS failed \in SUBSET (Abstract!Line(e) \ sent)
      <4> QED
        BY <1>3, <4>1
    <3> QED
      BY <2>2, <2>3, <3>1, Zenon DEF Abstract!Send
  <2> QED
    BY <2>4 DEF Abstract!Next
<1>6. CASE fresh # {}
  <2>1. PICK c \in fresh : fresh = {c}
    BY <1>6 DEF LoopStep
  <2>2. /\ c \in Calls /\ result[c] = "idle" /\ msgs[c].dest = e /\ msgs[c].index = msgCounter[e]
        /\ \A d \in Calls \ {c} : msgs[d] = message[d]
        /\ \A d \in Eids : msgCounter'[d] = IF d = e THEN msgCounter[d] + 1 ELSE msgCounter[d]
    BY <1>6, <2>1 DEF LoopStep
  <2>3. waiting = Abstract!Line(e) \cup {c}
    BY <1>4, <2>1
  <2>4. Phase[c] = "idle"
    BY <2>2, Phases
  <2>5. msgCounter' = [msgCounter EXCEPT ![e] = @ + 1]
    BY <2>2 DEF Inv1, TypeOK
  <2>6. /\ [d \in Calls |-> message[d].dest]' = [[d \in Calls |-> message[d].dest] EXCEPT ![c] = e]
        /\ [d \in Calls |-> message[d].index]'
             = [[d \in Calls |-> message[d].index] EXCEPT ![c] = msgCounter[e]]
    <3>1. \A d \in Calls :
            /\ message'[d].dest = IF d = c THEN e ELSE message[d].dest
            /\ message'[d].index = IF d = c THEN msgCounter[e] ELSE message[d].index
      <4> HIDE DEF waiting, failed
      <4> QED
        BY <1>2, <2>2
    <3> QED
      BY <3>1
  <2>7. Abstract!Make(c, e)
    <3> HIDE DEF waiting, failed
    <3>1. Abstract!Dispatch(e, Abstract!Line(e) \cup {c})
      <4>1. /\ sent \in SUBSET (Abstract!Line(e) \cup {c}) /\ failed \in SUBSET ((Abstract!Line(e) \cup {c}) \ sent)
            /\ Phase' = [d \in Calls |-> IF d \in sent THEN "out"
                                         ELSE IF d \in failed THEN "failed"
                                         ELSE IF d \in Abstract!Line(e) \cup {c} THEN "queued"
                                         ELSE Phase[d]]
            /\ \A x \in sent \cup failed, d \in (Abstract!Line(e) \cup {c}) \ (sent \cup failed) :
                  [y \in Calls |-> message[y].index]'[x] < [y \in Calls |-> message[y].index]'[d]
        BY <1>1, <1>3, <2>3
      <4> USE <4>1 DEF Abstract!Dispatch
      <4> WITNESS sent \in SUBSET (Abstract!Line(e) \cup {c})
      <4> WITNESS failed \in SUBSET ((Abstract!Line(e) \cup {c}) \ sent)
      <4> QED
        BY <1>3, <4>1
    <3> QED
      BY <2>4, <2>5, <2>6, <3>1, Zenon DEF Abstract!Make
  <2> QED
    BY <2>2, <2>7 DEF Abstract!Next
<1> QED
  BY <1>5, <1>6

-----------------------------------------------------------------------------
(***************************************************************************)
(* The other steps.                                                        *)
(***************************************************************************)
\* A response answers the call whose message holds the tag.
LEMMA ReceiveRefines ==
    ASSUME Inv1, NEW r \in Calls, Receive(r)
    PROVE  Abstract!Next
<1> DEFINE m == Holder(r)
<1>0. /\ message[r].dest \in Eids /\ m \in Calls /\ peer[r] # None
      /\ message[m].dest = message[r].dest /\ message[m].tag = peer[r]
      /\ result[m] = "waiting"
      /\ queuedMessages' = queuedMessages /\ msgCounter' = msgCounter /\ result' = result
      /\ message'[m].dest = message[r].dest /\ message'[m].response = r
      /\ message'[m].index = message[m].index
      /\ \A c \in Calls \ {m} : message'[c] = message[c]
  BY ReceiveFacts, Zenon
<1> HIDE DEF m
<1>1. /\ m \in Calls /\ result[m] = "waiting" /\ message[m].tag # None
      /\ message[m].dest \in Eids /\ result' = result /\ queuedMessages' = queuedMessages
      /\ msgCounter' = msgCounter
      /\ message'[m].response # None
      /\ message'[m].dest = message[m].dest /\ message'[m].index = message[m].index
      /\ \A c \in Calls \ {m} : message'[c] = message[c]
  BY <1>0, NoneAssumption
<1>2. Phase[m] = "out"
  BY <1>1, Phases DEF Inv1, NoDanglingMessage
<1>3. \A c \in Calls : Phase'[c] = IF c = m THEN "answered" ELSE Phase[c]
  BY <1>1, Phases, PhasesNext
<1>4. Phase' = [Phase EXCEPT ![m] = "answered"]
  BY ZenonT(40), <1>1, <1>3 DEF Phase
<1>5. Abstract!Answer(m)
  BY <1>1, <1>2, <1>4 DEF Abstract!Answer
<1> QED
  BY <1>1, <1>5 DEF Abstract!Next

\* A call that resumes returns its response or times out.
LEMMA ReturnRefines ==
    ASSUME Inv1, NEW c \in Calls, ReturnResponse(c) \/ ReturnTimedOut(c)
    PROVE  Abstract!Next
<1>1. /\ message' = message /\ msgCounter' = msgCounter /\ result[c] = "waiting"
      /\ message[c].dest \in Eids
  BY DEF ReturnResponse, ReturnTimedOut, Inv1, CallsOK
<1>2. CASE ReturnResponse(c)
  <2>1. Phase[c] = "answered"
    BY <1>1, <1>2, Phases DEF ReturnResponse
  <2>2. Phase' = [Phase EXCEPT ![c] = "returned"]
    <3>1. /\ queuedMessages' = queuedMessages
          /\ \A d \in Calls : result'[d] = IF d = c THEN "returned" ELSE result[d]
      BY <1>2 DEF ReturnResponse, queue, Inv1, TypeOK
    <3>2. \A d \in Calls : Phase'[d] = IF d = c THEN "returned" ELSE Phase[d]
      BY <1>1, <3>1, Phases, PhasesNext
    <3> QED
      BY <3>2 DEF Phase
  <2> QED
    BY <1>1, <2>1, <2>2 DEF Abstract!Next, Abstract!Return
<1>3. CASE ReturnTimedOut(c)
  <2>1. Phase[c] \in {"queued", "out", "failed"}
    BY <1>1, <1>3, Phases DEF ReturnTimedOut
  <2>2. /\ queuedMessages' = [queuedMessages EXCEPT ![message[c].dest] = @ \ {c}]
        /\ result' = [result EXCEPT ![c] = "timed_out"]
    BY <1>3 DEF ReturnTimedOut, Dispose
  <2>3. \A d \in Calls \ {c} : \A e \in Eids : d \in queuedMessages'[e] <=> d \in queuedMessages[e]
    BY <1>1, <2>2 DEF Inv1, TypeOK
  <2>4. \A d \in Calls : Phase'[d] = IF d = c THEN "timed_out" ELSE Phase[d]
    BY <1>1, <2>2, <2>3, Phases, PhasesNext DEF Inv1, TypeOK
  <2>5. Phase' = [Phase EXCEPT ![c] = "timed_out"]
    BY <2>4 DEF Phase
  <2> QED
    BY <1>1, <2>1, <2>5 DEF Abstract!Next, Abstract!TimeOut
<1> QED
  BY <1>2, <1>3

\* Timers that expire and responses that nobody waits for change no phase.
LEMMA OthersStutter ==
    ASSUME UNCHANGED <<queue, msgCounter, message, result>>
    PROVE  UNCHANGED Abstract!vars
  BY DEF queue, Phase, Abstract!vars

\* Every step of the queue is a step of the window or none.
LEMMA StepRefines == Inv1 /\ Inv1' /\ [Next]_vars => [Abstract!Next]_(Abstract!vars)
<1> SUFFICES ASSUME Inv1, Inv1', [Next]_vars PROVE [Abstract!Next]_(Abstract!vars)
  OBVIOUS
<1>1. CASE \E e \in Eids : PostedTransmit(e) \/ \E c \in Calls : SendReceive(c, e)
  BY <1>1, LoopSteps, LoopRefines
<1>2. CASE \E r \in Calls : Receive(r)
  BY <1>2, ReceiveRefines
<1>3. CASE \E c \in Calls : ReturnResponse(c) \/ ReturnTimedOut(c)
  BY <1>3, ReturnRefines
<1>4. CASE \/ UNCHANGED vars
           \/ \E c \in Calls : ReceiveUnmatched(c) \/ TimerExpires(c)
  <2>1. UNCHANGED <<queue, msgCounter, message, result>>
    BY <1>4 DEF vars, queue, ReceiveUnmatched, TimerExpires
  <2> QED
    BY <2>1, OthersStutter
<1> QED
  BY <1>1, <1>2, <1>3, <1>4 DEF Next

\* Nothing has been called yet.
LEMMA StartRefines == Init => Abstract!Init
<1> SUFFICES ASSUME Init PROVE Abstract!Init
  OBVIOUS
<1>1. \A c \in Calls : Phase[c] = "idle"
  BY Phases DEF Init
<1>2. Phase = [c \in Calls |-> "idle"]
  BY <1>1 DEF Phase
<1> QED
  BY <1>2 DEF Init, Abstract!Init, NoMessage

(***************************************************************************)
(* What mctpd promises a client of SendReceiveMctpMessagePayload: requests *)
(* go out in order, no more than there are tags are outstanding, and each  *)
(* call ends once.  The queue does nothing that the window does not allow. *)
(***************************************************************************)
THEOREM QueueImplementsWindow == Spec => RefinesWindow
<1>1. Spec => []Inv1
  BY Inv1Init, Inv1Next, PTL DEF Spec
<1> QED
  BY <1>1, StartRefines, StepRefines, PTL DEF Spec, RefinesWindow, Abstract!Spec

-----------------------------------------------------------------------------
(***************************************************************************)
(* The control queue.                                                      *)
(*                                                                         *)
(* What configurations must satisfy for the unsigned time left to reach    *)
(* zero without wrapping: the timeout of a request is a whole number of    *)
(* polls, and between two tries there is at least one poll.  In            *)
(* mctpd/configurations/mctp_config.json the delay is 100 or 120 ms and    *)
(* the number of retries 2; a poll is 5 ms.                                *)
(***************************************************************************)
Total == (RetryCount + 1) * RetryDelay

DelaysFit ==
    /\ PollInterval <= RetryDelay
    /\ Total < Word
    /\ \E n \in Nat : Total = n * PollInterval

Pushed(r) == pktState[r] # "none"

PushedInQueue == \A r \in Reqs : r \in ctrlTxQueue <=> pktState[r] = "pushedForTransmission"

\* Nothing is known of a request that was not made.
NotMade ==
    \A r \in Reqs : ~Pushed(r) =>
        atEndpoint[r] = 0 /\ tries[r] = 0 /\ polls[r] = 0 /\ resp[r] = NoResp

\* Instance IDs go round with the requests made.
RoundOfIds ==
    /\ instanceId = made % InstanceIds
    /\ \A r \in Reqs : Pushed(r) =>
          /\ entry[r].place < made
          /\ entry[r].iid = (entry[r].place + 1) % InstanceIds

\* A response was given by its instance ID.
GivenById ==
    \A r, q \in Reqs : resp[r] = q =>
        Pushed(r) /\ Pushed(q) /\ entry[r].iid = entry[q].iid

\* A coroutine is told once what became of its request.
ToldOnce ==
    \A r \in Reqs :
        /\ pktState[r] = "receivedResponse" => resp[r] # NoResp
        /\ pktState[r] \in {"pushedForTransmission", "noResponse"} => resp[r] = NoResp

\* An endpoint answers each copy once.
Copies ==
    \A r \in Reqs : /\ atEndpoint[r] <= tries[r]
                    /\ resp[r] = r => atEndpoint[r] < tries[r]

CtrlInv ==
    /\ CtrlTypeOK
    /\ PushedInQueue /\ NotMade /\ RoundOfIds /\ GivenById /\ ToldOnce /\ Copies

(***************************************************************************)
(* The time left is what the polls have left of the total, and more than   *)
(* the tries still to come will take.                                      *)
(***************************************************************************)
TimeLeft ==
    \A r \in ctrlTxQueue :
        /\ entry[r].maxRespDelay = Total - polls[r] * PollInterval
        /\ entry[r].maxRespDelay > entry[r].retryCount * RetryDelay
        /\ \E n \in Nat \ {0} : entry[r].maxRespDelay = n * PollInterval

TriesCounted ==
    \A r \in Reqs :
        /\ tries[r] <= 1 + RetryCount
        /\ r \in ctrlTxQueue => tries[r] + entry[r].retryCount = 1 + RetryCount
        /\ pktState[r] \in {"noResponse", "returned"} /\ resp[r] = NoResp =>
              tries[r] = 1 + RetryCount

TimeInv == TimeLeft /\ TriesCounted

-----------------------------------------------------------------------------
LEMMA Quotient ==
    ASSUME NEW n \in Nat \ {0}, NEW a \in Int
    PROVE  \E q \in Int : a = n * q + (a % n) /\ a % n \in 0 .. n - 1
<1>1. a \div n \in Int /\ a = n * (a \div n) + (a % n) /\ a % n \in 0 .. n - 1
  OBVIOUS
<1> QED
  BY <1>1

LEMMA Remainder ==
    ASSUME NEW n \in Nat \ {0}, NEW q \in Int, NEW r \in 0 .. n - 1
    PROVE  (n * q + r) % n = r
<1> PICK a \in Int : a = n * q + r
  OBVIOUS
<1> PICK p \in Int : a = n * p + (a % n) /\ a % n \in 0 .. n - 1
  BY Quotient
<1> PICK s : s = a % n
  OBVIOUS
<1>1. s \in 0 .. n - 1 /\ n * q + r = n * p + s
  OBVIOUS
<1>2. n * (q - p) = s - r /\ q - p \in Int /\ s \in Int /\ r \in Int
  BY <1>1
<1> PICK d : d = q - p
  OBVIOUS
<1>3. n * d = s - r /\ d \in Int
  BY <1>2
<1>4. s - r < n /\ s - r > 0 - n
  BY <1>1
<1>5. d = 0
  <2>1. CASE d >= 1
    <3>1. n * d >= n
      BY <1>3, <2>1
    <3> QED
      BY <1>3, <1>4, <3>1
  <2>2. CASE d <= -1
    <3>1. n * (0 - d) >= n
      BY <1>3, <2>2
    <3> QED
      BY <1>3, <1>4, <3>1
  <2> QED
    BY <1>3, <2>1, <2>2
<1>6. s = r
  BY <1>2, <1>3, <1>5
<1> QED
  BY <1>6

\* createInstanceId counts the requests modulo the number of IDs.
LEMMA NextRemainder ==
    ASSUME NEW n \in Nat \ {0}, NEW a \in Nat
    PROVE  ((a % n) + 1) % n = (a + 1) % n
<1>0. a \in Int
  OBVIOUS
<1> PICK q \in Int : a = n * q + (a % n) /\ a % n \in 0 .. n - 1
  BY <1>0, Quotient
<1> PICK b : b = (a % n) + 1
  OBVIOUS
<1>1. b \in Int /\ a + 1 = n * q + b
  OBVIOUS
<1> PICK p \in Int : b = n * p + (b % n) /\ b % n \in 0 .. n - 1
  BY <1>1, Quotient
<1> PICK s : s = b % n
  OBVIOUS
<1>2. a + 1 = n * (q + p) + s /\ q + p \in Int /\ s \in 0 .. n - 1
  BY <1>1
<1>3. (n * (q + p) + s) % n = s
  BY <1>2, Remainder
<1> QED
  BY <1>2, <1>3

\* What has the same remainder is a whole number of rounds apart.
LEMMA SameRemainder ==
    ASSUME NEW n \in Nat \ {0}, NEW a \in Int, NEW b \in Int, a % n = b % n
    PROVE  (a - b) % n = 0
<1> PICK q \in Int : a = n * q + (a % n) /\ a % n \in 0 .. n - 1
  BY Quotient
<1> PICK p \in Int : b = n * p + (b % n)
  BY Quotient
<1>1. a - b = n * (q - p) + 0 /\ q - p \in Int /\ 0 \in 0 .. n - 1
  OBVIOUS
<1>2. (n * (q - p) + 0) % n = 0
  BY <1>1, Remainder
<1> QED
  BY <1>1, <1>2

-----------------------------------------------------------------------------
LEMMA CtrlInitInv == CtrlInit => CtrlInv /\ TimeInv
<1> SUFFICES ASSUME CtrlInit PROVE CtrlInv /\ TimeInv
  OBVIOUS
<1>1. NoEntry \in Entry /\ 0 % InstanceIds = 0
  BY CtrlAssumption DEF NoEntry, Entry
<1>2. CtrlTypeOK
  BY <1>1, CtrlAssumption DEF CtrlInit, CtrlTypeOK, PacketStates
<1>3. /\ PushedInQueue /\ NotMade /\ RoundOfIds /\ GivenById /\ ToldOnce /\ Copies
  BY <1>1, CtrlAssumption
  DEF CtrlInit, PushedInQueue, NotMade, RoundOfIds, GivenById, ToldOnce, Copies, Pushed
<1>4. TimeInv
  BY CtrlAssumption DEF CtrlInit, TimeInv, TimeLeft, TriesCounted
<1> QED
  BY <1>2, <1>3, <1>4 DEF CtrlInv

LEMMA PushKeeps ==
    ASSUME CtrlInv, NEW r \in Reqs, NEW reaches \in BOOLEAN, Push(r, reaches)
    PROVE  CtrlInv'
<1> DEFINE new == [iid |-> NextInstanceId, retryCount |-> RetryCount,
                   maxRespDelay |-> Total % Word, place |-> made]
<1>0. CtrlTypeOK
  BY DEF CtrlInv
<1>1. /\ NextInstanceId = (made + 1) % InstanceIds
      /\ NextInstanceId \in 0 .. InstanceIds - 1
      /\ made \in Nat
  <2>1. instanceId = made % InstanceIds /\ made \in Nat
    BY <1>0 DEF CtrlInv, RoundOfIds, CtrlTypeOK
  <2>2. (made + 1) % InstanceIds \in 0 .. InstanceIds - 1
    BY <2>1, CtrlAssumption
  <2> QED
    BY <2>1, <2>2, NextRemainder, CtrlAssumption DEF NextInstanceId
<1>2. new \in Entry
  <2>1. Total \in Nat
    BY CtrlAssumption DEF Total
  <2>2. Total % Word \in 0 .. Word - 1
    BY <2>1, CtrlAssumption
  <2>3. RetryCount \in 0 .. RetryCount
    BY CtrlAssumption
  <2> QED
    BY <1>1, <2>2, <2>3 DEF Entry
<1>3. entry' = [entry EXCEPT ![r] = new]
  BY DEF Push, Total
<1>4. new.place = made /\ new.iid = (made + 1) % InstanceIds
  BY <1>1
<1> HIDE DEF new
<1>5. CtrlTypeOK'
  <2>1. entry' \in [Reqs -> Entry]
    BY <1>0, <1>2, <1>3 DEF CtrlTypeOK
  <2>2. /\ instanceId' \in 0 .. InstanceIds - 1
        /\ ctrlTxQueue' \in SUBSET Reqs
        /\ ctrlTxTimerExpired' \in BOOLEAN
        /\ pktState' \in [Reqs -> PacketStates]
        /\ resp' \in [Reqs -> Reqs \cup {NoResp}]
    BY <1>0, <1>1 DEF CtrlTypeOK, Push, PacketStates
  <2>3. /\ atEndpoint' \in [Reqs -> Nat] /\ tries' \in [Reqs -> Nat]
        /\ polls' \in [Reqs -> Nat] /\ made' \in Nat
    BY <1>0 DEF CtrlTypeOK, Push
  <2> QED
    BY <2>1, <2>2, <2>3 DEF CtrlTypeOK
<1>6. /\ \A s \in Reqs \ {r} : /\ entry'[s] = entry[s] /\ pktState'[s] = pktState[s]
                               /\ atEndpoint'[s] = atEndpoint[s] /\ tries'[s] = tries[s]
      /\ entry'[r] = new /\ pktState'[r] = "pushedForTransmission" /\ tries'[r] = 1
      /\ atEndpoint'[r] \in {0, 1} /\ resp' = resp /\ polls' = polls
      /\ ctrlTxQueue' = ctrlTxQueue \cup {r} /\ pktState[r] = "none"
      /\ instanceId' = NextInstanceId /\ made' = made + 1
  BY <1>0, <1>3 DEF CtrlTypeOK, Push
<1>7. /\ PushedInQueue' /\ NotMade' /\ ToldOnce' /\ Copies'
  BY <1>0, <1>6, CtrlAssumption
  DEF CtrlInv, CtrlTypeOK, PushedInQueue, NotMade, ToldOnce, Copies, Pushed
<1>8. RoundOfIds'
  <2> SUFFICES ASSUME NEW s \in Reqs, Pushed(s)'
               PROVE  /\ entry'[s].place < made'
                      /\ entry'[s].iid = (entry'[s].place + 1) % InstanceIds
    BY <1>1, <1>6 DEF RoundOfIds
  <2>1. CASE s = r
    BY <1>1, <1>4, <1>6, <2>1
  <2>2. CASE s # r
    <3>1. Pushed(s) /\ entry[s].place \in Nat
      BY <1>0, <1>6, <2>2 DEF Pushed, CtrlTypeOK, Entry
    <3> QED
      BY <1>1, <1>6, <2>2, <3>1 DEF CtrlInv, RoundOfIds
  <2> QED
    BY <2>1, <2>2
<1>9. GivenById'
  BY <1>6, CtrlAssumption DEF CtrlInv, GivenById, Pushed
<1> QED
  BY <1>5, <1>7, <1>8, <1>9 DEF CtrlInv

LEMMA LeftType ==
    ASSUME CtrlTypeOK, NEW r \in Reqs
    PROVE  Left(r) \in 0 .. Word - 1
BY CtrlAssumption DEF CtrlTypeOK, Entry, Left

\* What a poll does to one request
LEMMA Polled ==
    ASSUME CtrlTypeOK, NEW reach \in SUBSET Resent, Poll(reach),
           NEW r \in Reqs
    PROVE  /\ entry'[r].iid = entry[r].iid /\ entry'[r].place = entry[r].place
           /\ r \in ctrlTxQueue => entry'[r].maxRespDelay = Left(r)
           /\ entry'[r].retryCount =
                 IF r \in Resent THEN entry[r].retryCount - 1 ELSE entry[r].retryCount
           /\ r \notin ctrlTxQueue => entry'[r] = entry[r]
           /\ entry'[r] \in Entry
           /\ pktState'[r] = IF r \in GivenUp THEN "noResponse" ELSE pktState[r]
           /\ tries'[r] = IF r \in Resent THEN tries[r] + 1 ELSE tries[r]
           /\ polls'[r] = IF r \in ctrlTxQueue THEN polls[r] + 1 ELSE polls[r]
           /\ atEndpoint'[r] = IF r \in reach THEN atEndpoint[r] + 1 ELSE atEndpoint[r]
           /\ reach \subseteq Resent
           /\ Resent \subseteq ctrlTxQueue \ GivenUp
<1>1. entry[r] \in Entry
  BY DEF CtrlTypeOK
<1>2. Resent \subseteq ctrlTxQueue \ GivenUp /\ reach \subseteq Resent
  BY DEF Resent
<1>3. r \in Resent => entry[r].retryCount > 0
  BY DEF Resent
<1> DEFINE new == [entry[r] EXCEPT !.maxRespDelay = Left(r),
                     !.retryCount = IF r \in Resent THEN @ - 1 ELSE @]
<1>4. entry'[r] = IF r \in ctrlTxQueue THEN new ELSE entry[r]
  BY DEF Poll
<1>5. new \in Entry
  <2> DEFINE count == IF r \in Resent THEN entry[r].retryCount - 1
                                          ELSE entry[r].retryCount
  <2>1. count \in 0 .. RetryCount
    BY <1>1, <1>3, CtrlAssumption DEF Entry
  <2>2. new = [iid |-> entry[r].iid, retryCount |-> count,
               maxRespDelay |-> Left(r), place |-> entry[r].place]
    <3> HIDE DEF count
    <3>1. new = [entry[r] EXCEPT !.maxRespDelay = Left(r), !.retryCount = count]
      BY <1>1 DEF Entry, count
    <3> HIDE DEF new
    <3> QED
      BY <1>1, <3>1 DEF Entry
  <2>3. entry[r].iid \in 0 .. InstanceIds - 1 /\ entry[r].place \in Nat
    BY <1>1 DEF Entry
  <2> HIDE DEF new, count
  <2> QED
    BY <2>1, <2>2, <2>3, LeftType DEF Entry
<1>6. /\ new.iid = entry[r].iid /\ new.place = entry[r].place
      /\ new.maxRespDelay = Left(r)
      /\ new.retryCount = IF r \in Resent THEN entry[r].retryCount - 1
                                               ELSE entry[r].retryCount
  BY <1>1 DEF Entry
<1> HIDE DEF new
<1>7. /\ pktState'[r] = IF r \in GivenUp THEN "noResponse" ELSE pktState[r]
      /\ tries'[r] = IF r \in Resent THEN tries[r] + 1 ELSE tries[r]
      /\ polls'[r] = IF r \in ctrlTxQueue THEN polls[r] + 1 ELSE polls[r]
      /\ atEndpoint'[r] = IF r \in reach THEN atEndpoint[r] + 1 ELSE atEndpoint[r]
  BY DEF Poll
<1> QED
  BY <1>1, <1>2, <1>4, <1>5, <1>6, <1>7

LEMMA PollKeeps ==
    ASSUME CtrlInv, NEW reach \in SUBSET Resent, Poll(reach)
    PROVE  CtrlInv'
<1>0. CtrlTypeOK
  BY DEF CtrlInv
<1>1. /\ \A r \in Reqs :
            /\ entry'[r].iid = entry[r].iid /\ entry'[r].place = entry[r].place
            /\ entry'[r] \in Entry
            /\ pktState'[r] = IF r \in GivenUp THEN "noResponse" ELSE pktState[r]
            /\ tries'[r] = IF r \in Resent THEN tries[r] + 1 ELSE tries[r]
            /\ polls'[r] = IF r \in ctrlTxQueue THEN polls[r] + 1 ELSE polls[r]
            /\ atEndpoint'[r] = IF r \in reach THEN atEndpoint[r] + 1 ELSE atEndpoint[r]
      /\ reach \subseteq Resent
      /\ Resent \subseteq ctrlTxQueue \ GivenUp
  <2>1. reach \subseteq Resent /\ Resent \subseteq ctrlTxQueue \ GivenUp
    BY DEF Resent
  <2> QED
    BY <1>0, <2>1, Polled
<1>2. /\ instanceId' = instanceId /\ resp' = resp /\ made' = made
      /\ ctrlTxQueue' = ctrlTxQueue \ GivenUp
      /\ GivenUp \subseteq ctrlTxQueue /\ ctrlTxQueue \subseteq Reqs
  BY <1>0 DEF Poll, GivenUp, CtrlTypeOK
<1>3. CtrlTypeOK'
  <2>1. /\ entry' = [r \in Reqs |-> entry'[r]] /\ pktState' = [r \in Reqs |-> pktState'[r]]
        /\ atEndpoint' = [r \in Reqs |-> atEndpoint'[r]]
        /\ tries' = [r \in Reqs |-> tries'[r]] /\ polls' = [r \in Reqs |-> polls'[r]]
        /\ ctrlTxTimerExpired' \in BOOLEAN
    BY DEF Poll
  <2>2. entry' \in [Reqs -> Entry] /\ pktState' \in [Reqs -> PacketStates]
    BY <1>0, <1>1, <2>1 DEF CtrlTypeOK, PacketStates
  <2>3. /\ atEndpoint' \in [Reqs -> Nat] /\ tries' \in [Reqs -> Nat]
        /\ polls' \in [Reqs -> Nat]
    BY <1>0, <1>1, <2>1 DEF CtrlTypeOK
  <2> QED
    BY <1>0, <1>2, <2>1, <2>2, <2>3 DEF CtrlTypeOK
<1>4. \A r \in ctrlTxQueue : pktState[r] = "pushedForTransmission" /\ resp[r] = NoResp
  BY <1>2 DEF CtrlInv, PushedInQueue, ToldOnce
<1>5. PushedInQueue' /\ NotMade' /\ ToldOnce'
  BY <1>1, <1>2, <1>4 DEF CtrlInv, PushedInQueue, NotMade, ToldOnce, Pushed
<1>6. RoundOfIds'
  BY <1>1, <1>2, <1>4 DEF CtrlInv, RoundOfIds, Pushed
<1>7. GivenById'
  BY <1>1, <1>2, <1>4 DEF CtrlInv, GivenById, Pushed
<1>8. Copies'
  BY <1>0, <1>1, <1>2 DEF CtrlInv, Copies, CtrlTypeOK
<1> QED
  BY <1>3, <1>5, <1>6, <1>7, <1>8 DEF CtrlInv

LEMMA ResponseKeeps ==
    ASSUME CtrlInv, NEW r \in Reqs, NEW q \in Reqs, HandleCtrlResp(r, q)
    PROVE  CtrlInv'
<1>0. CtrlTypeOK
  BY DEF CtrlInv
<1>1. /\ q \in ctrlTxQueue /\ entry[q].iid = entry[r].iid /\ atEndpoint[r] > 0
      /\ atEndpoint' = [atEndpoint EXCEPT ![r] = atEndpoint[r] - 1]
      /\ ctrlTxQueue' = ctrlTxQueue \ {q}
      /\ pktState' = [pktState EXCEPT ![q] = "receivedResponse"]
      /\ resp' = [resp EXCEPT ![q] = r]
      /\ UNCHANGED <<instanceId, entry, ctrlTxTimerExpired, tries, polls, made>>
  BY DEF HandleCtrlResp, Matching
<1>2. Pushed(r) /\ Pushed(q) /\ resp[q] = NoResp
  BY <1>0, <1>1 DEF CtrlInv, PushedInQueue, NotMade, ToldOnce, Pushed
<1>3. CtrlTypeOK'
  BY <1>0, <1>1 DEF CtrlTypeOK, PacketStates
<1>4. PushedInQueue' /\ NotMade' /\ ToldOnce'
  BY <1>0, <1>1, <1>2, CtrlAssumption
  DEF CtrlInv, PushedInQueue, NotMade, ToldOnce, Pushed, CtrlTypeOK
<1>5. RoundOfIds' /\ GivenById'
  BY <1>0, <1>1, <1>2 DEF CtrlInv, RoundOfIds, GivenById, Pushed, CtrlTypeOK
<1>6. Copies'
  BY <1>0, <1>1, <1>2 DEF CtrlInv, Copies, CtrlTypeOK
<1> QED
  BY <1>3, <1>4, <1>5, <1>6 DEF CtrlInv

LEMMA UnmatchedKeeps ==
    ASSUME CtrlInv, NEW r \in Reqs, CtrlRespUnmatched(r)
    PROVE  CtrlInv'
BY DEF CtrlInv, CtrlRespUnmatched, CtrlTypeOK, PushedInQueue, NotMade, RoundOfIds,
       GivenById, ToldOnce, Copies, Pushed

LEMMA ReturnKeeps ==
    ASSUME CtrlInv, NEW r \in Reqs, Return(r)
    PROVE  CtrlInv'
<1>0. CtrlTypeOK
  BY DEF CtrlInv
<1>1. /\ pktState[r] \in {"receivedResponse", "noResponse"}
      /\ pktState' = [pktState EXCEPT ![r] = "returned"]
      /\ UNCHANGED <<instanceId, ctrlTxQueue, entry, ctrlTxTimerExpired, resp,
                     atEndpoint, tries, polls, made>>
  BY DEF Return
<1>2. CtrlTypeOK'
  BY <1>0, <1>1 DEF CtrlTypeOK, PacketStates
<1>3. PushedInQueue' /\ NotMade' /\ ToldOnce' /\ Copies'
  BY <1>0, <1>1 DEF CtrlInv, PushedInQueue, NotMade, ToldOnce, Copies, Pushed, CtrlTypeOK
<1>4. RoundOfIds' /\ GivenById'
  BY <1>0, <1>1 DEF CtrlInv, RoundOfIds, GivenById, Pushed, CtrlTypeOK
<1> QED
  BY <1>2, <1>3, <1>4 DEF CtrlInv

LEMMA CtrlInvKept == CtrlInv /\ [CtrlNext]_ctrlVars => CtrlInv'
<1> SUFFICES ASSUME CtrlInv, [CtrlNext]_ctrlVars PROVE CtrlInv'
  OBVIOUS
<1>1. CASE CtrlNext
  BY <1>1, PushKeeps, PollKeeps, ResponseKeeps, UnmatchedKeeps, ReturnKeeps DEF CtrlNext
<1>2. CASE UNCHANGED ctrlVars
  BY <1>2 DEF ctrlVars, CtrlInv, CtrlTypeOK, PushedInQueue, NotMade, RoundOfIds,
              GivenById, ToldOnce, Copies, Pushed
<1> QED
  BY <1>1, <1>2

(***************************************************************************)
(* Time.                                                                   *)
(***************************************************************************)
LEMMA AtLeastOnce ==
    ASSUME NEW a \in Nat, NEW n \in Nat \ {0}
    PROVE  n * a >= a
OBVIOUS

LEMMA TimedPush ==
    ASSUME DelaysFit, CtrlInv, TimeInv,
           NEW r \in Reqs, NEW reaches \in BOOLEAN, Push(r, reaches)
    PROVE  TimeInv'
<1>0. CtrlTypeOK
  BY DEF CtrlInv
<1>1. /\ Total \in Nat /\ Total % Word = Total /\ Total > RetryCount * RetryDelay
      /\ \E n \in Nat \ {0} : Total = n * PollInterval
  <2>1. RetryCount * RetryDelay \in Nat /\ Total = RetryCount * RetryDelay + RetryDelay
    BY CtrlAssumption DEF Total
  <2>2. Total > RetryCount * RetryDelay /\ Total \in Nat
    BY <2>1, CtrlAssumption DEF DelaysFit
  <2>3. PICK n \in Nat : Total = n * PollInterval
    BY DEF DelaysFit
  <2>4. n # 0
    <3> SUFFICES ASSUME n = 0 PROVE FALSE
      OBVIOUS
    <3>1. Total = 0
      BY <2>3, CtrlAssumption
    <3> QED
      BY <2>1, <2>2, <3>1
  <2>5. Total % Word = Total
    BY <2>2, CtrlAssumption DEF DelaysFit
  <2> QED
    BY <2>2, <2>3, <2>4, <2>5
<1>2. /\ entry' = [entry EXCEPT ![r] =
                      [iid |-> NextInstanceId, retryCount |-> RetryCount,
                       maxRespDelay |-> Total, place |-> made]]
      /\ tries' = [tries EXCEPT ![r] = 1]
      /\ pktState' = [pktState EXCEPT ![r] = "pushedForTransmission"]
      /\ ctrlTxQueue' = ctrlTxQueue \cup {r} /\ polls' = polls /\ resp' = resp
      /\ pktState[r] = "none" /\ polls[r] = 0
  BY <1>1 DEF Push, CtrlInv, NotMade, Pushed, Total
<1>3. \A s \in Reqs \ {r} : /\ entry'[s] = entry[s] /\ tries'[s] = tries[s]
                            /\ pktState'[s] = pktState[s]
  BY <1>0, <1>2 DEF CtrlTypeOK
<1>4. /\ entry'[r].retryCount = RetryCount /\ entry'[r].maxRespDelay = Total
      /\ tries'[r] = 1 /\ pktState'[r] = "pushedForTransmission"
  BY <1>0, <1>2 DEF CtrlTypeOK
<1>5. TimeLeft'
  <2> SUFFICES ASSUME NEW s \in ctrlTxQueue'
               PROVE  /\ entry'[s].maxRespDelay = Total - polls'[s] * PollInterval
                      /\ entry'[s].maxRespDelay > entry'[s].retryCount * RetryDelay
                      /\ \E n \in Nat \ {0} : entry'[s].maxRespDelay = n * PollInterval
    BY DEF TimeLeft
  <2>1. CASE s = r
    <3>1. polls'[s] * PollInterval = 0
      BY <1>2, <2>1, CtrlAssumption
    <3> QED
      BY <1>1, <1>4, <2>1, <3>1
  <2>2. CASE s # r
    <3>1. s \in ctrlTxQueue /\ s \in Reqs
      BY <1>0, <1>2, <2>2 DEF CtrlTypeOK
    <3>2. entry'[s] = entry[s] /\ polls'[s] = polls[s]
      BY <1>2, <1>3, <2>2, <3>1
    <3> QED
      BY <3>1, <3>2 DEF TimeInv, TimeLeft
  <2> QED
    BY <2>1, <2>2
<1>6. TriesCounted'
  BY <1>2, <1>3, <1>4, CtrlAssumption DEF TimeInv, TriesCounted
<1> QED
  BY <1>5, <1>6 DEF TimeInv

\* One poll of a request in the queue: it is given up when it has no more
\* tries, and sent again as soon as its next try is due.
LEMMA TimedOne ==
    ASSUME DelaysFit, CtrlInv, TimeInv, NEW r \in ctrlTxQueue
    PROVE  /\ r \in GivenUp => entry[r].retryCount = 0
           /\ r \notin GivenUp =>
                /\ Left(r) = Total - (polls[r] + 1) * PollInterval
                /\ \E n \in Nat \ {0} : Left(r) = n * PollInterval
                /\ r \in Resent => Left(r) > (entry[r].retryCount - 1) * RetryDelay
                /\ r \notin Resent => Left(r) > entry[r].retryCount * RetryDelay
<1>1. /\ r \in Reqs /\ entry[r] \in Entry /\ polls[r] \in Nat
  BY DEF CtrlInv, CtrlTypeOK
<1> PICK d, k : d = entry[r].maxRespDelay /\ k = entry[r].retryCount
  OBVIOUS
<1>2. /\ d \in 0 .. Word - 1 /\ k \in Nat
      /\ d = Total - polls[r] * PollInterval /\ d > k * RetryDelay
  BY <1>1, CtrlAssumption DEF Entry, TimeInv, TimeLeft
<1>3. PICK n \in Nat \ {0} : d = n * PollInterval
  BY DEF TimeInv, TimeLeft
<1>4. Left(r) = (d - PollInterval) % Word
  BY DEF Left
<1>5. d - PollInterval = (n - 1) * PollInterval /\ d - PollInterval \in 0 .. Word - 1
  <2>1. d >= PollInterval
    BY <1>3, CtrlAssumption, AtLeastOnce
  <2>2. d - PollInterval = (n - 1) * PollInterval
    BY <1>3, CtrlAssumption
  <2> QED
    BY <1>2, <2>1, <2>2, CtrlAssumption
<1>6. Left(r) = d - PollInterval
  BY <1>4, <1>5, CtrlAssumption
<1>7. k * RetryDelay \in Nat
  BY <1>2, CtrlAssumption
<1>8. k # 0 => k * RetryDelay >= RetryDelay /\ (k - 1) * RetryDelay = k * RetryDelay - RetryDelay
  BY <1>2, CtrlAssumption
<1>9. ASSUME r \in GivenUp PROVE k = 0
  <2>1. d = PollInterval
    <3>1. Left(r) = 0
      BY <1>9 DEF GivenUp
    <3>2. d - PollInterval = 0 /\ d \in Int
      BY <1>2, <1>6, <3>1
    <3> QED
      BY <3>2, CtrlAssumption
  <2> QED
    BY <1>2, <1>7, <1>8, <2>1, CtrlAssumption DEF DelaysFit
<1>10. ASSUME r \notin GivenUp
       PROVE  /\ Left(r) = Total - (polls[r] + 1) * PollInterval
              /\ \E m \in Nat \ {0} : Left(r) = m * PollInterval
              /\ r \in Resent => Left(r) > (k - 1) * RetryDelay
              /\ r \notin Resent => Left(r) > k * RetryDelay
  <2>1. Left(r) # 0
    BY <1>10 DEF GivenUp
  <2>2. (polls[r] + 1) * PollInterval = polls[r] * PollInterval + PollInterval
    BY <1>1, CtrlAssumption
  <2>3. polls[r] * PollInterval \in Nat /\ Total \in Nat
    BY <1>1, CtrlAssumption DEF Total
  <2>4. Left(r) = Total - (polls[r] + 1) * PollInterval
    BY <1>2, <1>6, <2>2, <2>3, CtrlAssumption
  <2>5. n - 1 \in Nat \ {0}
    <3> SUFFICES ASSUME n = 1 PROVE FALSE
      OBVIOUS
    <3>1. (n - 1) * PollInterval = 0
      BY CtrlAssumption
    <3> QED
      BY <1>5, <1>6, <2>1, <3>1
  <2>6. \E m \in Nat \ {0} : Left(r) = m * PollInterval
    BY <1>5, <1>6, <2>5
  <2>7. ASSUME r \in Resent PROVE Left(r) > (k - 1) * RetryDelay
    <3>1. k # 0
      BY <2>7, <1>2 DEF Resent
    <3> QED
      BY <1>2, <1>6, <1>7, <1>8, <3>1, CtrlAssumption DEF DelaysFit
  <2>8. ASSUME r \notin Resent PROVE Left(r) > k * RetryDelay
    <3>1. k = 0 \/ ~(Left(r) <= k * RetryDelay)
      BY <1>2, <1>10, <2>8 DEF Resent
    <3>2. CASE k = 0
      <4>1. k * RetryDelay = 0
        BY <3>2, CtrlAssumption
      <4> QED
        BY <1>5, <1>6, <2>1, <4>1
    <3>3. CASE ~(Left(r) <= k * RetryDelay)
      BY <1>5, <1>6, <1>7, <3>3
    <3> QED
      BY <3>1, <3>2, <3>3
  <2> QED
    BY <2>4, <2>6, <2>7, <2>8
<1> QED
  BY <1>9, <1>10

LEMMA TimedPoll ==
    ASSUME DelaysFit, CtrlInv, TimeInv,
           NEW reach \in SUBSET Resent, Poll(reach)
    PROVE  TimeInv'
<1>0. CtrlTypeOK
  BY DEF CtrlInv
<1>1. /\ ctrlTxQueue' = ctrlTxQueue \ GivenUp /\ ctrlTxQueue \subseteq Reqs
      /\ resp' = resp /\ GivenUp \subseteq ctrlTxQueue
      /\ Resent \subseteq ctrlTxQueue \ GivenUp
  BY <1>0 DEF Poll, CtrlTypeOK, GivenUp, Resent
<1>2. \A r \in Reqs :
        /\ r \in ctrlTxQueue => entry'[r].maxRespDelay = Left(r)
        /\ entry'[r].retryCount =
              IF r \in Resent THEN entry[r].retryCount - 1 ELSE entry[r].retryCount
        /\ pktState'[r] = IF r \in GivenUp THEN "noResponse" ELSE pktState[r]
        /\ tries'[r] = IF r \in Resent THEN tries[r] + 1 ELSE tries[r]
        /\ polls'[r] = IF r \in ctrlTxQueue THEN polls[r] + 1 ELSE polls[r]
  BY <1>0, Polled
<1>3. TimeLeft'
  <2> SUFFICES ASSUME NEW r \in ctrlTxQueue'
               PROVE  /\ entry'[r].maxRespDelay = Total - polls'[r] * PollInterval
                      /\ entry'[r].maxRespDelay > entry'[r].retryCount * RetryDelay
                      /\ \E n \in Nat \ {0} : entry'[r].maxRespDelay = n * PollInterval
    BY DEF TimeLeft
  <2>1. r \in ctrlTxQueue /\ r \notin GivenUp /\ r \in Reqs
    BY <1>1
  <2> QED
    BY <1>2, <2>1, TimedOne
<1>4. TriesCounted'
  <2> SUFFICES ASSUME NEW r \in Reqs
               PROVE  /\ tries'[r] <= 1 + RetryCount
                      /\ r \in ctrlTxQueue' => tries'[r] + entry'[r].retryCount = 1 + RetryCount
                      /\ pktState'[r] \in {"noResponse", "returned"} /\ resp'[r] = NoResp =>
                            tries'[r] = 1 + RetryCount
    BY DEF TriesCounted
  <2>1. tries[r] \in Nat /\ entry[r].retryCount \in Nat
    BY <1>0, CtrlAssumption DEF CtrlTypeOK, Entry
  <2>2. CASE r \in GivenUp
    <3>1. entry[r].retryCount = 0 /\ r \in ctrlTxQueue /\ r \notin Resent
      BY <1>1, <2>2, TimedOne
    <3> QED
      BY <1>1, <1>2, <2>1, <2>2, <3>1, CtrlAssumption DEF TimeInv, TriesCounted
  <2>3. CASE r \in Resent
    <3>1. entry[r].retryCount > 0 /\ r \in ctrlTxQueue /\ r \notin GivenUp
      BY <1>1, <2>3 DEF Resent
    <3>2. pktState[r] = "pushedForTransmission"
      BY <3>1 DEF CtrlInv, PushedInQueue
    <3> QED
      BY <1>1, <1>2, <2>1, <2>3, <3>1, <3>2, CtrlAssumption DEF TimeInv, TriesCounted
  <2>4. CASE r \notin GivenUp /\ r \notin Resent
    BY <1>1, <1>2, <2>1, <2>4 DEF TimeInv, TriesCounted
  <2> QED
    BY <2>2, <2>3, <2>4
<1> QED
  BY <1>3, <1>4 DEF TimeInv

LEMMA TimedResponse ==
    ASSUME CtrlInv, TimeInv, NEW r \in Reqs, NEW q \in Reqs, HandleCtrlResp(r, q)
    PROVE  TimeInv'
<1>1. /\ ctrlTxQueue' = ctrlTxQueue \ {q} /\ q \in ctrlTxQueue
      /\ pktState' = [pktState EXCEPT ![q] = "receivedResponse"]
      /\ resp' = [resp EXCEPT ![q] = r]
      /\ UNCHANGED <<entry, tries, polls>>
      /\ pktState \in [Reqs -> PacketStates] /\ resp \in [Reqs -> Reqs \cup {NoResp}]
  BY DEF HandleCtrlResp, Matching, CtrlInv, CtrlTypeOK
<1> QED
  BY <1>1, CtrlAssumption DEF TimeInv, TimeLeft, TriesCounted

LEMMA TimedReturn ==
    ASSUME CtrlInv, TimeInv, NEW r \in Reqs, Return(r)
    PROVE  TimeInv'
<1>1. /\ pktState[r] \in {"receivedResponse", "noResponse"}
      /\ pktState' = [pktState EXCEPT ![r] = "returned"]
      /\ UNCHANGED <<ctrlTxQueue, entry, tries, polls, resp>>
      /\ pktState \in [Reqs -> PacketStates]
  BY DEF Return, CtrlInv, CtrlTypeOK
<1> QED
  BY <1>1 DEF TimeInv, TimeLeft, TriesCounted, CtrlInv, ToldOnce

LEMMA TimeKept ==
    ASSUME DelaysFit, CtrlInv, TimeInv, [CtrlNext]_ctrlVars
    PROVE  TimeInv'
<1>1. ASSUME NEW r \in Reqs, CtrlRespUnmatched(r) PROVE TimeInv'
  BY <1>1 DEF CtrlRespUnmatched, TimeInv, TimeLeft, TriesCounted
<1>2. CASE CtrlNext
  BY <1>1, <1>2, TimedPush, TimedPoll, TimedResponse, TimedReturn DEF CtrlNext
<1>3. CASE UNCHANGED ctrlVars
  BY <1>3 DEF ctrlVars, TimeInv, TimeLeft, TriesCounted
<1> QED
  BY <1>2, <1>3

LEMMA CtrlAlways == CtrlSpec => []CtrlInv
<1>1. CtrlInit => CtrlInv
  BY CtrlInitInv
<1> QED
  BY <1>1, CtrlInvKept, PTL DEF CtrlSpec

LEMMA TimeAlways == ASSUME DelaysFit PROVE CtrlSpec => []TimeInv
<1>1. CtrlInit => TimeInv
  BY CtrlInitInv
<1>2. CtrlInv /\ TimeInv /\ [CtrlNext]_ctrlVars => TimeInv'
  BY TimeKept
<1> QED
  BY <1>1, <1>2, CtrlAlways, PTL DEF CtrlSpec

\* A control request is sent at most 1 + RetryCount times, is given up only
\* after as many, and stays in the queue no longer than they take, for every
\* timeout and number of retries that fits the polls (DelaysFit).
THEOREM TriesAreInTime == ASSUME DelaysFit PROVE CtrlSpec => []AllTriesInTime
<1>1. CtrlInv /\ TimeInv => AllTriesInTime
  <2> SUFFICES ASSUME CtrlInv, TimeInv, NEW r \in Reqs
               PROVE  /\ tries[r] <= 1 + RetryCount
                      /\ pktState[r] = "noResponse" => tries[r] = 1 + RetryCount
                      /\ r \in ctrlTxQueue =>
                            polls[r] * PollInterval <= (RetryCount + 1) * RetryDelay
    BY DEF AllTriesInTime
  <2>1. pktState[r] = "noResponse" => resp[r] = NoResp
    BY DEF CtrlInv, ToldOnce
  <2>2. ASSUME r \in ctrlTxQueue
        PROVE  polls[r] * PollInterval <= (RetryCount + 1) * RetryDelay
    <3>1. /\ entry[r].maxRespDelay \in Nat /\ polls[r] * PollInterval \in Nat /\ Total \in Nat
      BY CtrlAssumption DEF CtrlInv, CtrlTypeOK, Entry, Total
    <3>2. entry[r].maxRespDelay = Total - polls[r] * PollInterval
      BY <2>2 DEF TimeInv, TimeLeft
    <3>3. polls[r] * PollInterval <= Total
      BY <3>1, <3>2
    <3> QED
      BY <3>3 DEF Total
  <2> QED
    BY <2>1, <2>2 DEF TimeInv, TriesCounted
<1> QED
  BY <1>1, CtrlAlways, TimeAlways, PTL

\* A coroutine gets the response to its own request, or to one made a whole
\* number of rounds of instance IDs before or after it.
THEOREM StraysAreAliases == CtrlSpec => []OnlyAliasesStray
<1>1. CtrlInv => OnlyAliasesStray
  <2> SUFFICES ASSUME CtrlInv, NEW r \in Reqs, NEW q \in Reqs, resp[r] = q
               PROVE  (entry[r].place - entry[q].place) % InstanceIds = 0
    BY DEF OnlyAliasesStray
  <2> PICK a, b : a = entry[r].place /\ b = entry[q].place
    OBVIOUS
  <2>1. a \in Nat /\ b \in Nat
    BY DEF CtrlInv, CtrlTypeOK, Entry
  <2>2. (a + 1) % InstanceIds = (b + 1) % InstanceIds
    BY DEF CtrlInv, GivenById, RoundOfIds
  <2>3. a + 1 \in Int /\ b + 1 \in Int /\ (a + 1) - (b + 1) = a - b
    BY <2>1
  <2>4. ((a + 1) - (b + 1)) % InstanceIds = 0
    BY <2>2, <2>3, SameRemainder, CtrlAssumption
  <2> QED
    BY <2>3, <2>4
<1> QED
  BY <1>1, CtrlAlways, PTL

-----------------------------------------------------------------------------
(***************************************************************************)
(* The two queues together.  Whatever the upper layer does, the control    *)
(* queue behaves as it does alone.                                         *)
(***************************************************************************)
LEMMA CtrlStepOf == RxNext => [CtrlNext]_ctrlVars
<1>1. UpperLayerStep => UNCHANGED ctrlVars
  BY DEF UpperLayerStep, ctrlVars
<1>2. ASSUME NEW r \in Reqs, NEW e \in Eids, SendControl(r, e) PROVE CtrlNext
  BY <1>2 DEF SendControl, CtrlNext
<1>3. ControlStep => CtrlNext
  BY DEF ControlStep, CtrlNext
<1>4. ASSUME NEW r \in Reqs, ControlFallsThrough(r) PROVE CtrlNext
  BY <1>4 DEF ControlFallsThrough, CtrlNext
<1> QED
  BY <1>1, <1>2, <1>3, <1>4 DEF RxNext

\* Composed with the transmission queue, the control queue keeps its behaviour.
THEOREM ControlQueueIsKept == RxSpec => CtrlSpec
<1>1. RxInit => CtrlInit
  BY DEF RxInit
<1>2. [RxNext]_allVars => [CtrlNext]_ctrlVars
  <2>1. UNCHANGED allVars => UNCHANGED ctrlVars
    BY DEF allVars, ctrlVars
  <2> QED
    BY <2>1, CtrlStepOf
<1> QED
  BY <1>1, <1>2, PTL DEF RxSpec, CtrlSpec

(***************************************************************************)
(* What the messages of the upper layer hold.  A message is whole, and its *)
(* response comes from an upper layer call, unless a control response has  *)
(* got past the control queue.                                             *)
(***************************************************************************)
Shaped(m) == m = [dest |-> m.dest, index |-> m.index, tag |-> m.tag, response |-> m.response]

MessagesShaped ==
    message = [c \in Calls |-> message[c]] /\ \A c \in Calls : Shaped(message[c])

LEMMA ShapeOf ==
    ASSUME NEW D, NEW I, NEW T, NEW R,
           NEW m \in [dest : D, index : I, tag : T, response : R]
    PROVE  Shaped(m)
BY DEF Shaped

LEMMA TypeOfShape ==
    ASSUME NEW m, Shaped(m), NEW x, NEW y
    PROVE  m \in [dest : {m.dest, x}, index : {m.index, y}, tag : {m.tag, y},
                  response : {m.response, x}]
<1> PICK d, i, t, p : d = m.dest /\ i = m.index /\ t = m.tag /\ p = m.response
  OBVIOUS
<1>1. m = [dest |-> d, index |-> i, tag |-> t, response |-> p]
  BY DEF Shaped
<1>2. m \in [dest : {d, x}, index : {i, y}, tag : {t, y}, response : {p, x}]
  BY <1>1
<1> QED
  BY <1>2

LEMMA FieldsSet ==
    ASSUME NEW D, NEW I, NEW T, NEW R,
           NEW m \in [dest : D, index : I, tag : T, response : R],
           NEW d \in D, NEW i \in I, NEW t \in T, NEW r \in R
    PROVE  /\ [m EXCEPT !.tag = t] \in [dest : D, index : I, tag : T, response : R]
           /\ [m EXCEPT !.tag = t].response = m.response
           /\ [m EXCEPT !.response = r, !.tag = t]
                 \in [dest : D, index : I, tag : T, response : R]
           /\ [m EXCEPT !.response = r, !.tag = t].response = r
           /\ [m EXCEPT !.dest = d, !.index = i]
                 \in [dest : D, index : I, tag : T, response : R]
           /\ [m EXCEPT !.dest = d, !.index = i].response = m.response
OBVIOUS

Tagged(m, t) == [m EXCEPT !.tag = t]
Answered(m, r) == [m EXCEPT !.response = r, !.tag = None]
Addressed(e, i) == [NoMessage EXCEPT !.dest = e, !.index = i]

LEMMA ShapeKept ==
    ASSUME NEW m, Shaped(m), NEW x, NEW y
    PROVE  /\ Shaped(Tagged(m, y)) /\ Tagged(m, y).response = m.response
           /\ Shaped(Answered(m, x)) /\ Answered(m, x).response = x
<1> DEFINE D == {m.dest, x}
           I == {m.index, None}
           T == {m.tag, None}
           U == {m.tag, y}
           R == {m.response, x}
<1>1. /\ m \in [dest : D, index : I, tag : T, response : R]
      /\ m \in [dest : D, index : {m.index, y}, tag : U, response : R]
  BY TypeOfShape
<1>2. x \in D /\ None \in I /\ None \in T /\ x \in R /\ y \in U /\ y \in {m.index, y}
  OBVIOUS
<1> HIDE DEF D, I, T, R, U
<1>3. /\ Tagged(m, y) \in [dest : D, index : {m.index, y}, tag : U, response : R]
      /\ Tagged(m, y).response = m.response
  BY <1>1, <1>2, FieldsSet DEF Tagged
<1>4. /\ Answered(m, x) \in [dest : D, index : I, tag : T, response : R]
      /\ Answered(m, x).response = x
  BY <1>1, <1>2, FieldsSet DEF Answered
<1> QED
  BY <1>3, <1>4, ShapeOf

LEMMA NewShape ==
    ASSUME NEW e, NEW i
    PROVE  Shaped(Addressed(e, i)) /\ Addressed(e, i).response = None
<1> DEFINE D == {None, e}
           I == {0, i}
           M == [dest : D, index : I, tag : {None}, response : {None}]
<1>1. NoMessage \in M /\ NoMessage.response = None
  BY DEF NoMessage
<1>2. e \in D /\ i \in I /\ None \in {None}
  OBVIOUS
<1> HIDE DEF D, I
<1>3. Addressed(e, i) \in M /\ Addressed(e, i).response = None
  BY <1>1, <1>2, FieldsSet DEF Addressed
<1> QED
  BY <1>3, ShapeOf

LEMMA PassShapes ==
    ASSUME NEW e \in Eids, NEW waiting, NEW msgs, TransmitQueuedMessages(e, waiting, msgs),
           \A c \in Calls : Shaped(msgs[c])
    PROVE  MessagesShaped' /\ \A c \in Calls : message'[c].response = msgs[c].response
<1> PICK sent, dropped, tag : PassOutcome(e, waiting, msgs, sent, dropped, tag)
  BY DEF TransmitQueuedMessages
<1>1. message' = [c \in Calls |-> IF c \in sent THEN Tagged(msgs[c], tag[c]) ELSE msgs[c]]
  BY DEF PassOutcome, Tagged
<1>2. \A c \in Calls : Shaped(message'[c]) /\ message'[c].response = msgs[c].response
  BY <1>1, ShapeKept
<1>3. message' = [c \in Calls |-> message'[c]]
  BY <1>1
<1> QED
  BY <1>2, <1>3 DEF MessagesShaped

LEMMA DeliverShapes ==
    ASSUME MessagesShaped, NEW e, NEW t, NEW response, Deliver(e, t, response)
    PROVE  /\ MessagesShaped'
           /\ \A c \in Calls : message'[c].response \in {message[c].response, response}
<1> PICK m : m = transmittedMessages[e][t]
  OBVIOUS
<1>1. message' = [message EXCEPT ![m] = Answered(message[m], response)]
  BY DEF Deliver, MessagesShaped, Answered
<1>2. ASSUME NEW c \in Calls
      PROVE  /\ message'[c] = IF c = m THEN Answered(message[c], response) ELSE message[c]
             /\ Shaped(message[c])
  BY <1>1 DEF MessagesShaped
<1>3. ASSUME NEW c \in Calls
      PROVE  Shaped(message'[c]) /\ message'[c].response \in {message[c].response, response}
  BY <1>2, ShapeKept
<1>4. message' = [c \in Calls |-> message'[c]]
  BY <1>1 DEF MessagesShaped
<1> QED
  BY <1>3, <1>4 DEF MessagesShaped

LEMMA UpperLayerShapes ==
    ASSUME MessagesShaped, Next
    PROVE  /\ MessagesShaped'
           /\ \A c \in Calls :
                message'[c].response \in {message[c].response, None} \cup Calls
<1>1. ASSUME NEW c \in Calls, NEW e \in Eids, SendReceive(c, e)
      PROVE  /\ MessagesShaped'
             /\ \A d \in Calls : message'[d].response \in {message[d].response, None}
  <2> DEFINE new == Addressed(e, msgCounter[e])
             msgs == [message EXCEPT ![c] = new]
  <2>1. TransmitQueuedMessages(e, queuedMessages[e] \cup {c}, msgs)
    BY <1>1 DEF SendReceive, Addressed
  <2>2. Shaped(new) /\ new.response = None
    BY <1>1, NewShape
  <2> HIDE DEF new
  <2>3. \A d \in Calls : msgs[d] = IF d = c THEN new ELSE message[d]
    BY DEF MessagesShaped
  <2>4. \A d \in Calls : Shaped(msgs[d]) /\ msgs[d].response \in {message[d].response, None}
    BY <2>2, <2>3 DEF MessagesShaped
  <2> HIDE DEF msgs
  <2> QED
    BY <2>1, <2>4, PassShapes
<1>2. ASSUME NEW r \in Calls, Receive(r)
      PROVE  /\ MessagesShaped'
             /\ \A d \in Calls : message'[d].response \in {message[d].response, r}
  BY <1>2, DeliverShapes DEF Receive
<1>3. ASSUME NEW e \in Eids, PostedTransmit(e)
      PROVE  /\ MessagesShaped'
             /\ \A d \in Calls : message'[d].response = message[d].response
  BY <1>3, PassShapes DEF PostedTransmit, MessagesShaped
<1>4. ASSUME NEW c \in Calls, \/ ReceiveUnmatched(c) \/ TimerExpires(c)
                              \/ ReturnResponse(c) \/ ReturnTimedOut(c)
      PROVE  message' = message
  BY <1>4 DEF ReceiveUnmatched, TimerExpires, ReturnResponse, ReturnTimedOut
<1> QED
  BY <1>1, <1>2, <1>3, <1>4 DEF Next, MessagesShaped

LEMMA RxResponses ==
    ASSUME MessagesShaped, [RxNext]_allVars
    PROVE  /\ MessagesShaped'
           /\ \A c \in Calls, r \in Reqs :
                message'[c].response = r /\ message[c].response # r =>
                    ControlFallsThrough(r)
<1>1. Calls \cap Reqs = {} /\ None \notin Reqs
  BY ReceivePathAssumption
<1>2. CASE UpperLayerStep
  BY <1>1, <1>2, UpperLayerShapes DEF UpperLayerStep
<1>3. ASSUME NEW r \in Reqs, ControlFallsThrough(r)
      PROVE  /\ MessagesShaped'
             /\ \A c \in Calls : message'[c].response \in {message[c].response, r}
  <2>1. CASE message' = message
    BY <2>1 DEF MessagesShaped
  <2>2. CASE Deliver(ctrlDest[r], CtrlTag, r)
    BY <2>2, DeliverShapes
  <2> QED
    BY <1>3, <2>1, <2>2 DEF ControlFallsThrough, vars
<1>4. CASE \/ ControlStep \/ UNCHANGED allVars
           \/ \E r \in Reqs, e \in Eids : SendControl(r, e)
  <2>1. message' = message
    BY <1>4 DEF ControlStep, allVars, vars, SendControl
  <2> QED
    BY <2>1 DEF MessagesShaped
<1> QED
  BY <1>2, <1>3, <1>4 DEF RxNext

(***************************************************************************)
(* A response is surplus if its request was sent more than once and its    *)
(* coroutine has what it waited for.                                       *)
(***************************************************************************)
Surplus(r) == tries[r] > 1 /\ pktState[r] # "pushedForTransmission"

OwnResponses == \A r \in Reqs : resp[r] \in {NoResp, r}

SurplusFallsThrough ==
    OwnResponses => \A c \in Calls, r \in Reqs : message[c].response = r => Surplus(r)

LEMMA SurplusStays ==
    ASSUME CtrlInv, [CtrlNext]_ctrlVars
    PROVE  /\ OwnResponses' => OwnResponses
           /\ \A r \in Reqs : Surplus(r) => Surplus(r)'
<1>0. CtrlTypeOK
  BY DEF CtrlInv
<1>1. ASSUME NEW s \in Reqs, NEW reaches \in BOOLEAN, Push(s, reaches)
      PROVE  resp' = resp /\ \A r \in Reqs : Surplus(r) => Surplus(r)'
  <2>1. /\ pktState' = [pktState EXCEPT ![s] = "pushedForTransmission"]
        /\ tries' = [tries EXCEPT ![s] = 1] /\ resp' = resp /\ tries[s] = 0
    BY <1>1 DEF Push, CtrlInv, NotMade, Pushed
  <2> QED
    BY <1>0, <2>1 DEF Surplus, CtrlTypeOK
<1>2. ASSUME NEW reach \in SUBSET Resent, Poll(reach)
      PROVE  resp' = resp /\ \A r \in Reqs : Surplus(r) => Surplus(r)'
  <2> SUFFICES ASSUME NEW r \in Reqs, Surplus(r) PROVE Surplus(r)'
    BY <1>2 DEF Poll
  <2>1. /\ pktState'[r] = IF r \in GivenUp THEN "noResponse" ELSE pktState[r]
        /\ tries'[r] = IF r \in Resent THEN tries[r] + 1 ELSE tries[r]
        /\ tries[r] \in Nat
    BY <1>0, <1>2, Polled DEF CtrlTypeOK
  <2> QED
    BY <2>1 DEF Surplus
<1>3. ASSUME NEW s \in Reqs, NEW q \in Reqs, HandleCtrlResp(s, q)
      PROVE  /\ OwnResponses' => OwnResponses
             /\ \A r \in Reqs : Surplus(r) => Surplus(r)'
  <2>1. /\ pktState' = [pktState EXCEPT ![q] = "receivedResponse"]
        /\ resp' = [resp EXCEPT ![q] = s] /\ tries' = tries /\ q \in ctrlTxQueue
    BY <1>3 DEF HandleCtrlResp, Matching
  <2>2. resp[q] = NoResp
    BY <2>1 DEF CtrlInv, PushedInQueue, ToldOnce
  <2> QED
    BY <1>0, <2>1, <2>2 DEF Surplus, OwnResponses, CtrlTypeOK
<1>4. ASSUME NEW s \in Reqs, CtrlRespUnmatched(s) \/ Return(s)
      PROVE  resp' = resp /\ \A r \in Reqs : Surplus(r) => Surplus(r)'
  <2>1. /\ resp' = resp /\ tries' = tries
        /\ pktState' = pktState \/ pktState' = [pktState EXCEPT ![s] = "returned"]
    BY <1>4 DEF CtrlRespUnmatched, Return
  <2> QED
    BY <1>0, <2>1 DEF Surplus, CtrlTypeOK
<1>5. CASE UNCHANGED ctrlVars
  BY <1>5 DEF ctrlVars, OwnResponses, Surplus
<1>6. resp' = resp => (OwnResponses' => OwnResponses)
  BY DEF OwnResponses
<1> QED
  BY <1>1, <1>2, <1>3, <1>4, <1>5, <1>6 DEF CtrlNext

\* What the control queue does not take is surplus.
LEMMA UnmatchedIsSurplus ==
    ASSUME RetryCount >= 1, CtrlInv, TimeInv, OwnResponses,
           NEW r \in Reqs, ControlFallsThrough(r)
    PROVE  Surplus(r)
<1>0. CtrlTypeOK
  BY DEF CtrlInv
<1>1. atEndpoint[r] > 0 /\ Matching(r) = {}
  BY DEF ControlFallsThrough, CtrlRespUnmatched
<1>2. r \notin ctrlTxQueue
  BY <1>1 DEF Matching
<1>3. pktState[r] \in {"receivedResponse", "noResponse", "returned"}
  BY <1>0, <1>1, <1>2
  DEF CtrlInv, PushedInQueue, NotMade, Pushed, CtrlTypeOK, PacketStates
<1>4. atEndpoint[r] \in Nat /\ tries[r] \in Nat
  BY <1>0 DEF CtrlTypeOK
<1>5. CASE resp[r] = NoResp
  <2>1. pktState[r] \in {"noResponse", "returned"}
    BY <1>3, <1>5 DEF CtrlInv, ToldOnce
  <2>2. tries[r] = 1 + RetryCount
    BY <1>5, <2>1 DEF TimeInv, TriesCounted
  <2> QED
    BY <1>3, <2>2, CtrlAssumption DEF Surplus
<1>6. CASE resp[r] = r
  <2>1. atEndpoint[r] < tries[r]
    BY <1>6 DEF CtrlInv, Copies
  <2> QED
    BY <1>1, <1>3, <1>4, <2>1 DEF Surplus
<1> QED
  BY <1>5, <1>6 DEF OwnResponses

\* As long as no coroutine was given the response to another request, only
\* surplus control responses are taken for those of upper layer calls.
THEOREM OnlySurplusIsTaken ==
    ASSUME DelaysFit, RetryCount >= 1
    PROVE  RxSpec => []SurplusFallsThrough
<1> DEFINE I == MessagesShaped /\ SurplusFallsThrough
<1>1. RxInit => I
  <2> SUFFICES ASSUME RxInit PROVE I
    OBVIOUS
  <2>1. message = [c \in Calls |-> NoMessage] /\ NoMessage.response = None
    BY DEF RxInit, Init, NoMessage
  <2>2. Shaped(NoMessage)
    BY DEF NoMessage, Shaped
  <2> QED
    BY <2>1, <2>2, ReceivePathAssumption DEF MessagesShaped, SurplusFallsThrough
<1>2. I /\ CtrlInv /\ TimeInv /\ [RxNext]_allVars => I'
  <2> SUFFICES ASSUME I, CtrlInv, TimeInv, [RxNext]_allVars PROVE I'
    OBVIOUS
  <2>1. [CtrlNext]_ctrlVars
    <3>1. UNCHANGED allVars => UNCHANGED ctrlVars
      BY DEF allVars, ctrlVars
    <3> QED
      BY <3>1, CtrlStepOf
  <2>2. MessagesShaped'
    BY RxResponses
  <2>3. SurplusFallsThrough'
    <3> SUFFICES ASSUME OwnResponses', NEW c \in Calls, NEW r \in Reqs,
                        message'[c].response = r
                 PROVE  Surplus(r)'
      BY DEF SurplusFallsThrough
    <3>1. OwnResponses /\ (Surplus(r) => Surplus(r)')
      BY <2>1, SurplusStays
    <3>2. CASE message[c].response = r
      BY <3>1, <3>2 DEF SurplusFallsThrough
    <3>3. CASE message[c].response # r
      <4>1. ControlFallsThrough(r)
        BY <3>3, RxResponses
      <4> QED
        BY <3>1, <4>1, UnmatchedIsSurplus
    <3> QED
      BY <3>2, <3>3
  <2> QED
    BY <2>2, <2>3
<1>3. RxSpec => [](CtrlInv /\ TimeInv)
  BY ControlQueueIsKept, CtrlAlways, TimeAlways, PTL
<1> QED
  BY <1>1, <1>2, <1>3, PTL DEF RxSpec

(***************************************************************************)
(* With no more requests than instance IDs, none is given the response to  *)
(* another.                                                                *)
(***************************************************************************)
Counted ==
    /\ made = Cardinality({r \in Reqs : Pushed(r)})
    /\ \A r, q \in Reqs :
          Pushed(r) /\ Pushed(q) /\ entry[r].place = entry[q].place => r = q

LEMMA CountedAlways == ASSUME IsFiniteSet(Reqs) PROVE CtrlSpec => []Counted
<1>1. CtrlInit => Counted
  <2> SUFFICES ASSUME CtrlInit PROVE Counted
    OBVIOUS
  <2>1. {r \in Reqs : Pushed(r)} = {} /\ made = 0
    BY DEF CtrlInit, Pushed
  <2> QED
    BY <2>1, FS_EmptySet DEF Counted
<1>2. Counted /\ CtrlInv /\ [CtrlNext]_ctrlVars => Counted'
  <2> SUFFICES ASSUME Counted, CtrlInv, [CtrlNext]_ctrlVars PROVE Counted'
    OBVIOUS
  <2>0. CtrlTypeOK
    BY DEF CtrlInv
  <2>1. ASSUME NEW s \in Reqs, NEW reaches \in BOOLEAN, Push(s, reaches)
        PROVE  Counted'
    <3> DEFINE P == {r \in Reqs : Pushed(r)}
    <3>1. /\ pktState[s] = "none" /\ made' = made + 1 /\ made \in Nat
          /\ pktState' = [pktState EXCEPT ![s] = "pushedForTransmission"]
          /\ \A r \in Reqs \ {s} : entry'[r] = entry[r]
          /\ entry'[s].place = made
      BY <2>0, <2>1 DEF Push, CtrlTypeOK
    <3>2. P' = P \cup {s} /\ s \notin P
      BY <2>0, <3>1 DEF Pushed, CtrlTypeOK
    <3>3. IsFiniteSet(P)
      BY FS_Subset
    <3>4. Cardinality(P \cup {s}) = Cardinality(P) + 1
      BY <3>2, <3>3, FS_AddElement
    <3>5. made' = Cardinality({r \in Reqs : Pushed(r)})'
      BY <3>1, <3>2, <3>4 DEF Counted
    <3>6. ASSUME NEW r \in Reqs, NEW q \in Reqs, Pushed(r)', Pushed(q)',
                 entry'[r].place = entry'[q].place
          PROVE  r = q
      <4>1. \A p \in Reqs \ {s} : Pushed(p)' => Pushed(p) /\ entry[p].place < made
        BY <2>0, <3>1 DEF Pushed, CtrlInv, RoundOfIds, CtrlTypeOK
      <4>2. \A p \in Reqs : entry[p].place \in Nat
        BY <2>0 DEF CtrlTypeOK, Entry
      <4> QED
        BY <3>1, <3>6, <4>1, <4>2 DEF Counted
    <3> QED
      BY <3>5, <3>6 DEF Counted
  <2>2. ASSUME made' = made,
               \A r \in Reqs : (Pushed(r)' <=> Pushed(r)) /\ entry'[r].place = entry[r].place
        PROVE  Counted'
    <3>1. {r \in Reqs : Pushed(r)}' = {r \in Reqs : Pushed(r)}
      BY <2>2
    <3> QED
      BY <2>2, <3>1 DEF Counted
  <2>3. ASSUME NEW reach \in SUBSET Resent, Poll(reach)
        PROVE  Counted'
    <3>1. \A r \in Reqs : (Pushed(r)' <=> Pushed(r)) /\ entry'[r].place = entry[r].place
      <4>1. \A r \in GivenUp : r \in Reqs /\ Pushed(r)
        BY <2>0 DEF GivenUp, CtrlInv, PushedInQueue, Pushed, CtrlTypeOK
      <4> QED
        BY <2>0, <2>3, <4>1, Polled DEF Pushed
    <3> QED
      BY <2>2, <2>3, <3>1 DEF Poll
  <2>4. ASSUME NEW s \in Reqs, NEW q \in Reqs, HandleCtrlResp(s, q)
        PROVE  Counted'
    <3>1. pktState[q] = "pushedForTransmission"
      BY <2>4 DEF HandleCtrlResp, Matching, CtrlInv, PushedInQueue
    <3>2. \A r \in Reqs : (Pushed(r)' <=> Pushed(r)) /\ entry'[r].place = entry[r].place
      BY <2>0, <2>4, <3>1 DEF HandleCtrlResp, Pushed, CtrlTypeOK
    <3> QED
      BY <2>2, <2>4, <3>2 DEF HandleCtrlResp
  <2>5. ASSUME NEW s \in Reqs, CtrlRespUnmatched(s) \/ Return(s)
        PROVE  Counted'
    <3>1. \A r \in Reqs : (Pushed(r)' <=> Pushed(r)) /\ entry'[r].place = entry[r].place
      BY <2>0, <2>5 DEF CtrlRespUnmatched, Return, Pushed, CtrlTypeOK
    <3>2. made' = made
      BY <2>5 DEF CtrlRespUnmatched, Return
    <3> QED
      BY <2>2, <3>1, <3>2
  <2>6. CASE UNCHANGED ctrlVars
    BY <2>6 DEF ctrlVars, Counted, Pushed
  <2> QED
    BY <2>1, <2>3, <2>4, <2>5, <2>6 DEF CtrlNext
<1> QED
  BY <1>1, <1>2, CtrlAlways, PTL DEF CtrlSpec

LEMMA OwnWithEnoughIds ==
    ASSUME IsFiniteSet(Reqs), Cardinality(Reqs) <= InstanceIds, CtrlInv, Counted
    PROVE  OwnResponses
<1> SUFFICES ASSUME NEW r \in Reqs, NEW q \in Reqs, resp[r] = q PROVE r = q
  BY DEF OwnResponses, CtrlInv, CtrlTypeOK
<1> PICK a, b : a = entry[r].place /\ b = entry[q].place
  OBVIOUS
<1>1. /\ a \in Nat /\ b \in Nat /\ Pushed(r) /\ Pushed(q) /\ a < made /\ b < made
      /\ (a + 1) % InstanceIds = (b + 1) % InstanceIds
  BY DEF CtrlInv, CtrlTypeOK, Entry, GivenById, RoundOfIds
<1>2. made \in Nat /\ made <= InstanceIds
  <2>1. Cardinality({s \in Reqs : Pushed(s)}) <= Cardinality(Reqs)
    BY FS_Subset
  <2>2. Cardinality(Reqs) \in Nat
    BY FS_CardinalityType
  <2> QED
    BY <2>1, <2>2, CtrlAssumption DEF Counted, CtrlInv, CtrlTypeOK
<1>3. a = b
  <2>1. \A x, y \in Nat : x < y /\ y < InstanceIds =>
            (x + 1) % InstanceIds # (y + 1) % InstanceIds
    <3> SUFFICES ASSUME NEW x \in Nat, NEW y \in Nat, x < y, y < InstanceIds,
                        (x + 1) % InstanceIds = (y + 1) % InstanceIds
                 PROVE  FALSE
      OBVIOUS
    <3> PICK u \in Int, v \in Int : u = x + 1 /\ v = y + 1
      OBVIOUS
    <3>1. v - u = y - x /\ v % InstanceIds = u % InstanceIds
      OBVIOUS
    <3>2. (v - u) % InstanceIds = 0
      BY <3>1, SameRemainder, CtrlAssumption
    <3>3. y - x \in 1 .. InstanceIds - 1
      BY CtrlAssumption
    <3>4. (y - x) % InstanceIds = y - x
      BY <3>3, CtrlAssumption
    <3> QED
      BY <3>1, <3>2, <3>3, <3>4
  <2>2. a < InstanceIds /\ b < InstanceIds
    BY <1>1, <1>2, CtrlAssumption
  <2>3. ~(a < b) /\ ~(b < a)
    BY <1>1, <2>1, <2>2
  <2> QED
    BY <1>1, <2>3
<1> QED
  BY <1>1, <1>3 DEF Counted

\* Only a surplus control response is taken for that of an upper layer call,
\* with at least one retry, delays that fit the polls and no more requests
\* than instance IDs.
THEOREM OnlySurplusFalls ==
    ASSUME DelaysFit, RetryCount >= 1, IsFiniteSet(Reqs), Cardinality(Reqs) <= InstanceIds
    PROVE  RxSpec => []OnlySurplusFallsThrough
<1>1. RxSpec => [](CtrlInv /\ Counted)
  BY ControlQueueIsKept, CtrlAlways, CountedAlways, PTL
<1>2. CtrlInv /\ Counted /\ SurplusFallsThrough => OnlySurplusFallsThrough
  BY OwnWithEnoughIds DEF SurplusFallsThrough, OnlySurplusFallsThrough, Surplus
<1> QED
  BY <1>1, <1>2, OnlySurplusIsTaken, PTL

=============================================================================
