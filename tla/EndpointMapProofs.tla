-------------------------- MODULE EndpointMapProofs --------------------------
(***************************************************************************)
(* The endpoint map of mctpwplus is current when all that a service has    *)
(* sent was handled, for any services, endpoints and number of changes.    *)
(*                                                                         *)
(* Signals and answers overtake each other, so the map is right or what is *)
(* under way will make it so: an endpoint that is offered is in the map    *)
(* and no message erases it, or a message will put it there; one that is   *)
(* not is erased by a message after which nothing puts it back, or neither *)
(* is it in the map nor does a message put it there (Tracked).             *)
(***************************************************************************)
EXTENDS EndpointMap, SequenceTheorems, TLAPS

Message == Signal \cup ServiceSignal \cup Reply

Erases(m, e) == m.kind = "removed" /\ m.eid = e

Tells(m, e) == m.kind = "reply" /\ e \in m.eids

NoErase(q, e) == \A m \in ToSet(q) : ~Erases(m, e)

NoTell(q, e) == \A m \in ToSet(q) : ~Tells(m, e)

Adds(q) == \E m \in ToSet(q) : m.kind = "added"

\* A message tells of e, and none after it erases e.
TellsLast(q, e) ==
    \E k \in DOMAIN q : /\ Tells(q[k], e)
                        /\ \A j \in DOMAIN q : j > k => ~Erases(q[j], e)

ErasesLast(q, e) ==
    \E k \in DOMAIN q : /\ Erases(q[k], e)
                        /\ \A j \in DOMAIN q : j > k => ~Tells(q[j], e)

-----------------------------------------------------------------------------
(***************************************************************************)
(* The invariant.                                                          *)
(***************************************************************************)
\* What is said of an endpoint is said by a service that has offered it.
OfferedOwned == \A s \in Services, e \in Eids : e \in offered[s] => s \in owners[e]

Owned(s, m) ==
    /\ m.kind \in {"added", "removed"} => s \in owners[m.eid]
    /\ m.kind = "reply" => \A e \in m.eids : s \in owners[e]

MessagesOwned == \A s \in Services : \A m \in ToSet(inbox[s]) : Owned(s, m)

MapsOwned ==
    \A e \in Eids : /\ found[e] # None => found[e] \in owners[e]
                    /\ endpointMap[e] # None => endpointMap[e] \in owners[e]

OwnersKnown == OfferedOwned /\ MessagesOwned /\ MapsOwned

Still(s) == inbox[s] = <<>> /\ asked[s] = <<>>

\* detectMctpEndpoints has asked s; the answer is under way or has come.
BeingRead(s) ==
    /\ s \notin left
    /\ \/ inbox[s] = <<>> /\ asked[s] = <<Detect>>
       \/ /\ asked[s] = <<>>
          /\ \E eids \in SUBSET Eids :
                inbox[s] = <<[kind |-> "reply", to |-> Detect, eids |-> eids]>>

NoneIn(map) == \A e \in Eids : map[e] = None

Finding == phase = "find" => NoneIn(found) /\ \A s \in Services : Still(s)

ReadingOne ==
    phase = "read" =>
        \E s \in Services : BeingRead(s) /\ \A t \in Services \ {s} : Still(t)

DetectIsOver ==
    phase = "done" =>
        /\ monitoring
        /\ \A s \in Services : \A k \in DOMAIN asked[s] : asked[s][k] # Detect
        /\ \A s \in Services : \A m \in ToSet(inbox[s]) :
              m.kind = "reply" => m.to # Detect

Phases ==
    /\ \A s \in Services \ up : offered[s] = {} /\ asked[s] = <<>>
    /\ phase # "done" => ~monitoring /\ NoneIn(endpointMap)
    /\ Finding /\ ReadingOne /\ DetectIsOver

\* e, which s offers, is in the map when what is under way has been handled.
Present(s, e) ==
    \/ asked[s] # <<>>
    \/ Adds(inbox[s])
    \/ TellsLast(inbox[s], e)
    \/ endpointMap[e] = s /\ NoErase(inbox[s], e)

\* e is not in the map, as an endpoint of s, when all has been handled.
Absent(s, e) ==
    \/ ErasesLast(inbox[s], e)
    \/ endpointMap[e] # s /\ NoTell(inbox[s], e)

\* What is known of s as long as its endpoints are being read
Reading(s, e) ==
    /\ Unread(s) => found[e] # s
    /\ ~Unread(s) /\ inbox[s] # <<>> =>
          found[e] # s /\ (e \in Head(inbox[s]).eids <=> e \in offered[s])
    /\ ~Unread(s) /\ inbox[s] = <<>> => (found[e] = s <=> e \in offered[s])

TrackedAt(s, e) ==
    /\ phase = "read" => Reading(s, e)
    /\ phase = "done" /\ e \in offered[s] => Present(s, e)
    /\ phase = "done" /\ e \notin offered[s] => Absent(s, e)

Tracked ==
    \A s \in Services, e \in Eids : Followed(s, e) => TrackedAt(s, e)

-----------------------------------------------------------------------------
(***************************************************************************)
(* Queues of messages.                                                     *)
(***************************************************************************)
LEMMA Appended ==
    ASSUME NEW S, NEW q \in Seq(S), NEW m \in S
    PROVE  /\ Append(q, m) \in Seq(S) /\ Append(q, m) # <<>>
           /\ DOMAIN Append(q, m) = 1 .. Len(q) + 1
           /\ \A k \in 1 .. Len(q) : Append(q, m)[k] = q[k]
           /\ Append(q, m)[Len(q) + 1] = m
           /\ ToSet(Append(q, m)) = ToSet(q) \cup {m}
<1>1. Len(q) \in Nat /\ DOMAIN q = 1 .. Len(q)
  BY LenProperties
<1>2. /\ Append(q, m) \in Seq(S) /\ Append(q, m) # <<>>
      /\ DOMAIN Append(q, m) = 1 .. Len(q) + 1
      /\ \A k \in 1 .. Len(q) : Append(q, m)[k] = q[k]
      /\ Append(q, m)[Len(q) + 1] = m
  BY <1>1
<1>3. ToSet(Append(q, m)) = ToSet(q) \cup {m}
  <2>1. 1 .. Len(q) + 1 = (1 .. Len(q)) \cup {Len(q) + 1}
    BY <1>1
  <2> DEFINE a == Append(q, m)
  <2>2. {a[k] : k \in 1 .. Len(q) + 1} = {a[k] : k \in 1 .. Len(q)} \cup {a[Len(q) + 1]}
    BY <2>1
  <2>3. {a[k] : k \in 1 .. Len(q)} = {q[k] : k \in 1 .. Len(q)}
    BY <1>2
  <2> QED
    BY <1>1, <1>2, <2>2, <2>3 DEF ToSet
<1> QED
  BY <1>2, <1>3

LEMMA Tailed ==
    ASSUME NEW S, NEW q \in Seq(S), q # <<>>
    PROVE  /\ Len(q) \in Nat \ {0} /\ DOMAIN q = 1 .. Len(q)
           /\ Head(q) = q[1] /\ Head(q) \in S /\ Head(q) \in ToSet(q)
           /\ Tail(q) \in Seq(S)
           /\ DOMAIN Tail(q) = 1 .. Len(q) - 1
           /\ \A k \in 1 .. Len(q) - 1 : Tail(q)[k] = q[k + 1]
           /\ ToSet(Tail(q)) \subseteq ToSet(q)
<1>1. Len(q) \in Nat \ {0} /\ DOMAIN q = 1 .. Len(q)
  BY EmptySeq, LenProperties
<1>2. Head(q) = q[1]
  OBVIOUS
<1>3. /\ Head(q) \in S /\ Tail(q) \in Seq(S) /\ Len(Tail(q)) = Len(q) - 1
      /\ \A k \in 1 .. Len(Tail(q)) : Tail(q)[k] = q[k + 1]
  BY HeadTailProperties
<1>4. DOMAIN Tail(q) = 1 .. Len(q) - 1
  BY <1>3, LenProperties
<1>5. Head(q) \in ToSet(q)
  BY <1>1, <1>2 DEF ToSet
<1>6. ToSet(Tail(q)) \subseteq ToSet(q)
  <2> SUFFICES ASSUME NEW k \in 1 .. Len(q) - 1 PROVE Tail(q)[k] \in ToSet(q)
    BY <1>4 DEF ToSet
  <2>1. Tail(q)[k] = q[k + 1] /\ k + 1 \in 1 .. Len(q)
    BY <1>1, <1>3
  <2> QED
    BY <1>1, <2>1 DEF ToSet
<1> QED
  BY <1>1, <1>2, <1>3, <1>4, <1>5, <1>6

LEMMA AppendKeeps ==
    ASSUME NEW S, NEW q \in Seq(S), NEW m \in S, NEW e
    PROVE  /\ NoErase(q, e) /\ ~Erases(m, e) => NoErase(Append(q, m), e)
           /\ NoTell(q, e) /\ ~Tells(m, e) => NoTell(Append(q, m), e)
           /\ Adds(q) \/ m.kind = "added" => Adds(Append(q, m))
           /\ Tells(m, e) \/ (TellsLast(q, e) /\ ~Erases(m, e)) =>
                 TellsLast(Append(q, m), e)
           /\ Erases(m, e) \/ (ErasesLast(q, e) /\ ~Tells(m, e)) =>
                 ErasesLast(Append(q, m), e)
<1> DEFINE a == Append(q, m)
           n == Len(q)
<1>1. n \in Nat /\ DOMAIN q = 1 .. n
  BY LenProperties
<1>2. /\ DOMAIN a = 1 .. n + 1 /\ \A k \in 1 .. n : a[k] = q[k]
      /\ a[n + 1] = m /\ ToSet(a) = ToSet(q) \cup {m}
  BY Appended
<1> HIDE DEF a, n
<1>3. /\ NoErase(q, e) /\ ~Erases(m, e) => NoErase(a, e)
      /\ NoTell(q, e) /\ ~Tells(m, e) => NoTell(a, e)
      /\ Adds(q) \/ m.kind = "added" => Adds(a)
  BY <1>2 DEF NoErase, NoTell, Adds
<1>4. \A k \in 1 .. n + 1 : k \in 1 .. n \/ k = n + 1
  BY <1>1
<1>5. 1 .. n \subseteq 1 .. n + 1 /\ n + 1 \in 1 .. n + 1
  BY <1>1
<1>6. \A k \in 1 .. n : ~(k > n + 1)
  BY <1>1
<1>7. Tells(m, e) \/ (TellsLast(q, e) /\ ~Erases(m, e)) => TellsLast(a, e)
  <2>1. CASE Tells(m, e)
    <3>1. \A j \in 1 .. n + 1 : ~(j > n + 1)
      BY <1>1
    <3> QED
      BY <1>2, <1>5, <2>1, <3>1 DEF TellsLast
  <2>2. CASE TellsLast(q, e) /\ ~Erases(m, e)
    <3>1. PICK k \in 1 .. n : /\ Tells(q[k], e)
                              /\ \A j \in 1 .. n : j > k => ~Erases(q[j], e)
      BY <1>1, <2>2 DEF TellsLast
    <3>2. \A j \in 1 .. n + 1 : j > k => ~Erases(a[j], e)
      BY <1>2, <1>4, <2>2, <3>1
    <3>3. Tells(a[k], e) /\ k \in 1 .. n + 1
      BY <1>2, <1>5, <3>1
    <3> QED
      BY <1>2, <3>2, <3>3 DEF TellsLast
  <2> QED
    BY <2>1, <2>2
<1>8. Erases(m, e) \/ (ErasesLast(q, e) /\ ~Tells(m, e)) => ErasesLast(a, e)
  <2>1. CASE Erases(m, e)
    <3>1. \A j \in 1 .. n + 1 : ~(j > n + 1)
      BY <1>1
    <3> QED
      BY <1>2, <1>5, <2>1, <3>1 DEF ErasesLast
  <2>2. CASE ErasesLast(q, e) /\ ~Tells(m, e)
    <3>1. PICK k \in 1 .. n : /\ Erases(q[k], e)
                              /\ \A j \in 1 .. n : j > k => ~Tells(q[j], e)
      BY <1>1, <2>2 DEF ErasesLast
    <3>2. \A j \in 1 .. n + 1 : j > k => ~Tells(a[j], e)
      BY <1>2, <1>4, <2>2, <3>1
    <3>3. Erases(a[k], e) /\ k \in 1 .. n + 1
      BY <1>2, <1>5, <3>1
    <3> QED
      BY <1>2, <3>2, <3>3 DEF ErasesLast
  <2> QED
    BY <2>1, <2>2
<1> QED
  BY <1>3, <1>7, <1>8 DEF a

LEMMA TailKeeps ==
    ASSUME NEW S, NEW q \in Seq(S), q # <<>>, NEW e
    PROVE  /\ NoErase(q, e) => NoErase(Tail(q), e) /\ ~Erases(Head(q), e)
           /\ NoTell(q, e) => NoTell(Tail(q), e) /\ ~Tells(Head(q), e)
           /\ Adds(q) => Adds(Tail(q)) \/ Head(q).kind = "added"
           /\ TellsLast(q, e) => \/ TellsLast(Tail(q), e)
                                 \/ Tells(Head(q), e) /\ NoErase(Tail(q), e)
           /\ ErasesLast(q, e) => \/ ErasesLast(Tail(q), e)
                                  \/ Erases(Head(q), e) /\ NoTell(Tail(q), e)
<1> DEFINE a == Tail(q)
           n == Len(q)
<1>1. /\ n \in Nat \ {0} /\ DOMAIN q = 1 .. n /\ Head(q) = q[1]
      /\ DOMAIN a = 1 .. n - 1 /\ \A k \in 1 .. n - 1 : a[k] = q[k + 1]
      /\ ToSet(a) \subseteq ToSet(q) /\ Head(q) \in ToSet(q)
  BY Tailed
<1> HIDE DEF a, n
<1>2. \A k \in 1 .. n : k = 1 \/ (k - 1 \in 1 .. n - 1 /\ k = (k - 1) + 1)
  BY <1>1
<1>3. \A m \in ToSet(q) : m = Head(q) \/ m \in ToSet(a)
  <2> SUFFICES ASSUME NEW k \in 1 .. n PROVE q[k] = Head(q) \/ q[k] \in ToSet(a)
    BY <1>1 DEF ToSet
  <2>1. CASE k = 1
    BY <1>1, <2>1
  <2>2. CASE k - 1 \in 1 .. n - 1 /\ k = (k - 1) + 1
    <3>1. a[k - 1] = q[k]
      BY <1>1, <2>2
    <3> QED
      BY <1>1, <2>2, <3>1 DEF ToSet
  <2> QED
    BY <1>2, <2>1, <2>2
<1>4. /\ NoErase(q, e) => NoErase(a, e) /\ ~Erases(Head(q), e)
      /\ NoTell(q, e) => NoTell(a, e) /\ ~Tells(Head(q), e)
      /\ Adds(q) => Adds(a) \/ Head(q).kind = "added"
  BY <1>1, <1>3 DEF NoErase, NoTell, Adds
<1>5. \A j \in 1 .. n - 1 : j + 1 \in 1 .. n /\ j + 1 > 1
  BY <1>1
<1>6. ASSUME TellsLast(q, e)
      PROVE  TellsLast(a, e) \/ (Tells(Head(q), e) /\ NoErase(a, e))
  <2>1. PICK k \in 1 .. n : /\ Tells(q[k], e)
                            /\ \A j \in 1 .. n : j > k => ~Erases(q[j], e)
    BY <1>1, <1>6 DEF TellsLast
  <2>2. CASE k = 1
    <3>1. \A j \in 1 .. n - 1 : ~Erases(a[j], e)
      BY <1>1, <1>5, <2>1, <2>2
    <3> QED
      BY <1>1, <2>1, <2>2, <3>1 DEF NoErase, ToSet
  <2>3. CASE k - 1 \in 1 .. n - 1 /\ k = (k - 1) + 1
    <3>1. \A j \in 1 .. n - 1 : j > k - 1 => j + 1 > k
      BY <1>1
    <3>2. \A j \in 1 .. n - 1 : j > k - 1 => ~Erases(a[j], e)
      BY <1>1, <1>5, <2>1, <3>1
    <3>3. Tells(a[k - 1], e)
      BY <1>1, <2>1, <2>3
    <3> QED
      BY <1>1, <2>3, <3>2, <3>3 DEF TellsLast
  <2> QED
    BY <1>2, <2>2, <2>3
<1>7. ASSUME ErasesLast(q, e)
      PROVE  ErasesLast(a, e) \/ (Erases(Head(q), e) /\ NoTell(a, e))
  <2>1. PICK k \in 1 .. n : /\ Erases(q[k], e)
                            /\ \A j \in 1 .. n : j > k => ~Tells(q[j], e)
    BY <1>1, <1>7 DEF ErasesLast
  <2>2. CASE k = 1
    <3>1. \A j \in 1 .. n - 1 : ~Tells(a[j], e)
      BY <1>1, <1>5, <2>1, <2>2
    <3> QED
      BY <1>1, <2>1, <2>2, <3>1 DEF NoTell, ToSet
  <2>3. CASE k - 1 \in 1 .. n - 1 /\ k = (k - 1) + 1
    <3>1. \A j \in 1 .. n - 1 : j > k - 1 => j + 1 > k
      BY <1>1
    <3>2. \A j \in 1 .. n - 1 : j > k - 1 => ~Tells(a[j], e)
      BY <1>1, <1>5, <2>1, <3>1
    <3>3. Erases(a[k - 1], e)
      BY <1>1, <2>1, <2>3
    <3> QED
      BY <1>1, <2>3, <3>2, <3>3 DEF ErasesLast
  <2> QED
    BY <1>2, <2>2, <2>3
<1> QED
  BY <1>4, <1>6, <1>7 DEF a

LEMMA ConcatPlaces ==
    ASSUME NEW S, NEW q \in Seq(S), NEW r \in Seq(S)
    PROVE  /\ q \o r \in Seq(S) /\ DOMAIN (q \o r) = 1 .. Len(q) + Len(r)
           /\ \A k \in 1 .. Len(q) : /\ k \in 1 .. Len(q) + Len(r)
                                    /\ (q \o r)[k] = q[k]
           /\ \A k \in 1 .. Len(q) + Len(r) :
                 k \in 1 .. Len(q) \/ (q \o r)[k] \in ToSet(r)
           /\ ToSet(q \o r) = ToSet(q) \cup ToSet(r)
<1> DEFINE a == q \o r
           n == Len(q)
           i == Len(r)
<1>1. n \in Nat /\ DOMAIN q = 1 .. n /\ i \in Nat /\ DOMAIN r = 1 .. i
  BY LenProperties
<1>2. /\ a \in Seq(S) /\ DOMAIN a = 1 .. n + i
      /\ \A k \in 1 .. n + i : a[k] = IF k <= n THEN q[k] ELSE r[k - n]
  BY ConcatProperties, LenProperties
<1> HIDE DEF a, n, i
<1>3. \A k \in 1 .. n : k \in 1 .. n + i /\ k <= n
  BY <1>1
<1>4. \A k \in 1 .. n + i : k \in 1 .. n \/ (~(k <= n) /\ k - n \in 1 .. i)
  BY <1>1
<1>5. \A k \in 1 .. i : k + n \in 1 .. n + i /\ ~(k + n <= n) /\ (k + n) - n = k
  BY <1>1
<1>6. \A k \in 1 .. n : a[k] = q[k]
  BY <1>2, <1>3
<1>7. \A k \in 1 .. n + i : k \in 1 .. n \/ a[k] \in ToSet(r)
  BY <1>1, <1>2, <1>4 DEF ToSet
<1>8. ToSet(a) = ToSet(q) \cup ToSet(r)
  <2>1. \A k \in 1 .. n : q[k] \in ToSet(a)
    <3> SUFFICES ASSUME NEW k \in 1 .. n PROVE q[k] \in ToSet(a)
      OBVIOUS
    <3>1. k \in 1 .. n + i /\ a[k] = q[k]
      BY <1>3, <1>6
    <3> QED
      BY <1>2, <3>1 DEF ToSet
  <2>2. \A k \in 1 .. i : r[k] \in ToSet(a)
    <3> SUFFICES ASSUME NEW k \in 1 .. i PROVE r[k] \in ToSet(a)
      OBVIOUS
    <3>1. k + n \in 1 .. n + i /\ a[k + n] = r[k]
      BY <1>2, <1>5
    <3> QED
      BY <1>2, <3>1 DEF ToSet
  <2>3. \A k \in 1 .. n + i : a[k] \in ToSet(q) \cup ToSet(r)
    <3> SUFFICES ASSUME NEW k \in 1 .. n + i PROVE a[k] \in ToSet(q) \cup ToSet(r)
      OBVIOUS
    <3>1. CASE k \in 1 .. n
      BY <1>1, <1>6, <3>1 DEF ToSet
    <3> QED
      BY <1>7, <3>1
  <2> QED
    BY <1>1, <1>2, <2>1, <2>2, <2>3 DEF ToSet
<1> QED
  BY <1>2, <1>3, <1>6, <1>7, <1>8 DEF a, n, i

\* Messages that neither tell of e nor erase it change nothing.
LEMMA ConcatKeeps ==
    ASSUME NEW S, NEW q \in Seq(S), NEW r \in Seq(S), NEW e,
           \A m \in ToSet(r) : ~Erases(m, e) /\ ~Tells(m, e)
    PROVE  /\ NoErase(q, e) => NoErase(q \o r, e)
           /\ NoTell(q, e) => NoTell(q \o r, e)
           /\ Adds(q) => Adds(q \o r)
           /\ TellsLast(q, e) => TellsLast(q \o r, e)
           /\ ErasesLast(q, e) => ErasesLast(q \o r, e)
<1> DEFINE a == q \o r
           n == Len(q)
           i == Len(r)
<1>1. n \in Nat /\ DOMAIN q = 1 .. n
  BY LenProperties
<1>2. /\ DOMAIN a = 1 .. n + i
      /\ \A k \in 1 .. n : k \in 1 .. n + i /\ a[k] = q[k]
      /\ \A k \in 1 .. n + i : k \in 1 .. n \/ a[k] \in ToSet(r)
      /\ ToSet(a) = ToSet(q) \cup ToSet(r)
  BY ConcatPlaces
<1> HIDE DEF a, n, i
<1>3. /\ NoErase(q, e) => NoErase(a, e)
      /\ NoTell(q, e) => NoTell(a, e)
      /\ Adds(q) => Adds(a)
  BY <1>2 DEF NoErase, NoTell, Adds
<1>4. TellsLast(q, e) => TellsLast(a, e)
  <2> SUFFICES ASSUME TellsLast(q, e) PROVE TellsLast(a, e)
    OBVIOUS
  <2>1. PICK k \in 1 .. n : /\ Tells(q[k], e)
                            /\ \A j \in 1 .. n : j > k => ~Erases(q[j], e)
    BY <1>1 DEF TellsLast
  <2>2. \A j \in 1 .. n + i : j > k => ~Erases(a[j], e)
    BY <1>2, <2>1
  <2>3. Tells(a[k], e) /\ k \in 1 .. n + i
    BY <1>2, <2>1
  <2> QED
    BY <1>2, <2>2, <2>3 DEF TellsLast
<1>5. ErasesLast(q, e) => ErasesLast(a, e)
  <2> SUFFICES ASSUME ErasesLast(q, e) PROVE ErasesLast(a, e)
    OBVIOUS
  <2>1. PICK k \in 1 .. n : /\ Erases(q[k], e)
                            /\ \A j \in 1 .. n : j > k => ~Tells(q[j], e)
    BY <1>1 DEF ErasesLast
  <2>2. \A j \in 1 .. n + i : j > k => ~Tells(a[j], e)
    BY <1>2, <2>1
  <2>3. Erases(a[k], e) /\ k \in 1 .. n + i
    BY <1>2, <2>1
  <2> QED
    BY <1>2, <2>2, <2>3 DEF ErasesLast
<1> QED
  BY <1>3, <1>4, <1>5 DEF a

-----------------------------------------------------------------------------
(***************************************************************************)
(* What the steps do to the queues.                                        *)
(***************************************************************************)
InboxType == inbox \in [Services -> Seq(Message)]

AskedType == asked \in [Services -> Seq(Eids \cup {Detect})]

LEMMA Queues == TypeOK => InboxType /\ AskedType
BY DEF TypeOK, InboxType, AskedType, Message

\* A signal is queued, or not heard.
LEMMA Sent ==
    ASSUME TypeOK, NEW t \in Services, NEW m \in Message, Send(t, m)
    PROVE  /\ InboxType'
           /\ \A s \in Services \ {t} : inbox'[s] = inbox[s]
           /\ \/ /\ monitoring
                 /\ inbox'[t] = Append(inbox[t], m) /\ inbox[t] \in Seq(Message)
                 /\ missed' = missed
              \/ /\ ~monitoring /\ inbox' = inbox
                 /\ missed' = IF Unread(t) THEN missed ELSE missed \cup {t}
<1>1. inbox \in [Services -> Seq(Message)]
  BY Queues DEF InboxType
<1>2. CASE monitoring
  <2>1. /\ inbox' = [inbox EXCEPT ![t] = Append(@, m)]
        /\ missed' = missed
    BY <1>2 DEF Send
  <2>2. inbox[t] \in Seq(Message) /\ Append(inbox[t], m) \in Seq(Message)
    BY <1>1, Appended
  <2> QED
    BY <1>1, <1>2, <2>1, <2>2 DEF InboxType
<1>3. CASE ~monitoring
  BY <1>1, <1>3 DEF Send, InboxType
<1> QED
  BY <1>2, <1>3

LEMMA SentMessages ==
    ASSUME TypeOK, NEW t \in Services, NEW m \in Message, Send(t, m)
    PROVE  \A s \in Services : \A n \in ToSet(inbox'[s]) :
              n \in ToSet(inbox[s]) \/ (s = t /\ n = m)
<1>1. CASE inbox' = inbox
  BY <1>1
<1>2. CASE /\ inbox[t] \in Seq(Message) /\ inbox'[t] = Append(inbox[t], m)
           /\ \A s \in Services \ {t} : inbox'[s] = inbox[s]
  <2>1. ToSet(inbox'[t]) = ToSet(inbox[t]) \cup {m}
    BY <1>2, Appended
  <2> QED
    BY <1>2, <2>1
<1> QED
  BY <1>1, <1>2, Sent

\* The first message is taken.
LEMMA Got ==
    ASSUME TypeOK, NEW t \in Services, NEW kind, Received(t, kind)
    PROVE  /\ InboxType' /\ inbox[t] \in Seq(Message) /\ inbox[t] # <<>>
           /\ \A s \in Services \ {t} : inbox'[s] = inbox[s]
           /\ inbox'[t] = Tail(inbox[t])
           /\ \A s \in Services : ToSet(inbox'[s]) \subseteq ToSet(inbox[s])
           /\ Head(inbox[t]) \in Message /\ Head(inbox[t]) \in ToSet(inbox[t])
           /\ Head(inbox[t]).kind = kind
<1>1. inbox \in [Services -> Seq(Message)]
  BY Queues DEF InboxType
<1>2. /\ inbox[t] # <<>> /\ Head(inbox[t]).kind = kind
      /\ inbox' = [inbox EXCEPT ![t] = Tail(@)]
  BY DEF Received
<1>3. inbox[t] \in Seq(Message)
  BY <1>1
<1>4. /\ Head(inbox[t]) \in Message /\ Tail(inbox[t]) \in Seq(Message)
      /\ ToSet(Tail(inbox[t])) \subseteq ToSet(inbox[t])
      /\ Head(inbox[t]) \in ToSet(inbox[t])
  BY <1>2, <1>3, Tailed
<1>5. /\ \A s \in Services \ {t} : inbox'[s] = inbox[s]
      /\ inbox'[t] = Tail(inbox[t])
  BY <1>1, <1>2
<1>6. InboxType'
  BY <1>1, <1>2, <1>4 DEF InboxType
<1>7. \A s \in Services : ToSet(inbox'[s]) \subseteq ToSet(inbox[s])
  BY <1>4, <1>5
<1> QED
  BY <1>2, <1>3, <1>4, <1>5, <1>6, <1>7

LEMMA Messages ==
    ASSUME NEW m \in Message
    PROVE  /\ m.kind \in {"added", "removed"} => m.eid \in Eids
           /\ m.kind = "reply" => m.to \in Eids \cup {Detect} /\ m.eids \in SUBSET Eids
BY DEF Message, Signal, ServiceSignal, Reply

LEMMA Signals ==
    ASSUME NEW e \in Eids
    PROVE  /\ [kind |-> "added", eid |-> e] \in Message
           /\ [kind |-> "removed", eid |-> e] \in Message
           /\ [kind |-> "serviceAdded"] \in Message
           /\ [kind |-> "serviceRemoved"] \in Message
BY DEF Message, Signal, ServiceSignal

-----------------------------------------------------------------------------
(***************************************************************************)
(* Types.                                                                  *)
(***************************************************************************)
OtherTypes ==
    /\ up \in SUBSET Services
    /\ offered \in [Services -> SUBSET Eids]
    /\ phase \in {"find", "read", "done"}
    /\ left \in SUBSET Services
    /\ found \in EidMap
    /\ buses \in SUBSET Services
    /\ endpointMap \in EidMap
    /\ byName \in SUBSET Named
    /\ bySender \in SUBSET Services
    /\ monitoring \in BOOLEAN
    /\ told \in SUBSET Eids
    /\ changes \in 0 .. MaxChanges
    /\ owners \in [Eids -> SUBSET Services]
    /\ missed \in SUBSET Services

LEMMA TypesSplit == TypeOK <=> InboxType /\ AskedType /\ OtherTypes
BY DEF TypeOK, InboxType, AskedType, OtherTypes, Message

LEMMA TypesSplitNext == InboxType' /\ AskedType' /\ OtherTypes' => TypeOK'
BY DEF TypeOK, InboxType, AskedType, OtherTypes, Message

\* A change is counted.
LEMMA Changed ==
    ASSUME TypeOK, Change
    PROVE  changes' \in 0 .. MaxChanges
BY EndpointMapAssumption DEF Change, TypeOK

LEMMA SentType ==
    ASSUME TypeOK, NEW t \in Services, NEW m \in Message, Send(t, m)
    PROVE  missed' \in SUBSET Services
BY Sent DEF TypeOK

\* detectMctpEndpoints asks the next service or is at its end.
LEMMA Asks ==
    ASSUME AskedType, NEW services \in SUBSET Services, NEW map, NEW known,
           AskNext(services, map, known)
    PROVE  /\ AskedType'
           /\ \/ /\ services \cap up = {}
                 /\ Detected(map, known) /\ left' = {} /\ asked' = asked
              \/ /\ phase' = "read" /\ left' \in SUBSET services
                 /\ UNCHANGED <<endpointMap, told, matchers, monitoring>>
                 /\ \E s \in services \cap up :
                       /\ s \notin left'
                       /\ services \cap up \subseteq left' \cup {s}
                       /\ asked'[s] = Append(asked[s], Detect)
                       /\ \A t \in Services \ {s} : asked'[t] = asked[t]
<1>1. PICK tried \in SUBSET (services \ up) :
        \/ /\ tried = services
           /\ Detected(map, known)
           /\ left' = {}
           /\ UNCHANGED asked
        \/ \E s \in services \cap up :
              /\ asked' = [asked EXCEPT ![s] = Append(@, Detect)]
              /\ left' = services \ (tried \cup {s})
              /\ phase' = "read"
              /\ UNCHANGED <<endpointMap, told, matchers, monitoring>>
  BY DEF AskNext
<1>2. CASE tried = services /\ Detected(map, known) /\ left' = {} /\ UNCHANGED asked
  BY <1>1, <1>2 DEF AskedType
<1>3. ASSUME NEW s \in services \cap up,
             asked' = [asked EXCEPT ![s] = Append(@, Detect)],
             left' = services \ (tried \cup {s}),
             phase' = "read",
             UNCHANGED <<endpointMap, told, matchers, monitoring>>
      PROVE  /\ AskedType' /\ phase' = "read" /\ left' \in SUBSET services
             /\ s \notin left' /\ services \cap up \subseteq left' \cup {s}
             /\ asked'[s] = Append(asked[s], Detect)
             /\ \A t \in Services \ {s} : asked'[t] = asked[t]
             /\ UNCHANGED <<endpointMap, told, matchers, monitoring>>
  <2>1. s \in Services /\ asked[s] \in Seq(Eids \cup {Detect})
    BY DEF AskedType
  <2>2. Append(asked[s], Detect) \in Seq(Eids \cup {Detect})
    BY <2>1, Appended
  <2>3. AskedType'
    BY <1>3, <2>1, <2>2 DEF AskedType
  <2>4. /\ asked'[s] = Append(asked[s], Detect)
        /\ \A t \in Services \ {s} : asked'[t] = asked[t]
    BY <1>3, <2>1 DEF AskedType
  <2> QED
    BY <1>1, <1>3, <2>3, <2>4
<1> QED
  BY <1>1, <1>2, <1>3

LEMMA AsksType ==
    ASSUME TypeOK, NEW services \in SUBSET Services, NEW map \in EidMap,
           NEW known \in SUBSET Services, AskNext(services, map, known)
    PROVE  /\ AskedType' /\ phase' \in {"find", "read", "done"}
           /\ left' \in SUBSET Services /\ endpointMap' \in EidMap
           /\ told' \in SUBSET Eids /\ byName' \in SUBSET Named
           /\ bySender' \in SUBSET Services /\ monitoring' \in BOOLEAN
<1>1. AskedType /\ OtherTypes
  BY TypesSplit
<1>2. AskedType'
  BY <1>1, Asks
<1>3. CASE Detected(map, known) /\ left' = {}
  BY <1>2, <1>3, EndpointMapAssumption DEF Detected
<1>4. CASE /\ phase' = "read" /\ left' \in SUBSET services
           /\ UNCHANGED <<endpointMap, told, matchers, monitoring>>
  BY <1>1, <1>2, <1>4 DEF OtherTypes, matchers
<1> QED
  BY <1>1, <1>3, <1>4, Asks

\* A coroutine asks the service of the signal.
LEMMA AskedForSignal ==
    ASSUME TypeOK, NEW t \in Services, OnInterfacesAdded(t)
    PROVE  /\ AskedType'
           /\ \A s \in Services \ {t} : asked'[s] = asked[s]
           /\ \A k \in DOMAIN asked'[t] :
                 asked'[t][k] = Detect => \E j \in DOMAIN asked[t] : asked[t][j] = Detect
           /\ \/ asked'[t] # <<>> /\ missed' = missed /\ t \in up
              \/ asked' = asked /\ missed' = missed \cup {t}
<1> DEFINE e == Head(inbox[t]).eid
           S == Eids \cup {Detect}
<1>1. asked \in [Services -> Seq(S)] /\ asked[t] \in Seq(S)
  BY Queues DEF AskedType
<1>2. e \in Eids
  BY Got, Messages DEF OnInterfacesAdded
<1>3. \/ /\ t \in up /\ missed' = missed
         /\ \/ asked' = [asked EXCEPT ![t] = Append(@, e)]
            \/ asked' = [asked EXCEPT ![t] = @ \o <<e, e>>]
      \/ asked' = asked /\ missed' = missed \cup {t}
  BY DEF OnInterfacesAdded
<1> HIDE DEF e
<1>4. CASE asked' = [asked EXCEPT ![t] = Append(@, e)] /\ t \in up /\ missed' = missed
  <2>1. /\ Append(asked[t], e) \in Seq(S) /\ Append(asked[t], e) # <<>>
        /\ DOMAIN Append(asked[t], e) = 1 .. Len(asked[t]) + 1
        /\ \A k \in 1 .. Len(asked[t]) : Append(asked[t], e)[k] = asked[t][k]
        /\ Append(asked[t], e)[Len(asked[t]) + 1] = e
    BY <1>1, <1>2, Appended
  <2>2. Len(asked[t]) \in Nat /\ DOMAIN asked[t] = 1 .. Len(asked[t])
    BY <1>1, LenProperties
  <2>3. \A k \in 1 .. Len(asked[t]) + 1 : k \in 1 .. Len(asked[t]) \/ k = Len(asked[t]) + 1
    BY <2>2
  <2>4. e # Detect
    BY <1>2, EndpointMapAssumption
  <2>5. asked'[t] = Append(asked[t], e) /\ \A s \in Services \ {t} : asked'[s] = asked[s]
    BY <1>1, <1>4
  <2>6. AskedType'
    BY <1>1, <1>4, <2>1 DEF AskedType
  <2> QED
    BY <1>4, <2>1, <2>2, <2>3, <2>4, <2>5, <2>6
<1>5. CASE asked' = [asked EXCEPT ![t] = @ \o <<e, e>>] /\ t \in up /\ missed' = missed
  <2> DEFINE r == <<e, e>>
             a == asked[t] \o r
  <2>1. r \in Seq(S) /\ Len(r) = 2
    BY <1>2
  <2>2. \A k \in 1 .. 2 : r[k] = e
    OBVIOUS
  <2>3. Len(asked[t]) \in Nat /\ DOMAIN asked[t] = 1 .. Len(asked[t])
    BY <1>1, LenProperties
  <2> HIDE DEF r
  <2>4. /\ a \in Seq(S) /\ Len(a) = Len(asked[t]) + 2
        /\ DOMAIN a = 1 .. Len(asked[t]) + 2
        /\ \A k \in 1 .. Len(asked[t]) + 2 :
              a[k] = IF k <= Len(asked[t]) THEN asked[t][k] ELSE r[k - Len(asked[t])]
    <3>1. /\ a \in Seq(S) /\ Len(a) = Len(asked[t]) + Len(r)
          /\ \A k \in 1 .. Len(asked[t]) + Len(r) :
                a[k] = IF k <= Len(asked[t]) THEN asked[t][k] ELSE r[k - Len(asked[t])]
      BY <1>1, <2>1, ConcatProperties
    <3> HIDE DEF a
    <3>2. DOMAIN a = 1 .. Len(a)
      BY <3>1, LenProperties
    <3> QED
      BY <2>1, <3>1, <3>2
  <2>5. a # <<>>
    BY <2>3, <2>4
  <2>6. \A k \in 1 .. Len(asked[t]) + 2 :
           k \in 1 .. Len(asked[t]) \/ (~(k <= Len(asked[t])) /\ k - Len(asked[t]) \in 1 .. 2)
    BY <2>3
  <2>7. e # Detect
    BY <1>2, EndpointMapAssumption
  <2>8. asked'[t] = a /\ \A s \in Services \ {t} : asked'[s] = asked[s]
    BY <1>1, <1>5 DEF r
  <2>9. AskedType'
    BY <1>1, <1>5, <2>4 DEF AskedType, r
  <2>10. \A k \in 1 .. Len(asked[t]) : k <= Len(asked[t])
    BY <2>3
  <2>11. \A k \in 1 .. Len(asked[t]) + 2 : a[k] = e \/ (k \in 1 .. Len(asked[t]) /\ a[k] = asked[t][k])
    <3> HIDE DEF a
    <3> QED
      BY <2>2, <2>4, <2>6, <2>10
  <2> HIDE DEF a
  <2> QED
    BY <1>5, <2>3, <2>4, <2>5, <2>7, <2>8, <2>9, <2>11
<1>6. CASE asked' = asked /\ missed' = missed \cup {t}
  BY <1>1, <1>6 DEF AskedType
<1> QED
  BY <1>3, <1>4, <1>5, <1>6

\* What a service leaves behind when it stops
Bye(s) == IF offered[s] = {} /\ monitoring THEN <<[kind |-> "serviceRemoved"]>> ELSE <<>>

Errors(s) == [i \in 1 .. Len(asked[s]) |->
                 [kind |-> "reply", to |-> asked[s][i], eids |-> {}]]

LEMMA StopLeaves ==
    ASSUME TypeOK, NEW t \in Services, Stop(t)
    PROVE  /\ inbox[t] \in Seq(Message) /\ InboxType' /\ AskedType'
           /\ Bye(t) \o Errors(t) \in Seq(Message)
           /\ inbox'[t] = inbox[t] \o (Bye(t) \o Errors(t))
           /\ \A s \in Services \ {t} : inbox'[s] = inbox[s] /\ asked'[s] = asked[s]
           /\ asked'[t] = <<>>
           /\ \A m \in ToSet(Bye(t) \o Errors(t)) :
                 \/ m.kind = "serviceRemoved" /\ monitoring
                 \/ /\ m.kind = "reply" /\ m.eids = {}
                    /\ \E k \in DOMAIN asked[t] : m.to = asked[t][k]
<1> DEFINE S == Eids \cup {Detect}
           b == Bye(t)
           r == Errors(t)
<1>1. /\ asked \in [Services -> Seq(S)] /\ asked[t] \in Seq(S)
      /\ inbox \in [Services -> Seq(Message)] /\ inbox[t] \in Seq(Message)
  BY Queues DEF AskedType, InboxType
<1>2. Len(asked[t]) \in Nat /\ DOMAIN asked[t] = 1 .. Len(asked[t])
      /\ \A i \in 1 .. Len(asked[t]) : asked[t][i] \in S
  BY <1>1, LenProperties
<1>3. \A i \in 1 .. Len(asked[t]) :
         [kind |-> "reply", to |-> asked[t][i], eids |-> {}] \in Message
  BY <1>2 DEF Message, Reply
<1>4. r \in Seq(Message) /\ DOMAIN r = 1 .. Len(asked[t])
  <2>1. r \in [1 .. Len(asked[t]) -> Message]
    BY <1>3 DEF Errors
  <2> HIDE DEF r
  <2>2. r \in Seq(Message)
    BY <1>2, <2>1, SeqDef
  <2> QED
    BY <2>1, <2>2
<1>5. b \in Seq(Message) /\ ToSet(b) \subseteq {[kind |-> "serviceRemoved"]}
      /\ (b # <<>> => monitoring)
  <2>1. CASE offered[t] = {} /\ monitoring
    <3>1. b = <<[kind |-> "serviceRemoved"]>>
      BY <2>1 DEF Bye
    <3>2. [kind |-> "serviceRemoved"] \in Message
      BY DEF Message, ServiceSignal
    <3> HIDE DEF b
    <3>3. b \in Seq(Message)
      BY <3>1, <3>2
    <3>4. DOMAIN b = {1} /\ b[1] = [kind |-> "serviceRemoved"]
      BY <3>1
    <3> QED
      BY <2>1, <3>3, <3>4 DEF ToSet
  <2>2. CASE ~(offered[t] = {} /\ monitoring)
    <3>1. b = <<>>
      BY <2>2 DEF Bye
    <3> HIDE DEF b
    <3>2. b \in Seq(Message) /\ DOMAIN b = {}
      BY <3>1
    <3> QED
      BY <3>1, <3>2 DEF ToSet
  <2> QED
    BY <2>1, <2>2
<1>6. \A m \in ToSet(r) : /\ m.kind = "reply" /\ m.eids = {}
                          /\ \E k \in DOMAIN asked[t] : m.to = asked[t][k]
  <2> SUFFICES ASSUME NEW k \in 1 .. Len(asked[t])
               PROVE  /\ r[k].kind = "reply" /\ r[k].eids = {}
                      /\ \E j \in DOMAIN asked[t] : r[k].to = asked[t][j]
    BY <1>4 DEF ToSet
  <2>1. r[k] = [kind |-> "reply", to |-> asked[t][k], eids |-> {}]
    BY DEF Errors
  <2> HIDE DEF r
  <2> QED
    BY <1>2, <2>1
<1>7. \A m \in ToSet(b) : m.kind = "serviceRemoved" /\ monitoring
  <2> SUFFICES ASSUME NEW m \in ToSet(b) PROVE m.kind = "serviceRemoved" /\ monitoring
    OBVIOUS
  <2>1. b # <<>>
    <3>1. ToSet(<<>>) = {}
      BY DEF ToSet
    <3> QED
      BY <3>1
  <2> QED
    BY <1>5, <2>1
<1> HIDE DEF b, r
<1>8. b \o r \in Seq(Message) /\ ToSet(b \o r) \subseteq ToSet(b) \cup ToSet(r)
  BY <1>4, <1>5, ConcatPlaces
<1>9. /\ inbox' = [inbox EXCEPT ![t] = inbox[t] \o (b \o r)]
      /\ asked' = [asked EXCEPT ![t] = <<>>]
  <2>1. inbox' = [inbox EXCEPT ![t] = inbox[t] \o b \o r]
    BY Zenon DEF Stop, b, r, Bye, Errors
  <2>2. inbox[t] \o b \o r = inbox[t] \o (b \o r)
    BY <1>1, <1>4, <1>5, ConcatAssociative
  <2> QED
    BY <2>1, <2>2 DEF Stop
<1>10. inbox[t] \o (b \o r) \in Seq(Message) /\ <<>> \in Seq(S)
  BY <1>1, <1>8, ConcatProperties
<1>11. InboxType' /\ AskedType'
  BY <1>1, <1>9, <1>10 DEF InboxType, AskedType
<1>12. /\ inbox'[t] = inbox[t] \o (b \o r) /\ asked'[t] = <<>>
       /\ \A s \in Services \ {t} : inbox'[s] = inbox[s] /\ asked'[s] = asked[s]
  BY <1>1, <1>9
<1> QED
  BY <1>1, <1>6, <1>7, <1>8, <1>11, <1>12 DEF b, r

\* A service answers the oldest call.
LEMMA Answered ==
    ASSUME TypeOK, NEW t \in Services, Answer(t)
    PROVE  LET m == [kind |-> "reply", to |-> Head(asked[t]), eids |-> offered[t]]
           IN  /\ InboxType' /\ AskedType' /\ inbox[t] \in Seq(Message)
               /\ m \in Message
               /\ inbox'[t] = Append(inbox[t], m)
               /\ \A s \in Services \ {t} : inbox'[s] = inbox[s] /\ asked'[s] = asked[s]
               /\ asked'[t] = Tail(asked[t]) /\ asked[t] \in Seq(Eids \cup {Detect})
               /\ asked[t] # <<>> /\ t \in up
<1> DEFINE S == Eids \cup {Detect}
           m == [kind |-> "reply", to |-> Head(asked[t]), eids |-> offered[t]]
<1>1. /\ asked \in [Services -> Seq(S)] /\ asked[t] \in Seq(S)
      /\ inbox \in [Services -> Seq(Message)] /\ inbox[t] \in Seq(Message)
  BY Queues DEF AskedType, InboxType
<1>2. /\ asked[t] # <<>> /\ t \in up
      /\ inbox' = [inbox EXCEPT ![t] = Append(@, m)]
      /\ asked' = [asked EXCEPT ![t] = Tail(@)]
  BY DEF Answer
<1>3. Head(asked[t]) \in S /\ Tail(asked[t]) \in Seq(S)
  BY <1>1, <1>2, Tailed
<1>4. m \in Message
  <2>1. offered[t] \in SUBSET Eids
    BY DEF TypeOK
  <2> QED
    BY <1>3, <2>1 DEF Message, Reply
<1> HIDE DEF m
<1>5. Append(inbox[t], m) \in Seq(Message)
  BY <1>1, <1>4, Appended
<1>6. InboxType' /\ AskedType'
  BY <1>1, <1>2, <1>3, <1>5 DEF InboxType, AskedType
<1> QED
  BY <1>1, <1>2, <1>4, <1>6 DEF m

LEMMA InitType == Init => TypeOK
<1> SUFFICES ASSUME Init PROVE TypeOK
  OBVIOUS
<1>1. /\ <<>> \in Seq(Message) /\ <<>> \in Seq(Eids \cup {Detect})
      /\ [s \in Services |-> <<>>] \in [Services -> Seq(Message)]
      /\ [s \in Services |-> <<>>] \in [Services -> Seq(Eids \cup {Detect})]
  OBVIOUS
<1>2. InboxType /\ AskedType
  BY <1>1 DEF Init, InboxType, AskedType
<1>3. OtherTypes
  <2>1. [e \in Eids |-> None] \in EidMap
    BY DEF EidMap
  <2>2. [e \in Eids |-> {s \in Services : e \in offered[s]}]
           \in [Eids -> SUBSET Services]
    OBVIOUS
  <2>3. found \in EidMap /\ endpointMap \in EidMap /\ owners \in [Eids -> SUBSET Services]
    BY <2>1, <2>2 DEF Init
  <2>4. changes \in 0 .. MaxChanges
    BY EndpointMapAssumption DEF Init
  <2>5. /\ up \in SUBSET Services /\ offered \in [Services -> SUBSET Eids]
        /\ phase \in {"find", "read", "done"} /\ left \in SUBSET Services
        /\ buses \in SUBSET Services /\ byName \in SUBSET Named
        /\ bySender \in SUBSET Services /\ monitoring \in BOOLEAN
        /\ told \in SUBSET Eids /\ missed \in SUBSET Services
    BY DEF Init
  <2> QED
    BY <2>3, <2>4, <2>5 DEF OtherTypes
<1> QED
  BY <1>2, <1>3, TypesSplit

LEMMA NextType ==
    ASSUME TypeOK, Next
    PROVE  TypeOK'
<1>1. InboxType /\ AskedType /\ OtherTypes
  BY TypesSplit
<1>2. ASSUME NEW s \in Services, NEW e \in Eids, Offer(s, e)
      PROVE  TypeOK'
  <2>1. InboxType' /\ missed' \in SUBSET Services
    BY <1>2, Sent, SentType, Signals DEF Offer
  <2>2. changes' \in 0 .. MaxChanges
    BY <1>2, Changed DEF Offer
  <2>3. AskedType' /\ OtherTypes'
    BY <1>1, <1>2, <2>1, <2>2 DEF Offer, Change, OtherTypes, AskedType, matchers
  <2> QED
    BY <2>1, <2>3, TypesSplitNext
<1>3. ASSUME NEW s \in Services, NEW e \in Eids, Withdraw(s, e)
      PROVE  TypeOK'
  <2>1. InboxType' /\ missed' \in SUBSET Services
    BY <1>3, Sent, SentType, Signals DEF Withdraw
  <2>2. changes' \in 0 .. MaxChanges
    BY <1>3, Changed DEF Withdraw
  <2>3. AskedType' /\ OtherTypes'
    BY <1>1, <1>3, <2>1, <2>2 DEF Withdraw, Change, OtherTypes, AskedType, matchers
  <2> QED
    BY <2>1, <2>3, TypesSplitNext
<1>4. ASSUME NEW s \in Services, Start(s)
      PROVE  TypeOK'
  <2>1. InboxType' /\ missed' \in SUBSET Services
    <3>1. [kind |-> "serviceAdded"] \in Message
      BY DEF Message, ServiceSignal
    <3> QED
      BY <1>4, <3>1, Sent, SentType DEF Start
  <2>2. changes' \in 0 .. MaxChanges
    BY <1>4, Changed DEF Start
  <2>3. AskedType' /\ OtherTypes'
    BY <1>1, <1>4, <2>1, <2>2 DEF Start, Change, OtherTypes, AskedType, matchers
  <2> QED
    BY <2>1, <2>3, TypesSplitNext
<1>5. ASSUME NEW s \in Services, Stop(s)
      PROVE  TypeOK'
  <2>1. InboxType' /\ AskedType'
    BY <1>5, StopLeaves
  <2>2. changes' \in 0 .. MaxChanges
    BY <1>5, Changed DEF Stop
  <2>3. OtherTypes'
    BY <1>1, <1>5, <2>2 DEF Stop, Change, OtherTypes, matchers
  <2> QED
    BY <2>1, <2>3, TypesSplitNext
<1>6. ASSUME NEW s \in Services, Answer(s)
      PROVE  TypeOK'
  <2>1. InboxType' /\ AskedType'
    BY <1>6, Answered
  <2>2. OtherTypes'
    BY <1>1, <1>6
    DEF Answer, OtherTypes, serviceVars, detectVars, matchers
  <2> QED
    BY <2>1, <2>2, TypesSplitNext
<1>7. ASSUME NEW s \in Services, EndpointsFound(s)
      PROVE  TypeOK'
  <2> DEFINE map == [e \in Eids |-> IF e \in Head(inbox[s]).eids THEN s ELSE found[e]]
  <2>1. InboxType'
    BY <1>7, Got DEF EndpointsFound
  <2>2. map \in EidMap /\ found' = map /\ AskNext(left, map, buses)
    BY <1>1, <1>7 DEF EndpointsFound, OtherTypes, EidMap
  <2> HIDE DEF map
  <2>3. left \in SUBSET Services /\ buses \in SUBSET Services
    BY <1>1 DEF OtherTypes
  <2>4. /\ AskedType' /\ phase' \in {"find", "read", "done"}
        /\ left' \in SUBSET Services /\ endpointMap' \in EidMap
        /\ told' \in SUBSET Eids /\ byName' \in SUBSET Named
        /\ bySender' \in SUBSET Services /\ monitoring' \in BOOLEAN
    BY <2>2, <2>3, AsksType
  <2>5. OtherTypes'
    BY <1>1, <1>7, <2>2, <2>4 DEF EndpointsFound, OtherTypes, serviceVars
  <2> QED
    BY <2>1, <2>4, <2>5, TypesSplitNext
<1>8. ASSUME NEW s \in Services, OnInterfacesAdded(s)
      PROVE  TypeOK'
  <2>1. InboxType'
    BY <1>8, Got DEF OnInterfacesAdded
  <2>2. AskedType' /\ missed' \in SUBSET Services
    BY <1>1, <1>8, AskedForSignal DEF OtherTypes
  <2>3. OtherTypes'
    BY <1>1, <1>8, <2>2
    DEF OnInterfacesAdded, OtherTypes, serviceVars, detectVars, matchers
  <2> QED
    BY <2>1, <2>2, <2>3, TypesSplitNext
<1>9. ASSUME NEW s \in Services, EndpointAdded(s)
      PROVE  TypeOK'
  <2>1. InboxType' /\ Head(inbox[s]).to \in Eids
    <3>1. InboxType' /\ Head(inbox[s]).to \in Eids \cup {Detect}
      BY <1>9, Got, Messages DEF EndpointAdded
    <3> QED
      BY <1>9, <3>1 DEF EndpointAdded
  <2>2. endpointMap' \in EidMap /\ told' \in SUBSET Eids
    BY <1>1, <1>9, <2>1 DEF EndpointAdded, AddToEidMap, OtherTypes, EidMap
  <2>3. AskedType' /\ OtherTypes'
    BY <1>1, <1>9, <2>2
    DEF EndpointAdded, OtherTypes, AskedType, serviceVars, detectVars, matchers
  <2> QED
    BY <2>1, <2>3, TypesSplitNext
<1>10. ASSUME NEW s \in Services, OnInterfacesRemoved(s)
       PROVE  TypeOK'
  <2>1. InboxType' /\ Head(inbox[s]).eid \in Eids
    BY <1>10, Got, Messages DEF OnInterfacesRemoved
  <2>2. endpointMap' \in EidMap /\ told' \in SUBSET Eids
    BY <1>1, <1>10, <2>1 DEF OnInterfacesRemoved, EraseDevice, OtherTypes, EidMap
  <2>3. bySender' \in SUBSET Services /\ missed' \in SUBSET Services
    BY <1>1, <1>10 DEF OnInterfacesRemoved, OtherTypes
  <2>4. AskedType' /\ OtherTypes'
    BY <1>1, <1>10, <2>2, <2>3
    DEF OnInterfacesRemoved, OtherTypes, AskedType, serviceVars, detectVars
  <2> QED
    BY <2>1, <2>4, TypesSplitNext
<1>11. ASSUME NEW s \in Services, NewService(s) \/ DeleteService(s)
       PROVE  TypeOK'
  <2>1. InboxType'
    BY <1>11, Got DEF NewService, DeleteService
  <2>2. bySender' \in SUBSET Services
    BY <1>1, <1>11 DEF NewService, DeleteService, OtherTypes
  <2>3. AskedType' /\ OtherTypes'
    BY <1>1, <1>11, <2>2
    DEF NewService, DeleteService, OtherTypes, AskedType, serviceVars, detectVars
  <2> QED
    BY <2>1, <2>3, TypesSplitNext
<1>12. CASE FindBus
  <2>1. up \in SUBSET Services /\ found \in EidMap
    BY <1>1 DEF OtherTypes
  <2>2. /\ AskedType' /\ phase' \in {"find", "read", "done"}
        /\ left' \in SUBSET Services /\ endpointMap' \in EidMap
        /\ told' \in SUBSET Eids /\ byName' \in SUBSET Named
        /\ bySender' \in SUBSET Services /\ monitoring' \in BOOLEAN
    BY <1>12, <2>1, AsksType DEF FindBus
  <2>3. InboxType' /\ OtherTypes'
    BY <1>1, <1>12, <2>2 DEF FindBus, OtherTypes, InboxType, serviceVars
  <2> QED
    BY <2>2, <2>3, TypesSplitNext
<1>13. CASE FindBusFails
  <2>1. InboxType' /\ AskedType'
    BY <1>1, <1>13 DEF FindBusFails, InboxType, AskedType
  <2>2. OtherTypes'
    BY <1>1, <1>13 DEF FindBusFails, Detected, OtherTypes, serviceVars
  <2> QED
    BY <2>1, <2>2, TypesSplitNext
<1> QED
  BY <1>2, <1>3, <1>4, <1>5, <1>6, <1>7, <1>8, <1>9, <1>10, <1>11, <1>12, <1>13
  DEF Next, Handle

\* Every variable stays in its type.
THEOREM TypeCorrect == Spec => []TypeOK
<1>1. TypeOK /\ [Next]_vars => TypeOK'
  <2> SUFFICES ASSUME TypeOK, UNCHANGED vars PROVE TypeOK'
    BY NextType
  <2> QED
    BY DEF TypeOK, vars, serviceVars, detectVars, matchers
<1> QED
  BY <1>1, InitType, PTL DEF Spec

-----------------------------------------------------------------------------
(***************************************************************************)
(* Who offers what.                                                        *)
(***************************************************************************)
OwnersGrow == \A e \in Eids : owners[e] \subseteq owners'[e]

LEMMA NoMessage == ToSet(<<>>) = {}
BY DEF ToSet

LEMMA QueuedMessages ==
    ASSUME TypeOK, NEW s \in Services
    PROVE  ToSet(inbox[s]) \subseteq Message
<1>1. inbox[s] \in Seq(Message)
  BY Queues DEF InboxType
<1>2. \A k \in DOMAIN inbox[s] : inbox[s][k] \in Message
  BY <1>1, LenProperties
<1> QED
  BY <1>2 DEF ToSet

LEMMA StaysOwned ==
    ASSUME TypeOK, MessagesOwned, OwnersGrow,
           \A s \in Services : \A m \in ToSet(inbox'[s]) :
              m \in ToSet(inbox[s]) \/ Owned(s, m)'
    PROVE  MessagesOwned'
<1> SUFFICES ASSUME NEW s \in Services, NEW m \in ToSet(inbox[s])
             PROVE  Owned(s, m)'
  BY DEF MessagesOwned
<1>1. m \in Message /\ Owned(s, m)
  BY QueuedMessages DEF MessagesOwned
<1>2. /\ m.kind \in {"added", "removed"} => m.eid \in Eids
      /\ m.kind = "reply" => m.eids \in SUBSET Eids
  BY <1>1, Messages
<1> QED
  BY <1>1, <1>2 DEF Owned, OwnersGrow

LEMMA AskedOwned ==
    ASSUME AskedType, MapsOwned, NEW services \in SUBSET Services, NEW map \in EidMap,
           NEW known, AskNext(services, map, known), owners' = owners,
           found' = map,
           \A e \in Eids : map[e] # None => map[e] \in owners[e]
    PROVE  MapsOwned'
<1>1. endpointMap' = endpointMap \/ endpointMap' = map
  BY Asks DEF Detected
<1> QED
  BY <1>1 DEF MapsOwned

LEMMA NextOwners ==
    ASSUME TypeOK, OwnersKnown, Next
    PROVE  OwnersKnown'
<1>1. InboxType /\ AskedType /\ OtherTypes
  BY TypesSplit
<1> USE DEF OwnersKnown
<1>2. ASSUME NEW s \in Services, NEW e \in Eids, Offer(s, e)
      PROVE  OwnersKnown'
  <2> DEFINE m == [kind |-> "added", eid |-> e]
  <2>1. /\ owners' = [owners EXCEPT ![e] = @ \cup {s}]
        /\ offered' = [offered EXCEPT ![s] = @ \cup {e}]
        /\ UNCHANGED <<found, endpointMap>>
    BY <1>2 DEF Offer, Change
  <2>2. OwnersGrow /\ s \in owners'[e]
    BY <1>1, <2>1 DEF OtherTypes, OwnersGrow
  <2>3. OfferedOwned'
    BY <1>1, <2>1, <2>2 DEF OfferedOwned, OtherTypes, OwnersGrow
  <2>4. MapsOwned'
    BY <2>1, <2>2 DEF MapsOwned, OwnersGrow
  <2>5. m \in Message /\ Owned(s, m)'
    BY <2>2, Signals DEF Owned
  <2> HIDE DEF m
  <2>6. \A t \in Services : \A i \in ToSet(inbox'[t]) :
           i \in ToSet(inbox[t]) \/ (t = s /\ i = m)
    BY <1>2, <2>5, SentMessages DEF Offer, m
  <2>7. MessagesOwned'
    BY <2>2, <2>5, <2>6, StaysOwned
  <2> QED
    BY <2>3, <2>4, <2>7
<1>3. ASSUME NEW s \in Services, NEW e \in Eids, Withdraw(s, e)
      PROVE  OwnersKnown'
  <2> DEFINE m == [kind |-> "removed", eid |-> e]
  <2>1. /\ owners' = owners /\ e \in offered[s]
        /\ offered' = [offered EXCEPT ![s] = @ \ {e}]
        /\ UNCHANGED <<found, endpointMap>>
    BY <1>3 DEF Withdraw, Change
  <2>2. OwnersGrow /\ s \in owners'[e]
    BY <2>1 DEF OfferedOwned, OwnersGrow
  <2>3. OfferedOwned'
    BY <1>1, <2>1 DEF OfferedOwned, OtherTypes
  <2>4. MapsOwned'
    BY <2>1 DEF MapsOwned
  <2>5. m \in Message /\ Owned(s, m)'
    BY <2>2, Signals DEF Owned
  <2> HIDE DEF m
  <2>6. \A t \in Services : \A i \in ToSet(inbox'[t]) :
           i \in ToSet(inbox[t]) \/ (t = s /\ i = m)
    BY <1>3, <2>5, SentMessages DEF Withdraw, m
  <2>7. MessagesOwned'
    BY <2>2, <2>5, <2>6, StaysOwned
  <2> QED
    BY <2>3, <2>4, <2>7
<1>4. ASSUME NEW s \in Services, Start(s)
      PROVE  OwnersKnown'
  <2> DEFINE m == [kind |-> "serviceAdded"]
  <2>1. UNCHANGED <<offered, owners, found, endpointMap>>
    BY <1>4 DEF Start, Change
  <2>2. OwnersGrow /\ OfferedOwned' /\ MapsOwned'
    BY <2>1 DEF OfferedOwned, MapsOwned, OwnersGrow
  <2>3. m \in Message /\ Owned(s, m)'
    BY DEF Owned, Message, ServiceSignal
  <2> HIDE DEF m
  <2>4. \A t \in Services : \A i \in ToSet(inbox'[t]) :
           i \in ToSet(inbox[t]) \/ (t = s /\ i = m)
    BY <1>4, <2>3, SentMessages DEF Start, m
  <2> QED
    BY <2>2, <2>3, <2>4, StaysOwned
<1>5. ASSUME NEW s \in Services, Stop(s)
      PROVE  OwnersKnown'
  <2> DEFINE r == Bye(s) \o Errors(s)
  <2>1. /\ owners' = owners /\ offered' = [offered EXCEPT ![s] = {}]
        /\ UNCHANGED <<found, endpointMap>>
    BY <1>5 DEF Stop, Change
  <2>2. OwnersGrow /\ OfferedOwned' /\ MapsOwned'
    BY <1>1, <2>1 DEF OfferedOwned, MapsOwned, OwnersGrow, OtherTypes
  <2>3. /\ r \in Seq(Message) /\ inbox[s] \in Seq(Message)
        /\ inbox'[s] = inbox[s] \o r
        /\ \A t \in Services \ {s} : inbox'[t] = inbox[t]
        /\ \A m \in ToSet(r) : m.kind = "serviceRemoved" \/ (m.kind = "reply" /\ m.eids = {})
    BY <1>5, StopLeaves
  <2> HIDE DEF r
  <2>4. ToSet(inbox'[s]) = ToSet(inbox[s]) \cup ToSet(r)
    BY <2>3, ConcatPlaces
  <2>5. \A m \in ToSet(r) : Owned(s, m)'
    BY <2>3 DEF Owned
  <2>6. \A t \in Services : \A m \in ToSet(inbox'[t]) :
           m \in ToSet(inbox[t]) \/ Owned(t, m)'
    BY <2>3, <2>4, <2>5
  <2> QED
    BY <2>2, <2>6, StaysOwned
<1>6. ASSUME NEW s \in Services, Answer(s)
      PROVE  OwnersKnown'
  <2> PICK m : m = [kind |-> "reply", to |-> Head(asked[s]), eids |-> offered[s]]
    OBVIOUS
  <2>1. UNCHANGED <<offered, owners, found, endpointMap>>
    BY <1>6 DEF Answer, serviceVars, detectVars
  <2>2. OwnersGrow /\ OfferedOwned' /\ MapsOwned'
    BY <2>1 DEF OfferedOwned, MapsOwned, OwnersGrow
  <2>3. Owned(s, m)'
    <3>1. \A e \in offered[s] : e \in Eids
      BY <1>1 DEF OtherTypes
    <3> QED
      BY <2>1, <3>1 DEF Owned, OfferedOwned
  <2>4. /\ inbox[s] \in Seq(Message) /\ m \in Message
        /\ inbox'[s] = Append(inbox[s], m)
        /\ \A t \in Services \ {s} : inbox'[t] = inbox[t]
    BY <1>6, Answered
  <2>5. ToSet(inbox'[s]) = ToSet(inbox[s]) \cup {m}
    BY <2>4, Appended
  <2>6. \A t \in Services : \A n \in ToSet(inbox'[t]) :
           n \in ToSet(inbox[t]) \/ Owned(t, n)'
    BY <2>3, <2>4, <2>5
  <2> QED
    BY <2>2, <2>6, StaysOwned
<1>7. ASSUME NEW s \in Services, NEW kind, Received(s, kind), UNCHANGED <<owners, offered>>
      PROVE  OwnersGrow /\ OfferedOwned' /\ MessagesOwned'
  <2>1. OwnersGrow /\ OfferedOwned'
    BY <1>7 DEF OwnersGrow, OfferedOwned
  <2>2. \A t \in Services : ToSet(inbox'[t]) \subseteq ToSet(inbox[t])
    BY <1>7, Got
  <2> QED
    BY <2>1, <2>2, StaysOwned
<1>8. ASSUME NEW s \in Services, EndpointsFound(s)
      PROVE  OwnersKnown'
  <2> DEFINE map == [e \in Eids |-> IF e \in Head(inbox[s]).eids THEN s ELSE found[e]]
  <2>1. /\ Received(s, "reply") /\ UNCHANGED <<owners, offered>>
        /\ map \in EidMap /\ found' = map /\ AskNext(left, map, buses)
    BY <1>1, <1>8 DEF EndpointsFound, OtherTypes, EidMap, serviceVars
  <2>2. Owned(s, Head(inbox[s])) /\ Head(inbox[s]).kind = "reply"
    BY <2>1, Got DEF MessagesOwned
  <2>3. \A e \in Eids : map[e] # None => map[e] \in owners[e]
    BY <2>2 DEF Owned, MapsOwned
  <2> HIDE DEF map
  <2>4. MapsOwned'
    BY <1>1, <2>1, <2>3, AskedOwned DEF OtherTypes
  <2> QED
    BY <1>7, <2>1, <2>4
<1>9. ASSUME NEW s \in Services, OnInterfacesAdded(s)
      PROVE  OwnersKnown'
  <2>1. /\ Received(s, "added")
        /\ UNCHANGED <<owners, offered, found, endpointMap>>
    BY <1>9 DEF OnInterfacesAdded, serviceVars, detectVars
  <2>2. MapsOwned'
    BY <2>1 DEF MapsOwned
  <2> QED
    BY <1>7, <2>1, <2>2
<1>10. ASSUME NEW s \in Services, EndpointAdded(s)
       PROVE  OwnersKnown'
  <2>1. /\ Received(s, "reply") /\ UNCHANGED <<owners, offered, found>>
        /\ endpointMap' = [d \in Eids |->
              IF d \in Head(inbox[s]).eids /\ endpointMap[d] = None THEN s
              ELSE endpointMap[d]]
    BY <1>10 DEF EndpointAdded, AddToEidMap, serviceVars, detectVars
  <2>2. Owned(s, Head(inbox[s])) /\ Head(inbox[s]).kind = "reply"
    BY <2>1, Got DEF MessagesOwned
  <2>3. MapsOwned'
    BY <2>1, <2>2 DEF Owned, MapsOwned
  <2> QED
    BY <1>7, <2>1, <2>3
<1>11. ASSUME NEW s \in Services, OnInterfacesRemoved(s)
       PROVE  OwnersKnown'
  <2>1. /\ Received(s, "removed") /\ UNCHANGED <<owners, offered, found>>
        /\ \/ endpointMap' = [endpointMap EXCEPT ![Head(inbox[s]).eid] = None]
           \/ endpointMap' = endpointMap
    BY <1>11 DEF OnInterfacesRemoved, EraseDevice, serviceVars, detectVars
  <2>2. MapsOwned'
    BY <1>1, <2>1 DEF MapsOwned, OtherTypes, EidMap
  <2> QED
    BY <1>7, <2>1, <2>2
<1>12. ASSUME NEW s \in Services, NewService(s) \/ DeleteService(s)
       PROVE  OwnersKnown'
  <2>1. /\ \E kind : Received(s, kind)
        /\ UNCHANGED <<owners, offered, found, endpointMap>>
    BY <1>12 DEF NewService, DeleteService, serviceVars, detectVars
  <2>2. MapsOwned'
    BY <2>1 DEF MapsOwned
  <2> QED
    BY <1>7, <2>1, <2>2
<1>13. CASE FindBus
  <2>1. /\ UNCHANGED <<owners, offered, inbox, found>> /\ AskNext(up, found, up)
        /\ up \in SUBSET Services /\ found \in EidMap
    BY <1>1, <1>13 DEF FindBus, serviceVars, OtherTypes
  <2>2. OfferedOwned' /\ MessagesOwned'
    BY <2>1 DEF OfferedOwned, MessagesOwned, Owned
  <2>3. MapsOwned'
    <3>1. \A e \in Eids : found[e] # None => found[e] \in owners[e]
      BY DEF MapsOwned
    <3>2. owners' = owners /\ found' = found
      BY <2>1
    <3> QED
      BY <1>1, <2>1, <3>1, <3>2, AskedOwned
  <2> QED
    BY <2>2, <2>3
<1>14. CASE FindBusFails
  <2>1. UNCHANGED <<owners, offered, inbox, found, endpointMap>>
    BY <1>14 DEF FindBusFails, Detected, serviceVars
  <2> QED
    BY <2>1 DEF OfferedOwned, MessagesOwned, MapsOwned, Owned
<1> QED
  BY <1>2, <1>3, <1>4, <1>5, <1>6, <1>8, <1>9, <1>10, <1>11, <1>12, <1>13, <1>14
  DEF Next, Handle

-----------------------------------------------------------------------------
(***************************************************************************)
(* detectMctpEndpoints asks one service after the other, and there are no  *)
(* other messages until it is done.                                        *)
(***************************************************************************)
Down == \A s \in Services \ up : offered[s] = {} /\ asked[s] = <<>>

MapLater == phase # "done" => ~monitoring /\ NoneIn(endpointMap)

LEMMA PhasesSplitNext ==
    Down' /\ MapLater' /\ Finding' /\ ReadingOne' /\ DetectIsOver' => Phases'
BY DEF Down, MapLater, Phases

LEMMA DetectReply ==
    ASSUME NEW eids, NEW q, q = <<[kind |-> "reply", to |-> Detect, eids |-> eids]>>
    PROVE  /\ q # <<>> /\ Head(q) = [kind |-> "reply", to |-> Detect, eids |-> eids]
           /\ Tail(q) = <<>> /\ ToSet(q) = {Head(q)}
<1>1. q # <<>> /\ DOMAIN q = {1} /\ q[1] = [kind |-> "reply", to |-> Detect, eids |-> eids]
  OBVIOUS
<1>2. Head(q) = q[1] /\ Tail(q) = <<>>
  OBVIOUS
<1>3. ToSet(q) = {q[1]}
  BY <1>1 DEF ToSet
<1> QED
  BY <1>1, <1>2, <1>3

\* A message that is handled before the end is the answer that
\* detectMctpEndpoints waits for.
LEMMA WaitsForDetect ==
    ASSUME TypeOK, Phases, NEW t \in Services, NEW kind, Received(t, kind), phase # "done"
    PROVE  /\ phase = "read" /\ kind = "reply" /\ Head(inbox[t]).to = Detect
           /\ t \notin left /\ inbox'[t] = <<>>
           /\ \A s \in Services : asked[s] = <<>> /\ inbox'[s] = <<>>
<1>1. inbox[t] # <<>> /\ Head(inbox[t]).kind = kind /\ inbox'[t] = Tail(inbox[t])
      /\ \A s \in Services \ {t} : inbox'[s] = inbox[s]
  BY Got
<1>2. phase = "read"
  BY <1>1 DEF Phases, Finding, Still, TypeOK
<1>3. PICK s \in Services : BeingRead(s) /\ \A i \in Services \ {s} : Still(i)
  BY <1>2 DEF Phases, ReadingOne
<1>4. t = s
  BY <1>1, <1>3 DEF Still
<1>5. /\ t \notin left /\ asked[t] = <<>>
      /\ \E eids : inbox[t] = <<[kind |-> "reply", to |-> Detect, eids |-> eids]>>
  BY <1>1, <1>3, <1>4 DEF BeingRead
<1>6. /\ Head(inbox[t]).kind = "reply" /\ Head(inbox[t]).to = Detect
      /\ Tail(inbox[t]) = <<>>
  BY <1>5, DetectReply
<1> QED
  BY <1>1, <1>2, <1>3, <1>4, <1>5, <1>6 DEF Still

\* detectMctpEndpoints does not go on when it is done.
LEMMA FoundWhileReading ==
    ASSUME TypeOK, Phases, NEW t \in Services, EndpointsFound(t)
    PROVE  phase = "read"
<1>1. /\ Received(t, "reply") /\ Head(inbox[t]).to = Detect
  BY DEF EndpointsFound
<1>2. Head(inbox[t]) \in ToSet(inbox[t]) /\ Head(inbox[t]).kind = "reply"
  BY <1>1, Got
<1>3. phase # "done"
  BY <1>1, <1>2 DEF Phases, DetectIsOver
<1> QED
  BY <1>1, <1>3, WaitsForDetect

\* Where a service that stops has left nothing but the answer that is waited for
LEMMA StopEarly ==
    ASSUME TypeOK, NEW t \in Services, Stop(t), ~monitoring
    PROVE  /\ asked[t] = <<>> => inbox'[t] = inbox[t]
           /\ asked[t] = <<Detect>> /\ inbox[t] = <<>> =>
                 inbox'[t] = <<[kind |-> "reply", to |-> Detect, eids |-> {}]>>
<1>1. Bye(t) = <<>>
  BY DEF Bye
<1>2. inbox[t] \in Seq(Message)
  BY StopLeaves
<1>3. inbox'[t] = inbox[t] \o (Bye(t) \o Errors(t))
  BY StopLeaves
<1>4. ASSUME asked[t] = <<>> PROVE inbox'[t] = inbox[t]
  <2>1. Errors(t) = <<>>
    BY <1>4 DEF Errors
  <2> QED
    BY <1>1, <1>2, <1>3, <2>1
<1>5. ASSUME asked[t] = <<Detect>>, inbox[t] = <<>>
      PROVE  inbox'[t] = <<[kind |-> "reply", to |-> Detect, eids |-> {}]>>
  <2>1. Errors(t) = <<[kind |-> "reply", to |-> Detect, eids |-> {}]>>
    <3>1. PICK r : r = [kind |-> "reply", to |-> Detect, eids |-> {}]
      OBVIOUS
    <3>2. 1 .. Len(asked[t]) = 1 .. 1 /\ asked[t][1] = Detect
      BY <1>5
    <3>3. Errors(t) = [i \in 1 .. 1 |-> r]
      <4>1. \A i \in 1 .. 1 :
               [kind |-> "reply", to |-> asked[t][i], eids |-> {}] = r
        <5>1. \A i \in 1 .. 1 : i = 1
          OBVIOUS
        <5> QED
          BY <3>1, <3>2, <5>1
      <4>2. [i \in 1 .. Len(asked[t]) |->
                [kind |-> "reply", to |-> asked[t][i], eids |-> {}]]
             = [i \in 1 .. 1 |-> r]
        BY <3>2, <4>1
      <4> QED
        BY <4>2, Zenon DEF Errors
    <3>4. [i \in 1 .. 1 |-> r] = <<r>>
      OBVIOUS
    <3> QED
      BY <3>1, <3>3, <3>4
  <2>2. PICK r : r = [kind |-> "reply", to |-> Detect, eids |-> {}]
    OBVIOUS
  <2>3. inbox'[t] = <<>> \o (<<>> \o <<r>>)
    BY <1>1, <1>3, <1>5, <2>1, <2>2
  <2>4. <<>> \o (<<>> \o <<r>>) = <<r>>
    <3>1. <<r>> \in Seq({r})
      OBVIOUS
    <3> QED
      BY <3>1, ConcatEmptySeq
  <2> QED
    BY <2>2, <2>3, <2>4
<1> QED
  BY <1>4, <1>5

\* AskNext, where all is still
LEMMA AsksPhases ==
    ASSUME TypeOK, Phases, phase # "done",
           NEW services \in SUBSET Services, NEW map, NEW known,
           AskNext(services, map, known), up' = up, offered' = offered,
           \A s \in Services : asked[s] = <<>> /\ inbox'[s] = <<>>
    PROVE  Phases'
<1>1. AskedType
  BY Queues
<1>2. CASE /\ Detected(map, known) /\ asked' = asked
  <2>1. Down' /\ MapLater' /\ Finding' /\ ReadingOne'
    BY <1>2 DEF Detected, Phases, Down, MapLater, Finding, ReadingOne
  <2>2. DetectIsOver'
    <3>1. DOMAIN <<>> = {}
      OBVIOUS
    <3> QED
      BY <1>2, <3>1, NoMessage DEF Detected, DetectIsOver
  <2> QED
    BY <2>1, <2>2, PhasesSplitNext
<1>3. ASSUME phase' = "read",
             UNCHANGED <<endpointMap, told, matchers, monitoring>>,
             NEW s \in services \cap up, s \notin left',
             asked'[s] = Append(asked[s], Detect),
             \A t \in Services \ {s} : asked'[t] = asked[t]
      PROVE  Phases'
  <2>1. asked'[s] = <<Detect>>
    <3>1. asked[s] = <<>>
      BY <1>3
    <3>2. Append(<<>>, Detect) = <<Detect>>
      OBVIOUS
    <3> QED
      BY <1>3, <3>1, <3>2
  <2>2. Down'
    BY <1>3 DEF Phases, Down
  <2>3. MapLater' /\ Finding' /\ DetectIsOver'
    BY <1>3 DEF Phases, MapLater, Finding, DetectIsOver, NoneIn
  <2>4. ReadingOne'
    <3>1. s \in Services /\ BeingRead(s)' /\ \A t \in Services \ {s} : Still(t)'
      BY <1>3, <2>1 DEF BeingRead, Still
    <3> QED
      BY <3>1 DEF ReadingOne
  <2> QED
    BY <2>2, <2>3, <2>4, PhasesSplitNext
<1> QED
  BY <1>1, <1>2, <1>3, Asks

LEMMA InitPhases == Init => Phases
BY DEF Init, Phases, Finding, ReadingOne, DetectIsOver, Still, NoneIn

LEMMA NextPhases ==
    ASSUME TypeOK, Phases, Next
    PROVE  Phases'
<1>1. InboxType /\ AskedType /\ OtherTypes
  BY TypesSplit
<1>2. Down /\ MapLater /\ Finding /\ ReadingOne /\ DetectIsOver
  BY DEF Phases, Down, MapLater
<1>3. ASSUME NEW s \in Services, NEW m \in Message, Send(s, m),
             m.kind # "reply", Change, left' = left, asked' = asked,
             UNCHANGED <<endpointMap, monitoring>>, Down'
      PROVE  Phases'
  <2>1. phase' = phase /\ found' = found
    BY <1>3 DEF Change
  <2>2. MapLater'
    BY <1>2, <1>3, <2>1 DEF MapLater, NoneIn
  <2>3. CASE phase # "done"
    <3>1. inbox' = inbox
      BY <1>2, <1>3, <2>3, Sent DEF MapLater
    <3> QED
      BY <1>2, <1>3, <2>1, <2>2, <2>3, <3>1, PhasesSplitNext
      DEF Finding, ReadingOne, DetectIsOver, BeingRead, Still, NoneIn
  <2>4. CASE phase = "done"
    <3>1. \A t \in Services : \A i \in ToSet(inbox'[t]) :
             i \in ToSet(inbox[t]) \/ (t = s /\ i = m)
      BY <1>3, SentMessages
    <3>2. DetectIsOver'
      BY <1>2, <1>3, <2>1, <2>4, <3>1 DEF DetectIsOver
    <3> QED
      BY <1>3, <2>1, <2>2, <2>4, <3>2, PhasesSplitNext DEF Finding, ReadingOne
  <2> QED
    BY <2>3, <2>4
<1>4. ASSUME NEW s \in Services, NEW e \in Eids, Offer(s, e)
      PROVE  Phases'
  <2>1. Down'
    BY <1>1, <1>2, <1>4 DEF Offer, Down, OtherTypes
  <2> QED
    BY <1>3, <1>4, <2>1, Signals DEF Offer, Change
<1>5. ASSUME NEW s \in Services, NEW e \in Eids, Withdraw(s, e)
      PROVE  Phases'
  <2>1. Down'
    BY <1>1, <1>2, <1>5 DEF Withdraw, Down, OtherTypes
  <2> QED
    BY <1>3, <1>5, <2>1, Signals DEF Withdraw, Change
<1>6. ASSUME NEW s \in Services, Start(s)
      PROVE  Phases'
  <2>1. Down'
    BY <1>2, <1>6 DEF Start, Down
  <2>2. [kind |-> "serviceAdded"] \in Message
    BY DEF Message, ServiceSignal
  <2> QED
    BY <1>3, <1>6, <2>1, <2>2 DEF Start, Change
<1>7. ASSUME NEW s \in Services, Stop(s)
      PROVE  Phases'
  <2>1. /\ up' = up \ {s} /\ offered' = [offered EXCEPT ![s] = {}]
        /\ left' \subseteq left
        /\ UNCHANGED <<phase, found, endpointMap, monitoring>>
    BY <1>7 DEF Stop, Change
  <2>2. /\ inbox[s] \in Seq(Message) /\ Bye(s) \o Errors(s) \in Seq(Message)
        /\ inbox'[s] = inbox[s] \o (Bye(s) \o Errors(s))
        /\ \A t \in Services \ {s} : inbox'[t] = inbox[t] /\ asked'[t] = asked[t]
        /\ asked'[s] = <<>>
        /\ \A m \in ToSet(Bye(s) \o Errors(s)) :
              \/ m.kind = "serviceRemoved" /\ monitoring
              \/ /\ m.kind = "reply" /\ m.eids = {}
                 /\ \E k \in DOMAIN asked[s] : m.to = asked[s][k]
    BY <1>7, StopLeaves
  <2>3. Down' /\ MapLater'
    BY <1>1, <1>2, <2>1, <2>2 DEF Down, MapLater, NoneIn, OtherTypes
  <2>4. Finding' /\ ReadingOne'
    <3>1. CASE phase # "done"
      <4>1. /\ asked[s] = <<>> => inbox'[s] = inbox[s]
            /\ asked[s] = <<Detect>> /\ inbox[s] = <<>> =>
                  inbox'[s] = <<[kind |-> "reply", to |-> Detect, eids |-> {}]>>
        BY <1>2, <1>7, <3>1, StopEarly DEF MapLater
      <4>2. Finding'
        BY <1>2, <2>1, <2>2, <4>1 DEF Finding, Still, NoneIn
      <4>3. ASSUME phase = "read" PROVE ReadingOne'
        <5>1. PICK t \in Services : BeingRead(t) /\ \A i \in Services \ {t} : Still(i)
          BY <1>2, <4>3 DEF ReadingOne
        <5>2. BeingRead(t)'
          <6>1. CASE t = s
            BY <2>1, <2>2, <4>1, <5>1, <6>1 DEF BeingRead
          <6>2. CASE t # s
            BY <2>1, <2>2, <5>1, <6>2 DEF BeingRead
          <6> QED
            BY <6>1, <6>2
        <5>3. \A i \in Services \ {t} : Still(i)'
          BY <2>2, <4>1, <5>1 DEF Still
        <5> QED
          BY <5>2, <5>3 DEF ReadingOne
      <4> QED
        BY <2>1, <4>2, <4>3 DEF ReadingOne
    <3>2. CASE phase = "done"
      BY <2>1, <3>2 DEF Finding, ReadingOne
    <3> QED
      BY <3>1, <3>2
  <2>5. DetectIsOver'
    <3> SUFFICES ASSUME phase = "done" PROVE DetectIsOver'
      BY <2>1 DEF DetectIsOver
    <3>1. monitoring'
      BY <1>2, <2>1 DEF DetectIsOver
    <3>2. \A t \in Services : \A k \in DOMAIN asked'[t] : asked'[t][k] # Detect
      <4>1. DOMAIN <<>> = {}
        OBVIOUS
      <4> QED
        BY <1>2, <2>2, <4>1 DEF DetectIsOver
    <3>3. ToSet(inbox'[s]) = ToSet(inbox[s]) \cup ToSet(Bye(s) \o Errors(s))
      <4> DEFINE q == inbox[s]
                 r == Bye(s) \o Errors(s)
      <4>1. q \in Seq(Message) /\ r \in Seq(Message) /\ inbox'[s] = q \o r
        BY <2>2
      <4> HIDE DEF q, r
      <4>2. ToSet(q \o r) = ToSet(q) \cup ToSet(r)
        BY <4>1, ConcatPlaces
      <4> QED
        BY <4>1, <4>2 DEF q, r
    <3>4. \A m \in ToSet(Bye(s) \o Errors(s)) : m.kind = "reply" => m.to # Detect
      BY <1>2, <2>2 DEF DetectIsOver
    <3>5. \A t \in Services : \A m \in ToSet(inbox'[t]) : m.kind = "reply" => m.to # Detect
      BY <1>2, <2>2, <3>3, <3>4 DEF DetectIsOver
    <3> QED
      BY <3>1, <3>2, <3>5 DEF DetectIsOver
  <2> QED
    BY <2>3, <2>4, <2>5, PhasesSplitNext
<1>8. ASSUME NEW s \in Services, Answer(s)
      PROVE  Phases'
  <2> PICK m : m = [kind |-> "reply", to |-> Head(asked[s]), eids |-> offered[s]]
    OBVIOUS
  <2>1. /\ inbox[s] \in Seq(Message) /\ m \in Message /\ inbox'[s] = Append(inbox[s], m)
        /\ \A t \in Services \ {s} : inbox'[t] = inbox[t] /\ asked'[t] = asked[t]
        /\ asked'[s] = Tail(asked[s]) /\ asked[s] \in Seq(Eids \cup {Detect})
        /\ asked[s] # <<>> /\ s \in up
    BY <1>8, Answered
  <2>2. UNCHANGED <<up, offered, phase, left, found, endpointMap, monitoring>>
    BY <1>8 DEF Answer, serviceVars, detectVars
  <2>3. Down' /\ MapLater'
    BY <1>2, <2>1, <2>2 DEF Down, MapLater, NoneIn
  <2>4. Finding'
    BY <1>2, <2>1, <2>2 DEF Finding, Still
  <2>5. ReadingOne'
    <3> SUFFICES ASSUME phase = "read" PROVE ReadingOne'
      BY <2>2 DEF ReadingOne
    <3>1. PICK t \in Services : BeingRead(t) /\ \A i \in Services \ {t} : Still(i)
      BY <1>2 DEF ReadingOne
    <3>2. t = s /\ inbox[s] = <<>> /\ asked[s] = <<Detect>> /\ s \notin left
      BY <2>1, <3>1 DEF Still, BeingRead
    <3>3. Head(<<Detect>>) = Detect /\ Tail(<<Detect>>) = <<>>
      OBVIOUS
    <3>4. Append(<<>>, m) = <<m>>
      OBVIOUS
    <3>5. offered[s] \in SUBSET Eids
      BY <1>1 DEF OtherTypes
    <3>6. BeingRead(s)'
      BY <2>1, <2>2, <3>2, <3>3, <3>4, <3>5 DEF BeingRead
    <3>7. \A i \in Services \ {s} : Still(i)'
      BY <2>1, <3>1, <3>2 DEF Still
    <3> QED
      BY <3>6, <3>7 DEF ReadingOne
  <2>6. DetectIsOver'
    <3> SUFFICES ASSUME phase = "done" PROVE DetectIsOver'
      BY <2>2 DEF DetectIsOver
    <3>1. /\ DOMAIN asked[s] = 1 .. Len(asked[s]) /\ Head(asked[s]) = asked[s][1]
          /\ Len(asked[s]) \in Nat \ {0}
          /\ DOMAIN Tail(asked[s]) = 1 .. Len(asked[s]) - 1
          /\ \A k \in 1 .. Len(asked[s]) - 1 : Tail(asked[s])[k] = asked[s][k + 1]
      BY <2>1, Tailed
    <3>2. /\ 1 \in 1 .. Len(asked[s])
          /\ \A k \in 1 .. Len(asked[s]) - 1 : k + 1 \in 1 .. Len(asked[s])
      BY <3>1
    <3>3. \A k \in 1 .. Len(asked[s]) : asked[s][k] # Detect
      BY <1>2, <3>1 DEF DetectIsOver
    <3>4. m.to # Detect /\ \A k \in DOMAIN asked'[s] : asked'[s][k] # Detect
      BY <2>1, <3>1, <3>2, <3>3
    <3>5. ToSet(inbox'[s]) = ToSet(inbox[s]) \cup {m}
      BY <2>1, Appended
    <3>6. \A t \in Services : \A k \in DOMAIN asked'[t] : asked'[t][k] # Detect
      BY <1>2, <2>1, <3>4 DEF DetectIsOver
    <3>7. \A t \in Services : \A n \in ToSet(inbox'[t]) : n.kind = "reply" => n.to # Detect
      BY <1>2, <2>1, <3>4, <3>5 DEF DetectIsOver
    <3> QED
      BY <1>2, <2>2, <3>6, <3>7 DEF DetectIsOver
  <2> QED
    BY <2>3, <2>4, <2>5, <2>6, PhasesSplitNext
<1>9. ASSUME NEW s \in Services, EndpointsFound(s)
      PROVE  Phases'
  <2>1. /\ Received(s, "reply") /\ UNCHANGED <<up, offered>>
        /\ \E map : AskNext(left, map, buses)
    BY <1>9 DEF EndpointsFound, serviceVars
  <2>2. phase = "read"
    BY <1>9, FoundWhileReading
  <2>3. \A t \in Services : asked[t] = <<>> /\ inbox'[t] = <<>>
    BY <2>1, <2>2, WaitsForDetect
  <2>4. left \in SUBSET Services
    BY <1>1 DEF OtherTypes
  <2> QED
    BY <2>1, <2>2, <2>3, <2>4, AsksPhases
<1>10. ASSUME NEW s \in Services, NEW kind, Received(s, kind), phase = "done",
              UNCHANGED <<up, offered, phase, monitoring>>,
              \A t \in Services : \A k \in DOMAIN asked'[t] :
                 asked'[t][k] = Detect => \E j \in DOMAIN asked[t] : asked[t][j] = Detect,
              \A t \in Services \ up : asked'[t] = asked[t]
       PROVE  Phases'
  <2>1. \A t \in Services : ToSet(inbox'[t]) \subseteq ToSet(inbox[t])
    BY <1>10, Got
  <2>2. DetectIsOver'
    BY <1>2, <1>10, <2>1 DEF DetectIsOver
  <2>3. Down' /\ MapLater' /\ Finding' /\ ReadingOne'
    BY <1>2, <1>10 DEF Down, MapLater, Finding, ReadingOne
  <2> QED
    BY <2>2, <2>3, PhasesSplitNext
<1>11. ASSUME NEW s \in Services, OnInterfacesAdded(s)
       PROVE  Phases'
  <2>1. /\ Received(s, "added") /\ UNCHANGED <<up, offered, phase, monitoring>>
    BY <1>11 DEF OnInterfacesAdded, serviceVars, detectVars
  <2>2. phase = "done"
    BY <2>1, WaitsForDetect
  <2>3. \A t \in Services : \A k \in DOMAIN asked'[t] :
           asked'[t][k] = Detect => \E j \in DOMAIN asked[t] : asked[t][j] = Detect
    BY <1>11, AskedForSignal
  <2>4. \A t \in Services \ up : asked'[t] = asked[t]
    BY <1>11, AskedForSignal
  <2> QED
    BY <1>10, <2>1, <2>2, <2>3, <2>4
<1>12. ASSUME NEW s \in Services,
              EndpointAdded(s) \/ OnInterfacesRemoved(s) \/ NewService(s) \/ DeleteService(s)
       PROVE  Phases'
  <2>1. /\ \E kind : Received(s, kind) /\ (kind = "reply" => Head(inbox[s]).to # Detect)
        /\ UNCHANGED <<up, offered, phase, monitoring, asked>>
    BY <1>12
    DEF EndpointAdded, OnInterfacesRemoved, NewService, DeleteService, serviceVars, detectVars
  <2>2. phase = "done"
    BY <2>1, WaitsForDetect
  <2> QED
    BY <1>10, <2>1, <2>2
<1>13. CASE FindBus
  <2>1. /\ phase = "find" /\ UNCHANGED <<up, offered, inbox>> /\ AskNext(up, found, up)
    BY <1>13 DEF FindBus, serviceVars
  <2>2. \A t \in Services : asked[t] = <<>> /\ inbox'[t] = <<>>
    BY <1>2, <2>1 DEF Finding, Still
  <2>3. up \in SUBSET Services
    BY <1>1 DEF OtherTypes
  <2> QED
    BY <2>1, <2>2, <2>3, AsksPhases
<1>14. CASE FindBusFails
  <2>1. /\ phase = "find" /\ phase' = "done" /\ monitoring'
        /\ UNCHANGED <<up, offered, inbox, asked>>
    BY <1>14 DEF FindBusFails, Detected, serviceVars
  <2>2. \A t \in Services : asked'[t] = <<>> /\ inbox'[t] = <<>>
    BY <1>2, <2>1 DEF Finding, Still
  <2>3. DetectIsOver'
    <3>1. DOMAIN <<>> = {}
      OBVIOUS
    <3> QED
      BY <2>1, <2>2, <3>1, NoMessage DEF DetectIsOver
  <2> QED
    BY <1>2, <2>1, <2>3, PhasesSplitNext DEF Down, MapLater, Finding, ReadingOne
<1> QED
  BY <1>4, <1>5, <1>6, <1>7, <1>8, <1>9, <1>11, <1>12, <1>13, <1>14 DEF Next, Handle

-----------------------------------------------------------------------------
(***************************************************************************)
(* The map follows.                                                        *)
(***************************************************************************)
LEMMA FollowedBefore ==
    ASSUME OwnersGrow, missed \subseteq missed', NEW s \in Services, NEW e \in Eids,
           Followed(s, e)'
    PROVE  Followed(s, e)
BY DEF OwnersGrow, Followed

\* What other services do
LEMMA TrackedSame ==
    ASSUME NEW s \in Services, NEW e \in Eids, TrackedAt(s, e),
           phase' = phase, inbox'[s] = inbox[s], asked'[s] = asked[s],
           s \in left' <=> s \in left, found' = found,
           offered'[s] = offered[s], endpointMap'[e] = endpointMap[e]
    PROVE  TrackedAt(s, e)'
<1>1. Unread(s)' <=> Unread(s)
  BY DEF Unread
<1>2. phase = "read" => Reading(s, e)'
  BY <1>1 DEF TrackedAt, Reading
<1>3. Present(s, e)' <=> Present(s, e)
  BY DEF Present
<1>4. Absent(s, e)' <=> Absent(s, e)
  BY DEF Absent
<1> QED
  BY <1>2, <1>3, <1>4 DEF TrackedAt

\* s sends a message when detectMctpEndpoints is done.
LEMMA TrackedSent ==
    ASSUME NEW s \in Services, NEW e \in Eids, TrackedAt(s, e),
           phase = "done", phase' = "done", NEW m \in Message,
           inbox[s] \in Seq(Message), inbox'[s] = Append(inbox[s], m),
           asked'[s] = asked[s], endpointMap'[e] = endpointMap[e],
           \/ /\ e \in offered'[s] <=> e \in offered[s]
              /\ ~Erases(m, e) /\ ~Tells(m, e)
           \/ e \in offered'[s] /\ m.kind = "added"
           \/ e \notin offered'[s] /\ Erases(m, e)
    PROVE  TrackedAt(s, e)'
<1>1. /\ NoErase(inbox[s], e) /\ ~Erases(m, e) => NoErase(inbox'[s], e)
      /\ NoTell(inbox[s], e) /\ ~Tells(m, e) => NoTell(inbox'[s], e)
      /\ Adds(inbox[s]) \/ m.kind = "added" => Adds(inbox'[s])
      /\ Tells(m, e) \/ (TellsLast(inbox[s], e) /\ ~Erases(m, e)) =>
            TellsLast(inbox'[s], e)
      /\ Erases(m, e) \/ (ErasesLast(inbox[s], e) /\ ~Tells(m, e)) =>
            ErasesLast(inbox'[s], e)
  BY AppendKeeps
<1>2. e \in offered'[s] => Present(s, e)'
  BY <1>1 DEF TrackedAt, Present
<1>3. e \notin offered'[s] => Absent(s, e)'
  BY <1>1 DEF TrackedAt, Absent
<1> QED
  BY <1>2, <1>3 DEF TrackedAt

\* A change of s itself, of which it sends the signal m
LEMMA TrackedChange ==
    ASSUME TypeOK, Phases, NEW s \in Services, NEW e \in Eids, NEW m \in Message,
           TrackedAt(s, e), Followed(s, e)', Send(s, m), Change,
           UNCHANGED <<left, asked>>,
           \/ /\ e \in offered'[s] <=> e \in offered[s]
              /\ ~Erases(m, e) /\ ~Tells(m, e)
           \/ e \in offered'[s] /\ m.kind = "added"
           \/ e \notin offered'[s] /\ Erases(m, e)
    PROVE  TrackedAt(s, e)'
<1>1. UNCHANGED <<phase, found, endpointMap>>
  BY DEF Change
<1>2. CASE phase = "done"
  <2>1. monitoring
    BY <1>2 DEF Phases, DetectIsOver
  <2>2. inbox'[s] = Append(inbox[s], m) /\ inbox[s] \in Seq(Message)
    BY <2>1, Sent
  <2> QED
    BY <1>1, <1>2, <2>2, TrackedSent
<1>3. CASE phase # "done"
  <2>1. ~monitoring
    BY <1>3 DEF Phases
  <2>2. Unread(s)
    BY <2>1, Sent DEF Followed
  <2>3. Unread(s)'
    BY <1>1, <2>2 DEF Unread
  <2> QED
    BY <1>1, <1>3, <2>2, <2>3 DEF TrackedAt, Reading
<1> QED
  BY <1>2, <1>3

LEMMA OffersTracked ==
    ASSUME TypeOK, Phases, NEW t \in Services, NEW d \in Eids,
           Offer(t, d) \/ Withdraw(t, d),
           NEW s \in Services, NEW e \in Eids, TrackedAt(s, e), Followed(s, e)'
    PROVE  TrackedAt(s, e)'
<1>1. offered \in [Services -> SUBSET Eids]
  BY DEF TypeOK
<1>2. CASE t # s
  <2> PICK m \in Message : Send(t, m)
    BY Signals DEF Offer, Withdraw
  <2>1. inbox'[s] = inbox[s]
    BY <1>2, Sent
  <2>2. /\ UNCHANGED <<phase, asked, left, found, endpointMap>>
        /\ offered'[s] = offered[s]
    BY <1>1, <1>2 DEF Offer, Withdraw, Change
  <2> QED
    BY <2>1, <2>2, TrackedSame
<1>3. CASE t = s /\ Offer(t, d)
  <2> DEFINE m == [kind |-> "added", eid |-> d]
  <2>1. m \in Message /\ ~Erases(m, e) /\ ~Tells(m, e) /\ m.kind = "added"
    BY Signals DEF Erases, Tells
  <2> HIDE DEF m
  <2>2. /\ Send(s, m) /\ Change /\ UNCHANGED <<left, asked>>
        /\ offered'[s] = offered[s] \cup {d}
    BY <1>1, <1>3 DEF Offer, m
  <2>3. (e \in offered'[s] <=> e \in offered[s]) \/ e \in offered'[s]
    BY <2>2
  <2> QED
    BY <2>1, <2>2, <2>3, TrackedChange
<1>4. CASE t = s /\ Withdraw(t, d)
  <2> DEFINE m == [kind |-> "removed", eid |-> d]
  <2>1. m \in Message /\ (Erases(m, e) <=> d = e) /\ ~Tells(m, e)
    BY Signals DEF Erases, Tells
  <2> HIDE DEF m
  <2>2. /\ Send(s, m) /\ Change /\ UNCHANGED <<left, asked>>
        /\ offered'[s] = offered[s] \ {d}
    BY <1>1, <1>4 DEF Withdraw, m
  <2>3. \/ (e \in offered'[s] <=> e \in offered[s]) /\ ~Erases(m, e)
        \/ e \notin offered'[s] /\ Erases(m, e)
    BY <2>1, <2>2
  <2> QED
    BY <2>1, <2>2, <2>3, TrackedChange
<1> QED
  BY <1>2, <1>3, <1>4

LEMMA StartTracked ==
    ASSUME TypeOK, Phases, NEW t \in Services, Start(t),
           NEW s \in Services, NEW e \in Eids, TrackedAt(s, e), Followed(s, e)'
    PROVE  TrackedAt(s, e)'
<1> DEFINE m == [kind |-> "serviceAdded"]
<1>1. m \in Message /\ ~Erases(m, e) /\ ~Tells(m, e)
  BY DEF Message, ServiceSignal, Erases, Tells
<1> HIDE DEF m
<1>2. /\ Send(t, m) /\ Change /\ UNCHANGED <<left, asked, offered>>
  BY DEF Start, m
<1>3. CASE t # s
  <2>1. inbox'[s] = inbox[s]
    BY <1>1, <1>2, <1>3, Sent
  <2>2. UNCHANGED <<phase, found, endpointMap>>
    BY <1>2 DEF Change
  <2> QED
    BY <1>2, <2>1, <2>2, TrackedSame
<1>4. CASE t = s
  BY <1>1, <1>2, <1>4, TrackedChange
<1> QED
  BY <1>3, <1>4

LEMMA StopTracked ==
    ASSUME TypeOK, Phases, NEW t \in Services, Stop(t),
           NEW s \in Services, NEW e \in Eids, TrackedAt(s, e), Followed(s, e)'
    PROVE  TrackedAt(s, e)'
<1>1. offered \in [Services -> SUBSET Eids]
  BY DEF TypeOK
<1>2. /\ offered' = [offered EXCEPT ![t] = {}]
      /\ left' = left \ ({t} \ Named)
      /\ missed' = IF offered[t] = {} THEN missed ELSE missed \cup {t}
      /\ UNCHANGED <<phase, found, endpointMap>>
  BY DEF Stop, Change
<1>3. /\ inbox[t] \in Seq(Message) /\ Bye(t) \o Errors(t) \in Seq(Message)
      /\ inbox'[t] = inbox[t] \o (Bye(t) \o Errors(t))
      /\ \A i \in Services \ {t} : inbox'[i] = inbox[i] /\ asked'[i] = asked[i]
      /\ asked'[t] = <<>>
      /\ \A m \in ToSet(Bye(t) \o Errors(t)) :
            \/ m.kind = "serviceRemoved"
            \/ m.kind = "reply" /\ m.eids = {}
  BY StopLeaves
<1>4. CASE t # s
  <2>1. /\ inbox'[s] = inbox[s] /\ asked'[s] = asked[s] /\ offered'[s] = offered[s]
        /\ s \in left' <=> s \in left
    BY <1>1, <1>2, <1>3, <1>4
  <2> QED
    BY <1>2, <2>1, TrackedSame
<1>5. CASE t = s
  <2>1. e \notin offered[s] /\ e \notin offered'[s]
    BY <1>1, <1>2, <1>5 DEF Followed
  <2>2. CASE phase = "done"
    <3> DEFINE q == inbox[s]
               r == Bye(s) \o Errors(s)
    <3>1. /\ q \in Seq(Message) /\ r \in Seq(Message) /\ inbox'[s] = q \o r
          /\ \A m \in ToSet(r) : m.kind = "serviceRemoved" \/ (m.kind = "reply" /\ m.eids = {})
      BY <1>3, <1>5
    <3>2. Absent(s, e)
      BY <2>1, <2>2 DEF TrackedAt
    <3> HIDE DEF r
    <3>3. \A m \in ToSet(r) : ~Erases(m, e) /\ ~Tells(m, e)
      BY <3>1 DEF Erases, Tells
    <3>4. /\ NoTell(q, e) => NoTell(q \o r, e)
          /\ ErasesLast(q, e) => ErasesLast(q \o r, e)
      BY <3>1, <3>3, ConcatKeeps
    <3>5. Absent(s, e)'
      BY <1>2, <3>1, <3>2, <3>4 DEF Absent
    <3> QED
      BY <1>2, <2>1, <2>2, <3>5 DEF TrackedAt
  <2>3. CASE phase = "read"
    <3>1. /\ asked[s] = <<>> => inbox'[s] = inbox[s]
          /\ asked[s] = <<Detect>> /\ inbox[s] = <<>> =>
                inbox'[s] = <<[kind |-> "reply", to |-> Detect, eids |-> {}]>>
      <4>1. ~monitoring
        BY <2>3 DEF Phases
      <4> QED
        BY <1>5, <4>1, StopEarly
    <3>2. Still(s) \/ BeingRead(s)
      BY <2>3 DEF Phases, ReadingOne
    <3>3. asked'[s] = <<>> /\ ~Contains(asked'[s], Detect)
      <4>1. ~Contains(<<>>, Detect)
        BY DEF Contains
      <4> QED
        BY <1>3, <1>5, <4>1
    <3>4. CASE asked[s] = <<>>
      <4>1. ~Contains(asked[s], Detect) /\ inbox'[s] = inbox[s]
        BY <3>1, <3>4 DEF Contains
      <4>2. CASE s \in left
        <5>1. inbox[s] = <<>> /\ found[e] # s
          BY <2>3, <3>2, <4>2 DEF Still, BeingRead, TrackedAt, Reading, Unread
        <5> QED
          BY <1>2, <2>1, <2>3, <4>1, <5>1 DEF TrackedAt, Reading
      <4>3. CASE s \notin left
        <5>1. ~Unread(s) /\ ~Unread(s)'
          BY <1>2, <2>3, <3>3, <4>1, <4>3 DEF Unread
        <5> QED
          BY <1>2, <2>1, <2>3, <4>1, <5>1 DEF TrackedAt, Reading
      <4> QED
        BY <4>2, <4>3
    <3>5. CASE asked[s] = <<Detect>> /\ inbox[s] = <<>> /\ s \notin left
      <4>1. Contains(asked[s], Detect)
        <5>1. Contains(<<Detect>>, Detect)
          BY DEF Contains
        <5> QED
          BY <3>5, <5>1
      <4>2. found[e] # s
        BY <2>3, <4>1 DEF TrackedAt, Reading, Unread
      <4>3. inbox'[s] # <<>> /\ Head(inbox'[s]).eids = {}
        BY <3>1, <3>5, DetectReply
      <4>4. ~Unread(s)'
        BY <1>2, <2>3, <3>3, <3>5 DEF Unread
      <4> QED
        BY <1>2, <2>1, <2>3, <4>2, <4>3, <4>4 DEF TrackedAt, Reading
    <3> QED
      BY <3>2, <3>4, <3>5 DEF Still, BeingRead
  <2>4. CASE phase = "find"
    BY <1>2, <2>4 DEF TrackedAt
  <2> QED
    BY <2>2, <2>3, <2>4 DEF TypeOK
<1> QED
  BY <1>4, <1>5

LEMMA AnswerTracked ==
    ASSUME TypeOK, Phases, NEW t \in Services, Answer(t),
           NEW s \in Services, NEW e \in Eids, TrackedAt(s, e), Followed(s, e)'
    PROVE  TrackedAt(s, e)'
<1> PICK m : m = [kind |-> "reply", to |-> Head(asked[t]), eids |-> offered[t]]
  OBVIOUS
<1>1. /\ inbox[t] \in Seq(Message) /\ m \in Message /\ inbox'[t] = Append(inbox[t], m)
      /\ \A i \in Services \ {t} : inbox'[i] = inbox[i] /\ asked'[i] = asked[i]
      /\ asked'[t] = Tail(asked[t]) /\ asked[t] # <<>>
  BY Answered
<1>2. UNCHANGED <<offered, phase, left, found, endpointMap>>
  BY DEF Answer, serviceVars, detectVars
<1>3. CASE t # s
  BY <1>1, <1>2, <1>3, TrackedSame
<1>4. CASE t = s
  <2>1. ~Erases(m, e) /\ (Tells(m, e) <=> e \in offered[s])
    BY <1>4 DEF Erases, Tells
  <2>2. CASE phase = "done"
    <3>0. inbox[s] \in Seq(Message) /\ m \in Message /\ inbox'[s] = Append(inbox[s], m)
      BY <1>1, <1>4
    <3>1. /\ NoTell(inbox[s], e) /\ ~Tells(m, e) => NoTell(inbox'[s], e)
          /\ Tells(m, e) => TellsLast(inbox'[s], e)
          /\ ErasesLast(inbox[s], e) /\ ~Tells(m, e) => ErasesLast(inbox'[s], e)
      <4> DEFINE q == inbox[s]
                 r == Append(q, m)
      <4>1. q \in Seq(Message) /\ inbox'[s] = r
        BY <3>0
      <4>2. /\ NoTell(q, e) /\ ~Tells(m, e) => NoTell(r, e)
            /\ Tells(m, e) => TellsLast(r, e)
            /\ ErasesLast(q, e) /\ ~Tells(m, e) => ErasesLast(r, e)
        <5> HIDE DEF q
        <5> QED
          BY <3>0, <4>1, AppendKeeps
      <4> HIDE DEF r
      <4> QED
        BY <4>1, <4>2
    <3>2. e \in offered[s] => Present(s, e)'
      BY <2>1, <3>1 DEF Present
    <3>3. e \notin offered[s] => Absent(s, e)'
      BY <1>2, <2>1, <2>2, <3>1 DEF TrackedAt, Absent
    <3> QED
      BY <1>2, <2>2, <3>2, <3>3 DEF TrackedAt
  <2>3. CASE phase = "read"
    <3>1. inbox[s] = <<>> /\ asked[s] = <<Detect>> /\ s \notin left
      BY <1>1, <1>4, <2>3 DEF Phases, ReadingOne, Still, BeingRead
    <3>2. Contains(<<Detect>>, Detect) /\ ~Contains(<<>>, Detect) /\ Tail(<<Detect>>) = <<>>
      BY DEF Contains
    <3>3. found[e] # s
      BY <2>3, <3>1, <3>2 DEF TrackedAt, Reading, Unread
    <3>4. ~Unread(s)'
      BY <1>1, <1>2, <1>4, <2>3, <3>1, <3>2 DEF Unread
    <3>5. Append(<<>>, m) # <<>> /\ Head(Append(<<>>, m)) = m
      OBVIOUS
    <3>6. inbox'[s] # <<>> /\ Head(inbox'[s]).eids = offered[s]
      BY <1>1, <1>4, <3>1, <3>5
    <3> QED
      BY <1>2, <2>3, <3>3, <3>4, <3>6 DEF TrackedAt, Reading
  <2>4. CASE phase = "find"
    BY <1>2, <2>4 DEF TrackedAt
  <2> QED
    BY <2>2, <2>3, <2>4 DEF TypeOK
<1> QED
  BY <1>3, <1>4

\* What a map says of s when those in services are still to be read
Read(s, e, services, map) ==
    /\ s \in services => map[e] # s
    /\ s \notin services => (map[e] = s <=> e \in offered[s])

LEMMA AsksTracked ==
    ASSUME TypeOK, Phases, NEW services \in SUBSET Services, NEW map, NEW known,
           AskNext(services, map, known), found' = map,
           up' = up, offered' = offered,
           \A i \in Services : asked[i] = <<>> /\ inbox'[i] = <<>>,
           NEW s \in Services, NEW e \in Eids, Read(s, e, services, map)
    PROVE  TrackedAt(s, e)'
<1>1. AskedType
  BY Queues
<1>2. s \notin up => e \notin offered[s]
  BY DEF Phases
<1>3. CASE services \cap up = {} /\ Detected(map, known)
  <2>1. map[e] = s <=> e \in offered[s]
    BY <1>2, <1>3 DEF Read
  <2>2. phase' = "done" /\ endpointMap' = map
    BY <1>3 DEF Detected
  <2>3. NoErase(inbox'[s], e) /\ NoTell(inbox'[s], e)
    <3>1. inbox'[s] = <<>>
      OBVIOUS
    <3> QED
      BY <3>1, NoMessage DEF NoErase, NoTell
  <2> QED
    BY <2>1, <2>2, <2>3 DEF TrackedAt, Present, Absent
<1>4. ASSUME phase' = "read", left' \in SUBSET services,
             NEW i \in services \cap up, i \notin left',
             services \cap up \subseteq left' \cup {i},
             asked'[i] = Append(asked[i], Detect),
             \A t \in Services \ {i} : asked'[t] = asked[t]
      PROVE  TrackedAt(s, e)'
  <2>1. ~Contains(<<>>, Detect)
    BY DEF Contains
  <2>2. s # i => ~Contains(asked'[s], Detect)
    BY <1>4, <2>1
  <2>3. s \in services => map[e] # s
    BY DEF Read
  <2>4. Unread(s)' => s \in services
    BY <1>4, <2>2 DEF Unread
  <2>5. ~Unread(s)' /\ s \in services => e \notin offered[s]
    <3>1. Contains(asked'[i], Detect)
      <4>1. asked[i] = <<>>
        BY <1>4
      <4>2. Append(<<>>, Detect) = <<Detect>> /\ Contains(<<Detect>>, Detect)
        BY DEF Contains
      <4> QED
        BY <1>4, <4>1, <4>2
    <3> QED
      BY <1>2, <1>4, <3>1 DEF Unread
  <2>6. ~Unread(s)' => (map[e] = s <=> e \in offered[s])
    BY <2>3, <2>5 DEF Read
  <2>7. Reading(s, e)'
    <3>1. inbox'[s] = <<>>
      OBVIOUS
    <3> QED
      BY <2>3, <2>4, <2>6, <3>1 DEF Reading
  <2> QED
    BY <1>4, <2>7 DEF TrackedAt
<1> QED
  BY <1>1, <1>3, <1>4, Asks

LEMMA FoundTracked ==
    ASSUME TypeOK, Phases, MessagesOwned, NEW t \in Services, EndpointsFound(t),
           NEW s \in Services, NEW e \in Eids, TrackedAt(s, e), owners[e] \subseteq {s}
    PROVE  TrackedAt(s, e)'
<1> DEFINE map == [d \in Eids |-> IF d \in Head(inbox[t]).eids THEN t ELSE found[d]]
<1>1. /\ Received(t, "reply") /\ Head(inbox[t]).to = Detect
      /\ found' = map /\ AskNext(left, map, buses)
      /\ up' = up /\ offered' = offered
  BY DEF EndpointsFound, serviceVars
<1>2. phase = "read" /\ left \in SUBSET Services
  BY FoundWhileReading DEF TypeOK
<1>3. /\ t \notin left /\ \A i \in Services : asked[i] = <<>> /\ inbox'[i] = <<>>
  BY <1>1, <1>2, WaitsForDetect
<1>4. /\ Owned(t, Head(inbox[t])) /\ Head(inbox[t]).kind = "reply" /\ inbox[t] # <<>>
      /\ \A i \in Services \ {t} : inbox'[i] = inbox[i]
  BY <1>1, Got DEF MessagesOwned
<1>5. Reading(s, e) /\ ~Contains(asked[s], Detect)
  <2>1. ~Contains(<<>>, Detect)
    BY DEF Contains
  <2> QED
    BY <1>2, <1>3, <2>1 DEF TrackedAt
<1>6. Unread(s) <=> s \in left
  BY <1>2, <1>5 DEF Unread
<1>7. map[e] = IF e \in Head(inbox[t]).eids THEN t ELSE found[e]
  OBVIOUS
<1> HIDE DEF map
<1>8. Read(s, e, left, map)
  <2>1. CASE t = s
    BY <1>3, <1>4, <1>5, <1>6, <1>7, <2>1 DEF Reading, Read
  <2>2. CASE t # s
    <3>1. e \notin Head(inbox[t]).eids
      BY <1>4, <2>2 DEF Owned
    <3>2. inbox[s] = <<>>
      BY <1>3, <1>4, <2>2
    <3> QED
      BY <1>5, <1>6, <1>7, <3>1, <3>2 DEF Reading, Read
  <2> QED
    BY <2>1, <2>2
<1> QED
  BY <1>1, <1>2, <1>3, <1>8, AsksTracked

\* s was heard, and what it said of e has come into the map.
LEMMA TrackedHeard ==
    ASSUME TypeOK, NEW s \in Services, NEW e \in Eids, TrackedAt(s, e),
           phase = "done", phase' = "done", offered'[s] = offered[s],
           inbox[s] \in Seq(Message), inbox[s] # <<>>, inbox'[s] = Tail(inbox[s]),
           asked[s] # <<>> => asked'[s] # <<>>,
           Head(inbox[s]).kind = "added" => asked'[s] # <<>>,
           \/ /\ endpointMap'[e] = endpointMap[e]
              /\ ~Erases(Head(inbox[s]), e)
              /\ Tells(Head(inbox[s]), e) => endpointMap[e] = s
           \/ endpointMap'[e] = s /\ Tells(Head(inbox[s]), e)
           \/ endpointMap'[e] # s /\ Erases(Head(inbox[s]), e)
    PROVE  TrackedAt(s, e)'
<1> DEFINE q == inbox[s]
           m == Head(inbox[s])
<1>1. /\ NoErase(q, e) => NoErase(Tail(q), e) /\ ~Erases(m, e)
      /\ NoTell(q, e) => NoTell(Tail(q), e) /\ ~Tells(m, e)
      /\ Adds(q) => Adds(Tail(q)) \/ m.kind = "added"
      /\ TellsLast(q, e) => \/ TellsLast(Tail(q), e)
                            \/ Tells(m, e) /\ NoErase(Tail(q), e)
      /\ ErasesLast(q, e) => \/ ErasesLast(Tail(q), e)
                             \/ Erases(m, e) /\ NoTell(Tail(q), e)
  BY TailKeeps
<1>2. ~(Erases(m, e) /\ Tells(m, e))
  BY DEF Erases, Tells
<1>3. e \in offered[s] => Present(s, e)'
  BY <1>1, <1>2 DEF TrackedAt, Present
<1>4. e \notin offered[s] => Absent(s, e)'
  BY <1>1, <1>2 DEF TrackedAt, Absent
<1> QED
  BY <1>3, <1>4 DEF TrackedAt

LEMMA AddedTracked ==
    ASSUME TypeOK, Phases, NEW t \in Services, OnInterfacesAdded(t),
           NEW s \in Services, NEW e \in Eids, TrackedAt(s, e), Followed(s, e)'
    PROVE  TrackedAt(s, e)'
<1>1. /\ Received(t, "added")
      /\ UNCHANGED <<offered, phase, left, found, endpointMap>>
  BY DEF OnInterfacesAdded, serviceVars, detectVars
<1>2. phase = "done"
  BY <1>1, WaitsForDetect
<1>3. /\ inbox[t] \in Seq(Message) /\ inbox[t] # <<>> /\ inbox'[t] = Tail(inbox[t])
      /\ \A i \in Services \ {t} : inbox'[i] = inbox[i]
      /\ Head(inbox[t]).kind = "added"
  BY <1>1, Got
<1>4. /\ \A i \in Services \ {t} : asked'[i] = asked[i]
      /\ asked'[t] # <<>> \/ missed' = missed \cup {t}
  BY AskedForSignal
<1>5. CASE t # s
  BY <1>1, <1>3, <1>4, <1>5, TrackedSame
<1>6. CASE t = s
  <2>1. asked'[s] # <<>>
    BY <1>4, <1>6 DEF Followed
  <2>2. ~Erases(Head(inbox[s]), e) /\ ~Tells(Head(inbox[s]), e)
    BY <1>3, <1>6 DEF Erases, Tells
  <2> QED
    BY <1>1, <1>2, <1>3, <1>6, <2>1, <2>2, TrackedHeard
<1> QED
  BY <1>5, <1>6

LEMMA RepliesTracked ==
    ASSUME TypeOK, Phases, OwnersKnown, NEW t \in Services, EndpointAdded(t),
           NEW s \in Services, NEW e \in Eids, TrackedAt(s, e), owners[e] \subseteq {s}
    PROVE  TrackedAt(s, e)'
<1>1. /\ Received(t, "reply") /\ Head(inbox[t]).to # Detect
      /\ UNCHANGED <<offered, asked, phase, left, found>>
      /\ endpointMap'[e] = IF e \in Head(inbox[t]).eids /\ endpointMap[e] = None
                           THEN t ELSE endpointMap[e]
  BY DEF EndpointAdded, AddToEidMap, serviceVars, detectVars
<1>2. phase = "done"
  BY <1>1, WaitsForDetect
<1>3. /\ inbox[t] \in Seq(Message) /\ inbox[t] # <<>> /\ inbox'[t] = Tail(inbox[t])
      /\ \A i \in Services \ {t} : inbox'[i] = inbox[i]
      /\ Head(inbox[t]).kind = "reply"
      /\ Owned(t, Head(inbox[t]))
  BY <1>1, Got DEF OwnersKnown, MessagesOwned
<1>4. endpointMap[e] = None \/ endpointMap[e] = s
  BY DEF OwnersKnown, MapsOwned
<1>5. CASE t # s
  <2>1. e \notin Head(inbox[t]).eids
    BY <1>3, <1>5 DEF Owned
  <2> QED
    BY <1>1, <1>3, <1>5, <2>1, TrackedSame
<1>6. CASE t = s
  <2>1. /\ ~Erases(Head(inbox[s]), e)
        /\ Tells(Head(inbox[s]), e) <=> e \in Head(inbox[s]).eids
        /\ Head(inbox[s]).kind # "added"
    BY <1>3, <1>6 DEF Erases, Tells
  <2>2. \/ /\ endpointMap'[e] = endpointMap[e]
           /\ Tells(Head(inbox[s]), e) => endpointMap[e] = s
        \/ endpointMap'[e] = s /\ Tells(Head(inbox[s]), e)
    BY <1>1, <1>4, <1>6, <2>1
  <2> QED
    BY <1>1, <1>2, <1>3, <1>6, <2>1, <2>2, TrackedHeard
<1> QED
  BY <1>5, <1>6

LEMMA RemovedTracked ==
    ASSUME TypeOK, Phases, OwnersKnown, NEW t \in Services, OnInterfacesRemoved(t),
           NEW s \in Services, NEW e \in Eids, TrackedAt(s, e), Followed(s, e)',
           owners[e] \subseteq {s}
    PROVE  TrackedAt(s, e)'
<1> DEFINE d == Head(inbox[t]).eid
<1>1. /\ Received(t, "removed")
      /\ UNCHANGED <<offered, asked, phase, left, found>>
      /\ \/ endpointMap' = [endpointMap EXCEPT ![d] = None]
         \/ endpointMap' = endpointMap /\ missed' = missed \cup {t}
  BY DEF OnInterfacesRemoved, EraseDevice, serviceVars, detectVars
<1>2. phase = "done"
  BY <1>1, WaitsForDetect
<1>3. /\ inbox[t] \in Seq(Message) /\ inbox[t] # <<>> /\ inbox'[t] = Tail(inbox[t])
      /\ \A i \in Services \ {t} : inbox'[i] = inbox[i]
      /\ Head(inbox[t]).kind = "removed"
      /\ Owned(t, Head(inbox[t]))
  BY <1>1, Got DEF OwnersKnown, MessagesOwned
<1>4. endpointMap \in [Eids -> Services \cup {None}]
  BY DEF TypeOK, EidMap
<1> HIDE DEF d
<1>5. CASE t # s
  <2>1. d # e
    BY <1>3, <1>5 DEF Owned, d
  <2>2. endpointMap'[e] = endpointMap[e]
    BY <1>1, <1>4, <2>1
  <2> QED
    BY <1>1, <1>3, <1>5, <2>2, TrackedSame
<1>6. CASE t = s
  <2>1. endpointMap' = [endpointMap EXCEPT ![d] = None]
    BY <1>1, <1>6 DEF Followed
  <2>2. /\ Erases(Head(inbox[s]), e) <=> d = e
        /\ ~Tells(Head(inbox[s]), e) /\ Head(inbox[s]).kind # "added"
    BY <1>3, <1>6 DEF Erases, Tells, d
  <2>3. \/ endpointMap'[e] = endpointMap[e] /\ ~Erases(Head(inbox[s]), e)
        \/ endpointMap'[e] # s /\ Erases(Head(inbox[s]), e)
    BY <1>4, <2>1, <2>2, EndpointMapAssumption
  <2> QED
    BY <1>1, <1>2, <1>3, <1>6, <2>2, <2>3, TrackedHeard
<1> QED
  BY <1>5, <1>6

LEMMA ServicesTracked ==
    ASSUME TypeOK, Phases, NEW t \in Services, NewService(t) \/ DeleteService(t),
           NEW s \in Services, NEW e \in Eids, TrackedAt(s, e)
    PROVE  TrackedAt(s, e)'
<1>1. /\ UNCHANGED <<offered, asked, phase, left, found, endpointMap>>
      /\ \E kind \in {"serviceAdded", "serviceRemoved"} : Received(t, kind)
  BY DEF NewService, DeleteService, serviceVars, detectVars
<1>2. phase = "done"
  BY <1>1, WaitsForDetect
<1>3. /\ inbox[t] \in Seq(Message) /\ inbox[t] # <<>> /\ inbox'[t] = Tail(inbox[t])
      /\ \A i \in Services \ {t} : inbox'[i] = inbox[i]
      /\ Head(inbox[t]).kind \in {"serviceAdded", "serviceRemoved"}
  BY <1>1, Got
<1>4. CASE t # s
  BY <1>1, <1>3, <1>4, TrackedSame
<1>5. CASE t = s
  <2>1. /\ ~Erases(Head(inbox[s]), e) /\ ~Tells(Head(inbox[s]), e)
        /\ Head(inbox[s]).kind # "added"
    BY <1>3, <1>5 DEF Erases, Tells
  <2> QED
    BY <1>1, <1>2, <1>3, <1>5, <2>1, TrackedHeard
<1> QED
  BY <1>4, <1>5

LEMMA InitTracked == Init => Tracked
BY DEF Init, Tracked, TrackedAt

LEMMA NextTracked ==
    ASSUME TypeOK, OwnersKnown, Phases, Tracked, Next
    PROVE  Tracked'
<1> SUFFICES ASSUME NEW s \in Services, NEW e \in Eids, Followed(s, e)'
             PROVE  TrackedAt(s, e)'
  BY DEF Tracked
<1>1. CASE FindBusFails
  <2>1. /\ phase = "find" /\ missed' = up /\ phase' = "done"
        /\ UNCHANGED <<inbox, endpointMap, offered>>
    BY <1>1 DEF FindBusFails, Detected, serviceVars
  <2>2. e \notin offered'[s] /\ endpointMap'[e] # s /\ inbox'[s] = <<>>
    BY <2>1, EndpointMapAssumption DEF Followed, Phases, Finding, Still, NoneIn
  <2>3. NoTell(inbox'[s], e)
    BY <2>2, NoMessage DEF NoTell
  <2> QED
    BY <2>1, <2>2, <2>3 DEF TrackedAt, Absent
<1>2. ASSUME OwnersGrow, missed \subseteq missed'
      PROVE  TrackedAt(s, e) /\ owners[e] \subseteq {s}
  <2>1. Followed(s, e)
    BY <1>2, FollowedBefore
  <2> QED
    BY <2>1 DEF Tracked, Followed
<1>3. ASSUME NEW t \in Services, NEW d \in Eids, Offer(t, d) \/ Withdraw(t, d)
      PROVE  TrackedAt(s, e)'
  <2>1. OwnersGrow
    BY <1>3 DEF Offer, Withdraw, OwnersGrow, TypeOK
  <2>2. missed \subseteq missed'
    BY <1>3 DEF Offer, Withdraw, Send
  <2> QED
    BY <1>2, <1>3, <2>1, <2>2, OffersTracked
<1>4. ASSUME NEW t \in Services, Start(t)
      PROVE  TrackedAt(s, e)'
  <2>1. OwnersGrow /\ missed \subseteq missed'
    BY <1>4 DEF Start, OwnersGrow, Send
  <2> QED
    BY <1>2, <1>4, <2>1, StartTracked
<1>5. ASSUME NEW t \in Services, Stop(t)
      PROVE  TrackedAt(s, e)'
  <2>1. OwnersGrow /\ missed \subseteq missed'
    BY <1>5 DEF Stop, OwnersGrow
  <2> QED
    BY <1>2, <1>5, <2>1, StopTracked
<1>6. ASSUME NEW t \in Services, Answer(t)
      PROVE  TrackedAt(s, e)'
  <2>1. OwnersGrow /\ missed \subseteq missed'
    BY <1>6 DEF Answer, OwnersGrow, serviceVars
  <2> QED
    BY <1>2, <1>6, <2>1, AnswerTracked
<1>7. ASSUME NEW t \in Services, EndpointsFound(t)
      PROVE  TrackedAt(s, e)'
  <2>1. OwnersGrow /\ missed \subseteq missed'
    BY <1>7 DEF EndpointsFound, OwnersGrow, serviceVars
  <2> QED
    BY <1>2, <1>7, <2>1, FoundTracked DEF OwnersKnown
<1>8. ASSUME NEW t \in Services, OnInterfacesAdded(t)
      PROVE  TrackedAt(s, e)'
  <2>1. OwnersGrow /\ missed \subseteq missed'
    BY <1>8 DEF OnInterfacesAdded, OwnersGrow, serviceVars
  <2> QED
    BY <1>2, <1>8, <2>1, AddedTracked
<1>9. ASSUME NEW t \in Services, EndpointAdded(t)
      PROVE  TrackedAt(s, e)'
  <2>1. OwnersGrow /\ missed \subseteq missed'
    BY <1>9 DEF EndpointAdded, OwnersGrow, serviceVars
  <2> QED
    BY <1>2, <1>9, <2>1, RepliesTracked
<1>10. ASSUME NEW t \in Services, OnInterfacesRemoved(t)
       PROVE  TrackedAt(s, e)'
  <2>1. OwnersGrow /\ missed \subseteq missed'
    BY <1>10 DEF OnInterfacesRemoved, OwnersGrow, serviceVars
  <2> QED
    BY <1>2, <1>10, <2>1, RemovedTracked
<1>11. ASSUME NEW t \in Services, NewService(t) \/ DeleteService(t)
       PROVE  TrackedAt(s, e)'
  <2>1. OwnersGrow /\ missed \subseteq missed'
    BY <1>11 DEF NewService, DeleteService, OwnersGrow, serviceVars
  <2> QED
    BY <1>2, <1>11, <2>1, ServicesTracked
<1>12. CASE FindBus
  <2>1. /\ phase = "find" /\ AskNext(up, found, up)
        /\ UNCHANGED <<up, offered, inbox, found>>
        /\ up \in SUBSET Services
    BY <1>12 DEF FindBus, serviceVars, TypeOK
  <2>2. \A i \in Services : asked[i] = <<>> /\ inbox'[i] = <<>>
    BY <2>1 DEF Phases, Finding, Still
  <2>3. found[e] # s /\ (s \notin up => e \notin offered[s])
    BY <2>1, EndpointMapAssumption DEF Phases, Finding, NoneIn
  <2>4. Read(s, e, up, found)
    BY <2>3 DEF Read
  <2> QED
    BY <2>1, <2>2, <2>4, AsksTracked
<1> QED
  BY <1>1, <1>3, <1>4, <1>5, <1>6, <1>7, <1>8, <1>9, <1>10, <1>11, <1>12 DEF Next, Handle

LEMMA InitOwners == Init => OwnersKnown
BY NoMessage DEF Init, OwnersKnown, OfferedOwned, MessagesOwned, MapsOwned

\* When all that was sent has been handled, the map has exactly the endpoints
\* of a service whose signals were all heard, whatever overtook what.
THEOREM MapFollowsServices == Spec => []MapIsCurrent
<1> DEFINE I == TypeOK /\ OwnersKnown /\ Phases /\ Tracked
<1>1. Init => I
  BY InitType, InitOwners, InitPhases, InitTracked
<1>2. I /\ [Next]_vars => I'
  <2> SUFFICES ASSUME I, [Next]_vars PROVE I'
    OBVIOUS
  <2>1. CASE Next
    BY <2>1, NextType, NextOwners, NextPhases, NextTracked
  <2>2. CASE UNCHANGED vars
    <3>1. TypeOK'
      BY <2>2 DEF vars, serviceVars, detectVars, matchers, TypeOK
    <3>2. OwnersKnown'
      BY <2>2
      DEF vars, serviceVars, detectVars, matchers, OwnersKnown, OfferedOwned,
          MessagesOwned, Owned, MapsOwned
    <3>3. Phases'
      BY <2>2
      DEF vars, serviceVars, detectVars, matchers, Phases, Finding, ReadingOne,
          DetectIsOver, Still, BeingRead, NoneIn
    <3>4. Tracked'
      BY <2>2, TrackedSame DEF vars, serviceVars, detectVars, Tracked, Followed
    <3> QED
      BY <3>1, <3>2, <3>3, <3>4
  <2> QED
    BY <2>1, <2>2
<1>3. I => MapIsCurrent
  <2> SUFFICES ASSUME I, NEW s \in Services, NEW e \in Eids, Quiet(s), Followed(s, e)
               PROVE  endpointMap[e] = s <=> e \in offered[s]
    BY DEF MapIsCurrent
  <2>1. TrackedAt(s, e) /\ phase = "done" /\ inbox[s] = <<>> /\ asked[s] = <<>>
    BY DEF Tracked, Quiet
  <2>2. DOMAIN <<>> = {}
    OBVIOUS
  <2>3. ~Adds(inbox[s]) /\ ~TellsLast(inbox[s], e) /\ ~ErasesLast(inbox[s], e)
    BY <2>1, <2>2, NoMessage DEF Adds, TellsLast, ErasesLast
  <2> QED
    BY <2>1, <2>3 DEF TrackedAt, Present, Absent
<1> QED
  BY <1>1, <1>2, <1>3, PTL DEF Spec

=============================================================================
