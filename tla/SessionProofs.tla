--------------------------- MODULE SessionProofs ---------------------------
(***************************************************************************)
(* What the actions of a session do to the types of its variables,         *)
(* whatever the rest of the daemon does, and to the ids in its sequences.  *)
(* DaemonProofs cites these lemmas.                                        *)
(***************************************************************************)
EXTENDS Session, TLAPS, SequenceTheorems

\* The kinds of answer and of unasked message are kinds of envelope.
LEMMA KindsAreKinds ==
    /\ \A c \in Commands : AnswerTo[c] \in Kinds
    /\ "error" \in Kinds
    /\ Spontaneous \subseteq Kinds
BY SessionAssumption DEF EventKinds, AnswerKinds, Kinds, AnswerTo, Commands, Rejected

\* NoMessage is not an envelope: no envelope has its kind.
LEMMA NoMessageIsNone == NoMessage \notin Message
BY DEF NoMessage, Message, Kinds, EventKinds, AnswerKinds, AnswerTo, Commands, Rejected

\* Opening a session keeps the types.
LEMMA OpenSessionType ==
    ASSUME NEW s \in Conns, SessionTypeOK, reader[s] = "none", OpenSession(s)
    PROVE  SessionTypeOK'
BY DEF SessionTypeOK, OpenSession

\* A closed socket has nothing left to read or to answer.
LEMMA CloseNowType ==
    ASSUME NEW s \in Conns, SessionTypeOK, CloseNow(s)
    PROVE  /\ link' \in [Conns -> {"none", "up", "lost", "closed"}]
           /\ inbox' \in [Conns -> Seq(Message)]
           /\ asked' \in [Conns -> Seq(Request)]
<1>1. <<>> \in Seq(Message) /\ <<>> \in Seq(Request)
  BY EmptySeq
<1> QED
  BY <1>1 DEF SessionTypeOK, CloseNow

\* Closing a session keeps the types.
LEMMA CloseSessionType ==
    ASSUME NEW s \in Conns, SessionTypeOK, CloseSession(s) PROVE SessionTypeOK'
<1>1. CloseNow(s)
  BY DEF CloseSession
<1> QED
  BY <1>1, CloseNowType DEF SessionTypeOK, CloseSession

\* Reading an envelope keeps the types.
LEMMA ReadEnvelopeType ==
    ASSUME NEW s \in Conns, SessionTypeOK, ReadEnvelope(s) PROVE SessionTypeOK'
<1>1. inbox[s] \in Seq(Message) /\ inbox[s] # <<>>
  BY DEF SessionTypeOK, ReadEnvelope
<1>2. Head(inbox[s]) \in Message /\ Tail(inbox[s]) \in Seq(Message)
  BY <1>1, HeadTailProperties
<1> QED
  BY <1>2, NoMessageIsNone, ZenonT(40) DEF SessionTypeOK, ReadEnvelope

\* A read that fails keeps the types.
LEMMA ReadFailsType ==
    ASSUME NEW s \in Conns, SessionTypeOK, ReadFails(s) PROVE SessionTypeOK'
BY DEF SessionTypeOK, ReadFails

\* Pushing to events keeps the types.
LEMMA PushEventType ==
    ASSUME NEW s \in Conns, SessionTypeOK, PushEvent(s) PROVE SessionTypeOK'
<1>1. hold[s] \in Message
  BY DEF SessionTypeOK, PushEvent
<1>2. Append(events[s], hold[s]) \in Seq(Message)
  BY <1>1, AppendProperties DEF SessionTypeOK
<1> QED
  BY <1>2 DEF SessionTypeOK, PushEvent

\* Pushing to responses keeps the types.
LEMMA PushResponseType ==
    ASSUME NEW s \in Conns, SessionTypeOK, PushResponse(s) PROVE SessionTypeOK'
<1>1. hold[s] \in Message
  BY DEF SessionTypeOK, PushResponse
<1>2. Append(responses[s], hold[s]) \in Seq(Message)
  BY <1>1, AppendProperties DEF SessionTypeOK
<1> QED
  BY <1>2 DEF SessionTypeOK, PushResponse

\* Giving up a push keeps the types.
LEMMA PushCancelledType ==
    ASSUME NEW s \in Conns, SessionTypeOK, PushCancelled(s) PROVE SessionTypeOK'
BY DEF SessionTypeOK, PushCancelled

\* The reader keeps the types.
LEMMA ReaderType ==
    ASSUME NEW s \in Conns, SessionTypeOK, Reader(s) PROVE SessionTypeOK'
BY ReadEnvelopeType, ReadFailsType, PushEventType, PushResponseType, PushCancelledType
DEF Reader

\* The keepalive keeps the types.
LEMMA KeepaliveType ==
    ASSUME NEW s \in Conns, SessionTypeOK, Keepalive(s) PROVE SessionTypeOK'
<1>1. CASE PingStarts(s) \/ PongArrives(s) \/ KeepaliveStops(s)
  BY <1>1 DEF SessionTypeOK, PingStarts, PongArrives, KeepaliveStops
<1>2. CASE PingFails(s)
  <2>1. CloseNow(s)
    BY <1>2 DEF PingFails
  <2> QED
    BY <1>2, <2>1, CloseNowType DEF SessionTypeOK, PingFails
<1> QED
  BY <1>1, <1>2 DEF Keepalive

\* Writing a request keeps the types.
LEMMA TransmitType ==
    ASSUME NEW s \in Conns, NEW req \in Request, SessionTypeOK, Transmit(s, req)
    PROVE  SessionTypeOK'
<1>1. Append(asked[s], req) \in Seq(Request)
  BY AppendProperties DEF SessionTypeOK
<1> QED
  BY <1>1 DEF SessionTypeOK, Transmit

\* Taking an event keeps the types.
LEMMA TakeEventType ==
    ASSUME NEW s \in Conns, SessionTypeOK, TakeEvent(s) PROVE SessionTypeOK'
<1>1. Tail(events[s]) \in Seq(Message)
  BY HeadTailProperties DEF SessionTypeOK, TakeEvent
<1> QED
  BY <1>1 DEF SessionTypeOK, TakeEvent

\* Taking a response keeps the types.
LEMMA TakeResponseType ==
    ASSUME NEW s \in Conns, SessionTypeOK, TakeResponse(s)
    PROVE  SessionTypeOK' /\ Head(responses[s]) \in Message
<1>1. Tail(responses[s]) \in Seq(Message) /\ Head(responses[s]) \in Message
  BY HeadTailProperties DEF SessionTypeOK, TakeResponse
<1> QED
  BY <1>1 DEF SessionTypeOK, TakeResponse

\* An answer of the service keeps the types.
LEMMA ServiceAnswersType ==
    ASSUME NEW s \in Conns, SessionTypeOK, ServiceAnswers(s) PROVE SessionTypeOK'
<1> DEFINE req == Head(asked[s])
<1>1. req \in Request /\ Tail(asked[s]) \in Seq(Request)
  BY HeadTailProperties DEF SessionTypeOK, ServiceAnswers
<1>2. asked' = [asked EXCEPT ![s] = Tail(@)]
  BY DEF ServiceAnswers
<1>3. PICK k \in {AnswerTo[req.cmd], "error"} :
          inbox' = [inbox EXCEPT ![s] = Append(@, [kind |-> k, id |-> req.id])]
  BY DEF ServiceAnswers
<1>4. [kind |-> k, id |-> req.id] \in Message
  BY <1>1, <1>3, KindsAreKinds DEF Request, Message
<1>5. Append(inbox[s], [kind |-> k, id |-> req.id]) \in Seq(Message)
  BY <1>4, AppendProperties DEF SessionTypeOK
<1>6. /\ inbox' \in [Conns -> Seq(Message)]
      /\ asked' \in [Conns -> Seq(Request)]
  BY <1>1, <1>2, <1>3, <1>5 DEF SessionTypeOK
<1> QED
  BY <1>6 DEF SessionTypeOK, ServiceAnswers

\* An unasked message keeps the types.
LEMMA ServiceSendsType ==
    ASSUME NEW s \in Conns, NEW k \in Spontaneous, SessionTypeOK, ServiceSends(s, k)
    PROVE  SessionTypeOK'
<1>1. [kind |-> k, id |-> said[s] + 1] \in Message /\ [kind |-> k, id |-> 0] \in Message
  BY KindsAreKinds DEF SessionTypeOK, Message
<1>2. /\ Append(inbox[s], [kind |-> k, id |-> said[s] + 1]) \in Seq(Message)
      /\ Append(inbox[s], [kind |-> k, id |-> 0]) \in Seq(Message)
  BY <1>1, AppendProperties DEF SessionTypeOK
<1>3. /\ inbox' \in [Conns -> Seq(Message)]
      /\ said' \in [Conns -> Nat] /\ chatter' \in [Conns -> Nat]
  <2>1. CASE k \in EventKinds
    <3>1. /\ inbox' = [inbox EXCEPT ![s] = Append(@, [kind |-> k, id |-> said[s] + 1])]
          /\ said' = [said EXCEPT ![s] = @ + 1]
          /\ chatter' = chatter
      BY <2>1 DEF ServiceSends
    <3> QED
      BY <1>2, <3>1 DEF SessionTypeOK
  <2>2. CASE k \notin EventKinds
    <3>1. /\ inbox' = [inbox EXCEPT ![s] = Append(@, [kind |-> k, id |-> 0])]
          /\ said' = said
          /\ chatter' = [chatter EXCEPT ![s] = @ + 1]
      BY <2>2 DEF ServiceSends
    <3> QED
      BY <1>2, <3>1 DEF SessionTypeOK
  <2> QED
    BY <2>1, <2>2
<1> QED
  BY <1>3 DEF SessionTypeOK, ServiceSends

\* The loss of a link keeps the types.
LEMMA LinkLostType ==
    ASSUME NEW s \in Conns, SessionTypeOK, LinkLost(s) PROVE SessionTypeOK'
<1>1. <<>> \in Seq(Request)
  BY EmptySeq
<1> QED
  BY <1>1 DEF SessionTypeOK, LinkLost

\* The far end keeps the types.
LEMMA FarEndType ==
    ASSUME NEW s \in Conns, SessionTypeOK, FarEnd(s) PROVE SessionTypeOK'
BY ServiceAnswersType, ServiceSendsType, LinkLostType DEF FarEnd

----------------------------------------------------------------------------
(* Ids and their order in the sequences of a session.                      *)

\* The ids in one envelope.
IdsIn(kinds, m) == IF m.kind \in kinds THEN {m.id} ELSE {}

\* What lies behind comes later.
Before(S, T) == \A a \in S, b \in T : a < b

\* A sequence of one.
LEMMA IdsOfOne ==
    ASSUME NEW kinds, NEW m
    PROVE  IdsOf(kinds, <<m>>) = IdsIn(kinds, m) /\ Rising(kinds, <<m>>)
<1>1. DOMAIN <<m>> = {1} /\ <<m>>[1] = m
  OBVIOUS
<1> QED
  BY <1>1 DEF IdsOf, Rising, IdsIn

\* The empty sequence.
LEMMA IdsOfNone ==
    ASSUME NEW kinds
    PROVE  IdsOf(kinds, <<>>) = {} /\ Rising(kinds, <<>>)
<1>1. DOMAIN <<>> = {}
  OBVIOUS
<1> QED
  BY <1>1 DEF IdsOf, Rising

\* Two sequences, one behind the other.
LEMMA IdsOfJoined ==
    ASSUME NEW kinds, NEW S, NEW p \in Seq(S), NEW q \in Seq(S)
    PROVE  /\ IdsOf(kinds, p \o q) = IdsOf(kinds, p) \cup IdsOf(kinds, q)
           /\ Rising(kinds, p \o q) <=>
                 /\ Rising(kinds, p) /\ Rising(kinds, q)
                 /\ Before(IdsOf(kinds, p), IdsOf(kinds, q))
<1> DEFINE r == p \o q
<1>1. /\ Len(p) \in Nat /\ DOMAIN p = 1..Len(p) /\ Len(q) \in Nat /\ DOMAIN q = 1..Len(q)
      /\ DOMAIN r = 1..(Len(p) + Len(q))
      /\ \A i \in DOMAIN p : r[i] = p[i]
      /\ \A j \in DOMAIN q : r[Len(p) + j] = q[j]
  BY ConcatProperties, LenProperties
<1> HIDE DEF r
<1>2. \A i \in DOMAIN r : i \in DOMAIN p \/ \E j \in DOMAIN q : i = Len(p) + j
  <2> TAKE i \in DOMAIN r
  <2>1. i \notin DOMAIN p => i - Len(p) \in DOMAIN q /\ i = Len(p) + (i - Len(p))
    BY <1>1
  <2> QED
    BY <2>1
<1>3. \A i \in DOMAIN p : i \in DOMAIN r /\ \A j \in DOMAIN q : Len(p) + j \in DOMAIN r /\ i < Len(p) + j
  BY <1>1
<1>4. \A j \in DOMAIN q : Len(p) + j \in DOMAIN r
  BY <1>1
<1>5. IdsOf(kinds, r) = IdsOf(kinds, p) \cup IdsOf(kinds, q)
  <2>1. IdsOf(kinds, r) \subseteq IdsOf(kinds, p) \cup IdsOf(kinds, q)
    BY <1>1, <1>2 DEF IdsOf
  <2>2. IdsOf(kinds, p) \subseteq IdsOf(kinds, r)
    BY <1>1, <1>3 DEF IdsOf
  <2>3. IdsOf(kinds, q) \subseteq IdsOf(kinds, r)
    BY <1>1, <1>4 DEF IdsOf
  <2> QED
    BY <2>1, <2>2, <2>3
<1>6. ASSUME Rising(kinds, r)
      PROVE  Rising(kinds, p) /\ Rising(kinds, q) /\ Before(IdsOf(kinds, p), IdsOf(kinds, q))
  <2>1. Rising(kinds, p)
    BY <1>1, <1>3, <1>6 DEF Rising
  <2>2. Rising(kinds, q)
    <3>1. \A i, j \in DOMAIN q : i < j => Len(p) + i < Len(p) + j
      BY <1>1
    <3> QED
      BY <1>1, <1>4, <1>6, <3>1 DEF Rising
  <2>3. Before(IdsOf(kinds, p), IdsOf(kinds, q))
    BY <1>1, <1>3, <1>4, <1>6 DEF Rising, Before, IdsOf
  <2> QED
    BY <2>1, <2>2, <2>3
<1>7. ASSUME Rising(kinds, p), Rising(kinds, q), Before(IdsOf(kinds, p), IdsOf(kinds, q))
      PROVE  Rising(kinds, r)
  <2>1. SUFFICES ASSUME NEW i \in DOMAIN r, NEW j \in DOMAIN r,
                        r[i].kind \in kinds, r[j].kind \in kinds, i < j
                 PROVE  r[i].id < r[j].id
    BY DEF Rising
  <2>2. CASE j \in DOMAIN p
    <3>1. i \in DOMAIN p
      BY <1>1, <2>1, <2>2
    <3> QED
      BY <1>1, <1>7, <2>1, <2>2, <3>1 DEF Rising
  <2>3. CASE i \in DOMAIN p /\ j \notin DOMAIN p
    <3>1. PICK n \in DOMAIN q : j = Len(p) + n
      BY <1>2, <2>3
    <3>2. r[i].id \in IdsOf(kinds, p) /\ r[j].id \in IdsOf(kinds, q)
      BY <1>1, <2>1, <2>3, <3>1 DEF IdsOf
    <3> QED
      BY <1>7, <3>2 DEF Before
  <2>4. CASE i \notin DOMAIN p /\ j \notin DOMAIN p
    <3>1. PICK m \in DOMAIN q : i = Len(p) + m
      BY <1>2, <2>4
    <3>2. PICK n \in DOMAIN q : j = Len(p) + n
      BY <1>2, <2>4
    <3>3. m < n
      BY <1>1, <2>1, <3>1, <3>2
    <3> QED
      BY <1>1, <1>7, <2>1, <3>1, <3>2, <3>3 DEF Rising
  <2> QED
    BY <2>2, <2>3, <2>4
<1> QED
  BY <1>5, <1>6, <1>7 DEF r

\* One envelope is added behind the others.
LEMMA IdsOfAppended ==
    ASSUME NEW kinds, NEW S, NEW q \in Seq(S), NEW m \in S
    PROVE  /\ IdsOf(kinds, Append(q, m)) = IdsOf(kinds, q) \cup IdsIn(kinds, m)
           /\ Rising(kinds, Append(q, m)) <=>
                 Rising(kinds, q) /\ Before(IdsOf(kinds, q), IdsIn(kinds, m))
<1> DEFINE one == <<m>>
<1>1. Append(q, m) = q \o one /\ one \in Seq(S)
  BY AppendIsConcat
<1>2. IdsOf(kinds, one) = IdsIn(kinds, m) /\ Rising(kinds, one)
  BY IdsOfOne
<1> HIDE DEF one
<1>3. /\ IdsOf(kinds, q \o one) = IdsOf(kinds, q) \cup IdsOf(kinds, one)
      /\ Rising(kinds, q \o one) <=>
            /\ Rising(kinds, q) /\ Rising(kinds, one)
            /\ Before(IdsOf(kinds, q), IdsOf(kinds, one))
  BY <1>1, IdsOfJoined
<1> QED
  BY <1>1, <1>2, <1>3, Zenon

\* The first envelope is taken.
LEMMA IdsOfHeadTail ==
    ASSUME NEW kinds, NEW S, NEW q \in Seq(S), q # <<>>
    PROVE  /\ IdsOf(kinds, q) = IdsIn(kinds, Head(q)) \cup IdsOf(kinds, Tail(q))
           /\ Rising(kinds, q) <=>
                 Rising(kinds, Tail(q)) /\ Before(IdsIn(kinds, Head(q)), IdsOf(kinds, Tail(q)))
<1> DEFINE one == <<Head(q)>>
<1>1. q = one \o Tail(q) /\ one \in Seq(S) /\ Tail(q) \in Seq(S)
  BY HeadTailProperties
<1>2. IdsOf(kinds, one) = IdsIn(kinds, Head(q)) /\ Rising(kinds, one)
  BY IdsOfOne
<1> HIDE DEF one
<1>3. /\ IdsOf(kinds, one \o Tail(q)) = IdsOf(kinds, one) \cup IdsOf(kinds, Tail(q))
      /\ Rising(kinds, one \o Tail(q)) <=>
            /\ Rising(kinds, one) /\ Rising(kinds, Tail(q))
            /\ Before(IdsOf(kinds, one), IdsOf(kinds, Tail(q)))
  BY <1>1, IdsOfJoined
<1> QED
  BY <1>1, <1>2, <1>3, Zenon

\* A channel, what Run pushes and what is on the wire.
LEMMA IdsAhead ==
    ASSUME NEW kinds, NEW q \in Seq(Message), NEW m \in Message \cup {NoMessage}, NEW r \in Seq(Message)
    PROVE  /\ IdsOf(kinds, q \o <<m>> \o r)
                  = IdsOf(kinds, q) \cup IdsIn(kinds, m) \cup IdsOf(kinds, r)
           /\ Rising(kinds, q \o <<m>> \o r) <=>
                 /\ Rising(kinds, q) /\ Rising(kinds, r)
                 /\ Before(IdsOf(kinds, q), IdsIn(kinds, m))
                 /\ Before(IdsOf(kinds, q), IdsOf(kinds, r))
                 /\ Before(IdsIn(kinds, m), IdsOf(kinds, r))
<1> DEFINE S == Message \cup {NoMessage}
<1>1. q \in Seq(S) /\ r \in Seq(S) /\ m \in S
  BY SeqMonotonic
<1> HIDE DEF S
<1>2. q \o <<m>> = Append(q, m) /\ q \o <<m>> \in Seq(S)
  BY <1>1, AppendIsConcat, AppendProperties
<1>3. /\ IdsOf(kinds, q \o <<m>>) = IdsOf(kinds, q) \cup IdsIn(kinds, m)
      /\ Rising(kinds, q \o <<m>>) <=> Rising(kinds, q) /\ Before(IdsOf(kinds, q), IdsIn(kinds, m))
  <2>1. /\ IdsOf(kinds, Append(q, m)) = IdsOf(kinds, q) \cup IdsIn(kinds, m)
        /\ Rising(kinds, Append(q, m)) <=>
              Rising(kinds, q) /\ Before(IdsOf(kinds, q), IdsIn(kinds, m))
    BY <1>1, IdsOfAppended
  <2> QED
    BY <1>2, <2>1, Zenon
<1>4. /\ IdsOf(kinds, q \o <<m>> \o r) = IdsOf(kinds, q \o <<m>>) \cup IdsOf(kinds, r)
      /\ Rising(kinds, q \o <<m>> \o r) <=>
            /\ Rising(kinds, q \o <<m>>) /\ Rising(kinds, r)
            /\ Before(IdsOf(kinds, q \o <<m>>), IdsOf(kinds, r))
  <2> DEFINE p == q \o <<m>>
  <2>1. p \in Seq(S)
    BY <1>2
  <2> HIDE DEF p
  <2>2. /\ IdsOf(kinds, p \o r) = IdsOf(kinds, p) \cup IdsOf(kinds, r)
        /\ Rising(kinds, p \o r) <=>
              Rising(kinds, p) /\ Rising(kinds, r) /\ Before(IdsOf(kinds, p), IdsOf(kinds, r))
    BY <1>1, <2>1, IdsOfJoined
  <2> QED
    BY <2>2, Zenon DEF p
<1>5. Before(IdsOf(kinds, q) \cup IdsIn(kinds, m), IdsOf(kinds, r)) <=>
         Before(IdsOf(kinds, q), IdsOf(kinds, r)) /\ Before(IdsIn(kinds, m), IdsOf(kinds, r))
  BY DEF Before
<1> QED
  BY <1>3, <1>4, <1>5
=============================================================================
