------------------------------ MODULE Session ------------------------------
(***************************************************************************)
(* The control session of the agent (internal/control/session.go): one     *)
(* WebSocket to the service, the goroutine that reads it, the two channels *)
(* it feeds (answers to requests and service events), the keepalive        *)
(* goroutine that pings it and the write mutex every writer takes.         *)
(*                                                                         *)
(* The daemon opens a new session after each one it loses, so the state    *)
(* is a function of the connection s \in Conns.  The far end (the service  *)
(* and the network) is modelled from how the session uses it.              *)
(*                                                                         *)
(* The actions here do not say what the rest of the daemon does: Daemon    *)
(* composes them with runControl and the local API handlers.               *)
(***************************************************************************)
EXTENDS Integers, Sequences

CONSTANTS
    Conns,          \* the connections, in the order they are made
    ResponsesCap,   \* capacity of Session.responses (4 in the code)
    EventsCap,      \* capacity of Session.events (16 in the code)
    Spontaneous,    \* kinds of message the service sends unasked
    MaxSent         \* bound: unasked messages per connection

EventKinds == {"terminal.open", "terminal.signal", "terminal.close",
               "agent.pairing_verified", "agent.paired"}

\* A frame Run rejects: not JSON, or not of this protocol version.
Rejected == "rejected"

Commands == {"status", "pair", "cancel", "revoke"}

\* The type each request expects its answer to have.
AnswerTo == [status |-> "agent.status", pair |-> "pairing.created",
             cancel |-> "pairing.cancelled", revoke |-> "credential.revoked"]

AnswerKinds == {AnswerTo[c] : c \in Commands} \cup {"error"}

Kinds == EventKinds \cup AnswerKinds \cup {"pairing.state", Rejected}

\* An envelope. An answer's id is the request_id of the request it answers,
\* an event's id its place among the events of its connection; other
\* unasked messages have id 0.
Message == [kind : Kinds, id : Nat]
NoMessage == [kind |-> "none", id |-> 0]

Request == [cmd : Commands, id : Nat]

ASSUME SessionAssumption ==
    /\ Conns \subseteq Nat \ {0}
    /\ ResponsesCap \in Nat \ {0}
    /\ EventsCap \in Nat \ {0}
    /\ Spontaneous \subseteq Kinds \ AnswerKinds
    /\ MaxSent \in Nat

VARIABLES
    link,       \* the WebSocket: none, up, lost (the far end or the network
                \*   is gone), closed (by this side)
    inbox,      \* frames sent by the service and not yet read
    reader,     \* Run: none, reading, pushing (blocked on a channel), done
    hold,       \* the envelope Run is pushing
    responses,  \* the buffered channel request reads
    events,     \* the buffered channel runControl reads
    keepalive,  \* the pinging goroutine: none, idle, pinging, done
    stopped,    \* the connection context is cancelled
    asked,      \* requests the service has received and not answered
    said,       \* how many events the service has sent
    chatter     \* how many other unasked messages the service has sent

sessionVars == <<link, inbox, reader, hold, responses, events, keepalive,
                 stopped, asked, said, chatter>>

SessionTypeOK ==
    /\ link \in [Conns -> {"none", "up", "lost", "closed"}]
    /\ inbox \in [Conns -> Seq(Message)]
    /\ reader \in [Conns -> {"none", "reading", "pushing", "done"}]
    /\ hold \in [Conns -> Message \cup {NoMessage}]
    /\ responses \in [Conns -> Seq(Message)]
    /\ events \in [Conns -> Seq(Message)]
    /\ keepalive \in [Conns -> {"none", "idle", "pinging", "done"}]
    /\ stopped \in [Conns -> BOOLEAN]
    /\ asked \in [Conns -> Seq(Request)]
    /\ said \in [Conns -> Nat]
    /\ chatter \in [Conns -> Nat]
    /\ \A s \in Conns : reader[s] = "pushing" <=> hold[s] # NoMessage

SessionInit ==
    /\ link = [s \in Conns |-> "none"]
    /\ inbox = [s \in Conns |-> <<>>]
    /\ reader = [s \in Conns |-> "none"]
    /\ hold = [s \in Conns |-> NoMessage]
    /\ responses = [s \in Conns |-> <<>>]
    /\ events = [s \in Conns |-> <<>>]
    /\ keepalive = [s \in Conns |-> "none"]
    /\ stopped = [s \in Conns |-> FALSE]
    /\ asked = [s \in Conns |-> <<>>]
    /\ said = [s \in Conns |-> 0]
    /\ chatter = [s \in Conns |-> 0]

\* The envelopes of some kinds in a sequence: their ids, and whether those
\* rise from one to the next.
IdsOf(kinds, q) == {q[i].id : i \in {j \in DOMAIN q : q[j].kind \in kinds}}
Rising(kinds, q) ==
    \A i, j \in DOMAIN q :
        q[i].kind \in kinds /\ q[j].kind \in kinds /\ i < j => q[i].id < q[j].id

----------------------------------------------------------------------------
(* Opening and closing, called by runControl.                              *)

\* Connect succeeded: the reader and the keepalive goroutines start.
OpenSession(s) ==
    /\ link[s] = "none"
    /\ link' = [link EXCEPT ![s] = "up"]
    /\ reader' = [reader EXCEPT ![s] = "reading"]
    /\ keepalive' = [keepalive EXCEPT ![s] = "idle"]
    /\ UNCHANGED <<inbox, hold, responses, events, stopped, asked, said, chatter>>

\* CloseNow: nothing more is read from the socket, and what was asked on it
\* will not be answered.
CloseNow(s) ==
    /\ link' = [link EXCEPT ![s] = "closed"]
    /\ inbox' = [inbox EXCEPT ![s] = <<>>]
    /\ asked' = [asked EXCEPT ![s] = <<>>]

\* stopConnection() and CloseNow().
CloseSession(s) ==
    /\ stopped' = [stopped EXCEPT ![s] = TRUE]
    /\ CloseNow(s)
    /\ UNCHANGED <<reader, hold, responses, events, keepalive, said, chatter>>

----------------------------------------------------------------------------
(* The reader, Run.                                                        *)

ReadEnvelope(s) ==
    /\ reader[s] = "reading"
    /\ link[s] \in {"up", "lost"}
    /\ ~stopped[s]
    /\ inbox[s] # <<>>
    /\ inbox' = [inbox EXCEPT ![s] = Tail(@)]
    /\ IF Head(inbox[s]).kind = Rejected
       THEN /\ reader' = [reader EXCEPT ![s] = "done"]
            /\ UNCHANGED hold
       ELSE /\ reader' = [reader EXCEPT ![s] = "pushing"]
            /\ hold' = [hold EXCEPT ![s] = Head(inbox[s])]
    /\ UNCHANGED <<link, responses, events, keepalive, stopped, asked, said, chatter>>

\* The read fails once the socket is gone or the context is cancelled.
\* Frames received before may be lost with it.
ReadFails(s) ==
    /\ reader[s] = "reading"
    /\ link[s] # "up" \/ stopped[s]
    /\ reader' = [reader EXCEPT ![s] = "done"]
    /\ UNCHANGED <<link, inbox, hold, responses, events, keepalive, stopped,
                   asked, said, chatter>>

\* Mutant of PushEvent: a send that does not block drops the event.
PushEventOrDrop(s) ==
    /\ reader[s] = "pushing"
    /\ hold[s].kind \in EventKinds
    /\ events' = [events EXCEPT ![s] = IF Len(@) < EventsCap THEN Append(@, hold[s]) ELSE @]
    /\ hold' = [hold EXCEPT ![s] = NoMessage]
    /\ reader' = [reader EXCEPT ![s] = "reading"]
    /\ UNCHANGED <<link, inbox, responses, keepalive, stopped, asked, said, chatter>>

\* Five types go to events and everything else to responses; the send blocks
\* while the channel is full.
PushEvent(s) ==
    /\ reader[s] = "pushing"
    /\ hold[s].kind \in EventKinds
    /\ Len(events[s]) < EventsCap
    /\ events' = [events EXCEPT ![s] = Append(@, hold[s])]
    /\ hold' = [hold EXCEPT ![s] = NoMessage]
    /\ reader' = [reader EXCEPT ![s] = "reading"]
    /\ UNCHANGED <<link, inbox, responses, keepalive, stopped, asked, said, chatter>>

PushResponse(s) ==
    /\ reader[s] = "pushing"
    /\ hold[s].kind \notin EventKinds
    /\ Len(responses[s]) < ResponsesCap
    /\ responses' = [responses EXCEPT ![s] = Append(@, hold[s])]
    /\ hold' = [hold EXCEPT ![s] = NoMessage]
    /\ reader' = [reader EXCEPT ![s] = "reading"]
    /\ UNCHANGED <<link, inbox, events, keepalive, stopped, asked, said, chatter>>

\* The other branch of the two selects. Nothing else wakes a blocked push: it
\* does not notice that the socket is closed.
PushCancelled(s) ==
    /\ reader[s] = "pushing"
    /\ stopped[s]
    /\ reader' = [reader EXCEPT ![s] = "done"]
    /\ hold' = [hold EXCEPT ![s] = NoMessage]
    /\ UNCHANGED <<link, inbox, responses, events, keepalive, stopped,
                   asked, said, chatter>>

Reader(s) == ReadEnvelope(s) \/ ReadFails(s) \/ PushEvent(s) \/ PushResponse(s)
             \/ PushCancelled(s)

----------------------------------------------------------------------------
(* The write mutex and the keepalive.                                      *)

\* Ping keeps writeMu until the pong. A write takes and releases it in one
\* step, so the mutex is free exactly when no ping is out.
WriteMuFree(s) == keepalive[s] # "pinging"

PingStarts(s) ==
    /\ keepalive[s] = "idle"
    /\ ~stopped[s]
    /\ keepalive' = [keepalive EXCEPT ![s] = "pinging"]
    /\ UNCHANGED <<link, inbox, reader, hold, responses, events, stopped,
                   asked, said, chatter>>

\* A pong is seen by the goroutine inside Read, so only while Run reads.
PongArrives(s) ==
    /\ keepalive[s] = "pinging"
    /\ link[s] = "up"
    /\ reader[s] = "reading"
    /\ ~stopped[s]
    /\ keepalive' = [keepalive EXCEPT ![s] = "idle"]
    /\ UNCHANGED <<link, inbox, reader, hold, responses, events, stopped,
                   asked, said, chatter>>

\* Mutants of PingFails: without a timeout; without CloseNow.
PingWaits(s) ==
    /\ keepalive[s] = "pinging"
    /\ link[s] = "closed" \/ stopped[s]
    /\ keepalive' = [keepalive EXCEPT ![s] = "done"]
    /\ CloseNow(s)
    /\ UNCHANGED <<reader, hold, responses, events, stopped, said, chatter>>

PingGivesUp(s) ==
    /\ keepalive[s] = "pinging"
    /\ keepalive' = [keepalive EXCEPT ![s] = "done"]
    /\ UNCHANGED <<link, inbox, reader, hold, responses, events, stopped, asked,
                   said, chatter>>

\* No pong in ten seconds, a write error or a cancelled context: CloseNow.
PingFails(s) ==
    /\ keepalive[s] = "pinging"
    /\ keepalive' = [keepalive EXCEPT ![s] = "done"]
    /\ CloseNow(s)
    /\ UNCHANGED <<reader, hold, responses, events, stopped, said, chatter>>

KeepaliveStops(s) ==
    /\ keepalive[s] = "idle"
    /\ stopped[s]
    /\ keepalive' = [keepalive EXCEPT ![s] = "done"]
    /\ UNCHANGED <<link, inbox, reader, hold, responses, events, stopped,
                   asked, said, chatter>>

Keepalive(s) == PingStarts(s) \/ PongArrives(s) \/ PingFails(s) \/ KeepaliveStops(s)

\* The write in request: it reaches the service only while the link is up.
\* On a lost link the bytes may vanish without an error.
Transmit(s, req) ==
    /\ WriteMuFree(s)
    /\ link[s] # "closed"
    /\ asked' = IF link[s] = "up" THEN [asked EXCEPT ![s] = Append(@, req)]
                                  ELSE asked
    /\ UNCHANGED <<link, inbox, reader, hold, responses, events, keepalive,
                   stopped, said, chatter>>

\* The write returns an error.
TransmitFails(s) ==
    /\ WriteMuFree(s)
    /\ link[s] # "up"
    /\ UNCHANGED sessionVars

\* A request takes the oldest buffered answer, whatever request it answers.
TakeResponse(s) ==
    /\ responses[s] # <<>>
    /\ responses' = [responses EXCEPT ![s] = Tail(@)]
    /\ UNCHANGED <<link, inbox, reader, hold, events, keepalive, stopped,
                   asked, said, chatter>>

TakeEvent(s) ==
    /\ events[s] # <<>>
    /\ events' = [events EXCEPT ![s] = Tail(@)]
    /\ UNCHANGED <<link, inbox, reader, hold, responses, keepalive, stopped,
                   asked, said, chatter>>

----------------------------------------------------------------------------
(* The service and the network (external).                                 *)

\* The service answers the requests of a connection in the order it got
\* them, with the answer's type or an error.
ServiceAnswers(s) ==
    /\ link[s] = "up"
    /\ asked[s] # <<>>
    /\ \E k \in {AnswerTo[Head(asked[s]).cmd], "error"} :
          inbox' = [inbox EXCEPT ![s] = Append(@, [kind |-> k, id |-> Head(asked[s]).id])]
    /\ asked' = [asked EXCEPT ![s] = Tail(@)]
    /\ UNCHANGED <<link, reader, hold, responses, events, keepalive, stopped,
                   said, chatter>>

ServiceSends(s, k) ==
    /\ link[s] = "up"
    /\ said[s] + chatter[s] < MaxSent
    /\ IF k \in EventKinds
       THEN /\ said' = [said EXCEPT ![s] = @ + 1]
            /\ inbox' = [inbox EXCEPT ![s] = Append(@, [kind |-> k, id |-> said[s] + 1])]
            /\ UNCHANGED chatter
       ELSE /\ chatter' = [chatter EXCEPT ![s] = @ + 1]
            /\ inbox' = [inbox EXCEPT ![s] = Append(@, [kind |-> k, id |-> 0])]
            /\ UNCHANGED said
    /\ UNCHANGED <<link, reader, hold, responses, events, keepalive, stopped, asked>>

LinkLost(s) ==
    /\ link[s] = "up"
    /\ link' = [link EXCEPT ![s] = "lost"]
    /\ asked' = [asked EXCEPT ![s] = <<>>]
    /\ UNCHANGED <<inbox, reader, hold, responses, events, keepalive, stopped,
                   said, chatter>>

FarEnd(s) == ServiceAnswers(s) \/ LinkLost(s) \/ \E k \in Spontaneous : ServiceSends(s, k)
=============================================================================
