-------------------------------- MODULE Cli ---------------------------------
(***************************************************************************)
(* `hopty pair', with and without --wait, `pair --cancel', `revoke' and    *)
(* `uninstall' at the same time: the retry loop of request, the local API  *)
(* call, the handler in the agent (createPairing, cancelPairing, revoke,   *)
(* status), the shared response channel of its session, the service and    *)
(* the user's browser.                                                     *)
(*                                                                         *)
(* A call has 5 s in the agent; a request to the service has 10 s, of a    *)
(* status 3 s. So a request that times out is always too late for its      *)
(* client, which waits for the handler all the same and then reads EOF.    *)
(* The write lock of the session and pairing.state are in Session and      *)
(* Daemon; what uninstall does next is in Host.                            *)
(***************************************************************************)
EXTENDS Naturals, Sequences, FiniteSets

CONSTANTS
    Clients,    \* commands that are run, each once
    MaxPairings, \* bound: pairings of the service after which no command tries again
    MaxConns,   \* bound: connections to the service
    MaxUnread   \* bound: requests and answers that nobody has read when a poll begins

ASSUME CliAssumption == {MaxPairings, MaxConns, MaxUnread} \subseteq Nat \ {0}

VARIABLES
    client,     \* per command: its job; at idle, call, sleep, wait (for the browser),
                \*   done, goeson (uninstall); what it told the user; the
                \*   pairingVerified of its last status; and has the agent handled a
                \*   pairing event since createPairing, now and at that status
    call,       \* per command, its call in the agent: kind none, pair, cancel, revoke,
                \*   status; at begin, lookup, answer, clear, reply; its session; the
                \*   reply; did an agent.paired event or a new connection cross its request
    agent,      \* d.paired, d.pairingVerified; the number of d.connection, 0 for nil;
                \*   buffered events; per session its buffered responses (never more than
                \*   the four that fit); did a revocation leave d.paired in doubt
    link,       \* the connection: up, dying (nothing arrives any more), down; the
                \*   requests under way
    svc         \* has the agent a credential; is a pairing open, or verified; pairings
                \*   and revocations so far

Jobs == {"pair", "cancel", "revoke", "uninstall"}

vars == <<client, call, agent, link, svc>>

Conns == 1..MaxConns
Events == {"agent.pairing_verified", "agent.paired"}
NoCall == [kind |-> "none", at |-> "begin", conn |-> 0, reply |-> "none", crossed |-> FALSE]

Init ==
    /\ client = [c \in Clients |-> [job |-> "none", at |-> "idle", told |-> "nothing",
                                    verified |-> FALSE, event |-> FALSE, anew |-> FALSE]]
    /\ call = [c \in Clients |-> NoCall]
    /\ \E paired \in BOOLEAN :
        /\ agent = [paired |-> paired, verified |-> FALSE, conn |-> 1, conns |-> 1,
                    events |-> <<>>, responses |-> [n \in Conns |-> <<>>], torn |-> FALSE]
        /\ svc = [credential |-> paired, pairing |-> "none",
                  pairings |-> 0, revocations |-> 0]
    /\ link = [state |-> "up", toService |-> <<>>]

----------------------------------------------------------------------------
(* The command line.                                                       *)

Calls(c, kind) ==
    call' = [call EXCEPT ![c] = [NoCall EXCEPT
        !.kind = kind, !.at = IF kind \in {"pair", "status"} THEN "begin" ELSE "lookup"]]
Kind(job) == IF job = "uninstall" THEN "revoke" ELSE job

Starts(c, job) ==
    /\ client[c].at = "idle"
    /\ client' = [client EXCEPT ![c].job = job, ![c].at = "call"]
    /\ Calls(c, Kind(job))
    /\ UNCHANGED <<agent, link, svc>>

\* request tries again after 500 ms.
Retries(c) ==
    /\ client[c].at = "sleep" /\ svc.pairings + Len(link.toService) < MaxPairings
    /\ client' = [client EXCEPT ![c].at = "call"]
    /\ Calls(c, Kind(client[c].job))
    /\ UNCHANGED <<agent, link, svc>>

\* pair --wait asks every second for the status.
Polls(c) ==
    /\ client[c].at = "wait"
    /\ agent.conn # 0 => Len(link.toService \o agent.responses[agent.conn]) < MaxUnread
    /\ client' = [client EXCEPT ![c].at = "call"]
    /\ Calls(c, "status")
    /\ UNCHANGED <<agent, link, svc>>

Ends(c, at, told) ==
    client' = [client EXCEPT ![c].at = at, ![c].told = told,
                             ![c].event = FALSE]
Pauses(c, at) == client' = [client EXCEPT ![c].at = at]

\* The 35 s of request are over, or the two minutes of the pairing.
GivesUp(c) ==
    /\ \/ client[c].at = "sleep" /\ Ends(c, "done", "error")
       \/ client[c].at = "wait" /\ Ends(c, "done", "expired")
    /\ UNCHANGED <<call, agent, link, svc>>

PairIsAnswered(c, answer) ==
    \/ answer = "ok" /\ (Pauses(c, "wait") \/ Ends(c, "done", "ok"))
    \/ answer = "unavailable" /\ (Pauses(c, "sleep") \/ Ends(c, "done", "error"))
    \/ answer = "dead" /\ Ends(c, "done", "dead")

CancelIsAnswered(c, answer) == Ends(c, "done", IF answer = "unavailable" THEN "error" ELSE answer)

\* Uninstall goes on as well when "agent is not running".
RevokeIsAnswered(c, answer) ==
    LET next == IF client[c].job = "uninstall" THEN "goeson" ELSE "done" IN
    \/ answer = "ok" /\ Ends(c, next, "ok")
    \/ answer = "dead" /\ Ends(c, next, "dead")
    \/ answer = "unavailable" /\ (Pauses(c, "sleep") \/ Ends(c, "done", "error"))
    \/ answer = "error" /\ Ends(c, "done", "error")

\* An error of status is ignored.
StatusIsAnswered(c, answer) ==
    IF answer = "ok" /\ client[c].verified THEN Ends(c, "done", "confirmed")
    ELSE client' = [client EXCEPT ![c].at = "wait", ![c].verified = FALSE, ![c].anew = FALSE]

----------------------------------------------------------------------------
(* The handlers in the agent.                                              *)

Goes(c, at) == call' = [call EXCEPT ![c].at = at]
Replies(c, reply) == call' = [call EXCEPT ![c].at = "reply", ![c].reply = reply]

\* createPairing and cancelPairing hold controlMu until they have their answer.
ControlMuIsFree ==
    \A c \in Clients : ~(call[c].kind \in {"pair", "cancel"} /\ call[c].at = "answer")

Reports(c) == client' = [client EXCEPT ![c].verified = agent.verified, ![c].anew = client[c].event]

\* Mutant of Begins: createPairing leaves pairingVerified as it is.
BeginsVerified(c) ==
    /\ call[c].at = "begin" /\ call[c].kind # "none"
    /\ IF call[c].kind = "pair" THEN client' = [client EXCEPT ![c].event = FALSE] ELSE Reports(c)
    /\ Goes(c, "lookup")
    /\ UNCHANGED <<agent, link, svc>>

\* createPairing clears pairingVerified, status reads it; it asks the service
\* for the rest if there is something to ask.
Begins(c) ==
    /\ call[c].at = "begin"
    /\ \/ /\ call[c].kind = "pair"
          /\ agent' = [agent EXCEPT !.verified = FALSE]
          /\ client' = [client EXCEPT ![c].event = FALSE]
          /\ Goes(c, "lookup")
       \/ /\ call[c].kind = "status"
          /\ Reports(c)
          /\ IF agent.conn # 0 /\ agent.paired THEN Goes(c, "lookup") ELSE Replies(c, "ok")
          /\ UNCHANGED agent
    /\ UNCHANGED <<link, svc>>

\* A request has failed. A status that was not answered is the local one.
Failure(c) == CASE call[c].kind \in {"pair", "cancel"} -> "unavailable"
                [] call[c].kind = "revoke" -> "error"
                [] call[c].kind = "status" -> "ok"

\* All of them read d.connection under controlMu and write their request.
Asks(c) ==
    /\ call[c].at = "lookup" /\ ControlMuIsFree
    /\ IF agent.conn # 0 /\ link.state # "down"
       THEN /\ call' = [call EXCEPT ![c].at = "answer", ![c].conn = agent.conn]
            /\ link' = [link EXCEPT !.toService = Append(@, call[c].kind)]
       ELSE /\ Replies(c, IF agent.conn = 0 /\ call[c].kind = "revoke" THEN "unavailable"
                          ELSE Failure(c))
            /\ UNCHANGED link
    /\ UNCHANGED <<client, agent, svc>>

\* A revocation whose answer is missed leaves d.paired as it was.
Misses(c, reply) ==
    /\ Replies(c, reply)
    /\ agent' = [agent EXCEPT !.torn = @ \/ (call[c].kind = "revoke" /\ call[c].conn = agent.conn),
                              !.responses[call[c].conn] = IF @ = <<>> THEN @ ELSE Tail(@)]

\* Mutant of Takes: the type of the response is not compared.
TakesAny(c) ==
    LET n == call[c].conn IN
    /\ call[c].at = "answer" /\ agent.responses[n] # <<>>
    /\ agent' = [agent EXCEPT !.responses[n] = Tail(@)]
    /\ IF call[c].kind = "revoke" THEN Goes(c, "clear") ELSE Replies(c, "ok")
    /\ UNCHANGED <<client, link, svc>>

\* The oldest response is taken, whoever asked for it, and its type compared.
Takes(c) ==
    LET n == call[c].conn IN
    /\ call[c].at = "answer" /\ agent.responses[n] # <<>>
    /\ IF Head(agent.responses[n]) = call[c].kind
       THEN /\ agent' = [agent EXCEPT !.responses[n] = Tail(@)]
            /\ IF call[c].kind = "revoke" THEN Goes(c, "clear") ELSE Replies(c, "ok")
       ELSE Misses(c, Failure(c))
    /\ UNCHANGED <<client, link, svc>>

\* Mutant of TimesOut: only the status has a timeout.
TimesOutStatus(c) ==
    /\ call[c].at = "answer" /\ agent.responses[call[c].conn] = <<>>
    /\ call[c].kind = "status" /\ Misses(c, "ok")
    /\ UNCHANGED <<client, link, svc>>

\* It is then too late for the client, unless it is a status.
TimesOut(c) ==
    /\ call[c].at = "answer" /\ agent.responses[call[c].conn] = <<>>
    /\ Misses(c, IF call[c].kind = "status" THEN "ok" ELSE "dead")
    /\ UNCHANGED <<client, link, svc>>

\* The end of revoke.
Clears(c) ==
    /\ call[c].at = "clear"
    /\ agent' = [agent EXCEPT !.paired = FALSE, !.verified = FALSE,
                              !.torn = \/ @ \/ call[c].crossed
                                       \/ \E i \in DOMAIN agent.events :
                                            agent.events[i] = "agent.paired"]
    /\ Replies(c, "ok")
    /\ UNCHANGED <<client, link, svc>>

\* WriteResponse fails when the 5 s are over, and for a status that is longer
\* than a message may be.
Answers(c) ==
    /\ call[c].at = "reply"
    /\ \E answer \in {call[c].reply, "dead"} :
        \/ call[c].kind = "pair" /\ PairIsAnswered(c, answer)
        \/ call[c].kind = "cancel" /\ CancelIsAnswered(c, answer)
        \/ call[c].kind = "revoke" /\ RevokeIsAnswered(c, answer)
        \/ call[c].kind = "status" /\ StatusIsAnswered(c, answer)
    /\ call' = [call EXCEPT ![c] = NoCall]
    /\ UNCHANGED <<agent, link, svc>>

----------------------------------------------------------------------------
(* The session and runControl.                                             *)

Crossed == [c \in Clients |-> [call[c] EXCEPT
              !.crossed = @ \/ (call[c].kind = "revoke" /\ call[c].at \in {"answer", "clear"})]]

HandlesEvent ==
    /\ agent.events # <<>>
    /\ LET event == Head(agent.events) IN
       /\ agent' = [agent EXCEPT !.events = Tail(@), !.verified = TRUE,
                                 !.paired = @ \/ event = "agent.paired"]
       /\ call' = IF event = "agent.paired" THEN Crossed ELSE call
    /\ client' = [c \in Clients |-> [client[c] EXCEPT
                    !.event = @ \/ (client[c].job = "pair" /\ client[c].at \in {"call", "wait"})]]
    /\ UNCHANGED <<link, svc>>

\* The events that are buffered are dropped.
Withdraws ==
    /\ link.state = "down" /\ agent.conn # 0 /\ ControlMuIsFree
    /\ agent' = [agent EXCEPT !.conn = 0, !.events = <<>>]
    /\ UNCHANGED <<client, call, link, svc>>

\* Mutant of Reconnects: what ready says is ignored.
ReconnectsAsBefore ==
    /\ agent.conn = 0 /\ agent.conns < MaxConns
    /\ agent' = [agent EXCEPT !.conn = agent.conns + 1, !.conns = @ + 1, !.torn = FALSE]
    /\ link' = [link EXCEPT !.state = "up"]
    /\ UNCHANGED <<client, call, svc>>

\* ready says whether the agent is paired.
Reconnects ==
    /\ agent.conn = 0 /\ agent.conns < MaxConns
    /\ agent' = [agent EXCEPT !.conn = agent.conns + 1, !.conns = @ + 1,
                              !.paired = svc.credential, !.torn = FALSE]
    /\ link' = [link EXCEPT !.state = "up"]
    /\ call' = Crossed
    /\ UNCHANGED <<client, svc>>

\* First nothing arrives at the agent any more, then the agent notices.
LosesLink ==
    /\ agent.conns < MaxConns
    /\ \/ link.state = "up" /\ link' = [link EXCEPT !.state = "dying"]
       \/ link.state = "dying" /\ link' = [state |-> "down", toService |-> <<>>]
    /\ UNCHANGED <<client, call, agent, svc>>

----------------------------------------------------------------------------
(* The service and the browser.                                            *)

\* The reader of the session puts a message into one of its two channels.
Sends(message) ==
    agent' = IF link.state # "up" THEN agent
             ELSE IF message \in Events THEN [agent EXCEPT !.events = Append(@, message)]
             ELSE [agent EXCEPT !.responses[agent.conn] = Append(@, message)]

Serves ==
    /\ link.toService # <<>>
    /\ LET kind == Head(link.toService) IN
       /\ Sends(kind)
       /\ svc' = CASE kind = "pair" -> [svc EXCEPT !.pairings = @ + 1, !.pairing = "open"]
                   [] kind = "cancel" -> [svc EXCEPT !.pairing = "none"]
                   [] kind = "revoke" -> [svc EXCEPT !.credential = FALSE, !.revocations = @ + 1]
                   [] OTHER -> svc
    /\ link' = [link EXCEPT !.toService = Tail(@)]
    /\ UNCHANGED <<client, call>>

Verifies ==
    /\ svc.pairing = "open"
    /\ svc' = [svc EXCEPT !.pairing = "verified"]
    /\ Sends("agent.pairing_verified")
    /\ UNCHANGED <<client, call, link>>

Registers ==
    /\ svc.pairing = "verified"
    /\ svc' = [svc EXCEPT !.credential = TRUE, !.pairing = "none"]
    /\ Sends("agent.paired")
    /\ UNCHANGED <<client, call, link>>

----------------------------------------------------------------------------
Handler(c) == Begins(c) \/ Asks(c) \/ Takes(c) \/ TimesOut(c) \/ Clears(c) \/ Answers(c)

Session == HandlesEvent \/ Withdraws \/ Reconnects

Service == Serves \/ Verifies \/ Registers

Next ==
    \/ \E c \in Clients :
        \/ \E job \in Jobs : Starts(c, job)
        \/ Retries(c) \/ Polls(c) \/ GivesUp(c) \/ Handler(c)
    \/ Session \/ LosesLink \/ Service

Spec == Init /\ [][Next]_vars

(***************************************************************************)
(* Fairness: handlers and the session run, and time passes, so a command   *)
(* that waits or tries again and again gives up (SF). Nothing is assumed   *)
(* of the service and the browser.                                         *)
(***************************************************************************)
Fairness ==
    /\ \A c \in Clients : WF_vars(Handler(c)) /\ SF_vars(GivesUp(c))
    /\ WF_vars(Session)

FairSpec == Spec /\ Fairness

----------------------------------------------------------------------------
(* Properties.                                                             *)

\* When nothing is under way, d.paired is what the service has; unless a
\* revocation was not answered in time, or an agent.paired event or a new
\* connection crossed it, and only until the next connection.
PairedIsCurrent ==
    /\ link.state = "up" /\ link.toService = <<>> /\ agent.events = <<>>
    /\ \A c \in Clients : call[c].kind # "revoke"
    /\ ~agent.torn
    => agent.paired = svc.credential

\* `pair --wait' never says that the code is confirmed because of an event that
\* the agent had handled before the command began.
ConfirmedAnew ==
    \A c \in Clients : client[c].told = "confirmed" => client[c].anew

\* Commands that said that the passkey is revoked: each stands for a
\* revocation of the service.
RevokedAsTold ==
    Cardinality({c \in Clients : Kind(client[c].job) = "revoke" /\ client[c].told = "ok"})
        <= svc.revocations

\* Every command ends, whatever the service answers. (Each is run once.)
EveryCommandEnds == <>[](\A c \in Clients : client[c].at \notin {"call", "sleep", "wait"})

----------------------------------------------------------------------------
(* What the documentation says and the code does not do.                   *)

\* README.md: `hopty uninstall # revoke, stop the user service, and remove
\* agent files'. Here the agent runs, and has a connection at first.
UninstallRevokes ==
    \A c \in Clients : client[c].at = "goeson" /\ link.toService = <<>> => svc.revocations > 0
=============================================================================
