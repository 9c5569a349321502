------------------------------- MODULE Daemon -------------------------------
(***************************************************************************)
(* The agent daemon (internal/agent/daemon.go) around its control session: *)
(* runControl, which connects, publishes the session, serves its events    *)
(* and retires it; the local API handlers, one goroutine per client of the *)
(* Unix socket; and the terminal goroutines that report through            *)
(* Manager.send.  They share d.connection under controlMu and the flags    *)
(* connected, paired and pairingVerified under stateMu.                    *)
(*                                                                         *)
(* A critical section that cannot block is one step.  The two that can     *)
(* (a pairing request and a terminal report, which wait for the network    *)
(* while they hold controlMu) are several, and controlMu says who is in.   *)
(***************************************************************************)
EXTENDS Session

CONSTANTS
    Handlers,       \* local API connections served at the same time
    Senders,        \* terminal goroutines that send reports
    Loop,           \* the goroutine of runControl
    Free,           \* controlMu held by nobody
    LocalCommands,  \* the commands the local clients use
    BackoffLimit,   \* a backoff below it doubles (30 s in the code)
    MaxRequests     \* bound: commands begin while fewer requests were written

ASSUME DaemonAssumption ==
    /\ Loop \notin Handlers \cup Senders
    /\ Handlers \cap Senders = {}
    /\ Free \notin Handlers \cup Senders \cup {Loop}
    /\ LocalCommands \subseteq Commands
    /\ BackoffLimit \in 1..30
    /\ MaxRequests \in Nat

\* Pairing commands keep controlMu for the whole request; status and revoke
\* copy d.connection and let go.
Locking == {"pair", "cancel"}

VARIABLES
    ctl,             \* where runControl is
    cur,             \* its latest connection; 0 before the first
    conn,            \* d.connection; 0 for nil
    connected,       \* d.connected
    paired,          \* d.paired
    pairingVerified, \* d.pairingVerified
    backoff,         \* seconds until the next dial
    cancelled,       \* the daemon's context is done
    controlMu,       \* who holds it
    pc,              \* where each handler is
    cmd,             \* the command it serves
    via,             \* the connection it copied; 0 for none
    rid,             \* the request_id it sent
    got,             \* the request_id of the answer it took; 0 for none
    sender,          \* where each terminal goroutine is
    lastId,          \* the last request_id drawn
    handled,         \* how many events of a connection were handled
    mixed            \* a request on this connection was abandoned, or did not
                     \*   hold controlMu (rid, got, handled and mixed guide no
                     \*   step of the code; the properties speak of them)

loopVars == <<ctl, cur, backoff>>
flagVars == <<connected, paired, pairingVerified>>
handlerVars == <<pc, cmd, via, rid, got, lastId, mixed>>
daemonVars == <<loopVars, flagVars, handlerVars, conn, cancelled, controlMu,
                sender, handled>>
vars == <<sessionVars, daemonVars>>

CtlStates == {"dial", "flags", "install", "announce", "serve", "handle",
              "send", "stop", "drain", "uninstall", "down", "wait", "returned"}

DaemonTypeOK ==
    /\ ctl \in CtlStates
    /\ cur \in Conns \cup {0}
    /\ conn \in Conns \cup {0}
    /\ connected \in BOOLEAN
    /\ paired \in BOOLEAN
    /\ pairingVerified \in BOOLEAN
    /\ backoff \in {1, 2, 4, 8, 16, 32}
    /\ cancelled \in BOOLEAN
    /\ controlMu \in Handlers \cup Senders \cup {Loop, Free}
    /\ pc \in [Handlers -> {"idle", "lock", "write", "wait", "settle"}]
    /\ cmd \in [Handlers -> Commands]
    /\ via \in [Handlers -> Conns \cup {0}]
    /\ rid \in [Handlers -> Nat]
    /\ got \in [Handlers -> Nat]
    /\ sender \in [Senders -> {"idle", "lock", "write"}]
    /\ lastId \in Nat
    /\ handled \in [Conns -> Nat]
    /\ mixed \in [Conns -> BOOLEAN]

TypeOK == SessionTypeOK /\ DaemonTypeOK

Init ==
    /\ SessionInit
    /\ ctl = "dial" /\ cur = 0 /\ conn = 0
    /\ connected = FALSE /\ paired = FALSE /\ pairingVerified = FALSE
    /\ backoff = 1
    /\ cancelled = FALSE
    /\ controlMu = Free
    /\ pc = [h \in Handlers |-> "idle"]
    /\ cmd = [h \in Handlers |-> "status"]
    /\ via = [h \in Handlers |-> 0]
    /\ rid = [h \in Handlers |-> 0]
    /\ got = [h \in Handlers |-> 0]
    /\ sender = [t \in Senders |-> "idle"]
    /\ lastId = 0
    /\ handled = [s \in Conns |-> 0]
    /\ mixed = [s \in Conns |-> FALSE]

----------------------------------------------------------------------------
(* runControl.                                                             *)

\* The top of the loop and control.Connect, which may fail at any message
\* of the handshake.
DialFails ==
    /\ ctl = "dial"
    /\ ctl' = "down"
    /\ UNCHANGED <<sessionVars, cur, backoff, flagVars, handlerVars, conn,
                   cancelled, controlMu, sender, handled>>

Dial ==
    /\ ctl = "dial"
    /\ ~cancelled
    /\ cur + 1 \in Conns
    /\ OpenSession(cur + 1)
    /\ cur' = cur + 1
    /\ backoff' = 1
    /\ ctl' = "flags"
    /\ UNCHANGED <<flagVars, handlerVars, conn, cancelled, controlMu, sender, handled>>

\* The service says in agent.ready whether this agent is paired.
SetFlags ==
    /\ ctl = "flags"
    /\ connected' = TRUE
    /\ paired' \in BOOLEAN
    /\ ctl' = "install"
    /\ UNCHANGED <<sessionVars, cur, backoff, pairingVerified, handlerVars, conn,
                   cancelled, controlMu, sender, handled>>

Install ==
    /\ ctl = "install"
    /\ controlMu = Free
    /\ conn' = cur
    /\ ctl' = "announce"
    /\ UNCHANGED <<sessionVars, cur, backoff, flagVars, handlerVars,
                   cancelled, controlMu, sender, handled>>

\* session.Send(agent.active_terminals): an error is ignored.
Announce ==
    /\ ctl = "announce"
    /\ WriteMuFree(cur)
    /\ ctl' = "serve"
    /\ UNCHANGED <<sessionVars, cur, backoff, flagVars, handlerVars, conn,
                   cancelled, controlMu, sender, handled>>

\* select takes an event; handleControlEvent sets the flags, or calls the
\* terminal manager, which may send a reply through Manager.send.
ServeEvent ==
    /\ ctl = "serve"
    /\ TakeEvent(cur)
    /\ handled' = [handled EXCEPT ![cur] = @ + 1]
    /\ LET kind == Head(events[cur]).kind
       IN /\ pairingVerified' =
               (pairingVerified \/ kind \in {"agent.pairing_verified", "agent.paired"})
          /\ paired' = (paired \/ kind = "agent.paired")
          /\ ctl' \in IF kind \in {"terminal.signal", "terminal.close"}
                      THEN {"serve", "handle"} ELSE {"serve"}
    /\ UNCHANGED <<cur, backoff, connected, handlerVars, conn, cancelled,
                   controlMu, sender>>

\* Manager.send inside the event handler: a nil connection is an error the
\* handler ignores; otherwise controlMu is kept until the write is done.
HandlerLocks ==
    /\ ctl = "handle"
    /\ controlMu = Free
    /\ IF conn = 0
       THEN ctl' = "serve" /\ UNCHANGED controlMu
       ELSE ctl' = "send" /\ controlMu' = Loop
    /\ UNCHANGED <<sessionVars, cur, backoff, flagVars, handlerVars, conn,
                   cancelled, sender, handled>>

HandlerSends ==
    /\ ctl = "send"
    /\ WriteMuFree(conn)
    /\ controlMu' = Free
    /\ ctl' = "serve"
    /\ UNCHANGED <<sessionVars, cur, backoff, flagVars, handlerVars, conn,
                   cancelled, sender, handled>>

\* The three other branches of the select: the context is done, the event
\* channel is closed and empty, or Run has returned its error. The last is
\* open as soon as Run is done, whatever is still buffered in events.
ServeEnds ==
    /\ ctl = "serve"
    /\ cancelled \/ reader[cur] = "done"
    /\ ctl' = "stop"
    /\ UNCHANGED <<sessionVars, cur, backoff, flagVars, handlerVars, conn,
                   cancelled, controlMu, sender, handled>>

\* Mutant of Stop: the flag is cleared before the connection is withdrawn.
StopClearsFlag ==
    /\ ctl = "stop"
    /\ CloseSession(cur)
    /\ connected' = FALSE
    /\ ctl' = "drain"
    /\ UNCHANGED <<cur, backoff, paired, pairingVerified, handlerVars, conn,
                   cancelled, controlMu, sender, handled>>

Stop ==
    /\ ctl = "stop"
    /\ CloseSession(cur)
    /\ ctl' = "drain"
    /\ UNCHANGED <<cur, backoff, flagVars, handlerVars, conn, cancelled,
                   controlMu, sender, handled>>

\* Mutant of Drain: nobody waits for the keepalive goroutine.
DrainAtOnce ==
    /\ ctl = "drain"
    /\ ctl' = "uninstall"
    /\ UNCHANGED <<sessionVars, cur, backoff, flagVars, handlerVars, conn,
                   cancelled, controlMu, sender, handled>>

\* <-keepaliveDone
Drain ==
    /\ ctl = "drain"
    /\ keepalive[cur] = "done"
    /\ ctl' = "uninstall"
    /\ UNCHANGED <<sessionVars, cur, backoff, flagVars, handlerVars, conn,
                   cancelled, controlMu, sender, handled>>

\* Mutant of Uninstall: d.connection is cleared without the lock.
UninstallUnlocked ==
    /\ ctl = "uninstall"
    /\ conn' = 0
    /\ ctl' = "down"
    /\ UNCHANGED <<sessionVars, cur, backoff, flagVars, handlerVars,
                   cancelled, controlMu, sender, handled>>

Uninstall ==
    /\ ctl = "uninstall"
    /\ controlMu = Free
    /\ conn' = 0
    /\ ctl' = "down"
    /\ UNCHANGED <<sessionVars, cur, backoff, flagVars, handlerVars,
                   cancelled, controlMu, sender, handled>>

Down ==
    /\ ctl = "down"
    /\ connected' = FALSE
    /\ ctl' = IF cancelled THEN "returned" ELSE "wait"
    /\ UNCHANGED <<sessionVars, cur, backoff, paired, pairingVerified, handlerVars,
                   conn, cancelled, controlMu, sender, handled>>

\* Mutant of BackoffEnds: the limit is not looked at.
BackoffUnlimited ==
    /\ ctl = "wait"
    /\ backoff' = 2 * backoff
    /\ ctl' = IF cancelled THEN "returned" ELSE "dial"
    /\ UNCHANGED <<sessionVars, cur, flagVars, handlerVars, conn,
                   cancelled, controlMu, sender, handled>>

\* time.After(backoff), then the doubling.
BackoffEnds ==
    /\ ctl = "wait"
    /\ backoff' = IF backoff < BackoffLimit THEN 2 * backoff ELSE backoff
    /\ ctl' = IF cancelled THEN "returned" ELSE "dial"
    /\ UNCHANGED <<sessionVars, cur, flagVars, handlerVars, conn,
                   cancelled, controlMu, sender, handled>>

BackoffCancelled ==
    /\ ctl = "wait"
    /\ cancelled
    /\ ctl' = "returned"
    /\ UNCHANGED <<sessionVars, cur, backoff, flagVars, handlerVars, conn,
                   cancelled, controlMu, sender, handled>>

RunControl == DialFails \/ Dial \/ SetFlags \/ Install \/ Announce \/ ServeEvent
              \/ HandlerLocks \/ HandlerSends \/ ServeEnds \/ Stop \/ Drain
              \/ Uninstall \/ Down \/ BackoffEnds \/ BackoffCancelled

----------------------------------------------------------------------------
(* The local API handlers: status, createPairing, cancelPairing, revoke.   *)

\* handle reads the command; what comes before the first lock of controlMu:
\* status reads the flags and may answer from them alone, createPairing
\* clears pairingVerified.
Begin(h, c) ==
    /\ pc[h] = "idle"
    /\ ~cancelled
    /\ lastId < MaxRequests
    /\ c = "status" => connected /\ paired
    /\ pc' = [pc EXCEPT ![h] = "lock"]
    /\ cmd' = [cmd EXCEPT ![h] = c]
    /\ pairingVerified' = (pairingVerified /\ c # "pair")
    /\ UNCHANGED <<sessionVars, loopVars, connected, paired, via, rid, got, lastId,
                   mixed, conn, cancelled, controlMu, sender, handled>>

\* The handler returns: pairing commands release controlMu.
Return(h) ==
    /\ pc' = [pc EXCEPT ![h] = "idle"]
    /\ controlMu' = IF controlMu = h THEN Free ELSE controlMu
    /\ via' = [via EXCEPT ![h] = 0]
    /\ rid' = [rid EXCEPT ![h] = 0]
    /\ got' = [got EXCEPT ![h] = 0]

\* Mutant of Lock: pairing commands let go of controlMu too.
LockLetsGo(h) ==
    /\ pc[h] = "lock"
    /\ controlMu = Free
    /\ conn # 0
    /\ via' = [via EXCEPT ![h] = conn]
    /\ pc' = [pc EXCEPT ![h] = "write"]
    /\ UNCHANGED <<sessionVars, loopVars, flagVars, cmd, rid, got, lastId, mixed,
                   conn, cancelled, controlMu, sender, handled>>

\* controlMu is taken and d.connection read. Status and revoke let go.
Lock(h) ==
    /\ pc[h] = "lock"
    /\ controlMu = Free
    /\ conn # 0
    /\ via' = [via EXCEPT ![h] = conn]
    /\ pc' = [pc EXCEPT ![h] = "write"]
    /\ controlMu' = IF cmd[h] \in Locking THEN h ELSE Free
    /\ UNCHANGED <<sessionVars, loopVars, flagVars, cmd, rid, got, lastId, mixed,
                   conn, cancelled, sender, handled>>

\* "agent control connection is unavailable"
LockFindsNil(h) ==
    /\ pc[h] = "lock"
    /\ controlMu = Free
    /\ conn = 0
    /\ Return(h)
    /\ UNCHANGED <<sessionVars, loopVars, flagVars, cmd, lastId, mixed,
                   conn, cancelled, sender, handled>>

\* request draws a request_id and writes the envelope.
WriteRequest(h) ==
    /\ pc[h] = "write"
    /\ Transmit(via[h], [cmd |-> cmd[h], id |-> lastId + 1])
    /\ lastId' = lastId + 1
    /\ rid' = [rid EXCEPT ![h] = lastId + 1]
    /\ mixed' = [mixed EXCEPT ![via[h]] = @ \/ cmd[h] \notin Locking]
    /\ pc' = [pc EXCEPT ![h] = "wait"]
    /\ UNCHANGED <<loopVars, flagVars, cmd, via, got, conn, cancelled,
                   controlMu, sender, handled>>

WriteFails(h) ==
    /\ pc[h] = "write"
    /\ TransmitFails(via[h])
    /\ Return(h)
    /\ UNCHANGED <<loopVars, flagVars, cmd, lastId, mixed, conn,
                   cancelled, sender, handled>>

\* The select of request takes a response. Only its type is compared.
Accepts(h) ==
    /\ pc[h] = "wait"
    /\ TakeResponse(via[h])
    /\ Head(responses[via[h]]).kind = AnswerTo[cmd[h]]
    /\ got' = [got EXCEPT ![h] = Head(responses[via[h]]).id]
    /\ pc' = [pc EXCEPT ![h] = "settle"]
    /\ UNCHANGED <<loopVars, flagVars, cmd, via, rid, lastId, mixed, conn,
                   cancelled, controlMu, sender, handled>>

\* A response of another type, or one whose payload is not what the command
\* expects, is an error.
Rejects(h) ==
    /\ pc[h] = "wait"
    /\ TakeResponse(via[h])
    /\ Return(h)
    /\ UNCHANGED <<loopVars, flagVars, cmd, lastId, mixed, conn, cancelled,
                   sender, handled>>

\* Mutant of TimesOut: an early return that skips the unlock.
TimesOutLocked(h) ==
    /\ pc[h] = "wait"
    /\ mixed' = [mixed EXCEPT ![via[h]] = TRUE]
    /\ pc' = [pc EXCEPT ![h] = "idle"]
    /\ UNCHANGED <<sessionVars, loopVars, flagVars, cmd, via, rid, got, lastId,
                   conn, cancelled, controlMu, sender, handled>>

\* The context of the request ends: 3 s for status, 10 s for the others.
TimesOut(h) ==
    /\ pc[h] = "wait"
    /\ mixed' = [mixed EXCEPT ![via[h]] = TRUE]
    /\ Return(h)
    /\ UNCHANGED <<sessionVars, loopVars, flagVars, cmd, lastId,
                   conn, cancelled, sender, handled>>

\* The rest of the command: revoke clears the flags it was not holding any
\* lock over; the others only build their reply.
Settle(h) ==
    /\ pc[h] = "settle"
    /\ paired' = (paired /\ cmd[h] # "revoke")
    /\ pairingVerified' = (pairingVerified /\ cmd[h] # "revoke")
    /\ Return(h)
    /\ UNCHANGED <<sessionVars, loopVars, connected, cmd, lastId,
                   mixed, conn, cancelled, sender, handled>>

Handler(h) == (\E c \in LocalCommands : Begin(h, c)) \/ Lock(h) \/ LockFindsNil(h)
              \/ WriteRequest(h) \/ WriteFails(h) \/ Accepts(h) \/ Rejects(h)
              \/ TimesOut(h) \/ Settle(h)

----------------------------------------------------------------------------
(* Terminal goroutines: the send function Start gives the manager.         *)

WantsToReport(t) ==
    /\ sender[t] = "idle"
    /\ sender' = [sender EXCEPT ![t] = "lock"]
    /\ UNCHANGED <<sessionVars, loopVars, flagVars, handlerVars, conn,
                   cancelled, controlMu, handled>>

SenderLocks(t) ==
    /\ sender[t] = "lock"
    /\ controlMu = Free
    /\ IF conn = 0
       THEN sender' = [sender EXCEPT ![t] = "idle"] /\ UNCHANGED controlMu
       ELSE sender' = [sender EXCEPT ![t] = "write"] /\ controlMu' = t
    /\ UNCHANGED <<sessionVars, loopVars, flagVars, handlerVars, conn,
                   cancelled, handled>>

SenderWrites(t) ==
    /\ sender[t] = "write"
    /\ WriteMuFree(conn)
    /\ sender' = [sender EXCEPT ![t] = "idle"]
    /\ controlMu' = Free
    /\ UNCHANGED <<sessionVars, loopVars, flagVars, handlerVars, conn,
                   cancelled, handled>>

Reporter(t) == WantsToReport(t) \/ SenderLocks(t) \/ SenderWrites(t)

----------------------------------------------------------------------------

\* SIGINT or SIGTERM: the context of Run is done, the listener closes.
Cancel ==
    /\ ~cancelled
    /\ cancelled' = TRUE
    /\ UNCHANGED <<sessionVars, loopVars, flagVars, handlerVars, conn,
                   controlMu, sender, handled>>

SessionSteps(s) == (Reader(s) \/ Keepalive(s)) /\ UNCHANGED daemonVars
Environment(s) == FarEnd(s) /\ UNCHANGED daemonVars

Next ==
    \/ RunControl
    \/ \E h \in Handlers : Handler(h)
    \/ \E t \in Senders : Reporter(t)
    \/ \E s \in Conns : SessionSteps(s) \/ Environment(s)
    \/ Cancel

Spec == Init /\ [][Next]_vars

(***************************************************************************)
(* Fairness.  Goroutines run (WF).  A sync.Mutex hands itself over to a    *)
(* waiter it has starved for a millisecond, so who waits for controlMu or  *)
(* writeMu gets it although others come and go (SF).  Every request has a  *)
(* timeout and a backoff ends.  Nothing is assumed of the service or the   *)
(* network, nor that a dial returns before its context is cancelled.       *)
(***************************************************************************)
LoopFairness ==
    /\ WF_vars(SetFlags \/ ServeEvent \/ ServeEnds \/ Stop \/ Drain \/ Down)
    /\ WF_vars(BackoffEnds \/ BackoffCancelled)
    /\ WF_vars(DialFails /\ cancelled)
    /\ SF_vars(Install \/ HandlerLocks \/ Uninstall)
    /\ SF_vars(Announce \/ HandlerSends)

HandlerFairness(h) ==
    /\ SF_vars(Lock(h) \/ LockFindsNil(h))
    /\ SF_vars(WriteRequest(h) \/ WriteFails(h))
    /\ WF_vars(Accepts(h) \/ Rejects(h) \/ TimesOut(h) \/ Settle(h))

SenderFairness(t) == SF_vars(SenderLocks(t)) /\ SF_vars(SenderWrites(t))

\* A read on a link that is lost need not fail before the socket is closed.
SessionFairness(s) ==
    /\ WF_vars(Reader(s) /\ ~ReadFails(s) /\ UNCHANGED daemonVars)
    /\ WF_vars(ReadFails(s) /\ (link[s] = "closed" \/ stopped[s]) /\ UNCHANGED daemonVars)
    /\ WF_vars(Keepalive(s) /\ UNCHANGED daemonVars)

Fairness ==
    /\ LoopFairness
    /\ \A h \in Handlers : HandlerFairness(h)
    /\ \A t \in Senders : SenderFairness(t)
    /\ \A s \in Conns : SessionFairness(s)

FairSpec == Spec /\ Fairness

----------------------------------------------------------------------------
(* Safety.                                                                 *)

\* A connection that was superseded is closed and its keepalive goroutine
\* has ended: the agent never has two live control connections, and no late
\* ping failure of an old one touches a new one.
SupersededIsClosed ==
    \A s \in Conns : s < cur => link[s] = "closed" /\ keepalive[s] = "done"

\* The published connection is the latest one, and whoever finds it also
\* finds the agent connected: connected is set before d.connection and
\* cleared after it.
PublishedIsConnected ==
    conn # 0 => conn = cur /\ connected

\* A pairing command holds controlMu from its lock to its reply, so the
\* connection it writes to stays published meanwhile: runControl cannot
\* retire the session and connect again under a pairing request.
PairingKeepsItsSession ==
    \A h \in Handlers :
        pc[h] \in {"write", "wait", "settle"} /\ cmd[h] \in Locking =>
            controlMu = h /\ via[h] = conn /\ conn # 0

\* While its reader runs, a session neither loses, repeats nor reorders an
\* event: what was handled, what is buffered, what is being pushed and what
\* is still on the wire are together all events the service sent, in order.
EventsUnbroken ==
    \A s \in Conns :
        reader[s] \in {"reading", "pushing"} /\ link[s] # "closed" =>
            LET ahead == events[s] \o <<hold[s]>> \o inbox[s]
            IN /\ IdsOf(EventKinds, ahead) = (handled[s] + 1)..said[s]
               /\ Rising(EventKinds, ahead)

\* Pairing commands exclude each other, so each takes the answer to its own
\* request, although only the type of an answer is compared: as long as no
\* request was abandoned on the connection, none was written without
\* controlMu and the service has sent nothing unasked but events.
SerialAnswersAreOwn ==
    \A h \in Handlers :
        got[h] # 0 /\ ~mixed[via[h]] /\ chatter[via[h]] = 0 => got[h] = rid[h]

----------------------------------------------------------------------------
(* The inductive invariant: where every connection and every lock is, by   *)
(* where runControl and the handlers are.                                  *)

\* From Install to Uninstall the session is published.
Published == {"announce", "serve", "handle", "send", "stop", "drain", "uninstall"}

\* Between connections there is none open.
Between == {"dial", "down", "wait", "returned"}

\* A connection has been opened exactly if runControl has reached it.
ConnectionsAreOpenedInOrder ==
    \A s \in Conns :
        /\ s > cur <=> link[s] = "none"
        /\ s > cur <=> keepalive[s] = "none"
        /\ s > cur <=> reader[s] = "none"

\* How far runControl has come in taking its connection down.
TakenDown ==
    /\ ctl \notin Between => cur \in Conns
    /\ ctl \in Between /\ cur # 0 => link[cur] = "closed" /\ keepalive[cur] = "done"
    /\ ctl \in {"drain", "uninstall"} => link[cur] = "closed"
    /\ ctl = "uninstall" => keepalive[cur] = "done"

PublishedByPhase ==
    /\ conn = IF ctl \in Published THEN cur ELSE 0
    /\ ctl \in Published \cup {"install"} => connected

\* Who is inside the critical section of controlMu.
ControlMutex ==
    /\ controlMu = Loop <=> ctl = "send"
    /\ \A h \in Handlers :
          controlMu = h <=> pc[h] \in {"write", "wait", "settle"} /\ cmd[h] \in Locking
    /\ \A t \in Senders : controlMu = t <=> sender[t] = "write"
    /\ controlMu # Free => conn # 0

RequestsUseOpenedSessions ==
    \A h \in Handlers :
        pc[h] \in {"write", "wait", "settle"} =>
            /\ via[h] \in Conns /\ via[h] <= cur
            /\ cmd[h] \in Locking => via[h] = conn

DaemonInv ==
    /\ TypeOK
    /\ ConnectionsAreOpenedInOrder
    /\ SupersededIsClosed
    /\ TakenDown
    /\ PublishedByPhase
    /\ ControlMutex
    /\ RequestsUseOpenedSessions

----------------------------------------------------------------------------
(* Liveness.                                                               *)

\* Every local API command comes to an end, even when the service never
\* answers and the link dies under it: no goroutine waits for ever on
\* controlMu, writeMu or a session that is gone.
EveryCommandReturns ==
    \A h \in Handlers : pc[h] # "idle" ~> pc[h] = "idle"

\* The reader is blocked on a full responses channel that no request will
\* drain any more, because every write to the closed socket fails.
Wedged(s) ==
    /\ link[s] = "closed"
    /\ reader[s] = "pushing"
    /\ hold[s].kind \notin EventKinds
    /\ Len(responses[s]) = ResponsesCap

\* A published session whose link is gone is retired, so that runControl
\* dials again. The one exception is a reader blocked on responses.
DeadLinkIsRetired ==
    \A s \in Conns :
        conn = s /\ link[s] \in {"lost", "closed"} ~> conn # s \/ Wedged(s)

\* After a signal runControl returns and every handler replies, so that
\* Close does not wait for ever.
ShutdownCompletes ==
    cancelled ~> ctl = "returned" /\ \A h \in Handlers : pc[h] = "idle"

----------------------------------------------------------------------------
(* What the protocol document says and the code does not do.               *)

\* docs/protocol-v1.md:243: a terminal.close the service has sent is handled
\* in the end, or the agent has lost the connection and makes a new one, on
\* which terminals are resynchronised.
CloseIsServed ==
    \A s \in Conns :
        (\E i \in 1..Len(inbox[s]) : inbox[s][i].kind = "terminal.close")
            ~> (handled[s] = said[s] \/ conn # s \/ cancelled)
=============================================================================
