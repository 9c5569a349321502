------------------------------ MODULE Terminal ------------------------------
(***************************************************************************)
(* The terminal manager (internal/terminal/terminal.go): the registry of   *)
(* terminals and the life of each, from terminal.open to the close report. *)
(*                                                                         *)
(* Many goroutines meet in a terminal: the control goroutine that handles  *)
(* service events one at a time (Open, Signal), the callbacks of the peer  *)
(* connection (data channel, open, message, connection state), the         *)
(* recovery timer, the one that waits for the shell, and the one that      *)
(* shuts the daemon down.  All of them may call close, which runs once.    *)
(*                                                                         *)
(* A terminal is an object: after its close the service may open another   *)
(* one under the same id.  Objects are numbered in the order they are      *)
(* made.  The peer connection and the shell are modelled from how the code *)
(* uses them.  Candidates are left to Signaling, bytes to Frames.          *)
(***************************************************************************)
EXTENDS Naturals, Sequences, SequencesExt

CONSTANTS
    Ids,            \* terminal ids the service uses
    MaxTerminals,   \* bound: how many terminals are opened
    MaxChanges,     \* bound: connection state changes of a terminal
    InOrder         \* connection states are handled in the order they occur

Terminals == 1..MaxTerminals
NoId == 0           \* the empty id

ASSUME TerminalAssumption ==
    /\ MaxTerminals \in Nat /\ MaxChanges \in Nat
    /\ NoId \notin Ids
    /\ InOrder \in BOOLEAN

\* Kinds of a signal: offer and ice_restart are handled alike.
SignalKinds == {"offer", "candidate", "close", "unknown"}

PeerStates == {"new", "connected", "disconnected", "failed", "closed"}
Away == {"disconnected", "failed"}

VARIABLES
    registry,   \* Manager.terminals; 0 when an id is not in the map
    made,       \* how many terminals were opened
    term,       \* of every terminal:
                \*   id          session.id
                \*   pc          the peer connection: none, open, closed
                \*   negotiated  an offer was answered on it: callbacks may come
                \*   dc          session.dc: none, open, closed
                \*   opening     the OnOpen callback: none, due, announcing, done
                \*   pty         session.pty: none, open, closed
                \*   peer        the state of the peer connection
                \*   changes     how often it changed
                \*   notes       state notifications whose handler has not run yet
                \*   recovery    session.recovery: nil, armed, fired, stopped
                \*   wanted      some goroutine has called close
                \*   closing     the body of closeOnce: open, begun (closed is set),
                \*                 released (the handles are closed), deleted, reported
                \*   snapshot    the handles it saw under the mutex
    ctl,        \* the control goroutine: at idle, offering, answering or closing;
                \*   the kind and id of the event it handles, or handled last; the
                \*   terminal it works on
    quit        \* the goroutine in CloseAll: at no, closing or done; the terminals
                \*   it has still to close and the one it is closing, 0 for none

vars == <<registry, made, term, ctl, quit>>

Opened == 1..made
IsClosed(t) == term[t].closing # "open"
Lookup(i) == IF i \in Ids THEN registry[i] ELSE 0

New == [id |-> NoId, pc |-> "none", negotiated |-> FALSE, dc |-> "none",
        opening |-> "none", pty |-> "none", peer |-> "new", changes |-> 0,
        notes |-> <<>>, recovery |-> "nil", wanted |-> FALSE, closing |-> "open",
        snapshot |-> {}]

TerminalState ==
    [id : Ids \cup {NoId}, pc : {"none", "open", "closed"}, negotiated : BOOLEAN,
     dc : {"none", "open", "closed"}, opening : {"none", "due", "announcing", "done"},
     pty : {"none", "open", "closed"}, peer : PeerStates, changes : 0..MaxChanges,
     notes : Seq(PeerStates), recovery : {"nil", "armed", "fired", "stopped"},
     wanted : BOOLEAN, closing : {"open", "begun", "released", "deleted", "reported"},
     snapshot : SUBSET {"pty", "dc", "pc"}]

TypeOK ==
    /\ registry \in [Ids -> Opened \cup {0}]
    /\ made \in 0..MaxTerminals
    /\ term \in [Terminals -> TerminalState]
    /\ \A t \in Terminals : term[t].id = NoId <=> t \notin Opened
    /\ ctl \in [at : {"idle", "offering", "answering", "closing"},
                kind : SignalKinds \cup {"none", "terminal.open", "terminal.close"},
                id : Ids \cup {NoId}, target : Opened \cup {0}]
    /\ ctl.target = 0 <=> ctl.at = "idle"
    /\ quit \in [at : {"no", "closing", "done"}, doomed : SUBSET Opened,
                 current : Opened \cup {0}]
    /\ quit.current # 0 => quit.current \in quit.doomed
    /\ quit.doomed # {} => quit.at = "closing"

Init ==
    /\ registry = [i \in Ids |-> 0]
    /\ made = 0
    /\ term = [t \in Terminals |-> New]
    /\ ctl = [at |-> "idle", kind |-> "none", id |-> NoId, target |-> 0]
    /\ quit = [at |-> "no", doomed |-> {}, current |-> 0]

----------------------------------------------------------------------------
(* The control goroutine: Manager.Open and Manager.Signal.                 *)

\* handleControlEvent calls the manager for one event at a time, which takes
\* the goroutine to a point of the handler and a terminal.
TakesEvent(kind, i, at, t) ==
    /\ ctl.at = "idle"
    /\ ctl' = [at |-> at, kind |-> kind, id |-> i, target |-> t]

Resumes(at) == ctl' = [ctl EXCEPT !.at = at]
Returns == ctl' = [ctl EXCEPT !.at = "idle", !.target = 0]

\* Mutants of Open: an id in use, or the empty id, is not refused.
OpenOverwrites(i) ==
    /\ TakesEvent("terminal.open", i, "idle", 0)
    /\ i # NoId /\ made < MaxTerminals
    /\ made' = made + 1
    /\ registry' = [registry EXCEPT ![i] = made']
    /\ term' = [term EXCEPT ![made'].id = i]
    /\ UNCHANGED quit

OpenNameless(i) ==
    /\ TakesEvent("terminal.open", i, "idle", 0)
    /\ Lookup(i) = 0 /\ made < MaxTerminals
    /\ made' = made + 1
    /\ registry' = [registry EXCEPT ![i] = made']
    /\ term' = [term EXCEPT ![made'].id = i]
    /\ UNCHANGED quit

Open(i) ==
    /\ TakesEvent("terminal.open", i, "idle", 0)
    /\ i # NoId /\ Lookup(i) = 0 /\ made < MaxTerminals
    /\ made' = made + 1
    /\ registry' = [registry EXCEPT ![i] = made']
    /\ term' = [term EXCEPT ![made'].id = i]
    /\ UNCHANGED quit

\* Open is given no id or one in use, Signal finds no such terminal or a kind
\* it does not know; a candidate only goes to the peer connection.
NothingToDo(kind, i) ==
    /\ TakesEvent(kind, i, "idle", 0)
    /\ kind = "terminal.open" => i = NoId \/ Lookup(i) # 0
    /\ kind \in {"offer", "close"} => Lookup(i) = 0
    /\ UNCHANGED <<registry, made, term, quit>>

\* The documented terminal.close names a terminal and a reason and has no
\* kind. It is handed to Signal, which does not know the kind "".
ServiceCloses(i) ==
    /\ TakesEvent("terminal.close", i, "idle", 0)
    /\ UNCHANGED <<registry, made, term, quit>>

OfferArrives(i) ==
    /\ TakesEvent("offer", i, "offering", Lookup(i))
    /\ Lookup(i) # 0
    /\ UNCHANGED <<registry, made, term, quit>>

\* offer makes the peer connection when there is none yet and stores it,
\* whether or not the terminal has been closed meanwhile.
OfferMakesPeer ==
    /\ ctl.at = "offering"
    /\ Resumes("answering")
    /\ term' = [term EXCEPT ![ctl.target].pc = IF @ = "none" THEN "open" ELSE @]
    /\ UNCHANGED <<registry, made, quit>>

\* The descriptions are exchanged and the answer is sent.
OfferAnswers ==
    /\ ctl.at = "answering"
    /\ term[ctl.target].pc = "open"
    /\ Returns
    /\ term' = [term EXCEPT ![ctl.target].negotiated = TRUE]
    /\ UNCHANGED <<registry, made, quit>>

\* An offer that does not parse, or any step of the exchange, may fail.
OfferFails ==
    /\ ctl.at \in {"offering", "answering"}
    /\ Returns
    /\ UNCHANGED <<registry, made, term, quit>>

\* Signal calls close itself and waits until it is done, by whomever it is
\* done: sync.Once makes later callers wait for the first.
CloseArrives(i) ==
    /\ TakesEvent("close", i, "closing", Lookup(i))
    /\ Lookup(i) # 0
    /\ term' = [term EXCEPT ![registry[i]].wanted = TRUE]
    /\ UNCHANGED <<registry, made, quit>>

\* Mutant of CloseReturns: a flag instead of the Once does not make the later
\* caller wait.
CloseReturnsEarly ==
    /\ ctl.at = "closing" /\ IsClosed(ctl.target)
    /\ Returns
    /\ UNCHANGED <<registry, made, term, quit>>

CloseReturns ==
    /\ ctl.at = "closing" /\ term[ctl.target].closing = "reported"
    /\ Returns
    /\ UNCHANGED <<registry, made, term, quit>>

Control == \/ \E i \in Ids \cup {NoId} :
                \/ Open(i) \/ ServiceCloses(i) \/ OfferArrives(i) \/ CloseArrives(i)
                \/ \E k \in SignalKinds \cup {"terminal.open"} : NothingToDo(k, i)
           \/ OfferMakesPeer \/ OfferAnswers \/ OfferFails \/ CloseReturns

----------------------------------------------------------------------------
(* Callbacks of the peer connection and of the shell: all change only their*)
(* terminal.                                                               *)

\* OnDataChannel: the first channel of the right label is kept, unless the
\* terminal is closed; any other is closed at once.
DataChannelArrives(t) ==
    /\ term[t].negotiated /\ term[t].pc = "open"
    /\ term[t].dc = "none" /\ ~IsClosed(t)
    /\ term' = [term EXCEPT ![t].dc = "open", ![t].opening = "due"]

\* Mutant of StartPTY: closed is not looked at again.
StartPTYUnchecked(t) ==
    /\ term[t].opening = "due"
    /\ term[t].pty = "none"
    /\ term' = [term EXCEPT ![t].pty = "open", ![t].opening = "announcing"]

\* OnOpen: startPTY checks closed and starts the shell under the mutex.
StartPTY(t) ==
    /\ term[t].opening = "due"
    /\ ~IsClosed(t) /\ term[t].pty = "none"
    /\ term' = [term EXCEPT ![t].pty = "open", ![t].opening = "announcing"]

\* The terminal is closed, or no PTY or shell can be had.
StartPTYFails(t) ==
    /\ term[t].opening = "due"
    /\ term' = [term EXCEPT ![t].opening = "done", ![t].wanted = TRUE]

\* The report "active" is sent outside the mutex.
Announce(t) ==
    /\ term[t].opening = "announcing"
    /\ term' = [term EXCEPT ![t].opening = "done"]

\* OnMessage: any message may be one that closes the terminal (Frames says
\* which); one that does not changes nothing here.
Message(t) ==
    /\ term[t].opening # "none" /\ term[t].dc = "open"
    /\ term' = [term EXCEPT ![t].wanted = TRUE]

\* The shell ends by itself or because its terminal hung up; the goroutine in
\* cmd.Wait calls close.
ShellExits(t) ==
    /\ term[t].pty # "none"
    /\ term' = [term EXCEPT ![t].wanted = TRUE]

\* The peer connection changes state (external): each change starts a
\* handler goroutine of its own.
PeerChanges(t, state) ==
    /\ term[t].negotiated /\ term[t].pc = "open"
    /\ term[t].peer \notin {state, "closed"}
    /\ term[t].changes < MaxChanges
    /\ term' = [term EXCEPT ![t].changes = @ + 1, ![t].peer = state,
                            ![t].notes = Append(@, state)]

\* Mutants of NextRecovery: the stopped timer is kept; disconnected is ignored.
RecoveryKept(t, state) ==
    CASE state \in Away /\ term[t].recovery = "nil" /\ ~IsClosed(t) -> "armed"
      [] state = "connected" /\ term[t].recovery # "nil" -> "stopped"
      [] OTHER -> term[t].recovery

RecoveryOfFailure(t, state) ==
    CASE state = "failed" /\ term[t].recovery = "nil" /\ ~IsClosed(t) -> "armed"
      [] state = "connected" -> "nil"
      [] OTHER -> term[t].recovery

\* The recovery timer after a notification.
NextRecovery(t, state) ==
    CASE state \in Away /\ term[t].recovery = "nil" /\ ~IsClosed(t) -> "armed"
      [] state = "connected" -> "nil"
      [] OTHER -> term[t].recovery

\* connectionState.
Notified(t, n) ==
    /\ n \in DOMAIN term[t].notes
    /\ InOrder => n = 1
    /\ LET state == term[t].notes[n]
       IN term' = [term EXCEPT ![t].notes = RemoveAt(@, n),
                               ![t].recovery = NextRecovery(t, state),
                               ![t].wanted = @ \/ state = "closed"]

\* Ten seconds have passed since the timer was armed.
RecoveryEnds(t) ==
    /\ term[t].recovery = "armed"
    /\ term' = [term EXCEPT ![t].recovery = "fired", ![t].wanted = TRUE]

Alone == UNCHANGED <<registry, made, ctl, quit>>

Callback(t) == /\ \/ DataChannelArrives(t) \/ StartPTY(t) \/ StartPTYFails(t) \/ Announce(t)
                  \/ Message(t) \/ ShellExits(t) \/ RecoveryEnds(t)
                  \/ \E state \in PeerStates \ {"new"} : PeerChanges(t, state)
                  \/ \E n \in 1..MaxChanges : Notified(t, n)
               /\ Alone

----------------------------------------------------------------------------
(* close, and CloseAll.                                                    *)

\* Mutant of CloseBegins: the id leaves the map before the handles are closed.
CloseBeginsByDeleting(t) ==
    /\ term[t].wanted /\ term[t].closing = "open"
    /\ term' = [term EXCEPT
            ![t].closing = "begun",
            ![t].recovery = IF @ = "armed" THEN "stopped" ELSE @,
            ![t].snapshot = {h \in {"pty", "dc", "pc"} : term[t][h] # "none"}]
    /\ registry' = [registry EXCEPT ![term[t].id] = 0]

\* The body of closeOnce, up to the snapshot.
CloseBegins(t) ==
    /\ term[t].wanted /\ term[t].closing = "open"
    /\ term' = [term EXCEPT
            ![t].closing = "begun",
            ![t].recovery = IF @ = "armed" THEN "stopped" ELSE @,
            ![t].snapshot = {h \in {"pty", "dc", "pc"} : term[t][h] # "none"}]
    /\ UNCHANGED registry

\* The handles of the snapshot are closed.
CloseReleases(t) ==
    /\ term[t].closing = "begun"
    /\ LET after(h) == IF h \in term[t].snapshot THEN "closed" ELSE term[t][h]
       IN term' = [term EXCEPT ![t].pty = after("pty"), ![t].dc = after("dc"), ![t].pc = after("pc"),
                               ![t].closing = "released", ![t].snapshot = {}]
    /\ UNCHANGED registry

\* Mutants of CloseDeletes: Signal or CloseAll holds the manager's mutex while
\* it closes a terminal, and close waits for it.
SignalKeepsMutex(t) ==
    /\ ctl.at # "closing"
    /\ term[t].closing = "released"
    /\ term' = [term EXCEPT ![t].closing = "deleted"]
    /\ registry' = [registry EXCEPT ![term[t].id] = 0]

CloseAllKeepsMutex(t) ==
    /\ quit.current = 0
    /\ term[t].closing = "released"
    /\ term' = [term EXCEPT ![t].closing = "deleted"]
    /\ registry' = [registry EXCEPT ![term[t].id] = 0]

\* The id leaves the map.
CloseDeletes(t) ==
    /\ term[t].closing = "released"
    /\ term' = [term EXCEPT ![t].closing = "deleted"]
    /\ registry' = [registry EXCEPT ![term[t].id] = 0]

CloseReports(t) ==
    /\ term[t].closing = "deleted"
    /\ term' = [term EXCEPT ![t].closing = "reported"]
    /\ UNCHANGED registry

Closing(t) == /\ CloseBegins(t) \/ CloseReleases(t) \/ CloseDeletes(t) \/ CloseReports(t)
              /\ UNCHANGED <<made, ctl, quit>>

\* CloseAll copies the map, then closes one terminal after the other.
CloseAll ==
    /\ quit.at = "no"
    /\ quit' = [quit EXCEPT !.at = "closing", !.doomed = {registry[i] : i \in Ids} \ {0}]
    /\ UNCHANGED term

CloseAllPicks(t) ==
    /\ quit.current = 0 /\ t \in quit.doomed
    /\ quit' = [quit EXCEPT !.current = t]
    /\ term' = [term EXCEPT ![t].wanted = TRUE]

CloseAllPasses ==
    /\ quit.current # 0 /\ term[quit.current].closing = "reported"
    /\ quit' = [quit EXCEPT !.doomed = @ \ {quit.current}, !.current = 0]
    /\ UNCHANGED term

CloseAllEnds ==
    /\ quit.at = "closing" /\ quit.doomed = {}
    /\ quit' = [quit EXCEPT !.at = "done"]
    /\ UNCHANGED term

CloseAllGoesOn == /\ (\E t \in Opened : CloseAllPicks(t)) \/ CloseAllPasses \/ CloseAllEnds
                  /\ UNCHANGED <<registry, made, ctl>>

Quitting == CloseAllGoesOn \/ (CloseAll /\ UNCHANGED <<registry, made, ctl>>)

Next == Control \/ (\E t \in Opened : Callback(t) \/ Closing(t)) \/ Quitting

Spec == Init /\ [][Next]_vars

(***************************************************************************)
(* Fairness: the goroutines of the agent run and its timer fires.  Nothing *)
(* is assumed of the browser, the network, the service or the shell.       *)
(***************************************************************************)
Fairness ==
    /\ WF_vars(OfferMakesPeer \/ OfferAnswers \/ OfferFails \/ CloseReturns)
    /\ \A t \in Terminals :
        /\ WF_vars(Closing(t))
        /\ WF_vars(Alone /\ (StartPTY(t) \/ StartPTYFails(t)))
        /\ WF_vars(Alone /\ Announce(t))
        /\ WF_vars(Alone /\ \E n \in 1..MaxChanges : Notified(t, n))
        /\ WF_vars(Alone /\ RecoveryEnds(t))
    /\ WF_vars(CloseAllGoesOn)

FairSpec == Spec /\ Fairness

----------------------------------------------------------------------------
(* Safety.                                                                 *)

\* Once the handles of a terminal have been closed it has no open PTY and no
\* open data channel: none can appear behind the snapshot, because OnOpen
\* and OnDataChannel look at closed under the mutex. offer does not look,
\* and stores its peer connection in a closed terminal; before the daemon
\* shuts down that cannot happen, because a terminal without a peer
\* connection is closed only by the goroutine that runs offer.
ClosedHoldsNothing ==
    \A t \in Opened :
        term[t].closing \in {"released", "deleted", "reported"} =>
            /\ term[t].pty # "open" /\ term[t].dc # "open"
            /\ term[t].pc = "open" => quit.at # "no"

\* The map holds exactly the terminals that have not been deleted, each
\* under its own id: an id that is used again is never taken away by the
\* close of the terminal that had it before.
RegistryIsExact ==
    \A t \in Opened :
        registry[term[t].id] = t <=> term[t].closing \in {"open", "begun", "released"}

\* When the handlers have run, a terminal has a recovery deadline exactly
\* while its peer connection is disconnected or failed; also for the second
\* and every later disconnection. (If states are handled in order.)
DeadlineFollowsPeer ==
    InOrder =>
        \A t \in Opened :
            ~IsClosed(t) /\ term[t].notes = <<>> =>
                (term[t].peer \in Away <=> term[t].recovery \in {"armed", "fired"})
                    \/ term[t].peer = "closed"

\* When Signal returns from a close, the terminal is gone, even if another
\* goroutine was closing it at the time.
CloseSignalIsDone ==
    ctl.at = "idle" /\ ctl.kind = "close" =>
        /\ Lookup(ctl.id) = 0
        /\ \A t \in Opened : term[t].id = ctl.id => term[t].pty # "open" /\ term[t].dc # "open"

\* The manager implements TerminalLease: ids are leased to one terminal after
\* another, a terminal starts its only shell while it has its id, and the id
\* is free again only when the terminal has let its shell go, whoever closes
\* the terminal and whenever the id is opened again.
LeaseOfIds == INSTANCE TerminalLease WITH
    owner <- registry, latest <- made,
    holds <- {t \in Opened : term[t].pty = "open"},
    spent <- {t \in Opened : term[t].pty # "none"}

ImplementsLease == LeaseOfIds!Spec

----------------------------------------------------------------------------
(* Liveness.                                                               *)

\* Whoever wants a terminal closed, it is closed and reported in the end.
CloseCompletes ==
    \A t \in Terminals : term[t].wanted ~> term[t].closing = "reported"

\* A peer connection that does not come back takes its terminal with it. One
\* that has failed waits for the same deadline as one that is disconnected.
LostPeerIsClosed ==
    \A t \in Terminals :
        term[t].peer \in Away \cup {"closed"}
            ~> term[t].peer = "connected" \/ term[t].closing = "reported"

\* CloseAll returns.
CloseAllReturns == quit.at = "closing" ~> quit.at = "done"

=============================================================================
