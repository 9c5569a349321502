# A TLA+ model of the Hopty agent

The Hopty agent is a Linux daemon that lets the owner of a host open terminals
on it from a browser. It keeps one control WebSocket to a service, pairs the
host with the owner's passkey on request of a local command line, and for each
terminal that the service announces makes a WebRTC peer connection to the
browser, starts a shell on a PTY and carries its bytes. This directory holds a
specification of it in TLA+, the TLC configurations that check it and the proofs
that TLAPS checks.

Source references are relative to the repository (`src/...` in `PROJECT.json`).

## 1. The system

| part | code | state | operations |
|---|---|---|---|
| control session | `internal/control/session.go`, `pairing.go`, `status.go` | the WebSocket; `writeMu`; channels `responses` (4) and `events` (16) | `Run` reads and sorts into the channels, `Ping`, `Send`, `request` (write, then wait for an answer), `CloseNow` |
| handshake | `internal/control/client.go` | none | `Connect`: hello, challenge, proof, ready |
| daemon | `internal/agent/daemon.go` | `connected`, `paired`, `pairingVerified` under `stateMu`; `connection` under `controlMu`; `agent.lock`, `agent.sock` | `runControl`, `handleControlEvent`; `status`, `createPairing`, `cancelPairing`, `revoke`; `Start`, `Run`, `Close` |
| terminal manager | `internal/terminal/terminal.go` | the map of terminals; of each `pc`, `dc`, `pty`, `closed`, `closeOnce`, `recovery` | `Open`, `Signal`, callbacks of the peer connection, the recovery timer, the shell's exit, `close`, `CloseAll`, `ActiveIDs` |
| signalling of a terminal | the same file, `offer` and `localCandidate` | `answerSent`, `localCandidates` | an offer is answered, candidates trickle |
| data channel of a terminal | the same file, `message` and `copyOutput` | none | frames to the PTY and from it |
| local API | `internal/localapi/localapi.go` | none | length-prefixed JSON over a Unix socket |
| identity | `internal/identity/identity.go` | `identity.key` | `LoadOrCreate` |
| configuration | `internal/config/config.go` | `config.toml`, read once | `Load` |
| command line | `cmd/hopty/main.go` | `agent.pid` | `agent`, `pair [--wait]`, `pair --cancel`, `status`, `revoke`, `uninstall` |
| upgrade | `cmd/hopty/upgrade.go`, `install/install.sh` | the binary, the systemd unit | fetch, verify, replace, restart |
| protocol codec | `internal/protocol/protocol.go` | none | strict envelope and frame parsers, imported by nothing else in the repository |

How they interact: `runControl` is one goroutine. It connects, starts the reader
(`Session.Run`) and the keepalive, publishes the session in `d.connection`,
announces the active terminals, handles events one at a time and retires the
session when the reader returns. Each client of the Unix socket is a goroutine
that reads `d.connection` and makes a request on it. Each terminal has a dozen
goroutines (callbacks, timer, shell) that report through the `send` function,
which also takes `controlMu`. Agents that are started by hand, by the installer
and by systemd, and the tools that replace or remove them, meet in the files of
one directory.

What is hard: sessions die at any moment and are replaced while requests,
reports and pings are under way; `controlMu` and `writeMu` are held over network
waits; the reader blocks on bounded channels; an answer is matched by its order
and type only; a terminal is closed by many goroutines at once while its id may
be opened again; reports are lost with a connection and made up for by the next;
a local call gives up before the request it stands for; processes crash between
the files they write. `PROJECT.json` lists each hazard at its line with the
properties about it.

## 2. Modules

| module | models | theorems |
|---|---|---|
| `Session` | the control session, its reader and keepalive; the service and the network | |
| `Daemon` | extends `Session`: `runControl`, the local commands, terminal reports, `Cancel` | |
| `ControlLink` | what the daemon promises about its link: one after another, used by one at a time, withdrawn only when unused | |
| `DaemonRefinement` | the mapping of `Daemon` to `ControlLink` | |
| `Terminal` | the registry and the life of terminals | |
| `TerminalLease` | what the manager promises about ids: leased to one terminal after another, one shell each, free again when the shell was let go | |
| `Signaling` | answers and local candidates of one terminal | |
| `Frames` | the frames of a data channel, and the codec of `internal/protocol` | |
| `Resync` | terminals, connections and the leases of the service composed | |
| `Cli` | `pair`, `pair --cancel`, `revoke`, `uninstall` through the local API to the service and the browser | |
| `Host` | agent processes, systemd, installer and uninstaller over one directory | |
| `SessionProofs`, `DaemonProofs` | lemmas about the session's queues; the inductive invariants of the daemon; `Daemon` implements `ControlLink`; outages last, and the end is quiet | 10 |
| `TerminalProofs` | the inductive invariant of `Terminal`, the recovery timer, the shutdown; `Terminal` implements `TerminalLease` | 8 |
| `SignalingProofs` | the order and the one place of candidates; none is left behind | 5 |
| `ResyncProofs` | the leases of live and of stale terminals | 4 |
| `CliProofs` | what commands believe and report | 4 |
| `HostProofs` | agents, files and tools; the life of identity.key | 8 |
| `FramesProofs` | what the two parsers accept, sizes, output | 4 |
| `MCDaemon`, `MCTerminal` | symmetry sets for TLC | |

One state machine with everything in it could be neither checked nor read, so
each module has the detail its properties need, and what another module has in
detail is a step of it: a session's channels are steps of `Daemon` and counted
sequences in `Cli`; a close is four steps in `Terminal` and two in `Resync`; the
handshake is four steps in `Resync` and one in `Daemon`; `Daemon.Close` is
`Terminal`'s `CloseAll` and `Daemon`'s `Cancel`, and a step in `Host`.

### Session and Daemon

The state of the session is a function of the connection, so that the goroutines
of an old session are still there while a new one is in use. `link` is the socket:
`lost` when the network or the far end is gone and this side does not know,
`closed` after `CloseNow`. `reader`, `hold`, `keepalive` are the program counters
of the goroutines. `ReadEnvelope`, `PushEvent`, `PushResponse`, `PushCancelled`
and `ReadFails` are the paths through `Run`. `writeMu` is not a variable: a write
takes and releases it in one step, a ping holds it while it is out, so it is free
exactly when `keepalive` is not `pinging`. A pong is only seen by a goroutine that
is inside `Read`, hence the guard of `PongArrives`: that is how the WebSocket
library the code uses works, and it matters when the reader is blocked.

An envelope is a kind and a number. For an answer the number is the `request_id`
of the request it answers. The code never looks at it; the model carries it for
the properties. Payloads are left out; an answer whose payload is not what the
command expects is a `Rejects` step, which may take any answer.

`Daemon` has one action for each line of `runControl` that another goroutine can
come between. Critical sections of `stateMu`, and those of `controlMu` that do not
wait, are one step. `createPairing`, `cancelPairing` and `send` hold `controlMu`
over a network wait; for those `controlMu` names the holder. `status` and `revoke`
copy `d.connection` and let go, so `via` may be an old session. `rid`, `got`,
`handled` and `mixed` are history: no guard of the code's steps reads them.

`ControlLink` has `Connect`, `Publish`, `Enter`, `Leave`, `Withdraw`. The mapping
takes `cur` for the number of the link, `controlMu` for its exclusive user, and
derives the phase from `conn` and `ctl`. A `Withdraw` while somebody is inside, or
a `Publish` of an old link, would be a step that `ControlLink` does not allow.

### Terminal and TerminalLease

A terminal is an object with a number; its id may be used again after its close.
`wanted` says that some goroutine has called `close`, `closing` where the body of
`closeOnce` is; callers that must wait (`Signal`, `CloseAll`) wait for `reported`.
`snapshot` are the handles that `close` saw under the mutex, which are the ones it
closes. State changes of the peer connection are queued in `notes`, each with a
goroutine of its own: with `InOrder = FALSE` their handlers run in any order.

`LeaseOfIds` maps the registry to the owner of an id and the open PTYs to the
shells that are held. That a terminal takes its shell only while it has its id,
and gives its id up only after its shell, is what `closed` under the mutex and the
order of the lines of `close` are for.

### Signaling and Frames

`Signaling` is one terminal. `answerSent` and `localCandidates` change under its
mutex (`OfferArrives`, `MarkAnswered`, `Wait`, `GoAhead`); the sends are outside
it. `Terminal` has the whole exchange as one step, `OfferAnswers`.

`Frames` has a message as a sequence of bytes, and `message` as two steps with the
mutex between them. `DecodeFrame` and `EncodeResize` of `internal/protocol`, which
the agent does not import, stand for the browser and for the reference.

### Resync

`runControl` from the dial to the withdrawal, terminals that are registered,
deleted or reported, and the service's lease of each id. `Follows` is the order of
the steps after the handshake, a definition of its own because that order is what
the properties are about. The service is external: it leases an id once, and when
it reads `agent.active_terminals` it gives up the leases of earlier connections
that the announcement leaves out; a lease of the same connection may be one whose
`terminal.open` is still under way. A report may be late: its 5 s begin before it
waits for `controlMu`.

### Cli

Each of `Clients` runs one command. `client` is the process, `call` its handler in
the agent, which goes on when the client has given up. A request that times out
takes 10 s, so its client, whose call has 5 s, reads EOF: `TimesOut` replies
`dead`. `agent.responses` is the shared channel of each session, `Takes` takes its
head whatever it is. `verified`, `event` and `anew` record what a client was last
told and whether an event arrived since its pairing began.

### Host

A process is a slot with a program counter through `LoadOrCreate`, `Start`,
`runAgent` and the way out. `disk` has the files; `agent.sock` and `agent.pid` are
the process they lead to, `agent.lock` the process that has it. `Ends` is the end
of a process whatever its cause: the kernel releases the lock and leaves the
files. `unit` is what systemd does with the unit that `install.sh` writes. `tool`
is what the user runs: an install or an upgrade (which runs the installer), or an
uninstallation.

### Mutants

An operator whose comment begins with "Mutant of" is not part of the model. It is
the definition after it with a plausible mistake. `PROJECT.json` names, for each
property, the mutant that must violate it: a property that no mistake in the
code can break says nothing.

## 3. Runs

| run | instance | distinct states | shows |
|---|---|---|---|
| `daemon_safety` | 2 connections, 2 clients (`pair`, `revoke`), 1 reporter, 2 requests | 2.4 M | one live connection; the published one is live and connected; a pairing command keeps its session and gets its own answer; refinement of `ControlLink` |
| `daemon_live` | 1 connection, channels of 1, 2 unasked messages of 3 kinds, 1 client (`pair`, `status`), backoff limit 2 | 0.1 M | commands end, events are unbroken through a full channel, dead links are retired, `controlMu` is released, shutdown completes |
| `terminal_reuse` | 2 ids, 2 terminals | 0.3 M | close from all sides with an id in use again; refinement of `TerminalLease` |
| `terminal_life` | 1 terminal, 3 state changes | 0.2 M | the deadline follows the peer; closes complete, lost peers are closed, `CloseAll` returns |
| `signaling` | 3 offers, 2 candidates each | 0.1 M | answers before candidates, once, none left behind |
| `resync` | 2 terminals, 3 connections | 0.5 M | leases and terminals agree when everything was read; no live terminal loses its lease; stale leases end |
| `host` | 3 processes, 1 crash, 2 versions | 0.1 M | one identity; the agent that runs is reachable; upgrades and uninstallations; a crash is made good |
| `cli` | 2 commands, 2 connections, 2 pairings | 0.7 M | what is told is what happened; every command ends |
| `frames` | frames at every boundary, resizes over 4 byte values and 6 sizes | 0.2 M | the two parsers agree; a size arrives as it was asked; output fits its frames |
| `wedged_reader` | the real capacities 4 and 16, 6 unasked messages | | violation, finding 1 |
| `resync_revoked` | 1 terminal, 2 connections | | violation, finding 2 |
| `uninstall_revoked` | 1 command, 2 connections | | violation, finding 3 |

Bounds, and why they are enough for these questions:

- `Conns`: two connections are what a stale `via`, a late ping failure or a wrong
  order of publication needs; the proofs cover any number. `MaxConns` of `Resync`:
  three, for a report lost with the first and an announcement lost with the second;
  the last one stays up. Of `Cli`: two, one to lose and one to come back.
- `ResponsesCap`, `EventsCap`: 1 makes a channel fill after one message; the code's
  4 and 16 are used where the finding depends on them.
- `MaxSent`: one more than the channel can hold; in `wedged_reader` one more than
  channel and reader hold between them.
- `MaxRequests`: two, for one request to be answered late and another to be hit by
  it. `Handlers`, `Clients`: two, for one to hold `controlMu` and another to wait.
  `MaxUnread`: a poll is not made while an answer is under way, or polls alone would
  fill the channel. `MaxPairings`: two, for the event of one to meet the other.
- `BackoffLimit`: 1 (no doubling) where the backoff does not matter, 2 where it is
  doubled past its limit; the proof covers 30.
- `MaxTerminals`, `Terminals`: two, under one id to reuse it, under two to confuse
  them. `MaxChanges`: three gives disconnected, connected, disconnected.
- `MaxOffers`, `MaxCandidates`: three negotiations and two candidates give a
  candidate of each of two negotiations around a third.
- `Procs`: three agents: one that runs, one that starts in its place and one that
  was started beside them; slots are used again. `MaxCrashes`: one, at any step.
- `Bytes`, `Sizes`: both bytes of 1000 and 1001 and the ends of the range.
  `MaxFrame`: the code's 64 KiB scaled down; only `MaxFrame - 1`, `MaxFrame` and the
  lengths below matter.

Symmetry is used in `daemon_safety` (handlers) and `terminal_reuse` (ids), which
are told apart by nothing but their names; both runs check safety only. Deadlock is
not checked in any run: the daemon stops after a signal, commands are run once, a
terminal's model ends when its bounds are used up, and liveness properties say what
must not hang.

### Fairness

- Goroutines run (weak fairness). A Go mutex hands itself over to a waiter it has
  starved for a millisecond, so what waits for `controlMu` or `writeMu` is strongly
  fair (`Daemon`, and `RunControl` and the reports in `Resync`).
- Timeouts fire: a request ends after 3 or 10 s, a ping after 10 s, the recovery
  timer after 10 s, a backoff after its seconds. A read on a link that is lost need
  not fail before the socket is closed (`SessionFairness`): it is the keepalive that
  must find out.
- `Cli`: `GivesUp` is strongly fair, because the 35 s of `request` and the two
  minutes of a pairing pass while the command is in and out of its sleep.
- `Host`: the installer and the uninstaller do not stop halfway, since each of their
  waits is limited, and systemd restarts what failed. Nobody has to run them.
- `Resync`: the service answers a handshake and reads what arrives, and the last
  connection stays up. Without that nothing could ever be agreed.
- Nothing else is assumed of the service, the network, the browser or the shell, nor
  in `Daemon` that a dial returns before its context is cancelled; `Connect` has no
  timeout of its own.

### What some properties leave out

The exceptions are part of what was found out. `LeasesSettle` and `StaleLeaseEnds`
do not hold of a report that was late on a connection that stayed up
(terminal.go:337): the lease stays until the next connection. `PairedIsCurrent` does
not hold when an `agent.paired` event or a reconnection crosses a revocation
(daemon.go:206), or its answer was missed, until the next connection.
`UpgradeTakesEffect` does not hold of an agent that the chosen way of restarting
does not reach: `systemctl restart` succeeds beside an agent that was started with
`nohup`, which keeps the lock and answers `hopty status` with the old version
(install.sh:85). `UninstallStopsAll` does not hold of a unit that waits for its
restart: it is not active, so it is only disabled (main.go:299). `SupervisedAgentRuns`
does not hold after a crash between the creation and the writing of `identity.key`.
`DeadLinkIsRetired` does not hold of a wedged reader. `ConfirmedAnew` says that an
event was handled since the command began, not that it was of its own pairing: the
event names none. `DeadlineFollowsPeer` needs states to be handled in order.

### Findings

1. `pairing.state`, which the service sends unasked (protocol-v1.md:175), goes to
   `responses` (session.go:46). Nothing drains it but a request. The fifth one
   blocks the reader. Pings then fail for want of a reader and close the socket,
   but `Run` does not return, `readErr` stays silent and `runControl` never
   connects again until the process is restarted; `status` still says connected.
2. The documented `terminal.close` has no `kind`; the code hands it to `Signal`,
   which refuses it (daemon.go:350). Nor does the agent read an answer to its
   announcement. Terminals survive a revocation (protocol-v1.md:243).
3. `uninstall` (main.go:255) goes on for every error that says "agent is not
   running", which is also what `request` says of a reply that did not come in 5 s.
   The files are removed and the passkey is still good (README.md:31).

Also met, without a run of their own:

- `request` (session.go:91) takes the oldest response whatever its `request_id`;
  protocol-v1.md:24 says that the id correlates. After a request that timed out the
  next one of that type gets its answer, one of another type an error.
  `SerialAnswersAreOwn` and `RevokedAsTold` state what does hold.
- The select in `runControl` (daemon.go:295) may take the read error before events
  already buffered, which are dropped with the session.
- `close` hangs the shell up and does not kill it (terminal.go:326;
  protocol-v1.md:408); a failed peer connection gets the recovery window although
  the document says at once (terminal.go:299).
- The agent sends no exit frame (0x03) when the shell ends, and rejects the error
  frame (0x04) of a browser (terminal.go:293), which the frame table of
  protocol-v1.md has in both directions.

## 4. Proofs

The theorems hold for every value of the constants that the named assumption of
the module allows; the assumptions only say what the constants are (numbers,
that a mark such as `NoId` is not one of the things it marks the absence of, that
the backoff limit is from 1 to 30). In each module one invariant is inductive; the
properties follow from it. Each was an invariant of the run of its module (and the
module's own instance) in TLC before it was proved. Seven theorems (`OutagesLast`,
`NothingOutlivesRunControl`, `CloseAllMissesNone`, `NobodyWaitsForASentAnswer`,
`CandidatesDoNotVanish`, `IdentityIsKept`, `TornKeyIsForEver`) state properties that
are in the proof modules only: they are the safety steps of what the runs check as
liveness, or what a hazard or a finding
comes to for every value of the constants. TLC found
them to hold on the instances of the runs first, but no run repeats that.

### Daemon

| theorem | says |
|---|---|
| `DaemonInvariant` | `Spec => []DaemonInv` |
| `DaemonTypes` | type correctness, the backoff at most 32 s included |
| `OneLiveConnection` | a superseded connection is closed and its keepalive has ended |
| `PublishedConnection` | the published connection is the latest, and the agent connected |
| `PairingSession` | a pairing command holds `controlMu` and its session till it replies |
| `DaemonImplementsControlLink` | the daemon refines `ControlLink` (safety) |
| `EventsArriveInOrder` | on a connection no event is lost, doubled or overtaken before its queue was found full |
| `PairingAnswersAreOwn` | a pairing command gets its own answer, if nothing was abandoned, written without `controlMu` or sent unasked |
| `OutagesLast` | a reader that waits for room in `responses` of a dead link keeps it published until the agent is told to stop |
| `NothingOutlivesRunControl` | when `runControl` has returned nothing is published, open or kept alive |

None of the properties is inductive: that a superseded connection is closed
follows only from how far `runControl` had come when it dialled again. `DaemonInv`
adds: which connections have been opened (`ConnectionsAreOpenedInOrder`), how far
the current one is taken down in each phase (`TakenDown`), what is published in
each phase (`PublishedByPhase`), who is inside `controlMu` and that nobody is while
nothing is published (`ControlMutex`), and that requests use opened sessions
(`RequestsUseOpenedSessions`). The proof has a lemma for each group of actions and
in it a step for each conjunct; the lemmas about sequences are in `SessionProofs`.

The last two need an invariant each, which is inductive beside `DaemonInv`.
`EventsInv` says of each connection where its events are: on the wire, in the hand
of the reader, in the channel, handled. No step looks into the middle of a queue,
so the proof does not follow single events: it uses the set of the numbers in a queue
and that they rise, and how both change when the head is taken or a message is
appended. `SerialInv` says that a request is with the service or answered and never
both, and that whoever has one out holds `controlMu`; hence there is at most one, and
an answer in `responses` is its own. A handler that gives up breaks this, which is
why the property excludes it.

`OutagesLast` is the other half of a finding: the runs show that the state is
reached with small channels, the theorem that no step leads out of it, whatever the
capacity. The reader waits for room that only a request or `close` makes, `close` comes
after the reader has ended, and no request is out. So `runControl`, which waits for the
reader, is not getting on (`OutageOfSession`, `OutageOfCommands`, `OutageOfLoop` go
through the goroutines). `NothingOutlivesRunControl` is what `TakenDown` says of the
last phase.

The refinement needs the same invariant:
without `PublishedByPhase` a `Publish` could be of an old link, without
`ControlMutex` a `Withdraw` could come while somebody is inside.

### Terminal

| theorem | says |
|---|---|
| `TerminalInvariant`, `Typing` | `Spec => []TerminalInv`; type correctness |
| `RegistryExact` | a terminal is in the map exactly until `close` deletes it |
| `NothingBehindTheSnapshot` | nothing that was stored beside a `close` stays open after it |
| `CloseSignalMeansGone` | when the handler of `terminal.close` returns, id and handles are free |
| `DeadlineAgrees` | the recovery timer runs exactly while the peer is away |
| `CloseAllMissesNone` | what was open when `CloseAll` began has let go of everything when it returns |
| `ManagerImplementsLease` | `Terminal` refines `TerminalLease` (safety) |

A step changes one terminal, so the type lemmas say of each action which fields of
which record it changes, and the rest of the proof uses that equation only.
`Handles` says in which order a terminal acquires its handles and, at
`closing = "begun"`, that the snapshot has all of them: that is what the closed flag
under the mutex is for, and `ClosedHoldsNothing` is not inductive without it.
`PeerIsSeen` is why no peer connection is missed: before a shutdown only the control
goroutine closes a terminal that has none, and it cannot be in `offer` as well.
`ControlKnows` carries what was looked up over the wait in `close`. `DeadlineInv` is
an invariant of its own: the last note in the queue tells the peer's state. For
`CloseAll` it is enough to follow one terminal (`Accounted`): it is found in the map,
by `RegistryExact`, or deleted already, leaves the list only when it is reported, and
no goroutine undoes a close (`StaysDeleted`). The
mapping to `TerminalLease` maps every step to a step of it or a stutter from
`TerminalInv`: a shell is held only while the id is.

### Signaling

| theorem | says |
|---|---|
| `SignalingInvariant` | `Spec => []SignalingInv` |
| `CandidatesFollowTheirAnswer` | no candidate goes out before the answer of its negotiation |
| `CandidatesGoOutOnce` | a candidate is in one place at a time, on the wire once |
| `NobodyWaitsForASentAnswer` | after the answer no candidate waits for a flush that has been |
| `CandidatesDoNotVanish` | a candidate goes only from one place to the next, or with an offer that is replaced |

`Cleared` says for which candidates an answer is already on the wire: those being
flushed, and the one in the hand of a callback that read `answerSent`. That one is of
an offer that arrived before the flag was set, so the answer to the latest offer
covers it. For the second property a candidate is in one of five places with a
position (`OnePlace`), and the number of one that is gathered is new (`Known`).
`NobodyWaitsForASentAnswer` is inductive by itself: the flag and the list change
together under the mutex. It is why the step that takes the list for the flush leaves
nothing behind, and with it no step makes a candidate vanish but a new offer.

### Resync

| theorem | says |
|---|---|
| `ResyncInvariant`, `ResyncTypes` | `Spec => []ResyncInv`; type correctness |
| `LiveTerminalsKeepTheirLease` | no report or announcement ends the lease of a live terminal |
| `OpenLeasesAreLive` | when everything was read, an open lease has a terminal |

`LeasesSettle` speaks of the states in which nothing is under way. To be inductive
it must say of every state what will end a stale lease: `Pending` lists it (a close
report or an announcement under way, one still to be made without the id, or a new
connection). `Live` says why none of those hits a live terminal: a report is of one
that is gone, an announcement leaves out only what was opened on its own connection.
The order of the messages is not used.

### Cli

| theorem | says |
|---|---|
| `CliInvariant` | `Spec => []CliInv` |
| `PairedStateIsCurrent` | the agent believes paired what the service has, once all was read |
| `ConfirmationsAreNew` | `pair --wait` confirms after an event of its own time |
| `RevocationsAreReal` | no more commands report a revocation than there were revocations |

The difficulty is that an answer is taken by whoever waits. `Matched` says that while
the connection is served each revocation under way, asked or answered, can be
given a handler of its own that waits for it, so none takes effect without a handler
that then clears `paired`; `Truth` needs that. `Receipts` numbers the revocations of
the service and gives each command that reports one, and each answer that nobody
has read, a number of its own: swapped answers exchange numbers. Both are injections
between finite sets; the bound on the cardinality follows from the library's theorem
about them.

### Host

| theorem | says |
|---|---|
| `HostInvariant`, `HostTypes` | `Spec => []HostInv`; type correctness |
| `AgentsShareOneIdentity` | agents that start together have one key, the one on disk |
| `RunningAgentIsReachable` | socket and pid file lead to the agent that runs |
| `UpgradesTakeEffect` | the installer's answer is of the new version |
| `NothingSurvivesUninstall` | after an uninstallation no agent is left |
| `IdentityIsKept` | a whole `identity.key` never changes before the uninstallation |
| `TornKeyIsForEver` | an empty one stays empty, and no agent gets past it |

`Processes` is about agents alone: `OneWriter` (the key file is empty exactly while
its one creator writes it), `LockIsHeld` and `FilesLead` (socket and pid file are
written only under the lock). `Tools` says what a tool may take for granted at each of
its steps: at `restart` no agent runs but those of the unit, and after it those that
have the old version are the ones it is about to stop (`OnlyNew`); at `scan` every
agent that is not doomed is one of the unit (`OnlyUnits`). Most steps start no process,
and `NoneStarts` is the one reason why they keep all of this.

The file is created exclusively, so a step that writes to it is of the one process
that created it (`KeySteps`), and a writer comes up only where there was no file
(`NoWriterAppears`). Both theorems follow; the second says what a crash
between creation and write costs: no restart repairs it.

### Frames

| theorem | says |
|---|---|
| `FramesInvariant` | `Spec => []FramesInv` |
| `OneProtocol` | `message` acts on exactly what `DecodeFrame` accepts in this direction |
| `SizesSurvive` | a resize that `EncodeResize` encoded gives the PTY just that size |
| `OutputIsWhole` | output fits its frames and none is missing until the close |

`FramesInv` adds that a frame on which `message` acts was found not to be empty, not a
text and not too long (`Admitted`), and where the output is (`OutputInv`). The lemmas
`Encoded` and `Arguments` are about bytes: that a number is read back from the two it is
written as, and that the agent and `DecodeFrame`, which cut the arguments
of a resize out at different places, read the same two numbers.

### Only model-checked

All liveness, `ImplementsFairControlLink` included: fairness and `ENABLED` are out of
reach of the prover. Every safety property that a run checks has a theorem.

## 5. Not modelled

- A write that blocks on a socket whose buffers are full while it holds `writeMu`:
  writes here end at once. The write in `request` has the context of the command,
  so it ends with it; one of a terminal report without a deadline could keep a
  ping from starting.
- JSON, in the local API as in the protocol: `DecodeEnvelope`, `DecodePayload` and
  the framing of `localapi` validate their input and keep no state.
- Fetching and verifying an installer (`upgrade.go`, `install.sh` up to the `mv`):
  sequential checks of input, any failure of which leaves everything as it was.
- `config.Load` and `pairingIdentity` only read; `status` formatting, the flags and
  the edits of shell profiles are not about a property here.
- The shell itself: what it does with a hang-up, and output after its exit.
- Signatures: a handshake may fail at any of its steps.

## 6. Plan

Done, in this order: `Session`, `Daemon`, `ControlLink` and the mapping, `Terminal`,
`Signaling`; the proofs of `Daemon` and of the refinement; `TerminalLease`,
`Resync`, `Host`, `Cli`, `Frames`.

The proofs of the other modules followed, each invariant checked by TLC first:
`TerminalProofs` with the refinement of `TerminalLease`, `HostProofs`,
`SignalingProofs`, `ResyncProofs`, `CliProofs`, `EventsInv` and `SerialInv` of
`Daemon`, and `FramesProofs`.

Then the safety half of liveness: that an outage lasts, that nothing is left when
`runControl` or `CloseAll` has returned, that no candidate is stranded or vanishes,
that `identity.key` is kept, torn or whole.

What is left is liveness itself, which stays with TLC.

## 7. Running

    tlc -config MCDaemonSafety.cfg MCDaemon.tla
    tlapm DaemonProofs.tla

`PROJECT.json` lists the module and configuration of every run, and maps each
definition to the lines it models.
