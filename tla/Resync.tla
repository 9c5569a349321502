------------------------------- MODULE Resync -------------------------------
(***************************************************************************)
(* The terminals of the agent against the leases of the service, over      *)
(* control connections that come and go: the handshake (control.Connect),  *)
(* the part of runControl that publishes a connection and announces the    *)
(* active terminals, the events that open and close terminals, and the     *)
(* close reports, which wait for controlMu behind a pairing command.       *)
(*                                                                         *)
(* Terminal and Session have the details of a close and of a session; here *)
(* a terminal is in the registry or not, its report made or not.  The      *)
(* service is modelled from the messages the code exchanges with it: it    *)
(* leases a terminal id once, and on an announcement gives up the leases   *)
(* of earlier connections that are not in it.                              *)
(***************************************************************************)
EXTENDS Naturals, Sequences

CONSTANTS
    Terminals,  \* terminal ids; an id is leased once
    MaxConns    \* bound: the connections that are dialled; the last one stays up

ASSUME ResyncAssumption == MaxConns \in Nat \ {0}

VARIABLES
    loop,       \* runControl: at backoff; hello, challenge, ready (in Connect);
                \*   publish, snapshot, announce, serve, closing (in Signal), stop,
                \*   withdraw.  The number of its connection; the sockets it has open;
                \*   whether d.connection is published; the argument of the
                \*   announcement; the terminals that Signal waits for
    pairing,    \* a pairing command holds controlMu while it waits for the service
    local,      \* per terminal: none; live (registered); deleted (its close report
                \*   waits for the mutexes), late (and its 5 s are over); gone, or
                \*   silent (its late report failed on a connection that stayed up)
    net,        \* the latest connection: is it up, what is under way on it; toAgent
                \*   holds what the reader has buffered as well
    svc         \* the service: the connection it has authenticated, 0 for none, and
                \*   per terminal its lease (none, open, ended, revoked by the service)
                \*   and the connection it was given on

vars == <<loop, pairing, local, net, svc>>

ActiveIDs == {t \in Terminals : local[t] = "live"}

Message(kind, ids) == [kind |-> kind, ids |-> ids]
Connecting == loop.at \in {"hello", "challenge", "ready"}
Usable == net.up /\ loop.conn \in loop.sockets

\* A message written on a connection that is lost goes nowhere.
Writes(kind, ids) ==
    net' = IF Usable THEN [net EXCEPT !.toService = Append(@, Message(kind, ids))] ELSE net
ServiceWrites(kind, ids) ==
    net' = IF net.up THEN [net EXCEPT !.toAgent = Append(@, Message(kind, ids))] ELSE net

Messages ==
    [kind : {"hello", "challenge", "prove", "ready", "active", "closed", "open", "stop",
             "terminal.close"},
     ids : SUBSET Terminals]

TypeOK ==
    /\ loop \in [at : {"backoff", "hello", "challenge", "ready", "publish", "snapshot",
                       "announce", "serve", "closing", "stop", "withdraw"},
                 conn : 0..MaxConns, sockets : SUBSET (1..MaxConns), published : BOOLEAN,
                 snapshot : SUBSET Terminals, target : SUBSET Terminals]
    /\ loop.sockets = IF loop.at \in {"backoff", "withdraw"} THEN {} ELSE {loop.conn}
    /\ loop.target # {} <=> loop.at = "closing"
    /\ loop.published <=> loop.at \in {"snapshot", "announce", "serve", "closing", "stop",
                                       "withdraw"}
    /\ pairing \in BOOLEAN
    /\ local \in [Terminals -> {"none", "live", "deleted", "late", "gone", "silent"}]
    /\ net \in [up : BOOLEAN, toService : Seq(Messages), toAgent : Seq(Messages)]
    /\ svc \in [accepted : {0, loop.conn},
                lease : [Terminals -> {"none", "open", "ended", "revoked"}],
                since : [Terminals -> 0..loop.conn]]

Init ==
    /\ loop = [at |-> "backoff", conn |-> 0, sockets |-> {}, published |-> FALSE,
               snapshot |-> {}, target |-> {}]
    /\ pairing = FALSE
    /\ local = [t \in Terminals |-> "none"]
    /\ net = [up |-> FALSE, toService |-> <<>>, toAgent |-> <<>>]
    /\ svc = [accepted |-> 0, lease |-> [t \in Terminals |-> "none"],
              since |-> [t \in Terminals |-> 0]]

----------------------------------------------------------------------------
(* Connect.                                                                *)

Dial ==
    /\ loop.at = "backoff" /\ loop.conn < MaxConns
    /\ loop' = [loop EXCEPT !.at = "hello", !.conn = @ + 1, !.sockets = @ \cup {loop.conn + 1}]
    /\ net' = [up |-> TRUE, toService |-> <<>>, toAgent |-> <<>>]
    /\ svc' = [svc EXCEPT !.accepted = 0]

Hello ==
    /\ loop.at = "hello"
    /\ loop' = [loop EXCEPT !.at = "challenge"]
    /\ Writes("hello", {})
    /\ UNCHANGED svc

\* The agent reads a message of the service while it is at a step.
Reads(step, kind) ==
    /\ loop.at = step
    /\ net.toAgent # <<>> /\ Head(net.toAgent).kind = kind

Prove ==
    /\ Reads("challenge", "challenge")
    /\ loop' = [loop EXCEPT !.at = "ready"]
    /\ net' = [net EXCEPT !.toAgent = Tail(@),
                          !.toService = IF Usable THEN Append(@, Message("prove", {})) ELSE @]
    /\ UNCHANGED svc

\* Mutants of Follows: the snapshot is taken before the session is published;
\* it is not taken again.
FollowsUnpublished(step) ==
    [ready |-> "snapshot", snapshot |-> "publish", publish |-> "announce"][step]

FollowsCached(step) == [ready |-> "publish", publish |-> "announce"][step]

\* The order of the steps of runControl after Connect.
Follows(step) == [ready |-> "publish", publish |-> "snapshot", snapshot |-> "announce"][step]

Ready ==
    /\ Reads("ready", "ready")
    /\ loop' = [loop EXCEPT !.at = Follows("ready")]
    /\ net' = [net EXCEPT !.toAgent = Tail(@)]
    /\ UNCHANGED svc

\* Mutant of HandshakeFails: fail does not close the socket.
HandshakeFailsOpen ==
    /\ Connecting /\ loop.conn < MaxConns
    /\ loop' = [loop EXCEPT !.at = "backoff"]
    /\ UNCHANGED <<net, svc>>

\* A write or a read fails, or the service says something unexpected.
HandshakeFails ==
    /\ Connecting /\ loop.conn < MaxConns
    /\ loop' = [loop EXCEPT !.at = "backoff", !.sockets = @ \ {loop.conn}]
    /\ UNCHANGED <<net, svc>>

Connect == /\ Dial \/ Hello \/ Prove \/ Ready \/ HandshakeFails
           /\ UNCHANGED <<pairing, local>>

----------------------------------------------------------------------------
(* runControl with a connection.                                           *)

Publish ==
    /\ loop.at = "publish" /\ ~pairing
    /\ loop' = [loop EXCEPT !.at = Follows("publish"), !.published = TRUE]
    /\ UNCHANGED <<local, net>>

\* The argument of the announcement is evaluated before Send takes writeMu.
Snapshot ==
    /\ loop.at = "snapshot"
    /\ loop' = [loop EXCEPT !.at = Follows("snapshot"), !.snapshot = ActiveIDs]
    /\ UNCHANGED <<local, net>>

Announce ==
    /\ loop.at = "announce"
    /\ loop' = [loop EXCEPT !.at = "serve"]
    /\ Writes("active", loop.snapshot)
    /\ UNCHANGED local

\* terminal.open registers a terminal; a close signal makes Signal close it,
\* and wait for the close to be reported; terminal.close does nothing.
HandleEvent ==
    /\ loop.at = "serve" /\ net.toAgent # <<>>
    /\ net' = [net EXCEPT !.toAgent = Tail(@)]
    /\ LET m == Head(net.toAgent)
           hit == {t \in m.ids : local[t] = "live"}
       IN \/ /\ m.kind = "open"
             /\ local' = [t \in Terminals |-> IF t \in m.ids /\ local[t] = "none"
                                              THEN "live" ELSE local[t]]
             /\ UNCHANGED loop
          \/ /\ m.kind = "stop"
             /\ local' = [t \in Terminals |-> IF t \in hit THEN "deleted" ELSE local[t]]
             /\ loop' = IF hit = {} THEN loop ELSE [loop EXCEPT !.at = "closing", !.target = hit]
          \/ /\ m.kind = "terminal.close"
             /\ UNCHANGED <<local, loop>>

SignalReturns ==
    /\ loop.at = "closing"
    /\ \A t \in loop.target : local[t] \in {"gone", "silent"}
    /\ loop' = [loop EXCEPT !.at = "serve", !.target = {}]
    /\ UNCHANGED <<local, net>>

\* The error of Run is taken; what is still buffered is dropped.
ServeEnds ==
    /\ loop.at = "serve" /\ ~net.up
    /\ loop' = [loop EXCEPT !.at = "stop"]
    /\ net' = [net EXCEPT !.toAgent = <<>>]
    /\ UNCHANGED local

Stop ==
    /\ loop.at = "stop"
    /\ loop' = [loop EXCEPT !.at = "withdraw", !.sockets = @ \ {loop.conn}]
    /\ UNCHANGED <<local, net>>

Withdraw ==
    /\ loop.at = "withdraw" /\ ~pairing
    /\ loop' = [loop EXCEPT !.at = "backoff", !.published = FALSE]
    /\ UNCHANGED <<local, net>>

RunControl == /\ \/ Publish \/ Snapshot \/ Announce \/ HandleEvent \/ SignalReturns
                 \/ ServeEnds \/ Stop \/ Withdraw
              /\ UNCHANGED <<pairing, svc>>

----------------------------------------------------------------------------
(* Closes and their reports; pairing commands.                             *)

\* Any of the causes of Terminal closes a terminal: it leaves the registry.
\* Terminal has closing and reporting as goroutines of their own.
Deletes(t) ==
    /\ local[t] = "live"
    /\ local' = [local EXCEPT ![t] = "deleted"]
    /\ UNCHANGED net

\* The context of the report is made before the mutexes are waited for; a
\* pairing command keeps controlMu, and a ping writeMu, for up to 10 s.
Expires(t) ==
    /\ local[t] = "deleted" /\ loop.published
    /\ local' = [local EXCEPT ![t] = "late"]
    /\ UNCHANGED net

Reports(t) ==
    /\ local[t] = "deleted" /\ ~pairing
    /\ local' = [local EXCEPT ![t] = "gone"]
    /\ IF loop.published THEN Writes("closed", {t}) ELSE UNCHANGED net

\* A write whose context has expired fails, and the connection may stay up;
\* or the WebSocket library closes it for that.
ReportsLate(t) ==
    /\ local[t] = "late" /\ ~pairing
    /\ \/ /\ local' = [local EXCEPT ![t] = IF loop.published THEN "silent" ELSE "gone"]
          /\ UNCHANGED net
       \/ /\ loop.published /\ loop.conn < MaxConns
          /\ local' = [local EXCEPT ![t] = "gone"]
          /\ net' = [net EXCEPT !.up = FALSE, !.toService = <<>>]

Closing(t) == /\ Deletes(t) \/ Expires(t) \/ Reports(t) \/ ReportsLate(t)
              /\ UNCHANGED <<loop, pairing, svc>>

PairingBegins == ~pairing /\ loop.published /\ pairing' = TRUE
PairingEnds == pairing /\ pairing' = FALSE
Pairing == (PairingBegins \/ PairingEnds) /\ UNCHANGED <<loop, local, net, svc>>

----------------------------------------------------------------------------
(* The network and the service (external).                                 *)

\* Messages to the agent that were not yet read are lost.
LinkLost ==
    /\ net.up /\ 0 < loop.conn /\ loop.conn < MaxConns
    /\ \E n \in 0..Len(net.toAgent) :
        net' = [up |-> FALSE, toService |-> <<>>, toAgent |-> SubSeq(net.toAgent, 1, n)]
    /\ UNCHANGED svc

\* The connection may be lost without the service knowing it yet. (Bound: one
\* close signal is under way at a time.)
ServiceLeases(t) ==
    /\ svc.accepted # 0 /\ svc.lease[t] = "none"
    /\ svc' = [svc EXCEPT !.lease[t] = "open", !.since[t] = svc.accepted]
    /\ ServiceWrites("open", {t})

BrowserStops(t) ==
    /\ svc.accepted # 0 /\ svc.lease[t] = "open"
    /\ \A n \in DOMAIN net.toAgent : net.toAgent[n].kind # "stop"
    /\ ServiceWrites("stop", {t})
    /\ UNCHANGED svc

ServiceRevokes(t) ==
    /\ svc.lease[t] = "open"
    /\ svc' = [svc EXCEPT !.lease[t] = "revoked"]
    /\ IF svc.accepted # 0 THEN ServiceWrites("terminal.close", {t}) ELSE UNCHANGED net

\* Leases that are given up: the closed terminal's, and on an announcement
\* those of earlier connections that it leaves out.
GivenUp(m) ==
    {t \in Terminals : /\ svc.lease[t] = "open"
                       /\ \/ m.kind = "closed" /\ t \in m.ids
                          \/ m.kind = "active" /\ t \notin m.ids /\ svc.since[t] < svc.accepted}

ServiceReads ==
    /\ net.toService # <<>>
    /\ LET m == Head(net.toService)
           rest == [net EXCEPT !.toService = Tail(@)]
           reply == [hello |-> "challenge", prove |-> "ready"]
       IN /\ net' = IF m.kind \in DOMAIN reply
                    THEN [rest EXCEPT !.toAgent = Append(@, Message(reply[m.kind], {}))]
                    ELSE rest
          /\ svc' = [svc EXCEPT
                !.accepted = IF m.kind = "prove" THEN loop.conn ELSE @,
                !.lease = [t \in Terminals |-> IF t \in GivenUp(m) THEN "ended" ELSE @[t]]]

Service == /\ \/ LinkLost \/ ServiceReads
              \/ \E t \in Terminals : ServiceLeases(t) \/ BrowserStops(t) \/ ServiceRevokes(t)
           /\ UNCHANGED <<loop, pairing, local>>

Next == Connect \/ RunControl \/ (\E t \in Terminals : Closing(t)) \/ Pairing \/ Service

Spec == Init /\ [][Next]_vars

(***************************************************************************)
(* Fairness: goroutines run and pairing commands end after 10 s.  The      *)
(* service answers a handshake and reads what arrives.  With the bound on  *)
(* LinkLost and HandshakeFails: some connection stays up.                  *)
(***************************************************************************)
Fairness ==
    /\ WF_vars(Connect) /\ SF_vars(RunControl)
    /\ WF_vars(PairingEnds /\ UNCHANGED <<loop, local, net, svc>>)
    /\ \A t \in Terminals :
        SF_vars((Reports(t) \/ ReportsLate(t)) /\ UNCHANGED <<loop, pairing, svc>>)
    /\ WF_vars(ServiceReads /\ UNCHANGED <<loop, pairing, local>>)

FairSpec == Spec /\ Fairness

----------------------------------------------------------------------------
(* Properties.                                                             *)

Settled == /\ loop.at = "serve" /\ net.up
           /\ net.toService = <<>> /\ net.toAgent = <<>>
           /\ \A t \in Terminals : local[t] \notin {"deleted", "late"}

\* A close report that could not be sent is made up for: once the agent has
\* announced its terminals and both sides have read everything, an open lease
\* is of a live terminal. This needs the id to be deleted before the report is
\* made, and the session to be published before the snapshot is taken. Only a
\* report that waited longer than its 5 s on a connection that stayed up is
\* not made up for.
LeasesSettle ==
    Settled => \A t \in Terminals :
                  svc.lease[t] = "open" => local[t] \in {"live", "silent"}

\* Announcements and reports that cross never cost a live terminal its lease:
\* only the service takes it away.
LiveKeepsItsLease ==
    \A t \in Terminals : local[t] = "live" => svc.lease[t] \in {"open", "revoked"}

\* While connections come back, the lease of a terminal that is gone, or whose
\* terminal.open was lost, does not stay open. (Late reports as above.)
StaleLeaseEnds ==
    \A t \in Terminals :
        svc.lease[t] = "open" /\ local[t] \in {"none", "gone"}
            ~> svc.lease[t] # "open" \/ local[t] \in {"live", "silent"}

\* docs/protocol-v1.md:243: an agent must terminate any terminal listed in
\* terminal.close; after reconnect it must also terminate every locally active
\* terminal that the service does not accept.
RevokedIsTerminated ==
    Settled => \A t \in Terminals : local[t] = "live" => svc.lease[t] = "open"
=============================================================================
