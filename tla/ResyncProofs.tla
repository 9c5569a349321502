----------------------------- MODULE ResyncProofs -----------------------------
(***************************************************************************)
(* Terminals and leases for every set of terminals and every number of     *)
(* connections.                                                            *)
(*                                                                         *)
(* Two arguments, neither of which needs the order of the messages.  Live: *)
(* a close report is of a terminal that is gone, and an announcement       *)
(* leaves out only what was opened on the same connection, for which the   *)
(* service does not hold it against the terminal.  Stale: whenever a lease *)
(* is open without a terminal, something is on its way that ends it: a     *)
(* report, an announcement or one still to be made, or a new connection;   *)
(* for that the id leaves the registry before it is reported, and the      *)
(* session is published before the snapshot is taken.                      *)
(***************************************************************************)
EXTENDS Resync, TLAPS, SequenceTheorems

\* The messages under way, their order left aside.
Elements(wire) == {wire[n] : n \in DOMAIN wire}
ToService == Elements(net.toService)
ToAgent == Elements(net.toAgent)

\* The connection is not announced yet.
Early == {"hello", "challenge", "ready", "publish", "snapshot", "announce"}

\* A close report is made of a terminal that is gone.
Reported == \A m \in ToService : m.kind = "closed" => \A t \in m.ids : local[t] = "gone"

\* A terminal that an announcement leaves out was opened on the same connection.
Announced ==
    /\ \A m \in ToService : m.kind = "active" => \A t \in ActiveIDs \ m.ids : svc.since[t] = loop.conn
    /\ loop.at = "announce" => ActiveIDs \subseteq loop.snapshot

\* A terminal.open that arrives is of this connection; nobody gives up its lease
\* before it does.
Offered ==
    \A m \in ToAgent : m.kind = "open" =>
        \A t \in m.ids : /\ svc.since[t] = loop.conn
                         /\ local[t] = "none" => svc.lease[t] \in {"open", "revoked"}

\* What the agent does after the handshake is done with a service that accepted it.
Accepted ==
    /\ loop.at \notin {"backoff", "hello", "challenge", "ready"} => svc.accepted = loop.conn
    /\ \A m \in ToAgent : m.kind = "ready" => svc.accepted = loop.conn
    /\ \A m \in ToService : m.kind = "active" => svc.accepted = loop.conn

\* A terminal has a lease, and before the announcement one of an earlier
\* connection.
Leased ==
    \A t \in Terminals : local[t] # "none" =>
        /\ svc.lease[t] # "none"
        /\ loop.at \in Early => svc.since[t] < loop.conn

\* What will end the lease of a terminal that is gone, or was not opened yet:
\* its close report, an announcement without it; or it will be opened.
Pending ==
    \A t \in Terminals : svc.lease[t] = "open" /\ local[t] \in {"none", "gone"} =>
        \/ ~net.up \/ loop.at \in {"backoff", "stop", "withdraw"}
        \/ local[t] = "none" /\ \E m \in ToAgent : m.kind = "open" /\ t \in m.ids
        \/ local[t] = "gone" /\ \E m \in ToService : m.kind = "closed" /\ t \in m.ids
        \/ /\ svc.since[t] < loop.conn
           /\ \/ loop.at \in Early \ {"announce"}
              \/ loop.at = "announce" /\ t \notin loop.snapshot
              \/ \E m \in ToService : m.kind = "active" /\ t \notin m.ids

\* What a live terminal owes its lease to, and what a stale lease comes to.
Live == Reported /\ Announced /\ Offered /\ LiveKeepsItsLease
Stale == Accepted /\ Leased /\ Pending
ResyncInv == TypeOK /\ Live /\ Stale

\* The types, field by field.
Steps == {"backoff", "hello", "challenge", "ready", "publish", "snapshot", "announce", "serve",
          "closing", "stop", "withdraw"}
LoopState == [at : Steps, conn : 0..MaxConns, sockets : SUBSET (1..MaxConns), published : BOOLEAN,
              snapshot : SUBSET Terminals, target : SUBSET Terminals]
NetState == [up : BOOLEAN, toService : Seq(Messages), toAgent : Seq(Messages)]
LocalState == [Terminals -> {"none", "live", "deleted", "late", "gone", "silent"}]
SvcOK == svc \in [accepted : {0, loop.conn}, lease : [Terminals -> {"none", "open", "ended", "revoked"}],
                  since : [Terminals -> 0..loop.conn]]

LoopOK ==
    /\ loop \in LoopState
    /\ loop.sockets = IF loop.at \in {"backoff", "withdraw"} THEN {} ELSE {loop.conn}
    /\ loop.target # {} <=> loop.at = "closing"
    /\ loop.published <=> loop.at \in {"snapshot", "announce", "serve", "closing", "stop", "withdraw"}

----------------------------------------------------------------------------
(* The messages under way.                                                 *)

\* The types, and what is left to show of them after a step.
LEMMA TypeParts ==
    /\ TypeOK => LoopOK /\ pairing \in BOOLEAN /\ local \in LocalState /\ net \in NetState /\ SvcOK
    /\ LoopOK' /\ pairing' \in BOOLEAN /\ local' \in LocalState /\ net' \in NetState /\ SvcOK' => TypeOK'
BY DEF TypeOK, LoopOK, LoopState, Steps, LocalState, NetState, SvcOK

\* What is appended is under way as well.
LEMMA WireAppend ==
    ASSUME NEW wire \in Seq(Messages), NEW m \in Messages
    PROVE  Append(wire, m) \in Seq(Messages) /\ Elements(Append(wire, m)) = Elements(wire) \cup {m}
<1>1. /\ Len(wire) \in Nat /\ DOMAIN wire = 1..Len(wire) /\ DOMAIN Append(wire, m) = 1..(Len(wire) + 1)
      /\ Append(wire, m)[Len(wire) + 1] = m /\ \A n \in 1..Len(wire) : Append(wire, m)[n] = wire[n]
      /\ Append(wire, m) \in Seq(Messages)
  OBVIOUS
<1>2. Elements(Append(wire, m)) \subseteq Elements(wire) \cup {m}
  BY <1>1 DEF Elements
<1>3. Elements(wire) \subseteq Elements(Append(wire, m))
  BY <1>1 DEF Elements
<1>4. m \in Elements(Append(wire, m))
  BY <1>1 DEF Elements
<1> QED
  BY <1>1, <1>2, <1>3, <1>4

\* What is read is no longer under way, unless it was sent twice.
LEMMA WireTail ==
    ASSUME NEW wire \in Seq(Messages), wire # <<>>
    PROVE  /\ Head(wire) \in Messages /\ Tail(wire) \in Seq(Messages)
           /\ Elements(wire) = Elements(Tail(wire)) \cup {Head(wire)}
<1>1. /\ Len(wire) \in Nat \ {0} /\ DOMAIN wire = 1..Len(wire) /\ Head(wire) = wire[1]
      /\ Head(wire) \in Messages /\ Tail(wire) \in Seq(Messages)
      /\ DOMAIN Tail(wire) = 1..(Len(wire) - 1) /\ \A n \in 1..(Len(wire) - 1) : Tail(wire)[n] = wire[n + 1]
  BY EmptySeq, HeadTailProperties, LenProperties
<1>2. Elements(wire) \subseteq Elements(Tail(wire)) \cup {Head(wire)}
  <2> SUFFICES ASSUME NEW n \in 1..Len(wire), n # 1 PROVE wire[n] \in Elements(Tail(wire))
    BY <1>1 DEF Elements
  <2>1. n - 1 \in 1..(Len(wire) - 1) /\ Tail(wire)[n - 1] = wire[n]
    BY <1>1
  <2> QED
    BY <1>1, <2>1 DEF Elements
<1>3. Elements(Tail(wire)) \cup {Head(wire)} \subseteq Elements(wire)
  BY <1>1 DEF Elements
<1> QED
  BY <1>1, <1>2, <1>3

\* What is lost was under way.
LEMMA WireCut ==
    ASSUME NEW wire \in Seq(Messages), NEW n \in 0..Len(wire)
    PROVE  SubSeq(wire, 1, n) \in Seq(Messages) /\ Elements(SubSeq(wire, 1, n)) \subseteq Elements(wire)
<1>1. /\ SubSeq(wire, 1, n) \in Seq(Messages) /\ Len(wire) \in Nat
      /\ DOMAIN SubSeq(wire, 1, n) = 1..n /\ \A i \in 1..n : SubSeq(wire, 1, n)[i] = wire[i]
  OBVIOUS
<1> QED
  BY <1>1 DEF Elements

\* Messages are about terminals.
LEMMA UnderWay ==
    ASSUME net \in NetState, NEW m \in ToService \cup ToAgent
    PROVE  m.ids \subseteq Terminals
<1>1. m \in Messages
  BY LenProperties, ElementOfSeq DEF NetState, ToService, ToAgent, Elements
<1> QED
  BY <1>1 DEF Messages

\* Nothing is under way on a new connection.
LEMMA WireEmpty == <<>> \in Seq(Messages) /\ Elements(<<>>) = {}
BY EmptySeq DEF Elements

\* The agent writes on a connection that it has open and that is up.
LEMMA AgentWrites ==
    ASSUME net \in NetState, NEW kind, NEW ids, Message(kind, ids) \in Messages, Writes(kind, ids)
    PROVE  /\ net' \in NetState /\ net'.up = net.up /\ ToAgent' = ToAgent
           /\ ToService' = ToService \cup IF Usable THEN {Message(kind, ids)} ELSE {}
<1>1. CASE Usable
  <2>1. net' = [net EXCEPT !.toService = Append(net.toService, Message(kind, ids))]
    BY <1>1 DEF Writes
  <2>2. net'.up = net.up /\ net'.toAgent = net.toAgent /\ net'.toService = Append(net.toService, Message(kind, ids))
    BY <2>1 DEF NetState
  <2> QED
    BY <1>1, <2>1, <2>2, WireAppend DEF NetState, ToService, ToAgent
<1>2. CASE ~Usable
  BY <1>2 DEF Writes, ToService, ToAgent
<1> QED
  BY <1>1, <1>2

\* The service writes on a connection that is up.
LEMMA ServiceWritesOn ==
    ASSUME net \in NetState, NEW kind, NEW ids, Message(kind, ids) \in Messages, ServiceWrites(kind, ids)
    PROVE  /\ net' \in NetState /\ net'.up = net.up /\ ToService' = ToService
           /\ ToAgent' = ToAgent \cup IF net.up THEN {Message(kind, ids)} ELSE {}
<1>1. CASE net.up
  <2>1. net' = [net EXCEPT !.toAgent = Append(net.toAgent, Message(kind, ids))]
    BY <1>1 DEF ServiceWrites
  <2>2. net'.up = net.up /\ net'.toService = net.toService /\ net'.toAgent = Append(net.toAgent, Message(kind, ids))
    BY <2>1 DEF NetState
  <2> QED
    BY <1>1, <2>1, <2>2, WireAppend DEF NetState, ToService, ToAgent
<1>2. CASE ~net.up
  BY <1>2 DEF ServiceWrites, ToService, ToAgent
<1> QED
  BY <1>1, <1>2

----------------------------------------------------------------------------
(* The steps of Connect.                                                   *)

\* A step of the agent that leaves the terminals and the service alone, and makes
\* no announcement.
LEMMA Quiet ==
    ASSUME ResyncInv, UNCHANGED <<local, svc>>, loop'.conn = loop.conn,
           loop'.at = "announce" => loop.at = "snapshot" /\ loop'.snapshot = ActiveIDs,
           \A m \in ToService' \ ToService : m.kind \notin {"active", "closed"},
           \A m \in ToAgent' \ ToAgent : m.kind # "open"
    PROVE  Live'
<1>1. Reported' /\ Offered' /\ LiveKeepsItsLease'
  BY DEF ResyncInv, Live, Reported, Offered, LiveKeepsItsLease
<1>2. ActiveIDs' = ActiveIDs
  BY DEF ActiveIDs
<1>3. Announced'
  BY <1>2 DEF ResyncInv, Live, Announced
<1> QED
  BY <1>1, <1>3 DEF Live

\* A step in which terminals that were opened are closed, or reported.
LEMMA Leaves ==
    ASSUME ResyncInv, UNCHANGED svc, loop'.conn = loop.conn, loop'.snapshot = loop.snapshot,
           loop'.at = "announce" => loop.at = "announce",
           \A t \in Terminals : \/ local'[t] = local[t]
                                \/ local[t] \notin {"none", "gone"} /\ local'[t] \notin {"none", "live"},
           ToAgent' \subseteq ToAgent,
           \A m \in ToService' \ ToService : m.kind = "closed" /\ \A t \in m.ids : local'[t] = "gone"
    PROVE  Live'
<1>1. Live /\ \A m \in ToService \cup ToAgent : m.ids \subseteq Terminals
  BY UnderWay, TypeParts DEF ResyncInv
<1>2. Reported'
  BY <1>1 DEF Live, Reported
<1>3. Offered' /\ LiveKeepsItsLease'
  BY <1>1 DEF Live, Offered, LiveKeepsItsLease
<1>4. Announced'
  <2>1. ActiveIDs' \subseteq ActiveIDs
    BY DEF ActiveIDs
  <2> QED
    BY <1>1, <2>1 DEF Live, Announced
<1> QED
  BY <1>2, <1>3, <1>4 DEF Live

\* Every step of the handshake keeps the invariant.
LEMMA ConnectStep ==
    ASSUME ResyncInv, Connect
    PROVE  ResyncInv'
<1>1. /\ LoopOK /\ pairing \in BOOLEAN /\ local \in LocalState /\ net \in NetState
      /\ SvcOK /\ UNCHANGED <<pairing, local>>
  BY TypeParts DEF ResyncInv, Connect
<1>2. Live /\ Stale
  BY DEF ResyncInv
<1>3. CASE Dial
  <2>1. /\ loop.at = "backoff" /\ loop'.at = "hello" /\ loop'.conn = loop.conn + 1 /\ loop.conn \in Nat
        /\ loop'.snapshot = loop.snapshot /\ LoopOK'
    <3>1. /\ loop.at = "backoff" /\ loop.conn < MaxConns /\ loop.sockets = {} /\ loop.target = {} /\ ~loop.published
          /\ loop' = [loop EXCEPT !.at = "hello", !.conn = loop.conn + 1, !.sockets = {loop.conn + 1}]
      BY <1>1, <1>3 DEF Dial, LoopOK
    <3>2. loop.conn + 1 \in 1..MaxConns /\ loop.conn + 1 \in 0..MaxConns /\ loop.conn \in Nat /\ loop \in LoopState
      BY <1>1, <3>1, ResyncAssumption DEF LoopOK, LoopState
    <3> QED
      BY <3>1, <3>2 DEF LoopOK, LoopState, Steps
  <2>2. net' \in NetState /\ net'.up /\ ToService' = {} /\ ToAgent' = {}
    BY <1>3, WireEmpty DEF Dial, NetState, ToService, ToAgent
  <2>3. /\ SvcOK' /\ svc'.accepted = 0 /\ svc'.lease = svc.lease /\ svc'.since = svc.since
        /\ \A t \in Terminals : svc.since[t] < loop'.conn
    <3>1. svc.since \in [Terminals -> 0..loop'.conn] /\ \A t \in Terminals : svc.since[t] < loop'.conn
      BY <1>1, <2>1 DEF SvcOK
    <3> QED
      BY <1>1, <1>3, <3>1 DEF Dial, SvcOK
  <2>4. Live'
    BY <1>1, <1>2, <2>1, <2>2, <2>3 DEF Live, Reported, Announced, Offered, LiveKeepsItsLease
  <2>5. Stale'
    BY <1>1, <1>2, <2>1, <2>2, <2>3 DEF Stale, Accepted, Leased, Pending, Early
  <2> QED
    BY <1>1, <2>1, <2>2, <2>3, <2>4, <2>5, TypeParts DEF ResyncInv
<1>4. CASE Hello
  <2>1. /\ loop.at = "hello" /\ loop'.at = "challenge" /\ loop'.conn = loop.conn
        /\ loop'.snapshot = loop.snapshot /\ LoopOK' /\ UNCHANGED svc
    BY <1>1, <1>4 DEF Hello, LoopOK, LoopState, Steps
  <2>2. Message("hello", {}) \in Messages /\ Message("hello", {}).kind = "hello"
    BY DEF Messages, Message
  <2>3. /\ net' \in NetState /\ net'.up = net.up /\ ToAgent' = ToAgent
        /\ ToService' = ToService \cup IF Usable THEN {Message("hello", {})} ELSE {}
    BY <1>1, <1>4, <2>2, AgentWrites DEF Hello
  <2>4. Live'
    BY <1>1, <2>1, <2>2, <2>3, Quiet
  <2>5. Stale'
    BY <1>1, <1>2, <2>1, <2>2, <2>3 DEF Stale, Accepted, Leased, Pending, Early
  <2> QED
    BY <1>1, <2>1, <2>3, <2>4, <2>5, TypeParts DEF ResyncInv, SvcOK
<1>5. CASE Prove
  <2> DEFINE m == Message("prove", {})
  <2>1. /\ loop.at = "challenge" /\ loop'.at = "ready" /\ loop'.conn = loop.conn
        /\ loop'.snapshot = loop.snapshot /\ LoopOK' /\ UNCHANGED svc
    BY <1>1, <1>5 DEF Prove, Reads, LoopOK, LoopState, Steps
  <2>2. m \in Messages /\ m.kind = "prove"
    BY DEF Messages, Message
  <2>3. net.toAgent # <<>> /\ Head(net.toAgent).kind = "challenge"
    BY <1>5 DEF Prove, Reads
  <2> DEFINE wire == IF Usable THEN Append(net.toService, m) ELSE net.toService
  <2>4. net' = [net EXCEPT !.toAgent = Tail(net.toAgent), !.toService = wire]
    BY <1>5 DEF Prove
  <2>5. wire \in Seq(Messages) /\ Elements(wire) \subseteq ToService \cup {m} /\ ToService \subseteq Elements(wire)
    BY <1>1, <2>2, WireAppend DEF NetState, ToService
  <2>6. /\ Tail(net.toAgent) \in Seq(Messages)
        /\ ToAgent = Elements(Tail(net.toAgent)) \cup {Head(net.toAgent)}
    BY <1>1, <2>3, WireTail DEF NetState, ToAgent
  <2> HIDE DEF m, wire
  <2>7. /\ net' \in NetState /\ net'.up = net.up /\ ToService \subseteq ToService' /\ ToService' \subseteq ToService \cup {m}
        /\ ToAgent = ToAgent' \cup {Head(net.toAgent)}
    BY <1>1, <2>4, <2>5, <2>6 DEF NetState, ToService, ToAgent
  <2>8. Live'
    BY <1>1, <2>1, <2>2, <2>3, <2>7, Quiet
  <2>9. Stale'
    BY <1>1, <1>2, <2>1, <2>2, <2>3, <2>7 DEF Stale, Accepted, Leased, Pending, Early
  <2> QED
    BY <1>1, <2>1, <2>7, <2>8, <2>9, TypeParts DEF ResyncInv, SvcOK
<1>6. CASE Ready
  <2>1. /\ loop.at = "ready" /\ loop'.at = "publish" /\ loop'.conn = loop.conn
        /\ loop'.snapshot = loop.snapshot /\ LoopOK' /\ UNCHANGED svc
    BY <1>1, <1>6 DEF Ready, Reads, Follows, LoopOK, LoopState, Steps
  <2>2. net.toAgent # <<>> /\ Head(net.toAgent).kind = "ready" /\ net' = [net EXCEPT !.toAgent = Tail(net.toAgent)]
    BY <1>6 DEF Ready, Reads
  <2>3. /\ net' \in NetState /\ net'.up = net.up /\ ToService' = ToService
        /\ ToAgent = ToAgent' \cup {Head(net.toAgent)}
    BY <1>1, <2>2, WireTail DEF NetState, ToService, ToAgent
  <2>4. Live'
    BY <1>1, <2>1, <2>2, <2>3, Quiet
  <2>5. Stale'
    BY <1>1, <1>2, <2>1, <2>2, <2>3 DEF Stale, Accepted, Leased, Pending, Early
  <2> QED
    BY <1>1, <2>1, <2>3, <2>4, <2>5, TypeParts DEF ResyncInv, SvcOK
<1>7. CASE HandshakeFails
  <2>1. /\ loop.at \in {"hello", "challenge", "ready"} /\ loop'.at = "backoff" /\ loop'.conn = loop.conn
        /\ loop'.snapshot = loop.snapshot /\ LoopOK' /\ UNCHANGED <<net, svc>>
    <3>1. /\ loop.at \in {"hello", "challenge", "ready"} /\ UNCHANGED <<net, svc>>
          /\ loop' = [loop EXCEPT !.at = "backoff", !.sockets = {}]
      BY <1>1, <1>7 DEF HandshakeFails, Connecting, LoopOK
    <3> QED
      BY <1>1, <3>1 DEF LoopOK, LoopState, Steps
  <2>2. ToService' = ToService /\ ToAgent' = ToAgent
    BY <2>1 DEF ToService, ToAgent
  <2>3. Live'
    BY <1>1, <2>1, <2>2, Quiet
  <2>4. Stale'
    BY <1>1, <1>2, <2>1, <2>2 DEF Stale, Accepted, Leased, Pending, Early
  <2> QED
    BY <1>1, <2>1, <2>3, <2>4, TypeParts DEF ResyncInv, SvcOK
<1> QED
  BY <1>3, <1>4, <1>5, <1>6, <1>7 DEF Connect

----------------------------------------------------------------------------
(* The steps of runControl.                                                *)

\* Every step of runControl keeps the invariant: it publishes, takes the snapshot
\* and announces it before it handles an event.
LEMMA RunControlStep ==
    ASSUME ResyncInv, RunControl
    PROVE  ResyncInv'
<1>1. /\ LoopOK /\ pairing \in BOOLEAN /\ local \in LocalState /\ net \in NetState
      /\ SvcOK /\ UNCHANGED <<pairing, svc>>
  BY TypeParts DEF ResyncInv, RunControl
<1>2. Live /\ Stale
  BY DEF ResyncInv
<1>3. CASE Publish
  <2>1. /\ loop.at = "publish" /\ loop'.at = "snapshot" /\ loop'.conn = loop.conn /\ LoopOK'
        /\ UNCHANGED <<net, local>>
    BY <1>1, <1>3 DEF Publish, Follows, LoopOK, LoopState, Steps
  <2>2. ToService' = ToService /\ ToAgent' = ToAgent
    BY <2>1 DEF ToService, ToAgent
  <2>3. Live'
    BY <1>1, <2>1, <2>2, Quiet
  <2>4. Stale'
    BY <1>1, <1>2, <2>1, <2>2 DEF Stale, Accepted, Leased, Pending, Early
  <2> QED
    BY <1>1, <2>1, <2>3, <2>4, TypeParts DEF ResyncInv, SvcOK
<1>4. CASE Snapshot
  <2>1. /\ loop.at = "snapshot" /\ loop'.at = "announce" /\ loop'.conn = loop.conn /\ loop'.snapshot = ActiveIDs
        /\ LoopOK' /\ UNCHANGED <<net, local>>
    <3>1. ActiveIDs \subseteq Terminals
      BY DEF ActiveIDs
    <3> QED
      BY <1>1, <1>4, <3>1 DEF Snapshot, Follows, LoopOK, LoopState, Steps
  <2>2. ToService' = ToService /\ ToAgent' = ToAgent
    BY <2>1 DEF ToService, ToAgent
  <2>3. Live'
    BY <1>1, <2>1, <2>2, Quiet
  <2>4. Stale'
    BY <1>1, <1>2, <2>1, <2>2 DEF Stale, Accepted, Leased, Pending, Early, ActiveIDs
  <2> QED
    BY <1>1, <2>1, <2>3, <2>4, TypeParts DEF ResyncInv, SvcOK
<1>5. CASE Announce
  <2> DEFINE m == Message("active", loop.snapshot)
  <2>1. /\ loop.at = "announce" /\ loop'.at = "serve" /\ loop'.conn = loop.conn /\ loop'.snapshot = loop.snapshot
        /\ LoopOK' /\ UNCHANGED local /\ loop.sockets = {loop.conn}
    BY <1>1, <1>5 DEF Announce, LoopOK, LoopState, Steps
  <2>2. m \in Messages /\ m.kind = "active" /\ m.ids = loop.snapshot
    BY <1>1 DEF Messages, Message, LoopOK, LoopState
  <2>3. /\ net' \in NetState /\ net'.up = net.up /\ ToAgent' = ToAgent
        /\ ToService' = ToService \cup IF net.up THEN {m} ELSE {}
    BY <1>1, <1>5, <2>1, <2>2, AgentWrites DEF Announce, Usable
  <2> HIDE DEF m
  <2>4. Live'
    BY <1>1, <1>2, <2>1, <2>2, <2>3 DEF Live, Reported, Announced, Offered, LiveKeepsItsLease, ActiveIDs
  <2>5. Stale'
    BY <1>1, <1>2, <2>1, <2>2, <2>3 DEF Stale, Accepted, Leased, Pending, Early
  <2> QED
    BY <1>1, <2>1, <2>3, <2>4, <2>5, TypeParts DEF ResyncInv, SvcOK
<1>6. CASE HandleEvent
  <2> DEFINE m == Head(net.toAgent)
             hit == {t \in m.ids : local[t] = "live"}
  <2>1. loop.at = "serve" /\ net.toAgent # <<>> /\ net' = [net EXCEPT !.toAgent = Tail(net.toAgent)]
    BY <1>6 DEF HandleEvent
  <2>2. /\ net' \in NetState /\ net'.up = net.up /\ ToService' = ToService
        /\ ToAgent = ToAgent' \cup {m} /\ m \in Messages /\ m.ids \subseteq Terminals
    BY <1>1, <2>1, WireTail DEF NetState, ToService, ToAgent, Messages
  <2>3. CASE /\ m.kind = "open" /\ UNCHANGED loop
             /\ local' = [t \in Terminals |-> IF t \in m.ids /\ local[t] = "none" THEN "live" ELSE local[t]]
    <3> HIDE DEF m, hit
    <3>1. /\ local' \in LocalState
          /\ \A t \in Terminals : local'[t] = IF t \in m.ids /\ local[t] = "none" THEN "live" ELSE local[t]
      BY <1>1, <2>3 DEF LocalState
    <3>2. \A t \in m.ids : /\ svc.since[t] = loop.conn
                           /\ local[t] = "none" => svc.lease[t] \in {"open", "revoked"}
      BY <1>2, <2>2, <2>3 DEF Live, Offered
    <3>3. Reported' /\ Offered' /\ LiveKeepsItsLease'
      <4>1. \A w \in ToService \cup ToAgent : w.ids \subseteq Terminals
        BY <1>1, UnderWay
      <4>2. Reported'
        BY <1>2, <2>2, <3>1, <4>1 DEF Live, Reported
      <4>3. Offered'
        BY <1>1, <1>2, <2>2, <2>3, <3>1, <4>1 DEF Live, Offered
      <4>4. LiveKeepsItsLease'
        BY <1>1, <1>2, <3>1, <3>2 DEF Live, LiveKeepsItsLease
      <4> QED
        BY <4>2, <4>3, <4>4
    <3>4. Announced'
      BY <1>1, <1>2, <2>1, <2>2, <2>3, <3>1, <3>2 DEF Live, Announced, ActiveIDs
    <3>5. Stale'
      BY <1>1, <1>2, <2>1, <2>2, <2>3, <3>1, <3>2 DEF Stale, Accepted, Leased, Pending, Early
    <3> QED
      BY <1>1, <2>2, <2>3, <3>1, <3>3, <3>4, <3>5, TypeParts DEF ResyncInv, SvcOK, LoopOK, Live
  <2>4. CASE /\ m.kind = "stop"
             /\ local' = [t \in Terminals |-> IF t \in hit THEN "deleted" ELSE local[t]]
             /\ loop' = IF hit = {} THEN loop ELSE [loop EXCEPT !.at = "closing", !.target = hit]
    <3>1. hit \subseteq Terminals /\ \A t \in Terminals : t \in hit => local[t] = "live"
      BY <2>2
    <3> HIDE DEF m, hit
    <3>2. /\ local' \in LocalState
          /\ \A t \in Terminals : local'[t] = IF t \in hit THEN "deleted" ELSE local[t]
      BY <1>1, <2>4 DEF LocalState
    <3>3. LoopOK' /\ loop'.at \in {"serve", "closing"} /\ loop'.conn = loop.conn
      BY <1>1, <2>1, <2>4, <3>1 DEF LoopOK, LoopState, Steps
    <3>4. loop'.snapshot = loop.snapshot
      BY <1>1, <2>4 DEF LoopOK, LoopState
    <3>5. Live'
      BY <1>1, <2>1, <2>2, <3>1, <3>2, <3>3, <3>4, Leaves
    <3>6. Stale'
      BY <1>1, <1>2, <2>1, <2>2, <2>4, <3>1, <3>2, <3>3 DEF Stale, Accepted, Leased, Pending, Early
    <3> QED
      BY <1>1, <2>2, <3>2, <3>3, <3>5, <3>6, TypeParts DEF ResyncInv, SvcOK
  <2>5. CASE m.kind = "terminal.close" /\ UNCHANGED <<local, loop>>
    <3> HIDE DEF m, hit
    <3>1. Live'
      BY <1>1, <2>1, <2>2, <2>5, Quiet
    <3>2. Stale'
      BY <1>1, <1>2, <2>1, <2>2, <2>5 DEF Stale, Accepted, Leased, Pending, Early
    <3> QED
      BY <1>1, <2>2, <2>5, <3>1, <3>2, TypeParts DEF ResyncInv, SvcOK, LoopOK
  <2> QED
    BY <1>6, <2>3, <2>4, <2>5 DEF HandleEvent
<1>7. CASE SignalReturns
  <2>1. /\ loop.at = "closing" /\ loop'.at = "serve" /\ loop'.conn = loop.conn /\ LoopOK'
        /\ UNCHANGED <<net, local>>
    BY <1>1, <1>7 DEF SignalReturns, LoopOK, LoopState, Steps
  <2>2. ToService' = ToService /\ ToAgent' = ToAgent
    BY <2>1 DEF ToService, ToAgent
  <2>3. Live'
    BY <1>1, <2>1, <2>2, Quiet
  <2>4. Stale'
    BY <1>1, <1>2, <2>1, <2>2 DEF Stale, Accepted, Leased, Pending, Early
  <2> QED
    BY <1>1, <2>1, <2>3, <2>4, TypeParts DEF ResyncInv, SvcOK
<1>8. CASE ServeEnds
  <2>1. /\ loop.at = "serve" /\ loop'.at = "stop" /\ loop'.conn = loop.conn /\ LoopOK' /\ UNCHANGED local /\ ~net.up
        /\ net' = [net EXCEPT !.toAgent = <<>>]
    BY <1>1, <1>8 DEF ServeEnds, LoopOK, LoopState, Steps
  <2>2. net' \in NetState /\ ~net'.up /\ ToService' = ToService /\ ToAgent' = {}
    BY <1>1, <2>1, WireEmpty DEF NetState, ToService, ToAgent
  <2>3. Live'
    BY <1>1, <2>1, <2>2, Quiet
  <2>4. Stale'
    BY <1>1, <1>2, <2>1, <2>2 DEF Stale, Accepted, Leased, Pending, Early
  <2> QED
    BY <1>1, <2>1, <2>2, <2>3, <2>4, TypeParts DEF ResyncInv, SvcOK
<1>9. CASE Stop \/ Withdraw
  <2>1. /\ loop.at \in {"stop", "withdraw"} /\ loop'.at \in {"backoff", "withdraw"} /\ loop'.conn = loop.conn
        /\ (loop'.at = "withdraw" => loop.at = "stop") /\ LoopOK' /\ UNCHANGED <<net, local>>
    <3>1. CASE Stop
      <4>1. loop.at = "stop" /\ loop' = [loop EXCEPT !.at = "withdraw", !.sockets = {}] /\ UNCHANGED <<net, local>>
        BY <1>1, <3>1 DEF Stop, LoopOK
      <4> QED
        BY <1>1, <4>1 DEF LoopOK, LoopState, Steps
    <3>2. CASE Withdraw
      BY <1>1, <3>2 DEF Withdraw, LoopOK, LoopState, Steps
    <3> QED
      BY <1>9, <3>1, <3>2
  <2>2. ToService' = ToService /\ ToAgent' = ToAgent
    BY <2>1 DEF ToService, ToAgent
  <2>3. Live'
    BY <1>1, <2>1, <2>2, Quiet
  <2>4. Stale'
    BY <1>1, <1>2, <2>1, <2>2 DEF Stale, Accepted, Leased, Pending, Early
  <2> QED
    BY <1>1, <2>1, <2>3, <2>4, TypeParts DEF ResyncInv, SvcOK
<1> QED
  BY <1>3, <1>4, <1>5, <1>6, <1>7, <1>8, <1>9 DEF RunControl

----------------------------------------------------------------------------
(* Closes and their reports; pairing commands.                             *)

\* Every step of a close keeps the invariant: its report, or that the connection
\* is lost, or the next announcement makes up for the lease.
LEMMA ClosingStep ==
    ASSUME ResyncInv, NEW t \in Terminals, Closing(t)
    PROVE  ResyncInv'
<1>1. /\ LoopOK /\ pairing \in BOOLEAN /\ local \in LocalState /\ net \in NetState
      /\ SvcOK /\ UNCHANGED <<loop, pairing, svc>>
  BY TypeParts DEF ResyncInv, Closing
<1>2. Live /\ Stale
  BY DEF ResyncInv
<1>3. LoopOK' /\ SvcOK'
  BY <1>1 DEF LoopOK, SvcOK
<1>4. ASSUME NEW to \in {"deleted", "late", "gone", "silent"}, local' = [local EXCEPT ![t] = to]
      PROVE  local' \in LocalState /\ \A u \in Terminals : local'[u] = IF u = t THEN to ELSE local[u]
  BY <1>1, <1>4 DEF LocalState
<1>5. ASSUME NEW to \in {"deleted", "late", "silent"}, local' = [local EXCEPT ![t] = to],
             local[t] \in {"live", "deleted", "late"}, UNCHANGED net
      PROVE  ResyncInv'
  <2>1. local' \in LocalState /\ \A u \in Terminals : local'[u] = IF u = t THEN to ELSE local[u]
    BY <1>4, <1>5
  <2>2. ToService' = ToService /\ ToAgent' = ToAgent
    BY <1>5 DEF ToService, ToAgent
  <2>3. Live'
    BY <1>1, <1>5, <2>1, <2>2, Leaves
  <2>4. Stale'
    BY <1>1, <1>2, <1>5, <2>1, <2>2 DEF Stale, Accepted, Leased, Pending, Early
  <2> QED
    BY <1>1, <1>3, <1>5, <2>1, <2>3, <2>4, TypeParts DEF ResyncInv
<1>6. ASSUME local' = [local EXCEPT ![t] = "gone"], local[t] \in {"deleted", "late"}, net' \in NetState,
             ToAgent' = ToAgent, net'.up => net.up,
             \A m \in ToService' \ ToService : m.kind = "closed" /\ m.ids = {t},
             net'.up => \/ ToService \subseteq ToService' /\ \E m \in ToService' : m.kind = "closed" /\ m.ids = {t}
                        \/ ToService' = ToService /\ (loop.published => loop.at = "withdraw")
      PROVE  ResyncInv'
  <2>1. local' \in LocalState /\ \A u \in Terminals : local'[u] = IF u = t THEN "gone" ELSE local[u]
    BY <1>4, <1>6
  <2>2. Live'
    BY <1>1, <1>6, <2>1, Leaves
  <2>3. Accepted' /\ Leased'
    BY <1>1, <1>2, <1>6, <2>1 DEF Stale, Accepted, Leased
  <2>4. Pending'
    <3>1. svc.since[t] < loop.conn \/ loop.at \notin Early
      BY <1>2, <1>6 DEF Stale, Leased
    <3>2. ~loop.published => loop.at \in (Early \ {"announce"}) \cup {"backoff"}
      BY <1>1 DEF LoopOK, LoopState, Steps, Early
    <3> QED
      BY <1>1, <1>2, <1>6, <2>1, <3>1, <3>2 DEF Stale, Pending, Early
  <2> QED
    BY <1>1, <1>3, <1>6, <2>1, <2>2, <2>3, <2>4, TypeParts DEF ResyncInv, Stale
<1>7. CASE Deletes(t) \/ Expires(t)
  BY <1>5, <1>7 DEF Deletes, Expires
<1>8. CASE Reports(t)
  <2> DEFINE m == Message("closed", {t})
  <2>1. m \in Messages /\ m.kind = "closed" /\ m.ids = {t}
    BY DEF Messages, Message
  <2>2. CASE loop.published
    <3>1. /\ net' \in NetState /\ net'.up = net.up /\ ToAgent' = ToAgent
          /\ ToService' = ToService \cup IF Usable THEN {m} ELSE {}
      BY <1>1, <1>8, <2>1, <2>2, AgentWrites DEF Reports
    <3>2. Usable \/ ~net.up \/ loop.at = "withdraw"
      BY <1>1, <2>2 DEF Usable, LoopOK
    <3> HIDE DEF m
    <3> QED
      BY <1>6, <1>8, <2>1, <3>1, <3>2 DEF Reports
  <2>3. CASE ~loop.published
    BY <1>1, <1>6, <1>8, <2>3 DEF Reports, ToService, ToAgent
  <2> QED
    BY <2>2, <2>3
<1>9. CASE ReportsLate(t)
  <2>1. CASE /\ local' = [local EXCEPT ![t] = IF loop.published THEN "silent" ELSE "gone"]
             /\ UNCHANGED net
    <3>1. CASE loop.published
      BY <1>5, <1>9, <2>1, <3>1 DEF ReportsLate
    <3>2. CASE ~loop.published
      BY <1>1, <1>6, <1>9, <2>1, <3>2 DEF ReportsLate, ToService, ToAgent
    <3> QED
      BY <3>1, <3>2
  <2>2. CASE /\ local' = [local EXCEPT ![t] = "gone"]
             /\ net' = [net EXCEPT !.up = FALSE, !.toService = <<>>]
    <3>1. net' \in NetState /\ ~net'.up /\ ToService' = {} /\ ToAgent' = ToAgent
      BY <1>1, <2>2, WireEmpty DEF NetState, ToService, ToAgent
    <3> QED
      BY <1>6, <1>9, <2>2, <3>1 DEF ReportsLate
  <2> QED
    BY <1>9, <2>1, <2>2 DEF ReportsLate
<1> QED
  BY <1>7, <1>8, <1>9 DEF Closing

----------------------------------------------------------------------------
(* The steps of the network and the service.                               *)

\* The service gives up a lease for a report of a terminal that is gone, or for
\* an announcement that was to leave it out.
LEMMA GivenUpRightly ==
    ASSUME ResyncInv, NEW m \in ToService, NEW t \in GivenUp(m)
    PROVE  /\ local[t] # "live"
           /\ \A w \in ToAgent : w.kind = "open" /\ t \in w.ids => local[t] # "none"
<1>1. svc.lease[t] = "open" /\ t \in Terminals
  BY DEF GivenUp
<1>2. CASE m.kind = "closed" /\ t \in m.ids
  BY <1>2 DEF ResyncInv, Live, Reported
<1>3. CASE m.kind = "active" /\ t \notin m.ids /\ svc.since[t] < svc.accepted
  <2>1. svc.accepted = loop.conn /\ svc.since[t] \in 0..loop.conn /\ loop.conn \in Nat
    BY <1>1, <1>3, TypeParts DEF ResyncInv, Stale, Accepted, SvcOK, LoopOK, LoopState
  <2>2. svc.since[t] # loop.conn
    BY <1>3, <2>1
  <2> QED
    BY <1>1, <1>3, <2>2 DEF ResyncInv, Live, Announced, Offered, ActiveIDs
<1> QED
  BY <1>2, <1>3 DEF GivenUp

\* Every step of the network and of the service keeps the invariant.
LEMMA ServiceStep ==
    ASSUME ResyncInv, Service
    PROVE  ResyncInv'
<1>1. /\ LoopOK /\ pairing \in BOOLEAN /\ local \in LocalState /\ net \in NetState
      /\ SvcOK /\ UNCHANGED <<loop, pairing, local>>
  BY TypeParts DEF ResyncInv, Service
<1>2. Live /\ Stale
  BY DEF ResyncInv
<1>3. LoopOK'
  BY <1>1 DEF LoopOK
<1>4. CASE LinkLost
  <2>1. PICK n \in 0..Len(net.toAgent) :
            net' = [up |-> FALSE, toService |-> <<>>, toAgent |-> SubSeq(net.toAgent, 1, n)]
    BY <1>4 DEF LinkLost
  <2>2. svc' = svc
    BY <1>4 DEF LinkLost
  <2>3. net' \in NetState /\ ~net'.up /\ ToService' = {} /\ ToAgent' \subseteq ToAgent
    <3>1. net.toAgent \in Seq(Messages)
      BY <1>1 DEF NetState
    <3>2. /\ SubSeq(net.toAgent, 1, n) \in Seq(Messages)
          /\ Elements(SubSeq(net.toAgent, 1, n)) \subseteq Elements(net.toAgent)
      BY <3>1, WireCut
    <3> QED
      BY <2>1, <3>2, WireEmpty DEF NetState, ToService, ToAgent
  <2>4. Live'
    <3>1. loop'.at = "announce" => loop.at = "announce"
      BY <1>1
    <3> QED
      BY <1>1, <2>2, <2>3, <3>1, Leaves
  <2>5. Stale'
    BY <1>1, <1>2, <2>2, <2>3 DEF Stale, Accepted, Leased, Pending
  <2> QED
    BY <1>1, <1>3, <2>2, <2>3, <2>4, <2>5, TypeParts DEF ResyncInv, SvcOK
<1>5. ASSUME NEW t \in Terminals, ServiceLeases(t)
      PROVE  ResyncInv'
  <2> DEFINE m == Message("open", {t})
  <2>1. m \in Messages /\ m.kind = "open" /\ m.ids = {t}
    BY <1>5 DEF Messages, Message
  <2>2. /\ net' \in NetState /\ net'.up = net.up /\ ToService' = ToService
        /\ ToAgent' = ToAgent \cup IF net.up THEN {m} ELSE {}
    BY <1>1, <1>5, <2>1, ServiceWritesOn DEF ServiceLeases
  <2>3. svc.accepted = loop.conn /\ svc.lease[t] = "none" /\ loop.conn \in Nat
    BY <1>1, <1>5 DEF ServiceLeases, SvcOK, LoopOK, LoopState
  <2>4. /\ SvcOK' /\ svc'.accepted = svc.accepted
        /\ \A u \in Terminals : /\ svc'.lease[u] = IF u = t THEN "open" ELSE svc.lease[u]
                                /\ svc'.since[u] = IF u = t THEN loop.conn ELSE svc.since[u]
    <3>1. svc' = [svc EXCEPT !.lease = [svc.lease EXCEPT ![t] = "open"],
                             !.since = [svc.since EXCEPT ![t] = loop.conn]]
      BY <1>1, <1>5, <2>3 DEF ServiceLeases, SvcOK
    <3>2. /\ [svc.lease EXCEPT ![t] = "open"] \in [Terminals -> {"none", "open", "ended", "revoked"}]
          /\ [svc.since EXCEPT ![t] = loop.conn] \in [Terminals -> 0..loop.conn]
      BY <1>1, <2>3 DEF SvcOK
    <3> QED
      BY <1>1, <2>3, <3>1, <3>2 DEF SvcOK
  <2>5. local[t] = "none"
    BY <1>2, <2>3 DEF Stale, Leased
  <2> HIDE DEF m
  <2>6. \A w \in ToService \cup ToAgent : w.ids \subseteq Terminals
    BY <1>1, UnderWay
  <2>7. Live'
    BY <1>1, <1>2, <2>1, <2>2, <2>4, <2>5, <2>6 DEF Live, Reported, Announced, Offered, LiveKeepsItsLease, ActiveIDs
  <2>8. Stale'
    BY <1>1, <1>2, <2>1, <2>2, <2>4, <2>5 DEF Stale, Accepted, Leased, Pending
  <2> QED
    BY <1>1, <1>3, <2>2, <2>4, <2>7, <2>8, TypeParts DEF ResyncInv
<1>6. ASSUME NEW t \in Terminals, BrowserStops(t)
      PROVE  ResyncInv'
  <2> DEFINE m == Message("stop", {t})
  <2>1. m \in Messages /\ m.kind = "stop" /\ m.ids = {t}
    BY <1>6 DEF Messages, Message
  <2>2. /\ net' \in NetState /\ net'.up = net.up /\ ToService' = ToService /\ svc' = svc
        /\ ToAgent' = ToAgent \cup IF net.up THEN {m} ELSE {}
    BY <1>1, <1>6, <2>1, ServiceWritesOn DEF BrowserStops
  <2> HIDE DEF m
  <2>3. Live'
    BY <1>1, <1>2, <2>1, <2>2 DEF Live, Reported, Announced, Offered, LiveKeepsItsLease, ActiveIDs
  <2>4. Stale'
    BY <1>1, <1>2, <2>1, <2>2 DEF Stale, Accepted, Leased, Pending
  <2> QED
    BY <1>1, <1>3, <2>2, <2>3, <2>4, TypeParts DEF ResyncInv, SvcOK
<1>7. ASSUME NEW t \in Terminals, ServiceRevokes(t)
      PROVE  ResyncInv'
  <2> DEFINE m == Message("terminal.close", {t})
  <2>1. m \in Messages /\ m.kind = "terminal.close" /\ m.ids = {t}
    BY <1>7 DEF Messages, Message
  <2>2. /\ net' \in NetState /\ net'.up = net.up /\ ToService' = ToService
        /\ ToAgent \subseteq ToAgent' /\ ToAgent' \subseteq ToAgent \cup {m}
    <3>1. CASE svc.accepted # 0
      BY <1>1, <1>7, <2>1, <3>1, ServiceWritesOn DEF ServiceRevokes
    <3>2. CASE svc.accepted = 0
      BY <1>1, <1>7, <3>2 DEF ServiceRevokes, ToService, ToAgent
    <3> QED
      BY <3>1, <3>2
  <2>3. /\ SvcOK' /\ svc'.accepted = svc.accepted /\ svc'.since = svc.since
        /\ \A u \in Terminals : svc'.lease[u] = IF u = t THEN "revoked" ELSE svc.lease[u]
    <3>1. svc' = [svc EXCEPT !.lease = [svc.lease EXCEPT ![t] = "revoked"]]
      BY <1>1, <1>7 DEF ServiceRevokes, SvcOK
    <3>2. [svc.lease EXCEPT ![t] = "revoked"] \in [Terminals -> {"none", "open", "ended", "revoked"}]
      BY <1>1 DEF SvcOK
    <3> QED
      BY <1>1, <3>1, <3>2 DEF SvcOK
  <2> HIDE DEF m
  <2>4. \A w \in ToService \cup ToAgent : w.ids \subseteq Terminals
    BY <1>1, UnderWay
  <2>5. Live'
    BY <1>1, <1>2, <2>1, <2>2, <2>3, <2>4 DEF Live, Reported, Announced, Offered, LiveKeepsItsLease, ActiveIDs
  <2>6. Stale'
    BY <1>1, <1>2, <2>1, <2>2, <2>3 DEF Stale, Accepted, Leased, Pending
  <2> QED
    BY <1>1, <1>3, <2>2, <2>3, <2>5, <2>6, TypeParts DEF ResyncInv
<1>8. CASE ServiceReads
  <2> DEFINE m == Head(net.toService)
  <2>1. net.toService # <<>>
    BY <1>8 DEF ServiceReads
  <2>2. /\ m \in Messages /\ Tail(net.toService) \in Seq(Messages)
        /\ ToService = Elements(Tail(net.toService)) \cup {m}
    BY <1>1, <2>1, WireTail DEF NetState, ToService
  <2>3. /\ net' \in NetState /\ net'.up = net.up /\ ToService = ToService' \cup {m}
        /\ ToAgent \subseteq ToAgent'
        /\ \A w \in ToAgent' \ ToAgent : w.kind # "open" /\ (w.kind = "ready" => m.kind = "prove")
    <3>1. CASE m.kind \in {"hello", "prove"}
      <4> DEFINE reply == Message(IF m.kind = "hello" THEN "challenge" ELSE "ready", {})
      <4>1. reply \in Messages /\ reply.kind = IF m.kind = "hello" THEN "challenge" ELSE "ready"
        BY DEF Messages, Message
      <4>2. net' = [net EXCEPT !.toService = Tail(net.toService), !.toAgent = Append(net.toAgent, reply)]
        <5> DEFINE replies == [hello |-> "challenge", prove |-> "ready"]
                   rest == [net EXCEPT !.toService = Tail(@)]
        <5>1. DOMAIN replies = {"hello", "prove"} /\ reply = Message(replies[m.kind], {})
          BY <3>1
        <5>2. net' = IF m.kind \in DOMAIN replies
                     THEN [rest EXCEPT !.toAgent = Append(@, Message(replies[m.kind], {}))] ELSE rest
          BY <1>8 DEF ServiceReads
        <5> HIDE DEF replies, reply
        <5>3. net' = [rest EXCEPT !.toAgent = Append(rest.toAgent, reply)]
          BY <3>1, <5>1, <5>2
        <5> QED
          BY <1>1, <5>3 DEF NetState
      <4> HIDE DEF reply
      <4>3. /\ Append(net.toAgent, reply) \in Seq(Messages)
            /\ Elements(Append(net.toAgent, reply)) = Elements(net.toAgent) \cup {reply}
        BY <1>1, <4>1, WireAppend DEF NetState
      <4> HIDE DEF m
      <4> QED
        BY <1>1, <2>2, <3>1, <4>1, <4>2, <4>3 DEF NetState, ToService, ToAgent
    <3>2. CASE m.kind \notin {"hello", "prove"}
      <4>1. net' = [net EXCEPT !.toService = Tail(net.toService)]
        BY <1>8, <3>2 DEF ServiceReads
      <4> HIDE DEF m
      <4> QED
        BY <1>1, <2>2, <4>1 DEF NetState, ToService, ToAgent
    <3> QED
      BY <3>1, <3>2
  <2>4. /\ SvcOK' /\ svc'.since = svc.since
        /\ svc'.accepted = IF m.kind = "prove" THEN loop.conn ELSE svc.accepted
        /\ \A t \in Terminals : svc'.lease[t] = IF t \in GivenUp(m) THEN "ended" ELSE svc.lease[t]
    <3> DEFINE lease == [t \in Terminals |-> IF t \in GivenUp(m) THEN "ended" ELSE svc.lease[t]]
               accepted == IF m.kind = "prove" THEN loop.conn ELSE svc.accepted
    <3>1. svc' = [svc EXCEPT !.accepted = accepted, !.lease = lease]
      BY <1>8 DEF ServiceReads
    <3>2. lease \in [Terminals -> {"none", "open", "ended", "revoked"}] /\ accepted \in {0, loop.conn}
      BY <1>1 DEF SvcOK
    <3> HIDE DEF m, accepted
    <3>3. \A t \in Terminals : lease[t] = IF t \in GivenUp(m) THEN "ended" ELSE svc.lease[t]
      OBVIOUS
    <3> HIDE DEF lease
    <3>4. SvcOK' /\ svc'.since = svc.since /\ svc'.accepted = accepted /\ svc'.lease = lease
      BY <1>1, <3>1, <3>2 DEF SvcOK
    <3> QED
      BY <3>3, <3>4 DEF accepted
  <2> HIDE DEF m
  <2>5. m \in ToService /\ \A w \in ToService \cup ToAgent : w.ids \subseteq Terminals
    BY <1>1, <2>3, UnderWay
  <2>6. \A t \in GivenUp(m) : /\ local[t] # "live"
                              /\ \A w \in ToAgent : w.kind = "open" /\ t \in w.ids => local[t] # "none"
    BY <2>5, GivenUpRightly
  <2>7. Live'
    <3>1. Reported' /\ Announced'
      BY <1>1, <1>2, <2>3, <2>4 DEF Live, Reported, Announced, ActiveIDs
    <3>2. Offered'
      BY <1>1, <1>2, <2>3, <2>4, <2>5, <2>6 DEF Live, Offered
    <3>3. LiveKeepsItsLease'
      BY <1>1, <1>2, <2>4, <2>6 DEF Live, LiveKeepsItsLease
    <3> QED
      BY <3>1, <3>2, <3>3 DEF Live
  <2>8. Stale'
    <3>1. Accepted'
      BY <1>1, <1>2, <2>3, <2>4 DEF Stale, Accepted
    <3>2. Leased'
      BY <1>1, <1>2, <2>4 DEF Stale, Leased
    <3>3. Pending'
      <4> SUFFICES ASSUME NEW t \in Terminals, svc'.lease[t] = "open", local[t] \in {"none", "gone"}, net.up,
                          loop.at \notin {"backoff", "stop", "withdraw"}
                   PROVE  \/ local[t] = "none" /\ \E w \in ToAgent' : w.kind = "open" /\ t \in w.ids
                          \/ local[t] = "gone" /\ \E w \in ToService' : w.kind = "closed" /\ t \in w.ids
                          \/ /\ svc.since[t] < loop.conn
                             /\ \/ loop.at \in Early \ {"announce"}
                                \/ loop.at = "announce" /\ t \notin loop.snapshot
                                \/ \E w \in ToService' : w.kind = "active" /\ t \notin w.ids
        BY <1>1, <2>3, <2>4 DEF Pending
      <4>1. svc.lease[t] = "open" /\ t \notin GivenUp(m)
        BY <2>4
      <4>2. ~(m.kind = "closed" /\ t \in m.ids) /\ ~(m.kind = "active" /\ t \notin m.ids /\ svc.since[t] < loop.conn)
        BY <1>2, <2>5, <4>1 DEF GivenUp, Stale, Accepted
      <4> QED
        BY <1>2, <2>3, <4>1, <4>2 DEF Stale, Pending
    <3> QED
      BY <3>1, <3>2, <3>3 DEF Stale
  <2> QED
    BY <1>1, <1>3, <2>3, <2>4, <2>7, <2>8, TypeParts DEF ResyncInv
<1> QED
  BY <1>1, <1>4, <1>5, <1>6, <1>7, <1>8 DEF Service

----------------------------------------------------------------------------
(* The theorems.                                                           *)

\* The invariant holds at first.
LEMMA ResyncInit == Init => ResyncInv
<1> SUFFICES ASSUME Init PROVE ResyncInv
  OBVIOUS
<1>1. ToService = {} /\ ToAgent = {}
  BY WireEmpty DEF Init, ToService, ToAgent
<1>2. TypeOK
  <2>1. loop \in LoopState
    BY ResyncAssumption DEF Init, LoopState, Steps
  <2>2. net \in [up : BOOLEAN, toService : Seq(Messages), toAgent : Seq(Messages)]
    BY WireEmpty DEF Init
  <2>3. svc \in [accepted : {0, loop.conn}, lease : [Terminals -> {"none", "open", "ended", "revoked"}],
                 since : [Terminals -> 0..loop.conn]]
    BY DEF Init
  <2>4. local \in [Terminals -> {"none", "live", "deleted", "late", "gone", "silent"}] /\ pairing \in BOOLEAN
    BY DEF Init
  <2> QED
    BY <2>1, <2>2, <2>3, <2>4 DEF Init, TypeOK, LoopState, Steps
<1>3. Live
  BY <1>1 DEF Init, Live, Reported, Announced, Offered, LiveKeepsItsLease
<1>4. Stale
  BY <1>1 DEF Init, Stale, Accepted, Leased, Pending
<1> QED
  BY <1>2, <1>3, <1>4 DEF ResyncInv

\* Every step keeps the invariant; pairing commands only delay others.
LEMMA ResyncStep == ResyncInv /\ [Next]_vars => ResyncInv'
<1> SUFFICES ASSUME ResyncInv, [Next]_vars PROVE ResyncInv'
  OBVIOUS
<1>1. ASSUME UNCHANGED <<loop, local, net, svc>>, pairing' \in BOOLEAN PROVE ResyncInv'
  <2>1. TypeOK'
    BY <1>1 DEF ResyncInv, TypeOK
  <2>2. ToService' = ToService /\ ToAgent' = ToAgent
    BY <1>1 DEF ToService, ToAgent
  <2>3. Live'
    BY <1>1, <2>2 DEF ResyncInv, Live, Reported, Announced, Offered, LiveKeepsItsLease, ActiveIDs
  <2>4. Stale'
    BY <1>1, <2>2 DEF ResyncInv, Stale, Accepted, Leased, Pending
  <2> QED
    BY <2>1, <2>3, <2>4 DEF ResyncInv
<1>2. CASE UNCHANGED vars
  BY <1>1, <1>2 DEF vars, ResyncInv, TypeOK
<1>3. CASE Pairing
  BY <1>1, <1>3 DEF Pairing, PairingBegins, PairingEnds
<1> QED
  BY <1>2, <1>3, ConnectStep, RunControlStep, ClosingStep, ServiceStep DEF Next

\* The invariant of terminals and leases over connections that come and go.
THEOREM ResyncInvariant == Spec => []ResyncInv
BY ResyncInit, ResyncStep, PTL DEF Spec

\* The types; with them that there is no socket open that runControl does not
\* know of, and that Signal waits only for terminals it has closed.
THEOREM ResyncTypes == Spec => []TypeOK
BY ResyncInvariant, PTL DEF ResyncInv

\* ActiveIDs, announced after every handshake, and the close reports: whatever
\* crosses on the wire or is lost with a connection, no live terminal loses its
\* lease by it.
THEOREM LiveTerminalsKeepTheirLease == Spec => []LiveKeepsItsLease
BY ResyncInvariant, PTL DEF ResyncInv, Live

\* When nothing is under way, nothing is pending.
LEMMA NothingPending == ResyncInv => LeasesSettle
<1> SUFFICES ASSUME ResyncInv, Settled, NEW t \in Terminals, svc.lease[t] = "open"
             PROVE  local[t] \in {"live", "silent"}
  BY DEF LeasesSettle
<1>1. ToService = {} /\ ToAgent = {}
  BY WireEmpty DEF Settled, ToService, ToAgent
<1>2. local[t] \notin {"none", "gone"}
  BY <1>1 DEF ResyncInv, Stale, Pending, Settled, Early
<1> QED
  BY <1>2 DEF ResyncInv, TypeOK, Settled

\* After an announcement both sides agree: an open lease is of a live terminal,
\* or of one whose late report failed on a connection that stayed up.
THEOREM OpenLeasesAreLive == Spec => []LeasesSettle
BY ResyncInvariant, NothingPending, PTL
=============================================================================
