------------------------------ MODULE CliProofs -------------------------------
(***************************************************************************)
(* The safety of the commands for every set of them and every number of    *)
(* pairings and connections: what the agent believes of its pairing, what  *)
(* `pair --wait' confirms, and what `revoke' and `uninstall' report.       *)
(*                                                                         *)
(* CliInv has four parts over the types.  Commands follows each command    *)
(* and its call in the agent, up to what `pair --wait' has seen.  Sessions *)
(* and Older say what survives a connection.  Matched and Truth are about  *)
(* the connection that is up: every revocation under way has a handler     *)
(* that waits, so none takes effect unnoticed, and what the service has    *)
(* the agent believes or is about to hear.  Receipts gives each revocation *)
(* that a command reports, or an unread response stands for, a revocation  *)
(* of the service of its own.                                              *)
(*                                                                         *)
(* The proofs first say what each action does to each field (Calling to    *)
(* Browsing), and then use only that.                                      *)
(***************************************************************************)
EXTENDS Cli, FiniteSetTheorems, SequenceTheorems, TLAPS

(***************************************************************************)
(* The types.                                                              *)
(***************************************************************************)
Requests == {"pair", "cancel", "revoke", "status"}
ClientState == [job : Jobs \cup {"none"},
                at : {"idle", "call", "sleep", "wait", "done", "goeson"},
                told : {"nothing", "error", "expired", "ok", "dead", "confirmed"},
                verified : BOOLEAN, event : BOOLEAN, anew : BOOLEAN]
Replied == {"none", "ok", "unavailable", "error", "dead"}
CallState == [kind : Requests \cup {"none"},
              at : {"begin", "lookup", "answer", "clear", "reply"},
              conn : 0..MaxConns,
              reply : Replied,
              crossed : BOOLEAN]
AgentState == [paired : BOOLEAN, verified : BOOLEAN, conn : 0..MaxConns, conns : Conns,
               events : Seq(Events), responses : [Conns -> Seq(Requests)], torn : BOOLEAN]
LinkState == [state : {"up", "dying", "down"}, toService : Seq(Requests)]
ServiceState == [credential : BOOLEAN, pairing : {"none", "open", "verified"},
                 pairings : Nat, revocations : Nat]
Types ==
    /\ client \in [Clients -> ClientState]
    /\ call \in [Clients -> CallState]
    /\ agent \in AgentState
    /\ link \in LinkState
    /\ svc \in ServiceState

(***************************************************************************)
(* The commands.                                                           *)
(***************************************************************************)

\* A command and its call in the agent fit together.
Command(c) ==
    /\ client[c].at = "call" <=> call[c].kind # "none"
    /\ client[c].job = "none" <=> client[c].at = "idle"
    /\ client[c].told # "nothing" => client[c].at \in {"done", "goeson"}
    /\ client[c].at = "wait" \/ call[c].kind = "status" => client[c].job = "pair"
    /\ call[c].kind \in {"pair", "cancel", "revoke"} => call[c].kind = Kind(client[c].job)
    /\ call[c].kind = "none" => call[c].at = "begin"
    /\ call[c].at = "answer" => call[c].conn # 0
    /\ call[c].at = "clear" => call[c].kind = "revoke"
    /\ call[c].at = "reply" => call[c].reply # "none"

\* These will read pairingVerified, or have begun to.
Watching(c) ==
    \/ client[c].at = "wait" \/ call[c].kind = "status"
    \/ call[c].kind = "pair" /\ call[c].at # "begin"

\* They take it only for an event that came after their createPairing.
Watch(c) ==
    /\ Watching(c) /\ agent.verified => client[c].event
    /\ call[c].kind = "status" /\ call[c].at # "begin" /\ client[c].verified => client[c].anew
    /\ client[c].told = "confirmed" => client[c].anew

Commands == \A c \in Clients : Command(c) /\ Watch(c)

(***************************************************************************)
(* The connection.                                                         *)
(***************************************************************************)

\* Nothing is under way without a connection, nor on one that is to come.
Sessions ==
    /\ agent.conn \in {0, agent.conns}
    /\ agent.conn = 0 => link.state = "down" /\ agent.events = <<>>
    /\ link.state = "down" => link.toService = <<>>
    /\ \A n \in Conns : n > agent.conns => agent.responses[n] = <<>>

\* A revocation in its handler, on this connection, without its answer.
Active(c) == call[c].kind = "revoke" /\ call[c].at \in {"answer", "clear"}
Current(c) == Active(c) /\ call[c].conn = agent.conn
Waits(c) == Current(c) /\ call[c].at = "answer"

\* A revocation asked for on an older connection knows that it is crossed.
Older == \A c \in Clients : agent.conn # 0 /\ Active(c) /\ ~Current(c) => call[c].crossed

\* Requests and responses in the order in which they will be read.
Pipeline == agent.responses[agent.conn] \o link.toService
Sound == link.state = "up" /\ ~agent.torn

\* S can be given different elements of T.
Paid(S, T) == \E f \in [S -> T] : \A x, y \in S : f[x] = f[y] => x = y

\* The places of a queue where a revocation stands.
Revs(queue) == {i \in DOMAIN queue : queue[i] = "revoke"}

\* Every revocation under way has a handler that waits for it.
Waiting == {c \in Clients : Waits(c)}
Matched == Sound => Paid(Revs(Pipeline), Waiting)

\* What the service has the agent believes, or will hear, or a handler is about
\* to learn.
Uncrossed == \A c \in Clients : Current(c) => ~call[c].crossed
Ahead(events) == \E i \in DOMAIN events : events[i] = "agent.paired"
PairedAhead == Ahead(agent.events)
Revoked == \/ Revs(agent.responses[agent.conn]) # {}
           \/ \E c \in Clients : Current(c) /\ call[c].at = "clear"

Truth ==
    Sound /\ Uncrossed =>
        /\ Revoked => ~svc.credential \/ PairedAhead
        /\ svc.credential => agent.paired \/ PairedAhead
        /\ agent.paired \/ PairedAhead => svc.credential \/ \E c \in Clients : Current(c)

(***************************************************************************)
(* What revocations are reported.                                          *)
(***************************************************************************)

\* A command that says, or will say, that the passkey is revoked.
Entitled(c) ==
    /\ Kind(client[c].job) = "revoke"
    /\ \/ client[c].told = "ok"
       \/ call[c].kind = "revoke" /\ call[c].at = "clear"
       \/ call[c].kind = "revoke" /\ call[c].at = "reply" /\ call[c].reply = "ok"

\* The revocations of the service are numbered; each of these commands and each
\* response that nobody has read has a number that no other one has.
Receipts ==
    \E own \in SUBSET (1..svc.revocations), owed \in [Conns -> SUBSET (1..svc.revocations)] :
        /\ \A n \in Conns : owed[n] \cap own = {}
        /\ \A m, n \in Conns : m # n => owed[m] \cap owed[n] = {}
        /\ Paid({c \in Clients : Entitled(c)}, own)
        /\ \A n \in Conns : Paid(Revs(agent.responses[n]), owed[n])

CliInv == Types /\ Commands /\ Sessions /\ Older /\ Matched /\ Truth /\ Receipts

----------------------------------------------------------------------------
(* What the steps do, field by field.                                      *)

\* The program starts with its types.
LEMMA InitTypes == Init => Types
BY CliAssumption DEF Init, Types, NoCall, ClientState, CallState, AgentState, LinkState,
   ServiceState, Replied, Jobs, Conns, Events, Requests

\* What Calls does to the call of a command.
LEMMA Calling ==
    ASSUME Types, NEW c \in Clients, NEW kind \in Requests, Calls(c, kind)
    PROVE  /\ call' \in [Clients -> CallState]
           /\ call'[c].kind = kind /\ call'[c].at \in {"begin", "lookup"}
           /\ call'[c].at = "begin" <=> kind \in {"pair", "status"}
           /\ call'[c].reply = "none"
           /\ \A d \in Clients : d # c => call'[d] = call[d]
<1> DEFINE start == IF kind \in {"pair", "status"} THEN "begin" ELSE "lookup"
           new == [NoCall EXCEPT !.kind = kind, !.at = start]
<1>1. start \in {"begin", "lookup"} /\ (start = "begin" <=> kind \in {"pair", "status"})
  OBVIOUS
<1>2. call' = [call EXCEPT ![c] = new]
  BY DEF Calls
<1> HIDE DEF start
<1>3. NoCall \in CallState /\ NoCall.reply = "none"
  BY CliAssumption DEF NoCall, CallState, Replied
<1>4. /\ new \in CallState /\ new.kind = kind /\ new.reply = "none" /\ new.at = start
  BY <1>1, <1>3 DEF CallState, Requests
<1> HIDE DEF new
<1> QED
  BY <1>1, <1>2, <1>4 DEF Types

\* What Ends does to a command.
LEMMA Ending ==
    ASSUME Types, NEW c \in Clients,
           NEW at \in {"call", "sleep", "wait", "done", "goeson"},
           NEW told \in {"error", "expired", "ok", "dead", "confirmed"}, Ends(c, at, told)
    PROVE  /\ client' \in [Clients -> ClientState]
           /\ client'[c].at = at /\ client'[c].told = told /\ client'[c].job = client[c].job
           /\ client'[c].anew = client[c].anew /\ client'[c].verified = client[c].verified
           /\ \A d \in Clients : d # c => client'[d] = client[d]
<1> DEFINE new == [client[c] EXCEPT !.at = at, !.told = told, !.event = FALSE]
<1>1. client[c] \in ClientState
  BY DEF Types
<1>2. /\ new \in ClientState /\ new.at = at /\ new.told = told /\ new.job = client[c].job
      /\ new.anew = client[c].anew /\ new.verified = client[c].verified
  BY <1>1 DEF ClientState
<1>3. client' = [client EXCEPT ![c] = new]
  BY DEF Ends
<1> HIDE DEF new
<1> QED
  BY <1>2, <1>3 DEF Types

\* What Pauses does to a command.
LEMMA Pausing ==
    ASSUME Types, NEW c \in Clients,
           NEW at \in {"call", "sleep", "wait", "done", "goeson"}, Pauses(c, at)
    PROVE  /\ client' \in [Clients -> ClientState]
           /\ client'[c].at = at /\ client'[c].told = client[c].told
           /\ client'[c].job = client[c].job /\ client'[c].event = client[c].event
           /\ client'[c].anew = client[c].anew /\ client'[c].verified = client[c].verified
           /\ \A d \in Clients : d # c => client'[d] = client[d]
<1> DEFINE new == [client[c] EXCEPT !.at = at]
<1>1. client[c] \in ClientState
  BY DEF Types
<1>2. /\ new \in ClientState /\ new.at = at /\ new.told = client[c].told
      /\ new.job = client[c].job /\ new.event = client[c].event
      /\ new.anew = client[c].anew /\ new.verified = client[c].verified
  BY <1>1 DEF ClientState
<1>3. client' = [client EXCEPT ![c] = new]
  BY DEF Pauses
<1> HIDE DEF new
<1> QED
  BY <1>2, <1>3 DEF Types

\* What status tells its client of pairingVerified.
LEMMA Reporting ==
    ASSUME Types, NEW c \in Clients, Reports(c)
    PROVE  /\ client' \in [Clients -> ClientState]
           /\ client'[c].at = client[c].at /\ client'[c].told = client[c].told
           /\ client'[c].job = client[c].job /\ client'[c].event = client[c].event
           /\ client'[c].anew = client[c].event /\ client'[c].verified = agent.verified
           /\ \A d \in Clients : d # c => client'[d] = client[d]
<1> DEFINE verified == agent.verified
           event == client[c].event
           new == [client[c] EXCEPT !.verified = verified, !.anew = event]
<1>1. client[c] \in ClientState /\ verified \in BOOLEAN /\ event \in BOOLEAN
  BY DEF Types, ClientState, AgentState
<1>2. client' = [client EXCEPT ![c] = new]
  BY DEF Reports
<1>3. event = client[c].event /\ verified = agent.verified
  OBVIOUS
<1> HIDE DEF verified, event
<1>4. /\ new \in ClientState /\ new.at = client[c].at /\ new.told = client[c].told
      /\ new.job = client[c].job /\ new.event = client[c].event
      /\ new.anew = event /\ new.verified = verified
  BY <1>1 DEF ClientState
<1> HIDE DEF new
<1> QED
  BY <1>2, <1>3, <1>4 DEF Types

\* What Goes does to a call.
LEMMA Going ==
    ASSUME Types, NEW c \in Clients,
           NEW at \in {"lookup", "answer", "clear"}, Goes(c, at)
    PROVE  /\ call' \in [Clients -> CallState]
           /\ call'[c].at = at /\ call'[c].kind = call[c].kind /\ call'[c].conn = call[c].conn
           /\ call'[c].reply = call[c].reply /\ (call'[c].crossed <=> call[c].crossed)
           /\ \A d \in Clients : d # c => call'[d] = call[d]
<1> DEFINE new == [call[c] EXCEPT !.at = at]
<1>1. call[c] \in CallState
  BY DEF Types
<1>2. /\ new \in CallState /\ new.at = at /\ new.kind = call[c].kind
      /\ new.conn = call[c].conn /\ new.reply = call[c].reply
      /\ new.crossed <=> call[c].crossed
  BY <1>1 DEF CallState
<1>3. call' = [call EXCEPT ![c] = new]
  BY DEF Goes
<1> HIDE DEF new
<1> QED
  BY <1>2, <1>3 DEF Types

\* What Replies does to a call.
LEMMA Replying ==
    ASSUME Types, NEW c \in Clients, NEW reply \in Replied, Replies(c, reply)
    PROVE  /\ call' \in [Clients -> CallState]
           /\ call'[c].at = "reply" /\ call'[c].kind = call[c].kind
           /\ call'[c].conn = call[c].conn /\ call'[c].reply = reply
           /\ call'[c].crossed <=> call[c].crossed
           /\ \A d \in Clients : d # c => call'[d] = call[d]
<1> DEFINE new == [call[c] EXCEPT !.at = "reply", !.reply = reply]
<1>1. call[c] \in CallState
  BY DEF Types
<1>2. /\ new \in CallState /\ new.at = "reply" /\ new.kind = call[c].kind
      /\ new.conn = call[c].conn /\ new.reply = reply
      /\ new.crossed <=> call[c].crossed
  BY <1>1 DEF CallState
<1>3. call' = [call EXCEPT ![c] = new]
  BY DEF Replies
<1> HIDE DEF new
<1> QED
  BY <1>2, <1>3 DEF Types

\* An agent.paired event or a new connection crosses the revocations that are active.
LEMMA Crossing ==
    ASSUME Types, call' = Crossed
    PROVE  /\ call' \in [Clients -> CallState]
           /\ \A c \in Clients :
                /\ call'[c].at = call[c].at /\ call'[c].kind = call[c].kind
                /\ call'[c].conn = call[c].conn /\ call'[c].reply = call[c].reply
                /\ call'[c].crossed <=> call[c].crossed \/ Active(c)
<1> DEFINE new(c) == [call[c] EXCEPT !.crossed = @ \/ Active(c)]
           active(c) == call[c].crossed \/ Active(c)
<1>1. \A c \in Clients : call'[c] = new(c)
  BY DEF Crossed, Active
<1>2. call' = [c \in Clients |-> new(c)]
  BY DEF Crossed, Active
<1>3. \A c \in Clients : call[c] \in CallState
  BY DEF Types
<1>4. \A c \in Clients : active(c) \in BOOLEAN
  OBVIOUS
<1>5. \A c \in Clients : new(c) = [call[c] EXCEPT !.crossed = active(c)]
  OBVIOUS
<1> HIDE DEF active, new
<1>6. \A c \in Clients :
        /\ new(c) \in CallState /\ new(c).at = call[c].at /\ new(c).kind = call[c].kind
        /\ new(c).conn = call[c].conn /\ new(c).reply = call[c].reply
        /\ new(c).crossed = active(c)
  BY <1>3, <1>4, <1>5 DEF CallState
<1>7. \A c \in Clients : active(c) <=> call[c].crossed \/ Active(c)
  BY DEF active
<1> HIDE DEF Active
<1> QED
  BY <1>1, <1>2, <1>6, <1>7

\* What Misses does to the agent: one response of the session is lost with it.
LEMMA Missing ==
    ASSUME Types, NEW c \in Clients, NEW reply \in Replied, Misses(c, reply),
           call[c].conn # 0
    PROVE  /\ agent' \in AgentState
           /\ agent'.paired = agent.paired /\ agent'.verified = agent.verified
           /\ agent'.conn = agent.conn /\ agent'.conns = agent.conns
           /\ agent'.events = agent.events
           /\ agent'.torn <=> \/ agent.torn
                              \/ call[c].kind = "revoke" /\ call[c].conn = agent.conn
           /\ agent'.responses = [agent.responses EXCEPT
                ![call[c].conn] = IF @ = <<>> THEN @ ELSE Tail(@)]
<1> DEFINE n == call[c].conn
           torn == agent.torn \/ (call[c].kind = "revoke" /\ call[c].conn = agent.conn)
           responses == [agent.responses EXCEPT ![n] = IF @ = <<>> THEN @ ELSE Tail(@)]
<1>1. n \in Conns
  BY CliAssumption DEF Types, CallState, Conns
<1>2. torn \in BOOLEAN
  OBVIOUS
<1>3. responses \in [Conns -> Seq(Requests)]
  <2>1. \A s \in Seq(Requests) : (IF s = <<>> THEN s ELSE Tail(s)) \in Seq(Requests)
    OBVIOUS
  <2> QED
    BY <1>1, <2>1 DEF Types, AgentState
<1>4. agent' = [agent EXCEPT !.torn = torn, !.responses = responses]
  BY DEF Misses
<1>5. torn <=> agent.torn \/ (call[c].kind = "revoke" /\ call[c].conn = agent.conn)
  OBVIOUS
<1> HIDE DEF torn
<1>6. agent \in AgentState
  BY DEF Types
<1>7. /\ agent' \in AgentState
      /\ agent'.paired = agent.paired /\ agent'.verified = agent.verified
      /\ agent'.conn = agent.conn /\ agent'.conns = agent.conns
      /\ agent'.events = agent.events /\ agent'.torn = torn /\ agent'.responses = responses
  BY <1>2, <1>3, <1>4, <1>6 DEF AgentState
<1> QED
  BY <1>5, <1>7

\* A step of one command keeps what is known of the others, unless a pairing is verified.
LEMMA OneCommand ==
    ASSUME Commands, NEW c \in Clients, (Command(c) /\ Watch(c))',
           \A d \in Clients : d # c => client'[d] = client[d] /\ call'[d] = call[d],
           agent'.verified => agent.verified
    PROVE  Commands'
<1> SUFFICES ASSUME NEW d \in Clients, d # c PROVE (Command(d) /\ Watch(d))'
  BY DEF Commands
<1>1. client'[d] = client[d] /\ call'[d] = call[d]
  OBVIOUS
<1>2. Command(d)'
  BY <1>1 DEF Commands, Command
<1>3. Watch(d)'
  BY <1>1 DEF Commands, Watch, Watching
<1> QED
  BY <1>2, <1>3

\* A step that the session does not notice.
Quiet ==
    /\ agent'.conn = agent.conn /\ agent'.conns = agent.conns
    /\ agent'.paired = agent.paired /\ agent'.torn = agent.torn
    /\ agent'.events = agent.events /\ agent'.responses = agent.responses
    /\ UNCHANGED <<link, svc>>
    /\ \A c \in Clients :
        /\ Active(c)' <=> Active(c)
        /\ Active(c) => call'[c] = call[c]
        /\ Entitled(c)' => Entitled(c)

\* A step of one command outside its revocation is quiet.
LEMMA OneQuiet ==
    ASSUME NEW c \in Clients, ~Active(c), ~Active(c)', Entitled(c)' => Entitled(c),
           \A d \in Clients : d # c => client'[d] = client[d] /\ call'[d] = call[d],
           agent'.conn = agent.conn, agent'.conns = agent.conns,
           agent'.paired = agent.paired, agent'.torn = agent.torn,
           agent'.events = agent.events, agent'.responses = agent.responses,
           UNCHANGED <<link, svc>>
    PROVE  Quiet
<1>1. ASSUME NEW d \in Clients, d # c
      PROVE  (Active(d)' <=> Active(d)) /\ call'[d] = call[d] /\ (Entitled(d)' => Entitled(d))
  BY <1>1 DEF Active, Entitled
<1> QED
  BY <1>1 DEF Quiet

\* A command starts.
LEMMA StartsKeeps ==
    ASSUME Types, Commands, NEW c \in Clients, NEW job \in Jobs, Starts(c, job)
    PROVE  Types' /\ Commands' /\ Quiet
<1>1. Kind(job) \in Requests \ {"status"} /\ (Kind(job) = "pair" => job = "pair")
  BY DEF Kind, Jobs, Requests
<1>2. /\ call' \in [Clients -> CallState] /\ call'[c].kind = Kind(job)
      /\ call'[c].at \in {"begin", "lookup"}
      /\ call'[c].at = "begin" <=> Kind(job) \in {"pair", "status"}
      /\ \A d \in Clients : d # c => call'[d] = call[d]
  BY <1>1, Calling DEF Starts
<1>3. /\ client' \in [Clients -> ClientState]
      /\ client'[c].job = job /\ client'[c].at = "call" /\ client'[c].told = client[c].told
      /\ client'[c].anew = client[c].anew
      /\ \A d \in Clients : d # c => client'[d] = client[d]
  BY DEF Types, Starts, ClientState
<1>4. client[c].at = "idle" /\ UNCHANGED <<agent, link, svc>>
  BY DEF Starts
<1>5. Command(c)'
  BY <1>1, <1>2, <1>3, <1>4 DEF Commands, Command, Jobs, Requests
<1>6. Watch(c)'
  BY <1>1, <1>2, <1>3, <1>4 DEF Commands, Watch, Watching, Requests
<1>7. Quiet
  <2>1. Command(c) /\ client[c].told = "nothing" /\ call[c].kind = "none"
    BY <1>4 DEF Commands, Command
  <2>2. ~Active(c) /\ ~Active(c)' /\ ~Entitled(c)'
    BY <1>2, <1>3, <2>1 DEF Active, Entitled
  <2> QED
    BY <1>2, <1>3, <1>4, <2>2, OneQuiet
<1> QED
  BY <1>2, <1>3, <1>4, <1>5, <1>6, <1>7, OneCommand DEF Types

\* A command calls the agent again, after a pause.
LEMMA CallAgain ==
    ASSUME Types, Commands, NEW c \in Clients, NEW kind \in Requests,
           client[c].at \in {"sleep", "wait"},
           kind = (IF client[c].at = "sleep" THEN Kind(client[c].job) ELSE "status"),
           client' = [client EXCEPT ![c].at = "call"], Calls(c, kind),
           UNCHANGED <<agent, link, svc>>
    PROVE  Types' /\ Commands' /\ Quiet
<1>2. /\ call' \in [Clients -> CallState] /\ call'[c].kind = kind
      /\ call'[c].at \in {"begin", "lookup"}
      /\ call'[c].at = "begin" <=> kind \in {"pair", "status"}
      /\ \A d \in Clients : d # c => call'[d] = call[d]
  BY Calling
<1>4. /\ client' \in [Clients -> ClientState]
      /\ client'[c].job = client[c].job /\ client'[c].at = "call"
      /\ client'[c].told = client[c].told /\ client'[c].anew = client[c].anew
      /\ client'[c].event = client[c].event
      /\ \A d \in Clients : d # c => client'[d] = client[d]
  BY Pausing DEF Pauses
<1>1. Command(c) /\ Watch(c) /\ client[c].job \in Jobs \cup {"none"}
  BY DEF Commands, Types, ClientState
<1>3. /\ client[c].job # "none" /\ client[c].told = "nothing"
      /\ client[c].at = "wait" => client[c].job = "pair" /\ (agent.verified => client[c].event)
  BY <1>1 DEF Command, Watch, Watching
<1>7. /\ kind = "status" <=> client[c].at = "wait"
      /\ client[c].at = "sleep" => kind = Kind(client[c].job)
  BY <1>1, <1>3 DEF Kind, Jobs
<1>5. Command(c)'
  BY <1>2, <1>3, <1>4, <1>7 DEF Command, Requests
<1>6. Watch(c)'
  BY <1>2, <1>3, <1>4, <1>7 DEF Watch, Watching
<1>8. Quiet
  <2>1. call[c].kind = "none"
    BY <1>1 DEF Command
  <2>2. ~Active(c) /\ ~Active(c)' /\ ~Entitled(c)'
    BY <1>2, <1>3, <1>4, <2>1 DEF Active, Entitled
  <2> QED
    BY <1>2, <1>4, <2>2, OneQuiet
<1> QED
  BY <1>2, <1>4, <1>5, <1>6, <1>8, OneCommand DEF Types

\* request tries again.
LEMMA RetriesKeeps ==
    ASSUME Types, Commands, NEW c \in Clients, Retries(c)
    PROVE  Types' /\ Commands' /\ Quiet
<1>1. Command(c) /\ client[c].job \in Jobs \cup {"none"}
  BY DEF Commands, Types, ClientState
<1>2. client[c].at = "sleep" /\ Kind(client[c].job) \in Requests
  BY <1>1 DEF Retries, Command, Jobs, Requests, Kind
<1> QED
  BY <1>2, CallAgain DEF Retries

\* pair --wait asks for the status.
LEMMA PollsKeeps ==
    ASSUME Types, Commands, NEW c \in Clients, Polls(c)
    PROVE  Types' /\ Commands' /\ Quiet
<1>1. "status" \in Requests /\ client[c].at = "wait"
  BY DEF Polls, Requests
<1>2. client' = [client EXCEPT ![c].at = "call"] /\ Calls(c, "status") /\ UNCHANGED <<agent, link, svc>>
  BY DEF Polls
<1> QED
  BY <1>1, <1>2, CallAgain

\* A command gives up.
LEMMA GivesUpKeeps ==
    ASSUME Types, Commands, NEW c \in Clients, GivesUp(c)
    PROVE  Types' /\ Commands' /\ Quiet
<1>1. /\ client[c].at \in {"sleep", "wait"} /\ Command(c)
      /\ UNCHANGED <<call, agent, link, svc>>
      /\ \E told \in {"error", "expired"} : Ends(c, "done", told)
  BY DEF GivesUp, Commands
<1>2. /\ client' \in [Clients -> ClientState]
      /\ client'[c].at = "done" /\ client'[c].told \in {"error", "expired"}
      /\ client'[c].job = client[c].job
      /\ \A d \in Clients : d # c => client'[d] = client[d]
  BY <1>1, Ending
<1>3. (Command(c) /\ Watch(c))'
  BY <1>1, <1>2 DEF Command, Watch, Watching
<1>4. Quiet
  <2>1. call[c].kind = "none" /\ call' = call
    BY <1>1 DEF Command
  <2>2. ~Active(c) /\ ~Active(c)' /\ ~Entitled(c)'
    BY <1>2, <2>1 DEF Active, Entitled
  <2> QED
    BY <1>1, <1>2, <2>1, <2>2, OneQuiet
<1> QED
  BY <1>1, <1>2, <1>3, <1>4, OneCommand DEF Types

\* A command takes the answer of the agent, and ends, waits or tries again.
LEMMA AnswersKeeps ==
    ASSUME Types, Commands, NEW c \in Clients, Answers(c)
    PROVE  Types' /\ Commands' /\ Quiet
<1>1. /\ call[c].at = "reply" /\ UNCHANGED <<agent, link, svc>>
      /\ call' = [call EXCEPT ![c] = NoCall] /\ call[c] \in CallState
      /\ Command(c) /\ Watch(c)
  BY DEF Answers, Types, Commands
<1>2. /\ call' \in [Clients -> CallState] /\ call'[c].kind = "none" /\ call'[c].at = "begin"
      /\ \A d \in Clients : d # c => call'[d] = call[d]
  BY <1>1, CliAssumption DEF Types, NoCall, CallState, Replied
<1>3. /\ client[c].at = "call" /\ client[c].told = "nothing" /\ client[c].job # "none"
      /\ call[c].kind = "status" => client[c].job = "pair"
      /\ call[c].kind = "status" \/ call[c].kind = "pair" => (agent.verified => client[c].event)
      /\ call[c].kind = "status" /\ client[c].verified => client[c].anew
      /\ call[c].kind = "pair" => Kind(client[c].job) = "pair"
  BY <1>1 DEF Command, Watch, Watching
<1>4. call[c].kind = "pair" => client[c].job = "pair"
  BY <1>3 DEF Kind
<1>15. ~Active(c) /\ ~Active(c)'
  BY <1>1, <1>2 DEF Active
<1>5. ASSUME NEW at \in {"done", "goeson"}, NEW told \in {"error", "ok", "dead", "confirmed"},
             Ends(c, at, told), told = "confirmed" => client[c].anew,
             told = "ok" /\ call[c].kind = "revoke" => call[c].reply = "ok"
      PROVE  Types' /\ Commands' /\ Quiet
  <2>1. /\ client' \in [Clients -> ClientState]
        /\ client'[c].at = at /\ client'[c].told = told /\ client'[c].job = client[c].job
        /\ client'[c].anew = client[c].anew
        /\ \A d \in Clients : d # c => client'[d] = client[d]
    BY <1>5, Ending
  <2>2. (Command(c) /\ Watch(c))'
    BY <1>1, <1>2, <1>3, <1>5, <2>1 DEF Command, Watch, Watching
  <2>3. Entitled(c)' => Entitled(c)
    BY <1>1, <1>2, <1>3, <1>5, <2>1 DEF Entitled, Kind, Command, CallState, Requests
  <2>4. Quiet
    BY <1>1, <1>2, <1>15, <2>1, <2>3, OneQuiet
  <2> QED
    BY <1>1, <1>2, <2>1, <2>2, <2>4, OneCommand DEF Types
<1>6. ASSUME Pauses(c, "sleep")
      PROVE  Types' /\ Commands' /\ Quiet
  <2>1. /\ client' \in [Clients -> ClientState]
        /\ client'[c].at = "sleep" /\ client'[c].told = "nothing" /\ client'[c].job = client[c].job
        /\ \A d \in Clients : d # c => client'[d] = client[d]
    BY <1>3, <1>6, Pausing
  <2>2. (Command(c) /\ Watch(c))'
    BY <1>1, <1>2, <1>3, <2>1 DEF Command, Watch, Watching
  <2>3. ~Entitled(c)'
    BY <1>2, <2>1 DEF Entitled
  <2>4. Quiet
    BY <1>1, <1>2, <1>15, <2>1, <2>3, OneQuiet
  <2> QED
    BY <1>1, <1>2, <2>1, <2>2, <2>4, OneCommand DEF Types
<1>7. ASSUME Pauses(c, "wait"), call[c].kind = "pair"
      PROVE  Types' /\ Commands' /\ Quiet
  <2>1. /\ client' \in [Clients -> ClientState]
        /\ client'[c].at = "wait" /\ client'[c].told = "nothing" /\ client'[c].job = client[c].job
        /\ client'[c].event = client[c].event
        /\ \A d \in Clients : d # c => client'[d] = client[d]
    BY <1>3, <1>7, Pausing
  <2>2. (Command(c) /\ Watch(c))'
    BY <1>1, <1>2, <1>3, <1>4, <1>7, <2>1 DEF Command, Watch, Watching
  <2>3. ~Entitled(c)'
    BY <1>2, <2>1 DEF Entitled
  <2>4. Quiet
    BY <1>1, <1>2, <1>15, <2>1, <2>3, OneQuiet
  <2> QED
    BY <1>1, <1>2, <2>1, <2>2, <2>4, OneCommand DEF Types
<1>8. ASSUME call[c].kind = "status",
             client' = [client EXCEPT ![c].at = "wait", ![c].verified = FALSE, ![c].anew = FALSE]
      PROVE  Types' /\ Commands' /\ Quiet
  <2> DEFINE new == [client[c] EXCEPT !.at = "wait", !.verified = FALSE, !.anew = FALSE]
  <2>1. client[c] \in ClientState
    BY DEF Types
  <2>2. /\ new \in ClientState /\ new.at = "wait" /\ new.told = client[c].told
        /\ new.job = client[c].job /\ new.event = client[c].event
    BY <2>1 DEF ClientState
  <2>3. client' = [client EXCEPT ![c] = new]
    BY <1>8
  <2> HIDE DEF new
  <2>4. /\ client' \in [Clients -> ClientState]
        /\ client'[c].at = "wait" /\ client'[c].told = "nothing" /\ client'[c].job = client[c].job
        /\ client'[c].event = client[c].event
        /\ \A d \in Clients : d # c => client'[d] = client[d]
    BY <1>3, <2>2, <2>3 DEF Types
  <2>5. (Command(c) /\ Watch(c))'
    BY <1>1, <1>2, <1>3, <1>8, <2>4 DEF Command, Watch, Watching
  <2>6. ~Entitled(c)'
    BY <1>2, <2>4 DEF Entitled
  <2>7. Quiet
    BY <1>1, <1>2, <1>15, <2>4, <2>6, OneQuiet
  <2> QED
    BY <1>1, <1>2, <2>4, <2>5, <2>7, OneCommand DEF Types
<1>9. PICK answer \in {call[c].reply, "dead"} :
        \/ call[c].kind = "pair" /\ PairIsAnswered(c, answer)
        \/ call[c].kind = "cancel" /\ CancelIsAnswered(c, answer)
        \/ call[c].kind = "revoke" /\ RevokeIsAnswered(c, answer)
        \/ call[c].kind = "status" /\ StatusIsAnswered(c, answer)
  BY DEF Answers
<1>10. answer \in {"ok", "error", "dead", "unavailable"}
  BY <1>1, <1>9 DEF CallState, Replied, Command
<1>11. CASE call[c].kind = "pair" /\ PairIsAnswered(c, answer)
  BY <1>5, <1>6, <1>7, <1>11 DEF PairIsAnswered
<1>12. CASE call[c].kind = "cancel" /\ CancelIsAnswered(c, answer)
  BY <1>5, <1>10, <1>12 DEF CancelIsAnswered
<1>13. CASE call[c].kind = "revoke" /\ RevokeIsAnswered(c, answer)
  <2>1. (IF client[c].job = "uninstall" THEN "goeson" ELSE "done") \in {"done", "goeson"}
    OBVIOUS
  <2> QED
    BY <1>5, <1>6, <1>13, <2>1 DEF RevokeIsAnswered
<1>14. CASE call[c].kind = "status" /\ StatusIsAnswered(c, answer)
  BY <1>3, <1>5, <1>8, <1>14 DEF StatusIsAnswered
<1> QED
  BY <1>9, <1>11, <1>12, <1>13, <1>14

\* createPairing forgets that a pairing was verified, status says whether it was.
LEMMA BeginsKeeps ==
    ASSUME Types, Commands, NEW c \in Clients, Begins(c)
    PROVE  Types' /\ Commands' /\ Quiet
<1>1. call[c].at = "begin" /\ UNCHANGED <<link, svc>> /\ Command(c) /\ Watch(c) /\ agent \in AgentState
  BY DEF Begins, Commands, Types
<1>2. CASE /\ call[c].kind = "pair"
           /\ agent' = [agent EXCEPT !.verified = FALSE]
           /\ client' = [client EXCEPT ![c].event = FALSE]
           /\ Goes(c, "lookup")
  <2>1. /\ agent' \in AgentState /\ ~agent'.verified
        /\ agent'.conn = agent.conn /\ agent'.conns = agent.conns
        /\ agent'.paired = agent.paired /\ agent'.torn = agent.torn
        /\ agent'.events = agent.events /\ agent'.responses = agent.responses
    BY <1>1, <1>2 DEF AgentState
  <2>2. /\ client' \in [Clients -> ClientState] /\ client'[c].at = client[c].at
        /\ client'[c].job = client[c].job /\ client'[c].told = client[c].told
        /\ client'[c].anew = client[c].anew
        /\ \A d \in Clients : d # c => client'[d] = client[d]
    <3> DEFINE new == [client[c] EXCEPT !.event = FALSE]
    <3>1. client[c] \in ClientState /\ client' = [client EXCEPT ![c] = new]
      BY <1>2 DEF Types
    <3>2. /\ new \in ClientState /\ new.at = client[c].at /\ new.told = client[c].told
          /\ new.job = client[c].job /\ new.anew = client[c].anew
      BY <3>1 DEF ClientState
    <3> HIDE DEF new
    <3> QED
      BY <3>1, <3>2 DEF Types
  <2>3. /\ call' \in [Clients -> CallState] /\ call'[c].at = "lookup" /\ call'[c].kind = call[c].kind
        /\ \A d \in Clients : d # c => call'[d] = call[d]
    BY <1>2, Going
  <2>4. (Command(c) /\ Watch(c))'
    BY <1>1, <1>2, <2>1, <2>2, <2>3 DEF Command, Watch, Watching
  <2>5. ~Active(c) /\ ~Active(c)' /\ (Entitled(c)' => Entitled(c))
    BY <1>1, <1>2, <2>2, <2>3 DEF Active, Entitled
  <2>6. Quiet
    BY <1>1, <2>1, <2>2, <2>3, <2>5, OneQuiet
  <2> QED
    BY <1>1, <2>1, <2>2, <2>3, <2>4, <2>6, OneCommand DEF Types
<1>3. CASE /\ call[c].kind = "status" /\ Reports(c) /\ agent' = agent
           /\ (Goes(c, "lookup") \/ Replies(c, "ok"))
  <2>1. /\ client' \in [Clients -> ClientState] /\ client'[c].at = client[c].at
        /\ client'[c].job = client[c].job /\ client'[c].told = client[c].told
        /\ client'[c].event = client[c].event
        /\ client'[c].anew = client[c].event /\ client'[c].verified = agent.verified
        /\ \A d \in Clients : d # c => client'[d] = client[d]
    BY <1>3, Reporting
  <2>2. /\ call' \in [Clients -> CallState] /\ call'[c].at \in {"lookup", "reply"}
        /\ call'[c].at = "reply" => call'[c].reply = "ok"
        /\ call'[c].kind = call[c].kind /\ \A d \in Clients : d # c => call'[d] = call[d]
    BY <1>3, Going, Replying DEF Replied
  <2>3. client[c].told = "nothing"
    BY <1>1, <1>3 DEF Command
  <2>4. Command(c)'
    BY <1>1, <1>3, <2>1, <2>2 DEF Command
  <2>5. Watch(c)'
    BY <1>1, <1>3, <2>1, <2>2, <2>3 DEF Watch, Watching
  <2>6. ~Active(c) /\ ~Active(c)' /\ (Entitled(c)' => Entitled(c))
    BY <1>1, <1>3, <2>1, <2>2 DEF Active, Entitled
  <2>7. Quiet
    BY <1>1, <1>3, <2>1, <2>2, <2>6, OneQuiet
  <2> QED
    BY <1>1, <1>3, <2>1, <2>2, <2>4, <2>5, <2>7, OneCommand DEF Types
<1> QED
  BY <1>2, <1>3 DEF Begins

\* A handler that goes on, and leaves the commands alone.
LEMMA Onward ==
    ASSUME Types, Commands, NEW c \in Clients, UNCHANGED client,
           call' \in [Clients -> CallState], agent' \in AgentState, link' \in LinkState,
           svc' \in ServiceState, agent'.verified => agent.verified,
           call'[c].kind = call[c].kind, call[c].at # "begin", call'[c].at # "begin",
           call'[c].at = "answer" => call'[c].conn # 0,
           call'[c].at = "clear" => call[c].kind = "revoke",
           call'[c].at = "reply" => call'[c].reply # "none",
           \A d \in Clients : d # c => call'[d] = call[d]
    PROVE  Types' /\ Commands'
<1>1. Command(c) /\ Watch(c)
  BY DEF Commands
<1>2. Command(c)'
  BY <1>1 DEF Command
<1>3. Watch(c)'
  BY <1>1 DEF Watch, Watching
<1> QED
  BY <1>2, <1>3, OneCommand DEF Types

\* A request that failed is not told as a revocation.
LEMMA Failing ==
    ASSUME NEW c \in Clients, call[c].kind \in Requests
    PROVE  /\ Failure(c) \in Replied \ {"none"}
           /\ call[c].kind = "revoke" => Failure(c) = "error"
BY DEF Failure, Requests, Replied

\* A handler writes its request on the connection, or fails at once.
LEMMA Asking ==
    ASSUME Types, Commands, NEW c \in Clients, Asks(c)
    PROVE  /\ Types' /\ Commands' /\ UNCHANGED <<client, agent, svc>>
           /\ call[c].at = "lookup" /\ call'[c].kind = call[c].kind
           /\ call[c].kind \in Requests
           /\ \A d \in Clients : d # c => call'[d] = call[d]
           /\ \/ /\ agent.conn # 0 /\ link.state # "down"
                 /\ call'[c].at = "answer" /\ call'[c].conn = agent.conn
                 /\ link'.state = link.state
                 /\ link'.toService = Append(link.toService, call[c].kind)
              \/ /\ call'[c].at = "reply"
                 /\ call[c].kind = "revoke" => call'[c].reply # "ok"
                 /\ link' = link
<1>1. /\ UNCHANGED <<client, agent, svc>> /\ call[c].at = "lookup"
      /\ call[c] \in CallState /\ agent \in AgentState /\ link \in LinkState /\ svc \in ServiceState
  BY DEF Asks, Types
<1>2. call[c].kind \in Requests
  BY <1>1 DEF Commands, Command, CallState
<1>3. CASE agent.conn # 0 /\ link.state # "down"
  <2> DEFINE new == [call[c] EXCEPT !.at = "answer", !.conn = agent.conn]
  <2>1. /\ call' = [call EXCEPT ![c] = new]
        /\ link' = [link EXCEPT !.toService = Append(@, call[c].kind)]
    BY <1>3 DEF Asks
  <2>2. /\ new \in CallState /\ new.at = "answer" /\ new.conn = agent.conn
        /\ new.kind = call[c].kind
    BY <1>1 DEF CallState, AgentState
  <2> HIDE DEF new
  <2>3. Append(link.toService, call[c].kind) \in Seq(Requests)
    BY <1>1, <1>2 DEF LinkState
  <2>4. /\ link' \in LinkState /\ link'.state = link.state
        /\ link'.toService = Append(link.toService, call[c].kind)
    BY <1>1, <2>1, <2>3 DEF LinkState
  <2>5. /\ call' \in [Clients -> CallState] /\ call'[c] = new
        /\ \A d \in Clients : d # c => call'[d] = call[d]
    BY <2>1, <2>2 DEF Types
  <2>6. Types' /\ Commands'
    BY <1>1, <1>3, <2>2, <2>4, <2>5, Onward
  <2> QED
    BY <1>1, <1>2, <1>3, <2>2, <2>4, <2>5, <2>6
<1>4. CASE ~(agent.conn # 0 /\ link.state # "down")
  <2>1. PICK reply \in Replied \ {"none"} :
          Replies(c, reply) /\ (call[c].kind = "revoke" => reply # "ok")
    <3> DEFINE reply == IF agent.conn = 0 /\ call[c].kind = "revoke" THEN "unavailable" ELSE Failure(c)
    <3>1. Replies(c, reply)
      BY <1>4 DEF Asks
    <3>2. reply \in Replied \ {"none"} /\ (call[c].kind = "revoke" => reply # "ok")
      BY <1>2, Failing DEF Replied
    <3> QED
      BY <3>1, <3>2
  <2>2. /\ call' \in [Clients -> CallState] /\ call'[c].at = "reply" /\ call'[c].kind = call[c].kind
        /\ call'[c].reply = reply
        /\ \A d \in Clients : d # c => call'[d] = call[d]
    BY <2>1, Replying
  <2>3. link' = link
    BY <1>4 DEF Asks
  <2>4. Types' /\ Commands'
    BY <1>1, <2>1, <2>2, <2>3, Onward
  <2> QED
    BY <1>1, <1>2, <2>1, <2>2, <2>3, <2>4
<1> QED
  BY <1>3, <1>4

\* What it means that a handler misses its answer.
Missed(c) ==
    /\ call'[c].at = "reply"
    /\ call[c].kind = "revoke" => call'[c].reply # "ok"
    /\ agent'.torn <=> agent.torn \/ (call[c].kind = "revoke" /\ call[c].conn = agent.conn)
    /\ agent'.responses = [agent.responses EXCEPT ![call[c].conn] = IF @ = <<>> THEN @ ELSE Tail(@)]

\* A handler that misses its answer.
LEMMA MissesKeeps ==
    ASSUME Types, Commands, NEW c \in Clients, call[c].at = "answer",
           NEW reply \in Replied \ {"none"}, Misses(c, reply),
           call[c].kind = "revoke" => reply # "ok", UNCHANGED <<client, link, svc>>
    PROVE  /\ Types' /\ Commands' /\ Missed(c)
           /\ call'[c].kind = call[c].kind
           /\ \A d \in Clients : d # c => call'[d] = call[d]
           /\ agent'.paired = agent.paired
           /\ agent'.conn = agent.conn /\ agent'.conns = agent.conns
           /\ agent'.events = agent.events
<1>1. call[c].conn # 0 /\ Replies(c, reply)
  BY DEF Commands, Command, Misses
<1>2. /\ call' \in [Clients -> CallState]
      /\ call'[c].at = "reply" /\ call'[c].kind = call[c].kind /\ call'[c].reply = reply
      /\ \A d \in Clients : d # c => call'[d] = call[d]
  BY <1>1, Replying
<1>3. /\ agent' \in AgentState
      /\ agent'.paired = agent.paired /\ agent'.verified = agent.verified
      /\ agent'.conn = agent.conn /\ agent'.conns = agent.conns
      /\ agent'.events = agent.events
      /\ agent'.torn <=> agent.torn \/ (call[c].kind = "revoke" /\ call[c].conn = agent.conn)
      /\ agent'.responses = [agent.responses EXCEPT
           ![call[c].conn] = IF @ = <<>> THEN @ ELSE Tail(@)]
  BY <1>1, Missing
<1>4. Types' /\ Commands'
  BY <1>2, <1>3, Onward DEF Types
<1> QED
  BY <1>2, <1>3, <1>4 DEF Missed

\* A handler takes the oldest response of its session.
Took(c) ==
    /\ call'[c].at = IF call[c].kind = "revoke" THEN "clear" ELSE "reply"
    /\ Head(agent.responses[call[c].conn]) = call[c].kind
    /\ agent'.torn = agent.torn
    /\ agent'.responses = [agent.responses EXCEPT ![call[c].conn] = Tail(@)]

\* A handler takes the oldest response, and either it is its own or it has missed it.
LEMMA Taking ==
    ASSUME Types, Commands, NEW c \in Clients, Takes(c) \/ TimesOut(c)
    PROVE  /\ Types' /\ Commands' /\ UNCHANGED <<client, link, svc>>
           /\ call[c].at = "answer" /\ call[c].conn \in Conns
           /\ call'[c].kind = call[c].kind /\ call'[c].conn = call[c].conn
           /\ call'[c].crossed <=> call[c].crossed
           /\ \A d \in Clients : d # c => call'[d] = call[d]
           /\ agent'.paired = agent.paired
           /\ agent'.conn = agent.conn /\ agent'.conns = agent.conns
           /\ agent'.events = agent.events
           /\ \/ agent.responses[call[c].conn] # <<>> /\ Took(c)
              \/ /\ agent.responses[call[c].conn] # <<>>
                      => Head(agent.responses[call[c].conn]) # call[c].kind
                 /\ Missed(c)
<1> DEFINE n == call[c].conn
<1>1. /\ call[c].at = "answer" /\ UNCHANGED <<client, link, svc>> /\ n \in Conns
      /\ call[c] \in CallState /\ agent \in AgentState /\ call[c].kind \in Requests
  BY DEF Takes, TimesOut, Types, Commands, Command, CallState, Conns
<1>2. ASSUME NEW reply \in Replied \ {"none"}, Misses(c, reply), call[c].kind = "revoke" => reply # "ok"
      PROVE  /\ call'[c].conn = call[c].conn
             /\ call'[c].crossed <=> call[c].crossed
  BY <1>2, Replying DEF Misses
<1>3. CASE TimesOut(c)
  <2> DEFINE reply == IF call[c].kind = "status" THEN "ok" ELSE "dead"
  <2>1. Misses(c, reply) /\ agent.responses[n] = <<>>
    BY <1>3 DEF TimesOut
  <2>2. reply \in Replied \ {"none"} /\ (call[c].kind = "revoke" => reply # "ok")
    BY DEF Replied
  <2> HIDE DEF reply
  <2> QED
    BY <1>1, <1>2, <2>1, <2>2, MissesKeeps
<1>4. CASE Takes(c) /\ Head(agent.responses[n]) # call[c].kind
  <2>1. Misses(c, Failure(c))
    BY <1>4 DEF Takes
  <2>2. Failure(c) \in Replied \ {"none"} /\ (call[c].kind = "revoke" => Failure(c) # "ok")
    BY <1>1, Failing
  <2> QED
    BY <1>1, <1>2, <1>4, <2>1, <2>2, MissesKeeps
<1>5. CASE Takes(c) /\ Head(agent.responses[n]) = call[c].kind
  <2>1. /\ agent' = [agent EXCEPT !.responses[n] = Tail(@)] /\ agent.responses[n] # <<>>
        /\ IF call[c].kind = "revoke" THEN Goes(c, "clear") ELSE Replies(c, "ok")
    BY <1>5 DEF Takes
  <2>2. [agent.responses EXCEPT ![n] = Tail(@)] \in [Conns -> Seq(Requests)]
    BY <1>1, <2>1 DEF AgentState
  <2>3. /\ agent' \in AgentState
        /\ agent'.paired = agent.paired /\ agent'.verified = agent.verified
        /\ agent'.conn = agent.conn /\ agent'.conns = agent.conns
        /\ agent'.events = agent.events /\ agent'.torn = agent.torn
        /\ agent'.responses = [agent.responses EXCEPT ![n] = Tail(@)]
    BY <1>1, <2>1, <2>2 DEF AgentState
  <2>4. /\ call' \in [Clients -> CallState] /\ call'[c].kind = call[c].kind
        /\ call'[c].at = IF call[c].kind = "revoke" THEN "clear" ELSE "reply"
        /\ call'[c].at = "reply" => call'[c].reply # "none"
        /\ call'[c].conn = call[c].conn
        /\ call'[c].crossed <=> call[c].crossed
        /\ \A d \in Clients : d # c => call'[d] = call[d]
    <3>1. CASE call[c].kind = "revoke"
      BY <2>1, <3>1, Going
    <3>2. CASE call[c].kind # "revoke"
      BY <2>1, <3>2, Replying DEF Replied
    <3> QED
      BY <3>1, <3>2
  <2>5. Types' /\ Commands'
    BY <1>1, <2>3, <2>4, Onward DEF Types
  <2> QED
    BY <1>1, <1>5, <2>1, <2>3, <2>4, <2>5 DEF Took
<1> QED
  BY <1>3, <1>4, <1>5

\* The end of revoke.
LEMMA Clearing ==
    ASSUME Types, Commands, NEW c \in Clients, Clears(c)
    PROVE  /\ Types' /\ Commands' /\ UNCHANGED <<client, link, svc>>
           /\ call[c].at = "clear" /\ call[c].kind = "revoke" /\ call'[c].at = "reply"
           /\ call'[c].kind = "revoke" /\ call'[c].reply = "ok"
           /\ \A d \in Clients : d # c => call'[d] = call[d]
           /\ ~agent'.paired
           /\ agent'.torn <=> agent.torn \/ call[c].crossed \/ PairedAhead
           /\ agent'.conn = agent.conn /\ agent'.conns = agent.conns
           /\ agent'.events = agent.events /\ agent'.responses = agent.responses
<1> DEFINE torn == agent.torn \/ call[c].crossed \/ PairedAhead
<1>1. /\ call[c].at = "clear" /\ UNCHANGED <<client, link, svc>> /\ Replies(c, "ok")
      /\ agent \in AgentState /\ call[c].kind = "revoke"
  BY DEF Clears, Types, Commands, Command
<1>2. /\ call' \in [Clients -> CallState]
      /\ call'[c].at = "reply" /\ call'[c].kind = "revoke" /\ call'[c].reply = "ok"
      /\ \A d \in Clients : d # c => call'[d] = call[d]
  BY <1>1, Replying DEF Replied
<1>3. agent' = [agent EXCEPT !.paired = FALSE, !.verified = FALSE, !.torn = torn]
  BY DEF Clears, PairedAhead, Ahead
<1>4. torn \in BOOLEAN /\ (torn <=> agent.torn \/ call[c].crossed \/ PairedAhead)
  OBVIOUS
<1> HIDE DEF torn
<1>5. /\ agent' \in AgentState /\ ~agent'.paired /\ ~agent'.verified
      /\ agent'.torn = torn
      /\ agent'.conn = agent.conn /\ agent'.conns = agent.conns
      /\ agent'.events = agent.events /\ agent'.responses = agent.responses
  BY <1>1, <1>3, <1>4 DEF AgentState
<1>6. Types' /\ Commands'
  BY <1>1, <1>2, <1>5, Onward DEF Types
<1> HIDE DEF PairedAhead
<1> QED
  BY <1>1, <1>2, <1>4, <1>5, <1>6

\* What a step of the agent or the service leaves of the calls.
SameCalls ==
    \A c \in Clients :
        /\ call'[c].at = call[c].at /\ call'[c].kind = call[c].kind
        /\ call'[c].conn = call[c].conn /\ call'[c].reply = call[c].reply

\* runControl handles an event: the commands that wait have seen it.
LEMMA HandlingEvent ==
    ASSUME Types, Commands, HandlesEvent
    PROVE  /\ Types' /\ Commands' /\ UNCHANGED <<link, svc>> /\ SameCalls
           /\ \A c \in Clients : client'[c].job = client[c].job /\ client'[c].told = client[c].told
           /\ \A c \in Clients : call'[c].crossed
                <=> call[c].crossed \/ (Head(agent.events) = "agent.paired" /\ Active(c))
           /\ agent.events # <<>> /\ agent'.events = Tail(agent.events)
           /\ agent'.paired <=> agent.paired \/ Head(agent.events) = "agent.paired"
           /\ agent'.conn = agent.conn /\ agent'.conns = agent.conns
           /\ agent'.torn = agent.torn /\ agent'.responses = agent.responses
<1> DEFINE event == Head(agent.events)
           paired == agent.paired \/ event = "agent.paired"
           seen(c) == client[c].event \/ (client[c].job = "pair" /\ client[c].at \in {"call", "wait"})
           new(c) == [client[c] EXCEPT !.event = seen(c)]
<1>1. /\ agent.events # <<>> /\ UNCHANGED <<link, svc>>
      /\ agent' = [agent EXCEPT !.events = Tail(@), !.verified = TRUE, !.paired = paired]
      /\ call' = IF event = "agent.paired" THEN Crossed ELSE call
  BY DEF HandlesEvent
<1>2. agent \in AgentState /\ Tail(agent.events) \in Seq(Events)
  BY <1>1 DEF Types, AgentState
<1>3. paired \in BOOLEAN /\ (paired <=> agent.paired \/ event = "agent.paired")
  OBVIOUS
<1>4. /\ \A c \in Clients : seen(c) \in BOOLEAN
      /\ \A c \in Clients : seen(c) <=> \/ client[c].event
                                        \/ client[c].job = "pair" /\ client[c].at \in {"call", "wait"}
  OBVIOUS
<1>5. client' = [c \in Clients |-> new(c)]
  BY DEF HandlesEvent
<1> HIDE DEF paired, seen
<1>6. /\ agent' \in AgentState /\ agent'.paired = paired
      /\ agent'.conn = agent.conn /\ agent'.conns = agent.conns
      /\ agent'.events = Tail(agent.events)
      /\ agent'.torn = agent.torn /\ agent'.responses = agent.responses
  BY <1>1, <1>2, <1>3 DEF AgentState
<1>7. \A c \in Clients :
        /\ new(c) \in ClientState /\ new(c).at = client[c].at /\ new(c).told = client[c].told
        /\ new(c).job = client[c].job /\ new(c).verified = client[c].verified
        /\ new(c).anew = client[c].anew /\ new(c).event = seen(c)
  BY <1>4 DEF Types, ClientState
<1>8. client' \in [Clients -> ClientState] /\ \A c \in Clients : client'[c] = new(c)
  BY <1>5, <1>7
<1> HIDE DEF new
<1>9. /\ call' \in [Clients -> CallState] /\ SameCalls
      /\ \A c \in Clients : call'[c].crossed
                <=> call[c].crossed \/ (event = "agent.paired" /\ Active(c))
  <2>1. CASE event = "agent.paired"
    BY <1>1, <2>1, Crossing DEF SameCalls
  <2>2. CASE event # "agent.paired"
    BY <1>1, <2>2 DEF SameCalls, Types
  <2> QED
    BY <2>1, <2>2
<1>10. ASSUME NEW c \in Clients PROVE (Command(c) /\ Watch(c))'
  <2>1. Command(c) /\ Watch(c)
    BY DEF Commands
  <2>2. Command(c)'
    BY <1>7, <1>8, <1>9, <2>1 DEF Command, SameCalls
  <2>3. Watch(c)'
    <3>1. /\ call[c].kind = "status" => client[c].at = "call" /\ client[c].job = "pair"
          /\ client[c].at = "wait" => client[c].job = "pair"
          /\ call[c].kind = "pair" => client[c].at = "call" /\ client[c].job = "pair"
      BY <2>1 DEF Command, Kind
    <3> QED
      BY <1>4, <1>7, <1>8, <1>9, <2>1, <3>1 DEF Watch, Watching, SameCalls
  <2> QED
    BY <2>2, <2>3
<1> QED
  BY <1>1, <1>3, <1>6, <1>7, <1>8, <1>9, <1>10 DEF Types, Commands

\* The commands do not notice what else the session and the service do.
LEMMA Apart ==
    ASSUME Types, Commands, UNCHANGED client, SameCalls, call' \in [Clients -> CallState],
           agent' \in AgentState, link' \in LinkState, svc' \in ServiceState,
           agent'.verified => agent.verified
    PROVE  Types' /\ Commands'
<1>1. ASSUME NEW c \in Clients PROVE (Command(c) /\ Watch(c))'
  <2>1. Command(c) /\ Watch(c)
    BY DEF Commands
  <2>2. Command(c)'
    BY <2>1 DEF Command, SameCalls
  <2>3. Watch(c)'
    BY <2>1 DEF Watch, Watching, SameCalls
  <2> QED
    BY <2>2, <2>3
<1> QED
  BY <1>1 DEF Types, Commands

\* The connection is withdrawn.
LEMMA Withdrawing ==
    ASSUME Types, Commands, Withdraws
    PROVE  /\ Types' /\ Commands' /\ UNCHANGED <<client, call, link, svc>>
           /\ link.state = "down" /\ agent'.conn = 0 /\ agent'.conns = agent.conns
           /\ agent'.responses = agent.responses /\ agent'.events = <<>>
<1>1. /\ agent' = [agent EXCEPT !.conn = 0, !.events = <<>>] /\ agent \in AgentState
      /\ UNCHANGED <<client, call, link, svc>> /\ link.state = "down"
  BY DEF Withdraws, Types
<1>2. /\ agent' \in AgentState /\ agent'.conn = 0 /\ agent'.conns = agent.conns /\ agent'.events = <<>>
      /\ agent'.responses = agent.responses /\ agent'.verified = agent.verified
  <2>1. 0 \in 0..MaxConns /\ <<>> \in Seq(Events)
    BY CliAssumption
  <2> QED
    BY <1>1, <2>1 DEF AgentState
<1>3. Types' /\ Commands'
  BY <1>1, <1>2, Apart DEF Types, SameCalls
<1> QED
  BY <1>1, <1>2, <1>3

\* A new connection: what ready says, and every active revocation crossed.
LEMMA Reconnecting ==
    ASSUME Types, Commands, Reconnects
    PROVE  /\ Types' /\ Commands' /\ UNCHANGED <<client, svc>> /\ SameCalls
           /\ \A c \in Clients : call'[c].crossed <=> call[c].crossed \/ Active(c)
           /\ agent.conn = 0 /\ agent'.conn = agent.conns + 1 /\ agent'.conns = agent.conns + 1
           /\ agent'.paired = svc.credential /\ agent'.responses = agent.responses
           /\ agent'.events = agent.events
           /\ link'.state = "up" /\ link'.toService = link.toService
<1> DEFINE next == agent.conns + 1
           paired == svc.credential
<1>1. /\ agent' = [agent EXCEPT !.conn = next, !.conns = next, !.paired = paired, !.torn = FALSE]
      /\ link' = [link EXCEPT !.state = "up"] /\ call' = Crossed /\ UNCHANGED <<client, svc>>
      /\ agent.conn = 0 /\ agent.conns < MaxConns
      /\ agent \in AgentState /\ link \in LinkState /\ svc \in ServiceState
  BY DEF Reconnects, Types
<1>2. next \in Conns /\ next \in 0..MaxConns /\ paired \in BOOLEAN /\ paired = svc.credential
  BY <1>1, CliAssumption DEF AgentState, ServiceState, Conns
<1>3. next = agent.conns + 1
  OBVIOUS
<1> HIDE DEF next, paired
<1>4. /\ agent' \in AgentState /\ agent'.conn = next /\ agent'.conns = next
      /\ agent'.paired = paired /\ agent'.verified = agent.verified
      /\ agent'.responses = agent.responses /\ agent'.events = agent.events
  BY <1>1, <1>2 DEF AgentState
<1>5. link' \in LinkState /\ link'.state = "up" /\ link'.toService = link.toService
  BY <1>1 DEF LinkState
<1>6. /\ call' \in [Clients -> CallState] /\ SameCalls
      /\ \A c \in Clients : call'[c].crossed <=> call[c].crossed \/ Active(c)
  BY <1>1, Crossing DEF SameCalls
<1>7. Types' /\ Commands'
  BY <1>1, <1>4, <1>5, <1>6, Apart DEF Types
<1> QED
  BY <1>1, <1>2, <1>3, <1>4, <1>5, <1>6, <1>7

\* The link fails.
LEMMA LosingLink ==
    ASSUME Types, Commands, LosesLink
    PROVE  /\ Types' /\ Commands' /\ UNCHANGED <<client, call, agent, svc>>
           /\ link.state # "down" /\ link'.state # "up"
           /\ link'.state = "down" => link'.toService = <<>>
<1>1. UNCHANGED <<client, call, agent, svc>> /\ link \in LinkState
  BY DEF LosesLink, Types
<1>2. /\ link' \in LinkState /\ link.state # "down" /\ link'.state # "up"
      /\ link'.state = "down" => link'.toService = <<>>
  <2>1. CASE link.state = "up" /\ link' = [link EXCEPT !.state = "dying"]
    BY <1>1, <2>1 DEF LinkState
  <2>2. CASE link.state = "dying" /\ link' = [state |-> "down", toService |-> <<>>]
    <3>1. <<>> \in Seq(Requests)
      OBVIOUS
    <3>2. link'.state = "down" /\ link'.toService = <<>>
      BY <2>2
    <3>3. link' \in LinkState
      BY <2>2, <3>1 DEF LinkState
    <3> QED
      BY <2>2, <3>2, <3>3
  <2> QED
    BY <2>1, <2>2 DEF LosesLink
<1>3. Types' /\ Commands'
  BY <1>1, <1>2, Apart DEF Types, SameCalls
<1> QED
  BY <1>1, <1>2, <1>3

\* What the service sends arrives while the link is up.
Received(message) ==
    /\ agent'.paired = agent.paired /\ agent'.torn = agent.torn
    /\ agent'.conn = agent.conn /\ agent'.conns = agent.conns
    /\ agent'.events = IF link.state = "up" /\ message \in Events
                       THEN Append(agent.events, message) ELSE agent.events
    /\ agent'.responses = IF link.state = "up" /\ message \notin Events
                          THEN [agent.responses EXCEPT ![agent.conn] = Append(@, message)]
                          ELSE agent.responses

\* What the service sends arrives in one of the two channels.
LEMMA Sending ==
    ASSUME Types, Sessions, NEW message \in Events \cup Requests, Sends(message)
    PROVE  agent' \in AgentState /\ agent'.verified = agent.verified /\ Received(message)
<1>1. agent \in AgentState
  BY DEF Types
<1>2. CASE link.state # "up"
  BY <1>1, <1>2 DEF Sends, Received
<1>3. CASE link.state = "up" /\ message \in Events
  <2>1. agent' = [agent EXCEPT !.events = Append(@, message)]
    BY <1>3 DEF Sends
  <2>2. Append(agent.events, message) \in Seq(Events)
    BY <1>1, <1>3 DEF AgentState
  <2> QED
    BY <1>1, <1>3, <2>1, <2>2 DEF AgentState, Received
<1>4. CASE link.state = "up" /\ message \notin Events
  <2>1. agent' = [agent EXCEPT !.responses[agent.conn] = Append(@, message)]
    BY <1>4 DEF Sends
  <2>2. agent.conn \in Conns
    BY <1>1, <1>4 DEF Sessions, AgentState, Conns
  <2>3. [agent.responses EXCEPT ![agent.conn] = Append(@, message)] \in [Conns -> Seq(Requests)]
    BY <1>1, <1>4, <2>2 DEF AgentState
  <2> QED
    BY <1>1, <1>4, <2>1, <2>3 DEF AgentState, Received
<1> QED
  BY <1>2, <1>3, <1>4

\* The service serves the oldest request.
LEMMA Serving ==
    ASSUME Types, Commands, Sessions, Serves
    PROVE  /\ Types' /\ Commands' /\ UNCHANGED <<client, call>>
           /\ link.toService # <<>> /\ Head(link.toService) \in Requests
           /\ Received(Head(link.toService))
           /\ link'.state = link.state /\ link'.toService = Tail(link.toService)
           /\ IF Head(link.toService) = "revoke"
              THEN ~svc'.credential /\ svc'.revocations = svc.revocations + 1
              ELSE svc'.credential = svc.credential /\ svc'.revocations = svc.revocations
<1> DEFINE kind == Head(link.toService)
<1>1. /\ UNCHANGED <<client, call>> /\ link.toService # <<>> /\ Sends(kind)
      /\ link' = [link EXCEPT !.toService = Tail(@)]
      /\ svc' = CASE kind = "pair" -> [svc EXCEPT !.pairings = @ + 1, !.pairing = "open"]
                   [] kind = "cancel" -> [svc EXCEPT !.pairing = "none"]
                   [] kind = "revoke" -> [svc EXCEPT !.credential = FALSE, !.revocations = @ + 1]
                   [] OTHER -> svc
  BY DEF Serves
<1>2. link \in LinkState /\ svc \in ServiceState
  BY DEF Types
<1>3. kind \in Requests /\ Tail(link.toService) \in Seq(Requests)
  BY <1>1, <1>2 DEF LinkState
<1> HIDE DEF kind
<1>4. /\ link' \in LinkState /\ link'.state = link.state
      /\ link'.toService = Tail(link.toService)
  BY <1>1, <1>2, <1>3 DEF LinkState
<1>5. /\ svc' \in ServiceState
      /\ IF kind = "revoke"
         THEN ~svc'.credential /\ svc'.revocations = svc.revocations + 1
         ELSE svc'.credential = svc.credential /\ svc'.revocations = svc.revocations
  <2>1. CASE kind = "pair"
    <3> DEFINE count == svc.pairings + 1
    <3>1. svc' = [svc EXCEPT !.pairings = count, !.pairing = "open"]
      BY <1>1, <2>1
    <3>2. count \in Nat /\ count = svc.pairings + 1
      BY <1>2 DEF ServiceState
    <3> HIDE DEF count
    <3> QED
      BY <1>2, <2>1, <3>1, <3>2 DEF ServiceState
  <2>2. CASE kind = "cancel"
    <3>1. svc' = [svc EXCEPT !.pairing = "none"]
      BY <1>1, <2>2
    <3> QED
      BY <1>2, <2>2, <3>1 DEF ServiceState
  <2>3. CASE kind = "revoke"
    <3> DEFINE count == svc.revocations + 1
    <3>1. svc' = [svc EXCEPT !.credential = FALSE, !.revocations = count]
      BY <1>1, <2>3
    <3>2. count \in Nat /\ count = svc.revocations + 1
      BY <1>2 DEF ServiceState
    <3> HIDE DEF count
    <3> QED
      BY <1>2, <2>3, <3>1, <3>2 DEF ServiceState
  <2>4. CASE kind = "status"
    <3>1. svc' = svc
      BY <1>1, <2>4
    <3> QED
      BY <1>2, <2>4, <3>1 DEF ServiceState
  <2> QED
    BY <1>3, <2>1, <2>2, <2>3, <2>4 DEF Requests
<1>6. agent' \in AgentState /\ agent'.verified = agent.verified /\ Received(kind)
  BY <1>1, <1>3, Sending
<1>7. Types' /\ Commands'
  BY <1>1, <1>4, <1>5, <1>6, Apart DEF Types, SameCalls
<1> QED
  BY <1>1, <1>3, <1>4, <1>5, <1>6, <1>7 DEF kind

\* The user verifies the code, or registers the passkey.
LEMMA Browsing ==
    ASSUME Types, Commands, Sessions, Verifies \/ Registers
    PROVE  /\ Types' /\ Commands' /\ UNCHANGED <<client, call, link>>
           /\ svc'.revocations = svc.revocations
           /\ \/ Received("agent.pairing_verified") /\ svc'.credential = svc.credential
              \/ Received("agent.paired") /\ svc'.credential
<1>1. UNCHANGED <<client, call, link>> /\ svc \in ServiceState
  BY DEF Verifies, Registers, Types
<1>2. CASE Verifies
  <2>1. svc' = [svc EXCEPT !.pairing = "verified"] /\ Sends("agent.pairing_verified")
    BY <1>2 DEF Verifies
  <2>2. svc' \in ServiceState /\ svc'.credential = svc.credential /\ svc'.revocations = svc.revocations
    BY <1>1, <2>1 DEF ServiceState
  <2>3. /\ agent' \in AgentState /\ agent'.verified = agent.verified
        /\ Received("agent.pairing_verified")
    BY <2>1, Sending DEF Events
  <2> QED
    BY <1>1, <2>2, <2>3, Apart DEF Types, SameCalls
<1>3. CASE Registers
  <2>1. svc' = [svc EXCEPT !.credential = TRUE, !.pairing = "none"] /\ Sends("agent.paired")
    BY <1>3 DEF Registers
  <2>2. svc' \in ServiceState /\ svc'.credential /\ svc'.revocations = svc.revocations
    BY <1>1, <2>1 DEF ServiceState
  <2>3. agent' \in AgentState /\ agent'.verified = agent.verified /\ Received("agent.paired")
    BY <2>1, Sending DEF Events
  <2> QED
    BY <1>1, <2>2, <2>3, Apart DEF Types, SameCalls
<1> QED
  BY <1>2, <1>3

----------------------------------------------------------------------------
(* Revocations in queues, and numbers for them.                            *)

\* Fewer to be given to, or more to give.
LEMMA PaidSome ==
    ASSUME NEW S, NEW T, NEW U, NEW V, Paid(S, T), U \subseteq S, T \subseteq V
    PROVE  Paid(U, V)
<1>1. PICK f \in [S -> T] : \A x, y \in S : f[x] = f[y] => x = y
  BY DEF Paid
<1> DEFINE g == [x \in U |-> f[x]]
<1>2. g \in [U -> V] /\ \A x, y \in U : g[x] = g[y] => x = y
  BY <1>1
<1> QED
  BY <1>2 DEF Paid

\* One more is given something new.
LEMMA PaidMore ==
    ASSUME NEW S, NEW T, NEW x, NEW k, Paid(S, T), k \notin T
    PROVE  Paid(S \cup {x}, T \cup {k})
<1>1. PICK f \in [S -> T] : \A y, z \in S : f[y] = f[z] => y = z
  BY DEF Paid
<1> DEFINE g == [y \in S \cup {x} |-> IF y = x THEN k ELSE f[y]]
<1>2. g \in [S \cup {x} -> T \cup {k}]
  BY <1>1
<1>3. ASSUME NEW y \in S \cup {x}, NEW z \in S \cup {x}, g[y] = g[z] PROVE y = z
  BY <1>1, <1>3
<1> QED
  BY <1>2, <1>3 DEF Paid

\* One of S gives its element away, to get back the one that x is to have.
LEMMA PaidLess ==
    ASSUME NEW S, NEW T, NEW x \in S, NEW k \in T, Paid(S, T)
    PROVE  Paid(S \ {x}, T \ {k})
<1>1. PICK f \in [S -> T] : \A y, z \in S : f[y] = f[z] => y = z
  BY DEF Paid
<1> DEFINE g == [y \in S \ {x} |-> IF f[y] = k THEN f[x] ELSE f[y]]
<1>2. g \in [S \ {x} -> T \ {k}]
  BY <1>1
<1>3. ASSUME NEW y \in S \ {x}, NEW z \in S \ {x}, g[y] = g[z] PROVE y = z
  BY <1>1, <1>3
<1> QED
  BY <1>2, <1>3 DEF Paid

\* The places of a queue may be renamed.
LEMMA PaidRenamed ==
    ASSUME NEW S, NEW T, NEW U, NEW r \in [U -> S], Paid(S, T),
           \A x, y \in U : r[x] = r[y] => x = y
    PROVE  Paid(U, T)
<1>1. PICK f \in [S -> T] : \A y, z \in S : f[y] = f[z] => y = z
  BY DEF Paid
<1> DEFINE g == [x \in U |-> f[r[x]]]
<1>2. g \in [U -> T] /\ \A x, y \in U : g[x] = g[y] => x = y
  BY <1>1
<1> QED
  BY <1>2 DEF Paid

\* The numbers of the revocations are as many as the last one says.
LEMMA UpTo ==
    ASSUME NEW n \in Nat
    PROVE  IsFiniteSet(1..n) /\ Cardinality(1..n) = n
<1>1. 1 \in Int /\ n \in Int
  OBVIOUS
<1>2. IsFiniteSet(1..n) /\ Cardinality(1..n) = IF 1 > n THEN 0 ELSE n-1+1
  BY <1>1, FS_Interval, Zenon
<1> QED
  BY <1>2

\* A message at the end of a queue.
LEMMA RevsAppend ==
    ASSUME NEW queue \in Seq(Requests), NEW m \in Requests
    PROVE  Revs(Append(queue, m)) =
             IF m = "revoke" THEN Revs(queue) \cup {Len(queue) + 1} ELSE Revs(queue)
BY DEF Revs

\* Nothing is revoked by an empty queue.
LEMMA RevsEmpty == Revs(<<>>) = {}
BY DEF Revs

\* The oldest message leaves a queue; a revocation gives back any element one wants.
LEMMA RevsTail ==
    ASSUME NEW queue \in Seq(Requests), queue # <<>>, NEW T, Paid(Revs(queue), T)
    PROVE  /\ Paid(Revs(Tail(queue)), T)
           /\ Head(queue) = "revoke" =>
                T # {} /\ \A k \in T : Paid(Revs(Tail(queue)), T \ {k})
<1>1. /\ Len(queue) \in Nat \ {0} /\ DOMAIN queue = 1..Len(queue) /\ Head(queue) = queue[1]
      /\ DOMAIN Tail(queue) = 1..(Len(queue) - 1)
      /\ \A n \in 1..(Len(queue) - 1) : Tail(queue)[n] = queue[n + 1]
  OBVIOUS
<1> DEFINE U == Revs(Tail(queue))
           r == [i \in U |-> i + 1]
<1>2. /\ U \subseteq Nat /\ \A i \in U : i + 1 \in Revs(queue) /\ i + 1 # 1
  BY <1>1 DEF Revs
<1>3. r \in [U -> Revs(queue) \ {1}] /\ \A x, y \in U : r[x] = r[y] => x = y
  BY <1>2
<1> HIDE DEF r, U
<1>4. Paid(U, T)
  <2>1. Paid(Revs(queue) \ {1}, T)
    BY PaidSome
  <2> QED
    BY <1>3, <2>1, PaidRenamed
<1>5. ASSUME Head(queue) = "revoke"
      PROVE  T # {} /\ \A k \in T : Paid(U, T \ {k})
  <2>1. 1 \in Revs(queue)
    BY <1>1, <1>5 DEF Revs
  <2>2. T # {}
    BY <2>1 DEF Paid
  <2>3. ASSUME NEW k \in T PROVE Paid(U, T \ {k})
    <3>1. Paid(Revs(queue) \ {1}, T \ {k})
      BY <2>1, PaidLess
    <3> QED
      BY <1>3, <3>1, PaidRenamed
  <2> QED
    BY <2>2, <2>3
<1> QED
  BY <1>4, <1>5 DEF U

\* Serving and taking the oldest do not change the order in the pipeline.
LEMMA Queues ==
    ASSUME NEW a \in Seq(Requests), NEW b \in Seq(Requests), NEW m \in Requests
    PROVE  /\ a \o b \in Seq(Requests)
           /\ Append(a \o b, m) = a \o Append(b, m)
           /\ b # <<>> => Append(a, Head(b)) \o Tail(b) = a \o b
           /\ a # <<>> => Tail(a) \o b = Tail(a \o b) /\ Head(a) = Head(a \o b) /\ a \o b # <<>>
<1>1. a \o b \in Seq(Requests) /\ Append(a \o b, m) \in Seq(Requests)
      /\ a \o Append(b, m) \in Seq(Requests)
  OBVIOUS
<1>2. Append(a \o b, m) = a \o Append(b, m)
  OBVIOUS
<1>3. ASSUME b # <<>> PROVE Append(a, Head(b)) \o Tail(b) = a \o b
  <2>1. /\ Len(a) \in Nat /\ Len(b) \in Nat \ {0} /\ Head(b) = b[1] /\ Head(b) \in Requests
        /\ Tail(b) \in Seq(Requests) /\ Len(Tail(b)) = Len(b) - 1
        /\ \A i \in 1..(Len(b) - 1) : Tail(b)[i] = b[i + 1]
    BY <1>3
  <2>2. /\ Append(a, Head(b)) \in Seq(Requests) /\ Len(Append(a, Head(b))) = Len(a) + 1
        /\ Append(a, Head(b))[Len(a) + 1] = Head(b)
        /\ \A i \in 1..Len(a) : Append(a, Head(b))[i] = a[i]
    BY <2>1
  <2> DEFINE left == Append(a, Head(b)) \o Tail(b)
  <2>3. left \in Seq(Requests) /\ Len(left) = Len(a) + Len(b)
    BY <2>1, <2>2
  <2>4. a \o b \in Seq(Requests) /\ Len(a \o b) = Len(a) + Len(b)
    BY <2>1
  <2>5. ASSUME NEW i \in 1..(Len(a) + Len(b)) PROVE left[i] = (a \o b)[i]
    <3>1. CASE i <= Len(a)
      BY <2>1, <2>2, <3>1
    <3>2. CASE i = Len(a) + 1
      BY <2>1, <2>2, <3>2
    <3>3. CASE i > Len(a) + 1
      <4>1. /\ i - (Len(a) + 1) \in 1..(Len(b) - 1) /\ i - Len(a) \in 1..Len(b)
            /\ (i - (Len(a) + 1)) + 1 = i - Len(a)
        BY <2>1, <3>3
      <4>2. left[i] = Tail(b)[i - (Len(a) + 1)]
        BY <2>1, <2>2, <3>3
      <4>3. (a \o b)[i] = b[i - Len(a)]
        BY <2>1, <3>3
      <4> QED
        BY <2>1, <4>1, <4>2, <4>3
    <3> QED
      BY <2>1, <3>1, <3>2, <3>3
  <2> HIDE DEF left
  <2>6. left = a \o b
    BY <2>3, <2>4, <2>5, SeqEqual
  <2> QED
    BY <2>6 DEF left
<1>4. ASSUME a # <<>>
      PROVE  Tail(a) \o b = Tail(a \o b) /\ Head(a) = Head(a \o b) /\ a \o b # <<>>
  <2>1. /\ Len(a) \in Nat \ {0} /\ Len(b) \in Nat /\ Head(a) = a[1]
        /\ Tail(a) \in Seq(Requests) /\ Len(Tail(a)) = Len(a) - 1
        /\ \A i \in 1..(Len(a) - 1) : Tail(a)[i] = a[i + 1]
    BY <1>4
  <2>2. /\ a \o b \in Seq(Requests) /\ Len(a \o b) = Len(a) + Len(b)
        /\ \A i \in 1..Len(a) : (a \o b)[i] = a[i]
        /\ \A i \in 1..(Len(a) + Len(b)) : i > Len(a) => (a \o b)[i] = b[i - Len(a)]
    BY <2>1
  <2>3. a \o b # <<>> /\ Head(a \o b) = a[1]
    BY <2>1, <2>2
  <2> DEFINE left == Tail(a) \o b
             right == Tail(a \o b)
  <2>4. /\ left \in Seq(Requests) /\ Len(left) = (Len(a) - 1) + Len(b)
        /\ \A i \in 1..(Len(a) - 1) : left[i] = Tail(a)[i]
        /\ \A i \in 1..((Len(a) - 1) + Len(b)) : i > Len(a) - 1 => left[i] = b[i - (Len(a) - 1)]
    BY <2>1
  <2>5. /\ right \in Seq(Requests) /\ Len(right) = (Len(a) - 1) + Len(b)
        /\ \A i \in 1..((Len(a) - 1) + Len(b)) : right[i] = (a \o b)[i + 1]
    BY <2>1, <2>2, <2>3
  <2> HIDE DEF left, right
  <2>6. ASSUME NEW i \in 1..((Len(a) - 1) + Len(b)) PROVE left[i] = right[i]
    <3>1. CASE i <= Len(a) - 1
      BY <2>1, <2>2, <2>4, <2>5, <3>1
    <3>2. CASE i > Len(a) - 1
      <4>1. i + 1 \in 1..(Len(a) + Len(b)) /\ i + 1 > Len(a) /\ (i + 1) - Len(a) = i - (Len(a) - 1)
        BY <2>1, <3>2
      <4> QED
        BY <2>2, <2>4, <2>5, <3>2, <4>1
    <3> QED
      BY <2>1, <3>1, <3>2
  <2>7. left = right
    BY <2>4, <2>5, <2>6, SeqEqual
  <2> QED
    BY <2>1, <2>3, <2>7 DEF left, right
<1> QED
  BY <1>1, <1>2, <1>3, <1>4

\* Revocations in the two halves of the pipeline.
LEMMA RevsConcat ==
    ASSUME NEW a \in Seq(Requests), NEW b \in Seq(Requests)
    PROVE  /\ Revs(a) \subseteq Revs(a \o b)
           /\ b # <<>> /\ Head(b) = "revoke" => Revs(a \o b) # {}
<1>1. /\ Len(a) \in Nat /\ Len(b) \in Nat /\ DOMAIN a = 1..Len(a)
      /\ a \o b \in Seq(Requests) /\ Len(a \o b) = Len(a) + Len(b)
      /\ DOMAIN (a \o b) = 1..Len(a \o b)
      /\ \A i \in 1..Len(a) + Len(b) :
           (a \o b)[i] = IF i <= Len(a) THEN a[i] ELSE b[i - Len(a)]
  BY ConcatProperties
<1>2. Revs(a) \subseteq Revs(a \o b)
  BY <1>1 DEF Revs
<1>3. ASSUME b # <<>>, Head(b) = "revoke" PROVE Len(a) + 1 \in Revs(a \o b)
  <2>1. Len(b) > 0 /\ b[1] = "revoke"
    BY <1>3
  <2>2. /\ Len(a) + 1 \in 1..Len(a) + Len(b) /\ ~(Len(a) + 1 <= Len(a))
        /\ (Len(a) + 1) - Len(a) = 1
    BY <1>1, <2>1
  <2> QED
    BY <1>1, <2>1, <2>2 DEF Revs
<1> QED
  BY <1>2, <1>3

----------------------------------------------------------------------------
(* The types, and what is known of the commands.                           *)

\* The six steps of a command that the session does not notice.
QuietStep(c) ==
    \/ \E job \in Jobs : Starts(c, job)
    \/ Retries(c) \/ Polls(c) \/ GivesUp(c) \/ Begins(c) \/ Answers(c)

\* These steps are quiet.
LEMMA QuietSteps ==
    ASSUME Types, Commands, NEW c \in Clients, QuietStep(c)
    PROVE  Types' /\ Commands' /\ Quiet
BY StartsKeeps, RetriesKeeps, PollsKeeps, GivesUpKeeps, BeginsKeeps, AnswersKeeps DEF QuietStep

\* Every step keeps the types and what is known of the commands.
LEMMA Typing ==
    ASSUME Types, Commands, Sessions, [Next]_vars
    PROVE  Types' /\ Commands'
<1>1. CASE UNCHANGED vars
  BY <1>1 DEF vars, Types, Commands, Command, Watch, Watching
<1>2. ASSUME NEW c \in Clients, Asks(c) \/ Takes(c) \/ TimesOut(c) \/ Clears(c)
      PROVE  Types' /\ Commands'
  BY <1>2, Asking, Taking, Clearing
<1>3. ASSUME NEW c \in Clients, QuietStep(c) PROVE Types' /\ Commands'
  BY <1>3, QuietSteps
<1>4. CASE Session \/ LosesLink
  BY <1>4, HandlingEvent, Withdrawing, Reconnecting, LosingLink DEF Session
<1>5. CASE Service
  BY <1>5, Serving, Browsing DEF Service
<1> QED
  BY <1>1, <1>2, <1>3, <1>4, <1>5 DEF Next, Handler, QuietStep

----------------------------------------------------------------------------
(* Sessions and Older.                                                     *)

\* Every step keeps what is known of the connections.
LEMMA SessionsKept ==
    ASSUME Types, Commands, Sessions, [Next]_vars
    PROVE  Sessions'
<1>1. /\ agent \in AgentState /\ link \in LinkState /\ agent.conns \in Nat /\ MaxConns \in Nat
      /\ agent.conn \in Nat
      /\ \A n \in Conns : agent.responses[n] \in Seq(Requests)
      /\ Conns \subseteq Nat
  BY CliAssumption DEF Types, AgentState, Conns
<1>2. CASE UNCHANGED vars
  BY <1>2 DEF vars, Sessions
<1>3. ASSUME NEW c \in Clients, QuietStep(c) PROVE Sessions'
  BY <1>3, QuietSteps DEF Quiet, Sessions
<1>4. ASSUME NEW c \in Clients, Asks(c) PROVE Sessions'
  BY <1>4, Asking DEF Sessions
<1>5. ASSUME NEW c \in Clients, Takes(c) \/ TimesOut(c) PROVE Sessions'
  <2>1. ASSUME NEW n \in Conns, agent.responses[n] = <<>> PROVE agent'.responses[n] = <<>>
    <3>1. call[c].conn \in Conns /\ agent.responses \in [Conns -> Seq(Requests)]
      BY <1>1, <1>5, Taking DEF AgentState
    <3>2. CASE agent.responses[call[c].conn] # <<>> /\ Took(c)
      BY <2>1, <3>1, <3>2 DEF Took
    <3>3. CASE Missed(c)
      BY <2>1, <3>1, <3>3 DEF Missed
    <3> QED
      BY <1>5, <3>2, <3>3, Taking
  <2> QED
    BY <1>5, <2>1, Taking DEF Sessions
<1>6. ASSUME NEW c \in Clients, Clears(c) PROVE Sessions'
  BY <1>6, Clearing DEF Sessions
<1>7. CASE HandlesEvent
  BY <1>7, HandlingEvent DEF Sessions
<1>8. CASE Withdraws
  BY <1>8, Withdrawing DEF Sessions
<1>9. CASE Reconnects
  BY <1>1, <1>9, Reconnecting DEF Sessions
<1>10. CASE LosesLink
  BY <1>10, LosingLink DEF Sessions
<1>11. ASSUME NEW m, Received(m), link'.state = link.state,
              link'.toService = <<>> \/ link.state # "down"
       PROVE  Sessions'
  <2>1. CASE link.state = "up" /\ m \notin Events
    BY <1>1, <1>11, <2>1 DEF Received, Sessions, AgentState
  <2>2. CASE ~(link.state = "up" /\ m \notin Events)
    BY <1>11, <2>2 DEF Received, Sessions
  <2> QED
    BY <2>1, <2>2
<1>12. CASE Service
  <2>1. CASE Serves
    BY <1>11, <2>1, Serving DEF Sessions
  <2>2. CASE Verifies \/ Registers
    BY <1>11, <2>2, Browsing DEF Sessions
  <2> QED
    BY <1>12, <2>1, <2>2 DEF Service
<1> QED
  BY <1>2, <1>3, <1>4, <1>5, <1>6, <1>7, <1>8, <1>9, <1>10, <1>12
  DEF Next, Handler, Session, QuietStep

\* Every step keeps what is known of revocations on older connections.
LEMMA OlderKept ==
    ASSUME Types, Commands, Sessions, Older, [Next]_vars
    PROVE  Older'
<1>1. CASE UNCHANGED vars
  BY <1>1 DEF vars, Older, Active, Current
<1>2. ASSUME NEW c \in Clients, QuietStep(c) PROVE Older'
  BY <1>2, QuietSteps DEF Quiet, Older, Active, Current
<1>3. ASSUME NEW c \in Clients, Asks(c) \/ Takes(c) \/ TimesOut(c) \/ Clears(c) PROVE Older'
  <2>1. /\ agent'.conn = agent.conn /\ \A d \in Clients : d # c => call'[d] = call[d]
        /\ Active(c)' => \/ call'[c].conn = agent.conn
                         \/ /\ Active(c) /\ call'[c].conn = call[c].conn
                            /\ call'[c].crossed <=> call[c].crossed
    <3>1. CASE Asks(c)
      BY <3>1, Asking DEF Active
    <3>2. CASE Takes(c) \/ TimesOut(c)
      BY <3>2, Taking DEF Active
    <3>3. CASE Clears(c)
      BY <3>3, Clearing DEF Active
    <3> QED
      BY <1>3, <3>1, <3>2, <3>3
  <2> QED
    BY <2>1 DEF Older, Active, Current
<1>4. CASE HandlesEvent
  BY <1>4, HandlingEvent DEF Older, Active, Current, SameCalls
<1>5. CASE Withdraws
  BY <1>5, Withdrawing DEF Older
<1>6. CASE Reconnects
  BY <1>6, Reconnecting DEF Older, Active, Current, SameCalls
<1>7. CASE LosesLink
  BY <1>7, LosingLink DEF Older, Active, Current
<1>8. CASE Service
  BY <1>8, Serving, Browsing DEF Service, Received, Older, Active, Current
<1> QED
  BY <1>1, <1>2, <1>3, <1>4, <1>5, <1>6, <1>7, <1>8 DEF Next, Handler, Session, QuietStep

----------------------------------------------------------------------------
(* Matched.                                                                *)

\* An agent.paired event comes into the buffer, and leaves it.
LEMMA AheadOf ==
    ASSUME NEW events \in Seq(Events), NEW m \in Events
    PROVE  /\ Ahead(Append(events, m)) <=> Ahead(events) \/ m = "agent.paired"
           /\ events # <<>> => (Ahead(events) <=> Ahead(Tail(events)) \/ Head(events) = "agent.paired")
           /\ ~Ahead(<<>>)
<1>1. Ahead(Append(events, m)) <=> Ahead(events) \/ m = "agent.paired"
  <2>1. /\ Len(events) \in Nat /\ DOMAIN events = 1..Len(events)
        /\ DOMAIN Append(events, m) = 1..(Len(events) + 1)
        /\ Append(events, m)[Len(events) + 1] = m
        /\ \A n \in 1..Len(events) : Append(events, m)[n] = events[n]
    OBVIOUS
  <2>2. Ahead(events) => Ahead(Append(events, m))
    BY <2>1 DEF Ahead
  <2>3. m = "agent.paired" => Ahead(Append(events, m))
    <3>1. Len(events) + 1 \in 1..(Len(events) + 1)
      BY <2>1
    <3> QED
      BY <2>1, <3>1 DEF Ahead
  <2>4. Ahead(Append(events, m)) => Ahead(events) \/ m = "agent.paired"
    BY <2>1 DEF Ahead
  <2> QED
    BY <2>2, <2>3, <2>4
<1>2. ASSUME events # <<>>
      PROVE  Ahead(events) <=> Ahead(Tail(events)) \/ Head(events) = "agent.paired"
  <2>1. /\ Len(events) \in Nat \ {0} /\ DOMAIN events = 1..Len(events) /\ Head(events) = events[1]
        /\ DOMAIN Tail(events) = 1..(Len(events) - 1)
        /\ \A n \in 1..(Len(events) - 1) : Tail(events)[n] = events[n + 1]
    BY <1>2
  <2>2. ASSUME NEW i \in 1..Len(events), events[i] = "agent.paired", i # 1 PROVE Ahead(Tail(events))
    <3>1. i - 1 \in 1..(Len(events) - 1) /\ Tail(events)[i - 1] = events[i]
      BY <2>1, <2>2
    <3> QED
      BY <2>1, <2>2, <3>1 DEF Ahead
  <2>3. ASSUME NEW i \in 1..(Len(events) - 1), Tail(events)[i] = "agent.paired" PROVE Ahead(events)
    <3>1. i + 1 \in 1..Len(events) /\ events[i + 1] = "agent.paired"
      BY <2>1, <2>3
    <3> QED
      BY <2>1, <3>1 DEF Ahead
  <2> QED
    BY <2>1, <2>2, <2>3 DEF Ahead
<1>3. ~Ahead(<<>>)
  BY DEF Ahead
<1> QED
  BY <1>1, <1>2, <1>3

\* While the link is up the pipeline is a queue of requests.
LEMMA Piped ==
    ASSUME Types, Sessions, Sound
    PROVE  /\ agent.conn \in Conns /\ agent.responses[agent.conn] \in Seq(Requests)
           /\ link.toService \in Seq(Requests) /\ Pipeline \in Seq(Requests)
<1>1. agent.conn \in Conns /\ agent.responses[agent.conn] \in Seq(Requests) /\ link.toService \in Seq(Requests)
  BY DEF Types, Sessions, Sound, AgentState, LinkState, Conns
<1> QED
  BY <1>1, ConcatProperties DEF Pipeline

\* Every step leaves each revocation under way a handler that waits: one that stops
\* waiting leaves d.paired in doubt.
LEMMA MatchedKept ==
    ASSUME Types, Commands, Sessions, Older, Matched, [Next]_vars
    PROVE  Matched'
<1> SUFFICES ASSUME Sound' PROVE Paid(Revs(Pipeline'), Waiting')
  BY DEF Matched
<1>1. ASSUME Sound, Pipeline' = Pipeline, \A c \in Clients : Waits(c) => Waits(c)'
      PROVE  Paid(Revs(Pipeline'), Waiting')
  <2>1. Waiting \subseteq Waiting'
    BY <1>1 DEF Waiting
  <2> QED
    BY <1>1, <2>1, PaidSome DEF Matched
<1>2. CASE UNCHANGED vars
  BY <1>1, <1>2 DEF vars, Sound, Pipeline, Waits, Current, Active
<1>3. ASSUME NEW c \in Clients, QuietStep(c) PROVE Paid(Revs(Pipeline'), Waiting')
  BY <1>1, <1>3, QuietSteps DEF Quiet, Sound, Pipeline, Waits, Current, Active
<1>4. ASSUME NEW c \in Clients, Asks(c) PROVE Paid(Revs(Pipeline'), Waiting')
  <2>1. /\ agent' = agent /\ call[c].at = "lookup" /\ call[c].kind \in Requests
        /\ call'[c].kind = call[c].kind
        /\ \A d \in Clients : d # c => call'[d] = call[d]
    BY <1>4, Asking
  <2>2. c \notin Waiting /\ \A d \in Clients : d # c => (Waits(d)' <=> Waits(d))
    BY <2>1 DEF Waiting, Waits, Current, Active
  <2>3. CASE /\ call'[c].at = "answer" /\ call'[c].conn = agent.conn /\ link'.state = link.state
             /\ link'.toService = Append(link.toService, call[c].kind)
    <3>1. Sound
      BY <2>1, <2>3 DEF Sound
    <3>2. Pipeline' = Append(Pipeline, call[c].kind) /\ Pipeline \in Seq(Requests)
      <4> DEFINE a == agent.responses[agent.conn]
                 b == link.toService
      <4>1. a \in Seq(Requests) /\ b \in Seq(Requests) /\ Pipeline \in Seq(Requests)
        BY <3>1, Piped
      <4>2. Append(a \o b, call[c].kind) = a \o Append(b, call[c].kind)
        BY <2>1, <4>1, Queues, ZenonT(40)
      <4> QED
        BY <2>1, <2>3, <4>1, <4>2 DEF Pipeline
    <3>3. CASE call[c].kind = "revoke"
      <4>1. Paid(Revs(Pipeline) \cup {Len(Pipeline) + 1}, Waiting \cup {c})
        BY <2>2, <3>1, PaidMore DEF Matched
      <4>2. Waits(c)'
        BY <2>1, <2>3, <3>3 DEF Waits, Current, Active
      <4>3. Waiting \cup {c} \subseteq Waiting'
        BY <2>2, <4>2 DEF Waiting
      <4>4. Revs(Pipeline') = Revs(Pipeline) \cup {Len(Pipeline) + 1}
        BY <2>1, <3>2, <3>3, RevsAppend
      <4> QED
        BY <4>1, <4>3, <4>4, PaidSome
    <3>4. CASE call[c].kind # "revoke"
      <4>1. Revs(Pipeline') = Revs(Pipeline)
        BY <2>1, <3>2, <3>4, RevsAppend
      <4>2. Waiting \subseteq Waiting'
        BY <2>2 DEF Waiting
      <4> QED
        BY <3>1, <4>1, <4>2, PaidSome DEF Matched
    <3> QED
      BY <3>3, <3>4
  <2>4. CASE link' = link
    <3>1. Sound /\ Pipeline' = Pipeline
      BY <2>1, <2>4 DEF Sound, Pipeline
    <3>2. \A d \in Clients : Waits(d) => Waits(d)'
      BY <2>2 DEF Waiting
    <3> QED
      BY <1>1, <3>1, <3>2
  <2> QED
    BY <1>4, <2>3, <2>4, Asking
<1>5. ASSUME NEW c \in Clients, Takes(c) \/ TimesOut(c) PROVE Paid(Revs(Pipeline'), Waiting')
  <2> DEFINE n == call[c].conn
             queue == agent.responses[n]
  <2>1. /\ UNCHANGED link /\ call[c].at = "answer" /\ n \in Conns
        /\ agent'.conn = agent.conn
        /\ \A d \in Clients : d # c => call'[d] = call[d]
        /\ \/ queue # <<>> /\ Took(c)
           \/ Missed(c)
    BY <1>5, Taking
  <2>2. Sound
    BY <2>1 DEF Sound, Took, Missed
  <2>3. /\ agent.conn \in Conns /\ agent.responses \in [Conns -> Seq(Requests)]
        /\ link.toService \in Seq(Requests) /\ Pipeline \in Seq(Requests)
    BY <2>2, Piped DEF Types, AgentState
  <2>4. \A d \in Clients : d # c /\ Waits(d) => Waits(d)'
    BY <2>1 DEF Waits, Current, Active
  <2>5. CASE n # agent.conn
    <3>1. ~Waits(c)
      BY <2>5 DEF Waits, Current
    <3>2. agent'.responses[agent.conn] = agent.responses[agent.conn]
      BY <2>1, <2>3, <2>5 DEF Took, Missed
    <3> QED
      BY <1>1, <2>1, <2>2, <2>4, <3>1, <3>2 DEF Pipeline
  <2>6. CASE n = agent.conn /\ queue # <<>>
    <3>1. agent'.responses[n] = Tail(queue)
      BY <2>1, <2>3, <2>6 DEF Took, Missed
    <3>2. Pipeline' = Tail(Pipeline) /\ Head(queue) = Head(Pipeline) /\ Pipeline # <<>>
      <4> DEFINE b == link.toService
      <4>1. queue \in Seq(Requests) /\ b \in Seq(Requests) /\ "revoke" \in Requests
        BY <2>1, <2>3 DEF Requests
      <4>2. Tail(queue) \o b = Tail(queue \o b) /\ Head(queue) = Head(queue \o b) /\ queue \o b # <<>>
        BY <2>6, <4>1, Queues
      <4> QED
        BY <2>1, <2>6, <3>1, <4>2 DEF Pipeline
    <3>3. CASE call[c].kind = "revoke"
      <4>1. Took(c)
        BY <2>1, <2>6, <3>3 DEF Missed, Sound
      <4>2. c \in Waiting /\ Head(Pipeline) = "revoke"
        BY <2>1, <2>6, <3>2, <3>3, <4>1 DEF Waiting, Waits, Current, Active, Took
      <4>3. Paid(Revs(Tail(Pipeline)), Waiting \ {c})
        BY <2>2, <2>3, <3>2, <4>2, RevsTail DEF Matched
      <4>4. Waiting \ {c} \subseteq Waiting'
        BY <2>4 DEF Waiting
      <4> QED
        BY <3>2, <4>3, <4>4, PaidSome
    <3>4. CASE call[c].kind # "revoke"
      <4>1. Paid(Revs(Tail(Pipeline)), Waiting)
        BY <2>2, <2>3, <3>2, RevsTail DEF Matched
      <4>2. Waiting \subseteq Waiting'
        BY <2>4, <3>4 DEF Waiting, Waits, Current, Active
      <4> QED
        BY <3>2, <4>1, <4>2, PaidSome
    <3> QED
      BY <3>3, <3>4
  <2>7. CASE n = agent.conn /\ queue = <<>>
    <3>1. Missed(c) /\ call[c].kind # "revoke"
      BY <2>1, <2>7 DEF Missed, Sound
    <3>2. agent'.responses[agent.conn] = agent.responses[agent.conn]
      BY <2>1, <2>3, <2>7, <3>1 DEF Missed
    <3>3. ~Waits(c)
      BY <3>1 DEF Waits, Current, Active
    <3> QED
      BY <1>1, <2>1, <2>2, <2>4, <3>2, <3>3 DEF Pipeline
  <2> QED
    BY <2>5, <2>6, <2>7
<1>6. ASSUME NEW c \in Clients, Clears(c) PROVE Paid(Revs(Pipeline'), Waiting')
  <2>1. /\ UNCHANGED link /\ call[c].at = "clear" /\ agent'.conn = agent.conn
        /\ agent'.responses = agent.responses /\ ~agent.torn
        /\ \A d \in Clients : d # c => call'[d] = call[d]
    BY <1>6, Clearing DEF Sound
  <2>2. \A d \in Clients : Waits(d) => Waits(d)'
    BY <2>1 DEF Waits, Current, Active
  <2> QED
    BY <1>1, <2>1, <2>2 DEF Sound, Pipeline
<1>7. CASE HandlesEvent
  BY <1>1, <1>7, HandlingEvent DEF Sound, Pipeline, Waits, Current, Active, SameCalls
<1>8. CASE Withdraws
  BY <1>8, Withdrawing DEF Sound
<1>9. CASE Reconnects
  <2>1. /\ agent.conn = 0 /\ agent'.conn = agent.conns + 1 /\ agent'.conn \in Conns
        /\ agent'.responses = agent.responses /\ link'.toService = link.toService
        /\ agent.conns \in Nat
    <3>1. Types' /\ agent'.conn = agent.conns + 1 /\ agent.conns \in Conns
      BY <1>9, Reconnecting DEF Types, AgentState
    <3>2. agent'.conn \in 0..MaxConns /\ Conns \subseteq Nat
      BY <3>1 DEF Types, AgentState, Conns
    <3> QED
      BY <1>9, <3>1, <3>2, CliAssumption, Reconnecting DEF Conns
  <2>2. agent'.responses[agent'.conn] = <<>> /\ link'.toService = <<>>
    BY <2>1 DEF Sessions, Conns
  <2>3. Pipeline' = <<>> \o <<>>
    BY <2>2 DEF Pipeline
  <2>4. Revs(Pipeline') = {}
    BY <2>3, RevsEmpty
  <2>5. [i \in {} |-> i] \in [{} -> Waiting']
    OBVIOUS
  <2> QED
    BY <2>4, <2>5 DEF Paid
<1>10. CASE LosesLink
  BY <1>10, LosingLink DEF Sound
<1>11. CASE Serves
  <2>1. /\ link.toService # <<>> /\ Received(Head(link.toService)) /\ UNCHANGED call
        /\ link'.state = link.state /\ link'.toService = Tail(link.toService)
        /\ Head(link.toService) \in Requests
    BY <1>11, Serving
  <2>2. Sound
    BY <2>1 DEF Received, Sound
  <2>3. agent'.responses[agent.conn] = Append(agent.responses[agent.conn], Head(link.toService))
    BY <2>1, <2>2, Piped DEF Received, Sound, Requests, Events, Types, AgentState
  <2>4. Pipeline' = Pipeline
    <3> DEFINE a == agent.responses[agent.conn]
               b == link.toService
    <3>1. a \in Seq(Requests) /\ b \in Seq(Requests)
      BY <2>2, Piped
    <3>2. Append(a, Head(b)) \o Tail(b) = a \o b
      BY <2>1, <3>1, Queues
    <3> QED
      BY <2>1, <2>3, <3>2 DEF Pipeline, Received
  <2> QED
    BY <1>1, <2>1, <2>2, <2>4 DEF Received, Waits, Current, Active
<1>12. CASE Verifies \/ Registers
  BY <1>1, <1>12, Browsing DEF Received, Events, Sound, Pipeline, Waits, Current, Active
<1> QED
  BY <1>2, <1>3, <1>4, <1>5, <1>6, <1>7, <1>8, <1>9, <1>10, <1>11, <1>12
  DEF Next, Handler, Session, Service, QuietStep

----------------------------------------------------------------------------
(* Truth.                                                                  *)

\* A step that brings neither a revocation nor a pairing nearer.
LEMMA TruthFrame ==
    ASSUME Truth, Sound, Uncrossed' => Uncrossed, Revoked' => Revoked,
           (\E c \in Clients : Current(c)) => (\E c \in Clients : Current(c)'),
           agent'.paired = agent.paired, PairedAhead' <=> PairedAhead,
           svc'.credential = svc.credential
    PROVE  Truth'
BY DEF Truth

\* Every step keeps what the agent believes in line with the service.
LEMMA TruthKept ==
    ASSUME Types, Commands, Sessions, Older, Matched, Truth, [Next]_vars
    PROVE  Truth'
<1> SUFFICES ASSUME Sound', Uncrossed' PROVE Truth'
  BY DEF Truth
<1>1. ASSUME Sound, agent'.conn = agent.conn, agent'.responses = agent.responses,
             \A c \in Clients : Active(c)' <=> Active(c),
             \A c \in Clients : Active(c) =>
               /\ call'[c].conn = call[c].conn /\ call'[c].at = call[c].at
               /\ call'[c].crossed <=> call[c].crossed,
             agent'.paired = agent.paired, PairedAhead' <=> PairedAhead,
             svc'.credential = svc.credential
      PROVE  Truth'
  <2>1. \A c \in Clients : Current(c)' <=> Current(c)
    BY <1>1 DEF Current
  <2>2. Uncrossed' => Uncrossed
    BY <1>1, <2>1 DEF Uncrossed, Current
  <2>3. Revoked' => Revoked
    BY <1>1, <2>1 DEF Revoked, Current
  <2> QED
    BY <1>1, <2>1, <2>2, <2>3, TruthFrame
<1>2. CASE UNCHANGED vars
  BY <1>1, <1>2 DEF vars, Sound, PairedAhead, Active
<1>3. ASSUME NEW c \in Clients, QuietStep(c) PROVE Truth'
  BY <1>1, <1>3, QuietSteps DEF Quiet, Sound, PairedAhead
<1>4. ASSUME NEW c \in Clients, Asks(c) PROVE Truth'
  <2>1. /\ UNCHANGED <<agent, svc>> /\ call[c].at = "lookup" /\ link'.state = link.state
        /\ call'[c].at \in {"answer", "reply"}
        /\ \A d \in Clients : d # c => call'[d] = call[d]
    BY <1>4, Asking
  <2>2. /\ ~Active(c) /\ \A d \in Clients : d # c => (Current(d)' <=> Current(d))
        /\ \A d \in Clients : Current(d)' /\ call'[d].at = "clear" => Current(d) /\ call[d].at = "clear"
    BY <2>1 DEF Current, Active
  <2>3. Uncrossed' => Uncrossed
    BY <2>1, <2>2 DEF Uncrossed, Current
  <2>4. Revoked' => Revoked
    BY <2>1, <2>2 DEF Revoked
  <2>5. (\E d \in Clients : Current(d)) => (\E d \in Clients : Current(d)')
    BY <2>2 DEF Current
  <2> QED
    BY <2>1, <2>3, <2>4, <2>5, TruthFrame DEF Sound, PairedAhead
<1>5. ASSUME NEW c \in Clients, Takes(c) \/ TimesOut(c) PROVE Truth'
  <2> DEFINE n == call[c].conn
             queue == agent.responses[n]
  <2>1. /\ UNCHANGED <<link, svc>> /\ call[c].at = "answer" /\ n \in Conns
        /\ call'[c].kind = call[c].kind /\ call'[c].conn = n
        /\ call'[c].crossed <=> call[c].crossed
        /\ agent'.conn = agent.conn /\ agent'.paired = agent.paired /\ agent'.events = agent.events
        /\ \A d \in Clients : d # c => call'[d] = call[d]
        /\ \/ queue # <<>> /\ Took(c)
           \/ Missed(c)
    BY <1>5, Taking
  <2>2. Sound
    BY <2>1 DEF Sound, Took, Missed
  <2>3. /\ agent.conn \in Conns /\ agent.responses \in [Conns -> Seq(Requests)]
        /\ queue \in Seq(Requests)
    BY <2>1, <2>2, Piped DEF Types, AgentState
  <2>4. \A d \in Clients : d # c => (Current(d)' <=> Current(d))
    BY <2>1 DEF Current, Active
  <2>5. Current(c) => Current(c)' /\ Took(c)
    <3>1. CASE Took(c)
      BY <2>1, <3>1 DEF Current, Active, Took
    <3>2. CASE Missed(c)
      BY <2>1, <3>2 DEF Current, Active, Missed, Sound
    <3> QED
      BY <2>1, <3>1, <3>2
  <2>6. Uncrossed' => Uncrossed
    BY <2>1, <2>4, <2>5 DEF Uncrossed
  <2>7. Current(c)' /\ call'[c].at = "clear" => Revoked
    <3>1. ASSUME Current(c)', call'[c].at = "clear"
          PROVE  /\ n = agent.conn /\ queue # <<>> /\ Head(queue) = "revoke"
      BY <2>1, <3>1 DEF Current, Active, Took, Missed
    <3>2. ASSUME queue # <<>>, Head(queue) = "revoke" PROVE 1 \in Revs(queue)
      BY <2>3, <3>2 DEF Revs
    <3> QED
      BY <3>1, <3>2 DEF Revoked
  <2>8. Revs(agent'.responses[agent.conn]) # {} => Revs(agent.responses[agent.conn]) # {}
    <3>1. CASE n = agent.conn /\ queue # <<>>
      <4>1. agent'.responses[n] = Tail(queue)
        BY <2>1, <2>3, <3>1 DEF Took, Missed
      <4>2. ASSUME NEW i \in Revs(Tail(queue)) PROVE i + 1 \in Revs(queue)
        <5>1. /\ Len(queue) \in Nat \ {0} /\ DOMAIN queue = 1..Len(queue)
              /\ DOMAIN Tail(queue) = 1..(Len(queue) - 1)
              /\ \A k \in 1..(Len(queue) - 1) : Tail(queue)[k] = queue[k + 1]
          BY <2>3, <3>1
        <5> QED
          BY <5>1 DEF Revs
      <4> QED
        BY <3>1, <4>1, <4>2
    <3>2. CASE ~(n = agent.conn /\ queue # <<>>)
      BY <2>1, <2>3, <3>2 DEF Took, Missed
    <3> QED
      BY <3>1, <3>2
  <2>9. Revoked' => Revoked
    BY <2>1, <2>4, <2>7, <2>8 DEF Revoked
  <2>10. (\E d \in Clients : Current(d)) => (\E d \in Clients : Current(d)')
    BY <2>4, <2>5
  <2> QED
    BY <2>1, <2>2, <2>6, <2>9, <2>10, TruthFrame DEF PairedAhead
<1>6. ASSUME NEW c \in Clients, Clears(c) PROVE Truth'
  <2>1. /\ UNCHANGED <<link, svc>> /\ call[c].at = "clear" /\ call[c].kind = "revoke"
        /\ ~agent'.paired /\ agent'.conn = agent.conn /\ agent'.responses = agent.responses
        /\ agent'.events = agent.events /\ call'[c].at = "reply"
        /\ ~agent.torn /\ ~call[c].crossed /\ ~PairedAhead
        /\ \A d \in Clients : d # c => call'[d] = call[d]
    BY <1>6, Clearing DEF Sound
  <2>2. Sound /\ agent.conn # 0
    BY <2>1, Piped DEF Sound, Sessions
  <2>3. Current(c)
    BY <2>1, <2>2 DEF Older, Active
  <2>4. Uncrossed
    BY <2>1 DEF Uncrossed, Current, Active
  <2>5. ~svc.credential
    BY <2>1, <2>2, <2>3, <2>4 DEF Truth, Revoked
  <2>6. ~PairedAhead'
    BY <2>1 DEF PairedAhead
  <2> QED
    BY <2>1, <2>5, <2>6 DEF Truth
<1>7. CASE HandlesEvent
  <2> DEFINE event == Head(agent.events)
  <2>1. /\ UNCHANGED <<link, svc>> /\ SameCalls /\ agent.events # <<>> /\ agent'.events = Tail(agent.events)
        /\ agent'.paired <=> agent.paired \/ event = "agent.paired"
        /\ agent'.conn = agent.conn /\ agent'.torn = agent.torn /\ agent'.responses = agent.responses
        /\ \A c \in Clients : call'[c].crossed <=> call[c].crossed \/ (event = "agent.paired" /\ Active(c))
    BY <1>7, HandlingEvent
  <2>2. Sound /\ agent.events \in Seq(Events) /\ agent'.paired \in BOOLEAN /\ agent.paired \in BOOLEAN
    <3>1. Types'
      BY <1>7, HandlingEvent
    <3> QED
      BY <2>1, <3>1 DEF Sound, Types, AgentState
  <2>3. PairedAhead <=> PairedAhead' \/ event = "agent.paired"
    BY <2>1, <2>2, AheadOf DEF PairedAhead, Events
  <2>4. \A c \in Clients : (Active(c)' <=> Active(c)) /\ (Current(c)' <=> Current(c))
    BY <2>1 DEF Current, Active, SameCalls
  <2>5. CASE event = "agent.paired"
    <3>1. \A c \in Clients : ~Current(c)
      BY <2>1, <2>4, <2>5 DEF Uncrossed, Current
    <3>2. Waiting = {} /\ Uncrossed
      BY <3>1 DEF Waiting, Waits, Uncrossed
    <3>3. Revs(Pipeline) = {}
      BY <2>2, <3>2 DEF Matched, Paid
    <3>4. Revs(agent.responses[agent.conn]) = {}
      <4>1. agent.responses[agent.conn] \in Seq(Requests) /\ link.toService \in Seq(Requests)
        BY <2>2, Piped
      <4>2. Revs(agent.responses[agent.conn]) \subseteq Revs(Pipeline)
        BY <4>1, RevsConcat DEF Pipeline
      <4> QED
        BY <3>3, <4>2
    <3>5. ~Revoked'
      BY <2>1, <2>4, <3>1, <3>4 DEF Revoked
    <3>6. svc.credential
      BY <2>2, <2>3, <2>5, <3>1, <3>2 DEF Truth
    <3>7. agent'.paired
      BY <2>1, <2>5
    <3> QED
      BY <2>1, <3>5, <3>6, <3>7 DEF Truth
  <2>6. CASE event # "agent.paired"
    <3>1. agent'.paired = agent.paired
      BY <2>1, <2>2, <2>6
    <3> QED
      BY <1>1, <2>1, <2>2, <2>3, <2>4, <2>6, <3>1 DEF SameCalls
  <2> QED
    BY <2>5, <2>6
<1>8. CASE Withdraws
  BY <1>8, Withdrawing DEF Sound
<1>9. CASE Reconnects
  <2>1. /\ agent.conn = 0 /\ agent'.conn = agent.conns + 1
        /\ agent'.responses = agent.responses /\ agent'.events = agent.events
        /\ agent'.paired = svc.credential /\ svc' = svc /\ SameCalls
        /\ \A c \in Clients : call'[c].crossed <=> call[c].crossed \/ Active(c)
    BY <1>9, Reconnecting
  <2>2. Types' /\ agent.conns \in Nat
    BY <1>9, Reconnecting, CliAssumption DEF Types, AgentState, Conns
  <2>3. agent'.conn \in Conns
    BY <2>1, <2>2, CliAssumption DEF Types, AgentState, Conns
  <2>4. Revs(agent'.responses[agent'.conn]) = {}
    BY <2>1, <2>2, <2>3, RevsEmpty DEF Sessions, Conns
  <2>5. \A c \in Clients : ~Current(c)'
    BY <2>1 DEF Uncrossed, Current, Active, SameCalls
  <2>6. ~PairedAhead'
    BY <2>1, AheadOf DEF Sessions, PairedAhead, Ahead
  <2>7. ~Revoked'
    BY <2>4, <2>5 DEF Revoked
  <2> QED
    BY <2>1, <2>6, <2>7 DEF Truth
<1>10. CASE LosesLink
  BY <1>10, LosingLink DEF Sound
<1>11. CASE Serves
  <2> DEFINE kind == Head(link.toService)
  <2>1. /\ link.toService # <<>> /\ Received(kind) /\ UNCHANGED call /\ kind \in Requests
        /\ link'.state = link.state
        /\ IF kind = "revoke" THEN ~svc'.credential ELSE svc'.credential = svc.credential
    BY <1>11, Serving
  <2>2. Sound /\ kind \notin Events
    BY <2>1 DEF Received, Sound, Requests, Events
  <2>3. /\ agent'.conn = agent.conn /\ agent'.events = agent.events /\ agent'.paired = agent.paired
        /\ agent.conn \in Conns /\ agent.responses[agent.conn] \in Seq(Requests)
        /\ link.toService \in Seq(Requests)
        /\ agent'.responses[agent.conn] = Append(agent.responses[agent.conn], kind)
    BY <2>1, <2>2, Piped DEF Received, Sound, Types, AgentState
  <2>4. \A c \in Clients : (Current(c)' <=> Current(c)) /\ call'[c] = call[c]
    BY <2>1, <2>3 DEF Current, Active
  <2>5. Uncrossed
    BY <2>4 DEF Uncrossed
  <2>6. CASE kind = "revoke"
    <3>1. Revs(Pipeline) # {}
      BY <2>1, <2>3, <2>6, RevsConcat DEF Pipeline
    <3>2. PICK c \in Clients : Waits(c)
      BY <2>2, <3>1 DEF Matched, Paid, Waiting
    <3>3. Current(c)'
      BY <2>4, <3>2 DEF Waits
    <3> QED
      BY <2>1, <2>6, <3>3 DEF Truth
  <2>7. CASE kind # "revoke"
    <3>1. Revs(agent'.responses[agent'.conn]) = Revs(agent.responses[agent.conn])
      BY <2>1, <2>3, <2>7, RevsAppend
    <3>2. Revoked' => Revoked
      BY <2>4, <3>1 DEF Revoked
    <3> QED
      BY <2>1, <2>2, <2>3, <2>4, <2>5, <2>7, <3>2, TruthFrame DEF PairedAhead
  <2> QED
    BY <2>6, <2>7
<1>12. CASE Verifies \/ Registers
  <2>1. /\ UNCHANGED <<call, link>>
        /\ \/ Received("agent.pairing_verified") /\ svc'.credential = svc.credential
           \/ Received("agent.paired") /\ svc'.credential
    BY <1>12, Browsing
  <2>2. Sound /\ agent.events \in Seq(Events)
    BY <2>1 DEF Sound, Received, Types, AgentState
  <2>3. CASE Received("agent.pairing_verified") /\ svc'.credential = svc.credential
    <3>1. PairedAhead' <=> PairedAhead
      BY <2>2, <2>3, AheadOf DEF PairedAhead, Received, Events
    <3> QED
      BY <1>1, <2>1, <2>2, <2>3, <3>1 DEF Received, Events, Active
  <2>4. CASE Received("agent.paired") /\ svc'.credential
    <3>1. PairedAhead'
      BY <2>2, <2>4, AheadOf DEF PairedAhead, Received, Events, Sound
    <3> QED
      BY <2>4, <3>1 DEF Truth
  <2> QED
    BY <2>1, <2>3, <2>4
<1> QED
  BY <1>2, <1>3, <1>4, <1>5, <1>6, <1>7, <1>8, <1>9, <1>10, <1>11, <1>12
  DEF Next, Handler, Session, Service, QuietStep

----------------------------------------------------------------------------
(* Receipts.                                                               *)

\* A step after which no more is reported or to be read.
LEMMA ReceiptsFrame ==
    ASSUME Receipts, svc.revocations \in Nat, svc'.revocations = svc.revocations,
           \A c \in Clients : Entitled(c)' => Entitled(c),
           \A n \in Conns : \A T :
             Paid(Revs(agent.responses[n]), T) => Paid(Revs(agent'.responses[n]), T)
    PROVE  Receipts'
<1>1. PICK own \in SUBSET (1..svc.revocations), owed \in [Conns -> SUBSET (1..svc.revocations)] :
        /\ \A n \in Conns : owed[n] \cap own = {}
        /\ \A m, n \in Conns : m # n => owed[m] \cap owed[n] = {}
        /\ Paid({c \in Clients : Entitled(c)}, own)
        /\ \A n \in Conns : Paid(Revs(agent.responses[n]), owed[n])
  BY DEF Receipts
<1>2. Paid({c \in Clients : Entitled(c)'}, own)
  <2>1. {c \in Clients : Entitled(c)'} \subseteq {c \in Clients : Entitled(c)}
    OBVIOUS
  <2> QED
    BY <1>1, <2>1, PaidSome
<1>3. \A n \in Conns : Paid(Revs(agent'.responses[n]), owed[n])
  BY <1>1
<1> QED
  BY <1>1, <1>2, <1>3 DEF Receipts

\* Every step keeps a number for each revocation that is reported or to be read.
LEMMA ReceiptsKept ==
    ASSUME Types, Commands, Sessions, Receipts, [Next]_vars
    PROVE  Receipts'
<1>1. /\ svc.revocations \in Nat /\ agent.responses \in [Conns -> Seq(Requests)]
      /\ \A n \in Conns : agent.responses[n] \in Seq(Requests)
  BY DEF Types, ServiceState, AgentState
<1>2. ASSUME svc'.revocations = svc.revocations, agent'.responses = agent.responses,
             \A c \in Clients : Entitled(c)' => Entitled(c)
      PROVE  Receipts'
  BY <1>1, <1>2, ReceiptsFrame
<1>3. CASE UNCHANGED vars
  BY <1>2, <1>3 DEF vars, Entitled
<1>4. ASSUME NEW c \in Clients, QuietStep(c) PROVE Receipts'
  BY <1>2, <1>4, QuietSteps DEF Quiet
<1>5. ASSUME NEW c \in Clients, Asks(c) PROVE Receipts'
  BY <1>2, <1>5, Asking DEF Entitled
<1>6. ASSUME NEW c \in Clients, Takes(c) \/ TimesOut(c) PROVE Receipts'
  <2> DEFINE n == call[c].conn
             queue == agent.responses[n]
  <2>1. /\ UNCHANGED <<client, link, svc>> /\ call[c].at = "answer" /\ n \in Conns
        /\ call'[c].kind = call[c].kind
        /\ \A d \in Clients : d # c => call'[d] = call[d]
        /\ \/ queue # <<>> /\ Took(c)
           \/ Missed(c)
    BY <1>6, Taking
  <2>2. \A d \in Clients : d # c /\ Entitled(d)' => Entitled(d)
    BY <2>1 DEF Entitled
  <2>3. CASE queue # <<>> /\ Took(c) /\ call[c].kind = "revoke"
    <3>1. PICK own \in SUBSET (1..svc.revocations), owed \in [Conns -> SUBSET (1..svc.revocations)] :
            /\ \A m \in Conns : owed[m] \cap own = {}
            /\ \A l, m \in Conns : l # m => owed[l] \cap owed[m] = {}
            /\ Paid({d \in Clients : Entitled(d)}, own)
            /\ \A m \in Conns : Paid(Revs(agent.responses[m]), owed[m])
      BY DEF Receipts
    <3>2. /\ owed[n] # {} /\ \A k \in owed[n] : Paid(Revs(Tail(queue)), owed[n] \ {k})
      BY <1>1, <2>1, <2>3, <3>1, RevsTail DEF Took
    <3>3. PICK k \in owed[n] : TRUE
      BY <3>2
    <3> DEFINE own2 == own \cup {k}
               owed2 == [owed EXCEPT ![n] = @ \ {k}]
    <3>4. own2 \in SUBSET (1..svc.revocations) /\ owed2 \in [Conns -> SUBSET (1..svc.revocations)]
      BY <2>1, <3>1, <3>3
    <3>5. /\ \A m \in Conns : owed2[m] \cap own2 = {}
          /\ \A l, m \in Conns : l # m => owed2[l] \cap owed2[m] = {}
      BY <2>1, <3>1, <3>3
    <3>6. Paid({d \in Clients : Entitled(d)'}, own2)
      <4>1. Paid({d \in Clients : Entitled(d)} \cup {c}, own2)
        BY <2>1, <3>1, <3>3, PaidMore
      <4>2. {d \in Clients : Entitled(d)'} \subseteq {d \in Clients : Entitled(d)} \cup {c}
        BY <2>2
      <4> QED
        BY <4>1, <4>2, PaidSome
    <3>7. \A m \in Conns : Paid(Revs(agent'.responses[m]), owed2[m])
      <4>1. agent'.responses = [agent.responses EXCEPT ![n] = Tail(queue)]
        BY <2>3 DEF Took
      <4> QED
        BY <1>1, <2>1, <3>1, <3>2, <3>3, <4>1
    <3> HIDE DEF own2, owed2
    <3> QED
      BY <2>1, <3>4, <3>5, <3>6, <3>7 DEF Receipts
  <2>4. CASE ~(queue # <<>> /\ Took(c) /\ call[c].kind = "revoke")
    <3>1. Entitled(c)' => Entitled(c)
      BY <2>1, <2>4 DEF Entitled, Took, Missed
    <3>2. ASSUME NEW m \in Conns, NEW T, Paid(Revs(agent.responses[m]), T)
          PROVE  Paid(Revs(agent'.responses[m]), T)
      <4>1. \/ agent'.responses[m] = agent.responses[m]
            \/ m = n /\ queue # <<>> /\ agent'.responses[m] = Tail(queue)
        BY <1>1, <2>1 DEF Took, Missed
      <4> QED
        BY <1>1, <3>2, <4>1, RevsTail
    <3> QED
      BY <1>1, <2>1, <2>2, <3>1, <3>2, ReceiptsFrame
  <2> QED
    BY <2>3, <2>4
<1>7. ASSUME NEW c \in Clients, Clears(c) PROVE Receipts'
  BY <1>2, <1>7, Clearing DEF Entitled
<1>8. CASE HandlesEvent
  BY <1>2, <1>8, HandlingEvent DEF Entitled, SameCalls
<1>9. CASE Withdraws
  BY <1>2, <1>9, Withdrawing DEF Entitled
<1>10. CASE Reconnects
  BY <1>2, <1>10, Reconnecting DEF Entitled, SameCalls
<1>11. CASE LosesLink
  BY <1>2, <1>11, LosingLink DEF Entitled
<1>12. CASE Serves
  <2> DEFINE kind == Head(link.toService)
             n == agent.conn
  <2>1. /\ UNCHANGED <<client, call>> /\ kind \in Requests /\ kind \notin Events /\ Received(kind)
        /\ IF kind = "revoke" THEN svc'.revocations = svc.revocations + 1
                              ELSE svc'.revocations = svc.revocations
    BY <1>12, Serving DEF Requests, Events
  <2>2. \A c \in Clients : Entitled(c)' => Entitled(c)
    BY <2>1 DEF Entitled
  <2>3. CASE link.state = "up"
    <3>1. n \in Conns /\ agent'.responses = [agent.responses EXCEPT ![n] = Append(@, kind)]
      BY <2>1, <2>3 DEF Received, Types, AgentState, Sessions, Conns
    <3>2. CASE kind = "revoke"
      <4>1. PICK own \in SUBSET (1..svc.revocations), owed \in [Conns -> SUBSET (1..svc.revocations)] :
              /\ \A m \in Conns : owed[m] \cap own = {}
              /\ \A l, m \in Conns : l # m => owed[l] \cap owed[m] = {}
              /\ Paid({c \in Clients : Entitled(c)}, own)
              /\ \A m \in Conns : Paid(Revs(agent.responses[m]), owed[m])
        BY DEF Receipts
      <4> DEFINE k == svc.revocations + 1
                 owed2 == [owed EXCEPT ![n] = @ \cup {k}]
      <4>2. /\ svc'.revocations = k /\ k \in 1..k /\ k \notin 1..svc.revocations
            /\ 1..svc.revocations \subseteq 1..k
        BY <1>1, <2>1, <3>2
      <4> HIDE DEF k
      <4>3. own \in SUBSET (1..k) /\ owed2 \in [Conns -> SUBSET (1..k)]
        BY <3>1, <4>1, <4>2
      <4>4. /\ \A m \in Conns : k \notin owed[m] /\ k \notin own
            /\ \A m \in Conns : owed2[m] = IF m = n THEN owed[m] \cup {k} ELSE owed[m]
        BY <3>1, <4>1, <4>2
      <4> HIDE DEF owed2
      <4>5. /\ \A m \in Conns : owed2[m] \cap own = {}
            /\ \A l, m \in Conns : l # m => owed2[l] \cap owed2[m] = {}
        <5>1. ASSUME NEW m \in Conns PROVE owed2[m] \cap own = {}
          <6>1. owed[m] \cap own = {} /\ owed2[m] \subseteq owed[m] \cup {k} /\ k \notin own
            BY <4>1, <4>4
          <6> QED
            BY <6>1
        <5>2. ASSUME NEW l \in Conns, NEW m \in Conns, l # m PROVE owed2[l] \cap owed2[m] = {}
          <6>1. /\ owed[l] \cap owed[m] = {} /\ k \notin owed[l] /\ k \notin owed[m]
                /\ owed2[l] = IF l = n THEN owed[l] \cup {k} ELSE owed[l]
                /\ owed2[m] = IF m = n THEN owed[m] \cup {k} ELSE owed[m]
            BY <4>1, <4>4, <5>2
          <6> QED
            BY <5>2, <6>1
        <5> QED
          BY <5>1, <5>2
      <4>6. \A m \in Conns : Paid(Revs(agent'.responses[m]), owed2[m])
        <5>1. Paid(Revs(agent.responses[n]) \cup {Len(agent.responses[n]) + 1}, owed[n] \cup {k})
          BY <3>1, <4>1, <4>4, PaidMore
        <5>2. Revs(agent'.responses[n]) = Revs(agent.responses[n]) \cup {Len(agent.responses[n]) + 1}
          BY <1>1, <2>1, <3>1, <3>2, RevsAppend
        <5> QED
          BY <1>1, <3>1, <4>1, <4>4, <5>1, <5>2
      <4>7. Paid({c \in Clients : Entitled(c)'}, own)
        <5>1. {c \in Clients : Entitled(c)'} \subseteq {c \in Clients : Entitled(c)}
          BY <2>2
        <5> QED
          BY <4>1, <5>1, PaidSome
      <4> QED
        BY <4>2, <4>3, <4>5, <4>6, <4>7 DEF Receipts
    <3>3. CASE kind # "revoke"
      <4>1. \A m \in Conns : Revs(agent'.responses[m]) = Revs(agent.responses[m])
        BY <1>1, <2>1, <3>1, <3>3, RevsAppend
      <4> QED
        BY <1>1, <2>1, <2>2, <3>3, <4>1, ReceiptsFrame
    <3> QED
      BY <3>2, <3>3
  <2>4. CASE link.state # "up"
    <3>1. agent'.responses = agent.responses
      BY <2>1, <2>4 DEF Received
    <3>2. CASE kind = "revoke"
      <4>1. 1..svc.revocations \subseteq 1..svc'.revocations
        BY <1>1, <2>1, <3>2
      <4>2. PICK own \in SUBSET (1..svc.revocations), owed \in [Conns -> SUBSET (1..svc.revocations)] :
              /\ \A m \in Conns : owed[m] \cap own = {}
              /\ \A l, m \in Conns : l # m => owed[l] \cap owed[m] = {}
              /\ Paid({c \in Clients : Entitled(c)}, own)
              /\ \A m \in Conns : Paid(Revs(agent.responses[m]), owed[m])
        BY DEF Receipts
      <4>3. own \in SUBSET (1..svc'.revocations) /\ owed \in [Conns -> SUBSET (1..svc'.revocations)]
        BY <4>1, <4>2
      <4>4. Paid({c \in Clients : Entitled(c)'}, own)
        <5>1. {c \in Clients : Entitled(c)'} \subseteq {c \in Clients : Entitled(c)}
          BY <2>2
        <5> QED
          BY <4>2, <5>1, PaidSome
      <4> QED
        BY <3>1, <4>2, <4>3, <4>4 DEF Receipts
    <3>3. CASE kind # "revoke"
      BY <1>2, <2>1, <2>2, <3>1, <3>3
    <3> QED
      BY <3>2, <3>3
  <2> QED
    BY <2>3, <2>4
<1>13. CASE Verifies \/ Registers
  BY <1>2, <1>13, Browsing DEF Received, Events, Entitled
<1> QED
  BY <1>3, <1>4, <1>5, <1>6, <1>7, <1>8, <1>9, <1>10, <1>11, <1>12, <1>13
  DEF Next, Handler, Session, Service, QuietStep

----------------------------------------------------------------------------
(* The theorems.                                                           *)

\* The invariant holds at first.
LEMMA CliInit == Init => CliInv
<1> SUFFICES ASSUME Init PROVE CliInv
  OBVIOUS
<1>1. Types
  BY InitTypes
<1>2. /\ \A c \in Clients : /\ call[c] = NoCall /\ client[c].job = "none" /\ client[c].at = "idle"
                            /\ client[c].told = "nothing"
      /\ agent.conn = 1 /\ agent.conns = 1 /\ agent.events = <<>> /\ agent.paired = svc.credential
      /\ \A n \in Conns : agent.responses[n] = <<>>
      /\ link.state = "up" /\ link.toService = <<>> /\ svc.revocations = 0
  BY DEF Init
<1>3. \A c \in Clients : /\ call[c].kind = "none" /\ call[c].at = "begin"
                         /\ ~Active(c) /\ ~Entitled(c)
  BY <1>2 DEF NoCall, Active, Entitled
<1>4. Commands
  BY <1>2, <1>3 DEF Commands, Command, Watch, Watching
<1>5. Sessions /\ Older
  BY <1>2, <1>3 DEF Sessions, Older
<1>6. 1 \in Conns
  BY CliAssumption DEF Conns
<1>7. Matched
  <2>1. Revs(Pipeline) = {}
    BY <1>2, <1>6, RevsEmpty DEF Pipeline
  <2>2. [i \in {} |-> i] \in [{} -> Waiting]
    OBVIOUS
  <2> QED
    BY <2>1, <2>2 DEF Matched, Paid
<1>8. Truth
  BY <1>2, <1>3, <1>6, RevsEmpty DEF Truth, Revoked, Current, PairedAhead, Ahead
<1>9. Receipts
  <2> DEFINE owed == [n \in Conns |-> {}]
  <2>1. {} \in SUBSET (1..svc.revocations) /\ owed \in [Conns -> SUBSET (1..svc.revocations)]
    OBVIOUS
  <2>2. \A T : Paid({}, T)
    <3>1. \A T : [i \in {} |-> i] \in [{} -> T]
      OBVIOUS
    <3> QED
      BY <3>1 DEF Paid
  <2>3. {c \in Clients : Entitled(c)} = {} /\ \A n \in Conns : Revs(agent.responses[n]) = {}
    BY <1>2, <1>3, RevsEmpty
  <2>4. /\ \A n \in Conns : owed[n] \cap {} = {}
        /\ \A m, n \in Conns : m # n => owed[m] \cap owed[n] = {}
        /\ Paid({c \in Clients : Entitled(c)}, {})
        /\ \A n \in Conns : Paid(Revs(agent.responses[n]), owed[n])
    BY <2>2, <2>3
  <2> HIDE DEF owed
  <2> QED
    BY <2>1, <2>4 DEF Receipts
<1> QED
  BY <1>1, <1>4, <1>5, <1>7, <1>8, <1>9 DEF CliInv

\* The inductive invariant holds in every behaviour, for every set of commands.
THEOREM CliInvariant == Spec => []CliInv
<1>1. CliInv /\ [Next]_vars => CliInv'
  BY Typing, SessionsKept, OlderKept, MatchedKept, TruthKept, ReceiptsKept DEF CliInv
<1> QED
  BY CliInit, <1>1, PTL DEF Spec

\* When nothing is under way, d.paired is what the service has, unless a revocation was
\* not answered in time or was crossed (createPairing, revoke, runControl).
THEOREM PairedStateIsCurrent == Spec => []PairedIsCurrent
<1>1. CliInv => PairedIsCurrent
  <2> SUFFICES ASSUME CliInv, link.state = "up", link.toService = <<>>, agent.events = <<>>,
                      \A c \in Clients : call[c].kind # "revoke", ~agent.torn
               PROVE  agent.paired = svc.credential
    BY DEF PairedIsCurrent
  <2>1. \A c \in Clients : ~Current(c)
    BY DEF Current, Active
  <2>2. Sound /\ Uncrossed /\ ~PairedAhead
    BY <2>1 DEF Sound, Uncrossed, PairedAhead, Ahead
  <2>3. agent.paired <=> svc.credential
    BY <2>1, <2>2 DEF CliInv, Truth
  <2>4. agent.paired \in BOOLEAN /\ svc.credential \in BOOLEAN
    BY DEF CliInv, Types, AgentState, ServiceState
  <2> QED
    BY <2>3, <2>4
<1> QED
  BY CliInvariant, <1>1, PTL

\* `pair --wait' says that the code is confirmed only for an event that the agent handled
\* after its createPairing (pairingVerified, status).
THEOREM ConfirmationsAreNew == Spec => []ConfirmedAnew
<1>1. CliInv => ConfirmedAnew
  BY DEF CliInv, Commands, Watch, ConfirmedAnew
<1> QED
  BY CliInvariant, <1>1, PTL

\* Each command that says that the passkey is revoked (revoke, uninstall) stands for a
\* revocation of the service, and no two for the same one.
THEOREM RevocationsAreReal == Spec => []RevokedAsTold
<1>1. CliInv => RevokedAsTold
  <2> SUFFICES ASSUME CliInv PROVE RevokedAsTold
    OBVIOUS
  <2> DEFINE S == {c \in Clients : Kind(client[c].job) = "revoke" /\ client[c].told = "ok"}
             T == 1..svc.revocations
  <2>1. svc.revocations \in Nat
    BY DEF CliInv, Types, ServiceState
  <2>2. Paid(S, T)
    <3> DEFINE entitled == {c \in Clients : Entitled(c)}
    <3>1. PICK own \in SUBSET T : Paid(entitled, own)
      BY DEF CliInv, Receipts
    <3>2. S \subseteq entitled
      BY DEF Entitled
    <3> HIDE DEF entitled, S, T
    <3> QED
      BY <3>1, <3>2, PaidSome
  <2>3. IsFiniteSet(T) /\ Cardinality(T) = svc.revocations
    BY <2>1, UpTo
  <2>4. PICK f \in [S -> T] : \A x, y \in S : f[x] = f[y] => x = y
    BY <2>2 DEF Paid
  <2>5. f \in Injection(S, T)
    BY <2>4 DEF Injection, IsInjective
  <2>6. Cardinality(S) <= Cardinality(T)
    BY <2>3, <2>5, FS_Injection
  <2> HIDE DEF T
  <2>7. Cardinality(S) <= svc.revocations
    BY <2>3, <2>6
  <2> HIDE DEF S
  <2> QED
    BY <2>7 DEF RevokedAsTold, S
<1> QED
  BY CliInvariant, <1>1, PTL
===============================================================================
