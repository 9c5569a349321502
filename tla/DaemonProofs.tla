---------------------------- MODULE DaemonProofs ----------------------------
(***************************************************************************)
(* The safety of the daemon, for every number of connections, local        *)
(* clients and terminal goroutines, every capacity of the channels and     *)
(* whatever the service sends.  DaemonInv is inductive.  EventsInv and     *)
(* SerialInv are inductive beside it: the one about the path of events     *)
(* through a session, the other about that of requests and answers. The    *)
(* last part is the refinement of ControlLink.                             *)
(***************************************************************************)
EXTENDS DaemonRefinement, SessionProofs

USE DEF vars, daemonVars, loopVars, flagVars, handlerVars, sessionVars

\* The daemon starts in the invariant.
LEMMA InitInv == Init => DaemonInv
<1> SUFFICES ASSUME Init PROVE DaemonInv
  OBVIOUS
<1>1. SessionTypeOK
  <2>1. <<>> \in Seq(Message) /\ <<>> \in Seq(Request)
    BY EmptySeq
  <2> QED
    BY <2>1 DEF Init, SessionInit, SessionTypeOK
<1>2. DaemonTypeOK
  BY DEF Init, DaemonTypeOK, CtlStates, Commands
<1>3. ConnectionsAreOpenedInOrder /\ SupersededIsClosed
  BY SessionAssumption DEF Init, SessionInit, ConnectionsAreOpenedInOrder, SupersededIsClosed
<1>4. TakenDown /\ PublishedByPhase
  BY DEF Init, TakenDown, PublishedByPhase, Between, Published
<1>5. ControlMutex
  BY DaemonAssumption DEF Init, ControlMutex
<1>6. RequestsUseOpenedSessions
  BY DEF Init, RequestsUseOpenedSessions
<1> QED
  BY <1>1, <1>2, <1>3, <1>4, <1>5, <1>6 DEF DaemonInv, TypeOK

\* Steps that leave the session alone keep what is said about it alone.
LEMMA SessionFrame ==
    ASSUME DaemonInv, UNCHANGED sessionVars
    PROVE  /\ SessionTypeOK'
           /\ UNCHANGED cur => ConnectionsAreOpenedInOrder' /\ SupersededIsClosed'
BY DEF DaemonInv, TypeOK, SessionTypeOK, ConnectionsAreOpenedInOrder, SupersededIsClosed

\* Dialling in vain, setting the flags, publishing and announcing.
LEMMA ConnectingInv ==
    ASSUME DaemonInv, DialFails \/ SetFlags \/ Install \/ Announce
    PROVE  DaemonInv'
<1>1. SessionTypeOK' /\ ConnectionsAreOpenedInOrder' /\ SupersededIsClosed'
  BY SessionFrame DEF DialFails, SetFlags, Install, Announce
<1>2. DaemonTypeOK'
  <2>1. CASE DialFails
    BY <2>1 DEF DaemonInv, TypeOK, DaemonTypeOK, CtlStates, DialFails
  <2>2. CASE SetFlags
    BY <2>2 DEF DaemonInv, TypeOK, DaemonTypeOK, CtlStates, SetFlags
  <2>3. CASE Install \/ Announce
    BY <2>3 DEF DaemonInv, TypeOK, DaemonTypeOK, CtlStates, Install, Announce
  <2> QED
    BY <2>1, <2>2, <2>3
<1>3. TakenDown' /\ PublishedByPhase'
  BY DEF DaemonInv, TypeOK, DaemonTypeOK, TakenDown, PublishedByPhase, Between, Published, DialFails, SetFlags, Install, Announce
<1>4. ControlMutex'
  BY DaemonAssumption DEF DaemonInv, TypeOK, DaemonTypeOK, ControlMutex, PublishedByPhase, Published, TakenDown, DialFails, SetFlags, Install, Announce
<1>5. RequestsUseOpenedSessions'
  BY DaemonAssumption DEF DaemonInv, TypeOK, DaemonTypeOK, ControlMutex, PublishedByPhase, Published, TakenDown,
          RequestsUseOpenedSessions, DialFails, SetFlags, Install, Announce
<1> QED
  BY <1>1, <1>2, <1>3, <1>4, <1>5 DEF DaemonInv, TypeOK

\* Handling an event.
LEMMA ServeEventInv ==
    ASSUME DaemonInv, ServeEvent
    PROVE  DaemonInv'
<1> USE DEF ServeEvent, TakeEvent
<1>1. SessionTypeOK' /\ ConnectionsAreOpenedInOrder' /\ SupersededIsClosed'
  <2>1. cur \in Conns
    BY DEF DaemonInv, TakenDown, Between
  <2>2. SessionTypeOK'
    BY <2>1, TakeEventType DEF DaemonInv, TypeOK
  <2> QED
    BY <2>2 DEF DaemonInv, ConnectionsAreOpenedInOrder, SupersededIsClosed
<1>2. DaemonTypeOK'
  <2>1. pairingVerified' \in BOOLEAN /\ paired' \in BOOLEAN
    OBVIOUS
  <2>2. ctl' \in CtlStates
    BY DEF CtlStates
  <2>3. handled' \in [Conns -> Nat]
    <3>1. handled \in [Conns -> Nat]
      BY DEF DaemonInv, TypeOK, DaemonTypeOK
    <3>2. handled' = [handled EXCEPT ![cur] = @ + 1]
      OBVIOUS
    <3>3. cur \in Conns
      BY DEF DaemonInv, TakenDown, Between
    <3> HIDE DEF ServeEvent, TakeEvent
    <3> QED
      BY <3>1, <3>2, <3>3
  <2> QED
    BY <2>1, <2>2, <2>3 DEF DaemonInv, TypeOK, DaemonTypeOK
<1>3. TakenDown' /\ PublishedByPhase'
  BY DEF DaemonInv, TypeOK, DaemonTypeOK, TakenDown, PublishedByPhase, Between, Published, ServeEvent, TakeEvent
<1>4. ControlMutex'
  BY DaemonAssumption DEF DaemonInv, TypeOK, DaemonTypeOK, ControlMutex, PublishedByPhase, Published, TakenDown, ServeEvent, TakeEvent
<1>5. RequestsUseOpenedSessions'
  BY DaemonAssumption DEF DaemonInv, TypeOK, DaemonTypeOK, ControlMutex, PublishedByPhase, Published, TakenDown,
          RequestsUseOpenedSessions, ServeEvent, TakeEvent
<1> QED
  BY <1>1, <1>2, <1>3, <1>4, <1>5 DEF DaemonInv, TypeOK

\* Sending from the event handler.
LEMMA EventSendsInv ==
    ASSUME DaemonInv, HandlerLocks \/ HandlerSends
    PROVE  DaemonInv'
<1>1. SessionTypeOK' /\ ConnectionsAreOpenedInOrder' /\ SupersededIsClosed'
  BY SessionFrame DEF HandlerLocks, HandlerSends
<1>2. DaemonTypeOK'
  BY DEF DaemonInv, TypeOK, DaemonTypeOK, CtlStates, HandlerLocks, HandlerSends
<1>3. TakenDown' /\ PublishedByPhase'
  BY DEF DaemonInv, TypeOK, DaemonTypeOK, TakenDown, PublishedByPhase, Between, Published, HandlerLocks, HandlerSends
<1>4. ControlMutex'
  BY DaemonAssumption DEF DaemonInv, TypeOK, DaemonTypeOK, ControlMutex, PublishedByPhase, Published, TakenDown, HandlerLocks, HandlerSends
<1>5. RequestsUseOpenedSessions'
  BY DaemonAssumption DEF DaemonInv, TypeOK, DaemonTypeOK, ControlMutex, PublishedByPhase, Published, TakenDown,
          RequestsUseOpenedSessions, HandlerLocks, HandlerSends
<1> QED
  BY <1>1, <1>2, <1>3, <1>4, <1>5 DEF DaemonInv, TypeOK

\* Leaving the service loop and taking the session out of use.
LEMMA DisconnectingInv ==
    ASSUME DaemonInv, ServeEnds \/ Drain \/ Uninstall \/ Down
    PROVE  DaemonInv'
<1>1. SessionTypeOK' /\ ConnectionsAreOpenedInOrder' /\ SupersededIsClosed'
  BY SessionFrame DEF ServeEnds, Drain, Uninstall, Down
<1>2. DaemonTypeOK'
  <2>1. CASE ServeEnds \/ Drain \/ Uninstall
    BY <2>1 DEF DaemonInv, TypeOK, DaemonTypeOK, CtlStates, ServeEnds, Drain, Uninstall
  <2>2. CASE Down
    BY <2>2, ZenonT(40) DEF DaemonInv, TypeOK, DaemonTypeOK, CtlStates, Down
  <2> QED
    BY <2>1, <2>2
<1>3. TakenDown' /\ PublishedByPhase'
  BY DEF DaemonInv, TypeOK, DaemonTypeOK, TakenDown, PublishedByPhase, Between, Published, ServeEnds, Drain, Uninstall, Down
<1>4. ControlMutex'
  BY DaemonAssumption DEF DaemonInv, TypeOK, DaemonTypeOK, ControlMutex, PublishedByPhase, Published, TakenDown, ServeEnds, Drain, Uninstall, Down
<1>5. RequestsUseOpenedSessions'
  BY DaemonAssumption DEF DaemonInv, TypeOK, DaemonTypeOK, ControlMutex, PublishedByPhase, Published, TakenDown,
          RequestsUseOpenedSessions, ServeEnds, Drain, Uninstall, Down
<1> QED
  BY <1>1, <1>2, <1>3, <1>4, <1>5 DEF DaemonInv, TypeOK

\* Waiting to dial again.
LEMMA BackoffInv ==
    ASSUME DaemonInv, BackoffEnds \/ BackoffCancelled
    PROVE  DaemonInv'
<1>1. SessionTypeOK' /\ ConnectionsAreOpenedInOrder' /\ SupersededIsClosed'
  BY SessionFrame DEF BackoffEnds, BackoffCancelled
<1>2. DaemonTypeOK'
  <2>1. backoff' \in {1, 2, 4, 8, 16, 32}
    BY DaemonAssumption DEF DaemonInv, TypeOK, DaemonTypeOK, BackoffEnds, BackoffCancelled
  <2> QED
    BY <2>1 DEF DaemonInv, TypeOK, DaemonTypeOK, CtlStates, BackoffEnds, BackoffCancelled
<1>3. TakenDown' /\ PublishedByPhase'
  BY DEF DaemonInv, TypeOK, DaemonTypeOK, TakenDown, PublishedByPhase, Between, Published, BackoffEnds, BackoffCancelled
<1>4. ControlMutex'
  BY DaemonAssumption DEF DaemonInv, TypeOK, DaemonTypeOK, ControlMutex, PublishedByPhase, Published, TakenDown, BackoffEnds, BackoffCancelled
<1>5. RequestsUseOpenedSessions'
  BY DaemonAssumption DEF DaemonInv, TypeOK, DaemonTypeOK, ControlMutex, PublishedByPhase, Published, TakenDown,
          RequestsUseOpenedSessions, BackoffEnds, BackoffCancelled
<1> QED
  BY <1>1, <1>2, <1>3, <1>4, <1>5 DEF DaemonInv, TypeOK

\* A command begins.
LEMMA BeginInv ==
    ASSUME DaemonInv, NEW h \in Handlers, NEW c \in LocalCommands, Begin(h, c)
    PROVE  DaemonInv'
<1>1. SessionTypeOK' /\ ConnectionsAreOpenedInOrder' /\ SupersededIsClosed'
  BY SessionFrame DEF Begin
<1>2. DaemonTypeOK'
  <2>1. pairingVerified' \in BOOLEAN
    BY DEF Begin
  <2>2. c \in Commands
    BY DaemonAssumption
  <2> QED
    BY <2>1, <2>2 DEF DaemonInv, TypeOK, DaemonTypeOK, Begin
<1>3. TakenDown' /\ PublishedByPhase'
  BY DEF DaemonInv, TypeOK, DaemonTypeOK, TakenDown, PublishedByPhase, Between, Published, Begin
<1>4. ControlMutex'
  BY DaemonAssumption DEF DaemonInv, TypeOK, DaemonTypeOK, ControlMutex, PublishedByPhase, Published, TakenDown, Begin
<1>5. RequestsUseOpenedSessions'
  BY DaemonAssumption DEF DaemonInv, TypeOK, DaemonTypeOK, ControlMutex, PublishedByPhase, Published, TakenDown,
          RequestsUseOpenedSessions, Begin
<1> QED
  BY <1>1, <1>2, <1>3, <1>4, <1>5 DEF DaemonInv, TypeOK

\* A command looks for the session.
LEMMA LockInv ==
    ASSUME DaemonInv, NEW h \in Handlers, Lock(h) \/ LockFindsNil(h)
    PROVE  DaemonInv'
<1>1. SessionTypeOK' /\ ConnectionsAreOpenedInOrder' /\ SupersededIsClosed'
  BY SessionFrame DEF Lock, LockFindsNil, Return
<1>2. DaemonTypeOK'
  BY DEF DaemonInv, TypeOK, DaemonTypeOK, CtlStates, Lock, LockFindsNil, Return
<1>3. TakenDown' /\ PublishedByPhase'
  BY DEF DaemonInv, TypeOK, DaemonTypeOK, TakenDown, PublishedByPhase, Between, Published, Lock, LockFindsNil, Return
<1>4. ControlMutex'
  BY DaemonAssumption DEF DaemonInv, TypeOK, DaemonTypeOK, ControlMutex, PublishedByPhase, Published, TakenDown, Lock, LockFindsNil, Return
<1>5. RequestsUseOpenedSessions'
  <2>1. CASE Lock(h)
    <3>1. conn \in Conns /\ conn <= cur
      BY <2>1, SessionAssumption DEF DaemonInv, TypeOK, DaemonTypeOK, PublishedByPhase, Lock
    <3> QED
      BY <2>1, <3>1 DEF DaemonInv, TypeOK, DaemonTypeOK, RequestsUseOpenedSessions, Lock
  <2>2. CASE LockFindsNil(h)
    BY <2>2 DEF DaemonInv, TypeOK, DaemonTypeOK, RequestsUseOpenedSessions, LockFindsNil, Return
  <2> QED
    BY <2>1, <2>2
<1> QED
  BY <1>1, <1>2, <1>3, <1>4, <1>5 DEF DaemonInv, TypeOK

\* A request is written.
LEMMA WriteRequestInv ==
    ASSUME DaemonInv, NEW h \in Handlers, WriteRequest(h)
    PROVE  DaemonInv'
<1> USE DEF WriteRequest, Transmit
<1>1. SessionTypeOK' /\ ConnectionsAreOpenedInOrder' /\ SupersededIsClosed'
  <2>1. via[h] \in Conns /\ [cmd |-> cmd[h], id |-> lastId + 1] \in Request
    BY DEF DaemonInv, TypeOK, DaemonTypeOK, RequestsUseOpenedSessions, Request
  <2>2. SessionTypeOK'
    BY <2>1, TransmitType DEF DaemonInv, TypeOK
  <2> QED
    BY <2>2 DEF DaemonInv, ConnectionsAreOpenedInOrder, SupersededIsClosed
<1>2. DaemonTypeOK'
  <2>1. mixed \in [Conns -> BOOLEAN] /\ via[h] \in Conns
    BY DEF DaemonInv, TypeOK, DaemonTypeOK, RequestsUseOpenedSessions
  <2>2. mixed' \in [Conns -> BOOLEAN]
    BY <2>1
  <2> QED
    BY <2>2 DEF DaemonInv, TypeOK, DaemonTypeOK, CtlStates
<1>3. TakenDown' /\ PublishedByPhase'
  BY DEF DaemonInv, TypeOK, DaemonTypeOK, TakenDown, PublishedByPhase, Between, Published, WriteRequest, Transmit
<1>4. ControlMutex'
  BY DaemonAssumption DEF DaemonInv, TypeOK, DaemonTypeOK, ControlMutex, PublishedByPhase, Published, TakenDown, WriteRequest, Transmit
<1>5. RequestsUseOpenedSessions'
  BY DaemonAssumption DEF DaemonInv, TypeOK, DaemonTypeOK, ControlMutex, PublishedByPhase, Published, TakenDown,
          RequestsUseOpenedSessions, WriteRequest, Transmit
<1> QED
  BY <1>1, <1>2, <1>3, <1>4, <1>5 DEF DaemonInv, TypeOK

\* A write fails or a request times out.
LEMMA EndsWithoutAnswerInv ==
    ASSUME DaemonInv, NEW h \in Handlers, WriteFails(h) \/ TimesOut(h)
    PROVE  DaemonInv'
<1>1. SessionTypeOK' /\ ConnectionsAreOpenedInOrder' /\ SupersededIsClosed'
  BY SessionFrame DEF WriteFails, TransmitFails, TimesOut, Return
<1>2. DaemonTypeOK'
  <2>1. CASE WriteFails(h)
    BY <2>1 DEF DaemonInv, TypeOK, DaemonTypeOK, WriteFails, Return
  <2>2. CASE TimesOut(h)
    <3>1. mixed' \in [Conns -> BOOLEAN]
      BY <2>2 DEF DaemonInv, TypeOK, DaemonTypeOK, TimesOut
    <3> QED
      BY <2>2, <3>1 DEF DaemonInv, TypeOK, DaemonTypeOK, TimesOut, Return
  <2> QED
    BY <2>1, <2>2
<1>3. TakenDown' /\ PublishedByPhase'
  BY DEF DaemonInv, TypeOK, DaemonTypeOK, TakenDown, PublishedByPhase, Between, Published, WriteFails, TransmitFails, TimesOut, Return
<1>4. ControlMutex'
  BY DaemonAssumption DEF DaemonInv, TypeOK, DaemonTypeOK, ControlMutex, PublishedByPhase, Published, TakenDown, WriteFails, TransmitFails, TimesOut, Return
<1>5. RequestsUseOpenedSessions'
  BY DaemonAssumption DEF DaemonInv, TypeOK, DaemonTypeOK, ControlMutex, PublishedByPhase, Published, TakenDown,
          RequestsUseOpenedSessions, WriteFails, TransmitFails, TimesOut, Return
<1> QED
  BY <1>1, <1>2, <1>3, <1>4, <1>5 DEF DaemonInv, TypeOK

\* A request takes a response.
LEMMA AnswerInv ==
    ASSUME DaemonInv, NEW h \in Handlers, Accepts(h) \/ Rejects(h)
    PROVE  DaemonInv'
<1>1. SessionTypeOK' /\ ConnectionsAreOpenedInOrder' /\ SupersededIsClosed'
  <2>1. via[h] \in Conns /\ TakeResponse(via[h])
    BY DEF DaemonInv, RequestsUseOpenedSessions, Accepts, Rejects
  <2>2. SessionTypeOK'
    BY <2>1, TakeResponseType DEF DaemonInv, TypeOK
  <2> QED
    BY <2>1, <2>2 DEF DaemonInv, ConnectionsAreOpenedInOrder, SupersededIsClosed, Accepts, Rejects, TakeResponse
<1>2. DaemonTypeOK'
  <2>1. via[h] \in Conns /\ TakeResponse(via[h])
    BY DEF DaemonInv, RequestsUseOpenedSessions, Accepts, Rejects
  <2>2. Head(responses[via[h]]).id \in Nat
    BY <2>1, TakeResponseType DEF DaemonInv, TypeOK, Message
  <2> QED
    BY <2>2 DEF DaemonInv, TypeOK, DaemonTypeOK, Accepts, Rejects, Return
<1>3. TakenDown' /\ PublishedByPhase'
  BY DEF DaemonInv, TypeOK, DaemonTypeOK, TakenDown, PublishedByPhase, Between, Published, Accepts, Rejects, TakeResponse, Return
<1>4. ControlMutex'
  BY DaemonAssumption DEF DaemonInv, TypeOK, DaemonTypeOK, ControlMutex, PublishedByPhase, Published, TakenDown, Accepts, Rejects, TakeResponse, Return
<1>5. RequestsUseOpenedSessions'
  BY DaemonAssumption DEF DaemonInv, TypeOK, DaemonTypeOK, ControlMutex, PublishedByPhase, Published, TakenDown,
          RequestsUseOpenedSessions, Accepts, Rejects, TakeResponse, Return
<1> QED
  BY <1>1, <1>2, <1>3, <1>4, <1>5 DEF DaemonInv, TypeOK

\* A command replies.
LEMMA SettleInv ==
    ASSUME DaemonInv, NEW h \in Handlers, Settle(h)
    PROVE  DaemonInv'
<1>1. SessionTypeOK' /\ ConnectionsAreOpenedInOrder' /\ SupersededIsClosed'
  BY SessionFrame DEF Settle, Return
<1>2. DaemonTypeOK'
  BY DEF DaemonInv, TypeOK, DaemonTypeOK, CtlStates, Settle, Return
<1>3. TakenDown' /\ PublishedByPhase'
  BY DEF DaemonInv, TypeOK, DaemonTypeOK, TakenDown, PublishedByPhase, Between, Published, Settle, Return
<1>4. ControlMutex'
  BY DaemonAssumption DEF DaemonInv, TypeOK, DaemonTypeOK, ControlMutex, PublishedByPhase, Published, TakenDown, Settle, Return
<1>5. RequestsUseOpenedSessions'
  BY DaemonAssumption DEF DaemonInv, TypeOK, DaemonTypeOK, ControlMutex, PublishedByPhase, Published, TakenDown,
          RequestsUseOpenedSessions, Settle, Return
<1> QED
  BY <1>1, <1>2, <1>3, <1>4, <1>5 DEF DaemonInv, TypeOK

\* A terminal goroutine reports.
LEMMA ReporterInv ==
    ASSUME DaemonInv, NEW t \in Senders, Reporter(t)
    PROVE  DaemonInv'
<1>1. SessionTypeOK' /\ ConnectionsAreOpenedInOrder' /\ SupersededIsClosed'
  BY SessionFrame DEF Reporter, WantsToReport, SenderLocks, SenderWrites
<1>2. DaemonTypeOK'
  BY DEF DaemonInv, TypeOK, DaemonTypeOK, CtlStates, Reporter, WantsToReport, SenderLocks, SenderWrites
<1>3. TakenDown' /\ PublishedByPhase'
  BY DEF DaemonInv, TypeOK, DaemonTypeOK, TakenDown, PublishedByPhase, Between, Published, Reporter, WantsToReport, SenderLocks, SenderWrites
<1>4. ControlMutex'
  BY DaemonAssumption DEF DaemonInv, TypeOK, DaemonTypeOK, ControlMutex, PublishedByPhase, Published, TakenDown, Reporter, WantsToReport, SenderLocks, SenderWrites
<1>5. RequestsUseOpenedSessions'
  BY DaemonAssumption DEF DaemonInv, TypeOK, DaemonTypeOK, ControlMutex, PublishedByPhase, Published, TakenDown,
          RequestsUseOpenedSessions, Reporter, WantsToReport, SenderLocks, SenderWrites
<1> QED
  BY <1>1, <1>2, <1>3, <1>4, <1>5 DEF DaemonInv, TypeOK

\* The daemon is told to stop.
LEMMA CancelInv ==
    ASSUME DaemonInv, Cancel
    PROVE  DaemonInv'
<1>1. SessionTypeOK' /\ ConnectionsAreOpenedInOrder' /\ SupersededIsClosed'
  BY SessionFrame DEF Cancel
<1>2. DaemonTypeOK'
  BY DEF DaemonInv, TypeOK, DaemonTypeOK, CtlStates, Cancel
<1>3. TakenDown' /\ PublishedByPhase'
  BY DEF DaemonInv, TypeOK, DaemonTypeOK, TakenDown, PublishedByPhase, Between, Published, Cancel
<1>4. ControlMutex'
  BY DaemonAssumption DEF DaemonInv, TypeOK, DaemonTypeOK, ControlMutex, PublishedByPhase, Published, TakenDown, Cancel
<1>5. RequestsUseOpenedSessions'
  BY DaemonAssumption DEF DaemonInv, TypeOK, DaemonTypeOK, ControlMutex, PublishedByPhase, Published, TakenDown,
          RequestsUseOpenedSessions, Cancel
<1> QED
  BY <1>1, <1>2, <1>3, <1>4, <1>5 DEF DaemonInv, TypeOK

\* A connection is opened.
LEMMA DialInv ==
    ASSUME DaemonInv, Dial
    PROVE  DaemonInv'
<1> DEFINE s == cur + 1
<1>1. s \in Conns /\ OpenSession(s) /\ cur \in Nat
  BY SessionAssumption DEF Dial, DaemonInv, TypeOK, DaemonTypeOK
<1>2. reader[s] = "none"
  BY <1>1 DEF DaemonInv, ConnectionsAreOpenedInOrder
<1>3. SessionTypeOK'
  BY <1>1, <1>2, OpenSessionType DEF DaemonInv, TypeOK
<1>4. DaemonTypeOK'
  BY <1>1 DEF Dial, DaemonInv, TypeOK, DaemonTypeOK, CtlStates
<1>5. \A r \in Conns : r \in Nat
  BY SessionAssumption
<1>6. ConnectionsAreOpenedInOrder'
  BY <1>1, <1>5, SMTT(30) DEF Dial, OpenSession, DaemonInv, TypeOK, SessionTypeOK, ConnectionsAreOpenedInOrder
<1>7. SupersededIsClosed'
  <2>1. SUFFICES ASSUME NEW r \in Conns, r < cur'
                 PROVE  link'[r] = "closed" /\ keepalive'[r] = "done"
    BY DEF SupersededIsClosed
  <2>2. r # s /\ (r < cur \/ r = cur)
    BY <1>1, <1>5, <2>1 DEF Dial
  <2>3. link[r] = "closed" /\ keepalive[r] = "done"
    BY <1>5, <2>2, SessionAssumption
    DEF Dial, DaemonInv, SupersededIsClosed, TakenDown, Between
  <2> QED
    BY <1>1, <2>2, <2>3 DEF OpenSession, DaemonInv, TypeOK, SessionTypeOK
<1>8. TakenDown' /\ PublishedByPhase'
  BY <1>1 DEF Dial, DaemonInv, TakenDown, PublishedByPhase, Between, Published
<1>9. ControlMutex'
  BY DEF Dial, DaemonInv, ControlMutex
<1>10. RequestsUseOpenedSessions'
  BY <1>1, <1>5 DEF Dial, DaemonInv, RequestsUseOpenedSessions
<1> QED
  BY <1>3, <1>4, <1>6, <1>7, <1>8, <1>9, <1>10 DEF DaemonInv, TypeOK

\* What leaves the daemon's own variables alone and moves the session: links
\* only go down, and a keepalive that is done stays done.
LEMMA SessionStepInv ==
    ASSUME DaemonInv, NEW s \in Conns, SessionSteps(s) \/ Environment(s)
    PROVE  DaemonInv'
<1>1. SessionTypeOK'
  BY ReaderType, KeepaliveType, FarEndType DEF SessionSteps, Environment, DaemonInv, TypeOK
<1>2. UNCHANGED daemonVars
  BY DEF SessionSteps, Environment
<1>3. /\ \A r \in Conns : link[r] = "none" <=> link'[r] = "none"
      /\ \A r \in Conns : keepalive[r] = "none" <=> keepalive'[r] = "none"
      /\ \A r \in Conns : reader[r] = "none" <=> reader'[r] = "none"
      /\ \A r \in Conns : link[r] = "closed" => link'[r] = "closed"
      /\ \A r \in Conns : keepalive[r] = "done" => keepalive'[r] = "done"
  <2> USE DEF DaemonInv, TypeOK, SessionTypeOK
  <2>1. CASE Reader(s)
    BY <2>1, SMTT(30) DEF Reader, ReadEnvelope, ReadFails, PushEvent, PushResponse, PushCancelled
  <2>2. CASE Keepalive(s)
    <3>1. link[s] # "none"
      BY <2>2 DEF ConnectionsAreOpenedInOrder, Keepalive, PingStarts, PongArrives,
                  PingFails, KeepaliveStops
    <3> QED
      BY <2>2, <3>1 DEF Keepalive, PingStarts, PongArrives, PingFails, KeepaliveStops, CloseNow
  <2>3. CASE FarEnd(s)
    BY <2>3 DEF FarEnd, ServiceAnswers, ServiceSends, LinkLost
  <2> QED
    BY <2>1, <2>2, <2>3 DEF SessionSteps, Environment
<1>4. DaemonTypeOK'
  BY <1>2 DEF DaemonInv, TypeOK, DaemonTypeOK
<1>5. ConnectionsAreOpenedInOrder' /\ SupersededIsClosed'
  BY <1>2, <1>3 DEF DaemonInv, ConnectionsAreOpenedInOrder, SupersededIsClosed
<1>6. TakenDown' /\ PublishedByPhase'
  <2>1. TakenDown /\ PublishedByPhase /\ (cur = 0 \/ cur \in Conns)
    BY DEF DaemonInv, TypeOK, DaemonTypeOK
  <2>2. UNCHANGED <<ctl, cur, conn, connected>>
    BY <1>2
  <2>3. cur \in Conns => /\ link[cur] = "closed" => link'[cur] = "closed"
                         /\ keepalive[cur] = "done" => keepalive'[cur] = "done"
    BY <1>3
  <2>4. TakenDown'
    BY <2>1, <2>2, <2>3 DEF TakenDown, Between
  <2>5. PublishedByPhase'
    BY <2>1, <2>2 DEF PublishedByPhase, Published
  <2> QED
    BY <2>4, <2>5
<1>7. ControlMutex' /\ RequestsUseOpenedSessions'
  BY <1>2 DEF DaemonInv, ControlMutex, RequestsUseOpenedSessions
<1> QED
  BY <1>1, <1>4, <1>5, <1>6, <1>7 DEF DaemonInv, TypeOK

\* runControl cancels the connection context and closes the socket.
LEMMA StopInv ==
    ASSUME DaemonInv, Stop
    PROVE  DaemonInv'
<1>1. cur \in Conns /\ CloseSession(cur)
  BY DEF Stop, DaemonInv, TakenDown, Between
<1>2. SessionTypeOK'
  BY <1>1, CloseSessionType DEF DaemonInv, TypeOK
<1>3. DaemonTypeOK'
  BY DEF Stop, DaemonInv, TypeOK, DaemonTypeOK, CtlStates
<1>4. link[cur] # "none" /\ link' = [link EXCEPT ![cur] = "closed"] /\ UNCHANGED <<keepalive, reader>>
  BY <1>1, SessionAssumption DEF CloseSession, CloseNow, DaemonInv, ConnectionsAreOpenedInOrder
<1>5. ConnectionsAreOpenedInOrder' /\ SupersededIsClosed'
  BY <1>1, <1>4 DEF Stop, DaemonInv, TypeOK, SessionTypeOK, ConnectionsAreOpenedInOrder, SupersededIsClosed
<1>6. TakenDown' /\ PublishedByPhase'
  BY <1>1, <1>4 DEF Stop, DaemonInv, TypeOK, SessionTypeOK, TakenDown, PublishedByPhase, Between, Published
<1>7. ControlMutex' /\ RequestsUseOpenedSessions'
  BY DaemonAssumption DEF Stop, DaemonInv, ControlMutex, RequestsUseOpenedSessions
<1> QED
  BY <1>2, <1>3, <1>5, <1>6, <1>7 DEF DaemonInv, TypeOK

\* Every step keeps the invariant.
LEMMA StepInv == DaemonInv /\ [Next]_vars => DaemonInv'
<1> SUFFICES ASSUME DaemonInv, [Next]_vars PROVE DaemonInv'
  OBVIOUS
<1>1. CASE RunControl
  BY <1>1, ConnectingInv, DialInv, ServeEventInv, EventSendsInv, DisconnectingInv, StopInv, BackoffInv
  DEF RunControl
<1>2. ASSUME NEW h \in Handlers, Handler(h) PROVE DaemonInv'
  BY <1>2, BeginInv, LockInv, WriteRequestInv, EndsWithoutAnswerInv, AnswerInv, SettleInv DEF Handler
<1>3. ASSUME NEW t \in Senders, Reporter(t) PROVE DaemonInv'
  BY <1>3, ReporterInv
<1>4. ASSUME NEW s \in Conns, SessionSteps(s) \/ Environment(s) PROVE DaemonInv'
  BY <1>4, SessionStepInv
<1>5. CASE Cancel
  BY <1>5, CancelInv
<1>6. CASE UNCHANGED vars
  <2>1. TypeOK'
    <3>1. SessionTypeOK'
      BY <1>6, SMTT(30) DEF DaemonInv, TypeOK, SessionTypeOK
    <3>2. DaemonTypeOK'
      BY <1>6, SMTT(30) DEF DaemonInv, TypeOK, DaemonTypeOK
    <3> QED
      BY <3>1, <3>2 DEF TypeOK
  <2>2. ConnectionsAreOpenedInOrder' /\ SupersededIsClosed' /\ TakenDown' /\ PublishedByPhase'
    BY <1>6 DEF DaemonInv, ConnectionsAreOpenedInOrder, SupersededIsClosed, TakenDown, PublishedByPhase
  <2>3. ControlMutex' /\ RequestsUseOpenedSessions'
    BY <1>6 DEF DaemonInv, ControlMutex, RequestsUseOpenedSessions
  <2> QED
    BY <2>1, <2>2, <2>3 DEF DaemonInv
<1> QED
  BY <1>1, <1>2, <1>3, <1>4, <1>5, <1>6 DEF Next

\* Connections, locks and phases fit together in every reachable state.
THEOREM DaemonInvariant == Spec => []DaemonInv
BY InitInv, StepInv, PTL DEF Spec

\* Every variable keeps its type; in particular the backoff never exceeds 32
\* seconds.
THEOREM DaemonTypes == Spec => []TypeOK
<1>1. DaemonInv => TypeOK
  BY DEF DaemonInv
<1> QED
  BY <1>1, DaemonInvariant, PTL

\* The agent never has two live control connections: when a connection has
\* been superseded it is closed and its keepalive goroutine has ended.
THEOREM OneLiveConnection == Spec => []SupersededIsClosed
<1>1. DaemonInv => SupersededIsClosed
  BY DEF DaemonInv
<1> QED
  BY <1>1, DaemonInvariant, PTL

\* Whoever finds d.connection set finds the latest connection and the
\* connected flag set with it.
THEOREM PublishedConnection == Spec => []PublishedIsConnected
<1>1. DaemonInv => PublishedIsConnected
  BY DEF DaemonInv, PublishedByPhase, PublishedIsConnected
<1> QED
  BY <1>1, DaemonInvariant, PTL

\* A pairing command holds controlMu, and the session it writes to stays the
\* published one, from its write to its reply.
THEOREM PairingSession == Spec => []PairingKeepsItsSession
<1>1. DaemonInv => PairingKeepsItsSession
  BY DaemonAssumption DEF DaemonInv, ControlMutex, RequestsUseOpenedSessions, PairingKeepsItsSession
<1> QED
  BY <1>1, DaemonInvariant, PTL

----------------------------------------------------------------------------
(* Events.  No step looks into the middle of a queue: it takes the first   *)
(* envelope of one and adds it behind another, and the lemmas on ids say   *)
(* what that does to their sets and to their order.                        *)

\* The reader still runs, and the socket was not closed under it.
Flowing(s) == reader[s] \in {"reading", "pushing"} /\ link[s] # "closed"

\* What EventsUnbroken says of a connection, queue by queue.
Unbroken(s) ==
    LET buffered == IdsOf(EventKinds, events[s])
        pushed   == IdsIn(EventKinds, hold[s])
        wired    == IdsOf(EventKinds, inbox[s])
    IN /\ handled[s] <= said[s]
       /\ buffered \cup pushed \cup wired = (handled[s] + 1)..said[s]
       /\ Rising(EventKinds, events[s]) /\ Rising(EventKinds, inbox[s])
       /\ Before(buffered, pushed) /\ Before(buffered, wired) /\ Before(pushed, wired)

\* A connection that was not opened yet has no past.
Fresh(s) ==
    link[s] = "none" =>
        /\ inbox[s] = <<>> /\ events[s] = <<>> /\ hold[s] = NoMessage
        /\ handled[s] = 0 /\ said[s] = 0

\* The channel has only events.
OnlyEvents(s) == \A i \in DOMAIN events[s] : events[s][i].kind \in EventKinds

EventsOf(s) == Fresh(s) /\ OnlyEvents(s) /\ (Flowing(s) => Unbroken(s))
EventsInv == \A s \in Conns : EventsOf(s)

\* The property is what the invariant says of each connection.
LEMMA EventsMeaning ==
    ASSUME DaemonInv, EventsInv
    PROVE  EventsUnbroken
<1>1. SUFFICES ASSUME NEW s \in Conns, Flowing(s)
               PROVE  /\ IdsOf(EventKinds, events[s] \o <<hold[s]>> \o inbox[s])
                            = (handled[s] + 1)..said[s]
                      /\ Rising(EventKinds, events[s] \o <<hold[s]>> \o inbox[s])
  BY DEF EventsUnbroken, Flowing
<1>2. events[s] \in Seq(Message) /\ inbox[s] \in Seq(Message) /\ hold[s] \in Message \cup {NoMessage}
  BY DEF DaemonInv, TypeOK, SessionTypeOK
<1>3. Unbroken(s)
  BY <1>1 DEF EventsInv, EventsOf
<1>4. \A q, r \in Seq(Message), m \in Message \cup {NoMessage} :
          /\ IdsOf(EventKinds, q \o <<m>> \o r)
                = IdsOf(EventKinds, q) \cup IdsIn(EventKinds, m) \cup IdsOf(EventKinds, r)
          /\ Rising(EventKinds, q \o <<m>> \o r) <=>
                /\ Rising(EventKinds, q) /\ Rising(EventKinds, r)
                /\ Before(IdsOf(EventKinds, q), IdsIn(EventKinds, m))
                /\ Before(IdsOf(EventKinds, q), IdsOf(EventKinds, r))
                /\ Before(IdsIn(EventKinds, m), IdsOf(EventKinds, r))
  BY IdsAhead
<1> QED
  BY <1>2, <1>3, <1>4, Zenon DEF Unbroken

\* At first there is no event.
LEMMA InitEvents == Init => EventsInv
<1> SUFFICES ASSUME Init, NEW s \in Conns PROVE EventsOf(s)
  BY DEF EventsInv
<1>1. reader[s] = "none" /\ Fresh(s) /\ events[s] = <<>>
  BY DEF Init, SessionInit, Fresh
<1> QED
  BY <1>1 DEF EventsOf, OnlyEvents, Flowing

\* A connection that a step leaves alone.
LEMMA EventsKept ==
    ASSUME NEW s \in Conns, EventsOf(s),
           UNCHANGED <<link[s], inbox[s], reader[s], hold[s], events[s], said[s], handled[s]>>
    PROVE  EventsOf(s)'
BY DEF EventsOf, Fresh, OnlyEvents, Flowing, Unbroken

\* A new connection: nothing was sent on it and nothing handled.
LEMMA DialEvents ==
    ASSUME DaemonInv, EventsInv, Dial
    PROVE  EventsInv'
<1>1. PICK s \in Conns : OpenSession(s) /\ UNCHANGED handled
  BY DEF Dial
<1>2. link[s] = "none" /\ EventsOf(s)
  BY <1>1 DEF OpenSession, EventsInv
<1>3. ASSUME NEW r \in Conns, r # s
      PROVE  EventsOf(r)'
  <2>1. link'[r] = link[r] /\ reader'[r] = reader[r]
    BY <1>1, <1>3 DEF OpenSession, DaemonInv, TypeOK, SessionTypeOK
  <2> QED
    BY <1>1, <1>3, <2>1, EventsKept DEF OpenSession, EventsInv
<1>4. EventsOf(s)'
  <2>1. /\ inbox'[s] = <<>> /\ events'[s] = <<>> /\ hold'[s] = NoMessage
        /\ handled'[s] = 0 /\ said'[s] = 0
    BY <1>1, <1>2 DEF OpenSession, EventsOf, Fresh
  <2>2. IdsIn(EventKinds, NoMessage) = {}
    BY DEF IdsIn, NoMessage, EventKinds
  <2>3. (0 + 1)..0 = {}
    OBVIOUS
  <2>4. Unbroken(s)'
    BY <2>1, <2>2, <2>3, IdsOfNone DEF Unbroken, Before
  <2> QED
    BY <2>1, <2>4 DEF EventsOf, Fresh, OnlyEvents
<1> QED
  BY <1>3, <1>4 DEF EventsInv

\* The event that is handled is the one with the next number.
LEMMA ServeEvents ==
    ASSUME DaemonInv, EventsInv, ServeEvent
    PROVE  EventsInv'
<1>1. PICK s \in Conns :
          /\ TakeEvent(s) /\ handled' = [handled EXCEPT ![s] = @ + 1]
          /\ events[s] \in Seq(Message) /\ events[s] # <<>>
          /\ handled \in [Conns -> Nat] /\ said \in [Conns -> Nat] /\ events \in [Conns -> Seq(Message)]
  BY DEF ServeEvent, TakeEvent, DaemonInv, TypeOK, SessionTypeOK, DaemonTypeOK, TakenDown, Between
<1>2. ASSUME NEW r \in Conns, r # s
      PROVE  EventsOf(r)'
  <2>1. events'[r] = events[r] /\ handled'[r] = handled[r]
    BY <1>1, <1>2 DEF TakeEvent
  <2> QED
    BY <1>1, <1>2, <2>1, EventsKept DEF TakeEvent, EventsInv
<1>3. EventsOf(s)'
  <2> DEFINE m == Head(events[s])
             rest == Tail(events[s])
  <2>1. /\ events'[s] = rest /\ handled'[s] = handled[s] + 1
        /\ UNCHANGED <<link, inbox, reader, hold, said>>
    BY <1>1 DEF TakeEvent
  <2>2. m \in Message /\ rest \in Seq(Message) /\ EventsOf(s)
    BY <1>1, HeadTailProperties DEF EventsInv
  <2>3. /\ Len(events[s]) \in Nat /\ DOMAIN events[s] = 1..Len(events[s]) /\ Len(events[s]) # 0
        /\ m = events[s][1] /\ DOMAIN rest = 1..(Len(events[s]) - 1)
        /\ \A i \in DOMAIN rest : rest[i] = events[s][i + 1]
    BY <1>1, HeadTailProperties, LenProperties
  <2>4. /\ IdsOf(EventKinds, events[s]) = IdsIn(EventKinds, m) \cup IdsOf(EventKinds, rest)
        /\ Rising(EventKinds, events[s]) <=>
              Rising(EventKinds, rest) /\ Before(IdsIn(EventKinds, m), IdsOf(EventKinds, rest))
    BY <1>1, IdsOfHeadTail
  <2> HIDE DEF m, rest
  <2>5. m.kind \in EventKinds /\ OnlyEvents(s)'
    <3>1. \A i \in DOMAIN rest : i + 1 \in DOMAIN events[s]
      BY <2>3
    <3> QED
      BY <2>1, <2>2, <2>3, <3>1 DEF EventsOf, OnlyEvents
  <2>6. IdsIn(EventKinds, m) = {m.id} /\ m.id \in Nat
    BY <2>2, <2>5 DEF IdsIn, Message
  <2>7. Fresh(s)'
    BY <1>1, <2>1, <2>2 DEF EventsOf, Fresh
  <2>8. ASSUME Flowing(s)'
        PROVE  Unbroken(s)'
    <3>1. Unbroken(s)
      BY <2>1, <2>2, <2>8 DEF EventsOf, Flowing
    <3> DEFINE others == IdsOf(EventKinds, rest) \cup IdsIn(EventKinds, hold[s])
                             \cup IdsOf(EventKinds, inbox[s])
    <3>2. /\ {m.id} \cup others = (handled[s] + 1)..said[s]
          /\ \A n \in others : m.id < n
      BY <2>4, <2>6, <3>1 DEF Unbroken, Before
    <3>3. others = (handled[s] + 2)..said[s]
      <4> HIDE DEF others
      <4>1. handled[s] \in Nat /\ said[s] \in Nat
        BY <1>1
      <4>2. m.id \in (handled[s] + 1)..said[s] /\ handled[s] + 1 \in {m.id} \cup others
        BY <3>2, <4>1
      <4>3. m.id = handled[s] + 1
        BY <2>6, <3>2, <4>1, <4>2
      <4>4. \A n : n \in others <=> n \in (handled[s] + 1)..said[s] /\ n # m.id
        BY <2>6, <3>2
      <4>5. \A n : n \in (handled[s] + 2)..said[s] <=> n \in (handled[s] + 1)..said[s] /\ n # handled[s] + 1
        BY <4>1
      <4> QED
        BY <4>3, <4>4, <4>5
    <3>4. handled'[s] + 1 = handled[s] + 2 /\ handled'[s] <= said[s]
      <4> HIDE DEF others
      <4>1. m.id \in (handled[s] + 1)..said[s]
        BY <3>2
      <4> QED
        BY <1>1, <2>1, <4>1
    <3> QED
      BY <2>1, <2>4, <3>1, <3>3, <3>4 DEF Unbroken, Before
  <2> QED
    BY <2>5, <2>7, <2>8 DEF EventsOf
<1> QED
  BY <1>2, <1>3 DEF EventsInv

\* The reader hands an envelope on, or ends.
LEMMA ReaderEvents ==
    ASSUME DaemonInv, EventsInv, NEW s \in Conns, Reader(s), UNCHANGED handled
    PROVE  EventsInv'
<1>1. SessionTypeOK /\ EventsOf(s) /\ UNCHANGED <<link, said>>
  BY DEF DaemonInv, TypeOK, EventsInv, Reader, ReadEnvelope, ReadFails, PushEvent, PushResponse,
         PushCancelled
<1>2. ASSUME NEW r \in Conns, r # s
      PROVE  EventsOf(r)'
  <2>1. UNCHANGED <<inbox[r], reader[r], hold[r], events[r]>>
    BY <1>1, <1>2 DEF SessionTypeOK, Reader, ReadEnvelope, ReadFails, PushEvent, PushResponse,
         PushCancelled
  <2> QED
    BY <1>1, <1>2, <2>1, EventsKept DEF EventsInv
<1>3. link[s] # "none"
  BY DEF DaemonInv, ConnectionsAreOpenedInOrder, Reader, ReadEnvelope, ReadFails, PushEvent,
         PushResponse, PushCancelled
<1>4. Fresh(s)'
  BY <1>1, <1>3 DEF Fresh
<1>5. events[s] \in Seq(Message) /\ inbox[s] \in Seq(Message) /\ hold[s] \in Message \cup {NoMessage}
  BY <1>1 DEF SessionTypeOK
<1>6. IdsIn(EventKinds, NoMessage) = {}
  BY DEF IdsIn, NoMessage, EventKinds
<1>7. CASE ReadEnvelope(s) /\ reader'[s] # "done"
  <2>1. /\ inbox[s] # <<>> /\ inbox'[s] = Tail(inbox[s]) /\ hold'[s] = Head(inbox[s])
        /\ hold[s] = NoMessage /\ reader[s] = "reading" /\ UNCHANGED events
    BY <1>1, <1>7 DEF SessionTypeOK, ReadEnvelope
  <2>2. /\ IdsOf(EventKinds, inbox[s])
              = IdsIn(EventKinds, hold'[s]) \cup IdsOf(EventKinds, inbox'[s])
        /\ Rising(EventKinds, inbox[s]) <=>
              /\ Rising(EventKinds, inbox'[s])
              /\ Before(IdsIn(EventKinds, hold'[s]), IdsOf(EventKinds, inbox'[s]))
    <3>1. /\ IdsOf(EventKinds, inbox[s])
                = IdsIn(EventKinds, Head(inbox[s])) \cup IdsOf(EventKinds, Tail(inbox[s]))
          /\ Rising(EventKinds, inbox[s]) <=>
                /\ Rising(EventKinds, Tail(inbox[s]))
                /\ Before(IdsIn(EventKinds, Head(inbox[s])), IdsOf(EventKinds, Tail(inbox[s])))
      BY <1>5, <2>1, IdsOfHeadTail
    <3> QED
      BY <2>1, <3>1, Zenon
  <2>3. Flowing(s)' => Flowing(s)
    BY <1>1, <2>1 DEF Flowing
  <2>4. Unbroken(s) => Unbroken(s)'
    BY <1>1, <1>6, <2>1, <2>2 DEF Unbroken, Before
  <2> QED
    BY <1>1, <1>2, <1>4, <2>1, <2>3, <2>4 DEF EventsInv, EventsOf, OnlyEvents
<1>8. CASE PushEvent(s)
  <2>1. /\ hold[s] \in Message /\ hold[s].kind \in EventKinds /\ hold'[s] = NoMessage
        /\ events'[s] = Append(events[s], hold[s]) /\ UNCHANGED inbox
    BY <1>1, <1>8 DEF SessionTypeOK, PushEvent
  <2>2. /\ IdsOf(EventKinds, events'[s])
              = IdsOf(EventKinds, events[s]) \cup IdsIn(EventKinds, hold[s])
        /\ Rising(EventKinds, events'[s]) <=>
              /\ Rising(EventKinds, events[s])
              /\ Before(IdsOf(EventKinds, events[s]), IdsIn(EventKinds, hold[s]))
    BY <1>5, <2>1, IdsOfAppended
  <2>3. Flowing(s)' => Flowing(s)
    BY <1>1, <1>8 DEF Flowing, PushEvent
  <2>4. Unbroken(s) => Unbroken(s)'
    BY <1>1, <1>6, <2>1, <2>2 DEF Unbroken, Before
  <2>5. OnlyEvents(s)'
    <3>1. /\ DOMAIN events'[s] = 1..(Len(events[s]) + 1) /\ events'[s][Len(events[s]) + 1] = hold[s]
          /\ \A i \in 1..Len(events[s]) : events'[s][i] = events[s][i]
          /\ Len(events[s]) \in Nat /\ DOMAIN events[s] = 1..Len(events[s])
      BY <1>5, <2>1, AppendProperties, LenProperties
    <3> QED
      BY <1>1, <2>1, <3>1 DEF EventsOf, OnlyEvents
  <2> QED
    BY <1>1, <1>2, <1>4, <2>3, <2>4, <2>5 DEF EventsInv, EventsOf
<1>9. CASE PushResponse(s)
  <2>1. /\ hold[s].kind \notin EventKinds /\ hold'[s] = NoMessage /\ UNCHANGED <<events, inbox>>
    BY <1>1, <1>9 DEF SessionTypeOK, PushResponse
  <2>2. IdsIn(EventKinds, hold[s]) = {}
    BY <2>1 DEF IdsIn
  <2>3. Flowing(s)' => Flowing(s)
    BY <1>1, <1>9 DEF Flowing, PushResponse
  <2>4. Unbroken(s) => Unbroken(s)'
    BY <1>1, <1>6, <2>1, <2>2 DEF Unbroken, Before
  <2> QED
    BY <1>1, <1>2, <1>4, <2>1, <2>3, <2>4 DEF EventsInv, EventsOf, OnlyEvents
<1>10. CASE ReadFails(s) \/ PushCancelled(s) \/ (ReadEnvelope(s) /\ reader'[s] = "done")
  <2>1. reader'[s] = "done" /\ UNCHANGED events
    BY <1>1, <1>10 DEF SessionTypeOK, ReadFails, PushCancelled, ReadEnvelope
  <2> QED
    BY <1>1, <1>2, <1>4, <2>1 DEF EventsInv, EventsOf, OnlyEvents, Flowing
<1> QED
  BY <1>7, <1>8, <1>9, <1>10 DEF Reader

\* After CloseNow nothing is claimed of the connection any more.
LEMMA CloseEvents ==
    ASSUME DaemonInv, EventsInv, NEW s \in Conns, CloseNow(s), link[s] # "none",
           UNCHANGED <<reader, hold, events, said, handled>>
    PROVE  EventsInv'
<1>1. SessionTypeOK
  BY DEF DaemonInv, TypeOK
<1>2. link'[s] = "closed" /\ EventsOf(s)'
  BY <1>1 DEF SessionTypeOK, CloseNow, EventsInv, EventsOf, Fresh, OnlyEvents, Flowing
<1>3. ASSUME NEW r \in Conns, r # s
      PROVE  EventsOf(r)'
  <2>1. UNCHANGED <<link[r], inbox[r]>>
    BY <1>1, <1>3 DEF SessionTypeOK, CloseNow
  <2> QED
    BY <1>3, <2>1, EventsKept DEF EventsInv
<1> QED
  BY <1>2, <1>3 DEF EventsInv

\* What the far end sends goes behind what it sent before.
LEMMA FarEndEvents ==
    ASSUME DaemonInv, EventsInv, NEW s \in Conns, FarEnd(s), UNCHANGED handled
    PROVE  EventsInv'
<1>1. /\ SessionTypeOK /\ EventsOf(s) /\ UNCHANGED <<reader, hold, events>> /\ handled \in [Conns -> Nat]
      /\ inbox[s] \in Seq(Message) /\ said[s] \in Nat /\ link[s] = "up"
  BY DEF DaemonInv, TypeOK, SessionTypeOK, DaemonTypeOK, EventsInv, FarEnd, ServiceAnswers, ServiceSends, LinkLost
<1>2. ASSUME NEW r \in Conns, r # s
      PROVE  EventsOf(r)'
  <2>1. UNCHANGED <<link[r], inbox[r], said[r]>>
    BY <1>1, <1>2 DEF SessionTypeOK, FarEnd, ServiceAnswers, ServiceSends, LinkLost
  <2> QED
    BY <1>1, <1>2, <2>1, EventsKept DEF EventsInv
<1>3. link'[s] # "none" /\ (Flowing(s)' => Flowing(s))
  BY <1>1 DEF SessionTypeOK, Flowing, FarEnd, ServiceAnswers, ServiceSends, LinkLost
<1>4. ASSUME NEW m \in Message, inbox'[s] = Append(inbox[s], m), m.kind \notin EventKinds, UNCHANGED said
      PROVE  Unbroken(s) => Unbroken(s)'
  <2>1. IdsIn(EventKinds, m) = {}
    BY <1>4 DEF IdsIn
  <2>2. /\ IdsOf(EventKinds, inbox'[s]) = IdsOf(EventKinds, inbox[s])
        /\ Rising(EventKinds, inbox'[s]) <=> Rising(EventKinds, inbox[s])
    <3>1. /\ IdsOf(EventKinds, Append(inbox[s], m))
                = IdsOf(EventKinds, inbox[s]) \cup IdsIn(EventKinds, m)
          /\ Rising(EventKinds, Append(inbox[s], m)) <=>
                /\ Rising(EventKinds, inbox[s])
                /\ Before(IdsOf(EventKinds, inbox[s]), IdsIn(EventKinds, m))
      BY <1>1, IdsOfAppended
    <3> QED
      BY <1>4, <2>1, <3>1 DEF Before
  <2> QED
    BY <1>1, <1>4, <2>2 DEF Unbroken
<1>5. CASE ServiceAnswers(s)
  <2>1. Head(asked[s]) \in Request
    BY <1>1, <1>5, HeadTailProperties DEF SessionTypeOK, ServiceAnswers
  <2>2. PICK k \in {AnswerTo[Head(asked[s]).cmd], "error"} :
            inbox' = [inbox EXCEPT ![s] = Append(@, [kind |-> k, id |-> Head(asked[s]).id])]
    BY <1>5 DEF ServiceAnswers
  <2>3. k \in Kinds /\ k \notin EventKinds
    BY <2>1, KindsAreKinds DEF Request, Commands, AnswerTo, EventKinds
  <2> DEFINE m == [kind |-> k, id |-> Head(asked[s]).id]
  <2>4. m \in Message /\ m.kind \notin EventKinds /\ inbox'[s] = Append(inbox[s], m) /\ UNCHANGED said
    BY <1>1, <1>5, <2>1, <2>2, <2>3 DEF Message, Request, SessionTypeOK, ServiceAnswers
  <2> HIDE DEF m
  <2> QED
    BY <1>1, <1>2, <1>3, <1>4, <2>4 DEF EventsInv, EventsOf, OnlyEvents, Fresh
<1>6. ASSUME NEW k \in Spontaneous, ServiceSends(s, k), k \notin EventKinds
      PROVE  EventsInv'
  <2> DEFINE m == [kind |-> k, id |-> 0]
  <2>1. m \in Message /\ m.kind \notin EventKinds /\ inbox'[s] = Append(inbox[s], m) /\ UNCHANGED said
    BY <1>1, <1>6, KindsAreKinds DEF Message, SessionTypeOK, ServiceSends
  <2> HIDE DEF m
  <2> QED
    BY <1>1, <1>2, <1>3, <1>4, <2>1 DEF EventsInv, EventsOf, OnlyEvents, Fresh
<1>7. ASSUME NEW k \in Spontaneous, ServiceSends(s, k), k \in EventKinds
      PROVE  EventsInv'
  <2> DEFINE m == [kind |-> k, id |-> said[s] + 1]
  <2>1. m \in Message /\ inbox'[s] = Append(inbox[s], m) /\ said'[s] = said[s] + 1
    BY <1>1, <1>7, KindsAreKinds DEF Message, SessionTypeOK, ServiceSends
  <2>2. IdsIn(EventKinds, m) = {said[s] + 1}
    BY <1>7 DEF IdsIn
  <2> HIDE DEF m
  <2>3. /\ IdsOf(EventKinds, inbox'[s]) = IdsOf(EventKinds, inbox[s]) \cup {said[s] + 1}
        /\ Rising(EventKinds, inbox'[s]) <=>
              Rising(EventKinds, inbox[s]) /\ Before(IdsOf(EventKinds, inbox[s]), {said[s] + 1})
    <3>1. /\ IdsOf(EventKinds, Append(inbox[s], m))
                = IdsOf(EventKinds, inbox[s]) \cup IdsIn(EventKinds, m)
          /\ Rising(EventKinds, Append(inbox[s], m)) <=>
                /\ Rising(EventKinds, inbox[s])
                /\ Before(IdsOf(EventKinds, inbox[s]), IdsIn(EventKinds, m))
      BY <1>1, <2>1, IdsOfAppended
    <3> QED
      BY <2>1, <2>2, <3>1
  <2>4. ASSUME Unbroken(s)
        PROVE  Unbroken(s)'
    <3> DEFINE all == IdsOf(EventKinds, events[s]) \cup IdsIn(EventKinds, hold[s])
                          \cup IdsOf(EventKinds, inbox[s])
    <3>1. all = (handled[s] + 1)..said[s] /\ handled[s] <= said[s]
      BY <2>4 DEF Unbroken
    <3>2. all \cup {said[s] + 1} = (handled[s] + 1)..(said[s] + 1) /\ \A n \in all : n < said[s] + 1
      <4> HIDE DEF all
      <4>1. handled[s] \in Nat
        BY <1>1
      <4> QED
        BY <1>1, <3>1, <4>1
    <3>3. handled'[s] <= said'[s]
      BY <1>1, <2>1, <3>1
    <3> QED
      BY <1>1, <2>1, <2>3, <2>4, <3>2, <3>3 DEF Unbroken, Before
  <2> QED
    BY <1>1, <1>2, <1>3, <2>4 DEF EventsInv, EventsOf, OnlyEvents, Fresh
<1>8. CASE LinkLost(s)
  <2>1. UNCHANGED <<inbox, said>>
    BY <1>8 DEF LinkLost
  <2> QED
    BY <1>1, <1>2, <1>3, <2>1 DEF EventsInv, EventsOf, OnlyEvents, Fresh, Unbroken
<1> QED
  BY <1>5, <1>6, <1>7, <1>8 DEF FarEnd

\* Every other step leaves the path of the events alone.
LEMMA EventsElsewhere ==
    ASSUME DaemonInv, EventsInv, UNCHANGED <<link, inbox, reader, hold, events, said, handled>>
    PROVE  EventsInv'
<1> SUFFICES ASSUME NEW s \in Conns PROVE EventsOf(s)'
  BY DEF EventsInv
<1> QED
  BY EventsKept DEF EventsInv

\* Every step keeps what is said of events.
LEMMA StepEvents == DaemonInv /\ EventsInv /\ [Next]_vars => EventsInv'
<1> SUFFICES ASSUME DaemonInv, EventsInv, [Next]_vars PROVE EventsInv'
  OBVIOUS
<1>1. CASE RunControl
  <2>1. CASE Stop
    <3>1. PICK s \in Conns : s = cur /\ CloseSession(s)
      BY <2>1 DEF Stop, DaemonInv, TakenDown, Between
    <3>2. CloseNow(s) /\ link[s] # "none" /\ UNCHANGED <<reader, hold, events, said, handled>>
      BY <2>1, <3>1, SessionAssumption DEF Stop, CloseSession, DaemonInv, ConnectionsAreOpenedInOrder
    <3> QED
      BY <3>2, CloseEvents
  <2>2. CASE Dial \/ ServeEvent
    BY <2>2, DialEvents, ServeEvents
  <2>3. CASE DialFails \/ SetFlags \/ Install \/ Announce \/ HandlerLocks \/ HandlerSends
    BY <2>3, EventsElsewhere DEF DialFails, SetFlags, Install, Announce, HandlerLocks, HandlerSends
  <2>4. CASE ServeEnds \/ Drain \/ Uninstall \/ Down \/ BackoffEnds \/ BackoffCancelled
    BY <2>4, EventsElsewhere DEF ServeEnds, Drain, Uninstall, Down, BackoffEnds, BackoffCancelled
  <2> QED
    BY <1>1, <2>1, <2>2, <2>3, <2>4 DEF RunControl
<1>2. ASSUME NEW h \in Handlers, Handler(h) PROVE EventsInv'
  <2>1. UNCHANGED <<link, inbox, reader, hold, events, said, handled>>
    BY <1>2 DEF Handler, Begin, Lock, LockFindsNil, WriteRequest, Transmit, WriteFails, TransmitFails,
         Accepts, Rejects, TakeResponse, TimesOut, Settle
  <2> QED
    BY <2>1, EventsElsewhere
<1>3. ASSUME NEW t \in Senders, Reporter(t) PROVE EventsInv'
  BY <1>3, EventsElsewhere DEF Reporter, WantsToReport, SenderLocks, SenderWrites
<1>4. ASSUME NEW s \in Conns, SessionSteps(s) \/ Environment(s) PROVE EventsInv'
  <2>1. UNCHANGED handled
    BY <1>4 DEF SessionSteps, Environment
  <2>2. CASE PingFails(s)
    <3>1. CloseNow(s) /\ link[s] # "none" /\ UNCHANGED <<reader, hold, events, said>>
      BY <2>2 DEF PingFails, DaemonInv, ConnectionsAreOpenedInOrder
    <3> QED
      BY <2>1, <3>1, CloseEvents
  <2>3. CASE PingStarts(s) \/ PongArrives(s) \/ KeepaliveStops(s)
    BY <2>1, <2>3, EventsElsewhere DEF PingStarts, PongArrives, KeepaliveStops
  <2>4. CASE Reader(s) \/ FarEnd(s)
    BY <2>1, <2>4, ReaderEvents, FarEndEvents
  <2> QED
    BY <1>4, <2>2, <2>3, <2>4 DEF SessionSteps, Environment, Keepalive
<1>5. CASE Cancel
  BY <1>5, EventsElsewhere DEF Cancel
<1>6. CASE UNCHANGED vars
  BY <1>6, EventsElsewhere
<1> QED
  BY <1>1, <1>2, <1>3, <1>4, <1>5, <1>6 DEF Next

\* A session neither loses, repeats nor reorders an event between the service
\* and handleControlEvent, while its reader runs and its socket is open.
THEOREM EventsArriveInOrder == Spec => []EventsUnbroken
<1>1. DaemonInv /\ EventsInv => EventsUnbroken
  BY EventsMeaning
<1> QED
  BY <1>1, InitInv, StepInv, InitEvents, StepEvents, PTL DEF Spec

----------------------------------------------------------------------------
(* Answers.  On a connection where nothing was abandoned and nothing sent  *)
(* unasked, one request at most is under way, and controlMu says whose.    *)

\* Everything but an event goes to responses.
ResponseKinds == Kinds \ EventKinds
OnlyResponses(s) == \A i \in DOMAIN responses[s] : responses[s][i].kind \in ResponseKinds

\* A pairing command waits for the answer with that id.
Owned(s, id) ==
    \E h \in Handlers : pc[h] = "wait" /\ cmd[h] \in Locking /\ via[h] = s /\ rid[h] = id

\* The answers on their way to request, and that they stand in order: so none
\* is there twice.
Coming(s) == IdsOf(ResponseKinds, responses[s]) \cup IdsIn(ResponseKinds, hold[s])
                 \cup IdsOf(ResponseKinds, inbox[s])
InTurn(s) ==
    /\ Rising(ResponseKinds, responses[s]) /\ Rising(ResponseKinds, inbox[s])
    /\ Before(IdsOf(ResponseKinds, responses[s]), IdsIn(ResponseKinds, hold[s]))
    /\ Before(IdsOf(ResponseKinds, responses[s]), IdsOf(ResponseKinds, inbox[s]))
    /\ Before(IdsIn(ResponseKinds, hold[s]), IdsOf(ResponseKinds, inbox[s]))

\* A request is either with the service or answered, never both.
OneRequest(s) ==
    /\ asked[s] # <<>> => Len(asked[s]) = 1 /\ Owned(s, Head(asked[s]).id) /\ Coming(s) = {}
    /\ \A id \in Coming(s) : Owned(s, id)
    /\ InTurn(s)

\* Nothing was abandoned on the connection, nor sent unasked but events.
Quiet(s) == ~mixed[s] /\ chatter[s] = 0

\* Who waits on such a connection holds controlMu; who took an answer is about
\* to reply.
OnlyPairing(h) ==
    /\ pc[h] \in {"wait", "settle"} /\ ~mixed[via[h]] => cmd[h] \in Locking
    /\ got[h] # 0 => pc[h] = "settle"

OwnAnswer(h) == got[h] # 0 /\ ~mixed[via[h]] /\ chatter[via[h]] = 0 => got[h] = rid[h]

AnswersOf(s) == OnlyResponses(s) /\ (Quiet(s) => OneRequest(s))
SerialInv ==
    /\ \A h \in Handlers : OnlyPairing(h) /\ OwnAnswer(h)
    /\ \A s \in Conns : AnswersOf(s)

\* At first there is neither request nor answer.
LEMMA InitSerial == Init => SerialInv
<1> SUFFICES ASSUME Init PROVE SerialInv
  OBVIOUS
<1>1. ASSUME NEW s \in Conns PROVE AnswersOf(s)
  <2>1. responses[s] = <<>> /\ hold[s] = NoMessage /\ inbox[s] = <<>> /\ asked[s] = <<>>
    BY DEF Init, SessionInit
  <2>2. IdsIn(ResponseKinds, NoMessage) = {}
    BY DEF IdsIn, NoMessage, ResponseKinds, Kinds, EventKinds, AnswerKinds, AnswerTo, Commands, Rejected
  <2>3. Coming(s) = {} /\ InTurn(s)
    BY <2>1, <2>2, IdsOfNone DEF Coming, InTurn, Before
  <2> QED
    BY <2>1, <2>3 DEF AnswersOf, OnlyResponses, OneRequest
<1>2. ASSUME NEW h \in Handlers PROVE OnlyPairing(h) /\ OwnAnswer(h)
  BY DEF Init, OnlyPairing, OwnAnswer
<1> QED
  BY <1>1, <1>2 DEF SerialInv

\* controlMu has one holder.
LEMMA OneHolder ==
    ASSUME DaemonInv, NEW h \in Handlers, NEW g \in Handlers,
           pc[h] \in {"write", "wait", "settle"}, cmd[h] \in Locking,
           pc[g] \in {"write", "wait", "settle"}, cmd[g] \in Locking
    PROVE  h = g
BY DEF DaemonInv, ControlMutex

\* Whoever owned an answer still does, a step of another one's aside.
LEMMA OwnersKept ==
    ASSUME NEW s \in Conns, NEW id, Owned(s, id),
           \A h \in Handlers :
              pc[h] = "wait" /\ via[h] = s =>
                  pc'[h] = pc[h] /\ cmd'[h] = cmd[h] /\ via'[h] = via[h] /\ rid'[h] = rid[h]
    PROVE  Owned(s, id)'
BY DEF Owned

\* What a connection may do while the commands do nothing: lose requests and
\* answers, and pass answers on.
LEMMA AnswersPass ==
    ASSUME NEW s \in Conns, AnswersOf(s), UNCHANGED handlerVars, OnlyResponses(s)',
           chatter'[s] = 0 => chatter[s] = 0,
           OneRequest(s) => /\ asked'[s] \in {asked[s], <<>>}
                            /\ Coming(s)' \subseteq Coming(s)
                            /\ InTurn(s)'
    PROVE  AnswersOf(s)'
<1> SUFFICES ASSUME Quiet(s)' PROVE OneRequest(s)'
  BY DEF AnswersOf
<1>1. OneRequest(s)
  BY DEF AnswersOf, Quiet
<1>2. \A id : Owned(s, id) => Owned(s, id)'
  BY DEF Owned
<1> QED
  BY <1>1, <1>2 DEF OneRequest

\* A connection that a step leaves alone, of the commands too.
LEMMA AnswersKept ==
    ASSUME NEW s \in Conns, AnswersOf(s),
           UNCHANGED <<responses[s], hold[s], inbox[s], asked[s], chatter[s], mixed[s]>>,
           \A h \in Handlers :
              pc[h] = "wait" /\ via[h] = s =>
                  pc'[h] = pc[h] /\ cmd'[h] = cmd[h] /\ via'[h] = via[h] /\ rid'[h] = rid[h]
    PROVE  AnswersOf(s)'
<1>1. \A id : Owned(s, id) => Owned(s, id)'
  BY OwnersKept
<1>2. OnlyResponses(s)' /\ (Quiet(s)' => Quiet(s)) /\ Coming(s)' = Coming(s) /\ InTurn(s)' = InTurn(s)
  BY DEF AnswersOf, OnlyResponses, Quiet, Coming, InTurn
<1> QED
  BY <1>1, <1>2 DEF AnswersOf, OneRequest

\* Commands that do nothing keep what is said of them while nothing becomes
\* quiet again.
LEMMA CommandsKept ==
    ASSUME DaemonInv, SerialInv, UNCHANGED handlerVars,
           \A s \in Conns : chatter'[s] = 0 => chatter[s] = 0
    PROVE  \A h \in Handlers : OnlyPairing(h)' /\ OwnAnswer(h)'
<1> SUFFICES ASSUME NEW h \in Handlers PROVE OnlyPairing(h)' /\ OwnAnswer(h)'
  OBVIOUS
<1>1. OnlyPairing(h) /\ OwnAnswer(h)
  BY DEF SerialInv
<1>2. got[h] # 0 => via[h] \in Conns
  BY <1>1 DEF OnlyPairing, DaemonInv, RequestsUseOpenedSessions
<1> QED
  BY <1>1, <1>2 DEF OnlyPairing, OwnAnswer

\* The steps of a session and of the far end: s is where it happens.
LEMMA SessionSerial ==
    ASSUME DaemonInv, SerialInv, NEW s \in Conns, UNCHANGED handlerVars,
           \A r \in Conns \ {s} : UNCHANGED <<responses[r], hold[r], inbox[r], asked[r], chatter[r]>>,
           chatter'[s] = 0 => chatter[s] = 0, AnswersOf(s)'
    PROVE  SerialInv'
<1>1. \A h \in Handlers : OnlyPairing(h)' /\ OwnAnswer(h)'
  BY CommandsKept
<1>2. ASSUME NEW r \in Conns, r # s PROVE AnswersOf(r)'
  BY <1>2, AnswersKept DEF SerialInv
<1> QED
  BY <1>1, <1>2 DEF SerialInv

\* The reader passes an answer on, drops it, or deals with an event.
LEMMA ReaderSerial ==
    ASSUME DaemonInv, SerialInv, NEW s \in Conns, Reader(s), UNCHANGED handlerVars
    PROVE  SerialInv'
<1>1. SessionTypeOK /\ AnswersOf(s) /\ UNCHANGED <<asked, chatter>>
  BY DEF DaemonInv, TypeOK, SerialInv, Reader, ReadEnvelope, ReadFails, PushEvent, PushResponse,
         PushCancelled
<1>2. \A r \in Conns \ {s} : UNCHANGED <<responses[r], hold[r], inbox[r], asked[r], chatter[r]>>
  BY <1>1 DEF SessionTypeOK, Reader, ReadEnvelope, ReadFails, PushEvent, PushResponse, PushCancelled
<1>3. /\ responses[s] \in Seq(Message) /\ inbox[s] \in Seq(Message)
      /\ hold[s] \in Message \cup {NoMessage}
  BY <1>1 DEF SessionTypeOK
<1>4. IdsIn(ResponseKinds, NoMessage) = {}
  BY DEF IdsIn, NoMessage, ResponseKinds, Kinds, EventKinds, AnswerKinds, AnswerTo, Commands, Rejected
<1>5. SUFFICES /\ OnlyResponses(s)'
               /\ OneRequest(s) => Coming(s)' \subseteq Coming(s) /\ InTurn(s)'
  BY <1>1, <1>2, AnswersPass, SessionSerial
<1>6. CASE ReadEnvelope(s)
  <2>1. /\ inbox[s] # <<>> /\ inbox'[s] = Tail(inbox[s]) /\ hold'[s] \in {NoMessage, Head(inbox[s])}
        /\ hold[s] = NoMessage /\ UNCHANGED responses
    BY <1>1, <1>6 DEF SessionTypeOK, ReadEnvelope
  <2>2. /\ IdsOf(ResponseKinds, inbox[s])
              = IdsIn(ResponseKinds, Head(inbox[s])) \cup IdsOf(ResponseKinds, Tail(inbox[s]))
        /\ Rising(ResponseKinds, inbox[s]) <=>
              /\ Rising(ResponseKinds, Tail(inbox[s]))
              /\ Before(IdsIn(ResponseKinds, Head(inbox[s])), IdsOf(ResponseKinds, Tail(inbox[s])))
    BY <1>3, <2>1, IdsOfHeadTail
  <2>3. CASE hold'[s] = NoMessage
    BY <1>1, <1>4, <2>1, <2>2, <2>3 DEF AnswersOf, OnlyResponses, OneRequest, Coming, InTurn, Before
  <2>4. CASE hold'[s] = Head(inbox[s])
    BY <1>1, <1>4, <2>1, <2>2, <2>4 DEF AnswersOf, OnlyResponses, OneRequest, Coming, InTurn, Before
  <2> QED
    BY <2>1, <2>3, <2>4
<1>7. CASE ReadFails(s) \/ PushEvent(s) \/ PushCancelled(s)
  <2>1. hold'[s] \in {hold[s], NoMessage} /\ UNCHANGED <<responses, inbox>>
    BY <1>1, <1>7 DEF SessionTypeOK, ReadFails, PushEvent, PushCancelled
  <2> QED
    BY <1>1, <1>4, <2>1 DEF AnswersOf, OnlyResponses, OneRequest, Coming, InTurn, Before
<1>8. CASE PushResponse(s)
  <2>1. /\ hold[s] \in Message /\ hold[s].kind \in ResponseKinds /\ hold'[s] = NoMessage
        /\ responses'[s] = Append(responses[s], hold[s]) /\ UNCHANGED inbox
    BY <1>1, <1>8 DEF SessionTypeOK, PushResponse, ResponseKinds, Message
  <2>2. /\ IdsOf(ResponseKinds, Append(responses[s], hold[s]))
              = IdsOf(ResponseKinds, responses[s]) \cup IdsIn(ResponseKinds, hold[s])
        /\ Rising(ResponseKinds, Append(responses[s], hold[s])) <=>
              /\ Rising(ResponseKinds, responses[s])
              /\ Before(IdsOf(ResponseKinds, responses[s]), IdsIn(ResponseKinds, hold[s]))
    BY <1>3, <2>1, IdsOfAppended
  <2>3. OneRequest(s) => Coming(s)' \subseteq Coming(s) /\ InTurn(s)'
    BY <1>4, <2>1, <2>2 DEF OneRequest, Coming, InTurn, Before
  <2>4. OnlyResponses(s)'
    <3>1. /\ DOMAIN responses'[s] = 1..(Len(responses[s]) + 1)
          /\ responses'[s][Len(responses[s]) + 1] = hold[s]
          /\ \A i \in 1..Len(responses[s]) : responses'[s][i] = responses[s][i]
          /\ Len(responses[s]) \in Nat /\ DOMAIN responses[s] = 1..Len(responses[s])
      BY <1>3, <2>1, AppendProperties, LenProperties
    <3> QED
      BY <1>1, <2>1, <3>1 DEF AnswersOf, OnlyResponses
  <2> QED
    BY <2>3, <2>4
<1> QED
  BY <1>6, <1>7, <1>8 DEF Reader

\* After CloseNow what was on the wire will not come, nor be answered.
LEMMA CloseSerial ==
    ASSUME DaemonInv, SerialInv, NEW s \in Conns, CloseNow(s), UNCHANGED handlerVars,
           UNCHANGED <<responses, hold, chatter>>
    PROVE  SerialInv'
<1>1. SessionTypeOK /\ AnswersOf(s)
  BY DEF DaemonInv, TypeOK, SerialInv
<1>2. \A r \in Conns \ {s} : UNCHANGED <<responses[r], hold[r], inbox[r], asked[r], chatter[r]>>
  BY <1>1 DEF SessionTypeOK, CloseNow
<1>3. inbox'[s] = <<>> /\ asked'[s] = <<>>
  BY <1>1 DEF SessionTypeOK, CloseNow
<1>4. OnlyResponses(s)' /\ (OneRequest(s) => Coming(s)' \subseteq Coming(s) /\ InTurn(s)')
  BY <1>1, <1>3, IdsOfNone DEF AnswersOf, OnlyResponses, OneRequest, Coming, InTurn, Before
<1> QED
  BY <1>2, <1>1, <1>3, <1>4, AnswersPass, SessionSerial

\* The service answers its one request, which then is no longer with it; a
\* lost link takes the request away.
LEMMA FarEndSerial ==
    ASSUME DaemonInv, SerialInv, NEW s \in Conns, FarEnd(s), UNCHANGED handlerVars
    PROVE  SerialInv'
<1>1. /\ SessionTypeOK /\ AnswersOf(s) /\ UNCHANGED <<responses, hold>>
      /\ inbox[s] \in Seq(Message) /\ asked[s] \in Seq(Request) /\ chatter[s] \in Nat
  BY DEF DaemonInv, TypeOK, SessionTypeOK, SerialInv, FarEnd, ServiceAnswers, ServiceSends, LinkLost
<1>2. \A r \in Conns \ {s} : UNCHANGED <<responses[r], hold[r], inbox[r], asked[r], chatter[r]>>
  BY <1>1 DEF SessionTypeOK, FarEnd, ServiceAnswers, ServiceSends, LinkLost
<1>3. OnlyResponses(s)'
  BY <1>1 DEF AnswersOf, OnlyResponses
<1>4. CASE LinkLost(s)
  <2>1. asked'[s] = <<>> /\ UNCHANGED <<inbox, chatter>>
    BY <1>1, <1>4 DEF SessionTypeOK, LinkLost
  <2>2. OneRequest(s) => Coming(s)' \subseteq Coming(s) /\ InTurn(s)'
    BY <1>1, <2>1 DEF OneRequest, Coming, InTurn
  <2> QED
    BY <1>1, <1>2, <1>3, <2>1, <2>2, AnswersPass, SessionSerial
<1>5. ASSUME NEW k \in Spontaneous, ServiceSends(s, k) PROVE SerialInv'
  <2>1. CASE k \in EventKinds
    <3> DEFINE m == [kind |-> k, id |-> said[s] + 1]
    <3>1. m \in Message /\ inbox'[s] = Append(inbox[s], m) /\ UNCHANGED <<asked, chatter>>
      BY <1>1, <1>5, <2>1, KindsAreKinds DEF Message, SessionTypeOK, ServiceSends
    <3>2. IdsIn(ResponseKinds, m) = {}
      BY <2>1 DEF IdsIn, ResponseKinds
    <3> HIDE DEF m
    <3>3. /\ IdsOf(ResponseKinds, Append(inbox[s], m))
                = IdsOf(ResponseKinds, inbox[s]) \cup IdsIn(ResponseKinds, m)
          /\ Rising(ResponseKinds, Append(inbox[s], m)) <=>
                /\ Rising(ResponseKinds, inbox[s])
                /\ Before(IdsOf(ResponseKinds, inbox[s]), IdsIn(ResponseKinds, m))
      BY <1>1, <3>1, IdsOfAppended
    <3>4. OneRequest(s) => Coming(s)' \subseteq Coming(s) /\ InTurn(s)'
      BY <1>1, <3>1, <3>2, <3>3 DEF OneRequest, Coming, InTurn, Before
    <3> QED
      BY <1>1, <1>2, <1>3, <3>1, <3>4, AnswersPass, SessionSerial
  <2>2. CASE k \notin EventKinds
    <3>1. chatter'[s] = chatter[s] + 1 /\ UNCHANGED asked
      BY <1>1, <1>5, <2>2 DEF SessionTypeOK, ServiceSends
    <3>2. chatter'[s] # 0
      BY <1>1, <3>1
    <3>3. AnswersOf(s)'
      BY <1>3, <3>2 DEF AnswersOf, Quiet
    <3> QED
      BY <1>2, <3>2, <3>3, SessionSerial
  <2> QED
    BY <2>1, <2>2
<1>6. CASE ServiceAnswers(s)
  <2> DEFINE req == Head(asked[s])
  <2>1. req \in Request /\ asked[s] # <<>> /\ UNCHANGED chatter
    BY <1>1, <1>6, HeadTailProperties DEF ServiceAnswers
  <2>2. PICK k \in {AnswerTo[req.cmd], "error"} :
            inbox' = [inbox EXCEPT ![s] = Append(@, [kind |-> k, id |-> req.id])]
    BY <1>6 DEF ServiceAnswers
  <2>3. k \in Kinds /\ k \notin EventKinds
    BY <2>1, <2>2, KindsAreKinds DEF Request, Commands, AnswerTo, EventKinds
  <2> DEFINE m == [kind |-> k, id |-> req.id]
  <2>4. m \in Message /\ inbox'[s] = Append(inbox[s], m)
    BY <1>1, <2>1, <2>2, <2>3 DEF Message, Request, SessionTypeOK
  <2>5. IdsIn(ResponseKinds, m) = {req.id}
    BY <2>3 DEF IdsIn, ResponseKinds
  <2>6. asked'[s] = Tail(asked[s])
    BY <1>1, <1>6 DEF SessionTypeOK, ServiceAnswers
  <2>7. Len(asked[s]) = 1 => Tail(asked[s]) = <<>>
    <3>1. Tail(asked[s]) \in Seq(Request) /\ Len(Tail(asked[s])) = Len(asked[s]) - 1
      BY <1>1, <2>1, HeadTailProperties
    <3>2. Tail(asked[s]) # <<>> => Len(Tail(asked[s])) \in Nat \ {0}
      BY <3>1, EmptySeq, Zenon
    <3> QED
      BY <3>1, <3>2
  <2> HIDE DEF m, req
  <2>8. /\ IdsOf(ResponseKinds, Append(inbox[s], m))
              = IdsOf(ResponseKinds, inbox[s]) \cup IdsIn(ResponseKinds, m)
        /\ Rising(ResponseKinds, Append(inbox[s], m)) <=>
              /\ Rising(ResponseKinds, inbox[s])
              /\ Before(IdsOf(ResponseKinds, inbox[s]), IdsIn(ResponseKinds, m))
    BY <1>1, <2>4, IdsOfAppended
  <2>9. ASSUME Quiet(s)' PROVE OneRequest(s)'
    <3>1. OneRequest(s) /\ Coming(s) = {} /\ asked'[s] = <<>> /\ Owned(s, req.id)
      BY <1>1, <2>1, <2>6, <2>7, <2>9 DEF AnswersOf, Quiet, OneRequest, req
    <3>2. Coming(s)' = {req.id} /\ InTurn(s)'
      BY <1>1, <2>4, <2>5, <2>8, <3>1 DEF OneRequest, Coming, InTurn, Before
    <3>3. \A id : Owned(s, id) => Owned(s, id)'
      BY DEF Owned
    <3>4. \A id \in Coming(s)' : Owned(s, id)'
      BY <3>1, <3>2, <3>3
    <3> QED
      BY <3>1, <3>2, <3>4 DEF OneRequest
  <2> QED
    BY <1>2, <1>3, <2>1, <2>9, SessionSerial DEF AnswersOf
<1> QED
  BY <1>4, <1>5, <1>6 DEF FarEnd

\* A command writes its request: nothing else is under way on the connection,
\* or its owner would hold controlMu as well.
LEMMA WriteRequestSerial ==
    ASSUME DaemonInv, SerialInv, NEW h \in Handlers, WriteRequest(h)
    PROVE  SerialInv'
<1>1. PICK s \in Conns, n \in Nat : s = via[h] /\ n = lastId + 1
  BY DEF DaemonInv, TypeOK, DaemonTypeOK, RequestsUseOpenedSessions, WriteRequest
<1> DEFINE req == [cmd |-> cmd[h], id |-> n]
<1>2. /\ pc[h] = "write" /\ pc' = [pc EXCEPT ![h] = "wait"] /\ rid' = [rid EXCEPT ![h] = n]
      /\ mixed' = [mixed EXCEPT ![s] = @ \/ cmd[h] \notin Locking]
      /\ asked'[s] \in {asked[s], Append(asked[s], req)}
      /\ \A r \in Conns \ {s} : asked'[r] = asked[r]
      /\ UNCHANGED <<cmd, via, got, responses, hold, inbox, chatter>>
  BY <1>1 DEF WriteRequest, Transmit, DaemonInv, TypeOK, SessionTypeOK
<1>3. /\ pc \in [Handlers -> {"idle", "lock", "write", "wait", "settle"}] /\ rid \in [Handlers -> Nat]
      /\ mixed \in [Conns -> BOOLEAN] /\ asked[s] \in Seq(Request)
      /\ req \in Request
  BY DEF DaemonInv, TypeOK, DaemonTypeOK, SessionTypeOK, Request
<1>4. /\ pc'[h] = "wait" /\ rid'[h] = n
      /\ \A g \in Handlers \ {h} : pc'[g] = pc[g] /\ rid'[g] = rid[g]
      /\ \A r \in Conns \ {s} : mixed'[r] = mixed[r]
      /\ mixed'[s] = (mixed[s] \/ cmd[h] \notin Locking)
  BY <1>2, <1>3
<1>5. ASSUME NEW g \in Handlers PROVE OnlyPairing(g)' /\ OwnAnswer(g)'
  <2>1. OnlyPairing(g) /\ OwnAnswer(g)
    BY DEF SerialInv
  <2>2. pc[g] \in {"wait", "settle"} => via[g] \in Conns
    BY DEF DaemonInv, RequestsUseOpenedSessions
  <2>3. CASE g = h
    BY <1>1, <1>2, <1>4, <2>1, <2>3 DEF OnlyPairing, OwnAnswer
  <2>4. CASE g # h
    BY <1>2, <1>4, <2>1, <2>2, <2>4 DEF OnlyPairing, OwnAnswer
  <2> QED
    BY <2>3, <2>4
<1>6. ASSUME NEW r \in Conns, r # s PROVE AnswersOf(r)'
  BY <1>1, <1>2, <1>4, <1>6, AnswersKept DEF SerialInv
<1>7. AnswersOf(s)'
  <2>1. OnlyResponses(s)'
    BY <1>2 DEF SerialInv, AnswersOf, OnlyResponses
  <2>2. SUFFICES ASSUME Quiet(s)' PROVE OneRequest(s)'
    BY <2>1 DEF AnswersOf
  <2>3. OneRequest(s) /\ cmd[h] \in Locking
    BY <1>2, <1>4, <2>2 DEF Quiet, SerialInv, AnswersOf
  <2>4. ASSUME NEW id PROVE ~Owned(s, id)
    BY <1>2, <2>3, OneHolder DEF Owned
  <2>5. asked[s] = <<>> /\ Coming(s) = {}
    BY <2>3, <2>4 DEF OneRequest
  <2>6. Coming(s)' = {} /\ InTurn(s)'
    BY <1>2, <2>3, <2>5 DEF OneRequest, Coming, InTurn
  <2>7. asked'[s] # <<>> => Len(asked'[s]) = 1 /\ Head(asked'[s]).id = n
    <3>1. Append(<<>>, req) = <<req>>
      OBVIOUS
    <3> QED
      BY <1>2, <2>5, <3>1
  <2>8. Owned(s, n)'
    BY <1>1, <1>2, <1>4, <2>3 DEF Owned
  <2> QED
    BY <2>6, <2>7, <2>8 DEF OneRequest
<1> QED
  BY <1>5, <1>6, <1>7 DEF SerialInv

\* The commands that do not step are as they were, whatever becomes of h.
OthersRest(h) ==
    \A g \in Handlers \ {h} :
        UNCHANGED <<pc[g], cmd[g], via[g], rid[g], got[g]>>

\* Only h steps, nothing becomes quiet again: the others keep what is said of
\* them, and a connection on which h does not wait keeps its answers.
LEMMA OthersSerial ==
    ASSUME DaemonInv, SerialInv, NEW h \in Handlers, OthersRest(h), UNCHANGED <<hold, inbox, asked, chatter>>,
           \A s \in Conns : mixed[s] => mixed'[s]
    PROVE  /\ \A g \in Handlers \ {h} : OnlyPairing(g)' /\ OwnAnswer(g)'
           /\ \A s \in Conns :
                 responses'[s] = responses[s] /\ mixed'[s] = mixed[s] /\ (pc[h] = "wait" => via[h] # s)
                     => AnswersOf(s)'
<1>1. ASSUME NEW g \in Handlers, g # h PROVE OnlyPairing(g)' /\ OwnAnswer(g)'
  <2>1. OnlyPairing(g) /\ OwnAnswer(g)
    BY DEF SerialInv
  <2>2. pc[g] \in {"wait", "settle"} => via[g] \in Conns
    BY DEF DaemonInv, RequestsUseOpenedSessions
  <2>3. UNCHANGED <<pc[g], cmd[g], via[g], rid[g], got[g]>>
    BY <1>1 DEF OthersRest
  <2> QED
    BY <2>1, <2>2, <2>3 DEF OnlyPairing, OwnAnswer
<1>2. ASSUME NEW s \in Conns, responses'[s] = responses[s], mixed'[s] = mixed[s],
             pc[h] = "wait" => via[h] # s
      PROVE  AnswersOf(s)'
  <2>1. AnswersOf(s)
    BY DEF SerialInv
  <2>2. \A g \in Handlers : pc[g] = "wait" /\ via[g] = s =>
            pc'[g] = pc[g] /\ cmd'[g] = cmd[g] /\ via'[g] = via[g] /\ rid'[g] = rid[g]
    BY <1>2 DEF OthersRest
  <2> QED
    BY <1>2, <2>1, <2>2, AnswersKept
<1> QED
  BY <1>1, <1>2

\* The handler is idle again and forgets its request.
LEMMA Returned ==
    ASSUME DaemonInv, NEW h \in Handlers, Return(h), UNCHANGED cmd
    PROVE  OthersRest(h) /\ OnlyPairing(h)' /\ OwnAnswer(h)'
<1>1. pc'[h] = "idle" /\ got'[h] = 0
  BY DEF Return, DaemonInv, TypeOK, DaemonTypeOK
<1>2. OthersRest(h)
  BY DEF OthersRest, Return, DaemonInv, TypeOK, DaemonTypeOK
<1> QED
  BY <1>1, <1>2 DEF OnlyPairing, OwnAnswer

\* A command begins, looks for the session, fails to write or replies: it does
\* not wait, before or after.
LEMMA BystanderSerial ==
    ASSUME DaemonInv, SerialInv, NEW h \in Handlers,
           (\E c \in LocalCommands : Begin(h, c)) \/ Lock(h) \/ LockFindsNil(h) \/ WriteFails(h) \/ Settle(h)
    PROVE  SerialInv'
<1>1. pc[h] # "wait" /\ UNCHANGED <<mixed, responses, hold, inbox, asked, chatter>>
  BY DEF Begin, Lock, LockFindsNil, WriteFails, TransmitFails, Settle
<1>2. OthersRest(h) /\ OnlyPairing(h)' /\ OwnAnswer(h)'
  <2>1. CASE LockFindsNil(h) \/ WriteFails(h) \/ Settle(h)
    BY <2>1, Returned DEF LockFindsNil, WriteFails, Settle
  <2>2. CASE (\E c \in LocalCommands : Begin(h, c)) \/ Lock(h)
    <3>1. OthersRest(h) /\ pc[h] \in {"idle", "lock"} /\ pc'[h] \in {"lock", "write"} /\ UNCHANGED got
      BY <2>2 DEF OthersRest, Begin, Lock, DaemonInv, TypeOK, DaemonTypeOK
    <3>2. got[h] = 0
      BY <3>1 DEF SerialInv, OnlyPairing
    <3> QED
      BY <3>1, <3>2 DEF OnlyPairing, OwnAnswer
  <2> QED
    BY <2>1, <2>2
<1> QED
  BY <1>1, <1>2, OthersSerial DEF SerialInv

\* A request is abandoned: its connection is not quiet any more.
LEMMA TimesOutSerial ==
    ASSUME DaemonInv, SerialInv, NEW h \in Handlers, TimesOut(h)
    PROVE  SerialInv'
<1>1. PICK s \in Conns : s = via[h]
  BY DEF DaemonInv, RequestsUseOpenedSessions, TimesOut
<1>2. OthersRest(h) /\ OnlyPairing(h)' /\ OwnAnswer(h)'
  BY Returned DEF TimesOut
<1>3. /\ mixed'[s] = TRUE /\ \A r \in Conns \ {s} : mixed'[r] = mixed[r]
      /\ UNCHANGED <<responses, hold, inbox, asked, chatter>>
  BY <1>1 DEF TimesOut, DaemonInv, TypeOK, DaemonTypeOK
<1>4. AnswersOf(s)'
  BY <1>3 DEF AnswersOf, OnlyResponses, Quiet, SerialInv
<1> QED
  BY <1>1, <1>2, <1>3, <1>4, OthersSerial DEF SerialInv

\* A command takes the first response.  On a quiet connection it is the only
\* one, and of the command that took it.
LEMMA AnswerSerial ==
    ASSUME DaemonInv, SerialInv, NEW h \in Handlers, Accepts(h) \/ Rejects(h)
    PROVE  SerialInv'
<1>1. PICK s \in Conns : s = via[h]
  BY DEF DaemonInv, RequestsUseOpenedSessions, Accepts, Rejects
<1>2. /\ pc[h] = "wait" /\ TakeResponse(s) /\ responses[s] # <<>> /\ responses[s] \in Seq(Message)
      /\ responses \in [Conns -> Seq(Message)]
      /\ UNCHANGED <<hold, inbox, asked, chatter, mixed>>
  BY <1>1 DEF Accepts, Rejects, TakeResponse, DaemonInv, TypeOK, SessionTypeOK
<1>3. OthersRest(h)
  <2>1. CASE Accepts(h)
    BY <2>1 DEF Accepts, OthersRest, DaemonInv, TypeOK, DaemonTypeOK
  <2>2. CASE Rejects(h)
    BY <2>2, Returned DEF Rejects
  <2> QED
    BY <2>1, <2>2
<1> DEFINE m == Head(responses[s])
           rest == Tail(responses[s])
<1>4. m \in Message /\ rest \in Seq(Message) /\ responses'[s] = rest
      /\ \A r \in Conns \ {s} : responses'[r] = responses[r]
  BY <1>2, HeadTailProperties DEF TakeResponse
<1>5. /\ IdsOf(ResponseKinds, responses[s]) = IdsIn(ResponseKinds, m) \cup IdsOf(ResponseKinds, rest)
      /\ Rising(ResponseKinds, responses[s]) <=>
            Rising(ResponseKinds, rest) /\ Before(IdsIn(ResponseKinds, m), IdsOf(ResponseKinds, rest))
  BY <1>2, IdsOfHeadTail
<1>6. /\ Len(responses[s]) \in Nat /\ DOMAIN responses[s] = 1..Len(responses[s]) /\ Len(responses[s]) # 0
      /\ m = responses[s][1] /\ DOMAIN rest = 1..(Len(responses[s]) - 1)
      /\ \A i \in DOMAIN rest : rest[i] = responses[s][i + 1]
  BY <1>2, HeadTailProperties, LenProperties
<1>7. (Accepts(h) => got'[h] = m.id /\ pc'[h] = "settle" /\ UNCHANGED <<cmd, via, rid>>)
  BY <1>1 DEF Accepts, DaemonInv, TypeOK, DaemonTypeOK
<1> HIDE DEF m, rest
<1>8. m.kind \in ResponseKinds /\ OnlyResponses(s)'
  <2>1. \A i \in DOMAIN rest : i + 1 \in DOMAIN responses[s]
    BY <1>6
  <2> QED
    BY <1>4, <1>6, <2>1 DEF SerialInv, AnswersOf, OnlyResponses
<1>9. IdsIn(ResponseKinds, m) = {m.id} /\ m.id \in Nat
  BY <1>4, <1>8 DEF IdsIn, Message
<1>10. ASSUME Quiet(s)
       PROVE  /\ OneRequest(s) /\ asked[s] = <<>> /\ cmd[h] \in Locking
              /\ m.id = rid[h] /\ \A id \in Coming(s) : id = rid[h]
  <2>1. OneRequest(s) /\ m.id \in Coming(s)
    BY <1>5, <1>9, <1>10 DEF SerialInv, AnswersOf, Coming
  <2>2. cmd[h] \in Locking
    BY <1>1, <1>2, <1>10 DEF SerialInv, OnlyPairing, Quiet
  <2>3. ASSUME NEW id, Owned(s, id) PROVE id = rid[h]
    BY <1>2, <2>2, <2>3, OneHolder DEF Owned
  <2> QED
    BY <2>1, <2>2, <2>3 DEF OneRequest
<1>11. ASSUME Quiet(s)' PROVE OneRequest(s)'
  <2>1. Quiet(s)
    BY <1>2, <1>11 DEF Quiet
  <2>2. InTurn(s)'
    BY <1>2, <1>4, <1>5, <1>10, <2>1 DEF OneRequest, InTurn, Before
  <2>3. \A id \in Coming(s)' : id \in Coming(s) /\ m.id < id
    BY <1>2, <1>4, <1>5, <1>9, <1>10, <2>1 DEF OneRequest, InTurn, Before, Coming
  <2>4. Coming(s)' = {}
    BY <1>9, <1>10, <2>1, <2>3
  <2> QED
    BY <1>2, <1>10, <2>1, <2>2, <2>4 DEF OneRequest
<1>12. OnlyPairing(h)' /\ OwnAnswer(h)'
  <2>1. CASE Accepts(h)
    BY <1>1, <1>2, <1>7, <1>10, <2>1 DEF OnlyPairing, OwnAnswer, Quiet, SerialInv
  <2>2. CASE Rejects(h)
    BY <2>2, Returned DEF Rejects
  <2> QED
    BY <2>1, <2>2
<1>13. ASSUME NEW r \in Conns, r # s PROVE AnswersOf(r)'
  BY <1>1, <1>2, <1>3, <1>4, <1>13, OthersSerial
<1> QED
  BY <1>2, <1>3, <1>8, <1>11, <1>12, <1>13, OthersSerial DEF SerialInv, AnswersOf

\* Steps without a part in requests and answers.
LEMMA SerialElsewhere ==
    ASSUME DaemonInv, SerialInv, UNCHANGED handlerVars, UNCHANGED <<responses, hold, inbox, asked, chatter>>
    PROVE  SerialInv'
<1>1. \A h \in Handlers : OnlyPairing(h)' /\ OwnAnswer(h)'
  BY CommandsKept
<1>2. ASSUME NEW s \in Conns PROVE AnswersOf(s)'
  BY AnswersKept DEF SerialInv
<1> QED
  BY <1>1, <1>2 DEF SerialInv

\* Every step keeps what is said of answers.
LEMMA StepSerial == DaemonInv /\ SerialInv /\ [Next]_vars => SerialInv'
<1> SUFFICES ASSUME DaemonInv, SerialInv, [Next]_vars PROVE SerialInv'
  OBVIOUS
<1>1. CASE RunControl
  <2>1. CASE Stop
    <3>1. PICK s \in Conns : s = cur /\ CloseSession(s)
      BY <2>1 DEF Stop, DaemonInv, TakenDown, Between
    <3>2. CloseNow(s) /\ UNCHANGED handlerVars /\ UNCHANGED <<responses, hold, chatter>>
      BY <2>1, <3>1 DEF Stop, CloseSession
    <3> QED
      BY <3>2, CloseSerial
  <2>2. CASE Dial \/ ServeEvent
    BY <2>2, SerialElsewhere DEF Dial, OpenSession, ServeEvent, TakeEvent
  <2>3. CASE DialFails \/ SetFlags \/ Install \/ Announce \/ HandlerLocks \/ HandlerSends
    BY <2>3, SerialElsewhere DEF DialFails, SetFlags, Install, Announce, HandlerLocks, HandlerSends
  <2>4. CASE ServeEnds \/ Drain \/ Uninstall \/ Down \/ BackoffEnds \/ BackoffCancelled
    BY <2>4, SerialElsewhere DEF ServeEnds, Drain, Uninstall, Down, BackoffEnds, BackoffCancelled
  <2> QED
    BY <1>1, <2>1, <2>2, <2>3, <2>4 DEF RunControl
<1>2. ASSUME NEW h \in Handlers, Handler(h) PROVE SerialInv'
  BY <1>2, BystanderSerial, WriteRequestSerial, AnswerSerial, TimesOutSerial DEF Handler
<1>3. ASSUME NEW t \in Senders, Reporter(t) PROVE SerialInv'
  BY <1>3, SerialElsewhere DEF Reporter, WantsToReport, SenderLocks, SenderWrites
<1>4. ASSUME NEW s \in Conns, SessionSteps(s) \/ Environment(s) PROVE SerialInv'
  <2>1. UNCHANGED handlerVars
    BY <1>4 DEF SessionSteps, Environment
  <2>2. CASE PingFails(s)
    BY <2>1, <2>2, CloseSerial DEF PingFails
  <2>3. CASE PingStarts(s) \/ PongArrives(s) \/ KeepaliveStops(s)
    BY <2>1, <2>3, SerialElsewhere DEF PingStarts, PongArrives, KeepaliveStops
  <2>4. CASE Reader(s) \/ FarEnd(s)
    BY <2>1, <2>4, ReaderSerial, FarEndSerial
  <2> QED
    BY <1>4, <2>2, <2>3, <2>4 DEF SessionSteps, Environment, Keepalive
<1>5. CASE Cancel
  BY <1>5, SerialElsewhere DEF Cancel
<1>6. CASE UNCHANGED vars
  BY <1>6, SerialElsewhere
<1> QED
  BY <1>1, <1>2, <1>3, <1>4, <1>5, <1>6 DEF Next

\* Although request takes the oldest response whatever its request_id, a pairing
\* command gets the answer to its own request, as long as nothing was abandoned
\* on the connection, nothing written without controlMu and nothing sent
\* unasked but events.
THEOREM PairingAnswersAreOwn == Spec => []SerialAnswersAreOwn
<1>1. SerialInv => SerialAnswersAreOwn
  BY DEF SerialInv, OwnAnswer, SerialAnswersAreOwn
<1> QED
  BY <1>1, InitInv, StepInv, InitSerial, StepSerial, PTL DEF Spec

----------------------------------------------------------------------------
(* The outage, and the end.                                                *)

\* The published session is wedged, nobody waits for an answer on it, and
\* runControl serves it.
Outage(s) ==
    /\ Wedged(s) /\ ~stopped[s]
    /\ \A h \in Handlers : pc[h] = "wait" => via[h] # s
    /\ conn = s /\ ctl \in {"announce", "serve", "handle", "send"}

\* It does not end by itself: Run does not notice that its socket is closed,
\* runControl waits for Run, and every request fails at its write.
OutageStays == \A s \in Conns : Outage(s) => Outage(s)' \/ cancelled

\* What the session itself does in an outage.
LEMMA OutageOfSession ==
    ASSUME DaemonInv, NEW s \in Conns, Outage(s), NEW r \in Conns, Reader(r) \/ Keepalive(r) \/ FarEnd(r)
    PROVE  Wedged(s)' /\ UNCHANGED stopped
<1> USE DEF DaemonInv, TypeOK, SessionTypeOK
<1>1. /\ link[s] = "closed" /\ reader[s] = "pushing" /\ hold[s].kind \notin EventKinds
      /\ Len(responses[s]) = ResponsesCap /\ ~stopped[s]
  BY DEF Outage, Wedged
<1>2. Len(responses[s]) < ResponsesCap <=> FALSE
  BY <1>1, SessionAssumption
<1>3. CASE Reader(r)
  <2>1. r # s
    BY <1>1, <1>2, <1>3 DEF Reader, ReadEnvelope, ReadFails, PushEvent, PushResponse, PushCancelled
  <2>2. UNCHANGED <<link[s], reader[s], hold[s], responses[s], stopped>>
    BY <1>3, <2>1 DEF Reader, ReadEnvelope, ReadFails, PushEvent, PushResponse, PushCancelled
  <2> QED
    BY <1>1, <2>2 DEF Wedged
<1>4. CASE Keepalive(r)
  <2>1. link'[s] = "closed" /\ UNCHANGED <<reader, hold, responses, stopped>>
    BY <1>1, <1>4 DEF Keepalive, PingStarts, PongArrives, PingFails, KeepaliveStops, CloseNow
  <2> QED
    BY <1>1, <2>1 DEF Wedged
<1>5. CASE FarEnd(r)
  <2>1. link'[s] = "closed" /\ UNCHANGED <<reader, hold, responses, stopped>>
    BY <1>1, <1>5 DEF FarEnd, ServiceAnswers, ServiceSends, LinkLost
  <2> QED
    BY <1>1, <2>1 DEF Wedged
<1> QED
  BY <1>3, <1>4, <1>5

\* What a command does in an outage: it takes no answer from this session and
\* writes nothing to it.
LEMMA OutageOfCommands ==
    ASSUME DaemonInv, NEW s \in Conns, Outage(s), NEW h \in Handlers, Handler(h)
    PROVE  Outage(s)'
<1>1. /\ link[s] = "closed" /\ conn = s /\ (pc[h] = "wait" => via[h] # s)
      /\ \A g \in Handlers : pc[g] = "wait" => via[g] # s
      /\ pc \in [Handlers -> {"idle", "lock", "write", "wait", "settle"}] /\ via \in [Handlers -> Conns \cup {0}]
      /\ responses \in [Conns -> Seq(Message)]
  BY DEF Outage, Wedged, DaemonInv, TypeOK, DaemonTypeOK, SessionTypeOK
<1>2. /\ UNCHANGED <<ctl, conn, link, reader, hold, stopped>> /\ responses'[s] = responses[s]
      /\ \A g \in Handlers : pc'[g] = "wait" => via'[g] # s
  <2>1. CASE (\E c \in LocalCommands : Begin(h, c)) \/ Lock(h) \/ LockFindsNil(h)
    BY <1>1, <2>1 DEF Begin, Lock, LockFindsNil, Return
  <2>2. CASE WriteRequest(h)
    BY <1>1, <2>2 DEF WriteRequest, Transmit
  <2>3. CASE WriteFails(h) \/ TimesOut(h) \/ Settle(h)
    BY <1>1, <2>3 DEF WriteFails, TransmitFails, TimesOut, Settle, Return
  <2>4. CASE Accepts(h) \/ Rejects(h)
    BY <1>1, <2>4 DEF Accepts, Rejects, TakeResponse, Return
  <2> QED
    BY <2>1, <2>2, <2>3, <2>4 DEF Handler
<1> QED
  BY <1>1, <1>2 DEF Outage, Wedged

\* What runControl does in an outage: it goes on serving.
LEMMA OutageOfLoop ==
    ASSUME DaemonInv, NEW s \in Conns, Outage(s), RunControl, ~cancelled
    PROVE  Outage(s)'
<1>1. /\ cur = s /\ reader[s] = "pushing" /\ ctl \in {"announce", "serve", "handle", "send"}
      /\ conn = s /\ conn # 0
  BY SessionAssumption DEF Outage, Wedged, DaemonInv, PublishedByPhase, Published
<1>2. /\ UNCHANGED <<link, reader, hold, responses, stopped, pc, via, conn>>
      /\ ctl' \in {"announce", "serve", "handle", "send"}
  <2>1. CASE Announce \/ HandlerLocks \/ HandlerSends
    BY <1>1, <2>1 DEF Announce, HandlerLocks, HandlerSends
  <2>2. CASE ServeEvent
    BY <1>1, <2>2 DEF ServeEvent, TakeEvent
  <2>3. ~(DialFails \/ Dial \/ SetFlags \/ Install \/ ServeEnds)
    BY <1>1 DEF DialFails, Dial, SetFlags, Install, ServeEnds
  <2>4. ~(Stop \/ Drain \/ Uninstall \/ Down \/ BackoffEnds \/ BackoffCancelled)
    BY <1>1 DEF Stop, Drain, Uninstall, Down, BackoffEnds, BackoffCancelled
  <2> QED
    BY <2>1, <2>2, <2>3, <2>4 DEF RunControl
<1> QED
  BY <1>2 DEF Outage, Wedged

\* A session whose reader waits for room in responses when its socket is
\* closed, and on which no request is out, stays the published one: the agent
\* does not connect again until it is told to stop. This holds of every
\* capacity of the channel.
THEOREM OutagesLast == Spec => [][OutageStays]_vars
<1>1. ASSUME DaemonInv, [Next]_vars, NEW s \in Conns, Outage(s), ~cancelled
      PROVE  Outage(s)' \/ UNCHANGED vars
  <2>1. CASE \E r \in Conns : SessionSteps(r) \/ Environment(r)
    <3>1. PICK r \in Conns : SessionSteps(r) \/ Environment(r)
      BY <2>1
    <3>2. Wedged(s)' /\ UNCHANGED stopped /\ UNCHANGED daemonVars
      BY <1>1, <3>1, OutageOfSession DEF SessionSteps, Environment
    <3> QED
      BY <1>1, <3>2 DEF Outage
  <2>2. CASE (\E t \in Senders : Reporter(t)) \/ Cancel
    <3>1. UNCHANGED <<sessionVars, ctl, conn, pc, via>>
      BY <2>2 DEF Reporter, WantsToReport, SenderLocks, SenderWrites, Cancel
    <3> QED
      BY <1>1, <3>1 DEF Outage, Wedged
  <2> QED
    BY <1>1, <2>1, <2>2, OutageOfCommands, OutageOfLoop DEF Next
<1>2. DaemonInv /\ [Next]_vars => [OutageStays]_vars
  BY <1>1 DEF OutageStays
<1> QED
  BY <1>2, DaemonInvariant, PTL DEF Spec

\* runControl has returned: it was told to, no connection is left open or
\* published, no keepalive goroutine is left, and nobody is told that the agent
\* is connected.
ReturnedIsQuiet ==
    ctl = "returned" =>
        /\ cancelled /\ conn = 0 /\ ~connected
        /\ \A s \in Conns : link[s] \in {"none", "closed"} /\ keepalive[s] \in {"none", "done"}

\* The flag is down and the daemon cancelled when they have to be.
Offline ==
    /\ ctl \in {"dial", "flags", "wait", "returned"} => ~connected
    /\ ctl = "returned" => cancelled

\* When runControl has returned nothing it started is left but, perhaps, a
\* reader whose context is cancelled.
THEOREM NothingOutlivesRunControl == Spec => []ReturnedIsQuiet
<1>1. Init => Offline
  BY DEF Init, Offline
<1>2. Offline /\ [Next]_vars => Offline'
  <2> SUFFICES ASSUME Offline, [Next]_vars PROVE Offline'
    OBVIOUS
  <2>1. CASE RunControl
    <3>1. CASE DialFails \/ Dial \/ SetFlags \/ Install \/ Announce \/ ServeEvent \/ HandlerLocks \/ HandlerSends
      BY <3>1 DEF Offline, DialFails, Dial, SetFlags, Install, Announce, ServeEvent, HandlerLocks, HandlerSends
    <3>2. CASE ServeEnds \/ Stop \/ Drain \/ Uninstall \/ Down \/ BackoffEnds \/ BackoffCancelled
      BY <3>2 DEF Offline, ServeEnds, Stop, Drain, Uninstall, Down, BackoffEnds, BackoffCancelled
    <3> QED
      BY <2>1, <3>1, <3>2 DEF RunControl
  <2>2. CASE Cancel
    BY <2>2 DEF Offline, Cancel
  <2>3. CASE UNCHANGED <<ctl, connected, cancelled>>
    BY <2>3 DEF Offline
  <2>4. ASSUME NEW h \in Handlers, Handler(h) PROVE UNCHANGED <<ctl, connected, cancelled>>
    BY <2>4 DEF Handler, Begin, Lock, LockFindsNil, WriteRequest, WriteFails, Accepts, Rejects, TimesOut, Settle
  <2>5. ASSUME NEW t \in Senders, Reporter(t) PROVE UNCHANGED <<ctl, connected, cancelled>>
    BY <2>5 DEF Reporter, WantsToReport, SenderLocks, SenderWrites
  <2>6. ASSUME NEW s \in Conns, SessionSteps(s) \/ Environment(s) PROVE UNCHANGED <<ctl, connected, cancelled>>
    BY <2>6 DEF SessionSteps, Environment
  <2> QED
    BY <2>1, <2>2, <2>3, <2>4, <2>5, <2>6 DEF Next
<1>3. DaemonInv /\ Offline => ReturnedIsQuiet
  <2> SUFFICES ASSUME DaemonInv, Offline, ctl = "returned"
               PROVE  /\ cancelled /\ conn = 0 /\ ~connected
                      /\ \A s \in Conns : link[s] \in {"none", "closed"} /\ keepalive[s] \in {"none", "done"}
    BY DEF ReturnedIsQuiet
  <2>1. cancelled /\ conn = 0 /\ ~connected
    BY DEF Offline, DaemonInv, PublishedByPhase, Published
  <2>2. ASSUME NEW s \in Conns
        PROVE  link[s] \in {"none", "closed"} /\ keepalive[s] \in {"none", "done"}
    <3>1. s \in Nat \ {0} /\ cur \in Nat
      BY SessionAssumption DEF DaemonInv, TypeOK, DaemonTypeOK
    <3>2. CASE s > cur
      BY <3>2 DEF DaemonInv, ConnectionsAreOpenedInOrder
    <3>3. CASE s = cur
      BY <3>1, <3>3 DEF DaemonInv, TakenDown, Between
    <3>4. CASE s < cur
      BY <3>4 DEF DaemonInv, SupersededIsClosed
    <3> QED
      BY <3>1, <3>2, <3>3, <3>4
  <2> QED
    BY <2>1, <2>2
<1> QED
  BY <1>1, <1>2, <1>3, DaemonInvariant, PTL DEF Spec

-----------------------------------------------------------------------------
(* Daemon implements ControlLink.  The mapping needs the inductive         *)
(* invariant: that d.connection is the latest connection in the phases in  *)
(* which runControl has it published, and that nobody is inside controlMu  *)
(* while it is nil.                                                        *)

\* A step of runControl connects, publishes, enters, leaves, withdraws, or
\* changes nothing that ControlLink speaks of.
LEMMA RunControlRefines ==
    ASSUME DaemonInv, RunControl
    PROVE  [Link!Next]_Link!linkVars
<1> USE DEF Link!linkVars, Link!Next, linkPhase
<1>1. /\ conn = IF ctl \in Published THEN cur ELSE 0
      /\ ctl \notin Between => cur \in Conns
      /\ cur \in Conns => cur # 0
      /\ controlMu # Free => conn # 0
      /\ controlMu = Loop <=> ctl = "send"
  BY SessionAssumption DEF DaemonInv, PublishedByPhase, TakenDown, ControlMutex
<1>2. CASE DialFails
  BY <1>1, <1>2 DEF DialFails, Between, Published
<1>3. CASE Dial
  BY <1>1, <1>3 DEF Dial, Between, Published, Link!Connect
<1>4. CASE SetFlags
  BY <1>1, <1>4 DEF SetFlags, Between, Published
<1>5. CASE Install
  BY <1>1, <1>5 DEF Install, Between, Published, Link!Publish
<1>6. CASE Announce
  BY <1>1, <1>6 DEF Announce, Between, Published
<1>7. CASE ServeEvent
  BY <1>1, <1>7 DEF ServeEvent, Between, Published
<1>8. CASE HandlerLocks
  BY <1>1, <1>8 DEF HandlerLocks, Between, Published, Link!Enter
<1>9. CASE HandlerSends
  BY <1>1, <1>9, DaemonAssumption DEF HandlerSends, Between, Published, Link!Leave
<1>10. CASE ServeEnds \/ Stop \/ Drain
  BY <1>1, <1>10 DEF ServeEnds, Stop, Drain, Between, Published
<1>11. CASE Uninstall
  BY <1>1, <1>11 DEF Uninstall, Between, Published, Link!Withdraw
<1>12. CASE Down \/ BackoffEnds \/ BackoffCancelled
  BY <1>1, <1>12 DEF Down, BackoffEnds, BackoffCancelled, Between, Published
<1> QED
  BY <1>2, <1>3, <1>4, <1>5, <1>6, <1>7, <1>8, <1>9, <1>10, <1>11, <1>12 DEF RunControl

\* A handler enters with a pairing command and leaves with its reply.
LEMMA HandlerRefines ==
    ASSUME DaemonInv, NEW h \in Handlers, Handler(h)
    PROVE  [Link!Next]_Link!linkVars
<1> USE DEF Link!linkVars, Link!Next, linkPhase
<1>1. Free \notin Handlers
  BY DaemonAssumption
<1>2. UNCHANGED <<ctl, cur, conn>>
  BY DEF Handler, Begin, Lock, LockFindsNil, WriteRequest, WriteFails, Accepts, Rejects,
         TimesOut, Settle
<1>3. \/ UNCHANGED controlMu
      \/ controlMu = Free /\ conn # 0 /\ controlMu' = h
      \/ controlMu = h /\ controlMu' = Free
  BY DEF Handler, Begin, Lock, LockFindsNil, WriteRequest, WriteFails, Accepts, Rejects,
         TimesOut, Settle, Return
<1>4. CASE UNCHANGED controlMu
  BY <1>2, <1>4
<1>5. CASE controlMu = Free /\ conn # 0 /\ controlMu' = h
  BY <1>2, <1>5 DEF Link!Enter
<1>6. CASE controlMu = h /\ controlMu' = Free
  BY <1>1, <1>2, <1>6 DEF Link!Leave
<1> QED
  BY <1>3, <1>4, <1>5, <1>6

\* A terminal goroutine enters and leaves.
LEMMA ReporterRefines ==
    ASSUME DaemonInv, NEW t \in Senders, Reporter(t)
    PROVE  [Link!Next]_Link!linkVars
<1> USE DEF Link!linkVars, Link!Next, linkPhase
<1>1. Free \notin Senders
  BY DaemonAssumption
<1>2. controlMu = t <=> sender[t] = "write"
  BY DEF DaemonInv, ControlMutex
<1>3. CASE WantsToReport(t)
  BY <1>3 DEF WantsToReport
<1>4. CASE SenderLocks(t)
  BY <1>4 DEF SenderLocks, Link!Enter
<1>5. CASE SenderWrites(t)
  BY <1>1, <1>2, <1>5 DEF SenderWrites, Link!Leave
<1> QED
  BY <1>3, <1>4, <1>5 DEF Reporter

LEMMA StepRefines == DaemonInv /\ [Next]_vars => [Link!Next]_Link!linkVars
<1> SUFFICES ASSUME DaemonInv, [Next]_vars PROVE [Link!Next]_Link!linkVars
  OBVIOUS
<1>1. CASE RunControl
  BY <1>1, RunControlRefines
<1>2. ASSUME NEW h \in Handlers, Handler(h) PROVE [Link!Next]_Link!linkVars
  BY <1>2, HandlerRefines
<1>3. ASSUME NEW t \in Senders, Reporter(t) PROVE [Link!Next]_Link!linkVars
  BY <1>3, ReporterRefines
<1>4. ASSUME UNCHANGED <<ctl, cur, conn, controlMu>> PROVE [Link!Next]_Link!linkVars
  BY <1>4 DEF linkPhase, Link!linkVars
<1>5. ASSUME NEW s \in Conns, SessionSteps(s) \/ Environment(s)
      PROVE  [Link!Next]_Link!linkVars
  BY <1>4, <1>5 DEF SessionSteps, Environment
<1>6. CASE Cancel \/ UNCHANGED vars
  BY <1>4, <1>6 DEF Cancel
<1> QED
  BY <1>1, <1>2, <1>3, <1>5, <1>6 DEF Next

\* What the daemon's goroutines see of d.connection is the control link of
\* ControlLink: one link after another, and nobody inside controlMu when the
\* link is withdrawn.
THEOREM DaemonImplementsControlLink == Spec => ImplementsControlLink
<1>1. Init => Link!Init
  BY DEF Init, linkPhase, Link!Init
<1> QED
  BY <1>1, StepRefines, DaemonInvariant, PTL DEF Spec, ImplementsControlLink, Link!Spec
=============================================================================
