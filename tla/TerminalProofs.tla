--------------------------- MODULE TerminalProofs ---------------------------
(***************************************************************************)
(* The safety of the terminal manager for every set of ids, every number   *)
(* of terminals and of connection changes.  One invariant, TerminalInv,    *)
(* carries the registry, the handles and what the control goroutine knows  *)
(* between two of its steps; DeadlineInv follows the recovery timer; the   *)
(* refinement of TerminalLease needs TerminalInv.                          *)
(*                                                                         *)
(* A step changes one terminal.  The lemmas on the types say which fields  *)
(* it changes, as an equation between records; those on the invariants     *)
(* look at that equation and no longer at the action.                      *)
(***************************************************************************)
EXTENDS Terminal, TLAPS, SequenceTheorems

\* Where close is while the map still leads to the terminal, and after the
\* handles were released.
Listed == {"open", "begun", "released"}
Gone == {"released", "deleted", "reported"}

\* A number that was not given out yet is a terminal without a past.
Unopened == \A t \in Terminals \ Opened : term[t] = New

\* The map leads an id only to a terminal that has it.
RegistryLeadsToOwn ==
    \A i \in Ids : registry[i] # 0 => registry[i] \in Opened /\ term[registry[i]].id = i

\* What a terminal acquired before it acquired the next thing, and what close
\* saw of it and left of it.
Handles(t) ==
    /\ term[t].negotiated => term[t].pc # "none"
    /\ term[t].dc # "none" => term[t].negotiated
    /\ term[t].opening # "none" => term[t].dc # "none"
    /\ term[t].pty # "none" => term[t].opening # "none"
    /\ term[t].notes # <<>> \/ term[t].recovery # "nil" => term[t].negotiated
    /\ IsClosed(t) => term[t].wanted
    /\ term[t].closing = "begun" => /\ "pty" \in term[t].snapshot <=> term[t].pty # "none"
                                    /\ "dc" \in term[t].snapshot <=> term[t].dc # "none"
    /\ term[t].closing \in Gone => term[t].pty # "open" /\ term[t].dc # "open"

\* Before the daemon shuts down, a terminal that has no peer connection is
\* closed only by the control goroutine, which does not run offer then; so
\* close sees every peer connection that there will ever be.
PeerIsSeen(t) ==
    quit.at = "no" =>
        /\ term[t].wanted /\ term[t].pc = "none" =>
              \/ ctl.at = "closing" /\ ctl.target = t
              \/ term[t].closing = "reported" /\ ctl.target # t
        /\ term[t].pc = "open" =>
              /\ term[t].closing \notin Gone
              /\ term[t].closing = "begun" => "pc" \in term[t].snapshot

\* What the control goroutine knows of the id of its event.
ControlKnows ==
    /\ ctl.at = "closing" =>
          /\ ctl.kind = "close" /\ ctl.id = term[ctl.target].id
          /\ registry[ctl.id] \in {0, ctl.target}
    /\ ctl.at \in {"offering", "answering"} => ctl.kind = "offer"
    /\ ctl.at = "idle" /\ ctl.kind = "close" => Lookup(ctl.id) = 0

TerminalInv ==
    /\ TypeOK
    /\ Unopened
    /\ RegistryLeadsToOwn
    /\ RegistryIsExact
    /\ \A t \in Opened : Handles(t) /\ PeerIsSeen(t)
    /\ ControlKnows

\* The last notification still to be handled tells the state of the peer
\* connection; when none is left, the timer agrees with that state.
LastNote(t) == term[t].notes[Len(term[t].notes)]

Deadline(t) ==
    /\ term[t].recovery = "stopped" => IsClosed(t)
    /\ term[t].notes # <<>> => term[t].peer # "new"
    /\ InOrder /\ term[t].notes # <<>> => LastNote(t) = term[t].peer
    /\ InOrder /\ ~IsClosed(t) /\ term[t].notes = <<>> =>
          (term[t].peer \in Away <=> term[t].recovery \in {"armed", "fired"}) \/ term[t].peer = "closed"

DeadlineInv == \A t \in Terminals : Deadline(t)

----------------------------------------------------------------------------
(* Types.                                                                  *)

\* Notes keep their type: one is added at the end, or one taken out anywhere.
LEMMA NotesAdded ==
    ASSUME NEW notes \in Seq(PeerStates), NEW state \in PeerStates
    PROVE  /\ Append(notes, state) \in Seq(PeerStates)
           /\ Append(notes, state) # <<>>
           /\ Append(notes, state)[Len(Append(notes, state))] = state
BY AppendProperties, LenProperties

\* Taking out the first note leaves the last one where it was.
LEMMA NoteRemoved ==
    ASSUME NEW notes \in Seq(PeerStates), NEW n \in DOMAIN notes
    PROVE  /\ notes[n] \in PeerStates
           /\ RemoveAt(notes, n) \in Seq(PeerStates)
           /\ n = 1 => IF Len(notes) = 1 THEN RemoveAt(notes, n) = <<>>
                       ELSE /\ RemoveAt(notes, n) # <<>>
                            /\ RemoveAt(notes, n)[Len(RemoveAt(notes, n))] = notes[Len(notes)]
<1> DEFINE front == SubSeq(notes, 1, n - 1)
           back == SubSeq(notes, n + 1, Len(notes))
<1>1. Len(notes) \in Nat /\ n \in 1..Len(notes) /\ \A i \in 1..Len(notes) : notes[i] \in PeerStates
  BY LenProperties
<1>2. front \in Seq(PeerStates) /\ Len(front) = n - 1
  <2>1. \A i \in 1..(n - 1) : notes[i] \in PeerStates
    BY <1>1
  <2>2. n - 1 \in Int /\ 1 \in Int
    BY <1>1
  <2> HIDE DEF front
  <2>3. front \in Seq(PeerStates) /\ Len(front) = IF 1 <= n - 1 THEN n - 1 - 1 + 1 ELSE 0
    BY <2>1, <2>2, SubSeqProperties DEF front
  <2> QED
    BY <1>1, <2>3
<1>3. /\ back \in Seq(PeerStates)
      /\ Len(back) = Len(notes) - n
      /\ \A i \in 1..(Len(notes) - n) : back[i] = notes[n + i]
  <2>1. \A i \in (n + 1)..Len(notes) : notes[i] \in PeerStates
    BY <1>1
  <2>2. n + 1 \in Int /\ Len(notes) \in Int
    BY <1>1
  <2>3. /\ back \in Seq(PeerStates)
        /\ Len(back) = IF n + 1 <= Len(notes) THEN Len(notes) - (n + 1) + 1 ELSE 0
        /\ \A i \in 1..(Len(notes) - (n + 1) + 1) : back[i] = notes[n + 1 + i - 1]
    BY <2>1, <2>2, SubSeqProperties
  <2> QED
    BY <1>1, <2>3
<1>4. RemoveAt(notes, n) = front \o back
  BY DEF RemoveAt
<1> HIDE DEF front, back
<1>5. /\ front \o back \in Seq(PeerStates)
      /\ Len(front \o back) = Len(notes) - 1
  BY <1>1, <1>2, <1>3, ConcatProperties
<1>6. CASE n # 1
  BY <1>1, <1>4, <1>5, <1>6
<1>7. CASE n = 1 /\ Len(notes) = 1
  BY <1>1, <1>4, <1>5, <1>7, EmptySeq
<1>8. CASE n = 1 /\ Len(notes) # 1
  <2>1. (front \o back)[Len(notes) - 1] = back[Len(notes) - 1]
    BY <1>1, <1>2, <1>3, <1>8, ConcatProperties
  <2>2. back[Len(notes) - 1] = notes[Len(notes)]
    BY <1>1, <1>3, <1>8
  <2>3. front \o back # <<>>
    BY <1>1, <1>5, <1>8, EmptySeq
  <2> QED
    BY <1>1, <1>4, <1>5, <1>8, <2>1, <2>2, <2>3
<1> QED
  BY <1>6, <1>7, <1>8

\* The empty manager is well typed.
LEMMA InitType == Init => TypeOK
BY TerminalAssumption, EmptySeq
DEF Init, TypeOK, New, TerminalState, Terminals, Opened, PeerStates, SignalKinds, NoId

\* A step that changes terminal t only.
Touches(t) == term' = [term EXCEPT ![t] = term'[t]]

\* Open takes the next number and gives it a terminal with the id of the event.
LEMMA OpenType ==
    ASSUME TypeOK, NEW i \in Ids \cup {NoId}, Open(i)
    PROVE  TypeOK' /\ i \in Ids /\ made' \in Terminals /\ Touches(made')
<1>1. /\ i \in Ids /\ made \in Nat /\ made' = made + 1
      /\ made' \in Terminals /\ Opened' = Opened \cup {made'}
  BY TerminalAssumption DEF Open, TypeOK, Terminals, Opened
<1>2. term'[made'] \in TerminalState /\ term'[made'].id = i
  <2>1. term'[made'] = [term[made'] EXCEPT !.id = i] /\ term[made'] \in TerminalState
    BY <1>1 DEF Open, TypeOK
  <2> QED
    BY <1>1, <2>1 DEF TerminalState
<1>3. Touches(made')
  BY <1>1 DEF Open, TypeOK, Touches
<1>4. \A t \in Terminals : term'[t].id = NoId <=> t \notin Opened'
  BY <1>1, <1>2, <1>3, TerminalAssumption DEF TypeOK, Touches
<1>5. registry' \in [Ids -> Opened' \cup {0}] /\ made' \in 0..MaxTerminals
  BY <1>1 DEF Open, TypeOK, Terminals
<1>6. /\ ctl' \in [at : {"idle", "offering", "answering", "closing"},
                   kind : SignalKinds \cup {"none", "terminal.open", "terminal.close"},
                   id : Ids \cup {NoId}, target : Opened' \cup {0}]
      /\ ctl'.target = 0 <=> ctl'.at = "idle"
  BY DEF Open, TakesEvent
<1> QED
  BY <1>1, <1>2, <1>3, <1>4, <1>5, <1>6 DEF Open, TypeOK, Touches

\* Every other step keeps the terminals there are.
LEMMA TypeFrame ==
    ASSUME TypeOK, UNCHANGED made,
           registry' \in [Ids -> Opened \cup {0}],
           ctl' \in [at : {"idle", "offering", "answering", "closing"},
                     kind : SignalKinds \cup {"none", "terminal.open", "terminal.close"},
                     id : Ids \cup {NoId}, target : Opened \cup {0}],
           ctl'.target = 0 <=> ctl'.at = "idle",
           quit' \in [at : {"no", "closing", "done"}, doomed : SUBSET Opened,
                      current : Opened \cup {0}],
           quit'.current # 0 => quit'.current \in quit'.doomed,
           quit'.doomed # {} => quit'.at = "closing",
           \/ UNCHANGED term
           \/ \E t \in Opened : /\ Touches(t)
                                 /\ term'[t] \in TerminalState /\ term'[t].id = term[t].id
    PROVE  TypeOK'
<1>1. Opened \subseteq Terminals
  BY TerminalAssumption DEF TypeOK, Opened, Terminals
<1> QED
  BY <1>1 DEF TypeOK, Touches, Opened

\* offer makes a peer connection and makes it ready for callbacks.
LEMMA OfferType == ASSUME TypeOK, OfferMakesPeer \/ OfferAnswers PROVE TypeOK' /\ Touches(ctl.target)
<1>1. /\ ctl.target \in Opened /\ ctl.target \in Terminals
      /\ term[ctl.target] \in TerminalState
  BY TerminalAssumption DEF OfferMakesPeer, OfferAnswers, TypeOK, Opened, Terminals
<1>2. term'[ctl.target] \in TerminalState /\ term'[ctl.target].id = term[ctl.target].id
  <2>1. CASE OfferMakesPeer
    <3>1. term'[ctl.target] = [term[ctl.target] EXCEPT !.pc = IF @ = "none" THEN "open" ELSE @]
      BY <1>1, <2>1 DEF OfferMakesPeer, TypeOK
    <3> QED
      BY <1>1, <3>1 DEF TerminalState
  <2>2. CASE OfferAnswers
    <3>1. term'[ctl.target] = [term[ctl.target] EXCEPT !.negotiated = TRUE]
      BY <1>1, <2>2 DEF OfferAnswers, TypeOK
    <3> QED
      BY <1>1, <3>1 DEF TerminalState
  <2> QED
    BY <2>1, <2>2
<1>3. Touches(ctl.target)
  BY <1>1 DEF OfferMakesPeer, OfferAnswers, TypeOK, Touches
<1> QED
  BY <1>1, <1>2, <1>3, TypeFrame DEF OfferMakesPeer, OfferAnswers, Resumes, Returns, TypeOK

\* The goroutines that want a terminal closed only say so.
LEMMA WantedType ==
    ASSUME TypeOK, NEW t \in Opened, term' = [term EXCEPT ![t].wanted = TRUE]
    PROVE  term'[t] \in TerminalState /\ term'[t].id = term[t].id /\ Touches(t)
<1>1. t \in Terminals /\ term[t] \in TerminalState
  BY TerminalAssumption DEF TypeOK, Opened, Terminals
<1>2. ASSUME NEW r \in TerminalState
      PROVE  [r EXCEPT !.wanted = TRUE] \in TerminalState /\ [r EXCEPT !.wanted = TRUE].id = r.id
  BY DEF TerminalState
<1>3. term'[t] \in TerminalState /\ term'[t].id = term[t].id
  BY <1>1, <1>2 DEF TypeOK
<1>4. Touches(t)
  BY <1>1 DEF TypeOK, Touches
<1> QED
  BY <1>3, <1>4

\* A signal that finds its terminal leads the control goroutine to it.
LEMMA ArrivesType ==
    ASSUME TypeOK, NEW i \in Ids \cup {NoId}, OfferArrives(i) \/ CloseArrives(i)
    PROVE  TypeOK' /\ i \in Ids /\ registry[i] \in Opened
<1>1. i \in Ids /\ registry[i] \in Opened /\ Lookup(i) = registry[i] /\ registry[i] # 0
  BY DEF OfferArrives, CloseArrives, Lookup, TypeOK
<1>2. CASE OfferArrives(i)
  BY <1>1, <1>2, TypeFrame DEF OfferArrives, TakesEvent, SignalKinds, TypeOK
<1>3. CASE CloseArrives(i)
  BY <1>1, <1>3, TypeFrame, WantedType DEF CloseArrives, TakesEvent, SignalKinds, TypeOK
<1> QED
  BY <1>1, <1>2, <1>3

\* No step of the control goroutine leaves the types.
LEMMA ControlType == ASSUME TypeOK, Control PROVE TypeOK'
<1>1. CASE \E i \in Ids \cup {NoId} : ServiceCloses(i) \/ \E k \in SignalKinds \cup {"terminal.open"} : NothingToDo(k, i)
  BY <1>1, TypeFrame DEF ServiceCloses, NothingToDo, TakesEvent, TypeOK
<1>2. CASE OfferFails \/ CloseReturns
  BY <1>2, TypeFrame DEF OfferFails, CloseReturns, Returns, TypeOK
<1> QED
  BY <1>1, <1>2, OpenType, OfferType, ArrivesType DEF Control

\* What a callback does to its terminal, as a record.
LEMMA CallbackStep ==
    ASSUME TypeOK, NEW t \in Opened, Callback(t)
    PROVE  /\ t \in Terminals /\ term[t] \in TerminalState /\ Touches(t)
           /\ \/ term[t].negotiated /\ ~IsClosed(t) /\ term'[t] = [term[t] EXCEPT !.dc = "open", !.opening = "due"]
              \/ /\ term[t].opening = "due" /\ ~IsClosed(t) /\ term[t].pty = "none"
                 /\ term'[t] = [term[t] EXCEPT !.pty = "open", !.opening = "announcing"]
              \/ term[t].opening = "due" /\ term'[t] = [term[t] EXCEPT !.opening = "done", !.wanted = TRUE]
              \/ term[t].opening = "announcing" /\ term'[t] = [term[t] EXCEPT !.opening = "done"]
              \/ (term[t].opening # "none" \/ term[t].pty # "none") /\ term'[t] = [term[t] EXCEPT !.wanted = TRUE]
              \/ term[t].recovery = "armed" /\ term'[t] = [term[t] EXCEPT !.recovery = "fired", !.wanted = TRUE]
              \/ \E state \in PeerStates \ {"new"} :
                    /\ term[t].negotiated /\ term[t].pc = "open" /\ term[t].changes < MaxChanges
                    /\ term'[t] = [term[t] EXCEPT !.changes = @ + 1, !.peer = state, !.notes = Append(@, state)]
              \/ \E n \in 1..MaxChanges :
                    /\ n \in DOMAIN term[t].notes /\ (InOrder => n = 1)
                    /\ term'[t] = [term[t] EXCEPT !.notes = RemoveAt(@, n),
                                                 !.recovery = NextRecovery(t, term[t].notes[n]),
                                                 !.wanted = @ \/ term[t].notes[n] = "closed"]
<1>1. t \in Terminals /\ term[t] \in TerminalState
  BY TerminalAssumption DEF TypeOK, Opened, Terminals
<1>2. CASE DataChannelArrives(t)
  BY <1>1, <1>2 DEF DataChannelArrives, IsClosed, TypeOK, Touches
<1>3. CASE StartPTY(t)
  BY <1>1, <1>3 DEF StartPTY, TypeOK, Touches
<1>4. CASE StartPTYFails(t)
  BY <1>1, <1>4 DEF StartPTYFails, TypeOK, Touches
<1>5. CASE Announce(t)
  BY <1>1, <1>5 DEF Announce, TypeOK, Touches
<1>6. CASE Message(t) \/ ShellExits(t)
  BY <1>1, <1>6 DEF Message, ShellExits, TypeOK, Touches
<1>7. CASE RecoveryEnds(t)
  BY <1>1, <1>7 DEF RecoveryEnds, TypeOK, Touches
<1>8. CASE \E state \in PeerStates \ {"new"} : PeerChanges(t, state)
  BY <1>1, <1>8 DEF PeerChanges, TypeOK, Touches
<1>9. ASSUME NEW n \in 1..MaxChanges, Notified(t, n)
      PROVE  /\ Touches(t) /\ n \in DOMAIN term[t].notes /\ (InOrder => n = 1)
             /\ term'[t] = [term[t] EXCEPT !.notes = RemoveAt(@, n),
                                          !.recovery = NextRecovery(t, term[t].notes[n]),
                                          !.wanted = @ \/ term[t].notes[n] = "closed"]
  BY <1>1, <1>9 DEF Notified, TypeOK, Touches
<1> QED
  BY <1>1, <1>2, <1>3, <1>4, <1>5, <1>6, <1>7, <1>8, <1>9 DEF Callback

\* No callback leaves the types, or closes a terminal.
LEMMA CallbackType ==
    ASSUME TypeOK, NEW t \in Opened, Callback(t)
    PROVE  TypeOK' /\ term'[t] \in TerminalState /\ term'[t].id = term[t].id /\ term'[t].closing = term[t].closing
<1>1. t \in Terminals /\ term[t] \in TerminalState /\ Touches(t)
  BY CallbackStep
<1>2. term'[t] \in TerminalState /\ term'[t].id = term[t].id /\ term'[t].closing = term[t].closing
  <2>1. CASE term'[t] = [term[t] EXCEPT !.dc = "open", !.opening = "due"]
    BY <1>1, <2>1 DEF TerminalState
  <2>2. CASE term'[t] = [term[t] EXCEPT !.pty = "open", !.opening = "announcing"]
    BY <1>1, <2>2 DEF TerminalState
  <2>3. CASE term'[t] = [term[t] EXCEPT !.opening = "done", !.wanted = TRUE]
    BY <1>1, <2>3 DEF TerminalState
  <2>4. CASE term'[t] = [term[t] EXCEPT !.opening = "done"]
    BY <1>1, <2>4 DEF TerminalState
  <2>5. CASE term'[t] = [term[t] EXCEPT !.wanted = TRUE]
    BY <1>1, <2>5 DEF TerminalState
  <2>6. CASE term'[t] = [term[t] EXCEPT !.recovery = "fired", !.wanted = TRUE]
    BY <1>1, <2>6 DEF TerminalState
  <2>7. ASSUME NEW state \in PeerStates, term[t].changes < MaxChanges,
               term'[t] = [term[t] EXCEPT !.changes = @ + 1, !.peer = state, !.notes = Append(@, state)]
        PROVE  term'[t] \in TerminalState /\ term'[t].id = term[t].id /\ term'[t].closing = term[t].closing
    <3>1. term[t].changes + 1 \in 0..MaxChanges
      BY <1>1, <2>7, TerminalAssumption DEF TerminalState
    <3>2. Append(term[t].notes, state) \in Seq(PeerStates)
      BY <1>1, NotesAdded DEF TerminalState
    <3> QED
      BY <1>1, <2>7, <3>1, <3>2, ZenonT(40) DEF TerminalState
  <2>8. ASSUME NEW n \in DOMAIN term[t].notes,
               term'[t] = [term[t] EXCEPT !.notes = RemoveAt(@, n),
                                          !.recovery = NextRecovery(t, term[t].notes[n]),
                                          !.wanted = @ \/ term[t].notes[n] = "closed"]
        PROVE  term'[t] \in TerminalState /\ term'[t].id = term[t].id /\ term'[t].closing = term[t].closing
    <3>1. RemoveAt(term[t].notes, n) \in Seq(PeerStates)
      BY <1>1, NoteRemoved DEF TerminalState
    <3>2. NextRecovery(t, term[t].notes[n]) \in {"nil", "armed", "fired", "stopped"}
      BY <1>1 DEF NextRecovery, TerminalState
    <3> QED
      BY <1>1, <2>8, <3>1, <3>2, ZenonT(40) DEF TerminalState
  <2> QED
    BY <2>1, <2>2, <2>3, <2>4, <2>5, <2>6, <2>7, <2>8, CallbackStep
<1> QED
  BY <1>1, <1>2, TypeFrame DEF Callback, Alone, TypeOK

\* What a step of close does to its terminal, as a record.
LEMMA ClosingStep ==
    ASSUME TypeOK, NEW t \in Opened, Closing(t)
    PROVE  /\ t \in Terminals /\ term[t] \in TerminalState /\ term[t].id \in Ids /\ Touches(t)
           /\ term'[t] \in TerminalState /\ term'[t].id = term[t].id
           /\ term'[t].peer = term[t].peer /\ term'[t].notes = term[t].notes
           /\ term'[t].recovery \in {term[t].recovery, "stopped"} /\ IsClosed(t)'
           /\ \/ /\ term[t].wanted /\ term[t].closing = "open"
                 /\ \E seen \in SUBSET {"pty", "dc", "pc"} :
                       /\ "pty" \in seen <=> term[t].pty # "none"
                       /\ "dc" \in seen <=> term[t].dc # "none"
                       /\ "pc" \in seen <=> term[t].pc # "none"
                       /\ term'[t] = [term[t] EXCEPT
                               !.closing = "begun",
                               !.recovery = IF @ = "armed" THEN "stopped" ELSE @,
                               !.snapshot = seen]
                 /\ UNCHANGED registry
              \/ /\ term[t].closing = "begun" /\ term'[t].closing = "released"
                 /\ term'[t].pty = IF "pty" \in term[t].snapshot THEN "closed" ELSE term[t].pty
                 /\ term'[t].dc = IF "dc" \in term[t].snapshot THEN "closed" ELSE term[t].dc
                 /\ term'[t].pc = IF "pc" \in term[t].snapshot THEN "closed" ELSE term[t].pc
                 /\ term'[t].negotiated = term[t].negotiated /\ term'[t].opening = term[t].opening
                 /\ term'[t].peer = term[t].peer /\ term'[t].notes = term[t].notes
                 /\ term'[t].recovery = term[t].recovery /\ term'[t].wanted = term[t].wanted
                 /\ UNCHANGED registry
              \/ /\ term[t].closing = "released"
                 /\ term'[t] = [term[t] EXCEPT !.closing = "deleted"]
                 /\ registry' = [registry EXCEPT ![term[t].id] = 0]
              \/ /\ term[t].closing = "deleted"
                 /\ term'[t] = [term[t] EXCEPT !.closing = "reported"]
                 /\ UNCHANGED registry
<1>1. t \in Terminals /\ term[t] \in TerminalState /\ term[t].id \in Ids
  BY TerminalAssumption DEF TypeOK, Opened, Terminals, TerminalState
<1>2. Touches(t)
  BY <1>1 DEF Closing, CloseBegins, CloseReleases, CloseDeletes, CloseReports, TypeOK, Touches
<1>3. CASE CloseBegins(t)
  <2> DEFINE seen == {h \in {"pty", "dc", "pc"} : term[t][h] # "none"}
  <2>1. term'[t] = [term[t] EXCEPT
          !.closing = "begun",
          !.recovery = IF @ = "armed" THEN "stopped" ELSE @,
          !.snapshot = seen]
    BY <1>1, <1>3 DEF CloseBegins, TypeOK
  <2>2. /\ seen \in SUBSET {"pty", "dc", "pc"}
        /\ "pty" \in seen <=> term[t].pty # "none"
        /\ "dc" \in seen <=> term[t].dc # "none"
        /\ "pc" \in seen <=> term[t].pc # "none"
    OBVIOUS
  <2> HIDE DEF seen
  <2>3. /\ term'[t] \in TerminalState /\ term'[t].id = term[t].id
        /\ term'[t].peer = term[t].peer /\ term'[t].notes = term[t].notes
        /\ term'[t].recovery \in {term[t].recovery, "stopped"} /\ IsClosed(t)'
    BY <1>1, <2>1, <2>2, ZenonT(40) DEF TerminalState, IsClosed
  <2> QED
    BY <1>1, <1>2, <1>3, <2>1, <2>2, <2>3 DEF CloseBegins
<1>4. CASE CloseReleases(t)
  <2> DEFINE after(h) == IF h \in term[t].snapshot THEN "closed" ELSE term[t][h]
  <2>1. term'[t] = [term[t] EXCEPT !.pty = after("pty"), !.dc = after("dc"), !.pc = after("pc"),
                                   !.closing = "released", !.snapshot = {}]
    BY <1>1, <1>4 DEF CloseReleases, TypeOK
  <2>2. PICK pty \in {term[t].pty, "closed"}, dc \in {term[t].dc, "closed"}, pc \in {term[t].pc, "closed"} :
             pty = after("pty") /\ dc = after("dc") /\ pc = after("pc")
    OBVIOUS
  <2> HIDE DEF after
  <2>3. term'[t] = [term[t] EXCEPT !.pty = pty, !.dc = dc, !.pc = pc, !.closing = "released", !.snapshot = {}]
    BY <2>1, <2>2
  <2>4. /\ term'[t] \in TerminalState /\ term'[t].id = term[t].id
        /\ term'[t].peer = term[t].peer /\ term'[t].notes = term[t].notes
        /\ term'[t].recovery = term[t].recovery /\ IsClosed(t)'
    BY <1>1, <2>3, ZenonT(40) DEF TerminalState, IsClosed
  <2>5. /\ term'[t].pty = pty /\ term'[t].dc = dc /\ term'[t].pc = pc
        /\ term'[t].closing = "released" /\ term'[t].negotiated = term[t].negotiated
        /\ term'[t].opening = term[t].opening /\ term'[t].wanted = term[t].wanted
    BY <1>1, <2>3 DEF TerminalState
  <2>6. term[t].closing = "begun" /\ UNCHANGED registry
    BY <1>4 DEF CloseReleases
  <2> QED
    BY <1>1, <1>2, <2>2, <2>4, <2>5, <2>6, Zenon DEF after
<1>5. CASE CloseDeletes(t)
  <2>1. term'[t] = [term[t] EXCEPT !.closing = "deleted"]
    BY <1>1, <1>5 DEF CloseDeletes, TypeOK
  <2>2. /\ term'[t] \in TerminalState /\ term'[t].id = term[t].id
        /\ term'[t].peer = term[t].peer /\ term'[t].notes = term[t].notes
        /\ term'[t].recovery = term[t].recovery /\ IsClosed(t)'
    BY <1>1, <2>1 DEF TerminalState, IsClosed
  <2> QED
    BY <1>1, <1>2, <1>5, <2>1, <2>2 DEF CloseDeletes
<1>6. CASE CloseReports(t)
  <2>1. term'[t] = [term[t] EXCEPT !.closing = "reported"]
    BY <1>1, <1>6 DEF CloseReports, TypeOK
  <2>2. /\ term'[t] \in TerminalState /\ term'[t].id = term[t].id
        /\ term'[t].peer = term[t].peer /\ term'[t].notes = term[t].notes
        /\ term'[t].recovery = term[t].recovery /\ IsClosed(t)'
    BY <1>1, <2>1 DEF TerminalState, IsClosed
  <2> QED
    BY <1>1, <1>2, <1>6, <2>1, <2>2 DEF CloseReports
<1> QED
  BY <1>3, <1>4, <1>5, <1>6 DEF Closing

\* No step of close leaves the types.
LEMMA ClosingType == ASSUME TypeOK, NEW t \in Opened, Closing(t) PROVE TypeOK'
<1>1. registry' \in [Ids -> Opened \cup {0}]
  BY ClosingStep DEF TypeOK
<1> QED
  BY <1>1, ClosingStep, TypeFrame DEF Closing, TypeOK

\* CloseAll dooms terminals that were opened, and closes one of these at a time.
LEMMA QuittingType == ASSUME TypeOK, Quitting PROVE TypeOK'
<1>1. CASE \E t \in Opened : CloseAllPicks(t)
  <2>1. PICK t \in Opened : CloseAllPicks(t)
    BY <1>1
  <2>2. term'[t] \in TerminalState /\ term'[t].id = term[t].id /\ Touches(t)
    BY <2>1, WantedType DEF CloseAllPicks
  <2>3. UNCHANGED <<registry, made, ctl>>
    BY DEF Quitting, CloseAllGoesOn
  <2> QED
    BY <2>1, <2>2, <2>3, TypeFrame DEF CloseAllPicks, TypeOK
<1>2. CASE CloseAll /\ UNCHANGED <<registry, made, ctl>>
  <2> DEFINE doomed == {registry[i] : i \in Ids} \ {0}
  <2>1. doomed \in SUBSET Opened
    BY DEF TypeOK
  <2>2. quit' = [quit EXCEPT !.at = "closing", !.doomed = doomed] /\ UNCHANGED term
    BY <1>2 DEF CloseAll
  <2>3. quit.current = 0
    BY <1>2 DEF CloseAll, TypeOK
  <2> HIDE DEF doomed
  <2> QED
    BY <1>2, <2>1, <2>2, <2>3, TypeFrame DEF TypeOK
<1>3. CASE (CloseAllPasses \/ CloseAllEnds) /\ UNCHANGED <<registry, made, ctl>>
  BY <1>3, TypeFrame, ZenonT(40) DEF CloseAllPasses, CloseAllEnds, TypeOK
<1> QED
  BY <1>1, <1>2, <1>3 DEF Quitting, CloseAllGoesOn

----------------------------------------------------------------------------
(* The invariant.                                                          *)

\* What a step that changes terminal t only leaves alone.
LEMMA Untouched ==
    ASSUME TerminalInv, TypeOK', NEW t \in Opened, Touches(t), UNCHANGED made
    PROVE  /\ Unopened'
           /\ \A u \in Opened \ {t} : term'[u] = term[u] /\ Handles(u)'
           /\ UNCHANGED <<ctl, quit>> => \A u \in Opened \ {t} : PeerIsSeen(u)'
<1>1. \A u \in Terminals \ {t} : term'[u] = term[u]
  BY DEF Touches, TerminalInv, TypeOK
<1>2. Opened \subseteq Terminals /\ Opened' = Opened
  BY TerminalAssumption DEF TerminalInv, TypeOK, Opened, Terminals
<1> QED
  BY <1>1, <1>2 DEF TerminalInv, Unopened, Handles, PeerIsSeen, IsClosed

\* Saying that a terminal is to be closed disturbs nothing but wanted.
LEMMA WantedInv ==
    ASSUME TerminalInv, NEW t \in Opened, term' = [term EXCEPT ![t].wanted = TRUE], UNCHANGED made
    PROVE  /\ Unopened'
           /\ \A u \in Opened :
                 /\ term'[u].id = term[u].id /\ term'[u].closing = term[u].closing
                 /\ term'[u].pc = term[u].pc /\ term'[u].snapshot = term[u].snapshot
                 /\ u = t \/ term'[u].wanted = term[u].wanted
                 /\ Handles(u)'
<1>1. Opened \subseteq Terminals /\ Opened' = Opened
  BY TerminalAssumption DEF TerminalInv, TypeOK, Opened, Terminals
<1>2. \A u \in Terminals \ {t} : term'[u] = term[u]
  BY DEF TerminalInv, TypeOK
<1>3. term[t] \in TerminalState /\ term'[t] = [term[t] EXCEPT !.wanted = TRUE] /\ Handles(t)
  BY <1>1 DEF TerminalInv, TypeOK
<1>4. /\ term'[t].id = term[t].id /\ term'[t].closing = term[t].closing
      /\ term'[t].pc = term[t].pc /\ term'[t].snapshot = term[t].snapshot
      /\ Handles(t)'
  BY <1>3 DEF Handles, IsClosed, Gone, TerminalState
<1>5. Unopened'
  BY <1>1, <1>2 DEF TerminalInv, Unopened
<1>6. \A u \in Opened \ {t} : term'[u] = term[u] /\ Handles(u)'
  BY <1>1, <1>2 DEF TerminalInv, Handles, IsClosed
<1> QED
  BY <1>4, <1>5, <1>6

\* A callback may get handles only in the order in which Handles lists them, and
\* only of a terminal that is not closed.
LEMMA CallbackInv == ASSUME TerminalInv, NEW t \in Opened, Callback(t) PROVE TerminalInv'
<1>1. TypeOK' /\ Touches(t) /\ term'[t].id = term[t].id /\ term'[t] \in TerminalState
  BY CallbackType, CallbackStep DEF TerminalInv
<1>2. t \in Terminals /\ term[t] \in TerminalState /\ Opened' = Opened
  BY CallbackStep DEF TerminalInv, Opened, Callback, Alone
<1>3. Handles(t)
  BY DEF TerminalInv
<1>4. /\ term'[t].closing = term[t].closing /\ term'[t].pc = term[t].pc
      /\ term'[t].snapshot = term[t].snapshot /\ term'[t].negotiated = term[t].negotiated
      /\ term[t].negotiated \/ term'[t].wanted = term[t].wanted
      /\ Handles(t)'
  <2>1. CASE term[t].negotiated /\ ~IsClosed(t) /\ term'[t] = [term[t] EXCEPT !.dc = "open", !.opening = "due"]
    BY <1>2, <1>3, <2>1 DEF Handles, IsClosed, Gone, TerminalState
  <2>2. CASE term[t].opening = "due" /\ ~IsClosed(t) /\ term'[t] = [term[t] EXCEPT !.pty = "open", !.opening = "announcing"]
    BY <1>2, <1>3, <2>2 DEF Handles, IsClosed, Gone, TerminalState
  <2>3. CASE term[t].opening = "due" /\ term'[t] = [term[t] EXCEPT !.opening = "done", !.wanted = TRUE]
    BY <1>2, <1>3, <2>3 DEF Handles, IsClosed, Gone, TerminalState
  <2>4. CASE term[t].opening = "announcing" /\ term'[t] = [term[t] EXCEPT !.opening = "done"]
    BY <1>2, <1>3, <2>4 DEF Handles, IsClosed, Gone, TerminalState
  <2>5. CASE (term[t].opening # "none" \/ term[t].pty # "none") /\ term'[t] = [term[t] EXCEPT !.wanted = TRUE]
    BY <1>2, <1>3, <2>5 DEF Handles, IsClosed, Gone, TerminalState
  <2>6. CASE term[t].recovery = "armed" /\ term'[t] = [term[t] EXCEPT !.recovery = "fired", !.wanted = TRUE]
    BY <1>2, <1>3, <2>6, ZenonT(40) DEF Handles, IsClosed, Gone, TerminalState
  <2>7. CASE \E state \in PeerStates \ {"new"} :
              /\ term[t].negotiated /\ term[t].pc = "open" /\ term[t].changes < MaxChanges
              /\ term'[t] = [term[t] EXCEPT !.changes = @ + 1, !.peer = state, !.notes = Append(@, state)]
    BY <1>2, <1>3, <2>7, ZenonT(40) DEF Handles, IsClosed, Gone, TerminalState
  <2>8. CASE \E n \in 1..MaxChanges :
              /\ n \in DOMAIN term[t].notes /\ (InOrder => n = 1)
              /\ term'[t] = [term[t] EXCEPT !.notes = RemoveAt(@, n),
                                     !.recovery = NextRecovery(t, term[t].notes[n]),
                                     !.wanted = @ \/ term[t].notes[n] = "closed"]
    <3>1. term[t].notes # <<>>
      BY <2>8
    <3> QED
      BY <1>2, <1>3, <2>8, <3>1 DEF Handles, IsClosed, Gone, TerminalState
  <2> QED
    BY <2>1, <2>2, <2>3, <2>4, <2>5, <2>6, <2>7, <2>8, CallbackStep DEF TerminalInv
<1>5. PeerIsSeen(t)'
  BY <1>2, <1>3, <1>4 DEF Callback, Alone, TerminalInv, PeerIsSeen, Handles
<1>6. UNCHANGED <<registry, made, ctl, quit>> /\ \A u \in Opened \ {t} : term'[u] = term[u]
  BY <1>1, Untouched DEF Callback, Alone
<1>7. \A u \in Opened : /\ term'[u].id = term[u].id /\ term'[u].closing = term[u].closing
                       /\ Handles(u)' /\ PeerIsSeen(u)'
  BY <1>1, <1>4, <1>5, <1>6, Untouched
<1>8. RegistryLeadsToOwn' /\ RegistryIsExact'
  BY <1>2, <1>6, <1>7 DEF TerminalInv, RegistryLeadsToOwn, RegistryIsExact
<1>9. ControlKnows'
  BY <1>6, <1>7 DEF TerminalInv, TypeOK, ControlKnows, Lookup
<1> QED
  BY <1>1, <1>2, <1>6, <1>7, <1>8, <1>9, Untouched DEF TerminalInv

\* close takes the handles that are there when it begins, which are all there
\* ever will be, and the id only when they are closed.
LEMMA ClosingInv == ASSUME TerminalInv, NEW t \in Opened, Closing(t) PROVE TerminalInv'
<1>1. /\ TypeOK' /\ Touches(t) /\ term'[t].id = term[t].id /\ term'[t] \in TerminalState
      /\ t \in Terminals /\ term[t] \in TerminalState /\ term[t].id \in Ids
  BY ClosingType, ClosingStep DEF TerminalInv
<1>2. Opened' = Opened /\ UNCHANGED <<made, ctl, quit>> /\ t # 0
  BY DEF Closing, Opened
<1>3. Handles(t) /\ PeerIsSeen(t)
  BY DEF TerminalInv
<1>4. /\ Handles(t)' /\ PeerIsSeen(t)'
      /\ \/ UNCHANGED registry /\ (term'[t].closing \in Listed <=> term[t].closing \in Listed)
         \/ /\ registry' = [registry EXCEPT ![term[t].id] = 0]
            /\ term[t].closing \in Listed /\ term'[t].closing \notin Listed
  <2>1. CASE /\ term[t].wanted /\ term[t].closing = "open"
             /\ \E seen \in SUBSET {"pty", "dc", "pc"} :
                   /\ "pty" \in seen <=> term[t].pty # "none"
                   /\ "dc" \in seen <=> term[t].dc # "none"
                   /\ "pc" \in seen <=> term[t].pc # "none"
                   /\ term'[t] = [term[t] EXCEPT
                           !.closing = "begun",
                           !.recovery = IF @ = "armed" THEN "stopped" ELSE @,
                           !.snapshot = seen]
             /\ UNCHANGED registry
    BY <1>1, <1>2, <1>3, <2>1 DEF Handles, PeerIsSeen, IsClosed, Gone, Listed, TerminalState
  <2>2. CASE /\ term[t].closing = "begun" /\ term'[t].closing = "released"
             /\ term'[t].pty = IF "pty" \in term[t].snapshot THEN "closed" ELSE term[t].pty
             /\ term'[t].dc = IF "dc" \in term[t].snapshot THEN "closed" ELSE term[t].dc
             /\ term'[t].pc = IF "pc" \in term[t].snapshot THEN "closed" ELSE term[t].pc
             /\ term'[t].negotiated = term[t].negotiated /\ term'[t].opening = term[t].opening
             /\ term'[t].peer = term[t].peer /\ term'[t].notes = term[t].notes
             /\ term'[t].recovery = term[t].recovery /\ term'[t].wanted = term[t].wanted
             /\ UNCHANGED registry
    <3>1. Handles(t)'
      BY <1>3, <2>2 DEF Handles, IsClosed, Gone
    <3>2. PeerIsSeen(t)'
      BY <1>1, <1>2, <1>3, <2>2 DEF PeerIsSeen, Gone, TerminalState
    <3> QED
      BY <2>2, <3>1, <3>2 DEF Listed
  <2>3. CASE /\ term[t].closing = "released"
             /\ term'[t] = [term[t] EXCEPT !.closing = "deleted"]
             /\ registry' = [registry EXCEPT ![term[t].id] = 0]
    BY <1>1, <1>2, <1>3, <2>3 DEF Handles, PeerIsSeen, IsClosed, Gone, Listed, TerminalState
  <2>4. CASE /\ term[t].closing = "deleted"
             /\ term'[t] = [term[t] EXCEPT !.closing = "reported"]
             /\ UNCHANGED registry
    BY <1>1, <1>2, <1>3, <2>4 DEF Handles, PeerIsSeen, IsClosed, Gone, Listed, TerminalState
  <2> QED
    BY <2>1, <2>2, <2>3, <2>4, ClosingStep DEF TerminalInv
<1>5. \A u \in Opened \ {t} : term'[u] = term[u]
  BY <1>1, <1>2, Untouched
<1>6. \A u \in Opened : term'[u].id = term[u].id /\ term[u].id \in Ids /\ u # 0 /\ Handles(u)' /\ PeerIsSeen(u)'
  <2>1. \A u \in Opened : term[u].id \in Ids
    BY TerminalAssumption DEF TerminalInv, TypeOK, TerminalState, Opened, Terminals
  <2>2. \A u \in Opened : u # 0
    BY DEF Opened
  <2> QED
    BY <1>1, <1>2, <1>4, <1>5, <2>1, <2>2, Untouched
<1>7. RegistryLeadsToOwn'
  BY <1>1, <1>2, <1>4, <1>6 DEF TerminalInv, TypeOK, RegistryLeadsToOwn
<1>8. RegistryIsExact'
  BY <1>1, <1>2, <1>4, <1>5, <1>6 DEF TerminalInv, TypeOK, RegistryIsExact, Listed
<1>9. ControlKnows'
  BY <1>1, <1>2, <1>4, <1>6 DEF TerminalInv, TypeOK, ControlKnows, Lookup
<1> QED
  BY <1>1, <1>2, <1>6, <1>7, <1>8, <1>9, Untouched DEF TerminalInv

\* CloseAll changes no registry; what PeerIsSeen says ends where it begins.
LEMMA QuittingInv == ASSUME TerminalInv, Quitting PROVE TerminalInv'
<1>1. /\ TypeOK' /\ UNCHANGED <<registry, made, ctl>> /\ Opened' = Opened
      /\ quit'.at # "no"
  BY QuittingType DEF TerminalInv, Quitting, CloseAllGoesOn, CloseAllPicks, CloseAllPasses, CloseAllEnds, CloseAll,
       TypeOK, Opened
<1>2. /\ Unopened'
      /\ \A u \in Opened : term'[u].id = term[u].id /\ term'[u].closing = term[u].closing /\ Handles(u)'
  <2>1. CASE UNCHANGED term
    BY <1>1, <2>1 DEF TerminalInv, Unopened, Handles, IsClosed
  <2>2. ASSUME NEW t \in Opened, CloseAllPicks(t)
        PROVE  /\ Unopened'
               /\ \A u \in Opened : /\ term'[u].id = term[u].id /\ term'[u].closing = term[u].closing
                                     /\ Handles(u)'
    <3>1. term' = [term EXCEPT ![t].wanted = TRUE]
      BY <2>2 DEF CloseAllPicks
    <3> QED
      BY <1>1, <3>1, WantedInv
  <2> QED
    BY <2>1, <2>2 DEF Quitting, CloseAllGoesOn, CloseAllPasses, CloseAllEnds, CloseAll
<1>3. RegistryLeadsToOwn' /\ RegistryIsExact'
  BY <1>1, <1>2 DEF TerminalInv, RegistryLeadsToOwn, RegistryIsExact
<1>4. ControlKnows'
  BY <1>1, <1>2 DEF TerminalInv, TypeOK, ControlKnows, Lookup
<1> QED
  BY <1>1, <1>2, <1>3, <1>4 DEF TerminalInv, PeerIsSeen

\* A new terminal has nothing yet, and an id no other listed terminal has.
LEMMA OpenInv == ASSUME TerminalInv, NEW i \in Ids \cup {NoId}, Open(i) PROVE TerminalInv'
<1>1. /\ i \in Ids /\ registry[i] = 0 /\ TypeOK'
      /\ UNCHANGED quit /\ registry' = [registry EXCEPT ![i] = made']
  BY OpenType DEF TerminalInv, TypeOK, Open, Lookup
<1> SUFFICES ASSUME NEW t, t = made' PROVE TerminalInv'
  OBVIOUS
<1>2. /\ t \in Terminals \ Opened /\ Opened' = Opened \cup {t} /\ Opened \subseteq Terminals /\ 0 \notin Opened'
      /\ Touches(t)
  <2>1. made \in Nat /\ made < MaxTerminals /\ t = made + 1 /\ made' = made + 1
    BY TerminalAssumption DEF TerminalInv, TypeOK, Open
  <2> QED
    BY <2>1, OpenType, TerminalAssumption DEF TerminalInv, Terminals, Opened
<1>3. term'[t] = [New EXCEPT !.id = i]
  <2>1. term[t] = New
    BY <1>2 DEF TerminalInv, Unopened
  <2>2. term'[t] = [term[t] EXCEPT !.id = i]
    BY <1>2 DEF TerminalInv, TypeOK, Open
  <2> QED
    BY <2>1, <2>2
<1>4. \A u \in Terminals \ {t} : term'[u] = term[u]
  BY <1>2 DEF Touches, TerminalInv, TypeOK
<1>5. /\ term'[t].id = i /\ term'[t].closing = "open" /\ ~term'[t].wanted
      /\ term'[t].pc = "none" /\ Handles(t)'
  BY <1>3 DEF New, Handles, IsClosed, Gone
<1>6. ctl.at = "idle" /\ ctl.target = 0 /\ ctl'.at = "idle" /\ ctl'.target = 0 /\ ctl'.kind = "terminal.open"
  BY DEF Open, TakesEvent, TerminalInv, TypeOK
<1>7. Unopened'
  BY <1>2, <1>4 DEF TerminalInv, Unopened
<1>8. RegistryLeadsToOwn'
  <2>1. ASSUME NEW j \in Ids, registry'[j] # 0
        PROVE  registry'[j] \in Opened' /\ term'[registry'[j]].id = j
    <3>1. CASE j = i
      BY <1>1, <1>2, <1>5, <3>1 DEF TerminalInv, TypeOK
    <3>2. CASE j # i
      <4>1. registry'[j] = registry[j] /\ registry[j] \in Opened /\ term[registry[j]].id = j
        BY <1>1, <2>1, <3>2 DEF TerminalInv, TypeOK, RegistryLeadsToOwn
      <4> QED
        BY <1>2, <1>4, <4>1
    <3> QED
      BY <3>1, <3>2
  <2> QED
    BY <2>1 DEF RegistryLeadsToOwn
<1>9. RegistryIsExact'
  BY <1>1, <1>2, <1>4, <1>5 DEF TerminalInv, TypeOK, RegistryIsExact
<1>10. \A u \in Opened' : Handles(u)'
  <2>1. \A u \in Opened : Handles(u)'
    BY <1>2, <1>4 DEF TerminalInv, Handles, IsClosed
  <2> QED
    BY <1>2, <1>5, <2>1
<1>11. \A u \in Opened' : PeerIsSeen(u)'
  BY <1>1, <1>2, <1>4, <1>5, <1>6 DEF TerminalInv, PeerIsSeen
<1> QED
  BY <1>1, <1>6, <1>7, <1>8, <1>9, <1>10, <1>11 DEF TerminalInv, ControlKnows

\* The rest of the control goroutine leaves the registry and every close alone.
LEMMA ControlFrame ==
    ASSUME TerminalInv, TypeOK', UNCHANGED <<registry, made, quit>>, Unopened', ControlKnows',
           \A u \in Opened : /\ term'[u].id = term[u].id /\ term'[u].closing = term[u].closing
                             /\ Handles(u)' /\ PeerIsSeen(u)'
    PROVE  TerminalInv'
<1>1. Opened' = Opened
  BY DEF Opened
<1>2. RegistryLeadsToOwn' /\ RegistryIsExact'
  BY <1>1 DEF TerminalInv, RegistryLeadsToOwn, RegistryIsExact
<1> QED
  BY <1>1, <1>2 DEF TerminalInv

\* An event with nothing to do and a handler that returns change the control
\* goroutine only; one that returns from close has seen its terminal reported.
LEMMA NothingToDoInv ==
    ASSUME TerminalInv, Control, UNCHANGED <<registry, made, term, quit>>,
           ctl.at # "closing" \/ term[ctl.target].closing = "reported",
           ctl'.at = "idle", ctl'.target = 0, ctl'.kind = "close" => Lookup(ctl'.id) = 0
    PROVE  TerminalInv'
<1>1. TypeOK'
  BY ControlType DEF TerminalInv
<1>2. Opened' = Opened /\ 0 \notin Opened
  BY DEF Opened
<1>3. Unopened' /\ \A u \in Opened : Handles(u)'
  BY <1>2 DEF TerminalInv, Unopened, Handles, IsClosed
<1>4. \A u \in Opened : PeerIsSeen(u)'
  BY <1>2 DEF TerminalInv, PeerIsSeen
<1>5. ControlKnows'
  BY DEF ControlKnows, Lookup
<1> QED
  BY <1>1, <1>3, <1>4, <1>5, ControlFrame

\* An offer is only handled for a terminal whose close has not been reported.
LEMMA OfferArrivesInv == ASSUME TerminalInv, NEW i \in Ids \cup {NoId}, OfferArrives(i) PROVE TerminalInv'
<1>1. TypeOK' /\ i \in Ids /\ registry[i] \in Opened /\ term[registry[i]].id = i
  BY ArrivesType DEF TerminalInv, TypeOK, RegistryLeadsToOwn, Opened
<1>2. /\ ctl.at = "idle" /\ ctl'.at = "offering" /\ ctl'.kind = "offer" /\ ctl'.target = registry[i]
      /\ UNCHANGED <<registry, made, term, quit>> /\ Opened' = Opened
  BY <1>1 DEF OfferArrives, TakesEvent, Lookup, Opened
<1>3. Unopened' /\ \A u \in Opened : Handles(u)'
  BY <1>2 DEF TerminalInv, Unopened, Handles, IsClosed
<1>4. term[registry[i]].closing # "reported"
  BY <1>1 DEF TerminalInv, RegistryIsExact
<1>5. \A u \in Opened : PeerIsSeen(u)'
  BY <1>2, <1>4 DEF TerminalInv, PeerIsSeen
<1>6. ControlKnows'
  BY <1>2 DEF ControlKnows
<1> QED
  BY <1>1, <1>2, <1>3, <1>5, <1>6, ControlFrame

\* A peer connection appears only in a terminal nobody wants closed, or after
\* CloseAll began: the control goroutine that could close it is busy here.
LEMMA OfferMakesPeerInv == ASSUME TerminalInv, OfferMakesPeer PROVE TerminalInv'
<1> SUFFICES ASSUME NEW t \in Opened, t = ctl.target PROVE TerminalInv'
  BY DEF TerminalInv, TypeOK, OfferMakesPeer
<1>1. /\ Touches(t) /\ TypeOK' /\ t \in Terminals /\ term[t] \in TerminalState
      /\ UNCHANGED <<registry, made, quit>> /\ Opened' = Opened
  BY OfferType, TerminalAssumption DEF TerminalInv, TypeOK, OfferMakesPeer, Opened, Terminals
<1>2. term'[t] = [term[t] EXCEPT !.pc = IF @ = "none" THEN "open" ELSE @]
  BY <1>1 DEF OfferMakesPeer, TerminalInv, TypeOK
<1>3. ctl.at = "offering" /\ ctl'.at = "answering" /\ ctl'.kind = "offer" /\ ctl'.target = t
  BY <1>1 DEF OfferMakesPeer, Resumes, TerminalInv, TypeOK, ControlKnows
<1>4. Handles(t) /\ PeerIsSeen(t)
  BY DEF TerminalInv
<1>5. /\ Handles(t)' /\ term'[t].id = term[t].id /\ term'[t].closing = term[t].closing
      /\ term'[t].snapshot = term[t].snapshot /\ term'[t].wanted = term[t].wanted
      /\ term'[t].pc = IF term[t].pc = "none" THEN "open" ELSE term[t].pc
  BY <1>2, <1>1, <1>4 DEF Handles, IsClosed, Gone, TerminalState
<1>6. PeerIsSeen(t)'
  BY <1>1, <1>3, <1>4, <1>5 DEF PeerIsSeen, Handles, IsClosed, Gone
<1>7. Unopened' /\ \A u \in Opened \ {t} : term'[u] = term[u] /\ Handles(u)'
  BY <1>1, Untouched
<1>8. \A u \in Opened \ {t} : PeerIsSeen(u)'
  BY <1>1, <1>3, <1>7 DEF TerminalInv, PeerIsSeen
<1> QED
  BY <1>1, <1>3, <1>5, <1>6, <1>7, <1>8, ControlFrame DEF ControlKnows

\* Callbacks come only when there is a peer connection.
LEMMA OfferAnswersInv == ASSUME TerminalInv, OfferAnswers PROVE TerminalInv'
<1> SUFFICES ASSUME NEW t \in Opened, t = ctl.target PROVE TerminalInv'
  BY DEF TerminalInv, TypeOK, OfferAnswers
<1>1. /\ Touches(t) /\ TypeOK' /\ t \in Terminals /\ term[t] \in TerminalState
      /\ UNCHANGED <<registry, made, quit>> /\ Opened' = Opened
  BY OfferType, TerminalAssumption DEF TerminalInv, TypeOK, OfferAnswers, Opened, Terminals
<1>2. term'[t] = [term[t] EXCEPT !.negotiated = TRUE] /\ term[t].pc = "open"
  BY <1>1 DEF OfferAnswers, TerminalInv, TypeOK
<1>3. ctl.at = "answering" /\ ctl'.at = "idle" /\ ctl'.target = 0 /\ ctl'.kind = "offer" /\ 0 \notin Opened
  BY <1>1 DEF OfferAnswers, Returns, TerminalInv, TypeOK, ControlKnows, Opened
<1>4. Handles(t) /\ PeerIsSeen(t)
  BY DEF TerminalInv
<1>5. /\ Handles(t)' /\ term'[t].id = term[t].id /\ term'[t].closing = term[t].closing
      /\ term'[t].snapshot = term[t].snapshot /\ term'[t].pc = "open"
  BY <1>2, <1>1, <1>4 DEF Handles, IsClosed, Gone, TerminalState
<1>6. PeerIsSeen(t)'
  BY <1>1, <1>2, <1>3, <1>4, <1>5 DEF PeerIsSeen
<1>7. Unopened' /\ \A u \in Opened \ {t} : term'[u] = term[u] /\ Handles(u)'
  BY <1>1, Untouched
<1>8. \A u \in Opened \ {t} : PeerIsSeen(u)'
  BY <1>1, <1>3, <1>7 DEF TerminalInv, PeerIsSeen
<1> QED
  BY <1>1, <1>3, <1>5, <1>6, <1>7, <1>8, ControlFrame DEF ControlKnows

\* A close signal occupies the control goroutine with its terminal.
LEMMA CloseArrivesInv == ASSUME TerminalInv, NEW i \in Ids \cup {NoId}, CloseArrives(i) PROVE TerminalInv'
<1>1. /\ i \in Ids /\ registry[i] \in Opened /\ term[registry[i]].id = i /\ TypeOK'
      /\ term' = [term EXCEPT ![registry[i]].wanted = TRUE]
      /\ UNCHANGED <<registry, made, quit>> /\ Opened' = Opened
  <2>1. i \in Ids /\ registry[i] \in Opened /\ TypeOK'
    BY ArrivesType DEF TerminalInv
  <2>2. registry[i] # 0
    BY <2>1 DEF Opened
  <2> QED
    BY <2>1, <2>2 DEF TerminalInv, RegistryLeadsToOwn, CloseArrives, Opened
<1> SUFFICES ASSUME NEW t \in Opened, t = registry[i] PROVE TerminalInv'
  BY <1>1
<1>2. ctl.at = "idle" /\ ctl' = [at |-> "closing", kind |-> "close", id |-> i, target |-> t]
  BY <1>1 DEF CloseArrives, TakesEvent, Lookup
<1>3. /\ Unopened'
      /\ \A u \in Opened :
            /\ term'[u].id = term[u].id /\ term'[u].closing = term[u].closing
            /\ term'[u].pc = term[u].pc /\ term'[u].snapshot = term[u].snapshot
            /\ u = t \/ term'[u].wanted = term[u].wanted
            /\ Handles(u)'
  BY <1>1, WantedInv
<1>4. \A u \in Opened : PeerIsSeen(u)'
  BY <1>1, <1>2, <1>3 DEF TerminalInv, PeerIsSeen
<1>5. ControlKnows'
  BY <1>1, <1>2, <1>3 DEF ControlKnows
<1> QED
  BY <1>1, <1>3, <1>4, <1>5, ControlFrame

\* The control goroutine keeps the invariant.
LEMMA ControlInv == ASSUME TerminalInv, Control PROVE TerminalInv'
<1>1. CASE \E i \in Ids \cup {NoId} : Open(i) \/ OfferArrives(i) \/ CloseArrives(i)
  BY <1>1, OpenInv, OfferArrivesInv, CloseArrivesInv
<1>2. CASE OfferMakesPeer \/ OfferAnswers
  BY <1>2, OfferMakesPeerInv, OfferAnswersInv
<1>3. CASE \E i \in Ids \cup {NoId} : ServiceCloses(i) \/ \E k \in SignalKinds \cup {"terminal.open"} : NothingToDo(k, i)
  BY <1>3, NothingToDoInv DEF ServiceCloses, NothingToDo, TakesEvent
<1>4. CASE OfferFails
  <2>1. ctl.kind # "close"
    BY <1>4 DEF OfferFails, TerminalInv, ControlKnows
  <2> QED
    BY <1>4, <2>1, NothingToDoInv DEF OfferFails, Returns, TerminalInv, TypeOK
<1>5. CASE CloseReturns
  <2>1. ctl.target \in Opened /\ term[ctl.target].id \in Ids
    BY <1>5, TerminalAssumption DEF CloseReturns, TerminalInv, TypeOK, TerminalState, Opened, Terminals
  <2>2. registry[ctl.id] # ctl.target /\ ctl.id \in Ids
    BY <1>5, <2>1 DEF CloseReturns, TerminalInv, ControlKnows, RegistryIsExact
  <2>3. Lookup(ctl.id) = 0
    BY <1>5, <2>2 DEF CloseReturns, TerminalInv, ControlKnows, Lookup
  <2> QED
    BY <1>5, <2>3, NothingToDoInv DEF CloseReturns, Returns, TerminalInv, TypeOK
<1> QED
  BY <1>1, <1>2, <1>3, <1>4, <1>5 DEF Control

\* The empty manager satisfies the invariant.
LEMMA TerminalInit == Init => TerminalInv
<1> SUFFICES ASSUME Init PROVE TerminalInv
  OBVIOUS
<1>1. Opened = {}
  BY DEF Init, Opened
<1>2. TypeOK
  BY InitType
<1>3. Unopened
  BY DEF Init, Unopened
<1>4. RegistryLeadsToOwn /\ RegistryIsExact /\ ControlKnows
  BY <1>1 DEF Init, RegistryLeadsToOwn, RegistryIsExact, ControlKnows
<1> QED
  BY <1>1, <1>2, <1>3, <1>4 DEF TerminalInv

\* Every step keeps it.
LEMMA TerminalStep == TerminalInv /\ [Next]_vars => TerminalInv'
<1> SUFFICES ASSUME TerminalInv, [Next]_vars PROVE TerminalInv'
  OBVIOUS
<1>1. CASE UNCHANGED vars
  BY <1>1 DEF vars, TerminalInv, TypeOK, Opened, Unopened, RegistryLeadsToOwn, RegistryIsExact, Handles, PeerIsSeen,
       ControlKnows, IsClosed, Lookup
<1> QED
  BY <1>1, ControlInv, CallbackInv, ClosingInv, QuittingInv DEF Next

\* The registry, the handles and the control goroutine agree as TerminalInv says.
THEOREM TerminalInvariant == Spec => []TerminalInv
BY TerminalInit, TerminalStep, PTL DEF Spec

\* The manager stays well typed.
THEOREM Typing == Spec => []TypeOK
BY TerminalInvariant, PTL DEF TerminalInv

\* Whoever closes a terminal and whenever its id is used again, the map leads an
\* id to the one terminal that has it and is not deleted yet.
THEOREM RegistryExact == Spec => []RegistryIsExact
BY TerminalInvariant, PTL DEF TerminalInv

\* What close saw is closed, and it saw everything.
LEMMA SeenIsClosed == TerminalInv => ClosedHoldsNothing
BY DEF TerminalInv, Handles, PeerIsSeen, Gone, ClosedHoldsNothing

\* Once close has released the handles the terminal holds no PTY, no data channel
\* and, before the daemon shuts down, no peer connection: nothing appears behind
\* the snapshot that was taken under the mutex.
THEOREM NothingBehindTheSnapshot == Spec => []ClosedHoldsNothing
BY TerminalInvariant, SeenIsClosed, PTL

\* An id that leads nowhere has only terminals that have let go of everything.
LEMMA FreeIdIsGone == TerminalInv => CloseSignalIsDone
<1> SUFFICES ASSUME TerminalInv, ctl.at = "idle", ctl.kind = "close", NEW t \in Opened, term[t].id = ctl.id
             PROVE  term[t].pty # "open" /\ term[t].dc # "open"
  BY DEF CloseSignalIsDone, TerminalInv, ControlKnows
<1>1. term[t] \in TerminalState /\ term[t].id \in Ids
  BY TerminalAssumption DEF TerminalInv, TypeOK, TerminalState, Opened, Terminals
<1>2. registry[term[t].id] = 0 /\ t # 0
  BY <1>1 DEF TerminalInv, ControlKnows, Lookup, Opened
<1>3. term[t].closing \in Gone
  BY <1>1, <1>2 DEF TerminalInv, RegistryIsExact, TerminalState, Gone
<1> QED
  BY <1>3 DEF TerminalInv, Handles

\* When Signal returns from close, the id is free and no terminal that ever had
\* it holds anything, also when another goroutine did the closing.
THEOREM CloseSignalMeansGone == Spec => []CloseSignalIsDone
BY TerminalInvariant, FreeIdIsGone, PTL

----------------------------------------------------------------------------
(* The shutdown.                                                           *)

\* The terminal was there when CloseAll had not begun yet.
There(t) == t \in Opened /\ quit.at = "no"

\* Its id is free, or somebody else's, and it holds no shell and no channel.
LetGo(t) ==
    term[t].closing \in {"deleted", "reported"} /\ term[t].pty # "open" /\ term[t].dc # "open"

\* CloseAll has still to look for the terminal, still to close it, or need not.
Accounted(t) ==
    /\ t \in Opened
    /\ quit.at = "no" \/ t \in quit.doomed \/ term[t].closing \in {"deleted", "reported"}

\* No goroutine undoes a close.
LEMMA StaysDeleted ==
    ASSUME TerminalInv, [Next]_vars, NEW t \in Opened
    PROVE  /\ t \in Opened'
           /\ term[t].closing \in {"deleted", "reported"} => term'[t].closing \in {"deleted", "reported"}
<1> DEFINE Deleted == term[t].closing \in {"deleted", "reported"}
           Stays == t \in Opened' /\ (Deleted => term'[t].closing \in {"deleted", "reported"})
<1> SUFFICES Stays
  OBVIOUS
<1>1. /\ term \in [Terminals -> TerminalState] /\ made \in Nat /\ TypeOK
      /\ t \in Terminals /\ term[t] \in TerminalState
  BY TerminalAssumption DEF TerminalInv, TypeOK, Opened, Terminals
<1>2. UNCHANGED made /\ term'[t] = term[t] => Stays
  BY DEF Opened
<1>3. ASSUME UNCHANGED made, term' = [term EXCEPT ![t] = term'[t]], term'[t].closing = term[t].closing
      PROVE  Stays
  BY <1>3 DEF Opened
<1>4. ASSUME NEW r \in TerminalState, NEW b, NEW h
      PROVE  /\ [r EXCEPT !.wanted = b].closing = r.closing
             /\ [r EXCEPT !.pc = h].closing = r.closing
             /\ [r EXCEPT !.negotiated = b].closing = r.closing
  BY DEF TerminalState
<1>5. CASE Control
  <2>1. CASE \E i \in Ids \cup {NoId} : Open(i)
    <3>1. PICK i \in Ids \cup {NoId} : Open(i)
      BY <2>1
    <3>2. made' = made + 1 /\ Touches(made')
      BY <1>1, <3>1, OpenType DEF Open
    <3>3. t # made' /\ t \in Opened'
      BY <1>1, <3>2 DEF Opened
    <3>4. term'[t] = term[t]
      BY <1>1, <3>2, <3>3 DEF Touches
    <3> QED
      BY <3>3, <3>4
  <2>2. CASE \E i \in Ids \cup {NoId} : CloseArrives(i)
    <3>1. PICK i \in Ids \cup {NoId} : CloseArrives(i)
      BY <2>2
    <3>2. UNCHANGED made /\ term' = [term EXCEPT ![registry[i]].wanted = TRUE]
      BY <3>1 DEF CloseArrives
    <3>3. term'[t] = term[t] \/ term'[t] = [term[t] EXCEPT !.wanted = TRUE]
      BY <1>1, <3>2
    <3> QED
      BY <1>1, <1>4, <3>2, <3>3 DEF Opened
  <2>3. CASE OfferMakesPeer
    <3>1. UNCHANGED made /\ \E h : term' = [term EXCEPT ![ctl.target].pc = h]
      BY <2>3 DEF OfferMakesPeer
    <3>2. term'[t] = term[t] \/ \E h : term'[t] = [term[t] EXCEPT !.pc = h]
      BY <1>1, <3>1
    <3> QED
      BY <1>1, <1>4, <3>1, <3>2 DEF Opened
  <2>4. CASE OfferAnswers
    <3>1. UNCHANGED made /\ term' = [term EXCEPT ![ctl.target].negotiated = TRUE]
      BY <2>4 DEF OfferAnswers
    <3>2. term'[t] = term[t] \/ term'[t] = [term[t] EXCEPT !.negotiated = TRUE]
      BY <1>1, <3>1
    <3> QED
      BY <1>1, <1>4, <3>1, <3>2 DEF Opened
  <2>5. CASE UNCHANGED <<made, term>>
    BY <1>2, <2>5
  <2> QED
    BY <1>5, <2>1, <2>2, <2>3, <2>4, <2>5
    DEF Control, ServiceCloses, OfferArrives, NothingToDo, OfferFails, CloseReturns
<1>6. ASSUME NEW u \in Opened, Callback(u) PROVE Stays
  <2>1. UNCHANGED made /\ Touches(u) /\ term[u] \in TerminalState
    BY <1>1, <1>6, CallbackStep DEF Callback, Alone
  <2>2. CASE u # t
    BY <1>1, <1>2, <2>1, <2>2 DEF Touches
  <2>3. CASE u = t
    <3>1. term'[t].closing = term[t].closing
      BY <1>1, <1>6, <2>3, CallbackType
    <3> QED
      BY <1>3, <2>1, <2>3, <3>1 DEF Touches
  <2> QED
    BY <2>2, <2>3
<1>7. ASSUME NEW u \in Opened, Closing(u) PROVE Stays
  <2>1. UNCHANGED made /\ Touches(u) /\ term[u] \in TerminalState
    BY <1>1, <1>7, ClosingStep DEF Closing
  <2>2. CASE u # t
    BY <1>1, <1>2, <2>1, <2>2 DEF Touches
  <2>3. CASE u = t /\ Deleted
    <3>1. term'[t] = [term[t] EXCEPT !.closing = "deleted"] \/ term'[t] = [term[t] EXCEPT !.closing = "reported"]
      BY <1>1, <1>7, <2>3, ClosingStep
    <3>2. term'[t].closing \in {"deleted", "reported"}
      BY <1>1, <3>1 DEF TerminalState
    <3> QED
      BY <2>1, <3>2 DEF Opened
  <2> QED
    BY <2>1, <2>2, <2>3 DEF Opened
<1>8. CASE Quitting
  <2>1. UNCHANGED made
    BY <1>8 DEF Quitting, CloseAllGoesOn
  <2>2. UNCHANGED term \/ \E u \in Opened : term' = [term EXCEPT ![u].wanted = TRUE]
    BY <1>8 DEF Quitting, CloseAllGoesOn, CloseAllPicks, CloseAllPasses, CloseAllEnds, CloseAll
  <2>3. term'[t] = term[t] \/ term'[t] = [term[t] EXCEPT !.wanted = TRUE]
    BY <1>1, <2>2
  <2>4. CASE term'[t] = [term[t] EXCEPT !.wanted = TRUE]
    <3>1. term'[t].closing = term[t].closing
      BY <1>1, <1>4, <2>4
    <3> QED
      BY <2>1, <3>1 DEF Opened
  <2> QED
    BY <1>2, <2>1, <2>3, <2>4
<1>9. CASE UNCHANGED vars
  BY <1>2, <1>9 DEF vars
<1> QED
  BY <1>5, <1>6, <1>7, <1>8, <1>9 DEF Next

\* CloseAll finds in the map every terminal that is not deleted, and drops
\* one from its list only when it is reported.
LEMMA AccountedStep ==
    ASSUME TerminalInv, [Next]_vars, NEW t, Accounted(t)
    PROVE  Accounted(t)'
<1>1. /\ t \in Opened /\ t \in Opened' /\ t \in Nat \ {0}
      /\ term[t].closing \in {"deleted", "reported"} => term'[t].closing \in {"deleted", "reported"}
  BY StaysDeleted DEF Accounted, Opened
<1>2. CASE UNCHANGED quit
  BY <1>1, <1>2 DEF Accounted
<1>3. CASE quit.current # 0 /\ CloseAllPasses
  <2>1. term[quit.current].closing = "reported" /\ quit.at = "closing"
    BY <1>3 DEF CloseAllPasses, TerminalInv, TypeOK
  <2>2. quit'.doomed = quit.doomed \ {quit.current}
    BY <1>3 DEF CloseAllPasses, TerminalInv, TypeOK
  <2> QED
    BY <1>1, <2>1, <2>2 DEF Accounted
<1>4. CASE CloseAllEnds \/ \E u \in Opened : CloseAllPicks(u)
  <2>1. quit.at # "no" /\ quit'.doomed = quit.doomed
    BY <1>4 DEF CloseAllEnds, CloseAllPicks, TerminalInv, TypeOK
  <2> QED
    BY <1>1, <2>1 DEF Accounted
<1>5. CASE CloseAll
  <2>1. quit'.doomed = {registry[i] : i \in Ids} \ {0} /\ UNCHANGED term
    BY <1>5 DEF CloseAll, TerminalInv, TypeOK
  <2>2. CASE term[t].closing \in {"open", "begun", "released"}
    <3>1. term[t].id \in Ids /\ registry[term[t].id] = t
      BY <1>1, <2>2, TerminalAssumption DEF TerminalInv, TypeOK, TerminalState, RegistryIsExact, Opened, Terminals
    <3> QED
      BY <1>1, <2>1, <3>1 DEF Accounted
  <2>3. term[t].closing \in {"open", "begun", "released", "deleted", "reported"}
    BY <1>1, TerminalAssumption DEF TerminalInv, TypeOK, TerminalState, Opened, Terminals
  <2> QED
    BY <1>1, <2>1, <2>2, <2>3 DEF Accounted
<1>6. CASE Control
  BY <1>2, <1>6 DEF Control, Open, ServiceCloses, OfferArrives, CloseArrives, NothingToDo, OfferMakesPeer,
                    OfferAnswers, OfferFails, CloseReturns
<1>7. CASE \E u \in Opened : Callback(u) \/ Closing(u)
  BY <1>2, <1>7 DEF Callback, Alone, Closing
<1>8. CASE UNCHANGED vars
  BY <1>2, <1>8 DEF vars
<1> QED
  BY <1>3, <1>4, <1>5, <1>6, <1>7, <1>8 DEF Next, Quitting, CloseAllGoesOn, CloseAllPasses

\* CloseAll misses no terminal: of those that were opened before it began, none
\* is left with a shell, a data channel or its id when it returns, whatever the
\* other goroutines close, open or reopen while it goes from one to the next.
THEOREM CloseAllMissesNone ==
    ASSUME NEW t
    PROVE  Spec => [](There(t) => [](quit.at = "done" => LetGo(t)))
<1>1. There(t) => Accounted(t)
  BY DEF There, Accounted
<1>2. TerminalInv /\ Accounted(t) /\ [Next]_vars => Accounted(t)'
  BY AccountedStep
<1>3. TerminalInv /\ Accounted(t) => (quit.at = "done" => LetGo(t))
  BY DEF TerminalInv, TypeOK, Handles, Gone, Accounted, LetGo
<1> QED
  BY <1>1, <1>2, <1>3, TerminalInvariant, PTL DEF Spec

----------------------------------------------------------------------------
(* The recovery deadline.                                                  *)

\* What a step does not touch, and what it does not matter for.
LEMMA DeadlineKept ==
    ASSUME NEW t, Deadline(t), IsClosed(t) => IsClosed(t)',
           term'[t].peer = term[t].peer, term'[t].notes = term[t].notes, term'[t].recovery = term[t].recovery
    PROVE  Deadline(t)'
BY DEF Deadline, LastNote, IsClosed

\* Handling a notification keeps the timer in step with the peer connection: when
\* it was the last one, it told of the state the connection is in.
LEMMA DeadlineNotified ==
    ASSUME TypeOK, NEW t \in Terminals, Deadline(t),
           NEW n \in DOMAIN term[t].notes, InOrder => n = 1,
           term'[t] = [term[t] EXCEPT !.notes = RemoveAt(@, n),
                                      !.recovery = NextRecovery(t, term[t].notes[n]),
                                      !.wanted = @ \/ term[t].notes[n] = "closed"]
    PROVE  Deadline(t)'
<1> DEFINE state == term[t].notes[n]
           left == RemoveAt(term[t].notes, n)
           next == NextRecovery(t, state)
<1>1. term[t] \in TerminalState /\ term[t].notes \in Seq(PeerStates) /\ term[t].notes # <<>>
  BY DEF TypeOK, TerminalState
<1>2. /\ state \in PeerStates
      /\ n = 1 => IF Len(term[t].notes) = 1 THEN left = <<>>
                  ELSE left # <<>> /\ left[Len(left)] = LastNote(t)
      /\ Len(term[t].notes) = 1 /\ n = 1 => state = LastNote(t)
  BY <1>1, NoteRemoved DEF LastNote
<1>3. next = IF state \in Away /\ term[t].recovery = "nil" /\ ~IsClosed(t) THEN "armed"
             ELSE IF state = "connected" THEN "nil" ELSE term[t].recovery
  BY DEF NextRecovery, Away
<1> HIDE DEF state, left, next
<1>4. term'[t] = [term[t] EXCEPT !.notes = left, !.recovery = next, !.wanted = @ \/ state = "closed"]
  BY DEF state, left, next
<1>5. /\ term'[t].notes = left /\ term'[t].recovery = next /\ term'[t].peer = term[t].peer
      /\ IsClosed(t)' <=> IsClosed(t)
  BY <1>1, <1>4 DEF TerminalState, IsClosed
<1>6. term[t].peer # "new" /\ (InOrder => n = 1 /\ LastNote(t) = term[t].peer)
  BY <1>1 DEF Deadline
<1>7. term'[t].recovery = "stopped" => IsClosed(t)'
  BY <1>3, <1>5 DEF Deadline
<1>8. InOrder /\ left # <<>> => LastNote(t)' = term[t].peer
  BY <1>2, <1>5, <1>6 DEF LastNote
<1>9. ASSUME InOrder, ~IsClosed(t), left = <<>>, term[t].peer # "closed"
      PROVE  term[t].peer \in Away <=> next \in {"armed", "fired"}
  <2>1. state = term[t].peer /\ state \in {"connected", "disconnected", "failed"}
    BY <1>2, <1>6, <1>9 DEF PeerStates
  <2>2. term[t].recovery \in {"nil", "armed", "fired"}
    BY <1>1, <1>9 DEF Deadline, TerminalState
  <2> QED
    BY <1>3, <1>9, <2>1, <2>2 DEF Away
<1> QED
  BY <1>5, <1>6, <1>7, <1>8, <1>9 DEF Deadline

\* A callback keeps the deadlines.
LEMMA DeadlineCallback ==
    ASSUME TypeOK, DeadlineInv, NEW t \in Opened, Callback(t)
    PROVE  DeadlineInv'
<1>1. t \in Terminals /\ term[t] \in TerminalState /\ Touches(t) /\ Deadline(t)
  BY CallbackStep DEF DeadlineInv
<1>2. Deadline(t)'
  <2>1. ASSUME \/ term'[t] = [term[t] EXCEPT !.dc = "open", !.opening = "due"]
               \/ term'[t] = [term[t] EXCEPT !.pty = "open", !.opening = "announcing"]
               \/ term'[t] = [term[t] EXCEPT !.opening = "done", !.wanted = TRUE]
               \/ term'[t] = [term[t] EXCEPT !.opening = "done"]
               \/ term'[t] = [term[t] EXCEPT !.wanted = TRUE]
        PROVE  Deadline(t)'
    <3>1. /\ term'[t].peer = term[t].peer /\ term'[t].notes = term[t].notes
          /\ term'[t].recovery = term[t].recovery /\ term'[t].closing = term[t].closing
      BY <1>1, <2>1 DEF TerminalState
    <3> QED
      BY <1>1, <3>1, DeadlineKept DEF IsClosed
  <2>2. CASE term[t].recovery = "armed" /\ term'[t] = [term[t] EXCEPT !.recovery = "fired", !.wanted = TRUE]
    BY <1>1, <2>2 DEF Deadline, LastNote, IsClosed, TerminalState
  <2>3. ASSUME NEW state \in PeerStates \ {"new"},
               term'[t] = [term[t] EXCEPT !.changes = @ + 1, !.peer = state, !.notes = Append(@, state)]
        PROVE  Deadline(t)'
    <3> DEFINE notes == Append(term[t].notes, state)
    <3>1. notes # <<>> /\ notes[Len(notes)] = state
      BY <1>1, NotesAdded DEF TerminalState
    <3> HIDE DEF notes
    <3>2. term'[t] = [term[t] EXCEPT !.changes = @ + 1, !.peer = state, !.notes = notes]
      BY <2>3 DEF notes
    <3>3. /\ term'[t].notes = notes /\ term'[t].peer = state /\ term'[t].recovery = term[t].recovery
          /\ IsClosed(t)' <=> IsClosed(t)
      BY <1>1, <3>2 DEF TerminalState, IsClosed
    <3> QED
      BY <1>1, <3>1, <3>3 DEF Deadline, LastNote
  <2>4. ASSUME NEW n \in DOMAIN term[t].notes, InOrder => n = 1,
               term'[t] = [term[t] EXCEPT !.notes = RemoveAt(@, n),
                                          !.recovery = NextRecovery(t, term[t].notes[n]),
                                          !.wanted = @ \/ term[t].notes[n] = "closed"]
        PROVE  Deadline(t)'
    BY <1>1, <2>4, DeadlineNotified
  <2> QED
    BY <2>1, <2>2, <2>3, <2>4, CallbackStep
<1>3. \A u \in Terminals \ {t} : term'[u] = term[u]
  BY <1>1 DEF Touches, TypeOK
<1> QED
  BY <1>2, <1>3 DEF DeadlineInv, Deadline, LastNote, IsClosed

\* close stops a timer for good: the terminal is closed when it does.
LEMMA DeadlineClosing ==
    ASSUME TypeOK, DeadlineInv, NEW t \in Opened, Closing(t)
    PROVE  DeadlineInv'
<1>1. t \in Terminals /\ term[t] \in TerminalState /\ Touches(t) /\ Deadline(t)
  BY ClosingStep DEF DeadlineInv
<1>2. /\ term'[t].peer = term[t].peer /\ term'[t].notes = term[t].notes /\ IsClosed(t)'
      /\ term'[t].recovery \in {term[t].recovery, "stopped"}
  BY ClosingStep
<1>3. \A u \in Terminals \ {t} : term'[u] = term[u]
  BY <1>1 DEF Touches, TypeOK
<1> QED
  BY <1>1, <1>2, <1>3 DEF DeadlineInv, Deadline, LastNote, IsClosed

\* Nobody else touches the timers.
LEMMA DeadlineStep == TypeOK /\ DeadlineInv /\ [Next]_vars => DeadlineInv'
<1> SUFFICES ASSUME TypeOK, DeadlineInv, [Next]_vars PROVE DeadlineInv'
  OBVIOUS
<1>1. ASSUME \A t \in Terminals : /\ term'[t].peer = term[t].peer /\ term'[t].notes = term[t].notes
                                  /\ term'[t].recovery = term[t].recovery
                                  /\ term'[t].closing = term[t].closing
      PROVE  DeadlineInv'
  BY <1>1, DeadlineKept DEF DeadlineInv, IsClosed
<1>2. CASE UNCHANGED vars
  BY <1>1, <1>2 DEF vars
<1>3. ASSUME NEW t \in Terminals, Touches(t),
             \/ \E i \in Ids : term'[t] = [term[t] EXCEPT !.id = i]
             \/ term'[t] = [term[t] EXCEPT !.pc = IF @ = "none" THEN "open" ELSE @]
             \/ term'[t] = [term[t] EXCEPT !.negotiated = TRUE]
             \/ term'[t] = [term[t] EXCEPT !.wanted = TRUE]
      PROVE  DeadlineInv'
  <2>1. term[t] \in TerminalState
    BY DEF TypeOK
  <2>2. /\ term'[t].peer = term[t].peer /\ term'[t].notes = term[t].notes
        /\ term'[t].recovery = term[t].recovery /\ term'[t].closing = term[t].closing
    BY <1>3, <2>1 DEF TerminalState
  <2>3. \A u \in Terminals \ {t} : term'[u] = term[u]
    BY <1>3 DEF Touches, TypeOK
  <2> QED
    BY <1>1, <2>2, <2>3
<1>4. CASE Control
  <2>1. ASSUME NEW i \in Ids \cup {NoId}, Open(i)
        PROVE  DeadlineInv'
    <3>1. i \in Ids /\ made' \in Terminals /\ Touches(made')
      BY <2>1, OpenType
    <3>2. term'[made'] = [term[made'] EXCEPT !.id = i]
      BY <2>1, <3>1 DEF Open, TypeOK
    <3> QED
      BY <1>3, <3>1, <3>2
  <2>2. CASE OfferMakesPeer \/ OfferAnswers
    <3>1. ctl.target \in Terminals /\ Touches(ctl.target)
      BY <2>2, OfferType, TerminalAssumption DEF OfferMakesPeer, OfferAnswers, TypeOK, Opened, Terminals
    <3>2. \/ term'[ctl.target] = [term[ctl.target] EXCEPT !.pc = IF @ = "none" THEN "open" ELSE @]
          \/ term'[ctl.target] = [term[ctl.target] EXCEPT !.negotiated = TRUE]
      BY <2>2, <3>1 DEF OfferMakesPeer, OfferAnswers, TypeOK
    <3> QED
      BY <1>3, <3>1, <3>2
  <2>3. ASSUME NEW i \in Ids \cup {NoId}, CloseArrives(i)
        PROVE  DeadlineInv'
    <3>1. registry[i] \in Opened /\ registry[i] \in Terminals
      BY <2>3, ArrivesType, TerminalAssumption DEF TypeOK, Opened, Terminals
    <3>2. Touches(registry[i]) /\ term'[registry[i]] = [term[registry[i]] EXCEPT !.wanted = TRUE]
      BY <2>3, <3>1, WantedType DEF CloseArrives, TypeOK
    <3> QED
      BY <1>3, <3>1, <3>2
  <2>4. CASE UNCHANGED term
    BY <1>1, <2>4
  <2> QED
    BY <1>4, <2>1, <2>2, <2>3, <2>4 DEF Control, NothingToDo, ServiceCloses, OfferArrives, OfferFails, CloseReturns
<1>5. CASE Quitting
  <2>1. ASSUME NEW t \in Opened, CloseAllPicks(t)
        PROVE  DeadlineInv'
    <3>1. t \in Terminals
      BY TerminalAssumption DEF TypeOK, Opened, Terminals
    <3>2. Touches(t) /\ term'[t] = [term[t] EXCEPT !.wanted = TRUE]
      BY <2>1, <3>1, WantedType DEF CloseAllPicks, TypeOK
    <3> QED
      BY <1>3, <3>1, <3>2
  <2>2. CASE UNCHANGED term
    BY <1>1, <2>2
  <2> QED
    BY <1>5, <2>1, <2>2 DEF Quitting, CloseAllGoesOn, CloseAllPasses, CloseAllEnds, CloseAll
<1> QED
  BY <1>2, <1>3, <1>4, <1>5, DeadlineCallback, DeadlineClosing DEF Next

\* With notifications handled in order, a terminal that is not closed has a
\* recovery deadline exactly while its peer connection is away.
THEOREM DeadlineAgrees == Spec => []DeadlineFollowsPeer
<1>1. Init => DeadlineInv
  BY DEF Init, New, DeadlineInv, Deadline, Away
<1>2. TypeOK /\ DeadlineInv => DeadlineFollowsPeer
  BY TerminalAssumption DEF TypeOK, Opened, Terminals, DeadlineInv, Deadline, DeadlineFollowsPeer
<1> QED
  BY <1>1, <1>2, DeadlineStep, Typing, PTL DEF Spec

----------------------------------------------------------------------------
(* The lease.                                                              *)

\* The mapping to TerminalLease.
Holders == {t \in Opened : term[t].pty = "open"}
Spenders == {t \in Opened : term[t].pty # "none"}

\* A step that starts and ends no shell, and gives out and frees no id.
LEMMA LeaseKept ==
    ASSUME UNCHANGED <<registry, made>>, \A t \in Opened : term'[t].pty = term[t].pty
    PROVE  UNCHANGED LeaseOfIds!leaseVars
<1>1. Opened' = Opened
  BY DEF Opened
<1> QED
  BY <1>1 DEF LeaseOfIds!leaseVars

\* Open leases a free id to the next terminal.
LEMMA OpenLeases ==
    ASSUME TerminalInv, NEW i \in Ids \cup {NoId}, Open(i)
    PROVE  LeaseOfIds!Next
<1>1. i \in Ids /\ made' \in Terminals /\ Touches(made') /\ TypeOK
  BY OpenType DEF TerminalInv
<1>2. /\ registry[i] = 0 /\ made < MaxTerminals /\ made' = made + 1 /\ made \in Nat
      /\ registry' = [registry EXCEPT ![i] = made']
      /\ term' = [term EXCEPT ![made'].id = i]
  BY <1>1 DEF Open, Lookup, TypeOK
<1>3. made' \notin Opened /\ Opened' = Opened \cup {made'} /\ Opened \subseteq Terminals
  BY <1>2, TerminalAssumption DEF Opened, Terminals
<1>4. term'[made'].pty = "none" /\ \A t \in Opened : term'[t] = term[t]
  <2>1. term[made'] = New
    BY <1>1, <1>3 DEF TerminalInv, Unopened
  <2> QED
    BY <1>1, <1>2, <1>3, <2>1 DEF TypeOK, New
<1>5. Holders' = Holders /\ Spenders' = Spenders
  BY <1>3, <1>4 DEF Holders, Spenders
<1>6. LeaseOfIds!Lease(i)
  BY <1>2, <1>5 DEF LeaseOfIds!Lease, Holders, Spenders
<1> QED
  BY <1>1, <1>6 DEF LeaseOfIds!Next

\* A shell is started by the terminal that has its id, for the first time.
LEMMA CallbackLeases ==
    ASSUME TerminalInv, NEW t \in Opened, Callback(t)
    PROVE  [LeaseOfIds!Next]_LeaseOfIds!leaseVars
<1>1. /\ t \in Terminals /\ term[t] \in TerminalState /\ term[t].id \in Ids /\ Touches(t) /\ TypeOK
      /\ UNCHANGED <<registry, made>> /\ Opened' = Opened
  BY CallbackStep, TerminalAssumption DEF TerminalInv, TypeOK, TerminalState, Callback, Alone, Opened, Terminals
<1>2. \A u \in Opened \ {t} : term'[u] = term[u]
  BY <1>1, Untouched, CallbackType DEF TerminalInv
<1>3. CASE term[t].pty = "none" /\ ~IsClosed(t) /\ term'[t].pty = "open"
  <2>1. registry[term[t].id] = t /\ t # 0
    BY <1>3 DEF TerminalInv, RegistryIsExact, IsClosed, Opened
  <2>2. t \notin Spenders /\ Holders' = Holders \cup {t} /\ Spenders' = Spenders \cup {t}
    BY <1>1, <1>2, <1>3 DEF Holders, Spenders
  <2>3. PICK i \in Ids : i = term[t].id
    BY <1>1
  <2>4. LeaseOfIds!Hold(i)
    BY <1>1, <2>1, <2>2, <2>3 DEF LeaseOfIds!Hold, Holders, Spenders
  <2> QED
    BY <2>4 DEF LeaseOfIds!Next
<1>4. CASE term'[t].pty = term[t].pty
  BY <1>1, <1>2, <1>4, LeaseKept
<1>5. \/ term[t].pty = "none" /\ ~IsClosed(t) /\ term'[t].pty = "open"
      \/ term'[t].pty = term[t].pty
  <2>1. CASE term'[t] = [term[t] EXCEPT !.dc = "open", !.opening = "due"]
    BY <1>1, <2>1 DEF TerminalState
  <2>2. CASE ~IsClosed(t) /\ term[t].pty = "none" /\ term'[t] = [term[t] EXCEPT !.pty = "open", !.opening = "announcing"]
    BY <1>1, <2>2 DEF TerminalState
  <2>3. CASE term'[t] = [term[t] EXCEPT !.opening = "done", !.wanted = TRUE]
    BY <1>1, <2>3 DEF TerminalState
  <2>4. CASE term'[t] = [term[t] EXCEPT !.opening = "done"]
    BY <1>1, <2>4 DEF TerminalState
  <2>5. CASE term'[t] = [term[t] EXCEPT !.wanted = TRUE]
    BY <1>1, <2>5 DEF TerminalState
  <2>6. CASE term'[t] = [term[t] EXCEPT !.recovery = "fired", !.wanted = TRUE]
    BY <1>1, <2>6 DEF TerminalState
  <2>7. CASE \E state \in PeerStates :
               term'[t] = [term[t] EXCEPT !.changes = @ + 1, !.peer = state, !.notes = Append(@, state)]
    BY <1>1, <2>7 DEF TerminalState
  <2>8. CASE \E n \in 1..MaxChanges :
               term'[t] = [term[t] EXCEPT !.notes = RemoveAt(@, n),
                                          !.recovery = NextRecovery(t, term[t].notes[n]),
                                          !.wanted = @ \/ term[t].notes[n] = "closed"]
    BY <1>1, <2>8 DEF TerminalState
  <2> QED
    BY <1>1, <2>1, <2>2, <2>3, <2>4, <2>5, <2>6, <2>7, <2>8, CallbackStep
<1> QED
  BY <1>3, <1>4, <1>5

\* close lets the shell go, and then frees the id.
LEMMA ClosingLeases ==
    ASSUME TerminalInv, NEW t \in Opened, Closing(t)
    PROVE  [LeaseOfIds!Next]_LeaseOfIds!leaseVars
<1>1. /\ t \in Terminals /\ term[t] \in TerminalState /\ term[t].id \in Ids /\ Touches(t) /\ TypeOK /\ Handles(t)
      /\ UNCHANGED made /\ Opened' = Opened /\ t # 0
  <2>1. TypeOK /\ Handles(t)
    BY DEF TerminalInv
  <2>2. UNCHANGED made /\ Opened' = Opened /\ t # 0
    BY DEF Closing, Opened
  <2> QED
    BY <2>1, <2>2, ClosingStep
<1>2. \A u \in Opened \ {t} : term'[u] = term[u]
  BY <1>1, Untouched, ClosingType DEF TerminalInv
<1>3. CASE UNCHANGED registry /\ term'[t].pty = term[t].pty
  BY <1>1, <1>2, <1>3, LeaseKept
<1>4. CASE UNCHANGED registry /\ term[t].pty = "open" /\ term'[t].pty = "closed"
  <2>1. t \in Holders /\ Holders' = Holders \ {t} /\ Spenders' = Spenders
    BY <1>1, <1>2, <1>4 DEF Holders, Spenders
  <2>2. LeaseOfIds!LetGo(t)
    BY <1>1, <1>4, <2>1 DEF LeaseOfIds!LetGo, Holders, Spenders
  <2>3. LeaseOfIds!Next
    BY <2>1, <2>2 DEF LeaseOfIds!Next, Holders
  <2> QED
    BY <2>3
<1>5. CASE /\ term[t].closing = "released"
           /\ term'[t] = [term[t] EXCEPT !.closing = "deleted"]
           /\ registry' = [registry EXCEPT ![term[t].id] = 0]
  <2>1. registry[term[t].id] = t
    BY <1>5 DEF TerminalInv, RegistryIsExact
  <2>2. term'[t].pty = term[t].pty
    BY <1>1, <1>5 DEF TerminalState
  <2>3. t \notin Holders /\ Holders' = Holders /\ Spenders' = Spenders
    <3>1. term[t].pty # "open"
      BY <1>1, <1>5 DEF Handles, Gone
    <3>2. \A u \in Opened : term'[u].pty = term[u].pty
      BY <1>2, <2>2
    <3>3. Holders' = Holders /\ Spenders' = Spenders
      BY <1>1, <3>2 DEF Holders, Spenders
    <3> QED
      BY <3>1, <3>3 DEF Holders
  <2>4. LeaseOfIds!Free(term[t].id)
    BY <1>1, <1>5, <2>1, <2>3 DEF LeaseOfIds!Free, Holders, Spenders
  <2>5. LeaseOfIds!Next
    BY <1>1, <2>4 DEF LeaseOfIds!Next
  <2> QED
    BY <2>5
<1>6. CASE CloseBegins(t) \/ CloseReports(t)
  BY <1>1, <1>3, <1>6 DEF CloseBegins, CloseReports, TypeOK, TerminalState
<1>7. CASE CloseReleases(t)
  <2>1. term[t].pty \in {"none", "open", "closed"} /\ ("pty" \in term[t].snapshot <=> term[t].pty # "none")
    BY <1>1, <1>7 DEF CloseReleases, Handles, TerminalState
  <2>2. UNCHANGED registry /\ term'[t].pty = IF "pty" \in term[t].snapshot THEN "closed" ELSE term[t].pty
    BY <1>1, <1>7 DEF CloseReleases, TypeOK, TerminalState
  <2> QED
    BY <1>3, <1>4, <2>1, <2>2
<1>8. CASE CloseDeletes(t)
  BY <1>1, <1>5, <1>8 DEF CloseDeletes, TypeOK
<1> QED
  BY <1>6, <1>7, <1>8 DEF Closing

\* Every step is one of the lease, or none.
LEMMA LeaseStep == TerminalInv /\ [Next]_vars => [LeaseOfIds!Next]_LeaseOfIds!leaseVars
<1> SUFFICES ASSUME TerminalInv, [Next]_vars PROVE [LeaseOfIds!Next]_LeaseOfIds!leaseVars
  OBVIOUS
<1>1. TypeOK /\ Opened \subseteq Terminals
  BY TerminalAssumption DEF TerminalInv, TypeOK, Opened, Terminals
<1>2. CASE UNCHANGED vars
  BY <1>2, LeaseKept DEF vars
<1>3. CASE \E i \in Ids \cup {NoId} : Open(i)
  BY <1>3, OpenLeases
<1>4. CASE Quitting
  <2>1. CASE UNCHANGED <<registry, made, term>>
    BY <2>1, LeaseKept
  <2>2. ASSUME NEW t \in Opened, CloseAllPicks(t), UNCHANGED <<registry, made>>
        PROVE  UNCHANGED LeaseOfIds!leaseVars
    BY <1>1, <2>2, LeaseKept DEF CloseAllPicks, TypeOK, TerminalState
  <2> QED
    BY <1>4, <2>1, <2>2 DEF Quitting, CloseAllGoesOn, CloseAllPasses, CloseAllEnds, CloseAll
<1>5. CASE Control
  <2>1. CASE UNCHANGED <<registry, made, term>>
    BY <2>1, LeaseKept
  <2>2. ASSUME NEW i \in Ids \cup {NoId}, CloseArrives(i)
        PROVE  UNCHANGED LeaseOfIds!leaseVars
    BY <1>1, <2>2, LeaseKept DEF CloseArrives, TypeOK, TerminalState
  <2>3. CASE OfferMakesPeer \/ OfferAnswers
    <3>1. ASSUME NEW t \in Opened PROVE term'[t].pty = term[t].pty
      <4>1. term[t] \in TerminalState
        BY <1>1 DEF TypeOK
      <4>2. \/ term'[t] = term[t]
            \/ term'[t] = [term[t] EXCEPT !.pc = IF @ = "none" THEN "open" ELSE @]
            \/ term'[t] = [term[t] EXCEPT !.negotiated = TRUE]
        BY <1>1, <2>3, ZenonT(40) DEF OfferMakesPeer, OfferAnswers, TypeOK
      <4> QED
        BY <4>1, <4>2 DEF TerminalState
    <3>2. UNCHANGED <<registry, made>>
      BY <2>3 DEF OfferMakesPeer, OfferAnswers
    <3> QED
      BY <3>1, <3>2, LeaseKept
  <2> QED
    BY <1>3, <1>5, <2>1, <2>2, <2>3 DEF Control, NothingToDo, ServiceCloses, OfferArrives, OfferFails, CloseReturns
<1> QED
  BY <1>2, <1>4, <1>5, CallbackLeases, ClosingLeases DEF Next

\* The manager implements TerminalLease for any number of ids and terminals: an
\* id is free again only when the terminal that had it has let its shell go.
THEOREM ManagerImplementsLease == Spec => ImplementsLease
<1>1. Init => LeaseOfIds!Init
  BY DEF Init, Opened, LeaseOfIds!Init
<1> QED
  BY <1>1, LeaseStep, TerminalInvariant, PTL DEF Spec, ImplementsLease, LeaseOfIds!Spec
=============================================================================
