----------------------------- MODULE Signaling -----------------------------
(***************************************************************************)
(* The signalling of one terminal (offer, localCandidate and sendCandidate *)
(* in internal/terminal/terminal.go).  The control goroutine answers the   *)
(* offers of the browser one at a time; the ICE agent gathers local        *)
(* candidates as soon as the local description is set and hands them to a  *)
(* callback in its own goroutine.  Candidates gathered before the answer   *)
(* is out wait in localCandidates; answerSent, under the terminal's mutex, *)
(* says which.  Everything is sent by Manager.send, which fails while the  *)
(* control connection is down.                                             *)
(*                                                                         *)
(* Descriptions and candidates are numbers: the n-th candidate gathered    *)
(* for the g-th offer.                                                     *)
(***************************************************************************)
EXTENDS Naturals, Sequences

CONSTANTS
    MaxOffers,      \* bound: offers, restarts of ICE included
    MaxCandidates   \* bound: candidates gathered for an offer

ASSUME SignalingAssumption == MaxOffers \in Nat /\ MaxCandidates \in Nat

Offers == 1..MaxOffers
Candidate == [offer : Offers, n : 1..MaxCandidates]
NoCandidate == [offer |-> 0, n |-> 0]

VARIABLES
    step,            \* where offer is: idle, describing, answering, marking,
                     \*   flushing
    offers,          \* the offers that arrived
    described,       \* the latest whose answer became the local description
    answered,        \* the offers whose answer was sent
    answerSent,      \* session.answerSent
    localCandidates, \* session.localCandidates
    flush,           \* the copy of it that offer is sending
    gathered,        \* how many candidates were gathered for each offer
    hand,            \* the candidate the callback was given
    callback,        \* where the callback is: idle, checking, sending
    up,              \* Manager.send reaches the service
    wire,            \* what was sent
    lost             \* candidates whose send failed

controlVars == <<step, offers, answered, flush>>
callbackVars == <<gathered, hand, callback>>
vars == <<controlVars, described, answerSent, localCandidates, callbackVars, up, wire, lost>>

Init ==
    /\ step = "idle" /\ offers = 0 /\ described = 0 /\ answered = {}
    /\ answerSent = FALSE /\ localCandidates = <<>> /\ flush = <<>>
    /\ gathered = [g \in Offers |-> 0]
    /\ hand = NoCandidate /\ callback = "idle"
    /\ up = TRUE /\ wire = <<>> /\ lost = {}

----------------------------------------------------------------------------
(* offer.                                                                  *)

\* A new negotiation: candidates wait for its answer, and those that waited
\* for an answer that was never sent are dropped.
OfferArrives ==
    /\ step = "idle"
    /\ offers < MaxOffers
    /\ offers' = offers + 1
    /\ step' = "describing"
    /\ answerSent' = FALSE
    /\ localCandidates' = <<>>
    /\ UNCHANGED <<described, answered, flush, callbackVars, up, wire, lost>>

\* SetRemoteDescription, CreateAnswer, SetLocalDescription: the ICE agent
\* starts to gather.
Describe ==
    /\ step = "describing"
    /\ described' = offers
    /\ step' = "answering"
    /\ UNCHANGED <<offers, answered, answerSent, localCandidates, flush, callbackVars,
                   up, wire, lost>>

\* Any of the three fails, and offer returns.
DescribeFails ==
    /\ step = "describing"
    /\ step' = "idle"
    /\ UNCHANGED <<offers, described, answered, answerSent, localCandidates, flush,
                   callbackVars, up, wire, lost>>

SendAnswer ==
    /\ step = "answering"
    /\ up
    /\ wire' = Append(wire, [kind |-> "answer", offer |-> offers])
    /\ answered' = answered \cup {offers}
    /\ step' = "marking"
    /\ UNCHANGED <<offers, described, answerSent, localCandidates, flush, callbackVars,
                   up, lost>>

AnswerFails ==
    /\ step = "answering"
    /\ ~up
    /\ step' = "idle"
    /\ UNCHANGED <<offers, described, answered, answerSent, localCandidates, flush,
                   callbackVars, up, wire, lost>>

\* Mutant of MarkAnswered: what was copied stays in localCandidates.
MarkWithoutReset ==
    /\ step = "marking"
    /\ answerSent' = TRUE
    /\ flush' = localCandidates
    /\ step' = "flushing"
    /\ UNCHANGED <<offers, described, answered, localCandidates, callbackVars, up, wire, lost>>

\* Under the mutex: from here on the callback sends for itself.
MarkAnswered ==
    /\ step = "marking"
    /\ answerSent' = TRUE
    /\ flush' = localCandidates
    /\ localCandidates' = <<>>
    /\ step' = "flushing"
    /\ UNCHANGED <<offers, described, answered, callbackVars, up, wire, lost>>

\* sendCandidate; its error is ignored.
Send(c) ==
    IF up THEN wire' = Append(wire, [kind |-> "candidate", of |-> c]) /\ UNCHANGED lost
          ELSE lost' = lost \cup {c} /\ UNCHANGED wire

FlushOne ==
    /\ step = "flushing"
    /\ flush # <<>>
    /\ Send(Head(flush))
    /\ flush' = Tail(flush)
    /\ UNCHANGED <<step, offers, described, answered, answerSent, localCandidates,
                   callbackVars, up>>

FlushEnds ==
    /\ step = "flushing"
    /\ flush = <<>>
    /\ step' = "idle"
    /\ UNCHANGED <<offers, described, answered, answerSent, localCandidates, flush,
                   callbackVars, up, wire, lost>>

Control == \/ OfferArrives \/ Describe \/ DescribeFails \/ SendAnswer \/ AnswerFails
           \/ MarkAnswered \/ FlushOne \/ FlushEnds

----------------------------------------------------------------------------
(* The callback.                                                           *)

\* The ICE agent finds a candidate for the local description it has and
\* calls localCandidate, one candidate at a time. The nil at the end of the
\* gathering is ignored.
Gather ==
    /\ callback = "idle"
    /\ described # 0
    /\ gathered[described] < MaxCandidates
    /\ gathered' = [gathered EXCEPT ![described] = @ + 1]
    /\ hand' = [offer |-> described, n |-> gathered[described] + 1]
    /\ callback' = "checking"
    /\ UNCHANGED <<controlVars, described, answerSent, localCandidates, up, wire, lost>>

\* localCandidate under the mutex: before the answer the candidate waits.
Wait ==
    /\ callback = "checking"
    /\ ~answerSent
    /\ localCandidates' = Append(localCandidates, hand)
    /\ hand' = NoCandidate
    /\ callback' = "idle"
    /\ UNCHANGED <<controlVars, described, answerSent, gathered, up, wire, lost>>

\* Mutant of GoAhead: the flag is not looked at.
GoAheadUnchecked ==
    /\ callback = "checking"
    /\ callback' = "sending"
    /\ UNCHANGED <<controlVars, described, answerSent, localCandidates, gathered, hand,
                   up, wire, lost>>

GoAhead ==
    /\ callback = "checking"
    /\ answerSent
    /\ callback' = "sending"
    /\ UNCHANGED <<controlVars, described, answerSent, localCandidates, gathered, hand,
                   up, wire, lost>>

\* Outside the mutex: a new offer may have come in the meantime.
SendCandidate ==
    /\ callback = "sending"
    /\ Send(hand)
    /\ hand' = NoCandidate
    /\ callback' = "idle"
    /\ UNCHANGED <<controlVars, described, answerSent, localCandidates, gathered, up>>

LocalCandidate == Gather \/ Wait \/ GoAhead \/ SendCandidate

\* The control connection is lost, or made again.
ConnectionChanges ==
    /\ up' = ~up
    /\ UNCHANGED <<controlVars, described, answerSent, localCandidates, callbackVars, wire, lost>>

Next == Control \/ LocalCandidate \/ ConnectionChanges

Spec == Init /\ [][Next]_vars

\* The control goroutine and the callback run; nothing is assumed of the
\* browser, the ICE agent or the connection.
Fairness ==
    /\ WF_vars(Describe \/ DescribeFails \/ SendAnswer \/ AnswerFails \/ MarkAnswered
               \/ FlushOne \/ FlushEnds)
    /\ WF_vars(Wait \/ GoAhead \/ SendCandidate)

FairSpec == Spec /\ Fairness

----------------------------------------------------------------------------
(* Properties.                                                             *)

\* A candidate never overtakes the answer: before each candidate on the wire
\* comes the answer to its own offer, or to a later one when the connection
\* was down for its own. The browser can always place it.
AnswerPrecedesCandidates ==
    \A i \in DOMAIN wire :
        wire[i].kind = "candidate" =>
            \E j \in 1..(i - 1) :
                wire[j].kind = "answer" /\ wire[j].offer >= wire[i].of.offer

\* Where a candidate is.
Sent == {i \in DOMAIN wire : wire[i].kind = "candidate"}
PlacesOf(c) ==
    {<<"wire", i>> : i \in {j \in Sent : wire[j].of = c}}
    \cup {<<"waiting", i>> : i \in {j \in DOMAIN localCandidates : localCandidates[j] = c}}
    \cup {<<"flush", i>> : i \in {j \in DOMAIN flush : flush[j] = c}}
    \cup {<<"hand", 0>> : i \in {j \in {0} : hand = c}}
    \cup {<<"lost", 0>> : i \in {j \in {0} : c \in lost}}

\* A gathered candidate is in one place only: it is sent at most once, by the
\* callback or by the flush.
CandidatesAreSentOnce == \A c \in Candidate : \A p, q \in PlacesOf(c) : p = q

\* A candidate that waits is sent (or lost with the connection), unless the
\* negotiation it waits for comes to nothing.
WaitingEnds ==
    localCandidates # <<>> ~> localCandidates = <<>> \/ (step = "idle" /\ ~answerSent)
=============================================================================
