-------------------------- MODULE SignalingProofs --------------------------
(***************************************************************************)
(* Answers and candidates for every number of offers and of candidates.    *)
(*                                                                         *)
(* The order: a candidate is of an offer that arrived, so the answer to    *)
(* the latest offer covers whatever candidate is in hand when the flag is  *)
(* read or the waiting ones are copied (Cleared).  One place: a step moves *)
(* at most one candidate, or all that wait; each place after it comes from *)
(* one before it, no two from the same (Moved, SentFrom), and a candidate  *)
(* that is gathered was nowhere, for its number is beyond those gathered   *)
(* (Known).                                                                *)
(***************************************************************************)
EXTENDS Signaling, TLAPS, SequenceTheorems

\* What goes over the wire.
Messages == [kind : {"answer"}, offer : Offers] \cup [kind : {"candidate"}, of : Candidate]

\* The types, with the candidates' offers among those that arrived.
Types ==
    /\ step \in {"idle", "describing", "answering", "marking", "flushing"}
    /\ offers \in 0..MaxOffers /\ described \in 0..offers /\ (step # "idle" => offers # 0)
    /\ answerSent \in BOOLEAN /\ up \in BOOLEAN
    /\ localCandidates \in Seq(Candidate) /\ flush \in Seq(Candidate)
    /\ gathered \in [Offers -> 0..MaxCandidates]
    /\ callback \in {"idle", "checking", "sending"}
    /\ hand \in IF callback = "idle" THEN {NoCandidate} ELSE Candidate
    /\ wire \in Seq(Messages) /\ lost \subseteq Candidate

\* The offers of which an answer, or one to a later offer, is out.
Answered == {g \in Offers : \E j \in 1..Len(wire) : wire[j].kind = "answer" /\ wire[j].offer >= g}

\* A candidate that no longer waits, and is not sent yet, has its answer.
Cleared ==
    /\ step \in {"marking", "flushing"} \/ answerSent => offers \in Answered
    /\ \A n \in 1..Len(flush) : flush[n].offer \in Answered
    /\ callback = "sending" => hand.offer \in Answered
    /\ callback # "idle" => hand.offer <= offers
    /\ \A n \in 1..Len(localCandidates) : localCandidates[n].offer <= offers

\* Where a candidate is.
Places == {"wire", "waiting", "flush", "hand", "lost"} \X Nat
In(p, c) ==
    \/ p[1] = "wire" /\ p[2] \in 1..Len(wire) /\ wire[p[2]].kind = "candidate" /\ wire[p[2]].of = c
    \/ p[1] = "waiting" /\ p[2] \in 1..Len(localCandidates) /\ localCandidates[p[2]] = c
    \/ p[1] = "flush" /\ p[2] \in 1..Len(flush) /\ flush[p[2]] = c
    \/ p = <<"hand", 0>> /\ hand = c
    \/ p = <<"lost", 0>> /\ c \in lost

\* It is in one place, and its number is among those gathered.
OnePlace == \A c \in Candidate : \A p, q \in Places : In(p, c) /\ In(q, c) => p = q
Known == \A c \in Candidate : \A p \in Places : In(p, c) => c.n <= gathered[c.offer]
\* The copy is emptied before the next one is made.
Once == OnePlace /\ Known /\ (step # "flushing" => flush = <<>>)

SignalingInv == Types /\ AnswerPrecedesCandidates /\ Cleared /\ Once
----------------------------------------------------------------------------

\* What is appended comes last, the rest stays.
LEMMA Appended ==
    ASSUME NEW S, NEW seq \in Seq(S), NEW e \in S
    PROVE  /\ Append(seq, e) \in Seq(S) /\ Len(seq) \in Nat
           /\ Len(Append(seq, e)) = Len(seq) + 1 /\ Append(seq, e)[Len(seq) + 1] = e
           /\ \A n \in 1..Len(seq) : Append(seq, e)[n] = seq[n]
OBVIOUS

\* Without its head every element has moved up.
LEMMA Shortened ==
    ASSUME NEW S, NEW seq \in Seq(S), seq # <<>>
    PROVE  /\ Head(seq) \in S /\ Head(seq) = seq[1] /\ Len(seq) \in Nat \ {0}
           /\ Tail(seq) \in Seq(S) /\ Len(Tail(seq)) = Len(seq) - 1
           /\ \A n \in 1..Len(Tail(seq)) : Tail(seq)[n] = seq[n + 1]
<1>1. Len(seq) \in Nat \ {0}
  BY EmptySeq
<1> QED
  BY <1>1, HeadTailProperties

\* What Send does with a candidate.
LEMMA Sending ==
    ASSUME Types, NEW c \in Candidate, Send(c)
    PROVE  /\ wire' \in Seq(Messages) /\ lost' \subseteq Candidate
           /\ \/ lost' = lost /\ wire' = Append(wire, [kind |-> "candidate", of |-> c])
              \/ wire' = wire /\ lost' = lost \cup {c}
<1>1. [kind |-> "candidate", of |-> c] \in Messages
  BY DEF Messages
<1>2. CASE up
  <2>1. wire' = Append(wire, [kind |-> "candidate", of |-> c]) /\ lost' = lost
    BY <1>2 DEF Send
  <2> QED
    BY <1>1, <2>1, Appended DEF Types
<1>3. CASE ~up
  BY <1>3 DEF Send, Types
<1> QED
  BY <1>2, <1>3

\* At first nothing was offered, gathered or sent.
LEMMA TypesInit == Init => Types
<1> SUFFICES ASSUME Init PROVE Types
  OBVIOUS
<1>1. <<>> \in Seq(Candidate) /\ <<>> \in Seq(Messages)
  BY EmptySeq
<1>2. gathered \in [Offers -> 0..MaxCandidates]
  BY SignalingAssumption DEF Init
<1>3. step \in {"idle"} /\ offers \in 0..MaxOffers /\ described \in 0..offers
  BY SignalingAssumption DEF Init
<1>4. answerSent \in BOOLEAN /\ up \in BOOLEAN
  BY DEF Init
<1>5. /\ lost \subseteq Candidate /\ wire \in Seq(Messages)
      /\ localCandidates \in Seq(Candidate) /\ flush \in Seq(Candidate)
  BY <1>1 DEF Init
<1> QED
  BY <1>1, <1>2, <1>3, <1>4, <1>5 DEF Init, Types

\* Every step keeps the types.
LEMMA TypesStep == Types /\ [Next]_vars => Types'
<1> SUFFICES ASSUME Types, [Next]_vars PROVE Types'
  OBVIOUS
<1> USE SignalingAssumption
<1>1. CASE UNCHANGED vars
  BY <1>1 DEF vars, controlVars, callbackVars, Types
<1>2. CASE OfferArrives
  <2>1. localCandidates' \in Seq(Candidate)
    BY <1>2, EmptySeq DEF OfferArrives
  <2>2. offers' \in 0..MaxOffers /\ described' \in 0..offers' /\ offers' # 0
    BY <1>2 DEF OfferArrives, Types
  <2>3. answerSent' \in BOOLEAN
    BY <1>2 DEF OfferArrives
  <2> QED
    BY <1>2, <2>1, <2>2, <2>3 DEF OfferArrives, callbackVars, Types
<1>3. CASE Describe \/ DescribeFails \/ AnswerFails \/ FlushEnds
  BY <1>3 DEF Describe, DescribeFails, AnswerFails, FlushEnds, callbackVars, Types
<1>4. CASE SendAnswer
  <2>1. [kind |-> "answer", offer |-> offers] \in Messages
    BY <1>4 DEF SendAnswer, Types, Messages, Offers
  <2>2. wire' \in Seq(Messages)
    BY <1>4, <2>1, Appended DEF SendAnswer, Types
  <2> QED
    BY <1>4, <2>2 DEF SendAnswer, callbackVars, Types
<1>5. CASE MarkAnswered
  <2>1. localCandidates' \in Seq(Candidate)
    BY <1>5, EmptySeq DEF MarkAnswered
  <2> QED
    BY <1>5, <2>1 DEF MarkAnswered, callbackVars, Types
<1>6. CASE FlushOne
  BY <1>6, Shortened, Sending DEF FlushOne, callbackVars, Types
<1>7. CASE Gather
  <2>1. described \in Offers /\ hand' \in Candidate
    BY <1>7 DEF Gather, Types, Offers, Candidate
  <2>2. gathered' \in [Offers -> 0..MaxCandidates]
    BY <1>7, <2>1 DEF Gather, Types
  <2> QED
    BY <1>7, <2>1, <2>2 DEF Gather, controlVars, Types
<1>8. CASE Wait
  <2>1. localCandidates' \in Seq(Candidate)
    BY <1>8, Appended DEF Wait, Types
  <2> QED
    BY <1>8, <2>1 DEF Wait, controlVars, Types
<1>9. CASE GoAhead
  BY <1>9 DEF GoAhead, controlVars, Types
<1>10. CASE SendCandidate
  <2>1. hand \in Candidate
    BY <1>10 DEF SendCandidate, Types
  <2> QED
    BY <1>10, <2>1, Sending DEF SendCandidate, controlVars, Types
<1>11. CASE ConnectionChanges
  BY <1>11 DEF ConnectionChanges, controlVars, callbackVars, Types
<1> QED
  BY <1>1, <1>2, <1>3, <1>4, <1>5, <1>6, <1>7, <1>8, <1>9, <1>10, <1>11 DEF Next, Control, LocalCandidate

----------------------------------------------------------------------------

\* Whatever is put on the wire, answers stay; a candidate whose answer is out may
\* be put there.
LEMMA WireGrows ==
    ASSUME Types, AnswerPrecedesCandidates, NEW m \in Messages, wire' = Append(wire, m),
           m.kind = "candidate" => m.of.offer \in Answered
    PROVE  AnswerPrecedesCandidates' /\ Answered \subseteq Answered'
<1>1. wire \in Seq(Messages)
  BY DEF Types
<1>2. /\ Len(wire) \in Nat /\ DOMAIN wire = 1..Len(wire) /\ DOMAIN wire' = 1..Len(wire')
      /\ Len(wire') = Len(wire) + 1 /\ wire'[Len(wire) + 1] = m
      /\ \A n \in 1..Len(wire) : wire'[n] = wire[n]
  BY <1>1, Appended, LenProperties
<1>3. Answered \subseteq Answered'
  BY <1>2 DEF Answered
<1>4. ASSUME NEW i \in DOMAIN wire', wire'[i].kind = "candidate"
      PROVE  \E j \in 1..(i - 1) : wire'[j].kind = "answer" /\ wire'[j].offer >= wire'[i].of.offer
  <2>1. CASE i \in 1..Len(wire)
    <3>1. PICK j \in 1..(i - 1) : wire[j].kind = "answer" /\ wire[j].offer >= wire[i].of.offer
      BY <1>2, <1>4, <2>1 DEF AnswerPrecedesCandidates
    <3> QED
      BY <1>2, <2>1, <3>1
  <2>2. CASE i = Len(wire) + 1
    <3>1. m.of.offer \in Answered
      BY <1>2, <1>4, <2>2
    <3>2. PICK j \in 1..Len(wire) : wire[j].kind = "answer" /\ wire[j].offer >= m.of.offer
      BY <3>1 DEF Answered
    <3> QED
      BY <1>2, <2>2, <3>2
  <2> QED
    BY <1>2, <1>4, <2>1, <2>2
<1> QED
  BY <1>3, <1>4 DEF AnswerPrecedesCandidates

\* An answer is one to the earlier offers as well.
LEMMA AnswerCovers ==
    ASSUME Types, NEW c \in Candidate, c.offer <= offers, offers \in Answered
    PROVE  c.offer \in Answered
<1>1. PICK j \in 1..Len(wire) : wire[j].kind = "answer" /\ wire[j].offer >= offers
  BY DEF Answered
<1>2. wire[j] \in Messages
  BY ElementOfSeq DEF Types
<1>3. wire[j].offer \in Nat
  BY <1>1, <1>2 DEF Messages, Offers
<1>4. c.offer \in Offers /\ wire[j].offer >= c.offer
  BY <1>1, <1>3 DEF Candidate, Offers, Types
<1> QED
  BY <1>1, <1>4 DEF Answered

\* The order of answers and candidates.
LEMMA OrderStep ==
    ASSUME Types, AnswerPrecedesCandidates, Cleared, [Next]_vars
    PROVE  AnswerPrecedesCandidates' /\ Cleared'
<1>1. Types' /\ Len(wire) \in Nat
  BY TypesStep DEF Types
<1>3. ASSUME UNCHANGED wire
      PROVE  AnswerPrecedesCandidates' /\ Answered' = Answered
  BY <1>3 DEF AnswerPrecedesCandidates, Answered
<1>4. ASSUME NEW c \in Candidate, c.offer \in Answered, Send(c)
      PROVE  AnswerPrecedesCandidates' /\ Answered \subseteq Answered'
  <2>1. CASE wire' = Append(wire, [kind |-> "candidate", of |-> c])
    <3>1. [kind |-> "candidate", of |-> c] \in Messages
      BY DEF Messages
    <3> QED
      BY <1>4, <2>1, <3>1, WireGrows
  <2>2. CASE UNCHANGED wire
    BY <1>3, <2>2
  <2> QED
    BY <1>4, <2>1, <2>2, Sending
<1>5. CASE UNCHANGED vars
  BY <1>3, <1>5 DEF vars, controlVars, callbackVars, Cleared
<1>6. CASE OfferArrives
  <2>1. callback # "idle" => hand.offer <= offers + 1
    <3>1. callback # "idle" => hand \in Candidate /\ hand.offer <= offers /\ offers \in Nat
      BY DEF Types, Cleared
    <3> QED
      BY <3>1 DEF Candidate, Offers
  <2>2. Len(<<>>) = 0
    OBVIOUS
  <2> QED
    BY <1>3, <1>6, <2>1, <2>2 DEF OfferArrives, callbackVars, Cleared
<1>7. CASE Describe \/ DescribeFails \/ AnswerFails \/ FlushEnds
  BY <1>3, <1>7 DEF Describe, DescribeFails, AnswerFails, FlushEnds, callbackVars, Cleared
<1>8. CASE SendAnswer
  <2> DEFINE m == [kind |-> "answer", offer |-> offers]
  <2>1. m \in Messages /\ m.kind = "answer" /\ m.offer = offers /\ wire' = Append(wire, m) /\ offers \in Offers
    BY <1>8 DEF SendAnswer, Types, Messages, Offers
  <2> HIDE DEF m
  <2>2. AnswerPrecedesCandidates' /\ Answered \subseteq Answered'
    BY <2>1, WireGrows
  <2>3. offers' \in Answered'
    <3>1. offers' = offers /\ Len(wire') = Len(wire) + 1 /\ wire'[Len(wire) + 1] = m
      BY <1>8, <2>1, Appended DEF SendAnswer, Types
    <3>2. m.offer >= offers'
      BY <2>1, <3>1 DEF Offers
    <3> QED
      BY <1>1, <2>1, <3>1, <3>2 DEF Answered
  <2> QED
    BY <1>8, <2>2, <2>3 DEF SendAnswer, callbackVars, Cleared
<1>9. CASE MarkAnswered
  <2>1. offers \in Answered
    BY <1>9 DEF MarkAnswered, Cleared
  <2>2. \A n \in 1..Len(localCandidates) : localCandidates[n].offer \in Answered
    <3> SUFFICES ASSUME NEW n \in 1..Len(localCandidates) PROVE localCandidates[n].offer \in Answered
      OBVIOUS
    <3>1. localCandidates[n] \in Candidate /\ localCandidates[n].offer <= offers
      BY DEF Types, Cleared
    <3> QED
      BY <2>1, <3>1, AnswerCovers
  <2> QED
    BY <1>3, <1>9, <2>1, <2>2 DEF MarkAnswered, callbackVars, Cleared
<1>10. CASE FlushOne
  <2>1. Head(flush) \in Candidate /\ Head(flush).offer \in Answered
    BY <1>10, Shortened DEF FlushOne, Types, Cleared
  <2>2. AnswerPrecedesCandidates' /\ Answered \subseteq Answered'
    BY <1>4, <1>10, <2>1 DEF FlushOne
  <2>3. \A n \in 1..Len(flush') : n + 1 \in 1..Len(flush) /\ flush'[n] = flush[n + 1]
    BY <1>10, Shortened DEF FlushOne, Types
  <2> QED
    BY <1>10, <2>2, <2>3 DEF FlushOne, callbackVars, Cleared
<1>11. CASE Gather
  <2>1. hand'.offer <= offers
    BY <1>11 DEF Gather, Types
  <2> QED
    BY <1>3, <1>11, <2>1 DEF Gather, controlVars, Cleared
<1>12. CASE Wait
  <2>1. \A n \in 1..Len(localCandidates') : localCandidates'[n].offer <= offers
    BY <1>12, Appended DEF Wait, Types, Cleared
  <2> QED
    BY <1>3, <1>12, <2>1 DEF Wait, controlVars, Cleared
<1>13. CASE GoAhead
  <2>1. hand.offer \in Answered
    <3>1. hand \in Candidate /\ hand.offer <= offers /\ offers \in Answered
      BY <1>13 DEF GoAhead, Types, Cleared
    <3> QED
      BY <3>1, AnswerCovers
  <2> QED
    BY <1>3, <1>13, <2>1 DEF GoAhead, controlVars, Cleared
<1>14. CASE SendCandidate
  <2>1. hand \in Candidate /\ hand.offer \in Answered
    BY <1>14 DEF SendCandidate, Types, Cleared
  <2>2. AnswerPrecedesCandidates' /\ Answered \subseteq Answered'
    BY <1>4, <1>14, <2>1 DEF SendCandidate
  <2> QED
    BY <1>14, <2>2 DEF SendCandidate, controlVars, Cleared
<1>15. CASE ConnectionChanges
  BY <1>3, <1>15 DEF ConnectionChanges, controlVars, callbackVars, Cleared
<1> QED
  BY <1>5, <1>6, <1>7, <1>8, <1>9, <1>10, <1>11, <1>12, <1>13, <1>14, <1>15 DEF Next, Control, LocalCandidate

----------------------------------------------------------------------------

\* A candidate that moves, each place of it from one it had, stays in one place.
LEMMA Moved ==
    ASSUME OnePlace, Known, UNCHANGED gathered, NEW c \in Candidate, NEW From \in [Places -> Places],
           \A p \in Places : In(p, c)' => In(From[p], c),
           \A p, q \in Places : In(p, c)' /\ In(q, c)' /\ From[p] = From[q] => p = q
    PROVE  /\ \A p, q \in Places : In(p, c)' /\ In(q, c)' => p = q
           /\ \A p \in Places : In(p, c)' => c.n <= gathered'[c.offer]
BY DEF OnePlace, Known

\* A candidate is sent, or lost, from a place which it leaves; the others at
\* most change their numbers.
LEMMA SentFrom ==
    ASSUME Types, OnePlace, Known, UNCHANGED gathered, NEW x \in Candidate, Send(x),
           NEW source \in Places, In(source, x), NEW Shift \in [Places -> Places],
           \A c \in Candidate : \A p \in Places :
               p[1] \notin {"wire", "lost"} /\ In(p, c)' => In(Shift[p], c) /\ Shift[p] # source,
           \A p \in Places : Shift[p][1] = p[1],
           \A p, q \in Places : Shift[p] = Shift[q] => p = q,
           source[1] \notin {"wire", "lost"}
    PROVE  OnePlace' /\ Known'
<1> DEFINE On(p) == p[1] \in {"wire", "lost"}
<1>1. /\ Len(wire) \in Nat
      /\ \A n \in 1..Len(wire') :
            \/ n \in 1..Len(wire) /\ wire'[n] = wire[n]
            \/ n = Len(wire) + 1 /\ wire'[n].of = x /\ lost' = lost
      /\ (lost' = lost) \/ (wire' = wire /\ lost' = lost \cup {x})
  <2>1. [kind |-> "candidate", of |-> x] \in Messages /\ wire \in Seq(Messages)
    BY DEF Messages, Types
  <2>2. CASE lost' = lost /\ wire' = Append(wire, [kind |-> "candidate", of |-> x])
    <3> DEFINE m == [kind |-> "candidate", of |-> x]
    <3>1. m.of = x /\ m \in Messages /\ wire' = Append(wire, m)
      BY <2>1, <2>2
    <3> HIDE DEF m
    <3> QED
      BY <2>1, <2>2, <3>1, Appended
  <2>3. CASE wire' = wire /\ lost' = lost \cup {x}
    BY <2>1, <2>3, LenProperties
  <2> QED
    BY <2>2, <2>3, Sending
<1>2. ASSUME NEW c \in Candidate, c # x, NEW p \in Places, On(p), In(p, c)'
      PROVE  In(p, c)
  BY <1>1, <1>2 DEF In
<1>3. ASSUME NEW c \in Candidate, c # x
      PROVE  /\ \A p, q \in Places : In(p, c)' /\ In(q, c)' => p = q
             /\ \A p \in Places : In(p, c)' => c.n <= gathered'[c.offer]
  <2> DEFINE From == [p \in Places |-> IF On(p) THEN p ELSE Shift[p]]
  <2>1. From \in [Places -> Places]
    OBVIOUS
  <2>2. \A p \in Places : In(p, c)' => In(From[p], c)
    BY <1>2, <1>3
  <2>3. \A p, q \in Places : From[p] = From[q] => p = q
    OBVIOUS
  <2> HIDE DEF From
  <2> QED
    BY <1>3, <2>1, <2>2, <2>3, Moved
<1>4. ASSUME NEW p \in Places, In(p, x)'
      PROVE  IF wire' = wire THEN p = <<"lost", 0>> ELSE p = <<"wire", Len(wire) + 1>>
  <2>1. \A r \in Places : In(r, x) => r = source
    BY DEF OnePlace
  <2>2. On(p) /\ ~In(p, x)
    BY <1>4, <2>1
  <2>3. CASE p[1] = "wire"
    <3>1. p = <<"wire", p[2]>> /\ p[2] \in Nat
      BY <2>3 DEF Places
    <3>2. p[2] \in 1..Len(wire') /\ wire'[p[2]].kind = "candidate" /\ wire'[p[2]].of = x
      BY <1>4, <2>3 DEF In
    <3>3. p[2] = Len(wire) + 1
      BY <1>1, <2>2, <2>3, <3>2 DEF In
    <3>4. wire' # wire
      BY <1>1, <3>2, <3>3
    <3> QED
      BY <3>1, <3>3, <3>4
  <2>4. CASE p[1] = "lost"
    <3>1. p = <<"lost", 0>> /\ x \in lost'
      BY <1>4, <2>4 DEF In
    <3>2. x \notin lost
      BY <2>2, <3>1 DEF In
    <3> QED
      BY <1>1, <3>1, <3>2
  <2> QED
    BY <2>2, <2>3, <2>4
<1>5. /\ \A p, q \in Places : In(p, x)' /\ In(q, x)' => p = q
      /\ x.n <= gathered'[x.offer]
  BY <1>4 DEF Known
<1> QED
  BY <1>3, <1>5 DEF OnePlace, Known

\* A step that drops candidates or leaves them where they are.
LEMMA Left ==
    ASSUME OnePlace, Known, UNCHANGED <<gathered, flush, hand, lost>>,
           UNCHANGED localCandidates \/ localCandidates' = <<>>,
           Types, UNCHANGED wire \/ \E m \in Messages : wire' = Append(wire, m) /\ m.kind = "answer"
    PROVE  OnePlace' /\ Known'
<1>1. \A c \in Candidate : \A p \in Places : In(p, c)' => In(p, c)
  <2>1. UNCHANGED wire \/ \E m \in Messages :
            /\ m.kind = "answer" /\ wire'[Len(wire) + 1] = m /\ Len(wire) \in Nat
            /\ Len(wire') = Len(wire) + 1 /\ \A n \in 1..Len(wire) : wire'[n] = wire[n]
    <3>1. wire \in Seq(Messages)
      BY DEF Types
    <3>2. ASSUME NEW m \in Messages, wire' = Append(wire, m), m.kind = "answer"
          PROVE  /\ wire'[Len(wire) + 1] = m /\ Len(wire) \in Nat
                 /\ Len(wire') = Len(wire) + 1 /\ \A n \in 1..Len(wire) : wire'[n] = wire[n]
      BY <3>1, <3>2, Appended
    <3> QED
      BY <3>2
  <2>2. \A n \in 1..Len(wire') : wire'[n].kind = "candidate" => n \in 1..Len(wire) /\ wire'[n] = wire[n]
    BY <2>1
  <2>3. \A n \in 1..Len(localCandidates') :
            n \in 1..Len(localCandidates) /\ localCandidates'[n] = localCandidates[n]
    OBVIOUS
  <2> QED
    BY <2>2, <2>3 DEF In
<1> QED
  BY <1>1 DEF OnePlace, Known

\* No step puts a candidate in a second place.
LEMMA OnceStep ==
    ASSUME Types, Once, [Next]_vars
    PROVE  Once'
<1>1. OnePlace /\ Known
  BY DEF Once
<1>2. CASE UNCHANGED vars \/ OfferArrives \/ Describe \/ DescribeFails \/ AnswerFails \/ FlushEnds
           \/ GoAhead \/ ConnectionChanges
  BY <1>1, <1>2, Left DEF vars, OfferArrives, Describe, DescribeFails, AnswerFails, FlushEnds, GoAhead,
                          ConnectionChanges, controlVars, callbackVars, Once
<1>3. CASE SendAnswer
  <2>1. [kind |-> "answer", offer |-> offers] \in Messages
    BY <1>3 DEF SendAnswer, Types, Messages, Offers
  <2>2. OnePlace' /\ Known'
    BY <1>1, <1>3, <2>1, Left DEF SendAnswer, callbackVars
  <2> QED
    BY <1>3, <2>2 DEF SendAnswer, callbackVars, Once
<1>4. CASE MarkAnswered
  <2>1. /\ flush = <<>> /\ flush' = localCandidates /\ localCandidates' = <<>>
        /\ UNCHANGED <<wire, hand, lost, gathered>>
    BY <1>4 DEF MarkAnswered, callbackVars, Once
  <2> DEFINE From == [p \in Places |-> IF p[1] = "flush" THEN <<"waiting", p[2]>> ELSE p]
  <2>2. From \in [Places -> Places]
    BY DEF Places
  <2>3. ASSUME NEW c \in Candidate, NEW p \in Places, In(p, c)'
        PROVE  In(From[p], c) /\ p[1] # "waiting"
    BY <2>1, <2>3 DEF In, Places
  <2>4. ASSUME NEW p \in Places, NEW q \in Places, p[1] # "waiting", q[1] # "waiting", From[p] = From[q]
        PROVE  p = q
    BY <2>4 DEF Places
  <2> HIDE DEF From
  <2>5. OnePlace' /\ Known'
    <3>1. ASSUME NEW c \in Candidate
          PROVE  /\ \A p, q \in Places : In(p, c)' /\ In(q, c)' => p = q
                 /\ \A p \in Places : In(p, c)' => c.n <= gathered'[c.offer]
      BY <1>1, <2>1, <2>2, <2>3, <2>4, Moved
    <3> QED
      BY <3>1 DEF OnePlace, Known
  <2> QED
    BY <1>4, <2>5 DEF MarkAnswered, Once
<1>5. CASE FlushOne
  <2>1. /\ Len(flush) \in Nat \ {0} /\ Len(flush') = Len(flush) - 1 /\ Head(flush) = flush[1]
        /\ \A n \in 1..Len(flush') : flush'[n] = flush[n + 1]
        /\ Send(flush[1]) /\ flush[1] \in Candidate
        /\ UNCHANGED <<localCandidates, hand, gathered, step>> /\ step = "flushing"
    BY <1>5, Shortened DEF FlushOne, callbackVars, Types
  <2> DEFINE Shift == [p \in Places |-> IF p[1] = "flush" THEN <<"flush", p[2] + 1>> ELSE p]
             source == <<"flush", 1>>
  <2>2. source \in Places /\ In(source, flush[1]) /\ source[1] \notin {"wire", "lost"}
    BY <2>1 DEF Places, In
  <2>3. Shift \in [Places -> Places]
    BY DEF Places
  <2>4. ASSUME NEW c \in Candidate, NEW p \in Places, p[1] \notin {"wire", "lost"}, In(p, c)'
        PROVE  In(Shift[p], c) /\ Shift[p] # source
    BY <2>1, <2>4 DEF In, Places
  <2>5. ASSUME NEW p \in Places PROVE Shift[p][1] = p[1]
    BY DEF Places
  <2>6. ASSUME NEW p \in Places, NEW q \in Places, Shift[p] = Shift[q] PROVE p = q
    BY <2>6 DEF Places
  <2> HIDE DEF Shift, source
  <2>7. OnePlace' /\ Known'
    BY <1>1, <2>1, <2>2, <2>3, <2>4, <2>5, <2>6, SentFrom
  <2> QED
    BY <2>1, <2>7 DEF Once
<1>6. CASE Gather
  <2>1. described \in Offers
    BY <1>6, SignalingAssumption DEF Gather, Types, Offers
  <2>2. /\ hand' = [offer |-> described, n |-> gathered[described] + 1]
        /\ gathered' = [gathered EXCEPT ![described] = @ + 1]
        /\ UNCHANGED <<wire, localCandidates, flush, lost, step>> /\ hand = NoCandidate
    BY <1>6 DEF Gather, controlVars, Types
  <2>3. gathered[described] \in Nat /\ hand'.offer = described /\ hand'.n = gathered[described] + 1
    BY <2>1, <2>2 DEF Types
  <2>4. \A c \in Candidate : /\ c.offer \in Offers /\ gathered[c.offer] \in Nat /\ c.n \in Nat
                             /\ gathered'[c.offer] = IF c.offer = described THEN gathered[c.offer] + 1
                                                     ELSE gathered[c.offer]
    <3> SUFFICES ASSUME NEW c \in Candidate
                 PROVE  /\ c.offer \in Offers /\ gathered[c.offer] \in Nat /\ c.n \in Nat
                        /\ gathered'[c.offer] = IF c.offer = described THEN gathered[c.offer] + 1
                                                ELSE gathered[c.offer]
      OBVIOUS
    <3>1. c.offer \in Offers /\ c.n \in Nat
      BY DEF Candidate
    <3>2. gathered \in [Offers -> Nat]
      BY DEF Types
    <3> QED
      BY <2>1, <2>2, <3>1, <3>2
  <2>5. ASSUME NEW c \in Candidate, NEW p \in Places, In(p, c)'
        PROVE  In(p, c) \/ (p = <<"hand", 0>> /\ c = hand')
    BY <2>2, <2>5 DEF In
  <2>6. ASSUME NEW c \in Candidate, NEW p \in Places, In(p, c) PROVE c # hand'
    <3>1. c.n <= gathered[c.offer]
      BY <1>1, <2>6 DEF Known
    <3> QED
      BY <2>3, <2>4, <3>1
  <2>7. OnePlace'
    BY <1>1, <2>5, <2>6 DEF OnePlace
  <2>8. Known'
    <3> SUFFICES ASSUME NEW c \in Candidate, NEW p \in Places, In(p, c)' PROVE c.n <= gathered'[c.offer]
      BY DEF Known
    <3>1. CASE In(p, c)
      <4>1. c.n <= gathered[c.offer]
        BY <1>1, <3>1 DEF Known
      <4> QED
        BY <2>4, <4>1
    <3>2. CASE c = hand'
      BY <2>3, <2>4, <3>2
    <3> QED
      BY <2>5, <3>1, <3>2
  <2> QED
    BY <2>2, <2>7, <2>8, <1>6 DEF Gather, controlVars, Once
<1>7. CASE Wait
  <2>1. /\ Len(localCandidates) \in Nat /\ Len(localCandidates') = Len(localCandidates) + 1
        /\ localCandidates'[Len(localCandidates) + 1] = hand
        /\ \A n \in 1..Len(localCandidates) : localCandidates'[n] = localCandidates[n]
        /\ hand' = NoCandidate /\ NoCandidate \notin Candidate
        /\ UNCHANGED <<wire, flush, lost, gathered, step>>
    <3>1. hand \in Candidate /\ localCandidates \in Seq(Candidate)
      BY <1>7 DEF Wait, Types
    <3> QED
      BY <1>7, <3>1, Appended DEF Wait, controlVars, NoCandidate, Candidate, Offers
  <2> DEFINE From == [p \in Places |-> IF p = <<"waiting", Len(localCandidates) + 1>> THEN <<"hand", 0>> ELSE p]
  <2>2. From \in [Places -> Places]
    BY DEF Places
  <2>3. ASSUME NEW c \in Candidate, NEW p \in Places, In(p, c)'
        PROVE  In(From[p], c) /\ p # <<"hand", 0>>
    BY <2>1, <2>3 DEF In, Places
  <2>4. ASSUME NEW p \in Places, NEW q \in Places, p # <<"hand", 0>>, q # <<"hand", 0>>, From[p] = From[q]
        PROVE  p = q
    BY <2>4
  <2> HIDE DEF From
  <2>5. OnePlace' /\ Known'
    <3>1. ASSUME NEW c \in Candidate
          PROVE  /\ \A p, q \in Places : In(p, c)' /\ In(q, c)' => p = q
                 /\ \A p \in Places : In(p, c)' => c.n <= gathered'[c.offer]
      BY <1>1, <2>1, <2>2, <2>3, <2>4, Moved
    <3> QED
      BY <3>1 DEF OnePlace, Known
  <2> QED
    BY <2>1, <2>5 DEF Once
<1>8. CASE SendCandidate
  <2>1. /\ hand \in Candidate /\ Send(hand) /\ hand' = NoCandidate /\ NoCandidate \notin Candidate
        /\ UNCHANGED <<localCandidates, flush, gathered, step>>
    BY <1>8 DEF SendCandidate, Types, controlVars, NoCandidate, Candidate, Offers
  <2> DEFINE Shift == [p \in Places |-> p]
             source == <<"hand", 0>>
  <2>2. source \in Places /\ In(source, hand) /\ source[1] \notin {"wire", "lost"}
    BY <2>1 DEF Places, In
  <2>3. Shift \in [Places -> Places]
    OBVIOUS
  <2>4. ASSUME NEW c \in Candidate, NEW p \in Places, p[1] \notin {"wire", "lost"}, In(p, c)'
        PROVE  In(Shift[p], c) /\ Shift[p] # source
    BY <2>1, <2>4 DEF In, Places
  <2>5. ASSUME NEW p \in Places PROVE Shift[p][1] = p[1]
    OBVIOUS
  <2>6. ASSUME NEW p \in Places, NEW q \in Places, Shift[p] = Shift[q] PROVE p = q
    BY <2>6
  <2> HIDE DEF Shift, source
  <2>7. OnePlace' /\ Known'
    BY <1>1, <2>1, <2>2, <2>3, <2>4, <2>5, <2>6, SentFrom
  <2> QED
    BY <2>1, <2>7 DEF Once
<1> QED
  BY <1>2, <1>3, <1>4, <1>5, <1>6, <1>7, <1>8 DEF Next, Control, LocalCandidate

----------------------------------------------------------------------------

\* The invariant holds at first.
LEMMA SignalingInit == Init => SignalingInv
<1> SUFFICES ASSUME Init PROVE SignalingInv
  OBVIOUS
<1>1. wire = <<>> /\ Len(wire) = 0 /\ Len(flush) = 0 /\ Len(localCandidates) = 0 /\ DOMAIN wire = {}
  BY DEF Init
<1>2. AnswerPrecedesCandidates
  BY <1>1 DEF AnswerPrecedesCandidates
<1>3. Cleared
  BY <1>1 DEF Init, Cleared
<1>4. \A c \in Candidate : \A p \in Places : ~In(p, c)
  <2>1. NoCandidate \notin Candidate
    BY DEF NoCandidate, Candidate, Offers
  <2> QED
    BY <1>1, <2>1 DEF Init, In
<1>5. Once
  BY <1>4 DEF Init, Once, OnePlace, Known
<1> QED
  BY <1>2, <1>3, <1>5, TypesInit DEF SignalingInv

\* The invariant of offer, localCandidate and sendCandidate.
THEOREM SignalingInvariant == Spec => []SignalingInv
<1>1. SignalingInv /\ [Next]_vars => SignalingInv'
  BY TypesStep, OrderStep, OnceStep DEF SignalingInv
<1> QED
  BY <1>1, SignalingInit, PTL DEF Spec

\* answerSent and localCandidates under the mutex: no candidate is sent before
\* the answer to its offer or to a later one, whenever the callback runs.
THEOREM CandidatesFollowTheirAnswer == Spec => []AnswerPrecedesCandidates
BY SignalingInvariant, PTL DEF SignalingInv

\* The places of the invariant are those of the property.
LEMMA OnceMeansOnce == SignalingInv => CandidatesAreSentOnce
<1> SUFFICES ASSUME SignalingInv, NEW c \in Candidate PROVE \A p, q \in PlacesOf(c) : p = q
  BY DEF CandidatesAreSentOnce
<1>1. /\ DOMAIN wire = 1..Len(wire) /\ DOMAIN localCandidates = 1..Len(localCandidates)
      /\ DOMAIN flush = 1..Len(flush)
  BY DEF SignalingInv, Types
<1>2. ASSUME NEW p \in PlacesOf(c) PROVE p \in Places /\ In(p, c)
  BY <1>1, <1>2 DEF Places, In, PlacesOf, Sent
<1> QED
  BY <1>2 DEF SignalingInv, Once, OnePlace

\* The flush and the callback never send the same candidate, and neither sends
\* one twice.
THEOREM CandidatesGoOutOnce == Spec => []CandidatesAreSentOnce
BY SignalingInvariant, OnceMeansOnce, PTL

----------------------------------------------------------------------------
(* Nothing is left behind. A candidate may wait under answerSent = FALSE   *)
(* only; the mutex makes setting the flag and taking what waits one step.  *)

\* Once the answer is marked as sent, no candidate waits: none is added behind
\* the copy that offer sends, where nobody would look for it again
\* (localCandidate, offer).
NoneIsStranded == answerSent => localCandidates = <<>>

\* Where a gathered candidate may be.
OnWire(c) == \E n \in 1..Len(wire) : wire[n].kind = "candidate" /\ wire[n].of = c
Waits(c) == \E n \in 1..Len(localCandidates) : localCandidates[n] = c
InFlush(c) == \E n \in 1..Len(flush) : flush[n] = c
Somewhere(c) == OnWire(c) \/ Waits(c) \/ InFlush(c) \/ hand = c \/ c \in lost

\* A gathered candidate does not vanish: it stays with the agent until it is
\* sent, or its send fails. Only one that waits for an answer that was never
\* sent is dropped, by the next offer.
NoneVanishes ==
    \A c \in Candidate :
        Somewhere(c) => Somewhere(c)' \/ (Waits(c) /\ ~answerSent /\ offers' = offers + 1)

\* What is on the wire stays there, and an answer that is sent leaves the
\* candidates where they are.
LEMMA WireKeeps ==
    ASSUME Types, NEW m \in Messages, wire' = Append(wire, m), NEW c \in Candidate
    PROVE  /\ OnWire(c) => OnWire(c)'
           /\ m.kind = "candidate" /\ m.of = c => OnWire(c)'
<1>1. /\ Len(wire) \in Nat /\ Len(wire') = Len(wire) + 1 /\ wire'[Len(wire) + 1] = m
      /\ \A n \in 1..Len(wire) : wire'[n] = wire[n]
  BY Appended DEF Types
<1> QED
  BY <1>1 DEF OnWire

\* A candidate that is sent is on the wire or lost, and no other is touched.
LEMMA SendKeeps ==
    ASSUME Types, NEW x \in Candidate, Send(x), NEW c \in Candidate
    PROVE  /\ OnWire(c) \/ c \in lost => OnWire(c)' \/ c \in lost'
           /\ c = x => OnWire(c)' \/ c \in lost'
<1> DEFINE m == [kind |-> "candidate", of |-> x]
<1>1. m \in Messages /\ m.kind = "candidate" /\ m.of = x
  BY DEF Messages
<1>2. (lost' = lost /\ wire' = Append(wire, m)) \/ (wire' = wire /\ lost' = lost \cup {x})
  BY Sending
<1> HIDE DEF m
<1>3. CASE lost' = lost /\ wire' = Append(wire, m)
  BY <1>1, <1>3, WireKeeps
<1>4. CASE wire' = wire /\ lost' = lost \cup {x}
  BY <1>4 DEF OnWire
<1> QED
  BY <1>2, <1>3, <1>4

\* A candidate leaves a place only for another.
LEMMA CandidatesStay ==
    ASSUME Types, Once, [Next]_vars, NEW c \in Candidate, Somewhere(c)
    PROVE  Somewhere(c)' \/ (Waits(c) /\ ~answerSent /\ offers' = offers + 1) \/ (answerSent /\ Waits(c))
<1>1. CASE UNCHANGED <<wire, localCandidates, flush, hand, lost>>
  BY <1>1 DEF Somewhere, OnWire, Waits, InFlush
<1>2. CASE UNCHANGED vars \/ Describe \/ DescribeFails \/ AnswerFails \/ FlushEnds \/ GoAhead \/ ConnectionChanges
  BY <1>1, <1>2 DEF vars, Describe, DescribeFails, AnswerFails, FlushEnds, GoAhead, ConnectionChanges,
                    controlVars, callbackVars
<1>3. CASE OfferArrives
  BY <1>3 DEF OfferArrives, callbackVars, Somewhere, OnWire, Waits, InFlush
<1>4. CASE SendAnswer
  <2>1. [kind |-> "answer", offer |-> offers] \in Messages
    BY <1>4 DEF SendAnswer, Types, Messages, Offers
  <2>2. OnWire(c) => OnWire(c)'
    BY <1>4, <2>1, WireKeeps DEF SendAnswer
  <2> QED
    BY <1>4, <2>2 DEF SendAnswer, callbackVars, Somewhere, Waits, InFlush
<1>5. CASE MarkAnswered
  <2>1. flush = <<>> /\ flush' = localCandidates /\ UNCHANGED <<wire, hand, lost>>
    BY <1>5 DEF MarkAnswered, callbackVars, Once
  <2> QED
    BY <2>1 DEF Somewhere, OnWire, Waits, InFlush
<1>6. CASE FlushOne
  <2>1. /\ Len(flush) \in Nat \ {0} /\ Len(flush') = Len(flush) - 1
        /\ \A n \in 1..Len(flush') : flush'[n] = flush[n + 1]
        /\ Send(flush[1]) /\ flush[1] \in Candidate
        /\ UNCHANGED <<localCandidates, hand>>
    BY <1>6, Shortened DEF FlushOne, callbackVars, Types
  <2>2. CASE InFlush(c)
    <3>1. PICK n \in 1..Len(flush) : flush[n] = c
      BY <2>2 DEF InFlush
    <3>2. CASE n = 1
      BY <2>1, <3>1, <3>2, SendKeeps DEF Somewhere
    <3>3. CASE n # 1
      <4>1. n - 1 \in 1..Len(flush') /\ flush'[n - 1] = c
        BY <2>1, <3>1, <3>3
      <4> QED
        BY <4>1 DEF Somewhere, InFlush
    <3> QED
      BY <3>2, <3>3
  <2>3. CASE OnWire(c) \/ c \in lost
    BY <2>1, <2>3, SendKeeps DEF Somewhere
  <2>4. CASE Waits(c) \/ hand = c
    BY <2>1, <2>4 DEF Somewhere, Waits
  <2> QED
    BY <2>2, <2>3, <2>4 DEF Somewhere
<1>7. CASE Gather
  <2>1. hand = NoCandidate /\ NoCandidate \notin Candidate
    BY <1>7 DEF Gather, Types, NoCandidate, Candidate, Offers
  <2> QED
    BY <1>7, <2>1 DEF Gather, controlVars, Somewhere, OnWire, Waits, InFlush
<1>8. CASE Wait
  <2>1. /\ Len(localCandidates) \in Nat /\ Len(localCandidates') = Len(localCandidates) + 1
        /\ localCandidates'[Len(localCandidates) + 1] = hand
        /\ \A n \in 1..Len(localCandidates) : localCandidates'[n] = localCandidates[n]
        /\ UNCHANGED <<wire, flush, lost>>
    <3>1. hand \in Candidate /\ localCandidates \in Seq(Candidate)
      BY <1>8 DEF Wait, Types
    <3> QED
      BY <1>8, <3>1, Appended DEF Wait, controlVars
  <2> QED
    BY <2>1 DEF Somewhere, OnWire, Waits, InFlush
<1>9. CASE SendCandidate
  <2>1. hand \in Candidate /\ Send(hand) /\ UNCHANGED <<localCandidates, flush>>
    BY <1>9 DEF SendCandidate, Types, controlVars
  <2>2. CASE OnWire(c) \/ c \in lost \/ hand = c
    BY <2>1, <2>2, SendKeeps DEF Somewhere
  <2>3. CASE Waits(c) \/ InFlush(c)
    BY <2>1, <2>3 DEF Somewhere, Waits, InFlush
  <2> QED
    BY <2>2, <2>3 DEF Somewhere
<1> QED
  BY <1>2, <1>3, <1>4, <1>5, <1>6, <1>7, <1>8, <1>9 DEF Next, Control, LocalCandidate

\* The flag and what waits change together.
LEMMA StrandedStep == NoneIsStranded /\ [Next]_vars => NoneIsStranded'
<1> SUFFICES ASSUME NoneIsStranded, [Next]_vars PROVE NoneIsStranded'
  OBVIOUS
<1>1. CASE UNCHANGED <<answerSent, localCandidates>>
  BY <1>1 DEF NoneIsStranded
<1>2. CASE OfferArrives \/ MarkAnswered \/ Wait
  BY <1>2 DEF NoneIsStranded, OfferArrives, MarkAnswered, Wait
<1>3. CASE Describe \/ DescribeFails \/ SendAnswer \/ AnswerFails \/ FlushOne \/ FlushEnds
  BY <1>1, <1>3 DEF Describe, DescribeFails, SendAnswer, AnswerFails, FlushOne, FlushEnds
<1>4. CASE Gather \/ GoAhead \/ SendCandidate \/ ConnectionChanges \/ UNCHANGED vars
  BY <1>1, <1>4 DEF Gather, GoAhead, SendCandidate, ConnectionChanges, vars
<1> QED
  BY <1>2, <1>3, <1>4 DEF Next, Control, LocalCandidate

\* localCandidate and offer under the mutex: no lost wake-up. Whenever the
\* callback runs, it does not add a candidate that nobody will send.
THEOREM NobodyWaitsForASentAnswer == Spec => []NoneIsStranded
<1>1. Init => NoneIsStranded
  BY DEF Init, NoneIsStranded
<1> QED
  BY <1>1, StrandedStep, PTL DEF Spec

\* No candidate is lost but to the connection, or with a negotiation that came
\* to nothing: with CandidatesGoOutOnce, each is in exactly one place.
THEOREM CandidatesDoNotVanish == Spec => [][NoneVanishes]_vars
<1>1. SignalingInv /\ NoneIsStranded /\ [Next]_vars => [NoneVanishes]_vars
  <2> SUFFICES ASSUME SignalingInv, NoneIsStranded, [Next]_vars PROVE NoneVanishes
    OBVIOUS
  <2>1. ASSUME NEW c \in Candidate PROVE ~(answerSent /\ Waits(c))
    BY DEF NoneIsStranded, Waits
  <2> QED
    BY <2>1, CandidatesStay DEF NoneVanishes, SignalingInv
<1> QED
  BY <1>1, SignalingInvariant, NobodyWaitsForASentAnswer, PTL DEF Spec
=============================================================================
