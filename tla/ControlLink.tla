---------------------------- MODULE ControlLink ----------------------------
(***************************************************************************)
(* What the daemon promises its own goroutines about the control link: an  *)
(* abstract specification of d.connection and controlMu.                   *)
(*                                                                         *)
(* There is one link at a time.  It is opened, published, used and         *)
(* withdrawn; the next one is newer.  Who uses the published link          *)
(* exclusively keeps it published until it leaves, and everyone leaves.    *)
(* Daemon implements this specification (DaemonRefinement).                *)
(***************************************************************************)
EXTENDS Naturals

CONSTANTS Users,    \* the goroutines that may use the link exclusively
          Nobody    \* not one of them

VARIABLES latest,   \* the number of the latest link
          phase,    \* down, opening or published
          user      \* who uses the published link exclusively

linkVars == <<latest, phase, user>>

Init == latest = 0 /\ phase = "down" /\ user = Nobody

Connect == /\ phase = "down"
           /\ latest' = latest + 1
           /\ phase' = "opening"
           /\ UNCHANGED user

Publish == /\ phase = "opening"
           /\ phase' = "published"
           /\ UNCHANGED <<latest, user>>

Enter(u) == /\ phase = "published"
            /\ user = Nobody
            /\ user' = u
            /\ UNCHANGED <<latest, phase>>

Leave == /\ user # Nobody
         /\ user' = Nobody
         /\ UNCHANGED <<latest, phase>>

Withdraw == /\ phase = "published"
            /\ user = Nobody
            /\ phase' = "down"
            /\ UNCHANGED <<latest, user>>

Next == Connect \/ Publish \/ (\E u \in Users : Enter(u)) \/ Leave \/ Withdraw

Spec == Init /\ [][Next]_linkVars
FairSpec == Spec /\ WF_linkVars(Leave)
=============================================================================
