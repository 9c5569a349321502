--------------------------- MODULE TerminalLease ---------------------------
(***************************************************************************)
(* What the terminal manager promises the service about terminal ids.      *)
(*                                                                         *)
(* An id is leased to one terminal after another.  Only the terminal that  *)
(* has the id can hold a shell under it, each terminal holds at most one   *)
(* in its life, and the id is free again only when the shell was let go.   *)
(* Terminal implements this specification.                                 *)
(***************************************************************************)
EXTENDS Naturals

CONSTANTS Ids, MaxTerminals

VARIABLES owner,    \* the terminal that has the id; 0 for none
          holds,    \* the terminals that hold a shell
          latest,   \* how many terminals there were
          spent     \* the terminals that have held a shell

leaseVars == <<owner, holds, latest, spent>>

Init == owner = [i \in Ids |-> 0] /\ holds = {} /\ latest = 0 /\ spent = {}

Lease(i) == /\ owner[i] = 0 /\ latest < MaxTerminals
            /\ latest' = latest + 1
            /\ owner' = [owner EXCEPT ![i] = latest']
            /\ UNCHANGED <<holds, spent>>

Hold(i) == /\ owner[i] # 0 /\ owner[i] \notin spent
           /\ holds' = holds \cup {owner[i]}
           /\ spent' = spent \cup {owner[i]}
           /\ UNCHANGED <<owner, latest>>

LetGo(t) == /\ t \in holds
            /\ holds' = holds \ {t}
            /\ UNCHANGED <<owner, latest, spent>>

Free(i) == /\ owner[i] # 0 /\ owner[i] \notin holds
           /\ owner' = [owner EXCEPT ![i] = 0]
           /\ UNCHANGED <<holds, latest, spent>>

Next == \/ \E i \in Ids : Lease(i) \/ Hold(i) \/ Free(i)
        \/ \E t \in holds : LetGo(t)

Spec == Init /\ [][Next]_leaseVars
=============================================================================
