-------------------------- MODULE DaemonRefinement --------------------------
(***************************************************************************)
(* Daemon implements ControlLink: d.connection and controlMu give every    *)
(* goroutine the link that ControlLink describes.                          *)
(***************************************************************************)
EXTENDS Daemon

linkPhase == IF conn # 0 THEN "published"
             ELSE IF ctl \in {"flags", "install"} THEN "opening"
             ELSE "down"

Link == INSTANCE ControlLink WITH
            Users <- Handlers \cup Senders \cup {Loop}, Nobody <- Free,
            latest <- cur, phase <- linkPhase, user <- controlMu

\* d.connection holds one session after another, each newer than the last; a
\* goroutine that keeps controlMu over a network request or a report finds
\* the same session published from its first step to its last.
ImplementsControlLink == Link!Spec

\* Besides, nobody keeps controlMu for ever.
ImplementsFairControlLink == Link!FairSpec
=============================================================================
