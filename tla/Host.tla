-------------------------------- MODULE Host --------------------------------
(***************************************************************************)
(* Agents on a host: several processes that run `hopty agent' over the     *)
(* same directory (runAgent, Start, Close, identity.LoadOrCreate), the     *)
(* user's systemd that may restart one of them, the installer (which is    *)
(* the upgrade as well) and the uninstaller.  They meet in the files of    *)
(* the directory.  A process may crash between any two steps; the kernel   *)
(* then releases its lock and leaves its files.                            *)
(*                                                                         *)
(* Processes are slots that are used again.  systemd is modelled from the  *)
(* unit that install.sh writes and from the commands that are given to it. *)
(* SIGKILL takes effect at once.                                           *)
(***************************************************************************)
EXTENDS Naturals

CONSTANTS
    Procs,      \* process slots, numbers from 2
    MaxCrashes  \* bound: crashes that nobody asked for

ASSUME HostAssumption == Procs \subseteq Nat \ 0..1 /\ MaxCrashes \in Nat

None == 0       \* no process, no file
Empty == 1      \* a key file without a key

VARIABLES
    agent,      \* per slot: at off, load, create, write, reload, lock, unsock, listen,
                \*   pid, run, and on the way out unlisten, unpid, remove, unlock; the
                \*   identity it uses; the version it runs; whether it is the unit's
    disk,       \* identity.key: None, Empty or its creator; agent.sock and agent.pid:
                \*   the process they lead to; who has agent.lock; the version of the
                \*   binary, 0 for none
    unit,       \* hopty.service: off, active, stopping, waiting (for its restart)
    tool,       \* what the user runs, install, upgrade or uninstall, and where it is;
                \*   the processes it has still to stop; whether it dealt with the unit;
                \*   whether it left an agent alone; the version that answered
    crashes

vars == <<agent, disk, unit, tool, crashes>>

Starting == {"load", "create", "write", "reload", "lock", "unsock", "listen", "pid"}
Leaving == {"unlisten", "unpid", "remove", "unlock"}
Alive == {p \in Procs : agent[p].at # "off"}
UnitProcs == {p \in Alive : agent[p].unit}

\* A process that starts is none that somebody still holds for another.
Free == Procs \ (Alive \cup tool.doomed \cup {disk.sock, disk.pid})

TypeOK ==
    /\ agent \in [Procs -> [at : Starting \cup Leaving \cup {"off", "run"}, key : Procs \cup {None},
                           version : 0..2, unit : BOOLEAN]]
    /\ disk \in [key : Procs \cup {None, Empty}, sock : Procs \cup {None}, pid : Procs \cup {None},
                 lock : Alive \cup {None}, bin : 0..2]
    /\ unit \in IF UnitProcs = {} THEN {"off", "waiting"} ELSE {"active", "stopping"}
    /\ tool \in [job : {"none", "install", "upgrade", "uninstall"},
                 at : {"idle", "decide", "restart", "stop", "start", "poll", "unit", "scan", "gone"},
                 doomed : SUBSET Procs, handled : BOOLEAN, overlooked : BOOLEAN, answer : 0..2]
    /\ crashes \in 0..MaxCrashes

Nothing == [at |-> "off", key |-> None, version |-> 0, unit |-> FALSE]

Init ==
    /\ agent = [p \in Procs |-> Nothing]
    /\ disk = [key |-> None, sock |-> None, pid |-> None, lock |-> None, bin |-> 0]
    /\ unit = "off"
    /\ tool = [job |-> "none", at |-> "idle", doomed |-> {}, handled |-> FALSE,
               overlooked |-> FALSE, answer |-> 0]
    /\ crashes = 0

----------------------------------------------------------------------------
(* What happens to a process.                                              *)

\* It is executed, by the unit or by the installer.
Exec(p, byUnit) ==
    /\ p \in Free
    /\ agent' = [agent EXCEPT ![p] = [Nothing EXCEPT !.at = "load", !.version = disk.bin,
                                                     !.unit = byUnit]]

\* It ends: the kernel releases its lock, systemd may restart it
\* (Restart=on-failure).
Ends(p, failed) ==
    /\ agent' = [agent EXCEPT ![p] = Nothing]
    /\ disk' = [disk EXCEPT !.lock = IF @ = p THEN None ELSE @]
    /\ unit' = IF ~agent[p].unit THEN unit
               ELSE IF failed /\ unit = "active" THEN "waiting" ELSE "off"

\* SIGTERM is caught while the daemon runs. Before and after that it ends the
\* process at once, which is no failure for systemd.
Terminated(p, bySystemd) ==
    IF agent[p].at \in {"run", "unlisten"}
    THEN /\ agent' = [agent EXCEPT ![p].at = "unlisten"]
         /\ unit' = IF bySystemd THEN "stopping" ELSE unit
         /\ UNCHANGED disk
    ELSE Ends(p, FALSE)

Goes(p, from, to) == agent[p].at = from /\ agent' = [agent EXCEPT ![p].at = to]

----------------------------------------------------------------------------
(* LoadOrCreate, Start, runAgent.                                          *)

\* load, and what its caller does with the result.
LoadsKey(p) ==
    /\ agent[p].at \in {"load", "reload"}
    /\ \/ /\ disk.key \in Procs
          /\ agent' = [agent EXCEPT ![p].at = "lock", ![p].key = disk.key]
          /\ UNCHANGED <<disk, unit>>
       \/ /\ agent[p].at = "load" /\ disk.key = None
          /\ Goes(p, "load", "create")
          /\ UNCHANGED <<disk, unit>>
       \/ /\ disk.key = Empty \/ (agent[p].at = "reload" /\ disk.key = None)
          /\ Ends(p, TRUE)

\* Mutant of CreatesKey: the file is not opened exclusively.
CreatesKeyAnyway(p) ==
    /\ Goes(p, "create", "write")
    /\ disk' = [disk EXCEPT !.key = Empty]
    /\ UNCHANGED unit

CreatesKey(p) ==
    /\ Goes(p, "create", IF disk.key = None THEN "write" ELSE "reload")
    /\ disk' = [disk EXCEPT !.key = IF @ = None THEN Empty ELSE @]
    /\ UNCHANGED unit

WritesKey(p) ==
    /\ agent[p].at = "write"
    /\ agent' = [agent EXCEPT ![p].at = "lock", ![p].key = p]
    /\ disk' = [disk EXCEPT !.key = p]
    /\ UNCHANGED unit

\* The lock is not waited for.
Locks(p) ==
    /\ agent[p].at = "lock"
    /\ \/ /\ disk.lock = None
          /\ Goes(p, "lock", "unsock")
          /\ disk' = [disk EXCEPT !.lock = p]
          /\ UNCHANGED unit
       \/ /\ disk.lock # None
          /\ Ends(p, TRUE)

\* Mutant of RemovesSocket: a socket left by a crash is not removed.
RemovesNoSocket(p) ==
    /\ Goes(p, "unsock", "listen")
    /\ UNCHANGED <<disk, unit>>

RemovesSocket(p) ==
    /\ Goes(p, "unsock", "listen")
    /\ disk' = [disk EXCEPT !.sock = None]
    /\ UNCHANGED unit

Listens(p) ==
    \/ /\ disk.sock = None
       /\ Goes(p, "listen", "pid")
       /\ disk' = [disk EXCEPT !.sock = p]
       /\ UNCHANGED unit
    \/ /\ agent[p].at = "listen" /\ disk.sock # None
       /\ Ends(p, TRUE)

WritesPid(p) ==
    /\ Goes(p, "pid", "run")
    /\ disk' = [disk EXCEPT !.pid = p]
    /\ UNCHANGED unit

\* The way out: the listener is closed, which unlinks its path; then the
\* deferred calls of runAgent, the last of which is Daemon.Close.
ClosesListener(p) ==
    /\ Goes(p, "unlisten", "unpid")
    /\ disk' = [disk EXCEPT !.sock = None]
    /\ UNCHANGED unit

RemovesPid(p) ==
    /\ Goes(p, "unpid", "remove")
    /\ disk' = [disk EXCEPT !.pid = None]
    /\ UNCHANGED unit

\* Mutant of ClosesDaemon: the lock is released before the socket is removed.
ClosesDaemonUnlocked(p) ==
    \/ /\ Goes(p, "remove", "unlock")
       /\ disk' = [disk EXCEPT !.lock = None]
       /\ UNCHANGED unit
    \/ /\ agent[p].at = "unlock"
       /\ agent' = [agent EXCEPT ![p] = Nothing]
       /\ disk' = [disk EXCEPT !.sock = None]
       /\ unit' = IF agent[p].unit THEN "off" ELSE unit

\* Close: terminals and handlers have ended (Daemon, Terminal).
ClosesDaemon(p) ==
    \/ /\ Goes(p, "remove", "unlock")
       /\ disk' = [disk EXCEPT !.sock = None]
       /\ UNCHANGED unit
    \/ /\ agent[p].at = "unlock"
       /\ Ends(p, FALSE)

Agent(p) == /\ \/ LoadsKey(p) \/ CreatesKey(p) \/ WritesKey(p) \/ Locks(p) \/ RemovesSocket(p)
               \/ Listens(p) \/ WritesPid(p) \/ ClosesListener(p) \/ RemovesPid(p)
               \/ ClosesDaemon(p)
            /\ UNCHANGED <<tool, crashes>>

Crash(p) ==
    /\ p \in Alive /\ crashes < MaxCrashes
    /\ Ends(p, TRUE)
    /\ crashes' = crashes + 1
    /\ UNCHANGED tool

\* Mutant of UnitRestarts: the command of the unit leaves the agent in the
\* background.
UnitRestartsDetached(p) ==
    /\ unit = "waiting" /\ disk.bin # 0
    /\ Exec(p, FALSE)
    /\ unit' = "active"
    /\ UNCHANGED <<disk, tool, crashes>>

\* systemd restarts the agent after two seconds; without the binary it goes on
\* trying.
UnitRestarts(p) ==
    /\ unit = "waiting" /\ disk.bin # 0
    /\ Exec(p, TRUE)
    /\ unit' = "active"
    /\ UNCHANGED <<disk, tool, crashes>>

----------------------------------------------------------------------------
(* The installer, and `hopty upgrade', which runs it.                      *)

\* mv replaces the binary. Only an upgrade stops the agent by its pid.
Replaces(job) ==
    /\ tool.at = "idle"
    /\ IF job = "upgrade" THEN disk.bin = 1 ELSE job = "install" /\ disk.bin < 2
    /\ tool' = [tool EXCEPT !.job = job, !.at = "decide", !.handled = FALSE, !.answer = 0]
    /\ disk' = [disk EXCEPT !.bin = @ + 1]
    /\ UNCHANGED <<agent, unit>>

\* systemctl works: restart stops what the unit runs and starts it again.
RestartsUnit ==
    /\ tool.at = "decide"
    /\ tool' = [tool EXCEPT !.at = "restart", !.handled = TRUE,
                            !.overlooked = Alive # UnitProcs]
    /\ IF UnitProcs = {} THEN unit' = "off" /\ UNCHANGED <<agent, disk>>
       ELSE \E p \in UnitProcs : Terminated(p, TRUE)

StartsUnit ==
    /\ tool.at = "restart" /\ unit = "off"
    /\ \E p \in Procs : Exec(p, TRUE)
    /\ unit' = "active"
    /\ tool' = [tool EXCEPT !.at = "poll"]
    /\ UNCHANGED disk

\* systemctl fails: an upgrade stops the process that agent.pid names.
Named == {p \in Alive : tool.job = "upgrade" /\ disk.pid = p}

\* Mutant of StopsByPid: the old agent is left alone.
StopsNobody ==
    /\ tool.at = "decide"
    /\ tool' = [tool EXCEPT !.at = "start", !.overlooked = Alive # Named]
    /\ UNCHANGED <<agent, disk, unit>>

StopsByPid ==
    /\ tool.at = "decide"
    /\ tool' = [tool EXCEPT !.at = IF Named = {} THEN "start" ELSE "stop", !.doomed = Named,
                            !.overlooked = Alive # Named]
    /\ IF Named = {} THEN UNCHANGED <<agent, disk, unit>>
       ELSE \E p \in Named : Terminated(p, FALSE)

\* It is gone, or killed after two seconds.
StopEnds ==
    /\ tool.at = "stop"
    /\ \E p \in tool.doomed :
        IF p \in Alive THEN Ends(p, TRUE) ELSE UNCHANGED <<agent, disk, unit>>
    /\ tool' = [tool EXCEPT !.at = "start", !.doomed = {}]

StartsProcess ==
    /\ tool.at = "start"
    /\ \E p \in Procs : Exec(p, FALSE)
    /\ tool' = [tool EXCEPT !.at = "poll"]
    /\ UNCHANGED <<disk, unit>>

\* `hopty status' is answered by the agent that the socket leads to, or the
\* installer gives up after 35 attempts.
PollEnds ==
    /\ tool.at = "poll"
    /\ \/ \E p \in Alive : /\ disk.sock = p /\ agent[p].at = "run"
                            /\ tool' = [tool EXCEPT !.at = "idle", !.answer = agent[p].version]
       \/ tool' = [tool EXCEPT !.at = "idle"]
    /\ UNCHANGED <<agent, disk, unit>>

----------------------------------------------------------------------------
(* The uninstaller.                                                        *)

\* stopUserService: if systemctl knows the unit and it is active, it is
\* stopped; if it is not active, it is only disabled. Or systemctl is of no
\* use.
StopsUnit(usable) ==
    /\ tool.at = "idle" /\ disk.bin # 0
    /\ tool' = [tool EXCEPT !.job = "uninstall", !.at = "unit", !.answer = 0,
                            !.handled = usable /\ unit = "active"]
    /\ IF tool.handled' THEN \E p \in UnitProcs : Terminated(p, TRUE)
       ELSE UNCHANGED <<agent, disk, unit>>

\* stopAgentProcesses: the agents that /proc lists, one after the other.
Scans ==
    /\ tool.at = "unit"
    /\ tool.handled => unit = "off"
    /\ tool' = [tool EXCEPT !.at = "scan", !.doomed = Alive]
    /\ UNCHANGED <<agent, disk, unit>>

Terminates(p) ==
    /\ tool.at = "scan" /\ p \in tool.doomed \cap Alive
    /\ agent[p].at \notin Leaving
    /\ Terminated(p, FALSE)
    /\ UNCHANGED tool

\* Mutant of Passes: it is not killed when it takes longer than two seconds.
PassesAlive(p) ==
    /\ tool.at = "scan" /\ p \in tool.doomed
    /\ p \in Alive => agent[p].at \in Leaving
    /\ tool' = [tool EXCEPT !.doomed = @ \ {p}]
    /\ UNCHANGED <<agent, disk, unit>>

Passes(p) ==
    /\ tool.at = "scan" /\ p \in tool.doomed
    /\ p \in Alive => agent[p].at \in Leaving
    /\ IF p \in Alive THEN Ends(p, TRUE) ELSE UNCHANGED <<agent, disk, unit>>
    /\ tool' = [tool EXCEPT !.doomed = @ \ {p}]

\* RemoveAll.
RemovesFiles ==
    /\ tool.at = "scan" /\ tool.doomed = {}
    /\ tool' = [tool EXCEPT !.at = "gone"]
    /\ disk' = [disk EXCEPT !.key = None, !.sock = None, !.pid = None, !.bin = 0]
    /\ UNCHANGED <<agent, unit>>

\* What the user asks for, and what the tool then does.
Asks == /\ \/ \E job \in {"install", "upgrade"} : Replaces(job)
           \/ \E usable \in BOOLEAN : StopsUnit(usable)
        /\ UNCHANGED crashes

Tool == /\ \/ RestartsUnit \/ StartsUnit \/ StopsByPid \/ StopEnds \/ StartsProcess \/ PollEnds
           \/ Scans \/ RemovesFiles
           \/ \E p \in Procs : Terminates(p) \/ Passes(p)
        /\ UNCHANGED crashes

Next == Asks \/ Tool \/ \E p \in Procs : Agent(p) \/ Crash(p) \/ UnitRestarts(p)

Spec == Init /\ [][Next]_vars

(***************************************************************************)
(* Fairness: processes run, systemd restarts, the tools do not stop        *)
(* halfway (each of their waits is limited); the user asks or does not.    *)
(***************************************************************************)
Fairness == /\ \A p \in Procs : WF_vars(Agent(p))
            /\ WF_vars(\E p \in Procs : UnitRestarts(p))
            /\ WF_vars(Tool)

FairSpec == Spec /\ Fairness

----------------------------------------------------------------------------
(* Properties.                                                             *)

Removed == tool.at = "gone"

\* Agents that are started together agree on one identity, the one on disk:
\* none uses a key that it lost the race to write, or an empty one.
OneIdentity ==
    \A p \in Alive :
        agent[p].at \notin {"load", "create", "write", "reload"} /\ ~Removed
            => agent[p].key = disk.key /\ disk.key \in Procs

\* The agent that runs has the lock, and the socket and the pid file lead to
\* it: no agent that fails to start, crashed or is on its way out takes them
\* away from it.
RunningIsReachable ==
    \A p \in Alive :
        agent[p].at = "run" =>
            /\ disk.lock = p
            /\ ~Removed => disk.sock = p /\ disk.pid = p

\* When the installer reports that the agent has started, it was the new
\* version that answered; unless an agent was alive that the chosen way of
\* restarting does not reach: one that is not the unit's, or one that the pid
\* file does not name (in a first installation, any).
UpgradeTakesEffect == tool.answer # 0 /\ ~tool.overlooked => tool.answer = disk.bin

\* After an uninstallation no agent is left that was there before, and none
\* at all if the unit was found active. (One that waited for its restart, or
\* was killed behind systemd's back, is restarted: stopUserService only
\* disables a unit that is not active.)
UninstallStopsAll ==
    Removed => \A p \in Alive : agent[p].unit /\ ~tool.handled

\* A crash of the unit's agent is made good: an agent runs again, whatever
\* files the crash left. Only the empty key left by a crash between its
\* creation and its writing prevents it for ever.
SupervisedAgentRuns ==
    unit = "waiting" ~> \/ \E p \in Procs : agent[p].at = "run"
                       \/ unit \notin {"waiting", "active"}
                       \/ disk.key = Empty \/ disk.bin = 0

=============================================================================
