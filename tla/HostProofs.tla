----------------------------- MODULE HostProofs -----------------------------
(***************************************************************************)
(* The safety of agents on a host for every set of process slots and       *)
(* every number of crashes: one identity, the lock and the files that lead *)
(* to who has it, and what the installer and the uninstaller may conclude. *)
(*                                                                         *)
(* HostInv has two parts.  Processes is about the agents and their files   *)
(* alone: the lock is the guard under which the socket and the pid file    *)
(* are touched, the exclusive creation of the key file the one under which *)
(* it is written.  Tools is what an installer or uninstaller, halfway, may *)
(* take for granted of the agents it has not dealt with; every step that   *)
(* starts no process keeps it for one reason (NoneStarts).                 *)
(***************************************************************************)
EXTENDS Host, TLAPS

\* systemd runs one process of the unit at a time.
OneUnitProc == \A p, q \in UnitProcs : p = q

\* The key file is empty while its creator writes it, and nobody else does;
\* who has a key has the one on disk.
Keyless == {"load", "create", "write", "reload"}

OneWriter ==
    ~Removed => \A p \in Alive : agent[p].at = "write" =>
        disk.key = Empty /\ \A q \in Alive : agent[q].at = "write" => q = p

\* The lock belongs to the process that is between taking it and leaving it.
Locking == {"unsock", "listen", "pid", "run"} \cup Leaving
LockIsHeld == \A p \in Procs : agent[p].at \in Locking <=> disk.lock = p

\* The files lead to the process that has the lock.
FilesLead ==
    ~Removed => \A p \in Alive :
        /\ agent[p].at \in {"pid", "run"} => disk.sock = p
        /\ agent[p].at = "run" => disk.pid = p

\* While the installer works: which agents may still be of the old version.
OnlyNew ==
    /\ tool.at # "idle" => tool.answer = 0
    /\ ~tool.overlooked =>
        /\ tool.at = "restart" => unit \in {"off", "stopping"} /\ \A p \in Alive : agent[p].unit
        /\ tool.at \in {"stop", "start", "poll"} => \A p \in Alive \ tool.doomed : agent[p].version = disk.bin
        /\ tool.answer # 0 => tool.answer = disk.bin

\* While the uninstaller works: which agents it has not doomed.
OnlyUnits ==
    /\ tool.handled /\ tool.at = "unit" => unit \in {"off", "stopping"}
    /\ tool.at \in {"scan", "gone"} =>
        /\ tool.handled => unit = "off"
        /\ \A p \in Alive \ tool.doomed : agent[p].unit

\* Who is doomed: the process that agent.pid named, or those the scan found.
Doomed ==
    /\ tool.at \notin {"stop", "scan"} => tool.doomed = {}
    /\ tool.at = "stop" => \A p, q \in tool.doomed : p = q

\* The types, field by field; who has the lock is left to LockIsHeld.
Stages == Starting \cup Leaving \cup {"off", "run"}
AgentState == [at : Stages, key : Procs \cup {None}, version : 0..2, unit : BOOLEAN]
DiskState == [key : Procs \cup {None, Empty}, sock : Procs \cup {None}, pid : Procs \cup {None},
              lock : Procs \cup {None}, bin : 0..2]

ProcessTypes == /\ agent \in [Procs -> AgentState] /\ disk \in DiskState
                /\ unit \in IF UnitProcs = {} THEN {"off", "waiting"} ELSE {"active", "stopping"}

\* What the processes and their files satisfy, and what the tools know of them.
Processes == ProcessTypes /\ OneUnitProc /\ OneWriter /\ OneIdentity /\ LockIsHeld /\ FilesLead
Tools == Doomed /\ OnlyNew /\ OnlyUnits

HostInv == TypeOK /\ Processes /\ Tools

\* A step in which no process is started, as the tools see it.
NoneStarts ==
    /\ Alive' \subseteq Alive /\ disk'.bin = disk.bin
    /\ \A p \in Alive' : agent'[p].version = agent[p].version /\ agent'[p].unit = agent[p].unit
    /\ unit \in {"off", "stopping"} => unit' \in {"off", "stopping"}
    /\ unit = "off" => unit' = "off"

----------------------------------------------------------------------------

\* Slots are numbered from 2: neither no process nor an empty key file is one.
LEMMA NoProcess == None \notin Procs /\ Empty \notin Procs /\ None # Empty
BY HostAssumption DEF None, Empty

\* The lock is somebody's who is alive.
LEMMA LockIsAlive == Processes => disk.lock \in Alive \cup {None}
BY NoProcess DEF Processes, ProcessTypes, DiskState, LockIsHeld, Locking, Alive, Leaving

\* An agent moves from one point of its life to another.
LEMMA GoesStep ==
    ASSUME ProcessTypes, NEW p \in Procs, NEW from, NEW to \in Stages, Goes(p, from, to)
    PROVE  /\ agent' \in [Procs -> AgentState]
           /\ \A q \in Procs \ {p} : agent'[q] = agent[q]
           /\ agent[p].at = from /\ agent'[p].at = to /\ agent'[p].key = agent[p].key
           /\ agent'[p].version = agent[p].version /\ agent'[p].unit = agent[p].unit
<1>1. agent[p] \in AgentState /\ agent'[p] = [agent[p] EXCEPT !.at = to]
  BY DEF Goes, ProcessTypes
<1>2. \A q \in Procs \ {p} : agent'[q] = agent[q]
  BY DEF Goes, ProcessTypes
<1>3. agent'[p] \in AgentState /\ agent'[p].at = to /\ agent'[p].key = agent[p].key
      /\ agent'[p].version = agent[p].version /\ agent'[p].unit = agent[p].unit
  BY <1>1 DEF AgentState
<1>4. agent' \in [Procs -> AgentState]
  BY <1>3 DEF Goes, ProcessTypes
<1> QED
  BY <1>2, <1>3, <1>4 DEF Goes

\* A process ends: it gives up its lock and leaves its files.
LEMMA EndsStep ==
    ASSUME Processes, NEW p \in Alive, NEW failed \in BOOLEAN, Ends(p, failed)
    PROVE  /\ NoneStarts /\ p \notin Alive'
           /\ (Removed <=> Removed') => Processes'
<1>1. p \in Procs /\ Nothing \in AgentState /\ Nothing.at = "off"
  BY DEF Alive, Nothing, AgentState, Stages, None
<1>2. /\ agent' \in [Procs -> AgentState] /\ agent'[p].at = "off"
      /\ \A q \in Procs \ {p} : agent'[q] = agent[q]
  BY <1>1 DEF Ends, Processes, ProcessTypes
<1>3. Alive' = Alive \ {p} /\ UnitProcs' = UnitProcs \ {p}
  BY <1>2 DEF Alive, UnitProcs
<1>4. /\ disk' \in DiskState
      /\ disk'.key = disk.key /\ disk'.sock = disk.sock /\ disk'.pid = disk.pid /\ disk'.bin = disk.bin
      /\ disk'.lock = IF disk.lock = p THEN None ELSE disk.lock
  BY DEF Ends, Processes, ProcessTypes, DiskState
<1>5. unit' = IF ~agent[p].unit THEN unit ELSE IF failed /\ unit = "active" THEN "waiting" ELSE "off"
  BY DEF Ends
<1>6. NoneStarts
  BY <1>2, <1>3, <1>4, <1>5 DEF NoneStarts, Alive
<1>7. ProcessTypes' /\ OneUnitProc'
  BY <1>2, <1>3, <1>4, <1>5 DEF Processes, ProcessTypes, OneUnitProc, UnitProcs
<1>8. LockIsHeld'
  BY <1>1, <1>2, <1>4, NoProcess DEF Processes, LockIsHeld, Locking, Leaving
<1>9. ASSUME Removed <=> Removed' PROVE OneWriter' /\ OneIdentity' /\ FilesLead'
  BY <1>2, <1>3, <1>4, <1>9 DEF Processes, OneWriter, OneIdentity, FilesLead, Alive
<1> QED
  BY <1>3, <1>6, <1>7, <1>8, <1>9 DEF Processes

\* A process is executed: it has nothing yet.
LEMMA ExecStep ==
    ASSUME Processes, Removed <=> Removed', NEW p, NEW byUnit \in BOOLEAN, Exec(p, byUnit), UNCHANGED disk,
           IF byUnit THEN unit \in {"off", "waiting"} /\ unit' = "active" ELSE UNCHANGED unit
    PROVE  /\ Processes' /\ p \in Procs \ (Alive \cup tool.doomed) /\ Alive' = Alive \cup {p}
           /\ agent'[p].version = disk.bin /\ agent'[p].unit = byUnit
           /\ \A q \in Alive : agent'[q] = agent[q]
<1>1. p \in Procs \ (Alive \cup tool.doomed)
  BY DEF Exec, Free
<1>2. /\ agent' \in [Procs -> AgentState] /\ agent'[p].at = "load"
      /\ agent'[p].version = disk.bin /\ agent'[p].unit = byUnit
      /\ \A q \in Procs \ {p} : agent'[q] = agent[q]
  <2>1. agent'[p] = [at |-> "load", key |-> None, version |-> disk.bin, unit |-> byUnit]
    BY <1>1 DEF Exec, Nothing, Processes, ProcessTypes
  <2>2. agent'[p] \in AgentState
    BY <2>1 DEF AgentState, Stages, Starting, Processes, ProcessTypes, DiskState
  <2> QED
    BY <1>1, <2>1, <2>2 DEF Exec, Processes, ProcessTypes
<1>3. Alive' = Alive \cup {p} /\ UnitProcs' = IF byUnit THEN UnitProcs \cup {p} ELSE UnitProcs
  BY <1>1, <1>2 DEF Alive, UnitProcs
<1>4. byUnit => UnitProcs = {}
  BY DEF Processes, ProcessTypes
<1>5. ProcessTypes' /\ OneUnitProc'
  BY <1>2, <1>3, <1>4 DEF Processes, ProcessTypes, OneUnitProc, UnitProcs
<1>6. LockIsHeld'
  BY <1>1, <1>2 DEF Processes, LockIsHeld, Locking, Leaving, Alive
<1>7. OneWriter' /\ OneIdentity' /\ FilesLead'
  BY <1>1, <1>2, <1>3 DEF Processes, OneWriter, OneIdentity, FilesLead, Alive
<1> QED
  BY <1>1, <1>2, <1>3, <1>5, <1>6, <1>7 DEF Processes, Alive

\* SIGTERM ends a process or sends it on its way out.
LEMMA TerminatedStep ==
    ASSUME Processes, Removed <=> Removed', NEW p \in Alive, NEW bySystemd \in BOOLEAN,
           bySystemd => agent[p].unit, Terminated(p, bySystemd)
    PROVE  NoneStarts /\ Processes' /\ (bySystemd => unit' \in {"off", "stopping"})
<1>1. CASE agent[p].at \in {"run", "unlisten"}
  <2>1. p \in Procs /\ "unlisten" \in Stages /\ ProcessTypes
    BY DEF Alive, Stages, Leaving, Processes
  <2>2. /\ Goes(p, agent[p].at, "unlisten") /\ UNCHANGED disk
        /\ unit' = IF bySystemd THEN "stopping" ELSE unit
    BY <1>1 DEF Terminated, Goes
  <2>3. /\ agent' \in [Procs -> AgentState]
        /\ \A q \in Procs \ {p} : agent'[q] = agent[q]
        /\ agent'[p].at = "unlisten" /\ agent'[p].key = agent[p].key
        /\ agent'[p].version = agent[p].version /\ agent'[p].unit = agent[p].unit
    BY <2>1, <2>2, GoesStep
  <2>4. Alive' = Alive /\ UnitProcs' = UnitProcs
    BY <1>1, <2>1, <2>3 DEF Alive, UnitProcs
  <2>5. agent[p].unit => unit \in {"active", "stopping"}
    BY DEF Processes, ProcessTypes, UnitProcs
  <2>6. NoneStarts
    BY <2>2, <2>3, <2>4, <2>5 DEF NoneStarts, Alive
  <2>7. ProcessTypes' /\ OneUnitProc'
    BY <2>2, <2>3, <2>4, <2>5 DEF Processes, ProcessTypes, OneUnitProc, UnitProcs
  <2>8. LockIsHeld'
    BY <1>1, <2>2, <2>3 DEF Processes, LockIsHeld, Locking, Leaving
  <2>9. OneWriter' /\ OneIdentity' /\ FilesLead'
    BY <1>1, <2>2, <2>3, <2>4 DEF Processes, OneWriter, OneIdentity, FilesLead, Alive
  <2> QED
    BY <2>2, <2>6, <2>7, <2>8, <2>9 DEF Processes
<1>2. CASE agent[p].at \notin {"run", "unlisten"}
  <2>1. Ends(p, FALSE) /\ unit' \in {unit, "off"} /\ (agent[p].unit => unit' = "off")
    BY <1>2 DEF Terminated, Ends
  <2> QED
    BY <2>1, EndsStep
<1> QED
  BY <1>1, <1>2

\* A move that keeps the process alive and the unit as it is: what is left to
\* show of it.
LEMMA MoveStep ==
    ASSUME Processes, Removed <=> Removed', NEW p \in Alive, agent'[p].at # "off", UNCHANGED unit,
           agent' \in [Procs -> AgentState], \A q \in Procs \ {p} : agent'[q] = agent[q],
           agent'[p].version = agent[p].version, agent'[p].unit = agent[p].unit,
           disk' \in DiskState, disk'.bin = disk.bin
    PROVE  NoneStarts /\ ProcessTypes' /\ OneUnitProc' /\ Alive' = Alive
<1>1. Alive' = Alive /\ UnitProcs' = UnitProcs
  BY DEF Alive, UnitProcs
<1> QED
  BY <1>1 DEF NoneStarts, Alive, Processes, ProcessTypes, OneUnitProc, UnitProcs

\* A move of an agent that has its lock and touches nothing the others rely on.
LEMMA GoesOn ==
    ASSUME Processes, Removed <=> Removed', NEW p \in Procs,
           NEW from \in Stages \ {"off"}, NEW to \in Stages \ {"off"},
           Goes(p, from, to), UNCHANGED unit, disk' \in DiskState, disk'.bin = disk.bin
    PROVE  /\ NoneStarts /\ ProcessTypes' /\ OneUnitProc' /\ Alive' = Alive
           /\ agent[p].at = from /\ agent'[p].at = to /\ agent'[p].key = agent[p].key
           /\ \A q \in Procs \ {p} : agent'[q] = agent[q]
<1>1. ProcessTypes
  BY DEF Processes
<1>2. p \in Alive
  BY DEF Goes, Alive
<1> QED
  BY <1>1, <1>2, GoesStep, MoveStep

\* The agent's own steps: at most one process writes the key file, and only
\* the one that has the lock touches the socket and the pid file.
LEMMA AgentStep ==
    ASSUME Processes, NEW p \in Procs, Agent(p)
    PROVE  NoneStarts /\ Processes'
<1> USE DEF Locking, Leaving, Alive
<1>1. /\ Removed <=> Removed'
      /\ ProcessTypes /\ p \in Alive /\ agent[p] \in AgentState
  BY DEF Agent, Removed, Processes, ProcessTypes, LoadsKey, CreatesKey, WritesKey, Locks,
         RemovesSocket, Listens, WritesPid, ClosesListener, RemovesPid, ClosesDaemon, Goes
<1>2. CASE Ends(p, TRUE) \/ Ends(p, FALSE)
  BY <1>1, <1>2, EndsStep
<1>3. ASSUME NEW key \in Procs, agent' = [agent EXCEPT ![p].at = "lock", ![p].key = key],
             agent[p].at \in {"load", "reload", "write"}, UNCHANGED unit,
             disk' = [disk EXCEPT !.key = key],
             ~Removed => disk.key = key \/ agent[p].at = "write"
      PROVE  NoneStarts /\ Processes'
  <2>1. agent'[p] = [agent[p] EXCEPT !.at = "lock", !.key = key] /\ \A q \in Procs \ {p} : agent'[q] = agent[q]
    BY <1>1, <1>3 DEF ProcessTypes
  <2>2. /\ agent'[p] \in AgentState /\ agent'[p].at = "lock" /\ agent'[p].key = key
        /\ agent'[p].version = agent[p].version /\ agent'[p].unit = agent[p].unit
    BY <1>1, <2>1 DEF AgentState, Stages, Starting
  <2>3. agent' \in [Procs -> AgentState]
    BY <1>1, <1>3, <2>2 DEF ProcessTypes
  <2>4. disk' \in DiskState /\ disk'.lock = disk.lock /\ disk'.bin = disk.bin /\ disk'.key = key
        /\ disk'.sock = disk.sock /\ disk'.pid = disk.pid
    BY <1>1, <1>3 DEF ProcessTypes, DiskState
  <2>5. NoneStarts /\ ProcessTypes' /\ OneUnitProc' /\ Alive' = Alive
    BY <1>1, <1>3, <2>1, <2>2, <2>3, <2>4, MoveStep
  <2>6. LockIsHeld' /\ FilesLead'
    <3>1. LockIsHeld /\ FilesLead
      BY DEF Processes
    <3>2. /\ agent[p].at \notin Locking /\ agent'[p].at \notin Locking
          /\ agent'[p].at \notin {"pid", "run"}
      BY <1>3, <2>2
    <3>3. Alive' = Alive
      BY <2>5
    <3> HIDE DEF Alive, Locking
    <3>4. /\ \A q \in Procs : agent'[q].at \in Locking <=> agent[q].at \in Locking
          /\ \A q \in Procs : agent'[q].at \in {"pid", "run"} => agent'[q] = agent[q]
      BY <2>1, <3>2, Zenon
    <3>5. LockIsHeld'
      BY <2>4, <3>1, <3>4, Zenon DEF LockIsHeld
    <3>6. Alive \subseteq Procs
      BY DEF Alive
    <3>7. \A q \in Procs : agent'[q].at = "run" => agent'[q].at \in {"pid", "run"}
      OBVIOUS
    <3>8. FilesLead'
      <4> SUFFICES ASSUME ~Removed', NEW q \in Alive'
                   PROVE  /\ agent'[q].at \in {"pid", "run"} => disk'.sock = q
                          /\ agent'[q].at = "run" => disk'.pid = q
        BY DEF FilesLead
      <4>1. ~Removed /\ q \in Alive /\ q \in Procs
        BY <1>1, <3>3, <3>6
      <4>2. /\ agent[q].at \in {"pid", "run"} => disk.sock = q
            /\ agent[q].at = "run" => disk.pid = q
        BY <3>1, <4>1 DEF FilesLead
      <4> QED
        BY <2>4, <3>4, <3>7, <4>1, <4>2, Zenon
    <3> QED
      BY <3>5, <3>8
  <2>7. CASE Removed
    BY <1>1, <2>5, <2>6, <2>7 DEF Processes, OneWriter, OneIdentity
  <2>8. CASE ~Removed
    <3>1. \A q \in Alive \ {p} : agent[q].at # "write"
      BY <1>3, <2>8, NoProcess DEF Processes, OneWriter
    <3>2. OneWriter'
      BY <2>1, <2>2, <3>1 DEF OneWriter
    <3>3. OneIdentity'
      <4>1. CASE disk.key = key
        <5>1. disk'.key = disk.key /\ ~Removed' /\ OneIdentity
          BY <1>1, <2>4, <2>8, <4>1 DEF Processes
        <5> QED
          BY <2>1, <2>2, <4>1, <2>8, <5>1, ZenonT(40) DEF OneIdentity
      <4>2. CASE agent[p].at = "write"
        <5>1. disk.key = Empty
          BY <1>1, <2>8, <4>2 DEF Processes, OneWriter
        <5>2. \A q \in Alive : agent[q].at \in {"load", "create", "write", "reload"}
          BY <2>8, <5>1, NoProcess DEF Processes, OneIdentity
        <5> QED
          BY <2>1, <2>2, <2>4, <5>2 DEF OneIdentity
      <4> QED
        BY <1>3, <2>8, <4>1, <4>2
    <3> QED
      BY <2>5, <2>6, <3>2, <3>3 DEF Processes
  <2> QED
    BY <2>7, <2>8
<1>4. CASE Goes(p, "create", "write") /\ UNCHANGED unit /\ disk' = [disk EXCEPT !.key = Empty] /\ disk.key = None
  <2>1. /\ disk' \in DiskState /\ disk'.key = Empty /\ disk'.sock = disk.sock
        /\ disk'.pid = disk.pid /\ disk'.lock = disk.lock /\ disk'.bin = disk.bin
    BY <1>1, <1>4, NoProcess DEF ProcessTypes, DiskState
  <2>2. /\ NoneStarts /\ ProcessTypes' /\ OneUnitProc' /\ Alive' = Alive
        /\ agent[p].at = "create" /\ agent'[p].at = "write" /\ agent'[p].key = agent[p].key
        /\ \A q \in Procs \ {p} : agent'[q] = agent[q]
    BY <1>1, <1>4, <2>1, GoesOn DEF Stages, Starting
  <2> QED
    BY <1>1, <1>4, <2>1, <2>2, NoProcess DEF Processes, LockIsHeld, OneWriter, OneIdentity, FilesLead
<1>5. CASE Goes(p, "create", "reload") /\ UNCHANGED unit /\ UNCHANGED disk
  <2>1. /\ disk' \in DiskState /\ disk'.key = disk.key /\ disk'.sock = disk.sock
        /\ disk'.pid = disk.pid /\ disk'.lock = disk.lock /\ disk'.bin = disk.bin
    BY <1>1, <1>5, NoProcess DEF ProcessTypes, DiskState
  <2>2. /\ NoneStarts /\ ProcessTypes' /\ OneUnitProc' /\ Alive' = Alive
        /\ agent[p].at = "create" /\ agent'[p].at = "reload" /\ agent'[p].key = agent[p].key
        /\ \A q \in Procs \ {p} : agent'[q] = agent[q]
    BY <1>1, <1>5, <2>1, GoesOn DEF Stages, Starting
  <2> QED
    BY <1>1, <1>5, <2>1, <2>2, NoProcess DEF Processes, LockIsHeld, OneWriter, OneIdentity, FilesLead
<1>6. CASE Goes(p, "load", "create") /\ UNCHANGED unit /\ UNCHANGED disk
  <2>1. /\ disk' \in DiskState /\ disk'.key = disk.key /\ disk'.sock = disk.sock
        /\ disk'.pid = disk.pid /\ disk'.lock = disk.lock /\ disk'.bin = disk.bin
    BY <1>1, <1>6, NoProcess DEF ProcessTypes, DiskState
  <2>2. /\ NoneStarts /\ ProcessTypes' /\ OneUnitProc' /\ Alive' = Alive
        /\ agent[p].at = "load" /\ agent'[p].at = "create" /\ agent'[p].key = agent[p].key
        /\ \A q \in Procs \ {p} : agent'[q] = agent[q]
    BY <1>1, <1>6, <2>1, GoesOn DEF Stages, Starting
  <2> QED
    BY <1>1, <1>6, <2>1, <2>2, NoProcess DEF Processes, LockIsHeld, OneWriter, OneIdentity, FilesLead
<1>7. CASE Goes(p, "lock", "unsock") /\ UNCHANGED unit /\ disk' = [disk EXCEPT !.lock = p] /\ disk.lock = None
  <2>1. /\ disk' \in DiskState /\ disk'.key = disk.key /\ disk'.sock = disk.sock
        /\ disk'.pid = disk.pid /\ disk'.lock = p /\ disk'.bin = disk.bin
    BY <1>1, <1>7, NoProcess DEF ProcessTypes, DiskState
  <2>2. /\ NoneStarts /\ ProcessTypes' /\ OneUnitProc' /\ Alive' = Alive
        /\ agent[p].at = "lock" /\ agent'[p].at = "unsock" /\ agent'[p].key = agent[p].key
        /\ \A q \in Procs \ {p} : agent'[q] = agent[q]
    BY <1>1, <1>7, <2>1, GoesOn DEF Stages, Starting
  <2> QED
    BY <1>1, <1>7, <2>1, <2>2, NoProcess DEF Processes, LockIsHeld, OneWriter, OneIdentity, FilesLead
<1>8. CASE Goes(p, "unsock", "listen") /\ UNCHANGED unit /\ disk' = [disk EXCEPT !.sock = None]
  <2>1. /\ disk' \in DiskState /\ disk'.key = disk.key /\ disk'.sock = None
        /\ disk'.pid = disk.pid /\ disk'.lock = disk.lock /\ disk'.bin = disk.bin
    BY <1>1, <1>8, NoProcess DEF ProcessTypes, DiskState
  <2>2. /\ NoneStarts /\ ProcessTypes' /\ OneUnitProc' /\ Alive' = Alive
        /\ agent[p].at = "unsock" /\ agent'[p].at = "listen" /\ agent'[p].key = agent[p].key
        /\ \A q \in Procs \ {p} : agent'[q] = agent[q]
    BY <1>1, <1>8, <2>1, GoesOn DEF Stages, Starting
  <2> QED
    BY <1>1, <1>8, <2>1, <2>2, NoProcess DEF Processes, LockIsHeld, OneWriter, OneIdentity, FilesLead
<1>9. CASE Goes(p, "listen", "pid") /\ UNCHANGED unit /\ disk' = [disk EXCEPT !.sock = p]
  <2>1. /\ disk' \in DiskState /\ disk'.key = disk.key /\ disk'.sock = p
        /\ disk'.pid = disk.pid /\ disk'.lock = disk.lock /\ disk'.bin = disk.bin
    BY <1>1, <1>9, NoProcess DEF ProcessTypes, DiskState
  <2>2. /\ NoneStarts /\ ProcessTypes' /\ OneUnitProc' /\ Alive' = Alive
        /\ agent[p].at = "listen" /\ agent'[p].at = "pid" /\ agent'[p].key = agent[p].key
        /\ \A q \in Procs \ {p} : agent'[q] = agent[q]
    BY <1>1, <1>9, <2>1, GoesOn DEF Stages, Starting
  <2> QED
    BY <1>1, <1>9, <2>1, <2>2, NoProcess DEF Processes, LockIsHeld, OneWriter, OneIdentity, FilesLead
<1>10. CASE Goes(p, "pid", "run") /\ UNCHANGED unit /\ disk' = [disk EXCEPT !.pid = p]
  <2>1. /\ disk' \in DiskState /\ disk'.key = disk.key /\ disk'.sock = disk.sock
        /\ disk'.pid = p /\ disk'.lock = disk.lock /\ disk'.bin = disk.bin
    BY <1>1, <1>10, NoProcess DEF ProcessTypes, DiskState
  <2>2. /\ NoneStarts /\ ProcessTypes' /\ OneUnitProc' /\ Alive' = Alive
        /\ agent[p].at = "pid" /\ agent'[p].at = "run" /\ agent'[p].key = agent[p].key
        /\ \A q \in Procs \ {p} : agent'[q] = agent[q]
    BY <1>1, <1>10, <2>1, GoesOn DEF Stages, Starting
  <2> QED
    BY <1>1, <1>10, <2>1, <2>2, NoProcess DEF Processes, LockIsHeld, OneWriter, OneIdentity, FilesLead
<1>11. CASE Goes(p, "unlisten", "unpid") /\ UNCHANGED unit /\ disk' = [disk EXCEPT !.sock = None]
  <2>1. /\ disk' \in DiskState /\ disk'.key = disk.key /\ disk'.sock = None
        /\ disk'.pid = disk.pid /\ disk'.lock = disk.lock /\ disk'.bin = disk.bin
    BY <1>1, <1>11, NoProcess DEF ProcessTypes, DiskState
  <2>2. /\ NoneStarts /\ ProcessTypes' /\ OneUnitProc' /\ Alive' = Alive
        /\ agent[p].at = "unlisten" /\ agent'[p].at = "unpid" /\ agent'[p].key = agent[p].key
        /\ \A q \in Procs \ {p} : agent'[q] = agent[q]
    BY <1>1, <1>11, <2>1, GoesOn DEF Stages, Starting
  <2> QED
    BY <1>1, <1>11, <2>1, <2>2, NoProcess DEF Processes, LockIsHeld, OneWriter, OneIdentity, FilesLead
<1>12. CASE Goes(p, "unpid", "remove") /\ UNCHANGED unit /\ disk' = [disk EXCEPT !.pid = None]
  <2>1. /\ disk' \in DiskState /\ disk'.key = disk.key /\ disk'.sock = disk.sock
        /\ disk'.pid = None /\ disk'.lock = disk.lock /\ disk'.bin = disk.bin
    BY <1>1, <1>12, NoProcess DEF ProcessTypes, DiskState
  <2>2. /\ NoneStarts /\ ProcessTypes' /\ OneUnitProc' /\ Alive' = Alive
        /\ agent[p].at = "unpid" /\ agent'[p].at = "remove" /\ agent'[p].key = agent[p].key
        /\ \A q \in Procs \ {p} : agent'[q] = agent[q]
    BY <1>1, <1>12, <2>1, GoesOn DEF Stages, Starting
  <2> QED
    BY <1>1, <1>12, <2>1, <2>2, NoProcess DEF Processes, LockIsHeld, OneWriter, OneIdentity, FilesLead
<1>13. CASE Goes(p, "remove", "unlock") /\ UNCHANGED unit /\ disk' = [disk EXCEPT !.sock = None]
  <2>1. /\ disk' \in DiskState /\ disk'.key = disk.key /\ disk'.sock = None
        /\ disk'.pid = disk.pid /\ disk'.lock = disk.lock /\ disk'.bin = disk.bin
    BY <1>1, <1>13, NoProcess DEF ProcessTypes, DiskState
  <2>2. /\ NoneStarts /\ ProcessTypes' /\ OneUnitProc' /\ Alive' = Alive
        /\ agent[p].at = "remove" /\ agent'[p].at = "unlock" /\ agent'[p].key = agent[p].key
        /\ \A q \in Procs \ {p} : agent'[q] = agent[q]
    BY <1>1, <1>13, <2>1, GoesOn DEF Stages, Starting
  <2> QED
    BY <1>1, <1>13, <2>1, <2>2, NoProcess DEF Processes, LockIsHeld, OneWriter, OneIdentity, FilesLead
<1>14. CASE LoadsKey(p)
  <2>1. CASE disk.key \in Procs /\ agent' = [agent EXCEPT ![p].at = "lock", ![p].key = disk.key] /\ UNCHANGED <<disk, unit>>
    <3>1. disk = [disk EXCEPT !.key = disk.key]
      BY <1>1 DEF ProcessTypes, DiskState
    <3> QED
      BY <1>3, <1>14, <2>1, <3>1 DEF LoadsKey
  <2> QED
    BY <1>2, <1>6, <1>14, <2>1 DEF LoadsKey
<1>15. CASE CreatesKey(p)
  <2>1. disk = [disk EXCEPT !.key = disk.key]
    BY <1>1 DEF ProcessTypes, DiskState
  <2> QED
    BY <1>4, <1>5, <1>15, <2>1 DEF CreatesKey
<1>16. CASE WritesKey(p)
  <2>1. agent' = [agent EXCEPT ![p].at = "lock", ![p].key = p] /\ disk' = [disk EXCEPT !.key = p]
    BY <1>16 DEF WritesKey
  <2> QED
    BY <1>3, <1>16, <2>1 DEF WritesKey
<1>17. CASE Locks(p) \/ RemovesSocket(p)
  BY <1>2, <1>7, <1>8, <1>17 DEF Locks, RemovesSocket
<1>18. CASE Listens(p) \/ WritesPid(p)
  BY <1>2, <1>9, <1>10, <1>18 DEF Listens, WritesPid
<1>19. CASE ClosesListener(p) \/ RemovesPid(p) \/ ClosesDaemon(p)
  BY <1>2, <1>11, <1>12, <1>13, <1>19 DEF ClosesListener, RemovesPid, ClosesDaemon
<1> QED
  BY <1>14, <1>15, <1>16, <1>17, <1>18, <1>19 DEF Agent

----------------------------------------------------------------------------
(* The tools.                                                              *)

\* Steps that start no process and of which the tools see nothing.
LEMMA ToolsKept ==
    ASSUME Tools, NoneStarts, UNCHANGED tool
    PROVE  Tools'
BY DEF Tools, Doomed, OnlyNew, OnlyUnits, NoneStarts

\* A tool that looks and does nothing.
LEMMA ProcessesKept ==
    ASSUME Processes, UNCHANGED <<agent, disk, unit>>, Removed => Removed'
    PROVE  NoneStarts /\ Processes' /\ Alive' = Alive
BY DEF NoneStarts, Processes, ProcessTypes, UnitProcs, Alive, OneUnitProc, OneWriter, OneIdentity,
       LockIsHeld, FilesLead

\* systemd restarts its agent, while a tool works or not.
LEMMA UnitRestartsStep ==
    ASSUME Processes, Tools, NEW p \in Procs, UnitRestarts(p)
    PROVE  Processes' /\ Tools'
<1>1. /\ Processes' /\ p \in Procs \ (Alive \cup tool.doomed) /\ Alive' = Alive \cup {p}
      /\ agent'[p].version = disk.bin /\ agent'[p].unit = TRUE
      /\ \A q \in Alive : agent'[q] = agent[q]
  BY ExecStep DEF UnitRestarts, Removed
<1> QED
  BY <1>1 DEF UnitRestarts, Tools, Doomed, OnlyNew, OnlyUnits

\* The steps of the installer.
LEMMA InstallerStep ==
    ASSUME HostInv, 
           \/ \E job \in {"install", "upgrade"} : Replaces(job)
           \/ RestartsUnit \/ StartsUnit \/ StopsByPid \/ StopEnds \/ StartsProcess \/ PollEnds
    PROVE  Processes' /\ Tools'
<1>1. Processes /\ Tools /\ TypeOK
  BY DEF HostInv
<1>2. CASE \E job \in {"install", "upgrade"} : Replaces(job)
  <2>1. /\ UNCHANGED <<agent, unit>> /\ ~Removed /\ ~Removed'
        /\ tool.at = "idle" /\ tool'.at = "decide" /\ tool'.doomed = {} /\ tool'.answer = 0
        /\ disk'.bin = disk.bin + 1 /\ disk.bin \in {0, 1} /\ disk' = [disk EXCEPT !.bin = @ + 1]
    BY <1>1, <1>2 DEF Replaces, TypeOK, Removed, Tools, Doomed
  <2>2. /\ disk' \in DiskState /\ disk'.key = disk.key /\ disk'.sock = disk.sock
        /\ disk'.pid = disk.pid /\ disk'.lock = disk.lock
    BY <1>1, <2>1 DEF Processes, ProcessTypes, DiskState
  <2>3. Processes'
    BY <1>1, <2>1, <2>2 DEF Processes, ProcessTypes, UnitProcs, Alive, OneUnitProc, OneWriter,
                            OneIdentity, LockIsHeld, FilesLead
  <2>4. Tools'
    BY <2>1 DEF Tools, Doomed, OnlyNew, OnlyUnits
  <2> QED
    BY <2>3, <2>4
<1>3. CASE RestartsUnit
  <2>1. /\ tool.at = "decide" /\ tool'.at = "restart" /\ tool'.doomed = {} /\ tool'.answer = 0 /\ tool'.handled
        /\ tool'.overlooked = (Alive # UnitProcs) /\ ~Removed /\ ~Removed'
    BY <1>1, <1>3 DEF RestartsUnit, TypeOK, Removed, Tools, Doomed, OnlyNew
  <2>2. NoneStarts /\ Processes' /\ unit' \in {"off", "stopping"}
    <3>1. CASE UnitProcs = {} /\ unit' = "off" /\ UNCHANGED <<agent, disk>>
      BY <1>1, <2>1, <3>1 DEF NoneStarts, Processes, ProcessTypes, UnitProcs, Alive, OneUnitProc,
                              OneWriter, OneIdentity, LockIsHeld, FilesLead
    <3>2. ASSUME NEW p \in UnitProcs, Terminated(p, TRUE)
          PROVE  NoneStarts /\ Processes' /\ unit' \in {"off", "stopping"}
      BY <1>1, <2>1, <3>2, TerminatedStep DEF UnitProcs
    <3> QED
      BY <1>3, <3>1, <3>2 DEF RestartsUnit
  <2>3. ~tool'.overlooked => \A p \in Alive' : agent'[p].unit
    BY <2>1, <2>2 DEF NoneStarts, UnitProcs
  <2> QED
    BY <2>1, <2>2, <2>3 DEF Tools, Doomed, OnlyNew, OnlyUnits
<1>4. CASE StartsUnit
  <2>1. PICK p \in Procs : Exec(p, TRUE)
    BY <1>4 DEF StartsUnit
  <2>2. /\ tool.at = "restart" /\ unit = "off" /\ unit' = "active" /\ UNCHANGED disk
        /\ tool' = [tool EXCEPT !.at = "poll"] /\ ~Removed /\ ~Removed'
        /\ tool'.at = "poll" /\ tool'.doomed = tool.doomed /\ tool'.overlooked = tool.overlooked
        /\ tool'.answer = tool.answer
    BY <1>1, <1>4 DEF StartsUnit, TypeOK, Removed
  <2>3. /\ Processes' /\ Alive' = Alive \cup {p}
        /\ agent'[p].version = disk.bin
    BY <1>1, <2>1, <2>2, ExecStep
  <2>4. ~tool.overlooked => Alive = {}
    BY <1>1, <2>2 DEF Tools, OnlyNew, Processes, ProcessTypes, UnitProcs
  <2> QED
    BY <1>1, <2>2, <2>3, <2>4 DEF Tools, Doomed, OnlyNew, OnlyUnits
<1>5. CASE StopsByPid
  <2>1. /\ tool.at = "decide" /\ tool'.doomed = Named /\ tool'.answer = 0
        /\ tool'.at = IF Named = {} THEN "start" ELSE "stop"
        /\ tool'.overlooked = (Alive # Named) /\ ~Removed /\ ~Removed'
    BY <1>1, <1>5 DEF StopsByPid, TypeOK, Removed, Tools, OnlyNew
  <2>2. NoneStarts /\ Processes'
    <3>1. CASE UNCHANGED <<agent, disk, unit>>
      BY <1>1, <2>1, <3>1, ProcessesKept
    <3>2. ASSUME NEW p \in Named, Terminated(p, FALSE)
          PROVE  NoneStarts /\ Processes'
      BY <1>1, <2>1, <3>2, TerminatedStep DEF Named
    <3> QED
      BY <1>5, <3>1, <3>2 DEF StopsByPid
  <2>3. ~tool'.overlooked => Alive' \ tool'.doomed = {}
    BY <2>1, <2>2 DEF NoneStarts
  <2>4. \A p, q \in Named : p = q
    BY DEF Named
  <2> QED
    BY <2>1, <2>2, <2>3, <2>4 DEF Tools, Doomed, OnlyNew, OnlyUnits
<1>6. CASE StopEnds
  <2>1. /\ tool.at = "stop" /\ tool'.at = "start" /\ tool'.doomed = {} /\ ~Removed /\ ~Removed'
        /\ tool'.overlooked = tool.overlooked /\ tool'.answer = tool.answer
    BY <1>1, <1>6 DEF StopEnds, TypeOK, Removed
  <2>2. PICK p \in tool.doomed : IF p \in Alive THEN Ends(p, TRUE) ELSE UNCHANGED <<agent, disk, unit>>
    BY <1>6 DEF StopEnds
  <2>3. NoneStarts /\ Processes' /\ p \notin Alive'
    <3>1. CASE p \in Alive
      BY <1>1, <2>1, <2>2, <3>1, EndsStep
    <3>2. CASE p \notin Alive
      BY <1>1, <2>1, <2>2, <3>2, ProcessesKept
    <3> QED
      BY <3>1, <3>2
  <2>4. tool.doomed = {p}
    BY <1>1, <2>1 DEF Tools, Doomed
  <2> QED
    BY <1>1, <2>1, <2>3, <2>4 DEF NoneStarts, Tools, Doomed, OnlyNew, OnlyUnits
<1>7. CASE StartsProcess
  <2>1. PICK p \in Procs : Exec(p, FALSE)
    BY <1>7 DEF StartsProcess
  <2>2. /\ tool.at = "start" /\ UNCHANGED <<disk, unit>> /\ ~Removed /\ ~Removed'
        /\ tool'.at = "poll" /\ tool'.doomed = tool.doomed /\ tool'.overlooked = tool.overlooked
        /\ tool'.answer = tool.answer
    BY <1>1, <1>7 DEF StartsProcess, TypeOK, Removed
  <2>3. /\ Processes' /\ Alive' = Alive \cup {p}
        /\ agent'[p].version = disk.bin /\ \A q \in Alive : agent'[q] = agent[q]
    BY <1>1, <2>1, <2>2, ExecStep
  <2> QED
    BY <1>1, <2>2, <2>3 DEF Tools, Doomed, OnlyNew, OnlyUnits
<1>8. CASE PollEnds
  <2>1. /\ UNCHANGED <<agent, disk, unit>> /\ ~Removed /\ ~Removed' /\ tool.at = "poll" /\ tool'.at = "idle"
        /\ tool'.doomed = tool.doomed /\ tool'.overlooked = tool.overlooked
        /\ tool'.answer = tool.answer \/ \E p \in Alive : tool'.answer = agent[p].version
    BY <1>1, <1>8 DEF PollEnds, TypeOK, Removed
  <2>2. Processes'
    BY <1>1, <2>1, ProcessesKept
  <2> QED
    BY <1>1, <2>1, <2>2 DEF Tools, Doomed, OnlyNew, OnlyUnits
<1> QED
  BY <1>2, <1>3, <1>4, <1>5, <1>6, <1>7, <1>8

\* The steps of the uninstaller.
LEMMA UninstallerStep ==
    ASSUME HostInv,
           \/ \E usable \in BOOLEAN : StopsUnit(usable)
           \/ Scans \/ RemovesFiles
           \/ \E p \in Procs : Terminates(p) \/ Passes(p)
    PROVE  Processes' /\ Tools'
<1>1. Processes /\ Tools /\ TypeOK
  BY DEF HostInv
<1>2. ASSUME NEW usable \in BOOLEAN, StopsUnit(usable)
      PROVE  Processes' /\ Tools'
  <2>1. /\ tool.at = "idle" /\ tool'.at = "unit" /\ tool'.doomed = {} /\ tool'.answer = 0
        /\ ~Removed /\ ~Removed'
    BY <1>1, <1>2 DEF StopsUnit, TypeOK, Removed, Tools, Doomed
  <2>2. NoneStarts /\ Processes' /\ (tool'.handled => unit' \in {"off", "stopping"})
    <3>1. CASE ~tool'.handled /\ UNCHANGED <<agent, disk, unit>>
      BY <1>1, <2>1, <3>1, ProcessesKept
    <3>2. ASSUME NEW p \in UnitProcs, Terminated(p, TRUE)
          PROVE  NoneStarts /\ Processes' /\ unit' \in {"off", "stopping"}
      BY <1>1, <2>1, <3>2, TerminatedStep DEF UnitProcs
    <3> QED
      BY <1>2, <3>1, <3>2 DEF StopsUnit
  <2> QED
    BY <2>1, <2>2 DEF Tools, Doomed, OnlyNew, OnlyUnits
<1>3. CASE Scans
  <2>1. /\ tool.at = "unit" /\ tool'.at = "scan" /\ tool'.doomed = Alive /\ tool'.answer = tool.answer
        /\ tool'.handled = tool.handled /\ (tool.handled => unit = "off")
        /\ tool'.overlooked = tool.overlooked
        /\ UNCHANGED <<agent, disk, unit>> /\ ~Removed /\ ~Removed'
    BY <1>1, <1>3 DEF Scans, TypeOK, Removed
  <2>2. Processes' /\ Alive' = Alive
    BY <1>1, <2>1, ProcessesKept
  <2> QED
    BY <1>1, <2>1, <2>2 DEF Tools, Doomed, OnlyNew, OnlyUnits
<1>4. ASSUME NEW p \in Procs, Terminates(p)
      PROVE  Processes' /\ Tools'
  <2>1. p \in Alive /\ Terminated(p, FALSE) /\ UNCHANGED tool /\ (Removed <=> Removed')
    BY <1>4 DEF Terminates, Removed
  <2> QED
    BY <1>1, <2>1, TerminatedStep, ToolsKept
<1>5. ASSUME NEW p \in Procs, Passes(p)
      PROVE  Processes' /\ Tools'
  <2>1. /\ tool.at = "scan" /\ tool'.at = "scan" /\ tool'.doomed = tool.doomed \ {p}
        /\ tool'.answer = tool.answer
        /\ tool'.handled = tool.handled /\ tool'.overlooked = tool.overlooked
        /\ ~Removed /\ ~Removed'
    BY <1>1, <1>5 DEF Passes, TypeOK, Removed
  <2>2. NoneStarts /\ Processes' /\ p \notin Alive'
    <3>1. CASE p \in Alive /\ Ends(p, TRUE)
      BY <1>1, <2>1, <3>1, EndsStep
    <3>2. CASE p \notin Alive /\ UNCHANGED <<agent, disk, unit>>
      BY <1>1, <2>1, <3>2, ProcessesKept
    <3> QED
      BY <1>5, <3>1, <3>2 DEF Passes
  <2> QED
    BY <1>1, <2>1, <2>2 DEF NoneStarts, Tools, Doomed, OnlyNew, OnlyUnits
<1>6. CASE RemovesFiles
  <2>1. /\ tool.at = "scan" /\ tool'.at = "gone" /\ tool'.doomed = {} /\ tool.doomed = {}
        /\ tool'.answer = tool.answer
        /\ tool'.handled = tool.handled /\ tool'.overlooked = tool.overlooked /\ Removed'
        /\ UNCHANGED <<agent, unit>>
        /\ disk' = [disk EXCEPT !.key = None, !.sock = None, !.pid = None, !.bin = 0]
    BY <1>1, <1>6 DEF RemovesFiles, TypeOK, Removed
  <2>2. disk' \in DiskState /\ disk'.lock = disk.lock
    <3>1. disk \in DiskState
      BY <1>1 DEF Processes, ProcessTypes
    <3>2. disk' = [key |-> None, sock |-> None, pid |-> None, lock |-> disk.lock, bin |-> 0]
      BY <2>1, <3>1 DEF DiskState
    <3> QED
      BY <3>1, <3>2 DEF DiskState
  <2>3. Processes'
    BY <1>1, <2>1, <2>2 DEF Processes, ProcessTypes, UnitProcs, Alive, OneUnitProc, OneWriter,
                            OneIdentity, LockIsHeld, FilesLead
  <2>4. Alive' = Alive
    BY <2>1 DEF Alive
  <2>5. Doomed'
    BY <2>1 DEF Doomed
  <2>6. OnlyNew'
    <3>1. tool'.answer = 0
      BY <1>1, <2>1 DEF Tools, OnlyNew
    <3> QED
      BY <2>1, <3>1 DEF OnlyNew
  <2>7. OnlyUnits'
    <3>1. (tool.handled => unit = "off") /\ \A p \in Alive : agent[p].unit
      BY <1>1, <2>1 DEF Tools, OnlyUnits
    <3> QED
      BY <2>1, <2>4, <3>1 DEF OnlyUnits
  <2> QED
    BY <2>3, <2>5, <2>6, <2>7 DEF Tools
<1> QED
  BY <1>2, <1>3, <1>4, <1>5, <1>6

----------------------------------------------------------------------------
(* The theorems.                                                           *)

\* No agent, no file, no tool.
LEMMA HostInit == Init => HostInv
<1> SUFFICES ASSUME Init PROVE HostInv
  OBVIOUS
<1>1. Alive = {} /\ UnitProcs = {} /\ Nothing \in AgentState
  BY DEF Init, Alive, UnitProcs, Nothing, AgentState, Stages, None
<1>2. TypeOK
  BY <1>1, HostAssumption DEF Init, TypeOK, AgentState, Stages
<1>3. Processes
  BY <1>1, NoProcess DEF Init, Processes, ProcessTypes, DiskState, OneUnitProc, OneWriter, OneIdentity,
                         LockIsHeld, FilesLead, Nothing, Locking, Leaving
<1>4. Tools
  BY <1>1 DEF Init, Tools, Doomed, OnlyNew, OnlyUnits
<1> QED
  BY <1>2, <1>3, <1>4 DEF HostInv

\* The types of the tools.
ToolState == [job : {"none", "install", "upgrade", "uninstall"},
              at : {"idle", "decide", "restart", "stop", "start", "poll", "unit", "scan", "gone"},
              doomed : SUBSET Procs, handled : BOOLEAN, overlooked : BOOLEAN, answer : 0..2]

\* What is left of the types: the tool and the crashes.
LEMMA ToolTypes ==
    ASSUME TypeOK, agent \in [Procs -> AgentState], [Next]_vars
    PROVE  tool' \in ToolState /\ crashes' \in 0..MaxCrashes
<1>1. tool \in ToolState /\ crashes \in 0..MaxCrashes /\ Alive \subseteq Procs
  BY DEF TypeOK, ToolState, Alive
<1>2. CASE UNCHANGED vars
  BY <1>1, <1>2 DEF vars
<1>3. ASSUME NEW p \in Procs, Agent(p) \/ UnitRestarts(p)
      PROVE  tool' \in ToolState /\ crashes' \in 0..MaxCrashes
  BY <1>1, <1>3 DEF Agent, UnitRestarts
<1>4. ASSUME NEW p \in Procs, Crash(p)
      PROVE  tool' \in ToolState /\ crashes' \in 0..MaxCrashes
  <2>1. crashes < MaxCrashes /\ crashes' = crashes + 1 /\ tool' = tool
    BY <1>4 DEF Crash
  <2>2. crashes' \in 0..MaxCrashes
    BY <1>1, <2>1, HostAssumption
  <2> QED
    BY <1>1, <2>1, <2>2
<1>5. CASE Asks
  <2>1. crashes' = crashes
    BY <1>5 DEF Asks
  <2>2. ASSUME NEW job \in {"install", "upgrade"}, Replaces(job) PROVE tool' \in ToolState
    <3>1. tool' = [tool EXCEPT !.job = job, !.at = "decide", !.handled = FALSE, !.answer = 0]
      BY <2>2 DEF Replaces
    <3>2. tool' = [job |-> job, at |-> "decide", doomed |-> tool.doomed, handled |-> FALSE,
                   overlooked |-> tool.overlooked, answer |-> 0]
      BY <1>1, <3>1 DEF ToolState
    <3> QED
      BY <1>1, <3>2 DEF ToolState
  <2>3. ASSUME NEW usable \in BOOLEAN, StopsUnit(usable) PROVE tool' \in ToolState
    <3>1. tool' = [tool EXCEPT !.job = "uninstall", !.at = "unit", !.answer = 0,
                               !.handled = usable /\ unit = "active"]
      BY <2>3 DEF StopsUnit
    <3> DEFINE stops == usable /\ unit = "active"
    <3>2. stops \in BOOLEAN
      OBVIOUS
    <3>3. tool' = [job |-> "uninstall", at |-> "unit", doomed |-> tool.doomed, handled |-> stops,
                   overlooked |-> tool.overlooked, answer |-> 0]
      BY <1>1, <3>1 DEF ToolState
    <3> HIDE DEF stops
    <3> QED
      BY <1>1, <3>2, <3>3 DEF ToolState
  <2> QED
    BY <1>1, <1>5, <2>1, <2>2, <2>3 DEF Asks
<1>6. CASE Tool
  <2>1. crashes' = crashes
    BY <1>6 DEF Tool
  <2>2. CASE RestartsUnit
    <3>1. tool' = [tool EXCEPT !.at = "restart", !.handled = TRUE, !.overlooked = Alive # UnitProcs]
      BY <2>2 DEF RestartsUnit
    <3> DEFINE left == Alive # UnitProcs
    <3>2. left \in BOOLEAN /\ tool' = [tool EXCEPT !.at = "restart", !.handled = TRUE, !.overlooked = left]
      BY <3>1
    <3> HIDE DEF left
    <3> QED
      BY <1>1, <2>1, <3>2 DEF ToolState
  <2>3. CASE StopsByPid
    <3>1. tool' = [tool EXCEPT !.at = IF Named = {} THEN "start" ELSE "stop", !.doomed = Named,
                               !.overlooked = Alive # Named]
      BY <2>3 DEF StopsByPid
    <3> DEFINE left == Alive # Named
    <3> DEFINE to == IF Named = {} THEN "start" ELSE "stop"
    <3>2. /\ left \in BOOLEAN /\ to \in {"start", "stop"} /\ Named \subseteq Procs
          /\ tool' = [tool EXCEPT !.at = to, !.doomed = Named, !.overlooked = left]
      BY <1>1, <3>1 DEF Named
    <3> HIDE DEF left, to
    <3> QED
      BY <1>1, <2>1, <3>2 DEF ToolState
  <2>4. CASE StartsUnit \/ StopEnds \/ StartsProcess \/ RemovesFiles
    BY <1>1, <2>1, <2>4 DEF StartsUnit, StopEnds, StartsProcess, RemovesFiles, ToolState
  <2>5. CASE Scans
    BY <1>1, <2>1, <2>5 DEF Scans, ToolState
  <2>6. CASE PollEnds
    <3>1. \A p \in Alive : agent[p].version \in 0..2
      BY <1>1 DEF AgentState
    <3> QED
      BY <1>1, <2>1, <2>6, <3>1 DEF PollEnds, ToolState
  <2>7. ASSUME NEW p \in Procs, Terminates(p) \/ Passes(p) PROVE tool' \in ToolState
    BY <1>1, <2>7 DEF Terminates, Passes, ToolState
  <2> QED
    BY <1>1, <1>6, <2>1, <2>2, <2>3, <2>4, <2>5, <2>6, <2>7 DEF Tool
<1> QED
  BY <1>2, <1>3, <1>4, <1>5, <1>6 DEF Next

\* Every step of an agent, of a tool, of systemd and every crash keeps the
\* invariant.
LEMMA HostStep == HostInv /\ [Next]_vars => HostInv'
<1> SUFFICES ASSUME HostInv, [Next]_vars PROVE HostInv'
  OBVIOUS
<1>1. Processes /\ Tools
  BY DEF HostInv
<1>2. Processes' /\ Tools'
  <2>1. CASE UNCHANGED vars
    BY <1>1, <2>1, ProcessesKept, ToolsKept DEF vars, Removed
  <2>2. ASSUME NEW p \in Procs, Agent(p) PROVE Processes' /\ Tools'
    BY <1>1, <2>2, AgentStep, ToolsKept DEF Agent
  <2>3. ASSUME NEW p \in Procs, Crash(p) PROVE Processes' /\ Tools'
    BY <1>1, <2>3, EndsStep, ToolsKept DEF Crash, Removed
  <2>4. ASSUME NEW p \in Procs, UnitRestarts(p) PROVE Processes' /\ Tools'
    BY <1>1, <2>4, UnitRestartsStep
  <2>5. CASE Asks
    BY <2>5, InstallerStep, UninstallerStep DEF Asks
  <2>6. CASE Tool
    BY <2>6, InstallerStep, UninstallerStep DEF Tool
  <2> QED
    BY <2>1, <2>2, <2>3, <2>4, <2>5, <2>6 DEF Next
<1>3. disk' \in [key : Procs \cup {None, Empty}, sock : Procs \cup {None}, pid : Procs \cup {None},
                lock : Alive' \cup {None}, bin : 0..2]
  <2>1. disk'.lock \in Alive' \cup {None}
    BY <1>2, NoProcess DEF Processes, ProcessTypes, DiskState, LockIsHeld, Locking, Alive, Leaving
  <2> QED
    BY <1>2, <2>1 DEF Processes, ProcessTypes, DiskState
<1>4. TypeOK'
  <2>1. tool' \in ToolState /\ crashes' \in 0..MaxCrashes
    BY ToolTypes DEF HostInv, Processes, ProcessTypes
  <2> QED
    BY <1>2, <1>3, <2>1 DEF TypeOK, Processes, ProcessTypes, AgentState, Stages, ToolState
<1> QED
  BY <1>2, <1>4 DEF HostInv

\* The invariant of agents on a host (runAgent, Start, Close, LoadOrCreate,
\* install.sh, uninstall).
THEOREM HostInvariant == Spec => []HostInv
BY HostInit, HostStep, PTL DEF Spec

\* The types; with them that who has agent.lock is alive: the kernel releases
\* the lock of a process that crashes.
THEOREM HostTypes == Spec => []TypeOK
BY HostInvariant, PTL DEF HostInv

\* LoadOrCreate: agents that race to create identity.key agree on the one on
\* disk, whoever wins and whoever crashes.
THEOREM AgentsShareOneIdentity == Spec => []OneIdentity
BY HostInvariant, PTL DEF HostInv, Processes

\* Who runs has the lock, and the files lead to who has it.
LEMMA LockedIsReachable == HostInv => RunningIsReachable
BY DEF HostInv, Processes, LockIsHeld, FilesLead, Locking, Alive, RunningIsReachable

\* Start and Close under agent.lock: the socket and agent.pid lead to the agent
\* that runs, whatever agents that fail, crash or leave do.
THEOREM RunningAgentIsReachable == Spec => []RunningIsReachable
BY HostInvariant, LockedIsReachable, PTL

\* install.sh and `hopty upgrade': when the restart is reported, it was the new
\* version that answered, unless an agent was left out of it.
THEOREM UpgradesTakeEffect == Spec => []UpgradeTakesEffect
<1>1. HostInv => UpgradeTakesEffect
  BY DEF HostInv, Tools, OnlyNew, UpgradeTakesEffect
<1> QED
  BY <1>1, HostInvariant, PTL

\* uninstall: no agent that was there is left; one that systemd restarts may
\* be, if the unit was not found active.
THEOREM NothingSurvivesUninstall == Spec => []UninstallStopsAll
<1>1. HostInv => UninstallStopsAll
  BY DEF HostInv, Tools, Doomed, OnlyUnits, Processes, ProcessTypes, UnitProcs, Alive, Removed,
         UninstallStopsAll
<1> QED
  BY <1>1, HostInvariant, PTL

----------------------------------------------------------------------------
(* identity.key through the life of an installation.                       *)

\* The key on disk is not replaced while the agent is installed: not by a
\* process that lost the race to create it, not after a crash, a restart or an
\* upgrade (LoadOrCreate).
IdentityStays == disk.key \in Procs /\ ~Removed => disk'.key = disk.key \/ Removed'

\* The key file was created and its creator is gone before it wrote the key.
Torn == disk.key = Empty /\ ~Removed /\ \A p \in Procs : agent[p].at # "write"

\* No agent that finds such a file gets past it, and none replaces it: only an
\* uninstallation ends this state (LoadOrCreate has no way back from it).
TornStays ==
    Torn => /\ \A p \in Procs : agent[p].at \in {"off", "load", "create", "reload"}
            /\ Torn' \/ Removed'

\* An end, a start and a signal do not touch the key and make no writer.
LEMMA NoWriterAppears ==
    ASSUME ProcessTypes, NEW p,
           \/ \E failed \in BOOLEAN : Ends(p, failed)
           \/ \E byUnit \in BOOLEAN : Terminated(p, byUnit)
           \/ UNCHANGED disk /\ \E byUnit \in BOOLEAN : Exec(p, byUnit)
    PROVE  /\ disk'.key = disk.key
           /\ \A q \in Procs : agent'[q].at = "write" => agent[q].at = "write"
<1>1. CASE \E failed \in BOOLEAN : Ends(p, failed)
  <2>1. Nothing.at = "off" /\ agent' = [agent EXCEPT ![p] = Nothing]
    BY <1>1 DEF Ends, Nothing
  <2>2. disk'.key = disk.key
    BY <1>1 DEF Ends, ProcessTypes, DiskState
  <2> QED
    BY <2>1, <2>2 DEF ProcessTypes
<1>2. CASE agent' = [agent EXCEPT ![p].at = "unlisten"] /\ UNCHANGED disk
  <2>1. ASSUME NEW q \in Procs PROVE agent'[q] = agent[q] \/ agent'[q] = [agent[q] EXCEPT !.at = "unlisten"]
    BY <1>2, Zenon DEF ProcessTypes
  <2>2. ASSUME NEW q \in Procs PROVE [agent[q] EXCEPT !.at = "unlisten"].at = "unlisten"
    BY DEF ProcessTypes, AgentState
  <2>3. \A q \in Procs : agent'[q].at = "write" => agent[q].at = "write"
    BY <2>1, <2>2
  <2> QED
    BY <1>2, <2>3
<1>3. CASE UNCHANGED disk /\ \E byUnit \in BOOLEAN : Exec(p, byUnit)
  <2>1. PICK byUnit \in BOOLEAN : Exec(p, byUnit)
    BY <1>3
  <2> DEFINE started == [Nothing EXCEPT !.at = "load", !.version = disk.bin, !.unit = byUnit]
  <2>2. started.at = "load"
    BY DEF Nothing
  <2>3. agent' = [agent EXCEPT ![p] = started]
    BY <2>1 DEF Exec
  <2> HIDE DEF started
  <2>4. \A q \in Procs : agent'[q] = agent[q] \/ agent'[q] = started
    BY <2>3 DEF ProcessTypes
  <2> QED
    BY <1>3, <2>2, <2>4
<1>4. ASSUME NEW byUnit \in BOOLEAN, Terminated(p, byUnit)
      PROVE  Ends(p, FALSE) \/ (agent' = [agent EXCEPT ![p].at = "unlisten"] /\ UNCHANGED disk)
  BY <1>4 DEF Terminated
<1> QED
  BY <1>1, <1>2, <1>3, <1>4

\* What a step does to the key: it creates an empty one where there is none,
\* it writes one that is empty, or it is the uninstallation. Only who creates
\* the file becomes its writer.
LEMMA KeySteps ==
    ASSUME HostInv, [Next]_vars, ~Removed, ~Removed'
    PROVE  /\ \/ disk'.key = disk.key
              \/ disk.key = None
              \/ disk.key = Empty /\ \E p \in Procs : agent[p].at = "write"
           /\ disk.key # None =>
                  \A q \in Procs : agent'[q].at = "write" => agent[q].at = "write"
<1> DEFINE Quiet == /\ disk'.key = disk.key
                    /\ \A q \in Procs : agent'[q].at = "write" => agent[q].at = "write"
           Goal == /\ \/ disk'.key = disk.key
                      \/ disk.key = None
                      \/ disk.key = Empty /\ \E p \in Procs : agent[p].at = "write"
                   /\ disk.key # None =>
                          \A q \in Procs : agent'[q].at = "write" => agent[q].at = "write"
<1> SUFFICES Goal
  OBVIOUS
<1>1. ProcessTypes /\ OneWriter
  BY DEF HostInv, Processes
<1>2. Quiet => Goal
  OBVIOUS
<1>3. CASE UNCHANGED <<agent, disk>>
  BY <1>2, <1>3
<1>4. ASSUME NEW p \in Procs, Agent(p) PROVE Goal
  <2>1. CASE LoadsKey(p) \/ Locks(p) \/ RemovesSocket(p) \/ Listens(p) \/ WritesPid(p)
             \/ ClosesListener(p) \/ RemovesPid(p) \/ ClosesDaemon(p)
    <3>1. CASE Ends(p, TRUE) \/ Ends(p, FALSE)
      BY <1>1, <1>2, <3>1, NoWriterAppears
    <3>2. CASE /\ disk'.key = disk.key
               /\ \E to \in Stages \ {"write"}, key \in Procs \cup {None} :
                     \/ agent' = [agent EXCEPT ![p].at = to]
                     \/ agent' = [agent EXCEPT ![p].at = to, ![p].key = key]
      BY <1>1, <1>2, <3>2 DEF ProcessTypes, AgentState
    <3>3. disk'.key = disk.key
      BY <1>1, <2>1 DEF LoadsKey, Locks, RemovesSocket, Listens, WritesPid, ClosesListener, RemovesPid,
                        ClosesDaemon, Ends, ProcessTypes, DiskState
    <3>4. CASE LoadsKey(p)
      <4>1. "lock" \in Stages \ {"write"} /\ "create" \in Stages \ {"write"}
        BY DEF Stages, Starting
      <4>2. \/ agent' = [agent EXCEPT ![p].at = "lock", ![p].key = disk.key] /\ disk.key \in Procs
            \/ agent' = [agent EXCEPT ![p].at = "create"]
            \/ Ends(p, TRUE)
        BY <3>4, Zenon DEF LoadsKey, Goes
      <4> QED
        BY <3>1, <3>2, <3>3, <4>1, <4>2
    <3>5. CASE Locks(p) \/ Listens(p)
      BY <3>1, <3>2, <3>3, <3>5 DEF Locks, Listens, Goes, Stages, Starting
    <3>6. CASE RemovesSocket(p) \/ WritesPid(p)
      BY <3>2, <3>3, <3>6 DEF RemovesSocket, WritesPid, Goes, Stages, Starting
    <3>7. CASE ClosesListener(p) \/ RemovesPid(p) \/ ClosesDaemon(p)
      BY <3>1, <3>2, <3>3, <3>7 DEF ClosesListener, RemovesPid, ClosesDaemon, Goes, Stages, Leaving
    <3> QED
      BY <2>1, <3>4, <3>5, <3>6, <3>7
  <2>2. CASE CreatesKey(p)
    <3>1. /\ agent' = [agent EXCEPT ![p].at = IF disk.key = None THEN "write" ELSE "reload"]
          /\ disk'.key = IF disk.key = None THEN Empty ELSE disk.key
      BY <1>1, <2>2 DEF CreatesKey, Goes, ProcessTypes, DiskState
    <3> QED
      BY <1>1, <3>1 DEF ProcessTypes, AgentState
  <2>3. CASE WritesKey(p)
    <3>1. agent[p].at = "write" /\ agent' = [agent EXCEPT ![p].at = "lock", ![p].key = p]
      BY <2>3 DEF WritesKey
    <3>2. p \in Alive /\ disk.key = Empty
      BY <1>1, <3>1 DEF Alive, OneWriter
    <3>3. agent'[p].at = "lock" /\ \A q \in Procs \ {p} : agent'[q] = agent[q]
      BY <1>1, <3>1 DEF ProcessTypes, AgentState
    <3> QED
      BY <3>1, <3>2, <3>3
  <2> QED
    BY <1>4, <2>1, <2>2, <2>3 DEF Agent
<1>5. ASSUME NEW p \in Procs, Crash(p) \/ UnitRestarts(p) PROVE Goal
  BY <1>1, <1>2, <1>5, NoWriterAppears DEF Crash, UnitRestarts
<1>6. CASE Asks
  <2>1. ASSUME NEW job \in {"install", "upgrade"}, Replaces(job) PROVE Quiet
    BY <1>1, <2>1 DEF Replaces, ProcessTypes, DiskState
  <2>2. ASSUME NEW usable \in BOOLEAN, StopsUnit(usable) PROVE Quiet
    BY <1>1, <2>2, NoWriterAppears DEF StopsUnit
  <2> QED
    BY <1>2, <1>6, <2>1, <2>2 DEF Asks
<1>7. CASE Tool
  <2>1. CASE RestartsUnit \/ StopsByPid \/ StopEnds
    BY <1>1, <2>1, NoWriterAppears DEF RestartsUnit, StopsByPid, StopEnds
  <2>2. CASE StartsUnit \/ StartsProcess
    BY <1>1, <2>2, NoWriterAppears DEF StartsUnit, StartsProcess
  <2>3. CASE PollEnds \/ Scans
    <3>1. UNCHANGED <<agent, disk, unit>>
      BY <2>3, Zenon DEF PollEnds, Scans
    <3> QED
      BY <1>3, <3>1
  <2>4. ~RemovesFiles
    <3>1. RemovesFiles => tool' = [tool EXCEPT !.at = "gone"] /\ tool \in ToolState
      BY DEF RemovesFiles, HostInv, TypeOK, ToolState
    <3> QED
      BY <3>1 DEF Removed, ToolState
  <2>5. ASSUME NEW p \in Procs, Terminates(p) \/ Passes(p) PROVE Quiet
    BY <1>1, <2>5, NoWriterAppears DEF Terminates, Passes
  <2> QED
    BY <1>2, <1>7, <2>1, <2>2, <2>3, <2>4, <2>5 DEF Tool
<1> QED
  BY <1>3, <1>4, <1>5, <1>6, <1>7 DEF Next, vars

\* LoadOrCreate: an installation has one identity from the first key that is
\* written until the uninstallation.
THEOREM IdentityIsKept == Spec => [][IdentityStays]_vars
<1>1. HostInv /\ [Next]_vars => [IdentityStays]_vars
  BY KeySteps, NoProcess DEF IdentityStays
<1> QED
  BY <1>1, HostInvariant, PTL DEF Spec

\* A crash of the agent between the creation and the writing of identity.key
\* cannot be made good by restarting it, however often and by whomever: no
\* agent takes the lock again before an uninstallation.
THEOREM TornKeyIsForEver == Spec => [][TornStays]_vars
<1>1. ASSUME HostInv, Torn, NEW p \in Procs PROVE agent[p].at \in {"off", "load", "create", "reload"}
  <2>1. p \in Alive => agent[p].at \in {"load", "create", "write", "reload"}
    BY <1>1, NoProcess DEF HostInv, Processes, OneIdentity, Torn
  <2> QED
    BY <1>1, <2>1 DEF Torn, Alive
<1>2. HostInv /\ [Next]_vars => [TornStays]_vars
  BY <1>1, KeySteps, NoProcess DEF TornStays, Torn
<1> QED
  BY <1>2, HostInvariant, PTL DEF Spec
=============================================================================
