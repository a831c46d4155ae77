------------------------ MODULE DaemonLifecycleProofs ------------------------
(***************************************************************************)
(* Proofs about DaemonLifecycle for every set of pids: however many        *)
(* commands run at once and however pids are reused, where `ps` and        *)
(* `pgrep` are installed.                                                  *)
(*                                                                         *)
(* The argument: of two `start` processes that are both past their sweep,  *)
(* the one that swept last still has the other to kill (Sweeping).  So a   *)
(* daemon that has done its killing is alone with the pid file             *)
(* (PidFileOwned) and with the reload request (ReloadPending).             *)
(***************************************************************************)
EXTENDS DaemonLifecycle, TLAPS

\* Which commands pass a point.
InPlace ==
  \A p \in Procs :
    /\ pc[p] \in {"create", "write", "exists", "refused", "overwrite", "dashboard"}
               \cup DaemonPoints => cmd[p] = "start"
    /\ pc[p] \in {"sweep", "kill"} => cmd[p] \in {"start", "on", "off"}
    /\ pc[p] \in {"check", "clear"} => cmd[p] \in {"start", "on"}
    /\ pc[p] = "port" => cmd[p] \in {"on", "off", "shutdown"}
    /\ pc[p] \in {"read", "ask"} => cmd[p] \in {"stop", "off", "shutdown", "reload"}
    /\ pc[p] = "await" => cmd[p] \in {"off", "shutdown"}
    /\ pc[p] \in {"clearpid", "clearstop"} => cmd[p] \in {"stop", "off"}
    /\ pc[p] \in {"spawn", "clearall", "unstop", "end", "runs"}
         => cmd[p] \notin {"none", "start"}
    /\ pc[p] \in {"ask", "await"} => seen[p] # p

Swept(p) == cmd[p] = "start" /\ pc[p] # "sweep"
WillKill(p, q) == pc[p] = "kill" /\ q \in targets[p]

Sweeping ==
  \A p, q \in Procs : (p # q /\ Swept(p) /\ Swept(q)) => WillKill(p, q) \/ WillKill(q, p)

PidFileOwned ==
  \A p \in Procs :
    (Running(p) \/ (cmd[p] = "start" /\ pc[p] = "write")) => pidFile = NoFile \/ pidFile.pid = p

ReloadPending ==
  /\ \A p \in Procs : loaded[p] <= cfg /\ asked[p] <= cfg
  /\ \A p \in Procs :
       cmd[p] = "start" =>
         \/ reloadFile /\ Running(p)
         \/ pc[p] \in {"config", "dashboard"} \/ reloadFailed[p]
         \/ asked[p] <= loaded[p]

IInv == TypeOK /\ InPlace /\ Sweeping /\ PidFileOwned /\ ReloadPending

\* A start that has done its killing is alone.
LEMMA Alone ==
  ASSUME Sweeping, NEW p \in Procs, NEW q \in Procs, Swept(p), Swept(q),
         pc[p] # "kill", pc[q] # "kill"
  PROVE  p = q
BY DEF Sweeping, WillKill

USE CommandsAssumption, NoProcAssumption, CountsAssumption

\* The types are kept, given where each process can be.
LEMMA TypeStep ==
  ASSUME TypeOK, InPlace, [Next]_vars PROVE TypeOK'
<1>1. CASE UNCHANGED vars
  BY <1>1 DEF vars, TypeOK, AllCommands, Points, DaemonPoints, InPlace, files, conf, bounds
<1>2. CASE EditConfig
  BY <1>2 DEF EditConfig, conf, bounds, TypeOK, AllCommands, Points, DaemonPoints, InPlace
<1>3. CASE StopRequestAges
  BY <1>3 DEF StopRequestAges, conf, bounds, TypeOK, AllCommands, Points, DaemonPoints, InPlace
<1>4. ASSUME NEW p \in Procs, Command(p) \/ Crash(p) \/ Terminate(p) \/ Starting(p) \/
   DaemonStep(p) \/ Controlling(p)
       PROVE TypeOK'
  <2>1. CASE Command(p)
    BY <2>1 DEF Command, files, Begins, EntryPoint, TypeOK, AllCommands, Points, DaemonPoints,
       InPlace
  <2>2. CASE Crash(p)
    BY <2>2 DEF Crash, Exit, files, conf, Alive, End, TypeOK, AllCommands, Points, DaemonPoints,
       InPlace
  <2>3. CASE Terminate(p)
    BY <2>3 DEF Terminate, Exit, conf, NoFile, Running, DaemonPoints, End, TypeOK, AllCommands,
       Points, InPlace
  <2>4. CASE Starting(p)
    <3>1. CASE KillPort(p)
      BY <3>1 DEF KillPort, Goto, At, files, conf, bounds, Running, DaemonPoints, TypeOK,
         AllCommands, Points, InPlace
    <3>2. CASE Sweep(p)
      BY <3>2 DEF Sweep, Goto, At, files, conf, bounds, TypeOK, AllCommands, Points,
         DaemonPoints, InPlace
    <3>3. CASE KillOne(p)
      BY <3>3 DEF KillOne, End, At, files, conf, bounds, TypeOK, AllCommands, Points,
         DaemonPoints, InPlace
    <3>4. CASE KilledAll(p)
      BY <3>4 DEF KilledAll, Goto, At, files, conf, bounds, AfterSweep, TypeOK, AllCommands,
         Points, DaemonPoints, InPlace
    <3>5. CASE CheckRunning(p)
      BY <3>5 DEF CheckRunning, Goto, Exit, At, files, conf, bounds, PidRead, IsDaemonProcess,
         End, TypeOK, AllCommands, Points, DaemonPoints, InPlace
    <3>6. CASE ClearStop(p)
      BY <3>6 DEF ClearStop, Goto, At, conf, bounds, TypeOK, AllCommands, Points, DaemonPoints,
         InPlace
    <3>7. CASE SpawnDaemon(p)
      BY <3>7 DEF SpawnDaemon, At, files, EntryPoint, TypeOK, AllCommands, Points, DaemonPoints,
         InPlace
    <3>8. CASE CreatePid(p)
      BY <3>8 DEF CreatePid, Goto, At, conf, bounds, Empty, NoFile, TypeOK, AllCommands, Points,
         DaemonPoints, InPlace
    <3>9. CASE WritePid(p)
      BY <3>9 DEF WritePid, Goto, At, conf, bounds, Empty, Full, TypeOK, AllCommands, Points,
         DaemonPoints, InPlace
    <3>10. CASE RefuseStart(p)
      BY <3>10 DEF RefuseStart, Goto, At, files, conf, bounds, PidRead, Alive, TypeOK,
         AllCommands, Points, DaemonPoints, InPlace
    <3>11. CASE RefusedExits(p)
      BY <3>11 DEF RefusedExits, Exit, At, files, conf, bounds, End, TypeOK, AllCommands,
         Points, DaemonPoints, InPlace
    <3>12. CASE TakeOverPid(p)
      BY <3>12 DEF TakeOverPid, Goto, At, files, conf, bounds, PidRead, Alive, TypeOK,
         AllCommands, Points, DaemonPoints, InPlace
    <3>13. CASE OverwritePid(p)
      BY <3>13 DEF OverwritePid, Goto, At, conf, bounds, Full, TypeOK, AllCommands, Points,
         DaemonPoints, InPlace
    <3> QED
      BY <2>4, <3>1, <3>2, <3>3, <3>4, <3>5, <3>6, <3>7, <3>8, <3>9, <3>10, <3>11, <3>12, <3>13
         DEF Starting
  <2>5. CASE DaemonStep(p)
    <3>1. CASE LoopTop(p)
      BY <3>1 DEF LoopTop, Goto, At, conf, bounds, TypeOK, AllCommands, Points, DaemonPoints,
         InPlace
    <3>2. CASE LeaveLoop(p)
      BY <3>2 DEF LeaveLoop, Goto, Exit, At, conf, bounds, NoFile, End, TypeOK, AllCommands,
         Points, DaemonPoints, InPlace
    <3>3. CASE TakeReload(p)
      BY <3>3 DEF TakeReload, Goto, At, conf, bounds, TypeOK, AllCommands, Points, DaemonPoints,
         InPlace
    <3>4. CASE LoadConfig(p)
      <4>1. loaded' \in [Procs -> 0..MaxEdits]
        BY <3>4 DEF LoadConfig, TypeOK
      <4>2. reloadFailed' \in [Procs -> BOOLEAN]
        BY <3>4, Zenon DEF LoadConfig, TypeOK
      <4> QED
        BY <3>4, <4>1, <4>2 DEF LoadConfig, Goto, At, files, bounds, TypeOK, Points,
           DaemonPoints
    <3>5. CASE Work(p)
      BY <3>5 DEF Work, Goto, At, files, conf, bounds, TypeOK, AllCommands, Points,
         DaemonPoints, InPlace
    <3> QED
      BY <2>5, <3>1, <3>2, <3>3, <3>4, <3>5 DEF DaemonStep
  <2>6. CASE Controlling(p)
    <3>1. CASE ReadPid(p)
      BY <3>1 DEF ReadPid, Goto, At, files, conf, bounds, PidRead, IsDaemonProcess, TypeOK,
         AllCommands, Points, DaemonPoints, InPlace
    <3>2. CASE ClearPid(p)
      BY <3>2 DEF ClearPid, Goto, At, conf, bounds, NoFile, TypeOK, AllCommands, Points,
         DaemonPoints, InPlace
    <3>3. CASE ClearStopRequest(p)
      BY <3>3 DEF ClearStopRequest, Goto, At, conf, bounds, TypeOK, AllCommands, Points,
         DaemonPoints, InPlace
    <3>4. CASE GiveUpStop(p)
      BY <3>4 DEF GiveUpStop, Goto, At, files, conf, bounds, TypeOK, AllCommands, Points,
         DaemonPoints, InPlace
    <3>5. CASE RequestStop(p)
      BY <3>5 DEF RequestStop, Goto, At, conf, bounds, TypeOK, AllCommands, Points,
         DaemonPoints, InPlace
    <3>6. CASE AwaitExit(p)
      BY <3>6 DEF AwaitExit, At, files, conf, bounds, TypeOK, AllCommands, Points, DaemonPoints,
         InPlace
    <3>7. CASE ClearAll(p)
      BY <3>7 DEF ClearAll, Goto, At, bounds, NoFile, TypeOK, AllCommands, Points, DaemonPoints,
         InPlace
    <3>8. CASE RequestReload(p)
      BY <3>8 DEF RequestReload, Goto, At, bounds, Running, DaemonPoints, TypeOK, AllCommands,
         Points, InPlace
    <3>9. CASE ClearStaleStop(p)
      BY <3>9 DEF ClearStaleStop, Goto, At, conf, bounds, TypeOK, AllCommands, Points,
         DaemonPoints, InPlace
    <3>10. CASE Ends(p)
      BY <3>10 DEF Ends, Exit, At, files, conf, bounds, End, TypeOK, AllCommands, Points,
         DaemonPoints, InPlace
    <3> QED
      BY <2>6, <3>1, <3>2, <3>3, <3>4, <3>5, <3>6, <3>7, <3>8, <3>9, <3>10 DEF Controlling
  <2> QED
    BY <1>4, <2>1, <2>2, <2>3, <2>4, <2>5, <2>6
<1> QED
  BY <1>1, <1>2, <1>3, <1>4 DEF Next

\* A process stays on the path of its command.
LEMMA InPlaceStep ==
  ASSUME TypeOK, InPlace, [Next]_vars PROVE InPlace'
<1>1. CASE UNCHANGED vars
  BY <1>1 DEF vars, TypeOK, AllCommands, InPlace, DaemonPoints, files, conf, bounds
<1>2. CASE EditConfig
  BY <1>2 DEF EditConfig, conf, bounds, TypeOK, AllCommands, InPlace, DaemonPoints
<1>3. CASE StopRequestAges
  BY <1>3 DEF StopRequestAges, conf, bounds, TypeOK, AllCommands, InPlace, DaemonPoints
<1>4. ASSUME NEW p \in Procs, Command(p) \/ Crash(p) \/ Terminate(p) \/ Starting(p) \/
   DaemonStep(p) \/ Controlling(p)
       PROVE InPlace'
  <2>1. CASE Command(p)
    BY <2>1 DEF Command, files, Begins, EntryPoint, TypeOK, AllCommands, InPlace, DaemonPoints
  <2>2. CASE Crash(p)
    BY <2>2 DEF Crash, Exit, files, conf, Alive, End, TypeOK, AllCommands, InPlace, DaemonPoints
  <2>3. CASE Terminate(p)
    BY <2>3 DEF Terminate, Exit, conf, NoFile, Running, DaemonPoints, End, TypeOK, AllCommands,
       InPlace
  <2>4. CASE Starting(p)
    <3>1. CASE KillPort(p)
      BY <3>1 DEF KillPort, Goto, At, files, conf, bounds, Running, DaemonPoints, TypeOK,
         AllCommands, InPlace
    <3>2. CASE Sweep(p)
      BY <3>2 DEF Sweep, Goto, At, files, conf, bounds, TypeOK, AllCommands, InPlace,
         DaemonPoints
    <3>3. CASE KillOne(p)
      BY <3>3 DEF KillOne, End, At, files, conf, bounds, TypeOK, AllCommands, InPlace,
         DaemonPoints
    <3>4. CASE KilledAll(p)
      BY <3>4 DEF KilledAll, Goto, At, files, conf, bounds, AfterSweep, TypeOK, AllCommands,
         InPlace, DaemonPoints
    <3>5. CASE CheckRunning(p)
      BY <3>5 DEF CheckRunning, Goto, Exit, At, files, conf, bounds, PidRead, IsDaemonProcess,
         End, TypeOK, AllCommands, InPlace, DaemonPoints
    <3>6. CASE ClearStop(p)
      BY <3>6 DEF ClearStop, Goto, At, conf, bounds, TypeOK, AllCommands, InPlace, DaemonPoints
    <3>7. CASE SpawnDaemon(p)
      BY <3>7 DEF SpawnDaemon, At, files, EntryPoint, TypeOK, AllCommands, InPlace, DaemonPoints
    <3>8. CASE CreatePid(p)
      BY <3>8 DEF CreatePid, Goto, At, conf, bounds, Empty, NoFile, TypeOK, AllCommands,
         InPlace, DaemonPoints
    <3>9. CASE WritePid(p)
      BY <3>9 DEF WritePid, Goto, At, conf, bounds, Empty, Full, TypeOK, AllCommands, InPlace,
         DaemonPoints
    <3>10. CASE RefuseStart(p)
      BY <3>10 DEF RefuseStart, Goto, At, files, conf, bounds, PidRead, Alive, TypeOK,
         AllCommands, InPlace, DaemonPoints
    <3>11. CASE RefusedExits(p)
      BY <3>11 DEF RefusedExits, Exit, At, files, conf, bounds, End, TypeOK, AllCommands,
         InPlace, DaemonPoints
    <3>12. CASE TakeOverPid(p)
      BY <3>12 DEF TakeOverPid, Goto, At, files, conf, bounds, PidRead, Alive, TypeOK,
         AllCommands, InPlace, DaemonPoints
    <3>13. CASE OverwritePid(p)
      BY <3>13 DEF OverwritePid, Goto, At, conf, bounds, Full, TypeOK, AllCommands, InPlace,
         DaemonPoints
    <3> QED
      BY <2>4, <3>1, <3>2, <3>3, <3>4, <3>5, <3>6, <3>7, <3>8, <3>9, <3>10, <3>11, <3>12, <3>13
         DEF Starting
  <2>5. CASE DaemonStep(p)
    <3>1. CASE LoopTop(p)
      BY <3>1 DEF LoopTop, Goto, At, conf, bounds, TypeOK, AllCommands, InPlace, DaemonPoints
    <3>2. CASE LeaveLoop(p)
      BY <3>2 DEF LeaveLoop, Goto, Exit, At, conf, bounds, NoFile, End, TypeOK, AllCommands,
         InPlace, DaemonPoints
    <3>3. CASE TakeReload(p)
      BY <3>3 DEF TakeReload, Goto, At, conf, bounds, TypeOK, AllCommands, InPlace, DaemonPoints
    <3>4. CASE LoadConfig(p)
      BY <3>4 DEF LoadConfig, Goto, At, files, bounds, TypeOK, AllCommands, InPlace,
         DaemonPoints
    <3>5. CASE Work(p)
      BY <3>5 DEF Work, Goto, At, files, conf, bounds, TypeOK, AllCommands, InPlace,
         DaemonPoints
    <3> QED
      BY <2>5, <3>1, <3>2, <3>3, <3>4, <3>5 DEF DaemonStep
  <2>6. CASE Controlling(p)
    <3>1. CASE ReadPid(p)
      BY <3>1 DEF ReadPid, Goto, At, files, conf, bounds, PidRead, IsDaemonProcess, TypeOK,
         AllCommands, InPlace, DaemonPoints
    <3>2. CASE ClearPid(p)
      BY <3>2 DEF ClearPid, Goto, At, conf, bounds, NoFile, TypeOK, AllCommands, InPlace,
         DaemonPoints
    <3>3. CASE ClearStopRequest(p)
      BY <3>3 DEF ClearStopRequest, Goto, At, conf, bounds, TypeOK, AllCommands, InPlace,
         DaemonPoints
    <3>4. CASE GiveUpStop(p)
      BY <3>4 DEF GiveUpStop, Goto, At, files, conf, bounds, TypeOK, AllCommands, InPlace,
         DaemonPoints
    <3>5. CASE RequestStop(p)
      BY <3>5 DEF RequestStop, Goto, At, conf, bounds, TypeOK, AllCommands, InPlace,
         DaemonPoints
    <3>6. CASE AwaitExit(p)
      BY <3>6 DEF AwaitExit, At, files, conf, bounds, TypeOK, AllCommands, InPlace, DaemonPoints
    <3>7. CASE ClearAll(p)
      BY <3>7 DEF ClearAll, Goto, At, bounds, NoFile, TypeOK, AllCommands, InPlace, DaemonPoints
    <3>8. CASE RequestReload(p)
      BY <3>8 DEF RequestReload, Goto, At, bounds, Running, DaemonPoints, TypeOK, AllCommands,
         InPlace
    <3>9. CASE ClearStaleStop(p)
      BY <3>9 DEF ClearStaleStop, Goto, At, conf, bounds, TypeOK, AllCommands, InPlace,
         DaemonPoints
    <3>10. CASE Ends(p)
      BY <3>10 DEF Ends, Exit, At, files, conf, bounds, End, TypeOK, AllCommands, InPlace,
         DaemonPoints
    <3> QED
      BY <2>6, <3>1, <3>2, <3>3, <3>4, <3>5, <3>6, <3>7, <3>8, <3>9, <3>10 DEF Controlling
  <2> QED
    BY <1>4, <2>1, <2>2, <2>3, <2>4, <2>5, <2>6
<1> QED
  BY <1>1, <1>2, <1>3, <1>4 DEF Next

\* The last of two starts to sweep kills the other.
LEMMA SweepingStep ==
  ASSUME TypeOK, InPlace, Sweeping, ProcessTools, [Next]_vars PROVE Sweeping'
<1>1. CASE UNCHANGED vars
  BY <1>1 DEF vars, TypeOK, InPlace, DaemonPoints, Sweeping, Swept, WillKill, files, conf,
     bounds
<1>2. CASE EditConfig
  BY <1>2 DEF EditConfig, conf, bounds, TypeOK, InPlace, DaemonPoints, Sweeping, Swept, WillKill
<1>3. CASE StopRequestAges
  BY <1>3 DEF StopRequestAges, conf, bounds, TypeOK, InPlace, DaemonPoints, Sweeping, Swept,
     WillKill
<1>4. ASSUME NEW p \in Procs, Command(p) \/ Crash(p) \/ Terminate(p) \/ Starting(p) \/
   DaemonStep(p) \/ Controlling(p)
       PROVE Sweeping'
  <2>1. CASE Command(p)
    BY <2>1 DEF Command, files, Begins, EntryPoint, TypeOK, InPlace, DaemonPoints, Sweeping,
       Swept, WillKill
  <2>2. CASE Crash(p)
    BY <2>2 DEF Crash, Exit, files, conf, Alive, End, TypeOK, InPlace, DaemonPoints, Sweeping,
       Swept, WillKill
  <2>3. CASE Terminate(p)
    BY <2>3 DEF Terminate, Exit, conf, NoFile, Running, DaemonPoints, End, TypeOK, InPlace,
       Sweeping, Swept, WillKill
  <2>4. CASE Starting(p)
    <3>1. CASE KillPort(p)
      BY <3>1 DEF KillPort, Goto, At, files, conf, bounds, Running, DaemonPoints, TypeOK,
         InPlace, Sweeping, Swept, WillKill
    <3>2. CASE Sweep(p)
      BY <3>2 DEF Sweep, Goto, At, files, conf, bounds, TypeOK, InPlace, DaemonPoints, Sweeping,
         Swept, WillKill
    <3>3. CASE KillOne(p)
      BY <3>3 DEF KillOne, End, At, files, conf, bounds, TypeOK, InPlace, DaemonPoints,
         Sweeping, Swept, WillKill
    <3>4. CASE KilledAll(p)
      BY <3>4 DEF KilledAll, Goto, At, files, conf, bounds, AfterSweep, TypeOK, InPlace,
         DaemonPoints, Sweeping, Swept, WillKill
    <3>5. CASE CheckRunning(p)
      BY <3>5 DEF CheckRunning, Goto, Exit, At, files, conf, bounds, PidRead, IsDaemonProcess,
         End, TypeOK, InPlace, DaemonPoints, Sweeping, Swept, WillKill
    <3>6. CASE ClearStop(p)
      BY <3>6 DEF ClearStop, Goto, At, conf, bounds, TypeOK, InPlace, DaemonPoints, Sweeping,
         Swept, WillKill
    <3>7. CASE SpawnDaemon(p)
      BY <3>7 DEF SpawnDaemon, At, files, EntryPoint, TypeOK, InPlace, DaemonPoints, Sweeping,
         Swept, WillKill
    <3>8. CASE CreatePid(p)
      BY <3>8 DEF CreatePid, Goto, At, conf, bounds, Empty, NoFile, TypeOK, InPlace,
         DaemonPoints, Sweeping, Swept, WillKill
    <3>9. CASE WritePid(p)
      BY <3>9 DEF WritePid, Goto, At, conf, bounds, Empty, Full, TypeOK, InPlace, DaemonPoints,
         Sweeping, Swept, WillKill
    <3>10. CASE RefuseStart(p)
      BY <3>10 DEF RefuseStart, Goto, At, files, conf, bounds, PidRead, Alive, TypeOK, InPlace,
         DaemonPoints, Sweeping, Swept, WillKill
    <3>11. CASE RefusedExits(p)
      BY <3>11 DEF RefusedExits, Exit, At, files, conf, bounds, End, TypeOK, InPlace,
         DaemonPoints, Sweeping, Swept, WillKill
    <3>12. CASE TakeOverPid(p)
      BY <3>12 DEF TakeOverPid, Goto, At, files, conf, bounds, PidRead, Alive, TypeOK, InPlace,
         DaemonPoints, Sweeping, Swept, WillKill
    <3>13. CASE OverwritePid(p)
      BY <3>13 DEF OverwritePid, Goto, At, conf, bounds, Full, TypeOK, InPlace, DaemonPoints,
         Sweeping, Swept, WillKill
    <3> QED
      BY <2>4, <3>1, <3>2, <3>3, <3>4, <3>5, <3>6, <3>7, <3>8, <3>9, <3>10, <3>11, <3>12, <3>13
         DEF Starting
  <2>5. CASE DaemonStep(p)
    <3>1. CASE LoopTop(p)
      BY <3>1 DEF LoopTop, Goto, At, conf, bounds, TypeOK, InPlace, DaemonPoints, Sweeping,
         Swept, WillKill
    <3>2. CASE LeaveLoop(p)
      BY <3>2 DEF LeaveLoop, Goto, Exit, At, conf, bounds, NoFile, End, TypeOK, InPlace,
         DaemonPoints, Sweeping, Swept, WillKill
    <3>3. CASE TakeReload(p)
      BY <3>3 DEF TakeReload, Goto, At, conf, bounds, TypeOK, InPlace, DaemonPoints, Sweeping,
         Swept, WillKill
    <3>4. CASE LoadConfig(p)
      BY <3>4 DEF LoadConfig, Goto, At, files, bounds, TypeOK, InPlace, DaemonPoints, Sweeping,
         Swept, WillKill
    <3>5. CASE Work(p)
      BY <3>5 DEF Work, Goto, At, files, conf, bounds, TypeOK, InPlace, DaemonPoints, Sweeping,
         Swept, WillKill
    <3> QED
      BY <2>5, <3>1, <3>2, <3>3, <3>4, <3>5 DEF DaemonStep
  <2>6. CASE Controlling(p)
    <3>1. CASE ReadPid(p)
      BY <3>1 DEF ReadPid, Goto, At, files, conf, bounds, PidRead, IsDaemonProcess, TypeOK,
         InPlace, DaemonPoints, Sweeping, Swept, WillKill
    <3>2. CASE ClearPid(p)
      BY <3>2 DEF ClearPid, Goto, At, conf, bounds, NoFile, TypeOK, InPlace, DaemonPoints,
         Sweeping, Swept, WillKill
    <3>3. CASE ClearStopRequest(p)
      BY <3>3 DEF ClearStopRequest, Goto, At, conf, bounds, TypeOK, InPlace, DaemonPoints,
         Sweeping, Swept, WillKill
    <3>4. CASE GiveUpStop(p)
      BY <3>4 DEF GiveUpStop, Goto, At, files, conf, bounds, TypeOK, InPlace, DaemonPoints,
         Sweeping, Swept, WillKill
    <3>5. CASE RequestStop(p)
      BY <3>5 DEF RequestStop, Goto, At, conf, bounds, TypeOK, InPlace, DaemonPoints, Sweeping,
         Swept, WillKill
    <3>6. CASE AwaitExit(p)
      BY <3>6 DEF AwaitExit, At, files, conf, bounds, TypeOK, InPlace, DaemonPoints, Sweeping,
         Swept, WillKill
    <3>7. CASE ClearAll(p)
      BY <3>7 DEF ClearAll, Goto, At, bounds, NoFile, TypeOK, InPlace, DaemonPoints, Sweeping,
         Swept, WillKill
    <3>8. CASE RequestReload(p)
      BY <3>8 DEF RequestReload, Goto, At, bounds, Running, DaemonPoints, TypeOK, InPlace,
         Sweeping, Swept, WillKill
    <3>9. CASE ClearStaleStop(p)
      BY <3>9 DEF ClearStaleStop, Goto, At, conf, bounds, TypeOK, InPlace, DaemonPoints,
         Sweeping, Swept, WillKill
    <3>10. CASE Ends(p)
      BY <3>10 DEF Ends, Exit, At, files, conf, bounds, End, TypeOK, InPlace, DaemonPoints,
         Sweeping, Swept, WillKill
    <3> QED
      BY <2>6, <3>1, <3>2, <3>3, <3>4, <3>5, <3>6, <3>7, <3>8, <3>9, <3>10 DEF Controlling
  <2> QED
    BY <1>4, <2>1, <2>2, <2>3, <2>4, <2>5, <2>6
<1> QED
  BY <1>1, <1>2, <1>3, <1>4 DEF Next

\* Who writes the pid file has no rival.
LEMMA PidFileStep ==
  ASSUME TypeOK, InPlace, Sweeping, PidFileOwned, [Next]_vars PROVE PidFileOwned'
<1>1. CASE UNCHANGED vars
  BY <1>1 DEF vars, TypeOK, InPlace, DaemonPoints, Sweeping, Swept, WillKill, PidFileOwned,
     Running, NoFile, files, conf, bounds
<1>2. CASE EditConfig
  BY <1>2 DEF EditConfig, conf, bounds, TypeOK, InPlace, DaemonPoints, Sweeping, Swept,
     WillKill, PidFileOwned, Running, NoFile
<1>3. CASE StopRequestAges
  BY <1>3 DEF StopRequestAges, conf, bounds, TypeOK, InPlace, DaemonPoints, Sweeping, Swept,
     WillKill, PidFileOwned, Running, NoFile
<1>4. ASSUME NEW p \in Procs, Command(p) \/ Crash(p) \/ Terminate(p) \/ Starting(p) \/
   DaemonStep(p) \/ Controlling(p)
       PROVE PidFileOwned'
  <2>1. CASE Command(p)
    BY <2>1 DEF Command, files, Begins, EntryPoint, TypeOK, InPlace, DaemonPoints, Sweeping,
       Swept, WillKill, PidFileOwned, Running, NoFile
  <2>2. CASE Crash(p)
    BY <2>2 DEF Crash, Exit, files, conf, Alive, End, TypeOK, InPlace, DaemonPoints, Sweeping,
       Swept, WillKill, PidFileOwned, Running, NoFile
  <2>3. CASE Terminate(p)
    BY <2>3 DEF Terminate, Exit, conf, NoFile, Running, DaemonPoints, End, TypeOK, InPlace,
       Sweeping, Swept, WillKill, PidFileOwned
  <2>4. CASE Starting(p)
    <3>1. CASE KillPort(p)
      BY <3>1 DEF KillPort, Goto, At, files, conf, bounds, Running, DaemonPoints, TypeOK,
         InPlace, Sweeping, Swept, WillKill, PidFileOwned, NoFile
    <3>2. CASE Sweep(p)
      BY <3>2 DEF Sweep, Goto, At, files, conf, bounds, TypeOK, InPlace, DaemonPoints, Sweeping,
         Swept, WillKill, PidFileOwned, Running, NoFile
    <3>3. CASE KillOne(p)
      BY <3>3 DEF KillOne, End, At, files, conf, bounds, TypeOK, InPlace, DaemonPoints,
         Sweeping, Swept, WillKill, PidFileOwned, Running, NoFile
    <3>4. CASE KilledAll(p)
      BY <3>4 DEF KilledAll, Goto, At, files, conf, bounds, AfterSweep, TypeOK, InPlace,
         DaemonPoints, Sweeping, Swept, WillKill, PidFileOwned, Running, NoFile
    <3>5. CASE CheckRunning(p)
      BY <3>5 DEF CheckRunning, Goto, Exit, At, files, conf, bounds, PidRead, IsDaemonProcess,
         End, TypeOK, InPlace, DaemonPoints, Sweeping, Swept, WillKill, PidFileOwned, Running,
         NoFile
    <3>6. CASE ClearStop(p)
      BY <3>6 DEF ClearStop, Goto, At, conf, bounds, TypeOK, InPlace, DaemonPoints, Sweeping,
         Swept, WillKill, PidFileOwned, Running, NoFile
    <3>7. CASE SpawnDaemon(p)
      BY <3>7 DEF SpawnDaemon, At, files, EntryPoint, TypeOK, InPlace, DaemonPoints, Sweeping,
         Swept, WillKill, PidFileOwned, Running, NoFile
    <3>8. CASE CreatePid(p)
      BY <3>8 DEF CreatePid, Goto, At, conf, bounds, Empty, NoFile, TypeOK, InPlace,
         DaemonPoints, Sweeping, Swept, WillKill, PidFileOwned, Running
    <3>9. CASE WritePid(p)
      BY <3>9 DEF WritePid, Goto, At, conf, bounds, Empty, Full, TypeOK, InPlace, DaemonPoints,
         Sweeping, Swept, WillKill, PidFileOwned, Running, NoFile
    <3>10. CASE RefuseStart(p)
      BY <3>10 DEF RefuseStart, Goto, At, files, conf, bounds, PidRead, Alive, TypeOK, InPlace,
         DaemonPoints, Sweeping, Swept, WillKill, PidFileOwned, Running, NoFile
    <3>11. CASE RefusedExits(p)
      BY <3>11 DEF RefusedExits, Exit, At, files, conf, bounds, End, TypeOK, InPlace,
         DaemonPoints, Sweeping, Swept, WillKill, PidFileOwned, Running, NoFile
    <3>12. CASE TakeOverPid(p)
      BY <3>12 DEF TakeOverPid, Goto, At, files, conf, bounds, PidRead, Alive, TypeOK, InPlace,
         DaemonPoints, Sweeping, Swept, WillKill, PidFileOwned, Running, NoFile
    <3>13. CASE OverwritePid(p)
      BY <3>13 DEF OverwritePid, Goto, At, conf, bounds, Full, TypeOK, InPlace, DaemonPoints,
         Sweeping, Swept, WillKill, PidFileOwned, Running, NoFile
    <3> QED
      BY <2>4, <3>1, <3>2, <3>3, <3>4, <3>5, <3>6, <3>7, <3>8, <3>9, <3>10, <3>11, <3>12, <3>13
         DEF Starting
  <2>5. CASE DaemonStep(p)
    <3>1. CASE LoopTop(p)
      BY <3>1 DEF LoopTop, Goto, At, conf, bounds, TypeOK, InPlace, DaemonPoints, Sweeping,
         Swept, WillKill, PidFileOwned, Running, NoFile
    <3>2. CASE LeaveLoop(p)
      BY <3>2 DEF LeaveLoop, Goto, Exit, At, conf, bounds, NoFile, End, TypeOK, InPlace,
         DaemonPoints, Sweeping, Swept, WillKill, PidFileOwned, Running
    <3>3. CASE TakeReload(p)
      BY <3>3 DEF TakeReload, Goto, At, conf, bounds, TypeOK, InPlace, DaemonPoints, Sweeping,
         Swept, WillKill, PidFileOwned, Running, NoFile
    <3>4. CASE LoadConfig(p)
      BY <3>4 DEF LoadConfig, Goto, At, files, bounds, TypeOK, InPlace, DaemonPoints, Sweeping,
         Swept, WillKill, PidFileOwned, Running, NoFile
    <3>5. CASE Work(p)
      BY <3>5 DEF Work, Goto, At, files, conf, bounds, TypeOK, InPlace, DaemonPoints, Sweeping,
         Swept, WillKill, PidFileOwned, Running, NoFile
    <3> QED
      BY <2>5, <3>1, <3>2, <3>3, <3>4, <3>5 DEF DaemonStep
  <2>6. CASE Controlling(p)
    <3>1. CASE ReadPid(p)
      BY <3>1 DEF ReadPid, Goto, At, files, conf, bounds, PidRead, IsDaemonProcess, TypeOK,
         InPlace, DaemonPoints, Sweeping, Swept, WillKill, PidFileOwned, Running, NoFile
    <3>2. CASE ClearPid(p)
      BY <3>2 DEF ClearPid, Goto, At, conf, bounds, NoFile, TypeOK, InPlace, DaemonPoints,
         Sweeping, Swept, WillKill, PidFileOwned, Running
    <3>3. CASE ClearStopRequest(p)
      BY <3>3 DEF ClearStopRequest, Goto, At, conf, bounds, TypeOK, InPlace, DaemonPoints,
         Sweeping, Swept, WillKill, PidFileOwned, Running, NoFile
    <3>4. CASE GiveUpStop(p)
      BY <3>4 DEF GiveUpStop, Goto, At, files, conf, bounds, TypeOK, InPlace, DaemonPoints,
         Sweeping, Swept, WillKill, PidFileOwned, Running, NoFile
    <3>5. CASE RequestStop(p)
      BY <3>5 DEF RequestStop, Goto, At, conf, bounds, TypeOK, InPlace, DaemonPoints, Sweeping,
         Swept, WillKill, PidFileOwned, Running, NoFile
    <3>6. CASE AwaitExit(p)
      BY <3>6 DEF AwaitExit, At, files, conf, bounds, TypeOK, InPlace, DaemonPoints, Sweeping,
         Swept, WillKill, PidFileOwned, Running, NoFile
    <3>7. CASE ClearAll(p)
      BY <3>7 DEF ClearAll, Goto, At, bounds, NoFile, TypeOK, InPlace, DaemonPoints, Sweeping,
         Swept, WillKill, PidFileOwned, Running
    <3>8. CASE RequestReload(p)
      BY <3>8 DEF RequestReload, Goto, At, bounds, Running, DaemonPoints, TypeOK, InPlace,
         Sweeping, Swept, WillKill, PidFileOwned, NoFile
    <3>9. CASE ClearStaleStop(p)
      BY <3>9 DEF ClearStaleStop, Goto, At, conf, bounds, TypeOK, InPlace, DaemonPoints,
         Sweeping, Swept, WillKill, PidFileOwned, Running, NoFile
    <3>10. CASE Ends(p)
      BY <3>10 DEF Ends, Exit, At, files, conf, bounds, End, TypeOK, InPlace, DaemonPoints,
         Sweeping, Swept, WillKill, PidFileOwned, Running, NoFile
    <3> QED
      BY <2>6, <3>1, <3>2, <3>3, <3>4, <3>5, <3>6, <3>7, <3>8, <3>9, <3>10 DEF Controlling
  <2> QED
    BY <1>4, <2>1, <2>2, <2>3, <2>4, <2>5, <2>6
<1> QED
  BY <1>1, <1>2, <1>3, <1>4 DEF Next

\* A request is pending or was followed.
LEMMA ReloadStep ==
  ASSUME TypeOK, InPlace, Sweeping, ReloadPending, [Next]_vars PROVE ReloadPending'
<1>1. CASE UNCHANGED vars
  BY <1>1 DEF vars, TypeOK, InPlace, DaemonPoints, Sweeping, Swept, WillKill, ReloadPending,
     Running, files, conf, bounds
<1>2. CASE EditConfig
  BY <1>2 DEF EditConfig, conf, bounds, TypeOK, InPlace, DaemonPoints, Sweeping, Swept,
     WillKill, ReloadPending, Running
<1>3. CASE StopRequestAges
  BY <1>3 DEF StopRequestAges, conf, bounds, TypeOK, InPlace, DaemonPoints, Sweeping, Swept,
     WillKill, ReloadPending, Running
<1>4. ASSUME NEW p \in Procs, Command(p) \/ Crash(p) \/ Terminate(p) \/ Starting(p) \/
   DaemonStep(p) \/ Controlling(p)
       PROVE ReloadPending'
  <2>1. CASE Command(p)
    BY <2>1 DEF Command, files, Begins, EntryPoint, TypeOK, InPlace, DaemonPoints, Sweeping,
       Swept, WillKill, ReloadPending, Running
  <2>2. CASE Crash(p)
    BY <2>2 DEF Crash, Exit, files, conf, Alive, End, TypeOK, InPlace, DaemonPoints, Sweeping,
       Swept, WillKill, ReloadPending, Running
  <2>3. CASE Terminate(p)
    BY <2>3 DEF Terminate, Exit, conf, NoFile, Running, DaemonPoints, End, TypeOK, InPlace,
       Sweeping, Swept, WillKill, ReloadPending
  <2>4. CASE Starting(p)
    <3>1. CASE KillPort(p)
      BY <3>1 DEF KillPort, Goto, At, files, conf, bounds, Running, DaemonPoints, TypeOK,
         InPlace, Sweeping, Swept, WillKill, ReloadPending
    <3>2. CASE Sweep(p)
      BY <3>2 DEF Sweep, Goto, At, files, conf, bounds, TypeOK, InPlace, DaemonPoints, Sweeping,
         Swept, WillKill, ReloadPending, Running
    <3>3. CASE KillOne(p)
      BY <3>3 DEF KillOne, End, At, files, conf, bounds, TypeOK, InPlace, DaemonPoints,
         Sweeping, Swept, WillKill, ReloadPending, Running
    <3>4. CASE KilledAll(p)
      BY <3>4 DEF KilledAll, Goto, At, files, conf, bounds, AfterSweep, TypeOK, InPlace,
         DaemonPoints, Sweeping, Swept, WillKill, ReloadPending, Running
    <3>5. CASE CheckRunning(p)
      BY <3>5 DEF CheckRunning, Goto, Exit, At, files, conf, bounds, PidRead, IsDaemonProcess,
         End, TypeOK, InPlace, DaemonPoints, Sweeping, Swept, WillKill, ReloadPending, Running
    <3>6. CASE ClearStop(p)
      BY <3>6 DEF ClearStop, Goto, At, conf, bounds, TypeOK, InPlace, DaemonPoints, Sweeping,
         Swept, WillKill, ReloadPending, Running
    <3>7. CASE SpawnDaemon(p)
      BY <3>7 DEF SpawnDaemon, At, files, EntryPoint, TypeOK, InPlace, DaemonPoints, Sweeping,
         Swept, WillKill, ReloadPending, Running
    <3>8. CASE CreatePid(p)
      BY <3>8 DEF CreatePid, Goto, At, conf, bounds, Empty, NoFile, TypeOK, InPlace,
         DaemonPoints, Sweeping, Swept, WillKill, ReloadPending, Running
    <3>9. CASE WritePid(p)
      BY <3>9 DEF WritePid, Goto, At, conf, bounds, Empty, Full, TypeOK, InPlace, DaemonPoints,
         Sweeping, Swept, WillKill, ReloadPending, Running
    <3>10. CASE RefuseStart(p)
      BY <3>10 DEF RefuseStart, Goto, At, files, conf, bounds, PidRead, Alive, TypeOK, InPlace,
         DaemonPoints, Sweeping, Swept, WillKill, ReloadPending, Running
    <3>11. CASE RefusedExits(p)
      BY <3>11 DEF RefusedExits, Exit, At, files, conf, bounds, End, TypeOK, InPlace,
         DaemonPoints, Sweeping, Swept, WillKill, ReloadPending, Running
    <3>12. CASE TakeOverPid(p)
      BY <3>12 DEF TakeOverPid, Goto, At, files, conf, bounds, PidRead, Alive, TypeOK, InPlace,
         DaemonPoints, Sweeping, Swept, WillKill, ReloadPending, Running
    <3>13. CASE OverwritePid(p)
      BY <3>13 DEF OverwritePid, Goto, At, conf, bounds, Full, TypeOK, InPlace, DaemonPoints,
         Sweeping, Swept, WillKill, ReloadPending, Running
    <3> QED
      BY <2>4, <3>1, <3>2, <3>3, <3>4, <3>5, <3>6, <3>7, <3>8, <3>9, <3>10, <3>11, <3>12, <3>13
         DEF Starting
  <2>5. CASE DaemonStep(p)
    <3>1. CASE LoopTop(p)
      BY <3>1 DEF LoopTop, Goto, At, conf, bounds, TypeOK, InPlace, DaemonPoints, Sweeping,
         Swept, WillKill, ReloadPending, Running
    <3>2. CASE LeaveLoop(p)
      BY <3>2 DEF LeaveLoop, Goto, Exit, At, conf, bounds, NoFile, End, TypeOK, InPlace,
         DaemonPoints, Sweeping, Swept, WillKill, ReloadPending, Running
    <3>3. CASE TakeReload(p)
      BY <3>3 DEF TakeReload, Goto, At, conf, bounds, TypeOK, InPlace, DaemonPoints, Sweeping,
         Swept, WillKill, ReloadPending, Running
    <3>4. CASE LoadConfig(p)
      BY <3>4 DEF LoadConfig, Goto, At, files, bounds, TypeOK, InPlace, DaemonPoints, Sweeping,
         Swept, WillKill, ReloadPending, Running
    <3>5. CASE Work(p)
      BY <3>5 DEF Work, Goto, At, files, conf, bounds, TypeOK, InPlace, DaemonPoints, Sweeping,
         Swept, WillKill, ReloadPending, Running
    <3> QED
      BY <2>5, <3>1, <3>2, <3>3, <3>4, <3>5 DEF DaemonStep
  <2>6. CASE Controlling(p)
    <3>1. CASE ReadPid(p)
      BY <3>1 DEF ReadPid, Goto, At, files, conf, bounds, PidRead, IsDaemonProcess, TypeOK,
         InPlace, DaemonPoints, Sweeping, Swept, WillKill, ReloadPending, Running
    <3>2. CASE ClearPid(p)
      BY <3>2 DEF ClearPid, Goto, At, conf, bounds, NoFile, TypeOK, InPlace, DaemonPoints,
         Sweeping, Swept, WillKill, ReloadPending, Running
    <3>3. CASE ClearStopRequest(p)
      BY <3>3 DEF ClearStopRequest, Goto, At, conf, bounds, TypeOK, InPlace, DaemonPoints,
         Sweeping, Swept, WillKill, ReloadPending, Running
    <3>4. CASE GiveUpStop(p)
      BY <3>4 DEF GiveUpStop, Goto, At, files, conf, bounds, TypeOK, InPlace, DaemonPoints,
         Sweeping, Swept, WillKill, ReloadPending, Running
    <3>5. CASE RequestStop(p)
      BY <3>5 DEF RequestStop, Goto, At, conf, bounds, TypeOK, InPlace, DaemonPoints, Sweeping,
         Swept, WillKill, ReloadPending, Running
    <3>6. CASE AwaitExit(p)
      BY <3>6 DEF AwaitExit, At, files, conf, bounds, TypeOK, InPlace, DaemonPoints, Sweeping,
         Swept, WillKill, ReloadPending, Running
    <3>7. CASE ClearAll(p)
      BY <3>7 DEF ClearAll, Goto, At, bounds, NoFile, TypeOK, InPlace, DaemonPoints, Sweeping,
         Swept, WillKill, ReloadPending, Running
    <3>8. CASE RequestReload(p)
      BY <3>8 DEF RequestReload, Goto, At, bounds, Running, DaemonPoints, TypeOK, InPlace,
         Sweeping, Swept, WillKill, ReloadPending
    <3>9. CASE ClearStaleStop(p)
      BY <3>9 DEF ClearStaleStop, Goto, At, conf, bounds, TypeOK, InPlace, DaemonPoints,
         Sweeping, Swept, WillKill, ReloadPending, Running
    <3>10. CASE Ends(p)
      BY <3>10 DEF Ends, Exit, At, files, conf, bounds, End, TypeOK, InPlace, DaemonPoints,
         Sweeping, Swept, WillKill, ReloadPending, Running
    <3> QED
      BY <2>6, <3>1, <3>2, <3>3, <3>4, <3>5, <3>6, <3>7, <3>8, <3>9, <3>10 DEF Controlling
  <2> QED
    BY <1>4, <2>1, <2>2, <2>3, <2>4, <2>5, <2>6
<1> QED
  BY <1>1, <1>2, <1>3, <1>4 DEF Next

\* The inductive invariant holds in every reachable state.
THEOREM IInvHolds == ProcessTools /\ Spec => []IInv
<1>1. Init => IInv
  <2>1. Init => TypeOK
    <3>1. Init => reloadFailed \in [Procs -> BOOLEAN]
      BY Zenon DEF Init
    <3>2. Init => /\ targets \in [Procs -> SUBSET Procs]
                  /\ pidFile \in [state : {"none", "empty", "full"}, pid : Procs \cup {NoProc}]
      BY DEF Init, NoFile
    <3>3. Init => /\ stopFile \in {"none", "fresh", "old"} /\ reloadFile \in BOOLEAN
                  /\ cfg \in 0..MaxEdits
                  /\ cmd \in [Procs -> AllCommands \cup {"none"}]
                  /\ pc \in [Procs -> Points]
                  /\ seen \in [Procs -> Procs \cup {NoProc}]
      <4>1. Init => reloadFile \in BOOLEAN
        BY Zenon DEF Init
      <4> QED
        BY <4>1 DEF Init, Points
    <3>4. Init => /\ loaded \in [Procs -> 0..MaxEdits] /\ asked \in [Procs -> 0..MaxEdits]
                  /\ commands \in 0..MaxCommands /\ crashes \in 0..MaxCrashes
      BY DEF Init
    <3> QED
      BY <3>1, <3>2, <3>3, <3>4 DEF TypeOK
  <2>2. Init => InPlace /\ Sweeping /\ PidFileOwned /\ ReloadPending
    BY DEF Init, InPlace, Sweeping, Swept, PidFileOwned, ReloadPending, Running, DaemonPoints
  <2> QED
    BY <2>1, <2>2 DEF IInv
<1>2. ASSUME ProcessTools PROVE IInv /\ [Next]_vars => IInv'
  BY <1>2, TypeStep, InPlaceStep, SweepingStep, PidFileStep, ReloadStep DEF IInv
<1>3. ASSUME ProcessTools PROVE Spec => []IInv
  <2>1. IInv /\ [Next]_vars => IInv'
    BY <1>2, <1>3
  <2> QED
    BY <1>1, <2>1, PTL DEF Spec
<1> QED
  BY <1>3

\* The control files and every process keep their types.
THEOREM TypeCorrect == ProcessTools /\ Spec => []TypeOK
<1>1. IInv => TypeOK
  BY DEF IInv
<1> QED
  BY <1>1, IInvHolds, PTL

\* However many starts race, at most one daemon is in its main loop: the sweep of
\* killAllDaemonProcesses excludes the others, and O_EXCL need not.
THEOREM OneDaemon == ProcessTools /\ Spec => []AtMostOneDaemon
<1>1. IInv => AtMostOneDaemon
  BY DEF IInv, AtMostOneDaemon, Sweeping, Swept, WillKill, Running, DaemonPoints
<1> QED
  BY <1>1, IInvHolds, PTL

\* stop, off and reload find the running daemon or none, never another process.
THEOREM PidFileTrue == ProcessTools /\ Spec => []PidFileNamesDaemon
<1>1. IInv => PidFileNamesDaemon
  BY DEF IInv, PidFileNamesDaemon, PidFileOwned
<1> QED
  BY <1>1, IInvHolds, PTL

\* No edit, request, crash or new daemon makes a reload request go unheard.
THEOREM ReloadHeard == ProcessTools /\ Spec => []ReloadNotLost
<1>1. IInv => ReloadNotLost
  BY DEF IInv, ReloadNotLost, ReloadPending, Running, DaemonPoints
<1> QED
  BY <1>1, IInvHolds, PTL
=============================================================================
