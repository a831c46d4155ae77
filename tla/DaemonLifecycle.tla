--------------------------- MODULE DaemonLifecycle ---------------------------
(***************************************************************************)
(* The command line and its daemons (src/src/cli.ts,                       *)
(* src/src/core/daemon_control.ts): processes that start, stop, sweep and  *)
(* kill each other and talk through daemon.pid.json, daemon.stop.json and  *)
(* daemon.reload.json.  Each await is a step of its own; what a command    *)
(* does between two awaits is one step.                                    *)
(*                                                                         *)
(* A process is named by its pid, and the system may give the pid of a     *)
(* dead process to a new one, of this program or of another ("other").     *)
(***************************************************************************)
EXTENDS Integers, FiniteSets

CONSTANTS
  Procs,       \* pids
  NoProc,      \* no pid
  Commands,    \* commands the operator gives
  ProcessTools,\* `ps` and `pgrep` are installed
  MaxCommands, \* bound: processes started
  MaxCrashes,  \* bound: processes that die of themselves
  MaxEdits     \* bound: changes of the configuration file

AllCommands == {"start", "on", "stop", "off", "shutdown", "once", "reload", "other"}

ASSUME CommandsAssumption == Commands \subseteq AllCommands
ASSUME ToolsAssumption == ProcessTools \in BOOLEAN
ASSUME NoProcAssumption == NoProc \notin Procs
ASSUME CountsAssumption ==
  MaxCommands \in Nat /\ MaxCrashes \in Nat /\ MaxEdits \in Nat

VARIABLES
  pidFile,    \* daemon.pid.json: its state, and the pid in it (or its creator's)
  stopFile,   \* daemon.stop.json: none, fresh, or old (beyond staleMs)
  reloadFile, \* daemon.reload.json exists
  cfg,        \* version of the configuration file
  cmd,        \* cmd[p]: command process p runs, "none" when there is no p
  pc,
  seen,       \* seen[p]: pid p read from the pid file
  targets,    \* targets[p]: what p's pgrep listed and p has yet to kill
  loaded,     \* loaded[p]: configuration version the daemon p uses
  asked,      \* history: version a reload asked the running daemon p to load, until a
              \* shutdown takes the request back
  reloadFailed, \* history: p's last reload could not read the file
  commands, crashes

files == <<pidFile, stopFile, reloadFile, cfg>>
conf == <<loaded, asked, reloadFailed>>
bounds == <<commands, crashes>>
vars == <<files, cmd, pc, seen, targets, conf, bounds>>

NoFile == [state |-> "none", pid |-> NoProc]
\* Mutant: the created file already counts as written by its creator.
EmptyUnclassified(p) == [state |-> "created", pid |-> p]
Empty(p) == [state |-> "empty", pid |-> p]
Full(p) == [state |-> "full", pid |-> p]

\* readDaemonPid: a file that is missing or does not parse reads as no pid.
PidRead == IF pidFile.state = "full" THEN pidFile.pid ELSE NoProc

Alive(p) == p # NoProc /\ cmd[p] # "none"

\* isDaemonProcess: ps shows a command line with `cli.ts start`.
IsDaemonProcess(p) == ProcessTools /\ p # NoProc /\ cmd[p] = "start"

DaemonPoints == {"loop", "unpid", "reload", "config", "work"}
Running(p) == cmd[p] = "start" /\ pc[p] \in DaemonPoints

Init ==
  /\ pidFile = NoFile /\ stopFile = "none" /\ reloadFile = FALSE /\ cfg = 0
  /\ cmd = [p \in Procs |-> "none"] /\ pc = [p \in Procs |-> "down"]
  /\ seen = [p \in Procs |-> NoProc] /\ targets = [p \in Procs |-> {}]
  /\ loaded = [p \in Procs |-> 0] /\ asked = [p \in Procs |-> 0]
  /\ reloadFailed = [p \in Procs |-> FALSE]
  /\ commands = 0 /\ crashes = 0

At(p, l) == pc[p] = l
Goto(p, l) == pc' = [pc EXCEPT ![p] = l] /\ UNCHANGED cmd
\* The processes of ps end.
End(ps) ==
  /\ pc' = [p \in Procs |-> IF p \in ps THEN "down" ELSE pc[p]]
  /\ cmd' = [p \in Procs |-> IF p \in ps THEN "none" ELSE cmd[p]]
Exit(p) == End({p})

EntryPoint(c) ==
  CASE c = "start" -> "sweep"
    [] c = "on" -> "port"
    [] c \in {"stop", "off", "shutdown", "reload"} -> "read"
    [] c = "once" -> "unstop"
    [] c = "other" -> "runs"

\* A process comes up with a pid that is free; loadConfig is its first act.
Begins(p, c) ==
  /\ cmd[p] = "none" /\ commands < MaxCommands
  /\ cmd' = [cmd EXCEPT ![p] = c]
  /\ pc' = [pc EXCEPT ![p] = EntryPoint(c)]
  /\ seen' = [seen EXCEPT ![p] = NoProc]
  /\ targets' = [targets EXCEPT ![p] = {}]
  /\ loaded' = [loaded EXCEPT ![p] = cfg]
  /\ asked' = [asked EXCEPT ![p] = 0]
  /\ reloadFailed' = [reloadFailed EXCEPT ![p] = FALSE]
  /\ commands' = commands + 1
  /\ UNCHANGED crashes

(***************************************************************************)
(* The environment.                                                        *)
(***************************************************************************)
Command(p) ==
  /\ \E c \in Commands : Begins(p, c)
  /\ UNCHANGED files

Crash(p) ==
  /\ Alive(p) /\ crashes < MaxCrashes
  /\ Exit(p)
  /\ crashes' = crashes + 1
  /\ UNCHANGED <<files, seen, targets, conf, commands>>

EditConfig ==
  /\ cfg < MaxEdits
  /\ cfg' = cfg + 1
  /\ UNCHANGED <<pidFile, stopFile, reloadFile, cmd, pc, seen, targets, conf, bounds>>

\* A stop request waits beyond staleMs (two minutes), as it does while a worker runs.
StopRequestAges ==
  /\ stopFile = "fresh"
  /\ stopFile' = "old"
  /\ UNCHANGED <<pidFile, reloadFile, cfg, cmd, pc, seen, targets, conf, bounds>>

(***************************************************************************)
(* killAllDaemonProcesses, of `start`, `on` and `off`.                     *)
(***************************************************************************)
AfterSweep(p) == IF cmd[p] = "off" THEN "port" ELSE "check"

\* Mutant: the sweep kills the recorded daemon only.
SweepRecordedOnly(p) ==
  /\ At(p, "sweep")
  /\ targets' = [targets EXCEPT ![p] = {q \in {PidRead} \ {p, NoProc} : cmd[q] = "start"}]
  /\ Goto(p, "kill")
  /\ UNCHANGED <<files, seen, conf, bounds>>

\* pgrep; without it there is nobody to kill.
Sweep(p) ==
  /\ At(p, "sweep")
  /\ targets' = [targets EXCEPT ![p] =
                   {q \in Procs \ {p} : ProcessTools /\ cmd[q] = "start"}]
  /\ Goto(p, "kill")
  /\ UNCHANGED <<files, seen, conf, bounds>>

\* SIGKILL to one of the pids that pgrep listed.
KillOne(p) ==
  /\ At(p, "kill")
  /\ \E q \in targets[p] :
       /\ targets' = [targets EXCEPT ![p] = @ \ {q}]
       /\ End({q})
  /\ UNCHANGED <<files, seen, conf, bounds>>

KilledAll(p) ==
  /\ At(p, "kill") /\ targets[p] = {}
  /\ Goto(p, AfterSweep(p))
  /\ UNCHANGED <<files, seen, targets, conf, bounds>>

\* killByPort, of `on`, `off` and `shutdown`: the owner of the dashboard's port is
\* a daemon, or another program.
KillPort(p) ==
  /\ At(p, "port")
  /\ LET next == CASE cmd[p] = "on" -> "sweep" [] cmd[p] = "off" -> "end"
                   [] cmd[p] = "shutdown" -> "clearall"
     IN  \/ Goto(p, next)
         \/ \E q \in Procs :
              /\ Running(q) \/ pc[q] = "dashboard"
              /\ pc' = [pc EXCEPT ![q] = "down", ![p] = next]
              /\ cmd' = [cmd EXCEPT ![q] = "none"]
  /\ UNCHANGED <<files, seen, targets, conf, bounds>>

(***************************************************************************)
(* `start` and `on`.                                                       *)
(***************************************************************************)
CheckRunning(p) ==
  /\ At(p, "check")
  /\ \/ IsDaemonProcess(PidRead) /\ Exit(p)
     \/ ~IsDaemonProcess(PidRead) /\ Goto(p, "clear")
  /\ UNCHANGED <<files, seen, targets, conf, bounds>>

\* Starting clears a stop request.
ClearStop(p) ==
  /\ At(p, "clear")
  /\ stopFile' = "none"
  /\ Goto(p, IF cmd[p] = "on" THEN "spawn" ELSE "create")
  /\ UNCHANGED <<pidFile, reloadFile, cfg, seen, targets, conf, bounds>>

\* `on` starts a detached `start` and ends.
SpawnDaemon(p) ==
  /\ At(p, "spawn") /\ commands < MaxCommands
  /\ \E q \in Procs \ {p} :
       /\ cmd[q] = "none"
       /\ cmd' = [cmd EXCEPT ![q] = "start", ![p] = "none"]
       /\ pc' = [pc EXCEPT ![q] = EntryPoint("start"), ![p] = "down"]
       /\ seen' = [seen EXCEPT ![q] = NoProc]
       /\ targets' = [targets EXCEPT ![q] = {}]
       /\ loaded' = [loaded EXCEPT ![q] = cfg]
       /\ asked' = [asked EXCEPT ![q] = 0]
       /\ reloadFailed' = [reloadFailed EXCEPT ![q] = FALSE]
  /\ commands' = commands + 1
  /\ UNCHANGED <<files, crashes>>

\* writeDaemonPid: open with O_EXCL.
CreatePid(p) ==
  /\ At(p, "create")
  /\ \/ pidFile = NoFile /\ pidFile' = Empty(p) /\ Goto(p, "write")
     \/ pidFile # NoFile /\ UNCHANGED pidFile /\ Goto(p, "exists")
  /\ UNCHANGED <<stopFile, reloadFile, cfg, seen, targets, conf, bounds>>

\* The content goes to the file that was opened, wherever its name is by now.
WritePid(p) ==
  /\ At(p, "write")
  /\ pidFile' = IF pidFile = Empty(p) THEN Full(p) ELSE pidFile
  /\ Goto(p, "loop")
  /\ UNCHANGED <<stopFile, reloadFile, cfg, seen, targets, conf, bounds>>

\* EEXIST: refused when the recorded pid is alive, whatever program it is.
RefuseStart(p) ==
  /\ At(p, "exists") /\ Alive(PidRead)
  /\ seen' = [seen EXCEPT ![p] = PidRead]
  /\ Goto(p, "refused")
  /\ UNCHANGED <<files, targets, conf, bounds>>

RefusedExits(p) ==
  /\ At(p, "refused") /\ Exit(p)
  /\ UNCHANGED <<files, seen, targets, conf, bounds>>

TakeOverPid(p) ==
  /\ At(p, "exists") /\ ~Alive(PidRead)
  /\ Goto(p, "overwrite")
  /\ UNCHANGED <<files, seen, targets, conf, bounds>>

\* Mutant: the stale file is left as it is.
OverwritePidForgotten(p) ==
  /\ At(p, "overwrite")
  /\ Goto(p, "loop")
  /\ UNCHANGED <<files, seen, targets, conf, bounds>>

OverwritePid(p) ==
  /\ At(p, "overwrite")
  /\ pidFile' = Full(p)
  /\ Goto(p, "loop")
  /\ UNCHANGED <<stopFile, reloadFile, cfg, seen, targets, conf, bounds>>

(***************************************************************************)
(* The daemon.                                                             *)
(***************************************************************************)
\* Mutant: the loop does not look for a stop request.
LoopTopDeaf(p) ==
  /\ At(p, "loop") /\ Goto(p, "reload")
  /\ UNCHANGED <<files, seen, targets, conf, bounds>>

LoopTop(p) ==
  /\ At(p, "loop")
  /\ \/ stopFile # "none" /\ stopFile' = "none" /\ Goto(p, "unpid")
     \/ stopFile = "none" /\ UNCHANGED stopFile /\ Goto(p, "reload")
  /\ UNCHANGED <<pidFile, reloadFile, cfg, seen, targets, conf, bounds>>

\* clearDaemonPid, without a look at whose it is.  The loop has ended; the process
\* stays as the dashboard that runDaemon started, unless its port was taken.
LeaveLoop(p) ==
  /\ At(p, "unpid")
  /\ pidFile' = NoFile
  /\ Exit(p) \/ Goto(p, "dashboard")
  /\ UNCHANGED <<stopFile, reloadFile, cfg, seen, targets, conf, bounds>>

\* The request is removed before the configuration is read.
TakeReload(p) ==
  /\ At(p, "reload")
  /\ reloadFile' = FALSE
  /\ Goto(p, IF reloadFile THEN "config" ELSE "work")
  /\ UNCHANGED <<pidFile, stopFile, cfg, seen, targets, conf, bounds>>

\* Mutant: the configuration comes from a cache.
LoadConfigCached(p) ==
  /\ At(p, "config")
  /\ Goto(p, "work")
  /\ UNCHANGED <<files, seen, targets, conf, bounds>>

LoadConfig(p) ==
  /\ At(p, "config")
  /\ \/ /\ loaded' = [loaded EXCEPT ![p] = cfg]
        /\ reloadFailed' = [reloadFailed EXCEPT ![p] = FALSE]
     \/ /\ reloadFailed' = [reloadFailed EXCEPT ![p] = TRUE]
        /\ UNCHANGED loaded
  /\ Goto(p, "work")
  /\ UNCHANGED <<files, seen, targets, asked, bounds>>

\* A cycle or a resume, and the pause after it.
Work(p) ==
  /\ At(p, "work")
  /\ Goto(p, "loop")
  /\ UNCHANGED <<files, seen, targets, conf, bounds>>

\* SIGTERM or SIGINT: the handler clears the pid file and exits.
Terminate(p) ==
  /\ Running(p) \/ pc[p] = "dashboard"
  /\ crashes < MaxCrashes
  /\ pidFile' = NoFile
  /\ Exit(p)
  /\ crashes' = crashes + 1
  /\ UNCHANGED <<stopFile, reloadFile, cfg, seen, targets, conf, commands>>

(***************************************************************************)
(* `stop`, `off`, `shutdown`, `reload`, `once`.                            *)
(***************************************************************************)
ReadPid(p) ==
  /\ At(p, "read")
  /\ seen' = [seen EXCEPT ![p] = PidRead]
  /\ Goto(p, IF IsDaemonProcess(PidRead) THEN "ask"
             ELSE IF cmd[p] = "reload" THEN "end"
             ELSE IF cmd[p] = "shutdown" THEN "port" ELSE "clearpid")
  /\ UNCHANGED <<files, targets, conf, bounds>>

\* "daemon not running": the control files go.
ClearPid(p) ==
  /\ At(p, "clearpid")
  /\ pidFile' = NoFile
  /\ Goto(p, "clearstop")
  /\ UNCHANGED <<stopFile, reloadFile, cfg, seen, targets, conf, bounds>>

ClearStopRequest(p) ==
  /\ At(p, "clearstop")
  /\ stopFile' = "none"
  /\ Goto(p, IF cmd[p] = "off" THEN "sweep" ELSE "end")
  /\ UNCHANGED <<pidFile, reloadFile, cfg, seen, targets, conf, bounds>>

\* `stop` takes an old request for that of a daemon that is gone.
GiveUpStop(p) ==
  /\ At(p, "ask") /\ cmd[p] = "stop" /\ stopFile = "old"
  /\ Goto(p, "clearpid")
  /\ UNCHANGED <<files, seen, targets, conf, bounds>>

RequestStop(p) ==
  /\ At(p, "ask") /\ cmd[p] \in {"stop", "off", "shutdown"}
  /\ ~(cmd[p] = "stop" /\ stopFile = "old")
  /\ stopFile' = "fresh"
  /\ Goto(p, IF cmd[p] = "stop" THEN "end" ELSE "await")
  /\ UNCHANGED <<pidFile, reloadFile, cfg, seen, targets, conf, bounds>>

\* Eight seconds of polling, then SIGKILL if the daemon is still there.
AwaitExit(p) ==
  /\ At(p, "await")
  /\ LET next == IF cmd[p] = "off" THEN "sweep" ELSE "port"
     IN  /\ pc' = [q \in Procs |-> IF q = p THEN next
                                   ELSE IF q = seen[p] THEN "down" ELSE pc[q]]
         /\ cmd' = [cmd EXCEPT ![seen[p]] = "none"]
  /\ UNCHANGED <<files, seen, targets, conf, bounds>>

\* clearAllAIState, as far as it is about the daemon.  Requests are taken back.
ClearAll(p) ==
  /\ At(p, "clearall")
  /\ pidFile' = NoFile /\ stopFile' = "none" /\ reloadFile' = FALSE
  /\ asked' = loaded
  /\ Goto(p, "end")
  /\ UNCHANGED <<cfg, seen, targets, loaded, reloadFailed, bounds>>

RequestReload(p) ==
  /\ At(p, "ask") /\ cmd[p] = "reload"
  /\ reloadFile' = TRUE
  /\ asked' = [asked EXCEPT ![seen[p]] = IF Running(seen[p]) THEN cfg ELSE @]
  /\ Goto(p, "end")
  /\ UNCHANGED <<pidFile, stopFile, cfg, seen, targets, loaded, reloadFailed, bounds>>

\* `once` clears any stop request before its cycle.
ClearStaleStop(p) ==
  /\ At(p, "unstop")
  /\ stopFile' = "none"
  /\ Goto(p, "end")
  /\ UNCHANGED <<pidFile, reloadFile, cfg, seen, targets, conf, bounds>>

Ends(p) ==
  /\ At(p, "end")
  /\ Exit(p)
  /\ UNCHANGED <<files, seen, targets, conf, bounds>>

Starting(p) ==
  \/ KillPort(p) \/ Sweep(p) \/ KillOne(p) \/ KilledAll(p) \/ CheckRunning(p)
  \/ ClearStop(p) \/ SpawnDaemon(p) \/ CreatePid(p) \/ WritePid(p) \/ RefuseStart(p)
  \/ RefusedExits(p) \/ TakeOverPid(p) \/ OverwritePid(p)

DaemonStep(p) ==
  \/ LoopTop(p) \/ LeaveLoop(p) \/ TakeReload(p) \/ LoadConfig(p) \/ Work(p)

Controlling(p) ==
  \/ ReadPid(p) \/ ClearPid(p) \/ ClearStopRequest(p) \/ GiveUpStop(p)
  \/ RequestStop(p) \/ AwaitExit(p) \/ ClearAll(p) \/ RequestReload(p)
  \/ ClearStaleStop(p) \/ Ends(p)

Next ==
  \/ EditConfig \/ StopRequestAges
  \/ \E p \in Procs : \/ Command(p) \/ Crash(p) \/ Terminate(p)
                      \/ Starting(p) \/ DaemonStep(p) \/ Controlling(p)

Spec == Init /\ [][Next]_vars

\* Every process that is up keeps running.
FairSpec ==
  Spec /\ \A p \in Procs : WF_vars(Starting(p) \/ DaemonStep(p) \/ Controlling(p))
-----------------------------------------------------------------------------
Points == DaemonPoints \cup
  {"down", "port", "sweep", "kill", "check", "clear", "spawn", "create", "write", "exists",
   "refused", "overwrite", "read", "ask", "await", "clearpid", "clearstop",
   "clearall", "unstop", "end", "runs", "dashboard"}

TypeOK ==
  /\ pidFile \in [state : {"none", "empty", "full"}, pid : Procs \cup {NoProc}]
  /\ stopFile \in {"none", "fresh", "old"} /\ reloadFile \in BOOLEAN
  /\ cfg \in 0..MaxEdits
  /\ cmd \in [Procs -> AllCommands \cup {"none"}]
  /\ pc \in [Procs -> Points]
  /\ seen \in [Procs -> Procs \cup {NoProc}]
  /\ targets \in [Procs -> SUBSET Procs]
  /\ loaded \in [Procs -> 0..MaxEdits] /\ asked \in [Procs -> 0..MaxEdits]
  /\ reloadFailed \in [Procs -> BOOLEAN]
  /\ commands \in 0..MaxCommands /\ crashes \in 0..MaxCrashes

\* At most one daemon runs its main loop: on the shared state files one dispatcher
\* is at work, as DispatchCheckpoint supposes.
AtMostOneDaemon == \A p, q \in Procs : Running(p) /\ Running(q) => p = q

\* While a daemon runs, the pid file names no other process: stop, off and reload
\* find this daemon or none.
PidFileNamesDaemon ==
  \A p \in Procs : Running(p) => pidFile = NoFile \/ pidFile.pid = p

\* Once a daemon has taken a reload request, it uses a configuration at least as
\* new as when the request was made, whatever was edited or asked in between.
ReloadNotLost ==
  \A p \in Procs :
    (Running(p) /\ ~reloadFile /\ pc[p] # "config" /\ ~reloadFailed[p])
      => asked[p] <= loaded[p]

\* A stop request is obeyed, or taken back by another command.
StopSettles ==
  \A p \in Procs : (Running(p) /\ stopFile # "none") ~> (~Running(p) \/ stopFile = "none")

\* `stop` says "daemon not running" only of a process that is not a daemon.
StopTellsTruth ==
  [][\A p \in Procs :
       (cmd[p] = "stop" /\ pc[p] = "ask" /\ pc'[p] = "clearpid") => ~Running(seen[p])]_vars
=============================================================================
