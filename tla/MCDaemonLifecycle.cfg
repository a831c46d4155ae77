SPECIFICATION FairSpec
CONSTANTS
  Procs = {p1, p2}
  NoProc = NoProc
  Commands = {"start", "on", "stop", "off", "shutdown", "reload", "once", "other"}
  ProcessTools = TRUE
  MaxCommands = 4
  MaxCrashes = 1
  MaxEdits = 1
INVARIANTS TypeOK AtMostOneDaemon PidFileNamesDaemon ReloadNotLost
PROPERTY StopSettles
CHECK_DEADLOCK FALSE
