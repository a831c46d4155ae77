SPECIFICATION Spec
CONSTANTS
  Roles <- MCRoles
  ImplementationWorker = "evolution"
  ExemptRoles = {"scan"}
  N = 3
  RoleOf <- MCRoleOf
  Merge = {1, 3}
  Named = {1, 2}
  MaxRework = 1
  MaxTransient = 1
  MaxAlarms = 2
INVARIANTS TypeOK DoneIsVerified OneAlarmPerRole
PROPERTIES RerouteSticks
