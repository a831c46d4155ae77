SPECIFICATION Spec
CONSTANTS
  FollowUps = {f1}
  BreachLimit = 2
  BandMin = 2
  YieldWindow = 3
  YieldMin = 2
  Sla = 1
  MaxOverdue = 1
  MaxCycles = 4
  MaxFaults = 1
  MaxEdits = 1
INVARIANTS TypeOK AlarmRaised BandNeverReached DebtNeverStopsWork
PROPERTIES ShutsForGood DebtStaysOpen
