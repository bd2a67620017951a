SPECIFICATION FairSpec
CONSTANTS
  driver = driver
  mount = mount
  setup = setup
  app = app
  Transient = {setup, app}
  RunOnStart = {driver, setup}
  Refusing = {mount}
  SystemUnits <- MCSystemUnits
  UserUnits <- MCUserUnits
  MaxCycles = 2
  MaxFaults = 1
INVARIANTS
  TypeOK
  JobNotMissed
  OneStartAtATime
  InstalledServicesStarted
PROPERTIES
  UnitsHandled
  DetachedUnitsEnd
CHECK_DEADLOCK FALSE
