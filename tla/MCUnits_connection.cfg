SPECIFICATION Spec
CONSTANTS
  driver = driver
  mount = mount
  setup = setup
  app = app
  Transient = {setup, app}
  RunOnStart = {driver, setup}
  Refusing = {mount}
  SystemUnits <- MCSystemUnits
  UserUnits <- MCUserUnits
  MaxCycles = 1
  MaxFaults = 1
INVARIANTS
  ConnectionForUserUnits
CHECK_DEADLOCK FALSE
