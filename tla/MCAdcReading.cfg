SPECIFICATION Spec
CONSTANTS
  Resistors = {800, 804, 1740}
  Noise = {0, 1}
  Open = {1758, 4095}
  Bounce = {0, 799, 1749, 1750}
INVARIANTS
  TypeOK
  AcceptedWasSteady
  MajorityIdentified
  TouchDecides
CHECK_DEADLOCK FALSE
