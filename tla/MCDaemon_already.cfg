SPECIFICATION Spec
CONSTANTS
  lamp = lamp
  sensor = sensor
  board = board
  broken = broken
  other = other
  rom = rom
  rom2 = rom2
  BareToh = board
  HasUnits = {lamp, sensor}
  UserUnits = {lamp}
  RunOnStart = {sensor}
  Refusing = {}
  Addresses = {rom, rom2}
  Eeprom <- MCEeprom
  Tohs <- MCTohs
  Resistor <- MCResistor
  Chip <- MCChip
  Tried <- MCTried
  ChipLeaveOn <- MCChipLeaveOn
  LeaveOn <- MCLeaveOn
  Devices <- MCDevices
  MaxFaults = 0
  MaxKills = 0
  NoToh = NoToh
INVARIANTS
  AlreadyPresentAtStart
