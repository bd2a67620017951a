SPECIFICATION FairSpec
CONSTANTS
  Clients = {a, b, c}
  Allowed = {a, b}
  MaxToh = 1
  MaxFaults = 0
  NoClient = NoClient
  NoLoan = NoLoan
INVARIANTS
  BorrowedHasPower
PROPERTIES
  DepartedOwnerLosesLoan
  CallsComplete
  RemovalCompletes
