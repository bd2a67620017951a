SPECIFICATION Spec
CONSTANTS
  Clients = {a, b}
  Allowed = {a, b}
  MaxToh = 2
  MaxFaults = 0
  NoClient = NoClient
  NoLoan = NoLoan
INVARIANTS
  OneProcessAtATime
