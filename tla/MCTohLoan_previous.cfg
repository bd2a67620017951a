SPECIFICATION Spec
CONSTANTS
  Clients = {a, b}
  Allowed = {a, b}
  MaxToh = 1
  MaxFaults = 1
  NoClient = NoClient
  NoLoan = NoLoan
PROPERTIES
  PreviousLoanSettled
