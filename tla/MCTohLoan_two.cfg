SPECIFICATION Spec
CONSTANTS
  Clients = {a, b}
  Allowed = {a, b}
  MaxToh = 2
  MaxFaults = 1
  NoClient = NoClient
  NoLoan = NoLoan
INVARIANTS
  TypeOK
  HolderOwnsLoan
  LoanGuarded
PROPERTIES
  PowerStaysForLoan
  LoanEndSettled
  ContractSpec
  MainLoopSpec
