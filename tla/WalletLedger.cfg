CONSTANTS
  Accounts <- MCAccounts
  Overdraft <- MCOverdraft
  Available <- MCAvailable
  Requests <- MCRequests
  Opening <- MCOpening
  NoRequest = NoRequest
  Callers = {c1, c2, c3}
SPECIFICATION Spec
SYMMETRY Symmetry
INVARIANTS ViewsAgree HonestAnswer NoStandstill
PROPERTIES Promise
