CONSTANTS
  g1 = g1
  g2 = g2
  other = other
  sdk = sdk
  cli = cli
  Callers = {g1, g2, other}
  Processes = {sdk, cli}
  ProcessOf <- MCProcessOf
SPECIFICATION Spec
INVARIANTS
  TypeOK
  LoginKept
  LoginFound
PROPERTIES
  RefreshShared
  CallReturns
