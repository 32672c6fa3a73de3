\* Two launches of two games with one file name, or one and two changes of the
\* account; two process ids.
SPECIFICATION GameFairSpec
CONSTANTS
  a = a
  b = b
  me = me
  lender = lender
  Apps = {a, b}
  NoApp = NoApp
  Accounts = {me, lender}
  NoAccount = NoAccount
  NoTicket = NoTicket
  FirstUser = me
  Owner <- MCOwner
  Legacy <- MCLegacy
  OwnTickets <- MCOwnTickets
  Exe <- MCExe
  Comm <- MCComm
  Pids = {1, 2}
  MaxLaunches = 2
  Fixed = {b}
  Configured = {a, b}
  MaxSignIns = 2
  MaxActs = 4
INVARIANTS NoDoubleInjection ActiveFollowsGames OneIdentity
PROPERTY ExitsAreReported
CHECK_DEADLOCK FALSE
