\* The daemon with two request threads and a command line; a game's script
\* in the directory and one below it.
SPECIFICATION Spec
CONSTANTS
  r1 = r1
  r2 = r2
  cmd = cmd
  daemon = daemon
  cli = cli
  g = g
  h = h
  Procs = {daemon, cli}
  Owners = {daemon, cli}
  Threads = {r1, r2, cmd}
  Savers = {r1, r2}
  In <- MCIn
  Games = {g, h}
  Known = {g, h}
  Nested = {h}
  MaxChanges = 2
  Daemon = daemon
  MaxClients = 2
  AppDepots <- MCAppDepots
  MaxRequests = 2
  MaxDb = 2
  Content <- MCContent
  Sibling <- MCSibling
  Local <- MCLocal
  MaxStarts = 2
  Fields = {"url", "user"}
  Values = {0, 1}
  Default <- MCDefault
SYMMETRY Symmetric
INVARIANTS ListIsCurrent SettingsStay 
CHECK_DEADLOCK FALSE
