\* Two starts of Steam, two versions of each binary, one installation.
SPECIFICATION FairSpec
CONSTANTS
  MaxVersion = 2
  f = f
  w = w
  x = x
  Registered = {f, w}
  UiNames = {w}
  Extra = {x}
  Matches <- MCMatches
  Symbols <- MCSymbols
  Document <- MCDocument
  Remote <- MCRemote
  HookOrder <- MCOrder
  Shown = {f}
  MaxBoots = 2
  MaxInstalls = 1
INVARIANTS AddressesAreRight UnknownIsNowhere 
PROPERTY StaleStatusGoes
CHECK_DEADLOCK FALSE
