CONSTANTS
  p1 = p1
  p2 = p2
  a = a
  s1 = s1
  s2 = s2
  g1 = g1
  Handlers <- MCHandlers
  Sessions <- MCSessions
  Exits <- MCExits
  NoExit = NoExit
  Configured <- Unset
  Public <- MCPublic
  Servers <- MCServers
  Attempts = 2
  Cycle = 2
  TTL = 2
  NoEntry = NoEntry
SPECIFICATION FairSpec
INVARIANTS
  TypeOK
  StaysOnExit
  AddressesAreRecent
  EveryServerIsAsked
PROPERTY DialsEnd
