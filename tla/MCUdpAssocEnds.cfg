CONSTANTS
  c1 = c1
  c2 = c2
  h1 = h1
  h2 = h2
  NoClient = NoClient
  Clients <- OneClient
  Hosts <- OneHost
  QUICBlock = TRUE
  Handshake = 1
  Idle = 2
  MaxTime = 3
  MaxUp = 1
  MaxDown = 1
SPECIFICATION FairSpec
PROPERTY TeardownCompletes
