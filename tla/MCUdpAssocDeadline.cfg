CONSTANTS
  c1 = c1
  c2 = c2
  h1 = h1
  h2 = h2
  NoClient = NoClient
  Clients <- MCClients
  Hosts <- MCHosts
  QUICBlock = TRUE
  Handshake = 1
  Idle = 2
  MaxTime = 3
  MaxUp = 2
  MaxDown = 1
SPECIFICATION Spec
SYMMETRY Symmetry
PROPERTY DocumentedTeardown
