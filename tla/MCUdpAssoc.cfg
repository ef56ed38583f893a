CONSTANTS
  c1 = c1
  c2 = c2
  h1 = h1
  h2 = h2
  NoClient = NoClient
  Clients <- MCClients
  Hosts <- OneHost
  QUICBlock = TRUE
  Handshake = 1
  Idle = 2
  MaxTime = 3
  MaxUp = 2
  MaxDown = 2
SPECIFICATION Spec
SYMMETRY Senders
INVARIANTS
  TypeOK
  LateAtMostOnce
  SocketsReleased
  AnswersPass
PROPERTIES
  TeardownHasACause
  SessionSpec
