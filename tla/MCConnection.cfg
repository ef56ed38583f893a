CONSTANTS
  Scripts <- MCScripts
  UDPEnabled = TRUE
  Handshake = 3
  Header = 6
  Dial = 4
SPECIFICATION FairSpec
INVARIANTS
  TypeOK
  OneVerdict
  AdmittedFirst
  RemoteReleased
  SilentOnlyWhenLate
PROPERTIES
  TunnelOutlivesHandshake
  SetUpEnds
