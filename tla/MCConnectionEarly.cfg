CONSTANTS
  Scripts <- MCScripts
  UDPEnabled = TRUE
  Handshake = 3
  Header = 6
  Dial = 4
SPECIFICATION Spec
INVARIANT StreamIntact
