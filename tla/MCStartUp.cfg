CONSTANTS
  Ports <- MCPorts
  AdminPorts <- MCAdminPorts
  DefaultPort = 7890
  DefaultAdmin = 9090
  Absent = Absent
  Broken = Broken
SPECIFICATION Spec
INVARIANTS
  TypeOK
  MissingIsReported
  OpenedStaysOpen
