CONSTANTS
  Tables <- MCTables
  CfgListen <- Auto
  CfgWAN <- Auto
  AdminEnabled = TRUE
  DiskMayFail = TRUE
  MaxChanges = 2
SPECIFICATION FairSpec
INVARIANTS
  TypeOK
  NoLostRestart
  RebuildsNeedAChange
  NoLeftovers
  ClashLagsOnlyFromStartUp
PROPERTY ListenerFollowsLAN
