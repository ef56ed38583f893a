CONSTANTS
  Pool <- MCPool
  Configs <- MCConfigs
  MaxAdapters = 3
SPECIFICATION Spec
INVARIANTS
  TypeOK
  ChosenIsUsable
  SelectionIgnoresOrder
  OnlyTheChosenMatter
  DialUpCarriesTraffic
