SPECIFICATION FairSpec
CONSTANTS
  Daemon = {d1, d2}
  Entry = {e1, e2}
  Tag = {t1}
  Found = {0, 1, 2, 3, 4}
  MaxKills = 1
  MaxFailures = 1
CHECK_DEADLOCK FALSE
INVARIANTS
  TypeOK
  KnownLayout
  ReadyIsCurrent
PROPERTIES
  KeepsData
  OldDatabaseUpgraded
