SPECIFICATION FairSpec
CONSTANTS
  Daemon = {d1}
  Entry = {e1}
  Tag = {t1}
  Found = {0}
  MaxKills = 1
  MaxFailures = 0
CHECK_DEADLOCK FALSE
PROPERTIES
  CreatesDatabase
