CONSTANTS
  Handles = {1, 2}
  Watched = {2}
  FirstRoom = 1
  Values = {0, 1}
  Default = 0
  Unset = Unset
  Tasks = {t1, t2}
  NoTask = NoTask
  Absent = Absent
SPECIFICATION FairSpec
INVARIANTS TypeOK ExportAlone SavedIsStored LoadRestores SubscriberIsCurrent
PROPERTY SaveEnds
