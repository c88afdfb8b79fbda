CONSTANTS
  Handles = {1, 2, 3}
  Watched = {3}
  FirstRoom = 2
  Values = {0}
  Default = 0
  Unset = Unset
  Tasks = {t1}
  NoTask = NoTask
  Absent = Absent
SPECIFICATION Spec
INVARIANT ExportIsComplete
