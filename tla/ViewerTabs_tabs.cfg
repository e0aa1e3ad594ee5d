\* One file is dropped twice and opened by the dialog, its tabs are closed, read and
\* configured meanwhile.
CONSTANTS
  drop1 = drop1
  drop2 = drop2
  dialog = dialog
  Paths = {1}
  Requests = {drop1, drop2, dialog}
  Dialogs = {dialog}
  PathsOf <- OneFile
  None = None
  MaxDocument = 2
  MaxSession = 3
  MaxConfigures = 1
  MaxPages = 1
  MaxFailures = 1
  MaxTurns = 2
SPECIFICATION Spec
SYMMETRY Symmetry
CHECK_DEADLOCK FALSE
INVARIANTS
  TypeOK
  TabsConsistent
  NothingForgotten
  OpensGoOn
