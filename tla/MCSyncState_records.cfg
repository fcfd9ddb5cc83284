SPECIFICATION Spec
CONSTANTS
  confluence = confluence
  jira = jira
  t1 = t1
  t2 = t2
  Integrations = {confluence, jira}
  Targets = {t1, t2}
  Versions <- MCVersions
  None = None
  Procs = {p1, p2}
  MaxRevision <- MCMaxRevision
SYMMETRY Symmetry
INVARIANTS SyncTypeOK PushesAreConfirmed LedgerHasLastPush
PROPERTY ReportsAreTrue
CHECK_DEADLOCK FALSE
