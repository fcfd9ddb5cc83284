SPECIFICATION MCSpec
CONSTANTS
  Docs = {d1}
  Edits = {e1}
  Keys = {k1, k2}
  NoFile = NoFile
  Garbled = Garbled
  NoKey = NoKey
  BadKey = BadKey
  ScalarVirtuals = FALSE
  Envelopes = {"envelope", "malformed"}
  Procs = {p1}
  SerialCallers = TRUE
  Faults = TRUE
  OutOfBand = TRUE
  RunKinds = {"check", "heal", "heal_ack", "fix", "sign"}
  Scopes = {"all", "uncommitted", "since", "id"}
  DirTracked = TRUE
  Publishing = TRUE
  Committing = TRUE
INVARIANTS HeadVerified
PROPERTIES HealConverges SignConverges UnackedHealKeepsEvidence CheckIsExact
VIEW DoctorView
CHECK_DEADLOCK FALSE
