SPECIFICATION DoctorSpec
CONSTANTS
  Docs = {d1}
  Edits = {e1}
  Keys = {k1}
  NoFile = NoFile
  Garbled = Garbled
  NoKey = NoKey
  BadKey = BadKey
  ScalarVirtuals = TRUE
  Envelopes = {}
  Procs = {p1}
  SerialCallers = TRUE
  Faults = FALSE
  OutOfBand = FALSE
  RunKinds = {"heal_ack"}
  Scopes = {"all"}
  DirTracked = TRUE
  Publishing = FALSE
  Committing = FALSE
PROPERTIES HealConverges
CHECK_DEADLOCK FALSE
