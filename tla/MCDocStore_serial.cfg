SPECIFICATION Spec
CONSTANTS
  Docs = {d1}
  Edits = {e1, e2}
  Keys = {k1}
  NoFile = NoFile
  Garbled = Garbled
  NoKey = NoKey
  BadKey = BadKey
  ScalarVirtuals = FALSE
  Envelopes = {}
  Procs = {p1, p2}
  SerialCallers = TRUE
  Faults = TRUE
  OutOfBand = TRUE
INVARIANT TypeOK
PROPERTY AtomicForSerialCallers
CHECK_DEADLOCK FALSE
