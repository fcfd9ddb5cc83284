SPECIFICATION Spec
CONSTANTS
  Docs = {d1}
  Edits = {e1}
  Keys = {k1}
  NoFile = NoFile
  Garbled = Garbled
  NoKey = NoKey
  BadKey = BadKey
  ScalarVirtuals = FALSE
  Envelopes = {}
  Procs = {p1, p2, p3}
  SerialCallers = FALSE
  Faults = TRUE
  OutOfBand = FALSE
SYMMETRY Symmetry
INVARIANTS PairsAgree OneWriter
CHECK_DEADLOCK FALSE
