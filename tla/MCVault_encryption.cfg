SPECIFICATION VaultSpec
CONSTANTS
  Docs = {d1}
  Persons = {me, bob}
  Me = me
  Texts = {blank, t1}
  Blank = blank
  NoFile = NoFile
  NoACL = NoACL
  Procs = {p1, p2}
  MaxGen = 2
  MaxActs = 3
  MaxFaults = 1
SYMMETRY Symmetry
INVARIANTS TextSurvives ACLNamesReaders
PROPERTIES GitTakesEnvelopes LockScrubs
CHECK_DEADLOCK FALSE
