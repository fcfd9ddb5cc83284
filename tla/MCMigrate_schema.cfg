SPECIFICATION MigrateSpec
CONSTANTS
  doc = doc
  nofield = nofield
  entity = entity
  Files = {doc, nofield}
  UnderSchema = {doc, nofield}
  Texts = {blank, t1}
  Blank = blank
  Unparsed = Unparsed
  NoFile = NoFile
  NoEntry = NoEntry
  Procs = {p1}
  MaxStarted = 3
  MaxFaults = 1
  Entities = {entity}
  EntityOf <- MCEntityOf
  Unfiled = {nofield}
  Custom = {entity}
PROPERTY RecordsDirIsIgnored
CHECK_DEADLOCK FALSE
