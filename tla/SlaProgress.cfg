SPECIFICATION FairSpec
CONSTANTS
  Ticket = {t1}
  Worker = {w1, w2}
  Quiet = {"pending"}
  EditReadings <- Mixtures
  MaxChanges = 1
  MaxLost = 1
  NoSla = NoSla
  Absent = Absent
  Untouched = Untouched
  Null = Null
  Keep = Keep
PROPERTIES
  RecordCatchesUp
CHECK_DEADLOCK FALSE
