SPECIFICATION Spec
CONSTANTS
  Ticket = {t1, t2}
  Worker = {w1, w2}
  Quiet = {"pending"}
  EditReadings <- Mixtures
  MaxChanges = 1
  MaxLost = 1
  NoSla = NoSla
  Absent = Absent
  Untouched = Untouched
  Null = Null
  Keep = Keep
SYMMETRY Alike
INVARIANTS
  TypeOK
  RecordedIsAnnounced
  FirstAlertOnce
  OneAlertWhenAlone
CHECK_DEADLOCK FALSE
