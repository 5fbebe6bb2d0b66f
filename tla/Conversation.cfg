SPECIFICATION Spec
CONSTANTS
  Session = {s1, s2}
  Runner = {r1, r2}
  Ticket = {1}
  User = {ana, bia, sistema}
  Active = {ana, bia}
  MentionList <- Lists
  MaxCalls = 3
  ana = ana
  bia = bia
  sistema = sistema
SYMMETRY Sym
INVARIANTS
  TypeOK
  AnnouncedExactly
  AttachmentsWhole
CHECK_DEADLOCK FALSE
