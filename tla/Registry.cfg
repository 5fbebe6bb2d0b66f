SPECIFICATION Spec
CONSTANTS
  Session = {s1, s2}
  Ticket = {1}
  Name = {suporte, redes}
  Email = {bia}
  Weekday = {0}
  Priority = {alta}
  Serial = {sn1}
  Kind = {depende}
  Seed <- FirstDay
  Drawn = 7
  MaxCalls = 3
  None = None
  suporte = suporte
  redes = redes
  ana = ana
  bia = bia
  sistema = sistema
  sn1 = sn1
  alta = alta
  depende = depende
INVARIANTS
  TypeOK
  UniqueKeys
  DuplicatesAreRaces
  ServerErrorsExplained
PROPERTIES
  SuggestionsExact
CHECK_DEADLOCK FALSE
