SPECIFICATION Spec
CONSTANTS
  WeekLength = 2
  DayLength = 3
  Lookahead = 4
  AllDay = AllDay
  Unreachable = Unreachable
  Team = {suporte}
  None = None
  Schedules <- Shifts
  Targets <- TwoPolicies
  Threshold = 80
  Moves = {"aberto", "em_atendimento", "aguardando_solicitante", "resolvido", "cancelado"}
  Created = 1
  MaxNow = 6
  MaxChanges = 3
INVARIANTS
  TypeOK
  ElapsedIsLived
  DueIsExact
  HoursAreRows
  BreachedWhenDue
CHECK_DEADLOCK FALSE
