SPECIFICATION DeskSpec
CONSTANTS
  Session = {s1, s2}
  User = {ana, bia, caio}
  Admin = {ana}
  Staff = {ana}
  Active = {ana, bia}
  Vip = {bia}
  Team = {suporte, redes}
  Category = {rede, acesso}
  Subcategory = {vpn}
  Default <- Defaults
  Closed <- Hours
  RuleInput <- NewRules
  ItemInput <- NewItems
  FieldInput <- NewFields
  TicketInput <- NewTickets
  CatalogInput <- Forms
  Stock <- Stocks
  LastDay = 4
  MaxCalls = 3
  Week = 2
  Month = 3
  DefaultDays = 2
  Policed = {"media", "baixa"}
  Period <- Periods
  Filter <- Filters
  Page <- Parts
  ExportLimit = 3
  None = None
  ana = ana
  bia = bia
  caio = caio
  suporte = suporte
  redes = redes
  rede = rede
  acesso = acesso
  vpn = vpn
SYMMETRY Alike
INVARIANTS
  TypeOK
  AnswersKeepQuestions
  ReportsAddUp
PROPERTIES
  TriageLastWins
CHECK_DEADLOCK FALSE
