SPECIFICATION Spec
CONSTANTS
  Session = {s1, s2}
  Ticket = {t1}
  Category = {rede, acesso}
  Subcategory = {vpn}
  CategoryOf <- Tickets
  Library <- Shelf
  Linked <- Attached
  Parent <- Tree
  MaxCalls = 3
  None = None
  rede = rede
  acesso = acesso
  vpn = vpn
  t1 = t1
INVARIANTS
  TypeOK
  SingleSolution
  DraftsHidden
  SubcategoryFits
CHECK_DEADLOCK FALSE
