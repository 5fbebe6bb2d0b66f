SPECIFICATION FairSpec
CONSTANTS
  Ticket = {t1, t2}
  Session = {s1, s2}
  Technician = {ana}
  Team = {suporte}
  TechLevel <- OneLevel
  CatalogItem <- TimedItems
  Patch <- ApprovalPatches
  Opening <- FrontDesk
  MaxPatches = 0
  MaxCrashes = 1
  None = None
  Unset = Unset
  ana = ana
  bruno = bruno
  suporte = suporte
  redes = redes
PROPERTIES
  OverdueDecided
