SPECIFICATION Spec
CONSTANTS
  Ticket = {t1}
  Session = {s1, s2}
  Technician <- Technicians
  Team = {suporte}
  TechLevel <- TwoLevels
  CatalogItem <- AllItems
  Patch <- ApprovalPatches
  Opening <- FrontDesk
  MaxPatches = 2
  MaxCrashes = 1
  None = None
  Unset = Unset
  ana = ana
  bruno = bruno
  suporte = suporte
  redes = redes
PROPERTIES
  DecidesPending
