SPECIFICATION Spec
CONSTANTS
  Ticket = {t1}
  Session = {s1}
  Technician <- Technicians
  Team = {suporte}
  TechLevel <- TwoLevels
  CatalogItem <- AllItems
  Patch <- SerialPatches
  Opening <- Openings
  MaxPatches = 3
  MaxCrashes = 1
  None = None
  Unset = Unset
  ana = ana
  bruno = bruno
  suporte = suporte
  redes = redes
INVARIANTS
  NoSilentApproval
  AssigneeNotUnderqualified
PROPERTIES
  KeepsAuditTrail
