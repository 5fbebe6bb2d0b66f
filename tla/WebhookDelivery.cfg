SPECIFICATION FairSpec
CONSTANTS
  Event = {assigned}
  EventType = {"ticket.assigned"}
  TypeOf <- OneKind
  Subscription = {s1, s2}
  MaxRetries = 2
  MaxCrashes = 1
  assigned = assigned
INVARIANTS
  TypeOK
  RetriesEndWithAnswer
  DuplicatesExplained
PROPERTIES
  DeliveryPersists
CHECK_DEADLOCK FALSE
