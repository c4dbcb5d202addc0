SPECIFICATION Spec
CONSTANTS
  Wlans <- MCWlans
  Usbs <- MCUsbs
  MaxChanges = 4
INVARIANTS
  NoDeadListener
  InstancesSound
  InstancesFollow
PROPERTIES
  EventsProcessed
CHECK_DEADLOCK FALSE
