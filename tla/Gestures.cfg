CONSTANTS
  NodeId = {1, 2}
  None = None
  Places = {0, 1, 2}
  Scales = {1, 2}
SPECIFICATION Spec
INVARIANTS
  LinesMeetPeople
  LeavingHides
PROPERTIES
  
  ScrollOnlyZooms
