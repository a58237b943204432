SPECIFICATION Spec
CONSTANTS
  Repositories <- AllRepositories
  Calm <- MCCalm
  Manners = {"proper", "lax", "endless", "cyclic", "empty"}
  MaxParts = 2
  MaxChanges = 2
  PartLimit = 4
  None = none
  Garbage = {1, 2}
INVARIANTS
  OneReading
  HierarchyIsContainment
  ObjectsFollowEntities
PROPERTIES
  InitEnds
