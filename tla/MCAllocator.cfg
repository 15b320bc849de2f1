CONSTANTS
  Owner = {o1, o2, o3}
  Limit = 5
  Sizes <- MCSizes
  IntMax = 8
SPECIFICATION Spec
SYMMETRY Symmetry
INVARIANTS TypeOK NoOverlap FreeListSound NoLeak AllocatedExact
PROPERTIES Implements
