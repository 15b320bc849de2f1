CONSTANTS
  Owner = {o1, o2, o3, o4}
  Limit = 8
  Sizes <- LargePoolSizes
  IntMax = 4
SPECIFICATION Spec
SYMMETRY Symmetry
INVARIANTS NoOverlap
