SPECIFICATION Spec
CONSTANTS
  Nodes = {n1, n2, n3, n4, n5}
  Values = {v1, v2}
  Nil = Nil
  None = None
  Failed = Failed
INVARIANTS TypeOK WellFormed
PROPERTY ImplementsDeque
SYMMETRY CellSymmetry
