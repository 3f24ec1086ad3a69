CONSTANTS
  Processes = {p1, p2}
  Failed = Failed
SPECIFICATION Spec
INVARIANTS
  TypeOK
  SingleVersion
  SchemaOfVersion
  HeadReachable
SYMMETRY Symmetry
