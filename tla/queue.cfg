SPECIFICATION Spec
CONSTANTS
  Cells = {e1, e2, e3, e4}
  Values = {v1, v2, v3}
  Null = Null
SYMMETRY Symmetry
INVARIANTS Chain FreesAll
PROPERTY IsFifo
