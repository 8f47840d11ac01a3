SPECIFICATION Spec
CONSTANTS
  Readers = {r1}
  Setters = {w1, w2}
  TTL = 2
  InitialDocs = {0, 1}
  MaxTime = 2
  MaxVersions = 3
SYMMETRY Symmetry
INVARIANTS TypeOK BoundedStaleness SetWasInEffect
