SPECIFICATION Spec
CONSTANTS
  b1 = b1  b2 = b2
  f1 = f1  f2 = f2  f3 = f3  f4 = f4
  None = None
  Builders = {b1, b2}
  Files = {f1, f2, f3, f4}
  Faults = {"kill", "orphan"}
SYMMETRY Symmetric
INVARIANTS StoredFinished
