SPECIFICATION Spec
CONSTANTS
  Bytecode = {"require", "script"}
  Codecs = {"br"}
  Readers = {r1, r2}
  MaxChanges = 1
  MaxPublished = 2
  None = None
SYMMETRY Symmetry
INVARIANTS CompanionsMatch FreedAfterLastReader
CHECK_DEADLOCK FALSE
