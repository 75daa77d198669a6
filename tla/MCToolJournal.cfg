SPECIFICATION JournalSpec
CONSTANTS
  Calls = {"write1", "write2", "read1"}
  Args = {"a1", "a2"}
  Workers = {w1, w2}
  Reads = {"read1"}
  Redacted = {"write2"}
  Settled = {"write1", "write2"}
  Legacy <- NoLegacy
  MaxEffects = 2
SYMMETRY WorkerSymmetry
INVARIANTS MutationsAtMostOnce OneUnconfirmedWrite ResultsAreReal
