SPECIFICATION Spec
CONSTANTS
  Writers = {"w1"}
  Readers = {"r1"}
  Values = {a, b}
  TickOf <- TickNumbers
  Inodes = {i1, i2, i3}
  NoInode = NoInode
  OneSaver = TRUE
INVARIANTS TypeOK LoadIsWhole HistoryWasSaved
PROPERTIES Atomic HistoryIsWriteOnce
SYMMETRY Symmetry
VIEW View
