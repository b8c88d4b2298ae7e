CONSTANTS
    w1 = w1
    w2 = w2
    NoWorker = NoWorker
    Workers = {w1, w2}
    MaxDay = 3
    Files <- SmallFiles
    MaxRequests = 4
SPECIFICATION Spec
CHECK_DEADLOCK FALSE
SYMMETRY WorkerSymmetry
INVARIANTS RowsHaveDays OneRatePerDay
PROPERTY FilesKeepCoverage
