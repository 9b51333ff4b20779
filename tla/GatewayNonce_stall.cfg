SPECIFICATION Spec
CONSTANTS
    w1 = w1  w2 = w2  i1 = i1
    NoRequestId = NoRequestId  NoRequest = NoRequest  Secret = Secret
    Workers = {w1, w2}
    RequestIds = {i1}
    Requests <- MCRequests
    MaxSkew = 6
    Buffer = 1
    Lead = 0
    ReadTimeout = 2
    MaxSetNX = 0
    Faults = {"redis"}
    MaxTime = 15
CHECK_DEADLOCK FALSE
SYMMETRY WorkerSymmetry
INVARIANTS
    LetThroughOnce
