SPECIFICATION MCSpec
CONSTANTS
    a1 = a1
    a2 = a2
    rows = rows
    cpu = cpu
    Array1D <- MCArray1D
    Array2D = {rows}
    CUDAEnabled = {a1, a2, rows}
    Value = {0, 1}
    Zero = 0
    MaxElements = 2
    Align = 1
INVARIANTS HostDeviceAgree HandleOnValidCopy CoherenceInv
PROPERTY AbstractSpec
CHECK_DEADLOCK FALSE
