SPECIFICATION Spec
CONSTANTS
    OffsetSet <- MCOffsets
    Delays = {0, 1, 2}
    MaxDelay = 1
    MaxAny = 3
    MaxGood = 5
INVARIANT MedianIsMedian
INVARIANT TrimResistsOutlier
INVARIANT TimelyDecide
INVARIANT SmoothingConverges
CHECK_DEADLOCK FALSE
