\* The same trees, and the runs of the topmost bucket.
CONSTANTS
    Depth = 2
    Value <- ThreeBitValues
    ValueBits = 3
SPECIFICATION Spec
INVARIANTS VerifiedRunIsComplete
