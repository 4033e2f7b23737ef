\* Two Sets count and ask for admission while the filter rotates
CONSTANTS
    Key <- MCKey
    NoKey = noKey
    Call = {c1, c2}
    Depth = 2
    Column <- MCColumn
    ColumnOf <- MCColumnOf
    Bit <- MCBit
    BitOf <- MCBitOf
    Modulus = 3
    MaxRotations = 1
SPECIFICATION Spec
SYMMETRY Symmetry
INVARIANTS SketchExact EstimateFloor FreePassNeedsRotation
CHECK_DEADLOCK FALSE
