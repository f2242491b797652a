CONSTANTS
    AxisLen = 4
    Ends <- MCEnds
    Strides = {1, 2, 3}
    End = End
SPECIFICATION Spec
INVARIANT RangeSelectsExactly
