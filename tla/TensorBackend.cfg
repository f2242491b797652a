CONSTANTS
    End = End
    NoArray = NoArray
SPECIFICATION Spec
INVARIANTS
    RangeSelectsHalfOpen
    FromFlDataRoundTrip
    CondenseKeepsAxes
