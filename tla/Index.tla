-------------------------------- MODULE Index --------------------------------
(***************************************************************************)
(* fl::range and fl::Index (src/flashlight/fl/tensor/Index.cpp) and their  *)
(* conversion to an ArrayFire index (flRangeToAfSeq and flToAfIndex,       *)
(* src/flashlight/fl/tensor/backend/af/Utils.cpp 110-131).                 *)
(*                                                                         *)
(* Each action builds one index the way a caller would and converts it;    *)
(* sel is the set of positions the converted index picks from an axis of   *)
(* AxisLen elements.  How ArrayFire resolves an af::seq is stated by       *)
(* AfSeqPositions: bounds are inclusive and a negative bound counts from   *)
(* the end of the axis (-1 is the last element).                           *)
(***************************************************************************)
EXTENDS Integers

CONSTANTS
    AxisLen,   \* length of the indexed axis
    Ends,      \* integer end arguments a caller may pass
    Strides,   \* strides a caller may pass
    End        \* the fl::end argument (a model value)

ASSUME
    /\ AxisLen \in Nat \ {0}
    /\ Ends \subseteq Int
    /\ Strides \subseteq Nat \ {0}
    /\ End \notin Int

VARIABLES
    args,  \* the constructor arguments [start, end, stride] of the last range
    idx,   \* the fl::Index built
    sel    \* the positions its ArrayFire conversion selects

vars == <<args, idx, sel>>

Positions == 0..(AxisLen - 1)

\* fl::end decays to the int -1 (Index.cpp line 19).
FlEnd == -1

\* A plausible fault stores an explicit end as given.
RangeOfNoShift(start, end, stride) ==
    [start |-> start, end |-> IF end = End THEN FlEnd ELSE end, stride |-> stride]

\* range(start, end, stride), lines 16-23: an explicit end is stored
\* inclusive by subtracting one, fl::end is stored as -1.
RangeOf(start, end, stride) ==
    [start |-> start,
     end |-> IF end = End THEN FlEnd ELSE end - 1,
     stride |-> stride]

\* range(idx) and range(start, end), lines 12-14.
RangeFromEnd(end) == RangeOf(0, end, 1)
RangeFromBounds(start, end) == RangeOf(start, end, 1)

\* range::operator==, lines 37-40.
RangeEq(r, s) == r.start = s.start /\ r.end = s.end /\ r.stride = s.stride

\* fl::span: the range from 0 to fl::end.
Span == RangeOf(0, End, 1)

\* Index::isSpan, lines 61-66.
IsSpan(i) == i.type = "Range" /\ RangeEq(i.val, Span)

\* flRangeToAfSeq, Utils.cpp 110-113.
FlRangeToAfSeq(r) ==
    [kind |-> "seq", begin |-> r.start,
     end |-> IF r.end = FlEnd THEN -1 ELSE r.end, step |-> r.stride]

\* flToAfIndex, Utils.cpp 115-131.
FlToAfIndex(i) ==
    CASE i.type = "Tensor"  -> [kind |-> "array", val |-> i.val]
      [] i.type = "Range"   -> IF IsSpan(i) THEN [kind |-> "span"]
                               ELSE FlRangeToAfSeq(i.val)
      [] i.type = "Literal" -> [kind |-> "int", val |-> i.val]

\* ArrayFire's reading of an af::seq bound.
Resolve(b) == IF b < 0 THEN AxisLen + b ELSE b

AfSeqPositions(s) ==
    {p \in Positions : /\ Resolve(s.begin) <= p /\ p <= Resolve(s.end)
                       /\ (p - Resolve(s.begin)) % s.step = 0}

AfPositions(a) ==
    CASE a.kind = "span"  -> Positions
      [] a.kind = "seq"   -> AfSeqPositions(a)
      [] a.kind = "int"   -> {a.val}
      [] a.kind = "array" -> a.val

Init ==
    /\ args = [start |-> 0, end |-> End, stride |-> 1]
    /\ idx = [type |-> "Range", val |-> Span]
    /\ sel = Positions

\* Index(const range&), Index.cpp 49-50, and its conversion.
IndexRange(start, end, stride, r) ==
    /\ args' = [start |-> start, end |-> end, stride |-> stride]
    /\ idx' = [type |-> "Range", val |-> r]
    /\ sel' = AfPositions(FlToAfIndex(idx'))

MakeRange1 == \E e \in Ends \cup {End} : IndexRange(0, e, 1, RangeFromEnd(e))

MakeRange2 ==
    \E s \in Positions, e \in Ends \cup {End} :
        IndexRange(s, e, 1, RangeFromBounds(s, e))

MakeRange3 ==
    \E s \in Positions, e \in Ends \cup {End}, k \in Strides :
        IndexRange(s, e, k, RangeOf(s, e, k))

\* Index(const int), Index.cpp 52.
MakeLiteral ==
    \E p \in Positions :
        /\ idx' = [type |-> "Literal", val |-> p]
        /\ sel' = AfPositions(FlToAfIndex(idx'))
        /\ UNCHANGED args

\* Index(const Tensor&), Index.cpp 46-47: a tensor of positions.
MakeTensor ==
    \E P \in SUBSET Positions :
        /\ idx' = [type |-> "Tensor", val |-> P]
        /\ sel' = AfPositions(FlToAfIndex(idx'))
        /\ UNCHANGED args

Next == MakeRange1 \/ MakeRange2 \/ MakeRange3 \/ MakeLiteral \/ MakeTensor

Spec == Init /\ [][Next]_vars

-----------------------------------------------------------------------------
\* The half-open positions [start, end) with the given stride, a negative
\* end counting from the end of the axis, fl::end meaning the whole rest.
HalfOpen(a) ==
    LET last == IF a.end = End THEN AxisLen ELSE Resolve(a.end)
    IN {p \in Positions : a.start <= p /\ p < last /\ (p - a.start) % a.stride = 0}

\* Spec section 4.3: a non-empty range selects exactly its half-open
\* positions, through the end - 1 conversion of range() and the fl::end
\* and span cases of flRangeToAfSeq and flToAfIndex.
RangeSelectsHalfOpen ==
    idx.type = "Range" /\ HalfOpen(args) # {} => sel = HalfOpen(args)

\* Spec section 4.3: a range selects its half-open positions whatever its
\* bounds, an empty one selecting nothing.
RangeSelectsExactly ==
    idx.type = "Range" => sel = HalfOpen(args)
==============================================================================
