-------------------------------- MODULE Dims --------------------------------
(***************************************************************************)
(* Shape and dtype conversions between Flashlight and ArrayFire            *)
(* (src/flashlight/fl/tensor/backend/af/Utils.cpp 19-108, 133-219).        *)
(*                                                                         *)
(* An af::array is a record [dims, type]: dims is the af::dim4 as a        *)
(* sequence of AF_MAX_DIMS sizes, type an af::dtype written <<"af", n>>.   *)
(* A Shape is a sequence of sizes (Shape.cpp is not in the tree; shapes    *)
(* passed in have at least one axis).  The model builds arrays from host   *)
(* data with fromFlData and condenses them with condenseIndices; the       *)
(* properties read them back through afToFlDims and afToFlType.  The       *)
(* memory location (flToAfLocation) is a total two-way table and is left  *)
(* out.                                                                    *)
(***************************************************************************)
EXTENDS Integers, SequencesExt, TLC

CONSTANTS
    DimVals,   \* sizes an axis may have
    MaxNdim,   \* most axes of a Shape passed to fromFlData
    NoArray    \* no array built yet (a model value)

ASSUME
    /\ DimVals \subseteq Nat /\ {0, 1} \subseteq DimVals
    /\ MaxNdim \in Nat \ {0}

VARIABLES
    arr,        \* the last af::array built, or NoArray
    req,        \* the [shape, type] it was built from
    condensed,  \* whether condenseIndices has been applied to it since
    err         \* whether the last fromFlData call threw

vars == <<arr, req, condensed, err>>

AfMaxDims == 4   \* AF_MAX_DIMS

FlTypes == {"f16", "f32", "f64", "b8", "s16", "s32", "s64",
            "u8", "u16", "u32", "u64"}

AfTypes == {<<"af", t>> : t \in FlTypes}

Shapes == UNION {[1..n -> DimVals] : n \in 1..MaxNdim}

\* Shape::elements / af::dim4::elements: the product of the sizes.
Elements(d) == FoldSeq(LAMBDA x, y : x * y, 1, d)

\* kFlashlightTypeToArrayFire and kArrayFireTypeToFlashlight (lines 19-43),
\* read with .at() by flToAfType and afToFlType (lines 45-51).
kFlashlightTypeToArrayFire == [t \in FlTypes |-> <<"af", t>>]
kArrayFireTypeToFlashlight == [a \in AfTypes |-> a[2]]
FlToAfType(t) == kFlashlightTypeToArrayFire[t]
AfToFlType(a) == kArrayFireTypeToFlashlight[a]

\* flToAfDims, lines 65-78: more than four axes throw; no elements give
\* af::dim4(0); otherwise the axes are copied and the rest are 1.
FlToAfDimsThrows(s) == Len(s) > AfMaxDims
FlToAfDims(s) ==
    IF Elements(s) = 0 THEN <<0, 1, 1, 1>>
    ELSE [i \in 1..AfMaxDims |-> IF i <= Len(s) THEN s[i] ELSE 1]

\* The while loop of lines 93-96: the last axis (0-based) that is not 1.
RECURSIVE LastNonOne(_, _)
LastNonOne(d, idx) == IF d[idx + 1] = 1 THEN LastNonOne(d, idx - 1) ELSE idx

\* A plausible fault resizes the shape to idx instead of idx + 1.
AfToFlDimsShort(d) ==
    CASE Elements(d) = 0 -> << >>
      [] Elements(d) = 1 -> <<1>>
      [] OTHER           -> SubSeq(d, 1, LastNonOne(d, AfMaxDims - 1))

\* afToFlDims, lines 80-108.
AfToFlDims(d) ==
    CASE Elements(d) = 0 -> << >>
      [] Elements(d) = 1 -> <<1>>
      [] OTHER           -> SubSeq(d, 1, LastNonOne(d, AfMaxDims - 1) + 1)

\* A plausible bug in the loop: newDimIdx is never advanced, so every kept
\* axis lands in slot 0.
RECURSIVE CondenseLoopNoAdvance(_, _, _, _)
CondenseLoopNoAdvance(d, i, k, nd) ==
    IF i = AfMaxDims THEN nd
    ELSE IF d[i + 1] # 1
         THEN CondenseLoopNoAdvance(d, i + 1, k, [nd EXCEPT ![k + 1] = d[i + 1]])
         ELSE CondenseLoopNoAdvance(d, i + 1, k, nd)

\* The loop of lines 141-147 from axis i (0-based) on, with newDimIdx k and
\* newDims nd: a non-1 axis goes to slot k, which then moves on.
RECURSIVE CondenseLoop(_, _, _, _)
CondenseLoop(d, i, k, nd) ==
    IF i = AfMaxDims THEN nd
    ELSE IF d[i + 1] # 1
         THEN CondenseLoop(d, i + 1, k + 1, [nd EXCEPT ![k + 1] = d[i + 1]])
         ELSE CondenseLoop(d, i + 1, k, nd)

\* condenseDims, lines 133-149: af::dim4(0) for an empty array, else the
\* loop over newDims(1, 1, 1, 1).
CondenseDims(d) ==
    IF Elements(d) = 0 THEN <<0, 1, 1, 1>> ELSE CondenseLoop(d, 0, 0, <<1, 1, 1, 1>>)

\* condenseIndices, lines 151-164: arrays without elements are returned as
\* they are, others are moddims'd to their condensed dims.
CondenseIndices(a) ==
    IF Elements(a.dims) = 0 THEN a ELSE [a EXCEPT !.dims = CondenseDims(@)]

\* The host element type each case of the switch of fromFlData casts the
\* pointer to (lines 194-214); f16 has no case and throws (215-217).
PtrCType ==
    [f32 |-> "float", f64 |-> "double", s32 |-> "int", u32 |-> "unsigned",
     s64 |-> "long long", u64 |-> "unsigned long long",
     s16 |-> "short", u16 |-> "unsigned short",
     b8 |-> "char", u8 |-> "unsigned char"]

\* The af::dtype af::array(dims, T*, loc) gives an array of host type T
\* (ArrayFire's dtype_traits).
ArrayTypeOf(c) ==
    LET name == CASE c = "float" -> "f32"  [] c = "double" -> "f64"
                  [] c = "int" -> "s32"    [] c = "unsigned" -> "u32"
                  [] c = "long long" -> "s64"
                  [] c = "unsigned long long" -> "u64"
                  [] c = "short" -> "s16"  [] c = "unsigned short" -> "u16"
                  [] c = "char" -> "b8"    [] c = "unsigned char" -> "u8"
    IN <<"af", name>>

\* fromFlData, lines 179-219, for a null (~hasPtr) or a host pointer.
FromFlDataFails(s, t, hasPtr) ==
    \/ FlToAfDimsThrows(s)
    \/ hasPtr /\ FlToAfType(t)[2] \notin DOMAIN PtrCType

FromFlDataType(t, hasPtr) ==
    IF hasPtr THEN ArrayTypeOf(PtrCType[FlToAfType(t)[2]]) ELSE FlToAfType(t)

Init ==
    /\ arr = NoArray
    /\ req = [shape |-> <<1>>, type |-> "f32"]
    /\ condensed = FALSE
    /\ err = FALSE

FromFlData ==
    \E s \in Shapes, t \in FlTypes, hasPtr \in BOOLEAN :
        /\ ~FromFlDataFails(s, t, hasPtr)
        /\ arr' = [dims |-> FlToAfDims(s), type |-> FromFlDataType(t, hasPtr)]
        /\ req' = [shape |-> s, type |-> t]
        /\ condensed' = FALSE
        /\ err' = FALSE

\* The std::invalid_argument of lines 66-69 or 215-217 reaches the caller;
\* the previous array is untouched.
FromFlDataThrows ==
    \E s \in Shapes, t \in FlTypes, hasPtr \in BOOLEAN :
        /\ FromFlDataFails(s, t, hasPtr)
        /\ err' = TRUE
        /\ UNCHANGED <<arr, req, condensed>>

Condense ==
    /\ arr # NoArray
    /\ arr' = CondenseIndices(arr)
    /\ condensed' = TRUE
    /\ UNCHANGED <<req, err>>

Next == FromFlData \/ FromFlDataThrows \/ Condense

Spec == Init /\ [][Next]_vars

-----------------------------------------------------------------------------
\* Reference: axis i of a shape, a missing axis counting as 1.
Axis(s, i) == IF i <= Len(s) THEN s[i] ELSE 1

\* An array built by fromFlData from host data or from nothing reads back,
\* through afToFlType and afToFlDims, the dtype it was asked for and a
\* shape that agrees with the requested one on every axis and has no
\* trailing 1 beyond its first axis: the dtype tables, the switch on the
\* pointer type and the two dims conversions must all agree.
FromFlDataRoundTrip ==
    arr # NoArray /\ ~condensed /\ Elements(req.shape) > 0 =>
        /\ AfToFlType(arr.type) = req.type
        /\ LET back == AfToFlDims(arr.dims)
           IN /\ \A i \in 1..AfMaxDims : Axis(back, i) = Axis(req.shape, i)
              /\ Len(back) = 1 \/ back[Len(back)] # 1

\* condenseIndices never changes the non-1 axes of an array or their
\* order, and an array with elements that has been condensed has all its
\* axes of size 1 at the end.
CondenseKeepsAxes ==
    arr # NoArray =>
        /\ SelectSeq(arr.dims, LAMBDA x : x # 1)
              = SelectSeq(FlToAfDims(req.shape), LAMBDA x : x # 1)
        /\ condensed /\ Elements(arr.dims) > 0 =>
              \A i, k \in 1..AfMaxDims :
                  i < k /\ arr.dims[i] = 1 => arr.dims[k] = 1
=============================================================================
