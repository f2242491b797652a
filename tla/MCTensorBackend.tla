-------------------------- MODULE MCTensorBackend ---------------------------
(***************************************************************************)
(* The ArrayFire tensor backend's index and shape conversions (Index.tla   *)
(* and Dims.tla) checked in one run.  The two share no state, so a         *)
(* behaviour exercises one of them, chosen at the start: the states of the *)
(* run are those of the two modules side by side, not their product.       *)
(***************************************************************************)
EXTENDS Integers

CONSTANTS
    End,      \* the fl::end argument (a model value)
    NoArray   \* no array built yet (a model value)

VARIABLES args, idx, sel, arr, req, condensed, err, api

indexVars == <<args, idx, sel>>
dimsVars == <<arr, req, condensed, err>>

\* Explicit ends from past the front of a 4-element axis to its length:
\* negative, zero and positive ends all occur.
I == INSTANCE Index WITH AxisLen <- 4, Ends <- -3..4, Strides <- {1, 2, 3}

\* Sizes 0, 1 and 2 give empty, unit and real axes; five axes reach the
\* more-than-four-dims error.
D == INSTANCE Dims WITH DimVals <- {0, 1, 2}, MaxNdim <- 5

Init == api \in {"index", "dims"} /\ I!Init /\ D!Init

Next ==
    \/ api = "index" /\ I!Next /\ UNCHANGED <<dimsVars, api>>
    \/ api = "dims" /\ D!Next /\ UNCHANGED <<indexVars, api>>

Spec == Init /\ [][Next]_<<indexVars, dimsVars, api>>

\* Index.tla: every non-empty range selects exactly its half-open positions.
RangeSelectsHalfOpen == I!RangeSelectsHalfOpen

\* Dims.tla: fromFlData's arrays read back their dtype and shape.
FromFlDataRoundTrip == D!FromFlDataRoundTrip

\* Dims.tla: condenseIndices keeps the non-1 axes in order, 1s last.
CondenseKeepsAxes == D!CondenseKeepsAxes
=============================================================================
