---------------------------- MODULE DecoderState ----------------------------
(***************************************************************************)
(* detail::concatState and detail::selectState                             *)
(* (src/flashlight/app/asr/criterion/Seq2SeqCriterion.cpp 23-70).         *)
(*                                                                         *)
(* A Seq2SeqState holds step, peakAttnPos, isValid and the tensors alpha,  *)
(* summary and hidden[i] (one per attention round).  A tensor is its dims  *)
(* (three axes) and its entries, a function from index triples to Vals.   *)
(* The tensors of one hypothesis have every axis of size 1 (one decoder   *)
(* step, one batch element, and feature sizes of 1, which is enough to    *)
(* tell the axes apart); concatenate and indexing work along the axis the *)
(* code names.  alpha and summary carry the batch on axis 2, hidden[i] on *)
(* axis 1.  The model batches one vector of hypothesis states the way     *)
(* beamSearch does (line 375) and then splits the batch again with        *)
(* selectState, once per batch index (lines 419-425).                     *)
(***************************************************************************)
EXTENDS Integers, SequencesExt

CONSTANTS
    NAttnRound,  \* nAttnRound_
    MaxBatch,    \* most hypotheses batched at once
    Steps,       \* step counters a state may carry
    Peaks,       \* attention peak positions a state may carry
    Vals,        \* values of a tensor entry
    NoState      \* no batched state yet (a model value)

ASSUME
    /\ NAttnRound \in Nat \ {0}
    /\ MaxBatch \in Nat \ {0}

VARIABLES
    stateVec,  \* the argument of concatState
    batched,   \* the state it returned, or NoState
    threw,     \* whether it threw std::runtime_error
    picked     \* batchIdx -> the state selectState returned for it

vars == <<stateVec, batched, threw, picked>>

\* af::dim4 indices of a tensor with the given dims.
Indices(d) == (0..(d[1] - 1)) \X (0..(d[2] - 1)) \X (0..(d[3] - 1))

\* A one-hypothesis tensor holding v.
Unit(v) == [dims |-> <<1, 1, 1>>, at |-> [i \in {<<0, 0, 0>>} |-> v]]

\* The af::exception of an index out of range, as a tensor no state holds.
IndexError == [dims |-> <<0, 0, 0>>, at |-> [i \in {} |-> i]]

\* Size along axis ax of the first k tensors of ts together.
Extent(ts, ax, k) == FoldLeft(LAMBDA n, t : n + t.dims[ax + 1], 0, SubSeq(ts, 1, k))

\* fl::concatenate(ts, ax): the tensors one after another along axis ax
\* (their other axes agree: every hypothesis tensor is 1x1x1).
Concatenate(ts, ax) ==
    LET d == [ts[1].dims EXCEPT ![ax + 1] = Extent(ts, ax, Len(ts))]
        Part(x) == CHOOSE k \in 1..Len(ts) :
                      Extent(ts, ax, k - 1) <= x /\ x < Extent(ts, ax, k)
    IN [dims |-> d,
        at   |-> [idx \in Indices(d) |->
                    LET k == Part(idx[ax + 1])
                    IN ts[k].at[[idx EXCEPT ![ax + 1] = @ - Extent(ts, ax, k - 1)]]]]

\* t(span, .., b, ..): index b on axis ax, the other axes whole.
IndexAxis(t, ax, b) ==
    IF b >= t.dims[ax + 1] THEN IndexError
    ELSE LET d == [t.dims EXCEPT ![ax + 1] = 1]
         IN [dims |-> d, at |-> [idx \in Indices(d) |-> t.at[[idx EXCEPT ![ax + 1] = b]]]]

Tensor1 == {Unit(v) : v \in Vals}

\* The state of a single hypothesis (batch size 1).
HypState ==
    [step : Steps, peakAttnPos : Peaks, isValid : BOOLEAN,
     alpha : Tensor1, summary : Tensor1, hidden : [1..NAttnRound -> Tensor1]]

\* The throws of concatState, lines 25-27 and 38-43.
ConcatThrows(vec) ==
    \/ vec = << >>
    \/ \E k \in DOMAIN vec : \/ vec[k].step # vec[1].step
                             \/ vec[k].isValid # vec[1].isValid

\* The vector of one tensor field, or of hidden[i], as collected in the loop.
FieldVec(vec, f) == [k \in DOMAIN vec |-> vec[k][f]]
HiddenVec(vec, i) == [k \in DOMAIN vec |-> vec[k].hidden[i]]

\* A plausible fault joins hidden[i] along axis 2, like alpha and summary.
ConcatStateHiddenAxis2(vec) ==
    [step        |-> vec[1].step,
     peakAttnPos |-> vec[1].peakAttnPos,
     isValid     |-> vec[1].isValid,
     alpha       |-> Concatenate(FieldVec(vec, "alpha"), 2),
     summary     |-> Concatenate(FieldVec(vec, "summary"), 2),
     hidden      |-> [i \in DOMAIN vec[1].hidden |-> Concatenate(HiddenVec(vec, i), 2)]]

\* concatState, lines 24-56: the scalars come from stateVec[0].
ConcatState(vec) ==
    [step        |-> vec[1].step,
     peakAttnPos |-> vec[1].peakAttnPos,
     isValid     |-> vec[1].isValid,
     alpha       |-> Concatenate(FieldVec(vec, "alpha"), 2),
     summary     |-> Concatenate(FieldVec(vec, "summary"), 2),
     hidden      |-> [i \in DOMAIN vec[1].hidden |-> Concatenate(HiddenVec(vec, i), 1)]]

\* selectState, lines 58-70: index batchIdx of alpha and summary on axis 2,
\* of hidden[i] on axis 1.
SelectState(st, batchIdx) ==
    [st EXCEPT !.alpha   = IndexAxis(@, 2, batchIdx),
               !.summary = IndexAxis(@, 2, batchIdx),
               !.hidden  = [i \in DOMAIN @ |-> IndexAxis(@[i], 1, batchIdx)]]

Init ==
    /\ stateVec \in BoundedSeq(HypState, MaxBatch)
    /\ batched = NoState
    /\ threw = FALSE
    /\ picked = << >>

Concat ==
    /\ batched = NoState /\ ~threw
    /\ IF ConcatThrows(stateVec)
       THEN threw' = TRUE /\ UNCHANGED batched
       ELSE batched' = ConcatState(stateVec) /\ UNCHANGED threw
    /\ UNCHANGED <<stateVec, picked>>

Select ==
    /\ batched # NoState
    /\ \E b \in 0..(Len(stateVec) - 1) \ DOMAIN picked :
         picked' = [k \in DOMAIN picked \cup {b} |->
                      IF k = b THEN SelectState(batched, b) ELSE picked[k]]
    /\ UNCHANGED <<stateVec, batched, threw>>

Next == Concat \/ Select

Spec == Init /\ [][Next]_vars

-----------------------------------------------------------------------------
\* Spec section 8, the round-trip law: a state selected back out of a
\* batch that concatState accepted has the alpha, summary, hidden tensors,
\* step and isValid of the hypothesis state it was batched from.  The
\* tensors survive only if concatState joins each along the axis that
\* selectState indexes, and the scalars only because concatState refuses
\* batches that disagree on them (peakAttnPos, which it does not check, is
\* not part of the law).
RoundTrip ==
    \A b \in DOMAIN picked :
        LET orig == stateVec[b + 1]
        IN /\ picked[b].alpha = orig.alpha
           /\ picked[b].summary = orig.summary
           /\ picked[b].hidden = orig.hidden
           /\ picked[b].step = orig.step
           /\ picked[b].isValid = orig.isValid
=============================================================================
