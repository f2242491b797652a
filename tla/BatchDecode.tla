---------------------------- MODULE BatchDecode -----------------------------
(***************************************************************************)
(* Seq2SeqCriterion::decodeStep, decodeBatchStep and the AM update closure *)
(* of buildSeq2SeqRnnAmUpdateFunction                                      *)
(* (src/flashlight/app/asr/criterion/Seq2SeqCriterion.cpp 455-601,         *)
(* 625-688), driven by an external lexicon-free decoder.                   *)
(*                                                                         *)
(* Tensors are symbolic terms: <<"emb", y>> embeds token y, "start" is the *)
(* start embedding, <<"rnn", n, x, h>> is the GRU of round n applied to    *)
(* input x and hidden state h ("empty" zero-initialises it), and           *)
(* <<"att", n, q, enc>> is content attention of round n for query q over   *)
(* the encoder output enc.  Every operation works column by column, so a   *)
(* batched call is modelled by the term of each column, and two columns    *)
(* that are equal terms are equal tensors.  Where the attention peaks      *)
(* (argmax of alpha) is data: the closure gets it as a choice from Peaks.  *)
(* The model is in evaluation mode without a window (decodeBatchStep      *)
(* throws with one) and with smoothingTemperature 1, the setting in which  *)
(* spec section 8 compares the batched step with decodeStep.              *)
(***************************************************************************)
EXTENDS Integers, SequencesExt

CONSTANTS
    NAttnRound,    \* nAttnRound_
    InputFeeding,  \* inputFeeding_
    Tokens,        \* token ids the driver may feed
    Utterances,    \* utterances the driver may decode (model values)
    BeamW,         \* most hypotheses the driver batches in one call
    MaxT,          \* the driver's bound on steps per utterance
    Peaks,         \* attention peak positions
    Thr,           \* attentionThreshold
    DummyPeak,     \* peakAttnPos of a default Seq2SeqState (header default)
    NoToken,       \* an empty y
    NoInput,       \* buf->input before the first call
    Null           \* a null AMStatePtr

ASSUME
    /\ NAttnRound \in Nat \ {0}
    /\ InputFeeding \in BOOLEAN
    /\ BeamW \in Nat \ {0} /\ MaxT \in Nat \ {0}
    /\ Peaks \subseteq Int /\ Thr \in Nat /\ DummyPeak \in Int

VARIABLES
    utt,       \* the utterance the driver decodes
    t,         \* the step counter the driver passes as t
    bufInput,  \* buf->input
    batch,     \* the hypotheses of the next call: [path, peaks, st]
    results    \* what the last call returned per hypothesis

vars == <<utt, t, bufInput, batch, results>>

R == NAttnRound

Emissions(u) == <<"enc", u>>

\* Seq2SeqState(nAttnRound): step 0, empty tensors.
EmptyState ==
    [step |-> 0, peakAttnPos |-> DummyPeak, isValid |-> FALSE,
     alpha |-> "empty", summary |-> "empty",
     hidden |-> [n \in 1..R |-> "empty"]]

\* One attention round n (lines 480-506 and 545-576): the GRU, then content
\* attention for its output; the context is added to the GRU output.
Round(n, x, h, enc) ==
    LET r == <<"rnn", n, x, h>>
        a == <<"att", n, <<"out", r>>, enc>>
    IN [hid |-> <<"hid", r>>, alpha |-> <<"alpha", a>>,
        summ |-> <<"sum", a>>, hy |-> <<"add", <<"out", r>>, <<"sum", a>>>>]

\* decodeStep, lines 455-511, for one hypothesis in evaluation mode.
DecodeStep(enc, y, st) ==
    LET x == CASE y = NoToken -> "start"
               [] InputFeeding -> <<"add", <<"emb", y>>, st.summary>>
               [] OTHER -> <<"emb", y>>
        hy[n \in 0..R] ==
            IF n = 0 THEN x ELSE Round(n, hy[n - 1], st.hidden[n], enc).hy
        rd(n) == Round(n, hy[n - 1], st.hidden[n], enc)
    IN [out |-> <<"lin", hy[R]>>,
        state |-> [EmptyState EXCEPT !.step = st.step + 1,
                                     !.alpha = rd(R).alpha,
                                     !.summary = rd(R).summ,
                                     !.hidden = [n \in 1..R |-> rd(n).hid]]]

\* Reference: the state and logits after decoding path one decodeStep at a
\* time from a default state, the way viterbiPathBase does.
RECURSIVE DecodePath(_, _)
DecodePath(enc, path) ==
    IF path = << >> THEN DecodeStep(enc, NoToken, EmptyState)
    ELSE DecodeStep(enc, Last(path), DecodePath(enc, Front(path)).state)

\* A plausible fault batches inStates[0]'s hidden state for every column.
BatchHiddenFirst(first, st, n) == first.hidden[n]

\* Lines 547-557: whether the GRU gets a previous hidden state is decided
\* from inStates[0] for the whole batch.
BatchHidden(first, st, n) ==
    IF first.hidden[n] = "empty" THEN "empty" ELSE st.hidden[n]

\* Column i of decodeBatchStep, lines 524-593: input y, state st, with
\* first = inStates[0].  Its summary is yBatched.col(i) (line 588).
BatchColumn(enc, y, st, first) ==
    LET x == CASE y = NoToken -> "start"
               [] InputFeeding -> <<"add", <<"emb", y>>, st.summary>>
               [] OTHER -> <<"emb", y>>
        hy[n \in 0..R] ==
            IF n = 0 THEN x
            ELSE Round(n, hy[n - 1], BatchHidden(first, st, n), enc).hy
        rd(n) == Round(n, hy[n - 1], BatchHidden(first, st, n), enc)
    IN [out |-> <<"lin", hy[R]>>, alpha |-> rd(R).alpha, summary |-> hy[R],
        hidden |-> [n \in 1..R |-> rd(n).hid]]

\* The validity test of lines 584-586 (with its std::abs).
AbsVal(x) == IF x < 0 THEN -x ELSE x
PeakValidNoAbs(p, q) == p - q <= Thr
PeakValid(p, q) == AbsVal(p - q) <= Thr

\* A plausible fault stores the last round's peak but keeps the first
\* round's validity.
LastRoundWriteMixed(pks, prevPeak) ==
    [peak |-> pks[R], valid |-> PeakValid(pks[1], prevPeak)]

\* Lines 579-587 run in every attention round n: peakAttnPos and isValid
\* are written from round n's peak pks[n], measured against the peak of
\* the incoming state, so the last round's writes are the ones kept.
LastRoundWrite(pks, prevPeak) ==
    [peak |-> pks[R], valid |-> PeakValid(pks[R], prevPeak)]

\* Line 643: the encoder input is refreshed when t == 0.
RefreshInput(tt) == tt = 0

Init ==
    /\ utt \in Utterances
    /\ t = 0
    /\ bufInput = NoInput
    /\ batch = << [path |-> << >>, peaks |-> << >>, st |-> Null] >>
    /\ results = << >>

\* One call of the closure, lines 636-685, with decodeBatchStep: at t == 0
\* every hypothesis gets an empty y and buf->dummyState; otherwise the last
\* token of its path and its state.  The argmax of every round's alpha is
\* chosen: pk[i][n] is column i's peak in round n.  Invalid states are
\* returned as null.
AmUpdate ==
    /\ batch # << >>
    /\ LET input == IF RefreshInput(t) THEN Emissions(utt) ELSE bufInput
           B == Len(batch)
           y(i) == IF t > 0 THEN Last(batch[i].path) ELSE NoToken
           prev(i) == IF t > 0 THEN batch[i].st ELSE EmptyState
           col(i) == BatchColumn(input, y(i), prev(i), prev(1))
       IN \E pk \in [1..B -> [1..R -> Peaks]] :
            LET w(i) == LastRoundWrite(pk[i], prev(i).peakAttnPos)
                valid(i) == w(i).valid
                os(i) == [step |-> prev(i).step + 1, peakAttnPos |-> w(i).peak,
                          isValid |-> valid(i), alpha |-> col(i).alpha,
                          summary |-> col(i).summary, hidden |-> col(i).hidden]
            IN /\ bufInput' = input
               /\ results' = [i \in 1..B |->
                                [path |-> batch[i].path,
                                 peaks |-> Append(batch[i].peaks, w(i).peak),
                                 score |-> <<"lsm", col(i).out>>,
                                 st |-> IF valid(i) THEN os(i) ELSE Null]]
               /\ batch' = << >>
    /\ UNCHANGED <<utt, t>>

\* The driver extends up to BeamW (hypothesis, token) pairs of the states
\* that came back non-null, and calls again with t + 1.
Extend ==
    /\ batch = << >> /\ t + 1 < MaxT
    /\ \E S \in SUBSET ({i \in DOMAIN results : results[i].st # Null} \X Tokens) :
         /\ S # {} /\ Cardinality(S) <= BeamW
         /\ batch' = SetToSeq({[path |-> Append(results[p[1]].path, p[2]),
                                peaks |-> results[p[1]].peaks,
                                st |-> results[p[1]].st] : p \in S})
    /\ t' = t + 1
    /\ UNCHANGED <<utt, bufInput, results>>

\* The driver starts decoding an utterance at t == 0 with one empty
\* hypothesis, after the previous one ended.
Start ==
    /\ batch = << >>
    /\ \E u \in Utterances : utt' = u
    /\ t' = 0
    /\ batch' = << [path |-> << >>, peaks |-> << >>, st |-> Null] >>
    /\ results' = << >>
    /\ UNCHANGED bufInput

Next == AmUpdate \/ Extend \/ Start

Spec == Init /\ [][Next]_vars

-----------------------------------------------------------------------------
\* Spec section 8, batch invariance: every log-probability vector the
\* closure returns equals the one decodeStep gives when the hypothesis's
\* path is decoded one step at a time.  It needs the batched hidden states,
\* the summary stored at line 588 and the encoder input kept in the buffer
\* to agree with decodeStep's.
BatchInvariant ==
    \A i \in DOMAIN results :
        results[i].score = <<"lsm", DecodePath(Emissions(utt), results[i].path).out>>

\* A hypothesis whose state comes back non-null has never moved its
\* attention peak (the peakAttnPos its states carry, that of the last
\* attention round) by more than attentionThreshold in one step, in either
\* direction, its first step measured from the default state's peak.  The
\* validity and the stored peak have to come from the same round, although
\* every round of lines 579-587 writes both.
ValidPeaksMonotone ==
    \A i \in DOMAIN results :
        results[i].st # Null =>
            LET pk == results[i].peaks
            IN /\ AbsVal(pk[1] - DummyPeak) <= Thr
               /\ \A k \in 2..Len(pk) : AbsVal(pk[k] - pk[k - 1]) <= Thr
=============================================================================
