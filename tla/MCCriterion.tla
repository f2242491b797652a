---------------------------- MODULE MCCriterion -----------------------------
(***************************************************************************)
(* Seq2SeqCriterion's own state machines checked in one run: the training  *)
(* forward (TrainDecoder.tla), state batching (DecoderState.tla), the     *)
(* greedy decoder (Viterbi.tla), beam search at width 1 run beside it      *)
(* (GreedyBeam.tla) and the batched decode step under an external driver   *)
(* (BatchDecode.tla).  They share no state, so a behaviour exercises one   *)
(* of them, chosen at the start, while the others stay in a state of their *)
(* own Init: the states of the run are those of the five side by side, not *)
(* their product.  The greedy decoder's variables serve both Viterbi and   *)
(* GreedyBeam, each in behaviours of its own.                              *)
(***************************************************************************)
EXTENDS MCTrainDecoder

CONSTANTS
    NoState,  \* no batched state yet (a model value)
    NoToken,  \* an empty y (a model value)
    NoInput,  \* buf->input before the first call (a model value)
    Null      \* a null AMStatePtr (a model value)

VARIABLES stateVec, batched, threw, picked,
          vTrain, wasTrain, u, maxPath, gpc,
          beam, complete, l, pc, scores, remaining, j, newBeam, taken,
          nDone, finished, result,
          utt, t, bufInput, batch, results,
          part

trainVars == <<conf, useSeq, train, last>>
stateVars == <<stateVec, batched, threw, picked>>
greedyVars == <<vTrain, wasTrain, u, maxPath, gpc>>
beamVars == <<beam, complete, l, pc, scores, remaining, j, newBeam, taken,
              nDone, finished, result>>
batchVars == <<utt, t, bufInput, batch, results>>

\* Two attention rounds and two hypotheses, so that a mixed-up round or
\* batch index is visible; two values of every field, so that states differ.
DS == INSTANCE DecoderState
        WITH NAttnRound <- 2, MaxBatch <- 2, Steps <- {0, 1}, Peaks <- {0, 1},
             Vals <- {1, 2}

\* Three classes, the last one end-of-sentence; two output levels, so
\* that every class can be the unique maximum and ties occur.
V == INSTANCE Viterbi
        WITH NClass <- 3, Eos <- 2, Outputs <- {0, 1}, MaxDecoderOutputLen <- 4,
             train <- vTrain

\* Log-probabilities for the joint run; a round's output has a unique best
\* class (GreedyBeam.tla leaves ties out).
GB == INSTANCE GreedyBeam
        WITH NClass <- 3, Eos <- 2, Outputs <- {-1, -3}, MaxDecoderOutputLen <- 4,
             train <- vTrain

\* The parts not chosen rest in one state of their Init: the first
\* configuration, an empty vector of states, a caller in evaluation mode.
\* Two tokens and two utterances tell paths and inputs apart; peaks 0..2
\* with threshold 1 give both small and large jumps, forward and back; a
\* default Seq2SeqState has peakAttnPos -1.
BD == INSTANCE BatchDecode
        WITH NAttnRound <- 2, InputFeeding <- FALSE, Tokens <- {1, 2},
             Utterances <- {"u1", "u2"}, BeamW <- 2, MaxT <- 4,
             Peaks <- {0, 1, 2}, Thr <- 1, DummyPeak <- -1

MCInit ==
    /\ part \in {"train", "state", "greedy", "joint", "batch"}
    /\ IF part = "train" THEN Init
       ELSE Init /\ conf = CHOOSE c \in Confs : TRUE
    /\ IF part = "state" THEN DS!Init
       ELSE stateVec = << >> /\ batched = NoState /\ threw = FALSE /\ picked = << >>
    /\ GB!Init
    /\ part \notin {"greedy", "joint"} => vTrain = FALSE
    /\ BD!Init
    /\ part # "batch" => utt = "u1"

allVars == <<trainVars, stateVars, greedyVars, beamVars, batchVars, part>>

MCNext ==
    \/ part = "train" /\ Next
       /\ UNCHANGED <<stateVars, greedyVars, beamVars, batchVars, part>>
    \/ part = "state" /\ DS!Next
       /\ UNCHANGED <<trainVars, greedyVars, beamVars, batchVars, part>>
    \/ part = "greedy" /\ V!GNext
       /\ UNCHANGED <<trainVars, stateVars, beamVars, batchVars, part>>
    \/ part = "joint" /\ GB!Next
       /\ UNCHANGED <<trainVars, stateVars, batchVars, part>>
    \/ part = "batch" /\ BD!Next
       /\ UNCHANGED <<trainVars, stateVars, greedyVars, beamVars, part>>

MCSpec == MCInit /\ [][MCNext]_allVars

\* DecoderState.tla: a state selected back out of a batch is the state it
\* was batched from.
RoundTrip == DS!RoundTrip

\* Viterbi.tla: the greedy decoder's variables keep their types.
GTypeOK == V!GTypeOK

\* GreedyBeam.tla: in the joint behaviours, beam search of width 1 ends in
\* the greedy decoder's round with the greedy path.
BeamOneIsGreedy == part = "joint" => GB!BeamOneIsGreedy

\* BatchDecode.tla: the batched step gives each hypothesis decodeStep's
\* log-probabilities.
BatchInvariant == BD!BatchInvariant

\* BatchDecode.tla: a hypothesis still valid never moved its attention
\* peak by more than the threshold in one step.
ValidPeaksMonotone == BD!ValidPeaksMonotone
=============================================================================
