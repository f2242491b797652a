------------------------------ MODULE GreedyBeam ------------------------------
(***************************************************************************)
(* beamSearch at width 1 against viterbiPathBase.  Both decoders consume   *)
(* the same decode-step output each round: the greedy decoder its raw      *)
(* output, the beam its log-probabilities; logSoftmax keeps the order of   *)
(* classes, so one value per class stands for both.  Equal maxima are left *)
(* out: which of two tied classes either search takes is not specified     *)
(* (af::max against std::partial_sort).                                    *)
(***************************************************************************)
EXTENDS Integers, Sequences, FiniteSets

CONSTANTS NClass, Eos, MaxDecoderOutputLen, Outputs

VARIABLES beam, complete, l, pc, scores, remaining, j, newBeam, taken,
          nDone, finished, result,
          train, wasTrain, u, maxPath, gpc

bvars == <<beam, complete, l, pc, scores, remaining, j, newBeam, taken,
           nDone, finished, result>>
gvars == <<train, wasTrain, u, maxPath, gpc>>
allvars == <<bvars, gvars>>

BS == INSTANCE BeamSearch
        WITH BeamSize <- 1, MaxLen <- MaxDecoderOutputLen, LogProbs <- Outputs
G == INSTANCE Viterbi

\* Decode-step outputs with a single best class.
UniqueMax == {ox \in [G!Classes -> Outputs] : Cardinality(G!Argmaxes(ox)) = 1}

Init == BS!Init /\ G!GInit

\* One decode step seen by both searches.
JointDecode ==
    \E ox \in UniqueMax :
        /\ BS!DecodeStepWith([x \in BS!Cands(1) |-> ox[x[2]]])
        /\ G!StepWith(ox)

Next ==
    \/ G!Start /\ UNCHANGED bvars
    \/ JointDecode
    \/ (BS!Select \/ BS!Trim) /\ UNCHANGED gvars

Spec == Init /\ [][Next]_allvars

-----------------------------------------------------------------------------
\* Spec section 8: beam search of width 1 finishes in the same round as the
\* greedy decoder and beamPath returns the greedy path (no eos, truncated
\* at MaxDecoderOutputLen).
BeamOneIsGreedy ==
    pc \in {"round", "done"} =>
        /\ (pc = "done") = (gpc = "done")
        /\ pc = "done" => BS!BeamPath = maxPath
==============================================================================
