----------------------------- MODULE BeamSearch -----------------------------
(***************************************************************************)
(* Seq2SeqCriterion::beamSearch and beamPath                               *)
(* (src/flashlight/app/asr/criterion/Seq2SeqCriterion.cpp 333-453).        *)
(*                                                                         *)
(* One expansion round of the code is split at its inner loop:            *)
(*   DecodeStep  - lines 362-411: batch the live hypotheses, run one       *)
(*                 decode step, add each hypothesis's score to every       *)
(*                 log-probability, and partially sort the flat scores;    *)
(*   Select      - one iteration of the candidate loop, lines 414-430;     *)
(*   Trim        - lines 431-445 (and the return, 448-452, when the loop   *)
(*                 ends): swap in the new beam, keep the best BeamSize     *)
(*                 completions, and stop when they dominate the beam.      *)
(*                                                                         *)
(* The decoder is abstracted to its output: a log-probability from the     *)
(* small set LogProbs for every (hypothesis, class) pair, chosen freely    *)
(* each round.  The decoder state carried by a hypothesis is data the      *)
(* search never inspects and is left out.  std::partial_sort does not say  *)
(* how equal scores are ordered, nor how the unsorted tail is ordered: the *)
(* model lets Select take any candidate that the sorted prefix allows.    *)
(***************************************************************************)
EXTENDS Integers, Sequences, FiniteSets, SequencesExt, Functions

CONSTANTS
    NClass,     \* number of output classes (nClass, ox.dims()[0])
    Eos,        \* the end-of-sentence class eos_
    BeamSize,   \* beamSize
    MaxLen,     \* maxLen (maxDecoderOutputLen_ when called from beamPath)
    LogProbs    \* log-probabilities a decode step may produce for one class

ASSUME
    /\ NClass \in Nat /\ NClass >= 2
    /\ Eos \in 0..(NClass - 1)
    /\ BeamSize \in Nat \ {0}
    /\ MaxLen \in Nat \ {0}
    /\ LogProbs \subseteq Int /\ \A p \in LogProbs : p <= 0

VARIABLES
    beam,       \* live hypotheses, a sequence of [score, path]
    complete,   \* completed hypotheses, a sequence of [score, path]
    l,          \* the round counter of the outer for loop
    pc,         \* "round" | "select" | "trim" | "done"
    scores,     \* scoreVec: candidate <<hypIdx, clsIdx>> -> cumulative score
    remaining,  \* candidates the inner loop has not reached yet
    j,          \* the inner loop counter
    newBeam,    \* newBeam
    taken,      \* candidates of this round that went into newBeam
    nDone,      \* completions accepted in this round
    finished,   \* every completion ever accepted (history, for properties)
    result      \* the vector beamSearch returns, once pc = "done"

vars == <<beam, complete, l, pc, scores, remaining, j, newBeam, taken,
          nDone, finished, result>>

Classes == 0..(NClass - 1)

Hypo == [score : Int, path : Seq(Classes)]

\* The candidates of a round over a beam of n hypotheses: the flat index
\* indices[j] of the code, decoded as hypIdx = idx / nClass and
\* clsIdx = idx % nClass.
Cands(n) == (1..n) \X Classes

MinOf(a, b) == IF a <= b THEN a ELSE b

SortPrefixLen(n) == MinOf(2 * BeamSize, n * NClass)

\* A CandidateHypo{} as built by beamPath.
Init ==
    /\ beam = << [score |-> 0, path |-> << >>] >>
    /\ complete = << >>
    /\ l = 0
    /\ pc = "round"
    /\ scores = [x \in {} |-> 0]
    /\ remaining = {}
    /\ j = 0
    /\ newBeam = << >>
    /\ taken = {}
    /\ nDone = 0
    /\ finished = {}
    /\ result = << >>

\* Lines 362-411: one batched decodeStep over the whole beam, logSoftmax
\* (its output ox is the argument), score accumulation and the partial sort
\* (realised lazily by Select).
DecodeStepWith(ox) ==
    /\ pc = "round"
    /\ scores' = [x \in Cands(Len(beam)) |-> beam[x[1]].score + ox[x]]
    /\ remaining' = Cands(Len(beam))
    /\ j' = 0
    /\ newBeam' = << >>
    /\ taken' = {}
    /\ nDone' = 0
    /\ pc' = "select"
    /\ UNCHANGED <<beam, complete, l, finished, result>>

DecodeStep == \E ox \in [Cands(Len(beam)) -> LogProbs] : DecodeStepWith(ox)

\* The break test of line 427; a plausible fault breaks one hypothesis late,
\* another counts the completions of the round towards the beam width.
BeamFullLate(nb) == Len(nb) > BeamSize
BeamFullCountsDone(nb) == Len(nb) + nDone' >= BeamSize
BeamFull(nb) == Len(nb) >= BeamSize

\* The path a completed hypothesis keeps: path_ with the end-of-sentence
\* class popped again (line 420).  A plausible fault forgets the pop.
CompletedPathKeepEos(p, c) == Append(p, c)
CompletedPath(p, c) == p

\* x may stand at position j of the partially sorted indices: inside the
\* sorted prefix it is a maximum of what is left, past it anything goes.
AtPosition(x, prefix) ==
    j < prefix => \A y \in remaining : scores[y] <= scores[x]

\* Lines 414-430: one iteration of the candidate loop.  An end-of-sentence
\* candidate ranked below BeamSize is dropped; the loop breaks once newBeam
\* holds BeamSize hypotheses.
SelectWith(prefix) ==
    /\ pc = "select"
    /\ \E x \in remaining :
         LET h    == x[1]
             c    == x[2]
             done == j < BeamSize /\ c = Eos
             hyp  == [score |-> scores[x], path |-> CompletedPath(beam[h].path, c)]
             ext  == [score |-> scores[x], path |-> Append(beam[h].path, c)]
         IN /\ AtPosition(x, prefix)
            /\ complete' = IF done THEN Append(complete, hyp) ELSE complete
            /\ finished' = IF done THEN finished \cup {hyp} ELSE finished
            /\ nDone' = IF done THEN nDone + 1 ELSE nDone
            /\ newBeam' = IF c # Eos THEN Append(newBeam, ext) ELSE newBeam
            /\ taken' = IF c # Eos THEN taken \cup {x} ELSE taken
            /\ remaining' = remaining \ {x}
            /\ j' = j + 1
            /\ pc' = IF BeamFull(newBeam') \/ remaining' = {}
                     THEN "trim" ELSE "select"
    /\ UNCHANGED <<beam, l, scores, result>>

Select == SelectWith(SortPrefixLen(Len(beam)))

\* The sequences std::partial_sort(complete, BeamSize) followed by
\* resize(BeamSize) may leave: the BeamSize best in descending order, ties
\* in any order.
TopCompleteTruncated(s) ==
    { [i \in 1..BeamSize |-> s[i]] }
TopComplete(s) ==
    { [i \in 1..BeamSize |-> s[f[i]]] :
        f \in { g \in Injection(1..BeamSize, 1..Len(s)) :
                  /\ \A i \in 1..(BeamSize - 1) : s[g[i]].score >= s[g[i+1]].score
                  /\ \A k \in (1..Len(s)) \ Range(g) :
                        s[k].score <= s[g[BeamSize]].score } }

\* The for-loop test of line 361 after l++: a plausible fault runs one
\* round too many.
LoopOverLate(n) == n > MaxLen
LoopOver(n) == n >= MaxLen

\* Lines 431-445, and the return of lines 448-452 when the loop ends.
Trim ==
    /\ pc = "trim"
    /\ beam' = newBeam
    /\ \E kept \in IF Len(complete) >= BeamSize THEN TopComplete(complete)
                                                ELSE {complete} :
         LET stop == /\ Len(complete) >= BeamSize
                     /\ kept[BeamSize].score > newBeam[1].score
             over == stop \/ LoopOver(l + 1)
         IN /\ complete' = kept
            /\ pc' = IF over THEN "done" ELSE "round"
            /\ result' = IF ~over THEN result
                         ELSE IF kept = << >> THEN newBeam ELSE kept
    /\ l' = l + 1
    /\ UNCHANGED <<scores, remaining, j, newBeam, taken, nDone, finished>>


Next == DecodeStep \/ Select \/ Trim

Spec == Init /\ [][Next]_vars

\* beamPath returns the path of the first hypothesis beamSearch returns.
BeamPath == Head(result).path

-----------------------------------------------------------------------------
TypeOK ==
    /\ beam \in Seq(Hypo) /\ complete \in Seq(Hypo) /\ newBeam \in Seq(Hypo)
    /\ result \in Seq(Hypo) /\ finished \subseteq Hypo
    /\ l \in 0..MaxLen
    /\ pc \in {"round", "select", "trim", "done"}
    /\ remaining \subseteq DOMAIN scores /\ taken \subseteq DOMAIN scores
    /\ j \in Nat /\ nDone \in Nat

\* Between rounds neither the live beam nor the completed list holds more
\* than BeamSize hypotheses (the break at line 427 and the resize at 437).
BeamsBounded ==
    pc \in {"round", "done"} =>
        /\ Len(beam) <= BeamSize
        /\ Len(complete) <= BeamSize

\* Line 442 reads beam[0] of the new beam, and the next round batches the
\* live beam with concatState and beamPath returns it when nothing
\* completed; none of them checks it is non-empty.  Every round ends with
\* at least one live hypothesis: the candidate loop always reaches a
\* non-eos extension before it breaks, even when the best candidates of
\* several hypotheses are all eos.
LiveBeamNonEmpty == pc = "trim" => newBeam # << >>

CompleteKeepsBest ==
    pc \in {"round", "done"} /\ Len(complete) = BeamSize =>
        \A f \in finished :
            \/ \E i \in 1..Len(complete) : complete[i] = f
            \/ \A i \in 1..Len(complete) : f.score <= complete[i].score

\* beamPath (line 341) takes the first returned hypothesis: it must be a
\* best-scoring one among those beamSearch returns.
BeamPathIsBest ==
    pc = "done" => \A i \in 1..Len(result) : result[i].score <= Head(result).score

=============================================================================
