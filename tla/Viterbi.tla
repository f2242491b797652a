------------------------------- MODULE Viterbi -------------------------------
(***************************************************************************)
(* Seq2SeqCriterion::viterbiPathBase, the greedy decoder                   *)
(* (src/flashlight/app/asr/criterion/Seq2SeqCriterion.cpp 281-331).        *)
(*                                                                         *)
(* The criterion's train_ flag is shared with its caller: the decoder      *)
(* switches it off with eval() for the whole decode and turns it back on   *)
(* only on the normal return path.  A decode step is abstracted to its     *)
(* output ox, one value of Outputs per class; it may also throw (an        *)
(* ArrayFire or attention error propagating out of decodeStep).            *)
(***************************************************************************)
EXTENDS Integers, Sequences

CONSTANTS
    NClass,               \* number of output classes
    Eos,                  \* eos_
    MaxDecoderOutputLen,  \* maxDecoderOutputLen_
    Outputs               \* values one class of a decode step output may take

ASSUME
    /\ NClass \in Nat /\ NClass >= 2
    /\ Eos \in 0..(NClass - 1)
    /\ MaxDecoderOutputLen \in Nat \ {0}
    /\ Outputs \subseteq Int /\ Outputs # {}

VARIABLES
    train,     \* the criterion's train_ flag
    wasTrain,  \* the local copy taken on entry (line 292)
    u,         \* the loop counter
    maxPath,   \* the greedy path built so far
    gpc        \* "idle" | "loop" | "done" | "failed"

gvars == <<train, wasTrain, u, maxPath, gpc>>

Classes == 0..(NClass - 1)

\* The classes af::max may report for ox (a maximum; which one of several
\* equal maxima is not part of its contract).
Argmaxes(ox) == {c \in Classes : \A d \in Classes : ox[d] <= ox[c]}

\* The caller's criterion may be in either mode.
GInit ==
    /\ train \in BOOLEAN
    /\ wasTrain = FALSE
    /\ u = 0
    /\ maxPath = << >>
    /\ gpc = "idle"

\* Lines 292-300: remember the mode and force evaluation mode.
Start ==
    /\ gpc = "idle"
    /\ wasTrain' = train
    /\ train' = FALSE
    /\ u' = 0
    /\ maxPath' = << >>
    /\ gpc' = "loop"

\* The mode restore of lines 325-327.
RestoredMode(was, cur) == IF was THEN TRUE ELSE cur

\* The for-loop test of line 301 after u++; a plausible fault runs one
\* step too many.
PathFullLate(n) == n > MaxDecoderOutputLen
PathFull(n) == n >= MaxDecoderOutputLen

\* Lines 301-320 for one iteration with decoder output ox, and lines
\* 321-330 when the loop ends: stop on eos or after MaxDecoderOutputLen
\* steps, then restore the mode and return.
StepWith(ox) ==
    /\ gpc = "loop"
    /\ \E pred \in Argmaxes(ox) :
         LET path == IF pred = Eos THEN maxPath ELSE Append(maxPath, pred)
             over == pred = Eos \/ PathFull(u + 1)
         IN /\ maxPath' = path
            /\ u' = u + 1
            /\ gpc' = IF over THEN "done" ELSE "loop"
            /\ train' = IF over THEN RestoredMode(wasTrain, train) ELSE train
    /\ UNCHANGED wasTrain

Step == \E ox \in [Classes -> Outputs] : StepWith(ox)

\* decodeStep (line 302) throws: the exception leaves the function at once.
DecodeFails ==
    /\ gpc = "loop"
    /\ gpc' = "failed"
    /\ UNCHANGED <<train, wasTrain, u, maxPath>>

GNext == Start \/ Step \/ DecodeFails

GSpec == GInit /\ [][GNext]_gvars

-----------------------------------------------------------------------------
GTypeOK ==
    /\ train \in BOOLEAN /\ wasTrain \in BOOLEAN
    /\ u \in 0..MaxDecoderOutputLen
    /\ maxPath \in Seq(Classes)
    /\ gpc \in {"idle", "loop", "done", "failed"}

\* Section 4.1 of the spec: the prior mode is restored on every exit path,
\* an exception out of decodeStep included.
ModeRestoredOnEveryExit ==
    gpc \in {"done", "failed"} => train = wasTrain
==============================================================================
