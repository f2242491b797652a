------------------------------ MODULE MCViterbi ------------------------------
(* Bounds for checking Viterbi with TLC.                                   *)
EXTENDS Viterbi

\* Three classes: two tokens and the end-of-sentence class.
MCNClass == 3
MCEos == 2
\* Two output levels: every class can be the unique maximum, and ties occur.
MCOutputs == {0, 1}
==============================================================================
