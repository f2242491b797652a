---------------------------- MODULE MCBeamSearch ----------------------------
(* Bounds for checking BeamSearch with TLC.                                *)
EXTENDS BeamSearch

\* Three classes: two tokens and the end-of-sentence class.
MCNClass == 3
MCEos == 2
\* Two log-probabilities far enough apart that a longer completion can
\* outscore a shorter one (-1-1 > -3), while cumulative scores still tie
\* (-1-3 = -3-1).
MCLogProbs == {-1, -3}
==============================================================================
