------------------------------- MODULE MCIndex -------------------------------
(* Bounds for checking Index with TLC.                                     *)
EXTENDS Index

\* Explicit ends from past the front of a 4-element axis to its length:
\* negative, zero and positive ends all occur.
MCEnds == -3..4
==============================================================================
