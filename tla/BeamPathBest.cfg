\* Width 3 and two rounds: the search can end at MaxLen with fewer than
\* BeamSize completions, which are then returned unsorted.
CONSTANTS
    NClass <- MCNClass
    Eos <- MCEos
    LogProbs <- MCLogProbs
    BeamSize = 3
    MaxLen = 2
SPECIFICATION Spec
INVARIANT BeamPathIsBest
CHECK_DEADLOCK FALSE
