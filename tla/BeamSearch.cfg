CONSTANTS
    NClass <- MCNClass
    Eos <- MCEos
    LogProbs <- MCLogProbs
    BeamSize = 2
    MaxLen = 3
SPECIFICATION Spec
INVARIANTS LiveBeamNonEmpty TypeOK BeamsBounded  CompleteKeepsBest
CHECK_DEADLOCK FALSE
