CONSTANTS
    NClass <- MCNClass
    Eos <- MCEos
    Outputs <- MCOutputs
    MaxDecoderOutputLen = 2
INIT GInit
NEXT GNext
INVARIANT ModeRestoredOnEveryExit
CHECK_DEADLOCK FALSE
