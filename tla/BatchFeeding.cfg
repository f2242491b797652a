CONSTANTS
    NAttnRound = 2
    InputFeeding = TRUE
    Tokens <- MCTokens
    Utterances <- MCUtterances
    BeamW = 2
    MaxT = 3
    Peaks <- MCPeaks
    Thr = 1
    DummyPeak <- MCDummyPeak
    NoToken = NoToken
    NoInput = NoInput
    Null = Null
SPECIFICATION Spec
INVARIANT BatchInvariant
