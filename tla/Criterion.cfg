CONSTANTS
    NAttnRound <- MCNAttnRound
    Strategies <- MCStrategies
    Pcts <- MCPcts
    Attentions <- MCAttentions
    Windows <- MCWindows
    Tokens <- MCTokens
    NClass <- MCNClass
    Eos <- MCEos
    MaxU <- MCMaxU
    Arities <- MCArities
    NoY = NoY
    NoCall = NoCall
    NoState = NoState
    NoToken = NoToken
    NoInput = NoInput
    Null = Null
SPECIFICATION MCSpec
INVARIANTS ForwardIsSequential TeacherForcedWhenCertain RoundTrip GTypeOK BeamOneIsGreedy BatchInvariant ValidPeaksMonotone
CHECK_DEADLOCK FALSE
