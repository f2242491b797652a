CONSTANTS
    NAttnRound <- MCNAttnRound
    Strategies <- MCStrategies
    Pcts <- MCPcts
    Attentions <- MCAttentions
    Windows <- MCWindows
    Tokens <- MCTokens
    NClass <- MCNClass
    Eos <- MCEos
    MaxU <- MCMaxU
    Arities <- MCArities
    NoY = NoY
    NoCall = NoCall
SPECIFICATION Spec
INVARIANT UnknownStrategyRejected
