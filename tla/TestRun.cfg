CONSTANTS
    Threads <- MCThreads
    NThreadVals <- MCNThreadVals
    DsSizes <- MCDsSizes
    MaxLoads <- MCMaxLoads
    WordsOf <- MCWordsOf
    TokensOf <- MCTokensOf
    WerrOf <- MCWerrOf
    TerrOf <- MCTerrOf
    NoThread = NoThread
SPECIFICATION Spec
INVARIANTS
    AggregateComplete
    CorpusRates
    ShardsPartition
    TranscriptsWhole
PROPERTY
    DriverEnds
CHECK_DEADLOCK FALSE
