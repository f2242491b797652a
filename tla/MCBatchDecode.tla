--------------------------- MODULE MCBatchDecode ----------------------------
EXTENDS BatchDecode

\* Two tokens and two utterances tell paths and inputs apart; peaks 0..2
\* with threshold 1 give both small and large jumps, forward and back.
\* A default Seq2SeqState has peakAttnPos -1.
MCTokens == {1, 2}
MCUtterances == {"u1", "u2"}
MCPeaks == {0, 1, 2}
MCDummyPeak == -1
=============================================================================
