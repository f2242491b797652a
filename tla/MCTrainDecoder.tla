--------------------------- MODULE MCTrainDecoder ---------------------------
(* Bounds for checking TrainDecoder with TLC.                              *)
EXTENDS TrainDecoder

TD == INSTANCE TokenDict

\* The dictionary Test.cpp builds for a seq2seq criterion from a tokens file
\* of one token: "a", "$", "<PAD>".  Three classes, eos_ = 1.
MCDict == TD!TokenDict(<<"a">>, 0, "seq2seq")
MCNClass == TD!IndexSize(MCDict)
MCEos == TD!GetIndex(MCDict, TD!kEosToken)

\* Two rounds, so that a round feeds another; the three sampling strategies
\* and one name that is none of them.
MCNAttnRound == 2
MCStrategies == {"rand", "model", "gumbel", "beam"}
\* Scheduled sampling and full teacher forcing.
MCPcts == {50, 100}
MCAttentions == {"content", "location"}
MCWindows == {"none", "step", "median"}
\* The gold token is "a" (0); random samples are 0 or 1, so a sample may or
\* may not equal the gold token.
MCTokens == {TD!GetIndex(MCDict, "a")}
\* Targets of one and two tokens: the second step reads the first's state.
MCMaxU == 2
\* One size forward rejects, one it accepts, and 2, which it accepts and
\* then reads past the end of.
MCArities == {1, 2, 3}
\* The sizes forward rejects or reads within bounds, for the question of
\* which decoder fails where.
MCAritiesInBounds == {1, 3}
=============================================================================
