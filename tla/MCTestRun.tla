----------------------------- MODULE MCTestRun -------------------------------
(* Three pool threads, thread counts -1..3, up to three samples (a dataset *)
(* of 0 or 3 samples, maxload 0 or 1).  Samples differ in their counts so  *)
(* that a sample counted twice or missed changes the totals.  Sample 0 has *)
(* an empty reference and a hypothesis with one word, so a corpus of it    *)
(* alone has word errors and no reference words.                          *)
EXTENDS TestRun

MCThreads == 0..2
MCNThreadVals == -1..3
MCDsSizes == {0, 3}
MCMaxLoads == {0, 1}
MCWordsOf == [s \in 0..3 |-> s]
MCTokensOf == [s \in 0..3 |-> 2 * s]
MCWerrOf == [s \in 0..3 |-> IF s = 0 THEN 1 ELSE s % 2]
MCTerrOf == [s \in 0..3 |-> 1]
=============================================================================
