------------------------------ MODULE TokenDict ------------------------------
(***************************************************************************)
(* The token dictionary the test driver builds (src/flashlight/app/asr/   *)
(* Test.cpp 118-135): the tokens file, then one "<r>" entry per repetition *)
(* label, then the CTC blank, then, for a seq2seq criterion, the end token *)
(* and the pad token.  An entry's index is its position, from 0.  The     *)
(* network has indexSize() classes, so the order of these additions fixes  *)
(* the ids of eos and pad that the criterion works with.                   *)
(***************************************************************************)
EXTENDS Integers, Sequences, SequencesExt

\* kBlankToken, fl::app::asr::kEosToken and fl::lib::text::kPadToken.
kBlankToken == "#"
kEosToken == "$"
kPadToken == "<PAD>"

\* Dictionary::addEntry: the entry gets the next index.
AddEntry(dict, entry) == Append(dict, entry)

\* Lines 128-129.
IsSeq2seqCrit(criterion) == criterion \in {"seq2seq", "transformer"}

\* Lines 119-133: the entries added to the tokens file, in order; the
\* replabel entries are "<" + std::to_string(r) + ">".
TokenDict(tokens, replabel, criterion) ==
    LET reps == [r \in 1..replabel |-> "<" \o ToString(r) \o ">"]
        blank == IF criterion = "ctc" THEN <<kBlankToken>> ELSE << >>
        s2s == IF IsSeq2seqCrit(criterion) THEN <<kEosToken, kPadToken>>
               ELSE << >>
    IN FoldLeft(AddEntry, tokens, reps \o blank \o s2s)

\* Dictionary::indexSize, line 135: numClasses.
IndexSize(dict) == Len(dict)

\* Dictionary::getIndex of an entry the dictionary holds.
GetIndex(dict, entry) == CHOOSE i \in 0..(Len(dict) - 1) : dict[i + 1] = entry
=============================================================================
