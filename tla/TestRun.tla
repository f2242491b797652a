------------------------------ MODULE TestRun --------------------------------
(***************************************************************************)
(* The multi-threaded test driver (src/flashlight/app/asr/Test.cpp         *)
(* 201-437): the run(tid) worker, the two mutex-guarded transcript         *)
(* writers, startThreadsAndJoin and the aggregation.                        *)
(*                                                                         *)
(* A worker handles samples tid, tid + n, tid + 2n, ... below nSamples.    *)
(* Decoding is deterministic, so the word, token and error counts of a     *)
(* sample are constants.  A transcript line is written by one operator<<   *)
(* call; it is modelled as its two parts (the words, then " (id)\n"), so   *)
(* that a write that is not under its mutex can be split by another one.  *)
(* A worker can fail where the code throws: loading its own model          *)
(* (Serializer::load), decoding a sample (forward, viterbiPath) and saving *)
(* the emissions (Serializer::save).  Timing, the |T|/|P| console output   *)
(* and the letter/word conversions are left out.                           *)
(***************************************************************************)
EXTENDS Integers, Sequences, FiniteSets, Bags, BagsExt, Functions

CONSTANTS
    Threads,      \* thread ids the pool may run, 0..k
    NThreadVals,  \* values of FLAGS_nthread_decoder_am_forward
    DsSizes,      \* ds->size() values
    MaxLoads,     \* FLAGS_maxload values
    WordsOf,      \* sample id -> wordTarget.size()
    TokensOf,     \* sample id -> letterTarget.size()
    WerrOf,       \* sample id -> word edit distance of its prediction
    TerrOf,       \* sample id -> token edit distance of its prediction
    NoThread      \* no thread holds the mutex (a model value)

ASSUME
    /\ Threads = 0..(Cardinality(Threads) - 1)
    /\ NThreadVals \subseteq Int /\ \A n \in NThreadVals : n <= Cardinality(Threads)
    /\ DsSizes \subseteq Nat /\ MaxLoads \subseteq Nat

VARIABLES
    nThreads,     \* FLAGS_nthread_decoder_am_forward
    nSamples,     \* nSamples
    sclite,       \* !FLAGS_sclite.empty()
    emission,     \* !emissionDir.empty()
    pc,           \* tid -> the point the worker run(tid) is at
    crit,         \* tid -> the criterion localCriterion points to:
                  \* <<"global", 0>> or the one <<"loaded", tid>> loaded
    cur,          \* tid -> the sample id the worker is at
    meter,        \* tid -> [wrd, tkn] of meters.wrdDstSlice, tknDstSlice
    slice,        \* tid -> the slice* entries of the worker
    decoded,      \* bag of the sample ids decoded so far
    refFile,      \* the parts written to refStream, in order
    hypFile,      \* the parts written to hypStream, in order
    refOwner,     \* the thread holding refMutex, or NoThread
    hypOwner,     \* the thread holding hypMutex, or NoThread
    fut,          \* tid -> the state of futs[tid]
    mpc,          \* the point the main thread is at
    joinIdx,      \* the i of the futs[i].get() loop
    thrown,       \* the thread whose exception main rethrew, or NoThread
    totals,       \* the aggregate main computed
    report        \* the WER and TER main reports

vars == <<nThreads, nSamples, sclite, emission, pc, crit, cur, meter, slice,
          decoded, refFile, hypFile, refOwner, hypOwner, fut, mpc, joinIdx,
          thrown, totals, report>>

ZeroSlice == [numWords |-> 0, numTokens |-> 0, numSamples |-> 0,
              wrdDst |-> 0, tknDst |-> 0]

\* Lines 269-275: every worker but thread 0 loads its own model.
LoadsOwn(tid) == tid # 0

\* A plausible fault runs the shard loop up to nSamples inclusive.
InShardInclusive(i) == i <= nSamples
\* The bound of the loop of lines 279-281.
InShard(i) == i < nSamples

\* A plausible fault writes without taking the mutex.
UnlockedNoGuard(owner) == TRUE
\* The lock_guard of writeHyp and writeRef (lines 237-245) waits for this.
Unlocked(owner) == owner = NoThread

\* A plausible fault locks the mutex by hand and never unlocks it.
ReleaseNever(tid) == tid
\* The lock_guard's destructor at the end of writeRef and writeHyp frees
\* the mutex (lines 240, 244).
Release(tid) == NoThread

\* futs[i].get() rethrows what run(i) threw (line 401).
Rethrows(f) == f = "err"

\* A plausible fault gets all futures but the last.
JoinPendingAllButLast(i) == i < nThreads - 1
\* The loop of lines 400-402 has futures left to get.
JoinPending(i) == i < nThreads

\* A rate in percent as an exact fraction num / den, or infinite.
NoRate == [inf |-> FALSE, num |-> 0, den |-> 1]

\* A plausible fault divides only when there are units, and reports 0
\* otherwise.
RateNoInf(dst, n) ==
    IF n > 0 THEN [inf |-> FALSE, num |-> 100 * dst, den |-> n] ELSE NoRate

\* Lines 424-433: errors dst over n reference units, in percent; infinite
\* when there are errors and no units, 0 when there are neither.
Rate(dst, n) ==
    CASE dst > 0 /\ n = 0 -> [inf |-> TRUE, num |-> 0, den |-> 1]
      [] n > 0 -> [inf |-> FALSE, num |-> 100 * dst, den |-> n]
      [] OTHER -> NoRate

Init ==
    /\ nThreads \in NThreadVals
    /\ \E size \in DsSizes, ml \in MaxLoads :
          nSamples = IF ml > 0 /\ ml < size THEN ml ELSE size
    /\ sclite \in BOOLEAN /\ emission \in BOOLEAN
    /\ pc = [tid \in Threads |-> "idle"]
    /\ crit = [tid \in Threads |-> NoThread]
    /\ cur = [tid \in Threads |-> tid]
    /\ meter = [tid \in Threads |-> [wrd |-> 0, tkn |-> 0]]
    /\ slice = [tid \in Threads |-> ZeroSlice]
    /\ decoded = EmptyBag
    /\ refFile = << >> /\ hypFile = << >>
    /\ refOwner = NoThread /\ hypOwner = NoThread
    /\ fut = [tid \in Threads |-> "none"]
    /\ mpc = "start" /\ joinIdx = 0 /\ thrown = NoThread
    /\ totals = ZeroSlice
    /\ report = [wer |-> NoRate, ter |-> NoRate]

-----------------------------------------------------------------------------
(* The worker run(tid). *)

workerVars == <<crit, cur, meter, slice, decoded, refFile, hypFile,
                refOwner, hypOwner>>
configVars == <<nThreads, nSamples, sclite, emission>>
mainVars == <<mpc, joinIdx, thrown, totals, report>>

\* run(tid) throws: the exception is stored in its future.
Fail(tid) ==
    /\ pc' = [pc EXCEPT ![tid] = "failed"]
    /\ fut' = [fut EXCEPT ![tid] = "err"]
    /\ UNCHANGED <<configVars, workerVars, mainVars>>

\* Lines 264-276: take the global criterion or load a private one.
Begin(tid) ==
    /\ pc[tid] = "queued"
    /\ \/ /\ ~LoadsOwn(tid)
          /\ crit' = [crit EXCEPT ![tid] = <<"global", 0>>]
          /\ pc' = [pc EXCEPT ![tid] = "loop"]
          /\ UNCHANGED fut
       \/ /\ LoadsOwn(tid)
          /\ crit' = [crit EXCEPT ![tid] = <<"loaded", tid>>]
          /\ pc' = [pc EXCEPT ![tid] = "loop"]
          /\ UNCHANGED fut
       \/ LoadsOwn(tid) /\ Fail(tid)
    /\ UNCHANGED <<configVars, cur, meter, slice, decoded, refFile, hypFile,
                   refOwner, hypOwner, mainVars>>

\* The for loop over localDs (lines 279-287): the next sample of the shard.
Loop(tid) ==
    /\ pc[tid] = "loop"
    /\ pc' = [pc EXCEPT ![tid] = IF InShard(cur[tid]) THEN "decode" ELSE "finish"]
    /\ UNCHANGED <<configVars, workerVars, fut, mainVars>>

\* Lines 288-340: forward, viterbiPath and the two meters.
Decode(tid) ==
    /\ pc[tid] = "decode"
    /\ \/ LET s == cur[tid] IN
          /\ meter' = [meter EXCEPT ![tid] = [wrd |-> @.wrd + WerrOf[s],
                                               tkn |-> @.tkn + TerrOf[s]]]
          /\ decoded' = BagAdd(decoded, s)
          /\ pc' = [pc EXCEPT ![tid] = IF sclite THEN "refLock" ELSE "count"]
          /\ UNCHANGED <<configVars, crit, cur, slice, refFile, hypFile,
                         refOwner, hypOwner, fut, mainVars>>
       \/ Fail(tid)

\* writeRef and writeHyp (lines 237-245, called at 343-344): take the
\* mutex, write the line's words, then its id, and release the mutex.
Lock(tid, from, to, owner) ==
    /\ pc[tid] = from /\ Unlocked(owner)
    /\ pc' = [pc EXCEPT ![tid] = to]

RefLock(tid) ==
    /\ Lock(tid, "refLock", "refText", refOwner)
    /\ refOwner' = tid
    /\ UNCHANGED <<configVars, crit, cur, meter, slice, decoded, refFile,
                   hypFile, hypOwner, fut, mainVars>>

RefWrite(tid) ==
    \/ /\ pc[tid] = "refText"
       /\ refFile' = Append(refFile, <<cur[tid], "text">>)
       /\ pc' = [pc EXCEPT ![tid] = "refId"]
       /\ UNCHANGED refOwner
    \/ /\ pc[tid] = "refId"
       /\ refFile' = Append(refFile, <<cur[tid], "id">>)
       /\ refOwner' = Release(tid)
       /\ pc' = [pc EXCEPT ![tid] = "hypLock"]
    /\ UNCHANGED <<configVars, crit, cur, meter, slice, decoded, hypFile,
                   hypOwner, fut, mainVars>>

HypLock(tid) ==
    /\ Lock(tid, "hypLock", "hypText", hypOwner)
    /\ hypOwner' = tid
    /\ UNCHANGED <<configVars, crit, cur, meter, slice, decoded, refFile,
                   hypFile, refOwner, fut, mainVars>>

HypWrite(tid) ==
    \/ /\ pc[tid] = "hypText"
       /\ hypFile' = Append(hypFile, <<cur[tid], "text">>)
       /\ pc' = [pc EXCEPT ![tid] = "hypId"]
       /\ UNCHANGED hypOwner
    \/ /\ pc[tid] = "hypId"
       /\ hypFile' = Append(hypFile, <<cur[tid], "id">>)
       /\ hypOwner' = Release(tid)
       /\ pc' = [pc EXCEPT ![tid] = "count"]
    /\ UNCHANGED <<configVars, crit, cur, meter, slice, decoded, refFile,
                   refOwner, fut, mainVars>>

\* Lines 365-368, then the next sample id of the shard (i += n).
Count(tid) ==
    /\ pc[tid] = "count"
    /\ LET s == cur[tid] IN
         slice' = [slice EXCEPT ![tid].numWords = @ + WordsOf[s],
                                ![tid].numTokens = @ + TokensOf[s],
                                ![tid].numSamples = @ + 1]
    /\ cur' = [cur EXCEPT ![tid] = @ + nThreads]
    /\ pc' = [pc EXCEPT ![tid] = IF emission THEN "save" ELSE "loop"]
    /\ UNCHANGED <<configVars, crit, meter, decoded, refFile, hypFile,
                   refOwner, hypOwner, fut, mainVars>>

\* Lines 370-373: Serializer::save of the emission, which may throw.
Save(tid) ==
    /\ pc[tid] = "save"
    /\ \/ /\ pc' = [pc EXCEPT ![tid] = "loop"]
          /\ UNCHANGED <<configVars, workerVars, fut, mainVars>>
       \/ Fail(tid)

\* Lines 376-380: the meters go to the slices and run(tid) returns.
Finish(tid) ==
    /\ pc[tid] = "finish"
    /\ slice' = [slice EXCEPT ![tid].wrdDst = meter[tid].wrd,
                              ![tid].tknDst = meter[tid].tkn]
    /\ pc' = [pc EXCEPT ![tid] = "done"]
    /\ fut' = [fut EXCEPT ![tid] = "ok"]
    /\ UNCHANGED <<configVars, crit, cur, meter, decoded, refFile, hypFile,
                   refOwner, hypOwner, mainVars>>

Worker(tid) ==
    \/ Begin(tid) \/ Loop(tid) \/ Decode(tid) \/ RefLock(tid) \/ RefWrite(tid)
    \/ HypLock(tid) \/ HypWrite(tid) \/ Count(tid) \/ Save(tid) \/ Finish(tid)

-----------------------------------------------------------------------------
(* The main thread. *)

Running == {tid \in Threads : tid < nThreads}

\* Lines 208-213 and 393-405: a negative thread count makes the vector
\* constructors throw std::length_error; zero reaches LOG(FATAL);
\* otherwise every run(tid) is handed to the pool (run(0) is called
\* directly when there is one thread, which behaves the same).
Start ==
    /\ mpc = "start"
    /\ CASE nThreads < 0 -> mpc' = "lengthError" /\ UNCHANGED <<pc, fut>>
         [] nThreads = 0 -> mpc' = "fatal" /\ UNCHANGED <<pc, fut>>
         [] OTHER -> /\ mpc' = "join"
                     /\ pc' = [tid \in Threads |-> IF tid \in Running THEN "queued" ELSE "idle"]
                     /\ fut' = [tid \in Threads |-> IF tid \in Running THEN "pending" ELSE "none"]
    /\ UNCHANGED <<configVars, workerVars, joinIdx, thrown, totals, report>>

\* Lines 400-402: futs[i].get() waits for run(i) and rethrows its failure.
Join ==
    /\ mpc = "join" /\ JoinPending(joinIdx)
    /\ fut[joinIdx] \in {"ok", "err"}
    /\ IF Rethrows(fut[joinIdx])
       THEN mpc' = "unwind" /\ thrown' = joinIdx /\ UNCHANGED joinIdx
       ELSE joinIdx' = joinIdx + 1 /\ UNCHANGED <<mpc, thrown>>
    /\ UNCHANGED <<configVars, pc, workerVars, fut, totals, report>>

\* The exception leaves startThreadsAndJoin; destroying the pool waits for
\* the workers still running, then the exception ends the program.
Unwind ==
    /\ mpc = "unwind"
    /\ \A tid \in Running : pc[tid] \in {"done", "failed"}
    /\ mpc' = "threw"
    /\ UNCHANGED <<configVars, pc, workerVars, fut, joinIdx, thrown, totals, report>>

\* Lines 411-437: sum the slices of every thread and report the rates (the
\* time per sample is timing and left out).
Aggregate ==
    /\ mpc = "join" /\ ~JoinPending(joinIdx)
    /\ totals' = [f \in DOMAIN ZeroSlice |->
                    SumFunction([tid \in Running |-> slice[tid][f]])]
    /\ report' = [wer |-> Rate(totals'.wrdDst, totals'.numWords),
                  ter |-> Rate(totals'.tknDst, totals'.numTokens)]
    /\ mpc' = "done"
    /\ UNCHANGED <<configVars, pc, workerVars, fut, joinIdx, thrown>>

Next ==
    \/ Start \/ Join \/ Unwind \/ Aggregate
    \/ \E tid \in Threads : Worker(tid)

\* Every worker runs on a thread of its own (the pool has one per task),
\* and the main thread is never descheduled for good.
Fairness ==
    /\ \A tid \in Threads : WF_vars(Worker(tid))
    /\ WF_vars(Start \/ Join \/ Unwind \/ Aggregate)

Spec == Init /\ [][Next]_vars /\ Fairness

-----------------------------------------------------------------------------
Shard == 0..(nSamples - 1)

\* Every sample is decoded by exactly one worker: no sample is decoded
\* twice or beyond nSamples, and when main reports, all of them were
\* (the round-robin loop of lines 279-281 with the thread count as step).
ShardsPartition ==
    /\ \A s \in BagToSet(decoded) : s \in Shard /\ CopiesIn(s, decoded) = 1
    /\ mpc = "done" => BagToSet(decoded) = Shard

\* The report main prints counts every sample once: its sample, word,
\* token and error totals are the sums over all nSamples samples, so the
\* aggregation of lines 411-421 never reads a slice before its worker has
\* written it.
AggregateComplete ==
    mpc = "done" =>
        totals = [numWords |-> SumFunction([s \in Shard |-> WordsOf[s]]),
                  numTokens |-> SumFunction([s \in Shard |-> TokensOf[s]]),
                  numSamples |-> nSamples,
                  wrdDst |-> SumFunction([s \in Shard |-> WerrOf[s]]),
                  tknDst |-> SumFunction([s \in Shard |-> TerrOf[s]])]

\* The rate r states dst errors over n units: a fraction equal to
\* 100 * dst / n, infinite for errors without units, 0 for neither.
RateStates(r, dst, n) ==
    IF n = 0 THEN r.inf = (dst > 0) /\ r.num = 0
    ELSE ~r.inf /\ r.num * n = 100 * dst * r.den

\* The WER and TER main prints are the corpus error rates: the word (token)
\* errors of every sample over the reference words (tokens) of every
\* sample, after the per-thread slices are summed.  A corpus whose
\* references are empty while its hypotheses are not has an infinite WER,
\* not a perfect one (lines 424-433).
CorpusRates ==
    mpc = "done" =>
        /\ RateStates(report.wer, SumFunction([s \in Shard |-> WerrOf[s]]),
                                  SumFunction([s \in Shard |-> WordsOf[s]]))
        /\ RateStates(report.ter, SumFunction([s \in Shard |-> TerrOf[s]]),
                                  SumFunction([s \in Shard |-> TokensOf[s]]))

\* Both transcript files are sequences of whole lines, the two parts of a
\* line never split by another thread's write, and once every worker has
\* ended, both list exactly the samples the slices counted.
WholeLines(file) ==
    /\ \A k \in 1..Len(file) :
         file[k][2] = "id" => k > 1 /\ file[k - 1] = <<file[k][1], "text">>
    /\ \A k \in 1..(Len(file) - 1) :
         file[k][2] = "text" => file[k + 1] = <<file[k][1], "id">>

Counted == SumFunction([tid \in Threads |-> slice[tid].numSamples])

TranscriptsWhole ==
    /\ WholeLines(refFile) /\ WholeLines(hypFile)
    /\ mpc \in {"done", "threw"} /\ sclite =>
         Len(refFile) = 2 * Counted /\ Len(hypFile) = 2 * Counted

\* The driver always ends (reports, rethrows or stops fatally).  Once a
\* worker has failed, main eventually rethrows, and what it rethrows is the
\* failure of the lowest-index worker that failed: futs[i].get() is called
\* in index order (lines 400-402), every earlier future held a result, and
\* the failures of later workers are never seen.
FirstFailureRethrown ==
    /\ mpc = "threw"
    /\ fut[thrown] = "err"
    /\ \A tid \in Running : tid < thrown => fut[tid] = "ok"

DriverEnds ==
    /\ <>(mpc \in {"done", "threw", "fatal", "lengthError"})
    /\ (\E tid \in Threads : pc[tid] = "failed") ~> FirstFailureRethrown
=============================================================================
