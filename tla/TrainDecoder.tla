---------------------------- MODULE TrainDecoder ----------------------------
(***************************************************************************)
(* The training-side forward of Seq2SeqCriterion                          *)
(* (src/flashlight/app/asr/criterion/Seq2SeqCriterion.cpp 73-279, 455-511, *)
(* 603-619): the constructor and its choice of decoder                     *)
(* (setUseSequentialDecoder), forward, the sequential decoder with its     *)
(* per-step sampling policies, and the vectorized decoder.                 *)
(*                                                                         *)
(* Tensors are symbolic terms as in BatchDecode.tla: "start", <<"emb", y>> *)
(* (<<"soft", y>> for the Gumbel soft embedding), <<"rnn", n, x, h>>,      *)
(* <<"att", n, q, prev, win>> for attention of round n with query q, the   *)
(* previous alpha it was given and the window mask.  Two decoders agree    *)
(* on a column exactly when they build the same term.  Randomness is an    *)
(* input: per target position, whether randu * 100 <= pctTeacherForcing_   *)
(* (the coin) and the token randu * (nClass_ - 1) gives; both decoders are *)
(* compared on the same draws, with batch size 1 (the vectorized decoder   *)
(* draws per batch element where the sequential one draws per step).       *)
(* Attention and window modules live outside this code: content attention *)
(* ignores the previous alpha, location attention reads it; a median       *)
(* window is computed from the previous alpha and has no vectorized form   *)
(* (spec sections 6 and 7 (c)), any other window from the step alone.      *)
(***************************************************************************)
EXTENDS Integers, Sequences

CONSTANTS
    NAttnRound,   \* nAttnRound_
    Strategies,   \* samplingStrategy_ values, known and unknown names
    Pcts,         \* pctTeacherForcing_ values
    Attentions,   \* "content" or "location", the kind of attention(0)
    Windows,      \* "none" (no window_), "step" or "median"
    Tokens,       \* target token ids
    NClass,       \* nClass_, the size of the token dictionary
    Eos,          \* eos_, the index of the end token
    MaxU,         \* longest target
    Arities,      \* sizes of the inputs vector of forward
    NoY,          \* the empty Variable y of the first step
    NoCall        \* no forward call yet

ASSUME NAttnRound \in Nat \ {0} /\ MaxU \in Nat \ {0} /\ NClass \in Nat \ {0}

VARIABLES
    conf,    \* the constructor arguments
    useSeq,  \* useSequentialDecoder_
    train,   \* train_ (fl::Module::train / eval)
    last     \* the last forward call: its inputs and what it returned

vars == <<conf, useSeq, train, last>>

R == NAttnRound

Confs ==
    [strategy : Strategies, pct : Pcts, inputFeeding : BOOLEAN,
     attention : Attentions, window : Windows, trainWithWindow : BOOLEAN]

Targets == UNION {[1..n -> Tokens] : n \in 1..MaxU}

\* The ids (randu * (nClass_ - 1)).as(s32) can give, lines 197-198 and
\* 264-266: randu lies in [0, 1) and the cast truncates.
Samples == 0..(NClass - 2)

\* The draws of one call, per target position; at 100% every coin is
\* heads (randu < 1).
Draws(c, tgt) ==
    {d \in [1..Len(tgt) -> [coin : BOOLEAN, rnd : Samples]] :
        c.pct >= 100 => \A k \in DOMAIN d : d[k].coin}

\* Lines 603-619, run once at the end of the constructor.
SetUseSequentialDecoder(c) ==
    \/ c.pct < 100 /\ c.strategy = "model"
    \/ c.strategy = "gumbel"
    \/ c.inputFeeding
    \/ c.attention = "location"
    \/ c.window = "median" /\ c.trainWithWindow

\* window_ && (!train_ || trainWithWindow_), lines 203 and 494.
WindowUsed(c, tr) == c.window # "none" /\ (~tr \/ c.trainWithWindow)

\* What an attention makes of the previous alpha it is passed.
PrevAttn(c, alpha) == IF c.attention = "content" THEN <<"unused">> ELSE alpha

\* WindowBase::computeWindow for the state of the step.
StepWindow(c, st) ==
    IF c.window = "median" THEN <<"win", st.alpha>> ELSE <<"win", st.step>>

\* A token id as a term, comparable with the terms argmax and Gumbel
\* sampling feed back.
Tok(v) == <<"tok", v>>

\* Seq2SeqState(nAttnRound_) as the decoder starts it (line 243).
EmptyState ==
    [step |-> 0, alpha |-> <<"empty">>, summary |-> <<"empty">>,
     hidden |-> [n \in 1..R |-> <<"empty">>]]

\* One attention round n (lines 480-506, 208-227): the GRU, then attention
\* for its output; the context is added to the GRU output.
Round(n, x, h, prev, win) ==
    LET r == <<"rnn", n, x, h>>
        a == <<"att", n, <<"out", r>>, prev, win>>
    IN [hid |-> <<"hid", r>>, alpha |-> <<"alpha", a>>,
        summ |-> <<"sum", a>>, hy |-> <<"add", <<"out", r>>, <<"sum", a>>>>]

\* decodeStep, lines 455-511.
DecodeStep(c, tr, y, st) ==
    LET emb == CASE y = NoY -> <<"start">>
                 [] tr /\ c.strategy = "gumbel" -> <<"soft", y>>
                 [] OTHER -> <<"emb", y>>
        x == IF c.inputFeeding /\ y # NoY THEN <<"add", emb, st.summary>>
             ELSE emb
        win == IF WindowUsed(c, tr) THEN StepWindow(c, st) ELSE <<"nowin">>
        rd[n \in 0..R] ==
            IF n = 0 THEN [hy |-> x]
            ELSE Round(n, rd[n - 1].hy, st.hidden[n], PrevAttn(c, st.alpha), win)
    IN [out |-> <<"lin", rd[R].hy>>,
        state |-> [step |-> st.step + 1, alpha |-> rd[R].alpha,
                   summary |-> rd[R].summ,
                   hidden |-> [n \in 1..R |-> rd[n].hid]]]

\* Line 270: training, no Gumbel, the coin says sample, and the strategy is
\* neither model nor random sampling.
SamplingFails(c, tr, d, k) ==
    tr /\ c.strategy \notin {"gumbel", "model", "rand"} /\ ~d[k].coin

\* A plausible fault tries model sampling before teacher forcing.
SampledModelFirst(c, tr, d, k, ox, tgt) ==
    CASE ~tr -> [y |-> Tok(tgt[k]), ox |-> ox]
      [] c.strategy = "gumbel" ->
            [y |-> <<"exp", <<"gumbel", k, ox>>>>, ox |-> <<"gumbel", k, ox>>]
      [] c.strategy = "model" -> [y |-> <<"argmax", ox>>, ox |-> ox]
      [] d[k].coin -> [y |-> Tok(tgt[k]), ox |-> ox]
      [] c.strategy = "rand" -> [y |-> Tok(d[k].rnd), ox |-> ox]

\* Lines 248-269 after step k: the next input and the logits kept (the
\* Gumbel branch keeps its noised log-softmax and feeds back its exp).
Sampled(c, tr, d, k, ox, tgt) ==
    CASE ~tr -> [y |-> Tok(tgt[k]), ox |-> ox]
      [] c.strategy = "gumbel" ->
            [y |-> <<"exp", <<"gumbel", k, ox>>>>, ox |-> <<"gumbel", k, ox>>]
      [] d[k].coin -> [y |-> Tok(tgt[k]), ox |-> ox]
      [] c.strategy = "model" -> [y |-> <<"argmax", ox>>, ox |-> ox]
      [] c.strategy = "rand" -> [y |-> Tok(d[k].rnd), ox |-> ox]

\* The loop of decoder, lines 243-273, from step Len(outs) + 1 on.
RECURSIVE SeqLoop(_, _, _, _, _, _, _)
SeqLoop(c, tr, tgt, d, y, st, outs) ==
    IF Len(outs) = Len(tgt) THEN [status |-> "ok", out |-> outs]
    ELSE LET k == Len(outs) + 1
             s == DecodeStep(c, tr, y, st)
             nx == Sampled(c, tr, d, k, s.out, tgt)
         IN IF SamplingFails(c, tr, d, k)
            THEN [status |-> "invalid_argument", out |-> << >>]
            ELSE SeqLoop(c, tr, tgt, d, nx.y, s.state, Append(outs, nx.ox))

\* decoder, lines 233-279.
Decoder(c, tr, tgt, d) == SeqLoop(c, tr, tgt, d, NoY, EmptyState, << >>)

\* A plausible fault forgets to mix the samples in (line 200).
VectorizedInputsNoMix(c, tr, tgt, d) == [k \in 1..(Len(tgt) - 1) |-> Tok(tgt[k])]

\* Lines 186-200: the target without its last token, each token replaced
\* by its random sample where the mask says so.
VectorizedInputs(c, tr, tgt, d) ==
    [k \in 1..(Len(tgt) - 1) |->
        IF tr /\ c.strategy = "rand" /\ ~d[k].coin THEN Tok(d[k].rnd)
        ELSE Tok(tgt[k])]

\* vectorizedDecoder, lines 173-231: the inputs are the start embedding
\* and the target without its last token, mixed with random samples; each
\* round runs its GRU over all positions and attends without a previous
\* alpha, under the vectorized window.
VectorizedDecoder(c, tr, tgt, d) ==
    LET U == Len(tgt)
        ys == VectorizedInputs(c, tr, tgt, d)
        xs == <<<<"start">>>> \o [k \in 1..(U - 1) |-> <<"emb", ys[k]>>]
        win(u) == IF WindowUsed(c, tr) THEN <<"win", u - 1>> ELSE <<"nowin">>
        rd[p \in (0..R) \X (1..U)] ==
            LET n == p[1]
                u == p[2]
            IN IF n = 0 THEN [hy |-> xs[u]]
               ELSE Round(n, rd[<<n - 1, u>>].hy,
                          IF u = 1 THEN <<"empty">> ELSE rd[<<n, u - 1>>].hid,
                          PrevAttn(c, <<"empty">>), win(u))
    IN CASE U > 1 /\ tr /\ c.strategy = "model" ->
              [status |-> "logic_error", out |-> << >>]
         [] WindowUsed(c, tr) /\ c.window = "median" ->
              [status |-> "invalid_argument", out |-> << >>]
         [] OTHER ->
              [status |-> "ok", out |-> [u \in 1..U |-> <<"lin", rd[<<R, u>>].hy>>]]

-----------------------------------------------------------------------------
\* The constructor, lines 73-123: it stores its arguments and ends with
\* setUseSequentialDecoder.  A new module is in training mode.
Init ==
    /\ conf \in Confs
    /\ useSeq = SetUseSequentialDecoder(conf)
    /\ train = TRUE
    /\ last = NoCall

\* fl::Module::train() and eval().
SetMode ==
    /\ \E b \in BOOLEAN : train' = b
    /\ UNCHANGED <<conf, useSeq, last>>

\* What reading inputs[3] of a vector of size 2 (line 146) does: it reads
\* past the end of the vector, undefined behaviour that can crash the
\* process or hand the decoder a garbage targetSizes, which it never uses.
PastEnd(n) == IF n = 2 THEN {"crash", "garbage"} ELSE {"none"}

\* forward, lines 135-172: the arity check, the read of targetSizes, then
\* the decoder chosen at construction.  The loss is computed from the
\* logits the same way on both paths and is left out.
Forward(n, tgt, d) ==
    \E ub \in PastEnd(n) :
        LET r == CASE n < 2 \/ n > 4 ->
                        [status |-> "invalid_argument", out |-> << >>]
                   [] ub = "crash" -> [status |-> "crash", out |-> << >>]
                   [] useSeq -> Decoder(conf, train, tgt, d)
                   [] OTHER -> VectorizedDecoder(conf, train, tgt, d)
        IN /\ last' = [n |-> n, train |-> train, target |-> tgt, draws |-> d,
                       status |-> r.status, out |-> r.out]
           /\ UNCHANGED <<conf, useSeq, train>>

Next ==
    \/ SetMode
    \/ \E n \in Arities, tgt \in Targets :
          \E d \in Draws(conf, tgt) : Forward(n, tgt, d)

Spec == Init /\ [][Next]_vars

-----------------------------------------------------------------------------
Called == last # NoCall /\ last.n \in 2..4

\* The sampling strategies of the configuration (spec section 3).
Known == {"rand", "model", "gumbel"}

\* Reference: the logits of decodeStep fed the gold token at every step.
RECURSIVE GoldLoop(_, _, _, _, _)
GoldLoop(c, tr, tgt, st, outs) ==
    IF Len(outs) = Len(tgt) THEN outs
    ELSE LET k == Len(outs) + 1
             s == DecodeStep(c, tr, IF k = 1 THEN NoY ELSE Tok(tgt[k - 1]), st)
         IN GoldLoop(c, tr, tgt, s.state, Append(outs, s.out))

\* Spec section 4.1: whichever decoder setUseSequentialDecoder chose, a
\* forward that returns gives the logits decodeStep gives one step at a
\* time (decoder), for the same draws and in either mode, for every
\* strategy of the configuration.
ForwardIsSequential ==
    Called /\ last.status = "ok" /\ conf.strategy \in Known =>
        last.out = Decoder(conf, last.train, last.target, last.draws).out

\* Forward in evaluation feeds every step the gold token (line 248), and
\* spec section 4.1 has training use it with probability pctTeacherForcing_:
\* at 100%, without Gumbel sampling, the logits are the teacher-forced ones
\* whatever the draws, on either path.
TeacherForcedWhenCertain ==
    Called /\ last.status = "ok"
    /\ (~last.train \/ (conf.pct >= 100 /\ conf.strategy # "gumbel")) =>
        last.out = GoldLoop(conf, last.train, last.target, EmptyState, << >>)

\* Spec section 4.1: the vectorized path is an optimisation: forward fails
\* only where the sequential decoder fails too.
FailsOnlyWhereSequentialFails ==
    Called /\ last.status # "ok" =>
        Decoder(conf, last.train, last.target, last.draws).status # "ok"

\* Spec section 7 (a): an unknown sampling strategy fails immediately: a
\* training forward with one never returns.
UnknownStrategyRejected ==
    Called /\ last.train /\ conf.strategy \notin Known =>
        last.status # "ok"

=============================================================================
