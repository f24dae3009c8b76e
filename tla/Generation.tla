----------------------------- MODULE Generation -----------------------------
(***************************************************************************)
(* llama_predict_ex (src/src/lib/impl/llama-cpp/wrapper.cpp): one call of  *)
(* the text generation loop over one llama_context.                        *)
(*                                                                         *)
(* A turn of the loop evaluates the tokens collected by the previous turn  *)
(* (swapping the context first when they would not fit), then collects the *)
(* next ones, either a batch of the prompt or one sampled token, and then  *)
(* appends them to the answer and looks for a reason to stop.              *)
(*                                                                         *)
(* Data that is abstracted: a token stands for the piece of text it        *)
(* decodes to, and a stop prompt for the sequence of such pieces; the      *)
(* sampler may return any token; llama_eval may fail at any batch.         *)
(*                                                                         *)
(* External (llama.cpp): `cells` is the key/value cache, one cell per      *)
(* position; evaluating n tokens at n_past writes n_past .. n_past + n - 1 *)
(* and attends to the cells below n_past only.                             *)
(***************************************************************************)
EXTENDS Integers, Sequences, SequencesExt

CONSTANTS
  Tokens,      \* the vocabulary
  EOS,         \* llama_token_eos()
  Unk,         \* token 0, with which last_n_tokens is filled
  Junk,        \* what a read outside a buffer, or of a stale cell, returns
  Prompts,     \* the tokenized prompts a call may be given (embd_inp)
  Params,      \* the gpt_params a call may be given
  MaxSampled   \* bound: tokens sampled in one call, for n_predict < 0

ASSUME TokenAssumption ==
  /\ EOS \in Tokens
  /\ Unk \in Tokens
  /\ Junk \notin Tokens

\* The tokenizer is called with add_bos, so a prompt has at least one token.
ASSUME PromptAssumption == Prompts \subseteq (Seq(Tokens) \ {<<>>})

\* n_batch < 1 is outside the model: line 209 would not advance.
ASSUME ParamsAssumption ==
  Params \subseteq [n_ctx : Nat \ {0}, n_batch : Nat \ {0}, n_keep : Int,
                    n_predict : Int, antiprompt : SUBSET Seq(Tokens)]

ASSUME BoundAssumption == MaxSampled \in Nat

VARIABLES
  params,         \* the call's private copy of gpt_params
  embd_inp,       \* the tokenized prompt
  pc,             \* where the loop is, see Init and Returned
  i,              \* how much of embd the evaluation loop has passed
  n_past,         \* tokens held by the context
  n_remain,       \* sampling budget left
  n_consumed,     \* prompt tokens collected so far
  embd,           \* tokens to evaluate next
  last_n_tokens,  \* the last n_ctx tokens of the transcript
  res,            \* the answer
  cells           \* external: the key/value cache of the llama_context

vars == <<params, embd_inp, pc, i, n_past, n_remain, n_consumed, embd,
          last_n_tokens, res, cells>>

----------------------------------------------------------------------------
(* Arithmetic of the C++ code.  Faulty variants of definitions, each with  *)
(* one slip a maintainer could make, stand before the definition they      *)
(* vary; they show that the properties below notice it.                    *)

AtLeast(a, b) == IF a >= b THEN a ELSE b    \* std::max
AtMost(a, b)  == IF a <= b THEN a ELSE b    \* std::min

\* n / 2 on a C++ int, which truncates towards zero.
Half(n) == IF n >= 0 THEN n \div 2 ELSE -((-n) \div 2)

KeepCountUnclamped(n_keep, size) == IF n_keep > size THEN size ELSE n_keep

\* A negative or too large n_keep means the whole prompt (the wrapper never
\* sets params.instruct).
KeepCount(n_keep, size) == IF n_keep < 0 \/ n_keep > size THEN size ELSE n_keep

\* Tokens pushed at the end of the penalty window, each displacing the oldest.
Shift(window, tokens) ==
  SubSeq(window \o tokens, Len(tokens) + 1, Len(tokens) + Len(window))

----------------------------------------------------------------------------
Init ==
  /\ \E p \in Params, prompt \in Prompts :
       /\ params = [p EXCEPT !.n_keep = KeepCount(p.n_keep, Len(prompt))]
       /\ embd_inp = prompt
  /\ pc = "head"
  /\ i = 0
  /\ n_past = 0
  /\ n_remain = params.n_predict
  /\ n_consumed = 0
  /\ embd = <<>>
  /\ last_n_tokens = [k \in 1 .. params.n_ctx |-> Unk]
  /\ res = <<>>
  /\ cells = [k \in 0 .. params.n_ctx - 1 |-> Junk]

LoopExitOnNegative ==
  /\ pc = "head"
  /\ n_remain <= 0
  /\ pc' = "end"
  /\ UNCHANGED <<params, embd_inp, i, n_past, n_remain, n_consumed, embd,
                 last_n_tokens, res, cells>>

\* The while condition fails: the budget is used up.
LoopExit ==
  /\ pc = "head"
  /\ n_remain = 0
  /\ pc' = "end"
  /\ UNCHANGED <<params, embd_inp, i, n_past, n_remain, n_consumed, embd,
                 last_n_tokens, res, cells>>

\* The first turn has nothing to evaluate.
SkipEval ==
  /\ pc = "head"
  /\ n_remain # 0
  /\ embd = <<>>
  /\ pc' = "choose"
  /\ UNCHANGED <<params, embd_inp, i, n_past, n_remain, n_consumed, embd,
                 last_n_tokens, res, cells>>

\* The collected tokens fit behind the ones the context holds.
BeginEval ==
  /\ pc = "head"
  /\ n_remain # 0
  /\ embd # <<>>
  /\ n_past + Len(embd) <= params.n_ctx
  /\ pc' = "eval"
  /\ UNCHANGED <<params, embd_inp, i, n_past, n_remain, n_consumed, embd,
                 last_n_tokens, res, cells>>

OutOfContext ==
  /\ pc = "head"
  /\ n_remain # 0
  /\ embd # <<>>
  /\ n_past + Len(embd) > params.n_ctx

\* The iterator range that is put back in front of embd: Half(n_left) tokens
\* of last_n_tokens, ending where the tokens of embd themselves begin.  What
\* lies before the beginning of the vector is not a token.
Recalled(n_left) ==
  LET first == params.n_ctx - Half(n_left) - Len(embd)
  IN  [k \in 1 .. Half(n_left) |->
         IF first + k >= 1 THEN last_n_tokens[first + k] ELSE Junk]

SwapContextRecallsPending ==
  /\ OutOfContext
  /\ LET n_left == n_past - params.n_keep
     IN  /\ Half(n_left) >= 0
         /\ n_past' = AtLeast(1, params.n_keep)
         /\ embd' = SubSeq(last_n_tokens, params.n_ctx - Half(n_left) + 1,
                           params.n_ctx) \o embd
  /\ pc' = "eval"
  /\ UNCHANGED <<params, embd_inp, i, n_remain, n_consumed, last_n_tokens,
                 res, cells>>

SwapContextRecallsAll ==
  /\ OutOfContext
  /\ LET n_left == 2 * (n_past - params.n_keep)
     IN  /\ Half(n_left) >= 0
         /\ n_past' = AtLeast(1, params.n_keep)
         /\ embd' = Recalled(n_left) \o embd
  /\ pc' = "eval"
  /\ UNCHANGED <<params, embd_inp, i, n_remain, n_consumed, last_n_tokens,
                 res, cells>>

\* The context is full: forget everything but the first n_keep tokens, and
\* collect the newer half of the rest again.
SwapContext ==
  /\ OutOfContext
  /\ LET n_left == n_past - params.n_keep
     IN  /\ Half(n_left) >= 0
         /\ n_past' = AtLeast(1, params.n_keep)
         /\ embd' = Recalled(n_left) \o embd
  /\ pc' = "eval"
  /\ UNCHANGED <<params, embd_inp, i, n_remain, n_consumed, last_n_tokens,
                 res, cells>>

\* More tokens are to be kept than the context holds: the iterators cross, and
\* vector::insert throws length_error out of the call.
SwapThrows ==
  /\ OutOfContext
  /\ Half(n_past - params.n_keep) < 0
  /\ n_past' = AtLeast(1, params.n_keep)
  /\ pc' = "threw"
  /\ UNCHANGED <<params, embd_inp, i, n_remain, n_consumed, embd,
                 last_n_tokens, res, cells>>

----------------------------------------------------------------------------
(* One iteration of the evaluation loop: a batch of embd goes to           *)
(* llama_eval.  The last iteration also leaves the loop and clears embd.   *)

NEval == AtMost(Len(embd) - i, params.n_batch)

Written(n_eval) ==
  [p \in DOMAIN cells |->
     IF p \in n_past .. n_past + n_eval - 1 THEN embd[i + p - n_past + 1]
                                            ELSE cells[p]]

EvalBatch ==
  /\ pc = "eval"
  /\ cells' = Written(NEval)
  /\ n_past' = n_past + NEval
  /\ IF i + params.n_batch < Len(embd)
       THEN i' = i + params.n_batch /\ UNCHANGED <<pc, embd>>
       ELSE i' = 0 /\ pc' = "choose" /\ embd' = <<>>
  /\ UNCHANGED <<params, embd_inp, n_remain, n_consumed, last_n_tokens, res>>

\* llama_eval reports an error: return 1.
EvalFails ==
  /\ pc = "eval"
  /\ pc' = "failed"
  /\ UNCHANGED <<params, embd_inp, i, n_past, n_remain, n_consumed, embd,
                 last_n_tokens, res, cells>>

----------------------------------------------------------------------------
(* Collect the next tokens.                                                *)

FeedSkipsWindow ==
  /\ pc = "choose"
  /\ n_consumed < Len(embd_inp)
  /\ LET count == AtMost(params.n_batch, Len(embd_inp) - n_consumed)
     IN  /\ embd' = SubSeq(embd_inp, n_consumed + 1, n_consumed + count)
         /\ n_consumed' = n_consumed + count
  /\ pc' = "check"
  /\ UNCHANGED <<params, embd_inp, i, n_past, n_remain, last_n_tokens, res,
                 cells>>

\* Part of the prompt remains: take up to n_batch tokens of it.
Feed ==
  /\ pc = "choose"
  /\ n_consumed < Len(embd_inp)
  /\ LET count == AtMost(params.n_batch, Len(embd_inp) - n_consumed)
         batch == SubSeq(embd_inp, n_consumed + 1, n_consumed + count)
     IN  /\ embd' = batch
         /\ last_n_tokens' = Shift(last_n_tokens, batch)
         /\ n_consumed' = n_consumed + count
  /\ pc' = "check"
  /\ UNCHANGED <<params, embd_inp, i, n_past, n_remain, res, cells>>

SampleWithoutBudget(id, goes_on) ==
  /\ pc = "choose"
  /\ n_consumed >= Len(embd_inp)
  /\ Len(res) - Len(embd_inp) < MaxSampled
  /\ embd' = <<id>>
  /\ last_n_tokens' = Shift(last_n_tokens, <<id>>)
  /\ pc' = IF goes_on THEN "check" ELSE "end"
  /\ UNCHANGED <<params, embd_inp, i, n_past, n_remain, n_consumed, res, cells>>

\* The prompt is used up: sample a token, spend one unit of the budget and
\* show the token to the callback, whose refusal ends the loop.
Sample(id, goes_on) ==
  /\ pc = "choose"
  /\ n_consumed >= Len(embd_inp)
  /\ params.n_predict - n_remain < MaxSampled
  /\ embd' = <<id>>
  /\ last_n_tokens' = Shift(last_n_tokens, <<id>>)
  /\ n_remain' = n_remain - 1
  /\ pc' = IF goes_on THEN "check" ELSE "end"
  /\ UNCHANGED <<params, embd_inp, i, n_past, n_consumed, res, cells>>

----------------------------------------------------------------------------
\* A stop prompt is at the end of the text of last_n_tokens.
StopPromptFound == \E a \in params.antiprompt : IsSuffix(a, last_n_tokens)

CheckIgnoresStopPrompt ==
  /\ pc = "check"
  /\ res' = res \o embd
  /\ pc' = IF Last(embd) = EOS THEN "end" ELSE "head"
  /\ UNCHANGED <<params, embd_inp, i, n_past, n_remain, n_consumed, embd,
                 last_n_tokens, cells>>

\* Append what was collected to the answer; stop at a stop prompt or at EOS.
Check ==
  /\ pc = "check"
  /\ res' = res \o embd
  /\ pc' = IF StopPromptFound \/ Last(embd) = EOS THEN "end" ELSE "head"
  /\ UNCHANGED <<params, embd_inp, i, n_past, n_remain, n_consumed, embd,
                 last_n_tokens, cells>>

\* "end": return 0; "failed": return 1; "threw": an exception left the call.
Terminal == {"end", "failed", "threw"}

Returned == pc \in Terminal /\ UNCHANGED vars

Step ==
  \/ LoopExit
  \/ SkipEval
  \/ BeginEval
  \/ SwapContext
  \/ SwapThrows
  \/ EvalBatch
  \/ EvalFails
  \/ Feed
  \/ \E id \in Tokens, goes_on \in BOOLEAN : Sample(id, goes_on)
  \/ Check

Next == Step \/ Returned

Spec == Init /\ [][Next]_vars

\* One thread runs the call; llama_eval and the sampler return.
FairSpec == Spec /\ WF_vars(Step)

----------------------------------------------------------------------------
(* Properties.                                                             *)

\* Types of the locals of llama_predict_ex.
TypeOK ==
  /\ params \in [n_ctx : Nat \ {0}, n_batch : Nat \ {0}, n_keep : Nat,
                 n_predict : Int, antiprompt : SUBSET Seq(Tokens)]
  /\ embd_inp \in Seq(Tokens) \ {<<>>}
  /\ pc \in {"head", "eval", "choose", "check"} \cup Terminal
  /\ i \in Nat
  /\ n_past \in Nat
  /\ n_remain \in Int
  /\ n_consumed \in 0 .. Len(embd_inp)
  /\ embd \in Seq(Tokens \cup {Junk})
  /\ last_n_tokens \in [1 .. params.n_ctx -> Tokens]
  /\ res \in Seq(Tokens)
  /\ cells \in [0 .. params.n_ctx - 1 -> Tokens \cup {Junk}]

\* What the first swap makes of the context, if `pending` tokens wait.
RoomFor(pending) ==
  AtLeast(1, params.n_keep) + (params.n_ctx - params.n_keep) \div 2 + pending
    <= params.n_ctx

\* The calls for which the swap arithmetic works out: either the prompt leaves
\* room for a token, or a whole batch fits behind what a swap leaves.
CallFits ==
  \/ Len(embd_inp) < params.n_ctx /\ params.n_ctx >= 3
  \/ RoomFor(params.n_batch)

\* In a call that fits, evaluation stays inside the context however often it
\* is swapped (the check that n_past + embd.size() exceeds n_ctx, and the
\* re-collection of n_left / 2 tokens), and the swap never reads outside
\* last_n_tokens.
WindowFits ==
  CallFits =>
    /\ n_past <= params.n_ctx
    /\ pc = "eval" => n_past + (Len(embd) - i) <= params.n_ctx
    /\ pc # "threw"
    /\ \A k \in 1 .. Len(embd) : embd[k] # Junk

\* The comment on the swap promises to free context when it runs out ("take
\* the n_keep first tokens", "take half of the last (n_ctx - n_keep)"), for
\* every call: what is evaluated afterwards fits.
SwapMakesRoom ==
  pc = "eval" => n_past + (Len(embd) - i) <= params.n_ctx

\* When the next tokens are chosen the model has seen either the whole
\* transcript or, once it was swapped, the first tokens of the prompt and the
\* newest part of the transcript without a gap: no token is evaluated twice,
\* left out or out of order.
WindowIsKeptPrefixThenRecent ==
  (CallFits /\ pc = "choose") =>
    LET window == [p \in 1 .. n_past |-> cells[p - 1]]
        kept   == AtLeast(1, params.n_keep)
    IN  \/ window = res
        \/ /\ kept <= n_past
           /\ IsPrefix(SubSeq(embd_inp, 1, kept), window)
           /\ IsSuffix(SubSeq(window, kept + 1, n_past), res)

\* The window used for penalties, stop prompts and swaps is the tail of the
\* transcript, although it is updated before the transcript is.
PenaltyWindowIsTranscriptTail ==
  pc \in {"head", "eval", "choose"} =>
    last_n_tokens = Shift([k \in 1 .. params.n_ctx |-> Unk], res)

\* A transcript at which generation must stop: it ends with EOS or with a stop
\* prompt.
MustStop(transcript) ==
  /\ transcript # <<>>
  /\ \/ Last(transcript) = EOS
     \/ \E a \in params.antiprompt : IsSuffix(a, transcript)

\* No token is sampled after a transcript that ends with EOS or with one of
\* the stop prompts, be it the model's text or the prompt.
NoTokenAfterStop == [][n_remain' # n_remain => ~MustStop(res)]_vars

\* A call without a budget (n_predict < 0, the default of the command line and
\* of the server) ends only for EOS, a stop prompt or the callback's refusal,
\* and a refused token is the only one missing from the answer.
EndHasCause ==
  (pc = "end" /\ params.n_predict < 0) =>
    \/ MustStop(res)
    \/ Len(res) = n_consumed + (params.n_predict - n_remain) - 1

\* A call with a non-negative token budget returns.
Returns == params.n_predict >= 0 ~> pc \in Terminal

=============================================================================
