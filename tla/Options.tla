------------------------------ MODULE Options -------------------------------
(***************************************************************************)
(* How an option gets from a program to inference: predict_options         *)
(* (src/src/lib/include/public/llama-cpp/models.hpp), LLAMA_PARAMS         *)
(* (wrapper.h) and gpt_params, which the class makes from the second one   *)
(* directly and the C interface through a call with 25 positional          *)
(* arguments (wrapper.cpp).                                                *)
(*                                                                         *)
(* The value of an option is abstracted to the pair of its member and of   *)
(* its origin: set by the program, an initial value, or nobody, for the    *)
(* members without one.                                                    *)
(*                                                                         *)
(* Faulty variants of definitions, each with one slip a maintainer could   *)
(* make, stand before the definition they vary.                            *)
(***************************************************************************)
EXTENDS Integers, Sequences

Initialised ==
  {"seed", "threads", "tokens", "repeat", "batch", "n_keep", "n_ctx", "mirostat",
   "top_p", "penalty", "tail_free_sampling_z", "typical_p", "frequency_penalty",
   "presence_penalty", "mirostat_eta", "mirostat_tau", "stop_prompts",
   "logit_bias", "prompts"}

Uninitialised ==
  {"top_k", "temperature", "penalize_nl", "f16kv", "debug_mode", "ignore_eos"}

Members == Initialised \cup Uninitialised

Fresh == [m \in Members |-> IF m \in Initialised THEN "default" ELSE "nobody"]

\* The members that the server (_DEBUG not defined) and the command line set.
ServerSets ==
  {"n_ctx", "ignore_eos", "penalty", "tokens", "temperature", "top_k", "top_p",
   "n_keep", "repeat", "batch", "threads", "stop_prompts"}

CliSets == ServerSets \cup {"debug_mode"}

ConstructedWithoutTopK(program) ==
  [m \in Members |->
     IF m \in (IF program = "cli" THEN CliSets ELSE ServerSets) \ {"top_k"}
     THEN "program" ELSE Fresh[m]]

\* predict_options(setters).
Constructed(program) ==
  [m \in Members |->
     IF m \in (IF program = "cli" THEN CliSets ELSE ServerSets)
     THEN "program" ELSE Fresh[m]]

CopiedWithoutTopK(options) ==
  [m \in Members |-> IF m = "top_k" THEN Fresh[m] ELSE options[m]]

\* The copy constructor, which lists every member.
Copied(options) == [m \in Members |-> options[m]]

----------------------------------------------------------------------------
(* to_llma_primitive_params: the member each field of LLAMA_PARAMS is      *)
(* assigned from.                                                          *)

FieldSource ==
  [ignore_eos |-> "ignore_eos", memory_f16 |-> "f16kv",
   penalize_nl |-> "penalize_nl", frequency_penalty |-> "frequency_penalty",
   mirostat_eta |-> "mirostat_eta", mirostat_tau |-> "mirostat_tau",
   presence_penalty |-> "presence_penalty", repeat_penalty |-> "penalty",
   temp |-> "temperature", tfs_z |-> "tail_free_sampling_z", top_p |-> "top_p",
   typical_p |-> "typical_p", mirostat |-> "mirostat", n_batch |-> "batch",
   n_keep |-> "n_keep", n_ctx |-> "n_ctx", repeat_last_n |-> "repeat",
   seed |-> "seed", threads |-> "threads", tokens |-> "tokens",
   top_k |-> "top_k", logit_bias |-> "logit_bias"]

Primitive(options) ==
  [f \in DOMAIN FieldSource |-> <<FieldSource[f], options[FieldSource[f]]>>]

\* The fields gpt_params takes over ...
GptSource ==
  [f \in DOMAIN FieldSource \ {"ignore_eos", "threads", "tokens", "logit_bias"} |-> f]

\* ... and those that get another name.  logit_bias, which is empty at first,
\* gets an entry against the end of the text if ignore_eos is set.
RenamedSource ==
  [n_threads |-> "threads", n_predict |-> "tokens", logit_bias |-> "ignore_eos"]

\* logit_bias is assigned once more, as a whole: that entry is gone.
Gpt(raw) ==
  LET assigned ==
        [g \in DOMAIN GptSource \cup DOMAIN RenamedSource |->
           IF g \in DOMAIN RenamedSource THEN raw[RenamedSource[g]]
           ELSE raw[GptSource[g]]]
  IN  [assigned EXCEPT !["logit_bias"] = raw["logit_bias"]]

----------------------------------------------------------------------------
(* llama_allocate_params_ex passes its fields by position.                 *)

Formals ==
  <<"prompt", "seed", "threads", "n_ctx", "tokens", "top_k", "top_p", "temp",
    "repeat_penalty", "repeat_last_n", "ignore_eos", "memory_f16", "n_batch",
    "n_keep", "antiprompt", "antiprompt_count", "tfs_z", "typical_p",
    "frequency_penalty", "presence_penalty", "mirostat", "mirostat_eta",
    "mirostat_tau", "penalize_nl", "logit_bias">>

\* A caller that still follows the order of the fields in LLAMA_PARAMS.
PassedSwapped ==
  [k \in 1 .. Len(Formals) |->
     IF k = 19 THEN Formals[20] ELSE IF k = 20 THEN Formals[19] ELSE Formals[k]]

Passed ==
  <<"prompt", "seed", "threads", "n_ctx", "tokens", "top_k", "top_p", "temp",
    "repeat_penalty", "repeat_last_n", "ignore_eos", "memory_f16", "n_batch",
    "n_keep", "antiprompt", "antiprompt_count", "tfs_z", "typical_p",
    "frequency_penalty", "presence_penalty", "mirostat", "mirostat_eta",
    "mirostat_tau", "penalize_nl", "logit_bias">>

\* The parameters of the callee, each bound to what its position was given.
Bound(raw) ==
  [f \in DOMAIN raw |->
     raw[Passed[CHOOSE k \in 1 .. Len(Formals) : Formals[k] = f]]]

GptEx(raw) == Gpt(Bound(raw))

----------------------------------------------------------------------------
\* generate_logit_bias_dict: a bias whose value is no number throws.
BiasThrows(bias) == bias = "no number"

ThreadsCountUnclamped(processors, requested) ==
  IF requested = 0 THEN (processors * 8) \div 10 ELSE requested

\* ChatService::get_threads_count: four fifths of the processors, or less if
\* the request asks for less.  A negative number becomes a huge one.
ThreadsCount(processors, requested) ==
  LET hardware_threads == (processors * 8) \div 10
  IN  IF requested \in 1 .. hardware_threads THEN requested ELSE hardware_threads

=============================================================================
