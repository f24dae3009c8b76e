------------------------------ MODULE Predict -------------------------------
(***************************************************************************)
(* One call of context::predict (src/src/lib/impl/llama-cpp/llama.cpp),    *)
(* from the options a program has set to the text it gets back: the        *)
(* conversion of the options (Options), the buffer, the two objects on the *)
(* heap, and what happens to the output of inference (Text).               *)
(*                                                                         *)
(* External (llama.cpp): which characters the model generates is part of   *)
(* the call.                                                               *)
(***************************************************************************)
EXTENDS Options, Text

CONSTANTS
  Chars,  \* characters
  Blank,  \* a space; every other character is no white space
  Junk,   \* what follows a buffer in memory
  Calls   \* the calls that are looked at

ASSUME CharsAssumption == Blank \in Chars

Programs == {"server", "cli"}

ASSUME CallsAssumption ==
  \A c \in Calls :
    /\ c.program \in Programs
    /\ c.text \in Seq(Chars) /\ c.generated \in Seq(Chars)
    /\ c.stops \in Seq(Seq(Chars))              \* options.stop_prompts
    /\ c.boost \in BOOLEAN                       \* LLAMA_CPP_WRAPPER_USE_BOOST
    /\ c.bias \in {"none", "entry", "no number"} \* logit_bias, set for this call
    /\ c.tokens \in Int                          \* options.tokens
    /\ c.processors \in Nat \ {0}
    /\ c.requested \in Int                      \* threads asked for, or -t

VARIABLES
  call,     \* the arguments
  pc,
  options,  \* the predict_options in use
  threads,  \* options.threads
  gpt,      \* the gpt_params made from them
  heap,     \* objects allocated and not freed
  res,      \* output of llama_predict_ex
  out,      \* out_str
  left      \* stop prompts still to be cut off

vars == <<call, pc, options, threads, gpt, heap, res, out, left>>

Init ==
  /\ call \in Calls
  /\ pc = "configure"
  /\ options = Fresh
  /\ threads = 0
  /\ gpt = Gpt(Primitive(Fresh))
  /\ heap = {}
  /\ res = <<>> /\ out = <<>>
  /\ left = <<>>

----------------------------------------------------------------------------
\* set_predict_options, with the setters of the program.  The command line takes
\* as many threads as there are processors, or what -t says.
Configure ==
  /\ pc = "configure"
  /\ options' = Constructed(call.program)
  /\ threads' \in IF call.program = "server"
                  THEN {ThreadsCount(call.processors, call.requested)}
                  ELSE {call.processors, call.requested}
  /\ pc' = "allocate"
  /\ UNCHANGED <<call, gpt, heap, res, out, left>>

\* predict(text), or predict(text, setters) on a copy of the options; the
\* buffer is allocated if the number of tokens is limited.
Allocate ==
  /\ pc = "allocate"
  /\ options' = IF call.bias = "none" THEN options
                ELSE [Copied(options) EXCEPT !["logit_bias"] = "caller"]
  /\ heap' = IF call.tokens > 0 THEN {"buffer"} ELSE {}
  /\ pc' = "convert"
  /\ UNCHANGED <<call, threads, gpt, res, out, left>>

\* to_llama_params(text): a bias that is no number throws, the object is lost.
Convert ==
  /\ pc = "convert"
  /\ heap' = heap \cup {"params"}
  /\ gpt' = Gpt(Primitive(options))
  /\ pc' = IF BiasThrows(call.bias) THEN "threw" ELSE "infer"
  /\ UNCHANGED <<call, options, threads, res, out, left>>

PromptBare(text) == text

\* The prompt gets a space in front ("to match OG llama tokenizer behavior").
Prompt(text) == <<Blank>> \o text

\* llama_predict_ex: the prompt comes back in batches, then what is generated,
\* up to the first batch or character after which a stop prompt is found.
Infer ==
  /\ pc = "infer"
  /\ LET whole == Prompt(call.text) \o call.generated
         fed == Len(Prompt(call.text))
         Stopped(n) ==
           \E i \in DOMAIN call.stops : IsSuffix(call.stops[i], SubSeq(whole, 1, n))
     IN  \E n \in 1 .. Len(whole) :
           /\ Stopped(n) \/ n = Len(whole)
           /\ \A m \in fed .. n - 1 : ~Stopped(m)
           /\ res' = SubSeq(whole, 1, n)
  /\ pc' = "deliver"
  /\ UNCHANGED <<call, options, threads, gpt, heap, out, left>>

\* It returns 1, and predict throws without freeing anything.
InferFails ==
  /\ pc = "infer"
  /\ pc' = "threw"
  /\ UNCHANGED <<call, options, threads, gpt, heap, res, out, left>>

\* What the buffer holds as a C string: strncpy copies as many bytes as there
\* are tokens, and leaves no terminator if it copies that many.
Delivered ==
  IF Len(res) < call.tokens THEN {res}
  ELSE {SubSeq(res, 1, call.tokens) \o junk : junk \in {<<>>, <<Junk>>}}

\* The lambda that predict gives to trim_start_if: drop what is no white space.
DroppedBlank(string) == {Blank}

Dropped(string) == ToSet(string) \ {Blank}

\* Both objects are freed; what is no white space is cut off at the front, and
\* the text if the output begins with it.
Deliver ==
  /\ pc = "deliver"
  /\ call.tokens > 0
  /\ \E string \in Delivered :
       LET trimmed == TrimStartIf(string, Dropped(string))
       IN  out' = IF IsPrefix(call.text, trimmed)
                  THEN TrimStart(call.boost, trimmed, call.text) ELSE trimmed
  /\ heap' = {}
  /\ left' = call.stops
  /\ pc' = "cut"
  /\ UNCHANGED <<call, options, threads, gpt, res>>

DeliverNothingLeaks ==
  /\ pc = "deliver"
  /\ call.tokens <= 0
  /\ pc' = "returned"
  /\ UNCHANGED <<call, options, threads, gpt, heap, res, out, left>>

\* Without a buffer there is no answer.
DeliverNothing ==
  /\ pc = "deliver"
  /\ call.tokens <= 0
  /\ heap' = heap \ {"params"}
  /\ pc' = "returned"
  /\ UNCHANGED <<call, options, threads, gpt, res, out, left>>

\* Each stop prompt in turn is cut off at the end.
CutStop ==
  /\ pc = "cut"
  /\ left # <<>>
  /\ out' = TrimEnd(out, Head(left))
  /\ left' = Tail(left)
  /\ UNCHANGED <<call, pc, options, threads, gpt, heap, res>>

Return ==
  /\ pc = "cut"
  /\ left = <<>>
  /\ pc' = "returned"
  /\ UNCHANGED <<call, options, threads, gpt, heap, res, out, left>>

Next ==
  \/ Configure \/ Allocate \/ Convert \/ Infer \/ InferFails
  \/ Deliver \/ DeliverNothing \/ CutStop \/ Return

Spec == Init /\ [][Next]_vars

----------------------------------------------------------------------------
(* Properties.                                                             *)

Converted == {"infer", "deliver", "cut", "returned"}

\* Types of the locals and of what is on the heap.
TypeOK ==
  /\ pc \in Converted \cup {"configure", "allocate", "convert", "threw"}
  /\ options \in [Members -> {"default", "program", "caller", "nobody"}]
  /\ threads \in Int
  /\ gpt \in [DOMAIN GptSource \cup DOMAIN RenamedSource ->
                Members \X {"default", "program", "caller", "nobody"}]
  /\ heap \subseteq {"buffer", "params"}
  /\ left # <<>> => pc = "cut"

\* What a program, or a caller of predict(text, setters), gave for a member.
Sent(m) ==
  IF m = "logit_bias" /\ call.bias # "none" THEN "caller"
  ELSE IF m \in (IF call.program = "cli" THEN CliSets ELSE ServerSets) THEN "program"
  ELSE Fresh[m]

\* Every numeric or Boolean option but one, and the bias, arrives in exactly one
\* field of gpt_params, with the value the program or the caller gave it, or its
\* initial value: neither the copy of the options nor the two conversions by name
\* drop or confuse one.  The one that is lost is ignore_eos, which both programs
\* set: what it asks for is overwritten by the bias, whether that is set or not.
\* (debug_mode is no field of gpt_params; the stop prompts and the prompt are
\* passed beside the options.)
OptionsArrive ==
  pc \in Converted =>
    /\ \A m \in Members \ {"debug_mode", "ignore_eos", "stop_prompts", "prompts"} :
         LET fields == {g \in DOMAIN gpt : gpt[g][1] = m}
         IN  \E g \in fields : fields = {g} /\ gpt[g] = <<m, Sent(m)>>
    /\ \A g \in DOMAIN gpt : gpt[g][1] # "ignore_eos"

\* The C interface, which passes 25 arguments by position, fills the numeric and
\* Boolean fields of gpt_params, and the bias, from an LLAMA_PARAMS as the class
\* does.
PathsAgree == pc \in Converted => GptEx(Primitive(options)) = gpt

\* Of the members without an initial value the programs set those that choose
\* the next token: what is left to chance is how the newline is penalised, and a
\* flag nobody reads after the model is loaded.  (The server leaves debug_mode,
\* which is no field of gpt_params, to chance too: it only prints timings.)
IndeterminateStaysOut ==
  pc \in Converted =>
    {g \in DOMAIN gpt : gpt[g][2] = "nobody"} \subseteq {"penalize_nl", "memory_f16"}

\* On a machine with more than one processor the server gives inference at least
\* one thread and no more than there are processors, whatever a request asks for.
\* (The command line passes on any -t.)
ThreadsInRange ==
  pc # "configure" /\ call.program = "server" /\ call.processors > 1 =>
    threads \in 1 .. call.processors

\* What is cut off at the end when the stop prompts in `cut` are found.
Rest(cut) ==
  FlattenSeq(Reverse([i \in DOMAIN call.stops |->
                        IF cut[i] THEN call.stops[i] ELSE <<>>]))

Whole == pc = "returned" /\ Len(res) < call.tokens

\* An output that fits into the buffer comes back without loss: nothing is cut
\* off but the text at the front and stop prompts at the end, each at most
\* once.  trim_start_if, which drops everything up to the first space, is
\* harmless only because of the space that inference puts before the prompt.
NothingButEchoAndStopsCut ==
  Whole =>
    \E front \in {<<>>, call.text}, cut \in [DOMAIN call.stops -> BOOLEAN] :
      res = front \o out \o Rest(cut)

\* The page (script.js) erases the first occurrence of the request from the
\* answer and trims it.  That leaves what was generated without stop prompts,
\* if these did not reach back into the request, and no more is lost when the
\* request occurs in what was generated.
PageShowsWhatWasGenerated ==
  LET shown == Trim(ReplaceFirstSubSeq(<<>>, call.text, out), {Blank})
      fed   == Len(call.text) + 1
  IN  /\ Whole
      /\ ToSet(call.text) \ {Blank} # {}
      /\ \A i \in DOMAIN call.stops :
           Len(res) >= fed + Len(call.stops[i])
      => \E cut \in [DOMAIN call.stops -> BOOLEAN] :
           shown = Trim(SubSeq(res, fed + 1, Len(res) - Len(Rest(cut))), {Blank})

\* A call that returns has freed its buffer and its parameters.
ReturnGivesAllBack == pc = "returned" => heap = {}

=============================================================================
