# A verification project for llama.cpp-wrapper

TLA+ modules that model `llama.cpp-wrapper`: the generation loop, the class around it, the
chat service, the HTTP server, the web page and the command line client. TLC configurations
check them on small instances, and TLAPS proofs cover any size.
Paths below are relative to the repository.

## The system

| Component | Source | State it keeps | Operations | What makes it correct |
| --- | --- | --- | --- | --- |
| Text generation loop | `src/lib/impl/llama-cpp/wrapper.cpp` 129-374 | the locals of `llama_predict_ex`; the key/value cache of the `llama_context` | one call: feed the prompt in batches, evaluate, swap the context when it is full, sample, stop | evaluation stays inside the context; the model sees a gapless text; generation stops when it must |
| Embeddings functions | `wrapper.cpp` 68-127, `llama.cpp` 66-131 | none of their own | `get_embeddings`, `get_token_embeddings` | buffers large enough; available when the model was loaded for them |
| Context class | `src/lib/impl/llama-cpp/llama.cpp` | `_context`, `_initialized`, `_embeddings`, `_predict_options`, `_field_lock` | `load`, `unload`, `set_predict_options`, `predict`, `embeddings` | one model per object, freed once, never used after |
| Options and parameters | `src/lib/include/public/llama-cpp/models.hpp`, `wrapper.h`, `wrapper.cpp` 386-519 | none | `predict_options`, its copy, to `LLAMA_PARAMS`, to `gpt_params` by two paths | no option is lost, confused or left to chance on the way |
| Semaphore | `src/lib/include/public/llama-cpp/compat/semaphore` | `_count`, `_mutex`, `_condition` | `release`, `acquire`, `try_acquire`, `try_acquire_for`, `try_acquire_until` | permits conserved, no wake-up lost |
| Post-processing and string utilities | `llama.cpp` 148-186, `src/lib/include/public/llama-cpp/utils.hpp` | the two objects on the heap during a call | trimming and replacing, with and without Boost | an answer comes back whole; both builds show the same; nothing leaks on return |
| Chat service | `src/examples/server/lib/impl/llama-cpp/services/ChatService.cpp` | `_sessions` (a parallel hash map of shared contexts), `_models` | `predict`, `get_params` | one context per session; failures leave nothing behind; sessions isolated |
| HTTP layer | `src/examples/server/exe/App.cpp`, `AppComponent.hpp`, `controller/*.hpp`, `ErrorHandler.cpp` | the environment of components, the route table, the documented endpoints | make components, register controllers, answer a request on a thread of its own, map exceptions to an error response | every request is answered by the right endpoint; nothing is looked up before it is made |
| Web client | `src/examples/server/assets/script.js` | `loadInterval`, the chat container | submit, show the answer | every answer appears in its bubble |
| Command line client | `src/examples/cli/main.cpp` | the context, the next input and who owns it | expand the prompt file, load, read a line, predict, print | inference gets the expanded prompt; lines are freed once; the loop ends with the input |
| Build and install scripts | `utilities/*.sh`, `cmake/`, CMake files, workflows | none at run time | provisioning | not modelled |

How they interact. The web client posts to `/api/prompt`; the HTTP layer runs
`PromptController::postPromptMessage` on the connection's thread, which calls
`ChatService::predict`. The service looks the session up with `lazy_emplace_l`, which
holds the lock of one submap of the hash map while it copies the session's pointer or
constructs, loads and configures a new context. Inference then runs without any lock
on the context that all requests of the session share: `context::predict` allocates
parameters, calls `llama_predict_ex` and trims its answer. An exception anywhere
becomes a 500 answer. The page cuts the request from the answer and types it out. The
command line client is the other user of the class: one thread, one context. SIGINT ends the process at once (`_exit`), and
`docker-compose.yml` starts it again.

Hard behaviours: the swap arithmetic over a long generation; requests that create the
same session at once; a load that fails with a lock held; inferences that overlap on
one context (the web client gives every page the session id `"1234"`); restarts with
requests in flight; wake-ups of the condition variable; strings that three parties (the
buffer, the class, the page) trim; members that a hand-written copy or a call with 25
positional arguments may confuse; orders of construction the compiler does not check. `PROJECT.json` lists each
hazard at its line with the properties that watch it.

## Modules

| Module | Models |
| --- | --- |
| `Generation` | `llama_predict_ex`, one action per branch of the loop |
| `GenerationProofs` | theorems about it: its types, the fit of the window, what the model sees, the penalties, the stop, the cause of the end |
| `MCGeneration` | instances: bounded and endless calls, prompts too long for the context |
| `SessionStore` | abstract: what the chat service promises |
| `ChatService` | `ChatService::predict` under concurrent requests, implementing `SessionStore` |
| `ChatServiceProofs` | theorems about it, among them that it implements `SessionStore` |
| `MCChatService` | instances |
| `Context` | the class `context` under concurrent callers |
| `ContextProofs` | theorems about it |
| `MCContext` | instances |
| `Options` | operators: the way of an option, and the number of threads |
| `Text` | operators: the string utilities |
| `Predict` | one call of `context::predict`, step by step, over `Options` and `Text` |
| `PredictProofs` | theorems about it |
| `MCPredict` | instances |
| `Cli` | `main.cpp` of the command line client over `Text`, implementing `Context` with one thread |
| `CliProofs` | theorems about it, among them that it implements `Context` |
| `MCCli` | instances |
| `HttpServer` | the start of the server and the way of a request |
| `HttpServerProofs` | theorems about it |
| `MCHttpServer` | instances |
| `ChatClient` | `script.js`: overlapping submits in one page |
| `ChatClientProofs` | theorems about it |
| `Semaphore` | `counting_semaphore` |
| `SemaphoreProofs` | theorems about it |
| `MCSemaphore` | instances |

Definitions whose name extends the name of the next one (`SwapContextRecallsAll` before
`SwapContext`) are faulty variants. They are part of no behaviour: `PROJECT.json` pairs
each with the property that notices it.

### Generation

The variables are the locals of the function under their own names, `pc` (where the
loop is) and `cells`, the key/value cache. A turn is

* `LoopExit`, or `SkipEval` (nothing to evaluate), `BeginEval` (the pending tokens fit)
  or `SwapContext` / `SwapThrows` (they do not), lines 190-207;
* `EvalBatch` for every batch, or `EvalFails`, lines 209-222;
* `Feed` a batch of the prompt or `Sample` a token, lines 224-335;
* `Check`: extend the answer, look for a stop prompt and for EOS, lines 337-360.

A token stands for the piece of text it decodes to, a stop prompt for a sequence of
pieces; the sampler may return any token and `llama_eval` may fail at any batch. A read
before the beginning of `last_n_tokens` yields `Junk`. The external library is `cells`
only: evaluating n tokens at `n_past` writes n cells. `res` is kept as tokens; its
way back through the buffer (`strncpy`) is in `Predict`.

`CallFits` says for which calls the swap arithmetic works out: the prompt leaves room
for a token (and the context holds three), or a whole batch fits behind what a swap
leaves. Outside of it the run `GenerationLong` shows what happens.

### ChatService and SessionStore

Each request is a thread with a program counter: `unsent`, `emplace` (about to look the
session up), `load` and `publish` (inside the constructing callback, lock held),
`predict`, `done`. The payload is chosen when the request is received. `Join` is one
action because the existing-session callback only copies a pointer under the lock;
creating a session takes three steps because a load is long and may fail. A context is
named by the request that created it and goes through the phases of the class
`context`: constructed, loaded, configured, freed. `Eval` is one call of `llama_eval`: it
spoils the other inferences under way in the same context and, when it races with one
of theirs, possibly itself. The model counts the evaluations of an inference up to
`MaxEvals`. In a session with a limit (`Limited`: the options whose `n_predict` is not negative) the
inference ends there; in one without, which is what a request gets that says nothing of `n_predict`
(`ChatService.cpp` 79), it may evaluate again and again (`Unlimited`). `Crash` is the end of the process
and its restart.

`SessionStore` knows requests, open sessions with their configuration, and answers.
`ImplementsSessionStore` maps the open sessions to the configurations of the published
contexts: every answer is made under the model and options of the request that opened
the session, until the process ends. The response names the model the request asked for
(line 145), which may be another one; the abstract answer therefore carries both.

Assumed of the hash map: its callbacks run under the submap's lock, and nothing is
inserted when the constructing callback throws. Requests carry the fields the service
reads.

### Context

The fields of the class under their own names (`handle` is `_context`, `tokens` what is
modelled of `_predict_options`), `_field_lock` as its holder, and for each thread what it
is doing. A load takes two steps because it is long and may fail; `unload` and
`set_predict_options` are critical sections; `predict` reads the fields at two points, once
to allocate its buffer (`Predict`) and once to call `llama_predict_ex` (`Infer`), and the
object is in use until `InferReturns`. Inference calls the process's token callback for every
token; it tests the global pointer and calls it in two reads (`TestCallback`, `CallCallback`), and
`SetTokenCallback` may come between them. The embeddings functions make a vector of as many floats as
the options allow tokens (`Embed`, or `EmbedTooLong` for a negative number, which throws), and give it
to `get_embeddings` without its size, which then writes `n_embd` floats (`EmbedInfer`). The two
sizes have nothing to do with each other.

Nothing in the class stops an `unload`, new options or the removal of the callback during an
inference, and nothing in the model does: every thread may call everything at any time. The history
variable `overlaps` notes which of these calls fell into which call of another thread, at the place where
it does harm. `OnlyOverlapsSpoil` says that these overlaps are all that can go wrong: without one, an inference
works on a loaded model, with the buffer that was made for it, and calls a callback that is there.
The chat service makes no such call (a context is loaded and configured before it is
published, and destroyed when its last user lets go of it), nor does the command line
client (one thread), as `ImplementsContext` of `Cli` shows: there `overlaps` is empty throughout.

The uninitialised `_embeddings` is a free choice in `Init`. The member that
`context::set_token_callback` writes is never read and is left out; the parameter objects are in
`Predict`.

### Options, Text and Predict

`Predict` is one call, from the setters of a program to the text it gets back: `Configure`,
`Allocate` (with the copy of the options, for the overload with setters, and the buffer), `Convert`
(which may throw), `Infer` or `InferFails`, `Deliver` or `DeliverNothing`, `CutStop` for every stop
prompt, `Return`. A string is a sequence of characters, of which only the blank is white space; a
predicate on characters is the set that satisfies it. What the model generates is a part of the
call, so that every generated text can be looked at. Inference stops at the first batch or character
after which a stop prompt is found, as `Generation` shows in detail.

The value of an option is the pair of the member it comes from and of who set it: the program, the
caller's setters, an initial value, or nobody. This is enough to see an option lost, confused or
left to chance. `logit_bias` of `gpt_params` is assigned twice, first for `ignore_eos` and then as a whole, and
`Gpt` does so too: `OptionsArrive` says that `ignore_eos` is lost and nothing else is. The number of threads is
computed for the server, and for the command line it is that of the processors or what `-t` says. The two builds of `trim_start` (with Boost: the first
occurrence is erased; without: nothing is) are told apart by `boost`.

The answer comes to the page with or without the request in it, and the page erases the first
occurrence. `PageShowsWhatWasGenerated` follows it there, for output that fits into the buffer.

### Cli

The program counter of `main` and of `load_prompts`: the prompt file is read, the two marks are
replaced one after the other (`ReplaceUser` and `ReplaceAi` are a turn of the loop of `replace_all`
each), cut to the context's size in bytes, and loses a newline at the end. `prompt.back()` of an empty
prompt is undefined, so the program may abort there. Then it loads, sets the options, and reads:
`input` is null, the prompt or a line of `ic_readline`, `skip` says which, and only lines are
freed. Every exception leads through the destructor to the end, and SIGINT to the end without it.

`ImplementsContext` maps the program to the class with one thread: it loads before it predicts, sets
options before it uses the class, unloads once, and no call falls into another. What it
writes to the terminal is left out, and the token callback with it.

### HttpServer

`MakeComponent` makes the members of `AppComponent` from top to bottom, noting what each looks up; `MakeArgument`
makes the two controllers of `run`, in either order, for they are arguments of one call; `AddEndpoints` documents them
from left to right, `MakeSwagger` makes the controller of swagger with a copy of that, and `AddController` registers one. Then each client sends a request: `Intercept` (OPTIONS is
answered at once), `Route` to the first controller that has an endpoint for it, or 404, and `Post`,
`Get`, `Serve` or `Document` by that controller. The router, the interceptors' place and the
conversion of exceptions are oatpp's and external; the answer of the chat service is a free choice
here. The response interceptors only add headers and are left out.

### ChatClient

One page, submits numbered in their order. `stage` is where the asynchronous `handleSubmit` of
a submit waits; each callback (a response, the end of its body, a tick of a timer) is one step.
`text` is what the element `messageDiv` holds. Every submit assigns `innerHTML` of the container,
so that only the newest `messageDiv` is an element of the page (`inPage`) and the earlier bubbles
are copies of what they held then (`copy`); `Page` is what the user sees. A loader runs until
somebody clears the interval that the one global `loadInterval` names.

What the user loses with overlapping submits is visible in the model: an earlier bubble stays as
it was when the next submit came, and its loader may run for ever. The properties say what
survives: the newest bubble, and everything that was complete.

### Semaphore

Every access to `_count` is made under `_mutex`, so a critical section is an action, and
a wait is two: one that blocks, one that continues after the wake-up. `waiting` and `woken`
are the threads in and just out of the wait of `acquire`, `timed` and `timedWoken` those
of the timed calls. `notify_one` may pick any thread of either kind; spurious wake-ups may
happen at any time. `usesTimed` is a choice of `Init`: whether the program makes timed calls, which
break what the others promise. The class is not used by the rest of the repository yet.

## Runs

| Run | Instance | Shows |
| --- | --- | --- |
| `Generation` | 3 tokens, 4 prompts of 1 to 6 tokens, contexts of 4 to 6, batches of 1 to 4, `n_keep` -1 to 2, budgets 0 to 7 and none, stop prompts of one to three pieces | `TypeOK`, `WindowFits`, `WindowIsKeptPrefixThenRecent`, `PenaltyWindowIsTranscriptTail`, `NoTokenAfterStop`, `EndHasCause`, `Returns` |
| `GenerationLong` | a prompt of 6, contexts of 4 to 6, the whole prompt kept | `SwapMakesRoom` is violated |
| `ChatService` | 3 requests, 3 sessions in 2 submaps, 2 models and a missing one, 2 evaluations, 1 restart, one of the options limited | `TypeOK`, `OneContextPerSession`, `EveryContextHasItsPlace`, `InferenceRunsInItsSession`, `OnlyOwnSessionMixes`, `ImplementsSessionStore` |
| `ChatServiceEnds` | 3 requests, 2 sessions in 1 submap, options with and without a limit, 1 evaluation, 1 restart | `OnlyUnlimitedRunsOn` |
| `Semaphore` | 4 threads, 1 permit and 4 releases, with and without timed calls | `PermitsAccountedFor`, `NoStrandedWaiter`, `PermitsGetUsed` |
| `SemaphoreLocked` | 4 threads, timed calls, locked at the start | `LockedUntilReleased` is violated |
| `Context` | 2 threads, 3 loads, several numbers of tokens, embeddings of 2 floats | `HandlesAccountedFor`, `OnlyOverlapsSpoil`, `LockIsReleased` |
| `ContextEmbeddings` | as `Context`, a model with embeddings | `DenialIsTrue` is violated |
| `ChatClient` | 3 submits, answers of 2 letters, an animation of 1 dot | `NewestShowsItsAnswer`, `LoadersOfThePage`, `NoForeignText`, `AnswersStay`, `AnswerShows` |
| `Predict` | both programs and builds, texts of 0 to 2 characters, 0 to 3 generated, up to 2 stop prompts, buffers of 0 to 8, 1 to 12 processors | `OptionsArrive`, `PathsAgree`, `IndeterminateStaysOut`, `ThreadsInRange`, `NothingButEchoAndStopsCut`, `PageShowsWhatWasGenerated`, `ReturnGivesAllBack` |
| `Cli` | every prompt file of 3 characters, of 4 over those of the marks, and two longer ones; names that are empty, a character or a mark; contexts of 0, 2 and 8; 2 lines | `PromptIsExpanded`, `InputsFreedOnce`, `Ends`, `ImplementsContext` |
| `HttpServer` | 2 clients, requests to every endpoint, with every kind of body and outcome | `ConstructionInOrder`, `EndpointsReachable` |

The type invariants of `Semaphore`, `Context`, `ChatClient` and `Predict` are proved and no run repeats them.

Bounds, and why they are enough.

* Contexts of 4 to 6 tokens are the smallest in which keeping 0, 1 or 2 tokens, both
  parities of `n_left` and batches below and above half the context differ; 7 sampled
  tokens swap such a context up to three times, 9 up to four. The proofs remove the
  bound. `MaxSampled` = 9 cuts calls without a budget, so `Generation` allows a deadlock there; a call
  with one does not reach it.
* Three requests are the fewest with two that share a session and one that does not, or
  one that fails, one that retries and one that waits. Two evaluations per inference let
  another request come between them. One restart is enough to meet it in every state.
  Requests are interchangeable, so `ChatService` uses symmetry; liveness runs do not.
* Four threads can be a sleeper, a woken thread, a thread that snatches the permit and
  one that releases. Its runs allow a deadlock because the bounds on calls
  (`MaxReleases`, `MaxTaken`), not the code, make the program stop.
* Two threads are the fewest of which one changes the object while the other uses it, waits for its
  lock or changes it too, and every harm is one call falling into one other; three loads let an object be loaded
  again after an unload and an unload race with the second load. Both proofs are for any number of threads.
  `Context` allows a deadlock because only the bound on loads stops the program.
* Three submits can be one that is complete, one that is overtaken and one that overtakes; answers
  of two letters can be interrupted between letters. `MaxText` stops loaders that nothing else
  stops; the length of the animation (`MaxDots`, 3 in the code) matters to nothing else. The
  page may rest, so deadlock is allowed.
* `Predict` varies texts, options and machines one at a time, for they do not meet. Texts of two
  characters over a letter and a blank can be repeated in what is generated or contain a stop
  prompt; buffers of 2 and 5 are met exactly and overrun; 12 processors give every remainder that the
  rounding of 0.8 n knows, and 13 is a request for more than there are.
* The marks of `Cli` have two characters and share one, as those of the code share the brackets; the
  longer files hold marks next to each other and across the cut. A user's name that is a mark,
  or empty, may make the program differ from one simultaneous replacement, which the property excludes
  and the code does not. Two lines are the fewest of which one follows another. The program ends, so deadlock is allowed.
* Two clients of `HttpServer` interleave; requests do not touch each other there. Every client sends one
  request, so deadlock is allowed.

Fairness. `Generation`: the one thread of the call runs, and `llama_eval` and the sampler
return (`WF_vars(Step)`). `ChatService`: each request's thread runs, and loads and
evaluations return: a request gets on until it has a session (`WF_vars(GetSession(r))`), and to its end if that session
has a limit (`WF_vars(Infer(r) /\ ~Unlimited(r))`). Without one only an end of text or a stop prompt ends an
inference, which the model need not generate, so nothing is assumed of it, and `OnlyUnlimitedRunsOn` promises an end
to the others only. Receiving a request is not fair, nor is the
end of the process. A request takes a submap lock once, so no fairness between
competitors for a lock is needed with finitely many requests. `Semaphore`: a woken
thread gets the mutex in the end (weak). `Context`: a load that has begun returns
or throws (weak, since it needs nothing from another thread); nothing is assumed of callers.
`Cli`: the program goes on, as `load_model` and inference return and the user types a line or ends the
input (`WF_vars(Prepare \/ Work)`); SIGINT is not fair. `ChatClient`: timers fire and a response that has begun ends or is rejected; a request may stay unanswered.

## Disagreements found

* `SwapMakesRoom` (`wrapper.cpp` 193-207). The comment presents the swap as what is done
  "if we run out of context". With a prompt as long as the context and `n_keep` covering
  it, the swap frees nothing and `llama_eval` is called for positions the context does
  not have.
* `LockedUntilReleased` (`compat/semaphore` 19, 63, 74). "Initialized as locked", but the
  timed calls wait for `!_count`: they pass when there is no permit, which makes the
  counter negative.
* `DenialIsTrue` (`llama.cpp` 77, 112). "model loaded without embeddings" is thrown when
  `_embeddings` is false, but the flag is only assigned when a context is unloaded (line 48):
  before that its value is indeterminate, and a model loaded with embeddings can be denied.

## Proofs

All proofs are checked by TLAPS with Z3, Zenon and LS4. They assume only the named
`ASSUME`s on the constants.

`GenerationProofs`

* `TypeCorrect`: `Spec => [](TypeOK /\ Control)`. `TypeOK` alone is not inductive: that a batch
  lies inside `embd` needs to know where the loop is, which `Control` says (`i = 0` outside
  the evaluation loop, `i < Len(embd)` inside it, a pending batch is at most `n_batch`).
* `EvaluationStaysInContext`: `Spec => []WindowFits`. The inductive invariant `FitInv` adds, for
  prompts shorter than the context, `PromptInOrder`: while part of the prompt waits the
  context holds at most what was consumed of it, and afterwards tokens come singly.
  Hence a short prompt is never interrupted by a swap, and a swap meets exactly one
  pending token and a full context. Otherwise `RoomFor(n_batch)` gives the room directly.
  `SwapRoom` does this arithmetic once, and `WindowFitsKept` has one step per action.
* `PenaltyWindowFollowsTranscript`: `Spec => []PenaltyWindowIsTranscriptTail`, from `TranscriptInv`,
  which says of every step what of the transcript is consumed, pending and evaluated (`PendingInv`), and
  that the window is the tail of what was consumed.
* `ModelSeesTranscript`: `Spec => []WindowIsKeptPrefixThenRecent`. While everything fits, the cells are the
  transcript from its beginning (`SeesAll`); after a swap they are the kept prefix and a suffix that
  ends where the pending tokens begin (`SeesRecent`). Which of the two holds depends on where the
  loop is, and that a swap recalls the right tokens rests on `FitInv` and on the window.
* `GenerationStops`: `Spec => NoTokenAfterStop` under `StopPromptsFit`, every stop prompt is at most `n_ctx`
  pieces long: a longer one is never found in the text of the last `n_ctx` tokens (line 349).
* `UnboundedCallsEndWithCause`: `Spec => []EndHasCause` under `StopPromptsKnown`, no stop prompt contains
  the piece of token 0, which fills the window before the transcript is as long as it: the
  code could find such a stop prompt in text that was never there. All instances obey the first
  hypothesis, the calls without a budget, about which `EndHasCause` is, the second.

`SemaphoreProofs`, of which all but `TypeCorrect` are for programs without timed calls (with them the
properties are false):

* `TypeCorrect`.
* `PermitsConserved` and `NoWakeUpLost`, from the inductive invariant `SafetyInv`. It is
  stated about the number of woken threads because one notification per release is
  enough only if every available permit has a woken thread of its own.

`ChatServiceProofs`, for any requests, payloads, submaps and number of restarts

* `TypeCorrect`, `NoContextLost`, `ModelLoadedOnce` and `SessionsIsolated` follow from the inductive
  invariant `MapInv`. `EveryContextHasItsPlace` is not inductive: that a new context does not
  displace another one needs to know that a request between the lookup and the insertion holds
  the lock of its submap and that its session is still missing (`CreatorHoldsLock`), that nobody
  else holds a lock (`HolderCreates`), and that inferences run on what the map holds
  (`InfersOnSession`). There is one lemma per action, and `OneContextPerSession` is a consequence:
  two living contexts of a session are both in its place in the map, or hold the same lock.
* `SessionsDoNotMix` adds that a request that was not received has evaluated nothing (`UnsentIdle`).
* `ServiceCorrect`: `Spec => Store!Spec`. `Publish` maps to `Open`, `Respond` to `Answer`, a failed
  load or evaluation to `Refuse`, and the steps that create and load a context stutter, because
  they touch a context the map does not hold (`StoreKept`). `Unanswered` ties replies to `pc`.

`ContextProofs`, for any number of threads, loads, tokens and floats of an embedding

* `ModelsFreedOnce`, from `HandleInv`: while a model is loading its thread holds the lock and the
  object is unloaded, and handles that do not exist yet were not freed.
* `OverlapsSpoilAlone`: `Spec => []OnlyOverlapsSpoil`, from `SpoilInv`. What the property says of an inference
  rests on what `UnlessOverlapped` says of the steps before it: from the first read of the fields to the second,
  the model stays loaded and the options stay, unless a call is noted that changed them. `UnloadSpoils` and
  `SettingSpoils` show that such a call is noted with every thread it harms, `UseSpoilsNothing` that a thread
  forgets what was noted only when its call returns.
* `TypeCorrect`.

`PredictProofs`, for any strings, stop prompts, buffers and machines

* `TypeCorrect`, `NothingLeaks`, `OptionsReachInference`, `BothPathsAgree`, `ChanceStaysOut` and
  `ThreadsSuitMachine`, from `PredictInv`: the options of the program survive the copy, what inference
  gets is made of them (`OptionsInv`), and the heap holds the objects of the phase (`HeapInv`). That `ignore_eos` is in
  no field is part of `OptionsReachInference`, and `ThreadsSuitMachine` is about the server, which clamps.
  `BothPathsAgree` compares the 25 positions with the names.
* `AnswerIsComplete`: `Spec => []NothingButEchoAndStopsCut`, from `AnswerInv`. What inference gave is the beginning of
  the fed text and of what was generated, up to the first stop (`InferredInv`). At every turn of the loop over the stop
  prompts it is a front (nothing or the request), the answer, and those of the stop prompts so far
  that were cut (`CutInv`). What the property says with `FlattenSeq` and `Reverse` of all of them grows by one stop
  prompt at a time (`FlattenEach`, `RestGrows`).
* `PageShowsAnswer`: `Spec => []PageShowsWhatWasGenerated`, from `PageInv`, which adds that the stop prompts leave the
  request whole at the front (`LongInv`). The first place where the page finds the request is then right behind the blank
  that is fed in front of it: a request that stood at the blank too would be blank throughout (`EchoNotFirst`).

`CliProofs`, for any arguments, prompt files and lines

* `InputsFreed`, from `InputInv`.
* `CliImplementsContext`: `Spec => ImplementsContext`. From `ModelInv`, which ties the model to where the
  program is, every action maps to one of the class or to a stutter, one lemma each.
* `PromptExpands`: `Spec => []PromptIsExpanded`, from `PromptInv`. `RestOf`, `UserExpanded` and `ExpandedFrom` give for
  every character of the file what is left of it there before the passes, between them and after them. While a loop of
  `replace_all` runs, the string is a part that is done, followed by what was left at some character before the
  pass; the same part in front of what is left there after the pass is the result (`Passing`). `PassGoesOn` and
  `PassEnds` show this for a turn and for the end of the loop, for any two such families of strings that `Pass` relates.
  `UserPass` and `AiPass` show that the two passes are such: in the second, an AI mark that is found cannot have come
  about by the first (`Agree`), and none has gone by it (`Plain`), since no user mark begins inside
  an AI mark. That is `MarksAssumption`, which holds of "[[USER_NAME]]" and "[[AI_NAME]]" because there is no bracket behind
  their first two characters.

`HttpServerProofs`, for any clients and requests

* `StartOrderWorks`: `Spec => []ConstructionInOrder`, from `ServerInv`: every component comes after those above it, the
  controllers after all of them and swagger's last, and what is made and listed tells what is documented and what
  swagger took of it (`MadeInv`); controllers are registered in order once that one is made (`RegisteredInv`), and
  requests come after that (`ServedInv`).
* `NoEndpointHidden`: `Spec => []EndpointsReachable`. The router takes the first route that matches
  (`FirstServes`), and that of the static files, which matches every path, is registered last.

`ChatClientProofs`, for any number of submits, lengths of answers and of the animation

* `TypeCorrect`, `NewestIsRight`, `StrayLoadersUnseen`, `TextsStayApart` and `ShownStays`, from
  `ClientInv`: what an element holds at each stage (`TextInv`), which elements are in the page and that
  only the newest is written to where the user can see it (`PageInv`), and that a bubble
  that is done holds its answer (`AnswerInv`).

Only model-checked: the timed calls of the semaphore, with which the properties of the others are false, and liveness
(`Returns`, `OnlyUnlimitedRunsOn`, `PermitsGetUsed`, `LockIsReleased`, `AnswerShows`, `Ends`),
which is out of the prover's reach, as `ENABLED` is. Every invariant and every action property that a passing run checks is proved.

Induction. The library's induction theorems take an operator as a parameter, which none of the provers can
instantiate. The proofs about what a recursion computes (`FlattenSeq` in `PredictProofs`, `ExpandedFrom` in `CliProofs`) use a set in
place of the operator: the numbers for which a fact fails have a least element (`Least`, from `WFMin`), which the
step refutes. `InductionUpTo` and `Backwards` state this once in either direction; that the recursive functions
exist, so that their `CHOOSE` is what its equation says, is shown in the same way (`UnrolledExists`).

## Observations

Facts about the code met on the way that contradict no statement of the repository.

* `frequency_penalty` and `presence_penalty` of a request are read and never set (`ChatService.cpp` 90-91).
* `ignore_eos`, which both programs set, puts a bias into `logit_bias` (`wrapper.cpp` 426), which line 439 or 514
  replaces: the option has no effect (`OptionsArrive`). No doc or comment says what it does.
* The buffer for embeddings has as many floats as the options allow tokens, 128 by default, and `get_embeddings` writes
  `n_embd` of them (`llama.cpp` 120-124, `wrapper.cpp` 103), so it writes behind the buffer unless the program
  allows as many tokens. A negative number of tokens throws.
* The command line passes any `-t` on (`main.cpp` 111, 158), where the server clamps.
* A request that gives no `n_predict` has no limit, and may never be answered (`ChatService.cpp` 79).
* `embeddings(text)` ignores its text (`llama.cpp` 109), and the embeddings functions do not free
  what they allocate; `predict` does not when something throws.
* Without a limit on tokens (`n_predict` -1 of the programs) there is no buffer and every answer
  is empty: output exists only in the token callback.
* A machine with one processor gets 0 threads (`ChatService.cpp` 48).
* A user without a name may turn what surrounds the mark into the other mark (`main.cpp` 71).
* A static file with a zero byte in it is cut there (`StaticController.hpp` 53).
* `_sessions` is never pruned: every session id keeps a model loaded until the process ends.
* The member that `context::set_token_callback` writes is never read.

## Plan

Done: all modules and proofs above. Left, in this order:

1. The evaluation inside `get_embeddings`.
2. A composition of `HttpServer` with `ChatService`, in place of the free choice of its answer.

## Not modelled

* The sampler: any token may be returned, and so `mirostat_mu` and the penalties have no effect here.
* The evaluation inside the embeddings functions, and the content of models.
* What goes to the terminal: the token callback of the command line client, printing, the
  iterator adaptors (stateless templates), `iequals` and `normalize_path`.
* Requests without `stop_prompts`, DTO definitions, the embedded files and documents of swagger, the
  headers that response interceptors add.
* `model_options`, whose members are passed on one by one.
* Build files, scripts and workflows: not part of the running program.
