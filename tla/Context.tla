------------------------------ MODULE Context -------------------------------
(***************************************************************************)
(* The class llama_cpp::context (src/src/lib/impl/llama-cpp/llama.cpp): one *)
(* object shared by the threads of a program.  load, unload and            *)
(* set_predict_options lock _field_lock; predict and the embeddings        *)
(* functions read the same fields without it, predict(text) even several   *)
(* times, because it passes _predict_options on by reference.  Nothing in  *)
(* the class keeps a thread from changing the object while others use it,  *)
(* and nothing in the model does.                                          *)
(*                                                                         *)
(* Abstracted: of the options only the number of tokens is kept, which     *)
(* sizes the output buffer; inference is the time between two steps, in    *)
(* which it may call the process's token callback (wrapper.cpp).  A field  *)
(* is read and written at one go.                                          *)
(*                                                                         *)
(* External (llama.cpp): handles are the llama_context objects made by     *)
(* load_model, numbered in the order of their creation.                    *)
(***************************************************************************)
EXTENDS Integers, FiniteSets

CONSTANTS
  Threads,
  Sizes,           \* values of options.tokens a program may set
  WithEmbeddings,  \* _model_options.embeddings
  EmbeddingWidth,  \* n_embd of the model: floats that make an embedding
  NoOne,           \* holder of the free _field_lock
  MaxLoads         \* bound: successful calls of load_model

ASSUME ConstantsAssumption ==
  /\ Sizes \subseteq Int /\ Sizes # {}
  /\ WithEmbeddings \in BOOLEAN
  /\ EmbeddingWidth \in Nat \ {0}
  /\ NoOne \notin Threads
  /\ MaxLoads \in Nat

VARIABLES
  pc,           \* what each thread is doing with the object
  lock,         \* _field_lock
  initialized,  \* _initialized
  handle,       \* _context: a handle, or 0 for a null pointer
  embeddings,   \* _embeddings
  tokens,       \* _predict_options.tokens
  callback,     \* tokenCallback, a global: whether it is set
  loads,        \* handles made so far
  frees,        \* how often each handle was freed
  local,        \* locals of a call: its buffer's size, how much inference may
                \* write or will write into it, the handle passed on
  denied        \* threads that were told "model loaded without embeddings"

\* History: the calls of other threads that fell into a call of a thread.
VARIABLE overlaps

fields == <<initialized, handle, embeddings, tokens, callback, loads, frees>>

vars == <<pc, lock, fields, local, denied, overlaps>>

\* The bytes of an output buffer; without a limit there is none.
Capacity(size) == IF size > 0 THEN size ELSE 0

max_token_count == 9999999

Unset == [buffer |-> 0, size |-> 0, handle |-> 0]

\* _context and _embeddings have no initial value.  A program that follows the
\* order of calls never reads the former before load(); the latter is read
\* before unload() ever wrote it.
Init ==
  /\ pc = [t \in Threads |-> "idle"]
  /\ lock = NoOne
  /\ initialized = FALSE
  /\ handle = 0
  /\ embeddings \in BOOLEAN
  /\ tokens \in Sizes
  /\ callback = FALSE
  /\ loads = 0
  /\ frees = [h \in 1 .. MaxLoads |-> 0]
  /\ local = [t \in Threads |-> Unset]
  /\ denied = {}
  /\ overlaps = {}

Using == {"sizing", "inferring", "calling", "reserving", "embedding"}

\* A call of this kind falls into those of the threads at these places.
Overlap(kind, places) ==
  overlaps' = overlaps \cup {<<t, kind>> : t \in {u \in Threads : pc[u] \in places}}

\* What fell into a call is forgotten when it returns.
Forget(t) == overlaps' = {o \in overlaps : o[1] # t}

----------------------------------------------------------------------------
(* Under _field_lock.  Faulty variants of actions, each with one slip a    *)
(* maintainer could make, stand before the action they vary.               *)

LoadUnlocked(t) ==
  /\ pc[t] = "idle"
  /\ ~initialized
  /\ loads < MaxLoads
  /\ pc' = [pc EXCEPT ![t] = "loading"]
  /\ UNCHANGED <<fields, lock, local, denied, overlaps>>

\* load(): the model is loaded with the lock held, unless it is already.
Load(t) ==
  /\ pc[t] = "idle"
  /\ lock = NoOne
  /\ ~initialized
  /\ loads < MaxLoads
  /\ lock' = t
  /\ pc' = [pc EXCEPT ![t] = "loading"]
  /\ UNCHANGED <<fields, local, denied, overlaps>>

LoadReturns(t) ==
  /\ pc[t] = "loading"
  /\ loads < MaxLoads
  /\ loads' = loads + 1
  /\ handle' = loads + 1
  /\ initialized' = TRUE
  /\ lock' = NoOne
  /\ pc' = [pc EXCEPT ![t] = "idle"]
  /\ UNCHANGED <<embeddings, tokens, callback, frees, local, denied, overlaps>>

LoadThrowsLocked(t) ==
  /\ pc[t] = "loading"
  /\ pc' = [pc EXCEPT ![t] = "idle"]
  /\ UNCHANGED <<fields, lock, local, denied, overlaps>>

\* load_model fails: the exception releases the lock, the object is as before.
LoadThrows(t) ==
  /\ pc[t] = "loading"
  /\ lock' = NoOne
  /\ pc' = [pc EXCEPT ![t] = "idle"]
  /\ UNCHANGED <<fields, local, denied, overlaps>>

UnloadKeepsFlag(t) ==
  /\ pc[t] = "idle"
  /\ lock = NoOne
  /\ initialized
  /\ handle # 0
  /\ frees' = [frees EXCEPT ![handle] = frees[handle] + 1]
  /\ embeddings' = WithEmbeddings
  /\ Overlap("unload", Using)
  /\ UNCHANGED <<pc, lock, initialized, handle, tokens, callback, loads, local,
                 denied>>

\* unload(), also called by the destructor.
Unload(t) ==
  /\ pc[t] = "idle"
  /\ lock = NoOne
  /\ initialized
  /\ handle # 0
  /\ frees' = [frees EXCEPT ![handle] = frees[handle] + 1]
  /\ embeddings' = WithEmbeddings
  /\ initialized' = FALSE
  /\ handle' = 0
  /\ Overlap("unload", Using)
  /\ UNCHANGED <<pc, lock, tokens, callback, loads, local, denied>>

\* set_predict_options().
SetPredictOptions(t, size) ==
  /\ pc[t] = "idle"
  /\ lock = NoOne
  /\ tokens' = size
  /\ Overlap("options", {"sizing"})
  /\ UNCHANGED <<pc, lock, initialized, handle, embeddings, callback, loads, frees,
                 local, denied>>

----------------------------------------------------------------------------
(* Without the lock.                                                       *)

\* set_token_callback(callback), with or without a function.
SetTokenCallback(t, set) ==
  /\ pc[t] = "idle"
  /\ callback' = set
  /\ IF set THEN UNCHANGED overlaps ELSE Overlap("callback", {"calling"})
  /\ UNCHANGED <<pc, lock, initialized, handle, embeddings, tokens, loads, frees,
                 local, denied>>

\* predict(), which the program calls when it has loaded the model: the output
\* buffer is allocated for the tokens the options allow.
Predict(t) ==
  /\ pc[t] = "idle"
  /\ initialized
  /\ local' = [local EXCEPT ![t] = [Unset EXCEPT !.buffer = Capacity(tokens)]]
  /\ pc' = [pc EXCEPT ![t] = "sizing"]
  /\ UNCHANGED <<fields, lock, denied, overlaps>>

\* llama_predict_ex is called with the handle and the size read now.
Infer(t) ==
  /\ pc[t] = "sizing"
  /\ local' = [local EXCEPT ![t].size = Capacity(tokens), ![t].handle = handle]
  /\ pc' = [pc EXCEPT ![t] = "inferring"]
  /\ UNCHANGED <<fields, lock, denied, overlaps>>

\* A token, and options without a callback: the global one is looked at ...
TestCallback(t) ==
  /\ pc[t] = "inferring"
  /\ callback
  /\ pc' = [pc EXCEPT ![t] = "calling"]
  /\ UNCHANGED <<fields, lock, local, denied, overlaps>>

\* ... and, read once more, called.
CallCallback(t) ==
  /\ pc[t] = "calling"
  /\ pc' = [pc EXCEPT ![t] = "inferring"]
  /\ overlaps' = overlaps \ {<<t, "callback">>}
  /\ UNCHANGED <<fields, lock, local, denied>>

\* It returns, or fails and the call throws.
InferReturns(t) ==
  /\ pc[t] \in {"inferring", "embedding"}
  /\ local' = [local EXCEPT ![t] = Unset]
  /\ pc' = [pc EXCEPT ![t] = "idle"]
  /\ Forget(t)
  /\ UNCHANGED <<fields, lock, denied>>

\* embeddings() and token_embeddings() when _embeddings is set: a vector of as
\* many floats as the options allow tokens ...
Embed(t) ==
  /\ pc[t] = "idle"
  /\ initialized
  /\ embeddings
  /\ tokens >= 0
  /\ local' = [local EXCEPT ![t].buffer =
                 IF tokens = 0 THEN max_token_count ELSE tokens]
  /\ pc' = [pc EXCEPT ![t] = "reserving"]
  /\ denied' = denied \ {t}
  /\ UNCHANGED <<fields, lock, overlaps>>

\* ... is given to get_embeddings without its size.
EmbedInfer(t) ==
  /\ pc[t] = "reserving"
  /\ local' = [local EXCEPT ![t].size = EmbeddingWidth, ![t].handle = handle]
  /\ pc' = [pc EXCEPT ![t] = "embedding"]
  /\ UNCHANGED <<fields, lock, denied, overlaps>>

\* There is no vector with a negative size: length_error.
EmbedTooLong(t) ==
  /\ pc[t] = "idle"
  /\ initialized
  /\ embeddings
  /\ tokens < 0
  /\ denied' = denied \ {t}
  /\ UNCHANGED <<fields, pc, lock, local, overlaps>>

\* _embeddings is not set: "model loaded without embeddings".
EmbedThrows(t) ==
  /\ pc[t] = "idle"
  /\ initialized
  /\ ~embeddings
  /\ denied' = denied \cup {t}
  /\ UNCHANGED <<fields, pc, lock, local, overlaps>>

----------------------------------------------------------------------------
Locked(t) ==
  \/ Load(t) \/ LoadReturns(t) \/ LoadThrows(t) \/ Unload(t)
  \/ \E size \in Sizes : SetPredictOptions(t, size)

Use(t) ==
  \/ Predict(t) \/ Infer(t) \/ TestCallback(t) \/ CallCallback(t) \/ InferReturns(t)
  \/ Embed(t) \/ EmbedInfer(t) \/ EmbedTooLong(t) \/ EmbedThrows(t)
  \/ \E set \in BOOLEAN : SetTokenCallback(t, set)

Next == \E t \in Threads : Locked(t) \/ Use(t)

Spec == Init /\ [][Next]_vars

\* load_model returns: the thread that loads goes on.
FairSpec ==
  Spec /\ \A t \in Threads : WF_vars(LoadReturns(t) \/ LoadThrows(t))

----------------------------------------------------------------------------
(* Properties.                                                             *)

Locals == [buffer : Nat, size : Nat, handle : 0 .. MaxLoads]

\* Types of the fields and of the locals of predict.
TypeOK ==
  /\ pc \in [Threads -> {"idle", "loading"} \cup Using]
  /\ lock \in Threads \cup {NoOne}
  /\ initialized \in BOOLEAN /\ embeddings \in BOOLEAN /\ callback \in BOOLEAN
  /\ handle \in 0 .. loads
  /\ tokens \in Sizes
  /\ loads \in 0 .. MaxLoads
  /\ frees \in [1 .. MaxLoads -> Nat]
  /\ local \in [Threads -> Locals]
  /\ denied \subseteq Threads
  /\ overlaps \subseteq Threads \X {"unload", "options", "callback"}

\* Whatever the threads call, a model is loaded once and freed once: every
\* handle but the one in _context has been freed exactly once, that one never.
\* In particular no failed load leaves the object half loaded.
HandlesAccountedFor ==
  /\ initialized <=> handle # 0
  /\ \A h \in 1 .. loads : frees[h] = IF h = handle THEN 0 ELSE 1

\* However the calls of the threads interleave, what goes wrong with an inference
\* comes of a call that fell into it, at the place where it does harm: the model
\* is loaded unless it was unloaded since the call began; predict's inference has
\* the buffer that was allocated for it unless options were set between the
\* allocation and the use of its size; the callback that is called is the one that
\* was looked at, or another, unless it was taken away in between.  (The buffer of
\* the embeddings functions need not fit whatever the program does.)
OnlyOverlapsSpoil ==
  \A t \in Threads :
    LET Overlapped(kind) == <<t, kind>> \in overlaps
    IN  /\ pc[t] \in {"inferring", "calling", "embedding"} =>
             \/ local[t].handle # 0 /\ frees[local[t].handle] = 0
             \/ Overlapped("unload")
        /\ pc[t] \in {"inferring", "calling"} =>
             local[t].size = local[t].buffer \/ Overlapped("options")
        /\ pc[t] = "calling" => callback \/ Overlapped("callback")

\* A load that another thread waits for ends, with or without success: the
\* lock is free again.
LockIsReleased == lock # NoOne ~> lock = NoOne

\* The message of the exception: a thread is told "model loaded without
\* embeddings" only when the model was loaded without embeddings.
DenialIsTrue == WithEmbeddings => denied = {}

=============================================================================
