--------------------------- MODULE ContextProofs ----------------------------
(***************************************************************************)
(* Theorems about Context, for any number of threads and of loads and      *)
(* whatever the threads call: every loaded model is freed exactly once,    *)
(* and an inference goes wrong only by a call that fell into it.           *)
(***************************************************************************)
EXTENDS Context, TLAPS

\* load_model runs with the lock held and the object unloaded.
LoadingHoldsLock ==
  \A t \in Threads : pc[t] = "loading" => lock = t /\ ~initialized

\* Handles not made yet have not been freed.
FutureUntouched == \A h \in 1 .. MaxLoads : h > loads => frees[h] = 0

HandleInv == TypeOK /\ LoadingHoldsLock /\ FutureUntouched /\ HandlesAccountedFor

\* What the steps of a call rely on, unless another thread's call fell between.
UnlessOverlapped ==
  \A t \in Threads :
    /\ pc[t] \in {"sizing", "reserving"} => initialized \/ <<t, "unload">> \in overlaps
    /\ pc[t] = "sizing" =>
         local[t].buffer = Capacity(tokens) \/ <<t, "options">> \in overlaps

LEMMA UnsetIsLocals ==
  /\ Unset \in Locals
  /\ \A size \in Sizes :
       Capacity(size) \in Nat /\ [Unset EXCEPT !.buffer = Capacity(size)] \in Locals
BY ConstantsAssumption DEF Unset, Locals, Capacity

LEMMA InitHandles == Init => HandleInv
<1> SUFFICES ASSUME Init PROVE HandleInv
  OBVIOUS
<1> USE ConstantsAssumption DEF Init
<1>1. frees \in [1 .. MaxLoads -> Nat] /\ pc \in [Threads -> {"idle"}]
  OBVIOUS
<1>2. local \in [Threads -> Locals]
  BY UnsetIsLocals
<1>3. TypeOK
  <2>1. initialized \in BOOLEAN /\ embeddings \in BOOLEAN /\ callback \in BOOLEAN
    OBVIOUS
  <2>2. lock \in Threads \cup {NoOne} /\ handle \in 0 .. loads /\ loads \in 0 .. MaxLoads
    OBVIOUS
  <2>3. pc \in [Threads -> {"idle", "loading"} \cup Using]
    BY <1>1
  <2> QED
    BY <1>1, <1>2, <2>1, <2>2, <2>3 DEF TypeOK
<1>4. LoadingHoldsLock /\ FutureUntouched /\ HandlesAccountedFor
  BY DEF LoadingHoldsLock, FutureUntouched, HandlesAccountedFor
<1> QED
  BY <1>3, <1>4 DEF HandleInv

LEMMA TypeKept == TypeOK /\ [Next]_vars => TypeOK'
<1> SUFFICES ASSUME TypeOK, [Next]_vars PROVE TypeOK'
  OBVIOUS
<1> USE ConstantsAssumption DEF TypeOK, fields, Using
<1>1. ASSUME NEW t \in Threads, Load(t) PROVE TypeOK'
  BY <1>1 DEF Load
<1>2. ASSUME NEW t \in Threads, LoadReturns(t) PROVE TypeOK'
  BY <1>2 DEF LoadReturns
<1>3. ASSUME NEW t \in Threads, LoadThrows(t) PROVE TypeOK'
  BY <1>3 DEF LoadThrows
<1>4. ASSUME NEW t \in Threads, Unload(t) PROVE TypeOK'
  <2>1. embeddings' \in BOOLEAN /\ initialized' \in BOOLEAN
    BY <1>4 DEF Unload
  <2>2. frees' \in [1 .. MaxLoads -> Nat]
    BY <1>4 DEF Unload
  <2>3. overlaps' \subseteq Threads \X {"unload", "options", "callback"}
    BY <1>4 DEF Unload, Overlap
  <2> QED
    BY <1>4, <2>1, <2>2, <2>3 DEF Unload
<1>5. ASSUME NEW t \in Threads, NEW size \in Sizes, SetPredictOptions(t, size)
      PROVE  TypeOK'
  BY <1>5 DEF SetPredictOptions, Overlap
<1>6. ASSUME NEW t \in Threads, Predict(t) PROVE TypeOK'
  BY <1>6, UnsetIsLocals DEF Predict
<1>7. ASSUME NEW t \in Threads, Infer(t) PROVE TypeOK'
  <2>1. [local[t] EXCEPT !.size = Capacity(tokens), !.handle = handle] \in Locals
    <3>1. local[t] \in Locals /\ tokens \in Sizes /\ handle \in 0 .. MaxLoads
      OBVIOUS
    <3>2. Capacity(tokens) \in Nat
      BY <3>1, UnsetIsLocals
    <3> HIDE DEF TypeOK
    <3> QED
      BY <3>1, <3>2 DEF Locals
  <2>2. local' \in [Threads -> Locals]
    BY <1>7, <2>1 DEF Infer
  <2> QED
    BY <1>7, <2>2 DEF Infer
<1>8. ASSUME NEW t \in Threads, InferReturns(t) PROVE TypeOK'
  BY <1>8, UnsetIsLocals DEF InferReturns, Forget
<1>9. ASSUME NEW t \in Threads, Embed(t) PROVE TypeOK'
  <2> DEFINE floats == IF tokens = 0 THEN max_token_count ELSE tokens
  <2>1. floats \in Nat
    BY <1>9 DEF Embed, max_token_count
  <2> HIDE DEF floats
  <2>2. [local[t] EXCEPT !.buffer = floats] \in Locals
    <3>1. local[t] \in Locals
      OBVIOUS
    <3> HIDE DEF TypeOK
    <3> QED
      BY <2>1, <3>1 DEF Locals
  <2>3. local' = [local EXCEPT ![t].buffer = floats]
    BY <1>9 DEF Embed, floats
  <2>4. local' \in [Threads -> Locals]
    BY <2>2, <2>3
  <2> QED
    BY <1>9, <2>4 DEF Embed
<1>10. ASSUME NEW t \in Threads, EmbedThrows(t) \/ EmbedTooLong(t) PROVE TypeOK'
  BY <1>10 DEF EmbedThrows, EmbedTooLong
<1>11. ASSUME NEW t \in Threads, TestCallback(t) \/ CallCallback(t) PROVE TypeOK'
  BY <1>11 DEF TestCallback, CallCallback
<1>12. ASSUME NEW t \in Threads, NEW set \in BOOLEAN, SetTokenCallback(t, set)
       PROVE  TypeOK'
  BY <1>12 DEF SetTokenCallback, Overlap
<1>13. ASSUME NEW t \in Threads, EmbedInfer(t) PROVE TypeOK'
  <2>1. [local[t] EXCEPT !.size = EmbeddingWidth, !.handle = handle] \in Locals
    <3>1. local[t] \in Locals /\ handle \in 0 .. MaxLoads /\ EmbeddingWidth \in Nat
      OBVIOUS
    <3> HIDE DEF TypeOK
    <3> QED
      BY <3>1 DEF Locals
  <2>2. local' \in [Threads -> Locals]
    BY <1>13, <2>1 DEF EmbedInfer
  <2> QED
    BY <1>13, <2>2 DEF EmbedInfer
<1>14. CASE UNCHANGED vars
  BY <1>14 DEF vars
<1> QED
  BY <1>1, <1>2, <1>3, <1>4, <1>5, <1>6, <1>7, <1>8, <1>9, <1>10, <1>11, <1>12, <1>13,
     <1>14
  DEF Next, Locked, Use

\* A call without the lock leaves the handles alone.
LEMMA UseKeepsHandles ==
  ASSUME HandleInv, NEW t \in Threads, Use(t)
  PROVE  (LoadingHoldsLock /\ FutureUntouched /\ HandlesAccountedFor)'
<1>1. UNCHANGED <<lock, initialized, handle, loads, frees>>
  BY DEF Use, Predict, Infer, TestCallback, CallCallback, InferReturns, Embed,
         EmbedInfer, EmbedTooLong, EmbedThrows, SetTokenCallback, fields
<1>2. \A u \in Threads : pc'[u] = "loading" => pc[u] = "loading"
  BY DEF Use, Predict, Infer, TestCallback, CallCallback, InferReturns, Embed,
         EmbedInfer, EmbedTooLong, EmbedThrows, SetTokenCallback, HandleInv, TypeOK
<1> QED
  BY <1>1, <1>2 DEF HandleInv, LoadingHoldsLock, FutureUntouched, HandlesAccountedFor

LEMMA LockedKeepsHandles ==
  ASSUME HandleInv, NEW t \in Threads, Locked(t)
  PROVE  (LoadingHoldsLock /\ FutureUntouched /\ HandlesAccountedFor)'
<1> USE ConstantsAssumption
    DEF HandleInv, TypeOK, LoadingHoldsLock, FutureUntouched, HandlesAccountedFor, fields
<1>1. CASE Load(t)
  BY <1>1 DEF Load
<1>2. CASE LoadReturns(t)
  <2>1. handle = 0 /\ lock = t
    BY <1>2 DEF LoadReturns
  <2>2. \A h \in 1 .. loads : frees[h] = 1
    BY <2>1
  <2>3. frees[loads + 1] = 0
    BY <1>2 DEF LoadReturns
  <2>4. HandlesAccountedFor'
    BY <1>2, <2>2, <2>3 DEF LoadReturns
  <2>5. LoadingHoldsLock'
    BY <1>2, <2>1 DEF LoadReturns
  <2> QED
    BY <1>2, <2>4, <2>5 DEF LoadReturns
<1>3. CASE LoadThrows(t)
  BY <1>3 DEF LoadThrows
<1>4. CASE Unload(t)
  <2>1. frees' = [frees EXCEPT ![handle] = frees[handle] + 1] /\ loads' = loads
    BY <1>4 DEF Unload
  <2>2. handle \in 1 .. loads /\ frees[handle] = 0
    BY <1>4 DEF Unload
  <2>3. HandlesAccountedFor'
    BY <1>4, <2>1, <2>2 DEF Unload
  <2>4. FutureUntouched'
    BY <2>1, <2>2
  <2> QED
    BY <1>4, <2>3, <2>4 DEF Unload
<1>5. CASE \E size \in Sizes : SetPredictOptions(t, size)
  BY <1>5 DEF SetPredictOptions
<1> QED
  BY <1>1, <1>2, <1>3, <1>4, <1>5 DEF Locked

LEMMA HandlesKept == HandleInv /\ [Next]_vars => HandleInv'
<1> SUFFICES ASSUME HandleInv, [Next]_vars PROVE HandleInv'
  OBVIOUS
<1>1. TypeOK'
  BY TypeKept DEF HandleInv
<1>2. CASE UNCHANGED vars
  BY <1>1, <1>2 DEF HandleInv, LoadingHoldsLock, FutureUntouched, HandlesAccountedFor,
                    vars, fields
<1>3. CASE Next
  BY <1>1, <1>3, UseKeepsHandles, LockedKeepsHandles DEF Next, HandleInv
<1> QED
  BY <1>2, <1>3

\* The fields and locals keep their types, for any threads, sizes and loads.
THEOREM TypeCorrect == Spec => []TypeOK
<1>1. Init => HandleInv
  BY InitHandles
<1>2. HandleInv => TypeOK
  BY DEF HandleInv
<1> QED
  BY <1>1, <1>2, HandlesKept, PTL DEF Spec

\* Whatever the threads of a program call, and however often it loads: a model is loaded once and freed once, and nothing is half loaded.
THEOREM ModelsFreedOnce == Spec => []HandlesAccountedFor
<1>1. Init => HandleInv
  BY InitHandles
<1>2. HandleInv => HandlesAccountedFor
  BY DEF HandleInv
<1> QED
  BY <1>1, <1>2, HandlesKept, PTL DEF Spec

SpoilInv == UnlessOverlapped /\ OnlyOverlapsSpoil

\* A step of another thread that forgets nothing, frees nothing and leaves the
\* fields a call relies on as they are.
LEMMA FieldsKept ==
  ASSUME HandleInv, SpoilInv, UNCHANGED <<handle, tokens, callback, frees, local>>,
         initialized => initialized', overlaps \subseteq overlaps',
         \A t \in Threads : pc'[t] \in Using => pc'[t] = pc[t]
  PROVE  SpoilInv'
BY DEF SpoilInv, UnlessOverlapped, OnlyOverlapsSpoil, Using

\* What one thread does without the lock is nothing to the others.
LEMMA OthersKept ==
  ASSUME HandleInv, SpoilInv, NEW t \in Threads, UNCHANGED fields,
         \A u \in Threads \ {t} :
           /\ pc'[u] = pc[u] /\ local'[u] = local[u]
           /\ \A kind \in {"unload", "options", "callback"} :
                <<u, kind>> \in overlaps' <=> <<u, kind>> \in overlaps,
         pc'[t] \in Using =>
           /\ pc'[t] \in {"sizing", "reserving"} =>
                initialized \/ <<t, "unload">> \in overlaps'
           /\ pc'[t] = "sizing" =>
                local'[t].buffer = Capacity(tokens) \/ <<t, "options">> \in overlaps'
           /\ pc'[t] \in {"inferring", "calling", "embedding"} =>
                \/ local'[t].handle # 0 /\ frees[local'[t].handle] = 0
                \/ <<t, "unload">> \in overlaps'
           /\ pc'[t] \in {"inferring", "calling"} =>
                local'[t].size = local'[t].buffer \/ <<t, "options">> \in overlaps'
           /\ pc'[t] = "calling" => callback \/ <<t, "callback">> \in overlaps'
  PROVE  SpoilInv'
BY DEF SpoilInv, UnlessOverlapped, OnlyOverlapsSpoil, Using, fields

LEMMA UnloadSpoils ==
  ASSUME HandleInv, SpoilInv, NEW t \in Threads, Unload(t)
  PROVE  SpoilInv'
<1>1. UNCHANGED <<pc, tokens, callback, local>>
  BY DEF Unload
<1>2. \A u \in Threads : pc[u] \in Using => <<u, "unload">> \in overlaps'
  BY DEF Unload, Overlap
<1>3. overlaps \subseteq overlaps'
  BY DEF Unload, Overlap
<1> QED
  BY <1>1, <1>2, <1>3 DEF SpoilInv, UnlessOverlapped, OnlyOverlapsSpoil, Using

LEMMA SettingSpoils ==
  ASSUME HandleInv, SpoilInv, NEW t \in Threads,
         \/ \E size \in Sizes : SetPredictOptions(t, size)
         \/ \E set \in BOOLEAN : SetTokenCallback(t, set)
  PROVE  SpoilInv'
<1>1. UNCHANGED <<pc, initialized, handle, frees, local>> /\ overlaps \subseteq overlaps'
  BY DEF SetPredictOptions, SetTokenCallback, Overlap
<1>2. \A u \in Threads :
        pc[u] = "sizing" => tokens' = tokens \/ <<u, "options">> \in overlaps'
  BY DEF SetPredictOptions, SetTokenCallback, Overlap
<1>3. \A u \in Threads :
        pc[u] = "calling" =>
          callback' \/ <<u, "callback">> \in overlaps' \/ callback' = callback
  BY DEF SetPredictOptions, SetTokenCallback, Overlap
<1> QED
  BY <1>1, <1>2, <1>3 DEF SpoilInv, UnlessOverlapped, OnlyOverlapsSpoil

LEMMA LoadSpoilsNothing ==
  ASSUME HandleInv, SpoilInv, NEW t \in Threads,
         Load(t) \/ LoadReturns(t) \/ LoadThrows(t)
  PROVE  SpoilInv'
<1>1. /\ UNCHANGED <<tokens, callback, frees, local, overlaps>>
      /\ initialized => initialized'
      /\ \A u \in Threads : pc'[u] \in Using => pc'[u] = pc[u]
  BY DEF Load, LoadReturns, LoadThrows, fields, HandleInv, TypeOK, Using
<1> QED
  BY <1>1 DEF SpoilInv, UnlessOverlapped, OnlyOverlapsSpoil, Using

LEMMA UseSpoilsNothing ==
  ASSUME HandleInv, SpoilInv, NEW t \in Threads, Use(t),
         ~\E set \in BOOLEAN : SetTokenCallback(t, set)
  PROVE  SpoilInv'
<1> USE DEF HandleInv, TypeOK
<1>0. pc[t] \in Using =>
        /\ pc[t] \in {"sizing", "reserving"} =>
             initialized \/ <<t, "unload">> \in overlaps
        /\ pc[t] = "sizing" =>
             local[t].buffer = Capacity(tokens) \/ <<t, "options">> \in overlaps
        /\ pc[t] \in {"inferring", "calling", "embedding"} =>
             \/ local[t].handle # 0 /\ frees[local[t].handle] = 0
             \/ <<t, "unload">> \in overlaps
        /\ pc[t] \in {"inferring", "calling"} =>
             local[t].size = local[t].buffer \/ <<t, "options">> \in overlaps
  BY DEF SpoilInv, UnlessOverlapped, OnlyOverlapsSpoil
<1>1. initialized => handle # 0 /\ frees[handle] = 0
  BY DEF HandlesAccountedFor
<1>2. CASE Predict(t)
  BY <1>2, OthersKept DEF Predict, Unset
<1>3. CASE Infer(t)
  <2>1. /\ pc[t] = "sizing" /\ pc'[t] = "inferring" /\ UNCHANGED <<fields, overlaps>>
        /\ local'[t].buffer = local[t].buffer /\ local'[t].size = Capacity(tokens)
        /\ local'[t].handle = handle
        /\ \A u \in Threads \ {t} : pc'[u] = pc[u] /\ local'[u] = local[u]
    BY <1>3 DEF Infer, Locals
  <2> QED
    BY <1>0, <1>1, <2>1, OthersKept DEF Using
<1>4. CASE TestCallback(t)
  BY <1>0, <1>4, OthersKept DEF TestCallback, Using
<1>5. CASE CallCallback(t)
  BY <1>0, <1>5, OthersKept DEF CallCallback, Using
<1>6. CASE InferReturns(t)
  BY <1>6, OthersKept DEF InferReturns, Forget, Using
<1>7. CASE Embed(t)
  BY <1>7, OthersKept DEF Embed
<1>8. CASE EmbedInfer(t)
  <2>1. /\ pc[t] = "reserving" /\ pc'[t] = "embedding" /\ UNCHANGED <<fields, overlaps>>
        /\ local'[t].handle = handle
        /\ \A u \in Threads \ {t} : pc'[u] = pc[u] /\ local'[u] = local[u]
    BY <1>8 DEF EmbedInfer, Locals
  <2> QED
    BY <1>0, <1>1, <2>1, OthersKept DEF Using
<1>9. CASE EmbedTooLong(t) \/ EmbedThrows(t)
  BY <1>9, FieldsKept DEF EmbedTooLong, EmbedThrows, fields
<1> QED
  BY <1>2, <1>3, <1>4, <1>5, <1>6, <1>7, <1>8, <1>9 DEF Use

LEMMA SpoilKept == HandleInv /\ SpoilInv /\ [Next]_vars => SpoilInv'
<1> SUFFICES ASSUME HandleInv, SpoilInv, [Next]_vars PROVE SpoilInv'
  OBVIOUS
<1>1. CASE UNCHANGED vars
  BY <1>1, FieldsKept DEF vars, fields
<1>2. ASSUME NEW t \in Threads, Locked(t) PROVE SpoilInv'
  BY <1>2, UnloadSpoils, SettingSpoils, LoadSpoilsNothing DEF Locked
<1>3. ASSUME NEW t \in Threads, Use(t) PROVE SpoilInv'
  BY <1>3, SettingSpoils, UseSpoilsNothing
<1> QED
  BY <1>1, <1>2, <1>3 DEF Next

\* For any number of threads, of loads and of calls in any order: an inference
\* works on a loaded model, with the buffer allocated for it, and calls a callback
\* that is there, unless a call that takes these away fell into it.
THEOREM OverlapsSpoilAlone == Spec => []OnlyOverlapsSpoil
<1>1. Init => HandleInv /\ SpoilInv
  BY InitHandles DEF Init, SpoilInv, UnlessOverlapped, OnlyOverlapsSpoil
<1>2. SpoilInv => OnlyOverlapsSpoil
  BY DEF SpoilInv
<1> QED
  BY <1>1, <1>2, HandlesKept, SpoilKept, PTL DEF Spec

=============================================================================
