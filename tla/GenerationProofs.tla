-------------------------- MODULE GenerationProofs --------------------------
(***************************************************************************)
(* Theorems about Generation, for every vocabulary, prompt and set of      *)
(* parameters: the locals of llama_predict_ex keep their types, evaluation *)
(* stays inside the context, and the cells, the penalty window and the     *)
(* stop tests follow the transcript of the call.                           *)
(***************************************************************************)
EXTENDS Generation, SequenceTheorems, TLAPS

\* Pushing tokens into a window of size tokens yields a window of that size
\* (the erase and push_back pairs of lines 308-309 and 328-329).
LEMMA ShiftType ==
  ASSUME NEW T, NEW size \in Nat, NEW w \in [1 .. size -> T], NEW s \in Seq(T)
  PROVE  Shift(w, s) \in [1 .. size -> T]
<1>1. w \in Seq(T) /\ Len(w) = size
  <2>1. w \in Seq(T)
    BY SeqDef
  <2>2. DOMAIN w = 1 .. Len(w) /\ Len(w) \in Nat
    BY <2>1, LenProperties
  <2>3. DOMAIN w = 1 .. size
    OBVIOUS
  <2> QED
    BY <2>1, <2>2, <2>3
<1>2. Len(s) \in Nat
  BY LenProperties
<1>3. /\ w \o s \in Seq(T)
      /\ Len(w \o s) = size + Len(s)
  BY <1>1, ConcatProperties
<1>4. \A k \in Len(s) + 1 .. Len(s) + Len(w) : (w \o s)[k] \in T
  <2> TAKE k \in Len(s) + 1 .. Len(s) + Len(w)
  <2>1. k \in 1 .. Len(w \o s)
    BY <1>1, <1>2, <1>3
  <2> QED
    BY <2>1, <1>3, ElementOfSeq
<1>5. Shift(w, s) \in Seq(T) /\ Len(Shift(w, s)) = size
  BY <1>1, <1>2, <1>4, SubSeqProperties DEF Shift
<1> QED
  BY <1>5, LenProperties

\* Halving a number that is not negative.
LEMMA HalfOfNat ==
  ASSUME NEW n \in Nat
  PROVE  Half(n) \in Nat /\ 2 * Half(n) <= n /\ n <= 2 * Half(n) + 1
BY DEF Half

----------------------------------------------------------------------------
(* Type correctness.                                                       *)

\* What the program counter says of the other locals.
Control ==
  /\ params.n_keep <= Len(embd_inp)
  /\ pc # "eval" /\ pc \notin Terminal => i = 0
  /\ pc = "eval" => i < Len(embd)
  /\ pc = "choose" => embd = <<>>
  /\ pc \in {"head", "check"} => Len(embd) <= params.n_batch
  /\ pc = "check" => embd \in Seq(Tokens) /\ embd # <<>>

LEMMA InitTyped == Init => TypeOK /\ Control
<1> SUFFICES ASSUME Init PROVE TypeOK /\ Control
  OBVIOUS
<1>1. PICK p \in Params, prompt \in Prompts :
        /\ params = [p EXCEPT !.n_keep = KeepCount(p.n_keep, Len(prompt))]
        /\ embd_inp = prompt
  BY DEF Init
<1>2. embd_inp \in Seq(Tokens) \ {<<>>}
  BY <1>1, PromptAssumption
<1>3. Len(embd_inp) \in Nat \ {0}
  BY <1>2, EmptySeq
<1>4. p \in [n_ctx : Nat \ {0}, n_batch : Nat \ {0}, n_keep : Int,
             n_predict : Int, antiprompt : SUBSET Seq(Tokens)]
  BY ParamsAssumption
<1>5. KeepCount(p.n_keep, Len(embd_inp)) \in 0 .. Len(embd_inp)
  BY <1>3, <1>4 DEF KeepCount
<1>6. /\ params \in [n_ctx : Nat \ {0}, n_batch : Nat \ {0}, n_keep : Nat,
                     n_predict : Int, antiprompt : SUBSET Seq(Tokens)]
      /\ params.n_keep <= Len(embd_inp)
  BY <1>1, <1>3, <1>4, <1>5
<1>7. Len(<<>>) = 0
  BY EmptySeq
<1>8. TypeOK
  <2>1. /\ <<>> \in Seq(Tokens)
        /\ <<>> \in Seq(Tokens \cup {Junk})
    BY EmptySeq
  <2>2. last_n_tokens \in [1 .. params.n_ctx -> Tokens]
    BY TokenAssumption DEF Init
  <2>3. cells \in [0 .. params.n_ctx - 1 -> Tokens \cup {Junk}]
    BY DEF Init
  <2>4. n_remain \in Int /\ n_consumed \in 0 .. Len(embd_inp)
    BY <1>3, <1>6 DEF Init
  <2> QED
    BY <1>2, <1>6, <2>1, <2>2, <2>3, <2>4 DEF Init, TypeOK
<1>9. Control
  BY <1>6, <1>7 DEF Init, Control, Terminal
<1> QED
  BY <1>8, <1>9

LEMMA RecalledType ==
  ASSUME TypeOK, NEW n_left \in Int, Half(n_left) >= 0
  PROVE  /\ Recalled(n_left) \in Seq(Tokens \cup {Junk})
         /\ Len(Recalled(n_left)) = Half(n_left)
<1> DEFINE first == params.n_ctx - Half(n_left) - Len(embd)
           half  == Half(n_left)
<1>1. half \in Nat
  BY DEF Half
<1>2. params.n_ctx \in Nat /\ Len(embd) \in Nat
  BY LenProperties DEF TypeOK
<1>3. Recalled(n_left) \in [1 .. half -> Tokens \cup {Junk}]
  <2> SUFFICES ASSUME NEW k \in 1 .. half, first + k >= 1
               PROVE  last_n_tokens[first + k] \in Tokens
    BY DEF Recalled
  <2>1. first + k \in 1 .. params.n_ctx
    BY <1>1, <1>2
  <2> QED
    BY <2>1 DEF TypeOK
<1>4. Recalled(n_left) \in Seq(Tokens \cup {Junk})
  BY <1>1, <1>3, SeqDef
<1>5. DOMAIN Recalled(n_left) = 1 .. half
  BY <1>3
<1>6. Len(Recalled(n_left)) \in Nat /\ DOMAIN Recalled(n_left) = 1 .. Len(Recalled(n_left))
  BY <1>4, LenProperties
<1>7. Len(Recalled(n_left)) = half
  BY <1>1, <1>5, <1>6
<1> QED
  BY <1>4, <1>7

LEMMA BatchType ==
  ASSUME TypeOK, Control, pc = "choose", n_consumed < Len(embd_inp),
         NEW count, count = AtMost(params.n_batch, Len(embd_inp) - n_consumed)
  PROVE  LET batch == SubSeq(embd_inp, n_consumed + 1, n_consumed + count)
         IN  /\ batch \in Seq(Tokens)
             /\ Len(batch) = count
             /\ count \in 1 .. params.n_batch
             /\ n_consumed + count \in 0 .. Len(embd_inp)
<1>1. /\ Len(embd_inp) \in Nat
      /\ n_consumed \in Nat
      /\ params.n_batch \in Nat \ {0}
      /\ embd_inp \in Seq(Tokens)
  BY LenProperties DEF TypeOK
<1>2. count \in 1 .. params.n_batch /\ n_consumed + count \in 0 .. Len(embd_inp)
  BY <1>1 DEF AtMost
<1>3. \A k \in n_consumed + 1 .. n_consumed + count : embd_inp[k] \in Tokens
  BY <1>1, <1>2, ElementOfSeq
<1> QED
  BY <1>1, <1>2, <1>3, SubSeqProperties

LEMMA NextTyped == TypeOK /\ Control /\ [Next]_vars => TypeOK' /\ Control'
<1> SUFFICES ASSUME TypeOK, Control, [Next]_vars PROVE TypeOK' /\ Control'
  OBVIOUS
<1> USE DEF Terminal
<1>0. /\ Len(embd) \in Nat
      /\ embd # <<>> => Len(embd) > 0
      /\ Len(embd_inp) \in Nat
      /\ Len(<<>>) = 0
      /\ <<>> \in Seq(Tokens)
      /\ <<>> \in Seq(Tokens \cup {Junk})
  BY LenProperties, EmptySeq DEF TypeOK
<1>1. CASE LoopExit
  BY <1>1 DEF LoopExit, TypeOK, Control
<1>2. CASE SkipEval
  BY <1>2 DEF SkipEval, TypeOK, Control
<1>3. CASE BeginEval
  BY <1>3, <1>0 DEF BeginEval, TypeOK, Control
<1>4. CASE SwapContext
  <2> DEFINE n_left == n_past - params.n_keep
  <2>1. n_left \in Int /\ Half(n_left) >= 0
    BY <1>4 DEF SwapContext, TypeOK
  <2>2. /\ Recalled(n_left) \in Seq(Tokens \cup {Junk})
        /\ Len(Recalled(n_left)) = Half(n_left)
    BY <2>1, RecalledType
  <2>3. /\ embd' \in Seq(Tokens \cup {Junk})
        /\ Len(embd') = Half(n_left) + Len(embd)
    BY <1>4, <2>2, ConcatProperties DEF SwapContext, TypeOK
  <2>4. n_past' \in Nat
    BY <1>4 DEF SwapContext, AtLeast, TypeOK
  <2>5. Half(n_left) \in Int
    BY <2>1 DEF Half
  <2>6. i < Len(embd')
    BY <1>4, <1>0, <2>1, <2>3, <2>5 DEF SwapContext, OutOfContext, Control
  <2>7. TypeOK'
    BY <1>4, <2>3, <2>4 DEF SwapContext, TypeOK
  <2>8. Control'
    BY <1>4, <2>6 DEF SwapContext, Control
  <2> QED
    BY <2>7, <2>8
<1>5. CASE SwapThrows
  BY <1>5 DEF SwapThrows, AtLeast, TypeOK, Control
<1>6. CASE EvalBatch
  <2>1. NEval \in 1 .. Len(embd) - i
    <3> DEFINE b == params.n_batch  l == Len(embd)
    <3>1. pc = "eval"
      BY <1>6 DEF EvalBatch
    <3>2. b \in Nat \ {0}
      BY DEF TypeOK
    <3>3. l \in Nat /\ i \in Nat /\ i < l
      BY <1>0, <3>1 DEF TypeOK, Control
    <3> HIDE DEF b, l
    <3>4. AtMost(l - i, b) \in 1 .. l - i
      BY <3>2, <3>3 DEF AtMost
    <3> QED
      BY <3>4 DEF NEval, b, l
  <2>2. Written(NEval) \in [0 .. params.n_ctx - 1 -> Tokens \cup {Junk}]
    <3> SUFFICES ASSUME NEW p \in 0 .. params.n_ctx - 1,
                        p \in n_past .. n_past + NEval - 1
                 PROVE  embd[i + p - n_past + 1] \in Tokens \cup {Junk}
      BY DEF Written, TypeOK
    <3>1. i + p - n_past + 1 \in 1 .. Len(embd)
      BY <2>1, <1>0 DEF TypeOK
    <3> QED
      BY <3>1, ElementOfSeq DEF TypeOK
  <2>3. n_past + NEval \in Nat
    BY <2>1, <1>0 DEF TypeOK
  <2>4. CASE i + params.n_batch < Len(embd)
    BY <1>6, <2>2, <2>3, <2>4 DEF EvalBatch, TypeOK, Control
  <2>5. CASE ~(i + params.n_batch < Len(embd))
    BY <1>6, <1>0, <2>2, <2>3, <2>5 DEF EvalBatch, TypeOK, Control
  <2> QED
    BY <2>4, <2>5
<1>7. CASE EvalFails
  BY <1>7 DEF EvalFails, TypeOK, Control
<1>8. CASE Feed
  <2> DEFINE count == AtMost(params.n_batch, Len(embd_inp) - n_consumed)
             batch == SubSeq(embd_inp, n_consumed + 1, n_consumed + count)
  <2>1. /\ batch \in Seq(Tokens)
        /\ Len(batch) = count
        /\ count \in 1 .. params.n_batch
        /\ n_consumed + count \in 0 .. Len(embd_inp)
    BY <1>8, BatchType DEF Feed
  <2>2. last_n_tokens' \in [1 .. params.n_ctx -> Tokens]
    BY <1>8, <2>1, ShiftType DEF Feed, TypeOK
  <2>3. batch \in Seq(Tokens \cup {Junk}) /\ batch # <<>>
    <3> HIDE DEF batch
    <3>1. Tokens \subseteq Tokens \cup {Junk}
      OBVIOUS
    <3>2. batch \in Seq(Tokens \cup {Junk})
      BY <2>1, <3>1, SeqMonotonic
    <3> QED
      BY <2>1, <3>2, <1>0 DEF TypeOK
  <2>4. TypeOK'
    BY <1>8, <2>1, <2>2, <2>3 DEF Feed, TypeOK
  <2>5. Control'
    <3>1. /\ embd' = batch /\ pc' = "check" /\ i' = 0
          /\ UNCHANGED <<params, embd_inp>>
      BY <1>8 DEF Feed, Control
    <3> HIDE DEF batch, count
    <3> QED
      BY <2>1, <2>3, <3>1 DEF TypeOK, Control
  <2> QED
    BY <2>4, <2>5
<1>9. ASSUME NEW id \in Tokens, NEW goes_on \in BOOLEAN, Sample(id, goes_on)
      PROVE  TypeOK' /\ Control'
  <2>1. <<id>> \in Seq(Tokens) /\ <<id>> \in Seq(Tokens \cup {Junk})
    OBVIOUS
  <2>2. Len(<<id>>) = 1 /\ <<id>> # <<>>
    OBVIOUS
  <2>3. last_n_tokens' \in [1 .. params.n_ctx -> Tokens]
    BY <1>9, <2>1, ShiftType DEF Sample, TypeOK
  <2>4. TypeOK'
    BY <1>9, <2>1, <2>3 DEF Sample, TypeOK
  <2>5. Control'
    BY <1>9, <2>1, <2>2 DEF Sample, TypeOK, Control
  <2> QED
    BY <2>4, <2>5
<1>10. CASE Check
  <2>1. res' \in Seq(Tokens)
    BY <1>10, ConcatProperties DEF Check, TypeOK, Control
  <2>2. TypeOK'
    BY <1>10, <2>1 DEF Check, TypeOK
  <2>3. Control'
    BY <1>10 DEF Check, Control
  <2> QED
    BY <2>2, <2>3
<1>11. CASE UNCHANGED vars
  BY <1>11 DEF vars, TypeOK, Control
<1> QED
  BY <1>1, <1>2, <1>3, <1>4, <1>5, <1>6, <1>7, <1>8, <1>9, <1>10, <1>11
  DEF Next, Step, Returned

\* The locals of llama_predict_ex keep their types: in particular n_keep stays
\* non-negative and last_n_tokens n_ctx tokens long.
THEOREM TypeCorrect == Spec => [](TypeOK /\ Control)
BY InitTyped, NextTyped, PTL DEF Spec

----------------------------------------------------------------------------
(* Evaluation stays inside the context.                                    *)

\* While part of the prompt waits, the context holds no more than what was
\* consumed of it; afterwards tokens come one at a time.  This is why the
\* prompt of a call that fits is never interrupted by a swap.
PromptInOrder ==
  /\ n_consumed < Len(embd_inp) /\ pc \notin Terminal =>
       n_past + (Len(embd) - i) <= n_consumed
  /\ pc \in {"head", "check"} =>
       Len(embd) <= 1 \/ n_past + Len(embd) <= n_consumed

LEMMA PromptOrderKept ==
  TypeOK /\ Control /\ PromptInOrder /\ Len(embd_inp) < params.n_ctx
    /\ [Next]_vars => PromptInOrder'
<1> SUFFICES ASSUME TypeOK, Control, PromptInOrder, [Next]_vars,
                    Len(embd_inp) < params.n_ctx
             PROVE  PromptInOrder'
  OBVIOUS
<1> USE DEF Terminal
<1>0. /\ Len(embd) \in Nat
      /\ embd = <<>> => Len(embd) = 0
      /\ Len(embd_inp) \in Nat
      /\ Len(<<>>) = 0
      /\ n_past \in Nat /\ n_consumed \in 0 .. Len(embd_inp) /\ i \in Nat
      /\ params.n_ctx \in Nat /\ params.n_batch \in Nat \ {0}
  BY LenProperties, EmptySeq DEF TypeOK
<1>1. CASE LoopExit
  BY <1>1 DEF LoopExit, PromptInOrder
<1>2. CASE SkipEval
  BY <1>2 DEF SkipEval, PromptInOrder
<1>3. CASE BeginEval
  BY <1>3 DEF BeginEval, PromptInOrder
<1>4. CASE SwapContext
  <2>1. n_consumed >= Len(embd_inp)
    BY <1>4, <1>0 DEF SwapContext, OutOfContext, Control, PromptInOrder
  <2> QED
    BY <1>4, <1>0, <2>1 DEF SwapContext, PromptInOrder
<1>5. CASE SwapThrows
  BY <1>5 DEF SwapThrows, PromptInOrder
<1>6. CASE EvalBatch
  <2>1. CASE i + params.n_batch < Len(embd)
    <3>1. NEval = params.n_batch
      BY <1>0, <2>1 DEF NEval, AtMost
    <3>2. /\ n_past' = n_past + params.n_batch /\ i' = i + params.n_batch
          /\ pc = "eval" /\ pc' = "eval"
          /\ UNCHANGED <<embd, n_consumed, embd_inp>>
      BY <1>6, <2>1, <3>1 DEF EvalBatch
    <3>3. n_past' + (Len(embd') - i') = n_past + (Len(embd) - i)
      <4> DEFINE b == params.n_batch  l == Len(embd)
      <4>1. b \in Nat /\ l \in Nat /\ n_past \in Nat /\ i \in Nat
        BY <1>0
      <4>2. n_past' = n_past + b /\ i' = i + b /\ Len(embd') = l
        BY <3>2
      <4> HIDE DEF b, l
      <4>3. n_past' + (Len(embd') - i') = n_past + (l - i)
        BY <4>1, <4>2
      <4> QED
        BY <4>3 DEF l
    <3> QED
      BY <3>2, <3>3 DEF PromptInOrder
  <2>2. CASE ~(i + params.n_batch < Len(embd))
    <3>1. n_past' = n_past + (Len(embd) - i) /\ pc' = "choose" /\ i' = 0
      BY <1>6, <1>0, <2>2 DEF EvalBatch, NEval, AtMost
    <3>2. embd' = <<>> /\ UNCHANGED <<n_consumed, embd_inp>>
      BY <1>6, <2>2 DEF EvalBatch
    <3> QED
      BY <1>6, <1>0, <3>1, <3>2 DEF EvalBatch, PromptInOrder
  <2> QED
    BY <2>1, <2>2
<1>7. CASE EvalFails
  BY <1>7 DEF EvalFails, PromptInOrder
<1>8. CASE Feed
  <2> DEFINE count == AtMost(params.n_batch, Len(embd_inp) - n_consumed)
             batch == SubSeq(embd_inp, n_consumed + 1, n_consumed + count)
  <2>1. Len(batch) = count /\ count \in Nat
    BY <1>8, BatchType DEF Feed
  <2>2. /\ embd' = batch /\ n_consumed' = n_consumed + count
        /\ i' = 0 /\ pc' = "check" /\ UNCHANGED <<n_past, embd_inp>>
    BY <1>8 DEF Feed, Control
  <2>3. n_past <= n_consumed
    BY <1>8, <1>0 DEF Feed, PromptInOrder, Control
  <2> HIDE DEF batch, count
  <2> QED
    BY <1>0, <2>1, <2>2, <2>3 DEF PromptInOrder
<1>9. ASSUME NEW id \in Tokens, NEW goes_on \in BOOLEAN, Sample(id, goes_on)
      PROVE  PromptInOrder'
  <2>1. Len(<<id>>) = 1
    OBVIOUS
  <2> QED
    BY <1>9, <1>0, <2>1 DEF Sample, PromptInOrder
<1>10. CASE Check
  BY <1>10 DEF Check, PromptInOrder
<1>11. CASE UNCHANGED vars
  BY <1>11 DEF vars, PromptInOrder
<1> QED
  BY <1>1, <1>2, <1>3, <1>4, <1>5, <1>6, <1>7, <1>8, <1>9, <1>10, <1>11
  DEF Next, Step, Returned

\* The arithmetic of the swap (lines 198-206): in a call that fits, what is
\* kept, what is collected again and what waits fit into the context, and no
\* more is collected than the context held.
LEMMA SwapRoom ==
  ASSUME TypeOK, Control, CallFits, WindowFits, OutOfContext,
         Len(embd_inp) < params.n_ctx => PromptInOrder
  PROVE  LET half == Half(n_past - params.n_keep)
         IN  /\ n_past - params.n_keep \in Nat
             /\ half \in Nat
             /\ AtLeast(1, params.n_keep) + half + Len(embd) <= params.n_ctx
<1> DEFINE n_ctx  == params.n_ctx
           n_keep == params.n_keep
           size   == Len(embd_inp)
           len    == Len(embd)
<1>1. /\ n_ctx \in Nat \ {0} /\ params.n_batch \in Nat \ {0} /\ n_keep \in Nat
      /\ size \in Nat /\ len \in Nat \ {0} /\ n_past \in Nat
      /\ n_consumed \in 0 .. size
  BY LenProperties, EmptySeq DEF TypeOK, OutOfContext
<1>2. n_past <= n_ctx /\ n_past + len > n_ctx /\ n_keep <= size
  BY DEF WindowFits, OutOfContext, Control
<1>3. CASE size < n_ctx /\ n_ctx >= 3
  <2>1. len <= 1 \/ n_past + len <= n_consumed
    BY <1>3 DEF PromptInOrder, OutOfContext
  <2>2. len = 1 /\ n_past = n_ctx
    <3> HIDE DEF n_ctx, n_keep, size, len
    <3>1. ~(n_past + len <= n_consumed)
      BY <1>1, <1>2, <1>3
    <3> QED
      BY <1>1, <1>2, <2>1, <3>1
  <2>3. n_past - n_keep \in Nat
    BY <1>1, <1>2, <1>3, <2>2
  <2>4. /\ Half(n_past - n_keep) \in Nat
        /\ 2 * Half(n_past - n_keep) <= n_past - n_keep
    BY <2>3, HalfOfNat
  <2> HIDE DEF n_ctx, n_keep, size, len
  <2>5. AtLeast(1, n_keep) + Half(n_past - n_keep) + len <= n_ctx
    BY <1>1, <1>2, <1>3, <2>2, <2>4 DEF AtLeast
  <2> QED
    BY <2>3, <2>4, <2>5 DEF n_ctx, n_keep, len
<1>4. CASE RoomFor(params.n_batch)
  <2>1. AtLeast(1, n_keep) + (n_ctx - n_keep) \div 2 + params.n_batch <= n_ctx
    BY <1>4 DEF RoomFor
  <2>2. len <= params.n_batch
    BY DEF Control, OutOfContext
  <2>3. n_past - n_keep \in Nat
    BY <1>1, <1>2, <2>1, <2>2, SMTT(20) DEF AtLeast
  <2>4. /\ Half(n_past - n_keep) \in Nat
        /\ 2 * Half(n_past - n_keep) <= n_past - n_keep
    BY <2>3, HalfOfNat
  <2> HIDE DEF n_ctx, n_keep, size, len
  <2>5. Half(n_past - n_keep) <= (n_ctx - n_keep) \div 2
    BY <1>1, <1>2, <2>4
  <2>6. AtLeast(1, n_keep) + Half(n_past - n_keep) + len <= n_ctx
    BY <1>1, <2>1, <2>2, <2>4, <2>5 DEF AtLeast
  <2> QED
    BY <2>3, <2>4, <2>6 DEF n_ctx, n_keep, len
<1> QED
  BY <1>3, <1>4 DEF CallFits

\* The inductive invariant behind WindowFits.
FitInv ==
  /\ TypeOK
  /\ Control
  /\ Len(embd_inp) < params.n_ctx => PromptInOrder
  /\ WindowFits

LEMMA InitFits == Init => FitInv
<1> SUFFICES ASSUME Init PROVE FitInv
  OBVIOUS
<1>1. TypeOK /\ Control
  BY InitTyped
<1>2. /\ Len(embd) = 0 /\ n_past = 0 /\ n_consumed = 0 /\ i = 0 /\ pc = "head"
      /\ params.n_ctx \in Nat
  BY <1>1, EmptySeq DEF Init, TypeOK
<1>3. PromptInOrder
  BY <1>2 DEF PromptInOrder
<1>4. WindowFits
  BY <1>2 DEF WindowFits
<1> QED
  BY <1>1, <1>3, <1>4 DEF FitInv

LEMMA WindowFitsKept == FitInv /\ [Next]_vars => WindowFits'
<1> SUFFICES ASSUME FitInv, [Next]_vars, CallFits' PROVE WindowFits'
  BY DEF WindowFits
<1>0. /\ TypeOK /\ Control /\ WindowFits
      /\ Len(embd_inp) < params.n_ctx => PromptInOrder
  BY DEF FitInv
<1>a. UNCHANGED <<params, embd_inp>>
  BY DEF Next, Step, Returned, vars, LoopExit, SkipEval, BeginEval, SwapContext,
         SwapThrows, EvalBatch, EvalFails, Feed, Sample, Check
<1>b. CallFits
  BY <1>a DEF CallFits, RoomFor
<1>c. /\ n_past <= params.n_ctx
      /\ pc = "eval" => n_past + (Len(embd) - i) <= params.n_ctx
      /\ pc # "threw"
      /\ \A k \in 1 .. Len(embd) : embd[k] # Junk
  BY <1>0, <1>b DEF WindowFits
<1>d. /\ Len(embd) \in Nat
      /\ params.n_ctx \in Nat \ {0} /\ params.n_batch \in Nat \ {0}
      /\ i \in Nat /\ n_past \in Nat /\ params.n_keep \in Nat
  BY <1>0, LenProperties DEF TypeOK
<1>1. CASE LoopExit
  BY <1>1, <1>c DEF LoopExit, WindowFits
<1>2. CASE SkipEval
  BY <1>2, <1>c DEF SkipEval, WindowFits
<1>3. CASE BeginEval
  BY <1>3, <1>0, <1>c, <1>d DEF BeginEval, WindowFits, Control, Terminal
<1>4. CASE SwapContext
  <2> DEFINE half == Half(n_past - params.n_keep)
             back == Recalled(n_past - params.n_keep)
  <2>1. /\ n_past - params.n_keep \in Nat
        /\ half \in Nat
        /\ AtLeast(1, params.n_keep) + half + Len(embd) <= params.n_ctx
    BY <1>4, <1>0, <1>b, SwapRoom DEF SwapContext
  <2>2. /\ back \in Seq(Tokens \cup {Junk})
        /\ Len(back) = half
    BY <2>1, <1>0, RecalledType
  <2>3. \A k \in 1 .. half : back[k] # Junk
    <3> SUFFICES ASSUME NEW k \in 1 .. half
                 PROVE  back[k] # Junk
      OBVIOUS
    <3>1. params.n_ctx - half - Len(embd) + k \in 1 .. params.n_ctx
      BY <2>1, <1>d, SMTT(20) DEF AtLeast
    <3>2. back[k] = last_n_tokens[params.n_ctx - half - Len(embd) + k]
      BY <3>1 DEF Recalled
    <3> QED
      BY <3>1, <3>2, <1>0, TokenAssumption DEF TypeOK
  <2>4. embd' = back \o embd /\ n_past' = AtLeast(1, params.n_keep)
        /\ pc' = "eval" /\ i' = 0
    BY <1>4, <1>0 DEF SwapContext, OutOfContext, Control, Terminal
  <2> HIDE DEF half, back
  <2>5. /\ Len(embd') = half + Len(embd)
        /\ \A k \in 1 .. half + Len(embd) :
             embd'[k] = IF k <= half THEN back[k] ELSE embd[k - half]
    <3>1. embd \in Seq(Tokens \cup {Junk})
      BY <1>0 DEF TypeOK
    <3>2. /\ Len(back \o embd) = half + Len(embd)
          /\ \A k \in 1 .. half + Len(embd) :
               (back \o embd)[k] = IF k <= half THEN back[k] ELSE embd[k - half]
      BY <2>2, <3>1, ConcatProperties
    <3> QED
      BY <2>4, <3>2
  <2>6. \A k \in 1 .. Len(embd') : embd'[k] # Junk
    BY <2>1, <2>3, <2>5, <1>c, <1>d, SMTT(20)
  <2>7. n_past' + (Len(embd') - i') <= params.n_ctx /\ n_past' <= params.n_ctx
    BY <2>1, <2>4, <2>5, <1>d, SMTT(20) DEF AtLeast
  <2> QED
    BY <2>4, <2>6, <2>7, <1>a DEF WindowFits
<1>5. CASE SwapThrows
  <2>1. Half(n_past - params.n_keep) \in Nat
    BY <1>5, <1>0, <1>b, SwapRoom DEF SwapThrows
  <2> QED
    BY <1>5, <2>1 DEF SwapThrows
<1>6. CASE EvalBatch
  <2>1. i < Len(embd) /\ pc = "eval"
    BY <1>6, <1>0 DEF EvalBatch, Control
  <2>2. n_past' <= params.n_ctx
    <3>1. n_past' = n_past + NEval /\ NEval <= Len(embd) - i /\ NEval \in Int
      BY <1>6, <1>d DEF EvalBatch, NEval, AtMost
    <3> QED
      BY <1>c, <1>d, <2>1, <3>1
  <2>3. CASE i + params.n_batch < Len(embd)
    <3>1. n_past' + (Len(embd) - i') <= params.n_ctx
      BY <1>6, <1>c, <1>d, <2>1, <2>3 DEF EvalBatch, NEval, AtMost
    <3> QED
      BY <1>6, <1>c, <2>1, <2>2, <2>3, <3>1 DEF EvalBatch, WindowFits
  <2>4. CASE ~(i + params.n_batch < Len(embd))
    <3>1. embd' = <<>> /\ pc' = "choose" /\ Len(<<>>) = 0
      BY <1>6, <2>4, EmptySeq DEF EvalBatch
    <3> QED
      BY <2>2, <3>1, <1>a DEF WindowFits
  <2> QED
    BY <2>3, <2>4
<1>7. CASE EvalFails
  BY <1>7, <1>c DEF EvalFails, WindowFits
<1>8. CASE Feed
  <2> DEFINE count == AtMost(params.n_batch, Len(embd_inp) - n_consumed)
             batch == SubSeq(embd_inp, n_consumed + 1, n_consumed + count)
  <2>1. batch \in Seq(Tokens) /\ embd' = batch
    BY <1>8, <1>0, BatchType DEF Feed
  <2> HIDE DEF batch, count
  <2>2. \A k \in 1 .. Len(embd') : embd'[k] # Junk
    BY <2>1, ElementOfSeq, TokenAssumption
  <2> QED
    BY <1>8, <1>c, <2>2 DEF Feed, WindowFits
<1>9. ASSUME NEW id \in Tokens, NEW goes_on \in BOOLEAN, Sample(id, goes_on)
      PROVE  WindowFits'
  <2>1. embd' = <<id>> /\ n_past' = n_past /\ pc' \in {"check", "end"}
    BY <1>9 DEF Sample
  <2>2. \A k \in 1 .. Len(embd') : embd'[k] # Junk
    BY <2>1, TokenAssumption
  <2> QED
    BY <2>1, <2>2, <1>a, <1>c DEF WindowFits
<1>10. CASE Check
  BY <1>10, <1>c DEF Check, WindowFits
<1>11. CASE UNCHANGED vars
  BY <1>11, <1>c DEF vars, WindowFits
<1> QED
  BY <1>1, <1>2, <1>3, <1>4, <1>5, <1>6, <1>7, <1>8, <1>9, <1>10, <1>11
  DEF Next, Step, Returned

LEMMA NextFits == FitInv /\ [Next]_vars => FitInv'
<1> SUFFICES ASSUME FitInv, [Next]_vars PROVE FitInv'
  OBVIOUS
<1>1. TypeOK' /\ Control'
  BY NextTyped DEF FitInv
<1>2. UNCHANGED <<params, embd_inp>>
  BY DEF Next, Step, Returned, vars, LoopExit, SkipEval, BeginEval, SwapContext,
         SwapThrows, EvalBatch, EvalFails, Feed, Sample, Check
<1>3. (Len(embd_inp) < params.n_ctx => PromptInOrder)'
  BY <1>2, PromptOrderKept DEF FitInv
<1>4. WindowFits'
  BY WindowFitsKept
<1> QED
  BY <1>1, <1>3, <1>4 DEF FitInv

\* However long a call that fits goes on, evaluation stays inside the context,
\* the swap reads inside last_n_tokens only, and no exception leaves the call.
THEOREM EvaluationStaysInContext == Spec => []WindowFits
<1>1. Spec => []FitInv
  BY InitFits, NextFits, PTL DEF Spec
<1>2. FitInv => WindowFits
  BY DEF FitInv
<1> QED
  BY <1>1, <1>2, PTL

----------------------------------------------------------------------------
(* The transcript: what the penalty window holds, when generation stops,   *)
(* and what the model sees after the context was swapped any number of     *)
(* times.                                                                  *)

\* What is at k of a window v of a size after tokens u were pushed into it.
Shifted(v, u, size, k) ==
  IF k <= size - Len(u) THEN v[k + Len(u)] ELSE u[k - (size - Len(u))]

LEMMA ShiftElements ==
  ASSUME NEW T, NEW size \in Nat, NEW w \in [1 .. size -> T], NEW s \in Seq(T),
         NEW k \in 1 .. size
  PROVE  Shift(w, s)[k] = IF k <= size - Len(s) THEN w[k + Len(s)]
                                               ELSE s[k - (size - Len(s))]
<1>1. w \in Seq(T) /\ Len(w) = size
  <2>1. w \in Seq(T)
    BY SeqDef
  <2> QED
    BY <2>1, LenProperties
<1>2. Len(s) \in Nat
  BY LenProperties
<1>3. /\ w \o s \in Seq(T)
      /\ Len(w \o s) = size + Len(s)
      /\ \A j \in 1 .. size + Len(s) :
           (w \o s)[j] = IF j <= size THEN w[j] ELSE s[j - size]
  BY <1>1, ConcatProperties
<1>4. \A j \in Len(s) + 1 .. Len(s) + size : (w \o s)[j] \in T
  BY <1>2, <1>3, ElementOfSeq
<1>5. Shift(w, s)[k] = (w \o s)[Len(s) + 1 + k - 1]
  <2>1. \A j \in 1 .. Len(s) + size - (Len(s) + 1) + 1 :
          SubSeq(w \o s, Len(s) + 1, Len(s) + size)[j] = (w \o s)[Len(s) + 1 + j - 1]
    BY <1>2, <1>4, SubSeqProperties
  <2>2. k \in 1 .. Len(s) + size - (Len(s) + 1) + 1
    BY <1>2
  <2> QED
    BY <1>1, <2>1, <2>2 DEF Shift
<1>6. Len(s) + 1 + k - 1 = k + Len(s) /\ k + Len(s) \in 1 .. size + Len(s)
  BY <1>2
<1>7. (w \o s)[k + Len(s)] = IF k + Len(s) <= size THEN w[k + Len(s)]
                                                  ELSE s[k + Len(s) - size]
  BY <1>3, <1>6
<1>8. k + Len(s) - size = k - (size - Len(s))
      /\ (k + Len(s) <= size <=> k <= size - Len(s))
  BY <1>2
<1> QED
  BY <1>5, <1>6, <1>7, <1>8

LEMMA ShiftedElements ==
  ASSUME NEW T, NEW size \in Nat, NEW w \in [1 .. size -> T], NEW s \in Seq(T),
         NEW k \in 1 .. size
  PROVE  Shift(w, s)[k] = Shifted(w, s, size, k)
BY ShiftElements DEF Shifted

LEMMA ShiftEach ==
  ASSUME NEW T, NEW size \in Nat
  PROVE  \A v \in [1 .. size -> T], u \in Seq(T), k \in 1 .. size :
           Shift(v, u)[k] = Shifted(v, u, size, k)
BY ShiftedElements, Zenon

\* Pushing no tokens changes nothing.
LEMMA ShiftNothing ==
  ASSUME NEW T, NEW size \in Nat, NEW w \in [1 .. size -> T], NEW s \in Seq(T)
  PROVE  Len(s) = 0 => Shift(w, s) = w
<1>1. Shift(w, s) \in [1 .. size -> T]
  BY ShiftType
<1>2. ASSUME NEW k \in 1 .. size PROVE Len(s) = 0 => Shift(w, s)[k] = w[k]
  <2>1. Shift(w, s)[k] = IF k <= size - Len(s) THEN w[k + Len(s)]
                                               ELSE s[k - (size - Len(s))]
    BY ShiftElements
  <2> QED
    BY <2>1
<1> QED
  BY <1>1, <1>2

\* Pushing tokens one after another and pushing them at once is the same.
LEMMA ShiftTwice ==
  ASSUME NEW T, NEW size \in Nat, NEW w \in [1 .. size -> T],
         NEW s \in Seq(T), NEW t \in Seq(T)
  PROVE  Shift(Shift(w, s), t) = Shift(w, s \o t)
<1>1. /\ s \o t \in Seq(T) /\ Len(s \o t) = Len(s) + Len(t)
      /\ \A j \in 1 .. Len(s) + Len(t) :
           (s \o t)[j] = IF j <= Len(s) THEN s[j] ELSE t[j - Len(s)]
      /\ Len(s) \in Nat /\ Len(t) \in Nat
  BY ConcatProperties, LenProperties
<1>2. /\ Shift(w, s) \in [1 .. size -> T]
      /\ Shift(Shift(w, s), t) \in [1 .. size -> T]
      /\ Shift(w, s \o t) \in [1 .. size -> T]
  BY <1>1, ShiftType
<1>a. \A v \in [1 .. size -> T], u \in Seq(T), k \in 1 .. size :
        Shift(v, u)[k] = Shifted(v, u, size, k)
  BY ShiftEach, Zenon
<1>3. ASSUME NEW k \in 1 .. size
      PROVE  Shift(Shift(w, s), t)[k] = Shift(w, s \o t)[k]
  <2>1. Shift(Shift(w, s), t)[k] =
          IF k <= size - Len(t) THEN Shift(w, s)[k + Len(t)]
                                ELSE t[k - (size - Len(t))]
    BY <1>2, <1>a DEF Shifted
  <2>2. Shift(w, s \o t)[k] =
          IF k <= size - Len(s \o t) THEN w[k + Len(s \o t)]
                                     ELSE (s \o t)[k - (size - Len(s \o t))]
    BY <1>1, <1>a DEF Shifted
  <2>3. CASE k <= size - Len(t)
    <3>1. k + Len(t) \in 1 .. size
      BY <1>1, <2>3
    <3>2. Shift(w, s)[k + Len(t)] =
            IF k + Len(t) <= size - Len(s) THEN w[k + Len(t) + Len(s)]
                                           ELSE s[k + Len(t) - (size - Len(s))]
      <4>1. Shift(w, s)[k + Len(t)] = Shifted(w, s, size, k + Len(t))
        BY <3>1, <1>a, Zenon
      <4> QED
        BY <4>1 DEF Shifted
    <3> QED
      BY <1>1, <2>1, <2>2, <2>3, <3>2
  <2>4. CASE ~(k <= size - Len(t))
    BY <1>1, <2>1, <2>2, <2>4
  <2> QED
    BY <2>3, <2>4
<1> QED
  BY <1>2, <1>3

\* IsSuffix of the community modules, element by element.
LEMMA SuffixElements ==
  ASSUME NEW T, NEW s \in Seq(T), NEW t \in Seq(T)
  PROVE  IsSuffix(s, t) <=>
           Len(s) <= Len(t) /\ \A k \in 1 .. Len(s) : s[k] = t[Len(t) - Len(s) + k]
<1>1. Len(s) \in Nat /\ Len(t) \in Nat
  BY LenProperties
<1>2. ASSUME NEW u \in Seq(T)
      PROVE  Reverse(u) \in Seq(T) /\ Len(Reverse(u)) = Len(u)
  <2>1. Len(u) \in Nat
    BY LenProperties
  <2>2. Reverse(u) \in [1 .. Len(u) -> T]
    <3> SUFFICES ASSUME NEW k \in 1 .. Len(u) PROVE u[Len(u) - k + 1] \in T
      BY DEF Reverse
    <3>1. Len(u) - k + 1 \in 1 .. Len(u)
      BY <2>1
    <3> QED
      BY <3>1, ElementOfSeq
  <2>3. Reverse(u) \in Seq(T)
    BY <2>1, <2>2, SeqDef
  <2>4. DOMAIN Reverse(u) = 1 .. Len(Reverse(u)) /\ Len(Reverse(u)) \in Nat
    BY <2>3, LenProperties
  <2> QED
    BY <2>1, <2>2, <2>3, <2>4
<1>3. IsSuffix(s, t) <=>
        Len(s) <= Len(t) /\ SubSeq(Reverse(s), 1, Len(s)) = SubSeq(Reverse(t), 1, Len(s))
  BY <1>2 DEF IsSuffix, IsPrefix
<1>4. SUFFICES ASSUME Len(s) <= Len(t)
               PROVE  SubSeq(Reverse(s), 1, Len(s)) = SubSeq(Reverse(t), 1, Len(s))
                        <=> \A k \in 1 .. Len(s) : s[k] = t[Len(t) - Len(s) + k]
  BY <1>3
<1> DEFINE l == SubSeq(Reverse(s), 1, Len(s))
           r == SubSeq(Reverse(t), 1, Len(s))
<1>5. /\ l \in Seq(T) /\ Len(l) = Len(s)
      /\ \A j \in 1 .. Len(s) : l[j] = s[Len(s) - j + 1]
  <2>1. \A j \in 1 .. Len(s) : Reverse(s)[j] \in T /\ Reverse(s)[j] = s[Len(s) - j + 1]
    BY <1>2, ElementOfSeq DEF Reverse
  <2>2. /\ l \in Seq(T) /\ Len(l) = IF 1 <= Len(s) THEN Len(s) - 1 + 1 ELSE 0
        /\ \A j \in 1 .. Len(s) - 1 + 1 : l[j] = Reverse(s)[1 + j - 1]
    BY <1>1, <2>1, SubSeqProperties
  <2> QED
    BY <1>1, <2>1, <2>2
<1>6. /\ r \in Seq(T) /\ Len(r) = Len(s)
      /\ \A j \in 1 .. Len(s) : r[j] = t[Len(t) - j + 1]
  <2>1. \A j \in 1 .. Len(s) : Reverse(t)[j] \in T /\ Reverse(t)[j] = t[Len(t) - j + 1]
    BY <1>1, <1>2, <1>4, ElementOfSeq DEF Reverse
  <2>2. /\ r \in Seq(T) /\ Len(r) = IF 1 <= Len(s) THEN Len(s) - 1 + 1 ELSE 0
        /\ \A j \in 1 .. Len(s) - 1 + 1 : r[j] = Reverse(t)[1 + j - 1]
    BY <1>1, <2>1, SubSeqProperties
  <2> QED
    BY <1>1, <2>1, <2>2
<1>7. l = r <=> \A j \in 1 .. Len(s) : l[j] = r[j]
  BY <1>5, <1>6, SeqEqual
<1> HIDE DEF l, r
<1>8. ASSUME \A j \in 1 .. Len(s) : l[j] = r[j], NEW k \in 1 .. Len(s)
      PROVE  s[k] = t[Len(t) - Len(s) + k]
  <2>1. Len(s) - k + 1 \in 1 .. Len(s)
    BY <1>1
  <2>2. l[Len(s) - k + 1] = s[Len(s) - (Len(s) - k + 1) + 1]
        /\ r[Len(s) - k + 1] = t[Len(t) - (Len(s) - k + 1) + 1]
    BY <1>5, <1>6, <2>1
  <2>3. /\ Len(s) - (Len(s) - k + 1) + 1 = k
        /\ Len(t) - (Len(s) - k + 1) + 1 = Len(t) - Len(s) + k
    BY <1>1
  <2> QED
    BY <1>8, <2>1, <2>2, <2>3
<1>9. ASSUME \A k \in 1 .. Len(s) : s[k] = t[Len(t) - Len(s) + k], NEW j \in 1 .. Len(s)
      PROVE  l[j] = r[j]
  <2>1. Len(s) - j + 1 \in 1 .. Len(s)
    BY <1>1
  <2>2. Len(t) - Len(s) + (Len(s) - j + 1) = Len(t) - j + 1
    BY <1>1
  <2> QED
    BY <1>5, <1>6, <1>9, <2>1, <2>2
<1> QED
  BY <1>7, <1>8, <1>9 DEF l, r

----------------------------------------------------------------------------
(* The transcript.                                                         *)

Blank == [k \in 1 .. params.n_ctx |-> Unk]

\* The answer so far, with the tokens that Check is about to append.
Transcript == IF pc = "check" THEN res \o embd ELSE res

\* The locals follow the transcript: last_n_tokens is its tail, the counters
\* count its tokens, the prompt is its beginning, and nothing is sampled
\* before the prompt is consumed.
TranscriptInv ==
  pc \notin Terminal =>
    /\ last_n_tokens = Shift(Blank, Transcript)
    /\ Len(Transcript) = n_consumed + (params.n_predict - n_remain)
    /\ n_remain <= params.n_predict
    /\ n_consumed < Len(embd_inp) => n_remain = params.n_predict
    /\ \A k \in 1 .. Len(Transcript) :
         k <= Len(embd_inp) => Transcript[k] = embd_inp[k]

\* What waits to be evaluated is the end of the transcript.
PendingInv ==
  pc = "head" =>
    /\ Len(embd) <= Len(res)
    /\ \A k \in 1 .. Len(embd) : embd[k] = res[Len(res) - Len(embd) + k]

LEMMA TranscriptTyped ==
  ASSUME TypeOK, Control
  PROVE  /\ Transcript \in Seq(Tokens) /\ Len(Transcript) \in Nat
         /\ Blank \in [1 .. params.n_ctx -> Tokens]
         /\ params.n_ctx \in Nat
<1>1. Transcript \in Seq(Tokens)
  BY ConcatProperties DEF TypeOK, Control, Transcript
<1>2. Blank \in [1 .. params.n_ctx -> Tokens]
  BY TokenAssumption DEF Blank
<1> QED
  BY <1>1, <1>2, LenProperties DEF TypeOK

LEMMA InitTranscript == Init => TranscriptInv /\ PendingInv
<1> SUFFICES ASSUME Init PROVE TranscriptInv /\ PendingInv
  OBVIOUS
<1>1. TypeOK /\ Control
  BY InitTyped
<1>2. /\ pc = "head" /\ res = <<>> /\ embd = <<>> /\ n_consumed = 0
      /\ n_remain = params.n_predict /\ last_n_tokens = Blank
      /\ params.n_predict \in Int /\ Len(<<>>) = 0
  BY <1>1, EmptySeq DEF Init, Blank, TypeOK
<1>3. Transcript = <<>>
  BY <1>2 DEF Transcript
<1>4. Shift(Blank, <<>>) = Blank
  <2>1. <<>> \in Seq(Tokens) /\ params.n_ctx \in Nat
        /\ Blank \in [1 .. params.n_ctx -> Tokens]
    BY <1>1, EmptySeq, TranscriptTyped
  <2> QED
    BY <1>2, <2>1, ShiftNothing
<1> QED
  BY <1>2, <1>3, <1>4 DEF TranscriptInv, PendingInv

LEMMA BlankShift ==
  ASSUME params.n_ctx \in Nat, Blank \in [1 .. params.n_ctx -> Tokens],
         res \in Seq(Tokens), NEW s \in Seq(Tokens)
  PROVE  Shift(Shift(Blank, res), s) = Shift(Blank, res \o s)
BY ShiftTwice

\* Tokens pushed into the window and appended to the transcript.
LEMMA TranscriptGrows ==
  ASSUME TypeOK, Control, TypeOK', Control', TranscriptInv, pc = "choose",
         NEW s \in Seq(Tokens), embd' = s, pc' = "check",
         last_n_tokens' = Shift(last_n_tokens, s), UNCHANGED <<params, res>>
  PROVE  /\ Transcript' = Transcript \o s
         /\ last_n_tokens' = Shift(Blank', Transcript')
         /\ Len(Transcript') = Len(Transcript) + Len(s)
<1>1. Transcript = res /\ Transcript' = res \o s /\ Blank' = Blank
  BY DEF Transcript, Blank
<1>2. res \in Seq(Tokens)
  BY DEF TypeOK
<1>3. last_n_tokens = Shift(Blank, res)
  BY <1>1 DEF TranscriptInv, Terminal
<1>4. Blank \in [1 .. params.n_ctx -> Tokens] /\ params.n_ctx \in Nat
  BY TranscriptTyped
<1>5. Shift(Shift(Blank, res), s) = Shift(Blank, res \o s)
  BY <1>2, <1>4, BlankShift
<1> QED
  BY <1>1, <1>2, <1>3, <1>5, ConcatProperties

LEMMA NextTranscript ==
  TypeOK /\ Control /\ TypeOK' /\ Control' /\ TranscriptInv /\ PendingInv
    /\ [Next]_vars => TranscriptInv' /\ PendingInv'
<1> SUFFICES ASSUME TypeOK, Control, TypeOK', Control', TranscriptInv,
                    PendingInv, [Next]_vars
             PROVE  TranscriptInv' /\ PendingInv'
  OBVIOUS
<1>0. ASSUME UNCHANGED <<params, embd_inp, last_n_tokens, n_consumed, n_remain, res>>,
             pc # "check", pc' # "check", pc \notin Terminal
      PROVE  TranscriptInv'
  <2>1. Transcript' = Transcript /\ Blank' = Blank
    BY <1>0 DEF Transcript, Blank
  <2> QED
    BY <1>0, <2>1 DEF TranscriptInv
<1>1. CASE LoopExit
  BY <1>1 DEF LoopExit, TranscriptInv, PendingInv, Terminal
<1>2. CASE SkipEval
  BY <1>2, <1>0 DEF SkipEval, PendingInv, Terminal
<1>3. CASE BeginEval
  BY <1>3, <1>0 DEF BeginEval, PendingInv, Terminal
<1>4. CASE SwapContext
  BY <1>4, <1>0 DEF SwapContext, OutOfContext, PendingInv, Terminal
<1>5. CASE SwapThrows
  BY <1>5 DEF SwapThrows, TranscriptInv, PendingInv, Terminal
<1>6. CASE EvalBatch
  <2>1. /\ UNCHANGED <<params, embd_inp, last_n_tokens, n_consumed, n_remain, res>>
        /\ pc = "eval" /\ pc' \in {"eval", "choose"}
    BY <1>6 DEF EvalBatch
  <2> QED
    BY <1>0, <2>1 DEF PendingInv, Terminal
<1>7. CASE EvalFails
  BY <1>7 DEF EvalFails, TranscriptInv, PendingInv, Terminal
<1>8. CASE Feed
  <2> DEFINE count == AtMost(params.n_batch, Len(embd_inp) - n_consumed)
             batch == SubSeq(embd_inp, n_consumed + 1, n_consumed + count)
  <2>1. /\ batch \in Seq(Tokens) /\ Len(batch) = count
        /\ count \in 1 .. params.n_batch
        /\ n_consumed + count \in 0 .. Len(embd_inp)
    BY <1>8, BatchType DEF Feed
  <2>2. \A j \in 1 .. count : batch[j] = embd_inp[n_consumed + j]
    <3>a. Len(embd_inp) \in Nat /\ params.n_batch \in Nat
      BY LenProperties DEF TypeOK
    <3>b. n_consumed \in Nat
      BY <3>a DEF TypeOK
    <3>c. count \in Nat
      <4> HIDE DEF count
      <4> QED
        BY <2>1, <3>a
    <3>0. n_consumed \in Nat /\ count \in Nat
      BY <3>b, <3>c
    <3>1. \A k \in n_consumed + 1 .. n_consumed + count : embd_inp[k] \in Tokens
      BY <2>1, <3>0, ElementOfSeq DEF TypeOK
    <3>2. \A j \in 1 .. n_consumed + count - (n_consumed + 1) + 1 :
            batch[j] = embd_inp[n_consumed + 1 + j - 1]
      <4> DEFINE m == n_consumed + 1
                 n == n_consumed + count
      <4>1. m \in Int /\ n \in Int /\ \A k \in m .. n : embd_inp[k] \in Tokens
        BY <3>0, <3>1
      <4> HIDE DEF m, n, count
      <4>2. \A j \in 1 .. n - m + 1 : SubSeq(embd_inp, m, n)[j] = embd_inp[m + j - 1]
        BY <4>1, SubSeqProperties
      <4>3. batch = SubSeq(embd_inp, m, n)
        BY DEF m, n
      <4> HIDE DEF batch
      <4>4. \A j \in 1 .. n - m + 1 : batch[j] = embd_inp[m + j - 1]
        BY <4>2, <4>3
      <4> QED
        BY <3>0, <4>4 DEF m, n
    <3> HIDE DEF batch, count
    <3>3. \A j \in 1 .. count :
            /\ j \in 1 .. n_consumed + count - (n_consumed + 1) + 1
            /\ n_consumed + 1 + j - 1 = n_consumed + j
      BY <3>0
    <3> QED
      BY <3>2, <3>3
  <2>3. /\ embd' = batch /\ last_n_tokens' = Shift(last_n_tokens, batch)
        /\ n_consumed' = n_consumed + count /\ n_consumed < Len(embd_inp)
        /\ pc = "choose" /\ pc' = "check"
        /\ UNCHANGED <<params, embd_inp, n_remain, res>>
    BY <1>8, Zenon DEF Feed
  <2> HIDE DEF count, batch
  <2>4. /\ Transcript' = Transcript \o batch
        /\ last_n_tokens' = Shift(Blank', Transcript')
        /\ Len(Transcript') = Len(Transcript) + count
    BY <2>1, <2>3, TranscriptGrows
  <2>5. /\ Len(Transcript) = n_consumed /\ n_remain = params.n_predict
        /\ \A k \in 1 .. Len(Transcript) :
             k <= Len(embd_inp) => Transcript[k] = embd_inp[k]
        /\ n_consumed \in Nat /\ params.n_predict \in Int
        /\ Transcript \in Seq(Tokens)
    <3>1. Len(embd_inp) \in Nat /\ n_consumed \in 0 .. Len(embd_inp)
          /\ params.n_predict \in Int
      BY LenProperties DEF TypeOK
    <3>2. Transcript \in Seq(Tokens)
      BY TranscriptTyped
    <3>3. pc \notin Terminal
      BY <2>3 DEF Terminal
    <3> QED
      BY <2>3, <3>1, <3>2, <3>3 DEF TranscriptInv
  <2>6. \A k \in 1 .. n_consumed + count : Transcript'[k] = embd_inp[k]
    <3> TAKE k \in 1 .. n_consumed + count
    <3>1. Transcript'[k] = IF k <= n_consumed THEN Transcript[k] ELSE batch[k - n_consumed]
      BY <2>1, <2>4, <2>5, ConcatProperties
    <3>2. count \in Nat /\ Len(embd_inp) \in Nat
      BY <2>1, LenProperties DEF TypeOK
    <3>3. CASE k <= n_consumed
      BY <2>1, <2>5, <3>1, <3>2, <3>3
    <3>4. CASE ~(k <= n_consumed)
      <4>1. k - n_consumed \in 1 .. count /\ n_consumed + (k - n_consumed) = k
        BY <2>5, <3>2, <3>4
      <4> QED
        BY <2>2, <3>1, <3>4, <4>1
    <3> QED
      BY <3>3, <3>4
  <2> QED
    BY <2>1, <2>3, <2>4, <2>5, <2>6 DEF TranscriptInv, PendingInv
<1>9. ASSUME NEW id \in Tokens, NEW goes_on \in BOOLEAN, Sample(id, goes_on)
      PROVE  TranscriptInv' /\ PendingInv'
  <2>1. CASE ~goes_on
    BY <1>9, <2>1 DEF Sample, TranscriptInv, PendingInv, Terminal
  <2>2. CASE goes_on
    <3>1. <<id>> \in Seq(Tokens) /\ Len(<<id>>) = 1
      OBVIOUS
    <3>2. /\ embd' = <<id>> /\ last_n_tokens' = Shift(last_n_tokens, <<id>>)
          /\ n_remain' = n_remain - 1 /\ n_consumed >= Len(embd_inp)
          /\ pc = "choose" /\ pc' = "check"
          /\ UNCHANGED <<params, embd_inp, n_consumed, res>>
      BY <1>9, <2>2 DEF Sample
    <3>3. /\ Transcript' = Transcript \o <<id>>
          /\ last_n_tokens' = Shift(Blank', Transcript')
          /\ Len(Transcript') = Len(Transcript) + 1
      BY <3>1, <3>2, TranscriptGrows
    <3>4. /\ Len(Transcript) = n_consumed + (params.n_predict - n_remain)
          /\ n_remain <= params.n_predict
          /\ \A k \in 1 .. Len(Transcript) :
               k <= Len(embd_inp) => Transcript[k] = embd_inp[k]
          /\ Transcript \in Seq(Tokens) /\ Len(Transcript) \in Nat
          /\ n_consumed = Len(embd_inp) /\ n_consumed \in Nat
          /\ params.n_predict \in Int /\ n_remain \in Int
      BY <3>2, TranscriptTyped, LenProperties DEF TranscriptInv, Terminal, TypeOK
    <3>5. \A k \in 1 .. Len(Transcript) + 1 :
            k <= Len(embd_inp) => Transcript'[k] = embd_inp[k]
      <4> SUFFICES ASSUME NEW k \in 1 .. Len(Transcript) + 1, k <= Len(embd_inp)
                   PROVE  Transcript'[k] = embd_inp[k]
        OBVIOUS
      <4>1. k \in 1 .. Len(Transcript)
        BY <3>4
      <4>2. Transcript'[k] = Transcript[k]
        BY <3>1, <3>3, <3>4, <4>1, ConcatProperties
      <4> QED
        BY <3>4, <4>1, <4>2
    <3>6. Len(Transcript') = n_consumed' + (params.n_predict' - n_remain')
          /\ n_remain' <= params.n_predict' /\ ~(n_consumed' < Len(embd_inp'))
      BY <3>2, <3>3, <3>4
    <3>7. \A k \in 1 .. Len(Transcript') :
            k <= Len(embd_inp') => Transcript'[k] = embd_inp'[k]
      BY <3>2, <3>3, <3>5
    <3> QED
      BY <3>2, <3>3, <3>6, <3>7 DEF TranscriptInv, PendingInv
  <2> QED
    BY <2>1, <2>2
<1>10. CASE Check
  <2>1. /\ Transcript = res \o embd /\ res' = res \o embd /\ pc' # "check"
        /\ UNCHANGED <<params, embd_inp, last_n_tokens, n_consumed, n_remain, embd>>
        /\ pc = "check"
    BY <1>10 DEF Check, Transcript
  <2>2. Transcript' = Transcript /\ Blank' = Blank
    BY <2>1 DEF Transcript, Blank
  <2>3. TranscriptInv'
    BY <2>1, <2>2 DEF TranscriptInv, Terminal
  <2>4. /\ Len(res') = Len(res) + Len(embd)
        /\ \A k \in 1 .. Len(res) + Len(embd) :
             res'[k] = IF k <= Len(res) THEN res[k] ELSE embd[k - Len(res)]
        /\ Len(res) \in Nat /\ Len(embd) \in Nat
    BY <2>1, ConcatProperties, LenProperties DEF TypeOK, Control
  <2>5. PendingInv'
    BY <2>1, <2>4 DEF PendingInv
  <2> QED
    BY <2>3, <2>5
<1>11. CASE UNCHANGED vars
  <2>1. Transcript' = Transcript /\ Blank' = Blank
    BY <1>11 DEF vars, Transcript, Blank
  <2> QED
    BY <1>11, <2>1 DEF vars, TranscriptInv, PendingInv
<1> QED
  BY <1>1, <1>2, <1>3, <1>4, <1>5, <1>6, <1>7, <1>8, <1>9, <1>10, <1>11
  DEF Next, Step, Returned

\* The window used for penalties, stop prompts and swaps is the tail of the
\* transcript, for every call.
THEOREM PenaltyWindowFollowsTranscript == Spec => []PenaltyWindowIsTranscriptTail
<1>1. TypeOK /\ Control /\ TranscriptInv => PenaltyWindowIsTranscriptTail
  BY DEF TranscriptInv, PenaltyWindowIsTranscriptTail, Transcript, Blank, Terminal
<1>2. Spec => [](TypeOK /\ Control)
  BY TypeCorrect
<1> QED
  BY <1>1, <1>2, InitTranscript, NextTranscript, PTL DEF Spec

----------------------------------------------------------------------------
(* Stopping.                                                               *)

\* A stop prompt at the end of the transcript is at the end of the window,
\* if the window is long enough for it.
LEMMA SuffixInWindow ==
  ASSUME NEW T, NEW size \in Nat, NEW b \in [1 .. size -> T],
         NEW a \in Seq(T), NEW t \in Seq(T)
  PROVE  Len(a) <= size /\ IsSuffix(a, t) => IsSuffix(a, Shift(b, t))
<1>1. /\ Shift(b, t) \in Seq(T) /\ Len(Shift(b, t)) = size
      /\ Len(a) \in Nat /\ Len(t) \in Nat
  <2>1. Shift(b, t) \in [1 .. size -> T]
    BY ShiftType
  <2>2. Shift(b, t) \in Seq(T)
    BY <2>1, SeqDef
  <2> QED
    BY <2>1, <2>2, LenProperties
<1>a. \A v \in [1 .. size -> T], u \in Seq(T), k \in 1 .. size :
        Shift(v, u)[k] = Shifted(v, u, size, k)
  BY ShiftEach, Zenon
<1> DEFINE w == Shift(b, t)
<1> HIDE DEF w
<1>2. ASSUME Len(a) <= size, IsSuffix(a, t), NEW k \in 1 .. Len(a)
      PROVE  a[k] = w[size - Len(a) + k]
  <2>1. Len(a) <= Len(t) /\ a[k] = t[Len(t) - Len(a) + k]
    BY <1>2, SuffixElements
  <2>2. /\ size - Len(a) + k \in 1 .. size
        /\ ~(size - Len(a) + k <= size - Len(t))
        /\ size - Len(a) + k - (size - Len(t)) = Len(t) - Len(a) + k
    <3>1. /\ Len(a) \in Nat /\ Len(t) \in Nat
          /\ Len(a) <= size /\ Len(a) <= Len(t)
      BY <1>1, <1>2, <2>1
    <3> QED
      BY <3>1
  <2>3. w[size - Len(a) + k] = Shifted(b, t, size, size - Len(a) + k)
    BY <1>a, <2>2, Zenon DEF w
  <2>4. Shifted(b, t, size, size - Len(a) + k) = t[Len(t) - Len(a) + k]
    BY <2>2 DEF Shifted
  <2> QED
    BY <2>1, <2>3, <2>4
<1>3. IsSuffix(a, w) <=>
        Len(a) <= size /\ \A k \in 1 .. Len(a) : a[k] = w[size - Len(a) + k]
  BY <1>1, SuffixElements DEF w
<1> QED
  BY <1>2, <1>3 DEF w

\* Conversely, a stop prompt found in a window that was filled with Unk is at
\* the end of the transcript, if it does not contain Unk.
LEMMA SuffixOfTranscript ==
  ASSUME NEW T, NEW size \in Nat, NEW b \in [1 .. size -> T],
         NEW a \in Seq(T), NEW t \in Seq(T)
  PROVE  (/\ \A k \in 1 .. size : b[k] = Unk
          /\ \A k \in 1 .. Len(a) : a[k] # Unk
          /\ IsSuffix(a, Shift(b, t))) => IsSuffix(a, t)
<1>1. /\ Shift(b, t) \in Seq(T) /\ Len(Shift(b, t)) = size
      /\ Len(a) \in Nat /\ Len(t) \in Nat
  <2>1. Shift(b, t) \in [1 .. size -> T]
    BY ShiftType
  <2>2. Shift(b, t) \in Seq(T)
    BY <2>1, SeqDef
  <2> QED
    BY <2>1, <2>2, LenProperties
<1>a. \A v \in [1 .. size -> T], u \in Seq(T), k \in 1 .. size :
        Shift(v, u)[k] = Shifted(v, u, size, k)
  BY ShiftEach, Zenon
<1> DEFINE w == Shift(b, t)
<1> HIDE DEF w
<1>2. IsSuffix(a, w) <=>
        Len(a) <= size /\ \A k \in 1 .. Len(a) : a[k] = w[size - Len(a) + k]
  BY <1>1, SuffixElements DEF w
<1> SUFFICES ASSUME \A k \in 1 .. size : b[k] = Unk,
                    \A k \in 1 .. Len(a) : a[k] # Unk,
                    Len(a) <= size,
                    \A k \in 1 .. Len(a) : a[k] = w[size - Len(a) + k]
             PROVE  IsSuffix(a, t)
  BY <1>2 DEF w
<1>3. Len(a) <= Len(t)
  <2> SUFFICES ASSUME Len(a) > Len(t) PROVE FALSE
    BY <1>1
  <2>1. /\ Len(a) - Len(t) \in 1 .. Len(a)
        /\ size - Len(a) + (Len(a) - Len(t)) = size - Len(t)
        /\ size - Len(t) \in 1 .. size /\ size - Len(t) <= size - Len(t)
        /\ size - Len(t) + Len(t) = size /\ size \in 1 .. size
    BY <1>1
  <2>2. w[size - Len(t)] = b[size]
    BY <1>a, <2>1 DEF w, Shifted
  <2> QED
    BY <2>1, <2>2
<1>4. ASSUME NEW k \in 1 .. Len(a)
      PROVE  a[k] = t[Len(t) - Len(a) + k]
  <2>1. /\ size - Len(a) + k \in 1 .. size
        /\ ~(size - Len(a) + k <= size - Len(t))
        /\ size - Len(a) + k - (size - Len(t)) = Len(t) - Len(a) + k
    BY <1>1, <1>3
  <2>2. w[size - Len(a) + k] = t[Len(t) - Len(a) + k]
    BY <1>a, <2>1 DEF w, Shifted
  <2> QED
    BY <2>2
<1> QED
  BY <1>3, <1>4, SuffixElements

\* Every stop prompt is at most as long as the penalty window.  A longer one
\* is never found.
StopPromptsFit == \A p \in Params : \A a \in p.antiprompt : Len(a) <= p.n_ctx

\* No stop prompt contains Unk.  One that does may be found in the filling of
\* a window that is not full yet.
StopPromptsKnown ==
  \A p \in Params : \A a \in p.antiprompt : \A k \in 1 .. Len(a) : a[k] # Unk

\* The same of the parameters of the call.
Fit   == \A a \in params.antiprompt : Len(a) <= params.n_ctx
Known == \A a \in params.antiprompt : \A k \in 1 .. Len(a) : a[k] # Unk

LEMMA ParamsStay == [Next]_vars => UNCHANGED <<params, embd_inp>>
BY DEF Next, Step, Returned, vars, LoopExit, SkipEval, BeginEval, SwapContext,
       SwapThrows, EvalBatch, EvalFails, Feed, Sample, Check

LEMMA InitStops == Init => /\ StopPromptsFit => Fit
                           /\ StopPromptsKnown => Known
<1> SUFFICES ASSUME Init PROVE (StopPromptsFit => Fit) /\ (StopPromptsKnown => Known)
  OBVIOUS
<1>1. PICK p \in Params, prompt \in Prompts :
        params = [p EXCEPT !.n_keep = KeepCount(p.n_keep, Len(prompt))]
  BY DEF Init
<1>2. p \in [n_ctx : Nat \ {0}, n_batch : Nat \ {0}, n_keep : Int,
             n_predict : Int, antiprompt : SUBSET Seq(Tokens)]
  BY ParamsAssumption
<1>3. params.antiprompt = p.antiprompt /\ params.n_ctx = p.n_ctx
  BY <1>1, <1>2
<1> QED
  BY <1>3 DEF StopPromptsFit, StopPromptsKnown, Fit, Known

\* Generation goes on only from a transcript at which it need not stop.
GoesOnInv == pc \in {"head", "eval", "choose"} => ~MustStop(res)

\* What Check sees at the end of the transcript.
LEMMA CheckSees ==
  ASSUME TypeOK, Control, TranscriptInv, pc = "check"
  PROVE  /\ res \o embd \in Seq(Tokens) /\ res \o embd # <<>>
         /\ Last(res \o embd) = Last(embd)
         /\ \A a \in params.antiprompt :
              /\ Len(a) <= params.n_ctx /\ IsSuffix(a, res \o embd)
                   => IsSuffix(a, last_n_tokens)
              /\ Known /\ IsSuffix(a, last_n_tokens) => IsSuffix(a, res \o embd)
<1> DEFINE t == res \o embd
           size == params.n_ctx
<1>1. /\ t \in Seq(Tokens) /\ size \in Nat
      /\ Blank \in [1 .. size -> Tokens]
      /\ last_n_tokens = Shift(Blank, t)
  BY TranscriptTyped DEF TranscriptInv, Transcript, Terminal
<1>2. /\ res \in Seq(Tokens) /\ embd \in Seq(Tokens) /\ embd # <<>>
      /\ Len(res) \in Nat /\ Len(embd) \in Nat \ {0}
  BY LenProperties, EmptySeq DEF TypeOK, Control
<1>3. /\ Len(t) = Len(res) + Len(embd)
      /\ \A k \in 1 .. Len(res) + Len(embd) :
           t[k] = IF k <= Len(res) THEN res[k] ELSE embd[k - Len(res)]
  BY <1>2, ConcatProperties
<1>4. t # <<>> /\ Last(t) = Last(embd)
  <2> HIDE DEF t
  <2>1. t # <<>>
    BY <1>2, <1>3, EmptySeq
  <2>2. t[Len(res) + Len(embd)] = embd[Len(res) + Len(embd) - Len(res)]
    BY <1>2, <1>3
  <2>3. Len(res) + Len(embd) - Len(res) = Len(embd)
    BY <1>2
  <2> QED
    BY <1>3, <2>1, <2>2, <2>3 DEF Last
<1>5. ASSUME NEW a \in params.antiprompt
      PROVE  /\ Len(a) <= size /\ IsSuffix(a, t) => IsSuffix(a, last_n_tokens)
             /\ Known /\ IsSuffix(a, last_n_tokens) => IsSuffix(a, t)
  <2>1. a \in Seq(Tokens)
    BY DEF TypeOK
  <2>2. \A k \in 1 .. size : Blank[k] = Unk
    BY DEF Blank
  <2>3. Known => \A k \in 1 .. Len(a) : a[k] # Unk
    BY DEF Known
  <2> HIDE DEF t, size
  <2>4. Len(a) <= size /\ IsSuffix(a, t) => IsSuffix(a, Shift(Blank, t))
    BY <1>1, <2>1, SuffixInWindow
  <2>5. (/\ \A k \in 1 .. size : Blank[k] = Unk
         /\ \A k \in 1 .. Len(a) : a[k] # Unk
         /\ IsSuffix(a, Shift(Blank, t))) => IsSuffix(a, t)
    BY <1>1, <2>1, SuffixOfTranscript
  <2> QED
    BY <1>1, <2>2, <2>3, <2>4, <2>5
<1> QED
  BY <1>1, <1>4, <1>5

LEMMA NextGoesOn ==
  TypeOK /\ Control /\ TranscriptInv /\ GoesOnInv /\ Fit /\ [Next]_vars
    => GoesOnInv' /\ Fit' /\ (n_remain' # n_remain => ~MustStop(res))
<1> SUFFICES ASSUME TypeOK, Control, TranscriptInv, GoesOnInv, Fit, [Next]_vars
             PROVE  GoesOnInv' /\ Fit' /\ (n_remain' # n_remain => ~MustStop(res))
  OBVIOUS
<1>0. Fit' /\ (UNCHANGED res => MustStop(res)' = MustStop(res))
  BY ParamsStay DEF Fit, MustStop
<1>1. CASE LoopExit
  BY <1>1, <1>0 DEF LoopExit, GoesOnInv
<1>2. CASE SkipEval
  BY <1>2, <1>0 DEF SkipEval, GoesOnInv
<1>3. CASE BeginEval
  BY <1>3, <1>0 DEF BeginEval, GoesOnInv
<1>4. CASE SwapContext
  BY <1>4, <1>0 DEF SwapContext, OutOfContext, GoesOnInv
<1>5. CASE SwapThrows
  BY <1>5, <1>0 DEF SwapThrows, GoesOnInv
<1>6. CASE EvalBatch
  BY <1>6, <1>0 DEF EvalBatch, GoesOnInv
<1>7. CASE EvalFails
  BY <1>7, <1>0 DEF EvalFails, GoesOnInv
<1>8. CASE Feed
  BY <1>8, <1>0 DEF Feed, GoesOnInv
<1>9. ASSUME NEW id \in Tokens, NEW goes_on \in BOOLEAN, Sample(id, goes_on)
      PROVE  GoesOnInv' /\ Fit' /\ (n_remain' # n_remain => ~MustStop(res))
  BY <1>9, <1>0 DEF Sample, GoesOnInv
<1>10. CASE Check
  <2>1. res' = res \o embd /\ pc = "check" /\ UNCHANGED <<n_remain, params>>
        /\ pc' = IF StopPromptFound \/ Last(embd) = EOS THEN "end" ELSE "head"
    BY <1>10 DEF Check
  <2>2. ~(StopPromptFound \/ Last(embd) = EOS) => ~MustStop(res)'
    BY <2>1, CheckSees DEF MustStop, StopPromptFound, Fit
  <2> QED
    BY <2>1, <2>2, <1>0 DEF GoesOnInv
<1>11. CASE UNCHANGED vars
  BY <1>11, <1>0 DEF vars, GoesOnInv
<1> QED
  BY <1>1, <1>2, <1>3, <1>4, <1>5, <1>6, <1>7, <1>8, <1>9, <1>10, <1>11
  DEF Next, Step, Returned

\* No token is sampled after a transcript that ends with EOS or with a stop
\* prompt, if the stop prompts are at most as long as the window.
THEOREM GenerationStops == StopPromptsFit /\ Spec => NoTokenAfterStop
<1>1. Init => GoesOnInv
  <2>1. Init => ~MustStop(res)
    BY DEF Init, MustStop
  <2> QED
    BY <2>1 DEF GoesOnInv
<1>2. StopPromptsFit /\ Init => Fit
  BY InitStops
<1>3. Spec => [](TypeOK /\ Control)
  BY TypeCorrect
<1> QED
  BY <1>1, <1>2, <1>3, InitTranscript, NextTranscript, NextGoesOn, PTL
  DEF Spec, NoTokenAfterStop

LEMMA NextHasCause ==
  TypeOK /\ Control /\ TranscriptInv /\ Known /\ EndHasCause /\ [Next]_vars
    => Known' /\ EndHasCause'
<1> SUFFICES ASSUME TypeOK, Control, TranscriptInv, Known, EndHasCause, [Next]_vars
             PROVE  Known' /\ EndHasCause'
  OBVIOUS
<1>0. Known' /\ UNCHANGED params
  BY ParamsStay DEF Known
<1>t. params.n_predict \in Int /\ n_remain \in Int
  BY DEF TypeOK
<1>1. CASE LoopExit
  <2>1. n_remain = 0 /\ n_remain <= params.n_predict
    BY <1>1 DEF LoopExit, TranscriptInv, Terminal
  <2> QED
    BY <2>1, <1>0, <1>t DEF EndHasCause
<1>2. CASE SkipEval
  BY <1>2, <1>0 DEF SkipEval, EndHasCause
<1>3. CASE BeginEval
  BY <1>3, <1>0 DEF BeginEval, EndHasCause
<1>4. CASE SwapContext
  BY <1>4, <1>0 DEF SwapContext, OutOfContext, EndHasCause
<1>5. CASE SwapThrows
  BY <1>5, <1>0 DEF SwapThrows, EndHasCause
<1>6. CASE EvalBatch
  <2>1. pc' \in {"eval", "choose"}
    BY <1>6 DEF EvalBatch
  <2> QED
    BY <2>1, <1>0 DEF EndHasCause
<1>7. CASE EvalFails
  BY <1>7, <1>0 DEF EvalFails, EndHasCause
<1>8. CASE Feed
  BY <1>8, <1>0 DEF Feed, EndHasCause
<1>9. ASSUME NEW id \in Tokens, NEW goes_on \in BOOLEAN, Sample(id, goes_on)
      PROVE  Known' /\ EndHasCause'
  <2>1. Len(res) = n_consumed + (params.n_predict - n_remain) /\ n_consumed \in Int
    BY <1>9, LenProperties DEF Sample, TranscriptInv, Transcript, Terminal, TypeOK
  <2>2. n_remain' = n_remain - 1 /\ UNCHANGED <<res, n_consumed>>
    BY <1>9 DEF Sample
  <2>3. Len(res') = n_consumed' + (params.n_predict' - n_remain') - 1
    BY <2>1, <2>2, <1>0, <1>t
  <2> QED
    BY <2>3, <1>0 DEF EndHasCause
<1>10. CASE Check
  <2>1. res' = res \o embd /\ pc = "check"
        /\ pc' = IF StopPromptFound \/ Last(embd) = EOS THEN "end" ELSE "head"
    BY <1>10 DEF Check
  <2>2. StopPromptFound \/ Last(embd) = EOS => MustStop(res)'
    BY <2>1, <1>0, CheckSees DEF MustStop, StopPromptFound
  <2> QED
    BY <2>1, <2>2, <1>0 DEF EndHasCause
<1>11. CASE UNCHANGED vars
  <2>1. MustStop(res)' = MustStop(res)
    BY <1>11 DEF vars, MustStop
  <2> QED
    BY <1>11, <2>1, <1>0 DEF vars, EndHasCause
<1>12. CASE Returned
  <2>1. MustStop(res)' = MustStop(res)
    BY <1>12 DEF Returned, vars, MustStop
  <2> QED
    BY <1>12, <2>1, <1>0 DEF Returned, vars, EndHasCause
<1> QED
  BY <1>1, <1>2, <1>3, <1>4, <1>5, <1>6, <1>7, <1>8, <1>9, <1>10, <1>11, <1>12
  DEF Next, Step

\* A call without a budget ends only for EOS, a stop prompt or the callback's
\* refusal, if no stop prompt contains the token the window is filled with.
THEOREM UnboundedCallsEndWithCause == StopPromptsKnown /\ Spec => []EndHasCause
<1>1. Init => EndHasCause
  BY DEF Init, EndHasCause
<1>2. StopPromptsKnown /\ Init => Known
  BY InitStops
<1>3. Spec => [](TypeOK /\ Control)
  BY TypeCorrect
<1> QED
  BY <1>1, <1>2, <1>3, InitTranscript, NextTranscript, NextHasCause, PTL DEF Spec

----------------------------------------------------------------------------
(* What the model sees.                                                    *)

\* The tokens the context holds, followed by those that wait for evaluation.
Pending == IF pc \in {"head", "eval"} THEN Len(embd) - i ELSE 0
Seen    == n_past + Pending
View(p) == IF p <= n_past THEN cells[p - 1] ELSE embd[i + p - n_past]

Kept == AtLeast(1, params.n_keep)

\* They are the whole transcript, or the kept tokens of the prompt followed by
\* the end of the transcript.
SeesAll ==
  Seen = Len(res) /\ \A p \in 1 .. Seen : View(p) = res[p]

SeesRecent ==
  /\ Kept <= Seen /\ Seen - Kept <= Len(res)
  /\ \A p \in 1 .. Kept : View(p) = embd_inp[p]
  /\ \A p \in Kept + 1 .. Seen : View(p) = res[Len(res) - Seen + p]

SeenInv == CallFits /\ pc \notin Terminal => SeesAll \/ SeesRecent

\* The numbers and sequences involved.
LEMMA SeenTyped ==
  ASSUME TypeOK, Control
  PROVE  /\ n_past \in Nat /\ i \in Nat /\ Len(embd) \in Nat /\ Len(res) \in Nat
         /\ params.n_ctx \in Nat /\ params.n_keep \in Nat
         /\ params.n_batch \in Nat \ {0}
         /\ Kept \in Nat /\ 1 <= Kept /\ params.n_keep <= Kept
         /\ Kept <= Len(embd_inp) /\ Len(embd_inp) \in Nat
<1>1. /\ n_past \in Nat /\ i \in Nat /\ Len(embd) \in Nat /\ Len(res) \in Nat
      /\ params.n_ctx \in Nat /\ params.n_keep \in Nat
      /\ params.n_batch \in Nat \ {0}
      /\ Len(embd_inp) \in Nat \ {0} /\ params.n_keep <= Len(embd_inp)
  BY LenProperties, EmptySeq DEF TypeOK, Control
<1> QED
  BY <1>1 DEF Kept, AtLeast

\* A step that changes neither the tokens nor their number.
LEMMA SeenStays ==
  ASSUME TypeOK, Control, SeenInv, pc \notin Terminal, Seen' = Seen,
         \A p \in 1 .. Seen : View(p)' = View(p),
         UNCHANGED <<params, embd_inp, res>>
  PROVE  SeenInv'
<1>1. CallFits' = CallFits /\ Kept' = Kept
  BY DEF CallFits, RoomFor, Kept
<1>2. Kept \in Nat /\ Seen \in Int
  BY SeenTyped DEF Seen, Pending
<1>3. SeesAll => SeesAll'
  BY DEF SeesAll
<1>4. SeesRecent => SeesRecent'
  <2> SUFFICES ASSUME SeesRecent PROVE SeesRecent'
    OBVIOUS
  <2>1. Kept <= Seen /\ Seen - Kept <= Len(res)
        /\ (\A p \in 1 .. Kept : View(p) = embd_inp[p])
        /\ \A p \in Kept + 1 .. Seen : View(p) = res[Len(res) - Seen + p]
    BY DEF SeesRecent
  <2>2. \A p \in 1 .. Kept : View(p)' = embd_inp[p]
    BY <1>2, <2>1
  <2>3. \A p \in Kept + 1 .. Seen : View(p)' = res[Len(res) - Seen + p]
    <3> TAKE p \in Kept + 1 .. Seen
    <3>1. p \in 1 .. Seen
      BY <1>2
    <3> QED
      BY <2>1, <3>1
  <2> QED
    BY <1>1, <2>1, <2>2, <2>3 DEF SeesRecent
<1> QED
  BY <1>1, <1>3, <1>4 DEF SeenInv

\* A batch moves tokens from embd to the cells behind n_past.
LEMMA SeenEvaluated ==
  ASSUME FitInv, SeenInv, CallFits, EvalBatch
  PROVE  SeenInv'
<1>0. TypeOK /\ Control
  BY DEF FitInv
<1>1. /\ n_past \in Nat /\ i \in Nat /\ Len(embd) \in Nat /\ params.n_ctx \in Nat
      /\ params.n_batch \in Nat \ {0}
  BY <1>0, SeenTyped
<1>2. pc = "eval" /\ i < Len(embd) /\ n_past + (Len(embd) - i) <= params.n_ctx
  BY DEF EvalBatch, FitInv, Control, WindowFits
<1>3. Seen = n_past + (Len(embd) - i) /\ pc \notin Terminal
  BY <1>2 DEF Seen, Pending, Terminal
<1>4. /\ cells' = Written(NEval) /\ n_past' = n_past + NEval
      /\ UNCHANGED <<params, embd_inp, res>>
  BY DEF EvalBatch
<1>5. \A q \in 0 .. params.n_ctx - 1 :
        cells'[q] = IF q \in n_past .. n_past + NEval - 1 THEN embd[i + q - n_past + 1]
                                                         ELSE cells[q]
  BY <1>0, <1>4 DEF Written, TypeOK
<1>6. ASSUME NEW p \in 1 .. Seen
      PROVE  /\ p \in Nat /\ 1 <= p /\ p <= n_past + (Len(embd) - i)
             /\ p - 1 \in 0 .. params.n_ctx - 1
             /\ i + (p - 1) - n_past + 1 = i + p - n_past
  BY <1>1, <1>2, <1>3
<1>7. CASE i + params.n_batch < Len(embd)
  <2>1. NEval = params.n_batch /\ i' = i + params.n_batch /\ UNCHANGED <<pc, embd>>
    BY <1>1, <1>7 DEF EvalBatch, NEval, AtMost
  <2>2. Seen' = Seen
    BY <1>1, <1>2, <1>3, <1>4, <2>1 DEF Seen, Pending
  <2>3. ASSUME NEW p \in 1 .. Seen PROVE View(p)' = View(p)
    <3>1. CASE p <= n_past + NEval
      <4>1. View(p)' = cells'[p - 1]
        BY <1>4, <3>1 DEF View
      <4>2. p - 1 \in n_past .. n_past + NEval - 1 <=> ~(p <= n_past)
        <5>1. n_past \in Nat /\ NEval \in Nat /\ p \in Nat
          BY <1>1, <1>6, <2>1
        <5> HIDE DEF NEval
        <5> QED
          BY <3>1, <5>1
      <4> QED
        BY <1>5, <1>6, <4>1, <4>2 DEF View
    <3>2. CASE ~(p <= n_past + NEval)
      <4>1. View(p)' = embd[i' + p - n_past']
        BY <1>4, <2>1, <3>2 DEF View
      <4>2. i' + p - n_past' = i + p - n_past /\ ~(p <= n_past)
        <5>1. n_past' = n_past + params.n_batch /\ i' = i + params.n_batch
          BY <1>4, <2>1
        <5>2. ~(p <= n_past + params.n_batch)
          BY <2>1, <3>2
        <5>3. /\ n_past \in Nat /\ i \in Nat /\ p \in Nat
              /\ params.n_batch \in Nat
          BY <1>1, <1>6
        <5>4. i + params.n_batch + p - (n_past + params.n_batch) = i + p - n_past
          BY <5>3
        <5>5. ~(p <= n_past)
          BY <5>2, <5>3
        <5> QED
          BY <5>1, <5>4, <5>5
      <4> QED
        BY <4>1, <4>2 DEF View
    <3> QED
      BY <3>1, <3>2
  <2> QED
    BY <1>0, <1>3, <1>4, <2>2, <2>3, SeenStays
<1>8. CASE ~(i + params.n_batch < Len(embd))
  <2>1. NEval = Len(embd) - i /\ pc' = "choose"
    BY <1>1, <1>2, <1>8 DEF EvalBatch, NEval, AtMost
  <2>2. Seen' = Seen
    BY <1>1, <1>3, <1>4, <2>1 DEF Seen, Pending
  <2>3. ASSUME NEW p \in 1 .. Seen PROVE View(p)' = View(p)
    <3>1. p <= n_past + NEval
      BY <1>6, <2>1
    <3>2. View(p)' = cells'[p - 1]
      BY <1>4, <3>1 DEF View
    <3>3. p - 1 \in n_past .. n_past + NEval - 1 <=> ~(p <= n_past)
      BY <1>1, <1>6, <2>1, <3>1
    <3> QED
      BY <1>5, <1>6, <3>2, <3>3 DEF View
  <2> QED
    BY <1>0, <1>3, <1>4, <2>2, <2>3, SeenStays
<1> QED
  BY <1>7, <1>8

\* The answer grows by what waits for evaluation.
LEMMA SeenChecked ==
  ASSUME TypeOK, Control, SeenInv, CallFits, Check
  PROVE  SeenInv'
<1>1. /\ n_past \in Nat /\ Len(embd) \in Nat /\ Len(res) \in Nat
      /\ Kept \in Nat /\ 1 <= Kept
  BY SeenTyped
<1>2. /\ pc = "check" /\ res' = res \o embd /\ i = 0
      /\ UNCHANGED <<params, embd_inp, i, n_past, embd, cells>>
  BY DEF Check, Control, Terminal
<1>3. Kept' = Kept /\ Seen = n_past
  BY <1>1, <1>2 DEF Kept, Seen, Pending
<1> SUFFICES ASSUME pc' = "head" PROVE SeesAll' \/ SeesRecent'
  BY DEF Check, SeenInv, Terminal
<1>4. Seen' = n_past + Len(embd)
  BY <1>1, <1>2 DEF Seen, Pending
<1>5. /\ Len(res') = Len(res) + Len(embd)
      /\ \A k \in 1 .. Len(res) + Len(embd) :
           res'[k] = IF k <= Len(res) THEN res[k] ELSE embd[k - Len(res)]
  BY <1>2, ConcatProperties DEF TypeOK, Control
<1>6. \A p \in 1 .. n_past : View(p) = cells[p - 1] /\ View(p)' = cells[p - 1]
  BY <1>1, <1>2 DEF View
<1>7. \A p \in n_past + 1 .. n_past + Len(embd) : View(p)' = embd[p - n_past]
  <2> TAKE p \in n_past + 1 .. n_past + Len(embd)
  <2>1. ~(p <= n_past) /\ 0 + p - n_past = p - n_past
    BY <1>1
  <2> QED
    BY <1>2, <2>1 DEF View
<1>8. CASE SeesAll
  <2>1. n_past = Len(res) /\ \A p \in 1 .. n_past : View(p) = res[p]
    BY <1>3, <1>8 DEF SeesAll
  <2>2. ASSUME NEW p \in 1 .. n_past + Len(embd) PROVE View(p)' = res'[p]
    <3>1. CASE p <= n_past
      BY <1>1, <1>5, <1>6, <2>1, <3>1
    <3>2. CASE ~(p <= n_past)
      BY <1>1, <1>5, <1>7, <2>1, <3>2
    <3> QED
      BY <3>1, <3>2
  <2>3. SeesAll'
    BY <1>4, <1>5, <2>1, <2>2 DEF SeesAll
  <2> QED
    BY <2>3
<1>9. CASE SeesRecent
  <2>1. /\ Kept <= n_past /\ n_past - Kept <= Len(res)
        /\ \A p \in 1 .. Kept : View(p) = embd_inp[p]
        /\ \A p \in Kept + 1 .. n_past : View(p) = res[Len(res) - n_past + p]
    BY <1>3, <1>9 DEF SeesRecent
  <2>2. \A p \in 1 .. Kept : View(p)' = embd_inp[p]
    <3>1. \A p \in 1 .. Kept : p \in 1 .. n_past
      BY <1>1, <2>1
    <3> QED
      BY <1>6, <2>1, <3>1
  <2>3. Len(res') - Seen' = Len(res) - n_past
    BY <1>1, <1>4, <1>5
  <2>4. ASSUME NEW p \in Kept + 1 .. n_past + Len(embd)
        PROVE  View(p)' = res'[Len(res) - n_past + p]
    <3>1. CASE p <= n_past
      <4>1. Len(res) - n_past + p \in 1 .. Len(res) + Len(embd)
            /\ Len(res) - n_past + p <= Len(res) /\ p \in 1 .. n_past
            /\ p \in Kept + 1 .. n_past
        BY <1>1, <2>1, <3>1
      <4> QED
        BY <1>5, <1>6, <2>1, <4>1
    <3>2. CASE ~(p <= n_past)
      <4>1. Len(res) - n_past + p \in 1 .. Len(res) + Len(embd)
            /\ ~(Len(res) - n_past + p <= Len(res))
            /\ Len(res) - n_past + p - Len(res) = p - n_past
            /\ p \in n_past + 1 .. n_past + Len(embd)
        BY <1>1, <2>1, <3>2
      <4> DEFINE k == Len(res) - n_past + p
      <4>2. res'[k] = embd[k - Len(res)]
        <5> HIDE DEF k
        <5>1. k \in 1 .. Len(res) + Len(embd) /\ ~(k <= Len(res))
          BY <4>1 DEF k
        <5> QED
          BY <1>5, <5>1
      <4>3. View(p)' = embd[p - n_past]
        BY <1>7, <4>1
      <4>4. k - Len(res) = p - n_past
        BY <1>1, <4>1
      <4> HIDE DEF k
      <4>5. View(p)' = res'[k]
        BY <4>2, <4>3, <4>4
      <4> QED
        BY <4>5 DEF k
    <3> QED
      BY <3>1, <3>2
  <2>5. Kept <= Seen' /\ Seen' - Kept <= Len(res')
    BY <1>1, <1>4, <1>5, <2>1
  <2>6. SeesRecent'
    BY <1>2, <1>3, <1>4, <2>2, <2>3, <2>4, <2>5 DEF SeesRecent
  <2> QED
    BY <2>6
<1> QED
  BY <1>2, <1>8, <1>9 DEF SeenInv, Terminal

\* The newest tokens of a window.
LEMMA ShiftTail ==
  ASSUME NEW T, NEW w \in Seq(T), NEW s \in Seq(T), NEW j \in 1 .. Len(w)
  PROVE  j > Len(w) - Len(s) => Shift(w, s)[j] = s[j - (Len(w) - Len(s))]
<1>1. /\ Len(w) \in Nat /\ Len(s) \in Nat
      /\ w \in [1 .. Len(w) -> T]
  BY LenProperties
<1>2. Shift(w, s)[j] = Shifted(w, s, Len(w), j)
  BY <1>1, ShiftEach, Zenon
<1> QED
  BY <1>1, <1>2 DEF Shifted

LEMMA WindowTail ==
  ASSUME params.n_ctx \in Nat, Blank \in [1 .. params.n_ctx -> Tokens],
         res \in Seq(Tokens), NEW j \in 1 .. params.n_ctx
  PROVE  j > params.n_ctx - Len(res) =>
           Shift(Blank, res)[j] = res[j - (params.n_ctx - Len(res))]
<1>1. Blank \in Seq(Tokens)
  BY SeqDef
<1>2. Len(Blank) = params.n_ctx
  BY <1>1, LenProperties
<1> QED
  BY <1>1, <1>2, ShiftTail

\* A swap keeps the first tokens and puts the end of the transcript behind
\* them: what it takes out of last_n_tokens ends where embd begins.
LEMMA SeenSwapped ==
  ASSUME FitInv, TranscriptInv, PendingInv, SeenInv, CallFits, SwapContext
  PROVE  SeenInv'
<1> DEFINE half == Half(n_past - params.n_keep)
           back == Recalled(n_past - params.n_keep)
           len  == Len(embd)
           kept == Kept
<1>0. TypeOK /\ Control /\ OutOfContext /\ pc = "head" /\ i = 0
  BY DEF FitInv, SwapContext, OutOfContext, Control, Terminal
<1>1. /\ n_past \in Nat /\ len \in Nat /\ Len(res) \in Nat /\ params.n_ctx \in Nat
      /\ params.n_keep \in Nat
      /\ kept \in Nat /\ 1 <= kept /\ params.n_keep <= kept /\ kept <= Len(embd_inp)
      /\ Len(embd_inp) \in Nat
      /\ kept = AtLeast(1, params.n_keep)
  BY <1>0, SeenTyped DEF Kept
<1>2. /\ n_past - params.n_keep \in Nat /\ half \in Nat
      /\ kept + half + len <= params.n_ctx
  BY <1>0, SwapRoom DEF FitInv, Kept
<1>3. 2 * half <= n_past - params.n_keep
  BY <1>2, HalfOfNat
<1>4. n_past + len > params.n_ctx
  BY DEF SwapContext, OutOfContext
<1>5. /\ back \in Seq(Tokens \cup {Junk}) /\ Len(back) = half
  BY <1>0, <1>2, RecalledType
<1>6. /\ embd' = back \o embd /\ n_past' = kept /\ pc' = "eval" /\ i' = 0
      /\ UNCHANGED <<params, embd_inp, res, cells>>
  BY <1>0, <1>1 DEF SwapContext
<1> HIDE DEF half, back, len, kept
<1>7. /\ Len(embd') = half + len
      /\ \A k \in 1 .. half + len :
           embd'[k] = IF k <= half THEN back[k] ELSE embd[k - half]
  <2>1. embd \in Seq(Tokens \cup {Junk})
    BY <1>0 DEF TypeOK
  <2> QED
    BY <1>5, <1>6, <2>1, ConcatProperties DEF len
<1>t. /\ kept \in Nat /\ half \in Nat /\ len \in Nat /\ n_past \in Nat
      /\ Len(res) \in Nat /\ params.n_ctx \in Nat
  BY <1>1, <1>2
<1>8. kept < n_past /\ half <= n_past - kept
  <2>1. kept < n_past
    BY <1>1, <1>2, <1>4
  <2>2. CASE params.n_keep = 0
    <3>1. kept = 1
      BY <1>1, <2>2 DEF AtLeast
    <3> QED
      BY <1>1, <1>2, <1>3, <2>1, <2>2, <3>1
  <2>3. CASE params.n_keep # 0
    <3>1. kept = params.n_keep
      BY <1>1, <2>3 DEF AtLeast
    <3> QED
      BY <1>1, <1>2, <1>3, <2>1, <3>1
  <2> QED
    BY <2>2, <2>3
<1>9. Seen = n_past + len
  BY <1>0, <1>1 DEF Seen, Pending, len
<1>10. SeesAll \/ SeesRecent
  BY <1>0 DEF SeenInv, Terminal
<1>11. half + len <= Len(res)
  <2>1. CASE SeesAll
    BY <1>1, <1>2, <1>8, <1>9, <2>1 DEF SeesAll
  <2>2. CASE SeesRecent
    <3>0. Seen - kept <= Len(res)
      BY <2>2 DEF SeesRecent, kept
    <3>1. n_past + len - kept <= Len(res)
      BY <1>9, <1>t, <3>0
    <3> QED
      BY <1>1, <1>2, <1>8, <3>1
  <2> QED
    BY <1>10, <2>1, <2>2
<1>12. \A p \in 1 .. kept : cells[p - 1] = embd_inp[p]
  <2> TAKE p \in 1 .. kept
  <2>1. p \in 1 .. n_past /\ p \in 1 .. Seen /\ p <= Len(embd_inp)
    BY <1>1, <1>8, <1>9
  <2>2. View(p) = cells[p - 1]
    BY <2>1 DEF View
  <2>3. CASE SeesAll
    <3>1. View(p) = res[p] /\ p \in 1 .. Len(res)
      BY <2>1, <2>3 DEF SeesAll
    <3>2. res[p] = embd_inp[p]
      BY <1>0, <2>1, <3>1 DEF TranscriptInv, Transcript, Terminal
    <3> QED
      BY <2>2, <3>1, <3>2
  <2>4. CASE SeesRecent
    BY <2>2, <2>4 DEF SeesRecent, kept
  <2> QED
    BY <1>10, <2>3, <2>4
<1>13. ASSUME NEW k \in 1 .. half
       PROVE  back[k] = res[Len(res) - half - len + k]
  <2> DEFINE j == params.n_ctx - half - len + k
  <2>1. /\ j \in 1 .. params.n_ctx /\ j > params.n_ctx - Len(res) /\ j >= 1
        /\ j - (params.n_ctx - Len(res)) = Len(res) - half - len + k
    <3>1. params.n_ctx - half - len >= 0
      BY <1>1, <1>2, <1>t
    <3>2. k \in Nat /\ 1 <= k /\ k <= half /\ j \in Int
      BY <1>t
    <3>3. j >= 1 /\ j <= params.n_ctx
      BY <1>t, <3>1, <3>2
    <3>4. j > params.n_ctx - Len(res)
      BY <1>t, <1>11, <3>2
    <3>5. j - (params.n_ctx - Len(res)) = Len(res) - half - len + k
      BY <1>t, <3>2
    <3> HIDE DEF j
    <3> QED
      BY <1>t, <3>2, <3>3, <3>4, <3>5
  <2>2. back[k] = last_n_tokens[j]
    BY <2>1 DEF back, half, len, Recalled
  <2>3. last_n_tokens = Shift(Blank, res)
    BY <1>0 DEF TranscriptInv, Transcript, Terminal
  <2>4. /\ params.n_ctx \in Nat /\ Blank \in [1 .. params.n_ctx -> Tokens]
        /\ res \in Seq(Tokens)
    BY <1>0, TranscriptTyped DEF TypeOK
  <2> HIDE DEF j
  <2>5. Shift(Blank, res)[j] = res[j - (params.n_ctx - Len(res))]
    BY <2>1, <2>4, WindowTail
  <2> QED
    BY <2>1, <2>2, <2>3, <2>5
<1>14. \A k \in 1 .. len : embd[k] = res[Len(res) - len + k]
  BY <1>0 DEF PendingInv, len
<1>15. Kept' = kept /\ Seen' = kept + half + len /\ CallFits' = CallFits
  <2>1. Seen' = kept + (half + len)
    <3>1. Pending' = Len(embd') - i'
      BY <1>6 DEF Pending
    <3>2. Pending' = half + len
      BY <1>6, <1>7, <1>t, <3>1
    <3> QED
      BY <1>6, <3>2 DEF Seen
  <2>2. Kept' = kept /\ CallFits' = CallFits
    BY <1>6 DEF Kept, kept, CallFits, RoomFor
  <2> QED
    BY <1>t, <2>1, <2>2
<1>16. \A p \in 1 .. kept : View(p)' = embd_inp'[p]
  <2> TAKE p \in 1 .. kept
  <2>1. View(p)' = cells[p - 1]
    BY <1>6 DEF View
  <2> QED
    BY <1>6, <1>12, <2>1
<1>17. ASSUME NEW p \in kept + 1 .. kept + half + len
       PROVE  View(p)' = res[Len(res) - (kept + half + len) + p]
  <2> DEFINE q == p - kept
  <2>1. q \in 1 .. half + len /\ ~(p <= kept) /\ 0 + p - kept = q
    BY <1>t
  <2>2. View(p)' = embd'[q]
    BY <1>6, <2>1 DEF View
  <2>3. embd'[q] = IF q <= half THEN back[q] ELSE embd[q - half]
    BY <1>7, <2>1
  <2>4. Len(res) - (kept + half + len) + p = Len(res) - half - len + q
    BY <1>t
  <2> HIDE DEF q
  <2>5. CASE q <= half
    <3>1. q \in 1 .. half
      BY <1>2, <2>1, <2>5
    <3> QED
      BY <1>13, <2>2, <2>3, <2>4, <2>5, <3>1
  <2>6. CASE ~(q <= half)
    <3>1. q - half \in 1 .. len
          /\ Len(res) - len + (q - half) = Len(res) - half - len + q
      BY <1>1, <1>2, <2>1, <2>6
    <3> QED
      BY <1>14, <2>2, <2>3, <2>4, <2>6, <3>1
  <2> QED
    BY <2>5, <2>6
<1>18. SeesRecent'
  <2>1. Kept' <= Seen' /\ Seen' - Kept' <= Len(res')
    <3>1. kept <= kept + half + len /\ kept + half + len - kept = half + len
      BY <1>t
    <3> QED
      BY <1>6, <1>11, <1>15, <1>t, <3>1
  <2>2. \A p \in Kept' + 1 .. Seen' : View(p)' = res'[Len(res') - Seen' + p]
    BY <1>6, <1>15, <1>17
  <2> QED
    BY <1>15, <1>16, <2>1, <2>2 DEF SeesRecent
<1> QED
  BY <1>18 DEF SeenInv

LEMMA NextSeen ==
  FitInv /\ TranscriptInv /\ PendingInv /\ SeenInv /\ [Next]_vars => SeenInv'
<1> SUFFICES ASSUME FitInv, TranscriptInv, PendingInv, SeenInv, [Next]_vars,
                    CallFits'
             PROVE  SeenInv'
  BY DEF SeenInv
<1>0. TypeOK /\ Control /\ CallFits
  BY ParamsStay DEF FitInv, CallFits, RoomFor
<1>t. n_past \in Nat /\ i \in Nat /\ Len(embd) \in Nat
  BY <1>0, SeenTyped
<1>1. CASE LoopExit
  BY <1>1 DEF LoopExit, SeenInv, Terminal
<1>2. CASE SkipEval
  <2>1. Pending = 0 /\ Pending' = 0 /\ pc = "head" /\ UNCHANGED <<n_past, embd, i, cells>>
    <3>1. Len(<<>>) = 0
      BY EmptySeq
    <3> QED
      BY <1>2, <1>0, <3>1 DEF SkipEval, Pending, Control, Terminal
  <2>2. Seen' = Seen /\ \A p \in 1 .. Seen : View(p)' = View(p)
    BY <2>1 DEF Seen, View
  <2> QED
    BY <1>2, <1>0, <2>1, <2>2, SeenStays DEF SkipEval, Terminal
<1>3. CASE BeginEval
  <2>1. Pending' = Pending /\ pc = "head" /\ UNCHANGED <<n_past, embd, i, cells>>
    BY <1>3 DEF BeginEval, Pending
  <2>2. Seen' = Seen /\ \A p \in 1 .. Seen : View(p)' = View(p)
    BY <2>1 DEF Seen, View
  <2> QED
    BY <1>3, <1>0, <2>1, <2>2, SeenStays DEF BeginEval, Terminal
<1>4. CASE SwapContext
  BY <1>4, <1>0, SeenSwapped
<1>5. CASE SwapThrows
  BY <1>5 DEF SwapThrows, SeenInv, Terminal
<1>6. CASE EvalBatch
  BY <1>6, <1>0, SeenEvaluated
<1>7. CASE EvalFails
  BY <1>7 DEF EvalFails, SeenInv, Terminal
<1>8. ASSUME pc = "choose", pc' \in {"check", "end"},
             UNCHANGED <<params, embd_inp, n_past, cells, res>>
      PROVE  SeenInv'
  <2>1. Seen = n_past /\ Seen' = n_past
    BY <1>8, <1>t DEF Seen, Pending
  <2>2. \A p \in 1 .. Seen : View(p)' = View(p)
    BY <1>8, <1>t, <2>1 DEF View
  <2> QED
    BY <1>8, <1>0, <2>1, <2>2, SeenStays DEF Terminal
<1>9. CASE Feed
  BY <1>9, <1>8 DEF Feed
<1>10. ASSUME NEW id \in Tokens, NEW goes_on \in BOOLEAN, Sample(id, goes_on)
       PROVE  SeenInv'
  BY <1>10, <1>8 DEF Sample
<1>11. CASE Check
  BY <1>11, <1>0, SeenChecked
<1>12. CASE UNCHANGED vars
  <2>1. CASE pc \in Terminal
    BY <1>12, <2>1 DEF vars, SeenInv
  <2>2. CASE pc \notin Terminal
    <3>1. Seen' = Seen /\ \A p \in 1 .. Seen : View(p)' = View(p)
      BY <1>12 DEF vars, Seen, Pending, View
    <3> QED
      BY <1>12, <1>0, <2>2, <3>1, SeenStays DEF vars
  <2> QED
    BY <2>1, <2>2
<1> QED
  BY <1>1, <1>2, <1>3, <1>4, <1>5, <1>6, <1>7, <1>9, <1>10, <1>11, <1>12
  DEF Next, Step, Returned

LEMMA InitSeen == Init => SeenInv
<1> SUFFICES ASSUME Init PROVE SeesAll
  BY DEF SeenInv
<1>1. Len(<<>>) = 0
  BY EmptySeq
<1>2. Seen = 0 /\ Len(res) = 0
  BY <1>1 DEF Init, Seen, Pending
<1> QED
  BY <1>2 DEF SeesAll

\* IsPrefix and SubSeq of the community modules, element by element.
LEMMA PrefixElements ==
  ASSUME NEW T, NEW s \in Seq(T), NEW t \in Seq(T), NEW n \in Nat,
         n <= Len(s), n <= Len(t), \A k \in 1 .. n : s[k] = t[k]
  PROVE  IsPrefix(SubSeq(s, 1, n), t)
<1>1. Len(s) \in Nat /\ Len(t) \in Nat
  BY LenProperties
<1> DEFINE l == SubSeq(s, 1, n)
           r == SubSeq(t, 1, n)
<1>2. l \in Seq(T) /\ Len(l) = n /\ \A k \in 1 .. n : l[k] = s[k]
  <2>1. \A k \in 1 .. n : s[k] \in T
    BY <1>1, ElementOfSeq
  <2>2. l \in Seq(T) /\ Len(l) = (IF 1 <= n THEN n - 1 + 1 ELSE 0)
        /\ \A k \in 1 .. n - 1 + 1 : l[k] = s[1 + k - 1]
    BY <2>1, SubSeqProperties
  <2> QED
    BY <2>2
<1>3. r \in Seq(T) /\ Len(r) = n /\ \A k \in 1 .. n : r[k] = t[k]
  <2>1. \A k \in 1 .. n : t[k] \in T
    BY <1>1, ElementOfSeq
  <2>2. r \in Seq(T) /\ Len(r) = (IF 1 <= n THEN n - 1 + 1 ELSE 0)
        /\ \A k \in 1 .. n - 1 + 1 : r[k] = t[1 + k - 1]
    BY <2>1, SubSeqProperties
  <2> QED
    BY <2>2
<1> HIDE DEF l, r
<1>4. l = r
  BY <1>2, <1>3, SeqEqual
<1>5. SubSeq(l, 1, Len(l)) = l
  BY <1>2, SubSeqFull
<1> QED
  BY <1>2, <1>4, <1>5 DEF IsPrefix, l, r

\* In a call that fits, when the next tokens are chosen, the model has seen the
\* whole transcript, or the kept part of the prompt and the end of the
\* transcript without a gap, however often the context was swapped.
THEOREM ModelSeesTranscript == Spec => []WindowIsKeptPrefixThenRecent
<1>1. FitInv /\ SeenInv => WindowIsKeptPrefixThenRecent
  <2> SUFFICES ASSUME FitInv, SeenInv, CallFits, pc = "choose"
               PROVE  LET window == [p \in 1 .. n_past |-> cells[p - 1]]
                          kept   == AtLeast(1, params.n_keep)
                      IN  \/ window = res
                          \/ /\ kept <= n_past
                             /\ IsPrefix(SubSeq(embd_inp, 1, kept), window)
                             /\ IsSuffix(SubSeq(window, kept + 1, n_past), res)
    BY DEF WindowIsKeptPrefixThenRecent
  <2> DEFINE window == [p \in 1 .. n_past |-> cells[p - 1]]
             kept   == AtLeast(1, params.n_keep)
             T      == Tokens \cup {Junk}
  <2>0. TypeOK /\ Control /\ n_past <= params.n_ctx
    BY DEF FitInv, WindowFits
  <2>1. /\ n_past \in Nat /\ Len(res) \in Nat /\ params.n_ctx \in Nat
        /\ kept \in Nat /\ kept = Kept /\ kept <= Len(embd_inp) /\ 1 <= kept
    BY <2>0, SeenTyped DEF Kept
  <2>2. window \in Seq(T) /\ Len(window) = n_past
    <3>1. window \in [1 .. n_past -> T]
      <4> SUFFICES ASSUME NEW p \in 1 .. n_past PROVE cells[p - 1] \in T
        OBVIOUS
      <4>1. p - 1 \in 0 .. params.n_ctx - 1
        BY <2>0, <2>1
      <4> QED
        BY <2>0, <4>1 DEF TypeOK
    <3> HIDE DEF window, T
    <3>2. window \in Seq(T)
      BY <2>1, <3>1, SeqDef
    <3> QED
      BY <2>1, <3>1, <3>2, LenProperties
  <2>3. res \in Seq(T) /\ embd_inp \in Seq(T)
    <3>1. Tokens \subseteq T /\ res \in Seq(Tokens) /\ embd_inp \in Seq(Tokens)
      BY <2>0 DEF TypeOK
    <3> HIDE DEF T
    <3> QED
      BY <3>1, SeqMonotonic
  <2>4. Seen = n_past /\ \A p \in 1 .. n_past : View(p) = window[p]
    BY <2>1 DEF Seen, Pending, View
  <2>5. SeesAll \/ SeesRecent
    BY DEF SeenInv, Terminal
  <2> HIDE DEF window, T, kept
  <2>6. CASE SeesAll
    <3>1. n_past = Len(res) /\ \A p \in 1 .. n_past : window[p] = res[p]
      BY <2>4, <2>6 DEF SeesAll
    <3>2. window = res
      BY <2>2, <2>3, <3>1, SeqEqual
    <3> QED
      BY <3>2 DEF window
  <2>7. CASE SeesRecent
    <3>1. /\ kept <= n_past /\ n_past - kept <= Len(res)
          /\ \A p \in 1 .. kept : View(p) = embd_inp[p]
          /\ \A p \in kept + 1 .. n_past : View(p) = res[Len(res) - n_past + p]
      BY <2>1, <2>4, <2>7 DEF SeesRecent
    <3>2. \A p \in 1 .. kept : embd_inp[p] = window[p]
      BY <2>1, <2>4, <3>1
    <3>3. IsPrefix(SubSeq(embd_inp, 1, kept), window)
      BY <2>1, <2>2, <2>3, <3>1, <3>2, PrefixElements
    <3> DEFINE recent == SubSeq(window, kept + 1, n_past)
    <3>4. /\ recent \in Seq(T) /\ Len(recent) = n_past - kept
          /\ \A k \in 1 .. n_past - kept : recent[k] = window[kept + k]
      <4>1. \A p \in kept + 1 .. n_past : window[p] \in T
        BY <2>1, <2>2, ElementOfSeq
      <4>2. /\ recent \in Seq(T)
            /\ Len(recent) = IF kept + 1 <= n_past THEN n_past - (kept + 1) + 1 ELSE 0
            /\ \A k \in 1 .. n_past - (kept + 1) + 1 : recent[k] = window[kept + 1 + k - 1]
        <5> DEFINE m == kept + 1
        <5>1. m \in Int /\ n_past \in Int /\ \A p \in m .. n_past : window[p] \in T
          BY <2>1, <4>1
        <5> HIDE DEF m
        <5>2. /\ SubSeq(window, m, n_past) \in Seq(T)
              /\ Len(SubSeq(window, m, n_past)) = IF m <= n_past THEN n_past - m + 1 ELSE 0
              /\ \A k \in 1 .. n_past - m + 1 :
                   SubSeq(window, m, n_past)[k] = window[m + k - 1]
          BY <5>1, SubSeqProperties
        <5> QED
          BY <5>2 DEF m
      <4> HIDE DEF recent
      <4>3. Len(recent) = n_past - kept
        BY <2>1, <3>1, <4>2
      <4>4. ASSUME NEW k \in 1 .. n_past - kept PROVE recent[k] = window[kept + k]
        <5>1. k \in 1 .. n_past - (kept + 1) + 1 /\ kept + 1 + k - 1 = kept + k
          BY <2>1
        <5> QED
          BY <4>2, <5>1
      <4> QED
        BY <4>2, <4>3, <4>4
    <3> HIDE DEF recent
    <3>5. ASSUME NEW k \in 1 .. n_past - kept
          PROVE  recent[k] = res[Len(res) - (n_past - kept) + k]
      <4>1. /\ kept + k \in kept + 1 .. n_past /\ kept + k \in 1 .. n_past
            /\ Len(res) - n_past + (kept + k) = Len(res) - (n_past - kept) + k
        BY <2>1, <3>1
      <4>2. View(kept + k) = window[kept + k]
            /\ View(kept + k) = res[Len(res) - n_past + (kept + k)]
        BY <2>4, <3>1, <4>1
      <4> QED
        BY <3>4, <4>1, <4>2
    <3>6. IsSuffix(recent, res)
      BY <2>1, <2>3, <3>1, <3>4, <3>5, SuffixElements
    <3> QED
      BY <3>1, <3>3, <3>6 DEF recent, window, kept
  <2> QED
    BY <2>5, <2>6, <2>7
<1>2. FitInv => TypeOK /\ Control
  BY DEF FitInv
<1>3. Spec => []FitInv
  BY InitFits, NextFits, PTL DEF Spec
<1> QED
  BY <1>1, <1>2, <1>3, InitTranscript, NextTranscript, InitSeen, NextSeen, PTL DEF Spec

=============================================================================
