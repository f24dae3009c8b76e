---------------------------- MODULE PredictProofs ----------------------------
(***************************************************************************)
(* Theorems about Predict, Options and Text, for every set of calls: the   *)
(* options a program sets arrive at inference, by both paths, all but one, *)
(* the number of threads the server takes suits the machine, a call that   *)
(* returns leaks nothing, and an output that fits into the buffer comes    *)
(* back, and reaches the page, without loss.                               *)
(***************************************************************************)
EXTENDS Predict, SequenceTheorems, WellFoundedInduction, TLAPS

Origins == {"default", "program", "caller", "nobody"}

\* What predict(text, setters) makes of options.
WithBias(o) == [Copied(o) EXCEPT !["logit_bias"] = "caller"]

\* Which options a call uses, and what is made of them.
OptionsInv ==
  /\ pc = "allocate" => options = Constructed(call.program)
  /\ pc \in Converted \cup {"convert"} =>
       options = IF call.bias = "none" THEN Constructed(call.program)
                 ELSE WithBias(Constructed(call.program))
  /\ pc \in Converted => gpt = Gpt(Primitive(options))

\* What is on the heap.
HeapInv ==
  /\ "buffer" \in heap => call.tokens > 0
  /\ pc \in {"cut", "returned"} => heap = {}

----------------------------------------------------------------------------
(* The conversions.                                                        *)

GptFields == DOMAIN GptSource \cup DOMAIN RenamedSource

\* The fields of LLAMA_PARAMS, and what each is made from.
LEMMA FieldsKnown ==
  /\ DOMAIN FieldSource =
       {"ignore_eos", "memory_f16", "penalize_nl", "frequency_penalty",
        "mirostat_eta", "mirostat_tau", "presence_penalty", "repeat_penalty",
        "temp", "tfs_z", "top_p", "typical_p", "mirostat", "n_batch", "n_keep",
        "n_ctx", "repeat_last_n", "seed", "threads", "tokens", "top_k", "logit_bias"}
  /\ \A f \in DOMAIN FieldSource : FieldSource[f] \in Members
BY DEF FieldSource, Members, Initialised, Uninitialised

\* ... and those of gpt_params.
LEMMA GptFieldsKnown ==
  GptFields =
    {"memory_f16", "penalize_nl", "frequency_penalty", "mirostat_eta",
     "mirostat_tau", "presence_penalty", "repeat_penalty", "temp", "tfs_z",
     "top_p", "typical_p", "mirostat", "n_batch", "n_keep", "n_ctx",
     "repeat_last_n", "seed", "top_k", "n_threads", "n_predict", "logit_bias"}
<1>1. DOMAIN RenamedSource = {"n_threads", "n_predict", "logit_bias"}
  BY DEF RenamedSource
<1>2. DOMAIN GptSource =
        DOMAIN FieldSource \ {"ignore_eos", "threads", "tokens", "logit_bias"}
  BY DEF GptSource
<1> QED
  BY <1>1, <1>2, FieldsKnown DEF GptFields

\* The member a field of gpt_params comes from.
Origin(g) ==
  FieldSource[IF g = "n_threads" THEN "threads"
              ELSE IF g = "n_predict" THEN "tokens" ELSE g]

LEMMA GptByField ==
  ASSUME NEW o
  PROVE  /\ DOMAIN Gpt(Primitive(o)) = GptFields
         /\ \A g \in GptFields :
              /\ Origin(g) \in Members
              /\ Gpt(Primitive(o))[g] = <<Origin(g), o[Origin(g)]>>
<1>1. DOMAIN Gpt(Primitive(o)) = GptFields
  BY DEF Gpt, GptFields
<1>2. \A f \in DOMAIN FieldSource :
        Primitive(o)[f] = <<FieldSource[f], o[FieldSource[f]]>>
  BY DEF Primitive
<1>3. SUFFICES ASSUME NEW g \in GptFields
               PROVE  /\ Origin(g) \in Members
                      /\ Gpt(Primitive(o))[g] = <<Origin(g), o[Origin(g)]>>
  BY <1>1
<1>4. DOMAIN RenamedSource = {"n_threads", "n_predict", "logit_bias"}
  BY DEF RenamedSource
<1>5. CASE g \in DOMAIN RenamedSource /\ g # "logit_bias"
  <2>1. RenamedSource[g] \in DOMAIN FieldSource
    BY <1>4, <1>5, FieldsKnown DEF RenamedSource
  <2>2. Origin(g) = FieldSource[RenamedSource[g]]
    BY <1>4, <1>5 DEF Origin, RenamedSource
  <2>3. Gpt(Primitive(o))[g] = Primitive(o)[RenamedSource[g]]
    BY <1>5 DEF Gpt, GptFields
  <2> QED
    BY <1>2, <2>1, <2>2, <2>3, FieldsKnown
<1>6. CASE g \notin DOMAIN RenamedSource
  <2>1. g \in DOMAIN FieldSource /\ GptSource[g] = g
    BY <1>6 DEF GptFields, GptSource
  <2>2. Origin(g) = FieldSource[g]
    BY <1>4, <1>6 DEF Origin
  <2>3. Gpt(Primitive(o))[g] = Primitive(o)[g]
    BY <1>6, <2>1 DEF Gpt, GptFields
  <2> QED
    BY <1>2, <2>1, <2>2, <2>3, FieldsKnown
<1>7. CASE g = "logit_bias"
  <2>1. g \in DOMAIN FieldSource /\ Origin(g) = FieldSource[g]
    BY <1>7, FieldsKnown DEF Origin
  <2>2. Gpt(Primitive(o))[g] = Primitive(o)[g]
    BY <1>7, GptFieldsKnown DEF Gpt, GptFields
  <2> QED
    BY <1>2, <2>1, <2>2, FieldsKnown
<1> QED
  BY <1>5, <1>6, <1>7

\* Every member but four goes to exactly one field.
LEMMA OneField ==
  ASSUME NEW m \in Members \ {"debug_mode", "ignore_eos", "stop_prompts", "prompts"}
  PROVE  \E g \in GptFields :
           Origin(g) = m /\ \A h \in GptFields : Origin(h) = m => h = g
<1>1. m \in {"penalize_nl", "f16kv", "frequency_penalty", "mirostat_eta",
             "mirostat_tau", "presence_penalty", "penalty", "temperature",
             "tail_free_sampling_z", "top_p", "typical_p", "mirostat", "batch",
             "n_keep", "n_ctx", "repeat", "seed", "top_k", "threads", "tokens",
             "logit_bias"}
  BY DEF Members, Initialised, Uninitialised
<1> QED
  BY <1>1, GptFieldsKnown DEF Origin, FieldSource

\* ... and ignore_eos to none.
LEMMA NoField == \A g \in GptFields : Origin(g) # "ignore_eos"
BY GptFieldsKnown DEF Origin, FieldSource

----------------------------------------------------------------------------
(* By position.                                                            *)

\* Every field of LLAMA_PARAMS has a position.
LEMMA FieldPositions ==
  ASSUME NEW f \in DOMAIN FieldSource
  PROVE  \E k \in 1 .. Len(Formals) : Formals[k] = f
<1>1. Len(Formals) = 25
  BY DEF Formals
<1>2. /\ Formals[2] = "seed" /\ Formals[3] = "threads" /\ Formals[4] = "n_ctx"
      /\ Formals[5] = "tokens" /\ Formals[6] = "top_k" /\ Formals[7] = "top_p"
      /\ Formals[8] = "temp" /\ Formals[9] = "repeat_penalty"
      /\ Formals[10] = "repeat_last_n" /\ Formals[11] = "ignore_eos"
      /\ Formals[12] = "memory_f16" /\ Formals[13] = "n_batch"
      /\ Formals[14] = "n_keep" /\ Formals[17] = "tfs_z"
      /\ Formals[18] = "typical_p" /\ Formals[19] = "frequency_penalty"
      /\ Formals[20] = "presence_penalty" /\ Formals[21] = "mirostat"
      /\ Formals[22] = "mirostat_eta" /\ Formals[23] = "mirostat_tau"
      /\ Formals[24] = "penalize_nl" /\ Formals[25] = "logit_bias"
  BY DEF Formals
<1> QED
  BY <1>1, <1>2, FieldsKnown

\* The call by position gives every parameter what it is named for.
LEMMA BoundIsRaw ==
  ASSUME NEW o
  PROVE  Bound(Primitive(o)) = Primitive(o)
<1> DEFINE GivenTo(f) == Passed[CHOOSE k \in 1 .. Len(Formals) : Formals[k] = f]
<1>1. DOMAIN Primitive(o) = DOMAIN FieldSource
  BY DEF Primitive
<1>2. Primitive(o) = [f \in DOMAIN Primitive(o) |-> Primitive(o)[f]]
  BY DEF Primitive
<1>3. ASSUME NEW f \in DOMAIN Primitive(o)
      PROVE  GivenTo(f) = f
  <2>1. Passed = Formals
    BY DEF Passed, Formals
  <2>2. \E k \in 1 .. Len(Formals) : Formals[k] = f
    BY <1>1, FieldPositions
  <2>3. Formals[CHOOSE k \in 1 .. Len(Formals) : Formals[k] = f] = f
    BY <2>2
  <2> QED
    BY <2>1, <2>3
<1>4. Bound(Primitive(o)) = [f \in DOMAIN Primitive(o) |-> Primitive(o)[GivenTo(f)]]
  BY Zenon DEF Bound
<1> HIDE DEF GivenTo
<1> QED
  BY <1>2, <1>3, <1>4

----------------------------------------------------------------------------
(* The machine.                                                            *)

LEMMA ThreadsCountInRange ==
  ASSUME NEW p \in Nat \ {0}, NEW r \in Int
  PROVE  /\ ThreadsCount(p, r) \in Nat
         /\ p > 1 => ThreadsCount(p, r) \in 1 .. p
<1> DEFINE h == (p * 8) \div 10
<1>1. h \in Nat /\ 10 * h <= 8 * p /\ 8 * p < 10 * h + 10
  OBVIOUS
<1>2. h <= p /\ (p > 1 => h >= 1)
  BY <1>1
<1> HIDE DEF h
<1>3. ThreadsCount(p, r) = IF r \in 1 .. h THEN r ELSE h
  BY DEF ThreadsCount, h
<1> QED
  BY <1>1, <1>2, <1>3

----------------------------------------------------------------------------
(* Options on their way.                                                   *)

LEMMA OptionsTyped ==
  /\ Fresh \in [Members -> Origins]
  /\ \A program : Constructed(program) \in [Members -> Origins]
  /\ \A o \in [Members -> Origins] :
       /\ Copied(o) = o
       /\ WithBias(o) \in [Members -> Origins]
       /\ \A m \in Members \ {"logit_bias"} : WithBias(o)[m] = o[m]
BY DEF Fresh, Constructed, Copied, WithBias, Origins

LEMMA GptTyped ==
  ASSUME NEW o \in [Members -> Origins]
  PROVE  Gpt(Primitive(o)) \in [GptFields -> Members \X Origins]
<1>1. Gpt(Primitive(o)) = [g \in GptFields |-> Gpt(Primitive(o))[g]]
  BY DEF Gpt, GptFields
<1>2. \A g \in GptFields : Gpt(Primitive(o))[g] \in Members \X Origins
  <2> TAKE g \in GptFields
  <2> DEFINE m == Origin(g)
  <2>1. m \in Members /\ Gpt(Primitive(o))[g] = <<m, o[m]>>
    BY GptByField
  <2> HIDE DEF m
  <2>2. o[m] \in Origins
    BY <2>1
  <2> QED
    BY <2>1, <2>2
<1> QED
  BY <1>1, <1>2

PredictInv == call \in Calls /\ TypeOK /\ OptionsInv /\ HeapInv

LEMMA InitPredict == Init => PredictInv
<1> SUFFICES ASSUME Init PROVE PredictInv
  OBVIOUS
<1>1. gpt \in [GptFields -> Members \X Origins] /\ options \in [Members -> Origins]
  BY OptionsTyped, GptTyped DEF Init
<1> QED
  BY <1>1 DEF Init, PredictInv, TypeOK, OptionsInv, HeapInv, Converted, GptFields, Origins

LEMMA PredictKept == PredictInv /\ [Next]_vars => PredictInv'
<1> SUFFICES ASSUME PredictInv, [Next]_vars PROVE PredictInv'
  OBVIOUS
<1> USE DEF PredictInv, TypeOK, OptionsInv, HeapInv, Converted
<1>1. CASE Configure
  <2>1. call.processors \in Nat \ {0} /\ call.requested \in Int
    BY CallsAssumption
  <2>2. threads' \in Int
    <3>1. ThreadsCount(call.processors, call.requested) \in Int
      BY <2>1, ThreadsCountInRange
    <3>2. threads' \in {ThreadsCount(call.processors, call.requested),
                      call.processors, call.requested}
      BY <1>1 DEF Configure
    <3> QED
      BY <2>1, <3>1, <3>2
  <2>3. options' \in [Members -> Origins] /\ options' = Constructed(call.program)
    BY <1>1, OptionsTyped DEF Configure
  <2> QED
    BY <1>1, <2>2, <2>3 DEF Configure, Origins
<1>2. CASE Allocate
  <2>1. options = Constructed(call.program) /\ options \in [Members -> Origins]
    BY <1>2, OptionsTyped DEF Allocate
  <2>2. options' = IF call.bias = "none" THEN options ELSE WithBias(options)
    BY <1>2 DEF Allocate, WithBias
  <2>3. options' \in [Members -> Origins]
    BY <2>1, <2>2, OptionsTyped
  <2>4. heap' \subseteq {"buffer"} /\ ("buffer" \in heap' => call.tokens > 0)
    BY <1>2 DEF Allocate
  <2> QED
    BY <1>2, <2>1, <2>2, <2>3, <2>4 DEF Allocate, Origins
<1>3. CASE Convert
  <2>1. options \in [Members -> Origins] /\ gpt' = Gpt(Primitive(options))
    BY <1>3 DEF Convert, Origins
  <2>2. gpt' \in [GptFields -> Members \X Origins]
    BY <2>1, GptTyped
  <2> QED
    BY <1>3, <2>1, <2>2 DEF Convert, GptFields, Origins
<1>4. CASE Infer
  <2>1. pc = "infer" /\ pc' = "deliver"
        /\ UNCHANGED <<call, options, threads, gpt, heap, left>>
    BY <1>4 DEF Infer
  <2> QED
    BY <2>1
<1>5. CASE InferFails
  BY <1>5 DEF InferFails
<1>6. CASE Deliver
  <2>1. /\ pc = "deliver" /\ pc' = "cut" /\ heap' = {}
        /\ UNCHANGED <<call, options, threads, gpt>>
    BY <1>6 DEF Deliver
  <2> QED
    BY <2>1
<1>7. CASE DeliverNothing
  <2>1. call.tokens \in Int
    BY CallsAssumption
  <2>2. heap' = {}
    BY <1>7, <2>1 DEF DeliverNothing
  <2> QED
    BY <1>7, <2>2 DEF DeliverNothing
<1>8. CASE CutStop
  BY <1>8 DEF CutStop
<1>9. CASE Return
  BY <1>9 DEF Return
<1>10. CASE UNCHANGED vars
  BY <1>10 DEF vars
<1> QED
  BY <1>1, <1>2, <1>3, <1>4, <1>5, <1>6, <1>7, <1>8, <1>9, <1>10 DEF Next

----------------------------------------------------------------------------
(* Sequences and strings.                                                  *)

\* A set of numbers has a least element.
LEMMA Least ==
  ASSUME NEW T, T \subseteq Nat, T # {}
  PROVE  \E x \in T : \A y \in T : x <= y
<1>1. \E R : IsWellFoundedOn(R, Nat) /\ \A x, y \in Nat : y < x => <<y, x>> \in R
  <2>1. \A x, y \in Nat : y < x => <<y, x>> \in OpToRel(<, Nat)
    BY DEF OpToRel
  <2> WITNESS OpToRel(<, Nat)
  <2> QED
    BY <2>1, NatLessThanWellFounded
<1>2. PICK R : IsWellFoundedOn(R, Nat) /\ \A x, y \in Nat : y < x => <<y, x>> \in R
  BY <1>1
<1>3. PICK x \in T : \A y \in T : ~(<<y, x>> \in R)
  BY <1>2, WFMin
<1>4. ASSUME NEW y \in T PROVE x <= y
  <2>1. x \in Nat /\ y \in Nat
    OBVIOUS
  <2>2. ~(y < x)
    BY <1>2, <1>3, <2>1, Zenon
  <2> QED
    BY <2>1, <2>2
<1> QED
  BY <1>4

\* Induction from 1 to N, over a set: those of the library take an operator.
LEMMA InductionUpTo ==
  ASSUME NEW N \in Nat, NEW S, 1 \in S, \A n \in 1 .. N - 1 : n \in S => n + 1 \in S
  PROVE  \A n \in 1 .. N : n \in S
<1> SUFFICES ASSUME NEW n \in 1 .. N, n \notin S PROVE FALSE
  OBVIOUS
<1> DEFINE T == {k \in 1 .. N : k \notin S}
<1>1. T \subseteq Nat /\ n \in T
  OBVIOUS
<1>2. PICK x \in T : \A y \in T : x <= y
  <2> HIDE DEF T
  <2> QED
    BY <1>1, Least
<1>3. x # 1 /\ x - 1 \in 1 .. N - 1 /\ x - 1 \notin T
  BY <1>2
<1> QED
  BY <1>2, <1>3

\* ConcatAssociative, in a form that is easy to apply.
ThreeIn(a, b, c, S) == a \in S /\ b \in S /\ c \in S

LEMMA Regroup ==
  ASSUME NEW T, NEW a, NEW b, NEW c, ThreeIn(a, b, c, Seq(T))
  PROVE  (a \o b) \o c = a \o (b \o c)
<1>1. a \in Seq(T) /\ b \in Seq(T) /\ c \in Seq(T)
  BY DEF ThreeIn
<1> QED
  BY <1>1, ConcatAssociative, SMTT(20)

\* What a part of a sequence is.
LEMMA PartIs ==
  ASSUME NEW T, NEW s \in Seq(T), NEW i \in Nat, NEW j \in Nat,
         1 <= i, i <= j + 1, j <= Len(s)
  PROVE  /\ SubSeq(s, i, j) \in Seq(T)
         /\ Len(SubSeq(s, i, j)) = j - i + 1
         /\ \A k \in 1 .. j - i + 1 : SubSeq(s, i, j)[k] = s[i + k - 1]
<1>1. Len(s) \in Nat
  BY LenProperties
<1>2. \A k \in i .. j : s[k] \in T
  <2> TAKE k \in i .. j
  <2>1. k \in 1 .. Len(s)
    BY <1>1
  <2> QED
    BY <2>1, ElementOfSeq
<1>3. (IF i <= j THEN j - i + 1 ELSE 0) = j - i + 1
  OBVIOUS
<1> QED
  BY <1>2, <1>3, SubSeqProperties

\* What a suffix is.
LEMMA SuffixIs ==
  ASSUME NEW T, NEW s \in Seq(T), NEW x \in Seq(T)
  PROVE  IsSuffix(x, s) <=>
           /\ Len(x) <= Len(s)
           /\ x = SubSeq(s, Len(s) - Len(x) + 1, Len(s))
<1> DEFINE m == Len(x)  n == Len(s)  rx == Reverse(x)  rs == Reverse(s)
<1>1. m \in Nat /\ n \in Nat
  OBVIOUS
<1>2. /\ rx \in Seq(T) /\ Len(rx) = m /\ \A i \in 1 .. m : rx[i] = x[m - i + 1]
      /\ rs \in Seq(T) /\ Len(rs) = n /\ \A i \in 1 .. n : rs[i] = s[n - i + 1]
  BY DEF Reverse
<1> HIDE DEF rx, rs
<1>3. CASE m > n
  BY <1>1, <1>2, <1>3 DEF IsSuffix, IsPrefix, rx, rs
<1>4. CASE m <= n
  <2> DEFINE px == SubSeq(rx, 1, m)  ps == SubSeq(rs, 1, m)
             e == SubSeq(s, n - m + 1, n)
  <2>1. /\ px \in Seq(T) /\ Len(px) = m /\ \A i \in 1 .. m : px[i] = rx[i]
        /\ ps \in Seq(T) /\ Len(ps) = m /\ \A i \in 1 .. m : ps[i] = rs[i]
    <3>1. 1 <= m + 1 /\ m - 1 + 1 = m /\ \A i \in 1 .. m : 1 + i - 1 = i
      BY <1>1
    <3> QED
      BY <1>1, <1>2, <1>4, <3>1, PartIs
  <2>2. e \in Seq(T) /\ Len(e) = m /\ \A i \in 1 .. m : e[i] = s[n - m + i]
    BY <1>1, <1>4
  <2>3. IsSuffix(x, s) <=> px = ps
    BY <1>1, <1>2, <1>4 DEF IsSuffix, IsPrefix, rx, rs
  <2> HIDE DEF px, ps, e
  <2>4. px = ps <=> \A i \in 1 .. m : rx[i] = rs[i]
    BY <2>1, SeqEqual
  <2>5. x = e <=> \A i \in 1 .. m : x[i] = s[n - m + i]
    BY <2>2, SeqEqual
  <2>6. \A i \in 1 .. m : rx[i] = x[m - i + 1] /\ rs[i] = s[n - i + 1]
    <3> TAKE i \in 1 .. m
    <3>1. i \in 1 .. n
      BY <1>1, <1>4
    <3> QED
      BY <1>2, <3>1
  <2>7. (\A i \in 1 .. m : rx[i] = rs[i]) <=> \A i \in 1 .. m : x[m - i + 1] = s[n - i + 1]
    BY <2>6
  <2>8. (\A i \in 1 .. m : x[m - i + 1] = s[n - i + 1])
          <=> \A i \in 1 .. m : x[i] = s[n - m + i]
    <3>1. ASSUME \A i \in 1 .. m : x[m - i + 1] = s[n - i + 1], NEW i \in 1 .. m
          PROVE  x[i] = s[n - m + i]
      <4> DEFINE j == m - i + 1
      <4>1. j \in 1 .. m /\ m - j + 1 = i /\ n - j + 1 = n - m + i
        BY <1>1
      <4> HIDE DEF j
      <4>2. x[m - j + 1] = s[n - j + 1]
        BY <3>1, <4>1
      <4> QED
        BY <4>1, <4>2
    <3>2. ASSUME \A i \in 1 .. m : x[i] = s[n - m + i], NEW i \in 1 .. m
          PROVE  x[m - i + 1] = s[n - i + 1]
      <4> DEFINE j == m - i + 1
      <4>1. j \in 1 .. m /\ n - m + j = n - i + 1
        BY <1>1
      <4> HIDE DEF j
      <4>2. x[j] = s[n - m + j]
        BY <3>2, <4>1
      <4> QED
        BY <4>1, <4>2 DEF j
    <3> QED
      BY <3>1, <3>2
  <2> QED
    BY <1>1, <1>4, <2>3, <2>4, <2>5, <2>7, <2>8 DEF e
<1> QED
  BY <1>1, <1>3, <1>4

\* trim_end leaves what stands before the suffix, or everything.
LEMMA TrimEndCuts ==
  ASSUME NEW T, NEW s \in Seq(T), NEW x \in Seq(T)
  PROVE  LET r == TrimEnd(s, x)
         IN  /\ r \in Seq(T)
             /\ IF IsSuffix(x, s) THEN /\ Len(r) = Len(s) - Len(x)
                                       /\ r = SubSeq(s, 1, Len(r)) /\ s = r \o x
                                  ELSE r = s
<1> DEFINE r == TrimEnd(s, x)
<1>1. CASE ~IsSuffix(x, s)
  BY <1>1 DEF TrimEnd
<1>2. CASE IsSuffix(x, s)
  <2> DEFINE k == Len(s) - Len(x)
  <2>1. Len(x) \in Nat /\ Len(s) \in Nat /\ Len(x) <= Len(s)
        /\ x = SubSeq(s, k + 1, Len(s))
    BY <1>2, SuffixIs
  <2>2. k \in 0 .. Len(s)
    BY <2>1
  <2>3. r = SubSeq(s, 1, k)
    BY <1>2 DEF TrimEnd
  <2>4. r \in Seq(T) /\ Len(r) = k
    <3>1. 1 <= k + 1 /\ k <= Len(s) /\ k \in Nat /\ k - 1 + 1 = k
      BY <2>1, <2>2
    <3> HIDE DEF k, r
    <3> QED
      BY <2>3, <3>1, PartIs
  <2>5. SubSeq(s, 1, k) \o SubSeq(s, k + 1, Len(s)) = SubSeq(s, 1, Len(s))
    <3>1. 1 \in 1 .. Len(s) + 1 /\ k \in 1 - 1 .. Len(s) /\ Len(s) \in k .. Len(s)
      BY <2>1, <2>2
    <3> HIDE DEF k
    <3> QED
      BY <3>1, ConcatAdjacentSubSeq
  <2>6. SubSeq(s, 1, Len(s)) = s
    BY SubSeqFull
  <2> QED
    BY <1>2, <2>1, <2>3, <2>4, <2>5, <2>6
<1> QED
  BY <1>1, <1>2

\* FlattenSeq(ss) as a recursion over the N elements of ss.
Flattens(f, ss, N, T) ==
  /\ f \in [1 .. N -> Seq(T)]
  /\ f[1] = ss[1]
  /\ \A i \in 2 .. N : f[i] = f[i - 1] \o ss[i]
  /\ FlattenSeq(ss) = f[N]

\* FlattenSeq adds the elements one after the other.
LEMMA FlattenEach ==
  ASSUME NEW T, NEW N \in Nat, N # 0, NEW ss \in [1 .. N -> Seq(T)]
  PROVE  \E f : Flattens(f, ss, N, T)
<1>1. N \in Nat /\ 1 <= N /\ \A i \in 1 .. N : ss[i] \in Seq(T)
  OBVIOUS
<1> DEFINE Upto(n, f) == /\ f \in [1 .. n -> Seq(T)]
                         /\ f[1] = ss[1]
                         /\ \A i \in 2 .. n : f[i] = f[i - 1] \o ss[i]
           S == {n \in 1 .. N : \E f : Upto(n, f)}
<1>2. 1 \in S
  <2> DEFINE g == [i \in 1 .. 1 |-> ss[1]]
  <2>1. g \in [1 .. 1 -> Seq(T)] /\ g[1] = ss[1]
    BY <1>1
  <2>2. Upto(1, g)
    <3> HIDE DEF g
    <3> QED
      BY <2>1
  <2> HIDE DEF Upto
  <2> QED
    BY <1>1, <2>2
<1>3. ASSUME NEW n \in 1 .. N - 1, n \in S PROVE n + 1 \in S
  <2>1. PICK f : Upto(n, f)
    BY <1>3
  <2> DEFINE last == f[n] \o ss[n + 1]
             g == [i \in 1 .. n + 1 |-> IF i = n + 1 THEN last ELSE f[i]]
  <2>2. last \in Seq(T)
    <3>1. ss[n + 1] \in Seq(T) /\ f[n] \in Seq(T)
      BY <1>1, <2>1
    <3> QED
      BY <3>1
  <2>3. g[n + 1] = last /\ \A i \in 1 .. n : g[i] = f[i]
    <3> HIDE DEF last
    <3> QED
      OBVIOUS
  <2>4. g \in [1 .. n + 1 -> Seq(T)]
    <3>1. \A i \in 1 .. n + 1 : i # n + 1 => f[i] \in Seq(T)
      BY <2>1
    <3> HIDE DEF last
    <3> QED
      BY <2>2, <3>1
  <2> HIDE DEF g
  <2>5. ASSUME NEW i \in 2 .. n + 1 PROVE g[i] = g[i - 1] \o ss[i]
    <3>1. CASE i = n + 1
      <4>1. n \in 1 .. n /\ i - 1 = n
        BY <3>1
      <4> QED
        BY <2>3, <3>1, <4>1
    <3>2. CASE i # n + 1
      <4>1. i \in 2 .. n /\ i \in 1 .. n /\ i - 1 \in 1 .. n
        BY <3>2
      <4>2. f[i] = f[i - 1] \o ss[i]
        BY <2>1, <4>1
      <4> QED
        BY <2>3, <4>1, <4>2
    <3> QED
      BY <3>1, <3>2
  <2>6. g[1] = ss[1]
    BY <2>1, <2>3
  <2>7. Upto(n + 1, g)
    BY <2>4, <2>5, <2>6
  <2> HIDE DEF Upto
  <2> QED
    BY <1>1, <2>7
<1>4. N \in S
  <2> HIDE DEF S
  <2>1. \A n \in 1 .. N : n \in S
    BY <1>1, <1>2, <1>3, InductionUpTo
  <2> QED
    BY <1>1, <2>1
<1>5. PICK f : Upto(N, f)
  BY <1>4
<1> DEFINE IsFlat(g) == g = [i \in 1 .. N |-> IF i = 1 THEN ss[i] ELSE g[i - 1] \o ss[i]]
<1>6. IsFlat(f)
  <2>1. f = [i \in 1 .. N |-> f[i]]
    BY <1>5
  <2>2. \A i \in 1 .. N : f[i] = IF i = 1 THEN ss[i] ELSE f[i - 1] \o ss[i]
    <3> TAKE i \in 1 .. N
    <3>1. i # 1 => i \in 2 .. N
      OBVIOUS
    <3> QED
      BY <1>5, <3>1
  <2> QED
    BY <2>1, <2>2, Zenon
<1> DEFINE g == CHOOSE g : IsFlat(g)
<1>7. IsFlat(g)
  BY <1>6
<1>8. FlattenSeq(ss) = g[N]
  <2>1. ss \in Seq(Seq(T))
    BY SeqDef
  <2>2. Len(ss) = N /\ N # 0
    BY <2>1, LenProperties
  <2> QED
    BY <2>2 DEF FlattenSeq
<1> HIDE DEF g
<1>9. \A i \in 1 .. N : g[i] = IF i = 1 THEN ss[i] ELSE g[i - 1] \o ss[i]
  BY <1>7
<1> DEFINE R == {n \in 1 .. N : g[n] = f[n]}
<1>10. 1 \in R
  BY <1>1, <1>5, <1>9
<1>11. ASSUME NEW n \in 1 .. N - 1, n \in R PROVE n + 1 \in R
  <2> DEFINE m == n + 1
  <2>1. g[n] = f[n]
    BY <1>11
  <2>2. m \in 2 .. N /\ m \in 1 .. N /\ m # 1 /\ m - 1 = n
    BY <1>1
  <2> HIDE DEF m
  <2>3. f[m] = f[m - 1] \o ss[m] /\ g[m] = g[m - 1] \o ss[m]
    BY <1>5, <1>9, <2>2
  <2>4. m \in R
    BY <2>1, <2>2, <2>3
  <2> QED
    BY <2>4 DEF m
<1>12. g[N] = f[N]
  <2>1. \A n \in 1 .. N : n \in R
    <3> HIDE DEF R
    <3> QED
      BY <1>1, <1>10, <1>11, InductionUpTo
  <2> QED
    BY <1>1, <2>1
<1> QED
  BY <1>5, <1>8, <1>12 DEF Flattens

\* d begins like e with p - 1 empty elements, has x at p where e is empty too,
\* and goes on like e.
Inserts(d, e, p, x, N, T) ==
  /\ N \in Nat /\ p \in 1 .. N /\ x \in Seq(T)
  /\ e \in [1 .. N -> Seq(T)] /\ d \in [1 .. N -> Seq(T)]
  /\ \A i \in 1 .. p : e[i] = <<>>
  /\ \A i \in 1 .. N : i < p => d[i] = <<>>
  /\ \A i \in 1 .. N : i > p => d[i] = e[i]
  /\ d[p] = x

\* Behind empty elements, what is put first comes out first.
LEMMA FlattenInserted ==
  ASSUME NEW T, NEW N, NEW p, NEW x, NEW e, NEW d, Inserts(d, e, p, x, N, T)
  PROVE  FlattenSeq(d) = x \o FlattenSeq(e)
<1>2. p \in 1 .. N /\ N \in Nat /\ N # 0 /\ x \in Seq(T)
  BY DEF Inserts
<1>3. /\ e \in [1 .. N -> Seq(T)] /\ d \in [1 .. N -> Seq(T)]
      /\ \A i \in 1 .. p : e[i] = <<>>
      /\ \A i \in 1 .. N : i < p => d[i] = <<>>
      /\ \A i \in 1 .. N : i > p => d[i] = e[i]
      /\ d[p] = x
  BY DEF Inserts
<1>4. PICK f : Flattens(f, e, N, T)
  BY <1>2, <1>3, FlattenEach
<1>5. PICK g : Flattens(g, d, N, T)
  BY <1>2, <1>3, FlattenEach
<1>11. /\ f \in [1 .. N -> Seq(T)] /\ f[1] = e[1] /\ FlattenSeq(e) = f[N]
       /\ \A i \in 2 .. N : f[i] = f[i - 1] \o e[i]
       /\ g \in [1 .. N -> Seq(T)] /\ g[1] = d[1] /\ FlattenSeq(d) = g[N]
       /\ \A i \in 2 .. N : g[i] = g[i - 1] \o d[i]
  BY <1>4, <1>5 DEF Flattens
<1> DEFINE Claim(j) == /\ j <= p => f[j] = <<>>
                       /\ j < p => g[j] = <<>>
                       /\ j >= p => g[j] = x \o f[j]
           S == {j \in 1 .. N : Claim(j)}
<1>6. 1 \in S
  <2>1. 1 \in 1 .. N /\ f[1] = e[1] /\ g[1] = d[1] /\ e[1] = <<>> /\ 1 <= p
    BY <1>2, <1>3, <1>11
  <2>2. CASE p = 1
    <3>1. g[1] = x /\ x \o <<>> = x
      BY <1>3, <2>1, <2>2, ConcatEmptySeq
    <3>2. g[1] = x \o f[1]
      BY <2>1, <3>1
    <3>3. Claim(1)
      BY <2>1, <2>2, <3>2
    <3> HIDE DEF Claim
    <3> QED
      BY <2>1, <3>3
  <2>3. CASE p > 1
    <3>1. g[1] = <<>>
      BY <1>3, <2>1, <2>3
    <3> QED
      BY <1>2, <2>1, <2>3, <3>1
  <2>4. p = 1 \/ p > 1
    BY <1>2
  <2> QED
    BY <2>2, <2>3, <2>4
<1>7. ASSUME NEW n \in 1 .. N - 1, n \in S PROVE n + 1 \in S
  <2> DEFINE m == n + 1
  <2>1. m \in 1 .. N /\ m \in 2 .. N /\ m - 1 = n /\ n \in 1 .. N /\ n < m
    BY <1>2
  <2>2. /\ n <= p => f[n] = <<>>
        /\ n < p => g[n] = <<>>
        /\ n >= p => g[n] = x \o f[n]
    BY <1>7
  <2>3. f[m] = f[n] \o e[m] /\ g[m] = g[n] \o d[m]
    BY <1>11, <2>1
  <2>4. f[n] \in Seq(T) /\ g[n] \in Seq(T) /\ e[m] \in Seq(T) /\ d[m] \in Seq(T)
    <3>1. \A i \in 1 .. N : e[i] \in Seq(T) /\ d[i] \in Seq(T)
      BY <1>3
    <3> QED
      BY <1>11, <2>1, <3>1
  <2>5. p \in Int /\ n \in Int /\ m \in Int /\ m = n + 1
    BY <1>2
  <2> HIDE DEF m
  <2>6. CASE m < p
    <3>1. e[m] = <<>> /\ d[m] = <<>>
      <4>1. m \in 1 .. p
        BY <2>1, <2>5, <2>6
      <4> QED
        BY <1>3, <2>1, <2>6, <4>1
    <3>2. f[n] = <<>> /\ g[n] = <<>>
      BY <2>2, <2>5, <2>6
    <3>3. f[m] = <<>> /\ g[m] = <<>>
      BY <2>3, <3>1, <3>2
    <3>4. Claim(m)
      BY <2>1, <2>5, <2>6, <3>3
    <3>5. m \in S
      <4> HIDE DEF Claim
      <4> QED
        BY <2>1, <3>4
    <3> QED
      BY <3>5 DEF m
  <2>7. CASE m = p
    <3>1. e[m] = <<>> /\ d[m] = x
      BY <1>2, <1>3, <2>1, <2>7
    <3>2. f[n] = <<>> /\ g[n] = <<>>
      BY <2>2, <2>5, <2>7
    <3>3. f[m] = <<>> /\ g[m] = x /\ x = x \o <<>>
      <4>1. <<>> \o x = x /\ x \o <<>> = x /\ <<>> \o <<>> = <<>>
        BY ConcatEmptySeq
      <4>2. f[m] = <<>> \o <<>> /\ g[m] = <<>> \o x
        BY <2>3, <3>1, <3>2, Zenon
      <4> QED
        BY <4>1, <4>2
    <3>6. g[m] = x \o f[m]
      BY <3>3
    <3>4. Claim(m)
      BY <2>5, <2>7, <3>3, <3>6
    <3>5. m \in S
      <4> HIDE DEF Claim
      <4> QED
        BY <2>1, <3>4
    <3> QED
      BY <3>5 DEF m
  <2>8. CASE m > p
    <3>1. d[m] = e[m]
      BY <1>3, <2>1, <2>8
    <3>2. g[n] = x \o f[n]
      <4>1. n >= p
        BY <2>5, <2>8
      <4> QED
        BY <2>2, <4>1, Zenon
    <3>3. g[m] = x \o f[m]
      <4>1. (x \o f[n]) \o e[m] = x \o (f[n] \o e[m])
        <5> DEFINE y == f[n]  z == e[m]
        <5>1. ThreeIn(x, y, z, Seq(T))
          BY <1>2, <2>4 DEF ThreeIn
        <5> HIDE DEF y, z
        <5>2. (x \o y) \o z = x \o (y \o z)
          BY <5>1, Regroup
        <5> QED
          BY <5>2 DEF y, z
      <4>2. g[m] = (x \o f[n]) \o e[m]
        BY <2>3, <3>1, <3>2, Zenon
      <4> QED
        BY <2>3, <4>1, <4>2, Zenon
    <3>4. Claim(m)
      BY <2>1, <2>5, <2>8, <3>3
    <3>5. m \in S
      <4> HIDE DEF Claim
      <4> QED
        BY <2>1, <3>4
    <3> QED
      BY <3>5 DEF m
  <2>9. m < p \/ m = p \/ m > p
    BY <2>5
  <2> QED
    BY <2>6, <2>7, <2>8, <2>9
<1>8. \A n \in 1 .. N : n \in S
  <2> HIDE DEF S
  <2> QED
    BY <1>2, <1>6, <1>7, InductionUpTo
<1>9. g[N] = x \o f[N]
  <2>1. N \in 1 .. N /\ N >= p
    BY <1>2
  <2> QED
    BY <1>8, <2>1
<1>10. f[N] \in Seq(T)
  BY <1>2, <1>11
<1> QED
  BY <1>11, <1>9

\* D is E with x at k, from where on E has empty elements only.
PutAt(D, E, N, k, x, T) ==
  /\ N \in Nat /\ k \in 1 .. N /\ x \in Seq(T)
  /\ E \in [1 .. N -> Seq(T)] /\ D \in [1 .. N -> Seq(T)]
  /\ D[k] = x
  /\ \A i \in k .. N : E[i] = <<>>
  /\ \A i \in 1 .. N : i # k => D[i] = E[i]

\* ... as in a sequence that is put together backwards.
LEMMA FlattenFirst ==
  ASSUME NEW T, NEW N, NEW k, NEW x, NEW E, NEW D, PutAt(D, E, N, k, x, T)
  PROVE  FlattenSeq(Reverse(D)) = x \o FlattenSeq(Reverse(E))
<1>0. /\ N \in Nat /\ k \in 1 .. N /\ x \in Seq(T)
      /\ E \in [1 .. N -> Seq(T)] /\ D \in [1 .. N -> Seq(T)]
  BY DEF PutAt
<1> DEFINE p == N - k + 1
           e == Reverse(E)
           d == Reverse(D)
<1>1. Len(E) = N /\ Len(D) = N
  <2>1. E \in Seq(Seq(T)) /\ D \in Seq(Seq(T))
    BY <1>0, SeqDef
  <2>2. DOMAIN E = 1 .. N /\ DOMAIN D = 1 .. N
    BY <1>0
  <2> QED
    BY <1>0, <2>1, <2>2, LenProperties
<1>2. p \in 1 .. N /\ N - p + 1 = k /\ \A i \in 1 .. N : N - i + 1 \in 1 .. N
  BY <1>0
<1>3. e = [i \in 1 .. N |-> E[N - i + 1]] /\ d = [i \in 1 .. N |-> D[N - i + 1]]
  BY <1>1 DEF Reverse
<1> HIDE DEF e, d
<1>4. e \in [1 .. N -> Seq(T)] /\ d \in [1 .. N -> Seq(T)]
  <2>1. \A i \in 1 .. N : E[N - i + 1] \in Seq(T) /\ D[N - i + 1] \in Seq(T)
    BY <1>0, <1>2
  <2> QED
    BY <1>3, <2>1
<1>5. ASSUME NEW i \in 1 .. p PROVE e[i] = <<>>
  <2>1. i \in 1 .. N /\ N - i + 1 \in k .. N
    BY <1>0, <1>2
  <2>2. E[N - i + 1] = <<>>
    BY <2>1 DEF PutAt
  <2> QED
    BY <1>3, <2>1, <2>2
<1>6. ASSUME NEW i \in 1 .. N, i # p PROVE d[i] = e[i]
  <2>1. N - i + 1 \in 1 .. N /\ N - i + 1 # k
    BY <1>0, <1>2, <1>6
  <2>2. D[N - i + 1] = E[N - i + 1]
    BY <2>1 DEF PutAt
  <2> QED
    BY <1>3, <2>2
<1>7. d[p] = x
  BY <1>2, <1>3 DEF PutAt
<1>8. \A i \in 1 .. N : i < p => i \in 1 .. p /\ i # p
  BY <1>0, <1>2
<1>9. \A i \in 1 .. N : i > p => i # p
  BY <1>0, <1>2
<1> HIDE DEF p
<1>10. Inserts(d, e, p, x, N, T)
  BY <1>0, <1>2, <1>4, <1>5, <1>6, <1>7, <1>8, <1>9 DEF Inserts
<1>11. FlattenSeq(d) = x \o FlattenSeq(e)
  BY <1>10, FlattenInserted
<1> QED
  BY <1>11 DEF d, e

\* Nothing but empty elements.
LEMMA FlattenNothing ==
  ASSUME NEW N \in Nat, NEW E, E = [i \in 1 .. N |-> <<>>]
  PROVE  FlattenSeq(Reverse(E)) = <<>>
<1>1. E \in [1 .. N -> Seq({})]
  OBVIOUS
<1>2. Len(E) = N
  <2>1. E \in Seq(Seq({}))
    BY <1>1, SeqDef
  <2> QED
    BY <1>1, <2>1, LenProperties
<1>3. Reverse(E) = E
  <2>1. Reverse(E) = [i \in 1 .. N |-> E[N - i + 1]]
    BY <1>2 DEF Reverse
  <2>2. \A i \in 1 .. N : E[N - i + 1] = <<>>
    OBVIOUS
  <2> QED
    BY <2>1, <2>2
<1>4. CASE N = 0
  <2>1. E = <<>> /\ Len(E) = 0
    BY <1>2, <1>4
  <2> QED
    BY <1>3, <2>1 DEF FlattenSeq
<1>5. CASE N # 0
  <2>1. PICK f : Flattens(f, E, N, {})
    BY <1>1, <1>5, FlattenEach
  <2>2. FlattenSeq(E) = f[N] /\ f[N] \in Seq({})
    BY <1>5, <2>1 DEF Flattens
  <2>3. \A s \in Seq({}) : s = <<>>
    <3> TAKE s \in Seq({})
    <3>1. Len(s) = 0
      OBVIOUS
    <3> QED
      BY <3>1, EmptySeq
  <2> QED
    BY <1>3, <2>2, <2>3
<1> QED
  BY <1>4, <1>5

\* A part of a beginning is the same part of the whole.
LEMMA PartOfPrefix ==
  ASSUME NEW T, NEW s \in Seq(T), NEW n \in 0 .. Len(s), NEW i \in Nat, NEW j \in Nat,
         1 <= i, i <= j + 1, j <= n
  PROVE  SubSeq(SubSeq(s, 1, n), i, j) = SubSeq(s, i, j)
<1> DEFINE u == SubSeq(s, 1, n)
<1>1. Len(s) \in Nat /\ n \in Nat /\ n <= Len(s)
  BY LenProperties
<1>2. u \in Seq(T) /\ Len(u) = n /\ \A k \in 1 .. n : u[k] = s[k]
  <2>1. 1 <= n + 1 /\ n - 1 + 1 = n /\ \A k \in 1 .. n : 1 + k - 1 = k
    BY <1>1
  <2> QED
    BY <1>1, <2>1, PartIs
<1> HIDE DEF u
<1> DEFINE a == SubSeq(u, i, j)  b == SubSeq(s, i, j)
<1>3. j <= Len(s)
  BY <1>1
<1>4. /\ a \in Seq(T) /\ Len(a) = j - i + 1
      /\ \A k \in 1 .. j - i + 1 : a[k] = u[i + k - 1]
  BY <1>2, PartIs
<1>5. /\ b \in Seq(T) /\ Len(b) = j - i + 1
      /\ \A k \in 1 .. j - i + 1 : b[k] = s[i + k - 1]
  BY <1>3, PartIs
<1>6. \A k \in 1 .. j - i + 1 : i + k - 1 \in 1 .. n
  BY <1>1
<1> HIDE DEF a, b
<1>7. \A k \in 1 .. Len(a) : a[k] = b[k]
  BY <1>2, <1>4, <1>5, <1>6
<1>8. a = b
  BY <1>4, <1>5, <1>7, SeqEqual
<1> QED
  BY <1>8 DEF a, b, u

\* p stands at r in s.
StandsAt(p, s, r) == p = SubSeq(s, r, r + Len(p) - 1)

\* Where p is found in the first n elements of s.
LEMMA FoundIn ==
  ASSUME NEW T, NEW s \in Seq(T), NEW p \in Seq(T), NEW n \in 0 .. Len(s)
  PROVE  p \in SubSeqs(SubSeq(s, 1, n)) <=>
           \E r \in 1 .. n - Len(p) + 1 : StandsAt(p, s, r)
<1> DEFINE m == Len(p)  u == SubSeq(s, 1, n)
<1>1. Len(s) \in Nat /\ m \in Nat /\ n \in Nat /\ n <= Len(s)
  BY LenProperties
<1>2. u \in Seq(T) /\ Len(u) = n
  <2>1. 1 <= n + 1 /\ n - 1 + 1 = n
    BY <1>1
  <2> QED
    BY <1>1, <2>1, PartIs
<1>3. p \in SubSeqs(u) <=> \E i, j \in 0 .. n : p = SubSeq(u, i + 1, j)
  <2> HIDE DEF u
  <2> QED
    BY <1>2 DEF SubSeqs
<1>4. ASSUME NEW i \in 0 .. n, NEW j \in 0 .. n, i <= j
      PROVE  /\ SubSeq(u, i + 1, j) = SubSeq(s, i + 1, j)
             /\ Len(SubSeq(s, i + 1, j)) = j - i
  <2>1. /\ i + 1 \in Nat /\ j \in Nat /\ 1 <= i + 1 /\ i + 1 <= j + 1 /\ j <= n
        /\ j <= Len(s) /\ j - (i + 1) + 1 = j - i
    BY <1>1, <1>4
  <2> QED
    BY <2>1, PartOfPrefix, PartIs
<1>5. ASSUME NEW r \in 1 .. n - m + 1, p = SubSeq(s, r, r + m - 1)
      PROVE  p \in SubSeqs(u)
  <2> DEFINE i == r - 1  j == r + m - 1
  <2>1. i \in 0 .. n /\ j \in 0 .. n /\ i <= j /\ i + 1 = r
    BY <1>1
  <2> HIDE DEF i, u
  <2>2. p = SubSeq(u, i + 1, j)
    BY <1>4, <1>5, <2>1 DEF u
  <2> HIDE DEF j
  <2>3. \E k, l \in 0 .. n : p = SubSeq(u, k + 1, l)
    BY <2>1, <2>2, Zenon
  <2> QED
    BY <1>3, <2>3
<1>6. ASSUME p \in SubSeqs(u)
      PROVE  \E r \in 1 .. n - m + 1 : p = SubSeq(s, r, r + m - 1)
  <2>1. PICK i \in 0 .. n, j \in 0 .. n : p = SubSeq(u, i + 1, j)
    BY <1>3, <1>6
  <2>2. CASE i <= j
    <3>1. p = SubSeq(s, i + 1, j) /\ m = j - i
      BY <1>4, <2>1, <2>2
    <3> DEFINE r == i + 1
    <3>2. r \in 1 .. n - m + 1 /\ r + m - 1 = j
      BY <1>1, <3>1
    <3> HIDE DEF m
    <3> QED
      BY <3>1, <3>2
  <2>3. CASE i > j
    <3>1. p = <<>>
      <4>1. i + 1 \in Int /\ j \in Int /\ j < i + 1
        BY <2>3
      <4> QED
        BY <2>1, <4>1, SubSeqEmpty
    <3>2. m = 0 /\ SubSeq(s, 1, 0) = <<>>
      BY <3>1, SubSeqEmpty
    <3>3. 1 \in 1 .. n - m + 1 /\ 1 + m - 1 = 0
      BY <1>1, <3>2
    <3> HIDE DEF m
    <3> QED
      BY <3>1, <3>2, <3>3
  <2>4. i <= j \/ i > j
    BY <1>1
  <2> QED
    BY <2>2, <2>3, <2>4
<1> QED
  BY <1>5, <1>6 DEF StandsAt

\* What replaces the first occurrence of p in s, at q, by nothing.
LEMMA FirstErased ==
  ASSUME NEW T, NEW s \in Seq(T), NEW p \in Seq(T), NEW q \in 1 .. Len(s) - Len(p) + 1,
         StandsAt(p, s, q), \A r \in 1 .. q - 1 : ~StandsAt(p, s, r)
  PROVE  ReplaceFirstSubSeq(<<>>, p, s) =
           SubSeq(s, 1, q - 1) \o SubSeq(s, q + Len(p), Len(s))
<1> DEFINE m == Len(p)
           In(n) == p \in SubSeqs(SubSeq(s, 1, n))
           e == q + m - 1
<1>1. Len(s) \in Nat /\ m \in Nat /\ q \in Nat /\ e \in 0 .. Len(s)
  <2>1. Len(s) \in Nat /\ m \in Nat
    BY LenProperties
  <2> HIDE DEF m
  <2>2. q \in 1 .. Len(s) - m + 1
    BY DEF m
  <2> QED
    BY <2>1, <2>2
<1>2. ASSUME NEW n \in 0 .. Len(s) PROVE In(n) <=> n >= e
  <2>1. In(n) <=> \E r \in 1 .. n - m + 1 : StandsAt(p, s, r)
    BY FoundIn
  <2>2. n >= e => q \in 1 .. n - m + 1
    BY <1>1
  <2>3. n < e => \A r \in 1 .. n - m + 1 : r \in 1 .. q - 1
    BY <1>1
  <2>4. n \in Int /\ e \in Int
    BY <1>1
  <2> HIDE DEF In, e, m
  <2>5. StandsAt(p, s, q) /\ \A r \in 1 .. q - 1 : ~StandsAt(p, s, r)
    OBVIOUS
  <2>6. CASE n >= e
    <3>1. q \in 1 .. n - m + 1
      BY <2>2, <2>6
    <3> QED
      BY <2>1, <2>5, <2>6, <3>1, Zenon
  <2>7. CASE n < e
    <3>1. ~(n >= e)
      BY <2>4, <2>7
    <3> QED
      BY <2>1, <2>3, <2>5, <2>7, <3>1, Zenon
  <2> QED
    BY <2>4, <2>6, <2>7
<1> DEFINE IsLast(i) == In(i) /\ \A j \in 0 .. i - 1 : ~In(j)
           last == CHOOSE i \in 0 .. Len(s) : IsLast(i)
<1>3. last = e
  <2>1. IsLast(e)
    <3> HIDE DEF In, e
    <3>1. In(e)
      BY <1>1, <1>2
    <3>2. \A j \in 0 .. e - 1 : j \in 0 .. Len(s) /\ ~(j >= e)
      BY <1>1
    <3> QED
      BY <1>2, <3>1, <3>2
  <2>2. ASSUME NEW i \in 0 .. Len(s), IsLast(i) PROVE i = e
    <3> HIDE DEF In, e
    <3>1. i >= e
      BY <1>2, <2>2
    <3>2. ~(i > e)
      <4>1. i > e => e \in 0 .. i - 1
        BY <1>1
      <4>2. In(e)
        BY <1>1, <1>2
      <4> QED
        BY <2>2, <4>1, <4>2
    <3> QED
      BY <1>1, <3>1, <3>2
  <2> HIDE DEF IsLast, e
  <2> QED
    BY <1>1, <2>1, <2>2
<1>4. IndexFirstSubSeq(p, s) = last - (m - 1)
  BY DEF IndexFirstSubSeq
<1>5. IndexFirstSubSeq(p, s) = q
  <2> HIDE DEF last
  <2> QED
    BY <1>1, <1>3, <1>4
<1>6. p \in SubSeqs(s)
  <2>1. SubSeq(s, 1, Len(s)) = s
    BY SubSeqFull
  <2>2. Len(s) \in 0 .. Len(s) /\ Len(s) >= e
    BY <1>1
  <2>3. In(Len(s))
    <3> HIDE DEF In, e
    <3> QED
      BY <1>2, <2>2
  <2> QED
    BY <2>1, <2>3
<1>7. ReplaceFirstSubSeq(<<>>, p, s) = ReplaceSubSeqAt(q, <<>>, p, s)
  BY <1>5, <1>6 DEF ReplaceFirstSubSeq
<1> DEFINE l == SubSeq(s, 1, q - 1)  t == SubSeq(s, q + m, Len(s))
<1>8. ReplaceSubSeqAt(q, <<>>, p, s) = l \o <<>> \o t
  BY DEF ReplaceSubSeqAt
<1>9. l \in Seq(T)
  <2>1. q - 1 \in Nat /\ 1 <= q - 1 + 1 /\ q - 1 <= Len(s)
    BY <1>1
  <2> QED
    BY <2>1, PartIs
<1>10. l \o <<>> = l
  <2> HIDE DEF l
  <2> QED
    BY <1>9, ConcatEmptySeq
<1> QED
  BY <1>7, <1>8, <1>10

\* A prefix is the first occurrence.
LEMMA PrefixErased ==
  ASSUME NEW T, NEW s \in Seq(T), NEW p \in Seq(T), IsPrefix(p, s)
  PROVE  LET r == ReplaceFirstSubSeq(<<>>, p, s) IN r \in Seq(T) /\ s = p \o r
<1> DEFINE m == Len(p)  t == SubSeq(s, 1 + m, Len(s))
<1>1. Len(s) \in Nat /\ m \in Nat /\ m <= Len(s)
  BY LenProperties DEF IsPrefix
<1>2. p = SubSeq(s, 1, m)
  <2>1. SubSeq(p, 1, Len(p)) = p
    BY SubSeqFull
  <2> QED
    BY <2>1 DEF IsPrefix
<1>3. ReplaceFirstSubSeq(<<>>, p, s) = SubSeq(s, 1, 1 - 1) \o t
  <2>1. 1 \in 1 .. Len(s) - m + 1 /\ 1 + m - 1 = m /\ 1 .. 1 - 1 = {}
    BY <1>1
  <2>2. StandsAt(p, s, 1)
    BY <1>2, <2>1 DEF StandsAt
  <2> QED
    BY <2>1, <2>2, FirstErased
<1>4. SubSeq(s, 1, 0) = <<>>
  BY SubSeqEmpty
<1>5. t \in Seq(T)
  <2>1. 1 + m \in Nat /\ 1 <= 1 + m /\ 1 + m <= Len(s) + 1 /\ Len(s) <= Len(s)
    BY <1>1
  <2> QED
    BY <1>1, <2>1, PartIs
<1>6. ReplaceFirstSubSeq(<<>>, p, s) = t
  <2> HIDE DEF t
  <2>1. <<>> \o t = t
    BY <1>5, ConcatEmptySeq
  <2>2. 1 - 1 = 0
    OBVIOUS
  <2> QED
    BY <1>3, <1>4, <2>1, <2>2
<1>7. SubSeq(s, 1, m) \o t = s
  <2>1. 1 \in 1 .. Len(s) + 1 /\ m \in 1 - 1 .. Len(s) /\ Len(s) \in m .. Len(s)
    BY <1>1
  <2>2. SubSeq(s, 1, m) \o SubSeq(s, m + 1, Len(s)) = SubSeq(s, 1, Len(s))
    <3> HIDE DEF m
    <3> QED
      BY <2>1, ConcatAdjacentSubSeq
  <2>3. SubSeq(s, 1, Len(s)) = s /\ 1 + m = m + 1
    BY <1>1, SubSeqFull
  <2> QED
    BY <2>2, <2>3
<1> QED
  BY <1>2, <1>5, <1>6, <1>7

\* trim_start_if leaves a string that begins with a character to be kept.
LEMMA FirstKept ==
  ASSUME NEW T, NEW s \in Seq(T), Len(s) >= 1, NEW drop, s[1] \notin drop
  PROVE  TrimStartIf(s, drop) = s
<1> DEFINE kept == {k \in 1 .. Len(s) : s[k] \notin drop}
           first == CHOOSE k \in kept : \A j \in kept : k <= j
<1>1. Len(s) \in Nat
  BY LenProperties
<1>2. 1 \in kept
  BY <1>1
<1>3. first = 1
  <2>1. \A j \in kept : j \in Int /\ 1 <= j
    OBVIOUS
  <2> HIDE DEF kept
  <2>2. \A k \in kept : (\A j \in kept : k <= j) => k = 1
    <3> TAKE k \in kept
    <3> HAVE \A j \in kept : k <= j
    <3>1. k <= 1 /\ 1 <= k /\ k \in Int
      BY <1>2, <2>1
    <3> QED
      BY <3>1
  <2> QED
    BY <1>2, <2>1, <2>2
<1>4. TrimStartIf(s, drop) = SubSeq(s, first, Len(s))
  <2>1. kept # {}
    BY <1>2
  <2> QED
    BY <2>1 DEF TrimStartIf
<1> HIDE DEF first
<1> QED
  BY <1>3, <1>4, SubSeqFull

\* trim drops a blank in front.
LEMMA BlankDropped ==
  ASSUME NEW T, NEW s \in Seq(T), NEW b \in T
  PROVE  Trim(<<b>> \o s, {b}) = Trim(s, {b})
<1> DEFINE n == Len(s)
           l == <<b>> \o s
           kept(u) == {k \in 1 .. Len(u) : u[k] \notin {b}}
           first(u) == CHOOSE k \in kept(u) : \A j \in kept(u) : k <= j
<1>1. n \in Nat
  BY LenProperties
<1>2. l \in Seq(T) /\ Len(l) = n + 1 /\ l[1] = b /\ \A k \in 1 .. n : l[k + 1] = s[k]
  <2>1. <<b>> \in Seq(T) /\ Len(<<b>>) = 1 /\ <<b>>[1] = b
    OBVIOUS
  <2>2. /\ l \in Seq(T) /\ Len(l) = 1 + n
        /\ \A k \in 1 .. 1 + n : l[k] = IF k <= 1 THEN <<b>>[k] ELSE s[k - 1]
    <3> DEFINE h == <<b>>
    <3> HIDE DEF h
    <3>1. h \in Seq(T) /\ Len(h) = 1
      BY <2>1 DEF h
    <3>2. /\ h \o s \in Seq(T)
          /\ Len(h \o s) = Len(h) + Len(s)
          /\ \A k \in 1 .. Len(h) + Len(s) :
               (h \o s)[k] = IF k <= Len(h) THEN h[k] ELSE s[k - Len(h)]
      BY <3>1, ConcatProperties
    <3> QED
      BY <3>1, <3>2 DEF h
  <2>3. \A k \in 1 .. n : k + 1 \in 1 .. 1 + n /\ ~(k + 1 <= 1) /\ k + 1 - 1 = k
    BY <1>1
  <2> HIDE DEF l
  <2> QED
    BY <1>1, <2>1, <2>2, <2>3
<1> HIDE DEF l
<1>3. \A k \in Nat : k + 1 \in kept(l) <=> k \in kept(s)
  <2> TAKE k \in Nat
  <2>1. CASE k = 0
    BY <1>2, <2>1
  <2>2. CASE k # 0
    <3>1. k + 1 \in 1 .. n + 1 <=> k \in 1 .. n
      BY <1>1, <2>2
    <3> QED
      BY <1>2, <3>1
  <2> QED
    BY <2>1, <2>2
<1>4. kept(s) \subseteq Nat /\ \A k \in kept(l) : k \in Nat /\ k - 1 \in Nat
  <2>1. \A k \in kept(l) : k \in 1 .. n + 1
    BY <1>2
  <2> QED
    BY <1>1, <2>1
<1> HIDE DEF kept
<1>5. TrimStartIf(l, {b}) = TrimStartIf(s, {b})
  <2>1. CASE kept(s) = {}
    <3>1. kept(l) = {}
      <4> SUFFICES ASSUME NEW k \in kept(l) PROVE FALSE
        OBVIOUS
      <4>1. k - 1 \in kept(s)
        BY <1>3, <1>4
      <4> QED
        BY <2>1, <4>1
    <3> QED
      BY <2>1, <3>1 DEF TrimStartIf, kept
  <2>2. CASE kept(s) # {}
    <3>1. PICK x \in kept(s) : \A j \in kept(s) : x <= j
      BY <1>4, <2>2, Least
    <3>2. x \in Nat /\ x \in 1 .. n
      BY <1>4 DEF kept
    <3>3. first(s) = x
      <4>1. \A k \in kept(s) : (\A j \in kept(s) : k <= j) => k = x
        <5> TAKE k \in kept(s)
        <5> HAVE \A j \in kept(s) : k <= j
        <5>1. k <= x /\ x <= k /\ k \in Nat
          BY <1>4, <3>1
        <5> QED
          BY <3>2, <5>1
      <4> QED
        BY <3>1, <4>1
    <3>4. x + 1 \in kept(l)
      BY <1>3, <3>2
    <3>5. \A j \in kept(l) : x + 1 <= j
      <4> TAKE j \in kept(l)
      <4>1. j - 1 \in kept(s) /\ j - 1 \in Nat /\ j \in Nat
        BY <1>3, <1>4
      <4>2. x <= j - 1
        BY <3>1, <4>1
      <4> QED
        BY <3>2, <4>1, <4>2
    <3>6. first(l) = x + 1
      <4>1. \A k \in kept(l) : (\A j \in kept(l) : k <= j) => k = x + 1
        <5> TAKE k \in kept(l)
        <5> HAVE \A j \in kept(l) : k <= j
        <5>1. k <= x + 1 /\ x + 1 <= k /\ k \in Nat
          BY <1>4, <3>4, <3>5
        <5> QED
          BY <3>2, <5>1
      <4> QED
        BY <3>4, <3>5, <4>1
    <3>7. /\ TrimStartIf(s, {b}) = SubSeq(s, first(s), Len(s))
          /\ TrimStartIf(l, {b}) = SubSeq(l, first(l), Len(l))
      BY <2>2, <3>4 DEF TrimStartIf, kept
    <3> HIDE DEF first
    <3> DEFINE u == SubSeq(s, x, n)  v == SubSeq(l, x + 1, n + 1)
    <3>8. /\ u \in Seq(T) /\ Len(u) = n - x + 1
          /\ \A k \in 1 .. n - x + 1 : u[k] = s[x + k - 1]
      <4>1. 1 <= x /\ x <= n + 1 /\ n <= Len(s)
        BY <1>1, <3>2
      <4> QED
        BY <1>1, <3>2, <4>1, PartIs
    <3>9. /\ v \in Seq(T) /\ Len(v) = n - x + 1
          /\ \A k \in 1 .. n - x + 1 : v[k] = l[x + 1 + k - 1]
      <4>1. 1 <= x + 1 /\ x + 1 <= n + 1 + 1 /\ n + 1 <= Len(l) /\ x + 1 \in Nat
            /\ n + 1 \in Nat /\ n + 1 - (x + 1) + 1 = n - x + 1
        BY <1>1, <1>2, <3>2
      <4> QED
        BY <1>2, <4>1, PartIs
    <3> HIDE DEF u, v
    <3>10. \A k \in 1 .. n - x + 1 : u[k] = v[k]
      <4> TAKE k \in 1 .. n - x + 1
      <4> DEFINE i == x + k - 1
      <4>1. i \in 1 .. n /\ x + 1 + k - 1 = i + 1
        BY <1>1, <3>2
      <4> HIDE DEF i
      <4>2. l[i + 1] = s[i]
        BY <1>2, <4>1
      <4>3. u[k] = s[i] /\ v[k] = l[i + 1]
        BY <3>8, <3>9, <4>1 DEF i
      <4> QED
        BY <4>2, <4>3
    <3>11. u = v
      BY <3>8, <3>9, <3>10, SeqEqual
    <3> QED
      BY <1>2, <3>3, <3>6, <3>7, <3>11 DEF u, v
  <2> QED
    BY <2>1, <2>2
<1> QED
  BY <1>5 DEF Trim, l

----------------------------------------------------------------------------
(* The answer.                                                             *)

WholeText == Prompt(call.text) \o call.generated

Fed == Len(call.text) + 1

\* A stop prompt is found when n characters are out.
StoppedAt(n) ==
  \E i \in DOMAIN call.stops : IsSuffix(call.stops[i], SubSeq(WholeText, 1, n))

\* What inference gave: the beginning of the whole up to the first stop.
InferredInv ==
  pc \in {"deliver", "cut", "returned"} =>
    /\ \E n \in 1 .. Len(WholeText) :
         /\ res = SubSeq(WholeText, 1, n)
         /\ StoppedAt(n) \/ n = Len(WholeText)
         /\ \A m \in Fed .. n - 1 : ~StoppedAt(m)

Fits == pc \in {"cut", "returned"} /\ Len(res) < call.tokens

\* o is res without the text at the front and some of the first k stop prompts
\* at the end, l are the other stop prompts.
CutSoFar(o, l) ==
  /\ o \in Seq(Chars)
  /\ \E k \in 0 .. Len(call.stops) :
       /\ l = SubSeq(call.stops, k + 1, Len(call.stops))
       /\ \E front \in {<<>>, call.text}, cut \in [DOMAIN call.stops -> BOOLEAN] :
            /\ \A i \in DOMAIN call.stops : i > k => cut[i] = FALSE
            /\ res = (front \o o) \o Rest(cut)

CutInv == Fits => CutSoFar(out, left)

AnswerInv == call \in Calls /\ InferredInv /\ CutInv

\* The strings of a call.
LEMMA CallTyped ==
  ASSUME call \in Calls
  PROVE  /\ call.text \in Seq(Chars)
         /\ call.generated \in Seq(Chars)
         /\ call.stops \in Seq(Seq(Chars))
         /\ DOMAIN call.stops = 1 .. Len(call.stops)
         /\ Len(call.stops) \in Nat
         /\ \A i \in DOMAIN call.stops : call.stops[i] \in Seq(Chars)
<1>1. call.text \in Seq(Chars) /\ call.generated \in Seq(Chars)
      /\ call.stops \in Seq(Seq(Chars))
  BY CallsAssumption
<1> DEFINE s == call.stops
<1>2. s \in Seq(Seq(Chars))
  BY <1>1
<1> HIDE DEF s
<1>3. DOMAIN s = 1 .. Len(s) /\ Len(s) \in Nat
  BY <1>2, LenProperties
<1>4. \A i \in DOMAIN s : s[i] \in Seq(Chars)
  BY <1>2, <1>3, ElementOfSeq
<1> QED
  BY <1>1, <1>3, <1>4 DEF s

\* The prompt is a blank and the text.
LEMMA WholeIs ==
  ASSUME call \in Calls
  PROVE  /\ WholeText \in Seq(Chars)
         /\ Fed \in Nat /\ Len(WholeText) \in Nat /\ Len(call.text) \in Nat
         /\ Fed = Len(call.text) + 1 /\ Len(WholeText) >= Fed
         /\ WholeText[1] = Blank
         /\ \A k \in 1 .. Len(call.text) : WholeText[k + 1] = call.text[k]
<1> DEFINE b == <<Blank>>  t == call.text  g == call.generated  p == b \o t
<1>1. b \in Seq(Chars) /\ Len(b) = 1 /\ b[1] = Blank
  BY CharsAssumption
<1>2. t \in Seq(Chars) /\ g \in Seq(Chars) /\ Len(t) \in Nat /\ Len(g) \in Nat
  BY CallTyped, LenProperties
<1>3. Fed = Len(t) + 1 /\ WholeText = p \o g
  BY DEF Fed, WholeText, Prompt
<1> HIDE DEF b, t, g
<1>4. /\ p \in Seq(Chars) /\ Len(p) = Len(b) + Len(t)
      /\ \A k \in 1 .. Len(b) + Len(t) : p[k] = IF k <= Len(b) THEN b[k] ELSE t[k - Len(b)]
  BY <1>1, <1>2, ConcatProperties
<1> HIDE DEF p
<1>5. /\ p \o g \in Seq(Chars) /\ Len(p \o g) = Len(p) + Len(g)
      /\ \A k \in 1 .. Len(p) + Len(g) :
           (p \o g)[k] = IF k <= Len(p) THEN p[k] ELSE g[k - Len(p)]
  <2>1. p \in Seq(Chars) /\ g \in Seq(Chars)
    BY <1>2, <1>4
  <2> QED
    BY <2>1, ConcatProperties
<1>6. \A k \in 1 .. Len(t) + 1 : (p \o g)[k] = IF k = 1 THEN Blank ELSE t[k - 1]
  <2> TAKE k \in 1 .. Len(t) + 1
  <2>1. k \in 1 .. Len(p) + Len(g) /\ k <= Len(p) /\ k \in 1 .. Len(b) + Len(t)
    BY <1>1, <1>2, <1>4
  <2>2. (p \o g)[k] = IF k <= Len(b) THEN b[k] ELSE t[k - Len(b)]
    BY <1>4, <1>5, <2>1
  <2> QED
    BY <1>1, <1>2, <2>2
<1>7. \A k \in 1 .. Len(t) : (p \o g)[k + 1] = t[k]
  <2> TAKE k \in 1 .. Len(t)
  <2> DEFINE m == k + 1
  <2>1. m \in 1 .. Len(t) + 1 /\ m # 1 /\ m - 1 = k
    BY <1>2
  <2> HIDE DEF m
  <2>2. (p \o g)[m] = t[k]
    BY <1>6, <2>1
  <2> QED
    BY <2>2 DEF m
<1>8. (p \o g)[1] = Blank
  <2>1. 1 \in 1 .. Len(t) + 1
    BY <1>2
  <2> QED
    BY <1>6, <2>1
<1>9. WholeText \in Seq(Chars) /\ Len(WholeText) = Len(t) + 1 + Len(g)
  BY <1>1, <1>2, <1>3, <1>4, <1>5
<1> QED
  BY <1>2, <1>3, <1>7, <1>8, <1>9 DEF t

\* What is known of res.
LEMMA ResIs ==
  ASSUME AnswerInv, pc \in {"deliver", "cut", "returned"}
  PROVE  /\ res \in Seq(Chars)
         /\ Len(res) \in 1 .. Len(WholeText)
         /\ res = SubSeq(WholeText, 1, Len(res))
         /\ \A k \in 1 .. Len(res) : res[k] = WholeText[k]
         /\ StoppedAt(Len(res)) \/ Len(res) = Len(WholeText)
         /\ \A m \in Fed .. Len(res) - 1 : ~StoppedAt(m)
<1>1. PICK n \in 1 .. Len(WholeText) :
        /\ res = SubSeq(WholeText, 1, n)
        /\ StoppedAt(n) \/ n = Len(WholeText)
        /\ \A m \in Fed .. n - 1 : ~StoppedAt(m)
  BY DEF AnswerInv, InferredInv
<1>2. WholeText \in Seq(Chars) /\ Len(WholeText) \in Nat
  BY WholeIs DEF AnswerInv
<1>3. res \in Seq(Chars) /\ Len(res) = n /\ \A k \in 1 .. n : res[k] = WholeText[k]
  <2>1. n \in Nat /\ 1 <= n + 1 /\ n <= Len(WholeText) /\ n - 1 + 1 = n
        /\ \A k \in 1 .. n : 1 + k - 1 = k
    BY <1>2
  <2> QED
    BY <1>1, <1>2, <2>1, PartIs
<1> QED
  BY <1>1, <1>3

----------------------------------------------------------------------------
(* What is cut off at the end.                                             *)

Entries(cut) == [i \in DOMAIN call.stops |-> IF cut[i] THEN call.stops[i] ELSE <<>>]

\* Each stop prompt adds itself or nothing.
LEMMA EntriesTyped ==
  ASSUME call \in Calls, NEW cut \in [DOMAIN call.stops -> BOOLEAN]
  PROVE  /\ Entries(cut) \in [1 .. Len(call.stops) -> Seq(Chars)]
         /\ Rest(cut) = FlattenSeq(Reverse(Entries(cut)))
<1>1. <<>> \in Seq(Chars)
  BY EmptySeq
<1>2. Entries(cut) \in [1 .. Len(call.stops) -> Seq(Chars)]
  <2>1. \A i \in DOMAIN call.stops :
          (IF cut[i] THEN call.stops[i] ELSE <<>>) \in Seq(Chars)
    BY <1>1, CallTyped
  <2> QED
    BY <2>1, CallTyped DEF Entries
<1> QED
  BY <1>2 DEF Rest, Entries

LEMMA RestTyped ==
  ASSUME call \in Calls, NEW cut \in [DOMAIN call.stops -> BOOLEAN]
  PROVE  Rest(cut) \in Seq(Chars)
<1> DEFINE E == Entries(cut)  N == Len(call.stops)  rE == Reverse(E)
<1>1. E \in [1 .. N -> Seq(Chars)] /\ N \in Nat /\ Rest(cut) = FlattenSeq(rE)
  BY EntriesTyped, CallTyped
<1> HIDE DEF E, N
<1>2. Len(E) = N
  <2>1. E \in Seq(Seq(Chars))
    BY <1>1, SeqDef
  <2> QED
    BY <1>1, <2>1, LenProperties
<1>3. rE \in [1 .. N -> Seq(Chars)]
  <2>1. rE = [i \in 1 .. N |-> E[N - i + 1]]
    BY <1>2 DEF Reverse
  <2>2. \A i \in 1 .. N : N - i + 1 \in 1 .. N
    BY <1>1
  <2>3. \A i \in 1 .. N : E[N - i + 1] \in Seq(Chars)
    BY <1>1, <2>2
  <2> QED
    BY <2>1, <2>3
<1>4. CASE N = 0
  <2>1. rE = <<>>
    BY <1>2, <1>4 DEF Reverse
  <2>2. FlattenSeq(rE) = <<>>
    BY <2>1 DEF FlattenSeq
  <2> QED
    BY <1>1, <2>2, EmptySeq
<1>5. CASE N # 0
  <2> HIDE DEF rE
  <2>1. PICK f : Flattens(f, rE, N, Chars)
    BY <1>1, <1>3, <1>5, FlattenEach
  <2>2. f[N] \in Seq(Chars) /\ FlattenSeq(rE) = f[N]
    BY <1>1, <1>5, <2>1 DEF Flattens
  <2> QED
    BY <1>1, <2>2
<1> QED
  BY <1>4, <1>5

\* Nothing is found, nothing is cut off ...
LEMMA RestOfNothing ==
  ASSUME call \in Calls
  PROVE  Rest([i \in DOMAIN call.stops |-> FALSE]) = <<>>
<1> DEFINE none == [i \in DOMAIN call.stops |-> FALSE]  N == Len(call.stops)
<1>1. none \in [DOMAIN call.stops -> BOOLEAN]
  OBVIOUS
<1>2. Entries(none) = [i \in 1 .. N |-> <<>>] /\ N \in Nat
  BY CallTyped DEF Entries
<1> HIDE DEF none, N
<1>3. FlattenSeq(Reverse(Entries(none))) = <<>>
  BY <1>2, FlattenNothing
<1>4. Rest(none) = <<>>
  BY <1>1, <1>3, EntriesTyped
<1> QED
  BY <1>4 DEF none

\* ... and the next one that is found comes in front.
LEMMA RestGrows ==
  ASSUME call \in Calls, NEW cut \in [DOMAIN call.stops -> BOOLEAN],
         NEW k \in 1 .. Len(call.stops),
         \A i \in DOMAIN call.stops : i >= k => cut[i] = FALSE
  PROVE  Rest([cut EXCEPT ![k] = TRUE]) = call.stops[k] \o Rest(cut)
<1> DEFINE N == Len(call.stops)  E == Entries(cut)  x == call.stops[k]
           cutk == [cut EXCEPT ![k] = TRUE]
<1>1. DOMAIN call.stops = 1 .. N /\ N \in Nat /\ x \in Seq(Chars)
  BY CallTyped
<1>2. E \in [1 .. N -> Seq(Chars)] /\ Rest(cut) = FlattenSeq(Reverse(E))
  BY EntriesTyped
<1>3. cutk \in [DOMAIN call.stops -> BOOLEAN]
  BY <1>1
<1>4. \A i \in k .. N : E[i] = <<>>
  <2> TAKE i \in k .. N
  <2>1. i \in DOMAIN call.stops /\ i >= k
    BY <1>1
  <2> QED
    BY <2>1 DEF Entries
<1>5. Entries(cutk) = [E EXCEPT ![k] = x]
  BY <1>1 DEF Entries
<1>6. Rest(cutk) = FlattenSeq(Reverse(Entries(cutk)))
  <2> HIDE DEF cutk
  <2> QED
    BY <1>3, EntriesTyped
<1>7. FlattenSeq(Reverse(Entries(cutk))) = x \o FlattenSeq(Reverse(E))
  <2> DEFINE D == Entries(cutk)
  <2>1. k \in 1 .. N
    OBVIOUS
  <2> HIDE DEF E, x, N
  <2>2. D \in [1 .. N -> Seq(Chars)] /\ PutAt(D, E, N, k, x, Chars)
    BY <1>1, <1>2, <1>4, <1>5, <2>1 DEF PutAt
  <2> HIDE DEF D
  <2>3. FlattenSeq(Reverse(D)) = x \o FlattenSeq(Reverse(E))
    BY <2>2, FlattenFirst
  <2> QED
    BY <2>3 DEF D
<1> HIDE DEF E, x, cutk
<1>8. Rest(cutk) = x \o Rest(cut)
  BY <1>2, <1>6, <1>7
<1> QED
  BY <1>8 DEF cutk, x

----------------------------------------------------------------------------
(* The steps.                                                              *)

\* What predict has cut off at the front of an output that fits.
LEMMA DeliverGives ==
  ASSUME AnswerInv, Deliver, Len(res) < call.tokens
  PROVE  \/ out' = res
         \/ out' \in Seq(Chars) /\ res = call.text \o out'
<1> DEFINE trimmed == TrimStartIf(res, Dropped(res))
<1>1. pc = "deliver" /\ call \in Calls
  BY DEF Deliver, AnswerInv
<1>2. /\ res \in Seq(Chars) /\ call.text \in Seq(Chars)
      /\ Len(res) >= 1 /\ res[1] = Blank
  <2>1. WholeText[1] = Blank /\ call.text \in Seq(Chars)
    BY <1>1, WholeIs, CallTyped
  <2>2. /\ res \in Seq(Chars) /\ Len(res) \in 1 .. Len(WholeText)
        /\ \A k \in 1 .. Len(res) : res[k] = WholeText[k]
    BY <1>1, ResIs
  <2>3. 1 \in 1 .. Len(res)
    BY <2>2
  <2> QED
    BY <2>1, <2>2, <2>3
<1>3. trimmed = res
  <2>1. res[1] \notin Dropped(res)
    BY <1>2 DEF Dropped
  <2> QED
    BY <1>2, <2>1, FirstKept
<1>4. out' = IF IsPrefix(call.text, res) THEN TrimStart(call.boost, res, call.text) ELSE res
  <2>1. \E string \in Delivered :
          LET t == TrimStartIf(string, Dropped(string))
          IN  out' = IF IsPrefix(call.text, t)
                     THEN TrimStart(call.boost, t, call.text) ELSE t
    BY DEF Deliver
  <2>2. Delivered = {res}
    BY DEF Delivered
  <2> QED
    BY <1>3, <2>1, <2>2
<1>5. CASE out' # res
  <2>1. IsPrefix(call.text, res) /\ out' = ReplaceFirstSubSeq(<<>>, call.text, res)
    BY <1>4, <1>5 DEF TrimStart
  <2> DEFINE t == call.text  r == ReplaceFirstSubSeq(<<>>, t, res)
  <2>2. t \in Seq(Chars) /\ IsPrefix(t, res)
    BY <1>2, <2>1
  <2> HIDE DEF t
  <2>3. r \in Seq(Chars) /\ res = t \o r
    BY <1>2, <2>2, PrefixErased
  <2> QED
    BY <2>1, <2>3 DEF t
<1> QED
  BY <1>5

\* CutSoFar says the same of the next state if res stays.
LEMMA CutSoFarPrimed ==
  ASSUME call' = call, res' = res
  PROVE  CutSoFar(out, left)' <=> CutSoFar(out', left')
<1>1. \A cut : Rest(cut)' = Rest(cut)
  BY DEF Rest
<1> QED
  BY <1>1, ZenonT(30) DEF CutSoFar

\* When the output is delivered no stop prompt is cut off yet.
LEMMA DeliverCuts ==
  ASSUME AnswerInv, Deliver
  PROVE  CutInv'
<1> SUFFICES ASSUME Fits' PROVE CutInv'
  BY DEF CutInv
<1>1. /\ call \in Calls /\ pc = "deliver" /\ pc' = "cut" /\ left' = call.stops
      /\ UNCHANGED <<call, res>>
  BY DEF AnswerInv, Deliver
<1>2. Len(res) < call.tokens
  BY <1>1 DEF Fits
<1>3. res \in Seq(Chars) /\ call.text \in Seq(Chars)
  BY <1>1, ResIs, CallTyped
<1> DEFINE none == [i \in DOMAIN call.stops |-> FALSE]
<1>4. none \in [DOMAIN call.stops -> BOOLEAN] /\ Rest(none) = <<>>
      /\ \A i \in DOMAIN call.stops : none[i] = FALSE
  BY <1>1, RestOfNothing
<1>5. call.stops \in Seq(Seq(Chars)) /\ Len(call.stops) \in Nat
  BY <1>1, CallTyped
<1>6. call.stops = SubSeq(call.stops, 0 + 1, Len(call.stops))
  <2> DEFINE s == call.stops
  <2>1. s \in Seq(Seq(Chars))
    BY <1>5
  <2> HIDE DEF s
  <2>2. SubSeq(s, 1, Len(s)) = s /\ 0 + 1 = 1
    BY <2>1, SubSeqFull
  <2> QED
    BY <2>2 DEF s
<1>7. out' \in Seq(Chars)
  BY <1>2, <1>3, DeliverGives
<1>8. PICK front \in {<<>>, call.text} : res = (front \o out') \o <<>>
  <2>1. CASE out' = res
    <3>1. <<>> \o res = res /\ res \o <<>> = res
      BY <1>3, ConcatEmptySeq
    <3>2. res = (<<>> \o out') \o <<>>
      BY <2>1, <3>1
    <3> QED
      BY <3>2
  <2>2. CASE out' # res
    <3>1. res = call.text \o out'
      BY <1>2, <2>2, DeliverGives
    <3>2. res \o <<>> = res
      BY <1>3, ConcatEmptySeq
    <3>3. res = (call.text \o out') \o <<>>
      BY <3>1, <3>2
    <3> QED
      BY <3>3
  <2> QED
    BY <2>1, <2>2
<1> HIDE DEF none
<1>9. CutSoFar(out', left')
  <2>1. res = (front \o out') \o Rest(none)
    BY <1>4, <1>8
  <2>2. \A i \in DOMAIN call.stops : i > 0 => none[i] = FALSE
    BY <1>4
  <2>3. 0 \in 0 .. Len(call.stops) /\ left' = SubSeq(call.stops, 0 + 1, Len(call.stops))
    BY <1>1, <1>5, <1>6
  <2> QED
    BY <1>4, <1>7, <2>1, <2>2, <2>3, Zenon DEF CutSoFar
<1> QED
  BY <1>1, <1>9, CutSoFarPrimed DEF CutInv

\* A suffix moves from what is left to what is cut off.
FourIn(f, o, x, r, S) == ThreeIn(f, o, x, S) /\ r \in S

LEMMA SuffixMoves ==
  ASSUME NEW T, NEW f, NEW o, NEW x, NEW r, FourIn(f, o, x, r, Seq(T))
  PROVE  (f \o (o \o x)) \o r = (f \o o) \o (x \o r)
<1>1. f \in Seq(T) /\ o \in Seq(T) /\ x \in Seq(T) /\ r \in Seq(T)
  BY DEF FourIn, ThreeIn
<1>2. (f \o o) \o x = f \o (o \o x)
  BY Regroup DEF FourIn
<1> DEFINE fo == f \o o
<1>3. fo \in Seq(T)
  BY <1>1, ConcatProperties
<1> HIDE DEF fo
<1>4. ThreeIn(fo, x, r, Seq(T))
  BY <1>1, <1>3 DEF ThreeIn
<1>5. (fo \o x) \o r = fo \o (x \o r)
  BY <1>4, Regroup
<1> QED
  BY <1>2, <1>5 DEF fo

\* What a turn of the loop over the stop prompts cuts off.
LEMMA CutStopGives ==
  ASSUME AnswerInv, CutStop, Len(res) < call.tokens
  PROVE  /\ \E k \in DOMAIN call.stops : out' = TrimEnd(out, call.stops[k])
         /\ CutSoFar(out', left')
<1> DEFINE stops == call.stops  N == Len(stops)
<1>1. call \in Calls /\ left # <<>> /\ CutSoFar(out, left)
      /\ out' = TrimEnd(out, Head(left)) /\ left' = Tail(left)
  BY DEF AnswerInv, CutInv, Fits, CutStop
<1>2. stops \in Seq(Seq(Chars)) /\ N \in Nat /\ DOMAIN stops = 1 .. N
      /\ \A i \in DOMAIN stops : stops[i] \in Seq(Chars)
  BY <1>1, CallTyped
<1>3. PICK k \in 0 .. N :
        /\ left = SubSeq(stops, k + 1, N)
        /\ \E front \in {<<>>, call.text}, cut \in [DOMAIN stops -> BOOLEAN] :
             /\ \A i \in DOMAIN stops : i > k => cut[i] = FALSE
             /\ res = (front \o out) \o Rest(cut)
  BY <1>1 DEF CutSoFar
<1>4. PICK front \in {<<>>, call.text}, cut \in [DOMAIN stops -> BOOLEAN] :
        /\ \A i \in DOMAIN stops : i > k => cut[i] = FALSE
        /\ res = (front \o out) \o Rest(cut)
  BY <1>3
<1>5. front \in Seq(Chars) /\ out \in Seq(Chars) /\ Rest(cut) \in Seq(Chars)
  <2>1. <<>> \in Seq(Chars) /\ call.text \in Seq(Chars)
    BY <1>1, CallTyped, EmptySeq
  <2> QED
    BY <1>1, <2>1, RestTyped DEF CutSoFar
<1> DEFINE j == k + 1  x == stops[j]
<1>6. j \in 1 .. N
  <2>1. k = N => left = <<>>
    <3>1. k = N => N < k + 1 /\ k + 1 \in Int
      BY <1>2
    <3> HIDE DEF N, stops
    <3> QED
      BY <1>2, <1>3, <3>1, SubSeqEmpty
  <2> QED
    BY <1>1, <1>2, <2>1
<1>7. j = k + 1 /\ x \in Seq(Chars)
  BY <1>2, <1>6
<1>8. Head(left) = x /\ left' = SubSeq(stops, j + 1, N)
  <2> HIDE DEF stops, j
  <2>1. Head(SubSeq(stops, j, N)) = stops[j]
        /\ Tail(SubSeq(stops, j, N)) = SubSeq(stops, j + 1, N)
    <3>1. j \in 1 .. Len(stops) /\ Len(stops) \in j .. Len(stops)
      BY <1>2, <1>6
    <3> QED
      BY <1>2, <3>1, HeadTailOfSubSeq
  <2> QED
    BY <1>1, <1>3, <1>7, <2>1
<1> HIDE DEF stops, N, j, x
<1>9. /\ out' \in Seq(Chars)
      /\ IF IsSuffix(x, out) THEN out = out' \o x ELSE out' = out
  BY <1>1, <1>5, <1>7, <1>8, TrimEndCuts
<1>10. PICK c \in [DOMAIN stops -> BOOLEAN] :
         /\ \A i \in DOMAIN stops : i > j => c[i] = FALSE
         /\ res = (front \o out') \o Rest(c)
  <2>0. \A i \in DOMAIN stops : i > j => i > k
    BY <1>2, <1>6, <1>7
  <2>1. CASE ~IsSuffix(x, out)
    BY <1>4, <1>9, <2>0, <2>1
  <2>2. CASE IsSuffix(x, out)
    <3> DEFINE c == [cut EXCEPT ![j] = TRUE]
    <3>1. \A i \in DOMAIN stops : i >= j => cut[i] = FALSE
      BY <1>2, <1>4, <1>6, <1>7
    <3>2. Rest(c) = x \o Rest(cut)
      BY <1>1, <1>4, <1>6, <3>1, RestGrows DEF stops, N, x
    <3>3. c \in [DOMAIN stops -> BOOLEAN] /\ \A i \in DOMAIN stops : i > j => c[i] = FALSE
      BY <1>2, <1>6, <3>1
    <3>4. res = (front \o out') \o Rest(c)
      <4> DEFINE o == out'  r == Rest(cut)
      <4>1. res = (front \o (o \o x)) \o r
        BY <1>4, <1>9, <2>2
      <4>2. FourIn(front, o, x, r, Seq(Chars))
        BY <1>5, <1>7, <1>9 DEF ThreeIn, FourIn
      <4> HIDE DEF o, r, c
      <4>3. (front \o (o \o x)) \o r = (front \o o) \o (x \o r)
        BY <4>2, SuffixMoves, SMTT(20)
      <4> QED
        BY <3>2, <4>1, <4>3 DEF o, r
    <3> HIDE DEF c
    <3> QED
      BY <3>3, <3>4
  <2> QED
    BY <2>1, <2>2
<1>11. CutSoFar(out', left')
  <2>1. j \in 0 .. N
    BY <1>2, <1>6
  <2> QED
    BY <1>4, <1>8, <1>9, <1>10, <2>1, Zenon DEF CutSoFar, stops, N
<1> QED
  BY <1>1, <1>2, <1>6, <1>8, <1>11 DEF stops, x

----------------------------------------------------------------------------
(* The page.                                                               *)

\* The request is more than white space, and no stop prompt that inference
\* could have found reaches back into it.
Reaches ==
  /\ ToSet(call.text) \ {Blank} # {}
  /\ \A i \in DOMAIN call.stops : Len(res) >= Fed + Len(call.stops[i])

\* Stop prompts leave the fed prompt whole.
LongInv == Fits /\ Reaches => Len(out) >= Fed

\* Such a request does not stand at the beginning of what was fed.
LEMMA EchoNotFirst ==
  ASSUME call \in Calls, ToSet(call.text) \ {Blank} # {}
  PROVE  ~ \A k \in 1 .. Len(call.text) : WholeText[k] = call.text[k]
<1> SUFFICES ASSUME \A k \in 1 .. Len(call.text) : WholeText[k] = call.text[k]
             PROVE  FALSE
  OBVIOUS
<1> DEFINE t == call.text  K == {k \in 1 .. Len(t) : t[k] # Blank}
<1>1. /\ WholeText[1] = Blank /\ Len(t) \in Nat
      /\ \A k \in 1 .. Len(t) : WholeText[k + 1] = t[k] /\ WholeText[k] = t[k]
  BY WholeIs
<1>2. K # {} /\ K \subseteq Nat
  <2>1. t \in Seq(Chars)
    BY CallTyped
  <2>2. PICK c \in ToSet(t) : c # Blank
    OBVIOUS
  <2>3. PICK k \in DOMAIN t : t[k] = c
    BY <2>2 DEF ToSet
  <2>4. DOMAIN t = 1 .. Len(t)
    BY <2>1
  <2> QED
    BY <1>1, <2>2, <2>3, <2>4
<1>3. PICK x \in K : \A y \in K : x <= y
  <2> HIDE DEF K
  <2> QED
    BY <1>2, Least
<1>4. x \in 1 .. Len(t) /\ WholeText[x] = t[x] /\ t[x] # Blank
  BY <1>1, <1>3
<1>5. x # 1
  BY <1>1, <1>4
<1> DEFINE y == x - 1
<1>6. y \in 1 .. Len(t) /\ x = y + 1 /\ ~(x <= y)
  BY <1>1, <1>4, <1>5
<1>7. t[y] = Blank
  <2> HIDE DEF y, t
  <2>1. y \notin K
    BY <1>3, <1>6
  <2> QED
    BY <1>6, <2>1
<1>8. WholeText[x] = t[y]
  <2> HIDE DEF y, t
  <2> QED
    BY <1>1, <1>6
<1> QED
  BY <1>4, <1>7, <1>8

\* Hence it is not cut off at the front.
LEMMA FrontKept ==
  ASSUME AnswerInv, pc \in {"deliver", "cut", "returned"},
         ToSet(call.text) \ {Blank} # {}, NEW z \in Seq(Chars)
  PROVE  res # call.text \o z
<1> SUFFICES ASSUME res = call.text \o z PROVE FALSE
  OBVIOUS
<1> DEFINE t == call.text
<1>1. call \in Calls /\ t \in Seq(Chars) /\ Len(t) \in Nat /\ Len(z) \in Nat
  BY CallTyped, LenProperties DEF AnswerInv
<1>2. \A k \in 1 .. Len(res) : res[k] = WholeText[k]
  BY ResIs
<1>3. \A k \in 1 .. Len(t) : k \in 1 .. Len(res) /\ res[k] = t[k]
  <2>1. res = t \o z
    OBVIOUS
  <2> HIDE DEF t
  <2>2. /\ Len(t \o z) = Len(t) + Len(z)
        /\ \A k \in 1 .. Len(t) + Len(z) :
             (t \o z)[k] = IF k <= Len(t) THEN t[k] ELSE z[k - Len(t)]
    BY <1>1, ConcatProperties
  <2>3. \A k \in 1 .. Len(t) : k \in 1 .. Len(t) + Len(z) /\ k <= Len(t)
    BY <1>1
  <2> QED
    BY <2>1, <2>2, <2>3
<1> QED
  BY <1>1, <1>2, <1>3, EchoNotFirst

\* So stop prompts are all that is missing.
LEMMA OnlyStopsCut ==
  ASSUME AnswerInv, Fits, ToSet(call.text) \ {Blank} # {}
  PROVE  \E cut \in [DOMAIN call.stops -> BOOLEAN] :
           /\ Rest(cut) \in Seq(Chars)
           /\ Len(out) = Len(res) - Len(Rest(cut))
           /\ out \in Seq(Chars) /\ Len(out) \in Nat /\ Len(out) <= Len(res)
           /\ \A k \in 1 .. Len(out) : out[k] = res[k]
<1>1. call \in Calls /\ pc \in {"cut", "returned"} /\ CutSoFar(out, left)
  BY DEF AnswerInv, CutInv, Fits
<1>2. PICK front \in {<<>>, call.text}, cut \in [DOMAIN call.stops -> BOOLEAN] :
        res = (front \o out) \o Rest(cut)
  BY <1>1 DEF CutSoFar
<1> DEFINE r == Rest(cut)  t == call.text
<1>3. out \in Seq(Chars) /\ r \in Seq(Chars) /\ t \in Seq(Chars) /\ res \in Seq(Chars)
  BY <1>1, RestTyped, CallTyped, ResIs DEF CutSoFar
<1>4. Len(out) \in Nat /\ Len(r) \in Nat
  BY <1>3, LenProperties
<1>5. front = <<>>
  <2> SUFFICES ASSUME front = t PROVE FALSE
    BY <1>2
  <2>1. res = (t \o out) \o r
    BY <1>2
  <2> HIDE DEF r, t
  <2>2. (t \o out) \o r = t \o (out \o r) /\ out \o r \in Seq(Chars)
    <3>1. ThreeIn(t, out, r, Seq(Chars))
      BY <1>3 DEF t, ThreeIn
    <3>2. (t \o out) \o r = t \o (out \o r)
      BY <3>1, Regroup
    <3>3. out \o r \in Seq(Chars)
      BY <1>3, ConcatProperties
    <3> QED
      BY <3>2, <3>3
  <2> DEFINE z == out \o r
  <2>3. res = t \o z /\ z \in Seq(Chars)
    BY <2>1, <2>2
  <2> HIDE DEF z
  <2> QED
    BY <1>1, <2>3, FrontKept DEF t
<1>6. res = out \o r
  <2> HIDE DEF r, t
  <2>1. res = (<<>> \o out) \o r
    BY <1>2, <1>5 DEF r
  <2>2. <<>> \o out = out
    BY <1>3, ConcatEmptySeq
  <2> QED
    BY <2>1, <2>2
<1> HIDE DEF r
<1>7. /\ Len(out \o r) = Len(out) + Len(r)
      /\ \A k \in 1 .. Len(out) + Len(r) :
           (out \o r)[k] = IF k <= Len(out) THEN out[k] ELSE r[k - Len(out)]
  BY <1>3, ConcatProperties
<1>8. \A k \in 1 .. Len(out) : k \in 1 .. Len(out) + Len(r) /\ k <= Len(out)
  BY <1>4
<1>9. /\ Len(out) = Len(res) - Len(r) /\ Len(out) <= Len(res)
      /\ \A k \in 1 .. Len(out) : out[k] = res[k]
  BY <1>4, <1>6, <1>7, <1>8
<1> QED
  BY <1>2, <1>3, <1>4, <1>9 DEF r

\* What is not cut off is the beginning of what was fed and generated.
LEMMA OutIsBeginning ==
  ASSUME AnswerInv, Fits, ToSet(call.text) \ {Blank} # {}
  PROVE  /\ out \in Seq(Chars) /\ Len(out) \in Nat /\ Len(out) <= Len(res)
         /\ out = SubSeq(res, 1, Len(out)) /\ out = SubSeq(WholeText, 1, Len(out))
         /\ \A k \in 1 .. Len(out) : out[k] = WholeText[k]
<1>1. pc \in {"deliver", "cut", "returned"} /\ call \in Calls
  BY DEF Fits, AnswerInv
<1>2. /\ out \in Seq(Chars) /\ Len(out) \in Nat /\ Len(out) <= Len(res)
      /\ \A k \in 1 .. Len(out) : out[k] = res[k]
  BY OnlyStopsCut
<1>3. /\ res \in Seq(Chars) /\ Len(res) \in 1 .. Len(WholeText)
      /\ \A k \in 1 .. Len(res) : res[k] = WholeText[k]
      /\ WholeText \in Seq(Chars) /\ Len(WholeText) \in Nat
  BY <1>1, ResIs, WholeIs
<1>4. \A k \in 1 .. Len(out) : k \in 1 .. Len(res)
  BY <1>2, <1>3
<1> DEFINE n == Len(out)  a == SubSeq(res, 1, n)  b == SubSeq(WholeText, 1, n)
<1>5. n \in Nat /\ 1 <= n + 1 /\ n <= Len(res) /\ n <= Len(WholeText)
      /\ n - 1 + 1 = n /\ \A k \in 1 .. n : 1 + k - 1 = k
  BY <1>2, <1>3
<1> HIDE DEF n
<1>6. a \in Seq(Chars) /\ Len(a) = n /\ \A k \in 1 .. n : a[k] = res[k]
  BY <1>3, <1>5, PartIs
<1>7. b \in Seq(Chars) /\ Len(b) = n /\ \A k \in 1 .. n : b[k] = WholeText[k]
  BY <1>3, <1>5, PartIs
<1> HIDE DEF a, b
<1>8. out = a
  BY <1>2, <1>6, SeqEqual DEF n
<1>9. out = b
  BY <1>2, <1>3, <1>4, <1>7, SeqEqual DEF n
<1> QED
  BY <1>2, <1>3, <1>4, <1>8, <1>9 DEF a, b, n

LEMMA ReachesKept ==
  ASSUME call' = call, res' = res
  PROVE  Reaches' <=> Reaches
BY DEF Reaches, Fed

\* An output with no stop prompt in it, or one behind the fed prompt, is long.
LEMMA DeliverLong ==
  ASSUME AnswerInv, Deliver
  PROVE  LongInv'
<1> SUFFICES ASSUME Fits', Reaches' PROVE Len(out') >= Fed'
  BY DEF LongInv
<1>1. call \in Calls /\ pc = "deliver" /\ call' = call /\ res' = res /\ Fed' = Fed
  BY DEF AnswerInv, Deliver, Fed
<1>2. Len(res) < call.tokens /\ Reaches /\ ToSet(call.text) \ {Blank} # {}
  BY <1>1, ReachesKept DEF Fits, Reaches
<1>3. out' = res
  BY <1>1, <1>2, DeliverGives, FrontKept
<1>4. Len(res) >= Fed
  <2>1. /\ Fed \in Nat /\ Len(WholeText) \in Nat /\ Len(WholeText) >= Fed
        /\ Len(res) \in 1 .. Len(WholeText)
        /\ StoppedAt(Len(res)) \/ Len(res) = Len(WholeText)
    BY <1>1, WholeIs, ResIs
  <2>2. CASE Len(res) = Len(WholeText)
    BY <2>1, <2>2
  <2>3. CASE Len(res) # Len(WholeText)
    <3>1. PICK i \in DOMAIN call.stops : TRUE
      BY <2>1, <2>3 DEF StoppedAt
    <3>2. Len(call.stops[i]) \in Nat /\ Len(res) >= Fed + Len(call.stops[i])
      BY <1>1, <1>2, CallTyped, LenProperties DEF Reaches
    <3> QED
      BY <2>1, <3>2
  <2> QED
    BY <2>2, <2>3
<1> QED
  BY <1>1, <1>3, <1>4

\* Once something is cut off, no stop prompt is found again behind the fed prompt.
LEMMA CutStopLong ==
  ASSUME AnswerInv, LongInv, CutStop
  PROVE  LongInv'
<1> SUFFICES ASSUME Fits', Reaches' PROVE Len(out') >= Fed'
  BY DEF LongInv
<1>1. call \in Calls /\ pc = "cut" /\ call' = call /\ res' = res /\ Fed' = Fed
  BY DEF AnswerInv, CutStop, Fed
<1>2. Fits /\ Len(res) < call.tokens /\ Reaches /\ ToSet(call.text) \ {Blank} # {}
      /\ Len(out) >= Fed
  BY <1>1, ReachesKept DEF Fits, Reaches, LongInv
<1>3. PICK k \in DOMAIN call.stops : out' = TrimEnd(out, call.stops[k])
  BY <1>2, CutStopGives
<1> DEFINE x == call.stops[k]
<1>4. x \in Seq(Chars) /\ Len(x) \in Nat /\ Len(res) >= Fed + Len(x) /\ Fed \in Nat
  BY <1>1, <1>2, CallTyped, LenProperties, WholeIs DEF Reaches
<1>5. out \in Seq(Chars) /\ Len(out) \in Nat /\ Len(out) <= Len(res)
      /\ out = SubSeq(WholeText, 1, Len(out))
  BY <1>2, OutIsBeginning
<1>6. Len(res) \in Nat /\ \A m \in Fed .. Len(res) - 1 : ~StoppedAt(m)
  BY <1>1, ResIs, LenProperties
<1>7. IF IsSuffix(x, out) THEN Len(out') = Len(out) - Len(x) ELSE out' = out
  <2> HIDE DEF x
  <2> QED
    BY <1>3, <1>4, <1>5, TrimEndCuts DEF x
<1>8. CASE Len(out) = Len(res)
  <2> HIDE DEF x
  <2>1. Len(out') = Len(out) - Len(x) \/ Len(out') = Len(out)
    BY <1>7
  <2>2. Len(out') >= Fed
    <3> DEFINE o == Len(out)  l == Len(x)  n == Len(out')
    <3>1. l \in Nat /\ o >= Fed + l /\ Fed \in Nat /\ o \in Nat /\ (n = o - l \/ n = o)
      BY <1>4, <1>5, <1>8, <2>1
    <3> HIDE DEF o, l, n
    <3>2. n >= Fed
      BY <3>1
    <3> QED
      BY <3>2 DEF n
  <2> QED
    BY <1>1, <2>2
<1>9. CASE Len(out) < Len(res)
  <2>1. Len(out) \in Fed .. Len(res) - 1
    BY <1>2, <1>4, <1>5, <1>6, <1>9
  <2>2. ~StoppedAt(Len(out))
    BY <1>6, <2>1
  <2>3. ~IsSuffix(x, out)
    BY <1>5, <2>2 DEF StoppedAt
  <2> QED
    BY <1>1, <1>2, <1>7, <2>3
<1>10. Len(out) = Len(res) \/ Len(out) < Len(res)
  BY <1>5, <1>6
<1> QED
  BY <1>8, <1>9, <1>10

\* What the page makes of an answer that begins with the whole fed prompt.
LEMMA PageShown ==
  ASSUME AnswerInv, LongInv, Whole, Reaches
  PROVE  \E cut \in [DOMAIN call.stops -> BOOLEAN] :
           Trim(ReplaceFirstSubSeq(<<>>, call.text, out), {Blank})
             = Trim(SubSeq(res, Fed + 1, Len(res) - Len(Rest(cut))), {Blank})
<1> DEFINE t == call.text
<1>1. call \in Calls /\ Fits /\ ToSet(t) \ {Blank} # {} /\ Len(out) >= Fed
      /\ pc \in {"deliver", "cut", "returned"}
  BY DEF AnswerInv, Whole, Fits, Reaches, LongInv
<1>2. PICK cut \in [DOMAIN call.stops -> BOOLEAN] : Len(out) = Len(res) - Len(Rest(cut))
  BY <1>1, OnlyStopsCut
<1>3. /\ out \in Seq(Chars) /\ Len(out) \in Nat /\ Len(out) <= Len(res)
      /\ out = SubSeq(res, 1, Len(out)) /\ \A k \in 1 .. Len(out) : out[k] = WholeText[k]
  BY <1>1, OutIsBeginning
<1>4. /\ Len(t) \in Nat /\ t \in Seq(Chars) /\ Fed = Len(t) + 1 /\ WholeText[1] = Blank
      /\ \A k \in 1 .. Len(t) : WholeText[k + 1] = t[k]
      /\ ~ \A k \in 1 .. Len(t) : WholeText[k] = t[k]
      /\ res \in Seq(Chars)
  BY <1>1, WholeIs, CallTyped, EchoNotFirst, ResIs
<1> HIDE DEF t
<1>5. StandsAt(t, out, 2)
  <2> DEFINE m == Len(t)  u == SubSeq(out, 2, m + 1)
  <2>1. m + 1 \in Nat /\ 1 <= 2 /\ 2 <= m + 1 + 1 /\ m + 1 <= Len(out) /\ 2 \in Nat
        /\ m + 1 - 2 + 1 = m /\ 2 + m - 1 = m + 1
    BY <1>1, <1>3, <1>4
  <2>2. u \in Seq(Chars) /\ Len(u) = m /\ \A k \in 1 .. m : u[k] = out[2 + k - 1]
    BY <1>3, <2>1, PartIs
  <2>3. \A k \in 1 .. m : 2 + k - 1 = k + 1 /\ k + 1 \in 1 .. Len(out)
    BY <1>1, <1>3, <1>4
  <2> HIDE DEF u
  <2>4. \A k \in 1 .. m : u[k] = t[k]
    BY <1>3, <1>4, <2>2, <2>3
  <2>5. t = u
    BY <1>4, <2>2, <2>4, SeqEqual
  <2> QED
    BY <2>1, <2>5 DEF StandsAt, u
<1>6. ~StandsAt(t, out, 1)
  <2> SUFFICES ASSUME StandsAt(t, out, 1) PROVE FALSE
    OBVIOUS
  <2> DEFINE m == Len(t)  u == SubSeq(out, 1, m)
  <2>1. m \in Nat /\ 1 <= m + 1 /\ m <= Len(out) /\ m - 1 + 1 = m /\ 1 + m - 1 = m
        /\ \A k \in 1 .. m : 1 + k - 1 = k /\ k \in 1 .. Len(out)
    BY <1>1, <1>3, <1>4
  <2>2. \A k \in 1 .. m : u[k] = out[k]
    BY <1>3, <2>1, PartIs
  <2>3. t = u
    BY <2>1 DEF StandsAt
  <2> HIDE DEF u
  <2>4. \A k \in 1 .. m : WholeText[k] = t[k]
    BY <1>3, <2>1, <2>2, <2>3
  <2> QED
    BY <1>4, <2>4
<1> DEFINE rest == SubSeq(out, Fed + 1, Len(out))
<1>7. ReplaceFirstSubSeq(<<>>, t, out) = <<Blank>> \o rest
  <2>1. 2 \in 1 .. Len(out) - Len(t) + 1
    BY <1>1, <1>3, <1>4
  <2>2. \A r \in 1 .. 2 - 1 : ~StandsAt(t, out, r)
    <3>1. \A r \in 1 .. 2 - 1 : r = 1
      OBVIOUS
    <3> QED
      BY <1>6, <3>1
  <2>3. ReplaceFirstSubSeq(<<>>, t, out)
          = SubSeq(out, 1, 2 - 1) \o SubSeq(out, 2 + Len(t), Len(out))
    BY <1>3, <1>4, <1>5, <2>1, <2>2, FirstErased
  <2>4. 2 - 1 = 1 /\ 2 + Len(t) = Fed + 1
    BY <1>4
  <2>5. SubSeq(out, 1, 1) = <<Blank>>
    <3>1. 1 \in 1 .. Len(out)
      BY <1>1, <1>3, <1>4
    <3>2. out[1] = Blank
      BY <1>3, <1>4, <3>1
    <3>3. SubSeq(out, 1, 1) \in Seq(Chars) /\ Len(SubSeq(out, 1, 1)) = 1
          /\ SubSeq(out, 1, 1)[1] = out[1]
      <4>1. 1 <= 1 + 1 /\ 1 <= Len(out) /\ 1 - 1 + 1 = 1 /\ 1 \in 1 .. 1 /\ 1 + 1 - 1 = 1
            /\ 1 \in Nat /\ 1 <= 1
        BY <1>1, <1>3, <1>4
      <4> QED
        BY <1>3, <4>1, PartIs
    <3> DEFINE u == SubSeq(out, 1, 1)
    <3> HIDE DEF u
    <3>4. u \in Seq(Chars) /\ Len(u) = 1 /\ u[1] = Blank
      BY <3>2, <3>3 DEF u
    <3>5. u = <<Blank>>
      BY <3>4
    <3> QED
      BY <3>5 DEF u
  <2> HIDE DEF rest
  <2> QED
    BY <2>3, <2>4, <2>5 DEF rest
<1>8. rest \in Seq(Chars) /\ rest = SubSeq(res, Fed + 1, Len(out))
  <2> DEFINE n == Len(out)  i == Fed + 1
  <2>1. i \in Nat /\ 1 <= i /\ i <= n + 1 /\ n <= n /\ n \in Nat /\ n \in 0 .. Len(res)
    BY <1>1, <1>3, <1>4, LenProperties
  <2>2. SubSeq(out, i, n) \in Seq(Chars)
    BY <1>3, <2>1, PartIs
  <2> HIDE DEF n, i
  <2>3. SubSeq(SubSeq(res, 1, n), i, n) = SubSeq(res, i, n)
    BY <1>4, <2>1, PartOfPrefix
  <2>4. SubSeq(res, 1, n) = out
    BY <1>3 DEF n
  <2> QED
    BY <2>2, <2>3, <2>4 DEF n, i
<1> HIDE DEF rest
<1>9. Trim(<<Blank>> \o rest, {Blank}) = Trim(rest, {Blank})
  BY <1>8, CharsAssumption, BlankDropped
<1>10. Trim(ReplaceFirstSubSeq(<<>>, t, out), {Blank})
         = Trim(SubSeq(res, Fed + 1, Len(res) - Len(Rest(cut))), {Blank})
  BY <1>2, <1>7, <1>8, <1>9
<1> QED
  BY <1>10 DEF t

\* What inference gave stays the same.
LEMMA InferredStays ==
  ASSUME InferredInv, pc \in {"deliver", "cut", "returned"}, call' = call, res' = res
  PROVE  InferredInv'
<1>1. WholeText' = WholeText /\ Fed' = Fed
  BY DEF WholeText, Fed
<1>2. \A n : StoppedAt(n)' <=> StoppedAt(n)
  BY <1>1 DEF StoppedAt
<1> QED
  BY <1>1, <1>2 DEF InferredInv

\* llama_predict_ex stops where it should.
LEMMA InferGives ==
  ASSUME Infer, call \in Calls
  PROVE  InferredInv'
<1>1. call' = call
  BY DEF Infer
<1>2. WholeText' = WholeText /\ Fed' = Fed
  BY <1>1 DEF WholeText, Fed
<1>3. \A n : StoppedAt(n)' <=> StoppedAt(n)
  BY <1>1, <1>2 DEF StoppedAt
<1>4. Len(Prompt(call.text)) = Fed
  <2> DEFINE b == <<Blank>>  t == call.text
  <2>1. b \in Seq(Chars) /\ Len(b) = 1 /\ t \in Seq(Chars) /\ Len(t) \in Nat
    BY CharsAssumption, CallTyped, LenProperties
  <2> HIDE DEF b, t
  <2>2. Len(b \o t) = Len(b) + Len(t)
    BY <2>1, ConcatProperties
  <2> QED
    BY <2>1, <2>2 DEF Prompt, Fed, b, t
<1>5. \E n \in 1 .. Len(WholeText) :
        /\ StoppedAt(n) \/ n = Len(WholeText)
        /\ \A m \in Fed .. n - 1 : ~StoppedAt(m)
        /\ res' = SubSeq(WholeText, 1, n)
  BY <1>4, Zenon DEF Infer, WholeText, StoppedAt
<1> QED
  BY <1>2, <1>3, <1>5 DEF InferredInv

PageInv == AnswerInv /\ LongInv

LEMMA InitPage == Init => PageInv
BY DEF Init, PageInv, AnswerInv, InferredInv, CutInv, LongInv, Fits

LEMMA PageKept == PageInv /\ [Next]_vars => PageInv'
<1> SUFFICES ASSUME PageInv, [Next]_vars PROVE PageInv'
  OBVIOUS
<1> USE DEF PageInv
<1>1. CASE \/ Configure \/ Allocate \/ Convert \/ InferFails
  <2>1. call' = call /\ pc' \in {"allocate", "convert", "infer", "threw"}
    BY <1>1 DEF Configure, Allocate, Convert, InferFails
  <2> QED
    BY <2>1 DEF AnswerInv, InferredInv, CutInv, LongInv, Fits
<1>2. CASE Infer
  <2>1. call' = call /\ pc' = "deliver"
    BY <1>2 DEF Infer
  <2>2. InferredInv'
    BY <1>2, InferGives DEF AnswerInv
  <2> QED
    BY <2>1, <2>2 DEF AnswerInv, CutInv, LongInv, Fits
<1>3. CASE Deliver
  <2>1. call' = call /\ res' = res /\ pc = "deliver"
    BY <1>3 DEF Deliver
  <2>2. InferredInv'
    BY <2>1, InferredStays DEF AnswerInv
  <2> QED
    BY <1>3, <2>1, <2>2, DeliverCuts, DeliverLong DEF AnswerInv
<1>4. CASE DeliverNothing
  <2>1. call' = call /\ res' = res /\ pc = "deliver" /\ call.tokens <= 0
    BY <1>4 DEF DeliverNothing
  <2>2. InferredInv'
    BY <2>1, InferredStays DEF AnswerInv
  <2>3. ~Fits'
    <3>1. Len(res) \in Nat /\ call.tokens \in Int
      BY <2>1, ResIs, LenProperties, CallsAssumption DEF AnswerInv
    <3> QED
      BY <2>1, <3>1 DEF Fits
  <2> QED
    BY <2>1, <2>2, <2>3 DEF AnswerInv, CutInv, LongInv
<1>5. CASE CutStop
  <2>1. call' = call /\ res' = res /\ pc = "cut" /\ pc' = pc
    BY <1>5 DEF CutStop
  <2>2. InferredInv'
    BY <2>1, InferredStays DEF AnswerInv
  <2>3. CutInv'
    <3> SUFFICES ASSUME Fits' PROVE CutSoFar(out, left)'
      BY DEF CutInv
    <3>1. Len(res) < call.tokens
      BY <2>1 DEF Fits
    <3> QED
      BY <1>5, <2>1, <3>1, CutStopGives, CutSoFarPrimed
  <2> QED
    BY <1>5, <2>1, <2>2, <2>3, CutStopLong DEF AnswerInv
<1>6. CASE Return \/ UNCHANGED vars
  <2>1. UNCHANGED <<call, res, out, left>>
        /\ (pc' = pc \/ (pc = "cut" /\ pc' = "returned"))
    <3>1. CASE Return
      BY <3>1 DEF Return
    <3>2. CASE UNCHANGED vars
      BY <3>2 DEF vars
    <3> QED
      BY <1>6, <3>1, <3>2
  <2>2. InferredInv'
    <3>1. CASE pc \in {"deliver", "cut", "returned"}
      BY <2>1, <3>1, InferredStays DEF AnswerInv
    <3>2. CASE pc \notin {"deliver", "cut", "returned"}
      BY <2>1, <3>2 DEF InferredInv
    <3> QED
      BY <3>1, <3>2
  <2>3. Fits' => Fits
    BY <2>1 DEF Fits
  <2>4. CutSoFar(out, left)' <=> CutSoFar(out, left)
    BY <2>1, CutSoFarPrimed
  <2>5. LongInv'
    BY <2>1, <2>3, ReachesKept DEF LongInv, Fed
  <2> QED
    BY <2>1, <2>2, <2>3, <2>4, <2>5 DEF AnswerInv, CutInv
<1> QED
  BY <1>1, <1>2, <1>3, <1>4, <1>5, <1>6 DEF Next

----------------------------------------------------------------------------
(* Theorems.                                                               *)

\* The locals of predict keep their types, and nothing but the buffer and the
\* parameters is ever on the heap, whatever a program calls it with.
THEOREM TypeCorrect == Spec => []TypeOK
<1>1. PredictInv => TypeOK
  BY DEF PredictInv
<1> QED
  BY <1>1, InitPredict, PredictKept, PTL DEF Spec

\* A call that returns has freed its buffer and its parameters, whatever it was
\* called with and whatever inference gave it.
THEOREM NothingLeaks == Spec => []ReturnGivesAllBack
<1>1. PredictInv => ReturnGivesAllBack
  BY DEF PredictInv, HeapInv, ReturnGivesAllBack
<1> QED
  BY <1>1, InitPredict, PredictKept, PTL DEF Spec

\* The class and the C interface make the same gpt_params from an LLAMA_PARAMS,
\* although the latter passes 25 arguments by position.
THEOREM BothPathsAgree == Spec => []PathsAgree
<1>1. ASSUME PredictInv PROVE PathsAgree
  BY <1>1, BoundIsRaw DEF PredictInv, OptionsInv, PathsAgree, GptEx
<1> QED
  BY <1>1, InitPredict, PredictKept, PTL DEF Spec

\* Whatever a call changes of the options, each that the program or the caller
\* set, and the initial value of each that they did not, is in exactly one field of
\* gpt_params: all but ignore_eos, which is in none.
THEOREM OptionsReachInference == Spec => []OptionsArrive
<1>1. ASSUME PredictInv, pc \in Converted,
             NEW m \in Members \ {"debug_mode", "ignore_eos", "stop_prompts", "prompts"}
      PROVE  LET fields == {g \in DOMAIN gpt : gpt[g][1] = m}
             IN  \E g \in fields : fields = {g} /\ gpt[g] = <<m, Sent(m)>>
  <2> DEFINE sent == Sent(m)
             fields == {g \in DOMAIN gpt : gpt[g][1] = m}
  <2>1. gpt = Gpt(Primitive(options))
    BY <1>1 DEF PredictInv, OptionsInv
  <2>2. options[m] = sent
    <3> DEFINE made == Constructed(call.program)
    <3>1. made \in [Members -> Origins] /\ "logit_bias" \in Members
      BY OptionsTyped DEF Members, Initialised
    <3>2. made[m] = IF m \in (IF call.program = "cli" THEN CliSets ELSE ServerSets)
                    THEN "program" ELSE Fresh[m]
      BY DEF Constructed
    <3>3. options = IF call.bias = "none" THEN made ELSE WithBias(made)
      BY <1>1 DEF PredictInv, OptionsInv
    <3> HIDE DEF made
    <3>4. WithBias(made)[m] = IF m = "logit_bias" THEN "caller" ELSE made[m]
      BY <3>1, OptionsTyped DEF WithBias
    <3> QED
      BY <3>2, <3>3, <3>4 DEF Sent
  <2>3. PICK g \in GptFields :
          Origin(g) = m /\ \A h \in GptFields : Origin(h) = m => h = g
    BY OneField
  <2> HIDE DEF sent
  <2>4. DOMAIN gpt = GptFields
        /\ \A h \in GptFields : gpt[h] = <<Origin(h), options[Origin(h)]>>
    BY <2>1, GptByField
  <2>5. fields = {g} /\ gpt[g] = <<m, sent>>
    BY <2>2, <2>3, <2>4
  <2> QED
    BY <2>5 DEF sent
<1>2. ASSUME PredictInv, pc \in Converted, NEW g \in DOMAIN gpt
      PROVE  gpt[g][1] # "ignore_eos"
  <2>1. gpt = Gpt(Primitive(options))
    BY <1>2 DEF PredictInv, OptionsInv
  <2>2. g \in GptFields /\ gpt[g] = <<Origin(g), options[Origin(g)]>>
    BY <1>2, <2>1, GptByField
  <2> QED
    BY <2>2, NoField
<1>3. PredictInv => OptionsArrive
  BY <1>1, <1>2 DEF OptionsArrive
<1> QED
  BY <1>3, InitPredict, PredictKept, PTL DEF Spec

\* Neither program, whatever a call changes of its options, infers with a value
\* nobody gave, but for penalize_nl and memory_f16.
THEOREM ChanceStaysOut == Spec => []IndeterminateStaysOut
<1>1. ASSUME PredictInv, pc \in Converted, NEW g \in DOMAIN gpt, gpt[g][2] = "nobody"
      PROVE  g \in {"penalize_nl", "memory_f16"}
  <2>1. gpt = Gpt(Primitive(options))
    BY <1>1 DEF PredictInv, OptionsInv
  <2>2. g \in GptFields /\ Origin(g) \in Members /\ options[Origin(g)] = "nobody"
    BY <1>1, <2>1, GptByField
  <2>3. Constructed(call.program)[Origin(g)] = "nobody"
    <3>1. CASE options = Constructed(call.program)
      BY <2>2, <3>1
    <3>2. CASE options = WithBias(Constructed(call.program))
      BY <2>2, <3>2, OptionsTyped DEF WithBias
    <3> QED
      BY <1>1, <3>1, <3>2 DEF PredictInv, OptionsInv
  <2>4. Origin(g) \in Uninitialised \ ServerSets
    <3> DEFINE m == Origin(g)
    <3>1. m \in Members /\ Constructed(call.program)[m] = "nobody"
      BY <2>2, <2>3
    <3> HIDE DEF m
    <3>2. m \notin ServerSets /\ Fresh[m] = "nobody"
      BY <3>1 DEF Constructed, CliSets
    <3>3. m \in Uninitialised
      BY <3>1, <3>2 DEF Fresh, Members
    <3> QED
      BY <3>2, <3>3 DEF m
  <2>5. Origin(g) \in {"penalize_nl", "f16kv", "debug_mode"}
    BY <2>4 DEF Uninitialised, ServerSets
  <2> QED
    BY <2>2, <2>5, GptFieldsKnown DEF Origin, FieldSource
<1>2. PredictInv => IndeterminateStaysOut
  BY <1>1 DEF IndeterminateStaysOut
<1> QED
  BY <1>2, InitPredict, PredictKept, PTL DEF Spec

\* On every machine with two processors or more, and for every request, the number
\* of the server's threads is one at least and at most the number of processors.
THEOREM ThreadsSuitMachine == Spec => []ThreadsInRange
<1> DEFINE Inv == call \in Calls /\ ThreadsInRange
<1>1. Init => Inv
  BY DEF Init, ThreadsInRange
<1>2. Inv /\ [Next]_vars => Inv'
  <2> SUFFICES ASSUME Inv, [Next]_vars PROVE Inv'
    OBVIOUS
  <2>1. CASE Configure
    <3>1. call.processors \in Nat \ {0} /\ call.requested \in Int
      BY CallsAssumption
    <3>2. /\ call' = call
          /\ call.program = "server" =>
               threads' = ThreadsCount(call.processors, call.requested)
      BY <2>1 DEF Configure
    <3>3. call.processors > 1 =>
            ThreadsCount(call.processors, call.requested) \in 1 .. call.processors
      BY <3>1, ThreadsCountInRange
    <3> QED
      BY <3>1, <3>2, <3>3 DEF ThreadsInRange
  <2>2. CASE ~Configure
    <3>1. UNCHANGED <<call, threads>> /\ (pc' = "configure" => pc = "configure")
      BY <2>2 DEF Next, vars, Allocate, Convert, Infer, InferFails, Deliver,
                  DeliverNothing, CutStop, Return
    <3>2. pc # "configure" => pc' # "configure"
      BY <3>1
    <3>3. pc' # "configure" /\ pc = "configure" => FALSE
      BY <2>2 DEF Next, vars, Allocate, Convert, Infer, InferFails, Deliver,
                  DeliverNothing, CutStop, Return
    <3> QED
      BY <3>1, <3>2, <3>3 DEF ThreadsInRange
  <2> QED
    BY <2>1, <2>2
<1>3. Inv => ThreadsInRange
  OBVIOUS
<1> QED
  BY <1>1, <1>2, <1>3, PTL DEF Spec

\* Whatever is asked, generated and stopped at: an output that fits into the
\* buffer comes back without loss, but for the text at the front and stop prompts
\* at the end.
THEOREM AnswerIsComplete == Spec => []NothingButEchoAndStopsCut
<1>1. ASSUME PageInv PROVE NothingButEchoAndStopsCut
  <2> SUFFICES ASSUME Whole
               PROVE  \E front \in {<<>>, call.text}, cut \in [DOMAIN call.stops -> BOOLEAN] :
                        res = front \o out \o Rest(cut)
    BY DEF NothingButEchoAndStopsCut
  <2>1. CutSoFar(out, left)
    BY <1>1 DEF PageInv, AnswerInv, CutInv, Whole, Fits
  <2> QED
    BY <2>1, Zenon DEF CutSoFar
<1> QED
  BY <1>1, InitPage, PageKept, PTL DEF Spec

\* Whatever is asked, generated and stopped at, the page shows what was generated,
\* although it looks for the request in an answer that may hold it again.
THEOREM PageShowsAnswer == Spec => []PageShowsWhatWasGenerated
<1>1. ASSUME PageInv PROVE PageShowsWhatWasGenerated
  <2> SUFFICES ASSUME Whole, Reaches
               PROVE  \E cut \in [DOMAIN call.stops -> BOOLEAN] :
                        Trim(ReplaceFirstSubSeq(<<>>, call.text, out), {Blank})
                          = Trim(SubSeq(res, Fed + 1, Len(res) - Len(Rest(cut))), {Blank})
    BY DEF PageShowsWhatWasGenerated, Reaches, Fed
  <2> QED
    BY <1>1, PageShown DEF PageInv
<1> QED
  BY <1>1, InitPage, PageKept, PTL DEF Spec

=============================================================================
