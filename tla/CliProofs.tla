------------------------------ MODULE CliProofs ------------------------------
(***************************************************************************)
(* Theorems about Cli, for every argument, every prompt file and any       *)
(* number of lines: each line is freed once and the loaded prompt never,   *)
(* the program uses the class as Context asks of its clients, and the      *)
(* prompt file is expanded as if both marks were replaced at once.  That   *)
(* the program ends is left to TLC.                                        *)
(*                                                                         *)
(* The last of these needs induction over the file.  Backwards does it     *)
(* with a set of positions in the place of a predicate: a smallest         *)
(* counterexample, counted from the end, would be none.                    *)
(***************************************************************************)
EXTENDS Cli, SequenceTheorems, WellFoundedInduction, TLAPS

Before == {"open", "user", "ai", "cut", "load", "loading", "load failed", "aborted"}
During == {"options", "head", "text", "sizing", "inferring", "closing", "unwinding"}
After  == {"done", "failed"}

\* Where the program is says whether the model is there.
ModelInv ==
  /\ args \in Args
  /\ pc \in Before \cup During \cup After
  /\ pc \in Before => model = "none"
  /\ pc \in During => model = "loaded"
  /\ pc \in After => model = "freed"

\* An input is there at the head of the loop only.
InputInv ==
  /\ input \in {"null", "prompt", "line"}
  /\ pc # "head" => input = "null"
  /\ InputsFreedOnce

LEMMA InitCli == Init => ModelInv /\ InputInv
<1> SUFFICES ASSUME Init PROVE ModelInv /\ InputInv
  OBVIOUS
<1>1. args \in Args /\ pc = "open" /\ model = "none"
  BY DEF Init
<1>2. input = "null" /\ skip = FALSE /\ unfreed = 0
  BY DEF Init
<1>3. ModelInv
  BY <1>1 DEF ModelInv, Before, During, After
<1>4. InputsFreedOnce
  BY <1>2 DEF InputsFreedOnce
<1> QED
  BY <1>2, <1>3, <1>4 DEF InputInv

\* Expanding the prompt has no effect on the rest of the program.
LEMMA PrepareApart ==
  ASSUME Prepare
  PROVE  /\ pc \in Before \ {"load", "loading"} /\ pc' \in Before \ {"loading"}
         /\ UNCHANGED <<args, input, skip, lines, unfreed, model>>
<1>1. CASE Open
  BY <1>1 DEF Open, At, Before
<1>2. CASE ReplaceUser
  BY <1>2 DEF ReplaceUser, ReplaceNext, At, Before
<1>3. CASE ReplaceAi
  BY <1>3 DEF ReplaceAi, ReplaceNext, At, Before
<1>4. CASE Cut
  BY <1>4 DEF Cut, At, Before
<1> QED
  BY <1>1, <1>2, <1>3, <1>4 DEF Prepare

LEMMA ModelKept == ModelInv /\ [Next]_vars => ModelInv'
<1> SUFFICES ASSUME ModelInv, [Next]_vars PROVE ModelInv'
  OBVIOUS
<1> USE DEF ModelInv, Before, During, After
<1>1. CASE Prepare
  <2>1. pc \in Before /\ pc' \in Before /\ UNCHANGED <<args, model>>
    BY <1>1, PrepareApart
  <2> QED
    BY <2>1
<1> USE DEF At, Go
<1>2. CASE Load
  BY <1>2 DEF Load
<1>3. CASE LoadReturns
  BY <1>3 DEF LoadReturns
<1>4. CASE LoadThrows
  BY <1>4 DEF LoadThrows
<1>5. CASE SetOptions
  BY <1>5 DEF SetOptions
<1>6. CASE ReadLine \/ Interrupt \/ UNCHANGED vars
  <2>1. UNCHANGED <<args, pc, model>>
    BY <1>6 DEF ReadLine, Interrupt, vars
  <2> QED
    BY <2>1
<1>7. CASE EndOfInput
  BY <1>7 DEF EndOfInput
<1>8. CASE TakeInput
  BY <1>8 DEF TakeInput
<1>9. CASE Predict
  BY <1>9 DEF Predict
<1>10. CASE Infer
  BY <1>10 DEF Infer
<1>11. CASE PredictReturns \/ PredictThrows
  BY <1>11 DEF PredictReturns, PredictThrows
<1>12. CASE Unload
  <2>1. UNCHANGED args /\ model' = "freed" /\ pc' \in {"done", "failed"}
    BY <1>12 DEF Unload
  <2> QED
    BY <2>1
<1> QED
  BY <1>1, <1>2, <1>3, <1>4, <1>5, <1>6, <1>7, <1>8, <1>9, <1>10, <1>11, <1>12
  DEF Next, Work

LEMMA InputKept == InputInv /\ [Next]_vars => InputInv'
<1> SUFFICES ASSUME InputInv, [Next]_vars PROVE InputInv'
  OBVIOUS
<1> USE DEF InputInv, InputsFreedOnce
<1>1. CASE Prepare
  <2>1. pc # "head" /\ UNCHANGED <<input, skip, unfreed>>
    BY <1>1, PrepareApart DEF Before
  <2> QED
    BY <2>1
<1> USE DEF At, Go
<1>2. CASE \/ Load \/ LoadReturns \/ LoadThrows \/ EndOfInput \/ Unload
           \/ Predict \/ Infer \/ PredictReturns \/ PredictThrows
  <2>1. UNCHANGED <<input, skip, unfreed>> /\ (pc # "head" \/ input = "null")
    BY <1>2 DEF Load, LoadReturns, LoadThrows, EndOfInput, Unload, Predict, Infer,
                PredictReturns, PredictThrows
  <2> QED
    BY <2>1
<1>3. CASE Interrupt \/ UNCHANGED vars
  BY <1>3 DEF Interrupt, vars
<1>4. CASE SetOptions
  <2>1. input = "null" /\ unfreed = 0 /\ unfreed' = 0 /\ pc' = "head"
    BY <1>4 DEF SetOptions
  <2>2. CASE prompt = <<>>
    BY <1>4, <2>1, <2>2 DEF SetOptions
  <2>3. CASE prompt # <<>>
    BY <1>4, <2>1, <2>3 DEF SetOptions
  <2> QED
    BY <2>2, <2>3
<1>5. CASE ReadLine
  BY <1>5 DEF ReadLine
<1>6. CASE TakeInput
  BY <1>6 DEF TakeInput
<1> QED
  BY <1>1, <1>2, <1>3, <1>4, <1>5, <1>6 DEF Next, Work

\* Every line is freed before the next one is read, none twice, and the loaded
\* prompt never, however many lines there are and wherever an exception comes.
THEOREM InputsFreed == Spec => []InputsFreedOnce
<1>1. InputInv => InputsFreedOnce
  BY DEF InputInv
<1> QED
  BY <1>1, InitCli, InputKept, PTL DEF Spec

----------------------------------------------------------------------------
(* The client of the class.                                                *)

LEMMA InitMaps == Init => Ctx!Init
BY DEF Init, Ctx!Init, Sizes, Using, Ctx!Unset

\* A step that leaves the class alone.
LEMMA ApartMaps ==
  ASSUME UNCHANGED <<model, args>>,
         \/ pc' = pc
         \/ /\ pc \notin {"loading", "sizing", "inferring"}
            /\ pc' \notin {"loading", "sizing", "inferring"}
            /\ \/ Using /\ Using'
               \/ ~Using /\ ~Using'
  PROVE  UNCHANGED Ctx!vars
<1>1. CASE pc' = pc
  BY <1>1 DEF Ctx!vars, Ctx!fields, Buffer, Using
<1>2. CASE Using /\ Using' /\ pc' # pc
  BY <1>2 DEF Ctx!vars, Ctx!fields, Buffer
<1>3. CASE ~Using /\ ~Using' /\ pc' # pc
  BY <1>3 DEF Ctx!vars, Ctx!fields, Buffer
<1> QED
  BY <1>1, <1>2, <1>3

\* Counting the one handle's release.
LEMMA CountOnce ==
  [h \in 1 .. 1 |-> 1] = [[h \in 1 .. 1 |-> 0] EXCEPT ![1] = [h \in 1 .. 1 |-> 0][1] + 1]
<1> DEFINE old == [h \in 1 .. 1 |-> 0]
           new == [h \in 1 .. 1 |-> 1]
<1>1. 1 \in 1 .. 1 /\ \A h \in 1 .. 1 : h = 1
  OBVIOUS
<1>2. old[1] = 0
  BY <1>1
<1>3. [old EXCEPT ![1] = 1] = [h \in 1 .. 1 |-> IF h = 1 THEN 1 ELSE old[h]]
  BY Zenon
<1>4. [h \in 1 .. 1 |-> IF h = 1 THEN 1 ELSE old[h]] = new
  BY <1>1
<1>5. old[1] + 1 = 1
  BY <1>2
<1> QED
  BY <1>3, <1>4, <1>5

\* Load, predict and unload, as the class does them.
LEMMA CallMaps ==
  ASSUME ModelInv,
         \/ Load \/ LoadReturns \/ LoadThrows
         \/ Predict \/ Infer \/ PredictReturns \/ PredictThrows \/ Unload
  PROVE  Ctx!Next
<1> USE DEF ModelInv, Before, During, After, At, Go, Using, Ctx!fields
<1>1. CASE Load
  <2>1. Ctx!Load("main")
    BY <1>1 DEF Load, Ctx!Load
  <2> QED
    BY <2>1 DEF Ctx!Next, Ctx!Locked
<1>2. CASE LoadReturns
  <2>1. Ctx!LoadReturns("main")
    BY <1>2 DEF LoadReturns, Ctx!LoadReturns
  <2> QED
    BY <2>1 DEF Ctx!Next, Ctx!Locked
<1>3. CASE LoadThrows
  <2>1. Ctx!LoadThrows("main")
    BY <1>3 DEF LoadThrows, Ctx!LoadThrows
  <2> QED
    BY <2>1 DEF Ctx!Next, Ctx!Locked
<1>4. CASE Predict
  <2>1. Ctx!Predict("main")
    BY <1>4 DEF Predict, Ctx!Predict, Ctx!Unset, Ctx!Capacity, Buffer
  <2> QED
    BY <2>1 DEF Ctx!Next, Ctx!Use
<1>5. CASE Infer
  <2>1. Ctx!Infer("main")
    BY <1>5 DEF Infer, Ctx!Infer, Ctx!Capacity, Buffer
  <2> QED
    BY <2>1 DEF Ctx!Next, Ctx!Use
<1>6. CASE PredictReturns \/ PredictThrows
  <2>1. Ctx!InferReturns("main")
    BY <1>6 DEF PredictReturns, PredictThrows, Ctx!InferReturns, Ctx!Forget, Ctx!Unset, Buffer
  <2> QED
    BY <2>1 DEF Ctx!Next, Ctx!Use
<1>7. CASE Unload
  <2>1. Ctx!Unload("main")
    <3>1. pc \in {"closing", "unwinding"} /\ pc' \in {"done", "failed"}
      BY <1>7 DEF Unload
    <3>2. model = "loaded" /\ model' = "freed" /\ args' = args
      BY <1>7, <3>1 DEF Unload
    <3>3. [h \in 1 .. 1 |-> IF model' = "freed" THEN 1 ELSE 0]
            = [[h \in 1 .. 1 |-> IF model = "freed" THEN 1 ELSE 0] EXCEPT
                 ![IF model = "loaded" THEN 1 ELSE 0] =
                   [h \in 1 .. 1 |-> IF model = "freed" THEN 1 ELSE 0]
                     [IF model = "loaded" THEN 1 ELSE 0] + 1]
      <4>1. [h \in 1 .. 1 |-> IF model' = "freed" THEN 1 ELSE 0] = [h \in 1 .. 1 |-> 1]
        BY <3>2
      <4>2. [h \in 1 .. 1 |-> IF model = "freed" THEN 1 ELSE 0] = [h \in 1 .. 1 |-> 0]
        BY <3>2
      <4>3. (IF model = "loaded" THEN 1 ELSE 0) = 1
        BY <3>2
      <4>4. [h \in 1 .. 1 |-> 1] = [[h \in 1 .. 1 |-> 0] EXCEPT
                                      ![1] = [h \in 1 .. 1 |-> 0][1] + 1]
        BY CountOnce
      <4> QED
        BY <4>1, <4>2, <4>3, <4>4, Zenon
    <3>4. model = "loaded" /\ model' # "loaded" /\ model # "none" /\ model' # "none"
      BY <3>2
    <3>5. Using /\ Using'
      BY <3>1
    <3>6. pc \notin {"loading", "sizing", "inferring"}
          /\ pc' \notin {"loading", "sizing", "inferring"}
          /\ pc # "loading" /\ pc' # "loading" /\ pc # "inferring" /\ pc' # "inferring"
          /\ pc \notin {"sizing", "inferring"} /\ pc' \notin {"sizing", "inferring"}
      BY <3>1
    <3> HIDE DEF Using, ModelInv
    <3> QED
      BY <3>2, <3>3, <3>4, <3>5, <3>6 DEF Ctx!Unload, Ctx!Overlap, Ctx!Using
  <2> QED
    BY <2>1 DEF Ctx!Next, Ctx!Locked
<1> QED
  BY <1>1, <1>2, <1>3, <1>4, <1>5, <1>6, <1>7

\* The options are set before the model is used.
LEMMA SetOptionsMaps ==
  ASSUME ModelInv, SetOptions
  PROVE  Ctx!Next
<1>1. args.n_predict \in Sizes
  BY DEF ModelInv, Sizes
<1>2. Ctx!SetPredictOptions("main", args.n_predict)
  BY DEF SetOptions, At, Using, Ctx!SetPredictOptions, Ctx!Overlap
<1> QED
  BY <1>1, <1>2 DEF Ctx!Next, Ctx!Locked

LEMMA StepMaps == ModelInv /\ [Next]_vars => [Ctx!Next]_(Ctx!vars)
<1> SUFFICES ASSUME ModelInv, [Next]_vars PROVE [Ctx!Next]_(Ctx!vars)
  OBVIOUS
<1>1. CASE Prepare
  <2>1. pc \in Before \ {"loading"} /\ pc' \in Before \ {"loading"}
        /\ UNCHANGED <<model, args>>
    BY <1>1, PrepareApart
  <2>2. ~Using /\ ~Using'
    BY <2>1 DEF Before, Using
  <2> QED
    BY <2>1, <2>2, ApartMaps DEF Before
<1>2. CASE EndOfInput \/ TakeInput
  <2>1. pc = "head" /\ pc' \in {"closing", "text"}
        /\ UNCHANGED <<model, args>>
    BY <1>2 DEF EndOfInput, TakeInput, Go, At
  <2>2. Using /\ Using'
    BY <2>1 DEF Using
  <2> QED
    BY <2>1, <2>2, ApartMaps
<1>3. CASE ReadLine \/ Interrupt \/ UNCHANGED vars
  <2>1. UNCHANGED <<pc, model, args>>
    BY <1>3 DEF ReadLine, Interrupt, vars
  <2> QED
    BY <2>1, ApartMaps
<1>4. CASE SetOptions
  BY <1>4, SetOptionsMaps
<1> QED
  BY <1>1, <1>2, <1>3, <1>4, CallMaps DEF Next, Work

\* The program implements Context with one thread: it predicts with a loaded
\* model only, sets its options and frees the model while nobody uses it, once.
THEOREM CliImplementsContext == Spec => ImplementsContext
<1>1. Spec => []ModelInv
  BY InitCli, ModelKept, PTL DEF Spec
<1> QED
  BY <1>1, InitMaps, StepMaps, PTL DEF Spec, ImplementsContext, Ctx!Spec

----------------------------------------------------------------------------
(* Numbers and strings.                                                    *)

\* A set of numbers has a least element.
LEMMA Least ==
  ASSUME NEW T, T \subseteq Nat, T # {}
  PROVE  \E x \in T : \A y \in T : x <= y
<1>1. \E R : IsWellFoundedOn(R, Nat) /\ \A x, y \in Nat : y < x => <<y, x>> \in R
  <2>1. \A x, y \in Nat : y < x => <<y, x>> \in OpToRel(<, Nat)
    BY DEF OpToRel
  <2> WITNESS OpToRel(<, Nat)
  <2> QED
    BY <2>1, NatLessThanWellFounded
<1>2. PICK R : IsWellFoundedOn(R, Nat) /\ \A x, y \in Nat : y < x => <<y, x>> \in R
  BY <1>1
<1>3. PICK x \in T : \A y \in T : ~(<<y, x>> \in R)
  BY <1>2, WFMin
<1>4. ASSUME NEW y \in T PROVE x <= y
  <2>1. x \in Nat /\ y \in Nat
    OBVIOUS
  <2>2. ~(y < x)
    BY <1>2, <1>3, <2>1, Zenon
  <2> QED
    BY <2>1, <2>2
<1> QED
  BY <1>4

\* Induction over a set, from the end of a string to its beginning.
LEMMA Backwards ==
  ASSUME NEW N \in Nat, NEW S,
         \A i \in Nat : i > N => i \in S,
         \A i \in 1 .. N : (\A l \in Nat : l > i => l \in S) => i \in S
  PROVE  \A i \in Nat \ {0} : i \in S
<1> SUFFICES ASSUME NEW i \in Nat \ {0}, i \notin S PROVE FALSE
  OBVIOUS
<1> DEFINE T == {N - k : k \in {j \in 1 .. N : j \notin S}}
<1>1. T \subseteq Nat /\ N - i \in T
  <2>1. i \in 1 .. N
    OBVIOUS
  <2> QED
    BY <2>1
<1>2. PICK x \in T : \A y \in T : x <= y
  <2> HIDE DEF T
  <2> QED
    BY <1>1, Least
<1>3. PICK k \in 1 .. N : k \notin S /\ x = N - k
  OBVIOUS
<1>4. \A l \in Nat : l > k => l \in S
  <2> SUFFICES ASSUME NEW l \in Nat, l > k, l \notin S PROVE FALSE
    OBVIOUS
  <2>1. l \in 1 .. N
    OBVIOUS
  <2>2. N - l \in T
    BY <2>1
  <2>3. N - k <= N - l
    BY <1>2, <1>3, <2>2
  <2> QED
    BY <2>1, <2>3
<1> QED
  BY <1>3, <1>4

\* ConcatAssociative, in a form that is easy to apply.
ThreeIn(a, b, c, S) == a \in S /\ b \in S /\ c \in S

LEMMA Regroup ==
  ASSUME NEW T, NEW a, NEW b, NEW c, ThreeIn(a, b, c, Seq(T))
  PROVE  (a \o b) \o c = a \o (b \o c)
<1>1. a \in Seq(T) /\ b \in Seq(T) /\ c \in Seq(T)
  BY DEF ThreeIn
<1> QED
  BY <1>1, ConcatAssociative, SMTT(20)

\* What a concatenation is.
LEMMA JoinIs ==
  ASSUME NEW T, NEW a \in Seq(T), NEW b \in Seq(T)
  PROVE  /\ a \o b \in Seq(T) /\ Len(a) \in Nat /\ Len(b) \in Nat
         /\ Len(a \o b) = Len(a) + Len(b)
         /\ \A k \in 1 .. Len(a) : (a \o b)[k] = a[k]
         /\ \A k \in 1 .. Len(b) : (a \o b)[Len(a) + k] = b[k]
<1>1. Len(a) \in Nat /\ Len(b) \in Nat
  BY LenProperties
<1>2. /\ a \o b \in Seq(T)
      /\ Len(a \o b) = Len(a) + Len(b)
      /\ \A k \in 1 .. Len(a) + Len(b) :
           (a \o b)[k] = IF k <= Len(a) THEN a[k] ELSE b[k - Len(a)]
  BY ConcatProperties
<1> DEFINE c == a \o b
<1>3. \A k \in 1 .. Len(a) + Len(b) : c[k] = IF k <= Len(a) THEN a[k] ELSE b[k - Len(a)]
  BY <1>2
<1> HIDE DEF c
<1>4. \A k \in 1 .. Len(a) : c[k] = a[k]
  BY <1>1, <1>3
<1>5. \A k \in 1 .. Len(b) : c[Len(a) + k] = b[k]
  <2> TAKE k \in 1 .. Len(b)
  <2> DEFINE m == Len(a) + k
  <2>1. m \in 1 .. Len(a) + Len(b) /\ ~(m <= Len(a)) /\ m - Len(a) = k
    BY <1>1
  <2> HIDE DEF m
  <2>2. c[m] = b[k]
    BY <1>3, <2>1
  <2> QED
    BY <2>2 DEF m
<1> QED
  BY <1>1, <1>2, <1>4, <1>5 DEF c

\* p stands in s from r on.
Occurs(p, s, r) ==
  /\ r + Len(p) - 1 <= Len(s)
  /\ \A k \in 1 .. Len(p) : s[r + k - 1] = p[k]

LEMMA OccursBehind ==
  ASSUME NEW T, NEW p \in Seq(T), NEW c \in Seq(T), NEW s \in Seq(T), NEW r \in Nat \ {0}
  PROVE  Occurs(p, c \o s, Len(c) + r) <=> Occurs(p, s, r)
<1> DEFINE j == c \o s  n == Len(c)  q == n + r
<1>1. /\ Len(p) \in Nat /\ n \in Nat /\ Len(s) \in Nat /\ Len(j) = n + Len(s)
      /\ \A k \in 1 .. Len(s) : j[n + k] = s[k]
  BY JoinIs, LenProperties
<1> HIDE DEF j, n
<1>2. q + Len(p) - 1 <= Len(j) <=> r + Len(p) - 1 <= Len(s)
  BY <1>1
<1>3. ASSUME r + Len(p) - 1 <= Len(s), NEW k \in 1 .. Len(p)
      PROVE  j[q + k - 1] = s[r + k - 1]
  <2> DEFINE m == r + k - 1
  <2>1. m \in 1 .. Len(s) /\ q + k - 1 = n + m
    BY <1>1, <1>3
  <2> HIDE DEF m, q
  <2>2. j[n + m] = s[m]
    BY <1>1, <2>1
  <2> QED
    BY <2>1, <2>2 DEF m
<1> HIDE DEF q
<1>4. Occurs(p, j, q) <=> Occurs(p, s, r)
  BY <1>2, <1>3 DEF Occurs
<1> QED
  BY <1>4 DEF j, n, q

----------------------------------------------------------------------------
(* One pass of replace_all.  S[i] is what is left of the string from some  *)
(* point i of the file on, R[i] the same with every mark p replaced by w.  *)

Turn(S, R, p, w, i, T) ==
  \E l \in Nat :
    /\ l > i
    /\ \/ S[i] = p \o S[l] /\ R[i] = w \o R[l]
       \/ \E c \in Seq(T) :
            /\ S[i] = c \o S[l] /\ R[i] = c \o R[l]
            /\ \A r \in 1 .. Len(c) : ~Occurs(p, S[i], r)

Pass(S, R, p, w, n, T) ==
  /\ n \in Nat
  /\ \A i \in Nat \ {0} : S[i] \in Seq(T) /\ R[i] \in Seq(T)
  /\ p \in Seq(T) /\ p # <<>> /\ w \in Seq(T)
  /\ \A i \in Nat : i > n => S[i] = <<>> /\ R[i] = <<>>
  /\ \A i \in 1 .. n : Turn(S, R, p, w, i, T)

\* There is no mark from i on, or a first one.
NoMark(S, R, p, i) == R[i] = S[i] /\ \A r \in Nat \ {0} : ~Occurs(p, S[i], r)

MarkBehind(S, R, p, w, i, y, l) ==
  /\ S[i] = y \o (p \o S[l])
  /\ R[i] = y \o (w \o R[l])
  /\ \A r \in 1 .. Len(y) : ~Occurs(p, S[i], r)

Ahead(S, R, p, w, i, T) ==
  \/ NoMark(S, R, p, i)
  \/ \E y \in Seq(T), l \in Nat \ {0} : MarkBehind(S, R, p, w, i, y, l)

LEMMA PassTyped ==
  ASSUME NEW S, NEW R, NEW p, NEW w, NEW n, NEW T, Pass(S, R, p, w, n, T)
  PROVE  /\ n \in Nat /\ p \in Seq(T) /\ p # <<>> /\ w \in Seq(T)
         /\ Len(p) \in Nat /\ Len(p) >= 1
         /\ \A i \in Nat \ {0} : S[i] \in Seq(T) /\ R[i] \in Seq(T)
<1>1. /\ n \in Nat /\ p \in Seq(T) /\ p # <<>> /\ w \in Seq(T)
      /\ \A i \in Nat \ {0} : S[i] \in Seq(T) /\ R[i] \in Seq(T)
  BY DEF Pass
<1>2. Len(p) \in Nat /\ Len(p) # 0
  BY <1>1, LenProperties, EmptySeq
<1> QED
  BY <1>1, <1>2

\* A part without an occurrence in front of what comes.
LEMMA PartInFront ==
  ASSUME NEW S, NEW R, NEW p, NEW w, NEW n, NEW T, Pass(S, R, p, w, n, T),
         NEW i \in Nat, NEW l \in Nat \ {0}, NEW c \in Seq(T),
         S[i] = c \o S[l], R[i] = c \o R[l],
         \A r \in 1 .. Len(c) : ~Occurs(p, S[i], r),
         Ahead(S, R, p, w, l, T)
  PROVE  Ahead(S, R, p, w, i, T)
<1>1. /\ p \in Seq(T) /\ w \in Seq(T) /\ S[l] \in Seq(T) /\ R[l] \in Seq(T)
      /\ Len(p) \in Nat /\ Len(c) \in Nat
  BY PassTyped, LenProperties
<1> DEFINE s == S[l]
<1>2. \A r \in Nat \ {0} : Occurs(p, S[i], Len(c) + r) <=> Occurs(p, s, r)
  <2> TAKE r \in Nat \ {0}
  <2>1. s \in Seq(T) /\ S[i] = c \o s
    BY <1>1
  <2> HIDE DEF s
  <2>2. Occurs(p, c \o s, Len(c) + r) <=> Occurs(p, s, r)
    BY <1>1, <2>1, OccursBehind
  <2> QED
    BY <2>1, <2>2
<1>3. ASSUME NEW r \in Nat \ {0}, r > Len(c)
      PROVE  /\ r - Len(c) \in Nat \ {0}
             /\ Occurs(p, S[i], r) <=> Occurs(p, s, r - Len(c))
  <2> DEFINE m == r - Len(c)
  <2>1. m \in Nat \ {0} /\ r = Len(c) + m
    BY <1>1, <1>3
  <2> HIDE DEF m, s
  <2>2. Occurs(p, S[i], Len(c) + m) <=> Occurs(p, s, m)
    BY <1>2, <2>1
  <2> QED
    BY <2>1, <2>2 DEF m
<1>4. CASE NoMark(S, R, p, l)
  <2>1. R[l] = S[l] /\ \A r \in Nat \ {0} : ~Occurs(p, s, r)
    BY <1>4 DEF NoMark
  <2>2. R[i] = S[i]
    BY <2>1
  <2>3. ASSUME NEW r \in Nat \ {0} PROVE ~Occurs(p, S[i], r)
    <3>1. CASE r <= Len(c)
      BY <1>1, <3>1
    <3>2. CASE r > Len(c)
      BY <1>3, <2>1, <3>2
    <3> QED
      BY <1>1, <3>1, <3>2
  <2> QED
    BY <2>2, <2>3 DEF Ahead, NoMark
<1>5. ASSUME NEW y \in Seq(T), NEW k \in Nat \ {0}, MarkBehind(S, R, p, w, l, y, k)
      PROVE  Ahead(S, R, p, w, i, T)
  <2> DEFINE z == c \o y  a == p \o S[k]  b == w \o R[k]
  <2>1. z \in Seq(T) /\ Len(y) \in Nat /\ Len(z) = Len(c) + Len(y)
    BY JoinIs
  <2>2. a \in Seq(T) /\ b \in Seq(T)
    <3>1. S[k] \in Seq(T) /\ R[k] \in Seq(T)
      BY PassTyped
    <3> QED
      BY <1>1, <3>1, ConcatProperties
  <2>3. S[l] = y \o a /\ R[l] = y \o b /\ \A r \in 1 .. Len(y) : ~Occurs(p, S[l], r)
    BY <1>5 DEF MarkBehind
  <2> HIDE DEF a, b
  <2>4. (c \o y) \o a = c \o (y \o a) /\ (c \o y) \o b = c \o (y \o b)
    <3>1. ThreeIn(c, y, a, Seq(T)) /\ ThreeIn(c, y, b, Seq(T))
      BY <2>2, Zenon DEF ThreeIn
    <3>2. (c \o y) \o a = c \o (y \o a)
      BY <3>1, Regroup, SMTT(20)
    <3>3. (c \o y) \o b = c \o (y \o b)
      BY <3>1, Regroup, SMTT(20)
    <3> QED
      BY <3>2, <3>3
  <2>5. S[i] = z \o a /\ R[i] = z \o b
    BY <2>3, <2>4
  <2> HIDE DEF z
  <2>6. ASSUME NEW r \in 1 .. Len(z) PROVE ~Occurs(p, S[i], r)
    <3>1. CASE r <= Len(c)
      BY <1>1, <3>1
    <3>2. CASE r > Len(c)
      <4>1. r \in Nat \ {0} /\ r - Len(c) \in 1 .. Len(y)
        BY <1>1, <2>1, <3>2
      <4> QED
        BY <1>3, <2>3, <3>2, <4>1
    <3> QED
      BY <1>1, <2>1, <3>1, <3>2
  <2>7. MarkBehind(S, R, p, w, i, z, k)
    BY <2>5, <2>6 DEF MarkBehind, a, b
  <2> QED
    BY <2>1, <2>7 DEF Ahead
<1> QED
  BY <1>4, <1>5 DEF Ahead

LEMMA PassAhead ==
  ASSUME NEW S, NEW R, NEW p, NEW w, NEW n, NEW T, Pass(S, R, p, w, n, T)
  PROVE  \A i \in Nat \ {0} : Ahead(S, R, p, w, i, T)
<1> DEFINE Q == {i \in Nat : Ahead(S, R, p, w, i, T)}
<1>1. n \in Nat /\ p \in Seq(T) /\ w \in Seq(T) /\ Len(p) \in Nat /\ Len(p) >= 1
      /\ \A i \in Nat \ {0} : S[i] \in Seq(T) /\ R[i] \in Seq(T)
  BY PassTyped
<1>2. ASSUME NEW i \in Nat, i > n PROVE i \in Q
  <2>1. S[i] = <<>> /\ R[i] = <<>> /\ Len(<<>>) = 0
    BY <1>2 DEF Pass
  <2>2. \A r \in Nat \ {0} : ~(r + Len(p) - 1 <= 0)
    BY <1>1
  <2>3. \A r \in Nat \ {0} : ~Occurs(p, S[i], r)
    BY <2>1, <2>2 DEF Occurs
  <2> QED
    BY <2>1, <2>3 DEF Ahead, NoMark
<1>3. ASSUME NEW i \in 1 .. n, \A l \in Nat : l > i => l \in Q PROVE i \in Q
  <2>1. PICK l \in Nat :
          /\ l > i
          /\ \/ S[i] = p \o S[l] /\ R[i] = w \o R[l]
             \/ \E c \in Seq(T) :
                  /\ S[i] = c \o S[l] /\ R[i] = c \o R[l]
                  /\ \A r \in 1 .. Len(c) : ~Occurs(p, S[i], r)
    BY DEF Pass, Turn
  <2>2. i \in Nat /\ l \in Nat \ {0} /\ Ahead(S, R, p, w, l, T)
    BY <1>3, <2>1
  <2>3. CASE S[i] = p \o S[l] /\ R[i] = w \o R[l]
    <3> DEFINE a == p \o S[l]  b == w \o R[l]
    <3>1. a \in Seq(T) /\ b \in Seq(T) /\ S[i] = a /\ R[i] = b
      BY <1>1, <2>2, <2>3, ConcatProperties
    <3> HIDE DEF a, b
    <3>2. <<>> \o a = a /\ <<>> \o b = b /\ <<>> \in Seq(T) /\ Len(<<>>) = 0
      BY <3>1, ConcatEmptySeq, EmptySeq
    <3>3. S[i] = <<>> \o a /\ R[i] = <<>> \o b
      BY <3>1, <3>2
    <3>4. MarkBehind(S, R, p, w, i, <<>>, l)
      BY <3>2, <3>3 DEF MarkBehind, a, b
    <3> QED
      BY <2>2, <3>2, <3>4 DEF Ahead
  <2>4. CASE \E c \in Seq(T) :
               /\ S[i] = c \o S[l] /\ R[i] = c \o R[l]
               /\ \A r \in 1 .. Len(c) : ~Occurs(p, S[i], r)
    <3>1. PICK c \in Seq(T) :
            /\ S[i] = c \o S[l] /\ R[i] = c \o R[l]
            /\ \A r \in 1 .. Len(c) : ~Occurs(p, S[i], r)
      BY <2>4
    <3>2. Ahead(S, R, p, w, i, T)
      BY <2>2, <3>1, PartInFront
    <3> QED
      BY <2>2, <3>2
  <2> QED
    BY <2>1, <2>3, <2>4
<1>4. \A i \in Nat \ {0} : i \in Q
  <2> HIDE DEF Q
  <2> QED
    BY <1>1, <1>2, <1>3, Backwards
<1> QED
  BY <1>4

\* What a part of a sequence is.
LEMMA PartIs ==
  ASSUME NEW T, NEW s \in Seq(T), NEW i \in Nat, NEW j \in Nat,
         1 <= i, i <= j + 1, j <= Len(s)
  PROVE  /\ SubSeq(s, i, j) \in Seq(T)
         /\ Len(SubSeq(s, i, j)) = j - i + 1
         /\ \A k \in 1 .. j - i + 1 : SubSeq(s, i, j)[k] = s[i + k - 1]
<1>1. Len(s) \in Nat
  BY LenProperties
<1>2. \A k \in i .. j : s[k] \in T
  <2> TAKE k \in i .. j
  <2>1. k \in 1 .. Len(s)
    BY <1>1
  <2> QED
    BY <2>1, ElementOfSeq
<1>3. (IF i <= j THEN j - i + 1 ELSE 0) = j - i + 1
  OBVIOUS
<1> QED
  BY <1>2, <1>3, SubSeqProperties

\* The two parts of a concatenation.
LEMMA PartsOf ==
  ASSUME NEW T, NEW a \in Seq(T), NEW b \in Seq(T)
  PROVE  /\ SubSeq(a \o b, 1, Len(a)) = a
         /\ SubSeq(a \o b, Len(a) + 1, Len(a \o b)) = b
<1> DEFINE c == a \o b  m == Len(a)  n == Len(b)
           x == SubSeq(c, 1, m)  y == SubSeq(c, m + 1, Len(c))
<1>1. /\ c \in Seq(T) /\ m \in Nat /\ n \in Nat /\ Len(c) = m + n
      /\ \A k \in 1 .. m : c[k] = a[k]
      /\ \A k \in 1 .. n : c[m + k] = b[k]
  BY JoinIs
<1> HIDE DEF c
<1>2. /\ 1 <= m + 1 /\ m <= Len(c) /\ m - 1 + 1 = m /\ \A k \in 1 .. m : 1 + k - 1 = k
      /\ m + 1 \in Nat /\ Len(c) \in Nat /\ 1 <= m + 1 /\ m + 1 <= Len(c) + 1
      /\ Len(c) <= Len(c) /\ Len(c) - (m + 1) + 1 = n
      /\ \A k \in 1 .. n : m + 1 + k - 1 = m + k
  BY <1>1
<1>3. x \in Seq(T) /\ Len(x) = m /\ \A k \in 1 .. m : x[k] = c[1 + k - 1]
  BY <1>1, <1>2, PartIs
<1>4. y \in Seq(T) /\ Len(y) = n /\ \A k \in 1 .. n : y[k] = c[m + 1 + k - 1]
  <2> DEFINE i == m + 1  j == Len(c)
  <2>1. i \in Nat /\ j \in Nat /\ 1 <= i /\ i <= j + 1 /\ j <= Len(c) /\ j - i + 1 = n
    BY <1>2
  <2> HIDE DEF i, j
  <2>2. /\ SubSeq(c, i, j) \in Seq(T) /\ Len(SubSeq(c, i, j)) = j - i + 1
        /\ \A k \in 1 .. j - i + 1 : SubSeq(c, i, j)[k] = c[i + k - 1]
    BY <1>1, <2>1, PartIs
  <2> QED
    BY <2>1, <2>2 DEF i, j
<1> HIDE DEF x, y
<1>5. \A k \in 1 .. m : x[k] = a[k]
  BY <1>1, <1>2, <1>3
<1>6. \A k \in 1 .. n : y[k] = b[k]
  BY <1>1, <1>2, <1>4
<1>7. x = a
  BY <1>3, <1>5, SeqEqual
<1>8. y = b
  BY <1>4, <1>6, SeqEqual
<1> QED
  BY <1>7, <1>8 DEF c, x, y

\* find returns the first occurrence from the start position on, if any.
LEMMA FindIs ==
  ASSUME NEW T, NEW s \in Seq(T), NEW p \in Seq(T), Len(p) >= 1, NEW start \in Nat \ {0}
  PROVE  LET k == Find(s, p, start)
         IN  \/ k = 0 /\ \A r \in Nat : r >= start => ~Occurs(p, s, r)
             \/ /\ k \in Nat /\ k >= start /\ Occurs(p, s, k)
                /\ \A r \in Nat : r >= start /\ Occurs(p, s, r) => k <= r
<1> DEFINE m == Len(p)  n == Len(s)
           found == {k \in start .. n - m + 1 : SubSeq(s, k, k + m - 1) = p}
           occ == {k \in Nat : k >= start /\ Occurs(p, s, k)}
<1>1. m \in Nat /\ n \in Nat /\ m >= 1
  BY LenProperties
<1>2. ASSUME NEW k \in Nat, k >= start PROVE k \in found <=> Occurs(p, s, k)
  <2> DEFINE e == k + m - 1  x == SubSeq(s, k, e)
  <2>1. k \in start .. n - m + 1 <=> e <= n
    BY <1>1, <1>2
  <2>2. CASE e <= n
    <3>1. e \in Nat /\ k \in Nat /\ 1 <= k /\ k <= e + 1 /\ e <= Len(s) /\ e - k + 1 = m
      BY <1>1, <1>2, <2>2
    <3> HIDE DEF e
    <3>2. x \in Seq(T) /\ Len(x) = m /\ \A i \in 1 .. m : x[i] = s[k + i - 1]
      BY <3>1, PartIs
    <3> HIDE DEF x
    <3>3. x = p <=> \A i \in 1 .. m : s[k + i - 1] = p[i]
      <4>1. x = p => \A i \in 1 .. m : s[k + i - 1] = p[i]
        BY <3>2
      <4>2. ASSUME \A i \in 1 .. m : s[k + i - 1] = p[i] PROVE x = p
        <5>1. \A i \in 1 .. Len(x) : x[i] = p[i]
          BY <3>2, <4>2
        <5> QED
          BY <3>2, <5>1, SeqEqual
      <4> QED
        BY <4>1, <4>2
    <3>4. k \in found <=> x = p
      BY <2>1, <2>2 DEF x, e
    <3>5. Occurs(p, s, k) <=> \A i \in 1 .. m : s[k + i - 1] = p[i]
      BY <2>2 DEF Occurs, e
    <3> QED
      BY <3>3, <3>4, <3>5
  <2>3. CASE ~(e <= n)
    BY <2>1, <2>3 DEF Occurs
  <2> QED
    BY <2>2, <2>3
<1>3. found = occ
  <2>1. \A k \in found : k \in Nat /\ k >= start
    BY <1>1
  <2> HIDE DEF found
  <2> QED
    BY <1>2, <2>1
<1> DEFINE k == CHOOSE k \in found : \A j \in found : k <= j
<1>4. Find(s, p, start) = IF found = {} THEN 0 ELSE k
  BY DEF Find
<1>5. CASE found = {}
  <2>1. Find(s, p, start) = 0
    BY <1>4, <1>5
  <2> HIDE DEF found
  <2>2. \A r \in Nat : r >= start => ~Occurs(p, s, r)
    BY <1>3, <1>5
  <2> QED
    BY <2>1, <2>2
<1>6. CASE found # {}
  <2> HIDE DEF found
  <2>1. \E x \in found : \A j \in found : x <= j
    BY <1>3, <1>6, Least
  <2>2. k \in found /\ \A j \in found : k <= j
    BY <2>1
  <2>3. Find(s, p, start) = k
    BY <1>4, <1>6
  <2> HIDE DEF k
  <2>4. /\ k \in Nat /\ k >= start /\ Occurs(p, s, k)
        /\ \A r \in Nat : r >= start /\ Occurs(p, s, r) => k <= r
    BY <1>3, <2>2
  <2> QED
    BY <2>3, <2>4
<1> QED
  BY <1>5, <1>6

----------------------------------------------------------------------------
(* The loop of replace_all.                                                *)

\* In front of start_pos stands what the pass makes of the beginning, behind it
\* what is left from i on.
Passing(S, R, T, s, start) ==
  \E q \in Seq(T), i \in Nat \ {0} :
    s = q \o S[i] /\ start = Len(q) + 1 /\ R[1] = q \o R[i]

LEMMA PassBegins ==
  ASSUME NEW S, NEW R, NEW p, NEW w, NEW n, NEW T, Pass(S, R, p, w, n, T),
         NEW s, s = S[1]
  PROVE  Passing(S, R, T, s, 1)
<1> DEFINE x == S[1]  y == R[1]
<1>1. x \in Seq(T) /\ y \in Seq(T)
  BY PassTyped
<1> HIDE DEF x, y
<1>2. <<>> \o x = x /\ <<>> \o y = y /\ <<>> \in Seq(T) /\ Len(<<>>) = 0
  BY <1>1, ConcatEmptySeq, EmptySeq
<1>3. s = <<>> \o S[1] /\ 1 = Len(<<>>) + 1 /\ R[1] = <<>> \o R[1]
  BY <1>2 DEF x, y
<1>4. 1 \in Nat \ {0}
  OBVIOUS
<1> QED
  BY <1>2, <1>3, <1>4, Zenon DEF Passing

\* Replacing a part in the middle.
LEMMA MiddleReplaced ==
  ASSUME NEW T, NEW a, NEW p, NEW b, ThreeIn(a, p, b, Seq(T)), NEW w \in Seq(T)
  PROVE  ReplaceSubSeqAt(Len(a) + 1, w, p, a \o (p \o b)) = (a \o w) \o b
<1> DEFINE pb == p \o b  s == a \o pb  ap == a \o p
<1>1. a \in Seq(T) /\ p \in Seq(T) /\ b \in Seq(T)
  BY DEF ThreeIn
<1>2. pb \in Seq(T) /\ ap \in Seq(T) /\ Len(ap) = Len(a) + Len(p)
      /\ Len(a) \in Nat /\ Len(p) \in Nat
  BY <1>1, JoinIs
<1>3. s = ap \o b
  BY Regroup
<1> HIDE DEF pb, ap
<1>4. SubSeq(a \o pb, 1, Len(a)) = a
  BY <1>1, <1>2, PartsOf
<1>5. SubSeq(ap \o b, Len(ap) + 1, Len(ap \o b)) = b
  BY <1>1, <1>2, PartsOf
<1> HIDE DEF s
<1>6. SubSeq(s, 1, Len(a)) = a /\ SubSeq(s, Len(ap) + 1, Len(s)) = b
  BY <1>3, <1>4, <1>5 DEF s
<1> DEFINE i == Len(a) + 1
<1>7. i - 1 = Len(a) /\ i + Len(p) = Len(ap) + 1
  BY <1>2
<1> HIDE DEF i
<1>8. ReplaceSubSeqAt(i, w, p, s)
        = (SubSeq(s, 1, i - 1) \o w) \o SubSeq(s, i + Len(p), Len(s))
  BY DEF ReplaceSubSeqAt
<1>9. ReplaceSubSeqAt(i, w, p, s) = (a \o w) \o b
  BY <1>6, <1>7, <1>8
<1> QED
  BY <1>9 DEF s, pb, i

\* Where the next mark is.
LEMMA FindsMark ==
  ASSUME NEW S, NEW R, NEW p, NEW w, NEW n, NEW T, Pass(S, R, p, w, n, T),
         NEW q \in Seq(T), NEW i \in Nat \ {0}, NEW y \in Seq(T), NEW l \in Nat \ {0},
         MarkBehind(S, R, p, w, i, y, l)
  PROVE  Find(q \o S[i], p, Len(q) + 1) = Len(q \o y) + 1
<1> DEFINE s == S[i]  t == q \o s  b == S[l]  pb == p \o b
           k == Find(t, p, Len(q) + 1)
<1>1. /\ p \in Seq(T) /\ s \in Seq(T) /\ b \in Seq(T) /\ Len(p) \in Nat /\ Len(p) >= 1
      /\ Len(q) \in Nat /\ Len(y) \in Nat /\ Len(q \o y) = Len(q) + Len(y)
  BY PassTyped, JoinIs
<1>2. s = y \o pb /\ \A r \in 1 .. Len(y) : ~Occurs(p, s, r)
  BY DEF MarkBehind
<1> HIDE DEF s, b
<1>3. pb \in Seq(T) /\ t \in Seq(T)
  BY <1>1, ConcatProperties
<1>4. Occurs(p, pb, 1)
  <2>1. /\ Len(b) \in Nat /\ Len(pb) = Len(p) + Len(b)
        /\ \A j \in 1 .. Len(p) : pb[j] = p[j]
    BY <1>1, JoinIs
  <2>2. \A j \in 1 .. Len(p) : 1 + j - 1 = j
    BY <1>1
  <2> HIDE DEF pb
  <2> QED
    BY <1>1, <2>1, <2>2 DEF Occurs
<1> HIDE DEF pb
<1>5. Occurs(p, s, Len(y) + 1)
  BY <1>1, <1>2, <1>3, <1>4, OccursBehind
<1>6. \A r \in Nat \ {0} : Occurs(p, t, Len(q) + r) <=> Occurs(p, s, r)
  BY <1>1, OccursBehind
<1> HIDE DEF t
<1> DEFINE here == Len(q) + (Len(y) + 1)
<1>7. Occurs(p, t, here)
  <2>1. Len(y) + 1 \in Nat \ {0}
    BY <1>1
  <2> QED
    BY <1>5, <1>6, <2>1
<1>8. here \in Nat /\ here >= Len(q) + 1 /\ Len(q) + 1 \in Nat \ {0}
      /\ here = Len(q \o y) + 1
  BY <1>1
<1> HIDE DEF here
<1>9. ASSUME NEW r \in Nat, r >= Len(q) + 1, Occurs(p, t, r) PROVE r >= here
  <2> DEFINE m == r - Len(q)
  <2>1. m \in Nat \ {0} /\ r = Len(q) + m
    BY <1>1, <1>9
  <2> HIDE DEF m
  <2>2. Occurs(p, s, m)
    BY <1>6, <1>9, <2>1
  <2>3. ~(m \in 1 .. Len(y))
    BY <1>2, <2>2
  <2> QED
    BY <1>1, <2>1, <2>3 DEF here
<1>10. \/ k = 0 /\ \A r \in Nat : r >= Len(q) + 1 => ~Occurs(p, t, r)
       \/ /\ k \in Nat /\ k >= Len(q) + 1 /\ Occurs(p, t, k)
          /\ \A r \in Nat : r >= Len(q) + 1 /\ Occurs(p, t, r) => k <= r
  BY <1>1, <1>3, <1>8, FindIs
<1> HIDE DEF k
<1>11. k = here
  BY <1>7, <1>8, <1>9, <1>10
<1> QED
  BY <1>8, <1>11 DEF k, t, s

\* The pass ends with the string it should make, ...
LEMMA PassEnds ==
  ASSUME NEW S, NEW R, NEW p, NEW w, NEW n, NEW T, Pass(S, R, p, w, n, T),
         NEW s, NEW start, Passing(S, R, T, s, start), Find(s, p, start) = 0
  PROVE  s = R[1]
<1>1. PICK q \in Seq(T), i \in Nat \ {0} :
        s = q \o S[i] /\ start = Len(q) + 1 /\ R[1] = q \o R[i]
  BY DEF Passing
<1>2. Ahead(S, R, p, w, i, T)
  BY PassAhead
<1>3. CASE NoMark(S, R, p, i)
  BY <1>1, <1>3 DEF NoMark
<1>4. CASE \E y \in Seq(T), l \in Nat \ {0} : MarkBehind(S, R, p, w, i, y, l)
  <2>1. PICK y \in Seq(T), l \in Nat \ {0} : MarkBehind(S, R, p, w, i, y, l)
    BY <1>4
  <2>2. Find(q \o S[i], p, Len(q) + 1) = Len(q \o y) + 1
    BY <2>1, FindsMark
  <2>3. Len(q \o y) \in Nat
    BY JoinIs
  <2>4. Len(q \o y) + 1 = 0
    BY <1>1, <2>2
  <2> QED
    BY <2>3, <2>4
<1> QED
  BY <1>2, <1>3, <1>4 DEF Ahead

\* ... and each turn of the loop brings it nearer.
LEMMA PassGoesOn ==
  ASSUME NEW S, NEW R, NEW p, NEW w, NEW n, NEW T, Pass(S, R, p, w, n, T),
         NEW s, NEW start, Passing(S, R, T, s, start), Find(s, p, start) # 0
  PROVE  LET k == Find(s, p, start)
         IN  Passing(S, R, T, ReplaceSubSeqAt(k, w, p, s), k + Len(w))
<1> DEFINE k == Find(s, p, start)
<1>1. PICK q \in Seq(T), i \in Nat \ {0} :
        s = q \o S[i] /\ start = Len(q) + 1 /\ R[1] = q \o R[i]
  BY DEF Passing
<1>2. Ahead(S, R, p, w, i, T)
  BY PassAhead
<1>3. p \in Seq(T) /\ w \in Seq(T) /\ S[i] \in Seq(T) /\ Len(p) \in Nat /\ Len(p) >= 1
      /\ Len(q) \in Nat
  BY PassTyped, LenProperties
<1>4. CASE NoMark(S, R, p, i)
  <2> DEFINE t == S[i]
  <2>1. \A r \in Nat \ {0} : Occurs(p, q \o t, Len(q) + r) <=> Occurs(p, t, r)
    <3>1. t \in Seq(T)
      BY <1>3
    <3> HIDE DEF t
    <3> QED
      BY <1>3, <3>1, OccursBehind
  <2>2. \A r \in Nat \ {0} : ~Occurs(p, t, r)
    BY <1>4 DEF NoMark
  <2>3. s = q \o t /\ s \in Seq(T)
    BY <1>1, <1>3, ConcatProperties
  <2> HIDE DEF t
  <2>4. ASSUME NEW r \in Nat, r >= start PROVE ~Occurs(p, s, r)
    <3> DEFINE m == r - Len(q)
    <3>1. m \in Nat \ {0} /\ r = Len(q) + m
      BY <1>1, <1>3, <2>4
    <3> HIDE DEF m
    <3> QED
      BY <2>1, <2>2, <2>3, <3>1
  <2>5. start \in Nat \ {0}
    BY <1>1, <1>3
  <2>6. k = 0 \/ (k \in Nat /\ k >= start /\ Occurs(p, s, k))
    BY <1>3, <2>3, <2>5, FindIs
  <2> HIDE DEF k
  <2>7. k = 0
    BY <2>4, <2>6
  <2> QED
    BY <2>7 DEF k
<1>5. CASE \E y \in Seq(T), l \in Nat \ {0} : MarkBehind(S, R, p, w, i, y, l)
  <2>1. PICK y \in Seq(T), l \in Nat \ {0} : MarkBehind(S, R, p, w, i, y, l)
    BY <1>5
  <2> DEFINE a == q \o y  b == S[l]  c == R[l]  z == a \o w  pb == p \o b  wc == w \o c
  <2>2. k = Len(a) + 1
    BY <1>1, <2>1, FindsMark
  <2>3. /\ a \in Seq(T) /\ b \in Seq(T) /\ c \in Seq(T) /\ z \in Seq(T)
        /\ pb \in Seq(T) /\ wc \in Seq(T)
        /\ Len(a) \in Nat /\ Len(w) \in Nat /\ Len(z) = Len(a) + Len(w)
    <3>1. b \in Seq(T) /\ c \in Seq(T)
      BY PassTyped
    <3>2. a \in Seq(T)
      BY JoinIs
    <3> HIDE DEF a, b, c
    <3>3. pb \in Seq(T) /\ wc \in Seq(T)
      BY <1>3, <3>1, JoinIs
    <3>4. /\ z \in Seq(T) /\ Len(a) \in Nat /\ Len(w) \in Nat
          /\ Len(z) = Len(a) + Len(w)
      BY <1>3, <3>2, JoinIs
    <3> QED
      BY <3>1, <3>2, <3>3, <3>4
  <2>4. S[i] = y \o pb /\ R[i] = y \o wc
    BY <2>1 DEF MarkBehind
  <2> HIDE DEF b, c, k
  <2>5. s = a \o pb /\ R[1] = a \o wc
    <3> HIDE DEF pb, wc
    <3>1. ThreeIn(q, y, pb, Seq(T)) /\ ThreeIn(q, y, wc, Seq(T))
      BY <2>3, Zenon DEF ThreeIn
    <3>2. (q \o y) \o pb = q \o (y \o pb)
      BY <3>1, Regroup, SMTT(20)
    <3>3. (q \o y) \o wc = q \o (y \o wc)
      BY <3>1, Regroup, SMTT(20)
    <3> QED
      BY <1>1, <2>4, <3>2, <3>3
  <2> HIDE DEF a
  <2>6. ReplaceSubSeqAt(k, w, p, s) = z \o b
    <3>1. ThreeIn(a, p, b, Seq(T)) /\ w \in Seq(T)
      BY <1>3, <2>3, Zenon DEF ThreeIn
    <3>2. ReplaceSubSeqAt(Len(a) + 1, w, p, a \o (p \o b)) = (a \o w) \o b
      BY <3>1, MiddleReplaced
    <3> QED
      BY <2>2, <2>5, <3>2
  <2>7. R[1] = z \o c
    <3>1. ThreeIn(a, w, c, Seq(T))
      BY <1>3, <2>3, Zenon DEF ThreeIn
    <3>2. (a \o w) \o c = a \o (w \o c)
      BY <3>1, Regroup, SMTT(20)
    <3> QED
      BY <2>5, <3>2
  <2>8. k + Len(w) = Len(z) + 1
    BY <2>2, <2>3
  <2> HIDE DEF z
  <2>9. Passing(S, R, T, ReplaceSubSeqAt(k, w, p, s), k + Len(w))
    BY <2>3, <2>6, <2>7, <2>8, Zenon DEF Passing, b, c
  <2> QED
    BY <2>9 DEF k
<1> QED
  BY <1>2, <1>4, <1>5 DEF Ahead

----------------------------------------------------------------------------
(* Functions that are defined by recursion on the rest of a string.        *)

\* What g is at k is part[k], and then what it is further on, up to n.
Unrolled(g, n, part, next) ==
  /\ \A k \in 1 .. n : g[k] = part[k] \o g[next[k]]
  /\ \A k \in Nat : k > n => g[k] = <<>>

Unrolls(n, part, next, T) ==
  /\ n \in Nat
  /\ \A k \in 1 .. n : part[k] \in Seq(T) /\ next[k] \in Nat /\ next[k] > k

LEMMA UnrolledTyped ==
  ASSUME NEW g, NEW n, NEW part, NEW next, NEW T,
         Unrolls(n, part, next, T), Unrolled(g, n, part, next)
  PROVE  \A k \in Nat \ {0} : g[k] \in Seq(T)
<1> DEFINE S == {k \in Nat : g[k] \in Seq(T)}
<1>1. n \in Nat /\ \A k \in Nat : k > n => g[k] = <<>>
  BY DEF Unrolls, Unrolled
<1>2. ASSUME NEW k \in Nat, k > n PROVE k \in S
  BY <1>1, <1>2, EmptySeq
<1>3. ASSUME NEW k \in 1 .. n, \A l \in Nat : l > k => l \in S PROVE k \in S
  <2> DEFINE p == part[k]  r == g[next[k]]
  <2>1. p \in Seq(T) /\ r \in Seq(T) /\ g[k] = p \o r /\ k \in Nat
    <3>1. p \in Seq(T) /\ next[k] \in Nat /\ next[k] > k
      BY DEF Unrolls
    <3>2. next[k] \in S
      BY <1>3, <3>1
    <3>3. g[k] = p \o r
      BY DEF Unrolled
    <3> QED
      BY <1>1, <3>1, <3>2, <3>3
  <2> HIDE DEF p, r
  <2>2. p \o r \in Seq(T)
    BY <2>1, ConcatProperties
  <2> QED
    BY <2>1, <2>2
<1>4. \A k \in Nat \ {0} : k \in S
  <2> HIDE DEF S
  <2> QED
    BY <1>1, <1>2, <1>3, Backwards
<1> QED
  BY <1>4

LEMMA UnrolledExists ==
  ASSUME NEW n, NEW part, NEW next, NEW T, Unrolls(n, part, next, T)
  PROVE  \E g \in [Nat \ {0} -> Seq(T)] : Unrolled(g, n, part, next)
<1> DEFINE Until(g, i) ==
             /\ g \in [Nat \ {0} -> Seq(T)]
             /\ \A k \in 1 .. n : k >= i => g[k] = part[k] \o g[next[k]]
             /\ \A k \in Nat : k > n => g[k] = <<>>
           S == {i \in Nat : \E g : Until(g, i)}
<1>1. /\ n \in Nat
      /\ \A k \in 1 .. n : part[k] \in Seq(T) /\ next[k] \in Nat /\ next[k] > k
  BY DEF Unrolls
<1>2. ASSUME NEW i \in Nat, i > n PROVE i \in S
  <2> DEFINE g == [k \in Nat \ {0} |-> <<>>]
  <2>1. g \in [Nat \ {0} -> Seq(T)]
    BY EmptySeq
  <2>2. \A k \in Nat : k > n => g[k] = <<>>
    BY <1>1
  <2>3. \A k \in 1 .. n : ~(k >= i)
    BY <1>1, <1>2
  <2> HIDE DEF g
  <2>4. Until(g, i)
    BY <2>1, <2>2, <2>3
  <2> HIDE DEF Until
  <2> QED
    BY <2>4
<1>3. ASSUME NEW i \in 1 .. n, \A l \in Nat : l > i => l \in S PROVE i \in S
  <2>1. i + 1 \in S
    <3>1. i + 1 \in Nat /\ i + 1 > i
      OBVIOUS
    <3> HIDE DEF S
    <3> QED
      BY <1>3, <3>1
  <2>2. PICK g : Until(g, i + 1)
    BY <2>1
  <2> DEFINE x == part[i] \o g[next[i]]
             h == [k \in Nat \ {0} |-> IF k = i THEN x ELSE g[k]]
  <2>3. x \in Seq(T)
    <3> DEFINE p == part[i]  r == g[next[i]]
    <3>1. p \in Seq(T) /\ r \in Seq(T)
      BY <1>1, <2>2
    <3> HIDE DEF p, r
    <3>2. p \o r \in Seq(T)
      BY <3>1, ConcatProperties
    <3> QED
      BY <3>2 DEF p, r
  <2>4. i \in Nat \ {0} /\ i \in Nat
    OBVIOUS
  <2>5. h[i] = x /\ \A k \in Nat \ {0} : k # i => h[k] = g[k]
    <3> HIDE DEF x
    <3> QED
      BY <2>4
  <2>6. h \in [Nat \ {0} -> Seq(T)]
    <3> HIDE DEF x
    <3> QED
      BY <2>2, <2>3
  <2> HIDE DEF h
  <2>7. ASSUME NEW k \in 1 .. n, k >= i PROVE h[k] = part[k] \o h[next[k]]
    <3>1. next[k] \in Nat \ {0} /\ next[k] # i
      BY <1>1, <2>7
    <3>2. h[next[k]] = g[next[k]]
      BY <2>5, <3>1
    <3>3. CASE k = i
      BY <2>5, <3>2, <3>3
    <3>4. CASE k # i
      <4>1. k >= i + 1 /\ k \in Nat \ {0}
        BY <2>7, <3>4
      <4>2. g[k] = part[k] \o g[next[k]]
        BY <2>2, <4>1
      <4> QED
        BY <2>5, <3>2, <3>4, <4>1, <4>2
    <3> QED
      BY <3>3, <3>4
  <2>8. ASSUME NEW k \in Nat, k > n PROVE h[k] = <<>>
    <3>1. k # i /\ k \in Nat \ {0}
      BY <1>1, <2>8
    <3>2. g[k] = <<>>
      BY <2>2, <2>8
    <3> QED
      BY <2>5, <3>1, <3>2
  <2>9. Until(h, i)
    BY <2>6, <2>7, <2>8
  <2> HIDE DEF Until
  <2> QED
    BY <2>4, <2>9
<1>4. 1 \in S
  <2>1. \A i \in Nat \ {0} : i \in S
    <3> HIDE DEF S
    <3> QED
      BY <1>1, <1>2, <1>3, Backwards
  <2>2. 1 \in Nat \ {0}
    OBVIOUS
  <2> HIDE DEF S
  <2> QED
    BY <2>1, <2>2
<1>5. PICK g : Until(g, 1)
  BY <1>4
<1>6. Unrolled(g, n, part, next)
  <2>1. \A k \in 1 .. n : k >= 1
    OBVIOUS
  <2> QED
    BY <1>5, <2>1 DEF Unrolled
<1> QED
  BY <1>5, <1>6

----------------------------------------------------------------------------
(* What the property compares the prompt with.                             *)

\* The mark stands at k in the file.
Marked(file, k, mark) == IsPrefix(mark, SubSeq(file, k, Len(file)))

PartAt(a, k) ==
  IF Marked(a.file, k, UserMark) THEN a.user
  ELSE IF Marked(a.file, k, AiMark) THEN a.ai
  ELSE <<a.file[k]>>

NextAt(a, k) ==
  IF Marked(a.file, k, UserMark) THEN k + Len(UserMark)
  ELSE IF Marked(a.file, k, AiMark) THEN k + Len(AiMark)
  ELSE k + 1

Parts(a) == [k \in 1 .. Len(a.file) |-> PartAt(a, k)]
Nexts(a) == [k \in 1 .. Len(a.file) |-> NextAt(a, k)]

LEMMA MarksTyped ==
  /\ UserMark \in Seq(Chars) /\ UserMark # <<>> /\ Len(UserMark) \in Nat /\ Len(UserMark) >= 1
  /\ AiMark \in Seq(Chars) /\ AiMark # <<>> /\ Len(AiMark) \in Nat /\ Len(AiMark) >= 1
<1>1. /\ UserMark \in Seq(Chars) /\ UserMark # <<>>
      /\ AiMark \in Seq(Chars) /\ AiMark # <<>>
  BY MarksAssumption
<1>2. Len(UserMark) \in Nat \ {0} /\ Len(AiMark) \in Nat \ {0}
  BY <1>1, EmptySeq
<1> QED
  BY <1>1, <1>2

LEMMA OneChar ==
  ASSUME NEW file \in Seq(Chars), NEW k \in 1 .. Len(file)
  PROVE  <<file[k]>> \in Seq(Chars) /\ Len(<<file[k]>>) = 1
<1> DEFINE c == file[k]
<1>1. c \in Chars
  BY ElementOfSeq
<1> HIDE DEF c
<1>2. <<c>> \in Seq(Chars) /\ Len(<<c>>) = 1
  BY <1>1
<1> QED
  BY <1>2 DEF c

LEMMA FileUnrolls ==
  ASSUME NEW a, a.file \in Seq(Chars), a.user \in Seq(Chars), a.ai \in Seq(Chars)
  PROVE  Unrolls(Len(a.file), Parts(a), Nexts(a), Chars)
<1>1. Len(a.file) \in Nat
  BY LenProperties
<1>2. ASSUME NEW k \in 1 .. Len(a.file)
      PROVE  /\ Parts(a)[k] = PartAt(a, k) /\ Nexts(a)[k] = NextAt(a, k)
             /\ PartAt(a, k) \in Seq(Chars)
             /\ NextAt(a, k) \in Nat /\ NextAt(a, k) > k
  <2>1. Parts(a)[k] = PartAt(a, k) /\ Nexts(a)[k] = NextAt(a, k)
    BY DEF Parts, Nexts
  <2>2. <<a.file[k]>> \in Seq(Chars) /\ k \in Nat
    BY <1>1, OneChar
  <2>3. PartAt(a, k) \in Seq(Chars)
    BY <2>2 DEF PartAt
  <2>4. NextAt(a, k) \in Nat /\ NextAt(a, k) > k
    BY <2>2, MarksTyped DEF NextAt
  <2> QED
    BY <2>1, <2>3, <2>4
<1> QED
  BY <1>1, <1>2 DEF Unrolls

LEMMA ExpandedFromIs ==
  ASSUME NEW a, a.file \in Seq(Chars), a.user \in Seq(Chars), a.ai \in Seq(Chars)
  PROVE  Unrolled(ExpandedFrom(a), Len(a.file), Parts(a), Nexts(a))
<1> DEFINE n == Len(a.file)
           IsFrom(g) == g = [k \in Nat \ {0} |->
             IF k > n THEN <<>>
             ELSE IF Marked(a.file, k, UserMark) THEN a.user \o g[k + Len(UserMark)]
             ELSE IF Marked(a.file, k, AiMark) THEN a.ai \o g[k + Len(AiMark)]
             ELSE <<a.file[k]>> \o g[k + 1]]
           Eqn(g) == \A k \in Nat \ {0} :
             g[k] = IF k > n THEN <<>> ELSE PartAt(a, k) \o g[NextAt(a, k)]
<1>1. n \in Nat
  BY LenProperties
<1>2. ASSUME NEW g, NEW k
      PROVE  PartAt(a, k) \o g[NextAt(a, k)]
               = IF Marked(a.file, k, UserMark) THEN a.user \o g[k + Len(UserMark)]
                 ELSE IF Marked(a.file, k, AiMark) THEN a.ai \o g[k + Len(AiMark)]
                 ELSE <<a.file[k]>> \o g[k + 1]
  BY DEF PartAt, NextAt
<1>3. \E g : IsFrom(g)
  <2>1. PICK g \in [Nat \ {0} -> Seq(Chars)] : Unrolled(g, n, Parts(a), Nexts(a))
    BY FileUnrolls, UnrolledExists
  <2>2. ASSUME NEW k \in Nat \ {0}
        PROVE  g[k] = IF k > n THEN <<>> ELSE PartAt(a, k) \o g[NextAt(a, k)]
    <3>1. CASE k > n
      BY <2>1, <3>1 DEF Unrolled
    <3>2. CASE ~(k > n)
      <4>1. k \in 1 .. n
        BY <1>1, <3>2
      <4>2. g[k] = Parts(a)[k] \o g[Nexts(a)[k]]
        BY <2>1, <4>1 DEF Unrolled
      <4>3. Parts(a)[k] = PartAt(a, k) /\ Nexts(a)[k] = NextAt(a, k)
        BY <4>1 DEF Parts, Nexts
      <4> QED
        BY <3>2, <4>2, <4>3
    <3> QED
      BY <3>1, <3>2
  <2>3. g = [k \in Nat \ {0} |-> g[k]]
    BY <2>1
  <2>4. IsFrom(g)
    <3>1. \A k \in Nat \ {0} : g[k] =
             IF k > n THEN <<>>
             ELSE IF Marked(a.file, k, UserMark) THEN a.user \o g[k + Len(UserMark)]
             ELSE IF Marked(a.file, k, AiMark) THEN a.ai \o g[k + Len(AiMark)]
             ELSE <<a.file[k]>> \o g[k + 1]
      BY <1>2, <2>2
    <3> QED
      BY <2>3, <3>1, Zenon
  <2> QED
    BY <2>4
<1> DEFINE h == CHOOSE g : IsFrom(g)
<1>4. IsFrom(h)
  BY <1>3
<1>5. ExpandedFrom(a) = h
  BY DEF ExpandedFrom, Marked
<1> HIDE DEF h
<1>6. ASSUME NEW k \in Nat \ {0}
      PROVE  h[k] = IF k > n THEN <<>> ELSE PartAt(a, k) \o h[NextAt(a, k)]
  <2>1. h[k] = IF k > n THEN <<>>
               ELSE IF Marked(a.file, k, UserMark) THEN a.user \o h[k + Len(UserMark)]
               ELSE IF Marked(a.file, k, AiMark) THEN a.ai \o h[k + Len(AiMark)]
               ELSE <<a.file[k]>> \o h[k + 1]
    BY <1>4
  <2> QED
    BY <1>2, <2>1
<1>7. ASSUME NEW k \in 1 .. n PROVE h[k] = Parts(a)[k] \o h[Nexts(a)[k]]
  <2>1. k \in Nat \ {0} /\ ~(k > n)
    BY <1>1
  <2>2. Parts(a)[k] = PartAt(a, k) /\ Nexts(a)[k] = NextAt(a, k)
    BY DEF Parts, Nexts
  <2> QED
    BY <1>6, <2>1, <2>2
<1>8. ASSUME NEW k \in Nat, k > n PROVE h[k] = <<>>
  BY <1>1, <1>6, <1>8
<1>9. Unrolled(h, n, Parts(a), Nexts(a))
  BY <1>7, <1>8 DEF Unrolled
<1> QED
  BY <1>5, <1>9

----------------------------------------------------------------------------
(* The strings before, between and after the two passes, from each         *)
(* character of the file on.                                               *)

FileTyped(a) ==
  a.file \in Seq(Chars) /\ a.user \in Seq(Chars) /\ a.ai \in Seq(Chars)

RestOf(file) ==
  [k \in Nat \ {0} |-> IF k <= Len(file) THEN SubSeq(file, k, Len(file)) ELSE <<>>]

UserParts(a) ==
  [k \in 1 .. Len(a.file) |->
     IF Marked(a.file, k, UserMark) THEN a.user ELSE <<a.file[k]>>]

UserNexts(a) ==
  [k \in 1 .. Len(a.file) |->
     IF Marked(a.file, k, UserMark) THEN k + Len(UserMark) ELSE k + 1]

\* The file with every user mark replaced.
UserExpanded(a) ==
  CHOOSE g \in [Nat \ {0} -> Seq(Chars)] :
    Unrolled(g, Len(a.file), UserParts(a), UserNexts(a))

LEMMA UserExpandedIs ==
  ASSUME NEW a, FileTyped(a)
  PROVE  LET X == UserExpanded(a)
             n == Len(a.file)
         IN  /\ \A k \in Nat \ {0} : X[k] \in Seq(Chars)
             /\ \A k \in Nat : k > n => X[k] = <<>>
             /\ \A k \in 1 .. n : Marked(a.file, k, UserMark) =>
                                    X[k] = a.user \o X[k + Len(UserMark)]
             /\ \A k \in 1 .. n : ~Marked(a.file, k, UserMark) =>
                                    X[k] = <<a.file[k]>> \o X[k + 1]
<1> DEFINE n == Len(a.file)
<1>1. a.file \in Seq(Chars) /\ a.user \in Seq(Chars) /\ n \in Nat
  BY LenProperties DEF FileTyped
<1>2. ASSUME NEW k \in 1 .. n
      PROVE  /\ UserParts(a)[k] = IF Marked(a.file, k, UserMark) THEN a.user ELSE <<a.file[k]>>
             /\ UserNexts(a)[k] = IF Marked(a.file, k, UserMark) THEN k + Len(UserMark) ELSE k + 1
             /\ UserParts(a)[k] \in Seq(Chars)
             /\ UserNexts(a)[k] \in Nat /\ UserNexts(a)[k] > k
  <2>1. /\ UserParts(a)[k] = IF Marked(a.file, k, UserMark) THEN a.user ELSE <<a.file[k]>>
        /\ UserNexts(a)[k] = IF Marked(a.file, k, UserMark) THEN k + Len(UserMark) ELSE k + 1
    BY DEF UserParts, UserNexts
  <2>2. <<a.file[k]>> \in Seq(Chars) /\ k \in Nat
    BY <1>1, OneChar
  <2>3. UserParts(a)[k] \in Seq(Chars)
    BY <1>1, <2>1, <2>2
  <2>4. UserNexts(a)[k] \in Nat /\ UserNexts(a)[k] > k
    BY <2>1, <2>2, MarksTyped
  <2> QED
    BY <2>1, <2>3, <2>4
<1>3. Unrolls(n, UserParts(a), UserNexts(a), Chars)
  BY <1>1, <1>2 DEF Unrolls
<1> DEFINE X == UserExpanded(a)
<1>4. X \in [Nat \ {0} -> Seq(Chars)] /\ Unrolled(X, n, UserParts(a), UserNexts(a))
  BY <1>3, UnrolledExists DEF UserExpanded
<1> HIDE DEF X
<1>5. \A k \in Nat \ {0} : X[k] \in Seq(Chars)
  BY <1>4
<1>6. \A k \in Nat : k > n => X[k] = <<>>
  BY <1>4 DEF Unrolled
<1>7. \A k \in 1 .. n : X[k] = UserParts(a)[k] \o X[UserNexts(a)[k]]
  BY <1>4 DEF Unrolled
<1>8. \A k \in 1 .. n : Marked(a.file, k, UserMark) =>
                          X[k] = a.user \o X[k + Len(UserMark)]
  BY <1>2, <1>7
<1>9. \A k \in 1 .. n : ~Marked(a.file, k, UserMark) => X[k] = <<a.file[k]>> \o X[k + 1]
  BY <1>2, <1>7
<1> QED
  BY <1>5, <1>6, <1>8, <1>9 DEF X

LEMMA FullyExpandedIs ==
  ASSUME NEW a, FileTyped(a)
  PROVE  LET F == ExpandedFrom(a)
             n == Len(a.file)
         IN  /\ \A k \in Nat \ {0} : F[k] \in Seq(Chars)
             /\ \A k \in Nat : k > n => F[k] = <<>>
             /\ \A k \in 1 .. n : Marked(a.file, k, UserMark) =>
                                    F[k] = a.user \o F[k + Len(UserMark)]
             /\ \A k \in 1 .. n : ~Marked(a.file, k, UserMark) /\ Marked(a.file, k, AiMark) =>
                                    F[k] = a.ai \o F[k + Len(AiMark)]
             /\ \A k \in 1 .. n : ~Marked(a.file, k, UserMark) /\ ~Marked(a.file, k, AiMark) =>
                                    F[k] = <<a.file[k]>> \o F[k + 1]
<1> DEFINE n == Len(a.file)  F == ExpandedFrom(a)
<1>1. a.file \in Seq(Chars) /\ a.user \in Seq(Chars) /\ a.ai \in Seq(Chars)
  BY DEF FileTyped
<1>2. Unrolled(F, n, Parts(a), Nexts(a))
  BY <1>1, ExpandedFromIs
<1>3. \A k \in Nat \ {0} : F[k] \in Seq(Chars)
  BY <1>1, <1>2, FileUnrolls, UnrolledTyped
<1>4. \A k \in 1 .. n : /\ Parts(a)[k] = PartAt(a, k)
                        /\ Nexts(a)[k] = NextAt(a, k)
  BY DEF Parts, Nexts
<1> HIDE DEF F
<1>5. \A k \in 1 .. n : F[k] = PartAt(a, k) \o F[NextAt(a, k)]
  BY <1>2, <1>4 DEF Unrolled
<1>6. \A k \in Nat : k > n => F[k] = <<>>
  BY <1>2 DEF Unrolled
<1>7. ASSUME NEW k \in 1 .. n
      PROVE  /\ Marked(a.file, k, UserMark) => F[k] = a.user \o F[k + Len(UserMark)]
             /\ ~Marked(a.file, k, UserMark) /\ Marked(a.file, k, AiMark) =>
                  F[k] = a.ai \o F[k + Len(AiMark)]
             /\ ~Marked(a.file, k, UserMark) /\ ~Marked(a.file, k, AiMark) =>
                  F[k] = <<a.file[k]>> \o F[k + 1]
  BY <1>5 DEF PartAt, NextAt
<1> QED
  BY <1>3, <1>6, <1>7 DEF F

\* The rest of a file from i on.
LEMMA RestIs ==
  ASSUME NEW file \in Seq(Chars)
  PROVE  LET S == RestOf(file)
             n == Len(file)
         IN  /\ \A i \in Nat \ {0} : S[i] \in Seq(Chars)
             /\ \A i \in Nat : i > n => S[i] = <<>>
             /\ \A i \in 1 .. n : /\ S[i] = SubSeq(file, i, n)
                                  /\ Len(S[i]) = n - i + 1
                                  /\ \A k \in 1 .. n - i + 1 : S[i][k] = file[i + k - 1]
<1> DEFINE n == Len(file)  S == RestOf(file)
<1>1. n \in Nat
  BY LenProperties
<1>2. \A i \in Nat : i > n => S[i] = <<>>
  BY <1>1 DEF RestOf
<1>3. ASSUME NEW i \in 1 .. n
      PROVE  /\ S[i] = SubSeq(file, i, n)
             /\ SubSeq(file, i, n) \in Seq(Chars)
             /\ Len(SubSeq(file, i, n)) = n - i + 1
             /\ \A k \in 1 .. n - i + 1 : SubSeq(file, i, n)[k] = file[i + k - 1]
  <2>1. S[i] = SubSeq(file, i, n)
    BY <1>1 DEF RestOf
  <2>2. i \in Nat /\ 1 <= i /\ i <= n + 1 /\ n <= Len(file)
    BY <1>1
  <2> QED
    BY <1>1, <2>1, <2>2, PartIs
<1>4. ASSUME NEW i \in Nat \ {0} PROVE S[i] \in Seq(Chars)
  <2>1. CASE i > n
    BY <1>2, <2>1, EmptySeq
  <2>2. CASE ~(i > n)
    <3>1. i \in 1 .. n
      BY <1>1, <2>2
    <3> HIDE DEF S
    <3> QED
      BY <1>3, <3>1
  <2> QED
    BY <2>1, <2>2
<1> HIDE DEF S
<1>5. \A i \in 1 .. n : /\ S[i] = SubSeq(file, i, n)
                        /\ Len(S[i]) = n - i + 1
                        /\ \A k \in 1 .. n - i + 1 : S[i][k] = file[i + k - 1]
  BY <1>3
<1> QED
  BY <1>2, <1>4, <1>5 DEF S

\* A mark stands at i in the file if the rest from i on begins with it.
LEMMA RestOccurs ==
  ASSUME NEW file \in Seq(Chars), NEW i \in 1 .. Len(file), NEW m \in Seq(Chars)
  PROVE  Occurs(m, RestOf(file)[i], 1) <=> Occurs(m, file, i)
<1> DEFINE n == Len(file)  s == RestOf(file)[i]
<1>1. /\ n \in Nat /\ Len(m) \in Nat /\ Len(s) = n - i + 1
      /\ \A k \in 1 .. n - i + 1 : s[k] = file[i + k - 1]
  BY RestIs, LenProperties
<1> HIDE DEF s
<1>2. 1 + Len(m) - 1 <= Len(s) <=> i + Len(m) - 1 <= n
  BY <1>1
<1>3. ASSUME 1 + Len(m) - 1 <= Len(s), NEW k \in 1 .. Len(m)
      PROVE  s[1 + k - 1] = file[i + k - 1]
  <2>1. k \in 1 .. n - i + 1 /\ 1 + k - 1 = k
    BY <1>1, <1>3
  <2> QED
    BY <1>1, <2>1
<1>4. Occurs(m, s, 1) <=> Occurs(m, file, i)
  BY <1>2, <1>3 DEF Occurs
<1> QED
  BY <1>4 DEF s

LEMMA MarkedIs ==
  ASSUME NEW file \in Seq(Chars), NEW i \in 1 .. Len(file), NEW m \in Seq(Chars)
  PROVE  Marked(file, i, m) <=> Occurs(m, file, i)
<1> DEFINE n == Len(file)  s == RestOf(file)[i]  j == Len(m)  x == SubSeq(s, 1, j)
<1>1. n \in Nat /\ j \in Nat /\ s \in Seq(Chars) /\ s = SubSeq(file, i, n) /\ Len(s) \in Nat
  BY RestIs, LenProperties
<1>2. SubSeq(m, 1, j) = m
  BY SubSeqFull
<1>3. Marked(file, i, m) <=> j <= Len(s) /\ x = m
  BY <1>1, <1>2 DEF Marked, IsPrefix
<1> HIDE DEF s
<1>4. ASSUME j <= Len(s) PROVE x = m <=> \A k \in 1 .. j : s[1 + k - 1] = m[k]
  <2>1. 1 \in Nat /\ 1 <= 1 /\ 1 <= j + 1 /\ j <= Len(s)
    BY <1>1, <1>4
  <2>2. x \in Seq(Chars) /\ Len(x) = j - 1 + 1 /\ \A k \in 1 .. j - 1 + 1 : x[k] = s[1 + k - 1]
    BY <1>1, <2>1, PartIs
  <2> HIDE DEF x
  <2>3. Len(x) = j /\ \A k \in 1 .. j : x[k] = s[1 + k - 1]
    <3>1. j - 1 + 1 = j
      BY <1>1
    <3> QED
      BY <2>2, <3>1
  <2>4. x = m => \A k \in 1 .. j : s[1 + k - 1] = m[k]
    BY <2>3
  <2>5. ASSUME \A k \in 1 .. j : s[1 + k - 1] = m[k] PROVE x = m
    <3>1. Len(x) = Len(m) /\ \A k \in 1 .. Len(x) : x[k] = m[k]
      BY <2>3, <2>5
    <3> QED
      BY <2>2, <3>1, SeqEqual
  <2> QED
    BY <2>4, <2>5
<1> HIDE DEF x
<1>5. 1 + j - 1 <= Len(s) <=> j <= Len(s)
  BY <1>1
<1>6. Marked(file, i, m) <=> Occurs(m, s, 1)
  BY <1>3, <1>4, <1>5 DEF Occurs
<1> QED
  BY <1>6, RestOccurs DEF s

\* The rest from i on is a part of the file and the rest behind it.
LEMMA RestSplit ==
  ASSUME NEW file \in Seq(Chars), NEW i \in 1 .. Len(file), NEW l \in Nat,
         l > i, l <= Len(file) + 1
  PROVE  RestOf(file)[i] = SubSeq(file, i, l - 1) \o RestOf(file)[l]
<1> DEFINE n == Len(file)  S == RestOf(file)
<1>1. n \in Nat /\ S[i] = SubSeq(file, i, n)
  BY RestIs, LenProperties
<1>2. S[l] = SubSeq(file, l, n)
  <2>1. CASE l <= n
    BY <1>1, <2>1, RestIs
  <2>2. CASE ~(l <= n)
    <3>1. SubSeq(file, l, n) = <<>>
      BY <1>1, <2>2, SubSeqEmpty
    <3> QED
      BY <1>1, <2>2, <3>1, RestIs
  <2> QED
    BY <2>1, <2>2
<1> HIDE DEF S
<1> DEFINE k == l - 1
<1>3. i \in 1 .. n + 1 /\ k \in i - 1 .. n /\ n \in k .. n /\ k + 1 = l
  BY <1>1
<1> HIDE DEF k
<1>4. SubSeq(file, i, k) \o SubSeq(file, k + 1, n) = SubSeq(file, i, n)
  BY <1>3, ConcatAdjacentSubSeq
<1> QED
  BY <1>1, <1>2, <1>3, <1>4 DEF S, k

\* An occurrence is a part of the file.
LEMMA OccurrenceIs ==
  ASSUME NEW file \in Seq(Chars), NEW i \in 1 .. Len(file), NEW m \in Seq(Chars),
         Len(m) >= 1, Occurs(m, file, i)
  PROVE  /\ i + Len(m) \in Nat /\ i + Len(m) > i /\ i + Len(m) <= Len(file) + 1
         /\ SubSeq(file, i, i + Len(m) - 1) = m
<1> DEFINE n == Len(file)  j == Len(m)  e == i + j - 1  x == SubSeq(file, i, e)
<1>1. n \in Nat /\ j \in Nat
  BY LenProperties
<1>2. e <= n /\ \A k \in 1 .. j : file[i + k - 1] = m[k]
  BY DEF Occurs
<1>3. e \in Nat /\ i \in Nat /\ 1 <= i /\ i <= e + 1 /\ e - i + 1 = j
  BY <1>1
<1>4. i + j \in Nat /\ i + j > i /\ i + j <= n + 1
  BY <1>1, <1>2
<1> HIDE DEF e
<1>5. x \in Seq(Chars) /\ Len(x) = j /\ \A k \in 1 .. j : x[k] = file[i + k - 1]
  BY <1>2, <1>3, PartIs
<1> HIDE DEF x
<1>6. \A k \in 1 .. Len(x) : x[k] = m[k]
  BY <1>2, <1>5
<1>7. x = m
  BY <1>5, <1>6, SeqEqual
<1> QED
  BY <1>4, <1>7 DEF x, e

----------------------------------------------------------------------------
(* The two passes.                                                         *)

\* The property's condition on the user's name.
NameApart(a) == a.user # <<>> /\ ToSet(a.user) \cap ToSet(AiMark) = {}

LEMMA UserApart ==
  ASSUME NEW a, a.user \in Seq(Chars), NameApart(a)
  PROVE  /\ Len(a.user) \in Nat /\ Len(a.user) >= 1
         /\ \A k \in 1 .. Len(a.user), j \in 1 .. Len(AiMark) :
              a.user[k] # AiMark[j]
<1>1. Len(a.user) \in Nat \ {0}
  BY EmptySeq DEF NameApart
<1>2. ASSUME NEW k \in 1 .. Len(a.user), NEW j \in 1 .. Len(AiMark),
             a.user[k] = AiMark[j]
      PROVE  FALSE
  <2>1. DOMAIN a.user = 1 .. Len(a.user) /\ DOMAIN AiMark = 1 .. Len(AiMark)
    BY MarksTyped, LenProperties
  <2>2. a.user[k] \in ToSet(a.user) /\ AiMark[j] \in ToSet(AiMark)
    BY <2>1 DEF ToSet
  <2> QED
    BY <1>2, <2>2 DEF NameApart
<1> QED
  BY <1>1, <1>2

LEMMA UserPass ==
  ASSUME NEW a, FileTyped(a)
  PROVE  Pass(RestOf(a.file), UserExpanded(a), UserMark, a.user, Len(a.file), Chars)
<1> DEFINE n == Len(a.file)  S == RestOf(a.file)  X == UserExpanded(a)
<1>1. a.file \in Seq(Chars) /\ a.user \in Seq(Chars) /\ n \in Nat
  BY LenProperties DEF FileTyped
<1>2. /\ \A i \in Nat \ {0} : S[i] \in Seq(Chars) /\ X[i] \in Seq(Chars)
      /\ \A i \in Nat : i > n => S[i] = <<>> /\ X[i] = <<>>
  BY <1>1, RestIs, UserExpandedIs
<1>3. ASSUME NEW i \in 1 .. n PROVE Turn(S, X, UserMark, a.user, i, Chars)
  <2>1. CASE Marked(a.file, i, UserMark)
    <3> DEFINE l == i + Len(UserMark)
    <3>1. Occurs(UserMark, a.file, i)
      BY <1>1, <2>1, MarksTyped, MarkedIs
    <3>2. l \in Nat /\ l > i /\ l <= n + 1 /\ SubSeq(a.file, i, l - 1) = UserMark
      BY <1>1, <3>1, MarksTyped, OccurrenceIs
    <3>3. X[i] = a.user \o X[l]
      BY <2>1, UserExpandedIs
    <3> HIDE DEF l
    <3>4. S[i] = UserMark \o S[l]
      BY <1>1, <3>2, RestSplit
    <3> HIDE DEF S, X
    <3> QED
      BY <3>2, <3>3, <3>4, Zenon DEF Turn
  <2>2. CASE ~Marked(a.file, i, UserMark)
    <3> DEFINE l == i + 1  c == <<a.file[i]>>
    <3>1. l \in Nat /\ l > i /\ l <= n + 1 /\ l - 1 = i
      BY <1>1
    <3>2. X[i] = c \o X[l]
      BY <2>2, UserExpandedIs
    <3>3. c \in Seq(Chars) /\ Len(c) = 1
      BY <1>1, OneChar
    <3>4. SubSeq(a.file, i, i) = c
      <4>1. i \in 1 .. Len(a.file) /\ i \in i .. Len(a.file) /\ i < i + 1 /\ i \in Int
        BY <1>1
      <4>2. SubSeq(a.file, i, i) = c \o SubSeq(a.file, i + 1, i)
        BY <1>1, <4>1, SubSeqRecursiveFirst
      <4>3. SubSeq(a.file, i + 1, i) = <<>>
        BY <4>1, SubSeqEmpty
      <4> HIDE DEF c
      <4>4. c \o <<>> = c
        BY <3>3, ConcatEmptySeq
      <4> QED
        BY <4>2, <4>3, <4>4
    <3> HIDE DEF l, c
    <3>5. S[i] = c \o S[l]
      BY <1>1, <3>1, <3>4, RestSplit
    <3>6. ~Occurs(UserMark, S[i], 1)
      <4>1. ~Occurs(UserMark, a.file, i)
        BY <1>1, <2>2, MarksTyped, MarkedIs
      <4> QED
        BY <1>1, <4>1, MarksTyped, RestOccurs
    <3> HIDE DEF S, X
    <3>7. \A r \in 1 .. Len(c) : ~Occurs(UserMark, S[i], r)
      BY <3>3, <3>6
    <3> QED
      BY <3>1, <3>2, <3>3, <3>5, <3>7, Zenon DEF Turn
  <2> QED
    BY <2>1, <2>2
<1> HIDE DEF S, X
<1>4. Pass(S, X, UserMark, a.user, n, Chars)
  BY <1>1, <1>2, <1>3, MarksTyped DEF Pass
<1> QED
  BY <1>4 DEF S, X

\* Between i and l the file has no user mark, and stays as it is.
LEMMA Plain ==
  ASSUME NEW a, FileTyped(a), NEW l \in Nat, l <= Len(a.file) + 1
  PROVE  \A i \in Nat \ {0} :
           i <= l /\ (\A k \in i .. l - 1 : ~Marked(a.file, k, UserMark))
             => UserExpanded(a)[i] = SubSeq(a.file, i, l - 1) \o UserExpanded(a)[l]
<1> DEFINE n == Len(a.file)  X == UserExpanded(a)
           IsPlain(i) == i <= l /\ (\A k \in i .. l - 1 : ~Marked(a.file, k, UserMark))
           Q == {i \in Nat : i # 0 /\ IsPlain(i) => X[i] = SubSeq(a.file, i, l - 1) \o X[l]}
<1>1. /\ a.file \in Seq(Chars) /\ n \in Nat
      /\ \A k \in Nat \ {0} : X[k] \in Seq(Chars)
      /\ \A k \in 1 .. n : ~Marked(a.file, k, UserMark) => X[k] = <<a.file[k]>> \o X[k + 1]
  BY UserExpandedIs, LenProperties DEF FileTyped
<1> HIDE DEF X
<1>2. ASSUME NEW i \in Nat, i > l - 1 PROVE i \in Q
  <2> SUFFICES ASSUME i # 0, i <= l PROVE X[i] = SubSeq(a.file, i, l - 1) \o X[l]
    OBVIOUS
  <2>1. i = l /\ l - 1 < i
    BY <1>2
  <2>2. SubSeq(a.file, i, l - 1) = <<>>
    BY <2>1, SubSeqEmpty
  <2>3. X[l] \in Seq(Chars)
    BY <1>1, <2>1
  <2>4. <<>> \o X[l] = X[l]
    BY <2>3, ConcatEmptySeq
  <2> QED
    BY <2>1, <2>2, <2>4
<1>3. ASSUME NEW i \in 1 .. l - 1, \A k \in Nat : k > i => k \in Q PROVE i \in Q
  <2> SUFFICES ASSUME IsPlain(i) PROVE X[i] = SubSeq(a.file, i, l - 1) \o X[l]
    OBVIOUS
  <2>1. i \in 1 .. n /\ i \in i .. l - 1 /\ i + 1 \in Nat /\ i + 1 > i /\ i + 1 # 0
        /\ i + 1 <= l /\ l \in Nat \ {0}
    BY <1>1
  <2>2. IsPlain(i + 1)
    BY <2>1
  <2>3. X[i + 1] = SubSeq(a.file, i + 1, l - 1) \o X[l]
    BY <1>3, <2>1, <2>2
  <2>4. X[i] = <<a.file[i]>> \o X[i + 1]
    BY <1>1, <2>1
  <2> DEFINE c == <<a.file[i]>>  y == SubSeq(a.file, i + 1, l - 1)  z == X[l]  e == l - 1
  <2>5. c \in Seq(Chars)
    BY <1>1, <2>1, OneChar
  <2>6. y \in Seq(Chars)
    <3> DEFINE f == i + 1
    <3>1. f \in Nat /\ e \in Nat /\ 1 <= f /\ f <= e + 1 /\ e <= Len(a.file)
      BY <1>1, <2>1
    <3> HIDE DEF f, e
    <3>2. SubSeq(a.file, f, e) \in Seq(Chars)
      BY <1>1, <3>1, PartIs
    <3> QED
      BY <3>2 DEF f, e
  <2>7. z \in Seq(Chars)
    BY <1>1, <2>1
  <2>8. SubSeq(a.file, i, l - 1) = c \o y
    <3>1. i \in 1 .. Len(a.file) /\ l - 1 \in i .. Len(a.file)
      BY <1>1, <2>1
    <3> QED
      BY <1>1, <3>1, SubSeqRecursiveFirst
  <2> HIDE DEF c, y, z
  <2>9. (c \o y) \o z = c \o (y \o z)
    <3>1. ThreeIn(c, y, z, Seq(Chars))
      BY <2>5, <2>6, <2>7 DEF ThreeIn
    <3> QED
      BY <3>1, Regroup, SMTT(20)
  <2>10. X[i] = c \o (y \o z)
    BY <2>3, <2>4 DEF c, y, z
  <2> QED
    BY <2>8, <2>9, <2>10 DEF z
<1>4. \A i \in Nat \ {0} : i \in Q
  <2>1. CASE l = 0
    <3>1. \A i \in Nat \ {0} : i > l - 1
      BY <2>1
    <3> HIDE DEF Q
    <3> QED
      BY <1>2, <3>1
  <2>2. CASE l # 0
    <3>1. l - 1 \in Nat
      BY <2>2
    <3> HIDE DEF Q
    <3> QED
      BY <1>2, <1>3, <3>1, Backwards
  <2> QED
    BY <2>1, <2>2
<1> QED
  BY <1>4 DEF X

\* What begins the partly expanded file from i on and holds no character of the
\* user's name stands in the file too.
Agrees(file, s, i, m) ==
  /\ i + m - 1 <= Len(file)
  /\ \A k \in 1 .. m : s[k] = file[i + k - 1]

Unnamed(user, s, m) ==
  /\ m <= Len(s)
  /\ \A k \in 1 .. m : \A j \in 1 .. Len(user) : s[k] # user[j]

LEMMA Agree ==
  ASSUME NEW a, FileTyped(a), NameApart(a)
  PROVE  \A i \in Nat \ {0} : \A m \in Nat \ {0} :
           Unnamed(a.user, UserExpanded(a)[i], m) => Agrees(a.file, UserExpanded(a)[i], i, m)
<1> DEFINE n == Len(a.file)  X == UserExpanded(a)
           Q == {i \in Nat : \A m \in Nat \ {0} :
                   Unnamed(a.user, X[i], m) => Agrees(a.file, X[i], i, m)}
<1>1. /\ a.file \in Seq(Chars) /\ a.user \in Seq(Chars) /\ n \in Nat
      /\ \A k \in Nat \ {0} : X[k] \in Seq(Chars)
      /\ \A k \in Nat : k > n => X[k] = <<>>
      /\ \A k \in 1 .. n : Marked(a.file, k, UserMark) =>
                             X[k] = a.user \o X[k + Len(UserMark)]
      /\ \A k \in 1 .. n : ~Marked(a.file, k, UserMark) => X[k] = <<a.file[k]>> \o X[k + 1]
  BY UserExpandedIs, LenProperties DEF FileTyped
<1> HIDE DEF X
<1>2. ASSUME NEW i \in Nat, i > n PROVE i \in Q
  <2>1. Len(X[i]) = 0
    BY <1>1, <1>2, EmptySeq
  <2> QED
    BY <2>1 DEF Unnamed
<1>3. ASSUME NEW i \in 1 .. n, \A l \in Nat : l > i => l \in Q PROVE i \in Q
  <2> SUFFICES ASSUME NEW m \in Nat \ {0}, Unnamed(a.user, X[i], m) PROVE Agrees(a.file, X[i], i, m)
    OBVIOUS
  <2>1. ~Marked(a.file, i, UserMark)
    <3> SUFFICES ASSUME Marked(a.file, i, UserMark) PROVE FALSE
      OBVIOUS
    <3> DEFINE y == X[i + Len(UserMark)]  x == X[i]
    <3>1. y \in Seq(Chars) /\ x = a.user \o y
      <4>1. i + Len(UserMark) \in Nat \ {0}
        BY <1>1, MarksTyped
      <4> QED
        BY <1>1, <4>1
    <3>2. Len(a.user) \in Nat /\ Len(a.user) >= 1
      BY <1>1, UserApart
    <3> HIDE DEF y, x
    <3>3. 1 \in 1 .. Len(a.user) /\ 1 \in 1 .. m
      BY <3>2
    <3>4. x[1] = a.user[1]
      BY <1>1, <3>1, <3>3, JoinIs
    <3>5. Unnamed(a.user, x, m)
      BY DEF x
    <3> QED
      BY <3>3, <3>4, <3>5 DEF Unnamed
  <2> DEFINE c == <<a.file[i]>>  y == X[i + 1]  x == X[i]  p == m - 1
  <2>2. i + 1 \in Nat /\ i + 1 > i /\ i + 1 \in Nat \ {0} /\ i \in Nat
    BY <1>1
  <2>3. x = c \o y
    BY <1>1, <2>1
  <2>4. y \in Seq(Chars)
    BY <1>1, <2>2
  <2>5. c \in Seq(Chars) /\ Len(c) = 1 /\ c[1] = a.file[i]
    BY <1>1, OneChar
  <2> HIDE DEF c, y, x
  <2>6. Len(y) \in Nat /\ Len(x) = 1 + Len(y) /\ x[1] = a.file[i]
        /\ \A k \in 1 .. Len(y) : x[1 + k] = y[k]
    <3> DEFINE z == c \o y
    <3>1. z = x
      BY <2>3
    <3>2. c \in Seq(Chars) /\ y \in Seq(Chars)
      BY <2>4, <2>5
    <3>3. /\ Len(z) = Len(c) + Len(y) /\ Len(y) \in Nat
          /\ \A k \in 1 .. Len(c) : z[k] = c[k]
      BY <3>2, JoinIs
    <3>4. \A k \in 1 .. Len(y) : z[Len(c) + k] = y[k]
      BY <3>2, JoinIs
    <3>5. 1 \in 1 .. Len(c)
      BY <2>5
    <3> HIDE DEF z
    <3> QED
      BY <2>5, <3>1, <3>3, <3>4, <3>5
  <2>7. /\ m <= Len(x)
        /\ \A k \in 1 .. m : \A j \in 1 .. Len(a.user) : x[k] # a.user[j]
    BY DEF Unnamed, x
  <2>8. CASE m = 1
    <3>1. \A k \in 1 .. m : k = 1 /\ i + k - 1 = i
      BY <2>2, <2>8
    <3>2. i + m - 1 <= n
      BY <1>1, <2>8
    <3>3. Agrees(a.file, x, i, m)
      BY <2>6, <3>1, <3>2 DEF Agrees
    <3> QED
      BY <3>3 DEF x
  <2>9. CASE m # 1
    <3>1. p \in Nat \ {0} /\ m = p + 1 /\ p <= Len(y)
      BY <2>6, <2>7, <2>9
    <3> HIDE DEF p
    <3>2. \A k \in 1 .. p : k \in 1 .. Len(y) /\ 1 + k \in 1 .. m
      BY <2>6, <3>1
    <3>3. Unnamed(a.user, y, p)
      BY <2>6, <2>7, <3>1, <3>2 DEF Unnamed
    <3>4. Agrees(a.file, y, i + 1, p)
      BY <1>3, <2>2, <3>1, <3>3 DEF y
    <3>5. (i + 1) + p - 1 <= n /\ \A k \in 1 .. p : y[k] = a.file[(i + 1) + k - 1]
      BY <3>4 DEF Agrees
    <3>6. i + m - 1 <= n
      BY <1>1, <2>2, <3>1, <3>5
    <3>7. ASSUME NEW k \in 1 .. m PROVE x[k] = a.file[i + k - 1]
      <4>1. CASE k = 1
        BY <2>2, <2>6, <4>1
      <4>2. CASE k # 1
        <5> DEFINE h == k - 1
        <5>1. h \in 1 .. p /\ k = 1 + h /\ (i + 1) + h - 1 = i + k - 1
          BY <2>2, <3>1, <4>2
        <5> HIDE DEF h
        <5>2. x[1 + h] = y[h] /\ y[h] = a.file[(i + 1) + h - 1]
          BY <2>6, <3>2, <3>5, <5>1
        <5> QED
          BY <5>1, <5>2
      <4> QED
        BY <4>1, <4>2
    <3>8. Agrees(a.file, x, i, m)
      BY <3>6, <3>7 DEF Agrees
    <3> QED
      BY <3>8 DEF x
  <2> QED
    BY <2>8, <2>9
<1>4. \A i \in Nat \ {0} : i \in Q
  <2> HIDE DEF Q
  <2> QED
    BY <1>1, <1>2, <1>3, Backwards
<1> QED
  BY <1>4 DEF X

\* No user mark stands within an AI mark.
LEMMA MarksApart ==
  ASSUME NEW file \in Seq(Chars), NEW i \in Nat \ {0}, Occurs(AiMark, file, i),
         NEW k \in Nat, k > i, k <= i + Len(AiMark) - 1
  PROVE  ~Occurs(UserMark, file, k)
<1> DEFINE h == k - i + 1
<1>1. h \in 2 .. Len(AiMark) /\ k = i + h - 1
  BY MarksTyped
<1> HIDE DEF h
<1>2. PICK j \in 1 .. Len(UserMark) :
        h + j - 1 <= Len(AiMark) /\ AiMark[h + j - 1] # UserMark[j]
  BY <1>1, MarksAssumption
<1> DEFINE m == h + j - 1
<1>3. m \in 1 .. Len(AiMark) /\ i + m - 1 = k + j - 1
  BY <1>1, <1>2, MarksTyped
<1> HIDE DEF m
<1>4. file[i + m - 1] = AiMark[m]
  BY <1>3 DEF Occurs
<1>5. ASSUME Occurs(UserMark, file, k) PROVE file[k + j - 1] = UserMark[j]
  BY <1>5 DEF Occurs
<1>6. AiMark[m] # UserMark[j]
  BY <1>2 DEF m
<1> QED
  BY <1>3, <1>4, <1>5, <1>6

LEMMA AiPass ==
  ASSUME NEW a, FileTyped(a), NameApart(a)
  PROVE  Pass(UserExpanded(a), ExpandedFrom(a), AiMark, a.ai, Len(a.file), Chars)
<1> DEFINE n == Len(a.file)  X == UserExpanded(a)  F == ExpandedFrom(a)
<1>1. a.file \in Seq(Chars) /\ a.user \in Seq(Chars) /\ a.ai \in Seq(Chars) /\ n \in Nat
  BY LenProperties DEF FileTyped
<1>2. /\ \A i \in Nat \ {0} : X[i] \in Seq(Chars) /\ F[i] \in Seq(Chars)
      /\ \A i \in Nat : i > n => X[i] = <<>> /\ F[i] = <<>>
  BY UserExpandedIs, FullyExpandedIs
<1>3. ASSUME NEW i \in 1 .. n PROVE Turn(X, F, AiMark, a.ai, i, Chars)
  <2>1. CASE Marked(a.file, i, UserMark)
    <3> DEFINE l == i + Len(UserMark)
    <3>1. l \in Nat /\ l > i
      BY <1>1, MarksTyped
    <3>2. X[i] = a.user \o X[l]
      BY <2>1, UserExpandedIs
    <3>3. F[i] = a.user \o F[l]
      BY <2>1, FullyExpandedIs
    <3>4. X[l] \in Seq(Chars)
      BY <1>1, <1>2, <3>1
    <3> HIDE DEF l, X, F
    <3>5. ASSUME NEW r \in 1 .. Len(a.user) PROVE ~Occurs(AiMark, X[i], r)
      <4> DEFINE s == X[i]
      <4>1. s[r] = a.user[r]
        <5> DEFINE y == X[l]  u == a.user  z == u \o y
        <5>1. u \in Seq(Chars) /\ y \in Seq(Chars) /\ z = s /\ r \in 1 .. Len(u)
          BY <1>1, <3>2, <3>4
        <5> HIDE DEF y, u, s
        <5>2. z[r] = u[r]
          BY <5>1, JoinIs
        <5> QED
          BY <5>1, <5>2 DEF u
      <4>2. 1 \in 1 .. Len(AiMark)
        BY MarksTyped
      <4>3. a.user[r] # AiMark[1]
        BY <1>1, <4>2, UserApart
      <4>4. r + 1 - 1 = r
        BY <1>1, UserApart
      <4> HIDE DEF s
      <4>5. ~Occurs(AiMark, s, r)
        BY <4>1, <4>2, <4>3, <4>4 DEF Occurs
      <4> QED
        BY <4>5 DEF s
    <3> QED
      BY <1>1, <3>1, <3>2, <3>3, <3>5, Zenon DEF Turn
  <2>2. CASE ~Marked(a.file, i, UserMark) /\ Marked(a.file, i, AiMark)
    <3> DEFINE l == i + Len(AiMark)
    <3>1. Occurs(AiMark, a.file, i)
      BY <1>1, <2>2, MarksTyped, MarkedIs
    <3>2. l \in Nat /\ l > i /\ l <= n + 1 /\ SubSeq(a.file, i, l - 1) = AiMark
      BY <1>1, <3>1, MarksTyped, OccurrenceIs
    <3>3. F[i] = a.ai \o F[l]
      BY <2>2, FullyExpandedIs
    <3>4. ASSUME NEW k \in i .. l - 1 PROVE ~Marked(a.file, k, UserMark)
      <4>1. CASE k = i
        BY <2>2, <4>1
      <4>2. CASE k # i
        <5>1. k \in Nat /\ k > i /\ k <= i + Len(AiMark) - 1 /\ i \in Nat \ {0} /\ k \in 1 .. n
          BY <1>1, <3>2, <4>2, MarksTyped
        <5>2. ~Occurs(UserMark, a.file, k)
          BY <1>1, <3>1, <5>1, MarksApart
        <5> QED
          BY <1>1, <5>1, <5>2, MarksTyped, MarkedIs
      <4> QED
        BY <4>1, <4>2
    <3> HIDE DEF l
    <3>5. X[i] = AiMark \o X[l]
      <4>1. i \in Nat \ {0} /\ i <= l
        BY <1>1, <3>2
      <4> QED
        BY <3>2, <3>4, <4>1, Plain
    <3> HIDE DEF X, F
    <3> QED
      BY <3>2, <3>3, <3>5, Zenon DEF Turn
  <2>3. CASE ~Marked(a.file, i, UserMark) /\ ~Marked(a.file, i, AiMark)
    <3> DEFINE l == i + 1  c == <<a.file[i]>>
    <3>1. l \in Nat /\ l > i /\ i \in Nat \ {0}
      BY <1>1
    <3>2. X[i] = c \o X[l]
      BY <2>3, UserExpandedIs
    <3>3. F[i] = c \o F[l]
      BY <2>3, FullyExpandedIs
    <3>4. c \in Seq(Chars) /\ Len(c) = 1
      BY <1>1, OneChar
    <3> HIDE DEF l, c
    <3>5. ~Occurs(AiMark, X[i], 1)
      <4> SUFFICES ASSUME Occurs(AiMark, X[i], 1) PROVE FALSE
        OBVIOUS
      <4> DEFINE s == X[i]  m == Len(AiMark)
      <4>1. m \in Nat \ {0}
        BY MarksTyped
      <4>2. 1 + m - 1 <= Len(s) /\ \A k \in 1 .. m : s[1 + k - 1] = AiMark[k]
        BY DEF Occurs
      <4>3. 1 + m - 1 = m /\ \A k \in 1 .. m : 1 + k - 1 = k
        BY <4>1
      <4> HIDE DEF s
      <4>4. \A k \in 1 .. m : s[k] = AiMark[k]
        BY <4>2, <4>3
      <4>5. \A k \in 1 .. m : \A j \in 1 .. Len(a.user) : s[k] # a.user[j]
        BY <1>1, <4>4, UserApart
      <4>6. Unnamed(a.user, s, m)
        BY <4>2, <4>3, <4>5 DEF Unnamed
      <4>7. Agrees(a.file, s, i, m)
        BY <3>1, <4>1, <4>6, Agree DEF s
      <4>8. Occurs(AiMark, a.file, i)
        BY <4>4, <4>7 DEF Agrees, Occurs
      <4> QED
        BY <1>1, <2>3, <4>8, MarksTyped, MarkedIs
    <3> HIDE DEF X, F
    <3>6. \A r \in 1 .. Len(c) : ~Occurs(AiMark, X[i], r)
      BY <3>4, <3>5
    <3> QED
      BY <3>1, <3>2, <3>3, <3>4, <3>6, Zenon DEF Turn
  <2> QED
    BY <2>1, <2>2, <2>3
<1> HIDE DEF X, F
<1>4. Pass(X, F, AiMark, a.ai, n, Chars)
  BY <1>1, <1>2, <1>3, MarksTyped DEF Pass
<1> QED
  BY <1>4 DEF X, F

----------------------------------------------------------------------------
(* What becomes of the prompt file.                                        *)

\* What is loaded of a string.
Loaded(s, length) ==
  LET whole == UpTo(s, length)
  IN  IF whole # <<>> /\ Last(whole) = Newline THEN Front(whole) ELSE whole

Stage(a, here, s, start) ==
  /\ here = "user" => Passing(RestOf(a.file), UserExpanded(a), Chars, s, start)
  /\ here = "ai" => Passing(UserExpanded(a), ExpandedFrom(a), Chars, s, start)
  /\ here = "cut" => s = Expanded(a)
  /\ here = "load" => s = Loaded(Expanded(a), a.ctx_size)

\* How far the prompt has been expanded.
PromptInv ==
  /\ args \in Args
  /\ pc = "open" => pos = 1
  /\ args.readable /\ NameApart(args) => Stage(args, pc, prompt, pos)

LEMMA ArgsTyped == args \in Args => FileTyped(args)
BY ArgsAssumption DEF FileTyped

LEMMA PromptIsExpandedByInv == PromptInv => PromptIsExpanded
<1> SUFFICES ASSUME PromptInv, pc = "load", args.readable, args.user # <<>>,
                    ToSet(args.user) \cap ToSet(AiMark) = {}
             PROVE  prompt = Loaded(Expanded(args), args.ctx_size)
  BY DEF PromptIsExpanded, Loaded
<1> QED
  BY DEF PromptInv, Stage, NameApart

\* The pass begins with the file.
LEMMA FileBegins ==
  ASSUME NEW a, FileTyped(a)
  PROVE  Passing(RestOf(a.file), UserExpanded(a), Chars, a.file, 1)
<1> DEFINE s == a.file  S == RestOf(a.file)
<1>1. s \in Seq(Chars) /\ Len(s) \in Nat
  BY LenProperties DEF FileTyped
<1>2. s = S[1]
  <2>1. CASE Len(s) >= 1
    <3>1. 1 \in 1 .. Len(s)
      BY <1>1, <2>1
    <3>2. S[1] = SubSeq(s, 1, Len(s))
      BY <1>1, <3>1, RestIs
    <3> QED
      BY <1>1, <3>2, SubSeqFull
  <2>2. CASE ~(Len(s) >= 1)
    <3>1. s = <<>>
      BY <1>1, <2>2, EmptySeq
    <3>2. S[1] = <<>>
      BY <1>1, <2>2 DEF RestOf
    <3> QED
      BY <3>1, <3>2
  <2> QED
    BY <2>1, <2>2
<1>3. Pass(S, UserExpanded(a), UserMark, a.user, Len(s), Chars)
  BY UserPass
<1> HIDE DEF s, S
<1>4. Passing(S, UserExpanded(a), Chars, s, 1)
  BY <1>2, <1>3, PassBegins
<1> QED
  BY <1>4 DEF s, S

LEMMA OpenKept == PromptInv /\ Open => PromptInv'
<1> SUFFICES ASSUME PromptInv, Open PROVE PromptInv'
  OBVIOUS
<1>1. args' = args /\ args \in Args /\ pos = 1 /\ pos' = pos
  BY DEF Open, At, PromptInv
<1>2. CASE args.readable
  <2>1. prompt' = args.file /\ pc' = "user"
    BY <1>2 DEF Open
  <2>2. Passing(RestOf(args.file), UserExpanded(args), Chars, args.file, 1)
    BY <1>1, ArgsTyped, FileBegins
  <2>3. Stage(args, "user", args.file, 1)
    BY <2>2 DEF Stage
  <2> QED
    BY <1>1, <2>1, <2>3 DEF PromptInv
<1>3. CASE ~args.readable
  <2>1. pc' = "load"
    BY <1>3 DEF Open
  <2> QED
    BY <1>1, <1>3, <2>1 DEF PromptInv
<1> QED
  BY <1>2, <1>3

LEMMA ReplaceUserKept == PromptInv /\ ReplaceUser => PromptInv'
<1> SUFFICES ASSUME PromptInv, ReplaceUser PROVE PromptInv'
  OBVIOUS
<1> DEFINE k == Find(prompt, UserMark, pos)
           S == RestOf(args.file)  X == UserExpanded(args)  F == ExpandedFrom(args)
<1>1. args' = args /\ args \in Args /\ pc = "user"
  BY DEF ReplaceUser, ReplaceNext, At, PromptInv
<1>2. FileTyped(args)
  BY <1>1, ArgsTyped
<1>3. Pass(S, X, UserMark, args.user, Len(args.file), Chars)
  BY <1>2, UserPass
<1> HIDE DEF S, X, F
<1>4. CASE k # 0
  <2>1. /\ prompt' = ReplaceSubSeqAt(k, args.user, UserMark, prompt)
        /\ pos' = k + Len(args.user) /\ pc' = "user"
    BY <1>1, <1>4 DEF ReplaceUser, ReplaceNext, AfterName
  <2>2. ASSUME args.readable, NameApart(args) PROVE Stage(args, pc', prompt', pos')
    <3>1. Passing(S, X, Chars, prompt, pos)
      BY <1>1, <2>2 DEF PromptInv, Stage, S, X
    <3>2. Passing(S, X, Chars, ReplaceSubSeqAt(k, args.user, UserMark, prompt),
                  k + Len(args.user))
      BY <1>3, <1>4, <3>1, PassGoesOn
    <3> HIDE DEF k
    <3>3. Passing(S, X, Chars, prompt', pos')
      BY <2>1, <3>2
    <3> QED
      BY <2>1, <3>3 DEF Stage, S, X
  <2> HIDE DEF k
  <2>3. pc' # "open"
    BY <2>1
  <2> QED
    BY <1>1, <2>2, <2>3 DEF PromptInv
<1>5. CASE k = 0
  <2>1. prompt' = prompt /\ pos' = 1 /\ pc' = "ai"
    BY <1>1, <1>5 DEF ReplaceUser, ReplaceNext
  <2>2. ASSUME args.readable, NameApart(args) PROVE Stage(args, pc', prompt', pos')
    <3>1. Passing(S, X, Chars, prompt, pos)
      BY <1>1, <2>2 DEF PromptInv, Stage, S, X
    <3>2. prompt = X[1]
      BY <1>3, <1>5, <3>1, PassEnds
    <3>3. Pass(X, F, AiMark, args.ai, Len(args.file), Chars)
      BY <1>2, <2>2, AiPass DEF X, F
    <3>4. Passing(X, F, Chars, prompt, 1)
      BY <3>2, <3>3, PassBegins
    <3>5. Passing(X, F, Chars, prompt', pos')
      BY <2>1, <3>4
    <3> QED
      BY <2>1, <3>5 DEF Stage, X, F
  <2>3. pc' # "open"
    BY <2>1
  <2> QED
    BY <1>1, <2>2, <2>3 DEF PromptInv
<1> QED
  BY <1>4, <1>5

LEMMA ReplaceAiKept == PromptInv /\ ReplaceAi => PromptInv'
<1> SUFFICES ASSUME PromptInv, ReplaceAi PROVE PromptInv'
  OBVIOUS
<1> DEFINE k == Find(prompt, AiMark, pos)
           X == UserExpanded(args)  F == ExpandedFrom(args)
<1>1. args' = args /\ args \in Args /\ pc = "ai"
  BY DEF ReplaceAi, ReplaceNext, At, PromptInv
<1>2. FileTyped(args)
  BY <1>1, ArgsTyped
<1>3. NameApart(args) => Pass(X, F, AiMark, args.ai, Len(args.file), Chars)
  BY <1>2, AiPass
<1> HIDE DEF X, F
<1>4. CASE k # 0
  <2>1. /\ prompt' = ReplaceSubSeqAt(k, args.ai, AiMark, prompt)
        /\ pos' = k + Len(args.ai) /\ pc' = "ai"
    BY <1>1, <1>4 DEF ReplaceAi, ReplaceNext, AfterName
  <2>2. ASSUME args.readable, NameApart(args) PROVE Stage(args, pc', prompt', pos')
    <3>1. Passing(X, F, Chars, prompt, pos)
      BY <1>1, <2>2 DEF PromptInv, Stage, X, F
    <3>2. Passing(X, F, Chars, ReplaceSubSeqAt(k, args.ai, AiMark, prompt),
                  k + Len(args.ai))
      BY <1>3, <1>4, <2>2, <3>1, PassGoesOn
    <3> HIDE DEF k
    <3>3. Passing(X, F, Chars, prompt', pos')
      BY <2>1, <3>2
    <3> QED
      BY <2>1, <3>3 DEF Stage, X, F
  <2> HIDE DEF k
  <2>3. pc' # "open"
    BY <2>1
  <2> QED
    BY <1>1, <2>2, <2>3 DEF PromptInv
<1>5. CASE k = 0
  <2>1. prompt' = prompt /\ pc' = "cut"
    BY <1>1, <1>5 DEF ReplaceAi, ReplaceNext
  <2>2. ASSUME args.readable, NameApart(args) PROVE Stage(args, pc', prompt', pos')
    <3>1. Passing(X, F, Chars, prompt, pos)
      BY <1>1, <2>2 DEF PromptInv, Stage, X, F
    <3>2. prompt = F[1]
      BY <1>3, <1>5, <2>2, <3>1, PassEnds
    <3>3. prompt' = Expanded(args)
      BY <2>1, <3>2 DEF Expanded, F
    <3> QED
      BY <2>1, <3>3 DEF Stage
  <2>3. pc' # "open"
    BY <2>1
  <2> QED
    BY <1>1, <2>2, <2>3 DEF PromptInv
<1> QED
  BY <1>4, <1>5

LEMMA CutKept == PromptInv /\ Cut => PromptInv'
<1> SUFFICES ASSUME PromptInv, Cut PROVE PromptInv'
  OBVIOUS
<1>1. args' = args /\ args \in Args /\ pc = "cut" /\ pc' \in {"load", "aborted"}
  BY DEF Cut, At, PromptInv
<1>2. ASSUME args.readable, NameApart(args), pc' = "load"
      PROVE  prompt' = Loaded(Expanded(args), args.ctx_size)
  <2>1. prompt = Expanded(args)
    BY <1>1, <1>2 DEF PromptInv, Stage
  <2> DEFINE whole == UpTo(prompt, args.ctx_size)
  <2>2. prompt' = IF whole = <<>> THEN <<>>
                  ELSE IF Last(whole) = Newline THEN Front(whole) ELSE whole
    BY DEF Cut, CutFirst, WithoutNewline
  <2>3. Loaded(prompt, args.ctx_size)
          = IF whole # <<>> /\ Last(whole) = Newline THEN Front(whole) ELSE whole
    BY DEF Loaded
  <2> HIDE DEF whole
  <2>4. prompt' = Loaded(prompt, args.ctx_size)
    BY <2>2, <2>3
  <2> QED
    BY <2>1, <2>4
<1> QED
  BY <1>1, <1>2 DEF PromptInv, Stage

LEMMA WorkApart ==
  ASSUME Work
  PROVE  args' = args /\ pc' \notin {"open", "user", "ai", "cut", "load"}
<1> USE DEF Go, At
<1>1. CASE Load \/ LoadReturns \/ LoadThrows \/ SetOptions
  BY <1>1 DEF Load, LoadReturns, LoadThrows, SetOptions
<1>2. CASE ReadLine \/ EndOfInput \/ TakeInput
  BY <1>2 DEF ReadLine, EndOfInput, TakeInput
<1>3. CASE Predict \/ Infer \/ PredictReturns \/ PredictThrows \/ Unload
  BY <1>3 DEF Predict, Infer, PredictReturns, PredictThrows, Unload
<1> QED
  BY <1>1, <1>2, <1>3 DEF Work

LEMMA PromptKept == PromptInv /\ [Next]_vars => PromptInv'
<1> SUFFICES ASSUME PromptInv, [Next]_vars PROVE PromptInv'
  OBVIOUS
<1>1. CASE Prepare
  BY <1>1, OpenKept, ReplaceUserKept, ReplaceAiKept, CutKept DEF Prepare
<1>2. CASE Work
  <2>1. args' = args /\ pc' \notin {"open", "user", "ai", "cut", "load"}
    BY <1>2, WorkApart
  <2> QED
    BY <2>1 DEF PromptInv, Stage
<1>3. CASE Interrupt \/ UNCHANGED vars
  <2>1. UNCHANGED <<args, pc, prompt, pos>>
    BY <1>3 DEF Interrupt, vars
  <2> QED
    BY <2>1 DEF PromptInv, Stage
<1> QED
  BY <1>1, <1>2, <1>3 DEF Next

\* Whatever the file and the names are, two loops of replace_all that go over a
\* string while it grows or shrinks come to one simultaneous replacement, and
\* inference gets the beginning of it without a last newline.
THEOREM PromptExpands == Spec => []PromptIsExpanded
<1>1. Init => PromptInv
  BY DEF Init, PromptInv, Stage
<1>2. PromptInv /\ [Next]_vars => PromptInv'
  BY PromptKept
<1>3. PromptInv => PromptIsExpanded
  BY PromptIsExpandedByInv
<1> QED
  BY <1>1, <1>2, <1>3, PTL DEF Spec

==============================================================================
