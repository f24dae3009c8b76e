-------------------------- MODULE ChatClientProofs ---------------------------
(***************************************************************************)
(* Theorems about ChatClient, for any number of submits, answers of any    *)
(* length and loaders of any length: however answers overlap, the newest   *)
(* bubble shows its answer, the loaders that go on write to nothing the    *)
(* user sees, and what was shown stays.  That an answer shows up in the    *)
(* end is left to TLC.                                                     *)
(***************************************************************************)
EXTENDS ChatClient, SequenceTheorems, TLAPS

Stages == {"unsent", "fetching", "reading", "refused", "typing", "failed", "done"}

\* The pieces of text that belong into the bubble of a submit.
Own(s) == {Dot, Wrong} \cup {Letter(s, n) : n \in 1 .. Length}

\* The first n letters of an answer.
Begun(s, n) == [k \in 1 .. n |-> Letter(s, k)]

\* Types, and the bubbles' texts as sequences of their own pieces.
TextInv ==
  /\ stage \in [Submits -> Stages]
  /\ index \in [Submits -> 0 .. Length]
  /\ loaders \subseteq Submits
  /\ text \in [Submits -> Texts] /\ copy \in [Submits -> Texts]
  /\ \A s \in Submits : text[s] \in Seq(Own(s)) /\ copy[s] \in Seq(Own(s))

\* The page and the global belong to the newest submit.
PageInv ==
  /\ \A s \in Submits : IsNewest(s) => inPage = {s} /\ loadInterval = s
  /\ \A s \in inPage : s \in Submits /\ IsNewest(s)
  /\ \A s \in Submitted : 1 .. s \subseteq Submitted
  /\ loadInterval \in 0 .. MaxSubmits
  /\ loaders \subseteq Submitted

\* How far the newest answer has come.
AnswerInv ==
  \A s \in Submits :
    /\ stage[s] \notin {"typing", "done"} => index[s] = 0
    /\ IsNewest(s) =>
         /\ s \in loaders => stage[s] \in {"fetching", "failed"}
         /\ stage[s] \in {"reading", "refused"} => text[s] = <<>>
         /\ stage[s] = "typing" => text[s] = Begun(s, index[s])
         /\ stage[s] = "done" => text[s] \in {Answer(s), <<Wrong>>}

ClientInv == TextInv /\ PageInv /\ AnswerInv

----------------------------------------------------------------------------
(* Texts.                                                                  *)

LEMMA BegunGrows ==
  ASSUME NEW s, NEW n \in Nat
  PROVE  Append(Begun(s, n), Letter(s, n + 1)) = Begun(s, n + 1)
<1> DEFINE T == {Letter(s, k) : k \in Nat}
<1>1. \A m \in Nat : Begun(s, m) \in Seq(T) /\ Len(Begun(s, m)) = m
  <2> TAKE m \in Nat
  <2>1. Begun(s, m) \in [1 .. m -> T]
    BY DEF Begun
  <2>2. Begun(s, m) \in Seq(T)
    BY <2>1, SeqDef
  <2>3. DOMAIN Begun(s, m) = 1 .. m
    BY <2>1
  <2> QED
    BY <2>2, <2>3, LenProperties
<1>2. Letter(s, n + 1) \in T
  OBVIOUS
<1>3. \A m \in Nat : \A k \in 1 .. m : Begun(s, m)[k] = Letter(s, k)
  BY DEF Begun
<1> DEFINE long == Append(Begun(s, n), Letter(s, n + 1))
<1>4. /\ long \in Seq(T) /\ Len(long) = n + 1
      /\ \A k \in 1 .. n : long[k] = Begun(s, n)[k]
      /\ long[n + 1] = Letter(s, n + 1)
  <2> HIDE DEF T
  <2> QED
    BY <1>1, <1>2, AppendProperties
<1>5. \A k \in 1 .. n + 1 : long[k] = Begun(s, n + 1)[k]
  <2> TAKE k \in 1 .. n + 1
  <2>1. Begun(s, n + 1)[k] = Letter(s, k)
    BY <1>3
  <2>2. CASE k = n + 1
    BY <2>1, <2>2, <1>4
  <2>3. CASE k \in 1 .. n
    BY <2>1, <2>3, <1>3, <1>4
  <2>4. k = n + 1 \/ k \in 1 .. n
    OBVIOUS
  <2> QED
    BY <2>2, <2>3, <2>4
<1>6. Begun(s, n + 1) \in Seq(T) /\ Len(Begun(s, n + 1)) = n + 1
  BY <1>1
<1> HIDE DEF long, T
<1> QED
  BY <1>4, <1>5, <1>6, SeqEqual DEF long

LEMMA OwnPieces ==
  ASSUME NEW s \in Submits
  PROVE  /\ Dot \in Own(s) /\ Wrong \in Own(s)
         /\ <<>> \in Seq(Own(s)) /\ <<Wrong>> \in Seq(Own(s))
         /\ \A n \in 0 .. Length - 1 : Letter(s, n + 1) \in Own(s)
         /\ \A t \in Seq(Own(s)), piece \in Own(s) : Append(t, piece) \in Seq(Own(s))
         /\ \A t \in Seq(Own(s)) : t \in Texts
         /\ Begun(s, 0) = <<>> /\ Begun(s, Length) = Answer(s)
<1>1. Begun(s, 0) = <<>>
  BY DEF Begun
<1>2. Begun(s, Length) = Answer(s)
  BY DEF Begun, Answer
<1>3. \A n \in 0 .. Length - 1 : n + 1 \in 1 .. Length
  BY BoundsAssumption
<1>4. Dot \in Own(s) /\ Wrong \in Own(s)
      /\ \A n \in 0 .. Length - 1 : Letter(s, n + 1) \in Own(s)
  BY <1>3 DEF Own
<1>5. \A t \in Seq(Own(s)) : t \in Texts
  <2> DEFINE T == {Dot, Wrong} \cup (Submits \X (1 .. Length))
  <2>1. Own(s) \subseteq T
    BY DEF Own, Letter
  <2> HIDE DEF T
  <2>2. \A t \in Seq(Own(s)) : t \in Seq(T)
    BY <2>1
  <2> QED
    BY <2>2 DEF T, Texts
<1> QED
  BY <1>1, <1>2, <1>4, <1>5

----------------------------------------------------------------------------
(* Steps.                                                                  *)

LEMMA InitClient == Init => ClientInv
<1> SUFFICES ASSUME Init PROVE ClientInv
  OBVIOUS
<1>1. TextInv
  <2>1. \A s \in Submits : <<>> \in Seq(Own(s)) /\ <<>> \in Texts
    BY OwnPieces
  <2>2. text \in [Submits -> Texts] /\ copy \in [Submits -> Texts]
    BY <2>1 DEF Init
  <2>3. index \in [Submits -> 0 .. Length]
    BY BoundsAssumption DEF Init
  <2> QED
    BY <2>1, <2>2, <2>3 DEF Init, TextInv, Stages
<1>2. Submitted = {}
  BY DEF Init, Submitted
<1>3. \A s \in Submits : ~IsNewest(s)
  BY <1>2 DEF IsNewest
<1>4. PageInv
  BY <1>2, <1>3, BoundsAssumption DEF PageInv, Init
<1>5. AnswerInv
  BY <1>3 DEF AnswerInv, Init
<1> QED
  BY <1>1, <1>4, <1>5 DEF ClientInv

LEMMA TextKept == TextInv /\ [Next]_vars => TextInv'
<1> SUFFICES ASSUME TextInv, [Next]_vars PROVE TextInv'
  OBVIOUS
<1> USE DEF TextInv, Stages
<1>1. ASSUME NEW s \in Submits, Submit(s) PROVE TextInv'
  BY <1>1 DEF Submit, Page
<1>2. ASSUME NEW s \in Submits, Load(s) PROVE TextInv'
  <2> DEFINE new == IF text[s] = Dots THEN <<>> ELSE Append(text[s], Dot)
  <2>1. new \in Seq(Own(s))
    BY OwnPieces
  <2> HIDE DEF new
  <2>2. text' = [text EXCEPT ![s] = new]
    BY <1>2 DEF Load, new
  <2>3. new \in Texts
    BY <2>1, OwnPieces
  <2> QED
    BY <1>2, <2>1, <2>2, <2>3 DEF Load
<1>3. ASSUME NEW s \in Submits, NEW ok \in BOOLEAN, Respond(s, ok) PROVE TextInv'
  BY <1>3, OwnPieces DEF Respond
<1>4. ASSUME NEW s \in Submits, Fail(s) PROVE TextInv'
  BY <1>4 DEF Fail
<1>5. ASSUME NEW s \in Submits, Read(s) PROVE TextInv'
  BY <1>5 DEF Read
<1>6. ASSUME NEW s \in Submits, ShowError(s) PROVE TextInv'
  BY <1>6, OwnPieces DEF ShowError
<1>7. ASSUME NEW s \in Submits, Type(s) PROVE TextInv'
  <2>1. index[s] \in 0 .. Length - 1 /\ index[s] + 1 \in 0 .. Length
    BY <1>7, BoundsAssumption DEF Type
  <2>2. Append(text[s], Letter(s, index[s] + 1)) \in Seq(Own(s))
    BY <2>1, OwnPieces
  <2> DEFINE new == Append(text[s], Letter(s, index[s] + 1))
  <2>3. new \in Texts /\ new \in Seq(Own(s))
    BY <2>2, OwnPieces
  <2>4. text' = [text EXCEPT ![s] = new]
        /\ index' = [index EXCEPT ![s] = index[s] + 1]
        /\ UNCHANGED <<stage, loaders, copy>>
    BY <1>7 DEF Type
  <2> HIDE DEF new
  <2> QED
    BY <2>1, <2>3, <2>4
<1>8. ASSUME NEW s \in Submits, Typed(s) PROVE TextInv'
  BY <1>8 DEF Typed
<1>9. CASE UNCHANGED vars
  BY <1>9 DEF vars
<1> QED
  BY <1>1, <1>2, <1>3, <1>4, <1>5, <1>6, <1>7, <1>8, <1>9 DEF Next, Continue

\* Which steps change what is submitted.
LEMMA SubmittedBySubmit ==
  ASSUME TextInv, [Next]_vars, \A s \in Submits : ~Submit(s)
  PROVE  /\ UNCHANGED <<Submitted, inPage, loadInterval, copy>>
         /\ loaders' \subseteq loaders
         /\ \A s \in Submits : IsNewest(s)' <=> IsNewest(s)
<1>1. /\ UNCHANGED <<inPage, loadInterval, copy>>
      /\ loaders' \subseteq loaders
      /\ \A s \in Submits : (stage'[s] = "unsent") <=> (stage[s] = "unsent")
  BY DEF Next, Continue, Load, Respond, Fail, Read, ShowError, Type, Typed, vars, TextInv
<1>2. Submitted' = Submitted
  BY <1>1 DEF Submitted
<1> QED
  BY <1>1, <1>2 DEF IsNewest

LEMMA SubmitIsNewest ==
  ASSUME TextInv, PageInv, NEW s \in Submits, Submit(s)
  PROVE  /\ Submitted' = Submitted \cup {s}
         /\ Submitted = 1 .. s - 1
         /\ \A q \in Submits : IsNewest(q)' <=> q = s
<1>1. Submitted' = Submitted \cup {s}
  BY DEF Submit, Submitted, TextInv
<1>2. s \notin Submitted /\ \A q \in 1 .. s - 1 : q \in Submits /\ q \in Submitted
  BY BoundsAssumption DEF Submit, Submitted, Submits
<1>3. \A q \in Submitted : q < s
  <2> SUFFICES ASSUME NEW q \in Submitted PROVE q < s
    OBVIOUS
  <2>1. q \in Submits
    BY DEF Submitted
  <2>2. s \notin 1 .. q
    BY <1>2, <2>1 DEF PageInv
  <2> QED
    BY <1>2, <2>1, <2>2, BoundsAssumption DEF Submits
<1>4. Submitted = 1 .. s - 1
  <2>1. \A q \in Submitted : q \in Nat /\ q >= 1
    BY BoundsAssumption DEF Submitted, Submits
  <2>2. s \in Nat
    BY BoundsAssumption DEF Submits
  <2>3. \A q \in Submitted : q \in 1 .. s - 1
    BY <1>3, <2>1, <2>2
  <2> QED
    BY <1>2, <2>3
<1>5. \A q \in Submits : IsNewest(q)' <=> q = s
  <2>1. Submits \subseteq Nat /\ Submitted \subseteq Submits
    BY BoundsAssumption DEF Submits, Submitted
  <2>2. \A q \in Submits : IsNewest(q)' <=>
          q \in Submitted \cup {s} /\ \A p \in Submitted \cup {s} : p <= q
    BY <1>1 DEF IsNewest
  <2>3. ASSUME NEW q \in Submits, IsNewest(q)' PROVE q = s
    <3>1. q \in Submitted \cup {s} /\ s <= q
      BY <2>2, <2>3
    <3> QED
      BY <1>3, <2>1, <3>1
  <2>4. IsNewest(s)'
    BY <1>3, <2>1, <2>2
  <2> QED
    BY <2>3, <2>4
<1> QED
  BY <1>1, <1>4, <1>5

LEMMA PageKept == TextInv /\ PageInv /\ [Next]_vars => PageInv'
<1> SUFFICES ASSUME TextInv, PageInv, [Next]_vars PROVE PageInv'
  OBVIOUS
<1>1. ASSUME NEW s \in Submits, Submit(s) PROVE PageInv'
  <2>1. inPage' = {s} /\ loadInterval' = s /\ loaders' = loaders \cup {s}
    BY <1>1 DEF Submit
  <2>2. /\ Submitted' = Submitted \cup {s}
        /\ Submitted = 1 .. s - 1
        /\ \A q \in Submits : IsNewest(q)' <=> q = s
    BY <1>1, SubmitIsNewest
  <2>3. \A q \in Submitted' : 1 .. q \subseteq Submitted'
    BY <2>2, BoundsAssumption DEF Submits
  <2>4. loadInterval' \in 0 .. MaxSubmits
    BY <2>1, BoundsAssumption DEF Submits
  <2> QED
    BY <2>1, <2>2, <2>3, <2>4 DEF PageInv
<1>2. CASE \A s \in Submits : ~Submit(s)
  BY <1>2, SubmittedBySubmit DEF PageInv
<1> QED
  BY <1>1, <1>2

\* A step of a submit that is not the newest leaves the newest alone.
LEMMA AnswerKept == ClientInv /\ [Next]_vars => AnswerInv'
<1> SUFFICES ASSUME ClientInv, [Next]_vars PROVE AnswerInv'
  OBVIOUS
<1> USE DEF ClientInv, AnswerInv
<1>0. TextInv /\ PageInv
  OBVIOUS
<1>1. ASSUME NEW s \in Submits, Submit(s) PROVE AnswerInv'
  <2>1. \A q \in Submits : IsNewest(q)' <=> q = s
    BY <1>1, SubmitIsNewest
  <2>2. stage' = [stage EXCEPT ![s] = "fetching"] /\ UNCHANGED <<text, index>>
        /\ stage[s] = "unsent"
    BY <1>1 DEF Submit
  <2> QED
    BY <2>1, <2>2 DEF TextInv
<1> SUFFICES ASSUME \A s \in Submits : ~Submit(s) PROVE AnswerInv'
  BY <1>1
<1>2. /\ loaders' \subseteq loaders
      /\ \A s \in Submits : IsNewest(s)' <=> IsNewest(s)
  BY <1>0, SubmittedBySubmit
<1>3. ASSUME NEW s \in Submits, Load(s) PROVE AnswerInv'
  <2>1. s \in loaders /\ UNCHANGED <<stage, index, loaders>>
        /\ \A q \in Submits : q # s => text'[q] = text[q]
    BY <1>3 DEF Load, TextInv
  <2>2. IsNewest(s) => stage[s] \in {"fetching", "failed"}
    BY <2>1
  <2> QED
    BY <1>2, <2>1, <2>2
<1>4. ASSUME NEW s \in Submits, NEW ok \in BOOLEAN, Respond(s, ok) PROVE AnswerInv'
  <2>1. /\ stage[s] = "fetching" /\ loaders' = loaders \ {loadInterval}
        /\ text'[s] = <<>> /\ stage'[s] \in {"reading", "refused"}
        /\ UNCHANGED index
        /\ \A q \in Submits : q # s => text'[q] = text[q] /\ stage'[q] = stage[q]
    BY <1>4 DEF Respond, TextInv
  <2>2. IsNewest(s) => s \notin loaders'
    BY <2>1 DEF PageInv
  <2> QED
    BY <1>2, <2>1, <2>2
<1>5. ASSUME NEW s \in Submits, Fail(s) PROVE AnswerInv'
  <2>1. /\ stage[s] \notin {"typing", "done"} /\ stage'[s] = "failed"
        /\ UNCHANGED <<index, text, loaders>>
        /\ \A q \in Submits : q # s => stage'[q] = stage[q]
    BY <1>5 DEF Fail, TextInv
  <2> QED
    BY <1>2, <2>1
<1>6. ASSUME NEW s \in Submits, Read(s) PROVE AnswerInv'
  <2>1. /\ stage[s] = "reading" /\ stage'[s] = "typing"
        /\ UNCHANGED <<index, text, loaders>>
        /\ \A q \in Submits : q # s => stage'[q] = stage[q]
    BY <1>6 DEF Read, TextInv
  <2>2. Begun(s, index[s]) = <<>>
    BY <2>1, OwnPieces
  <2> QED
    BY <1>2, <2>1, <2>2
<1>7. ASSUME NEW s \in Submits, ShowError(s) PROVE AnswerInv'
  <2>1. /\ stage[s] = "refused" /\ stage'[s] = "done" /\ text'[s] = <<Wrong>>
        /\ UNCHANGED <<index, loaders>>
        /\ \A q \in Submits : q # s => text'[q] = text[q] /\ stage'[q] = stage[q]
    BY <1>7 DEF ShowError, TextInv
  <2> QED
    BY <1>2, <2>1
<1>8. ASSUME NEW s \in Submits, Type(s) PROVE AnswerInv'
  <2>1. /\ stage[s] = "typing" /\ UNCHANGED <<stage, loaders>>
        /\ index'[s] = index[s] + 1
        /\ text'[s] = Append(text[s], Letter(s, index[s] + 1))
        /\ \A q \in Submits : q # s => text'[q] = text[q] /\ index'[q] = index[q]
    BY <1>8 DEF Type, TextInv
  <2>2. index[s] \in Nat
    BY BoundsAssumption DEF TextInv
  <2>3. IsNewest(s) => text'[s] = Begun(s, index'[s])
    BY <2>1, <2>2, BegunGrows
  <2> QED
    BY <1>2, <2>1, <2>3
<1>9. ASSUME NEW s \in Submits, Typed(s) PROVE AnswerInv'
  <2>1. /\ stage[s] = "typing" /\ stage'[s] = "done" /\ index[s] = Length
        /\ UNCHANGED <<index, text, loaders>>
        /\ \A q \in Submits : q # s => stage'[q] = stage[q]
    BY <1>9 DEF Typed, TextInv
  <2>2. IsNewest(s) => text[s] = Answer(s)
    BY <2>1, OwnPieces
  <2> QED
    BY <1>2, <2>1, <2>2
<1>10. CASE UNCHANGED vars
  BY <1>10, <1>2 DEF vars
<1> QED
  BY <1>3, <1>4, <1>5, <1>6, <1>7, <1>8, <1>9, <1>10 DEF Next, Continue

LEMMA ClientKept == ClientInv /\ [Next]_vars => ClientInv'
BY TextKept, PageKept, AnswerKept DEF ClientInv

----------------------------------------------------------------------------
(* Theorems.                                                               *)

LEMMA SpecClient == Spec => []ClientInv
BY InitClient, ClientKept, PTL DEF Spec

\* The globals and the locals of the handlers keep their types.
THEOREM TypeCorrect == Spec => []TypeOK
<1>1. ClientInv => TypeOK
  <2>1. ClientInv => inPage \subseteq Submits /\ loadInterval \in 0 .. MaxSubmits
    BY BoundsAssumption DEF ClientInv, PageInv, Submits
  <2> QED
    BY <2>1 DEF ClientInv, TextInv, TypeOK, Stages
<1> QED
  BY <1>1, SpecClient, PTL

\* However many answers overlap, in whatever order they come, the newest bubble
\* ends up with its own answer or with the error message.
THEOREM NewestIsRight == Spec => []NewestShowsItsAnswer
<1>1. ClientInv => NewestShowsItsAnswer
  BY DEF ClientInv, AnswerInv, PageInv, NewestShowsItsAnswer, Page
<1> QED
  BY <1>1, SpecClient, PTL

\* The loaders that are left running because loadInterval is one global write to
\* no element of the page.
THEOREM StrayLoadersUnseen == Spec => []LoadersOfThePage
<1>1. ASSUME ClientInv, NEW s \in loaders \cap inPage
      PROVE  s = loadInterval /\ stage[s] \in {"fetching", "failed"}
  <2>1. s \in Submits /\ IsNewest(s)
    BY <1>1 DEF ClientInv, PageInv
  <2> QED
    BY <1>1, <2>1 DEF ClientInv, PageInv, AnswerInv
<1>2. ClientInv => LoadersOfThePage
  BY <1>1 DEF LoadersOfThePage
<1> QED
  BY <1>2, SpecClient, PTL

\* However many bubbles are typed at once, no letter gets into another's.
THEOREM TextsStayApart == Spec => []NoForeignText
<1>1. ASSUME ClientInv, NEW s \in Submits, NEW k \in 1 .. Len(Page(s))
      PROVE  Page(s)[k] \in Own(s)
  <2>1. Page(s) \in Seq(Own(s))
    BY <1>1 DEF ClientInv, TextInv, Page
  <2> HIDE DEF Page
  <2> QED
    BY <2>1
<1>2. ClientInv => NoForeignText
  BY <1>1 DEF NoForeignText, Own
<1> QED
  BY <1>2, SpecClient, PTL

\* What the user has read is not changed by whatever comes later.
THEOREM ShownStays == Spec => AnswersStay
<1>1. ASSUME ClientInv, [Next]_vars, NEW s \in Submits, stage[s] = "done"
      PROVE  Page(s)' = Page(s)
  <2>1. ASSUME NEW q \in Submits, Submit(q) PROVE Page(s)' = Page(s)
    <3>1. q # s /\ inPage' = {q} /\ copy'[s] = Page(s)
      BY <1>1, <2>1 DEF Submit
    <3> QED
      BY <3>1 DEF Page
  <2>2. CASE \A q \in Submits : ~Submit(q)
    <3>1. UNCHANGED <<inPage, copy>>
      BY <1>1, <2>2, SubmittedBySubmit DEF ClientInv
    <3>2. CASE s \notin inPage
      BY <3>1, <3>2 DEF Page
    <3>3. CASE s \in inPage
      <4>1. s \notin loaders
        BY <1>1, <3>3 DEF ClientInv, PageInv, AnswerInv
      <4>2. text'[s] = text[s]
        BY <1>1, <2>2, <4>1 DEF ClientInv, TextInv, Next, Continue, Load, Respond, Fail,
                                Read, ShowError, Type, Typed, vars
      <4> QED
        BY <3>1, <3>3, <4>2 DEF Page
    <3> QED
      BY <3>2, <3>3
  <2> QED
    BY <2>1, <2>2
<1>2. ClientInv /\ [Next]_vars =>
        [\A s \in Submits : stage[s] = "done" /\ Page(s) \in {Answer(s), <<Wrong>>}
                              => Page(s)' = Page(s)]_vars
  BY <1>1
<1> QED
  BY <1>2, SpecClient, PTL DEF AnswersStay, Spec

=============================================================================
