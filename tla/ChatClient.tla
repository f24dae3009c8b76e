----------------------------- MODULE ChatClient -----------------------------
(***************************************************************************)
(* The web client (src/src/examples/server/assets/script.js): one page in  *)
(* which the user may submit again while earlier answers are pending.      *)
(*                                                                         *)
(* A submit appends a bubble to the page by assigning the container's      *)
(* innerHTML, which makes new elements of everything in it: the bubbles of *)
(* earlier submits go on as copies, and their handlers write to elements   *)
(* that are no longer in the page.                                         *)
(*                                                                         *)
(* Each callback is one step, as JavaScript runs them.  Abstracted: a text *)
(* is a sequence of dots, of letters of answers, and of the error message; *)
(* requests and answers are not looked at.                                 *)
(*                                                                         *)
(* External (the browser and the service): a request is answered at any    *)
(* time, in any order, or never; the network may fail.                     *)
(***************************************************************************)
EXTENDS Naturals, Sequences

CONSTANTS
  MaxSubmits,  \* bound: how often the user submits
  Length,      \* letters of an answer
  MaxDots,     \* the longest row of dots of the animation, three in the code
  MaxText      \* bound: pieces of text in an element whose loader is not stopped

ASSUME BoundsAssumption ==
  /\ MaxSubmits \in Nat /\ Length \in Nat
  /\ MaxDots \in Nat /\ MaxText \in Nat

Submits == 1 .. MaxSubmits

VARIABLES
  stage,         \* where handleSubmit is, for each submit
  text,          \* what each messageDiv shows
  inPage,        \* submits whose messageDiv is an element of the page
  copy,          \* what the page shows for the others
  loadInterval,  \* the global: the submit whose loader it names, or 0
  loaders,       \* submits whose loader runs
  index          \* letters typeText has typed

vars == <<stage, text, inPage, copy, loadInterval, loaders, index>>

\* Pieces of text: a dot, "Something went wrong!", and the letters of answers.
Dot   == <<0, 0>>
Wrong == <<0, 1>>
Letter(s, k) == <<s, k>>

Dots         == [k \in 1 .. MaxDots |-> Dot]
Answer(s)    == [k \in 1 .. Length |-> Letter(s, k)]

\* What the user sees.
Page(s) == IF s \in inPage THEN text[s] ELSE copy[s]

Submitted == {s \in Submits : stage[s] # "unsent"}
IsNewest(s) == s \in Submitted /\ \A q \in Submitted : q <= s

Init ==
  /\ stage = [s \in Submits |-> "unsent"]
  /\ text = [s \in Submits |-> <<>>]
  /\ inPage = {}
  /\ copy = [s \in Submits |-> <<>>]
  /\ loadInterval = 0
  /\ loaders = {}
  /\ index = [s \in Submits |-> 0]

----------------------------------------------------------------------------
(* Faulty variants of actions, each with one slip a maintainer could make, *)
(* stand before the action they vary.                                      *)

SubmitKeepsInterval(s) ==
  /\ stage[s] = "unsent"
  /\ \A q \in 1 .. s - 1 : stage[q] # "unsent"
  /\ stage' = [stage EXCEPT ![s] = "fetching"]
  /\ copy' = [q \in Submits |-> Page(q)]
  /\ inPage' = {s}
  /\ loaders' = loaders \cup {s}
  /\ loadInterval' = IF loadInterval = 0 THEN s ELSE loadInterval
  /\ UNCHANGED <<text, index>>

SubmitDropsCopies(s) ==
  /\ stage[s] = "unsent"
  /\ \A q \in 1 .. s - 1 : stage[q] # "unsent"
  /\ stage' = [stage EXCEPT ![s] = "fetching"]
  /\ inPage' = {s}
  /\ loaders' = loaders \cup {s}
  /\ loadInterval' = s
  /\ UNCHANGED <<text, index, copy>>

\* handleSubmit up to the request: the page is rebuilt with a new bubble, and
\* its loader is started.
Submit(s) ==
  /\ stage[s] = "unsent"
  /\ \A q \in 1 .. s - 1 : stage[q] # "unsent"
  /\ stage' = [stage EXCEPT ![s] = "fetching"]
  /\ copy' = [q \in Submits |-> Page(q)]
  /\ inPage' = {s}
  /\ loaders' = loaders \cup {s}
  /\ loadInterval' = s
  /\ UNCHANGED <<text, index>>

\* The loader's interval: one more dot, or none after the last.
Load(s) ==
  /\ s \in loaders
  /\ Len(text[s]) < MaxText
  /\ text' = [text EXCEPT ![s] = IF text[s] = Dots THEN <<>> ELSE Append(text[s], Dot)]
  /\ UNCHANGED <<stage, inPage, copy, loadInterval, loaders, index>>

RespondKeepsLoader(s, ok) ==
  /\ stage[s] = "fetching"
  /\ text' = [text EXCEPT ![s] = <<>>]
  /\ stage' = [stage EXCEPT ![s] = IF ok THEN "reading" ELSE "refused"]
  /\ UNCHANGED <<inPage, copy, loadInterval, loaders, index>>

\* The response's head arrives: the loader that loadInterval names stops.
Respond(s, ok) ==
  /\ stage[s] = "fetching"
  /\ loaders' = loaders \ {loadInterval}
  /\ text' = [text EXCEPT ![s] = <<>>]
  /\ stage' = [stage EXCEPT ![s] = IF ok THEN "reading" ELSE "refused"]
  /\ UNCHANGED <<inPage, copy, loadInterval, index>>

\* fetch, json() or text() is rejected: the handler ends there.
Fail(s) ==
  /\ stage[s] \in {"fetching", "reading", "refused"}
  /\ stage' = [stage EXCEPT ![s] = "failed"]
  /\ UNCHANGED <<text, inPage, copy, loadInterval, loaders, index>>

\* The answer is there: typeText starts its interval.
Read(s) ==
  /\ stage[s] = "reading"
  /\ stage' = [stage EXCEPT ![s] = "typing"]
  /\ UNCHANGED <<text, inPage, copy, loadInterval, loaders, index>>

ShowError(s) ==
  /\ stage[s] = "refused"
  /\ text' = [text EXCEPT ![s] = <<Wrong>>]
  /\ stage' = [stage EXCEPT ![s] = "done"]
  /\ UNCHANGED <<inPage, copy, loadInterval, loaders, index>>

TypeIntoNewest(s) ==
  /\ stage[s] = "typing"
  /\ index[s] < Length
  /\ index' = [index EXCEPT ![s] = index[s] + 1]
  /\ text' = [q \in Submits |->
                IF IsNewest(q) THEN Append(text[q], Letter(s, index[s] + 1)) ELSE text[q]]
  /\ UNCHANGED <<stage, inPage, copy, loadInterval, loaders>>

\* typeText's interval: one more letter, ...
Type(s) ==
  /\ stage[s] = "typing"
  /\ index[s] < Length
  /\ index' = [index EXCEPT ![s] = index[s] + 1]
  /\ text' = [text EXCEPT ![s] = Append(text[s], Letter(s, index[s] + 1))]
  /\ UNCHANGED <<stage, inPage, copy, loadInterval, loaders>>

TypedShort(s) ==
  /\ stage[s] = "typing"
  /\ index[s] + 1 >= Length
  /\ stage' = [stage EXCEPT ![s] = "done"]
  /\ UNCHANGED <<text, inPage, copy, loadInterval, loaders, index>>

\* ... until all are typed.
Typed(s) ==
  /\ stage[s] = "typing"
  /\ index[s] = Length
  /\ stage' = [stage EXCEPT ![s] = "done"]
  /\ UNCHANGED <<text, inPage, copy, loadInterval, loaders, index>>

----------------------------------------------------------------------------
Continue(s) == Read(s) \/ ShowError(s) \/ Type(s) \/ Typed(s)

Next ==
  \E s \in Submits :
    \/ Submit(s) \/ Load(s) \/ Fail(s) \/ Continue(s)
    \/ \E ok \in BOOLEAN : Respond(s, ok)

Spec == Init /\ [][Next]_vars

\* Timers fire, and the body of a response arrives or its promise is rejected;
\* a request may stay unanswered.
FairSpec == Spec /\ \A s \in Submits : WF_vars(Continue(s))

----------------------------------------------------------------------------
(* Properties.                                                             *)

Texts == Seq({Dot, Wrong} \cup (Submits \X (1 .. Length)))

\* Types of the globals and of the locals of handleSubmit.
TypeOK ==
  /\ stage \in [Submits -> {"unsent", "fetching", "reading", "refused", "typing",
                            "failed", "done"}]
  /\ text \in [Submits -> Texts]
  /\ copy \in [Submits -> Texts]
  /\ inPage \subseteq Submits
  /\ loadInterval \in 0 .. MaxSubmits
  /\ loaders \subseteq Submits
  /\ index \in [Submits -> 0 .. Length]

\* However answers overlap, the newest bubble ends up with its own answer or
\* with the error message, without a dot of a loader in it.
NewestShowsItsAnswer ==
  \A s \in Submits : IsNewest(s) /\ stage[s] = "done" =>
    Page(s) \in {Answer(s), <<Wrong>>}

\* A loader that nobody can stop any more, because a later submit took
\* loadInterval over, writes to no element of the page; and no loader writes to
\* a bubble whose response came.
LoadersOfThePage ==
  \A s \in loaders \cap inPage : s = loadInterval /\ stage[s] \in {"fetching", "failed"}

\* Nobody's answer appears in the bubble of another submit.
NoForeignText ==
  \A s \in Submits : \A k \in 1 .. Len(Page(s)) :
    Page(s)[k] \in {Dot, Wrong} \cup {Letter(s, n) : n \in 1 .. Length}

\* What the user has read stays: a complete answer or error message in the page
\* is not changed by later submits, answers or loaders.
AnswersStay ==
  [][\A s \in Submits :
       stage[s] = "done" /\ Page(s) \in {Answer(s), <<Wrong>>} => Page(s)' = Page(s)]_vars

\* An answer that arrives shows up completely, unless the user submits again
\* or the connection fails first.
AnswerShows ==
  \A s \in Submits :
    stage[s] = "reading" ~>
      Page(s) = Answer(s) \/ ~IsNewest(s) \/ stage[s] = "failed"

=============================================================================
