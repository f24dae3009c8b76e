----------------------------- MODULE MCPredict ------------------------------
(* Instances of Predict for TLC: texts, machines and options are varied one  *)
(* at a time.                                                                *)
EXTENDS Predict

CONSTANTS a, b

MCChars == {a, b, Blank}

Call == [program |-> "server", boost |-> FALSE, bias |-> "none", text |-> <<a>>,
         generated |-> <<b, a>>, stops |-> <<>>, tokens |-> 8, processors |-> 4,
         requested |-> 0]

Strings(chars, max) == UNION {[1 .. n -> chars] : n \in 0 .. max}

MCTexts ==
  {[Call EXCEPT !.boost = boost, !.text = text, !.generated = generated,
                !.stops = stops, !.tokens = tokens] :
     boost \in BOOLEAN, text \in Strings({a, Blank}, 2),
     generated \in Strings({a, b, Blank}, 3),
     stops \in {<<>>, << <<b>> >>, << <<a, b>> >>, << <<b>>, <<a>> >>,
               << <<a, b>>, <<b>> >>},
     tokens \in {0, 2, 5, 8}}

MCOptions ==
  {[Call EXCEPT !.program = program, !.bias = bias, !.tokens = tokens,
                !.requested = requested] :
     program \in Programs, bias \in {"none", "entry", "no number"},
     tokens \in {-1, 8}, requested \in {-1, 9}}

MCMachines ==
  {[Call EXCEPT !.processors = processors, !.requested = requested] :
     processors \in 1 .. 12, requested \in -1 .. 13}

MCCalls == MCTexts \cup MCOptions \cup MCMachines

=============================================================================
