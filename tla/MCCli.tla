------------------------------- MODULE MCCli --------------------------------
(* Instances of Cli for TLC.  The marks have two characters and share one;   *)
(* names are empty, shorter than a mark and as long, and a name may be a    *)
(* mark itself.                                                              *)
EXTENDS Cli

CONSTANTS b, u, v, x, nl

MCChars == {b, u, v, x, nl}

MCUserMark == <<b, u>>
MCAiMark   == <<b, v>>

Strings(chars, max) == UNION {[1 .. n -> chars] : n \in 0 .. max}

MCFiles == Strings(MCChars, 3) \cup Strings({b, u, v}, 4)
             \cup {<<b, u, b, u, b, v>>, <<b, v, b, u, x, b, u, nl>>}

MCArgs ==
  {[readable |-> TRUE, file |-> file, user |-> user, ai |-> <<x, x>>,
    ctx_size |-> ctx_size, n_predict |-> -1] :
     file \in MCFiles, user \in {<<>>, <<x>>, <<u>>}, ctx_size \in {0, 2, 8}}
  \cup
  {[readable |-> readable, file |-> <<b, v, b, b, u>>, user |-> user, ai |-> ai,
    ctx_size |-> 8, n_predict |-> n_predict] :
     readable \in BOOLEAN, user \in {<<x>>, <<b, u>>},
     ai \in {<<>>, <<b, u>>}, n_predict \in {-1, 3}}

=============================================================================
