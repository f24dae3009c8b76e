---------------------------- MODULE MCGeneration ----------------------------
(* Instances of Generation for TLC.                                        *)
EXTENDS Generation

CONSTANT a

MCTokens == {EOS, Unk, a}

Call(n_ctx, n_batch, n_keep, n_predict, stops) ==
  [n_ctx |-> n_ctx, n_batch |-> n_batch, n_keep |-> n_keep,
   n_predict |-> n_predict, antiprompt |-> stops]

\* Prompts shorter than, as long as and longer than the small contexts.
MCPrompts ==
  {<<a>>, <<Unk, a>>, <<a, a, Unk>>, <<a, Unk, Unk, a, Unk, a>>}

\* Every way to keep tokens (all, none, one, two), batches smaller and larger
\* than half the context, budgets that force three swaps, and stop prompts of
\* one to three pieces; then calls with an unbounded budget, which go on until
\* EOS or a refusal: with MaxSampled = 9 the context is swapped up to four times.
MCParams ==
  {Call(n_ctx, n_batch, n_keep, 7, {<<a, a, Unk>>}) :
     n_ctx \in {4, 5}, n_batch \in {1, 2, 4}, n_keep \in {-1, 0, 1, 2}}
  \cup {Call(6, 3, 1, 5, {<<Unk, Unk>>, <<a>>}), Call(4, 2, 0, 0, {})}
  \cup {Call(4, n_batch, n_keep, -1, {}) : n_batch \in {1, 3}, n_keep \in {0, 1, 2}}

\* Calls whose prompt does not leave room for a token, all of it to be kept.
MCLongPrompts == {<<a, Unk, Unk, a, Unk, a>>}
MCLongParams ==
  {Call(n_ctx, n_batch, -1, 2, {}) : n_ctx \in {4, 5, 6}, n_batch \in {1, 2, 3}}

=============================================================================
