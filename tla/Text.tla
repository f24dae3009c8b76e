-------------------------------- MODULE Text --------------------------------
(***************************************************************************)
(* The string utilities of src/src/lib/include/public/llama-cpp/utils.hpp  *)
(* that the program uses.  A string is a sequence of characters; a         *)
(* predicate on characters is the set of those that satisfy it.  Where the *)
(* variant built with Boost does something else, `boost` tells them apart. *)
(***************************************************************************)
EXTENDS Integers, Sequences, SequencesExt

\* trim_start_if and trim_end_if: characters of `drop` are taken off one end.
TrimStartIf(s, drop) ==
  LET kept == {k \in 1 .. Len(s) : s[k] \notin drop}
  IN  IF kept = {} THEN <<>>
      ELSE SubSeq(s, CHOOSE k \in kept : \A j \in kept : k <= j, Len(s))

TrimEndIf(s, drop) ==
  LET kept == {k \in 1 .. Len(s) : s[k] \notin drop}
  IN  IF kept = {} THEN <<>>
      ELSE SubSeq(s, 1, CHOOSE k \in kept : \A j \in kept : k >= j)

\* trim
Trim(s, blank) == TrimEndIf(TrimStartIf(s, blank), blank)

\* trim_start(str, prefix): with Boost the first occurrence is erased, wherever
\* it is; without, replacing nothing by nothing leaves the string as it is.
TrimStart(boost, s, prefix) ==
  IF boost THEN ReplaceFirstSubSeq(<<>>, prefix, s) ELSE s

\* trim_end(str, suffix)
TrimEnd(s, suffix) ==
  IF IsSuffix(suffix, s) THEN SubSeq(s, 1, Len(s) - Len(suffix)) ELSE s

\* str.find(from, start_pos), with positions counted from 1, and 0 for npos.
Find(s, from, start) ==
  LET found == {k \in start .. Len(s) - Len(from) + 1 :
                  SubSeq(s, k, k + Len(from) - 1) = from}
  IN  IF found = {} THEN 0 ELSE CHOOSE k \in found : \A j \in found : k <= j

=============================================================================
