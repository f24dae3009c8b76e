----------------------------- MODULE MCContext ------------------------------
(* Instances of Context for TLC.                                           *)
EXTENDS Context, TLC

CONSTANTS t1, t2

\* No limit (the default of both programs), two limits.
MCSizes == {-1, 1, 2}

\* One thread changes the object while another one uses it: those that use it
\* leave its fields alone, so that more of them show nothing new.
MCThreads == {t1, t2}

Symmetry == Permutations(MCThreads)

=============================================================================
