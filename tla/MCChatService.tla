--------------------------- MODULE MCChatService ----------------------------
(* Instances of ChatService for TLC.                                       *)
EXTENDS ChatService, TLC

CONSTANTS r1, r2, r3, s1, s2, s3, m1, m2, m3, o1, o2, west, east

MCRequests == {r1, r2, r3}

Payload(s, m, o) == [session |-> s, model |-> m, options |-> o]

\* Three sessions, two of them in one submap; m3 is not a file of the models
\* directory.
MCPayloads ==
  {Payload(s, m, o1) : s \in {s1, s2}, m \in {m1, m2}}
  \cup {Payload(s1, m1, o2), Payload(s3, m1, o1), Payload(s1, m3, o1)}
MCKnown == {m1, m2}
MCSubmaps == {west, east}
MCSubmapOf(s) == IF s = s3 THEN east ELSE west

\* o2 has no limit.
MCLimited == {o1}

\* For liveness: two sessions that share a submap, with a limit and without.
MCFewPayloads ==
  {Payload(s1, m1, o1), Payload(s2, m1, o1), Payload(s2, m1, o2)}

Symmetry == Permutations(MCRequests)

=============================================================================
