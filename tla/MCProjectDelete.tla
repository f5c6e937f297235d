--------------------------- MODULE MCProjectDelete ---------------------------
(* ProjectDelete with model values for TLC.                                *)
EXTENDS ProjectDelete, TLC

CONSTANTS c1, c2, p1, p2, a1

OneToken    == {a1}
TwoCalls    == {c1, c2}
TwoProjects == {p1, p2}

\* Signed in read-write, signed in read-only, on Basic auth, and nobody.
FourSessions ==
  {[kind |-> "bearer", apiToken |-> a1, mode |-> "read_write"],
   [kind |-> "bearer", apiToken |-> a1, mode |-> "read_only"],
   [kind |-> "basic", apiToken |-> a1, mode |-> None],
   [kind |-> "none", apiToken |-> None, mode |-> None]}

Symmetric == Permutations(TwoCalls) \cup Permutations(TwoProjects)
=============================================================================
