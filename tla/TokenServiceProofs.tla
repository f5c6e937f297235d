-------------------------- MODULE TokenServiceProofs --------------------------
(* What dropping the fraction of a second does to the order of times, for   *)
(* any number of ticks in a second: the lemmas every lifetime rests on.     *)
EXTENDS TokenService, TLAPS

LEMMA UnixInt == ASSUME NEW t \in Int PROVE Unix(t) \in Int
  BY PerSecondAssumption DEF Unix

\* An earlier second is an earlier time, ...
LEMMA UnixBefore ==
  ASSUME NEW s \in Int, NEW t \in Int, Unix(s) < Unix(t)
  PROVE  s < t
  BY PerSecondAssumption DEF Unix

\* seconds do not run backwards, ...
LEMMA UnixMonotone ==
  ASSUME NEW s \in Int, NEW t \in Int, s <= t
  PROVE  Unix(s) <= Unix(t)
  BY PerSecondAssumption DEF Unix

\* ... and a whole second earlier is an earlier second.
LEMMA UnixSecond ==
  ASSUME NEW s \in Int, NEW t \in Int, s + PerSecond <= t
  PROVE  Unix(s) < Unix(t)
  BY PerSecondAssumption DEF Unix
=============================================================================
