-------------------------- MODULE MCBlackduckClient --------------------------
(* BlackduckClient with model values for TLC.                              *)
EXTENDS BlackduckClient, TLC

CONSTANTS c1, c2, t1, t2

TwoCalls  == {c1, c2}
OneToken  == {t1}
TwoTokens == {t1, t2}

\* Units of 15s.  A lifetime of 1 expires inside the margin and is never
\* taken from the cache; one of 5 is, until its third unit.
ShortAndLong == {1, 5}
OnlyLong     == {5}

\* 15s and 60s: too short for more than one exchange, and long enough for two.
ShortAndLongContexts == {1, 4}

Symmetric == Permutations(TwoCalls) \cup Permutations(TwoTokens)
=============================================================================
