------------------------------ MODULE MCServer ------------------------------
(* Server with model values for TLC.                                       *)
EXTENDS Server, TLC

CONSTANTS c1, u1, a1, s1, d1, p1

OneClient   == {c1}
OneURI      == {u1}
OneToken    == {a1}
OneSubmit   == {s1}
OneCall     == {d1}
OneProject  == {p1}
=============================================================================
