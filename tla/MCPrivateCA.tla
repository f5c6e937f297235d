----------------------------- MODULE MCPrivateCA -----------------------------
(* Small instances of PrivateCA for TLC. *)
EXTENDS PrivateCA

CONSTANTS p1, p2, r1, r2, old1, old2, old3, new, own, absent

\* No file, no setting: a set, so that TLC can compare it with contents.
Absent == {absent}

TwoProcesses == {p1, p2}
OneProcess == {p1}
TwoRequests == {r1, r2}
AllCerts == {old1, old2, old3, new, own}

\* One bundle of three certificates, which may come through as its first one,
\* later replaced by a bundle of one.
OldAndNew == {{old1, old2, old3}, {old1}, {new}}

\* Operators put a good bundle there, or a file without certificates.
BundleOrRubbish == {{new}, {}}

Bootstrapped == [file |-> TRUE, url |-> "good", override |-> None,
                 base64 |-> None, skipVerify |-> FALSE]

Mounted == [Bootstrapped EXCEPT !.url = "unset"]

\* The bootstrap alone, with a second source, with a URL that is none; a mounted
\* file, with a second source that is unusable, with an override that can be
\* read or cannot; the second source alone; no verification.
EveryConfig ==
  {Bootstrapped,
   [Bootstrapped EXCEPT !.base64 = {own}],
   [Bootstrapped EXCEPT !.url = "bad"],
   Mounted,
   [Mounted EXCEPT !.base64 = {}],
   [Mounted EXCEPT !.override = {own}],
   [Mounted EXCEPT !.override = {}],
   [Mounted EXCEPT !.file = FALSE, !.base64 = {own}],
   [Mounted EXCEPT !.skipVerify = TRUE]}

OnlyBootstrapped == {Bootstrapped}
=============================================================================
