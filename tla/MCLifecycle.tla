----------------------------- MODULE MCLifecycle -----------------------------
(* Small instances of Lifecycle for TLC. *)
EXTENDS Lifecycle, TLC

CONSTANTS c1, c2

TwoClients == {c1, c2}

Unset == [s \in StrictSettings \cup LenientSettings |-> "unset"]

\* Nothing set; a lifetime that does not parse; a port that does not.
SomeEnvironments ==
  {Unset, [Unset EXCEPT !["MCP_APPROVAL_TTL"] = "invalid"],
   [Unset EXCEPT !["PORT"] = "invalid"]}

Symmetric == Permutations(Clients)
=============================================================================
