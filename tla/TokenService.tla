---------------------------- MODULE TokenService ----------------------------
(***************************************************************************)
(* The sealed tokens the server hands out instead of keeping sessions:     *)
(* mcpauth.Service (src/internal/platform/mcpauth/service.go) over         *)
(* securetoken.Sealer (src/internal/platform/securetoken/sealer.go).       *)
(*                                                                         *)
(* A token is its envelope together with the key that sealed it.  Time is  *)
(* in ticks of 1/PerSecond second: Mint adds the lifetime to the exact     *)
(* time and only then drops the fraction, and so does the check.           *)
(***************************************************************************)
EXTENDS Integers

CONSTANT PerSecond   \* ticks in a second

ASSUME PerSecondAssumption == PerSecond \in Nat \ {0}

TokenTypes == {"client_id", "auth_state", "auth_code", "access_token",
               "approval", "session_state"}

\* time.Time.Unix: whole seconds, rounded towards minus infinity.
Unix(t) == t \div PerSecond

\* mintedAt is a history field: the exact time the envelope does not keep.
Mint(key, typ, ttl, now, data) ==
  [key |-> key, typ |-> typ, exp |-> Unix(now + ttl), data |-> data,
   mintedAt |-> now]

\* Open fails under any other key than the one that sealed the token.
Opens(key, token) == token.key = key

\* A faulty variant, never used: a token lives through the second it expires in.
FaultyLive(key, token, now) == Opens(key, token) /\ Unix(now) <= token.exp

\* ParseEnvelope: opened, and not expired.
Live(key, token, now) == Opens(key, token) /\ Unix(now) < token.exp

\* A faulty variant, never used: the type is not compared.
FaultyAccepts(key, typ, token, now) == Live(key, token, now)

\* Parse: live, and of the expected type.  The payload of any type decodes
\* into any other (absent JSON fields stay empty), so only typ tells them apart.
Accepts(key, typ, token, now) == Live(key, token, now) /\ token.typ = typ
=============================================================================
