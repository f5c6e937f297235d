------------------------------ MODULE OAuthFlow ------------------------------
(***************************************************************************)
(* Signing in (src/internal/interfaces/httpserver/oauth.go): an MCP client *)
(* registers, starts an authorization, its user submits a Black Duck API   *)
(* token and an access mode on the login page, the server checks the API   *)
(* token with Black Duck, and the client redeems the authorization code    *)
(* for the access token it calls MCP tools with (handler.go:135-166).      *)
(*                                                                         *)
(* The server keeps none of this: each step is a token the next step       *)
(* presents, any number of times, in any order, by any client, to this     *)
(* process or to one started later.  `issued` is what clients hold, not    *)
(* state of the server; the server's state is its key and the login        *)
(* submits that wait for Black Duck.                                       *)
(*                                                                         *)
(* A client stands for its client_id, and for the code verifier it keeps   *)
(* to itself: a code challenge is the client whose verifier answers it.    *)
(***************************************************************************)
EXTENDS TokenService, FiniteSets

CONSTANTS
  Clients,           \* MCP clients
  URIs,              \* well-formed redirect URIs
  ApiTokens,         \* Black Duck API tokens users submit
  None,              \* an absent payload field
  Submits,           \* slots for login submits being handled concurrently
  SecretConfigured,  \* MCP_AUTH_SECRET is set, or the key is made at startup
  ClientTTL,         \* client_id lifetime (3650 days)
  CodeTTL,           \* MCP_AUTH_CODE_TTL, for auth_state and auth_code
  AccessTTL,         \* MCP_AUTH_ACCESS_TTL
  LoginTimeout,      \* how long a login waits for Black Duck: its deadline (15s)
                     \* and a wait for a mutex (BlackduckClient!BoundedDuration)
  MaxClock, MaxIssued, MaxRestarts   \* bounds of the model

Modes == {"read_only", "read_write"}

ASSUME LifetimeAssumption ==
  /\ ClientTTL \in Int /\ CodeTTL \in Int /\ AccessTTL \in Int
  /\ LoginTimeout \in Nat

ASSUME BoundsAssumption ==
  MaxClock \in Nat /\ MaxIssued \in Nat /\ MaxRestarts \in Nat

ASSUME OAuthNoneAssumption ==
  SecretConfigured \in BOOLEAN /\ None \notin Clients /\ None \notin ApiTokens

\* The payload of a token: ClientRegistrationData, AuthState, AuthCodeData and
\* AccessTokenData are parts of it.  began, starter, redeemer and bornIn are
\* history: when, by whom and in which process the sign-in was started, and
\* which client redeemed the code.
Blank == [uris |-> {}, client |-> None, redirectURI |-> None, challenge |-> None,
          apiToken |-> None, mode |-> "read_only",
          began |-> 0, starter |-> None, redeemer |-> None, bornIn |-> 0]

VARIABLES
  clock,
  process,   \* how often the server was restarted
  issued,    \* every token handed out so far
  login,     \* the login submit in each slot
  vouched    \* history: the <<API token, mode>> of logins Black Duck accepted

vars == <<clock, process, issued, login, vouched>>

IdleLogin == [pc |-> "idle", st |-> Blank, apiToken |-> None,
              mode |-> "read_only", since |-> 0]

\* Faulty variants of Key, never used: the secret is a built-in default, or is
\* made anew at each start although one is configured.
BuiltInKey == 0
KeyPerProcess == process

\* config.Load: the configured secret, or a fresh one for each process.
Key == IF SecretConfigured THEN 0 ELSE process

Init ==
  /\ clock = 0
  /\ process = 0
  /\ issued = {}
  /\ login = [h \in Submits |-> IdleLogin]
  /\ vouched = {}

Issue(typ, ttl, data) ==
  /\ Cardinality(issued) < MaxIssued   \* bound
  /\ issued' = issued \cup {Mint(Key, typ, ttl, clock, [data EXCEPT !.bornIn = process])}

Presented(typ, token) == token \in issued /\ Accepts(Key, typ, token, clock)

-----------------------------------------------------------------------------
(* Faulty variants of the definitions below, each a plausible slip in the  *)
(* code.  Nothing uses them: they show that the properties can fail.       *)

\* authorize does not look the redirect URI up in the registration.
FaultyAuthorize(s) ==
  /\ \E token \in issued, uri \in URIs :
       /\ Presented("client_id", token)
       /\ Issue("auth_state", CodeTTL,
                [Blank EXCEPT !.client = token.data.client, !.redirectURI = uri,
                              !.challenge = s, !.starter = s, !.began = clock])
  /\ UNCHANGED <<clock, process, login, vouched>>

\* The auth_state gets the lifetime of a client_id.
LongAuthorize(s) ==
  /\ \E token \in issued :
       /\ Presented("client_id", token)
       /\ \E uri \in token.data.uris :
            Issue("auth_state", ClientTTL,
                  [Blank EXCEPT !.client = token.data.client, !.redirectURI = uri,
                                !.challenge = s, !.starter = s, !.began = clock])
  /\ UNCHANGED <<clock, process, login, vouched>>

\* The code verifier is not compared with the challenge.
FaultyVerifies(verifier, challenge) == TRUE

\* The answer of Black Duck reaches another login that waits for one.
MixedUpAccepted(h) ==
  /\ login[h].pc = "checking"
  /\ \E g \in Submits :
       /\ login[g].pc = "checking"
       /\ Issue("auth_code", CodeTTL,
                [login[h].st EXCEPT !.apiToken = login[g].apiToken, !.mode = login[h].mode])
       /\ vouched' = vouched \cup {<<login[g].apiToken, login[h].mode>>}
  /\ login' = [login EXCEPT ![h] = IdleLogin]
  /\ UNCHANGED <<clock, process>>

\* The access mode is not copied from the code into the access token.
FaultyRedeem(r, c, uri) ==
  /\ \E token \in issued :
       /\ Presented("auth_code", token)
       /\ token.data.client = c
       /\ token.data.redirectURI = uri
       /\ r = token.data.challenge
       /\ Issue("access_token", AccessTTL,
                [Blank EXCEPT !.apiToken = token.data.apiToken, !.mode = None,
                              !.began = token.data.began, !.starter = token.data.starter,
                              !.redeemer = r])
  /\ UNCHANGED <<clock, process, login, vouched>>

-----------------------------------------------------------------------------
(* The handlers.                                                           *)

\* registerClient, for a non-empty list of well-formed URIs.
Register(c) ==
  /\ \E uris \in SUBSET URIs \ {{}} :
       Issue("client_id", ClientTTL, [Blank EXCEPT !.uris = uris, !.client = c])
  /\ UNCHANGED <<clock, process, login, vouched>>

\* authorize: client s starts a sign-in with a client_id (they are public) and
\* the challenge of its own verifier.
Authorize(s) ==
  /\ \E token \in issued :
       /\ Presented("client_id", token)
       /\ \E uri \in token.data.uris :
            Issue("auth_state", CodeTTL,
                  [Blank EXCEPT !.client = token.data.client, !.redirectURI = uri,
                                !.challenge = s, !.starter = s, !.began = clock])
  /\ UNCHANGED <<clock, process, login, vouched>>

\* handleBlackduckLoginSubmit up to the call of CurrentUser.  The auth_state
\* is parsed here and not looked at again.
SubmitLogin(h, apiToken, mode) ==
  /\ login[h].pc = "idle"
  /\ \E token \in issued :
       /\ Presented("auth_state", token)
       /\ login' = [login EXCEPT ![h] =
                      [pc |-> "checking", st |-> token.data, apiToken |-> apiToken,
                       mode |-> mode, since |-> clock]]
  /\ UNCHANGED <<clock, process, issued, vouched>>

\* CurrentUser returned a user: the code binds the API token to the sign-in.
LoginAccepted(h) ==
  /\ login[h].pc = "checking"
  /\ Issue("auth_code", CodeTTL,
           [login[h].st EXCEPT !.apiToken = login[h].apiToken, !.mode = login[h].mode])
  /\ vouched' = vouched \cup {<<login[h].apiToken, login[h].mode>>}
  /\ login' = [login EXCEPT ![h] = IdleLogin]
  /\ UNCHANGED <<clock, process>>

\* Black Duck refused the API token, failed, or the deadline passed.
LoginRefused(h) ==
  /\ login[h].pc = "checking"
  /\ login' = [login EXCEPT ![h] = IdleLogin]
  /\ UNCHANGED <<clock, process, issued, vouched>>

\* VerifyCodeChallengeS256
Verifies(verifier, challenge) == verifier = challenge

\* token: client r redeems a code with the client_id and redirect URI the
\* code names and with the one verifier it knows.  Nothing marks the code used.
Redeem(r, c, uri) ==
  /\ \E token \in issued :
       /\ Presented("auth_code", token)
       /\ token.data.client = c
       /\ token.data.redirectURI = uri
       /\ Verifies(r, token.data.challenge)
       /\ Issue("access_token", AccessTTL,
                [Blank EXCEPT !.apiToken = token.data.apiToken, !.mode = token.data.mode,
                              !.began = token.data.began, !.starter = token.data.starter,
                              !.redeemer = r])
  /\ UNCHANGED <<clock, process, login, vouched>>

\* The process ends, with the login submits it was handling, and starts again.
Restart ==
  /\ process < MaxRestarts   \* bound
  /\ process' = process + 1
  /\ login' = [h \in Submits |-> IdleLogin]
  /\ UNCHANGED <<clock, issued, vouched>>

\* No login waits for Black Duck beyond its deadline.
Tick ==
  /\ clock < MaxClock        \* bound
  /\ \A h \in Submits : login[h].pc = "checking" => clock < login[h].since + LoginTimeout
  /\ clock' = clock + 1
  /\ UNCHANGED <<process, issued, login, vouched>>

ClientStep(c) ==
  \/ Register(c)
  \/ Authorize(c)
  \/ \E owner \in Clients, uri \in URIs : Redeem(c, owner, uri)

LoginStep(h) ==
  \/ \E apiToken \in ApiTokens, mode \in Modes : SubmitLogin(h, apiToken, mode)
  \/ LoginAccepted(h)
  \/ LoginRefused(h)

Next ==
  \/ \E c \in Clients : ClientStep(c)
  \/ \E h \in Submits : LoginStep(h)
  \/ Restart
  \/ Tick

Spec == Init /\ [][Next]_vars

-----------------------------------------------------------------------------
(* What the MCP endpoint does with a token (handler.go:135-166).           *)

Serves(token) == Presented("access_token", token)

\* Anything but read_write is read-only.
SessionMode(token) ==
  IF token.data.mode = "read_write" THEN "read_write" ELSE "read_only"

TTL(typ) == IF typ = "client_id" THEN ClientTTL
            ELSE IF typ = "access_token" THEN AccessTTL ELSE CodeTTL

-----------------------------------------------------------------------------
(* The abstract view: what the tokens in the clients' hands are good for.  *)

Started ==
  {[client |-> token.data.starter, began |-> token.data.began] :
     token \in {t \in issued : t.typ = "auth_state" /\ Opens(Key, t)}}

Logins ==
  {[client |-> login[h].st.starter, began |-> login[h].st.began,
    apiToken |-> login[h].apiToken, mode |-> login[h].mode] :
     h \in {g \in Submits : login[g].pc = "checking"}}

View(client, token) ==
  [client |-> client, began |-> token.data.began, apiToken |-> token.data.apiToken,
   mode |-> token.data.mode, since |-> token.mintedAt]

\* A code is good for who can answer its challenge, ...
Consents ==
  {View(token.data.challenge, token) :
     token \in {t \in issued : Presented("auth_code", t)}}

\* ... and an access token for who got it.
OpenSessions ==
  {View(token.data.redeemer, token) : token \in {t \in issued : Serves(t)}}

Stateful == INSTANCE SignIn
  WITH now <- clock, started <- Started, logins <- Logins, consents <- Consents,
       sessions <- OpenSessions

-----------------------------------------------------------------------------
(* What must hold.                                                         *)

Payload ==
  [uris : SUBSET URIs, client : Clients \cup {None},
   redirectURI : URIs \cup {None}, challenge : Clients \cup {None},
   apiToken : ApiTokens \cup {None}, mode : Modes,
   began : Nat, starter : Clients \cup {None}, redeemer : Clients \cup {None},
   bornIn : Nat]

Token == [key : Nat, typ : TokenTypes, exp : Int, data : Payload, mintedAt : Nat]

LoginState == [pc : {"idle", "checking"}, st : Payload,
               apiToken : ApiTokens \cup {None}, mode : Modes, since : Nat]

TypeOK ==
  /\ clock \in Nat
  /\ process \in Nat
  /\ issued \in SUBSET Token
  /\ login \in [Submits -> LoginState]
  /\ vouched \in SUBSET (ApiTokens \X Modes)

\* Tokens that nobody keeps track of amount to a table of sessions that is
\* (oauth.go:170-515): no sign-in is finished with the API token, the mode, the
\* client or the times of another one, whatever is presented in whatever order,
\* also by logins that wait for Black Duck at the same time, across restarts.
ActsAsStateful == Stateful!Spec

\* A session acts with an API token that Black Duck accepted, in a login where
\* the user chose that access mode (oauth.go:364, 390-403, 487-494): no code,
\* login page or other token opens one, in whatever order they are presented.
SessionsVouched ==
  \A token \in issued :
    Serves(token) => <<token.data.apiToken, SessionMode(token)>> \in vouched

\* PKCE over three requests (oauth.go:178,212,395,482): the client that holds
\* an access token is the one that started the sign-in it came from, whoever
\* saw the code and whoever's client_id was used.
RedeemerIsStarter ==
  \A token \in issued :
    Serves(token) => /\ token.data.redeemer # None
                     /\ token.data.redeemer = token.data.starter

Registered(client, uri) ==
  \E reg \in issued :
    reg.typ = "client_id" /\ reg.data.client = client /\ uri \in reg.data.uris

\* A code is only ever sent to a URI the client registered: the check is in
\* authorize (oauth.go:204), two requests before the redirect (oauth.go:409).
RedirectRegistered ==
  \A code \in issued :
    code.typ = "auth_code" => Registered(code.data.client, code.data.redirectURI)

\* A code can be redeemed again and again while it lives, but no sign-in opens
\* sessions for ever: two code lifetimes, the login's deadline and one access
\* lifetime after it was started, nothing that came of it is served.
SignInBounded ==
  \A token \in issued :
    Serves(token) =>
      clock < token.data.began + 2 * CodeTTL + LoginTimeout + AccessTTL

\* Lifetimes survive the truncation to seconds at both ends (service.go:56,81):
\* no token is good at or after the end of its lifetime, and one whose key is
\* still in use is good until less than a second before that.
LifetimeHonoured ==
  \A token \in issued :
    /\ Live(Key, token, clock) => clock < token.mintedAt + TTL(token.typ)
    /\ Opens(Key, token) /\ clock + PerSecond <= token.mintedAt + TTL(token.typ) =>
         Live(Key, token, clock)
=============================================================================
