--------------------------- MODULE OAuthFlowProofs ---------------------------
(***************************************************************************)
(* Safety of signing in, for any clients, URIs, API tokens, lifetimes (also *)
(* zero and negative ones), key policy, number of restarts and resolution   *)
(* of the clock.                                                            *)
(*                                                                         *)
(* The server forgets everything between two requests, so the invariant    *)
(* says what each kind of token carries from the requests before it        *)
(* (DataOK), and what a login submit that waits for Black Duck has read    *)
(* from its auth_state (LoginOK).  Tokens are only added and never change, *)
(* and what DataOK says of one is never undone (DataStays).                *)
(***************************************************************************)
EXTENDS OAuthFlow, TokenServiceProofs

FlowTypes == {"client_id", "auth_state", "auth_code", "access_token"}

\* d is the payload of a token of type typ that was minted at m.
DataOK(typ, d, m) ==
  /\ typ = "client_id" => d.client \in Clients
  /\ typ \in {"auth_state", "auth_code"} =>
       /\ d.starter \in Clients /\ d.challenge = d.starter
       /\ Registered(d.client, d.redirectURI)
  /\ typ = "auth_state" => m = d.began
  /\ typ \in {"auth_code", "access_token"} => <<d.apiToken, d.mode>> \in vouched
  /\ typ = "auth_code" => m < d.began + CodeTTL + LoginTimeout
  /\ typ = "access_token" =>
       /\ d.redeemer \in Clients /\ d.redeemer = d.starter
       /\ m < d.began + 2 * CodeTTL + LoginTimeout

TokenOK(token) ==
  /\ token.typ \in FlowTypes
  /\ token.exp = Unix(token.mintedAt + TTL(token.typ))
  /\ token.mintedAt <= clock
  /\ token.data.bornIn <= process
  /\ token.key = IF SecretConfigured THEN 0 ELSE token.data.bornIn
  /\ DataOK(token.typ, token.data, token.mintedAt)

LoginOK(l) ==
  l.pc = "checking" =>
    /\ l.apiToken \in ApiTokens
    /\ l.st.starter \in Clients /\ l.st.challenge = l.st.starter
    /\ Registered(l.st.client, l.st.redirectURI)
    /\ l.since < l.st.began + CodeTTL
    /\ l.since <= clock /\ clock <= l.since + LoginTimeout

IInv == /\ TypeOK
        /\ \A token \in issued : TokenOK(token)
        /\ \A h \in Submits : LoginOK(login[h])

-----------------------------------------------------------------------------
(* Lifetimes.                                                              *)

LEMMA TTLInt == \A typ \in TokenTypes : TTL(typ) \in Int
  BY LifetimeAssumption DEF TTL

\* A token that Parse accepts has not reached the end of its exact lifetime.
LEMMA LiveWithinLifetime ==
  ASSUME TypeOK, NEW token \in issued, TokenOK(token), Live(Key, token, clock)
  PROVE  clock < token.mintedAt + TTL(token.typ)
<1>1. clock \in Int /\ token.mintedAt \in Int /\ token.typ \in TokenTypes
  BY DEF TypeOK, Token
<1>2. token.mintedAt + TTL(token.typ) \in Int
  BY <1>1, TTLInt
<1>3. Unix(clock) < Unix(token.mintedAt + TTL(token.typ))
  BY DEF Live, TokenOK
<1> QED BY <1>1, <1>2, <1>3, UnixBefore

-----------------------------------------------------------------------------
(* Preservation.                                                           *)

\* What a token carries stays true as the server goes on.
LEMMA TokenStays ==
  ASSUME NEW token, TokenOK(token), token.mintedAt \in Nat, token.data.bornIn \in Nat,
         clock \in Nat, clock' \in Nat, process \in Nat, process' \in Nat,
         clock <= clock', process <= process',
         issued \subseteq issued', vouched \subseteq vouched'
  PROVE  TokenOK(token)'
<1>1. \A c, u : Registered(c, u) => Registered(c, u)'
  BY DEF Registered
<1>2. DataOK(token.typ, token.data, token.mintedAt)'
  BY <1>1 DEF TokenOK, DataOK
<1> QED BY <1>2 DEF TokenOK

\* A step that mints one token of a sign-in preserves the invariant if its
\* payload is in order.
LEMMA IssueIInv ==
  ASSUME IInv, NEW typ \in FlowTypes, NEW d \in Payload, Issue(typ, TTL(typ), d),
         UNCHANGED <<clock, process>>,
         vouched \subseteq vouched', vouched' \in SUBSET (ApiTokens \X Modes),
         login' \in [Submits -> LoginState],
         \A h \in Submits : login'[h] = login[h] \/ login'[h].pc = "idle",
         DataOK(typ, d, clock)'
  PROVE  IInv'
<1>1. /\ clock \in Nat /\ process \in Nat /\ Key \in Nat
      /\ typ \in TokenTypes /\ TTL(typ) \in Int
  BY TTLInt DEF IInv, TypeOK, Key, FlowTypes, TokenTypes
<1>2. PICK e : e = [d EXCEPT !.bornIn = process]
  OBVIOUS
<1>3. /\ e \in Payload /\ e.bornIn = process /\ e.client = d.client
      /\ e.redirectURI = d.redirectURI /\ e.challenge = d.challenge
      /\ e.apiToken = d.apiToken /\ e.mode = d.mode /\ e.began = d.began
      /\ e.starter = d.starter /\ e.redeemer = d.redeemer
  BY <1>1, <1>2 DEF Payload
<1>4. PICK new : new = Mint(Key, typ, TTL(typ), clock, e) /\ issued' = issued \cup {new}
  BY <1>2 DEF Issue
<1>5. /\ new \in Token /\ new.typ = typ /\ new.data = e /\ new.mintedAt = clock
      /\ new.key = Key /\ new.exp = Unix(clock + TTL(typ))
  BY <1>1, <1>3, <1>4, UnixInt DEF Mint, Token
<1>6. TypeOK'
  BY <1>4, <1>5 DEF IInv, TypeOK
<1>7. DataOK(typ, e, clock)'
  BY <1>3 DEF DataOK
<1>8. TokenOK(new)'
  BY <1>1, <1>3, <1>5, <1>7 DEF TokenOK, Key
<1>9. ASSUME NEW token \in issued PROVE TokenOK(token)'
  <2>1. TokenOK(token) /\ token.mintedAt \in Nat /\ token.data.bornIn \in Nat
    BY DEF IInv, TypeOK, Token, Payload
  <2> QED BY <1>1, <1>4, <2>1, TokenStays
<1>10. ASSUME NEW h \in Submits PROVE LoginOK(login[h])'
  <2>1. \A c, u : Registered(c, u) => Registered(c, u)'
    BY <1>4 DEF Registered
  <2>2. LoginOK(login[h])
    BY DEF IInv
  <2> QED BY <2>1, <2>2 DEF LoginOK
<1> QED BY <1>4, <1>6, <1>8, <1>9, <1>10 DEF IInv

\* A step that mints nothing preserves the invariant if time does not run past
\* a waiting login.
LEMMA NoIssueIInv ==
  ASSUME IInv, UNCHANGED <<issued, vouched>>,
         clock' \in Nat, process' \in Nat, clock <= clock', process <= process',
         login' \in [Submits -> LoginState],
         \A h \in Submits : LoginOK(login[h])'
  PROVE  IInv'
<1>1. clock \in Nat /\ process \in Nat /\ TypeOK'
  BY DEF IInv, TypeOK
<1>2. ASSUME NEW token \in issued PROVE TokenOK(token)'
  <2>1. TokenOK(token) /\ token.mintedAt \in Nat /\ token.data.bornIn \in Nat
    BY DEF IInv, TypeOK, Token, Payload
  <2> QED BY <1>1, <2>1, TokenStays
<1> QED BY <1>1, <1>2 DEF IInv

LEMMA BlankType == Blank \in Payload
  BY DEF Blank, Payload, Modes

LEMMA IdleLoginType == IdleLogin \in LoginState /\ IdleLogin.pc = "idle"
  BY BlankType DEF IdleLogin, LoginState, Modes

LEMMA InitIInv == Init => IInv
<1> SUFFICES ASSUME Init PROVE IInv
  OBVIOUS
<1>1. TypeOK
  BY IdleLoginType DEF Init, TypeOK
<1>2. \A h \in Submits : LoginOK(login[h])
  BY IdleLoginType DEF Init, LoginOK
<1> QED BY <1>1, <1>2 DEF Init, IInv

LEMMA RegisterIInv ==
  ASSUME IInv, NEW c \in Clients, Register(c)
  PROVE  IInv'
<1>1. PICK uris \in SUBSET URIs \ {{}} :
        Issue("client_id", TTL("client_id"), [Blank EXCEPT !.uris = uris, !.client = c])
  BY DEF Register, TTL
<1>2. PICK d : d = [Blank EXCEPT !.uris = uris, !.client = c]
  OBVIOUS
<1>3. d \in Payload /\ d.client = c
  BY <1>2, BlankType DEF Payload
<1>4. DataOK("client_id", d, clock)'
  BY <1>3 DEF DataOK
<1>5. UNCHANGED <<clock, process, login, vouched>>
  BY DEF Register
<1> QED BY <1>1, <1>2, <1>3, <1>4, <1>5, IssueIInv DEF FlowTypes, IInv, TypeOK

LEMMA AuthorizeIInv ==
  ASSUME IInv, NEW s \in Clients, Authorize(s)
  PROVE  IInv'
<1>1. PICK token \in issued :
        /\ Presented("client_id", token)
        /\ \E uri \in token.data.uris :
             Issue("auth_state", CodeTTL,
                   [Blank EXCEPT !.client = token.data.client, !.redirectURI = uri,
                                 !.challenge = s, !.starter = s, !.began = clock])
  BY DEF Authorize
<1>2. /\ token.typ = "client_id" /\ token.data \in Payload /\ clock \in Nat
      /\ token.data.client \in Clients
  BY <1>1 DEF Presented, Accepts, IInv, TypeOK, Token, TokenOK, DataOK
<1>3. PICK uri \in token.data.uris :
        Issue("auth_state", CodeTTL,
              [Blank EXCEPT !.client = token.data.client, !.redirectURI = uri,
                            !.challenge = s, !.starter = s, !.began = clock])
  BY <1>1
<1>4. uri \in URIs
  BY <1>2 DEF Payload
<1>5. PICK d : d = [Blank EXCEPT !.client = token.data.client, !.redirectURI = uri,
                                 !.challenge = s, !.starter = s, !.began = clock]
  OBVIOUS
<1>6. d \in Payload
  BY <1>2, <1>4, <1>5, BlankType DEF Payload
<1>7. /\ d.client = token.data.client /\ d.redirectURI = uri /\ d.challenge = s
      /\ d.starter = s /\ d.began = clock
  BY <1>5, BlankType DEF Payload
<1>8. UNCHANGED <<clock, process, login, vouched>> /\ issued \subseteq issued'
  BY <1>3 DEF Authorize, Issue
<1>9. Registered(d.client, d.redirectURI)'
  BY <1>2, <1>7, <1>8 DEF Registered
<1>10. DataOK("auth_state", d, clock)'
  BY <1>7, <1>8, <1>9 DEF DataOK
<1>11. Issue("auth_state", TTL("auth_state"), d)
  BY <1>3, <1>5 DEF TTL
<1> QED BY <1>6, <1>8, <1>10, <1>11, IssueIInv DEF FlowTypes, IInv, TypeOK

LEMMA SubmitLoginIInv ==
  ASSUME IInv, NEW h \in Submits, NEW apiToken \in ApiTokens, NEW mode \in Modes,
         SubmitLogin(h, apiToken, mode)
  PROVE  IInv'
<1>1. PICK token \in issued :
        /\ Presented("auth_state", token)
        /\ login' = [login EXCEPT ![h] =
                       [pc |-> "checking", st |-> token.data, apiToken |-> apiToken,
                        mode |-> mode, since |-> clock]]
  BY DEF SubmitLogin
<1>2. /\ token.typ = "auth_state" /\ token.data \in Payload /\ clock \in Nat
      /\ TokenOK(token) /\ Live(Key, token, clock)
  BY <1>1 DEF Presented, Accepts, IInv, TypeOK, Token
<1>3. clock < token.data.began + CodeTTL
  BY <1>2, LiveWithinLifetime DEF IInv, TokenOK, DataOK, TTL
<1>4. UNCHANGED <<clock, process, issued, vouched>>
  BY DEF SubmitLogin
<1>5. PICK l : l = [pc |-> "checking", st |-> token.data, apiToken |-> apiToken,
                    mode |-> mode, since |-> clock]
  OBVIOUS
<1>6. l \in LoginState
  BY <1>2, <1>5 DEF LoginState
<1>7. LoginOK(l)'
  BY <1>2, <1>3, <1>4, <1>5, LifetimeAssumption
     DEF LoginOK, TokenOK, DataOK, Registered
<1>8. login' \in [Submits -> LoginState]
  BY <1>1, <1>5, <1>6 DEF IInv, TypeOK
<1>9. ASSUME NEW g \in Submits PROVE LoginOK(login[g])'
  <2>1. CASE g = h
    <3>1. login'[g] = l
      BY <1>1, <1>5, <2>1 DEF IInv, TypeOK
    <3> QED BY <1>7, <3>1 DEF LoginOK
  <2>2. CASE g # h
    <3>1. login'[g] = login[g] /\ LoginOK(login[g])
      BY <1>1, <2>2 DEF IInv, TypeOK
    <3> QED BY <1>4, <3>1 DEF LoginOK, Registered
  <2> QED BY <2>1, <2>2
<1> QED BY <1>2, <1>4, <1>8, <1>9, NoIssueIInv DEF IInv, TypeOK

LEMMA LoginAcceptedIInv ==
  ASSUME IInv, NEW h \in Submits, LoginAccepted(h)
  PROVE  IInv'
<1>1. PICK l : l = login[h]
  OBVIOUS
<1>2. /\ l \in LoginState /\ l.pc = "checking" /\ LoginOK(l) /\ clock \in Nat
  BY <1>1 DEF IInv, TypeOK, LoginAccepted
<1>3. /\ l.st \in Payload /\ l.mode \in Modes /\ l.apiToken \in ApiTokens
      /\ l.since \in Nat /\ l.st.began \in Nat
  BY <1>2 DEF LoginState, LoginOK, Payload
<1>4. PICK d : d = [l.st EXCEPT !.apiToken = l.apiToken, !.mode = l.mode]
  OBVIOUS
<1>5. /\ Issue("auth_code", TTL("auth_code"), d)
      /\ vouched' = vouched \cup {<<l.apiToken, l.mode>>}
      /\ login' = [login EXCEPT ![h] = IdleLogin]
      /\ UNCHANGED <<clock, process>> /\ issued \subseteq issued'
  BY <1>1, <1>4 DEF LoginAccepted, TTL, Issue
<1>6. d \in Payload
  BY <1>3, <1>4 DEF Payload
<1>7. /\ d.apiToken = l.apiToken /\ d.mode = l.mode /\ d.client = l.st.client
      /\ d.redirectURI = l.st.redirectURI /\ d.challenge = l.st.challenge
      /\ d.starter = l.st.starter /\ d.began = l.st.began
  BY <1>3, <1>4 DEF Payload
<1>8. clock < d.began + CodeTTL + LoginTimeout
  BY <1>2, <1>3, <1>7, LifetimeAssumption DEF LoginOK
<1>9. Registered(d.client, d.redirectURI)'
  BY <1>2, <1>5, <1>7 DEF LoginOK, Registered
<1>10. DataOK("auth_code", d, clock)'
  BY <1>2, <1>5, <1>7, <1>8, <1>9 DEF DataOK, LoginOK
<1>11. vouched' \in SUBSET (ApiTokens \X Modes)
  BY <1>3, <1>5 DEF IInv, TypeOK
<1>12. /\ login' \in [Submits -> LoginState]
       /\ \A g \in Submits : login'[g] = login[g] \/ login'[g].pc = "idle"
  BY <1>5, IdleLoginType DEF IInv, TypeOK
<1> QED BY <1>5, <1>6, <1>10, <1>11, <1>12, IssueIInv DEF FlowTypes

LEMMA LoginRefusedIInv ==
  ASSUME IInv, NEW h \in Submits, LoginRefused(h)
  PROVE  IInv'
<1>1. /\ login' = [login EXCEPT ![h] = IdleLogin]
      /\ UNCHANGED <<clock, process, issued, vouched>>
  BY DEF LoginRefused
<1>2. /\ login' \in [Submits -> LoginState]
      /\ \A g \in Submits : login'[g] = login[g] \/ login'[g].pc = "idle"
  BY <1>1, IdleLoginType DEF IInv, TypeOK
<1>3. ASSUME NEW g \in Submits PROVE LoginOK(login[g])'
  <2>1. LoginOK(login[g])
    BY DEF IInv
  <2> QED BY <1>1, <1>2, <2>1 DEF LoginOK, Registered
<1> QED BY <1>1, <1>2, <1>3, NoIssueIInv DEF IInv, TypeOK

LEMMA RedeemIInv ==
  ASSUME IInv, NEW r \in Clients, NEW c \in Clients, NEW uri \in URIs, Redeem(r, c, uri)
  PROVE  IInv'
<1>1. PICK token \in issued :
        /\ Presented("auth_code", token)
        /\ Verifies(r, token.data.challenge)
        /\ Issue("access_token", AccessTTL,
                 [Blank EXCEPT !.apiToken = token.data.apiToken, !.mode = token.data.mode,
                               !.began = token.data.began, !.starter = token.data.starter,
                               !.redeemer = r])
  BY DEF Redeem
<1>2. /\ token.typ = "auth_code" /\ token.data \in Payload /\ clock \in Nat
      /\ token.mintedAt \in Nat /\ TokenOK(token) /\ Live(Key, token, clock)
  BY <1>1 DEF Presented, Accepts, IInv, TypeOK, Token
<1>3. PICK p : p = token.data
  OBVIOUS
<1>4. /\ p \in Payload /\ DataOK("auth_code", p, token.mintedAt)
      /\ p.began \in Nat /\ p.mode \in Modes
  BY <1>2, <1>3 DEF TokenOK, Payload
<1>5. PICK d : d = [Blank EXCEPT !.apiToken = p.apiToken, !.mode = p.mode,
                                 !.began = p.began, !.starter = p.starter,
                                 !.redeemer = r]
  OBVIOUS
<1>6. d \in Payload
  BY <1>4, <1>5, BlankType DEF Payload
<1>7. /\ d.apiToken = p.apiToken /\ d.mode = p.mode /\ d.began = p.began
      /\ d.starter = p.starter /\ d.redeemer = r
  BY <1>4, <1>5, BlankType DEF Payload
<1>8. clock < p.began + 2 * CodeTTL + LoginTimeout
  <2>1. clock < token.mintedAt + CodeTTL
    BY <1>2, LiveWithinLifetime DEF IInv, TTL
  <2>2. token.mintedAt < p.began + CodeTTL + LoginTimeout
    BY <1>4 DEF DataOK
  <2> QED BY <1>2, <1>4, <2>1, <2>2, LifetimeAssumption
<1>9. r = p.starter /\ <<p.apiToken, p.mode>> \in vouched
  BY <1>1, <1>3, <1>4 DEF DataOK, Verifies
<1>10. UNCHANGED <<clock, process, login, vouched>>
  BY DEF Redeem
<1>11. DataOK("access_token", d, clock)'
  BY <1>7, <1>8, <1>9, <1>10 DEF DataOK
<1>12. Issue("access_token", TTL("access_token"), d)
  BY <1>1, <1>3, <1>5 DEF TTL
<1> QED BY <1>6, <1>10, <1>11, <1>12, IssueIInv DEF FlowTypes, IInv, TypeOK

LEMMA RestartIInv == ASSUME IInv, Restart PROVE IInv'
<1>1. /\ process' = process + 1 /\ login' = [h \in Submits |-> IdleLogin]
      /\ UNCHANGED <<clock, issued, vouched>>
  BY DEF Restart
<1>2. clock \in Nat /\ process \in Nat
  BY DEF IInv, TypeOK
<1>3. /\ login' \in [Submits -> LoginState]
      /\ \A h \in Submits : LoginOK(login[h])'
  BY <1>1, IdleLoginType DEF LoginOK
<1> QED BY <1>1, <1>2, <1>3, NoIssueIInv

LEMMA TickIInv == ASSUME IInv, Tick PROVE IInv'
<1>1. /\ clock' = clock + 1 /\ UNCHANGED <<process, issued, login, vouched>>
      /\ \A h \in Submits :
           login[h].pc = "checking" => clock < login[h].since + LoginTimeout
  BY DEF Tick
<1>2. clock \in Nat /\ process \in Nat /\ login' \in [Submits -> LoginState]
  BY <1>1 DEF IInv, TypeOK
<1>3. ASSUME NEW h \in Submits PROVE LoginOK(login[h])'
  <2>1. LoginOK(login[h]) /\ login[h].since \in Nat
    BY DEF IInv, TypeOK, LoginState
  <2> QED BY <1>1, <1>2, <2>1, LifetimeAssumption DEF LoginOK, Registered
<1> QED BY <1>1, <1>2, <1>3, NoIssueIInv

LEMMA NextIInv == IInv /\ [Next]_vars => IInv'
<1> SUFFICES ASSUME IInv, [Next]_vars PROVE IInv'
  OBVIOUS
<1>1. ASSUME NEW c \in Clients, ClientStep(c) PROVE IInv'
  BY <1>1, RegisterIInv, AuthorizeIInv, RedeemIInv DEF ClientStep
<1>2. ASSUME NEW h \in Submits, LoginStep(h) PROVE IInv'
  BY <1>2, SubmitLoginIInv, LoginAcceptedIInv, LoginRefusedIInv DEF LoginStep
<1>3. CASE UNCHANGED vars
  <2>1. UNCHANGED <<clock, process, issued, login, vouched>>
    BY <1>3 DEF vars
  <2>2. /\ clock \in Nat /\ process \in Nat /\ login' \in [Submits -> LoginState]
        /\ \A h \in Submits : LoginOK(login[h])'
    BY <2>1 DEF IInv, TypeOK, LoginOK, Registered
  <2> QED BY <2>1, <2>2, NoIssueIInv
<1> QED BY <1>1, <1>2, <1>3, RestartIInv, TickIInv DEF Next

\* The invariant above holds in every state of every behaviour.
THEOREM InvariantHolds == Spec => []IInv
  BY InitIInv, NextIInv, PTL DEF Spec

-----------------------------------------------------------------------------
(* The properties the runs check, for every value of the constants.        *)

\* Every token, login submit and history value keeps its type.
THEOREM OAuthTypeCorrect == Spec => []TypeOK
<1>1. IInv => TypeOK
  BY DEF IInv
<1> QED BY <1>1, InvariantHolds, PTL

LEMMA ServedToken ==
  ASSUME IInv, NEW token \in issued, Serves(token)
  PROVE  /\ TypeOK /\ token.typ = "access_token" /\ token.data \in Payload
         /\ clock \in Nat /\ token.mintedAt \in Nat
         /\ TokenOK(token) /\ Live(Key, token, clock)
  BY DEF IInv, TypeOK, Token, Serves, Presented, Accepts

LEMMA SessionsVouchedI == IInv => SessionsVouched
<1> SUFFICES ASSUME IInv, NEW token \in issued, Serves(token)
             PROVE  <<token.data.apiToken, SessionMode(token)>> \in vouched
  BY DEF SessionsVouched
<1>1. /\ token.data.mode \in Modes
      /\ <<token.data.apiToken, token.data.mode>> \in vouched
  BY ServedToken DEF TokenOK, DataOK, Payload
<1>2. SessionMode(token) = token.data.mode
  BY <1>1 DEF SessionMode, Modes
<1> QED BY <1>1, <1>2

\* Whoever holds a served access token got it through a login that Black Duck
\* accepted, in the access mode chosen there (handler.go:135-166).
THEOREM SessionsVouchedHolds == Spec => []SessionsVouched
  BY SessionsVouchedI, InvariantHolds, PTL

\* The access token ends with the client that started the sign-in
\* (oauth.go:482), through every interleaving of sign-ins and restarts.
THEOREM RedeemerIsStarterHolds == Spec => []RedeemerIsStarter
<1>1. IInv => RedeemerIsStarter
  <2> SUFFICES ASSUME IInv, NEW token \in issued, Serves(token)
               PROVE  /\ token.data.redeemer # None
                      /\ token.data.redeemer = token.data.starter
    BY DEF RedeemerIsStarter
  <2> QED BY ServedToken, OAuthNoneAssumption DEF TokenOK, DataOK
<1> QED BY <1>1, InvariantHolds, PTL

\* A code goes to a URI its client registered (oauth.go:204,409).
THEOREM RedirectRegisteredHolds == Spec => []RedirectRegistered
<1>1. IInv => RedirectRegistered
  BY DEF IInv, TokenOK, DataOK, RedirectRegistered
<1> QED BY <1>1, InvariantHolds, PTL

LEMMA SignInBoundedI == IInv => SignInBounded
<1> SUFFICES ASSUME IInv, NEW token \in issued, Serves(token)
             PROVE  clock < token.data.began + 2 * CodeTTL + LoginTimeout + AccessTTL
  BY DEF SignInBounded
<1>1. clock < token.mintedAt + AccessTTL
  BY ServedToken, LiveWithinLifetime DEF TTL
<1>2. token.mintedAt < token.data.began + 2 * CodeTTL + LoginTimeout
  BY ServedToken DEF TokenOK, DataOK
<1>3. clock \in Nat /\ token.mintedAt \in Nat /\ token.data.began \in Nat
  BY ServedToken DEF Payload
<1> QED BY <1>1, <1>2, <1>3, LifetimeAssumption

\* However often its code is redeemed and the server restarted, a sign-in
\* opens no session 2 * CodeTTL + LoginTimeout + AccessTTL after it began.
THEOREM SignInBoundedHolds == Spec => []SignInBounded
  BY SignInBoundedI, InvariantHolds, PTL

\* Expiry is never late and less than a second early, for every lifetime and
\* clock resolution (service.go:56,81-82).
THEOREM LifetimeHonouredHolds == Spec => []LifetimeHonoured
<1>1. IInv => LifetimeHonoured
  <2> SUFFICES ASSUME IInv, NEW token \in issued
               PROVE  /\ Live(Key, token, clock) => clock < token.mintedAt + TTL(token.typ)
                      /\ /\ Opens(Key, token)
                         /\ clock + PerSecond <= token.mintedAt + TTL(token.typ)
                         => Live(Key, token, clock)
    BY DEF LifetimeHonoured
  <2>1. TypeOK /\ TokenOK(token)
    BY DEF IInv
  <2>2. clock \in Int /\ token.mintedAt + TTL(token.typ) \in Int
    BY TTLInt, <2>1 DEF TypeOK, Token
  <2>3. ASSUME Opens(Key, token), clock + PerSecond <= token.mintedAt + TTL(token.typ)
        PROVE  Live(Key, token, clock)
    BY <2>1, <2>2, <2>3, UnixSecond DEF Live, TokenOK
  <2> QED BY <2>1, <2>3, LiveWithinLifetime
<1> QED BY <1>1, InvariantHolds, PTL

\* What the key of this process opens: its own tokens, or those of any process.
OpensOwn ==
  \A token \in issued :
    Opens(Key, token) <=> SecretConfigured \/ token.data.bornIn = process

LEMMA OpensOwnI == IInv => OpensOwn
  BY DEF IInv, TokenOK, OpensOwn, Opens, Key

-----------------------------------------------------------------------------
(* The tokens in the clients' hands implement a table of sessions.         *)

Held(typ) == {token \in issued : Presented(typ, token)}

\* The key is that of the process, or the same for all of them.
LEMMA KeyStays == ASSUME process' = process \/ SecretConfigured PROVE Key' = Key
  BY DEF Key

\* One more token is one more entry at most, in the table of its type.
LEMMA NewEntry ==
  ASSUME TypeOK, NEW typ \in FlowTypes, NEW d \in Payload, Issue(typ, TTL(typ), d),
         UNCHANGED <<clock, process>>
  PROVE  /\ Started' = IF typ = "auth_state"
                       THEN Started \cup {[client |-> d.starter, began |-> d.began]}
                       ELSE Started
         /\ \/ Consents' = Consents
            \/ /\ typ = "auth_code"
               /\ Consents' = Consents \cup
                    {[client |-> d.challenge, began |-> d.began, apiToken |-> d.apiToken,
                      mode |-> d.mode, since |-> clock]}
         /\ \/ OpenSessions' = OpenSessions
            \/ /\ typ = "access_token"
               /\ OpenSessions' = OpenSessions \cup
                    {[client |-> d.redeemer, began |-> d.began, apiToken |-> d.apiToken,
                      mode |-> d.mode, since |-> clock]}
<1>1. PICK e : e = [d EXCEPT !.bornIn = process]
  OBVIOUS
<1>2. /\ e.challenge = d.challenge /\ e.apiToken = d.apiToken /\ e.mode = d.mode
      /\ e.began = d.began /\ e.starter = d.starter /\ e.redeemer = d.redeemer
  BY <1>1 DEF Payload
<1>3. PICK new : new = Mint(Key, typ, TTL(typ), clock, e) /\ issued' = issued \cup {new}
  BY <1>1 DEF Issue
<1>4. new.typ = typ /\ new.data = e /\ new.mintedAt = clock /\ new.key = Key
  BY <1>3 DEF Mint
<1>5. Key' = Key
  BY KeyStays
<1>6. \A typ2 : Held(typ2)' = Held(typ2) \/ (typ2 = typ /\ Held(typ2)' = Held(typ2) \cup {new})
  BY <1>3, <1>4, <1>5 DEF Held, Presented, Accepts
<1>7. Started' = IF typ = "auth_state"
                 THEN Started \cup {[client |-> d.starter, began |-> d.began]}
                 ELSE Started
  <2>1. PICK T : T = {t \in issued : t.typ = "auth_state" /\ Opens(Key, t)}
    OBVIOUS
  <2>2. {t \in issued : t.typ = "auth_state" /\ Opens(Key, t)}'
          = IF typ = "auth_state" THEN T \cup {new} ELSE T
    BY <1>3, <1>4, <1>5, <2>1 DEF Opens
  <2> QED BY <1>2, <1>4, <2>1, <2>2 DEF Started
<1>8. \/ Consents' = Consents
      \/ typ = "auth_code" /\ Consents' = Consents \cup {View(new.data.challenge, new)}
  <2>1. /\ Consents = {View(token.data.challenge, token) : token \in Held("auth_code")}
        /\ Consents' = {View(token.data.challenge, token) : token \in Held("auth_code")'}
    BY DEF Consents, Held, View
  <2> QED BY <1>6, <2>1
<1>9. \/ OpenSessions' = OpenSessions
      \/ /\ typ = "access_token"
         /\ OpenSessions' = OpenSessions \cup {View(new.data.redeemer, new)}
  <2>1. /\ OpenSessions = {View(token.data.redeemer, token) : token \in Held("access_token")}
        /\ OpenSessions' = {View(token.data.redeemer, token) : token \in Held("access_token")'}
    BY DEF OpenSessions, Held, View, Serves
  <2> QED BY <1>6, <2>1
<1> QED BY <1>2, <1>4, <1>7, <1>8, <1>9 DEF View

\* A submit adds to what waits for Black Duck, and whatever ends one takes away
\* at most what was submitted to it.
Waiting(l) == [client |-> l.st.starter, began |-> l.st.began,
               apiToken |-> l.apiToken, mode |-> l.mode]

LEMMA LoginsChange ==
  ASSUME TypeOK, NEW h \in Submits, NEW l, login' = [login EXCEPT ![h] = l]
  PROVE  /\ login[h].pc # "checking" /\ l.pc = "checking" =>
              Logins' = Logins \cup {Waiting(l)}
         /\ login[h].pc = "checking" /\ l.pc # "checking" =>
              /\ Waiting(login[h]) \in Logins
              /\ Logins' \in {Logins, Logins \ {Waiting(login[h])}}
<1>1. /\ Logins = {Waiting(login[g]) : g \in {i \in Submits : login[i].pc = "checking"}}
      /\ Logins' = {Waiting(login'[g]) : g \in {i \in Submits : login'[i].pc = "checking"}}
  BY DEF Logins, Waiting
<1>2. \A g \in Submits : login'[g] = IF g = h THEN l ELSE login[g]
  BY DEF TypeOK
<1>3. ASSUME login[h].pc # "checking", l.pc = "checking"
      PROVE  Logins' = Logins \cup {Waiting(l)}
  BY <1>1, <1>2, <1>3
<1>4. ASSUME login[h].pc = "checking", l.pc # "checking"
      PROVE  /\ Waiting(login[h]) \in Logins
             /\ Logins' \in {Logins, Logins \ {Waiting(login[h])}}
  <2>1. Waiting(login[h]) \in Logins
    BY <1>1, <1>4
  <2>2. Logins' \subseteq Logins
    BY <1>1, <1>2, <1>4
  <2>3. \A w \in Logins : w # Waiting(login[h]) => w \in Logins'
    BY <1>1, <1>2, <1>4
  <2> QED BY <2>1, <2>2, <2>3
<1> QED BY <1>3, <1>4

LEMMA StatefulInit == Init => Stateful!Init
<1> SUFFICES ASSUME Init PROVE Stateful!Init
  OBVIOUS
<1>1. Logins = {}
  BY IdleLoginType DEF Init, Logins
<1> QED BY <1>1 DEF Init, Stateful!Init, Started, Consents, OpenSessions


\* The tables follow from the keys, the time, the tokens and the logins.
LEMMA TablesStay ==
  /\ UNCHANGED login => Logins' = Logins
  /\ UNCHANGED <<process, issued>> => Started' = Started
  /\ UNCHANGED <<process, clock, issued>> =>
       Consents' = Consents /\ OpenSessions' = OpenSessions
BY DEF Logins, Started, Consents, OpenSessions, Serves, Presented, Accepts, Live, Opens,
   View, Key

LEMMA RegisterUnseen ==
  ASSUME IInv, NEW c \in Clients, Register(c)
  PROVE  UNCHANGED Stateful!vars
<1>1. PICK uris \in SUBSET URIs \ {{}} :
        Issue("client_id", TTL("client_id"), [Blank EXCEPT !.uris = uris, !.client = c])
  BY DEF Register, TTL
<1>2. PICK d : d = [Blank EXCEPT !.uris = uris, !.client = c]
  OBVIOUS
<1>3. d \in Payload /\ Issue("client_id", TTL("client_id"), d)
  BY <1>1, <1>2, BlankType DEF Payload
<1>4. UNCHANGED <<clock, process, login, vouched>>
  BY DEF Register
<1>5. Started' = Started /\ Consents' = Consents /\ OpenSessions' = OpenSessions
  BY <1>3, <1>4, NewEntry DEF FlowTypes, IInv
<1> QED BY <1>4, <1>5, TablesStay DEF Stateful!vars

LEMMA AuthorizeIsStart ==
  ASSUME IInv, NEW s \in Clients, Authorize(s)
  PROVE  Stateful!Start(s)
<1>1. PICK token \in issued, uri \in URIs :
        /\ Presented("client_id", token) /\ uri \in token.data.uris
        /\ Issue("auth_state", TTL("auth_state"),
                 [Blank EXCEPT !.client = token.data.client, !.redirectURI = uri,
                               !.challenge = s, !.starter = s, !.began = clock])
  BY DEF Authorize, TTL, IInv, TypeOK, Token, Payload
<1>2. /\ token.data \in Payload /\ clock \in Nat
      /\ token.data.client \in Clients
  BY <1>1 DEF Presented, Accepts, IInv, TypeOK, Token, Payload, TokenOK, DataOK
<1>3. PICK d : d = [Blank EXCEPT !.client = token.data.client, !.redirectURI = uri,
                                 !.challenge = s, !.starter = s, !.began = clock]
  OBVIOUS
<1>4. d \in Payload /\ d.starter = s /\ d.began = clock
  BY <1>2, <1>3, BlankType DEF Payload
<1>5. Issue("auth_state", TTL("auth_state"), d)
  BY <1>1, <1>3
<1>6. UNCHANGED <<clock, process, login, vouched>>
  BY DEF Authorize
<1>7. /\ Started' = Started \cup {[client |-> s, began |-> clock]}
      /\ Consents' = Consents /\ OpenSessions' = OpenSessions
  BY <1>4, <1>5, <1>6, NewEntry DEF FlowTypes, IInv
<1> QED BY <1>6, <1>7, TablesStay DEF Stateful!Start

LEMMA SubmitIsSubmit ==
  ASSUME IInv, NEW h \in Submits, NEW apiToken \in ApiTokens, NEW mode \in Modes,
         SubmitLogin(h, apiToken, mode)
  PROVE  \E s \in Started : Stateful!Submit(s, apiToken, mode)
<1>1. PICK token \in issued :
        /\ Presented("auth_state", token)
        /\ login' = [login EXCEPT ![h] =
                       [pc |-> "checking", st |-> token.data, apiToken |-> apiToken,
                        mode |-> mode, since |-> clock]]
  BY DEF SubmitLogin
<1>2. /\ token.typ = "auth_state" /\ TokenOK(token) /\ Live(Key, token, clock)
      /\ Opens(Key, token)
  BY <1>1 DEF Presented, Accepts, IInv, Live
<1>3. clock < token.data.began + CodeTTL
  BY <1>2, LiveWithinLifetime DEF IInv, TokenOK, DataOK, TTL
<1>4. PICK s : s = [client |-> token.data.starter, began |-> token.data.began]
  OBVIOUS
<1>5. s \in Started
  BY <1>2, <1>4 DEF Started
<1>6. PICK l : l = [pc |-> "checking", st |-> token.data, apiToken |-> apiToken,
                    mode |-> mode, since |-> clock]
  OBVIOUS
<1>7. Logins' = Logins \cup {[client |-> s.client, began |-> s.began,
                             apiToken |-> apiToken, mode |-> mode]}
  <2>1. login[h].pc # "checking" /\ l.pc = "checking" /\ login' = [login EXCEPT ![h] = l]
    BY <1>1, <1>6 DEF SubmitLogin
  <2>2. Logins' = Logins \cup {Waiting(l)}
    BY <2>1, LoginsChange DEF IInv
  <2> QED BY <1>4, <1>6, <2>2 DEF Waiting
<1>8. UNCHANGED <<clock, process, issued, vouched>>
  BY DEF SubmitLogin
<1>9. Stateful!Submit(s, apiToken, mode)
  BY <1>3, <1>4, <1>7, <1>8, TablesStay DEF Stateful!Submit
<1> QED BY <1>5, <1>9

LEMMA AcceptedIsConsent ==
  ASSUME IInv, NEW h \in Submits, LoginAccepted(h)
  PROVE  \E l \in Logins : Stateful!Consent(l)
<1>1. PICK l : l = login[h]
  OBVIOUS
<1>2. /\ l \in LoginState /\ l.pc = "checking" /\ LoginOK(l) /\ clock \in Nat
  BY <1>1 DEF IInv, TypeOK, LoginAccepted
<1>3. /\ l.st \in Payload /\ l.mode \in Modes /\ l.apiToken \in ApiTokens
      /\ l.since \in Nat /\ l.st.began \in Nat
  BY <1>2 DEF LoginState, LoginOK, Payload
<1>4. PICK d : d = [l.st EXCEPT !.apiToken = l.apiToken, !.mode = l.mode]
  OBVIOUS
<1>5. /\ Issue("auth_code", TTL("auth_code"), d)
      /\ vouched' = vouched \cup {<<l.apiToken, l.mode>>}
      /\ login' = [login EXCEPT ![h] = IdleLogin]
      /\ UNCHANGED <<clock, process>>
  BY <1>1, <1>4 DEF LoginAccepted, TTL
<1>6. /\ d \in Payload /\ d.apiToken = l.apiToken /\ d.mode = l.mode
      /\ d.challenge = l.st.starter /\ d.began = l.st.began
  BY <1>2, <1>3, <1>4 DEF Payload, LoginOK
<1>7. PICK w : w = Waiting(l)
  OBVIOUS
<1>8. w.client = l.st.starter /\ w.began = l.st.began /\ w.apiToken = l.apiToken /\ w.mode = l.mode
  BY <1>7 DEF Waiting
<1>9. w \in Logins /\ Logins' \in {Logins, Logins \ {w}}
  BY <1>1, <1>2, <1>5, <1>7, LoginsChange, IdleLoginType DEF IInv
<1>10. clock < w.began + CodeTTL + LoginTimeout
  BY <1>2, <1>3, <1>8, LifetimeAssumption DEF LoginOK
<1>11. /\ Started' = Started /\ OpenSessions' = OpenSessions
       /\ Consents' \in
            {Consents,
             Consents \cup {[client |-> w.client, began |-> w.began, apiToken |-> w.apiToken,
                             mode |-> w.mode, since |-> clock]}}
  BY <1>5, <1>6, <1>8, NewEntry DEF FlowTypes, IInv
<1>12. vouched' = vouched \cup {<<w.apiToken, w.mode>>}
  BY <1>5, <1>8
<1> QED BY <1>5, <1>9, <1>10, <1>11, <1>12 DEF Stateful!Consent, Stateful!Answered

LEMMA RefusedIsRefuse ==
  ASSUME IInv, NEW h \in Submits, LoginRefused(h)
  PROVE  \E l \in Logins : Stateful!Refuse(l)
<1>1. /\ login[h].pc = "checking" /\ login' = [login EXCEPT ![h] = IdleLogin]
      /\ UNCHANGED <<clock, process, issued, vouched>>
  BY DEF LoginRefused
<1>2. /\ Waiting(login[h]) \in Logins
      /\ Logins' \in {Logins, Logins \ {Waiting(login[h])}}
  BY <1>1, LoginsChange, IdleLoginType DEF IInv
<1> QED BY <1>1, <1>2, TablesStay DEF Stateful!Refuse, Stateful!Answered

\* The code that was presented is the consent, and its challenge, its redeemer
\* and who started the sign-in are one client.
LEMMA RedeemIsOpen ==
  ASSUME IInv, NEW r \in Clients, NEW c \in Clients, NEW uri \in URIs, Redeem(r, c, uri)
  PROVE  (\E k \in Consents : Stateful!Open(k)) \/ UNCHANGED Stateful!vars
<1>1. PICK token \in issued :
        /\ Presented("auth_code", token)
        /\ Verifies(r, token.data.challenge)
        /\ Issue("access_token", TTL("access_token"),
                 [Blank EXCEPT !.apiToken = token.data.apiToken, !.mode = token.data.mode,
                               !.began = token.data.began, !.starter = token.data.starter,
                               !.redeemer = r])
  BY DEF Redeem, TTL
<1>2. PICK p : p = token.data
  OBVIOUS
<1>3. p \in Payload /\ p.starter \in Clients /\ p.challenge = r /\ clock \in Nat
  BY <1>1, <1>2 DEF IInv, TypeOK, Token, TokenOK, DataOK, Presented, Accepts, Verifies
<1>4. PICK d : d = [Blank EXCEPT !.apiToken = p.apiToken, !.mode = p.mode,
                                 !.began = p.began, !.starter = p.starter,
                                 !.redeemer = r]
  OBVIOUS
<1>5. /\ d \in Payload /\ d.apiToken = p.apiToken /\ d.mode = p.mode
      /\ d.began = p.began /\ d.redeemer = r
  BY <1>3, <1>4, BlankType DEF Payload
<1>6. Issue("access_token", TTL("access_token"), d)
  BY <1>1, <1>2, <1>4
<1>7. UNCHANGED <<clock, process, login, vouched>>
  BY DEF Redeem
<1>8. /\ Started' = Started /\ Consents' = Consents
      /\ \/ OpenSessions' = OpenSessions
         \/ OpenSessions' = OpenSessions \cup
              {[client |-> r, began |-> p.began, apiToken |-> p.apiToken,
                mode |-> p.mode, since |-> clock]}
  BY <1>5, <1>6, <1>7, NewEntry DEF FlowTypes, IInv
<1>9. PICK k : k = View(r, token)
  OBVIOUS
<1>10. k \in Consents
  BY <1>1, <1>2, <1>3, <1>9 DEF Consents
<1>11. [k EXCEPT !.since = clock] = [client |-> r, began |-> p.began, apiToken |-> p.apiToken,
                                    mode |-> p.mode, since |-> clock]
  BY <1>2, <1>9 DEF View
<1>12. Logins' = Logins
  BY <1>7, TablesStay
<1>13. CASE OpenSessions' = OpenSessions
  BY <1>7, <1>8, <1>12, <1>13 DEF Stateful!vars
<1>14. CASE OpenSessions' = OpenSessions \cup {[k EXCEPT !.since = clock]}
  BY <1>7, <1>8, <1>10, <1>12, <1>14 DEF Stateful!Open
<1> QED BY <1>8, <1>11, <1>13, <1>14

\* Opened under the same key, what was made a lifetime ago is over, and what
\* has a second left is not.
LEMMA HeldLapse ==
  ASSUME IInv, NEW typ \in FlowTypes, Key' = Key, issued' = issued,
         clock' \in Int, clock <= clock'
  PROVE  /\ Held(typ)' \subseteq {t \in Held(typ) : clock' < t.mintedAt + TTL(typ)}
         /\ {t \in Held(typ) : clock' + PerSecond <= t.mintedAt + TTL(typ)}
              \subseteq Held(typ)'
<1>1. ASSUME NEW t \in issued
      PROVE  /\ t.mintedAt \in Int /\ t.mintedAt + TTL(t.typ) \in Int
             /\ t.exp = Unix(t.mintedAt + TTL(t.typ)) /\ clock \in Int
  BY TTLInt DEF IInv, TypeOK, Token, TokenOK
<1>2. ASSUME NEW t \in Held(typ)'
      PROVE  t \in Held(typ) /\ clock' < t.mintedAt + TTL(typ)
  <2>1. t \in issued /\ t.typ = typ /\ Opens(Key, t) /\ Unix(clock') < t.exp
    BY <1>2 DEF Held, Presented, Accepts, Live, Opens
  <2>2. clock' < t.mintedAt + TTL(typ)
    BY <1>1, <2>1, UnixBefore
  <2>3. Unix(clock) < t.exp
    BY <1>1, <2>1, UnixMonotone, UnixInt
  <2> QED BY <2>1, <2>2, <2>3 DEF Held, Presented, Accepts, Live
<1>3. ASSUME NEW t \in Held(typ), clock' + PerSecond <= t.mintedAt + TTL(typ)
      PROVE  t \in Held(typ)'
  <2>1. t \in issued /\ t.typ = typ /\ Opens(Key, t)
    BY <1>3 DEF Held, Presented, Accepts, Live
  <2>2. Unix(clock') < t.exp
    BY <1>1, <1>3, <2>1, UnixSecond
  <2> QED BY <2>1, <2>2 DEF Held, Presented, Accepts, Live, Opens
<1> QED BY <1>2, <1>3

LEMMA TickIsTick ==
  ASSUME IInv, Tick
  PROVE  Stateful!Tick
<1>1. clock' = clock + 1 /\ UNCHANGED <<process, issued, login, vouched>>
  BY DEF Tick
<1>2. clock' \in Int /\ clock <= clock'
  BY <1>1 DEF IInv, TypeOK
<1>3. ASSUME NEW typ \in FlowTypes
      PROVE  /\ Held(typ)' \subseteq {t \in Held(typ) : clock' < t.mintedAt + TTL(typ)}
             /\ {t \in Held(typ) : clock' + PerSecond <= t.mintedAt + TTL(typ)}
                  \subseteq Held(typ)'
  BY <1>1, <1>2, KeyStays, HeldLapse
<1>4. \A client, t : View(client, t).since = t.mintedAt
  BY DEF View
<1>5. Stateful!Lapse(Consents, Consents', CodeTTL, clock')
  <2>1. /\ Consents = {View(t.data.challenge, t) : t \in Held("auth_code")}
        /\ Consents' = {View(t.data.challenge, t) : t \in Held("auth_code")'}
    BY DEF Consents, Held, View
  <2>2. /\ Held("auth_code")' \subseteq
             {t \in Held("auth_code") : clock' < t.mintedAt + CodeTTL}
        /\ {t \in Held("auth_code") : clock' + PerSecond <= t.mintedAt + CodeTTL}
             \subseteq Held("auth_code")'
    BY <1>3 DEF FlowTypes, TTL
  <2> QED BY <1>4, <2>1, <2>2 DEF Stateful!Lapse
<1>6. Stateful!Lapse(OpenSessions, OpenSessions', AccessTTL, clock')
  <2>1. /\ OpenSessions = {View(t.data.redeemer, t) : t \in Held("access_token")}
        /\ OpenSessions' = {View(t.data.redeemer, t) : t \in Held("access_token")'}
    BY DEF OpenSessions, Held, View, Serves
  <2>2. /\ Held("access_token")' \subseteq
             {t \in Held("access_token") : clock' < t.mintedAt + AccessTTL}
        /\ {t \in Held("access_token") : clock' + PerSecond <= t.mintedAt + AccessTTL}
             \subseteq Held("access_token")'
    BY <1>3 DEF FlowTypes, TTL
  <2> QED BY <1>4, <2>1, <2>2 DEF Stateful!Lapse
<1> QED BY <1>1, <1>5, <1>6, TablesStay DEF Stateful!Tick

\* Under a key of its own the new process opens nothing of the old one's.
LEMMA RestartIsRestart ==
  ASSUME IInv, Restart
  PROVE  Stateful!Restart
<1>1. /\ process' = process + 1 /\ login' = [h \in Submits |-> IdleLogin]
      /\ UNCHANGED <<clock, issued, vouched>>
  BY DEF Restart
<1>2. Logins' = {}
  BY <1>1, IdleLoginType DEF Logins
<1>3. CASE SecretConfigured
  <2>1. Key' = Key
    BY <1>3, KeyStays
  <2>2. Started' = Started /\ Consents' = Consents /\ OpenSessions' = OpenSessions
    BY <1>1, <2>1 DEF Started, Consents, OpenSessions, Serves, Presented, Accepts, Live,
       Opens, View
  <2> QED BY <1>1, <1>2, <1>3, <2>2 DEF Stateful!Restart
<1>4. CASE ~SecretConfigured
  <2>1. ASSUME NEW token \in issued PROVE ~Opens(Key, token)'
    <3>1. /\ token.key = token.data.bornIn /\ token.data.bornIn <= process
          /\ token.data.bornIn \in Nat /\ process \in Nat
      BY <1>4 DEF IInv, TypeOK, Token, Payload, TokenOK
    <3> QED BY <1>1, <1>4, <3>1 DEF Opens, Key
  <2>2. Started' = {} /\ Consents' = {} /\ OpenSessions' = {}
    BY <1>1, <2>1 DEF Started, Consents, OpenSessions, Serves, Presented, Accepts, Live
  <2> QED BY <1>1, <1>2, <1>4, <2>2 DEF Stateful!Restart
<1> QED BY <1>3, <1>4

LEMMA StatefulStep == IInv /\ [Next]_vars => [Stateful!Next]_(Stateful!vars)
<1> SUFFICES ASSUME IInv, [Next]_vars PROVE Stateful!Next \/ UNCHANGED Stateful!vars
  OBVIOUS
<1>1. ASSUME NEW c \in Clients, ClientStep(c)
      PROVE  Stateful!Next \/ UNCHANGED Stateful!vars
  <2>1. CASE Register(c)
    BY <2>1, RegisterUnseen
  <2>2. CASE Authorize(c)
    BY <2>2, AuthorizeIsStart DEF Stateful!Next
  <2>3. CASE \E owner \in Clients, uri \in URIs : Redeem(c, owner, uri)
    BY <2>3, RedeemIsOpen DEF Stateful!Next
  <2> QED BY <1>1, <2>1, <2>2, <2>3 DEF ClientStep
<1>2. ASSUME NEW h \in Submits, LoginStep(h) PROVE Stateful!Next
  <2>1. CASE \E apiToken \in ApiTokens, mode \in Modes : SubmitLogin(h, apiToken, mode)
    BY <2>1, SubmitIsSubmit DEF Stateful!Next
  <2>2. CASE LoginAccepted(h)
    BY <2>2, AcceptedIsConsent DEF Stateful!Next
  <2>3. CASE LoginRefused(h)
    BY <2>3, RefusedIsRefuse DEF Stateful!Next
  <2> QED BY <1>2, <2>1, <2>2, <2>3 DEF LoginStep
<1>3. CASE Restart
  BY <1>3, RestartIsRestart DEF Stateful!Next
<1>4. CASE Tick
  BY <1>4, TickIsTick DEF Stateful!Next
<1>5. CASE UNCHANGED vars
  BY <1>5, TablesStay DEF vars, Stateful!vars
<1> QED BY <1>1, <1>2, <1>3, <1>4, <1>5 DEF Next

\* The server keeps nothing of a sign-in and yet behaves as one that keeps a
\* table of sign-ins, consents and sessions, for any clients, lifetimes, key
\* policy and number of restarts.
THEOREM ActsAsStatefulHolds == Spec => ActsAsStateful
  BY StatefulInit, StatefulStep, InvariantHolds, PTL
     DEF Spec, ActsAsStateful, Stateful!Spec
=============================================================================
