--------------------------- MODULE BlackduckClient ---------------------------
(***************************************************************************)
(* The Black Duck API client (src/internal/infra/blackduck/client.go): the *)
(* bearer cache all sessions share, and the calls (GetJSON, PutJSON,       *)
(* DeleteJSON, CurrentUser, CurrentVersion) that run concurrently over it. *)
(*                                                                         *)
(* Every call goes lookup -> [exchange] -> request; when the request is    *)
(* answered 401 or 403 it goes once more, forced -> exchange -> request.   *)
(* A message to Black Duck and its answer are separate steps, so other     *)
(* calls, time, and a lost answer come between them.  Black Duck is not    *)
(* trusted to do anything in particular, except that it never accepts a    *)
(* bearer after its expiry and does nothing for a request it refuses.      *)
(* That it accepts a request says that it took the operation on, not that  *)
(* it is carried out: 202 Accepted is a success to the client (client.go:  *)
(* 321, 408), and a deleted project may be seen a while longer             *)
(* (skills/blackduck-customer-service/SKILL.md:136).                       *)
(*                                                                         *)
(* Time is a global clock in abstract units.  Code between two network or  *)
(* lock operations takes no time; a wait for the mutex, before the lookup  *)
(* or after the answer to an exchange, takes at most LockDelay; an HTTP    *)
(* exchange ends with http.Client's Timeout, which covers reading the      *)
(* body, or with the context its caller gave the call, whichever is first. *)
(***************************************************************************)
EXTENDS Integers

CONSTANTS
  Calls,           \* the calls the process ever serves
  ApiTokens,       \* non-blank API tokens of the sessions
  None,            \* absent map entry, bearer or token
  Margin,          \* client.go:92, refresh that long before expiry (30s)
  RequestTimeout,  \* http.Client Timeout (15s)
  LockDelay,       \* longest wait for Client.mu
  Contexts,        \* what is left of a caller's context when it calls
  Lifetimes,       \* expiresInMilliseconds values Black Duck may report
  MaxClock         \* bound of the model: the clock stops here

\* A bearer as Black Duck knows it: whose it is, and when it stops working.
Bearer == [owner : ApiTokens, exp : Int]

\* type cachedBearer: the token and the expiry the client computed for it.
Entry == [bearer : Bearer, expiresAt : Int]

ASSUME TimingAssumption ==
  /\ Margin \in Nat /\ RequestTimeout \in Nat
  /\ LockDelay \in Nat /\ MaxClock \in Nat
  /\ LockDelay + RequestTimeout <= Margin

ASSUME LifetimesAssumption == Lifetimes \subseteq Int

ASSUME ContextsAssumption == Contexts \subseteq Nat

ASSUME NoneAssumption == None \notin Bearer /\ None \notin Entry
                         /\ None \notin ApiTokens

VARIABLES
  clock,
  bearerCache,  \* Client.bearerCache, None where the map has no entry
  call,         \* the local state of each call
  accepted,     \* upstream: how often each call's operation was taken on
  orphan        \* upstream: calls whose abandoned request may yet be accepted

vars == <<clock, bearerCache, call, accepted, orphan>>

CallState ==
  [pc        : {"idle", "lookup", "exchange", "request", "done"},
   tok       : ApiTokens \cup {None},
   deadline  : Nat,                   \* the end of the caller's context
   now       : Nat,                   \* client.go:84
   until     : Nat,                   \* when the present wait ends at last
   forced    : BOOLEAN,               \* authenticate's force: the retry
   fromCache : BOOLEAN,               \* the bearer in use was a cache hit
   bearer    : Bearer \cup {None},    \* the bearer in use or just received
   expires   : Int,                   \* lifetime reported with that bearer
   reply     : {"none", "ok", "refused"},
   result    : {"none", "ok", "refused", "error"}]

IdleCall ==
  [pc |-> "idle", tok |-> None, deadline |-> 0, now |-> 0, until |-> 0,
   forced |-> FALSE, fromCache |-> FALSE, bearer |-> None, expires |-> 0,
   reply |-> "none", result |-> "none"]

Waiting == {"lookup", "exchange", "request"}

TypeOK ==
  /\ clock \in Nat
  /\ bearerCache \in [ApiTokens -> Entry \cup {None}]
  /\ call \in [Calls -> CallState]
  /\ accepted \in [Calls -> Nat]
  /\ orphan \in [Calls -> BOOLEAN]

Init ==
  /\ clock = 0
  /\ bearerCache = [t \in ApiTokens |-> None]
  /\ call = [c \in Calls |-> IdleCall]
  /\ accepted = [c \in Calls |-> 0]
  /\ orphan = [c \in Calls |-> FALSE]

\* A message in flight.  When the context is over nothing is sent: Do fails.
InFlight(c) == /\ call[c].pc \in {"exchange", "request"}
               /\ call[c].reply = "none"

Reachable(c) == InFlight(c) /\ clock <= call[c].until

\* A faulty variant of the next definition, as those further down: the
\* messages are made without the caller's context.
FaultyHttpEnd(deadline) == clock + RequestTimeout

\* How long http.Do and the reading of the body may take from here on.
HttpEnd(deadline) ==
  IF clock + RequestTimeout <= deadline THEN clock + RequestTimeout ELSE deadline

-----------------------------------------------------------------------------
(* What a call does next, as the new value of its local state.             *)

SendRequest(s, b, cached) ==
  [s EXCEPT !.pc = "request", !.until = HttpEnd(s.deadline), !.bearer = b,
            !.fromCache = cached, !.reply = "none"]

SendExchange(s) ==
  [s EXCEPT !.pc = "exchange", !.until = HttpEnd(s.deadline), !.bearer = None,
            !.fromCache = FALSE, !.reply = "none"]

\* The answer to an exchange is in; what it says of the bearer needs the lock.
AwaitLock(s, r) == [s EXCEPT !.reply = r, !.until = clock + LockDelay]

\* The call returns to its caller and its locals are gone.
Return(c, r) ==
  call' = [call EXCEPT ![c] = [IdleCall EXCEPT !.pc = "done", !.result = r]]

-----------------------------------------------------------------------------
(* Faulty variants of the definitions below, each a plausible slip in the  *)
(* code.  Nothing uses them: they show that the properties can fail.       *)

\* The margin of client.go:92 is forgotten.
FaultyUsable(entry, now) == entry # None /\ now < entry.expiresAt

\* The cache has one slot instead of one per API token.
FaultyExchangeStored(c) ==
  /\ call[c].pc = "exchange" /\ call[c].reply = "ok"
  /\ bearerCache' = [t \in ApiTokens |->
                       [bearer    |-> call[c].bearer,
                        expiresAt |-> call[c].now + call[c].expires]]
  /\ call' = [call EXCEPT ![c] = SendRequest(@, @.bearer, FALSE)]
  /\ UNCHANGED <<clock, accepted, orphan>>

\* A zero cachedBearer is stored where the entry should be deleted.
FaultyExchangeRefused(c) ==
  /\ call[c].pc = "exchange" /\ call[c].reply = "refused"
  /\ bearerCache' = [bearerCache EXCEPT ![call[c].tok] =
                       [bearer |-> None, expiresAt |-> 0]]
  /\ Return(c, "refused")
  /\ UNCHANGED <<clock, accepted, orphan>>

\* The retry is a loop with no end.
FaultyRetryForced(c) ==
  /\ call[c].pc = "request" /\ call[c].reply = "refused"
  /\ call' = [call EXCEPT ![c] =
                [SendExchange(@) EXCEPT !.forced = TRUE, !.now = clock]]
  /\ UNCHANGED <<clock, bearerCache, accepted, orphan>>

\* The first refusal is returned to the caller.
FaultyRequestRefused(c) ==
  /\ call[c].pc = "request" /\ call[c].reply = "refused"
  /\ Return(c, "refused")
  /\ UNCHANGED <<clock, bearerCache, accepted, orphan>>

\* Any error of the first request is retried, not only 401 and 403.
FaultyFail(c) ==
  /\ InFlight(c) \/ call[c].pc = "request"
  /\ IF call[c].pc = "request" /\ ~call[c].forced
     THEN call' = [call EXCEPT ![c] =
                    [SendExchange(@) EXCEPT !.forced = TRUE, !.now = clock]]
     ELSE Return(c, "error")
  /\ orphan' = [orphan EXCEPT ![c] =
                  call[c].pc = "request" /\ Reachable(c)]
  /\ UNCHANGED <<clock, bearerCache, accepted>>

-----------------------------------------------------------------------------
(* authenticate                                                            *)

\* `now` is read here, before the mutex is taken.  The context is one the
\* caller made for this call or, in users_update, has spent on a first one.
Begin(c, tok, left) ==
  /\ call[c].pc = "idle"
  /\ clock + left + LockDelay <= MaxClock   \* bound: leave the call time to end
  /\ call' = [call EXCEPT ![c] = [IdleCall EXCEPT
                !.pc = "lookup", !.tok = tok, !.deadline = clock + left,
                !.now = clock, !.until = clock + LockDelay]]
  /\ UNCHANGED <<clock, bearerCache, accepted, orphan>>

\* A session without a token (a public MCP request) is refused at once.
BeginBlank(c) ==
  /\ call[c].pc = "idle"
  /\ Return(c, "refused")
  /\ UNCHANGED <<clock, bearerCache, accepted, orphan>>

Usable(entry, now) == entry # None /\ now < entry.expiresAt - Margin

CacheHit(c) ==
  /\ call[c].pc = "lookup"
  /\ Usable(bearerCache[call[c].tok], call[c].now)
  /\ call' = [call EXCEPT ![c] =
                SendRequest(@, bearerCache[call[c].tok].bearer, TRUE)]
  /\ UNCHANGED <<clock, bearerCache, accepted, orphan>>

CacheMiss(c) ==
  /\ call[c].pc = "lookup"
  /\ ~Usable(bearerCache[call[c].tok], call[c].now)
  /\ call' = [call EXCEPT ![c] = SendExchange(@)]
  /\ UNCHANGED <<clock, bearerCache, accepted, orphan>>

\* 200 with a bearer: cached with an expiry counted from `now`, not from the
\* moment Black Duck issued it, and used for the request.
ExchangeStored(c) ==
  /\ call[c].pc = "exchange" /\ call[c].reply = "ok"
  /\ bearerCache' = [bearerCache EXCEPT ![call[c].tok] =
                       [bearer    |-> call[c].bearer,
                        expiresAt |-> call[c].now + call[c].expires]]
  /\ call' = [call EXCEPT ![c] = SendRequest(@, @.bearer, FALSE)]
  /\ UNCHANGED <<clock, accepted, orphan>>

\* 401 or 403: whatever is cached for the token goes.
ExchangeRefused(c) ==
  /\ call[c].pc = "exchange" /\ call[c].reply = "refused"
  /\ bearerCache' = [bearerCache EXCEPT ![call[c].tok] = None]
  /\ Return(c, "refused")
  /\ UNCHANGED <<clock, accepted, orphan>>

-----------------------------------------------------------------------------
(* GetJSON, PutJSON, DeleteJSON                                            *)

RequestDone(c) ==
  /\ call[c].pc = "request" /\ call[c].reply = "ok"
  /\ Return(c, "ok")
  /\ UNCHANGED <<clock, bearerCache, accepted, orphan>>

\* "If the cached bearer token expired (or was revoked), refresh once and
\* retry": the first refusal, and only that one, forces a new exchange.
RetryForced(c) ==
  /\ call[c].pc = "request" /\ call[c].reply = "refused"
  /\ ~call[c].forced
  /\ call' = [call EXCEPT ![c] =
                [SendExchange(@) EXCEPT !.forced = TRUE, !.now = clock]]
  /\ UNCHANGED <<clock, bearerCache, accepted, orphan>>

RequestRefused(c) ==
  /\ call[c].pc = "request" /\ call[c].reply = "refused"
  /\ call[c].forced
  /\ Return(c, "refused")
  /\ UNCHANGED <<clock, bearerCache, accepted, orphan>>

\* Every other end of a message in flight: connection error, timeout, the
\* caller's context done, another status, a body that cannot be read or
\* decoded (for an exchange: an empty bearerToken).  No retry, and the cache
\* stays.  A request that was sent and not answered may be accepted later.
Fail(c) ==
  /\ InFlight(c) \/ call[c].pc = "request"
  /\ Return(c, "error")
  /\ orphan' = [orphan EXCEPT ![c] = call[c].pc = "request" /\ Reachable(c)]
  /\ UNCHANGED <<clock, bearerCache, accepted>>

TimeOut(c) == Fail(c) /\ call[c].until <= clock

-----------------------------------------------------------------------------
(* Black Duck and time                                                     *)

UpstreamIssues(c) ==
  /\ call[c].pc = "exchange" /\ Reachable(c)
  /\ \E life \in Lifetimes :
       call' = [call EXCEPT ![c] = [AwaitLock(@, "ok") EXCEPT
                  !.bearer  = [owner |-> call[c].tok, exp |-> clock + life],
                  !.expires = life]]
  /\ UNCHANGED <<clock, bearerCache, accepted, orphan>>

\* The answer is a success: done (200, 201, 204) or queued (202).
UpstreamAccepts(c) ==
  /\ call[c].pc = "request" /\ Reachable(c)
  /\ clock < call[c].bearer.exp
  /\ call' = [call EXCEPT ![c].reply = "ok"]
  /\ accepted' = [accepted EXCEPT ![c] = @ + 1]
  /\ UNCHANGED <<clock, bearerCache, orphan>>

\* The API token or the bearer is expired, revoked or lacks the permission.
UpstreamRefuses(c) ==
  /\ Reachable(c)
  /\ call' = [call EXCEPT ![c] = IF @.pc = "exchange" THEN AwaitLock(@, "refused")
                                 ELSE [@ EXCEPT !.reply = "refused"]]
  /\ UNCHANGED <<clock, bearerCache, accepted, orphan>>

UpstreamAcceptsLate(c) ==
  /\ orphan[c]
  /\ accepted' = [accepted EXCEPT ![c] = @ + 1]
  /\ orphan' = [orphan EXCEPT ![c] = FALSE]
  /\ UNCHANGED <<clock, bearerCache, call>>

\* Time waits for nobody but the delays it is bounded by.
Tick ==
  /\ clock < MaxClock
  /\ \A c \in Calls : call[c].pc \in Waiting => clock < call[c].until
  /\ clock' = clock + 1
  /\ UNCHANGED <<bearerCache, call, accepted, orphan>>

-----------------------------------------------------------------------------

CallStep(c) ==
  \/ \E tok \in ApiTokens, left \in Contexts : Begin(c, tok, left)
  \/ BeginBlank(c)
  \/ CacheHit(c) \/ CacheMiss(c)
  \/ ExchangeStored(c) \/ ExchangeRefused(c)
  \/ RequestDone(c) \/ RetryForced(c) \/ RequestRefused(c)
  \/ Fail(c)

UpstreamStep(c) ==
  \/ UpstreamIssues(c) \/ UpstreamAccepts(c)
  \/ UpstreamRefuses(c) \/ UpstreamAcceptsLate(c)

Next == Tick \/ \E c \in Calls : CallStep(c) \/ UpstreamStep(c)

Spec == Init /\ [][Next]_vars

\* The process runs its goroutines, the mutex is granted, http.Client's timer
\* fires.  Nothing is assumed of Black Duck, and no call is obliged to begin.
Fairness ==
  /\ WF_vars(Tick)
  /\ \A c \in Calls :
       /\ WF_vars(CacheHit(c) \/ CacheMiss(c))
       /\ WF_vars(ExchangeStored(c) \/ ExchangeRefused(c))
       /\ WF_vars(RequestDone(c) \/ RetryForced(c) \/ RequestRefused(c))
       /\ WF_vars(TimeOut(c))

FairSpec == Spec /\ Fairness

-----------------------------------------------------------------------------
(* What must hold.                                                         *)

\* "Refresh a little early to avoid edge expiry" (client.go:91): a bearer
\* taken from the cache cannot reach its expiry before the answer to the
\* request that carries it is back or given up, although the hit is decided
\* with a time read before the mutex and the expiry is the client's guess.
NoEdgeExpiry ==
  \A c \in Calls :
    call[c].pc = "request" /\ call[c].fromCache => clock < call[c].bearer.exp

\* One session never acts with another session's identity: the bearer a call
\* sends was issued to the call's own API token (client.go:83, the cache key),
\* and the cache holds under a token only bearers issued to it.
CredentialIsolation ==
  /\ \A c \in Calls :
       call[c].pc = "request" => call[c].bearer.owner = call[c].tok
  /\ \A t \in ApiTokens :
       bearerCache[t] # None => bearerCache[t].bearer.owner = t

\* A call is back when its caller's context is over, or one wait for the
\* mutex later: no mutex knows the context.  Two exchanges, two requests and
\* three waits for the mutex are more than the 60s of the longest context
\* (client.go:158-225 with 15s each), so it is the context, handed to every
\* message, and not http.Client's Timeout that bounds the forced retry, and
\* the two calls users_update makes under one context (tools.go:1049-1063).
BoundedDuration ==
  \A c \in Calls :
    call[c].pc \in Waiting => clock <= call[c].deadline + LockDelay

\* A request that is refused ends the call only when its bearer was obtained
\* by this very call, in a forced exchange: one that was revoked, or brought
\* back into the cache by a late exchange, costs a retry and never the call.
CachedBearerNeverDecides ==
  [][\A c \in Calls :
       call[c].pc = "request" /\ call'[c].result = "refused" =>
         ~call[c].fromCache /\ call[c].forced]_vars

\* Black Duck takes the operation of a call on at most once, and what the
\* caller is told agrees with it, whatever is retried (client.go:169,192,215)
\* or lost.
OutcomeOf(s) == IF s.pc = "idle" THEN "idle"
                ELSE IF s.pc = "done" THEN s.result ELSE "running"

Promise == INSTANCE AtMostOnceCall
             WITH outcome <- [c \in Calls |-> OutcomeOf(call[c])],
                  accepted <- accepted

AcceptedAtMostOnce == Promise!Spec

\* Every call comes back to its caller, whatever Black Duck does.
EveryCallReturns ==
  \A c \in Calls : call[c].pc = "lookup" ~> call[c].pc = "done"
=============================================================================
