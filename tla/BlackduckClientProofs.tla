------------------------ MODULE BlackduckClientProofs ------------------------
(***************************************************************************)
(* Safety of BlackduckClient, for any number of concurrent calls, any API  *)
(* tokens, any lifetimes, any contexts and any delays with                 *)
(* LockDelay + RequestTimeout <= Margin.                                   *)
(*                                                                         *)
(* The inductive invariant says what each stage of a call has established: *)
(* until when it waits (TimeOK), which bearer it holds and how long that   *)
(* lasts (HoldsOK), what Black Duck has taken on for it (AcceptedOK); and  *)
(* that the cache never overrates a bearer (CacheOK).                      *)
(***************************************************************************)
EXTENDS BlackduckClient, TLAPS

\* s is the local state of a call, t the clock.
TimeOK(s, t) ==
  /\ s.pc \in Waiting =>
       t <= s.deadline + LockDelay /\ s.until <= s.deadline + LockDelay
  /\ s.pc = "lookup" =>
       ~s.forced /\ s.now <= t /\ t <= s.until /\ s.until = s.now + LockDelay
  /\ s.pc = "exchange" => s.now <= t
  /\ s.pc \in {"exchange", "request"} /\ s.reply = "none" => s.until <= s.deadline
  /\ s.pc = "request" /\ s.fromCache => s.until < s.bearer.exp /\ t < s.bearer.exp

HoldsOK(s) ==
  /\ s.pc \in Waiting => s.tok \in ApiTokens
  /\ s.pc = "exchange" /\ s.reply = "ok" =>
       /\ s.bearer \in Bearer
       /\ s.bearer.owner = s.tok
       /\ s.now + s.expires <= s.bearer.exp
  /\ s.pc = "request" => s.bearer \in Bearer /\ s.bearer.owner = s.tok
  /\ s.pc = "request" /\ s.fromCache => ~s.forced

\* n is how often the call's operation was taken on, o whether it still may be.
AcceptedOK(s, n, o) ==
  /\ n \in {0, 1}
  /\ s.pc \in {"idle", "lookup", "exchange"} => n = 0
  /\ s.pc = "request" => (n = 1 <=> s.reply = "ok")
  /\ s.pc = "done" => /\ s.result # "none"
                      /\ s.result = "ok" => n = 1
                      /\ s.result = "refused" => n = 0
  /\ s.pc # "done" => s.result = "none"
  /\ o => s.pc = "done" /\ s.result = "error" /\ n = 0

CacheOK(cache) ==
  \A t \in ApiTokens :
    cache[t] # None => /\ cache[t].bearer.owner = t
                       /\ cache[t].expiresAt <= cache[t].bearer.exp

CallsOK == \A c \in Calls : /\ TimeOK(call[c], clock)
                            /\ HoldsOK(call[c])
                            /\ AcceptedOK(call[c], accepted[c], orphan[c])

IInv == TypeOK /\ CallsOK /\ CacheOK(bearerCache)

-----------------------------------------------------------------------------

USE TimingAssumption, LifetimesAssumption, ContextsAssumption, NoneAssumption

LEMMA IdleCallType == IdleCall \in CallState
  BY DEF IdleCall, CallState

\* A call that has returned satisfies the invariant if its result agrees with
\* what happened upstream.
LEMMA ReturnedOK ==
  ASSUME NEW r \in {"ok", "refused", "error"}, NEW t \in Nat,
         NEW n \in {0, 1}, NEW o \in BOOLEAN,
         r = "ok" => n = 1, r = "refused" => n = 0,
         o => r = "error" /\ n = 0
  PROVE  LET s == [IdleCall EXCEPT !.pc = "done", !.result = r]
         IN  /\ s \in CallState /\ TimeOK(s, t) /\ HoldsOK(s)
             /\ AcceptedOK(s, n, o)
<1> DEFINE s == [IdleCall EXCEPT !.pc = "done", !.result = r]
<1>1. s \in CallState /\ s.pc = "done" /\ s.result = r
  BY IdleCallType DEF CallState
<1> HIDE DEF s
<1>2. TimeOK(s, t) /\ HoldsOK(s)
  BY <1>1 DEF TimeOK, HoldsOK, Waiting
<1>3. AcceptedOK(s, n, o)
  BY <1>1 DEF AcceptedOK
<1> QED BY <1>1, <1>2, <1>3 DEF s

\* A step of one call preserves the invariant if the call's new local state
\* and the new cache are in order.
LEMMA OneCallMoves ==
  ASSUME IInv, NEW c \in Calls, NEW s \in CallState,
         call' = [call EXCEPT ![c] = s], clock' = clock,
         bearerCache' \in [ApiTokens -> Entry \cup {None}], CacheOK(bearerCache'),
         accepted' \in [Calls -> Nat], orphan' \in [Calls -> BOOLEAN],
         \A d \in Calls \ {c} : accepted'[d] = accepted[d] /\ orphan'[d] = orphan[d],
         TimeOK(s, clock), HoldsOK(s), AcceptedOK(s, accepted'[c], orphan'[c])
  PROVE  IInv'
<1>1. TypeOK'
  BY DEF IInv, TypeOK
<1>2. CallsOK'
  <2> SUFFICES ASSUME NEW d \in Calls
               PROVE  /\ TimeOK(call'[d], clock') /\ HoldsOK(call'[d])
                      /\ AcceptedOK(call'[d], accepted'[d], orphan'[d])
    BY DEF CallsOK
  <2>1. CASE d = c
    BY <2>1 DEF IInv, TypeOK
  <2>2. CASE d # c
    BY <2>2 DEF IInv, TypeOK, CallsOK
  <2> QED BY <2>1, <2>2
<1> QED BY <1>1, <1>2 DEF IInv

\* The special case of a step that changes nothing but the call.
LEMMA OnlyCallMoves ==
  ASSUME IInv, NEW c \in Calls, NEW s \in CallState,
         call' = [call EXCEPT ![c] = s],
         UNCHANGED <<clock, bearerCache, accepted, orphan>>,
         TimeOK(s, clock), HoldsOK(s), AcceptedOK(s, accepted[c], orphan[c])
  PROVE  IInv'
<1>1. /\ bearerCache' \in [ApiTokens -> Entry \cup {None}]
      /\ CacheOK(bearerCache')
      /\ accepted' \in [Calls -> Nat] /\ orphan' \in [Calls -> BOOLEAN]
  BY DEF IInv, TypeOK
<1> QED BY <1>1, OneCallMoves

\* A message is given up by its timer and by the caller's context.
LEMMA HttpEndBounded ==
  ASSUME NEW d \in Nat, clock \in Nat
  PROVE  /\ HttpEnd(d) \in Nat /\ HttpEnd(d) <= d
         /\ HttpEnd(d) <= clock + RequestTimeout
  BY TimingAssumption DEF HttpEnd

\* The helpers that move a call on keep everything they do not name.
LEMMA SendRequestFields ==
  ASSUME NEW s \in CallState, NEW b \in Bearer, NEW k \in BOOLEAN, clock \in Nat
  PROVE  /\ SendRequest(s, b, k) \in CallState
         /\ SendRequest(s, b, k).pc = "request"
         /\ SendRequest(s, b, k).until = HttpEnd(s.deadline)
         /\ SendRequest(s, b, k).bearer = b
         /\ SendRequest(s, b, k).fromCache = k
         /\ SendRequest(s, b, k).reply = "none"
         /\ SendRequest(s, b, k).tok = s.tok
         /\ SendRequest(s, b, k).deadline = s.deadline
         /\ SendRequest(s, b, k).forced = s.forced
         /\ SendRequest(s, b, k).result = s.result
<1> DEFINE q == SendRequest(s, b, k)
<1>0. s.deadline \in Nat /\ HttpEnd(s.deadline) \in Nat
  BY HttpEndBounded DEF CallState
<1>1. q \in CallState
  BY <1>0 DEF SendRequest, CallState
<1>2. /\ q.pc = "request" /\ q.until = HttpEnd(s.deadline) /\ q.bearer = b
      /\ q.fromCache = k /\ q.reply = "none"
  BY DEF SendRequest, CallState
<1>3. /\ q.tok = s.tok /\ q.deadline = s.deadline
      /\ q.forced = s.forced /\ q.result = s.result
  BY DEF SendRequest, CallState
<1> QED BY <1>1, <1>2, <1>3

LEMMA SendExchangeFields ==
  ASSUME NEW s \in CallState, clock \in Nat
  PROVE  /\ SendExchange(s) \in CallState
         /\ SendExchange(s).pc = "exchange"
         /\ SendExchange(s).until = HttpEnd(s.deadline)
         /\ SendExchange(s).reply = "none"
         /\ SendExchange(s).tok = s.tok
         /\ SendExchange(s).now = s.now
         /\ SendExchange(s).deadline = s.deadline
         /\ SendExchange(s).forced = s.forced
         /\ SendExchange(s).result = s.result
<1>1. s.deadline \in Nat /\ HttpEnd(s.deadline) \in Nat
  BY HttpEndBounded DEF CallState
<1> QED BY <1>1 DEF SendExchange, CallState

LEMMA AwaitLockFields ==
  ASSUME NEW s \in CallState, NEW r \in {"ok", "refused"}, clock \in Nat
  PROVE  LET q == AwaitLock(s, r)
         IN  /\ q \in CallState /\ q.reply = r /\ q.until = clock + LockDelay
             /\ q.pc = s.pc /\ q.tok = s.tok /\ q.deadline = s.deadline
             /\ q.now = s.now /\ q.forced = s.forced /\ q.fromCache = s.fromCache
             /\ q.bearer = s.bearer /\ q.result = s.result
<1> DEFINE t == clock + LockDelay
           q == [s EXCEPT !.reply = r, !.until = t]
<1>1. t \in Nat
  BY TimingAssumption
<1> HIDE DEF t
<1>2. q \in CallState
  BY <1>1 DEF CallState
<1>3. /\ q.reply = r /\ q.until = t /\ q.pc = s.pc /\ q.tok = s.tok
      /\ q.deadline = s.deadline /\ q.now = s.now
  BY DEF CallState
<1>4. /\ q.forced = s.forced /\ q.fromCache = s.fromCache
      /\ q.bearer = s.bearer /\ q.result = s.result
  BY DEF CallState
<1>5. AwaitLock(s, r) = q
  BY DEF AwaitLock, t
<1> HIDE DEF q
<1> QED BY <1>2, <1>3, <1>4, <1>5 DEF t

\* A step that ends a call preserves the invariant when the result agrees
\* with what happened upstream.
LEMMA OneCallReturns ==
  ASSUME IInv, NEW c \in Calls, NEW r \in {"ok", "refused", "error"},
         Return(c, r), UNCHANGED <<clock, accepted>>,
         bearerCache' \in [ApiTokens -> Entry \cup {None}], CacheOK(bearerCache'),
         orphan' \in [Calls -> BOOLEAN],
         \A d \in Calls \ {c} : orphan'[d] = orphan[d],
         r = "ok" => accepted[c] = 1, r = "refused" => accepted[c] = 0,
         orphan'[c] => r = "error" /\ accepted[c] = 0
  PROVE  IInv'
<1> DEFINE s == [IdleCall EXCEPT !.pc = "done", !.result = r]
<1>1. clock \in Nat /\ accepted[c] \in {0, 1} /\ orphan'[c] \in BOOLEAN
  BY DEF IInv, TypeOK, CallsOK, AcceptedOK
<1>2. /\ s \in CallState /\ TimeOK(s, clock) /\ HoldsOK(s)
      /\ AcceptedOK(s, accepted[c], orphan'[c])
  BY <1>1, ReturnedOK
<1>3. call' = [call EXCEPT ![c] = s]
  BY DEF Return
<1>4. accepted' \in [Calls -> Nat] /\ accepted' = accepted
  BY DEF IInv, TypeOK
<1> HIDE DEF s
<1> QED BY <1>2, <1>3, <1>4, OneCallMoves

-----------------------------------------------------------------------------
(* Preservation, action by action.                                         *)

LEMMA InitIInv == Init => IInv
<1> SUFFICES ASSUME Init PROVE IInv
  OBVIOUS
<1>1. IdleCall.pc = "idle" /\ IdleCall.result = "none"
  BY DEF IdleCall
<1>2. TypeOK
  BY IdleCallType DEF Init, TypeOK
<1>3. CallsOK
  BY <1>1 DEF Init, CallsOK, TimeOK, HoldsOK, AcceptedOK, Waiting
<1>4. CacheOK(bearerCache)
  BY DEF Init, CacheOK
<1> QED BY <1>2, <1>3, <1>4 DEF IInv

LEMMA BeginIInv ==
  ASSUME IInv, NEW c \in Calls, NEW tok \in ApiTokens, NEW left \in Contexts,
         Begin(c, tok, left)
  PROVE  IInv'
<1> DEFINE d == clock + left
           u == clock + LockDelay
           s == [IdleCall EXCEPT !.pc = "lookup", !.tok = tok, !.deadline = d,
                                 !.now = clock, !.until = u]
<1>1. clock \in Nat /\ left \in Nat /\ d \in Nat /\ u \in Nat
  BY ContextsAssumption, TimingAssumption DEF IInv, TypeOK
<1>2. /\ s \in CallState /\ s.pc = "lookup" /\ s.tok = tok
      /\ s.deadline = clock + left /\ s.now = clock /\ s.until = clock + LockDelay
      /\ s.forced = IdleCall.forced /\ s.result = IdleCall.result
  <2> HIDE DEF d, u
  <2>1. s \in CallState
    BY <1>1, IdleCallType DEF CallState
  <2>2. /\ s.pc = "lookup" /\ s.tok = tok /\ s.deadline = d /\ s.now = clock
        /\ s.until = u
    BY IdleCallType DEF CallState
  <2>3. s.forced = IdleCall.forced /\ s.result = IdleCall.result
    BY IdleCallType DEF CallState
  <2> QED BY <2>1, <2>2, <2>3 DEF d, u
<1>3. IdleCall.forced = FALSE /\ IdleCall.result = "none"
  BY DEF IdleCall
<1>4. call' = [call EXCEPT ![c] = s] /\ UNCHANGED <<clock, bearerCache, accepted, orphan>>
  BY DEF Begin
<1> HIDE DEF s
<1>5. TimeOK(s, clock) /\ HoldsOK(s)
  BY <1>1, <1>2, <1>3, TimingAssumption DEF TimeOK, HoldsOK, Waiting
<1>6. AcceptedOK(call[c], accepted[c], orphan[c]) /\ call[c].pc = "idle"
  BY DEF IInv, CallsOK, Begin
<1>7. AcceptedOK(s, accepted[c], orphan[c])
  BY <1>2, <1>3, <1>6 DEF AcceptedOK
<1> QED BY <1>2, <1>4, <1>5, <1>7, OnlyCallMoves

LEMMA CacheHitIInv ==
  ASSUME IInv, NEW c \in Calls, CacheHit(c)
  PROVE  IInv'
<1> DEFINE e == bearerCache[call[c].tok]
           s == SendRequest(call[c], e.bearer, TRUE)
<1>1. /\ call[c] \in CallState /\ clock \in Nat /\ call[c].pc = "lookup"
      /\ TimeOK(call[c], clock) /\ HoldsOK(call[c])
      /\ AcceptedOK(call[c], accepted[c], orphan[c])
  BY DEF IInv, TypeOK, CallsOK, CacheHit
<1>2. call[c].tok \in ApiTokens
  BY <1>1 DEF HoldsOK, Waiting
<1>3. /\ e # None /\ call[c].now < e.expiresAt - Margin
  BY DEF CacheHit, Usable
<1>4. /\ e \in Entry /\ e.bearer.owner = call[c].tok
      /\ e.expiresAt <= e.bearer.exp
  BY <1>2, <1>3 DEF IInv, TypeOK, CacheOK
<1>5. e.bearer \in Bearer /\ e.expiresAt \in Int /\ e.bearer.exp \in Int
  BY <1>4 DEF Entry, Bearer
<1>6. /\ call[c].now \in Nat /\ call[c].deadline \in Nat
      /\ clock <= call[c].deadline + LockDelay
      /\ ~call[c].forced /\ clock <= call[c].now + LockDelay /\ call[c].result = "none"
  BY <1>1 DEF TimeOK, AcceptedOK, CallState, Waiting
<1>7. clock + RequestTimeout < e.bearer.exp
  BY <1>1, <1>3, <1>4, <1>5, <1>6, TimingAssumption
<1>8. /\ s \in CallState /\ s.pc = "request" /\ s.until = HttpEnd(call[c].deadline)
      /\ s.bearer = e.bearer /\ s.fromCache = TRUE /\ s.reply = "none"
      /\ s.tok = call[c].tok /\ s.deadline = call[c].deadline
      /\ s.forced = call[c].forced /\ s.result = call[c].result
  <2> DEFINE k == TRUE
  <2>1. k \in BOOLEAN
    OBVIOUS
  <2>2. s = SendRequest(call[c], e.bearer, k)
    OBVIOUS
  <2> HIDE DEF k, s, e
  <2>3. /\ s \in CallState /\ s.pc = "request" /\ s.until = HttpEnd(call[c].deadline)
        /\ s.bearer = e.bearer /\ s.fromCache = k /\ s.reply = "none"
        /\ s.tok = call[c].tok /\ s.deadline = call[c].deadline
        /\ s.forced = call[c].forced /\ s.result = call[c].result
    BY <1>1, <1>5, <2>1, <2>2, SendRequestFields
  <2> QED BY <2>3 DEF k
<1>9. /\ call' = [call EXCEPT ![c] = s]
      /\ UNCHANGED <<clock, bearerCache, accepted, orphan>>
  BY DEF CacheHit
<1> HIDE DEF s
<1>10. TimeOK(s, clock)
  <2>1. /\ s.until \in Nat /\ s.until <= s.deadline
        /\ s.until <= clock + RequestTimeout
    BY <1>1, <1>6, <1>8, HttpEndBounded
  <2> QED BY <1>1, <1>5, <1>6, <1>7, <1>8, <2>1, TimingAssumption DEF TimeOK, Waiting
<1>11. HoldsOK(s)
  BY <1>2, <1>4, <1>5, <1>6, <1>8 DEF HoldsOK, Waiting
<1>12. AcceptedOK(s, accepted[c], orphan[c])
  BY <1>1, <1>6, <1>8 DEF AcceptedOK
<1> QED BY <1>8, <1>9, <1>10, <1>11, <1>12, OnlyCallMoves

LEMMA BeginBlankIInv ==
  ASSUME IInv, NEW c \in Calls, BeginBlank(c)
  PROVE  IInv'
<1>1. call[c].pc = "idle" /\ Return(c, "refused")
      /\ UNCHANGED <<clock, bearerCache, accepted, orphan>>
  BY DEF BeginBlank
<1>2. accepted[c] = 0 /\ ~orphan[c]
  BY <1>1 DEF IInv, CallsOK, AcceptedOK
<1>3. /\ bearerCache' \in [ApiTokens -> Entry \cup {None}] /\ CacheOK(bearerCache')
      /\ orphan' \in [Calls -> BOOLEAN]
  BY <1>1 DEF IInv, TypeOK
<1> QED BY <1>1, <1>2, <1>3, OneCallReturns

LEMMA CacheMissIInv ==
  ASSUME IInv, NEW c \in Calls, CacheMiss(c)
  PROVE  IInv'
<1> DEFINE s == SendExchange(call[c])
<1>1. /\ call[c] \in CallState /\ clock \in Nat /\ call[c].pc = "lookup"
      /\ TimeOK(call[c], clock) /\ HoldsOK(call[c])
      /\ AcceptedOK(call[c], accepted[c], orphan[c])
  BY DEF IInv, TypeOK, CallsOK, CacheMiss
<1>2. /\ call[c].now \in Nat /\ call[c].deadline \in Nat
      /\ call[c].tok \in ApiTokens
  BY <1>1 DEF CallState, HoldsOK, Waiting
<1>3. /\ s \in CallState /\ s.pc = "exchange" /\ s.until = HttpEnd(call[c].deadline)
      /\ s.reply = "none" /\ s.tok = call[c].tok /\ s.now = call[c].now
      /\ s.deadline = call[c].deadline /\ s.forced = call[c].forced
      /\ s.result = call[c].result
  BY <1>1, SendExchangeFields
<1>4. /\ call' = [call EXCEPT ![c] = s]
      /\ UNCHANGED <<clock, bearerCache, accepted, orphan>>
  BY DEF CacheMiss
<1> HIDE DEF s
<1>5. TimeOK(s, clock)
  <2>1. s.until \in Nat /\ s.until <= s.deadline
    BY <1>1, <1>2, <1>3, HttpEndBounded
  <2> QED BY <1>1, <1>2, <1>3, <2>1, TimingAssumption DEF TimeOK, Waiting
<1>6. HoldsOK(s) /\ AcceptedOK(s, accepted[c], orphan[c])
  BY <1>1, <1>2, <1>3 DEF HoldsOK, AcceptedOK, Waiting
<1> QED BY <1>3, <1>4, <1>5, <1>6, OnlyCallMoves

LEMMA ExchangeStoredIInv ==
  ASSUME IInv, NEW c \in Calls, ExchangeStored(c)
  PROVE  IInv'
<1> DEFINE k == FALSE
           s == SendRequest(call[c], call[c].bearer, k)
           e == [bearer |-> call[c].bearer, expiresAt |-> call[c].now + call[c].expires]
<1>1. /\ call[c] \in CallState /\ clock \in Nat
      /\ call[c].pc = "exchange" /\ call[c].reply = "ok"
      /\ TimeOK(call[c], clock) /\ HoldsOK(call[c])
      /\ AcceptedOK(call[c], accepted[c], orphan[c])
  BY DEF IInv, TypeOK, CallsOK, ExchangeStored
<1>2. /\ call[c].now \in Nat /\ call[c].deadline \in Nat /\ call[c].expires \in Int
      /\ call[c].forced \in BOOLEAN
  BY <1>1 DEF CallState
<1>3. /\ call[c].tok \in ApiTokens /\ call[c].bearer \in Bearer
      /\ call[c].bearer.owner = call[c].tok
      /\ call[c].now + call[c].expires <= call[c].bearer.exp
  BY <1>1 DEF HoldsOK, Waiting
<1>4. /\ call' = [call EXCEPT ![c] = s]
      /\ bearerCache' = [bearerCache EXCEPT ![call[c].tok] = e]
      /\ UNCHANGED <<clock, accepted, orphan>>
  BY DEF ExchangeStored
<1>5. e \in Entry /\ e.bearer = call[c].bearer
      /\ e.expiresAt = call[c].now + call[c].expires
  BY <1>2, <1>3 DEF Entry
<1>6. k \in BOOLEAN /\ ~k
  OBVIOUS
<1> HIDE DEF k, e
<1>7. /\ s \in CallState /\ s.pc = "request" /\ s.until = HttpEnd(call[c].deadline)
      /\ s.bearer = call[c].bearer /\ s.fromCache = k /\ s.reply = "none"
      /\ s.tok = call[c].tok /\ s.deadline = call[c].deadline
      /\ s.forced = call[c].forced /\ s.result = call[c].result
  BY <1>1, <1>3, <1>6, SendRequestFields
<1> HIDE DEF s
<1>8. /\ bearerCache' \in [ApiTokens -> Entry \cup {None}]
      /\ CacheOK(bearerCache')
  <2>1. bearerCache' \in [ApiTokens -> Entry \cup {None}]
    BY <1>3, <1>4, <1>5 DEF IInv, TypeOK
  <2>2. ASSUME NEW t \in ApiTokens, bearerCache'[t] # None
        PROVE  /\ bearerCache'[t].bearer.owner = t
               /\ bearerCache'[t].expiresAt <= bearerCache'[t].bearer.exp
    <3>1. CASE t = call[c].tok
      BY <1>3, <1>4, <1>5, <3>1 DEF IInv, TypeOK
    <3>2. CASE t # call[c].tok
      BY <1>4, <2>2, <3>2 DEF IInv, TypeOK, CacheOK
    <3> QED BY <3>1, <3>2
  <2> QED BY <2>1, <2>2 DEF CacheOK
<1>9. TimeOK(s, clock)
  <2>1. clock <= call[c].deadline + LockDelay
    BY <1>1 DEF TimeOK, Waiting
  <2>2. s.until \in Nat /\ s.until <= s.deadline
    BY <1>1, <1>2, <1>7, HttpEndBounded
  <2> QED BY <1>1, <1>2, <1>6, <1>7, <2>1, <2>2, TimingAssumption DEF TimeOK, Waiting
<1>10. HoldsOK(s)
  BY <1>3, <1>6, <1>7 DEF HoldsOK, Waiting
<1>11. AcceptedOK(s, accepted[c], orphan[c])
  BY <1>1, <1>7 DEF AcceptedOK
<1>12. accepted' \in [Calls -> Nat] /\ orphan' \in [Calls -> BOOLEAN]
  BY <1>4 DEF IInv, TypeOK
<1> QED BY <1>4, <1>7, <1>8, <1>9, <1>10, <1>11, <1>12, OneCallMoves

LEMMA ExchangeRefusedIInv ==
  ASSUME IInv, NEW c \in Calls, ExchangeRefused(c)
  PROVE  IInv'
<1>1. /\ call[c].pc = "exchange" /\ Return(c, "refused")
      /\ bearerCache' = [bearerCache EXCEPT ![call[c].tok] = None]
      /\ UNCHANGED <<clock, accepted, orphan>>
  BY DEF ExchangeRefused
<1>2. accepted[c] = 0 /\ ~orphan[c]
  BY <1>1 DEF IInv, CallsOK, AcceptedOK
<1>3. bearerCache' \in [ApiTokens -> Entry \cup {None}] /\ CacheOK(bearerCache')
  BY <1>1 DEF IInv, TypeOK, CacheOK
<1>4. orphan' \in [Calls -> BOOLEAN]
  BY <1>1 DEF IInv, TypeOK
<1> QED BY <1>1, <1>2, <1>3, <1>4, OneCallReturns

LEMMA RequestDoneIInv ==
  ASSUME IInv, NEW c \in Calls, RequestDone(c)
  PROVE  IInv'
<1>1. /\ call[c].pc = "request" /\ call[c].reply = "ok" /\ Return(c, "ok")
      /\ UNCHANGED <<clock, bearerCache, accepted, orphan>>
  BY DEF RequestDone
<1>2. /\ accepted[c] = 1 /\ ~orphan[c]
  BY <1>1 DEF IInv, CallsOK, AcceptedOK
<1>3. /\ bearerCache' \in [ApiTokens -> Entry \cup {None}] /\ CacheOK(bearerCache')
      /\ orphan' \in [Calls -> BOOLEAN]
  BY <1>1 DEF IInv, TypeOK
<1> QED BY <1>1, <1>2, <1>3, OneCallReturns

LEMMA RequestRefusedIInv ==
  ASSUME IInv, NEW c \in Calls, RequestRefused(c)
  PROVE  IInv'
<1>1. /\ call[c].pc = "request" /\ call[c].reply = "refused" /\ Return(c, "refused")
      /\ UNCHANGED <<clock, bearerCache, accepted, orphan>>
  BY DEF RequestRefused
<1>2. /\ accepted[c] = 0 /\ ~orphan[c]
  BY <1>1 DEF IInv, CallsOK, AcceptedOK
<1>3. /\ bearerCache' \in [ApiTokens -> Entry \cup {None}] /\ CacheOK(bearerCache')
      /\ orphan' \in [Calls -> BOOLEAN]
  BY <1>1 DEF IInv, TypeOK
<1> QED BY <1>1, <1>2, <1>3, OneCallReturns

LEMMA FailIInv ==
  ASSUME IInv, NEW c \in Calls, Fail(c)
  PROVE  IInv'
<1> DEFINE o == call[c].pc = "request" /\ Reachable(c)
<1>1. /\ Return(c, "error") /\ orphan' = [orphan EXCEPT ![c] = o]
      /\ UNCHANGED <<clock, bearerCache, accepted>>
  BY DEF Fail
<1>2. o => accepted[c] = 0
  BY DEF IInv, CallsOK, AcceptedOK, Reachable, InFlight
<1>3. o \in BOOLEAN
  BY DEF Reachable, InFlight
<1> HIDE DEF o
<1>4. /\ bearerCache' \in [ApiTokens -> Entry \cup {None}] /\ CacheOK(bearerCache')
      /\ orphan' \in [Calls -> BOOLEAN]
      /\ \A d \in Calls \ {c} : orphan'[d] = orphan[d]
      /\ orphan'[c] = o
  BY <1>1, <1>3 DEF IInv, TypeOK
<1> QED BY <1>1, <1>2, <1>4, OneCallReturns

LEMMA RetryForcedIInv ==
  ASSUME IInv, NEW c \in Calls, RetryForced(c)
  PROVE  IInv'
<1> DEFINE q == SendExchange(call[c])
           s == [q EXCEPT !.forced = TRUE, !.now = clock]
<1>1. /\ call[c] \in CallState /\ clock \in Nat /\ ~call[c].forced
      /\ call[c].pc = "request" /\ call[c].reply = "refused"
      /\ TimeOK(call[c], clock) /\ HoldsOK(call[c])
      /\ AcceptedOK(call[c], accepted[c], orphan[c])
  BY DEF IInv, TypeOK, CallsOK, RetryForced
<1>2. /\ call[c].deadline \in Nat /\ call[c].tok \in ApiTokens
      /\ clock <= call[c].deadline + LockDelay
  BY <1>1, TimingAssumption DEF CallState, HoldsOK, TimeOK, Waiting
<1>3. /\ q \in CallState /\ q.pc = "exchange" /\ q.until = HttpEnd(call[c].deadline)
      /\ q.reply = "none" /\ q.tok = call[c].tok
      /\ q.deadline = call[c].deadline /\ q.result = call[c].result
  BY <1>1, SendExchangeFields
<1>4. /\ call' = [call EXCEPT ![c] = s]
      /\ UNCHANGED <<clock, bearerCache, accepted, orphan>>
  BY DEF RetryForced
<1> HIDE DEF q
<1>5. /\ s \in CallState /\ s.forced /\ s.now = clock /\ s.pc = q.pc
      /\ s.until = q.until /\ s.reply = q.reply /\ s.tok = q.tok
      /\ s.deadline = q.deadline /\ s.result = q.result
  BY <1>1, <1>3 DEF CallState
<1> HIDE DEF s
<1>6. TimeOK(s, clock)
  <2>1. s.until \in Nat /\ s.until <= s.deadline
    BY <1>1, <1>2, <1>3, <1>5, HttpEndBounded
  <2> QED BY <1>1, <1>2, <1>3, <1>5, <2>1, TimingAssumption DEF TimeOK, Waiting
<1>7. HoldsOK(s) /\ AcceptedOK(s, accepted[c], orphan[c])
  BY <1>1, <1>2, <1>3, <1>5 DEF HoldsOK, AcceptedOK, Waiting
<1> QED BY <1>4, <1>5, <1>6, <1>7, OnlyCallMoves

LEMMA UpstreamIssuesIInv ==
  ASSUME IInv, NEW c \in Calls, UpstreamIssues(c)
  PROVE  IInv'
<1>1. PICK life \in Lifetimes :
        call' = [call EXCEPT ![c] = [AwaitLock(@, "ok") EXCEPT
                   !.bearer  = [owner |-> call[c].tok, exp |-> clock + life],
                   !.expires = life]]
  BY DEF UpstreamIssues
<1> DEFINE b == [owner |-> call[c].tok, exp |-> clock + life]
           q == AwaitLock(call[c], "ok")
           s == [q EXCEPT !.bearer = b, !.expires = life]
<1>2. /\ call[c] \in CallState /\ clock \in Nat /\ c \in DOMAIN call
      /\ call[c].pc = "exchange" /\ call[c].reply = "none"
      /\ clock <= call[c].until
      /\ TimeOK(call[c], clock) /\ HoldsOK(call[c])
      /\ AcceptedOK(call[c], accepted[c], orphan[c])
      /\ UNCHANGED <<clock, bearerCache, accepted, orphan>>
  BY DEF IInv, TypeOK, CallsOK, UpstreamIssues, Reachable, InFlight
<1>3. /\ life \in Int /\ call[c].now \in Nat /\ call[c].until \in Nat
      /\ call[c].deadline \in Nat /\ clock <= call[c].deadline
      /\ call[c].tok \in ApiTokens /\ call[c].now <= clock
  BY <1>2, LifetimesAssumption DEF CallState, HoldsOK, TimeOK, Waiting
<1>4. b \in Bearer /\ b.owner = call[c].tok /\ call[c].now + life <= b.exp
  BY <1>2, <1>3 DEF Bearer
<1>5. call' = [call EXCEPT ![c] = s]
  BY <1>1, <1>2
<1>6. /\ q \in CallState /\ q.reply = "ok" /\ q.until = clock + LockDelay
      /\ q.pc = "exchange" /\ q.tok = call[c].tok /\ q.deadline = call[c].deadline
      /\ q.now = call[c].now /\ q.forced = call[c].forced /\ q.result = call[c].result
  BY <1>2, AwaitLockFields
<1> HIDE DEF b, q
<1>7. /\ s \in CallState /\ s.reply = "ok" /\ s.bearer = b /\ s.expires = life
      /\ s.pc = "exchange" /\ s.tok = call[c].tok /\ s.deadline = call[c].deadline
  BY <1>3, <1>4, <1>6 DEF CallState
<1>8. /\ s.now = call[c].now /\ s.until = clock + LockDelay
      /\ s.forced = call[c].forced /\ s.result = call[c].result
  BY <1>6 DEF CallState
<1> HIDE DEF s
<1>9. TimeOK(s, clock)
  BY <1>2, <1>3, <1>7, <1>8, TimingAssumption DEF TimeOK, Waiting
<1>10. HoldsOK(s) /\ AcceptedOK(s, accepted[c], orphan[c])
  BY <1>2, <1>3, <1>4, <1>7, <1>8 DEF HoldsOK, AcceptedOK, Waiting
<1> QED BY <1>2, <1>5, <1>7, <1>9, <1>10, OnlyCallMoves

\* An answer arrives for the request in flight; only `reply` changes.
LEMMA ReplyFields ==
  ASSUME NEW s \in CallState, NEW r \in {"ok", "refused"}
  PROVE  LET q == [s EXCEPT !.reply = r]
         IN  /\ q \in CallState /\ q.reply = r /\ q.pc = s.pc /\ q.tok = s.tok
             /\ q.deadline = s.deadline /\ q.now = s.now /\ q.until = s.until
             /\ q.forced = s.forced /\ q.fromCache = s.fromCache
             /\ q.bearer = s.bearer /\ q.result = s.result
  BY DEF CallState

LEMMA UpstreamAcceptsIInv ==
  ASSUME IInv, NEW c \in Calls, UpstreamAccepts(c)
  PROVE  IInv'
<1> DEFINE s == [call[c] EXCEPT !.reply = "ok"]
<1>1. /\ call[c] \in CallState /\ clock \in Nat /\ c \in DOMAIN call
      /\ call[c].pc = "request" /\ call[c].reply = "none"
      /\ TimeOK(call[c], clock) /\ HoldsOK(call[c])
      /\ AcceptedOK(call[c], accepted[c], orphan[c])
  BY DEF IInv, TypeOK, CallsOK, UpstreamAccepts, Reachable, InFlight
<1>2. /\ s \in CallState /\ s.reply = "ok" /\ s.pc = call[c].pc /\ s.tok = call[c].tok
      /\ s.deadline = call[c].deadline /\ s.now = call[c].now /\ s.until = call[c].until
      /\ s.forced = call[c].forced /\ s.fromCache = call[c].fromCache
      /\ s.bearer = call[c].bearer /\ s.result = call[c].result
  BY <1>1, ReplyFields
<1>3. /\ call' = [call EXCEPT ![c] = s]
      /\ accepted' = [accepted EXCEPT ![c] = @ + 1]
      /\ UNCHANGED <<clock, bearerCache, orphan>>
  BY <1>1 DEF UpstreamAccepts
<1> HIDE DEF s
<1>4. accepted[c] = 0 /\ accepted' \in [Calls -> Nat] /\ accepted'[c] = 1
      /\ \A d \in Calls \ {c} : accepted'[d] = accepted[d]
  BY <1>1, <1>3 DEF IInv, TypeOK, AcceptedOK
<1>5. TimeOK(s, clock) /\ HoldsOK(s)
  BY <1>1, <1>2 DEF TimeOK, HoldsOK, Waiting
<1>6. AcceptedOK(s, accepted'[c], orphan'[c])
  BY <1>1, <1>2, <1>3, <1>4 DEF AcceptedOK
<1>7. /\ bearerCache' \in [ApiTokens -> Entry \cup {None}] /\ CacheOK(bearerCache')
      /\ orphan' \in [Calls -> BOOLEAN] /\ clock' = clock
      /\ \A d \in Calls \ {c} : orphan'[d] = orphan[d]
  BY <1>3 DEF IInv, TypeOK
<1> QED BY <1>2, <1>3, <1>4, <1>5, <1>6, <1>7, OneCallMoves

LEMMA UpstreamRefusesIInv ==
  ASSUME IInv, NEW c \in Calls, UpstreamRefuses(c)
  PROVE  IInv'
<1>1. /\ call[c] \in CallState /\ clock \in Nat /\ c \in DOMAIN call
      /\ call[c].pc \in {"exchange", "request"} /\ call[c].reply = "none"
      /\ clock <= call[c].until
      /\ TimeOK(call[c], clock) /\ HoldsOK(call[c])
      /\ AcceptedOK(call[c], accepted[c], orphan[c])
      /\ UNCHANGED <<clock, bearerCache, accepted, orphan>>
  BY DEF IInv, TypeOK, CallsOK, UpstreamRefuses, Reachable, InFlight
<1>2. CASE call[c].pc = "exchange"
  <2>1. PICK s \in CallState :
          /\ call' = [call EXCEPT ![c] = s]
          /\ s.reply = "refused" /\ s.until = clock + LockDelay
          /\ s.pc = call[c].pc /\ s.tok = call[c].tok /\ s.deadline = call[c].deadline
          /\ s.now = call[c].now /\ s.result = call[c].result
    <3> DEFINE q == AwaitLock(call[c], "refused")
    <3>1. call' = [call EXCEPT ![c] = q]
      BY <1>1, <1>2 DEF UpstreamRefuses
    <3>2. /\ q \in CallState /\ q.reply = "refused" /\ q.until = clock + LockDelay
          /\ q.pc = call[c].pc /\ q.tok = call[c].tok /\ q.deadline = call[c].deadline
          /\ q.now = call[c].now /\ q.result = call[c].result
      BY <1>1, AwaitLockFields
    <3> HIDE DEF q
    <3> QED BY <3>1, <3>2
  <2>2. /\ call[c].until \in Nat /\ call[c].deadline \in Nat /\ call[c].now \in Nat
        /\ clock <= call[c].deadline
    BY <1>1 DEF CallState, TimeOK
  <2>3. TimeOK(s, clock)
    BY <1>1, <1>2, <2>1, <2>2, TimingAssumption DEF TimeOK, Waiting
  <2>4. HoldsOK(s) /\ AcceptedOK(s, accepted[c], orphan[c])
    BY <1>1, <1>2, <2>1 DEF HoldsOK, AcceptedOK, Waiting
  <2> QED BY <1>1, <2>1, <2>3, <2>4, OnlyCallMoves
<1>3. CASE call[c].pc = "request"
  <2> DEFINE s == [call[c] EXCEPT !.reply = "refused"]
  <2>1. /\ s \in CallState /\ s.reply = "refused" /\ s.pc = call[c].pc /\ s.tok = call[c].tok
        /\ s.deadline = call[c].deadline /\ s.now = call[c].now /\ s.until = call[c].until
        /\ s.forced = call[c].forced /\ s.fromCache = call[c].fromCache
        /\ s.bearer = call[c].bearer /\ s.result = call[c].result
    BY <1>1, ReplyFields
  <2>2. call' = [call EXCEPT ![c] = s]
    BY <1>1, <1>3 DEF UpstreamRefuses
  <2> HIDE DEF s
  <2>3. TimeOK(s, clock) /\ HoldsOK(s)
    BY <1>1, <1>3, <2>1 DEF TimeOK, HoldsOK, Waiting
  <2>4. AcceptedOK(s, accepted[c], orphan[c])
    BY <1>1, <1>3, <2>1 DEF AcceptedOK
  <2> QED BY <1>1, <2>1, <2>2, <2>3, <2>4, OnlyCallMoves
<1> QED BY <1>1, <1>2, <1>3

LEMMA UpstreamAcceptsLateIInv ==
  ASSUME IInv, NEW c \in Calls, UpstreamAcceptsLate(c)
  PROVE  IInv'
<1>1. /\ orphan[c]
      /\ accepted' = [accepted EXCEPT ![c] = @ + 1]
      /\ orphan' = [orphan EXCEPT ![c] = FALSE]
      /\ UNCHANGED <<clock, bearerCache, call>>
  BY DEF UpstreamAcceptsLate
<1>2. TypeOK'
  BY <1>1 DEF IInv, TypeOK
<1>3. ASSUME NEW d \in Calls
      PROVE  /\ TimeOK(call'[d], clock') /\ HoldsOK(call'[d])
             /\ AcceptedOK(call'[d], accepted'[d], orphan'[d])
  <2>1. TimeOK(call'[d], clock') /\ HoldsOK(call'[d])
    BY <1>1 DEF IInv, CallsOK
  <2>2. AcceptedOK(call[d], accepted[d], orphan[d])
    BY DEF IInv, CallsOK
  <2>3. CASE d = c
    <3>1. accepted'[d] = accepted[d] + 1 /\ orphan'[d] = FALSE
      BY <1>1, <2>3 DEF IInv, TypeOK
    <3> QED BY <1>1, <2>1, <2>2, <2>3, <3>1 DEF AcceptedOK
  <2>4. CASE d # c
    <3>1. accepted'[d] = accepted[d] /\ orphan'[d] = orphan[d] /\ call'[d] = call[d]
      BY <1>1, <2>4 DEF IInv, TypeOK
    <3> QED BY <2>1, <2>2, <3>1
  <2> QED BY <2>3, <2>4
<1>4. CacheOK(bearerCache')
  BY <1>1 DEF IInv
<1> QED BY <1>2, <1>3, <1>4 DEF IInv, CallsOK

\* Time is held back by exactly the delays TimeOK counts on.
LEMMA TickIInv ==
  ASSUME IInv, Tick
  PROVE  IInv'
<1>1. clock' = clock + 1 /\ UNCHANGED <<bearerCache, call, accepted, orphan>>
  BY DEF Tick
<1>2. TypeOK' /\ CacheOK(bearerCache')
  BY <1>1 DEF IInv, TypeOK
<1>3. ASSUME NEW c \in Calls
      PROVE  /\ TimeOK(call'[c], clock') /\ HoldsOK(call'[c])
             /\ AcceptedOK(call'[c], accepted'[c], orphan'[c])
  <2>1. /\ call[c] \in CallState /\ clock \in Nat
        /\ TimeOK(call[c], clock) /\ HoldsOK(call[c])
        /\ AcceptedOK(call[c], accepted[c], orphan[c])
    BY DEF IInv, TypeOK, CallsOK
  <2>2. call[c].pc \in Waiting => clock < call[c].until
    BY DEF Tick
  <2>3. /\ call[c].now \in Nat /\ call[c].until \in Nat /\ call[c].deadline \in Nat
        /\ call[c].pc = "request" => call[c].bearer.exp \in Int
    BY <2>1 DEF CallState, HoldsOK, Bearer
  <2>4. TimeOK(call[c], clock + 1)
    BY <2>1, <2>2, <2>3, TimingAssumption DEF TimeOK, Waiting
  <2> QED BY <1>1, <2>1, <2>4
<1> QED BY <1>2, <1>3 DEF IInv, CallsOK

LEMMA NextIInv == IInv /\ [Next]_vars => IInv'
<1> SUFFICES ASSUME IInv, [Next]_vars PROVE IInv'
  OBVIOUS
<1>1. CASE Tick
  BY <1>1, TickIInv
<1>2. ASSUME NEW c \in Calls, CallStep(c) PROVE IInv'
  BY <1>2, BeginIInv, BeginBlankIInv, CacheHitIInv, CacheMissIInv,
     ExchangeStoredIInv, ExchangeRefusedIInv, RequestDoneIInv, RetryForcedIInv,
     RequestRefusedIInv, FailIInv DEF CallStep
<1>3. ASSUME NEW c \in Calls, UpstreamStep(c) PROVE IInv'
  BY <1>3, UpstreamIssuesIInv, UpstreamAcceptsIInv, UpstreamRefusesIInv,
     UpstreamAcceptsLateIInv DEF UpstreamStep
<1>4. CASE UNCHANGED vars
  BY <1>4 DEF vars, IInv, TypeOK, CallsOK, CacheOK
<1> QED BY <1>1, <1>2, <1>3, <1>4 DEF Next

\* The invariant above holds in every state of every behaviour.
THEOREM InvariantHolds == Spec => []IInv
  BY InitIInv, NextIInv, PTL DEF Spec

-----------------------------------------------------------------------------
(* The properties the runs check, for every value of the constants.        *)

\* Every variable keeps its type (client.go:38-49 and the locals of a call).
THEOREM TypeCorrect == Spec => []TypeOK
<1>1. IInv => TypeOK
  BY DEF IInv
<1> QED BY <1>1, InvariantHolds, PTL

\* The 30s of client.go:92 are enough: as long as the wait for the mutex and
\* one HTTP timeout fit in the margin, a cached bearer outlives its request.
THEOREM EdgeExpiryExcluded == Spec => []NoEdgeExpiry
<1>1. IInv => NoEdgeExpiry
  <2> SUFFICES ASSUME IInv, NEW c \in Calls,
                      call[c].pc = "request", call[c].fromCache
               PROVE  clock < call[c].bearer.exp
    BY DEF NoEdgeExpiry
  <2>1. /\ call[c] \in CallState /\ clock \in Nat
        /\ TimeOK(call[c], clock) /\ HoldsOK(call[c])
    BY DEF IInv, TypeOK, CallsOK
  <2> QED BY <2>1 DEF TimeOK
<1> QED BY <1>1, InvariantHolds, PTL

\* No call ever sends, and no cache entry ever holds, a bearer issued to the
\* API token of another session (client.go:83,93,135).
THEOREM CredentialsIsolated == Spec => []CredentialIsolation
<1>1. IInv => CredentialIsolation
  BY DEF IInv, CallsOK, CacheOK, HoldsOK, CredentialIsolation
<1> QED BY <1>1, InvariantHolds, PTL

\* A call, its forced retry included, is back when its caller's context is
\* over, or one wait for the mutex later (client.go:106,131,140,158-225).
THEOREM DurationBounded == Spec => []BoundedDuration
<1>1. IInv => BoundedDuration
  BY DEF IInv, CallsOK, TimeOK, BoundedDuration
<1> QED BY <1>1, InvariantHolds, PTL

-----------------------------------------------------------------------------
(* What each step of a call looks like to its caller.                      *)

outcome == [c \in Calls |-> OutcomeOf(call[c])]

\* The call that moves is the only one whose outcome can change.
LEMMA OutcomeMoves ==
  ASSUME TypeOK, NEW c \in Calls, NEW s, call' = [call EXCEPT ![c] = s]
  PROVE  /\ outcome' = [outcome EXCEPT ![c] = OutcomeOf(s)]
         /\ outcome[c] = OutcomeOf(call[c])
         /\ \A d \in Calls \ {c} : call'[d] = call[d]
         /\ call'[c] = s
  BY DEF TypeOK, outcome

\* Steps on the way: the caller still waits and nothing is taken on.
Underway(c) == \/ CacheHit(c) \/ CacheMiss(c) \/ ExchangeStored(c)
               \/ RetryForced(c) \/ UpstreamIssues(c) \/ UpstreamRefuses(c)

LEMMA UnderwayStutters ==
  ASSUME TypeOK, NEW c \in Calls, Underway(c)
  PROVE  UNCHANGED <<outcome, accepted>>
<1>1. call[c] \in CallState /\ call[c].pc \in Waiting
  BY DEF TypeOK, Underway, CacheHit, CacheMiss, ExchangeStored, RetryForced,
         UpstreamIssues, UpstreamRefuses, Reachable, InFlight, Waiting
<1>2. UNCHANGED accepted
  BY DEF Underway, CacheHit, CacheMiss, ExchangeStored, RetryForced,
         UpstreamIssues, UpstreamRefuses
<1>3. \E s : call' = [call EXCEPT ![c] = s] /\ s.pc \in Waiting
  <2>1. ASSUME NEW b, NEW k
        PROVE  SendRequest(call[c], b, k).pc \in Waiting
    BY <1>1 DEF SendRequest, CallState, Waiting
  <2>2. SendExchange(call[c]).pc \in Waiting
    BY <1>1 DEF SendExchange, CallState, Waiting
  <2>3. CASE CacheHit(c) \/ ExchangeStored(c)
    BY <2>1, <2>3 DEF CacheHit, ExchangeStored
  <2>4. CASE CacheMiss(c)
    BY <2>2, <2>4 DEF CacheMiss
  <2>5. CASE RetryForced(c)
    <3> DEFINE s == [SendExchange(call[c]) EXCEPT !.forced = TRUE, !.now = clock]
    <3>1. call' = [call EXCEPT ![c] = s]
      BY <2>5 DEF RetryForced
    <3>2. clock \in Nat /\ SendExchange(call[c]) \in CallState
      BY <1>1, SendExchangeFields DEF TypeOK
    <3>3. s.pc = SendExchange(call[c]).pc
      BY <3>2 DEF CallState
    <3> QED BY <2>2, <3>1, <3>3
  <2>6. CASE UpstreamIssues(c)
    <3>1. PICK life \in Lifetimes :
            call' = [call EXCEPT ![c] = [AwaitLock(call[c], "ok") EXCEPT
                       !.bearer  = [owner |-> call[c].tok, exp |-> clock + life],
                       !.expires = life]]
      BY <2>6 DEF UpstreamIssues, TypeOK
    <3> DEFINE b == [owner |-> call[c].tok, exp |-> clock + life]
               q == AwaitLock(call[c], "ok")
               s == [q EXCEPT !.bearer = b, !.expires = life]
    <3>2. call' = [call EXCEPT ![c] = s]
      BY <3>1
    <3>3. q \in CallState /\ q.pc = call[c].pc
      BY <1>1, AwaitLockFields DEF TypeOK
    <3> HIDE DEF b, q
    <3>4. s.pc = q.pc
      BY <3>3 DEF CallState
    <3> QED BY <1>1, <3>2, <3>3, <3>4
  <2>7. CASE UpstreamRefuses(c)
    <3> DEFINE q == AwaitLock(call[c], "refused")
               s == [call[c] EXCEPT !.reply = "refused"]
    <3>1. call' = [call EXCEPT ![c] = q] \/ call' = [call EXCEPT ![c] = s]
      BY <2>7 DEF UpstreamRefuses, TypeOK
    <3>2. q.pc = call[c].pc
      BY <1>1, AwaitLockFields DEF TypeOK
    <3>3. s.pc = call[c].pc
      BY <1>1 DEF CallState
    <3> HIDE DEF q, s
    <3> QED BY <1>1, <3>1, <3>2, <3>3
  <2> QED BY <2>3, <2>4, <2>5, <2>6, <2>7 DEF Underway
<1>4. PICK s : call' = [call EXCEPT ![c] = s] /\ s.pc \in Waiting
  BY <1>3
<1>5. OutcomeOf(s) = "running" /\ OutcomeOf(call[c]) = "running"
  BY <1>1, <1>4 DEF OutcomeOf, Waiting
<1>6. outcome' = [outcome EXCEPT ![c] = "running"] /\ outcome[c] = "running"
  BY <1>4, <1>5, OutcomeMoves
<1>7. outcome' = outcome
  BY <1>6 DEF outcome
<1> QED BY <1>2, <1>7

\* Returning is the only way to change what a waiting caller knows.
LEMMA ReturnMoves ==
  ASSUME TypeOK, NEW c \in Calls, NEW r \in {"ok", "refused", "error"}, Return(c, r)
  PROVE  /\ outcome' = [outcome EXCEPT ![c] = r]
         /\ outcome[c] = OutcomeOf(call[c])
         /\ call'[c].result = r
<1> DEFINE s == [IdleCall EXCEPT !.pc = "done", !.result = r]
<1>1. s.pc = "done" /\ s.result = r
  BY IdleCallType DEF CallState
<1>2. call' = [call EXCEPT ![c] = s]
  BY DEF Return
<1> HIDE DEF s
<1>3. OutcomeOf(s) = r
  BY <1>1 DEF OutcomeOf
<1> QED BY <1>1, <1>2, <1>3 DEF TypeOK, outcome

LEMMA CallStepRefines ==
  ASSUME IInv, NEW c \in Calls, CallStep(c)
  PROVE  [Promise!Next]_(Promise!vars)
<1>1. TypeOK /\ AcceptedOK(call[c], accepted[c], orphan[c])
  BY DEF IInv, CallsOK
<1>2. CASE \E tok \in ApiTokens, left \in Contexts : Begin(c, tok, left)
  <2>1. PICK tok \in ApiTokens, left \in Contexts : Begin(c, tok, left)
    BY <1>2
  <2> DEFINE s == [IdleCall EXCEPT !.pc = "lookup", !.tok = tok,
                                   !.deadline = clock + left, !.now = clock,
                                   !.until = clock + LockDelay]
  <2>2. clock \in Nat /\ s.pc = "lookup"
    BY <1>1, IdleCallType DEF CallState, TypeOK
  <2>3. call[c].pc = "idle" /\ call' = [call EXCEPT ![c] = s] /\ UNCHANGED accepted
    BY <2>1 DEF Begin
  <2> HIDE DEF s
  <2>4. OutcomeOf(s) = "running" /\ OutcomeOf(call[c]) = "idle"
    BY <2>2, <2>3 DEF OutcomeOf
  <2>5. outcome[c] = "idle" /\ outcome' = [outcome EXCEPT ![c] = "running"]
    BY <1>1, <2>3, <2>4 DEF TypeOK, outcome
  <2>6. Promise!Start(c)
    BY <2>3, <2>5 DEF Promise!Start, outcome
  <2> QED BY <2>6 DEF Promise!Next
<1>3. CASE BeginBlank(c)
  <2>1. call[c].pc = "idle" /\ Return(c, "refused") /\ UNCHANGED accepted
    BY <1>3 DEF BeginBlank
  <2>2. outcome[c] = "idle" /\ outcome' = [outcome EXCEPT ![c] = "refused"]
    BY <1>1, <2>1, ReturnMoves DEF OutcomeOf
  <2>3. Promise!TurnAway(c)
    BY <2>1, <2>2 DEF Promise!TurnAway, outcome
  <2> QED BY <2>3 DEF Promise!Next
<1>4. CASE Underway(c)
  BY <1>1, <1>4, UnderwayStutters DEF Promise!vars, outcome
<1>5. ASSUME NEW r \in {"ok", "refused", "error"}, Return(c, r), UNCHANGED accepted,
             call[c].pc \in Waiting,
             r = "ok" => accepted[c] = 1, r = "refused" => accepted[c] = 0
      PROVE  Promise!Next
  <2>1. outcome[c] = "running" /\ outcome' = [outcome EXCEPT ![c] = r]
    BY <1>1, <1>5, ReturnMoves DEF OutcomeOf, Waiting
  <2>2. Promise!Return(c, r)
    BY <1>5, <2>1 DEF Promise!Return, outcome
  <2> QED BY <2>2 DEF Promise!Next
<1>6. CASE ExchangeRefused(c)
  BY <1>1, <1>5, <1>6 DEF ExchangeRefused, AcceptedOK, Waiting
<1>7. CASE RequestDone(c)
  BY <1>1, <1>5, <1>7 DEF RequestDone, AcceptedOK, Waiting
<1>8. CASE RequestRefused(c)
  BY <1>1, <1>5, <1>8 DEF RequestRefused, AcceptedOK, Waiting
<1>9. CASE Fail(c)
  BY <1>5, <1>9 DEF Fail, InFlight, Waiting
<1> QED BY <1>2, <1>3, <1>4, <1>6, <1>7, <1>8, <1>9 DEF CallStep, Underway

LEMMA UpstreamStepRefines ==
  ASSUME IInv, NEW c \in Calls, UpstreamStep(c)
  PROVE  [Promise!Next]_(Promise!vars)
<1>1. /\ TypeOK /\ call[c] \in CallState /\ HoldsOK(call[c])
      /\ AcceptedOK(call[c], accepted[c], orphan[c])
  BY DEF IInv, TypeOK, CallsOK
<1>2. CASE Underway(c)
  BY <1>1, <1>2, UnderwayStutters DEF Promise!vars, outcome
<1>3. ASSUME outcome[c] \in {"running", "error"}, UNCHANGED outcome,
             accepted[c] = 0, accepted' = [accepted EXCEPT ![c] = @ + 1]
      PROVE  Promise!Next
  <2>1. accepted' = [accepted EXCEPT ![c] = 1]
    BY <1>1, <1>3 DEF TypeOK
  <2>2. Promise!Accept(c)
    BY <1>3, <2>1 DEF Promise!Accept, outcome
  <2> QED BY <2>2 DEF Promise!Next
<1>4. CASE UpstreamAccepts(c)
  <2> DEFINE s == [call[c] EXCEPT !.reply = "ok"]
  <2>1. /\ call[c].pc = "request" /\ call[c].reply = "none"
        /\ call' = [call EXCEPT ![c] = s]
        /\ accepted' = [accepted EXCEPT ![c] = @ + 1]
    BY <1>1, <1>4 DEF UpstreamAccepts, TypeOK, Reachable, InFlight
  <2>2. s.pc = call[c].pc
    BY <1>1, ReplyFields
  <2> HIDE DEF s
  <2>3. OutcomeOf(s) = "running" /\ OutcomeOf(call[c]) = "running"
    BY <2>1, <2>2 DEF OutcomeOf
  <2>4. outcome' = [outcome EXCEPT ![c] = "running"] /\ outcome[c] = "running"
    BY <1>1, <2>1, <2>3 DEF TypeOK, outcome
  <2>5. outcome' = outcome
    BY <2>4 DEF outcome
  <2>6. accepted[c] = 0
    BY <1>1, <2>1 DEF AcceptedOK
  <2> QED BY <1>3, <2>1, <2>4, <2>5, <2>6
<1>5. CASE UpstreamAcceptsLate(c)
  <2>1. /\ orphan[c] /\ accepted' = [accepted EXCEPT ![c] = @ + 1] /\ UNCHANGED call
    BY <1>5 DEF UpstreamAcceptsLate
  <2>2. call[c].pc = "done" /\ call[c].result = "error" /\ accepted[c] = 0
    BY <1>1, <2>1 DEF AcceptedOK
  <2>3. outcome[c] = "error" /\ outcome' = outcome
    BY <2>1, <2>2 DEF outcome, OutcomeOf
  <2> QED BY <1>3, <2>1, <2>2, <2>3
<1> QED BY <1>2, <1>4, <1>5 DEF UpstreamStep, Underway

\* GetJSON, PutJSON and DeleteJSON, with their cache, their retry and their
\* timeouts, give a caller no less than the one-shot operation does: it is
\* taken on at most once, and the answer agrees with that (client.go:158-225).
THEOREM AcceptedAtMostOnceHolds == Spec => AcceptedAtMostOnce
<1>1. Init => Promise!Init
  <2> SUFFICES ASSUME Init PROVE Promise!Init
    OBVIOUS
  <2>1. OutcomeOf(IdleCall) = "idle"
    BY DEF OutcomeOf, IdleCall
  <2> QED BY <2>1 DEF Init, Promise!Init
<1>2. IInv /\ [Next]_vars => [Promise!Next]_(Promise!vars)
  <2> SUFFICES ASSUME IInv, [Next]_vars PROVE [Promise!Next]_(Promise!vars)
    OBVIOUS
  <2>1. CASE Tick
    BY <2>1 DEF Tick, Promise!vars
  <2>2. CASE UNCHANGED vars
    BY <2>2 DEF vars, Promise!vars
  <2> QED BY <2>1, <2>2, CallStepRefines, UpstreamStepRefines DEF Next
<1> QED BY <1>1, <1>2, InvariantHolds, PTL DEF Spec, AcceptedAtMostOnce, Promise!Spec

\* A stale bearer, revoked or put back into the cache by an exchange that
\* returned late, is never what a caller's refusal rests on (client.go:169).
THEOREM CachedBearerNeverDecidesHolds == Spec => CachedBearerNeverDecides
<1> DEFINE A == \A c \in Calls :
                  call[c].pc = "request" /\ call'[c].result = "refused" =>
                    ~call[c].fromCache /\ call[c].forced
<1>1. IInv /\ [Next]_vars => A
  <2> SUFFICES ASSUME IInv, [Next]_vars, NEW c \in Calls,
                      call[c].pc = "request", call'[c].result = "refused"
               PROVE  ~call[c].fromCache /\ call[c].forced
    OBVIOUS
  <2>1. /\ TypeOK /\ HoldsOK(call[c]) /\ call[c].result = "none"
    BY DEF IInv, CallsOK, AcceptedOK
  <2>2. SUFFICES call[c].forced
    BY <2>1 DEF HoldsOK
  <2>3. IInv'
    BY NextIInv
  <2>4. call'[c].pc = "done"
    BY <2>3 DEF IInv, CallsOK, AcceptedOK
  <2>5. PICK d \in Calls : CallStep(d) \/ UpstreamStep(d)
    BY <2>1 DEF Next, Tick, vars
  <2>6. call'[c] # call[c] /\ call[c] \in CallState
    BY <2>1 DEF TypeOK
  <2>7. ~Underway(d)
    <3> SUFFICES ASSUME Underway(d) PROVE FALSE
      OBVIOUS
    <3>1. outcome'[c] = outcome[c]
      BY <2>1, UnderwayStutters
    <3>2. outcome'[c] = "refused" /\ outcome[c] = "running"
      BY <2>4 DEF outcome, OutcomeOf
    <3> QED BY <3>1, <3>2
  <2>8. ~UpstreamAccepts(d) /\ ~UpstreamAcceptsLate(d)
    <3>1. ASSUME UpstreamAccepts(d) PROVE FALSE
      <4> DEFINE s == [call[d] EXCEPT !.reply = "ok"]
      <4>1. call[d] \in CallState /\ call' = [call EXCEPT ![d] = s]
        BY <2>1, <3>1 DEF TypeOK, UpstreamAccepts
      <4>2. s.pc = call[d].pc /\ call[d].pc = "request"
        BY <3>1, <4>1, ReplyFields DEF UpstreamAccepts
      <4> HIDE DEF s
      <4>3. call'[c].pc = "request"
        BY <2>1, <4>1, <4>2 DEF TypeOK
      <4> QED BY <2>4, <4>3
    <3>2. ~UpstreamAcceptsLate(d)
      BY <2>6 DEF UpstreamAcceptsLate
    <3> QED BY <3>1, <3>2
  <2>9. \A tok \in ApiTokens, left \in Contexts : ~Begin(d, tok, left)
    <3> SUFFICES ASSUME NEW tok \in ApiTokens, NEW left \in Contexts,
                        Begin(d, tok, left)
                 PROVE  FALSE
      OBVIOUS
    <3>1. call[d].pc = "idle" /\ call'[c] = call[c]
      BY <2>1 DEF Begin, TypeOK
    <3> QED BY <2>6, <3>1
  <2>10. ASSUME NEW r \in {"ok", "refused", "error"}, Return(d, r)
         PROVE  d = c /\ r = "refused"
    <3>1. d = c
      BY <2>1, <2>6, <2>10 DEF Return, TypeOK
    <3>2. call'[d].result = r
      BY <2>1, <2>10, ReturnMoves
    <3> QED BY <3>1, <3>2
  <2>11. RequestRefused(d) /\ d = c
    BY <2>5, <2>7, <2>8, <2>9, <2>10
       DEF CallStep, UpstreamStep, Underway, BeginBlank, ExchangeRefused,
           RequestDone, RequestRefused, Fail
  <2> QED BY <2>11 DEF RequestRefused
<1> QED BY <1>1, InvariantHolds, PTL DEF Spec, CachedBearerNeverDecides
=============================================================================
