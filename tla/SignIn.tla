------------------------------- MODULE SignIn -------------------------------
(***************************************************************************)
(* What signing in promises, as if the server kept a table of sessions.    *)
(* A client starts a sign-in; within its time a user submits an API token  *)
(* and an access mode to it; if Black Duck accepts the API token before    *)
(* the login's deadline, that is a consent, and that client opens sessions *)
(* from it, which act with that API token in that mode.  Consents and      *)
(* sessions end with their lifetimes, within a second of them.  A restart  *)
(* drops the logins that wait for Black Duck, and with an ephemeral secret *)
(* everything.                                                             *)
(***************************************************************************)
EXTENDS Integers

CONSTANTS
  Clients, ApiTokens, Modes,
  SecretConfigured,
  CodeTTL, AccessTTL, LoginTimeout, PerSecond

VARIABLES
  now,
  process,    \* how often the server was restarted
  started,    \* sign-ins, by whom and when they were started
  logins,     \* what was submitted to a sign-in and waits for Black Duck
  vouched,    \* the <<API token, mode>> Black Duck and a user agreed to
  consents,   \* what sessions can be opened from
  sessions    \* what MCP calls are served for

vars == <<now, process, started, logins, vouched, consents, sessions>>

Init ==
  /\ now = 0 /\ process = 0
  /\ started = {} /\ logins = {} /\ vouched = {}
  /\ consents = {} /\ sessions = {}

Start(c) ==
  /\ started' = started \cup {[client |-> c, began |-> now]}
  /\ UNCHANGED <<now, process, logins, vouched, consents, sessions>>

Submit(s, apiToken, mode) ==
  /\ now < s.began + CodeTTL
  /\ logins' = logins \cup {[client |-> s.client, began |-> s.began,
                             apiToken |-> apiToken, mode |-> mode]}
  /\ UNCHANGED <<now, process, started, vouched, consents, sessions>>

\* The same may have been submitted twice, and then still waits.
Answered(l) == logins' \in {logins, logins \ {l}}

\* A consent may be over as soon as it is given.
Consent(l) ==
  /\ now < l.began + CodeTTL + LoginTimeout
  /\ Answered(l)
  /\ vouched' = vouched \cup {<<l.apiToken, l.mode>>}
  /\ consents' \in
       {consents,
        consents \cup {[client |-> l.client, began |-> l.began, apiToken |-> l.apiToken,
                        mode |-> l.mode, since |-> now]}}
  /\ UNCHANGED <<now, process, started, sessions>>

Refuse(l) == Answered(l) /\ UNCHANGED <<now, process, started, vouched, consents, sessions>>

Open(c) ==
  /\ sessions' = sessions \cup {[c EXCEPT !.since = now]}
  /\ UNCHANGED <<now, process, started, logins, vouched, consents>>

\* Of what is held, all that lasts a second longer is kept, and nothing whose
\* lifetime is over.
Lapse(held, held2, ttl, t) ==
  /\ held2 \subseteq {x \in held : t < x.since + ttl}
  /\ {x \in held : t + PerSecond <= x.since + ttl} \subseteq held2

Tick ==
  /\ now' = now + 1
  /\ Lapse(consents, consents', CodeTTL, now')
  /\ Lapse(sessions, sessions', AccessTTL, now')
  /\ UNCHANGED <<process, started, logins, vouched>>

Restart ==
  /\ process' = process + 1
  /\ logins' = {}
  /\ IF SecretConfigured THEN UNCHANGED <<started, consents, sessions>>
     ELSE started' = {} /\ consents' = {} /\ sessions' = {}
  /\ UNCHANGED <<now, vouched>>

Next ==
  \/ Tick
  \/ Restart
  \/ \E c \in Clients : Start(c)
  \/ \E s \in started, apiToken \in ApiTokens, mode \in Modes :
       Submit(s, apiToken, mode)
  \/ \E l \in logins : Consent(l) \/ Refuse(l)
  \/ \E c \in consents : Open(c)

Spec == Init /\ [][Next]_vars
=============================================================================
