------------------------------ MODULE Lifecycle ------------------------------
(***************************************************************************)
(* The life of the server process (cmd/blackduck-mcp/main.go, app.go):     *)
(* load the settings, ensure the private CA, listen, serve, and stop on a  *)
(* signal while requests are being worked on; be killed at any step, and   *)
(* be started again.                                                       *)
(*                                                                         *)
(* Each client makes one tool call, which carries out one operation on     *)
(* Black Duck, over a connection of its own.  The operation is taken at    *)
(* its promise (AtMostOnceCall, which the Black Duck client implements);   *)
(* what is asked here is what the client learns of it when the process may *)
(* stop or die underneath.                                                 *)
(*                                                                         *)
(* http.Server is Go's, modelled from its documentation and how app.go     *)
(* uses it.  Time is a clock in abstract units.                            *)
(***************************************************************************)
EXTENDS Naturals

CONSTANTS
  Clients,
  Environments,      \* the settings the process may be started with
  ShutdownTimeout,   \* wire_gen.go:65 (10s)
  WriteTimeout,      \* server.go:17 (60s), from the moment a request is read
  ToolTimeout,       \* no tool call lasts longer (60s, and a wait for a mutex)
  NewGrace,          \* Shutdown closes new connections older than that (5s)
  MaxClock, MaxStarts   \* bounds of the model

StrictSettings ==
  {"PORT", "MCP_SERVER_URL", "BLACKDUCK_BASE_URL", "MCP_JSON_RESPONSE",
   "BLACKDUCK_TLS_INSECURE_SKIP_VERIFY", "MCP_AUTH_SECRET"}
LenientSettings == {"MCP_AUTH_CODE_TTL", "MCP_AUTH_ACCESS_TTL", "MCP_APPROVAL_TTL"}

ASSUME EnvironmentsAssumption ==
  Environments \subseteq
    [StrictSettings \cup LenientSettings -> {"unset", "valid", "invalid"}]

ASSUME TimeoutsAssumption ==
  /\ ShutdownTimeout \in Nat /\ WriteTimeout \in Nat /\ ToolTimeout \in Nat
  /\ NewGrace \in Nat /\ MaxClock \in Nat

VARIABLES
  clock,
  main,       \* where main is: "down" when there is no process
  exit,       \* how the last process ended
  listener,
  errCh,      \* what ListenAndServe returned, waiting for Run
  signalled,  \* SIGINT or SIGTERM came: the context of main is done
  since,      \* when Shutdown was called
  starts,
  conn,       \* the connection of each client
  told,       \* what each client knows of its call
  outcome, accepted   \* the operation of each call, see AtMostOnceCall

process == <<main, exit, listener, errCh, signalled, since, starts>>
vars == <<clock, process, conn, told, outcome, accepted>>

Operation == INSTANCE AtMostOnceCall WITH Calls <- Clients

\* "new" and "idle" as http.ConnState; at is when it was opened, or its
\* request was read.
NoConn == [phase |-> "none", at |-> 0]

TypeOK ==
  /\ clock \in Nat
  /\ main \in {"down", "ensure", "select", "shutdown"}
  /\ exit \in {"none", "ok", "failed", "killed"}
  /\ listener \in {"unbound", "open", "closed"}
  /\ errCh \in {"empty", "error"}
  /\ signalled \in BOOLEAN
  /\ since \in Nat /\ starts \in Nat
  /\ conn \in [Clients -> [phase : {"none", "new", "idle", "active", "closed"}, at : Nat]]
  /\ told \in [Clients -> {"none", "ok", "refused", "error", "lost", "left"}]
  /\ outcome \in [Clients -> Operation!Outcomes]
  /\ accepted \in [Clients -> {0, 1}]

Init ==
  /\ clock = 0
  /\ main = "down" /\ exit = "none" /\ listener = "closed" /\ errCh = "empty"
  /\ signalled = FALSE /\ since = 0 /\ starts = 0
  /\ conn = [c \in Clients |-> NoConn]
  /\ told = [c \in Clients |-> "none"]
  /\ Operation!Init

Active(c) == conn[c].phase = "active"

-----------------------------------------------------------------------------
(* Faulty variants of definitions below, never used.                       *)

\* Calls that are cut are reported as turned away.
CutIsRefused(code) ==
  /\ main' = "down" /\ exit' = code /\ listener' = "closed"
  /\ conn' = [c \in Clients |-> [conn[c] EXCEPT !.phase = "closed"]]
  /\ told' = [c \in Clients |->
                IF Active(c) /\ told[c] = "none" THEN "refused" ELSE told[c]]
  /\ outcome' = [c \in Clients |-> IF outcome[c] = "running" THEN "error" ELSE outcome[c]]
  /\ UNCHANGED <<clock, errCh, signalled, since, starts, accepted>>

\* HTTPServer.Close: nobody is waited for.
NobodyIsBusy == {}

\* ListenAndServe's error goes to the log instead of the channel.
ErrorLogged ==
  /\ main = "select" /\ listener = "unbound"
  /\ listener' = "closed"
  /\ UNCHANGED <<clock, main, exit, errCh, signalled, since, starts, conn, told,
                 outcome, accepted>>

\* So is the error it returns later.
BreakLogged ==
  /\ main = "select" /\ listener = "open"
  /\ listener' = "closed"
  /\ UNCHANGED <<clock, main, exit, errCh, signalled, since, starts, conn, told,
                 outcome, accepted>>

\* Run waits for ListenAndServe alone.
StopAfterError ==
  /\ main = "select" /\ signalled /\ errCh = "error"
  /\ main' = "shutdown" /\ listener' = "closed" /\ since' = clock
  /\ UNCHANGED <<clock, exit, errCh, signalled, starts, conn, told, outcome, accepted>>

\* The answer is written while the operation is still under way.
AnswerEarly(c) ==
  /\ Active(c)
  /\ told' = [told EXCEPT ![c] = outcome[c]]
  /\ UNCHANGED <<clock, process, conn, outcome, accepted>>

-----------------------------------------------------------------------------
(* The process.                                                            *)

\* The process is gone, with its connections and the calls it worked on; what
\* these have sent to Black Duck may still be taken on.
End(code) ==
  /\ main' = "down" /\ exit' = code /\ listener' = "closed"
  /\ conn' = [c \in Clients |-> [conn[c] EXCEPT !.phase = "closed"]]
  /\ told' = [c \in Clients |->
                IF Active(c) /\ told[c] = "none" THEN "lost" ELSE told[c]]
  /\ outcome' = [c \in Clients |-> IF outcome[c] = "running" THEN "error" ELSE outcome[c]]
  /\ UNCHANGED <<clock, errCh, signalled, since, starts, accepted>>

\* config.Load: durationEnv falls back to the default, all others are checked.
Loads(env) == \A s \in StrictSettings : env[s] # "invalid"

\* main up to Run: the signals are watched from here on.
Start ==
  /\ main = "down"
  /\ starts < MaxStarts   \* bound
  /\ starts' = starts + 1
  /\ \E env \in Environments :
       IF Loads(env) THEN main' = "ensure" /\ exit' = "none"
                     ELSE main' = "down" /\ exit' = "failed"
  /\ listener' = "unbound" /\ errCh' = "empty" /\ signalled' = FALSE
  /\ UNCHANGED <<clock, since, conn, told, outcome, accepted>>

\* Ensure returned (see PrivateCA); ListenAndServe starts in its goroutine.
Ensured ==
  /\ main = "ensure"
  /\ main' = "select"
  /\ UNCHANGED <<clock, exit, listener, errCh, signalled, since, starts, conn, told,
                 outcome, accepted>>

EnsureFails == main = "ensure" /\ End("failed")

Listen ==
  /\ main = "select" /\ listener = "unbound"
  /\ listener' = "open"
  /\ UNCHANGED <<clock, main, exit, errCh, signalled, since, starts, conn, told,
                 outcome, accepted>>

\* The port is taken.
ListenFails ==
  /\ main = "select" /\ listener = "unbound"
  /\ listener' = "closed" /\ errCh' = "error"
  /\ UNCHANGED <<clock, main, exit, signalled, since, starts, conn, told, outcome,
                 accepted>>

\* Accept fails for good, while connections are open.
AcceptFails ==
  /\ main = "select" /\ listener = "open"
  /\ listener' = "closed" /\ errCh' = "error"
  /\ UNCHANGED <<clock, main, exit, signalled, since, starts, conn, told, outcome,
                 accepted>>

Signal ==
  /\ main # "down" /\ ~signalled
  /\ clock + ShutdownTimeout <= MaxClock   \* bound: leave it time to stop
  /\ signalled' = TRUE
  /\ UNCHANGED <<clock, main, exit, listener, errCh, since, starts, conn, told,
                 outcome, accepted>>

\* Run's select.  When both are ready, either may be taken.
SelectStop ==
  /\ main = "select" /\ signalled
  /\ main' = "shutdown" /\ listener' = "closed" /\ since' = clock
  /\ UNCHANGED <<clock, exit, errCh, signalled, starts, conn, told, outcome, accepted>>

SelectError == main = "select" /\ errCh = "error" /\ End("failed")

\* The connections Shutdown waits for.
Busy == {c \in Clients :
           \/ Active(c)
           \/ conn[c].phase = "new" /\ clock <= conn[c].at + NewGrace}

Closable == {c \in Clients : conn[c].phase \in {"new", "idle"}} \ Busy

\* Shutdown's loop: close the connections that nothing happens on, and return
\* when there are no others.
Poll ==
  /\ main = "shutdown"
  /\ \/ Busy = {} /\ End("ok")
     \/ /\ Busy # {} /\ Closable # {}
        /\ conn' = [c \in Clients |->
                      IF c \in Closable THEN [conn[c] EXCEPT !.phase = "closed"]
                                        ELSE conn[c]]
        /\ UNCHANGED <<clock, process, told, outcome, accepted>>

\* Faulty variant, never used: the shutdown's context is a child of the one
\* that was just cancelled.
DeadlineAtOnce == main = "shutdown" /\ End("failed")

\* Its context is done: main exits, whatever is still worked on.
Deadline ==
  /\ main = "shutdown" /\ clock >= since + ShutdownTimeout
  /\ End("failed")

Kill == main # "down" /\ End("killed")

-----------------------------------------------------------------------------
(* Clients.                                                                *)

Connect(c) ==
  /\ listener = "open"
  /\ conn[c].phase \in {"none", "closed"} /\ outcome[c] = "idle"
  /\ conn' = [conn EXCEPT ![c] = [phase |-> "new", at |-> clock]]
  /\ UNCHANGED <<clock, process, told, outcome, accepted>>

\* Other requests were served on the connection, which is kept alive.
Discover(c) ==
  /\ conn[c].phase = "new"
  /\ conn' = [conn EXCEPT ![c].phase = "idle"]
  /\ UNCHANGED <<clock, process, told, outcome, accepted>>

\* A request on a connection that is open is served, in a shutdown as well.
Call(c) ==
  /\ conn[c].phase \in {"new", "idle"}
  /\ Operation!Start(c)
  /\ conn' = [conn EXCEPT ![c] = [phase |-> "active", at |-> clock]]
  /\ UNCHANGED <<clock, process, told>>

\* The handler returns; too late, and there is no writing its answer.  In a
\* shutdown the connection is not kept.
Respond(c) ==
  /\ Active(c)
  /\ \E o \in {"ok", "refused", "error"} :
       /\ Operation!Return(c, o)
       /\ told' = [told EXCEPT ![c] =
            IF @ # "none" THEN @
            ELSE IF clock >= conn[c].at + WriteTimeout THEN "lost" ELSE o]
  /\ conn' = [conn EXCEPT ![c].phase = IF main = "shutdown" THEN "closed" ELSE "idle"]
  /\ UNCHANGED <<clock, process>>

\* The client gives up.  Its handler goes on until it notices.
Leave(c) ==
  \/ /\ conn[c].phase \in {"new", "idle"}
     /\ conn' = [conn EXCEPT ![c].phase = "closed"]
     /\ UNCHANGED <<clock, process, told, outcome, accepted>>
  \/ /\ Active(c) /\ told[c] = "none"
     /\ told' = [told EXCEPT ![c] = "left"]
     /\ UNCHANGED <<clock, process, conn, outcome, accepted>>

Accepted(c) ==
  /\ Operation!Accept(c)
  /\ UNCHANGED <<clock, process, conn, told>>

\* Handlers return by their deadline, and Shutdown by its own; it polls far more
\* often than time passes here, and a signal or an error waits for nobody.
Tick ==
  /\ clock < MaxClock   \* bound
  /\ \A c \in Clients : Active(c) => clock < conn[c].at + ToolTimeout
  /\ main \in {"ensure", "select"} => ~signalled /\ errCh = "empty"
  /\ main = "shutdown" =>
       Busy # {} /\ Closable = {} /\ clock < since + ShutdownTimeout
  /\ clock' = clock + 1
  /\ UNCHANGED <<process, conn, told, outcome, accepted>>

-----------------------------------------------------------------------------

RunStep == Ensured \/ EnsureFails \/ SelectStop \/ SelectError \/ Poll \/ Deadline

ClientStep(c) == Connect(c) \/ Discover(c) \/ Call(c) \/ Leave(c)

Next ==
  \/ Start \/ RunStep
  \/ Listen \/ ListenFails \/ AcceptFails
  \/ Signal \/ Kill
  \/ \E c \in Clients : ClientStep(c) \/ Respond(c) \/ Accepted(c)
  \/ Tick

Spec == Init /\ [][Next]_vars

\* Go runs its goroutines and its timers; Ensure and the tools have timeouts.
\* Nobody has to start or stop the server, or to send it anything.
FairSpec ==
  /\ Spec
  /\ WF_vars(RunStep) /\ WF_vars(Listen \/ ListenFails) /\ WF_vars(Tick)
  /\ \A c \in Clients : WF_vars(Respond(c))

-----------------------------------------------------------------------------
(* What must hold.                                                         *)

\* The promise of AtMostOnceCall reaches the MCP client, although the process
\* that worked for it may have stopped, died or been started again: what it is
\* told is true, and an answer that is lost leaves everything open.
Known(c) == IF outcome[c] = "idle" THEN "idle"
            ELSE IF told[c] = "none" THEN "running"
            ELSE IF told[c] \in {"lost", "left"} THEN "error" ELSE told[c]

Seen(c) == INSTANCE AtMostOnceCall
             WITH Calls <- {c}, outcome <- [d \in {c} |-> Known(d)],
                  accepted <- [d \in {c} |-> accepted[d]]

ServicePromise ==
  [][\A c \in Clients : Seen(c)!Next \/ UNCHANGED Seen(c)!vars]_vars

\* An answer is lost only to what nobody can help (a kill, a listener that
\* broke), to the write timeout, or to a shutdown that has waited its full
\* time: a stop cuts no call short that needs less (app.go:34-39).
GraceHonoured ==
  [][\A c \in Clients : told[c] = "none" /\ told'[c] = "lost" =>
       \/ exit' = "killed"
       \/ errCh = "error"
       \/ clock >= conn[c].at + WriteTimeout
       \/ main = "shutdown" /\ clock >= since + ShutdownTimeout]_vars

\* The process reports success only when it took no answer from anybody: no
\* call is under way when it exits with 0 (app.go:38-41).
CleanExit ==
  [][exit # "ok" /\ exit' = "ok" =>
       \A c \in Clients : outcome[c] # "running" /\ told'[c] = told[c]]_vars

\* The process stops when it is told to, in whatever state the signal finds it
\* and whatever its clients do.
EndsAfterSignal == signalled /\ main # "down" ~> main = "down"

\* A start ends in a server that listens or in an exit, and a server whose
\* listener breaks exits: there is never for good a process that does not serve.
StartsOrExits ==
  /\ main = "ensure" ~> listener = "open" \/ main \in {"shutdown", "down"}
  /\ main = "select" /\ listener = "closed" ~> main \in {"shutdown", "down"}
=============================================================================
