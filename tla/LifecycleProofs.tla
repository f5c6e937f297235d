--------------------------- MODULE LifecycleProofs ---------------------------
(***************************************************************************)
(* What clients are told by a server that stops, dies and starts again,    *)
(* for any number of clients, any timeouts and any number of starts.       *)
(*                                                                         *)
(* The invariant says how a connection, the call made on it and what its   *)
(* client was told go together (CallOK), and that there are no connections *)
(* unless the process has come to serve (NobodyYet).                       *)
(***************************************************************************)
EXTENDS Lifecycle, TLAPS

CallOK(c) ==
  /\ Active(c) <=> outcome[c] = "running"
  /\ outcome[c] = "idle" => told[c] = "none"
  /\ told[c] = "none" => outcome[c] \in {"idle", "running"}
  /\ told[c] \in {"ok", "refused", "error"} => told[c] = outcome[c]
  /\ outcome[c] = "ok" => accepted[c] = 1
  /\ outcome[c] \in {"idle", "refused"} => accepted[c] = 0

NobodyYet ==
  /\ main \in {"down", "ensure"} =>
       \A c \in Clients : conn[c].phase \in {"none", "closed"}
  /\ listener = "open" => main = "select"

LifeInv == TypeOK /\ NobodyYet /\ \A c \in Clients : CallOK(c)

ConnState == [phase : {"none", "new", "idle", "active", "closed"}, at : Nat]

-----------------------------------------------------------------------------

\* The three ways in which what a client knows changes, as steps of its
\* AtMostOnceCall.
LEMMA SeenStart ==
  ASSUME NEW c \in Clients, Known(c) = "idle", Known(c)' = "running",
         accepted'[c] = accepted[c]
  PROVE  Seen(c)!Next
BY DEF Seen!Next, Seen!Start

LEMMA SeenReturn ==
  ASSUME NEW c \in Clients, NEW o \in {"ok", "refused", "error"},
         Known(c) = "running", Known(c)' = o, accepted'[c] = accepted[c],
         o = "ok" => accepted[c] = 1, o = "refused" => accepted[c] = 0
  PROVE  Seen(c)!Next
BY DEF Seen!Next, Seen!Return

LEMMA SeenAccepted ==
  ASSUME NEW c \in Clients, Known(c) \in {"running", "error"}, Known(c)' = Known(c),
         accepted[c] = 0, accepted'[c] = 1
  PROVE  Seen(c)!Next
BY DEF Seen!Next, Seen!Accept

LEMMA SeenSame ==
  ASSUME NEW c \in Clients, Known(c)' = Known(c), accepted'[c] = accepted[c]
  PROVE  UNCHANGED Seen(c)!vars
BY DEF Seen!vars

-----------------------------------------------------------------------------

LEMMA LifeInit == Init => LifeInv
<1> SUFFICES ASSUME Init PROVE LifeInv
  OBVIOUS
<1>1. NoConn \in ConnState /\ NoConn.phase = "none"
  BY DEF NoConn, ConnState
<1>2. TypeOK
  BY <1>1 DEF Init, TypeOK, ConnState, Operation!Init, Operation!Outcomes
<1>3. NobodyYet /\ \A c \in Clients : CallOK(c)
  BY <1>1 DEF Init, NobodyYet, CallOK, Active, Operation!Init
<1> QED BY <1>2, <1>3 DEF LifeInv

\* A step of the process that leaves clients alone.
LEMMA ProcessOnly ==
  ASSUME LifeInv, UNCHANGED <<conn, told, outcome, accepted>>
  PROVE  /\ \A c \in Clients : CallOK(c)'
         /\ \A c \in Clients : Known(c)' = Known(c) /\ accepted'[c] = accepted[c]
BY DEF LifeInv, CallOK, Active, Known

LEMMA EndPreserves ==
  ASSUME LifeInv, NEW code \in {"ok", "failed", "killed"}, End(code)
  PROVE  LifeInv'
<1>1. \A c \in Clients : conn'[c] = [conn[c] EXCEPT !.phase = "closed"]
  BY DEF End
<1>2. \A c \in Clients : conn'[c] \in ConnState /\ conn'[c].phase = "closed"
  BY <1>1 DEF LifeInv, TypeOK, ConnState
<1>3. TypeOK'
  BY <1>2 DEF LifeInv, TypeOK, End, ConnState, Operation!Outcomes
<1>4. NobodyYet'
  BY <1>2 DEF End, NobodyYet
<1>5. ASSUME NEW c \in Clients PROVE CallOK(c)'
  <2>1. ~Active(c)' /\ outcome'[c] # "running"
    BY <1>2 DEF End, Active, LifeInv, TypeOK
  <2>2. CASE Active(c)
    BY <2>1, <2>2 DEF End, LifeInv, TypeOK, CallOK
  <2>3. CASE ~Active(c)
    BY <2>1, <2>3 DEF End, LifeInv, TypeOK, CallOK
  <2> QED BY <2>2, <2>3
<1> QED BY <1>3, <1>4, <1>5 DEF LifeInv

\* One client's step: its connection becomes n.
LEMMA ConnPreserves ==
  ASSUME LifeInv, NEW c \in Clients, NEW n \in ConnState,
         conn' = [conn EXCEPT ![c] = n],
         n.phase = "active" <=> Active(c), main \notin {"down", "ensure"} \/ n.phase = "closed",
         UNCHANGED <<clock, process, told, outcome, accepted>>
  PROVE  LifeInv'
<1>1. UNCHANGED <<main, exit, listener, errCh, signalled, since, starts>>
  BY DEF process
<1>2. TypeOK'
  BY <1>1 DEF LifeInv, TypeOK, ConnState
<1>3. NobodyYet'
  BY <1>1 DEF LifeInv, NobodyYet, TypeOK
<1>4. ASSUME NEW d \in Clients PROVE CallOK(d)'
  BY DEF LifeInv, TypeOK, CallOK, Active
<1> QED BY <1>2, <1>3, <1>4 DEF LifeInv

LEMMA ConnectPreserves ==
  ASSUME LifeInv, NEW c \in Clients, Connect(c)
  PROVE  LifeInv'
<1>1. PICK n : n = [phase |-> "new", at |-> clock]
  OBVIOUS
<1>2. n \in ConnState /\ n.phase = "new"
  BY <1>1 DEF ConnState, LifeInv, TypeOK
<1>3. conn' = [conn EXCEPT ![c] = n] /\ ~Active(c) /\ main = "select"
  BY <1>1 DEF Connect, Active, LifeInv, NobodyYet
<1> QED BY <1>2, <1>3, ConnPreserves DEF Connect

LEMMA DiscoverPreserves ==
  ASSUME LifeInv, NEW c \in Clients, Discover(c)
  PROVE  LifeInv'
<1>1. PICK n : n = [conn[c] EXCEPT !.phase = "idle"]
  OBVIOUS
<1>2. n \in ConnState /\ n.phase = "idle"
  BY <1>1 DEF ConnState, LifeInv, TypeOK
<1>3. conn' = [conn EXCEPT ![c] = n] /\ ~Active(c) /\ main \notin {"down", "ensure"}
  BY <1>1 DEF Discover, Active, LifeInv, NobodyYet, TypeOK
<1> QED BY <1>2, <1>3, ConnPreserves DEF Discover

LEMMA CallPreserves ==
  ASSUME LifeInv, NEW c \in Clients, Call(c)
  PROVE  LifeInv'
<1>1. PICK n : n = [phase |-> "active", at |-> clock]
  OBVIOUS
<1>2. n \in ConnState /\ n.phase = "active"
  BY <1>1 DEF ConnState, LifeInv, TypeOK
<1>3. /\ conn' = [conn EXCEPT ![c] = n] /\ main \notin {"down", "ensure"}
      /\ UNCHANGED <<main, exit, listener, errCh, signalled, since, starts, clock, told>>
      /\ outcome[c] = "idle" /\ outcome' = [outcome EXCEPT ![c] = "running"]
      /\ accepted' = accepted
  BY <1>1 DEF Call, process, Operation!Start, LifeInv, NobodyYet, TypeOK
<1>4. TypeOK'
  BY <1>2, <1>3 DEF LifeInv, TypeOK, ConnState, Operation!Outcomes
<1>5. NobodyYet'
  BY <1>3 DEF LifeInv, NobodyYet
<1>6. ASSUME NEW d \in Clients PROVE CallOK(d)'
  BY <1>2, <1>3 DEF LifeInv, TypeOK, CallOK, Active
<1> QED BY <1>4, <1>5, <1>6 DEF LifeInv

LEMMA RespondPreserves ==
  ASSUME LifeInv, NEW c \in Clients, Respond(c)
  PROVE  LifeInv'
<1>1. PICK o \in {"ok", "refused", "error"} :
        /\ Operation!Return(c, o)
        /\ told' = [told EXCEPT ![c] =
             IF @ # "none" THEN @
             ELSE IF clock >= conn[c].at + WriteTimeout THEN "lost" ELSE o]
  BY DEF Respond
<1>2. PICK n : n = [conn[c] EXCEPT !.phase = IF main = "shutdown" THEN "closed" ELSE "idle"]
  OBVIOUS
<1>3. n \in ConnState /\ n.phase \in {"closed", "idle"}
  BY <1>2 DEF ConnState, LifeInv, TypeOK
<1>4. /\ conn' = [conn EXCEPT ![c] = n] /\ Active(c)
      /\ UNCHANGED <<main, exit, listener, errCh, signalled, since, starts, clock>>
  BY <1>2 DEF Respond, process
<1>5. /\ outcome[c] = "running" /\ outcome' = [outcome EXCEPT ![c] = o]
      /\ o = "ok" => accepted[c] = 1
      /\ o = "refused" => accepted[c] = 0
      /\ accepted' = accepted
  BY <1>1 DEF Operation!Return
<1>6. main \notin {"down", "ensure"}
  BY <1>4 DEF LifeInv, NobodyYet, Active
<1>7. told'[c] \in {told[c], "lost", o} /\ (told[c] # "none" => told'[c] = told[c])
      /\ told'[c] # "none"
  BY <1>1 DEF LifeInv, TypeOK
<1>8. \A d \in Clients \ {c} : told'[d] = told[d]
  BY <1>1 DEF LifeInv, TypeOK
<1>9. TypeOK'
  <2>1. told' \in [Clients -> {"none", "ok", "refused", "error", "lost", "left"}]
    BY <1>1 DEF LifeInv, TypeOK
  <2> QED BY <1>3, <1>4, <1>5, <2>1 DEF LifeInv, TypeOK, ConnState, Operation!Outcomes
<1>10. NobodyYet'
  BY <1>4, <1>6 DEF LifeInv, NobodyYet
<1>11. ASSUME NEW d \in Clients PROVE CallOK(d)'
  <2>1. CASE d = c
    BY <1>3, <1>4, <1>5, <1>7, <2>1 DEF LifeInv, TypeOK, CallOK, Active
  <2>2. CASE d # c
    BY <1>4, <1>5, <1>8, <2>2 DEF LifeInv, TypeOK, CallOK, Active
  <2> QED BY <2>1, <2>2
<1> QED BY <1>9, <1>10, <1>11 DEF LifeInv

LEMMA LeavePreserves ==
  ASSUME LifeInv, NEW c \in Clients, Leave(c)
  PROVE  LifeInv'
<1>1. CASE conn[c].phase \in {"new", "idle"}
  <2>1. PICK n : n = [conn[c] EXCEPT !.phase = "closed"]
    OBVIOUS
  <2>2. n \in ConnState /\ n.phase = "closed"
    BY <2>1 DEF ConnState, LifeInv, TypeOK
  <2>3. /\ conn' = [conn EXCEPT ![c] = n] /\ ~Active(c)
        /\ UNCHANGED <<clock, process, told, outcome, accepted>>
    BY <1>1, <2>1 DEF Leave, Active
  <2> QED BY <2>2, <2>3, ConnPreserves
<1>2. CASE Active(c) /\ told[c] = "none" /\ told' = [told EXCEPT ![c] = "left"]
           /\ UNCHANGED <<clock, process, conn, outcome, accepted>>
  <2>1. UNCHANGED <<main, exit, listener, errCh, signalled, since, starts>>
    BY <1>2 DEF process
  <2>2. TypeOK' /\ NobodyYet'
    BY <1>2, <2>1 DEF LifeInv, TypeOK, NobodyYet
  <2>3. \A d \in Clients : CallOK(d)'
    BY <1>2 DEF LifeInv, TypeOK, CallOK, Active
  <2> QED BY <2>2, <2>3 DEF LifeInv
<1> QED BY <1>1, <1>2 DEF Leave

LEMMA AcceptedPreserves ==
  ASSUME LifeInv, NEW c \in Clients, Accepted(c)
  PROVE  LifeInv'
<1>1. /\ outcome[c] \in {"running", "error"} /\ accepted[c] = 0
      /\ accepted' = [accepted EXCEPT ![c] = 1]
      /\ UNCHANGED <<clock, main, exit, listener, errCh, signalled, since, starts, conn,
                     told, outcome>>
  BY DEF Accepted, process, Operation!Accept
<1>2. TypeOK' /\ NobodyYet'
  BY <1>1 DEF LifeInv, TypeOK, NobodyYet
<1>3. \A d \in Clients : CallOK(d)'
  BY <1>1 DEF LifeInv, TypeOK, CallOK, Active
<1> QED BY <1>2, <1>3 DEF LifeInv

\* Shutdown's loop, when it does not return.
LEMMA PollPreserves ==
  ASSUME LifeInv, Poll
  PROVE  LifeInv'
<1>1. CASE End("ok")
  BY <1>1, EndPreserves
<1>2. CASE /\ conn' = [c \in Clients |->
                         IF c \in Closable THEN [conn[c] EXCEPT !.phase = "closed"]
                                           ELSE conn[c]]
           /\ UNCHANGED <<clock, process, told, outcome, accepted>>
  <2>1. UNCHANGED <<main, exit, listener, errCh, signalled, since, starts>>
    BY <1>2 DEF process
  <2>2. ASSUME NEW c \in Clients
        PROVE  conn'[c] \in ConnState /\ Active(c)' = Active(c)
               /\ (conn'[c] = conn[c] \/ conn'[c].phase = "closed")
    <3>1. CASE c \in Closable
      <4>1. conn'[c] = [conn[c] EXCEPT !.phase = "closed"] /\ conn[c].phase # "active"
        BY <1>2, <3>1 DEF Closable
      <4> QED BY <4>1 DEF LifeInv, TypeOK, ConnState, Active
    <3>2. CASE c \notin Closable
      BY <1>2, <3>2 DEF LifeInv, TypeOK, ConnState, Active
    <3> QED BY <3>1, <3>2
  <2>3. TypeOK'
    BY <1>2, <2>1, <2>2 DEF LifeInv, TypeOK, ConnState
  <2>4. NobodyYet'
    BY <2>1, <2>2 DEF LifeInv, NobodyYet
  <2>5. \A c \in Clients : CallOK(c)'
    BY <1>2, <2>2 DEF LifeInv, CallOK
  <2> QED BY <2>3, <2>4, <2>5 DEF LifeInv
<1> QED BY <1>1, <1>2 DEF Poll

\* The steps of the process that nobody's connection is part of.
ProcessStep ==
  \/ Start \/ Ensured \/ Listen \/ ListenFails \/ AcceptFails
  \/ Signal \/ SelectStop \/ Tick \/ UNCHANGED vars

LEMMA ProcessPreserves ==
  ASSUME LifeInv, ProcessStep
  PROVE  LifeInv'
<1>1. UNCHANGED <<conn, told, outcome, accepted>>
  BY DEF ProcessStep, Start, Ensured, Listen, ListenFails, AcceptFails, Signal,
     SelectStop, Tick, vars
<1>2. TypeOK'
  <2>1. CASE Start
    <3>1. /\ main' \in {"ensure", "down"} /\ exit' \in {"none", "failed"}
          /\ listener' = "unbound" /\ errCh' = "empty"
          /\ starts' = starts + 1 /\ UNCHANGED <<clock, since>>
      BY <2>1 DEF Start
    <3>2. signalled' \in BOOLEAN
      BY <2>1 DEF Start
    <3> QED BY <1>1, <3>1, <3>2 DEF LifeInv, TypeOK
  <2>2. CASE Ensured \/ Listen \/ ListenFails \/ AcceptFails
    BY <1>1, <2>2 DEF LifeInv, TypeOK, Ensured, Listen, ListenFails, AcceptFails
  <2>3. CASE Signal \/ SelectStop
    BY <1>1, <2>3 DEF LifeInv, TypeOK, Signal, SelectStop
  <2>4. CASE Tick \/ UNCHANGED vars
    <3>1. /\ UNCHANGED <<main, exit, listener, errCh, signalled, since, starts>>
          /\ clock' \in {clock, clock + 1}
      BY <2>4 DEF Tick, vars, process
    <3> QED BY <1>1, <3>1 DEF LifeInv, TypeOK
  <2> QED BY <2>1, <2>2, <2>3, <2>4 DEF ProcessStep
<1>3. NobodyYet'
  BY <1>1 DEF LifeInv, NobodyYet, ProcessStep, Start, Ensured, Listen, ListenFails,
     AcceptFails, Signal, SelectStop, Tick, vars, process
<1> QED BY <1>1, <1>2, <1>3, ProcessOnly DEF LifeInv

\* Next, by what becomes of the clients.
LEMMA StepKinds ==
  ASSUME [Next]_vars
  PROVE  \/ ProcessStep
         \/ \E code \in {"ok", "failed", "killed"} : End(code)
         \/ Poll
         \/ \E c \in Clients :
              \/ Connect(c) \/ Discover(c) \/ Call(c) \/ Leave(c)
              \/ Respond(c) \/ Accepted(c)
BY DEF Next, ProcessStep, RunStep, EnsureFails, SelectError, Deadline, Kill, ClientStep

LEMMA LifeStep == LifeInv /\ [Next]_vars => LifeInv'
BY StepKinds, ProcessPreserves, EndPreserves, PollPreserves, ConnectPreserves,
   DiscoverPreserves, CallPreserves, LeavePreserves, RespondPreserves, AcceptedPreserves

LEMMA LifeInvariant == Spec => []LifeInv
BY LifeInit, LifeStep, PTL DEF Spec

-----------------------------------------------------------------------------

\* Every variable keeps its type.
THEOREM LifecycleTypeCorrect == Spec => []TypeOK
<1>1. LifeInv => TypeOK
  BY DEF LifeInv
<1> QED BY <1>1, LifeInvariant, PTL

Promised(c) == Seen(c)!Next \/ UNCHANGED Seen(c)!vars

\* The end of the process is an error to those whose call it cuts.
LEMMA EndPromised ==
  ASSUME LifeInv, NEW code, End(code), NEW c \in Clients
  PROVE  Promised(c)
<1>1. accepted'[c] = accepted[c]
  BY DEF End
<1>2. outcome'[c] = (IF outcome[c] = "running" THEN "error" ELSE outcome[c])
      /\ told'[c] = (IF Active(c) /\ told[c] = "none" THEN "lost" ELSE told[c])
  BY DEF End
<1>3. CASE Active(c) /\ told[c] = "none"
  <2>1. Known(c) = "running" /\ Known(c)' = "error"
    BY <1>2, <1>3 DEF Known, LifeInv, CallOK
  <2> QED BY <1>1, <2>1, SeenReturn DEF Promised
<1>4. CASE ~(Active(c) /\ told[c] = "none")
  <2>1. Known(c)' = Known(c)
    BY <1>2, <1>4 DEF Known, LifeInv, CallOK
  <2> QED BY <1>1, <2>1, SeenSame DEF Promised
<1> QED BY <1>3, <1>4

LEMMA RespondPromised ==
  ASSUME LifeInv, NEW d \in Clients, Respond(d), NEW c \in Clients
  PROVE  Promised(c)
<1>1. PICK o \in {"ok", "refused", "error"} :
        /\ Operation!Return(d, o)
        /\ told' = [told EXCEPT ![d] =
             IF @ # "none" THEN @
             ELSE IF clock >= conn[d].at + WriteTimeout THEN "lost" ELSE o]
  BY DEF Respond
<1>2. /\ outcome[d] = "running" /\ outcome' = [outcome EXCEPT ![d] = o]
      /\ o = "ok" => accepted[d] = 1
      /\ o = "refused" => accepted[d] = 0
      /\ accepted' = accepted
  BY <1>1 DEF Operation!Return
<1>3. told'[d] \in {told[d], "lost", o} /\ (told[d] # "none" => told'[d] = told[d])
      /\ told'[d] # "none" /\ outcome'[d] = o
  BY <1>1, <1>2 DEF LifeInv, TypeOK
<1>4. CASE c # d
  <2>1. told'[c] = told[c] /\ outcome'[c] = outcome[c]
    BY <1>1, <1>2, <1>4 DEF LifeInv, TypeOK
  <2> QED BY <1>2, <2>1, SeenSame DEF Promised, Known
<1>5. CASE c = d /\ told[d] # "none"
  <2>1. Known(c)' = Known(c)
    BY <1>2, <1>3, <1>5 DEF Known, LifeInv, CallOK
  <2> QED BY <1>2, <2>1, SeenSame DEF Promised
<1>6. CASE c = d /\ told[d] = "none"
  <2>1. Known(c) = "running" /\ Known(c)' \in {"error", o}
    BY <1>2, <1>3, <1>6 DEF Known
  <2>2. CASE Known(c)' = "error"
    BY <1>2, <2>1, <2>2, SeenReturn DEF Promised
  <2>3. CASE Known(c)' = o
    BY <1>2, <1>6, <2>1, <2>3, SeenReturn DEF Promised
  <2> QED BY <2>1, <2>2, <2>3
<1> QED BY <1>4, <1>5, <1>6

LEMMA ClientPromised ==
  ASSUME LifeInv, NEW d \in Clients, NEW c \in Clients,
         Connect(d) \/ Discover(d) \/ Call(d) \/ Leave(d) \/ Accepted(d)
  PROVE  Promised(c)
<1>1. CASE UNCHANGED <<told, outcome, accepted>>
  BY <1>1, SeenSame DEF Promised, Known
<1>2. CASE Call(d)
  <2>1. /\ outcome[d] = "idle" /\ outcome' = [outcome EXCEPT ![d] = "running"]
        /\ accepted' = accepted /\ told' = told
    BY <1>2 DEF Call, Operation!Start
  <2>2. CASE c = d
    <3>1. Known(c) = "idle" /\ Known(c)' = "running"
      BY <2>1, <2>2 DEF Known, LifeInv, TypeOK, CallOK
    <3> QED BY <2>1, <3>1, SeenStart DEF Promised
  <2>3. CASE c # d
    BY <2>1, <2>3, SeenSame DEF Promised, Known, LifeInv, TypeOK
  <2> QED BY <2>2, <2>3
<1>3. CASE Active(d) /\ told[d] = "none" /\ told' = [told EXCEPT ![d] = "left"]
           /\ UNCHANGED <<outcome, accepted>>
  <2>1. CASE c = d
    <3>1. Known(c) = "running" /\ Known(c)' = "error"
      BY <1>3, <2>1 DEF Known, LifeInv, TypeOK, CallOK
    <3> QED BY <1>3, <3>1, SeenReturn DEF Promised
  <2>2. CASE c # d
    BY <1>3, <2>2, SeenSame DEF Promised, Known, LifeInv, TypeOK
  <2> QED BY <2>1, <2>2
<1>4. CASE Accepted(d)
  <2>1. /\ outcome[d] \in {"running", "error"} /\ accepted[d] = 0
        /\ accepted' = [accepted EXCEPT ![d] = 1] /\ UNCHANGED <<told, outcome>>
    BY <1>4 DEF Accepted, Operation!Accept
  <2>2. Known(c)' = Known(c)
    BY <2>1 DEF Known
  <2>3. CASE c = d
    <3>1. Known(c) \in {"running", "error"} /\ accepted'[c] = 1
      BY <2>1, <2>3 DEF Known, LifeInv, TypeOK, CallOK
    <3> QED BY <2>1, <2>2, <2>3, <3>1, SeenAccepted DEF Promised
  <2>4. CASE c # d
    BY <2>1, <2>2, <2>4, SeenSame DEF Promised, LifeInv, TypeOK
  <2> QED BY <2>3, <2>4
<1> QED BY <1>1, <1>2, <1>3, <1>4 DEF Connect, Discover, Leave

LEMMA StepPromised ==
  ASSUME LifeInv, [Next]_vars, NEW c \in Clients
  PROVE  Promised(c)
<1>1. CASE ProcessStep
  <2>1. UNCHANGED <<conn, told, outcome, accepted>>
    BY <1>1 DEF ProcessStep, Start, Ensured, Listen, ListenFails, AcceptFails, Signal,
       SelectStop, Tick, vars
  <2> QED BY <2>1, ProcessOnly, SeenSame DEF Promised
<1>2. CASE Poll
  <2>1. CASE End("ok")
    BY <2>1, EndPromised
  <2>2. CASE UNCHANGED <<told, outcome, accepted>>
    BY <2>2, SeenSame DEF Promised, Known
  <2> QED BY <1>2, <2>1, <2>2 DEF Poll
<1> QED BY <1>1, <1>2, StepKinds, EndPromised, RespondPromised, ClientPromised

\* What a client is told of its call is true, over stops, deaths and restarts.
THEOREM ServicePromiseHolds == Spec => ServicePromise
<1>1. LifeInv /\ [Next]_vars =>
        [\A c \in Clients : Seen(c)!Next \/ UNCHANGED Seen(c)!vars]_vars
  BY StepPromised DEF Promised
<1> QED BY <1>1, LifeInvariant, PTL DEF Spec, ServicePromise

\* Only a kill, a broken listener, the write timeout or a shutdown that waited
\* its full time loses an answer.
THEOREM GraceHonouredHolds == Spec => GraceHonoured
<1>1. ASSUME LifeInv, [Next]_vars, NEW c \in Clients,
             told[c] = "none", told'[c] = "lost"
      PROVE  \/ exit' = "killed"
             \/ errCh = "error"
             \/ clock >= conn[c].at + WriteTimeout
             \/ main = "shutdown" /\ clock >= since + ShutdownTimeout
  <2>1. told' # told
    BY <1>1
  <2>2. CASE \E d \in Clients : Respond(d) \/ Leave(d)
    BY <1>1, <2>2 DEF Respond, Leave, LifeInv, TypeOK
  <2>3. CASE EnsureFails
    <3>1. Active(c)
      BY <1>1, <2>3 DEF EnsureFails, End
    <3> QED BY <1>1, <2>3, <3>1 DEF EnsureFails, LifeInv, NobodyYet, Active
  <2>4. CASE Poll
    <3>1. Busy = {} /\ End("ok")
      BY <2>1, <2>4 DEF Poll
    <3>2. told'[c] = IF Active(c) /\ told[c] = "none" THEN "lost" ELSE told[c]
      BY <3>1 DEF End
    <3>3. Active(c)
      BY <1>1, <3>2
    <3> QED BY <3>1, <3>3 DEF Busy
  <2>5. CASE SelectError \/ Deadline \/ Kill
    BY <2>5 DEF SelectError, Deadline, Kill, End
  <2> QED BY <1>1, <2>1, <2>2, <2>3, <2>4, <2>5 DEF Next, vars, RunStep, ClientStep, Start,
          Ensured, SelectStop, Listen, ListenFails, AcceptFails, Signal, Connect,
          Discover, Call, Accepted, Tick
<1>2. LifeInv /\ [Next]_vars =>
        [\A c \in Clients : told[c] = "none" /\ told'[c] = "lost" =>
           \/ exit' = "killed"
           \/ errCh = "error"
           \/ clock >= conn[c].at + WriteTimeout
           \/ main = "shutdown" /\ clock >= since + ShutdownTimeout]_vars
  BY <1>1
<1> QED BY <1>2, LifeInvariant, PTL DEF Spec, GraceHonoured

\* An exit with 0 takes no answer from anybody.
THEOREM CleanExitHolds == Spec => CleanExit
<1>1. ASSUME LifeInv, [Next]_vars, exit # "ok", exit' = "ok", NEW c \in Clients
      PROVE  outcome[c] # "running" /\ told'[c] = told[c]
  <2>1. Poll
    BY <1>1 DEF Next, vars, process, RunStep, EnsureFails, SelectError, Deadline, Kill, End,
       ClientStep, Start, Ensured, SelectStop, Listen, ListenFails, AcceptFails, Signal,
       Connect, Discover, Call, Leave, Respond, Accepted, Tick
  <2>2. Busy = {} /\ End("ok")
    BY <1>1, <2>1 DEF Poll, process
  <2>3. ~Active(c)
    BY <2>2 DEF Busy
  <2>4. told'[c] = IF Active(c) /\ told[c] = "none" THEN "lost" ELSE told[c]
    BY <2>2 DEF End
  <2>5. CallOK(c)
    BY <1>1 DEF LifeInv
  <2>6. outcome[c] # "running"
    BY <2>3, <2>5 DEF CallOK
  <2> QED BY <2>3, <2>4, <2>6
<1>2. LifeInv /\ [Next]_vars =>
        [exit # "ok" /\ exit' = "ok" =>
           \A c \in Clients : outcome[c] # "running" /\ told'[c] = told[c]]_vars
  BY <1>1
<1> QED BY <1>2, LifeInvariant, PTL DEF Spec, CleanExit
=============================================================================
