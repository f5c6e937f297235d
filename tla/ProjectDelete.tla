---------------------------- MODULE ProjectDelete ----------------------------
(***************************************************************************)
(* Deleting a project in two tool calls (tools.go:255-314): the prepare    *)
(* call seals an approval for the project and sends nothing; the commit    *)
(* call checks the approval and sends the DELETE with its own session's    *)
(* API token.  The server remembers neither: an approval can be committed  *)
(* by any session that may write, any number of times, concurrently, while *)
(* it lives, also by a process started later.  `approvals` is what the     *)
(* sessions hold.                                                          *)
(*                                                                         *)
(* DeleteJSON is taken at its promise (AtMostOnceCall, which the client    *)
(* implements): while it runs, and after it gave up, Black Duck may take   *)
(* the DELETE on.  It carries it out before it answers (200, 204) or in    *)
(* its own time (202, client.go:321): until then the project is there, for *)
(* a reader (SKILL.md:136) and for the next DELETE.                        *)
(***************************************************************************)
EXTENDS ToolAccess, TokenService, FiniteSets

CONSTANTS
  Calls,          \* the commit calls the process ever serves
  Sessions,       \* the credentials requests carry
  Projects,       \* project identifiers, never used again after a deletion
  ApprovalTTL,    \* MCP_APPROVAL_TTL
  CommitTimeout,  \* how long a commit call lasts: its deadline (60s) and a wait
                  \* for a mutex (BlackduckClient!BoundedDuration)
  SecretConfigured,   \* MCP_AUTH_SECRET is set, or the key is made at startup
  MaxClock, MaxApprovals, MaxRestarts   \* bounds of the model

ASSUME DeleteAssumption ==
  /\ Sessions \subseteq Credentials
  /\ ApprovalTTL \in Int /\ CommitTimeout \in Nat
  /\ SecretConfigured \in BOOLEAN
  /\ MaxClock \in Nat /\ MaxApprovals \in Nat /\ MaxRestarts \in Nat

ASSUME NoProjectAssumption == None \notin Projects

VARIABLES
  clock,
  process,     \* how often the server was restarted
  approvals,   \* every approval handed out so far
  commit,      \* the local state of each commit call
  projects,    \* upstream: the projects that exist
  queued,      \* upstream: the calls whose DELETE is not carried out yet
  outcome, accepted   \* DeleteJSON of each commit call, see AtMostOnceCall

vars == <<clock, process, approvals, commit, projects, queued, outcome, accepted>>

Delete == INSTANCE AtMostOnceCall

\* Faulty variant, never used: the secret is a built-in default.
BuiltInKey == 0

\* config.Load: the configured secret, or a fresh one for each process.
SealingKey == IF SecretConfigured THEN 0 ELSE process

OpProjectDelete == "blackduck_project_delete"

\* by and bornIn are history: the credential that prepared it, in which process.
Approval == [operation : {OpProjectDelete}, project : Projects, by : Sessions,
             bornIn : Nat]

ApprovalFor(p, s) ==
  Mint(SealingKey, "approval", ApprovalTTL, clock,
       [operation |-> OpProjectDelete, project |-> p, by |-> s, bornIn |-> process])

NoCommit == [by |-> None, project |-> None, since |-> 0, process |-> 0, existed |-> FALSE]

Init ==
  /\ clock = 0
  /\ process = 0
  /\ approvals = {}
  /\ commit = [c \in Calls |-> NoCommit]
  /\ projects \in SUBSET Projects
  /\ queued = {}
  /\ Delete!Init

-----------------------------------------------------------------------------
(* Faulty variants, never used.                                            *)

\* The approval is only unsealed: its expiry is not looked at.
ExpiredAccepted(token) ==
  Opens(SealingKey, token) /\ token.data.operation = OpProjectDelete

\* The answer "there is no such project" counts as success.
GoneIsSuccess(c) ==
  /\ \/ \E o \in {"ok", "refused", "error"} : Delete!Return(c, o)
     \/ /\ outcome[c] = "running"
        /\ commit[c].project \notin projects
        /\ outcome' = [outcome EXCEPT ![c] = "ok"]
        /\ UNCHANGED accepted
  /\ UNCHANGED <<clock, process, approvals, commit, projects, queued>>

\* Nothing asks whether the call names a project.
ProjectNotRequired(s) ==
  /\ MayCall(s, "blackduck_project_delete_prepare")
  /\ Cardinality(approvals) < MaxApprovals
  /\ \E p \in Projects \cup {None} :
       approvals' = approvals \cup {ApprovalFor(p, s)}
  /\ UNCHANGED <<clock, process, commit, projects, queued, outcome, accepted>>

-----------------------------------------------------------------------------
(* The tools.                                                              *)

\* blackduck_project_delete_prepare: whether the project exists is not asked.
Prepare(s) ==
  /\ MayCall(s, "blackduck_project_delete_prepare")
  /\ Cardinality(approvals) < MaxApprovals   \* bound
  /\ \E p \in Projects :
       approvals' = approvals \cup {ApprovalFor(p, s)}
  /\ UNCHANGED <<clock, process, commit, projects, queued, outcome, accepted>>

Approved(token) ==
  /\ Accepts(SealingKey, "approval", token, clock)
  /\ token.data.operation = OpProjectDelete

\* blackduck_project_delete_commit up to the call of DeleteJSON.  `existed` is
\* history: whether there was a project to delete.
Commit(c, s) ==
  /\ MayCall(s, "blackduck_project_delete_commit")
  /\ WriteEnabled(s)
  /\ \E token \in approvals :
       /\ Approved(token)
       /\ commit' = [commit EXCEPT ![c] =
                       [by |-> s, project |-> token.data.project, since |-> clock,
                        process |-> process,
                        existed |-> token.data.project \in projects]]
  /\ Delete!Start(c)
  /\ UNCHANGED <<clock, process, approvals, projects, queued>>

\* What DeleteJSON returns is what the caller is told.
CommitReturns(c) ==
  /\ \E o \in {"ok", "refused", "error"} : Delete!Return(c, o)
  /\ UNCHANGED <<clock, process, approvals, commit, projects, queued>>

\* Black Duck takes the DELETE on; a project that is gone answers 404.
DeleteAccepted(c) ==
  /\ commit[c].project \in projects
  /\ Delete!Accept(c)
  /\ queued' = queued \cup {c}
  /\ UNCHANGED <<clock, process, approvals, commit, projects>>

\* It carries it out, before the answer or any time later.
ProjectDeleted(c) ==
  /\ c \in queued
  /\ projects' = projects \ {commit[c].project}
  /\ queued' = queued \ {c}
  /\ UNCHANGED <<clock, process, approvals, commit, outcome, accepted>>

\* The process ends, its commit calls with it, and starts again.  What they sent
\* may still be taken on, and what was taken on is carried out.
Restart ==
  /\ process < MaxRestarts   \* bound
  /\ process' = process + 1
  /\ outcome' = [c \in Calls |->
                   IF outcome[c] = "running" THEN "error" ELSE outcome[c]]
  /\ UNCHANGED <<clock, approvals, commit, projects, queued, accepted>>

\* No commit call outlives its deadline.
Tick ==
  /\ clock < MaxClock   \* bound
  /\ \A c \in Calls : outcome[c] = "running" => clock < commit[c].since + CommitTimeout
  /\ clock' = clock + 1
  /\ UNCHANGED <<process, approvals, commit, projects, queued, outcome, accepted>>

CommitStep(c) ==
  \/ \E s \in Sessions : Commit(c, s)
  \/ CommitReturns(c)
  \/ DeleteAccepted(c) \/ ProjectDeleted(c)

Next ==
  \/ \E s \in Sessions : Prepare(s)
  \/ \E c \in Calls : CommitStep(c)
  \/ Restart
  \/ Tick

Spec == Init /\ [][Next]_vars

-----------------------------------------------------------------------------
(* What must hold.                                                         *)

TypeOK ==
  /\ clock \in Nat /\ process \in Nat
  /\ approvals \subseteq [key : Nat, typ : TokenTypes, exp : Int, data : Approval,
                          mintedAt : Nat]
  /\ commit \in [Calls -> [by : Sessions \cup {None}, project : Projects \cup {None},
                           since : Nat, process : Nat, existed : BOOLEAN]]
  /\ projects \subseteq Projects /\ queued \subseteq Calls
  /\ outcome \in [Calls -> Delete!Outcomes]
  /\ accepted \in [Calls -> {0, 1}]

\* The user of the session chose READ-WRITE when signing in.
ReadWrite(s) == s.kind = "bearer" /\ s.mode = "read_write"

\* An approval for p, prepared by a session that may write, that was in its
\* lifetime at time t and good in the given process: a restart that changes the
\* key voids it (config.go:118-126).
ApprovedAt(p, t, server) ==
  \E token \in approvals :
    /\ token.data.project = p
    /\ ReadWrite(token.data.by)
    /\ token.mintedAt <= t /\ t < token.mintedAt + ApprovalTTL
    /\ SecretConfigured \/ token.data.bornIn = server

\* "Only available with a READ-WRITE token and uses a prepare/commit safety
\* gate" (skills/blackduck-customer-service/SKILL.md:117): a project only goes
\* for a commit call of a read-write session, one that was not told it was
\* refused, and only when that very project was approved in such a session and
\* the approval was alive when the commit began (tools.go:283-299), whoever
\* prepared, whoever committed, over restarts, and however late Black Duck takes
\* the DELETE on or carries it out.
DeletionApproved ==
  [][\A p \in projects \ projects' :
       \E c \in queued \ queued' :
         /\ accepted[c] = 1 /\ outcome[c] # "refused"
         /\ commit[c].project = p
         /\ ReadWrite(commit[c].by)
         /\ ApprovedAt(p, commit[c].since, commit[c].process)]_vars

\* Approvals are not used up (tools.go:286), so one may be committed at once by
\* many, again after an error and again after a success.  Whoever is told "ok"
\* (tools.go:309) began while there was a project to delete, had its own DELETE
\* taken on, and the project is gone or about to go.
NoFalseSuccess ==
  \A c \in Calls :
    outcome[c] = "ok" =>
      /\ commit[c].existed
      /\ accepted[c] = 1
      /\ commit[c].project \in projects => c \in queued
=============================================================================
