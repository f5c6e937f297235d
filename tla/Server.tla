------------------------------- MODULE Server -------------------------------
(***************************************************************************)
(* The server as a whole, for the one thing it does that cannot be undone: *)
(* signing in (OAuthFlow), the MCP endpoint that makes a session of the    *)
(* access token a request carries (handler.go), and deleting a project in  *)
(* two tool calls (ProjectDelete), under one clock, one key and one        *)
(* process that stops and starts.                                          *)
(*                                                                         *)
(* Nothing but sealed tokens connects the parts: who may delete follows    *)
(* from six requests of perhaps several clients and sessions, of which     *)
(* the server remembers none.  A bearer token is looked at when the header *)
(* of a request has arrived; the tool runs when its body has, which may be *)
(* a read timeout later.                                                   *)
(***************************************************************************)
EXTENDS OAuthFlow

CONSTANTS
  Calls, Projects, ApprovalTTL, CommitTimeout, MaxApprovals,   \* see ProjectDelete
  ReadTimeout,   \* server.go:16 (30s), header and body of a request
  MaxReading     \* bound of the model

ASSUME ServerAssumption ==
  /\ ApprovalTTL \in Int /\ CommitTimeout \in Nat /\ MaxApprovals \in Nat
  /\ ReadTimeout \in Nat /\ MaxReading \in Nat
  /\ None \notin Projects /\ None \notin Modes

VARIABLES
  approvals, commit, projects, queued, outcome, accepted,   \* see ProjectDelete
  reading   \* the sessions of authenticated requests that are still being read,
            \* with the moment of their authentication

signIn == <<process, issued, login, vouched>>
tools == <<approvals, commit, projects, queued, outcome, accepted>>
serverVars == <<vars, tools, reading>>

Access == INSTANCE ToolAccess

Gate == INSTANCE ProjectDelete WITH Sessions <- Access!Credentials

ServerInit == Init /\ Gate!Init /\ reading = {}

-----------------------------------------------------------------------------

\* Faulty variant, never used: the handler does not pass the mode on, and the
\* tools take a missing one for read-write.
ModeForgotten(token) ==
  [kind |-> "bearer", apiToken |-> token.data.apiToken, mode |-> "read_write"]

\* bearerOnly, and the context that the tools read.
Session(token) ==
  [kind |-> "bearer", apiToken |-> token.data.apiToken, mode |-> SessionMode(token)]

\* Faulty variant, never used: what is still being read is not cut off.
ReadsForEver ==
  /\ Tick /\ Gate!Tick
  /\ UNCHANGED reading

\* RequireBearerToken and bearerOnly let a request in.  Requests let in alike
\* are one member of `reading`, which stands for any number of them.
Authenticate ==
  /\ Cardinality(reading) < MaxReading   \* bound
  /\ \E token \in issued :
       /\ Serves(token)
       /\ reading' = reading \cup {[cred |-> Session(token), at |-> clock]}
  /\ UNCHANGED <<clock, signIn, tools>>

\* What the requests carry that have been read: a session that was authenticated
\* before, or Basic credentials or nothing, which nothing is asked of.
Carried ==
  {r.cred : r \in reading} \cup {cred \in Access!Credentials : cred.kind # "bearer"}

SignIn ==
  /\ (\E c \in Clients : ClientStep(c)) \/ (\E h \in Submits : LoginStep(h))
  /\ UNCHANGED <<tools, reading>>

ToolCall ==
  /\ \E cred \in Carried :
       Gate!Prepare(cred) \/ \E c \in Calls : Gate!Commit(c, cred)
  /\ UNCHANGED <<signIn, reading>>

\* The DELETE, at Black Duck and back.
Deleting ==
  /\ \E c \in Calls :
       Gate!CommitReturns(c) \/ Gate!DeleteAccepted(c) \/ Gate!ProjectDeleted(c)
  /\ UNCHANGED <<signIn, reading>>

ServerRestart == Restart /\ Gate!Restart /\ reading' = {}

\* Requests that are not read in time are cut off.
ServerTick ==
  /\ Tick /\ Gate!Tick
  /\ reading' = {r \in reading : clock < r.at + ReadTimeout}

ServerNext ==
  SignIn \/ Authenticate \/ ToolCall \/ Deleting \/ ServerRestart \/ ServerTick

ServerSpec == ServerInit /\ [][ServerNext]_serverVars

-----------------------------------------------------------------------------
(* What must hold.                                                         *)

\* cred, used at time t in the given process, was the session of a sign-in in
\* which Black Duck accepted the API token and the user chose READ-WRITE, begun
\* not too long ago, and in this very process if its key is ephemeral.  A request
\* outlives its access token by the time it takes to be read.
SignedIn(cred, t, server) ==
  \E token \in issued :
    /\ token.typ = "access_token" /\ token.data.apiToken = cred.apiToken
    /\ <<cred.apiToken, "read_write">> \in vouched
    /\ token.data.mode = "read_write"
    /\ t < token.data.began + 2 * CodeTTL + LoginTimeout + AccessTTL + ReadTimeout
    /\ SecretConfigured \/ token.data.bornIn = server

\* End to end: a project goes only because two such sessions wanted it, one
\* that prepared an approval of that very project and one that committed it
\* while it lived.  Whatever else clients hold and send, in whatever order, and
\* whenever the process is restarted, nothing else deletes (oauth.go:364-494,
\* handler.go:135-166, tools.go:255-309).
DeletionAuthorised ==
  [][\A p \in projects \ projects' :
       \E c \in queued \ queued', approval \in approvals :
         /\ accepted[c] = 1
         /\ commit[c].project = p /\ approval.data.project = p
         /\ SignedIn(commit[c].by, commit[c].since, commit[c].process)
         /\ SignedIn(approval.data.by, approval.mintedAt, approval.data.bornIn)
         /\ commit[c].since < approval.mintedAt + ApprovalTTL
         /\ SecretConfigured \/ approval.data.bornIn = commit[c].process]_serverVars
=============================================================================
