---------------------------- MODULE ServerProofs ----------------------------
(***************************************************************************)
(* Who may delete a project, end to end, for any clients, tools' calls,    *)
(* lifetimes, key policy, number of restarts and resolution of the clock.  *)
(*                                                                         *)
(* The sign-in part goes its own way (ServerSignsIn), so that what is      *)
(* proved of it holds here.  The invariant adds what approvals and commit  *)
(* calls carry over from the sign-in: the session that made them was       *)
(* signed in then (ApprovalBacked, CommitBacked), because the request was  *)
(* let in a read timeout before at most (ReadingBacked).                   *)
(***************************************************************************)
EXTENDS Server, OAuthFlowProofs

ApprovalBacked(approval) ==
  /\ approval.mintedAt \in Nat
  /\ approval.exp = Unix(approval.mintedAt + ApprovalTTL)
  /\ approval.key = IF SecretConfigured THEN 0 ELSE approval.data.bornIn
  /\ SignedIn(approval.data.by, approval.mintedAt, approval.data.bornIn)

\* A request that is still read stays good for as long as that may take.
ReadingBacked(r) ==
  /\ r.at \in Nat /\ r.at <= clock /\ clock <= r.at + ReadTimeout
  /\ r.cred \in Access!Credentials
  /\ r.cred.mode = "read_write" => SignedIn(r.cred, r.at + ReadTimeout, process)

\* An approval that a commit of p, begun at t in the given process, rests on.
Approves(approval, p, t, server) ==
  /\ approval.data.project = p
  /\ SignedIn(approval.data.by, approval.mintedAt, approval.data.bornIn)
  /\ t < approval.mintedAt + ApprovalTTL
  /\ SecretConfigured \/ approval.data.bornIn = server

CommitBacked(c) ==
  outcome[c] # "idle" =>
    /\ SignedIn(commit[c].by, commit[c].since, commit[c].process)
    /\ \E approval \in approvals :
         Approves(approval, commit[c].project, commit[c].since, commit[c].process)

ServerInv ==
  /\ IInv
  /\ DOMAIN commit = Calls /\ commit = [c \in Calls |-> commit[c]]
  /\ DOMAIN outcome = Calls /\ outcome = [c \in Calls |-> outcome[c]]
  /\ DOMAIN accepted = Calls /\ accepted = [c \in Calls |-> accepted[c]]
  /\ \A approval \in approvals : ApprovalBacked(approval)
  /\ \A c \in Calls : CommitBacked(c)
  /\ queued \subseteq Calls
  /\ \A c \in queued : accepted[c] = 1 /\ outcome[c] # "idle"
  /\ \A r \in reading : ReadingBacked(r)

-----------------------------------------------------------------------------
(* The sign-in is one of OAuthFlow.                                        *)

LEMMA ServerFlow == [ServerNext]_serverVars => [Next]_vars
<1> SUFFICES ASSUME [ServerNext]_serverVars PROVE [Next]_vars
  OBVIOUS
<1>1. CASE SignIn
  BY <1>1 DEF SignIn, Next
<1>2. CASE ToolCall
  BY <1>2 DEF ToolCall, signIn, vars, Gate!Prepare, Gate!Commit
<1>3. CASE Deleting
  BY <1>3 DEF Deleting, signIn, vars, Gate!CommitReturns, Gate!DeleteAccepted,
     Gate!ProjectDeleted
<1>4. CASE ServerRestart
  BY <1>4 DEF ServerRestart, Next
<1>5. CASE ServerTick
  BY <1>5 DEF ServerTick, Next
<1>6. CASE UNCHANGED serverVars
  BY <1>6 DEF serverVars
<1>7. CASE Authenticate
  BY <1>7 DEF Authenticate, signIn, vars
<1> QED BY <1>1, <1>2, <1>3, <1>4, <1>5, <1>6, <1>7 DEF ServerNext

\* What the server does to sign users in is what OAuthFlow says, whatever its
\* tools do: all that is proved of sign-ins holds of the server.
THEOREM ServerSignsIn == ServerSpec => Spec
<1>1. ServerInit => Init
  BY DEF ServerInit
<1> QED BY <1>1, ServerFlow, PTL DEF ServerSpec, Spec

\* Tokens and accepted logins are only added.
LEMMA FlowGrows ==
  ASSUME [Next]_vars
  PROVE  issued \subseteq issued' /\ vouched \subseteq vouched'
<1>1. CASE Next
  BY <1>1 DEF Next, ClientStep, LoginStep, Register, Authorize, Redeem, SubmitLogin,
     LoginAccepted, LoginRefused, Restart, Tick, Issue
<1>2. CASE UNCHANGED vars
  BY <1>2 DEF vars
<1> QED BY <1>1, <1>2

-----------------------------------------------------------------------------
(* What holds when a tool is called.                                       *)

\* A request that is let in and may write is that of a sign-in, and will be when
\* it has been read.
LEMMA LetInSignedIn ==
  ASSUME IInv, NEW token \in issued, Serves(token), SessionMode(token) = "read_write",
         NEW cred, cred = Session(token)
  PROVE  SignedIn(cred, clock + ReadTimeout, process)
<1>1. cred.apiToken = token.data.apiToken
  BY DEF Session
<1>2. token.typ = "access_token" /\ token.data.mode = "read_write" /\ Live(Key, token, clock)
  BY ServedToken DEF SessionMode
<1>3. <<cred.apiToken, "read_write">> \in vouched
  BY <1>1, SessionsVouchedI DEF SessionsVouched
<1>4. clock < token.data.began + 2 * CodeTTL + LoginTimeout + AccessTTL
  BY SignInBoundedI DEF SignInBounded
<1>5. SecretConfigured \/ token.data.bornIn = process
  BY <1>2, OpensOwnI DEF OpensOwn, Live
<1>6. /\ clock \in Nat /\ token.data.began \in Nat /\ ReadTimeout \in Nat
      /\ CodeTTL \in Int /\ LoginTimeout \in Nat /\ AccessTTL \in Int
  BY ServedToken, ServerAssumption, LifetimeAssumption DEF Payload
<1>7. clock + ReadTimeout < token.data.began + 2 * CodeTTL + LoginTimeout + AccessTTL + ReadTimeout
  BY <1>4, <1>6
<1> QED BY <1>1, <1>2, <1>3, <1>5, <1>7 DEF SignedIn

\* The session of a request that has been read, and that may write.
LEMMA WriterSignedIn ==
  ASSUME ServerInv, NEW cred \in Carried, cred.kind = "bearer", cred.mode = "read_write"
  PROVE  SignedIn(cred, clock, process)
<1>1. PICK r \in reading : cred = r.cred
  BY DEF Carried
<1>2. r.at \in Nat /\ clock <= r.at + ReadTimeout /\ SignedIn(cred, r.at + ReadTimeout, process)
  BY <1>1 DEF ServerInv, ReadingBacked
<1>3. PICK token \in issued :
        /\ token.typ = "access_token" /\ token.data.apiToken = cred.apiToken
        /\ <<cred.apiToken, "read_write">> \in vouched
        /\ token.data.mode = "read_write"
        /\ r.at + ReadTimeout <
             token.data.began + 2 * CodeTTL + LoginTimeout + AccessTTL + ReadTimeout
        /\ SecretConfigured \/ token.data.bornIn = process
  BY <1>2 DEF SignedIn
<1>4. /\ clock \in Nat /\ token.data.began \in Nat /\ ReadTimeout \in Nat
      /\ CodeTTL \in Int /\ LoginTimeout \in Nat /\ AccessTTL \in Int
  BY <1>3, ServerAssumption, LifetimeAssumption DEF ServerInv, IInv, TypeOK, Token, Payload
<1>5. clock < token.data.began + 2 * CodeTTL + LoginTimeout + AccessTTL + ReadTimeout
  BY <1>2, <1>3, <1>4
<1> QED BY <1>3, <1>5 DEF SignedIn

\* The tools that delete are registered for such sessions only.
LEMMA PreparerWrites ==
  ASSUME NEW cred, Gate!MayCall(cred, "blackduck_project_delete_prepare")
  PROVE  cred.kind = "bearer" /\ cred.mode = "read_write"
BY DEF Gate!MayCall, Gate!Tools, Gate!WriteEnabled, Gate!ProjectTools, Gate!UserTools

-----------------------------------------------------------------------------
(* Preservation.                                                           *)

LEMMA SignedInStays ==
  ASSUME issued \subseteq issued', vouched \subseteq vouched'
  PROVE  \A cred, t, server : SignedIn(cred, t, server) => SignedIn(cred, t, server)'
BY DEF SignedIn

\* A step that leaves approvals alone and starts no commit keeps what they
\* carry.
LEMMA CarriedStays ==
  ASSUME ServerInv, [ServerNext]_serverVars, UNCHANGED <<approvals, commit>>,
         \A c \in Calls : outcome[c] = "idle" => outcome'[c] = "idle"
  PROVE  /\ \A approval \in approvals' : ApprovalBacked(approval)'
         /\ \A c \in Calls : CommitBacked(c)'
<1>1. \A cred, t, server : SignedIn(cred, t, server) => SignedIn(cred, t, server)'
  BY ServerFlow, FlowGrows, SignedInStays
<1>2. \A approval \in approvals' : ApprovalBacked(approval)'
  BY <1>1 DEF ServerInv, ApprovalBacked
<1>3. \A c \in Calls : CommitBacked(c)'
  BY <1>1 DEF ServerInv, CommitBacked, Approves
<1> QED BY <1>2, <1>3

\* No step but of the clock disturbs a request that is being read.
LEMMA ReadingStays ==
  ASSUME ServerInv, [ServerNext]_serverVars, UNCHANGED <<clock, process>>
  PROVE  \A r \in reading : ReadingBacked(r)'
BY ServerFlow, FlowGrows, SignedInStays DEF ServerInv, ReadingBacked

LEMMA ServerPrepare ==
  ASSUME ServerInv, [ServerNext]_serverVars, NEW cred \in Carried, Gate!Prepare(cred),
         UNCHANGED reading
  PROVE  ServerInv'
<1>1. IInv'
  BY ServerFlow, NextIInv DEF ServerInv
<1>2. PICK p \in Projects : approvals' = approvals \cup {Gate!ApprovalFor(p, cred)}
  BY DEF Gate!Prepare
<1>3. PICK new : new = Gate!ApprovalFor(p, cred)
  OBVIOUS
<1>4. /\ new.mintedAt = clock /\ new.exp = Unix(clock + ApprovalTTL)
      /\ new.key = IF SecretConfigured THEN 0 ELSE process
      /\ new.data.by = cred /\ new.data.bornIn = process
  BY <1>3 DEF Gate!ApprovalFor, Gate!Mint, Gate!SealingKey, Gate!Unix, Unix
<1>5. SignedIn(cred, clock, process) /\ clock \in Nat
  BY PreparerWrites, WriterSignedIn DEF Gate!Prepare, ServerInv, IInv, TypeOK
<1>6. \A d, t, server : SignedIn(d, t, server) => SignedIn(d, t, server)'
  BY ServerFlow, FlowGrows, SignedInStays
<1>7. ApprovalBacked(new)'
  BY <1>4, <1>5, <1>6 DEF ApprovalBacked
<1>8. \A approval \in approvals : ApprovalBacked(approval)'
  BY <1>6 DEF ServerInv, ApprovalBacked
<1>9. UNCHANGED <<commit, outcome, accepted, queued, clock, process>>
  BY DEF Gate!Prepare
<1>10. \A c \in Calls : CommitBacked(c)'
  BY <1>2, <1>6, <1>9 DEF ServerInv, CommitBacked, Approves
<1>11. \A r \in reading' : ReadingBacked(r)'
  BY <1>9, ReadingStays
<1> QED BY <1>1, <1>2, <1>3, <1>7, <1>8, <1>9, <1>10, <1>11 DEF ServerInv

LEMMA ServerCommit ==
  ASSUME ServerInv, [ServerNext]_serverVars, NEW cred \in Carried, NEW c \in Calls,
         Gate!Commit(c, cred), UNCHANGED reading
  PROVE  ServerInv'
<1>1. IInv'
  BY ServerFlow, NextIInv DEF ServerInv
<1>2. PICK token \in approvals :
        /\ Gate!Approved(token)
        /\ commit' = [commit EXCEPT ![c] =
                        [by |-> cred, project |-> token.data.project, since |-> clock,
                         process |-> process,
                         existed |-> token.data.project \in projects]]
  BY DEF Gate!Commit
<1> DEFINE p == token.data.project
           x == p \in projects
           l == [by |-> cred, project |-> p, since |-> clock, process |-> process, existed |-> x]
<1>3. commit' = [commit EXCEPT ![c] = l]
  BY <1>2
<1>4. p = token.data.project
  OBVIOUS
<1> HIDE DEF p, x
<1>5. l.by = cred /\ l.project = p /\ l.since = clock /\ l.process = process
  OBVIOUS
<1> HIDE DEF l
<1>6. /\ commit' = [commit EXCEPT ![c] = l]
      /\ outcome' = [outcome EXCEPT ![c] = "running"]
      /\ UNCHANGED <<approvals, accepted, queued, clock, process>>
  BY <1>3 DEF Gate!Commit, Gate!Delete!Start
<1>7. ApprovalBacked(token) /\ clock \in Nat
  BY DEF ServerInv, IInv, TypeOK
<1>8. clock < token.mintedAt + ApprovalTTL
  <2>1. Unix(clock) < Unix(token.mintedAt + ApprovalTTL)
    BY <1>2, <1>7 DEF Gate!Approved, Gate!Accepts, Gate!Live, Gate!Unix, Unix,
       ApprovalBacked
  <2>2. token.mintedAt + ApprovalTTL \in Int
    BY <1>7, ServerAssumption DEF ApprovalBacked
  <2> QED BY <1>7, <2>1, <2>2, UnixBefore
<1>9. SecretConfigured \/ token.data.bornIn = process
  BY <1>2, <1>7 DEF Gate!Approved, Gate!Accepts, Gate!Live, Gate!Opens,
     Gate!SealingKey, ApprovalBacked
<1>10. SignedIn(cred, clock, process)
  BY WriterSignedIn DEF Gate!Commit, Gate!WriteEnabled, ServerInv
<1>11. \A d, t, server : SignedIn(d, t, server) => SignedIn(d, t, server)'
  BY ServerFlow, FlowGrows, SignedInStays
<1>12. \A approval \in approvals' : ApprovalBacked(approval)'
  BY <1>6, <1>11 DEF ServerInv, ApprovalBacked
<1>13. Approves(token, p, clock, process)
  BY <1>4, <1>7, <1>8, <1>9 DEF Approves, ApprovalBacked
<1>14. \A a, q, t, server : Approves(a, q, t, server) => Approves(a, q, t, server)'
  BY <1>11 DEF Approves
<1>15. ASSUME NEW d \in Calls PROVE CommitBacked(d)'
  <2>1. CASE d = c
    <3>1. commit'[d] = l
      BY <1>6, <2>1 DEF ServerInv
    <3> QED BY <1>5, <1>6, <1>10, <1>11, <1>13, <1>14, <3>1 DEF CommitBacked
  <2>2. CASE d # c
    <3>1. commit'[d] = commit[d] /\ outcome'[d] = outcome[d] /\ CommitBacked(d)
      BY <1>6, <2>2 DEF ServerInv
    <3> QED BY <1>6, <1>11, <1>14, <3>1 DEF CommitBacked
  <2> QED BY <2>1, <2>2
<1>16. \A r \in reading' : ReadingBacked(r)'
  BY <1>6, ReadingStays
<1>17. \A d \in queued' : accepted'[d] = 1 /\ outcome'[d] # "idle"
  BY <1>6 DEF ServerInv
<1> QED BY <1>1, <1>6, <1>12, <1>15, <1>16, <1>17 DEF ServerInv

LEMMA SessionCredential ==
  ASSUME IInv, NEW token \in issued, Serves(token)
  PROVE  Session(token) \in Access!Credentials
<1>1. <<token.data.apiToken, SessionMode(token)>> \in vouched
  BY SessionsVouchedI DEF SessionsVouched
<1>2. token.data.apiToken \in ApiTokens /\ SessionMode(token) \in Modes
  BY <1>1 DEF IInv, TypeOK
<1> QED BY <1>2 DEF Session, Access!Credentials, Modes

LEMMA ServerReading ==
  ASSUME ServerInv, [ServerNext]_serverVars, ~ToolCall
  PROVE  \A r \in reading' : ReadingBacked(r)'
<1>1. /\ issued \subseteq issued' /\ vouched \subseteq vouched'
      /\ clock \in Nat /\ ReadTimeout \in Nat
  BY ServerFlow, FlowGrows, ServerAssumption DEF ServerInv, IInv, TypeOK
<1>2. CASE Authenticate
  <2>1. PICK token \in issued :
          Serves(token) /\ reading' = reading \cup {[cred |-> Session(token), at |-> clock]}
    BY <1>2 DEF Authenticate
  <2>2. PICK r : r = [cred |-> Session(token), at |-> clock]
    OBVIOUS
  <2>3. r.cred = Session(token) /\ r.at = clock /\ UNCHANGED <<clock, process>>
    BY <1>2, <2>2 DEF Authenticate, signIn
  <2>4. r.cred \in Access!Credentials
    BY <2>1, <2>3, SessionCredential DEF ServerInv
  <2>5. r.cred.mode = "read_write" => SignedIn(r.cred, clock + ReadTimeout, process)
    <3>1. r.cred.mode = SessionMode(token)
      BY <2>3 DEF Session
    <3> QED BY <2>1, <2>3, <3>1, LetInSignedIn DEF ServerInv
  <2>6. ReadingBacked(r)
    BY <1>1, <2>3, <2>4, <2>5 DEF ReadingBacked
  <2>7. ReadingBacked(r)'
    BY <1>1, <2>3, <2>6, SignedInStays DEF ReadingBacked
  <2> QED BY <2>1, <2>2, <2>3, <2>7, ReadingStays
<1>3. CASE SignIn \/ Deleting \/ UNCHANGED serverVars
  <2>1. UNCHANGED <<clock, process, reading>>
    BY <1>3 DEF SignIn, Deleting, signIn, serverVars, vars, ClientStep, LoginStep, Register,
       Authorize, Redeem, SubmitLogin, LoginAccepted, LoginRefused, Gate!CommitReturns,
       Gate!DeleteAccepted, Gate!ProjectDeleted
  <2> QED BY <2>1, ReadingStays
<1>4. CASE ServerRestart
  BY <1>4 DEF ServerRestart
<1>5. CASE ServerTick
  <2>1. clock' = clock + 1 /\ UNCHANGED process
    BY <1>5 DEF ServerTick, Tick
  <2>2. \A r \in reading' : r \in reading /\ clock < r.at + ReadTimeout
    BY <1>5 DEF ServerTick
  <2> QED BY <1>1, <2>1, <2>2, SignedInStays DEF ServerInv, ReadingBacked
<1> QED BY <1>2, <1>3, <1>4, <1>5 DEF ServerNext

LEMMA ServerRest ==
  ASSUME ServerInv, [ServerNext]_serverVars, ~ToolCall
  PROVE  ServerInv'
<1>1. IInv'
  BY ServerFlow, NextIInv DEF ServerInv
<1>2. /\ UNCHANGED <<approvals, commit>>
      /\ DOMAIN outcome' = Calls /\ outcome' = [c \in Calls |-> outcome'[c]]
      /\ DOMAIN accepted' = Calls /\ accepted' = [c \in Calls |-> accepted'[c]]
      /\ \A c \in Calls : outcome[c] = "idle" <=> outcome'[c] = "idle"
      /\ queued' \subseteq Calls
      /\ \A c \in queued' : accepted'[c] = 1 /\ outcome'[c] # "idle"
  <2>1. CASE SignIn
    BY <2>1 DEF SignIn, tools, ServerInv
  <2>2. CASE Deleting
    BY <2>2 DEF Deleting, ServerInv, Gate!CommitReturns, Gate!DeleteAccepted,
       Gate!ProjectDeleted, Gate!Delete!Return, Gate!Delete!Accept
  <2>3. CASE ServerRestart
    BY <2>3 DEF ServerRestart, ServerInv, Gate!Restart
  <2>4. CASE ServerTick
    BY <2>4 DEF ServerTick, ServerInv, Gate!Tick
  <2>5. CASE UNCHANGED serverVars
    BY <2>5 DEF serverVars, tools, ServerInv
  <2>6. CASE Authenticate
    BY <2>6 DEF Authenticate, tools, ServerInv
  <2> QED BY <2>1, <2>2, <2>3, <2>4, <2>5, <2>6 DEF ServerNext
<1>3. \A r \in reading' : ReadingBacked(r)'
  BY ServerReading
<1> QED BY <1>1, <1>2, <1>3, CarriedStays DEF ServerInv

LEMMA ServerInitInv == ServerInit => ServerInv
  BY InitIInv DEF ServerInit, ServerInv, CommitBacked, Gate!Init, Gate!Delete!Init

LEMMA ServerNextInv == ServerInv /\ [ServerNext]_serverVars => ServerInv'
  BY ServerPrepare, ServerCommit, ServerRest DEF ToolCall

\* The invariant above holds in every state of every behaviour of the server.
THEOREM ServerInvHolds == ServerSpec => []ServerInv
  BY ServerInitInv, ServerNextInv, PTL DEF ServerSpec

-----------------------------------------------------------------------------
(* The deletion is one of ProjectDelete.                                   *)

LEMMA CarriedCredentials == ServerInv => Carried \subseteq Access!Credentials
  BY DEF Carried, ServerInv, ReadingBacked

\* Whoever signs in, and whatever the sessions are at each moment, deleting is
\* what ProjectDelete says: all that is proved of it holds of the server.
THEOREM ServerDeletes == ServerSpec => Gate!Spec
<1>1. ServerInit => Gate!Init
  BY DEF ServerInit
<1>2. ServerInv /\ [ServerNext]_serverVars => [Gate!Next]_(Gate!vars)
  <2> SUFFICES ASSUME ServerInv, [ServerNext]_serverVars PROVE [Gate!Next]_(Gate!vars)
    OBVIOUS
  <2>1. CASE SignIn
    <3>1. UNCHANGED <<clock, process>>
      BY <2>1 DEF SignIn, ClientStep, LoginStep, Register, Authorize, Redeem,
         SubmitLogin, LoginAccepted, LoginRefused
    <3> QED BY <2>1, <3>1 DEF SignIn, tools, Gate!vars
  <2>2. CASE ToolCall
    BY <2>2, CarriedCredentials DEF ToolCall, Gate!Next, Gate!CommitStep
  <2>3. CASE Deleting
    BY <2>3 DEF Deleting, Gate!Next, Gate!CommitStep
  <2>4. CASE ServerRestart
    BY <2>4 DEF ServerRestart, Gate!Next
  <2>5. CASE ServerTick
    BY <2>5 DEF ServerTick, Gate!Next
  <2>6. CASE UNCHANGED serverVars
    BY <2>6 DEF serverVars, vars, tools, Gate!vars
  <2>7. CASE Authenticate
    BY <2>7 DEF Authenticate, tools, signIn, Gate!vars
  <2> QED BY <2>1, <2>2, <2>3, <2>4, <2>5, <2>6, <2>7 DEF ServerNext
<1> QED BY <1>1, <1>2, ServerInvHolds, PTL DEF ServerSpec, Gate!Spec

-----------------------------------------------------------------------------

\* A project is deleted only by the will of two sessions that were signed in
\* read-write with an accepted API token, one preparing and one committing, in
\* time, and in one process if the key is ephemeral.
THEOREM DeletionAuthorisedHolds == ServerSpec => DeletionAuthorised
<1> DEFINE Step ==
      \A p \in projects \ projects' :
        \E c \in queued \ queued', approval \in approvals :
          /\ accepted[c] = 1
          /\ commit[c].project = p /\ approval.data.project = p
          /\ SignedIn(commit[c].by, commit[c].since, commit[c].process)
          /\ SignedIn(approval.data.by, approval.mintedAt, approval.data.bornIn)
          /\ commit[c].since < approval.mintedAt + ApprovalTTL
          /\ SecretConfigured \/ approval.data.bornIn = commit[c].process
<1>1. ServerInv /\ [ServerNext]_serverVars => [Step]_serverVars
  <2> SUFFICES ASSUME ServerInv, ServerNext, NEW p \in projects \ projects'
               PROVE  \E c \in queued \ queued', approval \in approvals :
                        /\ accepted[c] = 1 /\ commit[c].project = p
                        /\ SignedIn(commit[c].by, commit[c].since, commit[c].process)
                        /\ Approves(approval, p, commit[c].since, commit[c].process)
    BY DEF Approves
  <2>1. PICK c \in Calls : Gate!ProjectDeleted(c)
    BY DEF ServerNext, SignIn, Authenticate, ToolCall, Deleting, ServerRestart, ServerTick,
       tools, Gate!Prepare, Gate!Commit, Gate!CommitReturns, Gate!DeleteAccepted,
       Gate!Restart, Gate!Tick
  <2>2. c \in queued \ queued' /\ projects' = projects \ {commit[c].project}
    BY <2>1 DEF Gate!ProjectDeleted
  <2>3. commit[c].project = p /\ CommitBacked(c) /\ accepted[c] = 1 /\ outcome[c] # "idle"
    BY <2>2 DEF ServerInv
  <2> QED BY <2>2, <2>3 DEF CommitBacked
<1>2. ServerSpec => [][Step]_serverVars
  BY <1>1, ServerInvHolds, PTL DEF ServerSpec
<1> QED BY <1>2 DEF DeletionAuthorised

-----------------------------------------------------------------------------
(* What is proved of its parts holds of the server.  The instance of       *)
(* ProjectDelete that comes with its proofs is Gate by another name.       *)

Deletion == INSTANCE ProjectDeleteProofs WITH Sessions <- Access!Credentials

\* What ProjectDelete assumes of its constants, the server's satisfy.
LEMMA DeletionAssumptions ==
  /\ Access!Credentials \subseteq Deletion!Credentials
  /\ ApprovalTTL \in Int /\ CommitTimeout \in Nat
  /\ SecretConfigured \in BOOLEAN
  /\ MaxClock \in Nat /\ MaxApprovals \in Nat /\ MaxRestarts \in Nat
  /\ None \notin Projects
  /\ None \notin ApiTokens \cup {"read_only", "read_write"}
  /\ PerSecond \in Nat \ {0}
BY PerSecondAssumption, ServerAssumption, BoundsAssumption, OAuthNoneAssumption
   DEF Access!Credentials, Deletion!Credentials, Modes

LEMMA SameAccess ==
  /\ \A cred, tool : Gate!MayCall(cred, tool) = Deletion!MayCall(cred, tool)
  /\ \A cred : Gate!WriteEnabled(cred) = Deletion!WriteEnabled(cred)
<1>1. \A cred, method : Gate!Admitted(cred, method) = Deletion!Admitted(cred, method)
  BY Zenon DEF Gate!Admitted, Deletion!Admitted, Gate!PublicMethods, Deletion!PublicMethods
<1>2. \A cred : Gate!WriteEnabled(cred) = Deletion!WriteEnabled(cred)
  BY Zenon DEF Gate!WriteEnabled, Deletion!WriteEnabled
<1>3. \A write : Gate!ProjectTools(write) = Deletion!ProjectTools(write)
  BY Zenon DEF Gate!ProjectTools, Deletion!ProjectTools
<1>4. Gate!UserTools = Deletion!UserTools
  BY Zenon DEF Gate!UserTools, Deletion!UserTools
<1>5. \A cred : Gate!Tools(cred) = Deletion!Tools(cred)
  BY <1>2, <1>3, <1>4, Zenon DEF Gate!Tools, Deletion!Tools
<1> QED BY <1>1, <1>2, <1>5, Zenon DEF Gate!MayCall, Deletion!MayCall

LEMMA SameTokens ==
  /\ \A p, cred : Gate!ApprovalFor(p, cred) = Deletion!ApprovalFor(p, cred)
  /\ \A token : Gate!Approved(token) = Deletion!Approved(token)
<1>1. \A p, cred : Gate!ApprovalFor(p, cred) = Deletion!ApprovalFor(p, cred)
  BY Zenon DEF Gate!ApprovalFor, Deletion!ApprovalFor, Gate!Mint, Deletion!Mint,
     Gate!SealingKey, Deletion!SealingKey, Gate!Unix, Deletion!Unix,
     Gate!OpProjectDelete, Deletion!OpProjectDelete
<1>2. \A token : Gate!Approved(token) = Deletion!Approved(token)
  BY Zenon DEF Gate!Approved, Deletion!Approved, Gate!Accepts, Deletion!Accepts, Gate!Live,
     Deletion!Live, Gate!Opens, Deletion!Opens, Gate!Unix, Deletion!Unix,
     Gate!SealingKey, Deletion!SealingKey, Gate!OpProjectDelete, Deletion!OpProjectDelete
<1> QED BY <1>1, <1>2

LEMMA GateIsDeletion ==
  /\ Gate!Init => Deletion!Init
  /\ [Gate!Next]_(Gate!vars) => [Deletion!Next]_(Deletion!vars)
<1>1. Gate!Init => Deletion!Init
  BY DEF Gate!Init, Deletion!Init, Gate!Delete!Init, Deletion!Delete!Init,
     Gate!NoCommit, Deletion!NoCommit
<1>2. ASSUME NEW cred, Gate!Prepare(cred) PROVE Deletion!Prepare(cred)
  <2>1. Gate!MayCall(cred, "blackduck_project_delete_prepare")
    BY <1>2 DEF Gate!Prepare
  <2>2. Deletion!MayCall(cred, "blackduck_project_delete_prepare")
    BY <2>1, SameAccess, Zenon
  <2>3. PICK p \in Projects : approvals' = approvals \cup {Gate!ApprovalFor(p, cred)}
    BY <1>2 DEF Gate!Prepare
  <2>4. approvals' = approvals \cup {Deletion!ApprovalFor(p, cred)}
    BY <2>3, SameTokens, Zenon
  <2>5. Gate!Cardinality(approvals) = Deletion!Cardinality(approvals)
    BY Zenon DEF Gate!Cardinality, Deletion!Cardinality
  <2>6. /\ Deletion!Cardinality(approvals) < MaxApprovals
        /\ UNCHANGED <<clock, process, commit, projects, queued, outcome, accepted>>
    BY <1>2, <2>5 DEF Gate!Prepare
  <2> QED BY <2>2, <2>4, <2>6 DEF Deletion!Prepare
<1>3. \A c, cred : Gate!Commit(c, cred) => Deletion!Commit(c, cred)
  BY SameAccess, SameTokens DEF Gate!Commit, Deletion!Commit, Gate!Delete!Start,
     Deletion!Delete!Start
<1>4. \A c : Gate!CommitReturns(c) => Deletion!CommitReturns(c)
  BY DEF Gate!CommitReturns, Deletion!CommitReturns, Gate!Delete!Return,
     Deletion!Delete!Return
<1>5. \A c : Gate!DeleteAccepted(c) => Deletion!DeleteAccepted(c)
  BY DEF Gate!DeleteAccepted, Deletion!DeleteAccepted, Gate!Delete!Accept,
     Deletion!Delete!Accept
<1>9. \A c : Gate!ProjectDeleted(c) => Deletion!ProjectDeleted(c)
  BY DEF Gate!ProjectDeleted, Deletion!ProjectDeleted
<1>6. (Gate!Restart => Deletion!Restart) /\ (Gate!Tick => Deletion!Tick)
  BY DEF Gate!Restart, Deletion!Restart, Gate!Tick, Deletion!Tick
<1>7. Gate!Next => Deletion!Next
  BY <1>2, <1>3, <1>4, <1>5, <1>6, <1>9 DEF Gate!Next, Deletion!Next, Gate!CommitStep,
     Deletion!CommitStep
<1>8. UNCHANGED Gate!vars => UNCHANGED Deletion!vars
  BY DEF Gate!vars, Deletion!vars
<1> QED BY <1>1, <1>7, <1>8

LEMMA ServerIsDeletion == ServerSpec => Deletion!Spec
BY GateIsDeletion, ServerDeletes, PTL DEF Gate!Spec, Deletion!Spec

\* On the whole server too, committing approvals many times, by whichever
\* sessions, reports no deletion that was not asked of Black Duck and taken on by
\* it: not of a project that was gone before (tools.go:305-309).
THEOREM ServerNoFalseSuccess == ServerSpec => []Gate!NoFalseSuccess
<1>1. Deletion!Spec => []Deletion!NoFalseSuccess
  BY DeletionAssumptions, Deletion!NoFalseSuccessHolds
<1>2. Deletion!NoFalseSuccess => Gate!NoFalseSuccess
  BY Zenon DEF Deletion!NoFalseSuccess, Gate!NoFalseSuccess
<1> QED BY <1>1, <1>2, ServerIsDeletion, PTL

\* On the whole server too, nothing that tool calls do disturbs a sign-in: the
\* access tokens that are served were vouched for and in time, and clients cannot tell the stateless server from
\* one that keeps tables.
THEOREM ServerSignsInSafely ==
  ServerSpec => /\ [](SessionsVouched /\ SignInBounded)
                /\ ActsAsStateful
<1>1. IInv => SessionsVouched /\ SignInBounded
  BY SessionsVouchedI, SignInBoundedI
<1> QED BY <1>1, ServerSignsIn, InvariantHolds, ActsAsStatefulHolds, PTL
=============================================================================
