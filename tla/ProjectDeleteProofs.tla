------------------------- MODULE ProjectDeleteProofs -------------------------
(***************************************************************************)
(* Safety of deleting projects, for any sessions, projects, approval       *)
(* lifetime, key policy and clock resolution, and any number of approvals, *)
(* commits and restarts.                                                   *)
(*                                                                         *)
(* The server forgets the approval when the commit call has begun, so the  *)
(* invariant carries what it said: a call that has begun was approved      *)
(* (CommitOK), and a DELETE that was taken on is done for good or is in    *)
(* Black Duck's queue (Settled).                                           *)
(***************************************************************************)
EXTENDS ProjectDelete, TokenServiceProofs

ApprovalOK(token) ==
  /\ ReadWrite(token.data.by)
  /\ token.exp = Unix(token.mintedAt + ApprovalTTL)
  /\ token.mintedAt <= clock
  /\ token.key = IF SecretConfigured THEN 0 ELSE token.data.bornIn

CommitOK(c) ==
  outcome[c] # "idle" =>
    /\ commit[c].project \in Projects
    /\ ReadWrite(commit[c].by)
    /\ ApprovedAt(commit[c].project, commit[c].since, commit[c].process)

Settled(c) ==
  /\ outcome[c] \in {"idle", "refused"} => accepted[c] = 0
  /\ outcome[c] = "ok" => accepted[c] = 1
  /\ c \in queued => accepted[c] = 1
  /\ accepted[c] = 1 => /\ commit[c].existed
                        /\ commit[c].project \in projects => c \in queued
  /\ outcome[c] # "idle" /\ commit[c].project \in projects => commit[c].existed

DeleteInv ==
  /\ TypeOK
  /\ \A token \in approvals : ApprovalOK(token)
  /\ \A c \in Calls : CommitOK(c) /\ Settled(c)

ApprovalToken == [key : Nat, typ : TokenTypes, exp : Int, data : Approval, mintedAt : Nat]

CommitState == [by : Sessions \cup {None}, project : Projects \cup {None}, since : Nat,
                process : Nat, existed : BOOLEAN]

-----------------------------------------------------------------------------

\* Approvals are only added, so what was approved stays approved.
LEMMA ApprovedStays ==
  ASSUME approvals \subseteq approvals'
  PROVE  \A p, t, v : ApprovedAt(p, t, v) => ApprovedAt(p, t, v)'
BY DEF ApprovedAt

LEMMA DeleteInit == Init => DeleteInv
<1> SUFFICES ASSUME Init PROVE DeleteInv
  OBVIOUS
<1>1. TypeOK
  BY DEF Init, TypeOK, NoCommit, Delete!Init, Delete!Outcomes
<1>2. \A c \in Calls : CommitOK(c) /\ Settled(c)
  BY DEF Init, Delete!Init, CommitOK, Settled
<1> QED BY <1>1, <1>2 DEF Init, DeleteInv

LEMMA PreparePreserves ==
  ASSUME DeleteInv, NEW s \in Sessions, Prepare(s)
  PROVE  DeleteInv'
<1>1. PICK p \in Projects : approvals' = approvals \cup {ApprovalFor(p, s)}
  BY DEF Prepare
<1>2. PICK d : d = [operation |-> OpProjectDelete, project |-> p, by |-> s,
                    bornIn |-> process]
  OBVIOUS
<1>3. PICK new : new = Mint(SealingKey, "approval", ApprovalTTL, clock, d)
  OBVIOUS
<1>4. /\ clock \in Nat /\ clock + ApprovalTTL \in Int /\ ReadWrite(s)
      /\ process \in Nat /\ SealingKey \in Nat
  BY DeleteAssumption DEF DeleteInv, TypeOK, Prepare, SealingKey, MayCall, Tools, ReadWrite,
     WriteEnabled, ProjectTools, UserTools
<1>5. d \in Approval /\ d.by = s /\ d.bornIn = process
  BY <1>2, <1>4 DEF Approval
<1>6. /\ new \in ApprovalToken /\ new.data = d /\ new.mintedAt = clock
      /\ new.exp = Unix(clock + ApprovalTTL) /\ new.key = SealingKey
  BY <1>3, <1>4, <1>5, UnixInt DEF Mint, ApprovalToken, TokenTypes
<1>7. approvals' = approvals \cup {new}
  BY <1>1, <1>2, <1>3 DEF ApprovalFor
<1>8. TypeOK'
  BY <1>6, <1>7 DEF DeleteInv, TypeOK, Prepare, ApprovalToken
<1>9. \A token \in approvals' : ApprovalOK(token)'
  BY <1>4, <1>5, <1>6, <1>7 DEF DeleteInv, ApprovalOK, Prepare, SealingKey
<1>10. \A c \in Calls : CommitOK(c)' /\ Settled(c)'
  BY <1>7, ApprovedStays DEF DeleteInv, CommitOK, Settled, Prepare
<1> QED BY <1>8, <1>9, <1>10 DEF DeleteInv

\* An accepted approval says that its project is approved now.
LEMMA AcceptedIsApproved ==
  ASSUME DeleteInv, NEW token \in approvals, Approved(token)
  PROVE  token.data.project \in Projects /\ ApprovedAt(token.data.project, clock, process)
<1>1. token \in ApprovalToken /\ clock \in Nat /\ ApprovalOK(token)
  BY DEF DeleteInv, TypeOK, ApprovalToken
<1>2. token.mintedAt \in Nat /\ token.data.project \in Projects
  BY <1>1 DEF ApprovalToken, Approval
<1>3. Unix(clock) < Unix(token.mintedAt + ApprovalTTL)
  BY <1>1 DEF Approved, Accepts, Live, ApprovalOK
<1>4. clock < token.mintedAt + ApprovalTTL
  BY <1>1, <1>2, <1>3, DeleteAssumption, UnixBefore
<1>5. SecretConfigured \/ token.data.bornIn = process
  BY <1>1 DEF Approved, Accepts, Live, Opens, ApprovalOK, SealingKey
<1> QED BY <1>1, <1>2, <1>4, <1>5 DEF ApprovedAt, ApprovalOK

LEMMA CommitPreserves ==
  ASSUME DeleteInv, NEW c \in Calls, NEW s \in Sessions, Commit(c, s)
  PROVE  DeleteInv'
<1>1. PICK token \in approvals :
        /\ Approved(token)
        /\ commit' = [commit EXCEPT ![c] =
                        [by |-> s, project |-> token.data.project, since |-> clock,
                         process |-> process,
                         existed |-> token.data.project \in projects]]
  BY DEF Commit
<1> DEFINE p == token.data.project
           x == p \in projects
           l == [by |-> s, project |-> p, since |-> clock, process |-> process, existed |-> x]
<1>2. commit' = [commit EXCEPT ![c] = l]
  BY <1>1
<1>3. p \in Projects /\ ApprovedAt(p, clock, process) /\ clock \in Nat /\ process \in Nat
  BY <1>1, AcceptedIsApproved DEF DeleteInv, TypeOK
<1>4. x \in BOOLEAN /\ (p \in projects => x)
  OBVIOUS
<1> HIDE DEF p, x
<1>5. /\ l \in CommitState /\ l.by = s /\ l.project = p /\ l.since = clock
      /\ l.process = process /\ l.existed = x
  BY <1>3, <1>4 DEF CommitState
<1> HIDE DEF l
<1>6. commit' = [commit EXCEPT ![c] = l]
  BY <1>2
<1>7. /\ outcome[c] = "idle" /\ outcome' = [outcome EXCEPT ![c] = "running"]
      /\ UNCHANGED <<accepted, clock, process, approvals, projects, queued>>
      /\ ReadWrite(s)
  BY DEF Commit, Delete!Start, WriteEnabled, ReadWrite
<1>8. TypeOK'
  BY <1>5, <1>6, <1>7 DEF DeleteInv, TypeOK, CommitState, Delete!Outcomes
<1>9. ASSUME NEW e \in Calls PROVE CommitOK(e)'
  <2>1. \A q, t, v : ApprovedAt(q, t, v) => ApprovedAt(q, t, v)'
    BY <1>7, ApprovedStays
  <2>2. CASE e = c
    BY <1>3, <1>5, <1>6, <1>7, <2>1, <2>2 DEF CommitOK, DeleteInv, TypeOK
  <2>3. CASE e # c
    BY <1>6, <1>7, <2>1, <2>3 DEF CommitOK, DeleteInv, TypeOK
  <2> QED BY <2>2, <2>3
<1>10. accepted[c] = 0
  BY <1>7 DEF DeleteInv, Settled
<1>11. ASSUME NEW e \in Calls PROVE Settled(e)'
  <2>1. CASE e = c
    <3>1. /\ outcome'[c] = "running" /\ accepted'[c] = 0 /\ c \notin queued'
          /\ commit'[c].existed = x /\ commit'[c].project = p
      BY <1>5, <1>6, <1>7, <1>10 DEF DeleteInv, TypeOK, Settled
    <3>2. p \in projects' => x
      BY <1>4, <1>7
    <3> QED BY <2>1, <3>1, <3>2 DEF Settled
  <2>2. CASE e # c
    BY <1>6, <1>7, <2>2 DEF DeleteInv, TypeOK, Settled
  <2> QED BY <2>1, <2>2
<1> QED BY <1>7, <1>8, <1>9, <1>11 DEF DeleteInv, ApprovalOK

LEMMA ReturnPreserves ==
  ASSUME DeleteInv, NEW c \in Calls, CommitReturns(c)
  PROVE  DeleteInv'
<1>1. PICK o \in {"ok", "refused", "error"} : Delete!Return(c, o)
  BY DEF CommitReturns
<1>2. UNCHANGED <<accepted, clock, process, approvals, commit, projects, queued>>
  BY <1>1 DEF CommitReturns, Delete!Return
<1>3. /\ outcome[c] = "running" /\ outcome' = [outcome EXCEPT ![c] = o]
      /\ o = "ok" => accepted[c] = 1
      /\ o = "refused" => accepted[c] = 0
  BY <1>1 DEF Delete!Return
<1>4. TypeOK'
  BY <1>2, <1>3 DEF DeleteInv, TypeOK, Delete!Outcomes
<1>5. \A p, t, v : ApprovedAt(p, t, v) => ApprovedAt(p, t, v)'
  BY <1>2, ApprovedStays
<1>6. \A e \in Calls : CommitOK(e)'
  BY <1>2, <1>3, <1>5 DEF DeleteInv, TypeOK, CommitOK
<1>7. \A e \in Calls : Settled(e)'
  BY <1>2, <1>3 DEF DeleteInv, TypeOK, Settled
<1> QED BY <1>2, <1>4, <1>6, <1>7 DEF DeleteInv, ApprovalOK

LEMMA AcceptedPreserves ==
  ASSUME DeleteInv, NEW c \in Calls, DeleteAccepted(c)
  PROVE  DeleteInv'
<1>1. /\ outcome[c] \in {"running", "error"} /\ accepted[c] = 0
      /\ accepted' = [accepted EXCEPT ![c] = 1]
      /\ commit[c].project \in projects
      /\ queued' = queued \cup {c}
      /\ UNCHANGED <<outcome, clock, process, approvals, commit, projects>>
  BY DEF DeleteAccepted, Delete!Accept
<1>2. TypeOK'
  BY <1>1 DEF DeleteInv, TypeOK
<1>3. \A p, t, v : ApprovedAt(p, t, v) => ApprovedAt(p, t, v)'
  BY <1>1, ApprovedStays
<1>4. \A e \in Calls : CommitOK(e)'
  BY <1>1, <1>3 DEF DeleteInv, TypeOK, CommitOK
<1>5. \A e \in Calls : Settled(e)'
  BY <1>1 DEF DeleteInv, TypeOK, Settled
<1> QED BY <1>1, <1>2, <1>4, <1>5 DEF DeleteInv, ApprovalOK

LEMMA DeletedPreserves ==
  ASSUME DeleteInv, NEW c \in Calls, ProjectDeleted(c)
  PROVE  DeleteInv'
<1>1. /\ projects' = projects \ {commit[c].project}
      /\ queued' = queued \ {c}
      /\ UNCHANGED <<outcome, accepted, clock, process, approvals, commit>>
  BY DEF ProjectDeleted
<1>2. TypeOK'
  BY <1>1 DEF DeleteInv, TypeOK
<1>3. \A p, t, v : ApprovedAt(p, t, v) => ApprovedAt(p, t, v)'
  BY <1>1, ApprovedStays
<1>4. \A e \in Calls : CommitOK(e)'
  BY <1>1, <1>3 DEF DeleteInv, TypeOK, CommitOK
<1>5. \A e \in Calls : Settled(e)'
  BY <1>1 DEF DeleteInv, TypeOK, Settled
<1> QED BY <1>1, <1>2, <1>4, <1>5 DEF DeleteInv, ApprovalOK

LEMMA DeleteTickPreserves ==
  ASSUME DeleteInv, Tick
  PROVE  DeleteInv'
<1>1. /\ clock \in Nat /\ clock' = clock + 1
      /\ UNCHANGED <<process, approvals, commit, projects, queued, outcome, accepted>>
  BY DEF DeleteInv, TypeOK, Tick
<1>2. TypeOK'
  BY <1>1 DEF DeleteInv, TypeOK
<1>3. ASSUME NEW token \in approvals PROVE ApprovalOK(token)'
  <2>1. token \in ApprovalToken /\ ApprovalOK(token)
    BY DEF DeleteInv, TypeOK, ApprovalToken
  <2>2. token.mintedAt \in Nat
    BY <2>1 DEF ApprovalToken
  <2> QED BY <1>1, <2>1, <2>2 DEF ApprovalOK
<1>4. \A p, t, v : ApprovedAt(p, t, v) => ApprovedAt(p, t, v)'
  BY <1>1, ApprovedStays
<1>5. \A c \in Calls : CommitOK(c)' /\ Settled(c)'
  BY <1>1, <1>4 DEF DeleteInv, CommitOK, Settled
<1> QED BY <1>1, <1>2, <1>3, <1>5 DEF DeleteInv

LEMMA DeleteRestartPreserves ==
  ASSUME DeleteInv, Restart
  PROVE  DeleteInv'
<1>1. /\ process' \in Nat
      /\ outcome' = [c \in Calls |->
                       IF outcome[c] = "running" THEN "error" ELSE outcome[c]]
      /\ UNCHANGED <<clock, approvals, commit, projects, queued, accepted>>
  BY DEF DeleteInv, TypeOK, Restart
<1>2. TypeOK'
  BY <1>1 DEF DeleteInv, TypeOK, Delete!Outcomes
<1>3. \A p, t, v : ApprovedAt(p, t, v) => ApprovedAt(p, t, v)'
  BY <1>1, ApprovedStays
<1>4. \A c \in Calls : CommitOK(c)' /\ Settled(c)'
  BY <1>1, <1>3 DEF DeleteInv, CommitOK, Settled
<1> QED BY <1>1, <1>2, <1>4 DEF DeleteInv, ApprovalOK

LEMMA DeleteNext == DeleteInv /\ [Next]_vars => DeleteInv'
<1> SUFFICES ASSUME DeleteInv, [Next]_vars PROVE DeleteInv'
  OBVIOUS
<1>1. ASSUME NEW s \in Sessions, Prepare(s) PROVE DeleteInv'
  BY <1>1, PreparePreserves
<1>2. ASSUME NEW c \in Calls, CommitStep(c) PROVE DeleteInv'
  BY <1>2, CommitPreserves, ReturnPreserves, AcceptedPreserves, DeletedPreserves
     DEF CommitStep
<1>3. CASE Tick
  BY <1>3, DeleteTickPreserves
<1>4. CASE Restart
  BY <1>4, DeleteRestartPreserves
<1>5. CASE UNCHANGED vars
  BY <1>5 DEF vars, DeleteInv, TypeOK, ApprovalOK, CommitOK, Settled, ApprovedAt
<1> QED BY <1>1, <1>2, <1>3, <1>4, <1>5 DEF Next

\* The invariant holds in every reachable state of the deletion tools.
THEOREM DeleteInvHolds == Spec => []DeleteInv
<1>1. Init => DeleteInv
  BY DeleteInit
<1>2. DeleteInv /\ [Next]_vars => DeleteInv'
  BY DeleteNext
<1> QED BY <1>1, <1>2, PTL DEF Spec

-----------------------------------------------------------------------------

\* Approvals, commit calls and Black Duck's answers keep their types.
THEOREM DeleteTypeCorrect == Spec => []TypeOK
<1>1. DeleteInv => TypeOK
  BY DEF DeleteInv
<1> QED BY <1>1, DeleteInvHolds, PTL

\* However often and however concurrently approvals are committed, a success is
\* reported only for a deletion that was wanted of an existing project, taken on,
\* and done or about to be (tools.go:286,309).
THEOREM NoFalseSuccessHolds == Spec => []NoFalseSuccess
<1>1. DeleteInv => NoFalseSuccess
  BY DEF DeleteInv, Settled, NoFalseSuccess
<1> QED BY <1>1, DeleteInvHolds, PTL

\* A project only goes for a commit call of a read-write session, begun while an
\* approval for that very project, prepared in a read-write session, was alive.
THEOREM DeletionApprovedHolds == Spec => DeletionApproved
<1> DEFINE Step ==
      \A p \in projects \ projects' :
        \E c \in queued \ queued' :
          /\ accepted[c] = 1 /\ outcome[c] # "refused"
          /\ commit[c].project = p
          /\ ReadWrite(commit[c].by)
          /\ ApprovedAt(p, commit[c].since, commit[c].process)
<1>1. DeleteInv /\ [Next]_vars => [Step]_vars
  <2> SUFFICES ASSUME DeleteInv, Next, NEW p \in projects \ projects'
               PROVE  \E c \in queued \ queued' :
                        /\ accepted[c] = 1 /\ outcome[c] # "refused"
                        /\ commit[c].project = p
                        /\ ReadWrite(commit[c].by)
                        /\ ApprovedAt(p, commit[c].since, commit[c].process)
    OBVIOUS
  <2>1. PICK c \in Calls : ProjectDeleted(c)
    BY DEF Next, CommitStep, Prepare, Commit, CommitReturns, DeleteAccepted, Restart, Tick
  <2>2. /\ c \in queued \ queued'
        /\ projects' = projects \ {commit[c].project}
    BY <2>1 DEF ProjectDeleted
  <2>3. commit[c].project = p /\ CommitOK(c) /\ Settled(c)
    BY <2>2 DEF DeleteInv
  <2> QED BY <2>2, <2>3 DEF CommitOK, Settled
<1>2. Spec => [][Step]_vars
  BY <1>1, DeleteInvHolds, PTL DEF Spec
<1> QED BY <1>2 DEF DeletionApproved
=============================================================================
