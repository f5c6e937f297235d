--------------------------- MODULE PrivateCAProofs ---------------------------
(***************************************************************************)
(* Safety of the private CA bundle, for any number of servers, requests,   *)
(* bundles and configurations.                                             *)
(*                                                                         *)
(* That the file is whole rests on what each server carries to its rename: *)
(* the body it was answered with, then a temporary file of its own that    *)
(* holds this body (ProcOK).  FileOK ties the file to who put it there.    *)
(***************************************************************************)
EXTENDS PrivateCA, TLAPS

ProcState ==
  [pc : Starting \cup {"down", "serving", "failed"}, body : Answers \cup {None},
   fetched : BOOLEAN, transport : (Contents \ {{}}) \cup {None}]

RequestState ==
  [by : Processes \cup {None}, result : {"none", "sent", "refused"}, trust : Contents]

FileOK ==
  /\ file = None <=> origin \in {"none", "removed"}
  /\ origin = "operator" => file \in Primed
  /\ origin = "fetch" => file \in Answers

\* A server with local state s and temporary file t.
ProcOK(s, t) ==
  /\ s.pc \in {"create", "write", "rename"} => s.body \in Answers
  /\ s.pc = "rename" => t = s.body
  /\ s.pc \in {"fetch", "create", "write", "rename"} => Enabled
  /\ Lazy /\ s.transport # None => Whole(s.transport)

CAInv ==
  /\ TypeOK
  /\ FileOK
  /\ \A p \in Processes : ProcOK(proc[p], temp[p])
  /\ TrustWhole

-----------------------------------------------------------------------------

LEMMA CAInit == Init => CAInv
<1> SUFFICES ASSUME Init PROVE CAInv
  OBVIOUS
<1>1. /\ Down.pc = "down" /\ Down.transport = None /\ Down \in ProcState
      /\ Unsent.result = "none"
  BY DEF Down, Unsent, ProcState
<1>2. TypeOK
  BY <1>1, BundlesAssumption DEF Init, TypeOK, Unsent, ProcState, Contents
<1>3. FileOK
  BY BundlesAssumption, CANoneAssumption DEF Init, FileOK
<1>4. \A p \in Processes : ProcOK(proc[p], temp[p])
  BY <1>1 DEF Init, ProcOK
<1>5. TrustWhole
  BY <1>1 DEF Init, TrustWhole
<1> QED BY <1>2, <1>3, <1>4, <1>5 DEF CAInv

\* The configuration is all that Whole looks at.
LEMMA WholeStays ==
  ASSUME config' = config
  PROVE  /\ \A trust : Whole(trust)' <=> Whole(trust)
         /\ Lazy' = Lazy /\ Enabled' = Enabled /\ HasEffective' = HasEffective
BY DEF Whole, FileContents, HasEffective, Lazy, Enabled

\* The step of one server, to local state s and temporary file t.
LEMMA ProcessStep ==
  ASSUME CAInv, NEW p \in Processes, NEW s \in ProcState,
         NEW t \in Contents \cup {None},
         proc' = [proc EXCEPT ![p] = s], temp' = [temp EXCEPT ![p] = t],
         ProcOK(s, t)',
         config' = config, starts' \in Nat,
         file' \in Contents \cup {None}, FileOK',
         origin' \in {"none", "operator", "fetch", "removed"},
         req' \in [Requests -> RequestState], TrustWhole'
  PROVE  CAInv'
<1>1. TypeOK'
  BY DEF CAInv, TypeOK, ProcState, RequestState
<1>2. ASSUME NEW q \in Processes PROVE ProcOK(proc[q], temp[q])'
  <2>1. CASE q = p
    BY <2>1 DEF CAInv, TypeOK
  <2>2. CASE q # p
    <3>1. proc'[q] = proc[q] /\ temp'[q] = temp[q] /\ ProcOK(proc[q], temp[q])
      BY <2>2 DEF CAInv, TypeOK
    <3> QED BY <3>1, WholeStays DEF ProcOK
  <2> QED BY <2>1, <2>2
<1> QED BY <1>1, <1>2 DEF CAInv

\* The same, for the steps of Ensure, which no request is part of.
LEMMA EnsureProcessStep ==
  ASSUME CAInv, NEW p \in Processes, NEW s \in ProcState,
         NEW t \in Contents \cup {None},
         proc' = [proc EXCEPT ![p] = s], temp' = [temp EXCEPT ![p] = t],
         s.transport \in {None, proc[p].transport},
         s.pc \in {"create", "write", "rename"} => s.body \in Answers,
         s.pc = "rename" => t = s.body,
         s.pc \in {"fetch", "create", "write", "rename"} => Enabled,
         config' = config, starts' \in Nat, req' = req,
         \/ UNCHANGED <<file, origin>>
         \/ file' \in Answers /\ origin' = "fetch"
  PROVE  CAInv'
<1>1. ProcOK(s, t)'
  BY WholeStays DEF CAInv, ProcOK
<1>2. file' \in Contents \cup {None} /\ FileOK'
  BY BundlesAssumption, CANoneAssumption DEF CAInv, TypeOK, FileOK
<1>3. TrustWhole'
  BY WholeStays DEF CAInv, TrustWhole
<1> QED BY <1>1, <1>2, <1>3, ProcessStep DEF CAInv, TypeOK, RequestState

LEMMA BootPreserves ==
  ASSUME CAInv, NEW p \in Processes, Boot(p)
  PROVE  CAInv'
<1>1. PICK s : s = [Down EXCEPT !.pc = "stat"]
  OBVIOUS
<1>2. s \in ProcState /\ s.pc = "stat" /\ s.transport = None
  BY <1>1 DEF Down, ProcState, Starting
<1>3. PICK t \in Contents \cup {None} : t = temp[p]
  BY DEF CAInv, TypeOK
<1>4. proc' = [proc EXCEPT ![p] = s] /\ temp' = [temp EXCEPT ![p] = t]
  BY <1>1, <1>3 DEF Boot, CAInv, TypeOK
<1>5. config' = config /\ starts' \in Nat /\ req' = req /\ UNCHANGED <<file, origin>>
  BY DEF Boot, CAInv, TypeOK
<1> QED BY <1>2, <1>4, <1>5, EnsureProcessStep

LEMMA StatPreserves ==
  ASSUME CAInv, NEW p \in Processes, Stat(p)
  PROVE  CAInv'
<1>1. PICK pc : pc = IF ~Enabled \/ file # None THEN "serving"
                     ELSE IF config.url = "bad" THEN "failed" ELSE "fetch"
  OBVIOUS
<1>2. PICK s : s = [proc[p] EXCEPT !.pc = pc]
  OBVIOUS
<1>3. proc[p] \in ProcState /\ pc \in {"serving", "failed", "fetch"}
  BY <1>1 DEF CAInv, TypeOK, ProcState
<1>4. s \in ProcState /\ s.pc = pc /\ s.transport = proc[p].transport
  BY <1>2, <1>3 DEF ProcState, Starting
<1>5. PICK t \in Contents \cup {None} : t = temp[p]
  BY DEF CAInv, TypeOK
<1>6. proc' = [proc EXCEPT ![p] = s] /\ temp' = [temp EXCEPT ![p] = t]
  BY <1>1, <1>2, <1>5 DEF Stat, CAInv, TypeOK
<1>7. s.pc = "fetch" => Enabled
  BY <1>1, <1>4
<1>8. config' = config /\ starts' \in Nat /\ req' = req /\ UNCHANGED <<file, origin>>
  BY DEF Stat, CAInv, TypeOK
<1> QED BY <1>3, <1>4, <1>6, <1>7, <1>8, EnsureProcessStep

LEMMA FallbackPreserves ==
  ASSUME CAInv, NEW p \in Processes, Fallback(p)
  PROVE  CAInv'
<1>1. PICK pc : pc = IF file # None THEN "serving" ELSE "failed"
  OBVIOUS
<1>2. PICK s : s = [proc[p] EXCEPT !.pc = pc, !.body = None]
  OBVIOUS
<1>3. proc[p] \in ProcState /\ pc \in {"serving", "failed"}
  BY <1>1 DEF CAInv, TypeOK, ProcState
<1>4. s \in ProcState /\ s.pc = pc /\ s.transport = proc[p].transport
  BY <1>2, <1>3 DEF ProcState
<1>5. PICK t \in Contents \cup {None} : temp' = [temp EXCEPT ![p] = t]
  BY DEF Fallback, CAInv, TypeOK
<1>6. proc' = [proc EXCEPT ![p] = s]
  BY <1>1, <1>2 DEF Fallback
<1>7. config' = config /\ starts' \in Nat /\ req' = req /\ UNCHANGED <<file, origin>>
  BY DEF Fallback, CAInv, TypeOK
<1> QED BY <1>3, <1>4, <1>5, <1>6, <1>7, EnsureProcessStep

LEMMA FetchPreserves ==
  ASSUME CAInv, NEW p \in Processes, Fetch(p)
  PROVE  CAInv'
<1>1. PICK body \in Answers :
        proc' = [proc EXCEPT ![p] = [@ EXCEPT !.pc = "create", !.body = body]]
  BY DEF Fetch
<1>2. PICK s : s = [proc[p] EXCEPT !.pc = "create", !.body = body]
  OBVIOUS
<1>3. proc[p] \in ProcState
  BY DEF CAInv, TypeOK, ProcState
<1>4. /\ s \in ProcState /\ s.pc = "create" /\ s.body = body
      /\ s.transport = proc[p].transport
  BY <1>2, <1>3 DEF ProcState, Starting
<1>5. PICK t \in Contents \cup {None} : t = temp[p]
  BY DEF CAInv, TypeOK
<1>6. proc' = [proc EXCEPT ![p] = s] /\ temp' = [temp EXCEPT ![p] = t]
  BY <1>1, <1>2, <1>5 DEF Fetch, CAInv, TypeOK
<1>7. config' = config /\ starts' \in Nat /\ req' = req /\ UNCHANGED <<file, origin>>
  BY DEF Fetch, CAInv, TypeOK
<1>8. Enabled
  BY DEF Fetch, CAInv, ProcOK
<1> QED BY <1>4, <1>6, <1>7, <1>8, EnsureProcessStep

LEMMA CreatePreserves ==
  ASSUME CAInv, NEW p \in Processes, Create(p)
  PROVE  CAInv'
<1>1. PICK s : s = [proc[p] EXCEPT !.pc = "write"]
  OBVIOUS
<1>2. proc[p] \in ProcState /\ proc[p].body \in Answers
  BY DEF CAInv, TypeOK, ProcState, Create, ProcOK
<1>3. /\ s \in ProcState /\ s.pc = "write" /\ s.body = proc[p].body
      /\ s.transport = proc[p].transport
  BY <1>1, <1>2 DEF ProcState, Starting
<1>4. proc' = [proc EXCEPT ![p] = s] /\ temp' = [temp EXCEPT ![p] = {}]
  BY <1>1 DEF Create
<1>5. {} \in Contents
  BY DEF Contents
<1>6. config' = config /\ starts' \in Nat /\ req' = req /\ UNCHANGED <<file, origin>>
  BY DEF Create, CAInv, TypeOK
<1>7. Enabled
  BY DEF Create, CAInv, ProcOK
<1> QED BY <1>2, <1>3, <1>4, <1>5, <1>6, <1>7, EnsureProcessStep

LEMMA WritePreserves ==
  ASSUME CAInv, NEW p \in Processes, Write(p)
  PROVE  CAInv'
<1>1. PICK s : s = [proc[p] EXCEPT !.pc = "rename"]
  OBVIOUS
<1>2. PICK body : body = proc[p].body
  OBVIOUS
<1>3. proc[p] \in ProcState /\ body \in Answers
  BY <1>2 DEF CAInv, TypeOK, ProcState, Write, ProcOK
<1>4. /\ s \in ProcState /\ s.pc = "rename" /\ s.body = body
      /\ s.transport = proc[p].transport
  BY <1>1, <1>2, <1>3 DEF ProcState, Starting
<1>5. proc' = [proc EXCEPT ![p] = s] /\ temp' = [temp EXCEPT ![p] = body]
  BY <1>1, <1>2 DEF Write
<1>6. body \in Contents
  BY <1>3, BundlesAssumption
<1>7. config' = config /\ starts' \in Nat /\ req' = req /\ UNCHANGED <<file, origin>>
  BY DEF Write, CAInv, TypeOK
<1>8. Enabled
  BY DEF Write, CAInv, ProcOK
<1> QED BY <1>3, <1>4, <1>5, <1>6, <1>7, <1>8, EnsureProcessStep

\* The file is replaced at once by what this server was answered with.
LEMMA RenamePreserves ==
  ASSUME CAInv, NEW p \in Processes, Rename(p)
  PROVE  CAInv'
<1>1. PICK s : s = [proc[p] EXCEPT !.pc = "serving", !.body = None, !.fetched = TRUE]
  OBVIOUS
<1>2. proc[p] \in ProcState /\ temp[p] \in Answers
  BY DEF CAInv, TypeOK, ProcState, Rename, ProcOK
<1>3. s \in ProcState /\ s.pc = "serving" /\ s.transport = proc[p].transport
  BY <1>1, <1>2 DEF ProcState
<1>4. proc' = [proc EXCEPT ![p] = s] /\ temp' = [temp EXCEPT ![p] = None]
  BY <1>1 DEF Rename
<1>5. config' = config /\ starts' \in Nat /\ req' = req /\ file' = temp[p] /\ origin' = "fetch"
  BY DEF Rename, CAInv, TypeOK
<1> QED BY <1>2, <1>3, <1>4, <1>5, EnsureProcessStep

LEMMA KillPreserves ==
  ASSUME CAInv, NEW p \in Processes, Kill(p)
  PROVE  CAInv'
<1>1. Down \in ProcState /\ Down.pc = "down" /\ Down.transport = None
  BY DEF Down, ProcState
<1>2. PICK s : s = Down
  OBVIOUS
<1>3. s \in ProcState /\ s.pc = "down" /\ s.transport = None
  BY <1>1, <1>2
<1>4. PICK t \in Contents \cup {None} : t = temp[p]
  BY DEF CAInv, TypeOK
<1>5. proc' = [proc EXCEPT ![p] = s] /\ temp' = [temp EXCEPT ![p] = t]
  BY <1>2, <1>4 DEF Kill, CAInv, TypeOK
<1>6. config' = config /\ starts' \in Nat /\ req' = req /\ UNCHANGED <<file, origin>>
  BY DEF Kill, CAInv, TypeOK
<1> QED BY <1>3, <1>5, <1>6, EnsureProcessStep

\* What a load of usable sources trusts is whole.
LEMMA PoolIsWhole ==
  ASSUME CAInv, Lazy, Loads
  PROVE  Whole(Pool) /\ Pool \in Contents \ {{}}
<1>1. config \in Config /\ file \in Contents \cup {None}
  BY ConfigsAssumption DEF CAInv, TypeOK
<1>2. config.base64 = None \/ config.base64 \in Contents \ {{}}
  BY <1>1 DEF Loads, Config
<1>3. PICK content : content = IF HasEffective THEN Effective ELSE {}
  OBVIOUS
<1>4. /\ content \in FileContents /\ content \in Contents
      /\ HasEffective => content # {}
  <2>1. CASE config.override # None
    BY <1>1, <1>3, <2>1 DEF HasEffective, Effective, FileContents, Config, Loads
  <2>2. CASE config.override = None /\ config.file
    <3>1. HasEffective /\ content = Effective /\ content # {}
      BY <1>3, <2>2 DEF HasEffective, Loads
    <3>2. content = file /\ file # None
      BY <2>2, <3>1 DEF Effective
    <3>3. origin \in {"operator", "fetch"} /\ file \in Answers \cup Primed
      BY <3>2 DEF CAInv, TypeOK, FileOK
    <3> QED BY <1>1, <2>2, <3>1, <3>2, <3>3 DEF FileContents
  <2>3. CASE config.override = None /\ ~config.file
    BY <1>3, <2>3 DEF HasEffective, FileContents, Contents
  <2> QED BY <2>1, <2>2, <2>3
<1>5. Pool = content \cup (IF config.base64 # None THEN config.base64 ELSE {})
  BY <1>3 DEF Pool
<1>6. Pool \in Contents \ {{}}
  <2>1. HasEffective \/ config.base64 # None
    BY DEF Lazy
  <2> QED BY <1>2, <1>4, <1>5, <2>1 DEF Contents
<1> QED BY <1>4, <1>5, <1>6 DEF Whole, Loads

\* What the answer to a request adds, with local state s after it.
LEMMA RequestPreserves ==
  ASSUME CAInv, NEW p \in Processes, NEW r \in Requests, NEW s \in ProcState,
         NEW result \in {"sent", "refused"}, NEW trust \in Contents,
         Request(p, r, result, trust), proc' = [proc EXCEPT ![p] = s],
         s.pc = "serving", Lazy /\ s.transport # None => Whole(s.transport),
         Lazy /\ result = "sent" => Whole(trust)
  PROVE  CAInv'
<1>1. PICK q : q = [by |-> p, result |-> result, trust |-> trust]
  OBVIOUS
<1>2. q \in RequestState /\ q.result = result /\ q.trust = trust
  BY <1>1 DEF RequestState
<1>3. req' = [req EXCEPT ![r] = q] /\ UNCHANGED <<config, file, origin, temp, starts>>
  BY <1>1 DEF Request
<1>4. PICK t \in Contents \cup {None} : t = temp[p]
  BY DEF CAInv, TypeOK
<1>5. ProcOK(s, t)
  BY DEF ProcOK
<1>6. ProcOK(s, t)'
  BY <1>3, <1>5, WholeStays DEF ProcOK
<1>7. req' \in [Requests -> RequestState]
  BY <1>2, <1>3 DEF CAInv, TypeOK, RequestState
<1>8. TrustWhole'
  BY <1>2, <1>3, WholeStays DEF CAInv, TrustWhole, TypeOK
<1>9. temp' = [temp EXCEPT ![p] = t]
  BY <1>3, <1>4 DEF CAInv, TypeOK
<1>10. FileOK'
  BY <1>3 DEF CAInv, FileOK
<1> QED BY <1>3, <1>6, <1>7, <1>8, <1>9, <1>10, ProcessStep DEF CAInv, TypeOK

LEMMA RoundTripPreserves ==
  ASSUME CAInv, NEW p \in Processes, NEW r \in Requests, RoundTrip(p, r)
  PROVE  CAInv'
<1>1. PICK s : s = proc[p]
  OBVIOUS
<1>2. s \in ProcState /\ ProcOK(s, temp[p]) /\ proc = [proc EXCEPT ![p] = s]
  BY <1>1 DEF CAInv, TypeOK, ProcState
<1>3. s.pc = "serving"
  BY <1>1 DEF RoundTrip, Request
<1>4. {} \in Contents
  BY DEF Contents
<1>5. CASE ~Lazy /\ Request(p, r, "sent", {}) /\ UNCHANGED proc
  BY <1>2, <1>3, <1>4, <1>5, RequestPreserves
<1>6. CASE Lazy /\ s.transport # None /\ Request(p, r, "sent", s.transport) /\ UNCHANGED proc
  <2>1. s.transport \in Contents /\ Whole(s.transport)
    BY <1>2, <1>6 DEF ProcState, ProcOK
  <2> QED BY <1>2, <1>3, <1>6, <2>1, RequestPreserves
<1>7. CASE /\ Lazy /\ Loads /\ Request(p, r, "sent", Pool)
           /\ proc' = [proc EXCEPT ![p].transport = Pool]
  <2>1. PICK pool : pool = Pool
    OBVIOUS
  <2>2. pool \in Contents \ {{}} /\ Whole(pool)
    BY <1>7, <2>1, PoolIsWhole
  <2>3. PICK n : n = [s EXCEPT !.transport = pool]
    OBVIOUS
  <2>4. n \in ProcState /\ n.pc = "serving" /\ n.transport = pool
    BY <1>2, <1>3, <2>2, <2>3 DEF ProcState
  <2>5. proc' = [proc EXCEPT ![p] = n] /\ Request(p, r, "sent", pool)
    BY <1>1, <1>7, <2>1, <2>3
  <2> QED BY <2>2, <2>4, <2>5, RequestPreserves
<1>8. CASE Request(p, r, "refused", {}) /\ UNCHANGED proc
  BY <1>2, <1>3, <1>4, <1>8, RequestPreserves DEF ProcOK
<1> QED BY <1>1, <1>5, <1>6, <1>7, <1>8 DEF RoundTrip

LEMMA OperatorPreserves ==
  ASSUME CAInv, Prime \/ Remove
  PROVE  CAInv'
<1>1. /\ UNCHANGED <<config, temp, proc, req, starts>>
      /\ \/ file' \in Primed /\ origin' = "operator"
         \/ file' = None /\ origin' = "removed"
  BY DEF Prime, Remove
<1>2. TypeOK'
  BY <1>1, BundlesAssumption DEF CAInv, TypeOK
<1>3. FileOK'
  BY <1>1, BundlesAssumption, CANoneAssumption DEF FileOK
<1>4. \A p \in Processes : ProcOK(proc[p], temp[p])'
  BY <1>1, WholeStays DEF CAInv, ProcOK
<1>5. TrustWhole'
  BY <1>1, WholeStays DEF CAInv, TrustWhole
<1> QED BY <1>2, <1>3, <1>4, <1>5 DEF CAInv

LEMMA CAStep == CAInv /\ [Next]_vars => CAInv'
<1> SUFFICES ASSUME CAInv, [Next]_vars PROVE CAInv'
  OBVIOUS
<1>1. ASSUME NEW p \in Processes, Boot(p) PROVE CAInv'
  BY <1>1, BootPreserves
<1>2. ASSUME NEW p \in Processes, EnsureStep(p) PROVE CAInv'
  BY <1>2, StatPreserves, FetchPreserves, FallbackPreserves, CreatePreserves,
     WritePreserves, RenamePreserves DEF EnsureStep, FetchFails, DiskFails
<1>3. ASSUME NEW p \in Processes, Kill(p) PROVE CAInv'
  BY <1>3, KillPreserves
<1>4. ASSUME NEW p \in Processes, NEW r \in Requests, RoundTrip(p, r) PROVE CAInv'
  BY <1>4, RoundTripPreserves
<1>5. CASE Prime \/ Remove
  BY <1>5, OperatorPreserves
<1>6. CASE UNCHANGED vars
  <2>1. UNCHANGED <<config, file, origin, temp, proc, req, starts>>
    BY <1>6 DEF vars
  <2>2. TypeOK' /\ FileOK'
    BY <2>1 DEF CAInv, TypeOK, FileOK
  <2>3. \A p \in Processes : ProcOK(proc[p], temp[p])'
    BY <2>1, WholeStays DEF CAInv, ProcOK
  <2>4. TrustWhole'
    BY <2>1, WholeStays DEF CAInv, TrustWhole
  <2> QED BY <2>2, <2>3, <2>4 DEF CAInv
<1> QED BY <1>1, <1>2, <1>3, <1>4, <1>5, <1>6 DEF Next

LEMMA CAInvariant == Spec => []CAInv
<1> QED BY CAInit, CAStep, PTL DEF Spec

-----------------------------------------------------------------------------

\* Every variable keeps its type; a transport that was built trusts something.
THEOREM CATypeCorrect == Spec => []TypeOK
<1>1. CAInv => TypeOK
  BY DEF CAInv
<1> QED BY <1>1, CAInvariant, PTL

\* What the servers put in place is a whole bundle, for any number of servers
\* that fetch at once or are killed in between.
THEOREM BundleWholeHolds == Spec => []BundleWhole
<1>1. CAInv => BundleWhole
  BY DEF CAInv, FileOK, BundleWhole
<1> QED BY <1>1, CAInvariant, PTL

\* Every request trusts one whole file, and the base64 setting, as configured.
THEOREM TrustWholeHolds == Spec => []TrustWhole
<1>1. CAInv => TrustWhole
  BY DEF CAInv
<1> QED BY <1>1, CAInvariant, PTL

\* The states in which a step may turn a server down.
LEMMA StepFailsWithoutBundle ==
  ASSUME TypeOK, [Next]_vars, NEW p \in Processes,
         proc[p].pc # "failed", proc'[p].pc = "failed"
  PROVE  file = None
<1>1. PICK q \in Processes :
        \/ Boot(q) \/ EnsureStep(q) \/ Kill(q)
        \/ \E r \in Requests : RoundTrip(q, r)
  BY DEF Next, vars, Prime, Remove
<1>2. proc \in [Processes -> ProcState]
  BY DEF TypeOK, ProcState
<1>3. CASE Stat(q)
  <2>1. proc' = [proc EXCEPT ![q].pc = proc'[q].pc]
    BY <1>2, <1>3 DEF Stat, ProcState
  <2>2. p = q /\ proc'[q].pc = "failed"
    BY <1>2, <2>1
  <2> QED BY <1>2, <1>3, <2>2 DEF Stat, ProcState
<1>4. CASE Fallback(q)
  BY <1>2, <1>4 DEF Fallback, ProcState
<1>5. CASE Boot(q) \/ Kill(q)
  BY <1>2, <1>5 DEF Boot, Kill, Down, ProcState
<1>6. CASE Fetch(q) \/ Create(q) \/ Write(q) \/ Rename(q)
  BY <1>2, <1>6 DEF Fetch, Create, Write, Rename, ProcState
<1>7. CASE \E r \in Requests : RoundTrip(q, r)
  BY <1>2, <1>7 DEF RoundTrip, ProcState
<1> QED BY <1>1, <1>3, <1>4, <1>5, <1>6, <1>7 DEF EnsureStep, FetchFails, DiskFails

\* A start fails only when there is no bundle by the time it fails.
THEOREM FailsOnlyWithoutBundleHolds == Spec => FailsOnlyWithoutBundle
<1>1. TypeOK /\ [Next]_vars =>
        [\A p \in Processes :
           proc[p].pc # "failed" /\ proc'[p].pc = "failed" => file = None]_vars
  BY StepFailsWithoutBundle
<1> QED BY <1>1, CATypeCorrect, PTL DEF Spec, FailsOnlyWithoutBundle

-----------------------------------------------------------------------------
(* Ensure implements AtomicEnsure.                                         *)

Seen(pc) == IF pc \in Starting THEN "starting" ELSE pc

\* A step of one server to local state s moves its status alone, and a step
\* within Ensure not even that.
LEMMA StatusStep ==
  ASSUME TypeOK, NEW p \in Processes, NEW s, proc' = [proc EXCEPT ![p] = s],
         config' = config,
         NEW from, NEW to, Seen(proc[p].pc) = from, Seen(s.pc) = to
  PROVE  /\ Status[p] = from
         /\ Status' = [Status EXCEPT ![p] = to]
         /\ from = to => Status' = Status
         /\ Enabled' = Enabled
<1>1. proc \in [Processes -> ProcState]
  BY DEF TypeOK, ProcState
<1>2. /\ Status = [q \in Processes |-> Seen(proc[q].pc)]
      /\ Status' = [q \in Processes |-> Seen(proc'[q].pc)]
  BY DEF Status, Seen
<1>3. \A q \in Processes : proc'[q] = IF q = p THEN s ELSE proc[q]
  BY <1>1
<1>4. Enabled' = Enabled
  BY DEF Enabled
<1> QED BY <1>2, <1>3, <1>4

\* What the steps that end a start have in common.
LEMMA StartEnds ==
  ASSUME TypeOK, NEW p \in Processes, NEW s, proc' = [proc EXCEPT ![p] = s],
         proc[p].pc \in Starting, s.pc \in {"serving", "failed"}, config' = config
  PROVE  Atomic!Become(p, {"starting"}, s.pc)
<1>1. Seen(proc[p].pc) = "starting" /\ Seen(s.pc) = s.pc
  BY DEF Seen, Starting
<1>2. /\ Status[p] = "starting" /\ Enabled' = Enabled
      /\ Status' = [Status EXCEPT ![p] = s.pc]
  BY <1>1, StatusStep
<1> QED BY <1>2 DEF Atomic!Become

\* fallbackStatus looks at the disk once more, and its answer is the effect.
LEMMA FallbackIsAtomic ==
  ASSUME TypeOK, NEW p \in Processes, proc[p].pc \in Starting, Fallback(p), Enabled
  PROVE  Atomic!Next
<1>1. PICK pc : pc = IF file # None THEN "serving" ELSE "failed"
  OBVIOUS
<1>2. PICK s : s = [proc[p] EXCEPT !.pc = pc, !.body = None]
  OBVIOUS
<1>3. proc[p] \in ProcState
  BY DEF TypeOK, ProcState
<1>4. s.pc = pc /\ proc' = [proc EXCEPT ![p] = s] /\ file' = file /\ config' = config
  BY <1>1, <1>2, <1>3 DEF Fallback, ProcState
<1>5. Atomic!Become(p, {"starting"}, pc)
  BY <1>1, <1>4, StartEnds
<1>6. CASE file # None
  BY <1>1, <1>4, <1>5, <1>6 DEF Atomic!Next, Atomic!Reuse
<1>7. CASE file = None
  BY <1>1, <1>4, <1>5, <1>7 DEF Atomic!Next, Atomic!GiveUp
<1> QED BY <1>6, <1>7

\* So is the first look, when a file is there, none is needed, or none can be
\* asked for.
LEMMA StatIsAtomic ==
  ASSUME TypeOK, NEW p \in Processes, Stat(p)
  PROVE  Atomic!Next \/ UNCHANGED Atomic!vars
<1>1. PICK pc : pc = IF ~Enabled \/ file # None THEN "serving"
                     ELSE IF config.url = "bad" THEN "failed" ELSE "fetch"
  OBVIOUS
<1>2. PICK s : s = [proc[p] EXCEPT !.pc = pc]
  OBVIOUS
<1>3. proc[p] \in ProcState /\ proc[p].pc \in Starting
  BY DEF TypeOK, ProcState, Stat, Starting
<1>4. s.pc = pc /\ proc' = [proc EXCEPT ![p] = s] /\ file' = file /\ config' = config
  BY <1>1, <1>2, <1>3 DEF Stat, ProcState
<1>5. CASE ~Enabled \/ file # None
  <2>1. pc = "serving" /\ Atomic!Become(p, {"starting"}, pc)
    BY <1>1, <1>3, <1>4, <1>5, StartEnds
  <2> QED BY <1>4, <1>5, <2>1 DEF Atomic!Next, Atomic!Reuse
<1>6. CASE Enabled /\ file = None /\ config.url = "bad"
  <2>1. pc = "failed" /\ Atomic!Become(p, {"starting"}, pc)
    BY <1>1, <1>3, <1>4, <1>6, StartEnds
  <2> QED BY <1>4, <1>6, <2>1 DEF Atomic!Next, Atomic!GiveUp
<1>7. CASE Enabled /\ file = None /\ config.url # "bad"
  <2>1. Seen(proc[p].pc) = "starting" /\ Seen(s.pc) = "starting"
    BY <1>1, <1>3, <1>4, <1>7 DEF Seen, Starting
  <2>2. Status' = Status /\ Enabled' = Enabled
    BY <1>4, <2>1, StatusStep
  <2> QED BY <1>4, <2>2 DEF Atomic!vars
<1> QED BY <1>5, <1>6, <1>7

\* The fetch and the temporary file show nothing of themselves.
LEMMA PreparingIsUnseen ==
  ASSUME TypeOK, NEW p \in Processes, Fetch(p) \/ Create(p) \/ Write(p)
  PROVE  UNCHANGED Atomic!vars
<1>1. PICK s : proc' = [proc EXCEPT ![p] = s] /\ s.pc \in Starting
  <2>1. proc[p] \in ProcState
    BY DEF TypeOK, ProcState
  <2>2. ASSUME NEW pc \in Starting, NEW body,
               \/ proc' = [proc EXCEPT ![p].pc = pc]
               \/ proc' = [proc EXCEPT ![p] = [@ EXCEPT !.pc = pc, !.body = body]]
        PROVE  \E s : proc' = [proc EXCEPT ![p] = s] /\ s.pc \in Starting
    <3>1. PICK s : /\ proc' = [proc EXCEPT ![p] = s]
                   /\ \/ s = [proc[p] EXCEPT !.pc = pc]
                      \/ s = [proc[p] EXCEPT !.pc = pc, !.body = body]
      BY <2>2
    <3>2. s.pc = pc
      BY <2>1, <3>1 DEF ProcState
    <3> QED BY <2>2, <3>1, <3>2
  <2> QED BY <2>2 DEF Fetch, Create, Write, Starting
<1>2. proc[p].pc \in Starting /\ file' = file /\ config' = config
  BY DEF Fetch, Create, Write, Starting
<1>3. Seen(proc[p].pc) = "starting" /\ Seen(s.pc) = "starting"
  BY <1>1, <1>2 DEF Seen
<1> QED BY <1>1, <1>2, <1>3, StatusStep DEF Atomic!vars

\* The rename is the one point at which the bundle appears.
LEMMA RenameIsInstall ==
  ASSUME CAInv, NEW p \in Processes, Rename(p), Enabled
  PROVE  Atomic!Install(p)
<1>1. PICK s : s = [proc[p] EXCEPT !.pc = "serving", !.body = None, !.fetched = TRUE]
  OBVIOUS
<1>2. proc[p] \in ProcState /\ proc[p].pc \in Starting /\ temp[p] \in Answers
  BY DEF CAInv, TypeOK, ProcState, Rename, ProcOK, Starting
<1>3. s.pc = "serving" /\ proc' = [proc EXCEPT ![p] = s]
  BY <1>1, <1>2 DEF Rename, ProcState
<1>4. TypeOK /\ config' = config
  BY DEF CAInv, Rename
<1>5. Atomic!Become(p, {"starting"}, "serving")
  BY <1>2, <1>3, <1>4, StartEnds
<1> QED BY <1>2, <1>5 DEF Atomic!Install, Rename

LEMMA BootIsStart ==
  ASSUME TypeOK, NEW p \in Processes, Boot(p)
  PROVE  Atomic!Start(p)
<1>1. PICK s : s = [Down EXCEPT !.pc = "stat"]
  OBVIOUS
<1>2. proc' = [proc EXCEPT ![p] = s] /\ UNCHANGED <<file, config>>
  BY <1>1 DEF Boot
<1>3. PICK from \in {"down", "failed"} : Seen(proc[p].pc) = from
  BY DEF Boot, Seen, Starting
<1>4. Seen(s.pc) = "starting"
  BY <1>1 DEF Seen, Starting, Down
<1>5. /\ Status[p] = from /\ Enabled' = Enabled
      /\ Status' = [Status EXCEPT ![p] = "starting"]
  BY <1>2, <1>3, <1>4, StatusStep
<1> QED BY <1>2, <1>5 DEF Atomic!Start, Atomic!Become

LEMMA KillIsStop ==
  ASSUME TypeOK, NEW p \in Processes, Kill(p)
  PROVE  Atomic!Stop(p)
<1>1. PICK s : s = Down
  OBVIOUS
<1>2. s.pc = "down" /\ proc' = [proc EXCEPT ![p] = s] /\ UNCHANGED <<file, config>>
  BY <1>1 DEF Down, Kill
<1>3. PICK from \in {"starting", "serving"} : Seen(proc[p].pc) = from
  BY DEF Kill, Seen, Starting, TypeOK
<1>4. Seen(s.pc) = "down"
  BY <1>2 DEF Seen, Starting
<1>5. /\ Status[p] = from /\ Enabled' = Enabled
      /\ Status' = [Status EXCEPT ![p] = "down"]
  BY <1>2, <1>3, <1>4, StatusStep
<1> QED BY <1>2, <1>5 DEF Atomic!Stop, Atomic!Become

\* Requests read the file, and change nothing that is seen.
LEMMA RoundTripIsUnseen ==
  ASSUME TypeOK, NEW p \in Processes, NEW r \in Requests, RoundTrip(p, r)
  PROVE  UNCHANGED Atomic!vars
<1>1. PICK s : proc' = [proc EXCEPT ![p] = s] /\ s.pc = proc[p].pc
  <2>1. proc[p] \in ProcState /\ proc = [proc EXCEPT ![p] = proc[p]]
    BY DEF TypeOK, ProcState
  <2>2. \A pool : [proc[p] EXCEPT !.transport = pool].pc = proc[p].pc
    BY <2>1 DEF ProcState
  <2>3. CASE UNCHANGED proc
    BY <2>1, <2>3
  <2>4. CASE proc' = [proc EXCEPT ![p].transport = Pool]
    BY <2>2, <2>4
  <2> QED BY <2>3, <2>4 DEF RoundTrip
<1>2. UNCHANGED <<file, config>>
  BY DEF RoundTrip, Request
<1>3. PICK seen : seen = Seen(proc[p].pc)
  OBVIOUS
<1>4. Seen(proc[p].pc) = seen /\ Seen(s.pc) = seen
  BY <1>1, <1>3
<1> QED BY <1>1, <1>2, <1>4, StatusStep DEF Atomic!vars

LEMMA AtomicInit == Init => Atomic!Init
<1> SUFFICES ASSUME Init PROVE Atomic!Init
  OBVIOUS
<1>1. config \in Config
  BY ConfigsAssumption DEF Init
<1>2. Enabled \in BOOLEAN
  BY <1>1 DEF Enabled, Config
<1>3. Status = [p \in Processes |-> "down"]
  BY DEF Init, Status, Down, Starting
<1> QED BY <1>2, <1>3 DEF Init, Atomic!Init

LEMMA AtomicStep == CAInv /\ [Next]_vars => [Atomic!Next]_(Atomic!vars)
<1> SUFFICES ASSUME CAInv, [Next]_vars PROVE Atomic!Next \/ UNCHANGED Atomic!vars
  OBVIOUS
<1>1. TypeOK
  BY DEF CAInv
<1>2. ASSUME NEW p \in Processes, Boot(p) PROVE Atomic!Next
  BY <1>1, <1>2, BootIsStart DEF Atomic!Next
<1>3. ASSUME NEW p \in Processes, Kill(p) PROVE Atomic!Next
  BY <1>1, <1>3, KillIsStop DEF Atomic!Next
<1>4. ASSUME NEW p \in Processes, FetchFails(p) \/ DiskFails(p) PROVE Atomic!Next
  <2>1. proc[p].pc \in Starting /\ Fallback(p)
    BY <1>4 DEF FetchFails, DiskFails, Starting
  <2>2. Enabled
    BY <1>4 DEF FetchFails, DiskFails, CAInv, ProcOK
  <2> QED BY <1>1, <2>1, <2>2, FallbackIsAtomic
<1>5. ASSUME NEW p \in Processes, Rename(p) PROVE Atomic!Next
  <2>1. Enabled
    BY <1>5 DEF Rename, CAInv, ProcOK
  <2> QED BY <1>5, <2>1, RenameIsInstall DEF Atomic!Next
<1>6. ASSUME NEW p \in Processes, EnsureStep(p)
      PROVE  Atomic!Next \/ UNCHANGED Atomic!vars
  BY <1>1, <1>4, <1>5, <1>6, StatIsAtomic, PreparingIsUnseen DEF EnsureStep
<1>7. CASE Prime \/ Remove
  <2>1. file' \in Primed \cup {None} /\ UNCHANGED <<config, proc>>
    BY <1>7 DEF Prime, Remove
  <2>2. Enabled' = Enabled /\ Status' = Status
    BY <2>1 DEF Enabled, Status
  <2> QED BY <2>1, <2>2 DEF Atomic!Next, Atomic!Operate
<1>8. CASE UNCHANGED vars
  <2>1. UNCHANGED <<config, file, proc>>
    BY <1>8 DEF vars
  <2>2. Enabled' = Enabled /\ Status' = Status
    BY <2>1 DEF Enabled, Status
  <2> QED BY <2>1, <2>2 DEF Atomic!vars
<1> QED BY <1>1, <1>2, <1>3, <1>6, <1>7, <1>8, RoundTripIsUnseen DEF Next

\* For any number of servers, Ensure takes effect at one point of each start:
\* nothing of its fetch, its temporary file or its failures is seen before.
THEOREM EnsureIsAtomicHolds == Spec => EnsureIsAtomic
  BY AtomicInit, AtomicStep, CAInvariant, PTL DEF Spec, EnsureIsAtomic, Atomic!Spec
=============================================================================
