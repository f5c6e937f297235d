------------------------------ MODULE PrivateCA ------------------------------
(***************************************************************************)
(* The private CA bundle (privateca/bootstrap.go) and the trust that the   *)
(* Black Duck client builds from it (wiring/providers.go).                 *)
(*                                                                         *)
(* A server that starts makes sure that the bundle is on disk: a file that *)
(* is there is reused, a missing one is fetched, written next to it and    *)
(* renamed into place.  Servers that share the volume do so concurrently,  *)
(* and are killed and started again at any step; operators put the file    *)
(* there, replace it or take it away.  The first request a server sends to *)
(* Black Duck reads the file and builds the transport that the server then *)
(* keeps.                                                                  *)
(*                                                                         *)
(* What a file or an answer holds is the set of certificates in it: {} is  *)
(* one without any, an error page or a truncated file.  The roots of the   *)
(* system, always trusted too, are left out.  An answer that is cut short  *)
(* where nothing tells, or parses in part, passes for a whole one          *)
(* (bootstrap.go:90-96): that a bundle is whole means as it was answered.  *)
(***************************************************************************)
EXTENDS Naturals

CONSTANTS
  Processes,   \* servers on one volume, with the same configuration
  Requests,    \* the requests to Black Duck that are followed
  Certs,
  Answers,     \* what the PKI endpoint answers with over time, if it has
               \* certificates: a bundle, or what came through of it
  Primed,      \* what operators put at PRIVATE_CACERT_FILE
  Configs,     \* configurations, see Config
  None,
  MaxStarts    \* bound: how often servers are started

Contents == SUBSET Certs

\* file: PRIVATE_CACERT_FILE is set.  url: PRIVATE_CACERT_URL, "bad" when no
\* request can be made of it.  override: what the file that
\* BLACKDUCK_CA_CERT_FILE names holds, {} when it cannot be read; base64: what
\* BLACKDUCK_CA_CERT_BASE64 decodes to; None when not set.
Config == [file : BOOLEAN, url : {"unset", "bad", "good"},
           override : Contents \cup {None}, base64 : Contents \cup {None},
           skipVerify : BOOLEAN]

ASSUME BundlesAssumption ==
  /\ Answers \subseteq Contents \ {{}}
  /\ Primed \subseteq Contents

ASSUME ConfigsAssumption == Configs \subseteq Config

ASSUME CANoneAssumption == None \notin Contents /\ None \notin Processes

VARIABLES
  config,
  file,     \* disk: what PRIVATE_CACERT_FILE holds, None when there is no file
  origin,   \* history: who made it what it is
  temp,     \* disk: the last temporary file of each server's Ensure, or None
  proc,     \* the memory of each server
  req,      \* the requests to Black Duck: by whom, trusting what
  starts

vars == <<config, file, origin, temp, proc, req, starts>>

\* body: the answer of the PKI endpoint.  fetched: lastFetchedAt is not zero.
\* transport: lazyCACertTransport.transport, as the certificates it trusts.
Down == [pc |-> "down", body |-> None, fetched |-> FALSE, transport |-> None]

Unsent == [by |-> None, result |-> "none", trust |-> {}]

Starting == {"stat", "fetch", "create", "write", "rename"}

TypeOK ==
  /\ config \in Configs
  /\ file \in Contents \cup {None}
  /\ origin \in {"none", "operator", "fetch", "removed"}
  /\ temp \in [Processes -> Contents \cup {None}]
  /\ proc \in [Processes ->
       [pc : Starting \cup {"down", "serving", "failed"}, body : Answers \cup {None},
        fetched : BOOLEAN, transport : (Contents \ {{}}) \cup {None}]]
  /\ req \in [Requests ->
       [by : Processes \cup {None}, result : {"none", "sent", "refused"},
        trust : Contents]]
  /\ starts \in Nat

Init ==
  /\ config \in Configs
  /\ file \in Primed \cup {None}
  /\ origin = IF file = None THEN "none" ELSE "operator"
  /\ temp = [p \in Processes |-> None]
  /\ proc = [p \in Processes |-> Down]
  /\ req = [r \in Requests |-> Unsent]
  /\ starts = 0

-----------------------------------------------------------------------------
(* Configuration.                                                          *)

\* IsPrivateCACertBootstrapEnabled
Enabled == config.file /\ config.url # "unset"

\* EffectiveBlackduckCACertFile: is there one, and what does it hold.
HasEffective == config.override # None \/ config.file
Effective == IF config.override # None THEN config.override
             ELSE IF file = None THEN {} ELSE file

\* ProvideHTTPClient: the client gets a transport of its own, made on demand.
Lazy == ~config.skipVerify /\ (HasEffective \/ config.base64 # None)

-----------------------------------------------------------------------------
(* Faulty variants of definitions below, never used.                       *)

\* The bundle is written to its place, and only then completed.
WriteInPlace(p) ==
  /\ proc[p].pc = "write"
  /\ \E part \in SUBSET proc[p].body \ {{}} : file' = part
  /\ origin' = "fetch"
  /\ temp' = [temp EXCEPT ![p] = proc[p].body]
  /\ proc' = [proc EXCEPT ![p].pc = "rename"]
  /\ UNCHANGED <<config, req, starts>>

\* All servers use one name for the temporary file, which this truncates.
SharedTemp(p) ==
  /\ proc[p].pc = "create"
  /\ temp' = [q \in Processes |-> IF q = p \/ temp[q] # None THEN {} ELSE None]
  /\ proc' = [proc EXCEPT ![p].pc = "write"]
  /\ UNCHANGED <<config, file, origin, req, starts>>

\* A source without a certificate is skipped.
LoadErrorIgnored == TRUE

\* The server goes on although there is neither a new bundle nor an old one.
FallbackAlways(p) ==
  /\ proc' = [proc EXCEPT ![p] = [@ EXCEPT !.pc = "serving", !.body = None]]
  /\ temp' = [temp EXCEPT ![p] = None]
  /\ UNCHANGED <<config, file, origin, req, starts>>

\* The error of the refresh is returned whether or not there is a file.
FallbackNever(p) ==
  /\ proc' = [proc EXCEPT ![p] = [@ EXCEPT !.pc = "failed", !.body = None]]
  /\ temp' = [temp EXCEPT ![p] = None]
  /\ UNCHANGED <<config, file, origin, req, starts>>

\* The fetch is tried until it succeeds.
FetchUntilDone(p) ==
  /\ proc[p].pc = "fetch"
  /\ proc' = [proc EXCEPT ![p].pc = "stat"]
  /\ UNCHANGED <<config, file, origin, temp, req, starts>>

-----------------------------------------------------------------------------
(* Ensure, with force = FALSE, which is how the server calls it.           *)

Boot(p) ==
  /\ proc[p].pc \in {"down", "failed"}
  /\ starts < MaxStarts   \* bound
  /\ starts' = starts + 1
  /\ proc' = [proc EXCEPT ![p] = [Down EXCEPT !.pc = "stat"]]
  /\ UNCHANGED <<config, file, origin, temp, req>>

\* A file that is there is reused, whatever it holds.  A URL that no request
\* can be made of is an error without another look at the disk.
Stat(p) ==
  /\ proc[p].pc = "stat"
  /\ proc' = [proc EXCEPT ![p].pc =
                IF ~Enabled \/ file # None THEN "serving"
                ELSE IF config.url = "bad" THEN "failed" ELSE "fetch"]
  /\ UNCHANGED <<config, file, origin, temp, req, starts>>

\* fallbackStatus, then the deferred removal of the temporary file, whose error
\* nobody looks at.
Fallback(p) ==
  /\ proc' = [proc EXCEPT ![p] =
       [@ EXCEPT !.pc = IF file # None THEN "serving" ELSE "failed", !.body = None]]
  /\ \E left \in {None, temp[p]} : temp' = [temp EXCEPT ![p] = left]
  /\ UNCHANGED <<config, file, origin, req, starts>>

\* An answer with certificates in it.
Fetch(p) ==
  /\ proc[p].pc = "fetch"
  /\ \E body \in Answers :
       proc' = [proc EXCEPT ![p] = [@ EXCEPT !.pc = "create", !.body = body]]
  /\ UNCHANGED <<config, file, origin, temp, req, starts>>

\* No answer within 30s, another status, a body that breaks off noticeably or has
\* no certificate in it; a signal to stop ends the fetch as well.
FetchFails(p) == proc[p].pc = "fetch" /\ Fallback(p)

\* CreateTemp picks a name that nobody uses; what an earlier start of this server
\* left is not followed any further.
Create(p) ==
  /\ proc[p].pc = "create"
  /\ temp' = [temp EXCEPT ![p] = {}]
  /\ proc' = [proc EXCEPT ![p].pc = "write"]
  /\ UNCHANGED <<config, file, origin, req, starts>>

Write(p) ==
  /\ proc[p].pc = "write"
  /\ temp' = [temp EXCEPT ![p] = proc[p].body]
  /\ proc' = [proc EXCEPT ![p].pc = "rename"]
  /\ UNCHANGED <<config, file, origin, req, starts>>

\* Over whatever is there by now.
Rename(p) ==
  /\ proc[p].pc = "rename"
  /\ file' = temp[p]
  /\ origin' = "fetch"
  /\ temp' = [temp EXCEPT ![p] = None]
  /\ proc' = [proc EXCEPT ![p] =
                [@ EXCEPT !.pc = "serving", !.body = None, !.fetched = TRUE]]
  /\ UNCHANGED <<config, req, starts>>

\* The directory is not writable, the disk is full, a mount is in the way.
DiskFails(p) == proc[p].pc \in {"create", "write", "rename"} /\ Fallback(p)

\* The process ends, at any step.  Its temporary file stays on the disk, where
\* nobody looks for it again.
Kill(p) ==
  /\ proc[p].pc \notin {"down", "failed"}
  /\ proc' = [proc EXCEPT ![p] = Down]
  /\ UNCHANGED <<config, file, origin, temp, req, starts>>

-----------------------------------------------------------------------------
(* Requests to Black Duck.                                                 *)

\* loadTLSConfig: every source that is configured must give certificates.
Loads == /\ HasEffective => Effective # {}
         /\ config.base64 # {}

Pool == (IF HasEffective THEN Effective ELSE {})
        \cup (IF config.base64 # None THEN config.base64 ELSE {})

Request(p, r, result, trust) ==
  /\ proc[p].pc = "serving" /\ req[r].result = "none"
  /\ req' = [req EXCEPT ![r] = [by |-> p, result |-> result, trust |-> trust]]
  /\ UNCHANGED <<config, file, origin, temp, starts>>

\* RoundTrip, getTransport under its mutex: the transport is built for the
\* first request that finds its sources usable, and kept.  An error is not; it
\* may also be that the roots of the system cannot be read.
RoundTrip(p, r) ==
  LET transport == proc[p].transport IN
  \/ /\ ~Lazy
     /\ Request(p, r, "sent", {}) /\ UNCHANGED proc
  \/ /\ Lazy /\ transport # None
     /\ Request(p, r, "sent", transport) /\ UNCHANGED proc
  \/ /\ Lazy /\ transport = None /\ Loads
     /\ Request(p, r, "sent", Pool)
     /\ proc' = [proc EXCEPT ![p].transport = Pool]
  \/ /\ Lazy /\ transport = None
     /\ Request(p, r, "refused", {}) /\ UNCHANGED proc

-----------------------------------------------------------------------------
(* Operators, who mount, replace and remove the file while servers run.    *)

Prime ==
  /\ \E content \in Primed : file' = content
  /\ origin' = "operator"
  /\ UNCHANGED <<config, temp, proc, req, starts>>

Remove ==
  /\ file # None
  /\ file' = None
  /\ origin' = "removed"
  /\ UNCHANGED <<config, temp, proc, req, starts>>

EnsureStep(p) ==
  \/ Stat(p) \/ Fetch(p) \/ FetchFails(p)
  \/ Create(p) \/ Write(p) \/ Rename(p) \/ DiskFails(p)

Next ==
  \/ \E p \in Processes :
       \/ Boot(p) \/ EnsureStep(p) \/ Kill(p)
       \/ \E r \in Requests : RoundTrip(p, r)
  \/ Prime \/ Remove

Spec == Init /\ [][Next]_vars

\* A process that runs goes on: file operations end, one way or the other, and
\* so does a fetch, by http.Client's timeout of 30s.
FairSpec == Spec /\ \A p \in Processes : WF_vars(EnsureStep(p))

-----------------------------------------------------------------------------
(* The abstract view: of a start, only its end is seen.                    *)

Status == [p \in Processes |->
             IF proc[p].pc \in Starting THEN "starting" ELSE proc[p].pc]

Atomic == INSTANCE AtomicEnsure WITH needed <- Enabled, status <- Status

-----------------------------------------------------------------------------
(* What must hold.                                                         *)

\* Ensure is atomic to whoever looks at the disk and at the servers, however
\* its fetches, temporary files and renames are interleaved with those of other
\* servers, with operators and with kills (bootstrap.go:63-147).
EnsureIsAtomic == Atomic!Spec

\* The renamed temporary file (bootstrap.go:100-127) makes the bundle appear
\* all at once: what the servers put in place is one whole answer, however many of
\* them fetch at once, and wherever they are killed.
BundleWhole == origin = "fetch" => file \in Answers

\* No request leaves without the trust that is configured: it has the
\* certificates of the base64 setting, if there is one, and those of one whole
\* file, if one is named, though the file comes and goes under the server
\* (providers.go:66-116).
FileContents == IF config.override # None THEN {config.override}
                ELSE IF config.file THEN Answers \cup Primed ELSE {{}}
Whole(trust) ==
  \E content \in FileContents :
    /\ HasEffective => content # {}
    /\ config.base64 # {}
    /\ trust = content \cup (IF config.base64 # None THEN config.base64 ELSE {})
TrustWhole ==
  \A r \in Requests : Lazy /\ req[r].result = "sent" => Whole(req[r].trust)

\* A start fails for lack of a bundle only: not while there is one, be it that
\* it arrived from another server or an operator after this one had looked, and
\* whatever failed in between (bootstrap.go:174-186).
FailsOnlyWithoutBundle ==
  [][\A p \in Processes :
       proc[p].pc # "failed" /\ proc'[p].pc = "failed" => file = None]_vars

\* Every start comes to an end, with or without the PKI endpoint.
StartSettles ==
  \A p \in Processes :
    proc[p].pc = "stat" ~> proc[p].pc \in {"serving", "failed", "down"}

\* README.md:57, "when both set, the server fetches the private CA bundle at
\* startup and writes it to the file".
FetchesAtStartup ==
  \A p \in Processes : Enabled /\ proc[p].pc = "serving" => proc[p].fetched
=============================================================================
