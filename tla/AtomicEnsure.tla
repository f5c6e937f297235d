---------------------------- MODULE AtomicEnsure ----------------------------
(***************************************************************************)
(* What EnsurePrivateCARoot promises to the servers on one volume          *)
(* (privateca/bootstrap.go:50-147): each start takes effect at one point.  *)
(* At that point the server finds a file and uses it, or puts a bundle     *)
(* there, whole as it was answered, or has to give up: there is no file.   *)
(* No other moment of a start, and no kill, can be told from the disk.     *)
(***************************************************************************)
CONSTANTS
  Processes,   \* the servers
  Answers,     \* what the PKI endpoint answers with
  Primed,      \* what operators put there themselves
  None         \* no file

VARIABLES
  needed,   \* the bootstrap is configured
  file,     \* the content of the bundle file
  status    \* of each server

vars == <<needed, file, status>>

Init ==
  /\ needed \in BOOLEAN
  /\ file \in Primed \cup {None}
  /\ status = [p \in Processes |-> "down"]

Become(p, from, to) ==
  /\ status[p] \in from
  /\ status' = [status EXCEPT ![p] = to]
  /\ UNCHANGED needed

Start(p) == Become(p, {"down", "failed"}, "starting") /\ UNCHANGED file

Reuse(p) ==
  /\ needed => file # None
  /\ Become(p, {"starting"}, "serving")
  /\ UNCHANGED file

Install(p) ==
  /\ needed
  /\ Become(p, {"starting"}, "serving")
  /\ file' \in Answers

GiveUp(p) ==
  /\ needed /\ file = None
  /\ Become(p, {"starting"}, "failed")
  /\ UNCHANGED file

Stop(p) == Become(p, {"starting", "serving"}, "down") /\ UNCHANGED file

\* Operators mount, replace and remove the file.
Operate == file' \in Primed \cup {None} /\ UNCHANGED <<needed, status>>

Next ==
  \/ \E p \in Processes :
       Start(p) \/ Reuse(p) \/ Install(p) \/ GiveUp(p) \/ Stop(p)
  \/ Operate

Spec == Init /\ [][Next]_vars
=============================================================================
