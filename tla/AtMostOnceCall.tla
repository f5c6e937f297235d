--------------------------- MODULE AtMostOnceCall ---------------------------
(***************************************************************************)
(* What GetJSON, PutJSON and DeleteJSON promise their caller about one     *)
(* operation on Black Duck, with no word of bearer tokens, caches, retries *)
(* or timeouts: Black Duck takes the operation on at most once; a call     *)
(* that returns a body was taken on; a call that returns ErrUnauthorized   *)
(* or ErrForbidden never is, then or later; after any other error it may   *)
(* have been, may never be, or may still be.  An operation taken on is     *)
(* carried out at once (200, 201, 204) or in Black Duck's own time (202    *)
(* Accepted, client.go:321,408); the client cannot tell, nor does it say.  *)
(***************************************************************************)
EXTENDS Naturals

CONSTANT Calls

VARIABLES outcome,   \* what the caller of each call knows
          accepted   \* how often Black Duck took each call's operation on

vars == <<outcome, accepted>>

Outcomes == {"idle", "running", "ok", "refused", "error"}

Init == /\ outcome = [c \in Calls |-> "idle"]
        /\ accepted = [c \in Calls |-> 0]

Start(c) == /\ outcome[c] = "idle"
            /\ outcome' = [outcome EXCEPT ![c] = "running"]
            /\ UNCHANGED accepted

\* A call that has no credential is turned away before anything is sent.
TurnAway(c) == /\ outcome[c] = "idle"
               /\ outcome' = [outcome EXCEPT ![c] = "refused"]
               /\ UNCHANGED accepted

Accept(c) == /\ outcome[c] \in {"running", "error"}
             /\ accepted[c] = 0
             /\ accepted' = [accepted EXCEPT ![c] = 1]
             /\ UNCHANGED outcome

Return(c, o) == /\ outcome[c] = "running"
                /\ o = "ok" => accepted[c] = 1
                /\ o = "refused" => accepted[c] = 0
                /\ outcome' = [outcome EXCEPT ![c] = o]
                /\ UNCHANGED accepted

Next == \E c \in Calls :
           \/ Start(c)
           \/ TurnAway(c)
           \/ Accept(c)
           \/ \E o \in {"ok", "refused", "error"} : Return(c, o)

Spec == Init /\ [][Next]_vars
=============================================================================
