---------------------------- MODULE MCUserUpdate ----------------------------
(* UserUpdate with model values for TLC.                                   *)
EXTENDS UserUpdate, TLC

CONSTANTS c1, c2, a1

OneToken == {a1}
OneCall  == {c1}
TwoCalls == {c1, c2}
TwoNames == {"ann", "bob"}

ReadWriteSession == [kind |-> "bearer", apiToken |-> a1, mode |-> "read_write"]
ReadOnlySession  == [kind |-> "bearer", apiToken |-> a1, mode |-> "read_only"]
BlankBasic       == [kind |-> "basic", apiToken |-> None, mode |-> None]

OneSession  == {ReadWriteSession}
AllSessions == {ReadWriteSession, ReadOnlySession, BlankBasic}

Ann == [active |-> TRUE, userName |-> "ann", externalUserName |-> "",
        email |-> "ann", type |-> "INTERNAL"]

\* As reported: without an external name, with one, external, and incomplete.
Reported == {Ann, [Ann EXCEPT !.externalUserName = "ann"],
             [Ann EXCEPT !.externalUserName = "ann", !.type = "EXTERNAL"],
             [Ann EXCEPT !.email = ""], [Ann EXCEPT !.active = None]}

\* Accounts that nobody else changes but to deactivate them.
Named == {[Ann EXCEPT !.externalUserName = "ann"],
          [Ann EXCEPT !.externalUserName = "ann", !.active = FALSE]}

\* One of each kind: a flag, a name, blanks, the type with and without an
\* external name, a value of the wrong type, a field that does not exist.
Requests == {"active" :> FALSE, "userName" :> "bob", "userName" :> "",
             "externalUserName" :> "", "type" :> "EXTERNAL",
             "type" :> "EXTERNAL" @@ "externalUserName" :> "",
             "email" :> WrongType, "password" :> "bob"}

\* What the customer-service skill does: activate, deactivate, rename.
Support == {"active" :> TRUE, "active" :> FALSE, "email" :> "bob"}

Symmetric == Permutations(TwoCalls)
=============================================================================
