----------------------------- MODULE UserUpdate -----------------------------
(***************************************************************************)
(* blackduck_users_update (tools.go:1039-1204): read the user, merge the   *)
(* requested fields into what was read, write the whole user back.  The    *)
(* read and the write are two calls of the Black Duck client, taken at     *)
(* their promise (AtMostOnceCall); other updates, and people working in    *)
(* Black Duck itself, come between them.  A PUT that Black Duck took on    *)
(* replaces the user at once or, as after a 202 (client.go:408), later.    *)
(*                                                                         *)
(* email stands for firstName and lastName too: the code treats the three  *)
(* alike.  A field Black Duck does not report is "", like a blank one, and *)
(* None if it is `active`.                                                 *)
(***************************************************************************)
EXTENDS ToolAccess, Naturals

CONSTANTS
  Calls,        \* the users_update calls the process ever serves, for one user
  Sessions,     \* the credentials requests carry
  Names,        \* non-blank user names and e-mail addresses
  WrongType,    \* a value of the wrong JSON type
  Updates,      \* the `updates` arguments: values by field name
  Accounts      \* what the user may be at first, and what others make of it

Types == {"INTERNAL", "EXTERNAL"}
Fields == {"active", "userName", "externalUserName", "email", "type"}

Values(f) == IF f = "active" THEN BOOLEAN
             ELSE IF f = "type" THEN Types \cup {""} ELSE Names \cup {""}

User == [active : Values("active") \cup {None}, userName : Values("userName"),
         externalUserName : Values("externalUserName"),
         email : Values("email"), type : Values("type")]

\* An external account without its external name: Black Duck has none, and the
\* tool must make none (tools.go:1191).
Nameless(u) == u.type = "EXTERNAL" /\ u.externalUserName = ""

ASSUME AccountsAssumption ==
  /\ Sessions \subseteq Credentials
  /\ Accounts \subseteq {u \in User : ~Nameless(u)}
  /\ Accounts # {}

ASSUME UpdatesAssumption ==
  \A upd \in Updates :
    /\ DOMAIN upd \subseteq STRING
    /\ \A f \in Fields \cap DOMAIN upd :
         upd[f] = WrongType \/ upd[f] \in Values(f)

VARIABLES
  user,       \* upstream: the user
  written,    \* the calls whose body replaced the user
  update,     \* the local state of each users_update call
  outcome, accepted   \* of GetJSON and PutJSON of each call, see AtMostOnceCall

vars == <<user, written, update, outcome, accepted>>

ReadOf(c) == <<c, "get">>
WriteOf(c) == <<c, "put">>

Client == INSTANCE AtMostOnceCall WITH Calls <- Calls \X {"get", "put"}

\* untouched is history: nobody wrote the user since this call read it.
IdleUpdate ==
  [pc |-> "idle", by |-> None, updates |-> None, current |-> None,
   body |-> None, untouched |-> FALSE, result |-> "none"]

Init ==
  /\ user \in Accounts
  /\ written = {}
  /\ update = [c \in Calls |-> IdleUpdate]
  /\ Client!Init

\* The call ends, with what its caller is told.  by, updates and body are kept
\* as history, for a PUT that is executed late.
Ends(c, r) ==
  update' = [update EXCEPT ![c] =
               [@ EXCEPT !.pc = "done", !.result = r, !.current = None]]

-----------------------------------------------------------------------------
(* buildUserUpdateBody                                                     *)

Chosen(current, updates, f) == IF f \in DOMAIN updates THEN updates[f] ELSE current[f]

\* Faulty variants of ExternalName and Buildable, never used: an external name
\* asked to be blank is not blanked; one not asked for follows the user name as
\* it was read; the value of an update is not checked; a nameless EXTERNAL user
\* is accepted.
AlwaysDefaulted(current, updates) ==
  IF Chosen(current, updates, "externalUserName") = ""
  THEN Chosen(current, updates, "userName")
  ELSE Chosen(current, updates, "externalUserName")

FollowsUserName(current, updates) ==
  IF "externalUserName" \notin DOMAIN updates THEN current.userName
  ELSE updates["externalUserName"]

Complete(current) ==
  /\ current.userName # "" /\ current.email # "" /\ current.type # ""
  /\ current.active # None

UncheckedValues(current, updates) ==
  DOMAIN updates \subseteq Fields /\ Complete(current)

NamelessAccepted(current, updates) ==
  /\ DOMAIN updates \subseteq Fields
  /\ Complete(current)
  /\ \A f \in DOMAIN updates : updates[f] # WrongType

\* An external name nobody gives is the user name, as updated.
ExternalName(current, updates) ==
  IF "externalUserName" \notin DOMAIN updates /\ current.externalUserName = ""
  THEN Chosen(current, updates, "userName")
  ELSE Chosen(current, updates, "externalUserName")

Body(current, updates) ==
  [active           |-> Chosen(current, updates, "active"),
   userName         |-> Chosen(current, updates, "userName"),
   externalUserName |-> ExternalName(current, updates),
   email            |-> Chosen(current, updates, "email"),
   type             |-> Chosen(current, updates, "type")]

\* The update is not turned down before anything is written.
Buildable(current, updates) ==
  /\ DOMAIN updates \subseteq Fields
  /\ Complete(current)
  /\ \A f \in DOMAIN updates : updates[f] # WrongType
  /\ ~Nameless(Body(current, updates))

-----------------------------------------------------------------------------
(* The tool.                                                               *)

\* A call without fields to update is turned down at once and not modelled.
Begin(c, s) ==
  /\ update[c].pc = "idle"
  /\ MayCall(s, "blackduck_users_update")
  /\ s.apiToken # None
  /\ \E upd \in Updates :
       /\ DOMAIN upd # {}
       /\ update' = [update EXCEPT ![c] =
                       [IdleUpdate EXCEPT !.pc = "get", !.by = s, !.updates = upd]]
  /\ Client!Start(ReadOf(c))
  /\ UNCHANGED <<user, written>>

\* A blank Basic password: the client refuses before it sends anything.
BeginBlank(c, s) ==
  /\ update[c].pc = "idle"
  /\ MayCall(s, "blackduck_users_update")
  /\ s.apiToken = None
  /\ Client!TurnAway(ReadOf(c))
  /\ Ends(c, "refused")
  /\ UNCHANGED <<user, written>>

ReadReturns(c) ==
  /\ update[c].pc = "get"
  /\ Client!Return(ReadOf(c), "ok")
  /\ update' = [update EXCEPT ![c] = [@ EXCEPT !.pc = "merge"]]
  /\ UNCHANGED <<user, written>>

ReadFails(c) ==
  /\ update[c].pc = "get"
  /\ \E o \in {"refused", "error"} : Client!Return(ReadOf(c), o) /\ Ends(c, o)
  /\ UNCHANGED <<user, written>>

Reject(c) ==
  /\ update[c].pc = "merge"
  /\ ~Buildable(update[c].current, update[c].updates)
  /\ Ends(c, "error")
  /\ UNCHANGED <<user, written, outcome, accepted>>

StartWrite(c) ==
  /\ update[c].pc = "merge"
  /\ Buildable(update[c].current, update[c].updates)
  /\ update' = [update EXCEPT ![c] =
                  [@ EXCEPT !.pc = "put",
                            !.body = Body(update[c].current, update[c].updates)]]
  /\ Client!Start(WriteOf(c))
  /\ UNCHANGED <<user, written>>

\* A faulty variant, never used: the error of the write is not looked at.
ErrorIgnored(c) ==
  /\ update[c].pc = "put"
  /\ \E o \in {"ok", "refused", "error"} : Client!Return(WriteOf(c), o)
  /\ Ends(c, "ok")
  /\ UNCHANGED <<user, written>>

WriteReturns(c) ==
  /\ update[c].pc = "put"
  /\ \E o \in {"ok", "refused", "error"} : Client!Return(WriteOf(c), o) /\ Ends(c, o)
  /\ UNCHANGED <<user, written>>

-----------------------------------------------------------------------------
(* Black Duck                                                              *)

\* Serving a read that was given up changes nothing and is left out.
UserRead(c) ==
  /\ update[c].pc = "get"
  /\ Client!Accept(ReadOf(c))
  /\ update' = [update EXCEPT ![c] = [@ EXCEPT !.current = user, !.untouched = TRUE]]
  /\ UNCHANGED <<user, written>>

TouchedAll == [d \in Calls |-> [update[d] EXCEPT !.untouched = FALSE]]

\* The PUT is taken on, now or after the call gave up.
WriteAccepted(c) ==
  /\ Client!Accept(WriteOf(c))
  /\ UNCHANGED <<user, written, update>>

\* The body replaces the user, before the answer or any time later.
UserWritten(c) ==
  /\ accepted[WriteOf(c)] = 1 /\ c \notin written
  /\ user' = update[c].body
  /\ written' = written \cup {c}
  /\ update' = TouchedAll
  /\ UNCHANGED <<outcome, accepted>>

\* Someone changes the user in Black Duck itself.
ChangedElsewhere ==
  /\ user' \in Accounts \ {user}
  /\ update' = TouchedAll
  /\ UNCHANGED <<written, outcome, accepted>>

UpdateStep(c) ==
  \/ \E s \in Sessions : Begin(c, s) \/ BeginBlank(c, s)
  \/ ReadReturns(c) \/ ReadFails(c)
  \/ Reject(c) \/ StartWrite(c)
  \/ WriteReturns(c)
  \/ UserRead(c) \/ WriteAccepted(c) \/ UserWritten(c)

Next == ChangedElsewhere \/ \E c \in Calls : UpdateStep(c)

Spec == Init /\ [][Next]_vars

-----------------------------------------------------------------------------
(* What must hold.                                                         *)

UpdateState ==
  [pc : {"idle", "get", "merge", "put", "done"}, by : Sessions \cup {None},
   updates : Updates \cup {None}, current : User \cup {None},
   body : User \cup {None}, untouched : BOOLEAN,
   result : {"none", "ok", "refused", "error"}]

TypeOK ==
  /\ user \in User /\ written \subseteq Calls
  /\ update \in [Calls -> UpdateState]
  /\ outcome \in [Calls \X {"get", "put"} -> Client!Outcomes]
  /\ accepted \in [Calls \X {"get", "put"} -> {0, 1}]

Writes(c) == c \in written' \ written

\* When nobody else wrote the user since the call read it, the write changes
\* exactly what was asked for (tools.go:1138-1190): each requested field to the
\* requested value, a blank one included, and of the rest only an external
\* name that was blank, which becomes the user name.
UpdateExact ==
  [][\A c \in Calls : Writes(c) /\ update[c].untouched =>
       \A f \in Fields :
         IF f \in DOMAIN update[c].updates THEN user'[f] = update[c].updates[f]
         ELSE \/ user'[f] = user[f]
              \/ /\ f = "externalUserName" /\ user[f] = ""
                 /\ user'[f] = user'["userName"]]_vars

\* A call whose write may have happened is asked again, as after an error it
\* has to be: when the user is as the write left it, asking again writes the
\* same user (tools.go:1053-1067, 1138-1190).
RetryChangesNothing ==
  [][\A c, d \in Calls :
       /\ Writes(c) /\ update[c].untouched
       /\ d \in written
       /\ update[c].updates = update[d].updates
       /\ user = update[d].body
       => user' = user]_vars

\* No order of updates, of type, user name and external name, each read before
\* another was written, makes an EXTERNAL user without an external name
\* (tools.go:1188-1193).
NeverNameless == ~Nameless(user)

\* What the caller of a call knows, and whether its PUT was taken on.
ToldBy(l) == IF l.pc = "idle" THEN "idle"
             ELSE IF l.pc = "done" THEN l.result
             ELSE "running"

Told == [c \in Calls |-> ToldBy(update[c])]
TakenOn == [c \in Calls |-> accepted[WriteOf(c)]]

Tool == INSTANCE AtMostOnceCall WITH outcome <- Told, accepted <- TakenOn

\* Over its two client calls the tool gives its caller the promise one call
\* gives: at most one write is taken on; "ok" means that it was, a refusal that
\* it never will be (tools.go:1053-1067).
ToolPromise == Tool!Spec

\* docs/TOOLS.md:185, "applying only the requested `updates` fields": a write
\* leaves every other field of the user as it is.
OnlyRequestedFields ==
  [][\A c \in Calls : Writes(c) =>
       \A f \in Fields \ DOMAIN update[c].updates : user'[f] = user[f]]_vars

\* skills/blackduck-customer-service/SKILL.md:5, "Write operations (e.g.,
\* blackduck_users_update ...) are only available when the MCP bearer token was
\* authorized with access_mode=read_write": only such a session writes a user.
WritesNeedReadWrite ==
  [][\A c \in Calls : Writes(c) =>
       update[c].by.kind = "bearer" /\ update[c].by.mode = "read_write"]_vars
=============================================================================
