-------------------------- MODULE UserUpdateProofs --------------------------
(***************************************************************************)
(* Safety of updating a user, for any accounts, requests, sessions and     *)
(* number of overlapping updates.                                          *)
(*                                                                         *)
(* Of a call the invariant says how far its two client calls are, and what *)
(* it knows of the user: what it read is the user as long as nobody wrote  *)
(* (untouched), and then its body is the user with the request applied; it *)
(* is always some user with the request applied (Made).                    *)
(***************************************************************************)
EXTENDS UserUpdate, TLAPS

\* How the client calls of a users_update call stand at each of its steps.
Progress(c) ==
  /\ update[c].pc = "idle" => outcome[ReadOf(c)] = "idle" /\ ~update[c].untouched
  /\ update[c].pc \in {"idle", "get", "merge"} => outcome[WriteOf(c)] = "idle"
  /\ update[c].pc = "get" /\ accepted[ReadOf(c)] = 0 => ~update[c].untouched
  /\ update[c].pc = "put" => outcome[WriteOf(c)] = "running"
  /\ update[c].pc = "done" =>
       /\ update[c].result \in {"ok", "refused", "error"}
       /\ outcome[WriteOf(c)] \in {"idle", update[c].result}
  /\ outcome[ReadOf(c)] = "idle" => accepted[ReadOf(c)] = 0
  /\ outcome[WriteOf(c)] = "idle" => accepted[WriteOf(c)] = 0
  /\ c \in written => accepted[WriteOf(c)] = 1

\* body is what updates make of some user that was read.
Made(body, updates) ==
  \E u \in User : Buildable(u, updates) /\ body = Body(u, updates)

\* What it has in its hands.
Knows(c) ==
  /\ update[c].pc \in {"get", "merge", "put"} => update[c].updates \in Updates
  /\ update[c].pc = "get" /\ accepted[ReadOf(c)] = 1 => update[c].current \in User
  /\ update[c].pc = "merge" => update[c].current \in User
  /\ update[c].pc \in {"get", "merge"} /\ update[c].untouched =>
       update[c].current = user
  /\ outcome[WriteOf(c)] # "idle" =>
       /\ update[c].updates \in Updates
       /\ update[c].body \in User /\ ~Nameless(update[c].body)
       /\ Made(update[c].body, update[c].updates)
       /\ update[c].untouched =>
            /\ Buildable(user, update[c].updates)
            /\ update[c].body = Body(user, update[c].updates)

UpdateInv ==
  /\ TypeOK
  /\ NeverNameless
  /\ \A c \in Calls : Progress(c) /\ Knows(c)

-----------------------------------------------------------------------------
(* buildUserUpdateBody                                                     *)

\* A request that is not turned down makes a user of a user.
LEMMA BodyIsUser ==
  ASSUME NEW u \in User, NEW upd \in Updates, Buildable(u, upd)
  PROVE  Body(u, upd) \in User /\ ~Nameless(Body(u, upd))
<1>1. \A f \in DOMAIN upd : upd[f] \in Values(f)
  BY UpdatesAssumption DEF Buildable
<1>2. Chosen(u, upd, "active") \in Values("active") \cup {None}
  BY <1>1 DEF User, Chosen
<1>3. Chosen(u, upd, "type") \in Values("type")
  BY <1>1 DEF User, Chosen
<1>4. \A f \in {"userName", "externalUserName", "email"} : Chosen(u, upd, f) \in Values(f)
  BY <1>1 DEF User, Chosen
<1>5. ExternalName(u, upd) \in Values("externalUserName")
  BY <1>4 DEF ExternalName, Values
<1> QED BY <1>2, <1>3, <1>4, <1>5 DEF User, Body, Buildable

\* The body differs from what was read where it was asked to, and in a blank
\* external name.
LEMMA BodyIsExact ==
  ASSUME NEW u \in User, NEW upd \in Updates, NEW f \in Fields
  PROVE  IF f \in DOMAIN upd THEN Body(u, upd)[f] = upd[f]
         ELSE \/ Body(u, upd)[f] = u[f]
              \/ /\ f = "externalUserName" /\ u[f] = ""
                 /\ Body(u, upd)[f] = Body(u, upd)["userName"]
<1>1. /\ Body(u, upd)["active"] = Chosen(u, upd, "active")
      /\ Body(u, upd)["userName"] = Chosen(u, upd, "userName")
      /\ Body(u, upd)["email"] = Chosen(u, upd, "email")
      /\ Body(u, upd)["type"] = Chosen(u, upd, "type")
      /\ Body(u, upd)["externalUserName"] = ExternalName(u, upd)
  BY Zenon DEF Body
<1>2. CASE f # "externalUserName"
  <2>1. Body(u, upd)[f] = Chosen(u, upd, f)
    BY <1>1, <1>2, Zenon DEF Fields
  <2> QED BY <2>1, Zenon DEF Chosen
<1>3. CASE f = "externalUserName"
  BY <1>1, <1>3, Zenon DEF ExternalName, Chosen
<1> QED BY <1>2, <1>3

\* The same request, made of its own result, asks for nothing more.
LEMMA BodyAgain ==
  ASSUME NEW u \in User, NEW upd \in Updates, NEW b, b = Body(u, upd)
  PROVE  Body(b, upd) = b
<1>1. /\ b.active = Chosen(u, upd, "active") /\ b.userName = Chosen(u, upd, "userName")
      /\ b.email = Chosen(u, upd, "email") /\ b.type = Chosen(u, upd, "type")
      /\ b.externalUserName = ExternalName(u, upd)
  BY DEF Body
<1>2. /\ Chosen(b, upd, "active") = b.active /\ Chosen(b, upd, "userName") = b.userName
      /\ Chosen(b, upd, "email") = b.email /\ Chosen(b, upd, "type") = b.type
  BY <1>1, Zenon DEF Chosen
<1>3. ExternalName(b, upd) = b.externalUserName
  BY <1>1, <1>2, Zenon DEF ExternalName, Chosen
<1>4. b = [active |-> b.active, userName |-> b.userName,
           externalUserName |-> b.externalUserName, email |-> b.email, type |-> b.type]
  BY <1>1 DEF Body
<1> QED BY <1>2, <1>3, <1>4 DEF Body

-----------------------------------------------------------------------------
(* Frames.                                                                 *)

LEMMA OwnCalls ==
  \A c, d \in Calls :
    /\ ReadOf(c) \in Calls \X {"get", "put"} /\ WriteOf(c) \in Calls \X {"get", "put"}
    /\ ReadOf(c) # WriteOf(d)
    /\ c # d => ReadOf(c) # ReadOf(d) /\ WriteOf(c) # WriteOf(d)
BY DEF ReadOf, WriteOf

\* The client calls of c stand as they stood.
Still(c) ==
  /\ outcome'[ReadOf(c)] = outcome[ReadOf(c)] /\ accepted'[ReadOf(c)] = accepted[ReadOf(c)]
  /\ outcome'[WriteOf(c)] = outcome[WriteOf(c)] /\ accepted'[WriteOf(c)] = accepted[WriteOf(c)]

\* A step of one call leaves alone what is said of the others.
LEMMA OneCallMoves ==
  ASSUME UpdateInv, NEW c \in Calls, NEW l \in UpdateState,
         update' = [update EXCEPT ![c] = l], UNCHANGED <<user, written>>,
         outcome' \in [Calls \X {"get", "put"} -> Client!Outcomes],
         accepted' \in [Calls \X {"get", "put"} -> {0, 1}],
         \A d \in Calls \ {c} : Still(d),
         Progress(c)', Knows(c)'
  PROVE  UpdateInv'
<1>1. TypeOK'
  BY DEF UpdateInv, TypeOK
<1>2. ASSUME NEW d \in Calls, d # c PROVE Progress(d)' /\ Knows(d)'
  <2>1. update'[d] = update[d] /\ Progress(d) /\ Knows(d) /\ Still(d)
    BY <1>2 DEF UpdateInv, TypeOK
  <2> QED BY <2>1 DEF Progress, Knows, Still
<1>3. \A d \in Calls : Progress(d)' /\ Knows(d)'
  BY <1>2
<1> QED BY <1>1, <1>3 DEF UpdateInv, NeverNameless

-----------------------------------------------------------------------------
(* The steps of a call.                                                    *)

\* A call that ends keeps what it may still have to answer for.
LEMMA EndPreserves ==
  ASSUME UpdateInv, NEW c \in Calls, NEW r \in {"ok", "refused", "error"}, Ends(c, r),
         UNCHANGED <<user, written, accepted>>,
         outcome' \in [Calls \X {"get", "put"} -> Client!Outcomes],
         \A d \in Calls \ {c} : Still(d),
         outcome'[ReadOf(c)] = "idle" => accepted[ReadOf(c)] = 0,
         outcome'[WriteOf(c)] \in {"idle", r},
         outcome'[WriteOf(c)] = "idle" <=> outcome[WriteOf(c)] = "idle"
  PROVE  UpdateInv'
<1>1. PICK l : l = [update[c] EXCEPT !.pc = "done", !.result = r, !.current = None]
  OBVIOUS
<1>2. update[c] \in UpdateState /\ update' = [update EXCEPT ![c] = l]
  BY <1>1 DEF UpdateInv, TypeOK, Ends
<1>3. /\ l \in UpdateState /\ l.pc = "done" /\ l.result = r
      /\ l.updates = update[c].updates /\ l.body = update[c].body
      /\ l.untouched = update[c].untouched
  BY <1>1, <1>2 DEF UpdateState
<1>4. update'[c] = l
  BY <1>2 DEF UpdateInv, TypeOK
<1>5. Progress(c) /\ Knows(c)
  BY DEF UpdateInv
<1>6. Progress(c)'
  BY <1>3, <1>4, <1>5 DEF Progress
<1>7. Knows(c)'
  BY <1>3, <1>4, <1>5 DEF Knows
<1> QED BY <1>2, <1>3, <1>6, <1>7, OneCallMoves DEF UpdateInv, TypeOK

LEMMA BeginPreserves ==
  ASSUME UpdateInv, NEW c \in Calls, NEW s \in Sessions, Begin(c, s)
  PROVE  UpdateInv'
<1>1. PICK upd \in Updates : update' = [update EXCEPT ![c] =
        [IdleUpdate EXCEPT !.pc = "get", !.by = s, !.updates = upd]]
  BY DEF Begin
<1>2. PICK l : l = [IdleUpdate EXCEPT !.pc = "get", !.by = s, !.updates = upd]
  OBVIOUS
<1>3. l \in UpdateState /\ l.pc = "get" /\ l.updates = upd /\ l.untouched = FALSE
  BY <1>2 DEF IdleUpdate, UpdateState
<1>4. /\ update' = [update EXCEPT ![c] = l] /\ update'[c] = l
  BY <1>1, <1>2 DEF UpdateInv, TypeOK
<1>5. /\ update[c].pc = "idle" /\ outcome[ReadOf(c)] = "idle"
      /\ outcome' = [outcome EXCEPT ![ReadOf(c)] = "running"]
      /\ UNCHANGED <<user, written, accepted>>
  BY DEF Begin, Client!Start
<1>6. Progress(c) /\ Knows(c)
  BY DEF UpdateInv
<1>7. /\ outcome' \in [Calls \X {"get", "put"} -> Client!Outcomes]
      /\ outcome'[ReadOf(c)] = "running" /\ outcome'[WriteOf(c)] = outcome[WriteOf(c)]
      /\ \A d \in Calls \ {c} : Still(d)
  BY <1>5, OwnCalls DEF UpdateInv, TypeOK, Client!Outcomes, Still
<1>8. Progress(c)'
  BY <1>3, <1>4, <1>5, <1>6, <1>7 DEF Progress
<1>9. Knows(c)'
  BY <1>3, <1>4, <1>5, <1>6, <1>7 DEF Progress, Knows
<1> QED BY <1>3, <1>4, <1>5, <1>7, <1>8, <1>9, OneCallMoves DEF UpdateInv, TypeOK

LEMMA BeginBlankPreserves ==
  ASSUME UpdateInv, NEW c \in Calls, NEW s \in Sessions, BeginBlank(c, s)
  PROVE  UpdateInv'
<1>1. /\ update[c].pc = "idle" /\ outcome[ReadOf(c)] = "idle"
      /\ outcome' = [outcome EXCEPT ![ReadOf(c)] = "refused"]
      /\ UNCHANGED <<user, written, accepted>> /\ Ends(c, "refused")
  BY DEF BeginBlank, Client!TurnAway
<1>2. Progress(c)
  BY DEF UpdateInv
<1>3. /\ outcome' \in [Calls \X {"get", "put"} -> Client!Outcomes]
      /\ outcome'[ReadOf(c)] = "refused" /\ outcome'[WriteOf(c)] = outcome[WriteOf(c)]
      /\ \A d \in Calls \ {c} : Still(d)
  BY <1>1, OwnCalls DEF UpdateInv, TypeOK, Client!Outcomes, Still
<1>4. outcome[WriteOf(c)] = "idle" /\ accepted[ReadOf(c)] = 0
  BY <1>1, <1>2 DEF Progress
<1> QED BY <1>1, <1>3, <1>4, EndPreserves

LEMMA ReadReturnsPreserves ==
  ASSUME UpdateInv, NEW c \in Calls, ReadReturns(c)
  PROVE  UpdateInv'
<1>1. PICK l : l = [update[c] EXCEPT !.pc = "merge"]
  OBVIOUS
<1>2. update[c] \in UpdateState /\ update' = [update EXCEPT ![c] = l]
  BY <1>1 DEF UpdateInv, TypeOK, ReadReturns
<1>3. /\ l \in UpdateState /\ l.pc = "merge" /\ l.updates = update[c].updates
      /\ l.body = update[c].body /\ l.current = update[c].current
      /\ l.untouched = update[c].untouched
  BY <1>1, <1>2 DEF UpdateState
<1>4. update'[c] = l
  BY <1>2 DEF UpdateInv, TypeOK
<1>5. /\ update[c].pc = "get" /\ outcome[ReadOf(c)] = "running" /\ accepted[ReadOf(c)] = 1
      /\ outcome' = [outcome EXCEPT ![ReadOf(c)] = "ok"]
      /\ UNCHANGED <<user, written, accepted>>
  BY DEF ReadReturns, Client!Return
<1>6. Progress(c) /\ Knows(c)
  BY DEF UpdateInv
<1>7. /\ outcome' \in [Calls \X {"get", "put"} -> Client!Outcomes]
      /\ outcome'[ReadOf(c)] = "ok" /\ outcome'[WriteOf(c)] = outcome[WriteOf(c)]
      /\ \A d \in Calls \ {c} : Still(d)
  BY <1>5, OwnCalls DEF UpdateInv, TypeOK, Client!Outcomes, Still
<1>8. Progress(c)'
  BY <1>3, <1>4, <1>5, <1>6, <1>7 DEF Progress
<1>9. Knows(c)'
  BY <1>3, <1>4, <1>5, <1>6, <1>7 DEF Progress, Knows
<1> QED BY <1>2, <1>3, <1>5, <1>7, <1>8, <1>9, OneCallMoves DEF UpdateInv, TypeOK

LEMMA ReadFailsPreserves ==
  ASSUME UpdateInv, NEW c \in Calls, ReadFails(c)
  PROVE  UpdateInv'
<1>1. PICK o \in {"refused", "error"} : Client!Return(ReadOf(c), o) /\ Ends(c, o)
  BY DEF ReadFails
<1>2. /\ update[c].pc = "get" /\ outcome[ReadOf(c)] = "running"
      /\ outcome' = [outcome EXCEPT ![ReadOf(c)] = o]
      /\ UNCHANGED <<user, written, accepted>>
  BY <1>1 DEF ReadFails, Client!Return
<1>3. /\ outcome' \in [Calls \X {"get", "put"} -> Client!Outcomes]
      /\ outcome'[ReadOf(c)] = o /\ outcome'[WriteOf(c)] = outcome[WriteOf(c)]
      /\ \A d \in Calls \ {c} : Still(d)
  BY <1>2, OwnCalls DEF UpdateInv, TypeOK, Client!Outcomes, Still
<1>4. outcome[WriteOf(c)] = "idle"
  BY <1>2 DEF UpdateInv, Progress
<1> QED BY <1>1, <1>2, <1>3, <1>4, EndPreserves

LEMMA RejectPreserves ==
  ASSUME UpdateInv, NEW c \in Calls, Reject(c)
  PROVE  UpdateInv'
<1>1. update[c].pc = "merge" /\ Ends(c, "error") /\ UNCHANGED <<user, written, outcome, accepted>>
  BY DEF Reject
<1>2. outcome[WriteOf(c)] = "idle" /\ (outcome[ReadOf(c)] = "idle" => accepted[ReadOf(c)] = 0)
  BY <1>1 DEF UpdateInv, Progress
<1>3. /\ outcome' \in [Calls \X {"get", "put"} -> Client!Outcomes]
      /\ \A d \in Calls \ {c} : Still(d)
  BY <1>1 DEF UpdateInv, TypeOK, Still
<1> QED BY <1>1, <1>2, <1>3, EndPreserves

LEMMA StartWritePreserves ==
  ASSUME UpdateInv, NEW c \in Calls, StartWrite(c)
  PROVE  UpdateInv'
<1>1. PICK b : b = Body(update[c].current, update[c].updates)
  OBVIOUS
<1>2. PICK l : l = [update[c] EXCEPT !.pc = "put", !.body = b]
  OBVIOUS
<1>3. update[c] \in UpdateState /\ update' = [update EXCEPT ![c] = l]
  BY <1>1, <1>2 DEF UpdateInv, TypeOK, StartWrite
<1>4. /\ update[c].pc = "merge" /\ outcome[WriteOf(c)] = "idle"
      /\ Buildable(update[c].current, update[c].updates)
      /\ outcome' = [outcome EXCEPT ![WriteOf(c)] = "running"]
      /\ UNCHANGED <<user, written, accepted>>
  BY DEF StartWrite, Client!Start
<1>5. Progress(c) /\ Knows(c)
  BY DEF UpdateInv
<1>6. /\ update[c].current \in User /\ update[c].updates \in Updates
      /\ update[c].untouched => update[c].current = user
  BY <1>4, <1>5 DEF Knows
<1>7. b \in User /\ ~Nameless(b)
  BY <1>1, <1>4, <1>6, BodyIsUser
<1>8. /\ l \in UpdateState /\ l.pc = "put" /\ l.body = b
      /\ l.updates = update[c].updates /\ l.untouched = update[c].untouched
  BY <1>2, <1>3, <1>7 DEF UpdateState
<1>9. update'[c] = l
  BY <1>3 DEF UpdateInv, TypeOK
<1>10. l.untouched => Buildable(user, l.updates) /\ b = Body(user, l.updates)
  BY <1>1, <1>4, <1>6, <1>8
<1>11. /\ outcome' \in [Calls \X {"get", "put"} -> Client!Outcomes]
       /\ outcome'[WriteOf(c)] = "running" /\ outcome'[ReadOf(c)] = outcome[ReadOf(c)]
       /\ \A d \in Calls \ {c} : Still(d)
  BY <1>4, OwnCalls DEF UpdateInv, TypeOK, Client!Outcomes, Still
<1>12. Made(b, l.updates)
  BY <1>1, <1>4, <1>6, <1>8 DEF Made
<1>13. Progress(c)'
  BY <1>4, <1>5, <1>8, <1>9, <1>11 DEF Progress
<1>14. Knows(c)'
  BY <1>4, <1>6, <1>7, <1>8, <1>9, <1>10, <1>12 DEF Knows
<1> QED BY <1>3, <1>4, <1>8, <1>11, <1>13, <1>14, OneCallMoves DEF UpdateInv, TypeOK

LEMMA WriteReturnsPreserves ==
  ASSUME UpdateInv, NEW c \in Calls, WriteReturns(c)
  PROVE  UpdateInv'
<1>1. PICK o \in {"ok", "refused", "error"} : Client!Return(WriteOf(c), o) /\ Ends(c, o)
  BY DEF WriteReturns
<1>2. /\ outcome[WriteOf(c)] = "running"
      /\ outcome' = [outcome EXCEPT ![WriteOf(c)] = o]
      /\ UNCHANGED <<user, written, accepted>>
  BY <1>1 DEF WriteReturns, Client!Return
<1>3. /\ outcome' \in [Calls \X {"get", "put"} -> Client!Outcomes]
      /\ outcome'[WriteOf(c)] = o /\ outcome'[ReadOf(c)] = outcome[ReadOf(c)]
      /\ \A d \in Calls \ {c} : Still(d)
  BY <1>2, OwnCalls DEF UpdateInv, TypeOK, Client!Outcomes, Still
<1>4. outcome[ReadOf(c)] = "idle" => accepted[ReadOf(c)] = 0
  BY DEF UpdateInv, Progress
<1> QED BY <1>1, <1>2, <1>3, <1>4, EndPreserves

LEMMA UserReadPreserves ==
  ASSUME UpdateInv, NEW c \in Calls, UserRead(c)
  PROVE  UpdateInv'
<1>1. PICK l : l = [update[c] EXCEPT !.current = user, !.untouched = TRUE]
  OBVIOUS
<1>2. update[c] \in UpdateState /\ update' = [update EXCEPT ![c] = l] /\ user \in User
  BY <1>1 DEF UpdateInv, TypeOK, UserRead
<1>3. /\ l \in UpdateState /\ l.pc = update[c].pc /\ l.updates = update[c].updates
      /\ l.body = update[c].body /\ l.current = user
  BY <1>1, <1>2 DEF UpdateState
<1>4. update'[c] = l
  BY <1>2 DEF UpdateInv, TypeOK
<1>5. /\ update[c].pc = "get" /\ outcome[ReadOf(c)] \in {"running", "error"}
      /\ accepted' = [accepted EXCEPT ![ReadOf(c)] = 1]
      /\ UNCHANGED <<user, written, outcome>>
  BY DEF UserRead, Client!Accept
<1>6. Progress(c) /\ Knows(c)
  BY DEF UpdateInv
<1>7. /\ accepted' \in [Calls \X {"get", "put"} -> {0, 1}]
      /\ accepted'[ReadOf(c)] = 1 /\ accepted'[WriteOf(c)] = accepted[WriteOf(c)]
      /\ \A d \in Calls \ {c} : Still(d)
  BY <1>5, OwnCalls DEF UpdateInv, TypeOK, Still
<1>8. Progress(c)'
  BY <1>3, <1>4, <1>5, <1>6, <1>7 DEF Progress
<1>9. Knows(c)'
  BY <1>2, <1>3, <1>4, <1>5, <1>6, <1>7 DEF Progress, Knows
<1> QED BY <1>2, <1>3, <1>5, <1>7, <1>8, <1>9, OneCallMoves DEF UpdateInv, TypeOK

\* After a write of the user nobody's reading is up to date.
LEMMA TouchPreserves ==
  ASSUME UpdateInv, update' = TouchedAll,
         user' \in User, ~Nameless(user'),
         UNCHANGED <<outcome, accepted>>, written' \subseteq Calls,
         \A d \in written' : accepted[WriteOf(d)] = 1
  PROVE  UpdateInv'
<1>1. ASSUME NEW d \in Calls
      PROVE  /\ update'[d] \in UpdateState
             /\ Progress(d)' /\ Knows(d)'
  <2>1. PICK l : l = [update[d] EXCEPT !.untouched = FALSE]
    OBVIOUS
  <2>2. update[d] \in UpdateState /\ update'[d] = l
    BY <2>1 DEF UpdateInv, TypeOK, TouchedAll
  <2>3. /\ l \in UpdateState /\ l.pc = update[d].pc /\ l.updates = update[d].updates
        /\ l.body = update[d].body /\ l.current = update[d].current
        /\ l.result = update[d].result /\ l.untouched = FALSE
    BY <2>1, <2>2 DEF UpdateState
  <2>4. Progress(d) /\ Knows(d)
    BY DEF UpdateInv
  <2>5. Progress(d)'
    BY <2>2, <2>3, <2>4 DEF Progress
  <2>6. Knows(d)'
    BY <2>2, <2>3, <2>4 DEF Knows
  <2> QED BY <2>2, <2>3, <2>5, <2>6
<1>2. update' \in [Calls -> UpdateState]
  BY <1>1 DEF TouchedAll
<1>3. TypeOK'
  BY <1>2 DEF UpdateInv, TypeOK
<1> QED BY <1>1, <1>3 DEF UpdateInv, NeverNameless

LEMMA UserWrittenPreserves ==
  ASSUME UpdateInv, NEW c \in Calls, UserWritten(c)
  PROVE  UpdateInv'
<1>1. /\ accepted[WriteOf(c)] = 1 /\ written' = written \cup {c}
      /\ user' = update[c].body /\ update' = TouchedAll
      /\ UNCHANGED <<outcome, accepted>>
  BY DEF UserWritten
<1>2. outcome[WriteOf(c)] # "idle"
  BY <1>1 DEF UpdateInv, Progress
<1>3. user' \in User /\ ~Nameless(user')
  BY <1>1, <1>2 DEF UpdateInv, Knows
<1>4. written' \subseteq Calls /\ \A d \in written' : accepted[WriteOf(d)] = 1
  BY <1>1 DEF UpdateInv, TypeOK, Progress
<1> QED BY <1>1, <1>3, <1>4, TouchPreserves

LEMMA WriteAcceptedPreserves ==
  ASSUME UpdateInv, NEW c \in Calls, WriteAccepted(c)
  PROVE  UpdateInv'
<1>1. /\ outcome[WriteOf(c)] \in {"running", "error"}
      /\ accepted' = [accepted EXCEPT ![WriteOf(c)] = 1]
      /\ UNCHANGED <<user, written, update, outcome>>
  BY DEF WriteAccepted, Client!Accept
<1>2. /\ accepted' \in [Calls \X {"get", "put"} -> {0, 1}]
      /\ accepted'[WriteOf(c)] = 1
      /\ \A d \in Calls :
           /\ accepted'[ReadOf(d)] = accepted[ReadOf(d)]
           /\ d # c => accepted'[WriteOf(d)] = accepted[WriteOf(d)]
  BY <1>1, OwnCalls DEF UpdateInv, TypeOK
<1>3. TypeOK'
  BY <1>1, <1>2 DEF UpdateInv, TypeOK
<1>4. ASSUME NEW d \in Calls PROVE Progress(d)' /\ Knows(d)'
  <2>1. Progress(d) /\ Knows(d)
    BY DEF UpdateInv
  <2>2. Progress(d)'
    BY <1>1, <1>2, <2>1 DEF Progress
  <2>3. Knows(d)'
    BY <1>1, <1>2, <2>1 DEF Knows
  <2> QED BY <2>2, <2>3
<1> QED BY <1>1, <1>3, <1>4 DEF UpdateInv, NeverNameless

LEMMA ElsewherePreserves ==
  ASSUME UpdateInv, ChangedElsewhere
  PROVE  UpdateInv'
<1>1. /\ user' \in User /\ ~Nameless(user') /\ update' = TouchedAll
      /\ UNCHANGED <<written, outcome, accepted>>
  BY AccountsAssumption DEF ChangedElsewhere
<1> QED BY <1>1, TouchPreserves DEF UpdateInv, TypeOK, Progress

-----------------------------------------------------------------------------

LEMMA UpdateInit == Init => UpdateInv
<1> SUFFICES ASSUME Init PROVE UpdateInv
  OBVIOUS
<1>1. user \in User /\ ~Nameless(user)
  BY AccountsAssumption DEF Init
<1>2. IdleUpdate \in UpdateState /\ IdleUpdate.pc = "idle" /\ IdleUpdate.untouched = FALSE
  BY DEF IdleUpdate, UpdateState
<1>3. /\ \A c \in Calls : update[c] = IdleUpdate
      /\ \A x \in Calls \X {"get", "put"} : outcome[x] = "idle" /\ accepted[x] = 0
      /\ written = {} /\ TypeOK
  BY <1>1, <1>2 DEF Init, Client!Init, TypeOK, Client!Outcomes
<1>4. \A c \in Calls : Progress(c) /\ Knows(c)
  BY <1>2, <1>3, OwnCalls DEF Progress, Knows
<1> QED BY <1>1, <1>3, <1>4 DEF UpdateInv, NeverNameless

LEMMA UpdateNext == UpdateInv /\ [Next]_vars => UpdateInv'
<1> SUFFICES ASSUME UpdateInv, [Next]_vars PROVE UpdateInv'
  OBVIOUS
<1>1. CASE ChangedElsewhere
  BY <1>1, ElsewherePreserves
<1>2. ASSUME NEW c \in Calls, UpdateStep(c) PROVE UpdateInv'
  BY <1>2, BeginPreserves, BeginBlankPreserves, ReadReturnsPreserves, ReadFailsPreserves,
     RejectPreserves, StartWritePreserves, WriteReturnsPreserves, UserReadPreserves,
     WriteAcceptedPreserves, UserWrittenPreserves DEF UpdateStep
<1>3. CASE UNCHANGED vars
  BY <1>3 DEF vars, UpdateInv, TypeOK, NeverNameless, Progress, Knows
<1> QED BY <1>1, <1>2, <1>3 DEF Next

\* The invariant holds in every reachable state of the update tool.
THEOREM UpdateInvHolds == Spec => []UpdateInv
<1>1. Init => UpdateInv
  BY UpdateInit
<1>2. UpdateInv /\ [Next]_vars => UpdateInv'
  BY UpdateNext
<1> QED BY <1>1, <1>2, PTL DEF Spec

-----------------------------------------------------------------------------

\* The user stays a user, and the calls keep their types.
THEOREM UpdateTypeCorrect == Spec => []TypeOK
<1>1. UpdateInv => TypeOK
  BY DEF UpdateInv
<1> QED BY <1>1, UpdateInvHolds, PTL

\* No order of overlapping updates leaves an EXTERNAL user without a name.
THEOREM NeverNamelessHolds == Spec => []NeverNameless
<1>1. UpdateInv => NeverNameless
  BY DEF UpdateInv
<1> QED BY <1>1, UpdateInvHolds, PTL

\* A call that writes makes the user its body.
LEMMA WriterWrites ==
  ASSUME UpdateInv, Next, NEW c \in Calls, Writes(c)
  PROVE  outcome[WriteOf(c)] # "idle" /\ user' = update[c].body
<1>1. \A d \in Calls : UpdateStep(d) /\ ~UserWritten(d) => UNCHANGED written
  BY DEF UpdateStep, Begin, BeginBlank, ReadReturns, ReadFails, Reject, StartWrite,
     WriteReturns, UserRead, WriteAccepted
<1>2. ~ChangedElsewhere
  BY DEF ChangedElsewhere, Writes
<1>3. PICK d \in Calls : UserWritten(d)
  BY <1>1, <1>2 DEF Next, Writes
<1>4. accepted[WriteOf(d)] = 1 /\ written' = written \cup {d} /\ user' = update[d].body
  BY <1>3 DEF UserWritten
<1>5. d = c
  BY <1>4 DEF Writes
<1>6. outcome[WriteOf(d)] # "idle"
  BY <1>4 DEF UpdateInv, Progress
<1> QED BY <1>4, <1>5, <1>6

\* A write that nobody disturbed changes what was asked for and nothing else
\* but a blank external name.
THEOREM UpdateExactHolds == Spec => UpdateExact
<1> DEFINE Exact(c) ==
      \A f \in Fields :
        IF f \in DOMAIN update[c].updates THEN user'[f] = update[c].updates[f]
        ELSE \/ user'[f] = user[f]
             \/ /\ f = "externalUserName" /\ user[f] = ""
                /\ user'[f] = user'["userName"]
<1> DEFINE Step == \A c \in Calls : Writes(c) /\ update[c].untouched => Exact(c)
<1>1. UpdateInv /\ [Next]_vars => [Step]_vars
  <2> SUFFICES ASSUME UpdateInv, Next, NEW c \in Calls, Writes(c), update[c].untouched
               PROVE  Exact(c)
    OBVIOUS
  <2>4. outcome[WriteOf(c)] # "idle" /\ user' = update[c].body
    BY WriterWrites
  <2>6. /\ user \in User /\ update[c].updates \in Updates
        /\ user' = Body(user, update[c].updates)
    BY <2>4 DEF UpdateInv, TypeOK, Knows
  <2>7. PICK u, upd : u = user /\ upd = update[c].updates
    OBVIOUS
  <2>8. user' = Body(u, upd) /\ u \in User /\ upd \in Updates
    BY <2>6, <2>7
  <2>9. ASSUME NEW f \in Fields
        PROVE  IF f \in DOMAIN upd THEN Body(u, upd)[f] = upd[f]
               ELSE \/ Body(u, upd)[f] = u[f]
                    \/ /\ f = "externalUserName" /\ u[f] = ""
                       /\ Body(u, upd)[f] = Body(u, upd)["userName"]
    BY <2>8, BodyIsExact
  <2> QED BY <2>7, <2>8, <2>9, Zenon
<1>2. Spec => [][Step]_vars
  BY <1>1, UpdateInvHolds, PTL DEF Spec
<1> QED BY <1>2 DEF UpdateExact

\* A request that is repeated after its write, by a call that read what the
\* write left, writes the same user: users_update may be retried.
THEOREM RetryChangesNothingHolds == Spec => RetryChangesNothing
<1> DEFINE Step ==
      \A c, d \in Calls :
        /\ Writes(c) /\ update[c].untouched
        /\ d \in written
        /\ update[c].updates = update[d].updates
        /\ user = update[d].body
        => user' = user
<1>1. UpdateInv /\ [Next]_vars => [Step]_vars
  <2> SUFFICES ASSUME UpdateInv, Next, NEW c \in Calls, NEW d \in Calls,
                      Writes(c), update[c].untouched, d \in written,
                      update[c].updates = update[d].updates, user = update[d].body
               PROVE  user' = user
    OBVIOUS
  <2>1. /\ update[c].updates \in Updates
        /\ user' = Body(user, update[c].updates)
    BY WriterWrites DEF UpdateInv, Knows
  <2>2. Made(user, update[c].updates)
    BY DEF UpdateInv, Progress, Knows
  <2>3. PICK u \in User : user = Body(u, update[c].updates)
    BY <2>2 DEF Made
  <2> QED BY <2>1, <2>3, BodyAgain
<1>2. Spec => [][Step]_vars
  BY <1>1, UpdateInvHolds, PTL DEF Spec
<1> QED BY <1>2 DEF RetryChangesNothing

-----------------------------------------------------------------------------
(* The tool as one call that is taken on at most once.                     *)

\* A step of one call that writes nothing changes at most what its caller
\* knows, and only as the promise allows.
LEMMA CallStepKeepsPromise ==
  ASSUME UpdateInv, NEW c \in Calls, NEW l, update' = [update EXCEPT ![c] = l],
         \A d \in Calls : accepted'[WriteOf(d)] = accepted[WriteOf(d)],
         NEW o, o = ToldBy(l),
         \/ o = Told[c]
         \/ Told[c] = "idle" /\ o \in {"running", "refused"}
         \/ /\ Told[c] = "running" /\ o \in {"ok", "refused", "error"}
            /\ o = "ok" => accepted[WriteOf(c)] = 1
            /\ o = "refused" => accepted[WriteOf(c)] = 0
  PROVE  [Tool!Next]_(Tool!vars)
<1>1. Told' = [Told EXCEPT ![c] = o] /\ TakenOn' = TakenOn
  BY DEF UpdateInv, TypeOK, Told, TakenOn
<1>2. TakenOn[c] = accepted[WriteOf(c)]
  BY DEF TakenOn
<1>3. CASE o = Told[c]
  <2>1. Told' = Told
    BY <1>1, <1>3 DEF Told
  <2> QED BY <1>1, <2>1 DEF Tool!vars
<1>4. CASE Told[c] = "idle" /\ o = "running"
  BY <1>1, <1>4 DEF Tool!Next, Tool!Start
<1>5. CASE Told[c] = "idle" /\ o = "refused"
  BY <1>1, <1>5 DEF Tool!Next, Tool!TurnAway
<1>6. CASE /\ Told[c] = "running" /\ o \in {"ok", "refused", "error"}
           /\ o = "ok" => accepted[WriteOf(c)] = 1
           /\ o = "refused" => accepted[WriteOf(c)] = 0
  BY <1>1, <1>2, <1>6 DEF Tool!Next, Tool!Return
<1> QED BY <1>3, <1>4, <1>5, <1>6

\* A write, or a change by someone else, tells nobody anything.
LEMMA TouchTellsNothing ==
  ASSUME UpdateInv, update' = TouchedAll
  PROVE  Told' = Told
<1>1. ASSUME NEW d \in Calls PROVE ToldBy(update'[d]) = ToldBy(update[d])
  <2>1. PICK l : l = [update[d] EXCEPT !.untouched = FALSE]
    OBVIOUS
  <2>2. update[d] \in UpdateState /\ update'[d] = l
    BY <2>1 DEF UpdateInv, TypeOK, TouchedAll
  <2>3. l.pc = update[d].pc /\ l.result = update[d].result
    BY <2>1, <2>2 DEF UpdateState
  <2> QED BY <2>2, <2>3 DEF ToldBy
<1> QED BY <1>1 DEF Told

LEMMA EndKeepsPromise ==
  ASSUME UpdateInv, NEW c \in Calls, NEW o \in {"ok", "refused", "error"}, Ends(c, o),
         UNCHANGED accepted,
         \/ Told[c] = "idle" /\ o = "refused"
         \/ /\ Told[c] = "running"
            /\ o = "ok" => accepted[WriteOf(c)] = 1
            /\ o = "refused" => accepted[WriteOf(c)] = 0
  PROVE  [Tool!Next]_(Tool!vars)
<1>1. PICK l : l = [update[c] EXCEPT !.pc = "done", !.result = o, !.current = None]
  OBVIOUS
<1>2. update[c] \in UpdateState /\ update' = [update EXCEPT ![c] = l]
  BY <1>1 DEF UpdateInv, TypeOK, Ends
<1>3. ToldBy(l) = o
  BY <1>1, <1>2 DEF UpdateState, ToldBy
<1> QED BY <1>2, <1>3, CallStepKeepsPromise

LEMMA UpdateStepKeepsPromise ==
  ASSUME UpdateInv, NEW c \in Calls, UpdateStep(c)
  PROVE  [Tool!Next]_(Tool!vars)
<1>1. /\ update \in [Calls -> UpdateState] /\ update[c] \in UpdateState
      /\ Progress(c) /\ Told[c] = ToldBy(update[c])
  BY DEF UpdateInv, TypeOK, Told
<1>2. CASE \E s \in Sessions : Begin(c, s)
  <2>1. PICK s \in Sessions : Begin(c, s)
    BY <1>2
  <2>2. PICK upd \in Updates : update' = [update EXCEPT ![c] =
          [IdleUpdate EXCEPT !.pc = "get", !.by = s, !.updates = upd]]
    BY <2>1 DEF Begin
  <2>3. PICK l : l = [IdleUpdate EXCEPT !.pc = "get", !.by = s, !.updates = upd]
    OBVIOUS
  <2>4. update' = [update EXCEPT ![c] = l] /\ ToldBy(l) = "running"
    BY <2>2, <2>3, <1>1 DEF IdleUpdate, ToldBy
  <2>5. Told[c] = "idle" /\ UNCHANGED accepted
    BY <2>1, <1>1 DEF Begin, ToldBy, Client!Start
  <2> QED BY <2>4, <2>5, CallStepKeepsPromise
<1>3. CASE \E s \in Sessions : BeginBlank(c, s)
  <2>1. Ends(c, "refused") /\ UNCHANGED accepted /\ Told[c] = "idle"
    BY <1>1, <1>3 DEF BeginBlank, ToldBy, Client!TurnAway
  <2> QED BY <2>1, EndKeepsPromise
<1>4. CASE ReadReturns(c)
  <2>1. PICK l : l = [update[c] EXCEPT !.pc = "merge"]
    OBVIOUS
  <2>2. update' = [update EXCEPT ![c] = l] /\ UNCHANGED accepted /\ update[c].pc = "get"
    BY <1>4, <2>1 DEF ReadReturns, Client!Return
  <2>3. ToldBy(l) = "running" /\ Told[c] = "running"
    BY <1>1, <2>1, <2>2 DEF ToldBy, UpdateState
  <2> QED BY <2>2, <2>3, CallStepKeepsPromise
<1>5. CASE ReadFails(c)
  <2>1. PICK o \in {"refused", "error"} : Client!Return(ReadOf(c), o) /\ Ends(c, o)
    BY <1>5 DEF ReadFails
  <2>2. update[c].pc = "get" /\ UNCHANGED accepted /\ accepted[WriteOf(c)] = 0
    BY <1>1, <1>5, <2>1 DEF ReadFails, Client!Return, Progress
  <2> QED BY <1>1, <2>1, <2>2, EndKeepsPromise DEF ToldBy
<1>6. CASE Reject(c)
  BY <1>1, <1>6, EndKeepsPromise DEF Reject, ToldBy
<1>7. CASE StartWrite(c)
  <2>1. PICK b : b = Body(update[c].current, update[c].updates)
    OBVIOUS
  <2>2. PICK l : l = [update[c] EXCEPT !.pc = "put", !.body = b]
    OBVIOUS
  <2>3. update' = [update EXCEPT ![c] = l] /\ UNCHANGED accepted /\ update[c].pc = "merge"
    BY <1>7, <2>1, <2>2 DEF StartWrite, Client!Start
  <2>4. ToldBy(l) = "running" /\ Told[c] = "running"
    BY <1>1, <2>2, <2>3 DEF ToldBy, UpdateState
  <2> QED BY <2>3, <2>4, CallStepKeepsPromise
<1>8. CASE WriteReturns(c)
  <2>1. PICK o \in {"ok", "refused", "error"} : Client!Return(WriteOf(c), o) /\ Ends(c, o)
    BY <1>8 DEF WriteReturns
  <2>2. /\ update[c].pc = "put" /\ UNCHANGED accepted
        /\ o = "ok" => accepted[WriteOf(c)] = 1
        /\ o = "refused" => accepted[WriteOf(c)] = 0
    BY <1>8, <2>1 DEF WriteReturns, Client!Return
  <2> QED BY <1>1, <2>1, <2>2, EndKeepsPromise DEF ToldBy
<1>9. CASE UserRead(c)
  <2>1. PICK l : l = [update[c] EXCEPT !.current = user, !.untouched = TRUE]
    OBVIOUS
  <2>2. /\ update' = [update EXCEPT ![c] = l]
        /\ accepted' = [accepted EXCEPT ![ReadOf(c)] = 1]
    BY <1>9, <2>1, <1>1 DEF UserRead, Client!Accept
  <2>3. \A d \in Calls : accepted'[WriteOf(d)] = accepted[WriteOf(d)]
    BY <2>2, OwnCalls DEF UpdateInv, TypeOK
  <2>4. l.pc = update[c].pc /\ l.result = update[c].result
    BY <1>1, <2>1 DEF UpdateState
  <2>5. ToldBy(l) = Told[c]
    BY <1>1, <2>4 DEF ToldBy
  <2> QED BY <2>2, <2>3, <2>5, CallStepKeepsPromise
<1>10. CASE WriteAccepted(c)
  <2>1. /\ outcome[WriteOf(c)] \in {"running", "error"} /\ accepted[WriteOf(c)] = 0
        /\ accepted' = [accepted EXCEPT ![WriteOf(c)] = 1] /\ UNCHANGED update
    BY <1>10 DEF WriteAccepted, Client!Accept
  <2>2. Told' = Told
    BY <2>1 DEF Told
  <2>3. Told[c] \in {"running", "error"}
    BY <1>1, <2>1 DEF Progress, ToldBy, UpdateState
  <2>4. TakenOn' = [TakenOn EXCEPT ![c] = 1] /\ TakenOn[c] = 0
    BY <2>1, OwnCalls DEF TakenOn, UpdateInv, TypeOK
  <2> QED BY <2>2, <2>3, <2>4 DEF Tool!Next, Tool!Accept
<1>11. CASE UserWritten(c)
  <2>1. update' = TouchedAll /\ UNCHANGED accepted
    BY <1>11 DEF UserWritten
  <2>2. Told' = Told /\ TakenOn' = TakenOn
    BY <2>1, TouchTellsNothing DEF TakenOn
  <2> QED BY <2>2 DEF Tool!vars
<1> QED BY <1>2, <1>3, <1>4, <1>5, <1>6, <1>7, <1>8, <1>9, <1>10, <1>11 DEF UpdateStep

\* blackduck_users_update, a read and a write that each may fail, be given up
\* or be taken on late, promises its caller what a single call does: at most one
\* write is taken on, and the answer agrees with that (tools.go:1039-1070).
THEOREM ToolPromiseHolds == Spec => ToolPromise
<1>1. Init => Tool!Init
  <2> SUFFICES ASSUME Init PROVE Tool!Init
    OBVIOUS
  <2>1. \A c \in Calls : ToldBy(update[c]) = "idle" /\ accepted[WriteOf(c)] = 0
    BY OwnCalls DEF Init, IdleUpdate, ToldBy, Client!Init
  <2> QED BY <2>1 DEF Tool!Init, Told, TakenOn
<1>2. UpdateInv /\ [Next]_vars => [Tool!Next]_(Tool!vars)
  <2> SUFFICES ASSUME UpdateInv, [Next]_vars PROVE [Tool!Next]_(Tool!vars)
    OBVIOUS
  <2>1. CASE ChangedElsewhere
    <3>1. update' = TouchedAll /\ UNCHANGED accepted
      BY <2>1 DEF ChangedElsewhere
    <3>2. Told' = Told /\ TakenOn' = TakenOn
      BY <3>1, TouchTellsNothing DEF TakenOn
    <3> QED BY <3>2 DEF Tool!vars
  <2>2. CASE UNCHANGED vars
    BY <2>2 DEF vars, Tool!vars, Told, TakenOn
  <2> QED BY <2>1, <2>2, UpdateStepKeepsPromise DEF Next
<1> QED BY <1>1, <1>2, UpdateInvHolds, PTL DEF Spec, ToolPromise, Tool!Spec
=============================================================================
