--------------------------------- MODULE Auth ---------------------------------
(***************************************************************************)
(* Users and sessions: core/internal/auth and core/internal/user over the  *)
(* tables of db_auth_user.go and db_auth_session.go.                       *)
(*                                                                         *)
(* A session stands for its two random tokens, so a request that carries a *)
(* token names a session.  Rows of sessions that were deleted stay in      *)
(* `session' with the reason, the table has those that are live.  The copy *)
(* of a user's row a request works with matters by its id; 0 is the empty  *)
(* row that Preload("User") leaves when the user is gone.                  *)
(***************************************************************************)
EXTENDS Integers, FiniteSets

CONSTANTS
    Names,         \* usernames
    DefaultAdmin,  \* DefaultAdminUsername
    MaxSessions,   \* the column max_sessions, the same for all users
    Requests,      \* RPCs at a time
    Faults,        \* what may fail: "create", "delete", "rotate"
    MaxUser,       \* bound: users ever created
    MaxSession,    \* bound: sessions ever created
    MaxStops       \* bound: ends of the process

UserIds == 1..MaxUser
SessionIds == 1..MaxSession

ASSUME AuthAssumption ==
    /\ DefaultAdmin \in Names
    /\ MaxSessions \in Nat \ {0}
    /\ MaxUser \in Nat \ {0}
    /\ MaxSession \in Nat
    /\ MaxStops \in Nat

VARIABLES
    run,           \* the process: "down", "up", or "failed" in CreateInitialAdmin
    users,         \* table users
    lastUser,      \* its AUTOINCREMENT counter
    session,       \* every session row, and what became of it
    lastSession,   \* the counter of table sessions
    req,           \* each RPC: where it is, its user's id, its session
    stops          \* how much of the bound is used

userVars == <<users, lastUser>>
sessionVars == <<session, lastSession>>
vars == <<run, userVars, sessionVars, req, stops>>

Roles == {"admin", "mouse"}
User == [id : UserIds, name : Names, role : Roles]

\* age: both tokens valid, the session token expired, both expired.
Session == [user : 0..MaxUser, age : {"fresh", "stale", "dead"},
            fate : {"none", "live", "rotated", "ended"}]

Request == [pc : {"idle", "create", "drop", "act"}, user : 0..MaxUser, old : 0..MaxSession]

TypeOK ==
    /\ run \in {"down", "up", "failed"}
    /\ users \subseteq User
    /\ lastUser \in 0..MaxUser
    /\ session \in [SessionIds -> Session]
    /\ lastSession \in 0..MaxSession
    /\ \A i \in SessionIds : session[i].fate = "none" <=> i > lastSession
    /\ req \in [Requests -> Request]
    /\ \A q \in Requests : /\ req[q].old <= lastSession
                           /\ req[q].pc = "drop" => req[q].old # 0
    /\ stops \in 0..MaxStops

Idle == [pc |-> "idle", user |-> 0, old |-> 0]
Unmade == [user |-> 0, age |-> "fresh", fate |-> "none"]

Init ==
    /\ run = "down"
    /\ users = {}
    /\ lastUser = 0
    /\ session = [i \in SessionIds |-> Unmade]
    /\ lastSession = 0
    /\ req = [q \in Requests |-> Idle]
    /\ stops = 0

-----------------------------------------------------------------------------
\* The process.

Row(id) == {u \in users : u.id = id}
Taken(name, id) == \E u \in users : u.name = name /\ u.id # id

\* NewService: CreateInitialAdmin registers the default admin unless user 1 is
\* there; an error, as from the unique index on names, is fatal.
Boot ==
    /\ run # "up"
    /\ IF Row(1) # {} THEN run' = "up" /\ UNCHANGED userVars
       ELSE IF Taken(DefaultAdmin, 0) THEN run' = "failed" /\ UNCHANGED userVars
       ELSE /\ lastUser < MaxUser
            /\ run' = "up"
            /\ lastUser' = lastUser + 1
            /\ users' = users \cup
                  {[id |-> lastUser + 1, name |-> DefaultAdmin, role |-> "admin"]}
    /\ UNCHANGED <<sessionVars, req, stops>>

Stop ==
    /\ run = "up"
    /\ stops < MaxStops
    /\ stops' = stops + 1
    /\ run' = "down"
    /\ req' = [q \in Requests |-> Idle]
    /\ UNCHANGED <<userVars, sessionVars>>

-----------------------------------------------------------------------------
\* Sessions.

Goes(q, pc, user, old) ==
    req' = [req EXCEPT ![q] = [pc |-> pc, user |-> user, old |-> old]]

Live(i) == session[i].fate = "live"

\* Service.Login: the row of the user, whose password was right.
Login(q, u) ==
    /\ run = "up" /\ req[q].pc = "idle"
    /\ Goes(q, "create", u.id, 0)
    /\ UNCHANGED <<run, userVars, sessionVars, stops>>

\* SessionRefresh: the session of the token with its user, not yet expired.
Refresh(q, i) ==
    /\ run = "up" /\ req[q].pc = "idle"
    /\ Live(i) /\ session[i].age # "dead"
    /\ Goes(q, "create", IF Row(session[i].user) = {} THEN 0 ELSE session[i].user, i)
    /\ UNCHANGED <<run, userVars, sessionVars, stops>>

Logout(q, i) ==
    /\ run = "up" /\ req[q].pc = "idle"
    /\ Live(i)
    /\ Goes(q, "drop", 0, i)
    /\ UNCHANGED <<run, userVars, sessionVars, stops>>

TableOf(user) == {i \in SessionIds : session[i].user = user /\ Live(i)}

\* The code orders by created_at, which each insert takes from the clock: the
\* order of the ids, as long as the clock is not set back.
Oldest(user) == {i \in TableOf(user) : \A j \in TableOf(user) : i <= j}
Newest(user) == {i \in TableOf(user) : \A j \in TableOf(user) : i >= j}

\* Wrong on purpose: a full table is not yet at its limit.
RotatesLate(user) == IF Cardinality(TableOf(user)) > MaxSessions THEN Oldest(user) ELSE {}

\* Wrong on purpose: the rows in descending order.
RotatesNewest(user) == IF Cardinality(TableOf(user)) >= MaxSessions THEN Newest(user) ELSE {}

\* The limit of the empty row is 0, which is none.
Rotates(user) ==
    IF user # 0 /\ Cardinality(TableOf(user)) >= MaxSessions THEN Oldest(user) ELSE {}

\* What the rotation deletes; the error of that deletion is dropped.
Removed(user) == {Rotates(user)} \cup {out \in {{}} : "rotate" \in Faults}

NewSession == lastSession + 1

\* Wrong on purpose: a login ends like a refresh.
AfterDrops(q) == Goes(q, "drop", 0, req[q].old)

\* A refresh goes on to delete the session it replaces, a login is done.
After(q) ==
    IF req[q].old = 0 THEN Goes(q, "idle", 0, 0) ELSE Goes(q, "drop", 0, req[q].old)

\* sessionCreate: NewSessionAutoRotating is one transaction.
Create(q) ==
    /\ req[q].pc = "create"
    /\ lastSession < MaxSession
    /\ lastSession' = NewSession
    /\ \E out \in Removed(req[q].user) :
          session' = [i \in SessionIds |->
              IF i = NewSession THEN [user |-> req[q].user, age |-> "fresh", fate |-> "live"]
              ELSE IF i \in out THEN [session[i] EXCEPT !.fate = "rotated"]
              ELSE session[i]]
    /\ After(q)
    /\ UNCHANGED <<run, userVars, stops>>

\* SessionDelete of the session refreshed or logged out; it may be gone by now.
Drop(q) ==
    /\ req[q].pc = "drop"
    /\ session' = [i \in SessionIds |->
           IF i = req[q].old /\ Live(i) THEN [session[i] EXCEPT !.fate = "ended"]
           ELSE session[i]]
    /\ Goes(q, "idle", 0, 0)
    /\ UNCHANGED <<run, userVars, lastSession, stops>>

\* The database refuses: what was done before stays done.
Fails(q) ==
    /\ \/ req[q].pc = "create" /\ "create" \in Faults
       \/ req[q].pc = "drop" /\ "delete" \in Faults
    /\ Goes(q, "idle", 0, 0)
    /\ UNCHANGED <<run, userVars, sessionVars, stops>>

Expire(i) ==
    /\ Live(i) /\ session[i].age # "dead"
    /\ session' = [session EXCEPT ![i].age = IF @ = "fresh" THEN "stale" ELSE "dead"]
    /\ UNCHANGED <<run, userVars, lastSession, req, stops>>

-----------------------------------------------------------------------------
\* Users.

\* NewAuthInterceptor and NewAdminInterceptor: the session token is valid and
\* its user an admin, as of this moment.
AdminCheck(q, i) ==
    /\ run = "up" /\ req[q].pc = "idle"
    /\ Live(i) /\ session[i].age = "fresh"
    /\ \E u \in Row(session[i].user) : u.role = "admin"
    /\ Goes(q, "act", session[i].user, 0)
    /\ UNCHANGED <<run, userVars, sessionVars, stops>>

\* Register; a name that is taken is refused.
UserAdd(q, name, role) ==
    /\ req[q].pc = "act"
    /\ IF Taken(name, 0) THEN UNCHANGED userVars
       ELSE /\ lastUser < MaxUser
            /\ lastUser' = lastUser + 1
            /\ users' = users \cup {[id |-> lastUser + 1, name |-> name, role |-> role]}
    /\ Goes(q, "idle", 0, 0)
    /\ UNCHANGED <<run, sessionVars, stops>>

\* EditUser, which also admins may do to themselves.
UserEdit(q, id, name, role) ==
    /\ req[q].pc = "act"
    /\ users' = IF Row(id) = {} \/ Taken(name, id) THEN users
                ELSE (users \ Row(id)) \cup {[id |-> id, name |-> name, role |-> role]}
    /\ Goes(q, "idle", 0, 0)
    /\ UNCHANGED <<run, lastUser, sessionVars, stops>>

\* DeleteUser; SQLite enforces no foreign keys unless told to, so the user's
\* sessions stay.
UserDelete(q, id) ==
    /\ req[q].pc = "act"
    /\ req[q].user # id
    /\ users' = users \ Row(id)
    /\ Goes(q, "idle", 0, 0)
    /\ UNCHANGED <<run, lastUser, sessionVars, stops>>

SessionRequest(q) ==
    \/ \E u \in users : Login(q, u)
    \/ \E i \in SessionIds : Refresh(q, i) \/ Logout(q, i)
    \/ Create(q) \/ Drop(q) \/ Fails(q)

UserRequest(q) ==
    \/ \E i \in SessionIds : AdminCheck(q, i)
    \/ \E name \in Names, role \in Roles :
          UserAdd(q, name, role) \/ \E id \in UserIds : UserEdit(q, id, name, role)
    \/ \E id \in UserIds : UserDelete(q, id)

Next ==
    \/ Boot \/ Stop
    \/ \E q \in Requests : SessionRequest(q) \/ UserRequest(q)
    \/ \E i \in SessionIds : Expire(i)

Spec == Init /\ [][Next]_vars

-----------------------------------------------------------------------------
\* Properties.

\* However logins, refreshes and logouts of several devices interleave, a user
\* has at most as many sessions as the limit allows.
SessionLimit ==
    \A u \in users : Cardinality(TableOf(u.id)) <= MaxSessions

\* The sessions of i's user made after i.
Newer(i) ==
    {j \in SessionIds : j > i /\ session[j].user = session[i].user
                             /\ session[j].fate # "none"}

\* The rotation takes a session only after as many newer ones of its user were
\* made as the limit allows: no device loses a session for one refresh less.
KeepsRecent ==
    \A i \in SessionIds :
        session[i].fate = "rotated" => Cardinality(Newer(i)) >= MaxSessions
=============================================================================
