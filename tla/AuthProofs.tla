------------------------------ MODULE AuthProofs ------------------------------
(***************************************************************************)
(* Theorems about Auth: its types, that the limit of sessions holds, and   *)
(* that the rotation takes only sessions that enough newer ones follow.    *)
(***************************************************************************)
EXTENDS Auth, FiniteSetTheorems, WellFoundedInduction, TLAPS

LEMMA IdleIsRequest == Idle \in Request
BY AuthAssumption DEF Idle, Request

LEMMA GoesType ==
    ASSUME TypeOK, NEW q \in Requests, NEW pc \in {"idle", "create", "drop", "act"},
           NEW user \in 0..MaxUser, NEW old \in 0..MaxSession, Goes(q, pc, user, old)
    PROVE  /\ req' \in [Requests -> Request]
           /\ req'[q].pc = pc /\ req'[q].user = user /\ req'[q].old = old
           /\ \A p \in Requests \ {q} : req'[p] = req[p]
BY DEF TypeOK, Goes, Request

\* TypeOK is kept by a request that goes on with a session made already.
LEMMA GoesKeeps ==
    ASSUME TypeOK, NEW q \in Requests, NEW pc \in {"idle", "create", "drop", "act"},
           NEW user \in 0..MaxUser, NEW old \in 0..MaxSession, Goes(q, pc, user, old),
           old <= lastSession', pc = "drop" => old # 0,
           lastSession' \in 0..MaxSession, lastSession <= lastSession'
    PROVE  /\ req' \in [Requests -> Request]
           /\ \A p \in Requests : /\ req'[p].old <= lastSession'
                                  /\ req'[p].pc = "drop" => req'[p].old # 0
<1>1. \A p \in Requests : req[p].old \in 0..MaxSession /\ lastSession \in 0..MaxSession
  BY DEF TypeOK, Request
<1> QED
  BY <1>1, GoesType, AuthAssumption DEF TypeOK

LEMMA TypeInit == Init => TypeOK
BY AuthAssumption, IdleIsRequest
DEF Init, TypeOK, Unmade, Session, SessionIds, Idle

LEMMA RotatesLive ==
    ASSUME NEW user, NEW i \in Rotates(user)
    PROVE  i \in SessionIds /\ session[i].user = user /\ session[i].fate = "live"
BY DEF Rotates, Oldest, TableOf, Live

LEMMA RemovedLive ==
    ASSUME NEW user, NEW out \in Removed(user)
    PROVE  /\ out \subseteq Rotates(user)
           /\ "rotate" \notin Faults => out = Rotates(user)
           /\ \A i \in out : session[i].fate = "live"
BY RotatesLive DEF Removed

LEMMA CreateType ==
    ASSUME TypeOK, NEW q \in Requests, Create(q)
    PROVE  TypeOK'
<1> USE AuthAssumption
<1> DEFINE user == req[q].user
           made == [user |-> user, age |-> "fresh", fate |-> "live"]
<1>1. lastSession' = lastSession + 1 /\ lastSession' \in 1..MaxSession
  BY DEF Create, NewSession, TypeOK
<1>2. user \in 0..MaxUser /\ req[q].old \in 0..MaxSession /\ req[q].old <= lastSession
      /\ req[q] \in Request
  BY DEF TypeOK, Request
<1>3. PICK out \in Removed(user) : \A i \in SessionIds : session'[i] =
        IF i = lastSession + 1 THEN made
        ELSE IF i \in out THEN [session[i] EXCEPT !.fate = "rotated"]
        ELSE session[i]
  BY DEF Create, NewSession
<1>4. session' = [i \in SessionIds |-> session'[i]]
  BY DEF Create
<1>5. made \in Session /\ made.fate = "live"
  BY <1>2 DEF Session
<1>6. ASSUME NEW i \in SessionIds
      PROVE  /\ session'[i] \in Session
             /\ session'[i].fate = "none" <=> i > lastSession + 1
  <2>0. i \in Nat /\ lastSession \in Nat
    BY DEF SessionIds, TypeOK
  <2>1. session[i] \in Session /\ (session[i].fate = "none" <=> i > lastSession)
    BY DEF TypeOK
  <2>2. CASE i = lastSession + 1
    <3>1. session'[i] = made
      BY <1>3, <2>2
    <3>2. ~(i > lastSession + 1)
      BY <2>0, <2>2
    <3> HIDE DEF made
    <3>3. session'[i] \in Session /\ session'[i].fate # "none"
      BY <1>5, <3>1
    <3> QED
      BY <3>2, <3>3
  <2>3. CASE i # lastSession + 1 /\ i \in out
    <3>1. session'[i] = [session[i] EXCEPT !.fate = "rotated"]
      BY <1>3, <2>3
    <3>2. session[i].fate = "live"
      BY <2>3, RemovedLive
    <3>3. session'[i] \in Session /\ session'[i].fate # "none"
      BY <2>1, <3>1 DEF Session
    <3>4. ~(i > lastSession + 1)
      BY <2>0, <2>1, <3>2
    <3> QED
      BY <3>3, <3>4
  <2>4. CASE i # lastSession + 1 /\ i \notin out
    <3>1. session'[i] = session[i]
      BY <1>3, <2>4
    <3>2. i > lastSession <=> i > lastSession + 1
      BY <2>0, <2>4
    <3> QED
      BY <2>1, <3>1, <3>2
  <2> QED
    BY <2>2, <2>3, <2>4
<1>7. session' \in [SessionIds -> Session]
  BY <1>4, <1>6
<1>8. /\ req' \in [Requests -> Request]
      /\ \A p \in Requests : /\ req'[p].old <= lastSession'
                             /\ req'[p].pc = "drop" => req'[p].old # 0
  <2>1. PICK pc \in {"idle", "drop"}, old \in 0..MaxSession :
          Goes(q, pc, 0, old) /\ old <= lastSession /\ (pc = "drop" => old # 0)
    BY <1>2 DEF Create, After, TypeOK
  <2> QED
    BY <1>1, <2>1, GoesKeeps DEF TypeOK
<1>9. UNCHANGED <<run, users, lastUser, stops>>
  BY DEF Create, userVars
<1> QED
  BY <1>1, <1>6, <1>7, <1>8, <1>9 DEF TypeOK

LEMMA TypeStep ==
    ASSUME TypeOK, [Next]_vars PROVE TypeOK'
<1> USE AuthAssumption
<1>0. CASE UNCHANGED vars
  BY <1>0 DEF TypeOK, vars, userVars, sessionVars
<1>1. CASE Boot
  BY <1>1 DEF Boot, TypeOK, User, UserIds, Roles, userVars, sessionVars
<1>2. CASE Stop
  <2>1. stops' \in 0..MaxStops
    BY <1>2 DEF Stop, TypeOK
  <2>2. /\ req' \in [Requests -> Request]
        /\ \A q \in Requests : req'[q].pc = "idle" /\ req'[q].old = 0
    BY <1>2, IdleIsRequest DEF Stop, Idle
  <2> QED
    BY <1>2, <2>1, <2>2 DEF Stop, TypeOK, userVars, sessionVars
<1>3. ASSUME NEW q \in Requests, NEW pc \in {"idle", "create", "drop", "act"},
             NEW user \in 0..MaxUser, NEW old \in 0..MaxSession, Goes(q, pc, user, old),
             old <= lastSession, pc = "drop" => old # 0,
             UNCHANGED <<run, sessionVars, stops>>,
             users' \subseteq User, lastUser' \in 0..MaxUser
      PROVE  TypeOK'
  <2>1. lastSession' = lastSession /\ lastSession \in 0..MaxSession
    BY <1>3 DEF TypeOK, sessionVars
  <2>2. /\ req' \in [Requests -> Request]
        /\ \A p \in Requests : /\ req'[p].old <= lastSession'
                               /\ req'[p].pc = "drop" => req'[p].old # 0
    BY <1>3, <2>1, GoesKeeps
  <2> QED
    BY <1>3, <2>2 DEF TypeOK, sessionVars
<1>4. ASSUME NEW q \in Requests, NEW u \in users, Login(q, u) PROVE TypeOK'
  BY <1>3, <1>4 DEF Login, TypeOK, User, UserIds, userVars
<1>5. ASSUME NEW q \in Requests, NEW i \in SessionIds, Refresh(q, i) \/ Logout(q, i)
      PROVE  TypeOK'
  <2>1. session[i] \in Session /\ i <= lastSession /\ i \in 1..MaxSession
    BY <1>5 DEF Refresh, Logout, Live, TypeOK, SessionIds
  <2>2. PICK pc \in {"create", "drop"}, user \in 0..MaxUser : Goes(q, pc, user, i)
    BY <1>5, <2>1 DEF Refresh, Logout, Session
  <2> QED
    BY <1>3, <1>5, <2>1, <2>2 DEF Refresh, Logout, TypeOK, userVars
<1>6. ASSUME NEW q \in Requests, Create(q) PROVE TypeOK'
  BY <1>6, CreateType
<1>7. ASSUME NEW q \in Requests, Drop(q) PROVE TypeOK'
  <2>1. \A i \in SessionIds :
          session'[i] \in Session /\ (session'[i].fate = "none" <=> session[i].fate = "none")
    BY <1>7 DEF Drop, TypeOK, Session, Live
  <2>2. session' \in [SessionIds -> Session]
    BY <1>7, <2>1 DEF Drop
  <2>3. /\ req' \in [Requests -> Request]
        /\ \A p \in Requests : /\ req'[p].old <= lastSession'
                               /\ req'[p].pc = "drop" => req'[p].old # 0
    BY <1>7, GoesKeeps DEF Drop, TypeOK
  <2> QED
    BY <1>7, <2>1, <2>2, <2>3 DEF Drop, TypeOK, userVars
<1>8. ASSUME NEW q \in Requests, Fails(q) PROVE TypeOK'
  BY <1>3, <1>8 DEF Fails, TypeOK, userVars
<1>9. ASSUME NEW i \in SessionIds, Expire(i) PROVE TypeOK'
  <2>1. \A j \in SessionIds :
          session'[j] \in Session /\ session'[j].fate = session[j].fate
    BY <1>9 DEF Expire, TypeOK, Session
  <2>2. session' \in [SessionIds -> Session]
    BY <1>9, <2>1 DEF Expire, TypeOK
  <2> QED
    BY <1>9, <2>1, <2>2 DEF Expire, TypeOK, userVars
<1>10. ASSUME NEW q \in Requests, NEW i \in SessionIds, AdminCheck(q, i) PROVE TypeOK'
  BY <1>3, <1>10 DEF AdminCheck, TypeOK, Session, userVars
<1>11. ASSUME NEW q \in Requests, NEW name \in Names, NEW role \in Roles, UserAdd(q, name, role)
       PROVE  TypeOK'
  <2>1. users' \subseteq User /\ lastUser' \in 0..MaxUser
    BY <1>11 DEF UserAdd, TypeOK, User, UserIds, userVars
  <2> QED
    BY <1>3, <1>11, <2>1 DEF UserAdd, TypeOK
<1>12. ASSUME NEW q \in Requests, NEW id \in UserIds, NEW name \in Names, NEW role \in Roles,
              UserEdit(q, id, name, role)
       PROVE  TypeOK'
  <2>1. users' \subseteq User /\ lastUser' \in 0..MaxUser
    BY <1>12 DEF UserEdit, TypeOK, User
  <2> QED
    BY <1>3, <1>12, <2>1 DEF UserEdit, TypeOK
<1>13. ASSUME NEW q \in Requests, NEW id \in UserIds, UserDelete(q, id) PROVE TypeOK'
  <2>1. users' \subseteq User /\ lastUser' \in 0..MaxUser
    BY <1>13 DEF UserDelete, TypeOK
  <2> QED
    BY <1>3, <1>13, <2>1 DEF UserDelete, TypeOK
<1> QED
  BY <1>0, <1>1, <1>2, <1>4, <1>5, <1>6, <1>7, <1>8, <1>9, <1>10, <1>11, <1>12, <1>13
  DEF Next, SessionRequest, UserRequest

\* Tables, requests and counters keep their types, and a request that deletes a
\* session names one that was made.
THEOREM AuthTypeCorrect == Spec => []TypeOK
BY TypeInit, TypeStep, PTL DEF Spec

-----------------------------------------------------------------------------
\* The limit of sessions.

LEMMA SessionSets ==
    ASSUME NEW S \in SUBSET SessionIds
    PROVE  /\ IsFiniteSet(S) /\ Cardinality(S) \in Nat
           /\ \A T \in SUBSET S : Cardinality(T) <= Cardinality(S)
<1>1. IsFiniteSet(SessionIds)
  BY AuthAssumption, FS_Interval, 1 \in Int, MaxSession \in Int DEF SessionIds
<1>2. IsFiniteSet(S)
  BY <1>1, FS_Subset
<1> QED
  BY <1>2, FS_CardinalityType, FS_Subset

LEMMA HasLeast ==
    ASSUME NEW T \in SUBSET Nat, T # {}
    PROVE  \E i \in T : \A j \in T : i <= j
<1>1. \E i \in T : \A j \in T : ~ (<<j, i>> \in OpToRel(<, Nat))
  BY WFMin, NatLessThanWellFounded
<1>2. PICK i \in T : \A j \in T : ~ (<<j, i>> \in OpToRel(<, Nat))
  BY <1>1
<1>3. \A j \in T : ~ (j < i)
  BY <1>2 DEF OpToRel
<1> QED
  BY <1>3

\* What every step but Create leaves of the session rows.
KeepsRows ==
    \A i \in SessionIds :
        /\ session'[i].user = session[i].user
        /\ session'[i].fate = "none" <=> session[i].fate = "none"
        /\ session'[i].fate = "live" => session[i].fate = "live"
        /\ session'[i].fate = "rotated" => session[i].fate = "rotated"

LEMMA OthersKeepRows ==
    ASSUME TypeOK, [Next]_vars
    PROVE  KeepsRows \/ \E q \in Requests : Create(q)
<1>1. CASE UNCHANGED session
  BY <1>1 DEF KeepsRows
<1>2. ASSUME NEW q \in Requests, Drop(q) PROVE KeepsRows
  BY <1>2 DEF Drop, KeepsRows, Live, TypeOK, Session
<1>3. ASSUME NEW i \in SessionIds, Expire(i) PROVE KeepsRows
  BY <1>3 DEF Expire, KeepsRows, TypeOK, Session
<1>4. ASSUME NEW q \in Requests, SessionRequest(q), ~Create(q), ~Drop(q)
      PROVE  UNCHANGED session
  BY <1>4 DEF SessionRequest, Login, Refresh, Logout, Fails, sessionVars
<1>5. ASSUME NEW q \in Requests, UserRequest(q) PROVE UNCHANGED session
  BY <1>5 DEF UserRequest, AdminCheck, UserAdd, UserEdit, UserDelete, sessionVars
<1>6. ASSUME Boot \/ Stop \/ UNCHANGED vars PROVE UNCHANGED session
  BY <1>6 DEF Boot, Stop, vars, sessionVars
<1> QED
  BY <1>1, <1>2, <1>3, <1>4, <1>5, <1>6 DEF Next

\* The row Create makes, and the rows it leaves.
LEMMA CreateRows ==
    ASSUME TypeOK, NEW q \in Requests, Create(q)
    PROVE  /\ NewSession \in SessionIds /\ session[NewSession].fate = "none"
           /\ session'[NewSession].user = req[q].user
           /\ session'[NewSession].fate = "live"
           /\ \A i \in SessionIds \ {NewSession} :
                 /\ session'[i].user = session[i].user
                 /\ \/ session'[i].fate = session[i].fate
                    \/ i \in Rotates(req[q].user) /\ session'[i].fate = "rotated"
                 /\ ("rotate" \notin Faults /\ i \in Rotates(req[q].user))
                       => session'[i].fate = "rotated"
<1>1. NewSession \in SessionIds /\ session[NewSession].fate = "none"
  BY AuthAssumption DEF Create, NewSession, TypeOK, SessionIds
<1> DEFINE user == req[q].user
<1>2. session'[NewSession] = [user |-> user, age |-> "fresh", fate |-> "live"]
  BY <1>1 DEF Create
<1>3. PICK out \in Removed(user) : \A i \in SessionIds \ {NewSession} : session'[i] =
        IF i \in out THEN [session[i] EXCEPT !.fate = "rotated"] ELSE session[i]
  BY DEF Create
<1>4. ASSUME NEW i \in SessionIds \ {NewSession}
      PROVE  /\ session'[i].user = session[i].user
             /\ \/ session'[i].fate = session[i].fate
                \/ i \in Rotates(user) /\ session'[i].fate = "rotated"
             /\ ("rotate" \notin Faults /\ i \in Rotates(user))
                   => session'[i].fate = "rotated"
  <2>1. session[i] \in Session
    BY DEF TypeOK
  <2>2. CASE i \in out
    <3>1. session'[i].user = session[i].user /\ session'[i].fate = "rotated"
      BY <1>3, <2>1, <2>2 DEF Session
    <3> QED
      BY <2>2, <3>1, RemovedLive
  <2>3. CASE i \notin out
    BY <1>3, <2>3, RemovedLive
  <2> QED
    BY <2>2, <2>3
<1> QED
  BY <1>1, <1>2, <1>4

LimitInv == \A id \in UserIds : Cardinality(TableOf(id)) <= MaxSessions

LEMMA TableSets ==
    ASSUME NEW id
    PROVE  /\ IsFiniteSet(TableOf(id)) /\ Cardinality(TableOf(id)) \in Nat
           /\ \A T \in SUBSET TableOf(id) : Cardinality(T) <= Cardinality(TableOf(id))
BY SessionSets, TableOf(id) \in SUBSET SessionIds DEF TableOf

\* A full table has an oldest row, so the rotation takes exactly one.
LEMMA OldestIs ==
    ASSUME NEW id, Cardinality(TableOf(id)) >= MaxSessions
    PROVE  \E i \in TableOf(id) : Oldest(id) = {i} /\ \A j \in TableOf(id) : i <= j
<1>1. TableOf(id) # {} /\ TableOf(id) \in SUBSET Nat
  BY AuthAssumption, TableSets, FS_EmptySet DEF TableOf, SessionIds
<1>2. PICK i \in TableOf(id) : \A j \in TableOf(id) : i <= j
  BY <1>1, HasLeast
<1>3. \A j \in Oldest(id) : j = i
  BY <1>1, <1>2 DEF Oldest
<1>4. i \in Oldest(id)
  BY <1>2 DEF Oldest
<1> QED
  BY <1>2, <1>3, <1>4

LEMMA LimitCreate ==
    ASSUME TypeOK, LimitInv, "rotate" \notin Faults, NEW q \in Requests, Create(q)
    PROVE  LimitInv'
<1> SUFFICES ASSUME NEW id \in UserIds PROVE Cardinality(TableOf(id)') <= MaxSessions
  BY DEF LimitInv
<1> DEFINE table == TableOf(id)
           new == NewSession
<1>1. /\ IsFiniteSet(table) /\ Cardinality(table) \in Nat
      /\ Cardinality(table) <= MaxSessions /\ MaxSessions \in Nat \ {0}
  BY AuthAssumption, TableSets DEF LimitInv
<1>2. TableOf(id)' \subseteq table \cup {new} /\ new \notin table
  BY CreateRows DEF TableOf, Live
<1>3. TableOf(id)' \in SUBSET SessionIds
  BY DEF TableOf
<1>4. Cardinality(TableOf(id)') \in Nat
  BY <1>3, SessionSets
<1>5. CASE req[q].user # id
  <2>1. TableOf(id)' \subseteq table
    BY <1>2, <1>5, CreateRows DEF TableOf, Live
  <2>2. Cardinality(TableOf(id)') <= Cardinality(table)
    BY <1>1, <2>1, FS_Subset
  <2> QED
    BY <1>1, <1>4, <2>2
<1>6. CASE Cardinality(table) < MaxSessions
  <2>1. IsFiniteSet(table \cup {new}) /\ Cardinality(table \cup {new}) = Cardinality(table) + 1
    BY <1>1, <1>2, FS_AddElement
  <2>2. Cardinality(TableOf(id)') <= Cardinality(table \cup {new})
    BY <1>2, <2>1, FS_Subset
  <2> QED
    BY <1>1, <1>4, <1>6, <2>1, <2>2
<1>7. CASE req[q].user = id /\ Cardinality(table) = MaxSessions
  <2>1. PICK i \in table : Oldest(id) = {i}
    BY <1>1, <1>7, OldestIs
  <2>2. Rotates(id) = {i}
    BY <1>1, <1>7, <2>1 DEF Rotates, UserIds
  <2>3. i \in SessionIds /\ i # new
    BY <1>2, <2>1 DEF TableOf
  <2>4. session'[i].fate = "rotated"
    BY <1>7, <2>2, <2>3, CreateRows
  <2>5. TableOf(id)' \subseteq (table \ {i}) \cup {new}
    BY <1>2, <2>4 DEF TableOf, Live
  <2>6. IsFiniteSet(table \ {i}) /\ Cardinality(table \ {i}) = Cardinality(table) - 1
    BY <1>1, <2>1, FS_RemoveElement
  <2>7. new \notin table \ {i}
    BY <1>2
  <2>8. IsFiniteSet((table \ {i}) \cup {new})
        /\ Cardinality((table \ {i}) \cup {new}) = Cardinality(table \ {i}) + 1
    BY <2>6, <2>7, FS_AddElement
  <2>9. Cardinality(TableOf(id)') <= Cardinality((table \ {i}) \cup {new})
    BY <2>5, <2>8, FS_Subset
  <2> QED
    BY <1>1, <1>4, <2>6, <2>8, <2>9
<1> QED
  BY <1>1, <1>5, <1>6, <1>7

LEMMA LimitStep ==
    ASSUME TypeOK, LimitInv, "rotate" \notin Faults, [Next]_vars PROVE LimitInv'
<1>1. CASE KeepsRows
  <2>1. \A id : TableOf(id)' \in SUBSET TableOf(id)
    BY <1>1 DEF KeepsRows, TableOf, Live
  <2>2. ASSUME NEW id \in UserIds PROVE Cardinality(TableOf(id)') <= MaxSessions
    <3>1. TableOf(id)' \in SUBSET TableOf(id)
      BY <2>1
    <3>2. Cardinality(TableOf(id)') <= Cardinality(TableOf(id))
      BY <3>1, TableSets
    <3>3. TableOf(id)' \in SUBSET SessionIds
      BY DEF TableOf
    <3>4. Cardinality(TableOf(id)') \in Nat /\ Cardinality(TableOf(id)) \in Nat
      BY <3>3, TableSets, SessionSets
    <3>5. Cardinality(TableOf(id)) <= MaxSessions
      BY DEF LimitInv
    <3> QED
      BY <3>2, <3>4, <3>5, AuthAssumption
  <2> QED
    BY <2>2 DEF LimitInv
<1> QED
  BY <1>1, LimitCreate, OthersKeepRows

LEMMA LimitInit == Init => LimitInv
<1> SUFFICES ASSUME Init, NEW id \in UserIds PROVE Cardinality(TableOf(id)) <= MaxSessions
  BY DEF LimitInv
<1>1. TableOf(id) = {}
  BY DEF Init, TableOf, Live, Unmade
<1> QED
  BY <1>1, FS_EmptySet, AuthAssumption

\* However the requests of several devices interleave, and whatever fails
\* between a refresh's two transactions, no user has more sessions than allowed,
\* if the deletion inside the rotation, whose error the code drops, succeeds.
THEOREM AuthSessionLimit ==
    ASSUME "rotate" \notin Faults PROVE Spec => []SessionLimit
<1>1. TypeOK /\ LimitInv => SessionLimit
  BY DEF TypeOK, LimitInv, SessionLimit, User
<1>2. TypeOK /\ LimitInv /\ [Next]_vars => LimitInv'
  BY LimitStep
<1> QED
  BY <1>1, <1>2, TypeInit, TypeStep, LimitInit, PTL DEF Spec

-----------------------------------------------------------------------------
\* The rotation keeps the recent sessions.

LEMMA NewerSets ==
    ASSUME NEW i
    PROVE  /\ Cardinality(Newer(i)) \in Nat /\ IsFiniteSet(Newer(i))
           /\ \A T \in SUBSET Newer(i) : Cardinality(T) <= Cardinality(Newer(i))
BY SessionSets, Newer(i) \in SUBSET SessionIds DEF Newer

LEMMA NewerSetsNext ==
    ASSUME NEW i
    PROVE  /\ Cardinality(Newer(i)') \in Nat
           /\ \A T \in SUBSET (Newer(i)') : Cardinality(T) <= Cardinality(Newer(i)')
BY SessionSets, Newer(i)' \in SUBSET SessionIds DEF Newer

LEMMA StillRecent ==
    ASSUME NEW i, Newer(i) \subseteq Newer(i)', Cardinality(Newer(i)) >= MaxSessions
    PROVE  Cardinality(Newer(i)') >= MaxSessions
BY NewerSets, NewerSetsNext, AuthAssumption

LEMMA RecentCreate ==
    ASSUME TypeOK, KeepsRecent, NEW q \in Requests, Create(q)
    PROVE  KeepsRecent'
<1> DEFINE user == req[q].user
           new == NewSession
<1> SUFFICES ASSUME NEW i \in SessionIds, session'[i].fate = "rotated"
             PROVE  Cardinality(Newer(i)') >= MaxSessions
  BY DEF KeepsRecent
<1>1. i # new /\ session'[i].user = session[i].user
  BY CreateRows
<1>2. CASE session[i].fate = "rotated"
  <2>1. Newer(i) \subseteq Newer(i)'
    BY <1>1, CreateRows DEF Newer
  <2> QED
    BY <1>2, <2>1, StillRecent DEF KeepsRecent
<1>3. CASE session[i].fate # "rotated"
  <2> DEFINE table == TableOf(user)
             recent == (table \ {i}) \cup {new}
  <2>1. i \in Rotates(user)
    BY <1>1, <1>3, CreateRows
  <2>2. i \in table /\ Cardinality(table) >= MaxSessions /\ \A j \in table : i <= j
    BY <2>1 DEF Rotates, Oldest
  <2>3. i \in SessionIds /\ session[i].user = user
    BY <2>2 DEF TableOf
  <2>4. new \notin table /\ new > i
    BY <1>1, <2>2, CreateRows DEF TableOf, Live, NewSession, TypeOK, SessionIds
  <2>5. \A j \in table \ {i} :
          /\ j \in SessionIds /\ j # new /\ j > i
          /\ session[j].user = user /\ session[j].fate = "live"
    BY <2>2, <2>4 DEF TableOf, Live, SessionIds
  <2>6. recent \subseteq Newer(i)'
    BY <1>1, <2>3, <2>4, <2>5, CreateRows DEF Newer
  <2>7. IsFiniteSet(table) /\ Cardinality(table) \in Nat
    BY TableSets
  <2>8. IsFiniteSet(table \ {i}) /\ Cardinality(table \ {i}) = Cardinality(table) - 1
    BY <2>2, <2>7, FS_RemoveElement
  <2>9. Cardinality(recent) = Cardinality(table)
    <3>1. new \notin table \ {i}
      BY <2>4
    <3>2. Cardinality(recent) = Cardinality(table \ {i}) + 1
      BY <2>8, <3>1, FS_AddElement
    <3> QED
      BY <2>7, <2>8, <3>2
  <2> QED
    BY <2>2, <2>6, <2>7, <2>9, NewerSetsNext, AuthAssumption
<1> QED
  BY <1>2, <1>3

LEMMA RecentStep ==
    ASSUME TypeOK, KeepsRecent, [Next]_vars PROVE KeepsRecent'
<1>1. CASE KeepsRows
  <2>1. ASSUME NEW i \in SessionIds, session'[i].fate = "rotated"
        PROVE  Cardinality(Newer(i)') >= MaxSessions
    <3>1. Newer(i) \subseteq Newer(i)'
      BY <1>1 DEF KeepsRows, Newer
    <3>2. session[i].fate = "rotated"
      BY <1>1, <2>1 DEF KeepsRows
    <3> QED
      BY <3>1, <3>2, StillRecent DEF KeepsRecent
  <2> QED
    BY <2>1 DEF KeepsRecent
<1> QED
  BY <1>1, RecentCreate, OthersKeepRows

\* A session that was rotated away is followed by as many newer sessions of its
\* user as the limit allows.
THEOREM AuthKeepsRecent == Spec => []KeepsRecent
<1>1. Init => KeepsRecent
  BY DEF Init, KeepsRecent, Unmade
<1> QED
  BY <1>1, TypeInit, TypeStep, RecentStep, PTL DEF Spec
=============================================================================
