--------------------------- MODULE LifecycleProofs ---------------------------
(***************************************************************************)
(* What happens to rows and structs in one step of module Downloads, and   *)
(* from it the life cycle of a row.                                        *)
(***************************************************************************)
EXTENDS DownloadsProofs

USE CatalogueAssumption, StoreAssumption, ClientAssumption, DownloadsAssumption

-----------------------------------------------------------------------------
\* One step, seen from the table, the monitor and the checks.

\* A new row: AddMedia, a failed AddMedia or Edit.
Inserts(m) ==
    /\ m \in Media /\ m.id = 0 /\ lastId < MaxId
    /\ m.status \in {"Unset", "Downloading", "Error"}
    /\ m.tid = 0 \/ m \in HeldMedia
    /\ Save(m)
    /\ UNCHANGED <<checks, library>>

\* A Retry stores the struct it read, as Downloading.
Retries(q) ==
    /\ RetrySaves(req[q].media.id)
    /\ req[q].media \in Media
    /\ req[q].media.id \in 1..lastId
    /\ req[q].media.status = "Downloading"
    /\ Save(req[q].media)
    /\ UNCHANGED <<checks, library>>

\* A check's deferred Save.
Checks(c) ==
    /\ c.pc = "save"
    /\ Save(c.media)
    /\ checks' = checks \ {c}
    /\ UNCHANGED <<mon, library>>

Deletes(m) ==
    /\ Delete(m.id)
    /\ UNCHANGED <<checks, library>>

\* Who writes the table, and how (db_downloads.go, db_media_manager.go).
LEMMA RowStep ==
    ASSUME MonitorInv, [Next]_vars
    PROVE  \/ UNCHANGED storeVars
           \/ \E m \in Media : Inserts(m)
           \/ \E q \in Requests : Retries(q)
           \/ \E c \in checks : Checks(c)
           \/ \E m \in rows : Deletes(m)
<1>t. TypeOK
  BY DEF MonitorInv
<1>1. ASSUME NEW q \in Requests, SaveMedia(q)
      PROVE  UNCHANGED storeVars \/ (\E m \in Media : Inserts(m)) \/ Retries(q)
  <2> DEFINE m == req[q].media
  <2>1. /\ m \in Media /\ m.id \in 0..lastId /\ m.status = "Downloading"
        /\ req[q].kind = "add" <=> m.id = 0
    BY <1>1 DEF MonitorInv, HandlersHoldMedia, Active, SaveMedia, Media, Struct
  <2>2. req[q].kind \in {"add", "retry"}
    BY <1>t DEF TypeOK, Req
  <2>3. CASE m.id = 0 /\ Save(m)
    BY <1>1, <2>1, <2>3 DEF SaveMedia, Inserts, IdsLeft, HeldMedia
  <2>4. CASE m.id # 0 /\ Save(m)
    <3>1. RetrySaves(m.id)
      BY <1>1, <2>1, <2>2, <2>4 DEF RetrySaves, SaveMedia
    <3>2. m.id \in 1..lastId
      BY <1>t, <2>1, <2>4 DEF TypeOK
    <3> QED BY <1>1, <2>1, <2>4, <3>1, <3>2 DEF SaveMedia, Retries
  <2> QED BY <1>1, <2>3, <2>4 DEF SaveMedia
<1>2. ASSUME NEW q \in Requests, EditFailed(q)
      PROVE  UNCHANGED storeVars \/ \E m \in Media : Inserts(m)
  <2>1. /\ req[q].media \in Media /\ req[q].media.id = 0
        /\ req[q].media.status = "Error"
    BY <1>2 DEF MonitorInv, HandlersHoldMedia, Active, EditFailed
  <2> QED BY <1>2, <2>1 DEF EditFailed, Inserts, IdsLeft, HeldMedia
<1>3. ASSUME NEW b \in Books, EditMedia(b)
      PROVE  UNCHANGED storeVars \/ \E m \in Media : Inserts(m)
  <2> DEFINE m == [NoMedia EXCEPT !.book = b]
  <2>1. m \in Media /\ m.id = 0 /\ m.status = "Unset" /\ m.tid = 0
    BY DEF NoMedia, Media, Struct, MediaStatus
  <2>2. IdsLeft(m) /\ (Save(m) \/ UNCHANGED storeVars) /\ UNCHANGED <<checks, library>>
    BY <1>3 DEF EditMedia
  <2> HIDE DEF m
  <2> QED BY <2>1, <2>2 DEF Inserts, IdsLeft
<1>4. ASSUME NEW c \in checks, SaveChecked(c) PROVE UNCHANGED storeVars \/ Checks(c)
  BY <1>4 DEF SaveChecked, Checks
<1>5. ASSUME NEW m \in rows, DeleteMedia(m) PROVE Deletes(m)
  BY <1>5 DEF DeleteMedia, Deletes
<1>6. ASSUME NEW w \in Workers, Monitor(w) PROVE UNCHANGED storeVars
  BY <1>6 DEF Monitor, StartMonitor, VerifyClient, Load, PollOk, PollFails, Wait, Release
<1>7. ASSUME NEW c \in checks, CheckDownload(c), ~SaveChecked(c) PROVE UNCHANGED storeVars
  BY <1>7 DEF CheckDownload, FinalizeOk, FinalizeFails, GiveUp, StillDownloading
<1> QED
  BY <1>1, <1>2, <1>3, <1>4, <1>5, <1>6, <1>7
     DEF Next, Rpc, Handler, Boot, Crash, AddMedia, Retry, Prepare, Send, Environment, vars

\* Loaded rows stay as they are, are dropped, or are loaded from the table.
LEMMA SnapChange ==
    ASSUME MonitorInv, [Next]_vars, NEW w \in Workers
    PROVE  \/ mon'[w].snap = mon[w].snap
           \/ mon'[w].snap = {}
           \/ mon'[w].snap = DownloadingMedia /\ UNCHANGED storeVars
<1>t. mon \in [Workers -> Mon]
  BY DEF MonitorInv, TypeOK
<1> DEFINE Goal == \/ mon'[w].snap = mon[w].snap
                   \/ mon'[w].snap = {}
                   \/ mon'[w].snap = DownloadingMedia /\ UNCHANGED storeVars
<1>1. ASSUME NEW v \in Workers, Spawn(v) \/ \E pc \in MonPc : Goto(v, pc) PROVE Goal
  <2>1. mon'[v].snap = mon[v].snap /\ \A u \in Workers : u # v => mon'[u] = mon[u]
    BY <1>t, <1>1, MonStep
  <2> QED BY <2>1
<1>2. CASE UNCHANGED mon
  BY <1>2
<1>3. CASE Crash
  BY <1>3 DEF Crash, OffMon
<1>4. ASSUME NEW v \in Workers, Load(v) PROVE Goal
  <2>1. CASE mon' = [mon EXCEPT ![v] = [pc |-> "poll", snap |-> DownloadingMedia]]
    BY <1>t, <1>4, <2>1 DEF Load
  <2> QED BY <1>1, <1>4, <2>1 DEF Load, MonPc
<1>5. ASSUME NEW v \in Workers, PollOk(v) \/ PollFails(v) PROVE Goal
  BY <1>t, <1>5 DEF PollOk, PollFails
<1>6. ASSUME NEW v \in Workers, StartMonitor(v) \/ VerifyClient(v) \/ Wait(v) \/ Release(v)
      PROVE  Goal
  <2>1. \E pc \in MonPc : Goto(v, pc)
    BY <1>6 DEF StartMonitor, VerifyClient, Wait, Release, MonPc
  <2> QED BY <1>1, <2>1
<1>7. ASSUME NEW c \in checks, CheckDownload(c) PROVE UNCHANGED mon
  BY <1>7 DEF CheckDownload, FinalizeOk, FinalizeFails, GiveUp, StillDownloading, SaveChecked
<1>8. ASSUME Boot \/ \E q \in Requests : SaveMedia(q) PROVE Goal
  <2>1. (\E v \in Workers : Spawn(v)) \/ UNCHANGED mon
    BY <1>8 DEF Boot, SaveMedia
  <2> QED BY <1>1, <1>2, <2>1
<1>9. Goal
  BY <1>2, <1>3, <1>4, <1>5, <1>6, <1>7, <1>8
     DEF Next, Rpc, Handler, Monitor, AddMedia, Retry, DeleteMedia, EditMedia, Prepare, Send,
         EditFailed, Environment, vars, serviceVars
<1> QED BY <1>9

\* A check is an earlier one, perhaps with its outcome, or new from a loaded row.
Resumes(c, d) ==
    /\ d.media.id = c.media.id /\ d.media.book = c.media.book
    /\ d.media.tid = c.media.tid /\ d.link = c.link
    /\ \/ d = c
       \/ d.media.status = "Completed" => <<c.media.book, c.link>> \in library'

LEMMA CheckChange ==
    ASSUME MonitorInv, [Next]_vars, NEW d \in checks'
    PROVE  \/ \E c \in checks : Resumes(c, d)
           \/ /\ \E w \in Workers : \E m \in mon[w].snap : \E t \in torrents :
                     m.tid = t.tid /\ d = CheckOf(w, m, t)
              /\ UNCHANGED <<storeVars, clientVars, library>>
<1>t. TypeOK /\ CheckMedia
  BY DEF MonitorInv
<1> DEFINE Goal == \E c \in checks : Resumes(c, d)
<1>1. CASE checks' \subseteq checks
  <2>1. Resumes(d, d)
    BY DEF Resumes
  <2> QED BY <1>1, <2>1
<1>2. ASSUME NEW c \in checks, NEW s, Outcome(c, s),
             s = "Completed" => <<c.media.book, c.link>> \in library'
      PROVE  Goal
  <2> DEFINE e == [c EXCEPT !.pc = "save", !.media.status = s]
  <2>1. Resumes(c, e)
    BY <1>t, <1>2 DEF TypeOK, Check, Media, Struct, Resumes
  <2>2. checks' = (checks \ {c}) \cup {e}
    BY <1>2 DEF Outcome
  <2>3. Resumes(d, d)
    BY DEF Resumes
  <2> HIDE DEF e
  <2> QED BY <2>1, <2>2, <2>3
<1>3. ASSUME NEW c \in checks, CheckDownload(c), ~SaveChecked(c) PROVE Goal
  <2>1. c.pc = "run" => c.media.status = "Downloading"
    BY <1>t DEF CheckMedia
  <2>2. \E s : Outcome(c, s) /\ (s = "Completed" => <<c.media.book, c.link>> \in library')
    BY <1>3, <2>1 DEF CheckDownload, FinalizeOk, FinalizeFails, GiveUp, StillDownloading
  <2> QED BY <1>2, <2>2
<1>4. ASSUME NEW w \in Workers, PollOk(w)
      PROVE  Goal \/ /\ \E m \in mon[w].snap : \E t \in torrents :
                             m.tid = t.tid /\ d = CheckOf(w, m, t)
                     /\ UNCHANGED <<storeVars, clientVars, library>>
  <2>1. CASE d \in checks
    BY <2>1 DEF Resumes
  <2>2. CASE d \notin checks
    BY <1>4, <2>2, NewCheck DEF PollOk, Reported
  <2> QED BY <2>1, <2>2
<1>5. ASSUME NEW w \in Workers, Monitor(w), ~PollOk(w) PROVE checks' \subseteq checks
  BY <1>5 DEF Monitor, StartMonitor, VerifyClient, Load, PollFails, Wait, Release
<1>6. ASSUME NEW c \in checks, SaveChecked(c) PROVE checks' \subseteq checks
  BY <1>6 DEF SaveChecked
<1> QED
  BY <1>1, <1>3, <1>4, <1>5, <1>6
     DEF Next, Rpc, Handler, Boot, Crash, AddMedia, Retry, DeleteMedia, EditMedia, Prepare,
         Send, SaveMedia, EditFailed, Environment, vars, serviceVars

-----------------------------------------------------------------------------
\* The life cycle of a row.

\* The ids held by monitor and checks are stored ones.
LEMMA HeldIds ==
    ASSUME MonitorInv
    PROVE  /\ \A w \in Workers : \A m \in mon[w].snap : m.id \in 1..lastId
           /\ \A c \in checks : c.media.id \in 1..lastId
           /\ \A r \in rows : r.id \in 1..lastId
           /\ lastId \in Nat
BY DEF MonitorInv, SnapIds, CheckMedia, RowIds, TypeOK

\* While there is a check no monitor holds loaded rows.
LEMMA NoSnapWhileChecking ==
    ASSUME MonitorInv, NEW c \in checks, NEW w \in Workers
    PROVE  mon[w].snap = {}
<1>1. mon[w].pc # "poll"
  BY PollFindsNoChecks
<1> QED BY <1>1 DEF MonitorInv, SnapOnlyToPoll

\* A new row gets the next id, and only it is new.
LEMMA Inserted ==
    ASSUME NEW m \in Media, Inserts(m)
    PROVE  \E n : /\ n.id = lastId + 1
                  /\ n.book = m.book /\ n.tid = m.tid /\ n.status = m.status
                  /\ rows' = {s \in rows : s.id # lastId + 1} \cup {n}
                  /\ lastId' = lastId + 1
<1> DEFINE n == [m EXCEPT !.id = lastId + 1]
<1>1. n.id = lastId + 1 /\ n.book = m.book /\ n.tid = m.tid /\ n.status = m.status
  BY DEF Media, Struct
<1>2. rows' = {s \in rows : s.id # lastId + 1} \cup {n} /\ lastId' = lastId + 1
  BY DEF Inserts, Save, Numbered, NewId
<1> HIDE DEF n
<1> QED BY <1>1, <1>2

\* Nobody but its own check settles a row that is being watched (checkDownload).
LEMMA StillInProgressStep ==
    ASSUME LifecycleInv, [Next]_vars
    PROVE  StillInProgress'
<1>m. MonitorInv /\ StillInProgress
  BY DEF LifecycleInv
<1>t. mon \in [Workers -> Mon] /\ RowIds
  BY <1>m DEF MonitorInv, TypeOK
\* A row that is in the way of a held id was there, or is saved as Downloading.
<1>1. ASSUME NEW i \in 1..lastId, NEW r \in rows', r.id = i,
             \A s \in rows : s.id = i => s.status = "Downloading",
             ~\E c \in checks : Checks(c) /\ c.media.id = i
      PROVE  r.status = "Downloading"
  <2>1. CASE UNCHANGED storeVars
    BY <1>1, <2>1 DEF storeVars
  <2>2. ASSUME NEW m \in Media, Inserts(m) PROVE r.status = "Downloading"
    <3>1. PICK n : n.id = lastId + 1 /\ rows' = {s \in rows : s.id # lastId + 1} \cup {n}
      BY <2>2, Inserted
    <3>2. lastId \in Nat
      BY <1>m, HeldIds
    <3> QED BY <1>1, <3>1, <3>2
  <2>3. ASSUME NEW q \in Requests, Retries(q) PROVE r.status = "Downloading"
    BY <1>1, <2>3 DEF Retries, Save, Numbered
  <2>4. ASSUME NEW c \in checks, Checks(c) PROVE r.status = "Downloading"
    <3>1. c.media.id # 0 /\ c.media.id # i
      BY <1>1, <1>m, <2>4, HeldIds
    <3> QED BY <1>1, <2>4, <3>1 DEF Checks, Save, Numbered
  <2>5. ASSUME NEW m \in rows, Deletes(m) PROVE r.status = "Downloading"
    BY <1>1, <2>5 DEF Deletes, Delete
  <2> QED BY <1>m, <2>1, <2>2, <2>3, <2>4, <2>5, RowStep
<1>2. ASSUME NEW w \in Workers, NEW m \in mon'[w].snap, NEW r \in rows', r.id = m.id
      PROVE  r.status = "Downloading"
  <2>1. CASE m \in mon[w].snap
    <3>1. ~\E c \in checks : TRUE
      BY <1>m, <2>1, NoSnapWhileChecking
    <3>2. m.id \in 1..lastId /\ \A s \in rows : s.id = m.id => s.status = "Downloading"
      BY <1>m, <2>1, HeldIds DEF StillInProgress
    <3> QED BY <1>1, <1>2, <3>1, <3>2
  <2>2. CASE mon'[w].snap = DownloadingMedia /\ UNCHANGED storeVars
    BY <1>t, <1>2, <2>2 DEF DownloadingMedia, DownloadingRows, RowIds, storeVars
  <2> QED BY <1>m, <1>2, <2>1, <2>2, SnapChange
<1>3. ASSUME NEW d \in checks', NEW r \in rows', r.id = d.media.id
      PROVE  r.status = "Downloading"
  <2>1. ASSUME NEW c \in checks, Resumes(c, d) PROVE r.status = "Downloading"
    <3>1. c.media.id \in 1..lastId /\ \A s \in rows : s.id = c.media.id => s.status = "Downloading"
      BY <1>m, HeldIds DEF StillInProgress
    <3>2. ASSUME NEW e \in checks, Checks(e), e.media.id = c.media.id PROVE FALSE
      <4>1. d \in checks /\ d # e
        BY <3>2 DEF Checks
      <4> QED BY <1>m, <2>1, <3>2, <4>1 DEF Resumes, MonitorInv, OneCheckPerRow
    <3> QED BY <1>1, <1>3, <2>1, <3>1, <3>2 DEF Resumes
  <2>2. ASSUME NEW w \in Workers, NEW m \in mon[w].snap, NEW t \in torrents,
               d = CheckOf(w, m, t), UNCHANGED storeVars
        PROVE  r.status = "Downloading"
    BY <1>m, <1>3, <2>2 DEF CheckOf, StillInProgress, storeVars
  <2> QED BY <1>m, <2>1, <2>2, CheckChange
<1> QED BY <1>2, <1>3 DEF StillInProgress

LEMMA LifecycleInductive == LifecycleInv /\ [Next]_vars => LifecycleInv'
BY MonitorInductive, StillInProgressStep DEF LifecycleInv

LEMMA LifecycleInit == Init => LifecycleInv
<1>1. Init => StillInProgress
  BY DEF Init, StoreInit, StillInProgress, OffMon
<1> QED BY <1>1, MonitorInit DEF LifecycleInv

\* A Completed or Error row moves only by a Retry of it (checkDownload, Retry).
THEOREM SettledRowsStay == Spec => SettledStays
<1> DEFINE Stays ==
      \A r \in rows : \A s \in rows' :
          /\ r.id = s.id
          /\ r.status \in {"Completed", "Error"}
          /\ s.status # r.status
          => RetrySaves(r.id)
<1>1. LifecycleInv /\ [Next]_vars => [Stays]_vars
  <2> SUFFICES ASSUME LifecycleInv, [Next]_vars,
                      NEW r \in rows, NEW s \in rows', r.id = s.id,
                      r.status \in {"Completed", "Error"}, s.status # r.status
               PROVE  RetrySaves(r.id)
    OBVIOUS
  <2>m. MonitorInv /\ RowIds /\ r.id \in 1..lastId /\ lastId \in Nat
    BY HeldIds DEF LifecycleInv, MonitorInv
  <2>1. CASE UNCHANGED storeVars
    BY <2>m, <2>1 DEF storeVars, RowIds
  <2>2. ASSUME NEW m \in Media, Inserts(m) PROVE FALSE
    <3>1. PICK n : n.id = lastId + 1 /\ rows' = {u \in rows : u.id # lastId + 1} \cup {n}
      BY <2>2, Inserted
    <3> QED BY <2>m, <3>1 DEF RowIds
  <2>3. ASSUME NEW q \in Requests, Retries(q) PROVE RetrySaves(r.id)
    BY <2>m, <2>3 DEF Retries, Save, Numbered, RowIds
  <2>4. ASSUME NEW c \in checks, Checks(c) PROVE FALSE
    <3>1. c.media.id # 0 /\ c.media.id # r.id
      BY <2>m, HeldIds DEF LifecycleInv, StillInProgress
    <3> QED BY <2>m, <2>4, <3>1 DEF Checks, Save, Numbered, RowIds
  <2>5. ASSUME NEW m \in rows, Deletes(m) PROVE FALSE
    BY <2>m, <2>5 DEF Deletes, Delete, RowIds
  <2> QED BY <2>m, <2>1, <2>2, <2>3, <2>4, <2>5, RowStep
<1> QED BY <1>1, LifecycleInit, LifecycleInductive, PTL DEF Spec, SettledStays

-----------------------------------------------------------------------------
\* The structs in the table, the handlers, the monitor and the checks.

Structs == HeldMedia \cup rows

\* m is n, perhaps with another status.
Copies(n, m) == m.id = n.id /\ m.book = n.book /\ m.tid = n.tid

\* DownloadMedia puts the client's id on the handler's struct.
Sends(q, m) ==
    LET link == LinkOf[req[q].media.book] IN
    /\ Active(q) /\ req[q].media \in Media
    /\ TidsLeft(link) /\ AddTorrent(link)
    /\ m.id = req[q].media.id /\ m.book = req[q].media.book /\ m.tid = AddedTid(link)

\* A handler's struct is the one it had, is dropped, new, read from the table,
\* or gets the client's id.
LEMMA HandlerChange ==
    ASSUME MonitorInv, [Next]_vars, NEW q \in Requests
    PROVE  \/ req'[q] = IdleReq
           \/ req'[q] = req[q]
           \/ /\ req'[q].pc # "idle"
              /\ \/ Copies(req[q].media, req'[q].media)
                 \/ req'[q].media.id = 0 /\ req'[q].media.tid = 0
                 \/ req'[q].media \in rows
                 \/ Sends(q, req'[q].media)
<1>t. req \in [Requests -> Req] /\ HandlersHoldMedia
  BY DEF MonitorInv, TypeOK
<1> DEFINE Goal == \/ req'[q] = IdleReq
                   \/ req'[q] = req[q]
                   \/ /\ req'[q].pc # "idle"
                      /\ \/ Copies(req[q].media, req'[q].media)
                         \/ req'[q].media.id = 0 /\ req'[q].media.tid = 0
                         \/ req'[q].media \in rows
                         \/ Sends(q, req'[q].media)
<1>1. CASE UNCHANGED req
  BY <1>1
<1>2. ASSUME NEW p \in Requests, p # q, NEW r, req' = [req EXCEPT ![p] = r] PROVE Goal
  BY <1>t, <1>2
<1>3. ASSUME NEW r, req' = [req EXCEPT ![q] = r] PROVE req'[q] = r
  BY <1>t, <1>3
<1>4. ASSUME NEW p \in Requests, Failed(p) PROVE Goal
  <2>1. CASE p # q
    BY <1>2, <1>4, <2>1 DEF Failed, Step
  <2>2. CASE p = q /\ req[q].kind = "add"
    <3> DEFINE m == [req[q].media EXCEPT !.status = "Error"]
    <3>1. Copies(req[q].media, m)
      BY <1>t DEF Req, Struct, Copies
    <3> HIDE DEF m
    <3>2. req'[q] = [pc |-> "edit", kind |-> req[q].kind, media |-> m]
      BY <1>3, <1>4, <2>2 DEF Failed, Step, m
    <3> QED BY <3>1, <3>2
  <2>3. CASE p = q /\ req[q].kind # "add"
    BY <1>3, <1>4, <2>3 DEF Failed
  <2> QED BY <2>1, <2>2, <2>3
<1>5. CASE Crash
  BY <1>5 DEF Crash
<1>6. ASSUME NEW p \in Requests, NEW b \in Books, AddMedia(p, b) PROVE Goal
  <2>1. CASE p # q
    BY <1>2, <1>6, <2>1 DEF AddMedia
  <2>2. CASE p = q
    <3>1. req'[q] = [pc |-> "prepare", kind |-> "add", media |-> [NoMedia EXCEPT !.book = b]]
      BY <1>3, <1>6, <2>2 DEF AddMedia
    <3> QED BY <3>1 DEF NoMedia
  <2> QED BY <2>1, <2>2
<1>7. ASSUME NEW p \in Requests, NEW m \in rows, Retry(p, m) PROVE Goal
  <2>1. CASE p # q
    BY <1>2, <1>7, <2>1 DEF Retry
  <2>2. CASE p = q
    <3>1. req'[q] = [pc |-> "prepare", kind |-> "retry", media |-> m]
      BY <1>3, <1>7, <2>2 DEF Retry
    <3> QED BY <3>1
  <2> QED BY <2>1, <2>2
<1>8. ASSUME NEW p \in Requests, Prepare(p) PROVE Goal
  <2>1. CASE p # q
    BY <1>2, <1>4, <1>8, <2>1 DEF Prepare, Step
  <2>2. CASE p = q /\ Step(q, "send", req[q].media)
    <3>1. req'[q] = [pc |-> "send", kind |-> req[q].kind, media |-> req[q].media]
      BY <1>3, <2>2 DEF Step
    <3> QED BY <3>1 DEF Copies
  <2> QED BY <1>4, <1>8, <2>1, <2>2 DEF Prepare
<1>9. ASSUME NEW p \in Requests, Send(p) PROVE Goal
  <2> DEFINE link == LinkOf[req[q].media.book]
             m == [req[q].media EXCEPT !.tid = AddedTid(link), !.status = "Downloading"]
  <2>1. CASE p # q
    BY <1>2, <1>4, <1>9, <2>1 DEF Send, Step
  <2>2. CASE p = q /\ TidsLeft(link) /\ AddTorrent(link) /\ Step(q, "save", m)
    <3>1. req[q].media \in Media /\ Active(q)
      BY <1>t, <1>9, <2>2 DEF HandlersHoldMedia, Active, Send
    <3>2. Sends(q, m)
      BY <2>2, <3>1 DEF Sends, Media, Struct
    <3> HIDE DEF m
    <3>3. req'[q] = [pc |-> "save", kind |-> req[q].kind, media |-> m]
      BY <1>3, <2>2 DEF Step
    <3> QED BY <3>2, <3>3
  <2> QED BY <1>4, <1>9, <2>1, <2>2 DEF Send
<1>10. ASSUME NEW p \in Requests, SaveMedia(p) \/ EditFailed(p) PROVE Goal
  <2>1. CASE req' = [req EXCEPT ![p] = IdleReq]
    BY <1>2, <1>3, <2>1
  <2> QED BY <1>4, <1>10, <2>1 DEF SaveMedia, EditFailed
<1>11. ASSUME NEW w \in Workers, Monitor(w) PROVE UNCHANGED req
  BY <1>11 DEF Monitor, StartMonitor, VerifyClient, Load, PollOk, PollFails, Wait, Release
<1>12. ASSUME NEW c \in checks, CheckDownload(c) PROVE UNCHANGED req
  BY <1>12 DEF CheckDownload, FinalizeOk, FinalizeFails, GiveUp, StillDownloading, SaveChecked
<1>13. Goal
  BY <1>1, <1>4, <1>5, <1>6, <1>7, <1>8, <1>9, <1>10, <1>11, <1>12
     DEF Next, Rpc, Handler, Boot, DeleteMedia, EditMedia, Environment, vars, serviceVars
<1> QED BY <1>13
\* A row is one that was there, a struct that was saved, or a new one with the
\* next id.
LEMMA RowChange ==
    ASSUME MonitorInv, [Next]_vars, NEW r \in rows'
    PROVE  \/ \E n \in Structs : Copies(n, r)
           \/ /\ r.id = lastId + 1 /\ lastId' = lastId + 1
              /\ r.tid = 0 \/ \E n \in Structs : n.book = r.book /\ n.tid = r.tid
<1>1. CASE r \in rows
  BY <1>1 DEF Structs, Copies
<1>2. CASE UNCHANGED storeVars
  BY <1>1, <1>2 DEF storeVars
<1>3. ASSUME NEW m \in Media, Inserts(m), r \notin rows
      PROVE  /\ r.id = lastId + 1 /\ lastId' = lastId + 1
             /\ r.tid = 0 \/ \E n \in Structs : n.book = r.book /\ n.tid = r.tid
  <2>1. PICK n : /\ n.id = lastId + 1
                 /\ n.book = m.book /\ n.tid = m.tid /\ n.status = m.status
                 /\ rows' = {s \in rows : s.id # lastId + 1} \cup {n}
                 /\ lastId' = lastId + 1
    BY <1>3, Inserted
  <2>2. r = n
    BY <1>3, <2>1
  <2> QED BY <1>3, <2>1, <2>2 DEF Inserts, Structs
<1>4. ASSUME NEW q \in Requests, Retries(q), r \notin rows PROVE \E n \in Structs : Copies(n, r)
  <2>1. r = req[q].media
    BY <1>4 DEF Retries, Save, Numbered
  <2> QED BY <2>1 DEF Structs, HeldMedia, Copies
<1>5. ASSUME NEW c \in checks, Checks(c), r \notin rows PROVE \E n \in Structs : Copies(n, r)
  <2>1. c.media.id # 0
    BY HeldIds
  <2>2. r = c.media
    BY <1>5, <2>1 DEF Checks, Save, Numbered
  <2> QED BY <2>2 DEF Structs, HeldMedia, Copies
<1>6. ASSUME NEW m \in rows, Deletes(m) PROVE r \in rows
  BY <1>6 DEF Deletes, Delete
<1> QED BY <1>1, <1>2, <1>3, <1>4, <1>5, <1>6, RowStep

\* Where each struct of the next state comes from.
LEMMA StructChange ==
    ASSUME MonitorInv, [Next]_vars, NEW m \in Structs'
    PROVE  \/ \E n \in Structs : Copies(n, m)
           \/ m.id = 0 /\ m.tid = 0
           \/ \E q \in Requests : Sends(q, m)
           \/ /\ m \in rows'
              /\ m.id = lastId + 1 /\ lastId' = lastId + 1
              /\ m.tid = 0 \/ \E n \in Structs : n.book = m.book /\ n.tid = m.tid
<1> DEFINE Goal == \/ \E n \in Structs : Copies(n, m)
                   \/ m.id = 0 /\ m.tid = 0
                   \/ \E q \in Requests : Sends(q, m)
<1>1. \A n \in Structs : Copies(n, n)
  BY DEF Copies
<1>2. ASSUME NEW q \in Requests, m = req'[q].media PROVE Goal
  <2>1. req[q].media \in Structs /\ rows \subseteq Structs
    BY DEF Structs, HeldMedia
  <2>2. IdleReq.media.id = 0 /\ IdleReq.media.tid = 0
    BY DEF IdleReq, NoMedia
  <2> QED BY <1>1, <1>2, <2>1, <2>2, HandlerChange
<1>3. ASSUME NEW w \in Workers, m \in mon'[w].snap PROVE Goal
  <2>1. mon[w].snap \subseteq Structs /\ DownloadingMedia \subseteq Structs
    BY DEF Structs, HeldMedia, DownloadingMedia, DownloadingRows
  <2> QED BY <1>1, <1>3, <2>1, SnapChange
<1>4. ASSUME NEW d \in checks', m = d.media PROVE Goal
  <2>1. ASSUME NEW c \in checks, Resumes(c, d) PROVE Goal
    <3>1. c.media \in Structs
      BY DEF Structs, HeldMedia
    <3> QED BY <1>4, <2>1, <3>1 DEF Resumes, Copies
  <2>2. ASSUME NEW w \in Workers, NEW n \in mon[w].snap, NEW t \in torrents,
               d = CheckOf(w, n, t)
        PROVE  Goal
    <3>1. m = n /\ n \in Structs
      BY <1>4, <2>2 DEF CheckOf, Structs, HeldMedia
    <3> QED BY <1>1, <3>1
  <2> QED BY <2>1, <2>2, CheckChange
<1>5. \/ \E q \in Requests : m = req'[q].media
      \/ \E w \in Workers : m \in mon'[w].snap
      \/ \E d \in checks' : m = d.media
      \/ m \in rows'
  BY DEF Structs, HeldMedia
<1> QED BY <1>2, <1>3, <1>4, <1>5, RowChange

-----------------------------------------------------------------------------
\* The id of a row names one book for ever.

\* Ids of structs have been handed out.
LEMMA StructIds ==
    ASSUME MonitorInv, IdleHoldsNothing, NEW m \in Structs
    PROVE  m.id \in 0..lastId /\ lastId \in Nat
<1>1. ASSUME NEW q \in Requests PROVE req[q].media.id \in 0..lastId
  <2>1. CASE Active(q)
    BY <2>1 DEF MonitorInv, HandlersHoldMedia, Media, Struct
  <2>2. CASE ~Active(q)
    BY <2>2, HeldIds DEF IdleHoldsNothing, NoMedia
  <2> QED BY <2>1, <2>2
<1> QED BY <1>1, HeldIds DEF Structs, HeldMedia

LEMMA IdleStep ==
    ASSUME MonitorInv, IdleHoldsNothing, [Next]_vars
    PROVE  IdleHoldsNothing'
<1> SUFFICES ASSUME NEW q \in Requests, req'[q].pc = "idle" PROVE req'[q].media = NoMedia
  BY DEF IdleHoldsNothing, Active
<1>1. CASE req'[q] = IdleReq
  BY <1>1 DEF IdleReq
<1>2. CASE req'[q] = req[q]
  BY <1>2 DEF IdleHoldsNothing, Active
<1> QED BY <1>1, <1>2, HandlerChange

\* The book under an id does not change: copies keep both, a new row has an id
\* that no struct had.
LEMMA BookStep ==
    ASSUME BooksInv, [Next]_vars
    PROVE  IdNamesOneBook'
<1>m. MonitorInv /\ IdleHoldsNothing /\ IdNamesOneBook
  BY DEF BooksInv, LifecycleInv
<1>u. \A r \in rows' : \A s \in rows' : r.id = s.id => r = s
  BY <1>m, RowIdsStep DEF RowIds
<1>i. \A n \in Structs : n.id \in 0..lastId /\ lastId \in Nat
  BY <1>m, StructIds
<1>b. \A m, n \in Structs : m.id # 0 /\ m.id = n.id => m.book = n.book
  BY <1>m DEF IdNamesOneBook, Structs
<1> DEFINE Old(m) == \E n \in Structs : m.id = n.id /\ m.book = n.book
<1>1. ASSUME NEW m \in Structs', m.id # 0
      PROVE  Old(m) \/ (m \in rows' /\ m.id = lastId + 1)
  <2>1. ASSUME NEW q \in Requests, Sends(q, m) PROVE Old(m)
    BY <2>1 DEF Sends, Structs, HeldMedia
  <2> QED BY <1>m, <1>1, <2>1, StructChange DEF Copies
<1>2. ASSUME NEW m \in Structs', NEW n \in Structs', m.id # 0, m.id = n.id
      PROVE  m.book = n.book
  <2>1. CASE Old(m) /\ Old(n)
    BY <1>b, <1>2, <2>1
  <2>2. ASSUME NEW k, Old(k) PROVE k.id # lastId + 1
    BY <1>i, <2>2
  <2> HIDE DEF Old
  <2>3. (m \in rows' /\ n \in rows') \/ (Old(m) /\ Old(n))
    BY <1>1, <1>2, <2>2
  <2> QED BY <1>u, <1>2, <2>1, <2>3
<1> QED BY <1>2 DEF IdNamesOneBook, Structs

LEMMA BooksInductive == BooksInv /\ [Next]_vars => BooksInv'
BY LifecycleInductive, IdleStep, BookStep DEF BooksInv, LifecycleInv

LEMMA BooksInit == Init => BooksInv
<1>1. Init => IdleHoldsNothing /\ IdNamesOneBook
  BY DEF Init, StoreInit, IdleHoldsNothing, IdNamesOneBook, HeldMedia, IdleReq, NoMedia, OffMon
<1> QED BY <1>1, LifecycleInit DEF BooksInv

\* No late Save of a struct whose row was deleted lands on another book's row
\* (checkDownload, Retry, DeleteMedia; AUTOINCREMENT).
THEOREM IdsNameBooks == Spec => []IdNamesOneBook
<1>1. BooksInv => IdNamesOneBook
  BY DEF BooksInv
<1> QED BY <1>1, BooksInit, BooksInductive, PTL DEF Spec
-----------------------------------------------------------------------------
\* A completed row's files are in the library, as long as transmission does not
\* number its torrents anew.
NoRenumbering == Client = "qbit" \/ "restart" \notin ClientEvents

\* TorrentOfBook, of one struct.
NamesTorrent(m) ==
    /\ Client = "transmission" => m.tid <= lastTid
    /\ Client = "qbit" /\ m.tid # 0 => m.tid = LinkOf[m.book]
    /\ \A t \in torrents : t.tid = m.tid => t.link = LinkOf[m.book]

\* What is in the client after a step was there before, or has the next id.
LEMMA ClientChange ==
    ASSUME MonitorInv, [Next]_vars, NoRenumbering
    PROVE  /\ lastTid <= lastTid'
           /\ \A t \in torrents' :
                  \/ \E s \in torrents : s.tid = t.tid /\ s.link = t.link
                  \/ Client = "transmission" => t.tid = lastTid + 1
<1>t. torrents \subseteq Torrent /\ lastTid \in Nat
  BY DEF MonitorInv, TypeOK
<1> DEFINE Goal == /\ lastTid <= lastTid'
                   /\ \A t \in torrents' :
                          \/ \E s \in torrents : s.tid = t.tid /\ s.link = t.link
                          \/ Client = "transmission" => t.tid = lastTid + 1
<1>1. CASE torrents' \subseteq torrents /\ lastTid' = lastTid
  BY <1>t, <1>1
<1>2. ASSUME NEW q \in Requests, Send(q) PROVE Goal
  <2>1. CASE UNCHANGED clientVars
    BY <1>1, <2>1 DEF clientVars
  <2> DEFINE link == LinkOf[req[q].media.book]
             new == [tid |-> NewTid(link), link |-> link, state |-> "downloading"]
  <2>2. CASE /\ torrents' = torrents \cup {new}
             /\ lastTid' = IF Client = "qbit" THEN lastTid ELSE lastTid + 1
    BY <1>t, <2>2 DEF NewTid
  <2> QED BY <1>2, <2>1, <2>2 DEF Send, AddTorrent
<1>3. ASSUME NEW t \in torrents, NEW s, Becomes(t, s) PROVE Goal
  <2> DEFINE u == [t EXCEPT !.state = s]
  <2>1. u.tid = t.tid /\ u.link = t.link
    BY <1>t DEF Torrent
  <2>2. torrents' = (torrents \ {t}) \cup {u} /\ lastTid' = lastTid
    BY <1>3 DEF Becomes
  <2> HIDE DEF u
  <2> QED BY <1>t, <2>1, <2>2
<1>4. ASSUME NEW t \in torrents, Remove(t) PROVE Goal
  BY <1>1, <1>4 DEF Remove
<1>5. ~Restart
  BY DEF NoRenumbering, Restart
<1>6. CASE Environment
  BY <1>1, <1>3, <1>4, <1>5, <1>6
     DEF Environment, ClientNext, Finish, Pause, Resume, Break, EndSession, torrentVars
<1>7. ASSUME Connect \/ ConnectFails \/ UNCHANGED clientVars PROVE Goal
  <2>1. UNCHANGED torrentVars
    BY <1>7 DEF Connect, ConnectFails, Login, clientVars, torrentVars
  <2> QED BY <1>1, <2>1 DEF torrentVars
<1>8. ASSUME NEW w \in Workers, Monitor(w) PROVE Connect \/ ConnectFails \/ UNCHANGED clientVars
  BY <1>8 DEF Monitor, StartMonitor, VerifyClient, Load, PollOk, PollFails, Wait, Release
<1>9. ASSUME NEW c \in checks, CheckDownload(c) PROVE UNCHANGED clientVars
  BY <1>9 DEF CheckDownload, FinalizeOk, FinalizeFails, GiveUp, StillDownloading, SaveChecked
<1>10. CASE Boot \/ \E q \in Requests : Prepare(q)
  BY <1>7, <1>10 DEF Boot, Prepare
<1>11. Goal
  BY <1>2, <1>6, <1>7, <1>8, <1>9, <1>10
     DEF Next, Rpc, Handler, Crash, AddMedia, Retry, DeleteMedia, EditMedia,
         SaveMedia, EditFailed, vars
<1> QED BY <1>11

\* A struct that names its book's torrent keeps naming it.
LEMMA NamedTorrentStays ==
    ASSUME MonitorInv, [Next]_vars, NoRenumbering,
           NEW n, NEW m, n.tid \in Nat, m.book = n.book, m.tid = n.tid, NamesTorrent(n)
    PROVE  NamesTorrent(m)'
<1>t. TypeOK /\ ClientIds
  BY DEF MonitorInv
<1>n. TypeOK' /\ ClientIds'
  BY TypeStep, ClientIdsStep
<1>1. CASE Client = "qbit"
  <2>1. \A t \in torrents' : t.tid = t.link /\ t.tid # 0
    BY <1>n, <1>1 DEF ClientIds, TypeOK, Torrent
  <2> QED BY <1>1, <2>1 DEF NamesTorrent
<1>2. CASE Client = "transmission"
  <2>1. n.tid <= lastTid /\ lastTid \in Nat /\ lastTid' \in Nat /\ lastTid <= lastTid'
    BY <1>t, <1>n, <1>2, ClientChange DEF NamesTorrent, TypeOK
  <2>2. \A t \in torrents' : t.tid = n.tid => \E s \in torrents : s.tid = t.tid /\ s.link = t.link
    BY <1>2, <2>1, ClientChange
  <2> QED BY <1>2, <2>1, <2>2 DEF NamesTorrent
<1> QED BY <1>1, <1>2, ClientAssumption

\* The id the client returns is that of the torrent it was given.
LEMMA SentNamesTorrent ==
    ASSUME MonitorInv, [Next]_vars, NEW q \in Requests, NEW m, Sends(q, m)
    PROVE  NamesTorrent(m)'
<1> DEFINE link == LinkOf[req[q].media.book]
           new == [tid |-> NewTid(link), link |-> link, state |-> "downloading"]
<1>t. TypeOK /\ ClientIds
  BY DEF MonitorInv
<1>n. ClientIds' /\ TypeOK'
  BY ClientIdsStep, TypeStep
<1>b. LinkOf[m.book] = link
  BY DEF Sends
<1>1. \E t \in torrents' : t.tid = m.tid /\ t.link = link
  <2>1. CASE Known(link) # {}
    <3>1. PICK t \in Known(link) : t = CHOOSE u \in Known(link) : TRUE
      BY <2>1
    <3>2. m.tid = t.tid /\ torrents' = torrents
      BY <2>1, <3>1 DEF Sends, AddedTid, AddTorrent, clientVars
    <3> QED BY <3>1, <3>2 DEF Known
  <2>2. CASE Known(link) = {}
    <3>1. m.tid = NewTid(link) /\ torrents' = torrents \cup {new}
      BY <2>2 DEF Sends, AddedTid, AddTorrent
    <3>2. new.tid = NewTid(link) /\ new.link = link
      OBVIOUS
    <3> HIDE DEF new
    <3> QED BY <3>1, <3>2
  <2> QED BY <2>1, <2>2
<1>2. PICK t \in torrents' : t.tid = m.tid /\ t.link = link
  BY <1>1
<1> HIDE DEF link
<1> QED BY <1>n, <1>b, <1>2 DEF ClientIds, NamesTorrent
LEMMA StructTids == ASSUME TypeOK, NEW m \in Structs PROVE m.tid \in Nat
<1>1. \A n \in Media : n.tid \in Nat
  BY DEF Media, Struct
<1>2. \A q \in Requests : req[q].media.tid \in Nat
  BY DEF TypeOK, Req, Struct
<1>3. \A w \in Workers : mon[w].snap \subseteq Media
  BY DEF TypeOK, Mon
<1>4. \A c \in checks : c.media \in Media
  BY DEF TypeOK, Check
<1>5. rows \subseteq Media
  BY DEF TypeOK
<1> QED BY <1>1, <1>2, <1>3, <1>4, <1>5 DEF Structs, HeldMedia

\* Every struct names its own book's torrent, however the client adds and drops
\* torrents (DownloadMedia, TorrentAddFileDownloadDir, TorrentFileToMagnet).
LEMMA TorrentOfBookStep ==
    ASSUME MonitorInv, TorrentOfBook, [Next]_vars, NoRenumbering
    PROVE  TorrentOfBook'
<1>t. TypeOK /\ TypeOK'
  BY TypeStep DEF MonitorInv
<1>n. \A n \in Structs : NamesTorrent(n)
  BY DEF TorrentOfBook, Structs, NamesTorrent
<1>1. ASSUME NEW m \in Structs' PROVE NamesTorrent(m)'
  <2>1. ASSUME NEW n \in Structs, m.book = n.book, m.tid = n.tid PROVE NamesTorrent(m)'
    BY <1>t, <1>n, <2>1, StructTids, NamedTorrentStays
  <2>2. CASE m.tid = 0
    BY <1>t, <2>2 DEF NamesTorrent, TypeOK, Torrent
  <2>3. ASSUME NEW q \in Requests, Sends(q, m) PROVE NamesTorrent(m)'
    BY <2>3, SentNamesTorrent
  <2> QED BY <2>1, <2>2, <2>3, StructChange DEF Copies
<1> QED BY <1>1 DEF TorrentOfBook, Structs, NamesTorrent

\* Nothing is taken out of the library.
LEMMA LibraryGrows == ASSUME [Next]_vars PROVE library \subseteq library'
<1>1. ASSUME NEW w \in Workers, Monitor(w) PROVE UNCHANGED library
  BY <1>1 DEF Monitor, StartMonitor, VerifyClient, Load, PollOk, PollFails, Wait, Release
<1>2. ASSUME NEW c \in checks, CheckDownload(c) PROVE library \subseteq library'
  BY <1>2 DEF CheckDownload, FinalizeOk, FinalizeFails, GiveUp, StillDownloading, SaveChecked
<1> QED
  BY <1>1, <1>2 DEF Next, Rpc, Handler, Boot, Crash, AddMedia, Retry, DeleteMedia, EditMedia,
         Prepare, Send, SaveMedia, EditFailed, Environment, vars, serviceVars

\* A check is of its book's torrent, and its outcome says what was placed.
LEMMA CheckedStep ==
    ASSUME MonitorInv, TorrentOfBook, CheckedIsPlaced, [Next]_vars
    PROVE  CheckedIsPlaced'
<1> SUFFICES ASSUME NEW d \in checks'
             PROVE  /\ d.link = LinkOf[d.media.book]
                    /\ d.media.status = "Completed" => <<d.media.book, d.link>> \in library'
  BY DEF CheckedIsPlaced
<1>1. ASSUME NEW c \in checks, Resumes(c, d)
      PROVE  /\ d.link = LinkOf[d.media.book]
             /\ d.media.status = "Completed" => <<d.media.book, d.link>> \in library'
  BY <1>1, LibraryGrows DEF Resumes, CheckedIsPlaced
<1>2. ASSUME NEW w \in Workers, NEW m \in mon[w].snap, NEW t \in torrents,
             m.tid = t.tid, d = CheckOf(w, m, t)
      PROVE  d.link = LinkOf[d.media.book] /\ d.media.status # "Completed"
  <2>1. m \in HeldMedia
    BY DEF HeldMedia
  <2>2. t.link = LinkOf[m.book]
    BY <1>2, <2>1 DEF TorrentOfBook
  <2>3. m.status = "Downloading"
    BY DEF MonitorInv, SnapIds
  <2> QED BY <1>2, <2>2, <2>3 DEF CheckOf
<1> QED BY <1>1, <1>2, CheckChange

\* Only the check that placed the files writes Completed.
LEMMA CompletedStep ==
    ASSUME MonitorInv, CheckedIsPlaced, CompletedIsPlaced, [Next]_vars
    PROVE  CompletedIsPlaced'
<1> SUFFICES ASSUME NEW r \in rows', r.status = "Completed"
             PROVE  <<r.book, LinkOf[r.book]>> \in library'
  BY DEF CompletedIsPlaced
<1>1. CASE r \in rows
  BY <1>1, LibraryGrows DEF CompletedIsPlaced
<1>2. CASE UNCHANGED storeVars
  BY <1>1, <1>2 DEF storeVars
<1>3. ASSUME NEW m \in Media, Inserts(m), r \notin rows PROVE FALSE
  <2>1. m.status # "Completed"
    BY <1>3 DEF Inserts
  <2> QED BY <1>3, <2>1, Inserted
<1>4. ASSUME NEW q \in Requests, Retries(q), r \notin rows PROVE FALSE
  BY <1>4 DEF Retries, Save, Numbered
<1>5. ASSUME NEW c \in checks, Checks(c), r \notin rows
      PROVE  <<r.book, LinkOf[r.book]>> \in library'
  <2>1. c.media.id # 0
    BY HeldIds
  <2>2. r = c.media
    BY <1>5, <2>1 DEF Checks, Save, Numbered
  <2>3. library' = library
    BY <1>5 DEF Checks
  <2> QED BY <2>2, <2>3 DEF CheckedIsPlaced
<1>6. ASSUME NEW m \in rows, Deletes(m) PROVE r \in rows
  BY <1>6 DEF Deletes, Delete
<1> QED BY <1>1, <1>2, <1>3, <1>4, <1>5, <1>6, RowStep

LEMMA PlacedInit == Init => PlacedInv
<1>1. Init => TorrentOfBook /\ CheckedIsPlaced /\ CompletedIsPlaced
  BY DEF Init, StoreInit, ClientInit, TorrentOfBook, CheckedIsPlaced, CompletedIsPlaced,
         HeldMedia, IdleReq, NoMedia, OffMon
<1> QED BY <1>1, BooksInit DEF PlacedInv

LEMMA PlacedInductive == NoRenumbering /\ PlacedInv /\ [Next]_vars => PlacedInv'
BY BooksInductive, TorrentOfBookStep, CheckedStep, CompletedStep
   DEF PlacedInv, BooksInv, LifecycleInv

\* A row that says Completed has its own book's files in the library
\* (checkDownload, finalizeDownload), unless transmission numbers its torrents
\* anew while Gouda keeps the old numbers.
THEOREM CompletedRowsArePlaced == NoRenumbering => (Spec => []CompletedIsPlaced)
<1> SUFFICES ASSUME NoRenumbering PROVE Spec => []CompletedIsPlaced
  OBVIOUS
<1>1. PlacedInv => CompletedIsPlaced
  BY DEF PlacedInv
<1>2. PlacedInv /\ [Next]_vars => PlacedInv'
  BY PlacedInductive
<1> QED BY <1>1, <1>2, PlacedInit, PTL DEF Spec
-----------------------------------------------------------------------------
\* Downloads implements MediaLifecycle.

status == [i \in 1..MaxId |-> StatusOf(i)]

\* The status of an id is that of its row, which is the only one.
LEMMA RowStatus ==
    ASSUME RowIds
    PROVE  /\ \A r \in rows : StatusOf(r.id) = r.status
           /\ \A i : (\A r \in rows : r.id # i) => StatusOf(i) = "None"
BY DEF RowIds, StatusOf

LEMMA RowStatusNext ==
    ASSUME RowIds'
    PROVE  /\ \A r \in rows' : StatusOf(r.id)' = r.status
           /\ \A i : (\A r \in rows' : r.id # i) => StatusOf(i)' = "None"
<1>1. ASSUME NEW r \in rows' PROVE StatusOf(r.id)' = r.status
  BY <1>1 DEF RowIds, StatusOf
<1>2. ASSUME NEW i, \A r \in rows' : r.id # i PROVE StatusOf(i)' = "None"
  BY <1>2 DEF StatusOf
<1> QED BY <1>1, <1>2

\* A row that is saved moves its own id and no other.
LEMMA SavedStatus ==
    ASSUME RowIds, RowIds', NEW n, n.id \in 1..MaxId,
           rows' = {r \in rows : r.id # n.id} \cup {n}
    PROVE  status' = [status EXCEPT ![n.id] = n.status]
<1>1. StatusOf(n.id)' = n.status
  BY RowStatusNext
<1>2. ASSUME NEW i \in 1..MaxId, i # n.id PROVE StatusOf(i)' = StatusOf(i)
  <2>1. ASSUME NEW r \in rows, r.id = i PROVE StatusOf(i)' = StatusOf(i)
    <3>1. r \in rows'
      BY <1>2, <2>1
    <3> QED BY <2>1, <3>1, RowStatus, RowStatusNext
  <2>2. CASE \A r \in rows : r.id # i
    BY <1>2, <2>2, RowStatus, RowStatusNext
  <2> QED BY <2>1, <2>2
<1> QED BY <1>1, <1>2 DEF status

\* A row that is deleted leaves its id without one.
LEMMA DeletedStatus ==
    ASSUME RowIds, RowIds', NEW d \in 1..MaxId, rows' = {r \in rows : r.id # d}
    PROVE  status' = [status EXCEPT ![d] = "None"]
<1>1. StatusOf(d)' = "None"
  BY RowStatusNext
<1>2. ASSUME NEW i \in 1..MaxId, i # d PROVE StatusOf(i)' = StatusOf(i)
  <2>1. ASSUME NEW r \in rows, r.id = i PROVE StatusOf(i)' = StatusOf(i)
    <3>1. r \in rows'
      BY <1>2, <2>1
    <3> QED BY <2>1, <3>1, RowStatus, RowStatusNext
  <2>2. CASE \A r \in rows : r.id # i
    BY <1>2, <2>2, RowStatus, RowStatusNext
  <2> QED BY <2>1, <2>2
<1> QED BY <1>1, <1>2 DEF status

\* Every id has no row, or the status its row can have.
LEMMA StatusType ==
    ASSUME TypeOK, RowIds, NEW i \in 1..MaxId
    PROVE  status[i] \in MediaStatus \cup {"None"}
<1>1. \A r \in rows : r.status \in MediaStatus
  BY DEF TypeOK, Media, Struct
<1>2. status[i] = StatusOf(i)
  BY DEF status
<1> QED BY <1>1, <1>2, RowStatus

\* Every step of the service moves one row as its life cycle allows, or none
\* (db_downloads.go, db_media_manager.go).
LEMMA LifecycleStep ==
    ASSUME LifecycleInv, [Next]_vars
    PROVE  [Lifecycle!Next]_(<<status, lastId>>)
<1>m. MonitorInv /\ StillInProgress /\ TypeOK /\ RowIds
  BY DEF LifecycleInv, MonitorInv
<1>n. RowIds' /\ lastId \in Nat /\ MaxId \in Nat /\ lastId <= MaxId
  BY <1>m, RowIdsStep, StoreAssumption DEF TypeOK
<1> USE DEF Lifecycle!Ids
<1>1. CASE UNCHANGED storeVars
  <2>1. status' = status
    BY <1>1 DEF status, StatusOf, storeVars
  <2> QED BY <1>1, <2>1 DEF storeVars
<1>2. ASSUME NEW m \in Media, Inserts(m) PROVE Lifecycle!New
  <2>1. PICK n : /\ n.id = lastId + 1
                 /\ n.book = m.book /\ n.tid = m.tid /\ n.status = m.status
                 /\ rows' = {s \in rows : s.id # lastId + 1} \cup {n}
                 /\ lastId' = lastId + 1
    BY <1>2, Inserted
  <2>2. lastId < MaxId /\ n.id \in 1..MaxId
    BY <1>n, <1>2, <2>1 DEF Inserts
  <2>3. status' = [status EXCEPT ![lastId + 1] = m.status]
    BY <1>m, <1>n, <2>1, <2>2, SavedStatus
  <2> QED BY <1>2, <2>1, <2>2, <2>3 DEF Inserts, Lifecycle!New, Lifecycle!Create, status
<1>3. ASSUME NEW m, m.id \in 1..lastId, Save(m),
             m.status = "Downloading" \/
                 (m.status \in {"Completed", "Error"} /\ status[m.id] \in {"None", "Downloading"})
      PROVE  Lifecycle!Download(m.id) \/ Lifecycle!Settle(m.id)
  <2>1. m.id \in 1..MaxId /\ m.id # 0 /\ m.id <= lastId
    BY <1>n, <1>3
  <2>2. rows' = {r \in rows : r.id # m.id} \cup {m} /\ lastId' = lastId
    BY <1>3, <2>1 DEF Save, Numbered
  <2>3. status' = [status EXCEPT ![m.id] = m.status]
    BY <1>m, <1>n, <2>1, <2>2, SavedStatus
  <2>4. status[m.id] \in {"None", "Unset", "Downloading", "Completed", "Error"}
    BY <1>m, <2>1, StatusType DEF MediaStatus
  <2> QED BY <1>3, <2>1, <2>2, <2>3, <2>4
          DEF Lifecycle!Download, Lifecycle!Settle, Lifecycle!Moves, status
<1>4. ASSUME NEW q \in Requests, Retries(q)
      PROVE  \E i \in 1..MaxId : Lifecycle!Download(i) \/ Lifecycle!Settle(i)
  <2>1. req[q].media.id \in 1..MaxId
    BY <1>n, <1>4 DEF Retries
  <2> QED BY <1>3, <1>4, <2>1 DEF Retries
<1>5. ASSUME NEW c \in checks, Checks(c)
      PROVE  \E i \in 1..MaxId : Lifecycle!Download(i) \/ Lifecycle!Settle(i)
  <2>1. c.media.id \in 1..lastId /\ c.media.id \in 1..MaxId
    BY <1>m, <1>n, HeldIds
  <2>2. c.media.status \in {"Downloading", "Completed", "Error"}
    BY <1>m DEF MonitorInv, CheckMedia
  <2>3. status[c.media.id] \in {"None", "Downloading"}
    <3>1. status[c.media.id] = StatusOf(c.media.id)
      BY <2>1 DEF status
    <3> QED BY <1>m, <3>1, RowStatus DEF StillInProgress
  <2> QED BY <1>3, <1>5, <2>1, <2>2, <2>3 DEF Checks
<1>6. ASSUME NEW m \in rows, Deletes(m) PROVE \E i \in 1..MaxId : Lifecycle!Delete(i)
  <2>1. m.id \in 1..MaxId /\ m.id <= lastId
    BY <1>m, <1>n, HeldIds
  <2>2. status' = [status EXCEPT ![m.id] = "None"] /\ lastId' = lastId
    BY <1>m, <1>n, <1>6, <2>1, DeletedStatus DEF Deletes, Delete
  <2>3. status[m.id] \in {"Unset", "Downloading", "Completed", "Error"}
    <3>1. status[m.id] = m.status
      BY <1>m, <2>1, RowStatus DEF status
    <3> QED BY <1>m, <3>1 DEF TypeOK, Media, Struct, MediaStatus
  <2> QED BY <2>1, <2>2, <2>3 DEF Lifecycle!Delete, Lifecycle!Moves, status
<1> QED
  BY <1>m, <1>1, <1>2, <1>4, <1>5, <1>6, RowStep DEF Lifecycle!Next

\* Whatever handlers, monitor and checks do, each row lives as MediaLifecycle
\* says: ids are handed out once, Completed and Error come after Downloading, a
\* settled row moves only by being downloaded again.
THEOREM RowsFollowLifecycle == Spec => LifecycleSpec
<1>1. Init => Lifecycle!Init
  BY DEF Init, StoreInit, Lifecycle!Init, Lifecycle!Ids, StatusOf
<1>2. LifecycleInv /\ [Next]_vars => [Lifecycle!Next]_(<<status, lastId>>)
  BY LifecycleStep
<1> QED
  BY <1>1, <1>2, LifecycleInit, LifecycleInductive, PTL
     DEF Spec, LifecycleSpec, Lifecycle!Spec, status
=============================================================================
