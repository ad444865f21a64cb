--------------------------- MODULE DownloadsProofs ---------------------------
(***************************************************************************)
(* Proofs about module Downloads, from the invariants of DownloadsInv.     *)
(***************************************************************************)
EXTENDS DownloadsInv, TLAPS

USE CatalogueAssumption, StoreAssumption, ClientAssumption, DownloadsAssumption

-----------------------------------------------------------------------------
\* The table.

\* Save keeps the table's type and never lowers the last id (gorm's Save).
LEMMA SaveType ==
    ASSUME NEW m \in Media, rows \subseteq Media, lastId \in 0..MaxId,
           IdsLeft(m), Save(m)
    PROVE  /\ rows' \subseteq Media
           /\ lastId' \in 0..MaxId
           /\ lastId <= lastId'
<1>1. Numbered(m) \in Media
  BY DEF Numbered, NewId, IdsLeft, Media, Struct
<1>2. lastId' \in 0..MaxId /\ lastId <= lastId'
  BY <1>1 DEF Save, Numbered, NewId, IdsLeft, Media, Struct
<1> QED BY <1>1, <1>2 DEF Save

\* A torrent the client holds or adds has a number in range (AddTorrent).
LEMMA AddType ==
    ASSUME NEW link \in Links, torrents \subseteq Torrent, lastTid \in 0..MaxTid,
           TidsLeft(link), AddTorrent(link)
    PROVE  /\ torrents' \subseteq Torrent
           /\ lastTid' \in 0..MaxTid
           /\ lastTid <= lastTid'
           /\ AddedTid(link) \in 1..MaxTid
<1>1. CASE Known(link) # {}
  <2>1. PICK t \in Known(link) : t = CHOOSE u \in Known(link) : TRUE
    BY <1>1
  <2> QED BY <1>1, <2>1 DEF AddTorrent, AddedTid, Known, Torrent, clientVars
<1>2. CASE Known(link) = {}
  <2>1. NewTid(link) \in 1..MaxTid
    BY <1>2 DEF NewTid, TidsLeft
  <2>2. [tid |-> NewTid(link), link |-> link, state |-> "downloading"] \in Torrent
    BY <2>1 DEF Torrent, TorrentState
  <2>3. lastTid' \in 0..MaxTid /\ lastTid <= lastTid'
    BY <1>2 DEF AddTorrent, TidsLeft
  <2> QED BY <1>2, <2>1, <2>2, <2>3 DEF AddTorrent, AddedTid
<1> QED BY <1>1, <1>2

\* What the client does on its own keeps its type.
LEMMA ClientNextType ==
    ASSUME torrents \subseteq Torrent, lastTid \in 0..MaxTid, ClientNext
    PROVE  torrents' \subseteq Torrent /\ lastTid' \in 0..MaxTid
<1>1. ASSUME NEW t \in torrents, NEW s \in TorrentState, Becomes(t, s)
      PROVE  torrents' \subseteq Torrent /\ lastTid' \in 0..MaxTid
  BY <1>1 DEF Becomes, Torrent
<1>2. ASSUME NEW t \in torrents, Finish(t) \/ Pause(t) \/ Resume(t) \/ Break(t)
      PROVE  torrents' \subseteq Torrent /\ lastTid' \in 0..MaxTid
  BY <1>1, <1>2 DEF Finish, Pause, Resume, Break, TorrentState
<1>3. ASSUME NEW t \in torrents, Remove(t)
      PROVE  torrents' \subseteq Torrent /\ lastTid' \in 0..MaxTid
  BY <1>3 DEF Remove
<1>4. ASSUME Restart
      PROVE  torrents' \subseteq Torrent /\ lastTid' \in 0..MaxTid
  BY <1>4 DEF Restart, Torrent
<1>5. ASSUME EndSession
      PROVE  torrents' \subseteq Torrent /\ lastTid' \in 0..MaxTid
  BY <1>5 DEF EndSession, torrentVars
<1> QED BY <1>2, <1>3, <1>4, <1>5 DEF ClientNext

\* The client's sessions end, nothing else about them changes.
LEMMA ClientNextSession ==
    ASSUME sid \in BOOLEAN, ClientNext
    PROVE  sid' \in BOOLEAN
<1>1. ASSUME NEW t \in torrents, Finish(t) \/ Pause(t) \/ Resume(t) \/ Break(t) \/ Remove(t)
      PROVE  sid' = sid
  BY <1>1 DEF Finish, Pause, Resume, Break, Becomes, Remove
<1>2. CASE Restart
  BY <1>2 DEF Restart
<1>3. CASE EndSession
  BY <1>3, Zenon DEF EndSession
<1> QED BY <1>1, <1>2, <1>3 DEF ClientNext

-----------------------------------------------------------------------------
\* Where the goroutines in startMonitor are, and the token.

\* The steps of one goroutine in startMonitor.
LEMMA MonStep ==
    ASSUME mon \in [Workers -> Mon],
           NEW w \in Workers,
           \/ Spawn(w)
           \/ \E pc \in MonPc : Goto(w, pc)
    PROVE  /\ mon' \in [Workers -> Mon]
           /\ \A v \in Workers : v # w => mon'[v] = mon[v]
           /\ mon'[w].snap = mon[w].snap
BY DEF Spawn, Goto, Mon, MonPc

\* One goroutine at most is past the select of startMonitor.
LEMMA OneMonitorStep == TypeOK /\ OneMonitor /\ [Next]_vars => OneMonitor'
<1> SUFFICES ASSUME TypeOK, OneMonitor, [Next]_vars PROVE OneMonitor'
  OBVIOUS
<1> USE DEF OneMonitor, InLoop
<1>t. mon \in [Workers -> Mon] /\ slot \in 0..1
  BY DEF TypeOK
<1>1. ASSUME NEW w \in Workers, Spawn(w), UNCHANGED slot PROVE OneMonitor'
  BY <1>t, <1>1, MonStep DEF Spawn, Mon
<1>2. ASSUME NEW w \in Workers, NEW pc \in MonPc, Goto(w, pc), UNCHANGED slot,
             InLoop(w), pc \notin {"off", "start"}
      PROVE  OneMonitor'
  BY <1>t, <1>2 DEF Goto, Mon, MonPc
<1>3. CASE UNCHANGED <<mon, slot>>
  BY <1>3
<1>4. CASE Crash
  BY <1>4 DEF Crash, OffMon
<1>5. CASE Boot
  BY <1>1, <1>3, <1>5 DEF Boot
<1>6. ASSUME NEW q \in Requests, SaveMedia(q) PROVE OneMonitor'
  BY <1>1, <1>3, <1>6 DEF SaveMedia
<1>7. ASSUME NEW w \in Workers, StartMonitor(w) PROVE OneMonitor'
  BY <1>t, <1>7 DEF StartMonitor, Goto, Mon
<1>8. ASSUME NEW w \in Workers, VerifyClient(w) \/ Wait(w) PROVE OneMonitor'
  BY <1>2, <1>8 DEF VerifyClient, Wait, MonPc
<1>9. ASSUME NEW w \in Workers, Load(w) \/ PollOk(w) \/ PollFails(w) PROVE OneMonitor'
  BY <1>t, <1>9 DEF Load, PollOk, PollFails, Goto, Mon
<1>10. ASSUME NEW w \in Workers, Release(w) PROVE OneMonitor'
  BY <1>t, <1>10 DEF Release, Goto, Mon
<1> QED
  BY <1>3, <1>4, <1>5, <1>6, <1>7, <1>8, <1>9, <1>10
     DEF Next, vars, serviceVars, Rpc, Handler, Monitor, CheckDownload, Environment,
         AddMedia, Retry, DeleteMedia, EditMedia, Prepare, Send, EditFailed,
         FinalizeOk, FinalizeFails, GiveUp, StillDownloading, SaveChecked

\* Types of all variables, by action.
LEMMA TypeStep == MonitorInv /\ [Next]_vars => TypeOK'
<1> SUFFICES ASSUME MonitorInv, [Next]_vars PROVE TypeOK'
  OBVIOUS
<1> USE DEF TypeOK
<1>t. TypeOK
  BY DEF MonitorInv
<1>i. IdleReq \in Req /\ OffMon \in Mon /\ NoMedia \in Struct
  BY DEF IdleReq, OffMon, NoMedia, Req, Mon, ReqPc, MonPc, Struct, MediaStatus
<1>b. ASSUME NEW b \in Books PROVE [NoMedia EXCEPT !.book = b] \in Media
  BY <1>b DEF NoMedia, Media, Struct, MediaStatus
<1>m. ASSUME NEW q \in Requests, req[q].pc # "idle" PROVE req[q].media \in Media
  BY <1>m DEF MonitorInv, HandlersHoldMedia, Active
<1>q. ASSUME NEW q \in Requests, NEW pc \in ReqPc, NEW m \in Struct, Step(q, pc, m)
      PROVE  req' \in [Requests -> Req]
  BY <1>t, <1>q DEF Step, Req
<1>f. ASSUME NEW q \in Requests, Failed(q) PROVE req' \in [Requests -> Req]
  <2>1. [req[q].media EXCEPT !.status = "Error"] \in Struct
    BY <1>t DEF Req, Struct, MediaStatus
  <2>2. CASE req[q].kind = "add"
    BY <1>q, <1>f, <2>1, <2>2 DEF Failed, ReqPc
  <2>3. CASE req[q].kind # "add"
    BY <1>t, <1>i, <1>f, <2>3 DEF Failed
  <2> QED BY <2>2, <2>3
<1>s. ASSUME NEW m \in Media, IdsLeft(m), Save(m)
      PROVE  rows' \subseteq Media /\ lastId' \in 0..MaxId
  BY <1>t, <1>s, SaveType
<1>c. ASSUME Connect \/ ConnectFails
      PROVE  /\ torrents' \subseteq Torrent /\ lastTid' \in 0..MaxTid /\ sid' \in BOOLEAN
             /\ connected' \in BOOLEAN
  <2>1. torrents' = torrents /\ lastTid' = lastTid
    BY <1>c DEF Connect, ConnectFails, Login, torrentVars, clientVars
  <2>2. sid' = sid \/ sid' = TRUE
    BY <1>c DEF Connect, ConnectFails, Login, clientVars
  <2>3. sid' \in BOOLEAN
    BY <1>t, <2>2, Zenon
  <2>4. connected' = connected \/ connected' = TRUE
    BY <1>c DEF Connect, ConnectFails
  <2>5. connected' \in BOOLEAN
    BY <1>t, <2>4, Zenon
  <2> QED BY <1>t, <2>1, <2>3, <2>5
<1>1. CASE Boot
  <2>1. mon' \in [Workers -> Mon]
    BY <1>t, <1>1, MonStep DEF Boot
  <2>2. CASE Connect
    BY <1>t, <1>1, <1>c, <2>1, <2>2 DEF Boot, storeVars
  <2>3. CASE UNCHANGED <<clientVars, connected>>
    BY <1>t, <1>1, <2>1, <2>3 DEF Boot, storeVars, clientVars
  <2> QED BY <1>1, <2>2, <2>3 DEF Boot
<1>2. CASE Crash
  <2>1. /\ req' \in [Requests -> Req] /\ mon' \in [Workers -> Mon]
        /\ checks' \subseteq Check
    BY <1>i, <1>2 DEF Crash
  <2>2. crashes' \in 0..MaxCrashes
    BY <1>t, <1>2 DEF Crash
  <2>3. up' \in BOOLEAN /\ connected' \in BOOLEAN
    BY <1>2, Zenon DEF Crash
  <2>4. slot' \in 0..1
    BY <1>2 DEF Crash
  <2> QED BY <1>t, <2>1, <2>2, <2>3, <2>4, <1>2 DEF Crash, storeVars, clientVars
<1>3. ASSUME NEW q \in Requests, NEW b \in Books, AddMedia(q, b) PROVE TypeOK'
  <2>1. [NoMedia EXCEPT !.book = b] \in Struct
    BY <1>b DEF Media
  <2> QED BY <1>t, <2>1, <1>3 DEF AddMedia, Called, storeVars, clientVars, Req, ReqPc
<1>4. ASSUME NEW q \in Requests, NEW m \in rows, Retry(q, m) PROVE TypeOK'
  <2>1. m \in Struct
    BY <1>t DEF Media
  <2> QED BY <1>t, <2>1, <1>4 DEF Retry, Called, storeVars, clientVars, Req, ReqPc
<1>5. ASSUME NEW q \in Requests, Prepare(q) PROVE TypeOK'
  <2>1. req[q].media \in Struct
    BY <1>t DEF Req
  <2>2. req' \in [Requests -> Req]
    BY <1>f, <1>q, <1>5, <2>1 DEF Prepare, ReqPc
  <2>3. Connect \/ ConnectFails
    BY <1>5 DEF Prepare
  <2> QED BY <1>t, <1>c, <2>2, <2>3, <1>5 DEF Prepare, storeVars
<1>6. ASSUME NEW q \in Requests, Send(q) PROVE TypeOK'
  <2> DEFINE link == LinkOf[req[q].media.book]
  <2>1. link \in Links
    BY <1>m, <1>6 DEF Send, Media
  <2>2. torrents' \subseteq Torrent /\ lastTid' \in 0..MaxTid
    BY <1>t, <2>1, <1>6, AddType DEF Send, clientVars
  <2>3. req' \in [Requests -> Req]
    <3>1. CASE Failed(q)
      BY <1>f, <3>1
    <3> DEFINE sent == [req[q].media EXCEPT !.tid = AddedTid(link), !.status = "Downloading"]
    <3>2. CASE TidsLeft(link) /\ AddTorrent(link) /\ Step(q, "save", sent)
      <4>1. AddedTid(link) \in 0..MaxTid
        BY <1>t, <2>1, <3>2, AddType
      <4>2. sent \in Struct
        <5>1. req[q].media \in Struct
          BY <1>t DEF Req
        <5> HIDE DEF link
        <5> QED BY <4>1, <5>1 DEF Struct, MediaStatus
      <4> HIDE DEF sent
      <4> QED BY <1>q, <3>2, <4>2 DEF ReqPc
    <3> QED BY <1>6, <3>1, <3>2 DEF Send
  <2>4. sid' = sid
    BY <1>6 DEF Send, AddTorrent, clientVars
  <2> QED BY <1>t, <2>2, <2>3, <2>4, <1>6 DEF Send, storeVars
<1>7. ASSUME NEW q \in Requests, SaveMedia(q) PROVE TypeOK'
  <2>1. rows' \subseteq Media /\ lastId' \in 0..MaxId
    BY <1>t, <1>m, <1>s, <1>7 DEF SaveMedia, storeVars
  <2>2. req' \in [Requests -> Req] /\ mon' \in [Workers -> Mon]
    BY <1>t, <1>i, <1>f, <1>7, MonStep DEF SaveMedia
  <2> QED BY <1>t, <2>1, <2>2, <1>7 DEF SaveMedia, clientVars
<1>8. ASSUME NEW q \in Requests, EditFailed(q) PROVE TypeOK'
  <2>1. rows' \subseteq Media /\ lastId' \in 0..MaxId
    BY <1>t, <1>m, <1>s, <1>8 DEF EditFailed, storeVars
  <2> QED BY <1>t, <1>i, <2>1, <1>8 DEF EditFailed, clientVars
<1>9. ASSUME NEW m \in rows, DeleteMedia(m) PROVE TypeOK'
  BY <1>t, <1>9 DEF DeleteMedia, Delete, Called, clientVars
<1>10. ASSUME NEW b \in Books, EditMedia(b) PROVE TypeOK'
  <2>1. rows' \subseteq Media /\ lastId' \in 0..MaxId
    BY <1>t, <1>b, <1>s, <1>10 DEF EditMedia, storeVars
  <2> QED BY <1>t, <2>1, <1>10 DEF EditMedia, Called, clientVars
<1>11. ASSUME NEW w \in Workers, StartMonitor(w) \/ VerifyClient(w) \/ Wait(w) PROVE TypeOK'
  <2>1. mon' \in [Workers -> Mon]
    <3>1. \E pc \in MonPc : Goto(w, pc)
      BY <1>11 DEF StartMonitor, VerifyClient, Wait, MonPc
    <3> QED BY <1>t, <3>1, MonStep
  <2>2. slot' \in 0..1
    BY <1>t, <1>11 DEF StartMonitor, VerifyClient, Wait
  <2>3. CASE UNCHANGED <<clientVars, connected>>
    BY <1>t, <1>11, <2>1, <2>2, <2>3 DEF StartMonitor, VerifyClient, Wait, storeVars, clientVars
  <2>4. CASE Connect \/ ConnectFails
    BY <1>t, <1>c, <1>11, <2>1, <2>2, <2>4 DEF StartMonitor, VerifyClient, Wait, storeVars
  <2> QED BY <2>3, <2>4, <1>11 DEF StartMonitor, VerifyClient, Wait
<1>12. ASSUME NEW w \in Workers, Load(w) PROVE TypeOK'
  <2>1. DownloadingMedia \subseteq Media
    BY <1>t DEF DownloadingMedia, DownloadingRows
  <2>2. mon' \in [Workers -> Mon]
    BY <1>t, <2>1, <1>12, MonStep DEF Load, Mon, MonPc
  <2> QED BY <1>t, <2>2, <1>12 DEF Load, storeVars, clientVars
<1>13. ASSUME NEW w \in Workers, PollOk(w) PROVE TypeOK'
  <2>1. ASSUME NEW t \in torrents, NEW m \in mon[w].snap
        PROVE  CheckOf(w, m, t) \in Check
    <3>1. m \in Media /\ t.link \in Links
      BY <1>t DEF Mon, Torrent
    <3>2. ParsedStatus(t) \in {"Complete", "Error", "Downloading"}
      BY DEF ParsedStatus
    <3> QED BY <3>1, <3>2 DEF CheckOf, Check
  <2>2. checks' \subseteq Check
    BY <1>t, <2>1, <1>13 DEF PollOk, ChecksFor, Reported
  <2> QED BY <1>t, <2>2, <1>13 DEF PollOk, storeVars, clientVars, Mon, MonPc
<1>14. ASSUME NEW w \in Workers, PollFails(w) PROVE TypeOK'
  BY <1>t, <1>14 DEF PollFails, storeVars, clientVars, Mon, MonPc
<1>15. ASSUME NEW w \in Workers, Release(w) PROVE TypeOK'
  <2>1. slot = 1
    BY <1>t, <1>15 DEF Release, MonitorInv, OneMonitor, InLoop
  <2> QED BY <1>t, <2>1, <1>15, MonStep DEF Release, storeVars, clientVars, MonPc
<1>16. ASSUME NEW c \in checks, NEW s \in MediaStatus, Outcome(c, s)
       PROVE  checks' \subseteq Check
  <2>1. [c EXCEPT !.pc = "save", !.media.status = s] \in Check
    BY <1>t DEF Check, Media, Struct
  <2> QED BY <1>t, <2>1, <1>16 DEF Outcome
<1>17. ASSUME NEW c \in checks, FinalizeOk(c) PROVE TypeOK'
  <2>1. <<c.media.book, c.link>> \in Books \X Links
    BY <1>t DEF Check, Media
  <2> QED BY <1>t, <2>1, <1>16, <1>17 DEF FinalizeOk, MediaStatus, storeVars, clientVars
<1>18. ASSUME NEW c \in checks, FinalizeFails(c) \/ GiveUp(c) \/ StillDownloading(c)
       PROVE  TypeOK'
  <2>1. c.media.status \in MediaStatus
    BY <1>t DEF Check, Media, Struct
  <2> QED
    BY <1>t, <2>1, <1>16, <1>18
       DEF FinalizeFails, GiveUp, StillDownloading, MediaStatus, storeVars, clientVars
<1>19. ASSUME NEW c \in checks, SaveChecked(c) PROVE TypeOK'
  <2>1. c.media \in Media /\ IdsLeft(c.media)
    BY <1>t DEF Check, IdsLeft, MonitorInv, CheckMedia
  <2>2. rows' \subseteq Media /\ lastId' \in 0..MaxId
    BY <1>t, <1>s, <2>1, <1>19 DEF SaveChecked, storeVars
  <2> QED BY <1>t, <2>2, <1>19 DEF SaveChecked, clientVars
<1>20. CASE Environment
  BY <1>t, <1>20, ClientNextType, ClientNextSession DEF Environment, storeVars, serviceVars
<1>21. CASE UNCHANGED vars
  BY <1>t, <1>21 DEF vars, storeVars, clientVars, serviceVars
<1> QED
  BY <1>1, <1>2, <1>3, <1>4, <1>5, <1>6, <1>7, <1>8, <1>9, <1>10, <1>11, <1>12, <1>13,
     <1>14, <1>15, <1>17, <1>18, <1>19, <1>20, <1>21
     DEF Next, Rpc, Handler, Monitor, CheckDownload

-----------------------------------------------------------------------------
\* The table and its ids.

\* Every step leaves the table alone, saves one storable struct or deletes one
\* row (db_downloads.go, db_media_manager.go).
LEMMA StoreStep ==
    ASSUME MonitorInv, [Next]_vars
    PROVE  \/ UNCHANGED storeVars
           \/ \E m \in Media : /\ IdsLeft(m) /\ Storable(m) /\ Save(m)
                               /\ m.id \in 0..lastId
           \/ \E m \in rows : Delete(m.id)
<1> DEFINE Saves == \E m \in Media : /\ IdsLeft(m) /\ Storable(m) /\ Save(m)
                                     /\ m.id \in 0..lastId
<1>t. TypeOK
  BY DEF MonitorInv
<1>1. ASSUME NEW q \in Requests, SaveMedia(q) \/ EditFailed(q)
      PROVE  UNCHANGED storeVars \/ Saves
  <2>1. req[q].media \in Media /\ req[q].media.id \in 0..lastId
    BY <1>1 DEF MonitorInv, HandlersHoldMedia, Active, SaveMedia, EditFailed, Media, Struct
  <2> QED BY <1>1, <2>1 DEF SaveMedia, EditFailed
<1>2. ASSUME NEW b \in Books, EditMedia(b) PROVE UNCHANGED storeVars \/ Saves
  <2> DEFINE m == [NoMedia EXCEPT !.book = b]
  <2>1. m \in Media /\ m.id \in 0..lastId
    BY <1>t DEF NoMedia, Media, Struct, MediaStatus, TypeOK
  <2>2. (IdsLeft(m) /\ Storable(m) /\ Save(m)) \/ UNCHANGED storeVars
    BY <1>2 DEF EditMedia
  <2> HIDE DEF m
  <2> QED BY <2>1, <2>2
<1>3. ASSUME NEW c \in checks, SaveChecked(c) PROVE UNCHANGED storeVars \/ Saves
  <2>1. c.media \in Media /\ c.media.id \in 0..lastId /\ c.media.id # 0
    BY <1>t DEF MonitorInv, CheckMedia, TypeOK, Check
  <2> QED BY <1>3, <2>1 DEF SaveChecked, IdsLeft
<1>4. ASSUME NEW m \in rows, DeleteMedia(m) PROVE Delete(m.id)
  BY <1>4 DEF DeleteMedia
<1>5. ASSUME NEW w \in Workers, Monitor(w) PROVE UNCHANGED storeVars
  BY <1>5 DEF Monitor, StartMonitor, VerifyClient, Load, PollOk, PollFails, Wait, Release
<1>6. ASSUME NEW c \in checks, CheckDownload(c), ~SaveChecked(c) PROVE UNCHANGED storeVars
  BY <1>6 DEF CheckDownload, FinalizeOk, FinalizeFails, GiveUp, StillDownloading
<1> QED
  BY <1>1, <1>2, <1>3, <1>4, <1>5, <1>6
     DEF Next, Rpc, Handler, Boot, Crash, AddMedia, Retry, Prepare, Send, Environment, vars

\* Ids in the table stay unique, and below the next one to be given out.
LEMMA RowIdsStep ==
    ASSUME MonitorInv, [Next]_vars
    PROVE  RowIds' /\ lastId <= lastId'
<1>t. TypeOK /\ RowIds
  BY DEF MonitorInv
<1>1. ASSUME NEW m \in Media, IdsLeft(m), Save(m), m.id \in 0..lastId
      PROVE  RowIds' /\ lastId <= lastId'
  <2>1. Numbered(m).id \in 1..lastId' /\ lastId' \in Nat /\ lastId <= lastId'
    BY <1>t, <1>1 DEF Save, Numbered, NewId, TypeOK, Media, Struct
  <2>2. rows' = {r \in rows : r.id # Numbered(m).id} \cup {Numbered(m)}
    BY <1>1 DEF Save
  <2> QED BY <1>t, <2>1, <2>2 DEF RowIds, TypeOK
<1>2. ASSUME NEW m \in rows, Delete(m.id) PROVE RowIds' /\ lastId <= lastId'
  BY <1>t, <1>2 DEF Delete, RowIds, TypeOK
<1>3. CASE UNCHANGED storeVars
  BY <1>t, <1>3 DEF storeVars, RowIds, TypeOK
<1> QED BY <1>1, <1>2, <1>3, StoreStep

-----------------------------------------------------------------------------
\* What handlers hold.

\* A handler's struct names a book, and has an id exactly in a Retry.
LEMMA HandlersStep ==
    ASSUME MonitorInv, [Next]_vars, TypeOK'
    PROVE  HandlersHoldMedia'
<1>t. TypeOK /\ HandlersHoldMedia /\ RowIds
  BY DEF MonitorInv
<1>g. lastId <= lastId' /\ lastId \in Nat /\ lastId' \in Nat
  BY <1>t, RowIdsStep DEF TypeOK
<1> DEFINE Holds(r, n) ==
      r.pc # "idle" =>
        /\ r.media \in Media
        /\ r.media.id <= n
        /\ (r.kind = "add" <=> r.media.id = 0)
        /\ r.pc = "save" => r.media.status = "Downloading"
        /\ r.pc = "edit" => r.kind = "add" /\ r.media.status = "Error"
<1>h. \A q \in Requests : Holds(req[q], lastId)
  BY <1>t DEF HandlersHoldMedia, Active
<1>k. \A q \in Requests : Holds(req[q], lastId')
  <2> SUFFICES ASSUME NEW q \in Requests, req[q].pc # "idle"
               PROVE  req[q].media.id <= lastId'
    BY <1>h
  <2>1. req[q].media.id \in Nat /\ req[q].media.id <= lastId
    BY <1>h DEF Media, Struct
  <2> QED BY <1>g, <2>1
<1>1. SUFFICES \A q \in Requests : Holds(req'[q], lastId')
  BY DEF HandlersHoldMedia, Active
<1>2. ASSUME NEW q \in Requests, NEW r, Holds(r, lastId'), req' = [req EXCEPT ![q] = r]
      PROVE  \A p \in Requests : Holds(req'[p], lastId')
  BY <1>t, <1>k, <1>2 DEF TypeOK
<1> HIDE DEF Holds
<1>3. Holds(IdleReq, lastId')
  BY DEF Holds, IdleReq
<1>4. ASSUME NEW q \in Requests, req[q].pc # "idle", Failed(q)
      PROVE  \A p \in Requests : Holds(req'[p], lastId')
  <2>2. CASE req[q].kind = "add"
    <3> DEFINE marked == [req[q].media EXCEPT !.status = "Error"]
    <3>1. marked \in Media /\ marked.id = 0 /\ marked.status = "Error"
      BY <1>k, <1>4, <2>2 DEF Holds, Media, Struct, MediaStatus
    <3> HIDE DEF marked
    <3>2. Holds([pc |-> "edit", kind |-> "add", media |-> marked], lastId')
      BY <1>g, <3>1 DEF Holds
    <3> QED BY <1>2, <1>4, <2>2, <3>2 DEF Failed, Step, marked
  <2>3. CASE req[q].kind # "add"
    BY <1>2, <1>3, <1>4, <2>3 DEF Failed
  <2> QED BY <2>2, <2>3
<1>5. ASSUME NEW q \in Requests, NEW b \in Books, AddMedia(q, b)
      PROVE  \A p \in Requests : Holds(req'[p], lastId')
  <2> DEFINE m == [NoMedia EXCEPT !.book = b]
  <2>1. m \in Media /\ m.id = 0
    BY DEF NoMedia, Media, Struct, MediaStatus
  <2> HIDE DEF m
  <2>2. Holds([pc |-> "prepare", kind |-> "add", media |-> m], lastId')
    BY <1>g, <2>1 DEF Holds
  <2> QED BY <1>2, <1>5, <2>2 DEF AddMedia, m
<1>6. ASSUME NEW q \in Requests, NEW m \in rows, Retry(q, m)
      PROVE  \A p \in Requests : Holds(req'[p], lastId')
  <2>1. m \in Media /\ m.id \in Nat /\ m.id # 0 /\ m.id <= lastId'
    BY <1>t, <1>g DEF TypeOK, RowIds
  <2>2. Holds([pc |-> "prepare", kind |-> "retry", media |-> m], lastId')
    BY <2>1 DEF Holds
  <2> QED BY <1>2, <1>6, <2>2 DEF Retry
<1>7. ASSUME NEW q \in Requests, Prepare(q)
      PROVE  \A p \in Requests : Holds(req'[p], lastId')
  <2>1. Holds([pc |-> "send", kind |-> req[q].kind, media |-> req[q].media], lastId')
    BY <1>k, <1>7 DEF Holds, Prepare
  <2> QED BY <1>2, <1>4, <1>7, <2>1 DEF Prepare, Step
<1>8. ASSUME NEW q \in Requests, Send(q)
      PROVE  \A p \in Requests : Holds(req'[p], lastId')
  <2> DEFINE link == LinkOf[req[q].media.book]
             sent == [req[q].media EXCEPT !.tid = AddedTid(link), !.status = "Downloading"]
  <2>1. CASE Failed(q)
    BY <1>4, <1>8, <2>1 DEF Send
  <2>2. CASE Step(q, "save", sent)
    <3>1. req'[q].media = sent /\ req'[q].media \in Struct
      BY <1>t, <2>2 DEF Step, TypeOK, Req
    <3>2. sent.book = req[q].media.book /\ sent.id = req[q].media.id
          /\ sent.status = "Downloading" /\ req[q].media \in Media
      BY <1>k, <1>8 DEF Holds, Send, Media, Struct
    <3> HIDE DEF sent
    <3>3. sent \in Media
      BY <3>1, <3>2 DEF Media
    <3>4. Holds([pc |-> "save", kind |-> req[q].kind, media |-> sent], lastId')
      BY <1>k, <1>8, <3>2, <3>3 DEF Holds, Send
    <3> QED BY <1>2, <2>2, <3>4 DEF Step
  <2> QED BY <1>8, <2>1, <2>2 DEF Send
<1>9. ASSUME NEW q \in Requests, SaveMedia(q) \/ EditFailed(q)
      PROVE  \A p \in Requests : Holds(req'[p], lastId')
  BY <1>2, <1>3, <1>4, <1>9 DEF SaveMedia, EditFailed
<1>10. CASE Crash
  BY <1>3, <1>10 DEF Crash
<1>11. CASE UNCHANGED req
  BY <1>k, <1>11
<1>12. ASSUME NEW w \in Workers, Monitor(w) PROVE UNCHANGED req
  BY <1>12 DEF Monitor, StartMonitor, VerifyClient, Load, PollOk, PollFails, Wait, Release
<1>13. ASSUME NEW c \in checks, CheckDownload(c) PROVE UNCHANGED req
  BY <1>13 DEF CheckDownload, FinalizeOk, FinalizeFails, GiveUp, StillDownloading, SaveChecked
<1> QED
  BY <1>5, <1>6, <1>7, <1>8, <1>9, <1>10, <1>11, <1>12, <1>13
     DEF Next, Rpc, Handler, Boot, DeleteMedia, EditMedia, Environment, vars, serviceVars

-----------------------------------------------------------------------------
\* What the monitor and its checks hold.

\* Only the monitor on its way from load to poll holds rows, each id once.
LEMMA SnapStep ==
    ASSUME MonitorInv, [Next]_vars, TypeOK'
    PROVE  SnapOnlyToPoll' /\ SnapIds'
<1>t. TypeOK /\ SnapOnlyToPoll /\ SnapIds /\ RowIds
  BY DEF MonitorInv
<1>g. lastId <= lastId' /\ lastId \in Nat /\ lastId' \in Nat
  BY <1>t, RowIdsStep DEF TypeOK
<1> DEFINE Good(r, n) ==
      /\ r.pc # "poll" => r.snap = {}
      /\ \A m \in r.snap :
            /\ m.id \in 1..n
            /\ m.status = "Downloading"
            /\ \A k \in r.snap : m.id = k.id => m = k
<1>k. \A w \in Workers : Good(mon[w], lastId')
  BY <1>t, <1>g DEF SnapOnlyToPoll, SnapIds
<1>1. SUFFICES \A w \in Workers : Good(mon'[w], lastId')
  BY DEF SnapOnlyToPoll, SnapIds
<1>2. ASSUME NEW w \in Workers, NEW pc \in MonPc \ {"poll"}, mon[w].pc # "poll", Goto(w, pc)
      PROVE  \A v \in Workers : Good(mon'[v], lastId')
  BY <1>t, <1>k, <1>2 DEF Goto, TypeOK, Mon
<1>3. ASSUME NEW w \in Workers, Spawn(w) PROVE \A v \in Workers : Good(mon'[v], lastId')
  BY <1>t, <1>k, <1>3 DEF Spawn, TypeOK, Mon
<1>4. ASSUME NEW w \in Workers, NEW r, Good(r, lastId'), mon' = [mon EXCEPT ![w] = r]
      PROVE  \A v \in Workers : Good(mon'[v], lastId')
  BY <1>t, <1>k, <1>4 DEF TypeOK
<1>5. CASE UNCHANGED mon
  BY <1>k, <1>5
<1>6. CASE Crash
  BY <1>6 DEF Crash, OffMon
<1>7. ASSUME NEW w \in Workers, Load(w) PROVE \A v \in Workers : Good(mon'[v], lastId')
  <2>1. Good([pc |-> "poll", snap |-> DownloadingMedia], lastId')
    BY <1>t, <1>g DEF DownloadingMedia, DownloadingRows, RowIds
  <2> HIDE DEF Good
  <2> QED BY <1>2, <1>4, <1>7, <2>1 DEF Load, MonPc
<1>8. ASSUME NEW w \in Workers, PollOk(w) \/ PollFails(w)
      PROVE  \A v \in Workers : Good(mon'[v], lastId')
  <2>1. \A pc \in {"wait", "load"} : Good([pc |-> pc, snap |-> {}], lastId')
    OBVIOUS
  <2> HIDE DEF Good
  <2> QED BY <1>4, <1>8, <2>1 DEF PollOk, PollFails
<1>9. ASSUME NEW w \in Workers, StartMonitor(w) \/ VerifyClient(w) \/ Wait(w) \/ Release(w)
      PROVE  \A v \in Workers : Good(mon'[v], lastId')
  <2>1. \E pc \in MonPc \ {"poll"} : mon[w].pc # "poll" /\ Goto(w, pc)
    BY <1>9 DEF StartMonitor, VerifyClient, Wait, Release, MonPc
  <2> HIDE DEF Good
  <2> QED BY <1>2, <2>1
<1>10. ASSUME NEW c \in checks, CheckDownload(c) PROVE UNCHANGED mon
  BY <1>10 DEF CheckDownload, FinalizeOk, FinalizeFails, GiveUp, StillDownloading, SaveChecked
<1> HIDE DEF Good
<1>11. ASSUME Boot \/ \E q \in Requests : SaveMedia(q)
       PROVE  \A v \in Workers : Good(mon'[v], lastId')
  BY <1>3, <1>5, <1>11 DEF Boot, SaveMedia
<1> QED
  BY <1>5, <1>6, <1>7, <1>8, <1>9, <1>10, <1>11
     DEF Next, Rpc, Handler, Monitor, AddMedia, Retry, DeleteMedia, EditMedia, Prepare, Send,
         EditFailed, Environment, vars, serviceVars

\* Each new check is of a loaded struct and a torrent of its id in the answer.
LEMMA NewCheck ==
    ASSUME NEW w, NEW answer, NEW c \in ChecksFor(w, answer)
    PROVE  \E t \in answer : \E m \in mon[w].snap : m.tid = t.tid /\ c = CheckOf(w, m, t)
BY DEF ChecksFor

\* Every check belongs to the round its monitor waits for.
LEMMA ChecksAwaitedStep ==
    ASSUME MonitorInv, [Next]_vars
    PROVE  ChecksAwaited'
<1>t. TypeOK /\ ChecksAwaited
  BY DEF MonitorInv
<1> USE DEF ChecksAwaited
<1>c. checks \subseteq Check /\ mon \in [Workers -> Mon]
  BY <1>t DEF TypeOK
<1>w. \A c \in checks : c.worker \in Workers
  BY <1>c DEF Check
<1>1. ASSUME NEW w \in Workers, mon[w].pc # "wait" \/ \A c \in checks : c.worker # w,
             NEW r, mon' = [mon EXCEPT ![w] = r], checks' \subseteq checks
      PROVE  ChecksAwaited'
  BY <1>t, <1>c, <1>w, <1>1
<1>2. ASSUME NEW w \in Workers, Spawn(w), UNCHANGED checks PROVE ChecksAwaited'
  BY <1>t, <1>c, <1>w, <1>2 DEF Spawn
<1>3. ASSUME NEW w \in Workers, NEW pc \in MonPc, Goto(w, pc), UNCHANGED checks,
             mon[w].pc # "wait" \/ \A c \in checks : c.worker # w
      PROVE  ChecksAwaited'
  BY <1>t, <1>c, <1>w, <1>3 DEF Goto
<1>4. CASE UNCHANGED <<mon, checks>>
  BY <1>t, <1>4
<1>5. CASE Crash
  BY <1>5 DEF Crash
<1>6. ASSUME NEW w \in Workers, Monitor(w), ~PollOk(w) PROVE ChecksAwaited'
  <2>1. CASE Load(w)
    BY <1>1, <1>3, <2>1 DEF Load, MonPc
  <2>2. CASE PollFails(w)
    BY <1>1, <2>2 DEF PollFails
  <2>3. CASE StartMonitor(w) \/ VerifyClient(w) \/ Wait(w) \/ Release(w)
    <3>1. \E pc \in MonPc : Goto(w, pc) /\ UNCHANGED checks
              /\ (mon[w].pc # "wait" \/ \A c \in checks : c.worker # w)
      BY <2>3 DEF StartMonitor, VerifyClient, Wait, Release, MonPc
    <3> QED BY <1>3, <3>1
  <2> QED BY <1>6, <2>1, <2>2, <2>3 DEF Monitor
<1>7. ASSUME NEW w \in Workers, PollOk(w) PROVE ChecksAwaited'
  <2>1. \A c \in checks' : c \in checks \/ c.worker = w
    BY <1>7, NewCheck DEF PollOk, CheckOf
  <2>2. mon'[w].pc = "wait" /\ mon[w].pc = "poll" /\ \A v \in Workers : v # w => mon'[v] = mon[v]
    BY <1>c, <1>7 DEF PollOk
  <2> QED BY <1>t, <1>w, <2>1, <2>2
<1>8. ASSUME NEW c \in checks, CheckDownload(c) PROVE ChecksAwaited'
  <2>1. UNCHANGED mon /\ \A d \in checks' : \E e \in checks : d.worker = e.worker
    <3>1. ASSUME NEW s, Outcome(c, s)
          PROVE  \A d \in checks' : \E e \in checks : d.worker = e.worker
      <4>1. [c EXCEPT !.pc = "save", !.media.status = s].worker = c.worker
        BY <1>c DEF Check
      <4> QED BY <3>1, <4>1 DEF Outcome
    <3>2. CASE SaveChecked(c)
      BY <3>2 DEF SaveChecked
    <3> QED BY <1>8, <3>1, <3>2
            DEF CheckDownload, FinalizeOk, FinalizeFails, GiveUp, StillDownloading
  <2> QED BY <1>t, <2>1
<1>9. ASSUME Boot \/ \E q \in Requests : SaveMedia(q) PROVE ChecksAwaited'
  BY <1>2, <1>4, <1>9 DEF Boot, SaveMedia
<1> QED
  BY <1>4, <1>5, <1>6, <1>7, <1>8, <1>9
     DEF Next, Rpc, Handler, Monitor, AddMedia, Retry, DeleteMedia, EditMedia, Prepare, Send,
         EditFailed, Environment, vars, serviceVars

\* When a poll is answered no check of an earlier answer is left.
LEMMA PollFindsNoChecks ==
    ASSUME MonitorInv, NEW w \in Workers, mon[w].pc = "poll"
    PROVE  checks = {}
<1> SUFFICES ASSUME NEW c \in checks PROVE FALSE
  OBVIOUS
<1>1. c.worker \in Workers /\ mon[c.worker].pc = "wait"
  BY DEF MonitorInv, TypeOK, Check, ChecksAwaited
<1> QED BY <1>1 DEF MonitorInv, OneMonitor, InLoop

\* Two torrents have two ids (qBittorrent's hashes, transmission's numbers).
LEMMA ClientIdsStep ==
    ASSUME MonitorInv, [Next]_vars
    PROVE  ClientIds'
<1>t. TypeOK /\ ClientIds
  BY DEF MonitorInv
<1> USE DEF ClientIds
<1>1. CASE UNCHANGED torrentVars
  BY <1>t, <1>1 DEF torrentVars
<1>2. ASSUME NEW q \in Requests, Send(q) PROVE ClientIds'
  <2> DEFINE link == LinkOf[req[q].media.book]
             new == [tid |-> NewTid(link), link |-> link, state |-> "downloading"]
  <2>1. CASE UNCHANGED clientVars
    BY <1>1, <2>1 DEF clientVars, torrentVars
  <2>2. CASE /\ Known(link) = {}
             /\ torrents' = torrents \cup {new}
             /\ lastTid' = IF Client = "qbit" THEN lastTid ELSE lastTid + 1
    <3>1. \A t \in torrents : t.tid # new.tid
      BY <1>t, <2>2 DEF NewTid, Known, TypeOK, Torrent
    <3>2. lastTid \in Nat /\ \A t \in torrents : t.tid \in Nat
      BY <1>t DEF TypeOK, Torrent
    <3> QED BY <1>t, <2>2, <3>1, <3>2 DEF NewTid
  <2> QED BY <1>2, <2>1, <2>2 DEF Send, AddTorrent
<1>3. ASSUME NEW t \in torrents, NEW s, Becomes(t, s) PROVE ClientIds'
  <2> DEFINE u == [t EXCEPT !.state = s]
  <2>1. u.tid = t.tid /\ u.link = t.link
    BY <1>t DEF TypeOK, Torrent
  <2>2. torrents' = (torrents \ {t}) \cup {u} /\ lastTid' = lastTid
    BY <1>3 DEF Becomes
  <2> HIDE DEF u
  <2> QED BY <1>t, <2>1, <2>2
<1>4. ASSUME NEW t \in torrents, Remove(t) PROVE ClientIds'
  BY <1>t, <1>4 DEF Remove
<1>5. CASE Restart
  <2>1. PICK n \in 0..MaxTid : \E number \in [torrents -> 1..n] :
            /\ \A s, t \in torrents : number[s] = number[t] => s = t
            /\ torrents' = {[t EXCEPT !.tid = number[t]] : t \in torrents}
            /\ lastTid' = n
    BY <1>5 DEF Restart
  <2>2. PICK number \in [torrents -> 1..n] :
            /\ \A s, t \in torrents : number[s] = number[t] => s = t
            /\ torrents' = {[t EXCEPT !.tid = number[t]] : t \in torrents}
            /\ lastTid' = n
    BY <2>1
  <2> DEFINE u(t) == [t EXCEPT !.tid = number[t]]
  <2>3. \A t \in torrents : u(t).tid = number[t] /\ number[t] \in 1..n
    BY <1>t, <2>2 DEF TypeOK, Torrent
  <2>4. Client # "qbit"
    BY <1>5 DEF Restart
  <2>5. torrents' = {u(t) : t \in torrents} /\ lastTid' = n
    BY <2>2
  <2> HIDE DEF u
  <2>6. \A x \in torrents' : \E t \in torrents : x = u(t)
    BY <2>5
  <2>7. \A x, y \in torrents' : x.tid = y.tid => x = y
    BY <2>2, <2>3, <2>6
  <2>8. \A x \in torrents' : x.tid <= lastTid'
    BY <2>3, <2>5, <2>6
  <2> QED BY <2>4, <2>7, <2>8
<1>6. CASE Environment
  BY <1>1, <1>3, <1>4, <1>5, <1>6
     DEF Environment, ClientNext, Finish, Pause, Resume, Break, EndSession
<1>7. ASSUME Connect \/ ConnectFails \/ UNCHANGED clientVars PROVE ClientIds'
  <2>1. UNCHANGED torrentVars
    BY <1>7 DEF Connect, ConnectFails, Login, clientVars, torrentVars
  <2> QED BY <1>1, <2>1
<1>8. ASSUME NEW w \in Workers, Monitor(w) PROVE Connect \/ ConnectFails \/ UNCHANGED clientVars
  BY <1>8 DEF Monitor, StartMonitor, VerifyClient, Load, PollOk, PollFails, Wait, Release
<1>9. ASSUME NEW c \in checks, CheckDownload(c) PROVE UNCHANGED clientVars
  BY <1>9 DEF CheckDownload, FinalizeOk, FinalizeFails, GiveUp, StillDownloading, SaveChecked
<1>10. CASE Boot \/ \E q \in Requests : Prepare(q)
  BY <1>7, <1>10 DEF Boot, Prepare
<1> QED
  BY <1>2, <1>6, <1>7, <1>8, <1>9, <1>10
     DEF Next, Rpc, Handler, Crash, AddMedia, Retry, DeleteMedia, EditMedia,
         SaveMedia, EditFailed, vars

\* A check holds a stored id and a status that fits where it is.
LEMMA CheckMediaStep ==
    ASSUME MonitorInv, [Next]_vars
    PROVE  CheckMedia'
<1>t. TypeOK /\ CheckMedia /\ SnapIds
  BY DEF MonitorInv
<1>g. lastId <= lastId' /\ lastId \in Nat
  BY <1>t, RowIdsStep DEF TypeOK
<1> DEFINE Good(c, n) ==
      /\ c.media.id \in 1..n
      /\ c.media.status \in {"Downloading", "Completed", "Error"}
      /\ c.pc = "run" => c.media.status = "Downloading"
<1>k. \A c \in checks : Good(c, lastId')
  <2>1. lastId' \in Nat
    BY <1>t, RowIdsStep, StoreStep, TypeStep DEF TypeOK
  <2> QED BY <1>t, <1>g, <2>1 DEF CheckMedia
<1>1. SUFFICES \A c \in checks' : Good(c, lastId')
  BY DEF CheckMedia
<1>2. CASE checks' \subseteq checks
  BY <1>k, <1>2
<1>3. ASSUME NEW c \in checks, c.pc = "run", NEW s \in {"Downloading", "Completed", "Error"},
             Outcome(c, s)
      PROVE  \A d \in checks' : Good(d, lastId')
  <2> DEFINE e == [c EXCEPT !.pc = "save", !.media.status = s]
  <2>1. e.media.id = c.media.id /\ e.media.status = s /\ e.pc = "save"
    BY <1>t DEF TypeOK, Check, Media, Struct
  <2>2. checks' = (checks \ {c}) \cup {e}
    BY <1>3 DEF Outcome
  <2> HIDE DEF e
  <2> QED BY <1>k, <1>3, <2>1, <2>2
<1>4. ASSUME NEW c \in checks, CheckDownload(c), ~SaveChecked(c)
      PROVE  \A d \in checks' : Good(d, lastId')
  <2>1. c.pc = "run" /\ \E s \in {"Downloading", "Completed", "Error"} : Outcome(c, s)
    BY <1>k, <1>4 DEF CheckDownload, FinalizeOk, FinalizeFails, GiveUp, StillDownloading
  <2> HIDE DEF Good
  <2> QED BY <1>3, <2>1
<1>5. ASSUME NEW w \in Workers, PollOk(w) PROVE \A c \in checks' : Good(c, lastId')
  <2>1. \A m \in mon[w].snap : m.id \in 1..lastId' /\ m.status = "Downloading"
    <3>1. lastId' = lastId
      BY <1>5 DEF PollOk, storeVars
    <3> QED BY <1>t, <3>1 DEF SnapIds
  <2>2. \A c \in checks' \ checks : \E m \in mon[w].snap : c.media = m
    BY <1>5, NewCheck DEF PollOk, CheckOf
  <2> QED BY <1>k, <2>1, <2>2
<1>6. ASSUME NEW w \in Workers, Monitor(w), ~PollOk(w) PROVE checks' \subseteq checks
  BY <1>6 DEF Monitor, StartMonitor, VerifyClient, Load, PollFails, Wait, Release
<1>7. ASSUME NEW c \in checks, SaveChecked(c) PROVE checks' \subseteq checks
  BY <1>7 DEF SaveChecked
<1> HIDE DEF Good
<1> QED
  BY <1>2, <1>4, <1>5, <1>6, <1>7
     DEF Next, Rpc, Handler, Boot, Crash, AddMedia, Retry, DeleteMedia, EditMedia, Prepare,
         Send, SaveMedia, EditFailed, Environment, vars, serviceVars

\* No step makes a second check of one row.
LEMMA OneCheckStep ==
    ASSUME MonitorInv, [Next]_vars
    PROVE  OneCheckPerRow'
<1>t. TypeOK /\ OneCheckPerRow /\ SnapIds /\ ClientIds
  BY DEF MonitorInv
<1> USE DEF OneCheckPerRow
<1>2. CASE checks' \subseteq checks
  BY <1>t, <1>2
<1>3. ASSUME NEW c \in checks, NEW s, Outcome(c, s) PROVE OneCheckPerRow'
  <2> DEFINE e == [c EXCEPT !.pc = "save", !.media.status = s]
  <2>1. e.media.id = c.media.id
    BY <1>t DEF TypeOK, Check, Media, Struct
  <2>2. checks' = (checks \ {c}) \cup {e}
    BY <1>3 DEF Outcome
  <2> HIDE DEF e
  <2> QED BY <1>t, <2>1, <2>2
<1>4. ASSUME NEW c \in checks, CheckDownload(c), ~SaveChecked(c) PROVE OneCheckPerRow'
  BY <1>3, <1>4 DEF CheckDownload, FinalizeOk, FinalizeFails, GiveUp, StillDownloading
<1>5. ASSUME NEW w \in Workers, PollOk(w) PROVE OneCheckPerRow'
  <2>1. checks = {}
    BY <1>5, PollFindsNoChecks DEF PollOk
  <2>2. \A c \in checks' : \E t \in torrents : \E m \in mon[w].snap :
            m.tid = t.tid /\ c = CheckOf(w, m, t)
    BY <1>5, <2>1, NewCheck DEF PollOk, Reported
  <2>3. \A m, n \in mon[w].snap : m.id = n.id => m = n
    BY <1>t DEF SnapIds
  <2>4. \A s, t \in torrents : s.tid = t.tid => s = t
    BY <1>t DEF ClientIds
  <2>5. ASSUME NEW c \in checks', NEW d \in checks', c.media.id = d.media.id PROVE c = d
    <3>1. PICK t \in torrents, m \in mon[w].snap : m.tid = t.tid /\ c = CheckOf(w, m, t)
      BY <2>2
    <3>2. PICK u \in torrents, n \in mon[w].snap : n.tid = u.tid /\ d = CheckOf(w, n, u)
      BY <2>2
    <3>3. c.media = m /\ d.media = n
      BY <3>1, <3>2 DEF CheckOf
    <3> QED BY <2>3, <2>4, <2>5, <3>1, <3>2, <3>3
  <2> QED BY <2>5
<1>6. ASSUME NEW w \in Workers, Monitor(w), ~PollOk(w) PROVE checks' \subseteq checks
  BY <1>6 DEF Monitor, StartMonitor, VerifyClient, Load, PollFails, Wait, Release
<1>7. ASSUME NEW c \in checks, SaveChecked(c) PROVE checks' \subseteq checks
  BY <1>7 DEF SaveChecked
<1> QED
  BY <1>2, <1>4, <1>5, <1>6, <1>7
     DEF Next, Rpc, Handler, Boot, Crash, AddMedia, Retry, DeleteMedia, EditMedia, Prepare,
         Send, SaveMedia, EditFailed, Environment, vars, serviceVars

-----------------------------------------------------------------------------
\* Theorems.

LEMMA MonitorInit == Init => MonitorInv
<1> SUFFICES ASSUME Init PROVE MonitorInv
  OBVIOUS
<1>1. IdleReq \in Req /\ OffMon \in Mon
  BY DEF IdleReq, OffMon, NoMedia, Req, Mon, ReqPc, MonPc, Struct, MediaStatus
<1>2. TypeOK
  <2>1. up \in BOOLEAN /\ connected \in BOOLEAN /\ sid \in BOOLEAN
    BY Zenon DEF Init, ClientInit
  <2> QED BY <1>1, <2>1 DEF Init, StoreInit, ClientInit, TypeOK
<1>3. HandlersHoldMedia /\ RowIds /\ SnapIds /\ CheckMedia /\ ClientIds
  BY DEF Init, StoreInit, ClientInit, HandlersHoldMedia, RowIds, SnapIds, CheckMedia,
         ClientIds, Active, IdleReq, OffMon
<1>4. SnapOnlyToPoll /\ ChecksAwaited /\ OneMonitor /\ OneCheckPerRow
  BY DEF Init, SnapOnlyToPoll, ChecksAwaited, OneMonitor, OneCheckPerRow, InLoop, OffMon
<1> QED BY <1>2, <1>3, <1>4 DEF MonitorInv

LEMMA MonitorInductive == MonitorInv /\ [Next]_vars => MonitorInv'
<1> SUFFICES ASSUME MonitorInv, [Next]_vars PROVE MonitorInv'
  OBVIOUS
<1>1. TypeOK'
  BY TypeStep
<1>2. OneMonitor'
  BY OneMonitorStep DEF MonitorInv
<1> QED
  BY <1>1, <1>2, HandlersStep, RowIdsStep, SnapStep, CheckMediaStep, ClientIdsStep,
     ChecksAwaitedStep, OneCheckStep
     DEF MonitorInv

\* The inductive invariant holds in every behaviour, for any number of
\* handlers, goroutines, books, calls and crashes.
THEOREM MonitorCorrect == Spec => []MonitorInv
BY MonitorInit, MonitorInductive, PTL DEF Spec

\* All variables keep their types (service.go, model.go).
THEOREM TypeCorrect == Spec => []TypeOK
<1>1. MonitorInv => TypeOK
  BY DEF MonitorInv
<1> QED BY <1>1, MonitorCorrect, PTL

\* workerChan admits one goroutine to monitorDownloads at a time (startMonitor).
THEOREM OneMonitorAtATime == Spec => []OneMonitor
<1>1. MonitorInv => OneMonitor
  BY DEF MonitorInv
<1> QED BY <1>1, MonitorCorrect, PTL

\* No two checkDownload goroutines hold the same row (monitorDownloads).
THEOREM OneCheckAtATime == Spec => []OneCheckPerRow
<1>1. MonitorInv => OneCheckPerRow
  BY DEF MonitorInv
<1> QED BY <1>1, MonitorCorrect, PTL
=============================================================================
