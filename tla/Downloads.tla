------------------------------ MODULE Downloads ------------------------------
(***************************************************************************)
(* The life of a download: core/internal/downloads/service.go with its     *)
(* callers in core/internal/media_manager.                                 *)
(*                                                                         *)
(* Three kinds of goroutine interleave over the media table, the torrent   *)
(* client and workerChan: RPC handlers (AddMedia, Retry, Delete, Edit),    *)
(* goroutines in startMonitor, and one checkDownload per polled torrent.   *)
(* A crash ends them all and keeps the table, the client and the library.  *)
(***************************************************************************)
EXTENDS MediaStore, TorrentClient

CONSTANTS
    Requests,       \* RPC handlers that may be inside DownloadMedia at once
    Workers,        \* bound: goroutines inside startMonitor at once
    Calls,          \* RPCs this run makes: "add", "retry", "delete", "edit"
    MaxCalls,       \* bound: RPCs in a behaviour
    MaxCrashes,     \* bound: crashes in a behaviour
    Faults,         \* calls that may fail in this run
    IgnoreTimeout   \* Downloader.IgnoreTimeout

ASSUME DownloadsAssumption ==
    /\ MaxCalls \in Nat
    /\ MaxCrashes \in Nat
    /\ IgnoreTimeout \in BOOLEAN

VARIABLES
    up,             \* the process runs
    connected,      \* torrentClient # nil
    slot,           \* items in workerChan
    req,            \* per RPC handler: where it is and the struct it holds
    mon,            \* per goroutine in startMonitor: where it is, what it loaded
    checks,         \* checkDownload goroutines
    library,        \* <<book, link>>: files placed below CompleteDir
    calls, crashes  \* how much of the bounds is used

serviceVars == <<up, connected, slot, req, mon, checks, library, calls, crashes>>
vars == <<storeVars, clientVars, serviceVars>>

NoMedia == [id |-> 0, book |-> 0, status |-> "Unset", tid |-> 0]

ReqPc == {"idle", "prepare", "send", "save", "edit"}
MonPc == {"off", "start", "verify", "load", "poll", "wait", "release"}

Req == [pc : ReqPc, kind : {"add", "retry"}, media : Struct]
Mon == [pc : MonPc, snap : SUBSET Media]

IdleReq == [pc |-> "idle", kind |-> "add", media |-> NoMedia]
OffMon == [pc |-> "off", snap |-> {}]

Check ==
    [worker : Workers, media : Media, saw : {"Complete", "Error", "Downloading"},
     link : Links, pc : {"run", "save"}]

TypeOK ==
    /\ rows \subseteq Media /\ lastId \in 0..MaxId
    /\ torrents \subseteq Torrent /\ lastTid \in 0..MaxTid /\ sid \in BOOLEAN
    /\ up \in BOOLEAN /\ connected \in BOOLEAN
    /\ slot \in 0..1
    /\ req \in [Requests -> Req]
    /\ mon \in [Workers -> Mon]
    /\ checks \subseteq Check
    /\ library \subseteq Books \X Links
    /\ calls \in 0..MaxCalls /\ crashes \in 0..MaxCrashes

Init ==
    /\ StoreInit
    /\ ClientInit
    /\ up = FALSE
    /\ connected = FALSE
    /\ slot = 0
    /\ req = [q \in Requests |-> IdleReq]
    /\ mon = [w \in Workers |-> OffMon]
    /\ checks = {}
    /\ library = {}
    /\ calls = 0
    /\ crashes = 0

-----------------------------------------------------------------------------
\* Start and end of the process.

\* go startMonitor(), in a goroutine that is not in use.
Spawn(w) ==
    /\ mon[w].pc = "off"
    /\ mon' = [mon EXCEPT ![w].pc = "start"]

\* torrentClient is set: at the start, or by the first call that finds it nil.
Connect ==
    /\ connected' = TRUE
    /\ IF connected THEN UNCHANGED clientVars ELSE Login

\* InitializeTorrentClient failed.
ConnectFails ==
    /\ "connect" \in Faults /\ ~connected
    /\ UNCHANGED <<connected, clientVars>>

\* Wrong on purpose: NewService leaves the monitor to the next request.
BootIdle ==
    /\ ~up
    /\ up' = TRUE
    /\ Connect
    /\ UNCHANGED <<storeVars, slot, req, mon, checks, library, calls, crashes>>

\* NewService: the first check of the downloads runs only when the client
\* answered.
Boot ==
    /\ ~up
    /\ up' = TRUE
    /\ \/ /\ Connect
          /\ \E w \in Workers : Spawn(w)
       \/ /\ "boot" \in Faults
          /\ UNCHANGED <<clientVars, connected, mon>>
    /\ UNCHANGED <<storeVars, slot, req, checks, library, calls, crashes>>

Crash ==
    /\ up
    /\ crashes < MaxCrashes
    /\ crashes' = crashes + 1
    /\ up' = FALSE
    /\ connected' = FALSE
    /\ slot' = 0
    /\ req' = [q \in Requests |-> IdleReq]
    /\ mon' = [w \in Workers |-> OffMon]
    /\ checks' = {}
    /\ UNCHANGED <<storeVars, clientVars, library, calls>>

-----------------------------------------------------------------------------
\* RPC handlers.

Called(kind) ==
    /\ up
    /\ kind \in Calls
    /\ calls < MaxCalls
    /\ calls' = calls + 1

\* AddMedia: the struct FromProto fills has no id and no status.  The torrent id
\* of the message that it copies is left out: nothing reads it before Send, and a
\* row that failed earlier is not polled.
AddMedia(q, b) ==
    /\ Called("add")
    /\ req[q].pc = "idle"
    /\ req' = [req EXCEPT ![q] =
                 [pc |-> "prepare", kind |-> "add",
                  media |-> [NoMedia EXCEPT !.book = b]]]
    /\ UNCHANGED <<storeVars, clientVars, up, connected, slot, mon, checks, library, crashes>>

\* Retry: reads the row and hands the struct to DownloadMedia.
Retry(q, m) ==
    /\ Called("retry")
    /\ req[q].pc = "idle"
    /\ req' = [req EXCEPT ![q] = [pc |-> "prepare", kind |-> "retry", media |-> m]]
    /\ UNCHANGED <<storeVars, clientVars, up, connected, slot, mon, checks, library, crashes>>

Step(q, pc, m) ==
    req' = [req EXCEPT ![q] = [pc |-> pc, kind |-> req[q].kind, media |-> m]]

\* Wrong on purpose: AddMedia reports and keeps nothing.
FailedUnkept(q) == req' = [req EXCEPT ![q] = IdleReq]

\* DownloadMedia returned an error: AddMedia marks the struct and edits, Retry
\* only reports.
Failed(q) ==
    IF req[q].kind = "add"
    THEN Step(q, "edit", [req[q].media EXCEPT !.status = "Error"])
    ELSE req' = [req EXCEPT ![q] = IdleReq]

\* DownloadMedia up to the torrent file: verifyClient and downloadTorrentFile.
Prepare(q) ==
    /\ req[q].pc = "prepare"
    /\ \/ Connect /\ Step(q, "send", req[q].media)
       \/ "file" \in Faults /\ Connect /\ Failed(q)
       \/ ConnectFails /\ Failed(q)
    /\ UNCHANGED <<storeVars, up, slot, mon, checks, library, calls, crashes>>

\* DownloadMedia: the call to the client, then the marks on the struct.  The call
\* may fail before the client has the torrent, and after: the answer is lost, or
\* qBittorrent has the file and its info hash cannot be read.  (A 200 "Fails." of
\* qBittorrent is an added torrent that is removed at once; TorrentFile has it.)
Send(q) ==
    LET link == LinkOf[req[q].media.book] IN
    /\ req[q].pc = "send"
    /\ \/ /\ sid
          /\ TidsLeft(link)
          /\ AddTorrent(link)
          /\ Step(q, "save", [req[q].media EXCEPT !.tid = AddedTid(link),
                                                  !.status = "Downloading"])
       \/ /\ "add" \in Faults \/ ~sid
          /\ Failed(q)
          /\ UNCHANGED clientVars
       \/ /\ "add" \in Faults /\ sid
          /\ TidsLeft(link)
          /\ AddTorrent(link)
          /\ Failed(q)
    /\ UNCHANGED <<storeVars, up, connected, slot, mon, checks, library, calls, crashes>>

\* DownloadMedia: Save, then go startMonitor().
SaveMedia(q) ==
    LET m == req[q].media IN
    /\ req[q].pc = "save"
    /\ IdsLeft(m)
    /\ \/ /\ Storable(m)
          /\ Save(m)
          /\ \E w \in Workers : Spawn(w)
          /\ req' = [req EXCEPT ![q] = IdleReq]
       \/ /\ ~Storable(m) \/ "save" \in Faults
          /\ Failed(q)
          /\ UNCHANGED <<storeVars, mon>>
    /\ UNCHANGED <<clientVars, up, connected, slot, checks, library, calls, crashes>>

\* AddMedia: db.Edit of the struct marked as failed.
EditFailed(q) ==
    LET m == req[q].media IN
    /\ req[q].pc = "edit"
    /\ IdsLeft(m)
    /\ \/ Storable(m) /\ Save(m)
       \/ (~Storable(m) \/ "save" \in Faults) /\ UNCHANGED storeVars
    /\ req' = [req EXCEPT ![q] = IdleReq]
    /\ UNCHANGED <<clientVars, up, connected, slot, mon, checks, library, calls, crashes>>

\* Delete: the row, not the torrent and not the checks that hold the struct.
DeleteMedia(m) ==
    /\ Called("delete")
    /\ Delete(m.id)
    /\ UNCHANGED <<clientVars, up, connected, slot, req, mon, checks, library, crashes>>

\* Edit: FromProto copies no id, so Save inserts or fails; it never edits.
EditMedia(b) ==
    LET m == [NoMedia EXCEPT !.book = b] IN
    /\ Called("edit")
    /\ IdsLeft(m)
    /\ IF Storable(m) THEN Save(m) ELSE UNCHANGED storeVars
    /\ UNCHANGED <<clientVars, up, connected, slot, req, mon, checks, library, crashes>>

-----------------------------------------------------------------------------
\* startMonitor and monitorDownloads.

Goto(w, pc) == mon' = [mon EXCEPT ![w].pc = pc]

\* Wrong on purpose: no select, every goroutine monitors.
StartMonitorAlways(w) ==
    /\ mon[w].pc = "start"
    /\ slot' = 1 /\ Goto(w, "verify")
    /\ UNCHANGED <<storeVars, clientVars, up, connected, req, checks, library, calls, crashes>>

\* Wrong on purpose: the receive from workerChan runs in the default case too.
StartMonitorDrains(w) ==
    /\ mon[w].pc = "start"
    /\ IF slot = 0
       THEN slot' = 1 /\ Goto(w, "verify")
       ELSE Goto(w, "release") /\ UNCHANGED slot
    /\ UNCHANGED <<storeVars, clientVars, up, connected, req, checks, library, calls, crashes>>

\* The select on workerChan: send the token or give up.
StartMonitor(w) ==
    /\ mon[w].pc = "start"
    /\ IF slot = 0
       THEN slot' = 1 /\ Goto(w, "verify")
       ELSE Goto(w, "off") /\ UNCHANGED slot
    /\ UNCHANGED <<storeVars, clientVars, up, connected, req, checks, library, calls, crashes>>

VerifyClient(w) ==
    /\ mon[w].pc = "verify"
    /\ \/ Connect /\ Goto(w, "load")
       \/ ConnectFails /\ Goto(w, "release")
    /\ UNCHANGED <<storeVars, up, slot, req, checks, library, calls, crashes>>

\* getDownloadingMedia: an error or an empty map ends the monitor.
Load(w) ==
    /\ mon[w].pc = "load"
    /\ \/ /\ DownloadingMedia # {}
          /\ mon' = [mon EXCEPT ![w] = [pc |-> "poll", snap |-> DownloadingMedia]]
       \/ /\ DownloadingMedia = {} \/ "load" \in Faults
          /\ Goto(w, "release")
    /\ UNCHANGED <<storeVars, clientVars, up, connected, slot, req, checks, library, calls, crashes>>

\* One checkDownload goroutine per torrent in the answer, with the struct that
\* the map has under the torrent's id.
CheckOf(w, m, t) ==
    [worker |-> w, media |-> m, saw |-> ParsedStatus(t), link |-> t.link, pc |-> "run"]

ChecksFor(w, answer) ==
    UNION {{CheckOf(w, m, t) : m \in {n \in mon[w].snap : n.tid = t.tid}} : t \in answer}

\* GetTorrentStatus answers; the struct of each torrent goes to its own goroutine.
PollOk(w) ==
    LET answer == Reported({m.tid : m \in mon[w].snap}) IN
    /\ mon[w].pc = "poll"
    /\ sid
    /\ Client = "qbit" => answer # {}
    /\ checks' = checks \cup ChecksFor(w, answer)
    /\ mon' = [mon EXCEPT ![w] = [pc |-> "wait", snap |-> {}]]
    /\ UNCHANGED <<storeVars, clientVars, up, connected, slot, req, library, calls, crashes>>

\* Wrong on purpose: return where the code continues.
PollFailsReturns(w) ==
    /\ mon[w].pc = "poll"
    /\ "poll" \in Faults
    /\ mon' = [mon EXCEPT ![w] = [pc |-> "release", snap |-> {}]]
    /\ UNCHANGED <<storeVars, clientVars, up, connected, slot, req, checks, library, calls, crashes>>

\* GetTorrentStatus fails (qbit: also without a session and on an empty list):
\* the loop continues, and nothing logs in again.
PollFails(w) ==
    LET answer == Reported({m.tid : m \in mon[w].snap}) IN
    /\ mon[w].pc = "poll"
    /\ "poll" \in Faults \/ ~sid \/ (Client = "qbit" /\ answer = {})
    /\ mon' = [mon EXCEPT ![w] = [pc |-> "load", snap |-> {}]]
    /\ UNCHANGED <<storeVars, clientVars, up, connected, slot, req, checks, library, calls, crashes>>

\* Wrong on purpose: no wg.Wait().
WaitNoJoin(w) ==
    /\ mon[w].pc = "wait"
    /\ Goto(w, "load")
    /\ UNCHANGED <<storeVars, clientVars, up, connected, slot, req, checks, library, calls, crashes>>

\* wg.Wait() and the ticker.
Wait(w) ==
    /\ mon[w].pc = "wait"
    /\ \A c \in checks : c.worker # w
    /\ Goto(w, "load")
    /\ UNCHANGED <<storeVars, clientVars, up, connected, slot, req, checks, library, calls, crashes>>

\* Wrong on purpose: the token stays in workerChan.
ReleaseKeepsToken(w) ==
    /\ mon[w].pc = "release"
    /\ Goto(w, "off")
    /\ UNCHANGED <<storeVars, clientVars, up, connected, slot, req, checks, library, calls, crashes>>

\* startMonitor after monitorDownloads returned.
Release(w) ==
    /\ mon[w].pc = "release"
    /\ slot' = slot - 1
    /\ Goto(w, "off")
    /\ UNCHANGED <<storeVars, clientVars, up, connected, req, checks, library, calls, crashes>>

-----------------------------------------------------------------------------
\* checkDownload.

Outcome(c, status) ==
    checks' = (checks \ {c}) \cup {[c EXCEPT !.pc = "save", !.media.status = status]}

\* finalizeDownload succeeds, MarkComplete.
FinalizeOk(c) ==
    /\ c.pc = "run" /\ c.saw = "Complete"
    /\ library' = library \cup {<<c.media.book, c.link>>}
    /\ Outcome(c, "Completed")
    /\ UNCHANGED <<storeVars, clientVars, up, connected, slot, req, mon, calls, crashes>>

\* Wrong on purpose: the error of finalizeDownload is only logged.
FinalizeFailsCompletes(c) ==
    /\ c.pc = "run" /\ c.saw = "Complete"
    /\ "link" \in Faults \/ Known(c.link) = {}
    /\ Outcome(c, "Completed")
    /\ UNCHANGED <<storeVars, clientVars, up, connected, slot, req, mon, library, calls, crashes>>

\* finalizeDownload fails, MarkError.  The data may be gone with the torrent.
FinalizeFails(c) ==
    /\ c.pc = "run" /\ c.saw = "Complete"
    /\ "link" \in Faults \/ Known(c.link) = {}
    /\ Outcome(c, "Error")
    /\ UNCHANGED <<storeVars, clientVars, up, connected, slot, req, mon, library, calls, crashes>>

\* The client reports an error, or the download is over the time limit (the
\* clock is not modelled here: any incomplete download may be).
GiveUp(c) ==
    /\ c.pc = "run"
    /\ c.saw = "Error" \/ (c.saw = "Downloading" /\ ~IgnoreTimeout)
    /\ Outcome(c, "Error")
    /\ UNCHANGED <<storeVars, clientVars, up, connected, slot, req, mon, library, calls, crashes>>

StillDownloading(c) ==
    /\ c.pc = "run" /\ c.saw = "Downloading"
    /\ Outcome(c, c.media.status)
    /\ UNCHANGED <<storeVars, clientVars, up, connected, slot, req, mon, library, calls, crashes>>

\* The deferred Save, its error dropped, and wg.Done().
SaveChecked(c) ==
    /\ c.pc = "save"
    /\ \/ Storable(c.media) /\ Save(c.media)
       \/ (~Storable(c.media) \/ "recheck" \in Faults) /\ UNCHANGED storeVars
    /\ checks' = checks \ {c}
    /\ UNCHANGED <<clientVars, up, connected, slot, req, mon, library, calls, crashes>>

-----------------------------------------------------------------------------
\* The client moves on its own.
Environment ==
    /\ ClientNext
    /\ UNCHANGED <<storeVars, serviceVars>>

Handler(q) ==
    \/ Prepare(q) \/ Send(q) \/ SaveMedia(q) \/ EditFailed(q)

Rpc ==
    \/ \E q \in Requests, b \in Books : AddMedia(q, b)
    \/ \E q \in Requests, m \in rows : Retry(q, m)
    \/ \E m \in rows : DeleteMedia(m)
    \/ \E b \in Books : EditMedia(b)

Monitor(w) ==
    \/ StartMonitor(w) \/ VerifyClient(w) \/ Load(w)
    \/ PollOk(w) \/ PollFails(w) \/ Wait(w) \/ Release(w)

CheckDownload(c) ==
    \/ FinalizeOk(c) \/ FinalizeFails(c) \/ GiveUp(c) \/ StillDownloading(c)
    \/ SaveChecked(c)

Next ==
    \/ Boot
    \/ Crash
    \/ Rpc
    \/ \E q \in Requests : Handler(q)
    \/ \E w \in Workers : Monitor(w)
    \/ \E c \in checks : CheckDownload(c)
    \/ Environment

Spec == Init /\ [][Next]_vars

-----------------------------------------------------------------------------
\* Fairness: goroutines run; a client that can answer polls answers at some time
\* if it is asked again and again; a torrent that stays in the client completes.  RPCs,
\* crashes, faults and what users do in the client are never forced.
FinishEach(link) ==
    /\ \E t \in Known(link) : Finish(t)
    /\ UNCHANGED <<storeVars, serviceVars>>

Fairness ==
    /\ WF_vars(Boot)
    /\ \A q \in Requests : WF_vars(Handler(q))
    /\ \A w \in Workers : WF_vars(Monitor(w)) /\ SF_vars(PollOk(w))
    /\ WF_vars(\E c \in checks : CheckDownload(c))
    /\ \A l \in Links : WF_vars(FinishEach(l))

FairSpec == Spec /\ Fairness

-----------------------------------------------------------------------------
\* Properties.

InLoop(w) == mon[w].pc \in {"verify", "load", "poll", "wait", "release"}

\* workerChan admits one goroutine to monitorDownloads at a time and its token
\* is there exactly while one is inside (service.go, startMonitor).
OneMonitor ==
    /\ \A v, w \in Workers : InLoop(v) /\ InLoop(w) => v = w
    /\ slot = 1 <=> \E w \in Workers : InLoop(w)

\* No two checkDownload goroutines ever hold the same row: a row is never
\* finalised twice at once and no older round's Save follows a newer one's.
OneCheckPerRow ==
    \A c, d \in checks : c.media.id = d.media.id => c = d

\* A row that says Completed has had the files of its own book's torrent placed
\* in the library, whatever was polled, retried or deleted meanwhile and if Gouda
\* was restarted, unless transmission gives stored numbers to other torrents: it
\* numbers them anew when it starts (transmission.go:53 stores the number).
CompletedIsPlaced ==
    \A r \in rows : r.status = "Completed" => <<r.book, LinkOf[r.book]>> \in library

\* A settled row (Completed or Error) changes its status only when a Retry of it
\* saves; the monitor's late Saves never move it.
RetrySaves(i) ==
    \E q \in Requests :
        req[q].pc = "save" /\ req[q].kind = "retry" /\ req[q].media.id = i

SettledStays ==
    [][\A r \in rows : \A s \in rows' :
          /\ r.id = s.id
          /\ r.status \in {"Completed", "Error"}
          /\ s.status # r.status
          => RetrySaves(r.id)]_vars

\* The id of a row names the same book for ever, also in the structs that
\* handlers, monitor and checks still hold: a late Save of a struct whose row
\* was deleted can bring that row back but never overwrites another book's row.
HeldMedia ==
    {req[q].media : q \in Requests} \cup {c.media : c \in checks}
        \cup (UNION {mon[w].snap : w \in Workers})

IdNamesOneBook ==
    \A m \in HeldMedia \cup rows : \A n \in HeldMedia \cup rows :
        m.id # 0 /\ m.id = n.id => m.book = n.book

\* qBittorrent no longer accepts the adapter's cookie.
LoggedOut == connected /\ ~sid

\* A download the monitor has in view reaches Completed or Error (or is deleted),
\* through failed polls and a crash, unless the client's session ends.
InView(i) ==
    /\ \E r \in rows : r.id = i /\ r.status = "Downloading"
    /\ \E w \in Workers : mon[w].pc \in {"verify", "load", "poll", "wait"}

Settled(i) ==
    \A r \in rows : r.id = i => r.status # "Downloading"

InViewSettles == \A i \in 1..MaxId : InView(i) ~> (LoggedOut \/ Settled(i))

\* A download that was under way when the process ended is taken up by the next
\* one, which logs in anew, and settles (NewService, "initial download check").
ResumedAfterCrash ==
    \A i \in 1..MaxId :
        (~up /\ \E r \in rows : r.id = i /\ r.status = "Downloading")
            ~> (LoggedOut \/ Settled(i))

\* The monitor gives workerChan back once nothing is left to watch.
MonitorEnds == slot = 1 ~> (LoggedOut \/ slot = 0)

\* An AddMedia that was accepted leaves a row of its book, also when the torrent
\* file or the client refused it: the failure is kept where List shows it.  Only
\* the end of the process before that row is saved leaves none.
Adding(b) ==
    \E q \in Requests :
        req[q].pc # "idle" /\ req[q].kind = "add" /\ req[q].media.book = b

AddLeavesRow == \A b \in Books : Adding(b) ~> (~up \/ \E r \in rows : r.book = b)

\* Each row follows the life cycle of module MediaLifecycle.
StatusOf(i) ==
    IF \E r \in rows : r.id = i
    THEN (CHOOSE r \in rows : r.id = i).status
    ELSE "None"

Lifecycle ==
    INSTANCE MediaLifecycle
        WITH status <- [i \in 1..MaxId |-> StatusOf(i)], last <- lastId

LifecycleSpec == Lifecycle!Spec

-----------------------------------------------------------------------------
\* What the documentation says and the code does not do.

\* "Gouda will continue to monitor downloads until": every row that says
\* Downloading settles (readme.md:144).
DownloadingSettles == \A i \in 1..MaxId :
    (\E r \in rows : r.id = i /\ r.status = "Downloading") ~> Settled(i)
=============================================================================
