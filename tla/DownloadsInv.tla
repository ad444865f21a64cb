---------------------------- MODULE DownloadsInv ----------------------------
(***************************************************************************)
(* The inductive invariant of module Downloads, in named parts.            *)
(***************************************************************************)
EXTENDS Downloads

Active(q) == req[q].pc # "idle"

\* A handler inside DownloadMedia holds a struct of the table's type, an
\* AddMedia one without id, a Retry one that was stored.
HandlersHoldMedia ==
    \A q \in Requests : Active(q) =>
        /\ req[q].media \in Media
        /\ req[q].media.id <= lastId
        /\ (req[q].kind = "add" <=> req[q].media.id = 0)
        /\ req[q].pc = "save" => req[q].media.status = "Downloading"
        /\ req[q].pc = "edit" => req[q].kind = "add" /\ req[q].media.status = "Error"

\* A handler that is done holds nothing.
IdleHoldsNothing == \A q \in Requests : ~Active(q) => req[q].media = NoMedia

\* Torrent ids are unique in the client and not yet to be given out.
ClientIds ==
    /\ \A s \in torrents : \A t \in torrents : s.tid = t.tid => s = t
    /\ Client = "qbit" => \A t \in torrents : t.tid = t.link
    /\ Client = "transmission" => \A t \in torrents : t.tid <= lastTid

\* Ids are unique in the table and not yet to be given out.
RowIds ==
    /\ \A r \in rows : \A s \in rows : r.id = s.id => r = s
    /\ \A r \in rows : r.id \in 1..lastId

\* Only the monitor between load and poll keeps loaded rows, only the monitor
\* that waits has checks.
SnapOnlyToPoll == \A w \in Workers : mon[w].pc # "poll" => mon[w].snap = {}

SnapIds ==
    \A w \in Workers : \A m \in mon[w].snap :
        /\ m.id \in 1..lastId
        /\ m.status = "Downloading"
        /\ \A n \in mon[w].snap : m.id = n.id => m = n

ChecksAwaited == \A c \in checks : mon[c.worker].pc = "wait"

CheckMedia ==
    \A c \in checks :
        /\ c.media.id \in 1..lastId
        /\ c.media.status \in {"Downloading", "Completed", "Error"}
        /\ c.pc = "run" => c.media.status = "Downloading"

\* The row of a struct the monitor or a check holds is still Downloading, if it
\* is there: nobody else settles it.
StillInProgress ==
    /\ \A w \in Workers : \A m \in mon[w].snap : \A r \in rows :
          r.id = m.id => r.status = "Downloading"
    /\ \A c \in checks : \A r \in rows :
          r.id = c.media.id => r.status = "Downloading"

\* The torrent id in any struct is, if the client still has it, that of the
\* struct's book.  transmission never gives an id out twice in a session.
TorrentOfBook ==
    \A m \in HeldMedia \cup rows :
        /\ Client = "transmission" => m.tid <= lastTid
        /\ Client = "qbit" /\ m.tid # 0 => m.tid = LinkOf[m.book]
        /\ \A t \in torrents : t.tid = m.tid => t.link = LinkOf[m.book]

\* What a check found is what its book's torrent delivered.
CheckedIsPlaced ==
    \A c \in checks :
        /\ c.link = LinkOf[c.media.book]
        /\ c.media.status = "Completed" => <<c.media.book, c.link>> \in library

MonitorInv ==
    /\ TypeOK
    /\ HandlersHoldMedia
    /\ RowIds /\ SnapIds /\ CheckMedia
    /\ ClientIds
    /\ SnapOnlyToPoll /\ ChecksAwaited
    /\ OneMonitor
    /\ OneCheckPerRow

LifecycleInv == MonitorInv /\ StillInProgress

BooksInv == LifecycleInv /\ IdleHoldsNothing /\ IdNamesOneBook

PlacedInv == BooksInv /\ TorrentOfBook /\ CheckedIsPlaced /\ CompletedIsPlaced
=============================================================================
