----------------------------- MODULE TorrentFile -----------------------------
(***************************************************************************)
(* The torrent files of core/internal/downloads/service.go: each AddMedia  *)
(* or Retry writes the answer of MAM to TorrentDir, under the name that    *)
(* MAM gives it, and the client reads it from there: transmission once,    *)
(* qBittorrent twice, to send it and to compute its id.                    *)
(*                                                                         *)
(* A torrent is a sequence of pieces of its own; a file may hold pieces of *)
(* several.  The file is opened without O_TRUNC and never removed.         *)
(***************************************************************************)
EXTENDS Sequences, Integers

CONSTANTS
    Requests,      \* handlers of AddMedia and Retry
    Names,         \* file names in Content-Disposition
    Torrents,      \* what MAM may have under these names
    NameOf, SizeOf,
    Mixed,         \* a torrent decoded from pieces of several
    None,          \* no torrent
    Clients,       \* "qbit", "transmission"
    Faults,        \* "mam", "disk", "client", "lost": added but not answered
    UpdatesAnytime \* MAM changes a torrent while a request has its file

ASSUME TorrentFileAssumption ==
    /\ NameOf \in [Torrents -> Names]
    /\ SizeOf \in [Torrents -> Nat \ {0}]
    /\ \A n \in Names : \E t \in Torrents : NameOf[t] = n
    /\ {Mixed, None} \cap Torrents = {} /\ Mixed # None
    /\ Clients \subseteq {"qbit", "transmission"}
    /\ UpdatesAnytime \in BOOLEAN

VARIABLES
    client,        \* which client is configured
    published,     \* the torrent MAM has under each name
    file,          \* what is in each file, missing ones empty
    held,          \* the torrents in the client
    req            \* each request: its torrent, pieces written or read, its id

vars == <<client, published, file, held, req>>

\* "failed": a call of it failed; "refused": its file was no torrent.
Request ==
    [pc : {"idle", "open", "write", "upload", "read", "done", "failed", "refused"},
     torrent : Torrents \cup {None}, pos : Nat, got : Seq(Torrents),
     id : Torrents \cup {Mixed, None}]

\* Some torrent of this name is as long.
FitsName(n, length) == \E t \in Torrents : NameOf[t] = n /\ length <= SizeOf[t]

TypeOK ==
    /\ client \in Clients
    /\ published \in [Names -> Torrents]
    /\ \A n \in Names : NameOf[published[n]] = n
    /\ file \in [Names -> Seq(Torrents)]
    /\ \A n \in Names : FitsName(n, Len(file[n]))
    /\ held \subseteq Torrents \cup {Mixed}
    /\ req \in [Requests -> Request]
    /\ \A q \in Requests :
          req[q].pos # 0 => req[q].torrent \in Torrents /\ req[q].pos <= SizeOf[req[q].torrent]

Idle == [pc |-> "idle", torrent |-> None, pos |-> 0, got |-> <<>>, id |-> None]

Init ==
    /\ client \in Clients
    /\ published \in {p \in [Names -> Torrents] : \A n \in Names : NameOf[p[n]] = n}
    /\ file = [n \in Names |-> <<>>]
    /\ held = {}
    /\ req = [q \in Requests |-> Idle]

-----------------------------------------------------------------------------
\* downloadTorrentFile.

Step(q, r) == req' = [req EXCEPT ![q] = r]
At(q, pc) == req[q].pc = pc

\* Only that it failed is left of it.
Fails(q, pc) == Step(q, [Idle EXCEPT !.pc = pc])

\* Wrong on purpose: every torrent file under one name.
PathOfAll(t) == CHOOSE n \in Names : TRUE

Path(t) == NameOf[t]

\* downloadTorrent, and the name in Content-Disposition.
Download(q, n) ==
    /\ req[q].pc \in {"idle", "done", "failed", "refused"}
    /\ \/ Step(q, [Idle EXCEPT !.pc = "open", !.torrent = published[n]])
       \/ "mam" \in Faults /\ Fails(q, "failed")
    /\ UNCHANGED <<client, published, file, held>>

\* Wrong on purpose: the file is opened with O_TRUNC.
OpensEmpty(q) == file' = [file EXCEPT ![Path(req[q].torrent)] = <<>>]

\* O_CREATE alone: what an earlier request wrote stays in the file.
Opens(q) == UNCHANGED file

Open(q) ==
    /\ At(q, "open")
    /\ \/ Opens(q) /\ Step(q, [req[q] EXCEPT !.pc = "write"])
       \/ "disk" \in Faults /\ UNCHANGED file /\ Fails(q, "failed")
    /\ UNCHANGED <<client, published, held>>

\* Wrong on purpose: the file is opened with O_APPEND.
PutLast(c, i, t) == Append(c, t)

\* Over what is there, or at the end.
Put(c, i, t) == IF i <= Len(c) THEN [c EXCEPT ![i] = t] ELSE Append(c, t)

\* io.Copy, a piece at a time.
Write(q) ==
    LET t == req[q].torrent
        i == req[q].pos + 1 IN
    /\ At(q, "write")
    /\ \/ /\ file' = [file EXCEPT ![Path(t)] = Put(@, i, t)]
          /\ Step(q, [req[q] EXCEPT !.pos = i,
                                    !.pc = IF i = SizeOf[t] THEN "upload" ELSE "write"])
       \/ {"mam", "disk"} \cap Faults # {} /\ UNCHANGED file /\ Fails(q, "failed")
    /\ UNCHANGED <<client, published, held>>

-----------------------------------------------------------------------------
\* DownloadTorrentWithFile.

\* A decoder takes the first bencoded value and ignores what follows.
Whole(c, t) == SizeOf[t] <= Len(c) /\ \A i \in 1..SizeOf[t] : c[i] = t
Decoded(c) ==
    LET whole == {t \in Torrents : Whole(c, t)}
    IN IF whole # {} THEN whole ELSE {Mixed, None}

\* The file is read while others write to it.
ReadPiece(q) ==
    LET c == file[Path(req[q].torrent)]
        i == Len(req[q].got) + 1 IN
    /\ req[q].pc \in {"upload", "read"}
    /\ i <= Len(c)
    /\ Step(q, [req[q] EXCEPT !.got = Append(@, c[i])])
    /\ UNCHANGED <<client, published, file, held>>

AllRead(q) == Len(req[q].got) >= Len(file[Path(req[q].torrent)])

Adds(d) == held' = held \cup ({d} \ {None})

\* qBittorrent answers "Fails.", with status 200: it has the torrent already,
\* or it does not want it.
Declines == client = "qbit" /\ UNCHANGED held

Answered(q, d) == Step(q, [Idle EXCEPT !.pc = "done", !.torrent = req[q].torrent, !.id = d])

\* TorrentAddFileDownloadDir: the id is in transmission's answer.
AddTransmission(q, d) ==
    /\ client = "transmission"
    /\ IF d = None THEN Fails(q, "refused") ELSE Answered(q, d)

\* sendAddTorrentRequest: an answer below 400 is a success, also "Fails.".
AddQbit(q, d) ==
    /\ client = "qbit"
    /\ \/ Step(q, [req[q] EXCEPT !.pc = "read", !.got = <<>>])
       \/ d = None /\ Fails(q, "refused")

Upload(q) ==
    /\ At(q, "upload") /\ AllRead(q)
    /\ \E d \in Decoded(req[q].got) :
          \/ (Adds(d) \/ Declines) /\ (AddTransmission(q, d) \/ AddQbit(q, d))
          \/ "lost" \in Faults /\ Adds(d) /\ Fails(q, "failed")
          \/ "client" \in Faults /\ UNCHANGED held /\ Fails(q, "failed")
    /\ UNCHANGED <<client, published, file>>

\* TorrentFileToMagnet and DecodeMagnetURL: the info hash of the file as it is.
ReadHash(q) ==
    /\ At(q, "read") /\ AllRead(q)
    /\ \E d \in Decoded(req[q].got) :
          IF d = None THEN Fails(q, "refused") ELSE Answered(q, d)
    /\ UNCHANGED <<client, published, file, held>>

-----------------------------------------------------------------------------
\* The process and MAM.

\* The process ends and is started again.
Restart ==
    /\ req' = [q \in Requests |-> Idle]
    /\ UNCHANGED <<client, published, file, held>>

Busy(n) ==
    \E q \in Requests :
        req[q].pc \in {"open", "write", "upload", "read"} /\ NameOf[req[q].torrent] = n

\* Another torrent, or the same with other trackers, under a name.
Update(n) ==
    /\ UpdatesAnytime \/ ~Busy(n)
    /\ \E t \in Torrents : NameOf[t] = n /\ published' = [published EXCEPT ![n] = t]
    /\ UNCHANGED <<client, file, held, req>>

Next ==
    \/ Restart
    \/ \E n \in Names : Update(n)
    \/ \E q \in Requests :
          \/ \E n \in Names : Download(q, n)
          \/ Open(q) \/ Write(q) \/ ReadPiece(q) \/ Upload(q) \/ ReadHash(q)

Spec == Init /\ [][Next]_vars

-----------------------------------------------------------------------------
\* Properties.

\* The id that DownloadMedia stores in the row is that of the torrent the
\* request downloaded, however requests for the same and other torrents
\* overlap, and whatever longer or half-written file they find under their
\* name; and transmission has that torrent.  Of qBittorrent the code cannot
\* know: it takes "Fails." for a success.  The condition is that MAM has one
\* torrent of a name at a time while requests for that name are under way.
IdOfRequest ==
    \A q \in Requests :
        At(q, "done") =>
            /\ req[q].id = req[q].torrent
            /\ client = "transmission" => req[q].torrent \in held

\* A file that was written to its end is a torrent to whoever reads it, also
\* while another request writes it again: no request fails unless a call to
\* MAM, the disk or the client did.  Under the same condition.
FileWhole == \A q \in Requests : ~At(q, "refused")
=============================================================================
