----------------------------- MODULE MediaStore -----------------------------
(***************************************************************************)
(* The media_requests table: database/db_downloads.go and                  *)
(* database/db_media_manager.go over gorm and SQLite.                      *)
(*                                                                         *)
(* A row is kept as the part of downloads.Media that the download life     *)
(* cycle reads or writes.  id 0 is a struct that was never stored, tid 0   *)
(* an empty TorrentClientId, status "Unset" the empty string.              *)
(***************************************************************************)
EXTENDS Catalogue

CONSTANT MaxId     \* bound: rows ever created

ASSUME StoreAssumption == MaxId \in Nat

VARIABLES
    rows,      \* the rows of media_requests
    lastId     \* sqlite_sequence: the last id handed out

storeVars == <<rows, lastId>>

MediaStatus == {"Unset", "Downloading", "Completed", "Error"}

\* A struct in memory, and one that names a book: what the table can hold.
Struct == [id : 0..MaxId, book : Books \cup {0}, status : MediaStatus, tid : 0..MaxTid]
Media == {m \in Struct : m.book \in Books}

StoreInit ==
    /\ rows = {}
    /\ lastId = 0

\* The constraints of the table: check:mam_book_id > 0 and uniqueIndex.
Storable(m) ==
    /\ m.book > 0
    /\ \A r \in rows : r.book = m.book => r.id = m.id

\* Wrong on purpose: a rowid without AUTOINCREMENT, one above the largest in use.
NewIdReused ==
    CHOOSE i \in 1..(lastId + 1) :
        /\ \A r \in rows : r.id < i
        /\ i = 1 \/ \E r \in rows : r.id = i - 1

\* The id gorm leaves in the struct: AUTOINCREMENT never reuses one.
NewId == lastId + 1

Numbered(m) == IF m.id = 0 THEN [m EXCEPT !.id = NewId] ELSE m

IdsLeft(m) == m.id = 0 => lastId < MaxId        \* the bound MaxId

\* gorm's Save: an INSERT for id 0, else an UPDATE of all columns by id, and
\* an INSERT with that id when the UPDATE found no row.
Save(m) ==
    LET n == Numbered(m) IN
    /\ rows' = {r \in rows : r.id # n.id} \cup {n}
    /\ lastId' = IF m.id = 0 THEN n.id ELSE lastId

\* Unscoped().Delete by id; a missing row is no error.
Delete(i) ==
    /\ rows' = {r \in rows : r.id # i}
    /\ UNCHANGED lastId

\* Wrong on purpose: the query keeps what is not complete.
UnfinishedRows == {r \in rows : r.status # "Completed"}

\* GetDownloadingMedia: where status = Downloading.
DownloadingRows == {r \in rows : r.status = "Downloading"}

\* getDownloadingMedia: a map by torrent id, filled in rowid order, so of two
\* rows with one torrent id the later stays.
DownloadingMedia ==
    {r \in DownloadingRows :
        \A s \in DownloadingRows : s.tid = r.tid => s.id <= r.id}
=============================================================================
