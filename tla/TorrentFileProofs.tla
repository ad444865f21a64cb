--------------------------- MODULE TorrentFileProofs ---------------------------
(***************************************************************************)
(* Theorems about TorrentFile: its types, and, when MAM changes no torrent *)
(* while a request has its file, that the id stored is that of the torrent *)
(* sent and that no file is refused.                                       *)
(***************************************************************************)
EXTENDS TorrentFile, TLAPS

Working == {"open", "write", "upload", "read"}
Reading == {"upload", "read"}

-----------------------------------------------------------------------------
\* The inductive invariants.

\* What a request has written, or is to write, is known.
Known(r) ==
    /\ r \in Request
    /\ r.pos # 0 => r.torrent \in Torrents /\ r.pos <= SizeOf[r.torrent]
    /\ r.pc \in Working => r.torrent \in Torrents
    /\ r.pc = "open" => r.pos = 0
    /\ r.pc = "write" => r.pos < SizeOf[r.torrent]

TypeInv == TypeOK /\ \A q \in Requests : Known(req[q])

\* The first pieces of a sequence are of one torrent.
Starts(c, t, length) == length <= Len(c) /\ \A i \in 1..length : c[i] = t

\* What was read may be shorter, or go on with what follows the torrent.
Reads(c, t) == \A i \in 1..SizeOf[t] : i <= Len(c) => c[i] = t

\* A request works for what MAM still has under its name; it has written the
\* start of its file, or finds all of it; what it has read of the file so far
\* is of its torrent; and it ends well with the id of the torrent it sent.
Right(q) ==
    LET r == req[q]
        c == file[NameOf[r.torrent]] IN
    /\ r.pc \in Working => r.torrent = published[NameOf[r.torrent]]
    /\ r.pc \in {"open", "write"} => r.got = <<>>
    /\ r.pc = "write" => Starts(c, r.torrent, r.pos)
    /\ r.pc \in Reading => Whole(c, r.torrent) /\ Reads(r.got, r.torrent)
    /\ r.pc = "read" => client = "qbit"
    /\ r.pc = "done" =>
          r.id = r.torrent /\ (client = "transmission" => r.torrent \in held)
    /\ r.pc # "refused"

SentInv == \A q \in Requests : Right(q)

Inv == TypeInv /\ SentInv

-----------------------------------------------------------------------------
\* Types.

\* The conjuncts of TypeOK about files and about what is not a request.
FilesOK ==
    /\ file \in [Names -> Seq(Torrents)]
    /\ \A n \in Names : FitsName(n, Len(file[n]))

RestOK ==
    /\ client \in Clients
    /\ published \in [Names -> Torrents]
    /\ \A n \in Names : NameOf[published[n]] = n
    /\ held \subseteq Torrents \cup {Mixed}

RequestsOK == req \in [Requests -> Request] /\ \A q \in Requests : Known(req[q])

LEMMA TypeParts == TypeInv <=> FilesOK /\ RestOK /\ RequestsOK
BY DEF TypeInv, TypeOK, FilesOK, RestOK, RequestsOK, Known

LEMMA StartKnown ==
    ASSUME NEW r \in Request, r.pos = 0, r.pc \notin {"write", "upload", "read"},
           r.pc = "open" => r.torrent \in Torrents
    PROVE  Known(r)
BY DEF Known, Working

LEMMA IdleType ==
    /\ Idle \in Request
    /\ Idle.pc = "idle" /\ Idle.torrent = None /\ Idle.pos = 0 /\ Idle.got = <<>>
BY DEF Idle, Request

LEMMA IdleKnown == Known(Idle)
BY IdleType, StartKnown

LEMMA StepKnown ==
    ASSUME RequestsOK, NEW q \in Requests, NEW r, Known(r), Step(q, r)
    PROVE  /\ RequestsOK'
           /\ req'[q] = r
           /\ \A p \in Requests \ {q} : req'[p] = req[p]
<1>1. req'[q] = r /\ \A p \in Requests \ {q} : req'[p] = req[p]
  BY DEF RequestsOK, Step
<1>2. r \in Request
  BY Zenon DEF Known
<1>3. req' \in [Requests -> Request]
  BY <1>2 DEF RequestsOK, Step
<1>4. \A p \in Requests : Known(req'[p])
  BY <1>1 DEF RequestsOK
<1> QED
  BY <1>1, <1>3, <1>4 DEF RequestsOK, Known

LEMMA FailKnown ==
    ASSUME RequestsOK, NEW q \in Requests, NEW pc \in {"failed", "refused"}, Fails(q, pc)
    PROVE  /\ RequestsOK'
           /\ req'[q].pc = pc
           /\ \A p \in Requests \ {q} : req'[p] = req[p]
<1> DEFINE r == [Idle EXCEPT !.pc = pc]
<1>1. r \in Request /\ r.pc = pc /\ r.pos = 0
  BY IdleType DEF Request
<1>2. Known(r)
  <2> HIDE DEF r
  <2> QED
    BY <1>1, StartKnown
<1> QED
  BY <1>1, <1>2, StepKnown DEF Fails

LEMMA InitType == Init => TypeInv
<1> SUFFICES ASSUME Init PROVE TypeInv
  OBVIOUS
<1>1. FilesOK
  <2>1. \A n \in Names : \E t \in Torrents : NameOf[t] = n /\ SizeOf[t] \in Nat \ {0}
    BY TorrentFileAssumption
  <2>2. Len(<<>>) = 0 /\ <<>> \in Seq(Torrents)
    OBVIOUS
  <2>3. \A n \in Names : file[n] = <<>>
    BY DEF Init
  <2>4. \A n \in Names : FitsName(n, Len(file[n]))
    BY <2>1, <2>2, <2>3 DEF FitsName
  <2> QED
    BY <2>2, <2>4 DEF Init, FilesOK
<1>2. RestOK
  BY DEF Init, RestOK
<1>3. RequestsOK
  BY IdleKnown DEF Init, RequestsOK, Known
<1> QED
  BY <1>1, <1>2, <1>3, TypeParts

\* What Put leaves: the piece at i, the others as they were.
LEMMA PutPiece ==
    ASSUME NEW c \in Seq(Torrents), NEW t \in Torrents, NEW i \in 1..(Len(c) + 1)
    PROVE  /\ Put(c, i, t) \in Seq(Torrents)
           /\ Len(Put(c, i, t)) = IF i <= Len(c) THEN Len(c) ELSE i
           /\ Put(c, i, t)[i] = t
           /\ \A k \in 1..Len(c) : k # i => Put(c, i, t)[k] = c[k]
<1>1. CASE i <= Len(c)
  BY <1>1 DEF Put
<1>2. CASE ~(i <= Len(c))
  <2>1. i = Len(c) + 1
    BY <1>2
  <2> QED
    BY <1>2, <2>1 DEF Put
<1> QED
  BY <1>1, <1>2

LEMMA PutType ==
    ASSUME NEW c \in Seq(Torrents), NEW t \in Torrents, NEW i \in Nat \ {0}
    PROVE  /\ Put(c, i, t) \in Seq(Torrents)
           /\ Len(Put(c, i, t)) = Len(c) \/ Len(Put(c, i, t)) <= i
<1>1. CASE i <= Len(c)
  BY <1>1 DEF Put
<1>2. CASE ~(i <= Len(c))
  BY <1>2 DEF Put
<1> QED
  BY <1>1, <1>2

LEMMA PutFits ==
    ASSUME FilesOK, NEW t \in Torrents, NEW i \in Nat \ {0}, i <= SizeOf[t],
           file' = [file EXCEPT ![Path(t)] = Put(@, i, t)]
    PROVE  /\ FilesOK'
           /\ file'[NameOf[t]] = Put(file[NameOf[t]], i, t)
           /\ \A n \in Names \ {NameOf[t]} : file'[n] = file[n]
<1> DEFINE m == NameOf[t]
<1>1. m \in Names /\ file[m] \in Seq(Torrents)
  BY TorrentFileAssumption DEF FilesOK
<1>2. /\ Put(file[m], i, t) \in Seq(Torrents)
      /\ Len(Put(file[m], i, t)) = Len(file[m]) \/ Len(Put(file[m], i, t)) <= i
  BY <1>1, PutType
<1>3. /\ file' \in [Names -> Seq(Torrents)]
      /\ file'[m] = Put(file[m], i, t)
      /\ \A n \in Names \ {m} : file'[n] = file[n]
  BY <1>1, <1>2 DEF FilesOK, Path
<1>4. FitsName(m, Len(file'[m]))
  <2>1. CASE Len(file'[m]) = Len(file[m])
    BY <1>1, <2>1 DEF FilesOK
  <2>2. CASE Len(file'[m]) <= i
    <3>1. Len(file'[m]) \in Nat /\ SizeOf[t] \in Nat
      BY <1>1, <1>3, TorrentFileAssumption
    <3>2. Len(file'[m]) <= SizeOf[t]
      BY <2>2, <3>1
    <3> QED
      BY <3>2 DEF FitsName
  <2> QED
    BY <1>2, <1>3, <2>1, <2>2
<1>5. \A n \in Names : FitsName(n, Len(file'[n]))
  BY <1>3, <1>4 DEF FilesOK
<1> QED
  BY <1>3, <1>5 DEF FilesOK, FitsName

LEMMA ReadType ==
    ASSUME TypeInv, NEW q \in Requests, req[q].pc \in Working
    PROVE  /\ req[q].torrent \in Torrents
           /\ Path(req[q].torrent) = NameOf[req[q].torrent]
           /\ NameOf[req[q].torrent] \in Names
           /\ SizeOf[req[q].torrent] \in Nat \ {0}
           /\ file[NameOf[req[q].torrent]] \in Seq(Torrents)
           /\ req[q].got \in Seq(Torrents)
           /\ req[q].pos \in Nat
<1>1. req[q].torrent \in Torrents /\ req[q] \in Request
  BY DEF TypeInv, Known
<1> QED
  BY <1>1, TorrentFileAssumption DEF TypeInv, TypeOK, Request, Path

LEMMA DecodedType ==
    ASSUME NEW c, NEW d \in Decoded(c) PROVE d \in Torrents \cup {Mixed, None}
BY DEF Decoded

\* The record of a request that ended well, and of one that starts.
Ended(t, d) == [Idle EXCEPT !.pc = "done", !.torrent = t, !.id = d]
Opened(t) == [Idle EXCEPT !.pc = "open", !.torrent = t]

LEMMA DoneKnown ==
    ASSUME NEW t \in Torrents, NEW d \in Torrents \cup {Mixed, None}
    PROVE  /\ Known(Ended(t, d))
           /\ Ended(t, d).pc = "done" /\ Ended(t, d).torrent = t /\ Ended(t, d).id = d
<1>1. /\ Ended(t, d) \in Request /\ Ended(t, d).pos = 0
      /\ Ended(t, d).pc = "done" /\ Ended(t, d).torrent = t /\ Ended(t, d).id = d
  BY IdleType DEF Ended, Request
<1> QED
  BY <1>1, StartKnown

LEMMA OpenedKnown ==
    ASSUME NEW t \in Torrents
    PROVE  /\ Known(Opened(t))
           /\ Opened(t).pc = "open" /\ Opened(t).torrent = t /\ Opened(t).got = <<>>
<1>1. /\ Opened(t) \in Request /\ Opened(t).pos = 0
      /\ Opened(t).pc = "open" /\ Opened(t).torrent = t /\ Opened(t).got = <<>>
  BY IdleType DEF Opened, Request
<1> QED
  BY <1>1, StartKnown

\* What one action does to the requests, and to the rest.
LEMMA DownloadType ==
    ASSUME TypeInv, NEW q \in Requests, NEW n \in Names, Download(q, n)
    PROVE  RequestsOK'
<1> DEFINE r == Opened(published[n])
<1>1. RequestsOK /\ RestOK
  BY TypeParts
<1>2. CASE Step(q, r)
  <2>1. published[n] \in Torrents
    BY <1>1 DEF RestOK
  <2>2. Known(r)
    BY <2>1, OpenedKnown
  <2> QED
    BY <1>1, <1>2, <2>2, StepKnown
<1>3. CASE Fails(q, "failed")
  BY <1>1, <1>3, FailKnown
<1> QED
  BY <1>2, <1>3 DEF Download, Opened

LEMMA OpenType ==
    ASSUME TypeInv, NEW q \in Requests, Open(q)
    PROVE  RequestsOK'
<1> DEFINE r == [req[q] EXCEPT !.pc = "write"]
<1>1. RequestsOK
  BY TypeParts
<1>2. CASE Step(q, r)
  <2>1. Known(req[q]) /\ req[q].pc = "open"
    BY DEF TypeInv, Open, At
  <2>2. req[q].torrent \in Torrents /\ req[q].pos = 0 /\ SizeOf[req[q].torrent] \in Nat \ {0}
    BY <2>1, TorrentFileAssumption DEF Known, Working
  <2>3. Known(r)
    BY <2>1, <2>2 DEF Known, Request, Working
  <2> QED
    BY <1>1, <1>2, <2>3, StepKnown
<1>3. CASE Fails(q, "failed")
  BY <1>1, <1>3, FailKnown
<1> QED
  BY <1>2, <1>3 DEF Open

\* A request that writes a piece, and the record it leaves.
Written(q) ==
    [req[q] EXCEPT !.pos = req[q].pos + 1,
                   !.pc = IF req[q].pos + 1 = SizeOf[req[q].torrent] THEN "upload" ELSE "write"]

LEMMA WrittenKnown ==
    ASSUME TypeInv, NEW q \in Requests, At(q, "write")
    PROVE  /\ Known(Written(q))
           /\ Written(q).pc =
                 IF req[q].pos + 1 = SizeOf[req[q].torrent] THEN "upload" ELSE "write"
           /\ Written(q).pos = req[q].pos + 1
           /\ Written(q).torrent = req[q].torrent
           /\ Written(q).got = req[q].got
           /\ req[q].pos + 1 \in 1..SizeOf[req[q].torrent]
<1> DEFINE t == req[q].torrent
           i == req[q].pos + 1
<1>1. Known(req[q]) /\ req[q].pc = "write"
  BY DEF TypeInv, At
<1>2. t \in Torrents /\ SizeOf[t] \in Nat /\ req[q].pos \in Nat /\ req[q].pos < SizeOf[t]
  BY <1>1, TorrentFileAssumption DEF Known, Working, Request
<1>3. i \in 1..SizeOf[t] /\ i \in Nat
  BY <1>2
<1> DEFINE pc == IF i = SizeOf[t] THEN "upload" ELSE "write"
<1>4. /\ Written(q) \in Request
      /\ Written(q).pc = pc /\ Written(q).pos = i
      /\ Written(q).torrent = t /\ Written(q).got = req[q].got
  <2>1. req[q] \in Request /\ pc \in {"write", "upload"}
    BY <1>1 DEF Known
  <2>2. Written(q) = [req[q] EXCEPT !.pos = i, !.pc = pc]
    BY DEF Written
  <2> HIDE DEF pc
  <2> QED
    BY <1>3, <2>1, <2>2 DEF Request
<1>5. pc = "upload" \/ (i # SizeOf[t] /\ pc = "write")
  OBVIOUS
<1>6. i <= SizeOf[t] /\ (i # SizeOf[t] => i < SizeOf[t])
  BY <1>2, <1>3
<1> HIDE DEF pc, i, t
<1>7. Known(Written(q))
  BY <1>2, <1>4, <1>5, <1>6 DEF Known, Working
<1> QED
  BY <1>3, <1>4, <1>7 DEF i, t, pc

LEMMA WriteType ==
    ASSUME TypeInv, NEW q \in Requests, Write(q)
    PROVE  RequestsOK' /\ FilesOK'
<1> DEFINE t == req[q].torrent
           i == req[q].pos + 1
<1>1. RequestsOK /\ FilesOK
  BY TypeParts
<1>2. CASE /\ file' = [file EXCEPT ![Path(t)] = Put(@, i, t)]
           /\ Step(q, Written(q))
  <2>1. Known(Written(q)) /\ i \in 1..SizeOf[t]
    BY WrittenKnown DEF Write
  <2>2. t \in Torrents /\ SizeOf[t] \in Nat
    BY ReadType DEF Write, At, Working
  <2>3. i \in Nat \ {0} /\ i <= SizeOf[t]
    BY <2>1, <2>2
  <2>4. FilesOK'
    BY <1>1, <1>2, <2>2, <2>3, PutFits
  <2> QED
    BY <1>1, <1>2, <2>1, <2>4, StepKnown
<1>3. CASE UNCHANGED file /\ Fails(q, "failed")
  BY <1>1, <1>3, FailKnown DEF FilesOK
<1> QED
  BY <1>2, <1>3 DEF Write, Written

\* What reading a piece of the file adds to what was read.
Further(q) ==
    [req[q] EXCEPT !.got =
        Append(req[q].got, file[Path(req[q].torrent)][Len(req[q].got) + 1])]

LEMMA FurtherKnown ==
    ASSUME TypeInv, NEW q \in Requests, ReadPiece(q)
    PROVE  /\ Known(Further(q))
           /\ Further(q).pc = req[q].pc
           /\ Further(q).torrent = req[q].torrent
           /\ Further(q).got =
                 Append(req[q].got, file[NameOf[req[q].torrent]][Len(req[q].got) + 1])
           /\ Step(q, Further(q))
<1> DEFINE c == file[Path(req[q].torrent)]
           i == Len(req[q].got) + 1
<1>1. req[q].pc \in Reading /\ i <= Len(c) /\ Step(q, Further(q))
  BY DEF ReadPiece, Reading, Further
<1>2. /\ c \in Seq(Torrents) /\ req[q].got \in Seq(Torrents)
      /\ c = file[NameOf[req[q].torrent]]
  BY <1>1, ReadType DEF Reading, Working
<1>3. c[i] \in Torrents
  BY <1>1, <1>2
<1>4. Append(req[q].got, c[i]) \in Seq(Torrents)
  BY <1>2, <1>3
<1>5. Known(req[q])
  BY DEF TypeInv
<1> DEFINE g == Append(req[q].got, c[i])
<1>6. Further(q) = [req[q] EXCEPT !.got = g]
  BY DEF Further
<1> HIDE DEF g
<1>7. /\ Further(q) \in Request
      /\ Further(q).pc = req[q].pc /\ Further(q).torrent = req[q].torrent
      /\ Further(q).pos = req[q].pos /\ Further(q).got = g
  BY <1>4, <1>5, <1>6 DEF Known, Request, g
<1>8. Known(Further(q))
  BY <1>5, <1>7 DEF Known
<1> QED
  BY <1>1, <1>2, <1>7, <1>8 DEF g

\* A request of qBittorrent that has sent the file starts to read it again.
Again(q) == [req[q] EXCEPT !.pc = "read", !.got = <<>>]

LEMMA AgainKnown ==
    ASSUME TypeInv, NEW q \in Requests, At(q, "upload")
    PROVE  /\ Known(Again(q))
           /\ Again(q).pc = "read" /\ Again(q).got = <<>>
           /\ Again(q).torrent = req[q].torrent
<1>1. Known(req[q]) /\ req[q].pc = "upload"
  BY DEF TypeInv, At
<1>2. /\ Again(q) \in Request
      /\ Again(q).pc = "read" /\ Again(q).got = <<>>
      /\ Again(q).torrent = req[q].torrent /\ Again(q).pos = req[q].pos
  <2>1. req[q] \in Request /\ <<>> \in Seq(Torrents)
    BY <1>1 DEF Known
  <2> QED
    BY <2>1 DEF Again, Request
<1> QED
  BY <1>1, <1>2 DEF Known, Working

\* How an upload of the torrent d ends.
LEMMA UploadEnds ==
    ASSUME NEW q \in Requests, NEW d, AddTransmission(q, d) \/ AddQbit(q, d)
    PROVE  \/ d # None /\ Step(q, Ended(req[q].torrent, d))
           \/ client = "qbit" /\ Step(q, Again(q))
           \/ d = None /\ Fails(q, "refused")
BY DEF AddTransmission, AddQbit, Answered, Ended, Again

LEMMA UploadType ==
    ASSUME TypeInv, NEW q \in Requests, Upload(q)
    PROVE  RequestsOK' /\ held' \subseteq Torrents \cup {Mixed}
<1>1. RequestsOK /\ RestOK
  BY TypeParts
<1>2. At(q, "upload") /\ req[q].torrent \in Torrents
  BY ReadType DEF Upload, At, Working
<1>3. PICK d \in Decoded(req[q].got) :
          \/ (Adds(d) \/ Declines) /\ (AddTransmission(q, d) \/ AddQbit(q, d))
          \/ Adds(d) /\ Fails(q, "failed")
          \/ UNCHANGED held /\ Fails(q, "failed")
  BY DEF Upload
<1>4. d \in Torrents \cup {Mixed, None}
  BY DecodedType
<1>5. held' \subseteq Torrents \cup {Mixed}
  BY <1>1, <1>3, <1>4 DEF Adds, Declines, RestOK
<1>6. CASE Fails(q, "failed") \/ Fails(q, "refused")
  BY <1>1, <1>5, <1>6, FailKnown
<1>7. CASE Step(q, Again(q))
  BY <1>1, <1>2, <1>5, <1>7, AgainKnown, StepKnown
<1>8. CASE Step(q, Ended(req[q].torrent, d))
  BY <1>1, <1>2, <1>4, <1>5, <1>8, DoneKnown, StepKnown
<1> QED
  BY <1>3, <1>5, <1>6, <1>7, <1>8, UploadEnds

LEMMA ReadHashType ==
    ASSUME TypeInv, NEW q \in Requests, ReadHash(q)
    PROVE  RequestsOK'
<1>1. RequestsOK
  BY TypeParts
<1>2. req[q].torrent \in Torrents
  BY ReadType DEF ReadHash, At, Working
<1>3. PICK d \in Decoded(req[q].got) :
          \/ d = None /\ Fails(q, "refused")
          \/ d # None /\ Step(q, Ended(req[q].torrent, d))
  BY DEF ReadHash, Answered, Ended
<1>4. CASE Fails(q, "refused")
  BY <1>1, <1>4, FailKnown
<1>5. CASE Step(q, Ended(req[q].torrent, d))
  BY <1>1, <1>2, <1>5, DecodedType, DoneKnown, StepKnown
<1> QED
  BY <1>3, <1>4, <1>5

LEMMA RestartType ==
    ASSUME Restart PROVE RequestsOK'
BY IdleKnown DEF Restart, RequestsOK, Known

LEMMA UpdateType ==
    ASSUME RestOK, NEW n \in Names, Update(n) PROVE RestOK'
<1>1. PICK t \in Torrents : NameOf[t] = n /\ published' = [published EXCEPT ![n] = t]
  BY DEF Update
<1>2. published' \in [Names -> Torrents] /\ \A m \in Names : NameOf[published'[m]] = m
  BY <1>1 DEF RestOK
<1> QED
  BY <1>2 DEF Update, RestOK

LEMMA TypeStep ==
    ASSUME TypeInv, [Next]_vars PROVE TypeInv'
<1>0. FilesOK /\ RestOK /\ RequestsOK
  BY TypeParts
<1> SUFFICES FilesOK' /\ RestOK' /\ RequestsOK'
  BY DEF TypeInv, TypeOK, FilesOK, RestOK, RequestsOK, Known
<1>1. CASE UNCHANGED vars
  BY <1>0, <1>1 DEF vars, FilesOK, RestOK, RequestsOK
<1>2. CASE Restart
  BY <1>0, <1>2, RestartType DEF Restart, FilesOK, RestOK
<1>3. ASSUME NEW n \in Names, Update(n)
      PROVE  FilesOK' /\ RestOK' /\ RequestsOK'
  BY <1>0, <1>3, UpdateType DEF Update, FilesOK, RequestsOK
<1>4. ASSUME NEW q \in Requests, NEW n \in Names, Download(q, n)
      PROVE  FilesOK' /\ RestOK' /\ RequestsOK'
  BY <1>0, <1>4, DownloadType DEF Download, FilesOK, RestOK
<1>5. ASSUME NEW q \in Requests, Open(q)
      PROVE  FilesOK' /\ RestOK' /\ RequestsOK'
  BY <1>0, <1>5, OpenType DEF Open, Opens, FilesOK, RestOK
<1>6. ASSUME NEW q \in Requests, Write(q)
      PROVE  FilesOK' /\ RestOK' /\ RequestsOK'
  BY <1>0, <1>6, WriteType DEF Write, RestOK
<1>7. ASSUME NEW q \in Requests, ReadPiece(q)
      PROVE  FilesOK' /\ RestOK' /\ RequestsOK'
  BY <1>0, <1>7, FurtherKnown, StepKnown DEF ReadPiece, FilesOK, RestOK
<1>8. ASSUME NEW q \in Requests, Upload(q)
      PROVE  FilesOK' /\ RestOK' /\ RequestsOK'
  BY <1>0, <1>8, UploadType DEF Upload, FilesOK, RestOK
<1>9. ASSUME NEW q \in Requests, ReadHash(q)
      PROVE  FilesOK' /\ RestOK' /\ RequestsOK'
  BY <1>0, <1>9, ReadHashType DEF ReadHash, FilesOK, RestOK
<1> QED
  BY <1>1, <1>2, <1>3, <1>4, <1>5, <1>6, <1>7, <1>8, <1>9 DEF Next

\* Files, requests and the client have the types that TypeOK states; no file
\* grows beyond the longest torrent of its name, whatever requests write to
\* it, in whatever order, and wherever they stop.
THEOREM TorrentFileTypeCorrect == Spec => []TypeOK
<1>1. TypeInv => TypeOK
  BY DEF TypeInv
<1> QED
  BY InitType, TypeStep, <1>1, PTL DEF Spec

-----------------------------------------------------------------------------
\* What is in the files, and what is sent.

\* What starts with one torrent is decoded as it, and as nothing else.
LEMMA DecodedWhole ==
    ASSUME NEW c \in Seq(Torrents), NEW t \in Torrents, Whole(c, t)
    PROVE  Decoded(c) = {t}
<1>1. \A u \in Torrents : SizeOf[u] \in Nat \ {0}
  BY TorrentFileAssumption
<1>2. c[1] = t
  BY <1>1 DEF Whole
<1>3. ASSUME NEW u \in Torrents, Whole(c, u) PROVE u = t
  BY <1>1, <1>2, <1>3 DEF Whole
<1>4. {u \in Torrents : Whole(c, u)} = {t}
  BY <1>3
<1> QED
  BY <1>4 DEF Decoded

\* What is read to its end of a file with a torrent is that torrent.
LEMMA AllReadDecoded ==
    ASSUME TypeInv, NEW q \in Requests, Right(q), req[q].pc \in Reading, AllRead(q)
    PROVE  Decoded(req[q].got) = {req[q].torrent}
<1> DEFINE t == req[q].torrent
           c == file[NameOf[t]]
<1>1. /\ t \in Torrents /\ SizeOf[t] \in Nat \ {0} /\ Path(t) = NameOf[t]
      /\ c \in Seq(Torrents) /\ req[q].got \in Seq(Torrents)
  BY ReadType DEF Reading, Working
<1>2. Whole(c, t) /\ Reads(req[q].got, t)
  BY DEF Right
<1>3. Len(c) <= Len(req[q].got)
  BY <1>1 DEF AllRead
<1>4. SizeOf[t] <= Len(req[q].got)
  BY <1>1, <1>2, <1>3 DEF Whole
<1>5. Whole(req[q].got, t)
  BY <1>1, <1>2, <1>4 DEF Whole, Reads
<1> QED
  BY <1>1, <1>5, DecodedWhole

\* What a step does to a file that holds the start of its torrent, it keeps.
Kept(n) ==
    /\ Len(file[n]) <= Len(file'[n])
    /\ \A i \in 1..Len(file[n]) :
          file[n][i] = published[n] => file'[n][i] = published[n]

\* Nothing that a step of others does makes a request wrong.
LEMMA RightKept ==
    ASSUME TypeInv, TypeInv', NEW p \in Requests, Right(p), req'[p] = req[p],
           held \subseteq held', UNCHANGED client,
           req[p].pc \in Working =>
              LET n == NameOf[req[p].torrent] IN published'[n] = published[n] /\ Kept(n)
    PROVE  Right(p)'
<1> DEFINE t == req[p].torrent
           n == NameOf[t]
<1>1. CASE req[p].pc \notin Working
  BY <1>1 DEF Right, Working, Reading
<1>2. CASE req[p].pc \in Working
  <2>1. /\ t \in Torrents /\ SizeOf[t] \in Nat \ {0}
        /\ file[n] \in Seq(Torrents) /\ req[p].pos \in Nat
    BY <1>2, ReadType
  <2>2. file'[n] \in Seq(Torrents)
    BY <2>1, TorrentFileAssumption DEF TypeInv, TypeOK
  <2>3. t = published[n] /\ published'[n] = published[n] /\ Kept(n)
    BY <1>2 DEF Right
  <2>4. ASSUME NEW k \in Nat, Starts(file[n], t, k) PROVE Starts(file'[n], t, k)
    <3>1. Len(file[n]) \in Nat /\ Len(file'[n]) \in Nat
      BY <2>1, <2>2
    <3>2. k <= Len(file[n]) /\ \A i \in 1..k : file[n][i] = t
      BY <2>4 DEF Starts
    <3>3. \A i \in 1..k : i \in 1..Len(file[n])
      BY <3>1, <3>2
    <3>4. \A i \in 1..k : file'[n][i] = t
      BY <2>3, <3>2, <3>3 DEF Kept
    <3>5. k <= Len(file'[n])
      BY <2>3, <3>1, <3>2 DEF Kept
    <3> QED
      BY <3>4, <3>5 DEF Starts
  <2>5. Whole(file[n], t) => Whole(file'[n], t)
    BY <2>1, <2>4 DEF Whole, Starts
  <2>6. req[p].pc = "write" => Starts(file'[n], t, req[p].pos)
    BY <2>1, <2>4 DEF Right
  <2> QED
    BY <1>2, <2>3, <2>5, <2>6 DEF Right, Working, Reading
<1> QED
  BY <1>1, <1>2

\* A request that failed, or that has not started, is not wrong.
LEMMA RightAtRest ==
    ASSUME NEW q \in Requests, req'[q].pc \in {"idle", "failed"}
    PROVE  Right(q)'
BY DEF Right, Working, Reading

LEMMA SameFiles ==
    ASSUME TypeInv, UNCHANGED file, NEW n \in Names PROVE Kept(n)
<1>1. Len(file[n]) \in Nat
  BY DEF TypeInv, TypeOK
<1> QED
  BY <1>1 DEF Kept

\* A step of one request that changes no file.
LEMMA OthersRight ==
    ASSUME TypeInv, TypeInv', SentInv, NEW q \in Requests, UNCHANGED <<published, file>>,
           held \subseteq held', UNCHANGED client,
           \A p \in Requests \ {q} : req'[p] = req[p]
    PROVE  \A p \in Requests \ {q} : Right(p)'
<1> SUFFICES ASSUME NEW p \in Requests \ {q} PROVE Right(p)'
  OBVIOUS
<1>1. req[p].pc \in Working => NameOf[req[p].torrent] \in Names
  BY ReadType
<1>2. req[p].pc \in Working => Kept(NameOf[req[p].torrent])
  BY <1>1, SameFiles
<1>3. Right(p) /\ req'[p] = req[p]
  BY DEF SentInv
<1> QED
  BY <1>2, <1>3, RightKept

\* What a failed step of a request leaves.
LEMMA FailRight ==
    ASSUME TypeInv, NEW q \in Requests, Fails(q, "failed")
    PROVE  Right(q)' /\ \A p \in Requests \ {q} : req'[p] = req[p]
<1>1. RequestsOK
  BY TypeParts
<1>2. req'[q].pc = "failed" /\ \A p \in Requests \ {q} : req'[p] = req[p]
  BY <1>1, FailKnown
<1> QED
  BY <1>2, RightAtRest

LEMMA DownloadSent ==
    ASSUME Inv, TypeInv', NEW q \in Requests, NEW n \in Names, Download(q, n)
    PROVE  SentInv'
<1> DEFINE r == Opened(published[n])
<1>1. TypeInv /\ SentInv /\ RequestsOK /\ RestOK
  BY TypeParts DEF Inv
<1>2. UNCHANGED <<client, published, file, held>>
  BY DEF Download
<1>3. Right(q)' /\ \A p \in Requests \ {q} : req'[p] = req[p]
  <2>1. CASE Step(q, r)
    <3>1. published[n] \in Torrents /\ NameOf[published[n]] = n
      BY <1>1 DEF RestOK
    <3>2. req'[q] = r /\ \A p \in Requests \ {q} : req'[p] = req[p]
      BY <1>1, <2>1, <3>1, OpenedKnown, StepKnown
    <3>3. r.pc = "open" /\ r.torrent = published[n] /\ r.got = <<>>
      BY <3>1, OpenedKnown
    <3> QED
      BY <1>2, <3>1, <3>2, <3>3 DEF Right, Working, Reading
  <2>2. CASE Fails(q, "failed")
    BY <1>1, <2>2, FailRight
  <2> QED
    BY <2>1, <2>2 DEF Download, Opened
<1>4. \A p \in Requests \ {q} : Right(p)'
  BY <1>1, <1>2, <1>3, OthersRight
<1> QED
  BY <1>1, <1>2, <1>3, <1>4 DEF SentInv

LEMMA OpenSent ==
    ASSUME Inv, TypeInv', NEW q \in Requests, Open(q)
    PROVE  SentInv'
<1> DEFINE r == [req[q] EXCEPT !.pc = "write"]
<1>1. TypeInv /\ SentInv /\ RequestsOK
  BY TypeParts DEF Inv
<1>2. UNCHANGED <<client, published, file, held>>
  BY DEF Open, Opens
<1>3. Right(q)' /\ \A p \in Requests \ {q} : req'[p] = req[p]
  <2>1. CASE Step(q, r)
    <3>1. req[q] \in Request /\ req[q].pc = "open" /\ req[q].pos = 0
      BY <1>1 DEF TypeInv, Known, Open, At
    <3>2. req'[q] = r /\ \A p \in Requests \ {q} : req'[p] = req[p]
      BY <1>1, <2>1 DEF Step, RequestsOK
    <3>3. /\ r.pc = "write" /\ r.torrent = req[q].torrent
          /\ r.pos = 0 /\ r.got = req[q].got
      BY <3>1 DEF Request
    <3>4. /\ req[q].torrent = published[NameOf[req[q].torrent]]
          /\ req[q].got = <<>>
      BY <1>1, <3>1 DEF SentInv, Right, Working
    <3>5. Starts(file[NameOf[req[q].torrent]], req[q].torrent, 0)
      <4>1. Len(file[NameOf[req[q].torrent]]) \in Nat
        BY <1>1, <3>1, ReadType DEF Working
      <4> QED
        BY <4>1 DEF Starts
    <3> HIDE DEF r
    <3> QED
      BY <1>2, <3>2, <3>3, <3>4, <3>5 DEF Right, Working, Reading
  <2>2. CASE Fails(q, "failed")
    BY <1>1, <2>2, FailRight
  <2> QED
    BY <2>1, <2>2 DEF Open
<1>4. \A p \in Requests \ {q} : Right(p)'
  BY <1>1, <1>2, <1>3, OthersRight
<1> QED
  BY <1>1, <1>2, <1>3, <1>4 DEF SentInv

\* Writing the next piece of a torrent: the start is longer by one, and any
\* piece of that torrent stays one.
LEMMA PutStarts ==
    ASSUME NEW c \in Seq(Torrents), NEW t \in Torrents, NEW k \in Nat, Starts(c, t, k)
    PROVE  LET d == Put(c, k + 1, t) IN
           /\ Starts(d, t, k + 1)
           /\ Len(c) <= Len(d)
           /\ \A i \in 1..Len(c) : c[i] = t => d[i] = t
<1> DEFINE d == Put(c, k + 1, t)
<1>1. Len(c) \in Nat /\ k <= Len(c) /\ \A i \in 1..k : c[i] = t
  BY DEF Starts
<1>2. k + 1 \in 1..(Len(c) + 1)
  BY <1>1
<1>3. /\ d \in Seq(Torrents)
      /\ Len(d) = IF k + 1 <= Len(c) THEN Len(c) ELSE k + 1
      /\ d[k + 1] = t
      /\ \A i \in 1..Len(c) : i # k + 1 => d[i] = c[i]
  BY <1>2, PutPiece
<1> HIDE DEF d
<1>4. \A i \in 1..Len(c) : c[i] = t => d[i] = t
  BY <1>3
<1>5. \A i \in 1..(k + 1) : i = k + 1 \/ (i \in 1..k /\ i \in 1..Len(c))
  BY <1>1
<1>6. \A i \in 1..(k + 1) : d[i] = t
  BY <1>1, <1>3, <1>4, <1>5
<1>7. k + 1 <= Len(d) /\ Len(c) <= Len(d)
  BY <1>1, <1>3
<1> QED
  BY <1>4, <1>6, <1>7 DEF Starts, d

LEMMA WriteSent ==
    ASSUME Inv, TypeInv', NEW q \in Requests, Write(q)
    PROVE  SentInv'
<1> DEFINE t == req[q].torrent
           n == NameOf[t]
           i == req[q].pos + 1
<1>1. TypeInv /\ SentInv /\ RequestsOK /\ FilesOK
  BY TypeParts DEF Inv
<1>2. UNCHANGED <<client, published, held>>
  BY DEF Write
<1>3. CASE UNCHANGED file /\ Fails(q, "failed")
  <2>1. Right(q)' /\ \A p \in Requests \ {q} : req'[p] = req[p]
    BY <1>1, <1>3, FailRight
  <2>2. \A p \in Requests \ {q} : Right(p)'
    BY <1>1, <1>2, <1>3, <2>1, OthersRight
  <2> QED
    BY <1>1, <1>2, <2>1, <2>2 DEF SentInv
<1>4. CASE file' = [file EXCEPT ![Path(t)] = Put(@, i, t)] /\ Step(q, Written(q))
  <2>1. At(q, "write") /\ Right(q)
    BY <1>1 DEF Write, SentInv
  <2>2. /\ t \in Torrents /\ n \in Names /\ SizeOf[t] \in Nat \ {0}
        /\ file[n] \in Seq(Torrents) /\ req[q].pos \in Nat
    BY <1>1, <2>1, ReadType DEF At, Working
  <2>3. /\ Known(Written(q)) /\ i \in 1..SizeOf[t]
        /\ Written(q).pc = IF i = SizeOf[t] THEN "upload" ELSE "write"
        /\ Written(q).pos = i /\ Written(q).torrent = t /\ Written(q).got = req[q].got
    BY <1>1, <2>1, WrittenKnown
  <2>4. /\ t = published[n] /\ req[q].got = <<>>
        /\ Starts(file[n], t, req[q].pos)
    BY <2>1 DEF Right, At, Working
  <2>5. /\ file'[n] = Put(file[n], i, t)
        /\ \A m \in Names \ {n} : file'[m] = file[m]
    <3>1. i \in Nat \ {0} /\ i <= SizeOf[t]
      BY <2>2, <2>3
    <3> QED
      BY <1>1, <1>4, <2>2, <3>1, PutFits
  <2>6. /\ Starts(file'[n], t, i)
        /\ Len(file[n]) <= Len(file'[n])
        /\ \A k \in 1..Len(file[n]) : file[n][k] = t => file'[n][k] = t
    BY <2>2, <2>4, <2>5, PutStarts
  <2>7. \A m \in Names : Kept(m)
    <3> SUFFICES ASSUME NEW m \in Names PROVE Kept(m)
      OBVIOUS
    <3>1. CASE m = n
      BY <2>4, <2>6, <3>1 DEF Kept
    <3>2. CASE m # n
      <4>1. Len(file[m]) \in Nat /\ file'[m] = file[m]
        BY <1>1, <2>5, <3>2 DEF FilesOK
      <4> QED
        BY <4>1 DEF Kept
    <3> QED
      BY <3>1, <3>2
  <2>8. req'[q] = Written(q) /\ \A p \in Requests \ {q} : req'[p] = req[p]
    BY <1>1, <1>4, <2>3, StepKnown
  <2>9. Right(q)'
    <3>1. CASE i = SizeOf[t]
      <4>1. Whole(file'[n], t) /\ Reads(<<>>, t)
        BY <2>6, <3>1 DEF Whole, Starts, Reads
      <4>2. req'[q].pc = "upload" /\ req'[q].torrent = t /\ req'[q].got = <<>>
        BY <2>3, <2>4, <2>8, <3>1
      <4> QED
        BY <1>2, <2>4, <4>1, <4>2 DEF Right, Working, Reading
    <3>2. CASE i # SizeOf[t]
      <4>1. /\ req'[q].pc = "write" /\ req'[q].torrent = t
            /\ req'[q].pos = i /\ req'[q].got = <<>>
        BY <2>3, <2>4, <2>8, <3>2
      <4> QED
        BY <1>2, <2>4, <2>6, <4>1 DEF Right, Working, Reading
    <3> QED
      BY <3>1, <3>2
  <2>10. ASSUME NEW p \in Requests \ {q} PROVE Right(p)'
    <3>1. req[p].pc \in Working => NameOf[req[p].torrent] \in Names
      BY <1>1, ReadType
    <3>2. Right(p) /\ req'[p] = req[p]
      BY <1>1, <2>8 DEF SentInv
    <3> QED
      BY <1>1, <1>2, <2>7, <3>1, <3>2, RightKept
  <2> QED
    BY <1>1, <1>2, <2>9, <2>10 DEF SentInv
<1> QED
  BY <1>3, <1>4 DEF Write, Written

LEMMA ReadPieceSent ==
    ASSUME Inv, TypeInv', NEW q \in Requests, ReadPiece(q)
    PROVE  SentInv'
<1> DEFINE t == req[q].torrent
           c == file[NameOf[t]]
           g == req[q].got
<1>1. TypeInv /\ SentInv /\ RequestsOK /\ Right(q)
  BY TypeParts DEF Inv, SentInv
<1>2. UNCHANGED <<client, published, file, held>> /\ req[q].pc \in Reading
  BY DEF ReadPiece, Reading
<1>3. /\ Known(Further(q)) /\ Step(q, Further(q))
      /\ Further(q).pc = req[q].pc /\ Further(q).torrent = t
      /\ Further(q).got = Append(g, c[Len(g) + 1])
  BY <1>1, FurtherKnown
<1>4. req'[q] = Further(q) /\ \A p \in Requests \ {q} : req'[p] = req[p]
  BY <1>1, <1>3, StepKnown
<1>5. /\ t \in Torrents /\ SizeOf[t] \in Nat \ {0}
      /\ c \in Seq(Torrents) /\ g \in Seq(Torrents) /\ Path(t) = NameOf[t]
  BY <1>1, <1>2, ReadType DEF Reading, Working
<1>6. Whole(c, t) /\ Reads(g, t) /\ t = published[NameOf[t]]
  BY <1>1, <1>2 DEF Right, Reading, Working
<1>7. Reads(Append(g, c[Len(g) + 1]), t)
  <2> DEFINE h == Append(g, c[Len(g) + 1])
  <2> SUFFICES ASSUME NEW i \in 1..SizeOf[t], i <= Len(h) PROVE h[i] = t
    BY DEF Reads
  <2>1. Len(h) = Len(g) + 1
    BY <1>5
  <2>2. CASE i <= Len(g)
    <3>1. h[i] = g[i]
      BY <1>5, <2>2
    <3>2. g[i] = t
      BY <1>6, <2>2 DEF Reads
    <3> QED
      BY <3>1, <3>2
  <2>3. CASE ~(i <= Len(g))
    <3>1. i = Len(g) + 1
      BY <1>5, <2>1, <2>3
    <3>2. c[i] = t
      BY <1>6 DEF Whole
    <3> QED
      BY <1>5, <3>1, <3>2
  <2> QED
    BY <2>2, <2>3
<1>8. Right(q)'
  <2>1. /\ req'[q].pc = req[q].pc /\ req'[q].torrent = t
        /\ Reads(req'[q].got, t)
    BY <1>3, <1>4, <1>7
  <2> QED
    BY <1>1, <1>2, <1>6, <2>1 DEF Right, Reading, Working
<1>9. \A p \in Requests \ {q} : Right(p)'
  BY <1>1, <1>2, <1>4, OthersRight
<1> QED
  BY <1>1, <1>2, <1>8, <1>9 DEF SentInv

LEMMA UploadSent ==
    ASSUME Inv, TypeInv', NEW q \in Requests, Upload(q)
    PROVE  SentInv'
<1> DEFINE t == req[q].torrent
<1>1. TypeInv /\ SentInv /\ RequestsOK /\ Right(q)
  BY TypeParts DEF Inv, SentInv
<1>2. UNCHANGED <<client, published, file>> /\ req[q].pc = "upload" /\ AllRead(q)
  BY DEF Upload, At
<1>3. t \in Torrents /\ t # None /\ t # Mixed /\ Mixed # None
  BY <1>1, <1>2, ReadType, TorrentFileAssumption DEF Working
<1>4. Decoded(req[q].got) = {t}
  BY <1>1, <1>2, AllReadDecoded DEF Reading
<1>5. \/ (Adds(t) \/ Declines) /\ (AddTransmission(q, t) \/ AddQbit(q, t))
      \/ Adds(t) /\ Fails(q, "failed")
      \/ UNCHANGED held /\ Fails(q, "failed")
  BY <1>4 DEF Upload
<1>6. held \subseteq held'
  BY <1>3, <1>5 DEF Adds, Declines
<1>7. Right(q)' /\ \A p \in Requests \ {q} : req'[p] = req[p]
  <2>1. CASE Fails(q, "failed")
    BY <1>1, <2>1, FailRight
  <2>2. CASE (Adds(t) \/ Declines) /\ Step(q, Ended(t, t))
    <3>1. req'[q] = Ended(t, t) /\ \A p \in Requests \ {q} : req'[p] = req[p]
      BY <1>1, <1>3, <2>2, DoneKnown, StepKnown
    <3>2. req'[q].pc = "done" /\ req'[q].torrent = t /\ req'[q].id = t
      BY <1>3, <3>1, DoneKnown
    <3>3. client' = "transmission" => t \in held'
      BY <1>2, <1>3, <2>2 DEF Adds, Declines
    <3> QED
      BY <3>1, <3>2, <3>3 DEF Right, Working, Reading
  <2>3. CASE client = "qbit" /\ Step(q, Again(q))
    <3>1. req'[q] = Again(q) /\ \A p \in Requests \ {q} : req'[p] = req[p]
      BY <1>1, <1>2, <2>3, AgainKnown, StepKnown DEF At
    <3>2. req'[q].pc = "read" /\ req'[q].torrent = t /\ req'[q].got = <<>>
      BY <1>1, <1>2, <3>1, AgainKnown DEF At
    <3>3. t = published[NameOf[t]] /\ Whole(file[NameOf[t]], t)
      BY <1>1, <1>2 DEF Right, Working, Reading
    <3>4. Reads(<<>>, t)
      <4>1. \A i \in 1..SizeOf[t] : ~(i <= Len(<<>>))
        OBVIOUS
      <4> QED
        BY <4>1 DEF Reads
    <3> QED
      BY <1>2, <2>3, <3>1, <3>2, <3>3, <3>4 DEF Right, Working, Reading
  <2> QED
    BY <1>3, <1>5, <2>1, <2>2, <2>3, UploadEnds
<1>8. \A p \in Requests \ {q} : Right(p)'
  BY <1>1, <1>2, <1>6, <1>7, OthersRight
<1> QED
  BY <1>1, <1>6, <1>7, <1>8 DEF SentInv

LEMMA ReadHashSent ==
    ASSUME Inv, TypeInv', NEW q \in Requests, ReadHash(q)
    PROVE  SentInv'
<1> DEFINE t == req[q].torrent
<1>1. TypeInv /\ SentInv /\ RequestsOK /\ Right(q)
  BY TypeParts DEF Inv, SentInv
<1>2. UNCHANGED <<client, published, file, held>> /\ req[q].pc = "read" /\ AllRead(q)
  BY DEF ReadHash, At
<1>3. t \in Torrents /\ t # None
  BY <1>1, <1>2, ReadType, TorrentFileAssumption DEF Working
<1>4. Decoded(req[q].got) = {t}
  BY <1>1, <1>2, AllReadDecoded DEF Reading
<1>5. Step(q, Ended(t, t))
  BY <1>3, <1>4 DEF ReadHash, Answered, Ended
<1>6. req'[q] = Ended(t, t) /\ \A p \in Requests \ {q} : req'[p] = req[p]
  BY <1>1, <1>3, <1>5, DoneKnown, StepKnown
<1>7. Right(q)'
  <2>1. req'[q].pc = "done" /\ req'[q].torrent = t /\ req'[q].id = t
    BY <1>3, <1>6, DoneKnown
  <2>2. client' = "qbit"
    BY <1>1, <1>2 DEF Right
  <2> QED
    BY <2>1, <2>2 DEF Right, Working, Reading
<1>8. \A p \in Requests \ {q} : Right(p)'
  BY <1>1, <1>2, <1>6, OthersRight
<1> QED
  BY <1>1, <1>2, <1>7, <1>8 DEF SentInv

\* MAM changes no torrent while a request has its file.
Quiet == UpdatesAnytime = FALSE

LEMMA UpdateSent ==
    ASSUME Quiet, Inv, TypeInv', NEW n \in Names, Update(n)
    PROVE  SentInv'
<1>1. TypeInv /\ SentInv
  BY DEF Inv
<1>2. ~Busy(n) /\ UNCHANGED <<client, file, held, req>> /\ \A m \in Names \ {n} : published'[m] = published[m]
  BY <1>1 DEF Update, Quiet, TypeInv, TypeOK
<1>3. ASSUME NEW p \in Requests PROVE Right(p)'
  <2>1. Right(p) /\ req'[p] = req[p]
    BY <1>1, <1>2 DEF SentInv
  <2>2. CASE req[p].pc \in Working
    <3>1. NameOf[req[p].torrent] \in Names \ {n}
      BY <1>1, <1>2, <2>2, ReadType DEF Busy, Working
    <3>2. Kept(NameOf[req[p].torrent])
      BY <1>1, <1>2, <3>1, SameFiles
    <3> QED
      BY <1>1, <1>2, <2>1, <3>1, <3>2, RightKept
  <2>3. CASE req[p].pc \notin Working
    BY <1>1, <1>2, <2>1, <2>3, RightKept
  <2> QED
    BY <2>2, <2>3
<1> QED
  BY <1>1, <1>2, <1>3 DEF SentInv

LEMMA RestartSent ==
    ASSUME Inv, Restart PROVE SentInv'
<1>1. \A q \in Requests : req'[q].pc = "idle"
  BY IdleType DEF Restart
<1>2. \A q \in Requests : Right(q)'
  BY <1>1, RightAtRest
<1> QED
  BY <1>2 DEF Inv, Restart, SentInv

LEMMA InitSent == Init => Inv
<1> SUFFICES ASSUME Init PROVE Inv
  OBVIOUS
<1>1. \A q \in Requests : req[q].pc = "idle"
  BY IdleType DEF Init
<1> QED
  BY <1>1, InitType DEF Inv, SentInv, Right, Working, Reading, Init

LEMMA StepSent ==
    ASSUME Quiet, Inv, [Next]_vars PROVE Inv'
<1>1. TypeInv'
  BY TypeStep DEF Inv
<1>2. CASE UNCHANGED vars
  BY <1>1, <1>2 DEF vars, Inv, SentInv, Right, Starts, Whole, Reads
<1>3. CASE Restart
  BY <1>1, <1>3, RestartSent DEF Inv
<1>4. CASE \E n \in Names : Update(n)
  BY <1>1, <1>4, UpdateSent DEF Inv
<1>5. ASSUME NEW q \in Requests,
             \/ \E n \in Names : Download(q, n)
             \/ Open(q) \/ Write(q) \/ ReadPiece(q) \/ Upload(q) \/ ReadHash(q)
      PROVE  SentInv'
  BY <1>1, <1>5, DownloadSent, OpenSent, WriteSent, ReadPieceSent, UploadSent, ReadHashSent
<1> QED
  BY <1>1, <1>2, <1>3, <1>4, <1>5 DEF Next, Inv

\* As long as MAM changes no torrent while a request has its file: the id
\* DownloadMedia stores is that of the torrent the request downloaded, and
\* transmission has it, for any number of requests that overlap, fail halfway
\* or find a longer file under their name.
THEOREM StoredIdsAreSent == Quiet => (Spec => []IdOfRequest)
<1> SUFFICES ASSUME Quiet PROVE Spec => []IdOfRequest
  OBVIOUS
<1>1. Inv => IdOfRequest
  BY DEF Inv, SentInv, Right, IdOfRequest, At
<1>2. Inv /\ [Next]_vars => Inv'
  BY StepSent
<1> QED
  BY InitSent, <1>1, <1>2, PTL DEF Spec

\* ... and no request fails because of what is in its file.
THEOREM NoFileRefused == Quiet => (Spec => []FileWhole)
<1> SUFFICES ASSUME Quiet PROVE Spec => []FileWhole
  OBVIOUS
<1>1. Inv => FileWhole
  BY DEF Inv, SentInv, Right, FileWhole, At
<1>2. Inv /\ [Next]_vars => Inv'
  BY StepSent
<1> QED
  BY InitSent, <1>1, <1>2, PTL DEF Spec
===============================================================================
