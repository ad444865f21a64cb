------------------------------- MODULE Finalize -------------------------------
(***************************************************************************)
(* finalizeDownload of core/internal/downloads/service.go over             *)
(* core/pkg/file_utils/hardlink.go: the files of a finished torrent are    *)
(* linked into the library one by one, copied if that fails, and the       *)
(* owner of the whole category is changed.                                 *)
(*                                                                         *)
(* A file is a name and an inode.  The torrent client's names lead to      *)
(* inodes with n = 0, a copy made after n finalizations were begun has an  *)
(* inode of its own.  A link gives a name in the library to the torrent    *)
(* client's inode, so that what is done to the library may be done to it.  *)
(***************************************************************************)
EXTENDS Integers

CONSTANTS
    Downloads,     \* finished torrents, all of one category
    FilesOf,       \* the names of the files of each
    DestOf,        \* CompleteDir/category/author/title of each
    Linkable,      \* those downloaded to the device the library is on
    Faults,        \* what may fail: "link", "chmod", "open", "space", "chown"
    MaxRuns,       \* bound: finalizations in a behaviour
    MaxMishaps     \* bound: crashes and removals of data in a behaviour

ASSUME FinalizeAssumption ==
    /\ FilesOf \in [Downloads -> (SUBSET Nat) \ {{}}]
    /\ Linkable \subseteq Downloads
    /\ MaxRuns \in Nat
    /\ MaxMishaps \in Nat

VARIABLES
    present,       \* torrents whose data is at the download location
    library,       \* names below CompleteDir and their inodes
    content,       \* what an inode holds
    owned,         \* inodes given to the configured user and group
    copied,        \* torrents that were copied: "trying to copy instead"
    fin,           \* each finalizeDownload: where it is, its walk, its open file
    runs, mishaps  \* how much of the bounds is used

disk == <<present, library, content, owned>>
vars == <<disk, copied, fin, runs, mishaps>>

Names == UNION {FilesOf[d] : d \in Downloads}
Dests == {DestOf[d] : d \in Downloads}

Inode == [of : Downloads, file : Names, n : 0..MaxRuns]
Content == [of : Downloads, file : Names, whole : BOOLEAN]
Name == [dest : Dests, file : Names]
Entry == [dest : Dests, file : Names, inode : Inode]

Source(d, f) == [of |-> d, file |-> f, n |-> 0]
Data(d, f) == [of |-> d, file |-> f, whole |-> TRUE]

Pc == {"idle", "remove", "link", "chmod", "recopy", "open", "fill",
       "list", "chown", "ok", "error"}

Walking == {"remove", "link", "chmod", "open", "fill"}

\* Where a finalization is, the files left to walk, what it has open and listed.
Run == [pc : Pc, todo : SUBSET Names, fd : SUBSET Inode, seen : SUBSET Name]

TypeOK ==
    /\ present \subseteq Downloads
    /\ library \subseteq Entry
    /\ content \in [Inode -> Content]
    /\ owned \subseteq Inode
    /\ copied \subseteq Downloads
    /\ fin \in [Downloads -> Run]
    /\ \A d \in Downloads : fin[d].pc \in Walking => fin[d].todo # {}
    /\ runs \in 0..MaxRuns
    /\ mishaps \in 0..MaxMishaps

At(pc) == [pc |-> pc, todo |-> {}, fd |-> {}, seen |-> {}]

Init ==
    /\ present = Downloads
    /\ library = {}
    /\ content = [i \in Inode |-> Data(i.of, i.file)]
    /\ owned = {}
    /\ copied = {}
    /\ fin = [d \in Downloads |-> At("idle")]
    /\ runs = 0
    /\ mishaps = 0

-----------------------------------------------------------------------------
Moves(d, s) == fin' = [fin EXCEPT ![d] = s]

Walk(d, pc, files) == Moves(d, [At(pc) EXCEPT !.todo = files])

\* WalkDir visits the names of a folder in lexical order.
Turn(d, f) == f \in fin[d].todo /\ \A g \in fin[d].todo : f <= g

\* Wrong on purpose: the walk ends one file too late.
AdvanceLate(d, f, pc) ==
    IF fin[d].todo = {} THEN Moves(d, At("list"))
                        ELSE Walk(d, pc, fin[d].todo \ {f})

\* The next file of a walk, or the chown after the last one.
Advance(d, f, pc) ==
    IF fin[d].todo = {f} THEN Moves(d, At("list"))
                         ELSE Walk(d, pc, fin[d].todo \ {f})

InLibrary(d, f) == {e \in library : e.dest = DestOf[d] /\ e.file = f}

Named(d, f, i) == [dest |-> DestOf[d], file |-> f, inode |-> i]

\* checkDownload saw the torrent complete, for the first time, after a crash or
\* after a Retry.  HardLinkFolder fails without the source.
Start(d) ==
    /\ fin[d].pc \in {"idle", "ok", "error"}
    /\ runs < MaxRuns
    /\ runs' = runs + 1
    /\ IF d \in present THEN Walk(d, "remove", FilesOf[d])
                        ELSE Moves(d, At("recopy"))
    /\ UNCHANGED <<disk, copied, mishaps>>

\* Wrong on purpose: RemoveAll of the destination folder.
RemoveOldFolder(d) ==
    /\ fin[d].pc = "remove"
    /\ library' = {e \in library : e.dest # DestOf[d]}
    /\ Walk(d, "link", fin[d].todo)
    /\ UNCHANGED <<present, content, owned, copied, runs, mishaps>>

\* hardlinkFile: os.Remove of what has the name.
RemoveOld(d) ==
    /\ fin[d].pc = "remove"
    /\ \E f \in fin[d].todo : Turn(d, f) /\ library' = library \ InLibrary(d, f)
    /\ Walk(d, "link", fin[d].todo)
    /\ UNCHANGED <<present, content, owned, copied, runs, mishaps>>

\* Wrong on purpose: symbolic links, which lead across devices too.
LinkAcross(d) ==
    /\ fin[d].pc = "link"
    /\ \E f \in fin[d].todo :
          /\ Turn(d, f)
          /\ d \in present /\ InLibrary(d, f) = {}
          /\ library' = library \cup {Named(d, f, Source(d, f))}
    /\ Walk(d, "chmod", fin[d].todo)
    /\ UNCHANGED <<present, content, owned, copied, runs, mishaps>>

\* hardlinkFile: os.Link.
Link(d) ==
    /\ fin[d].pc = "link"
    /\ \E f \in fin[d].todo :
          /\ Turn(d, f)
          /\ d \in Linkable \cap present /\ InLibrary(d, f) = {}
          /\ library' = library \cup {Named(d, f, Source(d, f))}
    /\ Walk(d, "chmod", fin[d].todo)
    /\ UNCHANGED <<present, content, owned, copied, runs, mishaps>>

\* hardlinkFile: os.Chmod of the name that was just linked.
Chmod(d) ==
    /\ fin[d].pc = "chmod"
    /\ \E f \in fin[d].todo :
          Turn(d, f) /\ InLibrary(d, f) # {} /\ Advance(d, f, "remove")
    /\ UNCHANGED <<disk, copied, runs, mishaps>>

\* Any step of a link may fail and ends the walk; finalizeDownload copies instead.
LinkFails(d) ==
    /\ \E f \in fin[d].todo : Turn(d, f) /\
          \/ /\ fin[d].pc = "remove"
             /\ "link" \in Faults \/ d \notin present
          \/ /\ fin[d].pc = "link"
             /\ \/ "link" \in Faults
                \/ d \notin Linkable \cap present \/ InLibrary(d, f) # {}
          \/ /\ fin[d].pc = "chmod"
             /\ "chmod" \in Faults \/ InLibrary(d, f) = {}
    /\ Moves(d, At("recopy"))
    /\ UNCHANGED <<disk, copied, runs, mishaps>>

\* CopyFolder starts over with all files.
BeginCopies(d) ==
    /\ fin[d].pc = "recopy"
    /\ IF d \in present THEN /\ Walk(d, "open", FilesOf[d])
                             /\ copied' = copied \cup {d}
                        ELSE Moves(d, At("error")) /\ UNCHANGED copied
    /\ UNCHANGED <<disk, runs, mishaps>>

\* copyFile: O_TRUNC empties the inode that has the name, also when it is the
\* torrent client's, or makes a new one.
Open(d) ==
    /\ fin[d].pc = "open"
    /\ d \in present
    /\ \E f \in fin[d].todo :
          /\ Turn(d, f)
          /\ \E i \in IF InLibrary(d, f) = {}
                      THEN {[of |-> d, file |-> f, n |-> runs]}
                      ELSE {e.inode : e \in InLibrary(d, f)} :
                /\ library' = library \cup {Named(d, f, i)}
                /\ content' = [content EXCEPT ![i].whole = FALSE]
                /\ Moves(d, [At("fill") EXCEPT !.todo = fin[d].todo, !.fd = {i}])
    /\ UNCHANGED <<present, owned, copied, runs, mishaps>>

OpenFails(d) ==
    /\ fin[d].pc = "open"
    /\ "open" \in Faults \/ d \notin present
    /\ Moves(d, At("error"))
    /\ UNCHANGED <<disk, copied, runs, mishaps>>

\* copyFile: io.Copy and Sync.  What was emptied as the source copies nothing.
Fill(d) ==
    /\ fin[d].pc = "fill"
    /\ \E f \in fin[d].todo, i \in fin[d].fd :
          /\ Turn(d, f)
          /\ content' = [content EXCEPT ![i] = content[Source(d, f)]]
          /\ Advance(d, f, "open")
    /\ UNCHANGED <<present, library, owned, copied, runs, mishaps>>

\* Wrong on purpose: the error of one file does not end the walk.
FillFailsGoesOn(d) ==
    /\ fin[d].pc = "fill"
    /\ "space" \in Faults
    /\ \E f \in fin[d].todo : Turn(d, f) /\ Advance(d, f, "open")
    /\ UNCHANGED <<disk, copied, runs, mishaps>>

\* io.Copy or Sync fails: a part of the file stays.
FillFails(d) ==
    /\ fin[d].pc = "fill"
    /\ "space" \in Faults
    /\ Moves(d, At("error"))
    /\ UNCHANGED <<disk, copied, runs, mishaps>>

\* RecursiveChown of the category: Walk reads the names of a folder when it comes
\* to it; of several folders the model reads all names at once.
List(d) ==
    /\ fin[d].pc = "list"
    /\ Moves(d, [At("chown") EXCEPT !.seen = {[dest |-> e.dest, file |-> e.file] : e \in library}])
    /\ UNCHANGED <<disk, copied, runs, mishaps>>

\* Walk visits the names it has read in lexical order.
Visited(d, s) ==
    s \in fin[d].seen /\ \A t \in fin[d].seen : t.dest = s.dest => s.file <= t.file

\* What has the name of s by now.
Renamed(s) == {e \in library : e.dest = s.dest /\ e.file = s.file}

\* os.Chown of a name is one of its inode, and so of the torrent client's file
\* when the name is a hard link.
Chown(d) ==
    /\ fin[d].pc = "chown"
    /\ \E s \in fin[d].seen :
          /\ Visited(d, s) /\ Renamed(s) # {}
          /\ owned' = owned \cup {e.inode : e \in Renamed(s)}
          /\ Moves(d, [At("chown") EXCEPT !.seen = fin[d].seen \ {s}])
    /\ UNCHANGED <<present, library, content, copied, runs, mishaps>>

\* A name is gone when it is its turn, or the process may not change owners.
ChownFails(d) ==
    /\ fin[d].pc = "chown"
    /\ \/ "chown" \in Faults
       \/ \E s \in fin[d].seen : Visited(d, s) /\ Renamed(s) = {}
    /\ Moves(d, At("error"))
    /\ UNCHANGED <<disk, copied, runs, mishaps>>

Succeed(d) ==
    /\ fin[d].pc = "chown" /\ fin[d].seen = {}
    /\ Moves(d, At("ok"))
    /\ UNCHANGED <<disk, copied, runs, mishaps>>

\* The process ends; names, inodes and the outcomes that were saved stay.
Crash ==
    /\ mishaps < MaxMishaps
    /\ mishaps' = mishaps + 1
    /\ fin' = [d \in Downloads |->
                  IF fin[d].pc \in {"ok", "error"} THEN fin[d] ELSE At("idle")]
    /\ UNCHANGED <<disk, copied, runs>>

\* A torrent is removed from the client together with its data.
RemoveData(d) ==
    /\ d \in present
    /\ mishaps < MaxMishaps
    /\ mishaps' = mishaps + 1
    /\ present' = present \ {d}
    /\ UNCHANGED <<library, content, owned, copied, fin, runs>>

FinalizeDownload(d) ==
    \/ RemoveOld(d) \/ Link(d) \/ Chmod(d) \/ LinkFails(d)
    \/ BeginCopies(d) \/ Open(d) \/ OpenFails(d) \/ Fill(d) \/ FillFails(d)
    \/ List(d) \/ Chown(d) \/ ChownFails(d) \/ Succeed(d)

Next ==
    \/ \E d \in Downloads : Start(d) \/ FinalizeDownload(d) \/ RemoveData(d)
    \/ Crash

Spec == Init /\ [][Next]_vars

-----------------------------------------------------------------------------
\* Properties.

\* The downloads that put a file under this name, and a download's own names.
Rivals(d, f) == {c \in Downloads : DestOf[c] = DestOf[d] /\ f \in FilesOf[c]}
Own(d) == {f \in FilesOf[d] : Rivals(d, f) = {d}}

\* The name leads to what the download location has.
Same(d, f, e) == content[e.inode] = content[Source(d, f)]

\* finalizeDownload without an error has left every file that no other download
\* puts under the same name in the library, owned by the configured user, with
\* what the download location holds: all that was downloaded, unless a torrent
\* that can be linked was copied.  So it is after runs that failed or crashed
\* half way and while other downloads of the folder are finalized.
PlacedWhole ==
    \A d \in Downloads : fin[d].pc = "ok" =>
        \A f \in Own(d) : \E e \in InLibrary(d, f) :
            /\ Same(d, f, e)
            /\ e.inode \in owned
            /\ d \notin Linkable \cap copied => content[e.inode] = Data(d, f)

\* What the code keeps of "NEVER modify, delete or otherwise touch the file at
\* the download location" (faq.md:9): the owner of a torrent on another device
\* stays, and the data of each torrent does, unless it can be linked and it, or
\* a download that shares the file's name, was copied after all.
SourceKept ==
    \A d \in Downloads : \A f \in FilesOf[d] :
        /\ d \notin Linkable => Source(d, f) \notin owned
        /\ (d \notin Linkable \/ Rivals(d, f) \cap copied = {}) =>
              content[Source(d, f)] = Data(d, f)

-----------------------------------------------------------------------------
\* Finalize implements Placement.

\* Each download's own names that lead to what its download location has.
Owns == [d \in Downloads |-> Own(d)]
Placed ==
    [d \in Downloads |-> {f \in Own(d) : \E e \in InLibrary(d, f) : Same(d, f, e)}]

\* How each finalization stands to who only sees its row and the library.
Outcome ==
    [d \in Downloads |->
        IF fin[d].pc = "idle" THEN "none"
        ELSE IF fin[d].pc \in {"ok", "error"} THEN fin[d].pc ELSE "running"]

Placement == INSTANCE Placement
             WITH placed <- Placed, outcome <- Outcome, FilesOf <- Owns

\* Each step of a finalization changes only what its own download has in the
\* library under names of its own, and reports success only for all of them:
\* they stay as they are until that download is finalized again, through
\* crashes, failing links and copies and the finalizations of others, those
\* that replace a name both have included.
PlacementSpec == Placement!Spec
=============================================================================
