---------------------------- MODULE FinalizeProofs ----------------------------
(***************************************************************************)
(* Theorems about Finalize, for all torrents, names, folders, devices,     *)
(* faults and bounds: its types, what happens to the files the torrent     *)
(* client downloaded, that success places every name that is a download's  *)
(* own, and that Finalize implements Placement.                            *)
(***************************************************************************)
EXTENDS Finalize, TLAPS

LEMMA RunAt ==
    ASSUME NEW pc \in Pc, NEW todo \in SUBSET Names
    PROVE  /\ At(pc) \in Run
           /\ [At(pc) EXCEPT !.todo = todo] \in Run
           /\ [At(pc) EXCEPT !.todo = todo].pc = pc
           /\ [At(pc) EXCEPT !.todo = todo].todo = todo
BY DEF At, Run

LEMMA FilesAreNames ==
    ASSUME NEW d \in Downloads
    PROVE  FilesOf[d] \in SUBSET Names /\ FilesOf[d] # {}
BY FinalizeAssumption DEF Names

LEMMA SourceIsInode ==
    ASSUME NEW d \in Downloads, NEW f \in Names
    PROVE  Source(d, f) \in Inode /\ Named(d, f, Source(d, f)) \in Entry
BY FinalizeAssumption DEF Source, Inode, Named, Entry, Dests

\* The two conjuncts of TypeOK about fin.
RunsOK ==
    /\ fin \in [Downloads -> Run]
    /\ \A d \in Downloads : fin[d].pc \in Walking => fin[d].todo # {}

LEMMA MovesType ==
    ASSUME RunsOK, NEW d \in Downloads, NEW s \in Run,
           s.pc \in Walking => s.todo # {},
           Moves(d, s)
    PROVE  RunsOK'
BY DEF RunsOK, Moves

LEMMA WalkType ==
    ASSUME RunsOK, NEW d \in Downloads, NEW pc \in Pc,
           NEW files \in SUBSET Names, files # {}, Walk(d, pc, files)
    PROVE  RunsOK'
<1> DEFINE s == [At(pc) EXCEPT !.todo = files]
<1>1. s \in Run /\ s.todo # {}
  BY RunAt
<1>2. Moves(d, s)
  BY DEF Walk
<1> QED
  BY <1>1, <1>2, MovesType

LEMMA AtType ==
    ASSUME RunsOK, NEW d \in Downloads, NEW pc \in Pc \ Walking, Moves(d, At(pc))
    PROVE  RunsOK'
<1>1. At(pc) \in Run /\ At(pc).pc = pc
  BY RunAt DEF At
<1> QED
  BY <1>1, MovesType

LEMMA AdvanceType ==
    ASSUME RunsOK, NEW d \in Downloads, NEW f \in fin[d].todo, NEW pc \in Pc,
           Advance(d, f, pc)
    PROVE  RunsOK'
<1>1. fin[d].todo \in SUBSET Names
  BY DEF RunsOK, Run
<1>2. CASE fin[d].todo = {f}
  BY <1>2, AtType DEF Advance, Pc, Walking
<1>3. CASE fin[d].todo # {f}
  <2>1. fin[d].todo \ {f} \in SUBSET Names /\ fin[d].todo \ {f} # {}
    BY <1>1, <1>3
  <2> QED
    BY <1>3, <2>1, WalkType DEF Advance
<1> QED
  BY <1>2, <1>3

LEMMA TypeInit == Init => TypeOK
<1> SUFFICES ASSUME Init PROVE TypeOK
  OBVIOUS
<1>1. content \in [Inode -> Content]
  BY DEF Init, Data, Inode, Content
<1>2. fin \in [Downloads -> Run] /\ \A d \in Downloads : fin[d].pc \notin Walking
  BY DEF Init, At, Run, Pc, Walking
<1> QED
  BY <1>1, <1>2, FinalizeAssumption DEF Init, TypeOK

LEMMA TypeStep == TypeOK /\ [Next]_vars => TypeOK'
<1> SUFFICES ASSUME TypeOK, [Next]_vars PROVE TypeOK'
  OBVIOUS
<1> USE FinalizeAssumption
<1>a. RunsOK
  BY DEF TypeOK, RunsOK
<1>0. CASE UNCHANGED vars
  BY <1>0 DEF TypeOK, vars, disk
<1>1. ASSUME NEW d \in Downloads, Start(d) PROVE TypeOK'
  <2>1. RunsOK'
    BY <1>1, <1>a, FilesAreNames, WalkType, AtType DEF Start, Pc, Walking
  <2>2. runs' \in 0..MaxRuns
    BY <1>1 DEF Start, TypeOK
  <2> QED
    BY <1>1, <2>1, <2>2 DEF Start, TypeOK, RunsOK, disk
<1>2. ASSUME NEW d \in Downloads, RemoveOld(d) PROVE TypeOK'
  <2>1. fin[d].todo \in SUBSET Names /\ fin[d].todo # {}
    BY <1>2 DEF TypeOK, Run, RemoveOld, Walking
  <2>2. RunsOK'
    BY <1>2, <1>a, <2>1, WalkType DEF RemoveOld, Pc
  <2> QED
    BY <1>2, <2>2 DEF RemoveOld, TypeOK, RunsOK
<1>3. ASSUME NEW d \in Downloads, Link(d) PROVE TypeOK'
  <2>1. fin[d].todo \in SUBSET Names /\ fin[d].todo # {}
    BY <1>3 DEF TypeOK, Run, Link, Walking
  <2>2. RunsOK'
    BY <1>3, <1>a, <2>1, WalkType DEF Link, Pc
  <2>3. library' \subseteq Entry
    BY <1>3, <2>1, SourceIsInode DEF Link, TypeOK
  <2> QED
    BY <1>3, <2>2, <2>3 DEF Link, TypeOK, RunsOK
<1>4. ASSUME NEW d \in Downloads, Chmod(d) PROVE TypeOK'
  <2>1. RunsOK'
    BY <1>4, <1>a, AdvanceType DEF Chmod, Pc
  <2> QED
    BY <1>4, <2>1 DEF Chmod, TypeOK, RunsOK, disk
<1>5. ASSUME NEW d \in Downloads, LinkFails(d) PROVE TypeOK'
  <2>1. RunsOK'
    BY <1>5, <1>a, AtType DEF LinkFails, Pc, Walking
  <2> QED
    BY <1>5, <2>1 DEF LinkFails, TypeOK, RunsOK, disk
<1>6. ASSUME NEW d \in Downloads, BeginCopies(d) PROVE TypeOK'
  <2>1. RunsOK'
    BY <1>6, <1>a, FilesAreNames, WalkType, AtType DEF BeginCopies, Pc, Walking
  <2>2. copied' \subseteq Downloads
    BY <1>6 DEF BeginCopies, TypeOK
  <2> QED
    BY <1>6, <2>1, <2>2 DEF BeginCopies, TypeOK, RunsOK, disk
<1>7. ASSUME NEW d \in Downloads, Open(d) PROVE TypeOK'
  <2>0. PICK f \in fin[d].todo :
          \E i \in {[of |-> d, file |-> f, n |-> runs]}
                    \cup {e.inode : e \in InLibrary(d, f)} :
            /\ library' = library \cup {Named(d, f, i)}
            /\ content' = [content EXCEPT ![i].whole = FALSE]
            /\ Moves(d, [At("fill") EXCEPT !.todo = fin[d].todo, !.fd = {i}])
    BY <1>7 DEF Open
  <2>1. PICK i \in {[of |-> d, file |-> f, n |-> runs]}
                  \cup {e.inode : e \in InLibrary(d, f)} :
          /\ library' = library \cup {Named(d, f, i)}
          /\ content' = [content EXCEPT ![i].whole = FALSE]
          /\ Moves(d, [At("fill") EXCEPT !.todo = fin[d].todo, !.fd = {i}])
    BY <2>0
  <2>2. fin[d].todo \in SUBSET Names /\ fin[d].todo # {}
    BY <1>7 DEF TypeOK, Run, Open, Walking
  <2>3. i \in Inode
    BY <2>1, <2>2 DEF TypeOK, Inode, InLibrary, Entry
  <2>4. library' \subseteq Entry
    BY <2>1, <2>2, <2>3 DEF TypeOK, Named, Entry, Dests
  <2>5. content' \in [Inode -> Content]
    <3>1. content' = [content EXCEPT ![i] = [content[i] EXCEPT !.whole = FALSE]]
      BY <2>1
    <3>2. [content[i] EXCEPT !.whole = FALSE] \in Content
      BY <2>3 DEF TypeOK, Content
    <3> QED
      BY <3>1, <3>2 DEF TypeOK
  <2>6. RunsOK'
    <3>1. [At("fill") EXCEPT !.todo = fin[d].todo, !.fd = {i}] \in Run
      BY <2>2, <2>3 DEF At, Run, Pc
    <3>2. [At("fill") EXCEPT !.todo = fin[d].todo, !.fd = {i}].todo # {}
      BY <2>2 DEF At
    <3> QED
      BY <1>a, <2>1, <3>1, <3>2, MovesType
  <2> QED
    BY <1>7, <2>4, <2>5, <2>6 DEF Open, TypeOK, RunsOK
<1>8. ASSUME NEW d \in Downloads, OpenFails(d) PROVE TypeOK'
  <2>1. RunsOK'
    BY <1>8, <1>a, AtType DEF OpenFails, Pc, Walking
  <2> QED
    BY <1>8, <2>1 DEF OpenFails, TypeOK, RunsOK, disk
<1>9. ASSUME NEW d \in Downloads, Fill(d) PROVE TypeOK'
  <2>1. PICK f \in fin[d].todo, i \in fin[d].fd :
          /\ content' = [content EXCEPT ![i] = content[Source(d, f)]]
          /\ Advance(d, f, "open")
    BY <1>9 DEF Fill
  <2>2. f \in Names /\ i \in Inode
    BY DEF TypeOK, Run
  <2>3. content' \in [Inode -> Content]
    BY <2>1, <2>2, SourceIsInode DEF TypeOK
  <2>4. RunsOK'
    BY <2>1, <1>a, AdvanceType DEF Pc
  <2> QED
    BY <1>9, <2>3, <2>4 DEF Fill, TypeOK, RunsOK
<1>10. ASSUME NEW d \in Downloads, FillFails(d) PROVE TypeOK'
  <2>1. RunsOK'
    BY <1>10, <1>a, AtType DEF FillFails, Pc, Walking
  <2> QED
    BY <1>10, <2>1 DEF FillFails, TypeOK, RunsOK, disk
<1>11. ASSUME NEW d \in Downloads, List(d) PROVE TypeOK'
  <2> DEFINE names == {[dest |-> e.dest, file |-> e.file] : e \in library}
             s == [At("chown") EXCEPT !.seen = names]
  <2>0. names \subseteq Name
    BY DEF TypeOK, Entry, Name
  <2>1. s \in Run /\ s.pc = "chown"
    BY <2>0 DEF At, Run, Pc
  <2> HIDE DEF names
  <2>2. Moves(d, s)
    BY <1>11 DEF List, names
  <2> HIDE DEF s
  <2>3. RunsOK'
    BY <1>a, <2>1, <2>2, MovesType DEF Walking
  <2> QED
    BY <1>11, <2>3 DEF List, TypeOK, RunsOK, disk
<1>12. ASSUME NEW d \in Downloads, Succeed(d) \/ ChownFails(d) PROVE TypeOK'
  <2>1. RunsOK'
    BY <1>12, <1>a, AtType DEF Succeed, ChownFails, Pc, Walking
  <2> QED
    BY <1>12, <2>1 DEF Succeed, ChownFails, TypeOK, RunsOK, disk
<1>15. ASSUME NEW d \in Downloads, Chown(d) PROVE TypeOK'
  <2>1. PICK n \in fin[d].seen :
          /\ owned' = owned \cup {e.inode : e \in Renamed(n)}
          /\ Moves(d, [At("chown") EXCEPT !.seen = fin[d].seen \ {n}])
    BY <1>15 DEF Chown
  <2> DEFINE s == [At("chown") EXCEPT !.seen = fin[d].seen \ {n}]
  <2>2. s \in Run /\ s.pc = "chown"
    <3>1. fin[d].seen \ {n} \subseteq Name
      BY DEF TypeOK, Run
    <3> QED
      BY <3>1 DEF At, Run, Pc
  <2>3. Moves(d, s)
    BY <2>1
  <2> HIDE DEF s
  <2>4. RunsOK'
    BY <1>a, <2>2, <2>3, MovesType DEF Walking
  <2>5. owned' \subseteq Inode
    BY <2>1 DEF TypeOK, Renamed, Entry
  <2> QED
    BY <1>15, <2>4, <2>5 DEF Chown, TypeOK, RunsOK
<1>13. CASE Crash
  <2>1. RunsOK'
    BY <1>13, <1>a DEF Crash, RunsOK, At, Run, Pc, Walking
  <2>2. mishaps' \in 0..MaxMishaps
    BY <1>13 DEF Crash, TypeOK
  <2> QED
    BY <1>13, <2>1, <2>2 DEF Crash, TypeOK, RunsOK, disk
<1>14. ASSUME NEW d \in Downloads, RemoveData(d) PROVE TypeOK'
  BY <1>14 DEF RemoveData, TypeOK
<1> QED
  BY <1>0, <1>1, <1>2, <1>3, <1>4, <1>5, <1>6, <1>7, <1>8, <1>9, <1>10, <1>11,
     <1>12, <1>13, <1>14, <1>15 DEF Next, FinalizeDownload

\* Names, inodes, open files and walks stay within their types whatever fails.
THEOREM FinalizeTypeCorrect == Spec => []TypeOK
BY TypeInit, TypeStep, PTL DEF Spec

-----------------------------------------------------------------------------
\* What the steps preserve.

\* A name leads to an inode of its file, made for a download that puts a file
\* under that name, and to the torrent client's only if that can be linked.
MadeFor(dest, f, i) ==
    /\ i.file = f /\ f \in FilesOf[i.of] /\ DestOf[i.of] = dest
    /\ i.n = 0 => i.of \in Linkable

NamesTrue == \A e \in library : MadeFor(e.dest, e.file, e.inode)

\* What an owner is changed of is in the library, and so it is no source file of
\* a torrent on another device.
OwnersTrue == \A i \in owned : i.n = 0 => i.of \in Linkable

\* What was downloaded is there unless its inode can have been opened by a copy.
DataTrue ==
    \A d \in Downloads : \A f \in FilesOf[d] :
        (d \notin Linkable \/ Rivals(d, f) \cap copied = {}) =>
            content[Source(d, f)] = Data(d, f)

\* A download's own name is in the library as at the download location.
Delivered(d, f) == \E e \in InLibrary(d, f) : Same(d, f, e)
Owned(d, f) == \A e \in InLibrary(d, f) : e.inode \in owned

\* A finalization visits its own files, one of which a copy has open.
Working(d) ==
    LET s == fin[d] IN
    /\ s.todo \subseteq FilesOf[d]
    /\ s.pc # "idle" => runs # 0
    /\ s.pc \in {"open", "fill"} => d \in copied
    /\ s.pc = "fill" =>
          \A f \in s.todo, i \in s.fd : Turn(d, f) => MadeFor(DestOf[d], f, i)

\* What it has done for the names that are its own, by where it is.
Placing(d) ==
    LET s == fin[d] IN
    /\ s.pc = "chmod" => \A f \in Own(d) : Turn(d, f) => Delivered(d, f)
    /\ s.pc = "fill" => \A f \in Own(d) : Turn(d, f) =>
                            \A i \in s.fd : Named(d, f, i) \in library
    /\ s.pc \in Walking => \A f \in Own(d) \ s.todo : Delivered(d, f)
    /\ s.pc \in {"list", "chown", "ok"} => \A f \in Own(d) : Delivered(d, f)
    /\ s.pc = "chown" => \A f \in Own(d) :
                            [dest |-> DestOf[d], file |-> f] \in s.seen \/ Owned(d, f)
    /\ s.pc = "ok" => \A f \in Own(d) : Owned(d, f)

PlaceInv ==
    /\ NamesTrue /\ OwnersTrue /\ DataTrue
    /\ \A d \in Downloads : Working(d) /\ Placing(d)

LEMMA PlaceInit == Init => PlaceInv
<1> SUFFICES ASSUME Init PROVE PlaceInv
  OBVIOUS
<1>1. NamesTrue /\ OwnersTrue
  BY DEF Init, NamesTrue, OwnersTrue
<1>2. DataTrue
  <2> SUFFICES ASSUME NEW d \in Downloads, NEW f \in FilesOf[d]
               PROVE  content[Source(d, f)] = Data(d, f)
    BY DEF DataTrue
  <2>1. LET i == Source(d, f) IN i \in Inode /\ i.of = d /\ i.file = f
    BY FilesAreNames, SourceIsInode DEF Source
  <2> QED
    BY <2>1 DEF Init
<1>3. \A d \in Downloads : Working(d) /\ Placing(d)
  BY DEF Init, Working, Placing, At, Walking
<1> QED
  BY <1>1, <1>2, <1>3 DEF PlaceInv

\* Behind a name that is a download's own lies an inode made for it.
LEMMA OwnInode ==
    ASSUME TypeOK, NamesTrue, NEW d \in Downloads, NEW f \in Own(d),
           NEW e \in InLibrary(d, f)
    PROVE  e.inode \in Inode /\ e.inode.of = d /\ e.inode.file = f
<1>1. e \in library /\ e.dest = DestOf[d] /\ e.file = f
  BY DEF InLibrary
<1>2. e.inode \in Inode /\ MadeFor(DestOf[d], f, e.inode)
  BY <1>1 DEF TypeOK, Entry, NamesTrue
<1>3. e.inode.of \in Downloads
  BY <1>2 DEF Inode
<1>4. e.inode.of \in Rivals(d, f)
  BY <1>2, <1>3 DEF MadeFor, Rivals
<1> QED
  BY <1>2, <1>4 DEF Own, MadeFor

\* What a finalization may do to the disk: write to inodes made for one of its
\* names, remove or add such a name, give inodes to the configured owner.
OwnDisk(d) ==
    /\ owned \subseteq owned'
    /\ \E g \in FilesOf[d] :
          /\ \A i \in Inode : content'[i] # content[i] => MadeFor(DestOf[d], g, i)
          /\ \/ library' = library
             \/ \E i : \/ library' = library \ InLibrary(d, g)
                       \/ library' = library \cup {Named(d, g, i)}

\* It leaves the names that are another download's own, and what they lead to.
LEMMA OthersApart ==
    ASSUME TypeOK, NamesTrue, NEW c \in Downloads, OwnDisk(c),
           NEW d \in Downloads \ {c}, NEW f \in Own(d)
    PROVE  /\ InLibrary(d, f)' = InLibrary(d, f)
           /\ Delivered(d, f)' <=> Delivered(d, f)
           /\ Owned(d, f) => Owned(d, f)'
<1>0. f \in FilesOf[d] /\ Rivals(d, f) = {d}
  BY DEF Own
<1>1. PICK g \in FilesOf[c] :
          /\ \A i \in Inode : content'[i] # content[i] => MadeFor(DestOf[c], g, i)
          /\ \/ library' = library
             \/ \E i : \/ library' = library \ InLibrary(c, g)
                       \/ library' = library \cup {Named(c, g, i)}
  BY DEF OwnDisk
<1>2. ~(DestOf[c] = DestOf[d] /\ f = g)
  BY <1>0 DEF Rivals
<1>3. InLibrary(d, f)' = InLibrary(d, f)
  <2>1. CASE library' = library
    BY <2>1 DEF InLibrary
  <2>2. ASSUME NEW i, library' = library \cup {Named(c, g, i)}
        PROVE  InLibrary(d, f)' = InLibrary(d, f)
    <3>1. ~(Named(c, g, i).dest = DestOf[d] /\ Named(c, g, i).file = f)
      BY <1>2 DEF Named
    <3> QED
      BY <2>2, <3>1 DEF InLibrary
  <2>3. CASE library' = library \ InLibrary(c, g)
    BY <1>2, <2>3 DEF InLibrary
  <2> QED
    BY <1>1, <2>1, <2>2, <2>3
<1>4. ASSUME NEW i \in Inode, i.of = d, i.file = f PROVE content'[i] = content[i]
  BY <1>1, <1>2, <1>4 DEF MadeFor
<1>5. content'[Source(d, f)] = content[Source(d, f)]
  <2>1. LET i == Source(d, f) IN i \in Inode /\ i.of = d /\ i.file = f
    BY <1>0, FilesAreNames, SourceIsInode DEF Source
  <2> QED
    BY <2>1, <1>4
<1>6. \A e \in InLibrary(d, f) : content'[e.inode] = content[e.inode]
  BY <1>4, OwnInode
<1>7. Delivered(d, f)' <=> Delivered(d, f)
  BY <1>3, <1>5, <1>6 DEF Delivered, Same
<1>8. Owned(d, f) => Owned(d, f)'
  BY <1>3 DEF Owned, OwnDisk
<1> QED
  BY <1>3, <1>7, <1>8

\* The same holds of steps that leave names and data as they are.
LEMMA SameDisk ==
    ASSUME UNCHANGED <<library, content>>, owned \subseteq owned',
           NEW d \in Downloads
    PROVE  OwnDisk(d)
<1>1. \E g \in FilesOf[d] : TRUE
  BY FilesAreNames
<1> QED
  BY <1>1 DEF OwnDisk

LEMMA OthersKeep ==
    ASSUME TypeOK, NamesTrue, NEW c \in Downloads, OwnDisk(c),
           NEW d \in Downloads \ {c}, Working(d), Placing(d),
           fin'[d] = fin[d], runs # 0 => runs' # 0, copied \subseteq copied'
    PROVE  Working(d)' /\ Placing(d)'
<1>1. \A f : Turn(d, f)' <=> Turn(d, f)
  BY DEF Turn
<1>2. Working(d)'
  BY <1>1 DEF Working, MadeFor
<1>3. \A f \in Own(d) : /\ Delivered(d, f) => Delivered(d, f)'
                        /\ Owned(d, f) => Owned(d, f)'
  BY OthersApart
<1>4. \A f \in Own(d) : \A i : Named(d, f, i) \in library => Named(d, f, i) \in library'
  <2> SUFFICES ASSUME NEW f \in Own(d), NEW i, Named(d, f, i) \in library
               PROVE  Named(d, f, i) \in library'
    OBVIOUS
  <2>1. Named(d, f, i) \in InLibrary(d, f)
    BY DEF InLibrary, Named
  <2>2. InLibrary(d, f)' = InLibrary(d, f)
    BY OthersApart
  <2> QED
    BY <2>1, <2>2 DEF InLibrary
<1>5. Placing(d)'
  BY <1>1, <1>3, <1>4 DEF Placing
<1> QED
  BY <1>2, <1>5

\* What a step on the file f leaves of the download's other own names.
LEMMA OwnKept ==
    ASSUME TypeOK, NamesTrue, NEW d \in Downloads, NEW f,
           \A i \in Inode : content'[i] # content[i] => i.file = f,
           \/ library' = library
           \/ \E i : \/ library' = library \ InLibrary(d, f)
                     \/ library' = library \cup {Named(d, f, i)},
           NEW g \in Own(d), g # f
    PROVE  Delivered(d, g) => Delivered(d, g)'
<1> SUFFICES ASSUME NEW e \in InLibrary(d, g), Same(d, g, e)
             PROVE  Delivered(d, g)'
  BY DEF Delivered
<1>1. e \in InLibrary(d, g)'
  BY DEF InLibrary
<1>2. e.inode \in Inode /\ e.inode.file = g
  BY OwnInode
<1>3. Source(d, g) \in Inode /\ Source(d, g).file = g
  BY FilesAreNames, SourceIsInode DEF Source, Own
<1>4. content'[e.inode] = content[e.inode]
  BY <1>2
<1>5. content'[Source(d, g)] = content[Source(d, g)]
  BY <1>3
<1> QED
  BY <1>1, <1>4, <1>5 DEF Delivered, Same

\* The walks over numbers end: of the files left only one has its turn.
LEMMA OneTurn ==
    ASSUME TypeOK, NEW d \in Downloads, NEW f, NEW g, Turn(d, f), Turn(d, g)
    PROVE  f = g
<1>1. fin[d].todo \subseteq Nat
  BY FinalizeAssumption DEF TypeOK, Run, Names
<1> QED
  BY <1>1 DEF Turn

\* What a step of one finalization leaves to prove.
LEMMA StepBy ==
    ASSUME TypeOK, PlaceInv, NEW d \in Downloads, NEW s, Moves(d, s), OwnDisk(d),
           runs # 0 => runs' # 0, copied \subseteq copied',
           NamesTrue', OwnersTrue', DataTrue',
           fin'[d] = s => Working(d)' /\ Placing(d)'
    PROVE  PlaceInv'
<1>1. fin'[d] = s /\ \A c \in Downloads \ {d} : fin'[c] = fin[c]
  BY DEF Moves, TypeOK
<1>2. ASSUME NEW c \in Downloads \ {d} PROVE Working(c)' /\ Placing(c)'
  <2>1. NamesTrue /\ Working(c) /\ Placing(c)
    BY DEF PlaceInv
  <2> QED
    BY <1>1, <2>1, OthersKeep
<1> QED
  BY <1>1, <1>2 DEF PlaceInv

\* Steps that write to no file and take no name keep what is true of the disk.
LEMMA DiskKept ==
    ASSUME PlaceInv, UNCHANGED <<library, content, owned>>, copied \subseteq copied'
    PROVE  NamesTrue' /\ OwnersTrue' /\ DataTrue'
<1>1. NamesTrue' /\ OwnersTrue'
  BY DEF PlaceInv, NamesTrue, OwnersTrue, MadeFor
<1>2. DataTrue'
  BY DEF PlaceInv, DataTrue
<1> QED
  BY <1>1, <1>2

LEMMA QuietStep ==
    ASSUME TypeOK, PlaceInv, NEW d \in Downloads, NEW s, Moves(d, s),
           UNCHANGED <<library, content, owned>>, copied \subseteq copied',
           runs # 0 => runs' # 0,
           fin'[d] = s => Working(d)' /\ Placing(d)'
    PROVE  PlaceInv'
<1>1. OwnDisk(d)
  BY SameDisk
<1>2. NamesTrue' /\ OwnersTrue' /\ DataTrue'
  BY DiskKept
<1> QED
  BY <1>1, <1>2, StepBy

LEMMA SameNames ==
    ASSUME UNCHANGED <<library, content>>, NEW d \in Downloads
    PROVE  \A f : /\ InLibrary(d, f)' = InLibrary(d, f)
                  /\ Delivered(d, f)' <=> Delivered(d, f)
                  /\ owned' = owned => (Owned(d, f)' <=> Owned(d, f))
BY DEF InLibrary, Delivered, Owned, Same

\* Content changes at inodes that are no source file, or only of torrents that
\* can be linked and share the name with one that is copied.
LEMMA DataKept ==
    ASSUME TypeOK, DataTrue, copied' = copied, NEW c \in copied, NEW f \in FilesOf[c],
           c \in Downloads,
           \A i \in Inode : content'[i] # content[i] => MadeFor(DestOf[c], f, i)
    PROVE  DataTrue'
<1> SUFFICES ASSUME NEW d \in Downloads, NEW g \in FilesOf[d],
                    d \notin Linkable \/ Rivals(d, g) \cap copied = {}
             PROVE  content'[Source(d, g)] = Data(d, g)
  BY DEF DataTrue
<1>1. LET i == Source(d, g) IN i \in Inode /\ i.of = d /\ i.file = g /\ i.n = 0
  BY FilesAreNames, SourceIsInode DEF Source
<1>2. ~MadeFor(DestOf[c], f, Source(d, g))
  <2> SUFFICES ASSUME MadeFor(DestOf[c], f, Source(d, g)) PROVE FALSE
    OBVIOUS
  <2>1. g = f /\ DestOf[d] = DestOf[c] /\ d \in Linkable
    BY <1>1 DEF MadeFor
  <2>2. c \in Rivals(d, g)
    BY <2>1 DEF Rivals
  <2> QED
    BY <2>1, <2>2
<1>3. content'[Source(d, g)] = content[Source(d, g)]
  BY <1>1, <1>2
<1> QED
  BY <1>3 DEF DataTrue

\* The end of a file in a walk: the next one, or the names for the chown.
LEMMA AdvancePlaces ==
    ASSUME TypeOK, PlaceInv, NEW d \in Downloads, NEW f \in fin[d].todo,
           NEW pc \in {"remove", "open"}, Advance(d, f, pc), OwnDisk(d),
           fin[d].pc \in Walking, pc = "open" => d \in copied,
           UNCHANGED <<runs, copied>>, NamesTrue', OwnersTrue', DataTrue',
           \A g \in Own(d) \ (fin[d].todo \ {f}) : Delivered(d, g)'
    PROVE  PlaceInv'
<1> DEFINE s == IF fin[d].todo = {f}
                THEN At("list")
                ELSE [At(pc) EXCEPT !.todo = fin[d].todo \ {f}]
<1>1. Moves(d, s)
  BY DEF Advance, Walk
<1>2. fin[d].todo \subseteq FilesOf[d] /\ runs # 0
  BY DEF PlaceInv, Working, Walking
<1>3. ASSUME fin'[d] = s PROVE Working(d)' /\ Placing(d)'
  <2>1. CASE fin[d].todo = {f}
    <3>1. s.pc = "list" /\ s.todo = {}
      BY <2>1 DEF At
    <3>2. \A g \in Own(d) : Delivered(d, g)'
      BY <2>1
    <3> QED
      BY <1>2, <1>3, <3>1, <3>2 DEF Working, Placing, Walking
  <2>2. CASE fin[d].todo # {f}
    <3>1. s.pc = pc /\ s.todo = fin[d].todo \ {f}
      BY <2>2 DEF At
    <3> QED
      BY <1>2, <1>3, <3>1 DEF Working, Placing, Walking
  <2> QED
    BY <2>1, <2>2
<1> HIDE DEF s
<1> QED
  BY <1>1, <1>3, StepBy

LEMMA RemovePlaces ==
    ASSUME TypeOK, PlaceInv, NEW d \in Downloads, RemoveOld(d)
    PROVE  PlaceInv'
<1>1. PICK f \in fin[d].todo : Turn(d, f) /\ library' = library \ InLibrary(d, f)
  BY DEF RemoveOld
<1>2. /\ fin[d].pc = "remove" /\ fin[d].todo \subseteq FilesOf[d] /\ runs # 0
      /\ UNCHANGED <<present, content, owned, copied, runs>>
  BY DEF PlaceInv, Working, RemoveOld
<1> DEFINE s == [At("link") EXCEPT !.todo = fin[d].todo]
<1>3. s.pc = "link" /\ s.todo = fin[d].todo
  BY DEF At
<1>4. Moves(d, s)
  BY DEF RemoveOld, Walk
<1>5. OwnDisk(d)
  BY <1>1, <1>2 DEF OwnDisk
<1>6. NamesTrue' /\ OwnersTrue' /\ DataTrue'
  <2>1. NamesTrue'
    BY <1>1 DEF PlaceInv, NamesTrue, MadeFor
  <2> QED
    BY <1>2, <2>1 DEF PlaceInv, OwnersTrue, DataTrue
<1>7. ASSUME NEW g \in Own(d) \ fin[d].todo PROVE Delivered(d, g)'
  <2>1. Delivered(d, g) /\ g # f
    BY <1>2 DEF PlaceInv, Placing, Walking
  <2> QED
    BY <1>1, <1>2, <2>1, OwnKept DEF PlaceInv
<1>8. fin'[d] = s => Working(d)' /\ Placing(d)'
  BY <1>2, <1>3, <1>7 DEF Working, Placing, Walking
<1> HIDE DEF s
<1> QED
  BY <1>2, <1>4, <1>5, <1>6, <1>8, StepBy

LEMMA LinkPlaces ==
    ASSUME TypeOK, PlaceInv, NEW d \in Downloads, Link(d)
    PROVE  PlaceInv'
<1>1. PICK f \in fin[d].todo :
        /\ Turn(d, f) /\ d \in Linkable
        /\ library' = library \cup {Named(d, f, Source(d, f))}
  BY DEF Link
<1>2. /\ fin[d].pc = "link" /\ fin[d].todo \subseteq FilesOf[d] /\ runs # 0
      /\ UNCHANGED <<present, content, owned, copied, runs>>
  BY DEF PlaceInv, Working, Link
<1> DEFINE s == [At("chmod") EXCEPT !.todo = fin[d].todo]
           e == Named(d, f, Source(d, f))
<1>3. s.pc = "chmod" /\ s.todo = fin[d].todo
  BY DEF At
<1>4. Moves(d, s)
  BY DEF Link, Walk
<1>5. OwnDisk(d)
  BY <1>1, <1>2 DEF OwnDisk
<1>6. NamesTrue' /\ OwnersTrue' /\ DataTrue'
  <2>1. MadeFor(e.dest, e.file, e.inode)
    BY <1>1, <1>2 DEF MadeFor, Named, Source
  <2>2. NamesTrue'
    BY <1>1, <2>1 DEF PlaceInv, NamesTrue, MadeFor
  <2> QED
    BY <1>2, <2>2 DEF PlaceInv, OwnersTrue, DataTrue
<1>7. ASSUME NEW g \in Own(d) \ fin[d].todo PROVE Delivered(d, g)'
  <2>1. Delivered(d, g) /\ g # f
    BY <1>2 DEF PlaceInv, Placing, Walking
  <2> QED
    BY <1>1, <1>2, <2>1, OwnKept DEF PlaceInv
<1>8. Delivered(d, f)'
  <2>1. e \in library' /\ e.dest = DestOf[d] /\ e.file = f /\ e.inode = Source(d, f)
    BY <1>1 DEF Named
  <2> QED
    BY <2>1 DEF Delivered, InLibrary, Same
<1>9. ASSUME fin'[d] = s PROVE Working(d)' /\ Placing(d)'
  <2>1. \A g : Turn(d, g)' => g = f
    BY <1>1, <1>3, <1>9, OneTurn DEF Turn
  <2> QED
    BY <1>2, <1>3, <1>7, <1>8, <1>9, <2>1 DEF Working, Placing, Walking
<1> HIDE DEF s
<1> QED
  BY <1>2, <1>4, <1>5, <1>6, <1>9, StepBy

LEMMA ChmodPlaces ==
    ASSUME TypeOK, PlaceInv, NEW d \in Downloads, Chmod(d)
    PROVE  PlaceInv'
<1>1. PICK f \in fin[d].todo : Turn(d, f) /\ Advance(d, f, "remove")
  BY DEF Chmod
<1>2. fin[d].pc = "chmod" /\ UNCHANGED <<present, library, content, owned, copied, runs>>
  BY DEF Chmod, disk
<1>3. OwnDisk(d) /\ NamesTrue' /\ OwnersTrue' /\ DataTrue'
  BY <1>2, SameDisk, DiskKept
<1>4. ASSUME NEW g \in Own(d) \ (fin[d].todo \ {f}) PROVE Delivered(d, g)'
  <2>1. Delivered(d, g)
    BY <1>1, <1>2 DEF PlaceInv, Placing, Walking
  <2> QED
    BY <1>2, <2>1, SameNames
<1> QED
  BY <1>1, <1>2, <1>3, <1>4, AdvancePlaces DEF Walking

LEMMA OpenPlaces ==
    ASSUME TypeOK, PlaceInv, NEW d \in Downloads, Open(d)
    PROVE  PlaceInv'
<1>0. PICK f \in fin[d].todo :
        /\ Turn(d, f)
        /\ \E i \in IF InLibrary(d, f) = {}
                    THEN {[of |-> d, file |-> f, n |-> runs]}
                    ELSE {e.inode : e \in InLibrary(d, f)} :
             /\ library' = library \cup {Named(d, f, i)}
             /\ content' = [content EXCEPT ![i].whole = FALSE]
             /\ Moves(d, [At("fill") EXCEPT !.todo = fin[d].todo, !.fd = {i}])
  BY DEF Open
<1>1. PICK i \in {[of |-> d, file |-> f, n |-> runs]}
                \cup {e.inode : e \in InLibrary(d, f)} :
        /\ library' = library \cup {Named(d, f, i)}
        /\ content' = [content EXCEPT ![i].whole = FALSE]
        /\ Moves(d, [At("fill") EXCEPT !.todo = fin[d].todo, !.fd = {i}])
  BY <1>0
<1>2. /\ fin[d].pc = "open" /\ fin[d].todo \subseteq FilesOf[d] /\ runs # 0
      /\ d \in copied /\ UNCHANGED <<present, owned, copied, runs>>
  BY DEF PlaceInv, Working, Open
<1>3. MadeFor(DestOf[d], f, i)
  <2>1. CASE i = [of |-> d, file |-> f, n |-> runs]
    BY <1>2, <2>1 DEF MadeFor
  <2>2. ASSUME NEW e \in InLibrary(d, f), i = e.inode PROVE MadeFor(DestOf[d], f, i)
    BY <2>2 DEF PlaceInv, NamesTrue, InLibrary
  <2> QED
    BY <1>1, <2>1, <2>2
<1> DEFINE s == [At("fill") EXCEPT !.todo = fin[d].todo, !.fd = {i}]
<1>4. s.pc = "fill" /\ s.todo = fin[d].todo /\ s.fd = {i}
  BY DEF At
<1>5. \A j \in Inode : content'[j] # content[j] => j = i
  BY <1>1 DEF TypeOK
<1>6. OwnDisk(d)
  BY <1>1, <1>2, <1>3, <1>5 DEF OwnDisk
<1>7. NamesTrue' /\ OwnersTrue' /\ DataTrue'
  <2>1. LET e == Named(d, f, i) IN MadeFor(e.dest, e.file, e.inode)
    BY <1>3 DEF Named
  <2>2. NamesTrue'
    BY <1>1, <2>1 DEF PlaceInv, NamesTrue, MadeFor
  <2>3. DataTrue'
    BY <1>2, <1>3, <1>5, DataKept DEF PlaceInv
  <2> QED
    BY <1>2, <2>2, <2>3 DEF PlaceInv, OwnersTrue
<1>8. ASSUME NEW g \in Own(d) \ fin[d].todo PROVE Delivered(d, g)'
  <2>1. Delivered(d, g) /\ g # f
    BY <1>2 DEF PlaceInv, Placing, Walking
  <2>2. \A j \in Inode : content'[j] # content[j] => j.file = f
    BY <1>3, <1>5 DEF MadeFor
  <2> QED
    BY <1>1, <2>1, <2>2, OwnKept DEF PlaceInv
<1>9. ASSUME fin'[d] = s PROVE Working(d)' /\ Placing(d)'
  <2>1. \A g : Turn(d, g)' => g = f
    BY <1>0, <1>4, <1>9, OneTurn DEF Turn
  <2>2. Named(d, f, i) \in library'
    BY <1>1
  <2>3. Working(d)'
    BY <1>2, <1>3, <1>4, <1>9, <2>1 DEF Working, MadeFor
  <2>4. Placing(d)'
    BY <1>4, <1>8, <1>9, <2>1, <2>2 DEF Placing, Walking
  <2> QED
    BY <2>3, <2>4
<1>10. Moves(d, s)
  BY <1>1
<1> HIDE DEF s
<1> QED
  BY <1>2, <1>6, <1>7, <1>9, <1>10, StepBy

LEMMA FillPlaces ==
    ASSUME TypeOK, PlaceInv, NEW d \in Downloads, Fill(d)
    PROVE  PlaceInv'
<1>1. PICK f \in fin[d].todo, i \in fin[d].fd :
        /\ Turn(d, f)
        /\ content' = [content EXCEPT ![i] = content[Source(d, f)]]
        /\ Advance(d, f, "open")
  BY DEF Fill
<1>2. /\ fin[d].pc = "fill" /\ fin[d].todo \subseteq FilesOf[d] /\ d \in copied
      /\ UNCHANGED <<present, library, owned, copied, runs>>
  BY DEF PlaceInv, Working, Fill
<1>3. MadeFor(DestOf[d], f, i) /\ i \in Inode
  BY <1>1, <1>2 DEF PlaceInv, Working, TypeOK, Run
<1>4. \A j \in Inode : content'[j] # content[j] => j = i
  BY <1>1 DEF TypeOK
<1>5. OwnDisk(d)
  BY <1>2, <1>3, <1>4 DEF OwnDisk
<1>6. NamesTrue' /\ OwnersTrue' /\ DataTrue'
  <2>1. DataTrue'
    BY <1>2, <1>3, <1>4, DataKept DEF PlaceInv
  <2> QED
    BY <1>2, <2>1 DEF PlaceInv, NamesTrue, OwnersTrue, MadeFor
<1>7. ASSUME f \in Own(d) PROVE Delivered(d, f)'
  <2>1. Named(d, f, i) \in library'
    BY <1>1, <1>2, <1>7 DEF PlaceInv, Placing
  <2>2. Named(d, f, i) \in InLibrary(d, f)' /\ Named(d, f, i).inode = i
    BY <2>1 DEF InLibrary, Named
  <2>3. Source(d, f) \in Inode
    BY <1>2, FilesAreNames, SourceIsInode
  <2>4. content'[i] = content'[Source(d, f)]
    BY <1>1, <1>3, <2>3 DEF TypeOK
  <2> QED
    BY <2>2, <2>4 DEF Delivered, Same
<1>8. ASSUME NEW g \in Own(d) \ (fin[d].todo \ {f}) PROVE Delivered(d, g)'
  <2>1. CASE g = f
    BY <1>7, <2>1
  <2>2. CASE g # f
    <3>1. Delivered(d, g)
      BY <1>2, <2>2 DEF PlaceInv, Placing, Walking
    <3>2. \A j \in Inode : content'[j] # content[j] => j.file = f
      BY <1>3, <1>4 DEF MadeFor
    <3> QED
      BY <1>2, <2>2, <3>1, <3>2, OwnKept DEF PlaceInv
  <2> QED
    BY <2>1, <2>2
<1> QED
  BY <1>1, <1>2, <1>5, <1>6, <1>8, AdvancePlaces DEF Walking

LEMMA ListPlaces ==
    ASSUME TypeOK, PlaceInv, NEW d \in Downloads, List(d)
    PROVE  PlaceInv'
<1> DEFINE names == {[dest |-> e.dest, file |-> e.file] : e \in library}
           s == [At("chown") EXCEPT !.seen = names]
<1>1. Moves(d, s)
  BY DEF List
<1>2. fin[d].pc = "list" /\ UNCHANGED <<disk, copied, runs>> /\ runs # 0
  BY DEF List, PlaceInv, Working
<1>3. s.pc = "chown" /\ s.todo = {} /\ s.fd = {} /\ s.seen = names
  BY DEF At
<1>4. ASSUME NEW f \in Own(d)
      PROVE  Delivered(d, f)' /\ [dest |-> DestOf[d], file |-> f] \in names
  <2>1. PICK e \in InLibrary(d, f) : Same(d, f, e)
    BY <1>2 DEF PlaceInv, Placing, Delivered
  <2>2. Delivered(d, f)'
    BY <1>2, <2>1, SameNames DEF Delivered, disk
  <2> QED
    BY <2>1, <2>2 DEF InLibrary
<1> HIDE DEF names
<1>5. fin'[d] = s => Working(d)' /\ Placing(d)'
  BY <1>2, <1>3, <1>4 DEF Working, Placing, Walking
<1> HIDE DEF s
<1> QED
  BY <1>1, <1>2, <1>5, QuietStep DEF disk

LEMMA ChownPlaces ==
    ASSUME TypeOK, PlaceInv, NEW d \in Downloads, Chown(d)
    PROVE  PlaceInv'
<1>1. PICK n \in fin[d].seen :
        /\ owned' = owned \cup {e.inode : e \in Renamed(n)}
        /\ Moves(d, [At("chown") EXCEPT !.seen = fin[d].seen \ {n}])
  BY DEF Chown
<1>2. /\ fin[d].pc = "chown" /\ runs # 0
      /\ UNCHANGED <<present, library, content, copied, runs>>
  BY DEF PlaceInv, Working, Chown
<1> DEFINE s == [At("chown") EXCEPT !.seen = fin[d].seen \ {n}]
<1>3. s.pc = "chown" /\ s.todo = {} /\ s.fd = {} /\ s.seen = fin[d].seen \ {n}
  BY DEF At
<1>4. Moves(d, s)
  BY <1>1
<1> HIDE DEF s
<1>5. NamesTrue' /\ OwnersTrue' /\ DataTrue'
  <2>1. \A e \in Renamed(n) : e.inode.n = 0 => e.inode.of \in Linkable
    BY DEF Renamed, PlaceInv, NamesTrue, MadeFor
  <2>2. OwnersTrue'
    BY <1>1, <2>1 DEF PlaceInv, OwnersTrue
  <2> QED
    BY <1>2, <2>2 DEF PlaceInv, NamesTrue, DataTrue, MadeFor
<1>6. ASSUME NEW f \in Own(d)
      PROVE  /\ Delivered(d, f)'
             /\ [dest |-> DestOf[d], file |-> f] \in s.seen \/ Owned(d, f)'
  <2>1. Delivered(d, f)'
    BY <1>2, SameNames DEF PlaceInv, Placing
  <2>2. InLibrary(d, f)' = InLibrary(d, f)
    BY <1>2, SameNames
  <2>3. CASE n = [dest |-> DestOf[d], file |-> f]
    <3>1. InLibrary(d, f) = Renamed(n)
      BY <2>3 DEF InLibrary, Renamed
    <3> QED
      BY <1>1, <2>1, <2>2, <3>1 DEF Owned
  <2>4. CASE n # [dest |-> DestOf[d], file |-> f]
    <3>1. [dest |-> DestOf[d], file |-> f] \in fin[d].seen \/ Owned(d, f)
      BY <1>2 DEF PlaceInv, Placing
    <3> QED
      BY <1>1, <1>3, <2>1, <2>2, <2>4, <3>1 DEF Owned
  <2> QED
    BY <2>3, <2>4
<1>7. fin'[d] = s => Working(d)' /\ Placing(d)'
  BY <1>2, <1>3, <1>6 DEF Working, Placing, Walking
<1>8. OwnDisk(d)
  BY <1>1, <1>2, SameDisk
<1> QED
  BY <1>2, <1>4, <1>5, <1>7, <1>8, StepBy

LEMMA PlaceStep ==
    ASSUME TypeOK, PlaceInv, [Next]_vars
    PROVE  PlaceInv'
<1>a. \A d \in Downloads : Working(d) /\ Placing(d)
  BY DEF PlaceInv
<1>0. CASE UNCHANGED vars
  <2>1. UNCHANGED <<library, content, owned, copied, fin, runs>>
    BY <1>0 DEF vars, disk
  <2>2. \A d \in Downloads : Working(d)' /\ Placing(d)'
    BY <1>a, <2>1, SameNames DEF Working, Placing, Turn, MadeFor
  <2> QED
    BY <2>1, <2>2, DiskKept DEF PlaceInv
<1>1. ASSUME NEW d \in Downloads, Start(d) PROVE PlaceInv'
  <2> DEFINE s == IF d \in present THEN [At("remove") EXCEPT !.todo = FilesOf[d]]
                                   ELSE At("recopy")
  <2>1. Moves(d, s) /\ UNCHANGED <<library, content, owned, copied>>
    BY <1>1 DEF Start, Walk, disk
  <2>2. runs' # 0
    BY <1>1, FinalizeAssumption DEF Start, TypeOK
  <2>3. Own(d) \subseteq FilesOf[d]
    BY DEF Own
  <2>4. fin'[d] = s => Working(d)' /\ Placing(d)'
    BY <2>2, <2>3 DEF Working, Placing, At, Walking
  <2> HIDE DEF s
  <2> QED
    BY <2>1, <2>2, <2>4, QuietStep
<1>2. ASSUME NEW d \in Downloads, LinkFails(d) PROVE PlaceInv'
  <2>1. UNCHANGED <<disk, copied, runs>> /\ Moves(d, At("recopy")) /\ runs # 0
    BY <1>2, <1>a DEF LinkFails, Working
  <2>2. fin'[d] = At("recopy") => Working(d)' /\ Placing(d)'
    BY <2>1 DEF Working, Placing, At, Walking
  <2> QED
    BY <2>1, <2>2, QuietStep DEF disk
<1>3. ASSUME NEW d \in Downloads, BeginCopies(d) PROVE PlaceInv'
  <2>1. UNCHANGED <<disk, runs>> /\ runs # 0
    BY <1>3, <1>a DEF BeginCopies, Working
  <2>2. CASE d \in present
    <3> DEFINE s == [At("open") EXCEPT !.todo = FilesOf[d]]
    <3>1. Moves(d, s) /\ copied' = copied \cup {d}
      BY <1>3, <2>2 DEF BeginCopies, Walk
    <3>2. Own(d) \subseteq FilesOf[d]
      BY DEF Own
    <3>3. fin'[d] = s => Working(d)' /\ Placing(d)'
      BY <2>1, <3>1, <3>2 DEF Working, Placing, At, Walking
    <3> HIDE DEF s
    <3> QED
      BY <2>1, <3>1, <3>3, QuietStep DEF disk
  <2>3. CASE d \notin present
    <3>1. Moves(d, At("error")) /\ copied' = copied
      BY <1>3, <2>3 DEF BeginCopies
    <3>2. fin'[d] = At("error") => Working(d)' /\ Placing(d)'
      BY <2>1 DEF Working, Placing, At, Walking
    <3> QED
      BY <2>1, <3>1, <3>2, QuietStep DEF disk
  <2> QED
    BY <2>2, <2>3
<1>4. ASSUME NEW d \in Downloads, OpenFails(d) \/ FillFails(d) \/ ChownFails(d)
      PROVE  PlaceInv'
  <2>1. UNCHANGED <<disk, copied, runs>> /\ Moves(d, At("error")) /\ runs # 0
    BY <1>4, <1>a DEF OpenFails, FillFails, ChownFails, Working
  <2>2. fin'[d] = At("error") => Working(d)' /\ Placing(d)'
    BY <2>1 DEF Working, Placing, At, Walking
  <2> QED
    BY <2>1, <2>2, QuietStep DEF disk
<1>5. ASSUME NEW d \in Downloads, Succeed(d) PROVE PlaceInv'
  <2>1. /\ UNCHANGED <<disk, copied, runs>> /\ Moves(d, At("ok")) /\ runs # 0
        /\ fin[d].pc = "chown" /\ fin[d].seen = {}
    BY <1>5, <1>a DEF Succeed, Working
  <2>2. \A f \in Own(d) : Delivered(d, f)' /\ Owned(d, f)'
    BY <1>a, <2>1, SameNames DEF Placing, disk
  <2>3. fin'[d] = At("ok") => Working(d)' /\ Placing(d)'
    BY <2>1, <2>2 DEF Working, Placing, At, Walking
  <2> QED
    BY <2>1, <2>3, QuietStep DEF disk
<1>6. CASE Crash
  <2>1. UNCHANGED <<library, content, owned, copied, runs>>
    BY <1>6 DEF Crash, disk
  <2>2. ASSUME NEW d \in Downloads PROVE Working(d)' /\ Placing(d)'
    <3>1. CASE fin'[d] = fin[d]
      BY <1>a, <2>1, <3>1, SameNames DEF Working, Placing, Turn, MadeFor
    <3>2. CASE fin'[d] = At("idle")
      BY <3>2 DEF Working, Placing, At, Walking
    <3> QED
      BY <1>6, <3>1, <3>2 DEF Crash
  <2> QED
    BY <2>1, <2>2, DiskKept DEF PlaceInv
<1>7. ASSUME NEW d \in Downloads, RemoveData(d) PROVE PlaceInv'
  <2>1. UNCHANGED <<library, content, owned, copied, fin, runs>>
    BY <1>7 DEF RemoveData
  <2>2. \A c \in Downloads : Working(c)' /\ Placing(c)'
    BY <1>a, <2>1, SameNames DEF Working, Placing, Turn, MadeFor
  <2> QED
    BY <2>1, <2>2, DiskKept DEF PlaceInv
<1> QED
  BY <1>0, <1>1, <1>2, <1>3, <1>4, <1>5, <1>6, <1>7, RemovePlaces, LinkPlaces,
     ChmodPlaces, OpenPlaces, FillPlaces, ListPlaces, ChownPlaces
     DEF Next, FinalizeDownload

LEMMA PlaceInvHolds == Spec => []PlaceInv
BY PlaceInit, PlaceStep, FinalizeTypeCorrect, PTL DEF Spec

\* What finalizeDownload keeps of the files at the download location, whatever
\* names downloads share and whatever fails: their owner if the torrent is on
\* another device than the library, and their data if it is, or as long as no
\* download that puts a file under the same name has been copied.
THEOREM DownloadsUntouched == Spec => []SourceKept
<1>1. PlaceInv => SourceKept
  <2> SUFFICES ASSUME PlaceInv, NEW d \in Downloads, NEW f \in FilesOf[d]
               PROVE  /\ d \notin Linkable => Source(d, f) \notin owned
                      /\ (d \notin Linkable \/ Rivals(d, f) \cap copied = {}) =>
                            content[Source(d, f)] = Data(d, f)
    BY DEF SourceKept
  <2>1. d \notin Linkable => Source(d, f) \notin owned
    BY DEF PlaceInv, OwnersTrue, Source
  <2> QED
    BY <2>1 DEF PlaceInv, DataTrue
<1> QED
  BY <1>1, PlaceInvHolds, PTL

\* A finalization without an error has every file that no other download puts
\* under its name in the library, owned as configured and with the data of the
\* download location, which is all of it unless a torrent that can be linked was
\* copied: whatever fails, crashes, repeats or loses its data.
THEOREM SuccessIsPlaced == Spec => []PlacedWhole
<1>1. TypeOK /\ PlaceInv => PlacedWhole
  <2> SUFFICES ASSUME TypeOK, PlaceInv, NEW d \in Downloads, fin[d].pc = "ok",
                      NEW f \in Own(d)
               PROVE  \E e \in InLibrary(d, f) :
                         /\ Same(d, f, e)
                         /\ e.inode \in owned
                         /\ d \notin Linkable \cap copied =>
                               content[e.inode] = Data(d, f)
    BY DEF PlacedWhole
  <2>1. PICK e \in InLibrary(d, f) : Same(d, f, e)
    BY DEF PlaceInv, Placing, Delivered
  <2>2. e.inode \in owned
    BY DEF PlaceInv, Placing, Owned
  <2>3. f \in FilesOf[d] /\ Rivals(d, f) = {d}
    BY DEF Own
  <2>4. d \notin Linkable \cap copied => content[Source(d, f)] = Data(d, f)
    BY <2>3 DEF PlaceInv, DataTrue
  <2> QED
    BY <2>1, <2>2, <2>4 DEF Same
<1> QED
  BY <1>1, PlaceInvHolds, FinalizeTypeCorrect, PTL

-----------------------------------------------------------------------------
\* Finalize implements Placement.

\* A finalization that comes to its end has placed all files with names of its own.
LEMMA DoneIsPlaced ==
    ASSUME PlaceInv, NEW d \in Downloads, fin[d].pc = "chown"
    PROVE  Placed[d] = Own(d)
<1>1. \A f \in Own(d) : \E e \in InLibrary(d, f) : Same(d, f, e)
  BY DEF PlaceInv, Placing, Delivered
<1> QED
  BY <1>1 DEF Placed

LEMMA OthersPlaced ==
    ASSUME TypeOK, PlaceInv, NEW d \in Downloads, OwnDisk(d),
           NEW c \in Downloads \ {d}
    PROVE  Placed'[c] = Placed[c]
<1>1. \A f \in Own(c) : Delivered(c, f)' <=> Delivered(c, f)
  BY OthersApart DEF PlaceInv
<1>2. Placed[c] = {f \in Own(c) : Delivered(c, f)}
  BY DEF Placed, Delivered
<1>3. Placed'[c] = {f \in Own(c) : Delivered(c, f)'}
  BY DEF Placed, Delivered
<1> QED
  BY <1>1, <1>2, <1>3

Ends == {"ok", "error"}
Under == Pc \ ({"idle"} \cup Ends)

\* What one finalization does: it starts, works on its files, succeeds or fails.
Starts(d) ==
    fin[d].pc \notin Under /\ fin'[d].pc \in Under /\ UNCHANGED disk
Works(d) ==
    fin[d].pc \in Under /\ fin'[d].pc \in Under /\ OwnDisk(d)
Succeeds(d) ==
    fin[d].pc = "chown" /\ fin'[d].pc = "ok" /\ UNCHANGED disk
Fails(d) ==
    fin[d].pc \in Under /\ fin'[d].pc = "error" /\ UNCHANGED disk

LEMMA MovesTo ==
    ASSUME TypeOK, NEW d \in Downloads, NEW pc, NEW files,
           Moves(d, At(pc)) \/ Walk(d, pc, files)
    PROVE  fin'[d].pc = pc /\ \A c \in Downloads \ {d} : fin'[c] = fin[c]
BY DEF TypeOK, Moves, Walk, At

LEMMA FinalizeKinds ==
    ASSUME TypeOK, PlaceInv, NEW d \in Downloads, Start(d) \/ FinalizeDownload(d)
    PROVE  /\ \A c \in Downloads \ {d} : fin'[c] = fin[c]
           /\ Starts(d) \/ Works(d) \/ Succeeds(d) \/ Fails(d)
<1> DEFINE Goal == /\ \A c \in Downloads \ {d} : fin'[c] = fin[c]
                   /\ Starts(d) \/ Works(d) \/ Succeeds(d) \/ Fails(d)
<1>0. fin[d].todo \subseteq FilesOf[d]
  BY DEF PlaceInv, Working
<1>1. CASE Start(d)
  <2>1. fin[d].pc \notin Under /\ UNCHANGED disk
    BY <1>1 DEF Start, Under, Ends
  <2>2. \E pc \in {"remove", "recopy"} : \E files : Moves(d, At(pc)) \/ Walk(d, pc, files)
    BY <1>1 DEF Start
  <2>3. fin'[d].pc \in Under /\ \A c \in Downloads \ {d} : fin'[c] = fin[c]
    BY <2>2, MovesTo DEF Under, Ends, Pc
  <2> QED
    BY <2>1, <2>3 DEF Starts
<1>2. CASE RemoveOld(d)
  <2>1. PICK f \in fin[d].todo : library' = library \ InLibrary(d, f)
    BY <1>2 DEF RemoveOld
  <2>2. OwnDisk(d)
    BY <1>0, <1>2, <2>1 DEF OwnDisk, RemoveOld
  <2> QED
    BY <1>2, <2>2, MovesTo DEF RemoveOld, Works, Under, Ends, Pc
<1>3. CASE Link(d)
  <2>1. PICK f \in fin[d].todo : library' = library \cup {Named(d, f, Source(d, f))}
    BY <1>3 DEF Link
  <2>2. OwnDisk(d)
    BY <1>0, <1>3, <2>1 DEF OwnDisk, Link
  <2> QED
    BY <1>3, <2>2, MovesTo DEF Link, Works, Under, Ends, Pc
<1>4. CASE Chmod(d)
  <2>1. fin[d].pc \in Under /\ OwnDisk(d)
    BY <1>4, SameDisk DEF Chmod, disk, Under, Ends, Pc
  <2>2. \E pc \in {"list", "remove"} : \E files : Moves(d, At(pc)) \/ Walk(d, pc, files)
    BY <1>4 DEF Chmod, Advance
  <2> QED
    BY <2>1, <2>2, MovesTo DEF Works, Under, Ends, Pc
<1>5. CASE LinkFails(d)
  <2>1. fin[d].pc \in Under /\ OwnDisk(d)
    BY <1>5, SameDisk DEF LinkFails, disk, Under, Ends, Pc
  <2>2. fin'[d].pc = "recopy" /\ \A c \in Downloads \ {d} : fin'[c] = fin[c]
    BY <1>5, MovesTo DEF LinkFails
  <2> QED
    BY <2>1, <2>2 DEF Works, Under, Ends, Pc
<1>6. CASE BeginCopies(d)
  <2>1. fin[d].pc \in Under /\ OwnDisk(d) /\ UNCHANGED disk
    BY <1>6, SameDisk DEF BeginCopies, disk, Under, Ends, Pc
  <2>2. \E pc \in {"open", "error"} : \E files : Moves(d, At(pc)) \/ Walk(d, pc, files)
    BY <1>6 DEF BeginCopies
  <2>3. fin'[d].pc \in {"open", "error"} /\ \A c \in Downloads \ {d} : fin'[c] = fin[c]
    BY <2>2, MovesTo
  <2> QED
    BY <2>1, <2>3 DEF Works, Fails, Under, Ends, Pc
<1>7. CASE Open(d)
  <2>1. PICK f \in fin[d].todo :
          \E i \in IF InLibrary(d, f) = {} THEN {[of |-> d, file |-> f, n |-> runs]}
                                          ELSE {e.inode : e \in InLibrary(d, f)} :
            /\ library' = library \cup {Named(d, f, i)}
            /\ content' = [content EXCEPT ![i].whole = FALSE]
            /\ Moves(d, [At("fill") EXCEPT !.todo = fin[d].todo, !.fd = {i}])
    BY <1>7 DEF Open
  <2>2. PICK i \in {[of |-> d, file |-> f, n |-> runs]}
                  \cup {e.inode : e \in InLibrary(d, f)} :
          /\ library' = library \cup {Named(d, f, i)}
          /\ content' = [content EXCEPT ![i].whole = FALSE]
          /\ Moves(d, [At("fill") EXCEPT !.todo = fin[d].todo, !.fd = {i}])
    BY <2>1
  <2>3. MadeFor(DestOf[d], f, i)
    <3>1. CASE i = [of |-> d, file |-> f, n |-> runs]
      <4>1. runs # 0
        BY <1>7 DEF Open, PlaceInv, Working
      <4> QED
        BY <1>0, <3>1, <4>1 DEF MadeFor
    <3>2. ASSUME NEW e \in InLibrary(d, f), i = e.inode PROVE MadeFor(DestOf[d], f, i)
      BY <3>2 DEF PlaceInv, NamesTrue, InLibrary
    <3> QED
      BY <2>2, <3>1, <3>2
  <2>4. OwnDisk(d)
    <3>1. \A j \in Inode : content'[j] # content[j] => j = i
      BY <2>2 DEF TypeOK
    <3> QED
      BY <1>0, <1>7, <2>2, <2>3, <3>1 DEF OwnDisk, Open
  <2>5. fin'[d].pc = "fill" /\ \A c \in Downloads \ {d} : fin'[c] = fin[c]
    BY <2>2 DEF TypeOK, Moves, At
  <2> QED
    BY <1>7, <2>4, <2>5 DEF Open, Works, Under, Ends, Pc
<1>8. CASE OpenFails(d) \/ FillFails(d) \/ ChownFails(d)
  BY <1>8, MovesTo DEF OpenFails, FillFails, ChownFails, Fails, Under, Ends, Pc
<1>9. CASE Fill(d)
  <2>1. PICK f \in fin[d].todo, i \in fin[d].fd :
          /\ Turn(d, f)
          /\ content' = [content EXCEPT ![i] = content[Source(d, f)]]
          /\ Advance(d, f, "open")
    BY <1>9 DEF Fill
  <2>2. MadeFor(DestOf[d], f, i)
    BY <1>9, <2>1 DEF Fill, PlaceInv, Working
  <2>3. \A j \in Inode : content'[j] # content[j] => j = i
    BY <2>1 DEF TypeOK
  <2>4. OwnDisk(d) /\ fin[d].pc \in Under
    BY <1>0, <1>9, <2>1, <2>2, <2>3 DEF Fill, OwnDisk, Under, Ends, Pc
  <2>5. \E pc \in {"list", "open"} : \E files : Moves(d, At(pc)) \/ Walk(d, pc, files)
    BY <2>1 DEF Advance
  <2> QED
    BY <2>4, <2>5, MovesTo DEF Works, Under, Ends, Pc
<1>10. CASE List(d)
  <2>1. fin[d].pc \in Under /\ OwnDisk(d)
    BY <1>10, SameDisk DEF List, disk, Under, Ends, Pc
  <2>2. fin'[d].pc = "chown" /\ \A c \in Downloads \ {d} : fin'[c] = fin[c]
    BY <1>10 DEF List, TypeOK, Moves, At
  <2> QED
    BY <2>1, <2>2 DEF Works, Under, Ends, Pc
<1>11. CASE Succeed(d)
  BY <1>11, MovesTo DEF Succeed, Succeeds
<1>12. CASE Chown(d)
  <2>1. PICK n : Moves(d, [At("chown") EXCEPT !.seen = fin[d].seen \ {n}])
    BY <1>12 DEF Chown
  <2>2. fin[d].pc \in Under /\ OwnDisk(d)
    BY <1>12, SameDisk DEF Chown, Under, Ends, Pc
  <2>3. fin'[d].pc = "chown" /\ \A c \in Downloads \ {d} : fin'[c] = fin[c]
    BY <2>1 DEF TypeOK, Moves, At
  <2> QED
    BY <2>2, <2>3 DEF Works, Under, Ends, Pc
<1> QED
  BY <1>1, <1>2, <1>3, <1>4, <1>5, <1>6, <1>7, <1>8, <1>9, <1>10, <1>11, <1>12
     DEF FinalizeDownload

LEMMA OutcomeAs ==
    ASSUME TypeOK, NEW d \in Downloads
    PROVE  /\ Outcome[d] = "running" <=> fin[d].pc \in Under
           /\ Outcome[d] = "none" <=> fin[d].pc = "idle"
           /\ fin[d].pc \in Ends => Outcome[d] = fin[d].pc
           /\ Outcome[d] \in {"none", "running", "ok", "error"}
<1>1. fin[d].pc \in Pc
  BY DEF TypeOK, Run
<1> QED
  BY <1>1 DEF Outcome, Under, Ends

LEMMA OutcomeNext ==
    ASSUME TypeOK', NEW d \in Downloads
    PROVE  /\ Outcome'[d] = "running" <=> fin'[d].pc \in Under
           /\ fin'[d].pc \in Ends => Outcome'[d] = fin'[d].pc
<1>1. fin'[d].pc \in Pc
  BY DEF TypeOK, Run
<1> QED
  BY <1>1 DEF Outcome, Under, Ends

LEMMA DiskPlaced ==
    ASSUME UNCHANGED <<library, content>> PROVE Placed' = Placed
BY DEF Placed, InLibrary, Same

\* One download's outcome changes, to what its finalization says.
LEMMA OutcomeStep ==
    ASSUME NEW d \in Downloads, NEW o,
           Outcome'[d] = o, \A c \in Downloads \ {d} : fin'[c] = fin[c]
    PROVE  Outcome' = [Outcome EXCEPT ![d] = o]
<1>1. \A c \in Downloads \ {d} : Outcome'[c] = Outcome[c]
  BY DEF Outcome
<1>2. Outcome' = [c \in Downloads |-> Outcome'[c]]
  BY DEF Outcome
<1>3. Outcome = [c \in Downloads |-> Outcome[c]]
  BY DEF Outcome
<1> HIDE DEF Outcome
<1> QED
  BY <1>1, <1>2, <1>3

LEMMA PlacedStep ==
    ASSUME TypeOK, PlaceInv, NEW d \in Downloads, OwnDisk(d)
    PROVE  \E files \in SUBSET Owns[d] : Placed' = [Placed EXCEPT ![d] = files]
<1> DEFINE files == Placed'[d]
<1>1. files \in SUBSET Owns[d]
  BY DEF Placed, Owns
<1>2. \A c \in Downloads \ {d} : Placed'[c] = Placed[c]
  BY OthersPlaced
<1>3. Placed' = [c \in Downloads |-> Placed'[c]]
  BY DEF Placed
<1>4. Placed = [c \in Downloads |-> Placed[c]]
  BY DEF Placed
<1> HIDE DEF Placed
<1>5. Placed' = [Placed EXCEPT ![d] = files]
  BY <1>2, <1>3, <1>4
<1> QED
  BY <1>1, <1>5

LEMMA FinalizeImplements ==
    ASSUME TypeOK, TypeOK', PlaceInv, NEW d \in Downloads,
           Start(d) \/ FinalizeDownload(d)
    PROVE  \/ Placement!Begin(d) \/ Placement!Work(d)
           \/ Placement!Succeed(d) \/ Placement!Fail(d)
<1>1. \A c \in Downloads \ {d} : fin'[c] = fin[c]
  BY FinalizeKinds
<1>2. /\ Outcome[d] = "running" <=> fin[d].pc \in Under
      /\ Outcome'[d] = "running" <=> fin'[d].pc \in Under
      /\ fin'[d].pc \in Ends => Outcome'[d] = fin'[d].pc
  BY OutcomeAs, OutcomeNext
<1>3. CASE Starts(d)
  <2>1. Outcome' = [Outcome EXCEPT ![d] = "running"]
    BY <1>1, <1>2, <1>3, OutcomeStep DEF Starts
  <2>2. Placed' = Placed /\ Outcome[d] # "running"
    BY <1>2, <1>3, DiskPlaced DEF Starts, disk
  <2> QED
    BY <2>1, <2>2 DEF Placement!Begin
<1>4. CASE Works(d)
  <2>1. Outcome[d] = "running" /\ Outcome' = Outcome
    <3>1. Outcome'[d] = "running" /\ Outcome[d] = "running"
      BY <1>2, <1>4 DEF Works
    <3>2. Outcome' = [Outcome EXCEPT ![d] = "running"]
      BY <1>1, <3>1, OutcomeStep
    <3>3. Outcome = [Outcome EXCEPT ![d] = "running"]
      BY <3>1 DEF Outcome
    <3> QED
      BY <3>1, <3>2, <3>3
  <2>2. \E files \in SUBSET Owns[d] : Placed' = [Placed EXCEPT ![d] = files]
    BY <1>4, PlacedStep DEF Works
  <2> QED
    BY <2>1, <2>2 DEF Placement!Work
<1>5. CASE Succeeds(d)
  <2>1. Outcome' = [Outcome EXCEPT ![d] = "ok"]
    BY <1>1, <1>2, <1>5, OutcomeStep DEF Succeeds, Ends
  <2>2. Placed' = Placed /\ Outcome[d] = "running" /\ Placed[d] = Owns[d]
    BY <1>2, <1>5, DiskPlaced, DoneIsPlaced DEF Succeeds, disk, Under, Ends, Pc, Owns
  <2> QED
    BY <2>1, <2>2 DEF Placement!Succeed
<1>6. CASE Fails(d)
  <2>1. Outcome' = [Outcome EXCEPT ![d] = "error"]
    BY <1>1, <1>2, <1>6, OutcomeStep DEF Fails, Ends
  <2>2. Placed' = Placed /\ Outcome[d] = "running"
    BY <1>2, <1>6, DiskPlaced DEF Fails, disk
  <2> QED
    BY <2>1, <2>2 DEF Placement!Fail
<1> QED
  BY <1>3, <1>4, <1>5, <1>6, FinalizeKinds

LEMMA CrashImplements ==
    ASSUME TypeOK, Crash PROVE Placement!Crash
<1>1. Placed' = Placed
  BY DiskPlaced DEF Crash, disk
<1>2. ASSUME NEW d \in Downloads
      PROVE  Outcome'[d] = IF Outcome[d] = "running" THEN "none" ELSE Outcome[d]
  <2>1. fin'[d] = IF fin[d].pc \in {"ok", "error"} THEN fin[d] ELSE At("idle")
    BY DEF Crash
  <2>2. At("idle").pc = "idle"
    BY DEF At
  <2> QED
    BY <2>1, <2>2 DEF Outcome
<1>3. Outcome' = [d \in Downloads |->
                     IF Outcome[d] = "running" THEN "none" ELSE Outcome[d]]
  BY <1>2 DEF Outcome
<1> QED
  BY <1>1, <1>3 DEF Placement!Crash

LEMMA PlacementStep ==
    ASSUME TypeOK, TypeOK', PlaceInv, [Next]_vars
    PROVE  [Placement!Next]_(<<Placed, Outcome>>)
<1>1. CASE UNCHANGED vars
  BY <1>1, DiskPlaced DEF vars, disk, Outcome
<1>2. CASE Crash
  BY <1>2, CrashImplements DEF Placement!Next
<1>3. ASSUME NEW d \in Downloads, RemoveData(d)
      PROVE  UNCHANGED <<Placed, Outcome>>
  BY <1>3, DiskPlaced DEF RemoveData, Outcome
<1>4. ASSUME NEW d \in Downloads, Start(d) \/ FinalizeDownload(d)
      PROVE  Placement!Next
  BY <1>4, FinalizeImplements DEF Placement!Next
<1> QED
  BY <1>1, <1>2, <1>3, <1>4 DEF Next

LEMMA PlacementInit == Init => Placement!Init
<1> SUFFICES ASSUME Init PROVE Placement!Init
  OBVIOUS
<1>1. \A d \in Downloads : fin[d].pc = "idle"
  BY DEF Init, At
<1>2. \A d \in Downloads : \A f \in FilesOf[d] : InLibrary(d, f) = {}
  BY DEF Init, InLibrary
<1>3. ASSUME NEW d \in Downloads
      PROVE  {f \in Own(d) : \E e \in InLibrary(d, f) : Same(d, f, e)} = {}
  <2>1. Own(d) \subseteq FilesOf[d]
    BY DEF Own
  <2> QED
    BY <1>2, <2>1
<1>4. Placed = [d \in Downloads |-> {}]
  BY <1>3 DEF Placed
<1>5. Outcome = [d \in Downloads |-> "none"]
  BY <1>1 DEF Outcome
<1> QED
  BY <1>4, <1>5 DEF Placement!Init

\* Whatever names downloads share and whatever fails, a step of finalizeDownload
\* touches no name in the library that is another download's own, and it reports
\* success only when all of its own lead to what the download location has.
THEOREM FinalizePlaces == Spec => PlacementSpec
<1>1. TypeOK /\ TypeOK' /\ PlaceInv /\ [Next]_vars => [Placement!Next]_(<<Placed, Outcome>>)
  BY PlacementStep
<1>2. Spec => Placement!Init /\ [][Placement!Next]_(<<Placed, Outcome>>)
  BY <1>1, PlacementInit, PlaceInvHolds, FinalizeTypeCorrect, PTL DEF Spec
<1> QED
  BY <1>2 DEF PlacementSpec, Placement!Spec
=============================================================================
