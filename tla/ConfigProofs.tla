--------------------------- MODULE ConfigProofs ---------------------------
(* Proofs about ConfigStore, for any handlers, values, defaults and overrides.

   TypeOK is inductive by itself.  SettingsKept needs to know who is inside the
   lock (LockOK: a writer is alone, readers are counted), hence that two requests
   which race have both taken the read lock and are in mixed (MixOK), whom each
   setting in memory is from (LastOK), and what a save that is alone has done so
   far (DataOK).                                                               *)
EXTENDS ConfigStore, TLAPS

LEMMA CarriedFields == Carried \subseteq Fields /\ Fields = {"token", "dir", "limit", "interval"}
  BY DEF Carried, Fields

LEMMA MessagesTyped == \A v \in Messages : DOMAIN v \subseteq Fields /\ \A f \in DOMAIN v : v[f] \in Values
  BY DEF Messages

LEMMA RequestsTyped == \A k \in Kinds : Requests(k) \subseteq Messages
  <1>1. SUFFICES ASSUME NEW k \in Kinds, NEW v \in Requests(k) PROVE v \in Messages
    OBVIOUS
  <1>2. PICK D \in Parts(k) : v \in [Assigned(D) -> Values]
    BY <1>1 DEF Requests
  <1>3. D \subseteq Fields
    BY <1>1, <1>2 DEF Parts, Kinds, Fields, Carried
  <1>4. Assigned(D) \in SUBSET Fields
    BY <1>3, CarriedFields DEF Assigned
  <1>. QED
    BY <1>2, <1>4 DEF Messages

LEMMA NoFieldsTyped == NoFields \in Messages /\ DOMAIN NoFields = {}
  <1>1. NoFields \in [{} -> Values] /\ {} \in SUBSET Fields
    BY DEF NoFields
  <1>. QED
    BY <1>1 DEF Messages

LEMMA NothingTyped == Nothing \in [Fields -> Values]
  BY ValuesAssumption DEF Nothing

LEMMA ChoicesPointwise ==
  ASSUME NEW s, NEW t \in Choices(s)
  PROVE  /\ t \in [Fields -> UNION {s[f] : f \in Fields}]
         /\ \A f \in Fields : t[f] \in s[f]
  BY DEF Choices

(* What overlapping assignments and reads leave are values or torn ones. *)
LEMMA LeftTyped ==
  ASSUME TypeOK, NEW S \in SUBSET Handlers, NEW m \in Choices(Left(S))
  PROVE  m \in [Fields -> Anything]
  <1>1. \A f \in Fields : Left(S)[f] \subseteq Anything
    BY MessagesTyped DEF Left, Assigning, TypeOK, Anything
  <1>. QED
    BY <1>1, ChoicesPointwise

LEMMA SeenTyped ==
  ASSUME TypeOK, NEW p \in Procs, NEW m \in Choices(Seen(p))
  PROVE  m \in [Fields -> Anything]
  <1>1. \A f \in Fields : Seen(p)[f] \subseteq Anything
    BY MessagesTyped DEF Seen, Assigning, TypeOK, Anything
  <1>. QED
    BY <1>1, ChoicesPointwise

--------------------------------------------------------------------------
LEMMA InitTyped == Init => TypeOK
  <1>1. SUFFICES ASSUME Init PROVE TypeOK
    OBVIOUS
  <1>2. Nothing \in [Fields -> Values] /\ DOMAIN EmptyFile = {}
    BY NothingTyped DEF EmptyFile
  <1>. QED
    BY <1>1, <1>2, NoFieldsTyped, ProcsAssumption DEF Init, TypeOK, Steps, Procs, Kinds, Anything

LEMMA StartTyped == TypeOK /\ (Read \/ Scan \/ ResolvePaths) => TypeOK'
  <1>1. SUFFICES ASSUME TypeOK, Read \/ Scan \/ ResolvePaths PROVE TypeOK'
    OBVIOUS
  <1>2. CASE Read
    <2>1. Unmarshalled(file) \in [Fields -> Anything] /\ Nothing \in [Fields -> Anything]
      BY <1>1, ValuesAssumption DEF Unmarshalled, Nothing, TypeOK, Anything
    <2>2. mem' \in [Fields -> Anything] /\ lost' \in BOOLEAN
      BY <1>1, <1>2, <2>1 DEF Read, TypeOK
    <2>. QED
      BY <1>1, <1>2, <2>2, ProcsAssumption DEF Read, TypeOK, Procs, lock
  <1>3. CASE Scan
    <2>1. \A o \in Overrides : Scanned(mem, o) \in [Fields -> Anything]
      BY <1>1, ValuesAssumption DEF Scanned, OrDefault, TypeOK, Anything
    <2>2. Nothing \in [Fields -> Anything]
      BY NothingTyped DEF Anything
    <2>3. mem' \in [Fields -> Anything]
      BY <1>3, <2>1, <2>2 DEF Scan, StartEnds
    <2>. QED
      BY <1>1, <1>3, <2>3, ProcsAssumption DEF Scan, StartEnds, TypeOK, Procs, Steps, lock, ghosts
  <1>4. CASE ResolvePaths
    <2>1. \A f \in Fields : Resolved(f, mem[f]) \in Anything
      BY <1>1, ValuesAssumption DEF Resolved, TypeOK
    <2>2. Nothing \in [Fields -> Anything]
      BY NothingTyped DEF Anything
    <2>3. mem' \in [Fields -> Anything]
      BY <1>4, <2>1, <2>2 DEF ResolvePaths, StartEnds
    <2>4. known' \in [Carried -> SUBSET Anything]
      BY <1>1, <1>4, <2>3, CarriedFields DEF ResolvePaths, TypeOK
    <2>. QED
      BY <1>1, <1>4, <2>3, <2>4, ProcsAssumption
      DEF ResolvePaths, StartEnds, TypeOK, Procs, Steps, lock
  <1>. QED
    BY <1>1, <1>2, <1>3, <1>4

LEMMA MeetsTyped ==
  ASSUME TypeOK, NEW h \in Handlers, Meets(h)
  PROVE  mixed' \subseteq Handlers /\ lost' \in BOOLEAN
  <1>1. mixed' \subseteq Handlers
    BY DEF Meets, Beside, TypeOK
  <1>2. lost' = lost \/ lost' = TRUE
    BY DEF Meets
  <1>. QED
    BY <1>1, <1>2, Zenon DEF TypeOK

LEMMA RequestTyped ==
  ASSUME TypeOK, NEW h \in Handlers,
         Begin(h) \/ Lock(h) \/ RLock(h) \/ Enter(h) \/ Validate(h) \/ Release(h)
  PROVE  TypeOK'
  <1>0. h # Main /\ h \in Procs
    BY ProcsAssumption DEF Procs
  <1>1. CASE Begin(h)
    <2>1. PICK k \in Calls[h], v \in Messages :
             kind' = [kind EXCEPT ![h] = k] /\ sent' = [sent EXCEPT ![h] = v]
      BY <1>1, CallsAssumption, RequestsTyped DEF Begin
    <2>2. kind' \in [Handlers -> Kinds]
      BY <2>1, CallsAssumption DEF TypeOK
    <2>3. sent' \in [Handlers -> Messages]
      BY <2>1 DEF TypeOK
    <2>. QED
      BY <1>0, <1>1, <2>2, <2>3 DEF Begin, TypeOK, Procs, Steps, lock, ghosts
  <1>2. CASE Lock(h)
    BY <1>0, <1>2 DEF Lock, TypeOK, Steps, ghosts
  <1>3. CASE RLock(h)
    BY <1>0, <1>3 DEF RLock, TypeOK, Steps, ghosts
  <1>4. CASE Enter(h)
    <2>1. mixed' \subseteq Handlers /\ lost' \in BOOLEAN
      BY <1>4, MeetsTyped DEF Enter
    <2>. QED
      BY <1>0, <1>4, <2>1 DEF Enter, TypeOK, Steps, lock
  <1>5. CASE Validate(h)
    <2>1. mixed' \subseteq Handlers /\ lost' \in BOOLEAN
      BY <1>5, MeetsTyped DEF Validate
    <2>. QED
      BY <1>0, <1>5, <2>1 DEF Validate, TypeOK, Steps, lock
  <1>6. CASE Release(h)
    <2>1. known' \in [Carried -> SUBSET Anything]
      <3>1. \A f \in DOMAIN sent[h] : sent[h][f] \in Anything
        BY MessagesTyped DEF TypeOK, Anything
      <3>. QED
        BY <1>6, <3>1 DEF Release, TypeOK
    <2>4. last' \in [Carried -> Handlers \cup {NoOne}]
      BY <1>6 DEF Release, TypeOK
    <2>2. kind' \in [Handlers -> Kinds] /\ sent' \in [Handlers -> Messages]
      BY <1>6, NoFieldsTyped DEF Release, TypeOK, Kinds
    <2>3. announced' \in Handlers \cup {NoOne} /\ readers' \subseteq Handlers
      BY <1>6 DEF Release, TypeOK, Waiting
    <2>. QED
      BY <1>0, <1>6, <2>1, <2>2, <2>3, <2>4 DEF Release, TypeOK, Steps
  <1>. QED
    BY <1>1, <1>2, <1>3, <1>4, <1>5, <1>6

LEMMA AssignTyped ==
  ASSUME TypeOK, NEW S \in SUBSET Handlers, Assign(S)
  PROVE  TypeOK'
  <1>1. mem' \in [Fields -> Anything]
    BY LeftTyped DEF Assign
  <1>2. known' \in [Carried -> SUBSET Anything]
    <2>1. \A f \in Fields : Left(S)[f] \subseteq Anything
      BY MessagesTyped DEF Left, Assigning, TypeOK, Anything
    <2>. QED
      BY <2>1, CarriedFields DEF Assign, TypeOK
  <1>3. last' \in [Carried -> Handlers \cup {NoOne}]
    BY DEF Assign, TypeOK
  <1>. QED
    BY <1>1, <1>2, <1>3, ProcsAssumption DEF Assign, TypeOK, Steps, lock, Procs

(* A step of a dump leaves everybody else where he is. *)
LEMMA NextStep ==
  ASSUME TypeOK, NEW p \in Procs,
         NEW next \in {"marshal", "open", "write", IF p = Main THEN "up" ELSE "done",
                       IF p = Main THEN "up" ELSE "refused"},
         pc' = [pc EXCEPT ![p] = next]
  PROVE  /\ pc' \in [Procs -> Steps \cup {"off", "scan", "resolve", "up"}]
         /\ pc'[Main] \in {"off", "scan", "resolve", "create", "marshal", "open", "write", "up"}
         /\ \A h \in Handlers : pc'[h] \in Steps
  <1>1. CASE p = Main
    BY <1>1, ProcsAssumption DEF TypeOK, Steps, Procs
  <1>2. CASE p \in Handlers
    BY <1>2, ProcsAssumption DEF TypeOK, Steps, Procs
  <1>. QED
    BY <1>1, <1>2 DEF Procs

LEMMA DumpTyped ==
  ASSUME TypeOK, NEW p \in Procs, Dump(p)
  PROVE  TypeOK'
  <1>0. DOMAIN EmptyFile = {} /\ Nothing \in [Fields -> Anything]
    BY ValuesAssumption DEF EmptyFile, Nothing, Anything
  <1>1. CASE Create(p)
    <2>1. PICK next \in {"marshal", IF p = Main THEN "up" ELSE "refused"} :
             pc' = [pc EXCEPT ![p] = next]
      BY <1>1 DEF Create, Failed
    <2>2. DOMAIN file' \subseteq Fields /\ \A f \in DOMAIN file' : file'[f] \in Anything
      BY <1>0, <1>1 DEF Create, TypeOK
    <2>3. mixed' \subseteq Handlers
      BY <1>1 DEF Create, TypeOK
    <2>. QED
      BY <1>1, <2>2, <2>3, NextStep, <2>1 DEF Create, TypeOK, lock
  <1>2. CASE Marshal(p)
    <2>1. text' \in [Procs -> [Fields -> Anything]]
      BY <1>2, SeenTyped DEF Marshal, TypeOK
    <2>. QED
      BY <1>2, <2>1, ProcsAssumption DEF Marshal, TypeOK, Steps, lock, ghosts, Procs
  <1>3. CASE Open(p)
    <2>1. text' \in [Procs -> [Fields -> Anything]] /\ lost' \in BOOLEAN
      BY <1>0, <1>3 DEF Open, TypeOK
    <2>2. DOMAIN file' \subseteq Fields /\ \A f \in DOMAIN file' : file'[f] \in Anything
      BY <1>0, <1>3 DEF Open, TypeOK
    <2>3. PICK next \in {"write", IF p = Main THEN "up" ELSE "refused"} :
             pc' = [pc EXCEPT ![p] = next]
      BY <1>3 DEF Open, Failed
    <2>4. /\ pc' \in [Procs -> Steps \cup {"off", "scan", "resolve", "up"}]
          /\ pc'[Main] \in {"off", "scan", "resolve", "create", "marshal", "open", "write", "up"}
          /\ \A h \in Handlers : pc'[h] \in Steps
      BY <2>3, NextStep
    <2>5. mixed' \subseteq Handlers
      BY <1>3 DEF Open, TypeOK
    <2>. QED
      BY <1>3, <2>1, <2>2, <2>4, <2>5 DEF Open, TypeOK, lock
  <1>4. CASE Write(p)
    <2>1. text' \in [Procs -> [Fields -> Anything]]
      BY <1>0, <1>4 DEF Write, TypeOK
    <2>2. known' \in [Carried -> SUBSET Anything] /\ lost' \in BOOLEAN
      <3>1. [f \in Carried |-> {mem[f]}] \in [Carried -> SUBSET Anything]
        BY CarriedFields DEF TypeOK
      <3>2. known' = known \/ known' = [f \in Carried |-> {mem[f]}]
        BY <1>4 DEF Write
      <3>3. lost' \in BOOLEAN
        <4>1. lost' = lost \/ lost' = FALSE \/ lost' = TRUE
          BY <1>4 DEF Write
        <4>. QED
          BY <4>1, Zenon DEF TypeOK
      <3>. QED
        BY <3>1, <3>2, <3>3 DEF TypeOK
    <2>3. DOMAIN file' \subseteq Fields /\ \A f \in DOMAIN file' : file'[f] \in Anything
      <3>1. DOMAIN text[p] = Fields /\ \A f \in Fields : text[p][f] \in Anything
        BY DEF TypeOK
      <3>2. CASE file' \in Over(file, text[p])
        BY <1>0, <3>1, <3>2 DEF Over
      <3>3. CASE file' \in Cut(text[p])
        <4>1. PICK D \in Prefixes : file' = [f \in D |-> text[p][f]]
          BY <3>3 DEF Cut
        <4>2. D \subseteq Fields
          BY CarriedFields DEF Prefixes
        <4>. QED
          BY <3>1, <4>1, <4>2
      <3>. QED
        BY <1>4, <3>2, <3>3 DEF Write
    <2>4. PICK next \in {IF p = Main THEN "up" ELSE "done", IF p = Main THEN "up" ELSE "refused"} :
             pc' = [pc EXCEPT ![p] = next]
      BY <1>4 DEF Write, Failed
    <2>5. /\ pc' \in [Procs -> Steps \cup {"off", "scan", "resolve", "up"}]
          /\ pc'[Main] \in {"off", "scan", "resolve", "create", "marshal", "open", "write", "up"}
          /\ \A h \in Handlers : pc'[h] \in Steps
      BY <2>4, NextStep
    <2>. QED
      BY <1>4, <2>1, <2>2, <2>3, <2>5 DEF Write, TypeOK, lock
  <1>. QED
    BY <1>1, <1>2, <1>3, <1>4 DEF Dump

LEMMA CrashTyped == TypeOK /\ Crash => TypeOK'
  <1>1. SUFFICES ASSUME TypeOK, Crash PROVE TypeOK'
    OBVIOUS
  <1>2. Nothing \in [Fields -> Values] /\ Nothing \in [Fields -> Anything]
    BY NothingTyped DEF Anything
  <1>. QED
    BY <1>1, <1>2, NoFieldsTyped, ProcsAssumption DEF Crash, TypeOK, Steps, Procs, Kinds

LEMMA NextTyped == TypeOK /\ [Next]_vars => TypeOK'
  <1>1. SUFFICES ASSUME TypeOK, [Next]_vars PROVE TypeOK'
    OBVIOUS
  <1>2. CASE UNCHANGED vars
    BY <1>1, <1>2 DEF vars, TypeOK
  <1>3. CASE Next
    BY <1>1, <1>3, StartTyped, RequestTyped, AssignTyped, DumpTyped, CrashTyped DEF Next
  <1>. QED
    BY <1>1, <1>2, <1>3

(* TypeOK: every goroutine is at one of its own steps, and the memory, the file
   and the texts hold values of the settings, whatever requests overlap.       *)
THEOREM ConfigTypeCorrect == Spec => []TypeOK
  BY InitTyped, NextTyped, PTL DEF Spec

--------------------------------------------------------------------------
Inside == {"validate", "assign", "create", "marshal", "open", "write", "done", "refused"}

LockOK ==
  /\ \A h \in Handlers : pc[h] \in Inside =>
       IF Exclusive(kind[h]) THEN announced = h /\ readers = {} ELSE h \in readers
  /\ \A h \in Handlers : pc[h] = "wait" /\ Exclusive(kind[h]) => announced = h
  /\ announced # NoOne => Exclusive(kind[announced]) /\ pc[announced] \in Inside \cup {"wait"}
  /\ \A h \in readers : ~Exclusive(kind[h]) /\ pc[h] \in Inside \cup {"wait"}
  /\ \A h \in Handlers : kind[h] = "load" => pc[h] \notin Inside \ {"done"}
  /\ ~Up => \A h \in Handlers : pc[h] = "idle"

LEMMA SetterKinds == \A k \in Kinds : k = "load" \/ Exclusive(k) \/ k \in Shared
  BY DEF Kinds, Exclusive, Shared

LEMMA LoadIsShared == ~Exclusive("load")
  BY DEF Exclusive

(* Two requests that are past the lock and no readers have both taken the read
   lock.                                                                       *)
LEMMA BothShared ==
  ASSUME TypeOK, LockOK, NEW h \in Handlers, NEW k \in Handlers, h # k,
         kind[h] # "load", kind[k] # "load",
         pc[h] \in Inside \/ (pc[h] = "wait" /\ IF Exclusive(kind[h]) THEN announced = h /\ readers = {}
                                               ELSE h \in readers),
         pc[k] \in Inside
  PROVE  {kind[h], kind[k]} \subseteq Shared
  <1>1. ~Exclusive(kind[h]) /\ ~Exclusive(kind[k])
    BY DEF LockOK
  <1>. QED
    BY <1>1, SetterKinds DEF TypeOK

LEMMA InitLock == Init => LockOK
  BY ProcsAssumption, LoadIsShared DEF Init, LockOK, Procs, Inside, Up

LEMMA StartLock == TypeOK /\ LockOK /\ (Read \/ Scan \/ ResolvePaths \/ Crash) => LockOK'
  <1>1. SUFFICES ASSUME TypeOK, LockOK, Read \/ Scan \/ ResolvePaths \/ Crash PROVE LockOK'
    OBVIOUS
  <1>2. CASE Crash
    BY <1>1, <1>2, ProcsAssumption, LoadIsShared DEF Crash, LockOK, Procs, Inside, Up
  <1>3. CASE Read \/ Scan \/ ResolvePaths
    <2>1. \A h \in Handlers : pc[h] = "idle" /\ pc'[h] = "idle"
      <3>1. \E next : pc' = [pc EXCEPT ![Main] = next]
        BY <1>3 DEF Read, Scan, ResolvePaths, StartEnds
      <3>2. pc[Main] # "up"
        BY <1>3 DEF Read, Scan, ResolvePaths
      <3>. QED
        BY <1>1, <3>1, <3>2, ProcsAssumption DEF LockOK, Up, TypeOK, Procs
    <2>2. UNCHANGED <<kind, announced, readers>>
      BY <1>3 DEF Read, Scan, ResolvePaths, lock
    <2>. QED
      BY <1>1, <2>1, <2>2 DEF LockOK, Inside, TypeOK
  <1>. QED
    BY <1>1, <1>2, <1>3

LEMMA UpKept ==
  ASSUME TypeOK, NEW h \in Handlers, h # Main,
         Begin(h) \/ Lock(h) \/ RLock(h) \/ Enter(h) \/ Validate(h) \/ Release(h)
  PROVE  pc'[Main] = pc[Main]
  <1>1. \E next : pc' = [pc EXCEPT ![h] = next]
    BY DEF Begin, Lock, RLock, Enter, Validate, Release
  <1>. QED
    BY <1>1, ProcsAssumption DEF TypeOK, Procs

LEMMA RequestLock ==
  ASSUME TypeOK, LockOK, NEW h \in Handlers,
         Begin(h) \/ Lock(h) \/ RLock(h) \/ Enter(h) \/ Validate(h) \/ Release(h)
  PROVE  LockOK'
  <1>0. h # Main /\ h \in Procs /\ h # NoOne /\ NoOne \notin Handlers
    BY ProcsAssumption DEF Procs
  <1>u. Up /\ pc'[Main] = pc[Main]
    <2>1. pc[h] # "idle" \/ Up
      BY DEF Begin, Lock, RLock, Enter, Validate, Release
    <2>. QED
      BY <1>0, <2>1, UpKept DEF LockOK
  <1>1. CASE Begin(h)
    BY <1>0, <1>1, <1>u DEF Begin, TypeOK, LockOK, Inside, Up, lock
  <1>2. CASE Lock(h)
    BY <1>0, <1>2, <1>u DEF Lock, TypeOK, LockOK, Inside, Up
  <1>3. CASE RLock(h)
    BY <1>0, <1>3, <1>u DEF RLock, TypeOK, LockOK, Inside, Up
  <1>4. CASE Enter(h)
    BY <1>0, <1>4, <1>u DEF Enter, TypeOK, LockOK, Inside, Up, lock, Validated
  <1>5. CASE Validate(h)
    BY <1>0, <1>5, <1>u DEF Validate, TypeOK, LockOK, Inside, Up, lock
  <1>6. CASE Release(h)
    <2>1. \A k \in Handlers \ {h} : pc'[k] = pc[k] /\ kind'[k] = kind[k]
      BY <1>6 DEF Release, TypeOK
    <2>2. pc'[h] = "idle" /\ kind'[h] = "load" /\ Up'
      BY <1>0, <1>6, <1>u DEF Release, TypeOK, Up
    <2>3. CASE Exclusive(kind[h])
      <3>1. announced = h /\ readers = {} /\ announced' = NoOne /\ readers' = Waiting
        BY <1>6, <2>3 DEF Release, LockOK, Inside
      <3>2. \A k \in Waiting : k # h /\ ~Exclusive(kind[k])
        BY <1>6, <3>1 DEF Waiting, LockOK, Release
      <3>3. \A k \in Handlers \ {h} : pc[k] \notin Inside
        BY <3>1, <1>0 DEF LockOK
      <3>. QED
        BY <1>0, <2>1, <2>2, <3>1, <3>2, <3>3 DEF LockOK, Waiting, Inside
    <2>4. CASE ~Exclusive(kind[h])
      <3>1. readers' = readers \ {h} /\ announced' = announced
        BY <1>6, <2>4 DEF Release
      <3>2. announced # h
        BY <2>4, <1>0 DEF LockOK
      <3>. QED
        BY <1>0, <2>1, <2>2, <3>1, <3>2 DEF LockOK, Inside, TypeOK
    <2>. QED
      BY <2>3, <2>4
  <1>. QED
    BY <1>1, <1>2, <1>3, <1>4, <1>5, <1>6

LEMMA AssignLock ==
  ASSUME TypeOK, LockOK, NEW S \in SUBSET Handlers, Assign(S)
  PROVE  LockOK'
  BY ProcsAssumption DEF Assign, TypeOK, LockOK, Inside, Up, lock, Procs

LEMMA DumpLock ==
  ASSUME TypeOK, LockOK, NEW p \in Procs, Dump(p)
  PROVE  LockOK'
  <1>1. \E next \in {"marshal", "open", "write", "done", "refused", "up"} :
          /\ pc' = [pc EXCEPT ![p] = next]
          /\ next = "up" <=> (p = Main /\ next \notin {"marshal", "open", "write"})
    BY DEF Dump, Create, Marshal, Open, Write, Failed
  <1>2. pc[p] \in Inside \ {"done"} /\ UNCHANGED <<kind, announced, readers>>
    BY DEF Dump, Create, Marshal, Open, Write, lock, Inside
  <1>3. CASE p = Main
    <2>1. pc[Main] # "up" /\ \A h \in Handlers : pc[h] = "idle" /\ pc'[h] = pc[h]
      BY <1>1, <1>2, <1>3, ProcsAssumption DEF LockOK, Up, TypeOK, Inside, Procs
    <2>2. announced \in Handlers \cup {NoOne} /\ readers \subseteq Handlers
      BY DEF TypeOK
    <2>. QED
      BY <1>2, <2>1, <2>2 DEF LockOK, Inside
  <1>4. CASE p \in Handlers
    <2>1. pc'[Main] = pc[Main] /\ \A h \in Handlers \ {p} : pc'[h] = pc[h]
      BY <1>1, <1>4, ProcsAssumption DEF TypeOK, Procs
    <2>2. pc'[p] \in Inside
      BY <1>1, <1>4, ProcsAssumption DEF TypeOK, Procs, Inside
    <2>3. announced \in Handlers \cup {NoOne} /\ readers \subseteq Handlers
      BY DEF TypeOK
    <2>4. kind[p] # "load" /\ Up /\ Up'
      BY <1>2, <1>4, <2>1 DEF LockOK, Up, Inside
    <2>. QED
      BY <1>2, <1>4, <2>1, <2>2, <2>3, <2>4 DEF LockOK, Inside
  <1>. QED
    BY <1>3, <1>4 DEF Procs

LEMMA NextLock == TypeOK /\ LockOK /\ [Next]_vars => LockOK'
  <1>1. SUFFICES ASSUME TypeOK, LockOK, [Next]_vars PROVE LockOK'
    OBVIOUS
  <1>2. CASE UNCHANGED vars
    BY <1>1, <1>2 DEF vars, LockOK, Up
  <1>3. CASE Next
    BY <1>1, <1>3, StartLock, RequestLock, AssignLock, DumpLock DEF Next
  <1>. QED
    BY <1>1, <1>2, <1>3

--------------------------------------------------------------------------
(* Who meets whom, and whom the settings in memory are from. *)
MixOK ==
  /\ \A h, k \in Handlers : h # k /\ pc[h] \in Racing /\ pc[k] \in Racing => h \in mixed
  /\ \A h \in mixed : pc[h] \in Racing
  /\ mixed # {} => lost

\* The steps of a request that has assigned its fields.
Changed == {"create", "marshal", "open", "write", "done", "refused"}

LastOK ==
  \A f \in Carried : last[f] # NoOne =>
    /\ pc[last[f]] \in Changed
    /\ f \in DOMAIN sent[last[f]]
    /\ mem[f] = sent[last[f]][f]

DataOK ==
  /\ pc[Main] \notin {"off", "scan", "resolve"} => \A f \in Carried : mem[f] \in known[f]
  /\ pc[Main] = "scan" /\ ~lost => \A f \in Carried : mem[f] \in known[f]
  /\ pc[Main] = "resolve" /\ ~lost => \A f \in Carried : mem[f] \in Started(f)
  /\ \A p \in Procs \ mixed : pc[p] \in {"open", "write"} => text[p] = mem
  /\ \A p \in Procs \ mixed : pc[p] = "write" => file = EmptyFile
  /\ ~lost /\ (\A p \in Procs : pc[p] \notin Saving) =>
       /\ DOMAIN file = Fields
       /\ \A f \in Carried : file[f] \in known[f]
       /\ \A f \in Carried : last[f] # NoOne /\ pc[last[f]] = "done" => file[f] = mem[f]

LEMMA RacingSteps ==
  Racing = {"assign", "create", "marshal", "open", "write"} /\ Saving = {"marshal", "open", "write"}
  BY DEF Racing, Saving

(* Nobody else races with a goroutine that does and is not in mixed. *)
LEMMA Alone ==
  ASSUME TypeOK, LockOK, MixOK, NEW p \in Procs \ mixed, pc[p] \in Racing
  PROVE  \A q \in Procs \ {p} : pc[q] \notin Racing
  <1>1. CASE p = Main
    BY <1>1, RacingSteps DEF LockOK, Up, Procs
  <1>2. CASE p \in Handlers
    <2>1. pc[Main] = "up"
      BY <1>2, RacingSteps DEF LockOK, Up
    <2>. QED
      BY <1>2, <2>1, RacingSteps DEF MixOK, Procs
  <1>. QED
    BY <1>1, <1>2 DEF Procs

(* Requests that race with h are beside it. *)
LEMMA RacersBeside ==
  ASSUME TypeOK, LockOK, NEW h \in Handlers, Enter(h) \/ Validate(h), pc'[h] = "assign"
  PROVE  Beside(h) = {k \in Handlers \ {h} : pc[k] \in Racing}
  <1>1. kind[h] # "load"
    BY DEF Enter, Validate, TypeOK, Validated, LockOK, Inside
  <1>2. \/ pc[h] \in Inside
        \/ pc[h] = "wait" /\ IF Exclusive(kind[h]) THEN announced = h /\ readers = {} ELSE h \in readers
    BY DEF Enter, Validate, Inside
  <1>3. ASSUME NEW k \in Handlers \ {h}, pc[k] \in Racing
        PROVE  {kind[h], kind[k]} \subseteq Shared
    <2>1. pc[k] \in Inside /\ kind[k] # "load"
      BY <1>3, RacingSteps DEF Inside, LockOK
    <2>. QED
      BY <1>1, <1>2, <2>1, BothShared
  <1>. QED
    BY <1>3 DEF Beside

LEMMA InitData == Init => MixOK /\ LastOK /\ DataOK
  <1>1. SUFFICES ASSUME Init PROVE MixOK /\ LastOK /\ DataOK
    OBVIOUS
  <1>2. \A p \in Procs : pc[p] \in {"off", "idle"}
    BY <1>1 DEF Init
  <1>3. pc[Main] = "off" /\ lost /\ mixed = {} /\ \A f \in Carried : last[f] = NoOne
    BY <1>1 DEF Init, Procs
  <1>4. MixOK
    BY <1>2, <1>3, RacingSteps DEF MixOK, Procs
  <1>5. LastOK
    BY <1>3 DEF LastOK
  <1>6. DataOK
    BY <1>2, <1>3 DEF DataOK
  <1>. QED
    BY <1>4, <1>5, <1>6

(* Steps after which no request is at work. *)
LEMMA StartMix ==
  ASSUME TypeOK, LockOK, MixOK, LastOK, Read \/ Scan \/ ResolvePaths \/ Crash
  PROVE  MixOK' /\ LastOK'
  <1>1. CASE Crash
    BY <1>1, ProcsAssumption, RacingSteps DEF Crash, MixOK, LastOK, Procs
  <1>2. CASE Read \/ Scan \/ ResolvePaths
    <2>1. pc[Main] # "up" /\ \A h \in Handlers : pc[h] = "idle"
      BY <1>2 DEF Read, Scan, ResolvePaths, LockOK, Up
    <2>2. mixed = {} /\ \A f \in Carried : last[f] = NoOne
      BY <2>1, RacingSteps DEF MixOK, LastOK, Changed, TypeOK
    <2>3. mixed' = {} /\ last' = last
      BY <1>2, <2>2 DEF Read, Scan, ResolvePaths, ghosts
    <2>4. \A h \in Handlers : pc'[h] = "idle"
      BY <1>2, <2>1, ProcsAssumption DEF Read, Scan, ResolvePaths, StartEnds, TypeOK, Procs
    <2>. QED
      BY <2>2, <2>3, <2>4, RacingSteps DEF MixOK, LastOK
  <1>. QED
    BY <1>1, <1>2

LEMMA ReadData ==
  ASSUME TypeOK, LockOK, DataOK, Read
  PROVE  DataOK'
  <1>1. \A p \in Procs : pc[p] \notin Saving /\ pc'[p] \notin Saving /\ pc'[p] # "done"
    BY ProcsAssumption, RacingSteps DEF Read, LockOK, Up, TypeOK, Procs
  <1>2. ~lost' => ~lost /\ mem' = Unmarshalled(file) /\ known' = known /\ file' = file /\ last' = last
    BY DEF Read, TypeOK
  <1>3. ~lost => /\ DOMAIN file = Fields
                 /\ \A f \in Carried : file[f] \in known[f]
    BY <1>1 DEF DataOK
  <1>4. ~lost' => \A f \in Carried : mem'[f] \in known'[f]
    BY <1>2, <1>3, CarriedFields DEF Unmarshalled
  <1>5. pc'[Main] = "scan"
    BY ProcsAssumption DEF Read, TypeOK, Procs
  <1>6. \A f \in Carried : last'[f] # NoOne => last'[f] \in Procs
    BY DEF Read, TypeOK, Procs
  <1>. QED
    BY <1>1, <1>2, <1>3, <1>4, <1>5, <1>6, RacingSteps DEF DataOK

LEMMA ScanData ==
  ASSUME TypeOK, LockOK, DataOK, Scan
  PROVE  DataOK'
  <1>1. \A p \in Procs : pc[p] \notin Saving /\ pc'[p] \notin Saving /\ pc'[p] # "done"
    BY ProcsAssumption, RacingSteps DEF Scan, StartEnds, LockOK, Up, TypeOK, Procs
  <1>2. UNCHANGED <<known, file, last, lost>>
    BY DEF Scan, ghosts
  <1>3. pc'[Main] \in {"resolve", "off"}
    BY ProcsAssumption DEF Scan, StartEnds, TypeOK, Procs
  <1>4. pc'[Main] = "resolve" /\ ~lost => \A f \in Carried : mem'[f] \in Started(f)
    <2>1. SUFFICES ASSUME pc'[Main] = "resolve", ~lost, NEW f \in Carried
                   PROVE  mem'[f] \in Started(f)
      OBVIOUS
    <2>2. PICK o \in Overrides : mem' = Scanned(mem, o)
      BY <2>1, ProcsAssumption DEF Scan, StartEnds, TypeOK, Procs
    <2>3. mem[f] \in known[f]
      BY <2>1 DEF Scan, DataOK
    <2>. QED
      BY <2>2, <2>3, CarriedFields DEF Scanned, Started
  <1>5. \A f \in Carried : Started(f)' = Started(f)
    BY <1>2 DEF Started
  <1>6. \A f \in Carried : last'[f] # NoOne => last'[f] \in Procs
    BY <1>2 DEF TypeOK, Procs
  <1>. QED
    BY <1>1, <1>2, <1>3, <1>4, <1>5, <1>6, RacingSteps DEF DataOK

LEMMA ResolveData ==
  ASSUME TypeOK, LockOK, DataOK, ResolvePaths
  PROVE  DataOK'
  <1>1. \A p \in Procs : pc[p] \notin Saving /\ pc'[p] \notin Saving /\ pc'[p] # "done"
    BY ProcsAssumption, RacingSteps DEF ResolvePaths, StartEnds, LockOK, Up, TypeOK, Procs
  <1>2. UNCHANGED <<file, last, lost>>
    BY DEF ResolvePaths
  <1>3. pc'[Main] \in {"create", "off"}
    BY ProcsAssumption DEF ResolvePaths, StartEnds, TypeOK, Procs
  <1>4. ~lost => \A f \in Carried : known[f] \subseteq known'[f]
    BY DEF ResolvePaths
  <1>5. pc'[Main] = "create" => \A f \in Carried : mem'[f] \in known'[f]
    BY ProcsAssumption DEF ResolvePaths, StartEnds, TypeOK, Procs
  <1>6. \A f \in Carried : last'[f] # NoOne => last'[f] \in Procs
    BY <1>2 DEF TypeOK, Procs
  <1>. QED
    BY <1>1, <1>2, <1>3, <1>4, <1>5, <1>6, RacingSteps DEF DataOK

LEMMA CrashData ==
  ASSUME TypeOK, DataOK, Crash
  PROVE  DataOK'
  <1>1. pc'[Main] = "off" /\ \A h \in Handlers : pc'[h] = "idle"
    BY ProcsAssumption DEF Crash, Procs
  <1>2. ~lost' => ~lost /\ \A p \in Procs : pc[p] \notin Saving
    BY DEF Crash
  <1>3. UNCHANGED <<file, known>> /\ \A f \in Carried : last'[f] = NoOne
    BY DEF Crash
  <1>. QED
    BY <1>1, <1>2, <1>3, RacingSteps DEF DataOK, Procs

--------------------------------------------------------------------------
(* Steps that only take, use or wait for the lock. *)
LEMMA WaitFrame ==
  ASSUME TypeOK, NEW h \in Handlers,
         Begin(h) \/ Lock(h) \/ RLock(h) \/ Enter(h) \/ Validate(h)
  PROVE  /\ \A k \in Procs \ {h} : pc'[k] = pc[k]
         /\ \A k \in Handlers \ {h} : sent'[k] = sent[k]
         /\ UNCHANGED <<mem, text, file, known, last>>
         /\ pc[h] \in {"idle", "lock", "wait", "validate"}
         /\ pc'[h] \in {"lock", "wait", "validate", "assign", "refused", "done"}
         /\ pc'[h] = "assign" => Enter(h) \/ Validate(h)
         /\ Enter(h) \/ Validate(h) \/ UNCHANGED <<mixed, lost>>
  <1>1. h # Main /\ h \in Procs
    BY ProcsAssumption DEF Procs
  <1>2. UNCHANGED <<mem, text, file, known, last>>
    BY DEF Begin, Lock, RLock, Enter, Validate, lock, ghosts
  <1>3. \A k \in Procs \ {h} : pc'[k] = pc[k]
    BY DEF Begin, Lock, RLock, Enter, Validate, TypeOK
  <1>4. \A k \in Handlers \ {h} : sent'[k] = sent[k]
    BY DEF Begin, Lock, RLock, Enter, Validate, TypeOK
  <1>5. pc[h] \in {"idle", "lock", "wait", "validate"}
        /\ pc'[h] \in {"lock", "wait", "validate", "assign", "refused", "done"}
    BY <1>1 DEF Begin, Lock, RLock, Enter, Validate, TypeOK
  <1>6. pc'[h] = "assign" => Enter(h) \/ Validate(h)
    BY <1>1 DEF Begin, Lock, RLock, TypeOK
  <1>7. Enter(h) \/ Validate(h) \/ UNCHANGED <<mixed, lost>>
    BY DEF Begin, Lock, RLock, ghosts
  <1>. QED
    BY <1>2, <1>3, <1>4, <1>5, <1>6, <1>7

LEMMA WaitMix ==
  ASSUME TypeOK, LockOK, MixOK, LastOK, NEW h \in Handlers,
         Begin(h) \/ Lock(h) \/ RLock(h) \/ Enter(h) \/ Validate(h)
  PROVE  MixOK' /\ LastOK'
  <1>1. h # Main /\ h \in Procs /\ \A k \in Handlers : k \in Procs
    BY ProcsAssumption DEF Procs
  <1>2. LastOK'
    <2>0. h # NoOne
      BY <1>1, ProcsAssumption
    <2>1. \A f \in Carried : last[f] # h
      BY <2>0, WaitFrame DEF LastOK, Changed
    <2>2. \A f \in Carried : last[f] # NoOne => last[f] \in Handlers \ {h}
      BY <2>1 DEF TypeOK
    <2>. QED
      BY <1>1, <2>2, WaitFrame DEF LastOK, Changed
  <1>3. CASE pc'[h] = "assign"
    <2>1. Enter(h) \/ Validate(h)
      BY <1>3, WaitFrame
    <2>2. Meets(h)
      BY <2>1 DEF Enter, Validate
    <2>3. Beside(h) = {k \in Handlers \ {h} : pc[k] \in Racing}
      BY <1>3, <2>1, RacersBeside
    <2>4. \A k \in Handlers \ {h} : pc'[k] = pc[k]
      BY <1>1, WaitFrame
    <2>5. CASE Beside(h) = {}
      <3>1. UNCHANGED <<mixed, lost>>
        BY <2>2, <2>5 DEF Meets
      <3>. QED
        BY <1>2, <1>3, <2>3, <2>4, <2>5, <3>1, RacingSteps DEF MixOK, TypeOK
    <2>6. CASE Beside(h) # {}
      <3>1. mixed' = mixed \cup Beside(h) \cup {h} /\ lost'
        BY <1>3, <2>2, <2>6 DEF Meets
      <3>. QED
        BY <1>2, <1>3, <2>3, <2>4, <3>1, RacingSteps DEF MixOK, TypeOK
    <2>. QED
      BY <2>5, <2>6
  <1>4. CASE pc'[h] # "assign"
    <2>1. UNCHANGED <<mixed, lost>>
      BY <1>4, WaitFrame DEF Enter, Validate, Meets
    <2>2. pc[h] \notin Racing /\ pc'[h] \notin Racing
      BY <1>4, WaitFrame, RacingSteps
    <2>3. \A k \in Handlers \ {h} : pc'[k] = pc[k]
      BY <1>1, WaitFrame
    <2>. QED
      BY <1>2, <2>1, <2>2, <2>3 DEF MixOK, TypeOK
  <1>. QED
    BY <1>3, <1>4

LEMMA WaitData ==
  ASSUME TypeOK, LockOK, LastOK, DataOK, NEW h \in Handlers,
         Begin(h) \/ Lock(h) \/ RLock(h) \/ Enter(h) \/ Validate(h)
  PROVE  DataOK'
  <1>1. h # Main /\ h \in Procs
    BY ProcsAssumption DEF Procs
  <1>2. pc[Main] = "up" /\ pc'[Main] = "up"
    <2>1. Up
      BY DEF LockOK, Begin, Lock, RLock, Enter, Validate
    <2>. QED
      BY <1>1, <2>1, WaitFrame, ProcsAssumption DEF Up, Procs
  <1>3. mixed \subseteq mixed' /\ (~lost' => ~lost)
    BY WaitFrame DEF Enter, Validate, Meets
  <1>4. \A p \in Procs : /\ pc'[p] \in Saving <=> pc[p] \in Saving
                         /\ pc'[p] \in {"open", "write"} => pc'[p] = pc[p]
    BY WaitFrame, RacingSteps
  <1>5. \A f \in Carried : last[f] # NoOne => last[f] \in Procs \ {h}
    BY WaitFrame DEF LastOK, Changed, TypeOK, Procs
  <1>6. UNCHANGED <<mem, text, file, known, last>>
    BY WaitFrame
  <1>7. ~lost' /\ (\A p \in Procs : pc'[p] \notin Saving) =>
          /\ DOMAIN file' = Fields
          /\ \A f \in Carried : file'[f] \in known'[f]
          /\ \A f \in Carried : last'[f] # NoOne /\ pc'[last'[f]] = "done" => file'[f] = mem'[f]
    BY <1>3, <1>4, <1>5, <1>6, WaitFrame DEF DataOK
  <1>8. /\ \A p \in Procs \ mixed' : pc'[p] \in {"open", "write"} => text'[p] = mem'
        /\ \A p \in Procs \ mixed' : pc'[p] = "write" => file' = EmptyFile
    BY <1>3, <1>4, <1>6 DEF DataOK
  <1>9. \A f \in Carried : mem'[f] \in known'[f]
    BY <1>2, <1>6 DEF DataOK
  <1>. QED
    BY <1>2, <1>7, <1>8, <1>9 DEF DataOK

LEMMA ReleaseData ==
  ASSUME TypeOK, LockOK, MixOK, LastOK, DataOK, NEW h \in Handlers, Release(h)
  PROVE  MixOK' /\ LastOK' /\ DataOK'
  <1>1. h # Main /\ h \in Procs /\ \A k \in Handlers : k \in Procs
    BY ProcsAssumption DEF Procs
  <1>2. pc[h] \in {"done", "refused"} /\ pc'[h] = "idle" /\ \A k \in Procs \ {h} : pc'[k] = pc[k]
    BY <1>1 DEF Release, TypeOK
  <1>3. \A k \in Handlers \ {h} : sent'[k] = sent[k]
    BY DEF Release, TypeOK
  <1>4. UNCHANGED <<mem, text, file, mixed, lost>>
    BY DEF Release
  <1>5. pc[Main] = "up" /\ pc'[Main] = "up"
    BY <1>1, <1>2, UpKept DEF LockOK, Up
  <1>6. \A p \in Procs : /\ pc'[p] \in Saving <=> pc[p] \in Saving
                         /\ pc'[p] \in Racing <=> pc[p] \in Racing
                         /\ pc'[p] \in {"open", "write"} => pc'[p] = pc[p]
    BY <1>2, RacingSteps
  <1>7. MixOK'
    BY <1>1, <1>4, <1>6 DEF MixOK, TypeOK
  <1>8. \A f \in Carried : last'[f] # NoOne => last'[f] = last[f] /\ last[f] \in Handlers \ {h}
    BY DEF Release, TypeOK
  <1>9. LastOK'
    <2>1. SUFFICES ASSUME NEW f \in Carried, last'[f] # NoOne
                   PROVE  /\ pc'[last'[f]] \in Changed
                          /\ f \in DOMAIN sent'[last'[f]]
                          /\ mem'[f] = sent'[last'[f]][f]
      BY DEF LastOK
    <2>2. last'[f] = last[f] /\ last[f] \in Handlers \ {h} /\ last[f] # NoOne
      BY <1>8, <2>1
    <2>. QED
      BY <1>1, <1>2, <1>3, <1>4, <2>2 DEF LastOK, Changed
  <1>10. \A f \in Carried : known'[f] = known[f] \/ (last[f] = h /\ pc[h] = "done" /\ known'[f] = {mem[f]})
    <2>1. ASSUME NEW f \in Carried, last[f] = h PROVE mem[f] = sent[h][f]
      BY <2>1, ProcsAssumption DEF LastOK, Procs
    <2>. QED
      BY <2>1 DEF Release
  <1>11. \A f \in Carried : mem'[f] \in known'[f]
    BY <1>4, <1>5, <1>10 DEF DataOK
  <1>12. ~lost' /\ (\A p \in Procs : pc'[p] \notin Saving) =>
           /\ DOMAIN file' = Fields
           /\ \A f \in Carried : file'[f] \in known'[f]
           /\ \A f \in Carried : last'[f] # NoOne /\ pc'[last'[f]] = "done" => file'[f] = mem'[f]
    <2>1. SUFFICES ASSUME ~lost, \A p \in Procs : pc[p] \notin Saving
                   PROVE  /\ DOMAIN file = Fields
                          /\ \A f \in Carried : file[f] \in known'[f]
                          /\ \A f \in Carried : last'[f] # NoOne /\ pc'[last'[f]] = "done" => file[f] = mem[f]
      BY <1>4, <1>6
    <2>2. /\ DOMAIN file = Fields
          /\ \A f \in Carried : file[f] \in known[f]
          /\ \A f \in Carried : last[f] # NoOne /\ pc[last[f]] = "done" => file[f] = mem[f]
      BY <2>1 DEF DataOK
    <2>3. h # NoOne
      BY ProcsAssumption DEF Procs
    <2>. QED
      BY <1>1, <1>2, <1>8, <1>10, <2>2, <2>3
  <1>13. /\ \A p \in Procs \ mixed' : pc'[p] \in {"open", "write"} => text'[p] = mem'
         /\ \A p \in Procs \ mixed' : pc'[p] = "write" => file' = EmptyFile
    BY <1>4, <1>6 DEF DataOK
  <1>. QED
    BY <1>5, <1>7, <1>9, <1>11, <1>12, <1>13 DEF DataOK

--------------------------------------------------------------------------
LEMMA AssignMix ==
  ASSUME TypeOK, LockOK, MixOK, LastOK, NEW S \in SUBSET Handlers, Assign(S)
  PROVE  MixOK' /\ LastOK'
  <1>1. \A p \in Procs : pc'[p] = IF p \in S THEN "create" ELSE pc[p]
    BY DEF Assign
  <1>2. \A h \in S : pc[h] = "assign"
    BY DEF Assign
  <1>3. UNCHANGED <<mixed, lost, sent>>
    BY DEF Assign
  <1>4. \A h \in Handlers : h \in Procs /\ (pc'[h] \in Racing <=> pc[h] \in Racing)
    BY <1>1, <1>2, RacingSteps DEF Procs
  <1>5. MixOK'
    BY <1>3, <1>4 DEF MixOK, TypeOK
  <1>6. \A f \in Fields : mem'[f] \in Left(S)[f]
    BY ChoicesPointwise DEF Assign
  <1>7. ASSUME NEW f \in Carried, last'[f] # NoOne
        PROVE  /\ pc'[last'[f]] \in Changed
               /\ f \in DOMAIN sent'[last'[f]]
               /\ mem'[f] = sent'[last'[f]][f]
    <2>0. f \in Fields
      BY CarriedFields
    <2>1. CASE Assigning(S, f) = {}
      <3>1. last'[f] = last[f] /\ mem'[f] = mem[f]
        BY <1>6, <2>0, <2>1 DEF Assign, Left
      <3>2. last[f] \in Handlers /\ pc[last[f]] \in Changed /\ last[f] \notin S
        BY <1>2, <1>7, <3>1 DEF LastOK, Changed, TypeOK
      <3>. QED
        BY <1>1, <1>3, <1>4, <1>7, <3>1, <3>2 DEF LastOK, Changed
    <2>2. CASE Assigning(S, f) # {}
      <3>1. (\E h \in S : Assigning(S, f) = {h}) /\ last'[f] = CHOOSE h \in S : Assigning(S, f) = {h}
        BY <1>7, <2>2 DEF Assign
      <3>2. last'[f] \in S /\ Assigning(S, f) = {last'[f]}
        BY <3>1
      <3>3. mem'[f] = sent[last'[f]][f]
        BY <1>6, <2>0, <2>2, <3>2 DEF Left
      <3>4. f \in DOMAIN sent[last'[f]]
        BY <3>2 DEF Assigning
      <3>5. pc'[last'[f]] = "create"
        BY <1>1, <1>4, <3>2
      <3>. QED
        BY <1>3, <3>3, <3>4, <3>5 DEF Changed
    <2>. QED
      BY <2>1, <2>2
  <1>. QED
    BY <1>5, <1>7 DEF LastOK

LEMMA AssignData ==
  ASSUME TypeOK, LockOK, MixOK, LastOK, DataOK, NEW S \in SUBSET Handlers, Assign(S)
  PROVE  DataOK'
  <1>1. PICK h \in Handlers : h \in S /\ pc[h] = "assign"
    BY DEF Assign
  <1>2. \A p \in Procs : pc'[p] = IF p \in S THEN "create" ELSE pc[p]
    BY DEF Assign
  <1>3. h # Main /\ h \in Procs /\ Main \notin S
    BY <1>1, ProcsAssumption DEF Procs
  <1>4. UNCHANGED <<text, file, mixed, lost>>
    BY DEF Assign
  <1>5. pc[Main] = "up" /\ pc'[Main] = "up"
    BY <1>1, <1>2, <1>3 DEF LockOK, Up, Procs
  <1>6. \A f \in Fields : mem'[f] \in Left(S)[f]
    BY ChoicesPointwise DEF Assign
  <1>7. \A f \in Carried : known[f] \subseteq known'[f] /\ mem'[f] \in known'[f]
    <2>1. TAKE f \in Carried
    <2>2. f \in Fields /\ mem[f] \in known[f]
      BY <1>5, CarriedFields DEF DataOK
    <2>3. CASE Assigning(S, f) = {}
      BY <1>6, <2>2, <2>3 DEF Assign, Left
    <2>4. CASE Assigning(S, f) # {}
      BY <1>6, <2>2, <2>4 DEF Assign
    <2>. QED
      BY <2>3, <2>4
  <1>8. \A p \in Procs \ mixed' : pc'[p] \notin {"open", "write"}
    <2>1. SUFFICES ASSUME NEW p \in Procs \ mixed, p # h, pc[p] \in {"open", "write"} PROVE FALSE
      BY <1>1, <1>2, <1>4
    <2>. QED
      BY <1>1, <1>3, <2>1, Alone, RacingSteps
  <1>9. \A p \in Procs : pc'[p] \notin Saving => pc[p] \notin Saving
    BY <1>2, RacingSteps DEF Assign
  <1>10. \A f \in Carried : last'[f] # NoOne /\ pc'[last'[f]] = "done" =>
           mem'[f] = mem[f] /\ last'[f] = last[f] /\ pc[last[f]] = "done"
    <2>1. SUFFICES ASSUME NEW f \in Carried, last'[f] # NoOne, pc'[last'[f]] = "done"
                   PROVE  mem'[f] = mem[f] /\ last'[f] = last[f] /\ pc[last[f]] = "done"
      OBVIOUS
    <2>2. Assigning(S, f) = {}
      <3>1. SUFFICES ASSUME Assigning(S, f) # {} PROVE FALSE
        OBVIOUS
      <3>2. (\E k \in S : Assigning(S, f) = {k}) /\ last'[f] = CHOOSE k \in S : Assigning(S, f) = {k}
        BY <2>1, <3>1 DEF Assign
      <3>3. last'[f] \in S
        BY <3>2
      <3>. QED
        BY <1>2, <2>1, <3>3 DEF Procs
    <2>3. last'[f] = last[f] /\ mem'[f] = mem[f]
      BY <1>6, <2>2, CarriedFields DEF Assign, Left
    <2>4. last[f] \in Procs
      BY <2>1, <2>3 DEF TypeOK, Procs
    <2>. QED
      BY <1>2, <2>1, <2>3, <2>4
  <1>11. ~lost' /\ (\A p \in Procs : pc'[p] \notin Saving) =>
           /\ DOMAIN file' = Fields
           /\ \A f \in Carried : file'[f] \in known'[f]
           /\ \A f \in Carried : last'[f] # NoOne /\ pc'[last'[f]] = "done" => file'[f] = mem'[f]
    BY <1>4, <1>7, <1>9, <1>10 DEF DataOK
  <1>. QED
    BY <1>5, <1>7, <1>8, <1>11 DEF DataOK

--------------------------------------------------------------------------
(* A step of a dump: where p goes, and what it leaves alone. *)
LEMMA DumpFrame ==
  ASSUME TypeOK, NEW p \in Procs, Dump(p)
  PROVE  /\ pc[p] \in {"create", "marshal", "open", "write"}
         /\ \A q \in Procs \ {p} : pc'[q] = pc[q] /\ text'[q] = text[q]
         /\ UNCHANGED <<kind, sent, mem, last>>
         /\ pc'[p] \in {"marshal", "open", "write", "done", "refused", "up"}
         /\ p \in Handlers => pc'[p] # "up"
         /\ p = Main => pc'[p] \notin {"done", "refused"}
         /\ mixed' = mixed \/ mixed' = mixed \ {p}
         /\ pc'[p] \in {"marshal", "open", "write"} => mixed' = mixed
         /\ pc'[p] \in {"done", "refused", "up"} => mixed' = mixed \ {p}
  <1>1. pc[p] \in {"create", "marshal", "open", "write"} /\ UNCHANGED <<kind, sent, mem, last>>
    BY DEF Dump, Create, Marshal, Open, Write, lock, ghosts
  <1>2. \A q \in Procs \ {p} : pc'[q] = pc[q]
    BY DEF Dump, Create, Marshal, Open, Write, Failed, TypeOK
  <1>3. \A q \in Procs \ {p} : text'[q] = text[q]
    BY DEF Dump, Create, Marshal, Open, Write, TypeOK
  <1>4. pc'[p] \in {"marshal", "open", "write", "done", "refused", "up"}
    BY DEF Dump, Create, Marshal, Open, Write, Failed, TypeOK
  <1>5. (p \in Handlers => pc'[p] # "up") /\ (p = Main => pc'[p] \notin {"done", "refused"})
    BY ProcsAssumption DEF Dump, Create, Marshal, Open, Write, Failed, TypeOK
  <1>6. /\ mixed' = mixed \/ mixed' = mixed \ {p}
        /\ pc'[p] \in {"marshal", "open", "write"} => mixed' = mixed
        /\ pc'[p] \in {"done", "refused", "up"} => mixed' = mixed \ {p}
    <2>1. CASE Create(p)
      BY <2>1 DEF Create, Failed, TypeOK
    <2>2. CASE Marshal(p)
      BY <2>2 DEF Marshal, ghosts, TypeOK
    <2>3. CASE Open(p)
      BY <2>3 DEF Open, Failed, TypeOK
    <2>4. CASE Write(p)
      BY <2>4 DEF Write, Failed, TypeOK
    <2>. QED
      BY <2>1, <2>2, <2>3, <2>4 DEF Dump
  <1>. QED
    BY <1>1, <1>2, <1>3, <1>4, <1>5, <1>6

LEMMA DumpMix ==
  ASSUME TypeOK, LockOK, MixOK, LastOK, NEW p \in Procs, Dump(p)
  PROVE  MixOK' /\ LastOK'
  <1>1. LastOK'
    <2>1. SUFFICES ASSUME NEW f \in Carried, last[f] # NoOne
                   PROVE  pc'[last[f]] \in Changed /\ f \in DOMAIN sent[last[f]] /\ mem[f] = sent[last[f]][f]
      BY DumpFrame DEF LastOK, Changed
    <2>2. last[f] \in Handlers /\ last[f] \in Procs /\ pc[last[f]] \in Changed
      BY <2>1 DEF LastOK, TypeOK, Procs
    <2>3. pc'[last[f]] \in {"create", "marshal", "open", "write", "done", "refused"}
      <3>1. CASE last[f] = p
        BY <2>2, <3>1, DumpFrame
      <3>2. CASE last[f] # p
        BY <2>2, <3>2, DumpFrame DEF Changed
      <3>. QED
        BY <3>1, <3>2
    <2>. QED
      BY <2>1, <2>3 DEF LastOK, Changed
  <1>2. p \in mixed => lost
    BY DEF MixOK
  <1>3. mixed' # {} => lost'
    <2>1. CASE p \in mixed
      <3>1. lost
        BY <1>2, <2>1
      <3>. QED
        BY <2>1, <3>1 DEF Dump, Create, Marshal, Open, Write, ghosts
    <2>2. CASE p \notin mixed
      <3>1. pc[p] \in Racing
        BY DumpFrame, RacingSteps
      <3>2. mixed = {}
        BY <2>2, <3>1, Alone DEF MixOK, TypeOK, Procs
      <3>. QED
        BY <3>2, DumpFrame
    <2>. QED
      BY <2>1, <2>2
  <1>4. \A q \in Procs : pc'[q] \in Racing => pc[q] \in Racing
    BY DumpFrame, RacingSteps
  <1>5. pc'[p] \in Racing <=> pc'[p] \in {"marshal", "open", "write"}
    BY DumpFrame, RacingSteps
  <1>6. \A h \in Handlers : h \in mixed /\ pc'[h] \in Racing => h \in mixed'
    <2>1. TAKE h \in Handlers
    <2>2. h \in Procs
      BY DEF Procs
    <2>3. CASE h = p
      BY <1>5, <2>3, DumpFrame
    <2>4. CASE h # p
      BY <2>4, DumpFrame
    <2>. QED
      BY <2>3, <2>4
  <1>7. \A h, k \in Handlers : h # k /\ pc'[h] \in Racing /\ pc'[k] \in Racing => h \in mixed'
    BY <1>4, <1>6 DEF MixOK, Procs
  <1>8. \A h \in mixed' : pc'[h] \in Racing
    <2>1. SUFFICES ASSUME NEW h \in mixed' PROVE pc'[h] \in Racing
      OBVIOUS
    <2>2. h \in mixed /\ h \in Handlers /\ h \in Procs
      BY <2>1, DumpFrame DEF TypeOK, Procs
    <2>3. CASE h = p
      BY <1>5, <2>1, <2>3, DumpFrame
    <2>4. CASE h # p
      BY <2>2, <2>4, DumpFrame DEF MixOK
    <2>. QED
      BY <2>3, <2>4
  <1>. QED
    BY <1>1, <1>3, <1>7, <1>8 DEF MixOK

(* A dump that has met another: nothing is promised of the file. *)
LEMMA MixedData ==
  ASSUME TypeOK, LockOK, MixOK, LastOK, DataOK, NEW p \in mixed, Dump(p)
  PROVE  DataOK'
  <1>1. p \in Handlers /\ p \in Procs /\ p # Main /\ lost
    BY ProcsAssumption DEF TypeOK, MixOK, Procs
  <1>2. pc[Main] = "up" /\ pc'[Main] = "up"
    BY <1>1, DumpFrame, ProcsAssumption DEF LockOK, Up, Procs
  <1>3. lost'
    BY <1>1 DEF Dump, Create, Marshal, Open, Write, ghosts
  <1>4. known' = known
    BY <1>1 DEF Dump, Create, Marshal, Open, Write, ghosts
  <1>5. \A q \in Procs \ mixed' : pc'[q] \notin {"open", "write"}
    <2>1. SUFFICES ASSUME NEW q \in Procs \ mixed', pc'[q] \in {"open", "write"} PROVE FALSE
      OBVIOUS
    <2>2. CASE q = p
      BY <2>1, <2>2, DumpFrame
    <2>3. CASE q # p
      <3>1. q \in Procs \ mixed /\ pc[q] \in Racing /\ pc[p] \in Racing
        BY <2>1, <2>3, DumpFrame, <1>1, RacingSteps
      <3>. QED
        BY <1>1, <2>3, <3>1, Alone
    <2>. QED
      BY <2>2, <2>3
  <1>6. \A f \in Carried : mem'[f] \in known'[f]
    BY <1>1, <1>2, <1>4, DumpFrame DEF DataOK
  <1>. QED
    BY <1>2, <1>3, <1>5, <1>6 DEF DataOK

LEMMA AloneData ==
  ASSUME TypeOK, LockOK, MixOK, LastOK, DataOK, NEW p \in Procs \ mixed, Dump(p)
  PROVE  DataOK'
  <1>0. Main \in Procs /\ Main \notin Handlers
    BY ProcsAssumption DEF Procs
  <1>1. pc[p] \in Racing
    BY DumpFrame, RacingSteps
  <1>2. \A q \in Procs \ {p} : pc[q] \notin Racing /\ pc'[q] \notin Racing /\ pc'[q] = pc[q]
    BY <1>1, Alone, DumpFrame
  <1>3. UNCHANGED <<sent, mem, last>>
    BY DumpFrame
  <1>4. pc[Main] \notin {"off", "scan", "resolve"} /\ pc'[Main] \notin {"off", "scan", "resolve"}
    <2>1. pc[Main] \notin {"off", "scan", "resolve"}
      BY <1>0, <1>1, RacingSteps DEF LockOK, Up, Procs
    <2>. QED
      BY <1>0, <2>1, DumpFrame
  <1>5. \A f \in Carried : mem[f] \in known[f]
    BY <1>4 DEF DataOK
  <1>6. \A q \in Procs : pc'[q] \in Saving => q = p
    BY <1>2, RacingSteps
  <1>7. \A q \in Procs : pc'[q] \in {"open", "write"} => q = p
    BY <1>6, RacingSteps
  <1>8. \A f \in Carried : last[f] # NoOne => last[f] \in Procs
    BY DEF TypeOK, Procs
  <1>a. CASE Create(p)
    <2>1. pc'[p] \in {"marshal", "refused", "up"} /\ UNCHANGED <<known, lost>>
          /\ (pc'[p] # "marshal" => file' = file)
      BY <1>a DEF Create, Failed, TypeOK
    <2>2. \A q \in Procs : pc'[q] \notin {"open", "write"}
      BY <1>7, <2>1
    <2>3. ASSUME ~lost', \A q \in Procs : pc'[q] \notin Saving
          PROVE  /\ DOMAIN file' = Fields
                 /\ \A f \in Carried : file'[f] \in known'[f]
                 /\ \A f \in Carried : last'[f] # NoOne /\ pc'[last'[f]] = "done" => file'[f] = mem'[f]
      <3>1. pc'[p] \in {"refused", "up"} /\ file' = file
        BY <2>1, <2>3, RacingSteps
      <3>2. \A q \in Procs : pc[q] \notin Saving
        BY <1>2, <1>a, RacingSteps DEF Create
      <3>3. \A q \in Procs : pc'[q] = "done" => pc[q] = "done"
        BY <1>2, <3>1
      <3>. QED
        BY <1>3, <1>8, <2>1, <2>3, <3>1, <3>2, <3>3 DEF DataOK
    <2>. QED
      BY <1>3, <1>4, <1>5, <2>1, <2>2, <2>3 DEF DataOK
  <1>b. CASE Marshal(p)
    <2>1. pc'[p] = "open" /\ UNCHANGED <<known, lost, file>>
      BY <1>b DEF Marshal, TypeOK, ghosts
    <2>2. text'[p] = mem
      <3>1. PICK t \in Choices(Seen(p)) : text' = [text EXCEPT ![p] = t]
        BY <1>b DEF Marshal
      <3>2. \A f \in Fields : Seen(p)[f] = {mem[f]}
        BY <1>2, RacingSteps DEF Seen, Assigning, Procs
      <3>3. t \in [Fields -> UNION {Seen(p)[f] : f \in Fields}] /\ \A f \in Fields : t[f] = mem[f]
        BY <3>1, <3>2, ChoicesPointwise
      <3>4. t = mem
        BY <3>3 DEF TypeOK
      <3>. QED
        BY <3>1, <3>4 DEF TypeOK
    <2>3. pc'[p] \in Saving
      BY <2>1, RacingSteps
    <2>. QED
      BY <1>3, <1>4, <1>5, <1>7, <2>1, <2>2, <2>3 DEF DataOK
  <1>c. CASE Open(p)
    <2>1. pc'[p] \in {"write", "refused", "up"} /\ UNCHANGED known
          /\ (pc'[p] # "write" => lost')
          /\ (pc'[p] = "write" => file' = EmptyFile /\ text' = text)
      BY <1>c DEF Open, Failed, TypeOK
    <2>2. text[p] = mem
      BY <1>c DEF DataOK, Open
    <2>3. pc'[p] \in Saving \/ lost'
      BY <2>1, RacingSteps
    <2>4. \A q \in Procs : pc'[q] \in {"open", "write"} => q = p /\ pc'[q] = "write"
      BY <1>7, <2>1
    <2>. QED
      BY <1>3, <1>4, <1>5, <2>1, <2>2, <2>3, <2>4 DEF DataOK
  <1>d. CASE Write(p)
    <2>1. pc'[p] \in {"done", "refused", "up"} /\ text[p] = mem /\ file = EmptyFile
      BY <1>d DEF Write, Failed, TypeOK, DataOK
    <2>2. \A q \in Procs : pc'[q] \notin {"open", "write"}
      BY <1>7, <2>1
    <2>3. \A f \in Carried : mem[f] \in known'[f]
      <3>1. known' = known \/ known' = [f \in Carried |-> {mem[f]}]
        BY <1>d DEF Write
      <3>. QED
        BY <1>5, <3>1
    <2>4. ~lost' => file' = mem
      <3>1. file' \in Over(file, text[p]) \/ lost'
        BY <1>d DEF Write
      <3>. QED
        BY <2>1, <3>1 DEF Over
    <2>5. DOMAIN mem = Fields
      BY DEF TypeOK
    <2>. QED
      BY <1>3, <1>4, <2>2, <2>3, <2>4, <2>5 DEF DataOK
  <1>. QED
    BY <1>a, <1>b, <1>c, <1>d DEF Dump

LEMMA DumpData ==
  ASSUME TypeOK, LockOK, MixOK, LastOK, DataOK, NEW p \in Procs, Dump(p)
  PROVE  DataOK'
  BY MixedData, AloneData

ConfigInv == TypeOK /\ LockOK /\ MixOK /\ LastOK /\ DataOK

LEMMA NextData == ConfigInv /\ [Next]_vars => MixOK' /\ LastOK' /\ DataOK'
  <1>1. SUFFICES ASSUME TypeOK, LockOK, MixOK, LastOK, DataOK, [Next]_vars
                 PROVE  MixOK' /\ LastOK' /\ DataOK'
    BY DEF ConfigInv
  <1>2. CASE UNCHANGED vars
    BY <1>1, <1>2 DEF vars, MixOK, LastOK, DataOK, Started
  <1>3. CASE Read \/ Scan \/ ResolvePaths \/ Crash
    BY <1>1, <1>3, StartMix, ReadData, ScanData, ResolveData, CrashData
  <1>4. ASSUME NEW h \in Handlers, Begin(h) \/ Lock(h) \/ RLock(h) \/ Enter(h) \/ Validate(h)
        PROVE  MixOK' /\ LastOK' /\ DataOK'
    BY <1>1, <1>4, WaitMix, WaitData
  <1>5. ASSUME NEW h \in Handlers, Release(h) PROVE MixOK' /\ LastOK' /\ DataOK'
    BY <1>1, <1>5, ReleaseData
  <1>6. ASSUME NEW S \in SUBSET Handlers, Assign(S) PROVE MixOK' /\ LastOK' /\ DataOK'
    BY <1>1, <1>6, AssignMix, AssignData
  <1>7. ASSUME NEW p \in Procs, Dump(p) PROVE MixOK' /\ LastOK' /\ DataOK'
    BY <1>1, <1>7, DumpMix, DumpData
  <1>. QED
    BY <1>1, <1>2, <1>3, <1>4, <1>5, <1>6, <1>7 DEF Next

LEMMA DataKept == ConfigInv => SettingsKept
  <1>1. SUFFICES ASSUME ConfigInv, Quiet
                 PROVE  /\ \A f \in Carried : mem[f] \in known[f]
                        /\ ~lost => DOMAIN file = Fields /\ \A f \in Carried : file[f] \in known[f]
    BY DEF SettingsKept
  <1>2. pc[Main] = "up" /\ \A p \in Procs : pc[p] \notin Saving
    BY <1>1, RacingSteps DEF Quiet, Up, Changing, Procs
  <1>. QED
    BY <1>1, <1>2 DEF ConfigInv, DataOK

LEMMA InvHolds == Spec => []ConfigInv
  <1>1. Init => ConfigInv
    BY InitTyped, InitLock, InitData DEF ConfigInv
  <1>2. ConfigInv /\ [Next]_vars => ConfigInv'
    BY NextTyped, NextLock, NextData DEF ConfigInv
  <1>. QED
    BY <1>1, <1>2, PTL DEF Spec

(* SettingsKept, for any number of handlers, whatever requests overlap: no
   accepted setting is lost in memory to another request, and the file has them
   all, unless a save was cut short or two under the read lock met since the last
   one that was alone.                                                         *)
THEOREM AcceptedSettingsKept == Spec => []SettingsKept
  BY DataKept, InvHolds, PTL

(* SettingsSurvive: a start gives each setting the value of an override, the last
   accepted value or one that was being saved, or its default for a zero one,
   with the folders' paths made absolute, unless a save was cut short or met
   another.                                                                    *)
THEOREM SettingsSurviveRestarts == Spec => SettingsSurvive
  <1>1. ConfigInv /\ [Next]_vars =>
          [(pc[Main] = "resolve" /\ pc'[Main] = "create" /\ ~lost) =>
             \A f \in Carried : mem'[f] \in {Resolved(f, v) : v \in Started(f)}]_vars
    <2>1. SUFFICES ASSUME ConfigInv, [Next]_vars, pc[Main] = "resolve", pc'[Main] = "create", ~lost,
                          NEW f \in Carried
                   PROVE  mem'[f] \in {Resolved(f, v) : v \in Started(f)}
      OBVIOUS
    <2>2. ResolvePaths
      <3>1. Next
        BY <2>1 DEF vars
      <3>2. \A h \in Handlers : pc[h] = "idle" /\ h # Main
        BY <2>1, ProcsAssumption DEF ConfigInv, LockOK, Up, Procs
      <3>3. ~Read /\ ~Scan /\ ~Crash
        BY <2>1, ProcsAssumption DEF Read, Scan, Crash, Procs
      <3>4. ASSUME NEW S \in SUBSET Handlers PROVE ~Assign(S)
        BY <3>2 DEF Assign
      <3>5. ASSUME NEW p \in Procs PROVE ~Dump(p)
        BY <2>1, <3>2 DEF Dump, Create, Marshal, Open, Write, Procs
      <3>6. ASSUME NEW h \in Handlers
            PROVE ~(Begin(h) \/ Lock(h) \/ RLock(h) \/ Enter(h) \/ Validate(h) \/ Release(h))
        BY <2>1, <3>2 DEF Begin, Lock, RLock, Enter, Validate, Release, Up
      <3>. QED
        BY <3>1, <3>3, <3>4, <3>5, <3>6 DEF Next
    <2>3. mem[f] \in Started(f)
      BY <2>1 DEF ConfigInv, DataOK
    <2>4. mem' = [g \in Fields |-> Resolved(g, mem[g])]
      BY <2>1, <2>2, ProcsAssumption DEF ResolvePaths, StartEnds, ConfigInv, TypeOK, Procs
    <2>. QED
      BY <2>3, <2>4, CarriedFields
  <1>. QED
    BY <1>1, InvHolds, PTL DEF Spec, SettingsSurvive
==========================================================================
