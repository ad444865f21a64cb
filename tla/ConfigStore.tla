--------------------------- MODULE ConfigStore ---------------------------
(* The settings of gouda (internal/server_config, pkg/argos): one GoudaConfig
   in memory, guarded by its RWMutex, and config/gouda.yml.

   LoadConf builds the memory at a start out of the file, the flags and
   environment variables and the defaults, makes the folders' paths absolute and
   writes the file again.  The settings handlers change the memory and write the
   file while they hold the lock: UpdateSettings the write lock, UpdateMam,
   UpdateDownloader and UpdateDir only the READ lock, so that these overlap.
   LoadSettings and the conf.Load() of every other component take the read lock
   and give it back.

   Each step of a save (os.Create, which empties the file; the marshalling,
   which reads the memory; the second open, which empties it again; the write)
   is an action of its own, the process may stop between any two of them, and
   every call that can fail may fail.                                         *)
EXTENDS Integers, FiniteSets

CONSTANTS
  Handlers,   \* goroutines that serve requests
  Main,       \* the goroutine of main(), which runs LoadConf
  Calls,      \* Calls[h]: the kinds of request that handler h serves
  Values,     \* the values of a setting
  Zero,       \* Go's zero value: what a key that is absent leaves in the struct
  Torn,       \* what an assignment that races with another access can leave
  Default,    \* Default[f]: the default of the config tag
  Sent,       \* Sent[f]: the values a client sends for a field that messages carry
  Absolute,   \* Absolute[v]: the absolute form of v as a path
  Overrides,  \* the flags and environment variables a start may be given
  Faults,     \* the calls that may fail: "read", "scan", "mkdir", "create", "open", "write"
  NoOne       \* the lock has no writer

(* The settings, by who writes them: token (Mam.MamToken); dir (the folders);
   limit (the downloader's time limit); interval (its CheckInterval, which no
   message carries).  The torrent client is written where the limit is by
   UpdateDownloader and where the token is by UpdateSettings; what only
   UpdateSettings writes (port, origins, log ...) or only a start (the other
   fields of MamConfig) goes the way of these.  All that is left out.          *)
Carried == {"token", "dir", "limit"}
Fields == Carried \cup {"interval"}

Kinds == {"settings", "mam", "downloader", "dir", "load"}
Procs == Handlers \cup {Main}
Anything == Values \cup {Torn}

\* What a request or the file holds: a value for some of the fields.
Messages == UNION {[D -> Values] : D \in SUBSET Fields}

ASSUME ProcsAssumption == Main \notin Handlers /\ NoOne \notin Procs
ASSUME CallsAssumption == Calls \in [Handlers -> SUBSET Kinds]
ASSUME ValuesAssumption ==
  /\ Zero \in Values
  /\ Torn \notin Values
  /\ Default \in [Fields -> Values]
  /\ Sent \in [Carried -> SUBSET Values]
  /\ Absolute \in [Anything -> Anything]
  /\ \A o \in Overrides : DOMAIN o \subseteq Fields /\ \A f \in DOMAIN o : o[f] \in Values

VARIABLES
  pc,         \* pc[p]: the next step of goroutine p
  kind,       \* kind[h]: the request h serves
  sent,       \* sent[h]: the fields that request assigns, with their values
  announced,  \* RW: the writer that holds or has announced the write lock
  readers,    \* RW: the goroutines that hold the read lock
  mem,        \* the GoudaConfig
  text,       \* text[p]: the YAML that p has marshalled
  file,       \* gouda.yml: the keys it holds, with their values
  (* What the clients know of the fields that messages carry: *)
  known,      \* known[f]: the value of the last request answered with success, and
              \* those of later requests that failed, were cut short or met it
  last,       \* last[f]: the request at work that assigned f last, and alone
  mixed,      \* the requests at work that met another under the read lock
  lost        \* a failed call or a stop cut a save short, two of them met, or a
              \* start could not read the file (or there is none), and no save
              \* that was alone was completed since

vars == <<pc, kind, sent, announced, readers, mem, text, file, known, last, mixed, lost>>
lock == <<announced, readers>>
ghosts == <<known, last, mixed, lost>>

Nothing == [f \in Fields |-> Zero]
EmptyFile == [f \in {} |-> Zero]
NoFields == [f \in {} |-> Zero]

--------------------------------------------------------------------------
(* What a message may carry.  UpdateSettings keeps the folders or the downloader
   of the memory when the message has none.  (One without a torrent client
   panics in the second validation, where nothing is changed yet.)             *)
Parts(k) ==
  CASE k = "settings"   -> {{"token"} \cup D : D \in SUBSET {"dir", "limit"}}
    [] k = "mam"        -> {{"token"}}
    [] k = "downloader" -> {{"limit"}}
    [] k = "dir"        -> {{"dir"}}
    [] k = "load"       -> {{}}

(* DownloaderFromRpc makes a whole Downloader out of a message that has no
   CheckInterval: whoever sets the limit clears the interval.                  *)
Assigned(D) == IF "limit" \in D THEN D \cup {"interval"} ELSE D

Requests(k) ==
  UNION {{v \in [Assigned(D) -> Values] :
            \A f \in Assigned(D) : v[f] \in IF f \in Carried THEN Sent[f] ELSE {Zero}} :
         D \in Parts(k)}

\* Wrong on purpose: UpdateSettings takes the read lock as the other setters do.
NeverExclusive(k) == k = "none of them"

Exclusive(k) == k = "settings"

(* The requests that change the settings under the read lock. *)
Shared == {"mam", "downloader", "dir"}

Validated(k) == k \in {"settings", "mam", "downloader"}

(* argos.Scan: a flag or an environment variable, else the value the file set,
   else the default; a value is taken for set when it is not Go's zero value. *)
OrDefault(f, v) == IF v = Zero THEN Default[f] ELSE v

\* Wrong on purpose: only flags and variables count, not the value of the file.
ScannedAnew(m, o) == [f \in Fields |-> IF f \in DOMAIN o THEN o[f] ELSE Default[f]]

Scanned(m, o) == [f \in Fields |-> IF f \in DOMAIN o THEN o[f] ELSE OrDefault(f, m[f])]

\* Wrong on purpose: keys that are absent in the file leave no field.
UnmarshalledAsIs(c) == c

(* yaml.Unmarshal into a new GoudaConfig. *)
Unmarshalled(c) == [f \in Fields |-> IF f \in DOMAIN c THEN c[f] ELSE Zero]

Choices(s) == {t \in [Fields -> UNION {s[f] : f \in Fields}] : \A f \in Fields : t[f] \in s[f]}

Resolved(f, v) == IF f = "dir" THEN Absolute[v] ELSE v

Up == pc[Main] = "up"
Saving == {"marshal", "open", "write"}    \* the file is empty, or about to be
Racing == {"assign", "create"} \cup Saving

--------------------------------------------------------------------------
Init ==
  /\ pc = [p \in Procs |-> IF p = Main THEN "off" ELSE "idle"]
  /\ kind = [h \in Handlers |-> "load"]
  /\ sent = [h \in Handlers |-> NoFields]
  /\ announced = NoOne
  /\ readers = {}
  /\ mem = Nothing
  /\ text = [p \in Procs |-> Nothing]
  /\ file = EmptyFile
  /\ known = [f \in Carried |-> {}]
  /\ last = [f \in Carried |-> NoOne]
  /\ mixed = {}
  /\ lost = TRUE

(* LoadConf: the file is read; a start that cannot read it goes on with an
   empty GoudaConfig.                                                         *)
Read ==
  /\ pc[Main] = "off"
  /\ pc' = [pc EXCEPT ![Main] = "scan"]
  /\ \/ mem' = Unmarshalled(file) /\ UNCHANGED lost
     \/ "read" \in Faults /\ mem' = Nothing /\ lost' = TRUE
  /\ UNCHANGED <<kind, sent, lock, text, file, known, last, mixed>>

(* ... completed from the flags, the environment and the defaults; a value of
   these that cannot be parsed ends the start ...                              *)
StartEnds == pc' = [pc EXCEPT ![Main] = "off"] /\ mem' = Nothing

Scan ==
  /\ pc[Main] = "scan"
  /\ \/ /\ pc' = [pc EXCEPT ![Main] = "resolve"]
        /\ \E o \in Overrides : mem' = Scanned(mem, o)
     \/ "scan" \in Faults /\ StartEnds
  /\ UNCHANGED <<kind, sent, lock, text, file, ghosts>>

(* ... the folders made, by their absolute paths, or the start ends; the dump
   follows.  The clients find what the start made of the settings, and the old
   values while these may still be in the file.                                *)
ResolvePaths ==
  /\ pc[Main] = "resolve"
  /\ \/ /\ pc' = [pc EXCEPT ![Main] = "create"]
        /\ mem' = [f \in Fields |-> Resolved(f, mem[f])]
        /\ known' = [f \in Carried |-> IF lost THEN {mem'[f]} ELSE known[f] \cup {mem'[f]}]
     \/ "mkdir" \in Faults /\ StartEnds /\ UNCHANGED known
  /\ UNCHANGED <<kind, sent, lock, text, file, last, mixed, lost>>

--------------------------------------------------------------------------
(* A request comes in. *)
Begin(h) ==
  /\ Up
  /\ pc[h] = "idle"
  /\ \E k \in Calls[h] : \E v \in Requests(k) :
       /\ kind' = [kind EXCEPT ![h] = k]
       /\ sent' = [sent EXCEPT ![h] = v]
  /\ pc' = [pc EXCEPT ![h] = "lock"]
  /\ UNCHANGED <<lock, mem, text, file, ghosts>>

(* RW.Lock: one writer at a time announces itself.  RW.RLock: a reader enters
   unless a writer has announced itself.                                      *)
Lock(h) ==
  /\ pc[h] = "lock"
  /\ Exclusive(kind[h])
  /\ announced = NoOne
  /\ announced' = h
  /\ pc' = [pc EXCEPT ![h] = "wait"]
  /\ UNCHANGED <<kind, sent, readers, mem, text, file, ghosts>>

RLock(h) ==
  /\ pc[h] = "lock"
  /\ ~Exclusive(kind[h])
  /\ readers' = IF announced = NoOne THEN readers \cup {h} ELSE readers
  /\ pc' = [pc EXCEPT ![h] = "wait"]
  /\ UNCHANGED <<kind, sent, announced, mem, text, file, ghosts>>

(* A request that takes the read lock starts to change the settings while
   others that took it do.                                                     *)
Beside(h) == {k \in Handlers \ {h} : pc[k] \in Racing /\ {kind[h], kind[k]} \subseteq Shared}

Meets(h) ==
  IF pc'[h] # "assign" \/ Beside(h) = {} THEN UNCHANGED <<mixed, lost>>
  ELSE mixed' = mixed \cup Beside(h) \cup {h} /\ lost' = TRUE

(* The writer enters when the readers it found are gone. *)
Enter(h) ==
  /\ pc[h] = "wait"
  /\ IF Exclusive(kind[h]) THEN announced = h /\ readers = {} ELSE h \in readers
  /\ pc' = [pc EXCEPT ![h] = IF Validated(kind[h]) THEN "validate"
                             ELSE IF kind[h] = "load" THEN "done" ELSE "assign"]
  /\ Meets(h)
  /\ UNCHANGED <<kind, sent, lock, mem, text, file, known, last>>

(* The validators ask MAM and the torrent client, under the lock. *)
Validate(h) ==
  /\ pc[h] = "validate"
  /\ \E next \in {"assign", "refused"} : pc' = [pc EXCEPT ![h] = next]
  /\ Meets(h)
  /\ UNCHANGED <<kind, sent, lock, mem, text, file, known, last>>

(* The assignments of the requests in S, at one moment: where two of them assign
   one field, either value or a torn one is left.                              *)
Assigning(S, f) == {h \in S : f \in DOMAIN sent[h]}
Left(S) == [f \in Fields |->
  LET hs == Assigning(S, f)
  IN  IF hs = {} THEN {mem[f]}
      ELSE {sent[h][f] : h \in hs} \cup (IF \E h, k \in hs : h # k THEN {Torn} ELSE {})]

Assign(S) ==
  /\ S # {} /\ \A h \in S : pc[h] = "assign"
  /\ mem' \in Choices(Left(S))
  /\ known' = [f \in Carried |-> IF Assigning(S, f) = {} THEN known[f]
                                ELSE known[f] \cup Left(S)[f]]
  /\ last' = [f \in Carried |->
       IF Assigning(S, f) = {} THEN last[f]
       ELSE IF \E h \in S : Assigning(S, f) = {h}
              THEN CHOOSE h \in S : Assigning(S, f) = {h}
              ELSE NoOne]
  /\ pc' = [p \in Procs |-> IF p \in S THEN "create" ELSE pc[p]]
  /\ UNCHANGED <<kind, sent, lock, text, file, mixed, lost>>

--------------------------------------------------------------------------
(* DumpToYaml.  A failed dump is the answer of a request; a start only logs it. *)
Failed(p) == [pc EXCEPT ![p] = IF p = Main THEN "up" ELSE "refused"]

Create(p) ==
  /\ pc[p] = "create"
  /\ \/ pc' = [pc EXCEPT ![p] = "marshal"] /\ file' = EmptyFile
        /\ UNCHANGED mixed
     \/ "create" \in Faults /\ pc' = Failed(p) /\ UNCHANGED file
        /\ mixed' = mixed \ {p}
  /\ UNCHANGED <<kind, sent, lock, mem, text, known, last, lost>>

(* GenerateYAMLWithComments reads the memory field by field: a field that
   another request is assigning is read old, new or torn.                     *)
Seen(p) == [f \in Fields |->
  LET hs == Assigning({h \in Handlers \ {p} : pc[h] = "assign"}, f)
  IN  {mem[f]} \cup (IF hs = {} THEN {} ELSE {Torn} \cup {sent[h][f] : h \in hs})]

Marshal(p) ==
  /\ pc[p] = "marshal"
  /\ \E t \in Choices(Seen(p)) : text' = [text EXCEPT ![p] = t]
  /\ pc' = [pc EXCEPT ![p] = "open"]
  /\ UNCHANGED <<kind, sent, lock, mem, file, ghosts>>

(* os.WriteFile opens the file again, with O_TRUNC ... *)
Open(p) ==
  /\ pc[p] = "open"
  /\ \/ pc' = [pc EXCEPT ![p] = "write"] /\ file' = EmptyFile /\ UNCHANGED lost
        /\ UNCHANGED <<text, mixed>>
     \/ "open" \in Faults /\ pc' = Failed(p) /\ lost' = TRUE /\ UNCHANGED file
        /\ text' = [text EXCEPT ![p] = Nothing]
        /\ mixed' = mixed \ {p}
  /\ UNCHANGED <<kind, sent, lock, mem, known, last>>

(* ... and writes from its beginning: the directories, the downloader, the
   token.  A write that fails leaves a first part of the text.  Over a longer
   text that another request wrote meanwhile, a tail of that one is left, which
   is no YAML.                                                                *)
Prefixes == {{}, {"dir"}, {"dir", "limit", "interval"}}
Cut(t) == {[f \in D |-> t[f]] : D \in Prefixes}
Over(c, t) == IF c = EmptyFile THEN {t} ELSE {t, EmptyFile}

Write(p) ==
  /\ pc[p] = "write"
  /\ \/ /\ file' \in Over(file, text[p])
        /\ pc' = [pc EXCEPT ![p] = IF p = Main THEN "up" ELSE "done"]
        /\ lost' = IF p \in mixed THEN lost ELSE FALSE
        /\ known' = IF p = Main THEN [f \in Carried |-> {mem[f]}] ELSE known
     \/ /\ "write" \in Faults
        /\ file' \in Cut(text[p])
        /\ pc' = Failed(p)
        /\ lost' = TRUE
        /\ UNCHANGED known
  /\ text' = [text EXCEPT ![p] = Nothing]
  /\ mixed' = mixed \ {p}
  /\ UNCHANGED <<kind, sent, lock, mem, last>>

Waiting == {h \in Handlers : pc[h] = "wait"}

\* Wrong on purpose: a request that is refused returns without unlocking.
ReleaseIfDone(h) ==
  /\ pc[h] \in {"done", "refused"}
  /\ IF pc[h] = "refused" THEN UNCHANGED lock
     ELSE IF Exclusive(kind[h])
            THEN announced' = NoOne /\ readers' = Waiting
            ELSE readers' = readers \ {h} /\ UNCHANGED announced
  /\ pc' = [pc EXCEPT ![h] = "idle"]
  /\ UNCHANGED <<kind, sent, mem, text, file, ghosts>>

(* The deferred RUnlock or Unlock, and the answer.  Unlock lets in every reader
   that is waiting.                                                            *)
Release(h) ==
  /\ pc[h] \in {"done", "refused"}
  /\ IF Exclusive(kind[h])
       THEN announced' = NoOne /\ readers' = Waiting
       ELSE readers' = readers \ {h} /\ UNCHANGED announced
  /\ known' = [f \in Carried |->
       IF pc[h] = "done" /\ f \in DOMAIN sent[h] /\ last[f] = h THEN {sent[h][f]} ELSE known[f]]
  /\ last' = [f \in Carried |-> IF last[f] = h THEN NoOne ELSE last[f]]
  /\ pc' = [pc EXCEPT ![h] = "idle"]
  /\ kind' = [kind EXCEPT ![h] = "load"]
  /\ sent' = [sent EXCEPT ![h] = NoFields]
  /\ UNCHANGED <<mem, text, file, mixed, lost>>

(* The process stops, at any point of any request or start. *)
Crash ==
  /\ pc[Main] # "off"
  /\ pc' = [p \in Procs |-> IF p = Main THEN "off" ELSE "idle"]
  /\ kind' = [h \in Handlers |-> "load"]
  /\ sent' = [h \in Handlers |-> NoFields]
  /\ announced' = NoOne
  /\ readers' = {}
  /\ mem' = Nothing
  /\ text' = [p \in Procs |-> Nothing]
  /\ last' = [f \in Carried |-> NoOne]
  /\ mixed' = {}
  /\ lost' = (lost \/ \E p \in Procs : pc[p] \in Saving)
  /\ UNCHANGED <<file, known>>

Dump(p) == Create(p) \/ Marshal(p) \/ Open(p) \/ Write(p)

Next ==
  \/ Read \/ Scan \/ ResolvePaths \/ Crash
  \/ \E h \in Handlers : Begin(h) \/ Lock(h) \/ RLock(h) \/ Enter(h) \/ Validate(h) \/ Release(h)
  \/ \E S \in SUBSET Handlers : Assign(S)
  \/ \E p \in Procs : Dump(p)

Spec == Init /\ [][Next]_vars

(* Go schedules every goroutine, and its mutexes do not starve a writer.  That
   a validator's HTTP call returns is NOT assumed: it has no time limit.       *)
Fairness ==
  /\ WF_vars(Read) /\ WF_vars(Scan) /\ WF_vars(ResolvePaths) /\ WF_vars(Dump(Main))
  /\ \A h \in Handlers :
       /\ SF_vars(Lock(h))
       /\ WF_vars(RLock(h) \/ Enter(h) \/ Assign({h}) \/ Dump(h) \/ Release(h))

FairSpec == Spec /\ Fairness
--------------------------------------------------------------------------
Steps == {"idle", "lock", "wait", "validate", "assign", "create", "marshal", "open",
          "write", "done", "refused"}

(* Types: each goroutine is at one of its own steps, every value is a value of
   the configuration or a torn one, and the lock is held by handlers.          *)
TypeOK ==
  /\ pc \in [Procs -> Steps \cup {"off", "scan", "resolve", "up"}]
  /\ pc[Main] \in {"off", "scan", "resolve", "create", "marshal", "open", "write", "up"}
  /\ \A h \in Handlers : pc[h] \in Steps
  /\ kind \in [Handlers -> Kinds]
  /\ sent \in [Handlers -> Messages]
  /\ announced \in Handlers \cup {NoOne}
  /\ readers \subseteq Handlers
  /\ mem \in [Fields -> Anything]
  /\ text \in [Procs -> [Fields -> Anything]]
  /\ DOMAIN file \subseteq Fields /\ \A f \in DOMAIN file : file[f] \in Anything
  /\ known \in [Carried -> SUBSET Anything]
  /\ last \in [Carried -> Handlers \cup {NoOne}]
  /\ mixed \subseteq Handlers
  /\ lost \in BOOLEAN

(* A setter is past its validation. *)
Changing(h) == pc[h] \in {"create", "marshal", "open", "write", "done", "refused"}
Quiet == Up /\ \A h \in Handlers : ~Changing(h)

(* While no request is being saved, each setting in memory that a message
   carries is the one that was last accepted, or one of a later request that
   failed half-way, also where requests under the read lock overlapped (two
   that assign ONE setting at one moment leave either value or a torn one).  So
   is each in the file, which is complete, unless a failed call or a stop cut a
   save short, or two requests under the read lock met: their saves may drop
   each other's setting or break the file.  The next save that is alone mends
   it; UpdateSettings, which takes the write lock, is always alone
   (saveConfigWithValidation, updateMamToken and the others, DumpToYaml).      *)
SettingsKept ==
  Quiet => /\ \A f \in Carried : mem[f] \in known[f]
           /\ ~lost => /\ DOMAIN file = Fields
                       /\ \A f \in Carried : file[f] \in known[f]

(* What a start may make of a setting: a flag or variable, or an accepted value,
   or the default for Go's zero value.                                        *)
Started(f) == {OrDefault(f, v) : v \in known[f]}
              \cup {o[f] : o \in {o \in Overrides : f \in DOMAIN o}}

(* A start gives each setting that messages carry the value of a flag or variable,
   or the last accepted value (or one that was being saved), or its default where
   that value was Go's zero value, folders by their absolute paths, wherever the
   process had been stopped; except after a save that was cut short or met
   another (LoadConf, argos.Scan, ResolvePaths).                               *)
SettingsSurvive ==
  [][(pc[Main] = "resolve" /\ pc'[Main] = "create" /\ ~lost) =>
       \A f \in Carried : mem'[f] \in {Resolved(f, v) : v \in Started(f)}]_vars

(* Every request ends, whoever else holds or waits for the lock, unless one of
   the validators never answers: a call of conf.Load() by any component then
   waits behind UpdateSettings, which waits behind it.                         *)
RequestsEnd ==
  (\A h \in Handlers : []<>(pc[h] # "validate")) => \A h \in Handlers : []<>(pc[h] = "idle")
==========================================================================
