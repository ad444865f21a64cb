----------------------------- MODULE ClockProofs -----------------------------
(***************************************************************************)
(* What DownloadClock promises for all rows, limits, intervals and bounds. *)
(* The argument: a row is never older than its request, and neither is a   *)
(* copy of it that was loaded since.                                       *)
(***************************************************************************)
EXTENDS DownloadClock, TLAPS

\* The time since UpdatedAt is at most the time since the request.
Younger ==
    /\ \A r \in Rows : age[r] <= life[r]
    /\ \A r \in Held \ stale : held[r] <= life[r]

ClockInv == TypeOK /\ Younger

-----------------------------------------------------------------------------
\* An age stays an age.
LEMMA OlderType ==
    ASSUME NEW a \in 0..MaxAge
    PROVE Older(a) \in 0..MaxAge
  BY ClockAssumption DEF Older

\* Ageing keeps the order of two ages.
LEMMA OlderMonotone ==
    ASSUME NEW a \in 0..MaxAge, NEW b \in 0..MaxAge, a <= b
    PROVE Older(a) <= Older(b)
  BY ClockAssumption DEF Older

\* NoCheck is no age.
LEMMA NoCheckNoAge == NoCheck \notin 0..MaxAge
  BY ClockAssumption

-----------------------------------------------------------------------------
LEMMA InitClock == Init => ClockInv
  <1> SUFFICES ASSUME Init PROVE ClockInv
    OBVIOUS
  <1>1. Held = {}
    BY DEF Init, Held, NoCopies
  <1>2. mon \in Monitor
    BY DEF Init, Monitor, Off
  <1>3. age \in [Rows -> 0..MaxAge] /\ life \in [Rows -> 0..MaxAge]
    BY ClockAssumption DEF Init
  <1>4. held \in [Rows -> 0..MaxAge \cup {NoCheck}] /\ stale \subseteq Held
    BY DEF Init, NoCopies
  <1>5. status \in [Rows -> {"none", "down", "late", "settled"}] /\ left \in Nat \ {0}
    BY DEF Init
  <1>6. up \in BOOLEAN /\ ticked \in BOOLEAN /\ conf \in Conf
    BY DEF Init
  <1>7. TypeOK
    BY <1>1, <1>2, <1>3, <1>4, <1>5, <1>6 DEF TypeOK
  <1>8. Younger
    BY <1>1 DEF Init, Younger
  <1> QED
    BY <1>7, <1>8 DEF ClockInv

LEMMA ElapseClock ==
    ASSUME ClockInv, Elapse
    PROVE ClockInv'
  <1> USE DEF ClockInv
  <1>1. \A r \in Held : held[r] \in 0..MaxAge
    BY DEF TypeOK, Held
  <1>2. Held' = Held
    BY <1>1, OlderType, NoCheckNoAge DEF Elapse, Held
  <1>3. age' \in [Rows -> 0..MaxAge] /\ life' \in [Rows -> 0..MaxAge]
    BY OlderType DEF Elapse, TypeOK
  <1>4. held' \in [Rows -> 0..MaxAge \cup {NoCheck}]
    BY <1>1, OlderType DEF Elapse
  <1>5. left' \in Nat \ {0}
    BY DEF Elapse, ticker, TypeOK, Monitor
  <1>6. ticked' \in BOOLEAN
    BY Zenon DEF Elapse, ticker, TypeOK
  <1>7. TypeOK'
    BY <1>2, <1>3, <1>4, <1>5, <1>6 DEF Elapse, TypeOK
  <1>8. \A r \in Rows : age'[r] <= life'[r]
    BY OlderMonotone DEF Elapse, TypeOK, Younger
  <1>9. \A r \in Held \ stale : held'[r] <= life'[r]
    BY <1>1, OlderMonotone DEF Elapse, TypeOK, Younger, Held
  <1>10. Younger'
    BY <1>2, <1>8, <1>9 DEF Elapse, Younger
  <1> QED
    BY <1>7, <1>10

LEMMA RequestClock ==
    ASSUME ClockInv, NEW r \in Rows, Request(r)
    PROVE ClockInv'
  <1> USE DEF ClockInv
  <1>1. Held' = Held
    BY DEF Request, Held
  <1>2. TypeOK'
    BY <1>1, ClockAssumption DEF Request, TypeOK, ticker
  <1>3. \A q \in Rows : age'[q] <= life'[q]
    BY DEF Request, TypeOK, Younger
  <1>4. \A q \in (Held \ stale)' : held'[q] <= life'[q]
    BY <1>1 DEF Request, TypeOK, Younger, Held
  <1> QED
    BY <1>2, <1>3, <1>4 DEF Younger

LEMMA DeleteClock ==
    ASSUME ClockInv, NEW r \in Rows, Delete(r)
    PROVE ClockInv'
  <1> USE DEF ClockInv
  <1>1. Held' = Held
    BY DEF Delete, Held
  <1>2. TypeOK'
    BY <1>1 DEF Delete, TypeOK, ticker
  <1>3. Younger'
    BY <1>1 DEF Delete, Younger
  <1> QED
    BY <1>2, <1>3

LEMMA CheckClock ==
    ASSUME ClockInv, NEW r \in Rows, Check(r)
    PROVE ClockInv'
  <1> USE DEF ClockInv
  <1>1. PICK s \in {"settled", "late", "down"} : Saves(r, s)
    BY DEF Check
  <1>2. r \in Held /\ mon.pc = "check"
    BY DEF Check
  <1>3. Held' = Held \ {r}
    BY <1>1 DEF Saves, Held, TypeOK
  <1>4. TypeOK'
    BY <1>1, <1>2, <1>3, ClockAssumption DEF Saves, TypeOK, ticker
  <1>5. \A q \in Rows : age'[q] <= life'[q]
    BY <1>1 DEF Saves, TypeOK, Younger
  <1>6. \A q \in (Held \ stale)' : held'[q] <= life'[q]
    BY <1>1, <1>3 DEF Saves, TypeOK, Younger, Held
  <1> QED
    BY <1>4, <1>5, <1>6 DEF Younger

\* When the process or the monitor has ended, no copies are left.
LEMMA GoneClock ==
    ASSUME ClockInv, Gone, conf' \in Conf, up' \in BOOLEAN, UNCHANGED table
    PROVE ClockInv'
  <1> USE DEF ClockInv
  <1>1. Held' = {}
    BY DEF Gone, Held, NoCopies
  <1>2. mon' \in Monitor
    BY DEF Gone, Monitor, Off
  <1>3. held' \in [Rows -> 0..MaxAge \cup {NoCheck}] /\ stale' \subseteq Held'
    BY DEF Gone, NoCopies
  <1>4. ticked' \in BOOLEAN
    BY Zenon DEF Gone
  <1>5. left' \in Nat \ {0}
    BY DEF Gone
  <1>6. TypeOK'
    BY <1>1, <1>2, <1>3, <1>4, <1>5 DEF TypeOK, table
  <1>7. Younger'
    BY <1>1 DEF Younger, table
  <1> QED
    BY <1>6, <1>7

LEMMA StartMonitorClock ==
    ASSUME ClockInv, StartMonitor
    PROVE ClockInv'
  <1> USE DEF ClockInv
  <1> DEFINE period == IntervalOf(conf.interval)
  <1>1. conf \in Conf /\ conf' = conf
    BY DEF StartMonitor, TypeOK
  <1>2. CASE period > 0
    <2>1. period \in Int /\ LimitOf(conf.limit) \in Int /\ conf.ignore \in BOOLEAN
      BY <1>1, ClockAssumption DEF Conf
    <2>2. period \in Nat \ {0}
      BY <1>2, <2>1
    <2> HIDE DEF period
    <2>3. /\ mon' = [pc |-> "load", ignore |-> conf.ignore,
                     limit |-> LimitOf(conf.limit), period |-> period]
          /\ left' = period /\ ticked' = FALSE
          /\ UNCHANGED <<conf, up, status, age, life, held, stale>>
      BY <1>2 DEF StartMonitor, table, period
    <2>4. mon' \in Monitor
      BY <2>1, <2>2, <2>3 DEF Monitor
    <2>5. Held' = {} /\ Held = {}
      BY <2>3 DEF StartMonitor, TypeOK, Held
    <2>6. TypeOK'
      BY <2>2, <2>3, <2>4, <2>5 DEF TypeOK
    <2>7. Younger'
      BY <2>3, <2>5 DEF Younger
    <2> QED
      BY <2>6, <2>7
  <1>3. CASE ~(period > 0)
    BY <1>1, <1>3, GoneClock DEF StartMonitor, TypeOK
  <1> QED
    BY <1>2, <1>3

\* The monitor takes a step and holds copies as old as they say.
LEMMA StepClock ==
    ASSUME ClockInv, UNCHANGED <<conf, up, table, left>>, ticked' \in BOOLEAN,
           NEW pc \in {"load", "poll", "check", "tick"}, Goes(pc),
           held' \in [Rows -> 0..MaxAge \cup {NoCheck}], stale' \subseteq Held',
           pc \notin {"poll", "check"} => Held' = {},
           \A r \in Held' \ stale' : held'[r] <= life[r]
    PROVE ClockInv'
  <1> USE DEF ClockInv
  <1>1. mon' \in Monitor /\ mon'.pc = pc
    BY DEF Goes, TypeOK, Monitor
  <1>2. TypeOK'
    BY <1>1 DEF TypeOK, table
  <1>3. Younger'
    BY DEF Younger, table
  <1> QED
    BY <1>2, <1>3

LEMMA LoadClock ==
    ASSUME ClockInv, Load
    PROVE ClockInv'
  <1> USE DEF ClockInv
  <1>1. CASE \A r \in Rows : status[r] # "down"
    BY <1>1, GoneClock DEF Load, TypeOK
  <1>2. CASE ~(\A r \in Rows : status[r] # "down")
    <2>1. /\ Goes("poll") /\ UNCHANGED <<conf, up, table, ticker>>
          /\ held' = [r \in Rows |-> IF status[r] = "down" THEN age[r] ELSE NoCheck]
          /\ stale' = {}
      BY <1>2 DEF Load
    <2>2. held' \in [Rows -> 0..MaxAge \cup {NoCheck}]
      BY <2>1 DEF TypeOK
    <2>3. \A r \in Held' \ stale' : held'[r] <= life[r]
      BY <2>1 DEF Held, Younger
    <2> QED
      BY <2>1, <2>2, <2>3, StepClock DEF ticker, TypeOK
  <1> QED
    BY <1>1, <1>2

LEMMA PollOkClock ==
    ASSUME ClockInv, NEW seen \in SUBSET Held, PollOk(seen)
    PROVE ClockInv'
  <1> USE DEF ClockInv
  <1>1. held' \in [Rows -> 0..MaxAge \cup {NoCheck}]
    BY DEF PollOk, TypeOK
  <1>2. Held' = seen
    BY DEF PollOk, Held
  <1>3. \A r \in Held' \ stale' : held'[r] <= life[r]
    BY <1>2 DEF PollOk, Younger, Held
  <1> QED
    BY <1>1, <1>2, <1>3, StepClock DEF PollOk, ticker, TypeOK

LEMMA PollFailsClock ==
    ASSUME ClockInv, PollFails
    PROVE ClockInv'
  <1>1. held' \in [Rows -> 0..MaxAge \cup {NoCheck}] /\ Held' = {}
    BY DEF PollFails, NoCopies, Held
  <1> QED
    BY <1>1, StepClock DEF ClockInv, PollFails, ticker, TypeOK

LEMMA RoundEndClock ==
    ASSUME ClockInv, EndRound \/ Wait
    PROVE ClockInv'
  <1> USE DEF ClockInv
  <1>1. Held' = {} /\ Held = {} /\ UNCHANGED <<held, stale>>
    BY DEF EndRound, Wait, TypeOK, Held
  <1>2. CASE EndRound
    BY <1>1, <1>2, StepClock DEF EndRound, ticker, TypeOK
  <1>3. CASE Wait
    BY <1>1, <1>3, StepClock DEF Wait, TypeOK
  <1> QED
    BY <1>2, <1>3

\* Steps that leave rows, copies and monitor alone.
LEMMA OtherClock ==
    ASSUME ClockInv, conf' \in Conf, up' \in BOOLEAN,
           UNCHANGED <<table, mon, ticker, held, stale>>
    PROVE ClockInv'
  <1>1. Held' = Held
    BY DEF Held
  <1> QED
    BY <1>1 DEF ClockInv, TypeOK, Younger, table, ticker

LEMMA NextClock == ClockInv /\ [Next]_vars => ClockInv'
  <1> SUFFICES ASSUME ClockInv, [Next]_vars PROVE ClockInv'
    OBVIOUS
  <1> USE DEF ClockInv
  <1>1. CASE Elapse
    BY <1>1, ElapseClock
  <1>2. CASE Configure
    BY <1>2, OtherClock DEF Configure, TypeOK
  <1>3. CASE Stop
    BY <1>3, GoneClock DEF Stop, TypeOK
  <1>4. CASE Boot
    BY <1>4, OtherClock DEF Boot, TypeOK
  <1>5. CASE StartMonitor
    BY <1>5, StartMonitorClock
  <1>6. CASE Load \/ LoadFails
    BY <1>6, LoadClock, GoneClock DEF LoadFails, TypeOK
  <1>7. CASE PollFails
    BY <1>7, PollFailsClock
  <1>8. CASE EndRound \/ Wait
    BY <1>8, RoundEndClock
  <1>9. CASE \E seen \in SUBSET Held : PollOk(seen)
    BY <1>9, PollOkClock
  <1>10. CASE \E r \in Rows : Request(r) \/ Delete(r)
    BY <1>10, RequestClock, DeleteClock
  <1>11. CASE \E r \in Rows : Check(r)
    BY <1>11, CheckClock
  <1>12. CASE UNCHANGED vars
    BY <1>12, OtherClock DEF vars, table, ticker, TypeOK
  <1> QED
    BY <1>1, <1>2, <1>3, <1>4, <1>5, <1>6, <1>7, <1>8, <1>9, <1>10, <1>11, <1>12 DEF Next

-----------------------------------------------------------------------------
LEMMA ClockInvariant == Spec => []ClockInv
  BY InitClock, NextClock, PTL DEF Spec

\* Rows, copies, monitor and ticker keep their types: no copy outlives its
\* monitor, whatever is configured and whenever the process ends.
THEOREM ClockTypeCorrect == Spec => []TypeOK
  <1>1. ClockInv => TypeOK
    BY DEF ClockInv
  <1> QED
    BY <1>1, ClockInvariant, PTL

\* A row becomes "late" in a check alone.
LEMMA LateByCheck ==
    ASSUME ClockInv, [Next]_vars, NEW r \in Rows, status[r] = "down", status'[r] = "late"
    PROVE r \in Held /\ TooLong(r)
  <1> USE DEF ClockInv
  <1>1. status' # status
    OBVIOUS
  <1>2. PICK q \in Rows : Request(q) \/ Delete(q) \/ Check(q)
    BY <1>1 DEF Next, vars, table, Elapse, Configure, Stop, Boot, StartMonitor, Load,
                LoadFails, PollFails, EndRound, Wait, PollOk
  <1>3. CASE Request(q)
    BY <1>3 DEF Request, TypeOK
  <1>4. CASE Delete(q)
    BY <1>4 DEF Delete, TypeOK
  <1>5. CASE Check(q)
    <2>1. q = r
      BY <1>5 DEF Check, Saves, TypeOK
    <2> QED
      BY <1>5, <2>1 DEF Check, Saves, TypeOK
  <1> QED
    BY <1>2, <1>3, <1>5, <1>4

\* No download is given up before its limit has passed since its request.
THEOREM GivenUpLateAlways == Spec => GivenUpLate
  <1>1. ClockInv /\ [Next]_vars =>
          [\A r \in Rows :
             status[r] = "down" /\ status'[r] = "late" => mon.limit < life[r] \/ r \in stale]_vars
    <2> SUFFICES ASSUME ClockInv, [Next]_vars, NEW r \in Rows,
                        status[r] = "down", status'[r] = "late", r \notin stale
                 PROVE mon.limit < life[r]
      OBVIOUS
    <2>1. r \in Held /\ mon.limit < held[r]
      BY LateByCheck DEF TooLong
    <2>2. held[r] <= life[r]
      BY <2>1 DEF ClockInv, Younger
    <2>3. mon.limit \in Int /\ held[r] \in Int /\ life[r] \in Int
      BY <2>1 DEF ClockInv, TypeOK, Held, Monitor
    <2> QED
      BY <2>1, <2>2, <2>3
  <1> QED
    BY <1>1, ClockInvariant, PTL DEF Spec, GivenUpLate
=============================================================================
