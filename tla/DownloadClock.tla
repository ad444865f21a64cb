---------------------------- MODULE DownloadClock ----------------------------
(***************************************************************************)
(* The time of core/internal/downloads/service.go: the check interval and  *)
(* the time limit of monitorDownloads, against the UpdatedAt that every    *)
(* Save of a row sets.  Downloads has the same goroutines without time,    *)
(* and says when one of them starts a monitor.                             *)
(*                                                                         *)
(* Time passes in units, at any moment, also while the process is down.    *)
(* An age is the time since some moment, up to MaxAge.                     *)
(***************************************************************************)
EXTENDS Integers

CONSTANTS
    Rows,
    Limits,        \* Downloader.Timeout, a duration or Unparsed
    Intervals,     \* Downloader.CheckInterval, likewise
    IgnoreValues,  \* Downloader.IgnoreTimeout
    Unparsed,      \* a text that time.ParseDuration refuses
    DefaultLimit, DefaultInterval,
    NoCheck,       \* of a row: no copy is held
    MaxAge         \* bound: greater than every limit

\* GetDownloadLimit and GetCheckInterval.
LimitOf(v) == IF v = Unparsed THEN DefaultLimit ELSE v
IntervalOf(v) == IF v = Unparsed THEN DefaultInterval ELSE v

Conf == [ignore : IgnoreValues, limit : Limits, interval : Intervals]

ASSUME ClockAssumption ==
    /\ MaxAge \in Nat
    /\ IgnoreValues \subseteq BOOLEAN
    /\ \A v \in Limits : LimitOf(v) \in Int
    /\ \A v \in Intervals : IntervalOf(v) \in Int
    /\ NoCheck \notin Nat

VARIABLES
    conf,          \* the downloader's settings
    up,
    status,        \* of each row; "late" is the error of checkTimeout
    age,           \* of each row: the time since its UpdatedAt
    life,          \* of each row: the time since its AddMedia or last Retry
    mon,           \* monitorDownloads: where it is, the settings it has read
    left, ticked,  \* its ticker: time to the next tick, a tick in its channel
    held,          \* the copies the monitor and its checks hold: their ages
    stale          \* rows that were retried while a copy was held

vars == <<conf, up, status, age, life, mon, left, ticked, held, stale>>
table == <<status, age, life>>
ticker == <<left, ticked>>

Off == [pc |-> "off", ignore |-> TRUE, limit |-> 0, period |-> 1]
Monitor ==
    [pc : {"off", "load", "poll", "check", "tick"}, ignore : BOOLEAN,
     limit : Int, period : Nat \ {0}]

NoCopies == [r \in Rows |-> NoCheck]
Held == {r \in Rows : held[r] # NoCheck}
Older(a) == IF a < MaxAge THEN a + 1 ELSE MaxAge

TypeOK ==
    /\ conf \in Conf
    /\ up \in BOOLEAN
    /\ status \in [Rows -> {"none", "down", "late", "settled"}]
    /\ age \in [Rows -> 0..MaxAge]
    /\ life \in [Rows -> 0..MaxAge]
    /\ mon \in Monitor
    /\ left \in Nat \ {0}
    /\ ticked \in BOOLEAN
    /\ held \in [Rows -> 0..MaxAge \cup {NoCheck}]
    /\ stale \subseteq Held
    /\ mon.pc \notin {"poll", "check"} => Held = {}

Init ==
    /\ conf \in Conf
    /\ up = TRUE
    /\ status = [r \in Rows |-> "none"]
    /\ age = [r \in Rows |-> 0]
    /\ life = [r \in Rows |-> 0]
    /\ mon = Off
    /\ left = 1
    /\ ticked = FALSE
    /\ held = NoCopies
    /\ stale = {}

-----------------------------------------------------------------------------
\* Time, the settings, the process, the requests.

\* time.Ticker drops a tick that finds its channel full.
Elapse ==
    /\ age' = [r \in Rows |-> Older(age[r])]
    /\ life' = [r \in Rows |-> Older(life[r])]
    /\ held' = [r \in Rows |-> IF r \in Held THEN Older(held[r]) ELSE NoCheck]
    /\ IF mon.pc = "off" THEN UNCHANGED ticker
       ELSE IF left = 1 THEN left' = mon.period /\ ticked' = TRUE
       ELSE left' = left - 1 /\ UNCHANGED ticked
    /\ UNCHANGED <<conf, up, status, mon, stale>>

Configure ==
    /\ conf' \in Conf
    /\ UNCHANGED <<up, table, mon, ticker, held, stale>>

\* Wrong on purpose: the copies outlive the process.
GoneInPart == mon' = Off /\ left' = 1 /\ ticked' = FALSE /\ UNCHANGED <<held, stale>>

\* The goroutine has ended, or its process.
Gone == mon' = Off /\ left' = 1 /\ ticked' = FALSE /\ held' = NoCopies /\ stale' = {}

Stop ==
    /\ up /\ up' = FALSE
    /\ Gone
    /\ UNCHANGED <<conf, table>>

Boot ==
    /\ ~up /\ up' = TRUE
    /\ UNCHANGED <<conf, table, mon, ticker, held, stale>>

\* Wrong on purpose: a Retry that updates the status alone.
RequestStatus(r) ==
    /\ up
    /\ status' = [status EXCEPT ![r] = "down"]
    /\ life' = [life EXCEPT ![r] = 0]
    /\ stale' = stale \cup ({r} \cap Held)
    /\ UNCHANGED <<conf, up, age, mon, ticker, held>>

\* The Save of DownloadMedia, for an AddMedia or a Retry.
Request(r) ==
    /\ up
    /\ status' = [status EXCEPT ![r] = "down"]
    /\ age' = [age EXCEPT ![r] = 0]
    /\ life' = [life EXCEPT ![r] = 0]
    /\ stale' = stale \cup ({r} \cap Held)
    /\ UNCHANGED <<conf, up, mon, ticker, held>>

\* DeleteMedia; a check that holds a copy writes the row again.
Delete(r) ==
    /\ up
    /\ status' = [status EXCEPT ![r] = "none"]
    /\ UNCHANGED <<conf, up, age, life, mon, ticker, held, stale>>

-----------------------------------------------------------------------------
\* monitorDownloads.

Goes(pc) == mon' = [mon EXCEPT !.pc = pc]

\* The settings are read once; time.NewTicker panics unless the interval is
\* positive, and with it the process.
StartMonitor ==
    /\ up /\ mon.pc = "off"
    /\ LET period == IntervalOf(conf.interval) IN
       IF period > 0
       THEN /\ mon' = [pc |-> "load", ignore |-> conf.ignore,
                       limit |-> LimitOf(conf.limit), period |-> period]
            /\ left' = period
            /\ ticked' = FALSE
            /\ UNCHANGED <<up, held, stale>>
       ELSE Gone /\ up' = FALSE
    /\ UNCHANGED <<conf, table>>

\* GetDownloadingMedia fails: the monitor ends.
LoadFails ==
    /\ mon.pc = "load"
    /\ Gone
    /\ UNCHANGED <<conf, up, table>>

Load ==
    /\ mon.pc = "load"
    /\ IF \A r \in Rows : status[r] # "down"
       THEN Gone
       ELSE /\ Goes("poll")
            /\ held' = [r \in Rows |-> IF status[r] = "down" THEN age[r] ELSE NoCheck]
            /\ stale' = {}
            /\ UNCHANGED ticker
    /\ UNCHANGED <<conf, up, table>>

\* The loop continues, without waiting for its ticker.
PollFails ==
    /\ mon.pc = "poll"
    /\ Goes("load")
    /\ held' = NoCopies
    /\ stale' = {}
    /\ UNCHANGED <<conf, up, table, ticker>>

\* One check for each row whose torrent is in the answer.
PollOk(seen) ==
    /\ mon.pc = "poll"
    /\ Goes("check")
    /\ held' = [r \in Rows |-> IF r \in seen THEN held[r] ELSE NoCheck]
    /\ stale' = stale \cap seen
    /\ UNCHANGED <<conf, up, table, ticker>>

\* The end of checkDownload: the deferred Save writes the copy, with the time.
Saves(r, s) ==
    /\ status' = [status EXCEPT ![r] = s]
    /\ age' = [age EXCEPT ![r] = 0]
    /\ held' = [held EXCEPT ![r] = NoCheck]
    /\ stale' = stale \ {r}
    /\ UNCHANGED <<conf, up, life, mon, ticker>>

\* Wrong on purpose: a limit that ends no download.
TooLongNever(r) == mon.ignore /\ mon.limit < held[r]

\* setupTimeoutFunc
TooLong(r) == ~mon.ignore /\ mon.limit < held[r]

\* The torrent is complete or in error; or the time limit decides.
Check(r) ==
    /\ mon.pc = "check" /\ r \in Held
    /\ \/ Saves(r, "settled")
       \/ TooLong(r) /\ Saves(r, "late")
       \/ ~TooLong(r) /\ Saves(r, "down")

EndRound ==
    /\ mon.pc = "check" /\ Held = {}
    /\ Goes("tick")
    /\ UNCHANGED <<conf, up, table, ticker, held, stale>>

Wait ==
    /\ mon.pc = "tick" /\ ticked
    /\ ticked' = FALSE
    /\ Goes("load")
    /\ UNCHANGED <<conf, up, table, left, held, stale>>

Next ==
    \/ Elapse \/ Configure \/ Stop \/ Boot
    \/ StartMonitor \/ Load \/ LoadFails \/ PollFails \/ EndRound \/ Wait
    \/ \E seen \in SUBSET Held : PollOk(seen)
    \/ \E r \in Rows : Request(r) \/ Delete(r) \/ Check(r)

Spec == Init /\ [][Next]_vars

\* Time passes, goroutines run, the process is started again, and polls are not
\* refused for ever, nor all answered without a torrent that is in the client.
\* That a torrent completes is not assumed.
Fairness ==
    /\ WF_vars(Elapse) /\ WF_vars(Boot) /\ WF_vars(StartMonitor)
    /\ WF_vars(Load) /\ WF_vars(EndRound) /\ WF_vars(Wait)
    /\ SF_vars(PollOk(Held))
    /\ \A r \in Rows : WF_vars(Check(r))

FairSpec == Spec /\ Fairness

-----------------------------------------------------------------------------
\* Properties.

\* A download is given up only when more than the limit, as the monitor read
\* it, has passed since its AddMedia or last Retry; unless the Retry came
\* while a check still held a copy of the row from before (checkDownload,
\* setupTimeoutFunc).
GivenUpLate ==
    [][\A r \in Rows :
         status[r] = "down" /\ status'[r] = "late" => mon.limit < life[r] \/ r \in stale]_vars

\* A download of which the client always says that it is incomplete.
Endless(r) == up /\ status[r] = "down" /\ life[r] = MaxAge

\* A monitor whose limit is below its check interval gives up every download
\* that goes on for too long, however its rounds and its ticks fall: it cannot
\* look at the row often enough to make it young again.
LimitBelowInterval == ~mon.ignore /\ mon.limit < mon.period
ShortLimitEnds ==
    \A r \in Rows :
        (Endless(r) /\ mon.pc # "off" /\ LimitBelowInterval)
            ~> ~(Endless(r) /\ mon.pc # "off")

\* "Monitors the download progress until completion (with optional timeout)":
\* a monitor that reads a limit gives up every download that goes on for too
\* long, unless it ends or its process does.  False of the code because of the
\* Save in checkDownload: a monitor that runs for ever makes the row young again.
TimeLimitEnds ==
    \A r \in Rows :
        (Endless(r) /\ mon.pc # "off" /\ ~mon.ignore) ~> ~(Endless(r) /\ mon.pc # "off")
=============================================================================
