------------------------------- MODULE Scheduler -------------------------------
(***************************************************************************)
(* core/pkg/schd/schd.go: a task run by a loop, when its ticker fires or   *)
(* by hand.                                                                *)
(*                                                                         *)
(* `manualChan', `cancelChan' and each loop's ticker are channels of       *)
(* capacity one, here the number of items in them.  Stop and Restart never *)
(* wait: what they start and stop goes on at its own pace.                 *)
(***************************************************************************)
EXTENDS Integers, FiniteSets

CONSTANTS
    Loops,         \* goroutines that run loop
    MaxCalls       \* bound: calls of Stop and Restart

ASSUME SchedulerAssumption ==
    /\ MaxCalls \in Nat
    /\ IsFiniteSet(Loops) /\ Cardinality(Loops) > MaxCalls

VARIABLES
    manual,        \* items in manualChan
    cancel,        \* items in cancelChan
    loop,          \* each loop: not started, at its select, in the task, or ended
    tick,          \* items in its ticker's channel
    starting,      \* Restarts between Stop and start
    stops, calls   \* plain calls of Stop; how much of the bound is used

schedVars == <<manual, cancel, loop, tick>>
callVars == <<starting, stops, calls>>
vars == <<schedVars, callVars>>

SchedTypeOK ==
    /\ manual \in 0..1
    /\ cancel \in 0..1
    /\ loop \in [Loops -> {"none", "select", "task", "ended"}]
    /\ tick \in [Loops -> 0..1]

TypeOK ==
    /\ SchedTypeOK
    /\ starting \in 0..MaxCalls
    /\ stops \in 0..MaxCalls
    /\ calls \in 0..MaxCalls

\* NewScheduler: one loop.
NewScheduler ==
    /\ cancel = 0
    /\ \E l \in Loops : loop = [k \in Loops |-> IF k = l THEN "select" ELSE "none"]
    /\ tick = [l \in Loops |-> 0]
    /\ starting = 0
    /\ stops = 0
    /\ calls = 0

Init == NewScheduler /\ manual = 0

Live == {l \in Loops : loop[l] \in {"select", "task"}}

-----------------------------------------------------------------------------
\* The loop.

Goes(l, to) == loop' = [loop EXCEPT ![l] = to]

\* time.Ticker drops a tick that finds its channel full.
Tick(l) ==
    /\ l \in Live /\ tick[l] = 0
    /\ tick' = [tick EXCEPT ![l] = 1]
    /\ UNCHANGED <<manual, cancel, loop>>

\* Wrong on purpose: a queue without the default.
TriggerQueued == manual' = manual + 1

\* The select with a default in Manual: an item, unless there is one.
Trigger == manual' = 1

OnTick(l) ==
    /\ loop[l] = "select" /\ tick[l] = 1
    /\ tick' = [tick EXCEPT ![l] = 0]
    /\ Trigger
    /\ UNCHANGED <<cancel, loop>>

OnManual(l) ==
    /\ loop[l] = "select" /\ manual = 1
    /\ manual' = 0
    /\ Goes(l, "task")
    /\ UNCHANGED <<cancel, tick>>

\* Wrong on purpose: a closed channel, which every loop finds readable.
OnCancelClosed(l) ==
    /\ loop[l] = "select" /\ cancel = 1
    /\ Goes(l, "ended")
    /\ UNCHANGED <<manual, cancel, tick>>

\* Wrong on purpose: the cancel is looked at when nothing else is to do.
OnCancelLast(l) ==
    /\ loop[l] = "select" /\ cancel = 1
    /\ tick[l] = 0 /\ manual = 0
    /\ cancel' = 0
    /\ Goes(l, "ended")
    /\ UNCHANGED <<manual, tick>>

OnCancel(l) ==
    /\ loop[l] = "select" /\ cancel = 1
    /\ cancel' = 0
    /\ Goes(l, "ended")
    /\ UNCHANGED <<manual, tick>>

\* Wrong on purpose: the loop is left after its first task.
TaskDoneReturns(l) ==
    /\ loop[l] = "task"
    /\ Goes(l, "ended")
    /\ UNCHANGED <<manual, cancel, tick>>

TaskDone(l) ==
    /\ loop[l] = "task"
    /\ Goes(l, "select")
    /\ UNCHANGED <<manual, cancel, tick>>

-----------------------------------------------------------------------------
\* Its callers.

Manual ==
    /\ Trigger
    /\ UNCHANGED <<cancel, loop, tick, callVars>>

Cancel == cancel' = 1 /\ UNCHANGED <<manual, loop, tick>>

Stop ==
    /\ calls < MaxCalls
    /\ calls' = calls + 1
    /\ stops' = stops + 1
    /\ Cancel
    /\ UNCHANGED starting

\* Restart: Stop, and start below.
Restart ==
    /\ calls < MaxCalls
    /\ calls' = calls + 1
    /\ starting' = starting + 1
    /\ Cancel
    /\ UNCHANGED stops

Start(l) ==
    /\ starting > 0
    /\ loop[l] = "none"
    /\ starting' = starting - 1
    /\ Goes(l, "select")
    /\ UNCHANGED <<manual, cancel, tick, stops, calls>>

Loop(l) ==
    \/ OnTick(l) \/ OnManual(l) \/ OnCancel(l) \/ TaskDone(l)
    \/ Tick(l)

Next ==
    \/ Manual \/ Stop \/ Restart
    \/ \E l \in Loops : Start(l) \/ (Loop(l) /\ UNCHANGED callVars)

Spec == Init /\ [][Next]_vars

\* A loop that can run does; a select with several channels ready takes one at
\* random, so none is passed over for ever.  Tasks end.  Callers call or not.
FairSpec ==
    /\ Spec
    /\ \A l \in Loops : /\ WF_vars(TaskDone(l) /\ UNCHANGED callVars)
                        /\ SF_vars(OnManual(l) /\ UNCHANGED callVars)
                        /\ SF_vars(OnCancel(l) /\ UNCHANGED callVars)
    /\ WF_vars(\E l \in Loops : Start(l))

-----------------------------------------------------------------------------
\* Properties.

\* Restarts alone, however many and however close, never leave the scheduler
\* without a loop: a cancel ends one loop, the old one or the new.
ALoopStays == stops = 0 => Live # {} \/ starting > 0

Stopped == stops > 0 /\ Live = {} /\ starting = 0

\* A trigger, also one that found the channel full, is followed by a run of the
\* task unless a Stop has ended the last loop.
TriggerServed == manual = 1 ~> (manual = 0 \/ Stopped)

\* A Stop ends a loop, however busy its ticker and its task are.
StopTaken == cancel = 1 ~> (cancel = 0 \/ Stopped)
=============================================================================
