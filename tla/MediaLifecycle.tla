--------------------------- MODULE MediaLifecycle ---------------------------
(***************************************************************************)
(* What the downloads service promises about each row of media_requests,   *)
(* whatever handlers, monitor and checks do at the same time: one row      *)
(* moves at a time, Completed and Error are reached from Downloading, a    *)
(* settled row moves only by being downloaded again, and a new row takes   *)
(* an id no row had before.  A deleted row may come back (a goroutine may  *)
(* still hold its struct), but never as a row that was not downloaded.     *)
(***************************************************************************)
EXTENDS Integers

CONSTANT MaxId     \* bound: rows ever created

VARIABLES
    status,        \* the status of each id, "None" when there is no row
    last           \* the last id handed out

Ids == 1..MaxId

Init ==
    /\ status = [i \in Ids |-> "None"]
    /\ last = 0

Create(s) ==
    /\ last < MaxId
    /\ last' = last + 1
    /\ status' = [status EXCEPT ![last + 1] = s]

Moves(i, from, to) ==
    /\ i <= last
    /\ status[i] \in from
    /\ status' = [status EXCEPT ![i] = to]
    /\ UNCHANGED last

\* Add, a failed Add, and Edit make rows.
New == \E s \in {"Unset", "Downloading", "Error"} : Create(s)

Download(i) == Moves(i, {"None", "Unset", "Downloading", "Completed", "Error"}, "Downloading")

Settle(i) == \E s \in {"Completed", "Error"} : Moves(i, {"None", "Downloading"}, s)

Delete(i) == Moves(i, {"Unset", "Downloading", "Completed", "Error"}, "None")

Next == New \/ \E i \in Ids : Download(i) \/ Settle(i) \/ Delete(i)

Spec == Init /\ [][Next]_<<status, last>>
=============================================================================
