----------------------------- MODULE Placement -----------------------------
(***************************************************************************)
(* What finalizeDownload promises of the library, however the files of a   *)
(* folder are linked or copied, whatever fails and however often it starts *)
(* over: only a finalization under way touches the names that are its      *)
(* download's alone, it touches no other download's, and it succeeds only  *)
(* when each of them leads to what was downloaded.  So what a success has  *)
(* placed stays until the same download is finalized again.                *)
(***************************************************************************)
CONSTANTS
    Downloads,
    FilesOf        \* the files of each torrent whose names no other has

VARIABLES
    placed,        \* the files of each download that are in the library as at its
                   \* download location
    outcome        \* how its last finalization ended

Init ==
    /\ placed = [d \in Downloads |-> {}]
    /\ outcome = [d \in Downloads |-> "none"]

\* For the first time, after a crash or a Retry.
Begin(d) ==
    /\ outcome[d] # "running"
    /\ outcome' = [outcome EXCEPT ![d] = "running"]
    /\ UNCHANGED placed

Work(d) ==
    /\ outcome[d] = "running"
    /\ \E files \in SUBSET FilesOf[d] : placed' = [placed EXCEPT ![d] = files]
    /\ UNCHANGED outcome

Succeed(d) ==
    /\ outcome[d] = "running"
    /\ placed[d] = FilesOf[d]
    /\ outcome' = [outcome EXCEPT ![d] = "ok"]
    /\ UNCHANGED placed

Fail(d) ==
    /\ outcome[d] = "running"
    /\ outcome' = [outcome EXCEPT ![d] = "error"]
    /\ UNCHANGED placed

\* Outcomes are saved with the rows; what was under way is forgotten.
Crash ==
    /\ outcome' = [d \in Downloads |-> IF outcome[d] = "running" THEN "none" ELSE outcome[d]]
    /\ UNCHANGED placed

Next == Crash \/ \E d \in Downloads : Begin(d) \/ Work(d) \/ Succeed(d) \/ Fail(d)

Spec == Init /\ [][Next]_<<placed, outcome>>
=============================================================================
