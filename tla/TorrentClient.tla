---------------------------- MODULE TorrentClient ----------------------------
(***************************************************************************)
(* The torrent client as Gouda sees it: downloads/clients/transmission.go  *)
(* and downloads/clients/qbit.go translate, the program behind them is     *)
(* external and acts on its own and on its user's behalf.                  *)
(***************************************************************************)
EXTENDS Catalogue

CONSTANTS
    Client,        \* "transmission" or "qbit"
    ClientEvents   \* what the client or its user may do in this run

ASSUME ClientAssumption ==
    /\ Client \in {"transmission", "qbit"}
    /\ Client = "qbit" => Links \subseteq 1..MaxTid

VARIABLES
    torrents,      \* what the client holds
    lastTid,       \* last number transmission gave to a torrent
    sid            \* the client accepts what Gouda logged in with

torrentVars == <<torrents, lastTid>>
clientVars == <<torrents, lastTid, sid>>

\* "stopped": paused before its data was complete, "finished": after.
TorrentState == {"downloading", "seeding", "stopped", "finished", "errored"}

Torrent == [tid : 1..MaxTid, link : Links, state : TorrentState]

ClientInit ==
    /\ torrents = {}
    /\ lastTid = 0
    /\ sid = FALSE

\* QbitClient.login, called when the adapter is made and never again: the
\* cookie is kept.  transmission is sent the password with each request.
Login ==
    /\ sid' = TRUE
    /\ UNCHANGED torrentVars

\* DownloadTorrentWithFile: transmission numbers its torrents, qbit's id is the
\* info hash of the file.  A torrent the client has is not added twice.
NewTid(link) == IF Client = "qbit" THEN link ELSE lastTid + 1

Known(link) == {t \in torrents : t.link = link}

TidsLeft(link) ==                               \* the bound MaxTid
    \/ Known(link) # {}
    \/ Client = "qbit"
    \/ lastTid < MaxTid

AddTorrent(link) ==
    IF Known(link) # {}
    THEN UNCHANGED clientVars
    ELSE /\ torrents' = torrents \cup
                {[tid |-> NewTid(link), link |-> link, state |-> "downloading"]}
         /\ lastTid' = IF Client = "qbit" THEN lastTid ELSE lastTid + 1
         /\ UNCHANGED sid

\* The id the call returns.
AddedTid(link) ==
    IF Known(link) # {} THEN (CHOOSE t \in Known(link) : TRUE).tid
                        ELSE NewTid(link)

\* GetTorrentStatus: transmission's "stopped" counts as an error whatever the
\* progress; qbit's paused, queued and checking states count as downloading.
ParsedStatus(t) ==
    CASE t.state = "seeding" -> "Complete"
      [] t.state = "errored" -> "Error"
      [] t.state \in {"stopped", "finished"} /\ Client = "transmission" -> "Error"
      [] OTHER -> "Downloading"

Reported(tids) == {t \in torrents : t.tid \in tids}

-----------------------------------------------------------------------------
\* What happens in the client without Gouda.
Becomes(t, s) ==
    /\ torrents' = (torrents \ {t}) \cup {[t EXCEPT !.state = s]}
    /\ UNCHANGED <<lastTid, sid>>

Finish(t) ==
    /\ "finish" \in ClientEvents
    /\ t.state = "downloading"
    /\ Becomes(t, "seeding")

Pause(t) ==
    /\ "pause" \in ClientEvents
    /\ \/ t.state = "downloading" /\ Becomes(t, "stopped")
       \/ t.state = "seeding" /\ Becomes(t, "finished")

Resume(t) ==
    /\ "resume" \in ClientEvents
    /\ \/ t.state = "stopped" /\ Becomes(t, "downloading")
       \/ t.state = "finished" /\ Becomes(t, "seeding")

Break(t) ==
    /\ "break" \in ClientEvents
    /\ Client = "qbit"
    /\ t.state = "downloading"
    /\ Becomes(t, "errored")

Remove(t) ==
    /\ "remove" \in ClientEvents
    /\ torrents' = torrents \ {t}
    /\ UNCHANGED <<lastTid, sid>>

\* transmission numbers its torrents anew, from 1, when it starts.
Restart ==
    /\ "restart" \in ClientEvents
    /\ Client = "transmission"
    /\ \E n \in 0..MaxTid : \E number \in [torrents -> 1..n] :
          /\ \A s, t \in torrents : number[s] = number[t] => s = t
          /\ \A k \in 1..n : \E t \in torrents : number[t] = k
          /\ torrents' = {[t EXCEPT !.tid = number[t]] : t \in torrents}
          /\ lastTid' = n
          /\ UNCHANGED sid

\* qBittorrent's sessions end when it restarts, or after a time without requests.
EndSession ==
    /\ "logout" \in ClientEvents
    /\ Client = "qbit" /\ sid
    /\ sid' = FALSE
    /\ UNCHANGED torrentVars

ClientNext ==
    \/ \E t \in torrents :
           Finish(t) \/ Pause(t) \/ Resume(t) \/ Break(t) \/ Remove(t)
    \/ Restart
    \/ EndSession
=============================================================================
