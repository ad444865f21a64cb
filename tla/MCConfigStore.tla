---- MODULE MCConfigStore ----
EXTENDS ConfigStore, TLC
CONSTANTS h1, h2, a, d, r

(* UpdateDir meets UpdateSettings, UpdateDownloader, another UpdateDir and a
   reader.  The folders go from the default d, which a start makes absolute (r),
   to a; the limit goes to the zero value, which a start turns into the default;
   the token, which only UpdateSettings writes here, stays empty.              *)
CallsMC == (h1 :> {"dir"}) @@ (h2 :> {"settings", "downloader", "dir", "load"})
DefaultMC == [f \in Fields |-> IF f = "token" THEN Zero ELSE d]
SentMC == [f \in Carried |-> IF f = "dir" THEN {a} ELSE {Zero}]
AbsoluteMC == [v \in Anything |-> IF v = Torn THEN Torn ELSE IF v = a THEN a ELSE r]
OverridesMC == {[f \in {"interval"} |-> a]}
====
