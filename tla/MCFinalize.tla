---- MODULE MCFinalize ----
EXTENDS Finalize, TLC
CONSTANTS d1, d2
MCFilesOf == (d1 :> {1, 3}) @@ (d2 :> {2, 3})
MCOneFolder == (d1 :> "folder") @@ (d2 :> "folder")
====
