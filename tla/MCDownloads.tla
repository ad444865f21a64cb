---- MODULE MCDownloads ----
EXTENDS DownloadsInv
MCOneLink == [b \in Books |-> 1]
MCOwnLink == [b \in Books |-> b]
====
