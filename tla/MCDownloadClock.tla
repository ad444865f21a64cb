---- MODULE MCDownloadClock ----
EXTENDS DownloadClock, TLC
CONSTANTS r1, r2
====
