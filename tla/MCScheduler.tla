---- MODULE MCScheduler ----
EXTENDS Scheduler, TLC
CONSTANTS l1, l2, l3
====
