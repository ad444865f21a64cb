---- MODULE MCBonusBuyer ----
EXTENDS BonusBuyer, TLC
CONSTANTS l1
MCKeep == {-1, 0, 3, 5}
====
