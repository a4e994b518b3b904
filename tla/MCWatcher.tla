------------------------------ MODULE MCWatcher ------------------------------
(* Instances of Watcher: the constants of its TLC configurations.          *)
EXTENDS Watcher

CONSTANTS t1, t2, t3, t4, t5

FiveTimers == {t1, t2, t3, t4, t5}
FourTimers == {t1, t2, t3, t4}
=============================================================================
