--------------------------- MODULE MCCacheStore ---------------------------
EXTENDS CacheStore, TLC
CONSTANTS server, cli

Setting(writers, coarse, tamper, slow, limit) ==
    [writers |-> writers, coarse |-> coarse, tamper |-> tamper, slow |-> slow, limit |-> limit]

(* The server and `mpm refresh`, with all that may go wrong in between.    *)
BothWrite == Setting(Procs, TRUE, FALSE, TRUE, 2)
(* `mpm refresh` writes, the server reads.                                 *)
OneWrites == Setting({cli}, FALSE, TRUE, FALSE, 2)
(* What the comment of the store is about.                                 *)
BothWriteInTurn == Setting(Procs, FALSE, FALSE, FALSE, 3)

StoreSettings == {BothWrite, OneWrites}
TwoWriters == {BothWriteInTurn}
===========================================================================
