----------------------------- MODULE MCHotReload -----------------------------
(* Instances of HotReload for TLC.                                         *)
EXTENDS HotReload

CONSTANTS w1, w2

OneWorker == {w1}
TwoWorkers == {w1, w2}
=============================================================================
