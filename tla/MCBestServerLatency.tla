------------------------ MODULE MCBestServerLatency ------------------------
(* Model-checking instance of BestServerLatency: two servers, two          *)
(* goroutines, small reassessment and sampling thresholds so that every    *)
(* path of assess() and reassessBest() is reached within a few Result()    *)
(* calls.  The constants are given in the .cfg files.                      *)
EXTENDS BestServerLatency, TLC
=============================================================================
