--------------------------- MODULE MCLiveCapture ---------------------------
(* Instances of LiveCapture for TLC: three recordings are enough for one to  *)
(* be saved, one to be stopped late and one to be on, at the same time.      *)
EXTENDS LiveCapture
=============================================================================
