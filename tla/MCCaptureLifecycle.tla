------------------------- MODULE MCCaptureLifecycle -------------------------
(* Instances of CaptureLifecycle for TLC.                                    *)
EXTENDS CaptureLifecycle, TLC

(* Three of the nine evidence tables are enough to mix analyses up: packets  *)
(* (committed in batches, here two), flows, and graph_edges (derived keys,   *)
(* computed from flows but not from packets).  Of the progress commits, which*)
(* all do the same, one of each kind.                                        *)
MCWork ==
  <<Report, Update>>
    \o SelectSeq(WorkOn({"packets", "flows", "graph_edges"}, 2), LAMBDA s : s \notin {Report, Update})

(* One commit of every kind, for the runs that follow whole behaviours.      *)
MCShortWork == <<Report>> \o Replace("flows") \o <<Update>> \o Replace("graph_edges")

Symmetric == Permutations(Jobs) \cup Permutations(Clients)
=============================================================================
