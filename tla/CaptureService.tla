--------------------------- MODULE CaptureService ---------------------------
(***************************************************************************)
(* What the capture API promises an analyst, without jobs, threads, tables *)
(* or files: a registered capture is ready, busy being analyzed, or done;  *)
(* a done capture shows one result, which nothing changes until the next   *)
(* analysis begins or the capture is removed; an analysis either puts a    *)
(* whole new result in place or leaves the capture ready for another try.  *)
(* CaptureLifecycle implements it for uploaded captures.                   *)
(***************************************************************************)
CONSTANTS Captures, Results, None

VARIABLES
  phase,   \* phase[c] as the capture list shows it
  shown    \* shown[c], the result behind a done capture

serviceVars == <<phase, shown>>

ServiceTypeOK ==
  /\ phase \in [Captures -> {"unknown", "ready", "busy", "done", "gone"}]
  /\ shown \in [Captures -> Results \cup {None}]

Init ==
  /\ phase = [c \in Captures |-> "unknown"]
  /\ shown = [c \in Captures |-> None]

Turn(c, from, to, result) ==
  /\ phase[c] \in from
  /\ phase' = [phase EXCEPT ![c] = to]
  /\ shown' = [shown EXCEPT ![c] = result]

Register(c)   == Turn(c, {"unknown"}, "ready", None)
Begin(c)      == Turn(c, {"ready", "done"}, "busy", None)
Succeed(c, r) == Turn(c, {"busy"}, "done", r)
GiveUp(c)     == Turn(c, {"busy"}, "ready", None)

(* From "busy" only when the removal had been granted before the analysis    *)
(* began.                                                                    *)
Remove(c)     == Turn(c, {"ready", "busy", "done"}, "gone", None)

Interrupt ==
  /\ phase' = [c \in Captures |-> IF phase[c] = "busy" THEN "ready" ELSE phase[c]]
  /\ UNCHANGED shown

Next ==
  \/ \E c \in Captures : Register(c) \/ Begin(c) \/ GiveUp(c) \/ Remove(c)
  \/ \E c \in Captures, r \in Results : Succeed(c, r)
  \/ Interrupt

Spec == Init /\ [][Next]_serviceVars
=============================================================================
