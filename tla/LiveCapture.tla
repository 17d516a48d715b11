---------------------------- MODULE LiveCapture ----------------------------
(***************************************************************************)
(* LiveCaptureManager: at most one recording at a time, shared by request  *)
(* handlers (start, stop, status), the sniffer's thread and the time-cap   *)
(* watchdogs, whose callbacks run on threads of their own.                 *)
(*                                                                         *)
(* Recordings are numbered in the order of their start requests; a number  *)
(* stands for the LiveState, the sniffer and the timer made for it.  The   *)
(* manager's lock is held for a whole action, and across the poll of a     *)
(* start request (starting); sniffers and timers do not wait for it, a     *)
(* watchdog's callback does.  What a stopped recording becomes once it is  *)
(* registered is CaptureLifecycle (RecordLive and what follows).           *)
(***************************************************************************)
EXTENDS Naturals, FiniteSets

CONSTANTS
  MaxStarts,   \* bound on the start requests that reach a sniffer
  MaxPackets   \* the packet cap, which the sniffer itself enforces

ASSUME LiveAssumption == MaxStarts \in Nat /\ MaxPackets \in Nat

Recordings == 1..MaxStarts
Nothing    == 0
Seconds    == 0..MaxStarts

VARIABLES
  starts,    \* how many recordings have been numbered
  starting,  \* the one whose start request holds the lock
  state,     \* manager.state: the recording it describes
  status,    \* its status, and that of the ones before
  second,    \* the second it began in, which names its file
  count,     \* final_packet_count: what stop() froze
  held,      \* manager._sniffer
  sniffer,   \* sniffer threads
  packets,   \* how many packets each has recorded
  watchdog,  \* manager._watchdog
  timer,     \* timers and their callbacks
  save,      \* stop() calls past the lock, in _persist
  disk       \* whose packets the file of a second holds

managerVars == <<starting, state, status, second, count, held, watchdog>>
liveVars    == <<starts, managerVars, sniffer, packets, timer, save, disk>>
-----------------------------------------------------------------------------
(* What each variable may hold.                                              *)
LiveTypeOK ==
  /\ starts \in 0..MaxStarts
  /\ {starting, state, held, watchdog} \subseteq Recordings \cup {Nothing}
  /\ status \in [Recordings -> {"none", "running", "stopped", "failed"}]
  /\ second \in [Recordings -> Seconds]
  /\ count \in [Recordings -> 0..MaxPackets]
  /\ sniffer \in [Recordings -> {"none", "sniffing", "done", "died", "lost", "late", "gone"}]
  /\ packets \in [Recordings -> 0..MaxPackets]
  /\ timer \in [Recordings -> {"none", "unstarted", "armed", "due", "cancelled", "over"}]
  /\ save \in [Recordings -> {"none", "pending", "registered", "failed"}]
  /\ disk \in [Seconds -> Recordings \cup {Nothing}]

LiveInit ==
  /\ starts = 0
  /\ starting = Nothing /\ state = Nothing /\ held = Nothing /\ watchdog = Nothing
  /\ status = [r \in Recordings |-> "none"]
  /\ second = [r \in Recordings |-> 0]
  /\ count = [r \in Recordings |-> 0]
  /\ sniffer = [r \in Recordings |-> "none"]
  /\ packets = [r \in Recordings |-> 0]
  /\ timer = [r \in Recordings |-> "none"]
  /\ save = [r \in Recordings |-> "none"]
  /\ disk = [t \in Seconds |-> Nothing]

(* The manager drops a sniffer: from then on nobody reads it.                *)
Drops(r, as) == sniffer' = [sniffer EXCEPT ![r] = as]

LockFree  == starting = Nothing
Dead(r)   == sniffer[r] \in {"died", "lost"}
IsRunning == state # Nothing /\ status[state] = "running"
-----------------------------------------------------------------------------
(* ---- the sniffer's thread (scapy's AsyncSniffer) ---- *)
RecordPastCap(r) ==     \* fault: a cap that is off by one
  /\ sniffer[r] = "sniffing" /\ packets[r] <= MaxPackets
  /\ packets' = [packets EXCEPT ![r] = @ + 1]
  /\ UNCHANGED <<starts, managerVars, sniffer, timer, save, disk>>

Record(r) ==
  /\ sniffer[r] = "sniffing" /\ packets[r] < MaxPackets
  /\ packets' = [packets EXCEPT ![r] = @ + 1]
  /\ UNCHANGED <<starts, managerVars, sniffer, timer, save, disk>>

(* It ends at the packet cap, or with an exception it keeps to itself, and   *)
(* then its packets may be lost: AsyncSniffer hands them over at its end.    *)
SnifferEnds(r) ==
  /\ sniffer[r] = "sniffing"
  /\ \/ packets[r] = MaxPackets /\ sniffer' = [sniffer EXCEPT ![r] = "done"]
     \/ \E end \in {"died", "lost"} : sniffer' = [sniffer EXCEPT ![r] = end]
  /\ UNCHANGED <<starts, managerVars, packets, timer, save, disk>>
-----------------------------------------------------------------------------
(* ---- POST /api/live/start ---- *)
(* Fault for BeginStart: a start does not look for a running recording.      *)
BeginStartBlindly ==
  /\ LockFree /\ starts < MaxStarts
  /\ starts' = starts + 1 /\ starting' = starts'
  /\ sniffer' = [sniffer EXCEPT ![starts'] = "sniffing"]
  /\ UNCHANGED <<state, status, second, count, held, packets, watchdog, timer, save, disk>>

BeginStart ==
  /\ LockFree /\ ~IsRunning
  /\ starts < MaxStarts
  /\ starts' = starts + 1 /\ starting' = starts'
  /\ sniffer' = [sniffer EXCEPT ![starts'] = "sniffing"]
  /\ UNCHANGED <<state, status, second, count, held, packets, watchdog, timer, save, disk>>

(* Whole seconds as the recordings see them: the 0.75 s poll lets two begin  *)
(* in one second, but not three.                                             *)
Began(r)   == status[r] # "none"
LastSecond == IF state = Nothing THEN 0 ELSE second[state]
CrowdedSecond ==
  \E r \in Recordings : r # state /\ state # Nothing /\ Began(r) /\ second[r] = second[state]
StartSeconds ==
  (IF state = Nothing \/ CrowdedSecond THEN {} ELSE {LastSecond}) \cup {LastSecond + 1}

(* The poll has ended without an exception: the recording is on.  Its timer  *)
(* may not start when the process is out of threads: the request then ends   *)
(* in an error, and the recording goes on.                                   *)
StartSucceeds ==
  /\ starting # Nothing /\ ~Dead(starting)
  /\ held' = starting /\ state' = starting /\ watchdog' = starting
  /\ status' = [status EXCEPT ![starting] = "running"]
  /\ \E t \in StartSeconds \cap Seconds : second' = [second EXCEPT ![starting] = t]
  /\ timer' \in {[timer EXCEPT ![starting] = "armed"], [timer EXCEPT ![starting] = "unstarted"]}
  /\ starting' = Nothing
  /\ UNCHANGED <<starts, count, sniffer, packets, save, disk>>

StartFails ==
  /\ starting # Nothing /\ Dead(starting)
  /\ starting' = Nothing
  /\ Drops(starting, "gone")
  /\ UNCHANGED <<starts, state, status, second, count, held, packets, watchdog, timer, save, disk>>
-----------------------------------------------------------------------------
(* _cancel_watchdog, seen from the timers: cancelling one that has fired     *)
(* does nothing.                                                             *)
Cancelled == [r \in Recordings |->
                IF r = watchdog /\ timer[r] \in {"unstarted", "armed"} THEN "cancelled" ELSE timer[r]]

(* What stop() makes of the sniffer: clean says that it went without an      *)
(* exception, kept how many packets it got.  Stopping a sniffer that has     *)
(* ended raises.  One that outlives the join's five seconds has handed over  *)
(* nothing yet.                                                              *)
StopsSniffer(clean, kept) ==
  \/ kept = packets[state] /\ sniffer[state] = "sniffing" /\ Drops(state, "gone")
  \/ kept = 0 /\ sniffer[state] = "sniffing" /\ Drops(state, "late")
  \/ kept = packets[state] /\ sniffer[state] \in {"done", "died"} /\ ~clean /\ Drops(state, "gone")
  \/ kept = 0 /\ sniffer[state] = "lost" /\ ~clean /\ Drops(state, "gone")

(* Fault for EndRecording: the count is still left to the sniffer.           *)
EndUnfrozen ==
  /\ IsRunning /\ held # Nothing
  /\ \E clean \in BOOLEAN, kept \in {0, packets[state]} :
       /\ StopsSniffer(clean, kept)
       /\ IF clean \/ kept > 0
          THEN /\ status' = [status EXCEPT ![state] = "stopped"]
               /\ save' = [save EXCEPT ![state] = "pending"]
          ELSE status' = [status EXCEPT ![state] = "failed"] /\ UNCHANGED save
  /\ held' = Nothing /\ watchdog' = Nothing
  /\ UNCHANGED <<starts, starting, state, second, count, packets, disk>>

(* stop() under the lock.  With an exception and nothing collected the       *)
(* recording has failed.  Any other is kept, and the count of what was       *)
(* collected frozen.                                                         *)
EndRecording ==
  /\ IsRunning /\ held # Nothing
  /\ \E clean \in BOOLEAN, kept \in {0, packets[state]} :
       /\ StopsSniffer(clean, kept)
       /\ IF clean \/ kept > 0
          THEN /\ status' = [status EXCEPT ![state] = "stopped"]
               /\ count' = [count EXCEPT ![state] = kept]
               /\ save' = [save EXCEPT ![state] = "pending"]
          ELSE /\ status' = [status EXCEPT ![state] = "failed"]
               /\ UNCHANGED <<count, save>>
  /\ held' = Nothing /\ watchdog' = Nothing
  /\ UNCHANGED <<starts, starting, state, second, packets, disk>>

(* ---- POST /api/live/stop ---- *)
Stop == LockFree /\ EndRecording /\ timer' = Cancelled

(* The time cap passes; the callback then waits for the lock like anyone.    *)
TimerFires(r) ==
  /\ timer[r] = "armed"
  /\ timer' = [timer EXCEPT ![r] = "due"]
  /\ UNCHANGED <<starts, managerVars, sniffer, packets, save, disk>>

(* _auto_stop calls stop() and drops its errors.                             *)
AutoStop(r) ==
  /\ LockFree /\ timer[r] = "due"
  /\ EndRecording
  /\ timer' = [Cancelled EXCEPT ![r] = "over"]

AutoStopTooLate(r) ==
  /\ LockFree /\ timer[r] = "due" /\ ~(IsRunning /\ held # Nothing)
  /\ timer' = [timer EXCEPT ![r] = "over"]
  /\ UNCHANGED <<starts, managerVars, sniffer, packets, save, disk>>

(* Fault for StatusFindsDead: the sniffer and its watchdog are dropped, the  *)
(* status is left to a stop() that will find no sniffer.                     *)
StatusDropsDead ==
  /\ LockFree /\ IsRunning /\ held # Nothing /\ Dead(held)
  /\ held' = Nothing
  /\ timer' = Cancelled /\ watchdog' = Nothing
  /\ UNCHANGED <<starts, starting, state, status, second, count, sniffer, packets, save,
                 disk>>

(* ---- GET /api/live/status: what changes when it finds a dead sniffer ---- *)
StatusFindsDead ==
  /\ LockFree /\ IsRunning /\ held # Nothing /\ Dead(held)
  /\ status' = [status EXCEPT ![state] = "failed"]
  /\ held' = Nothing /\ Drops(held, "gone")
  /\ timer' = Cancelled /\ watchdog' = Nothing
  /\ UNCHANGED <<starts, starting, state, second, count, packets, save, disk>>

(* The count it reports: the frozen one, or else the sniffer's.              *)
HasStopped == state # Nothing /\ status[state] = "stopped"
HasFailed  == state # Nothing /\ status[state] = "failed"

ReportedCount ==
  IF HasStopped THEN count[state] ELSE IF held # Nothing THEN packets[held] ELSE 0

(* Fault for Persist: a recording is registered though writing it failed.    *)
PersistUnchecked(r) ==
  /\ save[r] = "pending"
  /\ save' = [save EXCEPT ![r] = "registered"]
  /\ disk' \in {[disk EXCEPT ![second[r]] = Nothing], [disk EXCEPT ![second[r]] = r]}
  /\ UNCHANGED <<starts, managerVars, sniffer, packets, timer>>

(* _persist, after the lock: writing the file may raise, at once or halfway, *)
(* and so may every database call after it.                                  *)
Persist(r) ==
  /\ save[r] = "pending"
  /\ \/ /\ save' = [save EXCEPT ![r] = "registered"]
        /\ disk' = [disk EXCEPT ![second[r]] = r]
     \/ /\ save' = [save EXCEPT ![r] = "failed"]
        /\ disk' \in {disk, [disk EXCEPT ![second[r]] = Nothing],
                            [disk EXCEPT ![second[r]] = r]}
  /\ UNCHANGED <<starts, managerVars, sniffer, packets, timer>>
-----------------------------------------------------------------------------
LiveNext ==
  \/ BeginStart \/ StartSucceeds \/ StartFails
  \/ Stop \/ StatusFindsDead
  \/ \E r \in Recordings :
       \/ Record(r) \/ SnifferEnds(r)
       \/ TimerFires(r) \/ AutoStop(r) \/ AutoStopTooLate(r)
       \/ Persist(r)

LiveSpec == LiveInit /\ [][LiveNext]_liveVars

(* Polls and timers end by the clock, a callback gets the lock once nobody   *)
(* holds it, and a handler past the lock runs to its end.  Nobody is obliged *)
(* to ask for a stop or a status, and no packet has to arrive.               *)
LiveFairness ==
  /\ WF_liveVars(StartSucceeds \/ StartFails)
  /\ \A r \in Recordings : /\ WF_liveVars(TimerFires(r))
                           /\ WF_liveVars(AutoStop(r))
                           /\ WF_liveVars(AutoStopTooLate(r))
                           /\ WF_liveVars(Persist(r))

FairLiveSpec == LiveSpec /\ LiveFairness
-----------------------------------------------------------------------------
(* A recording that is on can be ended: it is the one the manager describes, *)
(* its sniffer is the one stop() will stop, and a watchdog that is neither   *)
(* cancelled nor spent will call stop() at the time cap, unless its thread   *)
(* could not be started.  (stop() refuses a running recording without a      *)
(* sniffer, and start() refuses while one runs: a manager in that state      *)
(* could only be restarted.)                                                 *)
Controlled ==
  \A r \in Recordings :
    status[r] = "running" => /\ state = r /\ held = r /\ watchdog = r
                             /\ timer[r] \in {"unstarted", "armed", "due"}

(* A registered recording's file holds what stop() collected of it, and not  *)
(* another's packets, whichever stop()s were in _persist together and        *)
(* whichever of them failed.  A recording that began in the same second is   *)
(* excepted: the two share a file name.                                      *)
RecordingsKept ==
  \A r \in Recordings :
    /\ save[r] = "registered"
    /\ \A q \in Recordings \ {r} : Began(q) => second[q] # second[r]
    => disk[second[r]] = r

(* The packet count status() reports of a recording grows with the recording *)
(* and stays when it stops, although the sniffer it was read from is gone:   *)
(* only a failure takes it back, or a join that timed out.                   *)
TimedOut == HasStopped /\ sniffer[state] = "late"
ReportedCountStays ==
  [][state' = state /\ ~HasFailed' /\ ~TimedOut' => ReportedCount' >= ReportedCount]_liveVars

(* The time cap: a recording that is on, and whose watchdog was started,     *)
(* ends, whatever happened to its sniffer and whether or not anyone asks.    *)
RecordingEnds ==
  \A r \in Recordings :
    (status[r] = "running" /\ timer[r] # "unstarted") ~> status[r] \in {"stopped", "failed"}

(* What stop() says of a sniffer that died: whatever it recorded is still    *)
(* evidence.  status() gives such a recording up, packets and all.           *)
RecordedIsKept ==
  [][\A r \in Recordings :
       status[r] = "running" /\ status'[r] = "failed" /\ sniffer[r] = "died"
         => packets[r] = 0]_liveVars

(* A watchdog's late callback finds that a manual stop has finished its      *)
(* recording, and leaves the others alone.                                   *)
WatchdogEndsItsOwn ==
  [][\A r \in Recordings :
       timer[r] = "due" /\ timer'[r] = "over"
         => \A q \in Recordings \ {r} : status'[q] = status[q]]_liveVars
=============================================================================
