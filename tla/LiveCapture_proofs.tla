------------------------ MODULE LiveCapture_proofs ------------------------
(***************************************************************************)
(* Theorems about LiveCapture, for every number of recordings and every    *)
(* packet cap.                                                             *)
(***************************************************************************)
EXTENDS LiveCapture, TLAPS

(* While a start request holds the lock nothing is running, and the numbers  *)
(* not yet given to a recording that began are as Init left them.            *)
LockedIdle ==
  starting # Nothing => \A r \in Recordings : status[r] # "running"

Fresh ==
  /\ starting <= starts
  /\ \A r \in Recordings : r > starts \/ r = starting => status[r] = "none"

(* Only a recording that began is saved.                                     *)
SavedBegan == \A r \in Recordings : save[r] # "none" => Began(r)

(* The sniffer the manager holds is the one of the recording that is on.     *)
HeldIsOn == held # Nothing => held = state /\ status[held] = "running"

LiveInd ==
  LiveTypeOK /\ LockedIdle /\ Fresh /\ SavedBegan /\ HeldIsOn /\ Controlled
    /\ RecordingsKept
-----------------------------------------------------------------------------
(* The manager's state is well-typed: every step keeps LiveTypeOK.           *)
LEMMA LiveTypeStep == LiveTypeOK /\ [LiveNext]_liveVars => LiveTypeOK'
<1> SUFFICES ASSUME LiveTypeOK, [LiveNext]_liveVars
             PROVE  LiveTypeOK'
  OBVIOUS
<1> USE LiveAssumption DEF LiveTypeOK, Recordings, Nothing, Seconds
<1>1. CASE BeginStart
  BY <1>1 DEF BeginStart
<1>2. CASE StartSucceeds
  BY <1>2 DEF StartSucceeds
<1>3. CASE StartFails
  BY <1>3 DEF StartFails, Drops
<1>4. Cancelled \in [Recordings -> {"none", "unstarted", "armed", "due", "cancelled", "over"}]
  BY DEF Cancelled
<1>5. ASSUME EndRecording
      PROVE  /\ starts' = starts /\ starting' = starting /\ state' = state
             /\ second' = second /\ packets' = packets /\ disk' = disk
             /\ held' = Nothing /\ watchdog' = Nothing
             /\ status' \in [Recordings -> {"none", "running", "stopped", "failed"}]
             /\ count' \in [Recordings -> 0..MaxPackets]
             /\ save' \in [Recordings -> {"none", "pending", "registered", "failed"}]
             /\ sniffer' \in [Recordings -> {"none", "sniffing", "done", "died", "lost", "late", "gone"}]
  <2>1. state \in Recordings /\ packets[state] \in 0..MaxPackets
    BY <1>5 DEF EndRecording, IsRunning
  <2>2. /\ UNCHANGED <<starts, starting, state, second, packets, disk>>
        /\ held' = Nothing /\ watchdog' = Nothing
    BY <1>5 DEF EndRecording
  <2>3. PICK clean \in BOOLEAN, kept \in {0, packets[state]} :
          /\ StopsSniffer(clean, kept)
          /\ IF clean \/ kept > 0
             THEN /\ status' = [status EXCEPT ![state] = "stopped"]
                  /\ count' = [count EXCEPT ![state] = kept]
                  /\ save' = [save EXCEPT ![state] = "pending"]
             ELSE /\ status' = [status EXCEPT ![state] = "failed"]
                  /\ UNCHANGED <<count, save>>
    BY <1>5 DEF EndRecording
  <2>4. sniffer' \in [Recordings -> {"none", "sniffing", "done", "died", "lost", "late", "gone"}]
    <3>1. StopsSniffer(clean, kept)
      BY <2>3, Zenon
    <3>2. \/ sniffer' = [sniffer EXCEPT ![state] = "gone"]
          \/ sniffer' = [sniffer EXCEPT ![state] = "late"]
      BY <3>1, Zenon DEF StopsSniffer, Drops
    <3> QED BY <2>1, <3>2
  <2>5. kept \in 0..MaxPackets
    <3>1. kept = 0 \/ kept = packets[state]
      BY <2>3, Zenon
    <3>2. 0 \in 0..MaxPackets
      BY LiveAssumption
    <3> QED BY <2>1, <3>1, <3>2
  <2>6. CASE clean \/ kept > 0
    <3>1. /\ status' = [status EXCEPT ![state] = "stopped"]
          /\ count' = [count EXCEPT ![state] = kept]
          /\ save' = [save EXCEPT ![state] = "pending"]
      BY <2>3, <2>6
    <3> QED BY <2>1, <2>2, <2>4, <2>5, <3>1
  <2>7. CASE ~(clean \/ kept > 0)
    <3>1. /\ status' = [status EXCEPT ![state] = "failed"]
          /\ UNCHANGED <<count, save>>
      BY <2>3, <2>7
    <3> QED BY <2>2, <2>4, <3>1
  <2> QED BY <2>6, <2>7
<1>6. CASE Stop
  BY <1>4, <1>5, <1>6 DEF Stop
<1>7. CASE StatusFindsDead
  BY <1>4, <1>7 DEF StatusFindsDead, Drops, IsRunning
<1>8. ASSUME NEW r \in Recordings,
             \/ Record(r) \/ SnifferEnds(r)
             \/ TimerFires(r) \/ AutoStop(r) \/ AutoStopTooLate(r)
             \/ Persist(r)
      PROVE  LiveTypeOK'
  <2>1. CASE Record(r)
    BY <2>1 DEF Record, managerVars
  <2>2. CASE SnifferEnds(r)
    BY <2>2 DEF SnifferEnds, managerVars
  <2>3. CASE TimerFires(r)
    BY <2>3 DEF TimerFires, managerVars
  <2>4. CASE AutoStop(r)
    BY <1>4, <1>5, <2>4, SMTT(30) DEF AutoStop
  <2>5. CASE AutoStopTooLate(r)
    BY <2>5 DEF AutoStopTooLate, managerVars
  <2>6. CASE Persist(r)
    BY <2>6 DEF Persist, managerVars
  <2> QED BY <1>8, <2>1, <2>2, <2>3, <2>4, <2>5, <2>6
<1>9. CASE UNCHANGED liveVars
  BY <1>9 DEF liveVars, managerVars
<1> QED BY <1>1, <1>2, <1>3, <1>6, <1>7, <1>8, <1>9 DEF LiveNext
-----------------------------------------------------------------------------
(* What ending a recording does to the rest of the manager's state.  The     *)
(* count is that of the sniffer's packets, unless the join timed out.        *)
LEMMA EndEffect ==
  ASSUME LiveTypeOK, EndRecording
  PROVE  /\ state \in Recordings /\ status[state] = "running"
         /\ held # Nothing /\ held' = Nothing
         /\ UNCHANGED <<starts, starting, state, second, packets, disk>>
         /\ status'[state] \in {"stopped", "failed"}
         /\ status'[state] = "stopped" /\ sniffer'[state] # "late"
              => count'[state] = packets[state]
         /\ save'[state] \in {save[state], "pending"}
         /\ \A r \in Recordings : r # state =>
              status'[r] = status[r] /\ save'[r] = save[r] /\ count'[r] = count[r]
<1>1. /\ state \in Recordings /\ status[state] = "running"
      /\ held # Nothing /\ held' = Nothing
      /\ UNCHANGED <<starts, starting, state, second, packets, disk>>
  BY LiveAssumption DEF LiveTypeOK, EndRecording, IsRunning
<1>2. PICK clean \in BOOLEAN, kept \in {0, packets[state]} :
        /\ StopsSniffer(clean, kept)
        /\ IF clean \/ kept > 0
           THEN /\ status' = [status EXCEPT ![state] = "stopped"]
                /\ count' = [count EXCEPT ![state] = kept]
                /\ save' = [save EXCEPT ![state] = "pending"]
           ELSE /\ status' = [status EXCEPT ![state] = "failed"]
                /\ UNCHANGED <<count, save>>
  BY DEF EndRecording
<1>3. kept = packets[state] \/ sniffer'[state] = "late" \/ ~(clean \/ kept > 0)
  BY <1>1, <1>2 DEF StopsSniffer, Drops, LiveTypeOK
<1>4. CASE clean \/ kept > 0
  BY <1>1, <1>2, <1>3, <1>4 DEF LiveTypeOK
<1>5. CASE ~(clean \/ kept > 0)
  BY <1>1, <1>2, <1>5 DEF LiveTypeOK
<1> QED BY <1>4, <1>5

(* Ending the recording that is on keeps every part of the invariant.        *)
LEMMA EndKeeps ==
  ASSUME LiveInd, EndRecording
  PROVE  (LockedIdle /\ Fresh /\ SavedBegan /\ HeldIsOn /\ Controlled /\ RecordingsKept)'
<1>1. LiveTypeOK
  BY DEF LiveInd
<1>2. \A r \in Recordings : status'[r] # "running"
  <2> SUFFICES ASSUME NEW r \in Recordings PROVE status'[r] # "running"
    OBVIOUS
  <2>1. CASE r = state
    BY <1>1, <2>1, EndEffect
  <2>2. CASE r # state
    BY <1>1, <2>2, EndEffect DEF LiveInd, Controlled
  <2> QED BY <2>1, <2>2
<1>3. LockedIdle' /\ Controlled' /\ HeldIsOn'
  BY <1>1, <1>2, EndEffect DEF LockedIdle, Controlled, HeldIsOn
<1>4. Fresh'
  BY <1>1, EndEffect DEF LiveInd, Fresh
<1>5. SavedBegan'
  BY <1>1, EndEffect DEF LiveInd, SavedBegan, Began
<1>6. RecordingsKept'
  <2>1. \A r \in Recordings :
          /\ Began(r)' <=> Began(r)
          /\ save'[r] = "registered" => save[r] = "registered"
    BY <1>1, EndEffect DEF Began
  <2> QED BY <1>1, <2>1, EndEffect DEF LiveInd, RecordingsKept
<1> QED BY <1>3, <1>4, <1>5, <1>6
-----------------------------------------------------------------------------
LEMMA LiveInitKeeps == LiveInit => LiveInd
  BY LiveAssumption
  DEF LiveInit, LiveInd, LiveTypeOK, LockedIdle, Fresh, SavedBegan, HeldIsOn, Controlled,
      RecordingsKept, Began, Recordings, Nothing, Seconds

(* Every step keeps the invariant.                                           *)
LEMMA LiveStep == LiveInd /\ [LiveNext]_liveVars => LiveInd'
<1> SUFFICES ASSUME LiveInd, [LiveNext]_liveVars
             PROVE  LiveInd'
  OBVIOUS
<1>0. LiveTypeOK /\ LiveTypeOK'
  BY LiveTypeStep DEF LiveInd
<1> DEFINE Rest == LockedIdle /\ Fresh /\ SavedBegan /\ HeldIsOn /\ Controlled
                     /\ RecordingsKept
<1>a. Rest
  BY DEF LiveInd
<1> SUFFICES Rest'
  BY <1>0 DEF LiveInd
<1>1. CASE BeginStart
  <2>1. \A r \in Recordings : status[r] # "running"
    BY <1>1, <1>a DEF BeginStart, Controlled, IsRunning, Recordings, Nothing
  <2> QED
    BY <1>0, <1>1, <1>a, <2>1, LiveAssumption
    DEF BeginStart, LiveTypeOK, LockedIdle, Fresh, SavedBegan, HeldIsOn, Controlled,
        RecordingsKept, Began, Recordings, Nothing
<1>2. CASE StartSucceeds
  <2>1. /\ starting \in Recordings /\ status[starting] = "none"
        /\ save[starting] = "none"
    BY <1>0, <1>2, <1>a DEF StartSucceeds, LiveTypeOK, Fresh, SavedBegan, Began
  <2>2. PICK t \in StartSeconds : second' = [second EXCEPT ![starting] = t]
    BY <1>2 DEF StartSucceeds
  <2>3. /\ status'[starting] = "running" /\ timer'[starting] \in {"unstarted", "armed"}
        /\ \A r \in Recordings : r # starting =>
             /\ status'[r] = status[r] /\ second'[r] = second[r]
             /\ status[r] # "running"
        /\ state' = starting /\ held' = starting /\ watchdog' = starting
        /\ starting' = Nothing
        /\ starts' = starts /\ save' = save /\ disk' = disk
    BY <1>0, <1>2, <1>a, <2>1, <2>2 DEF StartSucceeds, LiveTypeOK, LockedIdle
  <2>4. (LockedIdle /\ SavedBegan /\ HeldIsOn /\ Controlled)'
    BY <1>a, <2>1, <2>3 DEF LockedIdle, SavedBegan, HeldIsOn, Controlled, Began
  <2>5. Fresh'
    BY <1>0, <1>a, <2>1, <2>3, LiveAssumption
    DEF Fresh, LiveTypeOK, Recordings, Nothing
  <2>6. RecordingsKept'
    <3>1. \A r \in Recordings : Began(r) => Began(r)'
      BY <2>3 DEF Began
    <3> SUFFICES ASSUME NEW r \in Recordings, save[r] = "registered",
                        \A q \in Recordings \ {r} : Began(q)' => second'[q] # second'[r]
                 PROVE  disk[second'[r]] = r
      BY <2>3 DEF RecordingsKept
    <3>2. r # starting
      BY <2>1
    <3>3. \A q \in Recordings \ {r} : Began(q) => second[q] # second[r]
      BY <2>1, <2>3, <3>1, <3>2 DEF Began
    <3> QED BY <1>a, <2>3, <3>2, <3>3 DEF RecordingsKept
  <2> QED BY <2>4, <2>5, <2>6
<1>3. CASE StartFails
  BY <1>0, <1>3, <1>a, LiveAssumption
  DEF StartFails, LiveTypeOK, LockedIdle, Fresh, SavedBegan, HeldIsOn, Controlled,
      RecordingsKept, Began, Recordings, Nothing
<1>4. CASE Stop
  BY <1>4, EndKeeps DEF Stop
<1>5. CASE StatusFindsDead
  <2>1. /\ state \in Recordings /\ status'[state] = "failed" /\ status[state] = "running"
        /\ \A r \in Recordings : r # state => status'[r] = status[r]
        /\ held' = Nothing
        /\ UNCHANGED <<starts, starting, state, second, save, disk>>
    BY <1>0, <1>5 DEF StatusFindsDead, IsRunning, LiveTypeOK, Recordings, Nothing
  <2>2. \A r \in Recordings : status'[r] # "running" /\ (Began(r)' <=> Began(r))
    BY <1>a, <2>1 DEF Controlled, Began
  <2> QED
    BY <1>a, <2>1, <2>2
    DEF LockedIdle, Fresh, SavedBegan, HeldIsOn, Controlled, RecordingsKept, Began
<1>6. ASSUME NEW r \in Recordings,
             \/ Record(r) \/ SnifferEnds(r)
             \/ TimerFires(r) \/ AutoStop(r) \/ AutoStopTooLate(r)
             \/ Persist(r)
      PROVE  Rest'
  <2>1. CASE Record(r)
    BY <1>a, <2>1
    DEF Record, managerVars, LockedIdle, Fresh, SavedBegan, HeldIsOn, Controlled,
        RecordingsKept, Began
  <2>2. CASE SnifferEnds(r)
    BY <1>a, <2>2
    DEF SnifferEnds, managerVars, LockedIdle, Fresh, SavedBegan, HeldIsOn, Controlled,
        RecordingsKept, Began
  <2>3. CASE TimerFires(r)
    BY <1>0, <1>a, <2>3
    DEF TimerFires, managerVars, LiveTypeOK, LockedIdle, Fresh, SavedBegan, HeldIsOn,
        Controlled, RecordingsKept, Began
  <2>4. CASE AutoStop(r)
    BY <2>4, EndKeeps DEF AutoStop
  <2>5. CASE AutoStopTooLate(r)
    <3>1. status[r] # "running"
      BY <1>a, <2>5 DEF AutoStopTooLate, Controlled, IsRunning, Recordings, Nothing
    <3> QED
      BY <1>0, <1>a, <2>5, <3>1
      DEF AutoStopTooLate, managerVars, LiveTypeOK, LockedIdle, Fresh, SavedBegan, HeldIsOn,
          Controlled, RecordingsKept, Began
  <2>6. CASE Persist(r)
    <3>1. /\ save[r] = "pending" /\ save'[r] \in {"registered", "failed"}
          /\ save'[r] = "registered" => disk'[second[r]] = r
          /\ \A q \in Recordings : q # r => save'[q] = save[q]
          /\ \A t \in Seconds : t # second[r] => disk'[t] = disk[t]
      BY <1>0, <2>6 DEF Persist, LiveTypeOK
    <3>2. Began(r) /\ UNCHANGED <<starts, managerVars, timer>>
      BY <1>a, <2>6 DEF SavedBegan, Persist
    <3>3. (LockedIdle /\ Fresh /\ HeldIsOn /\ Controlled)'
      BY <1>a, <3>2 DEF LockedIdle, Fresh, HeldIsOn, Controlled, managerVars
    <3>4. SavedBegan'
      BY <1>a, <3>1, <3>2 DEF SavedBegan, Began, managerVars
    <3>5. RecordingsKept'
      <4> SUFFICES ASSUME NEW p \in Recordings, save'[p] = "registered",
                          \A q \in Recordings \ {p} : Began(q) => second[q] # second[p]
                   PROVE  disk'[second[p]] = p
        BY <3>2 DEF RecordingsKept, Began, managerVars
      <4>1. CASE p = r
        BY <3>1, <4>1
      <4>2. CASE p # r
        BY <1>0, <1>a, <3>1, <3>2, <4>2 DEF RecordingsKept, LiveTypeOK
      <4> QED BY <4>1, <4>2
    <3> QED BY <3>3, <3>4, <3>5
  <2> QED BY <1>6, <2>1, <2>2, <2>3, <2>4, <2>5, <2>6
<1>7. CASE UNCHANGED liveVars
  BY <1>a, <1>7
  DEF liveVars, managerVars, LockedIdle, Fresh, SavedBegan, HeldIsOn, Controlled,
      RecordingsKept, Began
<1> QED BY <1>1, <1>2, <1>3, <1>4, <1>5, <1>6, <1>7 DEF LiveNext

(* The strengthened invariant holds throughout.                              *)
THEOREM LiveInvariant == LiveSpec => []LiveInd
  BY LiveInitKeeps, LiveStep, PTL DEF LiveSpec

(* Every state of the manager is well-typed.                                 *)
THEOREM LiveTyped == LiveSpec => []LiveTypeOK
<1>1. LiveInd => LiveTypeOK
  BY DEF LiveInd
<1> QED BY <1>1, LiveInvariant, PTL

(* A recording that is on always has its sniffer held and its watchdog set:  *)
(* neither stop() nor the time cap can miss it, unless the watchdog's thread *)
(* could not be started.                                                     *)
THEOREM AlwaysControlled == LiveSpec => []Controlled
<1>1. LiveInd => Controlled
  BY DEF LiveInd
<1> QED BY <1>1, LiveInvariant, PTL

(* The file of a registered recording is its own, but for another that began *)
(* in the same second.                                                       *)
THEOREM AlwaysKept == LiveSpec => []RecordingsKept
<1>1. LiveInd => RecordingsKept
  BY DEF LiveInd
<1> QED BY <1>1, LiveInvariant, PTL
-----------------------------------------------------------------------------
(* No step takes back part of the count status() reports, unless the         *)
(* recording fails or the join with its sniffer times out.                   *)
LEMMA CountStep ==
  LiveInd /\ LiveInd' /\ [LiveNext]_liveVars
    => (state' = state /\ ~HasFailed' /\ ~TimedOut' => ReportedCount' >= ReportedCount)
<1> SUFFICES ASSUME LiveInd, LiveInd', [LiveNext]_liveVars, state' = state,
                    ~HasFailed', ~TimedOut'
             PROVE  ReportedCount' >= ReportedCount
  OBVIOUS
<1>0. LiveTypeOK /\ LiveTypeOK' /\ HeldIsOn /\ HeldIsOn' /\ Fresh
  BY DEF LiveInd
<1>1. ReportedCount \in Nat
  <2>1. HasStopped => state \in Recordings /\ count[state] \in Nat
    BY <1>0, LiveAssumption DEF HasStopped, LiveTypeOK
  <2>2. held # Nothing => held \in Recordings /\ packets[held] \in Nat
    BY <1>0, LiveAssumption DEF LiveTypeOK
  <2> QED BY <2>1, <2>2 DEF ReportedCount
<1>2. CASE UNCHANGED <<state, status, count, held, packets>>
  BY <1>1, <1>2 DEF ReportedCount, HasStopped
<1>3. CASE StartSucceeds
  BY <1>0, <1>3 DEF StartSucceeds, Fresh, LiveTypeOK, HasFailed, ReportedCount, HasStopped,
                    HeldIsOn, Nothing, Recordings
<1>4. CASE EndRecording
  <2>1. HasStopped' /\ count'[state] = packets[state]
    BY <1>0, <1>4, EndEffect DEF HasStopped, HasFailed, TimedOut, Recordings, Nothing
  <2>2. ReportedCount = packets[state]
    BY <1>0, <1>4, EndEffect DEF ReportedCount, HasStopped, HeldIsOn
  <2>3. ReportedCount' = packets[state]
    BY <2>1 DEF ReportedCount
  <2> QED BY <1>1, <2>2, <2>3
<1>5. CASE StatusFindsDead
  BY <1>0, <1>5 DEF StatusFindsDead, IsRunning, HasFailed, LiveTypeOK
<1>6. ASSUME NEW r \in Recordings, Record(r)
      PROVE  ReportedCount' >= ReportedCount
  <2>1. \A q \in Recordings : packets'[q] \in Nat /\ packets[q] \in Nat
                                /\ packets'[q] >= packets[q]
    BY <1>0, <1>6, LiveAssumption DEF Record, LiveTypeOK
  <2>2. UNCHANGED <<state, status, count, held>>
    BY <1>6 DEF Record, managerVars
  <2> QED BY <1>0, <1>1, <2>1, <2>2 DEF ReportedCount, HasStopped, LiveTypeOK
<1> QED
  BY <1>2, <1>3, <1>4, <1>5, <1>6
  DEF LiveNext, BeginStart, StartFails, Stop, SnifferEnds, TimerFires, AutoStop,
      AutoStopTooLate, Persist, liveVars, managerVars

(* What status() reports of a recording that has not failed, and whose       *)
(* sniffer went within the join's five seconds, only grows.                  *)
THEOREM CountStays == LiveSpec => ReportedCountStays
<1>1. LiveInd /\ LiveInd' /\ [LiveNext]_liveVars
        => [state' = state /\ ~HasFailed' /\ ~TimedOut' => ReportedCount' >= ReportedCount]_liveVars
  BY CountStep
<1> QED BY <1>1, LiveInvariant, PTL DEF LiveSpec, ReportedCountStays
=============================================================================
