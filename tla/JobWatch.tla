------------------------------ MODULE JobWatch ------------------------------
(* How the browser learns that an analysis ended: the event stream of          *)
(* app/api/jobs.py, EventSource handling in frontend api/client.ts and the     *)
(* module-level watcher of components/toasts.ts, which keeps one stream.  Jobs *)
(* are worked on, and deleted with their capture, by others meanwhile.         *)
EXTENDS Naturals, Sequences, FiniteSets

CONSTANTS
    JwJobs,     \* jobs, in the order they are created
    JwMaxPolls  \* bound: snapshots sent but not yet received

ASSUME JwAssumption == JwMaxPolls \in Nat \ {0} /\ "none" \notin JwJobs

VARIABLES
    jwJob,      \* table analysis_jobs: the status of each job, or "absent"
    jwStarted,  \* jobs whose watch has begun
    jwStream,   \* the current EventSource: its job, server side and channel
    jwToasted,  \* toastedJobs, with what was said
    jwLost      \* history: jobs whose stream was replaced, or lost its connection
jwVars == <<jwJob, jwStarted, jwStream, jwToasted, jwLost>>

JwTerminal == {"completed", "failed"}
JwClosed == [job |-> "none", server |-> "closed", channel |-> <<>>]

JwInit ==
    /\ jwJob = [j \in JwJobs |-> "queued"]
    /\ jwStarted = {}
    /\ jwStream = JwClosed
    /\ jwToasted = {}
    /\ jwLost = {}

-----------------------------------------------------------------------------
(* The analysis, and the deletion of its capture once it has ended (external   *)
(* here; module CaptureLifecycle shows that a started job ends and stays so).  *)
JwWork(j) ==
    /\ \E s \in JwTerminal \cup {"running", "absent"} :
          /\ CASE s = "running" -> jwJob[j] = "queued"
               [] s = "absent"  -> jwJob[j] \in JwTerminal
               [] OTHER         -> jwJob[j] \in {"queued", "running"}
          /\ jwJob' = [jwJob EXCEPT ![j] = s]
    /\ UNCHANGED <<jwStarted, jwStream, jwToasted, jwLost>>

(* watchJobForToast, called once for each job its page starts: the previous    *)
(* stream is closed.                                                           *)
JwWatch(j) ==
    /\ j \notin jwStarted
    /\ jwStarted' = jwStarted \cup {j}
    /\ jwLost' = jwLost \cup ({jwStream.job} \cap JwJobs)
    /\ jwStream' = [job |-> j, server |-> "poll", channel |-> <<>>]
    /\ UNCHANGED <<jwJob, jwToasted>>

(* One round of the generator: a fresh session reads the row; a missing row is *)
(* an error event and the end, a terminal snapshot is sent and is the end.     *)
JwEvent == jwJob[jwStream.job]
JwPoll ==
    /\ jwStream.server = "poll"
    /\ Len(jwStream.channel) < JwMaxPolls
    /\ jwStream' = [jwStream EXCEPT
            !.channel = Append(@, JwEvent),
            !.server = IF JwEvent \in JwTerminal \cup {"absent"} THEN "ended" ELSE "poll"]
    /\ UNCHANGED <<jwJob, jwStarted, jwToasted, jwLost>>

(* Fault: one flag for all jobs says that a toast was shown.                   *)
JwReceiveOnce ==
    /\ jwStream.channel # <<>>
    /\ LET event == Head(jwStream.channel)
           last == event \in JwTerminal \cup {"absent"}
       IN  /\ jwStream' = IF last THEN JwClosed ELSE [jwStream EXCEPT !.channel = Tail(@)]
           /\ jwToasted' = IF event \in JwTerminal /\ jwToasted = {}
                           THEN {[job |-> jwStream.job, said |-> event]} ELSE jwToasted
    /\ UNCHANGED <<jwJob, jwStarted, jwLost>>

(* onmessage: the watcher toasts a terminal snapshot of a job not toasted yet, *)
(* and the stream closes; an error event closes it too.                        *)
JwReceive ==
    /\ jwStream.channel # <<>>
    /\ LET event == Head(jwStream.channel)
           last == event \in JwTerminal \cup {"absent"}
       IN  /\ jwStream' = IF last THEN JwClosed ELSE [jwStream EXCEPT !.channel = Tail(@)]
           /\ jwToasted' = IF /\ event \in JwTerminal
                              /\ \A t \in jwToasted : t.job # jwStream.job
                           THEN jwToasted \cup {[job |-> jwStream.job, said |-> event]}
                           ELSE jwToasted
    /\ UNCHANGED <<jwJob, jwStarted, jwLost>>

(* The connection breaks: onerror closes the EventSource for good.             *)
JwBreak ==
    /\ jwStream # JwClosed
    /\ jwLost' = jwLost \cup {jwStream.job}
    /\ jwStream' = JwClosed
    /\ UNCHANGED <<jwJob, jwStarted, jwToasted>>

JwNext ==
    \/ \E j \in JwJobs : JwWork(j) \/ JwWatch(j)
    \/ JwPoll \/ JwReceive \/ JwBreak

JwSpec == JwInit /\ [][JwNext]_jwVars

-----------------------------------------------------------------------------
JwTypeOK ==
    /\ jwJob \in [JwJobs -> {"queued", "running", "completed", "failed", "absent"}]
    /\ jwStarted \subseteq JwJobs /\ jwLost \subseteq jwStarted
    /\ jwStream \in [job : JwJobs \cup {"none"}, server : {"poll", "ended", "closed"},
                     channel : Seq({"queued", "running", "completed", "failed", "absent"})]
    /\ jwToasted \subseteq [job : JwJobs, said : JwTerminal]

(* The user hears of every job whose watch was neither replaced nor cut off:   *)
(* when its stream is over it has been announced, unless its row was deleted   *)
(* first; and each job is announced once, with the status it ended in.         *)
JwNoSilentEnd ==
    /\ \A j \in jwStarted \ jwLost :
          \/ jwStream.job = j
          \/ jwJob[j] = "absent"
          \/ \E t \in jwToasted : t.job = j
    /\ \A t \in jwToasted :
          /\ jwJob[t.job] \in {t.said, "absent"}
          /\ \A u \in jwToasted : u.job = t.job => u = t
=============================================================================
