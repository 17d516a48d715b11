---------------------- MODULE CaptureLifecycle_proofs ----------------------
(***************************************************************************)
(* Proofs about CaptureLifecycle, for any number of captures, jobs,        *)
(* handlers and restarts, any pipeline of commits, with or without         *)
(* contention.                                                             *)
(***************************************************************************)
EXTENDS CaptureLifecycle, TLAPS

CaptureStatus == {"absent", "deleted"} \cup Active \cup Claimable
JobStatus     == {"absent", "queued", "running", "deleted"} \cup Terminal
-----------------------------------------------------------------------------
(* What the building blocks of the actions do, entry by entry.               *)

(* A handler that answers is left with no locals.                            *)
LEMMA IdleHandler ==
  /\ Idle \in Handler
  /\ Idle.pc = "idle" /\ Idle.cap = NoCapture /\ Idle.job = NoJob
BY DEF Idle, Handler, ClientPoints

(* Moving changes a handler's control point and nothing else.                *)
LEMMA MoveEffect ==
  ASSUME client \in [Clients -> Handler],
         NEW cl \in Clients, NEW pc \in ClientPoints, Move(cl, pc)
  PROVE  /\ client' \in [Clients -> Handler]
         /\ client'[cl].pc = pc
         /\ client'[cl].cap = client[cl].cap
         /\ client'[cl].job = client[cl].job
         /\ \A x \in Clients : x # cl => client'[x] = client[x]
BY DEF Move, Handler

(* Answering makes a handler idle.                                           *)
LEMMA AnswerEffect ==
  ASSUME client \in [Clients -> Handler], NEW cl \in Clients, Answer(cl)
  PROVE  /\ client' \in [Clients -> Handler]
         /\ client'[cl].pc = "idle"
         /\ \A x \in Clients : x # cl => client'[x] = client[x]
BY IdleHandler DEF Answer

(* A request starts a handler on its capture.                                *)
LEMMA BeginEffect ==
  ASSUME client \in [Clients -> Handler],
         NEW cl \in Clients, NEW pc \in ClientPoints, NEW c \in Captures, Begin(cl, pc, c)
  PROVE  /\ client' \in [Clients -> Handler]
         /\ client'[cl].pc = pc
         /\ client'[cl].cap = c
         /\ \A x \in Clients : x # cl => client'[x] = client[x]
BY IdleHandler DEF Begin, Handler, Idle

(* So does the first half of a delete.                                       *)
LEMMA CheckDeleteEffect ==
  ASSUME client \in [Clients -> Handler], capture \in [Captures -> CaptureRow],
         NEW cl \in Clients, NEW c \in Captures, CheckDelete(cl, c)
  PROVE  /\ client' \in [Clients -> Handler]
         /\ client'[cl].pc = "deciding"
         /\ client'[cl].cap = c
         /\ \A x \in Clients : x # cl => client'[x] = client[x]
BY IdleHandler DEF CheckDelete, Handler, Idle, ClientPoints, CaptureRow

(* Evidence is evidence rows, of whichever capture.                          *)
LEMMA EvidenceRows ==
  ASSUME rows \subseteq Jobs \X Nat, NEW c \in Captures
  PROVE  Sources(c) \in SUBSET (Jobs \X Nat)
BY DEF Sources, RowsOf

(* A view that backfills, and a rebuild, carry the evidence they read.       *)
LEMMA CheckGraphEffect ==
  ASSUME client \in [Clients -> Handler], rows \subseteq Jobs \X Nat,
         NEW cl \in Clients, NEW c \in Captures, CheckGraph(cl, c)
  PROVE  /\ client' \in [Clients -> Handler]
         /\ client'[cl].pc = "backfilling"
         /\ client'[cl].cap = c
         /\ \A x \in Clients : x # cl => client'[x] = client[x]
<1>1. Sources(c) \in SUBSET (Jobs \X Nat)
  BY EvidenceRows
<1> QED
  BY <1>1, IdleHandler DEF CheckGraph, Handler, Idle, ClientPoints

LEMMA ReadEvidenceEffect ==
  ASSUME client \in [Clients -> Handler], NEW cl \in Clients,
         Sources(client[cl].cap) \in SUBSET (Jobs \X Nat), ReadEvidence(cl)
  PROVE  /\ client' \in [Clients -> Handler]
         /\ client'[cl].pc = "rebuilding"
         /\ client'[cl].cap = client[cl].cap
         /\ \A x \in Clients : x # cl => client'[x] = client[x]
<1>1. client[cl] \in Handler
  OBVIOUS
<1>2. [client[cl] EXCEPT !.pc = "rebuilding", !.seen = Sources(client[cl].cap)] \in Handler
  BY <1>1 DEF Handler, ClientPoints
<1>3. client' = [client EXCEPT ![cl] = [client[cl] EXCEPT !.pc = "rebuilding",
                                                          !.seen = Sources(client[cl].cap)]]
  BY <1>1 DEF ReadEvidence
<1>4. [client[cl] EXCEPT !.pc = "rebuilding", !.seen = Sources(client[cl].cap)].pc = "rebuilding"
  BY <1>1 DEF Handler
<1>5. [client[cl] EXCEPT !.pc = "rebuilding", !.seen = Sources(client[cl].cap)].cap = client[cl].cap
  BY <1>1 DEF Handler
<1> QED
  BY <1>2, <1>3, <1>4, <1>5

(* A new job row: queued, for the handler's capture, in the handler's hand.  *)
LEMMA InsertJobEffect ==
  ASSUME client \in [Clients -> Handler], job \in [Jobs -> JobRow],
         NEW cl \in Clients, NEW pc \in ClientPoints, InsertJob(cl, pc)
  PROVE  /\ client' \in [Clients -> Handler]
         /\ job' \in [Jobs -> JobRow]
         /\ client'[cl].pc = pc
         /\ client'[cl].cap = client[cl].cap
         /\ \A x \in Clients : x # cl => client'[x] = client[x]
         /\ client'[cl].job \in Jobs
         /\ Fresh(client'[cl].job)
         /\ job'[client'[cl].job].status = "queued"
         /\ job'[client'[cl].job].cap = client[cl].cap
         /\ \A j \in Jobs : j # client'[cl].job => job'[j] = job[j]
<1>1. PICK j \in Jobs :
        /\ Fresh(j)
        /\ job' = [job EXCEPT ![j] = [status |-> "queued", cap |-> client[cl].cap]]
        /\ client' = [client EXCEPT ![cl].pc = pc, ![cl].job = j]
  BY DEF InsertJob
<1>2. client[cl] \in Handler
  OBVIOUS
<1>3. [status |-> "queued", cap |-> client[cl].cap] \in JobRow
  BY <1>2 DEF Handler, JobRow, Terminal
<1>4. job' \in [Jobs -> JobRow]
  BY <1>1, <1>3
<1>5. /\ client' \in [Clients -> Handler]
      /\ client'[cl].pc = pc /\ client'[cl].cap = client[cl].cap /\ client'[cl].job = j
      /\ \A x \in Clients : x # cl => client'[x] = client[x]
  BY <1>1, <1>2 DEF Handler
<1> QED
  BY <1>1, <1>4, <1>5

(* A thread's jump changes its control point and nothing else.               *)
LEMMA GotoEffect ==
  ASSUME thread \in [Jobs -> ThreadState],
         NEW j \in Jobs, NEW pc \in ThreadPoints, Goto(j, pc)
  PROVE  /\ thread' \in [Jobs -> ThreadState]
         /\ thread'[j].pc = pc
         /\ thread'[j].mem = thread[j].mem
         /\ \A k \in Jobs : k # j => thread'[k] = thread[k]
BY DEF Goto, ThreadState

(* Doing one more commit leaves a thread where it is.                        *)
LEMMA AdvanceEffect ==
  ASSUME thread \in [Jobs -> ThreadState], NEW j \in Jobs, Advance(j)
  PROVE  /\ thread' \in [Jobs -> ThreadState]
         /\ thread'[j].pc = thread[j].pc
         /\ thread'[j].mem = thread[j].mem
         /\ \A k \in Jobs : k # j => thread'[k] = thread[k]
BY DEF Advance, ThreadState

(* A started thread is about to load its rows.                               *)
LEMMA StartThreadEffect ==
  ASSUME thread \in [Jobs -> ThreadState], NEW j \in Jobs, StartThread(j)
  PROVE  /\ thread' \in [Jobs -> ThreadState]
         /\ thread'[j].pc = "load"
         /\ \A k \in Jobs : k # j => thread'[k] = thread[k]
BY DEF StartThread, ThreadState, ThreadPoints

(* A job row's status is written, its capture stays.                         *)
LEMMA SetJobEffect ==
  ASSUME job \in [Jobs -> JobRow],
         NEW j \in Jobs, NEW status \in JobStatus, SetJob(j, status)
  PROVE  /\ job' \in [Jobs -> JobRow]
         /\ JobPresent(j)
         /\ job'[j].status = status
         /\ \A k \in Jobs : job'[k].cap = job[k].cap
         /\ \A k \in Jobs : k # j => job'[k] = job[k]
BY DEF SetJob, JobRow, JobStatus

(* A present capture row gets one of the given statuses, and the thread      *)
(* holds the same.                                                           *)
LEMMA SaveCaptureEffect ==
  ASSUME capture \in [Captures -> CaptureRow], thread \in [Jobs -> ThreadState],
         NEW j \in Jobs, job[j].cap \in Captures,
         NEW statuses \in SUBSET (Active \cup Claimable), NEW next \in ThreadState,
         SaveCapture(j, statuses, next)
  PROVE  /\ capture' \in [Captures -> CaptureRow]
         /\ thread' \in [Jobs -> ThreadState]
         /\ CapturePresent(job[j].cap)
         /\ capture'[job[j].cap].status \in statuses
         /\ \A c \in Captures : /\ capture'[c].source = capture[c].source
                                /\ capture'[c].stored = capture[c].stored
         /\ \A c \in Captures : c # job[j].cap => capture'[c] = capture[c]
         /\ thread'[j].pc = next.pc
         /\ thread'[j].mem = capture'[job[j].cap].status
         /\ \A k \in Jobs : k # j => thread'[k] = thread[k]
<1> DEFINE c == job[j].cap
<1>1. PICK now \in statuses :
        /\ capture' = [capture EXCEPT ![c].status = now]
        /\ thread' = [thread EXCEPT ![j] = [next EXCEPT !.mem = now]]
  BY DEF SaveCapture
<1>2. CapturePresent(c) /\ now \in Active \cup Claimable
  BY DEF SaveCapture
<1>3. /\ capture' \in [Captures -> CaptureRow]
      /\ capture'[c].status = now
      /\ \A d \in Captures : /\ capture'[d].source = capture[d].source
                             /\ capture'[d].stored = capture[d].stored
      /\ \A d \in Captures : d # c => capture'[d] = capture[d]
  BY <1>1, <1>2 DEF CaptureRow
<1>4. /\ [next EXCEPT !.mem = now] \in ThreadState
      /\ [next EXCEPT !.mem = now].pc = next.pc
      /\ [next EXCEPT !.mem = now].mem = now
  BY <1>2 DEF ThreadState
<1>5. /\ thread' \in [Jobs -> ThreadState]
      /\ thread'[j] = [next EXCEPT !.mem = now]
      /\ \A k \in Jobs : k # j => thread'[k] = thread[k]
  BY <1>1, <1>4
<1> QED
  BY <1>2, <1>3, <1>4, <1>5

(* A new capture row: created, without a path.                               *)
LEMMA CreateRowEffect ==
  ASSUME capture \in [Captures -> CaptureRow],
         NEW c \in Captures, NEW source \in {"upload", "live"}, CreateRow(c, source)
  PROVE  /\ capture' \in [Captures -> CaptureRow]
         /\ capture'[c].status = "created"
         /\ ~capture'[c].stored
         /\ capture'[c].source = source
         /\ \A d \in Captures : d # c => capture'[d] = capture[d]
BY DEF CreateRow, CaptureRow, Claimable

(* Storing the path changes nothing else.                                    *)
LEMMA StorePathEffect ==
  ASSUME capture \in [Captures -> CaptureRow], NEW c \in Captures, StorePath(c)
  PROVE  /\ capture' \in [Captures -> CaptureRow]
         /\ CapturePresent(c)
         /\ \A d \in Captures : /\ capture'[d].status = capture[d].status
                                /\ capture'[d].source = capture[d].source
         /\ \A d \in Captures : d # c => capture'[d] = capture[d]
BY DEF StorePath, CaptureRow

(* A graph is replaced by another; inserting one may leave it as it is.      *)
LEMMA SetGraphEffect ==
  ASSUME graph \in [Captures -> Graph], NEW c \in Captures, NEW g \in Graph, SetGraph(c, g)
  PROVE  graph' \in [Captures -> Graph]
BY DEF SetGraph

LEMMA GraphKinds ==
  /\ NoGraph \in Graph
  /\ \A evidence \in SUBSET (Jobs \X Nat), by \in {"analysis", "rebuild", "backfill"} :
       GraphFrom(evidence, by) \in Graph
BY DEF NoGraph, GraphFrom, Graph

LEMMA InsertGraphEffect ==
  ASSUME graph \in [Captures -> Graph], NEW c \in Captures,
         NEW evidence \in SUBSET (Jobs \X Nat),
         NEW by \in {"analysis", "rebuild", "backfill"}, InsertGraph(c, evidence, by)
  PROVE  graph' \in [Captures -> Graph]
BY SetGraphEffect, GraphKinds DEF InsertGraph

(* Deleting takes the capture's job rows and row, and touches no other.      *)
LEMMA DeleteRowsEffect ==
  ASSUME capture \in [Captures -> CaptureRow], job \in [Jobs -> JobRow],
         graph \in [Captures -> Graph], NEW c \in Captures, DeleteRows(c)
  PROVE  /\ capture' \in [Captures -> CaptureRow]
         /\ job' \in [Jobs -> JobRow]
         /\ rows' \subseteq rows
         /\ graph' \in [Captures -> Graph]
         /\ capture'[c].status = "deleted"
         /\ \A d \in Captures : capture'[d].source = capture[d].source
         /\ \A d \in Captures : d # c => capture'[d] = capture[d]
         /\ \A j \in Jobs : /\ job'[j].cap = job[j].cap
                            /\ job'[j].status = job[j].status
                                 \/ (JobPresent(j) /\ job'[j].status = "deleted")
<1>1. /\ capture' \in [Captures -> CaptureRow]
      /\ capture'[c].status = "deleted"
      /\ \A d \in Captures : capture'[d].source = capture[d].source
      /\ \A d \in Captures : d # c => capture'[d] = capture[d]
  BY DEF DeleteRows, CaptureRow
<1>2. \A j \in Jobs : job[j] \in JobRow /\ [job[j] EXCEPT !.status = "deleted"] \in JobRow
  BY DEF JobRow
<1>3. job' \in [Jobs -> JobRow]
  BY <1>2 DEF DeleteRows
<1>4. \A j \in Jobs : /\ job'[j].cap = job[j].cap
                      /\ job'[j].status = job[j].status
                           \/ (JobPresent(j) /\ job'[j].status = "deleted")
  <2> SUFFICES ASSUME NEW j \in Jobs
               PROVE  /\ job'[j].cap = job[j].cap
                      /\ job'[j].status = job[j].status
                           \/ (JobPresent(j) /\ job'[j].status = "deleted")
    OBVIOUS
  <2>1. job'[j] = IF job[j].cap = c /\ JobPresent(j)
                  THEN [job[j] EXCEPT !.status = "deleted"] ELSE job[j]
    BY DEF DeleteRows
  <2>2. job[j] \in JobRow
    OBVIOUS
  <2> QED
    BY <2>1, <2>2 DEF JobRow
<1>5. graph' \in [Captures -> Graph]
  BY SetGraphEffect, GraphKinds DEF DeleteRows
<1> QED
  BY <1>1, <1>3, <1>4, <1>5 DEF DeleteRows

(* Recovery fails what is in progress and touches no other row.              *)
LEMMA RecoverEffect ==
  ASSUME capture \in [Captures -> CaptureRow], job \in [Jobs -> JobRow], Recover
  PROVE  /\ capture' \in [Captures -> CaptureRow]
         /\ job' \in [Jobs -> JobRow]
         /\ \A c \in Captures :
              /\ capture'[c].source = capture[c].source
              /\ capture'[c].stored = capture[c].stored
              /\ capture'[c].status =
                   IF capture[c].status \in Active THEN "failed" ELSE capture[c].status
         /\ \A j \in Jobs :
              /\ job'[j].cap = job[j].cap
              /\ job'[j].status =
                   IF job[j].status \in {"queued", "running"} THEN "failed" ELSE job[j].status
<1>1. /\ capture' \in [Captures -> CaptureRow]
      /\ \A c \in Captures :
           /\ capture'[c].source = capture[c].source
           /\ capture'[c].stored = capture[c].stored
           /\ capture'[c].status =
                IF capture[c].status \in Active THEN "failed" ELSE capture[c].status
  <2> SUFFICES ASSUME NEW c \in Captures
               PROVE  /\ capture'[c] \in CaptureRow
                      /\ capture'[c].source = capture[c].source
                      /\ capture'[c].stored = capture[c].stored
                      /\ capture'[c].status =
                           IF capture[c].status \in Active THEN "failed" ELSE capture[c].status
    BY DEF Recover
  <2>1. capture'[c] = IF capture[c].status \in Active
                      THEN [capture[c] EXCEPT !.status = "failed"] ELSE capture[c]
    BY DEF Recover
  <2>2. capture[c] \in CaptureRow
    OBVIOUS
  <2> QED
    BY <2>1, <2>2 DEF CaptureRow, Claimable
<1>2. /\ job' \in [Jobs -> JobRow]
      /\ \A j \in Jobs :
           /\ job'[j].cap = job[j].cap
           /\ job'[j].status =
                IF job[j].status \in {"queued", "running"} THEN "failed" ELSE job[j].status
  <2> SUFFICES ASSUME NEW j \in Jobs
               PROVE  /\ job'[j] \in JobRow
                      /\ job'[j].cap = job[j].cap
                      /\ job'[j].status =
                           IF job[j].status \in {"queued", "running"} THEN "failed"
                           ELSE job[j].status
    BY DEF Recover
  <2>1. job'[j] = IF job[j].status \in {"queued", "running"}
                  THEN [job[j] EXCEPT !.status = "failed"] ELSE job[j]
    BY DEF Recover
  <2>2. job[j] \in JobRow
    OBVIOUS
  <2> QED
    BY <2>1, <2>2 DEF JobRow, Terminal
<1> QED
  BY <1>1, <1>2

-----------------------------------------------------------------------------
(* What a step of thread j can change: the status of its own job row, while  *)
(* that is queued or running; the status of its own capture's row, which     *)
(* stays active until the thread ends; rows; its own control.                *)
ThreadEffect(j) ==
  /\ TypeOK'
  /\ UNCHANGED <<file, client>>
  /\ ~Fresh(j) /\ job[j].cap \in Captures
  /\ \A c \in Captures : /\ capture'[c].source = capture[c].source
                         /\ capture'[c].stored = capture[c].stored
  /\ \A c \in Captures : capture'[c].status # capture[c].status =>
       /\ c = job[j].cap
       /\ CapturePresent(c) /\ CapturePresent(c)'
       /\ Uploaded(c) => capture'[c].status \in Active \/ ~Alive(j)'
  /\ \A k \in Jobs : job'[k].cap = job[k].cap
  /\ \A k \in Jobs : job'[k].status # job[k].status =>
       /\ k = j
       /\ job[k].status \in {"queued", "running"}
       /\ job'[k].status \in {"running", "completed", "failed"}
  /\ \A k \in Jobs : k # j => thread'[k] = thread[k]
  /\ Alive(j)
  /\ thread'[j].pc # "none"
  /\ InStep(j)'
  /\ \/ Loaded(j) /\ thread'[j].mem = thread[j].mem
     \/ CapturePresent(job[j].cap)' /\ thread'[j].mem = capture'[job[j].cap].status
     \/ ~Alive(j)'

(* A step that leaves every table but the evidence and the graph alone.      *)
LEMMA QuietEffect ==
  ASSUME TypeOK, JobInv, NEW j \in Jobs, Alive(j),
         UNCHANGED <<capture, job, file, client, restarts, overtaken>>,
         rows' \subseteq Jobs \X Nat, graph' \in [Captures -> Graph],
         thread' \in [Jobs -> ThreadState],
         \A k \in Jobs : k # j => thread'[k] = thread[k],
         thread'[j].pc # "none",
         InStep(j)',
         \/ Loaded(j) /\ thread'[j].mem = thread[j].mem
         \/ CapturePresent(job[j].cap) /\ thread'[j].mem = capture[job[j].cap].status
         \/ thread'[j].pc = "ended"
  PROVE  ThreadEffect(j)
BY DEF CapturePresent, ThreadEffect, TypeOK, JobInv, Alive, Fresh

(* The same when its own job row is written.                                 *)
LEMMA JobWriteEffect ==
  ASSUME TypeOK, JobInv, NEW j \in Jobs, Alive(j),
         NEW status \in {"running", "completed", "failed"}, NEW pc \in ThreadPoints,
         SetJob(j, status), Goto(j, pc),
         job[j].status \in {"queued", "running", "deleted"},
         UNCHANGED <<capture, rows, graph, file, client, restarts, overtaken>>,
         pc # "none", Loaded(j),
         InStep(j)'
  PROVE  ThreadEffect(j)
<1>1. status \in JobStatus
  BY DEF JobStatus, Terminal
<1>2. /\ job' \in [Jobs -> JobRow]
      /\ JobPresent(j)
      /\ job'[j].status = status
      /\ \A k \in Jobs : job'[k].cap = job[k].cap
      /\ \A k \in Jobs : k # j => job'[k] = job[k]
  BY <1>1, SetJobEffect DEF TypeOK
<1>3. /\ thread' \in [Jobs -> ThreadState]
      /\ thread'[j].pc = pc
      /\ thread'[j].mem = thread[j].mem
      /\ \A k \in Jobs : k # j => thread'[k] = thread[k]
  BY GotoEffect DEF TypeOK
<1> QED
  BY <1>2, <1>3 DEF ThreadEffect, TypeOK, JobInv, Alive, Fresh, JobPresent, Terminal

(* What a commit may find of an uploaded capture's status, in the row or in  *)
(* memory, is active as long as the thread lives.                            *)
LEMMA KeptActive ==
  ASSUME TypeOK, IndInv, NEW j \in Jobs, Loaded(j), CapturePresent(job[j].cap)
  PROVE  /\ Kept(j) \in SUBSET (Active \cup Claimable)
         /\ Uploaded(job[j].cap) => Kept(j) \in SUBSET Active
<1>1. job[j].cap \in Captures /\ Alive(j) /\ thread[j].mem \in Active \cup Claimable
  BY DEF IndInv, JobInv, InStep, Fresh, Loaded, Alive
<1>2. Uploaded(job[j].cap) => capture[job[j].cap].status \in Active \cup {"deleted"}
  BY <1>1 DEF IndInv, ClaimInv, Analyzes
<1>3. Uploaded(job[j].cap) => capture[job[j].cap].status \in Active
  BY <1>2 DEF CapturePresent, Active, Claimable
<1>4. Uploaded(job[j].cap) => thread[j].mem \in Active
  BY DEF IndInv, SessionInv
<1> QED
  BY <1>1, <1>3, <1>4 DEF Kept, CapturePresent

(* The same when its capture's row is written.                               *)
LEMMA CaptureWriteEffect ==
  ASSUME TypeOK, IndInv, NEW j \in Jobs, Loaded(j),
         NEW statuses \in SUBSET (Active \cup Claimable), NEW next \in ThreadState,
         SaveCapture(j, statuses, next),
         Uploaded(job[j].cap) => statuses \in SUBSET Active \/ next.pc = "ended",
         next.pc \in {"parse", "work", "ended"},
         next.pc # "ended" => job[j].status \in {"running", "deleted"},
         UNCHANGED <<job, rows, graph, file, client, restarts, overtaken>>
  PROVE  ThreadEffect(j)
<1>1. job[j].cap \in Captures /\ ~Fresh(j) /\ Alive(j)
  BY DEF IndInv, JobInv, Alive, Fresh, Loaded
<1>2. /\ capture' \in [Captures -> CaptureRow]
      /\ thread' \in [Jobs -> ThreadState]
      /\ CapturePresent(job[j].cap)
      /\ capture'[job[j].cap].status \in statuses
      /\ \A c \in Captures : /\ capture'[c].source = capture[c].source
                             /\ capture'[c].stored = capture[c].stored
      /\ \A c \in Captures : c # job[j].cap => capture'[c] = capture[c]
      /\ thread'[j].pc = next.pc
      /\ thread'[j].mem = capture'[job[j].cap].status
      /\ \A k \in Jobs : k # j => thread'[k] = thread[k]
  BY <1>1, SaveCaptureEffect DEF TypeOK
<1>3. InStep(j)'
  BY <1>2 DEF InStep
<1> QED
  BY <1>1, <1>2, <1>3 DEF ThreadEffect, TypeOK, Alive, CapturePresent

(* Every step of a thread is of one of these kinds.                          *)
LEMMA ThreadStepEffect ==
  ASSUME TypeOK, IndInv, NEW j \in Jobs, ThreadStep(j)
  PROVE  ThreadEffect(j)
<1> USE DEF TypeOK, IndInv
<1>0. /\ job[j].cap \in Captures \/ thread[j].pc = "none"
      /\ InStep(j)
      /\ thread[j] \in ThreadState
  BY DEF JobInv, Fresh
<1>a. ASSUME Goto(j, "ended"), Alive(j),
             UNCHANGED <<capture, job, rows, graph, file, client, restarts, overtaken>>
      PROVE  ThreadEffect(j)
  <2>1. /\ thread' \in [Jobs -> ThreadState]
        /\ thread'[j].pc = "ended"
        /\ \A k \in Jobs : k # j => thread'[k] = thread[k]
    BY <1>a, GotoEffect DEF ThreadPoints
  <2> QED
    BY <1>a, <2>1, QuietEffect DEF InStep, Loaded
<1>1. CASE LoadRows(j)
  <2>1. Alive(j) /\ job[j].status \in {"queued", "deleted"}
    BY <1>0, <1>1 DEF LoadRows, Running, Alive, InStep
  <2>2. /\ thread' \in [Jobs -> ThreadState]
        /\ thread'[j].pc \in {"begin_job", "ended"}
        /\ thread'[j].pc = "begin_job" => /\ CapturePresent(job[j].cap)
                                          /\ thread'[j].mem = capture[job[j].cap].status
        /\ \A k \in Jobs : k # j => thread'[k] = thread[k]
    BY <1>1 DEF LoadRows, Goto, ThreadState, ThreadPoints, CapturePresent
  <2> QED
    BY <1>1, <2>1, <2>2, QuietEffect DEF LoadRows, InStep, Loaded, CapturePresent
<1>2. CASE BeginJob(j)
  <2>1. Alive(j) /\ Loaded(j) /\ job[j].status \in {"queued", "deleted"}
    BY <1>0, <1>2 DEF BeginJob, Running, Alive, Loaded, InStep
  <2>2. CASE SetJob(j, "running") /\ Goto(j, "begin_capture") /\ UNCHANGED <<capture, rows, graph>>
    <3>1. /\ thread'[j].pc = "begin_capture" /\ job'[j].status = "running"
          /\ thread'[j].mem = thread[j].mem
      BY <2>2 DEF SetJob, Goto, ThreadState, JobRow
    <3> QED
      BY <1>0, <1>2, <2>1, <2>2, <3>1, JobWriteEffect DEF BeginJob, InStep, ThreadPoints, Loaded
  <2>3. CASE FlushFails(j, JobPresent(j))
    BY <1>2, <1>a, <2>1, <2>3 DEF BeginJob, FlushFails
  <2> QED
    BY <1>2, <2>2, <2>3 DEF BeginJob
<1>3. CASE BeginCapture(j)
  <2>1. Alive(j) /\ Loaded(j)
    BY <1>3 DEF BeginCapture, Running, Alive, Loaded
  <2>2. CASE WriteStatus(j, "analyzing", "parse") /\ UNCHANGED <<job, rows, graph>>
    <3> DEFINE statuses == IF thread[j].mem = "analyzing" THEN Kept(j) ELSE {"analyzing"}
               next == [thread[j] EXCEPT !.pc = "parse"]
    <3>1. SaveCapture(j, statuses, next) /\ CapturePresent(job[j].cap)
      BY <2>2 DEF WriteStatus, SaveCapture
    <3>2. /\ statuses \in SUBSET (Active \cup Claimable)
          /\ "analyzing" \in Active => (Uploaded(job[j].cap) => statuses \in SUBSET Active)
      BY <2>1, <3>1, KeptActive DEF Active, Claimable
    <3>3. next \in ThreadState /\ next.pc = "parse"
      BY <1>0 DEF ThreadState, ThreadPoints
    <3>4. next.pc # "ended" => job[j].status \in {"running", "deleted"}
      BY <1>0, <1>3, <3>3 DEF BeginCapture, Running, InStep
    <3> HIDE DEF statuses, next
    <3> QED
      BY <1>3, <2>1, <2>2, <3>1, <3>2, <3>3, <3>4, CaptureWriteEffect DEF BeginCapture, Active
  <2>3. CASE FlushFails(j, CapturePresent(job[j].cap))
    BY <1>3, <1>a, <2>1, <2>3 DEF BeginCapture, FlushFails
  <2> QED
    BY <1>3, <2>2, <2>3 DEF BeginCapture
<1>4. CASE Parse(j)
  <2>1. Alive(j) /\ Loaded(j) /\ job[j].status \in {"running", "deleted"}
    BY <1>0, <1>4 DEF Parse, Running, Alive, Loaded, InStep
  <2>2. CASE Goto(j, "ended") /\ UNCHANGED <<capture, job, rows, graph>>
    BY <1>4, <1>a, <2>1, <2>2 DEF Parse
  <2> DEFINE next == [thread[j] EXCEPT !.pc = "work"]
  <2>3. CASE SaveCapture(j, Kept(j), next) /\ UNCHANGED <<job, rows, graph>>
    <3>1. CapturePresent(job[j].cap)
      BY <2>3 DEF SaveCapture
    <3>2. /\ Kept(j) \in SUBSET (Active \cup Claimable)
          /\ Uploaded(job[j].cap) => Kept(j) \in SUBSET Active
      BY <2>1, <3>1, KeptActive
    <3>3. next \in ThreadState /\ next.pc = "work"
      BY <1>0, <2>1 DEF ThreadState, ThreadPoints
    <3> HIDE DEF next
    <3> QED
      BY <1>4, <2>1, <2>3, <3>2, <3>3, CaptureWriteEffect DEF Parse
  <2> QED
    BY <1>4, <2>2, <2>3 DEF Parse, FlushFails
<1>5. CASE AnalysisRaises(j)
  <2>1. Alive(j) /\ job[j].status \in {"running", "deleted"}
    BY <1>0, <1>5 DEF AnalysisRaises, Alive, InStep
  <2>2. /\ thread' \in [Jobs -> ThreadState]
        /\ thread'[j].pc = "fail_job"
        /\ thread'[j].mem = thread[j].mem
        /\ \A k \in Jobs : k # j => thread'[k] = thread[k]
    BY <1>5, GotoEffect DEF AnalysisRaises, ThreadPoints
  <2> QED
    BY <1>0, <1>5, <2>1, <2>2, QuietEffect DEF AnalysisRaises, InStep, Loaded
<1>b. ASSUME Advance(j), Running(j, "work"), UNCHANGED <<capture, job, file, client, restarts, overtaken>>,
             rows' \subseteq Jobs \X Nat, graph' \in [Captures -> Graph]
      PROVE  ThreadEffect(j)
  <2>1. /\ thread' \in [Jobs -> ThreadState]
        /\ thread'[j].pc = "work"
        /\ thread'[j].mem = thread[j].mem
        /\ \A k \in Jobs : k # j => thread'[k] = thread[k]
    BY <1>b, AdvanceEffect DEF Running
  <2> QED
    BY <1>0, <1>b, <2>1, QuietEffect DEF Running, Alive, Loaded, InStep
<1>6. CASE ReportProgress(j)
  <2>1. Alive(j)
    BY <1>6 DEF ReportProgress, NextStep, Running, Alive
  <2>2. CASE Advance(j) /\ UNCHANGED <<capture, job, rows, graph>>
    BY <1>6, <1>b, <2>2 DEF ReportProgress, NextStep
  <2>3. CASE FlushFails(j, JobPresent(j))
    BY <1>6, <1>a, <2>1, <2>3 DEF ReportProgress, FlushFails
  <2> QED
    BY <1>6, <2>2, <2>3 DEF ReportProgress
<1>7. CASE UpdateCapture(j)
  <2>1. /\ Alive(j) /\ Loaded(j) /\ job[j].status \in {"running", "deleted"}
        /\ thread[j].pc = "work"
    BY <1>0, <1>7 DEF UpdateCapture, NextStep, Running, Alive, Loaded, InStep
  <2> DEFINE next == [thread[j] EXCEPT !.pos = @ + 1]
  <2>2. CASE FlushFails(j, CapturePresent(job[j].cap))
    BY <1>7, <1>a, <2>1, <2>2 DEF UpdateCapture, FlushFails
  <2>3. CASE SaveCapture(j, Kept(j), next) /\ UNCHANGED <<job, rows, graph>>
    <3>1. CapturePresent(job[j].cap)
      BY <2>3 DEF SaveCapture
    <3>2. /\ Kept(j) \in SUBSET (Active \cup Claimable)
          /\ Uploaded(job[j].cap) => Kept(j) \in SUBSET Active
      BY <2>1, <3>1, KeptActive
    <3>3. next \in ThreadState /\ next.pc = "work"
      BY <1>0, <2>1 DEF ThreadState, ThreadPoints
    <3> HIDE DEF next
    <3> QED
      BY <1>7, <2>1, <2>3, <3>2, <3>3, CaptureWriteEffect DEF UpdateCapture
  <2> QED
    BY <1>7, <2>2, <2>3 DEF UpdateCapture
<1>8. CASE ClearTable(j)
  <2>1. Alive(j) /\ job[j].status \in {"running", "deleted"} /\ Running(j, "work")
    BY <1>0, <1>8 DEF ClearTable, NextStep, Running, Alive, InStep
  <2>2. CASE rows' \subseteq rows /\ graph' \in [Captures -> Graph] /\ Advance(j)
    BY <1>8, <1>b, <2>1, <2>2 DEF ClearTable
  <2>3. CASE Goto(j, "fail_job") /\ UNCHANGED <<rows, graph>>
    <3>1. /\ thread' \in [Jobs -> ThreadState]
          /\ thread'[j].pc = "fail_job"
          /\ thread'[j].mem = thread[j].mem
          /\ \A k \in Jobs : k # j => thread'[k] = thread[k]
      BY <2>3, GotoEffect DEF ThreadPoints
    <3> QED
      BY <1>0, <1>8, <2>1, <2>3, <3>1, QuietEffect DEF ClearTable, InStep, Loaded, Running
  <2>4. job[j].cap \in Captures
    BY <1>0, <2>1 DEF Running
  <2>5. SetGraph(job[j].cap, NoGraph) => graph' \in [Captures -> Graph]
    BY <2>4, SetGraphEffect, GraphKinds
  <2> QED
    BY <1>8, <2>2, <2>3, <2>5 DEF ClearTable
<1>9. CASE FillTable(j)
  <2>1. Alive(j) /\ Running(j, "work") /\ thread[j].pos \in Nat
    BY <1>0, <1>9 DEF FillTable, NextStep, Running, Alive, ThreadState
  <2>2. CASE /\ rows' = rows \cup {<<j, thread[j].pos + 1>>}
             /\ Advance(j) /\ UNCHANGED <<capture, job, graph>>
    BY <1>9, <1>b, <2>1, <2>2 DEF FillTable
  <2>3. CASE Goto(j, "ended") /\ UNCHANGED <<capture, job, rows, graph>>
    BY <1>9, <1>a, <2>1, <2>3 DEF FillTable
  <2> QED
    BY <1>9, <2>2, <2>3 DEF FillTable, FlushFails
<1>14. CASE FillGraph(j)
  <2>1. Alive(j) /\ Running(j, "work") /\ job[j].cap \in Captures
    BY <1>0, <1>14 DEF FillGraph, NextStep, Running, Alive
  <2>2. CASE InsertGraph(job[j].cap, Sources(job[j].cap), "analysis") /\ Advance(j)
               /\ UNCHANGED <<capture, job, rows>>
    <3>1. graph' \in [Captures -> Graph]
      BY <2>1, <2>2, EvidenceRows, InsertGraphEffect
    <3> QED
      BY <1>14, <1>b, <2>1, <2>2, <3>1 DEF FillGraph
  <2>3. CASE Goto(j, "ended") /\ UNCHANGED <<capture, job, rows, graph>>
    BY <1>14, <1>a, <2>1, <2>3 DEF FillGraph
  <2> QED
    BY <1>14, <2>2, <2>3 DEF FillGraph, FlushFails
<1>10. CASE FinishJob(j)
  <2>1. Alive(j) /\ Loaded(j) /\ job[j].status \in {"running", "deleted"}
    BY <1>0, <1>10 DEF FinishJob, Running, Alive, Loaded, InStep
  <2>2. CASE SetJob(j, "completed") /\ Goto(j, "finish_capture") /\ UNCHANGED <<capture, rows, graph>>
    <3>1. /\ thread'[j].pc = "finish_capture" /\ job'[j].status = "completed"
          /\ thread'[j].mem = thread[j].mem
      BY <2>2 DEF SetJob, Goto, ThreadState, JobRow
    <3> QED
      BY <1>0, <1>10, <2>1, <2>2, <3>1, JobWriteEffect DEF FinishJob, InStep, ThreadPoints, Loaded
  <2>3. CASE FlushFails(j, JobPresent(j))
    BY <1>10, <1>a, <2>1, <2>3 DEF FinishJob, FlushFails
  <2> QED
    BY <1>10, <2>2, <2>3 DEF FinishJob
<1>11. CASE FinishCapture(j)
  <2>1. Alive(j) /\ Loaded(j)
    BY <1>11 DEF FinishCapture, Running, Alive, Loaded
  <2>2. CASE WriteStatus(j, "completed", "ended") /\ UNCHANGED <<job, rows, graph>>
    <3> DEFINE statuses == IF thread[j].mem = "completed" THEN Kept(j) ELSE {"completed"}
               next == [thread[j] EXCEPT !.pc = "ended"]
    <3>1. SaveCapture(j, statuses, next) /\ CapturePresent(job[j].cap)
      BY <2>2 DEF WriteStatus, SaveCapture
    <3>2. /\ statuses \in SUBSET (Active \cup Claimable)
          /\ "completed" \in Active => (Uploaded(job[j].cap) => statuses \in SUBSET Active)
      BY <2>1, <3>1, KeptActive DEF Active, Claimable
    <3>3. next \in ThreadState /\ next.pc = "ended"
      BY <1>0 DEF ThreadState, ThreadPoints
    <3>4. next.pc # "ended" => job[j].status \in {"running", "deleted"}
      BY <1>0, <1>11, <3>3 DEF FinishCapture, Running, InStep
    <3> HIDE DEF statuses, next
    <3> QED
      BY <1>11, <2>1, <2>2, <3>1, <3>2, <3>3, <3>4, CaptureWriteEffect DEF FinishCapture, Active
  <2>3. CASE FlushFails(j, CapturePresent(job[j].cap))
    BY <1>11, <1>a, <2>1, <2>3 DEF FinishCapture, FlushFails
  <2> QED
    BY <1>11, <2>2, <2>3 DEF FinishCapture
<1>12. CASE FailJob(j)
  <2>1. Alive(j) /\ Loaded(j) /\ job[j].status \in {"running", "deleted"}
    BY <1>0, <1>12 DEF FailJob, Running, Alive, Loaded, InStep
  <2>2. CASE SetJob(j, "failed") /\ Goto(j, "fail_capture") /\ UNCHANGED <<capture, rows, graph>>
    <3>1. /\ thread'[j].pc = "fail_capture" /\ job'[j].status = "failed"
          /\ thread'[j].mem = thread[j].mem
      BY <2>2 DEF SetJob, Goto, ThreadState, JobRow
    <3> QED
      BY <1>0, <1>12, <2>1, <2>2, <3>1, JobWriteEffect DEF FailJob, InStep, ThreadPoints, Loaded
  <2>3. CASE FlushFails(j, JobPresent(j))
    BY <1>12, <1>a, <2>1, <2>3 DEF FailJob, FlushFails
  <2> QED
    BY <1>12, <2>2, <2>3 DEF FailJob
<1>13. CASE FailCapture(j)
  <2>1. Alive(j) /\ Loaded(j)
    BY <1>13 DEF FailCapture, Running, Alive, Loaded
  <2>2. CASE WriteStatus(j, "failed", "ended") /\ UNCHANGED <<job, rows, graph>>
    <3> DEFINE statuses == IF thread[j].mem = "failed" THEN Kept(j) ELSE {"failed"}
               next == [thread[j] EXCEPT !.pc = "ended"]
    <3>1. SaveCapture(j, statuses, next) /\ CapturePresent(job[j].cap)
      BY <2>2 DEF WriteStatus, SaveCapture
    <3>2. /\ statuses \in SUBSET (Active \cup Claimable)
          /\ "failed" \in Active => (Uploaded(job[j].cap) => statuses \in SUBSET Active)
      BY <2>1, <3>1, KeptActive DEF Active, Claimable
    <3>3. next \in ThreadState /\ next.pc = "ended"
      BY <1>0 DEF ThreadState, ThreadPoints
    <3>4. next.pc # "ended" => job[j].status \in {"running", "deleted"}
      BY <1>0, <1>13, <3>3 DEF FailCapture, Running, InStep
    <3> HIDE DEF statuses, next
    <3> QED
      BY <1>13, <2>1, <2>2, <3>1, <3>2, <3>3, <3>4, CaptureWriteEffect DEF FailCapture, Active
  <2>3. CASE FlushFails(j, CapturePresent(job[j].cap))
    BY <1>13, <1>a, <2>1, <2>3 DEF FailCapture, FlushFails
  <2> QED
    BY <1>13, <2>2, <2>3 DEF FailCapture
<1> QED
  BY <1>1, <1>2, <1>3, <1>4, <1>5, <1>6, <1>7, <1>8, <1>9, <1>10, <1>11, <1>12, <1>13,
     <1>14 DEF ThreadStep

-----------------------------------------------------------------------------
(* When a step keeps each part of the invariant.                             *)

(* Registration is kept when no row appears, none changes its source, and a  *)
(* handler that moves leaves the points where rows are created.              *)
LEMMA KeepRegistration ==
  ASSUME RegistrationInv,
         \A d \in Captures :
           /\ capture'[d].status = "absent" <=> capture[d].status = "absent"
           /\ capture'[d].source = capture[d].source
           /\ capture[d].status = "absent" => file'[d] = file[d],
         \A x \in Clients :
           \/ client'[x].pc = "idle"
           \/ client'[x] = client[x]
           \/ /\ client'[x].pc \notin Registering \cup LivePoints
              /\ client'[x].cap \in Captures
              /\ capture[client'[x].cap].status # "absent"
  PROVE  RegistrationInv'
<1>1. \A x \in Clients : client'[x].pc \in Registering \cup LivePoints \cup NewFile =>
        client'[x] = client[x]
  BY DEF Registering, NewFile, LivePoints
<1>2. \A x \in Clients : client'[x].pc # "idle" => client'[x].cap \in Captures
  BY DEF RegistrationInv
<1>3. \A c \in Captures : capture'[c].status = "absent" => capture'[c].source = "none"
  BY DEF RegistrationInv
<1>4. \A x \in Clients :
        client'[x].pc \in NewFile => /\ capture'[client'[x].cap].status = "absent"
                                     /\ file'[client'[x].cap]
  BY <1>1, <1>2 DEF RegistrationInv, NewFile
<1>5. \A x \in Clients :
        client'[x].pc \notin NewFile \cup {"idle"} =>
          capture'[client'[x].cap].status # "absent"
  BY <1>2 DEF RegistrationInv
<1>6. \A x \in Clients :
        client'[x].pc \in LivePoints => capture'[client'[x].cap].source = "live"
  BY <1>1, <1>2 DEF RegistrationInv, LivePoints
<1>7. \A x, y \in Clients :
        (client'[x].pc \in Registering /\ client'[y].pc \in Registering
           /\ client'[x].cap = client'[y].cap) => x = y
  BY <1>1 DEF RegistrationInv
<1> QED
  BY <1>2, <1>3, <1>4, <1>5, <1>6, <1>7 DEF RegistrationInv

(* The files are kept when a present row was present, with the same path and *)
(* file, and deleted rows stay deleted.                                      *)
LEMMA KeepFile ==
  ASSUME FileInv,
         \A x \in Clients : client[x].pc # "idle" => client[x].cap \in Captures,
         \A d \in Captures :
           /\ CapturePresent(d)' => /\ CapturePresent(d)
                                    /\ capture'[d].stored = capture[d].stored
                                    /\ file'[d] = file[d]
           /\ capture[d].status = "deleted" => capture'[d].status = "deleted",
         \A x \in Clients :
           \/ client'[x] = client[x]
           \/ client'[x].pc \notin {"registered", "live_registered", "unlinking"}
           \/ client'[x].pc = "unlinking" /\ capture'[client'[x].cap].status = "deleted"
  PROVE  FileInv'
<1>0. \A x \in Clients : client'[x].pc \in {"registered", "live_registered"} =>
        client'[x] = client[x] /\ client[x].cap \in Captures
  OBVIOUS
<1>1. StoredFilesExist'
  BY DEF FileInv, StoredFilesExist
<1>2. \A x \in Clients :
        (client'[x].pc \in {"registered", "live_registered"}
           /\ capture'[client'[x].cap].status \in Active \cup Claimable) =>
          file'[client'[x].cap] /\ ~capture'[client'[x].cap].stored
  BY <1>0 DEF FileInv, CapturePresent
<1>3. \A x \in Clients :
        client'[x].pc = "unlinking" => capture'[client'[x].cap].status = "deleted"
  BY DEF FileInv
<1> QED
  BY <1>1, <1>2, <1>3 DEF FileInv, CapturePresent

(* Jobs and their threads are kept when rows move only to "deleted" and no   *)
(* handler takes a job in hand.                                              *)
LEMMA KeepJob ==
  ASSUME JobInv,
         \A d \in Captures : capture[d].status # "absent" => capture'[d].status # "absent",
         \A j \in Jobs : job'[j].cap = job[j].cap
                           /\ job'[j].status \in {job[j].status, "deleted"}
                           /\ (Fresh(j)' <=> Fresh(j)),
         UNCHANGED thread,
         \A x \in Clients : \/ client'[x].pc \notin JobInHand
                            \/ /\ client[x].pc \in JobInHand
                               /\ client'[x].job = client[x].job
                               /\ client'[x].cap = client[x].cap
  PROVE  JobInv'
<1>1. \A j \in Jobs : /\ Fresh(j)' => thread'[j].pc = "none" /\ job'[j].cap = NoCapture
                      /\ ~Fresh(j)' => /\ job'[j].cap \in Captures
                                       /\ capture'[job'[j].cap].status # "absent"
  BY DEF JobInv
<1>2. \A j \in Jobs : InStep(j)'
  BY DEF JobInv, InStep, Loaded
<1>3. \A x \in Clients : client'[x].pc \in JobInHand =>
        /\ client'[x].job \in Jobs
        /\ job'[client'[x].job].status \in {"queued", "deleted"}
        /\ job'[client'[x].job].cap = client'[x].cap
        /\ thread'[client'[x].job].pc = "none"
  BY DEF JobInv
<1>4. \A x, y \in Clients :
        (client'[x].pc \in JobInHand /\ client'[y].pc \in JobInHand
           /\ client'[x].job = client'[y].job) => x = y
  BY DEF JobInv
<1> QED
  BY <1>1, <1>2, <1>3, <1>4 DEF JobInv

(* Claims are kept when nobody begins to hold one, and a status that is not  *)
(* that of a claimed capture is written only where none is held any more.    *)
LEMMA KeepClaim ==
  ASSUME ClaimInv,
         \A d \in Captures : Uploaded(d)' => Uploaded(d),
         \A d \in Captures : Uploaded(d) =>
           /\ \A x \in Clients : HoldsClaim(x, d)' => HoldsClaim(x, d)
           /\ \A j \in Jobs : Analyzes(j, d)' => Analyzes(j, d)
           /\ \/ capture'[d].status = capture[d].status
              \/ capture'[d].status \in Active \cup {"deleted"}
              \/ /\ \A x \in Clients : ~HoldsClaim(x, d)'
                 /\ \A j \in Jobs : ~Analyzes(j, d)'
  PROVE  ClaimInv'
BY DEF ClaimInv

(* What sessions hold is kept when threads stay where they are, start or end,*)
(* and no row with a job becomes an uploaded one.                            *)
LEMMA KeepSession ==
  ASSUME SessionInv, JobInv,
         \A j \in Jobs : \/ thread'[j].pc \in {"none", "load", "ended"}
                         \/ thread'[j] = thread[j] /\ job'[j].cap = job[j].cap,
         \A d \in Captures : Uploaded(d)' => Uploaded(d) \/ capture[d].status = "absent"
  PROVE  SessionInv'
<1> SUFFICES ASSUME NEW j \in Jobs, thread'[j].pc \notin {"none", "load", "ended"},
                    capture'[job'[j].cap].source = "upload"
             PROVE  thread'[j].mem \in Active
  BY DEF SessionInv, Loaded, Uploaded
<1>1. Loaded(j) /\ thread'[j] = thread[j] /\ job'[j].cap = job[j].cap
  BY DEF Loaded
<1>2. job[j].cap \in Captures /\ capture[job[j].cap].status # "absent"
  BY <1>1 DEF JobInv, Loaded, Fresh
<1>3. Uploaded(job[j].cap)
  BY <1>1, <1>2 DEF Uploaded
<1> QED
  BY <1>1, <1>3 DEF SessionInv

-----------------------------------------------------------------------------
(* Steps of handlers, one lemma each: the types and the four parts of the    *)
(* inductive invariant.                                                      *)

(* A handler returns and leaves everything but the graph alone.              *)
LEMMA AnswerOnly ==
  ASSUME TypeOK, IndInv, NEW cl \in Clients, Answer(cl),
         UNCHANGED <<capture, job, rows, file, thread, restarts, overtaken>>,
         UNCHANGED graph \/ graph' \in [Captures -> Graph]
  PROVE  TypeOK' /\ IndInv'
<1> USE DEF TypeOK, IndInv
<1>1. /\ client' \in [Clients -> Handler]
      /\ client'[cl].pc = "idle"
      /\ \A x \in Clients : x # cl => client'[x] = client[x]
  BY AnswerEffect
<1>2. RegistrationInv'
  BY <1>1 DEF RegistrationInv, NewFile, Registering, LivePoints
<1>3. FileInv'
  BY <1>1 DEF FileInv, StoredFilesExist, CapturePresent
<1>4. JobInv'
  BY <1>1 DEF JobInv, JobInHand, InStep, Loaded, Fresh
<1>5. ClaimInv'
  BY <1>1 DEF ClaimInv, Uploaded, HoldsClaim, Claiming, Analyzes, Alive
<1>6. SessionInv'
  BY KeepSession DEF Uploaded
<1> QED
  BY <1>1, <1>2, <1>3, <1>4, <1>5, <1>6

(* A handler starts on a present capture, or goes on from one point to the   *)
(* next, where neither point carries an obligation.                          *)
LEMMA PlainMove ==
  ASSUME TypeOK, IndInv, NEW cl \in Clients,
         client' \in [Clients -> Handler],
         client'[cl].pc \in {"checked", "deciding", "live_stored",
                           "backfilling", "graph_cleared", "rebuilding"},
         client'[cl].cap \in Captures, capture[client'[cl].cap].status # "absent",
         client'[cl].pc = "live_stored" => capture[client'[cl].cap].source = "live",
         \A x \in Clients : x # cl => client'[x] = client[x],
         UNCHANGED <<capture, job, rows, file, thread, restarts, overtaken>>,
         UNCHANGED graph \/ graph' \in [Captures -> Graph]
  PROVE  TypeOK' /\ IndInv'
<1> USE DEF TypeOK, IndInv
<1>1. RegistrationInv'
  BY DEF RegistrationInv, NewFile, Registering, LivePoints
<1>2. FileInv'
  BY DEF FileInv, StoredFilesExist, CapturePresent
<1>3. JobInv'
  BY DEF JobInv, JobInHand, InStep, Loaded, Fresh
<1>4. ClaimInv'
  BY DEF ClaimInv, Uploaded, HoldsClaim, Claiming, Analyzes, Alive
<1>5. SessionInv'
  BY KeepSession DEF Uploaded
<1> QED
  BY <1>1, <1>2, <1>3, <1>4, <1>5

(* A new file, uploaded or recorded.                                         *)
LEMMA NewFileStep ==
  ASSUME TypeOK, IndInv, NEW cl \in Clients, NEW c \in Captures, NEW pc \in NewFile,
         At(cl, "idle"), capture[c].status = "absent", ~file[c],
         file' = [file EXCEPT ![c] = TRUE], Begin(cl, pc, c),
         UNCHANGED <<capture, job, rows, graph, thread, restarts, overtaken>>
  PROVE  TypeOK' /\ IndInv'
<1> USE DEF TypeOK, IndInv
<1>1. /\ client' \in [Clients -> Handler]
      /\ client'[cl].pc = pc
      /\ client'[cl].cap = c
      /\ \A x \in Clients : x # cl => client'[x] = client[x]
  BY BeginEffect DEF NewFile, ClientPoints
<1>2. /\ file' \in [Captures -> BOOLEAN]
      /\ file'[c]
      /\ \A d \in Captures : d # c => file'[d] = file[d]
  OBVIOUS
<1>3. RegistrationInv'
  BY <1>1, <1>2 DEF RegistrationInv, NewFile, Registering, LivePoints
<1>4. FileInv'
  BY <1>1, <1>2 DEF FileInv, StoredFilesExist, CapturePresent, NewFile
<1>5. JobInv'
  BY <1>1 DEF JobInv, JobInHand, InStep, Loaded, Fresh, NewFile
<1>6. ClaimInv'
  BY <1>1 DEF ClaimInv, Uploaded, HoldsClaim, Claiming, Analyzes, Alive, NewFile
<1>7. SessionInv'
  BY KeepSession DEF Uploaded
<1> QED
  BY <1>1, <1>2, <1>3, <1>4, <1>5, <1>6, <1>7

(* The upload handler's error branch, before or after the row exists.        *)
LEMMA DropUploadStep ==
  ASSUME TypeOK, IndInv, NEW cl \in Clients, At(cl, "uploaded") \/ At(cl, "registered"),
         DropUpload(cl),
         UNCHANGED <<job, rows, graph, thread, restarts, overtaken>>
  PROVE  TypeOK' /\ IndInv'
<1> USE DEF TypeOK, IndInv
<1> DEFINE c == client[cl].cap
<1>1. /\ client' \in [Clients -> Handler]
      /\ client'[cl].pc = "idle"
      /\ \A x \in Clients : x # cl => client'[x] = client[x]
      /\ UNCHANGED capture
  BY AnswerEffect DEF DropUpload
<1>2. /\ c \in Captures
      /\ file' \in [Captures -> BOOLEAN]
      /\ \A d \in Captures : d # c => file'[d] = file[d]
  BY DEF DropUpload, RegistrationInv, At
<1>3. CapturePresent(c) => ~capture[c].stored
  BY <1>2 DEF At, FileInv, RegistrationInv, NewFile, CapturePresent, Active, Claimable
<1> HIDE DEF c
<1>4. RegistrationInv'
  BY <1>1, <1>2 DEF RegistrationInv, NewFile, Registering, LivePoints, At, c
<1>5. FileInv'
  BY <1>1, <1>2, <1>3
    DEF FileInv, StoredFilesExist, CapturePresent, At, c, RegistrationInv, Registering, NewFile
<1>6. JobInv'
  BY <1>1 DEF JobInv, JobInHand, InStep, Loaded, Fresh
<1>7. ClaimInv'
  BY <1>1 DEF ClaimInv, Uploaded, HoldsClaim, Claiming, Analyzes, Alive
<1>8. SessionInv'
  BY <1>1, KeepSession DEF Uploaded
<1> QED
  BY <1>1, <1>2, <1>4, <1>5, <1>6, <1>7, <1>8

(* The row of a new file.                                                    *)
LEMMA CreateRowStep ==
  ASSUME TypeOK, IndInv, NEW cl \in Clients, NEW source \in {"upload", "live"},
         NEW pc \in {"registered", "live_registered"},
         client[cl].pc \in NewFile,
         CreateRow(client[cl].cap, source), Move(cl, pc),
         pc = "live_registered" => source = "live",
         UNCHANGED <<job, rows, graph, file, thread, restarts, overtaken>>
  PROVE  TypeOK' /\ IndInv'
<1> USE DEF TypeOK, IndInv
<1> DEFINE c == client[cl].cap
<1>1. /\ client' \in [Clients -> Handler]
      /\ client'[cl].pc = pc
      /\ client'[cl].cap = c
      /\ \A x \in Clients : x # cl => client'[x] = client[x]
  BY MoveEffect DEF ClientPoints
<1>2. c \in Captures /\ capture[c].status = "absent" /\ file[c]
  BY DEF RegistrationInv, NewFile
<1>3. /\ capture' \in [Captures -> CaptureRow]
      /\ capture'[c].status = "created"
      /\ ~capture'[c].stored
      /\ capture'[c].source = source
      /\ \A d \in Captures : d # c => capture'[d] = capture[d]
  BY <1>2, CreateRowEffect
<1> HIDE DEF c
<1>4. RegistrationInv'
  BY <1>1, <1>2, <1>3, SMTT(30) DEF RegistrationInv, NewFile, Registering, LivePoints, c
<1>5. FileInv'
  BY <1>1, <1>2, <1>3
    DEF FileInv, StoredFilesExist, CapturePresent, RegistrationInv, NewFile, c
<1>6. JobInv'
  <2>1. /\ \A d \in Captures : capture[d].status # "absent" => capture'[d].status # "absent"
        /\ \A x \in Clients : client'[x].pc \in JobInHand => client'[x] = client[x]
    BY <1>1, <1>3 DEF JobInHand
  <2> QED
    BY <2>1, KeepJob DEF Fresh
<1>7. ClaimInv'
  <2>1. \A d \in Captures : d # c => /\ Uploaded(d)' <=> Uploaded(d)
                                    /\ capture'[d].status = capture[d].status
    BY <1>3 DEF Uploaded
  <2>2. \A x \in Clients, d \in Captures : HoldsClaim(x, d)' => HoldsClaim(x, d)
    BY <1>1 DEF HoldsClaim, Claiming
  <2>3. \A j \in Jobs, d \in Captures : Analyzes(j, d)' <=> Analyzes(j, d)
    BY DEF Analyzes, Alive
  <2>4. /\ \A x \in Clients : ~HoldsClaim(x, c)
        /\ \A j \in Jobs : ~Analyzes(j, c)
    BY <1>2 DEF RegistrationInv, NewFile, HoldsClaim, Claiming, JobInv, Fresh, Analyzes, Alive
  <2> QED
    BY <2>1, <2>2, <2>3, <2>4 DEF ClaimInv
<1>8. SessionInv'
  BY <1>2, <1>3, KeepSession DEF Uploaded
<1> QED
  BY <1>1, <1>3, <1>4, <1>5, <1>6, <1>7, <1>8

(* Its path.                                                                 *)
LEMMA StorePathStep ==
  ASSUME TypeOK, IndInv, NEW cl \in Clients,
         client[cl].pc \in {"registered", "live_registered"},
         StorePath(client[cl].cap),
         \/ Answer(cl)
         \/ client[cl].pc = "live_registered" /\ Move(cl, "live_stored"),
         UNCHANGED <<job, rows, graph, file, thread, restarts, overtaken>>
  PROVE  TypeOK' /\ IndInv'
<1> USE DEF TypeOK, IndInv
<1> DEFINE c == client[cl].cap
<1>1. /\ client' \in [Clients -> Handler]
      /\ \/ client'[cl].pc = "idle"
         \/ /\ client'[cl].pc = "live_stored"
            /\ client'[cl].cap = c
            /\ client[cl].pc = "live_registered"
      /\ \A x \in Clients : x # cl => client'[x] = client[x]
  BY MoveEffect, AnswerEffect DEF ClientPoints
<1>2. c \in Captures
  BY DEF RegistrationInv
<1>3. /\ capture' \in [Captures -> CaptureRow]
      /\ CapturePresent(c)
      /\ \A d \in Captures : /\ capture'[d].status = capture[d].status
                             /\ capture'[d].source = capture[d].source
      /\ \A d \in Captures : d # c => capture'[d] = capture[d]
  BY <1>2, StorePathEffect
<1> HIDE DEF c
<1>4. RegistrationInv'
  BY <1>1, <1>2, <1>3, SMTT(30) DEF RegistrationInv, NewFile, Registering, LivePoints, c
<1>5. FileInv'
  BY <1>1, <1>2, <1>3
    DEF FileInv, StoredFilesExist, CapturePresent, RegistrationInv, Registering, NewFile, c
<1>6. JobInv'
  <2>1. /\ \A d \in Captures : capture[d].status # "absent" => capture'[d].status # "absent"
        /\ \A x \in Clients : client'[x].pc \in JobInHand => client'[x] = client[x]
    BY <1>1, <1>3 DEF JobInHand
  <2> QED
    BY <2>1, KeepJob DEF Fresh
<1>7. ClaimInv'
  <2>1. \A d \in Captures : /\ Uploaded(d)' <=> Uploaded(d)
                            /\ capture'[d].status = capture[d].status
    BY <1>3 DEF Uploaded
  <2>2. \A x \in Clients, d \in Captures : HoldsClaim(x, d)' => HoldsClaim(x, d)
    BY <1>1 DEF HoldsClaim, Claiming
  <2>3. \A j \in Jobs, d \in Captures : Analyzes(j, d)' => Analyzes(j, d)
    BY DEF Analyzes, Alive
  <2> QED
    BY <2>1, <2>2, <2>3, KeepClaim
<1>8. SessionInv'
  BY <1>3, KeepSession DEF Uploaded
<1> QED
  BY <1>1, <1>3, <1>4, <1>5, <1>6, <1>7, <1>8

(* The claim: nobody can be working on the capture, its row says so.         *)
LEMMA ClaimStep ==
  ASSUME TypeOK, IndInv, NEW cl \in Clients, At(cl, "checked"),
         capture[client[cl].cap].status \in Claimable,
         capture' = [capture EXCEPT ![client[cl].cap].status = "queued"],
         Move(cl, "claimed"),
         UNCHANGED <<job, rows, graph, file, thread, restarts, overtaken>>
  PROVE  TypeOK' /\ IndInv'
<1> USE DEF TypeOK, IndInv
<1> DEFINE c == client[cl].cap
<1>1. /\ client' \in [Clients -> Handler]
      /\ client'[cl].pc = "claimed"
      /\ client'[cl].cap = c
      /\ \A x \in Clients : x # cl => client'[x] = client[x]
  BY MoveEffect DEF ClientPoints
<1>2. c \in Captures /\ CapturePresent(c) /\ capture[c].status \notin Active \cup {"deleted"}
  BY DEF RegistrationInv, At, CapturePresent, Active, Claimable
<1>3. /\ capture' \in [Captures -> CaptureRow]
      /\ capture'[c].status = "queued"
      /\ capture'[c].source = capture[c].source /\ capture'[c].stored = capture[c].stored
      /\ \A d \in Captures : d # c => capture'[d] = capture[d]
  BY <1>2 DEF CaptureRow, Active
<1> HIDE DEF c
<1>4. RegistrationInv'
  BY <1>1, <1>2, <1>3 DEF RegistrationInv, NewFile, Registering, LivePoints, At, c
<1>5. FileInv'
  BY <1>1, <1>2, <1>3, KeepFile DEF RegistrationInv, CapturePresent, Active, Claimable
<1>6. JobInv'
  BY <1>1, <1>2, <1>3 DEF JobInv, JobInHand, InStep, Loaded, Fresh
<1>7. ClaimInv'
  BY <1>1, <1>2, <1>3 DEF ClaimInv, Uploaded, HoldsClaim, Claiming, Analyzes, Alive, Active
<1>8. SessionInv'
  BY <1>3, KeepSession DEF Uploaded
<1> QED
  BY <1>1, <1>3, <1>4, <1>5, <1>6, <1>7, <1>8

(* The job row of the analysis to submit.                                    *)
LEMMA InsertJobStep ==
  ASSUME TypeOK, IndInv, NEW cl \in Clients, NEW pc \in {"submitting", "live_submitting"},
         client[cl].pc = IF pc = "submitting" THEN "claimed" ELSE "live_stored",
         InsertJob(cl, pc),
         UNCHANGED <<capture, rows, graph, file, thread, restarts, overtaken>>
  PROVE  TypeOK' /\ IndInv'
<1> USE DEF TypeOK, IndInv
<1> DEFINE c == client[cl].cap
           j == client'[cl].job
<1>1. /\ client' \in [Clients -> Handler]
      /\ job' \in [Jobs -> JobRow]
      /\ client'[cl].pc = pc
      /\ client'[cl].cap = c
      /\ \A x \in Clients : x # cl => client'[x] = client[x]
      /\ j \in Jobs
      /\ Fresh(j)
      /\ job'[j].status = "queued"
      /\ job'[j].cap = c
      /\ \A k \in Jobs : k # j => job'[k] = job[k]
  BY InsertJobEffect DEF ClientPoints
<1>2. c \in Captures /\ capture[c].status # "absent"
  BY DEF RegistrationInv, NewFile
<1>3. RegistrationInv'
  BY <1>1 DEF RegistrationInv, NewFile, Registering, LivePoints
<1>4. FileInv'
  BY <1>1 DEF FileInv, StoredFilesExist, CapturePresent
<1>5. \A x \in Clients : x # cl /\ client[x].pc \in JobInHand => client[x].job # j
  BY <1>1 DEF JobInv, Fresh
<1> HIDE DEF c, j
<1>6. JobInv'
  <2>1. \A k \in Jobs : /\ Fresh(k)' => thread'[k].pc = "none" /\ job'[k].cap = NoCapture
                        /\ ~Fresh(k)' => /\ job'[k].cap \in Captures
                                         /\ capture'[job'[k].cap].status # "absent"
                        /\ InStep(k)'
    BY <1>1, <1>2 DEF JobInv, InStep, Loaded, Fresh
  <2>2. \A x \in Clients : client'[x].pc \in JobInHand =>
          /\ client'[x].job \in Jobs
          /\ job'[client'[x].job].status \in {"queued", "deleted"}
          /\ job'[client'[x].job].cap = client'[x].cap
          /\ thread'[client'[x].job].pc = "none"
    BY <1>1, <1>5 DEF JobInv, Fresh, j
  <2>3. \A x, y \in Clients :
          (client'[x].pc \in JobInHand /\ client'[y].pc \in JobInHand
             /\ client'[x].job = client'[y].job) => x = y
    BY <1>1, <1>5 DEF JobInv, j
  <2> QED
    BY <2>1, <2>2, <2>3 DEF JobInv
<1>7. ClaimInv'
  <2>1. \A d \in Captures, k \in Jobs : Analyzes(k, d)' => Analyzes(k, d)
    BY <1>1 DEF Analyzes, Alive, JobInv, Fresh
  <2>2. \A d \in Captures : Uploaded(d) =>
          \A x \in Clients : HoldsClaim(x, d)' => HoldsClaim(x, d)
    BY <1>1 DEF HoldsClaim, Claiming, Uploaded, RegistrationInv, LivePoints, c
  <2> QED
    BY <2>1, <2>2, KeepClaim DEF Uploaded
<1>8. SessionInv'
  BY <1>1, KeepSession DEF Uploaded, JobInv, Fresh
<1> QED
  BY <1>1, <1>3, <1>4, <1>6, <1>7, <1>8

(* The thread takes over from the handler that claimed, or works on a live   *)
(* recording.                                                                *)
LEMMA StartThreadStep ==
  ASSUME TypeOK, IndInv, NEW cl \in Clients,
         client[cl].pc \in {"submitting", "live_submitting"},
         StartThread(client[cl].job), Answer(cl),
         UNCHANGED <<capture, job, rows, graph, file, restarts, overtaken>>
  PROVE  TypeOK' /\ IndInv'
<1> USE DEF TypeOK, IndInv
<1> DEFINE c == client[cl].cap
           j == client[cl].job
<1>1. /\ client' \in [Clients -> Handler]
      /\ client'[cl].pc = "idle"
      /\ \A x \in Clients : x # cl => client'[x] = client[x]
  BY AnswerEffect
<1>2. /\ j \in Jobs /\ job[j].cap = c /\ job[j].status \in {"queued", "deleted"}
      /\ \A x \in Clients : x # cl /\ client[x].pc \in JobInHand => client[x].job # j
      /\ client[cl].pc = "live_submitting" => capture[c].source = "live"
  BY DEF JobInv, JobInHand, RegistrationInv, LivePoints
<1>3. /\ thread' \in [Jobs -> ThreadState]
      /\ thread'[j].pc = "load"
      /\ \A k \in Jobs : k # j => thread'[k] = thread[k]
  BY <1>2, StartThreadEffect
<1> HIDE DEF c, j
<1>4. RegistrationInv'
  BY <1>1 DEF RegistrationInv, NewFile, Registering, LivePoints
<1>5. FileInv'
  BY <1>1 DEF FileInv, StoredFilesExist, CapturePresent
<1>6. JobInv'
  <2>1. \A k \in Jobs : InStep(k)'
    BY <1>2, <1>3 DEF JobInv, InStep, Loaded
  <2>2. \A k \in Jobs : /\ Fresh(k)' => thread'[k].pc = "none" /\ job'[k].cap = NoCapture
                        /\ ~Fresh(k)' => /\ job'[k].cap \in Captures
                                         /\ capture'[job'[k].cap].status # "absent"
    BY <1>2, <1>3 DEF JobInv, Fresh
  <2>3. \A x \in Clients : client'[x].pc \in JobInHand =>
          /\ x # cl /\ client'[x] = client[x]
          /\ client[x].job \in Jobs \ {j}
          /\ thread'[client[x].job] = thread[client[x].job]
    BY <1>1, <1>2, <1>3 DEF JobInv, JobInHand
  <2> QED
    BY <2>1, <2>2, <2>3 DEF JobInv
<1>7. ClaimInv'
  <2> SUFFICES ASSUME NEW d \in Captures, Uploaded(d)
               PROVE  /\ \A x, y \in Clients : (HoldsClaim(x, d) /\ HoldsClaim(y, d) => x = y)'
                      /\ \A x, y \in Jobs : (Analyzes(x, d) /\ Analyzes(y, d) => x = y)'
                      /\ \A x \in Clients, y \in Jobs : ~(HoldsClaim(x, d) /\ Analyzes(y, d))'
                      /\ ((\E x \in Clients : HoldsClaim(x, d)) \/ (\E x \in Jobs : Analyzes(x, d)))' =>
                           capture[d].status \in Active \cup {"deleted"}
    BY DEF ClaimInv, Uploaded
  <2>1. CASE d = c
    <3>1. HoldsClaim(cl, d)
      BY <1>2, <2>1 DEF HoldsClaim, Claiming, Uploaded, c
    <3>2. /\ \A x \in Clients : HoldsClaim(x, d) => x = cl
          /\ \A k \in Jobs : ~Analyzes(k, d)
          /\ capture[d].status \in Active \cup {"deleted"}
      BY <3>1 DEF ClaimInv
    <3> QED
      BY <1>1, <1>3, <3>2 DEF HoldsClaim, Claiming, Analyzes, Alive
  <2>2. CASE d # c
    <3>1. \A k \in Jobs : Analyzes(k, d)' <=> Analyzes(k, d)
      BY <1>2, <1>3, <2>2 DEF Analyzes, Alive
    <3>2. \A x \in Clients : HoldsClaim(x, d)' => HoldsClaim(x, d)
      BY <1>1 DEF HoldsClaim, Claiming
    <3> QED
      BY <3>1, <3>2 DEF ClaimInv
  <2> QED
    BY <2>1, <2>2
<1>8. SessionInv'
  BY <1>3, KeepSession DEF Uploaded
<1> QED
  BY <1>1, <1>3, <1>4, <1>5, <1>6, <1>7, <1>8

(* The thread could not be started; the claim is still held.                 *)
LEMMA RevertingStep ==
  ASSUME TypeOK, IndInv, NEW cl \in Clients, At(cl, "submitting"), Move(cl, "reverting"),
         UNCHANGED <<capture, job, rows, graph, file, thread, restarts, overtaken>>
  PROVE  TypeOK' /\ IndInv'
<1> USE DEF TypeOK, IndInv
<1>1. /\ client' \in [Clients -> Handler]
      /\ client'[cl].pc = "reverting"
      /\ client'[cl].cap = client[cl].cap
      /\ client'[cl].job = client[cl].job
      /\ \A x \in Clients : x # cl => client'[x] = client[x]
  BY MoveEffect DEF ClientPoints
<1>2. RegistrationInv'
  BY <1>1 DEF RegistrationInv, NewFile, Registering, LivePoints, At
<1>3. FileInv'
  BY <1>1 DEF FileInv, StoredFilesExist, CapturePresent, At
<1>4. JobInv'
  BY <1>1 DEF JobInv, JobInHand, InStep, Loaded, Fresh, At
<1>5. ClaimInv'
  BY <1>1 DEF ClaimInv, Uploaded, HoldsClaim, Claiming, Analyzes, Alive, At
<1>6. SessionInv'
  BY KeepSession DEF Uploaded
<1> QED
  BY <1>1, <1>2, <1>3, <1>4, <1>5, <1>6

(* The claim is given back by the only one who holds it.                     *)
LEMMA RevertStep ==
  ASSUME TypeOK, IndInv, NEW cl \in Clients, At(cl, "reverting"),
         CapturePresent(client[cl].cap),
         capture' = [capture EXCEPT ![client[cl].cap].status = "created"],
         Answer(cl),
         UNCHANGED <<job, rows, graph, file, thread, restarts, overtaken>>
  PROVE  TypeOK' /\ IndInv'
<1> USE DEF TypeOK, IndInv
<1> DEFINE c == client[cl].cap
<1>1. /\ client' \in [Clients -> Handler]
      /\ client'[cl].pc = "idle"
      /\ \A x \in Clients : x # cl => client'[x] = client[x]
  BY AnswerEffect
<1>2. c \in Captures /\ CapturePresent(c) /\ capture[c].status # "absent" /\ HoldsClaim(cl, c)
  BY DEF RegistrationInv, At, NewFile, HoldsClaim, Claiming
<1>3. /\ capture' \in [Captures -> CaptureRow]
      /\ capture'[c].status = "created"
      /\ capture'[c].source = capture[c].source /\ capture'[c].stored = capture[c].stored
      /\ \A d \in Captures : d # c => capture'[d] = capture[d]
  BY <1>2 DEF CaptureRow, Claimable
<1> HIDE DEF c
<1>4. RegistrationInv'
  BY <1>1, <1>2, <1>3, KeepRegistration DEF Registering, LivePoints, NewFile
<1>5. FileInv'
  BY <1>1, <1>2, <1>3, KeepFile DEF RegistrationInv, CapturePresent, Active, Claimable
<1>6. JobInv'
  BY <1>1, <1>2, <1>3 DEF JobInv, JobInHand, InStep, Loaded, Fresh
<1>7. ClaimInv'
  BY <1>1, <1>2, <1>3 DEF ClaimInv, Uploaded, HoldsClaim, Claiming, Analyzes, Alive
<1>8. SessionInv'
  BY <1>3, KeepSession DEF Uploaded
<1> QED
  BY <1>1, <1>3, <1>4, <1>5, <1>6, <1>7, <1>8

(* The delete's transaction.                                                 *)
LEMMA DeleteStep ==
  ASSUME TypeOK, IndInv, NEW cl \in Clients, At(cl, "deciding"),
         DeleteRows(client[cl].cap),
         Move(cl, "unlinking") \/ Answer(cl),
         overtaken' \subseteq Captures \X {"analysis", "graph"},
         UNCHANGED <<file, thread, restarts>>
  PROVE  TypeOK' /\ IndInv'
<1> USE DEF TypeOK, IndInv
<1> DEFINE c == client[cl].cap
<1>1. /\ client' \in [Clients -> Handler]
      /\ \/ client'[cl].pc = "idle"
         \/ client'[cl].pc = "unlinking" /\ client'[cl].cap = c
      /\ \A x \in Clients : x # cl => client'[x] = client[x]
  BY MoveEffect, AnswerEffect DEF ClientPoints
<1>2. c \in Captures /\ capture[c].status # "absent"
  BY DEF RegistrationInv, At, NewFile
<1>3. /\ capture' \in [Captures -> CaptureRow]
      /\ job' \in [Jobs -> JobRow]
      /\ rows' \subseteq rows /\ graph' \in [Captures -> Graph]
      /\ capture'[c].status = "deleted"
      /\ \A d \in Captures : capture'[d].source = capture[d].source
      /\ \A d \in Captures : d # c => capture'[d] = capture[d]
      /\ \A j \in Jobs : /\ job'[j].cap = job[j].cap
                         /\ \/ job'[j].status = job[j].status
                            \/ JobPresent(j) /\ job'[j].status = "deleted"
  BY <1>2, DeleteRowsEffect
<1> HIDE DEF c
<1>4. RegistrationInv'
  BY <1>1, <1>2, <1>3, KeepRegistration DEF Registering, LivePoints, NewFile
<1>5. FileInv'
  BY <1>1, <1>2, <1>3, KeepFile DEF RegistrationInv, CapturePresent, Active, Claimable
<1>6. JobInv'
  <2>1. \A j \in Jobs : /\ job'[j].cap = job[j].cap
                        /\ job'[j].status \in {job[j].status, "deleted"}
                        /\ (Fresh(j)' <=> Fresh(j))
    BY <1>3 DEF Fresh, JobPresent, Terminal
  <2>2. \A d \in Captures : capture[d].status # "absent" => capture'[d].status # "absent"
    BY <1>3
  <2> QED
    BY <1>1, <2>1, <2>2, KeepJob DEF JobInHand
<1>7. ClaimInv'
  <2>1. \A d \in Captures :
          /\ Uploaded(d)' <=> Uploaded(d)
          /\ capture'[d].status \in {capture[d].status, "deleted"}
    BY <1>3 DEF Uploaded
  <2>2. \A x \in Clients, d \in Captures : HoldsClaim(x, d)' => HoldsClaim(x, d)
    BY <1>1 DEF HoldsClaim, Claiming
  <2>3. \A j \in Jobs, d \in Captures : Analyzes(j, d)' => Analyzes(j, d)
    BY <1>3 DEF Analyzes, Alive
  <2> QED
    BY <2>1, <2>2, <2>3, KeepClaim
<1>8. SessionInv'
  BY <1>3, KeepSession DEF Uploaded
<1> QED
  BY <1>1, <1>3, <1>4, <1>5, <1>6, <1>7, <1>8

(* The file goes after its row.                                              *)
LEMMA UnlinkStep ==
  ASSUME TypeOK, IndInv, NEW cl \in Clients, At(cl, "unlinking"),
         file' = [file EXCEPT ![client[cl].cap] = FALSE], Answer(cl),
         UNCHANGED <<capture, job, rows, graph, thread, restarts, overtaken>>
  PROVE  TypeOK' /\ IndInv'
<1> USE DEF TypeOK, IndInv
<1> DEFINE c == client[cl].cap
<1>1. /\ client' \in [Clients -> Handler]
      /\ client'[cl].pc = "idle"
      /\ \A x \in Clients : x # cl => client'[x] = client[x]
  BY AnswerEffect
<1>2. /\ c \in Captures /\ capture[c].status = "deleted"
      /\ file' \in [Captures -> BOOLEAN]
      /\ \A d \in Captures : d # c => file'[d] = file[d]
  BY DEF RegistrationInv, FileInv, At
<1> HIDE DEF c
<1>3. RegistrationInv'
  BY <1>1, <1>2, KeepRegistration
<1>4. FileInv'
  BY <1>1, <1>2, KeepFile DEF RegistrationInv, CapturePresent, Active, Claimable
<1>5. JobInv'
  BY <1>1 DEF JobInv, JobInHand, InStep, Loaded, Fresh
<1>6. ClaimInv'
  BY <1>1 DEF ClaimInv, Uploaded, HoldsClaim, Claiming, Analyzes, Alive
<1>7. SessionInv'
  BY KeepSession DEF Uploaded
<1> QED
  BY <1>1, <1>2, <1>3, <1>4, <1>5, <1>6, <1>7

-----------------------------------------------------------------------------
(* A thread writes its capture's status only while it alone works on it.     *)
LEMMA ThreadKeeps ==
  ASSUME TypeOK, IndInv, NEW j \in Jobs, ThreadStep(j)
  PROVE  TypeOK' /\ IndInv'
<1>1. ThreadEffect(j)
  BY ThreadStepEffect
<1>2. RegistrationInv'
  BY <1>1, KeepRegistration DEF IndInv, ThreadEffect, CapturePresent, Active, Claimable
<1>3. FileInv'
  <2>1. \A d \in Captures : /\ CapturePresent(d)' => CapturePresent(d)
                            /\ capture[d].status = "deleted" => capture'[d].status = "deleted"
    BY <1>1 DEF ThreadEffect, CapturePresent, Active, Claimable
  <2> QED
    BY <1>1, <2>1, KeepFile DEF IndInv, RegistrationInv, ThreadEffect
<1>4. JobInv'
  <2>1. \A k \in Jobs : Fresh(k)' <=> Fresh(k)
    BY <1>1 DEF ThreadEffect, Fresh
  <2>2. \A d \in Captures : capture[d].status # "absent" => capture'[d].status # "absent"
    BY <1>1 DEF ThreadEffect, CapturePresent, Active, Claimable
  <2>3. \A k \in Jobs : /\ Fresh(k)' => thread'[k].pc = "none" /\ job'[k].cap = NoCapture
                        /\ ~Fresh(k)' => /\ job'[k].cap \in Captures
                                         /\ capture'[job'[k].cap].status # "absent"
    BY <1>1, <2>1, <2>2 DEF IndInv, JobInv, ThreadEffect
  <2>4. \A k \in Jobs : InStep(k)'
    BY <1>1 DEF IndInv, JobInv, ThreadEffect, InStep, Loaded
  <2>5. \A x \in Clients : client[x].pc \in JobInHand =>
          /\ client[x].job # j
          /\ job'[client[x].job].status = job[client[x].job].status
          /\ job'[client[x].job].cap = job[client[x].job].cap
          /\ thread'[client[x].job] = thread[client[x].job]
    BY <1>1 DEF IndInv, JobInv, ThreadEffect, Alive
  <2>6. UNCHANGED client
    BY <1>1 DEF ThreadEffect
  <2> QED
    BY <2>3, <2>4, <2>5, <2>6 DEF IndInv, JobInv
<1>5. ClaimInv'
  <2>1. \A d \in Captures : /\ Uploaded(d)' <=> Uploaded(d)
                            /\ \A x \in Clients : HoldsClaim(x, d)' <=> HoldsClaim(x, d)
                            /\ \A k \in Jobs : Analyzes(k, d)' => Analyzes(k, d)
    BY <1>1 DEF ThreadEffect, Uploaded, HoldsClaim, Analyzes, Alive
  <2>2. ASSUME NEW d \in Captures, Uploaded(d), capture'[d].status # capture[d].status,
               capture'[d].status \notin Active
        PROVE  /\ \A x \in Clients : ~HoldsClaim(x, d)'
               /\ \A k \in Jobs : ~Analyzes(k, d)'
    <3>1. Analyzes(j, d) /\ ~Analyzes(j, d)'
      BY <1>1, <2>2 DEF ThreadEffect, Analyzes, Uploaded
    <3>2. /\ \A x \in Clients : ~HoldsClaim(x, d)
          /\ \A k \in Jobs : Analyzes(k, d) => k = j
      BY <2>2, <3>1 DEF IndInv, ClaimInv
    <3> QED
      BY <2>1, <3>1, <3>2
  <2> QED
    BY <2>1, <2>2, KeepClaim DEF IndInv
<1>6. SessionInv'
  <2> SUFFICES ASSUME NEW k \in Jobs, Loaded(k)', Uploaded(job[k].cap)'
               PROVE  thread'[k].mem \in Active
    BY <1>1 DEF SessionInv, ThreadEffect, Loaded, Uploaded
  <2>1. CASE k # j
    <3>1. Loaded(k) /\ thread'[k] = thread[k]
      BY <1>1, <2>1 DEF ThreadEffect, Loaded
    <3>2. job[k].cap \in Captures
      BY <3>1 DEF IndInv, JobInv, Loaded, Fresh
    <3>3. Uploaded(job[k].cap)
      BY <1>1, <3>2 DEF ThreadEffect, Uploaded
    <3> QED
      BY <3>1, <3>3 DEF IndInv, SessionInv
  <2>2. CASE k = j
    <3>1. job[j].cap \in Captures /\ job'[j].cap = job[j].cap /\ Uploaded(job[j].cap)
      BY <1>1, <2>2 DEF ThreadEffect, Uploaded
    <3>2. Alive(j)' /\ Uploaded(job[j].cap)'
      BY <2>2 DEF Loaded, Alive
    <3>3. capture'[job[j].cap].status \in Active \cup {"deleted"}
      BY <1>5, <3>1, <3>2 DEF ClaimInv, Analyzes
    <3>4. CASE Loaded(j) /\ thread'[j].mem = thread[j].mem
      BY <2>2, <3>1, <3>4 DEF IndInv, SessionInv
    <3>5. CASE CapturePresent(job[j].cap)' /\ thread'[j].mem = capture'[job[j].cap].status
      BY <2>2, <3>1, <3>3, <3>5 DEF CapturePresent, Active, Claimable
    <3> QED
      BY <1>1, <3>1, <3>2, <3>4, <3>5 DEF ThreadEffect
  <2> QED
    BY <2>1, <2>2
<1> QED
  BY <1>1, <1>2, <1>3, <1>4, <1>5, <1>6 DEF IndInv, ThreadEffect

(* Recovery leaves nobody at work.                                           *)
LEMMA RestartKeeps ==
  ASSUME TypeOK, IndInv, Restart
  PROVE  TypeOK' /\ IndInv'
<1>1. /\ capture' \in [Captures -> CaptureRow]
      /\ job' \in [Jobs -> JobRow]
      /\ \A c \in Captures :
           /\ capture'[c].source = capture[c].source
           /\ capture'[c].stored = capture[c].stored
           /\ capture'[c].status =
                IF capture[c].status \in Active THEN "failed" ELSE capture[c].status
      /\ \A j \in Jobs :
           /\ job'[j].cap = job[j].cap
           /\ job'[j].status =
                IF job[j].status \in {"queued", "running"} THEN "failed" ELSE job[j].status
  BY RecoverEffect DEF TypeOK, Restart
<1>2. /\ client' \in [Clients -> Handler]
      /\ \A cl \in Clients : client'[cl].pc = "idle"
  BY IdleHandler DEF Restart
<1>3. /\ thread' \in [Jobs -> ThreadState]
      /\ \A j \in Jobs : /\ thread'[j].pc \in {"none", "ended"}
                         /\ thread[j].pc = "none" => thread'[j].pc = "none"
  <2>1. \A j \in Jobs :
          thread'[j] = IF Alive(j) THEN [thread[j] EXCEPT !.pc = "ended"] ELSE thread[j]
    BY DEF Restart
  <2>2. \A j \in Jobs : thread[j] \in ThreadState
    BY DEF TypeOK
  <2>3. \A j \in Jobs : /\ thread'[j] \in ThreadState
                        /\ thread'[j].pc \in {"none", "ended"}
                        /\ thread[j].pc = "none" => thread'[j].pc = "none"
    BY <2>1, <2>2 DEF ThreadState, ThreadPoints, Alive
  <2> QED
    BY <2>3 DEF Restart
<1>4. TypeOK'
  BY <1>1, <1>2, <1>3, ConstantsAssumption DEF TypeOK, Restart
<1>5. RegistrationInv'
  BY <1>1, <1>2, KeepRegistration DEF IndInv, Restart, Active
<1>6. FileInv'
  BY <1>1, <1>2, KeepFile
    DEF IndInv, RegistrationInv, Restart, CapturePresent, Active, Claimable
<1>7. JobInv'
  <2>1. \A j \in Jobs : InStep(j)'
    BY <1>3 DEF InStep, Loaded
  <2>2. \A j \in Jobs : Fresh(j)' <=> Fresh(j)
    BY <1>1 DEF Fresh
  <2> QED
    BY <1>1, <1>2, <1>3, <2>1, <2>2 DEF IndInv, JobInv, JobInHand, Active
<1>8. ClaimInv'
  BY <1>2, <1>3 DEF ClaimInv, HoldsClaim, Claiming, Analyzes, Alive
<1>9. SessionInv'
  BY <1>3 DEF SessionInv, Loaded
<1> QED
  BY <1>4, <1>5, <1>6, <1>7, <1>8, <1>9 DEF IndInv

(* Every step of a handler keeps the invariant.                              *)
LEMMA HandlerKeeps ==
  ASSUME TypeOK, IndInv, NEW cl \in Clients, HandlerStep(cl)
  PROVE  TypeOK' /\ IndInv'
<1>1. CASE RegisterUpload(cl)
  BY <1>1, CreateRowStep, DropUploadStep DEF RegisterUpload, At, NewFile
<1>2. CASE StoreUploadPath(cl)
  BY <1>2, StorePathStep, DropUploadStep DEF StoreUploadPath, At
<1>3. CASE Claim(cl)
  BY <1>3, ClaimStep, AnswerOnly DEF Claim
<1>4. CASE CreateJob(cl)
  BY <1>4, InsertJobStep, AnswerOnly DEF CreateJob, At
<1>5. CASE Submit(cl)
  BY <1>5, StartThreadStep, RevertingStep DEF Submit, At
<1>6. CASE Revert(cl)
  BY <1>6, RevertStep, AnswerOnly DEF Revert
<1>7. CASE RegisterLive(cl)
  BY <1>7, CreateRowStep, AnswerOnly DEF RegisterLive, At, NewFile
<1>8. CASE StoreLivePath(cl)
  <2>1. CASE StorePath(client[cl].cap) /\ Move(cl, "live_stored")
    BY <1>8, <2>1, StorePathStep DEF StoreLivePath, At
  <2>2. CASE Answer(cl) /\ UNCHANGED capture
    BY <1>8, <2>2, AnswerOnly DEF StoreLivePath
  <2> QED
    BY <1>8, <2>1, <2>2 DEF StoreLivePath
<1>9. CASE CreateLiveJob(cl)
  BY <1>9, InsertJobStep, AnswerOnly DEF CreateLiveJob, At
<1>10. CASE SubmitLive(cl)
  <2>1. CASE StartThread(client[cl].job)
    BY <1>10, <2>1, StartThreadStep DEF SubmitLive, At
  <2>2. CASE UNCHANGED thread
    BY <1>10, <2>2, AnswerOnly DEF SubmitLive
  <2> QED
    BY <1>10, <2>1, <2>2 DEF SubmitLive
<1>11. CASE Delete(cl)
  <2>1. CASE /\ DeleteRows(client[cl].cap)
             /\ overtaken' \subseteq Captures \X {"analysis", "graph"}
             /\ Move(cl, "unlinking") \/ Answer(cl)
    BY <1>11, <2>1, DeleteStep DEF Delete
  <2>2. CASE Answer(cl) /\ UNCHANGED <<capture, job, rows, graph, overtaken>>
    BY <1>11, <2>2, AnswerOnly DEF Delete
  <2>3. client[cl].cap \in Captures
    BY <1>11 DEF Delete, At, IndInv, RegistrationInv
  <2>4. overtaken \cup Overtakes(client[cl].cap) \subseteq Captures \X {"analysis", "graph"}
    BY <2>3 DEF TypeOK, Overtakes
  <2> QED
    BY <1>11, <2>1, <2>2, <2>4 DEF Delete
<1>12. CASE Unlink(cl)
  <2>1. CASE file' = [file EXCEPT ![client[cl].cap] = FALSE]
    BY <1>12, <2>1, UnlinkStep DEF Unlink
  <2>2. CASE UNCHANGED file
    BY <1>12, <2>2, AnswerOnly DEF Unlink
  <2> QED
    BY <1>12, <2>1, <2>2 DEF Unlink
<1>13. CASE BackfillGraph(cl)
  <2>1. /\ client[cl].cap \in Captures
        /\ client[cl].seen \in SUBSET (Jobs \X Nat)
    BY <1>13 DEF BackfillGraph, At, TypeOK, Handler, IndInv, RegistrationInv
  <2>2. GraphFrom(client[cl].seen, "backfill") \in Graph
    BY <2>1, GraphKinds
  <2>3. UNCHANGED graph \/ graph' \in [Captures -> Graph]
    BY <1>13, <2>1, <2>2, SetGraphEffect DEF BackfillGraph, TypeOK
  <2> QED
    BY <1>13, <2>3, AnswerOnly DEF BackfillGraph
<1>14. CASE ReadEvidence(cl)
  <2>1. client[cl].cap \in Captures /\ capture[client[cl].cap].status # "absent"
    BY <1>14 DEF ReadEvidence, At, IndInv, RegistrationInv, NewFile
  <2>2. Sources(client[cl].cap) \in SUBSET (Jobs \X Nat)
    BY <2>1, EvidenceRows DEF TypeOK
  <2>3. /\ client' \in [Clients -> Handler]
        /\ client'[cl].pc = "rebuilding" /\ client'[cl].cap = client[cl].cap
        /\ \A x \in Clients : x # cl => client'[x] = client[x]
    BY <1>14, <2>2, ReadEvidenceEffect DEF TypeOK
  <2> QED
    BY <1>14, <2>1, <2>3, PlainMove DEF ReadEvidence
<1>15. CASE RebuildGraph(cl)
  <2>1. /\ client[cl].cap \in Captures
        /\ client[cl].seen \in SUBSET (Jobs \X Nat)
    BY <1>15 DEF RebuildGraph, At, TypeOK, Handler, IndInv, RegistrationInv
  <2>2. UNCHANGED graph \/ graph' \in [Captures -> Graph]
    BY <1>15, <2>1, InsertGraphEffect DEF RebuildGraph, TypeOK
  <2> QED
    BY <1>15, <2>2, AnswerOnly DEF RebuildGraph
<1> QED
  BY <1>1, <1>2, <1>3, <1>4, <1>5, <1>6, <1>7, <1>8, <1>9, <1>10, <1>11, <1>12,
     <1>13, <1>14, <1>15 DEF HandlerStep

(* So does every request that starts one.                                    *)
LEMMA RequestKeeps ==
  ASSUME TypeOK, IndInv, NEW cl \in Clients, NEW c \in Captures, Request(cl, c)
  PROVE  TypeOK' /\ IndInv'
<1>1. CASE UploadFile(cl, c)
  BY <1>1, NewFileStep DEF UploadFile, NewFile
<1>2. CASE RecordLive(cl, c)
  BY <1>2, NewFileStep DEF RecordLive, NewFile
<1>3. CASE CheckAnalyze(cl, c)
  <2>1. /\ client' \in [Clients -> Handler]
        /\ client'[cl].pc = "checked" /\ client'[cl].cap = c
        /\ \A x \in Clients : x # cl => client'[x] = client[x]
    BY <1>3, BeginEffect DEF CheckAnalyze, TypeOK, ClientPoints
  <2> QED
    BY <1>3, <2>1, PlainMove DEF CheckAnalyze, CapturePresent, Active, Claimable
<1>4. CASE CheckDelete(cl, c)
  <2>1. /\ client' \in [Clients -> Handler]
        /\ client'[cl].pc = "deciding" /\ client'[cl].cap = c
        /\ \A x \in Clients : x # cl => client'[x] = client[x]
    BY <1>4, CheckDeleteEffect DEF TypeOK
  <2> QED
    BY <1>4, <2>1, PlainMove DEF CheckDelete, CapturePresent, Active, Claimable
<1>5. CASE CheckGraph(cl, c)
  <2>1. /\ client' \in [Clients -> Handler]
        /\ client'[cl].pc = "backfilling" /\ client'[cl].cap = c
        /\ \A x \in Clients : x # cl => client'[x] = client[x]
    BY <1>5, CheckGraphEffect DEF TypeOK
  <2> QED
    BY <1>5, <2>1, PlainMove DEF CheckGraph
<1>6. CASE ClearGraph(cl, c)
  <2>1. /\ client' \in [Clients -> Handler]
        /\ client'[cl].pc = "graph_cleared" /\ client'[cl].cap = c
        /\ \A x \in Clients : x # cl => client'[x] = client[x]
    BY <1>6, BeginEffect DEF ClearGraph, TypeOK, ClientPoints
  <2>2. graph' \in [Captures -> Graph]
    BY <1>6, SetGraphEffect, GraphKinds DEF ClearGraph, TypeOK
  <2> QED
    BY <1>6, <2>1, <2>2, PlainMove DEF ClearGraph, CapturePresent, Active, Claimable
<1> QED
  BY <1>1, <1>2, <1>3, <1>4, <1>5, <1>6 DEF Request

(* Before the first request there is nothing to say.                         *)
LEMMA InitKeeps == Init => TypeOK /\ IndInv
<1> SUFFICES ASSUME Init PROVE TypeOK /\ IndInv
  OBVIOUS
<1>1. TypeOK
  <2>1. [status |-> "absent", stored |-> FALSE, source |-> "none"] \in CaptureRow
    BY DEF CaptureRow
  <2>2. [status |-> "absent", cap |-> NoCapture] \in JobRow
    BY DEF JobRow
  <2>3. [pc |-> "none", pos |-> 0, mem |-> "none"] \in ThreadState
    BY DEF ThreadState, ThreadPoints
  <2> QED
    BY <2>1, <2>2, <2>3, IdleHandler, GraphKinds, ConstantsAssumption DEF Init, TypeOK
<1>2. RegistrationInv
  BY IdleHandler DEF Init, RegistrationInv, NewFile, Registering, LivePoints
<1>3. FileInv
  BY IdleHandler DEF Init, FileInv, StoredFilesExist, CapturePresent, Active, Claimable
<1>4. JobInv
  BY IdleHandler DEF Init, JobInv, JobInHand, InStep, Loaded, Fresh
<1>5. ClaimInv
  BY IdleHandler DEF Init, ClaimInv, HoldsClaim, Claiming, Analyzes, Alive
<1>6. SessionInv
  BY DEF Init, SessionInv, Loaded
<1> QED
  BY <1>1, <1>2, <1>3, <1>4, <1>5, <1>6 DEF IndInv

(* And every step keeps it.                                                  *)
LEMMA NextKeeps == TypeOK /\ IndInv /\ [Next]_vars => (TypeOK /\ IndInv)'
<1> SUFFICES ASSUME TypeOK, IndInv, [Next]_vars PROVE TypeOK' /\ IndInv'
  OBVIOUS
<1>1. CASE UNCHANGED vars
  <2>1. TypeOK'
    BY <1>1 DEF vars, TypeOK
  <2>2. RegistrationInv' /\ FileInv'
    BY <1>1 DEF vars, IndInv, RegistrationInv, FileInv, StoredFilesExist, CapturePresent
  <2>3. JobInv' /\ ClaimInv'
    BY <1>1 DEF vars, IndInv, JobInv, InStep, Loaded, Fresh,
                ClaimInv, Uploaded, HoldsClaim, Analyzes, Alive
  <2>4. SessionInv'
    BY <1>1 DEF vars, IndInv, SessionInv, Loaded, Uploaded
  <2> QED
    BY <2>1, <2>2, <2>3, <2>4 DEF IndInv
<1>2. CASE Next
  BY <1>2, RequestKeeps, HandlerKeeps, ThreadKeeps, RestartKeeps DEF Next
<1> QED
  BY <1>1, <1>2
-----------------------------------------------------------------------------
(* What the database holds and where each handler and thread stands is       *)
(* always of the declared kind.                                              *)
THEOREM TypeCorrect == Spec => []TypeOK
BY InitKeeps, NextKeeps, PTL DEF Spec

(* Handlers, threads, rows and files stay as IndInv relates them.            *)
THEOREM InductiveInvariant == Spec => []IndInv
BY InitKeeps, NextKeeps, PTL DEF Spec

(* claim_for_analysis keeps the analyses of an uploaded capture apart, with  *)
(* any number of handlers and threads, any failures and any restarts.        *)
THEOREM Exclusive == Spec => []AnalysesExclusive
<1>1. IndInv => AnalysesExclusive
  <2> SUFFICES ASSUME IndInv, NEW c \in Captures, Uploaded(c)
               PROVE  /\ \A h1, h2 \in Holders(c) : h1 = h2
                      /\ Holders(c) # {} => capture[c].status \in Active \cup {"deleted"}
    BY DEF AnalysesExclusive
  <2>1. \A h \in Holders(c) : \/ \E x \in Clients : h = <<"handler", x>> /\ HoldsClaim(x, c)
                              \/ \E j \in Jobs : h = <<"thread", j>> /\ Analyzes(j, c)
    BY DEF Holders, HoldsClaim, Claiming, Analyzes
  <2>2. /\ \A x, y \in Clients : HoldsClaim(x, c) /\ HoldsClaim(y, c) => x = y
        /\ \A x, y \in Jobs : Analyzes(x, c) /\ Analyzes(y, c) => x = y
        /\ \A x \in Clients, y \in Jobs : ~(HoldsClaim(x, c) /\ Analyzes(y, c))
        /\ ((\E x \in Clients : HoldsClaim(x, c)) \/ (\E x \in Jobs : Analyzes(x, c))) =>
             capture[c].status \in Active \cup {"deleted"}
    BY DEF IndInv, ClaimInv
  <2>3. \A h1, h2 \in Holders(c) : h1 = h2
    BY <2>1, <2>2
  <2>4. Holders(c) # {} => capture[c].status \in Active \cup {"deleted"}
    BY <2>1, <2>2
  <2> QED
    BY <2>3, <2>4
<1> QED
  BY <1>1, InductiveInvariant, PTL

(* The path a row stores names a file that exists, whatever fails.           *)
THEOREM FilesExist == Spec => []StoredFilesExist
<1>1. IndInv => StoredFilesExist
  BY DEF IndInv, FileInv
<1> QED
  BY <1>1, InductiveInvariant, PTL

(* A job reported completed or failed is never reported otherwise later.     *)
THEOREM TerminalStays == Spec => TerminalJobsStay
<1> DEFINE Stays == \A j \in Jobs : job[j].status \in Terminal =>
                      job'[j].status \in {job[j].status, "deleted"}
<1>1. TypeOK /\ IndInv /\ [Next]_vars => [Stays]_vars
  <2> SUFFICES ASSUME TypeOK, IndInv, Next PROVE Stays
    OBVIOUS
  <2>1. CASE UNCHANGED job
    BY <2>1
  <2>2. ASSUME NEW cl \in Clients, NEW c \in Captures, Request(cl, c) PROVE Stays
    BY <2>2, <2>1 
      DEF Request, UploadFile, RecordLive, CheckAnalyze, CheckDelete, CheckGraph, ClearGraph
  <2>3. ASSUME NEW cl \in Clients, NEW pc \in ClientPoints, InsertJob(cl, pc) PROVE Stays
    <3>1. PICK k \in Jobs :
            /\ Fresh(k)
            /\ job' = [job EXCEPT ![k] = [status |-> "queued", cap |-> client[cl].cap]]
      BY <2>3 DEF InsertJob
    <3>2. \A j \in Jobs : job[j].status \in Terminal => job'[j] = job[j]
      BY <3>1 DEF Fresh, Terminal, TypeOK
    <3> QED
      BY <3>2
  <2>4. ASSUME NEW cl \in Clients, DeleteRows(client[cl].cap), client[cl].cap \in Captures
        PROVE  Stays
    BY <2>4, DeleteRowsEffect DEF TypeOK
  <2>5. ASSUME NEW cl \in Clients, HandlerStep(cl) PROVE Stays
    <3>1. CASE CreateJob(cl) \/ CreateLiveJob(cl)
      BY <2>1, <2>3, <3>1 DEF CreateJob, CreateLiveJob, ClientPoints
    <3>2. CASE Delete(cl)
      <4>1. client[cl].cap \in Captures
        BY <3>2 DEF Delete, At, IndInv, RegistrationInv
      <4> QED
        BY <2>1, <2>4, <3>2, <4>1 DEF Delete
    <3>3. CASE ~(CreateJob(cl) \/ CreateLiveJob(cl) \/ Delete(cl))
      BY <2>1, <2>5, <3>3
        DEF HandlerStep, RegisterUpload, StoreUploadPath, Claim, Submit, Revert,
            RegisterLive, StoreLivePath, SubmitLive, Unlink,
            BackfillGraph, ReadEvidence, RebuildGraph
    <3> QED
      BY <3>1, <3>2, <3>3
  <2>6. ASSUME NEW j \in Jobs, ThreadStep(j) PROVE Stays
    BY <2>6, ThreadStepEffect DEF ThreadEffect, Terminal
  <2>7. CASE Restart
    BY <2>7, RecoverEffect DEF Restart, TypeOK, Terminal
  <2> QED
    BY <2>2, <2>5, <2>6, <2>7 DEF Next
<1> QED
  BY <1>1, TypeCorrect, InductiveInvariant, PTL DEF Spec, TerminalJobsStay
-----------------------------------------------------------------------------
(***************************************************************************)
(* Evidence.                                                               *)
(***************************************************************************)
(* A commit of the pipeline, with what it does to the evidence.              *)
Commit(j) ==
  LET c == job[j].cap
      k == thread[j].pos + 1 IN
  /\ thread[j].pc = "work" /\ thread'[j].pc = "work"
  /\ thread[j].pos < Len(Work) /\ thread'[j].pos = k
  /\ \/ Work[k].op \in {"job", "capture"} /\ UNCHANGED <<rows, graph>>
     \/ Work[k].op = "delete" /\ OnGraph(j) /\ SetGraph(c, NoGraph) /\ UNCHANGED rows
     \/ Work[k].op = "delete" /\ ~OnGraph(j)
          /\ rows' = rows \ RowsIn(c, Work[k].table) /\ UNCHANGED graph
     \/ Work[k].op = "insert" /\ ~OnGraph(j)
          /\ rows' = rows \cup {<<j, k>>} /\ UNCHANGED graph
     \/ Work[k].op = "insert" /\ OnGraph(j)
          /\ InsertGraph(c, Sources(c), "analysis") /\ UNCHANGED rows

(* Any other step of a thread leaves the evidence and its position alone.    *)
Elsewhere(j) ==
  /\ UNCHANGED <<rows, graph>>
  /\ thread'[j].pos = thread[j].pos
  /\ thread'[j].pc \in BeforeWork => thread[j].pc \in BeforeWork
  /\ AtWork(j)' => AtWork(j) \/ thread[j].pc = "parse"
  /\ thread'[j].pc = "finish_capture" => thread[j].pos = Len(Work)

LEMMA ThreadEvidence ==
  ASSUME TypeOK, IndInv, NEW j \in Jobs, ThreadStep(j)
  PROVE  (Commit(j) \/ Elsewhere(j)) /\ UNCHANGED <<overtaken, restarts>>
<1>0. thread[j] \in ThreadState /\ thread \in [Jobs -> ThreadState]
  BY DEF TypeOK
<1>a. ASSUME NEW pc \in {"ended", "fail_job", "fail_capture", "begin_capture"}, Goto(j, pc),
             UNCHANGED <<rows, graph>>, thread[j].pc \in BeforeWork \/ pc # "begin_capture"
      PROVE  Elsewhere(j)
  BY <1>0, <1>a DEF Goto, ThreadState, Elsewhere, BeforeWork, AtWork
<1>b. ASSUME NEW statuses, NEW pc \in {"parse", "work", "ended"}, 
             SaveCapture(j, statuses, [thread[j] EXCEPT !.pc = pc]),
             UNCHANGED <<rows, graph>>, pc = "parse" => thread[j].pc \in BeforeWork,
             pc = "work" => thread[j].pc = "parse"
      PROVE  Elsewhere(j)
  <2>1. PICK now : thread' = [thread EXCEPT ![j] = [[thread[j] EXCEPT !.pc = pc] EXCEPT !.mem = now]]
    BY <1>b DEF SaveCapture
  <2>2. thread'[j].pc = pc /\ thread'[j].pos = thread[j].pos
    BY <1>0, <2>1 DEF ThreadState
  <2> QED
    BY <1>b, <2>2 DEF Elsewhere, BeforeWork, AtWork
<1>c. Advance(j) => thread'[j].pos = thread[j].pos + 1 /\ thread'[j].pc = thread[j].pc
  BY <1>0 DEF Advance, ThreadState
<1>1. CASE LoadRows(j)
  <2>1. thread[j].pc = "load" /\ thread'[j].pc \in {"begin_job", "ended"}
        /\ thread'[j].pos = thread[j].pos
    BY <1>0, <1>1 DEF LoadRows, Running, Goto, ThreadState
  <2> QED
    BY <1>1, <2>1 DEF LoadRows, Elsewhere, BeforeWork, AtWork
<1>2. CASE BeginJob(j)
  BY <1>2, <1>a DEF BeginJob, FlushFails, Running, BeforeWork
<1>3. CASE BeginCapture(j)
  BY <1>3, <1>a, <1>b DEF BeginCapture, FlushFails, Running, BeforeWork, WriteStatus
<1>4. CASE Parse(j)
  BY <1>4, <1>a, <1>b DEF Parse, FlushFails, Running, BeforeWork
<1>5. CASE AnalysisRaises(j)
  BY <1>5, <1>a DEF AnalysisRaises
<1>6. CASE ReportProgress(j)
  BY <1>6, <1>a, <1>c DEF ReportProgress, FlushFails, NextStep, Running, Commit
<1>7. CASE UpdateCapture(j)
  <2>1. ASSUME SaveCapture(j, Kept(j), [thread[j] EXCEPT !.pos = @ + 1])
        PROVE  thread'[j].pc = thread[j].pc /\ thread'[j].pos = thread[j].pos + 1
    <3>1. PICK now : thread' = [thread EXCEPT ![j] = [[thread[j] EXCEPT !.pos = @ + 1] EXCEPT !.mem = now]]
      BY <2>1 DEF SaveCapture
    <3> QED
      BY <1>0, <3>1 DEF ThreadState
  <2> QED
    BY <1>7, <1>a, <2>1 DEF UpdateCapture, FlushFails, NextStep, Running, Commit
<1>8. CASE ClearTable(j)
  BY <1>8, <1>a, <1>c DEF ClearTable, NextStep, Running, Commit
<1>9. CASE FillTable(j)
  BY <1>9, <1>a, <1>c DEF FillTable, FlushFails, NextStep, Running, Commit
<1>10. CASE FillGraph(j)
  BY <1>10, <1>a, <1>c DEF FillGraph, FlushFails, NextStep, Running, Commit
<1>11. CASE FinishJob(j)
  <2>1. Goto(j, "finish_capture") => thread'[j].pc = "finish_capture" /\ thread'[j].pos = thread[j].pos
    BY <1>0 DEF Goto, ThreadState
  <2> QED
    BY <1>11, <1>a, <2>1 DEF FinishJob, FlushFails, Running, Elsewhere, BeforeWork, AtWork
<1>12. CASE FinishCapture(j)
  BY <1>12, <1>a, <1>b DEF FinishCapture, FlushFails, WriteStatus
<1>13. CASE FailJob(j)
  BY <1>13, <1>a DEF FailJob, FlushFails
<1>14. CASE FailCapture(j)
  BY <1>14, <1>a, <1>b DEF FailCapture, FlushFails, WriteStatus
<1> QED
  BY <1>1, <1>2, <1>3, <1>4, <1>5, <1>6, <1>7, <1>8, <1>9, <1>10, <1>11, <1>12, <1>13,
     <1>14 DEF ThreadStep, LoadRows, BeginJob, BeginCapture, Parse, AnalysisRaises, ReportProgress,
       UpdateCapture, ClearTable, FillTable, FillGraph, FinishJob, FinishCapture, FailJob, FailCapture

(* Only its last commit shows an uploaded capture as completed.              *)
LEMMA CompletedByFinish ==
  ASSUME TypeOK, IndInv, NEW j \in Jobs, ThreadStep(j), NEW c \in Captures, Uploaded(c),
         capture'[c].status = "completed", capture[c].status # "completed"
  PROVE  thread[j].pc = "finish_capture" /\ c = job[j].cap
<1>1. ThreadEffect(j)
  BY ThreadStepEffect
<1>2. c = job[j].cap /\ thread'[j].pc \in {"none", "ended"}
  BY <1>1 DEF ThreadEffect, Active, Alive
<1>3. CASE FinishCapture(j)
  BY <1>2, <1>3 DEF FinishCapture, Running
<1>4. CASE FailCapture(j)
  <2>1. Loaded(j) /\ WriteStatus(j, "failed", "ended")
    BY <1>4 DEF FailCapture, FlushFails, Running, Loaded
  <2>2. CapturePresent(c)
    BY <1>2, <2>1 DEF WriteStatus, SaveCapture
  <2>3. Kept(j) \in SUBSET Active
    BY <1>2, <2>1, <2>2, KeptActive
  <2>4. capture'[c].status \in Active \cup {"failed"}
    BY <1>2, <2>1, <2>3 DEF WriteStatus, SaveCapture, TypeOK, CaptureRow
  <2> QED
    BY <2>4 DEF Active
<1>5. CASE ~FinishCapture(j) /\ ~FailCapture(j)
  <2>1. thread[j] \in ThreadState
    BY DEF TypeOK
  <2>2. CASE BeginCapture(j) /\ WriteStatus(j, "analyzing", "parse")
    <3>1. thread'[j].pc = "parse"
      BY <2>1, <2>2 DEF WriteStatus, SaveCapture, ThreadState, TypeOK
    <3> QED
      BY <1>2, <3>1
  <2>3. CASE Parse(j) /\ SaveCapture(j, Kept(j), [thread[j] EXCEPT !.pc = "work"])
    <3>1. thread'[j].pc = "work"
      BY <2>1, <2>3 DEF SaveCapture, ThreadState, TypeOK
    <3> QED
      BY <1>2, <3>1
  <2>4. CASE UpdateCapture(j) /\ SaveCapture(j, Kept(j), [thread[j] EXCEPT !.pos = @ + 1])
    <3>1. thread[j].pc = "work"
      BY <2>4 DEF UpdateCapture, NextStep, Running
    <3>2. SaveCapture(j, Kept(j), [thread[j] EXCEPT !.pos = @ + 1])
      BY <2>4
    <3>3. thread'[j].pc = "work"
      BY <2>1, <3>1, <3>2 DEF SaveCapture, ThreadState, TypeOK
    <3> QED
      BY <1>2, <3>3
  <2>5. CASE UNCHANGED capture
    BY <2>5
  <2> QED
    BY <1>5, <2>2, <2>3, <2>4, <2>5
      DEF ThreadStep, LoadRows, BeginJob, BeginCapture, Parse, AnalysisRaises, ReportProgress,
          UpdateCapture, ClearTable, FillTable, FillGraph, FinishJob, FailJob, FlushFails
<1> QED
  BY <1>3, <1>4, <1>5

(* What the steps of handlers, and a restart, leave alone of the evidence,   *)
(* of the threads' positions, of completed and of deleted captures.          *)
DeletedNow(c) == /\ capture[c].status # "deleted" /\ capture'[c].status = "deleted"
                 /\ ~OvertakenBy(c, "analysis")'

Outside ==
  /\ rows' \subseteq rows
  /\ \A r \in rows : r \notin rows' => capture'[job[r[1]].cap].status = "deleted"
  /\ \A c \in Captures : graph'[c] = graph[c] \/ graph'[c].by # "analysis"
  /\ \A j \in Jobs : ~Fresh(j) => job'[j].cap = job[j].cap
  /\ \A j \in Jobs :
       /\ thread'[j].pos = thread[j].pos
       /\ \/ thread'[j].pc \in {thread[j].pc, "ended"}
          \/ thread[j].pc = "none" /\ thread'[j].pc = "load"
  /\ \A c \in Captures :
       /\ Uploaded(c)' => Uploaded(c) \/ capture[c].status = "absent"
       /\ Uploaded(c)' /\ capture'[c].status = "completed" =>
            Uploaded(c) /\ capture[c].status = "completed"
       /\ capture[c].status = "deleted" => capture'[c].status = "deleted"
       /\ capture[c].status = "absent" => capture'[c].status # "deleted"
       /\ Uploaded(c) /\ DeletedNow(c) => (LeavesNoRows(c) /\ Unheld(c))'
       /\ Uploaded(c) /\ capture[c].status = "deleted" /\ Unheld(c) =>
            /\ Unheld(c)'
            /\ \A j \in Jobs : job'[j].cap = c /\ JobPresent(j)' =>
                               job[j].cap = c /\ JobPresent(j)
  /\ overtaken \subseteq overtaken'

(* Most steps touch neither rows, jobs nor threads.                          *)
LEMMA QuietOutside ==
  ASSUME UNCHANGED <<rows, job, thread, overtaken>>,
         \A c \in Captures :
           /\ graph'[c] = graph[c] \/ graph'[c].by # "analysis"
           /\ Uploaded(c)' => Uploaded(c) \/ capture[c].status = "absent"
           /\ Uploaded(c)' /\ capture'[c].status = "completed" =>
                Uploaded(c) /\ capture[c].status = "completed"
           /\ capture[c].status = "deleted" <=> capture'[c].status = "deleted"
           /\ Uploaded(c) /\ capture[c].status = "deleted" =>
                \A x \in Clients : HoldsClaim(x, c)' => HoldsClaim(x, c)
  PROVE  Outside
BY DEF Outside, DeletedNow, Unheld, Analyzes, Alive, JobPresent

(* The captures are untouched, and nobody gains a claim.                     *)
LEMMA IdleOutside ==
  ASSUME UNCHANGED <<rows, job, thread, overtaken, capture>>,
         \A c \in Captures : graph'[c] = graph[c] \/ graph'[c].by # "analysis",
         \A c \in Captures : \A x \in Clients : HoldsClaim(x, c)' => HoldsClaim(x, c)
  PROVE  Outside
BY QuietOutside DEF Uploaded

LEMMA GraphOutside ==
  ASSUME graph \in [Captures -> Graph], NEW c \in Captures,
         NEW evidence \in SUBSET (Jobs \X Nat), NEW by \in {"rebuild", "backfill"},
         \/ UNCHANGED graph
         \/ SetGraph(c, NoGraph)
         \/ SetGraph(c, GraphFrom(evidence, by))
         \/ InsertGraph(c, evidence, by)
  PROVE  \A d \in Captures : graph'[d] = graph[d] \/ graph'[d].by # "analysis"
BY DEF SetGraph, NoGraph, GraphFrom, InsertGraph

(* A handler that moves, but not to a claim.                                 *)
LEMMA MoveNoClaim ==
  ASSUME client \in [Clients -> Handler], NEW cl \in Clients,
         \/ Answer(cl)
         \/ \E pc \in ClientPoints \ Claiming : Move(cl, pc)
         \/ \E pc \in ClientPoints : Move(cl, pc) /\ client[cl].pc \in Claiming
         \/ \E pc \in ClientPoints \ Claiming, c \in Captures : Begin(cl, pc, c)
  PROVE  \A c \in Captures : \A x \in Clients : HoldsClaim(x, c)' => HoldsClaim(x, c)
<1>1. CASE Answer(cl)
  BY <1>1, AnswerEffect DEF HoldsClaim, Claiming
<1>2. CASE \E pc \in ClientPoints \ Claiming : Move(cl, pc)
  BY <1>2, MoveEffect DEF HoldsClaim
<1>3. CASE \E pc \in ClientPoints : Move(cl, pc) /\ client[cl].pc \in Claiming
  BY <1>3, MoveEffect DEF HoldsClaim
<1>4. CASE \E pc \in ClientPoints \ Claiming, c \in Captures : Begin(cl, pc, c)
  BY <1>4, BeginEffect DEF HoldsClaim
<1> QED
  BY <1>1, <1>2, <1>3, <1>4

LEMMA RequestOutside ==
  ASSUME TypeOK, IndInv, NEW cl \in Clients, NEW c \in Captures, Request(cl, c)
  PROVE  Outside
<1> USE DEF TypeOK
<1>1. CASE UploadFile(cl, c)
  BY <1>1, MoveNoClaim, IdleOutside DEF UploadFile, ClientPoints, Claiming
<1>2. CASE RecordLive(cl, c)
  BY <1>2, MoveNoClaim, IdleOutside DEF RecordLive, ClientPoints, Claiming
<1>3. CASE CheckAnalyze(cl, c)
  BY <1>3, MoveNoClaim, IdleOutside DEF CheckAnalyze, ClientPoints, Claiming
<1>4. CASE CheckDelete(cl, c)
  <2>1. \A d \in Captures : \A x \in Clients : HoldsClaim(x, d)' => HoldsClaim(x, d)
    BY <1>4, CheckDeleteEffect DEF HoldsClaim, Claiming
  <2> QED
    BY <1>4, <2>1, IdleOutside DEF CheckDelete
<1>5. CASE CheckGraph(cl, c)
  <2>1. \A d \in Captures : \A x \in Clients : HoldsClaim(x, d)' => HoldsClaim(x, d)
    BY <1>5, CheckGraphEffect DEF HoldsClaim, Claiming
  <2> QED
    BY <1>5, <2>1, IdleOutside DEF CheckGraph
<1>6. CASE ClearGraph(cl, c)
  BY <1>6, MoveNoClaim, GraphOutside, IdleOutside DEF ClearGraph, ClientPoints, Claiming
<1> QED
  BY <1>1, <1>2, <1>3, <1>4, <1>5, <1>6 DEF Request

(* A new row is neither completed nor deleted.                               *)
LEMMA CreateRowOutside ==
  ASSUME TypeOK, NEW c \in Captures, NEW source \in {"upload", "live"}, CreateRow(c, source),
         capture[c].status = "absent",
         UNCHANGED <<rows, job, graph, thread, overtaken>>,
         \A d \in Captures : \A x \in Clients : HoldsClaim(x, d)' => HoldsClaim(x, d)
  PROVE  Outside
<1>1. /\ capture'[c].status = "created"
      /\ \A d \in Captures : d # c => capture'[d] = capture[d]
  BY CreateRowEffect DEF TypeOK
<1> QED
  BY <1>1, QuietOutside DEF Uploaded

(* Neither is one that stores its path, is claimed, or has its claim undone. *)
LEMMA StatusOutside ==
  ASSUME TypeOK, NEW c \in Captures, CapturePresent(c),
         \/ capture' = [capture EXCEPT ![c].stored = TRUE]
         \/ capture' = [capture EXCEPT ![c].status = "queued"]
         \/ capture' = [capture EXCEPT ![c].status = "created"],
         UNCHANGED <<rows, job, graph, thread, overtaken>>,
         \A d \in Captures : Uploaded(d) /\ capture[d].status = "deleted" =>
           \A x \in Clients : HoldsClaim(x, d)' => HoldsClaim(x, d)
  PROVE  Outside
<1>1. /\ capture'[c].source = capture[c].source
      /\ capture'[c].status \in {capture[c].status, "queued", "created"}
      /\ \A d \in Captures : d # c => capture'[d] = capture[d]
  BY DEF TypeOK, CaptureRow
<1>2. capture[c].status # "deleted"
  BY DEF CapturePresent, Active, Claimable
<1> QED
  BY <1>1, <1>2, QuietOutside DEF Uploaded

(* A job row is created for a capture somebody has claimed, or a live one.   *)
LEMMA InsertJobOutside ==
  ASSUME TypeOK, IndInv, NEW cl \in Clients, client[cl].pc \in {"claimed", "live_stored"},
         NEW pc \in {"submitting", "live_submitting"},
         pc = "submitting" => client[cl].pc = "claimed",
         InsertJob(cl, pc),
         UNCHANGED <<capture, rows, graph, thread, overtaken>>
  PROVE  Outside
<1> DEFINE c == client[cl].cap
           j == client'[cl].job
<1>1. /\ client'[cl].pc = pc /\ client'[cl].cap = c
      /\ \A x \in Clients : x # cl => client'[x] = client[x]
      /\ j \in Jobs /\ Fresh(j) /\ job'[j].cap = c
      /\ \A k \in Jobs : k # j => job'[k] = job[k]
  BY InsertJobEffect DEF TypeOK, ClientPoints
<1>2. HoldsClaim(cl, c) \/ ~Uploaded(c)
  BY DEF HoldsClaim, Claiming, IndInv, RegistrationInv, LivePoints, Uploaded
<1>3. \A d \in Captures : \A x \in Clients : HoldsClaim(x, d)' => HoldsClaim(x, d)
  BY <1>1 DEF HoldsClaim, Claiming
<1>4. thread[j].pc = "none"
  BY <1>1 DEF IndInv, JobInv
<1> HIDE DEF c, j
<1>5. ASSUME NEW d \in Captures, Uploaded(d), Unheld(d)
      PROVE  /\ Unheld(d)'
             /\ \A k \in Jobs : job'[k].cap = d /\ JobPresent(k)' => job[k].cap = d /\ JobPresent(k)
  <2>1. d # c
    BY <1>2, <1>5 DEF Unheld
  <2>2. \A k \in Jobs : job'[k].cap = d => job'[k] = job[k]
    BY <1>1, <2>1
  <2> QED
    BY <1>3, <1>5, <2>2 DEF Unheld, Analyzes, Alive, JobPresent
<1>6. \A k \in Jobs : ~Fresh(k) => job'[k].cap = job[k].cap
  BY <1>1
<1> QED
  BY <1>5, <1>6 DEF Outside, DeletedNow, Uploaded

(* A thread is started on a capture its handler has claimed, or a live one.  *)
LEMMA StartThreadOutside ==
  ASSUME TypeOK, IndInv, NEW cl \in Clients, client[cl].pc \in {"submitting", "live_submitting"},
         StartThread(client[cl].job), Answer(cl),
         UNCHANGED <<capture, job, rows, graph, overtaken>>
  PROVE  Outside
<1> DEFINE c == client[cl].cap
           j == client[cl].job
<1>1. /\ j \in Jobs /\ job[j].cap = c /\ thread[j].pc = "none"
      /\ \A d \in Captures : \A x \in Clients : HoldsClaim(x, d)' => HoldsClaim(x, d)
  BY MoveNoClaim DEF TypeOK, IndInv, JobInv, JobInHand
<1>2. HoldsClaim(cl, c) \/ ~Uploaded(c)
  BY DEF HoldsClaim, Claiming, IndInv, RegistrationInv, LivePoints, Uploaded
<1>3. \A k \in Jobs : /\ thread'[k].pos = thread[k].pos
                      /\ k # j => thread'[k] = thread[k]
                      /\ k = j => thread'[k].pc = "load"
  BY <1>1 DEF StartThread, TypeOK, ThreadState
<1> HIDE DEF c, j
<1>4. ASSUME NEW d \in Captures, Uploaded(d), Unheld(d)
      PROVE  Unheld(d)'
  <2>1. d # c
    BY <1>2, <1>4 DEF Unheld
  <2> QED
    BY <1>1, <1>3, <1>4, <2>1 DEF Unheld, Analyzes, Alive
<1> QED
  BY <1>1, <1>3, <1>4 DEF Outside, DeletedNow, Uploaded, JobPresent

(* Deleting a capture at rest leaves nothing of it and finds nobody at work. *)
LEMMA DeleteOutside ==
  ASSUME TypeOK, IndInv, NEW cl \in Clients, Delete(cl)
  PROVE  Outside
<1>1. PICK c \in Captures : c = client[cl].cap /\ client[cl].pc \notin Claiming
  BY DEF Delete, At, Claiming, IndInv, RegistrationInv
<1>2. \A d \in Captures : \A x \in Clients : HoldsClaim(x, d)' => HoldsClaim(x, d)
  BY MoveNoClaim DEF Delete, ClientPoints, Claiming, TypeOK
<1>3. CASE Answer(cl) /\ UNCHANGED <<capture, job, rows, graph, overtaken>>
  BY <1>2, <1>3, IdleOutside DEF Delete
<1>4. CASE /\ CapturePresent(c) /\ DeleteRows(c)
           /\ overtaken' = overtaken \cup Overtakes(c)
  <2>1. /\ capture'[c].status = "deleted"
        /\ \A d \in Captures : capture'[d].source = capture[d].source
        /\ \A d \in Captures : d # c => capture'[d] = capture[d]
        /\ \A j \in Jobs : /\ job'[j].cap = job[j].cap
                           /\ \/ job'[j].status = job[j].status
                              \/ JobPresent(j) /\ job'[j].status = "deleted"
    BY <1>1, <1>4, DeleteRowsEffect DEF TypeOK
  <2>2. /\ rows' = rows \ RowsOf(c)
        /\ \A d \in Captures : graph'[d] = graph[d] \/ graph'[d].by # "analysis"
        /\ UNCHANGED thread
    BY <1>4 DEF Delete, DeleteRows, SetGraph, NoGraph, TypeOK
  <2>3. capture[c].status \notin {"absent", "deleted"}
    BY <1>4 DEF CapturePresent, Active, Claimable
  <2>4. LeavesNoRows(c)'
    <3>1. RowsOf(c)' = {}
      BY <2>1, <2>2 DEF RowsOf, TypeOK
    <3>2. \A j \in Jobs : job'[j].cap = c => ~JobPresent(j)'
      <4> SUFFICES ASSUME NEW j \in Jobs, job'[j].cap = c PROVE ~JobPresent(j)'
        OBVIOUS
      <4>1. job'[j] = IF job[j].cap = c /\ JobPresent(j)
                      THEN [job[j] EXCEPT !.status = "deleted"] ELSE job[j]
        BY <1>4 DEF DeleteRows
      <4> QED
        BY <2>1, <4>1 DEF JobPresent, Terminal, TypeOK, JobRow
    <3> QED
      BY <3>1, <3>2 DEF LeavesNoRows
  <2>5. Uploaded(c) /\ ~OvertakenBy(c, "analysis")' => Unheld(c)'
    <3>1. ASSUME Uploaded(c), ~OvertakenBy(c, "analysis")' PROVE Unheld(c)
      <4>1. capture[c].status \notin Active
        BY <1>4, <3>1 DEF Overtakes, OvertakenBy
      <4> QED
        BY <1>1, <2>3, <3>1, <4>1 DEF IndInv, ClaimInv, Unheld
    <3> QED
      BY <1>2, <2>1, <2>2, <3>1 DEF Unheld, Analyzes, Alive
  <2>6. \A d \in Captures : Unheld(d) => Unheld(d)'
    BY <1>2, <2>1, <2>2 DEF Unheld, Analyzes, Alive
  <2>7. \A r \in rows : r \notin rows' => job[r[1]].cap = c
    BY <2>2 DEF RowsOf
  <2>8. \A d \in Captures :
          /\ Uploaded(d)' <=> Uploaded(d)
          /\ DeletedNow(d) => d = c
          /\ capture'[d].status \in {"completed", "absent"} => capture'[d] = capture[d]
          /\ capture[d].status = "deleted" => capture'[d].status = "deleted"
          /\ capture[d].status = "absent" => capture'[d].status # "deleted"
    BY <2>1, <2>3 DEF Uploaded, DeletedNow
  <2>9. \A j \in Jobs : JobPresent(j)' => JobPresent(j)
    BY <2>1 DEF JobPresent
  <2>10. overtaken \subseteq overtaken'
    BY <1>4
  <2>11. \A r \in rows : r \notin rows' => capture'[job[r[1]].cap].status = "deleted"
    BY <2>1, <2>7
  <2>12. \A d \in Captures : Uploaded(d) /\ DeletedNow(d) => (LeavesNoRows(d) /\ Unheld(d))'
    BY <2>4, <2>5, <2>8 DEF DeletedNow
  <2> QED
    BY <2>1, <2>2, <2>6, <2>8, <2>9, <2>10, <2>11, <2>12 DEF Outside
<1> QED
  BY <1>1, <1>3, <1>4 DEF Delete

LEMMA HandlerOutside ==
  ASSUME TypeOK, IndInv, NEW cl \in Clients, HandlerStep(cl)
  PROVE  Outside
<1> DEFINE c == client[cl].cap
           NoNewClaim == \A d \in Captures : \A x \in Clients : HoldsClaim(x, d)' => HoldsClaim(x, d)
<1>0. client[cl].pc # "idle" => c \in Captures
  BY DEF IndInv, RegistrationInv
<1>a. \A pc \in ClientPoints : Answer(cl) \/ (Move(cl, pc) /\ pc \notin Claiming) => NoNewClaim
  BY MoveNoClaim DEF TypeOK
<1> HIDE DEF NoNewClaim
<1>b. NoNewClaim /\ UNCHANGED <<rows, job, thread, overtaken, capture, graph>> => Outside
  BY IdleOutside DEF NoNewClaim
<1>c. \A d \in Captures : CapturePresent(d) /\ NoNewClaim /\ UNCHANGED <<rows, job, graph, thread, overtaken>> =>
        (StorePath(d) \/ capture' = [capture EXCEPT ![d].status = "created"] => Outside)
  BY StatusOutside DEF NoNewClaim, StorePath
<1>1. CASE RegisterUpload(cl)
  <2>1. c \in Captures /\ capture[c].status = "absent"
    BY <1>0, <1>1 DEF RegisterUpload, At, IndInv, RegistrationInv, NewFile
  <2>2. NoNewClaim
    BY <1>1, <1>a DEF RegisterUpload, ClientPoints, Claiming, DropUpload
  <2> QED
    BY <1>1, <1>b, <2>1, <2>2, CreateRowOutside DEF RegisterUpload, DropUpload, NoNewClaim
<1>2. CASE StoreUploadPath(cl)
  BY <1>0, <1>2, <1>a, <1>b, <1>c DEF StoreUploadPath, At, DropUpload, StorePath, ClientPoints
<1>3. CASE Claim(cl)
  <2>1. CASE Answer(cl) /\ UNCHANGED capture
    BY <1>3, <1>a, <1>b, <2>1 DEF Claim, ClientPoints
  <2>2. CASE /\ capture[c].status \in Claimable /\ Move(cl, "claimed")
             /\ capture' = [capture EXCEPT ![c].status = "queued"]
    <3>1. c \in Captures /\ CapturePresent(c) /\ capture[c].status # "deleted"
      BY <1>0, <1>3, <2>2 DEF Claim, At, CapturePresent, Claimable
    <3>2. \A x \in Clients : \A d \in Captures : d # c /\ HoldsClaim(x, d)' => HoldsClaim(x, d)
      BY <2>2, MoveEffect DEF HoldsClaim, TypeOK, ClientPoints
    <3> QED
      BY <1>3, <2>2, <3>1, <3>2, StatusOutside DEF Claim
  <2> QED
    BY <1>3, <2>1, <2>2 DEF Claim
<1>4. CASE CreateJob(cl)
  BY <1>4, <1>a, <1>b, InsertJobOutside DEF CreateJob, At, ClientPoints
<1>5. CASE Submit(cl)
  <2>1. CASE Move(cl, "reverting") /\ UNCHANGED thread
    <3>1. NoNewClaim
      BY <1>5, <2>1, MoveNoClaim DEF Submit, At, Claiming, ClientPoints, TypeOK, NoNewClaim
    <3> QED
      BY <1>5, <1>b, <2>1, <3>1 DEF Submit
  <2> QED
    BY <1>5, <2>1, StartThreadOutside DEF Submit, At
<1>6. CASE Revert(cl)
  BY <1>0, <1>6, <1>a, <1>b, <1>c DEF Revert, At, ClientPoints
<1>7. CASE RegisterLive(cl)
  <2>1. c \in Captures /\ capture[c].status = "absent"
    BY <1>0, <1>7 DEF RegisterLive, At, IndInv, RegistrationInv, NewFile
  <2>2. NoNewClaim
    BY <1>7, <1>a DEF RegisterLive, ClientPoints, Claiming
  <2> QED
    BY <1>7, <1>b, <2>1, <2>2, CreateRowOutside DEF RegisterLive, NoNewClaim
<1>8. CASE StoreLivePath(cl)
  BY <1>0, <1>8, <1>a, <1>b, <1>c DEF StoreLivePath, At, StorePath, ClientPoints, Claiming
<1>9. CASE CreateLiveJob(cl)
  BY <1>9, <1>a, <1>b, InsertJobOutside DEF CreateLiveJob, At, ClientPoints
<1>10. CASE SubmitLive(cl)
  BY <1>10, <1>a, <1>b, StartThreadOutside DEF SubmitLive, At, ClientPoints
<1>11. CASE Delete(cl)
  BY <1>11, DeleteOutside
<1>12. CASE Unlink(cl)
  BY <1>12, <1>a, <1>b DEF Unlink, ClientPoints
<1>13. CASE BackfillGraph(cl)
  <2>1. client[cl].seen \in SUBSET (Jobs \X Nat) /\ c \in Captures
    BY <1>0, <1>13 DEF BackfillGraph, At, TypeOK, Handler
  <2>2. NoNewClaim
    BY <1>13, <1>a DEF BackfillGraph, ClientPoints
  <2> QED
    BY <1>13, <2>1, <2>2, GraphOutside, IdleOutside DEF BackfillGraph, NoNewClaim, TypeOK
<1>14. CASE ReadEvidence(cl)
  <2>1. c \in Captures /\ Sources(c) \in SUBSET (Jobs \X Nat)
    BY <1>0, <1>14, EvidenceRows DEF ReadEvidence, At, TypeOK
  <2>2. NoNewClaim
    BY <1>14, <2>1, ReadEvidenceEffect DEF NoNewClaim, HoldsClaim, Claiming, TypeOK
  <2> QED
    BY <1>14, <1>b, <2>2 DEF ReadEvidence
<1>15. CASE RebuildGraph(cl)
  <2>1. client[cl].seen \in SUBSET (Jobs \X Nat) /\ c \in Captures
    BY <1>0, <1>15 DEF RebuildGraph, At, TypeOK, Handler
  <2>2. NoNewClaim
    BY <1>15, <1>a DEF RebuildGraph, ClientPoints
  <2> QED
    BY <1>15, <2>1, <2>2, GraphOutside, IdleOutside DEF RebuildGraph, NoNewClaim, TypeOK
<1> QED
  BY <1>1, <1>2, <1>3, <1>4, <1>5, <1>6, <1>7, <1>8, <1>9, <1>10, <1>11, <1>12,
     <1>13, <1>14, <1>15 DEF HandlerStep

LEMMA RestartOutside ==
  ASSUME TypeOK, IndInv, Restart
  PROVE  Outside
<1>1. /\ \A c \in Captures :
           /\ capture'[c].source = capture[c].source
           /\ capture'[c].status =
                IF capture[c].status \in Active THEN "failed" ELSE capture[c].status
      /\ \A j \in Jobs :
           /\ job'[j].cap = job[j].cap
           /\ job'[j].status =
                IF job[j].status \in {"queued", "running"} THEN "failed" ELSE job[j].status
  BY RecoverEffect DEF TypeOK, Restart
<1>2. \A j \in Jobs : /\ thread'[j].pos = thread[j].pos
                      /\ thread'[j].pc \in {thread[j].pc, "ended"}
                      /\ ~Alive(j)'
  <2>1. \A j \in Jobs :
          thread'[j] = IF Alive(j) THEN [thread[j] EXCEPT !.pc = "ended"] ELSE thread[j]
    BY DEF Restart
  <2> QED
    BY <2>1 DEF TypeOK, ThreadState, Alive
<1>3. \A cl \in Clients : client'[cl].pc = "idle"
  BY IdleHandler DEF Restart
<1>4. \A c \in Captures : Unheld(c)'
  BY <1>2, <1>3 DEF Unheld, Analyzes, HoldsClaim, Claiming
<1>5. \A j \in Jobs : JobPresent(j)' => JobPresent(j)
  BY <1>1 DEF JobPresent
<1>6. \A c \in Captures : /\ Uploaded(c)' <=> Uploaded(c)
                          /\ capture'[c].status = "completed" => capture[c].status = "completed"
                          /\ capture'[c].status = "deleted" <=> capture[c].status = "deleted"
  BY <1>1 DEF Uploaded, Active
<1>7. UNCHANGED <<rows, graph, overtaken>>
  BY DEF Restart
<1> QED
  BY <1>1, <1>2, <1>4, <1>5, <1>6, <1>7 DEF Outside, DeletedNow

(* Rows that stay where they were stay the rows of their capture, whatever   *)
(* job rows are created: those have none yet.                                *)
LEMMA RowsKept ==
  ASSUME TypeOK, IndInv, RowInv, \A j \in Jobs : ~Fresh(j) => job'[j].cap = job[j].cap
  PROVE  \A r \in rows : r \in Jobs \X Nat /\ ~Fresh(r[1]) /\ job'[r[1]].cap = job[r[1]].cap
<1> SUFFICES ASSUME NEW r \in rows
             PROVE  r \in Jobs \X Nat /\ ~Fresh(r[1]) /\ job'[r[1]].cap = job[r[1]].cap
  OBVIOUS
<1>1. r \in Jobs \X Nat
  BY DEF TypeOK
<1>2. ~Fresh(r[1])
  BY <1>1 DEF RowInv, BeforeWork, IndInv, JobInv
<1> QED
  BY <1>1, <1>2

LEMMA OutsideKeepsEvidence ==
  ASSUME TypeOK, IndInv, EvidenceInv, Outside
  PROVE  EvidenceInv'
<1> USE DEF EvidenceInv
<1>1. ProgressInv'
  BY DEF Outside, ProgressInv, BeforeWork
<1>2. RowInv'
  BY RowsKept DEF Outside, RowInv, BeforeWork
<1>3. OrphanInv'
  <2> SUFFICES ASSUME NEW c \in Captures, Uploaded(c)', capture'[c].status = "deleted",
                      ~OvertakenBy(c, "analysis")'
               PROVE  (LeavesNoRows(c) /\ Unheld(c))'
    BY DEF OrphanInv
  <2>1. Uploaded(c) /\ ~OvertakenBy(c, "analysis")
    BY DEF Outside, OvertakenBy
  <2>2. CASE capture[c].status = "deleted"
    <3>1. LeavesNoRows(c) /\ Unheld(c)
      BY <2>1, <2>2 DEF OrphanInv
    <3>2. RowsOf(c)' = {}
      BY <3>1, RowsKept DEF Outside, RowsOf, LeavesNoRows
    <3>3. Unheld(c)' /\ \A j \in Jobs : job'[j].cap = c => ~JobPresent(j)'
      BY <2>1, <2>2, <3>1 DEF Outside, LeavesNoRows
    <3> QED
      BY <3>2, <3>3 DEF LeavesNoRows
  <2>3. CASE capture[c].status # "deleted"
    BY <2>1, <2>3 DEF Outside, DeletedNow
  <2> QED
    BY <2>2, <2>3
<1> QED
  BY <1>1, <1>2, <1>3

(* Of an upload deleted at rest, no thread is there to write anything.       *)
LEMMA ThreadKeepsEvidence ==
  ASSUME TypeOK, IndInv, EvidenceInv, NEW j \in Jobs, ThreadStep(j)
  PROVE  EvidenceInv'
<1> USE DEF EvidenceInv
<1>0. /\ ThreadEffect(j)
      /\ Commit(j) \/ Elsewhere(j)
      /\ UNCHANGED <<overtaken, restarts>>
  BY ThreadStepEffect, ThreadEvidence
<1>1. /\ \A k \in Jobs : k # j => thread'[k] = thread[k]
      /\ thread[j] \in ThreadState /\ thread'[j] \in ThreadState
      /\ Work \in Seq(WorkStep(EvidenceTables)) /\ Len(Work) \in Nat
  BY <1>0, ConstantsAssumption DEF ThreadEffect, TypeOK
<1>2. ProgressInv'
  BY <1>0, <1>1 DEF ProgressInv, Commit, Elsewhere, ThreadState, BeforeWork
<1>3. \A r \in rows' : \/ r \in rows
                       \/ r[1] = j /\ r[2] \in Inserts
  BY <1>0, <1>1 DEF Commit, Elsewhere, Inserts, OnGraph, ThreadState
<1>4. RowInv'
  BY <1>0, <1>1, <1>3 DEF RowInv, Commit, Elsewhere, TypeOK, BeforeWork
<1>5. OrphanInv'
  <2> SUFFICES ASSUME NEW c \in Captures, Uploaded(c)', capture'[c].status = "deleted",
                      ~OvertakenBy(c, "analysis")'
               PROVE  (LeavesNoRows(c) /\ Unheld(c))'
    BY DEF OrphanInv
  <2>1. Uploaded(c) /\ ~OvertakenBy(c, "analysis") /\ capture[c].status = "deleted"
    BY <1>0 DEF OvertakenBy, ThreadEffect, Uploaded, CapturePresent, Active, Claimable
  <2>2. LeavesNoRows(c) /\ Unheld(c)
    BY <2>1 DEF OrphanInv
  <2>3. job[j].cap # c
    BY <1>0, <2>2 DEF Unheld, Analyzes, ThreadEffect
  <2>4. \A k \in Jobs : job'[k].cap = c => job[k].cap = c /\ job'[k].status = job[k].status
                                          /\ thread'[k] = thread[k]
    BY <1>0, <2>3 DEF ThreadEffect
  <2>5. Unheld(c)'
    BY <1>0, <2>2, <2>4 DEF ThreadEffect, Unheld, HoldsClaim, Analyzes, Alive
  <2>6. \A r \in RowsOf(c)' : r \in RowsOf(c)
    BY <1>0, <1>3, <2>3 DEF ThreadEffect, RowsOf, TypeOK
  <2> QED
    BY <2>2, <2>4, <2>5, <2>6 DEF LeavesNoRows, JobPresent
<1> QED
  BY <1>2, <1>4, <1>5

(* Every step is a thread's or leaves evidence outside its reach alone.      *)
LEMMA NextKinds ==
  ASSUME TypeOK, IndInv, [Next]_vars
  PROVE  Outside \/ \E j \in Jobs : ThreadStep(j)
<1>1. CASE UNCHANGED vars
  <2>1. UNCHANGED <<rows, job, thread, overtaken, capture, graph, client>>
    BY <1>1 DEF vars
  <2> QED
    BY <2>1, IdleOutside DEF HoldsClaim
<1>2. CASE Next
  BY <1>2, RequestOutside, HandlerOutside, RestartOutside DEF Next
<1> QED
  BY <1>1, <1>2

(* The inductive invariant behind the deletion of evidence.                  *)
THEOREM EvidenceInvariant == Spec => []EvidenceInv
<1>1. Init => EvidenceInv
  BY ConstantsAssumption
    DEF Init, EvidenceInv, ProgressInv, RowInv, OrphanInv, Uploaded
<1>2. TypeOK /\ IndInv /\ EvidenceInv /\ [Next]_vars => EvidenceInv'
  BY NextKinds, OutsideKeepsEvidence, ThreadKeepsEvidence
<1> QED
  BY <1>1, <1>2, TypeCorrect, InductiveInvariant, PTL DEF Spec

-----------------------------------------------------------------------------
(* No handler comes to hold edges of a deleted capture, and none are put in, *)
(* but by one that held them before.                                         *)
LEMMA EdgesStay ==
  ASSUME TypeOK, EdgesInv, Outside,
         \A c \in Captures :
           Uploaded(c) /\ capture'[c].status = "deleted" /\ ~OvertakenBy(c, "analysis")' =>
             /\ \/ capture[c].status = "deleted"
                \/ graph'[c] = NoGraph /\ \A x \in Clients : ~HasEdges(x, c)'
                \/ OvertakenBy(c, "graph")'
             /\ \/ graph'[c] = NoGraph
                \/ graph'[c] = graph[c]
                \/ \E x \in Clients : HasEdges(x, c)
             /\ \A x \in Clients : HasEdges(x, c)' => HasEdges(x, c)
  PROVE  EdgesInv'
<1> SUFFICES ASSUME NEW c \in Captures, Uploaded(c)', capture'[c].status = "deleted",
                    ~OvertakenBy(c, "analysis")', ~OvertakenBy(c, "graph")'
             PROVE  graph'[c] = NoGraph /\ \A x \in Clients : ~HasEdges(x, c)'
  BY DEF EdgesInv
<1>1. /\ Uploaded(c)
      /\ ~OvertakenBy(c, "analysis") /\ ~OvertakenBy(c, "graph")
  BY DEF Outside, OvertakenBy
<1>2. CASE capture[c].status = "deleted"
  <2>1. graph[c] = NoGraph /\ \A x \in Clients : ~HasEdges(x, c)
    BY <1>1, <1>2 DEF EdgesInv
  <2> QED
    BY <1>1, <2>1
<1>3. CASE capture[c].status # "deleted"
  BY <1>1, <1>3
<1> QED
  BY <1>2, <1>3

(* A handler that answers, moves or begins, but not to insert edges.         *)
LEMMA MoveNoEdges ==
  ASSUME client \in [Clients -> Handler], NEW cl \in Clients,
         \/ Answer(cl)
         \/ \E pc \in ClientPoints \ {"backfilling", "rebuilding"} : Move(cl, pc)
         \/ \E pc \in ClientPoints \ {"backfilling", "rebuilding"}, c \in Captures : Begin(cl, pc, c)
         \/ \E pc \in {"submitting", "live_submitting"}, j \in Jobs :
              client' = [client EXCEPT ![cl].pc = pc, ![cl].job = j]
  PROVE  \A c \in Captures : \A x \in Clients : HasEdges(x, c)' => HasEdges(x, c)
<1>1. /\ client'[cl].pc \notin {"backfilling", "rebuilding"}
      /\ \A x \in Clients : x # cl => client'[x] = client[x]
  <2>1. CASE Answer(cl)
    BY <2>1, AnswerEffect
  <2>2. CASE \E pc \in ClientPoints \ {"backfilling", "rebuilding"} : Move(cl, pc)
    BY <2>2, MoveEffect
  <2>3. CASE \E pc \in ClientPoints \ {"backfilling", "rebuilding"}, c \in Captures :
               Begin(cl, pc, c)
    BY <2>3, BeginEffect
  <2>4. CASE \E pc \in {"submitting", "live_submitting"}, j \in Jobs :
               client' = [client EXCEPT ![cl].pc = pc, ![cl].job = j]
    BY <2>4 DEF Handler
  <2> QED
    BY <2>1, <2>2, <2>3, <2>4
<1> QED
  BY <1>1 DEF HasEdges

(* A step that leaves the graphs alone, deletes nothing and gains no edges.  *)
LEMMA QuietEdges ==
  ASSUME TypeOK, EdgesInv, Outside, UNCHANGED graph,
         \A c \in Captures : capture'[c].status = "deleted" => capture[c].status = "deleted",
         \A c \in Captures : \A x \in Clients : HasEdges(x, c)' => HasEdges(x, c)
  PROVE  EdgesInv'
BY EdgesStay

LEMMA RequestEdges ==
  ASSUME TypeOK, IndInv, EdgesInv, NEW cl \in Clients, NEW c \in Captures, Request(cl, c)
  PROVE  EdgesInv'
<1> USE DEF TypeOK
<1>0. Outside
  BY RequestOutside
<1>1. CASE UploadFile(cl, c)
  BY <1>0, <1>1, MoveNoEdges, QuietEdges DEF UploadFile, ClientPoints
<1>2. CASE RecordLive(cl, c)
  BY <1>0, <1>2, MoveNoEdges, QuietEdges DEF RecordLive, ClientPoints
<1>3. CASE CheckAnalyze(cl, c)
  BY <1>0, <1>3, MoveNoEdges, QuietEdges DEF CheckAnalyze, ClientPoints
<1>4. CASE CheckDelete(cl, c)
  <2>1. \A d \in Captures : \A x \in Clients : HasEdges(x, d)' => HasEdges(x, d)
    BY <1>4, CheckDeleteEffect DEF HasEdges
  <2> QED
    BY <1>0, <1>4, <2>1, QuietEdges DEF CheckDelete
<1>5. CASE CheckGraph(cl, c)
  <2>1. capture[c].status = "completed" /\ UNCHANGED <<capture, graph>>
    BY <1>5 DEF CheckGraph
  <2>2. \A d \in Captures : d # c => \A x \in Clients : HasEdges(x, d)' => HasEdges(x, d)
    BY <1>5, CheckGraphEffect DEF HasEdges
  <2> QED
    BY <1>0, <2>1, <2>2, EdgesStay
<1>6. CASE ClearGraph(cl, c)
  <2>1. \A d \in Captures : \A x \in Clients : HasEdges(x, d)' => HasEdges(x, d)
    BY <1>6, MoveNoEdges DEF ClearGraph, ClientPoints
  <2>2. UNCHANGED capture /\ \A d \in Captures : graph'[d] = NoGraph \/ graph'[d] = graph[d]
    BY <1>6 DEF ClearGraph, SetGraph
  <2> QED
    BY <1>0, <2>1, <2>2, EdgesStay
<1> QED
  BY <1>1, <1>2, <1>3, <1>4, <1>5, <1>6 DEF Request

(* What a delete takes with it; edges that are ready are on record.          *)
LEMMA DeleteEdges ==
  ASSUME TypeOK, IndInv, EdgesInv, NEW cl \in Clients, Delete(cl)
  PROVE  EdgesInv'
<1>1. PICK c \in Captures : c = client[cl].cap
  BY DEF Delete, At, IndInv, RegistrationInv
<1>2. \A d \in Captures : \A x \in Clients : HasEdges(x, d)' => HasEdges(x, d)
  BY MoveNoEdges DEF Delete, ClientPoints, TypeOK
<1>3. Outside
  BY DeleteOutside
<1>4. CASE UNCHANGED <<capture, job, rows, graph, overtaken>>
  BY <1>2, <1>3, <1>4, QuietEdges
<1>5. CASE DeleteRows(c) /\ overtaken' = overtaken \cup Overtakes(c)
  <2>1. /\ \A d \in Captures : d # c => capture'[d] = capture[d]
        /\ graph'[c] = NoGraph
        /\ \A d \in Captures : d # c => graph'[d] = graph[d]
    BY <1>5, DeleteRowsEffect DEF DeleteRows, SetGraph, TypeOK
  <2>2. (\E x \in Clients : HasEdges(x, c)) => OvertakenBy(c, "graph")'
    BY <1>5 DEF Overtakes, OvertakenBy
  <2> QED
    BY <1>2, <1>3, <2>1, <2>2, EdgesStay
<1> QED
  BY <1>1, <1>4, <1>5 DEF Delete

LEMMA HandlerEdges ==
  ASSUME TypeOK, IndInv, OrphanInv, EdgesInv, NEW cl \in Clients, HandlerStep(cl)
  PROVE  EdgesInv'
<1> DEFINE c == client[cl].cap
           NoNewEdges == \A d \in Captures : \A x \in Clients : HasEdges(x, d)' => HasEdges(x, d)
           NoneDeleted == \A d \in Captures :
                            capture'[d].status = "deleted" => capture[d].status = "deleted"
<1>0. client[cl].pc # "idle" => c \in Captures
  BY DEF IndInv, RegistrationInv
<1>a. Outside
  BY HandlerOutside
<1>b. UNCHANGED graph /\ NoneDeleted /\ NoNewEdges => EdgesInv'
  BY <1>a, QuietEdges
<1>c. \A pc \in ClientPoints \ {"backfilling", "rebuilding"} :
        Answer(cl) \/ Move(cl, pc) => NoNewEdges
  BY MoveNoEdges DEF TypeOK
<1>d. UNCHANGED capture => NoneDeleted
  OBVIOUS
<1>e. \A d \in Captures : \A status \in {"queued", "created"} :
        \/ capture' = [capture EXCEPT ![d].status = status]
        \/ StorePath(d)
        \/ CreateRow(d, "upload")
        \/ CreateRow(d, "live")
        => NoneDeleted
  BY DEF TypeOK, CaptureRow, StorePath, CreateRow
<1>f. \A pc \in {"submitting", "live_submitting"} : InsertJob(cl, pc) => NoNewEdges
  BY MoveNoEdges DEF TypeOK, InsertJob
<1> HIDE DEF NoNewEdges, NoneDeleted
<1>1. CASE RegisterUpload(cl)
  BY <1>0, <1>1, <1>b, <1>c, <1>d, <1>e DEF RegisterUpload, At, DropUpload, ClientPoints
<1>2. CASE StoreUploadPath(cl)
  BY <1>0, <1>2, <1>b, <1>c, <1>d, <1>e DEF StoreUploadPath, At, DropUpload, ClientPoints
<1>3. CASE Claim(cl)
  BY <1>0, <1>3, <1>b, <1>c, <1>d, <1>e DEF Claim, At, ClientPoints
<1>4. CASE CreateJob(cl)
  BY <1>4, <1>b, <1>c, <1>d, <1>f DEF CreateJob, ClientPoints
<1>5. CASE Submit(cl)
  BY <1>5, <1>b, <1>c, <1>d DEF Submit, ClientPoints
<1>6. CASE Revert(cl)
  BY <1>0, <1>6, <1>b, <1>c, <1>d, <1>e DEF Revert, At, ClientPoints
<1>7. CASE RegisterLive(cl)
  BY <1>0, <1>7, <1>b, <1>c, <1>d, <1>e DEF RegisterLive, At, ClientPoints
<1>8. CASE StoreLivePath(cl)
  BY <1>0, <1>8, <1>b, <1>c, <1>d, <1>e DEF StoreLivePath, At, ClientPoints
<1>9. CASE CreateLiveJob(cl)
  BY <1>9, <1>b, <1>c, <1>d, <1>f DEF CreateLiveJob, ClientPoints
<1>10. CASE SubmitLive(cl)
  BY <1>10, <1>b, <1>c, <1>d DEF SubmitLive, ClientPoints
<1>11. CASE Delete(cl)
  BY <1>11, DeleteEdges
<1>12. CASE Unlink(cl)
  BY <1>12, <1>b, <1>c, <1>d DEF Unlink, ClientPoints
<1>13. CASE BackfillGraph(cl) \/ RebuildGraph(cl)
  <2>1. c \in Captures /\ UNCHANGED capture /\ NoNewEdges
    BY <1>0, <1>13, <1>c DEF BackfillGraph, RebuildGraph, At, ClientPoints
  <2>2. \A d \in Captures : d # c => graph'[d] = graph[d]
    BY <1>13, <2>1 DEF BackfillGraph, RebuildGraph, SetGraph, InsertGraph, TypeOK
  <2>3. client[cl].seen = {} => graph'[c] = NoGraph \/ graph'[c] = graph[c]
    BY <1>13, <2>1
    DEF BackfillGraph, RebuildGraph, SetGraph, InsertGraph, GraphFrom, TypeOK
  <2>4. client[cl].seen # {} => HasEdges(cl, c)
    BY <1>13 DEF BackfillGraph, RebuildGraph, At, HasEdges
  <2> QED
    BY <1>a, <2>1, <2>2, <2>3, <2>4, EdgesStay DEF NoNewEdges
<1>14. CASE ReadEvidence(cl)
  <2>1. c \in Captures /\ UNCHANGED <<capture, graph, rows, overtaken>>
    BY <1>0, <1>14 DEF ReadEvidence, At
  <2>2. \A x \in Clients : x # cl => client'[x] = client[x]
    BY <1>14 DEF ReadEvidence, TypeOK
  <2>3. client'[cl].cap = c /\ client'[cl].seen = Sources(c)
    BY <1>14 DEF ReadEvidence, TypeOK, Handler
  <2>4. Uploaded(c) /\ capture[c].status = "deleted" /\ ~OvertakenBy(c, "analysis")
          => Sources(c) = {}
    BY <2>1 DEF OrphanInv, LeavesNoRows, Sources
  <2>5. \A d \in Captures :
          Uploaded(d) /\ capture[d].status = "deleted" /\ ~OvertakenBy(d, "analysis") =>
            \A x \in Clients : HasEdges(x, d)' => HasEdges(x, d)
    BY <2>2, <2>3, <2>4 DEF HasEdges
  <2> QED
    BY <1>a, <2>1, <2>5, EdgesStay DEF OvertakenBy
<1> QED
  BY <1>1, <1>2, <1>3, <1>4, <1>5, <1>6, <1>7, <1>8, <1>9, <1>10, <1>11, <1>12,
     <1>13, <1>14 DEF HandlerStep

(* A thread writes the graph of its own capture, which is not one of these.  *)
LEMMA ThreadEdges ==
  ASSUME TypeOK, IndInv, OrphanInv, EdgesInv, NEW j \in Jobs, ThreadStep(j)
  PROVE  EdgesInv'
<1>1. /\ ThreadEffect(j)
      /\ Commit(j) \/ Elsewhere(j)
      /\ UNCHANGED <<overtaken, restarts>>
  BY ThreadStepEffect, ThreadEvidence
<1> SUFFICES ASSUME NEW c \in Captures, Uploaded(c)', capture'[c].status = "deleted",
                    ~OvertakenBy(c, "analysis")', ~OvertakenBy(c, "graph")'
             PROVE  graph'[c] = NoGraph /\ \A x \in Clients : ~HasEdges(x, c)'
  BY DEF EdgesInv
<1>2. /\ Uploaded(c) /\ capture[c].status = "deleted"
      /\ ~OvertakenBy(c, "analysis") /\ ~OvertakenBy(c, "graph")
  BY <1>1 DEF OvertakenBy, ThreadEffect, Uploaded, CapturePresent, Active, Claimable
<1>3. job[j].cap # c
  BY <1>1, <1>2 DEF OrphanInv, Unheld, Analyzes, ThreadEffect
<1>4. graph'[c] = graph[c] /\ UNCHANGED client
  BY <1>1, <1>3 DEF Commit, Elsewhere, ThreadEffect, SetGraph, InsertGraph, TypeOK
<1> QED
  BY <1>2, <1>4 DEF EdgesInv, HasEdges

LEMMA NextEdges ==
  ASSUME TypeOK, IndInv, OrphanInv, EdgesInv, [Next]_vars
  PROVE  EdgesInv'
<1>1. CASE Restart
  <2>1. \A c \in Captures : \A x \in Clients : ~HasEdges(x, c)'
    BY <1>1, IdleHandler DEF Restart, HasEdges
  <2>2. \A c \in Captures : capture'[c].status = "deleted" => capture[c].status = "deleted"
    BY <1>1, RecoverEffect DEF Restart, TypeOK
  <2> QED
    BY <1>1, <2>1, <2>2, RestartOutside, QuietEdges DEF Restart
<1>2. CASE UNCHANGED vars
  BY <1>2 DEF vars, EdgesInv, Uploaded, HasEdges, OvertakenBy
<1> QED
  BY <1>1, <1>2, RequestEdges, HandlerEdges, ThreadEdges DEF Next

(* The inductive invariant behind the edges of deleted captures.             *)
THEOREM EdgesInvariant == Spec => []EdgesInv
<1>1. Init => EdgesInv
  BY DEF Init, EdgesInv, Uploaded
<1>2. EvidenceInv => OrphanInv
  BY DEF EvidenceInv
<1>3. TypeOK /\ IndInv /\ OrphanInv /\ EdgesInv /\ [Next]_vars => EdgesInv'
  BY NextEdges
<1> QED
  BY <1>1, <1>2, <1>3, TypeCorrect, InductiveInvariant, EvidenceInvariant, PTL DEF Spec

(* A deleted upload leaves no evidence and no job row, ever, unless its      *)
(* delete overtook an analysis claimed after the delete read the status; and *)
(* no edge of its graph, unless it overtook that or a rebuild or backfill    *)
(* that had computed its edges from rows still there.                        *)
THEOREM NoOrphans == Spec => []OrphansOnlyIfOvertaken
<1>1. EvidenceInv /\ EdgesInv => OrphansOnlyIfOvertaken
  BY DEF EvidenceInv, OrphanInv, EdgesInv, OrphansOnlyIfOvertaken, OvertakenBy
<1> QED
  BY <1>1, EvidenceInvariant, EdgesInvariant, PTL

(* Outside the threads, only a delete changes the rows of a capture.         *)
LEMMA OutsideRows ==
  ASSUME TypeOK, IndInv, RowInv, Outside, NEW c \in Captures, capture'[c].status # "deleted"
  PROVE  RowsOf(c)' = RowsOf(c) /\ Sources(c)' = Sources(c)
<1>1. RowsOf(c)' = RowsOf(c)
  BY RowsKept DEF Outside, RowsOf
<1> QED
  BY <1>1 DEF Sources

(* A thread changes the evidence of its own capture only.                    *)
LEMMA ThreadRows ==
  ASSUME TypeOK, IndInv, NEW j \in Jobs, ThreadEffect(j), Commit(j) \/ Elsewhere(j),
         NEW c \in Captures, job[j].cap # c
  PROVE  RowsOf(c)' = RowsOf(c) /\ Sources(c)' = Sources(c) /\ graph'[c] = graph[c]
<1>1. RowsOf(c)' = RowsOf(c)
  BY DEF ThreadEffect, Commit, Elsewhere, RowsOf, RowsIn, TypeOK
<1>2. graph'[c] = graph[c]
  BY DEF Commit, Elsewhere, InsertGraph, SetGraph, TypeOK
<1> QED
  BY <1>1, <1>2 DEF Sources

(* What an uploaded capture at work, or completed, was like before a step of *)
(* thread j.                                                                 *)
LEMMA ThreadAlone ==
  ASSUME TypeOK, IndInv, NEW j \in Jobs, ThreadEffect(j), NEW c \in Captures, Uploaded(c)'
  PROVE  /\ Uploaded(c)
         /\ capture'[c].status # "deleted" => capture[c].status # "deleted"
         /\ capture[c].status = "completed" => job[j].cap # c
         /\ \A k \in Jobs : job'[k].cap = job[k].cap
         /\ \A k \in Jobs : k # j => thread'[k] = thread[k]
         /\ \A k \in Jobs : k # j /\ AtWork(k) /\ job[k].cap = c => job[j].cap # c
<1>1. Uploaded(c) /\ Analyzes(j, job[j].cap)
  BY DEF ThreadEffect, Uploaded, Analyzes
<1>2. capture[c].status = "completed" => job[j].cap # c
  BY <1>1 DEF IndInv, ClaimInv, Active
<1>3. \A k \in Jobs : k # j /\ AtWork(k) /\ job[k].cap = c => job[j].cap # c
  BY <1>1 DEF IndInv, ClaimInv, Analyzes, AtWork, Alive
<1> QED
  BY <1>1, <1>2, <1>3 DEF ThreadEffect, CapturePresent, Active, Claimable

LEMMA OutsideKeepsWhole ==
  ASSUME TypeOK, IndInv, EvidenceInv, WholeInv, Outside
  PROVE  WholeInv'
<1> USE DEF EvidenceInv, WholeInv
<1>1. WrittenInv'
  <2> SUFFICES ASSUME NEW j \in Jobs, NEW c \in Captures, AtWork(j)', job'[j].cap = c,
                      Uploaded(c)', capture'[c].status # "deleted"
               PROVE  InsertsDone(j)' /\ ClearsDone(j)'
    BY DEF WrittenInv
  <2>1. AtWork(j) /\ thread'[j].pos = thread[j].pos
    BY DEF Outside, AtWork
  <2>2. job[j].cap = c /\ capture[c].status # "absent"
    BY <2>1 DEF Outside, AtWork, IndInv, JobInv
  <2>3. InsertsDone(j) /\ ClearsDone(j)
    BY <2>1, <2>2 DEF Outside, WrittenInv
  <2>4. RowsOf(c)' = RowsOf(c)
    BY OutsideRows
  <2>5. \A k : <<j, k>> \in rows' <=> <<j, k>> \in rows
    BY <2>2, <2>4 DEF Outside, RowsOf
  <2> QED
    BY <2>1, <2>2, <2>3, <2>4, <2>5 DEF InsertsDone, ClearsDone
<1>2. CompletedIsWhole'
  <2> SUFFICES ASSUME NEW c \in Captures, Uploaded(c)', capture'[c].status = "completed"
               PROVE  \E j \in Jobs : job'[j].cap = c /\ RowsOf(c)' = {<<j, k>> : k \in Inserts}
    BY DEF CompletedIsWhole
  <2>1. PICK j \in Jobs : job[j].cap = c /\ RowsOf(c) = {<<j, k>> : k \in Inserts}
    BY DEF Outside, CompletedIsWhole
  <2>2. ~Fresh(j)
    BY <2>1, ConstantsAssumption DEF IndInv, JobInv
  <2> QED
    BY <2>1, <2>2, OutsideRows DEF Outside
<1> QED
  BY <1>1, <1>2

(* Which table a step clears.                                                *)
LEMMA ClearStep ==
  ASSUME NEW n \in DOMAIN Work, Work[n].op = "delete"
  PROVE  Work[n] = Clear(Work[n].table)
<1>1. Work[n] \in WorkStep(EvidenceTables)
  BY ConstantsAssumption
<1>2. \A s \in WorkStep(EvidenceTables) : s = [op |-> s.op, table |-> s.table]
  BY DEF WorkStep
<1> QED
  BY <1>1, <1>2 DEF Clear

LEMMA NotClearStep ==
  ASSUME NEW n \in DOMAIN Work, Work[n].op # "delete", NEW t
  PROVE  Work[n] # Clear(t)
<1>1. Clear(t).op = "delete"
  BY DEF Clear
<1> QED
  BY <1>1

LEMMA CommitKeepsWritten ==
  ASSUME TypeOK, IndInv, EvidenceInv, ReplacesTables(Work), NEW j \in Jobs,
         ThreadEffect(j), Commit(j), InsertsDone(j), ClearsDone(j)
  PROVE  InsertsDone(j)' /\ ClearsDone(j)'
<1>n. PICK n \in Nat, c \in Captures : n = thread[j].pos + 1 /\ c = job[j].cap
  BY DEF TypeOK, ThreadState, ThreadEffect
<1>1. /\ thread[j].pos \in Nat /\ thread'[j].pos = n
      /\ Work \in Seq(WorkStep(EvidenceTables))
      /\ n \in DOMAIN Work
      /\ \A k \in Inserts : k \in Nat /\ k \in DOMAIN Work /\ k <= Len(Work)
      /\ n \in Inserts <=> Work[n].op = "insert" /\ ~OnGraph(j)
      /\ job'[j].cap = c /\ \A k \in Jobs : job'[k].cap = job[k].cap
  BY <1>n, ConstantsAssumption DEF TypeOK, ThreadState, Commit, Inserts, OnGraph, ThreadEffect
<1>2. \A r \in rows : r[2] \in Inserts /\ r \in Jobs \X Nat
  BY DEF EvidenceInv, RowInv, TypeOK
<1>a. ASSUME UNCHANGED rows, Work[n].op # "insert" \/ OnGraph(j),
             Work[n].op = "delete" => OnGraph(j)
      PROVE  InsertsDone(j)' /\ ClearsDone(j)'
  <2>1. \A r \in rows : Work[n] # Clear(Work[r[2]].table)
    BY <1>n, <1>1, <1>2, <1>a, NotClearStep, ClearStep DEF Clear, Inserts, OnGraph
  <2>2. RowsOf(c)' = RowsOf(c)
    BY <1>1, <1>a DEF RowsOf, TypeOK
  <2>3. InsertsDone(j)'
    BY <1>n, <1>1, <1>a DEF InsertsDone
  <2>4. ClearsDone(j)'
    BY <1>n, <1>1, <2>1, <2>2 DEF ClearsDone, RowsOf
  <2> QED
    BY <2>3, <2>4
<1>3. CASE Work[n].op \in {"job", "capture"} /\ UNCHANGED <<rows, graph>>
  BY <1>3, <1>a
<1>4. CASE Work[n].op = "delete" /\ OnGraph(j) /\ UNCHANGED rows
  BY <1>4, <1>a
<1>5. CASE Work[n].op = "insert" /\ OnGraph(j) /\ UNCHANGED rows
  BY <1>5, <1>a
<1>6. CASE Work[n].op = "insert" /\ ~OnGraph(j) /\ rows' = rows \cup {<<j, n>>}
  <2>1. InsertsDone(j)'
    BY <1>n, <1>1, <1>6 DEF InsertsDone
  <2>2. \A r \in RowsOf(c)' : r[1] # j => r \in RowsOf(c)
    BY <1>1, <1>6 DEF RowsOf, TypeOK
  <2>3. \A t : Work[n] # Clear(t)
    BY <1>1, <1>6, NotClearStep
  <2>4. ClearsDone(j)'
    BY <1>n, <1>1, <2>2, <2>3 DEF ClearsDone
  <2> QED
    BY <2>1, <2>4
<1>7. CASE Work[n].op = "delete" /\ ~OnGraph(j) /\ rows' = rows \ RowsIn(c, Work[n].table)
  <2>1. Work[n] = Clear(Work[n].table)
    BY <1>1, <1>7, ClearStep
  <2>2. \A k \in Inserts : k < n => Work[k].table # Work[n].table
    BY <1>1, <2>1 DEF ReplacesTables, Inserts
  <2>3. InsertsDone(j)'
    <3>1. \A k \in Inserts : k < n => (<<j, k>> \in rows' <=> <<j, k>> \in rows)
      BY <1>7, <2>2 DEF RowsIn
    <3>2. \A k \in Inserts : k < n <=> k <= n
      BY <1>1, <1>7
    <3>3. \A k \in Inserts : k < n <=> k <= thread[j].pos
      BY <1>n, <1>1
    <3> QED
      BY <1>1, <1>7, <3>1, <3>2, <3>3 DEF InsertsDone
  <2>4. \A r \in RowsOf(c)' : r \in RowsOf(c) /\ Work[r[2]].table # Work[n].table
    BY <1>1, <1>7 DEF RowsOf, RowsIn, TypeOK
  <2>5. \A r \in RowsOf(c)' : Work[n] # Clear(Work[r[2]].table)
    <3>1. \A t, u : Clear(t) = Clear(u) => t = u
      BY DEF Clear
    <3> QED
      BY <2>1, <2>4, <3>1
  <2>6. ClearsDone(j)'
    BY <1>n, <1>1, <2>4, <2>5 DEF ClearsDone
  <2> QED
    BY <2>3, <2>6
<1> QED
  BY <1>n, <1>3, <1>4, <1>5, <1>6, <1>7 DEF Commit

LEMMA ThreadKeepsWhole ==
  ASSUME TypeOK, IndInv, EvidenceInv, WholeInv, ReplacesTables(Work),
         NEW j \in Jobs, ThreadStep(j)
  PROVE  WholeInv'
<1>0. /\ ThreadEffect(j)
      /\ Commit(j) \/ Elsewhere(j)
  BY ThreadStepEffect, ThreadEvidence
<1>1. WrittenInv'
  <2> SUFFICES ASSUME NEW i \in Jobs, NEW c \in Captures, AtWork(i)', job'[i].cap = c,
                      Uploaded(c)', capture'[c].status # "deleted"
               PROVE  InsertsDone(i)' /\ ClearsDone(i)'
    BY DEF WrittenInv
  <2>1. /\ Uploaded(c) /\ capture[c].status # "deleted" /\ job[i].cap = c
        /\ \A k \in Jobs : job'[k].cap = job[k].cap
    BY <1>0, ThreadAlone
  <2>2. CASE i # j
    <3>1. AtWork(i) /\ thread'[i] = thread[i]
      BY <1>0, <2>2, ThreadAlone DEF AtWork
    <3>2. InsertsDone(i) /\ ClearsDone(i)
      BY <2>1, <3>1 DEF WholeInv, WrittenInv
    <3>3. job[j].cap # c
      BY <1>0, <2>1, <2>2, <3>1, ThreadAlone
    <3>4. RowsOf(c)' = RowsOf(c)
      BY <1>0, <3>3, ThreadRows
    <3>5. \A k : <<i, k>> \in rows' <=> <<i, k>> \in rows
      BY <2>1, <3>4 DEF RowsOf
    <3> QED
      BY <2>1, <3>1, <3>2, <3>4, <3>5 DEF InsertsDone, ClearsDone
  <2>3. CASE i = j /\ Commit(j)
    <3>1. AtWork(j)
      BY <2>3 DEF Commit, AtWork
    <3> QED
      BY <1>0, <2>1, <2>3, <3>1, CommitKeepsWritten DEF WholeInv, WrittenInv
  <2>4. CASE i = j /\ Elsewhere(j) /\ AtWork(j)
    <3>1. InsertsDone(j) /\ ClearsDone(j)
      BY <2>1, <2>4 DEF WholeInv, WrittenInv
    <3>2. RowsOf(c)' = RowsOf(c)
      BY <2>1, <2>4 DEF Elsewhere, RowsOf, TypeOK
    <3> QED
      BY <2>1, <2>4, <3>1, <3>2 DEF Elsewhere, InsertsDone, ClearsDone
  <2>5. CASE i = j /\ Elsewhere(j) /\ thread[j].pc = "parse"
    <3>1. thread'[j].pos = 0 /\ UNCHANGED rows
      BY <2>5 DEF Elsewhere, EvidenceInv, ProgressInv, BeforeWork
    <3>2. \A k : <<j, k>> \notin rows
      BY <2>5 DEF EvidenceInv, RowInv, BeforeWork
    <3>3. \A k \in Inserts : k \in Nat /\ k # 0
      BY ConstantsAssumption DEF Inserts
    <3> QED
      BY <2>5, <3>1, <3>2, <3>3 DEF InsertsDone, ClearsDone
  <2> QED
    BY <1>0, <2>2, <2>3, <2>4, <2>5 DEF Elsewhere
<1>2. CompletedIsWhole'
  <2> SUFFICES ASSUME NEW c \in Captures, Uploaded(c)', capture'[c].status = "completed"
               PROVE  \E i \in Jobs : job'[i].cap = c /\ RowsOf(c)' = {<<i, k>> : k \in Inserts}
    BY DEF CompletedIsWhole
  <2>1. /\ Uploaded(c) /\ capture[c].status # "deleted"
        /\ \A k \in Jobs : job'[k].cap = job[k].cap
    BY <1>0, ThreadAlone
  <2>2. CASE capture[c].status = "completed"
    <3>1. RowsOf(c)' = RowsOf(c)
      BY <1>0, <2>2, ThreadAlone, ThreadRows
    <3> QED
      BY <2>1, <2>2, <3>1 DEF WholeInv, CompletedIsWhole
  <2>3. CASE capture[c].status # "completed"
    <3>1. thread[j].pc = "finish_capture" /\ job[j].cap = c
      BY <2>1, <2>3, CompletedByFinish
    <3>2. UNCHANGED rows
      BY <1>0, <3>1 DEF Commit, Elsewhere
    <3>3. /\ thread[j].pos = Len(Work)
          /\ InsertsDone(j) /\ ClearsDone(j)
      BY <2>1, <3>1 DEF EvidenceInv, ProgressInv, WholeInv, WrittenInv, AtWork
    <3>4. ASSUME NEW r \in RowsOf(c) PROVE r[1] = j /\ r[2] \in Inserts /\ r \in Jobs \X Nat
      <4>1. r[2] \in Inserts /\ r \in Jobs \X Nat
        BY <3>4 DEF EvidenceInv, RowInv, RowsOf, TypeOK
      <4>2. PICK m \in 1..(r[2] - 1) : Work[m] = Clear(Work[r[2]].table)
        BY <4>1 DEF ReplacesTables, Inserts
      <4>3. m \in 1..Len(Work)
        BY <4>1, <4>2, ConstantsAssumption DEF Inserts
      <4> QED
        BY <3>1, <3>3, <3>4, <4>1, <4>2, <4>3 DEF ClearsDone
    <3>5. \A k \in Inserts : <<j, k>> \in RowsOf(c)
      BY <3>1, <3>3, ConstantsAssumption DEF InsertsDone, RowsOf, Inserts
    <3>6. RowsOf(c) = {<<j, k>> : k \in Inserts}
      BY <3>4, <3>5
    <3>7. RowsOf(c)' = RowsOf(c)
      BY <2>1, <3>2 DEF RowsOf, TypeOK
    <3> QED
      BY <2>1, <3>1, <3>6, <3>7
  <2> QED
    BY <2>2, <2>3
<1> QED
  BY <1>1, <1>2 DEF WholeInv

(* The inductive invariant behind the replacement of evidence.               *)
LEMMA WholeInvariant ==
  ASSUME ReplacesTables(Work)
  PROVE  Spec => []WholeInv
<1>1. Init => WholeInv
  BY DEF Init, WholeInv, WrittenInv, CompletedIsWhole, Uploaded
<1>2. TypeOK /\ IndInv /\ EvidenceInv /\ WholeInv /\ [Next]_vars => WholeInv'
  BY NextKinds, OutsideKeepsWhole, ThreadKeepsWhole
<1> QED
  BY <1>1, <1>2, TypeCorrect, InductiveInvariant, EvidenceInvariant, PTL DEF Spec

(* If the pipeline replaces each table, an uploaded capture is never shown   *)
(* as completed with anything but the whole evidence of one analysis: of any *)
(* number of analyses, wherever they failed or were cut short.               *)
THEOREM Whole ==
  ASSUME ReplacesTables(Work)
  PROVE  Spec => []CompletedIsWhole
<1>1. WholeInv => CompletedIsWhole
  BY DEF WholeInv
<1> QED
  BY <1>1, WholeInvariant, PTL

(* The graph of an analysis is as current after a step outside the threads.  *)
LEMMA OutsideGraph ==
  ASSUME TypeOK, IndInv, RowInv, Outside, NEW c \in Captures, capture'[c].status # "deleted",
         GraphCurrent(c)
  PROVE  GraphCurrent(c)'
BY OutsideRows DEF Outside, GraphCurrent

LEMMA OutsideKeepsGraph ==
  ASSUME TypeOK, IndInv, EvidenceInv, GraphInv, AnalysisGraphIsCurrent, Outside
  PROVE  GraphInv' /\ AnalysisGraphIsCurrent'
<1>1. GraphInv'
  <2> SUFFICES ASSUME NEW j \in Jobs, NEW c \in Captures, AtWork(j)', job'[j].cap = c,
                      Uploaded(c)', capture'[c].status # "deleted",
                      \E m \in 1..thread'[j].pos : Work[m] = Clear("graph_edges")
               PROVE  GraphCurrent(c)'
    BY DEF GraphInv
  <2>1. AtWork(j) /\ thread'[j].pos = thread[j].pos
    BY DEF Outside, AtWork
  <2>2. job[j].cap = c /\ capture[c].status # "absent"
    BY <2>1 DEF Outside, AtWork, IndInv, JobInv
  <2>3. GraphCurrent(c)
    BY <2>1, <2>2 DEF Outside, GraphInv
  <2> QED
    BY <2>3, OutsideGraph DEF EvidenceInv
<1>2. AnalysisGraphIsCurrent'
  <2> SUFFICES ASSUME NEW c \in Captures, Uploaded(c)', capture'[c].status = "completed"
               PROVE  GraphCurrent(c)'
    BY DEF AnalysisGraphIsCurrent, GraphCurrent
  <2>1. GraphCurrent(c)
    BY DEF Outside, AnalysisGraphIsCurrent, GraphCurrent
  <2> QED
    BY <2>1, OutsideGraph DEF EvidenceInv
<1> QED
  BY <1>1, <1>2

(* Once the old graph is cleared, no commit changes what it is computed from.*)
LEMMA CommitKeepsGraph ==
  ASSUME TypeOK, IndInv, GraphComesLast(Work), NEW j \in Jobs, ThreadEffect(j), Commit(j),
         (\E m \in 1..thread[j].pos : Work[m] = Clear("graph_edges")) => GraphCurrent(job[j].cap),
         \E m \in 1..thread'[j].pos : Work[m] = Clear("graph_edges")
  PROVE  \A c \in Captures : job[j].cap = c => GraphCurrent(c)'
<1> SUFFICES ASSUME NEW c \in Captures, c = job[j].cap
             PROVE  GraphCurrent(c)'
  OBVIOUS
<1>n. PICK n \in Nat : n = thread[j].pos + 1
  BY DEF TypeOK, ThreadState
<1>1. /\ thread[j].pos \in Nat /\ thread'[j].pos = n
      /\ n \in DOMAIN Work
      /\ \A k \in Jobs : job'[k].cap = job[k].cap
      /\ graph \in [Captures -> Graph]
  BY <1>n, ConstantsAssumption DEF TypeOK, ThreadState, Commit, ThreadEffect
<1>2. PICK m \in 1..n : Work[m] = Clear("graph_edges")
  BY <1>1
<1>3. Work[n].table \notin GraphSources
  BY <1>1, <1>2 DEF GraphComesLast
<1>4. CASE Work[n].op = "delete" /\ OnGraph(j) /\ SetGraph(c, NoGraph) /\ UNCHANGED rows
  BY <1>1, <1>4 DEF SetGraph, NoGraph, GraphCurrent
<1>5. CASE Work[n].op = "insert" /\ OnGraph(j) /\ InsertGraph(c, Sources(c), "analysis")
            /\ UNCHANGED <<rows, graph>>
  <2>1. m # n
    BY <1>2, <1>5, <1>1, NotClearStep
  <2>2. GraphCurrent(c)
    BY <1>n, <1>1, <1>2, <2>1
  <2>3. Sources(c)' = Sources(c)
    BY <1>1, <1>5 DEF Sources, RowsOf, TypeOK
  <2> QED
    BY <1>5, <2>2, <2>3 DEF GraphCurrent
<1>6. CASE Work[n].op = "insert" /\ OnGraph(j) /\ UNCHANGED rows
            /\ SetGraph(c, GraphFrom(Sources(c), "analysis")) /\ Sources(c) # {}
  <2>1. Sources(c)' = Sources(c)
    BY <1>1, <1>6 DEF Sources, RowsOf, TypeOK
  <2>2. graph'[c].from = Sources(c)
    BY <1>1, <1>6 DEF SetGraph, GraphFrom
  <2> QED
    BY <2>1, <2>2 DEF GraphCurrent
<1>7. CASE /\ UNCHANGED graph
           /\ Work[n] # Clear("graph_edges")
           /\ \/ UNCHANGED rows
              \/ rows' = rows \ RowsIn(c, Work[n].table)
              \/ rows' = rows \cup {<<j, n>>}
  <2>1. m # n
    BY <1>2, <1>7
  <2>2. GraphCurrent(c)
    BY <1>n, <1>1, <1>2, <2>1
  <2>3. Sources(c)' = Sources(c)
    BY <1>1, <1>3, <1>7 DEF Sources, RowsOf, RowsIn, TypeOK
  <2> QED
    BY <1>7, <2>2, <2>3 DEF GraphCurrent
<1>8. Work[n].op # "delete" \/ ~OnGraph(j) => Work[n] # Clear("graph_edges")
  <2>1. Clear("graph_edges").table \in KeyedTables
    BY DEF Clear, KeyedTables
  <2> QED
    BY <1>n, <1>1, <2>1, NotClearStep DEF OnGraph
<1> QED
  BY <1>n, <1>1, <1>4, <1>5, <1>6, <1>7, <1>8 DEF Commit, InsertGraph

LEMMA ThreadKeepsGraph ==
  ASSUME TypeOK, IndInv, EvidenceInv, GraphInv, AnalysisGraphIsCurrent, GraphComesLast(Work),
         NEW j \in Jobs, ThreadStep(j)
  PROVE  GraphInv' /\ AnalysisGraphIsCurrent'
<1>0. /\ ThreadEffect(j)
      /\ Commit(j) \/ Elsewhere(j)
      /\ \A k \in Jobs : job'[k].cap = job[k].cap
  BY ThreadStepEffect, ThreadEvidence DEF ThreadEffect
<1>a. ASSUME NEW c \in Captures, Elsewhere(j) \/ job[j].cap # c, GraphCurrent(c)
      PROVE  GraphCurrent(c)'
  <2>1. CASE job[j].cap # c
    BY <1>0, <1>a, <2>1, ThreadRows DEF GraphCurrent
  <2>2. CASE Elsewhere(j)
    <3>1. Sources(c)' = Sources(c) /\ UNCHANGED graph
      BY <1>0, <2>2 DEF Elsewhere, Sources, RowsOf, TypeOK
    <3> QED
      BY <1>a, <3>1 DEF GraphCurrent
  <2> QED
    BY <1>a, <2>1, <2>2
<1>1. GraphInv'
  <2> SUFFICES ASSUME NEW i \in Jobs, NEW c \in Captures, AtWork(i)', job'[i].cap = c,
                      Uploaded(c)', capture'[c].status # "deleted",
                      \E m \in 1..thread'[i].pos : Work[m] = Clear("graph_edges")
               PROVE  GraphCurrent(c)'
    BY DEF GraphInv
  <2>1. Uploaded(c) /\ capture[c].status # "deleted" /\ job[i].cap = c
    BY <1>0, ThreadAlone
  <2>2. CASE i # j
    <3>1. AtWork(i) /\ thread'[i] = thread[i] /\ job[j].cap # c
      BY <1>0, <2>1, <2>2, ThreadAlone DEF AtWork
    <3> QED
      BY <1>a, <2>1, <3>1 DEF GraphInv
  <2>3. CASE i = j /\ Commit(j)
    <3>1. AtWork(j)
      BY <2>3 DEF Commit, AtWork
    <3>2. (\E m \in 1..thread[j].pos : Work[m] = Clear("graph_edges")) => GraphCurrent(job[j].cap)
      BY <2>1, <2>3, <3>1 DEF GraphInv
    <3> QED
      BY <1>0, <2>1, <2>3, <3>2, CommitKeepsGraph
  <2>4. CASE i = j /\ Elsewhere(j)
    <3>1. thread[j].pc # "parse"
      BY <2>4 DEF Elsewhere, EvidenceInv, ProgressInv, BeforeWork
    <3>2. GraphCurrent(c)
      BY <2>1, <2>4, <3>1 DEF Elsewhere, GraphInv
    <3> QED
      BY <1>a, <2>4, <3>2
  <2> QED
    BY <1>0, <2>2, <2>3, <2>4
<1>2. AnalysisGraphIsCurrent'
  <2> SUFFICES ASSUME NEW c \in Captures, Uploaded(c)', capture'[c].status = "completed"
               PROVE  GraphCurrent(c)'
    BY DEF AnalysisGraphIsCurrent, GraphCurrent
  <2>1. Uploaded(c) /\ capture[c].status # "deleted"
    BY <1>0, ThreadAlone
  <2>2. CASE capture[c].status = "completed"
    <3>1. GraphCurrent(c) /\ job[j].cap # c
      BY <1>0, <2>1, <2>2, ThreadAlone DEF AnalysisGraphIsCurrent, GraphCurrent
    <3> QED
      BY <1>a, <3>1
  <2>3. CASE capture[c].status # "completed"
    <3>1. thread[j].pc = "finish_capture" /\ job[j].cap = c
      BY <2>1, <2>3, CompletedByFinish
    <3>2. Elsewhere(j)
      BY <1>0, <3>1 DEF Commit
    <3>3. thread[j].pos = Len(Work)
      BY <3>1 DEF EvidenceInv, ProgressInv
    <3>4. \E m \in 1..thread[j].pos : Work[m] = Clear("graph_edges")
      BY <3>3, ConstantsAssumption DEF GraphComesLast
    <3>5. GraphCurrent(c)
      BY <2>1, <3>1, <3>4 DEF GraphInv, AtWork
    <3> QED
      BY <1>a, <3>2, <3>5
  <2> QED
    BY <2>2, <2>3
<1> QED
  BY <1>1, <1>2

(* If the pipeline computes the graph when all it reads is in place, the     *)
(* graph an analysis left with a completed upload is the one of the evidence *)
(* shown with it, whatever backfills and rebuilds do at the same time.       *)
THEOREM GraphIsCurrent ==
  ASSUME GraphComesLast(Work)
  PROVE  Spec => []AnalysisGraphIsCurrent
<1>1. Init => GraphInv /\ AnalysisGraphIsCurrent
  BY DEF Init, GraphInv, AnalysisGraphIsCurrent, Uploaded
<1>2. TypeOK /\ IndInv /\ EvidenceInv /\ GraphInv /\ AnalysisGraphIsCurrent /\ [Next]_vars =>
        GraphInv' /\ AnalysisGraphIsCurrent'
  BY NextKinds, OutsideKeepsGraph, ThreadKeepsGraph
<1> QED
  BY <1>1, <1>2, TypeCorrect, InductiveInvariant, EvidenceInvariant, PTL DEF Spec

(* The pipeline of the program keeps to that order.                          *)
LEMMA Appended ==
  ASSUME NEW S, NEW s \in Seq(S), NEW t \in Seq(S)
  PROVE  /\ s \o t \in Seq(S)
         /\ Len(s \o t) = Len(s) + Len(t)
         /\ \A i \in 1..Len(s) : (s \o t)[i] = s[i]
         /\ \A i \in 1..Len(t) : (s \o t)[Len(s) + i] = t[i]
OBVIOUS

LEMMA PairAppended ==
  ASSUME NEW S, NEW s \in Seq(S), NEW a \in S, NEW b \in S
  PROVE  /\ s \o <<a, b>> \in Seq(S)
         /\ Len(s \o <<a, b>>) = Len(s) + 2
         /\ \A i \in 1..Len(s) : (s \o <<a, b>>)[i] = s[i]
         /\ (s \o <<a, b>>)[Len(s) + 1] = a
         /\ (s \o <<a, b>>)[Len(s) + 2] = b
OBVIOUS

LEMMA OneAppended ==
  ASSUME NEW S, NEW s \in Seq(S), NEW a \in S
  PROVE  /\ s \o <<a>> \in Seq(S)
         /\ Len(s \o <<a>>) = Len(s) + 1
         /\ \A i \in 1..Len(s) : (s \o <<a>>)[i] = s[i]
         /\ (s \o <<a>>)[Len(s) + 1] = a
OBVIOUS

LEMMA ReplaceAppended ==
  ASSUME NEW s \in Seq(WorkStep(EvidenceTables)), NEW t \in EvidenceTables
  PROVE  /\ s \o Replace(t) \in Seq(WorkStep(EvidenceTables))
         /\ Len(s \o Replace(t)) = Len(s) + 2
         /\ \A i \in 1..Len(s) : (s \o Replace(t))[i] = s[i]
         /\ (s \o Replace(t))[Len(s) + 1] = Clear(t)
         /\ (s \o Replace(t))[Len(s) + 2] = Fill(t)
<1>1. Clear(t) \in WorkStep(EvidenceTables) /\ Fill(t) \in WorkStep(EvidenceTables)
  BY DEF Clear, Fill, WorkStep
<1>2. Replace(t) = <<Clear(t), Fill(t)>>
  BY DEF Replace
<1> QED
  BY <1>1, <1>2, PairAppended

LEMMA PersistSteps ==
  /\ PersistResults \in Seq(WorkStep(EvidenceTables))
  /\ Len(PersistResults) = 11
  /\ PersistResults[1] = Clear("hosts")
  /\ PersistResults[2] = Fill("hosts")
  /\ PersistResults[3] = Clear("dns_transactions")
  /\ PersistResults[4] = Fill("dns_transactions")
  /\ PersistResults[5] = Clear("http_transactions")
  /\ PersistResults[6] = Fill("http_transactions")
  /\ PersistResults[7] = Clear("tls_sessions")
  /\ PersistResults[8] = Fill("tls_sessions")
  /\ PersistResults[9] = Clear("timeline_events")
  /\ PersistResults[10] = Fill("timeline_events")
  /\ PersistResults[11] = Update
<1> DEFINE S == WorkStep(EvidenceTables)
           p1 == Replace("hosts")
           p2 == p1 \o Replace("dns_transactions")
           p3 == p2 \o Replace("http_transactions")
           p4 == p3 \o Replace("tls_sessions")
           p5 == p4 \o Replace("timeline_events")
<1>1. /\ Update \in S
      /\ \A t \in EvidenceTables : Clear(t) \in S /\ Fill(t) \in S
      /\ "hosts" \in EvidenceTables /\ "dns_transactions" \in EvidenceTables
      /\ "http_transactions" \in EvidenceTables /\ "tls_sessions" \in EvidenceTables
      /\ "timeline_events" \in EvidenceTables
  BY DEF WorkStep, Update, Clear, Fill, EvidenceTables
<1>2. PersistResults = p5 \o <<Update>>
  BY DEF PersistResults
<1> HIDE DEF S
<1>3. p1 \in Seq(S) /\ Len(p1) = 2 /\ p1[1] = Clear("hosts") /\ p1[2] = Fill("hosts")
  BY <1>1 DEF Replace
<1> HIDE DEF p1
<1>4. /\ p2 \in Seq(S) /\ Len(p2) = 4
      /\ \A i \in 1..2 : p2[i] = p1[i]
      /\ p2[3] = Clear("dns_transactions") /\ p2[4] = Fill("dns_transactions")
  <2>1. p1 \in Seq(WorkStep(EvidenceTables)) /\ "dns_transactions" \in EvidenceTables
    BY <1>1, <1>3 DEF S
  <2>2. /\ p2 \in Seq(WorkStep(EvidenceTables)) /\ Len(p2) = Len(p1) + 2
        /\ \A i \in 1..Len(p1) : p2[i] = p1[i]
        /\ p2[Len(p1) + 1] = Clear("dns_transactions")
        /\ p2[Len(p1) + 2] = Fill("dns_transactions")
    BY <2>1, ReplaceAppended
  <2> HIDE DEF p2
  <2> QED
    BY <1>3, <2>2 DEF S
<1> HIDE DEF p2
<1>5. /\ p3 \in Seq(S) /\ Len(p3) = 6
      /\ \A i \in 1..4 : p3[i] = p2[i]
      /\ p3[5] = Clear("http_transactions") /\ p3[6] = Fill("http_transactions")
  <2>1. /\ p3 \in Seq(S) /\ Len(p3) = Len(p2) + 2
        /\ \A i \in 1..Len(p2) : p3[i] = p2[i]
        /\ p3[Len(p2) + 1] = Clear("http_transactions")
        /\ p3[Len(p2) + 2] = Fill("http_transactions")
    BY <1>1, <1>4, ReplaceAppended DEF S
  <2> HIDE DEF p3
  <2> QED
    BY <1>4, <2>1
<1> HIDE DEF p3
<1>6. /\ p4 \in Seq(S) /\ Len(p4) = 8
      /\ \A i \in 1..6 : p4[i] = p3[i]
      /\ p4[7] = Clear("tls_sessions") /\ p4[8] = Fill("tls_sessions")
  <2>1. /\ p4 \in Seq(S) /\ Len(p4) = Len(p3) + 2
        /\ \A i \in 1..Len(p3) : p4[i] = p3[i]
        /\ p4[Len(p3) + 1] = Clear("tls_sessions")
        /\ p4[Len(p3) + 2] = Fill("tls_sessions")
    BY <1>1, <1>5, ReplaceAppended DEF S
  <2> HIDE DEF p4
  <2> QED
    BY <1>5, <2>1
<1> HIDE DEF p4
<1>7. /\ p5 \in Seq(S) /\ Len(p5) = 10
      /\ \A i \in 1..8 : p5[i] = p4[i]
      /\ p5[9] = Clear("timeline_events") /\ p5[10] = Fill("timeline_events")
  <2>1. /\ p5 \in Seq(S) /\ Len(p5) = Len(p4) + 2
        /\ \A i \in 1..Len(p4) : p5[i] = p4[i]
        /\ p5[Len(p4) + 1] = Clear("timeline_events")
        /\ p5[Len(p4) + 2] = Fill("timeline_events")
    BY <1>1, <1>6, ReplaceAppended DEF S
  <2> HIDE DEF p5
  <2> QED
    BY <1>6, <2>1
<1> HIDE DEF p5
<1>8. /\ PersistResults \in Seq(S) /\ Len(PersistResults) = 11
      /\ \A i \in 1..10 : PersistResults[i] = p5[i]
      /\ PersistResults[11] = Update
  <2>1. /\ PersistResults \in Seq(S) /\ Len(PersistResults) = Len(p5) + 1
        /\ \A i \in 1..Len(p5) : PersistResults[i] = p5[i]
        /\ PersistResults[Len(p5) + 1] = Update
    <3> DEFINE q == p5 \o <<Update>>
    <3>1. /\ q \in Seq(S) /\ Len(q) = Len(p5) + 1
          /\ \A i \in 1..Len(p5) : q[i] = p5[i]
          /\ q[Len(p5) + 1] = Update
      <4>1. p5 \in Seq(S) /\ Update \in S
        BY <1>1, <1>7
      <4> QED
        BY <4>1, OneAppended
    <3> HIDE DEF q
    <3>2. PersistResults = q
      BY <1>2 DEF q
    <3> QED
      BY <3>1, <3>2
  <2> QED
    BY <1>7, <2>1
<1> QED
  BY <1>3, <1>4, <1>5, <1>6, <1>7, <1>8 DEF S

LEMMA FullWorkSteps ==
  ASSUME NEW batches \in Nat, NEW w, w = FullWork(batches)
  PROVE  /\ w \in Seq(WorkStep(EvidenceTables))
         /\ Len(w) = batches + 25
         /\ w[1] = Report
         /\ w[2] = Clear("packets")
         /\ \A i \in 1..batches : w[i + 2] = Fill("packets")
         /\ w[batches + 3] = Report
         /\ w[batches + 4] = Update
         /\ w[batches + 5] = Clear("flows")
         /\ w[batches + 6] = Fill("flows")
         /\ w[batches + 7] = Report
         /\ w[batches + 8] = Report
         /\ w[batches + 9] = Clear("alerts")
         /\ w[batches + 10] = Fill("alerts")
         /\ w[batches + 11] = Report
         /\ \A i \in 1..11 : w[batches + 11 + i] = PersistResults[i]
         /\ w[batches + 23] = Report
         /\ w[batches + 24] = Clear("graph_edges")
         /\ w[batches + 25] = Fill("graph_edges")
<1> DEFINE S == WorkStep(EvidenceTables)
           fills == [i \in 1..batches |-> Fill("packets")]
           w0 == <<Report>> \o PacketBatches(batches)
           w1 == w0 \o <<Report, Update>>
           w2 == w1 \o Replace("flows")
           w3 == w2 \o <<Report, Report>>
           w4 == w3 \o Replace("alerts")
           w5 == w4 \o <<Report>>
           w6 == w5 \o PersistResults
           w7 == w6 \o <<Report>>
<1>1. /\ Report \in S /\ Update \in S
      /\ \A t \in EvidenceTables : Clear(t) \in S /\ Fill(t) \in S
      /\ "packets" \in EvidenceTables /\ "flows" \in EvidenceTables
      /\ "alerts" \in EvidenceTables /\ "graph_edges" \in EvidenceTables
  BY DEF WorkStep, Report, Update, Clear, Fill, EvidenceTables
<1>2. fills \in Seq(S) /\ Len(fills) = batches /\ \A i \in 1..batches : fills[i] = Fill("packets")
  BY <1>1
<1>3. /\ PacketBatches(batches) = <<Clear("packets")>> \o fills
      /\ w = w7 \o Replace("graph_edges")
  BY DEF PacketBatches, FullWork
<1> HIDE DEF S, fills
<1>4. /\ w0 \in Seq(S) /\ Len(w0) = batches + 2
      /\ w0[1] = Report /\ w0[2] = Clear("packets")
      /\ \A i \in 1..batches : w0[i + 2] = Fill("packets")
  BY <1>1, <1>2, <1>3
<1> HIDE DEF w0
<1>5. /\ w1 \in Seq(S) /\ Len(w1) = batches + 4
      /\ \A i \in 1..(batches + 2) : w1[i] = w0[i]
      /\ w1[batches + 3] = Report /\ w1[batches + 4] = Update
  BY <1>1, <1>4, PairAppended
<1> HIDE DEF w1
<1>6. /\ w2 \in Seq(S) /\ Len(w2) = batches + 6
      /\ \A i \in 1..(batches + 4) : w2[i] = w1[i]
      /\ w2[batches + 5] = Clear("flows") /\ w2[batches + 6] = Fill("flows")
  BY <1>1, <1>5, ReplaceAppended DEF S
<1> HIDE DEF w2
<1>7. /\ w3 \in Seq(S) /\ Len(w3) = batches + 8
      /\ \A i \in 1..(batches + 6) : w3[i] = w2[i]
      /\ w3[batches + 7] = Report /\ w3[batches + 8] = Report
  BY <1>1, <1>6, PairAppended
<1> HIDE DEF w3
<1>8. /\ w4 \in Seq(S) /\ Len(w4) = batches + 10
      /\ \A i \in 1..(batches + 8) : w4[i] = w3[i]
      /\ w4[batches + 9] = Clear("alerts") /\ w4[batches + 10] = Fill("alerts")
  BY <1>1, <1>7, ReplaceAppended DEF S
<1> HIDE DEF w4
<1>9. /\ w5 \in Seq(S) /\ Len(w5) = batches + 11
      /\ \A i \in 1..(batches + 10) : w5[i] = w4[i]
      /\ w5[batches + 11] = Report
  BY <1>1, <1>8, OneAppended
<1> HIDE DEF w5
<1>10. /\ w6 \in Seq(S) /\ Len(w6) = batches + 22
       /\ \A i \in 1..(batches + 11) : w6[i] = w5[i]
       /\ \A i \in 1..11 : w6[batches + 11 + i] = PersistResults[i]
  <2>1. /\ w6 \in Seq(S) /\ Len(w6) = Len(w5) + 11
        /\ \A i \in 1..Len(w5) : w6[i] = w5[i]
        /\ \A i \in 1..11 : w6[Len(w5) + i] = PersistResults[i]
    <3>0. PersistResults \in Seq(S)
      BY PersistSteps DEF S
    <3>1. Len(PersistResults) = 11
      BY PersistSteps
    <3>2. w5 \in Seq(S)
      BY <1>9
    <3>3. /\ w6 \in Seq(S) /\ Len(w6) = Len(w5) + Len(PersistResults)
          /\ \A i \in 1..Len(w5) : w6[i] = w5[i]
          /\ \A i \in 1..Len(PersistResults) : w6[Len(w5) + i] = PersistResults[i]
      <4>1. w6 \in Seq(S) /\ Len(w6) = Len(w5) + Len(PersistResults)
        BY <3>0, <3>2, Appended
      <4>2. ASSUME NEW i \in 1..Len(w5) PROVE w6[i] = w5[i]
        BY <3>0, <3>2, Appended
      <4>3. ASSUME NEW i \in 1..Len(PersistResults) PROVE w6[Len(w5) + i] = PersistResults[i]
        BY <3>0, <3>2, Appended
      <4> QED
        BY <4>1, <4>2, <4>3
    <3> HIDE DEF w6
    <3> QED
      BY <3>1, <3>3
  <2> HIDE DEF w6
  <2> QED
    BY <1>9, <2>1
<1> HIDE DEF w6
<1>11. /\ w7 \in Seq(S) /\ Len(w7) = batches + 23
       /\ \A i \in 1..(batches + 22) : w7[i] = w6[i]
       /\ w7[batches + 23] = Report
  <2>1. w6 \in Seq(S) /\ Report \in S
    BY <1>1, <1>10
  <2>2. /\ w7 \in Seq(S) /\ Len(w7) = Len(w6) + 1
        /\ \A i \in 1..Len(w6) : w7[i] = w6[i]
        /\ w7[Len(w6) + 1] = Report
    BY <2>1, OneAppended
  <2> HIDE DEF w7
  <2> QED
    BY <1>10, <2>2
<1> HIDE DEF w7
<1>12. /\ w \in Seq(S) /\ Len(w) = batches + 25
       /\ \A i \in 1..(batches + 23) : w[i] = w7[i]
       /\ w[batches + 24] = Clear("graph_edges") /\ w[batches + 25] = Fill("graph_edges")
  <2>1. /\ w \in Seq(S) /\ Len(w) = Len(w7) + 2
        /\ \A i \in 1..Len(w7) : w[i] = w7[i]
        /\ w[Len(w7) + 1] = Clear("graph_edges")
        /\ w[Len(w7) + 2] = Fill("graph_edges")
    <3> DEFINE q == w7 \o Replace("graph_edges")
    <3>1. w7 \in Seq(WorkStep(EvidenceTables)) /\ "graph_edges" \in EvidenceTables
      BY <1>1, <1>11 DEF S
    <3>2. /\ q \in Seq(WorkStep(EvidenceTables)) /\ Len(q) = Len(w7) + 2
          /\ \A i \in 1..Len(w7) : q[i] = w7[i]
          /\ q[Len(w7) + 1] = Clear("graph_edges")
          /\ q[Len(w7) + 2] = Fill("graph_edges")
      BY <3>1, ReplaceAppended
    <3>3. w = q
      BY <1>3
    <3> HIDE DEF q
    <3> QED
      BY <3>2, <3>3 DEF S
  <2> QED
    BY <1>11, <2>1
<1>13. \A i \in 1..(batches + 11) : w[i] = w5[i]
  <2>1. \A i \in 1..(batches + 11) : w6[i] = w5[i]
    BY <1>10
  <2>2. \A i \in 1..(batches + 22) : w[i] = w6[i]
    BY <1>11, <1>12
  <2> QED
    BY <2>1, <2>2
<1>14. \A i \in 1..(batches + 4) : w[i] = w1[i]
  BY <1>6, <1>7, <1>8, <1>9, <1>13
<1>15. \A i \in 1..(batches + 2) : w[i] = w0[i]
  BY <1>5, <1>14
<1>16. /\ w[1] = Report /\ w[2] = Clear("packets")
       /\ \A i \in 1..batches : w[i + 2] = Fill("packets")
  BY <1>4, <1>15
<1>17. w[batches + 3] = Report /\ w[batches + 4] = Update
  BY <1>5, <1>14
<1>18. /\ w[batches + 5] = Clear("flows") /\ w[batches + 6] = Fill("flows")
       /\ w[batches + 7] = Report /\ w[batches + 8] = Report
  <2>1. \A i \in 1..(batches + 8) : w[i] = w3[i]
    BY <1>8, <1>9, <1>13
  <2>2. \A i \in 1..(batches + 6) : w[i] = w2[i]
    BY <1>7, <2>1
  <2>3. w[batches + 5] = Clear("flows") /\ w[batches + 6] = Fill("flows")
    BY <1>6, <2>2
  <2> QED
    BY <1>7, <2>1, <2>3
<1>19. /\ w[batches + 9] = Clear("alerts") /\ w[batches + 10] = Fill("alerts")
       /\ w[batches + 11] = Report
  BY <1>8, <1>9, <1>13
<1>20. /\ \A i \in 1..11 : w[batches + 11 + i] = PersistResults[i]
       /\ w[batches + 23] = Report
  <2>1. \A i \in 1..(batches + 22) : w[i] = w6[i]
    BY <1>11, <1>12
  <2>2. ASSUME NEW i \in 1..11 PROVE w[batches + 11 + i] = PersistResults[i]
    <3>1. batches + 11 + i \in 1..(batches + 22)
      OBVIOUS
    <3> QED
      BY <1>10, <2>1, <3>1
  <2>3. w[batches + 23] = Report
    BY <1>11, <1>12
  <2> QED
    BY <2>2, <2>3
<1> QED
  BY <1>12, <1>16, <1>17, <1>18, <1>19, <1>20 DEF S

(* In it every table is cleared before it is filled, and the graph replaced  *)
(* last, in however many batches the packets are written.                    *)
LEMMA FullWorkOrder ==
  ASSUME NEW batches \in Nat
  PROVE  ReplacesTables(FullWork(batches)) /\ GraphComesLast(FullWork(batches))
<1>w. PICK w : w = FullWork(batches)
  OBVIOUS
<1>1. /\ w \in Seq(WorkStep(EvidenceTables)) /\ Len(w) = batches + 25
      /\ DOMAIN w = 1..(batches + 25)
  BY <1>w, FullWorkSteps
<1>a. /\ w[1] = Report /\ w[2] = Clear("packets")
      /\ \A i \in 1..batches : w[i + 2] = Fill("packets")
  BY <1>w, FullWorkSteps
<1>b. /\ w[batches + 3] = Report /\ w[batches + 4] = Update
      /\ w[batches + 5] = Clear("flows") /\ w[batches + 6] = Fill("flows")
      /\ w[batches + 7] = Report /\ w[batches + 8] = Report
      /\ w[batches + 9] = Clear("alerts") /\ w[batches + 10] = Fill("alerts")
      /\ w[batches + 11] = Report
  BY <1>w, FullWorkSteps
<1>c. \A i \in 1..11 : w[batches + 11 + i] = PersistResults[i]
  BY <1>w, FullWorkSteps
<1>d. /\ w[batches + 23] = Report
      /\ w[batches + 24] = Clear("graph_edges") /\ w[batches + 25] = Fill("graph_edges")
  BY <1>w, FullWorkSteps
<1>2. /\ \A t : Clear(t).op = "delete" /\ Clear(t).table = t
      /\ \A t : Fill(t).op = "insert" /\ Fill(t).table = t
      /\ Report.op = "job" /\ Report.table = "none"
      /\ Update.op = "capture" /\ Update.table = "none"
  BY DEF Clear, Fill, Report, Update
<1>3. /\ w[batches + 12] = Clear("hosts")
      /\ w[batches + 13] = Fill("hosts")
      /\ w[batches + 14] = Clear("dns_transactions")
      /\ w[batches + 15] = Fill("dns_transactions")
      /\ w[batches + 16] = Clear("http_transactions")
      /\ w[batches + 17] = Fill("http_transactions")
      /\ w[batches + 18] = Clear("tls_sessions")
      /\ w[batches + 19] = Fill("tls_sessions")
      /\ w[batches + 20] = Clear("timeline_events")
      /\ w[batches + 21] = Fill("timeline_events")
      /\ w[batches + 22] = Update
  <2>1. /\ w[batches + 11 + 1] = PersistResults[1] /\ w[batches + 11 + 2] = PersistResults[2]
        /\ w[batches + 11 + 3] = PersistResults[3] /\ w[batches + 11 + 4] = PersistResults[4]
        /\ w[batches + 11 + 5] = PersistResults[5] /\ w[batches + 11 + 6] = PersistResults[6]
        /\ w[batches + 11 + 7] = PersistResults[7] /\ w[batches + 11 + 8] = PersistResults[8]
        /\ w[batches + 11 + 9] = PersistResults[9] /\ w[batches + 11 + 10] = PersistResults[10]
        /\ w[batches + 11 + 11] = PersistResults[11]
    BY <1>c
  <2> QED
    BY <2>1, PersistSteps
<1>4. ASSUME NEW m \in 1..(batches + 25)
      PROVE  \/ m = 2 /\ w[m] = Clear("packets")
             \/ m >= 3 /\ m <= batches + 2 /\ w[m] = Fill("packets")
             \/ m = 1 /\ w[m] = Report
             \/ m >= batches + 3
  <2>1. CASE m >= 3 /\ m <= batches + 2
    <3>1. m - 2 \in 1..batches /\ (m - 2) + 2 = m
      BY <2>1
    <3> QED
      BY <1>a, <2>1, <3>1
  <2> QED
    BY <1>a, <2>1
<1>5. ASSUME NEW m \in (batches + 3)..(batches + 25)
      PROVE  \/ w[m].op \in {"job", "capture"} /\ w[m].table = "none"
             \/ /\ w[m].op = "delete"
                /\ \/ m = batches + 5 /\ w[m].table = "flows"
                   \/ m = batches + 9 /\ w[m].table = "alerts"
                   \/ m = batches + 12 /\ w[m].table = "hosts"
                   \/ m = batches + 14 /\ w[m].table = "dns_transactions"
                   \/ m = batches + 16 /\ w[m].table = "http_transactions"
                   \/ m = batches + 18 /\ w[m].table = "tls_sessions"
                   \/ m = batches + 20 /\ w[m].table = "timeline_events"
                   \/ m = batches + 24 /\ w[m].table = "graph_edges"
             \/ /\ w[m].op = "insert"
                /\ \/ m = batches + 6 /\ w[m].table = "flows"
                   \/ m = batches + 10 /\ w[m].table = "alerts"
                   \/ m = batches + 13 /\ w[m].table = "hosts"
                   \/ m = batches + 15 /\ w[m].table = "dns_transactions"
                   \/ m = batches + 17 /\ w[m].table = "http_transactions"
                   \/ m = batches + 19 /\ w[m].table = "tls_sessions"
                   \/ m = batches + 21 /\ w[m].table = "timeline_events"
                   \/ m = batches + 25 /\ w[m].table = "graph_edges"
  <2>1. CASE m <= batches + 11
    <3>1. m \in {batches + 3, batches + 4, batches + 5, batches + 6, batches + 7, batches + 8,
                batches + 9, batches + 10, batches + 11}
      BY <2>1
    <3> QED
      BY <1>b, <1>2, <3>1
  <2>2. CASE m >= batches + 12 /\ m <= batches + 22
    <3>1. m \in {batches + 12, batches + 13, batches + 14, batches + 15, batches + 16, batches + 17,
                batches + 18, batches + 19, batches + 20, batches + 21, batches + 22}
      BY <2>2
    <3> QED
      BY <1>2, <1>3, <3>1
  <2>3. CASE m >= batches + 23
    BY <1>d, <1>2, <2>3
  <2> QED
    BY <2>1, <2>2, <2>3
<1>6. \A m \in 1..(batches + 25) : w[m].op = "delete" =>
        \/ m = 2 /\ w[m].table = "packets"
        \/ m = batches + 5 /\ w[m].table = "flows"
        \/ m = batches + 9 /\ w[m].table = "alerts"
        \/ m = batches + 12 /\ w[m].table = "hosts"
        \/ m = batches + 14 /\ w[m].table = "dns_transactions"
        \/ m = batches + 16 /\ w[m].table = "http_transactions"
        \/ m = batches + 18 /\ w[m].table = "tls_sessions"
        \/ m = batches + 20 /\ w[m].table = "timeline_events"
        \/ m = batches + 24 /\ w[m].table = "graph_edges"
  BY <1>2, <1>4, <1>5
<1>7. \A m \in 1..(batches + 25) : w[m].op = "insert" =>
        \/ m >= 3 /\ m <= batches + 2 /\ w[m].table = "packets"
        \/ m = batches + 6 /\ w[m].table = "flows"
        \/ m = batches + 10 /\ w[m].table = "alerts"
        \/ m = batches + 13 /\ w[m].table = "hosts"
        \/ m = batches + 15 /\ w[m].table = "dns_transactions"
        \/ m = batches + 17 /\ w[m].table = "http_transactions"
        \/ m = batches + 19 /\ w[m].table = "tls_sessions"
        \/ m = batches + 21 /\ w[m].table = "timeline_events"
        \/ m = batches + 25 /\ w[m].table = "graph_edges"
  BY <1>2, <1>4, <1>5
<1>8. /\ w[2] = Clear("packets")
      /\ w[batches + 5] = Clear("flows")
      /\ w[batches + 9] = Clear("alerts")
      /\ w[batches + 12] = Clear("hosts")
      /\ w[batches + 14] = Clear("dns_transactions")
      /\ w[batches + 16] = Clear("http_transactions")
      /\ w[batches + 18] = Clear("tls_sessions")
      /\ w[batches + 20] = Clear("timeline_events")
      /\ w[batches + 24] = Clear("graph_edges")
  BY <1>a, <1>b, <1>3, <1>d
<1>9. ReplacesTables(w)
  <2> SUFFICES ASSUME NEW k \in 1..(batches + 25), w[k].op = "insert", w[k].table \notin KeyedTables
               PROVE  /\ \E m \in 1..(k - 1) : w[m] = Clear(w[k].table)
                      /\ \A m \in (k + 1)..Len(w) : w[m] # Clear(w[k].table)
    BY <1>1 DEF ReplacesTables
  <2>1. PICK m \in 1..(k - 1) : w[m] = Clear(w[k].table)
    BY <1>7, <1>8 DEF KeyedTables
  <2>2. ASSUME NEW l \in (k + 1)..Len(w), w[l] = Clear(w[k].table) PROVE FALSE
    <3>1. l \in 1..(batches + 25) /\ w[l].op = "delete" /\ w[l].table = w[k].table
      BY <1>1, <1>2, <2>2
    <3> QED
      BY <1>6, <1>7, <3>1 DEF KeyedTables
  <2> QED
    BY <2>1, <2>2
<1>10. GraphComesLast(w)
  <2>1. \E m \in DOMAIN w : w[m] = Clear("graph_edges")
    BY <1>1, <1>8
  <2>2. ASSUME NEW m \in DOMAIN w, w[m] = Clear("graph_edges"), NEW n \in m..Len(w)
        PROVE  w[n].table \notin GraphSources
    <3>1. m = batches + 24
      BY <1>1, <1>2, <1>6, <2>2
    <3>2. n = batches + 24 \/ n = batches + 25
      BY <1>1, <3>1
    <3>3. w[n].table = "graph_edges"
      BY <1>d, <1>2, <3>2
    <3> QED
      BY <3>3 DEF GraphSources
  <2> QED
    BY <2>1, <2>2 DEF GraphComesLast
<1> QED
  BY <1>w, <1>9, <1>10

-----------------------------------------------------------------------------
(***************************************************************************)
(* The lifecycle implements CaptureService for uploaded captures.          *)
(***************************************************************************)
(* The phase of a capture is a matter of its row.                            *)
LEMMA PhaseCases ==
  ASSUME TypeOK, RegistrationInv, NEW c \in Captures
  PROVE  /\ ~Uploaded(c) => PhaseOf(c) = "unknown"
         /\ Uploaded(c) /\ capture[c].status = "deleted"   => PhaseOf(c) = "gone"
         /\ Uploaded(c) /\ capture[c].status \in Active    => PhaseOf(c) = "busy"
         /\ Uploaded(c) /\ capture[c].status = "completed" => PhaseOf(c) = "done"
         /\ Uploaded(c) /\ capture[c].status \in {"created", "failed"} => PhaseOf(c) = "ready"
         /\ \/ ~Uploaded(c)
            \/ capture[c].status = "deleted"
            \/ capture[c].status \in Active
            \/ capture[c].status = "completed"
            \/ capture[c].status \in {"created", "failed"}
<1>1. capture[c].status \in {"absent", "deleted"} \cup Active \cup Claimable
  BY DEF TypeOK, CaptureRow
<1>2. Uploaded(c) => capture[c].status # "absent"
  BY DEF RegistrationInv, Uploaded
<1> QED
  BY <1>1, <1>2 DEF PhaseOf, Active, Claimable

LEMMA PhaseAfter ==
  ASSUME TypeOK', RegistrationInv', NEW c \in Captures
  PROVE  /\ ~Uploaded(c)' => PhaseOf(c)' = "unknown"
         /\ Uploaded(c)' /\ capture'[c].status = "deleted"   => PhaseOf(c)' = "gone"
         /\ Uploaded(c)' /\ capture'[c].status \in Active    => PhaseOf(c)' = "busy"
         /\ Uploaded(c)' /\ capture'[c].status = "completed" => PhaseOf(c)' = "done"
         /\ Uploaded(c)' /\ capture'[c].status \in {"created", "failed"} => PhaseOf(c)' = "ready"
         /\ \/ ~Uploaded(c)'
            \/ capture'[c].status = "deleted"
            \/ capture'[c].status \in Active
            \/ capture'[c].status = "completed"
            \/ capture'[c].status \in {"created", "failed"}
<1>1. capture'[c].status \in {"absent", "deleted"} \cup Active \cup Claimable
  BY DEF TypeOK, CaptureRow
<1>2. Uploaded(c)' => capture'[c].status # "absent"
  BY DEF RegistrationInv, Uploaded
<1> QED
  BY <1>1, <1>2 DEF PhaseOf, Active, Claimable

(* A capture that is not done shows nothing.                                 *)
LEMMA ShowsNothing ==
  ASSUME NEW c, PhaseOf(c)' # "done"
  PROVE  ResultOf(c)' = NoJob
BY DEF ResultOf

(* What a capture shows depends on its phase and its rows.                   *)
LEMMA SameShown ==
  ASSUME NEW c, PhaseOf(c)' = PhaseOf(c), PhaseOf(c) = "done" => RowsOf(c)' = RowsOf(c)
  PROVE  ResultOf(c)' = ResultOf(c)
BY DEF ResultOf, Inserts

(* One capture turns and the others stay: a step of the service.             *)
LEMMA OneTurn ==
  ASSUME NEW c \in Captures,
         \A d \in Captures : d # c => PhaseOf(d)' = PhaseOf(d) /\ ResultOf(d)' = ResultOf(d),
         PhaseOf(c)' # "done" => ResultOf(c)' = NoJob,
         \/ PhaseOf(c) = "unknown" /\ PhaseOf(c)' = "ready"
         \/ PhaseOf(c) \in {"ready", "done"} /\ PhaseOf(c)' = "busy"
         \/ PhaseOf(c) = "busy" /\ PhaseOf(c)' = "ready"
         \/ PhaseOf(c) = "busy" /\ PhaseOf(c)' = "done" /\ ResultOf(c)' \in Jobs
         \/ PhaseOf(c) \in {"ready", "busy", "done"} /\ PhaseOf(c)' = "gone"
  PROVE  Service!Next
<1> DEFINE phase == [d \in Captures |-> PhaseOf(d)]
           shown == [d \in Captures |-> ResultOf(d)]
<1>1. /\ phase' = [phase EXCEPT ![c] = PhaseOf(c)']
      /\ shown' = [shown EXCEPT ![c] = ResultOf(c)']
      /\ phase[c] = PhaseOf(c)
  OBVIOUS
<1>2. ASSUME NEW from, PhaseOf(c) \in from PROVE Service!Turn(c, from, PhaseOf(c)', ResultOf(c)')
  BY <1>1, <1>2 DEF Service!Turn
<1>3. CASE PhaseOf(c) = "unknown" /\ PhaseOf(c)' = "ready"
  BY <1>2, <1>3 DEF Service!Next, Service!Register
<1>4. CASE PhaseOf(c) \in {"ready", "done"} /\ PhaseOf(c)' = "busy"
  BY <1>2, <1>4 DEF Service!Next, Service!Begin
<1>5. CASE PhaseOf(c) = "busy" /\ PhaseOf(c)' = "ready"
  BY <1>2, <1>5 DEF Service!Next, Service!GiveUp
<1>6. CASE PhaseOf(c) = "busy" /\ PhaseOf(c)' = "done" /\ ResultOf(c)' \in Jobs
  BY <1>2, <1>6 DEF Service!Next, Service!Succeed
<1>7. CASE PhaseOf(c) \in {"ready", "busy", "done"} /\ PhaseOf(c)' = "gone"
  BY <1>2, <1>7 DEF Service!Next, Service!Remove
<1> QED
  BY <1>3, <1>4, <1>5, <1>6, <1>7

(* Nothing turns: no step of the service.                                    *)
LEMMA NoTurn ==
  ASSUME \A d \in Captures : PhaseOf(d)' = PhaseOf(d) /\ ResultOf(d)' = ResultOf(d)
  PROVE  UNCHANGED Service!serviceVars
BY DEF Service!serviceVars

(* A handler that writes the row of one capture turns it, or nothing.        *)
LEMMA RowTurn ==
  ASSUME TypeOK, IndInv, EvidenceInv, TypeOK', IndInv', Outside, NEW c \in Captures,
         \A d \in Captures : d # c => capture'[d] = capture[d],
         \/ ~Uploaded(c) /\ ~Uploaded(c)'
         \/ ~Uploaded(c) /\ capture'[c].status = "created"
         \/ Uploaded(c) /\ Uploaded(c)' /\ capture'[c].status = capture[c].status
         \/ Uploaded(c) /\ Uploaded(c)' /\ capture[c].status \in Claimable
                        /\ capture'[c].status \in Active
         \/ Uploaded(c) /\ Uploaded(c)' /\ capture[c].status \in Active
                        /\ capture'[c].status = "created"
         \/ Uploaded(c) /\ Uploaded(c)' /\ CapturePresent(c) /\ capture'[c].status = "deleted"
  PROVE  [Service!Next]_(Service!serviceVars)
<1> USE DEF IndInv, EvidenceInv
<1>1. ASSUME NEW d \in Captures, PhaseOf(d)' = PhaseOf(d)
      PROVE  ResultOf(d)' = ResultOf(d)
  <2>1. CASE PhaseOf(d) = "done"
    <3>1. capture'[d].status # "deleted"
      BY <1>1, <2>1, PhaseCases DEF PhaseOf, Active
    <3> QED
      BY <1>1, <3>1, OutsideRows, SameShown
  <2> QED
    BY <1>1, <2>1, SameShown
<1>2. \A d \in Captures : d # c => PhaseOf(d)' = PhaseOf(d) /\ ResultOf(d)' = ResultOf(d)
  <2>1. \A d \in Captures : d # c => PhaseOf(d)' = PhaseOf(d)
    BY PhaseCases, PhaseAfter DEF Uploaded
  <2> QED
    BY <1>1, <2>1
<1>3. CASE PhaseOf(c)' = PhaseOf(c)
  BY <1>1, <1>2, <1>3, NoTurn
<1>4. CASE PhaseOf(c)' # PhaseOf(c)
  <2>1. \/ PhaseOf(c) = "unknown" /\ PhaseOf(c)' = "ready"
        \/ PhaseOf(c) \in {"ready", "done"} /\ PhaseOf(c)' = "busy"
        \/ PhaseOf(c) = "busy" /\ PhaseOf(c)' = "ready"
        \/ PhaseOf(c) \in {"ready", "busy", "done"} /\ PhaseOf(c)' = "gone"
    BY <1>4, PhaseCases, PhaseAfter DEF CapturePresent, Claimable
  <2>2. ResultOf(c)' = NoJob
    BY <2>1, ShowsNothing
  <2> QED
    BY <1>2, <2>1, <2>2, OneTurn
<1> QED
  BY <1>3, <1>4

(* A handler that writes no row of a capture turns nothing.                  *)
LEMMA QuietTurn ==
  ASSUME TypeOK, IndInv, EvidenceInv, TypeOK', IndInv', Outside, UNCHANGED capture
  PROVE  [Service!Next]_(Service!serviceVars)
<1>1. CASE Captures = {}
  BY <1>1, NoTurn
<1>2. ASSUME NEW c \in Captures PROVE [Service!Next]_(Service!serviceVars)
  <2>1. Uploaded(c)' <=> Uploaded(c)
    BY DEF Uploaded
  <2> QED
    BY <2>1, RowTurn
<1> QED
  BY <1>1, <1>2

LEMMA HandlerTurn ==
  ASSUME TypeOK, IndInv, EvidenceInv, TypeOK', IndInv', NEW cl \in Clients, HandlerStep(cl)
  PROVE  [Service!Next]_(Service!serviceVars)
<1>0. Outside
  BY HandlerOutside
<1>1. CASE UNCHANGED capture
  BY <1>0, <1>1, QuietTurn
<1>2. ASSUME ~UNCHANGED capture PROVE client[cl].cap \in Captures
  BY <1>2 DEF HandlerStep, RegisterUpload, StoreUploadPath, Claim, CreateJob, Submit, Revert,
              RegisterLive, StoreLivePath, CreateLiveJob, SubmitLive, Delete, Unlink,
              BackfillGraph, ReadEvidence, RebuildGraph, At, IndInv, RegistrationInv
<1>3. ASSUME NEW c \in Captures, c = client[cl].cap, ~UNCHANGED capture
      PROVE  [Service!Next]_(Service!serviceVars)
  <2>0. capture \in [Captures -> CaptureRow]
    BY DEF TypeOK
  <2>a. ASSUME NEW source \in {"upload", "live"}, CreateRow(c, source), client[cl].pc \in NewFile
        PROVE  [Service!Next]_(Service!serviceVars)
    <3>1. /\ capture'[c].status = "created"
          /\ \A d \in Captures : d # c => capture'[d] = capture[d]
      BY <2>0, <2>a, CreateRowEffect
    <3>2. ~Uploaded(c)
      BY <1>3, <2>a DEF IndInv, RegistrationInv, Uploaded
    <3> QED
      BY <1>0, <3>1, <3>2, RowTurn
  <2>b. ASSUME StorePath(c) PROVE [Service!Next]_(Service!serviceVars)
    <3>1. /\ capture'[c].status = capture[c].status
          /\ capture'[c].source = capture[c].source
          /\ \A d \in Captures : d # c => capture'[d] = capture[d]
      BY <2>0, <2>b DEF StorePath, CaptureRow
    <3> QED
      BY <1>0, <3>1, RowTurn DEF Uploaded
  <2>c. ASSUME NEW s \in {"queued", "created", "deleted"}, capture' = [capture EXCEPT ![c].status = s]
        PROVE  /\ capture'[c].status = s
               /\ Uploaded(c)' <=> Uploaded(c)
               /\ \A d \in Captures : d # c => capture'[d] = capture[d]
    BY <2>0, <2>c DEF CaptureRow, Uploaded
  <2>1. CASE RegisterUpload(cl)
    BY <1>3, <2>1, <2>a DEF RegisterUpload, DropUpload, At, NewFile
  <2>2. CASE RegisterLive(cl)
    BY <1>3, <2>2, <2>a DEF RegisterLive, At, NewFile
  <2>3. CASE StoreUploadPath(cl) \/ StoreLivePath(cl)
    BY <1>3, <2>3, <2>b DEF StoreUploadPath, StoreLivePath, DropUpload
  <2>4. CASE Claim(cl)
    <3>1. capture[c].status \in Claimable /\ capture' = [capture EXCEPT ![c].status = "queued"]
      BY <1>3, <2>4 DEF Claim
    <3> QED
      BY <1>0, <2>c, <3>1, RowTurn DEF Active
  <2>5. CASE Revert(cl)
    <3>1. CapturePresent(c) /\ capture' = [capture EXCEPT ![c].status = "created"]
      BY <1>3, <2>5 DEF Revert
    <3>2. HoldsClaim(cl, c)
      BY <1>3, <2>5 DEF Revert, At, HoldsClaim, Claiming
    <3>3. Uploaded(c) => capture[c].status \in Active \cup {"deleted"}
      BY <3>2 DEF IndInv, ClaimInv
    <3>4. Uploaded(c) => capture[c].status \in Active
      BY <3>1, <3>3 DEF CapturePresent, Active, Claimable
    <3> QED
      BY <1>0, <2>c, <3>1, <3>4, RowTurn
  <2>6. CASE Delete(cl)
    <3>1. CapturePresent(c) /\ capture' = [capture EXCEPT ![c].status = "deleted"]
      BY <1>3, <2>6 DEF Delete, DeleteRows
    <3> QED
      BY <1>0, <2>c, <3>1, RowTurn
  <2> QED
    BY <1>3, <2>1, <2>2, <2>3, <2>4, <2>5, <2>6
      DEF HandlerStep, CreateJob, Submit, CreateLiveJob, SubmitLive, Unlink,
          BackfillGraph, ReadEvidence, RebuildGraph
<1> QED
  BY <1>1, <1>2, <1>3

(* A thread ends what its claim began: the capture is done, or ready again.  *)
LEMMA ThreadTurn ==
  ASSUME TypeOK, IndInv, TypeOK', IndInv', WholeInv', NEW j \in Jobs, ThreadStep(j)
  PROVE  [Service!Next]_(Service!serviceVars)
<1> USE DEF IndInv
<1>0. /\ ThreadEffect(j)
      /\ Commit(j) \/ Elsewhere(j)
  BY ThreadStepEffect, ThreadEvidence
<1>1. PICK c \in Captures : c = job[j].cap
  BY <1>0 DEF ThreadEffect
<1>2. \A d \in Captures : Uploaded(d)' <=> Uploaded(d)
  BY <1>0 DEF ThreadEffect, Uploaded
<1>3. ASSUME NEW d \in Captures, capture'[d].status = capture[d].status
      PROVE  PhaseOf(d)' = PhaseOf(d)
  BY <1>2, <1>3, PhaseCases, PhaseAfter
<1>4. ASSUME NEW d \in Captures, d # c
      PROVE  PhaseOf(d)' = PhaseOf(d) /\ ResultOf(d)' = ResultOf(d)
  <2>1. PhaseOf(d)' = PhaseOf(d)
    BY <1>0, <1>1, <1>3, <1>4 DEF ThreadEffect
  <2>2. RowsOf(d)' = RowsOf(d)
    BY <1>0, <1>1, <1>4, ThreadRows
  <2> QED
    BY <2>1, <2>2, SameShown
<1>5. Uploaded(c) => capture[c].status \in Active \cup {"deleted"}
  BY <1>0, <1>1 DEF ClaimInv, Analyzes, ThreadEffect
<1>6. CASE PhaseOf(c)' = PhaseOf(c)
  <2>1. PhaseOf(c) # "done"
    BY <1>5, PhaseCases
  <2>2. ResultOf(c)' = ResultOf(c)
    BY <1>6, <2>1, SameShown
  <2> QED
    BY <1>4, <1>6, <2>2, NoTurn
<1>7. CASE PhaseOf(c)' # PhaseOf(c)
  <2>1. capture'[c].status # capture[c].status /\ CapturePresent(c) /\ CapturePresent(c)'
    BY <1>0, <1>3, <1>7 DEF ThreadEffect
  <2>2. Uploaded(c) /\ Uploaded(c)'
    BY <1>2, <1>7, PhaseCases, PhaseAfter
  <2>3. capture[c].status \in Active
    BY <1>5, <2>1, <2>2 DEF CapturePresent, Active, Claimable
  <2>4. PhaseOf(c) = "busy" /\ PhaseOf(c)' \in {"ready", "done"}
    BY <1>7, <2>1, <2>2, <2>3, PhaseCases, PhaseAfter DEF CapturePresent, Claimable
  <2>5. PhaseOf(c)' # "done" => ResultOf(c)' = NoJob
    BY ShowsNothing
  <2>6. ASSUME PhaseOf(c)' = "done" PROVE ResultOf(c)' \in Jobs
    <3>1. capture'[c].status = "completed"
      BY <2>2, <2>6, PhaseAfter
    <3>2. \E i \in Jobs : RowsOf(c)' = {<<i, k>> : k \in Inserts}
      BY <2>2, <3>1 DEF WholeInv, CompletedIsWhole, Inserts
    <3>3. ResultOf(c)' = CHOOSE i \in Jobs : RowsOf(c)' = {<<i, k>> : k \in Inserts}
      BY <2>6, <3>2 DEF ResultOf, Inserts
    <3> QED
      BY <3>2, <3>3
  <2> QED
    BY <1>4, <2>4, <2>5, <2>6, OneTurn
<1> QED
  BY <1>6, <1>7

(* A restart interrupts every analysis, and nothing else.                    *)
LEMMA RestartTurn ==
  ASSUME TypeOK, IndInv, EvidenceInv, TypeOK', IndInv', Restart
  PROVE  Service!Next
<1> USE DEF IndInv
<1>1. \A c \in Captures :
        /\ Uploaded(c)' <=> Uploaded(c)
        /\ capture'[c].status =
             IF capture[c].status \in Active THEN "failed" ELSE capture[c].status
  BY RecoverEffect DEF TypeOK, Restart, Uploaded
<1>2. ASSUME NEW c \in Captures
      PROVE  PhaseOf(c)' = IF PhaseOf(c) = "busy" THEN "ready" ELSE PhaseOf(c)
  BY <1>1, PhaseCases, PhaseAfter
<1>3. ASSUME NEW c \in Captures
      PROVE  ResultOf(c)' = ResultOf(c)
  <2>1. CASE PhaseOf(c) = "done"
    <3>1. capture'[c].status # "deleted"
      BY <1>1, <2>1, PhaseCases
    <3>2. RowsOf(c)' = RowsOf(c)
      BY <3>1, RestartOutside, OutsideRows DEF EvidenceInv
    <3> QED
      BY <1>2, <2>1, <3>2, SameShown
  <2>2. CASE PhaseOf(c) # "done"
    <3>1. PhaseOf(c)' # "done"
      BY <1>2, <2>2
    <3> QED
      BY <2>2, <3>1 DEF ResultOf
  <2> QED
    BY <2>1, <2>2
<1> QED
  BY <1>2, <1>3 DEF Service!Next, Service!Interrupt

LEMMA NextTurns ==
  ASSUME TypeOK, IndInv, EvidenceInv, TypeOK', IndInv', WholeInv', [Next]_vars
  PROVE  [Service!Next]_(Service!serviceVars)
<1>1. CASE UNCHANGED vars
  <2>1. UNCHANGED <<rows, job, thread, overtaken, capture, graph, client>>
    BY <1>1 DEF vars
  <2>2. Outside
    BY <2>1, IdleOutside DEF HoldsClaim
  <2> QED
    BY <2>1, <2>2, QuietTurn
<1>2. ASSUME NEW cl \in Clients, NEW c \in Captures, Request(cl, c)
      PROVE  [Service!Next]_(Service!serviceVars)
  <2>1. UNCHANGED capture
    BY <1>2 DEF Request, UploadFile, RecordLive, CheckAnalyze, CheckDelete, CheckGraph, ClearGraph
  <2> QED
    BY <1>2, <2>1, RequestOutside, QuietTurn
<1> QED
  BY <1>1, <1>2, HandlerTurn, ThreadTurn, RestartTurn DEF Next

LEMMA InitTurns ==
  ASSUME Init
  PROVE  Service!Init
<1>1. \A c \in Captures : ~Uploaded(c)
  BY DEF Init, Uploaded
<1>2. \A c \in Captures : PhaseOf(c) = "unknown"
  BY <1>1 DEF PhaseOf
<1>3. \A c \in Captures : ResultOf(c) = NoJob
  BY <1>2 DEF ResultOf
<1> QED
  BY <1>2, <1>3 DEF Service!Init

(* If the pipeline replaces each table, the handlers, the threads and the    *)
(* restarts do for an uploaded capture what the service promises: it is      *)
(* ready, busy or done, and a done one shows one result until the next claim *)
(* or its removal.                                                           *)
THEOREM Implements ==
  ASSUME ReplacesTables(Work)
  PROVE  Spec => ImplementsService
<1>1. TypeOK /\ IndInv /\ EvidenceInv /\ (TypeOK /\ IndInv /\ WholeInv)' /\ [Next]_vars
        => [Service!Next]_(Service!serviceVars)
  BY NextTurns
<1>2. Init => Service!Init
  BY InitTurns
<1> QED
  BY <1>1, <1>2, TypeCorrect, InductiveInvariant, EvidenceInvariant, WholeInvariant,
     PTL DEF Spec, ImplementsService, Service!Spec

(* All three hold of the pipeline as the program runs it.                    *)
COROLLARY FullWorkIsWhole ==
  ASSUME NEW batches \in Nat, Work = FullWork(batches)
  PROVE  Spec => []CompletedIsWhole /\ []AnalysisGraphIsCurrent /\ ImplementsService
<1>1. Spec => []CompletedIsWhole
  BY FullWorkOrder, Whole
<1>2. Spec => []AnalysisGraphIsCurrent
  BY FullWorkOrder, GraphIsCurrent
<1>3. Spec => ImplementsService
  BY FullWorkOrder, Implements
<1> QED
  BY <1>1, <1>2, <1>3
=============================================================================
