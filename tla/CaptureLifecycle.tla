-------------------------- MODULE CaptureLifecycle --------------------------
(***************************************************************************)
(* A capture from the moment its file reaches the upload directory until   *)
(* it is deleted: registration (upload or live recording), the claim and   *)
(* submission of an analysis, the analysis thread, deletion, and a restart *)
(* of the server.                                                          *)
(*                                                                         *)
(* One action is one database transaction, or one filesystem operation, of *)
(* one request handler (a "client") or one analysis thread; between two of *)
(* them any other actor may run.  The database is SQLite, so transactions  *)
(* themselves are serial.                                                  *)
(*                                                                         *)
(* A write that still meets a lock after the retries of RetryingSession    *)
(* fails (Contention).  Two cases differ.  A failed flush leaves the       *)
(* session needing a rollback that nobody issues: every later commit of    *)
(* that session is refused, so a thread in that state ends without         *)
(* recording anything.  A failed DELETE statement leaves it usable.        *)
(***************************************************************************)
EXTENDS Naturals, Sequences, FiniteSets, AnalysisPipeline

CONSTANTS
  Captures,     \* ids of capture rows, each used once
  Jobs,         \* ids of job rows, each used once; a job's thread has its name
  Clients,      \* concurrently running request handlers
  Work,         \* the commits of an analysis between parsing and completion
  MaxRestarts,  \* bound on the crashes of the server
  Contention,   \* whether lock contention can outlast the retries
  GraphRequests, \* whether requests write graph_edges besides the analyses
  NoCapture, NoJob

ASSUME ConstantsAssumption ==
  /\ Work \in Seq(WorkStep(EvidenceTables))
  /\ MaxRestarts \in Nat
  /\ Contention \in BOOLEAN
  /\ GraphRequests \in BOOLEAN
  /\ NoCapture \notin Captures
  /\ NoJob \notin Jobs

VARIABLES
  capture,    \* the captures table: status, whether stored_path is set, source
  job,        \* the analysis_jobs table: status and capture_id
  rows,       \* evidence rows: <<j, k>> are those step k of job j inserted
  graph,      \* a capture's graph_edges: who wrote them, from which rows
  file,       \* whether the capture's file is on disk
  thread,     \* analysis threads: control, position in Work, and the status
              \* the session holds in memory for the capture
  client,     \* request handlers: control, and the locals they carry along
  restarts,   \* number of restarts so far
  overtaken   \* history: captures whose delete committed during what, see Overtakes

vars == <<capture, job, rows, graph, file, thread, client, restarts, overtaken>>
-----------------------------------------------------------------------------
Active    == {"queued", "analyzing"}
Claimable == {"created", "completed", "failed"}
Terminal  == {"completed", "failed"}

ThreadPoints == {"none", "load", "begin_job", "begin_capture", "parse", "work",
                 "finish_capture", "fail_job", "fail_capture", "ended"}

ClientPoints == {"idle",
                 "uploaded", "registered",
                 "checked", "claimed", "submitting", "reverting",
                 "recorded", "live_registered", "live_stored", "live_submitting",
                 "deciding", "unlinking",
                 "backfilling", "graph_cleared", "rebuilding"}

CapturePresent(c) == capture[c].status \in Active \cup Claimable
JobPresent(j)     == job[j].status \in Terminal \cup {"queued", "running"}

Idle == [pc |-> "idle", cap |-> NoCapture, job |-> NoJob, stored |-> FALSE, seen |-> {}]

(* The rows an analysis inserts by the time it has done its whole Work.      *)
Inserts == {k \in DOMAIN Work : Work[k].op = "insert" /\ Work[k].table \notin KeyedTables}

RowsOf(c)        == {r \in rows : job[r[1]].cap = c}
RowsIn(c, table) == {r \in RowsOf(c) : Work[r[2]].table = table}

(* EvidenceGraphBuilder.build: the edges of a capture are computed from its  *)
(* other evidence.  Their ids are computed too, so two graphs of a capture   *)
(* do not fit into the table side by side.  (Without evidence no edges.)     *)
Sources(c) == {r \in RowsOf(c) : Work[r[2]].table \in GraphSources}

NoGraph == [by |-> "nobody", from |-> {}]
GraphFrom(evidence, by) == IF evidence = {} THEN NoGraph ELSE [by |-> by, from |-> evidence]
SetGraph(c, g)          == graph' = [graph EXCEPT ![c] = g]

Collides(c, evidence) == evidence # {} /\ graph[c] # NoGraph
InsertGraph(c, evidence, by) ==
  /\ ~Collides(c, evidence)
  /\ IF evidence = {} THEN UNCHANGED graph ELSE SetGraph(c, GraphFrom(evidence, by))

(* A fresh job row for capture c.                                            *)
Fresh(j) == job[j].status = "absent"

CaptureRow  == [status : {"absent", "deleted"} \cup Active \cup Claimable,
                stored : BOOLEAN, source : {"none", "upload", "live"}]
JobRow      == [status : {"absent", "queued", "running", "deleted"} \cup Terminal,
                cap : Captures \cup {NoCapture}]
ThreadState == [pc : ThreadPoints, pos : Nat, mem : {"none"} \cup Active \cup Claimable]
Handler     == [pc : ClientPoints, cap : Captures \cup {NoCapture},
                job : Jobs \cup {NoJob}, stored : BOOLEAN, seen : SUBSET (Jobs \X Nat)]
Graph       == [by : {"nobody", "analysis", "rebuild", "backfill"},
                from : SUBSET (Jobs \X Nat)]

TypeOK ==
  /\ capture \in [Captures -> CaptureRow]
  /\ job \in [Jobs -> JobRow]
  /\ rows \subseteq Jobs \X Nat
  /\ graph \in [Captures -> Graph]
  /\ file \in [Captures -> BOOLEAN]
  /\ thread \in [Jobs -> ThreadState]
  /\ client \in [Clients -> Handler]
  /\ restarts \in 0..MaxRestarts
  /\ overtaken \subseteq Captures \X {"analysis", "graph"}

Init ==
  /\ capture = [c \in Captures |-> [status |-> "absent", stored |-> FALSE, source |-> "none"]]
  /\ job = [j \in Jobs |-> [status |-> "absent", cap |-> NoCapture]]
  /\ rows = {}
  /\ graph = [c \in Captures |-> NoGraph]
  /\ file = [c \in Captures |-> FALSE]
  /\ thread = [j \in Jobs |-> [pc |-> "none", pos |-> 0, mem |-> "none"]]
  /\ client = [cl \in Clients |-> Idle]
  /\ restarts = 0
  /\ overtaken = {}
-----------------------------------------------------------------------------
(***************************************************************************)
(* Request handlers.  Move goes on to the next point of the handler, Answer *)
(* returns to the caller (with a result or an error) and drops its locals.  *)
(***************************************************************************)
At(cl, pc)   == client[cl].pc = pc
Move(cl, pc) == client' = [client EXCEPT ![cl].pc = pc]
Answer(cl)   == client' = [client EXCEPT ![cl] = Idle]
Begin(cl, pc, c) == client' = [client EXCEPT ![cl] = [Idle EXCEPT !.pc = pc, !.cap = c]]

(* Bound: a handler that will need a job row starts only while one is left.  *)
JobsLeft ==
  Cardinality({cl \in Clients : client[cl].pc \in
      {"checked", "claimed", "recorded", "live_registered", "live_stored"}})
    < Cardinality({j \in Jobs : Fresh(j)})

(* ---- POST /api/captures: the file first, then the row, then its path ---- *)
UploadFile(cl, c) ==
  /\ At(cl, "idle") /\ capture[c].status = "absent" /\ ~file[c]
  /\ file' = [file EXCEPT ![c] = TRUE]
  /\ Begin(cl, "uploaded", c)
  /\ UNCHANGED <<capture, job, rows, graph, thread, restarts, overtaken>>

(* CaptureRepository.create                                                  *)
CreateRow(c, source) ==
  capture' = [capture EXCEPT ![c] = [status |-> "created", stored |-> FALSE,
                                     source |-> source]]

(* CaptureRepository.update: an UPDATE that finds no row fails the flush.    *)
StorePath(c) == CapturePresent(c) /\ capture' = [capture EXCEPT ![c].stored = TRUE]

(* The handler's except branch: remove the file, re-raise.                   *)
DropUpload(cl) ==
  /\ file' = [file EXCEPT ![client[cl].cap] = FALSE]
  /\ Answer(cl)
  /\ UNCHANGED capture

RegisterUpload(cl) ==
  /\ At(cl, "uploaded")
  /\ \/ CreateRow(client[cl].cap, "upload") /\ Move(cl, "registered") /\ UNCHANGED file
     \/ Contention /\ DropUpload(cl)
  /\ UNCHANGED <<job, rows, graph, thread, restarts, overtaken>>

StoreUploadPath(cl) ==
  /\ At(cl, "registered")
  /\ \/ StorePath(client[cl].cap) /\ Answer(cl) /\ UNCHANGED file
     \/ (Contention \/ ~CapturePresent(client[cl].cap)) /\ DropUpload(cl)
  /\ UNCHANGED <<job, rows, graph, thread, restarts, overtaken>>

(* ---- POST /api/captures/{id}/analyze ---- *)
CheckAnalyze(cl, c) ==
  /\ At(cl, "idle") /\ CapturePresent(c) /\ capture[c].stored /\ file[c]
  /\ JobsLeft
  /\ Begin(cl, "checked", c)
  /\ UNCHANGED <<capture, job, rows, graph, file, thread, restarts, overtaken>>

(* Fault: a claim that sets the status without looking at it.                *)
UnguardedClaim(cl) ==
  /\ At(cl, "checked")
  /\ capture' = [capture EXCEPT ![client[cl].cap].status = "queued"]
  /\ Move(cl, "claimed")
  /\ UNCHANGED <<job, rows, graph, file, thread, restarts, overtaken>>

(* claim_for_analysis: one guarded UPDATE; no row updated is a 409.          *)
Claim(cl) ==
  LET c == client[cl].cap IN
  /\ At(cl, "checked")
  /\ \/ /\ capture[c].status \in Claimable
        /\ capture' = [capture EXCEPT ![c].status = "queued"]
        /\ Move(cl, "claimed")
     \/ /\ Contention \/ capture[c].status \notin Claimable
        /\ Answer(cl) /\ UNCHANGED capture
  /\ UNCHANGED <<job, rows, graph, file, thread, restarts, overtaken>>

(* JobRepository.create: the row names a capture but does not require it.    *)
InsertJob(cl, pc) ==
  \E j \in Jobs :
    /\ Fresh(j)
    /\ job' = [job EXCEPT ![j] = [status |-> "queued", cap |-> client[cl].cap]]
    /\ client' = [client EXCEPT ![cl].pc = pc, ![cl].job = j]

(* It stands outside the handler's try: on failure the claim is not undone.  *)
CreateJob(cl) ==
  /\ At(cl, "claimed")
  /\ \/ InsertJob(cl, "submitting")
     \/ Contention /\ Answer(cl) /\ UNCHANGED job
  /\ UNCHANGED <<capture, rows, graph, file, thread, restarts, overtaken>>

(* JobManager.submit                                                         *)
StartThread(j) == thread' = [thread EXCEPT ![j].pc = "load"]

(* Thread.start may raise when the process is out of threads.                *)
Submit(cl) ==
  /\ At(cl, "submitting")
  /\ \/ StartThread(client[cl].job) /\ Answer(cl)
     \/ Move(cl, "reverting") /\ UNCHANGED thread
  /\ UNCHANGED <<capture, job, rows, graph, file, restarts, overtaken>>

(* Faults: a submission failure that forgets the claim, and one that resets  *)
(* it to a status nothing else knows.                                        *)
ForgetClaim(cl) ==
  /\ At(cl, "reverting")
  /\ Answer(cl)
  /\ UNCHANGED <<capture, job, rows, graph, file, thread, restarts, overtaken>>

UnknownStatus(cl) ==
  /\ At(cl, "reverting")
  /\ capture' = [capture EXCEPT ![client[cl].cap].status = "uploaded"]
  /\ Answer(cl)
  /\ UNCHANGED <<job, rows, graph, file, thread, restarts, overtaken>>

Revert(cl) ==
  LET c == client[cl].cap IN
  /\ At(cl, "reverting")
  /\ \/ CapturePresent(c) /\ capture' = [capture EXCEPT ![c].status = "created"]
     \/ (Contention \/ ~CapturePresent(c)) /\ UNCHANGED capture
  /\ Answer(cl)
  /\ UNCHANGED <<job, rows, graph, file, thread, restarts, overtaken>>

(* ---- LiveCaptureManager._persist: registers and submits, never claims ---- *)
RecordLive(cl, c) ==
  /\ At(cl, "idle") /\ capture[c].status = "absent" /\ ~file[c]
  /\ JobsLeft
  /\ file' = [file EXCEPT ![c] = TRUE]
  /\ Begin(cl, "recorded", c)
  /\ UNCHANGED <<capture, job, rows, graph, thread, restarts, overtaken>>

RegisterLive(cl) ==
  /\ At(cl, "recorded")
  /\ \/ CreateRow(client[cl].cap, "live") /\ Move(cl, "live_registered")
     \/ Contention /\ Answer(cl) /\ UNCHANGED capture
  /\ UNCHANGED <<job, rows, graph, file, thread, restarts, overtaken>>

StoreLivePath(cl) ==
  LET c == client[cl].cap IN
  /\ At(cl, "live_registered")
  /\ \/ StorePath(c) /\ Move(cl, "live_stored")
     \/ (Contention \/ ~CapturePresent(c)) /\ Answer(cl) /\ UNCHANGED capture
  /\ UNCHANGED <<job, rows, graph, file, thread, restarts, overtaken>>

CreateLiveJob(cl) ==
  /\ At(cl, "live_stored")
  /\ \/ InsertJob(cl, "live_submitting")
     \/ Contention /\ Answer(cl) /\ UNCHANGED job
  /\ UNCHANGED <<capture, rows, graph, file, thread, restarts, overtaken>>

SubmitLive(cl) ==
  /\ At(cl, "live_submitting")
  /\ StartThread(client[cl].job) \/ UNCHANGED thread
  /\ Answer(cl)
  /\ UNCHANGED <<capture, job, rows, graph, file, restarts, overtaken>>

(* ---- DELETE /api/captures/{id} ---- *)
(* The status is read here, in a transaction that ends before the deletion   *)
(* begins; so is the path of the file to unlink.                             *)
CheckDelete(cl, c) ==
  /\ At(cl, "idle") /\ CapturePresent(c) /\ capture[c].status \notin Active
  /\ client' = [client EXCEPT ![cl] = [Idle EXCEPT !.pc = "deciding", !.cap = c,
                                                   !.stored = capture[c].stored]]
  /\ UNCHANGED <<capture, job, rows, graph, file, thread, restarts, overtaken>>

(* Fault: a delete that does not know the evidence tables.                   *)
DeleteRowAndJobs(c) ==
  /\ UNCHANGED <<rows, graph>>
  /\ job' = [j \in Jobs |-> IF job[j].cap = c /\ JobPresent(j)
                            THEN [job[j] EXCEPT !.status = "deleted"] ELSE job[j]]
  /\ capture' = [capture EXCEPT ![c].status = "deleted"]

(* CaptureRepository.delete_capture: evidence, jobs and row, all or nothing. *)
DeleteRows(c) ==
  /\ rows' = rows \ RowsOf(c)
  /\ SetGraph(c, NoGraph)
  /\ job' = [j \in Jobs |-> IF job[j].cap = c /\ JobPresent(j)
                            THEN [job[j] EXCEPT !.status = "deleted"] ELSE job[j]]
  /\ capture' = [capture EXCEPT ![c].status = "deleted"]

(* What a delete of c that commits now gets ahead of: an analysis that was   *)
(* claimed, and a rebuild or backfill that has computed edges to insert.     *)
HasEdges(cl, c) ==
  client[cl].cap = c /\ client[cl].pc \in {"backfilling", "rebuilding"} /\ client[cl].seen # {}
Overtakes(c) ==
  {c} \X {what \in {"analysis", "graph"} :
             \/ what = "analysis" /\ capture[c].status \in Active
             \/ what = "graph" /\ \E cl \in Clients : HasEdges(cl, c)}

(* Fault: a delete that unlinks the file although its transaction failed.    *)
DeleteAnyway(cl) ==
  LET c == client[cl].cap IN
  /\ At(cl, "deciding")
  /\ \/ /\ CapturePresent(c) /\ DeleteRows(c)
        /\ overtaken' = overtaken \cup Overtakes(c)
     \/ Contention /\ UNCHANGED <<capture, job, rows, graph, overtaken>>
  /\ Move(cl, "unlinking")
  /\ UNCHANGED <<file, thread, restarts>>

Delete(cl) ==
  LET c == client[cl].cap IN
  /\ At(cl, "deciding")
  /\ \/ /\ CapturePresent(c)
        /\ DeleteRows(c)
        /\ overtaken' = overtaken \cup Overtakes(c)
        /\ IF client[cl].stored THEN Move(cl, "unlinking") ELSE Answer(cl)
     \/ /\ Contention \/ ~CapturePresent(c)
        /\ Answer(cl) /\ UNCHANGED <<capture, job, rows, graph, overtaken>>
  /\ UNCHANGED <<file, thread, restarts>>

(* Best effort: an OSError leaves the file behind.                           *)
Unlink(cl) ==
  /\ At(cl, "unlinking")
  /\ file' = [file EXCEPT ![client[cl].cap] = FALSE] \/ UNCHANGED file
  /\ Answer(cl)
  /\ UNCHANGED <<capture, job, rows, graph, thread, restarts, overtaken>>

(* ---- GET /api/graph/v2: a completed capture without edges gets them ----  *)
CheckGraph(cl, c) ==
  /\ GraphRequests /\ At(cl, "idle")
  /\ capture[c].status = "completed" /\ graph[c] = NoGraph
  /\ client' = [client EXCEPT ![cl] = [Idle EXCEPT !.pc = "backfilling", !.cap = c,
                                                   !.seen = Sources(c)]]
  /\ UNCHANGED <<capture, job, rows, graph, file, thread, restarts, overtaken>>

(* ensure_materialized: whatever edges there are now are replaced in one     *)
(* transaction by those computed before it.                                  *)
BackfillGraph(cl) ==
  LET c == client[cl].cap IN
  /\ At(cl, "backfilling")
  /\ SetGraph(c, GraphFrom(client[cl].seen, "backfill")) \/ (Contention /\ UNCHANGED graph)
  /\ Answer(cl)
  /\ UNCHANGED <<capture, job, rows, file, thread, restarts, overtaken>>

(* ---- POST, DELETE /api/cases/{id}/captures: once membership has changed,  *)
(* rebuild_for_capture deletes, computes and inserts, whatever the status.   *)
ClearGraph(cl, c) ==
  /\ GraphRequests /\ At(cl, "idle") /\ CapturePresent(c)
  /\ SetGraph(c, NoGraph)
  /\ Begin(cl, "graph_cleared", c)
  /\ UNCHANGED <<capture, job, rows, file, thread, restarts, overtaken>>

ReadEvidence(cl) ==
  /\ At(cl, "graph_cleared")
  /\ client' = [client EXCEPT ![cl].pc = "rebuilding", ![cl].seen = Sources(client[cl].cap)]
  /\ UNCHANGED <<capture, job, rows, graph, file, thread, restarts, overtaken>>

RebuildGraph(cl) ==
  LET c == client[cl].cap IN
  /\ At(cl, "rebuilding")
  /\ \/ InsertGraph(c, client[cl].seen, "rebuild")
     \/ (Contention \/ Collides(c, client[cl].seen)) /\ UNCHANGED graph
  /\ Answer(cl)
  /\ UNCHANGED <<capture, job, rows, file, thread, restarts, overtaken>>
-----------------------------------------------------------------------------
(***************************************************************************)
(* The analysis thread of job j: JobManager._run_job and run_full_analysis *)
(***************************************************************************)
Running(j, pc) == thread[j].pc = pc
Goto(j, pc)    == thread' = [thread EXCEPT ![j].pc = pc]
Alive(j)       == thread[j].pc \notin {"none", "ended"}

(* A flush failed, on a lock or because its row is gone.  The session now    *)
(* refuses every commit, the failure handler's too, so the thread just ends. *)
FlushFails(j, rowThere) ==
  /\ Contention \/ ~rowThere
  /\ Goto(j, "ended")
  /\ UNCHANGED <<capture, job, rows, graph>>

(* captures.update on the row as the session loaded it: only what differs is *)
(* written, unless the commit is retried.  The replay marks every attribute  *)
(* changed, so the status in memory (Kept) goes out along with it.  Then the *)
(* session refreshes what it holds.                                          *)
Kept(j) == {capture[job[j].cap].status, thread[j].mem}

SaveCapture(j, statuses, next) ==
  /\ CapturePresent(job[j].cap)
  /\ \E now \in statuses :
       /\ capture' = [capture EXCEPT ![job[j].cap].status = now]
       /\ thread' = [thread EXCEPT ![j] = [next EXCEPT !.mem = now]]

WriteStatus(j, status, pc) ==
  SaveCapture(j, IF thread[j].mem = status THEN Kept(j) ELSE {status},
              [thread[j] EXCEPT !.pc = pc])

SetJob(j, status) == JobPresent(j) /\ job' = [job EXCEPT ![j].status = status]

(* _run_job: returns silently if the capture or the job is gone.             *)
LoadRows(j) ==
  /\ Running(j, "load")
  /\ IF CapturePresent(job[j].cap) /\ JobPresent(j)
     THEN thread' = [thread EXCEPT ![j].pc = "begin_job",
                                   ![j].mem = capture[job[j].cap].status]
     ELSE Goto(j, "ended")
  /\ UNCHANGED <<capture, job, rows, graph, file, client, restarts, overtaken>>

BeginJob(j) ==
  /\ Running(j, "begin_job")
  /\ \/ SetJob(j, "running") /\ Goto(j, "begin_capture") /\ UNCHANGED <<capture, rows, graph>>
     \/ FlushFails(j, JobPresent(j))
  /\ UNCHANGED <<file, client, restarts, overtaken>>

BeginCapture(j) ==
  /\ Running(j, "begin_capture")
  /\ \/ WriteStatus(j, "analyzing", "parse") /\ UNCHANGED <<job, rows, graph>>
     \/ FlushFails(j, CapturePresent(job[j].cap))
  /\ UNCHANGED <<file, client, restarts, overtaken>>

(* parser.parse_file with its progress commits, the last one at its end.     *)
Parse(j) ==
  LET c == job[j].cap IN
  /\ Running(j, "parse")
  /\ \/ /\ file[c] /\ JobPresent(j)
        /\ SaveCapture(j, Kept(j), [thread[j] EXCEPT !.pc = "work"])
        /\ UNCHANGED <<job, rows, graph>>
     \/ file[c] /\ FlushFails(j, CapturePresent(c) /\ JobPresent(j))
  /\ UNCHANGED <<file, client, restarts, overtaken>>

(* The parser, a builder or a detector raises; a missing file always does.   *)
AnalysisRaises(j) ==
  /\ thread[j].pc \in {"parse", "work"}
  /\ Goto(j, "fail_job")
  /\ UNCHANGED <<capture, job, rows, graph, file, client, restarts, overtaken>>

(* The next commit of the pipeline, and the step past it.                    *)
NextStep(j, op) ==
  /\ Running(j, "work") /\ thread[j].pos < Len(Work)
  /\ Work[thread[j].pos + 1].op = op
Advance(j) == thread' = [thread EXCEPT ![j].pos = @ + 1]

ReportProgress(j) ==
  /\ NextStep(j, "job")
  /\ \/ JobPresent(j) /\ Advance(j) /\ UNCHANGED <<capture, job, rows, graph>>
     \/ FlushFails(j, JobPresent(j))
  /\ UNCHANGED <<file, client, restarts, overtaken>>

UpdateCapture(j) ==
  /\ NextStep(j, "capture")
  /\ \/ /\ SaveCapture(j, Kept(j), [thread[j] EXCEPT !.pos = @ + 1])
        /\ UNCHANGED <<job, rows, graph>>
     \/ FlushFails(j, CapturePresent(job[j].cap))
  /\ UNCHANGED <<file, client, restarts, overtaken>>

(* Fault: inserting without clearing first.                                  *)
ClearNothing(j) ==
  /\ NextStep(j, "delete")
  /\ Advance(j)
  /\ UNCHANGED <<capture, job, rows, graph, file, client, restarts, overtaken>>

(* The next commit is about graph_edges, or it is about another table.       *)
OnGraph(j) == Work[thread[j].pos + 1].table \in KeyedTables

(* delete_for_capture: a statement that fails leaves the session usable, so  *)
(* the failure handler runs.                                                 *)
ClearTable(j) ==
  /\ NextStep(j, "delete")
  /\ \/ /\ IF OnGraph(j)
           THEN SetGraph(job[j].cap, NoGraph) /\ UNCHANGED rows
           ELSE /\ rows' = rows \ RowsIn(job[j].cap, Work[thread[j].pos + 1].table)
                /\ UNCHANGED graph
        /\ Advance(j)
     \/ Contention /\ Goto(j, "fail_job") /\ UNCHANGED <<rows, graph>>
  /\ UNCHANGED <<capture, job, file, client, restarts, overtaken>>

(* create_many: nothing in the database ties a row to an existing capture.   *)
FillTable(j) ==
  /\ NextStep(j, "insert") /\ ~OnGraph(j)
  /\ \/ /\ rows' = rows \cup {<<j, thread[j].pos + 1>>}
        /\ Advance(j)
        /\ UNCHANGED <<capture, job, graph>>
     \/ FlushFails(j, TRUE)
  /\ UNCHANGED <<file, client, restarts, overtaken>>

(* The graph is computed from the evidence, then inserted.                   *)
FillGraph(j) ==
  LET c == job[j].cap IN
  /\ NextStep(j, "insert") /\ OnGraph(j)
  /\ \/ /\ InsertGraph(c, Sources(c), "analysis")
        /\ Advance(j)
        /\ UNCHANGED <<capture, job, rows>>
     \/ FlushFails(j, ~Collides(c, Sources(c)))
  /\ UNCHANGED <<file, client, restarts, overtaken>>

(* The job row is completed first, the capture row in a later commit.        *)
FinishJob(j) ==
  /\ Running(j, "work") /\ thread[j].pos = Len(Work)
  /\ \/ SetJob(j, "completed") /\ Goto(j, "finish_capture") /\ UNCHANGED <<capture, rows, graph>>
     \/ FlushFails(j, JobPresent(j))
  /\ UNCHANGED <<file, client, restarts, overtaken>>

FinishCapture(j) ==
  /\ Running(j, "finish_capture")
  /\ \/ WriteStatus(j, "completed", "ended") /\ UNCHANGED <<job, rows, graph>>
     \/ FlushFails(j, CapturePresent(job[j].cap))
  /\ UNCHANGED <<file, client, restarts, overtaken>>

(* Fault: a failure recorded on the capture alone.                           *)
FailCaptureOnly(j) ==
  /\ Running(j, "fail_job") /\ Goto(j, "fail_capture")
  /\ UNCHANGED <<capture, job, rows, graph, file, client, restarts, overtaken>>

(* The except branch: the job row, then the capture row.                     *)
FailJob(j) ==
  /\ Running(j, "fail_job")
  /\ \/ SetJob(j, "failed") /\ Goto(j, "fail_capture") /\ UNCHANGED <<capture, rows, graph>>
     \/ FlushFails(j, JobPresent(j))
  /\ UNCHANGED <<file, client, restarts, overtaken>>

FailCapture(j) ==
  /\ Running(j, "fail_capture")
  /\ \/ WriteStatus(j, "failed", "ended") /\ UNCHANGED <<job, rows, graph>>
     \/ FlushFails(j, CapturePresent(job[j].cap))
  /\ UNCHANGED <<file, client, restarts, overtaken>>
-----------------------------------------------------------------------------
(***************************************************************************)
(* The server dies, with every handler and thread in it, and starts again: *)
(* _recover_interrupted_jobs fails what was in progress, in one            *)
(* transaction, before any request is served.                              *)
(***************************************************************************)
(* Faults: recovery that does not look at the status it replaces.            *)
RecoverEveryJob ==
  /\ capture' = [c \in Captures |-> IF capture[c].status \in Active
                                    THEN [capture[c] EXCEPT !.status = "failed"] ELSE capture[c]]
  /\ job' = [j \in Jobs |-> IF JobPresent(j)
                            THEN [job[j] EXCEPT !.status = "failed"] ELSE job[j]]

RecoverEveryCapture ==
  /\ capture' = [c \in Captures |-> IF CapturePresent(c)
                                    THEN [capture[c] EXCEPT !.status = "failed"] ELSE capture[c]]
  /\ job' = [j \in Jobs |-> IF job[j].status \in {"queued", "running"}
                            THEN [job[j] EXCEPT !.status = "failed"] ELSE job[j]]

Recover ==
  /\ capture' = [c \in Captures |-> IF capture[c].status \in Active
                                    THEN [capture[c] EXCEPT !.status = "failed"] ELSE capture[c]]
  /\ job' = [j \in Jobs |-> IF job[j].status \in {"queued", "running"}
                            THEN [job[j] EXCEPT !.status = "failed"] ELSE job[j]]

Restart ==
  /\ restarts < MaxRestarts
  /\ restarts' = restarts + 1
  /\ Recover
  /\ thread' = [j \in Jobs |-> IF Alive(j) THEN [thread[j] EXCEPT !.pc = "ended"] ELSE thread[j]]
  /\ client' = [cl \in Clients |-> Idle]
  /\ UNCHANGED <<rows, graph, file, overtaken>>
-----------------------------------------------------------------------------
HandlerStep(cl) ==
  \/ RegisterUpload(cl) \/ StoreUploadPath(cl)
  \/ Claim(cl) \/ CreateJob(cl) \/ Submit(cl) \/ Revert(cl)
  \/ RegisterLive(cl) \/ StoreLivePath(cl) \/ CreateLiveJob(cl) \/ SubmitLive(cl)
  \/ Delete(cl) \/ Unlink(cl)
  \/ BackfillGraph(cl) \/ ReadEvidence(cl) \/ RebuildGraph(cl)

Request(cl, c) ==
  \/ UploadFile(cl, c) \/ RecordLive(cl, c) \/ CheckAnalyze(cl, c) \/ CheckDelete(cl, c)
  \/ CheckGraph(cl, c) \/ ClearGraph(cl, c)

ThreadStep(j) ==
  \/ LoadRows(j) \/ BeginJob(j) \/ BeginCapture(j) \/ Parse(j) \/ AnalysisRaises(j)
  \/ ReportProgress(j) \/ UpdateCapture(j) \/ ClearTable(j) \/ FillTable(j) \/ FillGraph(j)
  \/ FinishJob(j) \/ FinishCapture(j) \/ FailJob(j) \/ FailCapture(j)

Next ==
  \/ \E cl \in Clients, c \in Captures : Request(cl, c)
  \/ \E cl \in Clients : HandlerStep(cl)
  \/ \E j \in Jobs : ThreadStep(j)
  \/ Restart

Spec == Init /\ [][Next]_vars

(* A handler or a thread that has started runs on; nobody has to send a      *)
(* request, and the server need not crash.                                   *)
Fairness ==
  /\ \A cl \in Clients : WF_vars(HandlerStep(cl))
  /\ \A j \in Jobs : WF_vars(ThreadStep(j))

FairSpec == Spec /\ Fairness
-----------------------------------------------------------------------------
(***************************************************************************)
(* Properties.                                                             *)
(***************************************************************************)
Uploaded(c) == capture[c].source = "upload"
Settled(c)  == capture[c].status \notin Active

(* Who is working on an analysis of c: a handler between its claim and its   *)
(* submission, or a thread.                                                  *)
Holders(c) ==
  {<<"handler", cl>> : cl \in {x \in Clients : /\ client[x].cap = c
                                               /\ client[x].pc \in {"claimed", "submitting", "reverting"}}}
    \cup {<<"thread", j>> : j \in {x \in Jobs : job[x].cap = c /\ Alive(x)}}

(* claim_for_analysis keeps analyses of one uploaded capture apart, from the *)
(* claim to the thread's last commit, whatever fails or is deleted meanwhile *)
(* and however often the capture is analyzed again; and while one is under   *)
(* way the row says so (which is what the guard of the next claim reads).    *)
AnalysesExclusive ==
  \A c \in Captures : Uploaded(c) =>
    /\ \A h1, h2 \in Holders(c) : h1 = h2
    /\ Holders(c) # {} => capture[c].status \in Active \cup {"deleted"}

(* An uploaded capture is shown as completed only with the evidence of one   *)
(* analysis, all of it and nothing else: no table is missing, none is left   *)
(* from an earlier, failed or interrupted run.                               *)
CompletedIsWhole ==
  \A c \in Captures : Uploaded(c) /\ capture[c].status = "completed" =>
    \E j \in Jobs : job[j].cap = c /\ RowsOf(c) = {<<j, k>> : k \in Inserts}

(* The graph an analysis leaves behind was computed from the evidence that   *)
(* is shown with it, all it is computed from, although rebuilds and backfills write and    *)
(* delete the same edges meanwhile, and analyses before it did.              *)
AnalysisGraphIsCurrent ==
  \A c \in Captures :
    Uploaded(c) /\ capture[c].status = "completed" /\ graph[c].by = "analysis"
      => graph[c].from = Sources(c)

LeavesNoRows(c) == RowsOf(c) = {} /\ \A j \in Jobs : job[j].cap = c => ~JobPresent(j)

(* Deleting an uploaded capture leaves no evidence row and no job row, now   *)
(* or later, unless an analysis was claimed between the delete's status      *)
(* check and its transaction; and no edge of its graph, unless the same, or  *)
(* unless a rebuild or backfill had its edges ready when the delete          *)
(* committed and inserted them afterwards.                                   *)
OrphansOnlyIfOvertaken ==
  \A c \in Captures : Uploaded(c) /\ capture[c].status = "deleted" =>
    \/ <<c, "analysis">> \in overtaken
    \/ LeavesNoRows(c) /\ (graph[c] = NoGraph \/ <<c, "graph">> \in overtaken)

(* A stored_path in the database names a file that exists: the file goes     *)
(* only after the row has gone, and a failed delete keeps both.              *)
StoredFilesExist ==
  \A c \in Captures : CapturePresent(c) /\ capture[c].stored => file[c]

(* A job that has been reported finished stays as it was reported, across    *)
(* re-analysis, failures of the last commits and restarts, until it is       *)
(* deleted with its capture: event streams close on the first terminal       *)
(* status they see.                                                          *)
TerminalJobsStay ==
  [][\A j \in Jobs : job[j].status \in Terminal =>
       job'[j].status \in {job[j].status, "deleted"}]_vars

(* Without contention past the retries, an uploaded capture never stays      *)
(* queued or analyzing for ever: it can always be analyzed or deleted later. *)
ActiveCapturesSettle ==
  \A c \in Captures : (Uploaded(c) /\ ~Settled(c)) ~> Settled(c)

(* Without contention past the retries, a thread that starts on an uploaded  *)
(* capture ends its job row in a terminal status, or both were deleted: the  *)
(* event stream of the job ends.                                             *)
StartedJobsFinish ==
  \A j \in Jobs : \A c \in Captures :
    (Alive(j) /\ job[j].cap = c /\ Uploaded(c))
      ~> (job[j].status \in Terminal \/ capture[c].status = "deleted")

(* What the analyze endpoint's documentation says of every capture: "a       *)
(* double-click or UI retry cannot start a second analysis while one is      *)
(* queued/running".  A live recording's own job is such an analysis.         *)
NoSecondAnalysis ==
  \A c \in Captures : \A j, k \in Jobs :
    (job[j].cap = c /\ job[k].cap = c /\ Alive(j) /\ Alive(k)) => j = k

(* What the graph endpoint's documentation says of the backfill: that it is  *)
(* idempotent and race-safe.  A view between the delete and the insert of a  *)
(* rebuild finds a completed capture without edges and puts in its own, on   *)
(* which the rebuild's then fail.                                            *)
BackfillRaceSafe ==
  \A cl \in Clients :
    client[cl].pc = "rebuilding" /\ client[cl].seen # {}
      => graph[client[cl].cap].by # "backfill"

(* What the delete endpoint's documentation gives as the reason for its 409: *)
(* the thread must not insert rows for a capture that no longer exists.      *)
NoRowsForDeletedCapture ==
  \A c \in Captures : Uploaded(c) /\ capture[c].status = "deleted" =>
    LeavesNoRows(c) /\ graph[c] = NoGraph
-----------------------------------------------------------------------------
(***************************************************************************)
(* For uploaded captures the lifecycle implements CaptureService.          *)
(***************************************************************************)
PhaseOf(c) ==
  LET s == capture[c].status IN
  IF ~Uploaded(c) THEN "unknown" ELSE
  CASE s = "deleted"             -> "gone"
    [] s \in Active              -> "busy"
    [] s = "completed"           -> "done"
    [] s \in {"created", "failed"} -> "ready"

(* The analysis whose rows, all of them, are the capture's evidence.         *)
ResultOf(c) ==
  IF PhaseOf(c) = "done" /\ \E j \in Jobs : RowsOf(c) = {<<j, k>> : k \in Inserts}
  THEN CHOOSE j \in Jobs : RowsOf(c) = {<<j, k>> : k \in Inserts}
  ELSE NoJob

Service == INSTANCE CaptureService WITH
  Results <- Jobs, None <- NoJob,
  phase <- [c \in Captures |-> PhaseOf(c)],
  shown <- [c \in Captures |-> ResultOf(c)]

(* Every step of the handlers, of the threads and of a restart is a step of  *)
(* the promised service, or invisible in it: in particular the evidence of   *)
(* a completed capture stays what it is until the next claim.                *)
ImplementsService == Service!Spec
-----------------------------------------------------------------------------
(***************************************************************************)
(* The invariant the proofs of CaptureLifecycle_proofs are by induction on *)
(***************************************************************************)
NewFile     == {"uploaded", "recorded"}
Registering == NewFile \cup {"registered", "live_registered"}
LivePoints  == {"live_registered", "live_stored", "live_submitting"}
JobInHand   == {"submitting", "reverting", "live_submitting"}
Claiming    == {"claimed", "submitting", "reverting"}

(* Rows are created once, for a file of their own, by one handler.           *)
RegistrationInv ==
  /\ \A cl \in Clients : client[cl].pc # "idle" => client[cl].cap \in Captures
  /\ \A c \in Captures : capture[c].status = "absent" => capture[c].source = "none"
  /\ \A cl \in Clients :
       /\ client[cl].pc \in NewFile => /\ capture[client[cl].cap].status = "absent"
                                       /\ file[client[cl].cap]
       /\ client[cl].pc \notin NewFile \cup {"idle"} =>
            capture[client[cl].cap].status # "absent"
       /\ client[cl].pc \in LivePoints => capture[client[cl].cap].source = "live"
  /\ \A x, y \in Clients :
       (client[x].pc \in Registering /\ client[y].pc \in Registering
          /\ client[x].cap = client[y].cap) => x = y

(* The file of a row is there from registration until the row is deleted.    *)
FileInv ==
  /\ StoredFilesExist
  /\ \A cl \in Clients :
       /\ (client[cl].pc \in {"registered", "live_registered"}
             /\ CapturePresent(client[cl].cap)) =>
            file[client[cl].cap] /\ ~capture[client[cl].cap].stored
       /\ client[cl].pc = "unlinking" => capture[client[cl].cap].status = "deleted"

Loaded(j) == thread[j].pc \notin {"none", "load", "ended"}

(* The status of a thread's job row, unless deleted, is where its control is *)
(* (the row is terminal from finish_capture and fail_capture on).            *)
InStep(j) ==
  /\ thread[j].pc \in {"load", "begin_job"} => job[j].status \in {"queued", "deleted"}
  /\ thread[j].pc \in {"begin_capture", "parse", "work", "fail_job"} =>
       job[j].status \in {"running", "deleted"}
  /\ Loaded(j) => thread[j].mem \in Active \cup Claimable

(* A job row is created by one handler, before its one thread exists.        *)
JobInv ==
  /\ \A j \in Jobs :
       /\ Fresh(j) => thread[j].pc = "none" /\ job[j].cap = NoCapture
       /\ ~Fresh(j) => job[j].cap \in Captures /\ capture[job[j].cap].status # "absent"
       /\ InStep(j)
  /\ \A cl \in Clients : client[cl].pc \in JobInHand =>
       /\ client[cl].job \in Jobs
       /\ job[client[cl].job].status \in {"queued", "deleted"}
       /\ job[client[cl].job].cap = client[cl].cap
       /\ thread[client[cl].job].pc = "none"
  /\ \A x, y \in Clients :
       (client[x].pc \in JobInHand /\ client[y].pc \in JobInHand
          /\ client[x].job = client[y].job) => x = y

(* AnalysesExclusive, spelt out per kind of holder.                          *)
HoldsClaim(cl, c) == client[cl].cap = c /\ client[cl].pc \in Claiming
Analyzes(j, c)    == job[j].cap = c /\ Alive(j)

ClaimInv ==
  \A c \in Captures : Uploaded(c) =>
    /\ \A x, y \in Clients : HoldsClaim(x, c) /\ HoldsClaim(y, c) => x = y
    /\ \A x, y \in Jobs : Analyzes(x, c) /\ Analyzes(y, c) => x = y
    /\ \A x \in Clients, y \in Jobs : ~(HoldsClaim(x, c) /\ Analyzes(y, c))
    /\ ((\E x \in Clients : HoldsClaim(x, c)) \/ (\E x \in Jobs : Analyzes(x, c))) =>
         capture[c].status \in Active \cup {"deleted"}

(* What a retried commit may write for an uploaded capture is an active      *)
(* status.                                                                   *)
SessionInv ==
  \A j \in Jobs : Loaded(j) /\ Uploaded(job[j].cap) => thread[j].mem \in Active

IndInv == RegistrationInv /\ FileInv /\ JobInv /\ ClaimInv /\ SessionInv
-----------------------------------------------------------------------------
(***************************************************************************)
(* What the proofs about evidence add to it.  The tables are those of the  *)
(* analysis under way up to the position of its thread: what it inserted   *)
(* so far is there, and nothing of another analysis in what it cleared.    *)
(***************************************************************************)
BeforeWork == {"none", "load", "begin_job", "begin_capture", "parse"}
AtWork(j)  == thread[j].pc \in {"work", "finish_capture"}

ProgressInv ==
  \A j \in Jobs : /\ thread[j].pos <= Len(Work)
                  /\ thread[j].pc \in BeforeWork => thread[j].pos = 0
                  /\ thread[j].pc = "finish_capture" => thread[j].pos = Len(Work)

RowInv == \A r \in rows : r[2] \in Inserts /\ thread[r[1]].pc \notin BeforeWork

(* Nobody holds a claim on a capture that was deleted while at rest.         *)
Unheld(c) == /\ \A cl \in Clients : ~HoldsClaim(cl, c)
             /\ \A j \in Jobs : ~Analyzes(j, c)

OvertakenBy(c, what) == <<c, what>> \in overtaken

OrphanInv ==
  \A c \in Captures :
    Uploaded(c) /\ capture[c].status = "deleted" /\ ~OvertakenBy(c, "analysis") =>
      LeavesNoRows(c) /\ Unheld(c)

(* Nor has any request edges to insert that were not ready before.           *)
EdgesInv ==
  \A c \in Captures :
    (/\ Uploaded(c) /\ capture[c].status = "deleted"
     /\ ~OvertakenBy(c, "analysis") /\ ~OvertakenBy(c, "graph"))
    => graph[c] = NoGraph /\ \A cl \in Clients : ~HasEdges(cl, c)

(* What thread j has written, and what it has cleared, so far.               *)
InsertsDone(j) == \A k \in Inserts : <<j, k>> \in rows <=> k <= thread[j].pos
ClearsDone(j)  == \A r \in RowsOf(job[j].cap) : r[1] # j =>
                    \A m \in 1..thread[j].pos : Work[m] # Clear(Work[r[2]].table)

WrittenInv ==
  \A j \in Jobs : \A c \in Captures :
    (AtWork(j) /\ job[j].cap = c /\ Uploaded(c) /\ capture[c].status # "deleted") =>
      InsertsDone(j) /\ ClearsDone(j)

GraphCurrent(c) == graph[c].by = "analysis" => graph[c].from = Sources(c)

GraphInv ==
  \A j \in Jobs : \A c \in Captures :
    (AtWork(j) /\ job[j].cap = c /\ Uploaded(c) /\ capture[c].status # "deleted"
       /\ \E m \in 1..thread[j].pos : Work[m] = Clear("graph_edges")) =>
      GraphCurrent(c)

EvidenceInv == ProgressInv /\ RowInv /\ OrphanInv
WholeInv    == WrittenInv /\ CompletedIsWhole
=============================================================================
