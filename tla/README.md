# Formal verification of PacketKage

PacketKage takes a packet capture, uploaded or recorded live, analyzes it in a
background thread and shows flows, alerts, hosts, protocol transactions, a
timeline and an evidence graph. This directory holds TLA+ models of its core,
TLC configurations that check them on small instances, and proofs, checked by
TLAPS, that hold for every value of the constants. Paths below are relative to
`src/`; `services/`, `api/` and so on are under `backend/app/`.

Contents: [the system](#the-system) · [modules](#modules) ·
[capture lifecycle](#the-capture-lifecycle) · [live recording](#live-recording)
· [serving requests](#serving-requests) · [evidence](#evidence) · [runs](#runs) · [disagreements](#disagreements-between-code-and-documentation)
· [fairness](#fairness) · [proofs](#proofs) · [limits](#what-the-models-leave-out)
· [plan](#plan)

## The system

| component | state | operations | what makes it correct |
|---|---|---|---|
| capture API (`api/captures.py`) | `captures` rows, files in the upload directory | upload, analyze, delete, report | one analysis per capture at a time; a row's file exists; a delete leaves nothing |
| job manager (`services/jobs.py`) | daemon threads, `analysis_jobs` rows | submit; the thread loads its rows and runs the pipeline | every started job ends in a terminal status |
| analysis (`services/analysis.py`) | nine evidence tables, progress on job and capture | some twenty commits, each its own transaction | a completed capture shows one whole analysis |
| repositories (`repositories/`) | SQLite tables | guarded claim, create, update, replace, cascade delete | the claim is atomic; a delete is all or nothing |
| session (`core/database.py`) | pending attribute changes | commit with up to four attempts on a lock, replaying what was pending | a retry writes what the caller meant |
| startup recovery (`main.py`) | active rows of a dead process | fail them | nothing finished is touched, nothing active is left |
| live capture (`services/live_capture.py`, `api/live.py`) | one manager: state, sniffer, watchdog, lock | start, stop, status, auto-stop, persist | a recording can be ended and ends; its packets reach a file |
| evidence graph (`services/evidence_graph.py`, `api/evidence_graph.py`) | `graph_edges` rows, derived keys | build, rebuild, lazy backfill, subgraph, hydration, attack paths, blast radius | the graph is that of the evidence; searches are complete within their bounds |
| cases (`api/cases.py`) | `cases` rows with a JSON list of captures | create, add, remove, close, delete | no change to the list is lost; graphs name the cases that hold the capture |
| job stream (`api/jobs.py`) | none | poll until terminal | the stream ends |
| rate limiter (`auth/rate_limit.py`) | buckets of timestamps, lock | check, evict | at most *limit* requests per key in any window |
| setup and settings (`core/config.py`, `setup/`) | environment, setup file, live settings | load, apply, persist | file and live settings agree; environment wins |
| authentication (`auth/`) | session rows, handshake cookie, provider metadata | login, callback, logout, guard | no session without a matching handshake, none past expiry |
| flow builder, protocol extraction, host profiles (`services/`) | accumulators of one pass | add packet, build; pairing; profiles | a conversation is one flow; every query is accounted for; nothing is counted at one end only |
| suspicion engine (`services/suspicion_engine.py`) | alerts, host counts, incidents | 14 rules in order, dating, counting, correlation | rules that share evidence divide it; incidents part where a host is quiet |
| parsers (`parsers/`) | none | packets of a file, with progress callbacks | — |
| timeline and graph v1 (`services/timeline_graph.py`) | none | events and edges from five tables | the projection is complete and has no dangling ends |
| report, engineer metrics, localization | none | read-only projections | — |
| frontend (`frontend/src/`) | query cache, event stream, session context | poll, watch one job, self-heal | shows what the server says, at last |

How they interact. Request handlers run concurrently in a thread pool; analysis
threads are started by them and outlive them. They share nothing in memory but
the live-capture manager and the limiters: they meet in the database (SQLite, so
transactions are serial, but nearly every repository call is a transaction of its
own) and in the upload directory. Watchdog timers and sniffers have threads of
their own. The frontend polls and holds one event stream per watched job.

What is hard, and where: two actors between whose transactions a third one
commits (claim, delete, graph writers, case lists); failures between commits (a
lock that outlasts the retries, an exception in the pipeline, a dying process)
and the failure handler's own failure; callbacks that come late (watchdogs);
status kept in memory and in the database at once. `PROJECT.json` lists each
hazard at its line with the properties that catch it.

## Modules

| module | models |
|---|---|
| `AnalysisPipeline` | the sequence of commits of an analysis, as data |
| `CaptureLifecycle` | captures, jobs, evidence, graph, files, handlers, threads, restarts |
| `CaptureService` | what the capture API promises, abstractly |
| `LiveCapture` | the live-capture manager with its sniffers, timers and `stop()` calls |
| `RateLimiter` | the sliding-window limiter with its unlocked clock read |
| `SetupConfig` | environment, setup file and live settings under concurrent saves and restarts |
| `AuthSession` | login through the provider, key cache, session rows, of one browser |
| `Cases` | case membership, deletions and the graph rebuilds that follow |
| `RetrySession` | the commit loop with rollback, snapshot and replay |
| `JobWatch` | event stream and toast watcher of a job |
| `ServiceRequests` | the six above, side by side |
| `Flows` ← `Transactions` ← `HostProfiles` ← `Timeline` ← `Extraction` | the extraction of a capture's packets, each module using the ones before it; `Extraction` is the state machine |
| `Detection` | the suspicion engine |
| `GraphSearch` | attack paths and blast radius |
| `Evidence` | extraction, detection and search, side by side |
| `MC...` | instances for TLC |
| `CaptureLifecycle_proofs`, `LiveCapture_proofs`, `GraphSearch_proofs` | theorems about the module they are named after |
| `Access_proofs` | theorems about `SetupConfig`, `AuthSession`, `RateLimiter` |
| `ServiceRequests_proofs` | theorems about `Cases`, `RetrySession`, `JobWatch` and about the composition |
| `Extraction_proofs` | theorems about `Extraction` with `Flows`, `Transactions`, `HostProfiles` |
| `Evidence_proofs` | theorems about `Detection` and about the composition of the stages |
| `DataLemmas` | what the others need to know of numbers, finite sets, folds and sums |

Names carry the module's prefix (`Rl`, `Sc`, `As`, `Cs`, `Rs`, `Jw`; `Fb`, `Tx`,
`Hp`, `Tl`, `Ex`, `Se`, `Gs`), since the compositions extend several modules.

A definition whose comment begins with "Fault" is not part of a specification:
it is the definition after it, or the one it names, with a plausible mistake,
and exists to show that a property notices it.

## The capture lifecycle

`CaptureLifecycle` has one variable per table (`capture`, `job`, `rows` for the
evidence, `graph` for `graph_edges`), one for the upload directory (`file`), and
the control state of the actors: `client` for request handlers, `thread` for
analysis threads. An action is one transaction or one file operation of one
actor, so everything that can happen between two commits of the code can happen
between two steps.

| code | actions |
|---|---|
| `create_capture` | `UploadFile`, `RegisterUpload`, `StoreUploadPath` (each with the `except` branch `DropUpload`) |
| `analyze_capture` | `CheckAnalyze`, `Claim`, `CreateJob`, `Submit`, `Revert` |
| `LiveCaptureManager._persist` | `RecordLive`, `RegisterLive`, `StoreLivePath`, `CreateLiveJob`, `SubmitLive` |
| `delete_capture` | `CheckDelete`, `Delete`, `Unlink` |
| graph view with backfill | `CheckGraph`, `BackfillGraph` |
| case membership → `rebuild_for_capture` | `ClearGraph`, `ReadEvidence`, `RebuildGraph` |
| `_run_job`, `run_full_analysis` | `LoadRows`, `BeginJob`, `BeginCapture`, `Parse`, then one of `ReportProgress`, `UpdateCapture`, `ClearTable`, `FillTable`, `FillGraph` per element of `Work`, `FinishJob`, `FinishCapture`; `AnalysisRaises`, `FailJob`, `FailCapture` |
| process death and `_recover_interrupted_jobs` | `Restart` |

An evidence row is a pair of the job that inserted it and the position of its
commit in `Work`; what a capture shows is the set of pairs whose job has it, so
mixing two analyses is visible. A capture's graph is who wrote it and from which
rows. `thread[j].mem` is the status the thread's session holds for the capture:
`captures.update` writes only what changed, but a retried commit replays every
attribute (`core/database.py:71`), so the value in memory may be written over the
one in the row (`Kept`).

Failures. With `Contention`, any write may meet a lock that outlasts the retries.
A failed *flush* leaves the SQLAlchemy session in need of a rollback nobody
issues, so the failure handler's commits are refused as well and the thread ends
silently (`FlushFails`); an insert of graph edges whose derived keys exist fails
in the same way. A failed *statement* (`delete_for_capture`) leaves the session
usable, and the handler records the failure. `Thread.start` may raise.

`CaptureService` is what an analyst may rely on: a capture is ready, busy or done;
a done capture shows one result, which stays until the next analysis or the
removal. `ImplementsService` maps the lifecycle onto it for uploaded captures: in
particular no step of any handler, thread or restart changes what a completed
capture shows.

Properties: `AnalysesExclusive`, `CompletedIsWhole`, `AnalysisGraphIsCurrent`,
`OrphansOnlyIfOvertaken`, `StoredFilesExist`, `TerminalJobsStay`,
`ImplementsService`, and under fairness `ActiveCapturesSettle` and
`StartedJobsFinish`. They speak of uploaded captures where the unclaimed analysis
of live recordings breaks them (first disagreement below).

## Live recording

`LiveCapture` numbers recordings by their start requests; a number stands for the
`LiveState`, sniffer and timer made for it. The manager's lock is held for a whole
action, and across the 0.75 s poll of a start (`starting`). Sniffers record, end
at the packet cap or die, with their packets (`"died"`) or without (`"lost"`: scapy
hands `results` over only when its loop ends); timers fire without the lock, and
their callback (`AutoStop`) then competes for it with everybody else. A timer may
also fail to start (`"unstarted"`: `Timer.start` raises when the process is out of
threads; the request ends in an error, the recording goes on). `stop()` is
`EndRecording` under the lock and `Persist` after it, so two persists can overlap.
`StopsSniffer` says what the stop gets: all packets, or none when the join's five
seconds ran out (`"late"`). Files are
named after interface and whole second (`second`): the poll lets two recordings
begin in one second but not three, on one interface.

Properties: `Controlled`, `RecordingsKept`, `ReportedCountStays`, and under
fairness `RecordingEnds`.

## Serving requests

Six components that run in the same server but share no state. An action is what
runs without another thread, process or message getting in between.

**`RateLimiter`** (`auth/rate_limit.py`). `RlEnter` reads the clock, before the
lock; `RlCheck` is the critical section: sweep, trim, refuse or append; `RlTick` is
the clock. Between the two, calls overtake each other, so a bucket is not sorted,
while the trim looks at its head and the sweep at its last entry. The history
`rlLog` is compared with a definition of "admitted in the window": `RlLimitHolds`
and `RlRefusesOnlyAtLimit` say by how much the disorder (`RlDelay`) can blur the
window in either direction, and that without disorder both are exact.

**`SetupConfig`** (`core/config.py`, `setup/router.py`). A POST is `ScBegin` (the 409
and 400 checks and the read of the file), `ScWrite` (the rename) or `ScWriteFails`,
then one `ScApply` per setting and one for the derived defaults; two may overlap,
and `ScRestart` may fall between any two steps. `ScFieldOrder` is the order of
`SETUP_FIELDS`. Properties: `ScRestartAgrees`, `ScDurableIsComplete`,
`ScNeverDisabled`. Two cases the code lets through are exceptions of the properties,
not of the model: an issuer of nothing but slashes (`"/"`) passes `values()` and the
checks (`setup/router.py:41-46`, `136-143`) as a text and `_clean` stores nothing of it,
so that saving it turns authentication off (`scBlanked` records that one was let
through); and an environment that sets the issuer without the secret starts with
authentication on and no secret, since only saves are checked.

**`AuthSession`** (`auth/`). Per tab: `AsLogin` (up to the await of the provider's
metadata, `auth/router.py:98`), `AsRedirect` (the response that sets the cookie),
`AsCallback`, `AsToken`, `AsVerify`, and `AsOutage` at each await; per browser: `AsLogout`. External: `AsTick`,
`AsRotate` (the provider's key), `AsLeave` (the user leaves the group). Of the
server: `AsReconfigure`, `AsRestart`. The tabs share the cookie jar, so a second
login replaces the first one's handshake: the last login is the one whose response
came last, and `asLogins` numbers the responses. `asDone` records what the last
verification found and when. Properties: `AsSessionOfLastLogin`, `AsRotationHeals`,
`AsLeaverIsOut`.

**`Cases`** (`api/cases.py`, `CaseRepository`). A membership change is `CsLoad` (case
with its list), `CsUpdate` (the list is written back), `CsClear`, `CsBuild`,
`CsInsert` (`rebuild_for_capture`); `CsCreate`, `CsDelete` and `CsDeleteCapture` are
one transaction each. `CsFail` ends a request before any of its commits (a commit that
fails for good, or the process): what it committed stays, and `csStale` records captures
whose rebuild was not finished, which nothing repeats. The builder reads the `CsListed`
newest cases only (`services/evidence_graph.py:461`: 500), `CsNewest`, so
`CsGraphNamesItsCases` demands an edge of a case only while fewer than that were created
after it (`CsRecent`). The list is read, changed and written back, so two requests
on one case lose updates: `csDirty` records which cases and captures two requests
worked on at once, and the properties (`CsMembershipKept`, `CsGraphNamesItsCases`,
`CsDeletedIsGone`) hold of all others. No document denies the loss.

**`RetrySession`** (`core/database.py`). `RsLoad` is what a caller does to a session;
an attempt is `RsCommit` or `RsLocked`; `RsReplay` is rollback and replay, after
which every column of a changed object is dirty. `RsAllOrNothing` and
`RsOthersKept` justify what `CaptureLifecycle` assumes: a commit is one step, and
only a retried one writes the whole row (`Kept`).

**`JobWatch`** (`api/jobs.py`, `api/client.ts`, `components/toasts.ts`). `JwPoll` is a
round of the generator, `JwReceive` is `onmessage`, `JwWatch` replaces the one
stream the page has, `JwBreak` is a broken connection, `JwWork` is whatever
`CaptureLifecycle` shows of a job. `JwNoSilentEnd`: the end of a watch that was not
replaced or cut off is announced, once and truthfully, also when the row is deleted
with its capture while events are in flight.

`ServiceRequests` runs one of them per behaviour (`part`). Their variables are
disjoint and no guard of one reads another's, so an interleaving of two is, variable
by variable, a behaviour of each; interleaving them would multiply the states and
show nothing more. What does couple them is modelled where it matters: graph
rebuilds against analyses, and retried commits, in `CaptureLifecycle`.

## Evidence

What an analysis computes. Stages hand over finished lists, so each is followed
on inputs of its own (`stage` of `Evidence`).

**`Extraction`** reads packets one by one (`ExRead`) and keeps what the code keeps
while it reads: the flow accumulators (`Flows`: `FbKey`, `FbObserve`, `FbAddPacket`,
`FbBuild`), and the waiting and finished DNS and HTTP transactions (`Transactions`).
An answer's latency is rounded to the nearest multiple of `TxGrain`, ties to the even
one (`TxRound`), as `round(…, 6)` does. What is computed from finished lists is an
operator: TLS sessions (`TxTls`: one for all flows with the same endpoints, dated by
its first packet in capture order and named by its first hello that has a name), host
profiles (`HpBuild`), timeline and graph (`TlEvents`, `TlNodes`, `TlEdges`). A state is
a capture that ends here, so every invariant speaks of every capture up to the
bound. Packets may repeat and carry any time, hence reordered and duplicated
captures are included. Properties: `FbConversations`, `TxNoneLost`,
`TxOwnConnection`, `HpConserved`, `TlShowsAll`.

**`Detection`** gathers bursts of evidence (`SeObserve`) and then runs
`SuspicionEngine.run` in its order: the 14 rules (`SeApplyRule` with `SeRule`), the
dates (`SeDate`), the counts in the profiles (`SeAugment`), the incidents
(`SePersist`). Packets without a source raise nothing and are in no incident and no
count (`SeNone`). Arithmetic is exact: entropies are hundredths of a bit, deviations
are compared without roots. Properties: `SeFailuresCounted` (the port-scan and the
failure rule share the failed connections without a gap and without reporting twice),
`SeIncidents`.

**`GraphSearch`** is `find_attack_paths` (`GsPop`, `GsHop`) and `blast_radius`
(`GsTake`, `GsTouch`) edge by edge, because the rows come in no defined order and the
caps cut the search short in the middle of a node. Properties: `GsPathsSound` and
`GsReach`, against distances defined by spheres (`GsBall`). The distance is that of a
search that does not go on from the target, as the code does not.

What the modelling showed of the code that no document contradicts:

- `connection_without_dns` says "no prior DNS resolution"; an answer anywhere in the
  capture, later ones included, clears the connection.
- `beaconing` and `low_slow_beaconing` both report a regular flow of a minute and more.
- An incident can be longer than the correlation window: each alert is compared with
  the one before it. Alerts without flows are dated by the first DNS transaction.
- A flow's forward direction is that of its smaller endpoint, not of its source.
- HTTP connections of one client to one server port share a key, so overlapping
  ones can exchange answers; `TxOwnConnection` says exactly when they cannot.
- A sniffer that outlives the join of `stop()` has not handed its packets over: an
  empty recording is kept and the reported count falls to zero
  (`services/live_capture.py:235-237`; the comment above it, "Packets recorded before
  the detach are still collected", holds within the five seconds only). A watchdog that
  cannot start leaves the recording on after its request failed (`:195-197`).
- Saving the issuer `"/"` turns authentication off: it passes the checks of a save as a
  text and is stored as nothing (`setup/router.py:41-46`, `core/config.py:69-71`). An
  environment that sets the issuer alone starts with authentication on and no secret.
- The graph of a capture keeps the edge of a deleted case until its next rebuild, leaves
  out cases older than the 500 newest, and stays as a failed rebuild left it.
- Parallel edges can yield the same node path twice; `blast_radius` stops expanding
  at its node cap without saying `truncated`.

## Runs

| run | instance | states | shows |
|---|---|---|---|
| `lifecycle_safety` | 1 capture, 2 jobs, 2 handlers, 1 restart, contention, graph requests | 1.3 M | all safety properties and the refinement |
| `lifecycle_liveness` | the same without contention and graph requests, shorter `Work` | 0.2 M | `ActiveCapturesSettle`, `StartedJobsFinish` |
| `live_recording` | 3 recordings, packet cap 1 | 1.0 M | all properties of `LiveCapture` |
| `service_requests` | the six request components, below | 2.4 M | their fourteen properties and `ServiceTypeOK` |
| `evidence` | extraction, detection, search, below | 0.4 M | their nine properties and `EvidenceTypeOK` |
| `lifecycle_live_unclaimed`, `lifecycle_delete_race`, `lifecycle_graph_backfill`, `lifecycle_graph_rebuild`, `live_dead_sniffer`, `live_late_watchdog`, `setup_restart` | small | — | one disagreement each |

Bounds of the capture runs, and why they are enough. Captures never interact (no
action reads one to write another), so one is enough; two jobs are what it takes to
mix two analyses and to re-analyze after a failure, and two handlers to race a claim
with a delete, a rebuild, a view or another claim. `JobsLeft` keeps a handler from
starting when no job row is left for it. One restart interrupts every
combination of the others, and the one after it is the same again. `MCWork`
keeps three of the nine tables — packets, which is committed in batches, flows,
and the graph, which is computed from flows but not from packets — and one
progress commit of each kind; the tables left out repeat the same three
patterns. Three recordings let one be saved, one be stopped late and one be on;
a cap of one packet distinguishes empty from not, and full from not. Jobs and
handlers are interchangeable and only compared, hence the symmetry of
`lifecycle_safety`; so are the threads, tabs and clients of `service_requests`, which
are exchanged together, since one part is followed at a time (`MCSymmetric`). Runs with
liveness use none.

Bounds of `service_requests`:

| component | instance | what it reaches |
|---|---|---|
| limiter | 2 keys, 2 threads, limit 2, window 3, sweep every 3 calls, 5 calls, clock to 8 | refusals, expiry at the exact boundary, sweeps that hit another key's bucket, calls overtaken by up to the window |
| setup | 2 threads, 3 saves, 1 restart, 5 environments, 6 bodies | the two overlaps of two saves, a lost update followed by a save, a crash between every two steps, saves against settings the environment locks, an issuer of slashes, an environment with an issuer and no secret |
| sessions | 2 tabs, 2 logins, 1 rotation, 2 configurations, clock to 4 | both orders of two logins and of two callbacks, a rotation before, between and after each step, a change of provider in a login |
| cases | 3 cases, the 2 newest read, 2 captures, 2 clients, 2 changes | two requests on one case, on one capture, on neither; deletions of either and a failure at every step; a rebuild after a failed one; a graph of two cases; a case too old to be read, before and after it is listed |
| retry | 3 sessions, 2 rows, 3 attempts, 4 units | two commits between two attempts of a third; set, add and delete in one unit; the last attempt failing |
| watch | 2 jobs, 2 events in flight | a replaced stream, an event overtaken by the deletion of its row |

Times are the smallest that keep every order of the deadlines the code compares;
they are constants in the code too, and the theorems hold for any.

Bounds of `evidence`. Extraction: any five packets, with repetition, out of one of
four kinds of traffic — TCP (handshake, retransmission, out-of-order times, reset,
another connection, ICMP), HTTP over three connections, DNS with a repeated id and a
repeated name, TLS with two names and an empty one on a connection whose endpoints
also talk UDP. Latencies are -1 (a reordered answer), 2 and 3, rounded to multiples of
4: upwards to zero, as a tie, and upwards. Five packets hold a handshake
with a retransmission and a reset, or two requests, two answers and an interloper.
Detection: every subset of six families of bursts, built so that each rule's
threshold is crossed by some subset and just missed by another, some without a
source, with alerts at
exactly the correlation window and one second more. Search: every request over
five graphs of at most nine nodes (diamond with parallel and unobserved edges, ring,
star, triangle with a loop, two parts), in every order of the rows, with the caps
(two paths, four expansions, five and six nodes) reached in some and not in others.

Deadlock is not checked in any of them: the system may rest, and the bounds end
every behaviour. Every property of a passing run has a mutant in `PROJECT.json`: a
definition of the model replaced by one of its faults, under which TLC finds that
very property violated.

## Disagreements between code and documentation

Each is a run that TLC ends with a counterexample to what a comment, docstring or
test of the repository says.

1. `lifecycle_live_unclaimed` — `_persist` submits without a claim
   (`services/live_capture.py:288`), so a second analysis can start
   (`api/captures.py:122-123` says it cannot).
2. `lifecycle_delete_race` — the delete's check and its transaction are apart
   (`api/captures.py:179`, `189`); a claim in between leaves a job of a capture
   that is gone (`tests/test_capture_delete.py:135`: "must 409, not race").
   `OrphansOnlyIfOvertaken` shows that this, and a rebuild or backfill that had its
   edges ready when the delete committed (`repositories/__init__.py:705-717`, no look at
   the capture), are the only ways to leave rows behind ("nothing is orphaned",
   `repositories/__init__.py:90`).
3. `lifecycle_graph_backfill` — a view between a rebuild's delete and insert
   makes the rebuild fail (`api/evidence_graph.py:86-87`: "race-safe").
4. `lifecycle_graph_rebuild` — a rebuild between an analysis's graph delete and
   insert makes the thread fail where its failure handler cannot commit either:
   the job stays `running` until a restart (`api/jobs.py:39`: "until terminal
   state").
5. `live_dead_sniffer` — `status()` drops what a died sniffer recorded,
   `stop()` keeps it (`services/live_capture.py:228`: "still evidence").
6. `live_late_watchdog` — a late watchdog ends the next recording
   (`services/live_capture.py:203`: "already finished us").
7. `setup_restart` — a saved public URL leaves the redirect URI that was derived
   from the former one in force; only a restart derives it anew
   (`core/config.py:162`; `core/config.py:11-13`: "so no process restart is
   needed").

## Fairness

`FairSpec`: weak fairness of each handler's and each thread's next step. They are
OS threads running straight-line code with bounded waits; nothing in them waits
for another actor. No fairness of requests (nobody has to send one) nor of a
restart: the liveness properties hold without either. `StartedJobsFinish` and
`ActiveCapturesSettle` are checked without contention past the retries, because
with it they do not hold (a failed flush ends a thread silently), and without
graph requests because of disagreement 4.

`FairLiveSpec`: the poll and the timers end by the clock, a callback gets the lock
once it is free (it is held for bounded times only), a handler past the lock runs
on. No fairness of packets, of `stop` or of `status`.

## Proofs

For any number of captures, jobs, handlers and restarts, any `Work`, with and
without contention and graph requests (`ConstantsAssumption` asks only that the
parameters are of their kinds):

| theorem | states |
|---|---|
| `TypeCorrect` | `Spec => []TypeOK` |
| `InductiveInvariant` | `Spec => []IndInv` |
| `Exclusive` | `Spec => []AnalysesExclusive` |
| `FilesExist` | `Spec => []StoredFilesExist` |
| `TerminalStays` | `Spec => TerminalJobsStay` |
| `NoOrphans` | `Spec => []OrphansOnlyIfOvertaken` |
| `Whole` | `ReplacesTables(Work)` implies `Spec => []CompletedIsWhole` |
| `GraphIsCurrent` | `GraphComesLast(Work)` implies `Spec => []AnalysisGraphIsCurrent` |
| `Implements` | `ReplacesTables(Work)` implies `Spec => ImplementsService` |
| `FullWorkIsWhole` | the last three for `Work = FullWork(batches)`, any number of batches |

`IndInv` has five parts. `AnalysesExclusive` is not inductive: that no second
claim succeeds rests on the row's status being active whenever somebody works on
the capture (`ClaimInv`); that it stays active rests on what threads may write
there, which after a retry is the status in memory (`SessionInv`); that the thread
which writes `completed` is the only one rests on a job having one handler and
then one thread (`JobInv`); and that handlers which create rows do not meet rests
on file names being unique (`RegistrationInv`). `FileInv` is the same for files:
only handlers in their own registration or behind a committed delete remove one.
The proof has a lemma for what each building block does (`MoveEffect`,
`SaveCaptureEffect`, ...), one per kind of step (`ClaimStep`, `StartThreadStep`,
`DeleteStep`, ...), frame lemmas for the parts a step leaves alone (`Keep...`) and,
since the thread's fourteen actions differ little, one summary of them
(`ThreadEffect`) from which all five parts follow.

What is proved about evidence needs to know how far a thread has come. `EvidenceInv`
says that rows are those of commits a thread has reached, and that of an upload
deleted while at rest no row is left and nobody is at work on it any more (so none
can come); `EdgesInv`, on top of it, that no request has edges of such an upload to
insert that it did not have when the delete committed: one that reads its evidence
later finds none. `WholeInv` says of a thread at work on an upload: its own rows are exactly
those of the commits before its position, and no row of another analysis is in a table
it has cleared. At its last commit, position `Len(Work)`, the two together give the
whole evidence, provided each table is cleared before it is filled and not cleared
again after: `ReplacesTables`. `GraphInv` says that once a thread has cleared the graph,
a graph written by an analysis is that of the present evidence, which stays true to the
end if no table the graph is computed from is written later: `GraphComesLast`. Both are
hypotheses of the theorems rather than assumptions of the module, so that the mutants
that reorder the pipeline are refuted by the properties themselves; both are proved of
the program's own pipeline (`FullWorkOrder`, with `PersistSteps` and `FullWorkSteps`
listing its commits). All other steps, of handlers and of a restart, have one summary,
`Outside`, as the thread's have `ThreadEffect`.

The refinement is proved one capture at a time: a step writes the row of at most one
(`OneTurn`), except a restart, which interrupts all. A handler turns a capture by its
row (`RowTurn`); a thread turns only a busy one, because the claim made it so
(`ClaimInv`), and what it shows as done is one job's rows by `CompletedIsWhole`. That a
step which leaves a done capture done also leaves its result in place is where the
exclusion of analyses is used: a thread never works on a completed upload.

For any number of recordings and any cap (`LiveAssumption`): `LiveInvariant`,
`LiveTyped` (`LiveTypeOK`), `AlwaysControlled` (`Controlled`), `AlwaysKept`
(`RecordingsKept`), `CountStays` (`ReportedCountStays`).

The other components, each for its own specification (`CsSpec`, `RsSpec`, ...):

| module | theorem | for any |
|---|---|---|
| `Access_proofs` | `RestartAgrees`, `DurableIsComplete`, `NeverDisabled` | threads, saves, restarts, environments, bodies |
| | `SessionOfLastLogin`, `RotationHeals`, `LeaverIsOut` | tabs, logins, rotations, configurations, lifetimes |
| | `LimitHolds`, `RefusesOnlyAtLimit` | threads, keys, limits, windows, sweep periods, delays |
| `ServiceRequests_proofs` | `MembershipKept`, `DeletedIsGone`, `GraphNamesItsCases` | cases, captures, requests |
| | `AllOrNothing`, `OthersKept` | sessions, rows, units of work, attempts |
| | `NoSilentEnd` | jobs, events in flight |
| | `ServiceTyped`, `ServicePromises`, `ServiceSteps` | the composition: all of the above hold of `ServiceSpec` |
| `GraphSearch_proofs` | `Reach`, `PathsSound`, with the parts `PathsWalk`, `BlastBounded` | finite graphs, caps, orders of the rows |
| `Extraction_proofs` | `Conversations`, `NoneLost`, `OwnConnection`, `Conserved`, `ShowsAll` | packets, in any number and order |
| `Evidence_proofs` | `FailuresCounted`, `Incidents` | bursts of evidence |
| | `EvidenceTyped`, `EvidencePromises`, `EvidenceStages` | the composition: all of the above hold of `EvidenceSpec` |

Type correctness of each part is `SetupTyped`, `SessionTyped`, `LimiterTyped`,
`CasesTyped`, `RowsTyped`, `WatchTyped`, `ExtractionTyped`, `DetectionTyped`,
`SearchTyped`.

Assumptions are those the modules name: parameters of their kinds, and

- `CsAssumption`, `JwAssumption`: the values that stand for "no row" are no ids;
- `AsAssumption`, `RlAssumption`: lifetimes, windows and limits are numbers, the window,
  the limit and the sweep period positive, as the constants of the code are;
- `GsAssumption`: graphs are finite, caps positive, the node cap of a blast radius is not
  above its hard cap (`services/evidence_graph.py`: 150 and 500), and the value that
  stands for "no target" is no node;
- `TxAssumption`: what latencies are rounded to is a positive number of units of time;
- `ExAssumption`: packets are of the kind the parsers hand on, lengths natural numbers,
  and an answer to a name lists finitely many addresses, as a message does;
- `SeAssumption`: a burst has finitely many flows and claims, its transactions and
  requests are of their kinds, and no flow ends before it begins and only those of TCP
  fail, as `FlowBuilder.build` decides.

The arguments:

- `Cases`. `CsMembershipKept` is inductive only with what a request in flight holds:
  the list it loaded is still that of the row unless somebody met it (`CsCurrent`), and
  two requests on one subject are on record (`CsApart`). `CsDeletedIsGone` needs that
  nobody works on a deleted capture (`CsGone`), `CsGraphNamesItsCases` that a rebuild
  past its clearing is alone on its capture and will insert what is still true
  (`CsGraphRight`), that a case with fewer than `CsListed` younger ones is among those
  read, because no two were created at once (`CsBornInv`, `CsRecentRead`), and that the id of a case not yet created is named nowhere
  (`CsUnborn`).
- `RetrySession`. What an active session would flush is at least what its caller asked
  for, with the caller's values, and more than that only after a lock (`RsWorkInv`).
- `AuthSession`. The handshake cookie is that of the last login, and so was the one a
  callback passed with (`AsLatest`); a cached or used key that is not the provider's is
  older than its last rotation (`AsKeysAge`); a token or row that makes the user a
  member dates from before the departure (`AsMembersAge`); nothing dates from the
  future (`AsPast`).
- `SetupConfig`. Where the environment leaves the issuer to the file, the secret outlives
  the process as soon as one of the two settings is live or on disk (`ScSecretKept`):
  a save that was let through carries it, or finds it in the environment or in the file
  it read, and what it read it writes back — so even a lost update does not lose it, and
  nothing cleans it away. The issuer is as safe (`ScIssuerKept`) until one of slashes is
  let through. Of environments and bodies nothing is assumed but that they map the
  fields to texts. `ScRestartAgrees` rests on `ScAlone`: until two saves overlap, the
  save in progress has read the file as it is, and the live settings differ from a
  restart's only in the fields it has yet to apply.
- `RateLimiter`. The invariant ties the bucket of a key to the history of calls: each
  timestamp of the bucket was left by a call of its own, in the order of the history,
  and every admitted call of the key is in the bucket or had left the window when some
  call came (`RlKept`). Each decision is recorded with the calls its bucket still counted
  (`RlAdmits`, `RlRefuses`). By how much a call can have left too early, or stay too long,
  is then arithmetic over the disorder, which a sweep does not add to: it removes a bucket
  only when its last timestamp is a whole window old.
- `JobWatch`. A final event in flight is still true, or its row was deleted since
  (`JwStreamInv`).
- `GraphSearch`. What is queued is already a walk from the source, or already in a ring
  within the depth (`GsPathsInv`, `GsBlastInv`). For the distances: the queue is ordered
  by ring, with at most two rings in it, and every node nearer than its head has been
  expanded, so the rings are the distances (`GsBlastOrder`, `GsBlastCover`). For paths the
  same holds of the first path queued to each node, as long as no cap was reached
  (`GsPathsOrder`, `GsPathsCover`); a path goes one ring further at every step but the
  last (`GsStraight`), and the caps are accounted for by what was cut (`GsOverfull`).
- `Extraction`. The accumulators are described by the packets read (`FbFlowsOf`): a key's
  accumulator holds exactly the eligible packets with that key, split by direction, with
  the bounds of their times and the flags seen. Transactions are described by the list of
  events of their protocol (`TxOf`): a request waits exactly if nothing with its key came
  after it, and a finished one pairs it with the next event of its key (`TxPair`). Both
  are kept by one more packet (`FbStep`, `TxDnsStep`, `TxHttpStep`), and the properties
  follow. Different keys never describe the same two endpoints over one transport
  (`FbConverse`), which is what makes a flow a conversation.
- `HostProfiles`. `HpConserved` is about tables of counters built by two folds. What a
  packet or flow adds at one end it adds at the other (`HpObserved`, `HpRecorded`, summed
  over all hosts by `HpGains`); a fold is unrolled to a run of such steps (`HpObservedAll`,
  `HpRecordedAll`); and the flows share no packet (`HpFlows`), so their packets add up to
  those of the capture that are between ports.
- `Transactions`. A rounded latency is within half a grain of the exact one (`TxRounded`,
  from division with remainder, `Division`), so a finished transaction is dated as near
  to its answer (`TxNear`).
- `Timeline`. `TlShowsAll` needs more of the tables than the other properties
  (`ExShown`): that times are those of packets (`FbDated`, `TxShown`), that only TCP is
  reset, and that all tables are finite. The items of a kind have one event each because
  their opening packets differ (`TxApart`, `TlFirstPackets`, `TlSession`), and events of
  different kinds differ (`TlOpeningsShown`). The edges between two hosts carry the sum
  over the flows between them, and grouping by pair loses none (`TlPacketsShown`, by
  `DisjointTotal`). Every name an edge is drawn for was made a node (`TlEndsShown`).
- `Detection`. After each rule the alerts of the two rules about failures are those of
  the pairs the rule is for, with all their failed flows (`SeTells`): the two thresholds,
  ten ports and five failures with fewer than ten ports, exclude each other and leave
  nothing out, the other rules raise alerts of other kinds (`SeOtherRules`), and dating
  neither merges nor drops an alert (`SeDatedTell`).
  Every rule raises finitely many alerts, of hosts and flows of the capture and with
  scores that are numbers (`SeRulesRaise`, for `SeTyped`). The incidents of one source
  are a fold over its alerts in the order of their dates. That order is a run of taking
  an earliest alert that is left (`SeOrdered`), and each step of the chaining keeps
  `SeChained` for the alerts taken so far: chains share no alert, the latest alert is in
  the last chain, and two alerts are in one chain exactly if no pause lies between them
  (`SeJoins`, `SeStarts`, then `SeLinked`, `SeChainOf`). So the chains divide the alerts of
  the source (`SeDivide`), and as many are in its incidents (`SeHeldAll`) as its profile
  counts above "info" (`SeCounted`).
- Compositions. A step of `ServiceSpec` or `EvidenceSpec` is a step of the part that is
  followed and leaves the others' variables alone, so the composition implements each
  part (`ServiceImplementsParts`, `EvidenceStages`).
- `DataLemmas`. The library's induction theorems have an operator as parameter, which
  cannot be instantiated here. `NatAll` is induction over a *set* of numbers, proved from
  the least counterexample; from it follow that the recursive functions behind the
  community modules' folds exist and are unique (`IterExists`, `FoldExists`, `FoldAgree`),
  that a fold over a sequence is a run of its steps (`FoldLeftRuns`), and that a sum over a
  function does not depend on the order of its terms and can be split and regrouped
  (`SumOrder`, `TotalSplit`, `TotalParts`).

Only model-checked is what holds under fairness, which the prover does not support:
`ActiveCapturesSettle`, `StartedJobsFinish`, `RecordingEnds`. Every invariant and every
action property of the runs that pass is a theorem.

## What the models leave out

- The lifecycle abstracts from what an analysis computes: a table's insert is one
  commit of one abstract row, several for packets. What is computed is in the
  evidence modules, which abstract from when it is committed.
- A graph build reads six tables one after the other; the model reads them at
  once. A view computes its edges when it finds none; the model lets it insert
  them any time later. In `CaptureLifecycle` edges that depend on case membership
  alone (`INCLUDES`) and captures without evidence are left out; the former are what
  `Cases` is about. Which edges the builder makes of the evidence is not modelled.
- In `CaptureLifecycle` the retries inside a commit: a commit is one step, after
  however many attempts. `RetrySession` shows why that is sound and what a retry may
  write besides.
- Cuts to the first 20 or 50 items (related flows and packets of an alert, incidents in
  the summary, 15 services per host of graph v1), wording, reasons and explanations.
- Floating point: times and latencies are whole units, so `TxRound` rounds exactly where
  `round(…, 6)` can be off by a representation error.
- Entropy of a name, patterns of user agents, decoding of packets: properties of the
  input.
- Names of hosts from DHCP and banners; protocol statistics and summary counters.
- The setup token and who may save; four of the nine setup fields stand for the kinds
  the code tells apart.
- Cookies and tokens are abstract: what cryptography guarantees is assumed, and state,
  nonce and verifier are one fresh number.
- Renaming and closing a case, notes, an alert's status: single updates nothing else
  depends on.

Not modelled, with the reasons in `PROJECT.json`: report, engineer metrics, read-only
API, localization, the frontend's session and pages, scripts and deployment. They
format or aggregate what others wrote and change no state a property is about.

## Plan

What is left, in order.

1. `JobWatch` composed with the lifecycle of its jobs through `CaptureService`, under
   fairness: a watch that is not replaced or cut off ends. With the page's own polling.
2. The evidence graph's builder: which edges it makes of the tables `Extraction` and
   `Detection` describe, and the filters of the graph view.
3. The engineer metrics, as operators over `Flows`.
