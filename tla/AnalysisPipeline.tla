-------------------------- MODULE AnalysisPipeline --------------------------
(***************************************************************************)
(* The order of the database commits in AnalysisService.run_full_analysis  *)
(* (backend/app/services/analysis.py).  Every repository call of the       *)
(* pipeline is a transaction of its own, so what a reader, a rival thread  *)
(* or a crash can observe is a prefix of this sequence.                    *)
(*                                                                         *)
(* A step is one commit:                                                   *)
(*   job      jobs.update(job, stage = ..., progress = ...)                *)
(*   capture  captures.update(capture, progress or summary)                *)
(*   delete   <Table>Repository.delete_for_capture(capture.id)             *)
(*   insert   <Table>Repository.create_many(capture.id, ...)               *)
(***************************************************************************)
EXTENDS Naturals, Sequences

(* The tables that hold what an analysis found, in the order it writes them. *)
EvidenceTables == {"packets", "flows", "alerts", "hosts", "dns_transactions",
                   "http_transactions", "tls_sessions", "timeline_events",
                   "graph_edges"}

(* Edge ids are derived from (capture, source, target, relationship), so a   *)
(* second insert of a capture's graph collides with the rows already there;  *)
(* every other table draws a fresh uuid per row.                             *)
KeyedTables == {"graph_edges"}

(* What EvidenceGraphBuilder.build reads: neither packets nor the timeline.   *)
GraphSources == EvidenceTables \ {"packets", "timeline_events", "graph_edges"}

WorkStep(t) == [op : {"job", "capture", "delete", "insert"}, table : t \cup {"none"}]

Report  == [op |-> "job",     table |-> "none"]
Update  == [op |-> "capture", table |-> "none"]
Clear(t) == [op |-> "delete", table |-> t]
Fill(t)  == [op |-> "insert", table |-> t]

Replace(t) == <<Clear(t), Fill(t)>>

(* PacketRepository.create_many commits once per batch of 5000 packets.      *)
PacketBatches(n) == <<Clear("packets")>> \o [i \in 1..n |-> Fill("packets")]

(* _persist_results: hosts, protocol transactions and timeline, then the     *)
(* summary on the capture row; flows and alerts were persisted by the caller *)
PersistResults ==
  Replace("hosts") \o Replace("dns_transactions") \o Replace("http_transactions")
    \o Replace("tls_sessions") \o Replace("timeline_events") \o <<Update>>

(* Fault: the graph computed before the evidence is replaced.                *)
GraphFirst(batches) ==
  Replace("graph_edges")
    \o <<Report>> \o PacketBatches(batches)
    \o <<Report, Update>> \o Replace("flows")
    \o <<Report, Report>> \o Replace("alerts")
    \o <<Report>> \o PersistResults

(* From the parsed packets to the materialized evidence graph.               *)
FullWork(batches) ==
  <<Report>> \o PacketBatches(batches)
    \o <<Report, Update>> \o Replace("flows")
    \o <<Report, Report>> \o Replace("alerts")
    \o <<Report>> \o PersistResults
    \o <<Report>> \o Replace("graph_edges")

(* The same program seen through the given tables only.                      *)
WorkOn(tables, batches) ==
  SelectSeq(FullWork(batches), LAMBDA s : s.table \in tables \cup {"none"})
-----------------------------------------------------------------------------
(* What the evidence of a completed capture depends on in this order: a      *)
(* table is cleared before it is filled, and not again after that;           *)
ReplacesTables(work) ==
  \A k \in DOMAIN work : (work[k].op = "insert" /\ work[k].table \notin KeyedTables) =>
    /\ \E m \in 1..(k - 1) : work[m] = Clear(work[k].table)
    /\ \A m \in (k + 1)..Len(work) : work[m] # Clear(work[k].table)

(* and the graph is replaced when all it is computed from is in place.       *)
GraphComesLast(work) ==
  /\ \E m \in DOMAIN work : work[m] = Clear("graph_edges")
  /\ \A m \in DOMAIN work : work[m] = Clear("graph_edges") =>
       \A n \in m..Len(work) : work[n].table \notin GraphSources
=============================================================================
