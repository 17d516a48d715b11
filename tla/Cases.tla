-------------------------------- MODULE Cases -------------------------------
(* Investigation cases: app/api/cases.py with CaseRepository and the rebuild   *)
(* of the evidence graph that follows a change of membership.  A case holds    *)
(* its captures as one JSON list, which a request reads when it loads the case *)
(* and writes back as a whole; the graph of a capture holds one INCLUDES edge  *)
(* per case that listed it when the graph was computed, of the newest cases    *)
(* only.  A change is three transactions, and any of them may fail, or the     *)
(* process die, before it: what was committed stays.                           *)
EXTENDS Naturals, FiniteSets

CONSTANTS
    CsCases,     \* ids of cases
    CsCaptures,  \* ids of captures
    CsClients,   \* concurrently running requests
    CsListed,    \* how many cases, the newest, the graph's builder reads
    CsMaxRequests \* bound: number of membership changes

ASSUME CsAssumption ==
    CsMaxRequests \in Nat /\ CsListed \in Nat /\ "absent" \notin CsCaptures /\ "none" \notin CsCases

VARIABLES
    csCase,     \* table cases: CsAbsent, or the set of capture ids it lists
    csBorn,     \* created_at of a case: the how manieth it was; 0 before
    csBirths,   \* cases created so far
    csCapture,  \* does the row of table captures exist?
    csGraph,    \* graph_edges of a capture: CsNoGraph, or the cases it names
    csReq,      \* per client: where its request is
    csCount,    \* membership changes begun
    csWanted,   \* history: the membership the committed changes add up to
    csDirty,    \* history: cases and captures two requests changed at once
    csStale     \* history: captures whose last change ended before its rebuild did
csVars == <<csCase, csBorn, csBirths, csCapture, csGraph, csReq, csCount, csWanted, csDirty, csStale>>

(* Values that are no set of captures, and no set of cases.                    *)
CsAbsent == {"absent"}
CsNoGraph == {"none"}
CsIdle == [pc |-> "idle"]

CsExists(k) == csCase[k] # CsAbsent
(* The cases that list the capture.                                            *)
CsListing(c) == {k \in CsCases : CsExists(k) /\ c \in csCase[k]}
(* Fault: the oldest cases are read.                                           *)
CsOldest == {k \in CsCases : Cardinality({j \in CsCases : CsExists(j) /\ csBorn[j] < csBorn[k]}) < CsListed}
(* order_by(created_at.desc()).limit(CsListed).                                *)
CsNewest == {k \in CsCases : Cardinality({j \in CsCases : CsExists(j) /\ csBorn[j] > csBorn[k]}) < CsListed}
(* What EvidenceGraphBuilder.build finds.                                      *)
CsIncluding(c) == CsListing(c) \cap CsNewest

CsInit ==
    /\ csCase = [k \in CsCases |-> CsAbsent]
    /\ csBorn = [k \in CsCases |-> 0] /\ csBirths = 0
    /\ csCapture = [c \in CsCaptures |-> TRUE]
    /\ csGraph = [c \in CsCaptures |-> {}]
    /\ csReq = [q \in CsClients |-> CsIdle]
    /\ csCount = 0
    /\ csWanted = [k \in CsCases |-> {}]
    /\ csDirty = {} /\ csStale = {}

-----------------------------------------------------------------------------
CsCreate(k) ==
    /\ csCase[k] = CsAbsent
    /\ csWanted[k] # CsAbsent
    /\ csCase' = [csCase EXCEPT ![k] = {}]
    /\ csBirths' = csBirths + 1
    /\ csBorn' = [csBorn EXCEPT ![k] = csBirths + 1]
    /\ UNCHANGED <<csCapture, csGraph, csReq, csCount, csWanted, csDirty, csStale>>

(* The subjects of the requests in progress that share one of these.           *)
CsMeets(subjects) ==
    UNION {{csReq[q].case, csReq[q].cap} \cap subjects : q \in {r \in CsClients : csReq[r] # CsIdle}}

(* POST or DELETE /cases/{k}/captures: load the case with its list and the     *)
(* capture; either missing is a 404.                                           *)
CsLoad(q, k, c, kind) ==
    /\ csReq[q] = CsIdle
    /\ csCount < CsMaxRequests
    /\ CsExists(k) /\ csCapture[c]
    /\ csCount' = csCount + 1
    /\ csReq' = [csReq EXCEPT ![q] =
            [pc |-> "update", kind |-> kind, case |-> k, cap |-> c, list |-> csCase[k]]]
    /\ csDirty' = csDirty \cup CsMeets({k, c})
    /\ UNCHANGED <<csCase, csBorn, csBirths, csCapture, csGraph, csWanted, csStale>>

(* Fault: removing writes the list back as it was.                             *)
CsNewListAdds(r) == IF r.kind = "add" THEN r.list \cup {r.cap} ELSE r.list

CsNewList(r) == IF r.kind = "add" THEN r.list \cup {r.cap} ELSE r.list \ {r.cap}

(* CaseRepository.update: writes the list loaded before, changed; adding a     *)
(* capture already listed writes nothing.  A row deleted meanwhile makes the   *)
(* UPDATE fail, and the request with it.                                       *)
CsUpdate(q) ==
    /\ csReq[q].pc = "update"
    /\ LET r == csReq[q]
           writes == CsNewList(r) # r.list \/ r.kind = "remove"
       IN  IF writes /\ ~CsExists(r.case)
           THEN /\ csReq' = [csReq EXCEPT ![q] = CsIdle]
                /\ UNCHANGED <<csCase, csWanted>>
           ELSE /\ csReq' = [csReq EXCEPT ![q] = [pc |-> "clear", case |-> r.case, cap |-> r.cap]]
                /\ csCase' = IF writes THEN [csCase EXCEPT ![r.case] = CsNewList(r)] ELSE csCase
                /\ csWanted' = IF CsExists(r.case)
                               THEN [csWanted EXCEPT ![r.case] =
                                        IF r.kind = "add" THEN @ \cup {r.cap} ELSE @ \ {r.cap}]
                               ELSE csWanted
    /\ UNCHANGED <<csBorn, csBirths, csCapture, csGraph, csCount, csDirty, csStale>>

(* rebuild_for_capture: delete the edges, compute the new ones, insert them.   *)
CsClear(q) ==
    /\ csReq[q].pc = "clear"
    /\ csGraph' = [csGraph EXCEPT ![csReq[q].cap] = CsNoGraph]
    /\ csReq' = [csReq EXCEPT ![q].pc = "build"]
    /\ UNCHANGED <<csCase, csBorn, csBirths, csCapture, csCount, csWanted, csDirty, csStale>>

CsBuild(q) ==
    /\ csReq[q].pc = "build"
    /\ csReq' = [csReq EXCEPT ![q] =
            [pc |-> "insert", case |-> @.case, cap |-> @.cap, names |-> CsIncluding(@.cap)]]
    /\ UNCHANGED <<csCase, csBorn, csBirths, csCapture, csGraph, csCount, csWanted, csDirty, csStale>>

(* Edge ids are derived, so edges somebody else inserted meanwhile make the    *)
(* insert fail; there is no foreign key to captures.                           *)
CsInsert(q) ==
    /\ csReq[q].pc = "insert"
    /\ LET r == csReq[q]
       IN  IF csGraph[r.cap] = CsNoGraph
           THEN /\ csGraph' = [csGraph EXCEPT ![r.cap] = r.names]
                /\ csStale' = csStale \ {r.cap}
           ELSE /\ csStale' = csStale \cup {r.cap}
                /\ UNCHANGED csGraph
    /\ csReq' = [csReq EXCEPT ![q] = CsIdle]
    /\ UNCHANGED <<csCase, csBorn, csBirths, csCapture, csCount, csWanted, csDirty>>

(* A commit of the request fails for good, or the process dies under it.  What *)
(* it committed stays, and nothing makes up for the rebuild it did not finish. *)
CsFail(q) ==
    /\ csReq[q] # CsIdle
    /\ csReq' = [csReq EXCEPT ![q] = CsIdle]
    /\ csStale' = IF csReq[q].pc = "update" THEN csStale ELSE csStale \cup {csReq[q].cap}
    /\ UNCHANGED <<csCase, csBorn, csBirths, csCapture, csGraph, csCount, csWanted, csDirty>>

(* DELETE /cases/{k}: only the row goes; no graph is rebuilt.                  *)
CsDelete(k) ==
    /\ CsExists(k)
    /\ csCase' = [csCase EXCEPT ![k] = CsAbsent]
    /\ csWanted' = [csWanted EXCEPT ![k] = CsAbsent]
    /\ csDirty' = csDirty \cup CsMeets({k})
    /\ UNCHANGED <<csBorn, csBirths, csCapture, csGraph, csReq, csCount, csStale>>

(* Fault: the lists of the cases are forgotten.                                *)
CsDeleteCaptureOnly(c) ==
    /\ csCapture[c]
    /\ csCapture' = [csCapture EXCEPT ![c] = FALSE]
    /\ csGraph' = [csGraph EXCEPT ![c] = CsNoGraph]
    /\ csDirty' = csDirty \cup CsMeets({c})
    /\ UNCHANGED <<csCase, csBorn, csBirths, csReq, csCount, csWanted, csStale>>

(* delete_capture: one transaction drops the edges, strips the id from every   *)
(* list and deletes the row.                                                   *)
CsDeleteCapture(c) ==
    /\ csCapture[c]
    /\ csCapture' = [csCapture EXCEPT ![c] = FALSE]
    /\ csGraph' = [csGraph EXCEPT ![c] = CsNoGraph]
    /\ csCase' = [k \in CsCases |-> IF CsExists(k) THEN csCase[k] \ {c} ELSE CsAbsent]
    /\ csWanted' = [k \in CsCases |-> IF CsExists(k) THEN csWanted[k] \ {c} ELSE csWanted[k]]
    (* a request in progress holds the id in the list it loaded *)
    /\ csDirty' = csDirty \cup CsMeets({c})
                      \cup {csReq[q].case :
                                  q \in {r \in CsClients : csReq[r].pc = "update" /\ c \in csReq[r].list}}
    /\ UNCHANGED <<csBorn, csBirths, csReq, csCount, csStale>>

CsNext ==
    \/ \E q \in CsClients :
          \/ CsUpdate(q) \/ CsClear(q) \/ CsBuild(q) \/ CsInsert(q) \/ CsFail(q)
          \/ \E k \in CsCases, c \in CsCaptures, kind \in {"add", "remove"} : CsLoad(q, k, c, kind)
    \/ \E k \in CsCases : CsCreate(k) \/ CsDelete(k)
    \/ \E c \in CsCaptures : CsDeleteCapture(c)

CsSpec == CsInit /\ [][CsNext]_csVars

-----------------------------------------------------------------------------
CsBusy(x) == x \in CsMeets({x})

CsTypeOK ==
    /\ csCase \in [CsCases -> {CsAbsent} \cup SUBSET CsCaptures]
    /\ csCapture \in [CsCaptures -> BOOLEAN]
    /\ csGraph \in [CsCaptures -> {CsNoGraph} \cup SUBSET CsCases]
    /\ \A q \in CsClients : csReq[q].pc \in {"idle", "update", "clear", "build", "insert"}
    /\ csCount \in 0 .. CsMaxRequests
    /\ csBorn \in [CsCases -> Nat] /\ csBirths \in Nat
    /\ csStale \subseteq CsCaptures

(* Membership is what the committed changes add up to, failed requests and     *)
(* deletions of captures included, for every case no two requests changed at once.          *)
CsMembershipKept ==
    \A k \in CsCases \ csDirty : CsExists(k) => csCase[k] = csWanted[k]

(* Fewer than CsListed cases were created after this one.                      *)
CsRecent(k) == csBirths - csBorn[k] < CsListed

(* At rest the graph of a capture that exists names cases that list it, and    *)
(* besides only cases deleted since; and of the cases that list it, it names   *)
(* all that are recent enough to be read.  Not so if two requests met on a     *)
(* case or capture, or if the last change of a case with this capture failed   *)
(* between its commit and the end of the rebuild: nothing repeats the rebuild. *)
CsGraphNamesItsCases ==
    \A c \in CsCaptures :
        (csCapture[c] /\ ~CsBusy(c) /\ csDirty = {} /\ c \notin csStale) =>
            /\ csGraph[c] # CsNoGraph
            /\ {k \in csGraph[c] : CsExists(k)} \subseteq CsListing(c)
            /\ {k \in CsListing(c) : CsRecent(k)} \subseteq csGraph[c]

(* A deleted capture leaves nothing behind: no list and no edge names it,      *)
(* unless a request was working on it, or on a list with it, at the time.      *)
CsDeletedIsGone ==
    \A c \in CsCaptures :
        ~csCapture[c] => \/ c \in csDirty
                         \/ /\ csGraph[c] = CsNoGraph
                            /\ \A k \in CsListing(c) : k \in csDirty
=============================================================================
