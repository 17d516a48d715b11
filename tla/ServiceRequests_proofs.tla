----------------------- MODULE ServiceRequests_proofs -----------------------
(* The rows that requests share (cases, the retrying database session, the     *)
(* stream of job rows a page watches), and all request-serving parts together: *)
(* what was proved of a part alone holds where all of them run.                *)
EXTENDS ServiceRequests, Access_proofs

-----------------------------------------------------------------------------
(* What holds of cases, captures and their graphs, for any number of them, of  *)
(* concurrent requests and of membership changes.                              *)
CsMembers == {CsAbsent} \cup SUBSET CsCaptures
CsUpdating == [pc : {"update"}, kind : {"add", "remove"}, case : CsCases, cap : CsCaptures,
               list : SUBSET CsCaptures]
CsRebuilding == [pc : {"clear", "build"}, case : CsCases, cap : CsCaptures]
CsInserting == [pc : {"insert"}, case : CsCases, cap : CsCaptures, names : SUBSET CsCases]

CsTyped ==
    /\ csCase \in [CsCases -> CsMembers]
    /\ csCapture \in [CsCaptures -> BOOLEAN]
    /\ csGraph \in [CsCaptures -> {CsNoGraph} \cup SUBSET CsCases]
    /\ csReq \in [CsClients -> {CsIdle} \cup CsUpdating \cup CsRebuilding \cup CsInserting]
    /\ csWanted \in [CsCases -> SUBSET (CsCaptures \cup CsAbsent)]
    /\ csStale \subseteq CsCaptures

(* No two cases were created at once.                                          *)
CsBornInv ==
    /\ csBorn \in [CsCases -> Nat] /\ csBirths \in Nat
    /\ \A k \in CsCases : csBorn[k] <= csBirths
    /\ \A j, k \in CsCases : (j # k /\ csBorn[j] # 0) => csBorn[j] # csBorn[k]

CsActive(q) == csReq[q].pc # "idle"

(* Two requests on one case or capture are on record.                          *)
CsApart ==
    \A q, r \in CsClients :
        (q # r /\ CsActive(q) /\ CsActive(r)) =>
            /\ csReq[q].case = csReq[r].case => csReq[q].case \in csDirty
            /\ csReq[q].cap = csReq[r].cap => csReq[q].cap \in csDirty

(* The list a request holds is that of the row, unless somebody met it.        *)
CsCurrent ==
    \A q \in CsClients :
        (csReq[q].pc = "update" /\ csReq[q].case \notin csDirty) =>
            CsExists(csReq[q].case) /\ csReq[q].list = csCase[csReq[q].case]

(* A case that can still be created was never listed and is named nowhere.     *)
CsUnborn ==
    \A k \in CsCases :
        (~CsExists(k) /\ csWanted[k] # CsAbsent) =>
            /\ csWanted[k] = {}
            /\ \A c \in CsCaptures : k \notin csGraph[c]
            /\ \A q \in CsClients : csReq[q].pc = "insert" => k \notin csReq[q].names

(* Nothing works on a deleted capture, or on a list that still has it.         *)
CsGone ==
    \A c \in CsCaptures :
        (~csCapture[c] /\ c \notin csDirty) =>
            /\ csGraph[c] = CsNoGraph
            /\ \A k \in CsCases : (CsExists(k) /\ c \in csCase[k]) => k \in csDirty
            /\ \A q \in CsClients :
                  /\ CsActive(q) => csReq[q].cap # c
                  /\ (csReq[q].pc = "update" /\ c \in csReq[q].list) => csReq[q].case \in csDirty

(* The edges named are those of cases that list the capture, all recent ones   *)
(* among them, and of cases that exist no more.                                *)
CsShows(names, c) ==
    \A k \in CsCases : CsExists(k) => /\ k \in names => c \in csCase[k]
                                      /\ (c \in csCase[k] /\ CsRecent(k)) => k \in names

CsGraphRight ==
    csDirty = {} =>
        /\ \A c \in CsCaptures :
              (/\ csCapture[c] /\ c \notin csStale
               /\ \A q \in CsClients : (CsActive(q) /\ csReq[q].cap = c) => csReq[q].pc = "update") =>
                  csGraph[c] # CsNoGraph /\ CsShows(csGraph[c], c)
        /\ \A q \in CsClients :
              /\ csReq[q].pc \in {"build", "insert"} => csGraph[csReq[q].cap] = CsNoGraph
              /\ csReq[q].pc = "insert" => CsShows(csReq[q].names, csReq[q].cap)

CsInv ==
    /\ CsTyped /\ CsBornInv /\ CsApart /\ CsCurrent /\ CsMembershipKept
    /\ CsUnborn /\ CsGone /\ CsGraphRight

-----------------------------------------------------------------------------
(* The fields a request has at each point.                                     *)
LEMMA CsRequestFields ==
    ASSUME CsTyped, NEW q \in CsClients
    PROVE  /\ csReq[q].pc \in {"idle", "update", "clear", "build", "insert"}
           /\ csReq[q] = CsIdle <=> csReq[q].pc = "idle"
           /\ CsActive(q) => csReq[q].case \in CsCases /\ csReq[q].cap \in CsCaptures
           /\ csReq[q].pc = "update" => csReq[q] \in CsUpdating
           /\ csReq[q].pc \in {"clear", "build"} => csReq[q] \in CsRebuilding
           /\ csReq[q].pc = "insert" => csReq[q] \in CsInserting
  BY DEF CsTyped, CsActive, CsIdle, CsUpdating, CsRebuilding, CsInserting

LEMMA CsMeetsMember ==
    ASSUME CsTyped, NEW S, NEW x
    PROVE  x \in CsMeets(S) <=>
             \E q \in CsClients : CsActive(q) /\ x \in S /\ x \in {csReq[q].case, csReq[q].cap}
  BY CsRequestFields DEF CsMeets, CsActive

(* No list is the absent row, and no set of cases the missing graph.           *)
LEMMA CsMarks ==
    /\ \A m \in SUBSET CsCaptures : m # CsAbsent
    /\ \A g \in SUBSET CsCases : g # CsNoGraph
  <1>1. "absent" \in CsAbsent /\ "none" \in CsNoGraph
    BY DEF CsAbsent, CsNoGraph
  <1> QED
    BY <1>1, CsAssumption

(* What is on record stays so.                                                 *)
LEMMA CsDirtyGrows == ASSUME [CsNext]_csVars PROVE csDirty \subseteq csDirty'
  BY DEF CsNext, csVars, CsLoad, CsUpdate, CsClear, CsBuild, CsInsert, CsFail, CsCreate, CsDelete, CsDeleteCapture

(* limit: a case with fewer than CsListed younger ones is among those read.    *)
LEMMA CsRecentRead ==
    ASSUME CsBornInv, NEW k \in CsCases, CsRecent(k) PROVE k \in CsNewest
  <1> DEFINE younger == {j \in CsCases : CsExists(j) /\ csBorn[j] > csBorn[k]}
             births == (csBorn[k] + 1) .. csBirths
             born == [j \in younger |-> csBorn[j]]
  <1>1. csBorn[k] \in Nat /\ csBirths \in Nat /\ CsListed \in Nat /\ csBorn[k] <= csBirths
    BY CsAssumption DEF CsBornInv
  <1>2. \A j \in younger : csBorn[j] \in births
    BY <1>1 DEF CsBornInv
  <1>3. \A i, j \in younger : i # j => csBorn[i] # csBorn[j]
    BY <1>1 DEF CsBornInv
  <1>4. born \in Injection(younger, births)
    <2> HIDE DEF younger, births
    <2> QED
      BY <1>2, <1>3 DEF Injection, IsInjective
  <1>5. IsFiniteSet(births) /\ Cardinality(births) = csBirths - csBorn[k]
    <2>1. /\ IsFiniteSet(births)
          /\ Cardinality(births) = IF csBorn[k] + 1 > csBirths THEN 0 ELSE csBirths - (csBorn[k] + 1) + 1
      <3>1. csBorn[k] + 1 \in Int /\ csBirths \in Int
        BY <1>1
      <3> QED
        BY <3>1, FS_Interval
    <2> HIDE DEF births
    <2> QED
      BY <1>1, <2>1
  <1>6. Cardinality(younger) <= Cardinality(births) /\ Cardinality(younger) \in Nat
    <2> HIDE DEF younger, births, born
    <2> QED
      BY <1>4, <1>5, FS_Injection, FS_CardinalityType
  <1> QED
    BY <1>1, <1>5, <1>6 DEF CsRecent, CsNewest

LEMMA CsInitInv == CsInit => CsInv
  <1> SUFFICES ASSUME CsInit PROVE CsInv
    OBVIOUS
  <1>1. \A q \in CsClients : csReq[q].pc = "idle" /\ ~CsActive(q)
    BY DEF CsInit, CsIdle, CsActive
  <1>2. \A k \in CsCases : ~CsExists(k) /\ csWanted[k] = {}
    BY DEF CsInit, CsExists
  <1>3. CsTyped
    BY DEF CsInit, CsTyped, CsMembers
  <1>5. CsBornInv
    BY DEF CsInit, CsBornInv
  <1>4. \A c \in CsCaptures : csCapture[c] /\ csGraph[c] = {} /\ csGraph[c] # CsNoGraph
    BY DEF CsInit, CsNoGraph
  <1> QED
    BY <1>1, <1>2, <1>3, <1>4, <1>5
    DEF CsInv, CsApart, CsCurrent, CsMembershipKept, CsUnborn, CsGone, CsGraphRight, CsShows, CsRecent

-----------------------------------------------------------------------------
(* One lemma per action: it preserves the invariant.                           *)
LEMMA CsCreateKeeps == ASSUME CsInv, NEW k \in CsCases, CsCreate(k) PROVE CsInv'
  <1>1. /\ ~CsExists(k) /\ csWanted[k] = {}
        /\ csCase' = [csCase EXCEPT ![k] = {}]
        /\ csBirths' = csBirths + 1 /\ csBorn' = [csBorn EXCEPT ![k] = csBirths + 1]
        /\ UNCHANGED <<csCapture, csGraph, csReq, csWanted, csDirty, csStale>>
    BY DEF CsCreate, CsExists, CsInv, CsUnborn
  <1>2. {} # CsAbsent
    BY DEF CsAbsent
  <1>3. \A j \in CsCases : /\ CsExists(j)' <=> CsExists(j) \/ j = k
                           /\ j # k => csCase'[j] = csCase[j]
                           /\ csCase'[k] = {}
    BY <1>1, <1>2 DEF CsExists, CsInv, CsTyped
  <1>4. CsTyped' /\ CsApart'
    BY <1>1 DEF CsInv, CsTyped, CsMembers, CsApart, CsActive
  <1>5. CsCurrent'
    BY <1>1, <1>3, CsRequestFields DEF CsInv, CsCurrent, CsActive
  <1>6. CsMembershipKept'
    BY <1>1, <1>3 DEF CsInv, CsMembershipKept
  <1>7. CsUnborn' /\ CsGone'
    BY <1>1, <1>3 DEF CsInv, CsUnborn, CsGone, CsActive
  <1>8. (\A c \in CsCaptures : k \notin csGraph[c])
        /\ \A q \in CsClients : csReq[q].pc = "insert" => k \notin csReq[q].names
    BY <1>1 DEF CsInv, CsUnborn, CsAbsent
  <1>9. CsBornInv' /\ \A j \in CsCases : j # k => (CsRecent(j)' => CsRecent(j))
    BY <1>1, CsAssumption DEF CsInv, CsBornInv, CsRecent
  <1>10. ASSUME NEW names, NEW c, k \notin names, CsShows(names, c) PROVE CsShows(names, c)'
    BY <1>3, <1>9, <1>10 DEF CsShows, CsRecent
  <1>11. CsGraphRight'
    BY <1>1, <1>8, <1>10, CsRequestFields DEF CsInv, CsGraphRight, CsActive
  <1> QED
    BY <1>4, <1>5, <1>6, <1>7, <1>9, <1>11 DEF CsInv

LEMMA CsLoadKeeps ==
    ASSUME CsInv, NEW q \in CsClients, NEW k \in CsCases, NEW c \in CsCaptures,
           NEW kind \in {"add", "remove"}, CsLoad(q, k, c, kind)
    PROVE  CsInv'
  <1> DEFINE loaded == [pc |-> "update", kind |-> kind, case |-> k, cap |-> c, list |-> csCase[k]]
  <1>1. /\ csReq[q] = CsIdle /\ CsExists(k) /\ csCapture[c]
        /\ csReq' = [csReq EXCEPT ![q] = loaded]
        /\ csDirty' = csDirty \cup CsMeets({k, c})
        /\ UNCHANGED <<csCase, csBorn, csBirths, csCapture, csGraph, csWanted, csStale>>
    BY DEF CsLoad
  <1>2. CsTyped /\ csCase[k] \in SUBSET CsCaptures
    BY <1>1 DEF CsInv, CsTyped, CsMembers, CsExists
  <1>3. CsTyped'
    BY <1>1, <1>2 DEF CsTyped, CsUpdating
  <1>4. /\ csReq'[q] = loaded
        /\ \A r \in CsClients : r # q => csReq'[r] = csReq[r]
        /\ ~CsActive(q)
    BY <1>1, <1>2, CsRequestFields DEF CsTyped, CsActive
  <1>5. CsApart'
    <2>1. ASSUME NEW r \in CsClients, r # q, CsActive(r)
          PROVE  /\ csReq[r].case = k => k \in csDirty'
                 /\ csReq[r].cap = c => c \in csDirty'
      BY <1>1, <1>2, <2>1, CsMeetsMember
    <2>2. csReq'[q].case = k /\ csReq'[q].cap = c
      BY <1>4
    <2>3. ASSUME NEW r \in CsClients, NEW o \in CsClients, r # o, CsActive(r)', CsActive(o)'
          PROVE  /\ csReq'[r].case = csReq'[o].case => csReq'[r].case \in csDirty'
                 /\ csReq'[r].cap = csReq'[o].cap => csReq'[r].cap \in csDirty'
      <3>1. CASE r = q
        BY <1>4, <2>1, <2>2, <2>3, <3>1 DEF CsActive
      <3>2. CASE o = q
        BY <1>4, <2>1, <2>2, <2>3, <3>2 DEF CsActive
      <3>3. CASE r # q /\ o # q
        BY <1>1, <1>4, <2>3, <3>3 DEF CsInv, CsApart, CsActive
      <3> QED
        BY <3>1, <3>2, <3>3
    <2> QED
      BY <2>3 DEF CsApart
  <1>6. CsCurrent' /\ CsMembershipKept'
    BY <1>1, <1>4 DEF CsInv, CsCurrent, CsMembershipKept, CsExists
  <1>7. CsUnborn'
    BY <1>1, <1>4 DEF CsInv, CsUnborn, CsExists
  <1>8. CsGone'
    BY <1>1, <1>4 DEF CsInv, CsGone, CsExists, CsActive
  <1>9. CsGraphRight'
    BY <1>1, <1>4 DEF CsInv, CsGraphRight, CsShows, CsRecent, CsExists, CsActive
  <1>10. CsBornInv'
    BY <1>1 DEF CsInv, CsBornInv
  <1> QED
    BY <1>3, <1>5, <1>6, <1>7, <1>8, <1>9, <1>10 DEF CsInv

(* A request that goes on meets nobody new.                                    *)
LEMMA CsApartKept ==
    ASSUME CsTyped, CsApart, NEW q \in CsClients, CsActive(q), csDirty' = csDirty,
           csReq'[q].pc # "idle" => csReq'[q].case = csReq[q].case /\ csReq'[q].cap = csReq[q].cap,
           \A r \in CsClients : r # q => csReq'[r] = csReq[r]
    PROVE  CsApart'
  BY DEF CsApart, CsActive

LEMMA CsUpdateKeeps == ASSUME CsInv, NEW q \in CsClients, CsUpdate(q) PROVE CsInv'
  <1> DEFINE r == csReq[q]
             writes == CsNewList(r) # r.list \/ r.kind = "remove"
             next == [pc |-> "clear", case |-> r.case, cap |-> r.cap]
  <1>1. /\ CsTyped /\ r \in CsUpdating /\ r.pc = "update" /\ CsActive(q)
        /\ r.case \in CsCases /\ r.cap \in CsCaptures /\ r.list \in SUBSET CsCaptures
        /\ UNCHANGED <<csBorn, csBirths, csCapture, csGraph, csCount, csDirty, csStale>>
    BY CsRequestFields DEF CsUpdate, CsInv, CsUpdating, CsActive
  <1>2. CsNewList(r) \in SUBSET CsCaptures /\ CsBornInv'
    <2>1. CsBornInv'
      BY <1>1 DEF CsInv, CsBornInv
    <2> QED
      BY <1>1, <2>1 DEF CsNewList
  <1>3. CASE writes /\ ~CsExists(r.case)
    <2>1. csReq' = [csReq EXCEPT ![q] = CsIdle] /\ UNCHANGED <<csCase, csWanted>>
      BY <1>3 DEF CsUpdate
    <2>2. csReq'[q] = CsIdle /\ csReq'[q].pc = "idle" /\ \A o \in CsClients : o # q => csReq'[o] = csReq[o]
      BY <1>1, <2>1 DEF CsTyped, CsIdle
    <2>3. CsTyped'
      BY <1>1, <2>1 DEF CsTyped
    <2>4. CsApart'
      BY <1>1, <2>2, CsApartKept DEF CsInv
    <2>5. CsCurrent' /\ CsMembershipKept' /\ CsUnborn' /\ CsGone'
      BY <1>1, <2>1, <2>2
      DEF CsInv, CsCurrent, CsMembershipKept, CsUnborn, CsGone, CsExists, CsActive
    <2>6. csDirty # {}
      BY <1>1, <1>3 DEF CsInv, CsCurrent
    <2> QED
      BY <1>1, <1>2, <2>3, <2>4, <2>5, <2>6 DEF CsInv, CsGraphRight
  <1>4. CASE ~(writes /\ ~CsExists(r.case))
    <2>1. /\ csReq' = [csReq EXCEPT ![q] = next]
          /\ csCase' = IF writes THEN [csCase EXCEPT ![r.case] = CsNewList(r)] ELSE csCase
          /\ csWanted' = IF CsExists(r.case)
                         THEN [csWanted EXCEPT ![r.case] =
                                  IF r.kind = "add" THEN @ \cup {r.cap} ELSE @ \ {r.cap}]
                         ELSE csWanted
      BY <1>4 DEF CsUpdate
    <2>2. csReq'[q] = next /\ \A o \in CsClients : o # q => csReq'[o] = csReq[o]
      BY <1>1, <2>1 DEF CsTyped
    <2>3. \A k \in CsCases : /\ CsExists(k)' <=> CsExists(k)
                             /\ k # r.case => csCase'[k] = csCase[k] /\ csWanted'[k] = csWanted[k]
      BY <1>1, <1>2, <1>4, <2>1, CsMarks DEF CsExists, CsTyped
    <2>4. r.case \notin csDirty =>
             /\ CsExists(r.case) /\ csCase[r.case] = r.list /\ csWanted[r.case] = r.list
             /\ csCase'[r.case] = CsNewList(r) /\ csWanted'[r.case] = CsNewList(r)
      <3> SUFFICES ASSUME r.case \notin csDirty
                   PROVE  /\ CsExists(r.case) /\ csCase[r.case] = r.list /\ csWanted[r.case] = r.list
                          /\ csCase'[r.case] = CsNewList(r) /\ csWanted'[r.case] = CsNewList(r)
        OBVIOUS
      <3>1. CsExists(r.case) /\ csCase[r.case] = r.list /\ csWanted[r.case] = r.list
        BY <1>1 DEF CsInv, CsCurrent, CsMembershipKept
      <3>2. csCase'[r.case] = CsNewList(r)
        BY <1>1, <2>1, <3>1 DEF CsTyped
      <3>3. csWanted'[r.case] = CsNewList(r)
        BY <1>1, <2>1, <3>1 DEF CsTyped, CsNewList
      <3> QED
        BY <3>1, <3>2, <3>3
    <2>5. CsTyped'
      <3>1. next \in CsRebuilding
        BY <1>1 DEF CsRebuilding
      <3>2. csReq' \in [CsClients -> {CsIdle} \cup CsUpdating \cup CsRebuilding \cup CsInserting]
        BY <1>1, <2>1, <3>1 DEF CsTyped
      <3>3. csCase' \in [CsCases -> CsMembers]
        BY <1>1, <1>2, <2>1 DEF CsTyped, CsMembers
      <3>4. csWanted' \in [CsCases -> SUBSET (CsCaptures \cup CsAbsent)]
        <4>1. CASE ~CsExists(r.case)
          BY <1>1, <2>1, <4>1 DEF CsTyped
        <4>2. CASE CsExists(r.case)
          BY <1>1, <2>1, <4>2 DEF CsTyped, CsMembers
        <4> QED
          BY <4>1, <4>2
      <3> QED
        BY <1>1, <3>2, <3>3, <3>4 DEF CsTyped
    <2>6. CsApart'
      BY <1>1, <2>2, CsApartKept DEF CsInv
    <2>7. CsCurrent'
      <3> SUFFICES ASSUME NEW o \in CsClients, csReq'[o].pc = "update", csReq'[o].case \notin csDirty
                   PROVE  CsExists(csReq[o].case)' /\ csReq[o].list = csCase'[csReq[o].case] /\ o # q
        BY <1>1, <2>2 DEF CsCurrent, CsExists
      <3>1. o # q /\ csReq'[o] = csReq[o]
        BY <2>2
      <3>2. csReq[o].case # r.case /\ csReq[o].case \in CsCases
        BY <1>1, <3>1, CsRequestFields DEF CsInv, CsApart, CsActive
      <3> QED
        BY <2>3, <3>1, <3>2 DEF CsInv, CsCurrent
    <2>8. CsMembershipKept'
      BY <1>1, <2>3, <2>4 DEF CsInv, CsMembershipKept
    <2>9. CsUnborn'
      <3>1. \A k \in CsCases : ~CsExists(k) => csWanted'[k] = csWanted[k]
        BY <1>1, <2>1, <2>3
      <3> QED
        BY <1>1, <2>2, <2>3, <3>1 DEF CsInv, CsUnborn
    <2>10. CsGone'
      <3> SUFFICES ASSUME NEW c \in CsCaptures, ~csCapture[c], c \notin csDirty
                   PROVE  /\ csGraph[c] = CsNoGraph
                          /\ \A k \in CsCases : (CsExists(k)' /\ c \in csCase'[k]) => k \in csDirty
                          /\ \A o \in CsClients :
                                /\ CsActive(o)' => csReq'[o].cap # c
                                /\ (csReq'[o].pc = "update" /\ c \in csReq'[o].list)
                                        => csReq'[o].case \in csDirty
        BY <1>1 DEF CsGone
      <3>1. r.cap # c /\ (c \in r.list => r.case \in csDirty)
        BY <1>1 DEF CsInv, CsGone
      <3>2. ASSUME c \in csCase'[r.case], r.case \notin csDirty PROVE FALSE
        BY <1>1, <2>4, <3>1, <3>2 DEF CsNewList
      <3>3. \A o \in CsClients :
                /\ CsActive(o)' => csReq'[o].cap # c
                /\ (csReq'[o].pc = "update" /\ c \in csReq'[o].list) => csReq'[o].case \in csDirty
        BY <1>1, <2>2, <3>1 DEF CsInv, CsGone, CsActive
      <3> QED
        BY <2>3, <3>2, <3>3 DEF CsInv, CsGone
    <2>11. CsGraphRight'
      <3> SUFFICES ASSUME csDirty = {} PROVE CsGraphRight'
        BY <1>1 DEF CsGraphRight
      <3>1. ASSUME NEW c \in CsCaptures, c # r.cap, NEW names, CsShows(names, c)
            PROVE  CsShows(names, c)'
        <4>1. \A k \in CsCases : c \in csCase'[k] <=> c \in csCase[k]
          BY <1>1, <2>3, <2>4, <3>1 DEF CsNewList
        <4> QED
          BY <1>1, <2>3, <3>1, <4>1 DEF CsShows, CsRecent
      <3>2. ASSUME NEW c \in CsCaptures, csCapture[c], c \notin csStale,
                   \A o \in CsClients : (CsActive(o)' /\ csReq'[o].cap = c) => csReq'[o].pc = "update"
            PROVE  csGraph[c] # CsNoGraph /\ CsShows(csGraph[c], c)'
        <4>1. c # r.cap
          BY <2>2, <3>2 DEF CsActive
        <4>2. \A o \in CsClients : (CsActive(o) /\ csReq[o].cap = c) => csReq[o].pc = "update"
          BY <1>1, <2>2, <3>2 DEF CsActive
        <4>3. csGraph[c] # CsNoGraph /\ CsShows(csGraph[c], c)
          BY <3>2, <4>2 DEF CsInv, CsGraphRight
        <4>4. CsShows(csGraph[c], c)'
          BY <1>1, <3>1, <4>1, <4>3 DEF CsShows, CsRecent
        <4> QED
          BY <4>3, <4>4
      <3>3. ASSUME NEW o \in CsClients, csReq'[o].pc \in {"build", "insert"}
            PROVE  /\ csGraph[csReq'[o].cap] = CsNoGraph
                   /\ csReq'[o].pc = "insert" => CsShows(csReq[o].names, csReq[o].cap)'
        <4>1. o # q /\ csReq'[o] = csReq[o]
          BY <2>2, <3>3
        <4>2. csReq[o].cap # r.cap /\ csReq[o].cap \in CsCaptures
          BY <1>1, <3>3, <4>1, CsRequestFields DEF CsInv, CsApart, CsActive
        <4>3. csReq'[o].pc = "insert" => CsShows(csReq[o].names, csReq[o].cap)
          BY <4>1 DEF CsInv, CsGraphRight
        <4>4. csReq'[o].pc = "insert" => CsShows(csReq[o].names, csReq[o].cap)'
          BY <2>3, <3>1, <4>1, <4>2, <4>3 DEF CsShows, CsRecent
        <4>5. csGraph[csReq[o].cap] = CsNoGraph
          BY <3>3, <4>1 DEF CsInv, CsGraphRight
        <4> QED
          BY <4>1, <4>4, <4>5
      <3> QED
        BY <1>1, <3>2, <3>3 DEF CsGraphRight
    <2> QED
      BY <1>2, <2>5, <2>6, <2>7, <2>8, <2>9, <2>10, <2>11 DEF CsInv
  <1> QED
    BY <1>3, <1>4

(* The steps of a rebuild change no list.                                      *)
LEMMA CsListsKept ==
    ASSUME CsInv, NEW q \in CsClients, CsActive(q),
           UNCHANGED <<csCase, csBorn, csBirths, csCapture, csWanted, csDirty>>, csReq'[q].pc # "update",
           csReq'[q].pc # "idle" => csReq'[q].case = csReq[q].case /\ csReq'[q].cap = csReq[q].cap,
           \A r \in CsClients : r # q => csReq'[r] = csReq[r]
    PROVE  /\ CsBornInv' /\ CsApart' /\ CsCurrent' /\ CsMembershipKept'
           /\ \A names, c : CsShows(names, c)' <=> CsShows(names, c)
           /\ \A k : CsExists(k)' <=> CsExists(k)
  <1>1. CsApart'
    BY CsApartKept DEF CsInv
  <1>2. CsCurrent' /\ CsMembershipKept'
    BY DEF CsInv, CsCurrent, CsMembershipKept, CsExists
  <1>3. CsBornInv'
    BY DEF CsInv, CsBornInv
  <1> QED
    BY <1>1, <1>2, <1>3 DEF CsShows, CsRecent, CsExists

LEMMA CsClearKeeps == ASSUME CsInv, NEW q \in CsClients, CsClear(q) PROVE CsInv'
  <1> DEFINE cap == csReq[q].cap
  <1>1. /\ CsTyped /\ csReq[q] \in CsRebuilding /\ CsActive(q) /\ cap \in CsCaptures
        /\ csGraph' = [csGraph EXCEPT ![cap] = CsNoGraph]
        /\ csReq' = [csReq EXCEPT ![q] = [csReq[q] EXCEPT !.pc = "build"]]
        /\ UNCHANGED <<csCase, csBorn, csBirths, csCapture, csWanted, csDirty, csStale>>
    BY CsRequestFields DEF CsClear, CsInv, CsActive
  <1>2. /\ csReq'[q] \in CsRebuilding /\ csReq'[q].pc = "build" /\ csReq'[q].cap = cap
        /\ csReq'[q].case = csReq[q].case
        /\ \A r \in CsClients : r # q => csReq'[r] = csReq[r]
    BY <1>1 DEF CsTyped, CsRebuilding
  <1>3. csGraph'[cap] = CsNoGraph /\ \A c \in CsCaptures : c # cap => csGraph'[c] = csGraph[c]
    BY <1>1 DEF CsTyped
  <1>4. CsTyped'
    BY <1>1, <1>2 DEF CsTyped
  <1>5. /\ CsBornInv' /\ CsApart' /\ CsCurrent' /\ CsMembershipKept'
        /\ \A names, c : CsShows(names, c)' <=> CsShows(names, c)
        /\ \A k : CsExists(k)' <=> CsExists(k)
    BY <1>1, <1>2, CsListsKept
  <1>6. CsUnborn'
    <2>1. \A k \in CsCases : k # "none"
      BY CsAssumption
    <2> QED
      BY <1>1, <1>2, <1>3, <1>5, <2>1 DEF CsInv, CsUnborn, CsNoGraph
  <1>7. CsGone'
    BY <1>1, <1>2, <1>3, <1>5 DEF CsInv, CsGone, CsActive
  <1>8. CsGraphRight'
    <2> SUFFICES ASSUME csDirty = {} PROVE CsGraphRight'
      BY <1>1 DEF CsGraphRight
    <2>1. ASSUME NEW c \in CsCaptures, csCapture[c], c \notin csStale,
                 \A o \in CsClients : (CsActive(o)' /\ csReq'[o].cap = c) => csReq'[o].pc = "update"
          PROVE  csGraph'[c] # CsNoGraph /\ CsShows(csGraph'[c], c)
      BY <1>1, <1>2, <1>3, <2>1 DEF CsInv, CsGraphRight, CsActive
    <2>2. ASSUME NEW o \in CsClients, csReq'[o].pc \in {"build", "insert"}
          PROVE  /\ csGraph'[csReq'[o].cap] = CsNoGraph
                 /\ csReq'[o].pc = "insert" => CsShows(csReq'[o].names, csReq'[o].cap)
      <3>1. CASE o = q
        BY <1>2, <1>3, <3>1
      <3>2. CASE o # q
        BY <1>1, <1>2, <1>3, <2>2, <3>2, CsRequestFields DEF CsInv, CsGraphRight, CsActive
      <3> QED
        BY <3>1, <3>2
    <2> QED
      BY <1>1, <1>5, <2>1, <2>2 DEF CsGraphRight, CsShows, CsRecent, CsExists
  <1> QED
    BY <1>4, <1>5, <1>6, <1>7, <1>8 DEF CsInv

LEMMA CsBuildKeeps == ASSUME CsInv, NEW q \in CsClients, CsBuild(q) PROVE CsInv'
  <1> DEFINE cap == csReq[q].cap
             next == [pc |-> "insert", case |-> csReq[q].case, cap |-> cap, names |-> CsIncluding(cap)]
  <1>1. /\ CsTyped /\ csReq[q].pc = "build" /\ CsActive(q)
        /\ cap \in CsCaptures /\ csReq[q].case \in CsCases
        /\ csReq' = [csReq EXCEPT ![q] = next]
        /\ UNCHANGED <<csCase, csBorn, csBirths, csCapture, csGraph, csWanted, csDirty, csStale>>
    BY CsRequestFields DEF CsBuild, CsInv, CsActive
  <1>2. csReq'[q] = next /\ \A r \in CsClients : r # q => csReq'[r] = csReq[r]
    BY <1>1 DEF CsTyped
  <1>3. CsShows(CsIncluding(cap), cap) /\ \A k \in CsIncluding(cap) : CsExists(k)
    BY CsRecentRead DEF CsInv, CsIncluding, CsListing, CsShows
  <1>4. CsTyped'
    <2>1. next \in CsInserting
      BY <1>1 DEF CsInserting, CsIncluding, CsListing
    <2> QED
      BY <1>1, <2>1 DEF CsTyped
  <1>5. /\ CsBornInv' /\ CsApart' /\ CsCurrent' /\ CsMembershipKept'
        /\ \A names, c : CsShows(names, c)' <=> CsShows(names, c)
        /\ \A k : CsExists(k)' <=> CsExists(k)
    BY <1>1, <1>2, CsListsKept
  <1>6. CsUnborn'
    BY <1>1, <1>2, <1>3, <1>5 DEF CsInv, CsUnborn
  <1>7. CsGone'
    BY <1>1, <1>2, <1>5 DEF CsInv, CsGone, CsActive
  <1>8. CsGraphRight'
    <2> SUFFICES ASSUME csDirty = {} PROVE CsGraphRight'
      BY <1>1 DEF CsGraphRight
    <2>1. ASSUME NEW c \in CsCaptures, csCapture[c], c \notin csStale,
                 \A o \in CsClients : (CsActive(o)' /\ csReq'[o].cap = c) => csReq'[o].pc = "update"
          PROVE  csGraph[c] # CsNoGraph /\ CsShows(csGraph[c], c)
      BY <1>1, <1>2, <2>1 DEF CsInv, CsGraphRight, CsActive
    <2>2. ASSUME NEW o \in CsClients, csReq'[o].pc \in {"build", "insert"}
          PROVE  /\ csGraph[csReq'[o].cap] = CsNoGraph
                 /\ csReq'[o].pc = "insert" => CsShows(csReq'[o].names, csReq'[o].cap)
      <3>1. CASE o = q
        BY <1>1, <1>2, <1>3, <3>1 DEF CsInv, CsGraphRight
      <3>2. CASE o # q
        BY <1>2, <2>2, <3>2 DEF CsInv, CsGraphRight
      <3> QED
        BY <3>1, <3>2
    <2> QED
      BY <1>1, <1>5, <2>1, <2>2 DEF CsGraphRight, CsShows, CsRecent, CsExists
  <1> QED
    BY <1>4, <1>5, <1>6, <1>7, <1>8 DEF CsInv

LEMMA CsInsertKeeps == ASSUME CsInv, NEW q \in CsClients, CsInsert(q) PROVE CsInv'
  <1> DEFINE cap == csReq[q].cap
             names == csReq[q].names
  <1>1. /\ CsTyped /\ csReq[q] \in CsInserting /\ csReq[q].pc = "insert" /\ CsActive(q)
        /\ cap \in CsCaptures /\ names \in SUBSET CsCases
        /\ csGraph' = IF csGraph[cap] = CsNoGraph THEN [csGraph EXCEPT ![cap] = names] ELSE csGraph
        /\ csStale' \in {csStale \ {cap}, csStale \cup {cap}}
        /\ csReq' = [csReq EXCEPT ![q] = CsIdle]
        /\ UNCHANGED <<csCase, csBorn, csBirths, csCapture, csWanted, csDirty>>
    BY CsRequestFields DEF CsInsert, CsInv, CsActive, CsInserting
  <1>2. csReq'[q].pc = "idle" /\ \A r \in CsClients : r # q => csReq'[r] = csReq[r]
    BY <1>1 DEF CsTyped, CsIdle
  <1>3. /\ csGraph'[cap] \in {csGraph[cap], names}
        /\ csGraph[cap] = CsNoGraph => csGraph'[cap] = names
        /\ \A c \in CsCaptures : c # cap => csGraph'[c] = csGraph[c]
    BY <1>1 DEF CsTyped
  <1>4. CsTyped'
    BY <1>1 DEF CsTyped
  <1>5. /\ CsBornInv' /\ CsApart' /\ CsCurrent' /\ CsMembershipKept'
        /\ \A n, c : CsShows(n, c)' <=> CsShows(n, c)
        /\ \A k : CsExists(k)' <=> CsExists(k)
    BY <1>1, <1>2, CsListsKept
  <1>6. CsUnborn'
    BY <1>1, <1>2, <1>3, <1>5 DEF CsInv, CsUnborn
  <1>7. CsGone'
    BY <1>1, <1>2, <1>3, <1>5 DEF CsInv, CsGone, CsActive
  <1>8. CsGraphRight'
    <2> SUFFICES ASSUME csDirty = {} PROVE CsGraphRight'
      BY <1>1 DEF CsGraphRight
    <2>1. csGraph'[cap] = names /\ names # CsNoGraph /\ CsShows(names, cap)
      BY <1>1, <1>3, CsMarks DEF CsInv, CsGraphRight
    <2>2. ASSUME NEW c \in CsCaptures, csCapture[c], c \notin csStale',
                 \A o \in CsClients : (CsActive(o)' /\ csReq'[o].cap = c) => csReq'[o].pc = "update"
          PROVE  csGraph'[c] # CsNoGraph /\ CsShows(csGraph'[c], c)
      <3>1. CASE c = cap
        BY <2>1, <3>1
      <3>2. CASE c # cap
        BY <1>1, <1>2, <1>3, <2>2, <3>2 DEF CsInv, CsGraphRight, CsActive
      <3> QED
        BY <3>1, <3>2
    <2>3. ASSUME NEW o \in CsClients, csReq'[o].pc \in {"build", "insert"}
          PROVE  /\ csGraph'[csReq'[o].cap] = CsNoGraph
                 /\ csReq'[o].pc = "insert" => CsShows(csReq'[o].names, csReq'[o].cap)
      <3>1. o # q /\ csReq'[o] = csReq[o]
        BY <1>2, <2>3
      <3>2. csReq[o].cap # cap /\ csReq[o].cap \in CsCaptures
        BY <1>1, <2>3, <3>1, CsRequestFields DEF CsInv, CsApart, CsActive
      <3> QED
        BY <1>3, <2>3, <3>1, <3>2 DEF CsInv, CsGraphRight
    <2> QED
      BY <1>1, <1>5, <2>2, <2>3 DEF CsGraphRight, CsShows, CsRecent, CsExists
  <1> QED
    BY <1>4, <1>5, <1>6, <1>7, <1>8 DEF CsInv

LEMMA CsFailKeeps == ASSUME CsInv, NEW q \in CsClients, CsFail(q) PROVE CsInv'
  <1> DEFINE cap == csReq[q].cap
  <1>1. /\ CsTyped /\ CsActive(q) /\ cap \in CsCaptures
        /\ csReq' = [csReq EXCEPT ![q] = CsIdle]
        /\ csStale' = IF csReq[q].pc = "update" THEN csStale ELSE csStale \cup {cap}
        /\ UNCHANGED <<csCase, csBorn, csBirths, csCapture, csGraph, csWanted, csDirty>>
    BY CsRequestFields DEF CsFail, CsInv, CsActive
  <1>2. csReq'[q].pc = "idle" /\ \A r \in CsClients : r # q => csReq'[r] = csReq[r]
    BY <1>1 DEF CsTyped, CsIdle
  <1>3. CsTyped'
    BY <1>1 DEF CsTyped
  <1>4. /\ CsBornInv' /\ CsApart' /\ CsCurrent' /\ CsMembershipKept'
        /\ \A n, c : CsShows(n, c)' <=> CsShows(n, c)
        /\ \A k : CsExists(k)' <=> CsExists(k)
    BY <1>1, <1>2, CsListsKept
  <1>5. CsUnborn' /\ CsGone'
    BY <1>1, <1>2, <1>4 DEF CsInv, CsUnborn, CsGone, CsActive
  <1>6. CsGraphRight'
    <2> SUFFICES ASSUME csDirty = {} PROVE CsGraphRight'
      BY <1>1 DEF CsGraphRight
    <2>1. ASSUME NEW c \in CsCaptures, csCapture[c], c \notin csStale',
                 \A o \in CsClients : (CsActive(o)' /\ csReq'[o].cap = c) => csReq'[o].pc = "update"
          PROVE  csGraph[c] # CsNoGraph /\ CsShows(csGraph[c], c)
      <3>1. c \notin csStale /\ (c = cap => csReq[q].pc = "update")
        BY <1>1, <2>1
      <3> QED
        BY <1>2, <2>1, <3>1 DEF CsInv, CsGraphRight, CsActive
    <2>2. ASSUME NEW o \in CsClients, csReq'[o].pc \in {"build", "insert"}
          PROVE  /\ csGraph[csReq'[o].cap] = CsNoGraph
                 /\ csReq'[o].pc = "insert" => CsShows(csReq'[o].names, csReq'[o].cap)
      BY <1>2, <2>2 DEF CsInv, CsGraphRight
    <2> QED
      BY <1>1, <1>4, <2>1, <2>2 DEF CsGraphRight, CsShows, CsRecent, CsExists
  <1> QED
    BY <1>3, <1>4, <1>5, <1>6 DEF CsInv

LEMMA CsDeleteKeeps == ASSUME CsInv, NEW k \in CsCases, CsDelete(k) PROVE CsInv'
  <1>1. /\ CsTyped
        /\ csCase' = [csCase EXCEPT ![k] = CsAbsent]
        /\ csWanted' = [csWanted EXCEPT ![k] = CsAbsent]
        /\ csDirty' = csDirty \cup CsMeets({k})
        /\ UNCHANGED <<csBorn, csBirths, csCapture, csGraph, csReq, csStale>>
    BY DEF CsDelete, CsInv
  <1>2. /\ ~CsExists(k)' /\ csWanted'[k] = CsAbsent
        /\ \A j \in CsCases : j # k => /\ csCase'[j] = csCase[j] /\ csWanted'[j] = csWanted[j]
                                       /\ CsExists(j)' <=> CsExists(j)
    BY <1>1 DEF CsTyped, CsExists
  <1>3. \A q \in CsClients : (CsActive(q) /\ csReq[q].case = k) => k \in csDirty'
    BY <1>1, CsMeetsMember
  <1>4. CsTyped'
    BY <1>1 DEF CsTyped, CsMembers
  <1>5. CsApart'
    BY <1>1 DEF CsInv, CsApart, CsActive
  <1>6. CsCurrent'
    BY <1>1, <1>2, <1>3, CsRequestFields DEF CsInv, CsCurrent, CsActive
  <1>7. CsMembershipKept' /\ CsUnborn'
    BY <1>1, <1>2 DEF CsInv, CsMembershipKept, CsUnborn
  <1>8. CsGone'
    BY <1>1, <1>2 DEF CsInv, CsGone, CsActive
  <1>9. CsGraphRight'
    BY <1>1, <1>2 DEF CsInv, CsGraphRight, CsShows, CsRecent, CsActive
  <1>10. CsBornInv'
    BY <1>1 DEF CsInv, CsBornInv
  <1> QED
    BY <1>4, <1>5, <1>6, <1>7, <1>8, <1>9, <1>10 DEF CsInv

LEMMA CsDeleteCaptureKeeps == ASSUME CsInv, NEW c \in CsCaptures, CsDeleteCapture(c) PROVE CsInv'
  <1> DEFINE lists == {csReq[q].case : q \in {r \in CsClients : csReq[r].pc = "update" /\ c \in csReq[r].list}}
  <1>1. /\ CsTyped /\ csCapture[c]
        /\ csCapture' = [csCapture EXCEPT ![c] = FALSE]
        /\ csGraph' = [csGraph EXCEPT ![c] = CsNoGraph]
        /\ csCase' = [k \in CsCases |-> IF CsExists(k) THEN csCase[k] \ {c} ELSE CsAbsent]
        /\ csWanted' = [k \in CsCases |-> IF CsExists(k) THEN csWanted[k] \ {c} ELSE csWanted[k]]
        /\ csDirty' = csDirty \cup CsMeets({c}) \cup lists
        /\ UNCHANGED <<csReq, csBorn, csBirths, csStale>>
    BY DEF CsDeleteCapture, CsInv
  <1>2. \A k \in CsCases : csCase[k] \in CsMembers /\ (CsExists(k) => csCase[k] \in SUBSET CsCaptures)
    BY <1>1 DEF CsTyped, CsMembers, CsExists
  <1>3. \A k \in CsCases :
            /\ CsExists(k) => csCase'[k] = csCase[k] \ {c} /\ csWanted'[k] = csWanted[k] \ {c}
            /\ ~CsExists(k) => csCase'[k] = CsAbsent /\ csWanted'[k] = csWanted[k]
    BY <1>1
  <1>4. \A k \in CsCases : CsExists(k)' <=> CsExists(k)
    BY <1>2, <1>3, CsMarks DEF CsExists
  <1>5. /\ ~csCapture'[c] /\ csGraph'[c] = CsNoGraph
        /\ \A d \in CsCaptures : d # c => csCapture'[d] = csCapture[d] /\ csGraph'[d] = csGraph[d]
    BY <1>1 DEF CsTyped
  <1>6. \A q \in CsClients : /\ (CsActive(q) /\ csReq[q].cap = c) => c \in csDirty'
                             /\ (csReq[q].pc = "update" /\ c \in csReq[q].list) => csReq[q].case \in csDirty'
    BY <1>1, CsMeetsMember
  <1>7. CsTyped'
    <2>1. csCase' \in [CsCases -> CsMembers]
      BY <1>1, <1>2 DEF CsMembers
    <2>2. csWanted' \in [CsCases -> SUBSET (CsCaptures \cup CsAbsent)]
      BY <1>1 DEF CsTyped
    <2> QED
      BY <1>1, <2>1, <2>2 DEF CsTyped
  <1>8. CsApart'
    BY <1>1 DEF CsInv, CsApart, CsActive
  <1>9. CsCurrent'
    <2> SUFFICES ASSUME NEW q \in CsClients, csReq[q].pc = "update", csReq[q].case \notin csDirty'
                 PROVE  CsExists(csReq[q].case)' /\ csReq[q].list = csCase'[csReq[q].case]
      BY <1>1 DEF CsCurrent, CsExists
    <2>1. csReq[q].case \in CsCases /\ csReq[q].case \notin csDirty /\ c \notin csReq[q].list
      BY <1>1, <1>6, CsRequestFields DEF CsActive
    <2>2. CsExists(csReq[q].case) /\ csReq[q].list = csCase[csReq[q].case]
      BY <2>1 DEF CsInv, CsCurrent
    <2>3. csCase'[csReq[q].case] = csReq[q].list
      BY <1>3, <2>1, <2>2
    <2>4. csReq[q].list # CsAbsent
      BY <2>2 DEF CsExists
    <2> QED
      BY <1>1, <2>3, <2>4 DEF CsExists
  <1>10. CsMembershipKept'
    BY <1>1, <1>3, <1>4 DEF CsInv, CsMembershipKept
  <1>11. CsUnborn'
    <2>1. \A k \in CsCases : k # "none"
      BY CsAssumption
    <2> QED
      BY <1>1, <1>3, <1>4, <1>5, <2>1 DEF CsInv, CsUnborn, CsNoGraph
  <1>12. CsGone'
    <2> SUFFICES ASSUME NEW d \in CsCaptures, ~csCapture'[d], d \notin csDirty'
                 PROVE  /\ csGraph'[d] = CsNoGraph
                        /\ \A k \in CsCases : (CsExists(k)' /\ d \in csCase'[k]) => k \in csDirty'
                        /\ \A q \in CsClients :
                              /\ CsActive(q) => csReq[q].cap # d
                              /\ (csReq[q].pc = "update" /\ d \in csReq[q].list) => csReq[q].case \in csDirty'
      BY <1>1 DEF CsGone, CsActive
    <2>1. CASE d = c
      BY <1>3, <1>4, <1>5, <1>6, <2>1
    <2>2. CASE d # c
      BY <1>1, <1>3, <1>4, <1>5, <2>2 DEF CsInv, CsGone
    <2> QED
      BY <2>1, <2>2
  <1>13. CsGraphRight'
    <2> SUFFICES ASSUME csDirty' = {} PROVE CsGraphRight'
      BY DEF CsGraphRight
    <2>1. csDirty = {} /\ \A q \in CsClients : CsActive(q) => csReq[q].cap # c /\ csReq[q].cap \in CsCaptures
      BY <1>1, <1>6, CsRequestFields
    <2>2. ASSUME NEW d \in CsCaptures, d # c, NEW names, CsShows(names, d) PROVE CsShows(names, d)'
      BY <1>1, <1>3, <1>4, <2>2 DEF CsShows, CsRecent
    <2>3. ASSUME NEW d \in CsCaptures, csCapture'[d], d \notin csStale,
                 \A q \in CsClients : (CsActive(q) /\ csReq[q].cap = d) => csReq[q].pc = "update"
          PROVE  csGraph'[d] # CsNoGraph /\ CsShows(csGraph[d], d)' /\ csGraph'[d] = csGraph[d]
      <3>1. d # c
        BY <1>5, <2>3
      <3>2. csGraph[d] # CsNoGraph /\ CsShows(csGraph[d], d)
        BY <1>5, <2>1, <2>3, <3>1 DEF CsInv, CsGraphRight
      <3> QED
        BY <1>1, <1>3, <1>4, <1>5, <3>1, <3>2 DEF CsShows, CsRecent
    <2>4. ASSUME NEW q \in CsClients, csReq[q].pc \in {"build", "insert"}
          PROVE  /\ csGraph'[csReq[q].cap] = CsNoGraph
                 /\ csReq[q].pc = "insert" => CsShows(csReq[q].names, csReq[q].cap)'
      <3>1. csReq[q].cap # c /\ csReq[q].cap \in CsCaptures
        BY <2>1, <2>4 DEF CsActive
      <3>2. /\ csGraph[csReq[q].cap] = CsNoGraph
            /\ csReq[q].pc = "insert" => CsShows(csReq[q].names, csReq[q].cap)
        BY <2>1, <2>4 DEF CsInv, CsGraphRight
      <3> QED
        BY <1>1, <1>3, <1>4, <1>5, <3>1, <3>2 DEF CsShows, CsRecent
    <2> QED
      BY <1>1, <2>3, <2>4 DEF CsGraphRight, CsActive, CsShows, CsRecent
  <1>14. CsBornInv'
    BY <1>1 DEF CsInv, CsBornInv
  <1> QED
    BY <1>7, <1>8, <1>9, <1>10, <1>11, <1>12, <1>13, <1>14 DEF CsInv

LEMMA CsStepInv == CsInv /\ [CsNext]_csVars => CsInv'
  <1> SUFFICES ASSUME CsInv, [CsNext]_csVars PROVE CsInv'
    OBVIOUS
  <1>1. CASE CsNext
    BY <1>1, CsCreateKeeps, CsLoadKeeps, CsUpdateKeeps, CsClearKeeps, CsBuildKeeps, CsInsertKeeps, CsFailKeeps,
       CsDeleteKeeps, CsDeleteCaptureKeeps
    DEF CsNext
  <1>2. CASE UNCHANGED csVars
    BY <1>2 DEF csVars, CsInv, CsTyped, CsBornInv, CsApart, CsCurrent, CsMembershipKept, CsUnborn, CsGone,
       CsGraphRight, CsShows, CsRecent, CsExists, CsActive
  <1> QED
    BY <1>1, <1>2

LEMMA CsAlwaysInv == CsSpec => []CsInv
  BY CsInitInv, CsStepInv, PTL DEF CsSpec

-----------------------------------------------------------------------------
(* CaseRepository.update, delete_capture: a case lists exactly what the        *)
(* committed changes add up to, unless two requests changed it at once.        *)
THEOREM MembershipKept == CsSpec => []CsMembershipKept
  <1>1. CsInv => CsMembershipKept
    BY DEF CsInv
  <1> QED
    BY <1>1, CsAlwaysInv, PTL

(* delete_capture: no list and no edge names a deleted capture, unless a       *)
(* request was working on it, or on a list with it, at the time.               *)
THEOREM DeletedIsGone == CsSpec => []CsDeletedIsGone
  <1>1. CsInv => CsDeletedIsGone
    BY DEF CsInv, CsGone, CsDeletedIsGone, CsListing
  <1> QED
    BY <1>1, CsAlwaysInv, PTL

(* rebuild_for_capture, with the builder's limit: at rest the graph of a       *)
(* capture names no existing case that does not list it, and every recent one  *)
(* that does, unless its last rebuild failed or two requests met.              *)
THEOREM GraphNamesItsCases == CsSpec => []CsGraphNamesItsCases
  <1>1. ASSUME CsInv PROVE CsGraphNamesItsCases
    <2> SUFFICES ASSUME NEW c \in CsCaptures, csCapture[c], ~CsBusy(c), csDirty = {}, c \notin csStale
                 PROVE  /\ csGraph[c] # CsNoGraph
                        /\ {k \in csGraph[c] : CsExists(k)} \subseteq CsListing(c)
                        /\ {k \in CsListing(c) : CsRecent(k)} \subseteq csGraph[c]
      BY DEF CsGraphNamesItsCases
    <2>1. \A q \in CsClients : ~(CsActive(q) /\ csReq[q].cap = c)
      BY <1>1, CsMeetsMember DEF CsInv, CsBusy
    <2>2. csGraph[c] # CsNoGraph /\ CsShows(csGraph[c], c)
      BY <1>1, <2>1 DEF CsInv, CsGraphRight
    <2>3. csGraph[c] \subseteq CsCases
      BY <1>1, <2>2 DEF CsInv, CsTyped
    <2>4. {k \in csGraph[c] : CsExists(k)} \subseteq CsListing(c)
      BY <2>2, <2>3 DEF CsShows, CsListing
    <2>5. {k \in CsListing(c) : CsRecent(k)} \subseteq csGraph[c]
      BY <2>2 DEF CsShows, CsListing
    <2> QED
      BY <2>2, <2>4, <2>5
  <1> QED
    BY <1>1, CsAlwaysInv, PTL

(* Cases, graphs and requests stay in their types, and no more membership      *)
(* changes are begun than the bound allows.                                    *)
THEOREM CasesTyped == CsSpec => []CsTypeOK
  <1>1. ASSUME CsInv PROVE \A q \in CsClients :
                              csReq[q].pc \in {"idle", "update", "clear", "build", "insert"}
    BY <1>1 DEF CsInv, CsTyped, CsIdle, CsUpdating, CsRebuilding, CsInserting
  <1>2. csCount \in 0 .. CsMaxRequests /\ [CsNext]_csVars => (csCount \in 0 .. CsMaxRequests)'
    <2> SUFFICES ASSUME csCount \in 0 .. CsMaxRequests, [CsNext]_csVars
                 PROVE  csCount' \in 0 .. CsMaxRequests
      OBVIOUS
    <2>1. csCount' = csCount \/ (csCount < CsMaxRequests /\ csCount' = csCount + 1)
      BY DEF CsNext, CsUpdate, CsClear, CsBuild, CsInsert, CsFail, CsLoad, CsCreate, CsDelete, CsDeleteCapture,
             csVars
    <2> QED
      BY <2>1, CsAssumption
  <1>3. CsInit => csCount \in 0 .. CsMaxRequests
    BY CsAssumption DEF CsInit
  <1>4. CsInv /\ csCount \in 0 .. CsMaxRequests => CsTypeOK
    BY <1>1 DEF CsInv, CsTyped, CsBornInv, CsMembers, CsTypeOK
  <1> QED
    BY <1>2, <1>3, <1>4, CsAlwaysInv, PTL DEF CsSpec


-----------------------------------------------------------------------------
(* What a commit promises after any number of retries, for any sessions, rows, *)
(* units of work and number of attempts.                                       *)
RsActive == {"pending", "locked"}

(* What an active session would flush is at least what its caller asked for,   *)
(* with the values the caller gave.                                            *)
RsWorkInv(s) ==
    /\ rsUnit[s] \in RsUnits
    /\ DOMAIN rsWork[s] = DOMAIN rsUnit[s] /\ DOMAIN rsMem[s] = DOMAIN rsUnit[s]
    /\ \A r \in DOMAIN rsUnit[s] :
          /\ rsWork[s][r].kind = rsUnit[s][r].kind
          /\ rsUnit[s][r].kind = "add" => rsMem[s][r] = [c \in RsColumns |-> s]
          /\ rsUnit[s][r].kind = "set" =>
                /\ rsUnit[s][r].cols \subseteq rsWork[s][r].cols
                /\ rsWork[s][r].cols # rsUnit[s][r].cols => rsTries[s] > 0
                /\ \A c \in rsUnit[s][r].cols : rsMem[s][r][c] = s

(* A session is at its first attempt or has been locked; until it is active,   *)
(* none was counted.                                                           *)
RsInv ==
    /\ rsRow \in [RsRows -> {RsAbsent} \cup [RsColumns -> RsSessions \cup {"initial"}]]
    /\ rsPc \in [RsSessions -> {"idle", "pending", "locked", "done", "raised"}]
    /\ rsTries \in [RsSessions -> 0 .. RsAttempts - 1]
    /\ DOMAIN rsUnit = RsSessions /\ DOMAIN rsWork = RsSessions /\ DOMAIN rsMem = RsSessions
    /\ \A s \in RsSessions : /\ rsPc[s] = "locked" => rsTries[s] > 0
                             /\ rsPc[s] \in RsActive => RsWorkInv(s)
                             /\ rsUnit[s] \in RsUnits \cup {RsNothing}
                             /\ rsPc[s] \in RsActive =>
                                  rsMem[s] \in [DOMAIN rsUnit[s] -> [RsColumns -> RsSessions \cup {"initial"}]]

LEMMA RsUnitRows ==
    ASSUME NEW u \in RsUnits
    PROVE  /\ DOMAIN u \subseteq RsRows
           /\ \A r \in DOMAIN u : /\ u[r] \in RsOps /\ u[r].kind \in {"set", "add", "delete"}
                                  /\ u[r].kind = "set" => u[r].cols \subseteq RsColumns
  BY RsAssumption DEF RsOps

(* What a flush that succeeds writes, row by row.                              *)
LEMMA RsFlushEffect ==
    ASSUME RsInv, NEW s \in RsSessions, rsPc[s] = "pending", RsFlushable(s),
           NEW r \in DOMAIN rsUnit[s], rsRow' = RsFlushed(s)
    PROVE  /\ rsUnit[s][r].kind = "add" => rsRow'[r] = rsMem[s][r]
           /\ rsUnit[s][r].kind = "delete" => rsRow'[r] = RsAbsent
           /\ rsUnit[s][r].kind = "set" =>
                /\ rsRow[r] # RsAbsent
                /\ rsRow'[r] = [c \in RsColumns |->
                        IF c \in rsWork[s][r].cols THEN rsMem[s][r][c] ELSE rsRow[r][c]]
  <1>1. RsWorkInv(s) /\ rsUnit[s] \in RsUnits /\ r \in RsRows
    BY RsUnitRows DEF RsInv, RsActive, RsWorkInv
  <1>2. r \in DOMAIN rsWork[s] /\ rsWork[s][r].kind = rsUnit[s][r].kind
    BY <1>1 DEF RsWorkInv
  <1> QED
    BY <1>1, <1>2 DEF RsFlushed, RsFlushable

(* What a session loads is its unit of work, unchanged.                        *)
LEMMA RsLoadEffect ==
    ASSUME RsInv, NEW s \in RsSessions, NEW u \in RsUnits, RsLoad(s, u)
    PROVE  /\ RsWorkInv(s)'
           /\ rsMem'[s] \in [DOMAIN u -> [RsColumns -> RsSessions \cup {"initial"}]]
  <1>1. /\ rsUnit'[s] = u /\ rsWork'[s] = u
        /\ rsMem'[s] = [r \in DOMAIN u |-> [c \in RsColumns |->
                IF u[r].kind = "add" \/ (u[r].kind = "set" /\ c \in u[r].cols) THEN s
                ELSE rsRow[r][c]]]
    BY DEF RsLoad, RsInv
  <1>2. \A r \in DOMAIN u : /\ r \in RsRows
                            /\ u[r].kind = "set" => u[r].cols \subseteq RsColumns
                            /\ u[r].kind # "add" => rsRow[r] \in [RsColumns -> RsSessions \cup {"initial"}]
    BY RsUnitRows DEF RsLoad, RsInv
  <1>3. \A r \in DOMAIN u :
            rsMem'[s][r] = [c \in RsColumns |->
                IF u[r].kind = "add" \/ (u[r].kind = "set" /\ c \in u[r].cols) THEN s
                ELSE rsRow[r][c]]
    BY <1>1
  <1>4. \A r \in DOMAIN u : u[r].kind = "add" => rsMem'[s][r] = [c \in RsColumns |-> s]
    BY <1>3
  <1>5. \A r \in DOMAIN u : u[r].kind = "set" => \A c \in u[r].cols : rsMem'[s][r][c] = s
    BY <1>2, <1>3
  <1>6. ASSUME NEW r \in DOMAIN u
        PROVE  rsMem'[s][r] \in [RsColumns -> RsSessions \cup {"initial"}]
    <2>1. CASE u[r].kind = "add"
      BY <1>4, <2>1
    <2>2. CASE u[r].kind # "add"
      <3>1. rsRow[r] \in [RsColumns -> RsSessions \cup {"initial"}]
        BY <1>2, <2>2
      <3>2. \A c \in RsColumns :
                (IF u[r].kind = "add" \/ (u[r].kind = "set" /\ c \in u[r].cols) THEN s
                 ELSE rsRow[r][c]) \in RsSessions \cup {"initial"}
        BY <3>1
      <3> QED
        BY <1>3, <3>2
    <2> QED
      BY <2>1, <2>2
  <1>7. DOMAIN rsMem'[s] = DOMAIN u
    BY <1>1
  <1>8. RsWorkInv(s)'
    <2>1. \A r \in DOMAIN rsUnit'[s] :
              /\ rsWork'[s][r].kind = rsUnit'[s][r].kind
              /\ rsUnit'[s][r].kind = "add" => rsMem'[s][r] = [c \in RsColumns |-> s]
              /\ rsUnit'[s][r].kind = "set" =>
                    /\ rsWork'[s][r].cols = rsUnit'[s][r].cols
                    /\ \A c \in rsUnit'[s][r].cols : rsMem'[s][r][c] = s
      BY <1>1, <1>4, <1>5
    <2> QED
      BY <1>1, <1>7, <2>1 DEF RsWorkInv
  <1>9. rsMem'[s] \in [DOMAIN u -> [RsColumns -> RsSessions \cup {"initial"}]]
    BY <1>1, <1>6
  <1> QED
    BY <1>8, <1>9

LEMMA RsCommitEffect ==
    ASSUME RsInv, NEW s \in RsSessions, RsCommit(s)
    PROVE  rsRow' \in [RsRows -> {RsAbsent} \cup [RsColumns -> RsSessions \cup {"initial"}]]
  <1>1. CASE ~RsFlushable(s)
    BY <1>1 DEF RsCommit, RsInv
  <1>2. CASE RsFlushable(s)
    <2>1. /\ rsRow' = RsFlushed(s) /\ RsWorkInv(s)
          /\ rsMem[s] \in [DOMAIN rsUnit[s] -> [RsColumns -> RsSessions \cup {"initial"}]]
      BY <1>2 DEF RsCommit, RsInv, RsActive
    <2>2. ASSUME NEW r \in RsRows
          PROVE  rsRow'[r] \in {RsAbsent} \cup [RsColumns -> RsSessions \cup {"initial"}]
      <3>1. CASE r \notin DOMAIN rsWork[s]
        BY <2>1, <3>1 DEF RsFlushed, RsInv
      <3>2. CASE r \in DOMAIN rsWork[s]
        <4>1. r \in DOMAIN rsUnit[s] /\ rsUnit[s][r].kind \in {"set", "add", "delete"}
          BY <2>1, <3>2, RsUnitRows DEF RsWorkInv
        <4>2. rsMem[s][r] \in [RsColumns -> RsSessions \cup {"initial"}]
          BY <2>1, <4>1
        <4>3. rsUnit[s][r].kind = "set" => rsRow[r] \in [RsColumns -> RsSessions \cup {"initial"}]
          BY <1>2, <2>1, <4>1, RsFlushEffect DEF RsCommit, RsInv
        <4>4. /\ rsUnit[s][r].kind = "add" => rsRow'[r] = rsMem[s][r]
              /\ rsUnit[s][r].kind = "delete" => rsRow'[r] = RsAbsent
              /\ rsUnit[s][r].kind = "set" =>
                    rsRow'[r] = [c \in RsColumns |->
                        IF c \in rsWork[s][r].cols THEN rsMem[s][r][c] ELSE rsRow[r][c]]
          BY <1>2, <2>1, <4>1, RsFlushEffect DEF RsCommit
        <4> QED
          BY <4>1, <4>2, <4>3, <4>4
      <3> QED
        BY <3>1, <3>2
    <2> QED
      BY <2>1, <2>2 DEF RsFlushed
  <1> QED
    BY <1>1, <1>2

(* Replaying keeps what was asked and may add columns of changed rows.         *)
LEMMA RsReplayEffect ==
    ASSUME RsInv, NEW s \in RsSessions, RsReplay(s)
    PROVE  RsWorkInv(s)'
  <1>1. /\ RsWorkInv(s) /\ rsTries[s] > 0 /\ rsUnit' = rsUnit /\ rsMem' = rsMem /\ rsTries' = rsTries
        /\ rsWork'[s] = RsReplayed(rsWork[s])
    BY DEF RsReplay, RsInv, RsActive
  <1>2. DOMAIN rsWork'[s] = DOMAIN rsUnit[s]
    BY <1>1 DEF RsReplayed, RsWorkInv
  <1>3. \A r \in DOMAIN rsUnit[s] :
            rsWork'[s][r] = IF rsWork[s][r].kind = "set" THEN [kind |-> "set", cols |-> RsColumns]
                            ELSE rsWork[s][r]
    BY <1>1 DEF RsReplayed, RsWorkInv
  <1>4. \A r \in DOMAIN rsUnit[s] : rsUnit[s][r].kind = "set" => rsUnit[s][r].cols \subseteq RsColumns
    BY <1>1, RsUnitRows DEF RsWorkInv
  <1>5. \A r \in DOMAIN rsUnit[s] :
            /\ rsWork'[s][r].kind = rsUnit[s][r].kind
            /\ rsUnit[s][r].kind = "set" => rsWork'[s][r].cols = RsColumns
    BY <1>1, <1>3 DEF RsWorkInv
  <1> QED
    BY <1>1, <1>2, <1>4, <1>5 DEF RsWorkInv

LEMMA RsInitInv == RsInit => RsInv
  <1> SUFFICES ASSUME RsInit PROVE RsInv
    OBVIOUS
  <1>1. RsFresh \in [RsColumns -> RsSessions \cup {"initial"}]
    BY DEF RsFresh
  <1>2. 0 \in 0 .. RsAttempts - 1
    BY RsAssumption
  <1> QED
    BY <1>1, <1>2 DEF RsInit, RsInv, RsActive

(* A session's own part of the invariant depends on nothing of the others.     *)
LEMMA RsOthersStay ==
    ASSUME RsInv, NEW s \in RsSessions, NEW t \in RsSessions, t # s,
           RsCommit(s) \/ RsLocked(s) \/ RsReplay(s) \/ \E u \in RsUnits : RsLoad(s, u)
    PROVE  /\ rsPc'[t] = rsPc[t] /\ rsUnit'[t] = rsUnit[t] /\ rsWork'[t] = rsWork[t]
           /\ rsMem'[t] = rsMem[t] /\ rsTries'[t] = rsTries[t]
  BY DEF RsInv, RsCommit, RsLocked, RsReplay, RsLoad

LEMMA RsStepInv == RsInv /\ [RsNext]_rsVars => RsInv'
  <1> SUFFICES ASSUME RsInv, [RsNext]_rsVars PROVE RsInv'
    OBVIOUS
  <1>1. ASSUME NEW s \in RsSessions,
               RsCommit(s) \/ RsLocked(s) \/ RsReplay(s) \/ \E u \in RsUnits : RsLoad(s, u)
        PROVE  RsInv'
    <2> DEFINE Typed ==
          /\ rsRow' \in [RsRows -> {RsAbsent} \cup [RsColumns -> RsSessions \cup {"initial"}]]
          /\ rsPc' \in [RsSessions -> {"idle", "pending", "locked", "done", "raised"}]
          /\ rsTries' \in [RsSessions -> 0 .. RsAttempts - 1]
          /\ DOMAIN rsUnit' = RsSessions /\ DOMAIN rsWork' = RsSessions /\ DOMAIN rsMem' = RsSessions
        Own ==
          /\ rsPc'[s] = "locked" => rsTries'[s] > 0
          /\ rsPc'[s] \in RsActive => RsWorkInv(s)'
          /\ rsUnit'[s] \in RsUnits \cup {RsNothing}
          /\ rsPc'[s] \in RsActive =>
               rsMem'[s] \in [DOMAIN rsUnit'[s] -> [RsColumns -> RsSessions \cup {"initial"}]]
    <2>1. Typed
      <3>1. CASE RsCommit(s)
        BY <3>1, RsCommitEffect DEF RsInv, RsCommit
      <3>2. CASE RsLocked(s)
        BY <3>2, RsAssumption DEF RsInv, RsLocked
      <3>3. CASE RsReplay(s)
        BY <3>3 DEF RsInv, RsReplay
      <3>4. ASSUME NEW u \in RsUnits, RsLoad(s, u)
            PROVE  Typed
        BY <3>4 DEF RsInv, RsLoad
      <3> HIDE DEF Typed, Own
      <3> QED
        BY <1>1, <3>1, <3>2, <3>3, <3>4
    <2>2. Own
      <3>1. CASE RsCommit(s)
        BY <3>1 DEF RsInv, RsCommit, RsActive
      <3>2. CASE RsLocked(s)
        <4>1. RsWorkInv(s) /\ rsUnit' = rsUnit /\ rsWork' = rsWork /\ rsMem' = rsMem
          BY <3>2 DEF RsInv, RsLocked, RsActive
        <4>2. rsTries[s] \in Nat /\ rsTries'[s] \in Nat /\ rsTries'[s] >= rsTries[s]
          BY <3>2, RsAssumption DEF RsInv, RsLocked
        <4>3. rsPc'[s] = "locked" => rsTries'[s] > 0
          BY <3>2, RsAssumption DEF RsInv, RsLocked
        <4>4. RsWorkInv(s)'
          BY <4>1, <4>2 DEF RsWorkInv
        <4> QED
          BY <3>2, <4>1, <4>3, <4>4 DEF RsInv, RsLocked, RsActive
      <3>3. CASE RsReplay(s)
        BY <3>3, RsReplayEffect DEF RsInv, RsReplay, RsActive
      <3>4. ASSUME NEW u \in RsUnits, RsLoad(s, u)
            PROVE  Own
        <4>1. /\ RsWorkInv(s)'
              /\ rsMem'[s] \in [DOMAIN u -> [RsColumns -> RsSessions \cup {"initial"}]]
          BY <3>4, RsLoadEffect
        <4>2. rsPc'[s] = "pending" /\ rsUnit'[s] = u
          BY <3>4 DEF RsInv, RsLoad
        <4> QED
          BY <4>1, <4>2
      <3> HIDE DEF Typed, Own
      <3> QED
        BY <1>1, <3>1, <3>2, <3>3, <3>4
    <2>3. ASSUME NEW t \in RsSessions, t # s
          PROVE  /\ rsPc'[t] = "locked" => rsTries'[t] > 0
                 /\ rsPc'[t] \in RsActive => RsWorkInv(t)'
                 /\ rsUnit'[t] \in RsUnits \cup {RsNothing}
                 /\ rsPc'[t] \in RsActive =>
                      rsMem'[t] \in [DOMAIN rsUnit'[t] -> [RsColumns -> RsSessions \cup {"initial"}]]
      <3>1. /\ rsPc'[t] = rsPc[t] /\ rsUnit'[t] = rsUnit[t] /\ rsWork'[t] = rsWork[t]
            /\ rsMem'[t] = rsMem[t] /\ rsTries'[t] = rsTries[t]
        BY <1>1, <2>3, RsOthersStay
      <3>2. RsWorkInv(t) => RsWorkInv(t)'
        BY <3>1 DEF RsWorkInv
      <3> QED
        BY <3>1, <3>2 DEF RsInv
    <2> QED
      BY <2>1, <2>2, <2>3 DEF RsInv
  <1>2. CASE UNCHANGED rsVars
    BY <1>2 DEF rsVars, RsInv, RsWorkInv
  <1> QED
    BY <1>1, <1>2 DEF RsNext

-----------------------------------------------------------------------------
(* Only a commit makes a session done, and it flushed.                         *)
LEMMA RsDone ==
    ASSUME RsInv, [RsNext]_rsVars, NEW s \in RsSessions, rsPc[s] # "done", rsPc'[s] = "done"
    PROVE  RsCommit(s) /\ RsFlushable(s) /\ rsRow' = RsFlushed(s)
  <1>1. ~UNCHANGED rsVars
    BY DEF rsVars
  <1>2. PICK t \in RsSessions :
            RsCommit(t) \/ RsLocked(t) \/ RsReplay(t) \/ \E u \in RsUnits : RsLoad(t, u)
    BY <1>1 DEF RsNext
  <1>3. t = s
    BY <1>2, RsOthersStay
  <1>4. RsCommit(s)
    BY <1>2, <1>3 DEF RsInv, RsLocked, RsReplay, RsLoad
  <1> QED
    BY <1>4 DEF RsCommit, RsInv

(* RetryingSession: a commit that returns has done all of its unit of work,    *)
(* one that raises has done none of it, and nothing else writes the table.     *)
THEOREM AllOrNothing == RsSpec => RsAllOrNothing
  <1>1. ASSUME RsInv, [RsNext]_rsVars, rsRow' # rsRow
        PROVE  \E s \in RsSessions : rsPc[s] # "done" /\ rsPc'[s] = "done"
    <2>1. PICK s \in RsSessions :
              RsCommit(s) \/ RsLocked(s) \/ RsReplay(s) \/ \E u \in RsUnits : RsLoad(s, u)
      BY <1>1 DEF RsNext, rsVars
    <2>2. RsCommit(s)
      BY <1>1, <2>1 DEF RsLocked, RsReplay, RsLoad
    <2>3. RsFlushable(s)
      BY <1>1, <2>2 DEF RsCommit
    <2> QED
      BY <1>1, <2>2, <2>3 DEF RsCommit, RsInv
  <1>2. ASSUME RsInv, [RsNext]_rsVars, NEW s \in RsSessions, rsPc[s] # "done", rsPc'[s] = "done",
               NEW r \in DOMAIN rsUnit[s]
        PROVE  RsApplied(s, r)
    <2>1. RsCommit(s) /\ RsFlushable(s) /\ rsRow' = RsFlushed(s) /\ RsWorkInv(s)
      BY <1>2, RsDone DEF RsInv, RsCommit, RsActive
    <2>2. rsUnit[s][r].kind \in {"set", "add", "delete"}
      BY <2>1, RsUnitRows DEF RsWorkInv
    <2>3. rsUnit[s][r].kind = "set" => rsUnit[s][r].cols \subseteq RsColumns
      BY <2>1, RsUnitRows DEF RsWorkInv
    <2>4. /\ rsUnit[s][r].kind = "add" => rsRow'[r] = rsMem[s][r]
          /\ rsUnit[s][r].kind = "delete" => rsRow'[r] = RsAbsent
          /\ rsUnit[s][r].kind = "set" =>
                rsRow'[r] = [c \in RsColumns |->
                        IF c \in rsWork[s][r].cols THEN rsMem[s][r][c] ELSE rsRow[r][c]]
      BY <1>2, <2>1, RsFlushEffect DEF RsCommit
    <2>5. CASE rsUnit[s][r].kind = "add"
      BY <2>1, <2>4, <2>5 DEF RsWorkInv, RsApplied
    <2>6. CASE rsUnit[s][r].kind = "delete"
      BY <2>4, <2>6 DEF RsApplied
    <2>7. CASE rsUnit[s][r].kind = "set"
      <3>1. \A c \in rsUnit[s][r].cols : rsRow'[r][c] = s
        BY <2>1, <2>3, <2>4, <2>7 DEF RsWorkInv
      <3> QED
        BY <2>7, <3>1 DEF RsApplied
    <2> QED
      BY <2>2, <2>5, <2>6, <2>7
  <1>3. RsInv /\ [RsNext]_rsVars =>
            [/\ rsRow' # rsRow => \E s \in RsSessions : rsPc[s] # "done" /\ rsPc'[s] = "done"
             /\ \A s \in RsSessions :
                  (rsPc[s] # "done" /\ rsPc'[s] = "done") =>
                      \A r \in DOMAIN rsUnit[s] : RsApplied(s, r)]_rsVars
    BY <1>1, <1>2
  <1> QED
    BY <1>3, RsInitInv, RsStepInv, PTL DEF RsSpec, RsAllOrNothing

(* RetryingSession: a commit at its first attempt keeps what others wrote to   *)
(* the columns it did not set; a retried one may put back what it had loaded.  *)
THEOREM OthersKept == RsSpec => RsOthersKept
  <1>1. ASSUME RsInv, [RsNext]_rsVars, NEW s \in RsSessions, rsPc[s] # "done", rsPc'[s] = "done",
               NEW r \in RsRows, NEW c \in RsColumns,
               r \in DOMAIN rsUnit[s], rsUnit[s][r].kind = "set", c \notin rsUnit[s][r].cols
        PROVE  \/ rsRow'[r][c] = rsRow[r][c]
               \/ rsTries[s] > 0 /\ rsRow'[r][c] = rsMem[s][r][c]
    <2>1. RsCommit(s) /\ RsFlushable(s) /\ rsRow' = RsFlushed(s) /\ RsWorkInv(s)
      BY <1>1, RsDone DEF RsInv, RsCommit, RsActive
    <2>2. rsRow'[r] = [d \in RsColumns |->
                IF d \in rsWork[s][r].cols THEN rsMem[s][r][d] ELSE rsRow[r][d]]
      BY <1>1, <2>1, RsFlushEffect DEF RsCommit
    <2>3. c \in rsWork[s][r].cols => rsTries[s] > 0
      BY <1>1, <2>1 DEF RsWorkInv
    <2> QED
      BY <2>2, <2>3
  <1>2. RsInv /\ [RsNext]_rsVars =>
            [\A s \in RsSessions :
              (rsPc[s] # "done" /\ rsPc'[s] = "done") =>
                \A r \in RsRows : \A c \in RsColumns :
                  (r \in DOMAIN rsUnit[s] /\ rsUnit[s][r].kind = "set" /\ c \notin rsUnit[s][r].cols) =>
                    \/ rsRow'[r][c] = rsRow[r][c]
                    \/ rsTries[s] > 0 /\ rsRow'[r][c] = rsMem[s][r][c]]_rsVars
    BY <1>1
  <1> QED
    BY <1>2, RsInitInv, RsStepInv, PTL DEF RsSpec, RsOthersKept

(* The table, the sessions and their units of work stay in their types.        *)
THEOREM RowsTyped == RsSpec => []RsTypeOK
  <1>1. RsInv => RsTypeOK
    BY DEF RsInv, RsTypeOK
  <1> QED
    BY <1>1, RsInitInv, RsStepInv, PTL DEF RsSpec

-----------------------------------------------------------------------------
(* What the page can rely on, for any number of jobs and any delay of events.  *)
JwStatuses == {"queued", "running", "completed", "failed", "absent"}
JwStream == [job : JwJobs \cup {"none"}, server : {"poll", "ended", "closed"},
             channel : Seq(JwStatuses)]
JwEvents == 1 .. Len(jwStream.channel)

(* An open stream is that of a watched job; an event in flight that is final   *)
(* is still true, or the row was deleted since.                                *)
JwStreamInv ==
    /\ jwStream.server # "closed" => jwStream.job \in jwStarted
    /\ jwStream.server = "closed" => jwStream = JwClosed
    /\ \A i \in JwEvents :
          /\ jwStream.channel[i] \in JwTerminal => jwJob[jwStream.job] \in {jwStream.channel[i], "absent"}
          /\ jwStream.channel[i] = "absent" => jwJob[jwStream.job] = "absent"

JwInv == JwTypeOK /\ JwStreamInv /\ JwNoSilentEnd

(* The table only moves towards the end, and an end only to a deletion.        *)
LEMMA JwWorkEffect ==
    ASSUME JwTypeOK, NEW j \in JwJobs, JwWork(j)
    PROVE  /\ jwJob' \in [JwJobs -> JwStatuses]
           /\ \A k \in JwJobs : jwJob[k] \in JwTerminal => jwJob'[k] \in {jwJob[k], "absent"}
           /\ \A k \in JwJobs : jwJob[k] = "absent" => jwJob'[k] = "absent"
  <1>1. PICK s \in JwTerminal \cup {"running", "absent"} :
            /\ CASE s = "running" -> jwJob[j] = "queued"
                 [] s = "absent"  -> jwJob[j] \in JwTerminal
                 [] OTHER         -> jwJob[j] \in {"queued", "running"}
            /\ jwJob' = [jwJob EXCEPT ![j] = s]
    BY DEF JwWork
  <1>2. jwJob \in [JwJobs -> JwStatuses] /\ s \in JwStatuses
    BY DEF JwTypeOK, JwStatuses, JwTerminal
  <1>3. jwJob[j] # "absent"
    BY <1>1 DEF JwTerminal
  <1>4. jwJob[j] \in JwTerminal => s = "absent"
    BY <1>1 DEF JwTerminal
  <1> QED
    BY <1>1, <1>2, <1>3, <1>4 DEF JwTerminal, JwStatuses

(* What one event does at the browser, in the two cases of onmessage.          *)
LEMMA JwReceiveEffect ==
    ASSUME JwInv, JwReceive
    PROVE  /\ jwStream.server # "closed" /\ jwStream.job \in jwStarted /\ jwStream.job \in JwJobs
           /\ jwStream.channel[1] \in JwStatuses /\ jwStream.channel # <<>>
           /\ 1 \in JwEvents
  <1>1. jwStream.channel # <<>> /\ jwStream.channel \in Seq(JwStatuses)
    BY DEF JwReceive, JwInv, JwTypeOK, JwStatuses
  <1>2. Len(jwStream.channel) \in Nat /\ Len(jwStream.channel) > 0
    BY <1>1
  <1>3. jwStream.server # "closed"
    BY <1>1 DEF JwInv, JwTypeOK, JwStreamInv, JwClosed
  <1> QED
    BY <1>1, <1>2, <1>3 DEF JwInv, JwStreamInv, JwTypeOK, JwEvents

LEMMA JwInitInv == JwInit => JwInv
  BY DEF JwInit, JwInv, JwTypeOK, JwStreamInv, JwNoSilentEnd, JwClosed, JwTerminal, JwEvents

LEMMA JwStepTyped == JwInv /\ [JwNext]_jwVars => JwTypeOK'
  <1> SUFFICES ASSUME JwInv, [JwNext]_jwVars PROVE JwTypeOK'
    OBVIOUS
  <1> USE JwAssumption DEF JwInv, JwTypeOK
  <1>1. ASSUME NEW j \in JwJobs, JwWork(j) PROVE JwTypeOK'
    BY <1>1, JwWorkEffect DEF JwWork, JwStatuses
  <1>2. ASSUME NEW j \in JwJobs, JwWatch(j) PROVE JwTypeOK'
    BY <1>2 DEF JwWatch, JwStreamInv, JwClosed
  <1>3. CASE JwPoll
    <2>1. jwStream.job \in JwJobs
      BY <1>3 DEF JwPoll, JwStreamInv
    <2>2. JwEvent \in JwStatuses
      BY <2>1 DEF JwEvent, JwStatuses
    <2>3. Append(jwStream.channel, JwEvent) \in Seq(JwStatuses)
      BY <2>2 DEF JwStatuses
    <2> QED
      BY <1>3, <2>1, <2>3 DEF JwPoll, JwStatuses
  <1>4. CASE JwReceive
    <2>1. /\ jwStream.job \in JwJobs /\ jwStream.channel # <<>>
          /\ Tail(jwStream.channel) \in Seq(JwStatuses)
      BY <1>4, JwReceiveEffect DEF JwStatuses
    <2>2. jwStream' = JwClosed \/ jwStream' = [jwStream EXCEPT !.channel = Tail(@)]
      BY <1>4 DEF JwReceive
    <2>3. /\ JwClosed \in JwStream
          /\ [jwStream EXCEPT !.channel = Tail(@)] \in JwStream
      <3>1. jwStream \in JwStream
        BY DEF JwStream, JwStatuses
      <3>2. JwClosed \in JwStream
        BY DEF JwStream, JwClosed, JwStatuses
      <3> QED
        BY <2>1, <3>1, <3>2 DEF JwStream
    <2>4. jwToasted' \subseteq [job : JwJobs, said : JwTerminal]
      <3>1. Head(jwStream.channel) \in JwTerminal =>
                [job |-> jwStream.job, said |-> Head(jwStream.channel)]
                    \in [job : JwJobs, said : JwTerminal]
        BY <2>1
      <3> QED
        BY <1>4, <3>1 DEF JwReceive
    <2> QED
      BY <1>4, <2>2, <2>3, <2>4 DEF JwReceive, JwStream, JwStatuses
  <1>5. CASE JwBreak
    BY <1>5 DEF JwBreak, JwClosed, JwStreamInv
  <1>6. CASE UNCHANGED jwVars
    BY <1>6 DEF jwVars
  <1> QED
    BY <1>1, <1>2, <1>3, <1>4, <1>5, <1>6 DEF JwNext

LEMMA JwStepStream == JwInv /\ [JwNext]_jwVars => JwStreamInv'
  <1> SUFFICES ASSUME JwInv, [JwNext]_jwVars PROVE JwStreamInv'
    OBVIOUS
  <1> USE JwAssumption DEF JwInv, JwTypeOK
  <1>1. ASSUME NEW j \in JwJobs, JwWork(j) PROVE JwStreamInv'
    <2>1. jwStream' = jwStream /\ jwStarted' = jwStarted
      BY <1>1 DEF JwWork
    <2>2. ASSUME NEW i \in JwEvents
          PROVE  /\ jwStream.channel[i] \in JwTerminal =>
                        jwJob'[jwStream.job] \in {jwStream.channel[i], "absent"}
                 /\ jwStream.channel[i] = "absent" => jwJob'[jwStream.job] = "absent"
      <3>1. jwStream # JwClosed
        BY DEF JwEvents, JwClosed
      <3>2. jwStream.job \in JwJobs
        BY <3>1 DEF JwStreamInv
      <3> QED
        BY <1>1, <3>2, JwWorkEffect DEF JwStreamInv, JwTerminal
    <2> QED
      BY <2>1, <2>2 DEF JwStreamInv, JwEvents
  <1>2. ASSUME NEW j \in JwJobs, JwWatch(j) PROVE JwStreamInv'
    BY <1>2 DEF JwWatch, JwStreamInv, JwClosed, JwEvents
  <1>3. CASE JwPoll
    <2>1. jwStream.job \in JwJobs /\ jwStream.server # "closed"
      BY <1>3 DEF JwPoll, JwStreamInv
    <2>2. /\ jwStream'.job = jwStream.job /\ jwStream'.server \in {"poll", "ended"}
          /\ jwStream'.channel = Append(jwStream.channel, JwEvent)
          /\ jwJob' = jwJob /\ jwStarted' = jwStarted
      BY <1>3 DEF JwPoll
    <2>3. JwEvent = jwJob[jwStream.job]
      BY DEF JwEvent
    <2>4. ASSUME NEW i \in JwEvents'
          PROVE  \/ i \in JwEvents /\ jwStream'.channel[i] = jwStream.channel[i]
                 \/ jwStream'.channel[i] = JwEvent
      BY <2>1, <2>2, <2>3 DEF JwEvents
    <2>5. \A i \in JwEvents' :
            /\ jwStream'.channel[i] \in JwTerminal =>
                  jwJob'[jwStream'.job] \in {jwStream'.channel[i], "absent"}
            /\ jwStream'.channel[i] = "absent" => jwJob'[jwStream'.job] = "absent"
      BY <2>2, <2>3, <2>4 DEF JwStreamInv
    <2> QED
      BY <2>1, <2>2, <2>5 DEF JwStreamInv
  <1>4. CASE JwReceive
    <2>1. jwStream.server # "closed" /\ jwStream.channel # <<>> /\ jwStream.job \in JwJobs
      BY <1>4, JwReceiveEffect
    <2>2. CASE jwStream' = JwClosed
      BY <1>4, <2>2 DEF JwReceive, JwStreamInv, JwClosed, JwEvents
    <2>3. CASE jwStream' = [jwStream EXCEPT !.channel = Tail(@)]
      <3>1. /\ jwStream'.job = jwStream.job /\ jwStream'.server = jwStream.server
            /\ jwStream'.channel = Tail(jwStream.channel)
            /\ jwJob' = jwJob /\ jwStarted' = jwStarted
        BY <1>4, <2>3 DEF JwReceive
      <3>2. ASSUME NEW i \in JwEvents'
            PROVE  /\ jwStream'.channel[i] \in JwTerminal =>
                        jwJob'[jwStream'.job] \in {jwStream'.channel[i], "absent"}
                   /\ jwStream'.channel[i] = "absent" => jwJob'[jwStream'.job] = "absent"
        <4>1. i + 1 \in JwEvents /\ jwStream'.channel[i] = jwStream.channel[i + 1]
          BY <2>1, <3>1 DEF JwEvents
        <4>2. PICK n \in JwEvents : jwStream'.channel[i] = jwStream.channel[n]
          BY <4>1
        <4> QED
          BY <3>1, <4>2 DEF JwStreamInv
      <3> QED
        BY <2>1, <3>1, <3>2 DEF JwStreamInv
    <2> QED
      BY <1>4, <2>2, <2>3 DEF JwReceive
  <1>5. CASE JwBreak
    BY <1>5 DEF JwBreak, JwClosed, JwStreamInv, JwEvents
  <1>6. CASE UNCHANGED jwVars
    BY <1>6 DEF jwVars, JwStreamInv, JwEvents
  <1> QED
    BY <1>1, <1>2, <1>3, <1>4, <1>5, <1>6 DEF JwNext

LEMMA JwStepTold == JwInv /\ [JwNext]_jwVars => JwNoSilentEnd'
  <1> SUFFICES ASSUME JwInv, [JwNext]_jwVars PROVE JwNoSilentEnd'
    OBVIOUS
  <1> USE JwAssumption DEF JwInv, JwTypeOK
  <1>1. ASSUME NEW j \in JwJobs, JwWork(j) PROVE JwNoSilentEnd'
    BY <1>1, JwWorkEffect DEF JwWork, JwNoSilentEnd, JwTerminal
  <1>2. ASSUME NEW j \in JwJobs, JwWatch(j) PROVE JwNoSilentEnd'
    BY <1>2 DEF JwWatch, JwNoSilentEnd
  <1>3. CASE JwPoll
    BY <1>3 DEF JwPoll, JwNoSilentEnd
  <1>4. CASE JwReceive
    <2> DEFINE event == Head(jwStream.channel)
    <2>1. /\ jwStream.job \in JwJobs /\ jwStream.channel # <<>> /\ 1 \in JwEvents
          /\ event = jwStream.channel[1]
      BY <1>4, JwReceiveEffect
    <2>2. /\ event \in JwTerminal => jwJob[jwStream.job] \in {event, "absent"}
          /\ event = "absent" => jwJob[jwStream.job] = "absent"
      BY <2>1 DEF JwStreamInv
    <2>3. /\ jwJob' = jwJob /\ jwStarted' = jwStarted /\ jwLost' = jwLost
          /\ jwStream'.job # jwStream.job => event \in JwTerminal \cup {"absent"}
          /\ jwToasted' = IF event \in JwTerminal /\ \A t \in jwToasted : t.job # jwStream.job
                          THEN jwToasted \cup {[job |-> jwStream.job, said |-> event]}
                          ELSE jwToasted
      BY <1>4 DEF JwReceive
    <2>4. event \in JwTerminal => \E t \in jwToasted' : t.job = jwStream.job
      <3>1. [job |-> jwStream.job, said |-> event].job = jwStream.job
        OBVIOUS
      <3> QED
        BY <2>3, <3>1
    <2>5. \A t \in jwToasted' : /\ jwJob[t.job] \in {t.said, "absent"}
                                 /\ \A u \in jwToasted' : u.job = t.job => u = t
      BY <2>2, <2>3 DEF JwNoSilentEnd
    <2>6. \A j \in jwStarted \ jwLost :
              \/ jwStream'.job = j \/ jwJob[j] = "absent" \/ \E t \in jwToasted' : t.job = j
      BY <2>2, <2>3, <2>4 DEF JwNoSilentEnd
    <2> QED
      BY <2>3, <2>5, <2>6 DEF JwNoSilentEnd
  <1>5. CASE JwBreak
    BY <1>5 DEF JwBreak, JwNoSilentEnd
  <1>6. CASE UNCHANGED jwVars
    BY <1>6 DEF jwVars, JwNoSilentEnd
  <1> QED
    BY <1>1, <1>2, <1>3, <1>4, <1>5, <1>6 DEF JwNext

(* watchJobForToast and the stream it reads: every job whose watch was neither *)
(* replaced nor cut off is announced once its stream is over, unless it was    *)
(* deleted first, and announced once, with the status it ended in.             *)
THEOREM NoSilentEnd == JwSpec => []JwNoSilentEnd
  <1>1. JwInv /\ [JwNext]_jwVars => JwInv'
    BY JwStepTyped, JwStepStream, JwStepTold DEF JwInv
  <1>2. JwInv => JwNoSilentEnd
    BY DEF JwInv
  <1> QED
    BY <1>1, <1>2, JwInitInv, PTL DEF JwSpec

(* The job table, the stream and the toasts stay of their kinds.               *)
THEOREM WatchTyped == JwSpec => []JwTypeOK
  <1>1. JwInv /\ [JwNext]_jwVars => JwInv'
    BY JwStepTyped, JwStepStream, JwStepTold DEF JwInv
  <1>2. JwInv => JwTypeOK
    BY DEF JwInv
  <1> QED
    BY <1>1, <1>2, JwInitInv, PTL DEF JwSpec

-----------------------------------------------------------------------------
(* The parts side by side.  A behaviour of the whole is one of each part.      *)

(* A step of the whole is a step or a stutter of every part.                   *)
LEMMA ServiceStep ==
    ASSUME [ServiceNext]_serviceVars
    PROVE  /\ [RlNext]_rlVars /\ [ScNext]_scVars /\ [AsNext]_asVars
           /\ [CsNext]_csVars /\ [RsNext]_rsVars /\ [JwNext]_jwVars
  BY DEF ServiceNext, serviceVars

(* Each component implements its own specification inside the service.         *)
THEOREM ServiceImplementsParts ==
    ServiceSpec => RlSpec /\ ScSpec /\ AsSpec /\ CsSpec /\ RsSpec /\ JwSpec
  <1>1. ServiceInit => RlInit /\ ScInit /\ AsInit /\ CsInit /\ RsInit /\ JwInit
    BY DEF ServiceInit
  <1> QED
    BY <1>1, ServiceStep, PTL DEF ServiceSpec, RlSpec, ScSpec, AsSpec, CsSpec, RsSpec, JwSpec

(* The variables of every part stay in their types, whatever the parts do.     *)
THEOREM ServiceTyped == ServiceSpec => []ServiceTypeOK
  <1>1. RlTypeOK /\ ScTypeOK /\ AsTypeOK /\ CsTypeOK /\ RsTypeOK /\ JwTypeOK => ServiceTypeOK
    BY DEF ServiceTypeOK
  <1> QED
    BY <1>1, ServiceImplementsParts, LimiterTyped, SetupTyped, SessionTyped, CasesTyped, RowsTyped,
       WatchTyped, PTL

(* What each part promises, it promises in the service: a limit that is never  *)
(* exceeded, a setup that survives a restart, sessions of the last login only, *)
(* memberships and graphs that agree, no job that ends unheard.                *)
THEOREM ServicePromises ==
    ServiceSpec => [](/\ RlLimitHolds /\ RlRefusesOnlyAtLimit
                      /\ ScRestartAgrees /\ ScDurableIsComplete
                      /\ AsSessionOfLastLogin /\ AsRotationHeals /\ AsLeaverIsOut
                      /\ CsMembershipKept /\ CsGraphNamesItsCases /\ CsDeletedIsGone
                      /\ JwNoSilentEnd)
  BY ServiceImplementsParts, LimitHolds, RefusesOnlyAtLimit, RestartAgrees, DurableIsComplete,
     SessionOfLastLogin, RotationHeals, LeaverIsOut, MembershipKept, GraphNamesItsCases,
     DeletedIsGone, NoSilentEnd, PTL

(* What a step of the service may never do: leave authentication switched off  *)
(* again, commit half a unit of work, or write over what others committed.     *)
THEOREM ServiceSteps == ServiceSpec => ScNeverDisabled /\ RsAllOrNothing /\ RsOthersKept
  BY ServiceImplementsParts, NeverDisabled, AllOrNothing, OthersKept, PTL
=============================================================================
