---------------------------- MODULE RetrySession ---------------------------
(* RetryingSession of app/core/database.py: a commit that meets "database is   *)
(* locked" is rolled back, replayed from a snapshot and tried again.  Several  *)
(* sessions, each with one unit of work over rows of two columns; a session's  *)
(* objects are the rows as they were when it loaded them.                      *)
EXTENDS Naturals, FiniteSets

CONSTANTS
    RsSessions,  \* sessions; a session's name is also the value it writes
    RsRows,      \* primary keys
    RsUnits,     \* units of work: functions from some rows to operations
    RsAttempts   \* _LOCK_RETRY_ATTEMPTS

RsColumns == {"a", "b"}
(* An operation sets the columns of a loaded object, adds a new one, or        *)
(* deletes a loaded one.                                                       *)
RsOps == [kind : {"set"}, cols : SUBSET RsColumns] \cup [kind : {"add", "delete"}]

ASSUME RsAssumption ==
    /\ RsAttempts \in Nat \ {0}
    /\ \A u \in RsUnits : DOMAIN u \subseteq RsRows /\ \A r \in DOMAIN u : u[r] \in RsOps

VARIABLES
    rsRow,   \* the table: per key the row, or RsAbsent
    rsPc,    \* per session: idle, pending, locked, done, raised
    rsUnit,  \* the unit of work its caller asked for
    rsWork,  \* session.new, dirty and deleted: what a flush would write
    rsMem,   \* the attributes of its objects
    rsTries  \* attempt
rsVars == <<rsRow, rsPc, rsUnit, rsWork, rsMem, rsTries>>

RsAbsent == [c \in {} |-> 0]
RsFresh == [c \in RsColumns |-> "initial"]
RsNothing == [r \in {} |-> RsAbsent]

RsInit ==
    /\ rsRow \in [RsRows -> {RsAbsent, RsFresh}]
    /\ rsPc = [s \in RsSessions |-> "idle"]
    /\ rsUnit = [s \in RsSessions |-> RsNothing]
    /\ rsWork = [s \in RsSessions |-> RsNothing]
    /\ rsMem = [s \in RsSessions |-> RsNothing]
    /\ rsTries = [s \in RsSessions |-> 0]

-----------------------------------------------------------------------------
(* A caller loads the rows it works on and changes, adds or deletes objects.   *)
RsLoad(s, u) ==
    /\ rsPc[s] = "idle"
    /\ \A r \in DOMAIN u : (rsRow[r] = RsAbsent) <=> (u[r].kind = "add")
    /\ rsPc' = [rsPc EXCEPT ![s] = "pending"]
    /\ rsUnit' = [rsUnit EXCEPT ![s] = u]
    /\ rsWork' = [rsWork EXCEPT ![s] = u]
    /\ rsMem' = [rsMem EXCEPT ![s] =
            [r \in DOMAIN u |-> [c \in RsColumns |->
                IF u[r].kind = "add" \/ (u[r].kind = "set" /\ c \in u[r].cols) THEN s
                ELSE rsRow[r][c]]]]
    /\ UNCHANGED <<rsRow, rsTries>>

(* The flush of session s: it fails on a key that is taken, and on a changed   *)
(* row that is gone; deleting a row that is gone is a warning.                 *)
RsFlushable(s) ==
    \A r \in DOMAIN rsWork[s] :
        /\ rsWork[s][r].kind = "add" => rsRow[r] = RsAbsent
        /\ rsWork[s][r].kind = "set" => rsRow[r] # RsAbsent
(* Fault: every column of a changed row is written.                            *)
RsFlushedWhole(s) ==
    [r \in RsRows |->
        IF r \notin DOMAIN rsWork[s] THEN rsRow[r]
        ELSE IF rsWork[s][r].kind = "delete" THEN RsAbsent ELSE rsMem[s][r]]

RsFlushed(s) ==
    [r \in RsRows |->
        IF r \notin DOMAIN rsWork[s] THEN rsRow[r]
        ELSE LET op == rsWork[s][r]
             IN  CASE op.kind = "add"    -> rsMem[s][r]
                   [] op.kind = "delete" -> RsAbsent
                   [] op.kind = "set"    ->
                        [c \in RsColumns |-> IF c \in op.cols THEN rsMem[s][r][c] ELSE rsRow[r][c]]]

RsCommit(s) ==
    /\ rsPc[s] = "pending"
    /\ rsRow' = IF RsFlushable(s) THEN RsFlushed(s) ELSE rsRow
    /\ rsPc' = [rsPc EXCEPT ![s] = IF RsFlushable(s) THEN "done" ELSE "raised"]
    /\ UNCHANGED <<rsUnit, rsWork, rsMem, rsTries>>

(* Fault: one attempt too many.                                                *)
RsLockedLate(s) ==
    /\ rsPc[s] = "pending"
    /\ IF rsTries[s] > RsAttempts - 1
       THEN rsPc' = [rsPc EXCEPT ![s] = "raised"] /\ UNCHANGED rsTries
       ELSE /\ rsPc' = [rsPc EXCEPT ![s] = "locked"]
            /\ rsTries' = [rsTries EXCEPT ![s] = @ + 1]
    /\ UNCHANGED <<rsRow, rsUnit, rsWork, rsMem>>

(* The attempt meets a lock.  The last attempt raises; before that the loop    *)
(* rolls back and replays.                                                     *)
RsLocked(s) ==
    /\ rsPc[s] = "pending"
    /\ IF rsTries[s] >= RsAttempts - 1
       THEN rsPc' = [rsPc EXCEPT ![s] = "raised"] /\ UNCHANGED rsTries
       ELSE /\ rsPc' = [rsPc EXCEPT ![s] = "locked"]
            /\ rsTries' = [rsTries EXCEPT ![s] = @ + 1]
    /\ UNCHANGED <<rsRow, rsUnit, rsWork, rsMem>>

(* Fault: deletions are not replayed.                                          *)
RsReplayedChanges(work) ==
    [r \in {x \in DOMAIN work : work[x].kind # "delete"} |->
        IF work[r].kind = "set" THEN [kind |-> "set", cols |-> RsColumns] ELSE work[r]]

(* _replay_pending on the snapshot taken before the attempt: every attribute   *)
(* of a dirty object is set again, so all of its columns are dirty now.        *)
RsReplayed(work) ==
    [r \in DOMAIN work |->
        IF work[r].kind = "set" THEN [kind |-> "set", cols |-> RsColumns] ELSE work[r]]

RsReplay(s) ==
    /\ rsPc[s] = "locked"
    /\ rsWork' = [rsWork EXCEPT ![s] = RsReplayed(@)]
    /\ rsPc' = [rsPc EXCEPT ![s] = "pending"]
    /\ UNCHANGED <<rsRow, rsUnit, rsMem, rsTries>>

RsNext ==
    \E s \in RsSessions :
        \/ RsCommit(s) \/ RsLocked(s) \/ RsReplay(s)
        \/ \E u \in RsUnits : RsLoad(s, u)

RsSpec == RsInit /\ [][RsNext]_rsVars

-----------------------------------------------------------------------------
RsTypeOK ==
    /\ rsRow \in [RsRows -> {RsAbsent} \cup [RsColumns -> RsSessions \cup {"initial"}]]
    /\ rsPc \in [RsSessions -> {"idle", "pending", "locked", "done", "raised"}]
    /\ \A s \in RsSessions : rsUnit[s] \in RsUnits \cup {RsNothing}
    /\ rsTries \in [RsSessions -> 0 .. RsAttempts - 1]

(* What the caller asked of row r is what the table now says.                  *)
RsApplied(s, r) ==
    CASE rsUnit[s][r].kind = "add"    -> rsRow'[r] = [c \in RsColumns |-> s]
      [] rsUnit[s][r].kind = "delete" -> rsRow'[r] = RsAbsent
      [] rsUnit[s][r].kind = "set"    -> \A c \in rsUnit[s][r].cols : rsRow'[r][c] = s

(* A commit that returns, after however many retries, has applied every        *)
(* addition, change and deletion of its unit of work, and the table changes in *)
(* no other step: a raised commit leaves nothing behind.                       *)
RsAllOrNothing ==
    [][/\ rsRow' # rsRow => \E s \in RsSessions : rsPc[s] # "done" /\ rsPc'[s] = "done"
       /\ \A s \in RsSessions :
            (rsPc[s] # "done" /\ rsPc'[s] = "done") => \A r \in DOMAIN rsUnit[s] : RsApplied(s, r)]_rsVars

(* A commit at its first attempt keeps what others wrote to the columns it did *)
(* not set; only a retried one may put back what it had loaded.                *)
RsOthersKept ==
    [][\A s \in RsSessions :
         (rsPc[s] # "done" /\ rsPc'[s] = "done") =>
            \A r \in RsRows : \A c \in RsColumns :
                (r \in DOMAIN rsUnit[s] /\ rsUnit[s][r].kind = "set" /\ c \notin rsUnit[s][r].cols) =>
                    \/ rsRow'[r][c] = rsRow[r][c]
                    \/ rsTries[s] > 0 /\ rsRow'[r][c] = rsMem[s][r][c]]_rsVars
=============================================================================
