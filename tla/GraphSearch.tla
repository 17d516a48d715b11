----------------------------- MODULE GraphSearch ----------------------------
(* The bounded searches over a capture's evidence graph: find_attack_paths and *)
(* blast_radius of services/evidence_graph.py.  Both are breadth first; the    *)
(* rows of the adjacency come from a SELECT without an order, so a node's      *)
(* edges are looked at in any order.                                           *)
EXTENDS Integers, Sequences, FiniteSets, SequencesExt

CONSTANTS
    GsGraphs,     \* edge sets; an edge is [from, to, rel, prov]
    GsMaxDepth,   \* MAX_PATH_DEPTH, MAX_BLAST_DEPTH
    GsMaxPaths,   \* MAX_PATHS
    GsPathCap,    \* PATH_NODE_CAP
    GsNodeCap,    \* BLAST_NODE_CAP
    GsHardCap     \* BLAST_HARD_NODE_CAP

VARIABLES
    gsGraph,    \* the graph rows of the capture
    gsAsked,    \* the request: [kind, from, to, depth]
    gsQueue,    \* queue: paths of nodes ("paths"), nodes ("blast")
    gsAt,       \* the entry being expanded, <<>> between two
    gsLeft,     \* its edges not looked at yet
    gsVisited,  \* visited_total
    gsRing,     \* seen_depth; ring
    gsFound,    \* paths found
    gsTouched,  \* edges_by_key
    gsCut,      \* truncated
    gsDone      \* the answer was returned
gsVars == <<gsGraph, gsAsked, gsQueue, gsAt, gsLeft, gsVisited, gsRing, gsFound, gsTouched, gsCut, gsDone>>

(* build_adjacency: observed edges, in both directions.                        *)
GsObserved(G) == {e \in G : e.prov = "observed"}
GsNodes(G) == {e.from : e \in G} \cup {e.to : e \in G}
(* A blast radius has no target: "none" is no node.                            *)
ASSUME GsAssumption ==
    /\ {GsMaxDepth, GsMaxPaths, GsPathCap, GsNodeCap, GsHardCap} \subseteq Nat \ {0}
    /\ GsNodeCap <= GsHardCap
    /\ \A G \in GsGraphs : IsFiniteSet(G) /\ "none" \notin GsNodes(G)

GsEdgesAt(n) == {e \in GsObserved(gsGraph) : n \in {e.from, e.to}}
GsOther(e, n) == IF e.from = n THEN e.to ELSE e.from

GsKnown == GsNodes(GsObserved(gsGraph))
GsRequests(G) ==
    LET nodes == GsNodes(G)
    IN  [kind : {"paths"}, from : nodes, to : nodes, depth : 1 .. GsMaxDepth]
        \cup [kind : {"blast"}, from : nodes, to : {"none"}, depth : 1 .. GsMaxDepth]

GsInit ==
    /\ gsGraph \in GsGraphs /\ gsAsked \in GsRequests(gsGraph)
    /\ LET start == gsAsked.from
       IN  /\ gsQueue = IF gsAsked.kind = "paths" THEN <<<<start>>>> ELSE <<start>>
           /\ gsRing = [n \in {start} |-> 0]
    /\ gsAt = <<>> /\ gsLeft = {} /\ gsVisited = 0
    /\ gsFound = <<>> /\ gsTouched = {} /\ gsCut = FALSE
    (* an unknown node is answered at once *)
    /\ gsDone = ~({gsAsked.from, gsAsked.to} \ {"none"} \subseteq GsKnown)

GsIdle == ~gsDone /\ gsAt = <<>> /\ gsLeft = {}

GsReturn ==
    /\ GsIdle /\ gsQueue = <<>>
    /\ gsDone' = TRUE
    /\ UNCHANGED <<gsGraph, gsAsked, gsQueue, gsAt, gsLeft, gsVisited, gsRing, gsFound, gsTouched, gsCut>>

-----------------------------------------------------------------------------
(* find_attack_paths                                                           *)
GsPop ==
    /\ gsAsked.kind = "paths" /\ GsIdle /\ gsQueue # <<>>
    /\ gsVisited' = gsVisited + 1
    /\ gsQueue' = Tail(gsQueue)
    /\ LET path == Head(gsQueue)
           full == gsVisited' > GsPathCap
           deep == Len(path) - 1 >= gsAsked.depth
       IN  /\ gsCut' = full /\ gsDone' = full
           /\ gsAt' = IF full \/ deep THEN <<>> ELSE path
           /\ gsLeft' = IF full \/ deep THEN {} ELSE GsEdgesAt(Last(path))
    /\ UNCHANGED <<gsGraph, gsAsked, gsRing, gsFound, gsTouched>>

(* Fault: a neighbour is expanded again whenever it is met.                    *)
GsWorthQueueing(n, depth) == depth < gsAsked.depth

GsQueueable(n, depth) ==
    /\ depth < gsAsked.depth
    /\ n \notin DOMAIN gsRing \/ depth < gsRing[n]
    /\ gsVisited + Len(gsQueue) < 2 * GsPathCap

GsHop(e) ==
    /\ gsAsked.kind = "paths" /\ ~gsDone /\ gsAt # <<>> /\ e \in gsLeft
    /\ gsLeft' = gsLeft \ {e}
    /\ LET n == GsOther(e, Last(gsAt))
           path == Append(gsAt, n)
           simple == n \notin ToSet(gsAt)
           hit == simple /\ n = gsAsked.to
           queue == simple /\ ~hit /\ GsQueueable(n, Len(gsAt))
       IN  /\ gsFound' = IF hit THEN Append(gsFound, path) ELSE gsFound
           /\ gsDone' = (hit /\ Len(gsFound') >= GsMaxPaths)
           /\ gsQueue' = IF queue THEN Append(gsQueue, path) ELSE gsQueue
           /\ gsRing' = [x \in DOMAIN gsRing \cup (IF queue THEN {n} ELSE {}) |->
                            IF queue /\ x = n THEN Len(gsAt) ELSE gsRing[x]]
    /\ gsAt' = IF gsLeft' = {} THEN <<>> ELSE gsAt
    /\ UNCHANGED <<gsGraph, gsAsked, gsVisited, gsTouched, gsCut>>

-----------------------------------------------------------------------------
(* blast_radius                                                                *)
GsTake ==
    /\ gsAsked.kind = "blast" /\ GsIdle /\ gsQueue # <<>>
    /\ gsQueue' = Tail(gsQueue)
    /\ LET n == Head(gsQueue)
           deep == gsRing[n] >= gsAsked.depth
       IN  /\ gsAt' = IF deep THEN <<>> ELSE <<n>>
           /\ gsLeft' = IF deep THEN {} ELSE GsEdgesAt(n)
    /\ UNCHANGED <<gsGraph, gsAsked, gsVisited, gsRing, gsFound, gsTouched, gsCut, gsDone>>

(* Fault: the node cap counts the node itself twice.                           *)
GsGoesOnShort(nodes) == nodes + 1 < GsNodeCap

(* A node that reaches the node cap is not expanded.                           *)
GsGoesOn(nodes) == nodes < GsNodeCap

GsTouch(e) ==
    /\ gsAsked.kind = "blast" /\ gsAt # <<>> /\ e \in gsLeft
    /\ LET at == gsAt[1]
           n == GsOther(e, at)
           known == n \in DOMAIN gsRing
           full == ~known /\ Cardinality(DOMAIN gsRing) >= GsHardCap
           depth == gsRing[at] + 1
       IN  /\ gsCut' = (gsCut \/ full)
           /\ gsTouched' = IF full THEN gsTouched ELSE gsTouched \cup {e}
           /\ gsRing' = IF full THEN gsRing
                        ELSE [x \in DOMAIN gsRing \cup {n} |->
                                 IF x # n THEN gsRing[x]
                                 ELSE IF known /\ gsRing[n] <= depth THEN gsRing[n] ELSE depth]
           /\ gsQueue' = IF ~known /\ ~full /\ GsGoesOn(Cardinality(DOMAIN gsRing'))
                         THEN Append(gsQueue, n) ELSE gsQueue
           /\ gsLeft' = IF full THEN {} ELSE gsLeft \ {e}
           /\ gsAt' = IF gsLeft' = {} THEN <<>> ELSE gsAt
    /\ UNCHANGED <<gsGraph, gsAsked, gsVisited, gsFound, gsDone>>

GsNext ==
    \/ GsReturn \/ GsPop \/ GsTake
    \/ \E e \in gsLeft : GsHop(e) \/ GsTouch(e)
GsSpec == GsInit /\ [][GsNext]_gsVars

-----------------------------------------------------------------------------
GsTypeOK ==
    /\ gsAsked \in GsRequests(gsGraph)
    /\ gsLeft \subseteq GsObserved(gsGraph) /\ gsTouched \subseteq GsObserved(gsGraph)
    /\ gsVisited \in 0 .. GsPathCap + 1 /\ Len(gsFound) <= GsMaxPaths
    /\ \A n \in DOMAIN gsRing : n \in GsKnown \cup {gsAsked.from} /\ gsRing[n] \in 0 .. gsAsked.depth

(* Distance by definition: spheres around the start, over observed edges; a    *)
(* path ends at its target, so none of them leads through it.                  *)
GsBeyond(B) ==
    LET steps == {x \in GsObserved(gsGraph) \X (B \ {gsAsked.to}) : x[2] \in {x[1].from, x[1].to}}
    IN  B \cup {GsOther(x[1], x[2]) : x \in steps}
GsBall(d) ==
    LET ball[k \in Nat] == IF k = 0 THEN {gsAsked.from} ELSE GsBeyond(ball[k - 1])
    IN  ball[d]
GsDistance(n) == Min({d \in 0 .. GsMaxDepth : n \in GsBall(d)})

(* A walk over observed edges that starts at the source, visits no node twice  *)
(* and keeps to the depth asked for.                                           *)
GsWalk(path) ==
    /\ path # <<>> /\ path[1] = gsAsked.from /\ Len(path) - 1 <= gsAsked.depth
    /\ IsInjective(path)
    /\ \A j \in 1 .. Len(path) - 1 :
          \E e \in GsEdgesAt(path[j]) : GsOther(e, path[j]) = path[j + 1]

(* find_attack_paths: every answer is such a walk to the target.               *)
GsPathsWalk ==
    gsAsked.kind = "paths" =>
        \A i \in DOMAIN gsFound : GsWalk(gsFound[i]) /\ Last(gsFound[i]) = gsAsked.to

(* blast_radius: the nodes are in rings within the depth, at most the hard cap *)
(* of them, and the edges answered run between them.                           *)
GsBlastBounded ==
    gsAsked.kind = "blast" =>
        /\ \A n \in DOMAIN gsRing : gsRing[n] \in 0 .. gsAsked.depth
        /\ Cardinality(DOMAIN gsRing) <= GsHardCap
        /\ \A e \in gsTouched : {e.from, e.to} \subseteq DOMAIN gsRing

(* Whatever the order of the rows: a path that is answered walks observed      *)
(* edges, visits no node twice, keeps to the depth asked for; every step but   *)
(* the last leads one further from the source; and if the whole search fitted  *)
(* into its cap, a target within the depth is found, by a shortest path first. *)
GsPathsSound ==
    gsAsked.kind = "paths" =>
        /\ GsPathsWalk
        /\ \A i \in DOMAIN gsFound : \A j \in 1 .. Len(gsFound[i]) - 1 : GsDistance(gsFound[i][j]) = j - 1
        /\ gsFound # <<>> => Len(gsFound[1]) - 1 = GsDistance(gsAsked.to)
        /\ gsDone /\ ~gsCut /\ gsAsked.from # gsAsked.to /\ {gsAsked.from, gsAsked.to} \subseteq GsKnown
              => (gsFound # <<>> <=> gsAsked.to \in GsBall(gsAsked.depth))

(* Whatever the order of the rows: the blast radius is made of nodes within    *)
(* the depth, in the ring of their distance, at most the hard cap of them; and *)
(* if they stay below the node cap, they and their edges are all there are.    *)
GsReach ==
    gsAsked.kind = "blast" =>
        /\ \A n \in DOMAIN gsRing : n \in GsBall(gsAsked.depth) /\ gsRing[n] = GsDistance(n)
        /\ GsBlastBounded
        /\ (gsDone /\ gsAsked.from \in GsKnown /\ Cardinality(DOMAIN gsRing) < GsNodeCap) =>
              /\ ~gsCut
              /\ DOMAIN gsRing = GsBall(gsAsked.depth)
              /\ gsTouched = UNION {GsEdgesAt(n) : n \in GsBall(gsAsked.depth - 1)}
=============================================================================
