------------------------- MODULE GraphSearch_proofs -------------------------
(* What the searches may answer, for any graphs, any caps and any order in     *)
(* which the rows come.                                                        *)
EXTENDS GraphSearch, DataLemmas

GsAll == GsNodes(gsGraph)

GsAskedInv ==
    /\ gsAsked.kind \in {"paths", "blast"}
    /\ gsAsked.from \in GsAll /\ gsAsked.depth \in Nat \ {0}

(* A path that is queued or expanded is such a walk already.                   *)
GsPathsInv ==
    /\ gsQueue \in Seq(Seq(GsAll))
    /\ \A i \in DOMAIN gsQueue : GsWalk(gsQueue[i])
    /\ gsAt \in Seq(GsAll)
    /\ gsAt = <<>> => gsLeft = {}
    /\ gsAt # <<>> => /\ GsWalk(gsAt) /\ Len(gsAt) - 1 < gsAsked.depth
                      /\ gsLeft \subseteq GsEdgesAt(Last(gsAt))
    /\ gsFound \in Seq(Seq(GsAll))
    /\ \A i \in DOMAIN gsFound : GsWalk(gsFound[i]) /\ Last(gsFound[i]) = gsAsked.to

(* A node that is queued or expanded is in its ring already.                   *)
GsBlastInv ==
    /\ gsQueue \in Seq(DOMAIN gsRing)
    /\ gsAt \in {<<>>} \cup {<<n>> : n \in DOMAIN gsRing}
    /\ gsAt = <<>> => gsLeft = {}
    /\ gsAt # <<>> => gsRing[gsAt[1]] < gsAsked.depth /\ gsLeft \subseteq GsEdgesAt(gsAt[1])
    /\ IsFiniteSet(DOMAIN gsRing)
    /\ \A n \in DOMAIN gsRing : gsRing[n] \in 0 .. gsAsked.depth
    /\ Cardinality(DOMAIN gsRing) <= GsHardCap
    /\ \A e \in gsTouched : {e.from, e.to} \subseteq DOMAIN gsRing

GsInv ==
    /\ GsAskedInv
    /\ gsAsked.kind = "paths" => GsPathsInv
    /\ gsAsked.kind = "blast" => GsBlastInv

-----------------------------------------------------------------------------
LEMMA GsRequestFields ==
    ASSUME NEW G, NEW r \in GsRequests(G)
    PROVE  r.kind \in {"paths", "blast"} /\ r.from \in GsNodes(G) /\ r.depth \in Nat \ {0}
  BY GsAssumption DEF GsRequests

(* The other end of an edge at a node.                                         *)
LEMMA GsOtherEnd ==
    ASSUME NEW n, NEW e \in GsEdgesAt(n)
    PROVE  /\ GsOther(e, n) \in GsAll
           /\ {e.from, e.to} = {n, GsOther(e, n)}
  BY DEF GsEdgesAt, GsObserved, GsOther, GsAll, GsNodes

LEMMA GsInitInv == GsInit => GsInv
  <1> SUFFICES ASSUME GsInit PROVE GsInv
    OBVIOUS
  <1>1. GsAskedInv
    BY GsRequestFields DEF GsInit, GsAskedInv, GsAll
  <1>2. ASSUME gsAsked.kind = "paths" PROVE GsPathsInv
    <2>1. gsQueue = <<<<gsAsked.from>>>> /\ gsAt = <<>> /\ gsLeft = {} /\ gsFound = <<>>
      BY <1>2 DEF GsInit
    <2>2. GsWalk(<<gsAsked.from>>)
      BY <1>1 DEF GsWalk, GsAskedInv, IsInjective
    <2> QED
      BY <1>1, <2>1, <2>2 DEF GsPathsInv, GsAskedInv
  <1>3. ASSUME gsAsked.kind = "blast" PROVE GsBlastInv
    <2>1. /\ gsQueue = <<gsAsked.from>> /\ gsAt = <<>> /\ gsLeft = {} /\ gsTouched = {}
          /\ gsRing = [n \in {gsAsked.from} |-> 0]
      BY <1>3 DEF GsInit
    <2>2. DOMAIN gsRing = {gsAsked.from} /\ gsRing[gsAsked.from] = 0
      BY <2>1
    <2>3. IsFiniteSet(DOMAIN gsRing) /\ Cardinality(DOMAIN gsRing) = 1
      BY <2>2, FS_Singleton
    <2>4. GsHardCap \in Nat \ {0}
      BY GsAssumption
    <2> QED
      BY <1>1, <2>1, <2>2, <2>3, <2>4 DEF GsBlastInv, GsAskedInv
  <1> QED
    BY <1>1, <1>2, <1>3 DEF GsInv

(* A walk that leaves a node for one it has not met is a walk.                 *)
LEMMA GsWalkOn ==
    ASSUME GsAskedInv, NEW path \in Seq(GsAll), GsWalk(path), Len(path) - 1 < gsAsked.depth,
           NEW e \in GsEdgesAt(Last(path)), GsOther(e, Last(path)) \notin ToSet(path)
    PROVE  /\ Append(path, GsOther(e, Last(path))) \in Seq(GsAll)
           /\ GsWalk(Append(path, GsOther(e, Last(path))))
           /\ Last(Append(path, GsOther(e, Last(path)))) = GsOther(e, Last(path))
  <1> DEFINE n == GsOther(e, Last(path))
             longer == Append(path, n)
  <1>1. n \in GsAll
    BY GsOtherEnd
  <1>2. /\ longer \in Seq(GsAll) /\ Len(longer) = Len(path) + 1 /\ Len(path) \in Nat \ {0}
        /\ longer[Len(longer)] = n /\ \A j \in 1 .. Len(path) : longer[j] = path[j]
        /\ DOMAIN longer = 1 .. Len(path) + 1 /\ DOMAIN path = 1 .. Len(path)
    BY <1>1 DEF GsWalk
  <1>3. \A j \in 1 .. Len(path) : path[j] # n
    BY <1>2 DEF ToSet
  <1>4. IsInjective(longer)
    BY <1>2, <1>3 DEF GsWalk, IsInjective
  <1>5. ASSUME NEW j \in 1 .. Len(longer) - 1
        PROVE  \E f \in GsEdgesAt(longer[j]) : GsOther(f, longer[j]) = longer[j + 1]
    <2>1. CASE j < Len(path)
      <3>1. j \in 1 .. Len(path) - 1 /\ longer[j] = path[j] /\ longer[j + 1] = path[j + 1]
        BY <1>2, <2>1
      <3>2. \E f \in GsEdgesAt(path[j]) : GsOther(f, path[j]) = path[j + 1]
        BY <3>1 DEF GsWalk
      <3> QED
        BY <3>1, <3>2
    <2>2. CASE j = Len(path)
      <3>1. longer[j] = Last(path) /\ longer[j + 1] = n
        BY <1>2, <2>2 DEF Last
      <3> QED
        BY <3>1
    <2>3. j < Len(path) \/ j = Len(path)
      <3>1. j \in 1 .. Len(path)
        BY <1>2
      <3>2. Len(path) \in Nat
        BY <1>2
      <3> QED
        BY <3>1, <3>2
    <2> QED
      BY <2>1, <2>2, <2>3
  <1>6. longer # <<>> /\ longer[1] = gsAsked.from /\ Len(longer) - 1 <= gsAsked.depth
    BY <1>2 DEF GsWalk, GsAskedInv
  <1> QED
    BY <1>2, <1>4, <1>5, <1>6 DEF GsWalk, Last

-----------------------------------------------------------------------------
(* The actions of find_attack_paths.                                           *)
LEMMA GsPopKeeps == ASSUME GsInv, GsPop PROVE GsInv'
  <1> DEFINE path == Head(gsQueue)
             full == gsVisited' > GsPathCap
             deep == Len(path) - 1 >= gsAsked.depth
  <1>1. /\ gsAsked.kind = "paths" /\ GsPathsInv /\ GsAskedInv /\ gsQueue # <<>>
        /\ gsQueue' = Tail(gsQueue)
        /\ gsAt' = IF full \/ deep THEN <<>> ELSE path
        /\ gsLeft' = IF full \/ deep THEN {} ELSE GsEdgesAt(Last(path))
        /\ UNCHANGED <<gsGraph, gsAsked, gsRing, gsFound, gsTouched>>
    BY DEF GsPop, GsInv
  <1>2. gsQueue \in Seq(Seq(GsAll)) /\ Len(gsQueue) \in Nat \ {0} /\ 1 \in DOMAIN gsQueue
    BY <1>1 DEF GsPathsInv
  <1>3. path \in Seq(GsAll) /\ GsWalk(path)
    BY <1>1, <1>2 DEF GsPathsInv
  <1>4. Tail(gsQueue) \in Seq(Seq(GsAll)) /\ \A i \in DOMAIN Tail(gsQueue) : GsWalk(Tail(gsQueue)[i])
    BY <1>1, <1>2 DEF GsPathsInv
  <1>5. Len(path) - 1 < gsAsked.depth \/ deep
    BY <1>1, <1>3 DEF GsAskedInv
  <1>6. /\ \A p : GsWalk(p)' <=> GsWalk(p)
        /\ GsAll' = GsAll /\ \A n : GsEdgesAt(n)' = GsEdgesAt(n)
    BY <1>1 DEF GsWalk, GsAll, GsEdgesAt
  <1>7. path # <<>>
    BY <1>3 DEF GsWalk
  <1> HIDE DEF path, full, deep
  <1>8. GsPathsInv'
    <2>1. CASE full \/ deep
      BY <1>1, <1>4, <1>6, <2>1 DEF GsPathsInv
    <2>2. CASE ~(full \/ deep)
      <3>1. gsAt' = path /\ gsLeft' = GsEdgesAt(Last(path)) /\ Len(path) - 1 < gsAsked.depth
        BY <1>1, <1>5, <2>2
      <3>2. gsFound' = gsFound /\ gsAsked' = gsAsked /\ gsQueue' = Tail(gsQueue)
        BY <1>1
      <3>3. gsLeft' \subseteq GsEdgesAt(Last(gsAt')) /\ GsWalk(gsAt')
        BY <1>3, <1>6, <3>1
      <3> QED
        BY <1>1, <1>3, <1>4, <1>6, <1>7, <3>1, <3>2, <3>3 DEF GsPathsInv
    <2> QED
      BY <2>1, <2>2
  <1> QED
    BY <1>1, <1>6, <1>8 DEF GsInv, GsAskedInv

LEMMA GsHopKeeps == ASSUME GsInv, NEW e \in gsLeft, GsHop(e) PROVE GsInv'
  <1> DEFINE n == GsOther(e, Last(gsAt))
             path == Append(gsAt, n)
             simple == n \notin ToSet(gsAt)
             hit == simple /\ n = gsAsked.to
             queue == simple /\ ~hit /\ GsQueueable(n, Len(gsAt))
  <1>1. /\ gsAsked.kind = "paths" /\ GsPathsInv /\ GsAskedInv /\ gsAt # <<>>
        /\ gsLeft' = gsLeft \ {e}
        /\ gsFound' = IF hit THEN Append(gsFound, path) ELSE gsFound
        /\ gsQueue' = IF queue THEN Append(gsQueue, path) ELSE gsQueue
        /\ gsAt' = IF gsLeft' = {} THEN <<>> ELSE gsAt
        /\ UNCHANGED <<gsGraph, gsAsked>>
    BY DEF GsHop, GsInv
  <1>2. /\ GsWalk(gsAt) /\ gsAt \in Seq(GsAll) /\ Len(gsAt) - 1 < gsAsked.depth
        /\ e \in GsEdgesAt(Last(gsAt))
    BY <1>1 DEF GsPathsInv
  <1>3. simple => path \in Seq(GsAll) /\ GsWalk(path) /\ Last(path) = n
    BY <1>1, <1>2, GsWalkOn
  <1>4. /\ \A p : GsWalk(p)' <=> GsWalk(p)
        /\ GsAll' = GsAll /\ \A m : GsEdgesAt(m)' = GsEdgesAt(m)
    BY <1>1 DEF GsWalk, GsAll, GsEdgesAt
  <1>5. (hit => simple /\ n = gsAsked.to) /\ (queue => simple)
    OBVIOUS
  <1> HIDE DEF path, n, simple, hit, queue
  <1>6. /\ gsQueue' \in Seq(Seq(GsAll)) /\ \A i \in DOMAIN gsQueue' : GsWalk(gsQueue'[i])
    <2>1. CASE queue
      BY <1>1, <1>3, <1>5, <2>1 DEF GsPathsInv
    <2>2. CASE ~queue
      BY <1>1, <2>2 DEF GsPathsInv
    <2> QED
      BY <2>1, <2>2
  <1>7. /\ gsFound' \in Seq(Seq(GsAll))
        /\ \A i \in DOMAIN gsFound' : GsWalk(gsFound'[i]) /\ Last(gsFound'[i]) = gsAsked.to
    <2>1. CASE hit
      BY <1>1, <1>3, <1>5, <2>1 DEF GsPathsInv
    <2>2. CASE ~hit
      BY <1>1, <2>2 DEF GsPathsInv
    <2> QED
      BY <2>1, <2>2
  <1>8. /\ gsAt' \in Seq(GsAll) /\ (gsAt' = <<>> => gsLeft' = {})
        /\ gsAt' # <<>> => /\ GsWalk(gsAt') /\ Len(gsAt') - 1 < gsAsked.depth
                           /\ gsLeft' \subseteq GsEdgesAt(Last(gsAt'))
    BY <1>1, <1>2 DEF GsPathsInv
  <1> QED
    BY <1>1, <1>4, <1>6, <1>7, <1>8 DEF GsInv, GsAskedInv, GsPathsInv

-----------------------------------------------------------------------------
(* The actions of blast_radius.                                                *)
LEMMA GsTakeKeeps == ASSUME GsInv, GsTake PROVE GsInv'
  <1> DEFINE n == Head(gsQueue)
             deep == gsRing[n] >= gsAsked.depth
  <1>1. /\ gsAsked.kind = "blast" /\ GsBlastInv /\ GsAskedInv /\ gsQueue # <<>>
        /\ gsQueue' = Tail(gsQueue)
        /\ gsAt' = IF deep THEN <<>> ELSE <<n>>
        /\ gsLeft' = IF deep THEN {} ELSE GsEdgesAt(n)
        /\ UNCHANGED <<gsGraph, gsAsked, gsRing, gsFound, gsTouched>>
    BY DEF GsTake, GsInv
  <1>2. n \in DOMAIN gsRing /\ Tail(gsQueue) \in Seq(DOMAIN gsRing)
    BY <1>1 DEF GsBlastInv
  <1>3. gsRing[n] \in Nat /\ gsAsked.depth \in Nat
    BY <1>1, <1>2 DEF GsBlastInv, GsAskedInv
  <1>4. \A m : GsEdgesAt(m)' = GsEdgesAt(m)
    BY <1>1 DEF GsEdgesAt
  <1>5. GsAskedInv'
    BY <1>1 DEF GsAskedInv, GsAll
  <1>6. GsBlastInv'
    <2>1. CASE deep
      BY <1>1, <1>2, <2>1 DEF GsBlastInv
    <2>2. CASE ~deep
      <3>1. gsAt' = <<n>> /\ gsAt'[1] = n /\ gsLeft' = GsEdgesAt(n)
        BY <1>1, <2>2
      <3> QED
        BY <1>1, <1>2, <1>3, <1>4, <2>2, <3>1 DEF GsBlastInv
    <2> QED
      BY <2>1, <2>2
  <1> QED
    BY <1>1, <1>5, <1>6 DEF GsInv

LEMMA GsTouchKeeps == ASSUME GsInv, NEW e \in gsLeft, GsTouch(e) PROVE GsInv'
  <1> DEFINE at == gsAt[1]
             n == GsOther(e, at)
             known == n \in DOMAIN gsRing
             full == ~known /\ Cardinality(DOMAIN gsRing) >= GsHardCap
             depth == gsRing[at] + 1
             goes == ~known /\ ~full /\ GsGoesOn(Cardinality(DOMAIN gsRing'))
  <1>1. /\ gsAsked.kind = "blast" /\ GsBlastInv /\ GsAskedInv /\ gsAt # <<>>
        /\ gsTouched' = IF full THEN gsTouched ELSE gsTouched \cup {e}
        /\ gsRing' = IF full THEN gsRing
                     ELSE [x \in DOMAIN gsRing \cup {n} |->
                              IF x # n THEN gsRing[x]
                              ELSE IF known /\ gsRing[n] <= depth THEN gsRing[n] ELSE depth]
        /\ gsQueue' = IF goes THEN Append(gsQueue, n) ELSE gsQueue
        /\ gsLeft' = IF full THEN {} ELSE gsLeft \ {e}
        /\ gsAt' = IF gsLeft' = {} THEN <<>> ELSE gsAt
        /\ UNCHANGED <<gsGraph, gsAsked>>
    BY DEF GsTouch, GsInv
  <1>2. /\ at \in DOMAIN gsRing /\ gsAt = <<at>> /\ e \in GsEdgesAt(at)
        /\ gsRing[at] \in Nat /\ gsRing[at] < gsAsked.depth /\ gsAsked.depth \in Nat
    BY <1>1 DEF GsBlastInv, GsAskedInv
  <1>3. {e.from, e.to} = {at, n}
    BY <1>2, GsOtherEnd
  <1>4. (\A m : GsEdgesAt(m)' = GsEdgesAt(m)) /\ GsAskedInv'
    BY <1>1 DEF GsEdgesAt, GsAskedInv, GsAll
  <1>5. CASE full
    <2>1. gsAt' = <<>> /\ gsLeft' = {} /\ gsRing' = gsRing /\ gsTouched' = gsTouched /\ gsQueue' = gsQueue
      BY <1>1, <1>5
    <2> QED
      BY <1>1, <1>4, <2>1 DEF GsInv, GsBlastInv
  <1>6. CASE ~full
    <2>1. /\ DOMAIN gsRing' = DOMAIN gsRing \cup {n}
          /\ \A x \in DOMAIN gsRing' : x # n => gsRing'[x] = gsRing[x]
          /\ gsRing'[n] = IF known /\ gsRing[n] <= depth THEN gsRing[n] ELSE depth
      BY <1>1, <1>6
    <2>2. \A x \in DOMAIN gsRing' : gsRing'[x] \in 0 .. gsAsked.depth
      BY <1>1, <1>2, <2>1 DEF GsBlastInv
    <2>3. gsRing'[at] < gsAsked.depth
      BY <1>1, <1>2, <2>1 DEF GsBlastInv
    <2>4. IsFiniteSet(DOMAIN gsRing') /\ Cardinality(DOMAIN gsRing') <= GsHardCap
      <3>1. CASE known
        BY <1>1, <2>1, <3>1 DEF GsBlastInv
      <3>2. CASE ~known
        <4>1. IsFiniteSet(DOMAIN gsRing) /\ Cardinality(DOMAIN gsRing) \in Nat
          BY <1>1, FS_CardinalityType DEF GsBlastInv
        <4>2. /\ IsFiniteSet(DOMAIN gsRing \cup {n})
              /\ Cardinality(DOMAIN gsRing \cup {n}) = Cardinality(DOMAIN gsRing) + 1
          BY <3>2, <4>1, FS_AddElement
        <4>3. GsHardCap \in Nat /\ ~(Cardinality(DOMAIN gsRing) >= GsHardCap)
          BY <1>6, <3>2, GsAssumption
        <4> QED
          BY <2>1, <4>1, <4>2, <4>3
      <3> QED
        BY <3>1, <3>2
    <2>5. gsQueue' \in Seq(DOMAIN gsRing')
      <3>1. gsQueue \in Seq(DOMAIN gsRing') /\ n \in DOMAIN gsRing'
        BY <1>1, <2>1 DEF GsBlastInv
      <3>2. gsQueue' = Append(gsQueue, n) \/ gsQueue' = gsQueue
        BY <1>1
      <3> HIDE DEF n, goes
      <3> QED
        BY <3>1, <3>2
    <2>6. /\ gsAt' \in {<<>>} \cup {<<m>> : m \in DOMAIN gsRing'}
          /\ gsAt' = <<>> => gsLeft' = {}
          /\ gsAt' # <<>> => gsAt'[1] = at /\ gsLeft' \subseteq GsEdgesAt(at)
      <3>1. gsLeft \subseteq GsEdgesAt(at)
        BY <1>1 DEF GsBlastInv
      <3>2. gsLeft' = gsLeft \ {e} /\ gsAt' = IF gsLeft' = {} THEN <<>> ELSE <<at>>
        BY <1>1, <1>2, <1>6
      <3>3. at \in DOMAIN gsRing'
        BY <1>2, <2>1
      <3> HIDE DEF at, n, known, full, depth, goes
      <3> QED
        BY <3>1, <3>2, <3>3
    <2>7. \A f \in gsTouched' : {f.from, f.to} \subseteq DOMAIN gsRing'
      <3>1. gsTouched' = gsTouched \cup {e} /\ {e.from, e.to} \subseteq DOMAIN gsRing'
        BY <1>1, <1>2, <1>3, <1>6, <2>1
      <3>2. \A f \in gsTouched : {f.from, f.to} \subseteq DOMAIN gsRing
        BY <1>1 DEF GsBlastInv
      <3>3. DOMAIN gsRing \subseteq DOMAIN gsRing'
        BY <2>1
      <3> HIDE DEF at, n, known, full, depth, goes
      <3> QED
        BY <3>1, <3>2, <3>3
    <2> HIDE DEF at, n, known, full, depth, goes
    <2>8. GsBlastInv'
      BY <1>1, <1>4, <2>2, <2>3, <2>4, <2>5, <2>6, <2>7 DEF GsBlastInv
    <2> QED
      BY <1>1, <1>4, <2>8 DEF GsInv
  <1> QED
    BY <1>5, <1>6

-----------------------------------------------------------------------------
LEMMA GsReturnKeeps == ASSUME GsInv, GsReturn \/ UNCHANGED gsVars PROVE GsInv'
  <1>1. UNCHANGED <<gsGraph, gsAsked, gsQueue, gsAt, gsLeft, gsRing, gsFound, gsTouched>>
    BY DEF GsReturn, gsVars
  <1>2. /\ \A p : GsWalk(p)' <=> GsWalk(p)
        /\ GsAll' = GsAll /\ \A n : GsEdgesAt(n)' = GsEdgesAt(n)
    BY <1>1 DEF GsWalk, GsAll, GsEdgesAt
  <1>3. GsAskedInv'
    BY <1>1, <1>2 DEF GsInv, GsAskedInv
  <1>4. GsPathsInv => GsPathsInv'
    BY <1>1, <1>2 DEF GsPathsInv
  <1>5. GsBlastInv => GsBlastInv'
    BY <1>1, <1>2 DEF GsBlastInv
  <1> QED
    BY <1>1, <1>3, <1>4, <1>5 DEF GsInv

LEMMA GsAlwaysInv == GsSpec => []GsInv
  <1>1. GsInv /\ [GsNext]_gsVars => GsInv'
    BY GsPopKeeps, GsHopKeeps, GsTakeKeeps, GsTouchKeeps, GsReturnKeeps DEF GsNext
  <1> QED
    BY <1>1, GsInitInv, PTL DEF GsSpec

(* find_attack_paths: every path answered is a walk over observed edges from   *)
(* the source to the target, without a node twice and as deep as asked.        *)
THEOREM PathsWalk == GsSpec => []GsPathsWalk
  <1>1. GsInv => GsPathsWalk
    BY DEF GsInv, GsPathsInv, GsPathsWalk
  <1> QED
    BY <1>1, GsAlwaysInv, PTL

(* blast_radius: whatever the graph, the answer keeps to the depth and to the  *)
(* hard cap, and its edges run between its nodes.                              *)
THEOREM BlastBounded == GsSpec => []GsBlastBounded
  <1>1. GsInv => GsBlastBounded
    BY DEF GsInv, GsBlastInv, GsBlastBounded
  <1> QED
    BY <1>1, GsAlwaysInv, PTL

-----------------------------------------------------------------------------
(* Distances.  The balls around the source grow by one step at a time.         *)
LEMMA GsBeyondNodes ==
    ASSUME NEW B \in SUBSET GsAll
    PROVE  GsBeyond(B) \in SUBSET GsAll /\ B \subseteq GsBeyond(B)
  BY DEF GsBeyond, GsOther, GsObserved, GsAll, GsNodes

LEMMA GsBallStep ==
    ASSUME gsAsked.from \in GsAll
    PROVE  /\ GsBall(0) = {gsAsked.from}
           /\ \A d \in Nat : GsBall(d) \in SUBSET GsAll /\ GsBall(d + 1) = GsBeyond(GsBall(d))
  <1> DEFINE X == SUBSET GsAll
             step == [B \in X |-> GsBeyond(B)]
             ball == CHOOSE f : f = [k \in Nat |-> IF k = 0 THEN {gsAsked.from} ELSE GsBeyond(f[k - 1])]
  <1>1. step \in [X -> X] /\ {gsAsked.from} \in X
    BY GsBeyondNodes
  <1>2. PICK f : f \in [Nat -> X] /\ f[0] = {gsAsked.from} /\ \A n \in Nat : f[n + 1] = step[f[n]]
    <2> HIDE DEF X, step
    <2>1. \E f : Iterates(f, X, step, {gsAsked.from})
      BY <1>1, NatIterates
    <2> QED
      BY <2>1 DEF Iterates
  <1>3. \A n \in Nat : f[n + 1] = GsBeyond(f[n])
    BY <1>2
  <1>4. f = [k \in Nat |-> IF k = 0 THEN {gsAsked.from} ELSE GsBeyond(f[k - 1])]
    <2>1. ASSUME NEW k \in Nat PROVE f[k] = IF k = 0 THEN {gsAsked.from} ELSE GsBeyond(f[k - 1])
      <3>1. CASE k = 0
        BY <1>2, <3>1
      <3>2. CASE k # 0
        <4>1. k - 1 \in Nat /\ (k - 1) + 1 = k
          BY <3>2
        <4> QED
          BY <1>3, <3>2, <4>1
      <3> QED
        BY <3>1, <3>2
    <2> QED
      BY <1>2, <2>1
  <1>5. ball = [k \in Nat |-> IF k = 0 THEN {gsAsked.from} ELSE GsBeyond(ball[k - 1])]
    BY <1>4
  <1>6. \A d : GsBall(d) = ball[d]
    BY DEF GsBall
  <1> HIDE DEF ball
  <1>7. GsBall(0) = {gsAsked.from}
    BY <1>5, <1>6
  <1>8. ASSUME NEW d \in Nat PROVE GsBall(d + 1) = GsBeyond(GsBall(d))
    <2>1. d + 1 \in Nat /\ d + 1 # 0 /\ (d + 1) - 1 = d
      OBVIOUS
    <2> QED
      BY <1>5, <1>6, <2>1
  <1>9. \A d \in Nat : GsBall(d) \in SUBSET GsAll
    <2> DEFINE N == {d \in Nat : GsBall(d) \in SUBSET GsAll}
    <2>1. 0 \in N
      BY <1>7
    <2>2. ASSUME NEW d \in N PROVE d + 1 \in N
      BY <1>8, GsBeyondNodes
    <2>3. N \in SUBSET Nat
      OBVIOUS
    <2>4. N = Nat
      <3> HIDE DEF N
      <3> QED
        BY <2>1, <2>2, <2>3, NatAll
    <2> QED
      BY <2>4
  <1> QED
    BY <1>7, <1>8, <1>9

(* One more step: the other ends of the edges at what was reached.             *)
LEMMA GsBallNext ==
    ASSUME gsAsked.from \in GsAll, NEW d \in Nat
    PROVE  /\ GsBall(d) \subseteq GsBall(d + 1)
           /\ \A n \in GsBall(d) \ {gsAsked.to} : \A e \in GsEdgesAt(n) : GsOther(e, n) \in GsBall(d + 1)
           /\ \A m \in GsBall(d + 1) \ GsBall(d) :
                 \E n \in GsBall(d) \ {gsAsked.to} : \E e \in GsEdgesAt(n) : GsOther(e, n) = m
  <1>1. GsBall(d) \in SUBSET GsAll /\ GsBall(d + 1) = GsBeyond(GsBall(d))
    BY GsBallStep
  <1>2. PICK B : B = GsBall(d)
    OBVIOUS
  <1>3. ASSUME NEW n \in B \ {gsAsked.to}, NEW e \in GsEdgesAt(n) PROVE GsOther(e, n) \in GsBeyond(B)
    <2>1. <<e, n>> \in {x \in GsObserved(gsGraph) \X (B \ {gsAsked.to}) : x[2] \in {x[1].from, x[1].to}}
      BY DEF GsEdgesAt
    <2> QED
      BY <2>1 DEF GsBeyond
  <1>4. ASSUME NEW m \in GsBeyond(B) \ B
        PROVE  \E n \in B \ {gsAsked.to} : \E e \in GsEdgesAt(n) : GsOther(e, n) = m
    <2>1. PICK x \in GsObserved(gsGraph) \X (B \ {gsAsked.to}) :
                  x[2] \in {x[1].from, x[1].to} /\ m = GsOther(x[1], x[2])
      BY DEF GsBeyond
    <2> QED
      BY <2>1 DEF GsEdgesAt
  <1> QED
    BY <1>1, <1>2, <1>3, <1>4, GsBeyondNodes

LEMMA GsBallGrows ==
    ASSUME gsAsked.from \in GsAll, NEW c \in Nat, NEW d \in Nat, c <= d
    PROVE  GsBall(c) \subseteq GsBall(d)
  <1> DEFINE N == {k \in Nat : GsBall(c) \subseteq GsBall(c + k)}
  <1>1. 0 \in N
    OBVIOUS
  <1>2. ASSUME NEW k \in N PROVE k + 1 \in N
    <2>1. c + k \in Nat /\ c + (k + 1) = (c + k) + 1
      OBVIOUS
    <2>2. GsBall(c + k) \subseteq GsBall((c + k) + 1)
      BY <2>1, GsBallNext
    <2> QED
      BY <2>1, <2>2
  <1>3. N \in SUBSET Nat
    OBVIOUS
  <1>4. N = Nat
    <2> HIDE DEF N
    <2> QED
      BY <1>1, <1>2, <1>3, NatAll
  <1>5. d - c \in Nat /\ c + (d - c) = d
    OBVIOUS
  <1>6. d - c \in N
    BY <1>4, <1>5
  <1> QED
    BY <1>5, <1>6

(* The ring of a node: the first ball it is in.                                *)
GsAtRing(n, k) == k \in Nat /\ n \in GsBall(k) /\ \A j \in 0 .. k - 1 : n \notin GsBall(j)

LEMMA GsRingIsDistance ==
    ASSUME NEW n, NEW k \in 0 .. GsMaxDepth, GsAtRing(n, k)
    PROVE  GsDistance(n) = k
  <1>0. GsMaxDepth \in Nat
    BY GsAssumption
  <1> DEFINE S == {d \in 0 .. GsMaxDepth : n \in GsBall(d)}
  <1>1. S \in SUBSET Nat /\ k \in S
    BY <1>0 DEF GsAtRing
  <1>2. Min(S) \in S /\ \A j \in S : Min(S) <= j
    BY <1>1, NatMin
  <1>3. ~(Min(S) < k)
    BY <1>0, <1>1, <1>2 DEF GsAtRing
  <1>4. Min(S) <= k /\ Min(S) \in Nat
    BY <1>1, <1>2
  <1>5. Min(S) = k
    BY <1>0, <1>3, <1>4
  <1> QED
    BY <1>5 DEF GsDistance

LEMMA GsRingLeast ==
    ASSUME NEW n, NEW k, GsAtRing(n, k), NEW d \in Nat, n \in GsBall(d)
    PROVE  k <= d
  BY DEF GsAtRing

(* A set with the source, and closed under the steps out of each ball, has     *)
(* the whole of the next.                                                      *)
GsClosed(R, k) ==
    GsBall(k) \subseteq R =>
        \A n \in GsBall(k) \ {gsAsked.to} : \A e \in GsEdgesAt(n) : GsOther(e, n) \in R

LEMMA GsBallWithin ==
    ASSUME gsAsked.from \in GsAll, NEW R, gsAsked.from \in R, NEW d \in Nat,
           \A k \in 0 .. d - 1 : GsClosed(R, k)
    PROVE  GsBall(d) \subseteq R
  <1> DEFINE N == {k \in Nat : k <= d => GsBall(k) \subseteq R}
  <1>1. 0 \in N
    BY GsBallStep
  <1>2. ASSUME NEW k \in N PROVE k + 1 \in N
    <2>0. k \in Nat /\ (k + 1 <= d => k \in 0 .. d - 1 /\ GsBall(k) \subseteq R)
      OBVIOUS
    <2>1. ASSUME k + 1 <= d PROVE GsBall(k + 1) \subseteq R
      <3>1. GsBall(k) \subseteq R /\ GsClosed(R, k)
        BY <2>0, <2>1
      <3>2. \A m \in GsBall(k + 1) \ GsBall(k) :
                \E n \in GsBall(k) \ {gsAsked.to} : \E e \in GsEdgesAt(n) : GsOther(e, n) = m
        BY <2>0, GsBallNext
      <3> QED
        BY <3>1, <3>2 DEF GsClosed
    <2> QED
      BY <2>0, <2>1
  <1>3. N \in SUBSET Nat
    OBVIOUS
  <1>4. N = Nat
    <2> HIDE DEF N
    <2> QED
      BY <1>1, <1>2, <1>3, NatAll
  <1>5. d \in N
    BY <1>4
  <1> QED
    BY <1>5

-----------------------------------------------------------------------------
(* The blast radius, ring by ring.                                             *)
GsAskedFully == gsGraph \in GsGraphs /\ gsAsked \in GsRequests(gsGraph)

GsRings == \A n \in DOMAIN gsRing : GsAtRing(n, gsRing[n]) /\ gsRing[n] <= gsAsked.depth

(* The queue is in the order of the rings and holds two of them at most.       *)
GsBlastOrder ==
    /\ \A i, j \in DOMAIN gsQueue :
          i <= j => /\ gsRing[gsQueue[i]] <= gsRing[gsQueue[j]]
                    /\ gsRing[gsQueue[j]] <= gsRing[gsQueue[i]] + 1
    /\ gsAt # <<>> => \A j \in DOMAIN gsQueue :
          /\ gsRing[gsAt[1]] <= gsRing[gsQueue[j]]
          /\ gsRing[gsQueue[j]] <= gsRing[gsAt[1]] + 1

GsQueued(n) == \E i \in DOMAIN gsQueue : gsQueue[i] = n
GsAllTouched(n) == GsEdgesAt(n) \subseteq gsTouched
GsAtHand(n) == gsAt = <<n>> /\ GsEdgesAt(n) \subseteq gsTouched \cup gsLeft

(* A node left out at the node cap: no nearer to the source than what is still *)
(* to be expanded.                                                             *)
GsLate(n) ==
    /\ Cardinality(DOMAIN gsRing) >= GsNodeCap
    /\ \A i \in DOMAIN gsQueue : gsRing[gsQueue[i]] <= gsRing[n]
    /\ gsAt # <<>> => gsRing[gsAt[1]] <= gsRing[n]

(* Until the hard cap, no node that was found is forgotten.                    *)
GsBlastCover ==
    Cardinality(DOMAIN gsRing) < GsHardCap =>
        \A n \in DOMAIN gsRing :
            GsAllTouched(n) \/ GsQueued(n) \/ GsAtHand(n) \/ GsLate(n) \/ gsRing[n] = gsAsked.depth

GsBlastFar ==
    /\ gsAsked.from \in DOMAIN gsRing
    /\ GsRings /\ GsBlastOrder /\ GsBlastCover
    /\ gsCut => Cardinality(DOMAIN gsRing) >= GsHardCap
    /\ \A e \in gsTouched : \E n \in DOMAIN gsRing : gsRing[n] < gsAsked.depth /\ e \in GsEdgesAt(n)
    /\ (gsDone /\ gsAsked.from \in GsKnown) => gsAt = <<>> /\ gsQueue = <<>>

GsBlastAll == GsAskedFully /\ GsInv /\ (gsAsked.kind = "blast" => GsBlastFar)

LEMMA GsBlastFields ==
    ASSUME GsAskedFully
    PROVE  /\ gsAsked.depth \in 1 .. GsMaxDepth /\ GsMaxDepth \in Nat
           /\ gsAsked.from \in GsAll
           /\ gsAsked.kind = "blast" => gsAsked.to \notin GsAll
           /\ gsAsked.kind = "paths" => gsAsked.to \in GsAll
  BY GsAssumption DEF GsAskedFully, GsRequests, GsAll

LEMMA GsCaps ==
    /\ GsNodeCap \in Nat /\ GsHardCap \in Nat /\ GsNodeCap <= GsHardCap
    /\ GsPathCap \in Nat /\ GsPathCap >= 1 /\ GsMaxPaths \in Nat /\ GsMaxPaths >= 1
  BY GsAssumption

(* The node being expanded: every ball up to its own ring has been found.      *)
LEMMA GsAtBall ==
    ASSUME GsBlastAll, gsAsked.kind = "blast", gsAt # <<>>, Cardinality(DOMAIN gsRing) < GsHardCap
    PROVE  GsBall(gsRing[gsAt[1]]) \subseteq DOMAIN gsRing
  <1> DEFINE R == DOMAIN gsRing
             r == gsRing[gsAt[1]]
  <1>1. GsBlastFar /\ GsBlastInv /\ GsAskedInv
    BY DEF GsBlastAll, GsInv
  <1>2. gsAt[1] \in R /\ r \in Nat /\ gsAsked.from \in GsAll /\ gsAsked.from \in R
        /\ r < gsAsked.depth /\ gsAsked.depth \in Nat
    BY <1>1, GsBlastFields DEF GsBlastFar, GsBlastInv, GsBlastAll
  <1>3. ASSUME NEW k \in 0 .. r - 1 PROVE GsClosed(R, k)
    <2> SUFFICES ASSUME NEW n \in R, n \in GsBall(k), NEW e \in GsEdgesAt(n) PROVE GsOther(e, n) \in R
      BY DEF GsClosed
    <2>1. gsRing[n] <= k /\ gsRing[n] \in Nat /\ k \in Nat /\ k < r
      BY <1>1, <1>2, GsRingLeast DEF GsBlastFar, GsRings, GsAtRing
    <2>2. ~GsQueued(n) /\ ~GsAtHand(n) /\ ~GsLate(n) /\ gsRing[n] # gsAsked.depth
      BY <1>1, <1>2, <2>1 DEF GsBlastFar, GsBlastOrder, GsQueued, GsAtHand, GsLate
    <2>3. e \in gsTouched
      BY <1>1, <2>2 DEF GsBlastFar, GsBlastCover, GsAllTouched
    <2> QED
      BY <1>1, <2>3 DEF GsBlastInv, GsOther
  <1> HIDE DEF r, R
  <1> QED
    BY <1>2, <1>3, GsBallWithin DEF r, R

(* Distances depend on the graph and the request only.                         *)
LEMMA GsSameDistances ==
    ASSUME UNCHANGED <<gsGraph, gsAsked>>
    PROVE  /\ \A d : GsBall(d)' = GsBall(d)
           /\ \A n, k : GsAtRing(n, k)' <=> GsAtRing(n, k)
           /\ \A n : GsEdgesAt(n)' = GsEdgesAt(n)
           /\ GsKnown' = GsKnown /\ GsAll' = GsAll
           /\ GsAskedFully => GsAskedFully'
  <1>1. \A B : GsBeyond(B)' = GsBeyond(B)
    BY DEF GsBeyond, GsObserved
  <1>2. \A d : GsBall(d)' = GsBall(d)
    BY <1>1 DEF GsBall
  <1>3. \A n, k : GsAtRing(n, k)' <=> GsAtRing(n, k)
    BY <1>2 DEF GsAtRing
  <1> QED
    BY <1>2, <1>3 DEF GsEdgesAt, GsKnown, GsAll, GsAskedFully

LEMMA GsTakeFar ==
    ASSUME GsBlastAll, GsTake
    PROVE  GsBlastFar'
  <1> DEFINE n == Head(gsQueue)
             deep == gsRing[n] >= gsAsked.depth
  <1>1. /\ gsAsked.kind = "blast" /\ GsBlastInv /\ GsBlastFar /\ gsQueue # <<>> /\ gsAt = <<>> /\ ~gsDone
        /\ gsQueue' = Tail(gsQueue)
        /\ gsAt' = IF deep THEN <<>> ELSE <<n>>
        /\ gsLeft' = IF deep THEN {} ELSE GsEdgesAt(n)
        /\ UNCHANGED <<gsGraph, gsAsked, gsRing, gsTouched, gsCut, gsDone>>
    BY DEF GsTake, GsIdle, GsBlastAll, GsInv
  <1>2. /\ gsQueue \in Seq(DOMAIN gsRing) /\ 1 \in DOMAIN gsQueue /\ gsQueue[1] = n /\ n \in DOMAIN gsRing
        /\ \A j \in DOMAIN gsQueue' : /\ gsQueue'[j] = gsQueue[j + 1] /\ j + 1 \in DOMAIN gsQueue
                                      /\ j \in Nat /\ j >= 1
    BY <1>1 DEF GsBlastInv
  <1>3. \A x \in DOMAIN gsRing : gsRing[x] \in Nat
    BY <1>1 DEF GsBlastInv
  <1>4. gsAsked.depth \in Nat
    BY GsBlastFields DEF GsBlastAll
  <1>5. \A m : GsEdgesAt(m)' = GsEdgesAt(m)
    BY <1>1, GsSameDistances
  <1> HIDE DEF n, deep
  <1>6. GsBlastOrder'
    <2>1. \A i, j \in DOMAIN gsQueue' :
            i <= j => /\ gsRing[gsQueue'[i]] <= gsRing[gsQueue'[j]]
                      /\ gsRing[gsQueue'[j]] <= gsRing[gsQueue'[i]] + 1
      BY <1>1, <1>2 DEF GsBlastFar, GsBlastOrder
    <2>2. \A j \in DOMAIN gsQueue' : /\ gsRing[n] <= gsRing[gsQueue'[j]]
                                     /\ gsRing[gsQueue'[j]] <= gsRing[n] + 1
      <3> SUFFICES ASSUME NEW j \in DOMAIN gsQueue'
                   PROVE  /\ gsRing[n] <= gsRing[gsQueue'[j]]
                          /\ gsRing[gsQueue'[j]] <= gsRing[n] + 1
        OBVIOUS
      <3>1. 1 \in DOMAIN gsQueue /\ j + 1 \in DOMAIN gsQueue /\ 1 <= j + 1
        BY <1>2
      <3>2. gsRing[gsQueue[1]] <= gsRing[gsQueue[j + 1]] /\ gsRing[gsQueue[j + 1]] <= gsRing[gsQueue[1]] + 1
        BY <1>1, <3>1 DEF GsBlastFar, GsBlastOrder
      <3> QED
        BY <1>2, <3>2
    <2>3. gsAt' # <<>> => gsAt'[1] = n
      BY <1>1
    <2> QED
      BY <1>1, <2>1, <2>2, <2>3 DEF GsBlastOrder
  <1>7. ASSUME Cardinality(DOMAIN gsRing) < GsHardCap, NEW x \in DOMAIN gsRing
        PROVE  \/ GsAllTouched(x)' \/ GsQueued(x)' \/ GsAtHand(x)' \/ GsLate(x)' \/ gsRing[x] = gsAsked.depth
    <2>1. CASE GsAllTouched(x)
      BY <1>1, <1>5, <2>1 DEF GsAllTouched
    <2>2. CASE GsQueued(x)
      <3>1. PICK i \in DOMAIN gsQueue : gsQueue[i] = x
        BY <2>2 DEF GsQueued
      <3>2. CASE i = 1
        <4>1. x = n
          BY <1>2, <3>1, <3>2
        <4>2. CASE deep
          <5>1. gsRing[x] >= gsAsked.depth /\ gsRing[x] <= gsAsked.depth
            BY <1>1, <4>1, <4>2 DEF deep, GsBlastFar, GsRings
          <5> QED
            BY <1>3, <1>4, <5>1
        <4>3. CASE ~deep
          BY <1>1, <1>5, <4>1, <4>3 DEF GsAtHand
        <4> QED
          BY <4>2, <4>3
      <3>3. CASE i # 1
        <4>1. i - 1 \in DOMAIN gsQueue' /\ gsQueue'[i - 1] = x
          BY <1>1, <1>2, <3>1, <3>3
        <4> QED
          BY <4>1 DEF GsQueued
      <3> QED
        BY <3>2, <3>3
    <2>3. CASE GsAtHand(x)
      BY <1>1, <2>3 DEF GsAtHand
    <2>4. CASE GsLate(x)
      <3>1. \A j \in DOMAIN gsQueue' : gsRing[gsQueue'[j]] <= gsRing[x]
        BY <1>2, <2>4 DEF GsLate
      <3>2. gsRing[n] <= gsRing[x] /\ (gsAt' # <<>> => gsAt'[1] = n)
        BY <1>1, <1>2, <2>4 DEF GsLate
      <3> QED
        BY <1>1, <2>4, <3>1, <3>2 DEF GsLate
    <2> QED
      BY <1>1, <1>7, <2>1, <2>2, <2>3, <2>4 DEF GsBlastFar, GsBlastCover
  <1>8. GsBlastCover'
    BY <1>1, <1>7 DEF GsBlastCover
  <1>9. GsRings'
    BY <1>1, GsSameDistances DEF GsBlastFar, GsRings
  <1> QED
    BY <1>1, <1>5, <1>6, <1>8, <1>9 DEF GsBlastFar

(* The step to another node, in the three cases the code tells apart: the hard *)
(* cap is reached, the node is known, or it is new.                            *)
GsTouchRefused ==
    /\ Cardinality(DOMAIN gsRing) >= GsHardCap
    /\ UNCHANGED <<gsTouched, gsRing, gsQueue>> /\ gsLeft' = {}

GsTouchKnown(e, n) ==
    /\ n \in DOMAIN gsRing /\ DOMAIN gsRing' = DOMAIN gsRing
    /\ \A x \in DOMAIN gsRing : gsRing'[x] = gsRing[x]
    /\ gsTouched' = gsTouched \cup {e} /\ gsLeft' = gsLeft \ {e}
    /\ gsQueue' = gsQueue /\ (gsCut' => gsCut)

GsTouchNew(e, at, n) ==
    /\ n \notin DOMAIN gsRing /\ DOMAIN gsRing' = DOMAIN gsRing \cup {n}
    /\ Cardinality(DOMAIN gsRing) < GsHardCap
    /\ Cardinality(DOMAIN gsRing) \in Nat
    /\ Cardinality(DOMAIN gsRing') = Cardinality(DOMAIN gsRing) + 1
    /\ \A x \in DOMAIN gsRing : gsRing'[x] = gsRing[x]
    /\ gsRing'[n] = gsRing[at] + 1
    /\ gsTouched' = gsTouched \cup {e} /\ gsLeft' = gsLeft \ {e}
    /\ gsQueue' = IF Cardinality(DOMAIN gsRing') < GsNodeCap THEN Append(gsQueue, n) ELSE gsQueue
    /\ gsCut' => gsCut

LEMMA GsTouchEffect ==
    ASSUME GsBlastAll, NEW e \in gsLeft, GsTouch(e), NEW at, at = gsAt[1], NEW n, n = GsOther(e, at)
    PROVE  /\ gsAsked.kind = "blast" /\ gsAt = <<at>> /\ gsAt # <<>> /\ at \in DOMAIN gsRing
           /\ e \in GsEdgesAt(at) /\ gsRing[at] \in Nat /\ gsRing[at] < gsAsked.depth
           /\ n \in GsBall(gsRing[at] + 1)
           /\ UNCHANGED <<gsGraph, gsAsked, gsDone>>
           /\ gsAt' = IF gsLeft' = {} THEN <<>> ELSE gsAt
           /\ GsTouchRefused \/ GsTouchKnown(e, n) \/ GsTouchNew(e, at, n)
  <1> DEFINE known == n \in DOMAIN gsRing
             full == ~known /\ Cardinality(DOMAIN gsRing) >= GsHardCap
             depth == gsRing[at] + 1
  <1>1. /\ gsAsked.kind = "blast" /\ GsBlastInv /\ GsBlastFar /\ GsAskedInv /\ gsAt # <<>>
        /\ gsCut' = (gsCut \/ full)
        /\ gsTouched' = IF full THEN gsTouched ELSE gsTouched \cup {e}
        /\ gsRing' = IF full THEN gsRing
                     ELSE [x \in DOMAIN gsRing \cup {n} |->
                              IF x # n THEN gsRing[x]
                              ELSE IF known /\ gsRing[n] <= depth THEN gsRing[n] ELSE depth]
        /\ gsQueue' = IF ~known /\ ~full /\ GsGoesOn(Cardinality(DOMAIN gsRing'))
                      THEN Append(gsQueue, n) ELSE gsQueue
        /\ gsLeft' = IF full THEN {} ELSE gsLeft \ {e}
        /\ gsAt' = IF gsLeft' = {} THEN <<>> ELSE gsAt
        /\ UNCHANGED <<gsGraph, gsAsked, gsDone>>
    BY DEF GsTouch, GsBlastAll, GsInv
  <1>2. /\ at \in DOMAIN gsRing /\ gsAt = <<at>> /\ e \in GsEdgesAt(at)
        /\ gsRing[at] \in Nat /\ gsRing[at] < gsAsked.depth
    BY <1>1 DEF GsBlastInv
  <1>3. n \in GsBall(gsRing[at] + 1)
    <2>1. at \in GsBall(gsRing[at])
      BY <1>1, <1>2 DEF GsBlastFar, GsRings, GsAtRing
    <2>2. gsAsked.from \in GsAll /\ gsAsked.to \notin GsAll
      BY <1>1, GsBlastFields DEF GsBlastAll
    <2>3. at # gsAsked.to
      BY <1>2, <2>1, <2>2, GsBallStep
    <2> QED
      BY <1>2, <2>1, <2>2, <2>3, GsBallNext
  <1>4. known => gsRing[n] <= depth
    BY <1>1, <1>2, <1>3, GsRingLeast DEF GsBlastFar, GsRings
  <1>5. /\ IsFiniteSet(DOMAIN gsRing) /\ Cardinality(DOMAIN gsRing) \in Nat
        /\ ~known => Cardinality(DOMAIN gsRing \cup {n}) = Cardinality(DOMAIN gsRing) + 1
    BY <1>1, FS_CardinalityType, FS_AddElement DEF GsBlastInv
  <1> HIDE DEF depth
  <1>6. CASE full
    BY <1>1, <1>2, <1>3, <1>6 DEF GsTouchRefused
  <1>7. CASE known
    <2>1. /\ DOMAIN gsRing' = DOMAIN gsRing \cup {n}
          /\ \A x \in DOMAIN gsRing : gsRing'[x] = gsRing[x]
      BY <1>1, <1>4, <1>7
    <2>2. gsQueue' = gsQueue /\ gsTouched' = gsTouched \cup {e} /\ gsLeft' = gsLeft \ {e}
      BY <1>1, <1>7
    <2>3. gsCut' => gsCut
      BY <1>1, <1>7, Zenon
    <2> QED
      BY <1>1, <1>2, <1>3, <1>7, <2>1, <2>2, <2>3 DEF GsTouchKnown
  <1>8. CASE ~known /\ ~full
    <2>1. /\ DOMAIN gsRing' = DOMAIN gsRing \cup {n} /\ gsRing'[n] = depth
          /\ \A x \in DOMAIN gsRing : gsRing'[x] = gsRing[x]
      BY <1>1, <1>8
    <2>2. Cardinality(DOMAIN gsRing) < GsHardCap
      BY <1>5, <1>8, GsCaps
    <2>3. /\ gsTouched' = gsTouched \cup {e} /\ gsLeft' = gsLeft \ {e}
          /\ gsQueue' = IF Cardinality(DOMAIN gsRing') < GsNodeCap THEN Append(gsQueue, n) ELSE gsQueue
      BY <1>1, <1>8 DEF GsGoesOn
    <2>4. gsCut' => gsCut
      BY <1>1, <1>8, Zenon
    <2> QED
      BY <1>1, <1>2, <1>3, <1>5, <1>8, <2>1, <2>2, <2>3, <2>4 DEF depth, GsTouchNew
  <1> QED
    BY <1>6, <1>7, <1>8

LEMMA GsTouchFar ==
    ASSUME GsBlastAll, NEW e \in gsLeft, GsTouch(e)
    PROVE  GsBlastFar'
  <1>0. PICK at, n : at = gsAt[1] /\ n = GsOther(e, at)
    OBVIOUS
  <1>1. /\ gsAsked.kind = "blast" /\ gsAt = <<at>> /\ gsAt # <<>> /\ at \in DOMAIN gsRing
        /\ e \in GsEdgesAt(at) /\ gsRing[at] \in Nat /\ gsRing[at] < gsAsked.depth
        /\ n \in GsBall(gsRing[at] + 1)
        /\ UNCHANGED <<gsGraph, gsAsked, gsDone>>
        /\ gsAt' = IF gsLeft' = {} THEN <<>> ELSE gsAt
    BY <1>0, GsTouchEffect
  <1>2. GsBlastInv /\ GsBlastFar
    BY <1>1 DEF GsBlastAll, GsInv
  <1>3. /\ gsQueue \in Seq(DOMAIN gsRing)
        /\ \A x \in DOMAIN gsRing : gsRing[x] \in Nat
        /\ \A i \in DOMAIN gsQueue : gsQueue[i] \in DOMAIN gsRing
        /\ gsAsked.depth \in Nat
    BY <1>2, GsBlastFields DEF GsBlastInv, GsBlastAll
  <1>4. ~gsDone' \/ gsAsked.from \notin GsKnown
    BY <1>1, <1>2 DEF GsBlastFar
  <1>5. (\A m : GsEdgesAt(m)' = GsEdgesAt(m)) /\ GsKnown' = GsKnown
        /\ \A m, k : GsAtRing(m, k)' <=> GsAtRing(m, k)
    BY <1>1, GsSameDistances
  <1>6. gsAt' = <<at>> \/ (gsAt' = <<>> /\ gsLeft' = {})
    BY <1>1
  (* the hard cap: nothing is added any more *)
  <1>7. ASSUME GsTouchRefused PROVE  GsBlastFar'
    <2>1. GsBlastOrder'
      BY <1>1, <1>2, <1>7 DEF GsTouchRefused, GsBlastFar, GsBlastOrder
    <2>2. GsBlastCover'
      BY <1>2, <1>7, GsCaps, FS_CardinalityType DEF GsTouchRefused, GsBlastInv, GsBlastCover
    <2>3. GsRings'
      BY <1>1, <1>2, <1>5, <1>7 DEF GsTouchRefused, GsBlastFar, GsRings
    <2> QED
      BY <1>1, <1>2, <1>4, <1>5, <1>7, <2>1, <2>2, <2>3 DEF GsTouchRefused, GsBlastFar
  (* a node known already *)
  <1>8. ASSUME GsTouchKnown(e, n) PROVE  GsBlastFar'
    <2>1. GsBlastOrder'
      BY <1>1, <1>2, <1>3, <1>6, <1>8 DEF GsTouchKnown, GsBlastFar, GsBlastOrder
    <2>2. ASSUME NEW x \in DOMAIN gsRing
          PROVE  /\ GsAllTouched(x) => GsAllTouched(x)'
                 /\ GsQueued(x) => GsQueued(x)'
                 /\ GsAtHand(x) => GsAtHand(x)' \/ GsAllTouched(x)'
                 /\ GsLate(x) => GsLate(x)'
      <3>1. GsAllTouched(x) => GsAllTouched(x)'
        BY <1>5, <1>8 DEF GsTouchKnown, GsAllTouched
      <3>2. GsQueued(x) => GsQueued(x)'
        BY <1>8 DEF GsTouchKnown, GsQueued
      <3>3. GsAtHand(x) => GsAtHand(x)' \/ GsAllTouched(x)'
        BY <1>1, <1>5, <1>6, <1>8 DEF GsTouchKnown, GsAtHand, GsAllTouched
      <3>4. GsLate(x) => GsLate(x)'
        BY <1>1, <1>3, <1>6, <1>8 DEF GsTouchKnown, GsLate
      <3> QED
        BY <3>1, <3>2, <3>3, <3>4
    <2>3. GsBlastCover'
      BY <1>1, <1>2, <1>8, <2>2 DEF GsTouchKnown, GsBlastFar, GsBlastCover
    <2>4. GsRings'
      BY <1>1, <1>2, <1>5, <1>8 DEF GsTouchKnown, GsBlastFar, GsRings
    <2>5. \A f \in gsTouched' : \E x \in DOMAIN gsRing' : gsRing'[x] < gsAsked.depth /\ f \in GsEdgesAt(x)
      BY <1>1, <1>2, <1>8 DEF GsTouchKnown, GsBlastFar
    <2> QED
      BY <1>1, <1>2, <1>4, <1>5, <1>8, <2>1, <2>3, <2>4, <2>5 DEF GsTouchKnown, GsBlastFar
  (* a new node *)
  <1>9. ASSUME GsTouchNew(e, at, n) PROVE  GsBlastFar'
    <2>1. GsAtRing(n, gsRing[at] + 1)
      <3>1. GsBall(gsRing[at]) \subseteq DOMAIN gsRing
        BY <1>1, <1>9, GsAtBall DEF GsTouchNew
      <3>2. \A j \in 0 .. gsRing[at] : GsBall(j) \subseteq GsBall(gsRing[at])
        BY <1>1, GsBallGrows, GsBlastFields DEF GsBlastAll
      <3> QED
        BY <1>1, <1>9, <3>1, <3>2 DEF GsTouchNew, GsAtRing
    <2>2. GsRings'
      BY <1>1, <1>2, <1>3, <1>5, <1>9, <2>1 DEF GsTouchNew, GsBlastFar, GsRings
    <2>3. /\ DOMAIN gsQueue \subseteq DOMAIN gsQueue' /\ \A i \in DOMAIN gsQueue : gsQueue'[i] = gsQueue[i]
          /\ \A i \in DOMAIN gsQueue' : \/ i \in DOMAIN gsQueue
                                        \/ gsQueue'[i] = n /\ \A j \in DOMAIN gsQueue : j < i
          /\ DOMAIN gsQueue' \subseteq Nat
          /\ Cardinality(DOMAIN gsRing') < GsNodeCap => \E i \in DOMAIN gsQueue' : gsQueue'[i] = n
          /\ Cardinality(DOMAIN gsRing') >= GsNodeCap => gsQueue' = gsQueue
      <3>1. CASE Cardinality(DOMAIN gsRing') < GsNodeCap
        <4>1. gsQueue' = Append(gsQueue, n)
          BY <1>9, <3>1 DEF GsTouchNew
        <4>2. /\ Len(gsQueue) \in Nat /\ DOMAIN gsQueue = 1 .. Len(gsQueue)
              /\ DOMAIN gsQueue' = 1 .. Len(gsQueue) + 1 /\ gsQueue'[Len(gsQueue) + 1] = n
              /\ \A i \in 1 .. Len(gsQueue) : gsQueue'[i] = gsQueue[i]
          BY <1>3, <4>1
        <4>3. ~(Cardinality(DOMAIN gsRing') >= GsNodeCap)
          BY <1>9, <3>1, GsCaps DEF GsTouchNew
        <4>4. \A i \in DOMAIN gsQueue' : i \in DOMAIN gsQueue \/ i = Len(gsQueue) + 1
          BY <4>2
        <4>5. \A j \in DOMAIN gsQueue : j < Len(gsQueue) + 1
          BY <4>2
        <4> HIDE <4>1
        <4> QED
          BY <3>1, <4>2, <4>3, <4>4, <4>5
      <3>2. CASE ~(Cardinality(DOMAIN gsRing') < GsNodeCap)
        BY <1>3, <1>9, <3>2 DEF GsTouchNew
      <3> QED
        BY <3>1, <3>2
    <2>4. GsBlastOrder'
      <3>1. \A j \in DOMAIN gsQueue : /\ gsRing[at] <= gsRing[gsQueue[j]]
                                      /\ gsRing[gsQueue[j]] <= gsRing[at] + 1
        BY <1>1, <1>2 DEF GsBlastFar, GsBlastOrder
      <3>2. \A j \in DOMAIN gsQueue' : /\ gsRing[at] <= gsRing'[gsQueue'[j]]
                                       /\ gsRing'[gsQueue'[j]] <= gsRing[at] + 1
        BY <1>1, <1>3, <1>9, <2>3, <3>1 DEF GsTouchNew
      <3>3. ASSUME NEW i \in DOMAIN gsQueue', NEW j \in DOMAIN gsQueue', i <= j
            PROVE  /\ gsRing'[gsQueue'[i]] <= gsRing'[gsQueue'[j]]
                   /\ gsRing'[gsQueue'[j]] <= gsRing'[gsQueue'[i]] + 1
        <4>0. i \in Nat /\ j \in Nat
          BY <2>3
        <4>1. CASE j \in DOMAIN gsQueue
          <5>1. i \in DOMAIN gsQueue
            BY <2>3, <3>3, <4>0, <4>1
          <5> QED
            BY <1>2, <1>3, <1>9, <2>3, <3>3, <4>1, <5>1 DEF GsTouchNew, GsBlastFar, GsBlastOrder
        <4>2. CASE j \notin DOMAIN gsQueue
          <5>1. gsRing'[gsQueue'[j]] = gsRing[at] + 1
            BY <1>9, <2>3, <4>2 DEF GsTouchNew
          <5>2. gsRing'[gsQueue'[i]] \in Nat
            BY <1>1, <1>3, <1>9, <2>3 DEF GsTouchNew
          <5> QED
            BY <1>1, <3>2, <5>1, <5>2
        <4> QED
          BY <4>1, <4>2
      <3>4. gsRing'[at] = gsRing[at]
        BY <1>1, <1>9 DEF GsTouchNew
      <3> QED
        BY <1>6, <3>2, <3>3, <3>4 DEF GsBlastOrder
    <2>5. ASSUME NEW x \in DOMAIN gsRing, Cardinality(DOMAIN gsRing') < GsHardCap
          PROVE  \/ GsAllTouched(x)' \/ GsQueued(x)' \/ GsAtHand(x)' \/ GsLate(x)'
                 \/ gsRing'[x] = gsAsked.depth
      <3>1. GsAllTouched(x) => GsAllTouched(x)'
        BY <1>5, <1>9 DEF GsTouchNew, GsAllTouched
      <3>2. GsQueued(x) => GsQueued(x)'
        BY <2>3 DEF GsQueued
      <3>3. GsAtHand(x) => GsAtHand(x)' \/ GsAllTouched(x)'
        BY <1>1, <1>5, <1>6, <1>9 DEF GsTouchNew, GsAtHand, GsAllTouched
      <3>4. GsLate(x) => GsLate(x)'
        <4>1. ASSUME GsLate(x) PROVE gsQueue' = gsQueue /\ Cardinality(DOMAIN gsRing') >= GsNodeCap
          BY <1>9, <2>3, <4>1, GsCaps DEF GsTouchNew, GsLate
        <4> QED
          BY <1>1, <1>3, <1>6, <1>9, <4>1 DEF GsTouchNew, GsLate
      <3> QED
        BY <1>2, <1>9, <3>1, <3>2, <3>3, <3>4 DEF GsTouchNew, GsBlastFar, GsBlastCover
    <2>6. GsQueued(n)' \/ GsLate(n)'
      <3>1. CASE Cardinality(DOMAIN gsRing') < GsNodeCap
        BY <2>3, <3>1 DEF GsQueued
      <3>2. CASE Cardinality(DOMAIN gsRing') >= GsNodeCap
        <4>1. gsQueue' = gsQueue
          BY <2>3, <3>2
        <4>2. \A i \in DOMAIN gsQueue' : gsRing'[gsQueue'[i]] <= gsRing'[n]
          BY <1>1, <1>2, <1>3, <1>9, <4>1 DEF GsTouchNew, GsBlastFar, GsBlastOrder
        <4>3. gsAt' # <<>> => gsRing'[gsAt'[1]] <= gsRing'[n]
          BY <1>1, <1>6, <1>9 DEF GsTouchNew
        <4> QED
          BY <3>2, <4>2, <4>3 DEF GsLate
      <3> QED
        BY <1>9, <3>1, <3>2, GsCaps DEF GsTouchNew
    <2>7. GsBlastCover'
      BY <1>1, <1>9, <2>5, <2>6 DEF GsTouchNew, GsBlastCover
    <2>8. \A f \in gsTouched' : \E x \in DOMAIN gsRing' : gsRing'[x] < gsAsked.depth /\ f \in GsEdgesAt(x)
      BY <1>1, <1>2, <1>9 DEF GsTouchNew, GsBlastFar
    <2>9. gsCut' => Cardinality(DOMAIN gsRing') >= GsHardCap
      BY <1>2, <1>9, GsCaps DEF GsTouchNew, GsBlastFar
    <2> QED
      BY <1>1, <1>2, <1>4, <1>5, <1>9, <2>2, <2>4, <2>7, <2>8, <2>9 DEF GsTouchNew, GsBlastFar
  <1> QED
    <2>1. GsTouchRefused \/ GsTouchKnown(e, n) \/ GsTouchNew(e, at, n)
      BY <1>0, GsTouchEffect
    <2> QED
      BY <1>7, <1>8, <1>9, <2>1

LEMMA GsInitFar == GsInit => GsBlastAll
  <1> SUFFICES ASSUME GsInit PROVE GsBlastAll
    OBVIOUS
  <1>1. GsAskedFully /\ GsInv
    BY GsInitInv DEF GsInit, GsAskedFully
  <1>2. ASSUME gsAsked.kind = "blast" PROVE GsBlastFar
    <2>1. /\ gsQueue = <<gsAsked.from>> /\ gsAt = <<>> /\ gsTouched = {} /\ gsCut = FALSE
          /\ DOMAIN gsRing = {gsAsked.from} /\ gsRing[gsAsked.from] = 0
      BY <1>2 DEF GsInit
    <2>2. GsAtRing(gsAsked.from, 0) /\ gsAsked.depth \in Nat
      BY <1>1, GsBallStep, GsBlastFields DEF GsAtRing
    <2>3. GsRings
      BY <2>1, <2>2 DEF GsRings
    <2>4. GsBlastOrder
      BY <2>1 DEF GsBlastOrder
    <2>5. GsQueued(gsAsked.from)
      BY <2>1 DEF GsQueued
    <2>6. (gsDone /\ gsAsked.from \in GsKnown) => FALSE
      <3>1. gsAsked.to = "none"
        BY <1>1, <1>2 DEF GsAskedFully, GsRequests
      <3> QED
        BY <3>1 DEF GsInit
    <2> QED
      BY <2>1, <2>3, <2>4, <2>5, <2>6 DEF GsBlastFar, GsBlastCover
  <1> QED
    BY <1>1, <1>2 DEF GsBlastAll

LEMMA GsStepFar == GsBlastAll /\ [GsNext]_gsVars => GsBlastAll'
  <1> SUFFICES ASSUME GsBlastAll, [GsNext]_gsVars PROVE GsBlastAll'
    OBVIOUS
  <1>1. GsInv'
    BY GsPopKeeps, GsHopKeeps, GsTakeKeeps, GsTouchKeeps, GsReturnKeeps DEF GsNext, GsBlastAll
  <1>2. UNCHANGED <<gsGraph, gsAsked>>
    BY DEF GsNext, GsReturn, GsPop, GsTake, GsHop, GsTouch, gsVars
  <1>3. GsAskedFully'
    BY <1>2, GsSameDistances DEF GsBlastAll
  <1>4. ASSUME gsAsked.kind = "blast" PROVE GsBlastFar'
    <2>1. CASE GsReturn \/ UNCHANGED gsVars
      <3>1. /\ UNCHANGED <<gsQueue, gsAt, gsLeft, gsRing, gsTouched, gsCut>>
            /\ gsDone' = gsDone \/ (gsAt = <<>> /\ gsQueue = <<>>)
        BY <2>1 DEF GsReturn, GsIdle, gsVars
      <3>2. GsBlastFar /\ (\A m : GsEdgesAt(m)' = GsEdgesAt(m)) /\ GsKnown' = GsKnown
            /\ \A m, k : GsAtRing(m, k)' <=> GsAtRing(m, k)
        BY <1>2, <1>4, GsSameDistances DEF GsBlastAll
      <3>3. GsRings' /\ GsBlastOrder'
        BY <1>2, <3>1, <3>2 DEF GsBlastFar, GsRings, GsBlastOrder
      <3>4. GsBlastCover'
        BY <1>2, <3>1, <3>2 DEF GsBlastFar, GsBlastCover, GsAllTouched, GsQueued, GsAtHand, GsLate
      <3> QED
        BY <1>2, <3>1, <3>2, <3>3, <3>4 DEF GsBlastFar
    <2>2. CASE GsTake
      BY <2>2, GsTakeFar
    <2>3. CASE \E e \in gsLeft : GsTouch(e)
      BY <2>3, GsTouchFar
    <2>4. ~GsPop /\ ~\E e \in gsLeft : GsHop(e)
      BY <1>4 DEF GsPop, GsHop
    <2> QED
      BY <2>1, <2>2, <2>3, <2>4 DEF GsNext
  <1> QED
    BY <1>1, <1>2, <1>3, <1>4 DEF GsBlastAll

LEMMA GsBlastReach == ASSUME GsBlastAll PROVE GsReach
  <1> SUFFICES ASSUME gsAsked.kind = "blast"
               PROVE  /\ \A n \in DOMAIN gsRing : n \in GsBall(gsAsked.depth) /\ gsRing[n] = GsDistance(n)
                      /\ GsBlastBounded
                      /\ (gsDone /\ gsAsked.from \in GsKnown /\ Cardinality(DOMAIN gsRing) < GsNodeCap) =>
                            /\ ~gsCut
                            /\ DOMAIN gsRing = GsBall(gsAsked.depth)
                            /\ gsTouched = UNION {GsEdgesAt(n) : n \in GsBall(gsAsked.depth - 1)}
    BY DEF GsReach
  <1>1. GsBlastFar /\ GsBlastInv /\ GsInv
    BY DEF GsBlastAll, GsInv
  <1>2. /\ gsAsked.depth \in 1 .. GsMaxDepth /\ GsMaxDepth \in Nat
        /\ gsAsked.from \in GsAll /\ gsAsked.to \notin GsAll
    BY GsBlastFields DEF GsBlastAll
  <1>3. ASSUME NEW n \in DOMAIN gsRing
        PROVE  GsAtRing(n, gsRing[n]) /\ gsRing[n] \in 0 .. gsAsked.depth
    BY <1>1 DEF GsBlastFar, GsRings, GsBlastInv
  <1>4. ASSUME NEW n \in DOMAIN gsRing
        PROVE  n \in GsBall(gsAsked.depth) /\ gsRing[n] = GsDistance(n)
    <2>1. gsRing[n] \in 0 .. GsMaxDepth
      BY <1>2, <1>3
    <2>2. GsBall(gsRing[n]) \subseteq GsBall(gsAsked.depth)
      BY <1>2, <1>3, GsBallGrows
    <2> QED
      BY <1>3, <2>1, <2>2, GsRingIsDistance DEF GsAtRing
  <1>5. GsBlastBounded
    BY <1>1 DEF GsBlastInv, GsBlastBounded
  <1>6. ASSUME gsDone, gsAsked.from \in GsKnown, Cardinality(DOMAIN gsRing) < GsNodeCap
        PROVE  /\ ~gsCut
               /\ DOMAIN gsRing = GsBall(gsAsked.depth)
               /\ gsTouched = UNION {GsEdgesAt(n) : n \in GsBall(gsAsked.depth - 1)}
    <2>1. Cardinality(DOMAIN gsRing) \in Nat
      BY <1>1, FS_CardinalityType DEF GsBlastInv
    <2>2. Cardinality(DOMAIN gsRing) < GsHardCap /\ ~(Cardinality(DOMAIN gsRing) >= GsHardCap)
          /\ ~(Cardinality(DOMAIN gsRing) >= GsNodeCap)
      BY <1>6, <2>1, GsCaps
    <2>3. ~gsCut /\ gsAt = <<>> /\ gsQueue = <<>>
      BY <1>1, <1>6, <2>2 DEF GsBlastFar
    <2>4. ASSUME NEW n \in DOMAIN gsRing, gsRing[n] < gsAsked.depth PROVE GsEdgesAt(n) \subseteq gsTouched
      <3>1. ~GsQueued(n) /\ ~GsAtHand(n) /\ ~GsLate(n)
        BY <2>2, <2>3 DEF GsQueued, GsAtHand, GsLate
      <3>2. gsRing[n] # gsAsked.depth
        BY <1>2, <1>3, <2>4
      <3> QED
        BY <1>1, <2>2, <3>1, <3>2 DEF GsBlastFar, GsBlastCover, GsAllTouched
    <2>5. ASSUME NEW k \in 0 .. gsAsked.depth - 1, NEW n \in GsBall(k), n \in DOMAIN gsRing
          PROVE  GsEdgesAt(n) \subseteq gsTouched
      <3>1. gsRing[n] <= k /\ gsRing[n] \in Nat
        BY <1>3, <2>5, GsRingLeast
      <3> QED
        BY <1>2, <2>4, <2>5, <3>1
    <2>6. ASSUME NEW k \in 0 .. gsAsked.depth - 1 PROVE GsClosed(DOMAIN gsRing, k)
      <3> SUFFICES ASSUME NEW n \in GsBall(k), n \in DOMAIN gsRing, NEW e \in GsEdgesAt(n)
                   PROVE  GsOther(e, n) \in DOMAIN gsRing
        BY DEF GsClosed
      <3>1. e \in gsTouched
        BY <2>5
      <3> QED
        BY <1>1, <3>1 DEF GsBlastInv, GsOther
    <2>7. GsBall(gsAsked.depth) \subseteq DOMAIN gsRing
      <3>1. gsAsked.from \in DOMAIN gsRing /\ gsAsked.depth \in Nat
        BY <1>1, <1>2 DEF GsBlastFar
      <3> QED
        BY <1>2, <2>6, <3>1, GsBallWithin
    <2>8. DOMAIN gsRing = GsBall(gsAsked.depth)
      BY <1>4, <2>7
    <2>9. gsAsked.depth - 1 \in Nat /\ gsAsked.depth \in Nat /\ gsAsked.depth - 1 <= gsAsked.depth
          /\ gsAsked.depth - 1 \in 0 .. gsAsked.depth - 1
      BY <1>2
    <2>10. ASSUME NEW n \in GsBall(gsAsked.depth - 1) PROVE GsEdgesAt(n) \subseteq gsTouched
      <3>1. n \in DOMAIN gsRing
        BY <1>2, <2>8, <2>9, GsBallGrows
      <3> QED
        BY <2>5, <2>9, <3>1
    <2>11. ASSUME NEW e \in gsTouched PROVE \E n \in GsBall(gsAsked.depth - 1) : e \in GsEdgesAt(n)
      <3>1. PICK n \in DOMAIN gsRing : gsRing[n] < gsAsked.depth /\ e \in GsEdgesAt(n)
        BY <1>1 DEF GsBlastFar
      <3>2. gsRing[n] \in Nat /\ gsRing[n] <= gsAsked.depth - 1
        BY <1>2, <1>3, <3>1
      <3>3. n \in GsBall(gsAsked.depth - 1)
        BY <1>2, <1>3, <2>9, <3>2, GsBallGrows DEF GsAtRing
      <3> QED
        BY <3>1, <3>3
    <2> QED
      BY <2>3, <2>8, <2>10, <2>11
  <1> QED
    BY <1>4, <1>5, <1>6

(* blast_radius: whatever the graph and the order of its rows, the answer is   *)
(* made of nodes in the ring of their distance, bounded by the caps; and below *)
(* the node cap it is everything within the depth, with all its edges.         *)
THEOREM Reach == GsSpec => []GsReach
  <1>1. GsSpec => []GsBlastAll
    BY GsInitFar, GsStepFar, PTL DEF GsSpec
  <1>2. GsBlastAll => GsReach
    BY GsBlastReach
  <1> QED
    BY <1>1, <1>2, PTL

-----------------------------------------------------------------------------
(* The attack paths, one length after the other.                               *)
GsPathsCount ==
    /\ gsVisited \in 0 .. GsPathCap + 1 /\ (gsVisited > GsPathCap => gsCut) /\ (gsCut => gsDone)
    /\ Len(gsFound) <= GsMaxPaths /\ (~gsDone => Len(gsFound) < GsMaxPaths)
    /\ \A i \in DOMAIN gsFound : Len(gsFound[i]) >= 2
    /\ gsDone => \/ gsCut \/ gsFound # <<>>
                 \/ gsAt = <<>> /\ gsQueue = <<>>
                 \/ ~({gsAsked.from, gsAsked.to} \subseteq GsKnown)

(* Each node of a path that is queued or expanded lies one further out.        *)
GsStraight(path) == \A j \in DOMAIN path : path[j] \in DOMAIN gsRing /\ GsAtRing(path[j], j - 1)

GsInside ==
    \A n \in DOMAIN gsRing : n # gsAsked.to /\ GsAtRing(n, gsRing[n]) /\ gsRing[n] < gsAsked.depth

GsPathsOrder ==
    /\ \A i, j \in DOMAIN gsQueue :
          i <= j => Len(gsQueue[i]) <= Len(gsQueue[j]) /\ Len(gsQueue[j]) <= Len(gsQueue[i]) + 1
    /\ gsAt # <<>> => \A j \in DOMAIN gsQueue :
          Len(gsAt) <= Len(gsQueue[j]) /\ Len(gsQueue[j]) <= Len(gsAt) + 1

(* The queue holds so much that the search will be cut.                        *)
GsOverfull == gsVisited + Len(gsQueue) >= 2 * GsPathCap

(* From then on neighbours are not queued: not those of nodes nearer than what *)
(* is left to expand.                                                          *)
GsSkipped(n) ==
    /\ GsOverfull
    /\ \A i \in DOMAIN gsQueue : Len(gsQueue[i]) - 1 <= gsRing[n] + 1
    /\ gsAt # <<>> => Len(gsAt) - 1 <= gsRing[n] + 1

GsSeen(n, m) ==
    \/ m = gsAsked.to /\ gsFound # <<>>
    \/ m # gsAsked.to /\ (m \in DOMAIN gsRing \/ GsSkipped(n) \/ gsRing[n] + 1 = gsAsked.depth)
GsExpanded(n) == \A e \in GsEdgesAt(n) : GsSeen(n, GsOther(e, n))
GsPathQueued(n) == \E i \in DOMAIN gsQueue : Last(gsQueue[i]) = n
GsPathAtHand(n) ==
    /\ gsAt # <<>> /\ Last(gsAt) = n
    /\ \A e \in GsEdgesAt(n) : e \in gsLeft \/ GsSeen(n, GsOther(e, n))

GsPathsCover ==
    ~gsCut => \A n \in DOMAIN gsRing : GsExpanded(n) \/ GsPathQueued(n) \/ GsPathAtHand(n)

GsPathsFar ==
    /\ gsAsked.from \in DOMAIN gsRing
    /\ GsInside
    /\ \A i \in DOMAIN gsQueue : GsStraight(gsQueue[i])
    /\ GsStraight(gsAt)
    /\ GsPathsOrder /\ GsPathsCover
    /\ \A i \in DOMAIN gsFound : \A j \in 1 .. Len(gsFound[i]) - 1 : GsAtRing(gsFound[i][j], j - 1)
    /\ gsFound # <<>> => GsAtRing(gsAsked.to, Len(gsFound[1]) - 1)

GsPathsAll ==
    /\ GsAskedFully /\ GsInv
    /\ gsAsked.kind = "paths" => GsPathsCount /\ (gsAsked.from # gsAsked.to => GsPathsFar)

-----------------------------------------------------------------------------
LEMMA GsPathFields ==
    ASSUME GsPathsAll, gsAsked.kind = "paths"
    PROVE  /\ gsAsked.depth \in 1 .. GsMaxDepth /\ GsMaxDepth \in Nat /\ gsAsked.depth \in Nat
           /\ gsAsked.from \in GsAll /\ gsAsked.to \in GsAll
           /\ gsQueue \in Seq(Seq(GsAll)) /\ gsAt \in Seq(GsAll)
           /\ \A i \in DOMAIN gsQueue : gsQueue[i] \in Seq(GsAll) /\ Len(gsQueue[i]) \in Nat \ {0}
           /\ gsAt # <<>> => Len(gsAt) \in Nat \ {0} /\ Len(gsAt) - 1 < gsAsked.depth
                             /\ gsLeft \subseteq GsEdgesAt(Last(gsAt))
           /\ gsAt = <<>> => gsLeft = {}
  <1>1. GsPathsInv /\ GsAskedFully
    BY DEF GsPathsAll, GsInv
  <1>2. \A i \in DOMAIN gsQueue : gsQueue[i] \in Seq(GsAll) /\ gsQueue[i] # <<>>
    BY <1>1 DEF GsPathsInv, GsWalk
  <1>3. \A s \in Seq(GsAll) : s # <<>> => Len(s) \in Nat \ {0}
    OBVIOUS
  <1> QED
    BY <1>1, <1>2, <1>3, GsBlastFields DEF GsPathsInv

(* On such a path the ring of the last node is the number of its edges.        *)
LEMMA GsStraightLast ==
    ASSUME GsInside, NEW path \in Seq(GsAll), path # <<>>, GsStraight(path)
    PROVE  /\ Last(path) \in DOMAIN gsRing /\ gsRing[Last(path)] = Len(path) - 1
           /\ Last(path) # gsAsked.to /\ Last(path) \in GsBall(Len(path) - 1)
  <1>1. Len(path) \in Nat \ {0} /\ Len(path) \in DOMAIN path
    OBVIOUS
  <1>2. Last(path) \in DOMAIN gsRing /\ GsAtRing(Last(path), Len(path) - 1)
    BY <1>1 DEF GsStraight, Last
  <1>3. GsAtRing(Last(path), gsRing[Last(path)]) /\ Last(path) # gsAsked.to
    BY <1>2 DEF GsInside
  <1>4. gsRing[Last(path)] = Len(path) - 1
    BY <1>2, <1>3 DEF GsAtRing
  <1> QED
    BY <1>2, <1>3, <1>4 DEF GsAtRing

(* Nodes nearer than r are expanded, and none of their neighbours is skipped.  *)
GsDrained(r) == \A n \in DOMAIN gsRing : gsRing[n] < r => GsExpanded(n)
GsSettled(r) ==
    \A n \in DOMAIN gsRing : gsRing[n] < r => /\ GsExpanded(n) /\ ~GsSkipped(n)
                                              /\ gsRing[n] + 1 # gsAsked.depth

LEMMA GsSettledBall ==
    ASSUME GsPathsFar, gsAsked.from \in GsAll, NEW r \in Nat, GsSettled(r)
    PROVE  GsBall(r) \subseteq DOMAIN gsRing \cup {gsAsked.to}
  <1> DEFINE R == DOMAIN gsRing \cup {gsAsked.to}
  <1>1. ASSUME NEW k \in 0 .. r - 1 PROVE GsClosed(R, k)
    <2> SUFFICES ASSUME NEW n \in GsBall(k) \ {gsAsked.to}, n \in R, NEW e \in GsEdgesAt(n)
                 PROVE  GsOther(e, n) \in R
      BY DEF GsClosed
    <2>1. n \in DOMAIN gsRing /\ gsRing[n] < r
      BY GsRingLeast DEF GsPathsFar, GsInside, GsAtRing
    <2> QED
      BY <2>1 DEF GsSettled, GsExpanded, GsSeen
  <1>2. gsAsked.from \in R
    BY DEF GsPathsFar
  <1> HIDE DEF R
  <1> QED
    BY <1>1, <1>2, GsBallWithin DEF R

LEMMA GsTargetAway ==
    ASSUME GsPathsFar, gsAsked.from \in GsAll, gsAsked.from # gsAsked.to, gsFound = <<>>,
           NEW r \in Nat, GsDrained(r), GsSettled(r - 1)
    PROVE  gsAsked.to \notin GsBall(r)
  <1> DEFINE R == GsAll \ {gsAsked.to}
  <1>1. ASSUME NEW k \in 0 .. r - 1 PROVE GsClosed(R, k)
    <2> SUFFICES ASSUME NEW n \in GsBall(k) \ {gsAsked.to}, NEW e \in GsEdgesAt(n)
                 PROVE  GsOther(e, n) \in R
      BY DEF GsClosed
    <2>1. k \in Nat /\ r - 1 \in Nat /\ k <= r - 1
      OBVIOUS
    <2>2. GsBall(k) \subseteq GsBall(r - 1)
      BY <2>1, GsBallGrows
    <2>3. n \in DOMAIN gsRing
      BY <2>1, <2>2, GsSettledBall
    <2>4. gsRing[n] < r
      BY <2>1, <2>3, GsRingLeast DEF GsPathsFar, GsInside, GsAtRing
    <2>5. GsOther(e, n) # gsAsked.to
      BY <2>3, <2>4 DEF GsDrained, GsExpanded, GsSeen
    <2> QED
      BY <2>5, GsOtherEnd
  <1>2. gsAsked.from \in R
    OBVIOUS
  <1> HIDE DEF R
  <1>3. GsBall(r) \subseteq R
    BY <1>1, <1>2, GsBallWithin
  <1> QED
    BY <1>3 DEF R

(* The path being expanded.                                                    *)
LEMMA GsAtDrained ==
    ASSUME GsPathsAll, gsAsked.kind = "paths", gsAsked.from # gsAsked.to, ~gsCut, gsAt # <<>>
    PROVE  /\ GsDrained(Len(gsAt) - 1) /\ GsSettled(Len(gsAt) - 1 - 1)
           /\ ~GsOverfull => GsSettled(Len(gsAt) - 1)
  <1>1. GsPathsFar /\ GsPathsOrder /\ GsInside
    BY DEF GsPathsAll, GsPathsFar
  <1>2. Len(gsAt) \in Nat \ {0} /\ Len(gsAt) - 1 < gsAsked.depth /\ gsAsked.depth \in Nat
    BY GsPathFields
  <1>3. ASSUME NEW n \in DOMAIN gsRing, gsRing[n] < Len(gsAt) - 1
        PROVE  GsExpanded(n) /\ gsRing[n] + 1 # gsAsked.depth /\ (~GsOverfull => ~GsSkipped(n))
    <2>1. ~GsPathQueued(n)
      <3> SUFFICES ASSUME NEW i \in DOMAIN gsQueue, Last(gsQueue[i]) = n PROVE FALSE
        BY DEF GsPathQueued
      <3>1. /\ gsQueue[i] \in Seq(GsAll) /\ gsQueue[i] # <<>> /\ Len(gsQueue[i]) \in Nat
            /\ GsStraight(gsQueue[i])
        BY <1>1, GsPathFields DEF GsPathsFar
      <3>2. gsRing[n] = Len(gsQueue[i]) - 1
        BY <1>1, <3>1, GsStraightLast
      <3>3. Len(gsAt) <= Len(gsQueue[i])
        BY <1>1 DEF GsPathsOrder
      <3> QED
        BY <1>2, <1>3, <3>1, <3>2, <3>3
    <2>2. ~GsPathAtHand(n)
      <3>1. gsAt \in Seq(GsAll) /\ GsStraight(gsAt)
        BY <1>1, GsPathFields DEF GsPathsFar
      <3>2. gsRing[Last(gsAt)] = Len(gsAt) - 1
        BY <1>1, <3>1, GsStraightLast
      <3> QED
        BY <1>2, <1>3, <3>2 DEF GsPathAtHand
    <2>3. gsRing[n] \in Nat
      BY <1>1 DEF GsInside, GsAtRing
    <2> QED
      BY <1>1, <1>2, <1>3, <2>1, <2>2, <2>3 DEF GsPathsFar, GsPathsCover, GsSkipped
  <1>4. ASSUME NEW n \in DOMAIN gsRing, gsRing[n] < Len(gsAt) - 1 - 1 PROVE ~GsSkipped(n)
    BY <1>1, <1>2, <1>4 DEF GsSkipped, GsInside, GsAtRing
  <1>5. \A n \in DOMAIN gsRing : gsRing[n] < Len(gsAt) - 1 - 1 => gsRing[n] < Len(gsAt) - 1
    BY <1>1, <1>2 DEF GsInside, GsAtRing
  <1> QED
    BY <1>3, <1>4, <1>5 DEF GsDrained, GsSettled

LEMMA GsPopFar ==
    ASSUME GsPathsAll, GsPop
    PROVE  GsPathsCount' /\ (gsAsked.from # gsAsked.to => GsPathsFar')
  <1> DEFINE full == gsVisited' > GsPathCap
  <1>0. PICK path : path = Head(gsQueue)
    OBVIOUS
  <1>1. /\ gsAsked.kind = "paths" /\ GsPathsCount /\ ~gsDone /\ gsAt = <<>> /\ gsLeft = {} /\ gsQueue # <<>>
        /\ gsVisited' = gsVisited + 1
        /\ gsQueue' = Tail(gsQueue)
        /\ UNCHANGED <<gsGraph, gsAsked, gsRing, gsFound>>
    BY DEF GsPop, GsIdle, GsPathsAll
  <1>2. /\ gsQueue \in Seq(Seq(GsAll)) /\ 1 \in DOMAIN gsQueue /\ gsQueue[1] = path
        /\ path \in Seq(GsAll) /\ Len(path) \in Nat \ {0}
        /\ Len(gsQueue') = Len(gsQueue) - 1 /\ Len(gsQueue) \in Nat
        /\ \A j \in DOMAIN gsQueue' : /\ gsQueue'[j] = gsQueue[j + 1] /\ j + 1 \in DOMAIN gsQueue
                                      /\ j \in Nat /\ j >= 1
    BY <1>0, <1>1, GsPathFields
  <1>3. gsVisited \in Nat /\ gsVisited <= GsPathCap /\ gsVisited' \in 0 .. GsPathCap + 1
    BY <1>1, GsCaps DEF GsPathsCount
  <1>4. /\ (gsCut' <=> full) /\ (gsDone' <=> full)
        /\ full => gsAt' = <<>> /\ gsLeft' = {}
        /\ (~full /\ Len(path) - 1 < gsAsked.depth) => gsAt' = path /\ gsLeft' = GsEdgesAt(Last(path))
    <2>1. /\ gsCut' = full /\ gsDone' = full
          /\ gsAt' = IF full \/ Len(path) - 1 >= gsAsked.depth THEN <<>> ELSE path
          /\ gsLeft' = IF full \/ Len(path) - 1 >= gsAsked.depth THEN {} ELSE GsEdgesAt(Last(path))
      BY <1>0 DEF GsPop
    <2>2. gsAsked.depth \in Nat /\ Len(path) \in Nat
      BY <1>1, <1>2, GsPathFields
    <2>3. Len(path) - 1 < gsAsked.depth => ~(Len(path) - 1 >= gsAsked.depth)
      BY <2>2
    <2> HIDE DEF full
    <2> QED
      BY <2>1, <2>3
  <1>5. GsPathsCount'
    BY <1>0, <1>1, <1>3, <1>4 DEF GsPathsCount
  <1>6. ASSUME gsAsked.from # gsAsked.to PROVE GsPathsFar'
    <2>1. GsPathsFar /\ GsPathsOrder /\ GsInside
      BY <1>1, <1>6 DEF GsPathsAll, GsPathsFar
    <2>2. (\A m : GsEdgesAt(m)' = GsEdgesAt(m)) /\ \A m, k : GsAtRing(m, k)' <=> GsAtRing(m, k)
      BY <1>1, GsSameDistances
    <2>3. GsStraight(path) /\ path # <<>>
      BY <1>2, <2>1 DEF GsPathsFar
    <2>4. gsRing[Last(path)] = Len(path) - 1 /\ Len(path) - 1 < gsAsked.depth
      BY <1>2, <2>1, <2>3, GsStraightLast DEF GsInside
    <2>5. gsAt' = <<>> \/ gsAt' = path
      BY <1>4, <2>4
    <2>6. \A p : GsStraight(p)' <=> GsStraight(p)
      BY <1>1, <2>2 DEF GsStraight
    <2>7. GsPathsOrder'
      <3>1. \A i, j \in DOMAIN gsQueue' :
              i <= j => /\ Len(gsQueue'[i]) <= Len(gsQueue'[j])
                        /\ Len(gsQueue'[j]) <= Len(gsQueue'[i]) + 1
        BY <1>2, <2>1 DEF GsPathsOrder
      <3>2. ASSUME NEW j \in DOMAIN gsQueue'
            PROVE  Len(path) <= Len(gsQueue'[j]) /\ Len(gsQueue'[j]) <= Len(path) + 1
        <4>1. j + 1 \in DOMAIN gsQueue /\ 1 <= j + 1 /\ gsQueue'[j] = gsQueue[j + 1]
          BY <1>2
        <4>2. Len(gsQueue[1]) <= Len(gsQueue[j + 1]) /\ Len(gsQueue[j + 1]) <= Len(gsQueue[1]) + 1
          BY <1>2, <2>1, <4>1 DEF GsPathsOrder
        <4> QED
          BY <1>2, <4>1, <4>2
      <3> QED
        BY <2>5, <3>1, <3>2 DEF GsPathsOrder
    <2>8. ASSUME ~full, NEW n \in DOMAIN gsRing
          PROVE  GsExpanded(n)' \/ GsPathQueued(n)' \/ GsPathAtHand(n)'
      <3>1. ~gsCut
        BY <1>1 DEF GsPathsCount
      <3>2. GsOverfull' <=> GsOverfull
        BY <1>1, <1>2, <1>3, GsCaps DEF GsOverfull
      <3>3. gsAt' = path /\ gsLeft' = GsEdgesAt(Last(path))
        BY <1>4, <2>4, <2>8
      <3>4. ASSUME GsSkipped(n) PROVE GsSkipped(n)'
        <4>1. \A i \in DOMAIN gsQueue : Len(gsQueue[i]) - 1 <= gsRing[n] + 1
          BY <3>4 DEF GsSkipped
        <4>2. \A i \in DOMAIN gsQueue' : Len(gsQueue'[i]) - 1 <= gsRing'[n] + 1
          BY <1>1, <1>2, <4>1
        <4>3. Len(path) - 1 <= gsRing'[n] + 1
          BY <1>1, <1>2, <4>1
        <4> QED
          BY <3>2, <3>3, <3>4, <4>2, <4>3 DEF GsSkipped
      <3>5. GsExpanded(n) => GsExpanded(n)'
        BY <1>1, <2>2, <3>4 DEF GsExpanded, GsSeen
      <3>6. ASSUME GsPathQueued(n) PROVE GsPathQueued(n)' \/ GsPathAtHand(n)'
        <4>1. PICK i \in DOMAIN gsQueue : Last(gsQueue[i]) = n
          BY <3>6 DEF GsPathQueued
        <4>2. CASE i = 1
          BY <1>2, <2>2, <2>3, <3>3, <4>1, <4>2 DEF GsPathAtHand
        <4>3. CASE i # 1
          <5>1. i - 1 \in DOMAIN gsQueue' /\ gsQueue'[i - 1] = gsQueue[i]
            BY <1>1, <1>2, <4>3
          <5> QED
            BY <4>1, <5>1 DEF GsPathQueued
        <4> QED
          BY <4>2, <4>3
      <3>7. ~GsPathAtHand(n)
        BY <1>1 DEF GsPathAtHand
      <3> QED
        BY <2>1, <3>1, <3>5, <3>6, <3>7 DEF GsPathsFar, GsPathsCover
    <2>9. GsPathsCover'
      BY <1>1, <1>4, <2>8 DEF GsPathsCover
    <2>10. GsInside'
      BY <1>1, <2>1, <2>2 DEF GsInside
    <2>11. GsStraight(gsAt') /\ \A i \in DOMAIN gsQueue' : GsStraight(gsQueue'[i])
      BY <1>2, <2>1, <2>3, <2>5 DEF GsPathsFar, GsStraight
    <2>12. (GsStraight(gsAt) /\ \A i \in DOMAIN gsQueue : GsStraight(gsQueue[i]))'
      BY <1>1, <2>2, <2>11 DEF GsStraight
    <2>13. (/\ \A i \in DOMAIN gsFound : \A j \in 1 .. Len(gsFound[i]) - 1 : GsAtRing(gsFound[i][j], j - 1)
            /\ gsFound # <<>> => GsAtRing(gsAsked.to, Len(gsFound[1]) - 1))'
      BY <1>1, <2>1, <2>2 DEF GsPathsFar
    <2>14. gsAsked'.from \in DOMAIN gsRing'
      BY <1>1, <2>1 DEF GsPathsFar
    <2> QED
      BY <2>7, <2>9, <2>10, <2>12, <2>13, <2>14 DEF GsPathsFar
  <1> QED
    BY <1>5, <1>6

(* The step along an edge, in the three cases the code tells apart: the target *)
(* is reached, the neighbour is queued, or it is passed over.                  *)
GsHopHit(m) ==
    /\ m = gsAsked.to /\ m \notin ToSet(gsAt)
    /\ gsFound' = Append(gsFound, Append(gsAt, m))
    /\ gsDone' <=> Len(gsFound') >= GsMaxPaths
    /\ gsQueue' = gsQueue /\ DOMAIN gsRing' = DOMAIN gsRing
    /\ \A x \in DOMAIN gsRing : gsRing'[x] = gsRing[x]

GsHopQueue(m) ==
    /\ m # gsAsked.to /\ m \notin ToSet(gsAt) /\ GsQueueable(m, Len(gsAt))
    /\ gsFound' = gsFound /\ ~gsDone'
    /\ gsQueue' = Append(gsQueue, Append(gsAt, m))
    /\ DOMAIN gsRing' = DOMAIN gsRing \cup {m} /\ gsRing'[m] = Len(gsAt)
    /\ \A x \in DOMAIN gsRing \ {m} : gsRing'[x] = gsRing[x]

GsHopPass(m) ==
    /\ m \in ToSet(gsAt) \/ (m # gsAsked.to /\ ~GsQueueable(m, Len(gsAt)))
    /\ gsFound' = gsFound /\ ~gsDone'
    /\ gsQueue' = gsQueue /\ DOMAIN gsRing' = DOMAIN gsRing
    /\ \A x \in DOMAIN gsRing : gsRing'[x] = gsRing[x]

LEMMA GsHopEffect ==
    ASSUME GsPathsAll, NEW e \in gsLeft, GsHop(e), NEW m, m = GsOther(e, Last(gsAt))
    PROVE  /\ gsAsked.kind = "paths" /\ GsPathsCount /\ ~gsDone /\ ~gsCut /\ gsAt # <<>>
           /\ gsLeft' = gsLeft \ {e} /\ (gsAt' = gsAt \/ (gsAt' = <<>> /\ gsLeft' = {}))
           /\ UNCHANGED <<gsGraph, gsAsked, gsVisited, gsCut>>
           /\ e \in GsEdgesAt(Last(gsAt)) /\ m \in GsAll
           /\ GsHopHit(m) \/ GsHopQueue(m) \/ GsHopPass(m)
  <1> DEFINE simple == m \notin ToSet(gsAt)
             hit == simple /\ m = gsAsked.to
             queue == simple /\ ~hit /\ GsQueueable(m, Len(gsAt))
  <1>1. /\ gsAsked.kind = "paths" /\ GsPathsCount /\ ~gsDone /\ gsAt # <<>>
        /\ gsLeft' = gsLeft \ {e}
        /\ gsFound' = IF hit THEN Append(gsFound, Append(gsAt, m)) ELSE gsFound
        /\ gsDone' = (hit /\ Len(gsFound') >= GsMaxPaths)
        /\ gsQueue' = IF queue THEN Append(gsQueue, Append(gsAt, m)) ELSE gsQueue
        /\ gsRing' = [x \in DOMAIN gsRing \cup (IF queue THEN {m} ELSE {}) |->
                         IF queue /\ x = m THEN Len(gsAt) ELSE gsRing[x]]
        /\ gsAt' = IF gsLeft' = {} THEN <<>> ELSE gsAt
        /\ UNCHANGED <<gsGraph, gsAsked, gsVisited, gsCut>>
    BY DEF GsHop, GsPathsAll
  <1>2. ~gsCut
    BY <1>1 DEF GsPathsCount
  <1>3. e \in GsEdgesAt(Last(gsAt)) /\ m \in GsAll
    BY <1>1, GsPathFields, GsOtherEnd
  <1>4. CASE hit
    BY <1>1, <1>2, <1>3, <1>4 DEF GsHopHit
  <1>5. CASE queue
    BY <1>1, <1>2, <1>3, <1>5 DEF GsHopQueue
  <1>6. CASE ~hit /\ ~queue
    <2>1. DOMAIN gsRing' = DOMAIN gsRing /\ \A x \in DOMAIN gsRing : gsRing'[x] = gsRing[x]
      BY <1>1, <1>6
    <2>2. gsFound' = gsFound /\ ~gsDone' /\ gsQueue' = gsQueue
      BY <1>1, <1>6
    <2> QED
      BY <1>1, <1>2, <1>3, <1>6, <2>1, <2>2 DEF GsHopPass
  <1> QED
    BY <1>4, <1>5, <1>6

(* What was known of the other nodes stays true when one is found or hit.      *)
LEMMA GsCoverStays ==
    ASSUME UNCHANGED <<gsGraph, gsAsked, gsVisited>>,
           DOMAIN gsRing \subseteq DOMAIN gsRing', \A x \in DOMAIN gsRing : gsRing'[x] = gsRing[x],
           gsFound # <<>> => gsFound' # <<>>,
           gsAt' = gsAt \/ (gsAt' = <<>> /\ gsLeft' = {}),
           gsQueue' = gsQueue \/ ~GsOverfull,
           DOMAIN gsQueue \subseteq DOMAIN gsQueue', \A i \in DOMAIN gsQueue : gsQueue'[i] = gsQueue[i],
           NEW e, gsLeft' = gsLeft \ {e}, gsAt # <<>>,
           NEW l, l = Last(gsAt), GsSeen(l, GsOther(e, l))',
           NEW n \in DOMAIN gsRing, GsExpanded(n) \/ GsPathQueued(n) \/ GsPathAtHand(n)
    PROVE  GsExpanded(n)' \/ GsPathQueued(n)' \/ GsPathAtHand(n)'
  <1>1. \A x : GsEdgesAt(x)' = GsEdgesAt(x)
    BY GsSameDistances
  <1>2. GsSkipped(n) => GsSkipped(n)'
    BY DEF GsSkipped, GsOverfull
  <1>3. \A m : GsSeen(n, m) => GsSeen(n, m)'
    BY <1>2 DEF GsSeen
  <1>4. GsExpanded(n) => GsExpanded(n)'
    BY <1>1, <1>3 DEF GsExpanded
  <1>5. GsPathQueued(n) => GsPathQueued(n)'
    BY DEF GsPathQueued
  <1>6. ASSUME GsPathAtHand(n) PROVE GsExpanded(n)' \/ GsPathAtHand(n)'
    <2>1. Last(gsAt) = n /\ \A f \in GsEdgesAt(n) : f \in gsLeft \/ GsSeen(n, GsOther(f, n))
      BY <1>6 DEF GsPathAtHand
    <2>2. \A f \in GsEdgesAt(n) : f \in gsLeft' \/ GsSeen(n, GsOther(f, n))' \/ f = e
      BY <1>3, <2>1
    <2>3. GsSeen(n, GsOther(e, n))'
      BY <2>1
    <2>4. CASE gsAt' = gsAt
      BY <1>1, <2>1, <2>2, <2>3, <2>4 DEF GsPathAtHand
    <2>5. CASE gsAt' = <<>> /\ gsLeft' = {}
      BY <1>1, <2>2, <2>3, <2>5 DEF GsExpanded
    <2> QED
      BY <2>4, <2>5
  <1> QED
    BY <1>4, <1>5, <1>6

LEMMA GsHopCount ==
    ASSUME GsPathsAll, NEW e \in gsLeft, GsHop(e)
    PROVE  GsPathsCount'
  <1>0. PICK m : m = GsOther(e, Last(gsAt))
    OBVIOUS
  <1>1. /\ gsAsked.kind = "paths" /\ GsPathsCount /\ ~gsDone /\ ~gsCut /\ gsAt # <<>>
        /\ UNCHANGED <<gsGraph, gsAsked, gsVisited, gsCut>>
        /\ GsHopHit(m) \/ GsHopQueue(m) \/ GsHopPass(m)
    BY <1>0, GsHopEffect
  <1>2. gsFound \in Seq(Seq(GsAll)) /\ gsAt \in Seq(GsAll) /\ Len(gsAt) \in Nat \ {0}
    BY <1>1, GsPathFields DEF GsPathsAll, GsInv, GsPathsInv
  <1>3. ASSUME GsHopHit(m)
        PROVE  /\ Len(gsFound') <= GsMaxPaths /\ (~gsDone' => Len(gsFound') < GsMaxPaths)
               /\ \A i \in DOMAIN gsFound' : Len(gsFound'[i]) >= 2
               /\ gsFound' # <<>>
    <2>1. PICK p : p = Append(gsAt, m)
      OBVIOUS
    <2>2. Len(p) >= 2
      BY <1>2, <2>1
    <2>3. gsFound' = Append(gsFound, p) /\ (gsDone' <=> Len(gsFound') >= GsMaxPaths)
      BY <1>3, <2>1 DEF GsHopHit
    <2>4. Len(gsFound) \in Nat /\ Len(gsFound) < GsMaxPaths /\ Len(gsFound') = Len(gsFound) + 1
      BY <1>1, <1>2, <2>3 DEF GsPathsCount
    <2>5. /\ DOMAIN gsFound' = 1 .. Len(gsFound) + 1 /\ gsFound'[Len(gsFound) + 1] = p
          /\ \A i \in 1 .. Len(gsFound) : gsFound'[i] = gsFound[i]
      BY <1>2, <2>3
    <2>6. \A i \in 1 .. Len(gsFound) : Len(gsFound[i]) >= 2
      BY <1>1, <1>2 DEF GsPathsCount
    <2> QED
      BY <2>2, <2>3, <2>4, <2>5, <2>6, GsCaps
  <1>4. ASSUME GsHopQueue(m) \/ GsHopPass(m) PROVE gsFound' = gsFound /\ ~gsDone'
    BY <1>4 DEF GsHopQueue, GsHopPass
  <1>5. CASE GsHopHit(m)
    BY <1>1, <1>3, <1>5 DEF GsPathsCount
  <1>6. CASE GsHopQueue(m) \/ GsHopPass(m)
    BY <1>1, <1>4, <1>6 DEF GsPathsCount
  <1> QED
    BY <1>1, <1>5, <1>6

(* The neighbour is one step further than the end of the path.                 *)
LEMMA GsHopFacts ==
    ASSUME GsPathsAll, NEW e \in gsLeft, GsHop(e), gsAsked.from # gsAsked.to, NEW l, l = Last(gsAt),
           NEW m, m = GsOther(e, l)
    PROVE  /\ l \in DOMAIN gsRing /\ gsRing[l] = Len(gsAt) - 1
           /\ gsAt \in Seq(GsAll) /\ Len(gsAt) \in Nat \ {0} /\ Len(gsAt) <= gsAsked.depth
           /\ gsAsked.depth \in Nat
           /\ GsStraight(gsAt) /\ GsPathsFar /\ m \in GsBall(Len(gsAt))
           /\ ~GsOverfull => GsBall(Len(gsAt) - 1) \subseteq DOMAIN gsRing \cup {gsAsked.to}
           /\ gsFound = <<>> => gsAsked.to \notin GsBall(Len(gsAt) - 1)
  <1>1. gsAsked.kind = "paths" /\ ~gsCut /\ gsAt # <<>> /\ e \in GsEdgesAt(l)
    BY GsHopEffect
  <1>2. GsPathsFar /\ GsInside /\ GsStraight(gsAt)
    BY <1>1 DEF GsPathsAll, GsPathsFar
  <1>3. /\ gsAt \in Seq(GsAll) /\ Len(gsAt) \in Nat \ {0} /\ Len(gsAt) - 1 < gsAsked.depth
        /\ gsAsked.depth \in Nat /\ gsAsked.from \in GsAll
    BY <1>1, GsPathFields
  <1>4. /\ l \in DOMAIN gsRing /\ gsRing[l] = Len(gsAt) - 1
        /\ l # gsAsked.to /\ l \in GsBall(Len(gsAt) - 1)
    BY <1>1, <1>2, <1>3, GsStraightLast
  <1>5. Len(gsAt) - 1 \in Nat /\ (Len(gsAt) - 1) + 1 = Len(gsAt)
    BY <1>3
  <1>6. m \in GsBall(Len(gsAt))
    <2>1. \A n \in GsBall(Len(gsAt) - 1) \ {gsAsked.to} : \A f \in GsEdgesAt(n) :
              GsOther(f, n) \in GsBall((Len(gsAt) - 1) + 1)
      BY <1>3, <1>5, GsBallNext
    <2> QED
      BY <1>1, <1>4, <1>5, <2>1
  <1>7. GsDrained(Len(gsAt) - 1) /\ GsSettled(Len(gsAt) - 1 - 1) /\ (~GsOverfull => GsSettled(Len(gsAt) - 1))
    BY <1>1, GsAtDrained
  <1>8. ~GsOverfull => GsBall(Len(gsAt) - 1) \subseteq DOMAIN gsRing \cup {gsAsked.to}
    BY <1>2, <1>3, <1>5, <1>7, GsSettledBall
  <1>9. gsFound = <<>> => gsAsked.to \notin GsBall(Len(gsAt) - 1)
    BY <1>2, <1>3, <1>5, <1>7, GsTargetAway
  <1>10. Len(gsAt) <= gsAsked.depth
    BY <1>3
  <1> QED
    BY <1>2, <1>3, <1>4, <1>6, <1>8, <1>9, <1>10

(* A node first met at the end of this path is as far as the path is long.     *)
LEMMA GsFirstMet ==
    ASSUME gsAsked.from \in GsAll, NEW n, NEW k \in Nat \ {0}, n \in GsBall(k), n \notin GsBall(k - 1)
    PROVE  GsAtRing(n, k)
  <1>1. \A j \in 0 .. k - 1 : GsBall(j) \subseteq GsBall(k - 1)
    BY GsBallGrows
  <1> QED
    BY <1>1 DEF GsAtRing

(* Nothing but the answers changes when the target is hit.                     *)
LEMMA GsHitFar ==
    ASSUME GsPathsAll, NEW e \in gsLeft, GsHop(e), gsAsked.from # gsAsked.to,
           NEW m, m = GsOther(e, Last(gsAt)), GsHopHit(m)
    PROVE  GsPathsFar'
  <1>0. PICK l : l = Last(gsAt)
    OBVIOUS
  <1>1. /\ gsAsked.kind = "paths" /\ ~gsCut /\ gsAt # <<>>
        /\ gsLeft' = gsLeft \ {e} /\ (gsAt' = gsAt \/ (gsAt' = <<>> /\ gsLeft' = {}))
        /\ UNCHANGED <<gsGraph, gsAsked, gsVisited, gsCut>>
    BY GsHopEffect
  <1>2. /\ gsAt \in Seq(GsAll) /\ Len(gsAt) \in Nat \ {0} /\ GsStraight(gsAt) /\ GsPathsFar
        /\ m \in GsBall(Len(gsAt)) /\ (gsFound = <<>> => gsAsked.to \notin GsBall(Len(gsAt) - 1))
    BY <1>0, GsHopFacts
  <1>3. (\A x : GsEdgesAt(x)' = GsEdgesAt(x)) /\ \A x, k : GsAtRing(x, k)' <=> GsAtRing(x, k)
    BY <1>1, GsSameDistances
  <1>4. /\ gsFound \in Seq(Seq(GsAll)) /\ gsAsked.from \in GsAll
        /\ gsQueue' = gsQueue /\ DOMAIN gsRing' = DOMAIN gsRing
        /\ \A x \in DOMAIN gsRing : gsRing'[x] = gsRing[x]
        /\ m = gsAsked.to
    BY <1>1, GsPathFields DEF GsPathsAll, GsInv, GsPathsInv, GsHopHit
  <1>5. PICK p : p = Append(gsAt, m)
    OBVIOUS
  <1>6. /\ gsFound' = Append(gsFound, p)
        /\ DOMAIN gsFound' = 1 .. Len(gsFound) + 1 /\ gsFound'[Len(gsFound) + 1] = p
        /\ Len(gsFound) \in Nat /\ \A i \in 1 .. Len(gsFound) : gsFound'[i] = gsFound[i]
        /\ Len(p) = Len(gsAt) + 1 /\ \A j \in 1 .. Len(gsAt) : p[j] = gsAt[j]
    BY <1>2, <1>4, <1>5 DEF GsHopHit
  <1>7. /\ \A j \in 1 .. Len(p) - 1 : GsAtRing(p[j], j - 1)
        /\ gsFound = <<>> => GsAtRing(gsAsked.to, Len(p) - 1)
    <2>1. \A j \in 1 .. Len(gsAt) : GsAtRing(gsAt[j], j - 1)
      BY <1>2 DEF GsStraight
    <2>2. gsFound = <<>> => GsAtRing(gsAsked.to, Len(gsAt))
      BY <1>2, <1>4, GsFirstMet
    <2>3. Len(p) - 1 = Len(gsAt)
      BY <1>2, <1>6
    <2> QED
      BY <1>6, <2>1, <2>2, <2>3
  <1>8. \A i \in DOMAIN gsFound' : \A j \in 1 .. Len(gsFound'[i]) - 1 : GsAtRing(gsFound'[i][j], j - 1)
    <2>1. \A i \in 1 .. Len(gsFound) : \A j \in 1 .. Len(gsFound[i]) - 1 : GsAtRing(gsFound[i][j], j - 1)
      BY <1>2, <1>4 DEF GsPathsFar
    <2> SUFFICES ASSUME NEW i \in 1 .. Len(gsFound) + 1
                 PROVE  \A j \in 1 .. Len(gsFound'[i]) - 1 : GsAtRing(gsFound'[i][j], j - 1)
      BY <1>6
    <2>2. CASE i \in 1 .. Len(gsFound)
      BY <1>6, <2>1, <2>2
    <2>3. CASE i = Len(gsFound) + 1
      BY <1>6, <1>7, <2>3
    <2> QED
      BY <1>6, <2>2, <2>3
  <1>9. GsAtRing(gsAsked.to, Len(gsFound'[1]) - 1)
    <2>1. CASE gsFound = <<>>
      BY <1>6, <1>7, <2>1
    <2>2. CASE gsFound # <<>>
      <3>1. gsFound'[1] = gsFound[1]
        BY <1>4, <1>6, <2>2
      <3> QED
        BY <1>2, <2>2, <3>1 DEF GsPathsFar
    <2> QED
      BY <2>1, <2>2
  <1>10. gsFound' # <<>>
    BY <1>4, <1>6
  <1>11. GsPathsCover'
    <2>1. GsSeen(l, GsOther(e, l))'
      BY <1>0, <1>1, <1>4, <1>10 DEF GsSeen
    <2>2. \A n \in DOMAIN gsRing : GsExpanded(n) \/ GsPathQueued(n) \/ GsPathAtHand(n)
      BY <1>1, <1>2 DEF GsPathsFar, GsPathsCover
    <2>3. ASSUME NEW n \in DOMAIN gsRing PROVE GsExpanded(n)' \/ GsPathQueued(n)' \/ GsPathAtHand(n)'
      BY <1>0, <1>1, <1>4, <1>10, <2>1, <2>2, GsCoverStays
    <2> QED
      BY <1>4, <2>3 DEF GsPathsCover
  <1>12. GsInside' /\ GsPathsOrder' /\ GsStraight(gsAt)'
    <2>1. GsInside'
      BY <1>1, <1>2, <1>3, <1>4 DEF GsPathsFar, GsInside
    <2>2. GsPathsOrder'
      BY <1>1, <1>2, <1>4 DEF GsPathsFar, GsPathsOrder
    <2>3. GsStraight(gsAt)'
      BY <1>1, <1>2, <1>3, <1>4 DEF GsStraight
    <2> QED
      BY <2>1, <2>2, <2>3
  <1>13. (\A i \in DOMAIN gsQueue : GsStraight(gsQueue[i]))'
    BY <1>2, <1>3, <1>4 DEF GsPathsFar, GsStraight
  <1>14. (/\ \A i \in DOMAIN gsFound : \A j \in 1 .. Len(gsFound[i]) - 1 : GsAtRing(gsFound[i][j], j - 1)
          /\ gsFound # <<>> => GsAtRing(gsAsked.to, Len(gsFound[1]) - 1))'
    BY <1>1, <1>3, <1>8, <1>9
  <1>15. (gsAsked.from \in DOMAIN gsRing)'
    BY <1>1, <1>2, <1>4 DEF GsPathsFar
  <1> QED
    BY <1>11, <1>12, <1>13, <1>14, <1>15 DEF GsPathsFar

(* A neighbour that is passed over is known, at the depth, or skipped.         *)
LEMMA GsPassFar ==
    ASSUME GsPathsAll, NEW e \in gsLeft, GsHop(e), gsAsked.from # gsAsked.to,
           NEW m, m = GsOther(e, Last(gsAt)), GsHopPass(m)
    PROVE  GsPathsFar'
  <1>0. PICK l : l = Last(gsAt)
    OBVIOUS
  <1>1. /\ gsAsked.kind = "paths" /\ ~gsCut /\ gsAt # <<>>
        /\ gsLeft' = gsLeft \ {e} /\ (gsAt' = gsAt \/ (gsAt' = <<>> /\ gsLeft' = {}))
        /\ UNCHANGED <<gsGraph, gsAsked, gsVisited, gsCut>>
    BY GsHopEffect
  <1>2. /\ gsAt \in Seq(GsAll) /\ Len(gsAt) \in Nat \ {0} /\ GsStraight(gsAt) /\ GsPathsFar
        /\ l \in DOMAIN gsRing /\ gsRing[l] = Len(gsAt) - 1 /\ Len(gsAt) <= gsAsked.depth
        /\ gsAsked.depth \in Nat
    BY <1>0, GsHopFacts
  <1>3. (\A x : GsEdgesAt(x)' = GsEdgesAt(x)) /\ \A x, k : GsAtRing(x, k)' <=> GsAtRing(x, k)
    BY <1>1, GsSameDistances
  <1>4. /\ gsFound' = gsFound
        /\ gsQueue' = gsQueue /\ DOMAIN gsRing' = DOMAIN gsRing
        /\ \A x \in DOMAIN gsRing : gsRing'[x] = gsRing[x]
        /\ m \in ToSet(gsAt) \/ (m # gsAsked.to /\ ~GsQueueable(m, Len(gsAt)))
    BY DEF GsHopPass
  <1>5. GsSeen(l, m)'
    <2>1. CASE m \in ToSet(gsAt)
      <3>1. m \in DOMAIN gsRing /\ m # gsAsked.to
        BY <1>2, <2>1 DEF ToSet, GsStraight, GsPathsFar, GsInside
      <3> QED
        BY <1>1, <1>4, <3>1 DEF GsSeen
    <2>2. CASE m # gsAsked.to /\ ~GsQueueable(m, Len(gsAt))
      <3>1. CASE ~(Len(gsAt) < gsAsked.depth)
        <4>1. gsRing[l] + 1 = gsAsked.depth
          BY <1>2, <3>1
        <4> QED
          BY <1>1, <1>2, <1>4, <2>2, <4>1 DEF GsSeen
      <3>2. CASE m \in DOMAIN gsRing
        BY <1>1, <1>4, <2>2, <3>2 DEF GsSeen
      <3>3. CASE ~(gsVisited + Len(gsQueue) < 2 * GsPathCap)
        <4>1. gsVisited \in Nat /\ Len(gsQueue) \in Nat
          BY <1>1, GsPathFields, GsCaps DEF GsPathsAll, GsPathsCount
        <4>2. GsOverfull'
          BY <1>1, <1>4, <3>3, <4>1, GsCaps DEF GsOverfull
        <4>3. \A i \in DOMAIN gsQueue : Len(gsQueue[i]) - 1 <= gsRing[l] + 1
          <5>1. \A i \in DOMAIN gsQueue : Len(gsQueue[i]) <= Len(gsAt) + 1 /\ Len(gsQueue[i]) \in Nat
            BY <1>1, <1>2, GsPathFields DEF GsPathsFar, GsPathsOrder
          <5> QED
            BY <1>2, <5>1
        <4>4. gsAt' # <<>> => Len(gsAt') - 1 <= gsRing[l] + 1
          BY <1>1, <1>2
        <4>5. GsSkipped(l)'
          BY <1>2, <1>4, <4>2, <4>3, <4>4 DEF GsSkipped
        <4> QED
          BY <1>1, <2>2, <4>5 DEF GsSeen
      <3> QED
        BY <2>2, <3>1, <3>2, <3>3 DEF GsQueueable
    <2> QED
      BY <1>4, <2>1, <2>2
  <1>6. GsPathsCover'
    <2>1. GsSeen(l, GsOther(e, l))'
      BY <1>0, <1>5
    <2>2. \A n \in DOMAIN gsRing : GsExpanded(n) \/ GsPathQueued(n) \/ GsPathAtHand(n)
      BY <1>1, <1>2 DEF GsPathsFar, GsPathsCover
    <2>3. ASSUME NEW n \in DOMAIN gsRing PROVE GsExpanded(n)' \/ GsPathQueued(n)' \/ GsPathAtHand(n)'
      BY <1>0, <1>1, <1>4, <2>1, <2>2, GsCoverStays
    <2> QED
      BY <1>4, <2>3 DEF GsPathsCover
  <1>7. GsInside' /\ GsPathsOrder' /\ GsStraight(gsAt)'
    <2>1. GsInside'
      BY <1>1, <1>2, <1>3, <1>4 DEF GsPathsFar, GsInside
    <2>2. GsPathsOrder'
      BY <1>1, <1>2, <1>4 DEF GsPathsFar, GsPathsOrder
    <2>3. GsStraight(gsAt)'
      BY <1>1, <1>2, <1>3, <1>4 DEF GsStraight
    <2> QED
      BY <2>1, <2>2, <2>3
  <1>8. (\A i \in DOMAIN gsQueue : GsStraight(gsQueue[i]))'
    BY <1>2, <1>3, <1>4 DEF GsPathsFar, GsStraight
  <1>9. (/\ \A i \in DOMAIN gsFound : \A j \in 1 .. Len(gsFound[i]) - 1 : GsAtRing(gsFound[i][j], j - 1)
         /\ gsFound # <<>> => GsAtRing(gsAsked.to, Len(gsFound[1]) - 1))'
    BY <1>1, <1>2, <1>3, <1>4 DEF GsPathsFar
  <1>10. (gsAsked.from \in DOMAIN gsRing)'
    BY <1>1, <1>2, <1>4 DEF GsPathsFar
  <1> QED
    BY <1>6, <1>7, <1>8, <1>9, <1>10 DEF GsPathsFar

(* A neighbour that is queued is met for the first time, one step further out. *)
LEMMA GsQueueFar ==
    ASSUME GsPathsAll, NEW e \in gsLeft, GsHop(e), gsAsked.from # gsAsked.to,
           NEW m, m = GsOther(e, Last(gsAt)), GsHopQueue(m)
    PROVE  GsPathsFar'
  <1>0. PICK l : l = Last(gsAt)
    OBVIOUS
  <1>1. /\ gsAsked.kind = "paths" /\ ~gsCut /\ gsAt # <<>> /\ m \in GsAll
        /\ gsLeft' = gsLeft \ {e} /\ (gsAt' = gsAt \/ (gsAt' = <<>> /\ gsLeft' = {}))
        /\ UNCHANGED <<gsGraph, gsAsked, gsVisited, gsCut>>
    BY GsHopEffect
  <1>2. /\ gsAt \in Seq(GsAll) /\ Len(gsAt) \in Nat \ {0} /\ GsStraight(gsAt) /\ GsPathsFar
        /\ l \in DOMAIN gsRing /\ gsRing[l] = Len(gsAt) - 1 /\ Len(gsAt) <= gsAsked.depth
        /\ gsAsked.depth \in Nat /\ m \in GsBall(Len(gsAt))
        /\ ~GsOverfull => GsBall(Len(gsAt) - 1) \subseteq DOMAIN gsRing \cup {gsAsked.to}
    BY <1>0, GsHopFacts
  <1>3. (\A x : GsEdgesAt(x)' = GsEdgesAt(x)) /\ \A x, k : GsAtRing(x, k)' <=> GsAtRing(x, k)
    BY <1>1, GsSameDistances
  <1>4. gsQueue \in Seq(Seq(GsAll)) /\ Len(gsQueue) \in Nat /\ gsAsked.from \in GsAll
        /\ \A i \in DOMAIN gsQueue : gsQueue[i] \in Seq(GsAll) /\ Len(gsQueue[i]) \in Nat \ {0}
    BY <1>1, GsPathFields
  <1>5. /\ m # gsAsked.to /\ gsFound' = gsFound
        /\ DOMAIN gsRing' = DOMAIN gsRing \cup {m} /\ gsRing'[m] = Len(gsAt)
        /\ \A x \in DOMAIN gsRing \ {m} : gsRing'[x] = gsRing[x]
        /\ Len(gsAt) < gsAsked.depth
        /\ m \notin DOMAIN gsRing \/ Len(gsAt) < gsRing[m]
        /\ gsVisited + Len(gsQueue) < 2 * GsPathCap
    BY DEF GsHopQueue, GsQueueable
  <1>6. ~GsOverfull
    <2>1. gsVisited \in Nat
      BY <1>1, GsCaps DEF GsPathsAll, GsPathsCount
    <2> QED
      BY <1>4, <1>5, <2>1, GsCaps DEF GsOverfull
  <1>7. m \notin DOMAIN gsRing
    <2>1. m \in DOMAIN gsRing => gsRing[m] <= Len(gsAt) /\ gsRing[m] \in Nat
      BY <1>2, GsRingLeast DEF GsPathsFar, GsInside, GsAtRing
    <2> QED
      BY <1>2, <1>5, <2>1
  <1>8. GsAtRing(m, Len(gsAt))
    BY <1>2, <1>4, <1>5, <1>6, <1>7, GsFirstMet
  <1>9. \A x \in DOMAIN gsRing : gsRing'[x] = gsRing[x]
    BY <1>5, <1>7
  <1>10. PICK p : p = Append(gsAt, m)
    OBVIOUS
  <1>11. /\ p \in Seq(GsAll) /\ Len(p) = Len(gsAt) + 1 /\ Last(p) = m
         /\ DOMAIN p = 1 .. Len(gsAt) + 1 /\ p[Len(gsAt) + 1] = m
         /\ \A j \in 1 .. Len(gsAt) : p[j] = gsAt[j]
    BY <1>1, <1>2, <1>10 DEF Last
  <1>12. /\ gsQueue' = Append(gsQueue, p)
         /\ DOMAIN gsQueue' = 1 .. Len(gsQueue) + 1 /\ gsQueue'[Len(gsQueue) + 1] = p
         /\ DOMAIN gsQueue = 1 .. Len(gsQueue)
         /\ \A i \in 1 .. Len(gsQueue) : gsQueue'[i] = gsQueue[i]
    BY <1>4, <1>10, <1>11 DEF GsHopQueue
  <1>13. \A q : GsStraight(q) => GsStraight(q)'
    BY <1>3, <1>5 DEF GsStraight
  <1>14. GsStraight(p)'
    <2>1. \A j \in 1 .. Len(gsAt) : gsAt[j] \in DOMAIN gsRing /\ GsAtRing(gsAt[j], j - 1)
      BY <1>2 DEF GsStraight
    <2>2. ASSUME NEW j \in DOMAIN p PROVE p[j] \in DOMAIN gsRing' /\ GsAtRing(p[j], j - 1)
      <3>1. CASE j \in 1 .. Len(gsAt)
        BY <1>5, <1>11, <2>1, <3>1
      <3>2. CASE j = Len(gsAt) + 1
        <4>1. j - 1 = Len(gsAt)
          BY <1>2, <3>2
        <4> QED
          BY <1>5, <1>8, <1>11, <3>2, <4>1
      <3> QED
        BY <1>2, <1>11, <3>1, <3>2
    <2> QED
      BY <1>3, <2>2 DEF GsStraight
  <1>15. (\A i \in DOMAIN gsQueue : GsStraight(gsQueue[i]))'
    <2>1. ASSUME NEW i \in 1 .. Len(gsQueue) PROVE GsStraight(gsQueue'[i])
      BY <1>2, <1>12 DEF GsPathsFar
    <2>2. ASSUME NEW q, \E i \in DOMAIN gsQueue' : gsQueue'[i] = q PROVE GsStraight(q)'
      <3>1. PICK i \in 1 .. Len(gsQueue) + 1 : gsQueue'[i] = q
        BY <1>12, <2>2
      <3>2. CASE i \in 1 .. Len(gsQueue)
        BY <1>13, <2>1, <3>1, <3>2
      <3>3. CASE i = Len(gsQueue) + 1
        BY <1>12, <1>14, <3>1, <3>3
      <3> QED
        BY <1>4, <3>2, <3>3
    <2> QED
      BY <2>2
  <1>16. GsStraight(gsAt)'
    <2>1. CASE gsAt' = gsAt
      BY <1>2, <1>3, <1>5, <2>1 DEF GsStraight
    <2>2. CASE gsAt' = <<>>
      BY <2>2 DEF GsStraight
    <2> QED
      BY <1>1, <2>1, <2>2
  <1>17. GsInside'
    <2>1. \A n \in DOMAIN gsRing : n # gsAsked.to /\ GsAtRing(n, gsRing[n]) /\ gsRing[n] < gsAsked.depth
      BY <1>2 DEF GsPathsFar, GsInside
    <2>2. \A n \in DOMAIN gsRing' :
              n # gsAsked.to /\ GsAtRing(n, gsRing'[n]) /\ gsRing'[n] < gsAsked.depth
      BY <1>5, <1>8, <1>9, <2>1
    <2> QED
      BY <1>1, <1>3, <2>2 DEF GsInside
  <1>18. GsPathsOrder'
    <2>1. \A i \in DOMAIN gsQueue : /\ Len(gsAt) <= Len(gsQueue[i]) /\ Len(gsQueue[i]) <= Len(gsAt) + 1
                                    /\ Len(gsQueue[i]) \in Nat
      BY <1>1, <1>2, <1>4 DEF GsPathsFar, GsPathsOrder
    <2>2. ASSUME NEW i \in DOMAIN gsQueue' PROVE /\ Len(gsAt) <= Len(gsQueue'[i])
                                                 /\ Len(gsQueue'[i]) <= Len(gsAt) + 1
                                                 /\ Len(gsQueue'[i]) \in Nat
      <3>1. CASE i \in 1 .. Len(gsQueue)
        BY <1>12, <2>1, <3>1
      <3>2. CASE i = Len(gsQueue) + 1
        BY <1>2, <1>11, <1>12, <3>2
      <3> QED
        BY <1>4, <1>12, <3>1, <3>2
    <2>3. ASSUME NEW i \in DOMAIN gsQueue', NEW j \in DOMAIN gsQueue', i <= j
          PROVE  Len(gsQueue'[i]) <= Len(gsQueue'[j]) /\ Len(gsQueue'[j]) <= Len(gsQueue'[i]) + 1
      <3>1. CASE j \in 1 .. Len(gsQueue)
        <4>1. i \in 1 .. Len(gsQueue)
          BY <1>4, <1>12, <2>3, <3>1
        <4> QED
          BY <1>2, <1>12, <2>3, <3>1, <4>1 DEF GsPathsFar, GsPathsOrder
      <3>2. CASE j = Len(gsQueue) + 1
        <4>1. Len(gsQueue'[j]) = Len(gsAt) + 1
          BY <1>11, <1>12, <3>2
        <4> QED
          BY <1>2, <2>2, <4>1
      <3> QED
        BY <1>4, <1>12, <3>1, <3>2
    <2> QED
      BY <1>1, <2>2, <2>3 DEF GsPathsOrder
  <1>19. GsPathsCover'
    <2>1. GsSeen(l, GsOther(e, l))'
      BY <1>0, <1>1, <1>5 DEF GsSeen
    <2>2. \A n \in DOMAIN gsRing : GsExpanded(n) \/ GsPathQueued(n) \/ GsPathAtHand(n)
      BY <1>1, <1>2 DEF GsPathsFar, GsPathsCover
    <2>3. /\ DOMAIN gsRing \subseteq DOMAIN gsRing' /\ DOMAIN gsQueue \subseteq DOMAIN gsQueue'
          /\ \A i \in DOMAIN gsQueue : gsQueue'[i] = gsQueue[i]
          /\ gsFound # <<>> => gsFound' # <<>>
      BY <1>4, <1>5, <1>12
    <2>4. ASSUME NEW n \in DOMAIN gsRing PROVE GsExpanded(n)' \/ GsPathQueued(n)' \/ GsPathAtHand(n)'
      BY <1>0, <1>1, <1>6, <1>9, <2>1, <2>2, <2>3, GsCoverStays
    <2>5. GsPathQueued(m)'
      <3>1. Len(gsQueue) + 1 \in DOMAIN gsQueue' /\ Last(gsQueue'[Len(gsQueue) + 1]) = m
        BY <1>4, <1>11, <1>12
      <3> QED
        BY <3>1 DEF GsPathQueued
    <2> QED
      BY <1>5, <2>4, <2>5 DEF GsPathsCover
  <1>20. (/\ \A i \in DOMAIN gsFound : \A j \in 1 .. Len(gsFound[i]) - 1 : GsAtRing(gsFound[i][j], j - 1)
          /\ gsFound # <<>> => GsAtRing(gsAsked.to, Len(gsFound[1]) - 1))'
    BY <1>1, <1>2, <1>3, <1>5 DEF GsPathsFar
  <1>21. (gsAsked.from \in DOMAIN gsRing)'
    BY <1>1, <1>2, <1>5 DEF GsPathsFar
  <1> QED
    BY <1>15, <1>16, <1>17, <1>18, <1>19, <1>20, <1>21 DEF GsPathsFar

LEMMA GsInitPaths == GsInit => GsPathsAll
  <1> SUFFICES ASSUME GsInit PROVE GsPathsAll
    OBVIOUS
  <1>1. GsAskedFully /\ GsInv
    BY GsInitInv DEF GsInit, GsAskedFully
  <1>2. ASSUME gsAsked.kind = "paths" PROVE GsPathsCount /\ (gsAsked.from # gsAsked.to => GsPathsFar)
    <2>1. /\ gsQueue = <<<<gsAsked.from>>>> /\ gsAt = <<>> /\ gsFound = <<>> /\ gsCut = FALSE
          /\ gsVisited = 0
          /\ DOMAIN gsRing = {gsAsked.from} /\ gsRing[gsAsked.from] = 0
          /\ gsDone => ~({gsAsked.from, gsAsked.to} \ {"none"} \subseteq GsKnown)
      BY <1>2 DEF GsInit
    <2>2. GsAtRing(gsAsked.from, 0) /\ gsAsked.depth \in Nat \ {0}
      BY <1>1, GsBallStep, GsBlastFields DEF GsAtRing
    <2>3. GsPathsCount
      BY <2>1, GsCaps DEF GsPathsCount
    <2>4. ASSUME gsAsked.from # gsAsked.to PROVE GsPathsFar
      <3>1. GsInside
        BY <2>1, <2>2, <2>4 DEF GsInside
      <3>2. (\A i \in DOMAIN gsQueue : GsStraight(gsQueue[i])) /\ GsStraight(gsAt)
        BY <2>1, <2>2 DEF GsStraight
      <3>3. GsPathsOrder
        BY <2>1 DEF GsPathsOrder
      <3>4. GsPathQueued(gsAsked.from)
        BY <2>1 DEF GsPathQueued, Last
      <3> QED
        BY <2>1, <3>1, <3>2, <3>3, <3>4 DEF GsPathsFar, GsPathsCover
    <2> QED
      BY <2>3, <2>4
  <1> QED
    BY <1>1, <1>2 DEF GsPathsAll

LEMMA GsHopFar ==
    ASSUME GsPathsAll, NEW e \in gsLeft, GsHop(e), gsAsked.from # gsAsked.to
    PROVE  GsPathsFar'
  <1>1. PICK m : m = GsOther(e, Last(gsAt))
    OBVIOUS
  <1>2. GsHopHit(m) \/ GsHopQueue(m) \/ GsHopPass(m)
    BY <1>1, GsHopEffect
  <1> QED
    BY <1>1, <1>2, GsHitFar, GsQueueFar, GsPassFar

LEMMA GsStepPaths == GsPathsAll /\ [GsNext]_gsVars => GsPathsAll'
  <1> SUFFICES ASSUME GsPathsAll, [GsNext]_gsVars PROVE GsPathsAll'
    OBVIOUS
  <1>1. GsInv'
    BY GsPopKeeps, GsHopKeeps, GsTakeKeeps, GsTouchKeeps, GsReturnKeeps DEF GsNext, GsPathsAll
  <1>2. UNCHANGED <<gsGraph, gsAsked>>
    BY DEF GsNext, GsReturn, GsPop, GsTake, GsHop, GsTouch, gsVars
  <1>3. GsAskedFully'
    BY <1>2, GsSameDistances DEF GsPathsAll
  <1>4. ASSUME gsAsked.kind = "paths" PROVE GsPathsCount' /\ (gsAsked.from # gsAsked.to => GsPathsFar')
    <2>1. CASE GsReturn \/ UNCHANGED gsVars
      <3>1. /\ UNCHANGED <<gsQueue, gsAt, gsLeft, gsVisited, gsRing, gsFound, gsCut>>
            /\ (gsDone' <=> gsDone) \/ (gsDone' /\ gsAt = <<>> /\ gsQueue = <<>>)
        BY <2>1 DEF GsReturn, GsIdle, gsVars
      <3>2. GsPathsCount /\ (\A m : GsEdgesAt(m)' = GsEdgesAt(m)) /\ GsKnown' = GsKnown
            /\ \A m, k : GsAtRing(m, k)' <=> GsAtRing(m, k)
        BY <1>2, <1>4, GsSameDistances DEF GsPathsAll
      <3>3. GsPathsCount'
        BY <1>2, <3>1, <3>2 DEF GsPathsCount
      <3>4. ASSUME gsAsked.from # gsAsked.to PROVE GsPathsFar'
        <4>1. GsPathsFar
          BY <1>4, <3>4 DEF GsPathsAll
        <4>2. GsInside' /\ GsPathsOrder'
          BY <1>2, <3>1, <3>2, <4>1 DEF GsPathsFar, GsInside, GsPathsOrder
        <4>3. (\A i \in DOMAIN gsQueue : GsStraight(gsQueue[i]))' /\ GsStraight(gsAt)'
          BY <3>1, <3>2, <4>1 DEF GsPathsFar, GsStraight
        <4>4. \A n, m : GsSeen(n, m)' <=> GsSeen(n, m)
          BY <1>2, <3>1 DEF GsSeen, GsSkipped, GsOverfull
        <4>5. GsPathsCover'
          BY <3>1, <3>2, <4>1, <4>4
             DEF GsPathsFar, GsPathsCover, GsExpanded, GsPathQueued, GsPathAtHand
        <4> QED
          BY <1>2, <3>1, <3>2, <4>1, <4>2, <4>3, <4>5 DEF GsPathsFar
      <3> QED
        BY <3>3, <3>4
    <2>2. CASE GsPop
      BY <2>2, GsPopFar
    <2>3. CASE \E e \in gsLeft : GsHop(e)
      BY <2>3, GsHopCount, GsHopFar
    <2>4. ~GsTake /\ ~\E e \in gsLeft : GsTouch(e)
      BY <1>4 DEF GsTake, GsTouch
    <2> QED
      BY <2>1, <2>2, <2>3, <2>4 DEF GsNext
  <1> QED
    BY <1>1, <1>2, <1>3, <1>4 DEF GsPathsAll

(* No path leads from a node to itself.                                        *)
LEMMA GsNoLoop ==
    ASSUME GsPathsAll, gsAsked.kind = "paths", gsAsked.from = gsAsked.to
    PROVE  gsFound = <<>>
  <1> SUFFICES ASSUME gsFound # <<>> PROVE FALSE
    OBVIOUS
  <1>1. GsPathsInv /\ GsPathsCount
    BY DEF GsPathsAll, GsInv
  <1>2. PICK path : path = gsFound[1]
    OBVIOUS
  <1>3. 1 \in DOMAIN gsFound
    BY <1>1 DEF GsPathsInv
  <1>4. path \in Seq(GsAll) /\ GsWalk(path) /\ Last(path) = gsAsked.from /\ Len(path) >= 2
    BY <1>1, <1>2, <1>3 DEF GsPathsInv, GsPathsCount
  <1>5. Len(path) \in DOMAIN path /\ 1 \in DOMAIN path /\ path[1] = path[Len(path)]
    BY <1>4 DEF GsWalk, Last
  <1>6. Len(path) = 1
    BY <1>4, <1>5 DEF GsWalk, IsInjective
  <1>7. ~(Len(path) >= 2)
    BY <1>6
  <1> QED
    BY <1>4, <1>7

(* A search that ended of itself expanded all there was within the depth.      *)
LEMMA GsAllSearched ==
    ASSUME GsPathsAll, gsAsked.kind = "paths", gsAsked.from # gsAsked.to,
           gsDone, ~gsCut, {gsAsked.from, gsAsked.to} \subseteq GsKnown, gsFound = <<>>
    PROVE  gsAsked.to \notin GsBall(gsAsked.depth)
  <1>1. GsPathsCount /\ GsPathsFar /\ GsInside
    BY DEF GsPathsAll, GsPathsFar
  <1>2. gsAt = <<>> /\ gsQueue = <<>> /\ gsVisited \in Nat /\ gsVisited <= GsPathCap
    BY <1>1, GsCaps DEF GsPathsCount
  <1>3. ~GsOverfull
    BY <1>2, GsCaps DEF GsOverfull
  <1>4. \A n \in DOMAIN gsRing : GsExpanded(n) /\ ~GsSkipped(n)
    BY <1>1, <1>2, <1>3 DEF GsPathsFar, GsPathsCover, GsPathQueued, GsPathAtHand, GsSkipped
  <1>5. gsAsked.depth \in Nat \ {0} /\ gsAsked.from \in GsAll
    BY GsPathFields
  <1>6. \A n \in DOMAIN gsRing : gsRing[n] \in Nat
    BY <1>1 DEF GsInside, GsAtRing
  <1>7. GsDrained(gsAsked.depth)
    BY <1>4 DEF GsDrained
  <1>8. GsSettled(gsAsked.depth - 1)
    BY <1>4, <1>5, <1>6 DEF GsSettled
  <1> QED
    BY <1>1, <1>5, <1>7, <1>8, GsTargetAway

LEMMA GsPathsAllSound == ASSUME GsPathsAll PROVE GsPathsSound
  <1> SUFFICES ASSUME gsAsked.kind = "paths"
               PROVE  /\ GsPathsWalk
                      /\ \A i \in DOMAIN gsFound : \A j \in 1 .. Len(gsFound[i]) - 1 :
                            GsDistance(gsFound[i][j]) = j - 1
                      /\ gsFound # <<>> => Len(gsFound[1]) - 1 = GsDistance(gsAsked.to)
                      /\ gsDone /\ ~gsCut /\ gsAsked.from # gsAsked.to /\ {gsAsked.from, gsAsked.to} \subseteq GsKnown
                            => (gsFound # <<>> <=> gsAsked.to \in GsBall(gsAsked.depth))
    BY DEF GsPathsSound
  <1>1. GsPathsInv /\ GsPathsCount /\ (gsAsked.from # gsAsked.to => GsPathsFar)
    BY DEF GsPathsAll, GsInv
  <1>2. GsPathsWalk
    BY <1>1 DEF GsPathsInv, GsPathsWalk
  <1>3. CASE gsAsked.from = gsAsked.to
    <2>1. gsFound = <<>> /\ DOMAIN gsFound = {}
      BY <1>3, GsNoLoop
    <2> QED
      BY <1>2, <1>3, <2>1
  <1>4. CASE gsAsked.from # gsAsked.to
    <2>1. GsPathsFar
      BY <1>1, <1>4
    <2>2. gsAsked.depth \in 1 .. GsMaxDepth /\ GsMaxDepth \in Nat /\ gsAsked.from \in GsAll
      BY GsPathFields
    <2>3. ASSUME NEW i \in DOMAIN gsFound
          PROVE  gsFound[i] \in Seq(GsAll) /\ Len(gsFound[i]) >= 2 /\ Len(gsFound[i]) - 1 \in 0 .. gsAsked.depth
                 /\ Len(gsFound[i]) \in Nat
      <3>1. PICK path : path = gsFound[i]
        OBVIOUS
      <3>2. path \in Seq(GsAll) /\ GsWalk(path) /\ Len(path) >= 2
        BY <1>1, <3>1 DEF GsPathsInv, GsPathsCount
      <3>3. Len(path) \in Nat /\ Len(path) - 1 <= gsAsked.depth
        BY <3>2 DEF GsWalk
      <3> QED
        BY <2>2, <3>1, <3>2, <3>3
    <2>4. ASSUME NEW i \in DOMAIN gsFound, NEW j \in 1 .. Len(gsFound[i]) - 1
          PROVE  GsDistance(gsFound[i][j]) = j - 1
      <3>1. GsAtRing(gsFound[i][j], j - 1)
        BY <2>1, <2>4 DEF GsPathsFar
      <3>2. j - 1 \in 0 .. GsMaxDepth
        BY <2>2, <2>3, <2>4
      <3> QED
        BY <3>1, <3>2, GsRingIsDistance
    <2>5. ASSUME gsFound # <<>>
          PROVE  /\ Len(gsFound[1]) - 1 = GsDistance(gsAsked.to)
                 /\ gsAsked.to \in GsBall(gsAsked.depth)
      <3>1. 1 \in DOMAIN gsFound
        BY <1>1, <2>5 DEF GsPathsInv
      <3>2. GsAtRing(gsAsked.to, Len(gsFound[1]) - 1)
        BY <2>1, <2>5 DEF GsPathsFar
      <3>3. PICK k : k = Len(gsFound[1]) - 1
        OBVIOUS
      <3>4. k \in 0 .. GsMaxDepth /\ k <= gsAsked.depth /\ k \in Nat /\ gsAsked.depth \in Nat
        BY <2>2, <2>3, <3>1, <3>3
      <3>5. GsBall(k) \subseteq GsBall(gsAsked.depth)
        BY <2>2, <3>4, GsBallGrows
      <3> QED
        BY <3>2, <3>3, <3>4, <3>5, GsRingIsDistance DEF GsAtRing
    <2>6. ASSUME gsDone, ~gsCut, {gsAsked.from, gsAsked.to} \subseteq GsKnown
          PROVE  gsFound # <<>> <=> gsAsked.to \in GsBall(gsAsked.depth)
      BY <1>4, <2>5, <2>6, GsAllSearched
    <2> QED
      BY <1>2, <2>4, <2>5, <2>6
  <1> QED
    BY <1>3, <1>4

(* find_attack_paths: whatever the graph and the order of its rows, each path  *)
(* answered goes outwards without a detour to the target's last step, the      *)
(* first is a shortest one, and a search that was not cut misses no target     *)
(* within the depth.                                                           *)
THEOREM PathsSound == GsSpec => []GsPathsSound
  <1>1. GsSpec => []GsPathsAll
    BY GsInitPaths, GsStepPaths, PTL DEF GsSpec
  <1>2. GsPathsAll => GsPathsSound
    BY GsPathsAllSound
  <1> QED
    BY <1>1, <1>2, PTL

-----------------------------------------------------------------------------
(* Types.  The searches share their variables: what is not the search's own    *)
(* stays as it began.                                                          *)
GsOwn == gsAsked.kind = "blast" => gsVisited = 0 /\ gsFound = <<>>

LEMMA GsKnownEnds ==
    ASSUME NEW n, NEW e \in GsEdgesAt(n)
    PROVE  e \in GsObserved(gsGraph) /\ GsOther(e, n) \in GsKnown
  BY DEF GsEdgesAt, GsOther, GsKnown, GsNodes

LEMMA GsInitTyped == GsInit => GsTypeOK /\ GsOwn
  <1> SUFFICES ASSUME GsInit PROVE GsTypeOK /\ GsOwn
    OBVIOUS
  <1>1. GsPathsAll
    BY GsInitPaths
  <1>2. /\ gsAsked \in GsRequests(gsGraph) /\ gsLeft = {} /\ gsTouched = {} /\ GsOwn
        /\ gsVisited = 0 /\ Len(gsFound) = 0
        /\ DOMAIN gsRing = {gsAsked.from} /\ gsRing[gsAsked.from] = 0
    BY DEF GsInit, GsOwn
  <1>3. gsAsked.depth \in Nat
    BY <1>1, GsBlastFields DEF GsPathsAll
  <1> QED
    BY <1>2, <1>3, GsCaps DEF GsTypeOK

LEMMA GsStepTyped ==
    GsPathsAll /\ GsPathsAll' /\ GsTypeOK /\ GsOwn /\ [GsNext]_gsVars => GsTypeOK' /\ GsOwn'
  <1> SUFFICES ASSUME GsPathsAll, GsPathsAll', GsTypeOK, GsOwn, [GsNext]_gsVars PROVE GsTypeOK' /\ GsOwn'
    OBVIOUS
  <1>1. UNCHANGED <<gsGraph, gsAsked>>
    BY DEF GsNext, GsReturn, GsPop, GsTake, GsHop, GsTouch, gsVars
  <1>2. GsOwn'
    BY <1>1 DEF GsOwn, GsNext, GsReturn, GsPop, GsTake, GsHop, GsTouch, gsVars
  <1>3. gsVisited' \in 0 .. GsPathCap + 1 /\ Len(gsFound') <= GsMaxPaths
    <2>1. CASE gsAsked.kind = "paths"
      BY <1>1, <2>1 DEF GsPathsAll, GsPathsCount
    <2>2. CASE gsAsked.kind = "blast"
      <3>1. gsVisited' = 0 /\ Len(gsFound') = 0
        BY <1>1, <1>2, <2>2 DEF GsOwn
      <3> QED
        BY <3>1, GsCaps
    <2> QED
      BY <2>1, <2>2 DEF GsPathsAll, GsInv, GsAskedInv
  <1>4. gsAsked' \in GsRequests(gsGraph')
    BY <1>1 DEF GsTypeOK
  <1>5. /\ GsKnown' = GsKnown /\ GsObserved(gsGraph)' = GsObserved(gsGraph)
        /\ \A n : GsEdgesAt(n)' = GsEdgesAt(n)
    BY <1>1, GsSameDistances
  <1>6. gsAsked.depth \in Nat /\ gsAsked.depth' = gsAsked.depth
    BY <1>1, GsBlastFields DEF GsPathsAll
  <1>7. gsLeft' \subseteq GsObserved(gsGraph) /\ gsTouched' \subseteq GsObserved(gsGraph)
    <2>1. gsLeft' \subseteq gsLeft \/ \E n : gsLeft' \subseteq GsEdgesAt(n)
      BY DEF GsNext, GsReturn, GsPop, GsTake, GsHop, GsTouch, gsVars
    <2>2. gsTouched' \subseteq gsTouched \cup gsLeft
      BY DEF GsNext, GsReturn, GsPop, GsTake, GsHop, GsTouch, gsVars
    <2> QED
      BY <2>1, <2>2, GsKnownEnds DEF GsTypeOK, GsEdgesAt
  <1>8. ASSUME NEW n \in DOMAIN gsRing' PROVE n \in GsKnown \cup {gsAsked.from} /\ gsRing'[n] \in 0 .. gsAsked.depth
    <2>1. CASE UNCHANGED gsRing
      BY <2>1, <1>8 DEF GsTypeOK
    <2>2. ASSUME NEW e \in gsLeft, GsHop(e)
          PROVE  n \in GsKnown \cup {gsAsked.from} /\ gsRing'[n] \in 0 .. gsAsked.depth
      <3>1. PICK m : m = GsOther(e, Last(gsAt))
        OBVIOUS
      <3>2. /\ gsAsked.kind = "paths" /\ e \in GsEdgesAt(Last(gsAt)) /\ gsAt # <<>>
            /\ GsHopHit(m) \/ GsHopQueue(m) \/ GsHopPass(m)
        BY <2>2, <3>1, GsHopEffect
      <3>3. m \in GsKnown /\ Len(gsAt) \in Nat
        BY <3>1, <3>2, GsKnownEnds, GsPathFields
      <3>4. CASE n \in DOMAIN gsRing /\ gsRing'[n] = gsRing[n]
        BY <3>4 DEF GsTypeOK
      <3>5. CASE n = m /\ gsRing'[n] = Len(gsAt) /\ GsQueueable(m, Len(gsAt))
        BY <1>6, <3>3, <3>5 DEF GsQueueable
      <3>6. (n \in DOMAIN gsRing /\ gsRing'[n] = gsRing[n])
            \/ (n = m /\ gsRing'[n] = Len(gsAt) /\ GsQueueable(m, Len(gsAt)))
        BY <1>8, <3>2 DEF GsHopHit, GsHopQueue, GsHopPass
      <3> QED
        BY <3>4, <3>5, <3>6
    <2>3. ASSUME NEW e \in gsLeft, GsTouch(e)
          PROVE  n \in GsKnown \cup {gsAsked.from} /\ gsRing'[n] \in 0 .. gsAsked.depth
      <3>1. gsAsked.kind = "blast" /\ gsAt # <<>>
        BY <2>3 DEF GsTouch
      <3>2. GsBlastInv /\ GsBlastInv'
        BY <1>1, <3>1 DEF GsPathsAll, GsInv
      <3>3. gsRing'[n] \in 0 .. gsAsked.depth
        BY <1>6, <1>8, <3>2 DEF GsBlastInv
      <3>4. e \in GsEdgesAt(gsAt[1])
        BY <3>1, <3>2 DEF GsBlastInv
      <3>5. n \in DOMAIN gsRing \/ n = GsOther(e, gsAt[1])
        BY <1>8, <2>3 DEF GsTouch
      <3> QED
        BY <3>3, <3>4, <3>5, GsKnownEnds DEF GsTypeOK
    <2>4. UNCHANGED gsRing \/ \E e \in gsLeft : GsHop(e) \/ GsTouch(e)
      BY DEF GsNext, GsReturn, GsPop, GsTake, gsVars
    <2> QED
      BY <2>1, <2>2, <2>3, <2>4
  <1>9. (gsVisited \in 0 .. GsPathCap + 1 /\ Len(gsFound) <= GsMaxPaths)'
    BY <1>3
  <1> QED
    BY <1>1, <1>2, <1>4, <1>5, <1>6, <1>7, <1>8, <1>9 DEF GsTypeOK

(* Both searches keep to the observed edges of the graph, and their counts and *)
(* rings to the caps and to the depth.                                         *)
THEOREM SearchTyped == GsSpec => []GsTypeOK
  <1>1. GsPathsAll /\ [GsNext]_gsVars => GsPathsAll'
    BY GsStepPaths
  <1> QED
    BY <1>1, GsInitPaths, GsInitTyped, GsStepTyped, PTL DEF GsSpec
=============================================================================
