--------------------------- MODULE Evidence_proofs --------------------------
(* What is reported of a capture, for any flows and any order of the bursts;   *)
(* and the stages of an analysis together.                                     *)
EXTENDS Evidence, Extraction_proofs, GraphSearch_proofs

-----------------------------------------------------------------------------
(* Detection.  The flows two hosts failed to connect with, and what is         *)
(* reported of them.                                                           *)
SeFlows(F) ==
    F \subseteq SeFlow /\ IsFiniteSet(F) /\ \A f \in F : f.failed => f.transport = "TCP"
SeFailed(F, p) == {f \in F : f.failed /\ SePair(f) = p}
SeReports == {"port_scan", "excessive_connection_failures"}
SeAbout(A, p) == {a \in A : <<a.src, a.dst>> = p /\ a.rule \in SeReports}
SeSole(A, p, G) == \E x : SeAbout(A, p) = {x} /\ x.flows = G

LEMMA SeOneOf ==
    ASSUME NEW G \in SUBSET SeFlow, IsFiniteSet(G), G # {}
    PROVE  SeOne(G) \in G
  <1>1. \A f \in G : f.first \in Int /\ f.n \in Int
    BY DEF SeFlow
  <1> DEFINE Firsts == {-(f.first) : f \in G}
  <1>2. IsFiniteSet(Firsts) /\ Firsts \in SUBSET Int /\ Firsts # {}
    <2>1. PICK of : of = [f \in G |-> -(f.first)]
      OBVIOUS
    <2>2. IsFiniteSet({of[f] : f \in G})
      BY <2>1, FiniteImage
    <2>3. Firsts = {of[f] : f \in G}
      BY <2>1
    <2>4. \A x \in Firsts : x \in Int
      BY <1>1
    <2>5. \E x : x \in Firsts
      OBVIOUS
    <2> HIDE DEF Firsts
    <2> QED
      BY <2>2, <2>3, <2>4, <2>5
  <1>3. PICK m \in Firsts : \A x \in Firsts : x <= m
    <2> HIDE DEF Firsts
    <2> QED
      BY <1>2, FiniteGreatest
  <1>4. PICK e \in G : m = -(e.first)
    BY <1>3
  <1>5. \A f \in G : e.first <= f.first
    <2>1. \A f \in G : -(f.first) <= -(e.first)
      BY <1>3, <1>4
    <2> QED
      BY <1>1, <1>4, <2>1
  <1> DEFINE Early == {f \in G : f.first = e.first}
             Numbers == {-(f.n) : f \in Early}
  <1>6. IsFiniteSet(Early) /\ Early # {}
    BY <1>4, FS_Subset
  <1>7. IsFiniteSet(Numbers) /\ Numbers \in SUBSET Int /\ Numbers # {}
    <2>1. PICK of : of = [f \in Early |-> -(f.n)]
      OBVIOUS
    <2>2. IsFiniteSet({of[f] : f \in Early})
      <3> HIDE DEF Early
      <3> QED
        BY <1>6, <2>1, FiniteImage
    <2>3. Numbers = {of[f] : f \in Early}
      BY <2>1
    <2>4. \A x \in Numbers : x \in Int
      BY <1>1
    <2>5. \E x : x \in Numbers
      BY <1>6
    <2> HIDE DEF Numbers
    <2> QED
      BY <2>2, <2>3, <2>4, <2>5
  <1>8. PICK k \in Numbers : \A x \in Numbers : x <= k
    <2> HIDE DEF Numbers
    <2> QED
      BY <1>7, FiniteGreatest
  <1>9. PICK h \in Early : k = -(h.n)
    BY <1>8
  <1>10. \A f \in Early : h.n <= f.n
    <2>1. \A f \in Early : -(f.n) <= -(h.n)
      BY <1>8, <1>9
    <2> QED
      BY <1>1, <1>9, <2>1
  <1>11. h \in G /\ \A g \in G : h.first < g.first \/ (h.first = g.first /\ h.n <= g.n)
    <2>1. h \in G /\ h.first = e.first
      BY <1>9
    <2>2. ASSUME NEW g \in G PROVE h.first < g.first \/ (h.first = g.first /\ h.n <= g.n)
      <3>1. CASE g.first = e.first
        BY <1>10, <2>1, <3>1
      <3>2. CASE g.first # e.first
        BY <1>1, <1>4, <1>5, <2>1, <3>2
      <3> QED
        BY <3>1, <3>2
    <2> QED
      BY <2>1, <2>2
  <1> QED
    BY <1>11 DEF SeOne

LEMMA SeAlertFields ==
    ASSUME NEW rule, NEW src, NEW dst, NEW what, NEW score, NEW flows
    PROVE  /\ SeAlert(rule, src, dst, what, score, flows).rule = rule
           /\ SeAlert(rule, src, dst, what, score, flows).src = src
           /\ SeAlert(rule, src, dst, what, score, flows).dst = dst
           /\ SeAlert(rule, src, dst, what, score, flows).flows = flows
  BY DEF SeAlert

(* A group of the failed flows is what failed between two hosts.               *)
LEMMA SeFailedGroups ==
    ASSUME NEW F, SeFlows(F), NEW G
    PROVE  G \in SeGroups({f \in F : f.failed}, SePair) <=>
               \E p : G = SeFailed(F, p) /\ G # {}
  <1>1. G \in SeGroups({f \in F : f.failed}, SePair) <=>
            \E k \in {SePair(f) : f \in {g \in F : g.failed}} :
                G = {f \in {g \in F : g.failed} : SePair(f) = k}
    BY DEF SeGroups
  <1>2. \A k : {f \in {g \in F : g.failed} : SePair(f) = k} = SeFailed(F, k)
    BY DEF SeFailed
  <1>3. \A k : k \in {SePair(f) : f \in {g \in F : g.failed}} <=> SeFailed(F, k) # {}
    BY DEF SeFailed
  <1> QED
    BY <1>1, <1>2, <1>3

LEMMA SeScanGroups ==
    ASSUME NEW F, SeFlows(F)
    PROVE  {f \in F : f.transport = "TCP" /\ f.failed} = {f \in F : f.failed}
  BY DEF SeFlows

LEMMA SeFailedFacts ==
    ASSUME NEW F, SeFlows(F), NEW p, SeFailed(F, p) # {}
    PROVE  /\ IsFiniteSet(SeFailed(F, p)) /\ SeFailed(F, p) \in SUBSET SeFlow
           /\ SeOne(SeFailed(F, p)) \in SeFailed(F, p)
           /\ <<SeOne(SeFailed(F, p)).src, SeOne(SeFailed(F, p)).dst>> = p
           /\ Cardinality(SeFailed(F, p)) \in Nat /\ Cardinality(SePorts(SeFailed(F, p))) \in Nat
           /\ Cardinality(SePorts(SeFailed(F, p))) <= Cardinality(SeFailed(F, p))
  <1>1. PICK G : G = SeFailed(F, p)
    OBVIOUS
  <1>2. IsFiniteSet(G) /\ G \in SUBSET SeFlow
    BY <1>1, FS_Subset DEF SeFailed, SeFlows
  <1>3. SeOne(G) \in G
    BY <1>1, <1>2, SeOneOf
  <1>4. <<SeOne(G).src, SeOne(G).dst>> = p
    BY <1>1, <1>3 DEF SeFailed, SePair
  <1>5. IsFiniteSet(SePorts(G)) /\ Cardinality(SePorts(G)) <= Cardinality(G)
    <2>1. PICK of : of = [f \in G |-> f.port]
      OBVIOUS
    <2>2. IsFiniteSet({of[f] : f \in G}) /\ Cardinality({of[f] : f \in G}) <= Cardinality(G)
      BY <1>2, <2>1, FiniteImage
    <2>3. SePorts(G) = {of[f] : f \in G}
      BY <2>1 DEF SePorts
    <2> QED
      BY <2>2, <2>3
  <1> QED
    BY <1>1, <1>2, <1>3, <1>4, <1>5, FS_CardinalityType

(* Alerts that tell of the failures of the pairs in Q, one of each.            *)
SePairs(F) == {SePair(f) : f \in F}
SeMany(F) == {p \in SePairs(F) : Cardinality(SePorts(SeFailed(F, p))) >= 10}
SeFew(F) ==
    {p \in SePairs(F) : Cardinality(SePorts(SeFailed(F, p))) < 10 /\ Cardinality(SeFailed(F, p)) >= 5}
SeTells(A, F, Q) ==
    /\ \A a \in A : a.rule \in SeReports /\ <<a.src, a.dst>> \in Q /\ a.flows = SeFailed(F, <<a.src, a.dst>>)
    /\ \A p \in Q : \E a \in A : <<a.src, a.dst>> = p
    /\ \A a, b \in A : <<a.src, a.dst>> = <<b.src, b.dst>> => a = b
SeReported(A) == {a \in A : a.rule \in SeReports}

SeScanScore(G) ==
    (350 + 4 * SeAtMost(Cardinality(SePorts(G)), 100)
         + IF Max({f.last : f \in G}) - Min({f.first : f \in G}) = 0 THEN 250
           ELSE SeAtMost((5 * Cardinality(SePorts(G))) \div (Max({f.last : f \in G}) - Min({f.first : f \in G})),
                         250)) \div 10
SeScan(G) == SeAlert("port_scan", SeOne(G).src, SeOne(G).dst, SeNone, SeScanScore(G), G)
SeExcess(G) ==
    SeAlert("excessive_connection_failures", SeOne(G).src, SeOne(G).dst, SeNone, 30 + 5 * Cardinality(G), G)

LEMMA SeScanOf ==
    ASSUME NEW F, SeFlows(F), NEW p, SeFailed(F, p) # {}
    PROVE  /\ <<SeScan(SeFailed(F, p)).src, SeScan(SeFailed(F, p)).dst>> = p
           /\ SeScan(SeFailed(F, p)).flows = SeFailed(F, p)
           /\ SeScan(SeFailed(F, p)).rule = "port_scan"
           /\ <<SeExcess(SeFailed(F, p)).src, SeExcess(SeFailed(F, p)).dst>> = p
           /\ SeExcess(SeFailed(F, p)).flows = SeFailed(F, p)
           /\ SeExcess(SeFailed(F, p)).rule = "excessive_connection_failures"
  <1>1. PICK G : G = SeFailed(F, p)
    OBVIOUS
  <1>2. <<SeOne(G).src, SeOne(G).dst>> = p
    BY <1>1, SeFailedFacts
  <1>3. /\ SeScan(G).src = SeOne(G).src /\ SeScan(G).dst = SeOne(G).dst
        /\ SeScan(G).flows = G /\ SeScan(G).rule = "port_scan"
    BY SeAlertFields DEF SeScan
  <1>4. /\ SeExcess(G).src = SeOne(G).src /\ SeExcess(G).dst = SeOne(G).dst
        /\ SeExcess(G).flows = G /\ SeExcess(G).rule = "excessive_connection_failures"
    BY SeAlertFields DEF SeExcess
  <1> QED
    BY <1>1, <1>2, <1>3, <1>4

LEMMA SeSomeFailed ==
    ASSUME NEW F, SeFlows(F), NEW p
    PROVE  /\ SeFailed(F, p) # {} => p \in SePairs(F)
           /\ SeFailed(F, p) = {} => Cardinality(SeFailed(F, p)) = 0 /\ Cardinality(SePorts(SeFailed(F, p))) = 0
  <1>1. SeFailed(F, p) # {} => p \in SePairs(F)
    BY DEF SeFailed, SePairs
  <1>2. SeFailed(F, p) = {} => SePorts(SeFailed(F, p)) = {}
    BY DEF SePorts
  <1> QED
    BY <1>1, <1>2, FS_EmptySet

LEMMA SePortScanIs ==
    ASSUME NEW e
    PROVE  SePortScan(e) = {SeScan(G) : G \in {H \in SeGroups({f \in e.flows : f.transport = "TCP" /\ f.failed}, SePair) :
                                                   Cardinality(SePorts(H)) >= 10}}
  BY DEF SePortScan, SeScan, SeScanScore

LEMMA SeExcessiveIs ==
    ASSUME NEW e
    PROVE  SeExcessiveFailures(e) =
              {SeExcess(G) : G \in {H \in SeGroups({f \in e.flows : f.failed}, SePair) :
                                       Cardinality(SePorts(H)) < 10 /\ Cardinality(H) >= 5}}
  BY DEF SeExcessiveFailures, SeExcess

LEMMA SeScansTell ==
    ASSUME NEW e, SeFlows(e.flows)
    PROVE  SeTells(SePortScan(e), e.flows, SeMany(e.flows))
  <1>1. PICK F : F = e.flows
    OBVIOUS
  <1>2. PICK A : A = SePortScan(e)
    OBVIOUS
  <1>3. SeFlows(F)
    BY <1>1
  <1>4. \A p : Cardinality(SePorts(SeFailed(F, p))) >= 10 => SeFailed(F, p) # {} /\ p \in SePairs(F)
    BY <1>3, SeSomeFailed
  <1>5. A = {SeScan(G) : G \in {H \in SeGroups({f \in F : f.failed}, SePair) : Cardinality(SePorts(H)) >= 10}}
    BY <1>1, <1>2, <1>3, SePortScanIs, SeScanGroups
  <1>6. \A a : a \in A <=> \E p \in SeMany(F) : a = SeScan(SeFailed(F, p))
    <2>1. ASSUME NEW p \in SeMany(F) PROVE SeScan(SeFailed(F, p)) \in A
      <3>1. SeFailed(F, p) \in SeGroups({f \in F : f.failed}, SePair)
        BY <1>3, <1>4, SeFailedGroups DEF SeMany
      <3> QED
        BY <1>5, <3>1 DEF SeMany
    <2>2. ASSUME NEW a \in A PROVE \E p \in SeMany(F) : a = SeScan(SeFailed(F, p))
      <3>1. PICK G \in SeGroups({f \in F : f.failed}, SePair) : Cardinality(SePorts(G)) >= 10 /\ a = SeScan(G)
        BY <1>5
      <3>2. PICK p : G = SeFailed(F, p)
        BY <1>3, SeFailedGroups
      <3>3. p \in SeMany(F)
        BY <1>4, <3>1, <3>2 DEF SeMany
      <3> QED
        BY <3>1, <3>2, <3>3
    <2> QED
      BY <2>1, <2>2
  <1>7. \A p \in SeMany(F) : /\ <<SeScan(SeFailed(F, p)).src, SeScan(SeFailed(F, p)).dst>> = p
                             /\ SeScan(SeFailed(F, p)).flows = SeFailed(F, p)
                             /\ SeScan(SeFailed(F, p)).rule \in SeReports
    BY <1>3, <1>4, SeScanOf DEF SeMany, SeReports
  <1>8. ASSUME NEW a \in A
        PROVE  a.rule \in SeReports /\ <<a.src, a.dst>> \in SeMany(F) /\ a = SeScan(SeFailed(F, <<a.src, a.dst>>))
               /\ a.flows = SeFailed(F, <<a.src, a.dst>>)
    BY <1>6, <1>7
  <1>9. SeTells(A, F, SeMany(F))
    BY <1>6, <1>7, <1>8 DEF SeTells
  <1> QED
    BY <1>1, <1>2, <1>9

LEMMA SeExcessiveTell ==
    ASSUME NEW e, SeFlows(e.flows)
    PROVE  SeTells(SeExcessiveFailures(e), e.flows, SeFew(e.flows))
  <1>1. PICK F : F = e.flows
    OBVIOUS
  <1>2. PICK A : A = SeExcessiveFailures(e)
    OBVIOUS
  <1>3. SeFlows(F)
    BY <1>1
  <1>4. \A p : Cardinality(SeFailed(F, p)) >= 5 => SeFailed(F, p) # {} /\ p \in SePairs(F)
    BY <1>3, SeSomeFailed
  <1>5. A = {SeExcess(G) : G \in {H \in SeGroups({f \in F : f.failed}, SePair) :
                                      Cardinality(SePorts(H)) < 10 /\ Cardinality(H) >= 5}}
    BY <1>1, <1>2, SeExcessiveIs
  <1>6. \A a : a \in A <=> \E p \in SeFew(F) : a = SeExcess(SeFailed(F, p))
    <2>1. ASSUME NEW p \in SeFew(F) PROVE SeExcess(SeFailed(F, p)) \in A
      <3>1. SeFailed(F, p) \in SeGroups({f \in F : f.failed}, SePair)
        BY <1>3, <1>4, SeFailedGroups DEF SeFew
      <3> QED
        BY <1>5, <3>1 DEF SeFew
    <2>2. ASSUME NEW a \in A PROVE \E p \in SeFew(F) : a = SeExcess(SeFailed(F, p))
      <3>1. PICK G \in SeGroups({f \in F : f.failed}, SePair) :
                Cardinality(SePorts(G)) < 10 /\ Cardinality(G) >= 5 /\ a = SeExcess(G)
        BY <1>5
      <3>2. PICK p : G = SeFailed(F, p)
        BY <1>3, SeFailedGroups
      <3>3. p \in SeFew(F)
        BY <1>4, <3>1, <3>2 DEF SeFew
      <3> QED
        BY <3>1, <3>2, <3>3
    <2> QED
      BY <2>1, <2>2
  <1>7. \A p \in SeFew(F) : /\ <<SeExcess(SeFailed(F, p)).src, SeExcess(SeFailed(F, p)).dst>> = p
                            /\ SeExcess(SeFailed(F, p)).flows = SeFailed(F, p)
                            /\ SeExcess(SeFailed(F, p)).rule \in SeReports
    BY <1>3, <1>4, SeScanOf DEF SeFew, SeReports
  <1>8. ASSUME NEW a \in A
        PROVE  a.rule \in SeReports /\ <<a.src, a.dst>> \in SeFew(F) /\ a = SeExcess(SeFailed(F, <<a.src, a.dst>>))
               /\ a.flows = SeFailed(F, <<a.src, a.dst>>)
    BY <1>6, <1>7
  <1>9. SeTells(A, F, SeFew(F))
    BY <1>6, <1>7, <1>8 DEF SeTells
  <1> QED
    BY <1>1, <1>2, <1>9

LEMMA SeBothTell ==
    ASSUME NEW F, NEW A, NEW B, NEW Q, NEW R, SeTells(A, F, Q), SeTells(B, F, R), \A p \in Q : p \notin R
    PROVE  SeTells(A \cup B, F, Q \cup R)
  BY DEF SeTells

(* The other rules report something else.                                      *)
SeDirect(e) ==
    {f \in SeOutbound(e.flows) : f.transport = "TCP" /\ f.dst \notin SeResolved(e) /\ f.port # 80}
SeDirectScore(G) == 50 + SeAtMost(Cardinality(G), 20) + SeIf(SeBytes(G) > 10000, 10)
SeLoud(e) ==
    {g \in {f.src : f \in SeOutbound(e.flows)} :
        /\ SeBytes(SeOutbound(e.flows)) >= 50000
        /\ 10 * SeBytes({f \in SeOutbound(e.flows) : f.src = g}) >= 7 * SeBytes(SeOutbound(e.flows))
        /\ SeBytes({f \in SeOutbound(e.flows) : f.src = g}) >= 20000}
SeLeakScore(e, G) ==
    SeIf(SeNth(SeGroups(SeOutbound(e.flows), SePair), SeBytes,
               Cardinality(SeGroups(SeOutbound(e.flows), SePair)) \div 2 + 1) > 0
         /\ SeBytes(G) > 20 * SeNth(SeGroups(SeOutbound(e.flows), SePair), SeBytes,
                                    Cardinality(SeGroups(SeOutbound(e.flows), SePair)) \div 2 + 1), 35)
    + SeIf(SeOne(G).dst \notin SeResolved(e), 25)
    + SeIf(\A f \in G : f.last - f.first < 30, 15)
SeLeaks(e) ==
    {H \in SeGroups(SeOutbound(e.flows), SePair) : SeBytes(H) >= 100000 /\ SeLeakScore(e, H) > 0}
SeSays(a, rule) == \E src, dst, what, score, flows : a = SeAlert(rule, src, dst, what, score, flows)

(* An alert and its date.                                                      *)
SeRecord(a) ==
    a = [rule |-> a.rule, src |-> a.src, dst |-> a.dst, what |-> a.what, score |-> a.score,
         severity |-> a.severity, flows |-> a.flows, at |-> a.at]

LEMMA SeSaid ==
    ASSUME NEW rule, NEW a, SeSays(a, rule)
    PROVE  SeRecord(a) /\ a.rule = rule
  BY DEF SeSays, SeAlert, SeRecord

LEMMA SeDatedFields ==
    ASSUME NEW a, SeRecord(a), NEW e
    PROVE  /\ SeRecord(SeDated(a, e)) /\ SeDated(a, e).rule = a.rule
           /\ SeDated(a, e).src = a.src /\ SeDated(a, e).dst = a.dst /\ SeDated(a, e).flows = a.flows
  <1>1. PICK at : at = IF a.flows # {} THEN SeOne(a.flows).first ELSE IF e.dns # <<>> THEN e.dns[1].at ELSE 0
    OBVIOUS
  <1>2. SeDated(a, e) = [a EXCEPT !.at = at]
    BY <1>1 DEF SeDated
  <1>3. SeDated(a, e) = [rule |-> a.rule, src |-> a.src, dst |-> a.dst, what |-> a.what, score |-> a.score,
                         severity |-> a.severity, flows |-> a.flows, at |-> at]
    BY <1>2 DEF SeRecord
  <1> QED
    BY <1>3 DEF SeRecord

LEMMA SeOtherRules ==
    ASSUME NEW e, NEW n \in 1 .. 14, n # 1, n # 6
    PROVE  \A a \in SeRule(n, e) : SeRecord(a) /\ a.rule \notin SeReports
  <1>2. \A a \in SeBeaconing(e) : SeSays(a, "beaconing")
    BY ZenonT(20) DEF SeBeaconing, SeSays
  <1>3. \A a \in SeDnsTunneling(e) : SeSays(a, "dns_tunneling")
    BY ZenonT(20) DEF SeDnsTunneling, SeSays
  <1>4. \A a \in SeNxdomainBurst(e) : SeSays(a, "nxdomain_burst")
    BY ZenonT(20) DEF SeNxdomainBurst, SeSays
  <1>5. \A a \in SeSuspiciousPort(e) : SeSays(a, "suspicious_port")
    BY ZenonT(20) DEF SeSuspiciousPort, SeSays
  <1>7. \A a \in SeConnectionWithoutDns(e) : SeSays(a, "connection_without_dns")
    <2>1. SeConnectionWithoutDns(e) = {SeAlert("connection_without_dns", SeOne(G).src, SeOne(G).dst, SeOne(G).port,
                                              SeDirectScore(G), G) : G \in SeGroups(SeDirect(e), SeTarget)}
      BY DEF SeConnectionWithoutDns, SeDirect, SeDirectScore
    <2> QED
      BY <2>1, ZenonT(20) DEF SeSays
  <1>8. \A a \in SeHighOutboundVolume(e) : SeSays(a, "high_outbound_volume")
    <2>1. SeHighOutboundVolume(e) = {SeAlert("high_outbound_volume", h, SeNone, SeNone, 55, {}) : h \in SeLoud(e)}
      BY DEF SeHighOutboundVolume, SeLoud
    <2> QED
      BY <2>1, ZenonT(20) DEF SeSays
  <1>9. \A a \in SeArpSpoofing(e) : SeSays(a, "arp_spoofing")
    BY ZenonT(20) DEF SeArpSpoofing, SeSays
  <1>10. \A a \in SeLateralMovement(e) : SeSays(a, "lateral_movement")
    BY ZenonT(20) DEF SeLateralMovement, SeSays
  <1>11. \A a \in SeDgaDomains(e) : SeSays(a, "dga_domain")
    BY ZenonT(20) DEF SeDgaDomains, SeSays
  <1>12. \A a \in SeDataExfiltration(e) : SeSays(a, "data_exfiltration")
    <2>1. SeDataExfiltration(e) = {SeAlert("data_exfiltration", SeOne(G).src, SeOne(G).dst, SeNone,
                                          SeLeakScore(e, G) + 20, G) : G \in SeLeaks(e)}
      BY DEF SeDataExfiltration, SeLeaks, SeLeakScore
    <2> QED
      BY <2>1, ZenonT(20) DEF SeSays
  <1>13. \A a \in SeLowSlowBeaconing(e) : SeSays(a, "low_slow_beaconing")
    BY ZenonT(20) DEF SeLowSlowBeaconing, SeSays
  <1>14. \A a \in SeSuspiciousUserAgent(e) : SeSays(a, "suspicious_user_agent")
    BY ZenonT(20) DEF SeSuspiciousUserAgent, SeSays
  <1>15. \A a, rule : SeSays(a, rule) => SeRecord(a) /\ a.rule = rule
    BY SeSaid
  <1> QED
    BY <1>2, <1>3, <1>4, <1>5, <1>7, <1>8, <1>9, <1>10, <1>11, <1>12, <1>13, <1>14, <1>15
    DEF SeRule, SeReports

LEMMA SeReportedUnion ==
    ASSUME NEW A, NEW B
    PROVE  SeReported(A \cup B) = SeReported(A) \cup SeReported(B)
  BY DEF SeReported

LEMMA SeTwoRules ==
    ASSUME NEW e, SeFlows(e.flows)
    PROVE  \A a \in SePortScan(e) \cup SeExcessiveFailures(e) : SeRecord(a)
  <1>1. \A G : SeSays(SeScan(G), "port_scan")
    BY ZenonT(20) DEF SeSays, SeScan
  <1>2. \A G : SeSays(SeExcess(G), "excessive_connection_failures")
    BY ZenonT(20) DEF SeSays, SeExcess
  <1>3. \A a \in SePortScan(e) : \E G : a = SeScan(G)
    BY SePortScanIs
  <1>4. \A a \in SeExcessiveFailures(e) : \E G : a = SeExcess(G)
    BY SeExcessiveIs
  <1> QED
    BY <1>1, <1>2, <1>3, <1>4, SeSaid

(* Dates change nothing in what the alerts tell.                               *)
LEMMA SeDatedTell ==
    ASSUME NEW A, NEW e, NEW F, NEW Q, \A a \in A : SeRecord(a), SeTells(SeReported(A), F, Q)
    PROVE  /\ \A a \in {SeDated(b, e) : b \in A} : SeRecord(a)
           /\ SeTells(SeReported({SeDated(b, e) : b \in A}), F, Q)
  <1>1. PICK D : D = {SeDated(b, e) : b \in A}
    OBVIOUS
  <1>2. \A b \in A : /\ SeRecord(SeDated(b, e)) /\ SeDated(b, e).rule = b.rule
                     /\ SeDated(b, e).src = b.src /\ SeDated(b, e).dst = b.dst /\ SeDated(b, e).flows = b.flows
    BY SeDatedFields
  <1>3. \A d : d \in SeReported(D) <=> \E b \in SeReported(A) : d = SeDated(b, e)
    BY <1>1, <1>2 DEF SeReported
  <1>4. \A b \in SeReported(A) : b \in A
    BY DEF SeReported
  <1>5. ASSUME NEW d \in SeReported(D)
        PROVE  d.rule \in SeReports /\ <<d.src, d.dst>> \in Q /\ d.flows = SeFailed(F, <<d.src, d.dst>>)
    BY <1>2, <1>3, <1>4 DEF SeTells
  <1>6. ASSUME NEW p \in Q PROVE \E d \in SeReported(D) : <<d.src, d.dst>> = p
    <2>1. PICK b \in SeReported(A) : <<b.src, b.dst>> = p
      BY DEF SeTells
    <2>2. SeDated(b, e) \in SeReported(D)
      BY <1>3
    <2> QED
      BY <1>2, <1>4, <2>1, <2>2
  <1>7. ASSUME NEW c \in SeReported(D), NEW d \in SeReported(D), <<c.src, c.dst>> = <<d.src, d.dst>>
        PROVE  c = d
    <2>1. PICK a \in SeReported(A) : c = SeDated(a, e)
      BY <1>3
    <2>2. PICK b \in SeReported(A) : d = SeDated(b, e)
      BY <1>3
    <2>3. <<a.src, a.dst>> = <<b.src, b.dst>>
      BY <1>2, <1>4, <1>7, <2>1, <2>2
    <2> QED
      BY <2>1, <2>2, <2>3 DEF SeTells
  <1>8. SeTells(SeReported(D), F, Q)
    BY <1>5, <1>6, <1>7 DEF SeTells
  <1> QED
    BY <1>1, <1>2, <1>8

(* What the alerts tell after each step.                                       *)
SeTold(step, F) ==
    IF step \in 0 .. 1 THEN {} ELSE IF step \in 2 .. 6 THEN SeMany(F) ELSE SeMany(F) \cup SeFew(F)
SeInv ==
    /\ seCapture \in SeCaptures /\ seStep \in 0 .. 18 /\ SeFlows(seEvidence.flows)
    /\ \A a \in seAlerts : SeRecord(a)
    /\ SeTells(SeReported(seAlerts), seEvidence.flows, SeTold(seStep, seEvidence.flows))
    /\ seStep = 0 => seAlerts = {}

LEMMA SeBegins == SeInit => SeInv
  <1> SUFFICES ASSUME SeInit PROVE SeInv
    OBVIOUS
  <1>1. seEvidence.flows = {} /\ seStep = 0 /\ seAlerts = {}
    BY DEF SeInit, SeNothing
  <1>2. SeFlows({}) /\ SeTold(0, {}) = {} /\ SeReported({}) = {}
    BY FS_EmptySet DEF SeFlows, SeTold, SeReported
  <1>3. SeTells({}, {}, {})
    BY DEF SeTells
  <1>4. seCapture \in SeCaptures
    BY DEF SeInit
  <1>5. SeFlows(seEvidence.flows)
    BY <1>1, <1>2
  <1>6. SeReported(seAlerts) = {} /\ SeTold(seStep, seEvidence.flows) = {}
    BY <1>1, <1>2 DEF SeTold
  <1>7. SeTells(SeReported(seAlerts), seEvidence.flows, SeTold(seStep, seEvidence.flows))
    BY <1>6 DEF SeTells
  <1>8. seStep \in 0 .. 18 /\ (seStep = 0 => seAlerts = {}) /\ \A a \in seAlerts : SeRecord(a)
    BY <1>1
  <1> QED
    BY <1>4, <1>5, <1>7, <1>8 DEF SeInv

LEMMA SeKept == SeInv /\ [SeNext]_seVars => SeInv'
  <1> SUFFICES ASSUME SeInv, [SeNext]_seVars PROVE SeInv'
    OBVIOUS
  <1>0. /\ seCapture \in SeCaptures /\ seStep \in 0 .. 18 /\ SeFlows(seEvidence.flows)
        /\ \A a \in seAlerts : SeRecord(a)
        /\ SeTells(SeReported(seAlerts), seEvidence.flows, SeTold(seStep, seEvidence.flows))
        /\ seStep = 0 => seAlerts = {}
    BY DEF SeInv
  <1>1. ASSUME NEW b \in seCapture, SeObserve(b) PROVE SeInv'
    <2>1. seEvidence'.flows = seEvidence.flows \cup b.flows
      BY <1>1 DEF SeObserve
    <2>2. b.flows \subseteq SeFlow /\ IsFiniteSet(b.flows) /\ \A f \in b.flows : f.failed => f.transport = "TCP"
      BY <1>0, SeAssumption
    <2>3. SeFlows(seEvidence.flows \cup b.flows)
      BY <1>0, <2>2, FS_Union DEF SeFlows
    <2>4. seStep = 0 /\ seAlerts = {} /\ seStep' = 0 /\ seAlerts' = {} /\ seCapture' = seCapture
      BY <1>0, <1>1 DEF SeObserve
    <2>5. SeReported({}) = {} /\ SeTold(0, seEvidence'.flows) = {} /\ SeTells({}, seEvidence'.flows, {})
      BY DEF SeTells, SeTold, SeReported
    <2> QED
      BY <1>0, <2>1, <2>3, <2>4, <2>5 DEF SeInv
  <1>2. CASE SeRun
    <2>1. seStep = 0 /\ seStep' = 1 /\ UNCHANGED <<seCapture, seEvidence, seAlerts>>
      BY <1>2 DEF SeRun
    <2>2. \A F : SeTold(0, F) = {} /\ SeTold(1, F) = {}
      BY DEF SeTold
    <2> QED
      BY <1>0, <2>1, <2>2 DEF SeInv
  <1>3. CASE SeApplyRule
    <2>1. PICK e : e = seEvidence
      OBVIOUS
    <2>2. PICK n : n = seStep
      OBVIOUS
    <2>3. n \in 1 .. 14 /\ seStep' = n + 1 /\ seAlerts' = seAlerts \cup SeRule(n, e)
          /\ UNCHANGED <<seCapture, seEvidence>>
      BY <1>3, <2>1, <2>2 DEF SeApplyRule
    <2>4. SeReported(seAlerts') = SeReported(seAlerts) \cup SeReported(SeRule(n, e))
      BY <2>3, SeReportedUnion
    <2>5. (\A a \in SeRule(n, e) : SeRecord(a))
          /\ SeTells(SeReported(seAlerts) \cup SeReported(SeRule(n, e)), e.flows, SeTold(n + 1, e.flows))
      <3>1. CASE n = 1
        <4>1. SeRule(n, e) = SePortScan(e)
          BY <3>1 DEF SeRule
        <4>2. SeTells(SePortScan(e), e.flows, SeMany(e.flows)) /\ \A a \in SePortScan(e) : SeRecord(a)
          BY <1>0, <2>1, SeScansTell, SeTwoRules
        <4>3. SeReported(SePortScan(e)) = SePortScan(e)
          BY <4>2 DEF SeTells, SeReported
        <4>4. SeTold(n, e.flows) = {} /\ SeTold(n + 1, e.flows) = SeMany(e.flows)
          BY <3>1 DEF SeTold
        <4>5. SeTells(SeReported(seAlerts) \cup SePortScan(e), e.flows, {} \cup SeMany(e.flows))
          BY <1>0, <2>1, <2>2, <4>2, <4>4, SeBothTell
        <4> QED
          BY <4>1, <4>2, <4>3, <4>4, <4>5
      <3>2. CASE n = 6
        <4>1. SeRule(n, e) = SeExcessiveFailures(e)
          BY <3>2 DEF SeRule
        <4>2. SeTells(SeExcessiveFailures(e), e.flows, SeFew(e.flows)) /\ \A a \in SeExcessiveFailures(e) : SeRecord(a)
          BY <1>0, <2>1, SeExcessiveTell, SeTwoRules
        <4>3. SeReported(SeExcessiveFailures(e)) = SeExcessiveFailures(e)
          BY <4>2 DEF SeTells, SeReported
        <4>4. SeTold(n, e.flows) = SeMany(e.flows) /\ SeTold(n + 1, e.flows) = SeMany(e.flows) \cup SeFew(e.flows)
          BY <3>2 DEF SeTold
        <4>5. \A p \in SeMany(e.flows) : p \notin SeFew(e.flows)
          <5>1. \A p \in SeMany(e.flows) : Cardinality(SePorts(SeFailed(e.flows, p))) \in Nat
            <6>1. ASSUME NEW p \in SeMany(e.flows) PROVE Cardinality(SePorts(SeFailed(e.flows, p))) \in Nat
              BY <1>0, <2>1, SeFailedFacts, SeSomeFailed
            <6> QED
              BY <6>1
          <5> QED
            BY <5>1 DEF SeMany, SeFew
        <4>6. SeTells(SeReported(seAlerts) \cup SeExcessiveFailures(e), e.flows, SeMany(e.flows) \cup SeFew(e.flows))
          BY <1>0, <2>1, <2>2, <4>2, <4>4, <4>5, SeBothTell
        <4> QED
          BY <4>1, <4>2, <4>3, <4>4, <4>6
      <3>3. CASE n # 1 /\ n # 6
        <4>1. \A a \in SeRule(n, e) : SeRecord(a) /\ a.rule \notin SeReports
          BY <2>3, <3>3, SeOtherRules
        <4>2. SeReported(SeRule(n, e)) = {}
          BY <4>1 DEF SeReported
        <4>3. SeTold(n + 1, e.flows) = SeTold(n, e.flows)
          BY <2>3, <3>3 DEF SeTold
        <4> QED
          BY <1>0, <2>1, <2>2, <4>1, <4>2, <4>3
      <3> QED
        BY <3>1, <3>2, <3>3
    <2>6. n + 1 \in 0 .. 18 /\ n + 1 # 0
      BY <2>3
    <2> QED
      BY <1>0, <2>1, <2>3, <2>4, <2>5, <2>6 DEF SeInv
  <1>4. CASE SeDate
    <2>1. PICK e : e = seEvidence
      OBVIOUS
    <2>2. seStep = 15 /\ seStep' = 16 /\ UNCHANGED <<seCapture, seEvidence>>
          /\ seAlerts' = {SeDated(a, e) : a \in seAlerts}
      BY <1>4, <2>1 DEF SeDate
    <2>3. SeTold(15, e.flows) = SeTold(16, e.flows)
      BY DEF SeTold
    <2>4. /\ \A a \in {SeDated(b, e) : b \in seAlerts} : SeRecord(a)
          /\ SeTells(SeReported({SeDated(b, e) : b \in seAlerts}), e.flows, SeTold(15, e.flows))
      BY <1>0, <2>1, <2>2, SeDatedTell
    <2> QED
      BY <1>0, <2>1, <2>2, <2>3, <2>4 DEF SeInv
  <1>5. CASE SeAugment
    <2>1. seStep = 16 /\ seStep' = 17 /\ UNCHANGED <<seCapture, seEvidence, seAlerts>>
      BY <1>5 DEF SeAugment
    <2>2. \A F : SeTold(17, F) = SeTold(16, F)
      BY DEF SeTold
    <2> QED
      BY <1>0, <2>1, <2>2 DEF SeInv
  <1>6. CASE SePersist
    <2>1. seStep = 17 /\ seStep' = 18 /\ UNCHANGED <<seCapture, seEvidence, seAlerts>>
      BY <1>6 DEF SePersist
    <2>2. \A F : SeTold(18, F) = SeTold(17, F)
      BY DEF SeTold
    <2> QED
      BY <1>0, <2>1, <2>2 DEF SeInv
  <1>7. CASE UNCHANGED seVars
    BY <1>0, <1>7 DEF seVars, SeInv
  <1> QED
    BY <1>1, <1>2, <1>3, <1>4, <1>5, <1>6, <1>7 DEF SeNext

LEMMA SeInvCounted == SeInv => SeFailuresCounted
  <1> SUFFICES ASSUME SeInv, seStep > 6, NEW p \in SePairs(seEvidence.flows)
               PROVE  LET failed == {f \in seEvidence.flows : f.failed /\ SePair(f) = p}
                          about == {a \in seAlerts : /\ <<a.src, a.dst>> = p
                              /\ a.rule \in {"port_scan", "excessive_connection_failures"}}
                      IN  /\ Cardinality(about) = IF Cardinality(failed) >= 5 THEN 1 ELSE 0
                          /\ \A a \in about : a.flows = failed
    BY DEF SeFailuresCounted, SePairs
  <1>1. PICK F : F = seEvidence.flows
    OBVIOUS
  <1>2. PICK A : A = SeReported(seAlerts)
    OBVIOUS
  <1>3. SeFlows(F) /\ SeTells(A, F, SeMany(F) \cup SeFew(F)) /\ p \in SePairs(F)
    <2>1. SeTold(seStep, F) = SeMany(F) \cup SeFew(F)
      BY DEF SeInv, SeTold
    <2> QED
      BY <1>1, <1>2, <2>1 DEF SeInv
  <1>4. PICK failed : failed = SeFailed(F, p)
    OBVIOUS
  <1>5. PICK about : about = {a \in A : <<a.src, a.dst>> = p}
    OBVIOUS
  <1>6. p \in SeMany(F) \cup SeFew(F) <=> Cardinality(failed) >= 5
    <2>1. CASE failed = {}
      <3>1. Cardinality(failed) = 0 /\ Cardinality(SePorts(failed)) = 0
        BY <1>3, <1>4, <2>1, SeSomeFailed
      <3> QED
        BY <1>3, <1>4, <3>1 DEF SeMany, SeFew
    <2>2. CASE failed # {}
      <3>1. /\ Cardinality(failed) \in Nat /\ Cardinality(SePorts(failed)) \in Nat
            /\ Cardinality(SePorts(failed)) <= Cardinality(failed)
        BY <1>3, <1>4, <2>2, SeFailedFacts
      <3> QED
        BY <1>3, <1>4, <3>1 DEF SeMany, SeFew
    <2> QED
      BY <2>1, <2>2
  <1>7. \A a \in about : a.flows = failed
    BY <1>3, <1>4, <1>5 DEF SeTells
  <1>8. Cardinality(about) = IF Cardinality(failed) >= 5 THEN 1 ELSE 0
    <2>1. CASE Cardinality(failed) >= 5
      <3>1. PICK a \in A : <<a.src, a.dst>> = p
        BY <1>3, <1>6, <2>1 DEF SeTells
      <3>2. about = {a}
        BY <1>3, <1>5, <3>1 DEF SeTells
      <3> QED
        BY <2>1, <3>2, FS_Singleton
    <2>2. CASE ~(Cardinality(failed) >= 5)
      <3>1. about = {}
        BY <1>3, <1>5, <1>6, <2>2 DEF SeTells
      <3> QED
        BY <2>2, <3>1, FS_EmptySet
    <2> QED
      BY <2>1, <2>2
  <1>9. about = {a \in seAlerts : <<a.src, a.dst>> = p /\ a.rule \in {"port_scan", "excessive_connection_failures"}}
    BY <1>2, <1>5 DEF SeReported, SeReports
  <1>10. failed = {f \in seEvidence.flows : f.failed /\ SePair(f) = p}
    BY <1>1, <1>4 DEF SeFailed
  <1> QED
    BY <1>7, <1>8, <1>9, <1>10

(* Five failed connections between two hosts are reported, once, by the rule   *)
(* for many ports or by the one for few, with all of their flows; fewer are    *)
(* reported by neither: whatever the bursts of a capture are.                  *)
THEOREM FailuresCounted == SeSpec => []SeFailuresCounted
  <1>1. SeInit => SeInv
    BY SeBegins
  <1>2. SeInv /\ [SeNext]_seVars => SeInv'
    BY SeKept
  <1>3. SeInv => SeFailuresCounted
    BY SeInvCounted
  <1> QED
    BY <1>1, <1>2, <1>3, PTL DEF SeSpec

-----------------------------------------------------------------------------
(* What every rule raises, whatever it is about: finitely many alerts, each of *)
(* a host of the evidence, with a number for a score and flows that are there. *)
SeEvident(e) ==
    /\ SeFlows(e.flows) /\ \A f \in e.flows : f.first <= f.last
    /\ e.dns \in Seq(SeTransaction) /\ e.http \in Seq(SeRequest)
    /\ e.arp \subseteq SeClaim /\ IsFiniteSet(e.arp)
SeWell(e, a) ==
    \E rule, src, dst, what, score, flows :
        /\ a = SeAlert(rule, src, dst, what, score, flows)
        /\ src \in SeHosts(e) /\ score \in Int /\ flows \subseteq e.flows
SeRaised(e, A) == IsFiniteSet(A) /\ \A a \in A : SeWell(e, a)

LEMMA SeRaise ==
    ASSUME NEW e, NEW S, IsFiniteSet(S), NEW f, f = [x \in S |-> f[x]], \A x \in S : SeWell(e, f[x]),
           NEW A, A = {f[x] : x \in S}
    PROVE  SeRaised(e, A)
  <1>1. DOMAIN f = S
    OBVIOUS
  <1>2. IsFiniteSet(A)
    BY <1>1, FiniteImage
  <1> QED
    BY <1>2 DEF SeRaised

LEMMA PairFinite ==
    ASSUME NEW a, NEW b
    PROVE  IsFiniteSet({a, b})
  <1>1. IsFiniteSet({a}) /\ {a, b} = {a} \cup {b}
    BY FS_Singleton
  <1> QED
    BY <1>1, FS_AddElement

LEMMA SeAtMostInt ==
    ASSUME NEW a \in Int, NEW b \in Int
    PROVE  SeAtMost(a, b) \in Int /\ SeAtMost(a, b) <= b
  <1>1. IsFiniteSet({a, b})
    BY PairFinite
  <1>2. SeAtMost(a, b) \in {a, b} /\ \A x \in {a, b} : SeAtMost(a, b) <= x
    BY <1>1, FiniteLeast DEF SeAtMost
  <1> QED
    BY <1>2

LEMMA SeClamped ==
    ASSUME NEW n \in Int
    PROVE  SeClamp(n) \in 0 .. 100
  <1>1. PICK m : m = Min({100, n})
    OBVIOUS
  <1>2. IsFiniteSet({100, n}) /\ {100, n} \in SUBSET Int
    BY PairFinite
  <1>3. m \in Int /\ m <= 100
    BY <1>1, <1>2, FiniteLeast
  <1>4. PICK ends : ends = {0, m}
    OBVIOUS
  <1>5. PICK k : k = Max(ends)
    OBVIOUS
  <1>6. k \in ends /\ 0 <= k
    <2>1. IsFiniteSet(ends) /\ ends \in SUBSET Int /\ 0 \in ends
      BY <1>3, <1>4, PairFinite
    <2> QED
      BY <1>5, <2>1, FiniteGreatest
  <1>7. SeClamp(n) = k
    BY <1>1, <1>4, <1>5 DEF SeClamp
  <1> QED
    BY <1>3, <1>4, <1>6, <1>7

LEMMA SeHostsOf ==
    ASSUME NEW e, SeEvident(e)
    PROVE  /\ \A f \in e.flows : f.src \in SeHosts(e)
           /\ \A i \in DOMAIN e.dns : e.dns[i].client \in SeHosts(e)
           /\ \A i \in DOMAIN e.http : e.http[i].client \in SeHosts(e)
           /\ \A c \in e.arp : c.ip \in SeHosts(e)
  <1>1. \A f \in e.flows : f.src \in SeHosts(e)
    BY DEF SeHosts
  <1>2. \A c \in e.arp : c.ip \in SeHosts(e)
    BY DEF SeHosts
  <1>3. \A t \in ToSet(e.dns) \cup ToSet(e.http) : t.client \in SeHosts(e)
    BY DEF SeHosts
  <1>4. /\ \A i \in DOMAIN e.dns : e.dns[i] \in ToSet(e.dns)
        /\ \A i \in DOMAIN e.http : e.http[i] \in ToSet(e.http)
    BY DEF ToSet
  <1> QED
    BY <1>1, <1>2, <1>3, <1>4

(* Groups of flows: finitely many, none empty.                                 *)
SeGrouped(S, P) == P \in SUBSET (SUBSET S) /\ {} \notin P

LEMMA SeGroupsOf ==
    ASSUME NEW S
    PROVE  SeGrouped(S, SeGroups(S, SePair)) /\ SeGrouped(S, SeGroups(S, SeTarget))
           /\ SeGrouped(S, SeGroups(S, LAMBDA f : f.src))
  <1>1. SeGrouped(S, SeGroups(S, SePair))
    BY DEF SeGrouped, SeGroups
  <1>2. SeGrouped(S, SeGroups(S, SeTarget))
    BY DEF SeGrouped, SeGroups
  <1>3. SeGrouped(S, SeGroups(S, LAMBDA f : f.src))
    BY DEF SeGrouped, SeGroups
  <1> QED
    BY <1>1, <1>2, <1>3

LEMMA SeGroupFacts ==
    ASSUME NEW e, SeEvident(e), NEW S \in SUBSET e.flows, NEW P, SeGrouped(S, P)
    PROVE  /\ IsFiniteSet(P)
           /\ \A G \in P : /\ G \subseteq e.flows /\ IsFiniteSet(G) /\ G # {} /\ G \in SUBSET SeFlow
                           /\ SeOne(G) \in G /\ SeOne(G).src \in SeHosts(e)
                           /\ Cardinality(G) \in Nat
  <1>1. IsFiniteSet(S) /\ S \subseteq SeFlow
    BY FS_Subset DEF SeEvident, SeFlows
  <1>2. IsFiniteSet(P)
    <2>1. IsFiniteSet(SUBSET S)
      BY <1>1, FS_SUBSET
    <2> QED
      BY <2>1, FS_Subset DEF SeGrouped
  <1>3. ASSUME NEW G \in P
        PROVE  /\ G \subseteq e.flows /\ IsFiniteSet(G) /\ G # {} /\ G \in SUBSET SeFlow
               /\ SeOne(G) \in G /\ SeOne(G).src \in SeHosts(e) /\ Cardinality(G) \in Nat
    <2>1. G \in SUBSET S /\ G # {}
      BY DEF SeGrouped
    <2>2. IsFiniteSet(G) /\ G \in SUBSET SeFlow /\ G \subseteq e.flows
      BY <1>1, <2>1, FS_Subset
    <2>3. SeOne(G) \in G
      BY <2>1, <2>2, SeOneOf
    <2>4. Cardinality(G) \in Nat
      BY <2>2, FS_CardinalityType
    <2> QED
      BY <2>1, <2>2, <2>3, <2>4, SeHostsOf
  <1> QED
    BY <1>2, <1>3

(* What the rules raise, one by one.                                           *)
LEMMA SeWellSaid ==
    ASSUME NEW e, NEW rule, NEW src \in SeHosts(e), NEW dst, NEW what, NEW score \in Int,
           NEW flows, flows \subseteq e.flows
    PROVE  SeWell(e, SeAlert(rule, src, dst, what, score, flows))
  BY ZenonT(20) DEF SeWell

LEMMA SeIfInt == \A b, n : n \in Int => SeIf(b, n) \in Int
  BY DEF SeIf

LEMMA SeDivided ==
    ASSUME NEW a \in Int, NEW b \in Int, b > 0
    PROVE  a \div b \in Int
  OBVIOUS

LEMMA SeScanScoreInt ==
    ASSUME NEW e, SeEvident(e), NEW G \in SUBSET e.flows, IsFiniteSet(G), G # {}
    PROVE  SeScanScore(G) \in Int
  <1>1. \A f \in G : f.first \in Int /\ f.last \in Int /\ f.first <= f.last
    BY DEF SeEvident, SeFlows, SeFlow
  <1>2. PICK firsts : firsts = {f.first : f \in G}
    OBVIOUS
  <1>3. PICK lasts : lasts = {f.last : f \in G}
    OBVIOUS
  <1>4. IsFiniteSet(firsts) /\ firsts \in SUBSET Int /\ firsts # {}
    <2>1. PICK of : of = [f \in G |-> f.first]
      OBVIOUS
    <2>2. IsFiniteSet({of[f] : f \in G}) /\ firsts = {of[f] : f \in G}
      BY <1>2, <2>1, FiniteImage
    <2> QED
      BY <1>1, <1>2, <2>2
  <1>5. IsFiniteSet(lasts) /\ lasts \in SUBSET Int /\ lasts # {}
    <2>1. PICK of : of = [f \in G |-> f.last]
      OBVIOUS
    <2>2. IsFiniteSet({of[f] : f \in G}) /\ lasts = {of[f] : f \in G}
      BY <1>3, <2>1, FiniteImage
    <2> QED
      BY <1>1, <1>3, <2>2
  <1>6. PICK lasted : lasted = Max(lasts) - Min(firsts)
    OBVIOUS
  <1>7. lasted \in Int /\ lasted >= 0
    <2>1. Max(lasts) \in Int /\ \A x \in lasts : x <= Max(lasts)
      BY <1>5, FiniteGreatest
    <2>2. Min(firsts) \in firsts
      BY <1>4, FiniteLeast
    <2>3. PICK f \in G : Min(firsts) = f.first
      BY <1>2, <2>2
    <2>4. f.last <= Max(lasts)
      BY <1>3, <2>1
    <2> QED
      BY <1>1, <1>6, <2>1, <2>3, <2>4
  <1>8. PICK n : n = Cardinality(SePorts(G))
    OBVIOUS
  <1>9. n \in Nat
    <2>1. PICK of : of = [f \in G |-> f.port]
      OBVIOUS
    <2>2. IsFiniteSet({of[f] : f \in G}) /\ SePorts(G) = {of[f] : f \in G}
      BY <2>1, FiniteImage DEF SePorts
    <2> QED
      BY <1>8, <2>2, FS_CardinalityType
  <1>10. PICK rate : rate = IF lasted = 0 THEN 250 ELSE SeAtMost((5 * n) \div lasted, 250)
    OBVIOUS
  <1>11. rate \in Int
    <2>1. CASE lasted = 0
      BY <1>10, <2>1
    <2>2. CASE lasted # 0
      <3>1. (5 * n) \div lasted \in Int
        BY <1>7, <1>9, <2>2, SeDivided
      <3> QED
        BY <1>10, <2>2, <3>1, SeAtMostInt
    <2> QED
      BY <2>1, <2>2
  <1>12. SeAtMost(n, 100) \in Int
    BY <1>9, SeAtMostInt
  <1>13. SeScanScore(G) = (350 + 4 * SeAtMost(n, 100) + rate) \div 10
    BY <1>2, <1>3, <1>6, <1>8, <1>10 DEF SeScanScore
  <1> QED
    BY <1>11, <1>12, <1>13, SeDivided

LEMMA SeScansRaised ==
    ASSUME NEW e, SeEvident(e)
    PROVE  SeRaised(e, SePortScan(e))
  <1>1. PICK S : S = {f \in e.flows : f.transport = "TCP" /\ f.failed}
    OBVIOUS
  <1>2. PICK P : P = {H \in SeGroups(S, SePair) : Cardinality(SePorts(H)) >= 10}
    OBVIOUS
  <1>3. S \in SUBSET e.flows /\ SeGrouped(S, P)
    <2>1. SeGrouped(S, SeGroups(S, SePair)) /\ P \subseteq SeGroups(S, SePair)
      BY <1>2, SeGroupsOf
    <2> QED
      BY <1>1, <2>1 DEF SeGrouped
  <1>4. PICK raise : raise = [G \in P |-> SeScan(G)]
    OBVIOUS
  <1>5. \A G \in P : SeWell(e, raise[G])
    <2>1. ASSUME NEW G \in P PROVE SeWell(e, SeScan(G))
      <3>1. G \subseteq e.flows /\ SeOne(G).src \in SeHosts(e) /\ IsFiniteSet(G) /\ G # {}
        BY <1>3, SeGroupFacts
      <3>2. SeScanScore(G) \in Int
        BY <3>1, SeScanScoreInt
      <3> QED
        BY <3>1, <3>2, SeWellSaid DEF SeScan
    <2> QED
      BY <1>4, <2>1
  <1>6. SePortScan(e) = {raise[G] : G \in P}
    BY <1>1, <1>2, <1>4, SePortScanIs
  <1>7. IsFiniteSet(P)
    BY <1>3, SeGroupFacts
  <1> QED
    BY <1>4, <1>5, <1>6, <1>7, SeRaise

LEMMA SeExcessiveRaised ==
    ASSUME NEW e, SeEvident(e)
    PROVE  SeRaised(e, SeExcessiveFailures(e))
  <1>1. PICK S : S = {f \in e.flows : f.failed}
    OBVIOUS
  <1>2. PICK P : P = {H \in SeGroups(S, SePair) : Cardinality(SePorts(H)) < 10 /\ Cardinality(H) >= 5}
    OBVIOUS
  <1>3. S \in SUBSET e.flows /\ SeGrouped(S, P)
    <2>1. SeGrouped(S, SeGroups(S, SePair)) /\ P \subseteq SeGroups(S, SePair)
      BY <1>2, SeGroupsOf
    <2> QED
      BY <1>1, <2>1 DEF SeGrouped
  <1>4. PICK raise : raise = [G \in P |-> SeExcess(G)]
    OBVIOUS
  <1>5. \A G \in P : SeWell(e, raise[G])
    <2>1. ASSUME NEW G \in P PROVE SeWell(e, SeExcess(G))
      <3>1. G \subseteq e.flows /\ SeOne(G).src \in SeHosts(e) /\ Cardinality(G) \in Nat
        BY <1>3, SeGroupFacts
      <3>2. 30 + 5 * Cardinality(G) \in Int
        BY <3>1
      <3> QED
        BY <3>1, <3>2, SeWellSaid DEF SeExcess
    <2> QED
      BY <1>4, <2>1
  <1>6. SeExcessiveFailures(e) = {raise[G] : G \in P}
    BY <1>1, <1>2, <1>4, SeExcessiveIs
  <1>7. IsFiniteSet(P)
    BY <1>3, SeGroupFacts
  <1> QED
    BY <1>4, <1>5, <1>6, <1>7, SeRaise

LEMMA SeBeaconsRaised ==
    ASSUME NEW e, SeEvident(e)
    PROVE  SeRaised(e, SeBeaconing(e))
  <1>1. PICK S : S = {f \in e.flows : f.transport = "TCP"}
    OBVIOUS
  <1>2. PICK P : P = {H \in SeTcpGroups(e) : Cardinality(H) >= 5 /\ SeRegular(SeIntervals(H), 1)}
    OBVIOUS
  <1>3. S \in SUBSET e.flows /\ SeGrouped(S, P)
    <2>1. S \in SUBSET e.flows
      BY <1>1
    <2>2. SeGrouped(S, SeGroups(S, SeTarget))
      BY SeGroupsOf
    <2>3. P \subseteq SeGroups(S, SeTarget)
      BY <1>1, <1>2 DEF SeTcpGroups
    <2> QED
      BY <2>1, <2>2, <2>3 DEF SeGrouped
  <1>4. PICK raise : raise = [G \in P |-> SeAlert("beaconing", SeOne(G).src, SeOne(G).dst, SeOne(G).port, 70 + SeAtMost(Cardinality(G), 40) \div 2 + SeIf(SeOne(G).port \in SeSuspiciousPorts, 10), G)]
    OBVIOUS
  <1>5. \A G \in P : SeWell(e, raise[G])
    <2>1. ASSUME NEW G \in P PROVE SeWell(e, SeAlert("beaconing", SeOne(G).src, SeOne(G).dst, SeOne(G).port, 70 + SeAtMost(Cardinality(G), 40) \div 2 + SeIf(SeOne(G).port \in SeSuspiciousPorts, 10), G))
      <3>1. G \subseteq e.flows /\ SeOne(G) \in G /\ SeOne(G).src \in SeHosts(e) /\ Cardinality(G) \in Nat
            /\ IsFiniteSet(G)
        BY <1>3, SeGroupFacts
      <3>2. 70 + SeAtMost(Cardinality(G), 40) \div 2 + SeIf(SeOne(G).port \in SeSuspiciousPorts, 10) \in Int
        <4>1. SeAtMost(Cardinality(G), 40) \in Int
          BY <3>1, SeAtMostInt
        <4>2. SeAtMost(Cardinality(G), 40) \div 2 \in Int
          BY <4>1, SeDivided
        <4>3. SeIf(SeOne(G).port \in SeSuspiciousPorts, 10) \in Int
          BY SeIfInt
        <4> QED
          BY <4>2, <4>3
      <3> QED
        BY <3>1, <3>2, SeWellSaid
    <2> QED
      BY <1>4, <2>1
  <1>6. SeBeaconing(e) = {raise[G] : G \in P}
    BY <1>2, <1>4 DEF SeBeaconing
  <1>7. IsFiniteSet(P)
    BY <1>3, SeGroupFacts
  <1> QED
    BY <1>4, <1>5, <1>6, <1>7, SeRaise

LEMMA SeSlowRaised ==
    ASSUME NEW e, SeEvident(e)
    PROVE  SeRaised(e, SeLowSlowBeaconing(e))
  <1>1. PICK S : S = {f \in e.flows : f.transport = "TCP"}
    OBVIOUS
  <1>2. PICK P : P = {H \in SeTcpGroups(e) :
                     /\ Cardinality(H) >= 3
                     /\ SeTotal(SeIntervals(H)) >= 60 * (Cardinality(H) - 1) /\ SeRegular(SeIntervals(H), 2)}
    OBVIOUS
  <1>3. S \in SUBSET e.flows /\ SeGrouped(S, P)
    <2>1. S \in SUBSET e.flows
      BY <1>1
    <2>2. SeGrouped(S, SeGroups(S, SeTarget))
      BY SeGroupsOf
    <2>3. P \subseteq SeGroups(S, SeTarget)
      BY <1>1, <1>2 DEF SeTcpGroups
    <2> QED
      BY <2>1, <2>2, <2>3 DEF SeGrouped
  <1>4. PICK raise : raise = [G \in P |-> SeAlert("low_slow_beaconing", SeOne(G).src, SeOne(G).dst, SeOne(G).port, 55 + 2 * SeAtMost(Cardinality(G), 10), G)]
    OBVIOUS
  <1>5. \A G \in P : SeWell(e, raise[G])
    <2>1. ASSUME NEW G \in P PROVE SeWell(e, SeAlert("low_slow_beaconing", SeOne(G).src, SeOne(G).dst, SeOne(G).port, 55 + 2 * SeAtMost(Cardinality(G), 10), G))
      <3>1. G \subseteq e.flows /\ SeOne(G) \in G /\ SeOne(G).src \in SeHosts(e) /\ Cardinality(G) \in Nat
            /\ IsFiniteSet(G)
        BY <1>3, SeGroupFacts
      <3>2. 55 + 2 * SeAtMost(Cardinality(G), 10) \in Int
        <4>1. SeAtMost(Cardinality(G), 10) \in Int
          BY <3>1, SeAtMostInt
        <4> QED
          BY <4>1
      <3> QED
        BY <3>1, <3>2, SeWellSaid
    <2> QED
      BY <1>4, <2>1
  <1>6. SeLowSlowBeaconing(e) = {raise[G] : G \in P}
    BY <1>2, <1>4 DEF SeLowSlowBeaconing
  <1>7. IsFiniteSet(P)
    BY <1>3, SeGroupFacts
  <1> QED
    BY <1>4, <1>5, <1>6, <1>7, SeRaise

LEMMA SeDirectRaised ==
    ASSUME NEW e, SeEvident(e)
    PROVE  SeRaised(e, SeConnectionWithoutDns(e))
  <1>1. PICK S : S = SeDirect(e)
    OBVIOUS
  <1>2. PICK P : P = SeGroups(S, SeTarget)
    OBVIOUS
  <1>3. S \in SUBSET e.flows /\ SeGrouped(S, P)
    <2>1. S \in SUBSET e.flows
      BY <1>1 DEF SeDirect, SeOutbound
    <2>2. SeGrouped(S, SeGroups(S, SeTarget))
      BY SeGroupsOf
    <2>3. P \subseteq SeGroups(S, SeTarget)
      BY <1>1, <1>2
    <2> QED
      BY <2>1, <2>2, <2>3 DEF SeGrouped
  <1>4. PICK raise : raise = [G \in P |-> SeAlert("connection_without_dns", SeOne(G).src, SeOne(G).dst, SeOne(G).port, SeDirectScore(G), G)]
    OBVIOUS
  <1>5. \A G \in P : SeWell(e, raise[G])
    <2>1. ASSUME NEW G \in P PROVE SeWell(e, SeAlert("connection_without_dns", SeOne(G).src, SeOne(G).dst, SeOne(G).port, SeDirectScore(G), G))
      <3>1. G \subseteq e.flows /\ SeOne(G) \in G /\ SeOne(G).src \in SeHosts(e) /\ Cardinality(G) \in Nat
            /\ IsFiniteSet(G)
        BY <1>3, SeGroupFacts
      <3>2. SeDirectScore(G) \in Int
        <4>1. SeAtMost(Cardinality(G), 20) \in Int
          BY <3>1, SeAtMostInt
        <4>2. SeIf(SeBytes(G) > 10000, 10) \in Int
          BY SeIfInt
        <4> QED
          BY <4>1, <4>2 DEF SeDirectScore
      <3> QED
        BY <3>1, <3>2, SeWellSaid
    <2> QED
      BY <1>4, <2>1
  <1>6. SeConnectionWithoutDns(e) = {raise[G] : G \in P}
    BY <1>1, <1>2, <1>4 DEF SeConnectionWithoutDns, SeDirect, SeDirectScore
  <1>7. IsFiniteSet(P)
    BY <1>3, SeGroupFacts
  <1> QED
    BY <1>4, <1>5, <1>6, <1>7, SeRaise

LEMMA SeLeaksRaised ==
    ASSUME NEW e, SeEvident(e)
    PROVE  SeRaised(e, SeDataExfiltration(e))
  <1>1. PICK S : S = SeOutbound(e.flows)
    OBVIOUS
  <1>2. PICK P : P = SeLeaks(e)
    OBVIOUS
  <1>3. S \in SUBSET e.flows /\ SeGrouped(S, P)
    <2>1. S \in SUBSET e.flows
      BY <1>1 DEF SeOutbound
    <2>2. SeGrouped(S, SeGroups(S, SePair))
      BY SeGroupsOf
    <2>3. P \subseteq SeGroups(S, SePair)
      BY <1>1, <1>2 DEF SeLeaks
    <2> QED
      BY <2>1, <2>2, <2>3 DEF SeGrouped
  <1>4. PICK raise : raise = [G \in P |-> SeAlert("data_exfiltration", SeOne(G).src, SeOne(G).dst, SeNone, SeLeakScore(e, G) + 20, G)]
    OBVIOUS
  <1>5. \A G \in P : SeWell(e, raise[G])
    <2>1. ASSUME NEW G \in P PROVE SeWell(e, SeAlert("data_exfiltration", SeOne(G).src, SeOne(G).dst, SeNone, SeLeakScore(e, G) + 20, G))
      <3>1. G \subseteq e.flows /\ SeOne(G) \in G /\ SeOne(G).src \in SeHosts(e) /\ Cardinality(G) \in Nat
            /\ IsFiniteSet(G)
        BY <1>3, SeGroupFacts
      <3>2. SeLeakScore(e, G) + 20 \in Int
        <4>1. \A b, c, d : SeIf(b, 35) + SeIf(c, 25) + SeIf(d, 15) \in Int
          BY SeIfInt
        <4>2. SeLeakScore(e, G) \in Int
          BY <4>1, ZenonT(20) DEF SeLeakScore
        <4> QED
          BY <4>2
      <3> QED
        BY <3>1, <3>2, SeWellSaid
    <2> QED
      BY <1>4, <2>1
  <1>6. SeDataExfiltration(e) = {raise[G] : G \in P}
    BY <1>1, <1>2, <1>4 DEF SeDataExfiltration, SeLeaks, SeLeakScore
  <1>7. IsFiniteSet(P)
    BY <1>3, SeGroupFacts
  <1> QED
    BY <1>4, <1>5, <1>6, <1>7, SeRaise

SeMovedTo(G) == {f.dst : f \in G}
SeMovesScore(G) ==
    40 + 4 * SeAtMost(Cardinality(SeMovedTo(G)), 10)
       + SeIf(Cardinality(SeMovedTo({f \in G : ~f.failed})) >= 2, 15)
SeInside(e) == {f \in e.flows : f.port \in SeLateralPorts /\ {f.src, f.dst} \subseteq FbInternal}

LEMMA SeMovesRaised ==
    ASSUME NEW e, SeEvident(e)
    PROVE  SeRaised(e, SeLateralMovement(e))
  <1>1. PICK S : S = SeInside(e)
    OBVIOUS
  <1>2. PICK P : P = {H \in SeGroups(S, LAMBDA f : f.src) : Cardinality(SeMovedTo(H)) >= 3}
    OBVIOUS
  <1>3. S \in SUBSET e.flows /\ SeGrouped(S, P)
    <2>1. S \in SUBSET e.flows
      BY <1>1 DEF SeInside
    <2>2. SeGrouped(S, SeGroups(S, LAMBDA f : f.src))
      BY SeGroupsOf
    <2>3. P \subseteq SeGroups(S, LAMBDA f : f.src)
      BY <1>1, <1>2
    <2> QED
      BY <2>1, <2>2, <2>3 DEF SeGrouped
  <1>4. PICK raise : raise = [G \in P |-> SeAlert("lateral_movement", SeOne(G).src, SeNone, SeNone, SeMovesScore(G), G)]
    OBVIOUS
  <1>5. \A G \in P : SeWell(e, raise[G])
    <2>1. ASSUME NEW G \in P PROVE SeWell(e, SeAlert("lateral_movement", SeOne(G).src, SeNone, SeNone, SeMovesScore(G), G))
      <3>1. G \subseteq e.flows /\ SeOne(G) \in G /\ SeOne(G).src \in SeHosts(e) /\ Cardinality(G) \in Nat
            /\ IsFiniteSet(G)
        BY <1>3, SeGroupFacts
      <3>2. SeMovesScore(G) \in Int
        <4>1. PICK of : of = [f \in G |-> f.dst]
          OBVIOUS
        <4>2. IsFiniteSet({of[f] : f \in G}) /\ SeMovedTo(G) = {of[f] : f \in G}
          BY <3>1, <4>1, FiniteImage DEF SeMovedTo
        <4>3. Cardinality(SeMovedTo(G)) \in Nat
          BY <4>2, FS_CardinalityType
        <4>4. SeAtMost(Cardinality(SeMovedTo(G)), 10) \in Int
          BY <4>3, SeAtMostInt
        <4>5. SeIf(Cardinality(SeMovedTo({f \in G : ~f.failed})) >= 2, 15) \in Int
          BY SeIfInt
        <4> QED
          BY <4>4, <4>5 DEF SeMovesScore
      <3> QED
        BY <3>1, <3>2, SeWellSaid
    <2> QED
      BY <1>4, <2>1
  <1>6. SeLateralMovement(e) = {raise[G] : G \in P}
    BY <1>1, <1>2, <1>4 DEF SeLateralMovement, SeMovedTo, SeMovesScore, SeInside
  <1>7. IsFiniteSet(P)
    BY <1>3, SeGroupFacts
  <1> QED
    BY <1>4, <1>5, <1>6, <1>7, SeRaise

LEMMA SeClientsOf ==
    ASSUME NEW e, SeEvident(e)
    PROVE  /\ IsFiniteSet(SeClients(e)) /\ SeClients(e) \subseteq SeHosts(e)
           /\ \A c \in SeClients(e) : SeAsked(e, c) # {}
           /\ DOMAIN e.dns \in SUBSET Nat /\ IsFiniteSet(DOMAIN e.dns)
           /\ \A I \in SUBSET DOMAIN e.dns : SeNx(e, I) \in Nat
           /\ \A c : SeAsked(e, c) \in SUBSET DOMAIN e.dns /\ IsFiniteSet(SeAsked(e, c))
  <1>1. PICK dns \in Seq(SeTransaction) : dns = e.dns
    BY DEF SeEvident
  <1>2. DOMAIN dns = 1 .. Len(dns) /\ Len(dns) \in Nat
    BY <1>1
  <1>3. IsFiniteSet(DOMAIN dns) /\ DOMAIN dns \in SUBSET Nat
    BY <1>2, FS_Interval
  <1>4. PICK of : of = [i \in DOMAIN dns |-> dns[i].client]
    OBVIOUS
  <1>5. SeClients(e) = {of[i] : i \in DOMAIN dns}
    BY <1>1, <1>4 DEF SeClients, ToSet
  <1>6. IsFiniteSet(SeClients(e))
    BY <1>3, <1>4, <1>5, FiniteImage
  <1>7. SeClients(e) \subseteq SeHosts(e)
    BY <1>1, <1>4, <1>5, SeHostsOf
  <1>8. \A c \in SeClients(e) : SeAsked(e, c) # {}
    BY <1>1, <1>4, <1>5 DEF SeAsked
  <1>9. ASSUME NEW I \in SUBSET DOMAIN dns PROVE SeNx(e, I) \in Nat
    <2>1. IsFiniteSet({i \in I : e.dns[i].nx})
      <3>1. {i \in I : e.dns[i].nx} \in SUBSET DOMAIN dns
        OBVIOUS
      <3> QED
        BY <1>3, <3>1, FS_Subset
    <2> QED
      BY <2>1, FS_CardinalityType DEF SeNx
  <1>10. \A c : SeAsked(e, c) \in SUBSET DOMAIN dns
    BY <1>1 DEF SeAsked
  <1>11. \A c : IsFiniteSet(SeAsked(e, c))
    BY <1>3, <1>10, FS_Subset
  <1> QED
    BY <1>1, <1>3, <1>6, <1>7, <1>8, <1>9, <1>10, <1>11

SeTunnelScore(e, c) ==
    SeIf(\E i \in SeNamed(e, SeAsked(e, c)) : e.dns[i].name.label >= 30, 35)
    + SeIf(Cardinality({e.dns[i].name.sub : i \in SeNamed(e, SeAsked(e, c))} \ {SeNone}) >= 10, 30)
    + SeIf(SeNx(e, SeNamed(e, SeAsked(e, c))) >= 10, 15)
SeSample(e, c) ==
    CHOOSE i \in SeNamed(e, SeAsked(e, c)) : \A j \in SeNamed(e, SeAsked(e, c)) :
        \/ e.dns[j].name.size < e.dns[i].name.size
        \/ e.dns[j].name.size = e.dns[i].name.size /\ i <= j

LEMMA SeTunnelsRaised ==
    ASSUME NEW e, SeEvident(e)
    PROVE  SeRaised(e, SeDnsTunneling(e))
  <1>1. PICK P : P = {d \in SeClients(e) : SeTunnelScore(e, d) > 0}
    OBVIOUS
  <1>2. IsFiniteSet(P) /\ P \subseteq SeHosts(e)
    BY <1>1, SeClientsOf, FS_Subset
  <1>3. PICK raise : raise = [c \in P |-> SeAlert("dns_tunneling", c, e.dns[SeSample(e, c)].server, SeNone,
                                                  SeTunnelScore(e, c), {})]
    OBVIOUS
  <1>4. \A c \in P : SeWell(e, raise[c])
    <2>1. ASSUME NEW c \in P
          PROVE  SeWell(e, SeAlert("dns_tunneling", c, e.dns[SeSample(e, c)].server, SeNone,
                                   SeTunnelScore(e, c), {}))
      <3>1. \A x, y, z : SeIf(x, 35) + SeIf(y, 30) + SeIf(z, 15) \in Int
        BY SeIfInt
      <3>2. SeTunnelScore(e, c) \in Int
        BY <3>1, ZenonT(20) DEF SeTunnelScore
      <3> QED
        BY <1>2, <3>2, SeWellSaid
    <2> QED
      BY <1>3, <2>1
  <1>5. SeDnsTunneling(e) = {raise[c] : c \in P}
    BY <1>1, <1>3 DEF SeDnsTunneling, SeTunnelScore, SeSample
  <1> QED
    BY <1>2, <1>3, <1>4, <1>5, SeRaise

SeMissScore(e, c) ==
    (3 * SeNx(e, SeAsked(e, c)) * Cardinality(SeAsked(e, c)) + 40 * SeNx(e, SeAsked(e, c)))
        \div (2 * Cardinality(SeAsked(e, c)))

LEMMA SeMissesRaised ==
    ASSUME NEW e, SeEvident(e)
    PROVE  SeRaised(e, SeNxdomainBurst(e))
  <1>1. PICK P : P = {d \in SeClients(e) \ {SeNone} : SeNx(e, SeAsked(e, d)) >= 10}
    OBVIOUS
  <1>2. IsFiniteSet(P) /\ P \subseteq SeHosts(e) /\ P \subseteq SeClients(e)
    BY <1>1, SeClientsOf, FS_Subset
  <1>3. PICK raise : raise = [c \in P |-> SeAlert("nxdomain_burst", c, SeNone, SeNone, SeMissScore(e, c), {})]
    OBVIOUS
  <1>4. \A c \in P : SeWell(e, raise[c])
    <2>1. ASSUME NEW c \in P
          PROVE  SeWell(e, SeAlert("nxdomain_burst", c, SeNone, SeNone, SeMissScore(e, c), {}))
      <3>1. PICK n : n = SeNx(e, SeAsked(e, c))
        OBVIOUS
      <3>2. PICK all : all = Cardinality(SeAsked(e, c))
        OBVIOUS
      <3>3. n \in Nat
        BY <3>1, SeClientsOf
      <3>4. all \in Nat /\ all # 0
        <4>1. IsFiniteSet(SeAsked(e, c)) /\ SeAsked(e, c) # {}
          BY <1>2, SeClientsOf
        <4> QED
          BY <3>2, <4>1, FS_CardinalityType, FS_EmptySet
      <3>5. 3 * n * all + 40 * n \in Int /\ 2 * all \in Int /\ 2 * all > 0
        BY <3>3, <3>4
      <3>6. SeMissScore(e, c) = (3 * n * all + 40 * n) \div (2 * all)
        BY <3>1, <3>2 DEF SeMissScore
      <3>7. SeMissScore(e, c) \in Int
        BY <3>5, <3>6, SeDivided
      <3> QED
        BY <1>2, <3>7, SeWellSaid
    <2> QED
      BY <1>3, <2>1
  <1>5. SeNxdomainBurst(e) = {raise[c] : c \in P}
    BY <1>1, <1>3 DEF SeNxdomainBurst, SeMissScore
  <1> QED
    BY <1>2, <1>3, <1>4, <1>5, SeRaise

SeOddAlert(f) ==
    SeAlert("suspicious_port", f.src, f.dst, f.port,
            45 + SeIf(f \in SeOutbound({f}), 15) + SeAtMost(f.packets, 20), {f})

LEMMA SeOddRaised ==
    ASSUME NEW e, SeEvident(e)
    PROVE  SeRaised(e, SeSuspiciousPort(e))
  <1>1. PICK S : S = {f \in e.flows : f.port \in SeSuspiciousPorts}
    OBVIOUS
  <1>2. PICK P : P = SeGroups(S, SeTarget)
    OBVIOUS
  <1>3. S \in SUBSET e.flows /\ SeGrouped(S, P)
    BY <1>1, <1>2, SeGroupsOf
  <1>4. PICK raise : raise = [G \in P |-> SeOddAlert(SeOne(G))]
    OBVIOUS
  <1>5. \A G \in P : SeWell(e, raise[G])
    <2>1. ASSUME NEW G \in P PROVE SeWell(e, SeOddAlert(SeOne(G)))
      <3>1. PICK f : f = SeOne(G)
        OBVIOUS
      <3>2. f \in e.flows /\ f.src \in SeHosts(e) /\ f \in SeFlow
        BY <1>3, <3>1, SeGroupFacts
      <3>3. SeAtMost(f.packets, 20) \in Int
        BY <3>2, SeAtMostInt DEF SeFlow
      <3>4. SeIf(f \in SeOutbound({f}), 15) \in Int
        BY SeIfInt
      <3>5. PICK score : score = 45 + SeIf(f \in SeOutbound({f}), 15) + SeAtMost(f.packets, 20)
        OBVIOUS
      <3>6. score \in Int /\ {f} \subseteq e.flows
        BY <3>2, <3>3, <3>4, <3>5
      <3>7. SeOddAlert(f) = SeAlert("suspicious_port", f.src, f.dst, f.port, score, {f})
        BY <3>5 DEF SeOddAlert
      <3>8. SeWell(e, SeAlert("suspicious_port", f.src, f.dst, f.port, score, {f}))
        BY <3>2, <3>6, SeWellSaid
      <3> QED
        BY <3>1, <3>7, <3>8
    <2> QED
      BY <1>4, <2>1
  <1>6. SeSuspiciousPort(e) = {raise[G] : G \in P}
    BY <1>1, <1>2, <1>4 DEF SeSuspiciousPort, SeOddAlert
  <1>7. IsFiniteSet(P)
    BY <1>3, SeGroupFacts
  <1> QED
    BY <1>4, <1>5, <1>6, <1>7, SeRaise

LEMMA SeVolumeRaised ==
    ASSUME NEW e, SeEvident(e)
    PROVE  SeRaised(e, SeHighOutboundVolume(e))
  <1>1. PICK P : P = SeLoud(e)
    OBVIOUS
  <1>2. IsFiniteSet(P) /\ P \subseteq SeHosts(e)
    <2>1. PICK out : out = SeOutbound(e.flows)
      OBVIOUS
    <2>2. out \in SUBSET e.flows /\ IsFiniteSet(out)
      BY <2>1, FS_Subset DEF SeOutbound, SeEvident, SeFlows
    <2>3. PICK of : of = [f \in out |-> f.src]
      OBVIOUS
    <2>4. IsFiniteSet({of[f] : f \in out}) /\ P \subseteq {of[f] : f \in out}
      BY <1>1, <2>1, <2>2, <2>3, FiniteImage DEF SeLoud
    <2>5. {of[f] : f \in out} \subseteq SeHosts(e)
      BY <2>2, <2>3, SeHostsOf
    <2> QED
      BY <2>4, <2>5, FS_Subset
  <1>3. PICK raise : raise = [h \in P |-> SeAlert("high_outbound_volume", h, SeNone, SeNone, 55, {})]
    OBVIOUS
  <1>4. \A h \in P : SeWell(e, raise[h])
    <2>1. ASSUME NEW h \in P PROVE SeWell(e, SeAlert("high_outbound_volume", h, SeNone, SeNone, 55, {}))
      BY <1>2, SeWellSaid
    <2> QED
      BY <1>3, <2>1
  <1>5. SeHighOutboundVolume(e) = {raise[h] : h \in P}
    <2>1. SeHighOutboundVolume(e) = {SeAlert("high_outbound_volume", h, SeNone, SeNone, 55, {}) : h \in SeLoud(e)}
      BY DEF SeHighOutboundVolume, SeLoud
    <2> QED
      BY <1>1, <1>3, <2>1
  <1> QED
    BY <1>2, <1>3, <1>4, <1>5, SeRaise

SeMacs(e, ip) == {c.mac : c \in {d \in e.arp : d.ip = ip}}
SeSpoofScore(e) == 70 + SeIf(\E c \in e.arp : c.own, 10)

LEMMA SeSpoofsRaised ==
    ASSUME NEW e, SeEvident(e)
    PROVE  SeRaised(e, SeArpSpoofing(e))
  <1>1. PICK P : P = {c.ip : c \in {d \in e.arp : Cardinality(SeMacs(e, d.ip)) >= 2}}
    OBVIOUS
  <1>2. IsFiniteSet(P) /\ P \subseteq SeHosts(e)
    <2>1. PICK of : of = [c \in e.arp |-> c.ip]
      OBVIOUS
    <2>2. IsFiniteSet({of[c] : c \in e.arp})
      <3>1. PICK S : S = e.arp
        OBVIOUS
      <3>2. IsFiniteSet(S) /\ of = [c \in S |-> c.ip]
        BY <2>1, <3>1 DEF SeEvident
      <3>3. IsFiniteSet({of[c] : c \in S})
        BY <3>2, FiniteImage
      <3> QED
        BY <3>1, <3>3
    <2>3. P \subseteq {of[c] : c \in e.arp}
      BY <1>1, <2>1
    <2>4. {of[c] : c \in e.arp} \subseteq SeHosts(e)
      BY <2>1, SeHostsOf
    <2> QED
      BY <2>2, <2>3, <2>4, FS_Subset
  <1>3. SeSpoofScore(e) \in Int
    <2>1. \A b : SeIf(b, 10) \in Int
      BY SeIfInt
    <2>2. \A b : 70 + SeIf(b, 10) \in Int
      BY <2>1
    <2> QED
      BY <2>2, ZenonT(20) DEF SeSpoofScore
  <1>4. PICK raise : raise = [ip \in P |-> SeAlert("arp_spoofing", ip, SeNone, SeNone, SeSpoofScore(e), {})]
    OBVIOUS
  <1>5. \A ip \in P : SeWell(e, raise[ip])
    <2>1. ASSUME NEW ip \in P
          PROVE  SeWell(e, SeAlert("arp_spoofing", ip, SeNone, SeNone, SeSpoofScore(e), {}))
      BY <1>2, <1>3, SeWellSaid
    <2> QED
      BY <1>4, <2>1
  <1>6. SeArpSpoofing(e) = {raise[ip] : ip \in P}
    BY <1>1, <1>4 DEF SeArpSpoofing, SeMacs, SeSpoofScore
  <1> QED
    BY <1>2, <1>4, <1>5, <1>6, SeRaise

SeNames(e) == SeNamed(e, DOMAIN e.dns)
SeReadable(e) == {i \in SeNames(e) : e.dns[i].name.readable}
SeEntropy(e, i) == e.dns[i].name.entropy
SeBaseline(e) == SeNth(SeReadable(e), LAMBDA i : SeEntropy(e, i), Cardinality(SeReadable(e)) \div 2 + 1)
SeHigh(e, c) ==
    {i \in SeNames(e) \ SeReadable(e) : /\ e.dns[i].client = c /\ e.dns[i].name.sldSize >= 8
                                        /\ SeEntropy(e, i) > Max({320, SeBaseline(e) + 60})}
SeDgaScore(e, c) ==
    45 + 2 * SeAtMost(Cardinality(SeHigh(e, c)), 20)
       + SeIf(SeNx(e, SeNamed(e, SeAsked(e, c))) >= 5, 10)
SeDgaAlert(e, c) == SeAlert("dga_domain", c, SeNone, SeNone, SeDgaScore(e, c), {})

LEMMA SeDgaIs ==
    ASSUME NEW e
    PROVE  SeDgaDomains(e) = IF Cardinality(SeNames(e)) < 10 \/ Cardinality(SeReadable(e)) < 5 THEN {}
                             ELSE {SeDgaAlert(e, c) : c \in {d \in SeClients(e) : Cardinality(SeHigh(e, d)) >= 5}}
  BY DEF SeDgaDomains, SeNames, SeReadable, SeEntropy, SeBaseline, SeHigh, SeDgaScore, SeDgaAlert

LEMMA SeDgaRaised ==
    ASSUME NEW e, SeEvident(e)
    PROVE  SeRaised(e, SeDgaDomains(e))
  <1>1. PICK P : P = {d \in SeClients(e) : Cardinality(SeHigh(e, d)) >= 5}
    OBVIOUS
  <1>2. IsFiniteSet(P) /\ P \subseteq SeHosts(e)
    BY <1>1, SeClientsOf, FS_Subset
  <1>3. PICK raise : raise = [c \in P |-> SeDgaAlert(e, c)]
    OBVIOUS
  <1>4. \A c \in P : SeWell(e, raise[c])
    <2>1. ASSUME NEW c \in P PROVE SeWell(e, SeDgaAlert(e, c))
      <3>1. SeHigh(e, c) \in SUBSET DOMAIN e.dns
        BY DEF SeHigh, SeNames, SeNamed
      <3>2. IsFiniteSet(SeHigh(e, c))
        BY <3>1, SeClientsOf, FS_Subset
      <3>3. Cardinality(SeHigh(e, c)) \in Nat
        BY <3>2, FS_CardinalityType
      <3>4. SeAtMost(Cardinality(SeHigh(e, c)), 20) \in Int
        BY <3>3, SeAtMostInt
      <3>5. SeIf(SeNx(e, SeNamed(e, SeAsked(e, c))) >= 5, 10) \in Int
        BY SeIfInt
      <3>6. SeDgaScore(e, c) \in Int
        BY <3>4, <3>5 DEF SeDgaScore
      <3> QED
        BY <1>2, <3>6, SeWellSaid DEF SeDgaAlert
    <2> QED
      BY <1>3, <2>1
  <1>5. SeRaised(e, {raise[c] : c \in P})
    BY <1>2, <1>3, <1>4, SeRaise
  <1>6. SeRaised(e, {})
    BY FS_EmptySet DEF SeRaised
  <1>7. SeDgaDomains(e) \in {{}, {raise[c] : c \in P}}
    BY <1>1, <1>3, SeDgaIs
  <1> QED
    BY <1>5, <1>6, <1>7

SeWith(e, l) == {i \in DOMAIN e.http : e.http[i].agent = l}
SeAgentScore(e, l) == 40 + SeAtMost(Cardinality(SeWith(e, l)), 20)
SeAgentAlert(e, l) ==
    SeAlert("suspicious_user_agent", e.http[Min(SeWith(e, l))].client, e.http[Min(SeWith(e, l))].server, l,
            SeAgentScore(e, l), {})

LEMMA SeAgentsRaised ==
    ASSUME NEW e, SeEvident(e)
    PROVE  SeRaised(e, SeSuspiciousUserAgent(e))
  <1>1. PICK P : P = {t.agent : t \in ToSet(e.http)} \ {SeNone}
    OBVIOUS
  <1>2. PICK http \in Seq(SeRequest) : http = e.http
    BY DEF SeEvident
  <1>3. IsFiniteSet(DOMAIN http) /\ DOMAIN http \in SUBSET Nat
    <2>1. DOMAIN http = 1 .. Len(http) /\ Len(http) \in Nat
      BY <1>2
    <2> QED
      BY <2>1, FS_Interval
  <1>4. PICK of : of = [i \in DOMAIN http |-> http[i].agent]
    OBVIOUS
  <1>5. P \subseteq {of[i] : i \in DOMAIN http}
    BY <1>1, <1>2, <1>4 DEF ToSet
  <1>6. IsFiniteSet(P)
    <2>1. IsFiniteSet({of[i] : i \in DOMAIN http})
      <3>1. PICK S : S = DOMAIN http
        OBVIOUS
      <3>2. IsFiniteSet(S) /\ of = [i \in S |-> http[i].agent]
        BY <1>3, <1>4, <3>1
      <3>3. IsFiniteSet({of[i] : i \in S})
        BY <3>2, FiniteImage
      <3> QED
        BY <3>1, <3>3
    <2> QED
      BY <1>5, <2>1, FS_Subset
  <1>7. PICK raise : raise = [l \in P |-> SeAgentAlert(e, l)]
    OBVIOUS
  <1>8. \A l \in P : SeWell(e, raise[l])
    <2>1. ASSUME NEW l \in P PROVE SeWell(e, SeAgentAlert(e, l))
      <3>1. SeWith(e, l) \in SUBSET DOMAIN http /\ SeWith(e, l) # {}
        BY <1>2, <1>4, <1>5 DEF SeWith
      <3>2. IsFiniteSet(SeWith(e, l)) /\ SeWith(e, l) \in SUBSET Nat
        BY <1>3, <3>1, FS_Subset
      <3>3. Min(SeWith(e, l)) \in DOMAIN e.http
        BY <1>2, <3>1, <3>2, NatMin
      <3>4. e.http[Min(SeWith(e, l))].client \in SeHosts(e)
        BY <3>3, SeHostsOf
      <3>5. Cardinality(SeWith(e, l)) \in Nat
        BY <3>2, FS_CardinalityType
      <3>6. SeAgentScore(e, l) \in Int
        <4>1. SeAtMost(Cardinality(SeWith(e, l)), 20) \in Int
          BY <3>5, SeAtMostInt
        <4> QED
          BY <4>1 DEF SeAgentScore
      <3> QED
        BY <3>4, <3>6, SeWellSaid DEF SeAgentAlert
    <2> QED
      BY <1>7, <2>1
  <1>9. SeSuspiciousUserAgent(e) = {raise[l] : l \in P}
    BY <1>1, <1>7 DEF SeSuspiciousUserAgent, SeWith, SeAgentScore, SeAgentAlert
  <1> QED
    BY <1>6, <1>7, <1>8, <1>9, SeRaise

LEMMA SeRulesRaise ==
    ASSUME NEW e, SeEvident(e), NEW n \in 1 .. 14
    PROVE  SeRaised(e, SeRule(n, e))
  <1>1. \A A \in {SePortScan(e), SeBeaconing(e), SeDnsTunneling(e), SeNxdomainBurst(e), SeSuspiciousPort(e),
                  SeExcessiveFailures(e), SeConnectionWithoutDns(e)} : SeRaised(e, A)
    BY SeScansRaised, SeBeaconsRaised, SeTunnelsRaised, SeMissesRaised, SeOddRaised, SeExcessiveRaised,
       SeDirectRaised
  <1>2. \A A \in {SeHighOutboundVolume(e), SeArpSpoofing(e), SeLateralMovement(e), SeDgaDomains(e),
                  SeDataExfiltration(e), SeLowSlowBeaconing(e), SeSuspiciousUserAgent(e)} : SeRaised(e, A)
    BY SeVolumeRaised, SeSpoofsRaised, SeMovesRaised, SeDgaRaised, SeLeaksRaised, SeSlowRaised, SeAgentsRaised
  <1>3. n \in {1, 2, 3, 4, 5, 6, 7} \/ n \in {8, 9, 10, 11, 12, 13, 14}
    OBVIOUS
  <1>4. CASE n \in {1, 2, 3, 4, 5, 6, 7}
    BY <1>1, <1>4 DEF SeRule
  <1>5. CASE n \in {8, 9, 10, 11, 12, 13, 14}
    BY <1>2, <1>5 DEF SeRule
  <1> QED
    BY <1>3, <1>4, <1>5

-----------------------------------------------------------------------------
(* Chains.  The alerts of a host are taken in time order; what is known of the *)
(* chains made of some of them (P) when a later one (x) comes.                 *)
SePaused(P, a, b) ==
    \E c \in P : /\ a.at <= c.at /\ c.at < b.at
                 /\ \A d \in P : d.at > c.at => d.at - c.at > SeWindow
SeTogether(ch, a, b) == \E i \in 1 .. Len(ch) : a \in ch[i] /\ b \in ch[i]
SeApart(A, ch, P) ==
    /\ ch \in Seq(SUBSET A) /\ P \subseteq A
    /\ \A i \in 1 .. Len(ch) : ch[i] # {}
    /\ \A i, j \in 1 .. Len(ch) : i # j => ch[i] \cap ch[j] = {}
    /\ P = UNION {ch[i] : i \in 1 .. Len(ch)}
SeLatest(ch, P) == Len(ch) > 0 => \E z \in ch[Len(ch)] : \A y \in P : y.at <= z.at
SeBroken(ch, P) == \A a, b \in P : a.at <= b.at => (SeTogether(ch, a, b) <=> ~SePaused(P, a, b))
SeChained(A, ch, P) == SeApart(A, ch, P) /\ SeLatest(ch, P) /\ SeBroken(ch, P)
SeNext1(A, P, x) ==
    /\ P \subseteq A /\ x \in A \ P /\ \A y \in A : y.at \in Int
    /\ \A y \in P : y.at <= x.at

(* A later alert pauses nothing before it and lifts no pause.                  *)
LEMMA SePausesStay ==
    ASSUME NEW A, NEW P, NEW x, SeNext1(A, P, x), NEW a \in P, NEW b \in P
    PROVE  SePaused(P \cup {x}, a, b) <=> SePaused(P, a, b)
  <1>1. /\ x.at \in Int /\ \A y \in P : y.at \in Int /\ y.at <= x.at
    BY DEF SeNext1
  <1>2. SeWindow \in Int
    BY DEF SeWindow
  <1>3. ASSUME NEW c \in P, a.at <= c.at, c.at < b.at, \A d \in P : d.at > c.at => d.at - c.at > SeWindow
        PROVE  SePaused(P \cup {x}, a, b)
    <2>1. b.at - c.at > SeWindow
      BY <1>1, <1>3
    <2>2. x.at - c.at > SeWindow
      BY <1>1, <1>2, <2>1
    <2>3. \A d \in P \cup {x} : d.at > c.at => d.at - c.at > SeWindow
      BY <1>3, <2>2
    <2> QED
      BY <1>3, <2>3 DEF SePaused
  <1>4. ASSUME NEW c \in P \cup {x}, a.at <= c.at, c.at < b.at,
               \A d \in P \cup {x} : d.at > c.at => d.at - c.at > SeWindow
        PROVE  SePaused(P, a, b)
    <2>1. c \in P
      BY <1>1, <1>4
    <2> QED
      BY <1>4, <2>1 DEF SePaused
  <1> QED
    BY <1>3, <1>4 DEF SePaused

(* Whether there was a pause before a later alert.                             *)
LEMMA SePausesBefore ==
    ASSUME NEW A, NEW P, NEW x, SeNext1(A, P, x), NEW a \in P, NEW z \in P, \A y \in P : y.at <= z.at
    PROVE  SePaused(P \cup {x}, a, x) <=> (SePaused(P, a, z) \/ x.at - z.at > SeWindow)
  <1>1. /\ x.at \in Int /\ \A y \in P : y.at \in Int /\ y.at <= x.at /\ y.at <= z.at
    BY DEF SeNext1
  <1>2. SeWindow \in Int /\ SeWindow > 0
    BY DEF SeWindow
  <1>3. ASSUME NEW c \in P, a.at <= c.at, c.at < z.at, \A d \in P : d.at > c.at => d.at - c.at > SeWindow
        PROVE  SePaused(P \cup {x}, a, x)
    <2>1. z.at - c.at > SeWindow
      BY <1>1, <1>3
    <2>2. x.at - c.at > SeWindow /\ c.at < x.at
      BY <1>1, <1>2, <2>1
    <2>3. \A d \in P \cup {x} : d.at > c.at => d.at - c.at > SeWindow
      BY <1>3, <2>2
    <2> QED
      BY <1>3, <2>2, <2>3 DEF SePaused
  <1>4. ASSUME x.at - z.at > SeWindow PROVE SePaused(P \cup {x}, a, x)
    <2>1. \A d \in P \cup {x} : d.at > z.at => d.at - z.at > SeWindow
      BY <1>1, <1>4
    <2>2. a.at <= z.at /\ z.at < x.at
      BY <1>1, <1>2, <1>4
    <2> QED
      BY <2>1, <2>2 DEF SePaused
  <1>5. ASSUME NEW c \in P \cup {x}, a.at <= c.at, c.at < x.at,
               \A d \in P \cup {x} : d.at > c.at => d.at - c.at > SeWindow, ~(x.at - z.at > SeWindow)
        PROVE  SePaused(P, a, z)
    <2>1. c \in P
      BY <1>1, <1>5
    <2>2. x.at - c.at > SeWindow
      BY <1>5
    <2>3. c.at < z.at
      BY <1>1, <1>2, <1>5, <2>1, <2>2
    <2> QED
      BY <1>5, <2>1, <2>3 DEF SePaused
  <1> QED
    BY <1>3, <1>4, <1>5 DEF SePaused

(* An alert that comes within the window joins the last chain.                 *)
LEMMA SeJoins ==
    ASSUME NEW A, NEW ch, NEW P, SeChained(A, ch, P), NEW x, SeNext1(A, P, x),
           NEW n, n = Len(ch), n > 0, NEW z \in ch[n], \A y \in P : y.at <= z.at, x.at - z.at <= SeWindow,
           NEW more, more \in Seq(SUBSET A), Len(more) = n, more[n] = ch[n] \cup {x},
           \A i \in 1 .. n - 1 : more[i] = ch[i]
    PROVE  SeChained(A, more, P \cup {x})
  <1>1. /\ ch \in Seq(SUBSET A) /\ P \subseteq A
        /\ \A i \in 1 .. n : ch[i] # {}
        /\ \A i, j \in 1 .. n : i # j => ch[i] \cap ch[j] = {}
        /\ P = UNION {ch[i] : i \in 1 .. n}
    BY DEF SeChained, SeApart
  <1>2. n \in Nat /\ n \in 1 .. n /\ \A i \in 1 .. n : i = n \/ i \in 1 .. n - 1
    BY <1>1
  <1>3. /\ x.at \in Int /\ x \notin P /\ x \in A /\ \A y \in P : y.at \in Int /\ y.at <= x.at
    BY DEF SeNext1
  <1>4. z \in P
    BY <1>1, <1>2
  <1>5. SeWindow \in Int
    BY DEF SeWindow
  <1>6. \A i \in 1 .. n : \A y \in P : y \in more[i] <=> y \in ch[i]
    BY <1>2, <1>3
  <1>7. \A i \in 1 .. n : x \in more[i] <=> i = n
    <2>1. \A i \in 1 .. n : x \notin ch[i]
      BY <1>1, <1>3
    <2> QED
      BY <1>2, <2>1
  <1>8. SeApart(A, more, P \cup {x})
    <2>1. \A i \in 1 .. n : more[i] # {}
      BY <1>1, <1>2
    <2>2. \A i \in 1 .. n : more[i] \subseteq ch[i] \cup {x} /\ ch[i] \subseteq more[i]
      BY <1>2
    <2>3. ASSUME NEW i \in 1 .. n, NEW j \in 1 .. n, i # j PROVE more[i] \cap more[j] = {}
      <3>1. ch[i] \cap ch[j] = {}
        BY <1>1, <2>3
      <3> QED
        BY <1>7, <2>2, <2>3, <3>1
    <2>4. P \cup {x} = UNION {more[i] : i \in 1 .. n}
      BY <1>1, <1>2, <1>7, <2>2
    <2> QED
      BY <1>1, <1>3, <2>1, <2>3, <2>4 DEF SeApart
  <1>9. SeLatest(more, P \cup {x})
    <2>1. x \in more[n] /\ \A y \in P \cup {x} : y.at <= x.at
      BY <1>3
    <2> QED
      BY <2>1 DEF SeLatest
  <1>10. ASSUME NEW a \in P, NEW b \in P, a.at <= b.at
         PROVE  SeTogether(more, a, b) <=> ~SePaused(P \cup {x}, a, b)
    <2>1. SeTogether(more, a, b) <=> SeTogether(ch, a, b)
      BY <1>6 DEF SeTogether
    <2>2. SeTogether(ch, a, b) <=> ~SePaused(P, a, b)
      BY <1>10 DEF SeChained, SeBroken
    <2> QED
      BY <2>1, <2>2, SePausesStay
  <1>11. \A a \in P : SeTogether(ch, a, z) <=> a \in ch[n]
    <2>1. \A i \in 1 .. n : z \in ch[i] <=> i = n
      BY <1>1, <1>2
    <2> QED
      BY <1>2, <2>1 DEF SeTogether
  <1>12. \A a \in P : SeTogether(ch, a, z) <=> ~SePaused(P, a, z)
    BY <1>4 DEF SeChained, SeBroken
  <1>13. \A a \in P : (SeTogether(more, a, x) <=> a \in ch[n]) /\ (SeTogether(more, x, a) <=> a \in ch[n])
    BY <1>2, <1>6, <1>7 DEF SeTogether
  <1>14. ASSUME NEW a \in P PROVE SeTogether(more, a, x) <=> ~SePaused(P \cup {x}, a, x)
    <2>1. SePaused(P \cup {x}, a, x) <=> SePaused(P, a, z) \/ x.at - z.at > SeWindow
      BY <1>4, SePausesBefore
    <2>2. ~(x.at - z.at > SeWindow)
      BY <1>3, <1>4, <1>5
    <2> QED
      BY <1>11, <1>12, <1>13, <2>1, <2>2
  <1>15. ASSUME NEW b \in P, x.at <= b.at PROVE SeTogether(more, x, b) <=> ~SePaused(P \cup {x}, x, b)
    <2>1. ~SePaused(P \cup {x}, x, b) /\ ~SePaused(P, b, z)
      <3>1. b.at <= x.at /\ z.at <= b.at
        BY <1>3, <1>4, <1>15
      <3> QED
        BY <1>3, <1>4, <1>15, <3>1 DEF SePaused
    <2> QED
      BY <1>11, <1>12, <1>13, <2>1
  <1>16. SeTogether(more, x, x) /\ ~SePaused(P \cup {x}, x, x)
    <2>1. SeTogether(more, x, x)
      BY <1>2, <1>7 DEF SeTogether
    <2>2. ~SePaused(P \cup {x}, x, x)
      BY <1>3 DEF SePaused
    <2> QED
      BY <2>1, <2>2
  <1>17. SeBroken(more, P \cup {x})
    BY <1>10, <1>14, <1>15, <1>16 DEF SeBroken
  <1> QED
    BY <1>8, <1>9, <1>17 DEF SeChained

(* The first alert, or one that comes later, starts a chain.                   *)
SeAfterPause(ch, P, x, n) ==
    n > 0 => \E z \in ch[n] : (\A y \in P : y.at <= z.at) /\ x.at - z.at > SeWindow
SeOneMore(A, ch, x, n, more) ==
    /\ more \in Seq(SUBSET A) /\ Len(more) = n + 1 /\ more[n + 1] = {x}
    /\ \A i \in 1 .. n : more[i] = ch[i]

LEMMA SeStarts ==
    ASSUME NEW A, NEW ch, NEW P, SeChained(A, ch, P), NEW x, SeNext1(A, P, x), NEW n, n = Len(ch),
           SeAfterPause(ch, P, x, n), NEW more, SeOneMore(A, ch, x, n, more)
    PROVE  SeChained(A, more, P \cup {x})
  <1>0. /\ n > 0 => \E z \in ch[n] : (\A y \in P : y.at <= z.at) /\ x.at - z.at > SeWindow
        /\ more \in Seq(SUBSET A) /\ Len(more) = n + 1 /\ more[n + 1] = {x}
        /\ \A i \in 1 .. n : more[i] = ch[i]
    BY DEF SeAfterPause, SeOneMore
  <1>1. /\ ch \in Seq(SUBSET A) /\ P \subseteq A
        /\ \A i \in 1 .. n : ch[i] # {}
        /\ \A i, j \in 1 .. n : i # j => ch[i] \cap ch[j] = {}
        /\ P = UNION {ch[i] : i \in 1 .. n}
    BY DEF SeChained, SeApart
  <1>2. n \in Nat /\ n + 1 \in 1 .. n + 1 /\ n + 1 \notin 1 .. n /\ 1 .. n + 1 = (1 .. n) \cup {n + 1}
    BY <1>1
  <1>3. /\ x.at \in Int /\ x \notin P /\ x \in A /\ \A y \in P : y.at \in Int /\ y.at <= x.at
    BY DEF SeNext1
  <1>4. SeWindow \in Int /\ SeWindow > 0
    BY DEF SeWindow
  <1>5. \A i \in 1 .. n + 1 : /\ x \in more[i] <=> i = n + 1
                              /\ \A y \in P : y \in more[i] <=> (i \in 1 .. n /\ y \in ch[i])
    <2>1. \A i \in 1 .. n : x \notin ch[i]
      BY <1>1, <1>3
    <2> QED
      BY <1>0, <1>2, <1>3, <2>1
  <1>6. SeApart(A, more, P \cup {x})
    <2>1. \A i \in 1 .. n + 1 : more[i] # {}
      BY <1>0, <1>1, <1>2
    <2>2. ASSUME NEW i \in 1 .. n + 1, NEW j \in 1 .. n + 1, i # j PROVE more[i] \cap more[j] = {}
      <3>1. CASE i \in 1 .. n /\ j \in 1 .. n
        BY <1>0, <1>1, <2>2, <3>1
      <3>2. CASE i = n + 1 /\ j \in 1 .. n
        BY <1>0, <1>2, <1>5, <3>2
      <3>3. CASE i \in 1 .. n /\ j = n + 1
        BY <1>0, <1>2, <1>5, <3>3
      <3> QED
        BY <1>2, <2>2, <3>1, <3>2, <3>3
    <2>3. P \cup {x} = UNION {more[i] : i \in 1 .. n + 1}
      BY <1>0, <1>1, <1>2
    <2> QED
      BY <1>0, <1>1, <1>3, <2>1, <2>2, <2>3 DEF SeApart
  <1>7. SeLatest(more, P \cup {x})
    <2>1. x \in more[n + 1] /\ \A y \in P \cup {x} : y.at <= x.at
      BY <1>0, <1>2, <1>3
    <2> QED
      BY <1>0, <2>1 DEF SeLatest
  <1>8. ASSUME NEW a \in P, NEW b \in P, a.at <= b.at
        PROVE  SeTogether(more, a, b) <=> ~SePaused(P \cup {x}, a, b)
    <2>1. SeTogether(more, a, b) <=> SeTogether(ch, a, b)
      BY <1>0, <1>2, <1>5 DEF SeTogether
    <2>2. SeTogether(ch, a, b) <=> ~SePaused(P, a, b)
      BY <1>8 DEF SeChained, SeBroken
    <2> QED
      BY <2>1, <2>2, SePausesStay
  <1>9. ASSUME NEW a \in P
        PROVE  /\ ~SeTogether(more, a, x) /\ ~SeTogether(more, x, a)
               /\ SePaused(P \cup {x}, a, x) /\ ~(x.at <= a.at)
    <2>1. ~SeTogether(more, a, x) /\ ~SeTogether(more, x, a)
      BY <1>0, <1>2, <1>5 DEF SeTogether
    <2>2. n > 0
      BY <1>1, <1>2
    <2>3. PICK z \in ch[n] : (\A y \in P : y.at <= z.at) /\ x.at - z.at > SeWindow
      BY <1>0, <2>2
    <2>4. z \in P
      BY <1>1, <1>2, <2>2, <2>3
    <2>5. SePaused(P \cup {x}, a, x)
      BY <2>3, <2>4, SePausesBefore
    <2>6. ~(x.at <= a.at)
      BY <1>3, <1>4, <2>3, <2>4
    <2> QED
      BY <2>1, <2>5, <2>6
  <1>10. SeTogether(more, x, x) /\ ~SePaused(P \cup {x}, x, x)
    <2>1. SeTogether(more, x, x)
      BY <1>0, <1>2, <1>5 DEF SeTogether
    <2>2. ~SePaused(P \cup {x}, x, x)
      BY <1>3 DEF SePaused
    <2> QED
      BY <2>1, <2>2
  <1>11. SeBroken(more, P \cup {x})
    BY <1>8, <1>9, <1>10 DEF SeBroken
  <1> QED
    BY <1>6, <1>7, <1>11 DEF SeChained

-----------------------------------------------------------------------------
(* Time order.                                                                 *)
SeTimed(A) == IsFiniteSet(A) /\ \A a \in A : a.at \in Int

LEMMA SeFirstOf ==
    ASSUME NEW A, SeTimed(A), NEW B \in SUBSET A, B # {}
    PROVE  SeFirst(B) \in B /\ \A b \in B : SeFirst(B).at <= b.at
  <1>1. IsFiniteSet(B) /\ \A b \in B : b.at \in Int
    BY FS_Subset DEF SeTimed
  <1>2. PICK at : at = [b \in B |-> b.at]
    OBVIOUS
  <1>3. PICK T : T = {at[b] : b \in B}
    OBVIOUS
  <1>4. IsFiniteSet(T)
    <2>1. DOMAIN at = B /\ at = [b \in B |-> at[b]]
      BY <1>2
    <2> QED
      BY <1>1, <1>3, <2>1, FiniteImage
  <1>5. T \in SUBSET Int /\ T # {}
    BY <1>1, <1>2, <1>3
  <1>6. Min(T) \in T /\ \A x \in T : Min(T) <= x
    BY <1>4, <1>5, FiniteLeast
  <1>7. PICK a \in B : a.at = Min(T)
    BY <1>2, <1>3, <1>6
  <1>8. \A b \in B : a.at <= b.at
    BY <1>2, <1>3, <1>6, <1>7
  <1> QED
    BY <1>7, <1>8 DEF SeFirst

SeSorted(A, s, k) ==
    /\ s \in Seq(A) /\ Len(s) = k
    /\ \A i, j \in 1 .. k : i < j => s[i] # s[j] /\ s[i].at <= s[j].at
    /\ \A i \in 1 .. k : \A b \in A \ ToSet(s) : s[i].at <= b.at
    /\ Cardinality(A \ ToSet(s)) = Cardinality(A) - k
SePut(A, s) == Append(s, SeFirst(A \ ToSet(s)))

LEMMA SeSortedMore ==
    ASSUME NEW A, SeTimed(A), NEW k \in Nat, k < Cardinality(A), NEW s, SeSorted(A, s, k)
    PROVE  SeSorted(A, SePut(A, s), k + 1)
  <1>1. PICK B : B = A \ ToSet(s)
    OBVIOUS
  <1>2. IsFiniteSet(A) /\ Cardinality(A) \in Nat /\ IsFiniteSet(B)
    BY <1>1, FS_Subset, FS_CardinalityType DEF SeTimed
  <1>3. B # {}
    <2>1. Cardinality(B) = Cardinality(A) - k
      BY <1>1 DEF SeSorted
    <2> QED
      BY <1>2, <2>1, FS_EmptySet
  <1>4. PICK x : x = SeFirst(B)
    OBVIOUS
  <1>5. x \in B /\ \A b \in B : x.at <= b.at
    BY <1>1, <1>3, <1>4, SeFirstOf
  <1>6. PICK t : t = Append(s, x)
    OBVIOUS
  <1>7. s \in Seq(A) /\ Len(s) = k /\ x \in A
    BY <1>1, <1>5 DEF SeSorted
  <1>8. /\ t \in Seq(A) /\ Len(t) = k + 1 /\ t[k + 1] = x /\ \A i \in 1 .. k : t[i] = s[i]
        /\ 1 .. k + 1 = (1 .. k) \cup {k + 1}
    BY <1>6, <1>7
  <1>9. ToSet(t) = ToSet(s) \cup {x}
    <2>1. DOMAIN t = 1 .. k + 1 /\ DOMAIN s = 1 .. k
      BY <1>7, <1>8
    <2> QED
      BY <1>8, <2>1 DEF ToSet
  <1>10. \A i \in 1 .. k : s[i] # x /\ s[i].at <= x.at
    <2>1. \A i \in 1 .. k : s[i] \in ToSet(s)
      BY <1>7 DEF ToSet
    <2> QED
      BY <1>1, <1>5, <2>1 DEF SeSorted
  <1>11. \A i, j \in 1 .. k + 1 : i < j => t[i] # t[j] /\ t[i].at <= t[j].at
    <2>1. ASSUME NEW i \in 1 .. k + 1, NEW j \in 1 .. k + 1, i < j PROVE t[i] # t[j] /\ t[i].at <= t[j].at
      <3>1. i \in 1 .. k
        BY <1>8, <2>1
      <3>2. CASE j = k + 1
        BY <1>8, <1>10, <3>1, <3>2
      <3>3. CASE j \in 1 .. k
        BY <1>8, <2>1, <3>1, <3>3 DEF SeSorted
      <3> QED
        BY <1>8, <3>2, <3>3
    <2> QED
      BY <2>1
  <1>12. A \ ToSet(t) = B \ {x}
    BY <1>1, <1>9
  <1>13. \A i \in 1 .. k + 1 : \A b \in A \ ToSet(t) : t[i].at <= b.at
    BY <1>1, <1>5, <1>8, <1>12 DEF SeSorted
  <1>14. Cardinality(A \ ToSet(t)) = Cardinality(A) - (k + 1)
    <2>1. Cardinality(B) = Cardinality(A) - k
      BY <1>1 DEF SeSorted
    <2>2. Cardinality(B \ {x}) = Cardinality(B) - 1
      BY <1>2, <1>5, FS_RemoveElement
    <2> QED
      BY <1>2, <1>12, <2>1, <2>2
  <1> QED
    BY <1>1, <1>4, <1>6, <1>8, <1>11, <1>13, <1>14 DEF SeSorted, SePut

(* The values of the fold that sorts.                                          *)
LEMMA SeSorting ==
    ASSUME NEW A, NEW n, n = Cardinality(A), n \in Nat
    PROVE  \E acc : /\ acc[0] = <<>> /\ acc[n] = SeByDate(A)
                    /\ \A k \in 1 .. n : acc[k] = SePut(A, acc[k - 1])
  <1>1. PICK Y : Y = Seq({SeFirst(B) : B \in SUBSET A})
    OBVIOUS
  <1>2. PICK base : base = <<>>
    OBVIOUS
  <1>3. PICK refs : refs = [i \in 1 .. n |-> i]
    OBVIOUS
  <1>4. PICK N : N = 1 .. n
    OBVIOUS
  <1>5. refs \in Seq(N) /\ Len(refs) = n /\ DOMAIN refs = 1 .. n
    <2>1. refs \in [1 .. n -> N]
      BY <1>3, <1>4
    <2> QED
      BY <2>1
  <1>6. base \in Y
    BY <1>1, <1>2
  <1>7. PICK step : step = [z \in Y \X N |-> SePut(A, z[1])]
    OBVIOUS
  <1>8. ASSUME NEW y \in Y, NEW r \in N PROVE SePut(A, y) \in Y /\ step[<<y, r>>] = SePut(A, y)
    <2>1. SeFirst(A \ ToSet(y)) \in {SeFirst(B) : B \in SUBSET A}
      OBVIOUS
    <2>2. SePut(A, y) \in Y
      BY <1>1, <2>1 DEF SePut
    <2> QED
      BY <1>7, <2>2
  <1>9. step \in [Y \X N -> Y]
    BY <1>7, <1>8
  <1>10. PICK acc : Runs(Y, refs, step, base, acc) /\ acc[n] = SeByDate(A)
    <2> DEFINE Body(g) == [s \in SUBSET DOMAIN refs |->
                              IF s = {} THEN base ELSE SePut(A, g[s \ {Max(s)}])]
               it == CHOOSE g : g = Body(g)
    <2>1. SeByDate(A) = it[DOMAIN refs]
      BY <1>2, <1>3 DEF SeByDate, SePut, FoldLeft, MapThenFoldSet
    <2>2. \A s \in SUBSET (1 .. n) : s # {} => Max(s) \in 1 .. n
      BY PrefixSet
    <2>3. PICK g \in [SUBSET (1 .. n) -> Y] : FoldsLeft(Y, refs, step, base, g)
      BY <1>5, <1>6, <1>9, FoldLeftRuns
    <2>r. \A i \in 1 .. n : refs[i] \in N
      BY <1>3, <1>4
    <2>4. g = Body(g)
      <3>1. g[{}] = base
        BY <2>3 DEF FoldsLeft
      <3>2. ASSUME NEW s \in SUBSET (1 .. n), s # {}
            PROVE  g[s] = SePut(A, g[s \ {Max(s)}])
        <4>1. g[s \ {Max(s)}] \in Y /\ refs[Max(s)] \in N
          BY <2>2, <2>3, <2>r, <3>2
        <4>2. g[s] = step[<<g[s \ {Max(s)}], refs[Max(s)]>>]
          BY <1>5, <2>3, <3>2, <4>1 DEF FoldsLeft, LastOf
        <4> QED
          BY <1>8, <4>1, <4>2
      <3> QED
        BY <1>5, <2>3, <3>1, <3>2
    <2>5. it = Body(it)
      <3>1. \E x : x = Body(x)
        BY <2>4
      <3> HIDE DEF Body
      <3> QED
        BY <3>1
    <2>6. \A s \in SUBSET (1 .. n) : it[s] = IF s = {} THEN base ELSE SePut(A, it[s \ {Max(s)}])
      <3> HIDE DEF it
      <3> QED
        BY <1>5, <2>5
    <2> HIDE DEF it, Body
    <2>7. FoldsLeft(Y, refs, step, base, it)
      <3>1. ASSUME NEW s \in SUBSET (1 .. n), s # {}, it[s \ {Max(s)}] \in Y
            PROVE  it[s] = step[<<it[s \ {Max(s)}], refs[Max(s)]>>]
        <4>1. refs[Max(s)] \in N
          BY <2>2, <2>r, <3>1
        <4> QED
          BY <1>8, <2>6, <3>1, <4>1
      <3> QED
        BY <1>5, <2>6, <3>1 DEF FoldsLeft, LastOf
    <2>8. Ends(Y, refs, step, base, it)
      BY <1>5, <1>6, <1>9, <2>7, FoldLeftRuns
    <2> QED
      BY <1>5, <2>1, <2>8 DEF Ends
  <1>11. ASSUME NEW k \in 1 .. n PROVE acc[k] = SePut(A, acc[k - 1])
    <2>1. acc \in [0 .. n -> Y] /\ k - 1 \in 0 .. n /\ refs[k] \in N
      BY <1>3, <1>4, <1>5, <1>10 DEF Runs
    <2>2. acc[k] = step[<<acc[k - 1], refs[k]>>]
      BY <1>5, <1>10 DEF Runs
    <2> QED
      BY <1>8, <2>1, <2>2
  <1>12. acc[0] = <<>>
    BY <1>2, <1>10 DEF Runs
  <1> QED
    BY <1>10, <1>11, <1>12

(* Every alert, once, none before an earlier one.                              *)
SeInOrder(A, s, n) ==
    /\ s \in Seq(A) /\ Len(s) = n /\ n \in Nat /\ A = {s[i] : i \in 1 .. n}
    /\ \A i, j \in 1 .. n : i < j => s[i] # s[j] /\ s[i].at <= s[j].at

LEMMA SeOrdered ==
    ASSUME NEW A, SeTimed(A), NEW s, s = SeByDate(A), NEW n, n = Cardinality(A)
    PROVE  SeInOrder(A, s, n)
  <1>1. IsFiniteSet(A) /\ n \in Nat
    BY FS_CardinalityType DEF SeTimed
  <1>2. PICK acc : /\ acc[0] = <<>> /\ acc[n] = s
                   /\ \A k \in 1 .. n : acc[k] = SePut(A, acc[k - 1])
    BY <1>1, SeSorting
  <1> DEFINE N == {k \in Nat : k <= n => SeSorted(A, acc[k], k)}
  <1>3. 0 \in N
    <2>1. PICK base : base = acc[0]
      OBVIOUS
    <2>2. base = <<>> /\ ToSet(base) = {} /\ A \ ToSet(base) = A
      BY <1>2, <2>1 DEF ToSet
    <2>3. SeSorted(A, base, 0)
      BY <1>1, <2>2 DEF SeSorted
    <2> QED
      BY <2>1, <2>3
  <1>4. ASSUME NEW k \in N PROVE k + 1 \in N
    <2>0. k \in Nat
      OBVIOUS
    <2>1. SUFFICES ASSUME k + 1 <= n PROVE SeSorted(A, acc[k + 1], k + 1)
      BY <2>0
    <2>2. k \in Nat /\ k + 1 \in 1 .. n /\ (k + 1) - 1 = k /\ k < Cardinality(A) /\ SeSorted(A, acc[k], k)
      BY <1>1, <2>1
    <2>3. acc[k + 1] = SePut(A, acc[k])
      BY <1>2, <2>2
    <2>4. SeSorted(A, SePut(A, acc[k]), k + 1)
      BY <2>2, SeSortedMore
    <2> QED
      BY <2>3, <2>4
  <1>5. N \in SUBSET Nat
    OBVIOUS
  <1>6. SeSorted(A, s, n)
    <2> HIDE DEF N
    <2>1. N = Nat
      BY <1>3, <1>4, <1>5, NatAll
    <2> QED
      BY <1>1, <1>2, <2>1 DEF N
  <1>7. A \ ToSet(s) = {}
    <2>1. Cardinality(A \ ToSet(s)) = 0 /\ IsFiniteSet(A \ ToSet(s))
      <3>1. Cardinality(A \ ToSet(s)) = n - n
        BY <1>6 DEF SeSorted
      <3> QED
        BY <1>1, <3>1, FS_Subset
    <2> QED
      BY <2>1, FS_EmptySet
  <1>8. A = {s[i] : i \in 1 .. n}
    <2>1. s \in Seq(A) /\ Len(s) = n /\ DOMAIN s = 1 .. n
      BY <1>6 DEF SeSorted
    <2>2. ToSet(s) = {s[i] : i \in 1 .. n}
      BY <2>1 DEF ToSet
    <2> QED
      BY <1>7, <2>1, <2>2
  <1> QED
    BY <1>1, <1>6, <1>8 DEF SeSorted, SeInOrder

-----------------------------------------------------------------------------
(* One alert more.                                                             *)
SeLink(ch, a) ==
    IF ch # <<>> /\ a.at - Max({b.at : b \in Last(ch)}) <= SeWindow
    THEN Front(ch) \o <<Last(ch) \cup {a}>>
    ELSE Append(ch, {a})

SeLinks(A, ch, x, n, far, more) ==
    /\ more \in Seq(SUBSET A)
    /\ (n > 0 /\ x.at - far <= SeWindow) =>
          Len(more) = n /\ more[n] = ch[n] \cup {x} /\ \A i \in 1 .. n - 1 : more[i] = ch[i]
    /\ ~(n > 0 /\ x.at - far <= SeWindow) =>
          Len(more) = n + 1 /\ more[n + 1] = {x} /\ \A i \in 1 .. n : more[i] = ch[i]

LEMMA SeLinkOf ==
    ASSUME NEW A, NEW ch \in Seq(SUBSET A), NEW x \in A, NEW n, n = Len(ch), NEW more, more = SeLink(ch, x),
           NEW far, far = Max({b.at : b \in ch[n]})
    PROVE  SeLinks(A, ch, x, n, far, more)
  <1>2. n \in Nat /\ (ch = <<>> <=> n = 0) /\ DOMAIN ch = 1 .. n
    OBVIOUS
  <1>3. Last(ch) = ch[n] /\ Max({b.at : b \in Last(ch)}) = far
    BY DEF Last
  <1>4. CASE ch # <<>> /\ x.at - far <= SeWindow
    <2>1. PICK front : front = Front(ch)
      OBVIOUS
    <2>2. n > 0 /\ n - 1 \in Nat
      BY <1>2, <1>4
    <2>3. front \in Seq(SUBSET A) /\ Len(front) = n - 1 /\ \A i \in 1 .. n - 1 : front[i] = ch[i]
      BY <1>2, <2>1, <2>2 DEF Front
    <2>4. PICK join : join = ch[n] \cup {x}
      OBVIOUS
    <2>5. join \in SUBSET A
      BY <1>2, <2>2, <2>4
    <2>6. more = front \o <<join>>
      BY <1>3, <1>4, <2>1, <2>4 DEF SeLink
    <2>7. more \in Seq(SUBSET A) /\ Len(more) = n /\ more[n] = join /\ \A i \in 1 .. n - 1 : more[i] = ch[i]
      BY <2>2, <2>3, <2>5, <2>6
    <2> QED
      BY <1>4, <2>2, <2>4, <2>7 DEF SeLinks
  <1>5. CASE ~(ch # <<>> /\ x.at - far <= SeWindow)
    <2>1. more = Append(ch, {x})
      BY <1>3, <1>5 DEF SeLink
    <2>2. /\ more \in Seq(SUBSET A) /\ Len(more) = n + 1 /\ more[n + 1] = {x}
          /\ \A i \in 1 .. n : more[i] = ch[i]
      BY <1>2, <2>1
    <2>3. ~(n > 0 /\ x.at - far <= SeWindow)
      BY <1>2, <1>5
    <2> QED
      BY <2>2, <2>3 DEF SeLinks
  <1> QED
    BY <1>4, <1>5

(* The last chain ends with the latest alert.                                  *)
SeEndsAt(c, P, far) == \E z \in c : (\A y \in P : y.at <= z.at) /\ far = z.at

LEMMA SeLastAt ==
    ASSUME NEW A, SeTimed(A), NEW ch, NEW P, SeChained(A, ch, P), NEW n, n = Len(ch), n > 0,
           NEW far, far = Max({b.at : b \in ch[n]})
    PROVE  SeEndsAt(ch[n], P, far)
  <1>1. ch \in Seq(SUBSET A) /\ n \in Nat /\ P = UNION {ch[i] : i \in 1 .. n} /\ P \subseteq A
    BY DEF SeChained, SeApart
  <1>2. ch[n] \subseteq P
    BY <1>1
  <1>3. PICK z \in ch[n] : \A y \in P : y.at <= z.at
    BY DEF SeChained, SeLatest
  <1>4. PICK T : T = {b.at : b \in ch[n]}
    OBVIOUS
  <1>5. T \in SUBSET Int /\ z.at \in T /\ \A t \in T : t <= z.at
    BY <1>1, <1>2, <1>3, <1>4 DEF SeTimed
  <1>6. Max(T) \in T /\ \A t \in T : t <= Max(T)
    <2>1. T # {} /\ z.at \in Int
      BY <1>5
    <2> QED
      BY <1>5, <2>1, IntGreatest
  <1>7. Max(T) = z.at
    <2>1. Max(T) \in Int /\ z.at \in Int
      BY <1>5, <1>6
    <2>2. Max(T) <= z.at /\ z.at <= Max(T)
      BY <1>5, <1>6
    <2> QED
      BY <2>1, <2>2
  <1> QED
    BY <1>3, <1>4, <1>7 DEF SeEndsAt

LEMMA SeLinked ==
    ASSUME NEW A, SeTimed(A), NEW ch, NEW P, SeChained(A, ch, P), NEW x, SeNext1(A, P, x)
    PROVE  SeChained(A, SeLink(ch, x), P \cup {x})
  <1>1. PICK n : n = Len(ch)
    OBVIOUS
  <1>2. ch \in Seq(SUBSET A) /\ n \in Nat
    BY <1>1 DEF SeChained, SeApart
  <1>3. x \in A /\ x.at \in Int /\ \A y \in A : y.at \in Int
    BY DEF SeNext1
  <1>4. PICK more : more = SeLink(ch, x)
    OBVIOUS
  <1>5. PICK far : far = Max({b.at : b \in ch[n]})
    OBVIOUS
  <1>6. SeLinks(A, ch, x, n, far, more)
    BY <1>1, <1>2, <1>3, <1>4, <1>5, SeLinkOf
  <1>0. more \in Seq(SUBSET A)
    BY <1>6 DEF SeLinks
  <1>9. n > 0 => \E z \in ch[n] : (\A y \in P : y.at <= z.at) /\ far = z.at
    <2>1. n > 0 => SeEndsAt(ch[n], P, far)
      BY <1>1, <1>5, SeLastAt
    <2> QED
      BY <2>1 DEF SeEndsAt
  <1>7. CASE n > 0 /\ x.at - far <= SeWindow
    <2>1. PICK z \in ch[n] : (\A y \in P : y.at <= z.at) /\ far = z.at
      BY <1>7, <1>9
    <2>2. Len(more) = n /\ more[n] = ch[n] \cup {x} /\ \A i \in 1 .. n - 1 : more[i] = ch[i]
      BY <1>6, <1>7 DEF SeLinks
    <2> QED
      BY <1>0, <1>1, <1>4, <1>7, <2>1, <2>2, SeJoins
  <1>8. CASE ~(n > 0 /\ x.at - far <= SeWindow)
    <2>1. Len(more) = n + 1 /\ more[n + 1] = {x} /\ \A i \in 1 .. n : more[i] = ch[i]
      BY <1>6, <1>8 DEF SeLinks
    <2>2. n > 0 => \E z \in ch[n] : (\A y \in P : y.at <= z.at) /\ x.at - z.at > SeWindow
      <3>1. SUFFICES ASSUME n > 0 PROVE \E z \in ch[n] : (\A y \in P : y.at <= z.at) /\ x.at - z.at > SeWindow
        OBVIOUS
      <3>2. PICK z \in ch[n] : (\A y \in P : y.at <= z.at) /\ far = z.at
        BY <1>9, <3>1
      <3>3. z \in A
        BY <1>1, <1>2, <3>1
      <3>4. SeWindow \in Int
        BY DEF SeWindow
      <3>5. x.at - z.at > SeWindow
        BY <1>3, <1>8, <3>1, <3>2, <3>3, <3>4
      <3> QED
        BY <3>2, <3>5
    <2>3. SeAfterPause(ch, P, x, n)
      BY <2>2 DEF SeAfterPause
    <2>4. SeOneMore(A, ch, x, n, more)
      BY <1>0, <2>1 DEF SeOneMore
    <2> QED
      BY <1>1, <1>4, <2>3, <2>4, SeStarts
  <1> QED
    BY <1>7, <1>8

(* The values of the fold that chains.                                         *)
SeChainRun(A, s, acc) ==
    /\ acc[0] = <<>> /\ acc[Len(s)] = SeChain(A)
    /\ \A k \in 1 .. Len(s) : acc[k] = SeLink(acc[k - 1], s[k])

LEMMA SeChaining ==
    ASSUME NEW A, NEW s \in Seq(A), s = SeByDate(A)
    PROVE  \E acc : SeChainRun(A, s, acc)
  <1>0. PICK n : n = Len(s)
    OBVIOUS
  <1>1. PICK Y : Y = Seq(SUBSET A)
    OBVIOUS
  <1>2. PICK base : base = <<>>
    OBVIOUS
  <1>3. n \in Nat /\ n = Len(s) /\ DOMAIN s = 1 .. n /\ \A i \in 1 .. n : s[i] \in A
    BY <1>0
  <1>4. base \in Y
    BY <1>1, <1>2
  <1>5. PICK step : step = [z \in Y \X A |-> SeLink(z[1], z[2])]
    OBVIOUS
  <1>6. ASSUME NEW y \in Y, NEW a \in A PROVE SeLink(y, a) \in Y /\ step[<<y, a>>] = SeLink(y, a)
    <2>0. PICK far : far = Max({b.at : b \in y[Len(y)]})
      OBVIOUS
    <2>2. SeLinks(A, y, a, Len(y), far, SeLink(y, a))
      BY <1>1, <2>0, SeLinkOf
    <2>1. SeLink(y, a) \in Y
      BY <1>1, <2>2 DEF SeLinks
    <2> QED
      BY <1>5, <2>1
  <1>7. step \in [Y \X A -> Y]
    BY <1>5, <1>6
  <1>8. PICK acc : Runs(Y, s, step, base, acc) /\ acc[n] = SeChain(A)
    <2> DEFINE Body(g) == [t \in SUBSET DOMAIN s |->
                              IF t = {} THEN base ELSE SeLink(g[t \ {Max(t)}], s[Max(t)])]
               it == CHOOSE g : g = Body(g)
    <2>1. SeChain(A) = it[DOMAIN s]
      BY <1>2 DEF SeChain, SeLink, FoldLeft, MapThenFoldSet
    <2>2. \A t \in SUBSET (1 .. n) : t # {} => Max(t) \in 1 .. n
      BY <1>3, PrefixSet
    <2>3. PICK g \in [SUBSET (1 .. n) -> Y] : FoldsLeft(Y, s, step, base, g)
      BY <1>3, <1>4, <1>7, FoldLeftRuns
    <2>4. g = Body(g)
      <3>1. g[{}] = base
        BY <2>3 DEF FoldsLeft
      <3>2. ASSUME NEW t \in SUBSET (1 .. n), t # {}
            PROVE  g[t] = SeLink(g[t \ {Max(t)}], s[Max(t)])
        <4>1. g[t \ {Max(t)}] \in Y /\ s[Max(t)] \in A
          BY <1>3, <2>2, <2>3, <3>2
        <4>2. g[t] = step[<<g[t \ {Max(t)}], s[Max(t)]>>]
          BY <1>3, <2>3, <3>2, <4>1 DEF FoldsLeft, LastOf
        <4> QED
          BY <1>6, <4>1, <4>2
      <3> QED
        BY <1>3, <2>3, <3>1, <3>2
    <2>5. it = Body(it)
      <3>1. \E x : x = Body(x)
        BY <2>4
      <3> HIDE DEF Body
      <3> QED
        BY <3>1
    <2>6. \A t \in SUBSET (1 .. n) : it[t] = IF t = {} THEN base ELSE SeLink(it[t \ {Max(t)}], s[Max(t)])
      <3> HIDE DEF it
      <3> QED
        BY <1>3, <2>5
    <2> HIDE DEF it, Body
    <2>7. FoldsLeft(Y, s, step, base, it)
      <3>1. ASSUME NEW t \in SUBSET (1 .. n), t # {}, it[t \ {Max(t)}] \in Y
            PROVE  it[t] = step[<<it[t \ {Max(t)}], s[Max(t)]>>]
        <4>1. s[Max(t)] \in A
          BY <1>3, <2>2, <3>1
        <4> QED
          BY <1>6, <2>6, <3>1, <4>1
      <3> QED
        BY <1>3, <2>6, <3>1 DEF FoldsLeft, LastOf
    <2>8. Ends(Y, s, step, base, it)
      BY <1>3, <1>4, <1>7, <2>7, FoldLeftRuns
    <2> QED
      BY <1>3, <2>1, <2>8 DEF Ends
  <1>9. ASSUME NEW k \in 1 .. n PROVE acc[k] = SeLink(acc[k - 1], s[k])
    <2>1. acc \in [0 .. n -> Y] /\ k - 1 \in 0 .. n /\ s[k] \in A
      BY <1>3, <1>8 DEF Runs
    <2>2. acc[k] = step[<<acc[k - 1], s[k]>>]
      BY <1>3, <1>8 DEF Runs
    <2> QED
      BY <1>6, <2>1, <2>2
  <1>10. acc[0] = <<>>
    BY <1>2, <1>8 DEF Runs
  <1> QED
    BY <1>0, <1>8, <1>9, <1>10 DEF SeChainRun

(* The chains of a host's alerts are what their pauses leave together.         *)
LEMMA SeChainOf ==
    ASSUME NEW A, SeTimed(A)
    PROVE  SeChained(A, SeChain(A), A)
  <1>1. PICK s : s = SeByDate(A)
    OBVIOUS
  <1>2. PICK n : n = Cardinality(A)
    OBVIOUS
  <1>3. SeInOrder(A, s, n)
    BY <1>1, <1>2, SeOrdered
  <1>4. /\ s \in Seq(A) /\ Len(s) = n /\ n \in Nat /\ A = {s[i] : i \in 1 .. n}
        /\ \A i, j \in 1 .. n : i < j => s[i] # s[j] /\ s[i].at <= s[j].at
    BY <1>3 DEF SeInOrder
  <1>10. PICK acc : SeChainRun(A, s, acc)
    BY <1>1, <1>4, SeChaining
  <1>5. /\ acc[0] = <<>> /\ acc[n] = SeChain(A)
        /\ \A k \in 1 .. n : acc[k] = SeLink(acc[k - 1], s[k])
    BY <1>4, <1>10 DEF SeChainRun
  <1>11. PICK taken : taken = [k \in Nat |-> {s[i] : i \in 1 .. k}]
    OBVIOUS
  <1> DEFINE N == {k \in Nat : k <= n => SeChained(A, acc[k], taken[k])}
  <1>6. 0 \in N
    <2>1. PICK base : base = acc[0]
      OBVIOUS
    <2>2. PICK P : P = taken[0]
      OBVIOUS
    <2>3. base = <<>> /\ P = {} /\ Len(base) = 0 /\ 1 .. 0 = {}
      BY <1>5, <1>11, <2>1, <2>2
    <2>4. base \in Seq(SUBSET A)
      BY <2>3
    <2>5. SeApart(A, base, P)
      BY <2>3, <2>4 DEF SeApart
    <2>6. SeChained(A, base, P)
      BY <2>3, <2>5 DEF SeLatest, SeBroken, SeChained
    <2> QED
      BY <2>1, <2>2, <2>6
  <1>7. ASSUME NEW k \in N PROVE k + 1 \in N
    <2>0. k \in Nat
      OBVIOUS
    <2>1. SUFFICES ASSUME k + 1 <= n PROVE SeChained(A, acc[k + 1], taken[k + 1])
      BY <2>0
    <2>2. k + 1 \in 1 .. n /\ (k + 1) - 1 = k /\ SeChained(A, acc[k], taken[k])
      BY <1>4, <2>0, <2>1
    <2>3. PICK P : P = taken[k]
      OBVIOUS
    <2>4. taken[k + 1] = P \cup {s[k + 1]} /\ P = {s[i] : i \in 1 .. k}
      BY <1>11, <2>0, <2>3
    <2>5. SeNext1(A, P, s[k + 1])
      <3>1. P \subseteq A /\ s[k + 1] \in A
        BY <1>4, <2>0, <2>1, <2>2, <2>4
      <3>2. \A y \in P : y # s[k + 1] /\ y.at <= s[k + 1].at
        BY <1>4, <2>0, <2>1, <2>2, <2>4
      <3> QED
        BY <3>1, <3>2 DEF SeNext1, SeTimed
    <2>6. SeChained(A, SeLink(acc[k], s[k + 1]), P \cup {s[k + 1]})
      BY <2>2, <2>3, <2>5, SeLinked
    <2>7. acc[k + 1] = SeLink(acc[k], s[k + 1])
      BY <1>5, <2>2
    <2> QED
      BY <2>4, <2>6, <2>7
  <1>8. N \in SUBSET Nat
    OBVIOUS
  <1>9. SeChained(A, acc[n], taken[n])
    <2>1. N = Nat
      <3> HIDE DEF N
      <3> QED
        BY <1>6, <1>7, <1>8, NatAll
    <2>2. n \in N
      BY <1>4, <2>1
    <2> QED
      BY <1>4, <2>2
  <1>12. taken[n] = A
    BY <1>4, <1>11
  <1> QED
    BY <1>5, <1>9, <1>12

-----------------------------------------------------------------------------
(* An alert of a capture, before and after it is dated.                        *)
SeProper(e, a) ==
    /\ SeRecord(a) /\ a.src \in SeHosts(e) /\ a.score \in 0 .. 100 /\ a.severity = SeSeverity(a.score)
    /\ a.flows \subseteq e.flows /\ a.at \in Int

LEMMA SeWellProper ==
    ASSUME NEW e, NEW a, SeWell(e, a)
    PROVE  SeProper(e, a)
  <1>1. PICK rule, src, dst, what, score, flows :
            /\ a = SeAlert(rule, src, dst, what, score, flows)
            /\ src \in SeHosts(e) /\ score \in Int /\ flows \subseteq e.flows
    BY DEF SeWell
  <1>2. PICK level : level = SeClamp(score)
    OBVIOUS
  <1>3. level \in 0 .. 100
    BY <1>1, <1>2, SeClamped
  <1>4. PICK severity : severity = SeSeverity(level)
    OBVIOUS
  <1>5. a = [rule |-> rule, src |-> src, dst |-> dst, what |-> what, score |-> level,
             severity |-> severity, flows |-> flows, at |-> 0]
    BY <1>1, <1>2, <1>4 DEF SeAlert
  <1>6. SeRecord(a)
    BY <1>5 DEF SeRecord
  <1>7. a.src = src /\ a.score = level /\ a.severity = severity /\ a.flows = flows /\ a.at = 0
    BY <1>5
  <1> QED
    BY <1>1, <1>3, <1>4, <1>6, <1>7 DEF SeProper

LEMMA SeDatedProper ==
    ASSUME NEW e, SeEvident(e), NEW a, SeProper(e, a)
    PROVE  SeProper(e, SeDated(a, e))
  <1>1. PICK at : at = IF a.flows # {} THEN SeOne(a.flows).first ELSE IF e.dns # <<>> THEN e.dns[1].at ELSE 0
    OBVIOUS
  <1>2. SeDated(a, e) = [a EXCEPT !.at = at]
    BY <1>1 DEF SeDated
  <1>3. PICK d : d = SeDated(a, e)
    OBVIOUS
  <1>4. d = [rule |-> a.rule, src |-> a.src, dst |-> a.dst, what |-> a.what, score |-> a.score,
             severity |-> a.severity, flows |-> a.flows, at |-> at]
    BY <1>2, <1>3 DEF SeProper, SeRecord
  <1>5. at \in Int
    <2>1. CASE a.flows # {}
      <3>1. a.flows \in SUBSET SeFlow /\ IsFiniteSet(a.flows)
        BY FS_Subset DEF SeProper, SeEvident, SeFlows
      <3>2. SeOne(a.flows) \in SeFlow
        BY <2>1, <3>1, SeOneOf
      <3> QED
        BY <1>1, <2>1, <3>2 DEF SeFlow
    <2>2. CASE a.flows = {} /\ e.dns # <<>>
      <3>1. e.dns[1] \in SeTransaction
        BY <2>2 DEF SeEvident
      <3> QED
        BY <1>1, <2>2, <3>1 DEF SeTransaction
    <2>3. CASE a.flows = {} /\ e.dns = <<>>
      BY <1>1, <2>3
    <2> QED
      BY <2>1, <2>2, <2>3
  <1>6. SeRecord(d)
    BY <1>4 DEF SeRecord
  <1>7. d.src = a.src /\ d.score = a.score /\ d.severity = a.severity /\ d.flows = a.flows /\ d.at = at
    BY <1>4
  <1>8. SeProper(e, d)
    BY <1>5, <1>6, <1>7 DEF SeProper
  <1> QED
    BY <1>3, <1>8

(* What holds of the variables.                                                *)
SeTyped ==
    /\ seCapture \in SeCaptures /\ seStep \in 0 .. 18 /\ SeEvident(seEvidence)
    /\ IsFiniteSet(seAlerts) /\ \A a \in seAlerts : SeProper(seEvidence, a)
    /\ seStep = 0 => seAlerts = {}
    /\ seStep >= 17 => seCounts = [h \in SeHosts(seEvidence) \ {SeNone} |-> SeCount(seAlerts, h)]
    /\ seStep = 18 => seIncidents = SeCorrelate(seAlerts)

LEMMA SeTypedBegins == SeInit => SeTyped
  <1> SUFFICES ASSUME SeInit PROVE SeTyped
    OBVIOUS
  <1>1. /\ seEvidence.flows = {} /\ seEvidence.dns = <<>> /\ seEvidence.arp = {} /\ seEvidence.http = <<>>
        /\ seStep = 0 /\ seAlerts = {} /\ seCapture \in SeCaptures
    BY DEF SeInit, SeNothing
  <1>2. seEvidence.dns \in Seq(SeTransaction) /\ seEvidence.http \in Seq(SeRequest)
    BY <1>1
  <1>3. SeEvident(seEvidence)
    BY <1>1, <1>2, FS_EmptySet DEF SeEvident, SeFlows
  <1> QED
    BY <1>1, <1>3, FS_EmptySet DEF SeTyped

LEMMA SeBurst ==
    ASSUME NEW C \in SeCaptures, NEW b \in C
    PROVE  SeEvident(b)
  <1>1. /\ b.flows \subseteq SeFlow /\ IsFiniteSet(b.flows)
        /\ b.arp \subseteq SeClaim /\ IsFiniteSet(b.arp)
        /\ b.dns \in Seq(SeTransaction) /\ b.http \in Seq(SeRequest)
        /\ \A f \in b.flows : f.first <= f.last /\ (f.failed => f.transport = "TCP")
    BY SeAssumption
  <1> QED
    BY <1>1 DEF SeEvident, SeFlows

LEMMA SeTypedKept == SeTyped /\ [SeNext]_seVars => SeTyped'
  <1> SUFFICES ASSUME SeTyped, [SeNext]_seVars PROVE SeTyped'
    OBVIOUS
  <1>0. /\ seCapture \in SeCaptures /\ seStep \in 0 .. 18 /\ SeEvident(seEvidence)
        /\ IsFiniteSet(seAlerts) /\ \A a \in seAlerts : SeProper(seEvidence, a)
        /\ seStep = 0 => seAlerts = {}
        /\ seStep >= 17 => seCounts = [h \in SeHosts(seEvidence) \ {SeNone} |-> SeCount(seAlerts, h)]
        /\ seStep = 18 => seIncidents = SeCorrelate(seAlerts)
    BY DEF SeTyped
  <1>1. ASSUME NEW b \in seCapture, SeObserve(b) PROVE SeTyped'
    <2>1. PICK e : e = seEvidence'
      OBVIOUS
    <2>2. /\ e.flows = seEvidence.flows \cup b.flows /\ e.arp = seEvidence.arp \cup b.arp
          /\ e.dns = seEvidence.dns \o b.dns /\ e.http = seEvidence.http \o b.http
          /\ seStep = 0 /\ seStep' = 0 /\ seAlerts' = {} /\ seCapture' = seCapture
      BY <1>0, <1>1, <2>1 DEF SeObserve
    <2>3. SeEvident(b)
      BY <1>0, SeBurst
    <2>4. SeEvident(e)
      <3>0. /\ seEvidence.dns \in Seq(SeTransaction) /\ b.dns \in Seq(SeTransaction)
            /\ seEvidence.http \in Seq(SeRequest) /\ b.http \in Seq(SeRequest)
        BY <1>0, <2>3 DEF SeEvident
      <3>1. e.dns \in Seq(SeTransaction) /\ e.http \in Seq(SeRequest)
        BY <2>2, <3>0
      <3>2. IsFiniteSet(e.flows) /\ IsFiniteSet(e.arp)
        <4>1. /\ IsFiniteSet(seEvidence.flows) /\ IsFiniteSet(b.flows)
              /\ IsFiniteSet(seEvidence.arp) /\ IsFiniteSet(b.arp)
          BY <1>0, <2>3 DEF SeEvident, SeFlows
        <4>2. IsFiniteSet(seEvidence.flows \cup b.flows)
          BY <4>1, FS_Union
        <4>3. IsFiniteSet(seEvidence.arp \cup b.arp)
          BY <4>1, FS_Union
        <4> QED
          BY <2>2, <4>2, <4>3
      <3>3. /\ e.flows \subseteq SeFlow /\ e.arp \subseteq SeClaim
            /\ \A f \in e.flows : f.first <= f.last /\ (f.failed => f.transport = "TCP")
        BY <1>0, <2>2, <2>3 DEF SeEvident, SeFlows
      <3> QED
        BY <3>1, <3>2, <3>3 DEF SeEvident, SeFlows
    <2> QED
      BY <1>0, <2>1, <2>2, <2>4, FS_EmptySet DEF SeTyped
  <1>2. CASE SeRun
    BY <1>0, <1>2 DEF SeRun, SeTyped
  <1>3. CASE SeApplyRule
    <2>1. PICK e : e = seEvidence
      OBVIOUS
    <2>2. PICK n : n = seStep
      OBVIOUS
    <2>3. n \in 1 .. 14 /\ seStep' = n + 1 /\ seAlerts' = seAlerts \cup SeRule(n, e)
          /\ UNCHANGED <<seCapture, seEvidence>>
      BY <1>3, <2>1, <2>2 DEF SeApplyRule
    <2>4. SeRaised(e, SeRule(n, e))
      BY <1>0, <2>1, <2>3, SeRulesRaise
    <2>5. IsFiniteSet(seAlerts')
      BY <1>0, <2>3, <2>4, FS_Union DEF SeRaised
    <2>6. \A a \in seAlerts' : SeProper(e, a)
      BY <1>0, <2>1, <2>3, <2>4, SeWellProper DEF SeRaised
    <2>7. n + 1 \in 0 .. 18 /\ n + 1 # 0 /\ ~(n + 1 >= 17)
      BY <2>3
    <2> QED
      BY <1>0, <2>1, <2>3, <2>5, <2>6, <2>7 DEF SeTyped
  <1>4. CASE SeDate
    <2>1. PICK e : e = seEvidence
      OBVIOUS
    <2>2. seStep = 15 /\ seStep' = 16 /\ UNCHANGED <<seCapture, seEvidence>>
          /\ seAlerts' = {SeDated(a, e) : a \in seAlerts}
      BY <1>4, <2>1 DEF SeDate
    <2>3. IsFiniteSet(seAlerts')
      <3>1. PICK of : of = [a \in seAlerts |-> SeDated(a, e)]
        OBVIOUS
      <3>2. DOMAIN of = seAlerts /\ of = [a \in seAlerts |-> of[a]] /\ seAlerts' = {of[a] : a \in seAlerts}
        BY <2>2, <3>1
      <3>3. PICK S : S = seAlerts
        OBVIOUS
      <3>4. IsFiniteSet({of[a] : a \in S})
        BY <1>0, <3>2, <3>3, FiniteImage
      <3> QED
        BY <3>2, <3>3, <3>4
    <2>4. \A a \in seAlerts' : SeProper(e, a)
      BY <1>0, <2>1, <2>2, SeDatedProper
    <2> QED
      BY <1>0, <2>1, <2>2, <2>3, <2>4 DEF SeTyped
  <1>5. CASE SeAugment
    BY <1>0, <1>5 DEF SeAugment, SeTyped
  <1>6. CASE SePersist
    BY <1>0, <1>6 DEF SePersist, SeTyped
  <1>7. CASE UNCHANGED seVars
    BY <1>0, <1>7 DEF seVars, SeTyped
  <1> QED
    BY <1>1, <1>2, <1>3, <1>4, <1>5, <1>6, <1>7 DEF SeNext

(* A host's chains.                                                            *)
LEMMA SeEligibleTimed ==
    ASSUME SeTyped, NEW h, NEW A, A = SeEligible(seAlerts, h)
    PROVE  /\ A \subseteq seAlerts /\ SeTimed(A) /\ SeChained(A, SeChain(A), A)
           /\ \A a \in A : a.src = h /\ a.severity # "info" /\ SeProper(seEvidence, a)
  <1>1. A \subseteq seAlerts /\ \A a \in A : a.src = h /\ a.severity # "info"
    BY DEF SeEligible
  <1>2. IsFiniteSet(seAlerts) /\ \A a \in seAlerts : SeProper(seEvidence, a)
    BY DEF SeTyped
  <1>3. IsFiniteSet(A)
    BY <1>1, <1>2, FS_Subset
  <1>4. \A a \in A : SeProper(seEvidence, a)
    BY <1>1, <1>2
  <1>5. SeTimed(A)
    BY <1>3, <1>4 DEF SeTimed, SeProper
  <1>6. SeChained(A, SeChain(A), A)
    BY <1>5, SeChainOf
  <1> QED
    BY <1>1, <1>4, <1>5, <1>6

SeChainsOf(h) == ToSet(SeChain(SeEligible(seAlerts, h)))

LEMMA SeChainFacts ==
    ASSUME SeTyped, NEW h, NEW A, A = SeEligible(seAlerts, h), NEW C, C = SeChainsOf(h)
    PROVE  /\ \A c \in C : c \subseteq A /\ c # {}
           /\ \A c, d \in C : c # d => c \cap d = {}
           /\ A = UNION C
           /\ \A a, b \in A : a.at <= b.at => ((\E c \in C : a \in c /\ b \in c) <=> ~SePaused(A, a, b))
  <1>1. PICK ch : ch = SeChain(A)
    OBVIOUS
  <1>2. PICK n : n = Len(ch)
    OBVIOUS
  <1>3. SeChained(A, ch, A)
    BY <1>1, SeEligibleTimed
  <1>4. /\ ch \in Seq(SUBSET A)
        /\ \A i \in 1 .. n : ch[i] # {}
        /\ \A i, j \in 1 .. n : i # j => ch[i] \cap ch[j] = {}
        /\ A = UNION {ch[i] : i \in 1 .. n}
    BY <1>2, <1>3 DEF SeChained, SeApart
  <1>5. C = {ch[i] : i \in 1 .. n}
    <2>1. DOMAIN ch = 1 .. n
      BY <1>2, <1>4
    <2> QED
      BY <1>1, <2>1 DEF SeChainsOf, ToSet
  <1>6. \A a, b \in A : (\E c \in C : a \in c /\ b \in c) <=> SeTogether(ch, a, b)
    BY <1>2, <1>5 DEF SeTogether
  <1>7. \A a, b \in A : a.at <= b.at => (SeTogether(ch, a, b) <=> ~SePaused(A, a, b))
    BY <1>3 DEF SeChained, SeBroken
  <1>8. \A c \in C : c \subseteq A /\ c # {}
    BY <1>4, <1>5
  <1>9. \A c, d \in C : c # d => c \cap d = {}
    BY <1>4, <1>5
  <1>10. A = UNION C
    BY <1>4, <1>5
  <1>11. \A a, b \in A : a.at <= b.at => ((\E c \in C : a \in c /\ b \in c) <=> ~SePaused(A, a, b))
    BY <1>6, <1>7
  <1> QED
    BY <1>8, <1>9, <1>10, <1>11

-----------------------------------------------------------------------------
(* Incidents.                                                                  *)
SeSources == {a.src : a \in seAlerts} \ {SeNone}
SeIncidentsOf(h) == {i \in seIncidents : i.src = h}

LEMMA SeIncidentFields == \A h, c : SeIncident(h, c).src = h /\ SeIncident(h, c).alerts = c
  BY DEF SeIncident

LEMMA SeIncidentIs ==
    ASSUME SeTyped, seStep = 18
    PROVE  /\ \A i \in seIncidents : \E h \in SeSources : \E c \in SeChainsOf(h) : i = SeIncident(h, c)
           /\ \A h \in SeSources : SeIncidentsOf(h) = {SeIncident(h, c) : c \in SeChainsOf(h)}
  <1>1. seIncidents = UNION {{SeIncident(h, c) : c \in SeChainsOf(h)} : h \in SeSources}
    BY DEF SeTyped, SeCorrelate, SeChainsOf, SeSources
  <1>2. \A i : i \in seIncidents <=> \E h \in SeSources : \E c \in SeChainsOf(h) : i = SeIncident(h, c)
    BY <1>1
  <1>3. \A h, c : SeIncident(h, c).src = h
    BY SeIncidentFields
  <1>4. ASSUME NEW h \in SeSources
        PROVE  SeIncidentsOf(h) = {SeIncident(h, c) : c \in SeChainsOf(h)}
    BY <1>2, <1>3 DEF SeIncidentsOf
  <1> QED
    BY <1>2, <1>4

LEMMA SeSeverityOf ==
    ASSUME NEW n \in Int
    PROVE  SeSeverity(n) \in {"critical", "high", "medium", "low", "info"}
  BY DEF SeSeverity

(* An incident begins before it ends, and is as severe as its worst alert.     *)
LEMMA SeIncidentSound ==
    ASSUME SeTyped, seStep = 18, NEW i \in seIncidents
    PROVE  i.first <= i.last /\ i.severity # "info"
  <1>1. PICK h \in SeSources : \E c \in SeChainsOf(h) : i = SeIncident(h, c)
    BY SeIncidentIs
  <1>2. PICK c \in SeChainsOf(h) : i = SeIncident(h, c)
    BY <1>1
  <1>3. PICK A : A = SeEligible(seAlerts, h)
    OBVIOUS
  <1>4. c \subseteq A /\ c # {}
    <2>1. PICK C : C = SeChainsOf(h)
      OBVIOUS
    <2>2. \A d \in C : d \subseteq A /\ d # {}
      BY <1>3, <2>1, SeChainFacts
    <2> QED
      BY <1>2, <2>1, <2>2
  <1>5. /\ IsFiniteSet(A)
        /\ \A a \in A : a.severity # "info" /\ a.severity = SeSeverity(a.score) /\ a.score \in Int /\ a.at \in Int
    BY <1>3, SeEligibleTimed DEF SeTimed, SeProper
  <1>6. IsFiniteSet(c)
    BY <1>4, <1>5, FS_Subset
  <1>7. PICK scores : scores = {a.score : a \in c}
    OBVIOUS
  <1>8. PICK times : times = {a.at : a \in c}
    OBVIOUS
  <1>9. IsFiniteSet(scores) /\ scores \in SUBSET Int /\ scores # {}
    <2>1. PICK of : of = [a \in c |-> a.score]
      OBVIOUS
    <2>2. IsFiniteSet({of[a] : a \in c}) /\ scores = {of[a] : a \in c}
      BY <1>6, <1>7, <2>1, FiniteImage
    <2> QED
      BY <1>4, <1>5, <1>7, <2>2
  <1>10. IsFiniteSet(times) /\ times \in SUBSET Int /\ times # {}
    <2>1. PICK of : of = [a \in c |-> a.at]
      OBVIOUS
    <2>2. IsFiniteSet({of[a] : a \in c}) /\ times = {of[a] : a \in c}
      BY <1>6, <1>8, <2>1, FiniteImage
    <2> QED
      BY <1>4, <1>5, <1>8, <2>2
  <1>11. i.severity = SeSeverity(Max(scores)) /\ i.first = Min(times) /\ i.last = Max(times)
    BY <1>2, <1>7, <1>8 DEF SeIncident
  <1>12. i.severity # "info"
    <2>1. Max(scores) \in scores
      BY <1>9, FiniteGreatest
    <2>2. PICK a \in c : Max(scores) = a.score
      BY <1>7, <2>1
    <2>3. a.severity = SeSeverity(a.score) /\ a.severity # "info"
      BY <1>4, <1>5
    <2> QED
      BY <1>11, <2>2, <2>3
  <1>13. i.first <= i.last
    <2>1. Min(times) \in times
      BY <1>10, FiniteLeast
    <2>2. \A t \in times : t <= Max(times)
      BY <1>10, FiniteGreatest
    <2> QED
      BY <1>11, <2>1, <2>2
  <1> QED
    BY <1>12, <1>13

LEMMA SeTypedOK == SeTyped => SeTypeOK
  <1> SUFFICES ASSUME SeTyped PROVE SeTypeOK
    OBVIOUS
  <1>1. seStep \in 0 .. 18
    BY DEF SeTyped
  <1>2. ASSUME NEW a \in seAlerts
        PROVE  /\ a.src \in SeHosts(seEvidence) /\ a.score \in 0 .. 100
               /\ a.severity \in {"critical", "high", "medium", "low", "info"}
               /\ a.flows \subseteq seEvidence.flows
    <2>1. SeProper(seEvidence, a)
      BY DEF SeTyped
    <2>2. a.score \in Int /\ a.severity = SeSeverity(a.score)
      BY <2>1 DEF SeProper
    <2> QED
      BY <2>1, <2>2, SeSeverityOf DEF SeProper
  <1>3. seStep = 18 => \A i \in seIncidents : i.first <= i.last /\ i.severity # "info"
    BY SeIncidentSound
  <1> QED
    BY <1>1, <1>2, <1>3 DEF SeTypeOK

(* The incidents of a host and their alerts.                                   *)
SeHolding(h, a) == {i \in seIncidents : i.src = h /\ a \in i.alerts}

LEMMA SeHeldOnce ==
    ASSUME SeTyped, seStep = 18, NEW h \in SeSources, NEW c \in SeChainsOf(h), NEW a \in c
    PROVE  SeHolding(h, a) = {SeIncident(h, c)}
  <1>1. PICK C : C = SeChainsOf(h)
    OBVIOUS
  <1>2. SeIncidentsOf(h) = {SeIncident(h, d) : d \in C}
    BY <1>1, SeIncidentIs
  <1>3. \A d : SeIncident(h, d).src = h /\ SeIncident(h, d).alerts = d
    BY SeIncidentFields
  <1>4. \A d \in C : a \in d => d = c
    <2>1. PICK A : A = SeEligible(seAlerts, h)
      OBVIOUS
    <2>2. \A d, f \in C : d # f => d \cap f = {}
      BY <1>1, <2>1, SeChainFacts
    <2> QED
      BY <1>1, <2>2
  <1>5. SeHolding(h, a) = {i \in SeIncidentsOf(h) : a \in i.alerts}
    BY DEF SeHolding, SeIncidentsOf
  <1> QED
    BY <1>1, <1>2, <1>3, <1>4, <1>5

(* A fold that adds up sizes is a total.                                       *)
LEMMA AlertSum ==
    ASSUME NEW S, IsFiniteSet(S), NEW f \in [S -> Int], \A x \in S : f[x] = Cardinality(x.alerts)
    PROVE  MapThenSumSet(LAMBDA i : Cardinality(i.alerts), S) = Total(f)
  <1> DEFINE Body(g) == [s \in SUBSET S |->
                              IF s = {} THEN 0
                              ELSE Cardinality((CHOOSE x \in s : TRUE).alerts) + g[s \ {CHOOSE x \in s : TRUE}]]
             sum == CHOOSE g : g = Body(g)
  <1>1. \A g : g = Body(g) <=> FoldsSum(S, f, g)
    <2>1. ASSUME NEW g, NEW s \in SUBSET S, s # {}
          PROVE  Cardinality((CHOOSE x \in s : TRUE).alerts) = f[CHOOSE x \in s : TRUE]
      <3>1. (CHOOSE x \in s : TRUE) \in s
        BY <2>1
      <3> QED
        BY <3>1
    <2>2. ASSUME NEW g
          PROVE  Body(g) = [s \in SUBSET S |-> IF s = {} THEN 0
                            ELSE f[CHOOSE x \in s : TRUE] + g[s \ {CHOOSE x \in s : TRUE}]]
      BY <2>1
    <2> QED
      BY <2>2 DEF FoldsSum
  <1>2. sum = Body(sum)
    <2>1. PICK g : FoldsSum(S, f, g)
      BY TotalFolds
    <2>2. g = Body(g)
      BY <1>1, <2>1
    <2> HIDE DEF Body
    <2> QED
      BY <2>2
  <1>3. FoldsSum(S, f, sum)
    BY <1>1, <1>2
  <1>4. sum[S] = Total(f)
    BY <1>3, TotalFolds
  <1>5. MapThenSumSet(LAMBDA i : Cardinality(i.alerts), S) = sum[S]
    BY DEF MapThenSumSet, MapThenFoldSet
  <1> QED
    BY <1>4, <1>5

(* The incidents of a host hold its alerts above "info", each once.            *)
LEMMA SeHeldAll ==
    ASSUME SeTyped, seStep = 18, NEW h \in SeSources
    PROVE  MapThenSumSet(LAMBDA i : Cardinality(i.alerts), SeIncidentsOf(h))
              = Cardinality(SeEligible(seAlerts, h))
  <1>1. PICK S : S = SeIncidentsOf(h)
    OBVIOUS
  <1>2. PICK A : A = SeEligible(seAlerts, h)
    OBVIOUS
  <1>3. PICK C : C = SeChainsOf(h)
    OBVIOUS
  <1>4. /\ \A c \in C : c \subseteq A
        /\ \A c, d \in C : c # d => c \cap d = {}
        /\ A = UNION C
    BY <1>2, <1>3, SeChainFacts
  <1>5. IsFiniteSet(A)
    BY <1>2, SeEligibleTimed DEF SeTimed
  <1>6. IsFiniteSet(C) /\ \A c \in C : IsFiniteSet(c)
    <2>1. IsFiniteSet(SUBSET A) /\ C \subseteq SUBSET A
      BY <1>4, <1>5, FS_SUBSET
    <2> QED
      BY <1>4, <1>5, <2>1, FS_Subset
  <1>7. S = {SeIncident(h, c) : c \in C} /\ \A c : SeIncident(h, c).alerts = c
    BY <1>1, <1>3, SeIncidentIs, SeIncidentFields
  <1>8. IsFiniteSet(S)
    <2>1. PICK of : of = [c \in C |-> SeIncident(h, c)]
      OBVIOUS
    <2>2. IsFiniteSet({of[c] : c \in C}) /\ S = {of[c] : c \in C}
      BY <1>6, <1>7, <2>1, FiniteImage
    <2> QED
      BY <2>2
  <1>9. PICK held : held = [i \in S |-> i.alerts]
    OBVIOUS
  <1>10. PICK f : f = [i \in S |-> Cardinality(held[i])]
    OBVIOUS
  <1>11. ASSUME NEW i \in S PROVE held[i] \in C /\ i = SeIncident(h, held[i])
    BY <1>7, <1>9
  <1>12. Disjoint(S, held)
    <2>1. \A i \in S : IsFiniteSet(held[i])
      BY <1>6, <1>11
    <2>2. \A i, j \in S : i # j => held[i] \cap held[j] = {}
      BY <1>4, <1>11
    <2> QED
      BY <1>8, <2>1, <2>2 DEF Disjoint
  <1>13. A = UNION {held[i] : i \in S}
    <2>1. \A c \in C : \E i \in S : held[i] = c
      BY <1>7, <1>9
    <2>2. {held[i] : i \in S} = C
      BY <1>11, <2>1
    <2> QED
      BY <1>4, <2>2
  <1>14. Total(f) = Cardinality(A)
    BY <1>10, <1>12, <1>13, DisjointTotal
  <1>15. f \in [S -> Int] /\ \A i \in S : f[i] = Cardinality(i.alerts)
    <2>1. \A i \in S : Cardinality(held[i]) \in Int
      BY <1>6, <1>11, FS_CardinalityType
    <2> QED
      BY <1>9, <1>10, <2>1
  <1>16. MapThenSumSet(LAMBDA i : Cardinality(i.alerts), S) = Total(f)
    BY <1>8, <1>15, AlertSum
  <1> QED
    BY <1>1, <1>2, <1>14, <1>16

(* The incidents divide the alerts of a host at its pauses.                    *)
LEMMA SeDivide ==
    ASSUME SeTyped, seStep = 18, NEW h \in SeSources, NEW A, A = SeEligible(seAlerts, h)
    PROVE  /\ \A a \in A : Cardinality(SeHolding(h, a)) = 1
           /\ \A a, b \in A : a.at <= b.at => ((SeHolding(h, a) = SeHolding(h, b)) <=> ~SePaused(A, a, b))
  <1>1. PICK C : C = SeChainsOf(h)
    OBVIOUS
  <1>2. /\ A = UNION C /\ \A c, d \in C : c # d => c \cap d = {}
        /\ \A a, b \in A : a.at <= b.at => ((\E c \in C : a \in c /\ b \in c) <=> ~SePaused(A, a, b))
    BY <1>1, SeChainFacts
  <1>3. \A c \in C : \A a \in c : SeHolding(h, a) = {SeIncident(h, c)}
    BY <1>1, SeHeldOnce
  <1>4. \A c : SeIncident(h, c).alerts = c
    BY SeIncidentFields
  <1>5. ASSUME NEW a \in A PROVE Cardinality(SeHolding(h, a)) = 1
    <2>1. PICK c \in C : a \in c
      BY <1>2
    <2>2. SeHolding(h, a) = {SeIncident(h, c)}
      BY <1>3, <2>1
    <2> QED
      BY <2>2, FS_Singleton
  <1>6. ASSUME NEW a \in A, NEW b \in A
        PROVE  SeHolding(h, a) = SeHolding(h, b) <=> \E c \in C : a \in c /\ b \in c
    <2>1. PICK c \in C : a \in c
      BY <1>2
    <2>2. PICK d \in C : b \in d
      BY <1>2
    <2>3. SeHolding(h, a) = {SeIncident(h, c)} /\ SeHolding(h, b) = {SeIncident(h, d)}
      BY <1>3, <2>1, <2>2
    <2>4. SeHolding(h, a) = SeHolding(h, b) <=> c = d
      BY <1>4, <2>3
    <2>5. c = d <=> \E f \in C : a \in f /\ b \in f
      BY <1>2, <2>1, <2>2
    <2> QED
      BY <2>4, <2>5
  <1> QED
    BY <1>2, <1>5, <1>6

(* What a host's profile counts.                                               *)
LEMMA SeCounted ==
    ASSUME SeTyped, seStep = 18, NEW h \in SeSources
    PROVE  seCounts[h].all - Cardinality({a \in seAlerts : a.src = h /\ a.severity = "info"})
              = Cardinality(SeEligible(seAlerts, h))
  <1>1. PICK A : A = SeEligible(seAlerts, h)
    OBVIOUS
  <1>2. PICK B : B = {a \in seAlerts : a.src = h /\ a.severity = "info"}
    OBVIOUS
  <1>3. PICK M : M = {a \in seAlerts : a.src = h}
    OBVIOUS
  <1>4. IsFiniteSet(seAlerts) /\ h \in SeHosts(seEvidence) \ {SeNone}
    BY DEF SeTyped, SeSources, SeProper
  <1>5. seCounts[h].all = Cardinality(M)
    <2>1. seCounts = [g \in SeHosts(seEvidence) \ {SeNone} |-> SeCount(seAlerts, g)]
      BY DEF SeTyped
    <2>2. seCounts[h] = SeCount(seAlerts, h)
      BY <1>4, <2>1
    <2> QED
      BY <1>3, <2>2 DEF SeCount
  <1>6. A \cup B = M /\ A \cap B = {}
    BY <1>1, <1>2, <1>3 DEF SeEligible
  <1>7. A \subseteq seAlerts /\ B \subseteq seAlerts
    BY <1>1, <1>2 DEF SeEligible
  <1>8. IsFiniteSet(A) /\ IsFiniteSet(B)
    BY <1>4, <1>7, FS_Subset
  <1>9. Cardinality(M) = Cardinality(A) + Cardinality(B) - Cardinality({})
    BY <1>6, <1>8, FS_Union
  <1>10. Cardinality(A) \in Nat /\ Cardinality(B) \in Nat /\ Cardinality({}) = 0
    BY <1>8, FS_CardinalityType, FS_EmptySet
  <1>11. Cardinality(M) - Cardinality(B) = Cardinality(A)
    BY <1>9, <1>10
  <1> QED
    BY <1>1, <1>2, <1>5, <1>11

LEMMA SeTypedIncidents == SeTyped => SeIncidents
  <1> SUFFICES ASSUME SeTyped, seStep = 18, NEW h \in SeSources
               PROVE  LET alerts == SeEligible(seAlerts, h)
                          of(a) == {i \in seIncidents : i.src = h /\ a \in i.alerts}
                          paused(a, b) ==
                              \E c \in alerts :
                                  /\ a.at <= c.at /\ c.at < b.at
                                  /\ \A d \in alerts : d.at > c.at => d.at - c.at > SeWindow
                      IN  /\ \A a \in alerts : Cardinality(of(a)) = 1
                          /\ \A a, b \in alerts :
                                a.at <= b.at => ((of(a) = of(b)) <=> ~paused(a, b))
                          /\ MapThenSumSet(LAMBDA i : Cardinality(i.alerts), {i \in seIncidents : i.src = h})
                                = seCounts[h].all - Cardinality({a \in seAlerts : a.src = h /\ a.severity = "info"})
    BY DEF SeIncidents, SeSources
  <1>1. PICK A : A = SeEligible(seAlerts, h)
    OBVIOUS
  <1>2. \A a \in A : Cardinality(SeHolding(h, a)) = 1
    BY <1>1, SeDivide
  <1>3. \A a, b \in A : a.at <= b.at => ((SeHolding(h, a) = SeHolding(h, b)) <=> ~SePaused(A, a, b))
    BY <1>1, SeDivide
  <1>4. MapThenSumSet(LAMBDA i : Cardinality(i.alerts), SeIncidentsOf(h))
            = seCounts[h].all - Cardinality({a \in seAlerts : a.src = h /\ a.severity = "info"})
    BY SeHeldAll, SeCounted
  <1>5. \A a \in A : Cardinality({i \in seIncidents : i.src = h /\ a \in i.alerts}) = 1
    BY <1>2 DEF SeHolding
  <1>6. \A a, b \in A :
            a.at <= b.at =>
               ((({i \in seIncidents : i.src = h /\ a \in i.alerts} = {i \in seIncidents : i.src = h /\ b \in i.alerts})
                  <=> ~ \E c \in A : /\ a.at <= c.at /\ c.at < b.at
                                     /\ \A d \in A : d.at > c.at => d.at - c.at > SeWindow))
    BY <1>3 DEF SeHolding, SePaused
  <1>7. MapThenSumSet(LAMBDA i : Cardinality(i.alerts), {i \in seIncidents : i.src = h})
            = seCounts[h].all - Cardinality({a \in seAlerts : a.src = h /\ a.severity = "info"})
    BY <1>4 DEF SeIncidentsOf
  <1> QED
    BY <1>1, <1>5, <1>6, <1>7

(* Every variable of the engine holds what its code can put into it: alerts of *)
(* hosts and flows of the capture, with scores on the scale, and incidents     *)
(* that end no earlier than they begin and are worth an incident.              *)
THEOREM DetectionTyped == SeSpec => []SeTypeOK
  <1>1. SeInit => SeTyped
    BY SeTypedBegins
  <1>2. SeTyped /\ [SeNext]_seVars => SeTyped'
    BY SeTypedKept
  <1>3. SeTyped => SeTypeOK
    BY SeTypedOK
  <1> QED
    BY <1>1, <1>2, <1>3, PTL DEF SeSpec

(* Incidents divide the alerts of a host at its pauses and nowhere else, and   *)
(* hold each of them once, however many there are and whatever raised them.    *)
THEOREM Incidents == SeSpec => []SeIncidents
  <1>1. SeInit => SeTyped
    BY SeTypedBegins
  <1>2. SeTyped /\ [SeNext]_seVars => SeTyped'
    BY SeTypedKept
  <1>3. SeTyped => SeIncidents
    BY SeTypedIncidents
  <1> QED
    BY <1>1, <1>2, <1>3, PTL DEF SeSpec

-----------------------------------------------------------------------------
(* The stages side by side.                                                    *)

(* Following one stage at a time runs each stage as its own specification      *)
(* does, so what is proved of the stages holds of the whole.                   *)
THEOREM EvidenceStages == EvidenceSpec => ExSpec /\ SeSpec /\ GsSpec
  <1>1. EvidenceInit => ExInit /\ SeInit /\ GsInit
    BY DEF EvidenceInit
  <1>2. [EvidenceNext]_evidenceVars => [ExNext]_exVars /\ [SeNext]_seVars /\ [GsNext]_gsVars
    BY DEF EvidenceNext, evidenceVars
  <1> QED
    BY <1>1, <1>2, PTL DEF EvidenceSpec, ExSpec, SeSpec, GsSpec

(* Every stage's variables hold what its code can put into them.               *)
THEOREM EvidenceTyped == EvidenceSpec => []EvidenceTypeOK
  BY EvidenceStages, ExtractionTyped, DetectionTyped, SearchTyped, PTL DEF EvidenceTypeOK

(* What is shown of a capture, once every stage has done its part: flows that  *)
(* are conversations, transactions without loss or mix-up, hosts whose counts  *)
(* balance, a timeline and a graph that hang together and leave nothing out,   *)
(* failures reported once, incidents that divide the alerts at their pauses,   *)
(* attack paths that exist and a radius that is that of the graph.             *)
THEOREM EvidencePromises ==
    EvidenceSpec => [](/\ FbConversations /\ TxNoneLost /\ TxOwnConnection /\ HpConserved
                       /\ TlShowsAll /\ SeFailuresCounted /\ SeIncidents /\ GsPathsSound /\ GsReach)
  BY EvidenceStages, Conversations, NoneLost, OwnConnection, Conserved,
     ShowsAll, FailuresCounted, Incidents, PathsSound, Reach, PTL
=============================================================================
