------------------------------ MODULE Detection -----------------------------
(* The suspicion engine: services/suspicion_engine.py.  It reads what the      *)
(* extraction made of a capture, applies its rules one after the other, dates  *)
(* and counts the alerts and chains them to incidents.                         *)
EXTENDS Flows

CONSTANT
    SeCaptures   \* sets of bursts; a capture consists of bursts of one set

(* A burst, and the evidence it becomes part of: flows is a set, dns and http   *)
(* are sequences of transactions, arp is a set of claims.  In a flow, n tells  *)
(* equal flows apart, times are seconds.  Hosts, names, subdomains and agents  *)
(* are numbers, SeNone a missing one.  A name is what the rules measure of it, *)
(* entropy in hundredths of a bit; an agent is the number of the first pattern *)
(* it matches.                                                                 *)
SeNone == 0
SeFlow == [n : Int, src : Nat, dst : Nat, port : Nat, transport : {"TCP", "UDP"}, failed : BOOLEAN,
           first : Int, last : Int, packets : Nat, bytes : Nat]
SeName == [id : Nat, size : Nat, label : Nat, sub : Nat, sldSize : Nat, entropy : Nat,
           readable : BOOLEAN]
SeTransaction == [at : Int, client : Nat, server : Nat, name : SeName, nx : BOOLEAN, answers : SUBSET Nat]
SeClaim == [ip : Nat, mac : STRING, own : BOOLEAN]
SeRequest == [agent : Nat, client : Nat, server : Nat]
SeNothing == [flows |-> {}, dns |-> <<>>, arp |-> {}, http |-> <<>>]

(* A burst has finitely many flows and claims, no flow ends before it began,   *)
(* and only connections of TCP fail.                                           *)
ASSUME SeAssumption ==
    \A C \in SeCaptures : \A b \in C :
        /\ b.flows \subseteq SeFlow /\ IsFiniteSet(b.flows)
        /\ b.arp \subseteq SeClaim /\ IsFiniteSet(b.arp)
        /\ b.dns \in Seq(SeTransaction) /\ b.http \in Seq(SeRequest)
        /\ \A f \in b.flows : f.first <= f.last /\ (f.failed => f.transport = "TCP")

VARIABLES
    seCapture,    \* the bursts this capture consists of
    seEvidence,   \* the arguments of SuspicionEngine.run
    seStep,       \* 0 while they grow, then the next rule, 15 to 18 what follows
    seAlerts,     \* the alerts
    seCounts,     \* alert counts in the host profiles
    seIncidents   \* capture.summary["incidents"]
seVars == <<seCapture, seEvidence, seStep, seAlerts, seCounts, seIncidents>>

SeSuspiciousPorts == {4444, 1337, 31337, 6667, 6660, 5555, 8888, 9999, 1234}
SeLateralPorts == {22, 445, 3389, 5985, 5986, 5900}
SeWindow == 600

-----------------------------------------------------------------------------
(* Fault: a score may pass the end of the scale.                               *)
SeClampBelow(score) == Max({0, score})

SeClamp(score) == Max({0, Min({100, score})})
SeAtMost(a, b) == Min({a, b})
SeIf(b, n) == IF b THEN n ELSE 0

SeSeverity(score) ==
    CASE score >= 80                 -> "critical"
      [] score >= 60 /\ score < 80   -> "high"
      [] score >= 40 /\ score < 60   -> "medium"
      [] score >= 20 /\ score < 40   -> "low"
      [] OTHER                       -> "info"

(* RuleResult: the related flows are kept whole, where the code keeps the first *)
(* 20 or 50 in time order; at is set by run, what tells the rule's alerts apart.*)
SeAlert(rule, src, dst, what, score, flows) ==
    [rule |-> rule, src |-> src, dst |-> dst, what |-> what, score |-> SeClamp(score),
     severity |-> SeSeverity(SeClamp(score)), flows |-> flows, at |-> 0]

SeGroups(S, Key(_)) == {{f \in S : Key(f) = k} : k \in {Key(f) : f \in S}}
SeOne(G) == CHOOSE f \in G : \A g \in G : f.first < g.first \/ (f.first = g.first /\ f.n <= g.n)
SePair(f) == <<f.src, f.dst>>
SeTarget(f) == <<f.src, f.dst, f.port>>
SePorts(G) == {f.port : f \in G}
SeBytes(G) == MapThenSumSet(LAMBDA f : f.bytes, G)
SeOutbound(F) == {f \in F : f.src \in FbInternal /\ f.dst \notin FbInternal}
SeResolved(e) == UNION {t.answers : t \in ToSet(e.dns)}
SeNth(S, Value(_), i) ==
    CHOOSE v \in {Value(x) : x \in S} : /\ Cardinality({x \in S : Value(x) < v}) < i
                                        /\ Cardinality({x \in S : Value(x) <= v}) >= i
SeFirst(alerts) == CHOOSE a \in alerts : \A b \in alerts : a.at <= b.at
SeByDate(alerts) ==
    FoldLeft(LAMBDA s, i : Append(s, SeFirst(alerts \ ToSet(s))), <<>>, [i \in 1 .. Cardinality(alerts) |-> i])

(* The intervals between the starts of a group's flows, each at the earlier    *)
(* flow, and whether their standard deviation is at most a number of tenths of *)
(* their mean.                                                                 *)
SeLater(G, f) == {g \in G : g.first > f.first \/ (g.first = f.first /\ g.n > f.n)}
SeIntervals(G) ==
    [f \in {g \in G : SeLater(G, g) # {}} |-> Min({g.first : g \in SeLater(G, f)}) - f.first]
SeTotal(s) == FoldFunction(+, 0, s)
SeRegular(s, tenths) ==
    LET n == Cardinality(DOMAIN s)
        squares == SeTotal([f \in DOMAIN s |-> s[f] * s[f]])
        mean == SeTotal(s)   \* n times the mean
    IN  mean > 0 /\ (squares * n - mean * mean) * 100 <= mean * mean * tenths * tenths

-----------------------------------------------------------------------------
(* The rules.                                                                  *)
SePortScan(e) ==
    LET scans == {G \in SeGroups({f \in e.flows : f.transport = "TCP" /\ f.failed}, SePair) :
                      Cardinality(SePorts(G)) >= 10}
        alert(G) ==
            LET n == Cardinality(SePorts(G))
                lasted == Max({f.last : f \in G}) - Min({f.first : f \in G})
                rate == IF lasted = 0 THEN 250 ELSE SeAtMost((5 * n) \div lasted, 250)
            IN  SeAlert("port_scan", SeOne(G).src, SeOne(G).dst, SeNone,
                        (350 + 4 * SeAtMost(n, 100) + rate) \div 10, G)
    IN  {alert(G) : G \in scans}

SeTcpGroups(e) == SeGroups({f \in e.flows : f.transport = "TCP"}, SeTarget)

SeBeaconing(e) ==
    {SeAlert("beaconing", SeOne(G).src, SeOne(G).dst, SeOne(G).port,
             70 + SeAtMost(Cardinality(G), 40) \div 2 + SeIf(SeOne(G).port \in SeSuspiciousPorts, 10), G)
        : G \in {H \in SeTcpGroups(e) : Cardinality(H) >= 5 /\ SeRegular(SeIntervals(H), 1)}}

SeClients(e) == {t.client : t \in ToSet(e.dns)}
SeAsked(e, c) == {i \in DOMAIN e.dns : e.dns[i].client = c}
SeNamed(e, I) == {i \in I : e.dns[i].name.id # SeNone}
SeNx(e, I) == Cardinality({i \in I : e.dns[i].nx})

SeDnsTunneling(e) ==
    LET score(c) ==
            LET I == SeNamed(e, SeAsked(e, c))
                subs == {e.dns[i].name.sub : i \in I} \ {SeNone}
            IN  SeIf(\E i \in I : e.dns[i].name.label >= 30, 35)
                + SeIf(Cardinality(subs) >= 10, 30) + SeIf(SeNx(e, I) >= 10, 15)
        sample(c) ==
            CHOOSE i \in SeNamed(e, SeAsked(e, c)) : \A j \in SeNamed(e, SeAsked(e, c)) :
                \/ e.dns[j].name.size < e.dns[i].name.size
                \/ e.dns[j].name.size = e.dns[i].name.size /\ i <= j
    IN  {SeAlert("dns_tunneling", c, e.dns[sample(c)].server, SeNone, score(c), {})
            : c \in {d \in SeClients(e) : score(d) > 0}}

SeNxdomainBurst(e) ==
    LET nx(c) == SeNx(e, SeAsked(e, c))
        total(c) == Cardinality(SeAsked(e, c))
    IN  {SeAlert("nxdomain_burst", c, SeNone, SeNone,
                 (3 * nx(c) * total(c) + 40 * nx(c)) \div (2 * total(c)), {})
            : c \in {d \in SeClients(e) \ {SeNone} : nx(d) >= 10}}

SeSuspiciousPort(e) ==
    LET alert(f) == SeAlert("suspicious_port", f.src, f.dst, f.port,
                            45 + SeIf(f \in SeOutbound({f}), 15) + SeAtMost(f.packets, 20), {f})
    IN  {alert(SeOne(G)) : G \in SeGroups({f \in e.flows : f.port \in SeSuspiciousPorts}, SeTarget)}

(* Fault: the port limit also lets a scan pass.                                *)
SeExcessiveFailuresToo(e) ==
    {SeAlert("excessive_connection_failures", SeOne(G).src, SeOne(G).dst, SeNone,
             30 + 5 * Cardinality(G), G)
        : G \in {H \in SeGroups({f \in e.flows : f.failed}, SePair) :
                    Cardinality(SePorts(H)) <= 10 /\ Cardinality(H) >= 5}}

SeExcessiveFailures(e) ==
    {SeAlert("excessive_connection_failures", SeOne(G).src, SeOne(G).dst, SeNone,
             30 + 5 * Cardinality(G), G)
        : G \in {H \in SeGroups({f \in e.flows : f.failed}, SePair) :
                    Cardinality(SePorts(H)) < 10 /\ Cardinality(H) >= 5}}

(* A destination counts as resolved if any answer of the capture names it.     *)
SeConnectionWithoutDns(e) ==
    LET direct == {f \in SeOutbound(e.flows) :
                      f.transport = "TCP" /\ f.dst \notin SeResolved(e) /\ f.port # 80}
    IN  {SeAlert("connection_without_dns", SeOne(G).src, SeOne(G).dst, SeOne(G).port,
                 50 + SeAtMost(Cardinality(G), 20) + SeIf(SeBytes(G) > 10000, 10), G)
            : G \in SeGroups(direct, SeTarget)}

SeHighOutboundVolume(e) ==
    LET out == SeOutbound(e.flows)
        sent(h) == SeBytes({f \in out : f.src = h})
    IN  {SeAlert("high_outbound_volume", h, SeNone, SeNone, 55, {})
            : h \in {g \in {f.src : f \in out} :
                        /\ SeBytes(out) >= 50000
                        /\ 10 * sent(g) >= 7 * SeBytes(out) /\ sent(g) >= 20000}}

SeArpSpoofing(e) ==
    LET macs(ip) == {c.mac : c \in {d \in e.arp : d.ip = ip}}
    IN  {SeAlert("arp_spoofing", ip, SeNone, SeNone, 70 + SeIf(\E c \in e.arp : c.own, 10), {})
            : ip \in {c.ip : c \in {d \in e.arp : Cardinality(macs(d.ip)) >= 2}}}

SeLateralMovement(e) ==
    LET inside == {f \in e.flows : f.port \in SeLateralPorts /\ {f.src, f.dst} \subseteq FbInternal}
        targets(G) == {f.dst : f \in G}
        answered(G) == targets({f \in G : ~f.failed})
    IN  {SeAlert("lateral_movement", SeOne(G).src, SeNone, SeNone,
                 40 + 4 * SeAtMost(Cardinality(targets(G)), 10) + SeIf(Cardinality(answered(G)) >= 2, 15), G)
            : G \in {H \in SeGroups(inside, LAMBDA f : f.src) : Cardinality(targets(H)) >= 3}}

(* The baseline is the median entropy of the readable names of the capture.    *)
SeDgaDomains(e) ==
    LET all == SeNamed(e, DOMAIN e.dns)
        pool == {i \in all : e.dns[i].name.readable}
        entropy(i) == e.dns[i].name.entropy
        baseline == SeNth(pool, entropy, Cardinality(pool) \div 2 + 1)
        high(c) == {i \in all \ pool : /\ e.dns[i].client = c /\ e.dns[i].name.sldSize >= 8
                                        /\ entropy(i) > Max({320, baseline + 60})}
        alert(c) == SeAlert("dga_domain", c, SeNone, SeNone,
                            45 + 2 * SeAtMost(Cardinality(high(c)), 20)
                            + SeIf(SeNx(e, SeNamed(e, SeAsked(e, c))) >= 5, 10), {})
    IN  IF Cardinality(all) < 10 \/ Cardinality(pool) < 5 THEN {}
        ELSE {alert(c) : c \in {d \in SeClients(e) : Cardinality(high(d)) >= 5}}

SeDataExfiltration(e) ==
    LET groups == SeGroups(SeOutbound(e.flows), SePair)
        baseline == SeNth(groups, SeBytes, Cardinality(groups) \div 2 + 1)
        score(G) == SeIf(baseline > 0 /\ SeBytes(G) > 20 * baseline, 35)
                    + SeIf(SeOne(G).dst \notin SeResolved(e), 25)
                    + SeIf(\A f \in G : f.last - f.first < 30, 15)
    IN  {SeAlert("data_exfiltration", SeOne(G).src, SeOne(G).dst, SeNone, score(G) + 20, G)
            : G \in {H \in groups : SeBytes(H) >= 100000 /\ score(H) > 0}}

SeLowSlowBeaconing(e) ==
    {SeAlert("low_slow_beaconing", SeOne(G).src, SeOne(G).dst, SeOne(G).port,
             55 + 2 * SeAtMost(Cardinality(G), 10), G)
        : G \in {H \in SeTcpGroups(e) :
                    LET gaps == SeIntervals(H)
                    IN  /\ Cardinality(H) >= 3
                        /\ SeTotal(gaps) >= 60 * (Cardinality(H) - 1) /\ SeRegular(gaps, 2)}}

(* One alert per label, about the first client that showed it.                 *)
SeSuspiciousUserAgent(e) ==
    LET with(l) == {i \in DOMAIN e.http : e.http[i].agent = l}
        one(l) == e.http[Min(with(l))]
    IN  {SeAlert("suspicious_user_agent", one(l).client, one(l).server, l,
                 40 + SeAtMost(Cardinality(with(l)), 20), {})
            : l \in {t.agent : t \in ToSet(e.http)} \ {SeNone}}

SeRule(n, e) ==
    CASE n = 1 -> SePortScan(e)             [] n = 2 -> SeBeaconing(e)
      [] n = 3 -> SeDnsTunneling(e)         [] n = 4 -> SeNxdomainBurst(e)
      [] n = 5 -> SeSuspiciousPort(e)       [] n = 6 -> SeExcessiveFailures(e)
      [] n = 7 -> SeConnectionWithoutDns(e) [] n = 8 -> SeHighOutboundVolume(e)
      [] n = 9 -> SeArpSpoofing(e)          [] n = 10 -> SeLateralMovement(e)
      [] n = 11 -> SeDgaDomains(e)          [] n = 12 -> SeDataExfiltration(e)
      [] n = 13 -> SeLowSlowBeaconing(e)    [] n = 14 -> SeSuspiciousUserAgent(e)

-----------------------------------------------------------------------------
(* The date run gives an alert: that of its first flow, else that of the first *)
(* DNS transaction of the capture, else none, which counts as 0.               *)
SeDated(a, e) ==
    [a EXCEPT !.at = IF a.flows # {} THEN SeOne(a.flows).first
                     ELSE IF e.dns # <<>> THEN e.dns[1].at ELSE 0]

(* augment_hosts                                                               *)
SeCount(alerts, host) ==
    LET mine == {a \in alerts : a.src = host}
    IN  [all |-> Cardinality(mine),
         high |-> Cardinality({a \in mine : a.severity \in {"high", "critical"}})]

SeHosts(e) ==
    (UNION {{f.src, f.dst} : f \in e.flows}) \cup {c.ip : c \in e.arp}
    \cup UNION {{t.client, t.server} : t \in ToSet(e.dns) \cup ToSet(e.http)}

SeEligible(alerts, src) == {a \in alerts : a.src = src /\ a.severity # "info"}

(* Fault: the window is measured from the first alert of the chain.            *)
SeChainFirst(alerts) ==
    FoldLeft(LAMBDA chains, a :
                IF chains # <<>> /\ a.at - Min({b.at : b \in Last(chains)}) <= SeWindow
                THEN Front(chains) \o <<Last(chains) \cup {a}>>
                ELSE Append(chains, {a}),
             <<>>, SeByDate(alerts))

(* The chains correlate_alerts makes of one source's alerts, in time order: an *)
(* alert joins the chain unless more than the window after the one before.     *)
SeChain(alerts) ==
    FoldLeft(LAMBDA chains, a :
                IF chains # <<>> /\ a.at - Max({b.at : b \in Last(chains)}) <= SeWindow
                THEN Front(chains) \o <<Last(chains) \cup {a}>>
                ELSE Append(chains, {a}),
             <<>>, SeByDate(alerts))

(* _build_incident                                                             *)
SeIncident(src, chain) ==
    LET worst == Max({a.score : a \in chain})
    IN  [src |-> src, alerts |-> chain, score |-> worst, severity |-> SeSeverity(worst),
         first |-> Min({a.at : a \in chain}), last |-> Max({a.at : a \in chain})]

(* Alerts about no host are in no incident.                                    *)
SeCorrelate(alerts) ==
    UNION {{SeIncident(h, c) : c \in ToSet(SeChain(SeEligible(alerts, h)))}
              : h \in {a.src : a \in alerts} \ {SeNone}}

-----------------------------------------------------------------------------
SeInit ==
    /\ seCapture \in SeCaptures
    /\ seEvidence = SeNothing
    /\ seStep = 0 /\ seAlerts = {}
    /\ seCounts = [h \in {} |-> {}] /\ seIncidents = {}

SeObserve(b) ==
    /\ seStep = 0
    /\ ~(b.flows \subseteq seEvidence.flows /\ b.arp \subseteq seEvidence.arp
         /\ ToSet(b.dns) \subseteq ToSet(seEvidence.dns) /\ ToSet(b.http) \subseteq ToSet(seEvidence.http))
    /\ seEvidence' = [flows |-> seEvidence.flows \cup b.flows, dns |-> seEvidence.dns \o b.dns,
                      arp |-> seEvidence.arp \cup b.arp, http |-> seEvidence.http \o b.http]
    /\ UNCHANGED <<seCapture, seStep, seAlerts, seCounts, seIncidents>>

SeRun ==
    /\ seStep = 0 /\ seStep' = 1
    /\ UNCHANGED <<seCapture, seEvidence, seAlerts, seCounts, seIncidents>>

SeApplyRule ==
    /\ seStep \in 1 .. 14 /\ seStep' = seStep + 1
    /\ seAlerts' = seAlerts \cup SeRule(seStep, seEvidence)
    /\ UNCHANGED <<seCapture, seEvidence, seCounts, seIncidents>>

SeDate ==
    /\ seStep = 15 /\ seStep' = 16
    /\ seAlerts' = {SeDated(a, seEvidence) : a \in seAlerts}
    /\ UNCHANGED <<seCapture, seEvidence, seCounts, seIncidents>>

SeAugment ==
    /\ seStep = 16 /\ seStep' = 17
    /\ seCounts' = [h \in SeHosts(seEvidence) \ {SeNone} |-> SeCount(seAlerts, h)]
    /\ UNCHANGED <<seCapture, seEvidence, seAlerts, seIncidents>>

SePersist ==
    /\ seStep = 17 /\ seStep' = 18
    /\ seIncidents' = SeCorrelate(seAlerts)
    /\ UNCHANGED <<seCapture, seEvidence, seAlerts, seCounts>>

SeNext == (\E b \in seCapture : SeObserve(b)) \/ SeRun \/ SeApplyRule \/ SeDate \/ SeAugment \/ SePersist
SeSpec == SeInit /\ [][SeNext]_seVars

-----------------------------------------------------------------------------
SeTypeOK ==
    /\ seStep \in 0 .. 18
    /\ \A a \in seAlerts :
          /\ a.src \in SeHosts(seEvidence) /\ a.score \in 0 .. 100
          /\ a.severity \in {"critical", "high", "medium", "low", "info"}
          /\ a.flows \subseteq seEvidence.flows
    /\ seStep = 18 => \A i \in seIncidents : i.first <= i.last /\ i.severity # "info"

(* Two rules share the failed connections between them, one for many ports and *)
(* one for few: five failures between two hosts are always reported, and by    *)
(* one of the rules only.                                                      *)
SeFailuresCounted ==
    seStep > 6 =>
        \A p \in {SePair(f) : f \in seEvidence.flows} :
            LET failed == {f \in seEvidence.flows : f.failed /\ SePair(f) = p}
                about == {a \in seAlerts : /\ <<a.src, a.dst>> = p
                              /\ a.rule \in {"port_scan", "excessive_connection_failures"}}
            IN  /\ Cardinality(about) = IF Cardinality(failed) >= 5 THEN 1 ELSE 0
                /\ \A a \in about : a.flows = failed

(* Incidents divide the alerts about a host at its quiet times and nowhere     *)
(* else: every alert above "info" is in one incident, two are in the same one  *)
(* exactly if no pause longer than the window lies between them, and the       *)
(* incidents hold no more alerts than the host's profile counts.               *)
SeIncidents ==
    seStep = 18 =>
        \A h \in {a.src : a \in seAlerts} \ {SeNone} :
            LET alerts == SeEligible(seAlerts, h)
                of(a) == {i \in seIncidents : i.src = h /\ a \in i.alerts}
                paused(a, b) ==
                    \E c \in alerts :
                        /\ a.at <= c.at /\ c.at < b.at
                        /\ \A d \in alerts : d.at > c.at => d.at - c.at > SeWindow
            IN  /\ \A a \in alerts : Cardinality(of(a)) = 1
                /\ \A a, b \in alerts :
                      a.at <= b.at => ((of(a) = of(b)) <=> ~paused(a, b))
                /\ MapThenSumSet(LAMBDA i : Cardinality(i.alerts), {i \in seIncidents : i.src = h})
                      = seCounts[h].all - Cardinality({a \in seAlerts : a.src = h /\ a.severity = "info"})
=============================================================================
