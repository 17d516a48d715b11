------------------------------- MODULE Timeline -----------------------------
(* What is shown of a capture: services/timeline_graph.py.  The timeline is a  *)
(* list of events made of the flows, transactions and sessions; the network    *)
(* graph consists of hosts, names and services and of the relations between    *)
(* them.  Both are computed from the stored evidence, not from packets.        *)
EXTENDS HostProfiles

(* build_timeline, without its order and without the events that repeat an     *)
(* alert.  A flow that failed has that event only.                             *)
TlFlowKind(f) ==
    CASE f.failed                                            -> "flow_failed"
      [] ~f.failed /\ f.transport = "UDP"                    -> "udp_session"
      [] ~f.failed /\ f.transport = "TCP" /\ f.state = "reset" -> "tcp_reset"
      [] OTHER                                               -> "tcp_connect"

TlEvents(flows, dns, http, tls) ==
    {[kind |-> "dns_query", of |-> t.ref, at |-> t.at] : t \in dns}
    \cup {[kind |-> "dns_response", of |-> t.ref, at |-> t.at + t.latency] : t \in {u \in dns : u.reply # 0}}
    \cup {[kind |-> TlFlowKind(f), of |-> f.refs[1], at |-> f.first] : f \in flows}
    \cup {[kind |-> "tcp_reset", of |-> f.refs[1], at |-> f.last]
             : f \in {g \in flows : ~g.failed /\ g.resets > 0 /\ g.state # "reset"}}
    \cup {[kind |-> "http_request", of |-> t.ref, at |-> t.at] : t \in http}
    \cup {[kind |-> "tls_handshake", of |-> s.ref, at |-> s.first] : s \in tls}

-----------------------------------------------------------------------------
(* build_graph                                                                 *)
TlHost(h) == <<"host", h>>
TlDomain(name) == <<"domain", name>>
TlService(h, port) == <<"service", h, port>>

TlFlowEdges(flows) ==
    LET key(f) == <<f.src[1], f.dst[1], f.app>>
        edge(F) ==
            LET f == CHOOSE g \in F : TRUE
            IN  [from |-> TlHost(f.src[1]), to |-> TlHost(f.dst[1]), type |-> f.app,
                 count |-> Cardinality(F), packets |-> MapThenSumSet(LAMBDA g : g.packets, F)]
    IN  {edge({g \in flows : key(g) = k}) : k \in {key(f) : f \in flows}}

(* add_edge: count is the number of evidence items that repeat the relation.   *)
TlEdge(from, to, type, items) ==
    [from |-> from, to |-> to, type |-> type, count |-> Cardinality(items), packets |-> 0]

TlAsked(dns) == {t \in dns : t.name # NoName}
TlNamed(tls) == {s \in tls : s.name # NoName}
TlResolutions(dns, tls) ==
    {[name |-> x[1].name, host |-> x[2], of |-> x[1].ref] : x \in
        {x \in TlAsked(dns) \X UNION {u.answers : u \in dns} : x[2] \in x[1].answers}}
    \cup {[name |-> s.name, host |-> s.server[1], of |-> s.ref] : s \in TlNamed(tls)}

TlEdges(flows, dns, tls, hosts) ==
    LET asks == {[from |-> t.client, name |-> t.name] : t \in TlAsked(dns)}
        visits == {[from |-> s.client, name |-> s.name] : s \in TlNamed(tls)}
        resolved == TlResolutions(dns, tls)
    IN  TlFlowEdges(flows)
        \cup {TlEdge(TlHost(a.from), TlDomain(a.name), "DNS",
                     {t \in dns : t.client = a.from /\ t.name = a.name}) : a \in asks}
        \cup {TlEdge(TlDomain(r.name), TlHost(r.host), "RESOLVES_TO",
                     {q \in resolved : q.name = r.name /\ q.host = r.host}) : r \in resolved}
        \cup {TlEdge(TlHost(v.from), TlDomain(v.name), "TLS",
                     {s \in tls : s.client = v.from /\ s.name = v.name}) : v \in visits}
        \cup UNION {{TlEdge(TlHost(h), TlService(h, port), "EXPOSES", {h})
                        : port \in HpServices(hosts[h].profile)} : h \in DOMAIN hosts}

(* Fault: a name becomes a node with its first address.                        *)
TlNodesOfResolved(flows, dns, tls, hosts) ==
    {TlHost(h) : h \in DOMAIN hosts}
    \cup (UNION {{TlHost(f.src[1]), TlHost(f.dst[1])} : f \in flows})
    \cup (UNION {{TlDomain(t.name)} \cup {TlHost(h) : h \in t.answers} :
                    t \in {u \in TlAsked(dns) : u.answers # {}}})
    \cup {TlDomain(s.name) : s \in TlNamed(tls)}
    \cup UNION {{TlService(h, port) : port \in HpServices(hosts[h].profile)} : h \in DOMAIN hosts}

(* The nodes; a session adds its name only, its hosts must be there.           *)
TlNodes(flows, dns, tls, hosts) ==
    {TlHost(h) : h \in DOMAIN hosts}
    \cup (UNION {{TlHost(f.src[1]), TlHost(f.dst[1])} : f \in flows})
    \cup (UNION {{TlHost(t.client), TlDomain(t.name), TlHost(t.server)} \cup {TlHost(h) : h \in t.answers}
                    : t \in TlAsked(dns)})
    \cup {TlDomain(s.name) : s \in TlNamed(tls)}
    \cup UNION {{TlService(h, port) : port \in HpServices(hosts[h].profile)} : h \in DOMAIN hosts}
=============================================================================
