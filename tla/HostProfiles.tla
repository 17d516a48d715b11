----------------------------- MODULE HostProfiles ---------------------------
(* Host profiles: services/host_profiler.py.  Packets are observed at both     *)
(* ends, flows are recorded at their source as a contact and at their          *)
(* destination as a service; the DNS answers and TLS names give host names.    *)
EXTENDS Transactions

(* ROLE_SIGNALS in order, and the keys of PORT_SERVICES that matter to them.   *)
HpRoles == <<"DNS server", "Web server", "Mail server", "Database server",
             "File server", "Remote access server", "SSH server">>
HpSignals(role) ==
    CASE role = "DNS server"           -> {53}
      [] role = "Web server"           -> {80, 443, 8080, 8443}
      [] role = "Mail server"          -> {25, 110, 143, 465, 587, 993, 995}
      [] role = "Database server"      -> {1433, 1521, 3306, 5432, 6379}
      [] role = "File server"          -> {445, 139}
      [] role = "Remote access server" -> {3389, 5900}
      [] role = "SSH server"           -> {22}
HpKnownPorts == ((UNION {HpSignals(r) : r \in ToSet(HpRoles)}) \ {139})
                    \cup {23, 123, 389, 4444, 25565}

HpBlank == [sent |-> 0, received |-> 0, bytesSent |-> 0, bytesReceived |-> 0,
            seen |-> {}, served |-> [k \in {} |-> 0], contacts |-> [k \in {} |-> 0], names |-> {}]

(* acc(ip): a host is made when it is first needed.                            *)
HpAt(hosts, h) == IF h \in DOMAIN hosts THEN hosts[h] ELSE HpBlank
HpSet(hosts, h, profile) == [x \in DOMAIN hosts \cup {h} |-> IF x = h THEN profile ELSE hosts[x]]
(* Fault: a second flow under the same key replaces the first.                 *)
HpCountLast(counter, k, n) ==
    [x \in DOMAIN counter \cup {k} |-> IF x = k THEN n ELSE counter[x]]

(* counter[k] += n, from zero.                                                 *)
HpCount(counter, k, n) ==
    [x \in DOMAIN counter \cup {k} |->
        (IF x \in DOMAIN counter THEN counter[x] ELSE 0) + (IF x = k THEN n ELSE 0)]

(* observe, at the sender and then at the receiver, whatever the transport.    *)
HpObserve(hosts, p) ==
    LET s == HpAt(hosts, p.src[1])
        out == HpSet(hosts, p.src[1],
                     [s EXCEPT !.sent = @ + 1, !.bytesSent = @ + p.len, !.seen = @ \cup {p.at}])
        r == HpAt(out, p.dst[1])
    IN  HpSet(out, p.dst[1],
              [r EXCEPT !.received = @ + 1, !.bytesReceived = @ + p.len, !.seen = @ \cup {p.at}])

(* record_flow at both ends: peers contacted, and ports others connected to.   *)
HpRecordFlow(hosts, f) ==
    LET s == HpAt(hosts, f.src[1])
        out == HpSet(hosts, f.src[1],
                     [s EXCEPT !.contacts = HpCount(@, <<f.dst, f.app>>, f.packets)])
        d == HpAt(out, f.dst[1])
    IN  HpSet(out, f.dst[1],
              [d EXCEPT !.served = HpCount(@, <<f.src[1], f.dst[2]>>, f.packets)])

(* Names: of the addresses a DNS answer gives, and of the client of a hello.   *)
HpNames(hosts, packets, txns) ==
    [h \in DOMAIN hosts |->
        [hosts[h] EXCEPT !.names =
            ({t.name : t \in {u \in txns : h \in u.answers}}
             \cup {packets[i].hint.name : i \in {j \in DOMAIN packets :
                        packets[j].hint.kind = "hello" /\ packets[j].src[1] = h}}) \ {NoName}]]

HpServices(profile) == {k[2] : k \in DOMAIN profile.served}

(* role: most exposed signal ports; the first role of a tie; none without one. *)
HpRole(profile) ==
    LET exposed == HpServices(profile) \cap HpKnownPorts
        score(r) == Cardinality(exposed \cap HpSignals(r))
        best == SelectInSeq(HpRoles, LAMBDA r :
                    score(r) > 0 /\ \A q \in ToSet(HpRoles) : score(q) <= score(r))
    IN  IF best = 0 THEN "none" ELSE HpRoles[best]

(* build_profiles: packets, then flows, then names.                            *)
HpBuild(packets, flows, txns) ==
    LET observed == FoldLeft(HpObserve, [h \in {} |-> HpBlank], packets)
        recorded == FoldLeft(HpRecordFlow, observed, SetToSeq(flows))
        named == HpNames(recorded, packets, txns)
    IN  [h \in DOMAIN named |->
            [profile |-> named[h], role |-> HpRole(named[h]), internal |-> h \in FbInternal]]
=============================================================================
