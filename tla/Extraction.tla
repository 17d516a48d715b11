----------------------------- MODULE Extraction -----------------------------
(* What an analysis extracts from the packets of a capture, packet by packet:  *)
(* run_full_analysis hands one list of packets, in capture order, to the flow  *)
(* builder, the protocol extractors and the host profiler.                     *)
EXTENDS Timeline

CONSTANTS
    ExTraffic,    \* sets of packets a capture may consist of
    ExMaxPackets  \* bound: packets per capture

(* A packet as the parsers hand it on; addresses are ordered, so hosts are     *)
(* numbers.                                                                    *)
ExHint == [kind : {"none", "query", "answer", "request", "status", "hello"}, id : Int,
           name : STRING, code : Int, answers : {A \in SUBSET Int : IsFiniteSet(A)}]
ExPacket == [at : Int, src : Int \X Int, dst : Int \X Int, transport : STRING, len : Nat,
             flags : SUBSET STRING, seq : Int, proto : STRING, hint : ExHint]

ASSUME ExAssumption == ExMaxPackets \in Nat /\ \A T \in ExTraffic : T \subseteq ExPacket

VARIABLES
    exTraffic,  \* the set of packets this capture is made of
    exPackets,  \* parsed.packets, as far as it was read; packets may repeat
    exFlows,    \* FlowBuilder._flows
    exDns,      \* extract_dns: pending and results
    exHttp      \* extract_http: open requests and results
exVars == <<exTraffic, exPackets, exFlows, exDns, exHttp>>

ExInit ==
    /\ exTraffic \in ExTraffic
    /\ exPackets = <<>>
    /\ exFlows = [k \in {} |-> {}]
    /\ exDns = TxEmpty /\ exHttp = TxEmpty

ExRead(p) ==
    LET ref == Len(exPackets) + 1
    IN  /\ Len(exPackets) < ExMaxPackets
        /\ exPackets' = Append(exPackets, p)
        /\ exFlows' = FbAddPacket(exFlows, p, ref)
        /\ exDns' = TxDns(exDns, p, ref)
        /\ exHttp' = TxHttp(exHttp, p, ref)
        /\ UNCHANGED exTraffic

ExNext == \E p \in exTraffic : ExRead(p)
ExSpec == ExInit /\ [][ExNext]_exVars

ExHosts == HpBuild(exPackets, FbBuild(exFlows), TxResults(exDns))
ExTls == TxTls(exPackets, FbBuild(exFlows))

-----------------------------------------------------------------------------
ExRefs(Test(_)) == {i \in DOMAIN exPackets : Test(exPackets[i])}
ExSum(f) == FoldFunction(+, 0, f)

ExTypeOK ==
    /\ exPackets \in Seq(exTraffic)
    /\ \A f \in FbBuild(exFlows) :
          /\ f.state \in {"none", "reset", "closed", "established", "half_open"}
          /\ f.direction \in {"outbound", "inbound", "internal", "unknown"}
          /\ {f.retrans, f.resets, f.packets} \subseteq 0 .. Len(exPackets)
    /\ \A s \in {exDns, exHttp} : \A t \in TxResults(s) : {t.request, t.reply} \subseteq 0 .. Len(exPackets)
    /\ \A h \in DOMAIN ExHosts : ExHosts[h].role \in ToSet(HpRoles) \cup {"none"}

(* A flow is a conversation: it holds exactly the packets between its two      *)
(* endpoints over its transport, in whichever direction and order they came,   *)
(* split between the directions; its first and last times bound theirs, also   *)
(* when they are out of order; it failed exactly if a connection was attempted *)
(* in it and none was accepted, whatever was reset or closed; and no packet    *)
(* between ports is in no flow.                                                *)
FbConversations ==
    /\ \A f \in FbBuild(exFlows) :
        LET both == ExRefs(LAMBDA p : FbEligible(p) /\ p.transport = f.transport
                                       /\ {p.src, p.dst} = {f.src, f.dst})
        IN  /\ ToSet(f.refs) = both
            /\ f.packets = Cardinality(both)
            /\ {f.forward, f.reverse} = {Cardinality({i \in both : exPackets[i].src = f.src}),
                                         Cardinality({i \in both : exPackets[i].src # f.src})}
            /\ \A i \in both : f.first <= exPackets[i].at /\ exPackets[i].at <= f.last
            /\ f.failed <=>
                  /\ f.transport = "TCP"
                  /\ \E i \in both : "SYN" \in exPackets[i].flags
                  /\ ~\E i \in both : {"SYN", "ACK"} \subseteq exPackets[i].flags
    /\ ExRefs(FbEligible) = UNION {ToSet(f.refs) : f \in FbBuild(exFlows)}

(* Every query and request is accounted for: unless the same client repeated   *)
(* its key towards the same server before an answer, it is in exactly one      *)
(* transaction; and every answer is in exactly one, with the query before it.  *)
ExAsked(kinds, Key(_), i) ==
    \E j \in i + 1 .. Len(exPackets) :
        /\ exPackets[j].hint.kind = kinds[1] /\ Key(exPackets[j]) = Key(exPackets[i])
        /\ \A n \in i + 1 .. j - 1 :
              exPackets[n].hint.kind = kinds[2] => Key(exPackets[n]) # Key(exPackets[i])
ExAccounted(s, kinds, Key(_)) ==
    \A i \in DOMAIN exPackets :
        /\ exPackets[i].hint.kind = kinds[1] =>
              Cardinality({t \in TxResults(s) : t.request = i}) = IF ExAsked(kinds, Key, i) THEN 0 ELSE 1
        /\ exPackets[i].hint.kind = kinds[2] =>
              /\ Cardinality({t \in TxResults(s) : t.reply = i}) = 1
              /\ \A t \in TxResults(s) : t.reply = i => t.request < i
TxNoneLost ==
    /\ ExAccounted(exDns, <<"query", "answer">>, TxDnsKey)
    /\ ExAccounted(exHttp, <<"request", "status">>, TxHttpKey)

(* A client's connections to one server port share a key.  Still an answer is   *)
(* given to the request of its own connection, whatever goes on between other  *)
(* clients and servers, if none of the client's other connections to that      *)
(* server port has a request or an answer between the two.                     *)
TxOwnConnection ==
    \A i, j \in DOMAIN exPackets :
        LET q == exPackets[i]  a == exPackets[j]
            between == {exPackets[n] : n \in i + 1 .. j - 1}
            same(p) == \/ p.hint.kind = "request" /\ p.src[1] = q.src[1] /\ p.dst = q.dst
                       \/ p.hint.kind = "status" /\ p.dst[1] = q.src[1] /\ p.src = q.dst
        IN  (/\ i < j
             /\ q.hint.kind = "request" /\ a.hint.kind = "status"
             /\ q.src = a.dst /\ q.dst = a.src
             /\ ~\E p \in between : same(p)) =>
                \E t \in exHttp.done : t.request = i /\ t.reply = j

(* Nothing is counted at one end only: packets and bytes sent are those        *)
(* received, what is contacted is what is served, and both are all the packets *)
(* of the capture, and of its flows.                                           *)
HpConserved ==
    LET hosts == ExHosts
        total(Field(_)) == ExSum([h \in DOMAIN hosts |-> Field(hosts[h].profile)])
        inFlows == Cardinality(ExRefs(FbEligible))
    IN  /\ total(LAMBDA x : x.sent) = Len(exPackets)
        /\ total(LAMBDA x : x.received) = Len(exPackets)
        /\ total(LAMBDA x : x.bytesSent) = total(LAMBDA x : x.bytesReceived)
        /\ total(LAMBDA x : ExSum(x.contacts)) = inFlows
        /\ total(LAMBDA x : ExSum(x.served)) = inFlows

(* What is shown hangs together and is complete, although it is computed from  *)
(* five tables: the ends of every edge are nodes, the edges between hosts      *)
(* carry the packets of all flows, every answered name leads somewhere, and    *)
(* every item of the evidence opens with one event, resets showing in the      *)
(* flows that had one.  Every event has the time of a packet, except that an   *)
(* answer of DNS is shown up to half the grain of a latency beside its packet. *)
TlShowsAll ==
    LET flows == FbBuild(exFlows)  dns == TxResults(exDns)  http == TxResults(exHttp)
        nodes == TlNodes(flows, dns, ExTls, ExHosts)
        edges == TlEdges(flows, dns, ExTls, ExHosts)
        events == TlEvents(flows, dns, http, ExTls)
        opening == {e \in events : e.kind # "dns_response"}
        times == {exPackets[i].at : i \in DOMAIN exPackets}
    IN  /\ \A e \in edges : {e.from, e.to} \subseteq nodes
        /\ MapThenSumSet(LAMBDA e : e.packets, edges) = Cardinality(ExRefs(FbEligible))
        /\ \A t \in dns : \A h \in t.answers :
              t.name # NoName => \E e \in edges : e.from = TlDomain(t.name) /\ e.to = TlHost(h) /\ e.count > 0
        /\ Cardinality(opening) =
              Cardinality(flows) + Cardinality(dns) + Cardinality(http) + Cardinality(ExTls)
        /\ \A f \in flows :
              (\E e \in events : e.of = f.refs[1] /\ e.kind = "tcp_reset") <=> (f.resets > 0 /\ ~f.failed)
        /\ \A e \in opening : e.at \in times
        /\ \A e \in events \ opening : \E t \in dns :
              /\ t.ref = e.of /\ t.reply # 0
              /\ 2 * (e.at - exPackets[t.reply].at) \in -TxGrain .. TxGrain
=============================================================================
