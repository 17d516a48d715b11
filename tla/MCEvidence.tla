------------------------------ MODULE MCEvidence ----------------------------
(* Small instance of Evidence.  Hosts 1, 2, 5 and 6 are internal.  A capture   *)
(* is made of packets of one family, or of bursts of one family that reach the *)
(* thresholds of the rules; the graphs have cycles, parallel edges and edges   *)
(* that no search may follow.                                                  *)
EXTENDS Evidence

-----------------------------------------------------------------------------
(* Packets.                                                                    *)
MCHint(kind) == [kind |-> kind, id |-> 0, name |-> NoName, code |-> 0, answers |-> {}]
MCPacket(at, src, dst, transport, flags, seq, hint) ==
    [at |-> at, src |-> src, dst |-> dst, transport |-> transport, len |-> at + 1, flags |-> flags,
     seq |-> seq, hint |-> hint,
     proto |-> CASE hint.kind \in {"query", "answer"} -> "DNS"
                 [] hint.kind \in {"request", "status"} -> "HTTP"
                 [] hint.kind = "hello" -> "TLS"
                 [] OTHER -> transport]
MCTcp(at, src, dst, flags, seq) == MCPacket(at, src, dst, "TCP", flags, seq, MCHint("none"))
MCWeb == <<2, 80>>
MCHttp(kind, port, server) ==
    IF kind = "request" THEN MCPacket(2, <<1, port>>, server, "TCP", {"ACK"}, NoSeq, MCHint(kind))
    ELSE MCPacket(3, server, <<1, port>>, "TCP", {"ACK"}, NoSeq, [MCHint(kind) EXCEPT !.code = 200])
MCDns(kind, id, name, at) ==
    LET hint == [MCHint(kind) EXCEPT !.id = id, !.name = name]
    IN  IF kind = "query" THEN MCPacket(at, <<1, 5000>>, <<2, 53>>, "UDP", {}, NoSeq, hint)
        ELSE MCPacket(at, <<2, 53>>, <<1, 5000>>, "UDP", {}, NoSeq, [hint EXCEPT !.answers = {3}])

MCTcpTraffic == {
    MCTcp(1, <<1, 50>>, MCWeb, {"SYN"}, NoSeq),
    MCTcp(2, MCWeb, <<1, 50>>, {"SYN", "ACK"}, NoSeq),
    MCTcp(3, <<1, 50>>, MCWeb, {"ACK"}, 5),
    MCTcp(0, <<1, 50>>, MCWeb, {"ACK", "FIN"}, 3),
    MCTcp(3, MCWeb, <<1, 50>>, {"RST"}, NoSeq),
    MCTcp(2, <<2, 22>>, <<1, 51>>, {"SYN"}, NoSeq),
    MCPacket(2, <<1, NoPort>>, <<2, NoPort>>, "ICMP", {}, NoSeq, MCHint("none"))}
MCHttpTraffic == {MCHttp(kind, c[1], c[2]) : kind \in {"request", "status"},
                      c \in {<<50, MCWeb>>, <<51, MCWeb>>, <<52, <<2, 8080>>>>}}
MCDnsTraffic == {MCDns("query", 7, "a.example", 1), MCDns("query", 7, "b.example", 2),
                 MCDns("query", 8, "a.example", 1), MCDns("answer", 7, "a.example", 4),
                 MCDns("answer", 8, "a.example", 0),
                 MCTcp(1, <<1, 50>>, <<3, 80>>, {"SYN"}, NoSeq)}
MCTlsTraffic ==
    LET hello(port, over, name) == MCPacket(1, <<1, port>>, <<3, 443>>, over, {}, NoSeq,
                                            [MCHint("hello") EXCEPT !.name = name])
    IN  {hello(50, "TCP", "s.example"), hello(51, "TCP", "s.example"), hello(50, "TCP", NoName),
         hello(50, "UDP", "u.example"),
         MCTcp(2, <<3, 443>>, <<1, 50>>, {"ACK"}, 1), MCTcp(0, <<1, 50>>, <<3, 443>>, {"SYN"}, NoSeq)}
MCTraffic == {MCTcpTraffic, MCHttpTraffic, MCDnsTraffic, MCTlsTraffic}

-----------------------------------------------------------------------------
(* Bursts.                                                                     *)
MCFlow(n, src, dst, port, first, bytes) ==
    [n |-> n, src |-> src, dst |-> dst, port |-> port, transport |-> "TCP", failed |-> FALSE,
     first |-> first, last |-> first + 10, packets |-> 3, bytes |-> bytes]
MCFlows(F) == [SeNothing EXCEPT !.flows = F]
MCDnsBurst(s) == [SeNothing EXCEPT !.dns = s]
MCName(id) ==
    [id |-> id, size |-> 9, label |-> 9, sub |-> SeNone, sldSize |-> 9, entropy |-> 250, readable |-> TRUE]
MCTxn(at, client, name) ==
    [at |-> at, client |-> client, server |-> 4, name |-> name, nx |-> FALSE, answers |-> {}]

MCProbes(ports) == MCFlows({[MCFlow(p, 1, 2, p, p, 60) EXCEPT !.failed = TRUE] : p \in ports})
MCFailures == {
    MCProbes(100 .. 103), MCProbes({104}), MCProbes(105 .. 109), MCProbes({110}),
    MCFlows({[MCFlow(5 + i, 1, 2, 100, 900, 60) EXCEPT !.failed = TRUE] : i \in 1 .. 12}),
    MCFlows({MCFlow(1, 1, 2, 80, 50, 60), [MCFlow(2, 1, 2, 53, 0, 60) EXCEPT !.transport = "UDP"],
             [MCFlow(3, 2, 1, 100, 20, 60) EXCEPT !.failed = TRUE]})}

MCCalls(times, port) == MCFlows({MCFlow(t, 1, 3, port, t, 4000) : t \in times})
MCBeacons == {
    MCCalls({0, 60, 120}, 4444), MCCalls({180, 240}, 4444), MCCalls({290}, 4444), MCCalls({400}, 4444),
    MCCalls({1000, 1010, 1020, 1030, 1041}, 443),
    MCDnsBurst(<<[MCTxn(500, 2, MCName(1)) EXCEPT !.answers = {3}]>>)}

(* A source's alerts 500, 600, 601 and more seconds apart, and some without    *)
(* flows, which the first DNS transaction dates.                               *)
MCCampaign ==
    {MCFlows({MCFlow(c[2], c[1], c[3], c[4], c[2], 60)}) :
        c \in {<<1, 0, 3, 9999>>, <<1, 500, 4, 1337>>, <<1, 1100, 7, 6667>>,
               <<1, 1701, 8, 5555>>, <<2, 300, 3, 5555>>}}
    \cup {[SeNothing EXCEPT !.arp = {[ip |-> 1, mac |-> "m1", own |-> TRUE],
                                  [ip |-> 1, mac |-> "m2", own |-> FALSE]}],
          MCDnsBurst(<<MCTxn(2400, 2, MCName(2))>>),
          MCDnsBurst([i \in 1 .. 10 |-> [MCTxn(3200, 1, MCName(3)) EXCEPT !.nx = TRUE]])}

MCNames(client, n, Name(_), nx) ==
    MCDnsBurst([i \in 1 .. n |-> [MCTxn(i, client, Name(i)) EXCEPT !.nx = nx]])
MCLookups == {
    MCNames(1, 6, LAMBDA i : [MCName(20 + i) EXCEPT !.entropy = 200 + 10 * i], FALSE),
    MCNames(1, 5, LAMBDA i : [MCName(40 + i) EXCEPT !.entropy = 330, !.readable = FALSE], TRUE),
    MCNames(2, 5, LAMBDA i : [MCName(60 + i) EXCEPT !.entropy = 315, !.readable = FALSE], TRUE),
    MCNames(2, 10, LAMBDA i : [MCName(80 + i) EXCEPT !.sub = i], TRUE),
    MCNames(2, 1, LAMBDA i : [MCName(100 + i) EXCEPT !.label = 30, !.size = 40], FALSE),
    MCNames(1, 1, LAMBDA i : MCName(SeNone), TRUE),
    MCNames(SeNone, 10, LAMBDA i : MCName(120), TRUE)}

MCVolumes == {
    MCFlows({MCFlow(1, 1, 3, 443, 0, 60000)}), MCFlows({MCFlow(2, 1, 3, 443, 100, 45000)}),
    MCFlows({MCFlow(3, 1, 4, 80, 0, 1000), MCFlow(4, 1, 7, 80, 5, 2000), MCFlow(5, 1, 8, 80, 5, 2000)}),
    MCFlows({MCFlow(6, 2, 4, 80, 9, 30000)}),
    MCFlows({[MCFlow(7, 2, 3, 443, 0, 120000) EXCEPT !.last = 90]}),
    MCDnsBurst(<<[MCTxn(1, 2, MCName(4)) EXCEPT !.answers = {3}]>>)}

MCMoves == {
    MCFlows({MCFlow(1, 1, 2, 22, 0, 60)}), MCFlows({MCFlow(2, 1, 5, 445, 5, 60)}),
    MCFlows({[MCFlow(3, 1, 6, 3389, 9, 60) EXCEPT !.failed = TRUE]}), MCFlows({MCFlow(4, 1, 3, 22, 9, 60)}),
    [SeNothing EXCEPT !.http = <<[agent |-> 6, client |-> 1, server |-> 3],
                              [agent |-> SeNone, client |-> 1, server |-> 3]>>],
    [SeNothing EXCEPT !.http = <<[agent |-> 6, client |-> SeNone, server |-> 3]>>]}

MCCaptures == {MCFailures, MCBeacons, MCCampaign, MCLookups, MCVolumes, MCMoves}

-----------------------------------------------------------------------------
(* Graphs.                                                                     *)
MCEdge(from, to) == [from |-> from, to |-> to, rel |-> "CONNECTS_TO", prov |-> "observed"]
MCOther(from, to, prov) == [from |-> from, to |-> to, rel |-> "COMMUNICATES_WITH", prov |-> prov]
MCDiamond == {MCEdge("a", "b"), MCEdge("a", "c"), MCEdge("b", "d"), MCEdge("d", "c"),
              MCOther("b", "d", "observed"), MCOther("a", "d", "correlated"), MCOther("d", "e", "enriched")}
MCRing == {MCEdge("a", "b"), MCEdge("b", "c"), MCEdge("c", "d"), MCEdge("d", "e"),
           MCEdge("e", "a"), MCEdge("c", "c")}
MCStar == {MCEdge("a", n) : n \in {"b", "c", "d", "e"}} \cup {MCEdge("b", n) : n \in {"f", "g", "h", "i"}}
MCTriangle == {MCEdge("a", "b"), MCEdge("b", "c"), MCEdge("c", "a"), MCEdge("c", "d"), MCEdge("d", "d")}
MCTwo == {MCEdge("a", "b"), MCEdge("b", "c"), MCEdge("d", "e")}
MCGraphs == {MCDiamond, MCRing, MCStar, MCTriangle, MCTwo}
=============================================================================
