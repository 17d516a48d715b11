---------------------------- MODULE Transactions ----------------------------
(* Protocol extraction: services/protocol_extractor.py.  DNS queries and HTTP  *)
(* requests wait, under a key, for the answer that takes them; TLS packets are *)
(* grouped by the endpoints of the flow they belong to.                        *)
EXTENDS Flows

CONSTANT
    TxGrain   \* what a latency is rounded to, in the units of packet times

ASSUME TxAssumption == TxGrain \in Nat \ {0}

(* round(latency, 6): the nearest multiple of the grain, of two the even one.  *)
TxRound(n) ==
    LET below == n \div TxGrain  rest == n % TxGrain
        down == 2 * rest < TxGrain \/ (2 * rest = TxGrain /\ below % 2 = 0)
    IN  TxGrain * (IF down THEN below ELSE below + 1)

(* Hints: [kind |-> "none"]; "query" and "answer" of DNS with an id (and code  *)
(* and addresses); "request" and "status" of HTTP; "hello" of TLS with a name. *)
TxEmpty == [waiting |-> [k \in {} |-> {}], done |-> {}]

(* dict[key] = txn: a waiting transaction under the same key is overwritten.   *)
TxPut(s, key, txn) ==
    [s EXCEPT !.waiting = [k \in DOMAIN @ \cup {key} |-> IF k = key THEN txn ELSE @[k]]]

TxOpen(client, server, p, ref) ==
    [client |-> client, server |-> server, request |-> 0, reply |-> 0, at |-> p.at,
     latency |-> 0, code |-> -1, answers |-> {}, ref |-> ref, name |-> NoName]

(* An answer nobody asked for has no latency; nothing reads one of HTTP.       *)
TxClose(t, p, ref) ==
    [t EXCEPT !.reply = ref, !.code = p.hint.code, !.answers = p.hint.answers,
              !.latency = IF t.request = 0 THEN 0 ELSE TxRound(p.at - t.at)]

TxAnswered(s, key, open, p, ref) ==
    TxClose(IF key \in DOMAIN s.waiting THEN s.waiting[key] ELSE open, p, ref)

(* Fault: an answered query keeps waiting.                                     *)
TxPeek(s, key, open, p, ref) ==
    [s EXCEPT !.done = @ \cup {TxAnswered(s, key, open, p, ref)}]

(* dict.pop(key): the waiting transaction, or one of its own, gets the answer.  *)
TxTake(s, key, open, p, ref) ==
    [waiting |-> [k \in DOMAIN s.waiting \ {key} |-> s.waiting[k]],
     done |-> s.done \cup {TxAnswered(s, key, open, p, ref)}]

(* extract_dns: client, server and id are the key.                             *)
TxDnsKey(p) ==
    IF p.hint.kind = "query" THEN <<p.src[1], p.dst[1], p.hint.id>>
    ELSE <<p.dst[1], p.src[1], p.hint.id>>
TxDns(s, p, ref) ==
    CASE p.hint.kind = "query" ->
           TxPut(s, TxDnsKey(p), [TxOpen(p.src[1], p.dst[1], p, ref) EXCEPT
                               !.request = ref, !.name = p.hint.name])
      [] p.hint.kind = "answer" ->
           TxTake(s, TxDnsKey(p), [TxOpen(p.dst[1], p.src[1], p, ref) EXCEPT !.name = p.hint.name],
                  p, ref)
      [] OTHER -> s

(* Fault: the server's port is left out of the key.                            *)
TxHttpKeyHosts(p) ==
    IF p.hint.kind = "request" THEN <<p.src[1], p.dst[1], 0>> ELSE <<p.dst[1], p.src[1], 0>>

(* extract_http: client, server and the server's port are the key; the client's *)
(* port is not, so the connections of one client to one server share it.       *)
TxHttpKey(p) ==
    IF p.hint.kind = "request" THEN <<p.src[1], p.dst[1], p.dst[2]>>
    ELSE <<p.dst[1], p.src[1], p.src[2]>>
TxHttp(s, p, ref) ==
    CASE p.hint.kind = "request" ->
           TxPut(s, TxHttpKey(p), [TxOpen(p.src[1], p.dst[1], p, ref) EXCEPT !.request = ref])
      [] p.hint.kind = "status" ->
           TxTake(s, TxHttpKey(p), TxOpen(p.dst[1], p.src[1], p, ref), p, ref)
      [] OTHER -> s

(* What the two extractors return: answered, unasked and unanswered.           *)
TxResults(s) == s.done \cup {s.waiting[k] : k \in DOMAIN s.waiting}

-----------------------------------------------------------------------------
TxTlsPorts == {443, 8443}

(* extract_tls: a packet that looks like TLS joins the session of its flow's    *)
(* two endpoints, if that flow is one of TLS.  The packet that opens a session *)
(* in capture order dates it, and the first name that is not empty is kept.    *)
TxTls(packets, flows) ==
    LET tlsFlows == {f \in flows : f.app = "TLS" \/ f.dst[2] \in TxTlsPorts}
        looks(p) == p.proto = "TLS" \/ (p.transport = "TCP" /\ p.dst[2] \in TxTlsPorts)
        joined(f) == {r \in ToSet(f.refs) : looks(packets[r])}
        refs(k) == UNION {joined(f) : f \in {g \in tlsFlows : <<g.src, g.dst>> = k}}
        named(k) == {r \in refs(k) : packets[r].hint.kind = "hello" /\ packets[r].hint.name # NoName}
    IN  {[client |-> k[1][1], server |-> k[2], ref |-> Min(refs(k)), first |-> packets[Min(refs(k))].at,
          name |-> IF named(k) = {} THEN NoName ELSE packets[Min(named(k))].hint.name]
            : k \in {<<f.src, f.dst>> : f \in {g \in tlsFlows : joined(g) # {}}}}
=============================================================================
