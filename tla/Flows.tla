-------------------------------- MODULE Flows -------------------------------
(* Flow reconstruction: services/flow_builder.py.  FlowBuilder reads packets   *)
(* one by one; both directions of a conversation land in one accumulator,      *)
(* whose forward direction is that of the smaller endpoint and whose source is *)
(* the endpoint seen first.                                                    *)
EXTENDS Integers, Sequences, FiniteSets, SequencesExt

CONSTANT
    FbInternal   \* hosts for which is_private_ip holds; hosts are numbers

(* A packet: [at, src, dst, transport, len, flags, seq, proto, hint]; src and  *)
(* dst are endpoints <<host, port>>, NoPort stands for a missing port, NoSeq   *)
(* for a missing sequence number and NoName for no name or an empty one; hint  *)
(* is what the parser read in the payload.                                     *)
NoPort == -1
NoSeq == -1
NoName == ""

(* add_packet returns early for anything but TCP and UDP between ports.        *)
FbEligible(p) ==
    /\ p.transport \in {"TCP", "UDP"}
    /\ p.src[2] # NoPort /\ p.dst[2] # NoPort

FbLeq(a, b) == a[1] < b[1] \/ (a[1] = b[1] /\ a[2] <= b[2])

(* Fault: the key keeps the direction of the packet.                           *)
FbKeyOneWay(p) == <<p.src, p.dst, p.transport>>

(* _canonical_key: the smaller endpoint first.                                 *)
FbKey(p) == IF FbLeq(p.src, p.dst) THEN <<p.src, p.dst, p.transport>>
            ELSE <<p.dst, p.src, p.transport>>

-----------------------------------------------------------------------------
FbSequencer ==
    [resets |-> 0, syn |-> 0, synRetrans |-> 0, dataRetrans |-> 0,
     sawSyn |-> FALSE, sawSynAck |-> FALSE, sawFin |-> FALSE,
     last |-> [d \in {"f", "r"} |-> NoSeq]]

(* TCPSequencer.observe.                                                       *)
FbObserve(s, p, forward) ==
    LET has(flag) == flag \in p.flags
        d == IF forward THEN "f" ELSE "r"
        pureSyn == has("SYN") /\ ~has("ACK")
        ordered == has("ACK") /\ ~has("SYN") /\ p.seq # NoSeq
        back == ordered /\ s.last[d] # NoSeq /\ p.seq < s.last[d]
        one(b) == IF b THEN 1 ELSE 0
    IN  [resets |-> s.resets + one(has("RST")),
         syn |-> s.syn + one(has("SYN")),
         synRetrans |-> s.synRetrans + one(pureSyn /\ s.sawSyn),
         dataRetrans |-> s.dataRetrans + one(back),
         sawSyn |-> s.sawSyn \/ pureSyn,
         sawSynAck |-> s.sawSynAck \/ (has("SYN") /\ has("ACK")),
         sawFin |-> s.sawFin \/ has("FIN"),
         last |-> IF ordered THEN [s.last EXCEPT ![d] = p.seq] ELSE s.last]

FbState(f) ==
    IF f.transport # "TCP" THEN "none"
    ELSE IF f.tcp.resets > 0 THEN "reset"
    ELSE IF f.tcp.sawFin THEN "closed"
    ELSE IF f.tcp.sawSynAck THEN "established"
    ELSE IF f.tcp.sawSyn THEN "half_open" ELSE "none"

FbNewFlow(p) ==
    [src |-> p.src, dst |-> p.dst, transport |-> p.transport, first |-> p.at, last |-> p.at,
     packets |-> 0, bytes |-> 0, forward |-> 0, reverse |-> 0, votes |-> <<>>,
     tcp |-> FbSequencer, refs |-> <<>>]

(* _FlowAccumulator.add; bytes are split like packets, which is left out.      *)
FbAccumulate(f, p, ref, forward) ==
    [f EXCEPT
        !.packets = @ + 1,
        !.bytes = @ + p.len,
        !.forward = IF forward THEN @ + 1 ELSE @,
        !.reverse = IF forward THEN @ ELSE @ + 1,
        !.first = IF p.at < @ THEN p.at ELSE @,
        !.last = IF p.at > @ THEN p.at ELSE @,
        !.votes = IF p.proto \in {NoName, "TCP", "UDP", "IP"} THEN @ ELSE Append(@, p.proto),
        !.refs = Append(@, ref),
        !.tcp = IF f.transport = "TCP" THEN FbObserve(@, p, forward) ELSE @]

(* add_packet: flows maps keys to accumulators.                                *)
FbAddPacket(flows, p, ref) ==
    IF ~FbEligible(p) THEN flows
    ELSE LET k == FbKey(p)
             f == IF k \in DOMAIN flows THEN flows[k] ELSE FbNewFlow(p)
         IN  [x \in DOMAIN flows \cup {k} |->
                 IF x = k THEN FbAccumulate(f, p, ref, p.src = k[1]) ELSE flows[x]]

(* application_protocol: the label most packets carry, the first one of a tie. *)
FbApp(f) ==
    LET votes(l) == Cardinality({i \in DOMAIN f.votes : f.votes[i] = l})
        best == SelectInSeq(f.votes, LAMBDA l : \A m \in ToSet(f.votes) : votes(m) <= votes(l))
    IN  IF best = 0 THEN f.transport ELSE f.votes[best]

FbDirection(f) ==
    CASE f.src[1] \in FbInternal /\ f.dst[1] \notin FbInternal -> "outbound"
      [] f.src[1] \notin FbInternal /\ f.dst[1] \in FbInternal -> "inbound"
      [] f.src[1] \in FbInternal /\ f.dst[1] \in FbInternal    -> "internal"
      [] OTHER                                                 -> "unknown"

(* The failed flag of build.                                                   *)
FbFailed(f) == f.transport = "TCP" /\ f.tcp.syn > 0 /\ ~f.tcp.sawSynAck

(* build: what is persisted of a flow, whatever its place in the list.         *)
FbBuild(flows) ==
    {[src |-> f.src, dst |-> f.dst, transport |-> f.transport, app |-> FbApp(f),
      first |-> f.first, last |-> f.last, packets |-> f.packets, bytes |-> f.bytes,
      forward |-> f.forward, reverse |-> f.reverse, direction |-> FbDirection(f),
      state |-> FbState(f), failed |-> FbFailed(f), resets |-> f.tcp.resets,
      retrans |-> f.tcp.synRetrans + f.tcp.dataRetrans, refs |-> f.refs]
        : f \in {flows[k] : k \in DOMAIN flows}}
=============================================================================
