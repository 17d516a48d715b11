-------------------------- MODULE Extraction_proofs --------------------------
(* What is extracted of the packets of a capture: flows, transactions, hosts,  *)
(* and what is shown of them; for any traffic and any number of packets.       *)
EXTENDS Extraction, DataLemmas

-----------------------------------------------------------------------------
(* Flows.  The accumulator under a key has exactly the packets of that key.    *)
FbTcp ==
    [resets : Nat, syn : Nat, synRetrans : Nat, dataRetrans : Nat,
     sawSyn : BOOLEAN, sawSynAck : BOOLEAN, sawFin : BOOLEAN, last : [{"f", "r"} -> Int]]
FbFlow ==
    [src : Int \X Int, dst : Int \X Int, transport : STRING, first : Int, last : Int,
     packets : Nat, bytes : Nat, forward : Nat, reverse : Nat, votes : Seq(STRING),
     tcp : FbTcp, refs : Seq(Nat)]

FbMine(packets, k) == {i \in DOMAIN packets : FbEligible(packets[i]) /\ FbKey(packets[i]) = k}
FbSent(packets, k) == {i \in FbMine(packets, k) : packets[i].src = k[1]}

FbHas(packets, k, flags) == \E i \in FbMine(packets, k) : flags \subseteq packets[i].flags

(* Counted once, on the side it was sent from.                                 *)
FbCounted(packets, f, k) ==
    /\ ToSet(f.refs) = FbMine(packets, k)
    /\ f.packets = Cardinality(FbMine(packets, k))
    /\ f.forward = Cardinality(FbSent(packets, k))
    /\ f.reverse = Cardinality(FbMine(packets, k) \ FbSent(packets, k))
FbTimed(packets, f, k) ==
    \A i \in FbMine(packets, k) : f.first <= packets[i].at /\ packets[i].at <= f.last
FbWatched(packets, f, k) ==
    /\ f.tcp.resets <= f.packets /\ f.tcp.synRetrans + f.tcp.dataRetrans <= f.packets
    /\ f.transport = "TCP" =>
          /\ f.tcp.syn > 0 <=> FbHas(packets, k, {"SYN"})
          /\ f.tcp.sawSynAck <=> FbHas(packets, k, {"SYN", "ACK"})

FbAbout(f, k) ==
    /\ f \in FbFlow /\ f.transport = k[3]
    /\ (f.src = k[1] /\ f.dst = k[2]) \/ (f.src = k[2] /\ f.dst = k[1])

FbFlowsOf(packets, flows) ==
    /\ \A k \in DOMAIN flows :
          /\ FbMine(packets, k) # {}
          /\ FbAbout(flows[k], k) /\ FbCounted(packets, flows[k], k)
          /\ FbTimed(packets, flows[k], k) /\ FbWatched(packets, flows[k], k)
    /\ \A i \in DOMAIN packets : FbEligible(packets[i]) => FbKey(packets[i]) \in DOMAIN flows

LEMMA ExPacketFields ==
    ASSUME NEW p \in ExPacket
    PROVE  /\ p.at \in Int /\ p.src \in Int \X Int /\ p.dst \in Int \X Int /\ p.transport \in STRING
           /\ p.len \in Nat /\ p.flags \in SUBSET STRING /\ p.seq \in Int /\ p.proto \in STRING
           /\ p.hint \in ExHint
  BY DEF ExPacket

(* Whichever way the packets of a conversation go, they have one key.          *)
LEMMA FbSameKey ==
    ASSUME NEW p \in ExPacket, NEW q \in ExPacket
    PROVE  FbKey(p) = FbKey(q) <=> p.transport = q.transport /\ {p.src, p.dst} = {q.src, q.dst}
  <1>1. \A a, b \in Int \X Int : FbLeq(a, b) \/ FbLeq(b, a)
    BY DEF FbLeq
  <1>2. \A a, b \in Int \X Int : FbLeq(a, b) /\ FbLeq(b, a) => a = b
    <2> SUFFICES ASSUME NEW a \in Int \X Int, NEW b \in Int \X Int, FbLeq(a, b), FbLeq(b, a) PROVE a = b
      OBVIOUS
    <2>1. a = <<a[1], a[2]>> /\ b = <<b[1], b[2]>> /\ {a[1], a[2], b[1], b[2]} \subseteq Int
      OBVIOUS
    <2>2. a[1] = b[1] /\ a[2] = b[2]
      BY <2>1 DEF FbLeq
    <2> QED
      BY <2>1, <2>2
  <1>3. {p.src, p.dst, q.src, q.dst} \subseteq Int \X Int
    BY ExPacketFields
  <1> QED
    BY <1>1, <1>2, <1>3 DEF FbKey

LEMMA FbKeyEnds ==
    ASSUME NEW p \in ExPacket, NEW k, k = FbKey(p)
    PROVE  /\ k[3] = p.transport
           /\ (p.src = k[1] /\ p.dst = k[2]) \/ (p.src = k[2] /\ p.dst = k[1])
  BY DEF FbKey

(* A sequence that grows by one.                                               *)
LEMMA AppendFacts ==
    ASSUME NEW S, NEW s \in Seq(S), NEW x \in S, NEW t, t = Append(s, x)
    PROVE  /\ t \in Seq(S) /\ DOMAIN t = DOMAIN s \cup {Len(s) + 1} /\ Len(s) + 1 \notin DOMAIN s
           /\ DOMAIN s \subseteq Nat /\ Len(s) \in Nat /\ Len(t) = Len(s) + 1
           /\ t[Len(s) + 1] = x /\ \A i \in DOMAIN s : t[i] = s[i]
           /\ ToSet(t) = ToSet(s) \cup {x}
           /\ IsFiniteSet(DOMAIN s) /\ DOMAIN s = 1 .. Len(s)
  <1>1. /\ t \in Seq(S) /\ DOMAIN t = DOMAIN s \cup {Len(s) + 1} /\ Len(s) + 1 \notin DOMAIN s
        /\ DOMAIN s \subseteq Nat /\ Len(s) \in Nat /\ Len(t) = Len(s) + 1
        /\ t[Len(s) + 1] = x /\ \A i \in DOMAIN s : t[i] = s[i]
    OBVIOUS
  <1>2. ToSet(t) = ToSet(s) \cup {x}
    <2> QED
      BY <1>1 DEF ToSet
  <1>3. DOMAIN s = 1 .. Len(s) /\ Len(s) \in Int /\ 1 \in Int
    OBVIOUS
  <1>4. IsFiniteSet(DOMAIN s)
    BY <1>3, FS_Interval
  <1> QED
    BY <1>1, <1>2, <1>3, <1>4

LEMMA RefsAppended ==
    ASSUME NEW s \in Seq(Nat), NEW x \in Nat, NEW t, t = Append(s, x)
    PROVE  t \in Seq(Nat) /\ ToSet(t) = ToSet(s) \cup {x}
  <1>1. /\ t \in Seq(Nat) /\ DOMAIN t = DOMAIN s \cup {Len(s) + 1}
        /\ t[Len(s) + 1] = x /\ \A i \in DOMAIN s : t[i] = s[i]
    BY AppendFacts
  <1> QED
    BY <1>1 DEF ToSet

(* What TCPSequencer.observe notes of a segment.                               *)
FbSees(s, p, forward, t) ==
    s \in FbTcp /\ p \in ExPacket /\ forward \in BOOLEAN /\ t = FbObserve(s, p, forward)

LEMMA FbObserved ==
    ASSUME NEW s, NEW p, NEW forward, NEW t, FbSees(s, p, forward, t)
    PROVE  /\ t \in FbTcp
           /\ t.resets <= s.resets + 1
           /\ t.synRetrans + t.dataRetrans <= s.synRetrans + s.dataRetrans + 1
           /\ t.syn > 0 <=> s.syn > 0 \/ "SYN" \in p.flags
           /\ t.sawSynAck <=> s.sawSynAck \/ {"SYN", "ACK"} \subseteq p.flags
  <1> DEFINE has(flag) == flag \in p.flags
             d == IF forward THEN "f" ELSE "r"
             pureSyn == has("SYN") /\ ~has("ACK")
             ordered == has("ACK") /\ ~has("SYN") /\ p.seq # NoSeq
             back == ordered /\ s.last[d] # NoSeq /\ p.seq < s.last[d]
             one(b) == IF b THEN 1 ELSE 0
  <1>1. /\ s.resets \in Nat /\ s.syn \in Nat /\ s.synRetrans \in Nat /\ s.dataRetrans \in Nat
        /\ s.sawSyn \in BOOLEAN /\ s.sawSynAck \in BOOLEAN /\ s.sawFin \in BOOLEAN
        /\ s.last \in [{"f", "r"} -> Int]
    BY DEF FbSees, FbTcp
  <1>2. p.seq \in Int
    BY ExPacketFields DEF FbSees
  <1>3. PICK last : last = IF ordered THEN [s.last EXCEPT ![d] = p.seq] ELSE s.last
    OBVIOUS
  <1>4. last \in [{"f", "r"} -> Int]
    BY <1>1, <1>2, <1>3
  <1>5. t = [resets |-> s.resets + one(has("RST")),
             syn |-> s.syn + one(has("SYN")),
             synRetrans |-> s.synRetrans + one(pureSyn /\ s.sawSyn),
             dataRetrans |-> s.dataRetrans + one(back),
             sawSyn |-> s.sawSyn \/ pureSyn,
             sawSynAck |-> s.sawSynAck \/ (has("SYN") /\ has("ACK")),
             sawFin |-> s.sawFin \/ has("FIN"),
             last |-> last]
    BY <1>3 DEF FbSees, FbObserve
  <1>6. \A b : one(b) \in {0, 1}
    OBVIOUS
  <1>7. t.resets \in Nat /\ t.syn \in Nat /\ t.synRetrans \in Nat /\ t.dataRetrans \in Nat
    BY <1>1, <1>5
  <1>8. t \in FbTcp
    BY <1>1, <1>4, <1>5, <1>7 DEF FbTcp
  <1>9. t.resets <= s.resets + 1 /\ (t.syn > 0 <=> s.syn > 0 \/ "SYN" \in p.flags)
    BY <1>1, <1>5
  <1>10. ~(pureSyn /\ back)
    OBVIOUS
  <1>11. t.synRetrans + t.dataRetrans <= s.synRetrans + s.dataRetrans + 1
    BY <1>1, <1>5, <1>10
  <1>12. t.sawSynAck <=> s.sawSynAck \/ {"SYN", "ACK"} \subseteq p.flags
    <2>1. t.sawSynAck = (s.sawSynAck \/ (has("SYN") /\ has("ACK")))
      BY <1>5
    <2> QED
      BY <2>1
  <1> QED
    BY <1>8, <1>9, <1>11, <1>12

(* What a packet adds to its flow.                                             *)
FbAdds(f, p, ref, forward, g) ==
    /\ f \in FbFlow /\ p \in ExPacket /\ ref \in Nat /\ forward \in BOOLEAN
    /\ g = FbAccumulate(f, p, ref, forward)

LEMMA FbAccumulated ==
    ASSUME NEW f, NEW p, NEW ref, NEW forward, NEW g, FbAdds(f, p, ref, forward, g)
    PROVE  /\ g \in FbFlow
           /\ g.src = f.src /\ g.dst = f.dst /\ g.transport = f.transport
           /\ g.packets = f.packets + 1 /\ ToSet(g.refs) = ToSet(f.refs) \cup {ref}
           /\ g.forward = f.forward + (IF forward THEN 1 ELSE 0)
           /\ g.reverse = f.reverse + (IF forward THEN 0 ELSE 1)
           /\ g.first <= f.first /\ g.first <= p.at /\ f.last <= g.last /\ p.at <= g.last
           /\ g.first \in {f.first, p.at}
           /\ g.tcp = IF f.transport = "TCP" THEN FbObserve(f.tcp, p, forward) ELSE f.tcp
  <1>1. /\ f.src \in Int \X Int /\ f.dst \in Int \X Int /\ f.transport \in STRING
        /\ f.first \in Int /\ f.last \in Int /\ f.packets \in Nat /\ f.bytes \in Nat
        /\ f.forward \in Nat /\ f.reverse \in Nat /\ f.votes \in Seq(STRING)
        /\ f.tcp \in FbTcp /\ f.refs \in Seq(Nat)
    BY DEF FbAdds, FbFlow
  <1>2. PICK first : first = IF p.at < f.first THEN p.at ELSE f.first
    OBVIOUS
  <1>3. PICK last : last = IF p.at > f.last THEN p.at ELSE f.last
    OBVIOUS
  <1>4. PICK votes : votes = IF p.proto \in {NoName, "TCP", "UDP", "IP"} THEN f.votes ELSE Append(f.votes, p.proto)
    OBVIOUS
  <1>5. PICK tcp : tcp = IF f.transport = "TCP" THEN FbObserve(f.tcp, p, forward) ELSE f.tcp
    OBVIOUS
  <1>6. PICK refs : refs = Append(f.refs, ref)
    OBVIOUS
  <1>7. g = [src |-> f.src, dst |-> f.dst, transport |-> f.transport, first |-> first, last |-> last,
             packets |-> f.packets + 1, bytes |-> f.bytes + p.len,
             forward |-> IF forward THEN f.forward + 1 ELSE f.forward,
             reverse |-> IF forward THEN f.reverse ELSE f.reverse + 1,
             votes |-> votes, tcp |-> tcp, refs |-> refs]
    <2>1. f = [src |-> f.src, dst |-> f.dst, transport |-> f.transport, first |-> f.first,
               last |-> f.last, packets |-> f.packets, bytes |-> f.bytes, forward |-> f.forward,
               reverse |-> f.reverse, votes |-> f.votes, tcp |-> f.tcp, refs |-> f.refs]
      BY DEF FbAdds, FbFlow
    <2> QED
      BY <1>2, <1>3, <1>4, <1>5, <1>6, <2>1 DEF FbAdds, FbAccumulate
  <1>8. p.at \in Int /\ p.len \in Nat /\ p.proto \in STRING
    BY ExPacketFields DEF FbAdds
  <1>9. /\ first \in Int /\ first <= f.first /\ first <= p.at
        /\ last \in Int /\ f.last <= last /\ p.at <= last
    <2>1. f.first \in Int /\ f.last \in Int /\ p.at \in Int
      BY <1>1, <1>8
    <2> QED
      BY <1>2, <1>3, <2>1
  <1>10. votes \in Seq(STRING)
    <2>1. f.votes \in Seq(STRING) /\ p.proto \in STRING
      BY <1>1, <1>8
    <2>2. Append(f.votes, p.proto) \in Seq(STRING)
      BY <2>1
    <2> QED
      BY <1>4, <2>1, <2>2
  <1>11. tcp \in FbTcp
    BY <1>1, <1>5, FbObserved DEF FbAdds, FbSees
  <1>12. refs \in Seq(Nat) /\ ToSet(refs) = ToSet(f.refs) \cup {ref}
    <2>1. PICK old : old = f.refs
      OBVIOUS
    <2>2. old \in Seq(Nat) /\ refs = Append(old, ref) /\ ref \in Nat
      BY <1>1, <1>6, <2>1 DEF FbAdds
    <2>3. refs \in Seq(Nat) /\ ToSet(refs) = ToSet(old) \cup {ref}
      BY <2>2, RefsAppended
    <2> QED
      BY <2>1, <2>3
  <1>13. f.packets + 1 \in Nat /\ f.bytes + p.len \in Nat /\ f.forward + 1 \in Nat /\ f.reverse + 1 \in Nat
    <2>1. f.packets \in Nat /\ f.bytes \in Nat /\ f.forward \in Nat /\ f.reverse \in Nat /\ p.len \in Nat
      BY <1>1, <1>8
    <2> QED
      BY <2>1
  <1>14. g \in FbFlow
    BY <1>1, <1>7, <1>9, <1>10, <1>11, <1>12, <1>13 DEF FbFlow
  <1>15. /\ g.forward = f.forward + (IF forward THEN 1 ELSE 0)
         /\ g.reverse = f.reverse + (IF forward THEN 0 ELSE 1)
    <2>1. /\ g.forward = IF forward THEN f.forward + 1 ELSE f.forward
          /\ g.reverse = IF forward THEN f.reverse ELSE f.reverse + 1
      BY <1>7
    <2>2. f.forward \in Nat /\ f.reverse \in Nat
      BY <1>1
    <2> QED
      BY <2>1, <2>2
  <1>16. /\ g.src = f.src /\ g.dst = f.dst /\ g.transport = f.transport
         /\ g.packets = f.packets + 1 /\ g.refs = refs /\ g.first = first /\ g.last = last
         /\ g.tcp = tcp
    BY <1>7
  <1>17. first \in {f.first, p.at}
    BY <1>2
  <1> QED
    BY <1>5, <1>9, <1>12, <1>14, <1>15, <1>16, <1>17

(* One packet more was read.                                                   *)
ExGrown(packets, p, more, n) ==
    packets \in Seq(ExPacket) /\ p \in ExPacket /\ more = Append(packets, p) /\ n = Len(packets) + 1

LEMMA PacketsAppended ==
    ASSUME NEW packets, NEW p, NEW more, NEW n, ExGrown(packets, p, more, n)
    PROVE  /\ packets \in Seq(ExPacket) /\ p \in ExPacket
           /\ more \in Seq(ExPacket) /\ Len(more) = n /\ n \in Nat
           /\ DOMAIN more = DOMAIN packets \cup {n} /\ n \notin DOMAIN packets
           /\ DOMAIN packets = 1 .. n - 1 /\ DOMAIN more = 1 .. n
           /\ more[n] = p /\ \A i \in DOMAIN packets : more[i] = packets[i]
           /\ IsFiniteSet(DOMAIN packets)
  <1>1. /\ more \in Seq(ExPacket) /\ DOMAIN more = DOMAIN packets \cup {n} /\ n \notin DOMAIN packets
        /\ n \in Nat /\ Len(more) = n
        /\ more[n] = p /\ \A i \in DOMAIN packets : more[i] = packets[i]
    BY DEF ExGrown
  <1>2. DOMAIN packets = 1 .. n - 1 /\ DOMAIN more = 1 .. n
    BY DEF ExGrown
  <1>3. IsFiniteSet(DOMAIN packets)
    BY <1>1, <1>2, FS_Interval
  <1> QED
    BY <1>1, <1>2, <1>3 DEF ExGrown

LEMMA FbMineGrows ==
    ASSUME NEW packets, NEW p, NEW more, NEW n, ExGrown(packets, p, more, n), NEW k
    PROVE  /\ IsFiniteSet(FbMine(packets, k)) /\ n \notin FbMine(packets, k)
           /\ FbSent(packets, k) \subseteq FbMine(packets, k)
           /\ \A i \in FbMine(packets, k) : more[i] = packets[i]
           /\ more[n] = p
           /\ FbEligible(p) /\ FbKey(p) = k =>
                 /\ FbMine(more, k) = FbMine(packets, k) \cup {n}
                 /\ FbSent(more, k) = FbSent(packets, k) \cup (IF p.src = k[1] THEN {n} ELSE {})
           /\ ~(FbEligible(p) /\ FbKey(p) = k) =>
                 /\ FbMine(more, k) = FbMine(packets, k) /\ FbSent(more, k) = FbSent(packets, k)
  <1>1. /\ DOMAIN more = DOMAIN packets \cup {n} /\ n \notin DOMAIN packets
        /\ more[n] = p /\ \A i \in DOMAIN packets : more[i] = packets[i]
        /\ IsFiniteSet(DOMAIN packets)
    BY PacketsAppended
  <1>2. FbMine(packets, k) \subseteq DOMAIN packets
    BY DEF FbMine
  <1>3. IsFiniteSet(FbMine(packets, k))
    BY <1>1, <1>2, FS_Subset
  <1>4. \A i : i \in FbMine(more, k) <=> i \in FbMine(packets, k) \/ (i = n /\ FbEligible(p) /\ FbKey(p) = k)
    BY <1>1 DEF FbMine
  <1>5. \A i : i \in FbSent(more, k) <=> i \in FbMine(more, k) /\ more[i].src = k[1]
    BY DEF FbSent
  <1>6. \A i : i \in FbSent(packets, k) <=> i \in FbMine(packets, k) /\ packets[i].src = k[1]
    BY DEF FbSent
  <1>7. \A i \in FbMine(packets, k) : more[i] = packets[i]
    BY <1>1, <1>2
  <1>8. n \notin FbMine(packets, k) /\ more[n] = p
    BY <1>1, <1>2
  <1>9. ASSUME FbEligible(p) /\ FbKey(p) = k
        PROVE  /\ FbMine(more, k) = FbMine(packets, k) \cup {n}
               /\ FbSent(more, k) = FbSent(packets, k) \cup (IF p.src = k[1] THEN {n} ELSE {})
    <2>1. FbMine(more, k) = FbMine(packets, k) \cup {n}
      BY <1>4, <1>9
    <2>2. \A i : i \in FbSent(more, k) <=> i \in FbSent(packets, k) \/ (i = n /\ p.src = k[1])
      BY <1>5, <1>6, <1>7, <1>8, <2>1
    <2> QED
      BY <2>1, <2>2
  <1>10. ASSUME ~(FbEligible(p) /\ FbKey(p) = k)
         PROVE  FbMine(more, k) = FbMine(packets, k) /\ FbSent(more, k) = FbSent(packets, k)
    <2>1. FbMine(more, k) = FbMine(packets, k)
      BY <1>4, <1>10
    <2>2. \A i : i \in FbSent(more, k) <=> i \in FbSent(packets, k)
      BY <1>5, <1>6, <1>7, <2>1
    <2> QED
      BY <2>1, <2>2
  <1> QED
    BY <1>3, <1>6, <1>7, <1>8, <1>9, <1>10

(* A flow is not touched by the packets of another key.                        *)
LEMMA FbOther ==
    ASSUME NEW packets, NEW p, NEW more, NEW n, ExGrown(packets, p, more, n), 
           NEW k, ~(FbEligible(p) /\ FbKey(p) = k), NEW f,
           FbMine(packets, k) # {}, FbCounted(packets, f, k), FbTimed(packets, f, k), FbWatched(packets, f, k)
    PROVE  FbMine(more, k) # {} /\ FbCounted(more, f, k) /\ FbTimed(more, f, k) /\ FbWatched(more, f, k)
  <1>1. /\ FbMine(more, k) = FbMine(packets, k) /\ FbSent(more, k) = FbSent(packets, k)
        /\ \A i \in FbMine(packets, k) : more[i] = packets[i]
    BY FbMineGrows
  <1>2. \A flags : FbHas(more, k, flags) <=> FbHas(packets, k, flags)
    BY <1>1 DEF FbHas
  <1> QED
    BY <1>1, <1>2 DEF FbCounted, FbTimed, FbWatched

(* The flow of the packet, whether it is new or not.                           *)
LEMMA FbOwn ==
    ASSUME NEW packets, NEW p, NEW more, NEW n, ExGrown(packets, p, more, n), FbEligible(p), NEW k, k = FbKey(p),
           NEW f, FbAbout(f, k), FbCounted(packets, f, k), FbTimed(packets, f, k), FbWatched(packets, f, k),
           NEW g, g = FbAccumulate(f, p, n, p.src = k[1])
    PROVE  /\ FbMine(more, k) # {}
           /\ FbAbout(g, k) /\ FbCounted(more, g, k) /\ FbTimed(more, g, k) /\ FbWatched(more, g, k)
  <1>1. PICK forward : forward = (p.src = k[1])
    OBVIOUS
  <1>2. forward \in BOOLEAN /\ (forward <=> p.src = k[1]) /\ g = FbAccumulate(f, p, n, forward)
    BY <1>1
  <1>3. f \in FbFlow /\ n \in Nat /\ p \in ExPacket /\ packets \in Seq(ExPacket)
    BY PacketsAppended DEF FbAbout
  <1>4. /\ g \in FbFlow
        /\ g.src = f.src /\ g.dst = f.dst /\ g.transport = f.transport
        /\ g.packets = f.packets + 1 /\ ToSet(g.refs) = ToSet(f.refs) \cup {n}
        /\ g.forward = f.forward + (IF forward THEN 1 ELSE 0)
        /\ g.reverse = f.reverse + (IF forward THEN 0 ELSE 1)
        /\ g.first <= f.first /\ g.first <= p.at /\ f.last <= g.last /\ p.at <= g.last
        /\ g.tcp = IF f.transport = "TCP" THEN FbObserve(f.tcp, p, forward) ELSE f.tcp
    BY <1>2, <1>3, FbAccumulated DEF FbAdds
  <1>5. /\ IsFiniteSet(FbMine(packets, k)) /\ n \notin FbMine(packets, k)
        /\ FbSent(packets, k) \subseteq FbMine(packets, k)
        /\ \A i \in FbMine(packets, k) : more[i] = packets[i]
        /\ more[n] = p
        /\ FbMine(more, k) = FbMine(packets, k) \cup {n}
        /\ FbSent(more, k) = FbSent(packets, k) \cup (IF p.src = k[1] THEN {n} ELSE {})
    BY FbMineGrows
  <1>6. FbAbout(g, k)
    BY <1>4 DEF FbAbout
  <1>7. FbCounted(more, g, k)
    <2>1. IsFiniteSet(FbSent(packets, k)) /\ IsFiniteSet(FbMine(packets, k) \ FbSent(packets, k))
      BY <1>5, FS_Subset
    <2>2. Cardinality(FbMine(packets, k) \cup {n}) = Cardinality(FbMine(packets, k)) + 1
      BY <1>5, FS_AddElement
    <2>3. Cardinality(FbSent(packets, k) \cup {n}) = Cardinality(FbSent(packets, k)) + 1
      BY <1>5, <2>1, FS_AddElement
    <2>4. Cardinality((FbMine(packets, k) \ FbSent(packets, k)) \cup {n})
              = Cardinality(FbMine(packets, k) \ FbSent(packets, k)) + 1
      BY <1>5, <2>1, FS_AddElement
    <2>5. f.forward \in Nat /\ f.reverse \in Nat /\ f.packets \in Nat
      BY <1>3 DEF FbFlow
    <2>6. CASE p.src = k[1]
      <3>1. /\ FbSent(more, k) = FbSent(packets, k) \cup {n}
            /\ FbMine(more, k) \ FbSent(more, k) = FbMine(packets, k) \ FbSent(packets, k)
        BY <1>5, <2>6
      <3>2. g.forward = f.forward + 1 /\ g.reverse = f.reverse
        BY <1>2, <1>4, <2>5, <2>6
      <3> QED
        BY <1>4, <1>5, <2>2, <2>3, <3>1, <3>2 DEF FbCounted
    <2>7. CASE p.src # k[1]
      <3>1. /\ FbSent(more, k) = FbSent(packets, k)
            /\ FbMine(more, k) \ FbSent(more, k) = (FbMine(packets, k) \ FbSent(packets, k)) \cup {n}
        BY <1>5, <2>7
      <3>2. g.forward = f.forward /\ g.reverse = f.reverse + 1
        BY <1>2, <1>4, <2>5, <2>7
      <3> QED
        BY <1>4, <1>5, <2>2, <2>4, <3>1, <3>2 DEF FbCounted
    <2> QED
      BY <2>6, <2>7
  <1>8. FbTimed(more, g, k)
    <2>1. p.at \in Int /\ f.first \in Int /\ f.last \in Int /\ g.first \in Int /\ g.last \in Int
      BY <1>3, <1>4, ExPacketFields DEF FbFlow
    <2>2. ASSUME NEW i \in FbMine(packets, k) PROVE g.first <= more[i].at /\ more[i].at <= g.last
      <3>1. f.first <= packets[i].at /\ packets[i].at <= f.last /\ more[i] = packets[i]
        BY <1>5 DEF FbTimed
      <3>2. packets[i].at \in Int
        <4>1. i \in DOMAIN packets /\ packets[i] \in ExPacket
          BY <1>3 DEF FbMine
        <4> QED
          BY <4>1, ExPacketFields
      <3> QED
        BY <1>4, <2>1, <3>1, <3>2
    <2> QED
      BY <1>4, <1>5, <2>2 DEF FbTimed
  <1>9. FbWatched(more, g, k)
    <2>1. \A flags : FbHas(more, k, flags) <=> FbHas(packets, k, flags) \/ flags \subseteq p.flags
      BY <1>5 DEF FbHas
    <2>2. f.tcp \in FbTcp /\ f.packets \in Nat
      BY <1>3 DEF FbFlow
    <2>3. f.tcp.resets \in Nat /\ f.tcp.synRetrans \in Nat /\ f.tcp.dataRetrans \in Nat
      BY <2>2 DEF FbTcp
    <2>4. CASE f.transport # "TCP"
      <3>1. g.tcp = f.tcp /\ g.transport # "TCP"
        BY <1>4, <2>4
      <3> QED
        BY <1>4, <2>2, <2>3, <3>1 DEF FbWatched
    <2>5. CASE f.transport = "TCP"
      <3>1. PICK t : t = f.tcp
        OBVIOUS
      <3>2. PICK u : u = FbObserve(t, p, forward)
        OBVIOUS
      <3>3. g.tcp = u
        BY <1>4, <2>5, <3>1, <3>2
      <3>4. /\ u \in FbTcp
            /\ u.resets <= t.resets + 1
            /\ u.synRetrans + u.dataRetrans <= t.synRetrans + t.dataRetrans + 1
            /\ u.syn > 0 <=> t.syn > 0 \/ "SYN" \in p.flags
            /\ u.sawSynAck <=> t.sawSynAck \/ {"SYN", "ACK"} \subseteq p.flags
        BY <1>2, <1>3, <2>2, <3>1, <3>2, FbObserved DEF FbSees
      <3>5. u.resets \in Nat /\ u.synRetrans \in Nat /\ u.dataRetrans \in Nat
        BY <3>4 DEF FbTcp
      <3>6. u.resets <= g.packets /\ u.synRetrans + u.dataRetrans <= g.packets
        BY <1>4, <2>2, <2>3, <3>1, <3>4, <3>5 DEF FbWatched
      <3>7. u.syn > 0 <=> FbHas(more, k, {"SYN"})
        BY <2>1, <2>5, <3>1, <3>4 DEF FbWatched
      <3>8. u.sawSynAck <=> FbHas(more, k, {"SYN", "ACK"})
        BY <2>1, <2>5, <3>1, <3>4, Zenon DEF FbWatched
      <3> QED
        BY <3>3, <3>6, <3>7, <3>8 DEF FbWatched
    <2> QED
      BY <2>4, <2>5
  <1> QED
    BY <1>5, <1>6, <1>7, <1>8, <1>9

(* A flow that begins has no packets yet.                                      *)
LEMMA FbBegins ==
    ASSUME NEW packets \in Seq(ExPacket), NEW p \in ExPacket, NEW k, k = FbKey(p),
           FbMine(packets, k) = {}, NEW f, f = FbNewFlow(p)
    PROVE  FbAbout(f, k) /\ FbCounted(packets, f, k) /\ FbTimed(packets, f, k) /\ FbWatched(packets, f, k)
  <1>1. PICK tcp : tcp = FbSequencer
    OBVIOUS
  <1>2. tcp \in FbTcp /\ tcp.resets = 0 /\ tcp.syn = 0 /\ tcp.synRetrans = 0 /\ tcp.dataRetrans = 0
        /\ tcp.sawSynAck = FALSE
    <2>1. [d \in {"f", "r"} |-> NoSeq] \in [{"f", "r"} -> Int]
      BY DEF NoSeq
    <2> QED
      BY <1>1, <2>1 DEF FbSequencer, FbTcp
  <1>3. f = [src |-> p.src, dst |-> p.dst, transport |-> p.transport, first |-> p.at, last |-> p.at,
             packets |-> 0, bytes |-> 0, forward |-> 0, reverse |-> 0, votes |-> <<>>,
             tcp |-> tcp, refs |-> <<>>]
    BY <1>1 DEF FbNewFlow
  <1>4. /\ p.at \in Int /\ p.src \in Int \X Int /\ p.dst \in Int \X Int /\ p.transport \in STRING
    BY ExPacketFields
  <1>5. f \in FbFlow
    BY <1>2, <1>3, <1>4 DEF FbFlow
  <1>6. FbAbout(f, k)
    BY <1>3, <1>5, FbKeyEnds DEF FbAbout
  <1>7. FbCounted(packets, f, k)
    <2>1. ToSet(f.refs) = {} /\ f.packets = 0 /\ f.forward = 0 /\ f.reverse = 0
      BY <1>3 DEF ToSet
    <2>2. FbSent(packets, k) = {}
      BY DEF FbSent
    <2> QED
      BY <2>1, <2>2, FS_EmptySet DEF FbCounted
  <1>8. FbTimed(packets, f, k)
    BY DEF FbTimed
  <1>9. FbWatched(packets, f, k)
    <2>1. \A flags : ~FbHas(packets, k, flags)
      BY DEF FbHas
    <2>2. f.tcp = tcp /\ f.packets = 0
      BY <1>3
    <2> QED
      BY <1>2, <2>1, <2>2 DEF FbWatched
  <1> QED
    BY <1>6, <1>7, <1>8, <1>9

LEMMA FbStep ==
    ASSUME NEW packets, NEW p, NEW more, NEW n, ExGrown(packets, p, more, n),
           NEW flows, FbFlowsOf(packets, flows), NEW added, added = FbAddPacket(flows, p, n)
    PROVE  FbFlowsOf(more, added)
  <1>1. /\ packets \in Seq(ExPacket) /\ p \in ExPacket
        /\ DOMAIN more = DOMAIN packets \cup {n} /\ n \notin DOMAIN packets
        /\ more[n] = p /\ \A i \in DOMAIN packets : more[i] = packets[i]
    BY PacketsAppended
  <1>2. ASSUME NEW x \in DOMAIN flows, ~(FbEligible(p) /\ FbKey(p) = x)
        PROVE  /\ FbMine(more, x) # {}
               /\ FbAbout(flows[x], x) /\ FbCounted(more, flows[x], x)
               /\ FbTimed(more, flows[x], x) /\ FbWatched(more, flows[x], x)
    <2>1. PICK f : f = flows[x]
      OBVIOUS
    <2>2. /\ FbMine(packets, x) # {} /\ FbAbout(f, x) /\ FbCounted(packets, f, x)
          /\ FbTimed(packets, f, x) /\ FbWatched(packets, f, x)
      BY <2>1 DEF FbFlowsOf
    <2> QED
      BY <1>2, <2>1, <2>2, FbOther
  <1>3. \A i \in DOMAIN packets : FbEligible(packets[i]) => FbKey(packets[i]) \in DOMAIN flows
    BY DEF FbFlowsOf
  <1>4. CASE ~FbEligible(p)
    <2>1. added = flows
      BY <1>4 DEF FbAddPacket
    <2> QED
      BY <1>1, <1>2, <1>3, <1>4, <2>1 DEF FbFlowsOf
  <1>5. CASE FbEligible(p)
    <2>1. PICK k : k = FbKey(p)
      OBVIOUS
    <2>2. PICK f : f = IF k \in DOMAIN flows THEN flows[k] ELSE FbNewFlow(p)
      OBVIOUS
    <2>3. PICK g : g = FbAccumulate(f, p, n, p.src = k[1])
      OBVIOUS
    <2>4. added = [x \in DOMAIN flows \cup {k} |-> IF x = k THEN g ELSE flows[x]]
      BY <1>5, <2>1, <2>2, <2>3 DEF FbAddPacket
    <2>5. FbAbout(f, k) /\ FbCounted(packets, f, k) /\ FbTimed(packets, f, k) /\ FbWatched(packets, f, k)
      <3>1. CASE k \in DOMAIN flows
        BY <2>2, <3>1 DEF FbFlowsOf
      <3>2. CASE k \notin DOMAIN flows
        <4>1. FbMine(packets, k) = {}
          BY <1>3, <3>2 DEF FbMine
        <4> QED
          BY <1>1, <2>1, <2>2, <3>2, <4>1, FbBegins
      <3> QED
        BY <3>1, <3>2
    <2>6. /\ FbMine(more, k) # {}
          /\ FbAbout(g, k) /\ FbCounted(more, g, k) /\ FbTimed(more, g, k) /\ FbWatched(more, g, k)
      BY <1>5, <2>1, <2>3, <2>5, FbOwn
    <2>7. ASSUME NEW x \in DOMAIN added
          PROVE  /\ FbMine(more, x) # {}
                 /\ FbAbout(added[x], x) /\ FbCounted(more, added[x], x)
                 /\ FbTimed(more, added[x], x) /\ FbWatched(more, added[x], x)
      <3>1. CASE x = k
        BY <2>4, <2>6, <3>1
      <3>2. CASE x # k
        BY <1>2, <2>1, <2>4, <2>7, <3>2
      <3> QED
        BY <3>1, <3>2
    <2>8. \A i \in DOMAIN more : FbEligible(more[i]) => FbKey(more[i]) \in DOMAIN added
      BY <1>1, <1>3, <2>1, <2>4
    <2> QED
      BY <2>7, <2>8 DEF FbFlowsOf
  <1> QED
    BY <1>4, <1>5

(* The list of flows.                                                          *)
FbListed(f) ==
    [src |-> f.src, dst |-> f.dst, transport |-> f.transport, app |-> FbApp(f),
     first |-> f.first, last |-> f.last, packets |-> f.packets, bytes |-> f.bytes,
     forward |-> f.forward, reverse |-> f.reverse, direction |-> FbDirection(f),
     state |-> FbState(f), failed |-> FbFailed(f), resets |-> f.tcp.resets,
     retrans |-> f.tcp.synRetrans + f.tcp.dataRetrans, refs |-> f.refs]

LEMMA FbBuilt ==
    ASSUME NEW flows
    PROVE  /\ \A k \in DOMAIN flows : FbListed(flows[k]) \in FbBuild(flows)
           /\ \A f \in FbBuild(flows) : \E k \in DOMAIN flows : f = FbListed(flows[k])
  BY DEF FbBuild, FbListed

(* What FbConversations says of one flow.                                      *)
FbBetween(f) ==
    {i \in DOMAIN exPackets : /\ FbEligible(exPackets[i]) /\ exPackets[i].transport = f.transport
                              /\ {exPackets[i].src, exPackets[i].dst} = {f.src, f.dst}}
FbConversation(f, both) ==
    /\ ToSet(f.refs) = both
    /\ f.packets = Cardinality(both)
    /\ {f.forward, f.reverse} = {Cardinality({i \in both : exPackets[i].src = f.src}),
                                 Cardinality({i \in both : exPackets[i].src # f.src})}
    /\ \A i \in both : f.first <= exPackets[i].at /\ exPackets[i].at <= f.last
    /\ f.failed <=>
          /\ f.transport = "TCP"
          /\ \E i \in both : "SYN" \in exPackets[i].flags
          /\ ~\E i \in both : {"SYN", "ACK"} \subseteq exPackets[i].flags

LEMMA FbOneByOne ==
    ASSUME \A f \in FbBuild(exFlows) : FbConversation(f, FbBetween(f)),
           {i \in DOMAIN exPackets : FbEligible(exPackets[i])} = UNION {ToSet(f.refs) : f \in FbBuild(exFlows)}
    PROVE  FbConversations
  BY DEF FbConversations, FbConversation, FbBetween, ExRefs

LEMMA FbListedFields ==
    ASSUME NEW f, NEW g, g = FbListed(f)
    PROVE  /\ g.src = f.src /\ g.dst = f.dst /\ g.transport = f.transport /\ g.refs = f.refs
           /\ g.packets = f.packets /\ g.forward = f.forward /\ g.reverse = f.reverse
           /\ g.first = f.first /\ g.last = f.last /\ g.failed = FbFailed(f) /\ g.state = FbState(f)
           /\ g.direction = FbDirection(f) /\ g.resets = f.tcp.resets
           /\ g.retrans = f.tcp.synRetrans + f.tcp.dataRetrans /\ g.bytes = f.bytes /\ g.app = FbApp(f)
  BY DEF FbListed

(* The packets between the ends of a flow are those of its key.                *)
LEMMA FbMineBetween ==
    ASSUME exPackets \in Seq(ExPacket), FbFlowsOf(exPackets, exFlows), NEW k \in DOMAIN exFlows,
           NEW f, f = exFlows[k], NEW g, g = FbListed(f)
    PROVE  FbBetween(g) = FbMine(exPackets, k)
  <1>1. FbMine(exPackets, k) # {} /\ FbAbout(f, k)
    BY DEF FbFlowsOf
  <1>2. PICK j \in DOMAIN exPackets : FbEligible(exPackets[j]) /\ FbKey(exPackets[j]) = k
    BY <1>1 DEF FbMine
  <1>3. PICK q : q = exPackets[j]
    OBVIOUS
  <1>4. q \in ExPacket /\ FbKey(q) = k
    BY <1>2, <1>3
  <1>5. k[3] = q.transport /\ ((q.src = k[1] /\ q.dst = k[2]) \/ (q.src = k[2] /\ q.dst = k[1]))
    BY <1>4, FbKeyEnds
  <1>6. g.transport = q.transport /\ {g.src, g.dst} = {q.src, q.dst}
    <2>1. g.src = f.src /\ g.dst = f.dst /\ g.transport = f.transport
      BY FbListedFields
    <2> QED
      BY <1>1, <1>5, <2>1 DEF FbAbout
  <1>7. ASSUME NEW i \in DOMAIN exPackets
        PROVE  i \in FbBetween(g) <=> i \in FbMine(exPackets, k)
    <2>1. PICK p : p = exPackets[i]
      OBVIOUS
    <2>2. p \in ExPacket
      BY <2>1
    <2>3. FbKey(p) = k <=> p.transport = q.transport /\ {p.src, p.dst} = {q.src, q.dst}
      BY <1>4, <2>2, FbSameKey
    <2>4. i \in FbBetween(g) <=> FbEligible(p) /\ p.transport = g.transport /\ {p.src, p.dst} = {g.src, g.dst}
      BY <2>1 DEF FbBetween
    <2>5. i \in FbMine(exPackets, k) <=> FbEligible(p) /\ FbKey(p) = k
      BY <2>1 DEF FbMine
    <2> QED
      BY <1>6, <2>3, <2>4, <2>5
  <1>8. FbBetween(g) \subseteq DOMAIN exPackets /\ FbMine(exPackets, k) \subseteq DOMAIN exPackets
    BY DEF FbBetween, FbMine
  <1> QED
    BY <1>7, <1>8

LEMMA FbConverse ==
    ASSUME exPackets \in Seq(ExPacket), FbFlowsOf(exPackets, exFlows), NEW k \in DOMAIN exFlows,
           NEW f, f = exFlows[k], NEW g, g = FbListed(f), NEW both, both = FbMine(exPackets, k)
    PROVE  FbConversation(g, both)
  <1>1. /\ FbAbout(f, k) /\ FbCounted(exPackets, f, k) /\ FbTimed(exPackets, f, k)
        /\ FbWatched(exPackets, f, k)
    BY DEF FbFlowsOf
  <1>2. /\ g.src = f.src /\ g.dst = f.dst /\ g.transport = f.transport /\ g.refs = f.refs
        /\ g.packets = f.packets /\ g.forward = f.forward /\ g.reverse = f.reverse
        /\ g.first = f.first /\ g.last = f.last /\ g.failed = FbFailed(f)
    BY FbListedFields
  <1>3. ToSet(g.refs) = both /\ g.packets = Cardinality(both)
    BY <1>1, <1>2 DEF FbCounted
  <1>4. \A i \in both : g.first <= exPackets[i].at /\ exPackets[i].at <= g.last
    BY <1>1, <1>2 DEF FbTimed
  <1>5. g.failed <=> /\ g.transport = "TCP"
                     /\ \E i \in both : "SYN" \in exPackets[i].flags
                     /\ ~\E i \in both : {"SYN", "ACK"} \subseteq exPackets[i].flags
    <2>1. f.transport = "TCP" => /\ (f.tcp.syn > 0 <=> FbHas(exPackets, k, {"SYN"}))
                                 /\ (f.tcp.sawSynAck <=> FbHas(exPackets, k, {"SYN", "ACK"}))
      BY <1>1 DEF FbWatched
    <2>2. FbHas(exPackets, k, {"SYN"}) <=> \E i \in both : "SYN" \in exPackets[i].flags
      BY DEF FbHas
    <2>3. FbHas(exPackets, k, {"SYN", "ACK"}) <=> \E i \in both : {"SYN", "ACK"} \subseteq exPackets[i].flags
      BY DEF FbHas
    <2>4. g.failed <=> f.transport = "TCP" /\ f.tcp.syn > 0 /\ ~f.tcp.sawSynAck
      BY <1>2, Zenon DEF FbFailed
    <2> QED
      BY <1>2, <2>1, <2>2, <2>3, <2>4, Zenon
  <1>6. {g.forward, g.reverse} = {Cardinality({i \in both : exPackets[i].src = g.src}),
                                  Cardinality({i \in both : exPackets[i].src # g.src})}
    <2>1. PICK A : A = {i \in both : exPackets[i].src = g.src}
      OBVIOUS
    <2>2. PICK B : B = {i \in both : exPackets[i].src # g.src}
      OBVIOUS
    <2>3. PICK S : S = FbSent(exPackets, k)
      OBVIOUS
    <2>4. g.forward = Cardinality(S) /\ g.reverse = Cardinality(both \ S)
      BY <1>1, <1>2, <2>3 DEF FbCounted
    <2>5. S = {i \in both : exPackets[i].src = k[1]}
      BY <2>3 DEF FbSent
    <2>6. (g.src = k[1] /\ g.dst = k[2]) \/ (g.src = k[2] /\ g.dst = k[1])
      BY <1>1, <1>2 DEF FbAbout
    <2>7. ASSUME NEW i \in both PROVE exPackets[i].src = k[1] \/ exPackets[i].src = k[2]
      <3>1. PICK p : p = exPackets[i]
        OBVIOUS
      <3>2. p \in ExPacket /\ k = FbKey(p)
        BY <3>1 DEF FbMine
      <3> QED
        BY <3>1, <3>2, FbKeyEnds
    <2>8. CASE g.src = k[1]
      <3>1. A = S /\ B = both \ S
        BY <2>1, <2>2, <2>5, <2>8
      <3> QED
        BY <2>1, <2>2, <2>4, <3>1
    <2>9. CASE g.src = k[2] /\ k[1] # k[2]
      <3>1. A = both \ S /\ B = S
        BY <2>1, <2>2, <2>5, <2>7, <2>9
      <3> QED
        BY <2>1, <2>2, <2>4, <3>1
    <2> QED
      BY <2>6, <2>8, <2>9
  <1> QED
    BY <1>3, <1>4, <1>5, <1>6 DEF FbConversation

LEMMA FbFlowsConverse ==
    ASSUME exPackets \in Seq(ExPacket), FbFlowsOf(exPackets, exFlows)
    PROVE  FbConversations
  <1>1. ASSUME NEW g \in FbBuild(exFlows) PROVE FbConversation(g, FbBetween(g))
    <2>1. PICK k \in DOMAIN exFlows : g = FbListed(exFlows[k])
      BY FbBuilt
    <2> QED
      BY <2>1, FbMineBetween, FbConverse
  <1>2. ASSUME NEW i \in DOMAIN exPackets, FbEligible(exPackets[i])
        PROVE  \E g \in FbBuild(exFlows) : i \in ToSet(g.refs)
    <2>1. PICK k : k = FbKey(exPackets[i])
      OBVIOUS
    <2>2. k \in DOMAIN exFlows /\ i \in FbMine(exPackets, k)
      BY <1>2, <2>1 DEF FbFlowsOf, FbMine
    <2>3. PICK g : g = FbListed(exFlows[k])
      OBVIOUS
    <2>4. FbConversation(g, FbMine(exPackets, k)) /\ g \in FbBuild(exFlows)
      BY <2>2, <2>3, FbConverse, FbBuilt
    <2> QED
      BY <2>2, <2>4 DEF FbConversation
  <1>3. ASSUME NEW g \in FbBuild(exFlows), NEW i \in ToSet(g.refs)
        PROVE  i \in DOMAIN exPackets /\ FbEligible(exPackets[i])
    <2>1. ToSet(g.refs) = FbBetween(g)
      BY <1>1 DEF FbConversation
    <2> QED
      BY <2>1 DEF FbBetween
  <1>4. {i \in DOMAIN exPackets : FbEligible(exPackets[i])} = UNION {ToSet(f.refs) : f \in FbBuild(exFlows)}
    BY <1>2, <1>3
  <1> QED
    BY <1>1, <1>4, FbOneByOne

-----------------------------------------------------------------------------
(* Transactions.  Each protocol reads the packets as a list of events under    *)
(* keys: a question, an answer, or neither.                                    *)
TxEvent(p, kinds, key) ==
    [kind |-> IF p.hint.kind = kinds[1] THEN "ask" ELSE IF p.hint.kind = kinds[2] THEN "reply" ELSE "other",
     key |-> key]
TxDnsEvents(packets) ==
    [i \in DOMAIN packets |-> TxEvent(packets[i], <<"query", "answer">>, TxDnsKey(packets[i]))]
TxHttpEvents(packets) ==
    [i \in DOMAIN packets |-> TxEvent(packets[i], <<"request", "status">>, TxHttpKey(packets[i]))]

TxAddresses == {A \in SUBSET Int : IsFiniteSet(A)}
TxTxn ==
    [client : Int, server : Int, request : Nat, reply : Nat, at : Int, latency : Int, code : Int,
     answers : TxAddresses, ref : Nat, name : STRING \cup {NoName}]

(* Nothing is asked or answered under the key between the two.                 *)
TxQuiet(ev, k, i, j) ==
    \A n \in DOMAIN ev : i < n /\ n < j => ev[n].kind = "other" \/ ev[n].key # k

TxPair(ev, i, j) ==
    /\ i \in DOMAIN ev /\ j \in DOMAIN ev /\ i < j
    /\ ev[i].kind = "ask" /\ ev[j].kind = "reply" /\ ev[i].key = ev[j].key
    /\ TxQuiet(ev, ev[i].key, i, j)

TxLast(ev, i, last) == i \in DOMAIN ev /\ ev[i].kind = "ask" /\ TxQuiet(ev, ev[i].key, i, last + 1)

(* Waiting is what was asked last under its key; done is every answer, with    *)
(* the question right before it.                                               *)
TxWaiting(ev, s, last) ==
    /\ \A k \in DOMAIN s.waiting :
          /\ s.waiting[k] \in TxTxn /\ s.waiting[k].reply = 0
          /\ TxLast(ev, s.waiting[k].request, last) /\ ev[s.waiting[k].request].key = k
    /\ \A i \in DOMAIN ev : TxLast(ev, i, last) => ev[i].key \in DOMAIN s.waiting
TxDone(ev, done) ==
    /\ \A t \in done :
          /\ t \in TxTxn /\ t.reply \in DOMAIN ev /\ ev[t.reply].kind = "reply"
          /\ t.request # 0 => TxPair(ev, t.request, t.reply)
    /\ \A t, u \in done : t.reply = u.reply => t = u
    /\ \A j \in DOMAIN ev : ev[j].kind = "reply" => \E t \in done : t.reply = j
    /\ \A i, j \in DOMAIN ev : TxPair(ev, i, j) => \E t \in done : t.request = i /\ t.reply = j
TxOf(ev, s, last) ==
    /\ last \in Nat /\ DOMAIN ev = 1 .. last
    /\ s = [waiting |-> s.waiting, done |-> s.done]
    /\ TxWaiting(ev, s, last) /\ TxDone(ev, s.done)

(* One event more.                                                             *)
TxGrown(ev, e, more, n) ==
    /\ n \in Nat \ {0} /\ DOMAIN ev = 1 .. n - 1
    /\ DOMAIN more = 1 .. n /\ more[n] = e /\ \A i \in DOMAIN ev : more[i] = ev[i]

LEMMA TxGrownDomain ==
    ASSUME NEW ev, NEW e, NEW more, NEW n, TxGrown(ev, e, more, n)
    PROVE  /\ n \in Nat /\ DOMAIN more = DOMAIN ev \cup {n} /\ n \notin DOMAIN ev
           /\ \A i \in DOMAIN ev : i \in Nat /\ i # 0 /\ i < n /\ more[i] = ev[i]
           /\ more[n] = e
  BY DEF TxGrown

LEMMA TxGrownFacts ==
    ASSUME NEW ev, NEW e, NEW more, NEW n, TxGrown(ev, e, more, n)
    PROVE  /\ \A i, j \in DOMAIN ev : TxPair(more, i, j) <=> TxPair(ev, i, j)
           /\ \A i \in DOMAIN ev :
                 TxLast(more, i, n) <=> TxLast(ev, i, n - 1) /\ (e.kind = "other" \/ e.key # ev[i].key)
           /\ \A i \in DOMAIN ev :
                 TxPair(more, i, n) <=> TxLast(ev, i, n - 1) /\ e.kind = "reply" /\ e.key = ev[i].key
           /\ TxLast(more, n, n) <=> e.kind = "ask"
           /\ \A j \in DOMAIN more : ~TxPair(more, n, j)
  <1>1. /\ n \in Nat /\ n # 0 /\ DOMAIN more = DOMAIN ev \cup {n} /\ n \notin DOMAIN ev
        /\ \A i \in DOMAIN ev : i \in Nat /\ i # 0 /\ i < n /\ more[i] = ev[i]
        /\ more[n] = e
    BY DEF TxGrown
  <1>2. ASSUME NEW i \in DOMAIN ev, NEW j \in DOMAIN ev, NEW k
        PROVE  TxQuiet(more, k, i, j) <=> TxQuiet(ev, k, i, j)
    BY <1>1 DEF TxQuiet
  <1>3. ASSUME NEW i \in DOMAIN ev, NEW j \in DOMAIN ev
        PROVE  TxPair(more, i, j) <=> TxPair(ev, i, j)
    BY <1>1, <1>2 DEF TxPair
  <1>4. ASSUME NEW i \in DOMAIN ev, NEW k
        PROVE  /\ TxQuiet(more, k, i, n) <=> TxQuiet(ev, k, i, (n - 1) + 1)
               /\ TxQuiet(more, k, i, n + 1)
                     <=> TxQuiet(ev, k, i, (n - 1) + 1) /\ (e.kind = "other" \/ e.key # k)
    BY <1>1 DEF TxQuiet
  <1>5. ASSUME NEW i \in DOMAIN ev
        PROVE  TxLast(more, i, n) <=> TxLast(ev, i, n - 1) /\ (e.kind = "other" \/ e.key # ev[i].key)
    BY <1>1, <1>4 DEF TxLast
  <1>6. ASSUME NEW i \in DOMAIN ev
        PROVE  TxPair(more, i, n) <=> TxLast(ev, i, n - 1) /\ e.kind = "reply" /\ e.key = ev[i].key
    BY <1>1, <1>4 DEF TxLast, TxPair
  <1>7. TxLast(more, n, n) <=> e.kind = "ask"
    <2>1. \A j \in DOMAIN more : ~(n < j /\ j < n + 1)
      BY <1>1
    <2> QED
      BY <1>1, <2>1 DEF TxLast, TxQuiet
  <1>8. \A j \in DOMAIN more : ~(n < j)
    BY <1>1
  <1>9. \A j \in DOMAIN more : ~TxPair(more, n, j)
    BY <1>8 DEF TxPair
  <1> QED
    BY <1>1, <1>3, <1>5, <1>6, <1>7, <1>9

LEMMA TxTxnFields ==
    ASSUME NEW t \in TxTxn
    PROVE  /\ t.request \in Nat /\ t.reply \in Nat /\ t.at \in Int /\ t.client \in Int /\ t.server \in Int
           /\ t.latency \in Int /\ t.code \in Int /\ t.answers \in TxAddresses /\ t.ref \in Nat
           /\ t.name \in STRING \cup {NoName}
  BY DEF TxTxn

(* Answers that were given stay as they are while no answer comes.             *)
LEMMA TxDoneStays ==
    ASSUME NEW ev, NEW e, NEW more, NEW n, TxGrown(ev, e, more, n), e.kind # "reply",
           NEW done, TxDone(ev, done)
    PROVE  TxDone(more, done)
  <1>1. /\ n \in Nat /\ DOMAIN more = DOMAIN ev \cup {n} /\ n \notin DOMAIN ev
        /\ \A i \in DOMAIN ev : i \in Nat /\ i # 0 /\ i < n /\ more[i] = ev[i]
        /\ more[n] = e
    BY TxGrownDomain
  <1>6. /\ \A i, j \in DOMAIN ev : TxPair(more, i, j) <=> TxPair(ev, i, j)
        /\ \A i \in DOMAIN ev : ~TxPair(more, i, n)
        /\ \A j \in DOMAIN more : ~TxPair(more, n, j)
    BY TxGrownFacts
  <1>2. ASSUME NEW t \in done
        PROVE  /\ t \in TxTxn /\ t.reply \in DOMAIN more /\ more[t.reply].kind = "reply"
               /\ t.request # 0 => TxPair(more, t.request, t.reply)
    <2>1. /\ t \in TxTxn /\ t.reply \in DOMAIN ev /\ ev[t.reply].kind = "reply"
          /\ t.request # 0 => TxPair(ev, t.request, t.reply)
      BY DEF TxDone
    <2> QED
      BY <1>1, <1>6, <2>1 DEF TxPair
  <1>3. \A t, v \in done : t.reply = v.reply => t = v
    BY DEF TxDone
  <1>4. \A j \in DOMAIN more : more[j].kind = "reply" => \E t \in done : t.reply = j
    BY <1>1 DEF TxDone
  <1>5. \A i, j \in DOMAIN more : TxPair(more, i, j) => \E t \in done : t.request = i /\ t.reply = j
    BY <1>1, <1>6 DEF TxDone
  <1> QED
    BY <1>2, <1>3, <1>4, <1>5 DEF TxDone

LEMMA TxOtherStep ==
    ASSUME NEW ev, NEW e, NEW more, NEW n, TxGrown(ev, e, more, n), e.kind = "other",
           NEW s, TxOf(ev, s, n - 1)
    PROVE  TxOf(more, s, n)
  <1>1. /\ n \in Nat /\ DOMAIN more = DOMAIN ev \cup {n} /\ n \notin DOMAIN ev
        /\ \A i \in DOMAIN ev : i \in Nat /\ i # 0 /\ i < n /\ more[i] = ev[i]
        /\ more[n] = e
    BY TxGrownDomain
  <1>7. \A i \in DOMAIN ev : TxLast(more, i, n) <=> TxLast(ev, i, n - 1)
    <2>1. \A i \in DOMAIN ev :
             TxLast(more, i, n) <=> TxLast(ev, i, n - 1) /\ (e.kind = "other" \/ e.key # ev[i].key)
      BY TxGrownFacts
    <2> QED
      BY <2>1
  <1>2. TxDone(more, s.done)
    BY TxDoneStays DEF TxOf
  <1>3. TxWaiting(more, s, n)
    <2>1. ASSUME NEW k \in DOMAIN s.waiting
          PROVE  /\ s.waiting[k] \in TxTxn /\ s.waiting[k].reply = 0
                 /\ TxLast(more, s.waiting[k].request, n) /\ more[s.waiting[k].request].key = k
      <3>1. PICK i : i = s.waiting[k].request
        OBVIOUS
      <3>2. s.waiting[k] \in TxTxn /\ s.waiting[k].reply = 0 /\ TxLast(ev, i, n - 1) /\ ev[i].key = k
        BY <3>1 DEF TxOf, TxWaiting
      <3>3. i \in DOMAIN ev
        BY <3>2 DEF TxLast
      <3> QED
        BY <1>1, <1>7, <3>1, <3>2, <3>3
    <2>2. \A i \in DOMAIN more : TxLast(more, i, n) => more[i].key \in DOMAIN s.waiting
      <3>1. ~TxLast(more, n, n)
        BY <1>1 DEF TxLast
      <3> QED
        BY <1>1, <1>7, <3>1 DEF TxOf, TxWaiting
    <2> QED
      BY <2>1, <2>2 DEF TxWaiting
  <1> QED
    BY <1>1, <1>2, <1>3 DEF TxOf, TxGrown

TxAsking(txn, n) == txn \in TxTxn /\ txn.request = n /\ txn.reply = 0

LEMMA TxPutStep ==
    ASSUME NEW ev, NEW e, NEW more, NEW n, TxGrown(ev, e, more, n), e.kind = "ask",
           NEW s, TxOf(ev, s, n - 1), NEW txn, TxAsking(txn, n)
    PROVE  TxOf(more, TxPut(s, e.key, txn), n)
  <1>1. /\ n \in Nat /\ DOMAIN more = DOMAIN ev \cup {n} /\ n \notin DOMAIN ev
        /\ \A i \in DOMAIN ev : i \in Nat /\ i # 0 /\ i < n /\ more[i] = ev[i]
        /\ more[n] = e
    BY TxGrownDomain
  <1>7. /\ \A i \in DOMAIN ev : TxLast(more, i, n) <=> TxLast(ev, i, n - 1) /\ e.key # ev[i].key
        /\ TxLast(more, n, n)
    BY TxGrownFacts
  <1>2. PICK w : w = [k \in DOMAIN s.waiting \cup {e.key} |-> IF k = e.key THEN txn ELSE s.waiting[k]]
    OBVIOUS
  <1>0. PICK u : u = TxPut(s, e.key, txn)
    OBVIOUS
  <1>3. u = [waiting |-> w, done |-> s.done]
    <2>1. s = [waiting |-> s.waiting, done |-> s.done]
      BY DEF TxOf
    <2> QED
      BY <1>0, <1>2, <2>1 DEF TxPut
  <1>4. u.waiting = w /\ u.done = s.done
    BY <1>3
  <1>5. TxDone(more, u.done)
    BY <1>4, TxDoneStays DEF TxOf
  <1>6. TxWaiting(more, u, n)
    <2>1. ASSUME NEW k \in DOMAIN w
          PROVE  /\ w[k] \in TxTxn /\ w[k].reply = 0
                 /\ TxLast(more, w[k].request, n) /\ more[w[k].request].key = k
      <3>1. CASE k = e.key
        BY <1>1, <1>2, <1>7, <3>1 DEF TxAsking
      <3>2. CASE k # e.key
        <4>1. PICK i : i = s.waiting[k].request
          OBVIOUS
        <4>2. k \in DOMAIN s.waiting /\ w[k] = s.waiting[k]
          BY <1>2, <2>1, <3>2
        <4>3. s.waiting[k] \in TxTxn /\ s.waiting[k].reply = 0 /\ TxLast(ev, i, n - 1) /\ ev[i].key = k
          BY <4>1, <4>2 DEF TxOf, TxWaiting
        <4>4. i \in DOMAIN ev
          BY <4>3 DEF TxLast
        <4> QED
          BY <1>1, <1>7, <3>2, <4>1, <4>2, <4>3, <4>4
      <3> QED
        BY <3>1, <3>2
    <2>2. \A i \in DOMAIN more : TxLast(more, i, n) => more[i].key \in DOMAIN w
      BY <1>1, <1>2, <1>7 DEF TxOf, TxWaiting
    <2> QED
      BY <1>4, <2>1, <2>2 DEF TxWaiting
  <1> QED
    BY <1>0, <1>1, <1>3, <1>4, <1>5, <1>6 DEF TxOf, TxGrown

(* A latency is rounded by half the grain at most.                             *)
LEMMA Division ==
    ASSUME NEW n \in Int, NEW grain \in Nat \ {0}
    PROVE  /\ n \div grain \in Int /\ n % grain \in Int /\ 0 <= n % grain /\ n % grain < grain
           /\ n = grain * (n \div grain) + (n % grain)
  <1>1. n \div grain \in Int /\ n % grain \in Int /\ 0 <= n % grain /\ n % grain < grain
    OBVIOUS
  <1>2. n = grain * (n \div grain) + (n % grain)
    OBVIOUS
  <1> QED
    BY <1>1, <1>2

LEMMA NextMultiple ==
    ASSUME NEW q \in Int, NEW grain \in Nat \ {0}
    PROVE  grain * q \in Int /\ grain * (q + 1) = grain * q + grain
  OBVIOUS

LEMMA TxRounded ==
    ASSUME NEW n \in Int
    PROVE  TxRound(n) \in Int /\ 2 * (TxRound(n) - n) \in -TxGrain .. TxGrain
  <1>1. TxGrain \in Nat \ {0}
    BY TxAssumption
  <1>2. PICK below : below = n \div TxGrain
    OBVIOUS
  <1>3. PICK rest : rest = n % TxGrain
    OBVIOUS
  <1>4. /\ below \in Int /\ rest \in Int /\ 0 <= rest /\ rest < TxGrain
        /\ n = TxGrain * below + rest
    BY <1>1, <1>2, <1>3, Division
  <1>5. PICK low : low = TxGrain * below
    OBVIOUS
  <1>6. low \in Int /\ TxGrain * (below + 1) = low + TxGrain
    BY <1>1, <1>4, <1>5, NextMultiple
  <1>7. \/ TxRound(n) = low /\ 2 * rest <= TxGrain
        \/ TxRound(n) = low + TxGrain /\ 2 * rest >= TxGrain
    <2>1. CASE 2 * rest < TxGrain
      BY <1>1, <1>2, <1>3, <1>4, <1>5, <2>1 DEF TxRound
    <2>2. CASE 2 * rest = TxGrain
      BY <1>1, <1>2, <1>3, <1>4, <1>5, <1>6, <2>2 DEF TxRound
    <2>3. CASE 2 * rest > TxGrain
      BY <1>1, <1>2, <1>3, <1>4, <1>5, <1>6, <2>3 DEF TxRound
    <2> QED
      BY <1>1, <1>4, <2>1, <2>2, <2>3
  <1>8. PICK r : r = TxRound(n)
    OBVIOUS
  <1>9. n = low + rest
    BY <1>4, <1>5
  <1> QED
    BY <1>1, <1>4, <1>6, <1>7, <1>8, <1>9

TxNear(at, p) == 2 * (at - p.at) \in -TxGrain .. TxGrain
TxClosing(t, p, n, closed) ==
    t \in TxTxn /\ p \in ExPacket /\ n \in Nat /\ closed = TxClose(t, p, n)

LEMMA TxClosed ==
    ASSUME NEW t, NEW p, NEW n, NEW closed, TxClosing(t, p, n, closed)
    PROVE  /\ closed \in TxTxn /\ closed.request = t.request /\ closed.reply = n
           /\ closed.ref = t.ref /\ closed.at = t.at /\ closed.name = t.name
           /\ closed.client = t.client /\ closed.server = t.server
           /\ t.request # 0 \/ t.at = p.at => TxNear(closed.at + closed.latency, p)
           /\ closed.answers = p.hint.answers
  <1>1. p.at \in Int /\ p.hint \in ExHint
    BY ExPacketFields DEF TxClosing
  <1>2. p.hint.code \in Int /\ p.hint.answers \in TxAddresses
    BY <1>1 DEF ExHint, TxAddresses
  <1>3. PICK latency : latency = IF t.request = 0 THEN 0 ELSE TxRound(p.at - t.at)
    OBVIOUS
  <1>4. /\ t.request \in Nat /\ t.at \in Int /\ t.client \in Int /\ t.server \in Int /\ t.ref \in Nat
        /\ t.name \in STRING \cup {NoName}
    BY TxTxnFields DEF TxClosing
  <1>5. closed = [client |-> t.client, server |-> t.server, request |-> t.request, reply |-> n, at |-> t.at,
                  latency |-> latency, code |-> p.hint.code, answers |-> p.hint.answers, ref |-> t.ref,
                  name |-> t.name]
    BY <1>3 DEF TxClosing, TxClose, TxTxn
  <1>6. /\ latency \in Int
        /\ t.request # 0 \/ t.at = p.at => 2 * ((t.at + latency) - p.at) \in -TxGrain .. TxGrain
    <2>1. PICK late : late = p.at - t.at
      OBVIOUS
    <2>2. PICK rounded : rounded = TxRound(late)
      OBVIOUS
    <2>3. late \in Int
      BY <1>1, <1>4, <2>1
    <2>4. rounded \in Int /\ 2 * (rounded - late) \in -TxGrain .. TxGrain
      BY <2>2, <2>3, TxRounded
    <2>5. rounded - late = (t.at + rounded) - p.at
      BY <1>1, <1>4, <2>1, <2>4
    <2>6. latency = IF t.request = 0 THEN 0 ELSE rounded
      BY <1>3, <2>1, <2>2
    <2>7. TxGrain \in Nat
      BY TxAssumption
    <2>8. CASE t.request = 0
      <3>1. latency = 0 /\ latency \in Int
        BY <2>6, <2>8
      <3>2. t.at = p.at => 2 * ((t.at + latency) - p.at) = 0
        BY <1>1, <3>1
      <3>3. 0 \in -TxGrain .. TxGrain
        BY <2>7
      <3> QED
        BY <2>8, <3>1, <3>2, <3>3
    <2>9. CASE t.request # 0
      BY <2>4, <2>5, <2>6, <2>9
    <2> QED
      BY <2>8, <2>9
  <1>7. closed \in TxTxn
    <2>1. n \in Nat /\ latency \in Int
      BY <1>6 DEF TxClosing
    <2> QED
      BY <1>2, <1>4, <1>5, <2>1 DEF TxTxn
  <1>8. closed.at = t.at /\ closed.latency = latency /\ closed.answers = p.hint.answers
    BY <1>5
  <1>9. t.request # 0 \/ t.at = p.at => TxNear(closed.at + closed.latency, p)
    <2>1. t.request # 0 \/ t.at = p.at => TxNear(t.at + latency, p)
      BY <1>6 DEF TxNear
    <2>2. closed.at + closed.latency = t.at + latency
      BY <1>8
    <2>3. ASSUME t.request # 0 \/ t.at = p.at PROVE TxNear(closed.at + closed.latency, p)
      BY <2>1, <2>2, <2>3
    <2> QED
      BY <2>3
  <1> QED
    BY <1>5, <1>7, <1>8, <1>9

TxOpening(open) == open \in TxTxn /\ open.request = 0 /\ open.reply = 0

LEMMA TxTakeStep ==
    ASSUME NEW ev, NEW e, NEW more, NEW n, TxGrown(ev, e, more, n), e.kind = "reply",
           NEW s, TxOf(ev, s, n - 1), NEW open, TxOpening(open), NEW p \in ExPacket
    PROVE  TxOf(more, TxTake(s, e.key, open, p, n), n)
  <1>1. /\ n \in Nat /\ DOMAIN more = DOMAIN ev \cup {n} /\ n \notin DOMAIN ev
        /\ \A i \in DOMAIN ev : i \in Nat /\ i # 0 /\ i < n /\ more[i] = ev[i]
        /\ more[n] = e
    BY TxGrownDomain
  <1>2. /\ \A i \in DOMAIN ev : TxLast(more, i, n) <=> TxLast(ev, i, n - 1) /\ e.key # ev[i].key
        /\ ~TxLast(more, n, n)
    BY TxGrownFacts
  <1>3. /\ \A i, j \in DOMAIN ev : TxPair(more, i, j) <=> TxPair(ev, i, j)
        /\ \A i \in DOMAIN ev : TxPair(more, i, n) <=> TxLast(ev, i, n - 1) /\ e.key = ev[i].key
        /\ \A j \in DOMAIN more : ~TxPair(more, n, j)
    BY TxGrownFacts
  <1>4. /\ s = [waiting |-> s.waiting, done |-> s.done]
        /\ TxWaiting(ev, s, n - 1) /\ TxDone(ev, s.done)
    BY DEF TxOf
  <1>5. PICK base : base = IF e.key \in DOMAIN s.waiting THEN s.waiting[e.key] ELSE open
    OBVIOUS
  <1>6. PICK t : t = TxClose(base, p, n)
    OBVIOUS
  <1>7. PICK w : w = [k \in DOMAIN s.waiting \ {e.key} |-> s.waiting[k]]
    OBVIOUS
  <1>8. PICK u : u = TxTake(s, e.key, open, p, n)
    OBVIOUS
  <1>9. u = [waiting |-> w, done |-> s.done \cup {t}]
    BY <1>5, <1>6, <1>7, <1>8 DEF TxTake, TxAnswered
  <1>10. base \in TxTxn
    BY <1>4, <1>5 DEF TxWaiting, TxOpening
  <1>11. t \in TxTxn /\ t.request = base.request /\ t.reply = n
    BY <1>1, <1>6, <1>10, TxClosed DEF TxClosing
  (* the answer takes the question that waits *)
  <1>12. \A i \in DOMAIN ev : TxLast(ev, i, n - 1) /\ e.key = ev[i].key => t.request = i
    <2> SUFFICES ASSUME NEW i \in DOMAIN ev, TxLast(ev, i, n - 1), e.key = ev[i].key
                 PROVE  t.request = i
      OBVIOUS
    <2>1. e.key \in DOMAIN s.waiting
      BY <1>4 DEF TxWaiting
    <2>2. PICK j : j = base.request
      OBVIOUS
    <2>3. TxLast(ev, j, n - 1) /\ ev[j].key = e.key
      BY <1>4, <1>5, <2>1, <2>2 DEF TxWaiting
    <2>4. j \in DOMAIN ev /\ i < n /\ j < n /\ i \in Nat /\ j \in Nat
      BY <1>1, <2>3 DEF TxLast
    <2>5. ~(i < j) /\ ~(j < i)
      BY <1>1, <2>3, <2>4 DEF TxLast, TxQuiet
    <2> QED
      BY <1>11, <2>2, <2>4, <2>5
  <1>13. t.request # 0 => t.request \in DOMAIN ev /\ TxPair(more, t.request, n)
    <2> SUFFICES ASSUME t.request # 0 PROVE t.request \in DOMAIN ev /\ TxPair(more, t.request, n)
      OBVIOUS
    <2>1. e.key \in DOMAIN s.waiting /\ base = s.waiting[e.key]
      BY <1>5, <1>11 DEF TxOpening
    <2>2. TxLast(ev, base.request, n - 1) /\ ev[base.request].key = e.key
      BY <1>4, <2>1 DEF TxWaiting
    <2>3. base.request \in DOMAIN ev
      BY <2>2 DEF TxLast
    <2> QED
      BY <1>3, <1>11, <2>2, <2>3
  <1>14. TxWaiting(more, u, n)
    <2>1. ASSUME NEW k \in DOMAIN w
          PROVE  /\ w[k] \in TxTxn /\ w[k].reply = 0
                 /\ TxLast(more, w[k].request, n) /\ more[w[k].request].key = k
      <3>1. PICK i : i = s.waiting[k].request
        OBVIOUS
      <3>2. k \in DOMAIN s.waiting /\ w[k] = s.waiting[k] /\ k # e.key
        BY <1>7, <2>1
      <3>3. s.waiting[k] \in TxTxn /\ s.waiting[k].reply = 0 /\ TxLast(ev, i, n - 1) /\ ev[i].key = k
        BY <1>4, <3>1, <3>2 DEF TxWaiting
      <3>4. i \in DOMAIN ev
        BY <3>3 DEF TxLast
      <3> QED
        BY <1>1, <1>2, <3>1, <3>2, <3>3, <3>4
    <2>2. \A i \in DOMAIN more : TxLast(more, i, n) => more[i].key \in DOMAIN w
      BY <1>1, <1>2, <1>4, <1>7 DEF TxWaiting
    <2>3. u.waiting = w
      BY <1>9
    <2> QED
      BY <2>1, <2>2, <2>3 DEF TxWaiting
  <1>15. TxDone(more, s.done \cup {t})
    <2>1. ASSUME NEW v \in s.done \cup {t}
          PROVE  /\ v \in TxTxn /\ v.reply \in DOMAIN more /\ more[v.reply].kind = "reply"
                 /\ v.request # 0 => TxPair(more, v.request, v.reply)
      <3>1. CASE v = t
        BY <1>1, <1>11, <1>13, <3>1
      <3>2. CASE v \in s.done
        <4>1. /\ v \in TxTxn /\ v.reply \in DOMAIN ev /\ ev[v.reply].kind = "reply"
              /\ v.request # 0 => TxPair(ev, v.request, v.reply)
          BY <1>4, <3>2 DEF TxDone
        <4> QED
          BY <1>1, <1>3, <4>1 DEF TxPair
      <3> QED
        BY <2>1, <3>1, <3>2
    <2>2. ASSUME NEW v \in s.done PROVE v.reply # n
      BY <1>1, <1>4 DEF TxDone
    <2>3. \A v, x \in s.done \cup {t} : v.reply = x.reply => v = x
      BY <1>4, <1>11, <2>2 DEF TxDone
    <2>4. \A j \in DOMAIN more : more[j].kind = "reply" => \E v \in s.done \cup {t} : v.reply = j
      BY <1>1, <1>4, <1>11 DEF TxDone
    <2>5. ASSUME NEW i \in DOMAIN more, NEW j \in DOMAIN more, TxPair(more, i, j)
          PROVE  \E v \in s.done \cup {t} : v.request = i /\ v.reply = j
      <3>1. i \in DOMAIN ev
        BY <1>1, <1>3, <2>5
      <3>2. CASE j \in DOMAIN ev
        BY <1>3, <1>4, <2>5, <3>1, <3>2 DEF TxDone
      <3>3. CASE j = n
        BY <1>3, <1>11, <1>12, <2>5, <3>1, <3>3
      <3> QED
        BY <1>1, <3>2, <3>3
    <2> QED
      BY <2>1, <2>3, <2>4, <2>5 DEF TxDone
  <1> QED
    <2>1. u.waiting = w /\ u.done = s.done \cup {t} /\ u = [waiting |-> u.waiting, done |-> u.done]
      BY <1>9
    <2> QED
      BY <1>1, <1>8, <1>14, <1>15, <2>1 DEF TxOf, TxGrown

(* What TxNoneLost says of a list of events.                                   *)
TxAskedAgain(ev, i) ==
    \E j \in DOMAIN ev :
        /\ i < j /\ ev[j].kind = "ask" /\ ev[j].key = ev[i].key
        /\ \A n \in DOMAIN ev : i < n /\ n < j /\ ev[n].kind = "reply" => ev[n].key # ev[i].key
TxFor(s, i) == {t \in TxResults(s) : t.request = i}
TxWith(s, i) == {t \in TxResults(s) : t.reply = i}

LEMMA TxResultsFacts ==
    ASSUME NEW s
    PROVE  /\ \A k \in DOMAIN s.waiting : s.waiting[k] \in TxResults(s)
           /\ \A t \in s.done : t \in TxResults(s)
           /\ \A t \in TxResults(s) : t \in s.done \/ \E k \in DOMAIN s.waiting : t = s.waiting[k]
  BY DEF TxResults

(* The next event under a key.                                                 *)
LEMMA TxNextEvent ==
    ASSUME NEW ev, NEW last \in Nat, DOMAIN ev = 1 .. last, NEW i \in DOMAIN ev, NEW k,
           ~TxQuiet(ev, k, i, last + 1)
    PROVE  \E j \in DOMAIN ev : i < j /\ ev[j].kind # "other" /\ ev[j].key = k /\ TxQuiet(ev, k, i, j)
  <1> DEFINE N == {j \in DOMAIN ev : i < j /\ ev[j].kind # "other" /\ ev[j].key = k}
  <1>1. N \in SUBSET Nat /\ N # {}
    BY DEF TxQuiet
  <1>2. PICK j \in N : \A m \in N : j <= m
    <2> HIDE DEF N
    <2> QED
      BY <1>1, NatLeast
  <1>3. \A n \in DOMAIN ev : n \in Nat
    OBVIOUS
  <1>4. TxQuiet(ev, k, i, j)
    BY <1>2, <1>3 DEF TxQuiet
  <1> QED
    BY <1>2, <1>4

TxOnly(s, i, t) ==
    t \in TxResults(s) /\ t.request = i /\ \A v \in TxResults(s) : v.request = i => v = t

LEMMA TxOnlyOne ==
    ASSUME NEW s, NEW i, NEW t, TxOnly(s, i, t)
    PROVE  Cardinality(TxFor(s, i)) = 1
  <1>1. TxFor(s, i) = {t}
    BY DEF TxFor, TxOnly
  <1> QED
    BY <1>1, FS_Singleton

LEMMA TxNotLost ==
    ASSUME NEW ev, NEW s, NEW last, TxOf(ev, s, last), NEW i \in DOMAIN ev, ev[i].kind = "ask",
           \A j \in DOMAIN ev : ev[j].kind \in {"ask", "reply", "other"}
    PROVE  Cardinality(TxFor(s, i)) = IF TxAskedAgain(ev, i) THEN 0 ELSE 1
  <1>1. /\ last \in Nat /\ DOMAIN ev = 1 .. last /\ TxWaiting(ev, s, last) /\ TxDone(ev, s.done)
    BY DEF TxOf
  <1>2. \A n \in DOMAIN ev : n \in Nat /\ n # 0 /\ n < last + 1
    BY <1>1
  (* whatever holds the question: it is the last one, or the next event answers it *)
  <1>3. ASSUME NEW t \in TxResults(s), t.request = i
        PROVE  \/ TxLast(ev, i, last) /\ ev[i].key \in DOMAIN s.waiting /\ t = s.waiting[ev[i].key]
               \/ TxPair(ev, i, t.reply) /\ t \in s.done
    <2>1. CASE t \in s.done
      BY <1>1, <1>2, <1>3, <2>1 DEF TxDone
    <2>2. CASE \E k \in DOMAIN s.waiting : t = s.waiting[k]
      BY <1>1, <1>3, <2>2 DEF TxWaiting
    <2> QED
      BY <2>1, <2>2, TxResultsFacts
  <1>4. ASSUME NEW j \in DOMAIN ev, i < j, ev[j].kind # "other", ev[j].key = ev[i].key
        PROVE  ~TxLast(ev, i, last)
    BY <1>2, <1>4 DEF TxLast, TxQuiet
  <1>5. CASE TxAskedAgain(ev, i)
    <2>1. PICK j \in DOMAIN ev :
              /\ i < j /\ ev[j].kind = "ask" /\ ev[j].key = ev[i].key
              /\ \A n \in DOMAIN ev : i < n /\ n < j /\ ev[n].kind = "reply" => ev[n].key # ev[i].key
      BY <1>5 DEF TxAskedAgain
    <2>2. ~TxLast(ev, i, last)
      BY <1>4, <2>1
    <2>3. ASSUME NEW r \in DOMAIN ev, TxPair(ev, i, r) PROVE FALSE
      <3>1. i < r /\ ev[r].kind = "reply" /\ ev[r].key = ev[i].key /\ TxQuiet(ev, ev[i].key, i, r)
        BY <2>3 DEF TxPair
      <3>2. ~(j < r) /\ ~(r < j) /\ j # r
        BY <2>1, <3>1 DEF TxQuiet
      <3> QED
        BY <1>2, <3>2
    <2>4. TxFor(s, i) = {}
      BY <1>3, <2>2, <2>3 DEF TxFor, TxPair
    <2> QED
      BY <1>5, <2>4, FS_EmptySet
  <1>6. CASE ~TxAskedAgain(ev, i)
    <2>2. CASE TxLast(ev, i, last)
      <3>1. PICK k : k = ev[i].key
        OBVIOUS
      <3>2. k \in DOMAIN s.waiting
        BY <1>1, <2>2, <3>1 DEF TxWaiting
      <3>3. PICK m : m = s.waiting[k].request
        OBVIOUS
      <3>4. TxLast(ev, m, last) /\ ev[m].key = k /\ m \in DOMAIN ev /\ ev[m].kind = "ask"
        BY <1>1, <3>2, <3>3 DEF TxWaiting, TxLast
      <3>5. ~(i < m) /\ ~(m < i)
        BY <1>2, <2>2, <3>1, <3>4 DEF TxLast, TxQuiet
      <3>6. s.waiting[k].request = i
        BY <1>2, <3>3, <3>4, <3>5
      <3>7. ASSUME NEW v \in TxResults(s), v.request = i PROVE v = s.waiting[k]
        <4>1. ~TxPair(ev, i, v.reply)
          BY <1>4, <2>2 DEF TxPair
        <4> QED
          BY <1>3, <3>1, <3>7, <4>1
      <3>8. s.waiting[k] \in TxResults(s)
        BY <3>2, TxResultsFacts
      <3> QED
        BY <1>6, <3>6, <3>7, <3>8, TxOnlyOne DEF TxOnly
    <2>3. CASE ~TxLast(ev, i, last)
      <3>1. PICK j \in DOMAIN ev : /\ i < j /\ ev[j].kind # "other" /\ ev[j].key = ev[i].key
                                   /\ TxQuiet(ev, ev[i].key, i, j)
        <4>1. ~TxQuiet(ev, ev[i].key, i, last + 1)
          BY <2>3 DEF TxLast
        <4> QED
          BY <1>1, <4>1, TxNextEvent
      <3>2. ev[j].kind # "ask"
        BY <1>6, <3>1 DEF TxAskedAgain, TxQuiet
      <3>3. ev[j].kind = "reply"
        BY <3>1, <3>2
      <3>4. TxPair(ev, i, j)
        BY <3>1, <3>3 DEF TxPair
      <3>5. PICK t \in s.done : t.request = i /\ t.reply = j
        BY <1>1, <3>4 DEF TxDone
      <3>6. ASSUME NEW v \in TxResults(s), v.request = i PROVE v = t
        <4>1. TxPair(ev, i, v.reply) /\ v \in s.done
          BY <1>3, <2>3, <3>6
        <4>2. v.reply \in DOMAIN ev /\ i < v.reply /\ ev[v.reply].kind = "reply" /\ ev[v.reply].key = ev[i].key
              /\ TxQuiet(ev, ev[i].key, i, v.reply)
          BY <4>1 DEF TxPair
        <4>3. ~(j < v.reply) /\ ~(v.reply < j)
          BY <3>1, <3>3, <4>2 DEF TxQuiet
        <4>4. v.reply = j
          BY <1>2, <4>2, <4>3
        <4> QED
          BY <1>1, <3>5, <4>1, <4>4 DEF TxDone
      <3>7. t \in TxResults(s)
        BY <3>5, TxResultsFacts
      <3> QED
        BY <1>6, <3>5, <3>6, <3>7, TxOnlyOne DEF TxOnly
    <2> QED
      BY <1>6, <2>2, <2>3
  <1> QED
    BY <1>5, <1>6

LEMMA TxAnswerOnce ==
    ASSUME NEW ev, NEW s, NEW last, TxOf(ev, s, last), NEW i \in DOMAIN ev, ev[i].kind = "reply"
    PROVE  Cardinality(TxWith(s, i)) = 1 /\ \A t \in TxResults(s) : t.reply = i => t.request < i
  <1>1. /\ last \in Nat /\ DOMAIN ev = 1 .. last /\ TxWaiting(ev, s, last) /\ TxDone(ev, s.done)
    BY DEF TxOf
  <1>2. i \in Nat /\ i # 0 /\ 0 < i
    BY <1>1
  <1>3. \A t \in TxResults(s) : t.reply = i => t \in s.done
    BY <1>1, <1>2, TxResultsFacts DEF TxWaiting
  <1>4. PICK t \in s.done : t.reply = i
    BY <1>1 DEF TxDone
  <1>5. TxWith(s, i) = {t}
    BY <1>1, <1>3, <1>4, TxResultsFacts DEF TxDone, TxWith
  <1>6. \A v \in s.done : v.reply = i => v.request < i
    BY <1>1, <1>2 DEF TxDone, TxPair
  <1> QED
    BY <1>3, <1>5, <1>6, FS_Singleton

-----------------------------------------------------------------------------
(* The two extractors follow their events.                                     *)
LEMMA TxEventsGrown ==
    ASSUME NEW packets, NEW p, NEW more, NEW n, ExGrown(packets, p, more, n)
    PROVE  /\ TxGrown(TxDnsEvents(packets), TxEvent(p, <<"query", "answer">>, TxDnsKey(p)),
                      TxDnsEvents(more), n)
           /\ TxGrown(TxHttpEvents(packets), TxEvent(p, <<"request", "status">>, TxHttpKey(p)),
                      TxHttpEvents(more), n)
  <1>1. /\ n \in Nat \ {0} /\ DOMAIN packets = 1 .. n - 1 /\ DOMAIN more = 1 .. n
        /\ more[n] = p /\ \A i \in DOMAIN packets : i \in DOMAIN more /\ more[i] = packets[i]
    BY PacketsAppended DEF ExGrown
  <1>2. n \in DOMAIN more
    BY <1>1
  <1>3. TxGrown(TxDnsEvents(packets), TxEvent(p, <<"query", "answer">>, TxDnsKey(p)), TxDnsEvents(more), n)
    <2>1. DOMAIN TxDnsEvents(packets) = DOMAIN packets /\ DOMAIN TxDnsEvents(more) = DOMAIN more
      BY DEF TxDnsEvents
    <2>2. TxDnsEvents(more)[n] = TxEvent(p, <<"query", "answer">>, TxDnsKey(p))
      BY <1>1, <1>2 DEF TxDnsEvents
    <2>3. \A i \in DOMAIN packets : TxDnsEvents(more)[i] = TxDnsEvents(packets)[i]
      BY <1>1 DEF TxDnsEvents
    <2> QED
      BY <1>1, <2>1, <2>2, <2>3 DEF TxGrown
  <1>4. TxGrown(TxHttpEvents(packets), TxEvent(p, <<"request", "status">>, TxHttpKey(p)), TxHttpEvents(more), n)
    <2>1. DOMAIN TxHttpEvents(packets) = DOMAIN packets /\ DOMAIN TxHttpEvents(more) = DOMAIN more
      BY DEF TxHttpEvents
    <2>2. TxHttpEvents(more)[n] = TxEvent(p, <<"request", "status">>, TxHttpKey(p))
      BY <1>1, <1>2 DEF TxHttpEvents
    <2>3. \A i \in DOMAIN packets : TxHttpEvents(more)[i] = TxHttpEvents(packets)[i]
      BY <1>1 DEF TxHttpEvents
    <2> QED
      BY <1>1, <2>1, <2>2, <2>3 DEF TxGrown
  <1> QED
    BY <1>3, <1>4

LEMMA TxEventFields ==
    ASSUME NEW p, NEW kinds, NEW key
    PROVE  /\ TxEvent(p, kinds, key).key = key
           /\ TxEvent(p, kinds, key).kind \in {"ask", "reply", "other"}
           /\ p.hint.kind = kinds[1] => TxEvent(p, kinds, key).kind = "ask"
           /\ p.hint.kind = kinds[2] /\ p.hint.kind # kinds[1] => TxEvent(p, kinds, key).kind = "reply"
           /\ p.hint.kind # kinds[1] /\ p.hint.kind # kinds[2] => TxEvent(p, kinds, key).kind = "other"
  BY DEF TxEvent

(* What an extractor opens for a packet.                                       *)
TxFresh(client, server, request, at, code, answers, ref, name) ==
    [client |-> client, server |-> server, request |-> request, reply |-> 0, at |-> at,
     latency |-> 0, code |-> code, answers |-> answers, ref |-> ref, name |-> name]

TxFreshParts(client, server, request, at, code, answers, ref, name) ==
    /\ client \in Int /\ server \in Int /\ request \in Nat /\ at \in Int /\ code \in Int
    /\ answers \in TxAddresses /\ ref \in Nat /\ name \in STRING \cup {NoName}

LEMMA TxFreshFields ==
    ASSUME NEW client, NEW server, NEW request, NEW at, NEW code, NEW answers, NEW ref, NEW name,
           TxFreshParts(client, server, request, at, code, answers, ref, name)
    PROVE  /\ TxFresh(client, server, request, at, code, answers, ref, name) \in TxTxn
           /\ TxFresh(client, server, request, at, code, answers, ref, name).request = request
           /\ TxFresh(client, server, request, at, code, answers, ref, name).reply = 0
  <1>1. 0 \in Nat /\ 0 \in Int
    OBVIOUS
  <1> QED
    BY <1>1 DEF TxFresh, TxTxn, TxFreshParts

LEMMA TxFreshNamed ==
    ASSUME NEW client, NEW server, NEW request, NEW at, NEW code, NEW answers, NEW ref, NEW name, NEW nam
    PROVE  [TxFresh(client, server, request, at, code, answers, ref, name) EXCEPT !.name = nam]
              = TxFresh(client, server, request, at, code, answers, ref, nam)
  BY DEF TxFresh

LEMMA TxFreshAsked ==
    ASSUME NEW client, NEW server, NEW request, NEW at, NEW code, NEW answers, NEW ref, NEW name, NEW req
    PROVE  [TxFresh(client, server, request, at, code, answers, ref, name) EXCEPT !.request = req]
              = TxFresh(client, server, req, at, code, answers, ref, name)
  BY DEF TxFresh

LEMMA TxOpened ==
    ASSUME NEW p \in ExPacket, NEW n \in Nat, NEW client \in Int, NEW server \in Int, NEW name \in STRING
    PROVE  /\ TxOpening(TxOpen(client, server, p, n))
           /\ TxOpening([TxOpen(client, server, p, n) EXCEPT !.name = name])
           /\ TxAsking([TxOpen(client, server, p, n) EXCEPT !.request = n], n)
           /\ TxAsking([TxOpen(client, server, p, n) EXCEPT !.request = n, !.name = name], n)
  <1>1. PICK addresses : addresses = {}
    OBVIOUS
  <1>2. p.at \in Int /\ -1 \in Int /\ 0 \in Nat /\ addresses \in TxAddresses
    BY <1>1, ExPacketFields, FS_EmptySet DEF TxAddresses
  <1>3. PICK none : none = NoName
    OBVIOUS
  <1>4. none \in STRING \cup {NoName} /\ name \in STRING \cup {NoName}
    BY <1>3
  <1>5. TxOpen(client, server, p, n) = TxFresh(client, server, 0, p.at, -1, addresses, n, none)
    BY <1>1, <1>3 DEF TxOpen, TxFresh
  <1>6. \A q \in {0, n} : \A m \in {none, name} :
            TxFreshParts(client, server, q, p.at, -1, addresses, n, m)
    BY <1>2, <1>4 DEF TxFreshParts
  <1>7. TxOpening(TxFresh(client, server, 0, p.at, -1, addresses, n, none))
    BY <1>6, TxFreshFields DEF TxOpening
  <1>8. TxOpening(TxFresh(client, server, 0, p.at, -1, addresses, n, name))
    BY <1>6, TxFreshFields DEF TxOpening
  <1>9. TxAsking(TxFresh(client, server, n, p.at, -1, addresses, n, none), n)
    BY <1>6, TxFreshFields DEF TxAsking
  <1>10. TxAsking(TxFresh(client, server, n, p.at, -1, addresses, n, name), n)
    BY <1>6, TxFreshFields DEF TxAsking
  <1>11. [TxOpen(client, server, p, n) EXCEPT !.name = name] = TxFresh(client, server, 0, p.at, -1, addresses, n, name)
    BY <1>5, TxFreshNamed
  <1>12. [TxOpen(client, server, p, n) EXCEPT !.request = n] = TxFresh(client, server, n, p.at, -1, addresses, n, none)
    BY <1>5, TxFreshAsked
  <1>13. [TxOpen(client, server, p, n) EXCEPT !.request = n, !.name = name]
            = TxFresh(client, server, n, p.at, -1, addresses, n, name)
    <2>1. PICK t : t = TxOpen(client, server, p, n)
      OBVIOUS
    <2>2. [t EXCEPT !.request = n, !.name = name] = [[t EXCEPT !.request = n] EXCEPT !.name = name]
      OBVIOUS
    <2>3. [t EXCEPT !.request = n] = TxFresh(client, server, n, p.at, -1, addresses, n, none)
      BY <1>12, <2>1
    <2>4. [TxFresh(client, server, n, p.at, -1, addresses, n, none) EXCEPT !.name = name]
             = TxFresh(client, server, n, p.at, -1, addresses, n, name)
      BY TxFreshNamed
    <2> QED
      BY <2>1, <2>2, <2>3, <2>4
  <1> QED
    BY <1>5, <1>7, <1>8, <1>9, <1>10, <1>11, <1>12, <1>13

LEMMA TxPacketEnds ==
    ASSUME NEW p \in ExPacket
    PROVE  /\ p.src[1] \in Int /\ p.dst[1] \in Int /\ p.src[2] \in Int /\ p.dst[2] \in Int
           /\ p.hint.name \in STRING
           /\ p.hint.kind \in {"none", "query", "answer", "request", "status", "hello"}
  <1>1. p.src \in Int \X Int /\ p.dst \in Int \X Int /\ p.hint \in ExHint
    BY ExPacketFields
  <1> QED
    BY <1>1 DEF ExHint

LEMMA TxDnsStep ==
    ASSUME NEW packets, NEW p, NEW more, NEW n, ExGrown(packets, p, more, n),
           NEW s, TxOf(TxDnsEvents(packets), s, n - 1)
    PROVE  TxOf(TxDnsEvents(more), TxDns(s, p, n), n)
  <1>1. PICK key : key = TxDnsKey(p)
    OBVIOUS
  <1>2. PICK e : e = TxEvent(p, <<"query", "answer">>, key)
    OBVIOUS
  <1>3. TxGrown(TxDnsEvents(packets), e, TxDnsEvents(more), n)
    BY <1>1, <1>2, TxEventsGrown
  <1>4. p \in ExPacket /\ n \in Nat
    BY PacketsAppended
  <1>5. e.key = key
    BY <1>2, TxEventFields
  <1>6. CASE p.hint.kind = "query"
    <2>1. PICK txn : txn = [TxOpen(p.src[1], p.dst[1], p, n) EXCEPT !.request = n, !.name = p.hint.name]
      OBVIOUS
    <2>2. TxAsking(txn, n)
      BY <1>4, <2>1, TxOpened, TxPacketEnds
    <2>3. e.kind = "ask"
      BY <1>2, <1>6 DEF TxEvent
    <2>4. TxDns(s, p, n) = TxPut(s, e.key, txn)
      BY <1>1, <1>5, <1>6, <2>1 DEF TxDns
    <2> QED
      BY <1>3, <2>2, <2>3, <2>4, TxPutStep
  <1>7. CASE p.hint.kind = "answer"
    <2>1. PICK open : open = [TxOpen(p.dst[1], p.src[1], p, n) EXCEPT !.name = p.hint.name]
      OBVIOUS
    <2>2. TxOpening(open)
      BY <1>4, <2>1, TxOpened, TxPacketEnds
    <2>3. e.kind = "reply"
      BY <1>2, <1>7 DEF TxEvent
    <2>4. TxDns(s, p, n) = TxTake(s, e.key, open, p, n)
      BY <1>1, <1>5, <1>7, <2>1 DEF TxDns
    <2> QED
      BY <1>3, <1>4, <2>2, <2>3, <2>4, TxTakeStep
  <1>8. CASE p.hint.kind # "query" /\ p.hint.kind # "answer"
    <2>1. e.kind = "other"
      BY <1>2, <1>8 DEF TxEvent
    <2>2. TxDns(s, p, n) = s
      BY <1>8 DEF TxDns
    <2> QED
      BY <1>3, <2>1, <2>2, TxOtherStep
  <1> QED
    BY <1>6, <1>7, <1>8

LEMMA TxHttpStep ==
    ASSUME NEW packets, NEW p, NEW more, NEW n, ExGrown(packets, p, more, n),
           NEW s, TxOf(TxHttpEvents(packets), s, n - 1)
    PROVE  TxOf(TxHttpEvents(more), TxHttp(s, p, n), n)
  <1>1. PICK key : key = TxHttpKey(p)
    OBVIOUS
  <1>2. PICK e : e = TxEvent(p, <<"request", "status">>, key)
    OBVIOUS
  <1>3. TxGrown(TxHttpEvents(packets), e, TxHttpEvents(more), n)
    BY <1>1, <1>2, TxEventsGrown
  <1>4. p \in ExPacket /\ n \in Nat
    BY PacketsAppended
  <1>5. e.key = key
    BY <1>2, TxEventFields
  <1>6. CASE p.hint.kind = "request"
    <2>1. PICK txn : txn = [TxOpen(p.src[1], p.dst[1], p, n) EXCEPT !.request = n]
      OBVIOUS
    <2>2. TxAsking(txn, n)
      BY <1>4, <2>1, TxOpened, TxPacketEnds
    <2>3. e.kind = "ask"
      BY <1>2, <1>6 DEF TxEvent
    <2>4. TxHttp(s, p, n) = TxPut(s, e.key, txn)
      BY <1>1, <1>5, <1>6, <2>1 DEF TxHttp
    <2> QED
      BY <1>3, <2>2, <2>3, <2>4, TxPutStep
  <1>7. CASE p.hint.kind = "status"
    <2>1. PICK open : open = TxOpen(p.dst[1], p.src[1], p, n)
      OBVIOUS
    <2>2. TxOpening(open)
      BY <1>4, <2>1, TxOpened, TxPacketEnds
    <2>3. e.kind = "reply"
      BY <1>2, <1>7 DEF TxEvent
    <2>4. TxHttp(s, p, n) = TxTake(s, e.key, open, p, n)
      BY <1>1, <1>5, <1>7, <2>1 DEF TxHttp
    <2> QED
      BY <1>3, <1>4, <2>2, <2>3, <2>4, TxTakeStep
  <1>8. CASE p.hint.kind # "request" /\ p.hint.kind # "status"
    <2>1. e.kind = "other"
      BY <1>2, <1>8 DEF TxEvent
    <2>2. TxHttp(s, p, n) = s
      BY <1>8 DEF TxHttp
    <2> QED
      BY <1>3, <2>1, <2>2, TxOtherStep
  <1> QED
    BY <1>6, <1>7, <1>8

-----------------------------------------------------------------------------
(* What the tables hold after any number of packets.                           *)
ExRead1 == exTraffic \in ExTraffic /\ exPackets \in Seq(exTraffic) /\ Len(exPackets) <= ExMaxPackets
ExFlowsOf == exPackets \in Seq(ExPacket) /\ FbFlowsOf(exPackets, exFlows)
ExTxnsOf ==
    /\ TxOf(TxDnsEvents(exPackets), exDns, Len(exPackets))
    /\ TxOf(TxHttpEvents(exPackets), exHttp, Len(exPackets))
ExInv == ExRead1 /\ ExFlowsOf /\ ExTxnsOf

LEMMA ExBegins == ExInit => ExInv
  <1> SUFFICES ASSUME ExInit PROVE ExInv
    OBVIOUS
  <1>1. exPackets = <<>> /\ Len(exPackets) = 0 /\ DOMAIN exPackets = 1 .. 0 /\ exPackets \in Seq(ExPacket)
    BY DEF ExInit
  <1>2. ExRead1
    BY <1>1, ExAssumption DEF ExInit, ExRead1
  <1>3. ExFlowsOf
    <2>1. DOMAIN exFlows = {}
      BY DEF ExInit
    <2> QED
      BY <1>1, <2>1 DEF ExFlowsOf, FbFlowsOf
  <1>4. ASSUME NEW ev, DOMAIN ev = DOMAIN exPackets PROVE TxOf(ev, TxEmpty, 0)
    <2>1. PICK none : none = [k \in {} |-> {}]
      OBVIOUS
    <2>2. TxEmpty = [waiting |-> none, done |-> {}] /\ DOMAIN none = {}
      BY <2>1 DEF TxEmpty
    <2>3. TxEmpty.waiting = none /\ TxEmpty.done = {} /\ TxEmpty = [waiting |-> TxEmpty.waiting, done |-> TxEmpty.done]
      BY <2>2
    <2>4. DOMAIN ev = {} /\ DOMAIN ev = 1 .. 0
      BY <1>1, <1>4
    <2>5. TxWaiting(ev, TxEmpty, 0)
      BY <2>2, <2>3, <2>4 DEF TxWaiting
    <2>6. TxDone(ev, TxEmpty.done)
      BY <2>3, <2>4 DEF TxDone, TxPair
    <2> QED
      BY <2>3, <2>4, <2>5, <2>6 DEF TxOf
  <1>5. ExTxnsOf
    <2>1. exDns = TxEmpty /\ exHttp = TxEmpty
      BY DEF ExInit
    <2>2. DOMAIN TxDnsEvents(exPackets) = DOMAIN exPackets /\ DOMAIN TxHttpEvents(exPackets) = DOMAIN exPackets
      BY DEF TxDnsEvents, TxHttpEvents
    <2> QED
      BY <1>1, <1>4, <2>1, <2>2 DEF ExTxnsOf
  <1> QED
    BY <1>2, <1>3, <1>5 DEF ExInv

LEMMA ExReads ==
    ASSUME ExInv, NEW p \in exTraffic, ExRead(p)
    PROVE  ExInv'
  <1>1. /\ exTraffic \in ExTraffic /\ exPackets \in Seq(exTraffic) /\ exPackets \in Seq(ExPacket)
        /\ FbFlowsOf(exPackets, exFlows)
    BY DEF ExInv, ExRead1, ExFlowsOf
  <1>2. PICK n : n = Len(exPackets) + 1
    OBVIOUS
  <1>3. p \in ExPacket
    BY <1>1, ExAssumption
  <1>4. PICK more : more = Append(exPackets, p)
    OBVIOUS
  <1>5. ExGrown(exPackets, p, more, n)
    BY <1>1, <1>2, <1>3, <1>4 DEF ExGrown
  <1>6. /\ exPackets' = more /\ exTraffic' = exTraffic
        /\ exFlows' = FbAddPacket(exFlows, p, n)
        /\ exDns' = TxDns(exDns, p, n) /\ exHttp' = TxHttp(exHttp, p, n)
        /\ Len(exPackets) < ExMaxPackets
    BY <1>2, <1>4 DEF ExRead
  <1>7. n \in Nat /\ n - 1 = Len(exPackets) /\ Len(more) = n /\ more \in Seq(ExPacket)
    <2>1. Len(exPackets) \in Nat
      BY <1>1
    <2>2. n \in Nat /\ n - 1 = Len(exPackets)
      BY <1>2, <2>1
    <2>3. Len(more) = n /\ more \in Seq(ExPacket)
      BY <1>5, PacketsAppended
    <2> QED
      BY <2>2, <2>3
  <1>8. ExRead1'
    <2>1. more \in Seq(exTraffic)
      BY <1>1, <1>4
    <2> QED
      BY <1>1, <1>2, <1>6, <1>7, <2>1, ExAssumption DEF ExRead1
  <1>9. ExFlowsOf'
    BY <1>1, <1>5, <1>6, <1>7, FbStep DEF ExFlowsOf
  <1>10. ExTxnsOf'
    <2>1. TxOf(TxDnsEvents(exPackets), exDns, n - 1) /\ TxOf(TxHttpEvents(exPackets), exHttp, n - 1)
      BY <1>7 DEF ExInv, ExTxnsOf
    <2>2. TxOf(TxDnsEvents(more), TxDns(exDns, p, n), n)
      BY <1>5, <2>1, TxDnsStep
    <2>3. TxOf(TxHttpEvents(more), TxHttp(exHttp, p, n), n)
      BY <1>5, <2>1, TxHttpStep
    <2> QED
      BY <1>6, <1>7, <2>2, <2>3 DEF ExTxnsOf
  <1> QED
    BY <1>8, <1>9, <1>10 DEF ExInv

LEMMA ExKept == ExInv /\ [ExNext]_exVars => ExInv'
  <1> SUFFICES ASSUME ExInv, [ExNext]_exVars PROVE ExInv'
    OBVIOUS
  <1>1. CASE ExNext
    BY <1>1, ExReads DEF ExNext
  <1>2. CASE UNCHANGED exVars
    BY <1>2 DEF exVars, ExInv, ExRead1, ExFlowsOf, ExTxnsOf
  <1> QED
    BY <1>1, <1>2

LEMMA ExEventsOf ==
    ASSUME ExInv
    PROVE  /\ DOMAIN exPackets = 1 .. Len(exPackets) /\ Len(exPackets) \in Nat
           /\ \A i \in DOMAIN exPackets : exPackets[i] \in ExPacket
           /\ DOMAIN TxDnsEvents(exPackets) = DOMAIN exPackets
           /\ DOMAIN TxHttpEvents(exPackets) = DOMAIN exPackets
           /\ TxOf(TxDnsEvents(exPackets), exDns, Len(exPackets))
           /\ TxOf(TxHttpEvents(exPackets), exHttp, Len(exPackets))
  <1>1. exPackets \in Seq(ExPacket)
    BY DEF ExInv, ExFlowsOf
  <1>2. /\ DOMAIN TxDnsEvents(exPackets) = DOMAIN exPackets
        /\ DOMAIN TxHttpEvents(exPackets) = DOMAIN exPackets
    BY DEF TxDnsEvents, TxHttpEvents
  <1> QED
    BY <1>1, <1>2 DEF ExInv, ExTxnsOf

LEMMA TxDnsKinds ==
    ASSUME NEW i \in DOMAIN exPackets
    PROVE  /\ TxDnsEvents(exPackets)[i].key = TxDnsKey(exPackets[i])
           /\ TxDnsEvents(exPackets)[i].kind = "ask" <=> exPackets[i].hint.kind = "query"
           /\ TxDnsEvents(exPackets)[i].kind = "reply" <=> exPackets[i].hint.kind = "answer"
           /\ TxDnsEvents(exPackets)[i].kind \in {"ask", "reply", "other"}
  BY DEF TxDnsEvents, TxEvent

LEMMA TxHttpKinds ==
    ASSUME NEW i \in DOMAIN exPackets
    PROVE  /\ TxHttpEvents(exPackets)[i].key = TxHttpKey(exPackets[i])
           /\ TxHttpEvents(exPackets)[i].kind = "ask" <=> exPackets[i].hint.kind = "request"
           /\ TxHttpEvents(exPackets)[i].kind = "reply" <=> exPackets[i].hint.kind = "status"
           /\ TxHttpEvents(exPackets)[i].kind \in {"ask", "reply", "other"}
  BY DEF TxHttpEvents, TxEvent

(* Asked again, in terms of the packets.                                       *)
LEMMA TxDnsAsked ==
    ASSUME ExInv, NEW i \in DOMAIN exPackets
    PROVE  ExAsked(<<"query", "answer">>, TxDnsKey, i) <=> TxAskedAgain(TxDnsEvents(exPackets), i)
  <1>1. PICK ev : ev = TxDnsEvents(exPackets)
    OBVIOUS
  <1>2. DOMAIN ev = DOMAIN exPackets /\ DOMAIN exPackets = 1 .. Len(exPackets) /\ Len(exPackets) \in Nat
    BY <1>1, ExEventsOf
  <1>3. \A n \in DOMAIN ev : /\ ev[n].key = TxDnsKey(exPackets[n])
                             /\ ev[n].kind = "ask" <=> exPackets[n].hint.kind = "query"
                             /\ ev[n].kind = "reply" <=> exPackets[n].hint.kind = "answer"
    BY <1>1, <1>2, TxDnsKinds
  <1>4. ExAsked(<<"query", "answer">>, TxDnsKey, i) <=>
            \E j \in i + 1 .. Len(exPackets) :
                /\ exPackets[j].hint.kind = "query" /\ TxDnsKey(exPackets[j]) = TxDnsKey(exPackets[i])
                /\ \A n \in i + 1 .. j - 1 :
                      exPackets[n].hint.kind = "answer" => TxDnsKey(exPackets[n]) # TxDnsKey(exPackets[i])
    BY DEF ExAsked
  <1>5. ASSUME NEW j \in DOMAIN exPackets
        PROVE  /\ j \in i + 1 .. Len(exPackets) <=> i < j
               /\ \A n : n \in i + 1 .. j - 1 <=> n \in DOMAIN exPackets /\ i < n /\ n < j
    BY <1>2
  <1>6. \A j \in i + 1 .. Len(exPackets) : j \in DOMAIN exPackets
    BY <1>2
  <1>7. TxAskedAgain(ev, i) <=>
            \E j \in DOMAIN exPackets :
                /\ i < j
                /\ exPackets[j].hint.kind = "query" /\ TxDnsKey(exPackets[j]) = TxDnsKey(exPackets[i])
                /\ \A n \in DOMAIN exPackets : i < n /\ n < j /\ exPackets[n].hint.kind = "answer"
                                                 => TxDnsKey(exPackets[n]) # TxDnsKey(exPackets[i])
    BY <1>2, <1>3 DEF TxAskedAgain
  <1>8. ASSUME NEW j \in DOMAIN exPackets
        PROVE  (\A n \in i + 1 .. j - 1 :
                   exPackets[n].hint.kind = "answer" => TxDnsKey(exPackets[n]) # TxDnsKey(exPackets[i])) <=>
               (\A n \in DOMAIN exPackets : i < n /\ n < j /\ exPackets[n].hint.kind = "answer"
                                                 => TxDnsKey(exPackets[n]) # TxDnsKey(exPackets[i]))
    BY <1>5
  <1>9. ExAsked(<<"query", "answer">>, TxDnsKey, i) => TxAskedAgain(ev, i)
    BY <1>4, <1>5, <1>6, <1>7, <1>8
  <1>10. TxAskedAgain(ev, i) => ExAsked(<<"query", "answer">>, TxDnsKey, i)
    BY <1>4, <1>5, <1>6, <1>7, <1>8
  <1> QED
    BY <1>1, <1>9, <1>10

LEMMA TxHttpAsked ==
    ASSUME ExInv, NEW i \in DOMAIN exPackets
    PROVE  ExAsked(<<"request", "status">>, TxHttpKey, i) <=> TxAskedAgain(TxHttpEvents(exPackets), i)
  <1>1. PICK ev : ev = TxHttpEvents(exPackets)
    OBVIOUS
  <1>2. DOMAIN ev = DOMAIN exPackets /\ DOMAIN exPackets = 1 .. Len(exPackets) /\ Len(exPackets) \in Nat
    BY <1>1, ExEventsOf
  <1>3. \A n \in DOMAIN ev : /\ ev[n].key = TxHttpKey(exPackets[n])
                             /\ ev[n].kind = "ask" <=> exPackets[n].hint.kind = "request"
                             /\ ev[n].kind = "reply" <=> exPackets[n].hint.kind = "status"
    BY <1>1, <1>2, TxHttpKinds
  <1>4. ExAsked(<<"request", "status">>, TxHttpKey, i) <=>
            \E j \in i + 1 .. Len(exPackets) :
                /\ exPackets[j].hint.kind = "request" /\ TxHttpKey(exPackets[j]) = TxHttpKey(exPackets[i])
                /\ \A n \in i + 1 .. j - 1 :
                      exPackets[n].hint.kind = "status" => TxHttpKey(exPackets[n]) # TxHttpKey(exPackets[i])
    BY DEF ExAsked
  <1>5. ASSUME NEW j \in DOMAIN exPackets
        PROVE  /\ j \in i + 1 .. Len(exPackets) <=> i < j
               /\ \A n : n \in i + 1 .. j - 1 <=> n \in DOMAIN exPackets /\ i < n /\ n < j
    BY <1>2
  <1>6. \A j \in i + 1 .. Len(exPackets) : j \in DOMAIN exPackets
    BY <1>2
  <1>7. TxAskedAgain(ev, i) <=>
            \E j \in DOMAIN exPackets :
                /\ i < j
                /\ exPackets[j].hint.kind = "request" /\ TxHttpKey(exPackets[j]) = TxHttpKey(exPackets[i])
                /\ \A n \in DOMAIN exPackets : i < n /\ n < j /\ exPackets[n].hint.kind = "status"
                                                 => TxHttpKey(exPackets[n]) # TxHttpKey(exPackets[i])
    BY <1>2, <1>3 DEF TxAskedAgain
  <1>8. ASSUME NEW j \in DOMAIN exPackets
        PROVE  (\A n \in i + 1 .. j - 1 :
                   exPackets[n].hint.kind = "status" => TxHttpKey(exPackets[n]) # TxHttpKey(exPackets[i])) <=>
               (\A n \in DOMAIN exPackets : i < n /\ n < j /\ exPackets[n].hint.kind = "status"
                                                 => TxHttpKey(exPackets[n]) # TxHttpKey(exPackets[i]))
    BY <1>5
  <1>9. ExAsked(<<"request", "status">>, TxHttpKey, i) => TxAskedAgain(ev, i)
    BY <1>4, <1>5, <1>6, <1>7, <1>8
  <1>10. TxAskedAgain(ev, i) => ExAsked(<<"request", "status">>, TxHttpKey, i)
    BY <1>4, <1>5, <1>6, <1>7, <1>8
  <1> QED
    BY <1>1, <1>9, <1>10

(* Every question and every answer is where TxNoneLost says.                   *)
LEMMA TxInvNoneLost == ExInv => TxNoneLost
  <1> SUFFICES ASSUME ExInv PROVE TxNoneLost
    OBVIOUS
  <1>1. ASSUME NEW i \in DOMAIN exPackets
        PROVE  /\ exPackets[i].hint.kind = "query" =>
                    Cardinality({t \in TxResults(exDns) : t.request = i}) =
                        IF ExAsked(<<"query", "answer">>, TxDnsKey, i) THEN 0 ELSE 1
               /\ exPackets[i].hint.kind = "answer" =>
                    /\ Cardinality({t \in TxResults(exDns) : t.reply = i}) = 1
                    /\ \A t \in TxResults(exDns) : t.reply = i => t.request < i
    <2>1. PICK ev : ev = TxDnsEvents(exPackets)
      OBVIOUS
    <2>2. DOMAIN ev = DOMAIN exPackets /\ TxOf(ev, exDns, Len(exPackets))
      BY <2>1, ExEventsOf
    <2>3. /\ \A n \in DOMAIN ev : ev[n].kind \in {"ask", "reply", "other"}
          /\ ev[i].kind = "ask" <=> exPackets[i].hint.kind = "query"
          /\ ev[i].kind = "reply" <=> exPackets[i].hint.kind = "answer"
      BY <2>1, <2>2, TxDnsKinds
    <2>4. ExAsked(<<"query", "answer">>, TxDnsKey, i) <=> TxAskedAgain(ev, i)
      BY <2>1, TxDnsAsked
    <2>5. CASE ev[i].kind = "ask"
      <3>1. Cardinality(TxFor(exDns, i)) = IF TxAskedAgain(ev, i) THEN 0 ELSE 1
        BY <2>2, <2>3, <2>5, TxNotLost
      <3> QED
        BY <2>3, <2>4, <2>5, <3>1 DEF TxFor
    <2>6. CASE ev[i].kind = "reply"
      <3>1. Cardinality(TxWith(exDns, i)) = 1 /\ \A t \in TxResults(exDns) : t.reply = i => t.request < i
        BY <2>2, <2>6, TxAnswerOnce
      <3> QED
        BY <2>3, <2>6, <3>1 DEF TxWith
    <2> QED
      BY <2>3, <2>5, <2>6
  <1>2. ASSUME NEW i \in DOMAIN exPackets
        PROVE  /\ exPackets[i].hint.kind = "request" =>
                    Cardinality({t \in TxResults(exHttp) : t.request = i}) =
                        IF ExAsked(<<"request", "status">>, TxHttpKey, i) THEN 0 ELSE 1
               /\ exPackets[i].hint.kind = "status" =>
                    /\ Cardinality({t \in TxResults(exHttp) : t.reply = i}) = 1
                    /\ \A t \in TxResults(exHttp) : t.reply = i => t.request < i
    <2>1. PICK ev : ev = TxHttpEvents(exPackets)
      OBVIOUS
    <2>2. DOMAIN ev = DOMAIN exPackets /\ TxOf(ev, exHttp, Len(exPackets))
      BY <2>1, ExEventsOf
    <2>3. /\ \A n \in DOMAIN ev : ev[n].kind \in {"ask", "reply", "other"}
          /\ ev[i].kind = "ask" <=> exPackets[i].hint.kind = "request"
          /\ ev[i].kind = "reply" <=> exPackets[i].hint.kind = "status"
      BY <2>1, <2>2, TxHttpKinds
    <2>4. ExAsked(<<"request", "status">>, TxHttpKey, i) <=> TxAskedAgain(ev, i)
      BY <2>1, TxHttpAsked
    <2>5. CASE ev[i].kind = "ask"
      <3>1. Cardinality(TxFor(exHttp, i)) = IF TxAskedAgain(ev, i) THEN 0 ELSE 1
        BY <2>2, <2>3, <2>5, TxNotLost
      <3> QED
        BY <2>3, <2>4, <2>5, <3>1 DEF TxFor
    <2>6. CASE ev[i].kind = "reply"
      <3>1. Cardinality(TxWith(exHttp, i)) = 1 /\ \A t \in TxResults(exHttp) : t.reply = i => t.request < i
        BY <2>2, <2>6, TxAnswerOnce
      <3> QED
        BY <2>3, <2>6, <3>1 DEF TxWith
    <2> QED
      BY <2>3, <2>5, <2>6
  <1>3. ExAccounted(exDns, <<"query", "answer">>, TxDnsKey)
    BY <1>1 DEF ExAccounted
  <1>4. ExAccounted(exHttp, <<"request", "status">>, TxHttpKey)
    BY <1>2 DEF ExAccounted
  <1> QED
    BY <1>3, <1>4 DEF TxNoneLost

(* One connection's request or answer, to the client and server port of q.     *)
TxSameService(p, q) ==
    \/ p.hint.kind = "request" /\ p.src[1] = q.src[1] /\ p.dst = q.dst
    \/ p.hint.kind = "status" /\ p.dst[1] = q.src[1] /\ p.src = q.dst

LEMMA TxSameKey ==
    ASSUME NEW p \in ExPacket, NEW q \in ExPacket, q.hint.kind = "request",
           p.hint.kind \in {"request", "status"}
    PROVE  TxHttpKey(p) = TxHttpKey(q) <=> TxSameService(p, q)
  <1>1. p.src \in Int \X Int /\ p.dst \in Int \X Int /\ q.src \in Int \X Int /\ q.dst \in Int \X Int
    BY ExPacketFields
  <1>2. \A a, b \in Int \X Int : a = b <=> a[1] = b[1] /\ a[2] = b[2]
    OBVIOUS
  <1>3. TxHttpKey(q) = <<q.src[1], q.dst[1], q.dst[2]>>
    BY DEF TxHttpKey
  <1>4. CASE p.hint.kind = "request"
    <2>1. TxHttpKey(p) = <<p.src[1], p.dst[1], p.dst[2]>>
      BY <1>4 DEF TxHttpKey
    <2>2. TxHttpKey(p) = TxHttpKey(q) <=> p.src[1] = q.src[1] /\ p.dst[1] = q.dst[1] /\ p.dst[2] = q.dst[2]
      BY <1>3, <2>1
    <2> QED
      BY <1>1, <1>2, <1>4, <2>2 DEF TxSameService
  <1>5. CASE p.hint.kind = "status"
    <2>1. TxHttpKey(p) = <<p.dst[1], p.src[1], p.src[2]>>
      BY <1>5 DEF TxHttpKey
    <2>2. TxHttpKey(p) = TxHttpKey(q) <=> p.dst[1] = q.src[1] /\ p.src[1] = q.dst[1] /\ p.src[2] = q.dst[2]
      BY <1>3, <2>1
    <2> QED
      BY <1>1, <1>2, <1>5, <2>2 DEF TxSameService
  <1> QED
    BY <1>4, <1>5

LEMMA TxInvOwn == ExInv => TxOwnConnection
  <1> SUFFICES ASSUME ExInv, NEW i \in DOMAIN exPackets, NEW j \in DOMAIN exPackets, i < j,
                      exPackets[i].hint.kind = "request", exPackets[j].hint.kind = "status",
                      exPackets[i].src = exPackets[j].dst, exPackets[i].dst = exPackets[j].src,
                      ~\E p \in {exPackets[n] : n \in i + 1 .. j - 1} : TxSameService(p, exPackets[i])
               PROVE  \E t \in exHttp.done : t.request = i /\ t.reply = j
    BY DEF TxOwnConnection, TxSameService
  <1>1. PICK ev : ev = TxHttpEvents(exPackets)
    OBVIOUS
  <1>2. /\ DOMAIN ev = DOMAIN exPackets /\ TxOf(ev, exHttp, Len(exPackets))
        /\ DOMAIN exPackets = 1 .. Len(exPackets) /\ Len(exPackets) \in Nat
        /\ \A n \in DOMAIN exPackets : exPackets[n] \in ExPacket
    BY <1>1, ExEventsOf
  <1>3. \A n \in DOMAIN ev : /\ ev[n].key = TxHttpKey(exPackets[n])
                             /\ ev[n].kind = "ask" <=> exPackets[n].hint.kind = "request"
                             /\ ev[n].kind = "reply" <=> exPackets[n].hint.kind = "status"
                             /\ ev[n].kind \in {"ask", "reply", "other"}
    BY <1>1, <1>2, TxHttpKinds
  <1>4. TxSameService(exPackets[j], exPackets[i])
    BY DEF TxSameService
  <1>5. ev[i].kind = "ask" /\ ev[j].kind = "reply" /\ ev[i].key = ev[j].key
    BY <1>2, <1>3, <1>4, TxSameKey
  <1>6. TxQuiet(ev, ev[i].key, i, j)
    <2> SUFFICES ASSUME NEW n \in DOMAIN ev, i < n, n < j, ev[n].kind # "other", ev[n].key = ev[i].key
                 PROVE  FALSE
      BY DEF TxQuiet
    <2>1. n \in i + 1 .. j - 1
      BY <1>2
    <2>2. exPackets[n].hint.kind \in {"request", "status"} /\ exPackets[n] \in ExPacket
      BY <1>2, <1>3
    <2>3. TxHttpKey(exPackets[n]) = TxHttpKey(exPackets[i])
      BY <1>2, <1>3
    <2>4. TxSameService(exPackets[n], exPackets[i])
      BY <1>2, <2>2, <2>3, TxSameKey
    <2> QED
      BY <2>1, <2>4
  <1>7. TxPair(ev, i, j)
    BY <1>2, <1>5, <1>6 DEF TxPair
  <1> QED
    BY <1>2, <1>7 DEF TxOf, TxDone

LEMMA ExInvFlows == ExInv => FbConversations
  BY FbFlowsConverse DEF ExInv, ExFlowsOf

(* Flows are exactly the conversations of the packets read so far: what the    *)
(* FlowBuilder's two-way key, its counters and its connection state make of    *)
(* any packets, in any order.                                                  *)
THEOREM Conversations == ExSpec => []FbConversations
  <1>1. ExInit => ExInv
    BY ExBegins
  <1>2. ExInv /\ [ExNext]_exVars => ExInv'
    BY ExKept
  <1>3. ExInv => FbConversations
    BY ExInvFlows
  <1> QED
    BY <1>1, <1>2, <1>3, PTL DEF ExSpec

(* Every DNS query and HTTP request is in one transaction, unless its client   *)
(* repeated it before an answer, and every answer in exactly one.              *)
THEOREM NoneLost == ExSpec => []TxNoneLost
  <1>1. ExInit => ExInv
    BY ExBegins
  <1>2. ExInv /\ [ExNext]_exVars => ExInv'
    BY ExKept
  <1>3. ExInv => TxNoneLost
    BY TxInvNoneLost
  <1> QED
    BY <1>1, <1>2, <1>3, PTL DEF ExSpec

(* An HTTP answer goes to the request of its own connection when no other      *)
(* connection of its client to that server port is heard between the two.      *)
THEOREM OwnConnection == ExSpec => []TxOwnConnection
  <1>1. ExInit => ExInv
    BY ExBegins
  <1>2. ExInv /\ [ExNext]_exVars => ExInv'
    BY ExKept
  <1>3. ExInv => TxOwnConnection
    BY TxInvOwn
  <1> QED
    BY <1>1, <1>2, <1>3, PTL DEF ExSpec

-----------------------------------------------------------------------------
(* Host profiles.  A table of profiles is a function of finitely many hosts;   *)
(* a measure gives each profile a number.                                      *)
HpCounters(K) == UNION {[D -> Int] : D \in {C \in SUBSET K : IsFiniteSet(C)}}
HpProfile(K) ==
    [sent : Int, received : Int, bytesSent : Int, bytesReceived : Int, seen : SUBSET Int,
     served : HpCounters(K), contacts : HpCounters(K), names : SUBSET STRING]
HpTables(K) == UNION {[H -> HpProfile(K)] : H \in {C \in SUBSET Int : IsFiniteSet(C)}}

HpMeasure(K, m) == m \in [HpProfile(K) -> Int] /\ m[HpBlank] = 0
HpTotal(t, m) == Total([h \in DOMAIN t |-> m[t[h]]])

LEMMA HpTableFacts ==
    ASSUME NEW K, NEW t \in HpTables(K)
    PROVE  /\ IsFiniteSet(DOMAIN t) /\ DOMAIN t \in SUBSET Int
           /\ \A h \in DOMAIN t : t[h] \in HpProfile(K)
           /\ t \in [DOMAIN t -> HpProfile(K)]
  BY DEF HpTables

LEMMA HpCounterFacts ==
    ASSUME NEW K, NEW c \in HpCounters(K)
    PROVE  IsFiniteSet(DOMAIN c) /\ DOMAIN c \in SUBSET K /\ c \in [DOMAIN c -> Int]
  BY DEF HpCounters

LEMMA HpBlankTyped ==
    ASSUME NEW K
    PROVE  HpBlank \in HpProfile(K) /\ Total(HpBlank.contacts) = 0 /\ Total(HpBlank.served) = 0
  <1>1. PICK c : c = [k \in {} |-> 0]
    OBVIOUS
  <1>2. c \in [{} -> Int] /\ IsFiniteSet({})
    BY <1>1, FS_EmptySet
  <1>3. c \in HpCounters(K)
    BY <1>2 DEF HpCounters
  <1>4. Total(c) = 0
    BY <1>2, TotalInt
  <1>5. HpBlank = [sent |-> 0, received |-> 0, bytesSent |-> 0, bytesReceived |-> 0,
                   seen |-> {}, served |-> c, contacts |-> c, names |-> {}]
    BY <1>1 DEF HpBlank
  <1> QED
    BY <1>3, <1>4, <1>5 DEF HpProfile

(* A host's profile is put in the place of the former one, or of a blank one.  *)
LEMMA HpSetTotal ==
    ASSUME NEW K, NEW t \in HpTables(K), NEW h \in Int, NEW x \in HpProfile(K), NEW m, HpMeasure(K, m)
    PROVE  HpTotal(HpSet(t, h, x), m) = HpTotal(t, m) - m[HpAt(t, h)] + m[x]
  <1>1. PICK D : D = DOMAIN t
    OBVIOUS
  <1>2. PICK f : f = [y \in D |-> m[t[y]]]
    OBVIOUS
  <1>3. PICK u : u = HpSet(t, h, x)
    OBVIOUS
  <1>4. PICK g : g = [y \in DOMAIN u |-> m[u[y]]]
    OBVIOUS
  <1>5. IsFiniteSet(D) /\ \A y \in D : t[y] \in HpProfile(K)
    BY <1>1, HpTableFacts
  <1>6. m \in [HpProfile(K) -> Int] /\ m[HpBlank] = 0 /\ m[x] \in Int
    BY DEF HpMeasure
  <1>7. f \in [D -> Int]
    BY <1>2, <1>5, <1>6
  <1>8. DOMAIN u = D \cup {h} /\ \A y \in D \cup {h} : u[y] = IF y = h THEN x ELSE t[y]
    BY <1>1, <1>3 DEF HpSet
  <1>9. g = [y \in D \cup {h} |-> IF y = h THEN m[x] ELSE f[y]]
    BY <1>2, <1>4, <1>8
  <1>10. Total(g) = Total(f) - (IF h \in D THEN f[h] ELSE 0) + m[x]
    BY <1>5, <1>6, <1>7, <1>9, TotalPut
  <1>11. (IF h \in D THEN f[h] ELSE 0) = m[HpAt(t, h)]
    BY <1>1, <1>2, <1>6 DEF HpAt
  <1> QED
    BY <1>1, <1>2, <1>3, <1>4, <1>10, <1>11 DEF HpTotal

LEMMA HpSetTyped ==
    ASSUME NEW K, NEW t \in HpTables(K), NEW h \in Int, NEW x \in HpProfile(K)
    PROVE  HpSet(t, h, x) \in HpTables(K)
  <1>1. PICK u : u = HpSet(t, h, x)
    OBVIOUS
  <1>2. IsFiniteSet(DOMAIN t) /\ DOMAIN t \in SUBSET Int /\ \A y \in DOMAIN t : t[y] \in HpProfile(K)
    BY HpTableFacts
  <1>3. IsFiniteSet(DOMAIN t \cup {h}) /\ DOMAIN t \cup {h} \in SUBSET Int
    BY <1>2, FS_AddElement
  <1>4. u \in [DOMAIN t \cup {h} -> HpProfile(K)]
    BY <1>1, <1>2 DEF HpSet
  <1>5. u \in HpTables(K)
    BY <1>3, <1>4 DEF HpTables
  <1> QED
    BY <1>1, <1>5

LEMMA HpAtTyped ==
    ASSUME NEW K, NEW t \in HpTables(K), NEW h
    PROVE  HpAt(t, h) \in HpProfile(K)
  BY HpTableFacts, HpBlankTyped DEF HpAt

LEMMA HpTotalInt ==
    ASSUME NEW K, NEW t \in HpTables(K), NEW m, HpMeasure(K, m)
    PROVE  HpTotal(t, m) \in Int
  <1>1. PICK f : f = [h \in DOMAIN t |-> m[t[h]]]
    OBVIOUS
  <1>2. IsFiniteSet(DOMAIN t) /\ f \in [DOMAIN t -> Int]
    BY <1>1, HpTableFacts DEF HpMeasure
  <1>3. Total(f) \in Int
    BY <1>2, TotalInt
  <1> QED
    BY <1>1, <1>3 DEF HpTotal

(* Both ends of something are recorded, the first before the second.           *)
HpBoth(t, a, x, b, y, u) ==
    u = HpSet(HpSet(t, a, x), b, y)

LEMMA HpBothTotal ==
    ASSUME NEW K, NEW t \in HpTables(K), NEW a \in Int, NEW x \in HpProfile(K),
           NEW b \in Int, NEW y \in HpProfile(K), NEW u, HpBoth(t, a, x, b, y, u), NEW m, HpMeasure(K, m)
    PROVE  HpTotal(u, m) = HpTotal(t, m) - m[HpAt(t, a)] + m[x] - m[HpAt(HpSet(t, a, x), b)] + m[y]
  <1>1. PICK o : o = HpSet(t, a, x)
    OBVIOUS
  <1>2. o \in HpTables(K)
    BY <1>1, HpSetTyped
  <1>3. HpTotal(o, m) = HpTotal(t, m) - m[HpAt(t, a)] + m[x]
    BY <1>1, HpSetTotal
  <1>4. u = HpSet(o, b, y)
    BY <1>1 DEF HpBoth
  <1>5. HpTotal(u, m) = HpTotal(o, m) - m[HpAt(o, b)] + m[y]
    BY <1>2, <1>4, HpSetTotal
  <1>6. HpAt(o, b) = HpAt(HpSet(t, a, x), b)
    BY <1>1
  <1>7. /\ HpTotal(t, m) \in Int /\ m[HpAt(t, a)] \in Int /\ m[x] \in Int
        /\ m[HpAt(o, b)] \in Int /\ m[y] \in Int
    BY <1>2, HpTotalInt, HpAtTyped DEF HpMeasure
  <1> QED
    BY <1>3, <1>5, <1>6, <1>7

(* What is counted of a profile.                                               *)
HpSent(K) == [x \in HpProfile(K) |-> x.sent]
HpReceived(K) == [x \in HpProfile(K) |-> x.received]
HpBytesSent(K) == [x \in HpProfile(K) |-> x.bytesSent]
HpBytesReceived(K) == [x \in HpProfile(K) |-> x.bytesReceived]
HpContacts(K) == [x \in HpProfile(K) |-> Total(x.contacts)]
HpServed(K) == [x \in HpProfile(K) |-> Total(x.served)]

LEMMA HpProfileFields ==
    ASSUME NEW K, NEW x \in HpProfile(K)
    PROVE  /\ x.sent \in Int /\ x.received \in Int /\ x.bytesSent \in Int /\ x.bytesReceived \in Int
           /\ x.seen \in SUBSET Int /\ x.served \in HpCounters(K) /\ x.contacts \in HpCounters(K)
           /\ x.names \in SUBSET STRING
           /\ x = [sent |-> x.sent, received |-> x.received, bytesSent |-> x.bytesSent,
                   bytesReceived |-> x.bytesReceived, seen |-> x.seen, served |-> x.served,
                   contacts |-> x.contacts, names |-> x.names]
  BY DEF HpProfile

LEMMA HpMeasures ==
    ASSUME NEW K
    PROVE  /\ HpMeasure(K, HpSent(K)) /\ HpMeasure(K, HpReceived(K))
           /\ HpMeasure(K, HpBytesSent(K)) /\ HpMeasure(K, HpBytesReceived(K))
           /\ HpMeasure(K, HpContacts(K)) /\ HpMeasure(K, HpServed(K))
  <1>1. ASSUME NEW c \in HpCounters(K) PROVE Total(c) \in Int
    BY HpCounterFacts, TotalInt
  <1>2. \A x \in HpProfile(K) :
           /\ x.sent \in Int /\ x.received \in Int /\ x.bytesSent \in Int /\ x.bytesReceived \in Int
           /\ Total(x.contacts) \in Int /\ Total(x.served) \in Int
    BY <1>1, HpProfileFields
  <1>3. /\ HpBlank \in HpProfile(K) /\ HpBlank.sent = 0 /\ HpBlank.received = 0
        /\ HpBlank.bytesSent = 0 /\ HpBlank.bytesReceived = 0
        /\ Total(HpBlank.contacts) = 0 /\ Total(HpBlank.served) = 0
    <2>1. HpBlank.sent = 0 /\ HpBlank.received = 0 /\ HpBlank.bytesSent = 0 /\ HpBlank.bytesReceived = 0
      BY DEF HpBlank
    <2> QED
      BY <2>1, HpBlankTyped
  <1>4. HpMeasure(K, HpSent(K)) /\ HpMeasure(K, HpReceived(K))
    BY <1>2, <1>3 DEF HpMeasure, HpSent, HpReceived
  <1>5. HpMeasure(K, HpBytesSent(K)) /\ HpMeasure(K, HpBytesReceived(K))
    BY <1>2, <1>3 DEF HpMeasure, HpBytesSent, HpBytesReceived
  <1>6. HpMeasure(K, HpContacts(K)) /\ HpMeasure(K, HpServed(K))
    BY <1>2, <1>3 DEF HpMeasure, HpContacts, HpServed
  <1> QED
    BY <1>4, <1>5, <1>6

LEMMA HpCountTotal ==
    ASSUME NEW K, NEW c \in HpCounters(K), NEW k \in K, NEW n \in Int
    PROVE  HpCount(c, k, n) \in HpCounters(K) /\ Total(HpCount(c, k, n)) = Total(c) + n
  <1>1. PICK D : D = DOMAIN c
    OBVIOUS
  <1>2. IsFiniteSet(D) /\ D \in SUBSET K /\ c \in [D -> Int]
    BY <1>1, HpCounterFacts
  <1>3. PICK old : old = IF k \in D THEN c[k] ELSE 0
    OBVIOUS
  <1>4. old \in Int
    BY <1>2, <1>3
  <1>5. PICK g : g = HpCount(c, k, n)
    OBVIOUS
  <1>6. g = [x \in D \cup {k} |-> IF x = k THEN old + n ELSE c[x]]
    <2>1. g = [x \in D \cup {k} |-> (IF x \in D THEN c[x] ELSE 0) + (IF x = k THEN n ELSE 0)]
      BY <1>1, <1>5 DEF HpCount
    <2>2. \A x \in D \cup {k} : (IF x \in D THEN c[x] ELSE 0) + (IF x = k THEN n ELSE 0)
                                  = IF x = k THEN old + n ELSE c[x]
      BY <1>2, <1>3, <1>4
    <2> QED
      BY <2>1, <2>2
  <1>7. /\ IsFiniteSet(D \cup {k}) /\ g \in [D \cup {k} -> Int]
        /\ Total(g) = Total(c) - old + (old + n)
    <2>1. old + n \in Int
      BY <1>4
    <2> QED
      BY <1>2, <1>3, <1>6, <2>1, TotalPut
  <1>8. Total(c) \in Int
    BY <1>2, TotalInt
  <1>9. g \in HpCounters(K)
    BY <1>2, <1>7 DEF HpCounters
  <1> QED
    BY <1>4, <1>5, <1>7, <1>8, <1>9

(* A profile with other counts.                                                *)
HpWith(x, sent, received, bytesSent, bytesReceived, seen, served, contacts) ==
    [sent |-> sent, received |-> received, bytesSent |-> bytesSent, bytesReceived |-> bytesReceived,
     seen |-> seen, served |-> served, contacts |-> contacts, names |-> x.names]

LEMMA HpWithMeasured ==
    ASSUME NEW K, NEW x \in HpProfile(K), NEW sent \in Int, NEW received \in Int,
           NEW bytesSent \in Int, NEW bytesReceived \in Int, NEW seen \in SUBSET Int,
           NEW served \in HpCounters(K), NEW contacts \in HpCounters(K),
           NEW y, y = HpWith(x, sent, received, bytesSent, bytesReceived, seen, served, contacts)
    PROVE  /\ y \in HpProfile(K)
           /\ HpSent(K)[y] = sent /\ HpReceived(K)[y] = received
           /\ HpBytesSent(K)[y] = bytesSent /\ HpBytesReceived(K)[y] = bytesReceived
           /\ HpContacts(K)[y] = Total(contacts) /\ HpServed(K)[y] = Total(served)
  <1>1. y \in HpProfile(K)
    BY HpProfileFields DEF HpWith, HpProfile
  <1>2. /\ y.sent = sent /\ y.received = received /\ y.bytesSent = bytesSent
        /\ y.bytesReceived = bytesReceived /\ y.contacts = contacts /\ y.served = served
    BY DEF HpWith
  <1>3. HpSent(K)[y] = sent /\ HpReceived(K)[y] = received
    BY <1>1, <1>2 DEF HpSent, HpReceived
  <1>4. HpBytesSent(K)[y] = bytesSent /\ HpBytesReceived(K)[y] = bytesReceived
    BY <1>1, <1>2 DEF HpBytesSent, HpBytesReceived
  <1>5. HpContacts(K)[y] = Total(contacts) /\ HpServed(K)[y] = Total(served)
    BY <1>1, <1>2 DEF HpContacts, HpServed
  <1> QED
    BY <1>1, <1>3, <1>4, <1>5

LEMMA HpMeasured ==
    ASSUME NEW K, NEW x \in HpProfile(K)
    PROVE  /\ HpSent(K)[x] = x.sent /\ HpReceived(K)[x] = x.received
           /\ HpBytesSent(K)[x] = x.bytesSent /\ HpBytesReceived(K)[x] = x.bytesReceived
           /\ HpContacts(K)[x] = Total(x.contacts) /\ HpServed(K)[x] = Total(x.served)
  BY DEF HpSent, HpReceived, HpBytesSent, HpBytesReceived, HpContacts, HpServed

(* What a step adds to the six totals of a table.                              *)
HpGains(K, t, u, sent, received, bytesSent, bytesReceived, contacts, served) ==
    /\ u \in HpTables(K)
    /\ HpTotal(u, HpSent(K)) = HpTotal(t, HpSent(K)) + sent
    /\ HpTotal(u, HpReceived(K)) = HpTotal(t, HpReceived(K)) + received
    /\ HpTotal(u, HpBytesSent(K)) = HpTotal(t, HpBytesSent(K)) + bytesSent
    /\ HpTotal(u, HpBytesReceived(K)) = HpTotal(t, HpBytesReceived(K)) + bytesReceived
    /\ HpTotal(u, HpContacts(K)) = HpTotal(t, HpContacts(K)) + contacts
    /\ HpTotal(u, HpServed(K)) = HpTotal(t, HpServed(K)) + served

(* A step at two ends gains what it adds to either profile.                    *)
LEMMA HpBothGain ==
    ASSUME NEW K, NEW t \in HpTables(K), NEW a \in Int, NEW x \in HpProfile(K), NEW b \in Int,
           NEW r, r = HpAt(HpSet(t, a, x), b), NEW y \in HpProfile(K), NEW u, HpBoth(t, a, x, b, y, u),
           NEW s, s = HpAt(t, a), NEW m, HpMeasure(K, m), NEW d1 \in Int, NEW d2 \in Int,
           m[x] = m[s] + d1, m[y] = m[r] + d2
    PROVE  HpTotal(u, m) = HpTotal(t, m) + (d1 + d2)
  <1>1. HpTotal(u, m) = HpTotal(t, m) - m[s] + m[x] - m[r] + m[y]
    BY HpBothTotal
  <1>2. s \in HpProfile(K) /\ r \in HpProfile(K)
    BY HpSetTyped, HpAtTyped
  <1>3. m[s] \in Int /\ m[r] \in Int /\ HpTotal(t, m) \in Int
    BY <1>2, HpTotalInt DEF HpMeasure
  <1> QED
    BY <1>1, <1>3

(* One end's profile after a packet.                                           *)
LEMMA HpSending ==
    ASSUME NEW K, NEW s \in HpProfile(K), NEW n, NEW z
    PROVE  [s EXCEPT !.sent = @ + 1, !.bytesSent = @ + n, !.seen = @ \cup {z}] =
           HpWith(s, s.sent + 1, s.received, s.bytesSent + n, s.bytesReceived,
                  s.seen \cup {z}, s.served, s.contacts)
  <1>1. PICK a, b, c, d, e, f, g, h :
           /\ a = s.sent /\ b = s.received /\ c = s.bytesSent /\ d = s.bytesReceived
           /\ e = s.seen /\ f = s.served /\ g = s.contacts /\ h = s.names
    OBVIOUS
  <1>2. s = [sent |-> a, received |-> b, bytesSent |-> c, bytesReceived |-> d,
           seen |-> e, served |-> f, contacts |-> g, names |-> h]
    BY <1>1, HpProfileFields
  <1>3. PICK s1 : s1 = [s EXCEPT !.sent = @ + 1]
    OBVIOUS
  <1>4. s1 = [sent |-> a + 1, received |-> b, bytesSent |-> c, bytesReceived |-> d,
           seen |-> e, served |-> f, contacts |-> g, names |-> h]
    BY <1>2, <1>3
  <1>5. PICK s2 : s2 = [s1 EXCEPT !.bytesSent = @ + n]
    OBVIOUS
  <1>6. s2 = [sent |-> a + 1, received |-> b, bytesSent |-> c + n, bytesReceived |-> d,
           seen |-> e, served |-> f, contacts |-> g, names |-> h]
    BY <1>4, <1>5
  <1>7. PICK s3 : s3 = [s2 EXCEPT !.seen = @ \cup {z}]
    OBVIOUS
  <1>8. s3 = [sent |-> a + 1, received |-> b, bytesSent |-> c + n, bytesReceived |-> d,
           seen |-> e \cup {z}, served |-> f, contacts |-> g, names |-> h]
    BY <1>6, <1>7
  <1>9. s3 = [s EXCEPT !.sent = @ + 1, !.bytesSent = @ + n, !.seen = @ \cup {z}]
    BY <1>3, <1>5, <1>7
  <1> QED
    BY <1>1, <1>8, <1>9 DEF HpWith

LEMMA HpReceiving ==
    ASSUME NEW K, NEW s \in HpProfile(K), NEW n, NEW z
    PROVE  [s EXCEPT !.received = @ + 1, !.bytesReceived = @ + n, !.seen = @ \cup {z}] =
           HpWith(s, s.sent, s.received + 1, s.bytesSent, s.bytesReceived + n,
                  s.seen \cup {z}, s.served, s.contacts)
  <1>1. PICK a, b, c, d, e, f, g, h :
           /\ a = s.sent /\ b = s.received /\ c = s.bytesSent /\ d = s.bytesReceived
           /\ e = s.seen /\ f = s.served /\ g = s.contacts /\ h = s.names
    OBVIOUS
  <1>2. s = [sent |-> a, received |-> b, bytesSent |-> c, bytesReceived |-> d,
           seen |-> e, served |-> f, contacts |-> g, names |-> h]
    BY <1>1, HpProfileFields
  <1>3. PICK s1 : s1 = [s EXCEPT !.received = @ + 1]
    OBVIOUS
  <1>4. s1 = [sent |-> a, received |-> b + 1, bytesSent |-> c, bytesReceived |-> d,
           seen |-> e, served |-> f, contacts |-> g, names |-> h]
    BY <1>2, <1>3
  <1>5. PICK s2 : s2 = [s1 EXCEPT !.bytesReceived = @ + n]
    OBVIOUS
  <1>6. s2 = [sent |-> a, received |-> b + 1, bytesSent |-> c, bytesReceived |-> d + n,
           seen |-> e, served |-> f, contacts |-> g, names |-> h]
    BY <1>4, <1>5
  <1>7. PICK s3 : s3 = [s2 EXCEPT !.seen = @ \cup {z}]
    OBVIOUS
  <1>8. s3 = [sent |-> a, received |-> b + 1, bytesSent |-> c, bytesReceived |-> d + n,
           seen |-> e \cup {z}, served |-> f, contacts |-> g, names |-> h]
    BY <1>6, <1>7
  <1>9. s3 = [s EXCEPT !.received = @ + 1, !.bytesReceived = @ + n, !.seen = @ \cup {z}]
    BY <1>3, <1>5, <1>7
  <1> QED
    BY <1>1, <1>8, <1>9 DEF HpWith

LEMMA HpObserved ==
    ASSUME NEW K, NEW t \in HpTables(K), NEW p \in ExPacket
    PROVE  HpGains(K, t, HpObserve(t, p), 1, 1, p.len, p.len, 0, 0)
  <1>1. PICK a : a = p.src[1]
    OBVIOUS
  <1>2. PICK b : b = p.dst[1]
    OBVIOUS
  <1>3. PICK s : s = HpAt(t, a)
    OBVIOUS
  <1>4. PICK x : x = HpWith(s, s.sent + 1, s.received, s.bytesSent + p.len, s.bytesReceived,
                            s.seen \cup {p.at}, s.served, s.contacts)
    OBVIOUS
  <1>5. PICK r : r = HpAt(HpSet(t, a, x), b)
    OBVIOUS
  <1>6. PICK y : y = HpWith(r, r.sent, r.received + 1, r.bytesSent, r.bytesReceived + p.len,
                            r.seen \cup {p.at}, r.served, r.contacts)
    OBVIOUS
  <1>7. a \in Int /\ b \in Int /\ p.len \in Int /\ p.at \in Int
    BY <1>1, <1>2, ExPacketFields
  <1>8. s \in HpProfile(K)
    BY <1>3, <1>7, HpAtTyped
  <1>9. /\ x \in HpProfile(K)
        /\ HpSent(K)[x] = s.sent + 1 /\ HpReceived(K)[x] = s.received
        /\ HpBytesSent(K)[x] = s.bytesSent + p.len /\ HpBytesReceived(K)[x] = s.bytesReceived
        /\ HpContacts(K)[x] = Total(s.contacts) /\ HpServed(K)[x] = Total(s.served)
    <2>1. /\ s.sent + 1 \in Int /\ s.bytesSent + p.len \in Int /\ s.seen \cup {p.at} \in SUBSET Int
          /\ s.received \in Int /\ s.bytesReceived \in Int
          /\ s.served \in HpCounters(K) /\ s.contacts \in HpCounters(K)
      BY <1>7, <1>8, HpProfileFields
    <2> QED
      BY <1>4, <1>8, <2>1, HpWithMeasured
  <1>10. r \in HpProfile(K)
    <2>1. HpSet(t, a, x) \in HpTables(K)
      BY <1>7, <1>9, HpSetTyped
    <2> QED
      BY <1>5, <1>7, <2>1, HpAtTyped
  <1>11. /\ y \in HpProfile(K)
         /\ HpSent(K)[y] = r.sent /\ HpReceived(K)[y] = r.received + 1
         /\ HpBytesSent(K)[y] = r.bytesSent /\ HpBytesReceived(K)[y] = r.bytesReceived + p.len
         /\ HpContacts(K)[y] = Total(r.contacts) /\ HpServed(K)[y] = Total(r.served)
    <2>1. /\ r.received + 1 \in Int /\ r.bytesReceived + p.len \in Int /\ r.seen \cup {p.at} \in SUBSET Int
          /\ r.sent \in Int /\ r.bytesSent \in Int
          /\ r.served \in HpCounters(K) /\ r.contacts \in HpCounters(K)
      BY <1>7, <1>10, HpProfileFields
    <2> QED
      BY <1>6, <1>10, <2>1, HpWithMeasured
  <1>12. PICK u : u = HpObserve(t, p)
    OBVIOUS
  <1>13. HpBoth(t, a, x, b, y, u)
    <2>1. x = [s EXCEPT !.sent = @ + 1, !.bytesSent = @ + p.len, !.seen = @ \cup {p.at}]
      BY <1>4, <1>8, HpSending
    <2>2. y = [r EXCEPT !.received = @ + 1, !.bytesReceived = @ + p.len, !.seen = @ \cup {p.at}]
      BY <1>6, <1>10, HpReceiving
    <2> QED
      BY <1>1, <1>2, <1>3, <1>5, <1>12, <2>1, <2>2 DEF HpObserve, HpBoth
  <1>14. u \in HpTables(K)
    <2>1. HpSet(t, a, x) \in HpTables(K)
      BY <1>7, <1>9, HpSetTyped
    <2> QED
      BY <1>7, <1>11, <1>13, <2>1, HpSetTyped DEF HpBoth
  <1>15. /\ HpSent(K)[s] = s.sent /\ HpReceived(K)[s] = s.received
         /\ HpBytesSent(K)[s] = s.bytesSent /\ HpBytesReceived(K)[s] = s.bytesReceived
         /\ HpContacts(K)[s] = Total(s.contacts) /\ HpServed(K)[s] = Total(s.served)
    BY <1>8, HpMeasured
  <1>16. /\ HpSent(K)[r] = r.sent /\ HpReceived(K)[r] = r.received
         /\ HpBytesSent(K)[r] = r.bytesSent /\ HpBytesReceived(K)[r] = r.bytesReceived
         /\ HpContacts(K)[r] = Total(r.contacts) /\ HpServed(K)[r] = Total(r.served)
    BY <1>10, HpMeasured
  <1>17. ASSUME NEW m, HpMeasure(K, m), NEW d1 \in Int, NEW d2 \in Int, NEW d, d = d1 + d2,
                m[x] = m[s] + d1, m[y] = m[r] + d2
         PROVE  HpTotal(u, m) = HpTotal(t, m) + d
    BY <1>3, <1>5, <1>7, <1>9, <1>11, <1>13, <1>17, HpBothGain
  <1>18. ASSUME NEW m, HpMeasure(K, m) PROVE m[s] + 0 = m[s] /\ m[r] + 0 = m[r]
    BY <1>8, <1>10, <1>18 DEF HpMeasure
  <1>19. HpTotal(u, HpSent(K)) = HpTotal(t, HpSent(K)) + 1
    BY <1>9, <1>11, <1>15, <1>16, <1>17, <1>18, HpMeasures
  <1>20. HpTotal(u, HpReceived(K)) = HpTotal(t, HpReceived(K)) + 1
    BY <1>9, <1>11, <1>15, <1>16, <1>17, <1>18, HpMeasures
  <1>21. HpTotal(u, HpBytesSent(K)) = HpTotal(t, HpBytesSent(K)) + p.len
    BY <1>7, <1>9, <1>11, <1>15, <1>16, <1>17, <1>18, HpMeasures
  <1>22. HpTotal(u, HpBytesReceived(K)) = HpTotal(t, HpBytesReceived(K)) + p.len
    BY <1>7, <1>9, <1>11, <1>15, <1>16, <1>17, <1>18, HpMeasures
  <1>23. HpTotal(u, HpContacts(K)) = HpTotal(t, HpContacts(K)) + 0
    BY <1>9, <1>11, <1>15, <1>16, <1>17, <1>18, HpMeasures
  <1>24. HpTotal(u, HpServed(K)) = HpTotal(t, HpServed(K)) + 0
    BY <1>9, <1>11, <1>15, <1>16, <1>17, <1>18, HpMeasures
  <1> QED
    BY <1>12, <1>14, <1>19, <1>20, <1>21, <1>22, <1>23, <1>24 DEF HpGains

(* A flow that may be recorded: K has its keys.                                *)
HpFlow(K, f) ==
    /\ f.src[1] \in Int /\ f.dst[1] \in Int /\ f.packets \in Int
    /\ <<f.dst, f.app>> \in K /\ <<f.src[1], f.dst[2]>> \in K

LEMMA HpContacting ==
    ASSUME NEW K, NEW s \in HpProfile(K), NEW k, NEW n
    PROVE  [s EXCEPT !.contacts = HpCount(@, k, n)] =
           HpWith(s, s.sent, s.received, s.bytesSent, s.bytesReceived, s.seen, s.served,
                  HpCount(s.contacts, k, n))
  <1>1. PICK a, b, c, d, e, f, g, h :
           /\ a = s.sent /\ b = s.received /\ c = s.bytesSent /\ d = s.bytesReceived
           /\ e = s.seen /\ f = s.served /\ g = s.contacts /\ h = s.names
    OBVIOUS
  <1>2. s = [sent |-> a, received |-> b, bytesSent |-> c, bytesReceived |-> d,
             seen |-> e, served |-> f, contacts |-> g, names |-> h]
    BY <1>1, HpProfileFields
  <1>3. PICK v : v = HpCount(g, k, n)
    OBVIOUS
  <1>4. [s EXCEPT !.contacts = v] =
            [sent |-> a, received |-> b, bytesSent |-> c, bytesReceived |-> d,
             seen |-> e, served |-> f, contacts |-> v, names |-> h]
    BY <1>2
  <1> QED
    BY <1>1, <1>3, <1>4 DEF HpWith

LEMMA HpServing ==
    ASSUME NEW K, NEW s \in HpProfile(K), NEW k, NEW n
    PROVE  [s EXCEPT !.served = HpCount(@, k, n)] =
           HpWith(s, s.sent, s.received, s.bytesSent, s.bytesReceived, s.seen,
                  HpCount(s.served, k, n), s.contacts)
  <1>1. PICK a, b, c, d, e, f, g, h :
           /\ a = s.sent /\ b = s.received /\ c = s.bytesSent /\ d = s.bytesReceived
           /\ e = s.seen /\ f = s.served /\ g = s.contacts /\ h = s.names
    OBVIOUS
  <1>2. s = [sent |-> a, received |-> b, bytesSent |-> c, bytesReceived |-> d,
             seen |-> e, served |-> f, contacts |-> g, names |-> h]
    BY <1>1, HpProfileFields
  <1>3. PICK v : v = HpCount(f, k, n)
    OBVIOUS
  <1>4. [s EXCEPT !.served = v] =
            [sent |-> a, received |-> b, bytesSent |-> c, bytesReceived |-> d,
             seen |-> e, served |-> v, contacts |-> g, names |-> h]
    BY <1>2
  <1> QED
    BY <1>1, <1>3, <1>4 DEF HpWith

LEMMA HpRecorded ==
    ASSUME NEW K, NEW t \in HpTables(K), NEW f, HpFlow(K, f)
    PROVE  HpGains(K, t, HpRecordFlow(t, f), 0, 0, 0, 0, f.packets, f.packets)
  <1>1. PICK a : a = f.src[1]
    OBVIOUS
  <1>2. PICK b : b = f.dst[1]
    OBVIOUS
  <1>3. PICK s : s = HpAt(t, a)
    OBVIOUS
  <1>4. PICK new : new = HpCount(s.contacts, <<f.dst, f.app>>, f.packets)
    OBVIOUS
  <1>5. PICK x : x = HpWith(s, s.sent, s.received, s.bytesSent, s.bytesReceived, s.seen, s.served, new)
    OBVIOUS
  <1>6. PICK r : r = HpAt(HpSet(t, a, x), b)
    OBVIOUS
  <1>7. PICK more : more = HpCount(r.served, <<f.src[1], f.dst[2]>>, f.packets)
    OBVIOUS
  <1>8. PICK y : y = HpWith(r, r.sent, r.received, r.bytesSent, r.bytesReceived, r.seen, more, r.contacts)
    OBVIOUS
  <1>9. PICK n : n = f.packets
    OBVIOUS
  <1>10. a \in Int /\ b \in Int /\ n \in Int
    BY <1>1, <1>2, <1>9 DEF HpFlow
  <1>11. s \in HpProfile(K)
    BY <1>3, <1>10, HpAtTyped
  <1>12. new \in HpCounters(K) /\ Total(new) = Total(s.contacts) + n
    <2>1. s.contacts \in HpCounters(K) /\ <<f.dst, f.app>> \in K /\ f.packets \in Int
      BY <1>11, HpProfileFields DEF HpFlow
    <2> QED
      BY <1>4, <1>9, <2>1, HpCountTotal
  <1>13. /\ x \in HpProfile(K)
         /\ HpSent(K)[x] = s.sent /\ HpReceived(K)[x] = s.received
         /\ HpBytesSent(K)[x] = s.bytesSent /\ HpBytesReceived(K)[x] = s.bytesReceived
         /\ HpContacts(K)[x] = Total(s.contacts) + n /\ HpServed(K)[x] = Total(s.served)
    <2>1. /\ s.sent \in Int /\ s.bytesSent \in Int /\ s.seen \in SUBSET Int
          /\ s.received \in Int /\ s.bytesReceived \in Int /\ s.served \in HpCounters(K)
      BY <1>11, HpProfileFields
    <2> QED
      BY <1>5, <1>11, <1>12, <2>1, HpWithMeasured
  <1>14. HpSet(t, a, x) \in HpTables(K)
    BY <1>10, <1>13, HpSetTyped
  <1>15. r \in HpProfile(K)
    BY <1>6, <1>10, <1>14, HpAtTyped
  <1>16. more \in HpCounters(K) /\ Total(more) = Total(r.served) + n
    <2>1. r.served \in HpCounters(K) /\ <<f.src[1], f.dst[2]>> \in K /\ f.packets \in Int
      BY <1>15, HpProfileFields DEF HpFlow
    <2> QED
      BY <1>7, <1>9, <2>1, HpCountTotal
  <1>17. /\ y \in HpProfile(K)
         /\ HpSent(K)[y] = r.sent /\ HpReceived(K)[y] = r.received
         /\ HpBytesSent(K)[y] = r.bytesSent /\ HpBytesReceived(K)[y] = r.bytesReceived
         /\ HpContacts(K)[y] = Total(r.contacts) /\ HpServed(K)[y] = Total(r.served) + n
    <2>1. /\ r.sent \in Int /\ r.bytesSent \in Int /\ r.seen \in SUBSET Int
          /\ r.received \in Int /\ r.bytesReceived \in Int /\ r.contacts \in HpCounters(K)
      BY <1>15, HpProfileFields
    <2> QED
      BY <1>8, <1>15, <1>16, <2>1, HpWithMeasured
  <1>18. PICK u : u = HpRecordFlow(t, f)
    OBVIOUS
  <1>19. HpBoth(t, a, x, b, y, u)
    <2>1. x = [s EXCEPT !.contacts = HpCount(@, <<f.dst, f.app>>, f.packets)]
      BY <1>4, <1>5, <1>11, HpContacting
    <2>2. y = [r EXCEPT !.served = HpCount(@, <<f.src[1], f.dst[2]>>, f.packets)]
      BY <1>7, <1>8, <1>15, HpServing
    <2> QED
      BY <1>1, <1>2, <1>3, <1>6, <1>18, <2>1, <2>2 DEF HpRecordFlow, HpBoth
  <1>20. u \in HpTables(K)
    BY <1>10, <1>14, <1>17, <1>19, HpSetTyped DEF HpBoth
  <1>21. /\ HpSent(K)[s] = s.sent /\ HpReceived(K)[s] = s.received
         /\ HpBytesSent(K)[s] = s.bytesSent /\ HpBytesReceived(K)[s] = s.bytesReceived
         /\ HpContacts(K)[s] = Total(s.contacts) /\ HpServed(K)[s] = Total(s.served)
    BY <1>11, HpMeasured
  <1>22. /\ HpSent(K)[r] = r.sent /\ HpReceived(K)[r] = r.received
         /\ HpBytesSent(K)[r] = r.bytesSent /\ HpBytesReceived(K)[r] = r.bytesReceived
         /\ HpContacts(K)[r] = Total(r.contacts) /\ HpServed(K)[r] = Total(r.served)
    BY <1>15, HpMeasured
  <1>23. ASSUME NEW m, HpMeasure(K, m), NEW d1 \in Int, NEW d2 \in Int, NEW d, d = d1 + d2,
                m[x] = m[s] + d1, m[y] = m[r] + d2
         PROVE  HpTotal(u, m) = HpTotal(t, m) + d
    BY <1>3, <1>6, <1>10, <1>13, <1>17, <1>19, <1>23, HpBothGain
  <1>24. ASSUME NEW m, HpMeasure(K, m) PROVE m[s] + 0 = m[s] /\ m[r] + 0 = m[r]
    BY <1>11, <1>15, <1>24 DEF HpMeasure
  <1>25. HpTotal(u, HpSent(K)) = HpTotal(t, HpSent(K)) + 0
    BY <1>13, <1>17, <1>21, <1>22, <1>23, <1>24, HpMeasures
  <1>26. HpTotal(u, HpReceived(K)) = HpTotal(t, HpReceived(K)) + 0
    BY <1>13, <1>17, <1>21, <1>22, <1>23, <1>24, HpMeasures
  <1>27. HpTotal(u, HpBytesSent(K)) = HpTotal(t, HpBytesSent(K)) + 0
    BY <1>13, <1>17, <1>21, <1>22, <1>23, <1>24, HpMeasures
  <1>28. HpTotal(u, HpBytesReceived(K)) = HpTotal(t, HpBytesReceived(K)) + 0
    BY <1>13, <1>17, <1>21, <1>22, <1>23, <1>24, HpMeasures
  <1>29. HpTotal(u, HpContacts(K)) = HpTotal(t, HpContacts(K)) + n
    BY <1>10, <1>13, <1>17, <1>21, <1>22, <1>23, <1>24, HpMeasures
  <1>30. HpTotal(u, HpServed(K)) = HpTotal(t, HpServed(K)) + n
    BY <1>10, <1>13, <1>17, <1>21, <1>22, <1>23, <1>24, HpMeasures
  <1> QED
    BY <1>9, <1>18, <1>20, <1>25, <1>26, <1>27, <1>28, <1>29, <1>30 DEF HpGains

(* The values of a measure over a run.                                         *)
HpAlong(acc, n, m) == [k \in 0 .. n |-> HpTotal(acc[k], m)]

(* Every packet is counted once at its sender and once at its receiver.        *)
LEMMA HpObservedAll ==
    ASSUME NEW K, NEW packets \in Seq(ExPacket), NEW t,
           t = FoldLeft(HpObserve, [h \in {} |-> HpBlank], packets)
    PROVE  /\ t \in HpTables(K)
           /\ HpTotal(t, HpSent(K)) = Len(packets) /\ HpTotal(t, HpReceived(K)) = Len(packets)
           /\ HpTotal(t, HpBytesSent(K)) = HpTotal(t, HpBytesReceived(K))
           /\ HpTotal(t, HpContacts(K)) = 0 /\ HpTotal(t, HpServed(K)) = 0
  <1>1. PICK Y : Y = HpTables(K)
    OBVIOUS
  <1>2. PICK base : base = [h \in {} |-> HpBlank]
    OBVIOUS
  <1>3. PICK n : n = Len(packets)
    OBVIOUS
  <1>4. n \in Nat /\ DOMAIN packets = 1 .. n /\ \A k \in 1 .. n : packets[k] \in ExPacket
    BY <1>3
  <1>5. base \in Y /\ \A m : HpMeasure(K, m) => HpTotal(base, m) = 0
    <2>1. base \in [{} -> HpProfile(K)] /\ IsFiniteSet({})
      BY <1>2, FS_EmptySet
    <2>2. base \in Y
      BY <1>1, <2>1 DEF HpTables
    <2>3. ASSUME NEW m, HpMeasure(K, m) PROVE HpTotal(base, m) = 0
      <3>1. PICK f : f = [h \in DOMAIN base |-> m[base[h]]]
        OBVIOUS
      <3>2. f \in [{} -> Int]
        BY <1>2, <3>1
      <3>3. Total(f) = 0
        BY <2>1, <3>2, TotalInt
      <3> QED
        BY <3>1, <3>3 DEF HpTotal
    <2> QED
      BY <2>2, <2>3
  <1>6. PICK step : step = [z \in Y \X ExPacket |-> HpObserve(z[1], z[2])]
    OBVIOUS
  <1>7. \A y \in Y : \A p \in ExPacket : /\ step[<<y, p>>] = HpObserve(y, p)
                                         /\ HpGains(K, y, step[<<y, p>>], 1, 1, p.len, p.len, 0, 0)
    BY <1>1, <1>6, HpObserved
  <1>8. step \in [Y \X ExPacket -> Y]
    <2>1. \A y \in Y : \A p \in ExPacket : HpObserve(y, p) \in Y
      BY <1>1, <1>7 DEF HpGains
    <2> QED
      BY <1>6, <2>1
  <1>9. PICK acc : Runs(Y, packets, step, base, acc) /\ acc[n] = t
    <2> DEFINE Body(g) == [s \in SUBSET DOMAIN packets |->
                              IF s = {} THEN base ELSE HpObserve(g[s \ {Max(s)}], packets[Max(s)])]
               it == CHOOSE g : g = Body(g)
    <2>1. t = it[DOMAIN packets]
      BY <1>2 DEF FoldLeft, MapThenFoldSet
    <2>2. \A s \in SUBSET (1 .. n) : s # {} => Max(s) \in 1 .. n
      BY <1>4, PrefixSet
    <2>3. PICK g \in [SUBSET (1 .. n) -> Y] : FoldsLeft(Y, packets, step, base, g)
      BY <1>3, <1>5, <1>8, FoldLeftRuns
    <2>4. g = Body(g)
      <3>1. g[{}] = base
        BY <2>3 DEF FoldsLeft
      <3>2. ASSUME NEW s \in SUBSET (1 .. n), s # {}
            PROVE  g[s] = HpObserve(g[s \ {Max(s)}], packets[Max(s)])
        <4>1. g[s \ {Max(s)}] \in Y /\ packets[Max(s)] \in ExPacket
          BY <1>4, <2>2, <2>3, <3>2
        <4>2. g[s] = step[<<g[s \ {Max(s)}], packets[Max(s)]>>]
          BY <1>3, <2>3, <3>2, <4>1 DEF FoldsLeft, LastOf
        <4> QED
          BY <1>7, <4>1, <4>2
      <3> QED
        BY <1>4, <2>3, <3>1, <3>2
    <2>5. it = Body(it)
      <3>1. \E x : x = Body(x)
        BY <2>4
      <3> HIDE DEF Body
      <3> QED
        BY <3>1
    <2>6. \A s \in SUBSET (1 .. n) :
             it[s] = IF s = {} THEN base ELSE HpObserve(it[s \ {Max(s)}], packets[Max(s)])
      <3> HIDE DEF it
      <3> QED
        BY <1>4, <2>5
    <2> HIDE DEF it, Body
    <2>7. FoldsLeft(Y, packets, step, base, it)
      <3>1. ASSUME NEW s \in SUBSET (1 .. n), s # {}, it[s \ {Max(s)}] \in Y
            PROVE  it[s] = step[<<it[s \ {Max(s)}], packets[Max(s)]>>]
        <4>1. packets[Max(s)] \in ExPacket
          BY <1>4, <2>2, <3>1
        <4> QED
          BY <1>7, <2>6, <3>1, <4>1
      <3> QED
        BY <1>3, <2>6, <3>1 DEF FoldsLeft, LastOf
    <2>8. Ends(Y, packets, step, base, it)
      BY <1>5, <1>8, <2>7, FoldLeftRuns
    <2> QED
      BY <1>3, <1>4, <2>1, <2>8 DEF Ends
  <1>10. acc \in [0 .. n -> Y] /\ acc[0] = base
    BY <1>3, <1>9 DEF Runs
  <1>11. ASSUME NEW k \in 1 .. n
         PROVE  HpGains(K, acc[k - 1], acc[k], 1, 1, packets[k].len, packets[k].len, 0, 0)
    <2>1. acc[k - 1] \in Y /\ packets[k] \in ExPacket /\ acc[k] = step[<<acc[k - 1], packets[k]>>]
      BY <1>3, <1>4, <1>9, <1>10, <1>11 DEF Runs
    <2> QED
      BY <1>7, <2>1
  <1>12. ASSUME NEW k \in 0 .. n, NEW m, HpMeasure(K, m)
         PROVE  HpTotal(acc[k], m) \in Int
    BY <1>1, <1>10, <1>12, HpTotalInt
  <1>13. ASSUME NEW m, HpMeasure(K, m),
                \A k \in 1 .. n : HpTotal(acc[k], m) = HpTotal(acc[k - 1], m) + 1
         PROVE  HpTotal(t, m) = n
    <2>1. PICK p : p = HpAlong(acc, n, m)
      OBVIOUS
    <2>2. PICK q : q = [k \in 0 .. n |-> k]
      OBVIOUS
    <2>3. p[0] = q[0]
      BY <1>4, <1>5, <1>10, <1>13, <2>1, <2>2 DEF HpAlong
    <2>4. ASSUME NEW k \in 1 .. n, p[k - 1] = q[k - 1] PROVE p[k] = q[k]
      <3>1. k - 1 \in 0 .. n /\ k \in 0 .. n
        BY <1>4
      <3>2. p[k] = p[k - 1] + 1
        BY <1>13, <2>1, <3>1 DEF HpAlong
      <3> QED
        BY <1>4, <2>2, <2>4, <3>1, <3>2
    <2>5. p[n] = q[n]
      BY <1>4, <2>3, <2>4, RunsAlike
    <2> QED
      BY <1>4, <1>9, <2>1, <2>2, <2>5 DEF HpAlong
  <1>14. ASSUME NEW m, HpMeasure(K, m),
                \A k \in 1 .. n : HpTotal(acc[k], m) = HpTotal(acc[k - 1], m) + 0
         PROVE  HpTotal(t, m) = 0
    <2>1. PICK p : p = HpAlong(acc, n, m)
      OBVIOUS
    <2>2. PICK q : q = [k \in 0 .. n |-> 0]
      OBVIOUS
    <2>3. p[0] = q[0]
      BY <1>4, <1>5, <1>10, <1>14, <2>1, <2>2 DEF HpAlong
    <2>4. ASSUME NEW k \in 1 .. n, p[k - 1] = q[k - 1] PROVE p[k] = q[k]
      <3>1. k - 1 \in 0 .. n /\ k \in 0 .. n
        BY <1>4
      <3>2. p[k] = p[k - 1] + 0
        BY <1>14, <2>1, <3>1 DEF HpAlong
      <3> QED
        BY <1>4, <2>2, <2>4, <3>1, <3>2
    <2>5. p[n] = q[n]
      BY <1>4, <2>3, <2>4, RunsAlike
    <2> QED
      BY <1>4, <1>9, <2>1, <2>2, <2>5 DEF HpAlong
  <1>15. HpTotal(t, HpSent(K)) = n /\ HpTotal(t, HpReceived(K)) = n
    BY <1>11, <1>13, HpMeasures DEF HpGains
  <1>16. HpTotal(t, HpContacts(K)) = 0 /\ HpTotal(t, HpServed(K)) = 0
    BY <1>11, <1>14, HpMeasures DEF HpGains
  <1>17. HpTotal(t, HpBytesSent(K)) = HpTotal(t, HpBytesReceived(K))
    <2>1. PICK p : p = HpAlong(acc, n, HpBytesSent(K))
      OBVIOUS
    <2>2. PICK q : q = HpAlong(acc, n, HpBytesReceived(K))
      OBVIOUS
    <2>3. p[0] = q[0]
      BY <1>4, <1>5, <1>10, <2>1, <2>2, HpMeasures DEF HpAlong
    <2>4. ASSUME NEW k \in 1 .. n, p[k - 1] = q[k - 1] PROVE p[k] = q[k]
      <3>1. k - 1 \in 0 .. n /\ k \in 0 .. n
        BY <1>4
      <3>2. p[k] = p[k - 1] + packets[k].len /\ q[k] = q[k - 1] + packets[k].len
        BY <1>11, <2>1, <2>2, <3>1 DEF HpAlong, HpGains
      <3> QED
        BY <2>4, <3>2
    <2>5. p[n] = q[n]
      BY <1>4, <2>3, <2>4, RunsAlike
    <2> QED
      BY <1>4, <1>9, <2>1, <2>2, <2>5 DEF HpAlong
  <1>18. t \in Y
    BY <1>4, <1>9, <1>10
  <1> QED
    BY <1>1, <1>3, <1>15, <1>16, <1>17, <1>18

(* Every flow is recorded once, at both ends.                                  *)
LEMMA HpRecordedAll ==
    ASSUME NEW K, NEW flows, IsFiniteSet(flows), \A f \in flows : HpFlow(K, f),
           NEW base \in HpTables(K), NEW t, t = FoldLeft(HpRecordFlow, base, SetToSeq(flows)),
           NEW all, all = Total([f \in flows |-> f.packets])
    PROVE  /\ t \in HpTables(K)
           /\ HpTotal(t, HpSent(K)) = HpTotal(base, HpSent(K))
           /\ HpTotal(t, HpReceived(K)) = HpTotal(base, HpReceived(K))
           /\ HpTotal(t, HpBytesSent(K)) = HpTotal(base, HpBytesSent(K))
           /\ HpTotal(t, HpBytesReceived(K)) = HpTotal(base, HpBytesReceived(K))
           /\ HpTotal(t, HpContacts(K)) = HpTotal(base, HpContacts(K)) + all
           /\ HpTotal(t, HpServed(K)) = HpTotal(base, HpServed(K)) + all
  <1>1. PICK Y : Y = HpTables(K)
    OBVIOUS
  <1>2. PICK seq : seq = SetToSeq(flows)
    OBVIOUS
  <1>3. PICK n : n = Cardinality(flows)
    OBVIOUS
  <1>4. /\ n \in Nat /\ seq \in Seq(flows) /\ Len(seq) = n /\ DOMAIN seq = 1 .. n
        /\ \A k \in 1 .. n : seq[k] \in flows
        /\ \A i, j \in 1 .. n : seq[i] = seq[j] => i = j
        /\ flows = {seq[i] : i \in 1 .. n}
    BY <1>2, <1>3, SetToSeqFacts
  <1>5. base \in Y
    BY <1>1
  <1>6. PICK step : step = [z \in Y \X flows |-> HpRecordFlow(z[1], z[2])]
    OBVIOUS
  <1>7. \A y \in Y : \A f \in flows :
           /\ step[<<y, f>>] = HpRecordFlow(y, f)
           /\ HpGains(K, y, step[<<y, f>>], 0, 0, 0, 0, f.packets, f.packets)
    BY <1>1, <1>6, HpRecorded
  <1>8. step \in [Y \X flows -> Y]
    <2>1. \A y \in Y : \A f \in flows : HpRecordFlow(y, f) \in Y
      BY <1>1, <1>7 DEF HpGains
    <2> QED
      BY <1>6, <2>1
  <1>9. PICK acc : Runs(Y, seq, step, base, acc) /\ acc[n] = t
    <2> DEFINE Body(g) == [s \in SUBSET DOMAIN seq |->
                              IF s = {} THEN base ELSE HpRecordFlow(g[s \ {Max(s)}], seq[Max(s)])]
               it == CHOOSE g : g = Body(g)
    <2>1. t = it[DOMAIN seq]
      BY <1>2 DEF FoldLeft, MapThenFoldSet
    <2>2. \A s \in SUBSET (1 .. n) : s # {} => Max(s) \in 1 .. n
      BY <1>4, PrefixSet
    <2>3. PICK g \in [SUBSET (1 .. n) -> Y] : FoldsLeft(Y, seq, step, base, g)
      BY <1>4, <1>5, <1>8, FoldLeftRuns
    <2>4. g = Body(g)
      <3>1. g[{}] = base
        BY <2>3 DEF FoldsLeft
      <3>2. ASSUME NEW s \in SUBSET (1 .. n), s # {}
            PROVE  g[s] = HpRecordFlow(g[s \ {Max(s)}], seq[Max(s)])
        <4>1. g[s \ {Max(s)}] \in Y /\ seq[Max(s)] \in flows
          BY <1>4, <2>2, <2>3, <3>2
        <4>2. g[s] = step[<<g[s \ {Max(s)}], seq[Max(s)]>>]
          BY <1>4, <2>3, <3>2, <4>1 DEF FoldsLeft, LastOf
        <4> QED
          BY <1>7, <4>1, <4>2
      <3> QED
        BY <1>4, <2>3, <3>1, <3>2
    <2>5. it = Body(it)
      <3>1. \E x : x = Body(x)
        BY <2>4
      <3> HIDE DEF Body
      <3> QED
        BY <3>1
    <2>6. \A s \in SUBSET (1 .. n) :
             it[s] = IF s = {} THEN base ELSE HpRecordFlow(it[s \ {Max(s)}], seq[Max(s)])
      <3> HIDE DEF it
      <3> QED
        BY <1>4, <2>5
    <2> HIDE DEF it, Body
    <2>7. FoldsLeft(Y, seq, step, base, it)
      <3>1. ASSUME NEW s \in SUBSET (1 .. n), s # {}, it[s \ {Max(s)}] \in Y
            PROVE  it[s] = step[<<it[s \ {Max(s)}], seq[Max(s)]>>]
        <4>1. seq[Max(s)] \in flows
          BY <1>4, <2>2, <3>1
        <4> QED
          BY <1>7, <2>6, <3>1, <4>1
      <3> QED
        BY <1>4, <2>6, <3>1 DEF FoldsLeft, LastOf
    <2>8. Ends(Y, seq, step, base, it)
      BY <1>4, <1>5, <1>8, <2>7, FoldLeftRuns
    <2> QED
      BY <1>4, <2>1, <2>8 DEF Ends
  <1>10. acc \in [0 .. n -> Y] /\ acc[0] = base
    BY <1>4, <1>9 DEF Runs
  <1>11. ASSUME NEW k \in 1 .. n
         PROVE  HpGains(K, acc[k - 1], acc[k], 0, 0, 0, 0, seq[k].packets, seq[k].packets)
    <2>1. acc[k - 1] \in Y /\ seq[k] \in flows /\ acc[k] = step[<<acc[k - 1], seq[k]>>]
      BY <1>4, <1>9, <1>10, <1>11 DEF Runs
    <2> QED
      BY <1>7, <2>1
  <1>12. ASSUME NEW k \in 0 .. n, NEW m, HpMeasure(K, m)
         PROVE  HpTotal(acc[k], m) \in Int
    BY <1>1, <1>10, <1>12, HpTotalInt
  <1>13. ASSUME NEW m, HpMeasure(K, m),
                \A k \in 1 .. n : HpTotal(acc[k], m) = HpTotal(acc[k - 1], m) + 0
         PROVE  HpTotal(t, m) = HpTotal(base, m)
    <2>1. PICK p : p = HpAlong(acc, n, m)
      OBVIOUS
    <2>2. PICK q : q = [k \in 0 .. n |-> HpTotal(base, m)]
      OBVIOUS
    <2>3. p[0] = q[0]
      BY <1>4, <1>10, <2>1, <2>2 DEF HpAlong
    <2>4. ASSUME NEW k \in 1 .. n, p[k - 1] = q[k - 1] PROVE p[k] = q[k]
      <3>1. k - 1 \in 0 .. n /\ k \in 0 .. n
        BY <1>4
      <3>2. p[k] = p[k - 1] + 0 /\ p[k - 1] \in Int
        BY <1>12, <1>13, <2>1, <3>1 DEF HpAlong
      <3>3. q[k] = q[k - 1]
        BY <2>2, <3>1
      <3> QED
        BY <2>4, <3>2, <3>3
    <2>5. p[n] = q[n]
      BY <1>4, <2>3, <2>4, RunsAlike
    <2> QED
      BY <1>4, <1>9, <2>1, <2>2, <2>5 DEF HpAlong
  <1>14. ASSUME NEW k \in 1 .. n
         PROVE  /\ Total([f \in {seq[i] : i \in 1 .. k} |-> f.packets])
                     = Total([f \in {seq[i] : i \in 1 .. k - 1} |-> f.packets]) + seq[k].packets
                /\ Total([f \in {seq[i] : i \in 1 .. k} |-> f.packets]) \in Int
                /\ Total([f \in {seq[i] : i \in 1 .. k - 1} |-> f.packets]) \in Int
                /\ seq[k].packets \in Int
    <2>1. PICK A : A = {seq[i] : i \in 1 .. k - 1}
      OBVIOUS
    <2>2. PICK B : B = {seq[i] : i \in 1 .. k}
      OBVIOUS
    <2>3. PICK x : x = seq[k]
      OBVIOUS
    <2>4. k \in Nat /\ 1 .. k = (1 .. k - 1) \cup {k} /\ 1 .. k \subseteq 1 .. n /\ k \notin 1 .. k - 1
      BY <1>4
    <2>5. A \subseteq flows /\ B \subseteq flows /\ x \in B /\ x \notin A /\ B \ {x} = A
      <3>1. A \subseteq flows /\ B \subseteq flows
        BY <1>4, <2>1, <2>2, <2>4
      <3>2. B = A \cup {x}
        BY <2>1, <2>2, <2>3, <2>4
      <3>3. x \notin A
        BY <1>4, <2>1, <2>3, <2>4
      <3> QED
        BY <3>1, <3>2, <3>3
    <2>6. IsFiniteSet(A) /\ IsFiniteSet(B)
      BY <2>5, FS_Subset
    <2>7. PICK fb : fb = [f \in B |-> f.packets]
      OBVIOUS
    <2>8. PICK fa : fa = [f \in A |-> f.packets]
      OBVIOUS
    <2>9. fb \in [B -> Int] /\ fa \in [A -> Int]
      BY <2>5, <2>7, <2>8 DEF HpFlow
    <2>10. PICK v : v = x.packets
      OBVIOUS
    <2>11. v \in Int
      BY <2>5, <2>9, <2>7, <2>10
    <2>12. fb = [f \in A \cup {x} |-> IF f = x THEN v ELSE fa[f]]
      BY <2>5, <2>7, <2>8, <2>10
    <2>13. OnePartMore(A, x, fa, v, fb)
      BY <2>5, <2>6, <2>9, <2>11, <2>12 DEF OnePartMore
    <2>14. Total(fb) = Total(fa) + v /\ Total(fb) \in Int /\ Total(fa) \in Int
      BY <2>13, TotalNext
    <2> QED
      BY <2>1, <2>2, <2>3, <2>7, <2>8, <2>10, <2>11, <2>14
  <1>15. ASSUME NEW m, HpMeasure(K, m),
                \A k \in 1 .. n : HpTotal(acc[k], m) = HpTotal(acc[k - 1], m) + seq[k].packets
         PROVE  HpTotal(t, m) = HpTotal(base, m) + all
    <2>1. PICK p : p = HpAlong(acc, n, m)
      OBVIOUS
    <2>2. PICK q : q = [k \in 0 .. n |-> HpTotal(base, m) + Total([f \in {seq[i] : i \in 1 .. k} |-> f.packets])]
      OBVIOUS
    <2>3. HpTotal(base, m) \in Int
      BY <1>15, HpTotalInt
    <2>4. p[0] = q[0]
      <3>1. {seq[i] : i \in 1 .. 0} = {}
        OBVIOUS
      <3>2. PICK none : none = [f \in {seq[i] : i \in 1 .. 0} |-> f.packets]
        OBVIOUS
      <3>3. none \in [{} -> Int]
        BY <3>1, <3>2
      <3>4. Total(none) = 0
        BY <3>3, FS_EmptySet, TotalInt
      <3>5. q[0] = HpTotal(base, m) + Total(none)
        BY <1>4, <2>2, <3>2
      <3> QED
        BY <1>4, <1>10, <2>1, <2>3, <3>4, <3>5 DEF HpAlong
    <2>5. ASSUME NEW k \in 1 .. n, p[k - 1] = q[k - 1] PROVE p[k] = q[k]
      <3>1. k - 1 \in 0 .. n /\ k \in 0 .. n
        BY <1>4
      <3>2. p[k] = p[k - 1] + seq[k].packets
        BY <1>15, <2>1, <3>1 DEF HpAlong
      <3>3. PICK u : u = Total([f \in {seq[i] : i \in 1 .. k - 1} |-> f.packets])
        OBVIOUS
      <3>4. PICK v : v = Total([f \in {seq[i] : i \in 1 .. k} |-> f.packets])
        OBVIOUS
      <3>5. q[k - 1] = HpTotal(base, m) + u /\ q[k] = HpTotal(base, m) + v
        BY <2>2, <3>1, <3>3, <3>4
      <3>6. v = u + seq[k].packets /\ u \in Int /\ v \in Int /\ seq[k].packets \in Int
        BY <1>14, <3>3, <3>4
      <3> QED
        BY <2>3, <2>5, <3>2, <3>5, <3>6
    <2>6. p[n] = q[n]
      BY <1>4, <2>4, <2>5, RunsAlike
    <2>7. q[n] = HpTotal(base, m) + all
      <3>1. q[n] = HpTotal(base, m) + Total([f \in {seq[i] : i \in 1 .. n} |-> f.packets])
        BY <1>4, <2>2
      <3> QED
        BY <1>4, <3>1
    <2> QED
      BY <1>4, <1>9, <2>1, <2>6, <2>7 DEF HpAlong
  <1>16. HpTotal(t, HpSent(K)) = HpTotal(base, HpSent(K)) /\ HpTotal(t, HpReceived(K)) = HpTotal(base, HpReceived(K))
    BY <1>11, <1>13, HpMeasures DEF HpGains
  <1>17. /\ HpTotal(t, HpBytesSent(K)) = HpTotal(base, HpBytesSent(K))
         /\ HpTotal(t, HpBytesReceived(K)) = HpTotal(base, HpBytesReceived(K))
    BY <1>11, <1>13, HpMeasures DEF HpGains
  <1>18. /\ HpTotal(t, HpContacts(K)) = HpTotal(base, HpContacts(K)) + all
         /\ HpTotal(t, HpServed(K)) = HpTotal(base, HpServed(K)) + all
    BY <1>11, <1>15, HpMeasures DEF HpGains
  <1>19. t \in Y
    BY <1>4, <1>9, <1>10
  <1> QED
    BY <1>1, <1>16, <1>17, <1>18, <1>19

(* The flows of a capture are finitely many and share no packet.               *)
HpKeys(flows) == {<<f.dst, f.app>> : f \in flows} \cup {<<f.src[1], f.dst[2]>> : f \in flows}

LEMMA HpFlows ==
    ASSUME ExInv, NEW flows, flows = FbBuild(exFlows), NEW K, K = HpKeys(flows)
    PROVE  /\ IsFiniteSet(flows) /\ \A f \in flows : HpFlow(K, f)
           /\ Total([f \in flows |-> f.packets]) = Cardinality(ExRefs(FbEligible))
  <1>1. exPackets \in Seq(ExPacket) /\ FbFlowsOf(exPackets, exFlows)
    BY DEF ExInv, ExFlowsOf
  <1>2. /\ DOMAIN exPackets = 1 .. Len(exPackets) /\ Len(exPackets) \in Nat
        /\ IsFiniteSet(DOMAIN exPackets)
    <2>1. DOMAIN exPackets = 1 .. Len(exPackets) /\ Len(exPackets) \in Nat
      BY <1>1
    <2> QED
      BY <2>1, FS_Interval
  <1>3. PICK E : E = {i \in DOMAIN exPackets : FbEligible(exPackets[i])}
    OBVIOUS
  <1>4. IsFiniteSet(E) /\ E = ExRefs(FbEligible)
    <2>1. E \in SUBSET DOMAIN exPackets
      BY <1>3
    <2> QED
      BY <1>2, <1>3, <2>1, FS_Subset DEF ExRefs
  <1>5. ASSUME NEW k \in DOMAIN exFlows
        PROVE  /\ FbMine(exPackets, k) # {} /\ FbMine(exPackets, k) \subseteq E
               /\ FbListed(exFlows[k]) \in flows
               /\ HpFlow(K, FbListed(exFlows[k]))
               /\ FbListed(exFlows[k]).packets = Cardinality(FbMine(exPackets, k))
               /\ ToSet(FbListed(exFlows[k]).refs) = FbMine(exPackets, k)
    <2>1. FbMine(exPackets, k) # {} /\ FbAbout(exFlows[k], k) /\ FbCounted(exPackets, exFlows[k], k)
      BY <1>1 DEF FbFlowsOf
    <2>2. FbMine(exPackets, k) \subseteq E
      BY <1>3 DEF FbMine
    <2>3. PICK f : f = exFlows[k]
      OBVIOUS
    <2>4. PICK g : g = FbListed(f)
      OBVIOUS
    <2>5. /\ g.src = f.src /\ g.dst = f.dst /\ g.packets = f.packets /\ g.refs = f.refs
      BY <2>4, FbListedFields
    <2>6. f.src \in Int \X Int /\ f.dst \in Int \X Int /\ f.packets \in Nat
      BY <2>1, <2>3 DEF FbAbout, FbFlow
    <2>7. g \in flows
      BY <2>3, <2>4, FbBuilt
    <2>8. <<g.dst, g.app>> \in K /\ <<g.src[1], g.dst[2]>> \in K
      BY <2>7 DEF HpKeys
    <2>9. HpFlow(K, g)
      BY <2>5, <2>6, <2>8 DEF HpFlow
    <2>10. g.packets = Cardinality(FbMine(exPackets, k)) /\ ToSet(g.refs) = FbMine(exPackets, k)
      BY <2>1, <2>3, <2>5 DEF FbCounted
    <2> QED
      BY <2>1, <2>2, <2>3, <2>4, <2>7, <2>9, <2>10
  <1>6. \A f \in flows : \E k \in DOMAIN exFlows : f = FbListed(exFlows[k])
    BY FbBuilt
  <1>7. PICK of : of = [i \in E |-> FbListed(exFlows[FbKey(exPackets[i])])]
    OBVIOUS
  <1>8. \A i \in E : FbKey(exPackets[i]) \in DOMAIN exFlows
    BY <1>1, <1>3 DEF FbFlowsOf
  <1>9. flows = {of[i] : i \in E}
    <2>1. ASSUME NEW i \in E PROVE of[i] \in flows
      BY <1>5, <1>7, <1>8
    <2>2. ASSUME NEW f \in flows PROVE \E i \in E : f = of[i]
      <3>1. PICK k \in DOMAIN exFlows : f = FbListed(exFlows[k])
        BY <1>6
      <3>2. PICK i \in FbMine(exPackets, k) : TRUE
        BY <1>5
      <3>3. i \in E /\ FbKey(exPackets[i]) = k
        BY <1>5 DEF FbMine
      <3> QED
        BY <1>7, <3>1, <3>3
    <2> QED
      BY <2>1, <2>2
  <1>10. IsFiniteSet(flows)
    <2>1. DOMAIN of = E /\ of = [i \in E |-> of[i]]
      BY <1>7
    <2> QED
      BY <1>4, <1>9, <2>1, FiniteImage
  <1>11. PICK r : r = [f \in flows |-> ToSet(f.refs)]
    OBVIOUS
  <1>12. ASSUME NEW f \in flows
         PROVE  IsFiniteSet(r[f]) /\ f.packets = Cardinality(r[f]) /\ r[f] \subseteq E /\ HpFlow(K, f)
    <2>1. PICK k \in DOMAIN exFlows : f = FbListed(exFlows[k])
      BY <1>6
    <2>2. /\ r[f] = FbMine(exPackets, k) /\ f.packets = Cardinality(FbMine(exPackets, k))
          /\ FbMine(exPackets, k) \subseteq E /\ HpFlow(K, f)
      BY <1>5, <1>11, <2>1
    <2>3. IsFiniteSet(FbMine(exPackets, k))
      BY <1>4, <2>2, FS_Subset
    <2> QED
      BY <2>2, <2>3
  <1>13. ASSUME NEW f \in flows, NEW g \in flows, f # g
         PROVE  r[f] \cap r[g] = {}
    <2>1. PICK k \in DOMAIN exFlows : f = FbListed(exFlows[k])
      BY <1>6
    <2>2. PICK l \in DOMAIN exFlows : g = FbListed(exFlows[l])
      BY <1>6
    <2>3. r[f] = FbMine(exPackets, k) /\ r[g] = FbMine(exPackets, l) /\ k # l
      BY <1>5, <1>11, <1>13, <2>1, <2>2
    <2> QED
      BY <2>3 DEF FbMine
  <1>14. UNION {r[f] : f \in flows} = E
    <2>1. ASSUME NEW i \in E PROVE i \in r[of[i]] /\ of[i] \in flows
      <3>1. PICK k : k = FbKey(exPackets[i])
        OBVIOUS
      <3>2. k \in DOMAIN exFlows /\ i \in FbMine(exPackets, k)
        BY <1>3, <1>8, <3>1 DEF FbMine
      <3>3. of[i] = FbListed(exFlows[k]) /\ of[i] \in flows
        BY <1>5, <1>7, <3>1, <3>2
      <3> QED
        BY <1>5, <1>11, <3>2, <3>3
    <2> QED
      BY <1>12, <2>1
  <1>15. Total([f \in flows |-> Cardinality(r[f])]) = Cardinality(E)
    <2>1. Disjoint(flows, r)
      BY <1>10, <1>12, <1>13 DEF Disjoint
    <2>2. PICK c : c = [f \in flows |-> Cardinality(r[f])]
      OBVIOUS
    <2>3. Total(c) = Cardinality(E)
      BY <1>14, <2>1, <2>2, DisjointTotal
    <2> QED
      BY <2>2, <2>3
  <1>16. [f \in flows |-> f.packets] = [f \in flows |-> Cardinality(r[f])]
    BY <1>12
  <1> QED
    BY <1>4, <1>10, <1>12, <1>15, <1>16

(* Naming the hosts leaves every count as it is.                               *)
LEMMA HpNamed ==
    ASSUME NEW K, NEW t \in HpTables(K), NEW packets, NEW txns, NEW u, u = HpNames(t, packets, txns)
    PROVE  /\ DOMAIN u = DOMAIN t
           /\ \A h \in DOMAIN t :
                 /\ u[h].sent = HpSent(K)[t[h]] /\ u[h].received = HpReceived(K)[t[h]]
                 /\ u[h].bytesSent = HpBytesSent(K)[t[h]]
                 /\ u[h].bytesReceived = HpBytesReceived(K)[t[h]]
                 /\ Total(u[h].contacts) = HpContacts(K)[t[h]]
                 /\ Total(u[h].served) = HpServed(K)[t[h]] /\ u[h].served = t[h].served
  <1>1. DOMAIN u = DOMAIN t
    BY DEF HpNames
  <1>2. ASSUME NEW h \in DOMAIN t
        PROVE  /\ u[h].sent = t[h].sent /\ u[h].received = t[h].received
               /\ u[h].bytesSent = t[h].bytesSent /\ u[h].bytesReceived = t[h].bytesReceived
               /\ u[h].contacts = t[h].contacts /\ u[h].served = t[h].served
    <2>1. PICK names : u[h] = [t[h] EXCEPT !.names = names]
      BY <1>2 DEF HpNames
    <2>2. PICK x : x = t[h]
      OBVIOUS
    <2>3. x \in HpProfile(K)
      BY <1>2, <2>2, HpTableFacts
    <2>4. PICK a, b, c, d, e, f, g, n :
             /\ a = x.sent /\ b = x.received /\ c = x.bytesSent /\ d = x.bytesReceived
             /\ e = x.seen /\ f = x.served /\ g = x.contacts /\ n = x.names
      OBVIOUS
    <2>5. x = [sent |-> a, received |-> b, bytesSent |-> c, bytesReceived |-> d,
               seen |-> e, served |-> f, contacts |-> g, names |-> n]
      BY <2>3, <2>4, HpProfileFields
    <2>6. [x EXCEPT !.names = names] =
             [sent |-> a, received |-> b, bytesSent |-> c, bytesReceived |-> d,
              seen |-> e, served |-> f, contacts |-> g, names |-> names]
      BY <2>5
    <2> QED
      BY <2>1, <2>2, <2>4, <2>6
  <1>3. ASSUME NEW h \in DOMAIN t
        PROVE  /\ u[h].sent = HpSent(K)[t[h]] /\ u[h].received = HpReceived(K)[t[h]]
               /\ u[h].bytesSent = HpBytesSent(K)[t[h]]
               /\ u[h].bytesReceived = HpBytesReceived(K)[t[h]]
               /\ Total(u[h].contacts) = HpContacts(K)[t[h]]
               /\ Total(u[h].served) = HpServed(K)[t[h]]
    BY <1>2, <1>3, HpTableFacts, HpMeasured
  <1> QED
    BY <1>1, <1>2, <1>3

(* What the profiles of a capture add up to.                                   *)
LEMMA HpAddUp ==
    ASSUME ExInv, NEW hosts, hosts = ExHosts, NEW n, n = Cardinality(ExRefs(FbEligible))
    PROVE  /\ Total([h \in DOMAIN hosts |-> hosts[h].profile.sent]) = Len(exPackets)
           /\ Total([h \in DOMAIN hosts |-> hosts[h].profile.received]) = Len(exPackets)
           /\ Total([h \in DOMAIN hosts |-> hosts[h].profile.bytesSent])
                = Total([h \in DOMAIN hosts |-> hosts[h].profile.bytesReceived])
           /\ Total([h \in DOMAIN hosts |-> Total(hosts[h].profile.contacts)]) = n
           /\ Total([h \in DOMAIN hosts |-> Total(hosts[h].profile.served)]) = n
           /\ IsFiniteSet(DOMAIN hosts)
           /\ \A h \in DOMAIN hosts : IsFiniteSet(DOMAIN hosts[h].profile.served)
  <1>1. PICK flows : flows = FbBuild(exFlows)
    OBVIOUS
  <1>2. PICK K : K = HpKeys(flows)
    OBVIOUS
  <1>3. PICK observed : observed = FoldLeft(HpObserve, [h \in {} |-> HpBlank], exPackets)
    OBVIOUS
  <1>4. PICK recorded : recorded = FoldLeft(HpRecordFlow, observed, SetToSeq(flows))
    OBVIOUS
  <1>5. PICK txns : txns = TxResults(exDns)
    OBVIOUS
  <1>6. PICK named : named = HpNames(recorded, exPackets, txns)
    OBVIOUS
  <1>7. DOMAIN hosts = DOMAIN named /\ \A h \in DOMAIN named : hosts[h].profile = named[h]
    BY <1>1, <1>3, <1>4, <1>5, <1>6 DEF ExHosts, HpBuild
  <1>8. exPackets \in Seq(ExPacket)
    BY DEF ExInv, ExFlowsOf
  <1>9. /\ observed \in HpTables(K)
        /\ HpTotal(observed, HpSent(K)) = Len(exPackets)
        /\ HpTotal(observed, HpReceived(K)) = Len(exPackets)
        /\ HpTotal(observed, HpBytesSent(K)) = HpTotal(observed, HpBytesReceived(K))
        /\ HpTotal(observed, HpContacts(K)) = 0 /\ HpTotal(observed, HpServed(K)) = 0
    BY <1>3, <1>8, HpObservedAll
  <1>10. /\ IsFiniteSet(flows) /\ \A f \in flows : HpFlow(K, f)
         /\ Total([f \in flows |-> f.packets]) = n
    BY <1>1, <1>2, HpFlows
  <1>11. n \in Nat
    <2>1. ExRefs(FbEligible) \in SUBSET (1 .. Len(exPackets)) /\ Len(exPackets) \in Nat
      BY <1>8 DEF ExRefs
    <2>2. IsFiniteSet(1 .. Len(exPackets))
      BY <2>1, FS_Interval
    <2> QED
      BY <2>1, <2>2, FS_Subset, FS_CardinalityType
  <1>12. /\ recorded \in HpTables(K)
         /\ HpTotal(recorded, HpSent(K)) = Len(exPackets)
         /\ HpTotal(recorded, HpReceived(K)) = Len(exPackets)
         /\ HpTotal(recorded, HpBytesSent(K)) = HpTotal(recorded, HpBytesReceived(K))
         /\ HpTotal(recorded, HpContacts(K)) = n /\ HpTotal(recorded, HpServed(K)) = n
    <2>1. PICK all : all = Total([f \in flows |-> f.packets])
      OBVIOUS
    <2>2. /\ recorded \in HpTables(K)
          /\ HpTotal(recorded, HpSent(K)) = HpTotal(observed, HpSent(K))
          /\ HpTotal(recorded, HpReceived(K)) = HpTotal(observed, HpReceived(K))
          /\ HpTotal(recorded, HpBytesSent(K)) = HpTotal(observed, HpBytesSent(K))
          /\ HpTotal(recorded, HpBytesReceived(K)) = HpTotal(observed, HpBytesReceived(K))
          /\ HpTotal(recorded, HpContacts(K)) = HpTotal(observed, HpContacts(K)) + all
          /\ HpTotal(recorded, HpServed(K)) = HpTotal(observed, HpServed(K)) + all
      BY <1>4, <1>9, <1>10, <2>1, HpRecordedAll
    <2>3. all = n
      BY <1>10, <2>1
    <2> QED
      BY <1>9, <1>11, <2>2, <2>3
  <1>13. /\ DOMAIN hosts = DOMAIN recorded
         /\ \A h \in DOMAIN recorded :
               /\ hosts[h].profile.sent = HpSent(K)[recorded[h]]
               /\ hosts[h].profile.received = HpReceived(K)[recorded[h]]
               /\ hosts[h].profile.bytesSent = HpBytesSent(K)[recorded[h]]
               /\ hosts[h].profile.bytesReceived = HpBytesReceived(K)[recorded[h]]
               /\ Total(hosts[h].profile.contacts) = HpContacts(K)[recorded[h]]
               /\ Total(hosts[h].profile.served) = HpServed(K)[recorded[h]]
               /\ hosts[h].profile.served = recorded[h].served
    BY <1>6, <1>7, <1>12, HpNamed
  <1>14. /\ [h \in DOMAIN hosts |-> hosts[h].profile.sent] = [h \in DOMAIN recorded |-> HpSent(K)[recorded[h]]]
         /\ [h \in DOMAIN hosts |-> hosts[h].profile.received] = [h \in DOMAIN recorded |-> HpReceived(K)[recorded[h]]]
    BY <1>13
  <1>15. /\ [h \in DOMAIN hosts |-> hosts[h].profile.bytesSent]
              = [h \in DOMAIN recorded |-> HpBytesSent(K)[recorded[h]]]
         /\ [h \in DOMAIN hosts |-> hosts[h].profile.bytesReceived]
              = [h \in DOMAIN recorded |-> HpBytesReceived(K)[recorded[h]]]
    BY <1>13
  <1>16. /\ [h \in DOMAIN hosts |-> Total(hosts[h].profile.contacts)]
              = [h \in DOMAIN recorded |-> HpContacts(K)[recorded[h]]]
         /\ [h \in DOMAIN hosts |-> Total(hosts[h].profile.served)]
              = [h \in DOMAIN recorded |-> HpServed(K)[recorded[h]]]
    BY <1>13
  <1>17. /\ IsFiniteSet(DOMAIN recorded)
         /\ \A h \in DOMAIN recorded : IsFiniteSet(DOMAIN recorded[h].served)
    BY <1>12, HpTableFacts, HpCounterFacts DEF HpProfile
  <1> QED
    BY <1>12, <1>13, <1>14, <1>15, <1>16, <1>17 DEF HpTotal

LEMMA HpInvConserved == ExInv => HpConserved
  <1> SUFFICES ASSUME ExInv PROVE HpConserved
    OBVIOUS
  <1>1. PICK hosts : hosts = ExHosts
    OBVIOUS
  <1>2. PICK n : n = Cardinality(ExRefs(FbEligible))
    OBVIOUS
  <1>3. \A f : ExSum(f) = Total(f)
    BY DEF ExSum, Total
  <1>4. /\ ExSum([h \in DOMAIN hosts |-> hosts[h].profile.sent]) = Len(exPackets)
        /\ ExSum([h \in DOMAIN hosts |-> hosts[h].profile.received]) = Len(exPackets)
        /\ ExSum([h \in DOMAIN hosts |-> hosts[h].profile.bytesSent])
             = ExSum([h \in DOMAIN hosts |-> hosts[h].profile.bytesReceived])
    BY <1>1, <1>2, <1>3, HpAddUp
  <1>5. /\ ExSum([h \in DOMAIN hosts |-> ExSum(hosts[h].profile.contacts)]) = n
        /\ ExSum([h \in DOMAIN hosts |-> ExSum(hosts[h].profile.served)]) = n
    <2>1. /\ [h \in DOMAIN hosts |-> ExSum(hosts[h].profile.contacts)]
               = [h \in DOMAIN hosts |-> Total(hosts[h].profile.contacts)]
          /\ [h \in DOMAIN hosts |-> ExSum(hosts[h].profile.served)]
               = [h \in DOMAIN hosts |-> Total(hosts[h].profile.served)]
      BY <1>3
    <2>2. /\ Total([h \in DOMAIN hosts |-> Total(hosts[h].profile.contacts)]) = n
          /\ Total([h \in DOMAIN hosts |-> Total(hosts[h].profile.served)]) = n
      BY <1>1, <1>2, HpAddUp
    <2> QED
      BY <1>3, <2>1, <2>2
  <1> QED
    BY <1>1, <1>2, <1>4, <1>5 DEF HpConserved

(* Nothing is counted at one end only: what the profiles of a capture say was  *)
(* sent was received, what was contacted was served, and both are all of its   *)
(* packets, and all of those of its flows, whatever order the flows come in.   *)
THEOREM Conserved == ExSpec => []HpConserved
  <1>1. ExInit => ExInv
    BY ExBegins
  <1>2. ExInv /\ [ExNext]_exVars => ExInv'
    BY ExKept
  <1>3. ExInv => HpConserved
    BY HpInvConserved
  <1> QED
    BY <1>1, <1>2, <1>3, PTL DEF ExSpec

-----------------------------------------------------------------------------
(* What the timeline and the graph show.  A transaction is filed under the     *)
(* packet that opened it and dated by packets, but for the rounding of its     *)
(* latency; a flow begins with one of its packets, and what is reset is a      *)
(* connection of TCP.                                                          *)
TxTimes(packets) == {packets[i].at : i \in DOMAIN packets}
TxShown(packets, t) ==
    /\ t.ref = IF t.request = 0 THEN t.reply ELSE t.request
    /\ t.at \in TxTimes(packets)
    /\ t.reply # 0 => t.reply \in DOMAIN packets /\ TxNear(t.at + t.latency, packets[t.reply])
TxShows(packets, s) ==
    /\ s = [waiting |-> s.waiting, done |-> s.done]
    /\ IsFiniteSet(s.done) /\ IsFiniteSet(DOMAIN s.waiting)
    /\ \A t \in s.done : TxShown(packets, t)
    /\ \A k \in DOMAIN s.waiting : TxShown(packets, s.waiting[k])

LEMMA TxTimesGrow ==
    ASSUME NEW packets, NEW p, NEW more, NEW n, ExGrown(packets, p, more, n)
    PROVE  /\ TxTimes(packets) \subseteq TxTimes(more) /\ p.at \in TxTimes(more)
           /\ \A t : TxShown(packets, t) => TxShown(more, t)
  <1>1. /\ DOMAIN more = DOMAIN packets \cup {n} /\ more[n] = p
        /\ \A i \in DOMAIN packets : more[i] = packets[i]
    BY PacketsAppended
  <1>2. TxTimes(packets) \subseteq TxTimes(more) /\ p.at \in TxTimes(more)
    BY <1>1 DEF TxTimes
  <1>3. ASSUME NEW t, TxShown(packets, t) PROVE TxShown(more, t)
    <2>1. /\ t.ref = IF t.request = 0 THEN t.reply ELSE t.request
          /\ t.at \in TxTimes(more)
      BY <1>2, <1>3 DEF TxShown
    <2>2. ASSUME t.reply # 0
          PROVE  t.reply \in DOMAIN more /\ TxNear(t.at + t.latency, more[t.reply])
      BY <1>1, <1>3, <2>2 DEF TxShown
    <2> QED
      BY <2>1, <2>2 DEF TxShown
  <1> QED
    BY <1>2, <1>3

LEMMA TxPutShows ==
    ASSUME NEW packets, NEW p, NEW more, NEW n, ExGrown(packets, p, more, n),
           NEW s, TxShows(packets, s), NEW key, NEW txn, TxShown(more, txn)
    PROVE  TxShows(more, TxPut(s, key, txn))
  <1>1. PICK w : w = [k \in DOMAIN s.waiting \cup {key} |-> IF k = key THEN txn ELSE s.waiting[k]]
    OBVIOUS
  <1>2. PICK u : u = TxPut(s, key, txn)
    OBVIOUS
  <1>3. u = [waiting |-> w, done |-> s.done]
    <2>1. s = [waiting |-> s.waiting, done |-> s.done]
      BY DEF TxShows
    <2> QED
      BY <1>1, <1>2, <2>1 DEF TxPut
  <1>4. u.waiting = w /\ u.done = s.done /\ u = [waiting |-> u.waiting, done |-> u.done]
    BY <1>3
  <1>5. IsFiniteSet(u.done) /\ IsFiniteSet(DOMAIN u.waiting)
    <2>1. IsFiniteSet(s.done) /\ IsFiniteSet(DOMAIN s.waiting)
      BY DEF TxShows
    <2>2. DOMAIN w = DOMAIN s.waiting \cup {key}
      BY <1>1
    <2> QED
      BY <1>4, <2>1, <2>2, FS_AddElement
  <1>6. \A t \in u.done : TxShown(more, t)
    BY <1>4, TxTimesGrow DEF TxShows
  <1>7. \A k \in DOMAIN u.waiting : TxShown(more, u.waiting[k])
    BY <1>1, <1>4, TxTimesGrow DEF TxShows
  <1> QED
    BY <1>2, <1>4, <1>5, <1>6, <1>7 DEF TxShows

(* What is opened by packet n.                                                 *)
TxNew(open, p, n) == TxOpening(open) /\ open.ref = n /\ open.at = p.at
TxAllAsked(s) == \A k \in DOMAIN s.waiting : s.waiting[k] \in TxTxn /\ s.waiting[k].request # 0

LEMMA TxTakeShows ==
    ASSUME NEW packets, NEW p, NEW more, NEW n, ExGrown(packets, p, more, n),
           NEW s, TxShows(packets, s), NEW key, NEW open, TxNew(open, p, n), TxAllAsked(s)
    PROVE  TxShows(more, TxTake(s, key, open, p, n))
  <1>1. PICK u : u = TxTake(s, key, open, p, n)
    OBVIOUS
  <1>2. PICK w : w = [k \in DOMAIN s.waiting \ {key} |-> s.waiting[k]]
    OBVIOUS
  <1>3. PICK t : t = IF key \in DOMAIN s.waiting THEN s.waiting[key] ELSE open
    OBVIOUS
  <1>4. PICK c : c = TxClose(t, p, n)
    OBVIOUS
  <1>5. u = [waiting |-> w, done |-> s.done \cup {c}]
    BY <1>1, <1>2, <1>3, <1>4 DEF TxTake, TxAnswered
  <1>6. u.waiting = w /\ u.done = s.done \cup {c} /\ u = [waiting |-> u.waiting, done |-> u.done]
    BY <1>5
  <1>7. IsFiniteSet(u.done) /\ IsFiniteSet(DOMAIN u.waiting)
    <2>1. IsFiniteSet(s.done) /\ IsFiniteSet(DOMAIN s.waiting)
      BY DEF TxShows
    <2>2. DOMAIN w \subseteq DOMAIN s.waiting
      BY <1>2
    <2>3. IsFiniteSet(DOMAIN w)
      BY <2>1, <2>2, FS_Subset
    <2>4. IsFiniteSet(s.done \cup {c})
      BY <2>1, FS_AddElement
    <2> QED
      BY <1>6, <2>3, <2>4
  <1>8. n \in Nat /\ n # 0 /\ p \in ExPacket
    <2>1. n \in Nat /\ p \in ExPacket /\ DOMAIN more = DOMAIN packets \cup {n} /\ DOMAIN more = 1 .. n
      BY PacketsAppended
    <2>2. n \in 1 .. n
      BY <2>1
    <2> QED
      BY <2>1, <2>2
  <1>9. /\ t \in TxTxn /\ t.at \in TxTimes(more) /\ t.ref = IF t.request = 0 THEN n ELSE t.request
        /\ t.request = 0 => t.at = p.at
    <2>1. CASE key \in DOMAIN s.waiting
      <3>1. t \in TxTxn /\ t.request # 0 /\ TxShown(packets, t)
        BY <1>3, <2>1 DEF TxShows, TxAllAsked
      <3> QED
        BY <3>1, TxTimesGrow DEF TxShown
    <2>2. CASE key \notin DOMAIN s.waiting
      <3>1. t = open
        BY <1>3, <2>2
      <3> QED
        BY <3>1, TxTimesGrow DEF TxNew, TxOpening
    <2> QED
      BY <2>1, <2>2
  <1>10. /\ c.request = t.request /\ c.reply = n /\ c.ref = t.ref /\ c.at = t.at
         /\ TxNear(c.at + c.latency, p)
    BY <1>4, <1>8, <1>9, TxClosed DEF TxClosing
  <1>11. TxShown(more, c)
    <2>1. DOMAIN more = DOMAIN packets \cup {n} /\ more[n] = p
      BY PacketsAppended
    <2>2. n \in DOMAIN more /\ TxNear(c.at + c.latency, more[n])
      BY <1>10, <2>1
    <2> QED
      BY <1>9, <1>10, <2>2 DEF TxShown
  <1>12. \A x \in u.done : TxShown(more, x)
    BY <1>6, <1>11, TxTimesGrow DEF TxShows
  <1>13. \A k \in DOMAIN u.waiting : TxShown(more, u.waiting[k])
    BY <1>2, <1>6, TxTimesGrow DEF TxShows
  <1> QED
    BY <1>1, <1>6, <1>7, <1>12, <1>13 DEF TxShows

LEMMA TxOpenedNew ==
    ASSUME NEW p \in ExPacket, NEW n \in Nat \ {0}, NEW client \in Int, NEW server \in Int, NEW name \in STRING
    PROVE  /\ TxNew(TxOpen(client, server, p, n), p, n)
           /\ TxNew([TxOpen(client, server, p, n) EXCEPT !.name = name], p, n)
           /\ \A packets : p.at \in TxTimes(packets) =>
                 /\ TxShown(packets, [TxOpen(client, server, p, n) EXCEPT !.request = n])
                 /\ TxShown(packets, [TxOpen(client, server, p, n) EXCEPT !.request = n, !.name = name])
  <1>1. p.at \in Int /\ n \in Nat /\ n # 0
    BY ExPacketFields
  <1>2. PICK none : none = NoName
    OBVIOUS
  <1>3. PICK open : open = TxOpen(client, server, p, n)
    OBVIOUS
  <1>4. open = TxFresh(client, server, 0, p.at, -1, {}, n, none)
    BY <1>2, <1>3 DEF TxOpen, TxFresh
  <1>5. PICK named : named = [open EXCEPT !.name = name]
    OBVIOUS
  <1>6. named = TxFresh(client, server, 0, p.at, -1, {}, n, name)
    BY <1>4, <1>5, TxFreshNamed
  <1>7. PICK asking : asking = [open EXCEPT !.request = n]
    OBVIOUS
  <1>8. asking = TxFresh(client, server, n, p.at, -1, {}, n, none)
    BY <1>4, <1>7, TxFreshAsked
  <1>9. PICK both : both = [open EXCEPT !.request = n, !.name = name]
    OBVIOUS
  <1>10. both = TxFresh(client, server, n, p.at, -1, {}, n, name)
    <2>1. both = [asking EXCEPT !.name = name]
      BY <1>7, <1>9
    <2> QED
      BY <1>8, <2>1, TxFreshNamed
  <1>11. open.ref = n /\ open.at = p.at /\ named.ref = n /\ named.at = p.at
    BY <1>4, <1>6 DEF TxFresh
  <1>12. /\ asking.ref = n /\ asking.request = n /\ asking.at = p.at /\ asking.reply = 0
         /\ both.ref = n /\ both.request = n /\ both.at = p.at /\ both.reply = 0
    BY <1>8, <1>10 DEF TxFresh
  <1>13. TxOpening(open) /\ TxOpening(named)
    BY <1>1, <1>3, <1>5, TxOpened
  <1>14. ASSUME NEW packets, p.at \in TxTimes(packets)
         PROVE  TxShown(packets, asking) /\ TxShown(packets, both)
    BY <1>1, <1>12, <1>14 DEF TxShown
  <1> QED
    BY <1>3, <1>5, <1>7, <1>9, <1>11, <1>13, <1>14 DEF TxNew

LEMMA TxAskedBefore ==
    ASSUME NEW ev, NEW s, NEW n \in Nat, TxOf(ev, s, n)
    PROVE  TxAllAsked(s)
  <1>1. DOMAIN ev = 1 .. n /\ 0 \notin DOMAIN ev
    BY DEF TxOf
  <1> QED
    BY <1>1 DEF TxOf, TxWaiting, TxLast, TxAllAsked

LEMMA TxStepShows ==
    ASSUME NEW packets, NEW p, NEW more, NEW n, ExGrown(packets, p, more, n),
           NEW s, TxShows(packets, s), NEW ev, TxOf(ev, s, n - 1)
    PROVE  TxShows(more, TxDns(s, p, n)) /\ TxShows(more, TxHttp(s, p, n))
  <1>1. p \in ExPacket /\ n \in Nat /\ n # 0 /\ n - 1 \in Nat /\ p.at \in TxTimes(more)
    <2>1. p \in ExPacket /\ n \in Nat /\ DOMAIN more = DOMAIN packets \cup {n} /\ DOMAIN more = 1 .. n
      BY PacketsAppended
    <2>2. n \in 1 .. n
      BY <2>1
    <2> QED
      BY <2>1, <2>2, TxTimesGrow
  <1>2. /\ p.src[1] \in Int /\ p.dst[1] \in Int /\ p.hint.name \in STRING
    BY <1>1, TxPacketEnds
  <1>3. TxAllAsked(s)
    BY <1>1, TxAskedBefore
  <1>4. TxShows(more, s)
    BY TxTimesGrow DEF TxShows
  <1>5. PICK name : name = p.hint.name
    OBVIOUS
  <1>6. PICK asked : asked = TxOpen(p.src[1], p.dst[1], p, n)
    OBVIOUS
  <1>7. PICK open : open = TxOpen(p.dst[1], p.src[1], p, n)
    OBVIOUS
  <1>8. /\ TxNew(open, p, n) /\ TxNew([open EXCEPT !.name = name], p, n)
        /\ TxShown(more, [asked EXCEPT !.request = n])
        /\ TxShown(more, [asked EXCEPT !.request = n, !.name = name])
    BY <1>1, <1>2, <1>5, <1>6, <1>7, TxOpenedNew
  <1>9. TxShows(more, TxDns(s, p, n))
    <2>1. CASE p.hint.kind = "query"
      <3>1. TxDns(s, p, n) = TxPut(s, TxDnsKey(p), [asked EXCEPT !.request = n, !.name = name])
        BY <1>5, <1>6, <2>1 DEF TxDns
      <3> QED
        BY <1>8, <3>1, TxPutShows
    <2>2. CASE p.hint.kind = "answer"
      <3>1. TxDns(s, p, n) = TxTake(s, TxDnsKey(p), [open EXCEPT !.name = name], p, n)
        BY <1>5, <1>7, <2>2 DEF TxDns
      <3> QED
        BY <1>3, <1>8, <3>1, TxTakeShows
    <2>3. CASE p.hint.kind # "query" /\ p.hint.kind # "answer"
      BY <1>4, <2>3 DEF TxDns
    <2> QED
      BY <2>1, <2>2, <2>3
  <1>10. TxShows(more, TxHttp(s, p, n))
    <2>1. CASE p.hint.kind = "request"
      <3>1. TxHttp(s, p, n) = TxPut(s, TxHttpKey(p), [asked EXCEPT !.request = n])
        BY <1>6, <2>1 DEF TxHttp
      <3> QED
        BY <1>8, <3>1, TxPutShows
    <2>2. CASE p.hint.kind = "status"
      <3>1. TxHttp(s, p, n) = TxTake(s, TxHttpKey(p), open, p, n)
        BY <1>7, <2>2 DEF TxHttp
      <3> QED
        BY <1>3, <1>8, <3>1, TxTakeShows
    <2>3. CASE p.hint.kind # "request" /\ p.hint.kind # "status"
      BY <1>4, <2>3 DEF TxHttp
    <2> QED
      BY <2>1, <2>2, <2>3
  <1> QED
    BY <1>9, <1>10

FbDated(packets, f, k) ==
    /\ \E i \in FbMine(packets, k) : f.first = packets[i].at
    /\ f.tcp.resets > 0 => f.transport = "TCP"
FbAllDated(packets, flows) == \A k \in DOMAIN flows : FbDated(packets, flows[k], k)

LEMMA FbStepDated ==
    ASSUME NEW packets, NEW p, NEW more, NEW n, ExGrown(packets, p, more, n),
           NEW flows, FbFlowsOf(packets, flows), FbAllDated(packets, flows)
    PROVE  FbAllDated(more, FbAddPacket(flows, p, n))
  <1>1. \A k, f : FbDated(packets, f, k) => FbDated(more, f, k)
    <2> SUFFICES ASSUME NEW k, NEW f, FbDated(packets, f, k) PROVE FbDated(more, f, k)
      OBVIOUS
    <2>1. PICK i \in FbMine(packets, k) : f.first = packets[i].at
      BY DEF FbDated
    <2>2. i \in FbMine(more, k) /\ more[i] = packets[i]
      BY FbMineGrows
    <2> QED
      BY <2>1, <2>2 DEF FbDated
  <1>2. CASE ~FbEligible(p)
    BY <1>1, <1>2 DEF FbAddPacket, FbAllDated
  <1>3. CASE FbEligible(p)
    <2>1. PICK k : k = FbKey(p)
      OBVIOUS
    <2>2. PICK f : f = IF k \in DOMAIN flows THEN flows[k] ELSE FbNewFlow(p)
      OBVIOUS
    <2>3. PICK forward : forward = (p.src = k[1])
      OBVIOUS
    <2>4. PICK g : g = FbAccumulate(f, p, n, forward)
      OBVIOUS
    <2>5. PICK added : added = FbAddPacket(flows, p, n)
      OBVIOUS
    <2>6. added = [x \in DOMAIN flows \cup {k} |-> IF x = k THEN g ELSE flows[x]]
      BY <1>3, <2>1, <2>2, <2>3, <2>4, <2>5 DEF FbAddPacket
    <2>7. /\ p \in ExPacket /\ n \in Nat /\ packets \in Seq(ExPacket)
          /\ n \in FbMine(more, k) /\ more[n] = p
      <3>1. p \in ExPacket /\ n \in Nat /\ packets \in Seq(ExPacket)
        BY PacketsAppended
      <3>2. FbMine(more, k) = FbMine(packets, k) \cup {n} /\ more[n] = p
        BY <1>3, <2>1, FbMineGrows
      <3> QED
        BY <3>1, <3>2
    <2>8. f \in FbFlow
      <3>1. CASE k \in DOMAIN flows
        BY <2>2, <3>1 DEF FbFlowsOf, FbAbout
      <3>2. CASE k \notin DOMAIN flows
        <4>1. FbMine(packets, k) = {}
          BY <3>2 DEF FbMine, FbFlowsOf
        <4> QED
          BY <2>1, <2>2, <2>7, <3>2, <4>1, FbBegins DEF FbAbout
      <3> QED
        BY <3>1, <3>2
    <2>9. /\ g.first \in {f.first, p.at} /\ g.transport = f.transport
          /\ g.tcp = IF f.transport = "TCP" THEN FbObserve(f.tcp, p, forward) ELSE f.tcp
      <3>1. FbAdds(f, p, n, forward, g)
        BY <2>3, <2>4, <2>7, <2>8 DEF FbAdds
      <3> QED
        BY <3>1, FbAccumulated
    <2>10. FbDated(more, f, k)
      <3>1. CASE k \in DOMAIN flows
        BY <1>1, <2>2, <3>1 DEF FbAllDated
      <3>2. CASE k \notin DOMAIN flows
        <4>1. f.first = p.at /\ f.tcp = FbSequencer
          BY <2>2, <3>2 DEF FbNewFlow
        <4>2. FbSequencer.resets = 0
          BY DEF FbSequencer
        <4> QED
          BY <2>7, <4>1, <4>2 DEF FbDated
      <3> QED
        BY <3>1, <3>2
    <2>11. FbDated(more, g, k)
      BY <2>7, <2>9, <2>10 DEF FbDated
    <2>12. ASSUME NEW x \in DOMAIN added PROVE FbDated(more, added[x], x)
      <3>1. CASE x = k
        BY <2>6, <2>11, <3>1
      <3>2. CASE x # k
        BY <1>1, <2>6, <3>2 DEF FbAllDated
      <3> QED
        BY <3>1, <3>2
    <2> QED
      BY <2>5, <2>12 DEF FbAllDated
  <1> QED
    BY <1>2, <1>3

ExShown ==
    /\ ExInv /\ FbAllDated(exPackets, exFlows)
    /\ TxShows(exPackets, exDns) /\ TxShows(exPackets, exHttp)

LEMMA ExShownFirst == ExInit => ExShown
  <1> SUFFICES ASSUME ExInit PROVE ExShown
    OBVIOUS
  <1>1. DOMAIN exFlows = {} /\ exDns = TxEmpty /\ exHttp = TxEmpty
    BY DEF ExInit
  <1>2. PICK none : none = [k \in {} |-> {}]
    OBVIOUS
  <1>3. TxEmpty = [waiting |-> none, done |-> {}]
    BY <1>2 DEF TxEmpty
  <1>4. /\ TxEmpty = [waiting |-> TxEmpty.waiting, done |-> TxEmpty.done]
        /\ TxEmpty.done = {} /\ DOMAIN TxEmpty.waiting = {}
    BY <1>2, <1>3
  <1>5. TxShows(exPackets, TxEmpty)
    BY <1>4, FS_EmptySet DEF TxShows
  <1> QED
    BY <1>1, <1>5, ExBegins DEF ExShown, FbAllDated

LEMMA ExShownKept == ExShown /\ [ExNext]_exVars => ExShown'
  <1> SUFFICES ASSUME ExShown, [ExNext]_exVars PROVE ExShown'
    OBVIOUS
  <1>1. ExInv'
    BY ExKept DEF ExShown
  <1>2. ASSUME NEW p \in exTraffic, ExRead(p) PROVE ExShown'
    <2>1. /\ exPackets \in Seq(ExPacket) /\ FbFlowsOf(exPackets, exFlows) /\ exTraffic \in ExTraffic
          /\ TxOf(TxDnsEvents(exPackets), exDns, Len(exPackets))
          /\ TxOf(TxHttpEvents(exPackets), exHttp, Len(exPackets))
      BY DEF ExShown, ExInv, ExRead1, ExFlowsOf, ExTxnsOf
    <2>2. PICK n : n = Len(exPackets) + 1
      OBVIOUS
    <2>3. PICK more : more = Append(exPackets, p)
      OBVIOUS
    <2>4. ExGrown(exPackets, p, more, n)
      BY <2>1, <2>2, <2>3, ExAssumption DEF ExGrown
    <2>5. /\ exPackets' = more /\ exFlows' = FbAddPacket(exFlows, p, n)
          /\ exDns' = TxDns(exDns, p, n) /\ exHttp' = TxHttp(exHttp, p, n)
      BY <1>2, <2>2, <2>3 DEF ExRead
    <2>6. n - 1 = Len(exPackets)
      <3>1. Len(exPackets) \in Nat
        BY <2>1
      <3> QED
        BY <2>2, <3>1
    <2>7. FbAllDated(more, FbAddPacket(exFlows, p, n))
      BY <2>1, <2>4, FbStepDated DEF ExShown
    <2>8. TxShows(more, TxDns(exDns, p, n)) /\ TxShows(more, TxHttp(exHttp, p, n))
      BY <2>1, <2>4, <2>6, TxStepShows DEF ExShown
    <2> QED
      BY <1>1, <2>5, <2>7, <2>8 DEF ExShown
  <1>3. CASE UNCHANGED exVars
    BY <1>1, <1>3 DEF exVars, ExShown
  <1> QED
    BY <1>2, <1>3 DEF ExNext

(* No two transactions are filed under one packet.                             *)
TxApart(packets, T) ==
    /\ IsFiniteSet(T) /\ \A t \in T : t \in TxTxn /\ TxShown(packets, t)
    /\ \A t, u \in T : t.ref = u.ref => t = u

LEMMA TxAllApart ==
    ASSUME NEW ev, NEW s, NEW last, TxOf(ev, s, last), NEW packets, TxShows(packets, s),
           \A j \in DOMAIN ev : ev[j].kind \in {"ask", "reply", "other"}
    PROVE  TxApart(packets, TxResults(s))
  <1>1. /\ last \in Nat /\ DOMAIN ev = 1 .. last /\ 0 \notin DOMAIN ev
        /\ TxWaiting(ev, s, last) /\ TxDone(ev, s.done)
    BY DEF TxOf
  <1>2. IsFiniteSet(TxResults(s))
    <2>1. PICK w : w = s.waiting
      OBVIOUS
    <2>2. PICK f : f = [k \in DOMAIN w |-> w[k]]
      OBVIOUS
    <2>3. IsFiniteSet({f[k] : k \in DOMAIN w})
      <3>1. IsFiniteSet(DOMAIN w) /\ DOMAIN f = DOMAIN w /\ f = [k \in DOMAIN w |-> f[k]]
        BY <2>1, <2>2 DEF TxShows
      <3> QED
        BY <3>1, FiniteImage
    <2>4. TxResults(s) = s.done \cup {f[k] : k \in DOMAIN w}
      BY <2>1, <2>2 DEF TxResults
    <2>5. IsFiniteSet(s.done)
      BY DEF TxShows
    <2> QED
      BY <2>3, <2>4, <2>5, FS_Union
  <1>3. ASSUME NEW t \in TxResults(s)
        PROVE  /\ t \in TxTxn /\ TxShown(packets, t)
               /\ t.request # 0 => t.request \in DOMAIN ev /\ ev[t.request].kind = "ask" /\ t.ref = t.request
               /\ t.request = 0 => t.reply \in DOMAIN ev /\ ev[t.reply].kind = "reply" /\ t.ref = t.reply
    <2>1. TxShown(packets, t) /\ t.ref = IF t.request = 0 THEN t.reply ELSE t.request
      BY TxResultsFacts DEF TxShows, TxShown
    <2>2. CASE t \in s.done
      BY <1>1, <2>1, <2>2 DEF TxDone, TxPair
    <2>3. CASE \E k \in DOMAIN s.waiting : t = s.waiting[k]
      BY <1>1, <2>1, <2>3 DEF TxWaiting, TxLast
    <2> QED
      BY <2>2, <2>3, TxResultsFacts
  <1>4. \A S : IsFiniteSet(S) /\ Cardinality(S) \in {0, 1} => \A x, y \in S : x = y
    BY FS_EmptySet, FS_Singleton
  <1>5. ASSUME NEW i \in DOMAIN ev, ev[i].kind = "ask", NEW t \in TxResults(s), NEW u \in TxResults(s),
               t.request = i, u.request = i
        PROVE  t = u
    <2>1. Cardinality(TxFor(s, i)) \in {0, 1}
      <3>1. Cardinality(TxFor(s, i)) = IF TxAskedAgain(ev, i) THEN 0 ELSE 1
        BY <1>5, TxNotLost
      <3> QED
        BY <3>1
    <2>2. TxFor(s, i) \in SUBSET TxResults(s) /\ t \in TxFor(s, i) /\ u \in TxFor(s, i)
      BY <1>5 DEF TxFor
    <2>3. IsFiniteSet(TxFor(s, i))
      BY <1>2, <2>2, FS_Subset
    <2> QED
      BY <1>4, <2>1, <2>2, <2>3
  <1>6. ASSUME NEW i \in DOMAIN ev, ev[i].kind = "reply", NEW t \in TxResults(s), NEW u \in TxResults(s),
               t.reply = i, u.reply = i
        PROVE  t = u
    <2>1. Cardinality(TxWith(s, i)) = 1
      BY <1>6, TxAnswerOnce
    <2>2. TxWith(s, i) \in SUBSET TxResults(s) /\ t \in TxWith(s, i) /\ u \in TxWith(s, i)
      BY <1>6 DEF TxWith
    <2>3. IsFiniteSet(TxWith(s, i))
      BY <1>2, <2>2, FS_Subset
    <2> QED
      BY <1>4, <2>1, <2>2, <2>3
  <1>7. ASSUME NEW t \in TxResults(s), NEW u \in TxResults(s), t.ref = u.ref PROVE t = u
    <2>1. CASE t.request # 0
      <3>1. u.request # 0
        BY <1>3, <1>7, <2>1
      <3> QED
        BY <1>3, <1>5, <1>7, <2>1, <3>1
    <2>2. CASE t.request = 0
      <3>1. u.request = 0
        BY <1>3, <1>7, <2>2
      <3> QED
        BY <1>3, <1>6, <1>7, <2>2, <3>1
    <2> QED
      BY <2>1, <2>2
  <1> QED
    BY <1>2, <1>3, <1>7 DEF TxApart

(* What of the flows is shown: each is named by its first packet, and no two   *)
(* have a packet in common.                                                    *)
TlFlow(f) ==
    /\ f.src \in Int \X Int /\ f.dst \in Int \X Int /\ f.packets = Cardinality(ToSet(f.refs))
    /\ f.refs \in Seq(Nat) /\ f.refs[1] \in ToSet(f.refs)
    /\ ToSet(f.refs) \subseteq DOMAIN exPackets /\ IsFiniteSet(ToSet(f.refs))
    /\ f.first \in TxTimes(exPackets)
    /\ (f.state = "reset" <=> f.resets > 0) /\ (f.resets > 0 => f.transport = "TCP")
TlFlows(flows) ==
    /\ IsFiniteSet(flows) /\ \A f \in flows : TlFlow(f)
    /\ \A f, g \in flows : f # g => ToSet(f.refs) \cap ToSet(g.refs) = {}
    /\ UNION {ToSet(f.refs) : f \in flows} = ExRefs(FbEligible)

LEMMA TlAllFlows == ExShown => TlFlows(FbBuild(exFlows))
  <1> SUFFICES ASSUME ExShown PROVE TlFlows(FbBuild(exFlows))
    OBVIOUS
  <1>1. exPackets \in Seq(ExPacket) /\ FbFlowsOf(exPackets, exFlows) /\ FbAllDated(exPackets, exFlows)
    BY DEF ExShown, ExInv, ExFlowsOf
  <1>2. PICK flows : flows = FbBuild(exFlows)
    OBVIOUS
  <1>3. IsFiniteSet(flows)
    BY <1>2, HpFlows DEF ExShown
  <1>4. IsFiniteSet(DOMAIN exPackets)
    <2>1. DOMAIN exPackets = 1 .. Len(exPackets) /\ Len(exPackets) \in Nat
      BY <1>1
    <2> QED
      BY <2>1, FS_Interval
  <1>5. ASSUME NEW k \in DOMAIN exFlows, NEW f, f = FbListed(exFlows[k])
        PROVE  TlFlow(f) /\ ToSet(f.refs) = FbMine(exPackets, k)
    <2>1. PICK a : a = exFlows[k]
      OBVIOUS
    <2>2. /\ FbMine(exPackets, k) # {} /\ FbAbout(a, k) /\ FbCounted(exPackets, a, k) /\ FbDated(exPackets, a, k)
      BY <1>1, <2>1 DEF FbFlowsOf, FbAllDated
    <2>3. /\ f.src = a.src /\ f.dst = a.dst /\ f.packets = a.packets /\ f.refs = a.refs /\ f.first = a.first
          /\ f.transport = a.transport /\ f.resets = a.tcp.resets /\ f.state = FbState(a)
      BY <1>5, <2>1, FbListedFields
    <2>4. /\ a.src \in Int \X Int /\ a.dst \in Int \X Int /\ a.refs \in Seq(Nat)
          /\ a.tcp \in FbTcp
      BY <2>2 DEF FbAbout, FbFlow
    <2>5. ToSet(f.refs) = FbMine(exPackets, k) /\ f.packets = Cardinality(ToSet(f.refs))
      BY <2>2, <2>3 DEF FbCounted
    <2>6. FbMine(exPackets, k) \subseteq DOMAIN exPackets /\ IsFiniteSet(FbMine(exPackets, k))
      <3>1. FbMine(exPackets, k) \in SUBSET DOMAIN exPackets
        BY DEF FbMine
      <3> QED
        BY <1>4, <3>1, FS_Subset
    <2>7. f.refs[1] \in ToSet(f.refs)
      <3>1. PICK refs \in Seq(Nat) : refs = f.refs
        BY <2>3, <2>4
      <3>2. ToSet(refs) # {}
        BY <2>2, <2>5, <3>1
      <3>3. \E i \in DOMAIN refs : TRUE
        BY <3>2 DEF ToSet
      <3>4. 1 \in DOMAIN refs
        BY <3>3
      <3> QED
        BY <3>1, <3>4 DEF ToSet
    <2>8. f.first \in TxTimes(exPackets)
      BY <2>2, <2>3, <2>6 DEF FbDated, TxTimes
    <2>9. (f.state = "reset" <=> f.resets > 0) /\ (f.resets > 0 => f.transport = "TCP")
      <3>1. a.tcp.resets > 0 => a.transport = "TCP"
        BY <2>2 DEF FbDated
      <3>2. FbState(a) = "reset" <=> a.transport = "TCP" /\ a.tcp.resets > 0
        BY DEF FbState
      <3> QED
        BY <2>3, <3>1, <3>2
    <2> QED
      BY <2>3, <2>4, <2>5, <2>6, <2>7, <2>8, <2>9 DEF TlFlow
  <1>6. \A f \in flows : \E k \in DOMAIN exFlows : f = FbListed(exFlows[k])
    BY <1>2, FbBuilt
  <1>7. ASSUME NEW f \in flows, NEW g \in flows, f # g PROVE ToSet(f.refs) \cap ToSet(g.refs) = {}
    <2>1. PICK k \in DOMAIN exFlows : f = FbListed(exFlows[k])
      BY <1>6
    <2>2. PICK l \in DOMAIN exFlows : g = FbListed(exFlows[l])
      BY <1>6
    <2>3. ToSet(f.refs) = FbMine(exPackets, k) /\ ToSet(g.refs) = FbMine(exPackets, l) /\ k # l
      BY <1>5, <1>7, <2>1, <2>2
    <2> QED
      BY <2>3 DEF FbMine
  <1>8. UNION {ToSet(f.refs) : f \in flows} = ExRefs(FbEligible)
    <2>1. FbConversations
      BY ExInvFlows DEF ExShown
    <2> QED
      BY <1>2, <2>1 DEF FbConversations
  <1> QED
    BY <1>2, <1>3, <1>5, <1>6, <1>7, <1>8 DEF TlFlows

(* The sessions of TLS: each begins with a packet of a flow between its        *)
(* endpoints, which dates it, and no two with the same.                        *)
TlSession(flows, s) ==
    \E f \in flows : /\ s.client = f.src[1] /\ s.server = f.dst
                     /\ s.ref \in ToSet(f.refs) /\ s.first \in TxTimes(exPackets)
TlSessions(flows, tls) ==
    /\ IsFiniteSet(tls) /\ \A s \in tls : TlSession(flows, s)
    /\ \A s, u \in tls : s.ref = u.ref => s = u

TlLooks(p) == p.proto = "TLS" \/ (p.transport = "TCP" /\ p.dst[2] \in TxTlsPorts)
TlSecure(flows) == {f \in flows : f.app = "TLS" \/ f.dst[2] \in TxTlsPorts}
TlJoined(f) == {r \in ToSet(f.refs) : TlLooks(exPackets[r])}
TlRefs(flows, k) == UNION {TlJoined(f) : f \in {g \in TlSecure(flows) : <<g.src, g.dst>> = k}}
TlHellos(flows, k) ==
    {r \in TlRefs(flows, k) : exPackets[r].hint.kind = "hello" /\ exPackets[r].hint.name # NoName}
TlEnds(flows) == {<<f.src, f.dst>> : f \in {g \in TlSecure(flows) : TlJoined(g) # {}}}
TlSessionOf(flows, k) ==
    [client |-> k[1][1], server |-> k[2], ref |-> Min(TlRefs(flows, k)),
     first |-> exPackets[Min(TlRefs(flows, k))].at,
     name |-> IF TlHellos(flows, k) = {} THEN NoName ELSE exPackets[Min(TlHellos(flows, k))].hint.name]

LEMMA TlSessionsOf ==
    ASSUME NEW flows
    PROVE  TxTls(exPackets, flows) = {TlSessionOf(flows, k) : k \in TlEnds(flows)}
  BY DEF TxTls, TlSessionOf, TlEnds, TlHellos, TlRefs, TlJoined, TlSecure, TlLooks

LEMMA TlAllSessions ==
    ASSUME exPackets \in Seq(ExPacket), NEW flows, TlFlows(flows), NEW tls, tls = TxTls(exPackets, flows)
    PROVE  TlSessions(flows, tls)
  <1>1. tls = {TlSessionOf(flows, k) : k \in TlEnds(flows)}
    BY TlSessionsOf
  <1>2. ASSUME NEW k \in TlEnds(flows), NEW s, s = TlSessionOf(flows, k)
        PROVE  \E f \in flows : /\ k = <<f.src, f.dst>> /\ s.client = f.src[1] /\ s.server = f.dst
                                /\ s.ref \in ToSet(f.refs) /\ s.first \in TxTimes(exPackets)
    <2>1. PICK R : R = TlRefs(flows, k)
      OBVIOUS
    <2>2. R # {}
      <3>1. PICK f \in TlSecure(flows) : TlJoined(f) # {} /\ k = <<f.src, f.dst>>
        BY <1>2 DEF TlEnds
      <3> QED
        BY <2>1, <3>1 DEF TlRefs
    <2>3. ASSUME NEW r \in R PROVE r \in DOMAIN exPackets /\ \E f \in flows : k = <<f.src, f.dst>> /\ r \in ToSet(f.refs)
      <3>1. PICK f \in TlSecure(flows) : <<f.src, f.dst>> = k /\ r \in TlJoined(f)
        BY <2>1, <2>3 DEF TlRefs
      <3>2. f \in flows /\ r \in ToSet(f.refs)
        BY <3>1 DEF TlSecure, TlJoined
      <3>3. ToSet(f.refs) \subseteq DOMAIN exPackets
        BY <3>2 DEF TlFlows, TlFlow
      <3> QED
        BY <3>1, <3>2, <3>3
    <2>4. R \in SUBSET Int /\ IsFiniteSet(R)
      <3>1. DOMAIN exPackets = 1 .. Len(exPackets) /\ Len(exPackets) \in Nat
        OBVIOUS
      <3>2. IsFiniteSet(1 .. Len(exPackets))
        BY <3>1, FS_Interval
      <3> QED
        BY <2>3, <3>1, <3>2, FS_Subset
    <2>5. PICK m : m = Min(R)
      OBVIOUS
    <2>6. m \in R
      BY <2>2, <2>4, <2>5, FiniteLeast
    <2>7. PICK f \in flows : k = <<f.src, f.dst>> /\ m \in ToSet(f.refs)
      BY <2>3, <2>6
    <2>8. s.ref = m /\ s.first = exPackets[m].at /\ s.client = k[1][1] /\ s.server = k[2]
      BY <1>2, <2>1, <2>5 DEF TlSessionOf
    <2>9. exPackets[m].at \in TxTimes(exPackets)
      BY <2>3, <2>6 DEF TxTimes
    <2> QED
      BY <2>7, <2>8, <2>9
  <1>3. IsFiniteSet(tls)
    <2>1. PICK ends : ends = [f \in flows |-> <<f.src, f.dst>>]
      OBVIOUS
    <2>2. IsFiniteSet({ends[f] : f \in flows})
      BY <2>1, FiniteImage DEF TlFlows
    <2>3. TlEnds(flows) \subseteq {ends[f] : f \in flows}
      BY <2>1 DEF TlEnds, TlSecure
    <2>4. PICK K : K = TlEnds(flows)
      OBVIOUS
    <2>5. PICK of : of = [k \in K |-> TlSessionOf(flows, k)]
      OBVIOUS
    <2>6. IsFiniteSet(K) /\ DOMAIN of = K /\ of = [k \in K |-> of[k]] /\ tls = {of[k] : k \in K}
      BY <1>1, <2>2, <2>3, <2>4, <2>5, FS_Subset
    <2> QED
      BY <2>6, FiniteImage
  <1>4. ASSUME NEW s \in tls PROVE TlSession(flows, s)
    <2>1. PICK k \in TlEnds(flows) : s = TlSessionOf(flows, k)
      BY <1>1
    <2> QED
      BY <1>2, <2>1 DEF TlSession
  <1>5. ASSUME NEW s \in tls, NEW u \in tls, s.ref = u.ref PROVE s = u
    <2>1. PICK k \in TlEnds(flows) : s = TlSessionOf(flows, k)
      BY <1>1
    <2>2. PICK l \in TlEnds(flows) : u = TlSessionOf(flows, l)
      BY <1>1
    <2>3. PICK f \in flows : k = <<f.src, f.dst>> /\ s.ref \in ToSet(f.refs)
      BY <1>2, <2>1
    <2>4. PICK g \in flows : l = <<g.src, g.dst>> /\ u.ref \in ToSet(g.refs)
      BY <1>2, <2>2
    <2>5. f = g
      BY <1>5, <2>3, <2>4 DEF TlFlows
    <2> QED
      BY <2>1, <2>2, <2>3, <2>4, <2>5
  <1> QED
    BY <1>3, <1>4, <1>5 DEF TlSessions

-----------------------------------------------------------------------------
(* The graph.  What is drawn, apart from the edges between hosts, by kind.     *)
TlAsks(dns) == {[from |-> t.client, name |-> t.name] : t \in TlAsked(dns)}
TlVisits(tls) == {[from |-> s.client, name |-> s.name] : s \in TlNamed(tls)}
TlAskEdge(dns, a) ==
    TlEdge(TlHost(a.from), TlDomain(a.name), "DNS", {t \in dns : t.client = a.from /\ t.name = a.name})
TlAnswerEdge(resolved, r) ==
    TlEdge(TlDomain(r.name), TlHost(r.host), "RESOLVES_TO",
           {q \in resolved : q.name = r.name /\ q.host = r.host})
TlVisitEdge(tls, v) ==
    TlEdge(TlHost(v.from), TlDomain(v.name), "TLS", {s \in tls : s.client = v.from /\ s.name = v.name})
TlPortEdges(hosts, h) ==
    {TlEdge(TlHost(h), TlService(h, port), "EXPOSES", {h}) : port \in HpServices(hosts[h].profile)}

LEMMA TlEdgesOf ==
    ASSUME NEW flows, NEW dns, NEW tls, NEW hosts
    PROVE  TlEdges(flows, dns, tls, hosts) =
              TlFlowEdges(flows)
              \cup {TlAskEdge(dns, a) : a \in TlAsks(dns)}
              \cup {TlAnswerEdge(TlResolutions(dns, tls), r) : r \in TlResolutions(dns, tls)}
              \cup {TlVisitEdge(tls, v) : v \in TlVisits(tls)}
              \cup UNION {TlPortEdges(hosts, h) : h \in DOMAIN hosts}
  BY DEF TlEdges, TlAsks, TlVisits, TlAskEdge, TlAnswerEdge, TlVisitEdge, TlPortEdges

LEMMA TlEdgeFields ==
    ASSUME NEW from, NEW to, NEW type, NEW items, NEW e, e = TlEdge(from, to, type, items)
    PROVE  e.from = from /\ e.to = to /\ e.packets = 0 /\ e.count = Cardinality(items) /\ e.type = type
  BY DEF TlEdge

TlGroup(flows, k) == {f \in flows : <<f.src[1], f.dst[1], f.app>> = k}
TlGroups(flows) == {<<f.src[1], f.dst[1], f.app>> : f \in flows}
TlFlowEdge(e, flows, k) ==
    /\ e.from = TlHost(k[1]) /\ e.to = TlHost(k[2]) /\ e.type = k[3]
    /\ e = [from |-> e.from, to |-> e.to, type |-> e.type, count |-> e.count, packets |-> e.packets]
    /\ e.count = Cardinality(TlGroup(flows, k))
    /\ e.packets = MapThenSumSet(LAMBDA g : g.packets, TlGroup(flows, k))

LEMMA TlFlowEdgesOf ==
    ASSUME NEW flows
    PROVE  /\ \A e \in TlFlowEdges(flows) : \E k \in TlGroups(flows) : TlFlowEdge(e, flows, k)
           /\ \A k \in TlGroups(flows) : \E e \in TlFlowEdges(flows) : TlFlowEdge(e, flows, k)
           /\ IsFiniteSet(flows) => IsFiniteSet(TlFlowEdges(flows))
  <1> DEFINE key(f) == <<f.src[1], f.dst[1], f.app>>
             edge(F) == LET f == CHOOSE g \in F : TRUE
                        IN  [from |-> TlHost(f.src[1]), to |-> TlHost(f.dst[1]), type |-> f.app,
                             count |-> Cardinality(F), packets |-> MapThenSumSet(LAMBDA g : g.packets, F)]
  <1>1. TlFlowEdges(flows) = {edge(TlGroup(flows, k)) : k \in TlGroups(flows)}
    BY DEF TlFlowEdges, TlGroup, TlGroups
  <1>2. ASSUME NEW k \in TlGroups(flows)
        PROVE  TlFlowEdge(edge(TlGroup(flows, k)), flows, k)
    <2>1. PICK F : F = TlGroup(flows, k)
      OBVIOUS
    <2>2. PICK f : f = CHOOSE g \in F : TRUE
      OBVIOUS
    <2>3. F # {}
      BY <2>1 DEF TlGroup, TlGroups
    <2>4. f \in F
      BY <2>2, <2>3
    <2>5. f.src[1] = k[1] /\ f.dst[1] = k[2] /\ f.app = k[3]
      BY <2>1, <2>4 DEF TlGroup
    <2>6. PICK sum : sum = MapThenSumSet(LAMBDA g : g.packets, F)
      OBVIOUS
    <2>7. edge(F) = [from |-> TlHost(f.src[1]), to |-> TlHost(f.dst[1]), type |-> f.app,
                     count |-> Cardinality(F), packets |-> sum]
      BY <2>2, <2>6
    <2> HIDE DEF edge
    <2> QED
      BY <2>1, <2>5, <2>6, <2>7 DEF TlFlowEdge
  <1>3. ASSUME IsFiniteSet(flows) PROVE IsFiniteSet(TlFlowEdges(flows))
    <2>1. PICK of : of = [f \in flows |-> edge(TlGroup(flows, key(f)))]
      OBVIOUS
    <2>2. DOMAIN of = flows /\ of = [f \in flows |-> of[f]] /\ TlFlowEdges(flows) = {of[f] : f \in flows}
      <3> HIDE DEF edge
      <3> QED
        BY <1>1, <2>1 DEF TlGroups
    <2> QED
      BY <1>3, <2>2, FiniteImage
  <1> HIDE DEF edge
  <1> QED
    BY <1>1, <1>2, <1>3

(* The nodes, by what they are nodes of.                                       *)
TlFlowNodes(flows) == UNION {{TlHost(f.src[1]), TlHost(f.dst[1])} : f \in flows}
TlAskNodes(dns) ==
    UNION {{TlHost(t.client), TlDomain(t.name), TlHost(t.server)} \cup {TlHost(h) : h \in t.answers}
              : t \in TlAsked(dns)}
TlPortNodes(hosts) ==
    UNION {{TlService(h, port) : port \in HpServices(hosts[h].profile)} : h \in DOMAIN hosts}

LEMMA TlNodesOf ==
    ASSUME NEW flows, NEW dns, NEW tls, NEW hosts
    PROVE  TlNodes(flows, dns, tls, hosts) =
              {TlHost(h) : h \in DOMAIN hosts} \cup TlFlowNodes(flows) \cup TlAskNodes(dns)
              \cup {TlDomain(s.name) : s \in TlNamed(tls)} \cup TlPortNodes(hosts)
  BY DEF TlNodes, TlFlowNodes, TlAskNodes, TlPortNodes

(* Whatever an edge joins is a node.                                           *)
LEMMA TlEndsShown ==
    ASSUME NEW flows, NEW dns, NEW tls, TlSessions(flows, tls), NEW hosts,
           NEW e \in TlEdges(flows, dns, tls, hosts)
    PROVE  {e.from, e.to} \subseteq TlNodes(flows, dns, tls, hosts)
  <1>1. PICK nodes : nodes = TlNodes(flows, dns, tls, hosts)
    OBVIOUS
  <1>2. ASSUME NEW f \in flows PROVE TlHost(f.src[1]) \in nodes /\ TlHost(f.dst[1]) \in nodes
    <2>1. TlHost(f.src[1]) \in TlFlowNodes(flows) /\ TlHost(f.dst[1]) \in TlFlowNodes(flows)
      BY DEF TlFlowNodes
    <2> QED
      BY <1>1, <2>1, TlNodesOf
  <1>3. ASSUME NEW t \in TlAsked(dns)
        PROVE  /\ TlHost(t.client) \in nodes /\ TlDomain(t.name) \in nodes
               /\ \A h \in t.answers : TlHost(h) \in nodes
    <2>1. /\ TlHost(t.client) \in TlAskNodes(dns) /\ TlDomain(t.name) \in TlAskNodes(dns)
          /\ \A h \in t.answers : TlHost(h) \in TlAskNodes(dns)
      BY DEF TlAskNodes
    <2> QED
      BY <1>1, <2>1, TlNodesOf
  <1>4. ASSUME NEW s \in TlNamed(tls)
        PROVE  TlDomain(s.name) \in nodes /\ TlHost(s.client) \in nodes /\ TlHost(s.server[1]) \in nodes
    <2>1. TlDomain(s.name) \in nodes
      BY <1>1, TlNodesOf
    <2>2. PICK f \in flows : s.client = f.src[1] /\ s.server = f.dst
      BY DEF TlNamed, TlSessions, TlSession
    <2> QED
      BY <1>2, <2>1, <2>2
  <1>5. ASSUME NEW h \in DOMAIN hosts
        PROVE  TlHost(h) \in nodes /\ \A port \in HpServices(hosts[h].profile) : TlService(h, port) \in nodes
    <2>1. \A port \in HpServices(hosts[h].profile) : TlService(h, port) \in TlPortNodes(hosts)
      BY DEF TlPortNodes
    <2> QED
      BY <1>1, <2>1, TlNodesOf
  <1>6. CASE e \in TlFlowEdges(flows)
    <2>1. PICK k \in TlGroups(flows) : TlFlowEdge(e, flows, k)
      BY <1>6, TlFlowEdgesOf
    <2>2. PICK f \in flows : k = <<f.src[1], f.dst[1], f.app>>
      BY DEF TlGroups
    <2>3. e.from = TlHost(f.src[1]) /\ e.to = TlHost(f.dst[1])
      BY <2>1, <2>2 DEF TlFlowEdge
    <2> QED
      BY <1>1, <1>2, <2>3
  <1>7. ASSUME NEW a \in TlAsks(dns), e = TlAskEdge(dns, a)
        PROVE  e.from \in nodes /\ e.to \in nodes
    <2>1. e.from = TlHost(a.from) /\ e.to = TlDomain(a.name)
      BY <1>7, TlEdgeFields DEF TlAskEdge
    <2>2. PICK t \in TlAsked(dns) : a.from = t.client /\ a.name = t.name
      BY DEF TlAsks
    <2> QED
      BY <1>3, <2>1, <2>2
  <1>8. ASSUME NEW r \in TlResolutions(dns, tls), e = TlAnswerEdge(TlResolutions(dns, tls), r)
        PROVE  e.from \in nodes /\ e.to \in nodes
    <2>1. e.from = TlDomain(r.name) /\ e.to = TlHost(r.host)
      BY <1>8, TlEdgeFields DEF TlAnswerEdge
    <2>2. TlDomain(r.name) \in nodes /\ TlHost(r.host) \in nodes
      <3>1. CASE \E x \in TlAsked(dns) \X UNION {u.answers : u \in dns} :
                    x[2] \in x[1].answers /\ r = [name |-> x[1].name, host |-> x[2], of |-> x[1].ref]
        BY <1>3, <3>1
      <3>2. CASE \E s \in TlNamed(tls) : r = [name |-> s.name, host |-> s.server[1], of |-> s.ref]
        BY <1>4, <3>2
      <3> QED
        BY <3>1, <3>2 DEF TlResolutions
    <2> QED
      BY <2>1, <2>2
  <1>9. ASSUME NEW v \in TlVisits(tls), e = TlVisitEdge(tls, v)
        PROVE  e.from \in nodes /\ e.to \in nodes
    <2>1. e.from = TlHost(v.from) /\ e.to = TlDomain(v.name)
      BY <1>9, TlEdgeFields DEF TlVisitEdge
    <2>2. PICK s \in TlNamed(tls) : v.from = s.client /\ v.name = s.name
      BY DEF TlVisits
    <2> QED
      BY <1>4, <2>1, <2>2
  <1>10. ASSUME NEW h \in DOMAIN hosts, e \in TlPortEdges(hosts, h)
         PROVE  e.from \in nodes /\ e.to \in nodes
    <2>1. PICK port \in HpServices(hosts[h].profile) : e = TlEdge(TlHost(h), TlService(h, port), "EXPOSES", {h})
      BY <1>10 DEF TlPortEdges
    <2>2. e.from = TlHost(h) /\ e.to = TlService(h, port)
      BY <2>1, TlEdgeFields
    <2> QED
      BY <1>5, <2>2
  <1>11. \/ e \in TlFlowEdges(flows) \/ \E a \in TlAsks(dns) : e = TlAskEdge(dns, a)
         \/ \E r \in TlResolutions(dns, tls) : e = TlAnswerEdge(TlResolutions(dns, tls), r)
         \/ \E v \in TlVisits(tls) : e = TlVisitEdge(tls, v)
         \/ \E h \in DOMAIN hosts : e \in TlPortEdges(hosts, h)
    BY TlEdgesOf
  <1> QED
    BY <1>1, <1>6, <1>7, <1>8, <1>9, <1>10, <1>11

(* The tables are finite, and what is drawn of them is.                        *)
TlTables(dns, tls, hosts) ==
    /\ IsFiniteSet(dns) /\ \A t \in dns : IsFiniteSet(t.answers)
    /\ IsFiniteSet(tls)
    /\ IsFiniteSet(DOMAIN hosts) /\ \A h \in DOMAIN hosts : IsFiniteSet(DOMAIN hosts[h].profile.served)

LEMMA TlFinitelyResolved ==
    ASSUME NEW dns, NEW tls, NEW hosts, TlTables(dns, tls, hosts)
    PROVE  IsFiniteSet(TlResolutions(dns, tls))
  <1>1. PICK A : A = TlAsked(dns)
    OBVIOUS
  <1>2. A \in SUBSET dns /\ IsFiniteSet(A)
    <2>1. A \in SUBSET dns
      BY <1>1 DEF TlAsked
    <2> QED
      BY <2>1, FS_Subset DEF TlTables
  <1>3. PICK U : U = UNION {u.answers : u \in dns}
    OBVIOUS
  <1>4. IsFiniteSet(U)
    <2>1. PICK f : f = [u \in dns |-> u.answers]
      OBVIOUS
    <2>2. PICK S : S = {f[u] : u \in dns}
      OBVIOUS
    <2>3. IsFiniteSet(S)
      <3>1. DOMAIN f = dns /\ f = [u \in dns |-> f[u]] /\ IsFiniteSet(dns)
        BY <2>1 DEF TlTables
      <3> QED
        BY <2>2, <3>1, FiniteImage
    <2>4. \A T \in S : IsFiniteSet(T)
      BY <2>1, <2>2 DEF TlTables
    <2>5. U = UNION S
      BY <1>3, <2>1, <2>2
    <2> QED
      BY <2>3, <2>4, <2>5, FS_UNION
  <1>5. PICK P : P = {x \in A \X U : x[2] \in x[1].answers}
    OBVIOUS
  <1>6. IsFiniteSet(P)
    <2>1. IsFiniteSet(A \X U)
      BY <1>2, <1>4, FS_Product
    <2>2. P \in SUBSET (A \X U)
      BY <1>5
    <2> QED
      BY <2>1, <2>2, FS_Subset
  <1>7. PICK f : f = [x \in P |-> [name |-> x[1].name, host |-> x[2], of |-> x[1].ref]]
    OBVIOUS
  <1>8. IsFiniteSet({f[x] : x \in P})
    <2>1. DOMAIN f = P /\ f = [x \in P |-> f[x]]
      BY <1>7
    <2> QED
      BY <1>6, <2>1, FiniteImage
  <1>9. PICK N : N = TlNamed(tls)
    OBVIOUS
  <1>10. IsFiniteSet(N)
    <2>1. N \in SUBSET tls
      BY <1>9 DEF TlNamed
    <2> QED
      BY <2>1, FS_Subset DEF TlTables
  <1>11. PICK g : g = [s \in N |-> [name |-> s.name, host |-> s.server[1], of |-> s.ref]]
    OBVIOUS
  <1>12. IsFiniteSet({g[s] : s \in N})
    <2>1. DOMAIN g = N /\ g = [s \in N |-> g[s]]
      BY <1>11
    <2> QED
      BY <1>10, <2>1, FiniteImage
  <1>13. TlResolutions(dns, tls) = {f[x] : x \in P} \cup {g[s] : s \in N}
    <2>1. {f[x] : x \in P} = {[name |-> x[1].name, host |-> x[2], of |-> x[1].ref] : x \in P}
      BY <1>7
    <2>2. {g[s] : s \in N} = {[name |-> s.name, host |-> s.server[1], of |-> s.ref] : s \in N}
      BY <1>11
    <2>3. TlResolutions(dns, tls) =
              {[name |-> x[1].name, host |-> x[2], of |-> x[1].ref] : x \in P}
              \cup {[name |-> s.name, host |-> s.server[1], of |-> s.ref] : s \in N}
      BY <1>1, <1>3, <1>5, <1>9 DEF TlResolutions
    <2> QED
      BY <2>1, <2>2, <2>3
  <1> QED
    BY <1>8, <1>12, <1>13, FS_Union

LEMMA TlFinitelyDrawn ==
    ASSUME NEW flows, IsFiniteSet(flows), NEW dns, NEW tls, NEW hosts, TlTables(dns, tls, hosts)
    PROVE  IsFiniteSet(TlEdges(flows, dns, tls, hosts))
  <1>1. IsFiniteSet(TlFlowEdges(flows))
    BY TlFlowEdgesOf
  <1>2. IsFiniteSet({TlAskEdge(dns, a) : a \in TlAsks(dns)})
    <2>1. PICK A : A = TlAsked(dns)
      OBVIOUS
    <2>2. IsFiniteSet(A)
      <3>1. A \in SUBSET dns
        BY <2>1 DEF TlAsked
      <3> QED
        BY <3>1, FS_Subset DEF TlTables
    <2>3. PICK f : f = [t \in A |-> TlAskEdge(dns, [from |-> t.client, name |-> t.name])]
      OBVIOUS
    <2>4. DOMAIN f = A /\ f = [t \in A |-> f[t]]
      BY <2>3
    <2>5. {TlAskEdge(dns, a) : a \in TlAsks(dns)} = {f[t] : t \in A}
      BY <2>1, <2>3 DEF TlAsks
    <2> QED
      BY <2>2, <2>4, <2>5, FiniteImage
  <1>3. IsFiniteSet({TlAnswerEdge(TlResolutions(dns, tls), r) : r \in TlResolutions(dns, tls)})
    <2>1. PICK R : R = TlResolutions(dns, tls)
      OBVIOUS
    <2>2. IsFiniteSet(R)
      BY <2>1, TlFinitelyResolved
    <2>3. PICK f : f = [r \in R |-> TlAnswerEdge(R, r)]
      OBVIOUS
    <2>4. DOMAIN f = R /\ f = [r \in R |-> f[r]]
      BY <2>3
    <2>5. {TlAnswerEdge(R, r) : r \in R} = {f[r] : r \in R}
      BY <2>3
    <2>6. IsFiniteSet({TlAnswerEdge(R, r) : r \in R})
      BY <2>2, <2>4, <2>5, FiniteImage
    <2> QED
      BY <2>1, <2>6
  <1>4. IsFiniteSet({TlVisitEdge(tls, v) : v \in TlVisits(tls)})
    <2>1. PICK N : N = TlNamed(tls)
      OBVIOUS
    <2>2. IsFiniteSet(N)
      <3>1. N \in SUBSET tls
        BY <2>1 DEF TlNamed
      <3> QED
        BY <3>1, FS_Subset DEF TlTables
    <2>3. PICK f : f = [s \in N |-> TlVisitEdge(tls, [from |-> s.client, name |-> s.name])]
      OBVIOUS
    <2>4. DOMAIN f = N /\ f = [s \in N |-> f[s]]
      BY <2>3
    <2>5. {TlVisitEdge(tls, v) : v \in TlVisits(tls)} = {f[s] : s \in N}
      BY <2>1, <2>3 DEF TlVisits
    <2> QED
      BY <2>2, <2>4, <2>5, FiniteImage
  <1>5. ASSUME NEW h \in DOMAIN hosts PROVE IsFiniteSet(TlPortEdges(hosts, h))
    <2>1. PICK D : D = DOMAIN hosts[h].profile.served
      OBVIOUS
    <2>2. IsFiniteSet(D)
      BY <2>1 DEF TlTables
    <2>3. PICK f : f = [k \in D |-> TlEdge(TlHost(h), TlService(h, k[2]), "EXPOSES", {h})]
      OBVIOUS
    <2>4. DOMAIN f = D /\ f = [k \in D |-> f[k]]
      BY <2>3
    <2>5. TlPortEdges(hosts, h) = {f[k] : k \in D}
      BY <2>1, <2>3 DEF TlPortEdges, HpServices
    <2> QED
      BY <2>2, <2>4, <2>5, FiniteImage
  <1>6. IsFiniteSet(UNION {TlPortEdges(hosts, h) : h \in DOMAIN hosts})
    <2>1. PICK f : f = [h \in DOMAIN hosts |-> TlPortEdges(hosts, h)]
      OBVIOUS
    <2>2. PICK S : S = {f[h] : h \in DOMAIN hosts}
      OBVIOUS
    <2>3. IsFiniteSet(S)
      <3>1. DOMAIN f = DOMAIN hosts /\ f = [h \in DOMAIN hosts |-> f[h]] /\ IsFiniteSet(DOMAIN hosts)
        BY <2>1 DEF TlTables
      <3> QED
        BY <2>2, <3>1, FiniteImage
    <2>4. \A T \in S : IsFiniteSet(T)
      BY <1>5, <2>1, <2>2
    <2>5. UNION {TlPortEdges(hosts, h) : h \in DOMAIN hosts} = UNION S
      BY <2>1, <2>2
    <2> QED
      BY <2>3, <2>4, <2>5, FS_UNION
  <1> QED
    BY <1>1, <1>2, <1>3, <1>4, <1>6, FS_Union, TlEdgesOf

(* An answer that was given a name leads from the name to the address.         *)
LEMMA TlAnswersShown ==
    ASSUME NEW flows, NEW dns, NEW tls, NEW hosts, TlTables(dns, tls, hosts),
           NEW t \in dns, NEW h \in t.answers, t.name # NoName
    PROVE  \E e \in TlEdges(flows, dns, tls, hosts) :
              e.from = TlDomain(t.name) /\ e.to = TlHost(h) /\ e.count > 0
  <1>1. PICK R : R = TlResolutions(dns, tls)
    OBVIOUS
  <1>2. PICK r : r = [name |-> t.name, host |-> h, of |-> t.ref]
    OBVIOUS
  <1>3. r \in R
    <2>1. t \in TlAsked(dns) /\ h \in UNION {u.answers : u \in dns}
      BY DEF TlAsked
    <2>2. PICK x : x = <<t, h>>
      OBVIOUS
    <2>3. /\ x \in {y \in TlAsked(dns) \X UNION {u.answers : u \in dns} : y[2] \in y[1].answers}
          /\ r = [name |-> x[1].name, host |-> x[2], of |-> x[1].ref]
      BY <1>2, <2>1, <2>2
    <2> QED
      BY <1>1, <2>3 DEF TlResolutions
  <1>4. PICK same : same = {q \in R : q.name = r.name /\ q.host = r.host}
    OBVIOUS
  <1>5. IsFiniteSet(same) /\ same # {}
    <2>1. IsFiniteSet(R) /\ same \in SUBSET R /\ r \in same
      BY <1>1, <1>3, <1>4, TlFinitelyResolved
    <2> QED
      BY <2>1, FS_Subset
  <1>6. Cardinality(same) > 0
    <2>1. Cardinality(same) \in Nat /\ Cardinality(same) # 0
      BY <1>5, FS_EmptySet, FS_CardinalityType
    <2> QED
      BY <2>1
  <1>7. PICK e : e = TlAnswerEdge(R, r)
    OBVIOUS
  <1>8. e.from = TlDomain(t.name) /\ e.to = TlHost(h) /\ e.count = Cardinality(same)
    BY <1>2, <1>4, <1>7, TlEdgeFields DEF TlAnswerEdge
  <1>9. e \in TlEdges(flows, dns, tls, hosts)
    BY <1>1, <1>3, <1>7, TlEdgesOf
  <1> QED
    BY <1>6, <1>8, <1>9

(* The packets an edge stands for: those of the flows between its two hosts    *)
(* under its label.  No two edges stand for the same packet.                   *)
TlCarried(flows, e) ==
    UNION {ToSet(f.refs) : f \in {g \in flows : /\ e.from = TlHost(g.src[1]) /\ e.to = TlHost(g.dst[1])
                                                /\ e.type = g.app}}

LEMMA TlGroupSum ==
    ASSUME NEW flows, TlFlows(flows), NEW G \in SUBSET flows
    PROVE  MapThenSumSet(LAMBDA g : g.packets, G) = Cardinality(UNION {ToSet(f.refs) : f \in G})
  <1>1. /\ IsFiniteSet(G) /\ \A f \in G : IsFiniteSet(ToSet(f.refs)) /\ f.packets = Cardinality(ToSet(f.refs))
        /\ \A f, g \in G : f # g => ToSet(f.refs) \cap ToSet(g.refs) = {}
    BY FS_Subset DEF TlFlows, TlFlow
  <1>2. PICK r : r = [f \in G |-> ToSet(f.refs)]
    OBVIOUS
  <1>3. PICK n : n = [f \in G |-> Cardinality(r[f])]
    OBVIOUS
  <1>4. Disjoint(G, r)
    BY <1>1, <1>2 DEF Disjoint
  <1>5. Total(n) = Cardinality(UNION {r[f] : f \in G})
    BY <1>3, <1>4, DisjointTotal
  <1>6. n \in [G -> Int] /\ \A f \in G : n[f] = f.packets
    <2>1. \A f \in G : n[f] \in Nat /\ n[f] = f.packets
      BY <1>1, <1>2, <1>3, FS_CardinalityType
    <2> QED
      BY <1>3, <2>1
  <1>7. MapThenSumSet(LAMBDA g : g.packets, G) = Total(n)
    BY <1>1, <1>6, PacketSum
  <1>8. {r[f] : f \in G} = {ToSet(f.refs) : f \in G}
    BY <1>2
  <1> QED
    BY <1>5, <1>7, <1>8

LEMMA TlPacketsShown ==
    ASSUME NEW flows, TlFlows(flows), NEW dns, NEW tls, NEW hosts, TlTables(dns, tls, hosts)
    PROVE  MapThenSumSet(LAMBDA e : e.packets, TlEdges(flows, dns, tls, hosts)) = Cardinality(ExRefs(FbEligible))
  <1>1. PICK edges : edges = TlEdges(flows, dns, tls, hosts)
    OBVIOUS
  <1>2. IsFiniteSet(edges)
    BY <1>1, TlFinitelyDrawn DEF TlFlows
  <1>3. PICK between : between = TlFlowEdges(flows)
    OBVIOUS
  <1>4. between \subseteq edges /\ \A e \in edges \ between : e.packets = 0
    <2>1. between \subseteq edges
      BY <1>1, <1>3, TlEdgesOf
    <2>2. ASSUME NEW e \in edges, e \notin between PROVE e.packets = 0
      <3>1. \/ \E a \in TlAsks(dns) : e = TlAskEdge(dns, a)
            \/ \E r \in TlResolutions(dns, tls) : e = TlAnswerEdge(TlResolutions(dns, tls), r)
            \/ \E v \in TlVisits(tls) : e = TlVisitEdge(tls, v)
            \/ \E h \in DOMAIN hosts : e \in TlPortEdges(hosts, h)
        BY <1>1, <1>3, <2>2, TlEdgesOf
      <3>2. \E from, to, type, items : e = TlEdge(from, to, type, items)
        BY <3>1 DEF TlAskEdge, TlAnswerEdge, TlVisitEdge, TlPortEdges
      <3> QED
        BY <3>2, TlEdgeFields
    <2> QED
      BY <2>1, <2>2
  <1>5. PICK r : r = [e \in edges |-> IF e \in between THEN TlCarried(flows, e) ELSE {}]
    OBVIOUS
  <1>6. ASSUME NEW k \in TlGroups(flows), NEW e, TlFlowEdge(e, flows, k)
        PROVE  /\ TlCarried(flows, e) = UNION {ToSet(f.refs) : f \in TlGroup(flows, k)}
               /\ e.packets = Cardinality(TlCarried(flows, e))
    <2>1. e.from = TlHost(k[1]) /\ e.to = TlHost(k[2]) /\ e.type = k[3] /\ k = <<k[1], k[2], k[3]>>
      BY <1>6 DEF TlFlowEdge, TlGroups
    <2>2. {g \in flows : e.from = TlHost(g.src[1]) /\ e.to = TlHost(g.dst[1]) /\ e.type = g.app}
            = TlGroup(flows, k)
      BY <2>1 DEF TlHost, TlGroup
    <2>3. e.packets = MapThenSumSet(LAMBDA g : g.packets, TlGroup(flows, k))
      BY <1>6 DEF TlFlowEdge
    <2>4. TlGroup(flows, k) \in SUBSET flows
      BY DEF TlGroup
    <2>5. TlCarried(flows, e) = UNION {ToSet(f.refs) : f \in TlGroup(flows, k)}
      BY <2>2 DEF TlCarried
    <2>6. PICK G : G = TlGroup(flows, k)
      OBVIOUS
    <2>7. MapThenSumSet(LAMBDA g : g.packets, G) = Cardinality(UNION {ToSet(f.refs) : f \in G})
      BY <2>4, <2>6, TlGroupSum
    <2> QED
      BY <2>3, <2>5, <2>6, <2>7
  <1>7. ASSUME NEW e \in edges
        PROVE  r[e] \subseteq ExRefs(FbEligible) /\ e.packets = Cardinality(r[e])
    <2>1. CASE e \in between
      <3>1. PICK k \in TlGroups(flows) : TlFlowEdge(e, flows, k)
        BY <1>3, <2>1, TlFlowEdgesOf
      <3>2. r[e] = TlCarried(flows, e) /\ e.packets = Cardinality(r[e])
        BY <1>5, <1>6, <2>1, <3>1
      <3>3. TlCarried(flows, e) \subseteq ExRefs(FbEligible)
        BY DEF TlCarried, TlFlows
      <3> QED
        BY <3>2, <3>3
    <2>2. CASE e \notin between
      BY <1>4, <1>5, <2>2, FS_EmptySet
    <2> QED
      BY <2>1, <2>2
  <1>8. IsFiniteSet(ExRefs(FbEligible))
    <2>1. PICK of : of = [f \in flows |-> ToSet(f.refs)]
      OBVIOUS
    <2>2. IsFiniteSet({of[f] : f \in flows})
      <3>1. DOMAIN of = flows /\ of = [f \in flows |-> of[f]] /\ IsFiniteSet(flows)
        BY <2>1 DEF TlFlows
      <3> QED
        BY <3>1, FiniteImage
    <2>3. \A T \in {of[f] : f \in flows} : IsFiniteSet(T)
      BY <2>1 DEF TlFlows, TlFlow
    <2>4. ExRefs(FbEligible) = UNION {of[f] : f \in flows}
      BY <2>1 DEF TlFlows
    <2> QED
      BY <2>2, <2>3, <2>4, FS_UNION
  <1>9. ASSUME NEW e \in edges, NEW d \in edges, e # d PROVE r[e] \cap r[d] = {}
    <2>1. CASE e \in between /\ d \in between
      <3>1. PICK k \in TlGroups(flows) : TlFlowEdge(e, flows, k)
        BY <1>3, <2>1, TlFlowEdgesOf
      <3>2. PICK l \in TlGroups(flows) : TlFlowEdge(d, flows, l)
        BY <1>3, <2>1, TlFlowEdgesOf
      <3>3. k # l
        <4>1. ASSUME k = l PROVE FALSE
          <5>1. /\ e = [from |-> e.from, to |-> e.to, type |-> e.type, count |-> e.count, packets |-> e.packets]
                /\ d = [from |-> d.from, to |-> d.to, type |-> d.type, count |-> d.count, packets |-> d.packets]
            BY <3>1, <3>2 DEF TlFlowEdge
          <5>2. /\ e.from = d.from /\ e.to = d.to /\ e.type = d.type /\ e.count = d.count
                /\ e.packets = d.packets
            BY <3>1, <3>2, <4>1 DEF TlFlowEdge
          <5>3. e = d
            BY <5>1, <5>2
          <5> QED
            BY <1>9, <5>3
        <4> QED
          BY <4>1
      <3>4. /\ r[e] = UNION {ToSet(f.refs) : f \in TlGroup(flows, k)}
            /\ r[d] = UNION {ToSet(f.refs) : f \in TlGroup(flows, l)}
        BY <1>5, <1>6, <2>1, <3>1, <3>2
      <3>5. \A f \in TlGroup(flows, k), g \in TlGroup(flows, l) : ToSet(f.refs) \cap ToSet(g.refs) = {}
        BY <3>3 DEF TlGroup, TlFlows
      <3> QED
        BY <3>4, <3>5
    <2>2. CASE ~(e \in between /\ d \in between)
      BY <1>5, <2>2
    <2> QED
      BY <2>1, <2>2
  <1>10. UNION {r[e] : e \in edges} = ExRefs(FbEligible)
    <2>1. ASSUME NEW i \in ExRefs(FbEligible) PROVE \E e \in edges : i \in r[e]
      <3>1. PICK f \in flows : i \in ToSet(f.refs)
        BY DEF TlFlows
      <3>2. PICK k : k = <<f.src[1], f.dst[1], f.app>>
        OBVIOUS
      <3>3. k \in TlGroups(flows) /\ f \in TlGroup(flows, k)
        BY <3>2 DEF TlGroups, TlGroup
      <3>4. PICK e \in between : TlFlowEdge(e, flows, k)
        BY <1>3, <3>3, TlFlowEdgesOf
      <3>5. i \in TlCarried(flows, e) /\ e \in edges
        BY <1>4, <1>6, <3>1, <3>3, <3>4
      <3> QED
        BY <1>5, <3>4, <3>5
    <2> QED
      BY <1>7, <2>1
  <1>11. Disjoint(edges, r)
    BY <1>2, <1>7, <1>8, <1>9, FS_Subset DEF Disjoint
  <1>12. PICK n : n = [e \in edges |-> Cardinality(r[e])]
    OBVIOUS
  <1>13. Total(n) = Cardinality(ExRefs(FbEligible))
    BY <1>10, <1>11, <1>12, DisjointTotal
  <1>14. n \in [edges -> Int] /\ \A e \in edges : n[e] = e.packets
    <2>1. \A e \in edges : n[e] = e.packets /\ n[e] \in Nat
      BY <1>7, <1>8, <1>12, FS_Subset, FS_CardinalityType
    <2> QED
      BY <1>12, <2>1
  <1>15. MapThenSumSet(LAMBDA x : x.packets, edges) = Total(n)
    BY <1>2, <1>14, PacketSum
  <1> QED
    BY <1>1, <1>13, <1>15

(* The timeline, by what its events are about.                                 *)
TlQueryEvents(dns) == {[kind |-> "dns_query", of |-> t.ref, at |-> t.at] : t \in dns}
TlReplyEvents(dns) ==
    {[kind |-> "dns_response", of |-> t.ref, at |-> t.at + t.latency] : t \in {u \in dns : u.reply # 0}}
TlFlowEvents(flows) == {[kind |-> TlFlowKind(f), of |-> f.refs[1], at |-> f.first] : f \in flows}
TlResetEvents(flows) ==
    {[kind |-> "tcp_reset", of |-> f.refs[1], at |-> f.last]
       : f \in {g \in flows : ~g.failed /\ g.resets > 0 /\ g.state # "reset"}}
TlRequestEvents(http) == {[kind |-> "http_request", of |-> t.ref, at |-> t.at] : t \in http}
TlHandshakes(tls) == {[kind |-> "tls_handshake", of |-> s.ref, at |-> s.first] : s \in tls}

LEMMA TlEventsOf ==
    ASSUME NEW flows, TlFlows(flows), NEW dns, NEW http, NEW tls
    PROVE  TlEvents(flows, dns, http, tls) =
              TlQueryEvents(dns) \cup TlReplyEvents(dns) \cup TlFlowEvents(flows)
              \cup TlRequestEvents(http) \cup TlHandshakes(tls)
  <1>1. TlEvents(flows, dns, http, tls) =
              TlQueryEvents(dns) \cup TlReplyEvents(dns) \cup TlFlowEvents(flows) \cup TlResetEvents(flows)
              \cup TlRequestEvents(http) \cup TlHandshakes(tls)
    BY DEF TlEvents, TlQueryEvents, TlReplyEvents, TlFlowEvents, TlResetEvents, TlRequestEvents, TlHandshakes
  <1>2. TlResetEvents(flows) = {}
    BY DEF TlResetEvents, TlFlows, TlFlow
  <1> QED
    BY <1>1, <1>2

LEMMA TlFlowKinds ==
    ASSUME NEW f, TlFlow(f)
    PROVE  /\ TlFlowKind(f) \in {"flow_failed", "udp_session", "tcp_reset", "tcp_connect"}
           /\ TlFlowKind(f) = "tcp_reset" <=> (f.resets > 0 /\ ~f.failed)
  <1>1. (f.state = "reset" <=> f.resets > 0) /\ (f.resets > 0 => f.transport = "TCP")
    BY DEF TlFlow
  <1>2. CASE f.failed
    BY <1>2 DEF TlFlowKind
  <1>3. CASE ~f.failed /\ f.transport = "UDP"
    BY <1>1, <1>3 DEF TlFlowKind
  <1>4. CASE ~f.failed /\ f.transport = "TCP" /\ f.state = "reset"
    BY <1>1, <1>4 DEF TlFlowKind
  <1>5. CASE ~f.failed /\ f.transport # "UDP" /\ ~(f.transport = "TCP" /\ f.state = "reset")
    BY <1>1, <1>5 DEF TlFlowKind
  <1> QED
    BY <1>2, <1>3, <1>4, <1>5

(* Flows differ in their first packets.                                        *)
LEMMA TlFirstPackets ==
    ASSUME NEW flows, TlFlows(flows), NEW g \in flows, NEW h \in flows, g.refs[1] = h.refs[1]
    PROVE  g = h
  <1>1. g.refs[1] \in ToSet(g.refs) /\ h.refs[1] \in ToSet(h.refs)
    BY DEF TlFlows, TlFlow
  <1>2. ToSet(g.refs) \cap ToSet(h.refs) # {}
    BY <1>1
  <1>3. g # h => ToSet(g.refs) \cap ToSet(h.refs) = {}
    BY DEF TlFlows
  <1> QED
    BY <1>2, <1>3

(* The sizes of disjoint finite sets add up.                                   *)
LEMMA DisjointSizes ==
    ASSUME NEW A, IsFiniteSet(A), NEW B, IsFiniteSet(B), A \cap B = {}
    PROVE  IsFiniteSet(A \cup B) /\ Cardinality(A \cup B) = Cardinality(A) + Cardinality(B)
  <1>1. IsFiniteSet(A \cup B) /\ Cardinality(A \cup B) = Cardinality(A) + Cardinality(B) - Cardinality(A \cap B)
    BY FS_Union
  <1>2. Cardinality(A \cap B) = 0
    BY FS_EmptySet
  <1>3. Cardinality(A) \in Nat /\ Cardinality(B) \in Nat
    BY FS_CardinalityType
  <1> QED
    BY <1>1, <1>2, <1>3

(* A reset shows in the flow that had it.                                      *)
LEMMA TlResetsShown ==
    ASSUME NEW flows, TlFlows(flows), NEW dns, NEW http, NEW tls, NEW f \in flows
    PROVE  (\E e \in TlEvents(flows, dns, http, tls) : e.of = f.refs[1] /\ e.kind = "tcp_reset")
              <=> (f.resets > 0 /\ ~f.failed)
  <1>1. PICK events : events = TlEvents(flows, dns, http, tls)
    OBVIOUS
  <1>2. TlFlow(f) /\ \A g \in flows : g # f => g.refs[1] # f.refs[1]
    BY TlFirstPackets DEF TlFlows
  <1>3. ASSUME NEW e \in events, e.of = f.refs[1], e.kind = "tcp_reset" PROVE f.resets > 0 /\ ~f.failed
    <2>1. e \in TlFlowEvents(flows)
      <3>1. e \notin TlQueryEvents(dns) /\ e \notin TlReplyEvents(dns)
        BY <1>3 DEF TlQueryEvents, TlReplyEvents
      <3>2. e \notin TlRequestEvents(http) /\ e \notin TlHandshakes(tls)
        BY <1>3 DEF TlRequestEvents, TlHandshakes
      <3> QED
        BY <1>1, <3>1, <3>2, TlEventsOf
    <2>2. PICK g \in flows : e = [kind |-> TlFlowKind(g), of |-> g.refs[1], at |-> g.first]
      BY <2>1 DEF TlFlowEvents
    <2>3. g = f /\ TlFlowKind(f) = "tcp_reset"
      BY <1>2, <1>3, <2>2
    <2> QED
      BY <1>2, <2>3, TlFlowKinds
  <1>4. ASSUME f.resets > 0 /\ ~f.failed PROVE \E e \in events : e.of = f.refs[1] /\ e.kind = "tcp_reset"
    <2>1. PICK e : e = [kind |-> TlFlowKind(f), of |-> f.refs[1], at |-> f.first]
      OBVIOUS
    <2>2. e \in TlFlowEvents(flows) /\ TlFlowKind(f) = "tcp_reset"
      BY <1>2, <1>4, <2>1, TlFlowKinds DEF TlFlowEvents
    <2>3. e \in events
      BY <1>1, <2>2, TlEventsOf
    <2> QED
      BY <2>1, <2>2, <2>3
  <1> QED
    BY <1>1, <1>3, <1>4

(* All but the answers of DNS has the time of a packet; they are close to it.  *)
LEMMA TlDatesShown ==
    ASSUME NEW flows, TlFlows(flows), NEW dns, TxApart(exPackets, dns), NEW http, TxApart(exPackets, http),
           NEW tls, TlSessions(flows, tls), NEW e \in TlEvents(flows, dns, http, tls)
    PROVE  /\ e.kind # "dns_response" => e.at \in TxTimes(exPackets)
           /\ e.kind = "dns_response" =>
                 \E t \in dns : /\ t.ref = e.of /\ t.reply # 0
                                /\ 2 * (e.at - exPackets[t.reply].at) \in -TxGrain .. TxGrain
  <1>1. /\ \A t \in dns : t.at \in TxTimes(exPackets)
        /\ \A t \in http : t.at \in TxTimes(exPackets)
    BY DEF TxApart, TxShown
  <1>2. \A f \in flows : f.first \in TxTimes(exPackets)
    BY DEF TlFlows, TlFlow
  <1>3. \A s \in tls : s.first \in TxTimes(exPackets)
    BY DEF TlSessions, TlSession
  <1>4. CASE e \in TlQueryEvents(dns)
    BY <1>1, <1>4 DEF TlQueryEvents
  <1>5. CASE e \in TlReplyEvents(dns)
    <2>1. PICK t \in dns : t.reply # 0 /\ e = [kind |-> "dns_response", of |-> t.ref, at |-> t.at + t.latency]
      BY <1>5 DEF TlReplyEvents
    <2>2. TxNear(t.at + t.latency, exPackets[t.reply])
      BY <2>1 DEF TxApart, TxShown
    <2>3. e.kind = "dns_response" /\ e.of = t.ref /\ e.at = t.at + t.latency
      BY <2>1
    <2>4. TxNear(e.at, exPackets[t.reply])
      BY <2>2, <2>3
    <2> QED
      BY <2>1, <2>3, <2>4 DEF TxNear
  <1>6. CASE e \in TlFlowEvents(flows)
    <2>1. PICK f \in flows : e = [kind |-> TlFlowKind(f), of |-> f.refs[1], at |-> f.first]
      BY <1>6 DEF TlFlowEvents
    <2>2. TlFlowKind(f) # "dns_response"
      BY TlFlowKinds DEF TlFlows
    <2> QED
      BY <1>2, <2>1, <2>2
  <1>7. CASE e \in TlRequestEvents(http)
    BY <1>1, <1>7 DEF TlRequestEvents
  <1>8. CASE e \in TlHandshakes(tls)
    BY <1>3, <1>8 DEF TlHandshakes
  <1> QED
    BY <1>4, <1>5, <1>6, <1>7, <1>8, TlEventsOf

(* Each item opens with one event.                                             *)
LEMMA TlOpeningsShown ==
    ASSUME NEW flows, TlFlows(flows), NEW dns, TxApart(exPackets, dns), NEW http, TxApart(exPackets, http),
           NEW tls, TlSessions(flows, tls)
    PROVE  Cardinality({e \in TlEvents(flows, dns, http, tls) : e.kind # "dns_response"})
              = Cardinality(flows) + Cardinality(dns) + Cardinality(http) + Cardinality(tls)
  <1>1. PICK Q : Q = TlQueryEvents(dns)
    OBVIOUS
  <1>2. PICK F : F = TlFlowEvents(flows)
    OBVIOUS
  <1>3. PICK H : H = TlRequestEvents(http)
    OBVIOUS
  <1>4. PICK S : S = TlHandshakes(tls)
    OBVIOUS
  <1>5. IsFiniteSet(dns) /\ Cardinality(Q) = Cardinality(dns) /\ IsFiniteSet(Q)
    <2>1. PICK f : f = [t \in dns |-> [kind |-> "dns_query", of |-> t.ref, at |-> t.at]]
      OBVIOUS
    <2>2. OneToOne(dns, f) /\ IsFiniteSet(dns)
      BY <2>1 DEF OneToOne, TxApart
    <2>3. Q = {f[t] : t \in dns}
      BY <1>1, <2>1 DEF TlQueryEvents
    <2> QED
      BY <2>2, <2>3, OneToOneImage
  <1>6. IsFiniteSet(flows) /\ Cardinality(F) = Cardinality(flows) /\ IsFiniteSet(F)
    <2>1. PICK f : f = [g \in flows |-> [kind |-> TlFlowKind(g), of |-> g.refs[1], at |-> g.first]]
      OBVIOUS
    <2>2. \A g, h \in flows : g.refs[1] = h.refs[1] => g = h
      BY TlFirstPackets
    <2>3. OneToOne(flows, f) /\ IsFiniteSet(flows)
      BY <2>1, <2>2 DEF OneToOne, TlFlows
    <2>4. F = {f[t] : t \in flows}
      BY <1>2, <2>1 DEF TlFlowEvents
    <2> QED
      BY <2>3, <2>4, OneToOneImage
  <1>7. IsFiniteSet(http) /\ Cardinality(H) = Cardinality(http) /\ IsFiniteSet(H)
    <2>1. PICK f : f = [t \in http |-> [kind |-> "http_request", of |-> t.ref, at |-> t.at]]
      OBVIOUS
    <2>2. OneToOne(http, f) /\ IsFiniteSet(http)
      BY <2>1 DEF OneToOne, TxApart
    <2>3. H = {f[t] : t \in http}
      BY <1>3, <2>1 DEF TlRequestEvents
    <2> QED
      BY <2>2, <2>3, OneToOneImage
  <1>8. IsFiniteSet(tls) /\ Cardinality(S) = Cardinality(tls) /\ IsFiniteSet(S)
    <2>1. PICK f : f = [s \in tls |-> [kind |-> "tls_handshake", of |-> s.ref, at |-> s.first]]
      OBVIOUS
    <2>2. OneToOne(tls, f) /\ IsFiniteSet(tls)
      BY <2>1 DEF OneToOne, TlSessions
    <2>3. S = {f[s] : s \in tls}
      BY <1>4, <2>1 DEF TlHandshakes
    <2> QED
      BY <2>2, <2>3, OneToOneImage
  <1>9. /\ \A e \in Q : e.kind = "dns_query"
        /\ \A e \in F : e.kind \in {"flow_failed", "udp_session", "tcp_reset", "tcp_connect"}
        /\ \A e \in H : e.kind = "http_request"
        /\ \A e \in S : e.kind = "tls_handshake"
    <2>1. \A e \in Q : e.kind = "dns_query"
      BY <1>1 DEF TlQueryEvents
    <2>2. \A e \in F : e.kind \in {"flow_failed", "udp_session", "tcp_reset", "tcp_connect"}
      BY <1>2, TlFlowKinds DEF TlFlowEvents, TlFlows
    <2>3. \A e \in H : e.kind = "http_request"
      BY <1>3 DEF TlRequestEvents
    <2>4. \A e \in S : e.kind = "tls_handshake"
      BY <1>4 DEF TlHandshakes
    <2> QED
      BY <2>1, <2>2, <2>3, <2>4
  <1>10. F \cap Q = {} /\ (F \cup Q) \cap H = {} /\ (F \cup Q \cup H) \cap S = {}
    BY <1>9
  <1>11. {e \in TlEvents(flows, dns, http, tls) : e.kind # "dns_response"} = F \cup Q \cup H \cup S
    <2>1. TlEvents(flows, dns, http, tls) = Q \cup TlReplyEvents(dns) \cup F \cup H \cup S
      BY <1>1, <1>2, <1>3, <1>4, TlEventsOf
    <2>2. \A e \in TlReplyEvents(dns) : e.kind = "dns_response"
      BY DEF TlReplyEvents
    <2> QED
      BY <1>9, <2>1, <2>2
  <1>12. Cardinality(F \cup Q) = Cardinality(F) + Cardinality(Q) /\ IsFiniteSet(F \cup Q)
    BY <1>5, <1>6, <1>10, DisjointSizes
  <1>13. Cardinality(F \cup Q \cup H) = Cardinality(F \cup Q) + Cardinality(H) /\ IsFiniteSet(F \cup Q \cup H)
    BY <1>7, <1>10, <1>12, DisjointSizes
  <1>14. Cardinality(F \cup Q \cup H \cup S) = Cardinality(F \cup Q \cup H) + Cardinality(S)
    BY <1>8, <1>10, <1>13, DisjointSizes
  <1> QED
    BY <1>5, <1>6, <1>7, <1>8, <1>11, <1>12, <1>13, <1>14

LEMMA ExInvShown == ExShown => TlShowsAll
  <1> SUFFICES ASSUME ExShown PROVE TlShowsAll
    OBVIOUS
  <1>1. PICK flows : flows = FbBuild(exFlows)
    OBVIOUS
  <1>2. PICK dns : dns = TxResults(exDns)
    OBVIOUS
  <1>3. PICK http : http = TxResults(exHttp)
    OBVIOUS
  <1>4. PICK tls : tls = ExTls
    OBVIOUS
  <1>5. PICK hosts : hosts = ExHosts
    OBVIOUS
  <1>6. exPackets \in Seq(ExPacket) /\ ExInv
    BY DEF ExShown, ExInv, ExFlowsOf
  <1>7. TlFlows(flows)
    BY <1>1, TlAllFlows
  <1>8. TxApart(exPackets, dns) /\ TxApart(exPackets, http)
    <2>1. /\ \A i \in DOMAIN TxDnsEvents(exPackets) :
                TxDnsEvents(exPackets)[i].kind \in {"ask", "reply", "other"}
          /\ \A i \in DOMAIN TxHttpEvents(exPackets) :
                TxHttpEvents(exPackets)[i].kind \in {"ask", "reply", "other"}
      BY <1>6, ExEventsOf, TxDnsKinds, TxHttpKinds
    <2>2. /\ TxOf(TxDnsEvents(exPackets), exDns, Len(exPackets))
          /\ TxOf(TxHttpEvents(exPackets), exHttp, Len(exPackets))
      BY <1>6, ExEventsOf
    <2>3. TxShows(exPackets, exDns) /\ TxShows(exPackets, exHttp)
      BY DEF ExShown
    <2>4. TxApart(exPackets, dns)
      BY <1>2, <2>1, <2>2, <2>3, TxAllApart
    <2>5. TxApart(exPackets, http)
      BY <1>3, <2>1, <2>2, <2>3, TxAllApart
    <2> QED
      BY <2>4, <2>5
  <1>9. TlSessions(flows, tls)
    BY <1>1, <1>4, <1>6, <1>7, TlAllSessions DEF ExTls
  <1>10. TlTables(dns, tls, hosts)
    <2>1. IsFiniteSet(dns) /\ \A t \in dns : IsFiniteSet(t.answers)
      BY <1>8, TxTxnFields DEF TxApart, TxAddresses
    <2>2. IsFiniteSet(tls)
      BY <1>9 DEF TlSessions
    <2>3. IsFiniteSet(DOMAIN hosts) /\ \A h \in DOMAIN hosts : IsFiniteSet(DOMAIN hosts[h].profile.served)
      BY <1>5, <1>6, HpAddUp
    <2> QED
      BY <2>1, <2>2, <2>3 DEF TlTables
  <1>11. \A e \in TlEdges(flows, dns, tls, hosts) : {e.from, e.to} \subseteq TlNodes(flows, dns, tls, hosts)
    BY <1>9, TlEndsShown
  <1>12. MapThenSumSet(LAMBDA e : e.packets, TlEdges(flows, dns, tls, hosts)) = Cardinality(ExRefs(FbEligible))
    BY <1>7, <1>10, TlPacketsShown
  <1>13. \A t \in dns : \A h \in t.answers :
            t.name # NoName => \E e \in TlEdges(flows, dns, tls, hosts) :
                                  e.from = TlDomain(t.name) /\ e.to = TlHost(h) /\ e.count > 0
    BY <1>10, TlAnswersShown
  <1>14. Cardinality({e \in TlEvents(flows, dns, http, tls) : e.kind # "dns_response"})
            = Cardinality(flows) + Cardinality(dns) + Cardinality(http) + Cardinality(tls)
    BY <1>7, <1>8, <1>9, TlOpeningsShown
  <1>15. \A f \in flows :
            (\E e \in TlEvents(flows, dns, http, tls) : e.of = f.refs[1] /\ e.kind = "tcp_reset")
               <=> (f.resets > 0 /\ ~f.failed)
    BY <1>7, TlResetsShown
  <1>16. \A e \in TlEvents(flows, dns, http, tls) :
            /\ e.kind # "dns_response" => e.at \in {exPackets[i].at : i \in DOMAIN exPackets}
            /\ e.kind = "dns_response" =>
                  \E t \in dns : /\ t.ref = e.of /\ t.reply # 0
                                 /\ 2 * (e.at - exPackets[t.reply].at) \in -TxGrain .. TxGrain
    BY <1>7, <1>8, <1>9, TlDatesShown DEF TxTimes
  <1> QED
    BY <1>1, <1>2, <1>3, <1>4, <1>5, <1>11, <1>12, <1>13, <1>14, <1>15, <1>16 DEF TlShowsAll

(* What is shown of a capture hangs together and is complete: no edge ends     *)
(* nowhere, the edges between hosts carry the packets of all flows, answered   *)
(* names lead somewhere, every item of the evidence opens with one event, and  *)
(* all has the time of a packet but the answers of DNS, which are shown up to  *)
(* half the grain of a latency beside theirs, whatever the packets are.        *)
THEOREM ShowsAll == ExSpec => []TlShowsAll
  <1>1. ExInit => ExShown
    BY ExShownFirst
  <1>2. ExShown /\ [ExNext]_exVars => ExShown'
    BY ExShownKept
  <1>3. ExShown => TlShowsAll
    BY ExInvShown
  <1> QED
    BY <1>1, <1>2, <1>3, PTL DEF ExSpec

-----------------------------------------------------------------------------
(* What is extracted is of its kind.                                           *)

(* A role is one of the list, or none.                                         *)
LEMMA HpRoleKnown ==
    ASSUME NEW profile
    PROVE  HpRole(profile) \in ToSet(HpRoles) \cup {"none"}
  <1>1. \A best : best \in 1 .. Len(HpRoles) => HpRoles[best] \in ToSet(HpRoles)
    <2>1. Len(HpRoles) = 7 /\ DOMAIN HpRoles = 1 .. 7
      BY DEF HpRoles
    <2> QED
      BY <2>1 DEF ToSet
  <1>2. PICK exposed : exposed = HpServices(profile) \cap HpKnownPorts
    OBVIOUS
  <1>3. PICK I : I = {i \in 1 .. Len(HpRoles) :
                         /\ Cardinality(exposed \cap HpSignals(HpRoles[i])) > 0
                         /\ \A q \in ToSet(HpRoles) : Cardinality(exposed \cap HpSignals(q))
                                                        <= Cardinality(exposed \cap HpSignals(HpRoles[i]))}
    OBVIOUS
  <1>4. HpRole(profile) = LET best == IF I # {} THEN Min(I) ELSE 0
                          IN  IF best = 0 THEN "none" ELSE HpRoles[best]
    BY <1>2, <1>3 DEF HpRole, SelectInSeq
  <1>5. I # {} => Min(I) \in I
    <2>1. I \in SUBSET Nat
      BY <1>3
    <2> QED
      BY <2>1, NatMin
  <1>6. CASE I = {}
    BY <1>4, <1>6
  <1>7. CASE I # {}
    <2>1. HpRole(profile) = LET best == Min(I) IN IF best = 0 THEN "none" ELSE HpRoles[best]
      BY <1>4, <1>7
    <2>2. Min(I) \in 1 .. Len(HpRoles)
      BY <1>3, <1>5, <1>7
    <2> QED
      BY <1>1, <2>1, <2>2
  <1> QED
    BY <1>6, <1>7

LEMMA FbTypes ==
    ASSUME ExShown, NEW f \in FbBuild(exFlows)
    PROVE  /\ f.state \in {"none", "reset", "closed", "established", "half_open"}
           /\ f.direction \in {"outbound", "inbound", "internal", "unknown"}
           /\ {f.retrans, f.resets, f.packets} \subseteq 0 .. Len(exPackets)
  <1>1. exPackets \in Seq(ExPacket) /\ FbFlowsOf(exPackets, exFlows)
    BY DEF ExShown, ExInv, ExFlowsOf
  <1>2. PICK k \in DOMAIN exFlows : f = FbListed(exFlows[k])
    BY FbBuilt
  <1>3. PICK a : a = exFlows[k]
    OBVIOUS
  <1>4. FbAbout(a, k) /\ FbCounted(exPackets, a, k) /\ FbWatched(exPackets, a, k)
    BY <1>1, <1>3 DEF FbFlowsOf
  <1>5. /\ f.state = FbState(a) /\ f.direction = FbDirection(a) /\ f.packets = a.packets
        /\ f.resets = a.tcp.resets /\ f.retrans = a.tcp.synRetrans + a.tcp.dataRetrans
    BY <1>2, <1>3 DEF FbListed
  <1>6. f.state \in {"none", "reset", "closed", "established", "half_open"}
    BY <1>5 DEF FbState
  <1>7. f.direction \in {"outbound", "inbound", "internal", "unknown"}
    BY <1>5 DEF FbDirection
  <1>8. a.packets <= Len(exPackets) /\ a.packets \in Nat /\ Len(exPackets) \in Nat
    <2>1. /\ DOMAIN exPackets = 1 .. Len(exPackets) /\ Len(exPackets) \in Nat
      BY <1>1
    <2>2. IsFiniteSet(DOMAIN exPackets) /\ Cardinality(DOMAIN exPackets) = Len(exPackets)
      BY <2>1, FS_Interval
    <2>3. FbMine(exPackets, k) \in SUBSET DOMAIN exPackets
      BY DEF FbMine
    <2>4. Cardinality(FbMine(exPackets, k)) <= Cardinality(DOMAIN exPackets) /\ IsFiniteSet(FbMine(exPackets, k))
      BY <2>2, <2>3, FS_Subset
    <2>5. Cardinality(FbMine(exPackets, k)) \in Nat
      BY <2>4, FS_CardinalityType
    <2>6. a.packets = Cardinality(FbMine(exPackets, k))
      BY <1>4 DEF FbCounted
    <2> QED
      BY <2>1, <2>2, <2>4, <2>5, <2>6
  <1>9. /\ a.tcp.resets \in Nat /\ a.tcp.synRetrans \in Nat /\ a.tcp.dataRetrans \in Nat
        /\ a.tcp.resets <= a.packets /\ a.tcp.synRetrans + a.tcp.dataRetrans <= a.packets
    <2>1. a.tcp \in FbTcp
      BY <1>4 DEF FbAbout, FbFlow
    <2> QED
      BY <1>4, <2>1 DEF FbTcp, FbWatched
  <1>10. f.retrans \in 0 .. Len(exPackets) /\ f.resets \in 0 .. Len(exPackets) /\ f.packets \in 0 .. Len(exPackets)
    BY <1>5, <1>8, <1>9
  <1> QED
    BY <1>6, <1>7, <1>10

LEMMA TxTypes ==
    ASSUME NEW ev, NEW s, NEW last, TxOf(ev, s, last), NEW t \in TxResults(s)
    PROVE  t.request \in 0 .. last /\ t.reply \in 0 .. last
  <1>1. last \in Nat /\ DOMAIN ev = 1 .. last /\ TxWaiting(ev, s, last) /\ TxDone(ev, s.done)
    BY DEF TxOf
  <1>2. DOMAIN ev \subseteq 0 .. last /\ 0 \in 0 .. last
    BY <1>1
  <1>3. CASE t \in s.done
    BY <1>1, <1>2, <1>3 DEF TxDone, TxPair
  <1>4. CASE \E k \in DOMAIN s.waiting : t = s.waiting[k]
    BY <1>1, <1>2, <1>4 DEF TxWaiting, TxLast
  <1> QED
    BY <1>3, <1>4 DEF TxResults

(* Whatever the packets, what is extracted of them is of its kind, refers to   *)
(* packets that were read, and counts no more of them than there are.          *)
THEOREM ExtractionTyped == ExSpec => []ExTypeOK
  <1>1. ExShown => ExTypeOK
    <2> SUFFICES ASSUME ExShown PROVE ExTypeOK
      OBVIOUS
    <2>1. exPackets \in Seq(exTraffic)
      BY DEF ExShown, ExInv, ExRead1
    <2>2. \A s \in {exDns, exHttp} : \A t \in TxResults(s) : {t.request, t.reply} \subseteq 0 .. Len(exPackets)
      <3>1. /\ TxOf(TxDnsEvents(exPackets), exDns, Len(exPackets))
            /\ TxOf(TxHttpEvents(exPackets), exHttp, Len(exPackets))
        BY DEF ExShown, ExInv, ExTxnsOf
      <3> QED
        BY <3>1, TxTypes
    <2>3. \A h \in DOMAIN ExHosts : ExHosts[h].role \in ToSet(HpRoles) \cup {"none"}
      <3>1. PICK hosts : hosts = ExHosts
        OBVIOUS
      <3>2. \A h \in DOMAIN hosts : \E profile : hosts[h].role = HpRole(profile)
        BY <3>1 DEF ExHosts, HpBuild
      <3> QED
        BY <3>1, <3>2, HpRoleKnown
    <2> QED
      BY <2>1, <2>2, <2>3, FbTypes DEF ExTypeOK
  <1>2. ExInit => ExShown
    BY ExShownFirst
  <1>3. ExShown /\ [ExNext]_exVars => ExShown'
    BY ExShownKept
  <1> QED
    BY <1>1, <1>2, <1>3, PTL DEF ExSpec
=============================================================================
