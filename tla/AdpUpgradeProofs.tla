-------------------------- MODULE AdpUpgradeProofs --------------------------
(***************************************************************************)
(* No packet is settled that the peer lacks while an association changes   *)
(* its keys, for every number of data packets, losses and datagrams in     *)
(* flight.                                                                 *)
(***************************************************************************)
EXTENDS AdpUpgrade, WellFoundedInduction, FiniteSetTheorems, TLAPS

-----------------------------------------------------------------------------
(* Runs of numbers in a replay window.                                     *)

\* A non-empty set of numbers has a least member.
LEMMA LeastNumber ==
    ASSUME NEW T, T \subseteq Nat, T # {}
    PROVE  \E x \in T : \A y \in T : x <= y
<1>1. \E x \in T : \A y \in T : ~ (<<y, x>> \in OpToRel(<, Nat))
  BY NatLessThanWellFounded, WFMin
<1>2. \A x, y \in Nat : x < y => <<x, y>> \in OpToRel(<, Nat)
  BY Zenon DEF OpToRel
<1>3. PICK x \in T : \A y \in T : ~ (<<y, x>> \in OpToRel(<, Nat))
  BY <1>1
<1>4. \A y \in T : ~ (y < x)
  BY <1>2, <1>3
<1>5. QED
  BY <1>4

\* EndOfRun names the end of the run that starts after n: it exists, the run is in S, and it cannot be extended.
LEMMA EndOfRunFacts ==
    ASSUME NEW n \in Nat, NEW S, S \subseteq Nat, NEW B \in Nat, \A s \in S : s <= B
    PROVE  /\ EndOfRun(n, S) \in {n} \cup S
           /\ EndOfRun(n, S) \in Nat
           /\ EndOfRun(n, S) >= n
           /\ (n + 1) .. EndOfRun(n, S) \subseteq S
           /\ EndOfRun(n, S) + 1 \notin S
<1> DEFINE T == {k \in Nat : k > n /\ k \notin S}
           End(m) == m >= n /\ (n + 1) .. m \subseteq S /\ m + 1 \notin S
<1>1. n + B + 1 \in T
  OBVIOUS
<1>2. PICK x \in T : \A y \in T : x <= y
  BY <1>1, LeastNumber
<1>3. x - 1 \in {n} \cup S
  <2>1. CASE x = n + 1
    BY <2>1
  <2>2. CASE x # n + 1
    BY <2>2, <1>2
  <2>3. QED
    BY <2>1, <2>2
<1>4. End(x - 1)
  BY <1>2
<1>5. \E m \in {n} \cup S : End(m)
  BY <1>3, <1>4
<1>6. EndOfRun(n, S) = CHOOSE m \in {n} \cup S : End(m)
  BY DEF EndOfRun
<1>7. EndOfRun(n, S) \in {n} \cup S /\ End(EndOfRun(n, S))
  BY <1>5, <1>6
<1>8. QED
  BY <1>7

-----------------------------------------------------------------------------
USE BoundsAssumption

LEMMA PeerFacts == \A e \in Ends : Peer(e) \in Ends /\ Peer(e) # e /\ Peer(Peer(e)) = e
BY DEF Ends, Peer

LEMMA MaxSeqType == MaxSeq \in Nat /\ MaxSeq >= Finished /\ Finished = 3
BY DEF MaxSeq, Finished

\* How far the handshake has been answered once the peer's packets up to end are delivered.
AnsweredTo(e, r, end, tx) ==
    IF r > Finished THEN tx ELSE IF end >= Finished THEN Finished ELSE HandshakeSent(e, end + 1)

\* The answers to a run of packets continue the end's own numbers without a gap.
LEMMA RepliesFacts ==
    ASSUME NEW e \in Ends, NEW r \in Nat \ {0}, NEW end \in Nat, end >= r - 1, NEW tx \in Nat,
           \/ r <= Finished /\ tx = HandshakeSent(e, r)
           \/ r > Finished /\ tx >= Finished
    PROVE  LET replies == Replies(e, r, end)
               last == AnsweredTo(e, r, end, tx)
           IN  /\ last \in Nat /\ last >= tx
               /\ replies = tx + 1 .. last
               /\ tx + Cardinality(replies) = last
               /\ r > Finished => last = tx
               /\ r <= Finished => last <= Finished
<1> DEFINE replies == Replies(e, r, end)
           last == AnsweredTo(e, r, end, tx)
<1>1. last \in Nat /\ last >= tx /\ (r > Finished => last = tx) /\ (r <= Finished => last <= Finished)
  BY DEF AnsweredTo, HandshakeSent, Finished
<1>2. \A x : x \in replies <=> \E n \in r .. end : x \in Answers(e, n)
  BY DEF Replies
<1>3. ASSUME e = "responder" PROVE \A x : x \in replies <=> x \in tx + 1 .. last
  <2>1. \A x : x \in replies <=> x \in r .. end /\ x \in 1 .. 3
    BY <1>2, <1>3 DEF Answers, Finished
  <2>2. QED
    BY <1>1, <1>3, <2>1 DEF AnsweredTo, HandshakeSent, Finished
<1>4. ASSUME e # "responder" PROVE \A x : x \in replies <=> x \in tx + 1 .. last
  <2>1. \A x : x \in replies <=> x \in r + 1 .. end + 1 /\ x \in 1 .. 3
    <3>1. \A n \in r .. end : Answers(e, n) = {n + 1} \cap (1 .. 3)
      BY <1>4 DEF Answers, Finished
    <3>2. \A x \in r + 1 .. end + 1 : x - 1 \in r .. end /\ x = (x - 1) + 1
      OBVIOUS
    <3>3. ASSUME NEW x, x \in replies PROVE x \in r + 1 .. end + 1 /\ x \in 1 .. 3
      BY <1>2, <3>1, <3>3
    <3>4. ASSUME NEW x, x \in r + 1 .. end + 1, x \in 1 .. 3 PROVE x \in replies
      <4>1. x - 1 \in r .. end /\ x \in Answers(e, x - 1)
        BY <3>1, <3>2, <3>4
      <4>2. QED
        BY <1>2, <3>4, <4>1
    <3>5. QED
      BY <3>3, <3>4
  <2>2. QED
    BY <1>1, <1>4, <2>1 DEF AnsweredTo, HandshakeSent, Finished
<1>5. replies = tx + 1 .. last
  <2>1. \A x : x \in replies <=> x \in tx + 1 .. last
    BY <1>3, <1>4
  <2>2. QED
    BY <2>1
<1>6. tx + Cardinality(replies) = last
  <2> HIDE DEF last, replies
  <2>1. Cardinality(tx + 1 .. last) = IF tx + 1 > last THEN 0 ELSE last - (tx + 1) + 1
    BY <1>1, FS_Interval
  <2>2. Cardinality(replies) = last - tx
    BY <1>1, <1>5, <2>1
  <2>3. QED
    BY <1>1, <2>2
<1>7. QED
  BY <1>1, <1>5, <1>6

-----------------------------------------------------------------------------
LEMMA InitInv == Init => IndInv
<1> SUFFICES ASSUME Init PROVE IndInv
  OBVIOUS
<1>1. TypeOK
  BY MaxSeqType DEF Init, TypeOK, Packet, Ends
<1>2. \A e \in Ends : /\ (1 .. txSeq[e]) \ outstanding[e] = {}
                      /\ outstanding[e] \subseteq 1 .. txSeq[e]
                      /\ rxNext[Peer(e)] - 1 <= txSeq[e] /\ hold[Peer(e)] \subseteq 1 .. txSeq[e]
  BY DEF Init, Ends, Peer
<1>3. SettledIsTaken
  BY <1>1, <1>2 DEF SettledIsTaken
<1>4. ProgressInv
  BY DEF Init, ProgressInv, HandshakeSent, Finished, Ends
<1>5. WireInv
  BY DEF Init, WireInv, Truthful, Peer, Ends
<1>6. QED
  BY <1>2, <1>3, <1>4, <1>5 DEF IndInv

\* The packet an end sends under its number s is well formed, for its peer, and no ack.
LEMMA DataPacketFacts ==
    ASSUME NEW e \in Ends, NEW s \in 1 .. MaxSeq
    PROVE  /\ DataPacket(e, s) \in Packet /\ DataPacket(e, s).kind # "Ack"
           /\ DataPacket(e, s).to = Peer(e) /\ DataPacket(e, s).seq = s
BY PeerFacts DEF DataPacket, ResendKey, Packet

LEMMA AckPacketFacts ==
    ASSUME NEW e \in Ends, NEW s \in 1 .. MaxSeq, NEW key \in {"pre", "session"}
    PROVE  /\ AckPacket(e, s, key) \in Packet /\ AckPacket(e, s, key).kind = "Ack"
           /\ AckPacket(e, s, key).to = Peer(e) /\ AckPacket(e, s, key).seq = s
BY PeerFacts DEF AckPacket, Packet

\* What is in flight keeps its meaning as ends send and take more.
LEMMA WireKept ==
    ASSUME IndInv,
           \A e \in Ends : txSeq[e] <= txSeq'[e] /\ txSeq'[e] \in Nat,
           \A e \in Ends : \A s \in 1 .. MaxSeq : Duplicate(e, s) => Duplicate(e, s)',
           NEW p \in wire
    PROVE  p \in Packet /\ Truthful(p)'
<1>1. p \in Packet /\ p.to \in Ends /\ Peer(p.to) \in Ends /\ p.seq \in 1 .. MaxSeq
  BY PeerFacts DEF IndInv, SettledIsTaken, TypeOK, Packet
<1>2. IF p.kind = "Ack" THEN Duplicate(Peer(p.to), p.seq) ELSE p.seq <= txSeq[Peer(p.to)]
  BY DEF IndInv, WireInv, Truthful
<1>3. txSeq[Peer(p.to)] \in Nat /\ txSeq'[Peer(p.to)] \in Nat /\ txSeq[Peer(p.to)] <= txSeq'[Peer(p.to)]
  BY <1>1, MaxSeqType DEF IndInv, SettledIsTaken, TypeOK
<1>4. QED
  BY <1>1, <1>2, <1>3 DEF Truthful

LEMMA SendDataInv == ASSUME IndInv, NEW e \in Ends, SendData(e) PROVE IndInv'
<1> DEFINE n == txSeq[e] + 1
<1>1. TypeOK /\ ProgressInv
  BY DEF IndInv, SettledIsTaken
<1>2. /\ e \in upgraded /\ txSeq[e] < MaxSeq
      /\ txSeq' = [txSeq EXCEPT ![e] = n]
      /\ outstanding' = [outstanding EXCEPT ![e] = outstanding[e] \cup {n}]
      /\ wire' = wire \cup {DataPacket(e, n)}
      /\ UNCHANGED <<rxNext, hold, upgraded, losses>>
  BY DEF SendData
<1>3. n \in 1 .. MaxSeq /\ txSeq[e] \in Nat
  BY <1>1, <1>2, MaxSeqType DEF TypeOK
<1>4. txSeq' \in [Ends -> 0 .. MaxSeq] /\ txSeq'[e] = n /\ \A f \in Ends \ {e} : txSeq'[f] = txSeq[f]
  BY <1>1, <1>2, <1>3, MaxSeqType DEF TypeOK
<1>5. /\ outstanding' \in [Ends -> SUBSET (1 .. MaxSeq)] /\ outstanding'[e] = outstanding[e] \cup {n}
      /\ \A f \in Ends \ {e} : outstanding'[f] = outstanding[f]
  BY <1>1, <1>2, <1>3 DEF TypeOK
<1>6. \A f \in Ends : txSeq[f] <= txSeq'[f] /\ txSeq'[f] \in Nat /\ txSeq[f] \in Nat
  BY <1>1, <1>3, <1>4, MaxSeqType DEF TypeOK
<1>7. \A f \in Ends : \A s \in 1 .. MaxSeq : Duplicate(f, s)' <=> Duplicate(f, s)
  BY <1>2 DEF Duplicate
<1>8. ASSUME NEW p \in wire' PROVE p \in Packet /\ Truthful(p)'
  <2>1. CASE p \in wire
    BY <1>6, <1>7, <2>1, WireKept
  <2>2. CASE p = DataPacket(e, n)
    BY <1>3, <1>4, <2>2, DataPacketFacts, PeerFacts DEF Truthful
  <2>3. QED
    BY <1>2, <2>1, <2>2
<1>9. TypeOK'
  BY <1>1, <1>2, <1>4, <1>5, <1>8 DEF TypeOK
<1>10. ASSUME NEW f \in Ends
       PROVE  /\ \A s \in (1 .. txSeq'[f]) \ outstanding'[f] : s < rxNext'[Peer(f)] \/ s \in hold'[Peer(f)]
              /\ rxNext'[Peer(f)] - 1 <= txSeq'[f] /\ hold'[Peer(f)] \subseteq 1 .. txSeq'[f]
              /\ outstanding'[f] \subseteq 1 .. txSeq'[f]
  <2>1. /\ \A s \in (1 .. txSeq[f]) \ outstanding[f] : s < rxNext[Peer(f)] \/ s \in hold[Peer(f)]
        /\ rxNext[Peer(f)] - 1 <= txSeq[f] /\ hold[Peer(f)] \subseteq 1 .. txSeq[f]
        /\ outstanding[f] \subseteq 1 .. txSeq[f]
    BY DEF IndInv, SettledIsTaken
  <2>2. rxNext[Peer(f)] \in Nat /\ rxNext' = rxNext /\ hold' = hold
    BY <1>1, <1>2, PeerFacts, MaxSeqType DEF TypeOK
  <2>3. 1 .. txSeq[f] \subseteq 1 .. txSeq'[f]
    BY <1>6
  <2>4. (1 .. txSeq'[f]) \ outstanding'[f] \subseteq (1 .. txSeq[f]) \ outstanding[f]
    BY <1>3, <1>4, <1>5
  <2>5. outstanding'[f] \subseteq 1 .. txSeq'[f]
    BY <1>3, <1>4, <1>5, <2>1
  <2>6. rxNext[Peer(f)] - 1 <= txSeq'[f]
    BY <1>6, <2>1, <2>2
  <2>7. QED
    BY <2>1, <2>2, <2>3, <2>4, <2>5, <2>6
<1>11. ProgressInv'
  BY <1>1, <1>2, <1>3, <1>4, <1>6, MaxSeqType DEF ProgressInv
<1>12. WireInv'
  BY <1>8 DEF WireInv
<1>13. QED
  BY <1>9, <1>10, <1>11, <1>12 DEF IndInv, SettledIsTaken

\* Steps that only settle packets the peer has, and put true packets on the wire or take some off it.
LEMMA QuietInv ==
    ASSUME IndInv, UNCHANGED <<txSeq, rxNext, hold, upgraded>>, losses' \in 0 .. MaxLoss,
           outstanding' \in [Ends -> SUBSET (1 .. MaxSeq)],
           \A e \in Ends : /\ outstanding'[e] \subseteq outstanding[e]
                           /\ \A s \in outstanding[e] \ outstanding'[e] : Duplicate(Peer(e), s),
           \A p \in wire' : p \in wire \/ (p \in Packet /\ Truthful(p))
    PROVE  IndInv'
<1>1. TypeOK /\ ProgressInv /\ WireInv
  BY DEF IndInv, SettledIsTaken
<1>2. \A p \in wire' : p \in Packet /\ Truthful(p)
  BY <1>1 DEF TypeOK, WireInv
<1>3. \A p \in wire' : Truthful(p)'
  BY <1>2 DEF Truthful, Duplicate
<1>4. TypeOK' /\ WireInv'
  BY <1>1, <1>2, <1>3 DEF TypeOK, WireInv
<1>5. ProgressInv'
  BY <1>1 DEF ProgressInv
<1>6. ASSUME NEW e \in Ends
      PROVE  /\ \A s \in (1 .. txSeq'[e]) \ outstanding'[e] : s < rxNext'[Peer(e)] \/ s \in hold'[Peer(e)]
             /\ rxNext'[Peer(e)] - 1 <= txSeq'[e] /\ hold'[Peer(e)] \subseteq 1 .. txSeq'[e]
             /\ outstanding'[e] \subseteq 1 .. txSeq'[e]
  BY DEF IndInv, SettledIsTaken, Duplicate
<1>7. QED
  BY <1>4, <1>5, <1>6 DEF IndInv, SettledIsTaken

LEMMA ResendInv == ASSUME IndInv, NEW e \in Ends, NEW s \in outstanding[e], Resend(e, s) PROVE IndInv'
<1>1. TypeOK
  BY DEF IndInv, SettledIsTaken
<1>2. wire' = wire \cup {DataPacket(e, s)} /\ UNCHANGED <<txSeq, outstanding, rxNext, hold, upgraded, losses>>
  BY DEF Resend, ends
<1>3. s \in 1 .. MaxSeq /\ s <= txSeq[e]
  BY <1>1, MaxSeqType DEF IndInv, TypeOK
<1>4. DataPacket(e, s) \in Packet /\ Truthful(DataPacket(e, s))
  BY <1>3, DataPacketFacts, PeerFacts DEF Truthful
<1>5. losses' \in 0 .. MaxLoss /\ outstanding' \in [Ends -> SUBSET (1 .. MaxSeq)]
  BY <1>1, <1>2 DEF TypeOK
<1>6. QED
  BY <1>2, <1>4, <1>5, QuietInv

\* Losing and rejecting only take from the wire.
LEMMA DropInv ==
    ASSUME IndInv, wire' \subseteq wire, UNCHANGED ends, losses' \in 0 .. MaxLoss
    PROVE  IndInv'
<1>1. UNCHANGED <<txSeq, outstanding, rxNext, hold, upgraded>>
  BY DEF ends
<1>2. outstanding' \in [Ends -> SUBSET (1 .. MaxSeq)]
  BY <1>1 DEF IndInv, SettledIsTaken, TypeOK
<1>3. QED
  BY <1>1, <1>2, QuietInv

\* A true ack settles a packet its sender has.
LEMMA HandleAckInv == ASSUME IndInv, NEW p \in wire, HandleAck(p.to, p) PROVE IndInv'
<1>1. TypeOK /\ WireInv
  BY DEF IndInv, SettledIsTaken
<1>2. /\ p.kind = "Ack" /\ wire' \subseteq wire /\ UNCHANGED <<txSeq, rxNext, hold, upgraded, losses>>
      /\ outstanding' = [outstanding EXCEPT ![p.to] = outstanding[p.to] \ {p.seq}]
  BY DEF HandleAck
<1>3. p.to \in Ends /\ Duplicate(Peer(p.to), p.seq)
  BY <1>1, <1>2 DEF TypeOK, Packet, WireInv, Truthful
<1>4. /\ outstanding' \in [Ends -> SUBSET (1 .. MaxSeq)] /\ losses' \in 0 .. MaxLoss
      /\ \A e \in Ends : /\ outstanding'[e] \subseteq outstanding[e]
                          /\ \A s \in outstanding[e] \ outstanding'[e] : Duplicate(Peer(e), s)
  BY <1>1, <1>2, <1>3 DEF TypeOK
<1>5. QED
  BY <1>2, <1>4, QuietInv

\* So does one that comes late under the old key; a late duplicate is acked only if it was taken.
LEMMA HandlePreUpgradeKeyInv == ASSUME IndInv, NEW p \in wire, HandlePreUpgradeKey(p.to, p) PROVE IndInv'
<1>1. TypeOK /\ WireInv
  BY DEF IndInv, SettledIsTaken
<1>2. /\ UNCHANGED <<txSeq, rxNext, hold, upgraded, losses>>
      /\ outstanding' = [outstanding EXCEPT ![p.to] =
                           IF p.kind = "Ack" /\ BeforeUpgrade(p.seq) THEN @ \ {p.seq} ELSE @]
      /\ wire' = (wire \ {p}) \cup
                   (IF p.kind = "Plain" /\ Duplicate(p.to, p.seq) THEN {AckPacket(p.to, p.seq, "pre")} ELSE {})
  BY DEF HandlePreUpgradeKey
<1>3. p.to \in Ends /\ p.seq \in 1 .. MaxSeq /\ (p.kind = "Ack" => Duplicate(Peer(p.to), p.seq))
  BY <1>1 DEF TypeOK, Packet, WireInv, Truthful
<1>4. /\ outstanding' \in [Ends -> SUBSET (1 .. MaxSeq)] /\ losses' \in 0 .. MaxLoss
      /\ \A e \in Ends : /\ outstanding'[e] \subseteq outstanding[e]
                          /\ \A s \in outstanding[e] \ outstanding'[e] : Duplicate(Peer(e), s)
  BY <1>1, <1>2, <1>3 DEF TypeOK
<1>5. Duplicate(p.to, p.seq) => AckPacket(p.to, p.seq, "pre") \in Packet /\ Truthful(AckPacket(p.to, p.seq, "pre"))
  BY <1>3, AckPacketFacts, PeerFacts DEF Truthful
<1>6. \A q \in wire' : q \in wire \/ (q \in Packet /\ Truthful(q))
  BY <1>2, <1>5
<1>7. QED
  BY <1>2, <1>4, <1>6, QuietInv

-----------------------------------------------------------------------------
(* A reliable packet arrives.                                              *)

Takes(e, p) == ~Duplicate(e, p.seq) /\ ~RefusePlainAfterKeys(e, p)
RunEnd(e, p) == IF Takes(e, p) THEN EndOfRun(rxNext[e] - 1, hold[e] \cup {p.seq}) ELSE rxNext[e] - 1
HoldAfter(e, p) == IF Takes(e, p) THEN (hold[e] \cup {p.seq}) \ (rxNext[e] .. RunEnd(e, p)) ELSE hold[e]

\* Delivery stays within what the peer sent and forgets nothing it took.
LEMMA RunFacts ==
    ASSUME IndInv, NEW p \in wire, p.kind # "Ack"
    PROVE  LET e == p.to
               end == RunEnd(e, p)
               held == HoldAfter(e, p)
           IN  /\ end \in Nat /\ rxNext[e] \in Nat \ {0} /\ end >= rxNext[e] - 1 /\ end <= txSeq[Peer(e)]
               /\ held \subseteq 1 .. txSeq[Peer(e)]
               /\ \A s \in 1 .. MaxSeq : Duplicate(e, s) => s < end + 1 \/ s \in held
               /\ Takes(e, p) \/ Duplicate(e, p.seq) => p.seq < end + 1 \/ p.seq \in held
<1> DEFINE e == p.to
           f == Peer(e)
           h == hold[e] \cup {p.seq}
           end == RunEnd(e, p)
<1>1. TypeOK /\ WireInv
  BY DEF IndInv, SettledIsTaken
<1>2. e \in Ends /\ f \in Ends /\ Peer(f) = e /\ p.seq \in 1 .. MaxSeq /\ p.seq <= txSeq[f]
  BY <1>1, PeerFacts DEF TypeOK, Packet, WireInv, Truthful
<1>3. /\ rxNext[e] \in Nat \ {0} /\ rxNext[e] - 1 \in Nat /\ txSeq[f] \in Nat /\ txSeq[f] <= MaxSeq
      /\ hold[e] \subseteq 1 .. txSeq[f] /\ rxNext[e] - 1 <= txSeq[f]
  <2>1. rxNext[e] \in 1 .. MaxSeq + 1 /\ txSeq[f] \in 0 .. MaxSeq
    BY <1>1, <1>2 DEF TypeOK
  <2>2. hold[e] \subseteq 1 .. txSeq[f] /\ rxNext[e] - 1 <= txSeq[f]
    BY <1>2 DEF IndInv, SettledIsTaken
  <2>3. QED
    BY <2>1, <2>2, MaxSeqType
<1>4. h \subseteq 1 .. txSeq[f]
  BY <1>2, <1>3
<1> HIDE DEF e, f
<1>5. CASE Takes(e, p)
  <2>1. end = EndOfRun(rxNext[e] - 1, h) /\ HoldAfter(e, p) = h \ (rxNext[e] .. end)
    BY <1>5 DEF RunEnd, HoldAfter
  <2>2. h \subseteq Nat /\ \A x \in h : x <= txSeq[f]
    BY <1>3, <1>4
  <2>3. end \in {rxNext[e] - 1} \cup h /\ end \in Nat /\ end >= rxNext[e] - 1
    BY <1>3, <2>1, <2>2, EndOfRunFacts
  <2>4. end <= txSeq[f]
    BY <1>3, <2>2, <2>3
  <2>5. ASSUME NEW s \in Nat, s < rxNext[e] \/ s \in h PROVE s < end + 1 \/ s \in h \ (rxNext[e] .. end)
    BY <1>3, <2>3, <2>5
  <2>6. p.seq \in Nat /\ \A s \in 1 .. MaxSeq : s \in Nat
    BY <1>2
  <2>7. QED
    BY <1>3, <1>4, <2>1, <2>3, <2>4, <2>5, <2>6 DEF Duplicate, e, f
<1>6. CASE ~Takes(e, p)
  <2>1. end = rxNext[e] - 1 /\ HoldAfter(e, p) = hold[e]
    BY <1>6 DEF RunEnd, HoldAfter
  <2>2. rxNext[e] - 1 >= rxNext[e] - 1 /\ (rxNext[e] - 1) + 1 = rxNext[e]
    BY <1>3
  <2>3. QED
    BY <1>3, <1>6, <2>1, <2>2 DEF Duplicate, e, f
<1>7. QED
  BY <1>5, <1>6

LEMMA HandleReliableInv == ASSUME IndInv, NEW p \in wire, HandleReliable(p.to, p) PROVE IndInv'
<1> DEFINE e == p.to
           end == RunEnd(e, p)
           held == HoldAfter(e, p)
           replies == Replies(e, rxNext[e], end)
           last == AnsweredTo(e, rxNext[e], end, txSeq[e])
           ack == IF Takes(e, p) \/ Duplicate(e, p.seq) THEN {AckPacket(e, p.seq, BinderKey(e))} ELSE {}
<1>1. TypeOK /\ ProgressInv /\ WireInv
  BY DEF IndInv, SettledIsTaken
<1>2. e \in Ends /\ Peer(e) \in Ends /\ Peer(Peer(e)) = e /\ Peer(e) # e /\ p.seq \in 1 .. MaxSeq
  BY <1>1, PeerFacts DEF TypeOK, Packet
<1>3. /\ p.kind # "Ack"
      /\ hold' = [hold EXCEPT ![e] = held]
      /\ rxNext' = [rxNext EXCEPT ![e] = end + 1]
      /\ txSeq' = [txSeq EXCEPT ![e] = @ + Cardinality(replies)]
      /\ outstanding' = [outstanding EXCEPT ![e] = @ \cup replies]
      /\ upgraded' = IF \E n \in rxNext[e] .. end : n = Finished THEN upgraded \cup {e} ELSE upgraded
      /\ wire' = (wire \ {p}) \cup ack \cup {DataPacket(e, s) : s \in replies}
      /\ losses' = losses
  BY DEF HandleReliable, Takes, RunEnd, HoldAfter, Completes, FinishEstablishment
<1>4. /\ end \in Nat /\ rxNext[e] \in Nat \ {0} /\ end >= rxNext[e] - 1 /\ end <= txSeq[Peer(e)]
      /\ held \subseteq 1 .. txSeq[Peer(e)]
      /\ \A s \in 1 .. MaxSeq : Duplicate(e, s) => s < end + 1 \/ s \in held
      /\ Takes(e, p) \/ Duplicate(e, p.seq) => p.seq < end + 1 \/ p.seq \in held
  BY <1>3, RunFacts
<1>5. txSeq[e] \in Nat /\ txSeq[e] <= MaxSeq /\ txSeq[Peer(e)] \in Nat /\ txSeq[Peer(e)] <= MaxSeq
  BY <1>1, <1>2, MaxSeqType DEF TypeOK
<1>6. \/ e \notin upgraded /\ rxNext[e] <= Finished /\ txSeq[e] = HandshakeSent(e, rxNext[e])
      \/ e \in upgraded /\ rxNext[e] > Finished /\ txSeq[e] >= Finished
  BY <1>1, <1>2 DEF ProgressInv
<1>7. /\ last \in Nat /\ last >= txSeq[e] /\ replies = txSeq[e] + 1 .. last
      /\ txSeq[e] + Cardinality(replies) = last
      /\ (rxNext[e] > Finished => last = txSeq[e]) /\ (rxNext[e] <= Finished => last <= Finished)
  <2>1. \/ rxNext[e] <= Finished /\ txSeq[e] = HandshakeSent(e, rxNext[e])
        \/ rxNext[e] > Finished /\ txSeq[e] >= Finished
    BY <1>6
  <2>2. e \in Ends /\ end \in Nat /\ rxNext[e] \in Nat \ {0} /\ end >= rxNext[e] - 1 /\ txSeq[e] \in Nat
    BY <1>2, <1>4, <1>5
  <2> HIDE DEF e, end
  <2>3. QED
    BY <2>1, <2>2, RepliesFacts
<1>8. last <= MaxSeq
  BY <1>4, <1>5, <1>7, MaxSeqType
<1>9. \/ e \notin upgraded' /\ end + 1 <= Finished /\ last = HandshakeSent(e, end + 1)
      \/ e \in upgraded' /\ end + 1 > Finished /\ last >= Finished
  <2>1. (\E n \in rxNext[e] .. end : n = Finished) <=> rxNext[e] <= Finished /\ Finished <= end
    BY <1>4, MaxSeqType
  <2>2. CASE rxNext[e] > Finished
    BY <1>3, <1>4, <1>6, <1>7, <2>1, <2>2, MaxSeqType
  <2>3. CASE rxNext[e] <= Finished /\ Finished <= end
    BY <1>2, <1>3, <1>4, <1>7, <2>1, <2>3, MaxSeqType DEF AnsweredTo
  <2>4. CASE rxNext[e] <= Finished /\ ~(Finished <= end)
    BY <1>3, <1>4, <1>6, <1>7, <2>1, <2>4, MaxSeqType DEF AnsweredTo
  <2>5. QED
    BY <1>4, <2>2, <2>3, <2>4, MaxSeqType
<1> HIDE DEF e, end, held, replies, last, ack
<1>10. /\ txSeq' \in [Ends -> 0 .. MaxSeq] /\ txSeq'[e] = last /\ \A f \in Ends \ {e} : txSeq'[f] = txSeq[f]
       /\ rxNext' \in [Ends -> 1 .. MaxSeq + 1] /\ rxNext'[e] = end + 1
       /\ \A f \in Ends \ {e} : rxNext'[f] = rxNext[f]
  <2>1. last \in 0 .. MaxSeq /\ end + 1 \in 1 .. MaxSeq + 1
    BY <1>4, <1>5, <1>7, <1>8, MaxSeqType
  <2>2. QED
    BY <1>1, <1>2, <1>3, <1>7, <2>1 DEF TypeOK
<1>11. /\ hold' \in [Ends -> SUBSET (1 .. MaxSeq)] /\ hold'[e] = held
       /\ \A f \in Ends \ {e} : hold'[f] = hold[f]
  <2>1. held \subseteq 1 .. MaxSeq
    BY <1>4, <1>5, MaxSeqType
  <2>2. QED
    BY <1>1, <1>2, <1>3, <2>1 DEF TypeOK
<1>12. /\ outstanding' \in [Ends -> SUBSET (1 .. MaxSeq)] /\ outstanding'[e] = outstanding[e] \cup replies
       /\ \A f \in Ends \ {e} : outstanding'[f] = outstanding[f]
       /\ replies \subseteq 1 .. MaxSeq
  <2>1. replies \subseteq 1 .. MaxSeq
    BY <1>5, <1>7, <1>8, MaxSeqType
  <2>2. QED
    BY <1>1, <1>2, <1>3, <2>1 DEF TypeOK
<1>13. \A f \in Ends : txSeq[f] <= txSeq'[f] /\ txSeq'[f] \in Nat /\ txSeq[f] \in Nat
  <2> SUFFICES ASSUME NEW f \in Ends PROVE txSeq[f] <= txSeq'[f] /\ txSeq'[f] \in Nat /\ txSeq[f] \in Nat
    OBVIOUS
  <2>1. CASE f = e
    <3>1. last >= txSeq[e] /\ last \in Nat /\ txSeq[e] \in Nat /\ txSeq'[e] = last
      BY <1>5, <1>7, <1>10
    <3>2. QED
      BY <2>1, <3>1
  <2>2. CASE f # e
    <3>1. txSeq'[f] = txSeq[f] /\ txSeq[f] \in Nat
      BY <1>1, <1>10, <2>2, MaxSeqType DEF TypeOK
    <3>2. QED
      BY <3>1
  <2>3. QED
    BY <2>1, <2>2
<1>14. \A f \in Ends : \A s \in 1 .. MaxSeq : Duplicate(f, s) => Duplicate(f, s)'
  <2> SUFFICES ASSUME NEW f \in Ends, NEW s \in 1 .. MaxSeq, Duplicate(f, s)
               PROVE  s < rxNext'[f] \/ s \in hold'[f]
    BY DEF Duplicate
  <2>1. CASE f = e
    BY <1>4, <1>10, <1>11, <2>1
  <2>2. CASE f # e
    BY <1>10, <1>11, <2>2 DEF Duplicate
  <2>3. QED
    BY <2>1, <2>2
<1>15. ASSUME NEW q \in wire' PROVE q \in Packet /\ Truthful(q)'
  <2>1. CASE q \in wire
    BY <1>13, <1>14, <2>1, WireKept
  <2>2. CASE q \in ack
    <3>1. q = AckPacket(e, p.seq, BinderKey(e)) /\ (Takes(e, p) \/ Duplicate(e, p.seq))
      BY <2>2 DEF ack
    <3>2. BinderKey(e) \in {"pre", "session"}
      BY DEF BinderKey
    <3>3. q \in Packet /\ q.kind = "Ack" /\ q.to = Peer(e) /\ q.seq = p.seq
      BY <1>2, <3>1, <3>2, AckPacketFacts
    <3>4. p.seq < rxNext'[e] \/ p.seq \in hold'[e]
      BY <1>4, <1>10, <1>11, <3>1
    <3>5. QED
      BY <1>2, <3>3, <3>4 DEF Truthful, Duplicate
  <2>3. CASE q \in {DataPacket(e, s) : s \in replies}
    <3>1. PICK s \in replies : q = DataPacket(e, s)
      BY <2>3
    <3>2. s \in 1 .. MaxSeq /\ s <= txSeq'[e]
      <4>1. replies = txSeq[e] + 1 .. last /\ last \in Nat /\ txSeq[e] \in Nat
        BY <1>5, <1>7
      <4>2. s \in 1 .. MaxSeq /\ s <= last
        BY <1>12, <3>1, <4>1
      <4>3. QED
        BY <1>10, <4>2
    <3>3. q \in Packet /\ q.kind # "Ack" /\ q.to = Peer(e) /\ q.seq = s
      BY <1>2, <3>1, <3>2, DataPacketFacts
    <3>4. QED
      BY <1>2, <3>2, <3>3 DEF Truthful
  <2>4. QED
    BY <1>3, <2>1, <2>2, <2>3
<1>16. TypeOK'
  <2>1. upgraded' \subseteq Ends
    BY <1>1, <1>2, <1>3 DEF TypeOK
  <2>2. QED
    BY <1>1, <1>3, <1>10, <1>11, <1>12, <1>15, <2>1 DEF TypeOK
<1>17. WireInv'
  BY <1>15 DEF WireInv
<1>18. ProgressInv'
  <2> SUFFICES ASSUME NEW f \in Ends
               PROVE  \/ f \notin upgraded' /\ rxNext'[f] <= Finished /\ txSeq'[f] = HandshakeSent(f, rxNext'[f])
                      \/ f \in upgraded' /\ rxNext'[f] > Finished /\ txSeq'[f] >= Finished
    BY DEF ProgressInv
  <2>1. CASE f = e
    BY <1>9, <1>10, <2>1
  <2>2. CASE f # e
    <3>1. f \in upgraded' <=> f \in upgraded
      BY <1>3, <2>2
    <3>2. QED
      BY <1>1, <1>10, <2>2, <3>1 DEF ProgressInv
  <2>3. QED
    BY <2>1, <2>2
<1>19. ASSUME NEW f \in Ends
       PROVE  /\ \A s \in (1 .. txSeq'[f]) \ outstanding'[f] : s < rxNext'[Peer(f)] \/ s \in hold'[Peer(f)]
              /\ rxNext'[Peer(f)] - 1 <= txSeq'[f] /\ hold'[Peer(f)] \subseteq 1 .. txSeq'[f]
              /\ outstanding'[f] \subseteq 1 .. txSeq'[f]
  <2>1. /\ \A s \in (1 .. txSeq[f]) \ outstanding[f] : Duplicate(Peer(f), s)
        /\ rxNext[Peer(f)] - 1 <= txSeq[f] /\ hold[Peer(f)] \subseteq 1 .. txSeq[f]
        /\ outstanding[f] \subseteq 1 .. txSeq[f]
    BY DEF IndInv, SettledIsTaken, Duplicate
  <2>2. Peer(f) \in Ends /\ Peer(Peer(f)) = f /\ Peer(f) # f
    BY PeerFacts
  <2>3. txSeq[f] \in Nat /\ txSeq'[f] \in Nat /\ txSeq[f] <= txSeq'[f] /\ txSeq[f] <= MaxSeq
        /\ 1 .. txSeq[f] \subseteq 1 .. txSeq'[f]
    BY <1>1, <1>13, MaxSeqType DEF TypeOK
  <2>4. (1 .. txSeq'[f]) \ outstanding'[f] \subseteq (1 .. txSeq[f]) \ outstanding[f]
    <3>1. CASE f = e
      BY <1>5, <1>7, <1>10, <1>12, <3>1
    <3>2. CASE f # e
      BY <1>10, <1>12, <3>2
    <3>3. QED
      BY <3>1, <3>2
  <2>5. \A s \in (1 .. txSeq[f]) \ outstanding[f] : s < rxNext'[Peer(f)] \/ s \in hold'[Peer(f)]
    <3>1. 1 .. txSeq[f] \subseteq 1 .. MaxSeq
      BY <2>3, MaxSeqType
    <3>2. QED
      BY <1>14, <2>1, <2>2, <3>1 DEF Duplicate
  <2>6. outstanding'[f] \subseteq 1 .. txSeq'[f]
    <3>1. CASE f = e
      <4>1. replies \subseteq 1 .. txSeq'[e]
        BY <1>5, <1>7, <1>10
      <4>2. QED
        BY <1>12, <2>1, <2>3, <3>1, <4>1
    <3>2. CASE f # e
      BY <1>12, <2>1, <2>3, <3>2
    <3>3. QED
      BY <3>1, <3>2
  <2>7. rxNext'[Peer(f)] - 1 <= txSeq'[f] /\ hold'[Peer(f)] \subseteq 1 .. txSeq'[f]
    <3>1. CASE f = e
      <4>1. rxNext'[Peer(f)] = rxNext[Peer(f)] /\ hold'[Peer(f)] = hold[Peer(f)] /\ rxNext[Peer(f)] \in Nat
        BY <1>1, <1>10, <1>11, <2>2, <3>1, MaxSeqType DEF TypeOK
      <4>2. QED
        BY <2>1, <2>3, <4>1
    <3>2. CASE f # e
      <4>1. Peer(f) = e /\ f = Peer(e)
        BY <1>2, <3>2 DEF Peer, Ends
      <4>2. rxNext'[Peer(f)] = end + 1 /\ hold'[Peer(f)] = held /\ txSeq'[f] = txSeq[f]
        BY <1>10, <1>11, <3>2, <4>1
      <4>3. end \in Nat /\ end <= txSeq[f] /\ held \subseteq 1 .. txSeq[f]
        BY <1>4, <4>1
      <4>4. (end + 1) - 1 = end
        BY <4>3
      <4>5. QED
        BY <4>2, <4>3, <4>4
    <3>3. QED
      BY <3>1, <3>2
  <2>8. QED
    BY <2>4, <2>5, <2>6, <2>7
<1>20. QED
  BY <1>16, <1>17, <1>18, <1>19 DEF IndInv, SettledIsTaken

-----------------------------------------------------------------------------
LEMMA NextInv == IndInv /\ [Next]_vars => IndInv'
<1> SUFFICES ASSUME IndInv, [Next]_vars PROVE IndInv'
  OBVIOUS
<1>1. losses \in 0 .. MaxLoss
  BY DEF IndInv, SettledIsTaken, TypeOK
<1>2. ASSUME NEW e \in Ends, SendData(e) PROVE IndInv'
  BY <1>2, SendDataInv
<1>3. ASSUME NEW e \in Ends, NEW s \in outstanding[e], Resend(e, s) PROVE IndInv'
  BY <1>3, ResendInv
<1>4. ASSUME NEW p \in wire, Receive(p) PROVE IndInv'
  <2>1. CASE Reject(p.to, p)
    BY <1>1, <2>1, DropInv DEF Reject
  <2>2. QED
    BY <1>4, <2>1, HandleAckInv, HandleReliableInv, HandlePreUpgradeKeyInv DEF Receive
<1>5. ASSUME NEW p \in wire, Lose(p) PROVE IndInv'
  <2>1. wire' \subseteq wire /\ UNCHANGED ends /\ losses' \in 0 .. MaxLoss
    BY <1>1, <1>5 DEF Lose
  <2>2. QED
    BY <2>1, DropInv
<1>6. CASE UNCHANGED vars
  BY <1>1, <1>6, DropInv DEF vars
<1>7. QED
  BY <1>2, <1>3, <1>4, <1>5, <1>6 DEF Next

\* IndInv holds throughout.
THEOREM IndInvHolds == Spec => []IndInv
BY InitInv, NextInv, PTL DEF Spec

\* An ack under either key settles only what the peer has taken, before, during and after the change of keys
\* (HandleAuthenticated, HandlePreUpgradeKeyPacket).
THEOREM SettledIsTakenHolds == Spec => []SettledIsTaken
<1>1. IndInv => SettledIsTaken
  BY DEF IndInv
<1>2. QED
  BY <1>1, IndInvHolds, PTL
=============================================================================
