------------------------- MODULE CarrierLaneProofs -------------------------
(***************************************************************************)
(* The lane of a nested link is safe over a carrier that loses, repeats    *)
(* and reorders, for every window, number of selective bits, attempt       *)
(* budget and backlog: IndInv is inductive and carries LetGoIsKept.  As    *)
(* long as the receiver is Connected before its backlog is full, the lane  *)
(* also implements FifoChannel.                                            *)
(***************************************************************************)
EXTENDS CarrierLane, WellFoundedInduction, SequenceTheorems, FiniteSetTheorems, TLAPS

-----------------------------------------------------------------------------
(* Runs of numbers in a replay window, and streams of them.                *)

\* A non-empty set of numbers has a least member.
LEMMA LeastNumber ==
    ASSUME NEW T, T \subseteq Nat, T # {}
    PROVE  \E x \in T : \A y \in T : x <= y
<1>1. \E x \in T : \A y \in T : ~ (<<y, x>> \in OpToRel(<, Nat))
  BY NatLessThanWellFounded, WFMin
<1>2. \A x, y \in Nat : x < y => <<x, y>> \in OpToRel(<, Nat)
  BY Zenon DEF OpToRel
<1>3. PICK x \in T : \A y \in T : ~ (<<y, x>> \in OpToRel(<, Nat))
  BY <1>1
<1>4. \A y \in T : ~ (y < x)
  BY <1>2, <1>3
<1>5. QED
  BY <1>4

\* EndOfRun names the end of the run that starts after n: it exists, the run is in S, and it cannot be extended.
LEMMA EndOfRunFacts ==
    ASSUME NEW n \in Nat, NEW S, S \subseteq Nat, NEW B \in Nat, \A s \in S : s <= B
    PROVE  /\ EndOfRun(n, S) \in {n} \cup S
           /\ EndOfRun(n, S) \in Nat
           /\ EndOfRun(n, S) >= n
           /\ (n + 1) .. EndOfRun(n, S) \subseteq S
           /\ EndOfRun(n, S) + 1 \notin S
<1> DEFINE T == {k \in Nat : k > n /\ k \notin S}
           End(m) == m >= n /\ (n + 1) .. m \subseteq S /\ m + 1 \notin S
<1>1. n + B + 1 \in T
  OBVIOUS
<1>2. PICK x \in T : \A y \in T : x <= y
  BY <1>1, LeastNumber
<1>3. x - 1 \in {n} \cup S
  <2>1. CASE x = n + 1
    BY <2>1
  <2>2. CASE x # n + 1
    BY <2>2, <1>2
  <2>3. QED
    BY <2>1, <2>2
<1>4. End(x - 1)
  BY <1>2
<1>5. \E m \in {n} \cup S : End(m)
  BY <1>3, <1>4
<1>6. EndOfRun(n, S) = CHOOSE m \in {n} \cup S : End(m)
  BY DEF EndOfRun
<1>7. EndOfRun(n, S) \in {n} \cup S /\ End(EndOfRun(n, S))
  BY <1>5, <1>6
<1>8. QED
  BY <1>7

-----------------------------------------------------------------------------
(* The numbers from 1 on, as a stream that skips and repeats none.         *)

\* The first a numbers, then the next b: the first a + b.
LEMMA CountOn ==
    ASSUME NEW a \in Nat, NEW b \in Nat
    PROVE  [i \in 1 .. a |-> i] \o [i \in 1 .. b |-> a + i] = [i \in 1 .. a + b |-> i]
<1> DEFINE s == [i \in 1 .. a |-> i]
           t == [i \in 1 .. b |-> a + i]
           st == [i \in 1 .. a + b |-> i]
<1>1. s \in Seq(Nat) /\ t \in Seq(Nat) /\ st \in Seq(Nat) /\ Len(s) = a /\ Len(t) = b /\ Len(st) = a + b
  OBVIOUS
<1>2. s \o t \in Seq(Nat) /\ Len(s \o t) = a + b
  BY <1>1, ConcatProperties
<1>3. \A i \in 1 .. a + b : (s \o t)[i] = st[i]
  BY <1>1, ConcatProperties
<1>4. QED
  BY <1>1, <1>2, <1>3, SeqEqual

\* One number more, at the end.
LEMMA CountAppend ==
    ASSUME NEW n \in Nat
    PROVE  [i \in 1 .. n + 1 |-> i] = Append([i \in 1 .. n |-> i], n + 1)
OBVIOUS

\* The first m of the first n.
LEMMA CountPrefix ==
    ASSUME NEW n \in Nat, NEW m \in 0 .. n
    PROVE  [i \in 1 .. m |-> i] = SubSeq([i \in 1 .. n |-> i], 1, m)
OBVIOUS

-----------------------------------------------------------------------------
USE ConstantsAssumption

\* The numbers from a + 1 to b, in order.
LEMMA AscendingInterval ==
    ASSUME NEW a \in Nat, NEW b \in Nat, a <= b
    PROVE  /\ Cardinality(a + 1 .. b) = b - a
           /\ Ascending(a + 1 .. b) = [i \in 1 .. b - a |-> a + i]
<1> DEFINE S == a + 1 .. b
           Below(s) == {t \in S : t < s}
<1>1. Cardinality(S) = b - a
  <2>1. Cardinality(S) = IF a + 1 > b THEN 0 ELSE b - (a + 1) + 1
    BY FS_Interval
  <2>2. QED
    BY <2>1
<1>2. ASSUME NEW s \in S PROVE Cardinality(Below(s)) = s - a - 1
  <2>1. Below(s) = a + 1 .. s - 1
    OBVIOUS
  <2>2. Cardinality(a + 1 .. s - 1) = IF a + 1 > s - 1 THEN 0 ELSE (s - 1) - (a + 1) + 1
    BY FS_Interval
  <2>3. Cardinality(Below(s)) = Cardinality(a + 1 .. s - 1)
    BY <2>1
  <2>4. Cardinality(a + 1 .. s - 1) = s - a - 1
    BY <2>2
  <2>5. QED
    BY <2>3, <2>4
<1>3. ASSUME NEW i \in 1 .. b - a
      PROVE  (CHOOSE s \in S : Cardinality(Below(s)) = i - 1) = a + i
  <2>1. a + i \in S /\ Cardinality(Below(a + i)) = i - 1
    BY <1>2
  <2>2. \A s \in S : Cardinality(Below(s)) = i - 1 => s = a + i
    BY <1>2
  <2>3. QED
    BY <2>1, <2>2
<1>4. QED
  BY <1>1, <1>3 DEF Ascending

\* How far one number is past another.
LEMMA Difference ==
    ASSUME NEW a \in Nat, NEW b \in Nat, a <= b
    PROVE  b - a \in Nat /\ b = a + (b - a)
OBVIOUS

\* The first n numbers are a sequence of frame numbers.
LEMMA FirstFrames ==
    ASSUME NEW n \in Nat, n <= MaxSeq
    PROVE  [i \in 1 .. n |-> i] \in Seq(Seqs)
<1>1. \A i \in 1 .. n : i \in Seqs
  BY DEF Seqs
<1>2. QED
  BY <1>1

-----------------------------------------------------------------------------
LEMMA InitInv == Init => IndInv /\ DeliveryInv
<1> SUFFICES ASSUME Init PROVE IndInv /\ DeliveryInv
  OBVIOUS
<1>1. InFlight = {} /\ outstanding \in [InFlight -> 1 .. MaxAttempts]
  BY DEF Init, InFlight
<1>2. /\ nextTx = 1 /\ rxCumulative = 0 /\ rxHold = {} /\ dataWire = {}
      /\ ackWire = {LaneProbe} /\ backlog = <<>> /\ muxGot = <<>>
      /\ failed \in BOOLEAN /\ connected \in BOOLEAN
  BY DEF Init
<1>3. LaneProbe \in LaneAckFields
  BY DEF LaneProbe, LaneAckFields
<1>4. TypeOK
  BY <1>1, <1>2, <1>3 DEF TypeOK, Seqs
<1>5. Kept = {}
  BY <1>2 DEF Kept
<1>6. AccountInv /\ HoldInv
  BY <1>1, <1>2, <1>5 DEF AccountInv, HoldInv
<1>7. AckInv
  BY <1>2 DEF AckInv, Acked, LaneProbe, Seqs
<1>8. DeliveryInv
  BY <1>2 DEF DeliveryInv
<1>9. QED
  BY <1>4, <1>6, <1>7, <1>8 DEF IndInv

\* The sender's steps leave what the receiver keeps, and what the acks name, alone.
LEMMA ReceiverKept ==
    ASSUME IndInv, UNCHANGED <<receiverVars, ackWire>>
    PROVE  HoldInv' /\ AckInv' /\ Kept' = Kept
BY DEF IndInv, HoldInv, AckInv, Kept, receiverVars, Acked

LEMMA WrapInv == ASSUME IndInv, Wrap PROVE IndInv'
<1>1. HoldInv' /\ AckInv' /\ Kept' = Kept
  BY ReceiverKept DEF Wrap
<1>2. InFlight' = InFlight \cup {nextTx}
  BY DEF Wrap, InFlight
<1>3. TypeOK'
  <2>1. nextTx' \in 1 .. MaxSeq + 1 /\ nextTx \in Seqs
    BY DEF IndInv, TypeOK, Wrap, Seqs
  <2>2. outstanding' \in [InFlight' -> 1 .. MaxAttempts]
    BY <1>2 DEF IndInv, TypeOK, Wrap
  <2>3. QED
    BY <2>1, <2>2, <1>2 DEF IndInv, TypeOK, Wrap, receiverVars
<1>4. AccountInv'
  BY <1>1, <1>2 DEF IndInv, TypeOK, AccountInv, Wrap, Seqs
<1>5. QED
  BY <1>1, <1>3, <1>4 DEF IndInv

\* An ack only lets go of frames the receiver keeps.
LEMMA OnAckInv == ASSUME IndInv, NEW ack \in ackWire, OnAck(ack) PROVE IndInv'
<1>1. HoldInv' /\ AckInv' /\ Kept' = Kept
  BY ReceiverKept DEF OnAck
<1>2. InFlight' = {t \in InFlight : ~Acked(ack, t)}
  BY DEF OnAck, InFlight
<1>3. TypeOK'
  BY <1>2 DEF IndInv, TypeOK, OnAck, receiverVars
<1>4. \A s \in InFlight : Acked(ack, s) => s \in Kept
  BY DEF IndInv, AckInv, TypeOK
<1>5. nextTx' = nextTx /\ dataWire' = dataWire
  BY DEF OnAck
<1>6. InFlight' \subseteq InFlight /\ InFlight \subseteq InFlight' \cup Kept
  BY <1>2, <1>4
<1>7. AccountInv'
  BY <1>1, <1>5, <1>6 DEF IndInv, AccountInv
<1>8. QED
  BY <1>1, <1>3, <1>7 DEF IndInv

LEMMA DueResendsInv == ASSUME IndInv, NEW due \in SUBSET InFlight, DueResends(due) PROVE IndInv'
<1>1. HoldInv' /\ AckInv' /\ Kept' = Kept
  BY ReceiverKept DEF DueResends
<1>2. InFlight' = InFlight
  BY DEF DueResends, InFlight
<1>3. Resends(due) \subseteq InFlight
  BY DEF Resends
<1>4. TypeOK'
  <2>1. outstanding' \in [InFlight' -> 1 .. MaxAttempts]
    BY <1>2 DEF IndInv, TypeOK, DueResends, Resends
  <2>2. failed' \in BOOLEAN
    BY DEF DueResends, Exhausted
  <2>3. QED
    BY <1>2, <1>3, <2>1, <2>2 DEF IndInv, TypeOK, DueResends, receiverVars
<1>5. AccountInv'
  BY <1>1, <1>2, <1>3 DEF IndInv, AccountInv, DueResends
<1>6. QED
  BY <1>1, <1>4, <1>5 DEF IndInv

-----------------------------------------------------------------------------
(* A frame arrives.                                                        *)

\* The hold with the frame in it if it is taken: where the run ends, and what stays held.
HeldWith(seq) == IF Takes(seq) THEN rxHold \cup {seq} ELSE rxHold

\* The frames released are the run after the cumulative number, and the receiver keeps all it kept.
LEMMA ReleasedRun ==
    ASSUME IndInv, NEW seq \in dataWire
    PROVE  LET held == HeldWith(seq)
               end == EndOfRun(rxCumulative, held)
           IN  /\ end \in rxCumulative .. MaxSeq
               /\ Released(held) = rxCumulative + 1 .. end
               /\ Cardinality(Released(held)) = end - rxCumulative
               /\ Ascending(Released(held)) = [i \in 1 .. end - rxCumulative |-> rxCumulative + i]
               /\ held \ Released(held) \subseteq Seqs
               /\ end <= rxCumulative + Window
               /\ held \ Released(held) \subseteq end + 2 .. end + Window
               /\ (1 .. end) \cup (held \ Released(held)) = Kept \cup held
               /\ Kept \cup held \subseteq 1 .. nextTx - 1
<1> DEFINE held == HeldWith(seq)
           end == EndOfRun(rxCumulative, held)
<1>1. rxCumulative \in 0 .. MaxSeq /\ MaxSeq \in Nat /\ rxHold \subseteq Seqs /\ seq \in Seqs
  BY DEF IndInv, TypeOK
<1>2. held \subseteq Seqs /\ held \subseteq rxCumulative + 1 .. rxCumulative + Window /\ rxHold \subseteq held
  BY <1>1 DEF HeldWith, Takes, IndInv, HoldInv, Seqs
<1>3. held \subseteq Nat /\ (\A s \in held : s <= MaxSeq) /\ rxCumulative \in Nat
  BY <1>1, <1>2 DEF Seqs
<1>4. /\ end \in {rxCumulative} \cup held
      /\ end \in Nat
      /\ end >= rxCumulative
      /\ (rxCumulative + 1) .. end \subseteq held
      /\ end + 1 \notin held
  BY <1>1, <1>3, EndOfRunFacts
<1>5. end \in rxCumulative .. MaxSeq /\ end <= rxCumulative + Window
  BY <1>1, <1>2, <1>3, <1>4
<1>6. Released(held) = rxCumulative + 1 .. end
  BY <1>2, <1>3, <1>4 DEF Released
<1>7. /\ Cardinality(Released(held)) = end - rxCumulative
      /\ Ascending(Released(held)) = [i \in 1 .. end - rxCumulative |-> rxCumulative + i]
  BY <1>3, <1>4, <1>6, AscendingInterval
<1>8. held \ Released(held) \subseteq end + 2 .. end + Window
  BY <1>2, <1>3, <1>4, <1>6
<1>9. (1 .. end) = (1 .. rxCumulative) \cup (rxCumulative + 1 .. end)
  BY <1>3, <1>4
<1>10. (1 .. end) \cup (held \ Released(held)) = (1 .. rxCumulative) \cup held
  BY <1>4, <1>6, <1>9
<1>11. (1 .. rxCumulative) \cup held = Kept \cup held
  BY <1>2 DEF Kept
<1>12. Kept \cup held \subseteq 1 .. nextTx - 1
  BY DEF HeldWith, IndInv, AccountInv, Kept
<1>13. QED
  BY <1>2, <1>5, <1>6, <1>7, <1>8, <1>10, <1>11, <1>12

\* OnData, with the run named.
LEMMA OnDataStep ==
    ASSUME IndInv, NEW seq \in dataWire, OnData(seq)
    PROVE  LET held == HeldWith(seq)
           IN  /\ rxCumulative' = EndOfRun(rxCumulative, held)
               /\ rxHold' = held \ Released(held)
               /\ ackWire' = ackWire \cup {CurrentAck(rxCumulative', rxHold')}
               /\ connected' = connected
               /\ FlushLaneBacklog(Backlogged(Ascending(Released(held))))
               /\ UNCHANGED <<senderVars, dataWire>>
<1> DEFINE held == HeldWith(seq)
<1>1. /\ rxCumulative' = rxCumulative + Cardinality(Released(held))
      /\ rxHold' = held \ Released(held)
      /\ ackWire' = ackWire \cup {CurrentAck(rxCumulative + Cardinality(Released(held)), held \ Released(held))}
      /\ connected' = connected
      /\ FlushLaneBacklog(Backlogged(Ascending(Released(held))))
      /\ UNCHANGED <<senderVars, dataWire>>
  BY DEF OnData, HeldWith
<1>2. rxCumulative + Cardinality(Released(held)) = EndOfRun(rxCumulative, held)
  BY ReleasedRun DEF IndInv, TypeOK
<1>3. QED
  BY <1>1, <1>2

\* What is released is a sequence of frame numbers.
LEMMA ReleasedFrames ==
    ASSUME IndInv, NEW seq \in dataWire
    PROVE  Ascending(Released(HeldWith(seq))) \in Seq(Seqs)
<1> DEFINE end == EndOfRun(rxCumulative, HeldWith(seq))
<1>1. /\ end \in rxCumulative .. MaxSeq
      /\ Ascending(Released(HeldWith(seq))) = [i \in 1 .. end - rxCumulative |-> rxCumulative + i]
  BY ReleasedRun
<1>2. rxCumulative \in Nat /\ end \in Nat /\ rxCumulative <= end /\ end <= MaxSeq
  BY <1>1 DEF IndInv, TypeOK
<1> HIDE DEF end
<1>3. (\A i \in 1 .. end - rxCumulative : rxCumulative + i \in Seqs) /\ end - rxCumulative \in Nat
  BY <1>2 DEF Seqs
<1>4. QED
  BY <1>1, <1>3

\* The ack of a hold names exactly frames of it, within the bits it has.
LEMMA CurrentAckFacts ==
    ASSUME NEW c \in 0 .. MaxSeq, NEW H, H \subseteq Seqs, H \subseteq c + 2 .. c + Window
    PROVE  /\ CurrentAck(c, H) \in LaneAckFields
           /\ \A s \in Seqs : Acked(CurrentAck(c, H), s) => s <= c \/ s \in H
<1> DEFINE near == {t \in H : t - c - 2 < SelectiveBits}
           bits == {s - c - 2 : s \in near}
<1>1. CurrentAck(c, H) = [cumulative |-> c, selective |-> bits]
  BY DEF CurrentAck
<1>2. bits \subseteq 0 .. SelectiveBits - 1
  BY DEF Seqs
<1>3. CurrentAck(c, H) \in LaneAckFields
  BY <1>1, <1>2 DEF LaneAckFields
<1>4. ASSUME NEW s \in Seqs, s - c - 2 \in bits PROVE s \in H
  <2>1. PICK t \in near : s - c - 2 = t - c - 2
    BY <1>4
  <2>2. s = t
    BY <2>1 DEF Seqs
  <2>3. QED
    BY <2>1, <2>2
<1>5. ASSUME NEW s \in Seqs, Acked(CurrentAck(c, H), s) PROVE s <= c \/ s \in H
  BY <1>1, <1>4, <1>5 DEF Acked
<1>6. QED
  BY <1>3, <1>5

\* What joins the backlog keeps it within its cap.
LEMMA BackloggedType ==
    ASSUME TypeOK, NEW f \in Seq(Seqs)
    PROVE  Backlogged(f) \in Seq(Seqs) /\ Len(Backlogged(f)) <= MaxBacklog
<1> DEFINE room == MaxBacklog - Len(backlog)
           n == IF room < Len(f) THEN room ELSE Len(f)
<1>1. backlog \in Seq(Seqs) /\ room \in Nat /\ Len(backlog) \in Nat /\ Len(f) \in Nat
  BY DEF TypeOK
<1>2. n \in 0 .. Len(f) /\ n <= room
  BY <1>1
<1>3. SubSeq(f, 1, n) \in Seq(Seqs) /\ Len(SubSeq(f, 1, n)) = n
  BY <1>2
<1>4. Backlogged(f) = backlog \o SubSeq(f, 1, n)
  BY DEF Backlogged
<1>5. Backlogged(f) \in Seq(Seqs) /\ Len(Backlogged(f)) = Len(backlog) + n
  BY <1>1, <1>3, <1>4, ConcatProperties
<1>6. QED
  BY <1>1, <1>2, <1>5

\* A flush keeps the types.
LEMMA FlushType ==
    ASSUME TypeOK, NEW b \in Seq(Seqs), Len(b) <= MaxBacklog, FlushLaneBacklog(b)
    PROVE  backlog' \in Seq(Seqs) /\ Len(backlog') <= MaxBacklog /\ muxGot' \in Seq(Seqs)
<1>1. CASE connected'
  <2>1. muxGot' = muxGot \o b /\ backlog' = <<>>
    BY <1>1 DEF FlushLaneBacklog
  <2>2. QED
    BY <2>1, ConcatProperties DEF TypeOK
<1>2. CASE ~connected'
  BY <1>2 DEF FlushLaneBacklog, TypeOK
<1>3. QED
  BY <1>1, <1>2

LEMMA OnDataInv == ASSUME IndInv, NEW seq \in dataWire, OnData(seq) PROVE IndInv'
<1> DEFINE held == HeldWith(seq)
           frames == Ascending(Released(held))
<1>1. /\ rxCumulative' = EndOfRun(rxCumulative, held)
      /\ rxHold' = held \ Released(held)
      /\ ackWire' = ackWire \cup {CurrentAck(rxCumulative', rxHold')}
      /\ connected' = connected
      /\ FlushLaneBacklog(Backlogged(frames))
      /\ UNCHANGED <<senderVars, dataWire>>
  BY OnDataStep
<1>2. /\ rxCumulative' \in rxCumulative .. MaxSeq
      /\ frames = [i \in 1 .. rxCumulative' - rxCumulative |-> rxCumulative + i]
      /\ rxHold' \subseteq Seqs
      /\ rxHold' \subseteq rxCumulative' + 2 .. rxCumulative' + Window
      /\ (1 .. rxCumulative') \cup rxHold' = Kept \cup held
      /\ Kept \cup held \subseteq 1 .. nextTx - 1
  BY <1>1, ReleasedRun
<1>3. /\ rxCumulative \in Nat /\ rxCumulative' \in Nat
      /\ rxCumulative' \in 0 .. MaxSeq /\ rxCumulative' >= rxCumulative
  BY <1>2 DEF IndInv, TypeOK
<1>4. Kept \subseteq Kept' /\ Kept' \subseteq 1 .. nextTx - 1
  BY <1>2 DEF Kept
<1>5. InFlight' = InFlight /\ outstanding' = outstanding /\ nextTx' = nextTx /\ failed' = failed
  BY <1>1 DEF senderVars, InFlight
<1>6. /\ CurrentAck(rxCumulative', rxHold') \in LaneAckFields
      /\ \A s \in Seqs : Acked(CurrentAck(rxCumulative', rxHold'), s) => s <= rxCumulative' \/ s \in rxHold'
  BY <1>2, <1>3, CurrentAckFacts
<1>7. TypeOK'
  <2>1. frames \in Seq(Seqs)
    BY ReleasedFrames
  <2>2. Backlogged(frames) \in Seq(Seqs) /\ Len(Backlogged(frames)) <= MaxBacklog
    BY <2>1, BackloggedType DEF IndInv
  <2>3. backlog' \in Seq(Seqs) /\ Len(backlog') <= MaxBacklog /\ muxGot' \in Seq(Seqs)
    BY <1>1, <2>2, FlushType DEF IndInv
  <2>4. QED
    BY <1>1, <1>2, <1>3, <1>5, <1>6, <2>3 DEF IndInv, TypeOK
<1>8. AccountInv'
  BY <1>1, <1>4, <1>5 DEF IndInv, AccountInv
<1>9. HoldInv'
  BY <1>2 DEF HoldInv
<1>10. AckInv'
  <2> SUFFICES ASSUME NEW ack \in ackWire', NEW s \in Seqs, Acked(ack, s) PROVE s \in Kept'
    BY DEF AckInv, Acked, Seqs
  <2>1. CASE ack \in ackWire
    BY <1>4, <2>1 DEF IndInv, AckInv
  <2>2. CASE ack = CurrentAck(rxCumulative', rxHold')
    BY <1>3, <1>6, <2>2 DEF Kept, Seqs
  <2>3. QED
    BY <1>1, <2>1, <2>2
<1>11. QED
  BY <1>7, <1>8, <1>9, <1>10 DEF IndInv

LEMMA FinishEstablishmentInv == ASSUME IndInv, FinishEstablishment PROVE IndInv'
<1>1. /\ connected' \in BOOLEAN /\ FlushLaneBacklog(backlog)
      /\ UNCHANGED <<senderVars, rxCumulative, rxHold, dataWire, ackWire>>
  BY DEF FinishEstablishment
<1>2. backlog' \in Seq(Seqs) /\ Len(backlog') <= MaxBacklog /\ muxGot' \in Seq(Seqs)
  BY <1>1, FlushType DEF IndInv, TypeOK
<1>3. Kept' = Kept /\ InFlight' = InFlight
  BY <1>1 DEF Kept, InFlight, senderVars
<1>4. TypeOK'
  BY <1>1, <1>2, <1>3 DEF IndInv, TypeOK, senderVars
<1>5. AccountInv' /\ HoldInv' /\ AckInv'
  BY <1>1, <1>3 DEF IndInv, AccountInv, HoldInv, AckInv, senderVars, Acked
<1>6. QED
  BY <1>4, <1>5 DEF IndInv

-----------------------------------------------------------------------------
LEMMA NextInv == IndInv /\ [Next]_vars => IndInv'
<1> SUFFICES ASSUME IndInv, [Next]_vars PROVE IndInv'
  OBVIOUS
<1>1. CASE Wrap
  BY <1>1, WrapInv
<1>2. CASE \E ack \in ackWire : OnAck(ack)
  BY <1>2, OnAckInv
<1>3. CASE \E due \in SUBSET InFlight : DueResends(due)
  BY <1>3, DueResendsInv
<1>4. CASE \E seq \in dataWire : OnData(seq)
  BY <1>4, OnDataInv
<1>5. CASE FinishEstablishment
  BY <1>5, FinishEstablishmentInv
<1>6. CASE UNCHANGED vars
  BY <1>6 DEF vars, senderVars, receiverVars, IndInv, TypeOK, AccountInv, HoldInv, AckInv, Kept, InFlight, Acked
<1>7. QED
  BY <1>1, <1>2, <1>3, <1>4, <1>5, <1>6 DEF Next

\* IndInv holds throughout.
THEOREM IndInvHolds == Spec => []IndInv
<1>1. Init => IndInv
  BY InitInv
<1>2. QED
  BY <1>1, NextInv, PTL DEF Spec

\* The sender lets go of a frame only when the receiver has it, whatever the carrier does to frames and acks.
THEOREM LetGoIsKeptHolds == Spec => []LetGoIsKept
<1>1. IndInv => LetGoIsKept
  <2> SUFFICES ASSUME IndInv, NEW s \in 1 .. nextTx - 1
               PROVE  s \in InFlight \/ s <= rxCumulative \/ s \in rxHold
    BY DEF LetGoIsKept, IndInv
  <2>1. s \in InFlight \cup Kept
    BY DEF IndInv, AccountInv
  <2>2. QED
    BY <2>1 DEF Kept, IndInv, TypeOK
<1>2. QED
  BY <1>1, IndInvHolds, PTL

-----------------------------------------------------------------------------
(* The lane implements the first-in first-out stream.                      *)

\* A flush moves the backlog to the mux: together they hold what they held, with b for the backlog.
LEMMA FlushKeepsAll ==
    ASSUME TypeOK, NEW b \in Seq(Seqs), FlushLaneBacklog(b)
    PROVE  muxGot' \o backlog' = muxGot \o b /\ (connected' => backlog' = <<>>)
<1>1. CASE connected'
  <2>1. muxGot' = muxGot \o b /\ backlog' = <<>>
    BY <1>1 DEF FlushLaneBacklog
  <2>2. muxGot \o b \in Seq(Seqs)
    BY ConcatProperties DEF TypeOK
  <2>3. QED
    BY <2>1, <2>2, ConcatEmptySeq
<1>2. CASE ~connected'
  BY <1>2 DEF FlushLaneBacklog
<1>3. QED
  BY <1>1, <1>2

\* With room in the backlog, OnData extends what was released by the run, and drops nothing.
LEMMA OnDataDelivers ==
    ASSUME IndInv, DeliveryInv, BacklogHasRoom', NEW seq \in dataWire, OnData(seq)
    PROVE  DeliveryInv' /\ rxCumulative' >= rxCumulative
<1> DEFINE held == HeldWith(seq)
           frames == Ascending(Released(held))
<1>1. /\ rxCumulative' = EndOfRun(rxCumulative, held)
      /\ connected' = connected
      /\ FlushLaneBacklog(Backlogged(frames))
  BY OnDataStep
<1>2. /\ rxCumulative' \in rxCumulative .. MaxSeq
      /\ frames = [i \in 1 .. rxCumulative' - rxCumulative |-> rxCumulative + i]
      /\ rxCumulative' <= rxCumulative + Window
  BY <1>1, ReleasedRun
<1>3. /\ rxCumulative \in Nat /\ rxCumulative' \in Nat /\ rxCumulative' >= rxCumulative
      /\ rxCumulative' <= MaxSeq /\ rxCumulative' <= rxCumulative + Window
  BY <1>2 DEF IndInv, TypeOK
<1>4. PICK n \in Nat : rxCumulative' = rxCumulative + n
  <2>1. rxCumulative' - rxCumulative \in Nat /\ rxCumulative' = rxCumulative + (rxCumulative' - rxCumulative)
    BY <1>3, Difference
  <2>2. QED
    BY <2>1
<1>5. frames = [i \in 1 .. n |-> rxCumulative + i]
  <2>1. rxCumulative' - rxCumulative = n
    BY <1>3, <1>4
  <2>2. QED
    BY <1>2, <2>1
<1>6. frames \in Seq(Seqs) /\ Len(frames) = n
  <2>1. \A i \in 1 .. n : rxCumulative + i \in Seqs
    BY <1>3, <1>4 DEF Seqs
  <2>2. QED
    BY <1>5, <2>1
<1>7. backlog \in Seq(Seqs) /\ muxGot \in Seq(Seqs) /\ connected \in BOOLEAN
  BY DEF IndInv, TypeOK
<1>8. Backlogged(frames) = backlog \o frames
  <2>1. n <= MaxBacklog - Len(backlog)
    <3>1. CASE connected
      <4>1. backlog = <<>> /\ n <= Window
        BY <1>3, <1>4, <3>1 DEF DeliveryInv
      <4>2. QED
        BY <4>1
    <3>2. CASE ~connected
      <4>1. Len(backlog) <= rxCumulative
        <5>1. Len(muxGot \o backlog) = rxCumulative
          BY <1>3 DEF DeliveryInv
        <5>2. Len(muxGot \o backlog) = Len(muxGot) + Len(backlog)
          BY <1>7, ConcatProperties
        <5>3. QED
          BY <1>7, <5>1, <5>2
      <4>2. rxCumulative' <= MaxBacklog
        BY <1>1, <3>2 DEF BacklogHasRoom
      <4>3. QED
        BY <1>3, <1>4, <1>7, <4>1, <4>2
    <3>3. QED
      BY <3>1, <3>2
  <2>2. QED
    BY <1>6, <1>7, <2>1 DEF Backlogged
<1>9. muxGot' \o backlog' = (muxGot \o backlog) \o frames /\ (connected' => backlog' = <<>>)
  <2>1. backlog \o frames \in Seq(Seqs)
    BY <1>6, <1>7, ConcatProperties
  <2>2. muxGot' \o backlog' = muxGot \o (backlog \o frames) /\ (connected' => backlog' = <<>>)
    BY <1>1, <1>8, <2>1, FlushKeepsAll DEF IndInv
  <2>3. muxGot \o (backlog \o frames) = (muxGot \o backlog) \o frames
    BY <1>6, <1>7, ConcatAssociative
  <2>4. QED
    BY <2>2, <2>3
<1>10. muxGot' \o backlog' = [i \in 1 .. rxCumulative' |-> i]
  BY <1>3, <1>4, <1>5, <1>9, CountOn DEF DeliveryInv
<1>11. QED
  BY <1>3, <1>9, <1>10 DEF DeliveryInv

\* The Finish of the handshake hands the whole backlog to the mux.
LEMMA FinishDelivers ==
    ASSUME IndInv, DeliveryInv, FinishEstablishment
    PROVE  DeliveryInv'
<1>1. FlushLaneBacklog(backlog) /\ rxCumulative' = rxCumulative /\ backlog \in Seq(Seqs)
  BY DEF FinishEstablishment, IndInv, TypeOK
<1>2. muxGot' \o backlog' = muxGot \o backlog /\ (connected' => backlog' = <<>>)
  BY <1>1, FlushKeepsAll DEF IndInv
<1>3. QED
  BY <1>1, <1>2 DEF DeliveryInv

LEMMA NextDelivers == IndInv /\ DeliveryInv /\ BacklogHasRoom' /\ [Next]_vars => DeliveryInv'
<1> SUFFICES ASSUME IndInv, DeliveryInv, BacklogHasRoom', [Next]_vars PROVE DeliveryInv'
  OBVIOUS
<1>1. CASE \E seq \in dataWire : OnData(seq)
  BY <1>1, OnDataDelivers
<1>2. CASE FinishEstablishment
  BY <1>2, FinishDelivers
<1>3. CASE UNCHANGED receiverVars
  BY <1>3 DEF DeliveryInv, receiverVars
<1>4. QED
  BY <1>1, <1>2, <1>3 DEF Next, Wrap, OnAck, DueResends, vars

\* What the mux was given is the first of the frames wrapped.
MuxGotPrefix ==
    /\ Len(muxGot) \in 0 .. nextTx - 1
    /\ muxGot = [i \in 1 .. Len(muxGot) |-> i]

LEMMA MuxGotIsPrefix == IndInv /\ DeliveryInv => MuxGotPrefix
<1> SUFFICES ASSUME IndInv, DeliveryInv PROVE MuxGotPrefix
  OBVIOUS
<1>1. muxGot \in Seq(Seqs) /\ backlog \in Seq(Seqs) /\ rxCumulative \in Nat /\ nextTx \in Nat \ {0}
  BY DEF IndInv, TypeOK
<1>2. /\ Len(muxGot \o backlog) = Len(muxGot) + Len(backlog)
      /\ \A i \in 1 .. Len(muxGot) : (muxGot \o backlog)[i] = muxGot[i]
  BY <1>1, ConcatProperties
<1>3. Len(muxGot \o backlog) = rxCumulative
  BY <1>1 DEF DeliveryInv
<1>4. Len(muxGot) \in Nat /\ Len(muxGot) <= rxCumulative
  BY <1>1, <1>2, <1>3
<1>5. rxCumulative <= nextTx - 1
  <2>1. 1 .. rxCumulative \subseteq 1 .. nextTx - 1
    BY DEF IndInv, AccountInv, Kept
  <2>2. QED
    BY <1>1, <2>1
<1>6. ASSUME NEW i \in 1 .. Len(muxGot) PROVE muxGot[i] = i
  <2>1. muxGot[i] = (muxGot \o backlog)[i]
    BY <1>2
  <2>2. i \in 1 .. rxCumulative
    BY <1>1, <1>4
  <2>3. [j \in 1 .. rxCumulative |-> j][i] = i
    BY <2>2
  <2>4. QED
    BY <2>1, <2>3 DEF DeliveryInv
<1>7. muxGot = [i \in 1 .. Len(muxGot) |-> i]
  BY <1>1, <1>6
<1>8. Len(muxGot) \in 0 .. nextTx - 1
  BY <1>1, <1>4, <1>5
<1>9. QED
  BY <1>7, <1>8 DEF MuxGotPrefix

\* The frames wrapped, as a sequence.
LEMMA SentIsCount ==
    ASSUME NEW n \in Nat \ {0}
    PROVE  Ascending(1 .. n - 1) = [i \in 1 .. n - 1 |-> i]
<1>1. Ascending(0 + 1 .. n - 1) = [i \in 1 .. (n - 1) - 0 |-> 0 + i]
  BY AscendingInterval
<1>2. 0 + 1 = 1 /\ (n - 1) - 0 = n - 1
  OBVIOUS
<1>3. [i \in 1 .. n - 1 |-> 0 + i] = [i \in 1 .. n - 1 |-> i]
  OBVIOUS
<1>4. QED
  BY <1>1, <1>2, <1>3

\* The mux only ever gets more.
LEMMA MuxGotGrows ==
    ASSUME IndInv, [Next]_vars
    PROVE  Len(muxGot') >= Len(muxGot)
<1>1. ASSUME NEW b \in Seq(Seqs), FlushLaneBacklog(b) PROVE Len(muxGot') >= Len(muxGot)
  <2>1. muxGot \in Seq(Seqs)
    BY DEF IndInv, TypeOK
  <2>2. muxGot' = muxGot \/ muxGot' = muxGot \o b
    BY <1>1 DEF FlushLaneBacklog
  <2>3. Len(muxGot \o b) = Len(muxGot) + Len(b) /\ Len(muxGot) \in Nat /\ Len(b) \in Nat
    BY <2>1, ConcatProperties
  <2>4. QED
    BY <2>2, <2>3
<1>2. CASE \E seq \in dataWire : OnData(seq)
  <2>1. PICK seq \in dataWire : OnData(seq)
    BY <1>2
  <2> DEFINE frames == Ascending(Released(HeldWith(seq)))
  <2>2. FlushLaneBacklog(Backlogged(frames))
    BY <2>1, OnDataStep
  <2>3. Backlogged(frames) \in Seq(Seqs)
    <3>1. TypeOK
      BY DEF IndInv
    <3>2. frames \in Seq(Seqs)
      BY <2>1, ReleasedFrames
    <3>3. QED
      BY <3>1, <3>2, BackloggedType
  <2>4. QED
    BY <1>1, <2>2, <2>3
<1>3. CASE FinishEstablishment
  BY <1>1, <1>3 DEF FinishEstablishment, IndInv, TypeOK
<1>4. CASE UNCHANGED receiverVars
  BY <1>4 DEF receiverVars, IndInv, TypeOK
<1>5. QED
  BY <1>2, <1>3, <1>4 DEF Next, Wrap, OnAck, DueResends, vars

\* Every step hands the stream one frame, delivers the next ones in order, or is invisible to it, as long as the
\* receiver is Connected before its backlog is full: a frame that finds it full is acked and dropped (HandleLaneFrame).
THEOREM Refinement == Spec /\ []BacklogHasRoom => ImplementsFifo
<1>1. Init => Fifo!Init
  <2> SUFFICES ASSUME Init PROVE Fifo!Init
    OBVIOUS
  <2>1. nextTx = 1 /\ muxGot = <<>>
    BY DEF Init
  <2>2. Ascending(1 .. nextTx - 1) = <<>>
    <3>1. Ascending(1 .. nextTx - 1) = [i \in 1 .. nextTx - 1 |-> i]
      <4>1. nextTx \in Nat \ {0}
        BY <2>1
      <4>2. QED
        BY <4>1, SentIsCount
    <3>2. [i \in 1 .. nextTx - 1 |-> i] = <<>>
      BY <2>1
    <3>3. QED
      BY <3>1, <3>2
  <2>3. QED
    BY <2>1, <2>2 DEF Fifo!Init
<1>2. IndInv /\ IndInv' /\ MuxGotPrefix /\ MuxGotPrefix' /\ [Next]_vars => [Fifo!Next]_(Fifo!vars)
  <2> SUFFICES ASSUME IndInv, IndInv', MuxGotPrefix, MuxGotPrefix', [Next]_vars PROVE [Fifo!Next]_(Fifo!vars)
    OBVIOUS
  <2> DEFINE sentNow == Ascending(1 .. nextTx - 1)
  <2>1. nextTx \in Nat \ {0} /\ nextTx' \in Nat \ {0} /\ muxGot \in Seq(Seqs) /\ muxGot' \in Seq(Seqs)
    BY DEF IndInv, TypeOK
  <2>2. sentNow = [i \in 1 .. nextTx - 1 |-> i] /\ sentNow' = [i \in 1 .. nextTx' - 1 |-> i]
    BY <2>1, SentIsCount
  <2>3. CASE Wrap
    <3>1. nextTx' = nextTx + 1 /\ nextTx \in Seqs /\ muxGot' = muxGot
      BY <2>3 DEF Wrap, receiverVars, IndInv, TypeOK, Seqs
    <3>2. PICK n \in Nat : nextTx = n + 1
      BY <2>1
    <3>3. sentNow = [i \in 1 .. n |-> i] /\ sentNow' = [i \in 1 .. n + 1 |-> i]
      BY <2>2, <3>1, <3>2
    <3>4. sentNow' = Append(sentNow, nextTx)
      BY <3>2, <3>3, CountAppend
    <3>5. Fifo!Send
      BY <3>1, <3>4 DEF Fifo!Send
    <3>6. QED
      BY <3>5 DEF Fifo!Next
  <2>4. CASE ~Wrap
    <3>1. nextTx' = nextTx
      BY <2>4 DEF Next, OnAck, DueResends, OnData, FinishEstablishment, vars, senderVars
    <3>2. sentNow' = sentNow
      BY <2>2, <3>1
    <3>3. muxGot = [i \in 1 .. Len(muxGot) |-> i] /\ muxGot' = [i \in 1 .. Len(muxGot') |-> i]
      BY DEF MuxGotPrefix
    <3>4. Len(muxGot) \in Nat /\ Len(muxGot') \in 0 .. nextTx - 1 /\ Len(muxGot') >= Len(muxGot)
      BY <2>1, <3>1, MuxGotGrows DEF MuxGotPrefix
    <3>5. CASE Len(muxGot') = Len(muxGot)
      <4>1. muxGot' = muxGot
        BY <3>3, <3>5
      <4>2. QED
        BY <3>2, <4>1 DEF Fifo!vars
    <3>6. CASE Len(muxGot') # Len(muxGot)
      <4>1. PICK k \in Nat : nextTx = k + 1
        BY <2>1
      <4>2. PICK m \in 0 .. k : Len(muxGot') = m
        BY <3>4, <4>1
      <4>3. sentNow = [i \in 1 .. k |-> i] /\ Len(sentNow) = k
        BY <2>2, <4>1
      <4>4. muxGot' = SubSeq(sentNow, 1, m)
        BY <3>3, <4>2, <4>3, CountPrefix
      <4>5. m \in Len(muxGot) + 1 .. Len(sentNow)
        <5>1. Len(muxGot) \in Nat /\ m \in Nat /\ m >= Len(muxGot) /\ m # Len(muxGot) /\ m <= k
          BY <3>4, <3>6, <4>2
        <5>2. m \in Len(muxGot) + 1 .. k
          BY <5>1
        <5>3. QED
          BY <4>3, <5>2
      <4>6. Fifo!Deliver
        BY <3>2, <4>4, <4>5 DEF Fifo!Deliver
      <4>7. QED
        BY <4>6 DEF Fifo!Next
    <3>7. QED
      BY <3>5, <3>6
  <2>5. QED
    BY <2>3, <2>4
<1>3. Init => DeliveryInv
  BY InitInv
<1>4. QED
  BY <1>1, <1>2, <1>3, NextDelivers, MuxGotIsPrefix, IndInvHolds, PTL DEF Spec, ImplementsFifo, Fifo!Spec
=============================================================================
