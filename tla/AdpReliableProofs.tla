------------------------- MODULE AdpReliableProofs -------------------------
(***************************************************************************)
(* The reliable stream of an association is safe for every window size,    *)
(* retransmit budget and number of packets: IndInv is inductive, and the   *)
(* safety properties, with the refinement of FifoChannel, follow from it.  *)
(***************************************************************************)
EXTENDS AdpReliable, WellFoundedInduction, SequenceTheorems, FiniteSetTheorems, TLAPS

-----------------------------------------------------------------------------
(* The replay window, for every size and every window a connection can     *)
(* reach.                                                                  *)

\* A non-empty set of numbers has a least member.
LEMMA LeastNumber ==
    ASSUME NEW T, T \subseteq Nat, T # {}
    PROVE  \E x \in T : \A y \in T : x <= y
<1>1. \E x \in T : \A y \in T : ~ (<<y, x>> \in OpToRel(<, Nat))
  BY NatLessThanWellFounded, WFMin
<1>2. \A x, y \in Nat : x < y => <<x, y>> \in OpToRel(<, Nat)
  BY Zenon DEF OpToRel
<1>3. PICK x \in T : \A y \in T : ~ (<<y, x>> \in OpToRel(<, Nat))
  BY <1>1
<1>4. \A y \in T : ~ (y < x)
  BY <1>2, <1>3
<1>5. QED
  BY <1>4

\* EndOfRun names the end of the run that starts after n: it exists, the run is in S, and it cannot be extended.
LEMMA EndOfRunFacts ==
    ASSUME NEW n \in Nat, NEW S, S \subseteq Nat, NEW B \in Nat, \A s \in S : s <= B
    PROVE  /\ EndOfRun(n, S) \in {n} \cup S
           /\ EndOfRun(n, S) \in Nat
           /\ EndOfRun(n, S) >= n
           /\ (n + 1) .. EndOfRun(n, S) \subseteq S
           /\ EndOfRun(n, S) + 1 \notin S
<1> DEFINE T == {k \in Nat : k > n /\ k \notin S}
           End(m) == m >= n /\ (n + 1) .. m \subseteq S /\ m + 1 \notin S
<1>1. n + B + 1 \in T
  OBVIOUS
<1>2. PICK x \in T : \A y \in T : x <= y
  BY <1>1, LeastNumber
<1>3. x - 1 \in {n} \cup S
  <2>1. CASE x = n + 1
    BY <2>1
  <2>2. CASE x # n + 1
    BY <2>2, <1>2
  <2>3. QED
    BY <2>1, <2>2
<1>4. End(x - 1)
  BY <1>2
<1>5. \E m \in {n} \cup S : End(m)
  BY <1>3, <1>4
<1>6. EndOfRun(n, S) = CHOOSE m \in {n} \cup S : End(m)
  BY DEF EndOfRun
<1>7. EndOfRun(n, S) \in {n} \cup S /\ End(EndOfRun(n, S))
  BY <1>5, <1>6
<1>8. QED
  BY <1>7

-----------------------------------------------------------------------------
\* "What Accept(seq) would do, without recording it" (ReplayWindow.h): Classify says Fresh exactly when Accept takes.
THEOREM ClassifyForetellsAccept ==
    ASSUME NEW w, WindowOK(w), NEW seq \in Nat
    PROVE  Accepts(w, seq) <=> Classify(w, seq) = "Fresh"
BY DEF Accepts, Classify, Seen, WindowOK

\* Accept keeps the shape of a window, its size and its kind.
LEMMA AcceptKeepsWindow ==
    ASSUME NEW w, WindowOK(w), NEW seq \in Nat
    PROVE  /\ WindowOK(Accept(w, seq))
           /\ Accept(w, seq).size = w.size
           /\ Accept(w, seq).slide = w.slide
<1> DEFINE end == EndOfRun(seq, w.pending)
<1>1. CASE ~Accepts(w, seq)
  BY <1>1 DEF Accept
<1>2. CASE Accepts(w, seq) /\ seq = w.last + 1
  <2>1. \A p \in w.pending : p <= w.last + w.size
    BY DEF WindowOK
  <2>2. w.pending \subseteq Nat /\ w.last + w.size \in Nat
    BY DEF WindowOK
  <2>3. /\ end \in Nat /\ end >= seq
        /\ end + 1 \notin w.pending
    BY <2>1, <2>2, EndOfRunFacts
  <2>4. Accept(w, seq) = [w EXCEPT !.last = end, !.pending = w.pending \ (seq .. end)]
    BY <1>2 DEF Accept
  <2>5. \A p \in w.pending \ (seq .. end) : p > end + 1 /\ p <= end + w.size
    BY <2>3, <1>2 DEF WindowOK
  <2>6. QED
    BY <2>2, <2>3, <2>4, <2>5 DEF WindowOK
<1>3. CASE Accepts(w, seq) /\ seq # w.last + 1 /\ seq > w.last + w.size
  BY <1>3 DEF Accept, WindowOK
<1>4. CASE Accepts(w, seq) /\ seq # w.last + 1 /\ seq <= w.last + w.size
  <2>1. Accept(w, seq) = [w EXCEPT !.pending = w.pending \cup {seq}]
    BY <1>4 DEF Accept, WindowOK
  <2>2. QED
    BY <2>1, <1>4 DEF WindowOK, Accepts
<1>5. QED
  BY <1>1, <1>2, <1>3, <1>4 DEF WindowOK

\* A strict window that takes seq has then seen exactly seq and what it had seen before.
LEMMA StrictAcceptSees ==
    ASSUME NEW w, WindowOK(w), ~w.slide, NEW seq \in Nat, Accepts(w, seq)
    PROVE  (1 .. Accept(w, seq).last) \cup Accept(w, seq).pending = (1 .. w.last) \cup w.pending \cup {seq}
<1> DEFINE end == EndOfRun(seq, w.pending)
<1>1. CASE seq = w.last + 1
  <2>1. \A p \in w.pending : p <= w.last + w.size
    BY DEF WindowOK
  <2>2. w.pending \subseteq Nat /\ w.last + w.size \in Nat /\ w.last \in Nat
    BY DEF WindowOK
  <2>3. /\ end \in Nat /\ end >= seq
        /\ (seq + 1) .. end \subseteq w.pending
    BY <2>1, <2>2, EndOfRunFacts
  <2>4. (1 .. end) = (1 .. w.last) \cup {seq} \cup ((seq + 1) .. end)
    BY <2>2, <2>3, <1>1
  <2>5. (1 .. end) \cup (w.pending \ (seq .. end)) = (1 .. w.last) \cup w.pending \cup {seq}
    BY <2>2, <2>3, <2>4, <1>1
  <2>6. /\ Accept(w, seq).last = end
        /\ Accept(w, seq).pending = w.pending \ (seq .. end)
    BY <1>1 DEF Accept, WindowOK
  <2>7. QED
    BY <2>5, <2>6
<1>2. CASE seq # w.last + 1
  <2>1. Accept(w, seq).last = w.last /\ Accept(w, seq).pending = w.pending \cup {seq}
    BY <1>2 DEF Accept, Accepts, WindowOK
  <2>2. QED
    BY <2>1
<1>3. QED
  BY <1>1, <1>2

-----------------------------------------------------------------------------
(* The numbers from 1 on, as a stream that skips and repeats none.         *)

\* The first a numbers, then the next b: the first a + b.
LEMMA CountOn ==
    ASSUME NEW a \in Nat, NEW b \in Nat
    PROVE  [i \in 1 .. a |-> i] \o [i \in 1 .. b |-> a + i] = [i \in 1 .. a + b |-> i]
<1> DEFINE s == [i \in 1 .. a |-> i]
           t == [i \in 1 .. b |-> a + i]
           st == [i \in 1 .. a + b |-> i]
<1>1. s \in Seq(Nat) /\ t \in Seq(Nat) /\ st \in Seq(Nat) /\ Len(s) = a /\ Len(t) = b /\ Len(st) = a + b
  OBVIOUS
<1>2. s \o t \in Seq(Nat) /\ Len(s \o t) = a + b
  BY <1>1, ConcatProperties
<1>3. \A i \in 1 .. a + b : (s \o t)[i] = st[i]
  BY <1>1, ConcatProperties
<1>4. QED
  BY <1>1, <1>2, <1>3, SeqEqual

\* One number more, at the end.
LEMMA CountAppend ==
    ASSUME NEW n \in Nat
    PROVE  [i \in 1 .. n + 1 |-> i] = Append([i \in 1 .. n |-> i], n + 1)
OBVIOUS

\* The first m of the first n.
LEMMA CountPrefix ==
    ASSUME NEW n \in Nat, NEW m \in 0 .. n
    PROVE  [i \in 1 .. m |-> i] = SubSeq([i \in 1 .. n |-> i], 1, m)
OBVIOUS

-----------------------------------------------------------------------------
USE ConstantsAssumption

\* The receiver's window is never empty, so the next number in order is never too far.
LEMMA RxWindowType == RxWindow \in Nat \ {0}
BY DEF RxWindow

\* The first n numbers are a sequence of packet numbers.
LEMMA FirstNumbers ==
    ASSUME NEW n \in Nat, n <= MaxSeq
    PROVE  [i \in 1 .. n |-> i] \in Seq(Seqs)
<1>1. \A i \in 1 .. n : i \in Seqs
  BY DEF Seqs
<1>2. QED
  BY <1>1

-----------------------------------------------------------------------------
\* A packet the receiver takes is new to it, and the window then counts it and nothing else.
LEMMA TakesNew ==
    ASSUME IndInv, NEW seq \in Seqs, Takes(seq)
    PROVE  /\ seq \notin Taken
           /\ WindowOK(Accept(rxRel, seq))
           /\ Accept(rxRel, seq).size = RxWindow
           /\ ~Accept(rxRel, seq).slide
           /\ (1 .. Accept(rxRel, seq).last) \cup Accept(rxRel, seq).pending = Taken \cup {seq}
<1>1. /\ WindowOK(rxRel) /\ seq \in Nat /\ seq # 0
      /\ rxRel.size = RxWindow /\ ~rxRel.slide
  BY DEF IndInv, Seqs, TypeOK
<1>2. Classify(rxRel, seq) = "Fresh"
  BY DEF Takes
<1>3. Accepts(rxRel, seq)
  BY <1>1, <1>2, ClassifyForetellsAccept
<1>4. seq \notin Taken
  BY <1>1, <1>2 DEF Classify, Seen, Taken, WindowOK
<1>5. (1 .. Accept(rxRel, seq).last) \cup Accept(rxRel, seq).pending = Taken \cup {seq}
  BY <1>1, <1>3, StrictAcceptSees DEF Taken
<1>6. QED
  BY <1>1, <1>4, <1>5, AcceptKeepsWindow

\* Delivery with a new packet in the hold: where the run ends, and what is left.
LEMMA DeliveryRun ==
    ASSUME IndInv, NEW seq \in Seqs, seq \notin Taken
    PROVE  LET h == hold \cup {seq}
               end == EndOfRun(nextDeliver - 1, h)
           IN  /\ end \in nextDeliver - 1 .. MaxSeq
               /\ nextDeliver .. end \subseteq h
               /\ end + 1 \notin h
               /\ \A x \in h : x >= nextDeliver
<1> DEFINE h == hold \cup {seq}
           end == EndOfRun(nextDeliver - 1, h)
<1>1. nextDeliver \in 1 .. MaxSeq + 1 /\ hold \subseteq Seqs /\ MaxSeq \in Nat
  BY DEF IndInv, TypeOK
<1>2. seq >= nextDeliver
  BY <1>1 DEF IndInv, TakenInv, Seqs
<1>3. \A x \in h : x >= nextDeliver
  BY <1>1, <1>2 DEF IndInv, DeliveryInv, Seqs
<1>4. h \subseteq Nat /\ (\A x \in h : x <= MaxSeq) /\ nextDeliver - 1 \in Nat
  BY <1>1 DEF Seqs
<1>5. /\ end \in {nextDeliver - 1} \cup h
      /\ end \in Nat
      /\ end >= nextDeliver - 1
      /\ (nextDeliver - 1 + 1) .. end \subseteq h
      /\ end + 1 \notin h
  BY <1>4, EndOfRunFacts
<1>6. end <= MaxSeq
  BY <1>1, <1>4, <1>5
<1>7. nextDeliver - 1 + 1 = nextDeliver
  BY <1>1
<1>8. QED
  BY <1>1, <1>3, <1>5, <1>6, <1>7

-----------------------------------------------------------------------------
LEMMA InitInv == Init => IndInv
<1> SUFFICES ASSUME Init PROVE IndInv
  OBVIOUS
<1>1. RxWindow \in Nat \ {0}
  BY RxWindowType
<1>2. InFlight = {} /\ outstanding \in [InFlight -> 0 .. MaxRtx]
  BY DEF Init, InFlight
<1>3. rxRel.last = 0 /\ rxRel.pending = {} /\ rxRel.size = RxWindow /\ ~rxRel.slide
  BY DEF Init, NewWindow
<1>4. WindowOK(rxRel)
  BY <1>1 DEF Init, NewWindow, WindowOK
<1>5. delivered = [i \in 1 .. nextDeliver - 1 |-> i] /\ delivered \in Seq(Seqs)
  BY DEF Init
<1>6. TypeOK
  <2>1. rxRel \in [size : {RxWindow}, slide : BOOLEAN, last : 0 .. MaxSeq, pending : SUBSET Seqs]
    BY DEF Init, NewWindow
  <2>2. /\ txSeq \in 0 .. MaxSeq /\ lost \subseteq Seqs /\ handler \in BOOLEAN /\ hold \subseteq Seqs
        /\ nextDeliver \in 1 .. MaxSeq + 1 /\ unheard \subseteq Seqs /\ closed \subseteq Ends
        /\ dataWire \subseteq Seqs /\ ackWire \subseteq Seqs /\ closeWire \subseteq Ends
    BY DEF Init
  <2>3. InFlight \subseteq Seqs
    BY <1>2
  <2>4. QED
    BY <1>2, <1>3, <1>5, <2>1, <2>2, <2>3 DEF TypeOK
<1>7. Taken = {}
  BY <1>3 DEF Taken
<1>8. HoldBounded
  BY FS_EmptySet DEF Init, HoldBounded
<1>9. DeliveryInv /\ TakenInv /\ AccountInv
  <2>1. /\ txSeq = 0 /\ nextDeliver = 1
        /\ lost = {} /\ hold = {} /\ unheard = {} /\ dataWire = {} /\ ackWire = {}
    BY DEF Init
  <2>2. QED
    BY <1>2, <1>5, <1>7, <2>1 DEF DeliveryInv, TakenInv, AccountInv
<1>10. QED
  BY <1>4, <1>6, <1>8, <1>9 DEF IndInv

\* The steps that leave the receiver alone keep what is said of it.
LEMMA ReceiverKept ==
    ASSUME IndInv, UNCHANGED receiverVars
    PROVE  WindowOK(rxRel)' /\ DeliveryInv' /\ TakenInv' /\ HoldBounded' /\ Taken' = Taken
BY DEF IndInv, receiverVars, DeliveryInv, TakenInv, HoldBounded, Taken, WindowOK

LEMMA SendInv == ASSUME IndInv, Send PROVE IndInv'
<1>1. WindowOK(rxRel)' /\ DeliveryInv' /\ TakenInv' /\ HoldBounded' /\ Taken' = Taken
  BY ReceiverKept DEF Send
<1>2. InFlight' = InFlight \cup {txSeq + 1}
  BY DEF Send, InFlight
<1>3. TypeOK'
  <2>1. txSeq' \in 0 .. MaxSeq /\ txSeq + 1 \in Seqs
    BY DEF IndInv, TypeOK, Send, Seqs
  <2>2. outstanding' \in [InFlight' -> 0 .. MaxRtx]
    BY <1>2 DEF IndInv, TypeOK, Send
  <2>3. QED
    BY <2>1, <2>2, <1>2 DEF IndInv, TypeOK, Send, receiverVars
<1>4. AccountInv'
  BY <1>1, <1>2 DEF IndInv, TypeOK, AccountInv, Send, Seqs
<1>5. QED
  BY <1>1, <1>3, <1>4 DEF IndInv

LEMMA TickInv == ASSUME IndInv, NEW due \in SUBSET InFlight, Tick(due) PROVE IndInv'
<1>1. WindowOK(rxRel)' /\ DeliveryInv' /\ TakenInv' /\ HoldBounded' /\ Taken' = Taken
  BY ReceiverKept DEF Tick
<1>2. InFlight' = InFlight \ GivenUp(due)
  BY DEF Tick, InFlight
<1>3. GivenUp(due) \subseteq InFlight /\ Resent(due) \subseteq InFlight
  BY DEF GivenUp, Resent
<1>4. TypeOK'
  <2>1. outstanding' \in [InFlight' -> 0 .. MaxRtx]
    BY <1>2, <1>3 DEF IndInv, TypeOK, Tick, Resent
  <2>2. QED
    BY <2>1, <1>2, <1>3 DEF IndInv, TypeOK, Tick, receiverVars
<1>5. AccountInv'
  BY <1>1, <1>2, <1>3 DEF IndInv, AccountInv, Tick
<1>6. QED
  BY <1>1, <1>4, <1>5 DEF IndInv

LEMMA HandleAckInv == ASSUME IndInv, NEW seq \in Seqs, HandleAck(seq) PROVE IndInv'
<1>1. WindowOK(rxRel)' /\ DeliveryInv' /\ TakenInv' /\ HoldBounded' /\ Taken' = Taken
  BY ReceiverKept DEF HandleAck
<1>2. InFlight' = InFlight \ {seq}
  BY DEF HandleAck, InFlight
<1>3. TypeOK'
  BY <1>2 DEF IndInv, TypeOK, HandleAck, receiverVars
<1>4. AccountInv'
  BY <1>1, <1>2 DEF IndInv, AccountInv, HandleAck
<1>5. QED
  BY <1>1, <1>3, <1>4 DEF IndInv

\* Closing, and registering the handler, touch neither the packets nor the window.
LEMMA QuietInv ==
    ASSUME IndInv,
           UNCHANGED <<senderVars, rxRel, hold, nextDeliver, delivered, unheard, dataWire, ackWire>>,
           handler' \in BOOLEAN, closed' \subseteq Ends, closeWire' \subseteq Ends
    PROVE  IndInv'
BY DEF IndInv, TypeOK, WindowOK, DeliveryInv, TakenInv, AccountInv, HoldBounded, Taken, InFlight, senderVars

\* A packet taken with the handler set: held, then delivered as far as the run goes.
LEMMA TakenAndDelivered ==
    ASSUME IndInv, NEW seq \in Seqs, Takes(seq), handler, HandleReliable(seq)
    PROVE  /\ DeliveryInv' /\ HoldBounded'
           /\ nextDeliver' \in 1 .. MaxSeq + 1 /\ nextDeliver' >= nextDeliver
           /\ hold' \subseteq Seqs /\ delivered' \in Seq(Seqs)
           /\ (1 .. nextDeliver' - 1) \cup hold' = (1 .. nextDeliver - 1) \cup hold \cup {seq}
           /\ unheard' = unheard
<1> DEFINE h == hold \cup {seq}
           end == EndOfRun(nextDeliver - 1, h)
<1>1. seq \notin Taken
  BY TakesNew
<1>2. /\ end \in nextDeliver - 1 .. MaxSeq
      /\ nextDeliver .. end \subseteq h
      /\ end + 1 \notin h
      /\ \A x \in h : x >= nextDeliver
  BY <1>1, DeliveryRun
<1>3. /\ hold' = h \ (nextDeliver .. end)
      /\ nextDeliver' = end + 1
      /\ delivered' = delivered \o [i \in 1 .. end + 1 - nextDeliver |-> nextDeliver + i - 1]
      /\ unheard' = unheard
  BY DEF HandleReliable, DeliverReliableInOrder
<1>4. nextDeliver \in 1 .. MaxSeq + 1 /\ hold \subseteq Seqs /\ unheard \subseteq Seqs /\ MaxSeq \in Nat
  BY DEF IndInv, TypeOK
<1>5. nextDeliver' \in 1 .. MaxSeq + 1 /\ nextDeliver' >= nextDeliver /\ hold' \subseteq Seqs
  BY <1>2, <1>3, <1>4
<1>6. delivered' = [i \in 1 .. nextDeliver' - 1 |-> i]
  <2>1. delivered = [i \in 1 .. nextDeliver - 1 |-> i]
    BY DEF IndInv, DeliveryInv
  <2>2. [i \in 1 .. end + 1 - nextDeliver |-> nextDeliver + i - 1]
          = [i \in 1 .. end + 1 - nextDeliver |-> (nextDeliver - 1) + i]
    BY <1>2, <1>4
  <2>3. nextDeliver - 1 \in Nat /\ end + 1 - nextDeliver \in Nat
        /\ (nextDeliver - 1) + (end + 1 - nextDeliver) = end
    BY <1>2, <1>4
  <2>4. ASSUME NEW a \in Nat, NEW b \in Nat, a = nextDeliver - 1, b = end + 1 - nextDeliver
        PROVE  delivered' = [i \in 1 .. a + b |-> i]
    <3>1. delivered' = [i \in 1 .. a |-> i] \o [i \in 1 .. b |-> a + i]
      BY <1>3, <2>1, <2>2, <2>4
    <3>2. QED
      BY <3>1, CountOn
  <2>5. nextDeliver' - 1 = (nextDeliver - 1) + (end + 1 - nextDeliver)
    BY <1>2, <1>3, <1>4
  <2>6. QED
    BY <2>3, <2>4, <2>5
<1>7. delivered' \in Seq(Seqs)
  <2>1. nextDeliver' - 1 = end
    BY <1>2, <1>3, <1>4
  <2>2. end \in Nat /\ end <= MaxSeq
    BY <1>2, <1>4
  <2>3. [i \in 1 .. end |-> i] \in Seq(Seqs)
    BY <2>2, FirstNumbers
  <2>4. QED
    BY <1>6, <2>1, <2>3
<1>8. \A x \in hold' : x > nextDeliver'
  BY <1>2, <1>3, <1>4 DEF Seqs
<1>9. \A u \in unheard : u >= nextDeliver' /\ u \notin hold'
  <2>1. unheard \subseteq Taken
    BY DEF IndInv, TakenInv
  <2>2. \A u \in unheard : u >= nextDeliver /\ u \notin h
    BY <1>1, <2>1 DEF IndInv, DeliveryInv
  <2>3. ASSUME NEW u \in unheard PROVE u >= end + 1
    <3>1. u >= nextDeliver /\ u \notin nextDeliver .. end
      BY <1>2, <2>2
    <3>2. u \in Nat
      BY <1>4 DEF Seqs
    <3>3. end \in Int /\ nextDeliver \in Int
      BY <1>2, <1>4
    <3>4. QED
      BY <3>1, <3>2, <3>3
  <2>4. QED
    BY <1>3, <2>2, <2>3
<1>10. (1 .. nextDeliver' - 1) \cup hold' = (1 .. nextDeliver - 1) \cup h
  <2>1. (1 .. end) = (1 .. nextDeliver - 1) \cup (nextDeliver .. end)
    BY <1>2, <1>4
  <2>2. nextDeliver' - 1 = end
    BY <1>2, <1>3, <1>4
  <2>3. QED
    BY <1>2, <1>3, <2>1, <2>2
<1>11. HoldBounded'
  <2>1. IsFiniteSet(hold) /\ IsFiniteSet(h) /\ Cardinality(hold) <= HoldWindow
        /\ Cardinality(h) = IF seq \in hold THEN Cardinality(hold) ELSE Cardinality(hold) + 1
    <3>1. IsFiniteSet(Seqs)
      BY <1>4, FS_Interval DEF Seqs
    <3>2. IsFiniteSet(hold)
      BY <1>4, <3>1, FS_Subset
    <3>3. QED
      BY <3>2, FS_AddElement DEF IndInv, HoldBounded
  <2>2. Cardinality(hold) \in Nat /\ Cardinality(h) \in Nat
    BY <2>1, FS_CardinalityType
  <2>3. CASE seq = nextDeliver
    <3>1. end >= nextDeliver
      BY <2>3, <1>2, <1>4
    <3>2. hold' \subseteq hold
      BY <3>1, <2>3, <1>2, <1>3, <1>4
    <3>3. Cardinality(hold') <= Cardinality(hold)
      BY <2>1, <3>2, FS_Subset
    <3>4. IsFiniteSet(hold') /\ Cardinality(hold') \in Nat
      BY <2>1, <3>2, FS_Subset, FS_CardinalityType
    <3>5. QED
      BY <2>1, <2>2, <3>3, <3>4 DEF HoldBounded
  <2>4. CASE seq # nextDeliver
    <3>1. Cardinality(hold) < HoldWindow
      BY <2>4 DEF Takes, Room
    <3>2. hold' \subseteq h
      BY <1>3
    <3>3. Cardinality(hold') <= Cardinality(h)
      BY <2>1, <3>2, FS_Subset
    <3>4. IsFiniteSet(hold') /\ Cardinality(hold') \in Nat
      BY <2>1, <3>2, FS_Subset, FS_CardinalityType
    <3>5. QED
      BY <2>1, <2>2, <3>1, <3>3, <3>4 DEF HoldBounded
  <2>5. QED
    BY <2>3, <2>4
<1>12. DeliveryInv'
  BY <1>3, <1>6, <1>8, <1>9 DEF DeliveryInv
<1>13. QED
  BY <1>3, <1>5, <1>7, <1>10, <1>11, <1>12

LEMMA HandleReliableInv == ASSUME IndInv, NEW seq \in Seqs, HandleReliable(seq) PROVE IndInv'
<1>1. UNCHANGED <<senderVars, handler, closed, dataWire, closeWire>> /\ seq \in dataWire
  BY DEF HandleReliable
<1>2. InFlight' = InFlight /\ outstanding' = outstanding /\ txSeq' = txSeq /\ lost' = lost
  BY <1>1 DEF InFlight, senderVars
<1>3. seq \in 1 .. txSeq
  BY <1>1 DEF IndInv, AccountInv
<1>4. CASE ~Takes(seq)
  <2>1. UNCHANGED receiverVars
    BY <1>1, <1>4 DEF HandleReliable, receiverVars
  <2>2. WindowOK(rxRel)' /\ DeliveryInv' /\ TakenInv' /\ HoldBounded' /\ Taken' = Taken
    BY <2>1, ReceiverKept
  <2>3. ackWire' \subseteq ackWire \cup (Taken \cap {seq})
    BY <1>4 DEF HandleReliable, Acks, Classify, Seen, Taken, IndInv, WindowOK, Seqs
  <2>4. AccountInv'
    BY <1>1, <1>2, <2>2, <2>3 DEF IndInv, AccountInv
  <2>5. TypeOK'
    BY <1>1, <1>2, <2>1, <2>3 DEF IndInv, TypeOK, receiverVars
  <2>6. QED
    BY <2>2, <2>4, <2>5 DEF IndInv
<1>5. CASE Takes(seq)
  <2>1. rxRel' = Accept(rxRel, seq) /\ ackWire' = ackWire \cup {seq}
    BY <1>5 DEF HandleReliable, Acks
  <2>2. /\ seq \notin Taken /\ WindowOK(rxRel') /\ rxRel'.size = RxWindow /\ ~rxRel'.slide
        /\ Taken' = Taken \cup {seq}
    BY <1>5, <2>1, TakesNew DEF Taken
  <2>3. /\ DeliveryInv' /\ HoldBounded'
        /\ nextDeliver' \in 1 .. MaxSeq + 1
        /\ hold' \subseteq Seqs /\ delivered' \in Seq(Seqs) /\ unheard' \subseteq Seqs
        /\ TakenInv'
    <3>1. CASE handler
      BY <1>5, <2>2, <3>1, TakenAndDelivered DEF IndInv, TypeOK, TakenInv
    <3>2. CASE ~handler
      <4>1. unheard' = unheard \cup {seq} /\ UNCHANGED <<hold, nextDeliver, delivered>>
        BY <1>5, <3>2 DEF HandleReliable
      <4>2. seq >= nextDeliver /\ seq \notin hold
        BY <2>2 DEF IndInv, TakenInv, TypeOK, Seqs
      <4>3. QED
        BY <2>2, <4>1, <4>2 DEF IndInv, TypeOK, DeliveryInv, TakenInv, HoldBounded
    <3>3. QED
      BY <3>1, <3>2
  <2>4. AccountInv'
    BY <1>1, <1>2, <1>3, <2>1, <2>2 DEF IndInv, AccountInv
  <2>5. TypeOK'
    <3>1. Taken' \subseteq Seqs
      BY <1>2, <2>2, <1>3 DEF IndInv, TypeOK, AccountInv, Seqs
    <3>2. rxRel'.last \in 0 .. MaxSeq /\ rxRel'.pending \subseteq Seqs
      BY <2>2, <3>1 DEF Taken, WindowOK, Seqs
    <3>3. rxRel' \in [size : {RxWindow}, slide : BOOLEAN, last : 0 .. MaxSeq, pending : SUBSET Seqs]
      BY <2>2, <3>2 DEF WindowOK
    <3>4. QED
      BY <1>1, <1>2, <2>1, <2>2, <2>3, <3>3 DEF IndInv, TypeOK, RxWindow
  <2>6. QED
    BY <2>2, <2>3, <2>4, <2>5 DEF IndInv
<1>6. QED
  BY <1>4, <1>5

-----------------------------------------------------------------------------
LEMMA NextInv == IndInv /\ [Next]_vars => IndInv'
<1> SUFFICES ASSUME IndInv, [Next]_vars PROVE IndInv'
  OBVIOUS
<1>1. CASE Send
  BY <1>1, SendInv
<1>2. CASE \E due \in SUBSET InFlight : Tick(due)
  BY <1>2, TickInv
<1>3. CASE \E seq \in Seqs : HandleAck(seq)
  BY <1>3, HandleAckInv
<1>4. CASE OnMessage
  BY <1>4, QuietInv DEF OnMessage, IndInv, TypeOK
<1>5. CASE \E seq \in Seqs : HandleReliable(seq)
  BY <1>5, HandleReliableInv
<1>6. CASE \E end \in Ends : Close(end) \/ Abandon(end) \/ HandleClose(end)
  <2>1. PICK end \in Ends : Close(end) \/ Abandon(end) \/ HandleClose(end)
    BY <1>6
  <2>2. Peer(end) \in Ends
    BY DEF Peer, Ends
  <2>3. closed' \subseteq Ends /\ closeWire' \subseteq Ends
    BY <2>1, <2>2 DEF Close, Abandon, HandleClose, IndInv, TypeOK
  <2>4. /\ UNCHANGED <<senderVars, rxRel, hold, nextDeliver, delivered, unheard, dataWire, ackWire>>
        /\ handler' = handler
    BY <2>1 DEF Close, Abandon, HandleClose, receiverVars
  <2>5. handler' \in BOOLEAN
    BY <2>4 DEF IndInv, TypeOK
  <2>6. QED
    BY <2>3, <2>4, <2>5, QuietInv
<1>7. CASE UNCHANGED vars
  BY <1>7, QuietInv DEF vars, receiverVars, IndInv, TypeOK
<1>8. QED
  BY <1>1, <1>2, <1>3, <1>4, <1>5, <1>6, <1>7 DEF Next

\* IndInv holds throughout.
THEOREM IndInvHolds == Spec => []IndInv
BY InitInv, NextInv, PTL DEF Spec

\* In-order, exactly-once delivery, for every window, budget and number of packets.
THEOREM InOrder == Spec => []InOrderExactlyOnce
<1>1. IndInv => InOrderExactlyOnce
  <2> SUFFICES ASSUME IndInv PROVE InOrderExactlyOnce
    OBVIOUS
  <2>1. delivered = [i \in 1 .. nextDeliver - 1 |-> i] /\ nextDeliver \in 1 .. MaxSeq + 1
    BY DEF IndInv, DeliveryInv, TypeOK
  <2>2. delivered \in Seq(Seqs) /\ Len(delivered) = nextDeliver - 1
    BY <2>1 DEF IndInv, TypeOK
  <2>3. 1 .. nextDeliver - 1 \subseteq 1 .. txSeq /\ txSeq \in Nat
    BY DEF IndInv, TakenInv, AccountInv, TypeOK
  <2>4. nextDeliver - 1 <= txSeq
    BY <2>1, <2>3
  <2>5. QED
    BY <2>1, <2>2, <2>4 DEF InOrderExactlyOnce
<1>2. QED
  BY <1>1, IndInvHolds, PTL

\* An ack is a promise kept: nothing leaves the sender's books without being given up, delivered, held, or unheard.
THEOREM AckPromise == Spec => []AckedIsKept
<1>1. IndInv => AckedIsKept
  <2> SUFFICES ASSUME IndInv, NEW s \in 1 .. txSeq
               PROVE  s \in InFlight \cup lost \/ s < nextDeliver \/ s \in hold \/ s \in unheard
    BY DEF AckedIsKept
  <2>1. s \in InFlight \cup lost \cup (1 .. nextDeliver - 1) \cup hold \cup unheard
    BY DEF IndInv, TakenInv, AccountInv
  <2>2. QED
    BY <2>1 DEF IndInv, TypeOK
<1>2. QED
  BY <1>1, IndInvHolds, PTL

\* No quiet stall: a settled sender means a complete delivery.
THEOREM NoQuietStall == Spec => []SettledMeansDelivered
<1>1. IndInv => SettledMeansDelivered
  <2> SUFFICES ASSUME IndInv, InFlight = {}, lost = {}, unheard = {}
               PROVE  Len(delivered) = txSeq /\ hold = {}
    BY DEF SettledMeansDelivered
  <2>1. (1 .. nextDeliver - 1) \cup hold = 1 .. txSeq
    BY DEF IndInv, TakenInv, AccountInv
  <2>2. /\ nextDeliver \in Nat \ {0} /\ txSeq \in Nat
        /\ \A h \in hold : h > nextDeliver
    BY DEF IndInv, TypeOK, DeliveryInv
  <2>3. hold = {}
    <3>1. SUFFICES ASSUME NEW h \in hold PROVE FALSE
      OBVIOUS
    <3>2. nextDeliver \in 1 .. txSeq
      BY <2>1, <2>2
    <3>3. nextDeliver \in hold
      BY <2>1, <2>2, <3>2
    <3>4. QED
      BY <2>2, <3>3
  <2>4. nextDeliver - 1 = txSeq
    BY <2>1, <2>2, <2>3
  <2>5. Len(delivered) = nextDeliver - 1
    BY <2>2 DEF IndInv, DeliveryInv
  <2>6. QED
    BY <2>3, <2>4, <2>5
<1>2. QED
  BY <1>1, IndInvHolds, PTL

\* Resends stay within max_rtx, and the hold within the receiver's reliable window whatever its replay window and its
\* peer's send window are.
THEOREM LimitsKept == Spec => []WithinLimits
<1>1. IndInv => WithinLimits
  BY DEF IndInv, WithinLimits
<1>2. QED
  BY <1>1, IndInvHolds, PTL

\* The front of the queue is given up first, and only with its budget spent.
THEOREM GivesUpInOrder == Spec => GivesUpOldestFirst
<1> DEFINE A == \A s \in lost' \ lost : outstanding[s] = MaxRtx /\ \A t \in DOMAIN outstanding' : t > s
<1>1. IndInv /\ [Next]_vars => [A]_vars
  <2> SUFFICES ASSUME IndInv, Next, NEW s \in lost' \ lost
               PROVE  outstanding[s] = MaxRtx /\ \A t \in DOMAIN outstanding' : t > s
    OBVIOUS
  <2>1. PICK due \in SUBSET InFlight : Tick(due)
    BY DEF Next, Send, HandleAck, OnMessage, HandleReliable, Close, Abandon, HandleClose, senderVars
  <2>2. s \in GivenUp(due) /\ DOMAIN outstanding' = InFlight \ GivenUp(due)
    BY <2>1 DEF Tick
  <2>3. /\ s \in due /\ \A t \in InFlight : t <= s => t \in due /\ outstanding[t] >= MaxRtx
        /\ InFlight \subseteq Nat
    BY <2>2 DEF GivenUp, IndInv, TypeOK, Seqs
  <2>4. outstanding[s] = MaxRtx
    BY <2>3 DEF IndInv, TypeOK
  <2>5. ASSUME NEW t \in InFlight \ GivenUp(due), ~(t > s) PROVE FALSE
    <3>1. \A u \in InFlight : u <= t => u <= s
      BY <2>3, <2>5
    <3>2. t \in GivenUp(due)
      BY <2>3, <2>5, <3>1 DEF GivenUp
    <3>3. QED
      BY <3>2
  <2>6. QED
    BY <2>2, <2>4, <2>5
<1>2. QED
  BY <1>1, IndInvHolds, PTL DEF Spec, GivesUpOldestFirst

-----------------------------------------------------------------------------
(* The association implements the first-in first-out stream.               *)

\* Every step hands the stream one message, delivers the next ones in order, or is invisible to it.
THEOREM Refinement == Spec => ImplementsFifo
<1>1. Init => Fifo!Init
  BY DEF Init, Fifo!Init
<1>2. IndInv /\ IndInv' /\ [Next]_vars => [Fifo!Next]_(Fifo!vars)
  <2> SUFFICES ASSUME IndInv, IndInv', [Next]_vars PROVE [Fifo!Next]_(Fifo!vars)
    OBVIOUS
  <2> DEFINE sentNow == [i \in 1 .. txSeq |-> i]
  <2>1. CASE Send
    <3>1. txSeq \in Nat /\ txSeq' = txSeq + 1 /\ txSeq + 1 \in Seqs /\ delivered' = delivered
      BY <2>1 DEF Send, receiverVars, IndInv, TypeOK, Seqs
    <3>2. [i \in 1 .. txSeq' |-> i] = Append(sentNow, txSeq + 1)
      BY <3>1, CountAppend
    <3>3. Fifo!Send
      BY <3>1, <3>2 DEF Fifo!Send
    <3>4. QED
      BY <3>3 DEF Fifo!Next
  <2>2. CASE \E seq \in Seqs : HandleReliable(seq)
    <3>1. PICK seq \in Seqs : HandleReliable(seq)
      BY <2>2
    <3>2. txSeq' = txSeq /\ txSeq \in Nat
      BY <3>1 DEF HandleReliable, senderVars, IndInv, TypeOK
    <3>3. CASE Takes(seq) /\ handler
      <4>1. /\ nextDeliver \in Nat \ {0} /\ nextDeliver' \in Nat \ {0} /\ nextDeliver' >= nextDeliver
            /\ delivered = [i \in 1 .. nextDeliver - 1 |-> i]
            /\ delivered' = [i \in 1 .. nextDeliver' - 1 |-> i]
        BY <3>1, <3>3, TakenAndDelivered DEF IndInv, TypeOK, DeliveryInv
      <4>2. PICK m \in Nat : nextDeliver' = m + 1
        BY <4>1
      <4>3. m \in 0 .. txSeq /\ m >= nextDeliver - 1 /\ delivered' = [i \in 1 .. m |-> i]
        <5>1. 1 .. nextDeliver' - 1 \subseteq 1 .. txSeq
          BY <3>2 DEF IndInv, TakenInv, AccountInv
        <5>2. nextDeliver' - 1 = m
          BY <4>2
        <5>3. 1 .. m \subseteq 1 .. txSeq
          BY <5>1, <5>2
        <5>4. QED
          BY <3>2, <4>1, <4>2, <5>2, <5>3
      <4>4. CASE m = nextDeliver - 1
        <5>1. delivered' = delivered
          BY <4>1, <4>3, <4>4
        <5>2. QED
          BY <3>2, <5>1 DEF Fifo!vars
      <4>5. CASE m # nextDeliver - 1
        <5>1. Len(delivered) = nextDeliver - 1 /\ Len(sentNow) = txSeq
          BY <3>2, <4>1
        <5>2. m \in Len(delivered) + 1 .. Len(sentNow)
          BY <3>2, <4>1, <4>3, <4>5, <5>1
        <5>3. delivered' = SubSeq(sentNow, 1, m)
          BY <3>2, <4>3, CountPrefix
        <5>4. Fifo!Deliver
          BY <3>2, <5>2, <5>3 DEF Fifo!Deliver
        <5>5. QED
          BY <5>4 DEF Fifo!Next
      <4>6. QED
        BY <4>4, <4>5
    <3>4. CASE ~(Takes(seq) /\ handler)
      BY <3>1, <3>2, <3>4 DEF HandleReliable, Fifo!vars
    <3>5. QED
      BY <3>3, <3>4
  <2>3. CASE ~Send /\ ~(\E seq \in Seqs : HandleReliable(seq))
    <3>1. txSeq' = txSeq /\ delivered' = delivered
      BY <2>3 DEF Next, Tick, HandleAck, OnMessage, Close, Abandon, HandleClose, vars, senderVars, receiverVars
    <3>2. QED
      BY <3>1 DEF Fifo!vars
  <2>4. QED
    BY <2>1, <2>2, <2>3
<1>3. QED
  BY <1>1, <1>2, IndInvHolds, PTL DEF Spec, ImplementsFifo, Fifo!Spec
=============================================================================
