------------------------- MODULE SessionRekeyProofs -------------------------
(***************************************************************************)
(* The ends of a session never drift apart by more than one epoch, and the *)
(* one behind has asked for the next: for every number of epochs, data     *)
(* packets, losses and datagrams in flight.                                *)
(***************************************************************************)
EXTENDS SessionRekey, SequenceTheorems, FiniteSetTheorems, TLAPS

USE BoundsAssumption

LEMMA PeerFacts == \A e \in Ends : Peer(e) \in Ends /\ Peer(e) # e /\ Peer(Peer(e)) = e
BY DEF Ends, Peer

LEMMA MaxSeqType == MaxSeq \in Nat
BY DEF MaxSeq

LEMMA FirstNumbersFinite == ASSUME NEW n \in Nat PROVE IsFiniteSet(1 .. n) /\ Cardinality(1 .. n) = n
<1>1. IsFiniteSet(1 .. n) /\ Cardinality(1 .. n) = IF 1 > n THEN 0 ELSE n - 1 + 1
  BY FS_Interval
<1>2. QED
  BY <1>1

\* Control messages are not data, and name an epoch to come.
LEMMA BodyFacts ==
    /\ Data \in Body /\ Data.kind = "Data"
    /\ \A b \in Body : b # Data => b \in Control
    /\ \A b \in Control : /\ b # Data /\ b \in Body /\ b.kind \in {"RekeyRequest", "RekeyAck"}
                          /\ b.target \in 2 .. MaxEpoch
    /\ \A b, c \in Control : b.kind = c.kind /\ b.target = c.target => b = c
<1>1. \A b \in Control : b.kind \in {"RekeyRequest", "RekeyAck"} /\ b.target \in 2 .. MaxEpoch
  BY DEF Control
<1>2. Data.kind = "Data"
  BY DEF Data
<1>3. \A b \in Control : b # Data
  BY <1>1, <1>2
<1>4. \A b, c \in Control : b.kind = c.kind /\ b.target = c.target => b = c
  BY DEF Control
<1>5. QED
  BY <1>1, <1>2, <1>3, <1>4 DEF Body

\* Where the packets of q with body of this kind are.
PlacesOf(q, kind) == {s \in DOMAIN q : q[s] # Data /\ q[s].kind = kind}

\* No two messages of one kind for one epoch: no more of them than epochs to come.
LEMMA OncePerEpoch ==
    ASSUME NEW q \in Seq(Body), NEW kind \in {"RekeyRequest", "RekeyAck"},
           \A s, t \in DOMAIN q : q[s] # Data /\ q[s] = q[t] => s = t
    PROVE  IsFiniteSet(PlacesOf(q, kind)) /\ Cardinality(PlacesOf(q, kind)) <= MaxEpoch - 1
<1> DEFINE P == PlacesOf(q, kind)
           T == 2 .. MaxEpoch
           f == [s \in P |-> q[s].target]
<1>1. \A s \in P : s \in DOMAIN q /\ q[s] \in Control /\ q[s].kind = kind
  BY BodyFacts DEF PlacesOf
<1>2. f \in [P -> T]
  BY <1>1, BodyFacts
<1>3. \A s, t \in P : f[s] = f[t] => s = t
  <2> SUFFICES ASSUME NEW s \in P, NEW t \in P, f[s] = f[t] PROVE s = t
    OBVIOUS
  <2>1. q[s].target = q[t].target /\ q[s].kind = q[t].kind
    BY <1>1
  <2>2. q[s] = q[t] /\ q[s] # Data
    BY <1>1, <2>1, BodyFacts
  <2>3. QED
    BY <1>1, <2>2
<1>4. f \in Injection(P, T)
  BY <1>2, <1>3 DEF Injection, IsInjective
<1>5. IsFiniteSet(T) /\ Cardinality(T) = MaxEpoch - 1
  <2>1. IsFiniteSet(T) /\ Cardinality(T) = IF 2 > MaxEpoch THEN 0 ELSE MaxEpoch - 2 + 1
    BY FS_Interval
  <2>2. QED
    BY <2>1
<1>6. IsFiniteSet(P) /\ Cardinality(P) <= Cardinality(T)
  BY <1>4, <1>5, FS_Injection
<1>7. QED
  BY <1>5, <1>6

\* So a stream with so much data is no longer than the bound on numbers.
LEMMA StreamBound ==
    ASSUME NEW q \in Seq(Body),
           \A s, t \in DOMAIN q : q[s] # Data /\ q[s] = q[t] => s = t,
           Cardinality({s \in DOMAIN q : q[s] = Data}) <= MaxData
    PROVE  Len(q) <= MaxSeq
<1> DEFINE D == {s \in DOMAIN q : q[s] = Data}
           R == PlacesOf(q, "RekeyRequest")
           A == PlacesOf(q, "RekeyAck")
<1>1. DOMAIN q = 1 .. Len(q) /\ Len(q) \in Nat
  OBVIOUS
<1>2. DOMAIN q = D \cup (R \cup A)
  <2>1. \A s \in DOMAIN q : q[s] \in Body
    OBVIOUS
  <2>2. QED
    BY <2>1, BodyFacts DEF PlacesOf
<1>3. IsFiniteSet(DOMAIN q) /\ Cardinality(DOMAIN q) = Len(q)
  BY <1>1, FirstNumbersFinite
<1>4. IsFiniteSet(D) /\ IsFiniteSet(R) /\ IsFiniteSet(A)
  BY <1>3, FS_Subset DEF PlacesOf
<1>5. Cardinality(R) <= MaxEpoch - 1 /\ Cardinality(A) <= MaxEpoch - 1
  BY OncePerEpoch
<1>6. Cardinality(R \cup A) <= Cardinality(R) + Cardinality(A) /\ IsFiniteSet(R \cup A)
  <2>1. /\ IsFiniteSet(R \cup A) /\ IsFiniteSet(R \cap A)
        /\ Cardinality(R \cup A) = Cardinality(R) + Cardinality(A) - Cardinality(R \cap A)
    BY <1>4, FS_Union, FS_Intersection
  <2>2. Cardinality(R) \in Nat /\ Cardinality(A) \in Nat /\ Cardinality(R \cap A) \in Nat
    BY <1>4, <2>1, FS_CardinalityType
  <2>3. QED
    BY <2>1, <2>2
<1>7. Cardinality(DOMAIN q) <= Cardinality(D) + Cardinality(R \cup A)
  <2>1. /\ IsFiniteSet(D \cap (R \cup A))
        /\ Cardinality(D \cup (R \cup A)) = Cardinality(D) + Cardinality(R \cup A) - Cardinality(D \cap (R \cup A))
    BY <1>4, <1>6, FS_Union, FS_Intersection
  <2>2. Cardinality(D) \in Nat /\ Cardinality(R \cup A) \in Nat /\ Cardinality(D \cap (R \cup A)) \in Nat
    BY <1>4, <1>6, <2>1, FS_CardinalityType
  <2>3. QED
    BY <1>2, <2>1, <2>2
<1>8. /\ Cardinality(D) \in Nat /\ Cardinality(R) \in Nat /\ Cardinality(A) \in Nat
      /\ Cardinality(R \cup A) \in Nat
  BY <1>4, <1>6, FS_CardinalityType
<1>9. Cardinality(D) <= MaxData
  OBVIOUS
<1> HIDE DEF D, R, A
<1>10. Len(q) <= Cardinality(D) + Cardinality(R \cup A)
  BY <1>3, <1>7
<1>11. Cardinality(D) + Cardinality(R \cup A) <= MaxData + 2 * (MaxEpoch - 1)
  BY <1>5, <1>6, <1>8, <1>9
<1>12. QED
  BY <1>1, <1>8, <1>10, <1>11 DEF MaxSeq

-----------------------------------------------------------------------------
(* Sending.                                                                *)

\* A message the mux accepts is the next of its stream: data within its bound, control that was not sent before.
LEMMA SendStep ==
    ASSUME IndInv, NEW e \in Ends, NEW b \in Body, NEW atOnce \in BOOLEAN, SendWire(e, b, atOnce),
           b = Data => Cardinality(DataSent(e)) < MaxData,
           \A s \in ControlSent(e) : sent[e][s] # b
    PROVE  /\ sent' \in [Ends -> Seq(Body)]
           /\ \A f \in Ends : Len(sent'[f]) <= MaxSeq
           /\ \A f \in Ends : DOMAIN sent[f] \subseteq DOMAIN sent'[f] /\ Len(sent[f]) <= Len(sent'[f])
           /\ \A f \in Ends : \A s \in ControlSent(f)' :
                \/ s \in ControlSent(f) /\ sent'[f][s] = sent[f][s]
                \/ f = e /\ b # Data /\ sent'[f][s] = b
           /\ OnceInv'
           /\ wire' \subseteq Packet
           /\ \A p \in wire' : p.seq \in DOMAIN sent'[Peer(p.to)]
           /\ out' \in [Ends -> 0 .. MaxSeq] /\ \A f \in Ends : out'[f] <= Len(sent'[f])
<1> DEFINE n == Len(sent[e]) + 1
<1>1. /\ sent \in [Ends -> Seq(Body)] /\ wire \subseteq Packet /\ epoch \in [Ends -> 1 .. MaxEpoch]
      /\ out \in [Ends -> 0 .. MaxSeq] /\ \A f \in Ends : out[f] <= Len(sent[f])
  BY DEF IndInv, NumbersInv, OneBehindHasAsked, TypeOK
<1>2. sent' = [sent EXCEPT ![e] = Append(sent[e], b)]
  BY DEF SendWire
<1>3. sent' \in [Ends -> Seq(Body)]
  BY <1>1, <1>2
<1>4. /\ Len(sent'[e]) = n /\ DOMAIN sent'[e] = DOMAIN sent[e] \cup {n} /\ n \notin DOMAIN sent[e]
      /\ sent'[e][n] = b /\ \A s \in DOMAIN sent[e] : sent'[e][s] = sent[e][s]
      /\ n \in Nat \ {0}
  BY <1>1, <1>2
<1>5. \A f \in Ends \ {e} : sent'[f] = sent[f]
  BY <1>1, <1>2
<1>6. \A f \in Ends : DOMAIN sent[f] \subseteq DOMAIN sent'[f] /\ Len(sent[f]) <= Len(sent'[f])
  <2>1. \A f \in Ends : Len(sent[f]) \in Nat
    BY <1>1
  <2>2. Len(sent[e]) <= n
    BY <2>1
  <2>3. QED
    BY <1>4, <1>5, <2>1, <2>2
<1>7. \A f \in Ends : \A s \in ControlSent(f)' :
        \/ s \in ControlSent(f) /\ sent'[f][s] = sent[f][s]
        \/ f = e /\ b # Data /\ s = n /\ sent'[f][s] = b
  BY <1>4, <1>5 DEF ControlSent
<1>8. ASSUME NEW f \in Ends
      PROVE  /\ \A s, t \in ControlSent(f)' : sent'[f][s] = sent'[f][t] => s = t
             /\ Cardinality(DataSent(f)') <= MaxData
  <2>1. /\ \A s, t \in ControlSent(f) : sent[f][s] = sent[f][t] => s = t
        /\ Cardinality(DataSent(f)) <= MaxData
    BY DEF IndInv, OnceInv
  <2>2. CASE f # e
    BY <1>5, <2>1, <2>2 DEF ControlSent, DataSent
  <2>3. CASE f = e
    <3>1. \A s, t \in ControlSent(e)' : sent'[e][s] = sent'[e][t] => s = t
      BY <1>7, <2>1, <2>3
    <3>2. CASE b # Data
      <4>1. DataSent(e)' = DataSent(e)
        BY <1>4, <3>2 DEF DataSent
      <4>2. QED
        BY <2>1, <2>3, <3>1, <4>1
    <3>3. CASE b = Data
      <4>1. DataSent(e)' = DataSent(e) \cup {n} /\ n \notin DataSent(e)
        BY <1>4, <3>3 DEF DataSent
      <4>2. IsFiniteSet(DataSent(e))
        <5>1. DOMAIN sent[e] = 1 .. Len(sent[e]) /\ Len(sent[e]) \in Nat
          BY <1>1
        <5>2. IsFiniteSet(DOMAIN sent[e])
          BY <5>1, FirstNumbersFinite
        <5>3. QED
          BY <5>2, FS_Subset DEF DataSent
      <4>3. Cardinality(DataSent(e) \cup {n}) = Cardinality(DataSent(e)) + 1 /\ Cardinality(DataSent(e)) \in Nat
        BY <4>1, <4>2, FS_AddElement, FS_CardinalityType
      <4>4. Cardinality(DataSent(e)') <= MaxData
        BY <3>3, <4>1, <4>3
      <4>5. QED
        BY <2>3, <3>1, <4>4
    <3>4. QED
      BY <3>2, <3>3
  <2>4. QED
    BY <2>2, <2>3
<1>9. OnceInv'
  BY <1>8 DEF OnceInv
<1>10. \A f \in Ends : Len(sent'[f]) <= MaxSeq
  <2> SUFFICES ASSUME NEW f \in Ends PROVE Len(sent'[f]) <= MaxSeq
    OBVIOUS
  <2>1. sent'[f] \in Seq(Body)
    BY <1>3
  <2>2. \A s, t \in DOMAIN sent'[f] : sent'[f][s] # Data /\ sent'[f][s] = sent'[f][t] => s = t
    BY <1>8 DEF ControlSent
  <2>3. Cardinality({s \in DOMAIN sent'[f] : sent'[f][s] = Data}) <= MaxData
    BY <1>8 DEF DataSent
  <2>4. QED
    BY <2>1, <2>2, <2>3, StreamBound
<1>11. Sealed(e, n) \in Packet /\ n \in 1 .. MaxSeq
  <2>1. n \in 1 .. MaxSeq
    BY <1>4, <1>10, MaxSeqType
  <2>2. QED
    BY <1>1, <2>1, PeerFacts DEF Sealed, Packet
<1>12. \/ out' = out /\ wire' = wire
       \/ out' = [out EXCEPT ![e] = n] /\ wire' = wire \cup {Sealed(e, n)}
  <2>1. CASE atOnce
    <3>1. ~Waits(e) /\ out' = [out EXCEPT ![e] = out[e] + 1] /\ wire' = wire \cup {Sealed(e, out[e] + 1)}
      BY <2>1 DEF SendWire, Send
    <3>2. out[e] \in Nat /\ Len(sent[e]) \in Nat /\ out[e] <= Len(sent[e])
      BY <1>1, MaxSeqType
    <3>3. out[e] + 1 = n
      BY <3>1, <3>2 DEF Waits
    <3>4. out' = [out EXCEPT ![e] = n] /\ wire' = wire \cup {Sealed(e, n)}
      BY <3>1, <3>3
    <3>5. QED
      BY <3>4
  <2>2. CASE ~atOnce
    BY <2>2 DEF SendWire
  <2>3. QED
    BY <2>1, <2>2
<1>13. ASSUME NEW p \in wire' PROVE p \in Packet /\ p.seq \in DOMAIN sent'[Peer(p.to)]
  <2>1. CASE p \in wire
    <3>1. p.to \in Ends /\ p.seq \in DOMAIN sent[Peer(p.to)]
      BY <1>1, <2>1 DEF Packet, IndInv, NumbersInv
    <3>2. QED
      BY <1>1, <1>6, <2>1, <3>1, PeerFacts
  <2>2. CASE p = Sealed(e, n)
    <3>1. Peer(p.to) = e /\ p.seq = n
      BY <2>2, PeerFacts DEF Sealed
    <3>2. QED
      BY <1>4, <1>11, <2>2, <3>1
  <2>3. QED
    BY <1>12, <2>1, <2>2
<1>14. out' \in [Ends -> 0 .. MaxSeq] /\ \A f \in Ends : out'[f] <= Len(sent'[f])
  <2>1. CASE out' = out
    <3>1. \A f \in Ends : out[f] \in Nat /\ Len(sent[f]) \in Nat /\ Len(sent'[f]) \in Nat
      BY <1>1, <1>3, MaxSeqType
    <3>2. QED
      BY <1>1, <1>6, <2>1, <3>1
  <2>2. CASE out' = [out EXCEPT ![e] = n]
    <3>1. n \in 0 .. MaxSeq
      BY <1>11, MaxSeqType
    <3>2. out' \in [Ends -> 0 .. MaxSeq] /\ out'[e] = n /\ \A f \in Ends \ {e} : out'[f] = out[f]
      BY <1>1, <2>2, <3>1
    <3>3. \A f \in Ends : out'[f] <= Len(sent'[f])
      <4>1. out'[e] <= Len(sent'[e])
        BY <1>4, <3>2
      <4>2. \A f \in Ends \ {e} : out'[f] <= Len(sent'[f])
        BY <1>1, <1>5, <3>2
      <4>3. QED
        BY <4>1, <4>2
    <3>4. QED
      BY <3>2, <3>3
  <2>3. QED
    BY <1>12, <2>1, <2>2
<1>15. QED
  BY <1>1, <1>3, <1>6, <1>7, <1>9, <1>10, <1>13, <1>14

\* What an end has stays within what was sent to it.
LEMMA ReceivedWithinSent ==
    ASSUME TypeOK, NumbersInv, sent' \in [Ends -> Seq(Body)], NEW f \in Ends,
           \A e \in Ends : DOMAIN sent[e] \subseteq DOMAIN sent'[e] /\ Len(sent[e]) <= Len(sent'[e])
    PROVE  hold[f] \subseteq DOMAIN sent'[Peer(f)] /\ rxNext[f] <= Len(sent'[Peer(f)]) + 1
<1>1. Peer(f) \in Ends
  BY PeerFacts
<1>2. hold[f] \subseteq DOMAIN sent[Peer(f)] /\ rxNext[f] <= Len(sent[Peer(f)]) + 1 /\ rxNext[f] \in Nat
  BY MaxSeqType DEF NumbersInv, TypeOK
<1>3. Len(sent[Peer(f)]) \in Nat /\ Len(sent'[Peer(f)]) \in Nat
  BY <1>1 DEF NumbersInv
<1>4. QED
  BY <1>1, <1>2, <1>3

-----------------------------------------------------------------------------
LEMMA InitInv == Init => IndInv
<1> SUFFICES ASSUME Init PROVE IndInv
  OBVIOUS
<1>1. \A e \in Ends : sent[e] = <<>> /\ ControlSent(e) = {} /\ DataSent(e) = {}
  BY DEF Init, ControlSent, DataSent
<1>2. TypeOK
  BY MaxSeqType DEF Init, TypeOK, Body
<1>3. OneBehindHasAsked
  BY <1>2, PeerFacts DEF Init, OneBehindHasAsked
<1>4. NumbersInv
  BY PeerFacts DEF Init, NumbersInv
<1>5. AskedInv
  BY <1>1 DEF AskedInv
<1>6. OnceInv
  <2>1. Cardinality({}) <= MaxData
    BY FS_EmptySet
  <2>2. QED
    BY <1>1, <2>1 DEF OnceInv
<1>7. QED
  BY <1>3, <1>4, <1>5, <1>6 DEF IndInv

\* What is said of epochs and of what was sent survives a step that changes neither.
LEMMA SessionKept ==
    ASSUME IndInv, UNCHANGED <<epoch, rekeyCb, sent>>
    PROVE  /\ AskedInv' /\ OnceInv'
           /\ \A e \in Ends : epoch'[e] < epoch'[Peer(e)] => epoch'[Peer(e)] = epoch'[e] + 1 /\ rekeyCb'[e]
<1>1. \A e \in Ends : ControlSent(e)' = ControlSent(e) /\ DataSent(e)' = DataSent(e)
  BY DEF ControlSent, DataSent
<1>2. QED
  BY <1>1 DEF IndInv, AskedInv, OnceInv, OneBehindHasAsked

LEMMA RequestSessionRekeyInv == ASSUME IndInv, NEW e \in Ends, RequestSessionRekey(e) PROVE IndInv'
<1> DEFINE b == [kind |-> "RekeyRequest", target |-> NextEpoch(e)]
<1>1. TypeOK /\ NumbersInv /\ AskedInv
  BY DEF IndInv, OneBehindHasAsked
<1>2. /\ ~rekeyCb[e] /\ epoch[e] < MaxEpoch /\ \E atOnce \in BOOLEAN : SendWire(e, b, atOnce)
      /\ rekeyCb' = [rekeyCb EXCEPT ![e] = TRUE]
      /\ UNCHANGED <<epoch, grace, lateAck, rxNext, hold, losses>>
  BY DEF RequestSessionRekey
<1>3. epoch \in [Ends -> 1 .. MaxEpoch] /\ rekeyCb \in [Ends -> BOOLEAN]
  BY <1>1 DEF TypeOK
<1>4. b \in Control /\ b \in Body /\ b # Data /\ b.kind = "RekeyRequest" /\ b.target = epoch[e] + 1
  <2>1. b \in Control
    BY <1>2, <1>3 DEF Control, NextEpoch
  <2>2. QED
    BY <2>1, BodyFacts DEF NextEpoch
<1>5. \A s \in ControlSent(e) : sent[e][s] # b
  BY <1>1, <1>2, <1>3, <1>4 DEF AskedInv
<1> HIDE DEF b
<1>6. /\ sent' \in [Ends -> Seq(Body)]
      /\ \A f \in Ends : Len(sent'[f]) <= MaxSeq
      /\ \A f \in Ends : DOMAIN sent[f] \subseteq DOMAIN sent'[f] /\ Len(sent[f]) <= Len(sent'[f])
      /\ \A f \in Ends : \A s \in ControlSent(f)' :
            \/ s \in ControlSent(f) /\ sent'[f][s] = sent[f][s]
            \/ f = e /\ b # Data /\ sent'[f][s] = b
      /\ OnceInv'
      /\ wire' \subseteq Packet
      /\ \A p \in wire' : p.seq \in DOMAIN sent'[Peer(p.to)]
      /\ out' \in [Ends -> 0 .. MaxSeq] /\ \A f \in Ends : out'[f] <= Len(sent'[f])
  BY <1>2, <1>4, <1>5, SendStep
<1>7. NumbersInv'
  <2>1. \A f \in Ends : hold'[f] \subseteq DOMAIN sent'[Peer(f)] /\ rxNext'[f] <= Len(sent'[Peer(f)]) + 1
    BY <1>1, <1>2, <1>6, ReceivedWithinSent
  <2>2. QED
    BY <1>6, <2>1 DEF NumbersInv
<1>8. AskedInv'
  <2> SUFFICES ASSUME NEW f \in Ends, NEW s \in ControlSent(f)'
               PROVE  \/ sent'[f][s].target <= epoch'[f]
                      \/ /\ sent'[f][s].kind = "RekeyRequest" /\ sent'[f][s].target = epoch'[f] + 1
                         /\ rekeyCb'[f]
    BY DEF AskedInv
  <2>1. epoch' = epoch /\ (rekeyCb[f] => rekeyCb'[f]) /\ rekeyCb'[e]
    BY <1>2, <1>3
  <2>2. CASE s \in ControlSent(f) /\ sent'[f][s] = sent[f][s]
    BY <1>1, <2>1, <2>2 DEF AskedInv
  <2>3. CASE f = e /\ sent'[f][s] = b
    BY <1>4, <2>1, <2>3
  <2>4. QED
    BY <1>6, <2>2, <2>3
<1>9. TypeOK'
  BY <1>1, <1>2, <1>6 DEF TypeOK
<1>10. OneBehindHasAsked'
  BY <1>2, <1>3, <1>9 DEF IndInv, OneBehindHasAsked
<1>11. QED
  BY <1>6, <1>7, <1>8, <1>10 DEF IndInv

LEMMA SendDataInv == ASSUME IndInv, NEW e \in Ends, SendData(e) PROVE IndInv'
<1>1. TypeOK /\ NumbersInv /\ AskedInv
  BY DEF IndInv, OneBehindHasAsked
<1>2. /\ Cardinality(DataSent(e)) < MaxData /\ \E atOnce \in BOOLEAN : SendWire(e, Data, atOnce)
      /\ UNCHANGED <<epoch, grace, rekeyCb, lateAck, rxNext, hold, losses>>
  BY DEF SendData, session
<1>3. Data \in Body /\ \A s \in ControlSent(e) : sent[e][s] # Data
  BY BodyFacts DEF ControlSent
<1>4. /\ sent' \in [Ends -> Seq(Body)]
      /\ \A f \in Ends : Len(sent'[f]) <= MaxSeq
      /\ \A f \in Ends : DOMAIN sent[f] \subseteq DOMAIN sent'[f] /\ Len(sent[f]) <= Len(sent'[f])
      /\ \A f \in Ends : \A s \in ControlSent(f)' : s \in ControlSent(f) /\ sent'[f][s] = sent[f][s]
      /\ OnceInv'
      /\ wire' \subseteq Packet
      /\ \A p \in wire' : p.seq \in DOMAIN sent'[Peer(p.to)]
      /\ out' \in [Ends -> 0 .. MaxSeq] /\ \A f \in Ends : out'[f] <= Len(sent'[f])
  BY <1>2, <1>3, SendStep
<1>5. NumbersInv'
  <2>1. \A f \in Ends : hold'[f] \subseteq DOMAIN sent'[Peer(f)] /\ rxNext'[f] <= Len(sent'[Peer(f)]) + 1
    BY <1>1, <1>2, <1>4, ReceivedWithinSent
  <2>2. QED
    BY <1>4, <2>1 DEF NumbersInv
<1>6. AskedInv'
  BY <1>1, <1>2, <1>4 DEF AskedInv
<1>7. TypeOK'
  BY <1>1, <1>2, <1>4 DEF TypeOK
<1>8. OneBehindHasAsked'
  BY <1>2, <1>7 DEF IndInv, OneBehindHasAsked
<1>9. QED
  BY <1>4, <1>5, <1>6, <1>8 DEF IndInv

\* The steps of timers and of the network change neither epochs nor what was sent.
LEMMA QuietInv ==
    ASSUME IndInv, UNCHANGED <<epoch, rekeyCb, lateAck, sent, rxNext>>,
           out' \in [Ends -> 0 .. MaxSeq], \A e \in Ends : out'[e] <= Len(sent[e]),
           grace' \in [Ends -> BOOLEAN], losses' \in 0 .. MaxLoss,
           hold' \in [Ends -> SUBSET (1 .. MaxSeq)], \A e \in Ends : hold'[e] \subseteq DOMAIN sent[Peer(e)],
           wire' \subseteq Packet, \A p \in wire' : p.seq \in DOMAIN sent[Peer(p.to)]
    PROVE  IndInv'
<1>1. TypeOK /\ NumbersInv
  BY DEF IndInv, OneBehindHasAsked
<1>2. TypeOK' /\ NumbersInv'
  BY <1>1 DEF TypeOK, NumbersInv
<1>3. QED
  BY <1>2, SessionKept DEF IndInv, OneBehindHasAsked

LEMMA ResendInv == ASSUME IndInv, NEW e \in Ends, NEW s \in Outstanding(e), Resend(e, s) PROVE IndInv'
<1>1. TypeOK /\ NumbersInv
  BY DEF IndInv, OneBehindHasAsked
<1>2. wire' = wire \cup {Sealed(e, s)} /\ UNCHANGED <<epoch, grace, rekeyCb, lateAck, sent, out, rxNext, hold, losses>>
  BY DEF Resend, session, transport
<1>3. s \in DOMAIN sent[e] /\ s \in 1 .. MaxSeq
  <2>1. s \in 1 .. out[e] /\ out[e] \in Nat /\ out[e] <= Len(sent[e])
    BY <1>1, MaxSeqType DEF Outstanding, NumbersInv, TypeOK
  <2>2. DOMAIN sent[e] = 1 .. Len(sent[e]) /\ Len(sent[e]) \in Nat /\ Len(sent[e]) <= MaxSeq
    BY <1>1 DEF NumbersInv, TypeOK
  <2>3. QED
    BY <2>1, <2>2, MaxSeqType
<1>4. Sealed(e, s) \in Packet /\ Peer(Sealed(e, s).to) = e /\ Sealed(e, s).seq = s
  BY <1>1, <1>3, PeerFacts DEF Sealed, Packet, TypeOK
<1>5. QED
  BY <1>1, <1>2, <1>3, <1>4, QuietInv DEF TypeOK, NumbersInv

LEMMA FlushQueuedInv == ASSUME IndInv, NEW e \in Ends, FlushQueued(e) PROVE IndInv'
<1> DEFINE n == out[e] + 1
<1>1. TypeOK /\ NumbersInv
  BY DEF IndInv, OneBehindHasAsked
<1>2. /\ out[e] < Len(sent[e]) /\ out' = [out EXCEPT ![e] = n] /\ wire' = wire \cup {Sealed(e, n)}
      /\ UNCHANGED <<epoch, grace, rekeyCb, lateAck, sent, rxNext, hold, losses>>
  BY DEF FlushQueued, Send, Waits, session
<1>3. n \in DOMAIN sent[e] /\ n \in 1 .. MaxSeq /\ n <= Len(sent[e])
  <2>1. out[e] \in Nat /\ DOMAIN sent[e] = 1 .. Len(sent[e]) /\ Len(sent[e]) \in Nat /\ Len(sent[e]) <= MaxSeq
    BY <1>1, MaxSeqType DEF NumbersInv, TypeOK
  <2>2. QED
    BY <1>2, <2>1, MaxSeqType
<1>4. Sealed(e, n) \in Packet /\ Peer(Sealed(e, n).to) = e /\ Sealed(e, n).seq = n
  BY <1>1, <1>3, PeerFacts DEF Sealed, Packet, TypeOK
<1>5. out' \in [Ends -> 0 .. MaxSeq] /\ \A f \in Ends : out'[f] <= Len(sent[f])
  <2>1. n \in 0 .. MaxSeq
    BY <1>3, MaxSeqType
  <2>2. QED
    BY <1>1, <1>2, <1>3, <2>1 DEF TypeOK, NumbersInv
<1> HIDE DEF n
<1>6. wire' \subseteq Packet /\ \A p \in wire' : p.seq \in DOMAIN sent[Peer(p.to)]
  BY <1>1, <1>2, <1>3, <1>4 DEF TypeOK, NumbersInv
<1>7. QED
  BY <1>1, <1>2, <1>5, <1>6, QuietInv DEF TypeOK, NumbersInv

LEMMA HandleDatagramInv == ASSUME IndInv, NEW p \in wire, HandleDatagram(p) PROVE IndInv'
<1>1. TypeOK /\ NumbersInv
  BY DEF IndInv, OneBehindHasAsked
<1>2. /\ wire' \subseteq wire /\ UNCHANGED <<epoch, grace, rekeyCb, lateAck, sent, out, rxNext, losses>>
      /\ hold' = [hold EXCEPT ![p.to] = IF Opens(p.to, p) /\ ~Taken(p.to, p.seq) THEN @ \cup {p.seq} ELSE @]
  BY DEF HandleDatagram, session
<1>3. p.to \in Ends /\ p.seq \in 1 .. MaxSeq /\ p.seq \in DOMAIN sent[Peer(p.to)]
  BY <1>1 DEF TypeOK, NumbersInv, Packet
<1>4. hold' \in [Ends -> SUBSET (1 .. MaxSeq)] /\ \A e \in Ends : hold'[e] \subseteq DOMAIN sent[Peer(e)]
  BY <1>1, <1>2, <1>3 DEF TypeOK, NumbersInv
<1>5. grace' \in [Ends -> BOOLEAN] /\ losses' \in 0 .. MaxLoss
  BY <1>1, <1>2 DEF TypeOK
<1>6. wire' \subseteq Packet /\ \A q \in wire' : q.seq \in DOMAIN sent[Peer(q.to)]
  BY <1>1, <1>2 DEF TypeOK, NumbersInv
<1>7. out' \in [Ends -> 0 .. MaxSeq] /\ \A e \in Ends : out'[e] <= Len(sent[e])
  BY <1>1, <1>2 DEF TypeOK, NumbersInv
<1>8. QED
  BY <1>2, <1>4, <1>5, <1>6, <1>7, QuietInv

LEMMA LoseInv == ASSUME IndInv, NEW p \in wire, Lose(p) PROVE IndInv'
<1>1. TypeOK /\ NumbersInv
  BY DEF IndInv, OneBehindHasAsked
<1>2. /\ wire' \subseteq wire /\ UNCHANGED <<epoch, grace, rekeyCb, lateAck, sent, out, rxNext, hold>>
      /\ losses < MaxLoss /\ losses' = losses + 1
  BY DEF Lose, session, transport
<1>3. QED
  BY <1>1, <1>2, QuietInv DEF TypeOK, NumbersInv

LEMMA GraceOverInv == ASSUME IndInv, NEW e \in Ends, GraceOver(e) PROVE IndInv'
<1>1. TypeOK /\ NumbersInv
  BY DEF IndInv, OneBehindHasAsked
<1>2. /\ grace' = [grace EXCEPT ![e] = FALSE]
      /\ UNCHANGED <<epoch, rekeyCb, lateAck, sent, out, rxNext, hold, wire, losses>>
  BY DEF GraceOver, transport
<1>3. QED
  BY <1>1, <1>2, QuietInv DEF TypeOK, NumbersInv

-----------------------------------------------------------------------------
(* Delivery.                                                               *)

\* The message delivered is the peer's, and the receiving end's numbers stay within what was sent.
LEMMA DeliverNumbers ==
    ASSUME IndInv, NEW e \in Ends, Deliver(e)
    PROVE  /\ rxNext[e] \in DOMAIN sent[Peer(e)]
           /\ sent[Peer(e)][rxNext[e]] \in Body
           /\ rxNext' \in [Ends -> 1 .. MaxSeq + 1]
           /\ hold' \in [Ends -> SUBSET (1 .. MaxSeq)]
           /\ \A f \in Ends : hold'[f] \subseteq hold[f] /\ rxNext'[f] <= Len(sent[Peer(f)]) + 1
<1>1. TypeOK /\ NumbersInv
  BY DEF IndInv, OneBehindHasAsked
<1>2. /\ rxNext[e] \in hold[e]
      /\ rxNext' = [rxNext EXCEPT ![e] = rxNext[e] + 1]
      /\ hold' = [hold EXCEPT ![e] = hold[e] \ {rxNext[e]}]
  BY DEF Deliver, Idle
<1>3. /\ Peer(e) \in Ends /\ sent[Peer(e)] \in Seq(Body) /\ Len(sent[Peer(e)]) \in Nat
      /\ Len(sent[Peer(e)]) <= MaxSeq
  BY <1>1, PeerFacts DEF NumbersInv, TypeOK
<1>4. rxNext[e] \in DOMAIN sent[Peer(e)]
  BY <1>1, <1>2 DEF NumbersInv
<1>5. rxNext[e] \in 1 .. Len(sent[Peer(e)])
  BY <1>3, <1>4
<1>6. sent[Peer(e)][rxNext[e]] \in Body
  BY <1>3, <1>4
<1>7. rxNext' \in [Ends -> 1 .. MaxSeq + 1] /\ hold' \in [Ends -> SUBSET (1 .. MaxSeq)]
  <2>1. rxNext[e] + 1 \in 1 .. MaxSeq + 1
    BY <1>3, <1>5, MaxSeqType
  <2>2. QED
    BY <1>1, <1>2, <2>1 DEF TypeOK
<1>8. \A f \in Ends : hold'[f] \subseteq hold[f] /\ rxNext'[f] <= Len(sent[Peer(f)]) + 1
  <2> SUFFICES ASSUME NEW f \in Ends PROVE hold'[f] \subseteq hold[f] /\ rxNext'[f] <= Len(sent[Peer(f)]) + 1
    OBVIOUS
  <2>1. CASE f = e
    BY <1>1, <1>2, <1>3, <1>5, <2>1 DEF TypeOK
  <2>2. CASE f # e
    BY <1>1, <1>2, <2>2 DEF TypeOK, NumbersInv
  <2>3. QED
    BY <2>1, <2>2
<1>9. QED
  BY <1>4, <1>6, <1>7, <1>8

\* A control message that is expected is for the next epoch, which its sender has reached or asked for.
LEMMA ExpectedFacts ==
    ASSUME IndInv, NEW e \in Ends, NEW body \in Body, Expected(e, body),
           NEW s \in DOMAIN sent[Peer(e)], sent[Peer(e)][s] = body
    PROVE  /\ body \in Control /\ body.target = epoch[e] + 1 /\ epoch[e] + 1 \in 2 .. MaxEpoch
           /\ \/ epoch[Peer(e)] = epoch[e] + 1
              \/ epoch[Peer(e)] = epoch[e] /\ body.kind = "RekeyRequest" /\ rekeyCb[Peer(e)]
<1>1. body \in Control /\ body.target = epoch[e] + 1 /\ epoch[e] + 1 \in 2 .. MaxEpoch
  BY BodyFacts DEF Expected
<1>2. s \in ControlSent(Peer(e)) /\ Peer(e) \in Ends
  BY PeerFacts DEF ControlSent, Expected
<1>3. epoch[e] \in Nat /\ epoch[Peer(e)] \in Nat
  BY <1>2 DEF IndInv, OneBehindHasAsked, TypeOK
<1>4. \/ body.target <= epoch[Peer(e)]
      \/ body.kind = "RekeyRequest" /\ body.target = epoch[Peer(e)] + 1 /\ rekeyCb[Peer(e)]
  BY <1>2 DEF IndInv, AskedInv
<1>5. epoch[e] < epoch[Peer(e)] => epoch[Peer(e)] = epoch[e] + 1
  BY DEF IndInv, OneBehindHasAsked
<1>6. QED
  BY <1>1, <1>3, <1>4, <1>5

\* An end that moves is then level with its peer, or ahead of a peer that asked.
LEMMA MoveKeepsClose ==
    ASSUME IndInv, NEW e \in Ends, epoch[e] + 1 \in 1 .. MaxEpoch, ApplyRekey(e),
           rekeyCb' \in [Ends -> BOOLEAN], rekeyCb'[Peer(e)] = rekeyCb[Peer(e)],
           \/ epoch[Peer(e)] = epoch[e] + 1
           \/ epoch[Peer(e)] = epoch[e] /\ rekeyCb[Peer(e)]
    PROVE  /\ epoch' \in [Ends -> 1 .. MaxEpoch] /\ grace' \in [Ends -> BOOLEAN]
           /\ epoch'[e] = epoch[e] + 1 /\ \A f \in Ends \ {e} : epoch'[f] = epoch[f]
           /\ \A f \in Ends : epoch'[f] < epoch'[Peer(f)] => epoch'[Peer(f)] = epoch'[f] + 1 /\ rekeyCb'[f]
<1>1. epoch \in [Ends -> 1 .. MaxEpoch] /\ grace \in [Ends -> BOOLEAN]
  BY DEF IndInv, OneBehindHasAsked, TypeOK
<1>2. epoch' \in [Ends -> 1 .. MaxEpoch] /\ grace' \in [Ends -> BOOLEAN]
  BY <1>1 DEF ApplyRekey, NextEpoch
<1>3. epoch'[e] = epoch[e] + 1 /\ \A f \in Ends \ {e} : epoch'[f] = epoch[f]
  BY <1>1 DEF ApplyRekey, NextEpoch
<1>4. Peer(e) \in Ends /\ Peer(e) # e /\ Peer(Peer(e)) = e /\ Ends = {e, Peer(e)}
  BY DEF Peer, Ends
<1>5. epoch[e] \in Nat /\ epoch[Peer(e)] \in Nat /\ epoch'[Peer(e)] = epoch[Peer(e)]
  BY <1>1, <1>3, <1>4
<1>6. ~(epoch'[e] < epoch'[Peer(e)])
  BY <1>3, <1>5
<1>7. epoch'[Peer(e)] < epoch'[e] => epoch'[e] = epoch'[Peer(e)] + 1 /\ rekeyCb'[Peer(e)]
  BY <1>3, <1>5
<1>8. QED
  BY <1>2, <1>3, <1>4, <1>6, <1>7

LEMMA TakeRequestInv ==
    ASSUME IndInv, NEW e \in Ends, Deliver(e), NEW body, body = sent[Peer(e)][rxNext[e]],
           Expected(e, body), body.kind = "RekeyRequest", TakeRequest(e, body)
    PROVE  IndInv'
<1> DEFINE b == [kind |-> "RekeyAck", target |-> body.target]
<1>1. TypeOK /\ NumbersInv /\ AskedInv
  BY DEF IndInv, OneBehindHasAsked
<1>2. /\ \/ UNCHANGED <<sent, out, wire>>
         \/ \E atOnce \in BOOLEAN : SendWire(e, b, atOnce)
      /\ ApplyRekey(e) /\ UNCHANGED rekeyCb
      /\ lateAck' \subseteq Ends
  BY <1>1 DEF TakeRequest, TypeOK
<1>3. /\ rxNext[e] \in DOMAIN sent[Peer(e)] /\ body \in Body
      /\ rxNext' \in [Ends -> 1 .. MaxSeq + 1] /\ hold' \in [Ends -> SUBSET (1 .. MaxSeq)]
      /\ \A f \in Ends : hold'[f] \subseteq hold[f] /\ rxNext'[f] <= Len(sent[Peer(f)]) + 1
  BY DeliverNumbers
<1>4. /\ body.target = epoch[e] + 1 /\ epoch[e] + 1 \in 2 .. MaxEpoch
      /\ \/ epoch[Peer(e)] = epoch[e] + 1
         \/ epoch[Peer(e)] = epoch[e] /\ rekeyCb[Peer(e)]
  BY <1>3, ExpectedFacts
<1>5. rekeyCb \in [Ends -> BOOLEAN] /\ epoch \in [Ends -> 1 .. MaxEpoch] /\ losses' = losses
  BY <1>1 DEF TypeOK, Deliver
<1>6. /\ epoch' \in [Ends -> 1 .. MaxEpoch] /\ grace' \in [Ends -> BOOLEAN]
      /\ epoch'[e] = epoch[e] + 1 /\ \A f \in Ends \ {e} : epoch'[f] = epoch[f]
      /\ \A f \in Ends : epoch'[f] < epoch'[Peer(f)] => epoch'[Peer(f)] = epoch'[f] + 1 /\ rekeyCb'[f]
  <2>1. epoch[e] + 1 \in 1 .. MaxEpoch
    BY <1>4
  <2>2. QED
    BY <1>2, <1>4, <1>5, <2>1, MoveKeepsClose
<1>7. b \in Body /\ b # Data /\ b.kind = "RekeyAck" /\ b.target = epoch[e] + 1
  <2>1. b \in Control
    BY <1>4 DEF Control
  <2>2. QED
    BY <1>4, <2>1, BodyFacts
<1> HIDE DEF b
<1>8. \A s \in ControlSent(e) : sent[e][s] # b
  BY <1>1, <1>5, <1>7 DEF AskedInv
<1>9. /\ sent' \in [Ends -> Seq(Body)]
      /\ \A f \in Ends : Len(sent'[f]) <= MaxSeq
      /\ \A f \in Ends : DOMAIN sent[f] \subseteq DOMAIN sent'[f] /\ Len(sent[f]) <= Len(sent'[f])
      /\ \A f \in Ends : \A s \in ControlSent(f)' :
            \/ s \in ControlSent(f) /\ sent'[f][s] = sent[f][s]
            \/ f = e /\ b # Data /\ sent'[f][s] = b
      /\ OnceInv'
      /\ wire' \subseteq Packet
      /\ \A p \in wire' : p.seq \in DOMAIN sent'[Peer(p.to)]
      /\ out' \in [Ends -> 0 .. MaxSeq] /\ \A f \in Ends : out'[f] <= Len(sent'[f])
  <2>1. CASE UNCHANGED <<sent, out, wire>>
    <3>1. \A f \in Ends : ControlSent(f)' = ControlSent(f) /\ OnceInv'
      BY <2>1 DEF ControlSent, DataSent, IndInv, OnceInv
    <3>2. \A f \in Ends : Len(sent[f]) <= Len(sent[f])
      BY <1>1 DEF NumbersInv
    <3>3. QED
      BY <1>1, <2>1, <3>1, <3>2 DEF TypeOK, NumbersInv
  <2>2. CASE \E atOnce \in BOOLEAN : SendWire(e, b, atOnce)
    BY <1>7, <1>8, <2>2, SendStep
  <2>3. QED
    BY <1>2, <2>1, <2>2
<1>10. NumbersInv'
  <2>1. ASSUME NEW f \in Ends
        PROVE  hold'[f] \subseteq DOMAIN sent'[Peer(f)] /\ rxNext'[f] <= Len(sent'[Peer(f)]) + 1
    <3>1. hold[f] \subseteq DOMAIN sent'[Peer(f)]
      BY <1>1, <1>9, ReceivedWithinSent
    <3>2. Peer(f) \in Ends /\ Len(sent[Peer(f)]) \in Nat /\ Len(sent'[Peer(f)]) \in Nat
      BY <1>1, <1>9, PeerFacts DEF NumbersInv
    <3>3. rxNext'[f] \in Nat /\ rxNext'[f] <= Len(sent[Peer(f)]) + 1 /\ Len(sent[Peer(f)]) <= Len(sent'[Peer(f)])
      BY <1>3, <1>9, <3>2, MaxSeqType
    <3>4. QED
      BY <1>3, <3>1, <3>2, <3>3
  <2>2. QED
    BY <1>9, <2>1 DEF NumbersInv
<1>11. AskedInv'
  <2> SUFFICES ASSUME NEW f \in Ends, NEW s \in ControlSent(f)'
               PROVE  \/ sent'[f][s].target <= epoch'[f]
                      \/ /\ sent'[f][s].kind = "RekeyRequest" /\ sent'[f][s].target = epoch'[f] + 1
                         /\ rekeyCb'[f]
    BY DEF AskedInv
  <2>1. epoch[f] \in Nat
    BY <1>5
  <2>2. CASE s \in ControlSent(f) /\ sent'[f][s] = sent[f][s]
    <3>1. \/ sent[f][s].target <= epoch[f]
          \/ sent[f][s].kind = "RekeyRequest" /\ sent[f][s].target = epoch[f] + 1 /\ rekeyCb[f]
      BY <1>1, <2>2 DEF AskedInv
    <3>2. sent[f][s] \in Control
      BY <1>1, <2>2, BodyFacts DEF ControlSent, NumbersInv
    <3>3. sent[f][s].target \in Nat
      BY <3>2, BodyFacts
    <3>4. CASE f = e
      BY <1>6, <2>1, <2>2, <3>1, <3>3, <3>4
    <3>5. CASE f # e
      BY <1>2, <1>6, <2>2, <3>1, <3>5
    <3>6. QED
      BY <3>4, <3>5
  <2>3. CASE f = e /\ sent'[f][s] = b
    BY <1>6, <1>7, <2>1, <2>3
  <2>4. QED
    BY <1>9, <2>2, <2>3
<1>12. TypeOK'
  BY <1>1, <1>2, <1>3, <1>5, <1>6, <1>9 DEF TypeOK
<1>13. QED
  BY <1>6, <1>9, <1>10, <1>11, <1>12 DEF IndInv, OneBehindHasAsked

LEMMA TakeAckInv ==
    ASSUME IndInv, NEW e \in Ends, Deliver(e), NEW body, body = sent[Peer(e)][rxNext[e]],
           Expected(e, body), body.kind = "RekeyAck", TakeAck(e)
    PROVE  IndInv'
<1>1. TypeOK /\ NumbersInv /\ AskedInv /\ OnceInv
  BY DEF IndInv, OneBehindHasAsked
<1>2. ApplyRekey(e) /\ rekeyCb' = [rekeyCb EXCEPT ![e] = FALSE] /\ UNCHANGED <<lateAck, sent, out, wire>>
  BY DEF TakeAck
<1>3. /\ rxNext[e] \in DOMAIN sent[Peer(e)] /\ body \in Body
      /\ rxNext' \in [Ends -> 1 .. MaxSeq + 1] /\ hold' \in [Ends -> SUBSET (1 .. MaxSeq)]
      /\ \A f \in Ends : hold'[f] \subseteq hold[f] /\ rxNext'[f] <= Len(sent[Peer(f)]) + 1
  BY DeliverNumbers
<1>4. epoch[e] + 1 \in 2 .. MaxEpoch /\ epoch[Peer(e)] = epoch[e] + 1
  BY <1>3, ExpectedFacts
<1>5. /\ rekeyCb \in [Ends -> BOOLEAN] /\ rekeyCb' \in [Ends -> BOOLEAN] /\ rekeyCb'[Peer(e)] = rekeyCb[Peer(e)]
      /\ epoch \in [Ends -> 1 .. MaxEpoch] /\ losses' = losses
      /\ \A f \in Ends \ {e} : rekeyCb'[f] = rekeyCb[f]
  BY <1>1, <1>2, PeerFacts DEF TypeOK, Deliver
<1>6. /\ epoch' \in [Ends -> 1 .. MaxEpoch] /\ grace' \in [Ends -> BOOLEAN]
      /\ epoch'[e] = epoch[e] + 1 /\ \A f \in Ends \ {e} : epoch'[f] = epoch[f]
      /\ \A f \in Ends : epoch'[f] < epoch'[Peer(f)] => epoch'[Peer(f)] = epoch'[f] + 1 /\ rekeyCb'[f]
  <2>1. epoch[e] + 1 \in 1 .. MaxEpoch
    BY <1>4
  <2>2. QED
    BY <1>2, <1>4, <1>5, <2>1, MoveKeepsClose
<1>7. \A f \in Ends : ControlSent(f)' = ControlSent(f) /\ DataSent(f)' = DataSent(f)
  BY <1>2 DEF ControlSent, DataSent
<1>8. OnceInv'
  BY <1>1, <1>2, <1>7 DEF OnceInv
<1>9. NumbersInv'
  BY <1>1, <1>2, <1>3 DEF NumbersInv
<1>10. AskedInv'
  <2> SUFFICES ASSUME NEW f \in Ends, NEW s \in ControlSent(f)
               PROVE  \/ sent[f][s].target <= epoch'[f]
                      \/ /\ sent[f][s].kind = "RekeyRequest" /\ sent[f][s].target = epoch'[f] + 1
                         /\ rekeyCb'[f]
    BY <1>2, <1>7 DEF AskedInv
  <2>1. \/ sent[f][s].target <= epoch[f]
        \/ sent[f][s].kind = "RekeyRequest" /\ sent[f][s].target = epoch[f] + 1 /\ rekeyCb[f]
    BY <1>1 DEF AskedInv
  <2>2. sent[f][s] \in Control
    BY <1>1, BodyFacts DEF ControlSent, NumbersInv
  <2>3. sent[f][s].target \in Nat /\ epoch[f] \in Nat
    BY <1>5, <2>2, BodyFacts
  <2>4. CASE f = e
    BY <1>6, <2>1, <2>3, <2>4
  <2>5. CASE f # e
    BY <1>5, <1>6, <2>1, <2>5
  <2>6. QED
    BY <2>4, <2>5
<1>11. TypeOK'
  BY <1>1, <1>2, <1>3, <1>5, <1>6 DEF TypeOK
<1>12. QED
  BY <1>6, <1>8, <1>9, <1>10, <1>11 DEF IndInv, OneBehindHasAsked

\* Data, and control for another epoch than the next, move nothing but the stream.
LEMMA IgnoreInv ==
    ASSUME IndInv, NEW e \in Ends, Deliver(e), UNCHANGED <<session, sent, out, wire>>
    PROVE  IndInv'
<1>1. TypeOK /\ NumbersInv
  BY DEF IndInv, OneBehindHasAsked
<1>2. /\ rxNext' \in [Ends -> 1 .. MaxSeq + 1] /\ hold' \in [Ends -> SUBSET (1 .. MaxSeq)]
      /\ \A f \in Ends : hold'[f] \subseteq hold[f] /\ rxNext'[f] <= Len(sent[Peer(f)]) + 1
  BY DeliverNumbers
<1>3. UNCHANGED <<epoch, grace, rekeyCb, lateAck, losses>>
  BY DEF session, Deliver
<1>4. TypeOK'
  BY <1>1, <1>2, <1>3 DEF TypeOK
<1>5. NumbersInv'
  BY <1>1, <1>2 DEF NumbersInv
<1>6. QED
  BY <1>3, <1>4, <1>5, SessionKept DEF IndInv, OneBehindHasAsked

LEMMA DeliverInv == ASSUME IndInv, NEW e \in Ends, Deliver(e) PROVE IndInv'
<1> DEFINE body == sent[Peer(e)][rxNext[e]]
<1>1. CASE Expected(e, body) /\ body.kind = "RekeyRequest" /\ TakeRequest(e, body)
  BY <1>1, TakeRequestInv
<1>2. CASE Expected(e, body) /\ body.kind = "RekeyAck" /\ TakeAck(e)
  BY <1>2, TakeAckInv
<1>3. CASE UNCHANGED <<session, sent, out, wire>>
  BY <1>3, IgnoreInv
<1>4. QED
  BY <1>1, <1>2, <1>3 DEF Deliver

-----------------------------------------------------------------------------
LEMMA NextInv == IndInv /\ [Next]_vars => IndInv'
<1> SUFFICES ASSUME IndInv, [Next]_vars PROVE IndInv'
  OBVIOUS
<1>1. ASSUME NEW e \in Ends, RequestSessionRekey(e) PROVE IndInv'
  BY <1>1, RequestSessionRekeyInv
<1>2. ASSUME NEW e \in Ends, SendData(e) PROVE IndInv'
  BY <1>2, SendDataInv
<1>3. ASSUME NEW e \in Ends, NEW s \in Outstanding(e), Resend(e, s) PROVE IndInv'
  BY <1>3, ResendInv
<1>4. ASSUME NEW e \in Ends, FlushQueued(e) PROVE IndInv'
  BY <1>4, FlushQueuedInv
<1>5. ASSUME NEW e \in Ends, Deliver(e) PROVE IndInv'
  BY <1>5, DeliverInv
<1>6. ASSUME NEW e \in Ends, GraceOver(e) PROVE IndInv'
  BY <1>6, GraceOverInv
<1>7. ASSUME NEW p \in wire, HandleDatagram(p) PROVE IndInv'
  BY <1>7, HandleDatagramInv
<1>8. ASSUME NEW p \in wire, Lose(p) PROVE IndInv'
  BY <1>8, LoseInv
<1>9. CASE UNCHANGED vars
  BY <1>9, QuietInv DEF vars, session, transport, IndInv, OneBehindHasAsked, TypeOK, NumbersInv
<1>10. QED
  BY <1>1, <1>2, <1>3, <1>4, <1>5, <1>6, <1>7, <1>8, <1>9 DEF Next

\* IndInv holds throughout.
THEOREM IndInvHolds == Spec => []IndInv
BY InitInv, NextInv, PTL DEF Spec

\* Both ends asking at once, acks and requests crossing, messages lost and resent: the ends are never more than one
\* epoch apart and the one behind awaits the answer to its own request (HandleSessionControl's target_epoch check).
THEOREM OneBehindHasAskedHolds == Spec => []OneBehindHasAsked
<1>1. IndInv => OneBehindHasAsked
  BY DEF IndInv
<1>2. QED
  BY <1>1, IndInvHolds, PTL
=============================================================================
