--------------------------- MODULE ChannelMuxProofs ---------------------------
(***************************************************************************)
(* ChannelMux: the data of a reliable channel comes in order and complete, *)
(* and a channel ends once.                                                *)
(***************************************************************************)
EXTENDS ChannelMux, WellFoundedInduction, FiniteSetTheorems, TLAPS

-----------------------------------------------------------------------------
(* Loops.                                                                  *)

\* A non-empty set of numbers has a least member.
LEMMA LeastNumber ==
    ASSUME NEW T, T \subseteq Nat, T # {}
    PROVE  \E x \in T : \A y \in T : x <= y
  <1>1. \E x \in T : \A y \in T : ~ (<<y, x>> \in OpToRel(<, Nat))
    BY NatLessThanWellFounded, WFMin
  <1>2. \A x, y \in Nat : x < y => <<x, y>> \in OpToRel(<, Nat)
    BY Zenon DEF OpToRel
  <1>3. PICK x \in T : \A y \in T : ~ (<<y, x>> \in OpToRel(<, Nat))
    BY <1>1
  <1>4. \A y \in T : ~ (y < x)
    BY <1>2, <1>3
  <1> QED
    BY <1>4

\* What holds at the start of a loop and is kept by each of its rounds holds
\* at its end.
LEMMA Rounds ==
    ASSUME NEW N \in Nat, NEW V, 0 \in V, \A n \in 1..N : n - 1 \in V => n \in V
    PROVE  N \in V
  <1> DEFINE U == {n \in 0..N : n \notin V}
  <1>1. ASSUME U # {}
        PROVE  FALSE
    <2>1. U \subseteq Nat
      OBVIOUS
    <2>2. PICK n \in U : \A k \in U : n <= k
      BY <1>1, <2>1, LeastNumber
    <2>3. n \in 1..N /\ n - 1 \in 0..N /\ ~(n <= n - 1)
      BY <2>2
    <2>4. n - 1 \in V
      BY <2>2, <2>3
    <2> QED
      BY <2>2, <2>3, <2>4
  <1> QED
    BY <1>1

\* Both ends, and the other end of each.
LEMMA PeerFacts ==
    /\ \A e \in Ends : Peer(e) \in Ends /\ Peer(e) # e /\ Peer(Peer(e)) = e
    /\ \A d, e \in Ends : d # e => d = Peer(e)
    /\ \A c \in Ids : Opener(c) \in Ends
  BY DEF Peer, Ends, Opener

-----------------------------------------------------------------------------
(* Sequences at their ends.                                                *)

LEMMA AppendRange ==
    ASSUME NEW S, NEW q \in Seq(S), NEW x \in S
    PROVE  Append(q, x) \in Seq(S) /\ Range(Append(q, x)) = Range(q) \cup {x}
  <1>1. /\ Append(q, x) \in Seq(S) /\ Len(q) \in Nat
        /\ DOMAIN q = 1 .. Len(q) /\ DOMAIN Append(q, x) = 1 .. Len(q) + 1
        /\ Append(q, x)[Len(q) + 1] = x /\ \A i \in 1 .. Len(q) : Append(q, x)[i] = q[i]
    OBVIOUS
  <1>2. \A i \in 1 .. Len(q) + 1 : i \in 1 .. Len(q) \/ i = Len(q) + 1
    BY <1>1
  <1>3. Len(q) + 1 \in 1 .. Len(q) + 1 /\ \A i \in 1 .. Len(q) : i \in 1 .. Len(q) + 1
    BY <1>1
  <1>4. Range(Append(q, x)) \subseteq Range(q) \cup {x}
    BY <1>1, <1>2 DEF Range
  <1>5. Range(q) \cup {x} \subseteq Range(Append(q, x))
    BY <1>1, <1>3 DEF Range
  <1> QED
    BY <1>1, <1>4, <1>5

LEMMA TailRange ==
    ASSUME NEW S, NEW q \in Seq(S), q # <<>>
    PROVE  /\ Tail(q) \in Seq(S) /\ Head(q) \in S
           /\ Range(q) = Range(Tail(q)) \cup {Head(q)}
  <1>1. /\ Head(q) = q[1] /\ Tail(q) \in Seq(S) /\ Len(q) \in Nat \ {0} /\ DOMAIN q = 1 .. Len(q)
        /\ DOMAIN Tail(q) = 1 .. Len(q) - 1 /\ \A i \in 1 .. Len(q) - 1 : Tail(q)[i] = q[i + 1]
    OBVIOUS
  <1>2. ASSUME NEW x \in Range(q)
        PROVE  x \in Range(Tail(q)) \cup {Head(q)}
    <2>1. PICK i \in 1 .. Len(q) : x = q[i]
      BY <1>1 DEF Range
    <2>2. CASE i = 1
      BY <1>1, <2>1, <2>2
    <2>3. CASE i # 1
      <3>1. i - 1 \in 1 .. Len(q) - 1 /\ Tail(q)[i - 1] = q[i]
        BY <1>1, <2>3
      <3> QED
        BY <1>1, <2>1, <3>1 DEF Range
    <2> QED
      BY <2>2, <2>3
  <1>3. ASSUME NEW x \in Range(Tail(q)) \cup {Head(q)}
        PROVE  x \in Range(q)
    <2>1. CASE x = Head(q)
      BY <1>1, <2>1 DEF Range
    <2>2. CASE x \in Range(Tail(q))
      <3>1. PICK i \in 1 .. Len(q) - 1 : x = Tail(q)[i]
        BY <1>1, <2>2 DEF Range
      <3>2. i + 1 \in 1 .. Len(q) /\ x = q[i + 1]
        BY <1>1, <3>1
      <3> QED
        BY <1>1, <3>2 DEF Range
    <2> QED
      BY <1>3, <2>1, <2>2
  <1> QED
    BY <1>1, <1>2, <1>3

LEMMA AppendOrdered ==
    ASSUME NEW S, NEW q \in Seq(S), NEW x \in S, Ordered(q), \A f \in Range(q) : Precedes(f, x)
    PROVE  Ordered(Append(q, x))
  <1>1. /\ Len(q) \in Nat /\ Len(Append(q, x)) = Len(q) + 1 /\ Append(q, x)[Len(q) + 1] = x
        /\ \A i \in 1 .. Len(q) : Append(q, x)[i] = q[i] /\ q[i] \in Range(q)
    BY DEF Range
  <1> QED
    BY <1>1 DEF Ordered

LEMMA TailOrdered ==
    ASSUME NEW S, NEW q \in Seq(S), q # <<>>, Ordered(q)
    PROVE  Ordered(Tail(q)) /\ \A f \in Range(Tail(q)) : Precedes(Head(q), f)
  <1>1. /\ Head(q) = q[1] /\ Tail(q) \in Seq(S) /\ Len(q) \in Nat \ {0} /\ Len(Tail(q)) = Len(q) - 1
        /\ DOMAIN Tail(q) = 1 .. Len(q) - 1 /\ \A i \in 1 .. Len(q) - 1 : Tail(q)[i] = q[i + 1]
    OBVIOUS
  <1>2. ASSUME NEW f \in Range(Tail(q))
        PROVE  Precedes(Head(q), f)
    <2>1. PICK i \in 1 .. Len(q) - 1 : f = Tail(q)[i]
      BY <1>1 DEF Range
    <2>2. i + 1 \in 1 .. Len(q) /\ 1 \in 1 .. Len(q) /\ 1 < i + 1 /\ f = q[i + 1]
      BY <1>1, <2>1
    <2> QED
      BY <1>1, <2>2 DEF Ordered
  <1>3. ASSUME NEW i \in 1 .. Len(q) - 1, NEW k \in 1 .. Len(q) - 1, i < k
        PROVE  Precedes(Tail(q)[i], Tail(q)[k])
    <2>1. i + 1 \in 1 .. Len(q) /\ k + 1 \in 1 .. Len(q) /\ i + 1 < k + 1
      BY <1>1, <1>3
    <2> QED
      BY <1>1, <2>1 DEF Ordered
  <1> QED
    BY <1>1, <1>2, <1>3 DEF Ordered

LEMMA EmptyRange == Range(<<>>) = {} /\ Ordered(<<>>)
  BY DEF Range, Ordered

-----------------------------------------------------------------------------
(* Frames on their way.                                                    *)

\* The sending side u has the frames of t.
Same(t, u) == SideOK(u) /\ \A c \in Ids : InTransit(u, c) = InTransit(t, c)

LEMMA SameThen ==
    ASSUME NEW t, NEW u, NEW v, Same(t, u), Same(u, v)
    PROVE  Same(t, v)
  BY DEF Same

SideShape(t) ==
    t \in [queues : {t.queues}, order : {t.order}, bytes : {t.bytes}, wire : {t.wire}, air : {t.air}]

LEMMA QuietSide ==
    ASSUME NEW t, SideOK(t), NEW u, SideShape(u), u.order \in Seq(Ids),
           u.wire = t.wire, u.queues = t.queues, u.air = t.air
    PROVE  Same(t, u)
  BY DEF Same, SideOK, SideTypes, SideClasses, SideOrder, SideShape, InTransit

LEMMA SideFacts ==
    ASSUME NEW t, SideOK(t)
    PROVE  /\ SideShape(t) /\ t.order \in Seq(Ids)
           /\ t.wire \in Seq(Sendable) /\ t.queues \in [Ids -> Seq(Sendable)] /\ t.air \subseteq Sendable
           /\ \A c \in Ids : Range(t.queues[c]) \subseteq Sendable
           /\ Range(t.wire) \subseteq Sendable
  BY DEF SideOK, SideTypes, SideShape, Range

\* The first frame of a queue goes to the end of those in flight.
LEMMA MoveSide ==
    ASSUME NEW t, SideOK(t), NEW c \in Ids, NEW u, SideShape(u), u.order \in Seq(Ids), u.air = t.air,
           t.queues[c] # <<>>, u.wire = Append(t.wire, Head(t.queues[c])),
           u.queues = [t.queues EXCEPT ![c] = Tail(t.queues[c])]
    PROVE  Same(t, u)
  <1> DEFINE q == t.queues[c]
             x == Head(q)
             r == Tail(q)
  <1>1. q \in Seq(Sendable) /\ q # <<>> /\ t.wire \in Seq(Sendable) /\ t.queues \in [Ids -> Seq(Sendable)]
    BY SideFacts
  <1>2. r \in Seq(Sendable) /\ x \in Sendable /\ Range(q) = Range(r) \cup {x}
    <2> HIDE DEF q
    <2> QED
      BY <1>1, TailRange
  <1>3. u.wire \in Seq(Sendable) /\ Range(u.wire) = Range(t.wire) \cup {x}
    <2> HIDE DEF x
    <2> QED
      BY <1>1, <1>2, AppendRange DEF x
  <1>4. u.queues \in [Ids -> Seq(Sendable)] /\ u.queues[c] = r /\ \A d \in Ids \ {c} : u.queues[d] = t.queues[d]
    BY <1>1, <1>2
  <1>5. SideTypes(u)
    BY <1>3, <1>4, SideFacts DEF SideTypes, SideShape
  <1>6. /\ Ordered(t.wire) /\ Ordered(q)
        /\ \A d \in Ids : Ordered(t.queues[d]) /\ \A f \in Range(t.wire), g \in Range(t.queues[d]) : Precedes(f, g)
    BY DEF SideOK, SideOrder
  <1>7. /\ \A d \in Ids : \A f \in Range(t.queues[d]) : f.id = d /\ d \notin bestEffort
        /\ \A f \in Range(t.wire) : f.id \notin bestEffort
        /\ \A f \in t.air : f.id \in bestEffort
    BY DEF SideOK, SideClasses
  <1>8. Ordered(r) /\ \A f \in Range(r) : Precedes(x, f)
    <2> HIDE DEF q
    <2> QED
      BY <1>1, <1>6, TailOrdered
  <1>9. Ordered(u.wire)
    <2>1. \A f \in Range(t.wire) : Precedes(f, x)
      BY <1>2, <1>6
    <2> HIDE DEF x
    <2> QED
      BY <1>1, <1>2, <1>6, <2>1, AppendOrdered DEF x
  <1> HIDE DEF q, x, r
  <1>10. x.id = c /\ c \notin bestEffort /\ \A f \in Range(r) : f.id = c
    BY <1>2, <1>7 DEF q
  <1>11. SideClasses(u)
    BY <1>3, <1>4, <1>7, <1>10 DEF SideClasses
  <1>12. ASSUME NEW d \in Ids
         PROVE  Ordered(u.queues[d]) /\ \A f \in Range(u.wire), g \in Range(u.queues[d]) : Precedes(f, g)
    <2>1. CASE d = c
      <3>1. \A f \in Range(t.wire), g \in Range(r) : Precedes(f, g)
        BY <1>2, <1>6 DEF q
      <3> QED
        BY <1>3, <1>4, <1>8, <2>1, <3>1
    <2>2. CASE d # c
      <3>1. \A g \in Range(t.queues[d]) : Precedes(x, g)
        BY <1>7, <1>10, <2>2 DEF Precedes
      <3> QED
        BY <1>3, <1>4, <1>6, <2>2, <3>1
    <2> QED
      BY <2>1, <2>2
  <1>13. ASSUME NEW d \in Ids
         PROVE  InTransit(u, d) = InTransit(t, d)
    <2>1. CASE d = c
      BY <1>2, <1>3, <1>4, <2>1 DEF InTransit, q
    <2>2. CASE d # c
      BY <1>3, <1>4, <1>10, <2>2 DEF InTransit
    <2> QED
      BY <2>1, <2>2
  <1> QED
    BY <1>5, <1>9, <1>11, <1>12, <1>13 DEF Same, SideOK, SideOrder

LEMMA FlushOneSame ==
    ASSUME NEW t, SideOK(t), t.order # <<>>
    PROVE  Same(t, FlushOne(t))
  <1> DEFINE c == Head(t.order)
             q == t.queues[c]
             u == FlushOne(t)
  <1>1. c \in Ids /\ Tail(t.order) \in Seq(Ids) /\ Append(Tail(t.order), c) \in Seq(Ids)
    BY SideFacts
  <1>2. SideShape(t) /\ t.order \in Seq(Ids)
    BY SideFacts
  <1>3. CASE q = <<>>
    <2>1. /\ SideShape(u) /\ u.order = Tail(t.order)
          /\ u.wire = t.wire /\ u.queues = t.queues /\ u.air = t.air
      BY <1>2, <1>3 DEF FlushOne, SideShape
    <2> QED
      BY <1>1, <2>1, QuietSide
  <1>4. CASE q # <<>>
    <2>1. /\ SideShape(u) /\ u.order \in Seq(Ids) /\ u.air = t.air
          /\ u.wire = Append(t.wire, Head(q))
          /\ u.queues = [t.queues EXCEPT ![c] = Tail(q)]
      BY <1>1, <1>2, <1>4 DEF FlushOne, SideShape
    <2> HIDE DEF c, u
    <2> QED
      BY <1>1, <1>4, <2>1, MoveSide DEF u
  <1> QED
    BY <1>3, <1>4

\* A round of the loop in FlushQueued.
Flushed(t) == IF t.order # <<>> /\ HasReliableCredit(t) THEN FlushOne(t) ELSE t

LEMMA FlushedSame ==
    ASSUME NEW t, SideOK(t)
    PROVE  Same(t, Flushed(t))
  <1>1. Same(t, t)
    BY DEF Same
  <1> QED
    BY <1>1, FlushOneSame DEF Flushed

LEMMA FlushQueuedRuns ==
    ASSUME NEW t, Len(t.order) \in Nat
    PROVE  \E f : /\ FlushQueued(t) = f[Len(t.order) + Window]
                  /\ f[0] = t
                  /\ \A n \in 1 .. Len(t.order) + Window : f[n] = Flushed(f[n - 1])
  <1> DEFINE base == t
             Step(u, n) == Flushed(u)
             Runs(n, g) == g = [i \in 0 .. n |-> IF i = 0 THEN base ELSE Step(g[i - 1], i)]
             N == Len(t.order) + Window
             V == {n \in Nat : \E g : Runs(n, g)}
             f == CHOOSE g : Runs(N, g)
  <1>1. FlushQueued(t) = f[N]
    BY Zenon DEF FlushQueued, Flushed
  <1>2. N \in Nat
    BY ConstantsAssumption
  <1> HIDE DEF Step, base
  <1>3. 0 \in V
    <2>1. Runs(0, [i \in 0 .. 0 |-> base])
      OBVIOUS
    <2> QED
      BY <2>1
  <1>4. ASSUME NEW n \in 1 .. N, n - 1 \in V
        PROVE  n \in V
    <2>1. PICK g : Runs(n - 1, g)
      BY <1>4, Zenon
    <2> DEFINE y == Step(g[n - 1], n)
               h == [i \in 0 .. n |-> IF i = n THEN y ELSE g[i]]
    <2>2. \A i \in 0 .. (n - 1) : g[i] = IF i = 0 THEN base ELSE Step(g[i - 1], i)
      BY <2>1
    <2>3. n \in Nat \ {0}
      BY <1>2
    <2>4. \A i \in 0 .. n : h[i] = IF i = 0 THEN base ELSE Step(h[i - 1], i)
      BY <2>2, <2>3
    <2>5. Runs(n, h)
      BY <2>4
    <2> QED
      BY <2>3, <2>5
  <1>5. N \in V
    <2> HIDE DEF V, N
    <2> QED
      BY <1>2, <1>3, <1>4, Rounds
  <1>6. Runs(N, f)
    BY <1>5, Zenon
  <1> HIDE DEF f, N
  <1>7. f[0] = base /\ \A n \in 1 .. N : f[n] = Step(f[n - 1], n)
    BY <1>2, <1>6
  <1> QED
    BY <1>1, <1>7 DEF N, Step, base

\* FlushQueued moves frames and neither loses nor reorders any of a channel.
LEMMA FlushQueuedSame ==
    ASSUME NEW t, SideOK(t)
    PROVE  Same(t, FlushQueued(t))
  <1> DEFINE N == Len(t.order) + Window
  <1>1. N \in Nat /\ Len(t.order) \in Nat
    BY SideFacts, ConstantsAssumption
  <1>2. PICK f : /\ FlushQueued(t) = f[N]
                 /\ f[0] = t
                 /\ \A n \in 1 .. N : f[n] = Flushed(f[n - 1])
    BY <1>1, FlushQueuedRuns
  <1> DEFINE V == {n \in 0 .. N : Same(t, f[n])}
  <1> HIDE DEF N
  <1>3. 0 \in V
    <2>1. Same(t, t)
      BY DEF Same
    <2> QED
      BY <1>1, <1>2, <2>1
  <1>4. ASSUME NEW n \in 1 .. N, n - 1 \in V
        PROVE  n \in V
    <2>1. n \in 0 .. N /\ Same(t, f[n - 1]) /\ f[n] = Flushed(f[n - 1])
      BY <1>1, <1>2, <1>4
    <2>2. SideOK(f[n - 1])
      BY <2>1 DEF Same
    <2>3. Same(f[n - 1], f[n])
      BY <2>1, <2>2, FlushedSame
    <2> QED
      BY <2>1, <2>3, SameThen
  <1>5. N \in V
    <2> HIDE DEF V
    <2> QED
      BY <1>1, <1>3, <1>4, Rounds
  <1> QED
    BY <1>2, <1>5

-----------------------------------------------------------------------------
(* Sending and dropping.                                                   *)

LEMMA FrameFacts ==
    ASSUME NEW c \in Ids
    PROVE  /\ \A kind \in {"Open", "Reset", "Close"} :
                Frame(kind, c) \in Sendable /\ Frame(kind, c).kind = kind /\ Frame(kind, c).id = c
           /\ \A ok \in BOOLEAN :
                /\ OpenAck(c, ok) \in Sendable /\ OpenAck(c, ok).kind = "OpenAck" /\ OpenAck(c, ok).id = c
                /\ OpenAck(c, ok).ok = ok
           /\ \A seq, msg \in Nat \ {0} :
                /\ Data(c, seq, msg) \in Sendable /\ Data(c, seq, msg).kind = "Data" /\ Data(c, seq, msg).id = c
                /\ Data(c, seq, msg).seq = seq /\ Data(c, seq, msg).msg = msg
           /\ \A seq, msg \in Nat \ {0}, part \in {1, 2} :
                /\ Frag(c, seq, msg, part) \in Sendable /\ Frag(c, seq, msg, part).kind = "Frag"
                /\ Frag(c, seq, msg, part).id = c /\ Frag(c, seq, msg, part).seq = seq
                /\ Frag(c, seq, msg, part).msg = msg /\ Frag(c, seq, msg, part).part = part
  BY DEF Frame, OpenAck, Data, Frag, Sendable

LEMMA SendableFacts ==
    ASSUME NEW f \in Sendable
    PROVE  /\ f.id \in Ids /\ f.kind \in Frames
           /\ f.kind = "OpenAck" => f.ok \in BOOLEAN
           /\ IsData(f) => f.seq \in Nat \ {0} /\ f.msg \in Nat \ {0}
           /\ f.kind = "Frag" => f.part \in {1, 2}
  BY DEF Sendable, Frames, IsData

\* u is t with the frame f behind those of its channel.
Sends(t, f, u) ==
    /\ SideOK(u)
    /\ InTransit(u, f.id) = InTransit(t, f.id) \cup {f}
    /\ \A d \in Ids \ {f.id} : InTransit(u, d) = InTransit(t, d)

LEMMA AirSide ==
    ASSUME NEW t, SideOK(t), NEW f \in Sendable, f.id \in bestEffort, NEW u, SideShape(u),
           u.order = t.order, u.wire = t.wire, u.queues = t.queues, u.air = t.air \cup {f}
    PROVE  Sends(t, f, u)
  BY DEF Sends, SideOK, SideTypes, SideClasses, SideOrder, SideShape, InTransit

\* The frame f may be sent after those of its channel that are in transit.
Follows(f, S) == f.id \notin bestEffort => \A g \in S : Precedes(g, f)

LEMMA WireSide ==
    ASSUME NEW t, SideOK(t), NEW f \in Sendable, f.id \notin bestEffort, Follows(f, InTransit(t, f.id)),
           t.queues[f.id] = <<>>, NEW u, SideShape(u),
           u.order = t.order, u.wire = Append(t.wire, f), u.queues = t.queues, u.air = t.air
    PROVE  Sends(t, f, u)
  <1>1. t.wire \in Seq(Sendable) /\ f.id \in Ids
    BY SideFacts, SendableFacts
  <1>2. u.wire \in Seq(Sendable) /\ Range(u.wire) = Range(t.wire) \cup {f}
    BY <1>1, AppendRange
  <1>3. \A g \in Range(t.wire) : Precedes(g, f)
    BY DEF Follows, InTransit, Precedes
  <1>4. Ordered(u.wire)
    BY <1>1, <1>3, AppendOrdered DEF SideOK, SideOrder
  <1>5. \A d \in Ids : \A g \in Range(t.queues[d]) : d \in Ids \ {f.id} /\ g.id = d
    BY EmptyRange DEF SideOK, SideClasses
  <1>6. \A d \in Ids : \A g \in Range(u.queues[d]) : Precedes(f, g)
    BY <1>5 DEF Precedes
  <1>7. SideOrder(u)
    BY <1>2, <1>4, <1>6 DEF SideOK, SideOrder
  <1>8. SideClasses(u)
    BY <1>2 DEF SideOK, SideClasses
  <1>9. SideTypes(u)
    BY <1>2 DEF SideOK, SideTypes, SideShape
  <1>10. /\ InTransit(u, f.id) = InTransit(t, f.id) \cup {f}
         /\ \A d \in Ids \ {f.id} : InTransit(u, d) = InTransit(t, d)
    BY <1>2 DEF InTransit
  <1> QED
    BY <1>7, <1>8, <1>9, <1>10 DEF Sends, SideOK

LEMMA QueueSide ==
    ASSUME NEW t, SideOK(t), NEW f \in Sendable, f.id \notin bestEffort, Follows(f, InTransit(t, f.id)),
           NEW u, SideShape(u), u.order \in Seq(Ids), u.wire = t.wire, u.air = t.air,
           u.queues = [t.queues EXCEPT ![f.id] = Append(t.queues[f.id], f)]
    PROVE  Sends(t, f, u)
  <1> DEFINE c == f.id
             q == t.queues[c]
             r == u.queues[c]
  <1>1. c \in Ids /\ q \in Seq(Sendable) /\ t.queues \in [Ids -> Seq(Sendable)]
    BY SideFacts, SendableFacts
  <1>2. r = Append(q, f) /\ \A d \in Ids \ {c} : u.queues[d] = t.queues[d]
    BY <1>1
  <1>3. Ordered(q) /\ \A g \in Range(q) : Precedes(g, f)
    BY <1>1 DEF SideOK, SideOrder, Follows, InTransit, SideClasses
  <1>4. \A g \in Range(t.wire) : Precedes(g, f)
    BY DEF Follows, InTransit, Precedes
  <1>5. r \in Seq(Sendable) /\ Range(r) = Range(q) \cup {f} /\ Ordered(r)
    <2> HIDE DEF q, r
    <2> QED
      BY <1>1, <1>2, <1>3, AppendRange, AppendOrdered
  <1>6. u.queues \in [Ids -> Seq(Sendable)]
    BY <1>1, <1>5
  <1>7. SideTypes(u)
    BY <1>6 DEF SideOK, SideTypes, SideShape
  <1>8. SideClasses(u)
    <2>1. \A g \in Range(r) : g.id = c
      BY <1>1, <1>5 DEF SideOK, SideClasses
    <2> HIDE DEF r, c
    <2> QED
      BY <1>2, <2>1 DEF SideOK, SideClasses, r, c
  <1>9. SideOrder(u)
    <2>1. Ordered(r) /\ \A g \in Range(t.wire), h \in Range(r) : Precedes(g, h)
      BY <1>1, <1>4, <1>5 DEF SideOK, SideOrder
    <2> HIDE DEF r, c
    <2> QED
      BY <1>2, <2>1 DEF SideOK, SideOrder, r, c
  <1>10. InTransit(u, c) = InTransit(t, c) \cup {f}
    <2> HIDE DEF q, r
    <2> QED
      BY <1>5 DEF InTransit, q, r
  <1>11. \A d \in Ids \ {c} : InTransit(u, d) = InTransit(t, d)
    BY <1>2 DEF InTransit
  <1> QED
    BY <1>7, <1>8, <1>9, <1>10, <1>11 DEF Sends, SideOK

\* What SendWire does to the frames in transit: the frame is behind those of
\* its channel, or it was refused and nothing has changed.
Delivers(t, f, u) == IF QueueFull(t, f) THEN Same(t, u) ELSE Sends(t, f, u)

LEMMA SameSends ==
    ASSUME NEW t, NEW u, NEW v, NEW f \in Sendable, Same(t, u), Sends(u, f, v)
    PROVE  Sends(t, f, v)
  BY SendableFacts DEF Same, Sends

LEMMA SendWireDelivers ==
    ASSUME NEW t, SideOK(t), NEW f \in Sendable, Follows(f, InTransit(t, f.id))
    PROVE  Delivers(t, f, SendWire(t, f))
  <1> DEFINE u == FlushQueued(t)
             v == SendWire(t, f)
  <1>1. Same(t, u) /\ SideOK(u) /\ f.id \in Ids
    BY FlushQueuedSame, SendableFacts DEF Same
  <1>2. Follows(f, InTransit(u, f.id)) /\ SideShape(u) /\ u.order \in Seq(Ids)
    BY <1>1, SideFacts DEF Same
  <1>3. CASE f.id \in bestEffort
    <2>1. v = [t EXCEPT !.air = @ \cup {f}] /\ ~QueueFull(t, f)
      BY <1>3 DEF SendWire, QueueFull
    <2>2. /\ SideShape(v) /\ v.order = t.order /\ v.wire = t.wire /\ v.queues = t.queues
          /\ v.air = t.air \cup {f}
      BY <2>1, SideFacts DEF SideShape
    <2> HIDE DEF v
    <2> QED
      BY <1>3, <2>1, <2>2, AirSide DEF Delivers, v
  <1> HIDE DEF u
  <1>4. CASE f.id \notin bestEffort /\ ~Waits(u, f.id)
    <2>1. v = [u EXCEPT !.wire = Append(@, f)] /\ ~QueueFull(t, f) /\ u.queues[f.id] = <<>>
      BY <1>4 DEF SendWire, QueueFull, u, Waits
    <2> HIDE DEF v
    <2>2. /\ SideShape(v) /\ v.order = u.order /\ v.wire = Append(u.wire, f) /\ v.queues = u.queues
          /\ v.air = u.air
      BY <1>2, <2>1 DEF SideShape
    <2>3. Sends(u, f, v)
      BY <1>1, <1>2, <1>4, <2>1, <2>2, WireSide
    <2> QED
      BY <1>1, <2>1, <2>3, SameSends DEF Delivers, v
  <1>5. CASE f.id \notin bestEffort /\ Waits(u, f.id) /\ QueueFull(t, f)
    <2>1. v = u
      BY <1>5 DEF SendWire, u
    <2> QED
      BY <1>1, <1>5, <2>1 DEF Delivers
  <1>6. CASE f.id \notin bestEffort /\ Waits(u, f.id) /\ ~QueueFull(t, f)
    <2>1. v = Enqueued(u, f)
      BY <1>6 DEF SendWire, u
    <2> HIDE DEF v
    <2>2. /\ SideShape(v) /\ v.order \in Seq(Ids) /\ v.wire = u.wire /\ v.air = u.air
          /\ v.queues = [u.queues EXCEPT ![f.id] = Append(u.queues[f.id], f)]
      <3>1. PICK c : c = f.id
        OBVIOUS
      <3>2. PICK o : o = IF u.queues[c] = <<>> THEN Append(u.order, c) ELSE u.order
        OBVIOUS
      <3>3. o \in Seq(Ids)
        BY <1>1, <1>2, <3>1, <3>2
      <3>4. v = [u EXCEPT !.bytes = u.bytes + Size(f), !.queues = [u.queues EXCEPT ![c] = Append(u.queues[c], f)],
                          !.order = o]
        BY <1>2, <2>1, <3>1, <3>2 DEF SideShape, Enqueued
      <3> QED
        BY <1>2, <3>1, <3>3, <3>4 DEF SideShape
    <2>3. Sends(u, f, v)
      BY <1>1, <1>2, <1>6, <2>2, QueueSide
    <2> QED
      BY <1>1, <1>6, <2>3, SameSends DEF Delivers, v
  <1> QED
    BY <1>3, <1>4, <1>5, <1>6

\* The frames S of a channel when the end that sent them drops what it still
\* can: no frame is left without those before it.
CutFrames(S, U) ==
    /\ \A f \in U : f \in S \/ f.kind = "Reset"
    /\ \A f \in S, g \in U : Ranked(f) /\ Ranked(g) /\ Rank(f) < Rank(g) => f \in U

\* u is t after the channels in R were ended.
Cuts(t, R, u) ==
    /\ SideOK(u)
    /\ \A c \in Ids : CutFrames(InTransit(t, c), InTransit(u, c))
    /\ \A c \in Ids \ R : InTransit(u, c) = InTransit(t, c)

LEMMA CutThenCut ==
    ASSUME NEW t, NEW u, NEW v, NEW R, Cuts(t, R, u), Cuts(u, R, v)
    PROVE  Cuts(t, R, v)
  BY DEF Cuts, CutFrames, Ranked

LEMMA SameCuts ==
    ASSUME NEW t, NEW u, NEW R, Same(t, u)
    PROVE  Cuts(t, R, u)
  BY DEF Same, Cuts, CutFrames

\* Frames that do not count in the order of their channel, sent or not.
LEMMA ResetSent ==
    ASSUME NEW t, SideOK(t), NEW c \in Ids
    PROVE  Cuts(t, {c}, SendWire(t, Frame("Reset", c)))
  <1> DEFINE f == Frame("Reset", c)
             u == SendWire(t, f)
  <1>1. f \in Sendable /\ f.kind = "Reset" /\ f.id = c
    BY FrameFacts
  <1>2. Follows(f, InTransit(t, f.id))
    BY <1>1 DEF Follows, Precedes, Ranked
  <1> HIDE DEF f
  <1>3. Delivers(t, f, u)
    BY <1>1, <1>2, SendWireDelivers
  <1> HIDE DEF u
  <1>4. CASE QueueFull(t, f)
    BY <1>3, <1>4, SameCuts DEF Delivers, u, f
  <1>5. CASE ~QueueFull(t, f)
    <2>1. /\ SideOK(u) /\ InTransit(u, c) = InTransit(t, c) \cup {f}
          /\ \A d \in Ids \ {c} : InTransit(u, d) = InTransit(t, d)
      BY <1>1, <1>3, <1>5 DEF Delivers, Sends
    <2>2. \A d \in Ids : CutFrames(InTransit(t, d), InTransit(u, d))
      BY <1>1, <2>1 DEF CutFrames, Ranked
    <2>3. Cuts(t, {c}, u)
      BY <2>1, <2>2 DEF Cuts
    <2> QED
      BY <2>3 DEF u, f
  <1> QED
    BY <1>4, <1>5

LEMMA RankNat ==
    ASSUME NEW f \in Sendable
    PROVE  Rank(f) \in Nat
  BY SendableFacts DEF Rank

\* Queues are emptied, what is in flight stays.
LEMMA DropSide ==
    ASSUME NEW t, SideOK(t), NEW R \in SUBSET Ids, NEW u, SideShape(u), u.order \in Seq(Ids), u.wire = t.wire,
           u.air = t.air, u.queues = [c \in Ids |-> IF c \in R THEN <<>> ELSE t.queues[c]]
    PROVE  Cuts(t, R, u)
  <1>1. /\ t.queues \in [Ids -> Seq(Sendable)] /\ Range(t.wire) \subseteq Sendable
        /\ \A c \in Ids : Range(t.queues[c]) \subseteq Sendable
    BY SideFacts
  <1>2. /\ \A c \in R : u.queues[c] = <<>> /\ Range(u.queues[c]) = {} /\ Ordered(u.queues[c])
        /\ \A c \in Ids \ R : u.queues[c] = t.queues[c]
    BY EmptyRange
  <1>3. u.queues \in [Ids -> Seq(Sendable)]
    BY <1>1
  <1>4. SideOK(u)
    BY <1>2, <1>3 DEF SideOK, SideTypes, SideClasses, SideOrder, SideShape
  <1>5. \A c \in Ids \ R : InTransit(u, c) = InTransit(t, c)
    BY <1>2 DEF InTransit
  <1>6. ASSUME NEW c \in R
        PROVE  CutFrames(InTransit(t, c), InTransit(u, c))
    <2>1. InTransit(u, c) = {f \in Range(t.wire) \cup t.air : f.id = c}
      BY <1>2 DEF InTransit
    <2>2. ASSUME NEW f \in InTransit(t, c), NEW g \in InTransit(u, c), Ranked(f), Ranked(g), Rank(f) < Rank(g)
          PROVE  f \in InTransit(u, c)
      <3>1. CASE f \in Range(t.queues[c])
        <4>1. c \notin bestEffort /\ f.id = c /\ g.id = c /\ g \in Range(t.wire)
          BY <2>1, <2>2, <3>1 DEF SideOK, SideClasses
        <4>2. Precedes(g, f)
          BY <3>1, <4>1 DEF SideOK, SideOrder
        <4>3. Rank(g) < Rank(f) /\ Rank(g) \in Nat /\ Rank(f) \in Nat
          BY <1>1, <2>2, <3>1, <4>1, <4>2, RankNat DEF Precedes
        <4> QED
          BY <2>2, <4>3
      <3>2. CASE f \notin Range(t.queues[c])
        BY <2>1, <2>2, <3>2 DEF InTransit
      <3> QED
        BY <3>1, <3>2
    <2>3. InTransit(u, c) \subseteq InTransit(t, c)
      BY <2>1 DEF InTransit
    <2> QED
      BY <2>2, <2>3 DEF CutFrames
  <1>7. \A c \in Ids \ R : CutFrames(InTransit(t, c), InTransit(u, c))
    BY <1>5 DEF CutFrames
  <1> QED
    BY <1>4, <1>5, <1>6, <1>7 DEF Cuts

LEMMA DropQueuedCuts ==
    ASSUME NEW t, SideOK(t), NEW c \in Ids
    PROVE  Cuts(t, {c}, DropQueued(t, c))
  <1> DEFINE u == DropQueued(t, c)
  <1>1. PICK b : b = t.bytes - QueuedSize(t.queues[c])
    OBVIOUS
  <1>2. SideShape(t) /\ t.order \in Seq(Ids) /\ t.queues \in [Ids -> Seq(Sendable)]
    BY SideFacts
  <1>3. u = [t EXCEPT !.queues = [t.queues EXCEPT ![c] = <<>>], !.bytes = b]
    BY <1>1, <1>2 DEF DropQueued, SideShape
  <1>4. /\ SideShape(u) /\ u.order = t.order /\ u.wire = t.wire /\ u.air = t.air
        /\ u.queues = [t.queues EXCEPT ![c] = <<>>]
    BY <1>2, <1>3 DEF SideShape
  <1> HIDE DEF u
  <1>5. u.queues = [d \in Ids |-> IF d \in {c} THEN <<>> ELSE t.queues[d]]
    BY <1>2, <1>4
  <1>6. Cuts(t, {c}, u)
    BY <1>2, <1>4, <1>5, DropSide
  <1> QED
    BY <1>6 DEF u

\* ResetChannel on the sending side.
ResetSide(t, c) == SendWire(DropQueued(t, c), Frame("Reset", c))

LEMMA ResetCuts ==
    ASSUME NEW t, SideOK(t), NEW c \in Ids
    PROVE  Cuts(t, {c}, ResetSide(t, c))
  <1> DEFINE u == DropQueued(t, c)
  <1>1. Cuts(t, {c}, u)
    BY DropQueuedCuts
  <1>2. SideOK(u)
    BY <1>1 DEF Cuts
  <1> HIDE DEF u
  <1>3. Cuts(u, {c}, SendWire(u, Frame("Reset", c)))
    BY <1>2, ResetSent
  <1> QED
    BY <1>1, <1>3, CutThenCut DEF ResetSide, u

LEMMA ResetInTurnRuns ==
    ASSUME NEW t, NEW idle, Len(idle) \in Nat
    PROVE  \E f : /\ ResetInTurn(t, idle) = f[Len(idle)]
                  /\ f[0] = t
                  /\ \A n \in 1 .. Len(idle) : f[n] = ResetSide(f[n - 1], idle[n])
  <1> DEFINE base == t
             Step(u, n) == ResetSide(u, idle[n])
             Runs(n, g) == g = [i \in 0 .. n |-> IF i = 0 THEN base ELSE Step(g[i - 1], i)]
             N == Len(idle)
             V == {n \in Nat : \E g : Runs(n, g)}
             f == CHOOSE g : Runs(N, g)
  <1>1. ResetInTurn(t, idle) = f[N]
    BY Zenon DEF ResetInTurn, ResetSide
  <1>2. N \in Nat
    OBVIOUS
  <1> HIDE DEF Step, base
  <1>3. 0 \in V
    <2>1. Runs(0, [i \in 0 .. 0 |-> base])
      OBVIOUS
    <2> QED
      BY <2>1
  <1>4. ASSUME NEW n \in 1 .. N, n - 1 \in V
        PROVE  n \in V
    <2>1. PICK g : Runs(n - 1, g)
      BY <1>4, Zenon
    <2> DEFINE y == Step(g[n - 1], n)
               h == [i \in 0 .. n |-> IF i = n THEN y ELSE g[i]]
    <2>2. \A i \in 0 .. (n - 1) : g[i] = IF i = 0 THEN base ELSE Step(g[i - 1], i)
      BY <2>1
    <2>3. n \in Nat \ {0}
      BY <1>2
    <2>4. \A i \in 0 .. n : h[i] = IF i = 0 THEN base ELSE Step(h[i - 1], i)
      BY <2>2, <2>3
    <2>5. Runs(n, h)
      BY <2>4
    <2> QED
      BY <2>3, <2>5
  <1>5. N \in V
    <2> HIDE DEF V, N
    <2> QED
      BY <1>2, <1>3, <1>4, Rounds
  <1>6. Runs(N, f)
    BY <1>5, Zenon
  <1> HIDE DEF f, N
  <1>7. f[0] = base /\ \A n \in 1 .. N : f[n] = Step(f[n - 1], n)
    BY <1>2, <1>6
  <1> QED
    BY <1>1, <1>7 DEF N, Step, base

\* A cut of fewer channels.
LEMMA CutsMore ==
    ASSUME NEW t, NEW u, NEW Q, NEW R, Q \subseteq R, Cuts(t, Q, u)
    PROVE  Cuts(t, R, u)
  BY DEF Cuts

LEMMA ResetInTurnCuts ==
    ASSUME NEW t, SideOK(t), NEW idle \in Seq(Ids)
    PROVE  Cuts(t, Range(idle), ResetInTurn(t, idle))
  <1> DEFINE N == Len(idle)
             R == Range(idle)
  <1>1. N \in Nat /\ \A n \in 1 .. N : idle[n] \in Ids /\ idle[n] \in R
    BY DEF Range
  <1>2. PICK f : /\ ResetInTurn(t, idle) = f[N]
                 /\ f[0] = t
                 /\ \A n \in 1 .. N : f[n] = ResetSide(f[n - 1], idle[n])
    BY <1>1, ResetInTurnRuns
  <1> DEFINE V == {n \in 0 .. N : Cuts(t, R, f[n])}
  <1> HIDE DEF N, R
  <1>3. 0 \in V
    <2>1. Same(t, t)
      BY DEF Same
    <2> QED
      BY <1>1, <1>2, <2>1, SameCuts
  <1>4. ASSUME NEW n \in 1 .. N, n - 1 \in V
        PROVE  n \in V
    <2>1. n \in 0 .. N /\ Cuts(t, R, f[n - 1]) /\ f[n] = ResetSide(f[n - 1], idle[n]) /\ idle[n] \in Ids
      BY <1>1, <1>2, <1>4
    <2>2. SideOK(f[n - 1])
      BY <2>1 DEF Cuts
    <2>3. Cuts(f[n - 1], {idle[n]}, f[n])
      BY <2>1, <2>2, ResetCuts
    <2>4. Cuts(f[n - 1], R, f[n])
      BY <1>1, <2>3, CutsMore
    <2> QED
      BY <2>1, <2>4, CutThenCut
  <1>5. N \in V
    <2> HIDE DEF V
    <2> QED
      BY <1>1, <1>3, <1>4, Rounds
  <1> QED
    BY <1>2, <1>5 DEF R

\* The sending side of an end after Tick.
LEMMA TickCuts ==
    ASSUME NEW t, SideOK(t), NEW idle \in Seq(Ids)
    PROVE  Cuts(t, Range(idle), FlushQueued(ResetInTurn(t, idle)))
  <1> DEFINE u == ResetInTurn(t, idle)
  <1>1. Cuts(t, Range(idle), u)
    BY ResetInTurnCuts
  <1> HIDE DEF u
  <1>2. SideOK(u)
    BY <1>1 DEF Cuts
  <1>3. Same(u, FlushQueued(u))
    BY <1>2, FlushQueuedSame
  <1> QED
    BY <1>1, <1>3, SameCuts, CutThenCut DEF u

\* u is t without the frame f, which came out: of a reliable channel it is
\* the first.
Taken(t, f, u) ==
    /\ SideOK(u) /\ f \in Sendable
    /\ InTransit(t, f.id) = InTransit(u, f.id) \cup {f}
    /\ Ranked(f) => f \notin InTransit(u, f.id)
    /\ f.id \notin bestEffort => \A g \in InTransit(u, f.id) : Precedes(f, g)
    /\ \A d \in Ids \ {f.id} : InTransit(u, d) = InTransit(t, d)

LEMMA HeadTaken ==
    ASSUME NEW t, SideOK(t), t.wire # <<>>
    PROVE  Taken(t, Head(t.wire), [t EXCEPT !.wire = Tail(@)])
  <1> DEFINE f == Head(t.wire)
             w == Tail(t.wire)
             u == [t EXCEPT !.wire = Tail(@)]
  <1>1. t.wire \in Seq(Sendable) /\ SideShape(t) /\ Ordered(t.wire) /\ t.order \in Seq(Ids)
    BY SideFacts DEF SideOK, SideOrder
  <1>2. w \in Seq(Sendable) /\ f \in Sendable /\ Range(t.wire) = Range(w) \cup {f}
    BY <1>1, TailRange
  <1>3. Ordered(w) /\ \A g \in Range(w) : Precedes(f, g)
    BY <1>1, TailOrdered
  <1>4. /\ SideShape(u) /\ u.wire = w /\ u.queues = t.queues /\ u.air = t.air /\ u.order = t.order
    BY <1>1 DEF SideShape
  <1> HIDE DEF f, w, u
  <1>5. SideOK(u)
    BY <1>2, <1>3, <1>4 DEF SideOK, SideTypes, SideClasses, SideOrder, SideShape
  <1>6. f.id \in Ids /\ f.id \notin bestEffort /\ Rank(f) \in Nat
    BY <1>2, SendableFacts, RankNat DEF SideOK, SideClasses
  <1>7. \A g \in InTransit(u, f.id) : Precedes(f, g)
    <2>1. \A g \in Range(t.queues[f.id]) : Precedes(f, g)
      BY <1>2, <1>6 DEF SideOK, SideOrder
    <2>2. \A g \in t.air : g.id # f.id
      BY <1>6 DEF SideOK, SideClasses
    <2> QED
      BY <1>3, <1>4, <2>1, <2>2 DEF InTransit
  <1>8. Ranked(f) => f \notin InTransit(u, f.id)
    BY <1>6, <1>7 DEF Precedes
  <1>9. /\ InTransit(t, f.id) = InTransit(u, f.id) \cup {f}
        /\ \A d \in Ids \ {f.id} : InTransit(u, d) = InTransit(t, d)
    BY <1>2, <1>4 DEF InTransit
  <1>10. Taken(t, f, u)
    BY <1>2, <1>5, <1>7, <1>8, <1>9 DEF Taken
  <1> QED
    BY <1>10 DEF f, u

LEMMA AirTaken ==
    ASSUME NEW t, SideOK(t), NEW f \in t.air
    PROVE  Taken(t, f, [t EXCEPT !.air = @ \ {f}])
  <1> DEFINE u == [t EXCEPT !.air = @ \ {f}]
  <1>1. SideShape(t) /\ f \in Sendable /\ t.order \in Seq(Ids)
    BY SideFacts
  <1>2. /\ SideShape(u) /\ u.wire = t.wire /\ u.queues = t.queues /\ u.air = t.air \ {f} /\ u.order = t.order
    BY <1>1 DEF SideShape
  <1> HIDE DEF u
  <1>3. SideOK(u)
    BY <1>2 DEF SideOK, SideTypes, SideClasses, SideOrder, SideShape
  <1>4. f.id \in Ids /\ f.id \in bestEffort
    BY <1>1, SendableFacts DEF SideOK, SideClasses
  <1>5. Range(t.wire) \cup Range(t.queues[f.id]) \subseteq {g \in Sendable : g.id # f.id \/ g.id \notin bestEffort}
    BY <1>4, SideFacts DEF SideOK, SideClasses
  <1>6. f \notin InTransit(u, f.id)
    BY <1>2, <1>4, <1>5 DEF InTransit
  <1>7. /\ InTransit(t, f.id) = InTransit(u, f.id) \cup {f}
        /\ \A d \in Ids \ {f.id} : InTransit(u, d) = InTransit(t, d)
    BY <1>2 DEF InTransit
  <1>8. Taken(t, f, u)
    BY <1>1, <1>3, <1>4, <1>6, <1>7 DEF Taken
  <1> QED
    BY <1>8 DEF u

-----------------------------------------------------------------------------
(* The data from one end of a reliable channel to the other.               *)

FlowTypes(S, from, to, count, msgs, given) ==
    /\ S \subseteq Sendable
    /\ from \in Records \cup {None} /\ to \in Records \cup {None}
    /\ count \in Nat /\ msgs \in Seq(Nat) /\ given \in Seq(Nat)

LEMMA RecordFacts ==
    /\ \A r \in Records :
        /\ r # None /\ r.state \in {"Opening", "Open", "Closing"}
        /\ r.tx \in Nat \ {0} /\ r.rx \in Nat \ {0} /\ r.partial \in Seq((Nat \ {0}) \X {1, 2})
    /\ None.state = "None"
  BY DEF Records, None

LEMMA DataFacts ==
    ASSUME NEW S, S \subseteq Sendable
    PROVE  \A f \in DataOf(S) :
                /\ f.seq \in Nat \ {0} /\ f.msg \in Nat \ {0} /\ IsData(f) /\ f \in S
                /\ Rank(f) = f.seq /\ Ranked(f) /\ (f.kind = "Data" \/ (f.kind = "Frag" /\ f.part \in {1, 2}))
  BY SendableFacts DEF DataOf, IsData, Rank, Ranked

\* Steps that touch no data frame.
LEMMA FlowSame ==
    ASSUME NEW S, NEW from, NEW to, NEW count, NEW msgs, NEW given, NEW closed, NEW lost,
           NEW U, NEW from1, NEW to1, NEW count1, NEW closed1, NEW lost1,
           FlowTypes(S, from, to, count, msgs, given), count1 \in Nat, count <= count1,
           Flow(S, from, to, count, msgs, given, closed, lost),
           DataOf(U) = DataOf(S),
           from1 # None => from # None /\ from1.tx = from.tx,
           Listens(U, to1) => Listens(S, to) /\ to1.rx = to.rx,
           ~lost1 /\ Listens(U, to1) => Range(to1.partial) = Range(to.partial),
           ~closed1 => ~closed, ~lost1 => ~lost
    PROVE  Flow(U, from1, to1, count1, msgs, given, closed1, lost1)
  <1> DEFINE D == DataOf(S)
  <1>1. \A f \in D : f.seq \in Nat /\ f.msg \in Nat
    BY DataFacts DEF FlowTypes
  <1>2. /\ Numbered(D, from, count, msgs)
        /\ Listens(S, to) => Ahead(D, from, to)
        /\ Listens(S, to) /\ ~closed => NoGap(D, from, to)
        /\ Listens(S, to) /\ ~lost => Complete(D, from, to, msgs, given)
        /\ ~lost => Begins(given, msgs)
    BY DEF Flow
  <1>3. count \in Nat /\ \A j \in 1 .. Len(msgs) : msgs[j] \in Nat
    BY DEF FlowTypes
  <1> HIDE DEF D
  <1>4. Numbered(D, from1, count1, msgs)
    BY <1>1, <1>2, <1>3 DEF Numbered
  <1>5. Listens(U, to1) => Ahead(D, from1, to1)
    BY <1>2 DEF Ahead
  <1>6. Listens(U, to1) => \A n : Linked(D, to1, n) = Linked(D, to, n)
    BY DEF Linked
  <1>7. Listens(U, to1) /\ ~closed1 => NoGap(D, from1, to1)
    BY <1>2, <1>6 DEF NoGap
  <1>8. Listens(U, to1) /\ ~lost1 => Complete(D, from1, to1, msgs, given)
    BY <1>2, <1>6 DEF Complete
  <1> QED
    BY <1>2, <1>4, <1>5, <1>7, <1>8 DEF Flow, D

\* A direction in which nothing has been sent.
LEMMA FlowFresh ==
    ASSUME NEW S, NEW from, NEW to, NEW count, NEW msgs, NEW given, NEW closed, NEW lost,
           FlowTypes(S, from, to, count, msgs, given),
           DataOf(S) = {}, msgs = <<>>, given = <<>>,
           Listens(S, to) =>
                to.rx = 1 /\ to.partial = <<>> /\ (from # None => from.tx = 1 \/ closed)
    PROVE  Flow(S, from, to, count, msgs, given, closed, lost)
  <1> DEFINE D == DataOf(S)
  <1>1. D = {} /\ Len(msgs) = 0 /\ Len(given) = 0
    OBVIOUS
  <1>2. Numbered(D, from, count, msgs)
    BY <1>1 DEF Numbered
  <1>3. from # None => from.tx \in Nat \ {0}
    BY RecordFacts DEF FlowTypes
  <1>4. Listens(S, to) => Ahead(D, from, to)
    BY <1>1, <1>3 DEF Ahead
  <1>5. Listens(S, to) /\ ~closed => NoGap(D, from, to)
    BY <1>1 DEF NoGap, Linked
  <1>6. Listens(S, to) => Complete(D, from, to, msgs, given)
    BY <1>1, EmptyRange DEF Complete
  <1>7. Begins(given, msgs)
    BY <1>1 DEF Begins
  <1> QED
    BY <1>2, <1>4, <1>5, <1>6, <1>7 DEF Flow

\* The sender ends the channel and drops what it still can.
LEMMA FlowCut ==
    ASSUME NEW S, NEW from, NEW to, NEW count, NEW msgs, NEW given, NEW closed, NEW lost, NEW U,
           FlowTypes(S, from, to, count, msgs, given), U \subseteq Sendable,
           Flow(S, from, to, count, msgs, given, closed, lost),
           CutFrames(S, U)
    PROVE  Flow(U, None, to, count, msgs, given, closed, lost)
  <1> DEFINE D == DataOf(S)
             E == DataOf(U)
  <1>1. \A f \in D : f.seq \in Nat /\ f.msg \in Nat /\ f \in S /\ Rank(f) = f.seq /\ Ranked(f)
    BY DataFacts DEF FlowTypes
  <1>2. /\ Numbered(D, from, count, msgs)
        /\ Listens(S, to) => Ahead(D, from, to)
        /\ Listens(S, to) /\ ~closed => NoGap(D, from, to)
        /\ Listens(S, to) /\ ~lost => Complete(D, from, to, msgs, given)
        /\ ~lost => Begins(given, msgs)
    BY DEF Flow
  <1>3. E \subseteq D /\ (HasKind(U, "OpenAck") => HasKind(S, "OpenAck"))
    BY DEF CutFrames, DataOf, IsData, HasKind
  <1>4. Listens(U, to) => Listens(S, to)
    BY <1>3 DEF Listens
  <1>5. \A f \in D, g \in E : f.seq < g.seq => f \in E
    BY <1>1, <1>3 DEF CutFrames, DataOf
  <1>6. Numbered(E, None, count, msgs)
    BY <1>2, <1>3 DEF Numbered
  <1>7. to # None => to.rx \in Nat
    BY RecordFacts DEF FlowTypes
  <1>8. \A j \in 1 .. Len(msgs) : msgs[j] \in Nat
    BY DEF FlowTypes
  <1> HIDE DEF D, E
  <1>9. Listens(U, to) => Ahead(E, None, to)
    BY <1>2, <1>3, <1>4 DEF Ahead
  <1>10. ASSUME NEW g \in E
         PROVE  /\ Linked(E, to, g.seq) => Linked(D, to, g.seq)
                /\ to # None /\ Linked(D, to, g.seq) => Linked(E, to, g.seq)
    BY <1>1, <1>3, <1>5, <1>7 DEF Linked
  <1>11. Listens(U, to) /\ ~closed => NoGap(E, None, to)
    BY <1>2, <1>3, <1>4, <1>10 DEF NoGap, Listens
  <1>12. ASSUME Listens(U, to), ~lost
         PROVE  Complete(E, None, to, msgs, given)
    <2>1. Complete(D, from, to, msgs, given)
      BY <1>2, <1>4, <1>12
    <2>2. ASSUME NEW f \in E, Linked(E, to, f.seq), NEW j \in 1 .. Len(msgs), j > Len(given), msgs[j] < f.msg
          PROVE  Pending(E, msgs[j])
      <3>1. PICK g \in D : Completes(g) /\ g.msg = msgs[j]
        BY <1>3, <1>10, <2>1, <2>2 DEF Complete, Pending
      <3>2. g.seq < f.seq
        BY <1>1, <1>2, <1>3, <1>8, <2>2, <3>1 DEF Numbered
      <3> QED
        BY <1>5, <3>1, <3>2 DEF Pending
    <2>3. ASSUME NEW f \in E, Part(f, 2), Linked(E, to, f.seq)
          PROVE  \/ \E p \in Range(to.partial) : p[1] = f.msg
                 \/ \E g \in E : Part(g, 1) /\ g.msg = f.msg
      <3>1. \/ \E p \in Range(to.partial) : p[1] = f.msg
            \/ \E g \in D : Part(g, 1) /\ g.msg = f.msg
        BY <1>3, <1>10, <2>1, <2>3 DEF Complete
      <3>2. ASSUME NEW g \in D, Part(g, 1), g.msg = f.msg
            PROVE  g \in E
        <4>1. g.seq < f.seq
          BY <1>1, <1>2, <1>3, <2>3, <3>2 DEF Numbered, Part
        <4> QED
          BY <1>5, <4>1
      <3> QED
        BY <3>1, <3>2
    <2> QED
      BY <1>3, <2>1, <2>2, <2>3 DEF Complete
  <1> QED
    BY <1>2, <1>6, <1>9, <1>11, <1>12 DEF Flow, E

\* The sender's CloseChannel uses a number that no frame carries.
LEMMA FlowClose ==
    ASSUME NEW S, NEW from, NEW to, NEW count, NEW msgs, NEW given, NEW closed, NEW lost, NEW U, NEW from1,
           FlowTypes(S, from, to, count, msgs, given),
           Flow(S, from, to, count, msgs, given, closed, lost),
           DataOf(U) = DataOf(S), Listens(U, to) => Listens(S, to),
           from # None, from1.tx = from.tx + 1
    PROVE  Flow(U, from1, to, count, msgs, given, TRUE, lost)
  <1> DEFINE D == DataOf(S)
  <1>1. \A f \in D : f.seq \in Nat /\ f.msg \in Nat
    BY DataFacts DEF FlowTypes
  <1>2. /\ Numbered(D, from, count, msgs)
        /\ Listens(S, to) => Ahead(D, from, to)
        /\ Listens(S, to) /\ ~lost => Complete(D, from, to, msgs, given)
        /\ ~lost => Begins(given, msgs)
    BY DEF Flow
  <1>3. from.tx \in Nat /\ (to # None => to.rx \in Nat)
    BY RecordFacts DEF FlowTypes
  <1> HIDE DEF D
  <1>4. Numbered(D, from1, count, msgs)
    BY <1>1, <1>2, <1>3 DEF Numbered
  <1>5. Listens(U, to) => Ahead(D, from1, to)
    BY <1>2, <1>3 DEF Ahead, Listens
  <1>6. Listens(U, to) => ~Linked(D, to, from1.tx)
    <2>1. SUFFICES ASSUME Listens(U, to), Linked(D, to, from1.tx)
                   PROVE  FALSE
      OBVIOUS
    <2>2. to.rx <= from.tx /\ to.rx \in Nat
      BY <1>2, <1>3, <2>1 DEF Ahead, Listens
    <2>3. from.tx \in to.rx .. from1.tx - 1
      BY <1>3, <2>2
    <2>4. PICK f \in D : f.seq = from.tx
      BY <2>1, <2>3 DEF Linked
    <2> QED
      BY <1>1, <1>2, <1>3, <2>4 DEF Numbered
  <1>7. Listens(U, to) /\ ~lost => Complete(D, from1, to, msgs, given)
    BY <1>2, <1>6 DEF Complete
  <1> QED
    BY <1>2, <1>4, <1>5, <1>7 DEF Flow, D

\* The frame x goes behind the data in transit.
Grown(D, E, x, from, from1) ==
    /\ E = D \cup {x}
    /\ from # None /\ from1 # None /\ from.tx \in Nat /\ x.seq = from.tx /\ from1.tx = from.tx + 1
    /\ \A f \in E : f.seq \in Nat /\ f.msg \in Nat
    /\ \A f \in D : f.seq < x.seq
    /\ \A f \in D : f.msg < x.msg \/ (f.msg = x.msg /\ Part(f, 1) /\ Part(x, 2))

LEMMA GrowData ==
    ASSUME NEW S, S \subseteq Sendable, NEW x \in Sendable, IsData(x),
           NEW from \in Records, NEW from1, from1 # None, from1.tx = from.tx + 1,
           NEW count, NEW msgs, Numbered(DataOf(S), from, count, msgs), x.seq = from.tx,
           \A f \in DataOf(S) : f.msg < x.msg \/ (f.msg = x.msg /\ Part(f, 1) /\ Part(x, 2))
    PROVE  Grown(DataOf(S), DataOf(S \cup {x}), x, from, from1)
  <1> DEFINE D == DataOf(S)
             E == DataOf(S \cup {x})
  <1>1. E = D \cup {x}
    BY DEF DataOf
  <1>2. \A f \in E : f.seq \in Nat /\ f.msg \in Nat
    BY DataFacts
  <1>3. from # None /\ from.tx \in Nat
    BY RecordFacts
  <1>4. \A f \in D : f.seq < x.seq
    BY <1>3 DEF Numbered
  <1> QED
    BY <1>1, <1>2, <1>3, <1>4 DEF Grown

LEMMA GrowNumbered ==
    ASSUME NEW D, NEW E, NEW x, NEW from, NEW from1, NEW count \in Nat, NEW msgs \in Seq(Nat),
           Grown(D, E, x, from, from1), Numbered(D, from, count, msgs), count <= x.msg
    PROVE  Numbered(E, from1, x.msg, msgs)
  <1>1. /\ E = D \cup {x} /\ from.tx \in Nat /\ x.seq = from.tx /\ from1.tx = from.tx + 1
        /\ \A f \in E : f.seq \in Nat /\ f.msg \in Nat
        /\ \A f \in D : f.seq < x.seq
        /\ \A f \in D : f.msg < x.msg \/ (f.msg = x.msg /\ Part(f, 1) /\ Part(x, 2))
    BY DEF Grown
  <1>2. \A j \in 1 .. Len(msgs) : msgs[j] \in Nat
    OBVIOUS
  <1>3. \A f \in E : f.msg <= x.msg /\ f.seq < from1.tx
    BY <1>1
  <1>4. ASSUME NEW f \in E, NEW g \in E
        PROVE  /\ f.seq = g.seq => f = g
               /\ f.seq < g.seq => f.msg < g.msg \/ (f.msg = g.msg /\ Part(f, 1) /\ Part(g, 2))
    <2>1. CASE f = x
      BY <1>1, <2>1
    <2>2. CASE f \in D /\ g = x
      BY <1>1, <2>2
    <2>3. CASE f \in D /\ g \in D
      BY <2>3 DEF Numbered
    <2> QED
      BY <1>1, <2>1, <2>2, <2>3
  <1>5. /\ \A j \in 1 .. Len(msgs) : msgs[j] <= x.msg
        /\ \A i, j \in 1 .. Len(msgs) : i < j => msgs[i] < msgs[j]
    BY <1>1, <1>2 DEF Numbered
  <1> QED
    BY <1>3, <1>4, <1>5 DEF Numbered

\* So does the receiver's view of it.
GrownFor(D, E, x, from, from1, to) ==
    /\ Ahead(E, from1, to)
    /\ \A f \in D : Linked(E, to, f.seq) <=> Linked(D, to, f.seq)
    /\ Linked(E, to, x.seq) <=> Linked(D, to, from.tx)
    /\ Linked(E, to, from1.tx) <=> Linked(D, to, from.tx)
    /\ NoGap(D, from, to) => NoGap(E, from1, to)

LEMMA GrowLinked ==
    ASSUME NEW D, NEW E, NEW x, NEW from, NEW from1, NEW to, to.rx \in Nat,
           Grown(D, E, x, from, from1), Ahead(D, from, to)
    PROVE  GrownFor(D, E, x, from, from1, to)
  <1>1. /\ E = D \cup {x} /\ from.tx \in Nat /\ x.seq = from.tx /\ from1.tx = from.tx + 1 /\ from # None
        /\ \A f \in E : f.seq \in Nat
        /\ \A f \in D : f.seq < x.seq
    BY DEF Grown
  <1>2. Ahead(E, from1, to)
    BY <1>1 DEF Ahead
  <1>3. \A f \in D : Linked(E, to, f.seq) <=> Linked(D, to, f.seq)
    BY <1>1 DEF Linked
  <1>4. Linked(E, to, x.seq) <=> Linked(D, to, from.tx)
    BY <1>1 DEF Linked
  <1>5. Linked(E, to, from1.tx) <=> Linked(D, to, from.tx)
    <2>1. \A n \in to.rx .. from1.tx - 1 : n \in to.rx .. from.tx - 1 \/ n = x.seq
      BY <1>1
    <2>2. \A n \in to.rx .. from.tx - 1 : n \in to.rx .. from1.tx - 1 /\ n # x.seq
      BY <1>1
    <2> QED
      BY <1>1, <2>1, <2>2 DEF Linked
  <1> QED
    BY <1>1, <1>2, <1>3, <1>4, <1>5 DEF NoGap, GrownFor

\* A first fragment is sent.
LEMMA FlowGrowFirst ==
    ASSUME NEW S, NEW from, NEW to, NEW count, NEW msgs, NEW given, NEW closed, NEW lost,
           NEW x \in Sendable, Part(x, 1), NEW from1,
           FlowTypes(S, from, to, count, msgs, given), from # None, from1 # None, from1.tx = from.tx + 1,
           Flow(S, from, to, count, msgs, given, closed, lost),
           x.seq = from.tx, x.msg = count + 1
    PROVE  Flow(S \cup {x}, from1, to, x.msg, msgs, given, closed, lost)
  <1> DEFINE D == DataOf(S)
             E == DataOf(S \cup {x})
  <1>1. /\ Numbered(D, from, count, msgs)
        /\ Listens(S, to) => Ahead(D, from, to)
        /\ Listens(S, to) /\ ~closed => NoGap(D, from, to)
        /\ Listens(S, to) /\ ~lost => Complete(D, from, to, msgs, given)
        /\ ~lost => Begins(given, msgs)
    BY DEF Flow
  <1>2. IsData(x) /\ x.kind = "Frag" /\ x.part = 1 /\ count \in Nat
    BY DEF Part, IsData, FlowTypes
  <1>3. \A f \in E : f.seq \in Nat /\ f.msg \in Nat
    BY DataFacts DEF FlowTypes
  <1>4. count <= x.msg /\ \A f \in D : f.msg < x.msg
    BY <1>1, <1>2, <1>3 DEF Numbered, DataOf
  <1>5. Grown(D, E, x, from, from1) /\ E = D \cup {x}
    <2>1. S \subseteq Sendable /\ from \in Records
      BY DEF FlowTypes
    <2>2. Grown(D, E, x, from, from1)
      BY <1>1, <1>2, <1>4, <2>1, GrowData, Zenon
    <2> QED
      BY <2>2 DEF Grown
  <1>6. Listens(S \cup {x}, to) = Listens(S, to)
    BY <1>2 DEF Listens, HasKind
  <1>7. from.tx \in Nat /\ (to # None => to.rx \in Nat)
    BY RecordFacts DEF FlowTypes
  <1> HIDE DEF D, E
  <1>8. ASSUME Listens(S, to)
        PROVE  GrownFor(D, E, x, from, from1, to)
    <2>1. to.rx \in Nat /\ Ahead(D, from, to)
      BY <1>1, <1>7, <1>8 DEF Listens
    <2> QED
      BY <1>5, <2>1, GrowLinked
  <1>9. ASSUME Listens(S, to), ~lost
        PROVE  Complete(E, from1, to, msgs, given)
    <2>1. Complete(D, from, to, msgs, given)
      BY <1>1, <1>9
    <2>2. \A m : Pending(D, m) => Pending(E, m)
      BY <1>5 DEF Pending
    <2>3. \A f \in E : Completes(f) => f \in D
      BY <1>2, <1>5 DEF Completes
    <2>4. \A f \in E : Part(f, 2) => f \in D
      BY <1>2, <1>5 DEF Part
    <2>5. ASSUME NEW f \in E, Linked(E, to, f.seq), NEW j \in 1 .. Len(msgs), j > Len(given), msgs[j] < f.msg
          PROVE  Pending(E, msgs[j])
      BY <1>5, <1>8, <1>9, <2>1, <2>2, <2>5 DEF Complete, GrownFor
    <2>6. from1 # None /\ Linked(E, to, from1.tx) =>
            \A j \in 1 .. Len(msgs) : j > Len(given) => Pending(E, msgs[j])
      BY <1>8, <1>9, <2>1, <2>2 DEF Complete, GrownFor
    <2>7. ASSUME NEW f \in E, Part(f, 2), Linked(E, to, f.seq)
          PROVE  \/ \E p \in Range(to.partial) : p[1] = f.msg
                 \/ \E g \in E : Part(g, 1) /\ g.msg = f.msg
      BY <1>5, <1>8, <1>9, <2>1, <2>4, <2>7 DEF Complete, GrownFor
    <2> QED
      BY <2>1, <2>3, <2>5, <2>6, <2>7 DEF Complete
  <1>10. Numbered(E, from1, x.msg, msgs)
    <2>1. msgs \in Seq(Nat)
      BY DEF FlowTypes
    <2> QED
      BY <1>1, <1>2, <1>4, <1>5, <2>1, GrowNumbered
  <1> QED
    BY <1>1, <1>6, <1>8, <1>9, <1>10 DEF Flow, E, GrownFor

\* A frame is sent that makes its message whole.
LEMMA FlowGrowWhole ==
    ASSUME NEW S, NEW from, NEW to, NEW count, NEW msgs, NEW given, NEW closed, NEW lost,
           NEW x \in Sendable, IsData(x), Completes(x), NEW from1, NEW msgs1,
           FlowTypes(S, from, to, count, msgs, given), from # None, from1 # None, from1.tx = from.tx + 1,
           Flow(S, from, to, count, msgs, given, closed, lost),
           x.seq = from.tx, count <= x.msg, msgs1 = Append(msgs, x.msg),
           \A j \in 1 .. Len(msgs) : msgs[j] < x.msg,
           \A f \in DataOf(S) : f.msg < x.msg \/ (f.msg = x.msg /\ Part(f, 1) /\ Part(x, 2)),
           Part(x, 2) => \E g \in DataOf(S) : Part(g, 1) /\ g.msg = x.msg
    PROVE  Flow(S \cup {x}, from1, to, x.msg, msgs1, given, closed, lost)
  <1> DEFINE D == DataOf(S)
             E == DataOf(S \cup {x})
  <1>1. /\ Numbered(D, from, count, msgs)
        /\ Listens(S, to) => Ahead(D, from, to)
        /\ Listens(S, to) /\ ~closed => NoGap(D, from, to)
        /\ Listens(S, to) /\ ~lost => Complete(D, from, to, msgs, given)
        /\ ~lost => Begins(given, msgs)
    BY DEF Flow
  <1>2. x.kind # "OpenAck" /\ x.msg \in Nat /\ x.seq \in Nat
    BY SendableFacts DEF IsData
  <1>3. \A f \in E : f.seq \in Nat /\ f.msg \in Nat
    BY DataFacts DEF FlowTypes
  <1>4. \A f \in D : f.msg <= x.msg
    BY <1>2, <1>3 DEF DataOf
  <1>5. Grown(D, E, x, from, from1) /\ E = D \cup {x}
    <2>1. S \subseteq Sendable /\ from \in Records
      BY DEF FlowTypes
    <2>2. Grown(D, E, x, from, from1)
      BY <1>1, <2>1, GrowData, Zenon
    <2> QED
      BY <2>2 DEF Grown
  <1>6. Listens(S \cup {x}, to) = Listens(S, to)
    BY <1>2 DEF Listens, HasKind
  <1>7. from.tx \in Nat /\ (to # None => to.rx \in Nat)
    BY RecordFacts DEF FlowTypes
  <1>8. /\ Len(msgs) \in Nat /\ Len(msgs1) = Len(msgs) + 1 /\ msgs1[Len(msgs) + 1] = x.msg
        /\ \A j \in 1 .. Len(msgs) : msgs1[j] = msgs[j] /\ msgs[j] \in Nat
        /\ \A j \in 1 .. Len(msgs1) : j \in 1 .. Len(msgs) \/ j = Len(msgs) + 1
        /\ Len(given) \in Nat
    BY DEF FlowTypes
  <1> HIDE DEF D, E
  <1>9. ASSUME Listens(S, to)
        PROVE  GrownFor(D, E, x, from, from1, to)
    <2>1. to.rx \in Nat /\ Ahead(D, from, to)
      BY <1>1, <1>7, <1>9 DEF Listens
    <2> QED
      BY <1>5, <2>1, GrowLinked
  <1>10. Numbered(E, from1, x.msg, msgs1)
    <2>1. \A j \in 1 .. Len(msgs1) : msgs1[j] <= x.msg
      BY <1>2, <1>8
    <2>2. \A i, j \in 1 .. Len(msgs1) : i < j => msgs1[i] < msgs1[j]
      BY <1>1, <1>2, <1>8 DEF Numbered
    <2>3. msgs \in Seq(Nat) /\ count \in Nat
      BY DEF FlowTypes
    <2>4. Numbered(E, from1, x.msg, msgs)
      BY <1>1, <1>5, <2>3, GrowNumbered
    <2> QED
      BY <2>1, <2>2, <2>4 DEF Numbered
  <1>11. ~lost => Begins(given, msgs1)
    BY <1>1, <1>8 DEF Begins
  <1>12. ASSUME Listens(S, to), ~lost
         PROVE  Complete(E, from1, to, msgs1, given)
    <2>1. Complete(D, from, to, msgs, given) /\ Len(given) <= Len(msgs)
      BY <1>1, <1>12 DEF Begins
    <2>2. (\A m : Pending(D, m) => Pending(E, m)) /\ Pending(E, x.msg)
      BY <1>5 DEF Pending
    <2>3. ASSUME NEW f \in E, Completes(f)
          PROVE  \E j \in 1 .. Len(msgs1) : j > Len(given) /\ msgs1[j] = f.msg
      <3>1. CASE f = x
        <4>1. Len(msgs) + 1 \in 1 .. Len(msgs1) /\ Len(msgs) + 1 > Len(given)
          BY <1>8, <2>1
        <4> QED
          BY <1>8, <3>1, <4>1
      <3>2. CASE f \in D
        <4>1. PICK j \in 1 .. Len(msgs) : j > Len(given) /\ msgs[j] = f.msg
          BY <2>1, <2>3, <3>2 DEF Complete
        <4>2. j \in 1 .. Len(msgs1)
          BY <1>8, <4>1
        <4> QED
          BY <1>8, <4>1, <4>2
      <3> QED
        BY <1>5, <3>1, <3>2
    <2>4. Linked(D, to, from.tx) => \A j \in 1 .. Len(msgs1) : j > Len(given) => Pending(E, msgs1[j])
      BY <1>8, <2>1, <2>2 DEF Complete
    <2>5. ASSUME NEW f \in E, Linked(E, to, f.seq), NEW j \in 1 .. Len(msgs1), j > Len(given), msgs1[j] < f.msg
          PROVE  Pending(E, msgs1[j])
      <3>1. CASE f = x
        BY <1>9, <1>12, <2>4, <2>5, <3>1 DEF GrownFor
      <3>2. CASE f \in D
        <4>1. j \in 1 .. Len(msgs)
          BY <1>2, <1>3, <1>4, <1>8, <2>5, <3>2
        <4> QED
          BY <1>8, <1>9, <1>12, <2>1, <2>2, <2>5, <3>2, <4>1 DEF Complete, GrownFor
      <3> QED
        BY <1>5, <3>1, <3>2
    <2>6. from1 # None /\ Linked(E, to, from1.tx) =>
            \A j \in 1 .. Len(msgs1) : j > Len(given) => Pending(E, msgs1[j])
      BY <1>9, <1>12, <2>4 DEF GrownFor
    <2>7. ASSUME NEW f \in E, Part(f, 2), Linked(E, to, f.seq)
          PROVE  \/ \E p \in Range(to.partial) : p[1] = f.msg
                 \/ \E g \in E : Part(g, 1) /\ g.msg = f.msg
      <3>1. CASE f = x
        BY <1>5, <2>7, <3>1 DEF D
      <3>2. CASE f \in D
        BY <1>5, <1>9, <1>12, <2>1, <2>7, <3>2 DEF Complete, GrownFor
      <3> QED
        BY <1>5, <3>1, <3>2
    <2>8. \A p \in Range(to.partial) : p[2] = 1
      BY <2>1 DEF Complete
    <2> QED
      BY <2>3, <2>5, <2>6, <2>7, <2>8 DEF Complete
  <1> QED
    BY <1>1, <1>6, <1>9, <1>10, <1>11, <1>12 DEF Flow, E, GrownFor

\* The frame f comes out of the stream, the first of its channel: S holds it,
\* U is what is left.
Comes(S, f, U) ==
    /\ S = U \cup {f} /\ f \notin U /\ IsData(f)
    /\ \A g \in U : Precedes(f, g) /\ g.id = f.id

LEMMA ComesFirst ==
    ASSUME NEW S, S \subseteq Sendable, NEW f, NEW U, Comes(S, f, U)
    PROVE  /\ DataOf(S) = DataOf(U) \cup {f} /\ f \notin DataOf(U) /\ f \in DataOf(S)
           /\ f.seq \in Nat \ {0} /\ f.msg \in Nat \ {0}
           /\ \A g \in DataOf(U) : f.seq < g.seq /\ g.seq \in Nat /\ g.msg \in Nat
           /\ ~HasKind(U, "OpenAck") /\ ~HasKind(S, "OpenAck")
  <1>1. f \in Sendable /\ IsData(f) /\ U \subseteq Sendable
    BY DEF Comes
  <1>2. DataOf(S) = DataOf(U) \cup {f} /\ f \notin DataOf(U)
    BY DEF Comes, DataOf
  <1>3. Rank(f) = f.seq /\ Ranked(f) /\ f.seq \in Nat \ {0} /\ f.msg \in Nat \ {0} /\ f.kind # "OpenAck"
    BY <1>1, SendableFacts DEF Rank, IsData, Ranked
  <1>4. \A g \in DataOf(U) : Rank(g) = g.seq /\ Ranked(g) /\ g.seq \in Nat /\ g.msg \in Nat /\ g \in U
    BY <1>1, DataFacts
  <1>5. \A g \in DataOf(U) : f.seq < g.seq
    BY <1>3, <1>4 DEF Comes, Precedes
  <1>6. \A g \in U : g.kind # "OpenAck"
    <2>1. SUFFICES ASSUME NEW g \in U, g.kind = "OpenAck"
                   PROVE  FALSE
      OBVIOUS
    <2>2. Ranked(g) /\ Rank(g) = 0
      BY <2>1 DEF Ranked, Rank, IsData
    <2>3. Rank(f) < Rank(g)
      BY <1>3, <2>2 DEF Comes, Precedes
    <2> QED
      BY <1>3, <2>2, <2>3
  <1> QED
    BY <1>2, <1>3, <1>4, <1>5, <1>6 DEF Comes, HasKind

\* It is not taken: nobody listens, or a number is missing before it.
LEMMA FlowDrop ==
    ASSUME NEW S, NEW from, NEW to, NEW count, NEW msgs, NEW given, NEW closed, NEW lost, NEW f, NEW U,
           FlowTypes(S, from, to, count, msgs, given),
           Flow(S, from, to, count, msgs, given, closed, lost),
           Comes(S, f, U), to.state = "Open" => f.seq # to.rx
    PROVE  Flow(U, from, to, count, msgs, given, closed, lost)
  <1> DEFINE D == DataOf(S)
             E == DataOf(U)
  <1>1. /\ Numbered(D, from, count, msgs)
        /\ Listens(S, to) => Ahead(D, from, to)
        /\ Listens(S, to) /\ ~closed => NoGap(D, from, to)
        /\ Listens(S, to) /\ ~lost => Complete(D, from, to, msgs, given)
        /\ ~lost => Begins(given, msgs)
    BY DEF Flow
  <1>2. /\ D = E \cup {f} /\ f \notin E /\ f \in D /\ f.seq \in Nat
        /\ \A g \in E : f.seq < g.seq /\ g.seq \in Nat
        /\ ~HasKind(U, "OpenAck")
    BY ComesFirst DEF FlowTypes
  <1>3. Numbered(E, from, count, msgs)
    BY <1>1, <1>2 DEF Numbered
  <1>4. CASE ~Listens(U, to)
    BY <1>1, <1>3, <1>4 DEF Flow
  <1>5. CASE Listens(U, to)
    <2>1. Listens(S, to) /\ to.state = "Open" /\ to.rx \in Nat /\ Ahead(D, from, to)
      BY <1>1, <1>2, <1>5, RecordFacts DEF Listens, FlowTypes
    <2>2. to.rx < f.seq
      BY <1>2, <2>1 DEF Ahead
    <2> HIDE DEF D, E
    <2>3. \A n \in Nat : n > to.rx => ~Linked(E, to, n)
      BY <1>2, <2>1, <2>2 DEF Linked
    <2>4. from # None => from.tx \in Nat /\ f.seq < from.tx
      BY <1>1, <1>2, RecordFacts DEF Numbered, FlowTypes
    <2>5. ~Linked(D, to, f.seq)
      BY <1>2, <2>1, <2>2 DEF Linked
    <2>6. closed
      BY <1>1, <1>2, <2>1, <2>5 DEF NoGap
    <2>7. Ahead(E, from, to)
      BY <1>2, <2>1 DEF Ahead
    <2>8. \A g \in E : ~Linked(E, to, g.seq)
      BY <1>2, <2>1, <2>2, <2>3
    <2>9. from # None => ~Linked(E, to, from.tx)
      BY <1>2, <2>1, <2>2, <2>3, <2>4
    <2>10. ~lost => Complete(E, from, to, msgs, given)
      BY <1>1, <1>2, <2>1, <2>8, <2>9 DEF Complete
    <2> QED
      BY <1>1, <1>3, <2>6, <2>7, <2>10 DEF Flow, E
  <1> QED
    BY <1>4, <1>5

\* It is taken: what is left stays as it was.
Moved(D, f, E, from, to, to1) ==
    /\ Ahead(E, from, to1)
    /\ NoGap(D, from, to) => NoGap(E, from, to1)
    /\ \A g \in E : Linked(E, to1, g.seq) => Linked(D, to, g.seq)
    /\ from # None => (Linked(E, to1, from.tx) => Linked(D, to, from.tx))
    /\ Linked(D, to, f.seq)

LEMMA MoveOn ==
    ASSUME NEW D, NEW f, NEW E, NEW from, NEW to, NEW to1,
           D = E \cup {f}, f \notin E, f.seq \in Nat,
           \A g \in E : f.seq < g.seq /\ g.seq \in Nat,
           from # None => from.tx \in Nat /\ f.seq < from.tx,
           Ahead(D, from, to), f.seq = to.rx, to1.rx = to.rx + 1
    PROVE  Moved(D, f, E, from, to, to1)
  <1>1. Ahead(E, from, to1)
    BY DEF Ahead
  <1>2. Linked(D, to, f.seq)
    BY DEF Linked
  <1>3. ASSUME NEW n \in Nat
        PROVE  Linked(E, to1, n) => Linked(D, to, n)
    <2>1. \A k \in to.rx .. n - 1 : k = f.seq \/ k \in to1.rx .. n - 1
      OBVIOUS
    <2> QED
      BY <2>1 DEF Linked
  <1>4. ASSUME NEW n \in Nat
        PROVE  Linked(D, to, n) => Linked(E, to1, n)
    <2>1. \A k \in to1.rx .. n - 1 : k # f.seq /\ k \in to.rx .. n - 1
      OBVIOUS
    <2> QED
      BY <2>1 DEF Linked
  <1>5. NoGap(D, from, to) => NoGap(E, from, to1)
    BY <1>4 DEF NoGap
  <1> QED
    BY <1>1, <1>2, <1>3, <1>5 DEF Moved

\* What the lemmas below begin with.
Taking(D, f, E, from, to, to1, count, msgs, given, closed, lost) ==
    /\ Numbered(D, from, count, msgs) /\ Numbered(E, from, count, msgs)
    /\ ~closed => NoGap(D, from, to)
    /\ ~lost => Complete(D, from, to, msgs, given) /\ Begins(given, msgs)
    /\ Moved(D, f, E, from, to, to1)
    /\ \A g \in E : f.msg < g.msg \/ (f.msg = g.msg /\ Part(f, 1) /\ Part(g, 2))

LEMMA TakeFacts ==
    ASSUME NEW S, NEW from, NEW to, NEW count, NEW msgs, NEW given, NEW closed, NEW lost, NEW f, NEW U, NEW to1,
           FlowTypes(S, from, to, count, msgs, given),
           Flow(S, from, to, count, msgs, given, closed, lost),
           Comes(S, f, U), to.state = "Open", f.seq = to.rx, to1.rx = to.rx + 1
    PROVE  Taking(DataOf(S), f, DataOf(U), from, to, to1, count, msgs, given, closed, lost)
  <1> DEFINE D == DataOf(S)
             E == DataOf(U)
  <1>1. Listens(S, to)
    BY RecordFacts DEF Listens
  <1>2. /\ Numbered(D, from, count, msgs)
        /\ Ahead(D, from, to)
        /\ ~closed => NoGap(D, from, to)
        /\ ~lost => Complete(D, from, to, msgs, given) /\ Begins(given, msgs)
    BY <1>1 DEF Flow
  <1>3. /\ D = E \cup {f} /\ f \notin E /\ f \in D /\ f.seq \in Nat
        /\ \A g \in E : f.seq < g.seq /\ g.seq \in Nat
    BY ComesFirst DEF FlowTypes
  <1> HIDE DEF D, E
  <1>4. Numbered(E, from, count, msgs)
    BY <1>2, <1>3 DEF Numbered
  <1>5. from # None => from.tx \in Nat /\ f.seq < from.tx
    BY <1>2, <1>3, RecordFacts DEF Numbered, FlowTypes
  <1>6. Moved(D, f, E, from, to, to1)
    BY <1>2, <1>3, <1>5, MoveOn
  <1>7. \A g \in E : f.msg < g.msg \/ (f.msg = g.msg /\ Part(f, 1) /\ Part(g, 2))
    BY <1>2, <1>3 DEF Numbered
  <1> QED
    BY <1>2, <1>4, <1>6, <1>7 DEF D, E, Taking

\* A frame is taken after a partial message was dropped.
LEMMA FlowTakeLost ==
    ASSUME NEW S, NEW from, NEW to, NEW count, NEW msgs, NEW given, NEW closed, NEW lost, NEW f, NEW U, NEW to1,
           NEW given1, FlowTypes(S, from, to, count, msgs, given),
           Flow(S, from, to, count, msgs, given, closed, lost),
           Comes(S, f, U), to.state = "Open", f.seq = to.rx, to1.rx = to.rx + 1, lost
    PROVE  Flow(U, from, to1, count, msgs, given1, closed, lost)
  <1>1. /\ Numbered(DataOf(U), from, count, msgs)
        /\ ~closed => NoGap(DataOf(S), from, to)
        /\ Moved(DataOf(S), f, DataOf(U), from, to, to1)
    <2>1. Taking(DataOf(S), f, DataOf(U), from, to, to1, count, msgs, given, closed, lost)
      BY TakeFacts
    <2> QED
      BY <2>1 DEF Taking
  <1> QED
    BY <1>1 DEF Flow, Moved

\* A first fragment is taken.
LEMMA FlowTakeFirst ==
    ASSUME NEW S, NEW from, NEW to, NEW count, NEW msgs, NEW given, NEW closed, NEW lost, NEW f, NEW U, NEW to1,
           FlowTypes(S, from, to, count, msgs, given),
           Flow(S, from, to, count, msgs, given, closed, lost),
           Comes(S, f, U), to.state = "Open", f.seq = to.rx, to1.rx = to.rx + 1,
           ~lost, Part(f, 1), Range(to1.partial) = Range(to.partial) \cup {<<f.msg, 1>>}
    PROVE  Flow(U, from, to1, count, msgs, given, closed, lost)
  <1> DEFINE D == DataOf(S)
             E == DataOf(U)
  <1>1. /\ Numbered(E, from, count, msgs)
        /\ ~closed => NoGap(D, from, to)
        /\ Complete(D, from, to, msgs, given) /\ Begins(given, msgs)
        /\ Moved(D, f, E, from, to, to1)
    <2>1. Taking(DataOf(S), f, DataOf(U), from, to, to1, count, msgs, given, closed, lost)
      BY TakeFacts
    <2> QED
      BY <2>1 DEF Taking
  <1>2. D = E \cup {f}
    BY ComesFirst DEF FlowTypes
  <1>3. ~Completes(f)
    BY DEF Part, Completes
  <1> HIDE DEF D, E
  <1>4. \A m : Pending(D, m) => Pending(E, m)
    BY <1>2, <1>3 DEF Pending
  <1>5. \A p \in Range(to1.partial) : p[2] = 1
    BY <1>1 DEF Complete
  <1>6. ASSUME NEW g \in E, Part(g, 2), Linked(E, to1, g.seq)
        PROVE  \/ \E p \in Range(to1.partial) : p[1] = g.msg
               \/ \E h \in E : Part(h, 1) /\ h.msg = g.msg
    <2>1. \/ \E p \in Range(to.partial) : p[1] = g.msg
          \/ \E h \in D : Part(h, 1) /\ h.msg = g.msg
      BY <1>1, <1>2, <1>6 DEF Complete, Moved
    <2>2. <<f.msg, 1>> \in Range(to1.partial) /\ <<f.msg, 1>>[1] = f.msg
      OBVIOUS
    <2> QED
      BY <1>2, <2>1, <2>2
  <1>7. Complete(E, from, to1, msgs, given)
    BY <1>1, <1>2, <1>4, <1>5, <1>6 DEF Complete, Moved
  <1> QED
    BY <1>1, <1>7 DEF Flow, Moved, E

\* The second fragment finds the first.
LEMMA SecondFindsFirst ==
    ASSUME NEW S, NEW from, NEW to, NEW count, NEW msgs, NEW given, NEW closed, NEW lost, NEW f, NEW U,
           FlowTypes(S, from, to, count, msgs, given),
           Flow(S, from, to, count, msgs, given, closed, lost),
           Comes(S, f, U), to.state = "Open", f.seq = to.rx, ~lost
    PROVE  /\ \A p \in Range(to.partial) : p[2] = 1
           /\ Part(f, 2) => \E p \in Range(to.partial) : p[1] = f.msg
  <1> DEFINE D == DataOf(S)
             E == DataOf(U)
  <1>1. PICK to1 : to1 = [rx |-> to.rx + 1]
    OBVIOUS
  <1>2. to1.rx = to.rx + 1
    BY <1>1
  <1>3. /\ Complete(D, from, to, msgs, given) /\ Moved(D, f, E, from, to, to1)
        /\ \A g \in E : f.msg < g.msg \/ (f.msg = g.msg /\ Part(f, 1) /\ Part(g, 2))
    <2>1. Taking(D, f, E, from, to, to1, count, msgs, given, closed, lost)
      BY <1>2, TakeFacts
    <2> QED
      BY <2>1 DEF Taking
  <1>4. D = E \cup {f} /\ f \in D /\ f.msg \in Nat /\ \A g \in E : g.msg \in Nat
    BY ComesFirst DEF FlowTypes
  <1> HIDE DEF D, E
  <1>5. ASSUME Part(f, 2), NEW g \in D, Part(g, 1), g.msg = f.msg
        PROVE  FALSE
    BY <1>3, <1>4, <1>5 DEF Part
  <1> QED
    BY <1>3, <1>4, <1>5 DEF Complete, Moved

\* A frame is taken that makes its message whole: it is the next message.
LEMMA FlowTakeWhole ==
    ASSUME NEW S, NEW from, NEW to, NEW count, NEW msgs, NEW given, NEW closed, NEW lost, NEW f, NEW U, NEW to1,
           NEW given1, FlowTypes(S, from, to, count, msgs, given),
           Flow(S, from, to, count, msgs, given, closed, lost),
           Comes(S, f, U), to.state = "Open", f.seq = to.rx, to1.rx = to.rx + 1,
           ~lost, Completes(f), given1 = Append(given, f.msg), Range(to1.partial) \subseteq Range(to.partial),
           \A p \in Range(to.partial) : p[1] # f.msg => p \in Range(to1.partial)
    PROVE  Flow(U, from, to1, count, msgs, given1, closed, lost)
  <1> DEFINE D == DataOf(S)
             E == DataOf(U)
             k == Len(given) + 1
  <1>1. /\ Numbered(D, from, count, msgs) /\ Numbered(E, from, count, msgs)
        /\ ~closed => NoGap(D, from, to)
        /\ Complete(D, from, to, msgs, given) /\ Begins(given, msgs)
        /\ Moved(D, f, E, from, to, to1)
        /\ \A g \in E : f.msg < g.msg \/ (f.msg = g.msg /\ Part(f, 1) /\ Part(g, 2))
    <2>1. Taking(DataOf(S), f, DataOf(U), from, to, to1, count, msgs, given, closed, lost)
      BY TakeFacts
    <2> QED
      BY <2>1 DEF Taking
  <1>2. /\ D = E \cup {f} /\ f \in D /\ f.msg \in Nat /\ \A g \in E : g.msg \in Nat
    BY ComesFirst DEF FlowTypes
  <1>3. ~Part(f, 1)
    BY DEF Completes, Part
  <1> HIDE DEF D, E
  <1>4. /\ Len(msgs) \in Nat /\ Len(given) \in Nat /\ k \in Nat /\ Len(given1) = k
        /\ \A j \in 1 .. Len(msgs) : msgs[j] \in Nat
        /\ given1[k] = f.msg /\ \A j \in 1 .. Len(given) : given1[j] = given[j]
        /\ \A j \in 1 .. k : j = k \/ j \in 1 .. Len(given)
    BY <1>2 DEF FlowTypes
  <1>5. k \in 1 .. Len(msgs) /\ msgs[k] = f.msg
    <2>1. PICK j \in 1 .. Len(msgs) : j > Len(given) /\ msgs[j] = f.msg
      BY <1>1, <1>2 DEF Complete
    <2>2. k \in 1 .. Len(msgs) /\ k <= j
      BY <1>4, <2>1
    <2>3. ASSUME k # j
          PROVE  FALSE
      <3>1. k < j /\ k > Len(given)
        BY <1>4, <2>2, <2>3
      <3>2. msgs[k] < f.msg
        BY <1>1, <2>1, <2>2, <3>1 DEF Numbered
      <3>3. PICK g \in D : g.msg = msgs[k]
        BY <1>1, <1>2, <2>2, <3>1, <3>2 DEF Complete, Moved, Pending
      <3> QED
        BY <1>1, <1>2, <1>4, <2>2, <3>2, <3>3
    <2> QED
      BY <2>1, <2>2, <2>3
  <1>6. Begins(given1, msgs)
    BY <1>1, <1>4, <1>5 DEF Begins
  <1>7. \A g \in E : f.msg < g.msg
    BY <1>1, <1>3
  <1>8. \A j \in 1 .. Len(msgs) : j > Len(given1) => j > Len(given) /\ f.msg < msgs[j]
    BY <1>1, <1>4, <1>5 DEF Numbered
  <1>9. ASSUME NEW j \in 1 .. Len(msgs), j > Len(given1), Pending(D, msgs[j])
        PROVE  Pending(E, msgs[j])
    BY <1>2, <1>4, <1>8, <1>9 DEF Pending
  <1>10. ASSUME NEW g \in E, Completes(g)
         PROVE  \E j \in 1 .. Len(msgs) : j > Len(given1) /\ msgs[j] = g.msg
    <2>1. PICK j \in 1 .. Len(msgs) : j > Len(given) /\ msgs[j] = g.msg
      BY <1>1, <1>2, <1>10 DEF Complete
    <2>2. j # k
      BY <1>2, <1>5, <1>7, <2>1
    <2> QED
      BY <1>4, <2>1, <2>2
  <1>11. ASSUME NEW g \in E, Part(g, 2), Linked(E, to1, g.seq)
         PROVE  \/ \E p \in Range(to1.partial) : p[1] = g.msg
                \/ \E h \in E : Part(h, 1) /\ h.msg = g.msg
    <2>1. \/ \E p \in Range(to.partial) : p[1] = g.msg
          \/ \E h \in D : Part(h, 1) /\ h.msg = g.msg
      BY <1>1, <1>2, <1>11 DEF Complete, Moved
    <2>2. g.msg # f.msg
      BY <1>2, <1>7
    <2> QED
      BY <1>2, <1>3, <2>1, <2>2
  <1>12. \A p \in Range(to1.partial) : p[2] = 1
    BY <1>1 DEF Complete
  <1>13. ASSUME NEW g \in E, Linked(E, to1, g.seq), NEW j \in 1 .. Len(msgs), j > Len(given1), msgs[j] < g.msg
         PROVE  Pending(E, msgs[j])
    BY <1>1, <1>2, <1>8, <1>9, <1>13 DEF Complete, Moved
  <1>14. from # None /\ Linked(E, to1, from.tx) =>
            \A j \in 1 .. Len(msgs) : j > Len(given1) => Pending(E, msgs[j])
    BY <1>1, <1>8, <1>9 DEF Complete, Moved
  <1>15. Complete(E, from, to1, msgs, given1)
    BY <1>10, <1>11, <1>12, <1>13, <1>14 DEF Complete
  <1> QED
    BY <1>1, <1>6, <1>15 DEF Flow, Moved, E

-----------------------------------------------------------------------------
(* Reassembly.                                                             *)

\* A round of the loop in Without.
KeepEntry(k, x, msgs) == IF x[1] \in msgs THEN k ELSE Append(k, x)

LEMMA WithoutRuns ==
    ASSUME NEW q, NEW msgs, Len(q) \in Nat
    PROVE  \E f : /\ Without(q, msgs) = f[Len(q)]
                  /\ f[0] = <<>>
                  /\ \A n \in 1 .. Len(q) : f[n] = KeepEntry(f[n - 1], q[n], msgs)
  <1> DEFINE base == <<>>
             Step(u, n) == KeepEntry(u, q[n], msgs)
             Runs(n, g) == g = [i \in 0 .. n |-> IF i = 0 THEN base ELSE Step(g[i - 1], i)]
             N == Len(q)
             V == {n \in Nat : \E g : Runs(n, g)}
             f == CHOOSE g : Runs(N, g)
  <1>1. Without(q, msgs) = f[N]
    BY Zenon DEF Without, KeepEntry
  <1>2. N \in Nat
    OBVIOUS
  <1> HIDE DEF Step, base
  <1>3. 0 \in V
    <2>1. Runs(0, [i \in 0 .. 0 |-> base])
      OBVIOUS
    <2> QED
      BY <2>1
  <1>4. ASSUME NEW n \in 1 .. N, n - 1 \in V
        PROVE  n \in V
    <2>1. PICK g : Runs(n - 1, g)
      BY <1>4, Zenon
    <2> DEFINE y == Step(g[n - 1], n)
               h == [i \in 0 .. n |-> IF i = n THEN y ELSE g[i]]
    <2>2. \A i \in 0 .. (n - 1) : g[i] = IF i = 0 THEN base ELSE Step(g[i - 1], i)
      BY <2>1
    <2>3. n \in Nat \ {0}
      BY <1>2
    <2>4. \A i \in 0 .. n : h[i] = IF i = 0 THEN base ELSE Step(h[i - 1], i)
      BY <2>2, <2>3
    <2>5. Runs(n, h)
      BY <2>4
    <2> QED
      BY <2>3, <2>5
  <1>5. N \in V
    <2> HIDE DEF V, N
    <2> QED
      BY <1>2, <1>3, <1>4, Rounds
  <1>6. Runs(N, f)
    BY <1>5, Zenon
  <1> HIDE DEF f, N
  <1>7. f[0] = base /\ \A n \in 1 .. N : f[n] = Step(f[n - 1], n)
    BY <1>2, <1>6
  <1> QED
    BY <1>1, <1>7 DEF N, Step, base

\* The entries of the messages in msgs go, the others stay.
LEMMA WithoutRange ==
    ASSUME NEW S, NEW q \in Seq(S), NEW msgs
    PROVE  /\ Without(q, msgs) \in Seq(S)
           /\ Range(Without(q, msgs)) = {x \in Range(q) : x[1] \notin msgs}
  <1> DEFINE N == Len(q)
             Kept(n) == {x \in S : x[1] \notin msgs /\ \E i \in 1 .. n : x = q[i]}
  <1>1. N \in Nat /\ DOMAIN q = 1 .. N /\ \A n \in 1 .. N : q[n] \in S
    OBVIOUS
  <1>2. PICK f : /\ Without(q, msgs) = f[N]
                 /\ f[0] = <<>>
                 /\ \A n \in 1 .. N : f[n] = KeepEntry(f[n - 1], q[n], msgs)
    BY <1>1, WithoutRuns
  <1> DEFINE V == {n \in 0 .. N : f[n] \in Seq(S) /\ Range(f[n]) = Kept(n)}
  <1> HIDE DEF N
  <1>3. 0 \in V
    <2>1. Kept(0) = {} /\ 0 \in 0 .. N /\ <<>> \in Seq(S)
      BY <1>1
    <2>2. Range(f[0]) = {} /\ f[0] \in Seq(S)
      BY <1>2, <2>1, EmptyRange
    <2> HIDE DEF Kept
    <2> QED
      BY <2>1, <2>2
  <1>4. ASSUME NEW n \in 1 .. N, n - 1 \in V
        PROVE  n \in V
    <2>1. /\ n \in 0 .. N /\ f[n - 1] \in Seq(S) /\ Range(f[n - 1]) = Kept(n - 1)
          /\ f[n] = KeepEntry(f[n - 1], q[n], msgs) /\ q[n] \in S
      BY <1>1, <1>2, <1>4
    <2>2. \A i \in 1 .. n : i \in 1 .. n - 1 \/ i = n
      BY <1>1
    <2>3. \A i \in 1 .. n - 1 : i \in 1 .. n
      BY <1>1
    <2>4. CASE q[n][1] \in msgs
      <3>1. Kept(n) = Kept(n - 1)
        BY <2>2, <2>3, <2>4
      <3> QED
        BY <2>1, <2>4, <3>1 DEF KeepEntry
    <2>5. CASE q[n][1] \notin msgs
      <3>1. Kept(n) = Kept(n - 1) \cup {q[n]}
        <4>1. n \in 1 .. n
          BY <1>1
        <4> QED
          BY <2>1, <2>2, <2>3, <2>5, <4>1
      <3>2. f[n] = Append(f[n - 1], q[n])
        BY <2>1, <2>5 DEF KeepEntry
      <3>3. f[n] \in Seq(S) /\ Range(f[n]) = Range(f[n - 1]) \cup {q[n]}
        BY <2>1, <3>2, AppendRange
      <3> QED
        BY <2>1, <3>1, <3>3
    <2> QED
      BY <2>4, <2>5
  <1>5. N \in V
    <2> HIDE DEF V
    <2> QED
      BY <1>1, <1>3, <1>4, Rounds
  <1>6. Kept(N) = {x \in Range(q) : x[1] \notin msgs}
    BY <1>1 DEF Range
  <1> QED
    BY <1>2, <1>5, <1>6

-----------------------------------------------------------------------------
(* The invariant of a channel, step by step.                               *)

\* What a step leaves alone at end e of channel c.
LogSame(e, c) ==
    /\ calls'[e][c] = calls[e][c] /\ sent'[e][c] = sent[e][c] /\ got'[e][c] = got[e][c]
    /\ (<<e, c>> \in closedBy') = (<<e, c>> \in closedBy)
    /\ (<<e, c>> \in swept') = (<<e, c>> \in swept)

\* A partial message may expire as well.
LogKept(e, c) ==
    /\ calls'[e][c] = calls[e][c] /\ sent'[e][c] = sent[e][c] /\ got'[e][c] = got[e][c]
    /\ (<<e, c>> \in closedBy') = (<<e, c>> \in closedBy)
    /\ ~(<<e, c>> \in swept') => ~(<<e, c>> \in swept)

LEMMA LogSameKept ==
    \A e \in Ends, c \in Ids : LogSame(e, c) => LogKept(e, c)
  BY DEF LogSame, LogKept

EndSame(e, c) ==
    /\ LogSame(e, c)
    /\ channels'[e][c] = channels[e][c] /\ terminal'[e][c] = terminal[e][c]
    /\ InTransit(tx'[e], c) = InTransit(tx[e], c)

\* What every step does to the rest.
Onward ==
    /\ bestEffort' = bestEffort /\ down \subseteq down'
    /\ \A e \in Ends : nextId[e] \in Nat /\ nextId'[e] \in Nat /\ nextId[e] <= nextId'[e]

LEMMA InTransitSendable ==
    ASSUME NEW t, SideOK(t), NEW c \in Ids
    PROVE  InTransit(t, c) \subseteq Sendable /\ \A f \in InTransit(t, c) : f.id = c
  BY SideFacts DEF InTransit

LEMMA ChannelTypes ==
    ASSUME StateTypes, \A e \in Ends : SideOK(tx[e]), NEW s \in Ends, NEW c \in Ids
    PROVE  /\ FlowTypes(InTransit(tx[s], c), channels[s][c], channels[Peer(s)][c], calls[s][c], sent[s][c],
                        got[Peer(s)][c])
           /\ channels[s][c] \in Records \cup {None} /\ terminal[s][c] \in Nat
  BY PeerFacts, InTransitSendable DEF StateTypes, FlowTypes

LEMMA Still ==
    ASSUME NEW c \in Ids, ChannelInv(c), Onward, \A e \in Ends : EndSame(e, c), ConstantsAssumption
    PROVE  ChannelInv(c)'
  <1>1. Opener(c) \in Ends /\ Peer(Opener(c)) \in Ends /\ c \in Nat
    BY PeerFacts, ConstantsAssumption
  <1>2. \A e \in Ends : Touched(e, c)' = Touched(e, c) /\ Has(e, c)' = Has(e, c) /\ (Alive(e)' => Alive(e))
    BY DEF EndSame, LogSame, Touched, Has, Onward, Alive
  <1>3. OpenedOnce(c)'
    BY <1>1, <1>2 DEF ChannelInv, OpenedOnce, EndSame, Onward
  <1>4. Opens(c)'
    BY <1>1, <1>2 DEF ChannelInv, Opens, EndSame, LogSame
  <1>5. \A e \in Ends : EndsOnce(e, c)'
    BY <1>2 DEF ChannelInv, EndsOnce, EndSame
  <1>6. ASSUME NEW s \in Ends, Flows(s, c)
        PROVE  Flows(s, c)'
    BY <1>6, PeerFacts DEF Flows, EndSame, LogSame
  <1> QED
    BY <1>3, <1>4, <1>5, <1>6 DEF ChannelInv, Onward

\* A step on one channel.
LEMMA OneChannel ==
    ASSUME IndInv, NEW c \in Ids, Onward, StateTypes', \A e \in Ends : SideOK(tx'[e]),
           \A d \in Ids \ {c} : \A e \in Ends : EndSame(e, d), ChannelInv(c)'
    PROVE  IndInv'
  <1>1. \A e \in Ends : SideOK(tx[e])'
    BY DEF SideOK, SideTypes, SideClasses, SideOrder, Onward
  <1>2. \A d \in Ids \ {c} : ChannelInv(d)'
    BY Still, ConstantsAssumption DEF IndInv
  <1> QED
    BY <1>1, <1>2 DEF IndInv

\* The id of a channel that has been used is not used again.
LEMMA UsedStaysUsed ==
    ASSUME NEW c \in Ids, ChannelInv(c), Onward, NEW e \in Ends, Touched(e, c),
           LET o == Opener(c)
           IN  c = 0 /\ Alive(o)' /\ ~Has(o, c)' /\ terminal'[o][c] = 0 => ~Has(o, c) /\ terminal[o][c] = 0
    PROVE  OpenedOnce(c)'
  <1>1. Opener(c) \in Ends /\ (e = Opener(c) \/ e = Peer(Opener(c))) /\ c \in Nat
    BY PeerFacts, ConstantsAssumption
  <1>2. Alive(Opener(c))' => Alive(Opener(c))
    BY DEF Onward, Alive
  <1> QED
    BY <1>1, <1>2 DEF ChannelInv, OpenedOnce, Onward

\* The receiver is gone: what is left of the data only has its numbers.
LEMMA FlowDead ==
    ASSUME NEW S, NEW from, NEW to, NEW count, NEW msgs, NEW given, NEW closed, NEW lost, NEW U,
           Flow(S, from, to, count, msgs, given, closed, lost), U \subseteq S, NEW lost1, ~lost1 => ~lost
    PROVE  Flow(U, from, None, count, msgs, given, closed, lost1)
  <1>1. DataOf(U) \subseteq DataOf(S)
    BY DEF DataOf
  <1> QED
    BY <1>1 DEF Flow, Numbered, Listens

\* End e forgets the channel and drops what it still can of its frames; from
\* the other end nothing new comes.
LEMMA ChannelEnds ==
    ASSUME IndInv, NEW c \in Ids, NEW e \in Ends, Onward,
           LogKept(e, c), LogSame(Peer(e), c),
           channels'[e][c] = None, channels'[Peer(e)][c] = channels[Peer(e)][c],
           terminal'[e][c] \in {0, 1}, terminal'[Peer(e)][c] = terminal[Peer(e)][c],
           SideOK(tx'[e]),
           CutFrames(InTransit(tx[e], c), InTransit(tx'[e], c)),
           InTransit(tx'[Peer(e)], c) \subseteq InTransit(tx[Peer(e)], c),
           Has(e, c),
           c = 0 /\ e = Opener(c) => terminal'[e][c] # 0 \/ ~Alive(e)'
    PROVE  ChannelInv(c)'
  <1> DEFINE p == Peer(e)
             S == InTransit(tx[e], c)
             U == InTransit(tx'[e], c)
             R == InTransit(tx[p], c)
             T == InTransit(tx'[p], c)
  <1>1. /\ p \in Ends /\ Peer(p) = e /\ p # e /\ Opener(c) \in Ends
        /\ Opener(c) = e \/ Opener(c) = p
    BY PeerFacts
  <1>2. ChannelInv(c) /\ StateTypes /\ \A x \in Ends : SideOK(tx[x])
    BY DEF IndInv
  <1>3. ~Has(e, c)' /\ Has(p, c)' = Has(p, c)
    BY DEF Has
  <1>4. Touched(e, c)
    BY DEF Touched
  <1>5. OpenedOnce(c)'
    BY <1>1, <1>2, <1>3, <1>4, UsedStaysUsed
  <1>6. /\ \A kind \in {"Open", "OpenAck"} : HasKind(U, kind) => HasKind(S, kind)
        /\ \A kind : HasKind(T, kind) => HasKind(R, kind)
        /\ \A f \in U : f.kind = "OpenAck" => f \in S
        /\ DataOf(U) \subseteq DataOf(S) /\ DataOf(T) \subseteq DataOf(R)
    BY DEF CutFrames, HasKind, DataOf, IsData
  <1>7. Touched(p, c)' => Touched(p, c)
    BY <1>3 DEF Touched, LogSame
  <1>8. Opens(c)'
    <2>1. Opens(c)
      BY <1>2 DEF ChannelInv
    <2> HIDE DEF S, U, R, T
    <2>2. CASE Opener(c) = e
      <3>1. Peer(Opener(c)) = p
        BY <2>2
      <3> QED
        BY <1>3, <1>6, <1>7, <2>1, <2>2, <3>1 DEF Opens, LogSame, LogKept, S, U, R, T
    <2>3. CASE Opener(c) = p
      <3>1. Peer(Opener(c)) = e
        BY <1>1, <2>3
      <3>2. ~HasKind(R, "Open")
        BY <1>4, <2>1, <2>3, <3>1 DEF Opens, R
      <3> QED
        BY <1>3, <1>6, <2>1, <2>3, <3>1, <3>2 DEF Opens, LogSame, LogKept, S, U, R, T
    <2> QED
      BY <1>1, <2>2, <2>3
  <1>9. \A x \in Ends : EndsOnce(x, c)'
    BY <1>1, <1>2, <1>3, PeerFacts DEF ChannelInv, EndsOnce
  <1>10. ASSUME c \notin bestEffort
         PROVE  Flows(e, c)' /\ Flows(p, c)'
    <2>1. Flows(e, c) /\ Flows(p, c)
      BY <1>1, <1>2, <1>10 DEF ChannelInv
    <2>2. Flow(U, None, channels[p][c], calls[e][c], sent[e][c], got[p][c],
               <<e, c>> \in closedBy, <<p, c>> \in swept)
      <3>1. FlowTypes(S, channels[e][c], channels[p][c], calls[e][c], sent[e][c], got[p][c])
        BY <1>2, ChannelTypes
      <3>2. U \subseteq Sendable
        BY InTransitSendable
      <3>3. Flow(S, channels[e][c], channels[p][c], calls[e][c], sent[e][c], got[p][c],
               <<e, c>> \in closedBy, <<p, c>> \in swept)
        BY <2>1 DEF Flows
      <3> HIDE DEF S, U, p
      <3> QED
        BY <3>1, <3>2, <3>3, FlowCut DEF S, U
    <2>3. Flow(T, channels[p][c], None, calls[p][c], sent[p][c], got[e][c],
               <<p, c>> \in closedBy, <<e, c>> \in swept')
      <3>1. Flow(R, channels[p][c], channels[e][c], calls[p][c], sent[p][c], got[e][c],
               <<p, c>> \in closedBy, <<e, c>> \in swept)
        BY <1>1, <2>1 DEF Flows
      <3> DEFINE closed == <<p, c>> \in closedBy
                 lost == <<e, c>> \in swept
                 lost1 == <<e, c>> \in swept'
      <3>2. T \subseteq R /\ (~lost1 => ~lost)
        BY DEF LogKept
      <3> HIDE DEF R, T, p, closed, lost, lost1
      <3>3. Flow(R, channels[p][c], channels[e][c], calls[p][c], sent[p][c], got[e][c], closed, lost)
        BY <3>1 DEF closed, lost
      <3>4. Flow(T, channels[p][c], None, calls[p][c], sent[p][c], got[e][c], closed, lost1)
        BY <3>2, <3>3, FlowDead
      <3> QED
        BY <3>4 DEF closed, lost1
    <2> HIDE DEF p
    <2>4. Flows(e, c)'
      BY <2>2 DEF Flows, LogSame, LogKept, U, p
    <2>5. Flows(p, c)'
      BY <1>1, <2>3 DEF Flows, LogSame, LogKept, T, p
    <2> QED
      BY <2>4, <2>5
  <1>11. \A x \in Ends : x = e \/ x = p
    BY PeerFacts
  <1> QED
    BY <1>5, <1>8, <1>9, <1>10, <1>11 DEF ChannelInv, Onward

\* Only frames in transit go away.
LEMMA FramesLess ==
    ASSUME IndInv, NEW c \in Ids, Onward,
           \A x \in Ends : /\ LogSame(x, c) /\ channels'[x][c] = channels[x][c]
                           /\ terminal'[x][c] = terminal[x][c]
                           /\ InTransit(tx'[x], c) \subseteq InTransit(tx[x], c),
           c \notin bestEffort => \A x \in Ends : Flows(x, c)'
    PROVE  ChannelInv(c)'
  <1> DEFINE o == Opener(c)
             p == Peer(o)
  <1>1. o \in Ends /\ p \in Ends /\ c \in Nat
    BY PeerFacts, ConstantsAssumption
  <1>2. ChannelInv(c)
    BY DEF IndInv
  <1>3. \A x \in Ends : /\ Has(x, c)' = Has(x, c) /\ (Alive(x)' => Alive(x))
                        /\ Touched(x, c)' => Touched(x, c)
    BY DEF LogSame, Touched, Has, Onward, Alive
  <1>4. OpenedOnce(c)'
    BY <1>1, <1>2, <1>3 DEF ChannelInv, OpenedOnce, Onward
  <1>5. /\ \A kind : HasKind(InTransit(tx'[o], c), kind) => HasKind(InTransit(tx[o], c), kind)
        /\ \A kind : HasKind(InTransit(tx'[p], c), kind) => HasKind(InTransit(tx[p], c), kind)
        /\ DataOf(InTransit(tx'[o], c)) \subseteq DataOf(InTransit(tx[o], c))
    BY <1>1 DEF HasKind, DataOf
  <1>6. Opens(c)'
    BY <1>1, <1>2, <1>3, <1>5 DEF ChannelInv, Opens, LogSame
  <1>7. \A e \in Ends : EndsOnce(e, c)'
    BY <1>2, <1>3 DEF ChannelInv, EndsOnce
  <1> QED
    BY <1>4, <1>6, <1>7 DEF ChannelInv, Onward

\* The data that comes the other way, when the record it comes to keeps what
\* it knows of it.
LEMMA OtherWay ==
    ASSUME IndInv, NEW c \in Ids, NEW e \in Ends, Onward, c \notin bestEffort,
           EndSame(Peer(e), c), got'[e][c] = got[e][c],
           channels'[e][c] # None =>
                /\ channels[e][c] # None /\ channels'[e][c].rx = channels[e][c].rx
                /\ channels'[e][c].state = "Open" => channels[e][c].state = "Open",
           ~(<<e, c>> \in swept') => ~(<<e, c>> \in swept),
           ~(<<e, c>> \in swept') /\ channels'[e][c] # None =>
                Range(channels'[e][c].partial) = Range(channels[e][c].partial)
    PROVE  Flows(Peer(e), c)'
  <1> DEFINE p == Peer(e)
             R == InTransit(tx[p], c)
             closed == <<p, c>> \in closedBy
             lost == <<e, c>> \in swept
             lost1 == <<e, c>> \in swept'
             from == channels[p][c]
             to == channels[e][c]
             to1 == channels'[e][c]
  <1>1. p \in Ends /\ Peer(p) = e
    BY PeerFacts
  <1>2. Flow(R, from, to, calls[p][c], sent[p][c], got[e][c], closed, lost)
    BY <1>1 DEF IndInv, ChannelInv, Flows
  <1>3. FlowTypes(R, from, to, calls[p][c], sent[p][c], got[e][c])
    BY <1>1, ChannelTypes DEF IndInv
  <1>4. /\ Listens(R, to1) => Listens(R, to) /\ to1.rx = to.rx
        /\ ~lost1 /\ Listens(R, to1) => Range(to1.partial) = Range(to.partial)
        /\ ~lost1 => ~lost
    BY DEF Listens
  <1>5. calls[p][c] \in Nat /\ calls[p][c] <= calls[p][c]
    BY <1>3 DEF FlowTypes
  <1> HIDE DEF R, p, closed, lost, lost1, from, to, to1
  <1>6. Flow(R, from, to1, calls[p][c], sent[p][c], got[e][c], closed, lost1)
    BY <1>2, <1>3, <1>4, <1>5, FlowSame
  <1> QED
    BY <1>1, <1>6 DEF Flows, EndSame, LogSame, p, R, closed, lost1, from, to1

\* SendData on an open channel: what it does to the data is another matter.
LEMMA ChannelSends ==
    ASSUME IndInv, NEW c \in Ids, NEW e \in Ends, Onward,
           EndSame(Peer(e), c), channels[e][c].state = "Open",
           channels'[e][c] # None, channels'[e][c].state = "Open", channels'[e][c].rx = channels[e][c].rx,
           channels'[e][c].partial = channels[e][c].partial,
           got'[e][c] = got[e][c], terminal'[e][c] = terminal[e][c],
           (<<e, c>> \in swept') = (<<e, c>> \in swept),
           \A f \in InTransit(tx'[e], c) : f \in InTransit(tx[e], c) \/ IsData(f),
           c \notin bestEffort => Flows(e, c)'
    PROVE  ChannelInv(c)'
  <1> DEFINE p == Peer(e)
             S == InTransit(tx[e], c)
             U == InTransit(tx'[e], c)
  <1>1. /\ p \in Ends /\ Peer(p) = e /\ p # e /\ Opener(c) \in Ends
        /\ Opener(c) = e \/ Opener(c) = p
    BY PeerFacts
  <1>2. ChannelInv(c)
    BY DEF IndInv
  <1>3. Has(e, c) /\ Has(e, c)' /\ Has(p, c)' = Has(p, c)
    BY RecordFacts DEF Has, EndSame
  <1>4. Touched(e, c)
    BY <1>3 DEF Touched
  <1>5. OpenedOnce(c)'
    <2>1. (Has(Opener(c), c)' <=> Has(Opener(c), c)) /\ terminal'[Opener(c)][c] = terminal[Opener(c)][c]
      BY <1>1, <1>3 DEF EndSame
    <2> QED
      BY <1>2, <1>4, <2>1, UsedStaysUsed
  <1>6. \A f \in U : f.kind \in {"Open", "OpenAck"} => f \in S
    BY DEF IsData
  <1>7. \A kind \in {"Open", "OpenAck"} : HasKind(U, kind) => HasKind(S, kind)
    BY <1>6 DEF HasKind
  <1>8. Opens(c)'
    <2>1. Opens(c)
      BY <1>2 DEF ChannelInv
    <2> HIDE DEF S, U
    <2>2. CASE Opener(c) = e
      <3>1. Peer(Opener(c)) = p
        BY <2>2
      <3>2. ~HasKind(S, "Open") /\ ~HasKind(InTransit(tx[p], c), "OpenAck")
        BY <1>3, <2>1, <2>2, <3>1 DEF Opens, S
      <3> QED
        BY <1>7, <2>1, <2>2, <3>1, <3>2 DEF Opens, EndSame, S, U
    <2>3. CASE Opener(c) = p
      <3>1. Peer(Opener(c)) = e
        BY <1>1, <2>3
      <3>2. ~HasKind(InTransit(tx[p], c), "Open")
        BY <1>4, <2>1, <2>3, <3>1 DEF Opens
      <3> QED
        BY <1>3, <1>6, <1>7, <2>1, <2>3, <3>1, <3>2 DEF Opens, EndSame, LogSame, S, U
    <2> QED
      BY <1>1, <2>2, <2>3
  <1>9. \A x \in Ends : EndsOnce(x, c)'
    BY <1>1, <1>2, <1>3, PeerFacts DEF ChannelInv, EndsOnce, EndSame
  <1>10. c \notin bestEffort => Flows(p, c)'
    BY <1>3, OtherWay DEF Has
  <1>11. \A x \in Ends : x = e \/ x = p
    BY PeerFacts
  <1> QED
    BY <1>5, <1>8, <1>9, <1>10, <1>11 DEF ChannelInv, Onward

\* CloseChannel.
LEMMA ChannelCloses ==
    ASSUME IndInv, NEW c \in Ids, NEW e \in Ends, Onward,
           EndSame(Peer(e), c), Has(e, c),
           channels'[e][c] # None, channels'[e][c].state = "Closing", channels'[e][c].rx = channels[e][c].rx,
           channels'[e][c].partial = channels[e][c].partial, channels'[e][c].tx = channels[e][c].tx + 1,
           calls'[e][c] = calls[e][c], sent'[e][c] = sent[e][c],
           got'[e][c] = got[e][c], terminal'[e][c] = terminal[e][c],
           (<<e, c>> \in swept') = (<<e, c>> \in swept), <<e, c>> \in closedBy',
           InTransit(tx[e], c) \subseteq InTransit(tx'[e], c),
           \A f \in InTransit(tx'[e], c) : f \in InTransit(tx[e], c) \/ f.kind = "Close"
    PROVE  ChannelInv(c)'
  <1> DEFINE p == Peer(e)
             S == InTransit(tx[e], c)
             U == InTransit(tx'[e], c)
  <1>1. /\ p \in Ends /\ Peer(p) = e /\ p # e /\ Opener(c) \in Ends
        /\ Opener(c) = e \/ Opener(c) = p
    BY PeerFacts
  <1>2. ChannelInv(c)
    BY DEF IndInv
  <1>3. Has(e, c)' /\ Has(p, c)' = Has(p, c)
    BY DEF Has, EndSame
  <1>4. Touched(e, c)
    BY DEF Touched
  <1>5. OpenedOnce(c)'
    <2>1. (Has(Opener(c), c)' <=> Has(Opener(c), c)) /\ terminal'[Opener(c)][c] = terminal[Opener(c)][c]
      BY <1>1, <1>3 DEF EndSame
    <2> QED
      BY <1>2, <1>4, <2>1, UsedStaysUsed
  <1>6. \A f \in U : f.kind \in {"Open", "OpenAck"} \/ IsData(f) => f \in S
    BY DEF IsData
  <1>7. /\ \A kind \in {"Open", "OpenAck"} : HasKind(U, kind) = HasKind(S, kind)
        /\ DataOf(U) = DataOf(S)
    BY <1>6 DEF HasKind, DataOf
  <1>8. Opens(c)'
    <2>1. Opens(c)
      BY <1>2 DEF ChannelInv
    <2> HIDE DEF S, U
    <2>2. CASE Opener(c) = e
      <3>1. Peer(Opener(c)) = p
        BY <2>2
      <3>2. Touched(p, c)' = Touched(p, c)
        BY <1>3 DEF Touched, EndSame, LogSame
      <3> QED
        BY <1>3, <1>7, <2>1, <2>2, <3>1, <3>2 DEF Opens, EndSame, LogSame, S, U
    <2>3. CASE Opener(c) = p
      <3>1. Peer(Opener(c)) = e
        BY <1>1, <2>3
      <3>2. ~HasKind(InTransit(tx[p], c), "Open")
        BY <1>4, <2>1, <2>3, <3>1 DEF Opens
      <3> QED
        BY <1>3, <1>6, <1>7, <2>1, <2>3, <3>1, <3>2 DEF Opens, EndSame, LogSame, S, U
    <2> QED
      BY <1>1, <2>2, <2>3
  <1>9. \A x \in Ends : EndsOnce(x, c)'
    BY <1>1, <1>2, <1>3, PeerFacts DEF ChannelInv, EndsOnce, EndSame
  <1>10. c \notin bestEffort => Flows(p, c)'
    BY OtherWay DEF Has
  <1>11. ASSUME c \notin bestEffort
         PROVE  Flows(e, c)'
    <2>1. Flow(S, channels[e][c], channels[p][c], calls[e][c], sent[e][c], got[p][c],
               <<e, c>> \in closedBy, <<p, c>> \in swept)
      BY <1>1, <1>2, <1>11 DEF ChannelInv, Flows
    <2>2. FlowTypes(S, channels[e][c], channels[p][c], calls[e][c], sent[e][c], got[p][c])
      BY ChannelTypes DEF IndInv
    <2>3. Listens(U, channels[p][c]) => Listens(S, channels[p][c])
      BY <1>7 DEF Listens
    <2>4. channels[e][c] # None
      BY DEF Has
    <2> HIDE DEF S, U, p
    <2>5. Flow(U, channels'[e][c], channels[p][c], calls[e][c], sent[e][c], got[p][c],
               TRUE, <<p, c>> \in swept)
      BY <1>7, <2>1, <2>2, <2>3, <2>4, FlowClose
    <2> QED
      BY <2>5 DEF Flows, EndSame, LogSame, U, p
  <1>12. \A x \in Ends : x = e \/ x = p
    BY PeerFacts
  <1> QED
    BY <1>5, <1>8, <1>9, <1>10, <1>11, <1>12 DEF ChannelInv, Onward

\* SweepExpired at end e.
LEMMA ChannelSwept ==
    ASSUME IndInv, NEW c \in Ids, NEW e \in Ends, Onward,
           EndSame(Peer(e), c), Has(e, c)' <=> Has(e, c),
           Has(e, c) =>
                /\ channels'[e][c].state = channels[e][c].state /\ channels'[e][c].rx = channels[e][c].rx
                /\ channels'[e][c].tx = channels[e][c].tx
                /\ channels[e][c].partial = <<>> => channels'[e][c].partial = <<>>,
           calls'[e][c] = calls[e][c], sent'[e][c] = sent[e][c],
           got'[e][c] = got[e][c], terminal'[e][c] = terminal[e][c],
           (<<e, c>> \in closedBy') = (<<e, c>> \in closedBy),
           ~(<<e, c>> \in swept') => ~(<<e, c>> \in swept),
           ~(<<e, c>> \in swept') /\ Has(e, c) => Range(channels'[e][c].partial) = Range(channels[e][c].partial),
           InTransit(tx'[e], c) = InTransit(tx[e], c)
    PROVE  ChannelInv(c)'
  <1> DEFINE p == Peer(e)
  <1>1. /\ p \in Ends /\ Peer(p) = e /\ p # e /\ Opener(c) \in Ends /\ c \in Nat
        /\ Opener(c) = e \/ Opener(c) = p
        /\ \A x \in Ends : x = e \/ x = p
    BY PeerFacts, ConstantsAssumption
  <1>2. ChannelInv(c)
    BY DEF IndInv
  <1>3. \A x \in Ends : /\ Has(x, c)' <=> Has(x, c)
                        /\ Touched(x, c)' <=> Touched(x, c)
                        /\ Alive(x)' => Alive(x)
                        /\ terminal'[x][c] = terminal[x][c]
                        /\ InTransit(tx'[x], c) = InTransit(tx[x], c)
                        /\ sent'[x][c] = sent[x][c] /\ got'[x][c] = got[x][c]
                        /\ (<<x, c>> \in closedBy') = (<<x, c>> \in closedBy)
    <2>1. Has(p, c)' <=> Has(p, c)
      BY DEF EndSame, Has
    <2> QED
      BY <1>1, <2>1 DEF EndSame, LogSame, Touched, Onward, Alive
  <1>4. OpenedOnce(c)'
    <2> DEFINE o == Opener(c)
    <2>1. /\ Touched(o, c)' <=> Touched(o, c)
          /\ Touched(Peer(o), c)' <=> Touched(Peer(o), c)
          /\ Has(o, c)' <=> Has(o, c)
          /\ Alive(o)' => Alive(o)
          /\ terminal'[o][c] = terminal[o][c]
          /\ nextId[o] \in Nat /\ nextId'[o] \in Nat /\ nextId[o] <= nextId'[o]
      BY <1>1, <1>3, PeerFacts DEF Onward
    <2> QED
      BY <1>1, <1>2, <2>1 DEF ChannelInv, OpenedOnce
  <1>5. \A x \in Ends : Has(x, c) =>
            /\ channels'[x][c].state = channels[x][c].state /\ channels'[x][c].rx = channels[x][c].rx
            /\ channels'[x][c].tx = channels[x][c].tx
            /\ channels[x][c].partial = <<>> => channels'[x][c].partial = <<>>
    BY <1>1 DEF EndSame
  <1>6. Opens(c)'
    BY <1>1, <1>2, <1>3, <1>5, PeerFacts DEF ChannelInv, Opens
  <1>7. \A x \in Ends : EndsOnce(x, c)'
    BY <1>2, <1>3 DEF ChannelInv, EndsOnce
  <1>8. c \notin bestEffort => Flows(p, c)'
    <2>1. channels'[e][c] # None => Has(e, c)
      BY DEF Has
    <2> QED
      BY <2>1, OtherWay DEF Has
  <1>9. ASSUME c \notin bestEffort
        PROVE  Flows(e, c)'
    <2> DEFINE S == InTransit(tx[e], c)
               closed == <<e, c>> \in closedBy
               lost == <<p, c>> \in swept
               from == channels[e][c]
               from1 == channels'[e][c]
               to == channels[p][c]
    <2>1. Flow(S, from, to, calls[e][c], sent[e][c], got[p][c], closed, lost)
      BY <1>1, <1>2, <1>9 DEF ChannelInv, Flows
    <2>2. FlowTypes(S, from, to, calls[e][c], sent[e][c], got[p][c])
      BY ChannelTypes DEF IndInv
    <2>3. from1 # None => from # None /\ from1.tx = from.tx
      BY DEF Has
    <2>4. calls[e][c] \in Nat /\ calls[e][c] <= calls[e][c]
      BY <2>2 DEF FlowTypes
    <2> HIDE DEF S, p, closed, lost, from, from1, to
    <2>5. Flow(S, from1, to, calls[e][c], sent[e][c], got[p][c], closed, lost)
      BY <2>1, <2>2, <2>3, <2>4, FlowSame
    <2> QED
      BY <2>5 DEF Flows, EndSame, LogSame, S, p, closed, lost, from1, to
  <1> QED
    BY <1>1, <1>4, <1>6, <1>7, <1>8, <1>9 DEF ChannelInv, Onward

\* Two OPENs of a channel are the same frame.
LEMMA OneOpen ==
    ASSUME NEW f \in Sendable, NEW g \in Sendable, f.kind = "Open", g.kind = "Open", f.id = g.id
    PROVE  f = g
  BY DEF Sendable

\* OpenOutbound.
LEMMA ChannelOpened ==
    ASSUME IndInv, NEW c \in Ids, NEW e \in Ends, Onward,
           EndSame(Peer(e), c), LogSame(e, c), terminal'[e][c] = terminal[e][c],
           e = Opener(c), ~Has(e, c), StateTypes',
           IF c = 0 THEN Alive(e) /\ terminal[e][c] = 0 ELSE nextId[e] = c /\ nextId'[e] > c,
           channels'[e][c] = Record("Opening"), SideOK(tx'[e]),
           \A f \in InTransit(tx'[e], c) : f \in InTransit(tx[e], c) \/ f.kind = "Open"
    PROVE  ChannelInv(c)'
  <1> DEFINE p == Peer(e)
             U == InTransit(tx'[e], c)
  <1>1. p \in Ends /\ Peer(p) = e /\ p # e /\ c \in Nat /\ \A x \in Ends : x = e \/ x = p
    BY PeerFacts, ConstantsAssumption
  <1>2. ~Touched(e, c) /\ ~Touched(p, c)
    BY <1>1 DEF IndInv, ChannelInv, OpenedOnce
  <1>3. /\ InTransit(tx[e], c) = {} /\ InTransit(tx[p], c) = {} /\ ~Has(p, c)
        /\ terminal[e][c] = 0 /\ terminal[p][c] = 0
        /\ sent[e][c] = <<>> /\ sent[p][c] = <<>> /\ got[e][c] = <<>> /\ got[p][c] = <<>>
    BY <1>2 DEF Touched
  <1>4. /\ \A f \in U : f.kind = "Open"
        /\ InTransit(tx'[p], c) = {} /\ ~Has(p, c)' /\ Has(e, c)' /\ ~Touched(p, c)'
        /\ channels'[e][c].state = "Opening" /\ channels'[e][c].rx = 1 /\ channels'[e][c].tx = 1
        /\ channels'[e][c].partial = <<>>
    BY <1>2, <1>3 DEF EndSame, LogSame, Has, Touched, Record, None
  <1>5. OpenedOnce(c)'
    BY <1>1, <1>4 DEF OpenedOnce, Onward
  <1>6. DataOf(U) = {} /\ ~HasKind(U, "OpenAck") /\ ~HasKind(InTransit(tx'[p], c), "Open")
        /\ ~HasKind(InTransit(tx'[p], c), "OpenAck") /\ DataOf(InTransit(tx'[p], c)) = {}
    BY <1>4 DEF DataOf, IsData, HasKind
  <1>7. Opens(c)'
    <2> HIDE DEF U
    <2> QED
      BY <1>1, <1>3, <1>4, <1>6 DEF Opens, EndSame, LogSame, U
  <1>8. \A x \in Ends : EndsOnce(x, c)'
    BY <1>1, <1>3, <1>4 DEF EndsOnce, EndSame
  <1>9. ASSUME NEW x \in Ends, NEW y \in Ends, y = Peer(x)
        PROVE  Flow(InTransit(tx'[x], c), channels'[x][c], channels'[y][c], calls'[x][c], sent'[x][c],
                    got'[y][c], <<x, c>> \in closedBy', <<y, c>> \in swept')
    <2> DEFINE S == InTransit(tx'[x], c)
               from == channels'[x][c]
               to == channels'[y][c]
               closed == <<x, c>> \in closedBy'
               lost == <<y, c>> \in swept'
    <2>1. DataOf(S) = {} /\ sent'[x][c] = <<>> /\ got'[y][c] = <<>>
      BY <1>1, <1>3, <1>6, <1>9 DEF EndSame, LogSame
    <2>2. ~Listens(S, to)
      BY <1>1, <1>4, <1>6, <1>9, PeerFacts DEF Listens, Has, None
    <2>3. FlowTypes(S, from, to, calls'[x][c], sent'[x][c], got'[y][c])
      <3>1. S \subseteq Sendable
        BY <1>1, <1>4, InTransitSendable
      <3> QED
        BY <3>1 DEF StateTypes, FlowTypes
    <2> HIDE DEF S, from, to, closed, lost
    <2>4. Flow(S, from, to, calls'[x][c], sent'[x][c], got'[y][c], closed, lost)
      BY <2>1, <2>2, <2>3, FlowFresh
    <2> QED
      BY <2>4 DEF S, from, to, closed, lost
  <1>10. \A x \in Ends : Flows(x, c)'
    BY <1>9, PeerFacts DEF Flows
  <1> QED
    BY <1>5, <1>7, <1>8, <1>10 DEF ChannelInv

\* The other end's frames without the one that came out; the rest of it is
\* as it was.
EndGives(p, c, f) ==
    /\ LogSame(p, c) /\ channels'[p][c] = channels[p][c] /\ terminal'[p][c] = terminal[p][c]
    /\ f \in Sendable /\ f.id = c /\ SideOK(tx'[p])
    /\ InTransit(tx[p], c) = InTransit(tx'[p], c) \cup {f}
    /\ Ranked(f) => f \notin InTransit(tx'[p], c)
    /\ c \notin bestEffort => \A g \in InTransit(tx'[p], c) : Precedes(f, g)

\* HandleOpen: the OPEN is the first that end e hears of the channel.
LEMMA OpenComesFirst ==
    ASSUME IndInv, NEW c \in Ids, NEW e \in Ends, NEW f \in InTransit(tx[Peer(e)], c), f.kind = "Open"
    PROVE  Peer(e) = Opener(c) /\ ~Touched(e, c) /\ ~Has(e, c)
  <1>1. HasKind(InTransit(tx[Peer(e)], c), "Open")
    BY DEF HasKind
  <1>2. Opens(c) /\ Opener(c) \in Ends /\ Peer(Peer(e)) = e /\ (Opener(c) = e \/ Opener(c) = Peer(e))
    BY PeerFacts DEF IndInv, ChannelInv
  <1> QED
    BY <1>1, <1>2 DEF Opens, Touched

LEMMA ChannelAccepted ==
    ASSUME IndInv, NEW c \in Ids, NEW e \in Ends, Onward, NEW f, f.kind = "Open",
           EndGives(Peer(e), c, f), LogSame(e, c), terminal'[e][c] = terminal[e][c], StateTypes',
           channels'[e][c] = Record("Open") \/ channels'[e][c] = None, SideOK(tx'[e]),
           \E ack \in Sendable : /\ ack.kind = "OpenAck"
                                 /\ InTransit(tx'[e], c) \subseteq InTransit(tx[e], c) \cup {ack}
    PROVE  ChannelInv(c)'
  <1> DEFINE o == Peer(e)
             F == InTransit(tx[o], c)
             G == InTransit(tx'[o], c)
             U == InTransit(tx'[e], c)
  <1>1. f \in F /\ f \in Sendable /\ F = G \cup {f} /\ f \notin G
    BY DEF EndGives, Ranked
  <1>2. /\ o \in Ends /\ Peer(o) = e /\ o # e /\ c \in Nat /\ \A x \in Ends : x = e \/ x = o
        /\ o = Opener(c) /\ ~Touched(e, c) /\ ~Has(e, c)
    BY <1>1, PeerFacts, OpenComesFirst, ConstantsAssumption
  <1>3. /\ InTransit(tx[e], c) = {} /\ terminal[e][c] = 0 /\ sent[e][c] = <<>> /\ got[e][c] = <<>>
    BY <1>2 DEF Touched
  <1>4. PICK ack \in Sendable : ack.kind = "OpenAck" /\ U \subseteq {ack}
    BY <1>3
  <1>5. Opens(c) /\ HasKind(F, "Open")
    BY <1>1 DEF IndInv, ChannelInv, HasKind
  <1>6. /\ DataOf(F) = {} /\ sent[o][c] = <<>> /\ got[o][c] = <<>> /\ ~HasKind(F, "OpenAck")
        /\ Has(o, c) =>
                /\ channels[o][c].state # "Open" /\ channels[o][c].rx = 1 /\ channels[o][c].partial = <<>>
                /\ channels[o][c].tx = 1 \/ <<o, c>> \in closedBy
    BY <1>2, <1>5 DEF Opens
  <1>7. Touched(o, c)
    BY <1>1 DEF Touched
  <1>8. OpenedOnce(c)'
    <2>1. (Has(o, c)' <=> Has(o, c)) /\ terminal'[o][c] = terminal[o][c]
      BY DEF Has, EndGives
    <2>2. ChannelInv(c)
      BY DEF IndInv
    <2> QED
      BY <1>2, <1>7, <2>1, <2>2, UsedStaysUsed
  <1>9. ~HasKind(G, "Open")
    <2>1. G \subseteq Sendable /\ \A g \in G : g.id = c
      BY InTransitSendable DEF EndGives
    <2>2. f.id = c
      BY DEF EndGives
    <2> QED
      BY <1>1, <2>1, <2>2, OneOpen DEF HasKind
  <1>10. DataOf(G) = {} /\ ~HasKind(G, "OpenAck") /\ DataOf(U) = {} /\ ~HasKind(U, "Open")
    BY <1>1, <1>4, <1>6 DEF DataOf, HasKind, IsData
  <1>11. Has(o, c)' <=> Has(o, c)
    BY DEF Has, EndGives
  <1>12. Opens(c)'
    <2> HIDE DEF U, G, F, o
    <2>1. /\ sent'[o][c] = <<>> /\ got'[o][c] = <<>> /\ got'[e][c] = <<>>
          /\ channels'[o][c] = channels[o][c] /\ (<<o, c>> \in closedBy') = (<<o, c>> \in closedBy)
      BY <1>3, <1>6 DEF EndGives, LogSame, o
    <2> QED
      BY <1>2, <1>4, <1>6, <1>9, <1>10, <1>11, <2>1 DEF Opens, U, G
  <1>13. \A x \in Ends : EndsOnce(x, c)'
    <2>1. EndsOnce(o, c)
      BY <1>2 DEF IndInv, ChannelInv
    <2> QED
      BY <1>2, <1>3, <1>11, <2>1 DEF EndsOnce, EndGives
  <1>14. ASSUME NEW x \in Ends, NEW y \in Ends, y = Peer(x)
         PROVE  Flow(InTransit(tx'[x], c), channels'[x][c], channels'[y][c], calls'[x][c], sent'[x][c],
                     got'[y][c], <<x, c>> \in closedBy', <<y, c>> \in swept')
    <2> DEFINE S == InTransit(tx'[x], c)
               from == channels'[x][c]
               to == channels'[y][c]
               closed == <<x, c>> \in closedBy'
               lost == <<y, c>> \in swept'
    <2>1. DataOf(S) = {} /\ sent'[x][c] = <<>> /\ got'[y][c] = <<>>
      BY <1>2, <1>3, <1>6, <1>10, <1>14 DEF EndGives, LogSame
    <2>2. to # None => /\ to.rx = 1 /\ to.partial = <<>>
                       /\ from # None => from.tx = 1 \/ closed
      BY <1>2, <1>6, <1>14 DEF Has, Record, EndGives, LogSame
    <2>3. FlowTypes(S, from, to, calls'[x][c], sent'[x][c], got'[y][c])
      <3>1. S \subseteq Sendable
        BY <1>2, InTransitSendable DEF EndGives
      <3> QED
        BY <3>1 DEF StateTypes, FlowTypes
    <2>4. Listens(S, to) => to # None
      BY DEF Listens
    <2> HIDE DEF S, from, to, closed, lost
    <2>5. Flow(S, from, to, calls'[x][c], sent'[x][c], got'[y][c], closed, lost)
      BY <2>1, <2>2, <2>3, <2>4, FlowFresh
    <2> QED
      BY <2>5 DEF S, from, to, closed, lost
  <1>15. \A x \in Ends : Flows(x, c)'
    BY <1>14, PeerFacts DEF Flows
  <1> QED
    BY <1>8, <1>12, <1>13, <1>15 DEF ChannelInv

\* HandleOpenAck: it comes to the opener, once.
LEMMA AckComesOnce ==
    ASSUME IndInv, NEW c \in Ids, NEW e \in Ends, NEW f, f.kind = "OpenAck", EndGives(Peer(e), c, f)
    PROVE  /\ e = Opener(c) /\ Touched(Peer(e), c) /\ ~HasKind(InTransit(tx[e], c), "Open")
           /\ HasKind(InTransit(tx[Peer(e)], c), "OpenAck")
           /\ ~HasKind(InTransit(tx'[Peer(e)], c), "OpenAck") /\ ~HasKind(InTransit(tx'[Peer(e)], c), "Open")
           /\ DataOf(InTransit(tx'[Peer(e)], c)) = DataOf(InTransit(tx[Peer(e)], c))
  <1> DEFINE p == Peer(e)
             R == InTransit(tx[p], c)
             T == InTransit(tx'[p], c)
  <1>1. f \in R /\ R = T \cup {f} /\ f \notin T
    BY DEF EndGives, Ranked
  <1>2. HasKind(R, "OpenAck") /\ Touched(p, c)
    BY <1>1 DEF HasKind, Touched
  <1>3. Opens(c) /\ Opener(c) \in Ends /\ Peer(p) = e /\ (Opener(c) = e \/ Opener(c) = p)
    BY PeerFacts DEF IndInv, ChannelInv
  <1>4. e = Opener(c)
    BY <1>2, <1>3 DEF Opens
  <1>5. \A g \in T : g.kind # "OpenAck"
    BY <1>1, <1>3, <1>4 DEF Opens
  <1>6. ~HasKind(T, "OpenAck") /\ DataOf(T) = DataOf(R)
    BY <1>1, <1>5 DEF HasKind, DataOf, IsData
  <1>7. ~HasKind(T, "Open") /\ ~HasKind(InTransit(tx[e], c), "Open")
    BY <1>1, <1>2, <1>3, <1>4 DEF Opens, HasKind
  <1> QED
    BY <1>2, <1>4, <1>6, <1>7

LEMMA ChannelAcked ==
    ASSUME IndInv, NEW c \in Ids, NEW e \in Ends, Onward, NEW f, f.kind = "OpenAck",
           EndGives(Peer(e), c, f), Has(e, c),
           channels'[e][c] # None, channels'[e][c].rx = channels[e][c].rx,
           channels'[e][c].partial = channels[e][c].partial,
           got'[e][c] = got[e][c], terminal'[e][c] = terminal[e][c],
           (<<e, c>> \in swept') = (<<e, c>> \in swept),
           \A g \in InTransit(tx'[e], c) : g \in InTransit(tx[e], c) \/ IsData(g),
           c \notin bestEffort => Flows(e, c)'
    PROVE  ChannelInv(c)'
  <1> DEFINE p == Peer(e)
             R == InTransit(tx[p], c)
             T == InTransit(tx'[p], c)
             S == InTransit(tx[e], c)
             U == InTransit(tx'[e], c)
  <1>1. /\ p \in Ends /\ Peer(p) = e /\ p # e /\ \A x \in Ends : x = e \/ x = p
    BY PeerFacts
  <1>2. /\ e = Opener(c) /\ Touched(p, c) /\ ~HasKind(S, "Open")
        /\ HasKind(R, "OpenAck") /\ ~HasKind(T, "OpenAck") /\ ~HasKind(T, "Open") /\ DataOf(T) = DataOf(R)
    BY AckComesOnce
  <1>3. ChannelInv(c) /\ Opens(c)
    BY DEF IndInv, ChannelInv
  <1>4. Has(e, c)' /\ (Has(p, c)' <=> Has(p, c))
    BY DEF Has, EndGives
  <1>5. OpenedOnce(c)'
    BY <1>1, <1>2, <1>3, <1>4, UsedStaysUsed
  <1>6. ~HasKind(U, "Open") /\ ~HasKind(U, "OpenAck")
    <2>1. ~HasKind(S, "OpenAck")
      BY <1>2, <1>3 DEF Opens
    <2> QED
      BY <1>2, <2>1 DEF HasKind, IsData
  <1>7. Opens(c)'
    <2>1. \A g, h \in T : g.kind = "OpenAck" /\ h.kind = "OpenAck" => g = h
      BY <1>2 DEF HasKind
    <2> HIDE DEF T, U
    <2> QED
      BY <1>2, <1>6, <2>1 DEF Opens, T, U
  <1>8. \A x \in Ends : EndsOnce(x, c)'
    BY <1>1, <1>3, <1>4 DEF ChannelInv, EndsOnce, EndGives
  <1>9. ASSUME c \notin bestEffort
        PROVE  Flows(p, c)'
    <2> DEFINE closed == <<p, c>> \in closedBy
               lost == <<e, c>> \in swept
               from == channels[p][c]
               to == channels[e][c]
               to1 == channels'[e][c]
    <2>1. Flow(R, from, to, calls[p][c], sent[p][c], got[e][c], closed, lost)
      BY <1>1, <1>3, <1>9 DEF ChannelInv, Flows
    <2>2. FlowTypes(R, from, to, calls[p][c], sent[p][c], got[e][c])
      BY <1>1, ChannelTypes DEF IndInv
    <2>3. Listens(R, to) /\ to1.rx = to.rx /\ Range(to1.partial) = Range(to.partial)
      BY <1>2 DEF Listens, Has
    <2>4. calls[p][c] \in Nat /\ calls[p][c] <= calls[p][c]
      BY <2>2 DEF FlowTypes
    <2> HIDE DEF R, T, p, closed, lost, from, to, to1
    <2>5. Flow(T, from, to1, calls[p][c], sent[p][c], got[e][c], closed, lost)
      BY <1>2, <2>1, <2>2, <2>3, <2>4, FlowSame
    <2> QED
      BY <1>1, <2>5 DEF Flows, EndGives, LogSame, T, p, closed, lost, from, to1
  <1> QED
    BY <1>1, <1>5, <1>7, <1>8, <1>9 DEF ChannelInv, Onward

\* The first data frame of a reliable channel, as the receiver's side has it.
LEMMA GivesComes ==
    ASSUME NEW c \in Ids, NEW p \in Ends, NEW f, EndGives(p, c, f), IsData(f), c \notin bestEffort
    PROVE  Comes(InTransit(tx[p], c), f, InTransit(tx'[p], c))
  <1>1. Ranked(f)
    BY DEF IsData, Ranked
  <1>2. \A g \in InTransit(tx'[p], c) : g.id = c
    BY DEF InTransit
  <1> QED
    BY <1>1, <1>2 DEF EndGives, Comes

\* A frame that changes nothing at end e.
LEMMA FrameIgnored ==
    ASSUME IndInv, NEW c \in Ids, NEW e \in Ends, Onward, NEW f,
           EndGives(Peer(e), c, f), EndSame(e, c),
           IsData(f) /\ channels[e][c].state = "Open" => c \in bestEffort \/ f.seq # channels[e][c].rx
    PROVE  ChannelInv(c)'
  <1> DEFINE p == Peer(e)
             R == InTransit(tx[p], c)
             T == InTransit(tx'[p], c)
  <1>1. p \in Ends /\ Peer(p) = e /\ p # e /\ \A x \in Ends : x = e \/ x = p
    BY PeerFacts
  <1>2. \A x \in Ends : /\ LogSame(x, c) /\ channels'[x][c] = channels[x][c]
                        /\ terminal'[x][c] = terminal[x][c]
                        /\ InTransit(tx'[x], c) \subseteq InTransit(tx[x], c)
    BY <1>1 DEF EndSame, EndGives
  <1>3. ASSUME c \notin bestEffort
        PROVE  Flows(p, c)'
    <2> DEFINE closed == <<p, c>> \in closedBy
               lost == <<e, c>> \in swept
               from == channels[p][c]
               to == channels[e][c]
    <2>1. Flow(R, from, to, calls[p][c], sent[p][c], got[e][c], closed, lost)
      BY <1>1, <1>3 DEF IndInv, ChannelInv, Flows
    <2>2. FlowTypes(R, from, to, calls[p][c], sent[p][c], got[e][c])
      BY <1>1, ChannelTypes DEF IndInv
    <2>3. calls[p][c] \in Nat /\ calls[p][c] <= calls[p][c]
      BY <2>2 DEF FlowTypes
    <2>4. Flow(T, from, to, calls[p][c], sent[p][c], got[e][c], closed, lost)
      <3>1. CASE IsData(f)
        <4>1. Comes(R, f, T)
          BY <1>1, <1>3, <3>1, GivesComes
        <4>2. to.state = "Open" => f.seq # to.rx
          BY <1>3, <3>1
        <4> HIDE DEF R, T, p, closed, lost, from, to
        <4> QED
          BY <2>1, <2>2, <4>1, <4>2, FlowDrop
      <3>2. CASE ~IsData(f)
        <4>1. DataOf(T) = DataOf(R) /\ (Listens(T, to) => Listens(R, to))
          BY <3>2 DEF EndGives, DataOf, Listens, HasKind
        <4> HIDE DEF R, T, p, closed, lost, from, to
        <4> QED
          BY <2>1, <2>2, <2>3, <4>1, FlowSame
      <3> QED
        BY <3>1, <3>2
    <2> HIDE DEF R, T, p, closed, lost, from, to
    <2> QED
      BY <1>1, <2>4 DEF Flows, EndGives, EndSame, LogSame, T, p, closed, lost, from, to
  <1>4. ASSUME c \notin bestEffort
        PROVE  Flows(e, c)'
    <2>1. Flows(e, c)
      BY <1>4 DEF IndInv, ChannelInv
    <2> QED
      BY <2>1 DEF Flows, EndGives, EndSame, LogSame
  <1> QED
    BY <1>1, <1>2, <1>3, <1>4, FramesLess

\* A data frame that end e takes.
LEMMA ChannelTakes ==
    ASSUME IndInv, NEW c \in Ids, NEW e \in Ends, Onward, NEW f, IsData(f),
           EndGives(Peer(e), c, f), channels[e][c].state = "Open",
           channels'[e][c] # None, channels'[e][c].tx = channels[e][c].tx,
           calls'[e][c] = calls[e][c], sent'[e][c] = sent[e][c], terminal'[e][c] = terminal[e][c],
           (<<e, c>> \in closedBy') = (<<e, c>> \in closedBy),
           InTransit(tx'[e], c) = InTransit(tx[e], c),
           c \notin bestEffort => Flows(Peer(e), c)'
    PROVE  ChannelInv(c)'
  <1> DEFINE p == Peer(e)
             R == InTransit(tx[p], c)
             T == InTransit(tx'[p], c)
             S == InTransit(tx[e], c)
  <1>1. /\ p \in Ends /\ Peer(p) = e /\ p # e /\ Opener(c) \in Ends
        /\ Opener(c) = e \/ Opener(c) = p
        /\ \A x \in Ends : x = e \/ x = p
    BY PeerFacts
  <1>2. ChannelInv(c) /\ Opens(c)
    BY DEF IndInv, ChannelInv
  <1>3. Has(e, c) /\ Has(e, c)' /\ (Has(p, c)' <=> Has(p, c))
    BY RecordFacts DEF Has, EndGives
  <1>4. Touched(e, c) /\ f \in DataOf(R)
    BY <1>3 DEF Touched, EndGives, DataOf
  <1>5. OpenedOnce(c)'
    <2>1. (Has(Opener(c), c)' <=> Has(Opener(c), c)) /\ terminal'[Opener(c)][c] = terminal[Opener(c)][c]
      BY <1>1, <1>3 DEF EndGives
    <2> QED
      BY <1>2, <1>4, <2>1, UsedStaysUsed
  <1>6. /\ \A kind : HasKind(T, kind) => HasKind(R, kind)
        /\ T \subseteq R
    BY DEF EndGives, HasKind
  <1>7. Opens(c)'
    <2> HIDE DEF R, T, S
    <2>1. CASE Opener(c) = e
      <3>1. Peer(Opener(c)) = p
        BY <2>1
      <3>2. ~HasKind(S, "Open") /\ ~HasKind(R, "OpenAck") /\ ~HasKind(R, "Open") /\ ~HasKind(S, "OpenAck")
        BY <1>2, <1>3, <2>1, <3>1 DEF Opens, R, S
      <3>3. \A g, h \in T : g.kind = "OpenAck" /\ h.kind = "OpenAck" => g = h
        BY <1>6, <3>2 DEF HasKind
      <3> QED
        BY <1>6, <2>1, <3>1, <3>2, <3>3 DEF Opens, S, T
    <2>2. CASE Opener(c) = p
      <3>1. Peer(Opener(c)) = e
        BY <1>1, <2>2
      <3>2. ~HasKind(R, "Open") /\ ~HasKind(S, "OpenAck") /\ ~HasKind(R, "OpenAck") /\ ~HasKind(S, "Open")
        BY <1>2, <1>4, <2>2, <3>1 DEF Opens, R, S
      <3>3. \A g, h \in S : g.kind = "OpenAck" /\ h.kind = "OpenAck" => g = h
        BY <3>2 DEF HasKind
      <3> QED
        BY <1>6, <2>2, <3>1, <3>2, <3>3 DEF Opens, S, T
    <2> QED
      BY <1>1, <2>1, <2>2
  <1>8. \A x \in Ends : EndsOnce(x, c)'
    BY <1>1, <1>2, <1>3 DEF ChannelInv, EndsOnce, EndGives
  <1>9. ASSUME c \notin bestEffort
        PROVE  Flows(e, c)'
    <2> DEFINE closed == <<e, c>> \in closedBy
               lost == <<p, c>> \in swept
               from == channels[e][c]
               from1 == channels'[e][c]
               to == channels[p][c]
    <2>1. Flow(S, from, to, calls[e][c], sent[e][c], got[p][c], closed, lost)
      BY <1>1, <1>2, <1>9 DEF ChannelInv, Flows
    <2>2. FlowTypes(S, from, to, calls[e][c], sent[e][c], got[p][c])
      BY ChannelTypes DEF IndInv
    <2>3. from1 # None => from # None /\ from1.tx = from.tx
      BY <1>3 DEF Has
    <2>4. calls[e][c] \in Nat /\ calls[e][c] <= calls[e][c]
      BY <2>2 DEF FlowTypes
    <2> HIDE DEF S, p, closed, lost, from, from1, to
    <2>5. Flow(S, from1, to, calls[e][c], sent[e][c], got[p][c], closed, lost)
      BY <2>1, <2>2, <2>3, <2>4, FlowSame
    <2> QED
      BY <2>5 DEF Flows, EndGives, LogSame, S, p, closed, lost, from1, to
  <1> QED
    BY <1>1, <1>5, <1>7, <1>8, <1>9 DEF ChannelInv, Onward

-----------------------------------------------------------------------------
(* The actions.                                                            *)

\* G is F but for what it says of channel c at end e.
Elsewhere(F, G, e, c) == \A x \in Ends, d \in Ids : x # e \/ d # c => G[x][d] = F[x][d]

\* Assignments, by name: the provers instantiate the lemmas on them.
Put(F, e, c, v, G) == G = [F EXCEPT ![e][c] = v]
PutSide(T, e, u, V) == V = [T EXCEPT ![e] = u]
Sides(T) == DOMAIN T = Ends /\ T = [x \in Ends |-> T[x]]

LEMMA CellUpdate ==
    ASSUME NEW S, NEW F \in [Ends -> [Ids -> S]], NEW e \in Ends, NEW c \in Ids, NEW v \in S, NEW G,
           Put(F, e, c, v, G)
    PROVE  G \in [Ends -> [Ids -> S]] /\ G[e][c] = v /\ Elsewhere(F, G, e, c)
  BY DEF Elsewhere, Put

LEMMA SideUpdate ==
    ASSUME NEW T, Sides(T), NEW e \in Ends, NEW u, NEW V, PutSide(T, e, u, V)
    PROVE  Sides(V) /\ V[e] = u /\ V[Peer(e)] = T[Peer(e)]
  <1>1. Peer(e) \in Ends /\ Peer(e) # e
    BY PeerFacts
  <1>2. DOMAIN V = Ends /\ V = [x \in Ends |-> IF x = e THEN u ELSE T[x]]
    BY DEF Sides, PutSide
  <1>3. V = [x \in Ends |-> V[x]]
    BY <1>2
  <1> QED
    BY <1>1, <1>2, <1>3 DEF Sides

\* A step changes nothing but channel c, of which end e has the handler.
OnlyAt(e, c) ==
    /\ Elsewhere(channels, channels', e, c) /\ Elsewhere(calls, calls', e, c)
    /\ Elsewhere(sent, sent', e, c) /\ Elsewhere(got, got', e, c) /\ Elsewhere(terminal, terminal', e, c)
    /\ \A x \in Ends, d \in Ids : x # e \/ d # c =>
        /\ (<<x, d>> \in closedBy') = (<<x, d>> \in closedBy)
        /\ (<<x, d>> \in swept') = (<<x, d>> \in swept)

LEMMA OnlyAtFacts ==
    ASSUME NEW e \in Ends, NEW c \in Ids, OnlyAt(e, c)
    PROVE  \A x \in Ends, d \in Ids : x # e \/ d # c =>
                LogSame(x, d) /\ channels'[x][d] = channels[x][d] /\ terminal'[x][d] = terminal[x][d]
  BY DEF OnlyAt, Elsewhere, LogSame

LEMMA OneStep ==
    ASSUME IndInv, NEW c \in Ids, NEW e \in Ends, Onward, StateTypes', OnlyAt(e, c),
           \A x \in Ends : SideOK(tx'[x]) /\ \A d \in Ids \ {c} : InTransit(tx'[x], d) = InTransit(tx[x], d),
           ChannelInv(c)'
    PROVE  IndInv'
  <1>1. \A d \in Ids \ {c} : \A x \in Ends : EndSame(x, d)
    BY OnlyAtFacts DEF EndSame
  <1> QED
    BY <1>1, OneChannel

LEMMA DeliverFacts ==
    ASSUME NEW t, NEW f, NEW u, Delivers(t, f, u)
    PROVE  /\ SideOK(u)
           /\ \A d \in Ids \ {f.id} : InTransit(u, d) = InTransit(t, d)
           /\ f.id \in Ids => /\ InTransit(t, f.id) \subseteq InTransit(u, f.id)
                              /\ \A g \in InTransit(u, f.id) : g \in InTransit(t, f.id) \/ g = f
  BY DEF Delivers, Same, Sends

LEMMA OpenOutboundInv ==
    ASSUME IndInv, NEW e \in Ends, NEW c \in Ids, OpenOutbound(e, c)
    PROVE  IndInv'
  <1> DEFINE f == Frame("Open", c)
             u == SendWire(tx[e], f)
  <1>1. StateTypes /\ SideOK(tx[e]) /\ SideOK(tx[Peer(e)]) /\ ChannelInv(c)
    BY PeerFacts DEF IndInv
  <1>2. f \in Sendable /\ f.kind = "Open" /\ f.id = c
    BY FrameFacts
  <1>3. /\ e = Opener(c) /\ ~Has(e, c) /\ Alive(e)
        /\ IF c = 0 THEN Alive(e) /\ terminal[e][c] = 0 /\ nextId' = nextId
           ELSE nextId[e] = c /\ nextId' = [nextId EXCEPT ![e] = @ + 2]
    BY DEF OpenOutbound
  <1>4. Onward /\ nextId' \in [Ends -> Nat] /\ (c # 0 => nextId'[e] > c)
    <2>1. bestEffort' = bestEffort /\ down' = down
      BY DEF OpenOutbound
    <2>2. nextId \in [Ends -> Nat] /\ c \in Nat
      BY <1>1, ConstantsAssumption DEF StateTypes
    <2> QED
      BY <1>3, <2>1, <2>2 DEF Onward
  <1>5. InTransit(tx[e], c) = {}
    <2>1. nextId[e] \in Nat /\ c \in Nat
      BY <1>1, ConstantsAssumption DEF StateTypes
    <2>2. ~Touched(e, c)
      BY <1>1, <1>3, <2>1 DEF ChannelInv, OpenedOnce
    <2> QED
      BY <2>2 DEF Touched
  <1>6. Delivers(tx[e], f, u)
    BY <1>1, <1>2, <1>5, SendWireDelivers DEF Follows
  <1>7. /\ SideOK(u)
        /\ \A d \in Ids \ {c} : InTransit(u, d) = InTransit(tx[e], d)
        /\ \A g \in InTransit(u, c) : g \in InTransit(tx[e], c) \/ g.kind = "Open"
    BY <1>2, <1>6, DeliverFacts
  <1>8. Sides(tx') /\ tx'[e] = u /\ tx'[Peer(e)] = tx[Peer(e)]
    <2>1. Sides(tx) /\ PutSide(tx, e, u, tx')
      BY <1>1 DEF OpenOutbound, StateTypes, Sides, PutSide
    <2> QED
      BY <2>1, SideUpdate
  <1>9. Record("Opening") \in Records
    BY DEF Records, Record
  <1>10. /\ channels' \in [Ends -> [Ids -> Records \cup {None}]] /\ channels'[e][c] = Record("Opening")
         /\ Elsewhere(channels, channels', e, c)
    <2>1. channels \in [Ends -> [Ids -> Records \cup {None}]] /\ Record("Opening") \in Records \cup {None}
      BY <1>1, <1>9 DEF StateTypes
    <2>2. Put(channels, e, c, Record("Opening"), channels')
      BY DEF OpenOutbound, Put
    <2> QED
      BY <2>1, <2>2, CellUpdate
  <1>11. UNCHANGED <<bestEffort, calls, sent, got, terminal, swept, closedBy>>
    BY DEF OpenOutbound
  <1>12. StateTypes'
    BY <1>1, <1>4, <1>8, <1>10, <1>11 DEF StateTypes, Sides
  <1>13. OnlyAt(e, c) /\ LogSame(e, c) /\ terminal'[e][c] = terminal[e][c]
    BY <1>10, <1>11 DEF OnlyAt, Elsewhere, LogSame
  <1>14. EndSame(Peer(e), c)
    BY <1>8, <1>13, PeerFacts, OnlyAtFacts DEF EndSame
  <1> HIDE DEF f, u
  <1>15. ChannelInv(c)'
    BY <1>3, <1>4, <1>7, <1>8, <1>10, <1>12, <1>13, <1>14, ChannelOpened
  <1>16. \A x \in Ends : SideOK(tx'[x]) /\ \A d \in Ids \ {c} : InTransit(tx'[x], d) = InTransit(tx[x], d)
    <2>1. \A x \in Ends : x = e \/ x = Peer(e)
      BY PeerFacts
    <2> QED
      BY <1>1, <1>7, <1>8, <2>1
  <1> QED
    BY <1>4, <1>12, <1>13, <1>15, <1>16, OneStep

\* A data frame with the next number may follow those in transit.
LEMMA DataFollows ==
    ASSUME NEW t, SideOK(t), NEW c \in Ids, NEW from \in Records, NEW count, NEW msgs,
           c \notin bestEffort => Numbered(DataOf(InTransit(t, c)), from, count, msgs),
           NEW x \in Sendable, IsData(x), x.id = c, x.seq = from.tx
    PROVE  Follows(x, InTransit(t, x.id))
  <1> DEFINE S == InTransit(t, c)
  <1> SUFFICES ASSUME c \notin bestEffort, NEW g \in S, Ranked(g), Ranked(x)
               PROVE  Rank(g) < Rank(x)
    BY DEF Follows, Precedes
  <1>1. S \subseteq Sendable
    BY InTransitSendable
  <1>2. from # None /\ from.tx \in Nat \ {0} /\ Rank(x) = from.tx
    BY RecordFacts DEF Rank
  <1>3. CASE IsData(g)
    <2>1. g \in DataOf(S) /\ Rank(g) = g.seq
      BY <1>3 DEF DataOf, Rank
    <2> QED
      BY <1>2, <2>1 DEF Numbered
  <1>4. CASE ~IsData(g)
    BY <1>2, <1>4 DEF Rank
  <1> QED
    BY <1>3, <1>4

\* SendData of a message that fits one frame: sent behind the others, or
\* refused without a trace but for the count of the calls.
LEMMA FlowSendsOne ==
    ASSUME NEW t, NEW c \in Ids, NEW from, NEW to, NEW count, NEW msgs, NEW given, NEW closed, NEW lost,
           FlowTypes(InTransit(t, c), from, to, count, msgs, given),
           Flow(InTransit(t, c), from, to, count, msgs, given, closed, lost), from # None,
           NEW x \in Sendable, x.kind = "Data", x.id = c, x.seq = from.tx, x.msg = count + 1,
           NEW u, Delivers(t, x, u), NEW from1, from1 # None, NEW msgs1,
           from1.tx = IF QueueFull(t, x) THEN from.tx ELSE from.tx + 1,
           msgs1 = IF QueueFull(t, x) THEN msgs ELSE Append(msgs, x.msg)
    PROVE  Flow(InTransit(u, c), from1, to, x.msg, msgs1, given, closed, lost)
  <1> DEFINE S == InTransit(t, c)
             U == InTransit(u, c)
  <1>1. count \in Nat /\ msgs \in Seq(Nat) /\ S \subseteq Sendable
    BY DEF FlowTypes
  <1>2. CASE QueueFull(t, x)
    <2>1. U = S /\ from1.tx = from.tx /\ msgs1 = msgs /\ x.msg \in Nat /\ count <= x.msg
      BY <1>1, <1>2 DEF Delivers, Same
    <2> HIDE DEF S, U
    <2>2. Flow(S, from1, to, x.msg, msgs, given, closed, lost)
      BY <2>1, FlowSame DEF S
    <2> QED
      BY <2>1, <2>2 DEF U
  <1>3. CASE ~QueueFull(t, x)
    <2>1. U = S \cup {x} /\ from1.tx = from.tx + 1 /\ msgs1 = Append(msgs, x.msg)
      BY <1>3 DEF Delivers, Sends
    <2>2. Numbered(DataOf(S), from, count, msgs)
      BY DEF Flow
    <2>3. \A f \in DataOf(S) : f.msg \in Nat
      BY <1>1, DataFacts
    <2>4. /\ \A j \in 1 .. Len(msgs) : msgs[j] < x.msg
          /\ \A f \in DataOf(S) : f.msg < x.msg
          /\ count <= x.msg
      BY <1>1, <2>2, <2>3 DEF Numbered
    <2>5. IsData(x) /\ Completes(x) /\ ~Part(x, 2)
      BY DEF IsData, Completes, Part
    <2> HIDE DEF S, U
    <2>6. Flow(S \cup {x}, from1, to, x.msg, msgs1, given, closed, lost)
      BY <2>1, <2>4, <2>5, FlowGrowWhole DEF S
    <2> QED
      BY <2>1, <2>6 DEF U
  <1> QED
    BY <1>2, <1>3

LEMMA RecordUpdate ==
    ASSUME NEW r \in Records, NEW n \in Nat \ {0}
    PROVE  /\ [r EXCEPT !.state = "Open", !.tx = n] \in Records
           /\ [r EXCEPT !.state = "Open", !.tx = n].state = "Open"
           /\ [r EXCEPT !.state = "Open", !.tx = n].tx = n
           /\ [r EXCEPT !.state = "Open", !.tx = n].rx = r.rx
           /\ [r EXCEPT !.state = "Open", !.tx = n].partial = r.partial
  BY DEF Records

\* What SendOne does when its frame is delivered to the sending side t: channel
\* c has the record r at end e before it.
LEMMA SendOneDoes ==
    ASSUME IndInv, NEW e \in Ends, NEW c \in Ids, Has(e, c), NEW u, NEW x,
           x = Data(c, channels[e][c].tx, calls[e][c] + 1), u = SendWire(tx[e], x),
           SendOne(e, c, channels[e][c].tx, tx[e])
    PROVE  /\ Delivers(tx[e], x, u) /\ x \in Sendable /\ x.id = c /\ IsData(x)
           /\ calls' \in [Ends -> [Ids -> Nat]] /\ Elsewhere(calls, calls', e, c)
           /\ sent' \in [Ends -> [Ids -> Seq(Nat)]] /\ Elsewhere(sent, sent', e, c)
           /\ channels' \in [Ends -> [Ids -> Records \cup {None}]] /\ Elsewhere(channels, channels', e, c)
           /\ channels'[e][c] \in Records /\ channels'[e][c].state = "Open"
           /\ channels'[e][c].rx = channels[e][c].rx /\ channels'[e][c].partial = channels[e][c].partial
           /\ c \notin bestEffort =>
                Flow(InTransit(u, c), channels'[e][c], channels[Peer(e)][c], calls'[e][c], sent'[e][c],
                     got[Peer(e)][c], <<e, c>> \in closedBy, <<Peer(e), c>> \in swept)
  <1> DEFINE p == Peer(e)
             r == channels[e][c]
             t == tx[e]
             n == IF QueueFull(t, x) THEN r.tx ELSE r.tx + 1
             msgs1 == IF QueueFull(t, x) THEN sent[e][c] ELSE Append(sent[e][c], x.msg)
             r1 == [r EXCEPT !.state = "Open", !.tx = n]
             closed == <<e, c>> \in closedBy
             lost == <<p, c>> \in swept
  <1>1. StateTypes /\ SideOK(t) /\ ChannelInv(c) /\ p \in Ends
    BY PeerFacts DEF IndInv
  <1>2. r \in Records /\ r # None /\ calls[e][c] \in Nat /\ sent[e][c] \in Seq(Nat)
    BY <1>1 DEF StateTypes, Has
  <1>3. r.tx \in Nat \ {0} /\ n \in Nat \ {0}
    BY <1>2, RecordFacts
  <1>4. x \in Sendable /\ x.id = c /\ x.kind = "Data" /\ x.seq = r.tx /\ x.msg = calls[e][c] + 1 /\ IsData(x)
    BY <1>2, <1>3, FrameFacts DEF IsData
  <1>5. c \notin bestEffort =>
            Flow(InTransit(t, c), r, channels[p][c], calls[e][c], sent[e][c], got[p][c], closed, lost)
    BY <1>1 DEF ChannelInv, Flows
  <1>6. c \notin bestEffort => Numbered(DataOf(InTransit(t, c)), r, calls[e][c], sent[e][c])
    BY <1>5 DEF Flow
  <1>7. Follows(x, InTransit(t, x.id))
    <2> HIDE DEF r, t
    <2> QED
      BY <1>1, <1>2, <1>4, <1>6, DataFollows
  <1>8. Delivers(t, x, u)
    BY <1>1, <1>4, <1>7, SendWireDelivers
  <1>9. r1 \in Records /\ r1 # None /\ r1.state = "Open" /\ r1.tx = n /\ r1.rx = r.rx /\ r1.partial = r.partial
    <2>1. r1 \in Records /\ r1.state = "Open" /\ r1.tx = n /\ r1.rx = r.rx /\ r1.partial = r.partial
      <3> HIDE DEF n, r
      <3> QED
        BY <1>2, <1>3, RecordUpdate
    <2> QED
      BY <2>1, RecordFacts
  <1>10. calls' \in [Ends -> [Ids -> Nat]] /\ calls'[e][c] = x.msg /\ Elsewhere(calls, calls', e, c)
    <2>1. calls' = [calls EXCEPT ![e][c] = calls[e][c] + 1]
      BY Zenon DEF SendOne
    <2>2. Put(calls, e, c, x.msg, calls')
      BY <1>4, <2>1 DEF Put
    <2>3. calls \in [Ends -> [Ids -> Nat]] /\ x.msg \in Nat
      BY <1>1, <1>2, <1>4 DEF StateTypes
    <2> QED
      BY <2>2, <2>3, CellUpdate
  <1>11. /\ channels' \in [Ends -> [Ids -> Records \cup {None}]] /\ channels'[e][c] = r1
         /\ Elsewhere(channels, channels', e, c)
    <2>1. Put(channels, e, c, r1, channels')
      BY DEF SendOne, Put
    <2>2. channels \in [Ends -> [Ids -> Records \cup {None}]] /\ r1 \in Records \cup {None}
      BY <1>1, <1>9 DEF StateTypes
    <2> HIDE DEF r1
    <2> QED
      BY <2>1, <2>2, CellUpdate
  <1>12. sent' \in [Ends -> [Ids -> Seq(Nat)]] /\ sent'[e][c] = msgs1 /\ Elsewhere(sent, sent', e, c)
    <2>1. sent \in [Ends -> [Ids -> Seq(Nat)]] /\ x.msg \in Nat
      BY <1>1, <1>2, <1>4 DEF StateTypes
    <2>2. CASE QueueFull(t, x)
      BY <2>1, <2>2 DEF SendOne, Elsewhere
    <2>3. CASE ~QueueFull(t, x)
      <3>1. Put(sent, e, c, Append(sent[e][c], x.msg), sent')
        BY <1>4, <2>3 DEF SendOne, Put
      <3>2. Append(sent[e][c], x.msg) \in Seq(Nat)
        BY <1>2, <2>1, AppendRange
      <3> DEFINE v == Append(sent[e][c], x.msg)
      <3> HIDE DEF v
      <3>3. sent' \in [Ends -> [Ids -> Seq(Nat)]] /\ sent'[e][c] = v /\ Elsewhere(sent, sent', e, c)
        BY <2>1, <3>1, <3>2, CellUpdate DEF v
      <3> QED
        BY <2>3, <3>3 DEF v
    <2> QED
      BY <2>2, <2>3
  <1>13. c \notin bestEffort =>
            Flow(InTransit(u, c), r1, channels[p][c], x.msg, msgs1, got[p][c], closed, lost)
    <2>1. FlowTypes(InTransit(t, c), r, channels[p][c], calls[e][c], sent[e][c], got[p][c])
      BY ChannelTypes DEF IndInv
    <2>2. r1.tx = (IF QueueFull(t, x) THEN r.tx ELSE r.tx + 1)
      BY <1>9
    <2>3. msgs1 = (IF QueueFull(t, x) THEN sent[e][c] ELSE Append(sent[e][c], x.msg))
      OBVIOUS
    <2> HIDE DEF r, t, r1, msgs1, closed, lost, p
    <2> QED
      BY <1>2, <1>4, <1>5, <1>8, <1>9, <2>1, <2>2, <2>3, FlowSendsOne
  <1> QED
    BY <1>4, <1>8, <1>9, <1>10, <1>11, <1>12, <1>13

LEMMA SendSmallInv ==
    ASSUME IndInv, NEW e \in Ends, NEW c \in Ids, SendSmall(e, c)
    PROVE  IndInv'
  <1> DEFINE x == Data(c, channels[e][c].tx, calls[e][c] + 1)
             u == SendWire(tx[e], x)
             p == Peer(e)
  <1>1. StateTypes /\ SideOK(tx[e]) /\ SideOK(tx[p]) /\ p \in Ends /\ p # e /\ Peer(p) = e
    BY PeerFacts DEF IndInv
  <1>2. /\ channels[e][c].state = "Open" /\ SendOne(e, c, channels[e][c].tx, tx[e])
        /\ tx' = [tx EXCEPT ![e] = u]
        /\ UNCHANGED <<bestEffort, nextId, down, got, terminal, swept, closedBy>>
    BY DEF SendSmall, MaySend
  <1>3. Has(e, c)
    BY <1>2, RecordFacts DEF Has
  <1>4. /\ Delivers(tx[e], x, u) /\ x \in Sendable /\ x.id = c /\ IsData(x)
        /\ calls' \in [Ends -> [Ids -> Nat]] /\ Elsewhere(calls, calls', e, c)
        /\ sent' \in [Ends -> [Ids -> Seq(Nat)]] /\ Elsewhere(sent, sent', e, c)
        /\ channels' \in [Ends -> [Ids -> Records \cup {None}]] /\ Elsewhere(channels, channels', e, c)
        /\ channels'[e][c] \in Records /\ channels'[e][c].state = "Open"
        /\ channels'[e][c].rx = channels[e][c].rx /\ channels'[e][c].partial = channels[e][c].partial
        /\ c \notin bestEffort =>
             Flow(InTransit(u, c), channels'[e][c], channels[p][c], calls'[e][c], sent'[e][c],
                  got[p][c], <<e, c>> \in closedBy, <<p, c>> \in swept)
    BY <1>2, <1>3, SendOneDoes
  <1>5. Sides(tx') /\ tx'[e] = u /\ tx'[p] = tx[p]
    <2>1. Sides(tx) /\ PutSide(tx, e, u, tx')
      BY <1>1, <1>2 DEF StateTypes, Sides, PutSide
    <2> QED
      BY <2>1, SideUpdate
  <1>6. Onward
    BY <1>1, <1>2 DEF Onward, StateTypes
  <1>7. StateTypes'
    BY <1>1, <1>2, <1>4, <1>5 DEF StateTypes, Sides
  <1>8. OnlyAt(e, c)
    BY <1>2, <1>4 DEF OnlyAt, Elsewhere
  <1>9. EndSame(p, c)
    BY <1>1, <1>5, <1>8, OnlyAtFacts DEF EndSame
  <1> HIDE DEF x, u
  <1>10. /\ SideOK(u) /\ \A d \in Ids \ {c} : InTransit(u, d) = InTransit(tx[e], d)
         /\ \A g \in InTransit(u, c) : g \in InTransit(tx[e], c) \/ IsData(g)
    <2>1. Delivers(tx[e], x, u) /\ x.id = c /\ IsData(x)
      BY <1>4
    <2> QED
      BY <2>1, DeliverFacts
  <1>11. c \notin bestEffort => Flows(e, c)'
    <2>1. channels'[p][c] = channels[p][c]
      BY <1>9 DEF EndSame
    <2> QED
      BY <1>2, <1>4, <1>5, <2>1 DEF Flows
  <1>12. ChannelInv(c)'
    <2>1. channels'[e][c] # None
      BY <1>4, RecordFacts
    <2> QED
      BY <1>2, <1>4, <1>5, <1>6, <1>9, <1>10, <1>11, <2>1, ChannelSends
  <1>13. \A y \in Ends : SideOK(tx'[y]) /\ \A d \in Ids \ {c} : InTransit(tx'[y], d) = InTransit(tx[y], d)
    <2>1. \A y \in Ends : y = e \/ y = p
      BY PeerFacts
    <2> QED
      BY <1>1, <1>5, <1>10, <2>1
  <1> QED
    BY <1>6, <1>7, <1>8, <1>12, <1>13, OneStep

\* SendData of a large message whose fragments are both sent.
LEMMA FlowSendsTwo ==
    ASSUME NEW S, NEW from, NEW to, NEW count, NEW msgs, NEW given, NEW closed, NEW lost,
           FlowTypes(S, from, to, count, msgs, given), Flow(S, from, to, count, msgs, given, closed, lost),
           from # None, NEW x \in Sendable, NEW y \in Sendable, Part(x, 1), Part(y, 2),
           x.seq = from.tx, y.seq = from.tx + 1, x.msg = count + 1, y.msg = count + 1,
           NEW from1 \in Records, from1.tx = from.tx + 1, NEW from2, from2 # None, from2.tx = from1.tx + 1,
           NEW msgs2, msgs2 = Append(msgs, y.msg)
    PROVE  Flow((S \cup {x}) \cup {y}, from2, to, y.msg, msgs2, given, closed, lost)
  <1> DEFINE U == S \cup {x}
  <1>1. count \in Nat /\ msgs \in Seq(Nat) /\ S \subseteq Sendable /\ from1 # None
    BY RecordFacts DEF FlowTypes
  <1>2. Flow(U, from1, to, x.msg, msgs, given, closed, lost)
    <2> HIDE DEF U
    <2> QED
      BY <1>1, FlowGrowFirst DEF U
  <1>3. FlowTypes(U, from1, to, x.msg, msgs, given)
    BY <1>1 DEF FlowTypes
  <1>4. Numbered(DataOf(S), from, count, msgs)
    BY DEF Flow
  <1>5. \A f \in DataOf(S) : f.msg \in Nat
    BY <1>1, DataFacts
  <1>6. /\ \A j \in 1 .. Len(msgs) : msgs[j] < y.msg
        /\ \A f \in DataOf(S) : f.msg < y.msg
    BY <1>1, <1>4, <1>5 DEF Numbered
  <1>7. DataOf(U) = DataOf(S) \cup {x} /\ IsData(y) /\ Completes(y)
    <2>1. IsData(x) /\ IsData(y) /\ Completes(y)
      BY DEF IsData, Part, Completes
    <2> QED
      BY <2>1 DEF DataOf
  <1>8. /\ \A f \in DataOf(U) : f.msg < y.msg \/ (f.msg = y.msg /\ Part(f, 1) /\ Part(y, 2))
        /\ \E g \in DataOf(U) : Part(g, 1) /\ g.msg = y.msg
        /\ x.msg <= y.msg /\ y.seq = from1.tx
    <2> HIDE DEF U
    <2>1. count + 1 \in Nat /\ count + 1 <= count + 1
      BY <1>1
    <2>2. x.msg = y.msg /\ x.msg <= y.msg /\ y.seq = from1.tx
      BY <2>1
    <2>3. x \in DataOf(U)
      BY <1>7
    <2> QED
      BY <1>6, <1>7, <2>2, <2>3
  <1> HIDE DEF U
  <1>9. Flow(U \cup {y}, from2, to, y.msg, msgs2, given, closed, lost)
    BY <1>1, <1>2, <1>3, <1>6, <1>7, <1>8, FlowGrowWhole
  <1> QED
    BY <1>9 DEF U

LEMMA NumberUpdate ==
    ASSUME NEW r \in Records, NEW n \in Nat \ {0}
    PROVE  /\ [r EXCEPT !.tx = n] \in Records
           /\ [r EXCEPT !.tx = n].state = r.state /\ [r EXCEPT !.tx = n].tx = n
           /\ [r EXCEPT !.tx = n].rx = r.rx /\ [r EXCEPT !.tx = n].partial = r.partial
  BY DEF Records

\* What becomes of the two fragments: neither, the first or both are sent.
Fragments(t, x, y, u, k) ==
    /\ SideOK(u)
    /\ \A d \in Ids \ {x.id} : InTransit(u, d) = InTransit(t, d)
    /\ k = 0 => InTransit(u, x.id) = InTransit(t, x.id)
    /\ k = 1 => InTransit(u, x.id) = InTransit(t, x.id) \cup {x}
    /\ k = 2 => InTransit(u, x.id) = (InTransit(t, x.id) \cup {x}) \cup {y}

LEMMA FlowSendsFragments ==
    ASSUME NEW t, NEW c \in Ids, NEW from, NEW to, NEW count, NEW msgs, NEW given, NEW closed, NEW lost,
           FlowTypes(InTransit(t, c), from, to, count, msgs, given),
           Flow(InTransit(t, c), from, to, count, msgs, given, closed, lost), from # None,
           NEW x \in Sendable, NEW y \in Sendable, Part(x, 1), Part(y, 2), x.id = c,
           x.seq = from.tx, y.seq = from.tx + 1, x.msg = count + 1, y.msg = count + 1,
           NEW u, NEW k \in {0, 1, 2}, Fragments(t, x, y, u, k), NEW from1 \in Records, from1.tx = from.tx + k,
           NEW msgs1, msgs1 = IF k = 2 THEN Append(msgs, y.msg) ELSE msgs
    PROVE  Flow(InTransit(u, c), from1, to, count + 1, msgs1, given, closed, lost)
  <1> DEFINE S == InTransit(t, c)
             U == InTransit(u, c)
  <1>1. /\ count \in Nat /\ count + 1 \in Nat /\ count <= count + 1 /\ from \in Records /\ from1 # None
        /\ from.tx \in Nat \ {0}
    BY RecordFacts DEF FlowTypes
  <1>2. CASE k = 0
    <2>1. U = S /\ from1.tx = from.tx /\ msgs1 = msgs
      BY <1>1, <1>2 DEF Fragments
    <2> DEFINE count1 == count + 1
    <2> HIDE DEF S, U, count1
    <2>2. Flow(S, from1, to, count1, msgs, given, closed, lost)
      BY <1>1, <2>1, FlowSame DEF S, count1
    <2> QED
      BY <2>1, <2>2 DEF U, count1
  <1>3. CASE k = 1
    <2>1. U = S \cup {x} /\ from1.tx = from.tx + 1 /\ msgs1 = msgs
      BY <1>1, <1>3 DEF Fragments
    <2> HIDE DEF S, U
    <2>2. Flow(S \cup {x}, from1, to, x.msg, msgs, given, closed, lost)
      BY <1>1, <2>1, FlowGrowFirst DEF S
    <2> QED
      BY <2>1, <2>2 DEF U
  <1>4. CASE k = 2
    <2>1. U = (S \cup {x}) \cup {y} /\ from1.tx = from.tx + 2 /\ msgs1 = Append(msgs, y.msg)
      BY <1>1, <1>4 DEF Fragments
    <2> DEFINE r1 == [from EXCEPT !.tx = from.tx + 1]
    <2>2. r1 \in Records /\ r1.tx = from.tx + 1
      <3>1. from.tx + 1 \in Nat \ {0}
        BY <1>1
      <3> QED
        BY <1>1, <3>1, NumberUpdate
    <2> HIDE DEF S, U, r1
    <2>3. from1.tx = r1.tx + 1
      BY <1>1, <2>1, <2>2
    <2>4. Flow((S \cup {x}) \cup {y}, from1, to, y.msg, msgs1, given, closed, lost)
      BY <1>1, <2>1, <2>2, <2>3, FlowSendsTwo DEF S
    <2> QED
      BY <2>1, <2>4 DEF U
  <1> QED
    BY <1>2, <1>3, <1>4

LEMMA SendLargeInv ==
    ASSUME IndInv, NEW e \in Ends, NEW c \in Ids, SendLarge(e, c)
    PROVE  IndInv'
  <1> DEFINE p == Peer(e)
             t == tx[e]
             r == channels[e][c]
             count == calls[e][c]
             x == Frag(c, r.tx, count + 1, 1)
             y == Frag(c, r.tx + 1, count + 1, 2)
             t1 == SendWire(t, x)
             fits == c \in bestEffort \/ t.bytes + LargePayload <= MaxQueued
             ok1 == fits /\ ~QueueFull(t, x)
             ok2 == ok1 /\ ~QueueFull(t1, y)
             k == IF ok2 THEN 2 ELSE IF ok1 THEN 1 ELSE 0
             u == IF ~fits THEN t ELSE IF ok1 THEN SendWire(t1, y) ELSE t1
             msgs1 == IF k = 2 THEN Append(sent[e][c], y.msg) ELSE sent[e][c]
             closed == <<e, c>> \in closedBy
             lost == <<p, c>> \in swept
  <1>1. StateTypes /\ SideOK(t) /\ SideOK(tx[p]) /\ p \in Ends /\ p # e /\ Peer(p) = e /\ ChannelInv(c)
    BY PeerFacts DEF IndInv
  <1>2. /\ r.state = "Open"
        /\ UNCHANGED <<bestEffort, nextId, down, got, terminal, swept, closedBy>>
    BY DEF SendLarge, MaySend
  <1>3. r # None /\ r \in Records /\ r.tx \in Nat \ {0} /\ count \in Nat /\ sent[e][c] \in Seq(Nat)
    <2>1. r # None /\ r \in Records /\ count \in Nat /\ sent[e][c] \in Seq(Nat)
      BY <1>1, <1>2, RecordFacts DEF StateTypes
    <2> QED
      BY <2>1, RecordFacts
  <1>4. /\ x \in Sendable /\ x.id = c /\ x.seq = r.tx /\ x.msg = count + 1 /\ Part(x, 1) /\ IsData(x)
        /\ y \in Sendable /\ y.id = c /\ y.seq = r.tx + 1 /\ y.msg = count + 1 /\ Part(y, 2) /\ IsData(y)
    <2> DEFINE n == r.tx
               m == r.tx + 1
               msg == count + 1
    <2>1. n \in Nat \ {0} /\ m \in Nat \ {0} /\ msg \in Nat \ {0}
      BY <1>3
    <2> HIDE DEF n, m, msg
    <2>2. /\ Frag(c, n, msg, 1) \in Sendable /\ Frag(c, n, msg, 1).kind = "Frag" /\ Frag(c, n, msg, 1).id = c
          /\ Frag(c, n, msg, 1).seq = n /\ Frag(c, n, msg, 1).msg = msg /\ Frag(c, n, msg, 1).part = 1
      BY <2>1, FrameFacts
    <2>3. /\ Frag(c, m, msg, 2) \in Sendable /\ Frag(c, m, msg, 2).kind = "Frag" /\ Frag(c, m, msg, 2).id = c
          /\ Frag(c, m, msg, 2).seq = m /\ Frag(c, m, msg, 2).msg = msg /\ Frag(c, m, msg, 2).part = 2
      BY <2>1, FrameFacts
    <2> QED
      BY <2>2, <2>3 DEF Part, IsData, n, m, msg
  <1>5. /\ calls' = [calls EXCEPT ![e][c] = count + 1]
        /\ sent' = IF fits /\ BothFragmentsSent(t, x, y) THEN [sent EXCEPT ![e][c] = Append(@, count + 1)] ELSE sent
        /\ channels' = [channels EXCEPT ![e][c].tx = IF ok2 THEN r.tx + 2 ELSE IF ok1 THEN r.tx + 1 ELSE r.tx]
        /\ tx' = [tx EXCEPT ![e] = u]
    BY Zenon DEF SendLarge
  <1>6. k \in {0, 1, 2} /\ (k = 2 <=> ok2) /\ (k = 1 <=> ok1 /\ ~ok2) /\ (k = 0 <=> ~ok1)
    OBVIOUS
  <1>7. c \notin bestEffort =>
            Flow(InTransit(t, c), r, channels[p][c], count, sent[e][c], got[p][c], closed, lost)
    BY <1>1 DEF ChannelInv, Flows
  <1>8. FlowTypes(InTransit(t, c), r, channels[p][c], count, sent[e][c], got[p][c])
    BY ChannelTypes DEF IndInv
  <1>9. Delivers(t, x, t1)
    <2>1. c \notin bestEffort => Numbered(DataOf(InTransit(t, c)), r, count, sent[e][c])
      BY <1>7 DEF Flow
    <2> HIDE DEF r, t, x, count
    <2>2. Follows(x, InTransit(t, x.id))
      BY <1>1, <1>3, <1>4, <2>1, DataFollows
    <2> QED
      BY <1>1, <1>4, <2>2, SendWireDelivers DEF t1
  <1>10. ASSUME ok1
         PROVE  Delivers(t1, y, u)
    <2> DEFINE r1 == [r EXCEPT !.tx = r.tx + 1]
    <2>1. r1 \in Records /\ r1.tx = r.tx + 1 /\ r1 # None
      <3>1. r.tx + 1 \in Nat \ {0}
        BY <1>3
      <3>2. r1 \in Records /\ r1.tx = r.tx + 1
        <4> HIDE DEF r
        <4> QED
          BY <1>3, <3>1, NumberUpdate
      <3> QED
        BY <3>2, RecordFacts
    <2>2. SideOK(t1) /\ InTransit(t1, c) = InTransit(t, c) \cup {x}
      BY <1>4, <1>9, <1>10 DEF Delivers, Sends
    <2> HIDE DEF r, r1, t, t1, x, y, count, ok1, p, closed, lost
    <2>3. c \notin bestEffort => Numbered(DataOf(InTransit(t1, c)), r1, x.msg, sent[e][c])
      <3>1. SUFFICES ASSUME c \notin bestEffort PROVE Numbered(DataOf(InTransit(t1, c)), r1, x.msg, sent[e][c])
        OBVIOUS
      <3> DEFINE S == InTransit(t, c)
      <3> HIDE DEF S
      <3>2. Flow(S \cup {x}, r1, channels[p][c], x.msg, sent[e][c], got[p][c], closed, lost)
        BY <1>3, <1>4, <1>7, <1>8, <2>1, <3>1, FlowGrowFirst DEF S
      <3> QED
        BY <2>2, <3>2 DEF Flow, S
    <2>4. Follows(y, InTransit(t1, y.id))
      BY <1>4, <2>1, <2>2, <2>3, DataFollows
    <2>5. Delivers(t1, y, SendWire(t1, y))
      BY <1>4, <2>2, <2>4, SendWireDelivers
    <2> QED
      BY <1>10, <2>5 DEF u, ok1
  <1>11. Fragments(t, x, y, u, k)
    <2> HIDE DEF t, t1, x, y, fits, count, r
    <2>1. CASE ~fits
      <3>1. u = t /\ k = 0
        BY <2>1
      <3> QED
        BY <1>1, <1>4, <3>1 DEF Fragments
    <2>2. CASE fits /\ ~ok1
      <3>1. u = t1 /\ k = 0 /\ QueueFull(t, x)
        BY <2>2
      <3>2. Same(t, t1)
        BY <1>9, <3>1 DEF Delivers
      <3> QED
        BY <1>4, <3>1, <3>2 DEF Fragments, Same
    <2>3. CASE ok1
      <3>1. Sends(t, x, t1) /\ Delivers(t1, y, u)
        BY <1>9, <1>10, <2>3 DEF Delivers
      <3>2. CASE ok2
        <4>1. Sends(t1, y, u) /\ k = 2
          BY <3>1, <3>2 DEF Delivers
        <4> HIDE DEF u, k
        <4> QED
          BY <1>4, <3>1, <4>1 DEF Fragments, Sends
      <3>3. CASE ~ok2
        <4>1. Same(t1, u) /\ k = 1
          BY <2>3, <3>1, <3>3 DEF Delivers
        <4> HIDE DEF u, k
        <4> QED
          BY <1>4, <3>1, <4>1 DEF Fragments, Sends, Same
      <3> QED
        BY <3>2, <3>3
    <2> QED
      BY <2>1, <2>2, <2>3
  <1> DEFINE rn == [r EXCEPT !.tx = r.tx + k]
  <1>12. rn \in Records /\ rn # None /\ rn.tx = r.tx + k /\ rn.state = "Open" /\ rn.rx = r.rx /\ rn.partial = r.partial
    <2>1. r.tx + k \in Nat \ {0}
      BY <1>3, <1>6
    <2>2. /\ rn \in Records /\ rn.tx = r.tx + k /\ rn.state = r.state
          /\ rn.rx = r.rx /\ rn.partial = r.partial
      <3> HIDE DEF r, k
      <3> QED
        BY <1>3, <2>1, NumberUpdate
    <2> QED
      BY <1>2, <2>2, RecordFacts
  <1>13. /\ channels' \in [Ends -> [Ids -> Records \cup {None}]] /\ channels'[e][c] = rn
         /\ Elsewhere(channels, channels', e, c)
    <2>1. (IF ok2 THEN r.tx + 2 ELSE IF ok1 THEN r.tx + 1 ELSE r.tx) = r.tx + k
      BY <1>3, <1>6
    <2>2. channels' = [channels EXCEPT ![e][c].tx = r.tx + k]
      BY <1>5, <2>1
    <2>3. channels \in [Ends -> [Ids -> Records \cup {None}]] /\ rn \in Records \cup {None}
      BY <1>1, <1>12 DEF StateTypes
    <2> HIDE DEF k
    <2>4. Put(channels, e, c, rn, channels')
      BY <2>2 DEF Put
    <2> HIDE DEF rn
    <2> QED
      BY <2>3, <2>4, CellUpdate
  <1>14. calls' \in [Ends -> [Ids -> Nat]] /\ calls'[e][c] = count + 1 /\ Elsewhere(calls, calls', e, c)
    <2>1. Put(calls, e, c, count + 1, calls') /\ calls \in [Ends -> [Ids -> Nat]] /\ count + 1 \in Nat
      BY <1>1, <1>3, <1>5 DEF Put, StateTypes
    <2> QED
      BY <2>1, CellUpdate
  <1>15. sent' \in [Ends -> [Ids -> Seq(Nat)]] /\ sent'[e][c] = msgs1 /\ Elsewhere(sent, sent', e, c)
    <2>1. fits /\ BothFragmentsSent(t, x, y) <=> k = 2
      BY <1>6 DEF BothFragmentsSent
    <2>2. sent \in [Ends -> [Ids -> Seq(Nat)]] /\ count + 1 \in Nat
      BY <1>1, <1>3 DEF StateTypes
    <2> HIDE DEF k
    <2>3. CASE k # 2
      BY <1>5, <2>1, <2>2, <2>3 DEF Elsewhere
    <2>4. CASE k = 2
      <3> DEFINE v == Append(sent[e][c], count + 1)
      <3>1. Put(sent, e, c, v, sent')
        BY <1>5, <2>1, <2>4 DEF Put
      <3>2. v \in Seq(Nat)
        BY <1>3, <2>2, AppendRange
      <3> HIDE DEF v
      <3>3. sent' \in [Ends -> [Ids -> Seq(Nat)]] /\ sent'[e][c] = v /\ Elsewhere(sent, sent', e, c)
        BY <2>2, <3>1, <3>2, CellUpdate
      <3>4. v = msgs1
        BY <1>4, <2>4 DEF v
      <3> QED
        BY <3>3, <3>4
    <2> QED
      BY <2>3, <2>4
  <1>16. Sides(tx') /\ tx'[e] = u /\ tx'[p] = tx[p]
    <2>1. Sides(tx) /\ PutSide(tx, e, u, tx')
      BY <1>1, <1>5 DEF StateTypes, Sides, PutSide
    <2> HIDE DEF u
    <2> QED
      BY <2>1, SideUpdate
  <1>17. Onward
    BY <1>1, <1>2 DEF Onward, StateTypes
  <1>18. StateTypes'
    <2> HIDE DEF u, k, msgs1, rn, r, t
    <2> QED
      BY <1>1, <1>2, <1>13, <1>14, <1>15, <1>16 DEF StateTypes, Sides
  <1> HIDE DEF u, k, x, y, rn, msgs1
  <1>19. OnlyAt(e, c)
    BY <1>2, <1>13, <1>14, <1>15 DEF OnlyAt, Elsewhere
  <1>20. EndSame(p, c)
    BY <1>1, <1>16, <1>19, OnlyAtFacts DEF EndSame
  <1>21. /\ SideOK(u) /\ \A d \in Ids \ {c} : InTransit(u, d) = InTransit(t, d)
         /\ \A g \in InTransit(u, c) : g \in InTransit(t, c) \/ IsData(g)
    <2> HIDE DEF t
    <2> QED
      BY <1>4, <1>6, <1>11 DEF Fragments
  <1>22. c \notin bestEffort => Flows(e, c)'
    <2>1. SUFFICES ASSUME c \notin bestEffort PROVE Flows(e, c)'
      OBVIOUS
    <2>2. channels'[p][c] = channels[p][c]
      BY <1>20 DEF EndSame
    <2>3. msgs1 = IF k = 2 THEN Append(sent[e][c], y.msg) ELSE sent[e][c]
      BY DEF msgs1
    <2>4. Flow(InTransit(u, c), rn, channels[p][c], count + 1, msgs1, got[p][c], closed, lost)
      <3> DEFINE to == channels[p][c]
                 given == got[p][c]
                 msgs == sent[e][c]
      <3> HIDE DEF t, r, count, closed, lost, p, to, given, msgs
      <3>1. /\ FlowTypes(InTransit(t, c), r, to, count, msgs, given)
            /\ Flow(InTransit(t, c), r, to, count, msgs, given, closed, lost)
            /\ msgs1 = IF k = 2 THEN Append(msgs, y.msg) ELSE msgs
        BY <1>7, <1>8, <2>1, <2>3 DEF to, given, msgs
      <3>2. Flow(InTransit(u, c), rn, to, count + 1, msgs1, given, closed, lost)
        BY <1>3, <1>4, <1>6, <1>11, <1>12, <3>1, FlowSendsFragments
      <3> QED
        BY <3>2 DEF to, given
    <2> QED
      BY <1>2, <1>13, <1>14, <1>15, <1>16, <2>2, <2>4 DEF Flows
  <1>23. ChannelInv(c)'
    BY <1>2, <1>12, <1>13, <1>16, <1>17, <1>20, <1>21, <1>22, ChannelSends
  <1>24. \A z \in Ends : SideOK(tx'[z]) /\ \A d \in Ids \ {c} : InTransit(tx'[z], d) = InTransit(tx[z], d)
    <2>1. \A z \in Ends : z = e \/ z = p
      BY PeerFacts
    <2> QED
      BY <1>1, <1>16, <1>21, <2>1
  <1> QED
    BY <1>17, <1>18, <1>19, <1>23, <1>24, OneStep

LEMMA ResetChannelInv ==
    ASSUME IndInv, NEW e \in Ends, NEW c \in Ids, ResetChannel(e, c)
    PROVE  IndInv'
  <1> DEFINE p == Peer(e)
             u == ResetSide(tx[e], c)
  <1>1. StateTypes /\ SideOK(tx[e]) /\ SideOK(tx[p]) /\ p \in Ends /\ p # e /\ ChannelInv(c)
    BY PeerFacts DEF IndInv
  <1>2. /\ c # 0 /\ Has(e, c)
        /\ tx' = [tx EXCEPT ![e] = u] /\ channels' = [channels EXCEPT ![e][c] = None]
        /\ UNCHANGED <<bestEffort, nextId, down, calls, sent, got, terminal, swept, closedBy>>
    BY DEF ResetChannel, Reset, ResetSide
  <1>3. Sides(tx') /\ tx'[e] = u /\ tx'[p] = tx[p]
    <2>1. Sides(tx) /\ PutSide(tx, e, u, tx')
      BY <1>1, <1>2 DEF StateTypes, Sides, PutSide
    <2> HIDE DEF u
    <2> QED
      BY <2>1, SideUpdate
  <1>4. /\ channels' \in [Ends -> [Ids -> Records \cup {None}]] /\ channels'[e][c] = None
        /\ Elsewhere(channels, channels', e, c)
    <2>1. Put(channels, e, c, None, channels') /\ channels \in [Ends -> [Ids -> Records \cup {None}]]
      BY <1>1, <1>2 DEF Put, StateTypes
    <2>2. None \in Records \cup {None}
      OBVIOUS
    <2> QED
      BY <2>1, <2>2, CellUpdate
  <1>5. Cuts(tx[e], {c}, u)
    BY <1>1, ResetCuts
  <1> HIDE DEF u
  <1>6. Onward
    BY <1>1, <1>2 DEF Onward, StateTypes
  <1>7. StateTypes'
    BY <1>1, <1>2, <1>3, <1>4 DEF StateTypes, Sides
  <1>8. OnlyAt(e, c) /\ LogSame(e, c)
    BY <1>2, <1>4 DEF OnlyAt, Elsewhere, LogSame
  <1>9. LogSame(p, c) /\ channels'[p][c] = channels[p][c] /\ terminal'[p][c] = terminal[p][c]
    BY <1>1, <1>8, OnlyAtFacts
  <1>10. /\ SideOK(u) /\ CutFrames(InTransit(tx[e], c), InTransit(u, c))
         /\ \A d \in Ids \ {c} : InTransit(u, d) = InTransit(tx[e], d)
    BY <1>5 DEF Cuts
  <1>11. terminal'[e][c] \in {0, 1}
    BY <1>1, <1>2 DEF ChannelInv, EndsOnce
  <1>12. ChannelInv(c)'
    BY <1>2, <1>3, <1>4, <1>6, <1>8, <1>9, <1>10, <1>11, LogSameKept, ChannelEnds
  <1>13. \A z \in Ends : SideOK(tx'[z]) /\ \A d \in Ids \ {c} : InTransit(tx'[z], d) = InTransit(tx[z], d)
    <2>1. \A z \in Ends : z = e \/ z = p
      BY PeerFacts
    <2> QED
      BY <1>1, <1>3, <1>10, <2>1
  <1> QED
    BY <1>6, <1>7, <1>8, <1>12, <1>13, OneStep

LEMMA CloseChannelInv ==
    ASSUME IndInv, NEW e \in Ends, NEW c \in Ids, CloseChannel(e, c)
    PROVE  IndInv'
  <1> DEFINE p == Peer(e)
             r == channels[e][c]
             f == Frame("Close", c)
             u == SendWire(tx[e], f)
             r1 == [r EXCEPT !.state = "Closing", !.tx = r.tx + 1]
  <1>1. StateTypes /\ SideOK(tx[e]) /\ SideOK(tx[p]) /\ p \in Ends /\ p # e /\ ChannelInv(c)
    BY PeerFacts DEF IndInv
  <1>2. /\ Has(e, c) /\ tx' = [tx EXCEPT ![e] = u] /\ channels' = [channels EXCEPT ![e][c] = r1]
        /\ closedBy' = closedBy \cup {<<e, c>>}
        /\ UNCHANGED <<bestEffort, nextId, down, calls, sent, got, terminal, swept>>
    BY DEF CloseChannel
  <1>3. Sides(tx') /\ tx'[e] = u /\ tx'[p] = tx[p]
    <2>1. Sides(tx) /\ PutSide(tx, e, u, tx')
      BY <1>1, <1>2 DEF StateTypes, Sides, PutSide
    <2> HIDE DEF u
    <2> QED
      BY <2>1, SideUpdate
  <1>4. /\ r1 \in Records /\ r1.state = "Closing" /\ r1.tx = r.tx + 1 /\ r1.rx = r.rx /\ r1.partial = r.partial
        /\ r1 # None
    <2>1. r \in Records
      BY <1>1, <1>2 DEF StateTypes, Has
    <2>2. r.tx \in Nat \ {0}
      BY <2>1, RecordFacts
    <2> DEFINE n == r.tx + 1
    <2>4. n \in Nat \ {0} /\ r1 = [r EXCEPT !.state = "Closing", !.tx = n]
      BY <2>2
    <2> HIDE DEF r, n, r1
    <2>5. r1 \in Records /\ r1.state = "Closing" /\ r1.tx = n /\ r1.rx = r.rx /\ r1.partial = r.partial
      BY <2>1, <2>4 DEF Records
    <2>3. r1 \in Records /\ r1.state = "Closing" /\ r1.tx = r.tx + 1 /\ r1.rx = r.rx /\ r1.partial = r.partial
      BY <2>5 DEF n
    <2> QED
      BY <2>3, RecordFacts
  <1>5. /\ channels' \in [Ends -> [Ids -> Records \cup {None}]] /\ channels'[e][c] = r1
        /\ Elsewhere(channels, channels', e, c)
    <2>1. Put(channels, e, c, r1, channels') /\ channels \in [Ends -> [Ids -> Records \cup {None}]]
      BY <1>1, <1>2 DEF Put, StateTypes
    <2>2. r1 \in Records \cup {None}
      BY <1>4
    <2> HIDE DEF r1
    <2> QED
      BY <2>1, <2>2, CellUpdate
  <1>6. f \in Sendable /\ f.kind = "Close" /\ f.id = c
    BY FrameFacts
  <1>7. Delivers(tx[e], f, u)
    <2> HIDE DEF f
    <2>1. ~Ranked(f)
      BY <1>6 DEF Ranked
    <2>2. Follows(f, InTransit(tx[e], f.id))
      BY <2>1 DEF Follows, Precedes
    <2> QED
      BY <1>1, <1>6, <2>2, SendWireDelivers
  <1> HIDE DEF u, f, r1
  <1>8. Onward
    BY <1>1, <1>2 DEF Onward, StateTypes
  <1>9. StateTypes'
    BY <1>1, <1>2, <1>3, <1>5 DEF StateTypes, Sides
  <1>10. OnlyAt(e, c)
    BY <1>2, <1>5 DEF OnlyAt, Elsewhere
  <1>11. EndSame(p, c)
    BY <1>1, <1>3, <1>10, OnlyAtFacts DEF EndSame
  <1>12. /\ SideOK(u) /\ \A d \in Ids \ {c} : InTransit(u, d) = InTransit(tx[e], d)
         /\ InTransit(tx[e], c) \subseteq InTransit(u, c)
         /\ \A g \in InTransit(u, c) : g \in InTransit(tx[e], c) \/ g.kind = "Close"
    BY <1>6, <1>7, DeliverFacts
  <1>13. ChannelInv(c)'
    <2>1. <<e, c>> \in closedBy'
      BY <1>2
    <2> QED
      BY <1>2, <1>3, <1>4, <1>5, <1>8, <1>11, <1>12, <2>1, ChannelCloses
  <1>14. \A z \in Ends : SideOK(tx'[z]) /\ \A d \in Ids \ {c} : InTransit(tx'[z], d) = InTransit(tx[z], d)
    <2>1. \A z \in Ends : z = e \/ z = p
      BY PeerFacts
    <2> QED
      BY <1>1, <1>3, <1>12, <2>1
  <1> QED
    BY <1>8, <1>9, <1>10, <1>13, <1>14, OneStep

\* A step on all channels of an end.
LEMMA AllChannels ==
    ASSUME Onward, StateTypes', \A e \in Ends : SideOK(tx'[e]), \A c \in Ids : ChannelInv(c)'
    PROVE  IndInv'
  <1>1. \A e \in Ends : SideOK(tx[e])'
    BY DEF SideOK, SideTypes, SideClasses, SideOrder, Onward
  <1> QED
    BY <1>1 DEF IndInv

LEMMA DetachAllChannelsInv ==
    ASSUME IndInv, NEW e \in Ends, DetachAllChannels(e)
    PROVE  IndInv'
  <1> DEFINE p == Peer(e)
             t == tx[e]
             u == [t EXCEPT !.queues = [c \in Ids |-> <<>>], !.order = <<>>, !.bytes = 0]
  <1>1. StateTypes /\ SideOK(t) /\ SideOK(tx[p]) /\ p \in Ends /\ p # e /\ Peer(p) = e
    BY PeerFacts DEF IndInv
  <1>2. /\ tx' = [tx EXCEPT ![e] = u] /\ channels' = [channels EXCEPT ![e] = [c \in Ids |-> None]]
        /\ down' = down \cup {e}
        /\ terminal' = [terminal EXCEPT ![e] =
                [c \in Ids |-> IF Has(e, c) THEN terminal[e][c] + 1 ELSE terminal[e][c]]]
        /\ UNCHANGED <<bestEffort, nextId, calls, sent, got, swept, closedBy>>
    BY DEF DetachAllChannels
  <1>3. Sides(tx') /\ tx'[e] = u /\ tx'[p] = tx[p]
    <2>1. Sides(tx) /\ PutSide(tx, e, u, tx')
      BY <1>1, <1>2 DEF StateTypes, Sides, PutSide
    <2> HIDE DEF u
    <2> QED
      BY <2>1, SideUpdate
  <1>4. /\ SideShape(u) /\ u.order = <<>> /\ u.wire = t.wire /\ u.air = t.air
        /\ u.queues = [c \in Ids |-> <<>>]
    <2>1. SideShape(t)
      BY <1>1, SideFacts
    <2> HIDE DEF t
    <2> QED
      BY <2>1 DEF SideShape
  <1>5. Cuts(t, Ids, u)
    <2>1. u.queues = [c \in Ids |-> IF c \in Ids THEN <<>> ELSE t.queues[c]] /\ u.order \in Seq(Ids)
      BY <1>4
    <2> HIDE DEF t, u
    <2> QED
      BY <1>1, <1>4, <2>1, DropSide
  <1>6. SideOK(u) /\ \A c \in Ids : CutFrames(InTransit(t, c), InTransit(u, c))
    BY <1>5 DEF Cuts
  <1>7. \A c \in Ids : InTransit(u, c) \subseteq InTransit(t, c)
    <2> HIDE DEF t, u
    <2> QED
      BY <1>4, EmptyRange DEF InTransit
  <1> HIDE DEF u
  <1>8. Onward
    BY <1>1, <1>2 DEF Onward, StateTypes
  <1>9. /\ channels \in [Ends -> [Ids -> Records \cup {None}]] /\ terminal \in [Ends -> [Ids -> Nat]]
        /\ \A c \in Ids : channels'[e][c] = None /\ channels'[p][c] = channels[p][c]
        /\ \A c \in Ids : /\ terminal'[e][c] = IF Has(e, c) THEN terminal[e][c] + 1 ELSE terminal[e][c]
                          /\ terminal'[p][c] = terminal[p][c]
    BY <1>1, <1>2 DEF StateTypes
  <1>10. StateTypes'
    <2>1. channels' \in [Ends -> [Ids -> Records \cup {None}]]
      <3>1. [c \in Ids |-> None] \in [Ids -> Records \cup {None}]
        OBVIOUS
      <3> QED
        BY <1>2, <1>9, <3>1
    <2>2. terminal' \in [Ends -> [Ids -> Nat]]
      <3>1. [c \in Ids |-> IF Has(e, c) THEN terminal[e][c] + 1 ELSE terminal[e][c]] \in [Ids -> Nat]
        BY <1>9
      <3> QED
        BY <1>2, <1>9, <3>1
    <2> QED
      BY <1>1, <1>2, <1>3, <2>1, <2>2 DEF StateTypes, Sides
  <1>11. \A c \in Ids, x \in Ends : LogSame(x, c)
    BY <1>2 DEF LogSame
  <1>12. ASSUME NEW c \in Ids
         PROVE  ChannelInv(c)'
    <2>1. ChannelInv(c)
      BY DEF IndInv
    <2>2. CASE Has(e, c)
      <3>1. terminal'[e][c] = 1
        BY <1>9, <2>1, <2>2 DEF ChannelInv, EndsOnce
      <3>2. ~Alive(e)'
        BY <1>2 DEF Alive
      <3> QED
        BY <1>1, <1>3, <1>6, <1>8, <1>9, <1>11, <2>2, <3>1, <3>2, LogSameKept, ChannelEnds
    <2>3. CASE ~Has(e, c)
      <3>1. channels[e][c] = None
        BY <2>3 DEF Has
      <3>2. \A x \in Ends : x = e \/ x = p
        BY PeerFacts
      <3>3. \A x \in Ends : /\ LogSame(x, c) /\ channels'[x][c] = channels[x][c]
                            /\ terminal'[x][c] = terminal[x][c]
                            /\ InTransit(tx'[x], c) \subseteq InTransit(tx[x], c)
        BY <1>3, <1>7, <1>9, <1>11, <2>3, <3>1, <3>2
      <3>4. ASSUME c \notin bestEffort
            PROVE  \A x \in Ends : Flows(x, c)'
        <4>1. Flows(p, c)'
          <5>1. Flows(p, c)
            BY <1>1, <2>1, <3>4 DEF ChannelInv
          <5> QED
            BY <1>1, <1>2, <1>3, <1>9, <3>1, <5>1 DEF Flows
        <4>2. Flows(e, c)'
          <5> DEFINE S == InTransit(t, c)
                     U == InTransit(u, c)
                     to == channels[p][c]
                     count == calls[e][c]
                     msgs == sent[e][c]
                     given == got[p][c]
                     closed == <<e, c>> \in closedBy
                     lost == <<p, c>> \in swept
          <5>1. Flow(S, None, to, count, msgs, given, closed, lost)
            BY <1>1, <2>1, <3>1, <3>4 DEF ChannelInv, Flows
          <5>2. FlowTypes(S, None, to, count, msgs, given)
            BY <3>1, ChannelTypes DEF IndInv
          <5>3. U \subseteq Sendable /\ CutFrames(S, U)
            BY <1>6, InTransitSendable
          <5> HIDE DEF S, U, to, count, msgs, given, closed, lost
          <5>4. Flow(U, None, to, count, msgs, given, closed, lost)
            BY <5>1, <5>2, <5>3, FlowCut
          <5> QED
            BY <1>2, <1>3, <1>9, <5>4 DEF Flows, U, to, count, msgs, given, closed, lost
        <4> QED
          BY <3>2, <4>1, <4>2
      <3> QED
        BY <1>8, <3>3, <3>4, FramesLess
    <2> QED
      BY <2>2, <2>3
  <1>13. \A x \in Ends : SideOK(tx'[x])
    <2>1. \A x \in Ends : x = e \/ x = p
      BY PeerFacts
    <2> QED
      BY <1>1, <1>3, <1>6, <2>1
  <1> QED
    BY <1>8, <1>10, <1>12, <1>13, AllChannels

LEMMA NoEntries ==
    ASSUME NEW S, NEW q \in Seq(S), Range(q) = {}
    PROVE  q = <<>>
  <1>1. Len(q) \in Nat /\ DOMAIN q = 1 .. Len(q)
    OBVIOUS
  <1>2. ~(1 \in DOMAIN q)
    BY DEF Range
  <1> QED
    BY <1>1, <1>2

\* What SweepExpired leaves of a record.
IsSwept(e, c, old, r) == r = [channels[e][c] EXCEPT !.partial = Unexpired(e, c, old)]

LEMMA SweptRecord ==
    ASSUME IndInv, NEW e \in Ends, NEW c \in Ids, Has(e, c), NEW old, NEW r,
           IsSwept(e, c, old, r)
    PROVE  /\ r \in Records /\ r # None /\ r.state = channels[e][c].state
           /\ r.tx = channels[e][c].tx /\ r.rx = channels[e][c].rx
           /\ channels[e][c].partial = <<>> => r.partial = <<>>
           /\ (\A o \in old : o[1] # c) => Range(r.partial) = Range(channels[e][c].partial)
  <1> DEFINE r0 == channels[e][c]
             M == {m \in Assembling(e, c) : <<c, m>> \in old}
             E == (Nat \ {0}) \X {1, 2}
             k == Unexpired(e, c, old)
  <1>1. r0 \in Records
    BY DEF IndInv, StateTypes, Has
  <1>2. r0.partial \in Seq(E)
    BY <1>1, RecordFacts
  <1>3. k \in Seq(E) /\ Range(k) = {x \in Range(r0.partial) : x[1] \notin M}
    <2> HIDE DEF r0, M, E, k
    <2>1. k = Without(r0.partial, M)
      BY DEF k, Unexpired, r0, M
    <2> QED
      BY <1>2, <2>1, WithoutRange
  <1>4. /\ r \in Records /\ r.state = r0.state /\ r.tx = r0.tx /\ r.rx = r0.rx /\ r.partial = k
    <2> HIDE DEF r0, k
    <2>1. r = [r0 EXCEPT !.partial = k]
      BY DEF IsSwept, r0, k
    <2> QED
      BY <1>1, <1>3, <2>1 DEF Records
  <1>5. r # None
    BY <1>4, RecordFacts
  <1>6. r0.partial = <<>> => k = <<>>
    <2> HIDE DEF r0, M, E, k
    <2> QED
      BY <1>3, EmptyRange, NoEntries
  <1>7. (\A o \in old : o[1] # c) => Range(k) = Range(r0.partial)
    <2>1. SUFFICES ASSUME \A o \in old : o[1] # c PROVE M = {}
      <3> HIDE DEF r0, M, k
      <3> QED
        BY <1>3
    <2> QED
      BY <2>1
  <1> QED
    BY <1>4, <1>5, <1>6, <1>7

LEMMA ReadersInTurn ==
    ASSUME NEW e \in Ends, NEW readers \in SUBSET Readers(e), NEW idle \in SetToSeqs(readers)
    PROVE  /\ idle \in Seq(Ids)
           /\ \A c \in Range(idle) : c \in Ids /\ c # 0 /\ Has(e, c)
  <1>1. readers \subseteq Ids /\ \A c \in readers : c # 0 /\ Has(e, c)
    BY ConstantsAssumption DEF Readers
  <1>2. Cardinality(readers) \in Nat
    BY <1>1, ConstantsAssumption, FS_Subset, FS_CardinalityType
  <1>3. idle \in [1 .. Cardinality(readers) -> readers]
    BY DEF SetToSeqs
  <1>4. idle \in Seq(Ids)
    BY <1>1, <1>2, <1>3
  <1>5. Range(idle) \subseteq readers
    BY <1>3 DEF Range
  <1> QED
    BY <1>1, <1>4, <1>5

LEMMA TickInv ==
    ASSUME IndInv, NEW e \in Ends, NEW old, NEW readers \in SUBSET Readers(e), NEW idle \in SetToSeqs(readers),
           Tick(e, old, idle)
    PROVE  IndInv'
  <1> DEFINE p == Peer(e)
             t == tx[e]
             u == FlushQueued(ResetInTurn(t, idle))
             R == Range(idle)
  <1>1. StateTypes /\ SideOK(t) /\ SideOK(tx[p]) /\ p \in Ends /\ p # e /\ Peer(p) = e
    BY PeerFacts DEF IndInv
  <1>2. /\ tx' = [tx EXCEPT ![e] = u]
        /\ channels' = [channels EXCEPT ![e] = [c \in Ids |->
                IF c \in R \/ ~Has(e, c) THEN None ELSE [channels[e][c] EXCEPT !.partial = Unexpired(e, c, old)]]]
        /\ terminal' = [terminal EXCEPT ![e] =
                [c \in Ids |-> IF c \in R THEN terminal[e][c] + 1 ELSE terminal[e][c]]]
        /\ swept' = swept \cup {<<e, o[1]>> : o \in old}
        /\ UNCHANGED <<bestEffort, nextId, down, calls, sent, got, closedBy>>
    BY DEF Tick
  <1>3. idle \in Seq(Ids) /\ \A c \in R : c \in Ids /\ c # 0 /\ Has(e, c)
    BY ReadersInTurn
  <1>4. Cuts(t, R, u)
    <2> HIDE DEF t
    <2> QED
      BY <1>1, <1>3, TickCuts
  <1> HIDE DEF u, R
  <1>5. Sides(tx') /\ tx'[e] = u /\ tx'[p] = tx[p]
    <2>1. Sides(tx) /\ PutSide(tx, e, u, tx')
      BY <1>1, <1>2 DEF StateTypes, Sides, PutSide
    <2> QED
      BY <2>1, SideUpdate
  <1>6. /\ SideOK(u) /\ \A c \in Ids : CutFrames(InTransit(t, c), InTransit(u, c))
        /\ \A c \in Ids \ R : InTransit(u, c) = InTransit(t, c)
    BY <1>4 DEF Cuts
  <1>7. Onward
    BY <1>1, <1>2 DEF Onward, StateTypes
  <1>8. /\ channels \in [Ends -> [Ids -> Records \cup {None}]] /\ terminal \in [Ends -> [Ids -> Nat]]
        /\ \A c \in Ids :
            /\ channels'[e][c] = IF c \in R \/ ~Has(e, c) THEN None
                                 ELSE [channels[e][c] EXCEPT !.partial = Unexpired(e, c, old)]
            /\ channels'[p][c] = channels[p][c]
        /\ \A c \in Ids : /\ terminal'[e][c] = IF c \in R THEN terminal[e][c] + 1 ELSE terminal[e][c]
                          /\ terminal'[p][c] = terminal[p][c]
    BY <1>1, <1>2 DEF StateTypes
  <1>9. \A c \in Ids : Has(e, c) => [channels[e][c] EXCEPT !.partial = Unexpired(e, c, old)] \in Records
    <2>1. \A c \in Ids : IsSwept(e, c, old, [channels[e][c] EXCEPT !.partial = Unexpired(e, c, old)])
      BY DEF IsSwept
    <2> QED
      BY <2>1, SweptRecord
  <1>10. StateTypes'
    <2>1. channels' \in [Ends -> [Ids -> Records \cup {None}]]
      <3> DEFINE row == [c \in Ids |-> IF c \in R \/ ~Has(e, c) THEN None
                                       ELSE [channels[e][c] EXCEPT !.partial = Unexpired(e, c, old)]]
      <3>1. row \in [Ids -> Records \cup {None}]
        BY <1>9
      <3>2. channels' = [channels EXCEPT ![e] = row]
        BY <1>2
      <3> HIDE DEF row
      <3> QED
        BY <1>8, <3>1, <3>2
    <2>2. terminal' \in [Ends -> [Ids -> Nat]]
      <3> DEFINE row == [c \in Ids |-> IF c \in R THEN terminal[e][c] + 1 ELSE terminal[e][c]]
      <3>1. row \in [Ids -> Nat]
        BY <1>8
      <3>2. terminal' = [terminal EXCEPT ![e] = row]
        BY <1>2
      <3> HIDE DEF row
      <3> QED
        BY <1>8, <3>1, <3>2
    <2> QED
      BY <1>1, <1>2, <1>5, <2>1, <2>2 DEF StateTypes, Sides
  <1>11. \A c \in Ids : LogSame(p, c) /\ LogKept(e, c)
    BY <1>1, <1>2 DEF LogSame, LogKept
  <1>12. ASSUME NEW c \in Ids
         PROVE  ChannelInv(c)'
    <2>1. ChannelInv(c)
      BY DEF IndInv
    <2>2. CASE c \in R
      <3>1. c # 0 /\ Has(e, c)
        BY <1>3, <2>2
      <3>2. terminal'[e][c] = 1
        BY <1>1, <1>8, <2>1, <2>2, <3>1 DEF ChannelInv, EndsOnce
      <3>3. channels'[e][c] = None
        BY <1>8, <2>2
      <3>4. channels'[p][c] = channels[p][c] /\ terminal'[p][c] = terminal[p][c]
        BY <1>8
      <3> QED
        BY <1>5, <1>6, <1>7, <1>11, <3>1, <3>2, <3>3, <3>4, ChannelEnds
    <2>3. CASE c \notin R
      <3>1. EndSame(p, c)
        BY <1>5, <1>8, <1>11 DEF EndSame
      <3>2. terminal'[e][c] = terminal[e][c] /\ InTransit(tx'[e], c) = InTransit(tx[e], c)
        BY <1>5, <1>6, <1>8, <2>3
      <3>3. /\ calls'[e][c] = calls[e][c] /\ sent'[e][c] = sent[e][c] /\ got'[e][c] = got[e][c]
            /\ (<<e, c>> \in closedBy') = (<<e, c>> \in closedBy)
            /\ ~(<<e, c>> \in swept') => ~(<<e, c>> \in swept)
        BY <1>11 DEF LogKept
      <3>4. CASE ~Has(e, c)
        <4>1. channels'[e][c] = None /\ channels[e][c] = None
          BY <1>8, <3>4 DEF Has
        <4>2. ~Has(e, c)'
          BY <4>1 DEF Has
        <4> QED
          BY <1>7, <3>1, <3>2, <3>3, <3>4, <4>2, ChannelSwept
      <3>5. CASE Has(e, c)
        <4>1. channels'[e][c] = [channels[e][c] EXCEPT !.partial = Unexpired(e, c, old)]
          BY <1>8, <2>3, <3>5
        <4>2. ~(<<e, c>> \in swept') => \A o \in old : o[1] # c
          BY <1>2
        <4>3. /\ channels'[e][c] # None /\ channels'[e][c].state = channels[e][c].state
              /\ channels'[e][c].tx = channels[e][c].tx /\ channels'[e][c].rx = channels[e][c].rx
              /\ channels[e][c].partial = <<>> => channels'[e][c].partial = <<>>
              /\ ~(<<e, c>> \in swept') => Range(channels'[e][c].partial) = Range(channels[e][c].partial)
          <5>1. IsSwept(e, c, old, channels'[e][c])
            BY <4>1 DEF IsSwept
          <5> QED
            BY <3>5, <4>2, <5>1, SweptRecord
        <4>4. Has(e, c)'
          BY <4>3 DEF Has
        <4> QED
          BY <1>7, <3>1, <3>2, <3>3, <3>5, <4>3, <4>4, ChannelSwept
      <3> QED
        BY <3>4, <3>5
    <2> QED
      BY <2>2, <2>3
  <1>13. \A x \in Ends : SideOK(tx'[x])
    <2>1. \A x \in Ends : x = e \/ x = p
      BY PeerFacts
    <2> QED
      BY <1>1, <1>5, <1>6, <2>1
  <1> QED
    BY <1>7, <1>10, <1>12, <1>13, AllChannels

-----------------------------------------------------------------------------
(* Frames that come in.                                                    *)

\* txs is tx without the frame f, which has come to end e.
Arrives(e, f, txs) == Sides(txs) /\ txs[e] = tx[e] /\ Taken(tx[Peer(e)], f, txs[Peer(e)])

\* What no handler of a frame changes.
Aside == UNCHANGED <<bestEffort, nextId, down, swept, closedBy>>

\* The records and histories after a step that changes those of end e and
\* channel c.
Cells(e, c) ==
    /\ channels' \in [Ends -> [Ids -> Records \cup {None}]] /\ Elsewhere(channels, channels', e, c)
    /\ calls' \in [Ends -> [Ids -> Nat]] /\ Elsewhere(calls, calls', e, c)
    /\ sent' \in [Ends -> [Ids -> Seq(Nat)]] /\ Elsewhere(sent, sent', e, c)
    /\ got' \in [Ends -> [Ids -> Seq(Nat)]] /\ Elsewhere(got, got', e, c)
    /\ terminal' \in [Ends -> [Ids -> Nat]] /\ Elsewhere(terminal, terminal', e, c)

\* The sending sides after it: end e has u, the other end what is left.
After(e, txs, u) == Sides(tx') /\ tx'[e] = u /\ tx'[Peer(e)] = txs[Peer(e)]

LEMMA Unanswered ==
    ASSUME NEW e \in Ends, NEW f, NEW txs, Arrives(e, f, txs), tx' = txs
    PROVE  After(e, txs, tx[e])
  BY DEF Arrives, After

LEMMA Answered ==
    ASSUME NEW e \in Ends, NEW f, NEW txs, Arrives(e, f, txs), NEW u, PutSide(txs, e, u, tx')
    PROVE  After(e, txs, u)
  BY SideUpdate DEF Arrives, After

LEMMA ArrivesFacts ==
    ASSUME IndInv, NEW e \in Ends, NEW f, NEW txs, Arrives(e, f, txs)
    PROVE  /\ f \in Sendable /\ f.id \in Ids /\ Peer(e) \in Ends /\ Peer(e) # e
           /\ SideOK(tx[e]) /\ SideOK(txs[Peer(e)]) /\ txs[e] = tx[e]
           /\ f \in InTransit(tx[Peer(e)], f.id) /\ ChannelInv(f.id) /\ StateTypes
           /\ channels[e][f.id] \in Records \cup {None}
  <1>1. f \in Sendable /\ f.id \in Ids
    BY SendableFacts DEF Arrives, Taken
  <1>2. Peer(e) \in Ends /\ Peer(e) # e
    BY PeerFacts
  <1>3. SideOK(tx[e]) /\ ChannelInv(f.id) /\ StateTypes
    BY <1>1 DEF IndInv
  <1>4. SideOK(txs[Peer(e)]) /\ txs[e] = tx[e] /\ f \in InTransit(tx[Peer(e)], f.id)
    BY DEF Arrives, Taken
  <1>5. channels[e][f.id] \in Records \cup {None}
    BY <1>1, <1>3 DEF StateTypes
  <1> QED
    BY <1>1, <1>2, <1>3, <1>4, <1>5

\* What is the same for all handlers.
LEMMA HandledFacts ==
    ASSUME IndInv, NEW e \in Ends, NEW f, NEW txs, Arrives(e, f, txs), Aside, NEW u, After(e, txs, u),
           Cells(e, f.id)
    PROVE  /\ Onward /\ StateTypes' /\ OnlyAt(e, f.id) /\ EndGives(Peer(e), f.id, f)
  <1> DEFINE c == f.id
             p == Peer(e)
  <1>1. /\ f \in Sendable /\ c \in Ids /\ p \in Ends /\ p # e /\ StateTypes
        /\ SideOK(txs[p]) /\ tx'[p] = txs[p]
    BY ArrivesFacts DEF After
  <1>2. Onward
    BY <1>1 DEF Onward, Aside, StateTypes
  <1>3. StateTypes'
    BY <1>1 DEF StateTypes, Aside, Cells, After, Sides
  <1>4. OnlyAt(e, c)
    BY DEF OnlyAt, Aside, Cells
  <1>5. LogSame(p, c) /\ channels'[p][c] = channels[p][c] /\ terminal'[p][c] = terminal[p][c]
    BY <1>1, <1>4, OnlyAtFacts
  <1>6. EndGives(p, c, f)
    BY <1>1, <1>5 DEF EndGives, Arrives, Taken
  <1> QED
    BY <1>2, <1>3, <1>4, <1>6

LEMMA HandledStep ==
    ASSUME IndInv, NEW e \in Ends, NEW f, NEW txs, Arrives(e, f, txs), Aside, NEW u, After(e, txs, u),
           Cells(e, f.id), SideOK(u), \A d \in Ids \ {f.id} : InTransit(u, d) = InTransit(tx[e], d),
           ChannelInv(f.id)'
    PROVE  IndInv'
  <1> DEFINE c == f.id
             p == Peer(e)
  <1>1. Onward /\ StateTypes' /\ OnlyAt(e, c) /\ c \in Ids
    BY HandledFacts, ArrivesFacts
  <1>2. SideOK(tx'[p]) /\ \A d \in Ids \ {c} : InTransit(tx'[p], d) = InTransit(tx[p], d)
    BY DEF Arrives, Taken, After
  <1>3. SideOK(tx'[e]) /\ \A d \in Ids \ {c} : InTransit(tx'[e], d) = InTransit(tx[e], d)
    BY DEF After
  <1>4. \A x \in Ends : x = e \/ x = p
    BY PeerFacts
  <1>5. \A x \in Ends : SideOK(tx'[x]) /\ \A d \in Ids \ {c} : InTransit(tx'[x], d) = InTransit(tx[x], d)
    BY <1>2, <1>3, <1>4
  <1> QED
    BY <1>1, <1>5, OneStep

LEMMA HandleOpenInv ==
    ASSUME IndInv, NEW e \in Ends, NEW f, NEW txs, Arrives(e, f, txs), Aside, NEW handled \in BOOLEAN,
           HandleOpen(e, f, txs, handled)
    PROVE  IndInv'
  <1> DEFINE c == f.id
             takes == /\ c = 0 \/ Opener(c) # e
                      /\ Cardinality({d \in Ids : Has(e, d)}) < MaxChannels
                      /\ c = 0 \/ handled
             ack == OpenAck(c, takes)
             u == SendWire(tx[e], ack)
  <1>1. f.kind = "Open" /\ UNCHANGED <<calls, sent, got, terminal>>
    BY DEF HandleOpen
  <1>2. /\ c \in Ids /\ SideOK(tx[e]) /\ txs[e] = tx[e] /\ f \in InTransit(tx[Peer(e)], c) /\ StateTypes
        /\ Peer(e) \in Ends
    BY ArrivesFacts
  <1>3. ~Has(e, c) /\ InTransit(tx[e], c) = {}
    BY <1>1, <1>2, OpenComesFirst DEF Touched
  <1>4. /\ channels' = IF takes THEN [channels EXCEPT ![e][c] = Record("Open")] ELSE channels
        /\ tx' = [txs EXCEPT ![e] = u]
    BY <1>2, <1>3 DEF HandleOpen
  <1>5. takes \in BOOLEAN
    OBVIOUS
  <1> HIDE DEF takes
  <1>6. ack \in Sendable /\ ack.kind = "OpenAck" /\ ack.id = c
    BY <1>2, <1>5, FrameFacts
  <1> HIDE DEF ack
  <1>7. Delivers(tx[e], ack, u)
    BY <1>2, <1>3, <1>6, SendWireDelivers DEF Follows
  <1>8. After(e, txs, u)
    BY <1>4, Answered DEF PutSide
  <1> HIDE DEF u
  <1>9. /\ SideOK(u) /\ \A d \in Ids \ {c} : InTransit(u, d) = InTransit(tx[e], d)
        /\ InTransit(u, c) \subseteq InTransit(tx[e], c) \cup {ack}
    BY <1>2, <1>6, <1>7, DeliverFacts
  <1>10. /\ channels' \in [Ends -> [Ids -> Records \cup {None}]] /\ Elsewhere(channels, channels', e, c)
         /\ channels'[e][c] = Record("Open") \/ channels'[e][c] = None
    <2>1. channels \in [Ends -> [Ids -> Records \cup {None}]]
      BY <1>2 DEF StateTypes
    <2>2. CASE ~takes
      BY <1>3, <1>4, <2>1, <2>2 DEF Elsewhere, Has
    <2>3. CASE takes
      <3>1. Record("Open") \in Records \cup {None}
        BY DEF Records, Record
      <3>2. Put(channels, e, c, Record("Open"), channels')
        BY <1>4, <2>3 DEF Put
      <3> DEFINE r == Record("Open")
      <3> HIDE DEF r
      <3>3. /\ channels' \in [Ends -> [Ids -> Records \cup {None}]] /\ channels'[e][c] = r
            /\ Elsewhere(channels, channels', e, c)
        BY <1>2, <2>1, <3>1, <3>2, CellUpdate DEF r
      <3> QED
        BY <3>3 DEF r
    <2> QED
      BY <2>2, <2>3
  <1>11. Cells(e, c)
    BY <1>1, <1>2, <1>10 DEF Cells, Elsewhere, StateTypes
  <1>12. /\ Onward /\ StateTypes' /\ OnlyAt(e, c) /\ EndGives(Peer(e), c, f)
    BY <1>8, <1>11, HandledFacts
  <1>13. LogSame(e, c) /\ terminal'[e][c] = terminal[e][c] /\ tx'[e] = u
    BY <1>1, <1>8 DEF LogSame, Aside, After
  <1>14. ChannelInv(c)'
    <2>1. \E a \in Sendable : a.kind = "OpenAck" /\ InTransit(tx'[e], c) \subseteq InTransit(tx[e], c) \cup {a}
      BY <1>6, <1>9, <1>13
    <2>2. SideOK(tx'[e])
      BY <1>9, <1>13
    <2> QED
      BY <1>1, <1>2, <1>10, <1>12, <1>13, <2>1, <2>2, ChannelAccepted
  <1> QED
    BY <1>8, <1>9, <1>11, <1>14, HandledStep

\* A frame that is dropped.
LEMMA DroppedFrame ==
    ASSUME IndInv, NEW e \in Ends, NEW f, NEW txs, Arrives(e, f, txs), Aside, tx' = txs,
           UNCHANGED <<channels, calls, sent, got, terminal>>,
           IsData(f) /\ channels[e][f.id].state = "Open" => f.id \in bestEffort \/ f.seq # channels[e][f.id].rx
    PROVE  IndInv'
  <1> DEFINE c == f.id
  <1>1. c \in Ids /\ SideOK(tx[e]) /\ StateTypes
    BY ArrivesFacts
  <1>2. After(e, txs, tx[e]) /\ tx'[e] = tx[e]
    BY Unanswered DEF After
  <1>3. Cells(e, c)
    BY <1>1 DEF Cells, Elsewhere, StateTypes
  <1>4. Onward /\ EndGives(Peer(e), c, f)
    BY <1>2, <1>3, HandledFacts
  <1>5. EndSame(e, c)
    BY <1>2 DEF EndSame, LogSame, Aside
  <1>6. ChannelInv(c)'
    BY <1>1, <1>4, <1>5, FrameIgnored
  <1> QED
    BY <1>1, <1>2, <1>3, <1>6, HandledStep

\* End e forgets the channel of the frame f and tells its user.
LEMMA HandledEnd ==
    ASSUME IndInv, NEW e \in Ends, NEW f, NEW txs, Arrives(e, f, txs), Aside, NEW u, After(e, txs, u),
           Has(e, f.id), Cuts(tx[e], {f.id}, u), Put(channels, e, f.id, None, channels'),
           NotifyTerminal(e, f.id), UNCHANGED <<calls, sent, got>>
    PROVE  IndInv'
  <1> DEFINE c == f.id
             p == Peer(e)
  <1>1. c \in Ids /\ SideOK(tx[e]) /\ StateTypes /\ ChannelInv(c) /\ p \in Ends /\ p # e
    BY ArrivesFacts
  <1>2. /\ channels' \in [Ends -> [Ids -> Records \cup {None}]] /\ channels'[e][c] = None
        /\ Elsewhere(channels, channels', e, c)
    <2>1. channels \in [Ends -> [Ids -> Records \cup {None}]] /\ None \in Records \cup {None}
      BY <1>1 DEF StateTypes
    <2> QED
      BY <1>1, <2>1, CellUpdate
  <1>3. terminal' \in [Ends -> [Ids -> Nat]] /\ terminal'[e][c] = 1 /\ Elsewhere(terminal, terminal', e, c)
    <2>1. terminal[e][c] = 0
      BY <1>1 DEF ChannelInv, EndsOnce
    <2>2. Put(terminal, e, c, 1, terminal')
      <3>1. terminal' = [terminal EXCEPT ![e][c] = terminal[e][c] + 1]
        BY DEF NotifyTerminal
      <3>2. terminal[e][c] + 1 = 1
        BY <2>1
      <3> QED
        BY <3>1, <3>2 DEF Put
    <2>3. terminal \in [Ends -> [Ids -> Nat]] /\ 1 \in Nat
      BY <1>1 DEF StateTypes
    <2> QED
      BY <1>1, <2>2, <2>3, CellUpdate
  <1>4. Cells(e, c)
    BY <1>1, <1>2, <1>3 DEF Cells, Elsewhere, StateTypes
  <1>5. Onward /\ EndGives(p, c, f)
    BY <1>4, HandledFacts
  <1>6. /\ SideOK(u) /\ CutFrames(InTransit(tx[e], c), InTransit(u, c)) /\ tx'[e] = u
        /\ \A d \in Ids \ {c} : InTransit(u, d) = InTransit(tx[e], d)
    BY <1>1 DEF Cuts, After
  <1>7. LogSame(e, c) /\ LogKept(e, c)
    BY DEF LogSame, LogKept, Aside
  <1>8. /\ LogSame(p, c) /\ channels'[p][c] = channels[p][c] /\ terminal'[p][c] = terminal[p][c]
        /\ InTransit(tx'[p], c) \subseteq InTransit(tx[p], c)
    BY <1>5 DEF EndGives
  <1>9. ChannelInv(c)'
    <2>1. terminal'[e][c] \in {0, 1} /\ terminal'[e][c] # 0 /\ SideOK(tx'[e]) /\ Has(e, c)
      BY <1>3, <1>6
    <2>2. CutFrames(InTransit(tx[e], c), InTransit(tx'[e], c))
      BY <1>6
    <2>3. c \in Ids /\ Onward /\ channels'[e][c] = None
      BY <1>1, <1>2, <1>5
    <2> HIDE DEF c
    <2> QED
      BY <1>7, <1>8, <2>1, <2>2, <2>3, ChannelEnds DEF p
  <1> QED
    BY <1>4, <1>6, <1>9, HandledStep

LEMMA HandleTerminalInv ==
    ASSUME IndInv, NEW e \in Ends, NEW f, NEW txs, Arrives(e, f, txs), Aside, HandleTerminal(e, f, txs)
    PROVE  IndInv'
  <1> DEFINE c == f.id
             u == DropQueued(tx[e], c)
  <1>1. c \in Ids /\ SideOK(tx[e]) /\ txs[e] = tx[e]
    BY ArrivesFacts
  <1>2. CASE Has(e, c)
    <2>1. /\ PutSide(txs, e, u, tx') /\ Put(channels, e, c, None, channels') /\ NotifyTerminal(e, c)
          /\ UNCHANGED <<calls, sent, got>>
      BY <1>1, <1>2 DEF HandleTerminal, PutSide, Put
    <2>2. Cuts(tx[e], {c}, u)
      BY <1>1, DropQueuedCuts
    <2> HIDE DEF u
    <2>3. After(e, txs, u)
      BY <2>1, Answered
    <2> QED
      BY <1>2, <2>1, <2>2, <2>3, HandledEnd
  <1>3. CASE ~Has(e, c)
    <2>1. tx' = txs /\ UNCHANGED <<channels, calls, sent, got, terminal>> /\ ~IsData(f)
      BY <1>3 DEF HandleTerminal, IsData
    <2> QED
      BY <2>1, DroppedFrame
  <1> QED
    BY <1>2, <1>3

LEMMA OpenUpdate ==
    ASSUME NEW r \in Records
    PROVE  /\ [r EXCEPT !.state = "Open"] \in Records
           /\ [r EXCEPT !.state = "Open"].tx = r.tx /\ [r EXCEPT !.state = "Open"].rx = r.rx
           /\ [r EXCEPT !.state = "Open"].partial = r.partial
  BY DEF Records

LEMMA HandleOpenAckInv ==
    ASSUME IndInv, NEW e \in Ends, NEW f, NEW txs, Arrives(e, f, txs), Aside, HandleOpenAck(e, f, txs)
    PROVE  IndInv'
  <1> DEFINE c == f.id
             p == Peer(e)
             r == channels[e][c]
  <1>1. /\ c \in Ids /\ SideOK(tx[e]) /\ txs[e] = tx[e] /\ StateTypes /\ p \in Ends /\ p # e /\ Peer(p) = e
        /\ ChannelInv(c)
    BY ArrivesFacts, PeerFacts
  <1>2. f.kind = "OpenAck" /\ UNCHANGED got /\ ~IsData(f)
    BY DEF HandleOpenAck, IsData
  <1>3. CASE ~Has(e, c)
    <2>1. tx' = txs /\ UNCHANGED <<channels, calls, sent, got, terminal>>
      BY <1>3 DEF HandleOpenAck
    <2> QED
      BY <1>2, <2>1, DroppedFrame
  <1>4. CASE Has(e, c) /\ ~f.ok
    <2>1. /\ Put(channels, e, c, None, channels') /\ NotifyTerminal(e, c) /\ tx' = txs
          /\ UNCHANGED <<calls, sent, got>>
      BY <1>4 DEF HandleOpenAck, Put
    <2>2. After(e, txs, tx[e])
      BY <2>1, Unanswered
    <2>3. Cuts(tx[e], {c}, tx[e])
      BY <1>1 DEF Cuts, CutFrames
    <2> QED
      BY <1>4, <2>1, <2>2, <2>3, HandledEnd
  <1>5. CASE Has(e, c) /\ f.ok /\ c = 0
    <2> DEFINE x == Data(c, r.tx, calls[e][c] + 1)
               u == SendWire(tx[e], x)
    <2>1. /\ SendOne(e, c, r.tx, tx[e]) /\ tx' = [txs EXCEPT ![e] = u] /\ UNCHANGED <<got, terminal>>
      BY <1>1, <1>5 DEF HandleOpenAck
    <2>2. After(e, txs, u)
      BY <2>1, Answered DEF PutSide
    <2>3. /\ Delivers(tx[e], x, u) /\ x \in Sendable /\ x.id = c /\ IsData(x)
          /\ calls' \in [Ends -> [Ids -> Nat]] /\ Elsewhere(calls, calls', e, c)
          /\ sent' \in [Ends -> [Ids -> Seq(Nat)]] /\ Elsewhere(sent, sent', e, c)
          /\ channels' \in [Ends -> [Ids -> Records \cup {None}]] /\ Elsewhere(channels, channels', e, c)
          /\ channels'[e][c] \in Records /\ channels'[e][c].state = "Open"
          /\ channels'[e][c].rx = channels[e][c].rx /\ channels'[e][c].partial = channels[e][c].partial
          /\ c \notin bestEffort =>
               Flow(InTransit(u, c), channels'[e][c], channels[p][c], calls'[e][c], sent'[e][c],
                    got[p][c], <<e, c>> \in closedBy, <<p, c>> \in swept)
      BY <1>1, <1>5, <2>1, SendOneDoes
    <2> HIDE DEF u, x
    <2>4. Cells(e, c)
      BY <1>1, <2>1, <2>3 DEF Cells, Elsewhere, StateTypes
    <2>5. Onward /\ EndGives(p, c, f)
      BY <2>2, <2>4, HandledFacts
    <2>6. /\ SideOK(u) /\ \A d \in Ids \ {c} : InTransit(u, d) = InTransit(tx[e], d)
          /\ \A g \in InTransit(u, c) : g \in InTransit(tx[e], c) \/ IsData(g)
      <3>1. Delivers(tx[e], x, u) /\ x.id = c /\ IsData(x)
        BY <2>3
      <3> QED
        BY <1>1, <3>1, DeliverFacts
    <2>7. tx'[e] = u /\ channels'[p][c] = channels[p][c]
      BY <2>2, <2>5 DEF After, EndGives
    <2>8. c \notin bestEffort => Flows(e, c)'
      BY <1>2, <2>3, <2>7 DEF Flows, Aside
    <2>9. channels'[e][c] # None /\ (<<e, c>> \in swept') = (<<e, c>> \in swept)
      BY <2>3, RecordFacts DEF Aside
    <2>10. ChannelInv(c)'
      BY <1>1, <1>2, <1>5, <2>1, <2>3, <2>5, <2>6, <2>7, <2>8, <2>9, ChannelAcked
    <2> QED
      BY <2>2, <2>4, <2>6, <2>10, HandledStep
  <1>6. CASE Has(e, c) /\ f.ok /\ c # 0
    <2> DEFINE r1 == [r EXCEPT !.state = "Open"]
    <2>1. /\ channels' = [channels EXCEPT ![e][c].state = "Open"] /\ tx' = txs
          /\ UNCHANGED <<calls, sent, got, terminal>>
      BY <1>6 DEF HandleOpenAck
    <2>2. After(e, txs, tx[e]) /\ tx'[e] = tx[e]
      BY <2>1, Unanswered DEF After
    <2>3. r \in Records /\ r # None
      BY <1>1, <1>6 DEF StateTypes, Has
    <2>4. r1 \in Records /\ r1.tx = r.tx /\ r1.rx = r.rx /\ r1.partial = r.partial /\ r1 # None
      <3>1. r1 \in Records /\ r1.tx = r.tx /\ r1.rx = r.rx /\ r1.partial = r.partial
        <4> HIDE DEF r
        <4> QED
          BY <2>3, OpenUpdate
      <3> QED
        BY <3>1, RecordFacts
    <2>5. /\ channels' \in [Ends -> [Ids -> Records \cup {None}]] /\ channels'[e][c] = r1
          /\ Elsewhere(channels, channels', e, c)
      <3>1. Put(channels, e, c, r1, channels')
        BY <2>1 DEF Put
      <3>2. channels \in [Ends -> [Ids -> Records \cup {None}]] /\ r1 \in Records \cup {None}
        BY <1>1, <2>4 DEF StateTypes
      <3> HIDE DEF r1
      <3> QED
        BY <1>1, <3>1, <3>2, CellUpdate
    <2> HIDE DEF r1
    <2>6. Cells(e, c)
      BY <1>1, <2>1, <2>5 DEF Cells, Elsewhere, StateTypes
    <2>7. Onward /\ EndGives(p, c, f)
      BY <2>2, <2>6, HandledFacts
    <2>8. ASSUME c \notin bestEffort
          PROVE  Flows(e, c)'
      <3> DEFINE S == InTransit(tx[e], c)
                 to == channels[p][c]
                 count == calls[e][c]
                 msgs == sent[e][c]
                 given == got[p][c]
                 closed == <<e, c>> \in closedBy
                 lost == <<p, c>> \in swept
      <3>1. Flow(S, r, to, count, msgs, given, closed, lost)
        BY <1>1, <2>8 DEF ChannelInv, Flows
      <3>2. FlowTypes(S, r, to, count, msgs, given)
        BY <1>1, ChannelTypes DEF IndInv
      <3>3. count \in Nat /\ count <= count
        BY <3>2 DEF FlowTypes
      <3> HIDE DEF S, to, count, msgs, given, closed, lost, r
      <3>4. Flow(S, r1, to, count, msgs, given, closed, lost)
        BY <2>3, <2>4, <3>1, <3>2, <3>3, FlowSame
      <3>5. channels'[p][c] = to
        BY <2>7 DEF EndGives, to
      <3> QED
        BY <2>1, <2>2, <2>5, <3>4, <3>5 DEF Flows, Aside, S, count, msgs, given, closed, lost
    <2>9. (<<e, c>> \in swept') = (<<e, c>> \in swept)
      BY DEF Aside
    <2>10. /\ channels'[e][c] # None /\ channels'[e][c].rx = channels[e][c].rx
           /\ channels'[e][c].partial = channels[e][c].partial
           /\ got'[e][c] = got[e][c] /\ terminal'[e][c] = terminal[e][c]
           /\ \A g \in InTransit(tx'[e], c) : g \in InTransit(tx[e], c) \/ IsData(g)
      BY <2>1, <2>2, <2>4, <2>5
    <2>11. ChannelInv(c)'
      BY <1>1, <1>2, <1>6, <2>7, <2>8, <2>9, <2>10, ChannelAcked
    <2> QED
      BY <1>1, <2>2, <2>6, <2>11, HandledStep
  <1> QED
    BY <1>3, <1>4, <1>5, <1>6

LEMMA ArrivesComes ==
    ASSUME NEW e \in Ends, NEW f, NEW txs, Arrives(e, f, txs), IsData(f), f.id \notin bestEffort
    PROVE  Comes(InTransit(tx[Peer(e)], f.id), f, InTransit(txs[Peer(e)], f.id))
  <1>1. f.id \in Ids /\ SideOK(txs[Peer(e)])
    BY SendableFacts DEF Arrives, Taken
  <1>2. Ranked(f)
    BY DEF Ranked, IsData
  <1>3. \A g \in InTransit(txs[Peer(e)], f.id) : g.id = f.id
    BY <1>1, InTransitSendable
  <1> QED
    BY <1>2, <1>3 DEF Arrives, Taken, Comes

\* A data frame that is taken: r is the record after it, given what the data
\* handler has been given.
LEMMA HandledData ==
    ASSUME IndInv, NEW e \in Ends, NEW f, NEW txs, Arrives(e, f, txs), Aside, tx' = txs,
           IsData(f), channels[e][f.id].state = "Open",
           NEW r \in Records, r.tx = channels[e][f.id].tx, Put(channels, e, f.id, r, channels'),
           NEW given, got' \in [Ends -> [Ids -> Seq(Nat)]], got'[e][f.id] = given, Elsewhere(got, got', e, f.id),
           UNCHANGED <<calls, sent, terminal>>,
           f.id \notin bestEffort =>
                Flow(InTransit(txs[Peer(e)], f.id), channels[Peer(e)][f.id], r, calls[Peer(e)][f.id],
                     sent[Peer(e)][f.id], given, <<Peer(e), f.id>> \in closedBy, <<e, f.id>> \in swept)
    PROVE  IndInv'
  <1> DEFINE c == f.id
             p == Peer(e)
  <1>1. c \in Ids /\ SideOK(tx[e]) /\ StateTypes /\ p \in Ends /\ p # e /\ Peer(p) = e
    BY ArrivesFacts, PeerFacts
  <1>2. After(e, txs, tx[e]) /\ tx'[e] = tx[e]
    BY Unanswered DEF After
  <1>3. /\ channels' \in [Ends -> [Ids -> Records \cup {None}]] /\ channels'[e][c] = r
        /\ Elsewhere(channels, channels', e, c)
    <2> DEFINE T == Records \cup {None}
    <2>1. channels \in [Ends -> [Ids -> T]] /\ r \in T /\ Put(channels, e, c, r, channels')
      BY <1>1 DEF StateTypes
    <2> HIDE DEF T, c
    <2> QED
      BY <1>1, <2>1, CellUpdate DEF T
  <1>4. Cells(e, c)
    BY <1>1, <1>3 DEF Cells, Elsewhere, StateTypes
  <1>5. Onward /\ EndGives(p, c, f)
    BY <1>2, <1>4, HandledFacts
  <1>6. c \notin bestEffort => Flows(p, c)'
    <2>1. channels'[p][c] = channels[p][c]
      BY <1>5 DEF EndGives
    <2> QED
      BY <1>1, <1>3, <2>1 DEF Flows, Aside
  <1>7. ChannelInv(c)'
    <2>1. /\ channels'[e][c] # None /\ channels'[e][c].tx = channels[e][c].tx
          /\ InTransit(tx'[e], c) = InTransit(tx[e], c)
      BY <1>2, <1>3, RecordFacts
    <2>2. /\ calls'[e][c] = calls[e][c] /\ sent'[e][c] = sent[e][c] /\ terminal'[e][c] = terminal[e][c]
          /\ (<<e, c>> \in closedBy') = (<<e, c>> \in closedBy) /\ channels[e][c].state = "Open"
      BY DEF Aside
    <2> HIDE DEF c
    <2> QED
      BY <1>1, <1>5, <1>6, <2>1, <2>2, ChannelTakes
  <1> QED
    BY <1>1, <1>2, <1>4, <1>7, HandledStep

\* The flow to end e, as the lemmas on it have it.
LEMMA ArrivingFlow ==
    ASSUME IndInv, NEW e \in Ends, NEW f, NEW txs, Arrives(e, f, txs), IsData(f), f.id \notin bestEffort
    PROVE  /\ Flow(InTransit(tx[Peer(e)], f.id), channels[Peer(e)][f.id], channels[e][f.id], calls[Peer(e)][f.id],
                   sent[Peer(e)][f.id], got[e][f.id], <<Peer(e), f.id>> \in closedBy, <<e, f.id>> \in swept)
           /\ FlowTypes(InTransit(tx[Peer(e)], f.id), channels[Peer(e)][f.id], channels[e][f.id],
                        calls[Peer(e)][f.id], sent[Peer(e)][f.id], got[e][f.id])
  <1>1. f.id \in Ids /\ Peer(e) \in Ends /\ Peer(Peer(e)) = e /\ ChannelInv(f.id)
    BY ArrivesFacts, PeerFacts
  <1>2. Flows(Peer(e), f.id)
    BY <1>1 DEF ChannelInv
  <1>3. /\ FlowTypes(InTransit(tx[Peer(e)], f.id), channels[Peer(e)][f.id], channels[Peer(Peer(e))][f.id],
                     calls[Peer(e)][f.id], sent[Peer(e)][f.id], got[Peer(Peer(e))][f.id])
    BY <1>1, ChannelTypes DEF IndInv
  <1> QED
    BY <1>1, <1>2, <1>3 DEF Flows

LEMMA HandleDataInv ==
    ASSUME IndInv, NEW e \in Ends, NEW f, NEW txs, Arrives(e, f, txs), Aside, HandleData(e, f, txs)
    PROVE  IndInv'
  <1> DEFINE c == f.id
             p == Peer(e)
             r0 == channels[e][c]
             r == [r0 EXCEPT !.rx = Advanced(e, c)]
             given == Append(got[e][c], f.msg)
  <1>1. c \in Ids /\ StateTypes /\ f \in Sendable
    BY ArrivesFacts
  <1>2. f.kind = "Data" /\ tx' = txs /\ UNCHANGED <<calls, sent, terminal>> /\ IsData(f)
    BY DEF HandleData, IsData
  <1>3. CASE ~InSequence(e, f)
    <2>1. UNCHANGED <<channels, got>>
      BY <1>3 DEF HandleData
    <2> QED
      BY <1>2, <1>3, <2>1, DroppedFrame DEF InSequence
  <1>4. CASE InSequence(e, f)
    <2>1. /\ r0.state = "Open" /\ (c \in bestEffort \/ f.seq = r0.rx)
          /\ channels' = [channels EXCEPT ![e][c].rx = Advanced(e, c)]
          /\ got' = [got EXCEPT ![e][c] = given]
      BY <1>4 DEF HandleData, InSequence
    <2>2. r0 \in Records /\ r0.rx \in Nat \ {0}
      <3>1. r0 \in Records
        BY <1>1, <2>1, RecordFacts DEF StateTypes
      <3> QED
        BY <3>1, RecordFacts
    <2> DEFINE n == Advanced(e, c)
    <2>3. n \in Nat \ {0} /\ (c \notin bestEffort => n = r0.rx + 1)
      BY <2>2 DEF Advanced
    <2>4. r \in Records /\ r.tx = r0.tx /\ r.rx = n /\ r.partial = r0.partial
      <3>1. r = [r0 EXCEPT !.rx = n]
        OBVIOUS
      <3> HIDE DEF r0, n, r
      <3> QED
        BY <2>2, <2>3, <3>1 DEF Records
    <2>5. Put(channels, e, c, r, channels')
      BY <2>1 DEF Put
    <2>6. got[e][c] \in Seq(Nat) /\ f.msg \in Nat /\ got \in [Ends -> [Ids -> Seq(Nat)]]
      BY <1>1, <1>2, SendableFacts DEF StateTypes
    <2>7. given \in Seq(Nat) /\ Put(got, e, c, given, got')
      BY <2>1, <2>6, AppendRange DEF Put
    <2> HIDE DEF given, r, n
    <2>8. got' \in [Ends -> [Ids -> Seq(Nat)]] /\ got'[e][c] = given /\ Elsewhere(got, got', e, c)
      BY <1>1, <2>6, <2>7, CellUpdate
    <2>9. ASSUME c \notin bestEffort
          PROVE  Flow(InTransit(txs[p], c), channels[p][c], r, calls[p][c], sent[p][c], given,
                      <<p, c>> \in closedBy, <<e, c>> \in swept)
      <3> DEFINE S == InTransit(tx[p], c)
                 U == InTransit(txs[p], c)
                 from == channels[p][c]
                 count == calls[p][c]
                 msgs == sent[p][c]
                 given0 == got[e][c]
                 closed == <<p, c>> \in closedBy
                 lost == <<e, c>> \in swept
      <3>1. Flow(S, from, r0, count, msgs, given0, closed, lost) /\ FlowTypes(S, from, r0, count, msgs, given0)
        BY <1>2, <2>9, ArrivingFlow
      <3>2. Comes(S, f, U)
        BY <1>2, <2>9, ArrivesComes
      <3>3. /\ r0.state = "Open" /\ f.seq = r0.rx /\ r.rx = r0.rx + 1 /\ Completes(f)
            /\ Range(r.partial) = Range(r0.partial) /\ given = Append(given0, f.msg)
        BY <1>2, <2>1, <2>3, <2>4, <2>9 DEF Completes, given
      <3> HIDE DEF S, U, from, count, msgs, given0, closed, lost, r0
      <3>4. CASE lost
        <4>1. Flow(U, from, r, count, msgs, given, closed, lost)
          BY <3>1, <3>2, <3>3, <3>4, FlowTakeLost
        <4> QED
          BY <4>1 DEF U, from, count, msgs, closed, lost
      <3>5. CASE ~lost
        <4>1. Flow(U, from, r, count, msgs, given, closed, lost)
          BY <3>1, <3>2, <3>3, <3>5, FlowTakeWhole
        <4> QED
          BY <4>1 DEF U, from, count, msgs, closed, lost
      <3> QED
        BY <3>4, <3>5
    <2> QED
      BY <1>2, <2>1, <2>4, <2>5, <2>8, <2>9, HandledData
  <1> QED
    BY <1>3, <1>4

\* A fragment of a reliable channel is taken, and no partial message was
\* dropped: the second one makes its message whole.
LEMMA FlowTakeFragment ==
    ASSUME NEW S, NEW from, NEW to \in Records, NEW count, NEW msgs, NEW given, NEW closed, NEW lost, NEW f, NEW U,
           NEW to1, FlowTypes(S, from, to, count, msgs, given),
           Flow(S, from, to, count, msgs, given, closed, lost),
           Comes(S, f, U), to.state = "Open", f.seq = to.rx, to1.rx = to.rx + 1,
           ~lost, f.kind = "Frag", f.part \in {1, 2}, NEW now,
           Range(now) = Range(to.partial) \cup {<<f.msg, f.part>>}, NEW whole,
           whole <=> {<<f.msg, 1>>, <<f.msg, 2>>} \subseteq Range(now),
           whole => Range(to1.partial) = {x \in Range(now) : x[1] # f.msg},
           ~whole => to1.partial = now,
           NEW given1, given1 = IF whole THEN Append(given, f.msg) ELSE given
    PROVE  Flow(U, from, to1, count, msgs, given1, closed, lost)
  <1> DEFINE P == Range(to.partial)
             E == (Nat \ {0}) \X {1, 2}
  <1>1. \A x \in P : x = <<x[1], x[2]>>
    <2>1. to.partial \in Seq(E)
      BY RecordFacts
    <2>2. P \subseteq E
      <3> HIDE DEF E
      <3> QED
        BY <2>1 DEF Range
    <2> HIDE DEF P
    <2> QED
      BY <2>2
  <1>2. \A x \in P : x[2] = 1
    BY SecondFindsFirst
  <1>3. Part(f, 2) => \E x \in P : x[1] = f.msg
    BY SecondFindsFirst
  <1>4. <<f.msg, 1>> # <<f.msg, 2>> /\ <<f.msg, 2>>[2] = 2 /\ <<f.msg, 2>>[1] = f.msg /\ <<f.msg, 1>>[1] = f.msg
    OBVIOUS
  <1> HIDE DEF P
  <1>5. CASE f.part = 1
    <2>1. Part(f, 1) /\ Range(now) = P \cup {<<f.msg, 1>>}
      BY <1>5 DEF Part, P
    <2>2. <<f.msg, 2>> \notin P
      BY <1>2, <1>4
    <2>3. ~whole
      BY <1>4, <2>1, <2>2
    <2>4. given1 = given /\ Range(to1.partial) = Range(to.partial) \cup {<<f.msg, 1>>}
      BY <2>1, <2>3 DEF P
    <2>5. Flow(U, from, to1, count, msgs, given, closed, lost)
      BY <2>1, <2>4, FlowTakeFirst
    <2> QED
      BY <2>4, <2>5
  <1>6. CASE f.part = 2
    <2>1. Part(f, 2) /\ Completes(f) /\ Range(now) = P \cup {<<f.msg, 2>>}
      BY <1>6 DEF Part, Completes, P
    <2>2. <<f.msg, 1>> \in P
      <3>1. PICK x \in P : x[1] = f.msg
        BY <1>3, <2>1
      <3>2. x = <<x[1], x[2]>> /\ x[2] = 1
        BY <1>1, <1>2
      <3> QED
        BY <3>1, <3>2
    <2>3. whole
      BY <2>1, <2>2
    <2>4. /\ given1 = Append(given, f.msg)
          /\ Range(to1.partial) = {x \in P \cup {<<f.msg, 2>>} : x[1] # f.msg}
      BY <2>1, <2>3
    <2>5. Range(to1.partial) \subseteq Range(to.partial)
      BY <1>4, <2>4 DEF P
    <2>6. \A x \in Range(to.partial) : x[1] # f.msg => x \in Range(to1.partial)
      BY <2>4 DEF P
    <2> QED
      BY <2>1, <2>4, <2>5, <2>6, FlowTakeWhole
  <1> QED
    BY <1>5, <1>6

LEMMA HandleFragInv ==
    ASSUME IndInv, NEW e \in Ends, NEW f, NEW txs, Arrives(e, f, txs), Aside, HandleFrag(e, f, txs)
    PROVE  IndInv'
  <1> DEFINE c == f.id
             p == Peer(e)
             r0 == channels[e][c]
             old == r0.partial
             kept == IF AtCap(e, f) THEN Without(old, {Head(old)[1]}) ELSE old
             now == Append(kept, <<f.msg, f.part>>)
             whole == {<<f.msg, 1>>, <<f.msg, 2>>} \subseteq Range(now)
             parts == IF whole THEN Without(now, {f.msg}) ELSE now
             r == [r0 EXCEPT !.rx = Advanced(e, c), !.partial = parts]
             given == IF whole THEN Append(got[e][c], f.msg) ELSE got[e][c]
             E == (Nat \ {0}) \X {1, 2}
  <1>1. c \in Ids /\ StateTypes /\ f \in Sendable /\ SideOK(tx[e]) /\ txs[e] = tx[e]
    BY ArrivesFacts
  <1>2. f.kind = "Frag" /\ UNCHANGED <<calls, sent>> /\ IsData(f)
    BY DEF HandleFrag, IsData
  <1>3. CASE ~InSequence(e, f)
    <2>1. tx' = txs /\ UNCHANGED <<channels, got, terminal>>
      BY <1>3 DEF HandleFrag
    <2> QED
      BY <1>2, <1>3, <2>1, DroppedFrame DEF InSequence
  <1>4. CASE InSequence(e, f) /\ AtCap(e, f) /\ c \notin bestEffort
    <2> DEFINE u == ResetSide(tx[e], c)
    <2>1. /\ PutSide(txs, e, u, tx') /\ Put(channels, e, c, None, channels') /\ NotifyTerminal(e, c)
          /\ UNCHANGED <<calls, sent, got>>
      BY <1>1, <1>2, <1>4 DEF HandleFrag, PutSide, Put, ResetSide
    <2>2. Cuts(tx[e], {c}, u)
      BY <1>1, ResetCuts
    <2>3. Has(e, c)
      BY <1>4, RecordFacts DEF InSequence, Has
    <2> HIDE DEF u
    <2>4. After(e, txs, u)
      BY <2>1, Answered
    <2> QED
      BY <2>1, <2>2, <2>3, <2>4, HandledEnd
  <1>5. CASE InSequence(e, f) /\ ~(AtCap(e, f) /\ c \notin bestEffort)
    <2>1. /\ r0.state = "Open" /\ (c \in bestEffort \/ f.seq = r0.rx)
          /\ channels' = [channels EXCEPT ![e][c] = r]
          /\ got' = IF whole THEN [got EXCEPT ![e][c] = Append(got[e][c], f.msg)] ELSE got
          /\ tx' = txs /\ UNCHANGED terminal
      BY <1>5 DEF HandleFrag, InSequence
    <2>2. r0 \in Records /\ r0.rx \in Nat \ {0} /\ old \in Seq(E)
      <3>1. r0 \in Records
        BY <1>1, <2>1, RecordFacts DEF StateTypes
      <3> QED
        BY <3>1, RecordFacts
    <2>3. f.msg \in Nat \ {0} /\ f.part \in {1, 2} /\ <<f.msg, f.part>> \in E
      BY <1>1, <1>2, SendableFacts
    <2>4. kept \in Seq(E) /\ (c \notin bestEffort => kept = old)
      <3> HIDE DEF E, old
      <3> QED
        BY <1>5, <2>2, WithoutRange
    <2>5. now \in Seq(E) /\ Range(now) = Range(kept) \cup {<<f.msg, f.part>>}
      <3> HIDE DEF kept, E
      <3> QED
        BY <2>3, <2>4, AppendRange
    <2> HIDE DEF now
    <2>6. /\ Without(now, {f.msg}) \in Seq(E)
          /\ Range(Without(now, {f.msg})) = {x \in Range(now) : x[1] # f.msg}
      <3> DEFINE M == {f.msg}
      <3>1. now \in Seq(E)
        BY <2>5
      <3> HIDE DEF E, M
      <3>2. /\ Without(now, M) \in Seq(E)
            /\ Range(Without(now, M)) = {x \in Range(now) : x[1] \notin M}
        BY <3>1, WithoutRange
      <3>3. \A y : y \notin M <=> y # f.msg
        BY DEF M
      <3>4. {x \in Range(now) : x[1] \notin M} = {x \in Range(now) : x[1] # f.msg}
        BY <3>3
      <3> QED
        BY <3>2, <3>4 DEF M
    <2> DEFINE n == Advanced(e, c)
    <2>7. n \in Nat \ {0} /\ (c \notin bestEffort => n = r0.rx + 1)
      BY <2>2 DEF Advanced
    <2>8. r \in Records /\ r.tx = r0.tx /\ r.rx = n /\ r.partial = parts
      <3>1. r = [r0 EXCEPT !.rx = n, !.partial = parts] /\ parts \in Seq(E)
        BY <2>5, <2>6
      <3> HIDE DEF r0, n, r, parts
      <3> QED
        BY <2>2, <2>7, <3>1 DEF Records
    <2>9. Put(channels, e, c, r, channels')
      BY <2>1 DEF Put
    <2>10. got' \in [Ends -> [Ids -> Seq(Nat)]] /\ got'[e][c] = given /\ Elsewhere(got, got', e, c)
      <3> HIDE DEF whole
      <3>1. got[e][c] \in Seq(Nat) /\ got \in [Ends -> [Ids -> Seq(Nat)]]
        BY <1>1 DEF StateTypes
      <3>2. CASE ~whole
        BY <2>1, <3>1, <3>2 DEF Elsewhere
      <3>3. CASE whole
        <4> DEFINE v == Append(got[e][c], f.msg)
        <4>1. v \in Seq(Nat) /\ Put(got, e, c, v, got')
          BY <2>1, <2>3, <3>1, <3>3, AppendRange DEF Put
        <4> HIDE DEF v
        <4>2. got' \in [Ends -> [Ids -> Seq(Nat)]] /\ got'[e][c] = v /\ Elsewhere(got, got', e, c)
          BY <1>1, <3>1, <4>1, CellUpdate
        <4>3. given = v
          BY <3>3 DEF v
        <4> QED
          BY <4>2, <4>3
      <3> QED
        BY <3>2, <3>3
    <2>11. /\ whole <=> {<<f.msg, 1>>, <<f.msg, 2>>} \subseteq Range(now)
           /\ whole => Range(r.partial) = {x \in Range(now) : x[1] # f.msg}
           /\ ~whole => r.partial = now
           /\ given = IF whole THEN Append(got[e][c], f.msg) ELSE got[e][c]
      BY <2>6, <2>8
    <2> HIDE DEF given, r, n, whole, parts
    <2>12. ASSUME c \notin bestEffort
          PROVE  Flow(InTransit(txs[p], c), channels[p][c], r, calls[p][c], sent[p][c], given,
                      <<p, c>> \in closedBy, <<e, c>> \in swept)
      <3> DEFINE S == InTransit(tx[p], c)
                 U == InTransit(txs[p], c)
                 from == channels[p][c]
                 count == calls[p][c]
                 msgs == sent[p][c]
                 given0 == got[e][c]
                 closed == <<p, c>> \in closedBy
                 lost == <<e, c>> \in swept
      <3>1. Flow(S, from, r0, count, msgs, given0, closed, lost) /\ FlowTypes(S, from, r0, count, msgs, given0)
        BY <1>2, <2>12, ArrivingFlow
      <3>2. Comes(S, f, U)
        BY <1>2, <2>12, ArrivesComes
      <3>3. /\ r0.state = "Open" /\ f.seq = r0.rx /\ r.rx = r0.rx + 1
            /\ Range(now) = Range(r0.partial) \cup {<<f.msg, f.part>>}
            /\ given = IF whole THEN Append(given0, f.msg) ELSE given0
        BY <2>1, <2>4, <2>5, <2>7, <2>8, <2>11, <2>12
      <3> HIDE DEF S, U, from, count, msgs, given0, closed, lost, r0
      <3>4. CASE lost
        <4>1. Flow(U, from, r, count, msgs, given, closed, lost)
          BY <3>1, <3>2, <3>3, <3>4, FlowTakeLost
        <4> QED
          BY <4>1 DEF U, from, count, msgs, closed, lost
      <3>5. CASE ~lost
        <4>1. Flow(U, from, r, count, msgs, given, closed, lost)
          BY <1>2, <2>2, <2>3, <2>11, <3>1, <3>2, <3>3, <3>5, FlowTakeFragment
        <4> QED
          BY <4>1 DEF U, from, count, msgs, closed, lost
      <3> QED
        BY <3>4, <3>5
    <2> QED
      BY <1>2, <2>1, <2>8, <2>9, <2>10, <2>12, HandledData
  <1> QED
    BY <1>3, <1>4, <1>5

LEMMA DispatchInv ==
    ASSUME IndInv, NEW e \in Ends, NEW f, NEW txs, Arrives(e, f, txs), DispatchFrame(e, f, txs)
    PROVE  IndInv'
  <1>1. Aside
    BY DEF DispatchFrame, Aside
  <1>2. CASE \E handled \in BOOLEAN : HandleOpen(e, f, txs, handled)
    BY <1>1, <1>2, HandleOpenInv
  <1>3. CASE HandleOpenAck(e, f, txs)
    BY <1>1, <1>3, HandleOpenAckInv
  <1>4. CASE HandleTerminal(e, f, txs)
    BY <1>1, <1>4, HandleTerminalInv
  <1>5. CASE HandleData(e, f, txs)
    BY <1>1, <1>5, HandleDataInv
  <1>6. CASE HandleFrag(e, f, txs)
    BY <1>1, <1>6, HandleFragInv
  <1> QED
    BY <1>2, <1>3, <1>4, <1>5, <1>6 DEF DispatchFrame

LEMMA LeftArrives ==
    ASSUME IndInv, NEW e \in Ends, NEW f, NEW v, Taken(tx[Peer(e)], f, v), NEW txs, PutSide(tx, Peer(e), v, txs)
    PROVE  Arrives(e, f, txs)
  <1>1. Peer(e) \in Ends /\ Peer(Peer(e)) = e /\ Sides(tx)
    BY PeerFacts DEF IndInv, StateTypes, Sides
  <1>2. Sides(txs) /\ txs[Peer(e)] = v /\ txs[Peer(Peer(e))] = tx[Peer(Peer(e))]
    BY <1>1, SideUpdate
  <1> QED
    BY <1>1, <1>2 DEF Arrives

LEMMA ReceiveInv ==
    ASSUME IndInv, NEW e \in Ends, Receive(e)
    PROVE  IndInv'
  <1> DEFINE t == tx[Peer(e)]
             f == Head(t.wire)
             v == [t EXCEPT !.wire = Tail(@)]
             txs == [tx EXCEPT ![Peer(e)].wire = Tail(@)]
  <1>1. t.wire # <<>> /\ DispatchFrame(e, f, txs)
    BY DEF Receive
  <1>2. SideOK(t)
    BY PeerFacts DEF IndInv
  <1>3. Taken(t, f, v)
    <2> HIDE DEF t
    <2> QED
      BY <1>1, <1>2, HeadTaken
  <1>4. PutSide(tx, Peer(e), v, txs)
    BY DEF PutSide
  <1> HIDE DEF f, v, txs
  <1>5. Arrives(e, f, txs)
    BY <1>3, <1>4, LeftArrives
  <1> QED
    BY <1>1, <1>5, DispatchInv

LEMMA ReceiveBestEffortInv ==
    ASSUME IndInv, NEW e \in Ends, NEW f \in tx[Peer(e)].air, ReceiveBestEffort(e, f)
    PROVE  IndInv'
  <1> DEFINE t == tx[Peer(e)]
             v == [t EXCEPT !.air = @ \ {f}]
             txs == [tx EXCEPT ![Peer(e)].air = @ \ {f}]
  <1>1. DispatchFrame(e, f, txs)
    BY DEF ReceiveBestEffort
  <1>2. SideOK(t) /\ f \in t.air
    BY PeerFacts DEF IndInv
  <1>3. Taken(t, f, v)
    <2> HIDE DEF t
    <2> QED
      BY <1>2, AirTaken
  <1>4. PutSide(tx, Peer(e), v, txs)
    BY DEF PutSide
  <1> HIDE DEF v, txs
  <1>5. Arrives(e, f, txs)
    BY <1>3, <1>4, LeftArrives
  <1> QED
    BY <1>1, <1>5, DispatchInv

LEMMA NextInv ==
    ASSUME IndInv, Next
    PROVE  IndInv'
  <1>1. PICK e \in Ends :
        \/ \E c \in Ids :
            \/ OpenOutbound(e, c)
            \/ SendSmall(e, c)
            \/ SendLarge(e, c)
            \/ ResetChannel(e, c)
            \/ CloseChannel(e, c)
        \/ DetachAllChannels(e)
        \/ \E old \in SUBSET Partials(e), readers \in SUBSET Readers(e) :
            \E idle \in SetToSeqs(readers) : Tick(e, old, idle)
        \/ Receive(e)
        \/ \E f \in tx[Peer(e)].air : ReceiveBestEffort(e, f)
    BY DEF Next
  <1>2. CASE \E c \in Ids : \/ OpenOutbound(e, c)
                            \/ SendSmall(e, c)
                            \/ SendLarge(e, c)
                            \/ ResetChannel(e, c)
                            \/ CloseChannel(e, c)
    BY <1>2, OpenOutboundInv, SendSmallInv, SendLargeInv, ResetChannelInv, CloseChannelInv
  <1>3. CASE DetachAllChannels(e)
    BY <1>3, DetachAllChannelsInv
  <1>4. CASE \E old \in SUBSET Partials(e), readers \in SUBSET Readers(e) :
                \E idle \in SetToSeqs(readers) : Tick(e, old, idle)
    BY <1>4, TickInv
  <1>5. CASE Receive(e)
    BY <1>5, ReceiveInv
  <1>6. CASE \E f \in tx[Peer(e)].air : ReceiveBestEffort(e, f)
    BY <1>6, ReceiveBestEffortInv
  <1> QED
    BY <1>1, <1>2, <1>3, <1>4, <1>5, <1>6

LEMMA StutterInv ==
    ASSUME IndInv, UNCHANGED vars
    PROVE  IndInv'
  <1>1. StateTypes /\ \A e \in Ends : SideOK(tx[e])
    BY DEF IndInv
  <1>2. StateTypes' /\ Onward /\ \A e \in Ends : SideOK(tx'[e])
    BY <1>1 DEF vars, history, StateTypes, Onward
  <1>3. \A c \in Ids, e \in Ends : EndSame(e, c)
    BY DEF vars, history, EndSame, LogSame
  <1>4. \A c \in Ids : ChannelInv(c)'
    BY <1>2, <1>3, Still, ConstantsAssumption DEF IndInv
  <1> QED
    BY <1>2, <1>4, AllChannels

LEMMA InitInv ==
    ASSUME Init
    PROVE  IndInv
  <1> DEFINE t == [queues |-> [c \in Ids |-> <<>>], order |-> <<>>, bytes |-> 0, wire |-> <<>>, air |-> {}]
  <1>1. SideOK(t) /\ \A c \in Ids : InTransit(t, c) = {}
    <2>1. /\ t.queues = [c \in Ids |-> <<>>] /\ t.order = <<>> /\ t.wire = <<>> /\ t.air = {}
          /\ t \in [queues : {t.queues}, order : {t.order}, bytes : {t.bytes}, wire : {t.wire}, air : {t.air}]
      OBVIOUS
    <2>2. t.queues \in [Ids -> Seq(Sendable)] /\ t.order \in Seq(Ids) /\ t.wire \in Seq(Sendable)
      BY <2>1
    <2> HIDE DEF t
    <2>3. SideTypes(t)
      BY <2>1, <2>2 DEF SideTypes
    <2>4. \A c \in Ids : t.queues[c] = <<>>
      BY <2>1
    <2> QED
      BY <2>1, <2>3, <2>4, EmptyRange DEF SideOK, SideClasses, SideOrder, InTransit
  <1>2. \A e \in Ends : tx[e] = t
    BY DEF Init
  <1> HIDE DEF t
  <1>3. StateTypes
    <2>1. /\ bestEffort \subseteq Ids \ {0} /\ channels \in [Ends -> [Ids -> Records \cup {None}]]
          /\ nextId \in [Ends -> Nat] /\ calls \in [Ends -> [Ids -> Nat]] /\ terminal \in [Ends -> [Ids -> Nat]]
      BY DEF Init
    <2>2. sent \in [Ends -> [Ids -> Seq(Nat)]] /\ got \in [Ends -> [Ids -> Seq(Nat)]]
      BY DEF Init
    <2>3. DOMAIN tx = Ends /\ tx = [e \in Ends |-> tx[e]]
      BY DEF Init
    <2> QED
      BY <2>1, <2>2, <2>3 DEF StateTypes
  <1>4. \A e \in Ends, c \in Ids :
            /\ channels[e][c] = None /\ terminal[e][c] = 0 /\ sent[e][c] = <<>> /\ got[e][c] = <<>>
            /\ ~Has(e, c)
    BY DEF Init, Has
  <1>5. \A e \in Ends : SideOK(tx[e])
    BY <1>1, <1>2
  <1>6. ASSUME NEW c \in Ids
        PROVE  ChannelInv(c)
    <2>1. Opener(c) \in Ends /\ Peer(Opener(c)) \in Ends
      BY PeerFacts
    <2>2. \A e \in Ends : InTransit(tx[e], c) = {} /\ ~Touched(e, c)
      BY <1>1, <1>2, <1>4 DEF Touched
    <2>3. OpenedOnce(c)
      BY <2>1, <2>2 DEF OpenedOnce
    <2>4. Opens(c)
      BY <2>1, <2>2 DEF Opens, HasKind
    <2>5. \A e \in Ends : EndsOnce(e, c)
      BY <1>4 DEF EndsOnce
    <2>6. ASSUME NEW s \in Ends
          PROVE  Flows(s, c)
      <3> DEFINE S == InTransit(tx[s], c)
                 from == channels[s][c]
                 to == channels[Peer(s)][c]
                 count == calls[s][c]
                 msgs == sent[s][c]
                 given == got[Peer(s)][c]
                 closed == <<s, c>> \in closedBy
                 lost == <<Peer(s), c>> \in swept
      <3>1. Peer(s) \in Ends
        BY PeerFacts
      <3>2. FlowTypes(S, from, to, count, msgs, given)
        BY <1>3, <1>5, ChannelTypes
      <3>3. DataOf(S) = {} /\ msgs = <<>> /\ given = <<>> /\ ~Listens(S, to)
        BY <1>4, <2>2, <3>1 DEF DataOf, Listens
      <3> HIDE DEF S, from, to, count, msgs, given, closed, lost
      <3>4. Flow(S, from, to, count, msgs, given, closed, lost)
        BY <3>2, <3>3, FlowFresh
      <3> QED
        BY <3>4 DEF Flows, S, from, to, count, msgs, given, closed, lost
    <2> QED
      BY <2>3, <2>4, <2>5, <2>6 DEF ChannelInv
  <1> QED
    BY <1>3, <1>5, <1>6 DEF IndInv

-----------------------------------------------------------------------------
(* What the muxes promise.                                                 *)

\* The inductive invariant holds in every state: the frames of a channel that
\* are in a send queue or in flight, its records at the two ends and what its
\* users have been told fit together.
THEOREM IndInvHolds == Spec => []IndInv
  <1>1. Init => IndInv
    BY InitInv
  <1>2. IndInv /\ [Next]_vars => IndInv'
    BY NextInv, StutterInv
  <1> QED
    BY <1>1, <1>2, PTL DEF Spec

LEMMA InOrder ==
    ASSUME IndInv
    PROVE  NoOutOfOrder
  <1> SUFFICES ASSUME NEW e \in Ends, tx[Peer(e)].wire # <<>>,
                      Head(tx[Peer(e)].wire).kind \in {"Data", "Frag"},
                      channels[e][Head(tx[Peer(e)].wire).id].state = "Open",
                      <<Peer(e), Head(tx[Peer(e)].wire).id>> \notin closedBy
               PROVE  Head(tx[Peer(e)].wire).seq = channels[e][Head(tx[Peer(e)].wire).id].rx
    BY DEF NoOutOfOrder
  <1> DEFINE p == Peer(e)
             t == tx[p]
             f == Head(t.wire)
             c == f.id
             v == [t EXCEPT !.wire = Tail(@)]
             S == InTransit(t, c)
             U == InTransit(v, c)
             to == channels[e][c]
             D == DataOf(S)
  <1>1. SideOK(t) /\ p \in Ends /\ Peer(p) = e
    BY PeerFacts DEF IndInv
  <1>2. Taken(t, f, v)
    <2> HIDE DEF t
    <2> QED
      BY <1>1, HeadTaken DEF t, p
  <1>3. f \in Sendable /\ c \in Ids /\ c \notin bestEffort
    <2>1. t.wire \in Seq(Sendable) /\ f \in Range(t.wire)
      <3> HIDE DEF t
      <3>1. t.wire \in Seq(Sendable)
        BY <1>1, SideFacts
      <3>2. Range(t.wire) = Range(Tail(t.wire)) \cup {Head(t.wire)}
        BY <3>1, TailRange DEF t, p
      <3> QED
        BY <3>1, <3>2
    <2> HIDE DEF t, f
    <2>2. f \in Sendable /\ c \in Ids
      BY <1>2, SendableFacts DEF Taken
    <2> QED
      BY <1>1, <2>1, <2>2 DEF SideOK, SideClasses
  <1> HIDE DEF v, f
  <1>4. /\ S = U \cup {f} /\ \A g \in U : Precedes(f, g) /\ g.id = c
        /\ f \notin U /\ IsData(f)
    <2>1. IsData(f) /\ Ranked(f)
      BY DEF IsData, Ranked, f
    <2>2. \A g \in U : g.id = c
      BY <1>2, <1>3, InTransitSendable DEF Taken
    <2> HIDE DEF t
    <2> QED
      BY <1>2, <1>3, <2>1, <2>2 DEF Taken
  <1>5. Comes(S, f, U)
    BY <1>4 DEF Comes
  <1>6. S \subseteq Sendable
    BY <1>1, <1>3, InTransitSendable
  <1>7. /\ D = DataOf(U) \cup {f} /\ f.seq \in Nat \ {0}
        /\ \A g \in DataOf(U) : f.seq < g.seq /\ g.seq \in Nat
    <2> HIDE DEF S, U
    <2> QED
      BY <1>5, <1>6, ComesFirst
  <1>8. to.state = "Open" /\ to \in Records /\ to # None /\ to.rx \in Nat
    <2>1. to.state = "Open"
      BY DEF f
    <2>2. to \in Records
      BY <1>3, <2>1, RecordFacts DEF IndInv, StateTypes
    <2> QED
      BY <2>1, <2>2, RecordFacts
  <1>9. Ahead(D, channels[p][c], to) /\ NoGap(D, channels[p][c], to)
    <2>1. Flows(p, c)
      BY <1>1, <1>3 DEF IndInv, ChannelInv
    <2>2. <<p, c>> \notin closedBy
      BY DEF f
    <2>3. Listens(S, to)
      BY <1>8 DEF Listens
    <2> QED
      BY <1>1, <2>1, <2>2, <2>3 DEF Flows, Flow
  <1> HIDE DEF D, to
  <1>10. f.seq = to.rx
    <2>1. f \in D
      BY <1>7
    <2>2. to.rx <= f.seq /\ Linked(D, to, f.seq)
      BY <1>9, <2>1 DEF Ahead, NoGap
    <2>3. SUFFICES ASSUME to.rx < f.seq PROVE FALSE
      BY <1>7, <1>8, <2>2
    <2>4. to.rx \in to.rx .. f.seq - 1
      BY <1>7, <1>8, <2>3
    <2>5. PICK g \in D : g.seq = to.rx
      BY <2>2, <2>4 DEF Linked
    <2> QED
      BY <1>7, <1>8, <2>3, <2>5
  <1> QED
    BY <1>10 DEF f, to

\* The send queues never let a data frame of a reliable channel overtake another, and a refused frame uses no number:
\* what comes out of the reliable stream for an open channel has the number that rx_seq expects (OnFrameInbound,
\* HandleData), for any number of channels, any window and queue cap.
THEOREM NoOutOfOrderHolds == Spec => []NoOutOfOrder
  BY IndInvHolds, InOrder, PTL

LEMMA PrefixGiven ==
    ASSUME IndInv
    PROVE  DataInOrder
  <1> SUFFICES ASSUME NEW e \in Ends, NEW c \in Ids, c \notin bestEffort, <<e, c>> \notin swept
               PROVE  IsPrefix(got[e][c], sent[Peer(e)][c])
    BY DEF DataInOrder, Reliable
  <1> DEFINE g == got[e][c]
             s == sent[Peer(e)][c]
  <1>1. Peer(e) \in Ends /\ Peer(Peer(e)) = e
    BY PeerFacts
  <1>2. Flows(Peer(e), c)
    BY <1>1 DEF IndInv, ChannelInv
  <1>3. Begins(g, s)
    BY <1>1, <1>2 DEF Flows, Flow
  <1>4. g \in Seq(Nat) /\ s \in Seq(Nat)
    BY <1>1 DEF IndInv, StateTypes
  <1> HIDE DEF g, s
  <1>5. Len(g) <= Len(s) /\ SubSeq(g, 1, Len(g)) = SubSeq(s, 1, Len(g))
    BY <1>3, <1>4 DEF Begins
  <1> QED
    BY <1>5 DEF IsPrefix, g, s

\* What the data handler of a reliable channel is given is a prefix of what the other end's SendData said it sent,
\* whatever was fragmented, queued, refused, reset, closed or detached meanwhile, unless a partial message expired
\* there; for any number of channels, messages and endings.
THEOREM DataInOrderHolds == Spec => []DataInOrder
  BY IndInvHolds, PrefixGiven, PTL

LEMMA GivenWhileOpen ==
    ASSUME IndInv, Next, NEW x \in Ends, NEW d \in Ids
    PROVE  got'[x][d] = got[x][d] \/ Has(x, d)
  <1>1. got \in [Ends -> [Ids -> Seq(Nat)]]
    BY DEF IndInv, StateTypes
  <1>2. ASSUME NEW e \in Ends, NEW f, NEW txs, Arrives(e, f, txs), DispatchFrame(e, f, txs)
        PROVE  got'[x][d] = got[x][d] \/ Has(x, d)
    <2>1. f.id \in Ids
      BY <1>2, ArrivesFacts
    <2>2. InSequence(e, f) => Has(e, f.id)
      BY RecordFacts DEF InSequence, Has
    <2>3. CASE got' = got
      BY <2>3
    <2>4. CASE InSequence(e, f) /\ \E v : got' = [got EXCEPT ![e][f.id] = v]
      <3>1. PICK v : got' = [got EXCEPT ![e][f.id] = v]
        BY <2>4
      <3>2. x # e \/ d # f.id => got'[x][d] = got[x][d]
        BY <1>1, <2>1, <3>1
      <3> QED
        BY <2>2, <2>4, <3>2
    <2>5. CASE \E handled \in BOOLEAN : HandleOpen(e, f, txs, handled)
      BY <2>3, <2>5 DEF HandleOpen
    <2>6. CASE HandleOpenAck(e, f, txs)
      BY <2>3, <2>6 DEF HandleOpenAck
    <2>7. CASE HandleTerminal(e, f, txs)
      BY <2>3, <2>7 DEF HandleTerminal
    <2>8. CASE HandleData(e, f, txs)
      BY <2>3, <2>4, <2>8 DEF HandleData
    <2>9. CASE HandleFrag(e, f, txs)
      BY <2>3, <2>4, <2>9 DEF HandleFrag
    <2> QED
      BY <1>2, <2>5, <2>6, <2>7, <2>8, <2>9 DEF DispatchFrame
  <1>3. PICK e \in Ends :
        \/ got' = got
        \/ Receive(e)
        \/ \E f \in tx[Peer(e)].air : ReceiveBestEffort(e, f)
    <2>1. \A e \in Ends, c \in Ids : OpenOutbound(e, c) => got' = got
      BY DEF OpenOutbound
    <2>2. \A e \in Ends, c \in Ids : SendSmall(e, c) => got' = got
      BY DEF SendSmall
    <2>3. \A e \in Ends, c \in Ids : SendLarge(e, c) => got' = got
      BY DEF SendLarge
    <2>4. \A e \in Ends, c \in Ids : ResetChannel(e, c) \/ CloseChannel(e, c) => got' = got
      BY DEF ResetChannel, CloseChannel
    <2>5. \A e \in Ends : DetachAllChannels(e) => got' = got
      BY DEF DetachAllChannels
    <2>6. \A e, old, idle : Tick(e, old, idle) => got' = got
      BY DEF Tick
    <2> QED
      BY <2>1, <2>2, <2>3, <2>4, <2>5, <2>6 DEF Next
  <1>4. SideOK(tx[Peer(e)])
    BY PeerFacts DEF IndInv
  <1> DEFINE t == tx[Peer(e)]
  <1>5. CASE Receive(e)
    <2> DEFINE f == Head(t.wire)
               v == [t EXCEPT !.wire = Tail(@)]
               txs == [tx EXCEPT ![Peer(e)].wire = Tail(@)]
    <2>1. t.wire # <<>> /\ DispatchFrame(e, f, txs) /\ PutSide(tx, Peer(e), v, txs)
      BY <1>5 DEF Receive, PutSide
    <2>2. Taken(t, f, v)
      <3> HIDE DEF t
      <3> QED
        BY <1>4, <2>1, HeadTaken DEF t
    <2> HIDE DEF f, v, txs
    <2>3. Arrives(e, f, txs)
      BY <2>1, <2>2, LeftArrives
    <2> QED
      BY <1>2, <2>1, <2>3
  <1>6. CASE \E f \in tx[Peer(e)].air : ReceiveBestEffort(e, f)
    <2>1. PICK f \in t.air : ReceiveBestEffort(e, f)
      BY <1>6
    <2> DEFINE v == [t EXCEPT !.air = @ \ {f}]
               txs == [tx EXCEPT ![Peer(e)].air = @ \ {f}]
    <2>2. DispatchFrame(e, f, txs) /\ PutSide(tx, Peer(e), v, txs)
      BY <2>1 DEF ReceiveBestEffort, PutSide
    <2>3. Taken(t, f, v)
      <3> HIDE DEF t
      <3> QED
        BY <1>4, <2>1, AirTaken DEF t
    <2> HIDE DEF v, txs
    <2>4. Arrives(e, f, txs)
      BY <2>2, <2>3, LeftArrives
    <2> QED
      BY <1>2, <2>2, <2>4
  <1> QED
    BY <1>3, <1>5, <1>6

LEMMA ToldOnce ==
    ASSUME IndInv, IndInv', [Next]_vars
    PROVE  [\A e \in Ends, c \in Ids :
                /\ terminal'[e][c] <= 1
                /\ got'[e][c] # got[e][c] => terminal[e][c] = 0]_vars
  <1> SUFFICES ASSUME Next, NEW e \in Ends, NEW c \in Ids
               PROVE  terminal'[e][c] <= 1 /\ (got'[e][c] # got[e][c] => terminal[e][c] = 0)
    OBVIOUS
  <1>1. EndsOnce(e, c) /\ EndsOnce(e, c)'
    BY DEF IndInv, ChannelInv
  <1>2. terminal'[e][c] <= 1
    BY <1>1 DEF EndsOnce
  <1>3. got'[e][c] = got[e][c] \/ Has(e, c)
    BY GivenWhileOpen
  <1> QED
    BY <1>1, <1>2, <1>3 DEF EndsOnce

\* The user of a channel is told at most once that it ended, by the peer's RESET or CLOSE, its own timeout, a refused
\* OPEN, an overflow of partial messages or the loss of the link, and the data handler is given nothing after that.
THEOREM TerminalOnceHolds == Spec => TerminalOnce
  <1>1. IndInv /\ IndInv' /\ [Next]_vars =>
            [\A e \in Ends, c \in Ids :
                /\ terminal'[e][c] <= 1
                /\ got'[e][c] # got[e][c] => terminal[e][c] = 0]_vars
    BY ToldOnce
  <1> QED
    BY <1>1, IndInvHolds, PTL DEF Spec, TerminalOnce
=============================================================================
