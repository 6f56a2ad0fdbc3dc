---------------------------- MODULE SessionRekey ----------------------------
(***************************************************************************)
(* The two ends of a Connected link move to new packet keys together       *)
(* (PeerLink::RequestSessionRekey and HandleSessionControl, class          *)
(* Session).  The request and its ack are reliable data on channel 0, and  *)
(* like all data they are sealed when a datagram leaves: the first time    *)
(* and again at every resend, under the key of that moment                 *)
(* (Connection::Tick, "Resealed under the current key").  After a rekey    *)
(* the previous receive key still opens packets for a grace time.          *)
(*                                                                         *)
(* Between the session and the connection is the mux (ChannelMux): with    *)
(* the send window full, or messages of the channel already waiting, a     *)
(* message is queued and leaves, sealed, when there is room again; with    *)
(* the queue full it is refused.  Window and queue are shared with all     *)
(* other channels, so whether there is room is a free choice here.         *)
(*                                                                         *)
(* Budgets are left out: a packet is resent until the peer has it, which   *)
(* is the kinder case.  L1 acks go under the binder's key, which a rekey   *)
(* does not change; a resend the sender makes before the ack reaches it is *)
(* a duplicate (AdpReliable).                                              *)
(***************************************************************************)
EXTENDS Naturals, Sequences, FiniteSets, ReplayWindow

CONSTANTS MaxEpoch,  \* last session epoch (bound)
          MaxData,   \* data packets each end may send (bound)
          MaxWire,   \* datagrams on the wire when a timer or the user adds one (bound)
          MaxLoss    \* datagrams the network loses (bound)

ASSUME BoundsAssumption ==
    /\ MaxEpoch \in Nat \ {0} /\ MaxData \in Nat /\ MaxWire \in Nat /\ MaxLoss \in Nat

VARIABLES epoch,        \* material_.session_epoch of each end
          grace,        \* does previous_recv_key_ still open packets (HasGraceRecvKey)
          rekeyCb,      \* is rekey_cb_ set: a request of this end is in flight
          sent,         \* messages of channel 0 the mux of each end has accepted, in order
          out,          \* how many of them have left: message n is packet n
          rxNext,       \* rx_rel_next_deliver_
          hold,         \* rx_rel_hold_
          wire,         \* datagrams in flight
          losses,       \* datagrams lost so far
          lateAck       \* history: ends with a RekeyAck that did not leave before their new key applied

session == <<epoch, grace, rekeyCb, lateAck>>
transport == <<sent, out, rxNext, hold>>
vars == <<session, transport, wire, losses>>

Ends == {"a", "b"}
Peer(e) == IF e = "a" THEN "b" ELSE "a"

Data == [kind |-> "Data"]
Control == [kind : {"RekeyRequest", "RekeyAck"}, target : 2 .. MaxEpoch]
Body == Control \cup {Data}
MaxSeq == MaxData + 2 * (MaxEpoch - 1)

Packet == [to : Ends, seq : 1 .. MaxSeq, key : 1 .. MaxEpoch]

Init ==
    /\ epoch = [e \in Ends |-> 1]
    /\ grace = [e \in Ends |-> FALSE]
    /\ rekeyCb = [e \in Ends |-> FALSE]
    /\ sent = [e \in Ends |-> <<>>]
    /\ out = [e \in Ends |-> 0]
    /\ rxNext = [e \in Ends |-> 1]
    /\ hold = [e \in Ends |-> {}]
    /\ wire = {}
    /\ losses = 0
    /\ lateAck = {}

-----------------------------------------------------------------------------
\* DeliverReliableInOrder runs until nothing more can be delivered.  One message of it is one step here, and nothing
\* else happens at an end in between.
Idle(e) == rxNext[e] \notin hold[e]

\* SealDatagram.
Sealed(e, s) == [to |-> Peer(e), seq |-> s, key |-> epoch[e]]

\* Connection::Send(Reliable) of the next message: numbered, tracked, sealed under the current key.
Send(e) ==
    /\ out' = [out EXCEPT ![e] = @ + 1]
    /\ wire' = wire \cup {Sealed(e, out[e] + 1)}

Waits(e) == out[e] < Len(sent[e])

\* ChannelMux::SendWire accepts a message: it leaves at once, if there is credit and none of its channel waits, or it is
\* queued.
SendWire(e, body, atOnce) ==
    /\ sent' = [sent EXCEPT ![e] = Append(@, body)]
    /\ IF atOnce THEN ~Waits(e) /\ Send(e) ELSE UNCHANGED <<out, wire>>

\* ChannelMux::FlushQueued, for a frame of this channel.
FlushQueued(e) ==
    /\ Waits(e)
    /\ Send(e)
    /\ UNCHANGED <<session, sent, rxNext, hold, losses>>

NextEpoch(e) == epoch[e] + 1

\* Mutant: the requester changes keys without waiting for the ack.
RequestAndApply(e) ==
    /\ Idle(e)
    /\ ~rekeyCb[e]
    /\ epoch[e] < MaxEpoch /\ Cardinality(wire) < MaxWire
    /\ rekeyCb' = [rekeyCb EXCEPT ![e] = TRUE]
    /\ \E atOnce \in BOOLEAN : SendWire(e, [kind |-> "RekeyRequest", target |-> NextEpoch(e)], atOnce)
    /\ epoch' = [epoch EXCEPT ![e] = NextEpoch(e)]
    /\ UNCHANGED <<grace, lateAck, rxNext, hold, losses>>

\* A request the mux refuses clears rekey_cb_ again and leaves everything as it was.
RequestSessionRekey(e) ==
    /\ Idle(e)
    /\ ~rekeyCb[e]
    /\ epoch[e] < MaxEpoch /\ Cardinality(wire) < MaxWire
    /\ rekeyCb' = [rekeyCb EXCEPT ![e] = TRUE]
    /\ \E atOnce \in BOOLEAN : SendWire(e, [kind |-> "RekeyRequest", target |-> NextEpoch(e)], atOnce)
    /\ UNCHANGED <<epoch, grace, lateAck, rxNext, hold, losses>>

DataSent(e) == {s \in DOMAIN sent[e] : sent[e][s] = Data}

\* Any other message of the channel.
SendData(e) ==
    /\ Idle(e)
    /\ Cardinality(DataSent(e)) < MaxData /\ Cardinality(wire) < MaxWire
    /\ \E atOnce \in BOOLEAN : SendWire(e, Data, atOnce)
    /\ UNCHANGED <<session, rxNext, hold, losses>>

Taken(e, s) == s < rxNext[e] \/ s \in hold[e]

\* The packets an end keeps resending.
Outstanding(e) == {s \in 1 .. out[e] : ~Taken(Peer(e), s)}

\* Connection::Tick, a timer ran out.
Resend(e, s) ==
    /\ Idle(e)
    /\ s \in Outstanding(e) /\ Cardinality(wire) < MaxWire
    /\ wire' = wire \cup {Sealed(e, s)}
    /\ UNCHANGED <<session, transport, losses>>

\* Session::OpenPacket.
Opens(e, p) == p.key = epoch[e] \/ (grace[e] /\ p.key + 1 = epoch[e])

\* Connection::HandleDatagram: what does not open is rejected before the window sees it.
HandleDatagram(p) ==
    /\ p \in wire /\ Idle(p.to)
    /\ wire' = wire \ {p}
    /\ hold' = [hold EXCEPT ![p.to] = IF Opens(p.to, p) /\ ~Taken(p.to, p.seq) THEN @ \cup {p.seq} ELSE @]
    /\ UNCHANGED <<session, sent, out, rxNext, losses>>

\* Session::ApplyRekey for the expected epoch.
ApplyRekey(e) ==
    /\ epoch' = [epoch EXCEPT ![e] = NextEpoch(e)]
    /\ grace' = [grace EXCEPT ![e] = TRUE]

\* SendData's result is ignored: a refused ack is gone.
AckOutcome == {"left", "queued", "refused"}

\* Mutant: the new key applies before the ack leaves.
TakeRequestKeyFirst(e, body) ==
    /\ \E how \in AckOutcome :
        /\ IF how = "refused" THEN UNCHANGED <<sent, out, wire>>
           ELSE /\ sent' = [sent EXCEPT ![e] = Append(@, [kind |-> "RekeyAck", target |-> body.target])]
                /\ IF how = "queued" THEN UNCHANGED <<out, wire>>
                   ELSE /\ ~Waits(e)
                        /\ out' = [out EXCEPT ![e] = @ + 1]
                        /\ wire' = wire \cup {[Sealed(e, out[e] + 1) EXCEPT !.key = NextEpoch(e)]}
        /\ lateAck' = IF how = "left" THEN lateAck ELSE lateAck \cup {e}
    /\ ApplyRekey(e)
    /\ UNCHANGED rekeyCb

\* HandleSessionControl, a request for the next epoch: the ack goes to the mux, then the new key applies.  An ack that
\* leaves at once is sealed under the old key; one that waits will be sealed under the new one.
TakeRequest(e, body) ==
    /\ \E how \in AckOutcome :
        /\ \/ how = "refused" /\ UNCHANGED <<sent, out, wire>>
           \/ how # "refused" /\ SendWire(e, [kind |-> "RekeyAck", target |-> body.target], how = "left")
        /\ lateAck' = IF how = "left" THEN lateAck ELSE lateAck \cup {e}
    /\ ApplyRekey(e)
    /\ UNCHANGED rekeyCb

\* Mutant: rekey_cb_ is not reset.
TakeAckKeepsCb(e) ==
    /\ ApplyRekey(e)
    /\ UNCHANGED <<rekeyCb, lateAck, sent, out, wire>>

\* HandleSessionControl, the ack of this end's request.
TakeAck(e) ==
    /\ ApplyRekey(e)
    /\ rekeyCb' = [rekeyCb EXCEPT ![e] = FALSE]
    /\ UNCHANGED <<lateAck, sent, out, wire>>

Expected(e, body) == body # Data /\ body.target = epoch[e] + 1

\* The next message in order reaches its handler; control for any epoch but the next is ignored.
Deliver(e) ==
    /\ ~Idle(e)
    /\ rxNext' = [rxNext EXCEPT ![e] = @ + 1]
    /\ hold' = [hold EXCEPT ![e] = @ \ {rxNext[e]}]
    /\ LET body == sent[Peer(e)][rxNext[e]]
       IN  \/ Expected(e, body) /\ body.kind = "RekeyRequest" /\ TakeRequest(e, body)
           \/ Expected(e, body) /\ body.kind = "RekeyAck" /\ TakeAck(e)
           \/ ~Expected(e, body) /\ UNCHANGED <<session, sent, out, wire>>
    /\ UNCHANGED losses

\* kSessionRekeyGraceMs have passed.
GraceOver(e) ==
    /\ grace[e]
    /\ grace' = [grace EXCEPT ![e] = FALSE]
    /\ UNCHANGED <<epoch, rekeyCb, lateAck, transport, wire, losses>>

Lose(p) ==
    /\ losses < MaxLoss
    /\ losses' = losses + 1
    /\ wire' = wire \ {p}
    /\ UNCHANGED <<session, transport>>

Next ==
    \/ \E e \in Ends :
        \/ RequestSessionRekey(e)
        \/ SendData(e)
        \/ FlushQueued(e)
        \/ \E s \in Outstanding(e) : Resend(e, s)
        \/ Deliver(e)
        \/ GraceOver(e)
    \/ \E p \in wire : HandleDatagram(p) \/ Lose(p)

Spec == Init /\ [][Next]_vars

\* Timers run out, datagrams that are not lost arrive, and the delivery loop runs on.  The window has room again once a
\* packet is acked or given up (AdpReliable, EventuallySettled), and each link tick flushes the queue, round-robin over
\* the channels (ChannelMux, QueueDrains).  Nobody must rekey.
FairSpec ==
    /\ Spec
    /\ \A e \in Ends :
        /\ WF_vars(Deliver(e))
        /\ WF_vars(FlushQueued(e))
        /\ \A s \in 1 .. MaxSeq : WF_vars(Resend(e, s))
    /\ \A p \in Packet : WF_vars(HandleDatagram(p))

-----------------------------------------------------------------------------
TypeOK ==
    /\ epoch \in [Ends -> 1 .. MaxEpoch]
    /\ grace \in [Ends -> BOOLEAN]
    /\ rekeyCb \in [Ends -> BOOLEAN]
    /\ \A e \in Ends : sent[e] \in Seq(Body) /\ Len(sent[e]) <= MaxSeq
    /\ out \in [Ends -> 0 .. MaxSeq]
    /\ rxNext \in [Ends -> 1 .. MaxSeq + 1]
    /\ hold \in [Ends -> SUBSET (1 .. MaxSeq)]
    /\ wire \subseteq Packet
    /\ losses \in 0 .. MaxLoss
    /\ lateAck \subseteq Ends

\* The ends are never more than one epoch apart, and the one behind is waiting for the ack of its own request: no order
\* of requests, both ends asking at once among them, moves an end that is not about to follow (target_epoch check).
OneBehindHasAsked ==
    /\ TypeOK
    /\ \A e \in Ends :
        epoch[e] < epoch[Peer(e)] => epoch[Peer(e)] = epoch[e] + 1 /\ rekeyCb[e]

\* Every packet gets through, whenever it was sent and under whichever key it was resent.
DataGetsThrough ==
    \A e \in Ends : \A s \in 1 .. MaxSeq : s \in Outstanding(e) ~> s \notin Outstanding(e)

\* The promise of docs/FAULT_CASES.md N14 ("Loss during rekey ... Survive; post-rekey data OK"), said of sessions in which
\* every RekeyAck finds room in the window: data still gets through when datagrams of the rekey are lost and resent.
RekeySurvivesLoss == [](lateAck = {}) => DataGetsThrough

\* Nothing is lost, and every RekeyAck left when it was made.
QuietPath == [](losses = 0 /\ lateAck = {})

\* The first rekey of a session (MaxEpoch = 2), on a path that loses nothing and with room in the window whenever a
\* request is answered: in any interleaving, with both ends asking at once and with requests and data held in the queue,
\* the ends meet at the same epoch again and every packet gets through.  Both conditions are needed.  A RekeyAck that
\* waits in the queue while ApplyRekey runs (PeerLink.cpp:750-752) leaves under a key the requester does not have, as
\* does one that is resent, and a refused one never leaves: the requester then stays behind for good.  A second rekey can
\* leave behind a packet the first one had rejected, which is as good as lost.
QuietPathKeepsPace ==
    QuietPath => DataGetsThrough /\ (epoch["a"] # epoch["b"] ~> epoch["a"] = epoch["b"])

\* On such a path, with such room, a request made while the peer makes none is completed: rekey_cb_ is called.  When
\* both ask at once the ack may name an epoch already reached, and rekey_cb_ stays set.
LoneRequestCompletes ==
    QuietPath /\ [](~rekeyCb["b"]) => (rekeyCb["a"] ~> ~rekeyCb["a"])

-----------------------------------------------------------------------------
(* The inductive invariant of the proofs in SessionRekeyProofs.            *)

\* Whatever an end has, or may still get, was sent to it.
NumbersInv ==
    /\ sent \in [Ends -> Seq(Body)]
    /\ \A e \in Ends :
        /\ out[e] <= Len(sent[e])
        /\ hold[e] \subseteq DOMAIN sent[Peer(e)]
        /\ rxNext[e] <= Len(sent[Peer(e)]) + 1
    /\ \A p \in wire : p.seq \in DOMAIN sent[Peer(p.to)]

ControlSent(e) == {s \in DOMAIN sent[e] : sent[e][s] # Data}

\* An end never acks beyond its own epoch, asks for the next one at most, and while that is open it awaits the answer.
AskedInv ==
    \A e \in Ends : \A s \in ControlSent(e) :
        LET body == sent[e][s]
        IN  \/ body.target <= epoch[e]
            \/ body.kind = "RekeyRequest" /\ body.target = epoch[e] + 1 /\ rekeyCb[e]

\* An end asks for an epoch once and acks it once: a session sends no more control messages than it has epochs for.
OnceInv ==
    \A e \in Ends :
        /\ \A s, t \in ControlSent(e) : sent[e][s] = sent[e][t] => s = t
        /\ Cardinality(DataSent(e)) <= MaxData

IndInv ==
    /\ OneBehindHasAsked
    /\ NumbersInv
    /\ AskedInv
    /\ OnceInv
=============================================================================
