---------------------------- MODULE AdpReliable ----------------------------
(***************************************************************************)
(* The reliable stream of an L1 association (class Connection), one        *)
(* direction: the sending end's outstanding_ packets and their retransmit  *)
(* budget, the receiving end's replay window, hold and in-order delivery,  *)
(* and the datagrams between them, which UDP may lose, repeat and reorder. *)
(* The other direction is the same machine with the ends exchanged; the    *)
(* two share only closed_.                                                 *)
(*                                                                         *)
(* Time appears as the choice of which retransmit timers have run out when *)
(* Tick looks at them.  A datagram put on the wire may arrive any number   *)
(* of times, at any later moment, in any order, or never: the wires only   *)
(* grow, and a lost datagram is one that is never received.  A payload is  *)
(* identified with the number of the Send that brought it: a resend        *)
(* carries the payload its packet keeps.                                   *)
(* Both ends hold the session's keys (AdpUpgrade is about how they came to *)
(* them), so a Close is believed and packets always verify.                *)
(***************************************************************************)
EXTENDS Naturals, Sequences, FiniteSets, ReplayWindow

CONSTANTS MaxSeq,      \* last sequence number before SeqWrap (0xffffffff in the code)
          TxWindow,    \* the sender's params_.reliable_window
          HoldWindow,  \* the receiver's params_.reliable_window (tunables are local: peers need not match)
          ReplaySize,  \* the receiver's params_.replay_window
          MaxRtx       \* the sender's params_.max_rtx

ASSUME ConstantsAssumption ==
    /\ MaxSeq \in Nat /\ ReplaySize \in Nat /\ MaxRtx \in Nat
    /\ TxWindow \in Nat \ {0} /\ HoldWindow \in Nat \ {0}

VARIABLES txSeq,        \* sender: tx_seq_rel_
          outstanding,  \* sender: unacked seq -> resends made (deque outstanding_, in seq order)
          lost,         \* sender: packets given up (stats_.reliable_lost, as a set)
          rxRel,        \* receiver: rx_rel_
          handler,      \* receiver: is on_message_ set
          hold,         \* receiver: seqs in rx_rel_hold_
          nextDeliver,  \* receiver: rx_rel_next_deliver_
          delivered,    \* receiver: what on_message_ was given, in order
          unheard,      \* receiver: packets taken while there was no on_message_
          closed,       \* the ends whose closed_ is set
          dataWire,     \* reliable packets ever put on the wire
          ackWire,      \* acks ever put on the wire
          closeWire     \* ends a Close was sent to

senderVars == <<txSeq, outstanding, lost>>
receiverVars == <<rxRel, handler, hold, nextDeliver, delivered, unheard>>
vars == <<senderVars, receiverVars, closed, dataWire, ackWire, closeWire>>

Ends == {"sender", "receiver"}
Seqs == 1 .. MaxSeq

\* rx_rel_ covers the larger of the two windows.
RxWindow == IF ReplaySize > HoldWindow THEN ReplaySize ELSE HoldWindow

Init ==
    /\ txSeq = 0 /\ outstanding = <<>> /\ lost = {}
    /\ rxRel = NewWindow(RxWindow, FALSE) /\ handler \in BOOLEAN
    /\ hold = {} /\ nextDeliver = 1 /\ delivered = <<>> /\ unheard = {}
    /\ closed = {} /\ dataWire = {} /\ ackWire = {} /\ closeWire = {}

-----------------------------------------------------------------------------
(* The sending end.                                                        *)

InFlight == DOMAIN outstanding

\* Send(Reliable): the number is taken and the packet tracked whatever its first send does (a send the OS refuses is
\* one the wire loses).  Closed, WindowFull and SeqWrap change nothing.
Send ==
    /\ "sender" \notin closed
    /\ Cardinality(InFlight) < TxWindow
    /\ txSeq < MaxSeq
    /\ txSeq' = txSeq + 1
    /\ outstanding' = [s \in InFlight \cup {txSeq + 1} |-> IF s \in InFlight THEN outstanding[s] ELSE 0]
    /\ dataWire' = dataWire \cup {txSeq + 1}
    /\ UNCHANGED <<lost, receiverVars, closed, ackWire, closeWire>>

Resent(due) == {s \in due : outstanding[s] < MaxRtx}

\* Mutant: the whole deque is searched, not its front.
GivenUpAnywhere(due) == {s \in due : outstanding[s] >= MaxRtx}

\* Mutant: no packet is ever given up.
GivenUpNever(due) == {}

\* Given up: the front of the deque while its budget is spent and its timer has run out.  A packet resent in this very
\* Tick has a new timer.
GivenUp(due) ==
    {s \in due : \A t \in InFlight : t <= s => t \in due /\ outstanding[t] >= MaxRtx}

\* Tick: due is the set of packets whose next_rtx_ms has come.
Tick(due) ==
    /\ "sender" \notin closed
    /\ outstanding' = [s \in InFlight \ GivenUp(due) |->
                         IF s \in Resent(due) THEN outstanding[s] + 1 ELSE outstanding[s]]
    /\ lost' = lost \cup GivenUp(due)
    /\ dataWire' = dataWire \cup Resent(due)
    /\ UNCHANGED <<txSeq, receiverVars, closed, ackWire, closeWire>>

\* HandleAuthenticated, an Ack: stale and repeated acks name packets no longer outstanding.
HandleAck(seq) ==
    /\ seq \in ackWire
    /\ "sender" \notin closed
    /\ outstanding' = [s \in InFlight \ {seq} |-> outstanding[s]]
    /\ UNCHANGED <<txSeq, lost, receiverVars, closed, dataWire, ackWire, closeWire>>

-----------------------------------------------------------------------------
(* The receiving end.                                                      *)

\* OnMessage: the user registers its handler.
OnMessage ==
    /\ ~handler
    /\ handler' = TRUE
    /\ UNCHANGED <<senderVars, rxRel, hold, nextDeliver, delivered, unheard, closed, dataWire, ackWire, closeWire>>

\* Mutant: no limit to the hold.
RoomAlways(seq) == TRUE

Room(seq) == ~handler \/ Cardinality(hold) < HoldWindow \/ seq = nextDeliver

\* A fresh packet is taken only with room for it, and only a packet taken, or taken before, is acked.
Takes(seq) == Classify(rxRel, seq) = "Fresh" /\ Room(seq)
\* Mutant: a fresh packet is acked though there was no room to keep it.
AcksAllFresh(seq) == Classify(rxRel, seq) # "TooFar"
Acks(seq) == Classify(rxRel, seq) = "Duplicate" \/ Takes(seq)

\* Mutant: no hold, every packet goes straight to the handler.
DeliverOnArrival(h) ==
    /\ hold' = {}
    /\ nextDeliver' = nextDeliver + Cardinality(h)
    /\ delivered' = delivered \o <<CHOOSE s \in h : TRUE>>

\* Mutant: an if where the loop is, so a packet that waited for this one is not handed on with it.
DeliverJustOne(h) ==
    IF nextDeliver \in h
    THEN /\ hold' = h \ {nextDeliver}
         /\ nextDeliver' = nextDeliver + 1
         /\ delivered' = Append(delivered, nextDeliver)
    ELSE hold' = h /\ UNCHANGED <<nextDeliver, delivered>>

\* Mutant: begins with whatever is first in the hold, not with the number that is next.
DeliverFromFront(h) ==
    LET first == CHOOSE s \in h : \A t \in h : s <= t
        end == EndOfRun(first - 1, h)
    IN  /\ hold' = h \ (first .. end)
        /\ nextDeliver' = end + 1
        /\ delivered' = delivered \o [i \in 1 .. end + 1 - first |-> first + i - 1]

\* DeliverReliableInOrder with h in the hold: everything from nextDeliver on that is there without a gap.
DeliverReliableInOrder(h) ==
    LET end == EndOfRun(nextDeliver - 1, h)
    IN  /\ hold' = h \ (nextDeliver .. end)
        /\ nextDeliver' = end + 1
        /\ delivered' = delivered \o [i \in 1 .. end + 1 - nextDeliver |-> nextDeliver + i - 1]

\* HandleAuthenticated, a reliable packet: window, ack, hold, delivery.
HandleReliable(seq) ==
    /\ seq \in dataWire
    /\ "receiver" \notin closed
    /\ ackWire' = IF Acks(seq) THEN ackWire \cup {seq} ELSE ackWire
    /\ rxRel' = IF Takes(seq) THEN Accept(rxRel, seq) ELSE rxRel
    /\ IF Takes(seq) /\ handler
       THEN DeliverReliableInOrder(hold \cup {seq}) /\ UNCHANGED unheard
       ELSE /\ unheard' = IF Takes(seq) THEN unheard \cup {seq} ELSE unheard
            /\ UNCHANGED <<hold, nextDeliver, delivered>>
    /\ UNCHANGED <<senderVars, handler, closed, dataWire, closeWire>>

-----------------------------------------------------------------------------
(* Ending the association.                                                 *)

Peer(end) == CHOOSE e \in Ends : e # end

\* Close tells the peer once; Abandon says nothing.  An end that closed is unregistered: it hears nothing more.
Close(end) ==
    /\ end \notin closed
    /\ closed' = closed \cup {end}
    /\ closeWire' = closeWire \cup {Peer(end)}
    /\ UNCHANGED <<senderVars, receiverVars, dataWire, ackWire>>

Abandon(end) ==
    /\ end \notin closed
    /\ closed' = closed \cup {end}
    /\ UNCHANGED <<senderVars, receiverVars, dataWire, ackWire, closeWire>>

\* HandleAuthenticated, a Close.
HandleClose(end) ==
    /\ end \in closeWire /\ end \notin closed
    /\ closed' = closed \cup {end}
    /\ UNCHANGED <<senderVars, receiverVars, dataWire, ackWire, closeWire>>

Next ==
    \/ Send
    \/ \E due \in SUBSET InFlight : Tick(due)
    \/ \E seq \in Seqs : HandleAck(seq)
    \/ OnMessage
    \/ \E seq \in Seqs : HandleReliable(seq)
    \/ \E end \in Ends : Close(end) \/ Abandon(end) \/ HandleClose(end)

Spec == Init /\ [][Next]_vars

\* The io loop keeps calling Tick and time goes on, so every timer runs out.  The network promises nothing.
TickAll == Tick(InFlight) /\ InFlight # {}

FairSpec == Spec /\ WF_vars(TickAll)

-----------------------------------------------------------------------------
TypeOK ==
    /\ txSeq \in 0 .. MaxSeq
    /\ InFlight \subseteq Seqs
    /\ outstanding \in [InFlight -> 0 .. MaxRtx]
    /\ lost \subseteq Seqs
    /\ rxRel \in [size : {RxWindow}, slide : BOOLEAN, last : 0 .. MaxSeq, pending : SUBSET Seqs]
    /\ ~rxRel.slide
    /\ handler \in BOOLEAN
    /\ hold \subseteq Seqs
    /\ nextDeliver \in 1 .. MaxSeq + 1
    /\ delivered \in Seq(Seqs)
    /\ unheard \subseteq Seqs
    /\ closed \subseteq Ends
    /\ dataWire \subseteq Seqs
    /\ ackWire \subseteq Seqs
    /\ closeWire \subseteq Ends

\* The numbers the receiver has taken, and so has acked or will ack again.
Taken == (1 .. rxRel.last) \cup rxRel.pending

\* In order and exactly once: the messages the handler was given are the first ones sent, none skipped, none twice,
\* however the datagrams were lost, repeated, reordered or resent (DeliverReliableInOrder, ReplayWindow::Accept).
InOrderExactlyOnce == delivered = [i \in 1 .. Len(delivered) |-> i] /\ Len(delivered) <= txSeq

\* An ack is a promise: a packet the sender stopped tracking without giving it up is delivered or still held at the
\* receiver (HandleAuthenticated: "Record (and later ACK) only a packet we keep").  unheard is the one exception.
AckedIsKept ==
    \A s \in 1 .. txSeq :
        s \in InFlight \cup lost \/ s < nextDeliver \/ s \in hold \/ s \in unheard

\* No quiet stall: with nothing outstanding, nothing given up and the handler there from the start, everything sent has
\* been delivered; whatever is still held waits for a packet the sender is still resending.
SettledMeansDelivered ==
    InFlight = {} /\ lost = {} /\ unheard = {} => Len(delivered) = txSeq /\ hold = {}

HoldBounded == Cardinality(hold) <= HoldWindow

\* No packet is resent beyond its budget, and the hold never outgrows the receiver's own window, also when its replay
\* window and its peer's send window are larger.
WithinLimits ==
    /\ TypeOK
    /\ HoldBounded

\* A packet is given up only when every older one is settled, and only after its whole resend budget.
GivesUpOldestFirst ==
    [][\A s \in lost' \ lost : outstanding[s] = MaxRtx /\ \A t \in DOMAIN outstanding' : t > s]_vars

\* The stream as its user sees it.
Fifo == INSTANCE FifoChannel WITH Message <- Seqs, sent <- [i \in 1 .. txSeq |-> i], got <- delivered

\* The association implements the first-in first-out stream.
ImplementsFifo == Fifo!Spec

\* Every message handed to Send is delivered in the end, unless an end closed, a packet's budget ran out or the handler
\* came late.  Only the timer is assumed fair: without an ack the budget runs out.
EventuallySettled ==
    \A s \in Seqs :
        (s <= txSeq) ~> (s < nextDeliver \/ lost # {} \/ unheard # {} \/ closed # {})

-----------------------------------------------------------------------------
(* The inductive invariant behind the safety properties.                   *)

\* Delivery has got as far as nextDeliver - 1 and is not owed anything it holds.
DeliveryInv ==
    /\ delivered = [i \in 1 .. nextDeliver - 1 |-> i]
    /\ \A h \in hold : h > nextDeliver
    /\ \A u \in unheard : u >= nextDeliver /\ u \notin hold

\* What the window has taken is exactly what was delivered, is held, or came before the handler.
TakenInv == Taken = (1 .. nextDeliver - 1) \cup hold \cup unheard

\* Only numbers sent are about, and every one of them is outstanding, given up or taken; acks name taken ones.
AccountInv ==
    /\ InFlight \cup lost \cup Taken = 1 .. txSeq
    /\ dataWire \subseteq 1 .. txSeq
    /\ ackWire \subseteq Taken

IndInv ==
    /\ TypeOK
    /\ WindowOK(rxRel)
    /\ DeliveryInv
    /\ TakenInv
    /\ AccountInv
    /\ HoldBounded
=============================================================================
