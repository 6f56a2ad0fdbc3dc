---------------------------- MODULE CarrierLane ----------------------------
(***************************************************************************)
(* The reliable lane of a nested link (class CarrierLane and its use by    *)
(* PeerLink), one direction.  A relay splices the carrier as best-effort   *)
(* bytes, so lane frames and lane acks may be lost, repeated and           *)
(* reordered: as in AdpReliable the wires only grow, and a lost frame is   *)
(* one never received.  Acks are cumulative with a few selective bits and  *)
(* may arrive stale.                                                       *)
(*                                                                         *)
(* The sending end is Connected (only then does the mux wrap frames); the  *)
(* receiving end may still be handshaking, and keeps what the lane         *)
(* releases in a backlog until its mux exists.  A frame that ran out of    *)
(* attempts ends the link in the same Tick.  The round-trip estimate and   *)
(* the fast resend only decide when a frame is due.                        *)
(***************************************************************************)
EXTENDS Naturals, Sequences, FiniteSets, ReplayWindow

CONSTANTS MaxSeq,         \* frames the sender may wrap (bound)
          Window,         \* config_.window, the same at both ends
          SelectiveBits,  \* kSelectiveBits
          MaxAttempts,    \* config_.max_attempts, the first send included
          MaxBacklog      \* kMaxLaneBacklogFrames

ASSUME ConstantsAssumption ==
    /\ MaxSeq \in Nat /\ SelectiveBits \in Nat
    /\ Window \in Nat \ {0} /\ MaxAttempts \in Nat \ {0}
    /\ MaxBacklog \in Nat /\ MaxBacklog >= Window

VARIABLES nextTx,        \* sender: next_tx_seq_
          outstanding,   \* sender: unacked seq -> attempts
          failed,        \* sender: failed_, and with it the link
          rxCumulative,  \* receiver: rx_cumulative_
          rxHold,        \* receiver: seqs in rx_hold_
          connected,     \* receiver: phase_ is Connected and the mux exists
          backlog,       \* receiver: lane_backlog_
          muxGot,        \* receiver: the frames its mux was given, in order
          dataWire,      \* LaneData ever sent
          ackWire        \* LaneAck ever sent

senderVars == <<nextTx, outstanding, failed>>
receiverVars == <<rxCumulative, rxHold, connected, backlog, muxGot>>
vars == <<senderVars, receiverVars, dataWire, ackWire>>

Seqs == 1 .. MaxSeq
LaneAckFields == [cumulative : 0 .. MaxSeq, selective : SUBSET (0 .. SelectiveBits - 1)]

\* An ack of nothing: the probes both ends sent during the handshake, on the wire from the start.
LaneProbe == [cumulative |-> 0, selective |-> {}]

Init ==
    /\ nextTx = 1 /\ outstanding = <<>> /\ failed = FALSE
    /\ rxCumulative = 0 /\ rxHold = {}
    /\ connected \in BOOLEAN /\ backlog = <<>> /\ muxGot = <<>>
    /\ dataWire = {} /\ ackWire = {LaneProbe}

-----------------------------------------------------------------------------
(* The sending end.                                                        *)

InFlight == DOMAIN outstanding

\* Wrap, and the wire sent; a full window refuses the frame (the mux queues it).
Wrap ==
    /\ ~failed
    /\ Cardinality(InFlight) < Window
    /\ nextTx <= MaxSeq
    /\ nextTx' = nextTx + 1
    /\ outstanding' = [s \in InFlight \cup {nextTx} |-> IF s \in InFlight THEN outstanding[s] ELSE 1]
    /\ dataWire' = dataWire \cup {nextTx}
    /\ UNCHANGED <<failed, receiverVars, ackWire>>

\* Mutant: bit 0 is read as the frame right after the cumulative ack.
AckedOffByOne(ack, seq) ==
    \/ seq <= ack.cumulative
    \/ seq >= ack.cumulative + 1 /\ seq - ack.cumulative - 1 \in ack.selective

\* The lambda acked of OnAck: bit 0 stands for the frame after the first missing one.
Acked(ack, seq) ==
    \/ seq <= ack.cumulative
    \/ seq >= ack.cumulative + 2 /\ seq - ack.cumulative - 2 \in ack.selective

OnAck(ack) ==
    /\ ack \in ackWire
    /\ ~failed
    /\ outstanding' = [s \in {t \in InFlight : ~Acked(ack, t)} |-> outstanding[s]]
    /\ UNCHANGED <<nextTx, failed, receiverVars, dataWire, ackWire>>

\* Mutant: a frame out of attempts is left alone and the link stays.
NeverExhausted(due) == FALSE

\* A frame of due has been sent as often as the lane sends one.
Exhausted(due) == \E s \in due : outstanding[s] >= MaxAttempts

Resends(due) == {s \in due : outstanding[s] < MaxAttempts}

\* TickCarrierLane with DueResends, and the drop of a failed lane's link that follows in the same Tick: due is the set
\* of frames whose next_resend_ms has come.
DueResends(due) ==
    /\ ~failed
    /\ outstanding' = [s \in InFlight |-> IF s \in Resends(due) THEN outstanding[s] + 1 ELSE outstanding[s]]
    /\ failed' = Exhausted(due)
    /\ dataWire' = dataWire \cup Resends(due)
    /\ UNCHANGED <<nextTx, receiverVars, ackWire>>

-----------------------------------------------------------------------------
(* The receiving end.                                                      *)

\* OnData: is the frame new and within the window.
Takes(seq) == seq > rxCumulative /\ seq \notin rxHold /\ seq - rxCumulative <= Window

\* CurrentAck: only the first SelectiveBits places past the gap can be named.
CurrentAck(cumulative, heldSeqs) ==
    [cumulative |-> cumulative,
     selective |-> {s - cumulative - 2 : s \in {t \in heldSeqs : t - cumulative - 2 < SelectiveBits}}]

\* The loop of OnData: the held frames that follow the cumulative number without a gap.
Released(held) == {s \in held : s <= EndOfRun(rxCumulative, held)}

Ascending(S) == [i \in 1 .. Cardinality(S) |-> CHOOSE s \in S : Cardinality({t \in S : t < s}) = i - 1]

\* Mutant: the frames just released overtake the backlog.
BacklogInFront(frames) == frames \o backlog

\* HandleLaneFrame: what was released joins the backlog while there is room.
Backlogged(frames) ==
    LET room == MaxBacklog - Len(backlog)
    IN  backlog \o SubSeq(frames, 1, IF room < Len(frames) THEN room ELSE Len(frames))

\* FlushLaneBacklog, with the backlog b. Every frame opens: both ends hold the session key by now, and what a rekey of the
\* nested link does to a frame sealed before it is left out (DeliverSealedCarrierWire drops one that does not open).
FlushLaneBacklog(b) ==
    IF connected'
    THEN muxGot' = muxGot \o b /\ backlog' = <<>>
    ELSE backlog' = b /\ UNCHANGED muxGot

\* HandleLaneFrame, LaneData: OnData, the ack, the backlog and its flush.
OnData(seq) ==
    /\ seq \in dataWire
    /\ LET held == IF Takes(seq) THEN rxHold \cup {seq} ELSE rxHold
           cumulative == rxCumulative + Cardinality(Released(held))
       IN  /\ rxCumulative' = cumulative
           /\ rxHold' = held \ Released(held)
           /\ ackWire' = ackWire \cup {CurrentAck(cumulative, held \ Released(held))}
           /\ UNCHANGED connected
           /\ FlushLaneBacklog(Backlogged(Ascending(Released(held))))
    /\ UNCHANGED <<senderVars, dataWire>>

\* FinishEstablishment at the receiving end.
FinishEstablishment ==
    /\ ~connected
    /\ connected' = TRUE
    /\ FlushLaneBacklog(backlog)
    /\ UNCHANGED <<senderVars, rxCumulative, rxHold, dataWire, ackWire>>

Next ==
    \/ Wrap
    \/ \E ack \in ackWire : OnAck(ack)
    \/ \E due \in SUBSET InFlight : DueResends(due)
    \/ \E seq \in dataWire : OnData(seq)
    \/ FinishEstablishment

Spec == Init /\ [][Next]_vars

\* Tick goes on and every timer runs out; the carrier promises nothing.
TickAll == DueResends(InFlight) /\ InFlight # {}

FairSpec == Spec /\ WF_vars(TickAll)

-----------------------------------------------------------------------------
TypeOK ==
    /\ nextTx \in 1 .. MaxSeq + 1
    /\ InFlight \subseteq Seqs
    /\ outstanding \in [InFlight -> 1 .. MaxAttempts]
    /\ failed \in BOOLEAN
    /\ rxCumulative \in 0 .. MaxSeq
    /\ rxHold \subseteq Seqs
    /\ connected \in BOOLEAN
    /\ backlog \in Seq(Seqs) /\ Len(backlog) <= MaxBacklog
    /\ muxGot \in Seq(Seqs)
    /\ dataWire \subseteq Seqs
    /\ ackWire \subseteq LaneAckFields

\* A frame the sender let go of is released or held at the receiver, whatever acks came late, twice or out of order: a
\* selective bit never names a frame the receiver lacks.
LetGoIsKept ==
    /\ TypeOK
    /\ \A s \in 1 .. nextTx - 1 : s \in InFlight \/ s <= rxCumulative \/ s \in rxHold

\* The lane as the muxes at its ends see it.
Fifo == INSTANCE FifoChannel WITH Message <- Seqs, sent <- Ascending(1 .. nextTx - 1), got <- muxGot

\* Over a carrier that loses, repeats and reorders, and across the flush of the backlog at Connected, the lane is a
\* first-in first-out stream from mux to mux (as long as the backlog has room: frames past its cap are acked and dropped).
ImplementsFifo == Fifo!Spec

\* Every frame wrapped is released at the other end in the end, or the link is ended: a dead path is noticed.
ReleasedOrFailed ==
    \A s \in Seqs : s < nextTx ~> s <= rxCumulative \/ failed

-----------------------------------------------------------------------------
(* The inductive invariant of the proofs in CarrierLaneProofs.             *)

\* The frames the receiver answers for.
Kept == (1 .. rxCumulative) \cup rxHold

\* Only frames wrapped are anywhere, and every one of them is in flight or at the receiver.
AccountInv ==
    /\ InFlight \cup dataWire \cup Kept \subseteq 1 .. nextTx - 1
    /\ 1 .. nextTx - 1 \subseteq InFlight \cup Kept

\* Whatever is held waits for a frame before it, and lies within the window.
HoldInv == rxHold \subseteq rxCumulative + 2 .. rxCumulative + Window

\* No ack, however old, names a frame that was never kept.
AckInv == \A ack \in ackWire : \A s \in Seqs : Acked(ack, s) => s \in Kept

IndInv ==
    /\ TypeOK
    /\ AccountInv
    /\ HoldInv
    /\ AckInv

\* The receiver is Connected before the lane has released more than the backlog takes.
BacklogHasRoom == connected \/ rxCumulative <= MaxBacklog

\* What the lane released is at the mux or in the backlog, in order and complete.
DeliveryInv ==
    /\ muxGot \o backlog = [i \in 1 .. rxCumulative |-> i]
    /\ connected => backlog = <<>>
=============================================================================
