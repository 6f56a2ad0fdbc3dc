---------------------------- MODULE AdpUpgrade ----------------------------
(***************************************************************************)
(* An association changes keys under its own handshake.  The MSH messages  *)
(* go as plain reliable packets under the pre-session key; an end that has *)
(* the peer's Finished upgrades at once (UpgradeBinder, SetProtection),    *)
(* while its last handshake packet and the acks of it may still be on the  *)
(* wire.  Sender and receiver are those of AdpReliable without budgets and *)
(* windows (the handshake is far smaller than either); what matters here   *)
(* is under which key each datagram goes and whether it is then believed.  *)
(*                                                                         *)
(* A handshake message is one packet: its chunks are reliable packets in   *)
(* order.  Initiator: 1 ClientHello, 2 ClientPayload, 3 Finished, then     *)
(* data; responder: 1 ServerHello, 2 ServerPayload, 3 Finished, then data. *)
(***************************************************************************)
EXTENDS Naturals, FiniteSets, ReplayWindow

CONSTANTS MaxData,  \* sealed packets each end may send (bound)
          MaxWire,  \* datagrams on the wire when a timer or the user adds one (bound)
          MaxLoss   \* datagrams the network loses (bound); resends and acks of duplicates are not bounded

ASSUME BoundsAssumption == MaxData \in Nat /\ MaxWire \in Nat /\ MaxLoss \in Nat

VARIABLES txSeq,       \* tx_seq_rel_ of each end
          outstanding, \* unacked numbers of each end
          rxNext,      \* rx_rel_next_deliver_ of each end
          hold,        \* numbers each end holds beyond it
          upgraded,    \* the ends past FinishEstablishment: session binder key, protection_ set
          wire,        \* datagrams in flight
          losses       \* datagrams lost so far

ends == <<txSeq, outstanding, rxNext, hold, upgraded>>
vars == <<ends, wire, losses>>

Ends == {"initiator", "responder"}
Peer(e) == IF e = "initiator" THEN "responder" ELSE "initiator"

\* The number of each end's last handshake packet, its Finished.
Finished == 3
MaxSeq == Finished + MaxData

Packet == [to : Ends, kind : {"Plain", "Sealed", "Ack"}, seq : 1 .. MaxSeq, key : {"pre", "session"}]

Init ==
    /\ txSeq = [e \in Ends |-> IF e = "initiator" THEN 1 ELSE 0]
    /\ outstanding = [e \in Ends |-> IF e = "initiator" THEN {1} ELSE {}]
    /\ rxNext = [e \in Ends |-> 1]
    /\ hold = [e \in Ends |-> {}]
    /\ upgraded = {}
    /\ wire = {[to |-> "responder", kind |-> "Plain", seq |-> 1, key |-> "pre"]}
    /\ losses = 0

\* The key binder_ seals and verifies with.
BinderKey(e) == IF e \in upgraded THEN "session" ELSE "pre"

\* Outstanding::type and before_upgrade: sent before this end upgraded, so plain and under the pre-session key for good.
BeforeUpgrade(s) == s <= Finished

\* Mutant: resends go under the key of the moment.
ResendUnderBinder(e) == BinderKey(e)

\* The key a resend of a packet from before the upgrade goes under: the one it first went out with.
ResendKey(e) == "pre"

DataPacket(e, s) ==
    IF BeforeUpgrade(s)
    THEN [to |-> Peer(e), kind |-> "Plain", seq |-> s, key |-> ResendKey(e)]
    ELSE [to |-> Peer(e), kind |-> "Sealed", seq |-> s, key |-> "session"]

AckPacket(e, s, key) == [to |-> Peer(e), kind |-> "Ack", seq |-> s, key |-> key]

\* Send(Reliable) of data, once Connected.
SendData(e) ==
    /\ e \in upgraded
    /\ txSeq[e] < MaxSeq /\ Cardinality(wire) < MaxWire
    /\ txSeq' = [txSeq EXCEPT ![e] = @ + 1]
    /\ outstanding' = [outstanding EXCEPT ![e] = @ \cup {txSeq[e] + 1}]
    /\ wire' = wire \cup {DataPacket(e, txSeq[e] + 1)}
    /\ UNCHANGED <<rxNext, hold, upgraded, losses>>

\* Tick: a timer ran out.
Resend(e, s) ==
    /\ s \in outstanding[e] /\ Cardinality(wire) < MaxWire
    /\ wire' = wire \cup {DataPacket(e, s)}
    /\ UNCHANGED <<ends, losses>>

\* A datagram is believed by its key: sealed under the session's keys, else by the binder's HMAC.
Verifies(e, p) == IF p.kind = "Sealed" THEN e \in upgraded ELSE p.key = BinderKey(e)

\* The handshake answers the n-th message it is given with its own next one; the responder's first answer is to the
\* first message, the initiator's second message is the answer to the responder's first.
Answers(e, n) == IF e = "responder" THEN {n} \cap (1 .. Finished) ELSE {n + 1} \cap (1 .. Finished)

\* What the messages from first to last are answered with.
Replies(e, first, last) == UNION {Answers(e, n) : n \in first .. last}

\* HandleAuthenticated, an ack.
HandleAck(e, p) ==
    /\ p.kind = "Ack" /\ Verifies(e, p)
    /\ outstanding' = [outstanding EXCEPT ![e] = @ \ {p.seq}]
    /\ wire' = wire \ {p}
    /\ UNCHANGED <<txSeq, rxNext, hold, upgraded, losses>>

\* MaybeComplete: the peer's Finished completes this end.
Completes(e, n) == n = Finished

\* FinishEstablishment: UpgradeBinder and SetProtection, one right after the other.
FinishEstablishment(e) == upgraded \cup {e}

\* Once sealing, nothing new is taken in the clear.
RefusePlainAfterKeys(e, p) == p.kind = "Plain" /\ e \in upgraded

\* Mutant: off by one, the next number counts as taken.
DuplicateOffByOne(e, s) == s <= rxNext[e] \/ s \in hold[e]

\* Taken before (ReplayWindow::Classify, for a stream that fits the window).
Duplicate(e, s) == s < rxNext[e] \/ s \in hold[e]

\* HandleAuthenticated, a reliable packet: acked under the key of the moment, then delivered in order; the handshake
\* messages among what is delivered are answered, and the peer's Finished completes this end.
HandleReliable(e, p) ==
    /\ p.kind # "Ack" /\ Verifies(e, p)
    /\ LET fresh == ~Duplicate(e, p.seq)
           took == fresh /\ ~RefusePlainAfterKeys(e, p)
           end == IF took THEN EndOfRun(rxNext[e] - 1, hold[e] \cup {p.seq}) ELSE rxNext[e] - 1
           replies == Replies(e, rxNext[e], end)
           ack == IF took \/ ~fresh THEN {AckPacket(e, p.seq, BinderKey(e))} ELSE {}
       IN  /\ hold' = [hold EXCEPT ![e] = IF took THEN (@ \cup {p.seq}) \ (rxNext[e] .. end) ELSE @]
           /\ rxNext' = [rxNext EXCEPT ![e] = end + 1]
           /\ txSeq' = [txSeq EXCEPT ![e] = @ + Cardinality(replies)]
           /\ outstanding' = [outstanding EXCEPT ![e] = @ \cup replies]
           /\ upgraded' = IF \E n \in rxNext[e] .. end : Completes(e, n) THEN FinishEstablishment(e) ELSE upgraded
           /\ wire' = (wire \ {p}) \cup ack \cup {DataPacket(e, s) : s \in replies}
           /\ UNCHANGED losses

\* Mutant: nothing is read under the old key any more.
IgnorePreUpgradeKey(e, p) ==
    /\ e \in upgraded /\ p.kind # "Sealed" /\ p.key = "pre"
    /\ wire' = wire \ {p}
    /\ UNCHANGED <<ends, losses>>

\* HandlePreUpgradeKeyPacket: fails the session key, passes the old one.
HandlePreUpgradeKey(e, p) ==
    /\ e \in upgraded /\ p.kind # "Sealed" /\ p.key = "pre"
    /\ outstanding' = [outstanding EXCEPT ![e] = IF p.kind = "Ack" /\ BeforeUpgrade(p.seq) THEN @ \ {p.seq} ELSE @]
    /\ wire' = (wire \ {p}) \cup (IF p.kind = "Plain" /\ Duplicate(e, p.seq) THEN {AckPacket(e, p.seq, "pre")} ELSE {})
    /\ UNCHANGED <<txSeq, rxNext, hold, upgraded, losses>>

\* Rejected: sealed before this end has keys, or an HMAC no key of this end made.
Reject(e, p) ==
    /\ ~Verifies(e, p) /\ ~(e \in upgraded /\ p.kind # "Sealed" /\ p.key = "pre")
    /\ wire' = wire \ {p}
    /\ UNCHANGED <<ends, losses>>

\* HandleDatagram.
Receive(p) ==
    /\ p \in wire
    /\ \/ HandleAck(p.to, p)
       \/ HandleReliable(p.to, p)
       \/ HandlePreUpgradeKey(p.to, p)
       \/ Reject(p.to, p)

Lose(p) ==
    /\ losses < MaxLoss
    /\ losses' = losses + 1
    /\ wire' = wire \ {p}
    /\ UNCHANGED ends

Next ==
    \/ \E e \in Ends : SendData(e)
    \/ \E e \in Ends : \E s \in outstanding[e] : Resend(e, s)
    \/ \E p \in wire : Receive(p) \/ Lose(p)

Spec == Init /\ [][Next]_vars

\* Every packet an end can put on the wire.
Sendable ==
    {p \in Packet : \/ p.kind = "Plain" /\ BeforeUpgrade(p.seq)
                    \/ p.kind = "Sealed" /\ ~BeforeUpgrade(p.seq) /\ p.key = "session"
                    \/ p.kind = "Ack"}

\* Timers run out, and a datagram that is not lost arrives.
FairSpec ==
    /\ Spec
    /\ \A e \in Ends : \A s \in 1 .. MaxSeq : WF_vars(Resend(e, s))
    /\ \A p \in Sendable : WF_vars(Receive(p))

-----------------------------------------------------------------------------
TypeOK ==
    /\ txSeq \in [Ends -> 0 .. MaxSeq]
    /\ outstanding \in [Ends -> SUBSET (1 .. MaxSeq)]
    /\ rxNext \in [Ends -> 1 .. MaxSeq + 1]
    /\ hold \in [Ends -> SUBSET (1 .. MaxSeq)]
    /\ upgraded \subseteq Ends
    /\ wire \subseteq Packet
    /\ losses \in 0 .. MaxLoss

\* A packet is settled only by a peer that has it: whichever key an ack came under, it never stops the resends of a
\* packet the other end still lacks, and what an end takes its peer has sent.
SettledIsTaken ==
    /\ TypeOK
    /\ \A e \in Ends :
        /\ \A s \in (1 .. txSeq[e]) \ outstanding[e] : s < rxNext[Peer(e)] \/ s \in hold[Peer(e)]
        /\ rxNext[Peer(e)] - 1 <= txSeq[e] /\ hold[Peer(e)] \subseteq 1 .. txSeq[e]

\* The handshake completes at both ends however often its packets and acks are lost (dial timeouts aside), though one
\* end changes its key first.
BothUpgrade == <>(upgraded = Ends)

\* Nothing is resent for ever: every packet, from before or after the upgrade, is settled.
EverythingSettles ==
    \A e \in Ends : \A s \in 1 .. MaxSeq : s \in outstanding[e] ~> s \notin outstanding[e]

-----------------------------------------------------------------------------
(* The inductive invariant of the proofs in AdpUpgradeProofs.              *)

\* How many handshake packets an end has sent by the time it waits for number r of its peer's.
HandshakeSent(e, r) == IF e = "responder" THEN r - 1 ELSE IF r < Finished THEN r ELSE Finished

\* The handshake goes in lock step: an end's own packets follow from the peer's it was given, and the peer's Finished
\* divides the end's life in two.
ProgressInv ==
    \A e \in Ends :
        \/ e \notin upgraded /\ rxNext[e] <= Finished /\ txSeq[e] = HandshakeSent(e, rxNext[e])
        \/ e \in upgraded /\ rxNext[e] > Finished /\ txSeq[e] >= Finished

\* A packet in flight was sent, and what an ack in flight names has been taken, whichever key either goes under.
Truthful(p) == IF p.kind = "Ack" THEN Duplicate(Peer(p.to), p.seq) ELSE p.seq <= txSeq[Peer(p.to)]

WireInv == \A p \in wire : Truthful(p)

IndInv ==
    /\ SettledIsTaken
    /\ \A e \in Ends : outstanding[e] \subseteq 1 .. txSeq[e]
    /\ ProgressInv
    /\ WireInv
=============================================================================
