---------------------------- MODULE FifoChannel ----------------------------
(***************************************************************************)
(* What a reliable stream of this stack promises its user: messages come   *)
(* out in the order they went in, none twice, none skipped.  Nothing is    *)
(* promised about how many arrive: a stream may end at any prefix.  The    *)
(* L1 association (AdpReliable) and the nested lane (CarrierLane) are both *)
(* shown to implement it.                                                  *)
(***************************************************************************)
EXTENDS Naturals, Sequences

CONSTANT Message

VARIABLES sent,   \* the messages handed to the stream, in order
          got     \* the messages its receiver was given, in order

vars == <<sent, got>>

Init == sent = <<>> /\ got = <<>>

Send == \E m \in Message : sent' = Append(sent, m) /\ UNCHANGED got

\* One received datagram may complete several messages, given one after the other.
Deliver ==
    /\ \E n \in Len(got) + 1 .. Len(sent) : got' = SubSeq(sent, 1, n)
    /\ UNCHANGED sent

Next == Send \/ Deliver

Spec == Init /\ [][Next]_vars
=============================================================================
