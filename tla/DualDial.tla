------------------------------- MODULE DualDial -------------------------------
(***************************************************************************)
(* Two nodes that dial each other: both ends of the links between them,    *)
(* composed from the link life cycle of PeerLinkManager (one node's view)  *)
(* and the election of DualDialElector. Neither end knows what the other   *)
(* elected: it learns of the other's choice only when the loser's          *)
(* connection closes (DropLinkNow), or goes silent when the Close is lost. *)
(*                                                                         *)
(* A connection has a dialer; its responder ends the handshake first. An   *)
(* end of a connection is none (not met yet), Handshaking, Connected,      *)
(* Backoff (to be dropped on Tick) or gone.                                *)
(***************************************************************************)
EXTENDS DualDialElector, FiniteSets

CONSTANTS
    Low, High,      \* the ids of the two nodes
    Conns,          \* the connections there may be, numbered in dial order
    DialsAtOnce,    \* bound: dials a node has under way at a time, under different keys
    MaxGivenUp      \* bound: links an end gives up on by itself

ASSUME NodesOK == Low \in Nat /\ High \in Nat /\ NoPeer < Low /\ Low < High
ASSUME ConnsOK == Conns \subseteq Nat
ASSUME BoundsOK == DialsAtOnce \in Nat /\ MaxGivenUp \in Nat

VARIABLES
    dialer,     \* who dialed each connection, NoPeer before
    ph,         \* the phase of each end of each connection
    est,        \* connections whose responder finished the handshake
    beat,       \* per node: the pairs <<winner, loser>> of its elections
    givenUp     \* bound counter

bothVars == <<dialer, ph, est, beat, givenUp>>

Nodes == {Low, High}
Peer(n) == IF n = Low THEN High ELSE Low
Phases == {"none", "Handshaking", "Connected", "Backoff", "gone"}

Up(n) == {c \in Conns : ph[n][c] = "Connected"}
DialsUnderWay(n) == {c \in Conns : dialer[c] = n /\ ph[n][c] = "Handshaking"}

BothInit ==
    /\ dialer = [c \in Conns |-> NoPeer]
    /\ ph = [n \in Nodes |-> [c \in Conns |-> "none"]]
    /\ est = {}
    /\ beat = [n \in Nodes |-> {}]
    /\ givenUp = 0

\* EnsureAssociation finds no Connected link of the peer and no dial under way
\* for its key. Dials are joined per key, and one peer may be dialed under
\* several keys at a time, as BurstDial does for the addresses it is given.
Dial(n, c) ==
    /\ Up(n) = {}
    /\ Cardinality(DialsUnderWay(n)) < DialsAtOnce
    /\ dialer[c] = NoPeer
    /\ \A d \in Conns : d < c => dialer[d] # NoPeer
    /\ dialer' = [dialer EXCEPT ![c] = n]
    /\ ph' = [ph EXCEPT ![n][c] = "Handshaking"]
    /\ UNCHANGED <<est, beat, givenUp>>

\* The hello arrives: OnInboundConnection.
Accept(n, c) ==
    /\ dialer[c] = Peer(n)
    /\ ph[n][c] = "none"
    /\ ph' = [ph EXCEPT ![n][c] = "Handshaking"]
    /\ UNCHANGED <<dialer, est, beat, givenUp>>

\* An end's link as the election sees it.
End(n, c) == [out |-> dialer[c] = n, peer |-> Peer(n)]

\* The handshake ends at one end: OnLinkEstablished and the election with
\* another link that is Connected there. The loser is demoted.
Establish(n, c) ==
    /\ \/ /\ Up(n) = {}
          /\ ph' = [ph EXCEPT ![n][c] = "Connected"]
          /\ beat' = beat
       \/ \E d \in Up(n) :
            /\ CandidateWins(End(n, d), End(n, c), n)
            /\ ph' = [ph EXCEPT ![n] = [@ EXCEPT ![c] = "Connected", ![d] = "Backoff"]]
            /\ beat' = [beat EXCEPT ![n] = @ \cup {<<c, d>>}]
       \/ \E d \in Up(n) :
            /\ ~CandidateWins(End(n, d), End(n, c), n)
            /\ ph' = [ph EXCEPT ![n][c] = "Backoff"]
            /\ beat' = [beat EXCEPT ![n] = @ \cup {<<d, c>>}]
    /\ UNCHANGED <<dialer, givenUp>>

\* The responder's end; the dialer's last message may have been under way
\* for long, so the dialer may be anywhere by now.
EstablishIn(n, c) ==
    /\ dialer[c] = Peer(n) /\ ph[n][c] = "Handshaking"
    /\ Establish(n, c)
    /\ est' = est \cup {c}

EstablishOut(n, c) ==
    /\ dialer[c] = n /\ ph[n][c] = "Handshaking"
    /\ c \in est
    /\ Establish(n, c)
    /\ est' = est

\* Tick drops the links marked for it.
TickEnd(n) ==
    /\ \E c \in Conns : ph[n][c] = "Backoff"
    /\ ph' = [ph EXCEPT ![n] = [c \in Conns |-> IF @[c] = "Backoff" THEN "gone" ELSE @[c]]]
    /\ UNCHANGED <<dialer, est, beat, givenUp>>

\* Mutant: a Connected link is kept when its peer has closed it.
NoticesHandshakes(n, c) ==
    /\ ph[Peer(n)][c] = "gone"
    /\ ph[n][c] = "Handshaking"
    /\ ph' = [ph EXCEPT ![n][c] = "gone"]
    /\ UNCHANGED <<dialer, est, beat, givenUp>>

\* The other end has gone: its Close arrives (a dial is refused, a Connected
\* link evicted), or it is lost and a timeout or the liveness window ends
\* the link.
Notices(n, c) ==
    /\ ph[Peer(n)][c] = "gone"
    /\ ph[n][c] \in {"Handshaking", "Connected"}
    /\ ph' = [ph EXCEPT ![n][c] = "gone"]
    /\ UNCHANGED <<dialer, est, beat, givenUp>>

\* An end gives up: a handshake runs out of time, or a Connected link does
\* not answer a probe after a change of network.
GivesUp(n, c) ==
    /\ givenUp < MaxGivenUp
    /\ givenUp' = givenUp + 1
    /\ ph[n][c] \in {"Handshaking", "Connected"}
    /\ ph' = [ph EXCEPT ![n][c] = "gone"]
    /\ UNCHANGED <<dialer, est, beat>>

EndStep(n, c) ==
    Accept(n, c) \/ EstablishIn(n, c) \/ EstablishOut(n, c) \/ Notices(n, c)

BothNext ==
    \/ \E n \in Nodes, c \in Conns : Dial(n, c) \/ EndStep(n, c) \/ GivesUp(n, c)
    \/ \E n \in Nodes : TickEnd(n)

\* Hellos and handshake messages are resent, both runtimes tick, and an end
\* left alone is found out. Nobody has to dial.
BothFairness ==
    /\ \A n \in Nodes, c \in Conns : WF_bothVars(EndStep(n, c))
    /\ \A n \in Nodes : WF_bothVars(TickEnd(n))

BothSpec == BothInit /\ [][BothNext]_bothVars /\ BothFairness

-----------------------------------------------------------------------------
(* Properties.                                                             *)

\* The ends are in the phases the code knows.
BothTyped ==
    /\ dialer \in [Conns -> Nodes \cup {NoPeer}]
    /\ ph \in [Nodes -> [Conns -> Phases]]
    /\ est \subseteq Conns
    /\ beat \in [Nodes -> SUBSET (Conns \X Conns)]
    /\ givenUp \in Nat

Opposite(c, d) == dialer[c] # dialer[d]

\* Of two links dialed from either side the ends never elect differently,
\* whichever of them each establishes first: neither drops the one the
\* other kept in its favour (DualDialElector::Elect on both ends).
ElectionAgrees ==
    \A c, d \in Conns :
        Opposite(c, d) /\ <<c, d>> \in beat[Low] => <<d, c>> \notin beat[High]

\* What makes it so: the winner over a link from the other side is always
\* the one the greater id dialed.
GreaterDialerWins ==
    \A n \in Nodes : \A c, d \in Conns :
        <<c, d>> \in beat[n] /\ Opposite(c, d) => dialer[c] = High /\ dialer[d] = Low

Shared == Up(Low) \cap Up(High) # {}

\* The ends elected differently between two dials of one of them: the dialer
\* keeps the link it had, the acceptor takes the newer one.
Split ==
    \E c, d \in Conns :
        ~Opposite(c, d) /\ <<c, d>> \in beat[Low] /\ <<d, c>> \in beat[High]

\* Once both ends share a session they go on sharing one: elections with
\* later or crossing dials, and the drops that follow, never leave the two
\* without any, unless an end gives a link up, or one end dialed the other
\* twice in parallel (two keys, BurstDial) and the two were told apart
\* differently: then each end drops the link the other kept.
SessionSurvivesElection == <>Shared => ([]<>Shared \/ <>(givenUp > 0) \/ <>Split)

\* Whatever happened, the two ends come to hold the same link, or none: no
\* end keeps a session its peer has dropped.
EndsAgree == []<>(Up(Low) = Up(High))
=============================================================================
