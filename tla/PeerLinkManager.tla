--------------------------- MODULE PeerLinkManager ---------------------------
(***************************************************************************)
(* The peer link manager of one node (amp/link/PeerLinkManager with        *)
(* LinkTable, DialBook, DualDialElector and the life cycle of PeerLink).   *)
(* Every entry point holds strand_mu_ for its whole length, so each is one *)
(* step; the record m is the manager's state and every operation is an     *)
(* operator from one such record to the next.                              *)
(*                                                                         *)
(*   links, index, pres, asc    the table (LinkTable)                      *)
(*   eps, backoff, resolved, dials   the dial book (DialBook)              *)
(*   pend      pending_drops_, the links they name                         *)
(*   retry     pending_candidate_retry_                                    *)
(*   adopt     pending_alias_adopt_, pairs of a peer and a key             *)
(*   inflight  the keys of inflight_associations_ (EnsureAssociation)      *)
(*   nestw     the links of nested_waiters_                                *)
(*   resolving resolving_                                                  *)
(*   verify    the links of verify_waiters_                                *)
(*   next      the next LinkId, local: local_peer_id_                      *)
(*                                                                         *)
(* Of a link, conn says what its connection (for a nested link, its        *)
(* carrier) has come to: up, closed (by the peer, or by us), dead (silent  *)
(* past its liveness window, or the lane's resends are used up), unreach   *)
(* (a send found no route), version (the peer speaks another version). sus *)
(* follows a probe: asked, then heard or silent for the whole grace        *)
(* period. Time is left to the steps: a Tick finds some handshakes late,   *)
(* an EnsureAssociation finds the backoff of its key over or not.          *)
(* ch0 and cap follow the capability exchange. Keepalive tiers, link       *)
(* events and the rest of channel 0 are left out.                          *)
(***************************************************************************)
EXTENDS LinkTable, DialBook

CONSTANTS
    Far,        \* the id of the peer that dials and is dialed
    Relay,      \* the id of the peer whose link carries nested links
    Locals,     \* the ids this node may have: either side of Far
    Classes,    \* the kinds of use to check (see Offers)
    MaxLinks,   \* max_links
    MaxDials,   \* max_concurrent_dials
    MaxPendingInbound,  \* max_pending_inbound
    MaxEvents,  \* bound: calls of the product, arrivals and failures in a behaviour
    MaxFaults   \* bound: failures of connections and carriers among them

ASSUME ConstantsOK ==
    /\ {Far, Relay} \subseteq Nat \ {NoPeer}
    /\ Far # Relay
    /\ Locals \subseteq Nat \ {NoPeer, Far, Relay}
    /\ Classes \subseteq {"dial", "names", "nested", "probe"}
    /\ {MaxLinks, MaxDials, MaxPendingInbound, MaxEvents, MaxFaults} \subseteq Nat

VARIABLES
    m,          \* the manager
    class,      \* the kind of use, chosen at the start
    calls,      \* calls so far
    faults      \* failures so far

vars == <<m, class, calls, faults>>

-----------------------------------------------------------------------------
(* Looking links up.                                                       *)

\* A product registers a peer under its id, or under an alias.
PeerKey(p) == <<"peer", p>>
Alias == <<"dial", 1>>
PeerNamed(key) == IF key[1] = "peer" THEN key[2] ELSE NoPeer

FindLink(s, key) ==
    LET l == FindByDialKey(s, key)
    IN  IF l # NoLink THEN l ELSE FindByPeerId(s, PeerNamed(key))

\* The link of one transport under a key: the key's own, or one that kept
\* the key after another link took it in the index.
FindOfTransport(s, key, car) ==
    LET l    == FindByDialKey(s, key)
        same == {id \in DOMAIN s.links : s.links[id].car = car /\ s.links[id].key = key}
    IN  IF l # NoLink /\ s.links[l].car = car THEN l ELSE FirstOf(s, same)

FindAdpLinkForKey(s, key) == FindOfTransport(s, key, FALSE)

FindNestedLinkForKey(s, key) == FindOfTransport(s, key, TRUE)

PeerIdForKey(s, key) ==
    LET l == FindByDialKey(s, key)
    IN  CASE l # NoLink /\ s.links[l].peer # NoPeer -> s.links[l].peer
          [] (l = NoLink \/ s.links[l].peer = NoPeer) /\ key \in DOMAIN s.eps -> s.eps[key].peer
          [] OTHER -> PeerNamed(key)

ResolveConnectedLink(s, key) ==
    LET l   == FindByDialKey(s, key)
        to  == ConnectedTo(s, PeerIdForKey(s, key))
        adp == {id \in to : ~s.links[id].car}
    IN  CASE l # NoLink /\ Connected(s, l) -> l
          [] (l = NoLink \/ ~Connected(s, l)) /\ adp # {} -> FirstOf(s, adp)
          [] OTHER -> FirstOf(s, to)

\* A link whose connection is closed holds no slot.
AtLinkCapacity(s) ==
    Cardinality({id \in DOMAIN s.links : s.links[id].car \/ s.links[id].conn # "closed"})
        >= MaxLinks

-----------------------------------------------------------------------------
(* Dropping links.                                                         *)

\* Mutant: a dropped nested link's waiters are not failed.
DropLinksUnheard(s, ids) == [EraseById(s, ids) EXCEPT !.verify = @ \ ids]

\* DropLinkNow for each of these links: nested links on its mux lose their
\* carrier without being told, nested and verify waiters are answered. The
\* link's own establish callback is not called.
DropLinks(s, ids) ==
    LET gone == ids \cap DOMAIN s.links
        orphan(l) == IF l.via \in gone THEN [l EXCEPT !.conn = "closed"] ELSE l
    IN  [EraseById(s, gone) EXCEPT
            !.links = [id \in DOMAIN @ |-> orphan(@[id])],
            !.nestw = @ \ gone,
            !.verify = @ \ gone]

ScheduleDropLink(s, id) == [s EXCEPT !.pend = @ \cup {id}]

ScheduleDropByKey(s, key) ==
    LET id == FindByDialKey(s, key)
    IN  IF id = NoLink THEN s ELSE ScheduleDropLink(s, id)

\* A link of another key that is not Connected gives way; a Connected one
\* keeps the key.
BindDialAlias(s, id, key) ==
    LET other == FindByDialKey(s, key)
        taken == other \notin {NoLink, id}
    IN  CASE id \notin DOMAIN s.links \/ s.links[id].key = key -> s
          [] id \in DOMAIN s.links /\ s.links[id].key # key /\ taken /\ Connected(s, other) -> s
          [] OTHER -> BindDialKey(DropLinks(s, IF taken THEN {other} ELSE {}), id, key)

-----------------------------------------------------------------------------
(* Completions of a handshake.                                             *)

\* The waiters of a key are answered.
Answer(s, key) == [s EXCEPT !.inflight = @ \ {key}]

RefreshPresence(s, id) ==
    IF id \in DOMAIN s.links /\ Connected(s, id) THEN SetPresence(s, id) ELSE s

\* Mutant: the next candidate is chosen but its dial is never queued.
FinishDialNoRetry(s, key, id, ok, aborted) ==
    LET f == ForgetResolution(DecConcurrentDials(s), key)
    IN  IF ok \/ aborted \/ ~CanAdvance(f, key) THEN Answer(ScheduleDropLink(f, id), key)
        ELSE ScheduleDropLink(AdvanceDialCandidate(f, key), id)

\* A dial is over. A failed one goes on with the next candidate after the
\* drop, on Tick, unless it was aborted (suppress_backoff) or was the last.
FinishDial(s, key, id, ok, aborted) ==
    LET d == DecConcurrentDials(s)
        f == ForgetResolution(d, key)
        b == IF aborted THEN f ELSE ArmBackoff(f, key)
    IN  CASE ok ->
               Answer(RefreshPresence(PromoteDialWinner(ClearBackoff(d, {key}), key), id), key)
          [] ~ok /\ ~aborted /\ CanAdvance(f, key) ->
               [ScheduleDropLink(AdvanceDialCandidate(f, key), id) EXCEPT
                    !.retry = Append(@, key)]
          [] OTHER -> Answer(ScheduleDropLink(ResetDialIndex(b, key), id), key)

\* A nested link takes its peer's id as key when no ADP link is Connected to
\* the peer and the key is free.
FinishNestedCarrier(s, id, ok) ==
    LET p    == s.links[id].peer
        adp  == {o \in ConnectedTo(s, p) \ {id} : ~s.links[o].car}
        bind == ok /\ p # NoPeer /\ adp = {} /\ PeerKey(p) \notin DOMAIN s.index
        t    == IF bind THEN BindDialAlias(s, id, PeerKey(p)) ELSE s
        u    == [t EXCEPT !.nestw = @ \ {id}]
    IN  IF ok THEN u ELSE ScheduleDropLink(u, id)

\* Mutant: the callback is not cleared once it has run.
EstablishCbKept(s, id, ok, aborted) ==
    LET l == s.links[id]
    IN  CASE ~l.cb -> s
          [] l.cb /\ l.car -> FinishNestedCarrier(s, id, ok)
          [] l.cb /\ ~l.car /\ l.out -> FinishDial(s, l.key, id, ok, aborted)
          [] OTHER -> IF ok THEN s ELSE ScheduleDropLink(s, id)

\* The establish callback each kind of link was started with.
EstablishCb(s, id, ok, aborted) ==
    LET l == s.links[id]
        t == [s EXCEPT !.links[id].cb = FALSE]
    IN  CASE ~l.cb -> s
          [] l.cb /\ l.car -> FinishNestedCarrier(t, id, ok)
          [] l.cb /\ ~l.car /\ l.out -> FinishDial(t, l.key, id, ok, aborted)
          [] OTHER -> IF ok THEN t ELSE ScheduleDropLink(t, id)

FailAssociation(s, id, aborted) ==
    EstablishCb([s EXCEPT !.links[id].phase = "Backoff"], id, FALSE, aborted)

\* An accepted link takes a free alias registered for its peer.
AdoptAlias(s, id) ==
    LET l     == s.links[id]
        free  == {k \in DOMAIN s.eps : s.eps[k].peer = l.peer /\ k \notin DOMAIN s.index}
        first == IF s.asc THEN Alias ELSE PeerKey(l.peer)
    IN  IF l.out \/ free = {} THEN s
        ELSE BindDialAlias(s, id, IF first \in free THEN first ELSE CHOOSE k \in free : TRUE)

\* Mutant: the loser is demoted, but its drop is never scheduled.
DemoteLoserOnly(s, id) == [s EXCEPT !.links[id].phase = "Backoff"]

\* Mutant: the loser stays Connected until Tick drops it.
DemoteLoserLater(s, id) == ScheduleDropByKey(s, s.links[id].key)

\* The existing link loses: demoted at once, dropped on Tick through its key.
DemoteLoser(s, id) ==
    ScheduleDropByKey([s EXCEPT !.links[id].phase = "Backoff"], s.links[id].key)

\* An ADP link's handler of channel 0 keeps the key the link has now.
StartCapabilityExchange(s, id) ==
    IF s.links[id].car THEN s ELSE [s EXCEPT !.links[id].ch0 = s.links[id].key]

\* OnLinkEstablished for a link whose handshake ended with peer p, with the
\* first other Connected link to p that ForEach meets.
OnLinkEstablished(s, id, p) ==
    LET t     == [s EXCEPT !.links[id].phase = "Connected", !.links[id].peer = p,
                           !.links[id].cap = "none"]
        l     == t.links[id]
        other == FirstOf(s, ConnectedTo(s, p) \ {id})
        alone == other = NoLink
        both  == ~alone /\ s.links[other].car # l.car
        wins  == ~alone /\ ~both /\ CandidateWins(s.links[other], l, s.local)
        up(u) == EstablishCb(StartCapabilityExchange(RefreshPresence(u, id), id), id, TRUE, FALSE)
        lost  == [ScheduleDropLink([t EXCEPT !.links[id].phase = "Backoff"], id)
                    EXCEPT !.adopt = IF l.out THEN Append(@, <<p, l.key>>) ELSE @]
    IN  CASE alone -> up(AdoptAlias(t, id))
          [] both  -> up(t)
          [] wins  -> up(AdoptAlias(DemoteLoser(t, other), id))
          [] OTHER -> EstablishCb(lost, id, TRUE, FALSE)

\* FinishEstablishment: a dial that authenticates as another peer fails.
FinishEstablishment(s, id, p) ==
    LET l == s.links[id]
    IN  IF l.out /\ ~l.car /\ l.peer \notin {NoPeer, p}
        THEN FailAssociation([s EXCEPT !.links[id].peer = p], id, FALSE)
        ELSE OnLinkEstablished(s, id, p)

-----------------------------------------------------------------------------
(* Dialing.                                                                *)

\* What becomes of the first message of a dial. (A node without a resolver
\* fails a host name in the call itself; here that is a resolution that fails.)
Outcomes == {"sent", "noopen", "unsent"}

BeginOutboundDial(s, key, outcome) ==
    LET occupant == FindByDialKey(s, key)
        isUp     == occupant # NoLink /\ Connected(s, occupant)
        refused  == \/ key \notin DOMAIN s.eps
                    \/ s.dials >= MaxDials
                    \/ AtLinkCapacity(s)
        dialed   == IncConcurrentDials(
                      Insert([s EXCEPT !.next = @ + 1], s.next,
                             NewLink(key, s.eps[key].peer, TRUE, FALSE, NoLink)))
    IN  CASE isUp -> Answer(ResetDialIndex(s, key), key)
          [] ~isUp /\ refused -> Answer(s, key)
          [] ~isUp /\ ~refused /\ NeedsResolution(s, key) ->
               [s EXCEPT !.resolving = @ \cup {key}]
          [] OTHER ->
               CASE outcome = "sent" -> dialed
                 [] outcome = "noopen" -> Answer(s, key)
                 [] outcome = "unsent" -> FailAssociation(dialed, s.next, FALSE)

\* The active candidate's name did not resolve.
FailCandidate(s, key, outcome) ==
    IF CanAdvance(s, key)
    THEN BeginOutboundDial(AdvanceDialCandidate(s, key), key, outcome)
    ELSE Answer(ArmBackoff(ResetDialIndex(s, key), key), key)

OnHostResolved(s, key, ok, outcome) ==
    LET t == [IF ok THEN SetResolution(s) ELSE s EXCEPT !.resolving = @ \ {key}]
    IN  CASE key \notin DOMAIN t.eps \/ key \notin t.inflight -> t
          [] key \in DOMAIN t.eps /\ key \in t.inflight /\ ~ok /\ Active(t, key) = HostName ->
               FailCandidate(t, key, outcome)
          [] OTHER -> BeginOutboundDial(t, key, outcome)

EnsureAssociation(s, key, over, outcome) ==
    LET known   == key \in DOMAIN s.eps
        own     == FindByDialKey(s, key)
        byPeer  == IF known THEN FindByPeerId(s, s.eps[key].peer) ELSE NoLink
        isUp    == own # NoLink /\ Connected(s, own)
        peerUp  == byPeer # NoLink /\ ~s.links[byPeer].car
        adp     == FindAdpLinkForKey(s, key)
        dialing == adp # NoLink /\ s.links[adp].phase = "Handshaking"
        clear   == IF adp # NoLink /\ ~Connected(s, adp) THEN DropLinks(s, {adp}) ELSE s
        refused == \/ ~known
                   \/ key \in s.backoff /\ ~over
                   \/ clear.dials >= MaxDials
                   \/ AtLinkCapacity(clear)
        join(t) == [t EXCEPT !.inflight = @ \cup {key}]
        erased  == IF over THEN ClearBackoff(clear, {key}) ELSE clear
    IN  CASE isUp -> s
          [] ~isUp /\ peerUp -> BindDialAlias(s, byPeer, key)
          [] ~isUp /\ ~peerUp /\ (key \in s.resolving \/ dialing) -> join(s)
          [] ~isUp /\ ~peerUp /\ key \notin s.resolving /\ ~dialing /\ refused ->
               IF known THEN erased ELSE clear
          [] OTHER -> BeginOutboundDial(join(ResetDialIndex(erased, key)), key, outcome)

\* Mutant: an abort also drops a dial that has just succeeded.
DropAborted(s, id) == ScheduleDropLink(s, id)

\* An abort drops what is left of a dial, never a Connected link.
DropStale(s, id) == IF Connected(s, id) THEN s ELSE ScheduleDropLink(s, id)

\* std::remove: a queue without the places where it holds x.
Without(q, x) ==
    LET kept[n \in 0..Len(q)] ==
            IF n = 0 THEN <<>>
            ELSE IF q[n] = x THEN kept[n - 1] ELSE Append(kept[n - 1], q[n])
    IN  kept[Len(q)]

AbortInflightDial(s, key) ==
    LET t == [Answer(ClearBackoff(s, {key}), key) EXCEPT !.retry = Without(@, key)]
        l == FindAdpLinkForKey(t, key)
    IN  CASE l = NoLink -> t
          [] l # NoLink /\ t.links[l].phase = "Handshaking" /\ t.links[l].out ->
               FailAssociation(t, l, TRUE)
          [] OTHER -> DropStale(t, l)

-----------------------------------------------------------------------------
(* Accepting, nesting, and the other calls of the product.                 *)

\* The inbound links a full table may evict: none that carries a nested
\* link. Which of them have been idle long enough, have no other channel
\* open and are not kept warm is left open.
IdleInbound(s) ==
    LET carries(id) == \E n \in DOMAIN s.links : s.links[n].via = id /\ s.links[n].conn = "up"
    IN  {id \in DOMAIN s.links : /\ ~s.links[id].out /\ ~s.links[id].car
                                 /\ Connected(s, id) /\ ~carries(id)
                                 /\ s.links[id].conn # "closed"}

\* A new connection, with the idle link that makes room for it (or NoLink).
OnInboundConnection(s, idle) ==
    LET full    == AtLinkCapacity(s)
        t       == IF full /\ idle # NoLink
                   THEN ScheduleDropLink([s EXCEPT !.links[idle].conn = "closed"], idle)
                   ELSE s
        pending == {id \in DOMAIN t.links : ~t.links[id].out /\ t.links[id].phase = "Handshaking"}
        link    == NewLink(<<"inbound", t.next>>, NoPeer, FALSE, FALSE, NoLink)
    IN  CASE full /\ idle = NoLink -> s
          [] ~(full /\ idle = NoLink) /\ Cardinality(pending) >= MaxPendingInbound -> t
          [] OTHER -> Insert([t EXCEPT !.next = @ + 1], t.next, link)

\* A nested link over a channel of the link via; unsent when its first
\* message cannot be handed to the carrier.
EstablishNestedOverCarrier(s, key, initiator, via, unsent) ==
    LET l       == FindNestedLinkForKey(s, key)
        joins   == l # NoLink /\ s.links[l].phase = "Handshaking"
        done    == l # NoLink /\ Connected(s, l)
        link    == NewLink(key, PeerNamed(key), initiator, TRUE, via)
        started == Insert([s EXCEPT !.next = @ + 1, !.nestw = @ \cup {s.next}], s.next, link)
    IN  CASE joins -> [s EXCEPT !.nestw = @ \cup {l}]
          [] done \/ (~joins /\ AtLinkCapacity(s)) -> s
          [] OTHER -> IF initiator /\ unsent THEN FailAssociation(started, s.next, FALSE)
                      ELSE started

\* The links a key stands for, by key and by peer id; each is dropped
\* through its own key.
RequestDropLink(s, key) ==
    LET ids  == {FindLink(s, key), FindByPeerId(s, PeerNamed(key))} \ {NoLink}
        keys == {s.links[id].key : id \in {i \in ids : ~s.links[i].car}}
    IN  [s EXCEPT !.pend = @ \cup ({FindByDialKey(s, k) : k \in keys} \ {NoLink})]

CloseAllLinks(s) == DropLinks([s EXCEPT !.pend = {}], DOMAIN s.links)

\* Every Connected ADP link is probed, and suspect until it answers.
OnNetworkChanged(s) ==
    LET probe(l) == IF l.phase = "Connected" /\ ~l.car THEN [l EXCEPT !.sus = "asked"] ELSE l
    IN  [s EXCEPT !.backoff = {}, !.links = [id \in DOMAIN @ |-> probe(@[id])]]

VerifyLink(s, key) ==
    LET l == ResolveConnectedLink(s, key)
    IN  IF l = NoLink \/ s.links[l].car THEN s
        ELSE [s EXCEPT !.verify = @ \cup {l},
                       !.links[l].sus = IF @ = "no" THEN "asked" ELSE @]

-----------------------------------------------------------------------------
(* Tick.                                                                   *)

\* A set of links in ForEach's order: there is one such sequence.
Orders(s, ids) ==
    {q \in SetToSeqs(ids) :
        \A i, j \in DOMAIN q : i < j => (IF s.asc THEN q[i] < q[j] ELSE q[i] > q[j])}

TickDrops(s) == DropLinks([s EXCEPT !.pend = {}], s.pend)

TickRetries(s, outcome) ==
    LET dial(t, key) == IF key \in t.inflight THEN BeginOutboundDial(t, key, outcome) ELSE t
        after[n \in 0..Len(s.retry)] ==
            IF n = 0 THEN [s EXCEPT !.retry = <<>>] ELSE dial(after[n - 1], s.retry[n])
    IN  after[Len(s.retry)]

TickAdopts(s) ==
    LET bind(t, a) == BindDialAlias(t, FirstOf(t, ConnectedTo(t, a[1])), a[2])
        after[n \in 0..Len(s.adopt)] ==
            IF n = 0 THEN [s EXCEPT !.adopt = <<>>] ELSE bind(after[n - 1], s.adopt[n])
    IN  after[Len(s.adopt)]

InHandshake(s) == {id \in DOMAIN s.links : s.links[id].phase = "Handshaking"}

\* The dials whose connection the peer closed, or whose version it refused.
Refused(s, why) ==
    {id \in InHandshake(s) : s.links[id].out /\ ~s.links[id].car /\ s.links[id].conn = why}

\* These handshakes fail, one after the other.
TickHandshakes(s, ids) ==
    LET after[n \in 0..Len(ids)] ==
            IF n = 0 THEN s ELSE FailAssociation(after[n - 1], ids[n], FALSE)
    IN  after[Len(ids)]

TickEvicts(s) ==
    LET nested(l)  == \/ l.conn = "closed" /\ l.phase # "Handshaking"
                      \/ l.conn = "dead" /\ l.phase = "Connected"
        asked(l)   == ~l.car /\ l.phase = "Connected" /\ l.conn # "closed"
        adp(l)     == \/ asked(l) /\ l.sus = "silent"
                      \/ l.phase = "Connected" /\ l.conn \in {"closed", "dead"}
                      \/ l.conn = "unreach"
        heard == {id \in DOMAIN s.links : asked(s.links[id]) /\ s.links[id].sus = "heard"}
        evict == {id \in DOMAIN s.links :
                    IF s.links[id].car THEN nested(s.links[id]) ELSE adp(s.links[id])}
    IN  DropLinks([s EXCEPT !.links = [id \in DOMAIN @ |->
                                IF id \in heard THEN [@[id] EXCEPT !.sus = "no"] ELSE @[id]],
                            !.verify = @ \ heard], evict)

-----------------------------------------------------------------------------
(* The node.                                                               *)

\* The calls each kind of use makes: dials of one peer under two keys while
\* it dials us; one key whose candidates start with a host name; nested
\* links beside dials of the same peer; probes of a link.
Offers(c) ==
    CASE c = "dial"   -> {"Ensure", "Abort", "Inbound", "RequestDrop", "Capability",
                         "Verify"}
      [] c = "names"  -> {"Ensure", "Abort", "Register", "Unregister", "Capability"}
      [] c = "nested" -> {"Ensure", "Nest", "Inbound", "InboundCarrier", "Verify"}
      [] c = "probe"  -> {"Verify", "NetworkChanged", "Inbound", "CloseAll"}

Keys(c) == {Alias} \cup (IF c \in {"dial", "nested"} THEN {PeerKey(Far)} ELSE {})

Candidates(c) ==
    CASE c = "names"  -> {<<HostName, "ip">>, <<"ip", HostName>>}
      [] c = "nested" -> {<<"ip">>}
      [] OTHER        -> {<<"ip">>, <<"ip", "ip2">>}

\* An empty manager, but for a relay link (nested) or a link to probe.
Empty(local, c, cands) ==
    [links |-> <<>>, index |-> <<>>, pres |-> <<>>, asc |-> TRUE,
     eps |-> [k \in Keys(c) |-> [peer |-> Far, cands |-> cands, index |-> 1]],
     backoff |-> {}, resolved |-> {}, dials |-> 0,
     pend |-> {}, retry |-> <<>>, adopt |-> <<>>, inflight |-> {},
     nestw |-> {}, resolving |-> {}, verify |-> {}, next |-> 1, local |-> local]

\* A connection is accepted, if there is room, and its handshake ends.
Accepted(s, p) ==
    LET t == OnInboundConnection(s, NoLink)
    IN  IF s.next \in DOMAIN t.links THEN FinishEstablishment(t, s.next, p) ELSE t

Init ==
    /\ class \in Classes
    /\ \E local \in Locals, cands \in Candidates(class) :
         LET s == Empty(local, class, cands)
         IN  m = CASE class = "nested" -> Accepted(s, Relay)
                   [] class = "probe"  -> Accepted(s, Far)
                   [] OTHER -> s
    /\ calls = 0
    /\ faults = 0

\* Every step walks the table in one order or the other.
Walks == {[m EXCEPT !.asc = asc] :
            asc \in IF Cardinality(DOMAIN m.links) > 1 THEN BOOLEAN ELSE {TRUE}}
Leaves(s) == m' = [s EXCEPT !.asc = TRUE]

Call(name) ==
    /\ name \in Offers(class)
    /\ calls + faults < MaxEvents
    /\ calls' = calls + 1
    /\ UNCHANGED <<class, faults>>

CallEnsure ==
    /\ Call("Ensure")
    /\ \E s \in Walks, k \in Keys(class), o \in Outcomes, over \in BOOLEAN :
          Leaves(EnsureAssociation(s, k, over, o))
CallAbort == Call("Abort") /\ \E s \in Walks, k \in Keys(class) : Leaves(AbortInflightDial(s, k))
CallRegister == Call("Register") /\ \E k \in Keys(class), c \in Candidates(class) :
                                    \/ Leaves(RegisterEndpoints(m, k, Far, c))
                                    \/ Leaves(RegisterEndpoint(m, k, Far, c[1]))
CallUnregister == Call("Unregister") /\ \E k \in Keys(class) : Leaves(UnregisterEndpoint(m, k))
CallRequestDrop == Call("RequestDrop") /\ \E s \in Walks, k \in Keys(class) :
                                    Leaves(RequestDropLink(s, k))
\* The links whose channels may carry nested links.
Relays == {id \in ConnectedTo(m, Relay) : m.links[id].conn = "up"}

CallNest ==
    /\ Call("Nest")
    /\ \E s \in Walks, via \in Relays, initiator, unsent \in BOOLEAN :
          Leaves(EstablishNestedOverCarrier(s, PeerKey(Far), initiator, via, unsent))
CallVerify == Call("Verify") /\ \E s \in Walks, k \in Keys(class) : Leaves(VerifyLink(s, k))
CallNetworkChanged == Call("NetworkChanged") /\ Leaves(OnNetworkChanged(m))
CallCloseAll == Call("CloseAll") /\ Leaves(CloseAllLinks(m))

Arrives ==
    /\ Call("Inbound")
    /\ \E idle \in IdleInbound(m) \cup {NoLink} : Leaves(OnInboundConnection(m, idle))

\* A channel of the relay's link is opened to nest in: HandleInboundCarrierChannel.
CarrierArrives ==
    /\ Call("InboundCarrier")
    /\ \E s \in Walks, via \in Relays :
          Leaves(EstablishNestedOverCarrier(s, <<"carrier", m.next>>, FALSE, via, FALSE))

\* The first capability message on channel 0 of a link: the link meant is the
\* one its handler's key finds now, and its peer's addresses are taken in.
CapabilityArrives ==
    /\ Call("Capability")
    /\ \E s \in Walks, id \in DOMAIN m.links :
         /\ Connected(m, id) /\ m.links[id].conn = "up" /\ m.links[id].ch0 # NoKey
         /\ LET on   == FindLink(s, m.links[id].ch0)
                l    == m.links[on]
                t    == [s EXCEPT !.links[on].cap = "known"]
            IN  /\ on # NoLink /\ l.cap = "none"
                /\ \E k \in IngestTargets(s, l.peer, PeerKey(l.peer)), a \in {"ip", "ip2"} :
                      Leaves(IngestRemoteAddrs(t, k, l.peer, a))

Env == UNCHANGED <<class, calls, faults>>

\* A handshake ends, with the peer dialed or with another one, or fails.
HandshakeEnds ==
    /\ Env
    /\ \E s \in Walks, id \in InHandshake(m) :
         /\ m.links[id].conn \in {"up", "unreach"}
         /\ \/ \E p \in {Far} \cup (IF m.links[id].out THEN {Relay} ELSE {}) : Leaves(FinishEstablishment(s, id, p))
            \/ Leaves(FailAssociation(s, id, FALSE))

Resolves ==
    /\ Env
    /\ \E s \in Walks, k \in m.resolving, ok \in BOOLEAN, o \in Outcomes :
          Leaves(OnHostResolved(s, k, ok, o))

Expires == Env /\ m.resolved # {} /\ m' = [m EXCEPT !.resolved = {}]

\* A probed link is heard from, or its grace period ends first.
ProbeEnds ==
    /\ Env
    /\ \E id \in DOMAIN m.links :
         \/ /\ m.links[id].sus \in {"asked", "silent"}
            /\ m' = [m EXCEPT !.links[id].sus = "heard"]
         \/ m.links[id].sus = "asked" /\ m' = [m EXCEPT !.links[id].sus = "silent"]

Fault ==
    /\ faults < MaxFaults /\ calls + faults < MaxEvents
    /\ faults' = faults + 1
    /\ UNCHANGED <<class, calls>>

ConnectionFails ==
    /\ Fault
    /\ \E id \in DOMAIN m.links, c \in {"closed", "dead", "unreach", "version"} :
         /\ m.links[id].conn = "up" /\ ~m.links[id].car
         /\ c = "dead" => Connected(m, id)
         /\ c = "version" => m.links[id].out /\ id \in InHandshake(m)
         /\ m' = [m EXCEPT !.links[id].conn = c]

\* The carrier closes (its closed callback), or the lane gives up on it.
CarrierFails ==
    /\ Fault
    /\ \E s \in Walks, id \in DOMAIN m.links :
         /\ m.links[id].conn = "up" /\ m.links[id].car
         /\ LET t == [s EXCEPT !.links[id].conn = "closed"]
            IN \/ Connected(m, id) /\ Leaves([t EXCEPT !.links[id].phase = "Backoff"])
               \/ ~Connected(m, id) /\ Leaves(FailAssociation(t, id, FALSE))
               \/ Connected(m, id) /\ Leaves([s EXCEPT !.links[id].conn = "dead"])

\* Tick, stage by stage; o is what becomes of a queued dial. Closed dials fail
\* first, then refused ones, then the handshakes whose time was up before.
Tick ==
    /\ Env
    /\ \E s \in Walks, o \in IF m.retry = <<>> THEN {"sent"} ELSE Outcomes :
       \E a \in {TickDrops(s)} :
       \E b \in {TickRetries(a, o)} :
       \E c \in {TickAdopts(b)} :
       \E late \in SUBSET InHandshake(c) :
       \E q \in Orders(c, Refused(c, "closed")), v \in Orders(c, Refused(c, "version")),
          l \in Orders(c, late) :
       \E d \in {TickHandshakes(c, q \o v \o l)} : Leaves(TickEvicts(d))

Next ==
    \/ CallEnsure \/ CallAbort \/ CallRegister \/ CallUnregister \/ CallRequestDrop
    \/ CallNest \/ CallVerify \/ CallNetworkChanged \/ CallCloseAll
    \/ Arrives \/ CarrierArrives \/ CapabilityArrives
    \/ HandshakeEnds \/ Resolves \/ Expires \/ ProbeEnds
    \/ ConnectionFails \/ CarrierFails
    \/ Tick

Spec == Init /\ [][Next]_vars

-----------------------------------------------------------------------------
(* Properties.                                                             *)

\* The manager's state is of the shape the code's containers give it.
TypeOK ==
    /\ DOMAIN m.links \subseteq 1..(m.next - 1)
    /\ \A id \in DOMAIN m.links :
         /\ m.links[id].phase \in {"Handshaking", "Connected", "Backoff"}
         /\ m.links[id].conn \in {"up", "closed", "dead", "unreach", "version"}
         /\ m.links[id].sus \in {"no", "asked", "heard", "silent"}
    /\ m.pend \subseteq 1..(m.next - 1)
    /\ m.dials \in 0..MaxDials
    /\ m.inflight \cup m.resolving \subseteq Keys(class)
    /\ \A k \in DOMAIN m.eps : m.eps[k].index \in 1..Len(m.eps[k].cands)

\* A dial key in the index names a live link that goes by that key, and a
\* peer's presence names a live link to that peer over that transport: a
\* displaced, demoted or dropped link leaves no name behind (EraseById,
\* BindDialKey, the A024 sharing of keys).
NamesAreLive ==
    /\ \A k \in DOMAIN m.index :
         m.index[k] \in DOMAIN m.links /\ m.links[m.index[k]].key = k
    /\ \A p \in DOMAIN m.pres :
         /\ m.pres[p] \in DOMAIN m.links
         /\ p = <<m.links[m.pres[p]].peer, Transport(m.links[m.pres[p]])>>

ConnectedAdp(p) == {id \in ConnectedTo(m, p) : ~m.links[id].car}

\* Where no nested link mixes in, at most one ADP session to a peer is
\* Connected, however dials, accepts and retries meet (the dual-dial rule
\* of AdoptInboundOrDropDuplicate), and the peer's presence names it, so
\* IsConnectedToPeerId and EnsureAssociation find it.
OneSessionPerPeer ==
    class # "nested" => \A p \in {Far, Relay} :
        /\ Cardinality(ConnectedAdp(p)) <= 1
        /\ \A id \in ConnectedAdp(p) : Presence(m, p, "adp") = id

\* The dials that are not over: their callback has not been called.
DialsOf(s) == {id \in DOMAIN s.links : s.links[id].out /\ ~s.links[id].car /\ s.links[id].cb}
Dials == DialsOf(m)

\* Dials that were counted and lost their link before FinishDial.
LostDials == m.dials - Cardinality(Dials)

\* No more dials run than the counter knows of, so the limit on concurrent
\* dials holds: no dial is counted down twice (FinishDial once per dial,
\* whether it is aborted, refused, late or displaced).
DialsAreCounted == LostDials >= 0

\* A dial for the key is on its way: being resolved, in its handshake, or
\* queued for its next candidate.
UnderWay(key) ==
    \/ key \in m.resolving
    \/ \E id \in Dials : m.links[id].key = key
    \/ Contains(m.retry, key)

\* A caller waiting in EnsureAssociation is waiting for something: it is
\* only left behind when a link was dropped in its handshake (an unreachable
\* peer, a displaced key, CloseAllLinks) or its endpoint is unregistered.
WaitersFollowTheDial ==
    [][\A k \in m.inflight \cap m'.inflight :
          (UnderWay(k) /\ ~UnderWay(k)') => LostDials' > LostDials \/ k \notin DOMAIN m.eps]_vars

Healthy(id) ==
    LET l == m.links[id]
    IN  /\ l.phase = "Connected" /\ ~l.car /\ l.conn = "up"
        /\ l.sus # "silent"
        /\ class # "nested" /\ (class = "dial" => id \notin m.pend)

\* A healthy session is not lost by housekeeping, aborts or elections: a
\* Connected ADP link that is up, has not failed a probe and whose drop no
\* caller requested stays, or another ADP session to its peer has taken its
\* place; only CloseAllLinks ends it. (Beside nested links the election's
\* drop by key breaks this. In the class "dial", where drops are requested,
\* every link in pend is excused, so that a drop deferred for a link that has
\* come up since is only caught in the classes "names" and "probe".)
HealthySessionStays ==
    [][\A p \in {Far, Relay} :
          (\E id \in DOMAIN m.links : Healthy(id) /\ m.links[id].peer = p)
             => ConnectedAdp(p)' # {} \/ DOMAIN m'.links = {}]_vars

\* Whoever waits for a nested handshake waits on a link still in it: Tick's
\* timeouts and drops reach it, even when the carrier died without a word
\* (OrphanFromMux).
NoWaiterForgotten ==
    \A id \in m.nestw : /\ id \in DOMAIN m.links
                        /\ m.links[id].car /\ m.links[id].cb
                        /\ m.links[id].phase = "Handshaking"

\* An election has been lost by a link whose key names another link by then.
\* The drop of the loser goes through its key and misses it: it stays, in
\* Backoff, and Tick neither judges nor evicts it.
Missed(id) == m.links[id].phase = "Backoff" /\ FindByDialKey(m, m.links[id].key) # id

\* Whoever asked to verify a link waits on one that is being probed or is
\* about to be dropped, so that a verdict or a drop answers it ("goes for any
\* other reason", PeerLinkManager.h), whatever dials, accepts, elections and
\* nested links of the same peer come between; but for the losers an election
\* has missed, whose waiters are not told.
VerdictsAreDue ==
    \A id \in m.verify :
        /\ id \in DOMAIN m.links
        /\ \/ Connected(m, id) /\ m.links[id].sus # "no"
           \/ id \in m.pend
           \/ Missed(id)

\* PeerLinkManager.h: EnsureAssociation waiters are completed by the ADP
\* dial under their key, so while there are waiters there is a dial.
WaiterHasDial == \A k \in m.inflight : UnderWay(k)

-----------------------------------------------------------------------------
(* The inductive invariants: TableInv carries NamesAreLive, with it IndInv *)
(* carries DialsAreCounted and OneSessionPerPeer. Of the rest of the state *)
(* they say no more than which fields there are.                           *)

IsSeq(q) == q \in Seq(ToSet(q))

LinkShape(l) ==
    l \in [key : {l.key}, peer : {l.peer}, out : {l.out}, car : {l.car}, via : {l.via},
           phase : {l.phase}, cb : {l.cb}, conn : {l.conn}, sus : {l.sus}, ch0 : {l.ch0},
           cap : {l.cap}]

Shape(s) ==
    s \in [links : {s.links}, index : {s.index}, pres : {s.pres}, asc : {s.asc},
           eps : {s.eps}, backoff : {s.backoff}, resolved : {s.resolved}, dials : {s.dials},
           pend : {s.pend}, retry : {s.retry}, adopt : {s.adopt}, inflight : {s.inflight},
           nestw : {s.nestw}, resolving : {s.resolving}, verify : {s.verify},
           next : {s.next}, local : {s.local}]

\* An id is given once: the next one is beyond all that live.
LinksInv(s) ==
    /\ s.next \in Nat \ {0}
    /\ DOMAIN s.links \subseteq 1..(s.next - 1)
    /\ \A id \in DOMAIN s.links : LinkShape(s.links[id])

IndexInv(s) ==
    \A k \in DOMAIN s.index : s.index[k] \in DOMAIN s.links /\ s.links[s.index[k]].key = k

\* A peer's presence is noted when the handshake has ended and the peer is known
\* for good: FinishEstablishment may still change the peer of a dial.
PresInv(s) ==
    \A p \in DOMAIN s.pres :
        /\ s.pres[p] \in DOMAIN s.links
        /\ p = <<s.links[s.pres[p]].peer, Transport(s.links[s.pres[p]])>>
        /\ s.links[s.pres[p]].phase # "Handshaking"

Good(s) ==
    /\ Shape(s)
    /\ IsSeq(s.retry) /\ IsSeq(s.adopt)
    /\ LinksInv(s)
    /\ IndexInv(s)
    /\ PresInv(s)

TableInv == Good(m)

\* Every dial that is not over is counted.
Counted(s) == s.dials \in Nat /\ Cardinality(DialsOf(s)) <= s.dials

\* Where nothing is nested, a peer's presence names each Connected link to it, so
\* that there is one at most.
Held(s) ==
    \A id \in DOMAIN s.links :
        /\ s.links[id].car = FALSE
        /\ s.links[id].phase = "Connected" =>
              /\ <<s.links[id].peer, "adp">> \in DOMAIN s.pres
              /\ s.pres[<<s.links[id].peer, "adp">>] = id

Sound(s, nested) == Counted(s) /\ (nested \/ Held(s))

IndInv == TableInv /\ class \in Classes /\ Sound(m, class = "nested")

(* WaitInv carries NoWaiterForgotten, and VerdictsAreDue where links are   *)
(* only accepted: there no election misses its loser.                      *)

\* Whoever waits for a nested handshake waits on a link still in it, but for the links in X,
\* whose handshake is just ending; a link in its handshake has its callback.
Nesting(s, X) ==
    /\ \A id \in s.nestw \ X :
         /\ id \in DOMAIN s.links
         /\ s.links[id].car = TRUE /\ s.links[id].cb = TRUE /\ s.links[id].phase = "Handshaking"
    /\ \A id \in DOMAIN s.links : s.links[id].phase = "Handshaking" => s.links[id].cb = TRUE

Verified(s) ==
    \A id \in s.verify :
        /\ id \in DOMAIN s.links
        /\ \/ s.links[id].phase = "Connected" /\ s.links[id].sus # "no"
           \/ id \in s.pend

\* Where links are only accepted, each keeps its key, so that the drop of an election's loser through its
\* key reaches the loser; nothing is dialed, and a provisional key is not yet in use.
Keyed(s) ==
    /\ \A id \in DOMAIN s.links :
         /\ s.links[id].out = FALSE /\ s.links[id].car = FALSE
         /\ s.links[id].key \in DOMAIN s.index /\ s.index[s.links[id].key] = id
         /\ \A n \in Nat : n >= s.next => s.links[id].key # <<"inbound", n>>
    /\ \A k \in DOMAIN s.eps, n \in Nat : k # <<"inbound", n>>
    /\ s.retry = <<>> /\ s.adopt = <<>> /\ s.resolving = {}

WaitInv ==
    /\ Nesting(m, {})
    /\ class = "probe" => Verified(m) /\ Keyed(m)

(* StayInv carries HealthySessionStays.                                    *)

\* Nothing is nested, so the drop of a link takes no other link's connection away.
Direct(s) == \A id \in DOMAIN s.links : s.links[id].car = FALSE /\ s.links[id].via = NoLink

\* Where links are only dialed no election has a winner to demote the other for.
Dialed(s) == \A id \in DOMAIN s.links : s.links[id].out = TRUE

\* What is to be dropped is no session any more.
Spent(l) == l.phase \notin {"Handshaking", "Connected"} \/ l.conn = "closed"
Fading(s) ==
    \A id \in s.pend : id \in 1..(s.next - 1) /\ (id \in DOMAIN s.links => Spent(s.links[id]))

Staying(s, c) ==
    /\ Direct(s)
    /\ c = "names" => Dialed(s)
    /\ c \in {"names", "probe"} => Fading(s)

StayInv == class # "nested" => Staying(m, class)
=============================================================================
