------------------------------ MODULE LinkTable ------------------------------
(***************************************************************************)
(* The table of live links of one node (amp/link/LinkTable), as operators  *)
(* on a record t with the fields                                           *)
(*   t.links   by_id_: the live links by LinkId,                           *)
(*   t.index   by_dial_key_: the dial keys in use and the link each names, *)
(*   t.pres    by_peer_: for a peer and a transport, its link or NoLink,   *)
(*   t.asc     the order in which ForEach walks the unordered map, chosen  *)
(*             anew by every step: oldest link first or newest first.      *)
(* A LinkId is never given twice, so a LinkHandle (id and generation) is   *)
(* the id here: FindLive finds a handle's link exactly when the id is live.*)
(* Keys are pairs <<kind, number>>: a product's key, a peer's id used as   *)
(* a key, or the provisional key of an inbound or nested link.             *)
(***************************************************************************)
EXTENDS Integers, Functions, FiniteSetsExt, DualDialElector

NoLink == 0
NoKey == <<>>

\* A link as its constructor and StartHandshakeCommon leave it: the phase is
\* Handshaking, establish_cb_ is set (cb), its connection or carrier is up,
\* it has no mux, so no handler of channel 0 (ch0, the key it keeps), and
\* nothing is known of the peer's capabilities (cap).
NewLink(key, peer, out, car, via) ==
    [key |-> key, peer |-> peer, out |-> out, car |-> car, via |-> via,
     phase |-> "Handshaking", cb |-> TRUE, conn |-> "up", sus |-> "no",
     ch0 |-> NoKey, cap |-> "nomux"]

Transport(l) == IF l.car THEN "carrier" ELSE "adp"

Connected(t, id) == t.links[id].phase = "Connected"

\* The Connected links to a peer, all of them or of one transport.
ConnectedTo(t, peer) ==
    {id \in DOMAIN t.links : Connected(t, id) /\ t.links[id].peer = peer}

\* The first of these links (or numbers) that ForEach meets.
FirstOf(t, ids) ==
    CASE ids = {} -> NoLink
      [] ids # {} /\ t.asc -> Min(ids)
      [] OTHER -> Max(ids)

FindByDialKey(t, key) ==
    IF key \in DOMAIN t.index /\ t.index[key] \in DOMAIN t.links
    THEN t.index[key] ELSE NoLink

Presence(t, peer, transport) ==
    IF <<peer, transport>> \in DOMAIN t.pres
    THEN t.pres[<<peer, transport>>] ELSE NoLink

\* The link of one transport presence names, if it is Connected.
PickPresence(t, peer, transport) ==
    LET id == Presence(t, peer, transport)
    IN  IF id \in DOMAIN t.links /\ Connected(t, id) THEN id ELSE NoLink

\* ADP preferred, the carrier next, a scan last.
FindByPeerId(t, peer) ==
    LET adp == PickPresence(t, peer, "adp")
        car == PickPresence(t, peer, "carrier")
    IN  CASE peer = NoPeer -> NoLink
          [] peer # NoPeer /\ adp # NoLink -> adp
          [] peer # NoPeer /\ adp = NoLink /\ car # NoLink -> car
          [] OTHER -> FirstOf(t, ConnectedTo(t, peer))

\* A map whose entry for x is y from now on.
Assign(f, x, y) == [z \in DOMAIN f \cup {x} |-> IF z = x THEN y ELSE f[z]]

\* Insert takes the dial key from whatever link it named.
Insert(t, id, link) ==
    [t EXCEPT !.links = Assign(@, id, link), !.index = Assign(@, link.key, id)]

\* The keys and presences that do not go with the links ids: of a link its
\* own key goes and its peer's presence, each only if it still names the link.
KeysKept(t, ids) ==
    {k \in DOMAIN t.index :
        ~\E id \in ids \cap DOMAIN t.links : k = t.links[id].key /\ t.index[k] = id}
PresencesKept(t, ids) ==
    {p \in DOMAIN t.pres :
        ~\E id \in ids \cap DOMAIN t.links :
            p = <<t.links[id].peer, Transport(t.links[id])>> /\ t.pres[p] = id}

\* Mutant: the key goes with the link, the peer's presence stays.
EraseKeepsPresence(t, ids) ==
    [t EXCEPT !.links = Restrict(@, DOMAIN @ \ ids),
              !.index = Restrict(@, KeysKept(t, ids))]

\* EraseById for a set of links.
EraseById(t, ids) ==
    [t EXCEPT !.links = Restrict(@, DOMAIN @ \ ids),
              !.index = Restrict(@, KeysKept(t, ids)),
              !.pres  = Restrict(@, PresencesKept(t, ids))]

\* Rebinds a live link to another key unless that names another link.
BindDialKey(t, id, key) ==
    LET from == t.links[id].key
        kept == {k \in DOMAIN t.index : ~(k = from /\ t.index[k] = id)}
    IN  IF key \in DOMAIN t.index /\ t.index[key] # id THEN t
        ELSE [t EXCEPT !.links[id].key = key,
                       !.index = Assign(Restrict(@, kept), key, id)]

SetPresence(t, id) ==
    [t EXCEPT !.pres = Assign(@, <<t.links[id].peer, Transport(t.links[id])>>, id)]
=============================================================================
