------------------------ MODULE PeerLinkManagerProofs ------------------------
(***************************************************************************)
(* PeerLinkManager: the names in the table are live, dials are counted,    *)
(* one session to a peer is Connected, nobody waits on a handshake that is *)
(* gone, and a healthy session stays.                                      *)
(*                                                                         *)
(* The first part takes Good records to Good records, operation by         *)
(* operation: most of them leave the table alone (Elsewhere), or change a  *)
(* link in what no name says of it (LinkPutGood).                          *)
(*                                                                         *)
(* The second part does the same for Sound records. Most operations are    *)
(* Mild: they start no dial and bring no link up. FinishDial counts a dial *)
(* down only after its callback is cleared, so that no dial is counted     *)
(* down twice; a link that comes up has its peer's presence when the step  *)
(* ends.                                                                   *)
(*                                                                         *)
(* The third part is about who waits for a handshake. Most operations are  *)
(* Calm: no link enters or leaves its handshake and nobody new waits. A    *)
(* drop takes down what is nested in the link, and has to reach each of    *)
(* those through the carrier or the key it is known by: the drop by key    *)
(* does so where links are only accepted and probed (Probed), since there  *)
(* each link keeps its key.                                                *)
(*                                                                         *)
(* The fourth part follows the sessions. Most operations are Lasting: each *)
(* Connected link stays as it is. An election leaves an heir to the same   *)
(* peer (Heirs), and Tick drops and evicts no link that is fit.            *)
(*                                                                         *)
(* What a loop keeps is shown by the least number of rounds after which it *)
(* would not (Rounds).                                                     *)
(*                                                                         *)
(* The last part is about DualDial, which has both ends of the election    *)
(* that a manager calls.                                                   *)
(***************************************************************************)
EXTENDS PeerLinkManager, DualDial, WellFoundedInduction, FiniteSetTheorems, TLAPS

-----------------------------------------------------------------------------
(* Operations that leave the table alone.                                  *)

Elsewhere(s, u) ==
    /\ Shape(u)
    /\ u.links = s.links /\ u.index = s.index /\ u.pres = s.pres /\ u.next = s.next
    /\ u.retry = s.retry /\ u.adopt = s.adopt /\ u.dials = s.dials

LEMMA ElsewhereGood ==
    ASSUME NEW s, NEW u, Good(s), Elsewhere(s, u)
    PROVE  Good(u)
  BY DEF Good, Elsewhere, LinksInv, IndexInv, PresInv

LEMMA ElsewhereThen ==
    ASSUME NEW s, NEW t, NEW u, Elsewhere(s, t), Elsewhere(t, u)
    PROVE  Elsewhere(s, u)
  BY DEF Elsewhere

LEMMA Puts ==
    ASSUME NEW s, Shape(s), NEW x
    PROVE  /\ Elsewhere(s, s)
           /\ Elsewhere(s, [s EXCEPT !.asc = x])
           /\ Elsewhere(s, [s EXCEPT !.eps = x])
           /\ Elsewhere(s, [s EXCEPT !.backoff = x])
           /\ Elsewhere(s, [s EXCEPT !.resolved = x])
           /\ Elsewhere(s, [s EXCEPT !.pend = x])
           /\ Elsewhere(s, [s EXCEPT !.inflight = x])
           /\ Elsewhere(s, [s EXCEPT !.nestw = x])
           /\ Elsewhere(s, [s EXCEPT !.resolving = x])
           /\ Elsewhere(s, [s EXCEPT !.verify = x])
  <1>1. Elsewhere(s, s)
    BY DEF Elsewhere
  <1>2. Elsewhere(s, [s EXCEPT !.asc = x])
    BY DEF Elsewhere, Shape
  <1>3. Elsewhere(s, [s EXCEPT !.eps = x])
    BY DEF Elsewhere, Shape
  <1>4. Elsewhere(s, [s EXCEPT !.backoff = x])
    BY DEF Elsewhere, Shape
  <1>5. Elsewhere(s, [s EXCEPT !.resolved = x])
    BY DEF Elsewhere, Shape
  <1>6. Elsewhere(s, [s EXCEPT !.pend = x])
    BY DEF Elsewhere, Shape
  <1>7. Elsewhere(s, [s EXCEPT !.inflight = x])
    BY DEF Elsewhere, Shape
  <1>8. Elsewhere(s, [s EXCEPT !.nestw = x])
    BY DEF Elsewhere, Shape
  <1>9. Elsewhere(s, [s EXCEPT !.resolving = x])
    BY DEF Elsewhere, Shape
  <1>10. Elsewhere(s, [s EXCEPT !.verify = x])
    BY DEF Elsewhere, Shape
  <1> QED
    BY <1>1, <1>2, <1>3, <1>4, <1>5, <1>6, <1>7, <1>8, <1>9, <1>10

LEMMA BookElsewhere ==
    ASSUME NEW s, Shape(s), NEW key, NEW keys
    PROVE  /\ Elsewhere(s, Answer(s, key))
           /\ Elsewhere(s, ScheduleDropLink(s, key))
           /\ Elsewhere(s, ScheduleDropByKey(s, key))
           /\ Elsewhere(s, SetResolution(s))
           /\ Elsewhere(s, ForgetResolution(s, key))
           /\ Elsewhere(s, AdvanceDialCandidate(s, key))
           /\ Elsewhere(s, ResetDialIndex(s, key))
           /\ Elsewhere(s, ArmBackoff(s, key))
           /\ Elsewhere(s, ClearBackoff(s, keys))
  <1>1. Elsewhere(s, Answer(s, key))
    BY Puts DEF Answer
  <1>2. Elsewhere(s, ScheduleDropLink(s, key))
    BY Puts DEF ScheduleDropLink
  <1>3. Elsewhere(s, ScheduleDropByKey(s, key))
    BY Puts DEF ScheduleDropByKey, ScheduleDropLink
  <1>4. Elsewhere(s, SetResolution(s))
    BY Puts DEF SetResolution
  <1>5. Elsewhere(s, ForgetResolution(s, key))
    BY Puts DEF ForgetResolution
  <1>6. Elsewhere(s, AdvanceDialCandidate(s, key))
    BY Puts DEF AdvanceDialCandidate
  <1>7. Elsewhere(s, ResetDialIndex(s, key))
    BY Puts DEF ResetDialIndex
  <1>8. Elsewhere(s, ArmBackoff(s, key))
    BY Puts DEF ArmBackoff
  <1>9. Elsewhere(s, ClearBackoff(s, keys))
    BY Puts DEF ClearBackoff
  <1> QED
    BY <1>1, <1>2, <1>3, <1>4, <1>5, <1>6, <1>7, <1>8, <1>9

LEMMA RegisterElsewhere ==
    ASSUME NEW s, Shape(s), NEW key, NEW peer, NEW c
    PROVE  /\ Elsewhere(s, RegisterEndpoints(s, key, peer, c))
           /\ Elsewhere(s, RegisterEndpoint(s, key, peer, c))
           /\ Elsewhere(s, IngestRemoteAddrs(s, key, peer, c))
           /\ Elsewhere(s, UnregisterEndpoint(s, key))
  <1>1. ASSUME NEW x, NEW y
        PROVE  Elsewhere(s, [s EXCEPT !.eps = x, !.backoff = y])
    BY DEF Elsewhere, Shape
  <1>2. ASSUME NEW d
        PROVE  Elsewhere(s, RegisterEndpoints(s, key, peer, d))
    BY <1>1 DEF RegisterEndpoints
  <1>3. Elsewhere(s, UnregisterEndpoint(s, key))
    BY <1>1 DEF UnregisterEndpoint
  <1>4. Elsewhere(s, RegisterEndpoint(s, key, peer, c))
    BY <1>2, Zenon DEF RegisterEndpoint
  <1>5. Elsewhere(s, IngestRemoteAddrs(s, key, peer, c))
    BY <1>2, Zenon DEF IngestRemoteAddrs
  <1> QED
    BY <1>2, <1>3, <1>4, <1>5

LEMMA PromoteElsewhere ==
    ASSUME NEW s, Shape(s), NEW key
    PROVE  Elsewhere(s, PromoteDialWinner(s, key))
  <1> DEFINE c == <<Active(s, key)>> \o SelectSeq(s.eps[key].cands, LAMBDA a : a # Active(s, key))
             e == [[s.eps EXCEPT ![key].cands = c] EXCEPT ![key].index = 1]
  <1>1. ASSUME NEW d
        PROVE  [s EXCEPT !.eps[key].cands = d, !.eps[key].index = 1]
                  = [s EXCEPT !.eps = [[s.eps EXCEPT ![key].cands = d] EXCEPT ![key].index = 1]]
    BY DEF Shape
  <1>2. \/ PromoteDialWinner(s, key) = s
        \/ PromoteDialWinner(s, key) = [s EXCEPT !.eps[key].cands = c, !.eps[key].index = 1]
    BY Zenon DEF PromoteDialWinner
  <1> HIDE DEF c
  <1>3. PromoteDialWinner(s, key) = s \/ PromoteDialWinner(s, key) = [s EXCEPT !.eps = e]
    BY <1>1, <1>2
  <1> HIDE DEF e
  <1>4. Elsewhere(s, s) /\ Elsewhere(s, [s EXCEPT !.eps = e])
    BY Puts
  <1> QED
    BY <1>3, <1>4, Zenon

-----------------------------------------------------------------------------
(* The table.                                                              *)

\* A link changes, but not in its key and transport; its phase goes on, and its
\* peer is settled while it is Handshaking.
LEMMA LinkPutGood ==
    ASSUME NEW s, Good(s), NEW id, NEW l,
           id \in DOMAIN s.links =>
              /\ LinkShape(l)
              /\ l.key = s.links[id].key /\ l.car = s.links[id].car
              /\ \/ s.links[id].phase = "Handshaking"
                 \/ l.peer = s.links[id].peer /\ l.phase # "Handshaking"
    PROVE  Good([s EXCEPT !.links[id] = l])
  <1> DEFINE L == [s.links EXCEPT ![id] = l]
             u == [s EXCEPT !.links = L]
  <1>1. /\ DOMAIN L = DOMAIN s.links
        /\ \A i \in DOMAIN s.links : L[i] = IF i = id THEN l ELSE s.links[i]
    OBVIOUS
  <1>2. [s EXCEPT !.links[id] = l] = u
    OBVIOUS
  <1>3. Shape(s) /\ IsSeq(s.retry) /\ IsSeq(s.adopt) /\ LinksInv(s) /\ IndexInv(s) /\ PresInv(s)
    BY DEF Good
  <1> HIDE DEF L
  <1>4. /\ Shape(u) /\ u.links = L /\ u.index = s.index /\ u.pres = s.pres /\ u.next = s.next
        /\ u.retry = s.retry /\ u.adopt = s.adopt
    BY <1>3 DEF Shape
  <1> HIDE DEF u
  <1>5. LinksInv(u)
    BY <1>1, <1>3, <1>4 DEF LinksInv
  <1>6. IndexInv(u)
    BY <1>1, <1>3, <1>4 DEF IndexInv
  <1>7. PresInv(u)
    BY <1>1, <1>3, <1>4 DEF PresInv, Transport
  <1>8. Good(u)
    BY <1>3, <1>4, <1>5, <1>6, <1>7 DEF Good
  <1> QED
    BY <1>2, <1>8

LEMMA InsertGood ==
    ASSUME NEW s, Good(s), NEW l, LinkShape(l)
    PROVE  Good(Insert([s EXCEPT !.next = @ + 1], s.next, l))
  <1> DEFINE n == s.next
             n1 == s.next + 1
             L == Assign(s.links, n, l)
             X == Assign(s.index, l.key, n)
             u == [s EXCEPT !.next = n1, !.links = L, !.index = X]
  <1>1. Shape(s) /\ IsSeq(s.retry) /\ IsSeq(s.adopt) /\ LinksInv(s) /\ IndexInv(s) /\ PresInv(s)
    BY DEF Good
  <1>2. Insert([s EXCEPT !.next = @ + 1], s.next, l) = u
    BY <1>1 DEF Insert, Shape
  <1>3. /\ n \in Nat \ {0} /\ n1 \in Nat \ {0} /\ n \notin DOMAIN s.links
        /\ 1..(n - 1) \subseteq 1..(n1 - 1) /\ n \in 1..(n1 - 1)
    BY <1>1 DEF LinksInv
  <1>4. /\ DOMAIN L = {n} \cup DOMAIN s.links /\ L[n] = l
        /\ \A i \in DOMAIN s.links : i # n => L[i] = s.links[i]
    BY DEF Assign
  <1>5. /\ DOMAIN X = {l.key} \cup DOMAIN s.index /\ X[l.key] = n
        /\ \A k \in DOMAIN s.index : k # l.key => X[k] = s.index[k]
    BY DEF Assign
  <1>6. DOMAIN s.links \subseteq 1..(n - 1)
    BY <1>1 DEF LinksInv
  <1>7. s.next = n
    OBVIOUS
  <1> HIDE DEF L, X, n, n1
  <1>8. /\ Shape(u) /\ u.links = L /\ u.index = X /\ u.pres = s.pres /\ u.next = n1
        /\ u.retry = s.retry /\ u.adopt = s.adopt
    BY <1>1 DEF Shape
  <1> HIDE DEF u
  <1>9. LinksInv(u)
    BY <1>1, <1>3, <1>4, <1>6, <1>8 DEF LinksInv
  <1>10. IndexInv(u)
    BY <1>1, <1>3, <1>4, <1>5, <1>8 DEF IndexInv
  <1>11. PresInv(u)
    BY <1>1, <1>3, <1>4, <1>8 DEF PresInv
  <1>12. Good(u)
    BY <1>1, <1>8, <1>9, <1>10, <1>11 DEF Good
  <1> QED
    BY <1>2, <1>12

\* A key names its own link, and so does a presence: erased links leave no name behind.
LEMMA EraseByIdIs ==
    ASSUME NEW s, Good(s), NEW ids
    PROVE  EraseById(s, ids) =
              [s EXCEPT !.links = Restrict(s.links, DOMAIN s.links \ ids),
                        !.index = Restrict(s.index, {k \in DOMAIN s.index : s.index[k] \notin ids}),
                        !.pres = Restrict(s.pres, {p \in DOMAIN s.pres : s.pres[p] \notin ids})]
  <1>1. IndexInv(s) /\ PresInv(s)
    BY DEF Good
  <1>2. KeysKept(s, ids) = {k \in DOMAIN s.index : s.index[k] \notin ids}
    BY <1>1 DEF KeysKept, IndexInv
  <1>3. PresencesKept(s, ids) = {p \in DOMAIN s.pres : s.pres[p] \notin ids}
    BY <1>1 DEF PresencesKept, PresInv
  <1> QED
    BY <1>2, <1>3 DEF EraseById

KeysLeft(s, ids) == {k \in DOMAIN s.index : s.index[k] \notin ids}
PresencesLeft(s, ids) == {p \in DOMAIN s.pres : s.pres[p] \notin ids}

LEMMA EraseByIdFields ==
    ASSUME NEW s, Good(s), NEW ids
    PROVE  LET t == EraseById(s, ids)
           IN  /\ t.links = Restrict(s.links, DOMAIN s.links \ ids)
               /\ t.index = Restrict(s.index, KeysLeft(s, ids))
               /\ t.pres = Restrict(s.pres, PresencesLeft(s, ids))
               /\ t.dials = s.dials /\ t.nestw = s.nestw /\ t.verify = s.verify
               /\ t.pend = s.pend /\ t.eps = s.eps /\ t.next = s.next
               /\ t.retry = s.retry /\ t.adopt = s.adopt /\ t.resolving = s.resolving
  <1> DEFINE L == Restrict(s.links, DOMAIN s.links \ ids)
             X == Restrict(s.index, KeysLeft(s, ids))
             P == Restrict(s.pres, PresencesLeft(s, ids))
             t == EraseById(s, ids)
  <1>1. t = [s EXCEPT !.links = L, !.index = X, !.pres = P]
    BY EraseByIdIs DEF KeysLeft, PresencesLeft
  <1>2. Shape(s)
    BY DEF Good
  <1> HIDE DEF L, X, P, t
  <1>3. /\ t.links = L /\ t.index = X /\ t.pres = P
        /\ t.dials = s.dials /\ t.nestw = s.nestw /\ t.verify = s.verify
        /\ t.pend = s.pend /\ t.eps = s.eps /\ t.next = s.next
        /\ t.retry = s.retry /\ t.adopt = s.adopt /\ t.resolving = s.resolving
    BY <1>1, <1>2 DEF Shape
  <1> QED
    BY <1>3 DEF L, X, P, t

LEMMA EraseByIdGood ==
    ASSUME NEW s, Good(s), NEW ids
    PROVE  Good(EraseById(s, ids))
  <1> DEFINE L == Restrict(s.links, DOMAIN s.links \ ids)
             X == Restrict(s.index, {k \in DOMAIN s.index : s.index[k] \notin ids})
             P == Restrict(s.pres, {p \in DOMAIN s.pres : s.pres[p] \notin ids})
             u == [s EXCEPT !.links = L, !.index = X, !.pres = P]
  <1>1. Shape(s) /\ IsSeq(s.retry) /\ IsSeq(s.adopt) /\ LinksInv(s) /\ IndexInv(s) /\ PresInv(s)
    BY DEF Good
  <1>2. EraseById(s, ids) = u
    BY EraseByIdIs
  <1>3. DOMAIN L = DOMAIN s.links \ ids /\ \A i \in DOMAIN L : L[i] = s.links[i]
    BY DEF Restrict
  <1>4. /\ \A k \in DOMAIN X : k \in DOMAIN s.index /\ s.index[k] \notin ids /\ X[k] = s.index[k]
        /\ \A p \in DOMAIN P : p \in DOMAIN s.pres /\ s.pres[p] \notin ids /\ P[p] = s.pres[p]
    BY DEF Restrict
  <1> HIDE DEF L, X, P
  <1>5. /\ Shape(u) /\ u.links = L /\ u.index = X /\ u.pres = P /\ u.next = s.next
        /\ u.retry = s.retry /\ u.adopt = s.adopt
    BY <1>1 DEF Shape
  <1> HIDE DEF u
  <1>6. LinksInv(u)
    BY <1>1, <1>3, <1>5 DEF LinksInv
  <1>7. IndexInv(u)
    BY <1>1, <1>3, <1>4, <1>5 DEF IndexInv
  <1>8. PresInv(u)
    BY <1>1, <1>3, <1>4, <1>5 DEF PresInv
  <1>9. Good(u)
    BY <1>1, <1>5, <1>6, <1>7, <1>8 DEF Good
  <1> QED
    BY <1>2, <1>9

LEMMA BindDialKeyGood ==
    ASSUME NEW s, Good(s), NEW id \in DOMAIN s.links, NEW key
    PROVE  Good(BindDialKey(s, id, key))
  <1> DEFINE from == s.links[id].key
             l == [s.links[id] EXCEPT !.key = key]
             L == [s.links EXCEPT ![id] = l]
             K == {k \in DOMAIN s.index : ~(k = from /\ s.index[k] = id)}
             X == Assign(Restrict(s.index, K), key, id)
             u == [s EXCEPT !.links = L, !.index = X]
  <1>1. Shape(s) /\ IsSeq(s.retry) /\ IsSeq(s.adopt) /\ LinksInv(s) /\ IndexInv(s) /\ PresInv(s)
    BY DEF Good
  <1>2. CASE key \in DOMAIN s.index /\ s.index[key] # id
    BY <1>2 DEF BindDialKey
  <1>3. CASE ~(key \in DOMAIN s.index /\ s.index[key] # id)
    <2>1. BindDialKey(s, id, key) = u
      BY <1>3 DEF BindDialKey
    <2>2. /\ LinkShape(l) /\ l.key = key /\ l.peer = s.links[id].peer /\ l.car = s.links[id].car
          /\ l.phase = s.links[id].phase
      BY <1>1 DEF LinksInv, LinkShape
    <2>3. DOMAIN L = DOMAIN s.links /\ \A i \in DOMAIN L : L[i] = IF i = id THEN l ELSE s.links[i]
      OBVIOUS
    <2>4. /\ DOMAIN X = {key} \cup K /\ X[key] = id
          /\ \A k \in K : k # key => X[k] = s.index[k]
      BY DEF Restrict, Assign
    <2>5. \A k \in K : k \in DOMAIN s.index /\ ~(k = s.links[id].key /\ s.index[k] = id)
      OBVIOUS
    <2> HIDE DEF l, L, K, X
    <2>6. /\ Shape(u) /\ u.links = L /\ u.index = X /\ u.pres = s.pres /\ u.next = s.next
          /\ u.retry = s.retry /\ u.adopt = s.adopt
      BY <1>1 DEF Shape
    <2> HIDE DEF u
    <2>7. LinksInv(u)
      BY <1>1, <2>2, <2>3, <2>6 DEF LinksInv
    <2>8. ASSUME NEW k \in DOMAIN X
          PROVE  X[k] \in DOMAIN L /\ L[X[k]].key = k
      <3>1. CASE k = key
        BY <2>2, <2>3, <2>4, <3>1
      <3>2. CASE k # key
        <4>1. k \in K /\ X[k] = s.index[k]
          BY <2>4, <2>8, <3>2
        <4>2. s.index[k] \in DOMAIN s.links /\ s.links[s.index[k]].key = k
          BY <1>1, <2>5, <4>1 DEF IndexInv
        <4>3. s.index[k] # id
          BY <2>5, <4>1, <4>2
        <4> QED
          BY <2>3, <4>1, <4>2, <4>3
      <3> QED
        BY <3>1, <3>2
    <2>9. IndexInv(u)
      BY <2>6, <2>8 DEF IndexInv
    <2>10. PresInv(u)
      BY <1>1, <2>2, <2>3, <2>6 DEF PresInv, Transport
    <2>11. Good(u)
      BY <1>1, <2>6, <2>7, <2>9, <2>10 DEF Good
    <2> QED
      BY <2>1, <2>11
  <1> QED
    BY <1>2, <1>3

LEMMA SetPresenceGood ==
    ASSUME NEW s, Good(s), NEW id \in DOMAIN s.links, Connected(s, id)
    PROVE  Good(SetPresence(s, id))
  <1> DEFINE p == <<s.links[id].peer, Transport(s.links[id])>>
             P == Assign(s.pres, p, id)
             u == [s EXCEPT !.pres = P]
  <1>1. Shape(s) /\ IsSeq(s.retry) /\ IsSeq(s.adopt) /\ LinksInv(s) /\ IndexInv(s) /\ PresInv(s)
    BY DEF Good
  <1>2. SetPresence(s, id) = u
    BY DEF SetPresence
  <1>3. /\ DOMAIN P = {p} \cup DOMAIN s.pres /\ P[p] = id
        /\ \A q \in DOMAIN s.pres : q # p => P[q] = s.pres[q]
    <2> HIDE DEF p
    <2> QED
      BY DEF Assign
  <1>4. p = <<s.links[id].peer, Transport(s.links[id])>> /\ s.links[id].phase # "Handshaking"
    BY DEF Connected
  <1> HIDE DEF p, P
  <1>5. /\ Shape(u) /\ u.links = s.links /\ u.index = s.index /\ u.pres = P /\ u.next = s.next
        /\ u.retry = s.retry /\ u.adopt = s.adopt
    BY <1>1 DEF Shape
  <1> HIDE DEF u
  <1>6. LinksInv(u) /\ IndexInv(u)
    BY <1>1, <1>5 DEF LinksInv, IndexInv
  <1>7. ASSUME NEW q \in DOMAIN P
        PROVE  /\ P[q] \in DOMAIN s.links
               /\ q = <<s.links[P[q]].peer, Transport(s.links[P[q]])>>
               /\ s.links[P[q]].phase # "Handshaking"
    <2>1. CASE q = p
      BY <1>3, <1>4, <2>1
    <2>2. CASE q # p
      BY <1>1, <1>3, <1>7, <2>2 DEF PresInv
    <2> QED
      BY <2>1, <2>2
  <1>8. PresInv(u)
    BY <1>5, <1>7 DEF PresInv
  <1>9. Good(u)
    BY <1>1, <1>5, <1>6, <1>8 DEF Good
  <1> QED
    BY <1>2, <1>9

\* A change of one field that no name speaks of.
LEMMA LinkFieldGood ==
    ASSUME NEW s, Good(s), NEW id, NEW x
    PROVE  /\ Good([s EXCEPT !.links[id].cb = x])
           /\ Good([s EXCEPT !.links[id].conn = x])
           /\ Good([s EXCEPT !.links[id].sus = x])
           /\ Good([s EXCEPT !.links[id].ch0 = x])
           /\ Good([s EXCEPT !.links[id].cap = x])
           /\ Good([s EXCEPT !.links[id].phase = "Backoff"])
  <1> DEFINE l == s.links[id]
  <1>1. ASSUME NEW k,
               id \in DOMAIN s.links =>
                  /\ LinkShape(k) /\ k.key = l.key /\ k.car = l.car
                  /\ \/ l.phase = "Handshaking"
                     \/ k.peer = l.peer /\ k.phase # "Handshaking"
        PROVE  Good([s EXCEPT !.links[id] = k])
    BY <1>1, LinkPutGood
  <1>2. id \in DOMAIN s.links => LinkShape(l)
    BY DEF Good, LinksInv
  <1>3. /\ [s EXCEPT !.links[id].cb = x] = [s EXCEPT !.links[id] = [l EXCEPT !.cb = x]]
        /\ [s EXCEPT !.links[id].conn = x] = [s EXCEPT !.links[id] = [l EXCEPT !.conn = x]]
        /\ [s EXCEPT !.links[id].sus = x] = [s EXCEPT !.links[id] = [l EXCEPT !.sus = x]]
        /\ [s EXCEPT !.links[id].ch0 = x] = [s EXCEPT !.links[id] = [l EXCEPT !.ch0 = x]]
        /\ [s EXCEPT !.links[id].cap = x] = [s EXCEPT !.links[id] = [l EXCEPT !.cap = x]]
        /\ [s EXCEPT !.links[id].phase = "Backoff"]
              = [s EXCEPT !.links[id] = [l EXCEPT !.phase = "Backoff"]]
    OBVIOUS
  <1> HIDE DEF l
  <1>4. Good([s EXCEPT !.links[id] = [l EXCEPT !.cb = x]])
    <2> DEFINE k == [l EXCEPT !.cb = x]
    <2>1. LinkShape(l) => /\ LinkShape(k) /\ k.key = l.key /\ k.car = l.car /\ k.peer = l.peer
                          /\ k.phase = l.phase
      BY DEF LinkShape
    <2> HIDE DEF k
    <2>2. Good([s EXCEPT !.links[id] = k])
      BY <1>1, <1>2, <2>1
    <2> QED
      BY <2>2 DEF k
  <1>5. Good([s EXCEPT !.links[id] = [l EXCEPT !.conn = x]])
    <2> DEFINE k == [l EXCEPT !.conn = x]
    <2>1. LinkShape(l) => /\ LinkShape(k) /\ k.key = l.key /\ k.car = l.car /\ k.peer = l.peer
                          /\ k.phase = l.phase
      BY DEF LinkShape
    <2> HIDE DEF k
    <2>2. Good([s EXCEPT !.links[id] = k])
      BY <1>1, <1>2, <2>1
    <2> QED
      BY <2>2 DEF k
  <1>6. Good([s EXCEPT !.links[id] = [l EXCEPT !.sus = x]])
    <2> DEFINE k == [l EXCEPT !.sus = x]
    <2>1. LinkShape(l) => /\ LinkShape(k) /\ k.key = l.key /\ k.car = l.car /\ k.peer = l.peer
                          /\ k.phase = l.phase
      BY DEF LinkShape
    <2> HIDE DEF k
    <2>2. Good([s EXCEPT !.links[id] = k])
      BY <1>1, <1>2, <2>1
    <2> QED
      BY <2>2 DEF k
  <1>7. Good([s EXCEPT !.links[id] = [l EXCEPT !.ch0 = x]])
    <2> DEFINE k == [l EXCEPT !.ch0 = x]
    <2>1. LinkShape(l) => /\ LinkShape(k) /\ k.key = l.key /\ k.car = l.car /\ k.peer = l.peer
                          /\ k.phase = l.phase
      BY DEF LinkShape
    <2> HIDE DEF k
    <2>2. Good([s EXCEPT !.links[id] = k])
      BY <1>1, <1>2, <2>1
    <2> QED
      BY <2>2 DEF k
  <1>8. Good([s EXCEPT !.links[id] = [l EXCEPT !.cap = x]])
    <2> DEFINE k == [l EXCEPT !.cap = x]
    <2>1. LinkShape(l) => /\ LinkShape(k) /\ k.key = l.key /\ k.car = l.car /\ k.peer = l.peer
                          /\ k.phase = l.phase
      BY DEF LinkShape
    <2> HIDE DEF k
    <2>2. Good([s EXCEPT !.links[id] = k])
      BY <1>1, <1>2, <2>1
    <2> QED
      BY <2>2 DEF k
  <1>9. Good([s EXCEPT !.links[id] = [l EXCEPT !.phase = "Backoff"]])
    <2> DEFINE k == [l EXCEPT !.phase = "Backoff"]
    <2>1. LinkShape(l) => /\ LinkShape(k) /\ k.key = l.key /\ k.car = l.car /\ k.peer = l.peer
                          /\ k.phase # "Handshaking"
      BY DEF LinkShape
    <2> HIDE DEF k
    <2>2. Good([s EXCEPT !.links[id] = k])
      BY <1>1, <1>2, <2>1
    <2> QED
      BY <2>2 DEF k
  <1> QED
    BY <1>3, <1>4, <1>5, <1>6, <1>7, <1>8, <1>9

\* The links stay the same but for fields no name speaks of, all at once.
LEMMA MapLinksGood ==
    ASSUME NEW s, Good(s), NEW L, DOMAIN L = DOMAIN s.links,
           \A i \in DOMAIN L :
              /\ LinkShape(L[i]) /\ L[i].key = s.links[i].key /\ L[i].car = s.links[i].car
              /\ L[i].peer = s.links[i].peer /\ L[i].phase = s.links[i].phase
    PROVE  Good([s EXCEPT !.links = L])
  <1> DEFINE u == [s EXCEPT !.links = L]
  <1>1. Shape(s) /\ IsSeq(s.retry) /\ IsSeq(s.adopt) /\ LinksInv(s) /\ IndexInv(s) /\ PresInv(s)
    BY DEF Good
  <1>2. /\ Shape(u) /\ u.links = L /\ u.index = s.index /\ u.pres = s.pres /\ u.next = s.next
        /\ u.retry = s.retry /\ u.adopt = s.adopt
    BY <1>1 DEF Shape
  <1> HIDE DEF u
  <1>3. LinksInv(u)
    BY <1>1, <1>2 DEF LinksInv
  <1>4. IndexInv(u)
    BY <1>1, <1>2 DEF IndexInv
  <1>5. PresInv(u)
    BY <1>1, <1>2 DEF PresInv, Transport
  <1>6. Good(u)
    BY <1>1, <1>2, <1>3, <1>4, <1>5 DEF Good
  <1> QED
    BY <1>6 DEF u

LEMMA DropLinksGood ==
    ASSUME NEW s, Good(s), NEW ids
    PROVE  Good(DropLinks(s, ids)) /\ DOMAIN DropLinks(s, ids).links = DOMAIN s.links \ ids
  <1> DEFINE gone == ids \cap DOMAIN s.links
             orphan(l) == IF l.via \in gone THEN [l EXCEPT !.conn = "closed"] ELSE l
             t == EraseById(s, gone)
             L == [id \in DOMAIN t.links |-> orphan(t.links[id])]
             u == [t EXCEPT !.links = L]
             nw == t.nestw \ gone
             v == [u EXCEPT !.nestw = nw]
             vf == t.verify \ gone
             w == [v EXCEPT !.verify = vf]
  <1>1. Good(t)
    BY EraseByIdGood
  <1>2. DOMAIN t.links = DOMAIN s.links \ ids
    <2>1. t.links = Restrict(s.links, DOMAIN s.links \ gone)
      <3> HIDE DEF gone
      <3> QED BY EraseByIdFields
    <2> QED BY <2>1 DEF Restrict
  <1>3. DropLinks(s, ids) = [t EXCEPT !.links = L, !.nestw = nw, !.verify = vf]
    BY DEF DropLinks
  <1> HIDE DEF gone, t
  <1>5. /\ DOMAIN L = DOMAIN t.links
        /\ \A i \in DOMAIN L :
              /\ LinkShape(L[i]) /\ L[i].key = t.links[i].key /\ L[i].car = t.links[i].car
              /\ L[i].peer = t.links[i].peer /\ L[i].phase = t.links[i].phase
    BY <1>1 DEF Good, LinksInv, LinkShape
  <1> HIDE DEF L, nw, vf
  <1>4. DropLinks(s, ids) = w
    BY <1>3
  <1>6. Good(u) /\ u.links = L
    BY <1>1, <1>5, MapLinksGood DEF Good, Shape
  <1> HIDE DEF u
  <1>7. Elsewhere(u, v)
    BY <1>6, Puts DEF Good
  <1> HIDE DEF v
  <1>8. Elsewhere(v, w)
    <2>1. Shape(v)
      BY <1>7 DEF Elsewhere
    <2> QED
      BY <2>1, Puts
  <1> HIDE DEF w
  <1>9. Elsewhere(u, w)
    BY <1>7, <1>8, ElsewhereThen
  <1>10. Good(w) /\ w.links = u.links
    BY <1>6, <1>9, ElsewhereGood DEF Elsewhere
  <1> QED
    BY <1>2, <1>4, <1>5, <1>6, <1>10

\* The link that takes the key is another than the one that gives way.
LEMMA BindDialAliasGood ==
    ASSUME NEW s, Good(s), NEW id, NEW key
    PROVE  Good(BindDialAlias(s, id, key))
  <1> DEFINE other == FindByDialKey(s, key)
             taken == other \notin {NoLink, id}
             ids == IF taken THEN {other} ELSE {}
             t == DropLinks(s, ids)
  <1>1. \/ BindDialAlias(s, id, key) = s
        \/ id \in DOMAIN s.links /\ BindDialAlias(s, id, key) = BindDialKey(t, id, key)
    BY DEF BindDialAlias
  <1>2. id \notin ids
    OBVIOUS
  <1> HIDE DEF ids
  <1>3. Good(t) /\ DOMAIN t.links = DOMAIN s.links \ ids
    BY DropLinksGood
  <1> HIDE DEF t
  <1>4. id \in DOMAIN s.links => Good(BindDialKey(t, id, key))
    BY <1>2, <1>3, BindDialKeyGood
  <1> QED
    BY <1>1, <1>4

-----------------------------------------------------------------------------
(* Completions of a handshake.                                             *)

LEMMA RefreshPresenceGood ==
    ASSUME NEW s, Good(s), NEW id
    PROVE  Good(RefreshPresence(s, id))
  BY SetPresenceGood DEF RefreshPresence

LEMMA AppendIsSeq ==
    ASSUME NEW q, IsSeq(q), NEW x
    PROVE  IsSeq(Append(q, x))
  <1>1. q \in Seq(ToSet(q))
    BY DEF IsSeq
  <1>2. Append(q, x) \in Seq(ToSet(q) \cup {x})
    BY <1>1
  <1>3. ToSet(q) \cup {x} \subseteq ToSet(Append(q, x))
    BY <1>1 DEF ToSet
  <1> QED
    BY <1>2, <1>3 DEF IsSeq

LEMMA QueuePutGood ==
    ASSUME NEW s, Good(s), NEW q, IsSeq(q)
    PROVE  Good([s EXCEPT !.retry = q]) /\ Good([s EXCEPT !.adopt = q])
  <1>1. Good([s EXCEPT !.retry = q])
    BY DEF Good, Shape, LinksInv, IndexInv, PresInv
  <1>2. Good([s EXCEPT !.adopt = q])
    BY DEF Good, Shape, LinksInv, IndexInv, PresInv
  <1> QED
    BY <1>1, <1>2

LEMMA QueueGood ==
    ASSUME NEW s, Good(s), NEW x
    PROVE  /\ Good([s EXCEPT !.retry = Append(@, x)])
           /\ Good([s EXCEPT !.adopt = Append(@, x)])
           /\ Good([s EXCEPT !.retry = <<>>])
           /\ Good([s EXCEPT !.adopt = <<>>])
  <1>1. Shape(s) /\ IsSeq(s.retry) /\ IsSeq(s.adopt) /\ LinksInv(s) /\ IndexInv(s) /\ PresInv(s)
    BY DEF Good
  <1>2. IsSeq(Append(s.retry, x)) /\ IsSeq(Append(s.adopt, x))
    BY <1>1, AppendIsSeq
  <1>3. IsSeq(<<>>)
    BY DEF IsSeq, ToSet
  <1> QED
    BY <1>2, <1>3, QueuePutGood


\* What keeps the book keeps the table.
LEMMA DialsPutGood ==
    ASSUME NEW s, Good(s), NEW x
    PROVE  Good([s EXCEPT !.dials = x])
  BY DEF Good, Shape, LinksInv, IndexInv, PresInv

LEMMA BookGood ==
    ASSUME NEW s, Good(s), NEW key, NEW keys
    PROVE  /\ Good(Answer(s, key))
           /\ Good(ScheduleDropLink(s, key))
           /\ Good(ScheduleDropByKey(s, key))
           /\ Good(SetResolution(s))
           /\ Good(ForgetResolution(s, key))
           /\ Good(AdvanceDialCandidate(s, key))
           /\ Good(ResetDialIndex(s, key))
           /\ Good(ArmBackoff(s, key))
           /\ Good(ClearBackoff(s, keys))
           /\ Good(IncConcurrentDials(s))
           /\ Good(DecConcurrentDials(s))
           /\ Good(PromoteDialWinner(s, key))
  <1>1. Shape(s)
    BY DEF Good
  <1>2. ASSUME NEW u, Elsewhere(s, u)
        PROVE  Good(u)
    BY <1>2, ElsewhereGood
  <1>3. Good(IncConcurrentDials(s)) /\ Good(DecConcurrentDials(s))
    BY DialsPutGood DEF IncConcurrentDials, DecConcurrentDials
  <1> QED
    BY <1>1, <1>2, <1>3, BookElsewhere, PromoteElsewhere, Zenon

LEMMA PutsGood ==
    ASSUME NEW s, Good(s), NEW x
    PROVE  /\ Good([s EXCEPT !.asc = x])
           /\ Good([s EXCEPT !.backoff = x])
           /\ Good([s EXCEPT !.resolved = x])
           /\ Good([s EXCEPT !.pend = x])
           /\ Good([s EXCEPT !.inflight = x])
           /\ Good([s EXCEPT !.nestw = x])
           /\ Good([s EXCEPT !.resolving = x])
           /\ Good([s EXCEPT !.verify = x])
  <1>1. Shape(s)
    BY DEF Good
  <1>2. ASSUME NEW u, Elsewhere(s, u)
        PROVE  Good(u)
    BY <1>2, ElsewhereGood
  <1> QED
    BY <1>1, <1>2, Puts, Zenon

LEMMA FinishDialGood ==
    ASSUME NEW s, Good(s), NEW key, NEW id, NEW ok, NEW aborted
    PROVE  Good(FinishDial(s, key, id, ok, aborted))
  <1> DEFINE d == DecConcurrentDials(s)
             f == ForgetResolution(d, key)
             b == IF aborted THEN f ELSE ArmBackoff(f, key)
             c == ClearBackoff(d, {key})
             w == PromoteDialWinner(c, key)
             r == RefreshPresence(w, id)
             n == AdvanceDialCandidate(f, key)
             g == ScheduleDropLink(n, id)
             z == ResetDialIndex(b, key)
             y == ScheduleDropLink(z, id)
  <1>1. \/ FinishDial(s, key, id, ok, aborted) = Answer(r, key)
        \/ FinishDial(s, key, id, ok, aborted) = [g EXCEPT !.retry = Append(@, key)]
        \/ FinishDial(s, key, id, ok, aborted) = Answer(y, key)
    BY DEF FinishDial
  <1>2. Good(d)
    BY BookGood
  <1> HIDE DEF d
  <1>3. Good(f) /\ Good(c)
    BY <1>2, BookGood
  <1> HIDE DEF f, c
  <1>4. Good(b) /\ Good(w) /\ Good(n)
    BY <1>3, BookGood
  <1> HIDE DEF b, w, n
  <1>5. Good(r) /\ Good(g) /\ Good(z)
    BY <1>4, BookGood, RefreshPresenceGood
  <1> HIDE DEF r, g, z
  <1>6. Good(y)
    BY <1>5, BookGood
  <1> HIDE DEF y
  <1>7. Good(Answer(r, key)) /\ Good(Answer(y, key)) /\ Good([g EXCEPT !.retry = Append(@, key)])
    BY <1>5, <1>6, BookGood, QueueGood
  <1> QED
    BY <1>1, <1>7

LEMMA FinishNestedCarrierGood ==
    ASSUME NEW s, Good(s), NEW id, NEW ok
    PROVE  Good(FinishNestedCarrier(s, id, ok))
  <1> DEFINE p == s.links[id].peer
             adp == {o \in ConnectedTo(s, p) \ {id} : ~s.links[o].car}
             bind == ok /\ p # NoPeer /\ adp = {} /\ PeerKey(p) \notin DOMAIN s.index
             t == IF bind THEN BindDialAlias(s, id, PeerKey(p)) ELSE s
             u == [t EXCEPT !.nestw = @ \ {id}]
  <1>1. FinishNestedCarrier(s, id, ok) = IF ok THEN u ELSE ScheduleDropLink(u, id)
    BY DEF FinishNestedCarrier
  <1>2. Good(t)
    BY BindDialAliasGood
  <1> HIDE DEF t
  <1>3. Good(u)
    BY <1>2, PutsGood
  <1> HIDE DEF u
  <1>4. Good(ScheduleDropLink(u, id))
    BY <1>3, BookGood
  <1> QED
    BY <1>1, <1>3, <1>4

LEMMA EstablishCbGood ==
    ASSUME NEW s, Good(s), NEW id, NEW ok, NEW aborted
    PROVE  Good(EstablishCb(s, id, ok, aborted))
  <1> DEFINE t == [s EXCEPT !.links[id].cb = FALSE]
             key == s.links[id].key
  <1>1. \/ EstablishCb(s, id, ok, aborted) = s
        \/ EstablishCb(s, id, ok, aborted) = FinishNestedCarrier(t, id, ok)
        \/ EstablishCb(s, id, ok, aborted) = FinishDial(t, key, id, ok, aborted)
        \/ EstablishCb(s, id, ok, aborted) = t
        \/ EstablishCb(s, id, ok, aborted) = ScheduleDropLink(t, id)
    BY DEF EstablishCb
  <1>2. Good(t)
    BY LinkFieldGood
  <1> HIDE DEF t, key
  <1>3. /\ Good(FinishNestedCarrier(t, id, ok)) /\ Good(FinishDial(t, key, id, ok, aborted))
        /\ Good(ScheduleDropLink(t, id))
    BY <1>2, FinishNestedCarrierGood, FinishDialGood, BookGood
  <1> QED
    BY <1>1, <1>2, <1>3

LEMMA FailAssociationGood ==
    ASSUME NEW s, Good(s), NEW id, NEW aborted
    PROVE  Good(FailAssociation(s, id, aborted))
  <1>1. Good([s EXCEPT !.links[id].phase = "Backoff"])
    BY LinkFieldGood
  <1> QED
    BY <1>1, EstablishCbGood DEF FailAssociation

LEMMA AdoptAliasGood ==
    ASSUME NEW s, Good(s), NEW id
    PROVE  Good(AdoptAlias(s, id))
  <1>1. ASSUME NEW key
        PROVE  Good(BindDialAlias(s, id, key))
    BY BindDialAliasGood
  <1> QED
    BY <1>1, Zenon DEF AdoptAlias

LEMMA DemoteLoserGood ==
    ASSUME NEW s, Good(s), NEW id
    PROVE  Good(DemoteLoser(s, id))
  <1>1. Good([s EXCEPT !.links[id].phase = "Backoff"])
    BY LinkFieldGood
  <1> QED
    BY <1>1, BookGood DEF DemoteLoser

LEMMA StartCapabilityExchangeGood ==
    ASSUME NEW s, Good(s), NEW id
    PROVE  Good(StartCapabilityExchange(s, id))
  BY LinkFieldGood DEF StartCapabilityExchange

\* Only a link in its handshake learns who its peer is.
LEMMA OnLinkEstablishedGood ==
    ASSUME NEW s, Good(s), NEW id, NEW p, id \in DOMAIN s.links => id \in InHandshake(s)
    PROVE  Good(OnLinkEstablished(s, id, p))
  <1> DEFINE k == [[[s.links[id] EXCEPT !.phase = "Connected"] EXCEPT !.peer = p] EXCEPT !.cap = "none"]
             t == [s EXCEPT !.links[id].phase = "Connected", !.links[id].peer = p,
                            !.links[id].cap = "none"]
             other == FirstOf(s, ConnectedTo(s, p) \ {id})
             up(u) == EstablishCb(StartCapabilityExchange(RefreshPresence(u, id), id), id, TRUE, FALSE)
             b == [t EXCEPT !.links[id].phase = "Backoff"]
             c == ScheduleDropLink(b, id)
             x == <<p, t.links[id].key>>
             lost == [c EXCEPT !.adopt = IF t.links[id].out THEN Append(@, x) ELSE @]
             v == DemoteLoser(t, other)
  <1>1. \/ OnLinkEstablished(s, id, p) = up(AdoptAlias(t, id))
        \/ OnLinkEstablished(s, id, p) = up(t)
        \/ OnLinkEstablished(s, id, p) = up(AdoptAlias(v, id))
        \/ OnLinkEstablished(s, id, p) = EstablishCb(lost, id, TRUE, FALSE)
    BY DEF OnLinkEstablished
  <1>2. ASSUME NEW u, Good(u)
        PROVE  Good(up(u))
    <2>1. Good(RefreshPresence(u, id))
      BY <1>2, RefreshPresenceGood
    <2>2. Good(StartCapabilityExchange(RefreshPresence(u, id), id))
      BY <2>1, StartCapabilityExchangeGood
    <2> QED
      BY <2>2, EstablishCbGood
  <1>3. t = [s EXCEPT !.links[id] = k]
    BY DEF Good, Shape
  <1>4. id \in DOMAIN s.links =>
           /\ LinkShape(k) /\ k.key = s.links[id].key /\ k.car = s.links[id].car
           /\ s.links[id].phase = "Handshaking"
    BY DEF Good, LinksInv, LinkShape, InHandshake
  <1> HIDE DEF k
  <1>5. Good(t)
    BY <1>3, <1>4, LinkPutGood
  <1> HIDE DEF t, up, other
  <1>6. Good(AdoptAlias(t, id)) /\ Good(v) /\ Good(b)
    BY <1>5, AdoptAliasGood, DemoteLoserGood, LinkFieldGood
  <1> HIDE DEF b, v
  <1>7. Good(AdoptAlias(v, id)) /\ Good(c)
    BY <1>6, AdoptAliasGood, BookGood
  <1> HIDE DEF c, x
  <1>8. Good(lost)
    <2>1. Good([c EXCEPT !.adopt = Append(@, x)])
      BY <1>7, QueueGood
    <2>2. [c EXCEPT !.adopt = @] = c
      BY <1>7 DEF Good, Shape
    <2> QED
      BY <1>7, <2>1, <2>2
  <1> HIDE DEF lost
  <1>9. Good(EstablishCb(lost, id, TRUE, FALSE))
    BY <1>8, EstablishCbGood
  <1> QED
    BY <1>1, <1>2, <1>5, <1>6, <1>7, <1>9

LEMMA FinishEstablishmentGood ==
    ASSUME NEW s, Good(s), NEW id, NEW p, id \in DOMAIN s.links => id \in InHandshake(s)
    PROVE  Good(FinishEstablishment(s, id, p))
  <1> DEFINE k == [s.links[id] EXCEPT !.peer = p]
             t == [s EXCEPT !.links[id] = k]
  <1>1. [s EXCEPT !.links[id].peer = p] = t
    OBVIOUS
  <1>2. id \in DOMAIN s.links =>
           /\ LinkShape(k) /\ k.key = s.links[id].key /\ k.car = s.links[id].car
           /\ s.links[id].phase = "Handshaking"
    BY DEF Good, LinksInv, LinkShape, InHandshake
  <1>3. \/ FinishEstablishment(s, id, p) = FailAssociation(t, id, FALSE)
        \/ FinishEstablishment(s, id, p) = OnLinkEstablished(s, id, p)
    BY <1>1 DEF FinishEstablishment
  <1> HIDE DEF k
  <1>4. Good(t)
    BY <1>2, LinkPutGood
  <1> HIDE DEF t
  <1> QED
    BY <1>3, <1>4, FailAssociationGood, OnLinkEstablishedGood

-----------------------------------------------------------------------------
(* Dialing, accepting, nesting and the other calls.                        *)

LEMMA NewLinkShape ==
    ASSUME NEW key, NEW peer, NEW out, NEW car, NEW via
    PROVE  LinkShape(NewLink(key, peer, out, car, via))
  BY DEF LinkShape, NewLink

LEMMA BeginOutboundDialGood ==
    ASSUME NEW s, Good(s), NEW key, NEW outcome \in Outcomes
    PROVE  Good(BeginOutboundDial(s, key, outcome))
  <1> DEFINE l == NewLink(key, s.eps[key].peer, TRUE, FALSE, NoLink)
             i == Insert([s EXCEPT !.next = @ + 1], s.next, l)
             dialed == IncConcurrentDials(i)
             r == ResetDialIndex(s, key)
             n == s.next
  <1>1. \/ BeginOutboundDial(s, key, outcome) = Answer(r, key)
        \/ BeginOutboundDial(s, key, outcome) = Answer(s, key)
        \/ BeginOutboundDial(s, key, outcome) = [s EXCEPT !.resolving = @ \cup {key}]
        \/ BeginOutboundDial(s, key, outcome) = dialed
        \/ BeginOutboundDial(s, key, outcome) = FailAssociation(dialed, n, FALSE)
    BY DEF BeginOutboundDial, Outcomes
  <1>2. LinkShape(l)
    BY NewLinkShape
  <1> HIDE DEF l, n
  <1>3. Good(i) /\ Good(r)
    BY <1>2, InsertGood, BookGood
  <1> HIDE DEF i, r
  <1>4. Good(dialed) /\ Good(Answer(r, key)) /\ Good(Answer(s, key))
    BY <1>3, BookGood
  <1> HIDE DEF dialed
  <1>5. Good(FailAssociation(dialed, n, FALSE)) /\ Good([s EXCEPT !.resolving = @ \cup {key}])
    BY <1>4, FailAssociationGood, PutsGood
  <1> QED
    BY <1>1, <1>4, <1>5

LEMMA FailCandidateGood ==
    ASSUME NEW s, Good(s), NEW key, NEW outcome \in Outcomes
    PROVE  Good(FailCandidate(s, key, outcome))
  <1>1. Good(AdvanceDialCandidate(s, key)) /\ Good(ResetDialIndex(s, key))
    BY BookGood
  <1>2. Good(ArmBackoff(ResetDialIndex(s, key), key))
    BY <1>1, BookGood
  <1>3. Good(Answer(ArmBackoff(ResetDialIndex(s, key), key), key))
    BY <1>2, BookGood
  <1> QED
    BY <1>1, <1>3, BeginOutboundDialGood DEF FailCandidate

LEMMA OnHostResolvedGood ==
    ASSUME NEW s, Good(s), NEW key, NEW ok, NEW outcome \in Outcomes
    PROVE  Good(OnHostResolved(s, key, ok, outcome))
  <1> DEFINE r == IF ok THEN SetResolution(s) ELSE s
             t == [r EXCEPT !.resolving = @ \ {key}]
  <1>1. \/ OnHostResolved(s, key, ok, outcome) = t
        \/ OnHostResolved(s, key, ok, outcome) = FailCandidate(t, key, outcome)
        \/ OnHostResolved(s, key, ok, outcome) = BeginOutboundDial(t, key, outcome)
    BY DEF OnHostResolved
  <1>2. Good(r)
    BY BookGood
  <1> HIDE DEF r
  <1>3. Good(t)
    BY <1>2, PutsGood
  <1> HIDE DEF t
  <1> QED
    BY <1>1, <1>3, FailCandidateGood, BeginOutboundDialGood

LEMMA EnsureAssociationGood ==
    ASSUME NEW s, Good(s), NEW key, NEW over, NEW outcome \in Outcomes
    PROVE  Good(EnsureAssociation(s, key, over, outcome))
  <1> DEFINE byPeer == IF key \in DOMAIN s.eps THEN FindByPeerId(s, s.eps[key].peer) ELSE NoLink
             adp == FindAdpLinkForKey(s, key)
             clear == IF adp # NoLink /\ ~Connected(s, adp) THEN DropLinks(s, {adp}) ELSE s
             erased == IF over THEN ClearBackoff(clear, {key}) ELSE clear
             join(t) == [t EXCEPT !.inflight = @ \cup {key}]
             r == ResetDialIndex(erased, key)
             j == join(r)
  <1>1. \/ EnsureAssociation(s, key, over, outcome) = s
        \/ EnsureAssociation(s, key, over, outcome) = BindDialAlias(s, byPeer, key)
        \/ EnsureAssociation(s, key, over, outcome) = join(s)
        \/ EnsureAssociation(s, key, over, outcome) = erased
        \/ EnsureAssociation(s, key, over, outcome) = clear
        \/ EnsureAssociation(s, key, over, outcome) = BeginOutboundDial(j, key, outcome)
    BY DEF EnsureAssociation
  <1>2. Good(clear)
    BY DropLinksGood
  <1> HIDE DEF clear, byPeer
  <1>3. Good(erased)
    BY <1>2, BookGood
  <1> HIDE DEF erased
  <1>4. Good(r)
    BY <1>3, BookGood
  <1> HIDE DEF r
  <1>5. Good(join(s)) /\ Good(j)
    BY <1>4, PutsGood
  <1> HIDE DEF join, j
  <1>6. Good(BeginOutboundDial(j, key, outcome)) /\ Good(BindDialAlias(s, byPeer, key))
    BY <1>5, BeginOutboundDialGood, BindDialAliasGood
  <1> QED
    BY <1>1, <1>2, <1>3, <1>5, <1>6

LEMMA OnInboundConnectionGood ==
    ASSUME NEW s, Good(s), NEW idle
    PROVE  Good(OnInboundConnection(s, idle))
  <1> DEFINE e == [s EXCEPT !.links[idle].conn = "closed"]
             t == IF AtLinkCapacity(s) /\ idle # NoLink THEN ScheduleDropLink(e, idle) ELSE s
             l == NewLink(<<"inbound", t.next>>, NoPeer, FALSE, FALSE, NoLink)
  <1>1. \/ OnInboundConnection(s, idle) = s
        \/ OnInboundConnection(s, idle) = t
        \/ OnInboundConnection(s, idle) = Insert([t EXCEPT !.next = @ + 1], t.next, l)
    BY DEF OnInboundConnection
  <1>2. Good(e)
    BY LinkFieldGood
  <1> HIDE DEF e
  <1>3. Good(t)
    BY <1>2, BookGood
  <1> HIDE DEF t
  <1>4. LinkShape(l)
    BY NewLinkShape
  <1> HIDE DEF l
  <1>5. Good(Insert([t EXCEPT !.next = @ + 1], t.next, l))
    BY <1>3, <1>4, InsertGood
  <1> QED
    BY <1>1, <1>3, <1>5

LEMMA EstablishNestedOverCarrierGood ==
    ASSUME NEW s, Good(s), NEW key, NEW initiator, NEW via, NEW unsent
    PROVE  Good(EstablishNestedOverCarrier(s, key, initiator, via, unsent))
  <1> DEFINE l == FindNestedLinkForKey(s, key)
             n == s.next
             j == [s EXCEPT !.nestw = @ \cup {l}]
             link == NewLink(key, PeerNamed(key), initiator, TRUE, via)
             first == [s EXCEPT !.next = @ + 1, !.nestw = @ \cup {s.next}]
             started == Insert(first, s.next, link)
             w == [s EXCEPT !.nestw = @ \cup {n}]
  <1>1. \/ EstablishNestedOverCarrier(s, key, initiator, via, unsent) = j
        \/ EstablishNestedOverCarrier(s, key, initiator, via, unsent) = s
        \/ EstablishNestedOverCarrier(s, key, initiator, via, unsent) = FailAssociation(started, n, FALSE)
        \/ EstablishNestedOverCarrier(s, key, initiator, via, unsent) = started
    <2> DEFINE joins == l # NoLink /\ s.links[l].phase = "Handshaking"
               done == l # NoLink /\ Connected(s, l)
               stays == done \/ (~joins /\ AtLinkCapacity(s))
               starts == IF initiator /\ unsent THEN FailAssociation(started, s.next, FALSE) ELSE started
    <2>1. EstablishNestedOverCarrier(s, key, initiator, via, unsent)
            = CASE joins -> j [] stays -> s [] OTHER -> starts
      BY Zenon DEF EstablishNestedOverCarrier
    <2> HIDE DEF joins, stays, j, started, first
    <2> QED
      BY <2>1
  <1>2. w.next = s.next /\ first = [w EXCEPT !.next = @ + 1]
    BY DEF Good, Shape
  <1>3. LinkShape(link)
    BY NewLinkShape
  <1> HIDE DEF l, n, link, first
  <1>4. Good(j) /\ Good(w)
    BY PutsGood
  <1> HIDE DEF j, w
  <1>5. Good(Insert([w EXCEPT !.next = @ + 1], w.next, link))
    BY <1>3, <1>4, InsertGood
  <1>6. Good(started)
    BY <1>2, <1>5, Zenon
  <1> HIDE DEF started
  <1> QED
    BY <1>1, <1>4, <1>6, FailAssociationGood

-----------------------------------------------------------------------------
(* Loops.                                                                  *)

\* A non-empty set of numbers has a least member.
LEMMA LeastNumber ==
    ASSUME NEW T, T \subseteq Nat, T # {}
    PROVE  \E x \in T : \A y \in T : x <= y
  <1>1. \E x \in T : \A y \in T : ~ (<<y, x>> \in OpToRel(<, Nat))
    BY NatLessThanWellFounded, WFMin
  <1>2. \A x, y \in Nat : x < y => <<x, y>> \in OpToRel(<, Nat)
    BY Zenon DEF OpToRel
  <1>3. PICK x \in T : \A y \in T : ~ (<<y, x>> \in OpToRel(<, Nat))
    BY <1>1
  <1>4. \A y \in T : ~ (y < x)
    BY <1>2, <1>3
  <1> QED
    BY <1>4

\* What holds at the start of a loop and is kept by each of its rounds holds
\* at its end.
LEMMA Rounds ==
    ASSUME NEW N \in Nat, NEW V, 0 \in V, \A n \in 1..N : n - 1 \in V => n \in V
    PROVE  N \in V
  <1> DEFINE U == {n \in 0..N : n \notin V}
  <1>1. ASSUME U # {}
        PROVE  FALSE
    <2>1. U \subseteq Nat
      OBVIOUS
    <2>2. PICK n \in U : \A k \in U : n <= k
      BY <1>1, <2>1, LeastNumber
    <2>3. n \in 1..N /\ n - 1 \in 0..N /\ ~(n <= n - 1)
      BY <2>2
    <2>4. n - 1 \in V
      BY <2>2, <2>3
    <2> QED
      BY <2>2, <2>3, <2>4
  <1> QED
    BY <1>1

\* A handshake that fails of itself.
Failed(s, id) == FailAssociation(s, id, FALSE)

LEMMA FailedGood ==
    ASSUME NEW s, Good(s), NEW id
    PROVE  Good(Failed(s, id))
  BY FailAssociationGood DEF Failed

LEMMA TickHandshakesRuns ==
    ASSUME NEW s, NEW ids, Len(ids) \in Nat
    PROVE  \E f : /\ TickHandshakes(s, ids) = f[Len(ids)]
                  /\ f[0] = s
                  /\ \A n \in 1..Len(ids) :
                        f[n] = Failed(f[n - 1], ids[n])
  <1> DEFINE base == s
             Step(t, n) == Failed(t, ids[n])
             Runs(n, g) == g = [i \in 0..n |-> IF i = 0 THEN base ELSE Step(g[i - 1], i)]
             N == Len(ids)
             V == {n \in Nat : \E g : Runs(n, g)}
             f == CHOOSE g : Runs(N, g)
  <1>1. TickHandshakes(s, ids) = f[N]
    BY Zenon DEF TickHandshakes, Failed
  <1>2. N \in Nat
    OBVIOUS
  <1> HIDE DEF Step, base
  <1>3. 0 \in V
    <2>1. Runs(0, [i \in 0..0 |-> base])
      OBVIOUS
    <2> QED
      BY <2>1
  <1>4. ASSUME NEW n \in 1..N, n - 1 \in V
        PROVE  n \in V
    <2>1. PICK g : Runs(n - 1, g)
      BY <1>4, Zenon
    <2> DEFINE y == Step(g[n - 1], n)
               h == [i \in 0..n |-> IF i = n THEN y ELSE g[i]]
    <2>2. \A i \in 0..(n - 1) : g[i] = IF i = 0 THEN base ELSE Step(g[i - 1], i)
      BY <2>1
    <2>3. n \in Nat \ {0}
      BY <1>2
    <2>4. \A i \in 0..n : h[i] = IF i = 0 THEN base ELSE Step(h[i - 1], i)
      BY <2>2, <2>3
    <2>5. Runs(n, h)
      BY <2>4
    <2> QED
      BY <2>3, <2>5
  <1>5. N \in V
    <2> HIDE DEF V, N
    <2> QED
      BY <1>2, <1>3, <1>4, Rounds
  <1>6. Runs(N, f)
    BY <1>5, Zenon
  <1> HIDE DEF f, N
  <1>7. f[0] = base /\ \A n \in 1..N : f[n] = Step(f[n - 1], n)
    BY <1>2, <1>6
  <1> QED
    BY <1>1, <1>7 DEF N, Step, base

LEMMA TickHandshakesGood ==
    ASSUME NEW s, Good(s), NEW ids, Len(ids) \in Nat
    PROVE  Good(TickHandshakes(s, ids))
  <1> DEFINE N == Len(ids)
  <1>1. N \in Nat
    OBVIOUS
  <1>2. PICK f : /\ TickHandshakes(s, ids) = f[N]
                 /\ f[0] = s
                 /\ \A n \in 1..N : f[n] = Failed(f[n - 1], ids[n])
    BY <1>1, TickHandshakesRuns
  <1> DEFINE V == {n \in 0..N : Good(f[n])}
  <1> HIDE DEF N
  <1>3. 0 \in V
    <2>1. Good(s)
      OBVIOUS
    <2> QED
      BY <1>1, <1>2, <2>1
  <1>4. ASSUME NEW n \in 1..N, n - 1 \in V
        PROVE  n \in V
    <2>1. n \in 0..N /\ Good(f[n - 1]) /\ f[n] = Failed(f[n - 1], ids[n])
      BY <1>1, <1>2, <1>4
    <2> QED
      BY <2>1, FailedGood
  <1>5. N \in V
    <2> HIDE DEF V
    <2> QED
      BY <1>1, <1>3, <1>4, Rounds
  <1> QED
    BY <1>2, <1>5

\* A queued key is dialed if somebody still waits for it.
Redialed(s, key, outcome) ==
    IF key \in s.inflight THEN BeginOutboundDial(s, key, outcome) ELSE s

LEMMA TickRetriesRuns ==
    ASSUME NEW s, NEW outcome, Len(s.retry) \in Nat
    PROVE  \E f : /\ TickRetries(s, outcome) = f[Len(s.retry)]
                  /\ f[0] = [s EXCEPT !.retry = <<>>]
                  /\ \A n \in 1..Len(s.retry) :
                        f[n] = Redialed(f[n - 1], s.retry[n], outcome)
  <1> DEFINE base == [s EXCEPT !.retry = <<>>]
             Step(t, n) == Redialed(t, s.retry[n], outcome)
             Runs(n, g) == g = [i \in 0..n |-> IF i = 0 THEN base ELSE Step(g[i - 1], i)]
             N == Len(s.retry)
             V == {n \in Nat : \E g : Runs(n, g)}
             f == CHOOSE g : Runs(N, g)
  <1>1. TickRetries(s, outcome) = f[N]
    BY Zenon DEF TickRetries, Redialed
  <1>2. N \in Nat
    OBVIOUS
  <1> HIDE DEF Step, base
  <1>3. 0 \in V
    <2>1. Runs(0, [i \in 0..0 |-> base])
      OBVIOUS
    <2> QED
      BY <2>1
  <1>4. ASSUME NEW n \in 1..N, n - 1 \in V
        PROVE  n \in V
    <2>1. PICK g : Runs(n - 1, g)
      BY <1>4, Zenon
    <2> DEFINE y == Step(g[n - 1], n)
               h == [i \in 0..n |-> IF i = n THEN y ELSE g[i]]
    <2>2. \A i \in 0..(n - 1) : g[i] = IF i = 0 THEN base ELSE Step(g[i - 1], i)
      BY <2>1
    <2>3. n \in Nat \ {0}
      BY <1>2
    <2>4. \A i \in 0..n : h[i] = IF i = 0 THEN base ELSE Step(h[i - 1], i)
      BY <2>2, <2>3
    <2>5. Runs(n, h)
      BY <2>4
    <2> QED
      BY <2>3, <2>5
  <1>5. N \in V
    <2> HIDE DEF V, N
    <2> QED
      BY <1>2, <1>3, <1>4, Rounds
  <1>6. Runs(N, f)
    BY <1>5, Zenon
  <1> HIDE DEF f, N
  <1>7. f[0] = base /\ \A n \in 1..N : f[n] = Step(f[n - 1], n)
    BY <1>2, <1>6
  <1> QED
    BY <1>1, <1>7 DEF N, Step, base

LEMMA TickRetriesGood ==
    ASSUME NEW s, Good(s), NEW outcome \in Outcomes
    PROVE  Good(TickRetries(s, outcome))
  <1> DEFINE N == Len(s.retry)
  <1>1. N \in Nat
    BY DEF Good, IsSeq
  <1>2. PICK f : /\ TickRetries(s, outcome) = f[N]
                 /\ f[0] = [s EXCEPT !.retry = <<>>]
                 /\ \A n \in 1..N : f[n] = Redialed(f[n - 1], s.retry[n], outcome)
    BY <1>1, TickRetriesRuns, ZenonT(60)
  <1> DEFINE V == {n \in 0..N : Good(f[n])}
  <1> HIDE DEF N
  <1>3. 0 \in V
    <2>1. Good([s EXCEPT !.retry = <<>>])
      BY QueueGood
    <2> QED
      BY <1>1, <1>2, <2>1
  <1>4. ASSUME NEW n \in 1..N, n - 1 \in V
        PROVE  n \in V
    <2>1. n \in 0..N /\ Good(f[n - 1]) /\ f[n] = Redialed(f[n - 1], s.retry[n], outcome)
      BY <1>1, <1>2, <1>4
    <2> QED
      BY <2>1, BeginOutboundDialGood DEF Redialed
  <1>5. N \in V
    <2> HIDE DEF V
    <2> QED
      BY <1>1, <1>3, <1>4, Rounds
  <1> QED
    BY <1>2, <1>5

LEMMA TickAdoptsRuns ==
    ASSUME NEW s, Len(s.adopt) \in Nat
    PROVE  \E f : /\ TickAdopts(s) = f[Len(s.adopt)]
                  /\ f[0] = [s EXCEPT !.adopt = <<>>]
                  /\ \A n \in 1..Len(s.adopt) :
                        f[n] =
                          BindDialAlias(f[n - 1], FirstOf(f[n - 1], ConnectedTo(f[n - 1], s.adopt[n][1])), s.adopt[n][2])
  <1> DEFINE base == [s EXCEPT !.adopt = <<>>]
             Step(t, n) ==
                BindDialAlias(t, FirstOf(t, ConnectedTo(t, s.adopt[n][1])), s.adopt[n][2])
             Runs(n, g) == g = [i \in 0..n |-> IF i = 0 THEN base ELSE Step(g[i - 1], i)]
             N == Len(s.adopt)
             V == {n \in Nat : \E g : Runs(n, g)}
             f == CHOOSE g : Runs(N, g)
  <1>1. TickAdopts(s) = f[N]
    BY Zenon DEF TickAdopts
  <1>2. N \in Nat
    OBVIOUS
  <1> HIDE DEF Step, base
  <1>3. 0 \in V
    <2>1. Runs(0, [i \in 0..0 |-> base])
      OBVIOUS
    <2> QED
      BY <2>1
  <1>4. ASSUME NEW n \in 1..N, n - 1 \in V
        PROVE  n \in V
    <2>1. PICK g : Runs(n - 1, g)
      BY <1>4, Zenon
    <2> DEFINE y == Step(g[n - 1], n)
               h == [i \in 0..n |-> IF i = n THEN y ELSE g[i]]
    <2>2. \A i \in 0..(n - 1) : g[i] = IF i = 0 THEN base ELSE Step(g[i - 1], i)
      BY <2>1
    <2>3. n \in Nat \ {0}
      BY <1>2
    <2>4. \A i \in 0..n : h[i] = IF i = 0 THEN base ELSE Step(h[i - 1], i)
      BY <2>2, <2>3
    <2>5. Runs(n, h)
      BY <2>4
    <2> QED
      BY <2>3, <2>5
  <1>5. N \in V
    <2> HIDE DEF V, N
    <2> QED
      BY <1>2, <1>3, <1>4, Rounds
  <1>6. Runs(N, f)
    BY <1>5, Zenon
  <1> HIDE DEF f, N
  <1>7. f[0] = base /\ \A n \in 1..N : f[n] = Step(f[n - 1], n)
    BY <1>2, <1>6
  <1> QED
    BY <1>1, <1>7 DEF N, Step, base

LEMMA TickAdoptsGood ==
    ASSUME NEW s, Good(s)
    PROVE  Good(TickAdopts(s))
  <1> DEFINE N == Len(s.adopt)
  <1>1. N \in Nat
    BY DEF Good, IsSeq
  <1>2. PICK f : /\ TickAdopts(s) = f[N]
                 /\ f[0] = [s EXCEPT !.adopt = <<>>]
                 /\ \A n \in 1..N : f[n] =
                          BindDialAlias(f[n - 1], FirstOf(f[n - 1], ConnectedTo(f[n - 1], s.adopt[n][1])), s.adopt[n][2])
    BY <1>1, TickAdoptsRuns
  <1> DEFINE V == {n \in 0..N : Good(f[n])}
  <1> HIDE DEF N
  <1>3. 0 \in V
    <2>1. Good([s EXCEPT !.adopt = <<>>])
      BY QueueGood
    <2> QED
      BY <1>1, <1>2, <2>1
  <1>4. ASSUME NEW n \in 1..N, n - 1 \in V
        PROVE  n \in V
    <2>1. n \in 0..N /\ Good(f[n - 1]) /\ f[n] =
                          BindDialAlias(f[n - 1], FirstOf(f[n - 1], ConnectedTo(f[n - 1], s.adopt[n][1])), s.adopt[n][2])
      BY <1>1, <1>2, <1>4
    <2> QED
      BY <2>1, BindDialAliasGood
  <1>5. N \in V
    <2> HIDE DEF V
    <2> QED
      BY <1>1, <1>3, <1>4, Rounds
  <1> QED
    BY <1>2, <1>5

LEMMA WithoutRuns ==
    ASSUME NEW q, NEW x, Len(q) \in Nat
    PROVE  \E f : /\ Without(q, x) = f[Len(q)]
                  /\ f[0] = <<>>
                  /\ \A n \in 1..Len(q) :
                        f[n] = IF q[n] = x THEN f[n - 1] ELSE Append(f[n - 1], q[n])
  <1> DEFINE base == <<>>
             Step(t, n) == IF q[n] = x THEN t ELSE Append(t, q[n])
             Runs(n, g) == g = [i \in 0..n |-> IF i = 0 THEN base ELSE Step(g[i - 1], i)]
             N == Len(q)
             V == {n \in Nat : \E g : Runs(n, g)}
             f == CHOOSE g : Runs(N, g)
  <1>1. Without(q, x) = f[N]
    BY Zenon DEF Without
  <1>2. N \in Nat
    OBVIOUS
  <1> HIDE DEF Step, base
  <1>3. 0 \in V
    <2>1. Runs(0, [i \in 0..0 |-> base])
      OBVIOUS
    <2> QED
      BY <2>1
  <1>4. ASSUME NEW n \in 1..N, n - 1 \in V
        PROVE  n \in V
    <2>1. PICK g : Runs(n - 1, g)
      BY <1>4, Zenon
    <2> DEFINE y == Step(g[n - 1], n)
               h == [i \in 0..n |-> IF i = n THEN y ELSE g[i]]
    <2>2. \A i \in 0..(n - 1) : g[i] = IF i = 0 THEN base ELSE Step(g[i - 1], i)
      BY <2>1
    <2>3. n \in Nat \ {0}
      BY <1>2
    <2>4. \A i \in 0..n : h[i] = IF i = 0 THEN base ELSE Step(h[i - 1], i)
      BY <2>2, <2>3
    <2>5. Runs(n, h)
      BY <2>4
    <2> QED
      BY <2>3, <2>5
  <1>5. N \in V
    <2> HIDE DEF V, N
    <2> QED
      BY <1>2, <1>3, <1>4, Rounds
  <1>6. Runs(N, f)
    BY <1>5, Zenon
  <1> HIDE DEF f, N
  <1>7. f[0] = base /\ \A n \in 1..N : f[n] = Step(f[n - 1], n)
    BY <1>2, <1>6
  <1> QED
    BY <1>1, <1>7 DEF N, Step, base

LEMMA WithoutIsSeq ==
    ASSUME NEW q, IsSeq(q), NEW x
    PROVE  IsSeq(Without(q, x))
  <1> DEFINE N == Len(q)
  <1>1. N \in Nat
    BY DEF IsSeq
  <1>2. PICK f : /\ Without(q, x) = f[N]
                 /\ f[0] = <<>>
                 /\ \A n \in 1..N : f[n] = IF q[n] = x THEN f[n - 1] ELSE Append(f[n - 1], q[n])
    BY <1>1, WithoutRuns
  <1> DEFINE V == {n \in 0..N : IsSeq(f[n])}
  <1> HIDE DEF N
  <1>3. 0 \in V
    <2>1. IsSeq(<<>>)
      BY DEF IsSeq, ToSet
    <2> QED
      BY <1>1, <1>2, <2>1
  <1>4. ASSUME NEW n \in 1..N, n - 1 \in V
        PROVE  n \in V
    <2>1. n \in 0..N /\ IsSeq(f[n - 1]) /\ f[n] = IF q[n] = x THEN f[n - 1] ELSE Append(f[n - 1], q[n])
      BY <1>1, <1>2, <1>4
    <2> QED
      BY <2>1, AppendIsSeq
  <1>5. N \in V
    <2> HIDE DEF V
    <2> QED
      BY <1>1, <1>3, <1>4, Rounds
  <1> QED
    BY <1>2, <1>5

LEMMA AbortInflightDialGood ==
    ASSUME NEW s, Good(s), NEW key
    PROVE  Good(AbortInflightDial(s, key))
  <1> DEFINE c == ClearBackoff(s, {key})
             a == Answer(c, key)
             q == Without(a.retry, key)
             t == [a EXCEPT !.retry = q]
             l == FindAdpLinkForKey(t, key)
  <1>1. \/ AbortInflightDial(s, key) = t
        \/ AbortInflightDial(s, key) = FailAssociation(t, l, TRUE)
        \/ AbortInflightDial(s, key) = DropStale(t, l)
    BY DEF AbortInflightDial
  <1>2. Good(c)
    BY BookGood
  <1> HIDE DEF c
  <1>3. Good(a)
    BY <1>2, BookGood
  <1> HIDE DEF a
  <1>4. IsSeq(q)
    BY <1>3, WithoutIsSeq DEF Good
  <1> HIDE DEF q
  <1>5. Good(t)
    BY <1>3, <1>4, QueuePutGood
  <1> HIDE DEF t, l
  <1>6. Good(FailAssociation(t, l, TRUE)) /\ Good(DropStale(t, l))
    BY <1>5, FailAssociationGood, BookGood DEF DropStale
  <1> QED
    BY <1>1, <1>5, <1>6

LEMMA RequestDropLinkGood ==
    ASSUME NEW s, Good(s), NEW key
    PROVE  Good(RequestDropLink(s, key))
  <1>1. ASSUME NEW x
        PROVE  Good([s EXCEPT !.pend = x])
    BY PutsGood
  <1> QED
    BY <1>1, Zenon DEF RequestDropLink

LEMMA DropsGood ==
    ASSUME NEW s, Good(s)
    PROVE  Good(CloseAllLinks(s)) /\ Good(TickDrops(s))
  <1>1. Good([s EXCEPT !.pend = {}])
    BY PutsGood
  <1> QED
    BY <1>1, DropLinksGood DEF CloseAllLinks, TickDrops

LEMMA OnNetworkChangedGood ==
    ASSUME NEW s, Good(s)
    PROVE  Good(OnNetworkChanged(s))
  <1> DEFINE probe(l) == IF l.phase = "Connected" /\ ~l.car THEN [l EXCEPT !.sus = "asked"] ELSE l
             t == [s EXCEPT !.backoff = {}]
             L == [id \in DOMAIN s.links |-> probe(s.links[id])]
  <1>1. OnNetworkChanged(s) = [s EXCEPT !.backoff = {}, !.links = L]
    BY DEF OnNetworkChanged
  <1>2. Good(t)
    BY PutsGood
  <1>3. /\ DOMAIN L = DOMAIN s.links
        /\ \A i \in DOMAIN L :
              /\ LinkShape(L[i]) /\ L[i].key = s.links[i].key /\ L[i].car = s.links[i].car
              /\ L[i].peer = s.links[i].peer /\ L[i].phase = s.links[i].phase
    BY DEF Good, LinksInv, LinkShape
  <1> HIDE DEF L
  <1>4. t.links = s.links /\ [s EXCEPT !.backoff = {}, !.links = L] = [t EXCEPT !.links = L]
    BY DEF Good, Shape
  <1> HIDE DEF t
  <1>5. Good([t EXCEPT !.links = L])
    BY <1>2, <1>3, <1>4, MapLinksGood
  <1> QED
    BY <1>1, <1>4, <1>5

LEMMA VerifyLinkGood ==
    ASSUME NEW s, Good(s), NEW key
    PROVE  Good(VerifyLink(s, key))
  <1> DEFINE l == ResolveConnectedLink(s, key)
             x == IF s.links[l].sus = "no" THEN "asked" ELSE s.links[l].sus
             v == s.verify \cup {l}
             t == [s EXCEPT !.verify = v]
  <1>1. \/ VerifyLink(s, key) = s
        \/ VerifyLink(s, key) = [s EXCEPT !.verify = v, !.links[l].sus = x]
    BY DEF VerifyLink
  <1> HIDE DEF l, v, x
  <1>2. Good(t)
    BY PutsGood
  <1>3. [s EXCEPT !.verify = v, !.links[l].sus = x] = [t EXCEPT !.links[l].sus = x]
    OBVIOUS
  <1> HIDE DEF t
  <1>4. Good([t EXCEPT !.links[l].sus = x])
    BY <1>2, LinkFieldGood
  <1> QED
    BY <1>1, <1>3, <1>4

LEMMA TickEvictsGood ==
    ASSUME NEW s, Good(s)
    PROVE  Good(TickEvicts(s))
  <1> DEFINE asked(l) == ~l.car /\ l.phase = "Connected" /\ l.conn # "closed"
             heard == {id \in DOMAIN s.links : asked(s.links[id]) /\ s.links[id].sus = "heard"}
             L == [id \in DOMAIN s.links |->
                     IF id \in heard THEN [s.links[id] EXCEPT !.sus = "no"] ELSE s.links[id]]
             v == s.verify \ heard
             u == [s EXCEPT !.links = L]
             w == [u EXCEPT !.verify = v]
  <1>1. \E ids : TickEvicts(s) = DropLinks([s EXCEPT !.links = L, !.verify = v], ids)
    BY Zenon DEF TickEvicts
  <1> HIDE DEF heard
  <1>2. /\ DOMAIN L = DOMAIN s.links
        /\ \A i \in DOMAIN L :
              /\ LinkShape(L[i]) /\ L[i].key = s.links[i].key /\ L[i].car = s.links[i].car
              /\ L[i].peer = s.links[i].peer /\ L[i].phase = s.links[i].phase
    BY DEF Good, LinksInv, LinkShape
  <1> HIDE DEF L, v
  <1>3. Good(u)
    BY <1>2, MapLinksGood
  <1>4. [s EXCEPT !.links = L, !.verify = v] = w
    OBVIOUS
  <1> HIDE DEF u
  <1>5. Good(w)
    BY <1>3, PutsGood
  <1> QED
    BY <1>1, <1>4, <1>5, DropLinksGood

LEMMA OrdersAreSeqs ==
    ASSUME NEW s, Good(s), NEW S \in SUBSET InHandshake(s), NEW q \in Orders(s, S)
    PROVE  q \in Seq(Nat)
  <1>1. s.next \in Nat \ {0} /\ S \subseteq 1..(s.next - 1)
    BY DEF Good, LinksInv, InHandshake
  <1>2. IsFiniteSet(1..(s.next - 1))
    BY <1>1, FS_Interval
  <1>3. IsFiniteSet(S)
    BY <1>1, <1>2, FS_Subset
  <1>4. Cardinality(S) \in Nat
    BY <1>3, FS_CardinalityType
  <1>5. q \in [1..Cardinality(S) -> S]
    BY DEF Orders, SetToSeqs
  <1>6. S \subseteq Nat
    BY <1>1
  <1>7. q \in [1..Cardinality(S) -> Nat]
    BY <1>5, <1>6
  <1> QED
    BY <1>4, <1>7

-----------------------------------------------------------------------------
(* The node.                                                               *)

LEMMA WalksGood ==
    ASSUME TableInv, NEW s \in Walks
    PROVE  Good(s) /\ s.links = m.links
  <1>1. PICK x : s = [m EXCEPT !.asc = x]
    BY DEF Walks
  <1>2. Elsewhere(m, [m EXCEPT !.asc = x])
    BY Puts DEF TableInv, Good
  <1> QED
    BY <1>1, <1>2, ElsewhereGood DEF TableInv, Elsewhere

LEMMA LeavesGood ==
    ASSUME NEW s, Good(s), Leaves(s)
    PROVE  TableInv'
  <1>1. Good([s EXCEPT !.asc = TRUE])
    BY PutsGood
  <1> QED
    BY <1>1, Zenon DEF Leaves, TableInv

LEMMA EmptyGood ==
    ASSUME NEW local, NEW c, NEW cands
    PROVE  Good(Empty(local, c, cands))
  <1> DEFINE e == [k \in Keys(c) |-> [peer |-> Far, cands |-> cands, index |-> 1]]
             s == Empty(local, c, cands)
             none == <<>>
  <1>1. /\ Shape(s) /\ s.links = none /\ s.index = none /\ s.pres = none /\ s.next = 1
        /\ s.retry = none /\ s.adopt = none
    <2> HIDE DEF e, none
    <2>1. s = [links |-> <<>>, index |-> <<>>, pres |-> <<>>, asc |-> TRUE, eps |-> e,
               backoff |-> {}, resolved |-> {}, dials |-> 0,
               pend |-> {}, retry |-> <<>>, adopt |-> <<>>, inflight |-> {},
               nestw |-> {}, resolving |-> {}, verify |-> {}, next |-> 1, local |-> local]
      BY DEF Empty, e
    <2> HIDE DEF s
    <2> QED
      BY <2>1 DEF Shape, none
  <1>2. DOMAIN none = {} /\ IsSeq(none)
    BY DEF IsSeq, ToSet
  <1> HIDE DEF s, none
  <1>3. LinksInv(s) /\ IndexInv(s) /\ PresInv(s)
    BY <1>1, <1>2 DEF LinksInv, IndexInv, PresInv
  <1>4. Good(s)
    BY <1>1, <1>2, <1>3 DEF Good
  <1> QED
    BY <1>4 DEF s

LEMMA AcceptedGood ==
    ASSUME NEW s, Good(s), NEW p
    PROVE  Good(Accepted(s, p))
  <1> DEFINE l == NewLink(<<"inbound", s.next>>, NoPeer, FALSE, FALSE, NoLink)
             i == Insert([s EXCEPT !.next = @ + 1], s.next, l)
             u == OnInboundConnection(s, NoLink)
             n == s.next
  <1>1. u = s \/ u = i
    BY DEF OnInboundConnection
  <1>2. Good(u)
    BY OnInboundConnectionGood
  <1>3. n \notin DOMAIN s.links
    BY DEF Good, LinksInv
  <1>4. i.links[n].phase = "Handshaking"
    <2>1. i.links = Assign(s.links, n, l)
      BY DEF Insert, Good, Shape
    <2>2. l.phase = "Handshaking"
      BY DEF NewLink
    <2> HIDE DEF l, n, i
    <2> QED
      BY <2>1, <2>2 DEF Assign
  <1> HIDE DEF u, i, n
  <1>5. n \in DOMAIN u.links => n \in InHandshake(u)
    BY <1>1, <1>3, <1>4 DEF InHandshake
  <1>6. Good(FinishEstablishment(u, n, p))
    BY <1>2, <1>5, FinishEstablishmentGood
  <1>7. Accepted(s, p) = FinishEstablishment(u, n, p) \/ Accepted(s, p) = u
    BY DEF Accepted, u, n
  <1> QED
    BY <1>2, <1>6, <1>7

LEMMA InitGood == Init => TableInv
  <1> SUFFICES ASSUME Init PROVE Good(m)
    BY DEF TableInv
  <1>1. PICK local \in Locals, cands \in Candidates(class) :
           LET s == Empty(local, class, cands)
           IN  m = CASE class = "nested" -> Accepted(s, Relay)
                     [] class = "probe"  -> Accepted(s, Far)
                     [] OTHER -> s
    BY DEF Init
  <1> DEFINE s == Empty(local, class, cands)
  <1>2. m = Accepted(s, Relay) \/ m = Accepted(s, Far) \/ m = s
    BY <1>1
  <1>3. Good(s)
    BY EmptyGood
  <1> HIDE DEF s
  <1>4. Good(Accepted(s, Relay)) /\ Good(Accepted(s, Far))
    BY <1>3, AcceptedGood
  <1> QED
    BY <1>2, <1>3, <1>4

LEMMA TickGood == TableInv /\ Tick => TableInv'
  <1> SUFFICES ASSUME TableInv, Tick PROVE TableInv'
    OBVIOUS
  <1>1. {"sent"} \subseteq Outcomes
    BY DEF Outcomes
  <1>2. PICK s \in Walks, o \in Outcomes :
           \E c \in {TickAdopts(TickRetries(TickDrops(s), o))} :
           \E late \in SUBSET InHandshake(c) :
           \E q \in Orders(c, Refused(c, "closed")), v \in Orders(c, Refused(c, "version")),
              l \in Orders(c, late) :
              Leaves(TickEvicts(TickHandshakes(c, q \o v \o l)))
    BY <1>1, Zenon DEF Tick
  <1> DEFINE a == TickDrops(s)
             b == TickRetries(a, o)
             c == TickAdopts(b)
  <1>3. PICK late \in SUBSET InHandshake(c), q \in Orders(c, Refused(c, "closed")),
             v \in Orders(c, Refused(c, "version")) :
        \E l \in Orders(c, late) : Leaves(TickEvicts(TickHandshakes(c, q \o v \o l)))
    BY <1>2, Zenon
  <1>4. PICK l \in Orders(c, late) : Leaves(TickEvicts(TickHandshakes(c, q \o v \o l)))
    BY <1>3
  <1>5. Good(a)
    BY WalksGood, DropsGood
  <1> HIDE DEF a
  <1>6. Good(b)
    BY <1>5, TickRetriesGood
  <1> HIDE DEF b
  <1>7. Good(c)
    BY <1>6, TickAdoptsGood
  <1> HIDE DEF c
  <1>8. q \in Seq(Nat) /\ v \in Seq(Nat) /\ l \in Seq(Nat)
    <2>1. Refused(c, "closed") \in SUBSET InHandshake(c) /\ Refused(c, "version") \in SUBSET InHandshake(c)
      BY DEF Refused
    <2> QED
      BY <1>7, <2>1, OrdersAreSeqs
  <1>9. Len(q \o v \o l) \in Nat
    BY <1>8
  <1> DEFINE d == TickHandshakes(c, q \o v \o l)
  <1>10. Good(d)
    BY <1>7, <1>9, TickHandshakesGood
  <1> HIDE DEF d
  <1>11. Good(TickEvicts(d))
    BY <1>10, TickEvictsGood
  <1> QED
    BY <1>4, <1>11, LeavesGood DEF d

LEMMA CapabilityArrivesGood == TableInv /\ CapabilityArrives => TableInv'
  <1> SUFFICES ASSUME TableInv, CapabilityArrives PROVE TableInv'
    OBVIOUS
  <1>0. PICK s \in Walks : \E on, k, a, peer :
           Leaves(IngestRemoteAddrs([s EXCEPT !.links[on].cap = "known"], k, peer, a))
    BY Zenon DEF CapabilityArrives
  <1>1. PICK on : \E k, a, peer :
           Leaves(IngestRemoteAddrs([s EXCEPT !.links[on].cap = "known"], k, peer, a))
    BY <1>0, Zenon
  <1> DEFINE t == [s EXCEPT !.links[on].cap = "known"]
  <1>2. PICK k, a, peer : Leaves(IngestRemoteAddrs(t, k, peer, a))
    BY <1>1
  <1>3. Good(t)
    BY WalksGood, LinkFieldGood
  <1> HIDE DEF t
  <1>4. Elsewhere(t, IngestRemoteAddrs(t, k, peer, a))
    BY <1>3, RegisterElsewhere DEF Good
  <1>5. Good(IngestRemoteAddrs(t, k, peer, a))
    BY <1>3, <1>4, ElsewhereGood
  <1> QED
    BY <1>2, <1>5, LeavesGood

LEMMA NextGood == TableInv /\ [Next]_vars => TableInv'
  <1> SUFFICES ASSUME TableInv, [Next]_vars PROVE TableInv'
    OBVIOUS
  <1>1. Good(m)
    BY DEF TableInv
  <1>2. ASSUME NEW s \in Walks
        PROVE  Good(s) /\ s.links = m.links
    BY WalksGood
  <1>3. CASE CallEnsure
    <2>1. PICK s \in Walks, k \in Keys(class), o \in Outcomes, over \in BOOLEAN :
             Leaves(EnsureAssociation(s, k, over, o))
      BY <1>3 DEF CallEnsure
    <2>2. Good(EnsureAssociation(s, k, over, o))
      BY <1>2, EnsureAssociationGood
    <2> QED
      BY <2>1, <2>2, LeavesGood
  <1>4. CASE CallAbort
    <2>1. PICK s \in Walks, k \in Keys(class) : Leaves(AbortInflightDial(s, k))
      BY <1>4 DEF CallAbort
    <2>2. Good(AbortInflightDial(s, k))
      BY <1>2, AbortInflightDialGood
    <2> QED
      BY <2>1, <2>2, LeavesGood
  <1>5. CASE CallRegister
    <2>1. PICK k, c : \/ Leaves(RegisterEndpoints(m, k, Far, c))
                      \/ Leaves(RegisterEndpoint(m, k, Far, c[1]))
      BY <1>5 DEF CallRegister
    <2>2. Elsewhere(m, RegisterEndpoints(m, k, Far, c)) /\ Elsewhere(m, RegisterEndpoint(m, k, Far, c[1]))
      BY <1>1, RegisterElsewhere DEF Good
    <2>3. Good(RegisterEndpoints(m, k, Far, c)) /\ Good(RegisterEndpoint(m, k, Far, c[1]))
      BY <1>1, <2>2, ElsewhereGood
    <2> QED
      BY <2>1, <2>3, LeavesGood
  <1>6. CASE CallUnregister
    <2>1. PICK k \in Keys(class) : Leaves(UnregisterEndpoint(m, k))
      BY <1>6 DEF CallUnregister
    <2>2. Elsewhere(m, UnregisterEndpoint(m, k))
      BY <1>1, RegisterElsewhere DEF Good
    <2>3. Good(UnregisterEndpoint(m, k))
      BY <1>1, <2>2, ElsewhereGood
    <2> QED
      BY <2>1, <2>3, LeavesGood
  <1>7. CASE CallRequestDrop
    <2>1. PICK s \in Walks, k \in Keys(class) : Leaves(RequestDropLink(s, k))
      BY <1>7 DEF CallRequestDrop
    <2>2. Good(RequestDropLink(s, k))
      BY <1>2, RequestDropLinkGood
    <2> QED
      BY <2>1, <2>2, LeavesGood
  <1>8. CASE CallNest
    <2>1. PICK s \in Walks, via \in Relays, initiator \in BOOLEAN, unsent \in BOOLEAN :
             Leaves(EstablishNestedOverCarrier(s, PeerKey(Far), initiator, via, unsent))
      BY <1>8 DEF CallNest
    <2>2. Good(EstablishNestedOverCarrier(s, PeerKey(Far), initiator, via, unsent))
      BY <1>2, EstablishNestedOverCarrierGood
    <2> QED
      BY <2>1, <2>2, LeavesGood
  <1>9. CASE CallVerify
    <2>1. PICK s \in Walks, k \in Keys(class) : Leaves(VerifyLink(s, k))
      BY <1>9 DEF CallVerify
    <2>2. Good(VerifyLink(s, k))
      BY <1>2, VerifyLinkGood
    <2> QED
      BY <2>1, <2>2, LeavesGood
  <1>10. CASE CallNetworkChanged
    BY <1>1, <1>10, OnNetworkChangedGood, LeavesGood DEF CallNetworkChanged
  <1>11. CASE CallCloseAll
    BY <1>1, <1>11, DropsGood, LeavesGood DEF CallCloseAll
  <1>12. CASE Arrives
    <2>1. PICK idle \in IdleInbound(m) \cup {NoLink} : Leaves(OnInboundConnection(m, idle))
      BY <1>12 DEF Arrives
    <2>2. Good(OnInboundConnection(m, idle))
      BY <1>1, OnInboundConnectionGood
    <2> QED
      BY <2>1, <2>2, LeavesGood
  <1>13. CASE CarrierArrives
    <2> DEFINE key == <<"carrier", m.next>>
    <2>1. PICK s \in Walks, via \in Relays :
             Leaves(EstablishNestedOverCarrier(s, key, FALSE, via, FALSE))
      BY <1>13 DEF CarrierArrives
    <2> HIDE DEF key
    <2>2. Good(EstablishNestedOverCarrier(s, key, FALSE, via, FALSE))
      BY <1>2, EstablishNestedOverCarrierGood
    <2> QED
      BY <2>1, <2>2, LeavesGood
  <1>14. CASE CapabilityArrives
    BY <1>14, CapabilityArrivesGood
  <1>15. CASE HandshakeEnds
    <2>1. PICK s \in Walks, id \in InHandshake(m) :
             \/ \E p : Leaves(FinishEstablishment(s, id, p))
             \/ Leaves(FailAssociation(s, id, FALSE))
      BY <1>15, Zenon DEF HandshakeEnds
    <2>2. id \in InHandshake(s)
      BY <1>2 DEF InHandshake
    <2>3. ASSUME NEW p PROVE Good(FinishEstablishment(s, id, p))
      BY <1>2, <2>2, FinishEstablishmentGood
    <2>4. Good(FailAssociation(s, id, FALSE))
      BY <1>2, FailAssociationGood
    <2> QED
      BY <2>1, <2>3, <2>4, LeavesGood
  <1>16. CASE Resolves
    <2>1. PICK s \in Walks, k \in m.resolving, ok \in BOOLEAN, o \in Outcomes :
             Leaves(OnHostResolved(s, k, ok, o))
      BY <1>16 DEF Resolves
    <2>2. Good(OnHostResolved(s, k, ok, o))
      BY <1>2, OnHostResolvedGood
    <2> QED
      BY <2>1, <2>2, LeavesGood
  <1>17. CASE Expires
    BY <1>1, <1>17, PutsGood DEF Expires, TableInv
  <1>18. CASE ProbeEnds
    <2>1. PICK id, x : m' = [m EXCEPT !.links[id].sus = x]
      BY <1>18, Zenon DEF ProbeEnds
    <2> QED
      BY <1>1, <2>1, LinkFieldGood DEF TableInv
  <1>19. CASE ConnectionFails
    <2>1. PICK id, c : m' = [m EXCEPT !.links[id].conn = c]
      BY <1>19, Zenon DEF ConnectionFails
    <2> QED
      BY <1>1, <2>1, LinkFieldGood DEF TableInv
  <1>20. CASE CarrierFails
    <2>1. PICK s \in Walks, id \in DOMAIN m.links :
             \/ Leaves([[s EXCEPT !.links[id].conn = "closed"] EXCEPT !.links[id].phase = "Backoff"])
             \/ Leaves(FailAssociation([s EXCEPT !.links[id].conn = "closed"], id, FALSE))
             \/ Leaves([s EXCEPT !.links[id].conn = "dead"])
      BY <1>20, Zenon DEF CarrierFails
    <2> DEFINE t == [s EXCEPT !.links[id].conn = "closed"]
               v == [s EXCEPT !.links[id].conn = "dead"]
    <2>2. Good(t) /\ Good(v)
      BY <1>2, LinkFieldGood
    <2>3. Leaves([t EXCEPT !.links[id].phase = "Backoff"]) \/ Leaves(FailAssociation(t, id, FALSE)) \/ Leaves(v)
      BY <2>1, Zenon
    <2> HIDE DEF t, v
    <2>4. Good([t EXCEPT !.links[id].phase = "Backoff"]) /\ Good(FailAssociation(t, id, FALSE))
      BY <2>2, LinkFieldGood, FailAssociationGood
    <2> QED
      BY <2>2, <2>3, <2>4, LeavesGood
  <1>21. CASE Tick
    BY <1>21, TickGood
  <1>22. CASE UNCHANGED vars
    BY <1>22, Zenon DEF vars, TableInv
  <1> QED
    BY <1>3, <1>4, <1>5, <1>6, <1>7, <1>8, <1>9, <1>10, <1>11, <1>12, <1>13, <1>14, <1>15,
       <1>16, <1>17, <1>18, <1>19, <1>20, <1>21, <1>22 DEF Next

\* The table and its names stay consistent: a link is only reached through
\* names that are its own, and a new link's id is not in use.
THEOREM TableInvHolds == Spec => []TableInv
  <1>1. Init => TableInv
    BY InitGood
  <1>2. TableInv /\ [Next]_vars => TableInv'
    BY NextGood
  <1> QED
    BY <1>1, <1>2, PTL DEF Spec

\* No call, arrival, failure or Tick leaves a name of a link that is gone or
\* goes by another: not the displacement of a key by BindDialAlias, not a
\* demotion, not the eviction of a link and the links nested in it, for any
\* number of links, dials, calls and faults.
THEOREM NamesAreLiveHolds == Spec => []NamesAreLive
  <1>1. TableInv => NamesAreLive
    BY DEF TableInv, Good, IndexInv, PresInv, NamesAreLive
  <1> QED
    BY <1>1, TableInvHolds, PTL

-----------------------------------------------------------------------------
(* Mild changes: no link comes, no dial is reopened, none gets Connected,  *)
(* and a link that stays keeps its peer's presence if it had it.           *)

Mild(s, u) ==
    /\ u.dials = s.dials
    /\ DOMAIN u.links \subseteq DOMAIN s.links
    /\ \A id \in DOMAIN u.links :
         /\ u.links[id].out = s.links[id].out /\ u.links[id].car = s.links[id].car
         /\ u.links[id].cb = s.links[id].cb \/ u.links[id].cb = FALSE
         /\ u.links[id].phase = "Connected" =>
               s.links[id].phase = "Connected" /\ u.links[id].peer = s.links[id].peer
         /\ \A p \in DOMAIN s.pres : s.pres[p] = id => p \in DOMAIN u.pres /\ u.pres[p] = id

\* Held, but for the link x, and nobody else is Connected to p.
HeldBut(s, x, p) ==
    \A id \in DOMAIN s.links :
        /\ s.links[id].car = FALSE
        /\ id # x /\ s.links[id].phase = "Connected" =>
              /\ s.links[id].peer # p
              /\ <<s.links[id].peer, "adp">> \in DOMAIN s.pres
              /\ s.pres[<<s.links[id].peer, "adp">>] = id

LEMMA MildThen ==
    ASSUME NEW s, NEW t, NEW u, Mild(s, t), Mild(t, u)
    PROVE  Mild(s, u)
  <1>1. u.dials = s.dials /\ DOMAIN u.links \subseteq DOMAIN s.links
    BY DEF Mild
  <1>2. ASSUME NEW id \in DOMAIN u.links
        PROVE  /\ u.links[id].out = s.links[id].out /\ u.links[id].car = s.links[id].car
               /\ u.links[id].cb = s.links[id].cb \/ u.links[id].cb = FALSE
               /\ u.links[id].phase = "Connected" =>
                     s.links[id].phase = "Connected" /\ u.links[id].peer = s.links[id].peer
    BY DEF Mild
  <1>3. ASSUME NEW id \in DOMAIN u.links, NEW p \in DOMAIN s.pres, s.pres[p] = id
        PROVE  p \in DOMAIN u.pres /\ u.pres[p] = id
    <2>1. id \in DOMAIN t.links
      BY DEF Mild
    <2>2. p \in DOMAIN t.pres /\ t.pres[p] = id
      BY <1>3, <2>1 DEF Mild
    <2> QED
      BY <2>2 DEF Mild
  <1> QED
    BY <1>1, <1>2, <1>3 DEF Mild

LEMMA ElsewhereMild ==
    ASSUME NEW s, NEW u, Elsewhere(s, u)
    PROVE  Mild(s, u)
  BY DEF Elsewhere, Mild

LEMMA DialsFinite ==
    ASSUME NEW s, Good(s)
    PROVE  IsFiniteSet(DialsOf(s)) /\ Cardinality(DialsOf(s)) \in Nat
  <1>1. s.next \in Nat \ {0} /\ DialsOf(s) \subseteq 1..(s.next - 1)
    BY DEF Good, LinksInv, DialsOf
  <1>2. IsFiniteSet(1..(s.next - 1))
    BY <1>1, FS_Interval
  <1>3. IsFiniteSet(DialsOf(s))
    BY <1>1, <1>2, FS_Subset
  <1> QED
    BY <1>3, FS_CardinalityType

LEMMA MildSound ==
    ASSUME NEW s, NEW u, Good(s), Mild(s, u), NEW nested, Sound(s, nested)
    PROVE  Sound(u, nested)
  <1>1. DialsOf(u) \subseteq DialsOf(s)
    BY DEF Mild, DialsOf
  <1>2. Cardinality(DialsOf(u)) \in Nat /\ Cardinality(DialsOf(u)) <= Cardinality(DialsOf(s))
    <2>1. IsFiniteSet(DialsOf(s)) /\ IsFiniteSet(DialsOf(u))
      BY <1>1, DialsFinite, FS_Subset
    <2> QED
      BY <1>1, <2>1, DialsFinite, FS_Subset, FS_CardinalityType
  <1>3. Counted(u)
    BY <1>2, DialsFinite DEF Sound, Counted, Mild
  <1>4. ASSUME Held(s)
        PROVE  Held(u)
    <2> SUFFICES ASSUME NEW id \in DOMAIN u.links
                 PROVE  /\ u.links[id].car = FALSE
                        /\ u.links[id].phase = "Connected" =>
                              /\ <<u.links[id].peer, "adp">> \in DOMAIN u.pres
                              /\ u.pres[<<u.links[id].peer, "adp">>] = id
      BY DEF Held
    <2>1. id \in DOMAIN s.links /\ u.links[id].car = FALSE
      <3>1. id \in DOMAIN s.links /\ u.links[id].car = s.links[id].car
        BY DEF Mild
      <3> QED
        BY <1>4, <3>1 DEF Held
    <2>2. ASSUME u.links[id].phase = "Connected"
          PROVE  /\ <<u.links[id].peer, "adp">> \in DOMAIN u.pres
                 /\ u.pres[<<u.links[id].peer, "adp">>] = id
      <3> DEFINE p == <<u.links[id].peer, "adp">>
      <3>1. p \in DOMAIN s.pres /\ s.pres[p] = id
        BY <1>4, <2>1, <2>2 DEF Held, Mild
      <3> HIDE DEF p
      <3>2. p \in DOMAIN u.pres /\ u.pres[p] = id
        BY <3>1 DEF Mild
      <3> QED
        BY <3>2 DEF p
    <2> QED
      BY <2>1, <2>2
  <1> QED
    BY <1>3, <1>4 DEF Sound

LEMMA MildHeldBut ==
    ASSUME NEW s, NEW u, Mild(s, u), NEW x, NEW q, HeldBut(s, x, q)
    PROVE  HeldBut(u, x, q)
  <1> SUFFICES ASSUME NEW id \in DOMAIN u.links
               PROVE  /\ u.links[id].car = FALSE
                      /\ id # x /\ u.links[id].phase = "Connected" =>
                            /\ u.links[id].peer # q
                            /\ <<u.links[id].peer, "adp">> \in DOMAIN u.pres
                            /\ u.pres[<<u.links[id].peer, "adp">>] = id
    BY DEF HeldBut
  <1>1. id \in DOMAIN s.links /\ u.links[id].car = FALSE
    <2>1. id \in DOMAIN s.links /\ u.links[id].car = s.links[id].car
      BY DEF Mild
    <2> QED
      BY <2>1 DEF HeldBut
  <1>2. ASSUME id # x, u.links[id].phase = "Connected"
        PROVE  /\ u.links[id].peer # q
               /\ <<u.links[id].peer, "adp">> \in DOMAIN u.pres
               /\ u.pres[<<u.links[id].peer, "adp">>] = id
    <2> DEFINE p == <<u.links[id].peer, "adp">>
    <2>1. p \in DOMAIN s.pres /\ s.pres[p] = id /\ u.links[id].peer # q
      BY <1>1, <1>2 DEF HeldBut, Mild
    <2> HIDE DEF p
    <2>2. p \in DOMAIN u.pres /\ u.pres[p] = id
      BY <2>1 DEF Mild
    <2> QED
      BY <2>1, <2>2 DEF p
  <1> QED
    BY <1>1, <1>2

LEMMA BookMild ==
    ASSUME NEW s, Good(s), NEW key, NEW keys
    PROVE  /\ Mild(s, s)
           /\ Mild(s, Answer(s, key))
           /\ Mild(s, ScheduleDropLink(s, key))
           /\ Mild(s, ScheduleDropByKey(s, key))
           /\ Mild(s, SetResolution(s))
           /\ Mild(s, ForgetResolution(s, key))
           /\ Mild(s, AdvanceDialCandidate(s, key))
           /\ Mild(s, ResetDialIndex(s, key))
           /\ Mild(s, ArmBackoff(s, key))
           /\ Mild(s, ClearBackoff(s, keys))
           /\ Mild(s, PromoteDialWinner(s, key))
  <1>1. Shape(s)
    BY DEF Good
  <1>2. ASSUME NEW u, Elsewhere(s, u)
        PROVE  Mild(s, u)
    BY <1>2, ElsewhereMild
  <1> QED
    BY <1>1, <1>2, Puts, BookElsewhere, PromoteElsewhere, Zenon

LEMMA PutsMild ==
    ASSUME NEW s, Good(s), NEW x
    PROVE  /\ Mild(s, [s EXCEPT !.asc = x])
           /\ Mild(s, [s EXCEPT !.backoff = x])
           /\ Mild(s, [s EXCEPT !.resolved = x])
           /\ Mild(s, [s EXCEPT !.pend = x])
           /\ Mild(s, [s EXCEPT !.inflight = x])
           /\ Mild(s, [s EXCEPT !.nestw = x])
           /\ Mild(s, [s EXCEPT !.resolving = x])
           /\ Mild(s, [s EXCEPT !.verify = x])
           /\ Mild(s, [s EXCEPT !.retry = x])
           /\ Mild(s, [s EXCEPT !.adopt = x])
  <1>1. Shape(s)
    BY DEF Good
  <1>2. ASSUME NEW u, Elsewhere(s, u)
        PROVE  Mild(s, u)
    BY <1>2, ElsewhereMild
  <1>3. Mild(s, [s EXCEPT !.retry = x])
    BY <1>1 DEF Mild, Shape
  <1>4. Mild(s, [s EXCEPT !.adopt = x])
    BY <1>1 DEF Mild, Shape
  <1> QED
    BY <1>1, <1>2, <1>3, <1>4, Puts, Zenon

LEMMA LinkPutMild ==
    ASSUME NEW s, Good(s), NEW id, NEW l,
           id \in DOMAIN s.links =>
              /\ l.out = s.links[id].out /\ l.car = s.links[id].car
              /\ l.cb = s.links[id].cb \/ l.cb = FALSE
              /\ l.phase = "Connected" =>
                    s.links[id].phase = "Connected" /\ l.peer = s.links[id].peer
    PROVE  /\ Mild(s, [s EXCEPT !.links[id] = l])
           /\ DOMAIN [s EXCEPT !.links[id] = l].links = DOMAIN s.links
  <1> DEFINE L == [s.links EXCEPT ![id] = l]
             u == [s EXCEPT !.links = L]
  <1>1. /\ DOMAIN L = DOMAIN s.links
        /\ \A i \in DOMAIN s.links : L[i] = IF i = id THEN l ELSE s.links[i]
    OBVIOUS
  <1>2. [s EXCEPT !.links[id] = l] = u
    OBVIOUS
  <1> HIDE DEF L
  <1>3. u.links = L /\ u.pres = s.pres /\ u.dials = s.dials
    BY DEF Good, Shape
  <1> HIDE DEF u
  <1>4. Mild(s, u)
    BY <1>1, <1>3 DEF Mild
  <1> QED
    BY <1>1, <1>2, <1>3, <1>4

LEMMA LinkFieldMild ==
    ASSUME NEW s, Good(s), NEW id, NEW x
    PROVE  /\ Mild(s, [s EXCEPT !.links[id].cb = FALSE])
           /\ Mild(s, [s EXCEPT !.links[id].conn = x])
           /\ Mild(s, [s EXCEPT !.links[id].sus = x])
           /\ Mild(s, [s EXCEPT !.links[id].ch0 = x])
           /\ Mild(s, [s EXCEPT !.links[id].cap = x])
           /\ Mild(s, [s EXCEPT !.links[id].phase = "Backoff"])
  <1> DEFINE l == s.links[id]
  <1>1. ASSUME NEW k,
               id \in DOMAIN s.links =>
                  /\ k.out = l.out /\ k.car = l.car /\ (k.cb = l.cb \/ k.cb = FALSE)
                  /\ k.phase = "Connected" => l.phase = "Connected" /\ k.peer = l.peer
        PROVE  Mild(s, [s EXCEPT !.links[id] = k])
    BY <1>1, LinkPutMild
  <1>2. id \in DOMAIN s.links => LinkShape(l)
    BY DEF Good, LinksInv
  <1>3. /\ [s EXCEPT !.links[id].cb = FALSE] = [s EXCEPT !.links[id] = [l EXCEPT !.cb = FALSE]]
        /\ [s EXCEPT !.links[id].conn = x] = [s EXCEPT !.links[id] = [l EXCEPT !.conn = x]]
        /\ [s EXCEPT !.links[id].sus = x] = [s EXCEPT !.links[id] = [l EXCEPT !.sus = x]]
        /\ [s EXCEPT !.links[id].ch0 = x] = [s EXCEPT !.links[id] = [l EXCEPT !.ch0 = x]]
        /\ [s EXCEPT !.links[id].cap = x] = [s EXCEPT !.links[id] = [l EXCEPT !.cap = x]]
        /\ [s EXCEPT !.links[id].phase = "Backoff"]
              = [s EXCEPT !.links[id] = [l EXCEPT !.phase = "Backoff"]]
    OBVIOUS
  <1> HIDE DEF l
  <1>4. Mild(s, [s EXCEPT !.links[id] = [l EXCEPT !.cb = FALSE]])
    BY <1>1, <1>2 DEF LinkShape
  <1>5. Mild(s, [s EXCEPT !.links[id] = [l EXCEPT !.conn = x]])
    BY <1>1, <1>2 DEF LinkShape
  <1>6. Mild(s, [s EXCEPT !.links[id] = [l EXCEPT !.sus = x]])
    BY <1>1, <1>2 DEF LinkShape
  <1>7. Mild(s, [s EXCEPT !.links[id] = [l EXCEPT !.ch0 = x]])
    BY <1>1, <1>2 DEF LinkShape
  <1>8. Mild(s, [s EXCEPT !.links[id] = [l EXCEPT !.cap = x]])
    BY <1>1, <1>2 DEF LinkShape
  <1>9. Mild(s, [s EXCEPT !.links[id] = [l EXCEPT !.phase = "Backoff"]])
    BY <1>1, <1>2 DEF LinkShape
  <1> QED
    BY <1>3, <1>4, <1>5, <1>6, <1>7, <1>8, <1>9

LEMMA MapLinksMild ==
    ASSUME NEW s, Good(s), NEW L, DOMAIN L = DOMAIN s.links,
           \A i \in DOMAIN L :
              /\ L[i].out = s.links[i].out /\ L[i].car = s.links[i].car
              /\ L[i].cb = s.links[i].cb
              /\ L[i].peer = s.links[i].peer /\ L[i].phase = s.links[i].phase
    PROVE  Mild(s, [s EXCEPT !.links = L])
  <1> DEFINE u == [s EXCEPT !.links = L]
  <1>1. u.links = L /\ u.pres = s.pres /\ u.dials = s.dials
    BY DEF Good, Shape
  <1> HIDE DEF u
  <1>2. Mild(s, u)
    BY <1>1 DEF Mild
  <1> QED
    BY <1>2 DEF u

LEMMA DropLinksMild ==
    ASSUME NEW s, Good(s), NEW ids
    PROVE  Mild(s, DropLinks(s, ids))
  <1> DEFINE gone == ids \cap DOMAIN s.links
             orphan(l) == IF l.via \in gone THEN [l EXCEPT !.conn = "closed"] ELSE l
             t == EraseById(s, gone)
             L == [id \in DOMAIN t.links |-> orphan(t.links[id])]
             nw == t.nestw \ gone
             vf == t.verify \ gone
             u == [t EXCEPT !.links = L, !.nestw = nw, !.verify = vf]
  <1>1. DropLinks(s, ids) = u
    BY DEF DropLinks
  <1>2. /\ t.dials = s.dials
        /\ t.links = Restrict(s.links, DOMAIN s.links \ gone)
        /\ t.pres = Restrict(s.pres, PresencesLeft(s, gone))
    <2> HIDE DEF gone
    <2> QED
      BY EraseByIdFields
  <1>3. Good(t)
    <2> HIDE DEF gone
    <2> QED
      BY EraseByIdGood
  <1> HIDE DEF t, gone
  <1>4. DOMAIN t.links = DOMAIN s.links \ gone /\ \A i \in DOMAIN t.links : t.links[i] = s.links[i]
    BY <1>2 DEF Restrict
  <1>5. \A p \in DOMAIN s.pres : s.pres[p] \notin gone => p \in DOMAIN t.pres /\ t.pres[p] = s.pres[p]
    BY <1>2 DEF Restrict, PresencesLeft
  <1>6. /\ DOMAIN L = DOMAIN t.links
        /\ \A i \in DOMAIN L :
              /\ L[i].out = t.links[i].out /\ L[i].car = t.links[i].car /\ L[i].cb = t.links[i].cb
              /\ L[i].peer = t.links[i].peer /\ L[i].phase = t.links[i].phase
    BY <1>3 DEF Good, LinksInv, LinkShape
  <1> HIDE DEF L, nw, vf
  <1>7. u.links = L /\ u.pres = t.pres /\ u.dials = t.dials
    BY <1>3 DEF Good, Shape
  <1> HIDE DEF u
  <1>8. Mild(s, u)
    BY <1>2, <1>4, <1>5, <1>6, <1>7 DEF Mild
  <1> QED
    BY <1>1, <1>8

LEMMA BindDialKeyMild ==
    ASSUME NEW s, Good(s), NEW id \in DOMAIN s.links, NEW key
    PROVE  Mild(s, BindDialKey(s, id, key)) /\ DOMAIN BindDialKey(s, id, key).links = DOMAIN s.links
  <1> DEFINE l == [s.links[id] EXCEPT !.key = key]
             L == [s.links EXCEPT ![id] = l]
             K == {k \in DOMAIN s.index : ~(k = s.links[id].key /\ s.index[k] = id)}
             X == Assign(Restrict(s.index, K), key, id)
             u == [s EXCEPT !.links = L, !.index = X]
  <1>1. BindDialKey(s, id, key) = s \/ BindDialKey(s, id, key) = u
    BY DEF BindDialKey
  <1>2. /\ l.peer = s.links[id].peer /\ l.car = s.links[id].car /\ l.phase = s.links[id].phase
        /\ l.out = s.links[id].out /\ l.cb = s.links[id].cb
    BY DEF Good, LinksInv, LinkShape
  <1>3. DOMAIN L = DOMAIN s.links /\ \A i \in DOMAIN L : L[i] = IF i = id THEN l ELSE s.links[i]
    OBVIOUS
  <1> HIDE DEF l, L, X
  <1>4. u.links = L /\ u.pres = s.pres /\ u.dials = s.dials
    BY DEF Good, Shape
  <1> HIDE DEF u
  <1>5. Mild(s, u) /\ Mild(s, s)
    BY <1>2, <1>3, <1>4, BookMild DEF Mild
  <1> QED
    BY <1>1, <1>3, <1>4, <1>5

LEMMA BindDialAliasMild ==
    ASSUME NEW s, Good(s), NEW id, NEW key
    PROVE  /\ Mild(s, BindDialAlias(s, id, key))
           /\ id \in DOMAIN s.links => id \in DOMAIN BindDialAlias(s, id, key).links
  <1> DEFINE other == FindByDialKey(s, key)
             taken == other \notin {NoLink, id}
             ids == IF taken THEN {other} ELSE {}
             t == DropLinks(s, ids)
             v == BindDialKey(t, id, key)
  <1>1. \/ BindDialAlias(s, id, key) = s
        \/ id \in DOMAIN s.links /\ BindDialAlias(s, id, key) = v
    BY DEF BindDialAlias
  <1>2. id \notin ids
    OBVIOUS
  <1> HIDE DEF ids
  <1>3. Good(t) /\ DOMAIN t.links = DOMAIN s.links \ ids /\ Mild(s, t)
    BY DropLinksGood, DropLinksMild
  <1> HIDE DEF t
  <1>4. id \in DOMAIN s.links => Mild(t, v) /\ id \in DOMAIN v.links
    BY <1>2, <1>3, BindDialKeyMild
  <1> HIDE DEF v
  <1>5. Mild(s, s) /\ (id \in DOMAIN s.links => Mild(s, v))
    BY <1>3, <1>4, MildThen, BookMild
  <1> QED
    BY <1>1, <1>4, <1>5

-----------------------------------------------------------------------------
(* Completions of a handshake count a dial down once, and note a presence. *)

LEMMA SetPresenceFacts ==
    ASSUME NEW s, Good(s), NEW id
    PROVE  LET p == <<s.links[id].peer, Transport(s.links[id])>>
               u == SetPresence(s, id)
           IN  /\ u.links = s.links /\ u.dials = s.dials
               /\ p \in DOMAIN u.pres /\ u.pres[p] = id
               /\ \A q \in DOMAIN s.pres : q # p => q \in DOMAIN u.pres /\ u.pres[q] = s.pres[q]
  <1> DEFINE p == <<s.links[id].peer, Transport(s.links[id])>>
             P == Assign(s.pres, p, id)
             u == [s EXCEPT !.pres = P]
  <1>1. SetPresence(s, id) = u
    BY DEF SetPresence
  <1>2. /\ p \in DOMAIN P /\ P[p] = id
        /\ \A q \in DOMAIN s.pres : q # p => q \in DOMAIN P /\ P[q] = s.pres[q]
    <2> HIDE DEF p
    <2> QED
      BY DEF Assign
  <1> HIDE DEF P
  <1>3. u.links = s.links /\ u.pres = P /\ u.dials = s.dials
    BY DEF Good, Shape
  <1> HIDE DEF u, p
  <1>4. /\ SetPresence(s, id).links = s.links /\ SetPresence(s, id).dials = s.dials
        /\ p \in DOMAIN SetPresence(s, id).pres /\ SetPresence(s, id).pres[p] = id
        /\ \A q \in DOMAIN s.pres : q # p =>
              q \in DOMAIN SetPresence(s, id).pres /\ SetPresence(s, id).pres[q] = s.pres[q]
    BY <1>1, <1>2, <1>3
  <1> QED
    BY <1>4 DEF p

\* The last one Connected takes the presence of a peer nobody else is Connected to.
LEMMA RefreshHeld ==
    ASSUME NEW s, Good(s), NEW id, NEW p, HeldBut(s, id, p),
           id \in DOMAIN s.links /\ Connected(s, id) => s.links[id].peer = p
    PROVE  Held(RefreshPresence(s, id))
  <1>1. CASE ~(id \in DOMAIN s.links /\ Connected(s, id))
    <2>1. RefreshPresence(s, id) = s
      BY <1>1 DEF RefreshPresence
    <2>2. Held(s)
      BY <1>1 DEF HeldBut, Held, Connected
    <2> QED
      BY <2>1, <2>2
  <1>2. CASE id \in DOMAIN s.links /\ Connected(s, id)
    <2> DEFINE u == SetPresence(s, id)
               q == <<p, "adp">>
    <2>1. RefreshPresence(s, id) = u
      BY <1>2 DEF RefreshPresence
    <2>2. q = <<s.links[id].peer, Transport(s.links[id])>>
      BY <1>2 DEF HeldBut, Transport
    <2>3. /\ u.links = s.links /\ q \in DOMAIN u.pres /\ u.pres[q] = id
          /\ \A r \in DOMAIN s.pres : r # q => r \in DOMAIN u.pres /\ u.pres[r] = s.pres[r]
      BY <2>2, SetPresenceFacts
    <2> HIDE DEF u
    <2>4. ASSUME NEW i \in DOMAIN s.links
          PROVE  /\ ~s.links[i].car
                 /\ s.links[i].phase = "Connected" =>
                       /\ <<s.links[i].peer, "adp">> \in DOMAIN u.pres
                       /\ u.pres[<<s.links[i].peer, "adp">>] = i
      <3>1. CASE i = id
        BY <1>2, <2>3, <3>1 DEF HeldBut
      <3>2. CASE i # id
        <4> DEFINE r == <<s.links[i].peer, "adp">>
        <4>1. ~s.links[i].car
          BY DEF HeldBut
        <4>2. s.links[i].phase = "Connected" => r \in DOMAIN s.pres /\ s.pres[r] = i /\ r # q
          BY <3>2 DEF HeldBut
        <4> HIDE DEF r, q
        <4>3. s.links[i].phase = "Connected" => r \in DOMAIN u.pres /\ u.pres[r] = i
          BY <2>3, <4>2
        <4> QED
          BY <4>1, <4>3 DEF r
      <3> QED
        BY <3>1, <3>2
    <2>5. Held(u)
      BY <2>3, <2>4 DEF Held
    <2> QED
      BY <2>1, <2>5
  <1> QED
    BY <1>1, <1>2

\* Of a link that holds its peer's presence already, nothing changes.
LEMMA RefreshKeepsHeld ==
    ASSUME NEW s, Good(s), NEW id, Held(s)
    PROVE  Held(RefreshPresence(s, id))
  <1> DEFINE p == s.links[id].peer
  <1>1. CASE ~(id \in DOMAIN s.links /\ Connected(s, id))
    BY <1>1 DEF RefreshPresence
  <1>2. CASE id \in DOMAIN s.links /\ Connected(s, id)
    <2>1. HeldBut(s, id, p)
      BY <1>2 DEF Held, HeldBut, Connected
    <2> QED
      BY <2>1, RefreshHeld
  <1> QED
    BY <1>1, <1>2

LEMMA RefreshLeaves ==
    ASSUME NEW s, Good(s), NEW id
    PROVE  RefreshPresence(s, id).links = s.links /\ RefreshPresence(s, id).dials = s.dials
  BY SetPresenceFacts DEF RefreshPresence

LEMMA RefreshSound ==
    ASSUME NEW s, Good(s), NEW id, NEW nested, Sound(s, nested)
    PROVE  Sound(RefreshPresence(s, id), nested)
  <1>1. Counted(RefreshPresence(s, id))
    BY RefreshLeaves DEF Sound, Counted, DialsOf
  <1> QED
    BY <1>1, RefreshKeepsHeld DEF Sound

\* A dial is over and no longer among the dials when it is counted down.
LEMMA FinishDialSound ==
    ASSUME NEW s, Good(s), NEW key, NEW id, NEW ok, NEW aborted, NEW nested,
           s.dials \in Nat, Cardinality(DialsOf(s)) + 1 <= s.dials, nested \/ Held(s)
    PROVE  Sound(FinishDial(s, key, id, ok, aborted), nested)
  <1> DEFINE d == DecConcurrentDials(s)
             f == ForgetResolution(d, key)
             b == IF aborted THEN f ELSE ArmBackoff(f, key)
             c == ClearBackoff(d, {key})
             w == PromoteDialWinner(c, key)
             r == RefreshPresence(w, id)
             n == AdvanceDialCandidate(f, key)
             g == ScheduleDropLink(n, id)
             h == [g EXCEPT !.retry = Append(@, key)]
             z == ResetDialIndex(b, key)
             y == ScheduleDropLink(z, id)
  <1>1. \/ FinishDial(s, key, id, ok, aborted) = Answer(r, key)
        \/ FinishDial(s, key, id, ok, aborted) = h
        \/ FinishDial(s, key, id, ok, aborted) = Answer(y, key)
    BY DEF FinishDial
  <1>2. Good(d)
    BY BookGood
  <1>3. Sound(d, nested)
    <2>1. d.links = s.links /\ d.pres = s.pres /\ d.dials = IF s.dials > 0 THEN s.dials - 1 ELSE 0
      BY DEF DecConcurrentDials, Good, Shape
    <2> HIDE DEF d
    <2>2. DialsOf(d) = DialsOf(s) /\ (Held(s) => Held(d))
      BY <2>1 DEF DialsOf, Held
    <2>3. Cardinality(DialsOf(s)) \in Nat
      BY DialsFinite
    <2> QED
      BY <2>1, <2>2, <2>3 DEF Sound, Counted
  <1> HIDE DEF d
  <1>4. Good(f) /\ Good(c) /\ Sound(f, nested) /\ Sound(c, nested)
    BY <1>2, <1>3, BookGood, BookMild, MildSound
  <1> HIDE DEF f, c
  <1>5. Good(b) /\ Good(w) /\ Good(n)
    BY <1>4, BookGood
  <1>6. Sound(b, nested) /\ Sound(w, nested) /\ Sound(n, nested)
    BY <1>4, BookMild, MildSound
  <1> HIDE DEF b, w, n
  <1>7. Good(r) /\ Good(g) /\ Good(z)
    BY <1>5, BookGood, RefreshPresenceGood
  <1>8. Sound(r, nested) /\ Sound(g, nested) /\ Sound(z, nested)
    BY <1>5, <1>6, BookMild, MildSound, RefreshSound
  <1> HIDE DEF r, g, z
  <1>9. Good(y) /\ Sound(y, nested)
    BY <1>7, <1>8, BookGood, BookMild, MildSound
  <1> HIDE DEF y
  <1>10. Sound(h, nested)
    <2>1. Mild(g, h)
      BY <1>7, PutsMild
    <2> QED
      BY <1>7, <1>8, <2>1, MildSound
  <1>11. Sound(Answer(r, key), nested) /\ Sound(Answer(y, key), nested)
    BY <1>7, <1>8, <1>9, BookMild, MildSound
  <1> QED
    BY <1>1, <1>10, <1>11

LEMMA FinishNestedCarrierMild ==
    ASSUME NEW s, Good(s), NEW id, NEW ok
    PROVE  Mild(s, FinishNestedCarrier(s, id, ok))
  <1> DEFINE p == s.links[id].peer
             adp == {o \in ConnectedTo(s, p) \ {id} : ~s.links[o].car}
             bind == ok /\ p # NoPeer /\ adp = {} /\ PeerKey(p) \notin DOMAIN s.index
             t == IF bind THEN BindDialAlias(s, id, PeerKey(p)) ELSE s
             u == [t EXCEPT !.nestw = @ \ {id}]
             v == ScheduleDropLink(u, id)
  <1>1. FinishNestedCarrier(s, id, ok) = u \/ FinishNestedCarrier(s, id, ok) = v
    BY DEF FinishNestedCarrier
  <1>2. Good(t) /\ Mild(s, t)
    BY BindDialAliasGood, BindDialAliasMild, BookMild
  <1> HIDE DEF t
  <1>3. Good(u) /\ Mild(t, u)
    BY <1>2, PutsGood, PutsMild
  <1> HIDE DEF u
  <1>4. Mild(u, v)
    BY <1>3, BookMild
  <1> HIDE DEF v
  <1>5. Mild(s, u) /\ Mild(s, v)
    BY <1>2, <1>3, <1>4, MildThen
  <1> QED
    BY <1>1, <1>5

LEMMA EstablishCbSound ==
    ASSUME NEW s, Good(s), NEW id \in DOMAIN s.links, NEW ok, NEW aborted,
           NEW nested, Sound(s, nested)
    PROVE  Sound(EstablishCb(s, id, ok, aborted), nested)
  <1> DEFINE l == s.links[id]
             t == [s EXCEPT !.links[id].cb = FALSE]
             key == s.links[id].key
  <1>1. \/ EstablishCb(s, id, ok, aborted) = s
        \/ EstablishCb(s, id, ok, aborted) = FinishNestedCarrier(t, id, ok)
        \/ /\ EstablishCb(s, id, ok, aborted) = FinishDial(t, key, id, ok, aborted)
           /\ l.cb /\ ~l.car /\ l.out
        \/ EstablishCb(s, id, ok, aborted) = t
        \/ EstablishCb(s, id, ok, aborted) = ScheduleDropLink(t, id)
    BY DEF EstablishCb
  <1>2. Good(t) /\ Mild(s, t)
    BY LinkFieldGood, LinkFieldMild
  <1>3. Sound(t, nested)
    BY <1>2, MildSound
  <1>4. ASSUME l.cb, ~l.car, l.out
        PROVE  Cardinality(DialsOf(t)) + 1 <= t.dials
    <2>1. id \in DialsOf(s)
      BY <1>4 DEF DialsOf
    <2>2. t.dials = s.dials /\ t.links = [s.links EXCEPT ![id] = [s.links[id] EXCEPT !.cb = FALSE]]
      BY DEF Good, Shape
    <2>3. LinkShape(s.links[id])
      BY DEF Good, LinksInv
    <2>4. DialsOf(t) \subseteq DialsOf(s)
      BY <1>2, <1>3 DEF Mild, DialsOf
    <2>5. id \notin DialsOf(t)
      BY <2>2, <2>3 DEF DialsOf, LinkShape
    <2>6. IsFiniteSet(DialsOf(s)) /\ Cardinality(DialsOf(s)) \in Nat
      BY DialsFinite
    <2>7. DialsOf(t) \subseteq DialsOf(s) \ {id}
      BY <2>4, <2>5
    <2>8. /\ IsFiniteSet(DialsOf(s) \ {id})
          /\ Cardinality(DialsOf(s) \ {id}) = Cardinality(DialsOf(s)) - 1
      BY <2>1, <2>6, FS_RemoveElement
    <2>9. /\ Cardinality(DialsOf(t)) <= Cardinality(DialsOf(s) \ {id})
          /\ Cardinality(DialsOf(t)) \in Nat
      BY <1>2, <2>7, <2>8, FS_Subset, DialsFinite
    <2> QED
      BY <2>2, <2>6, <2>8, <2>9 DEF Sound, Counted
  <1> HIDE DEF t, key, l
  <1>5. Sound(FinishNestedCarrier(t, id, ok), nested) /\ Sound(ScheduleDropLink(t, id), nested)
    BY <1>2, <1>3, FinishNestedCarrierMild, BookMild, MildSound
  <1>6. ASSUME l.cb, ~l.car, l.out
        PROVE  Sound(FinishDial(t, key, id, ok, aborted), nested)
    <2>1. t.dials \in Nat /\ (nested \/ Held(t))
      BY <1>3 DEF Sound, Counted
    <2>2. Cardinality(DialsOf(t)) + 1 <= t.dials
      BY <1>4, <1>6
    <2> QED
      BY <1>2, <2>1, <2>2, FinishDialSound
  <1> QED
    BY <1>1, <1>3, <1>5, <1>6

LEMMA FailedDialKeepsLinks ==
    ASSUME NEW s, Good(s), NEW key, NEW id, NEW aborted
    PROVE  FinishDial(s, key, id, FALSE, aborted).links = s.links
  <1> DEFINE d == DecConcurrentDials(s)
             f == ForgetResolution(d, key)
             b == IF aborted THEN f ELSE ArmBackoff(f, key)
             n == AdvanceDialCandidate(f, key)
             g == ScheduleDropLink(n, id)
             h == [g EXCEPT !.retry = Append(@, key)]
             z == ResetDialIndex(b, key)
             y == ScheduleDropLink(z, id)
             a == Answer(y, key)
  <1>1. FinishDial(s, key, id, FALSE, aborted) = h \/ FinishDial(s, key, id, FALSE, aborted) = a
    BY DEF FinishDial
  <1>2. ASSUME NEW t, NEW u, Elsewhere(t, u)
        PROVE  u.links = t.links /\ Shape(u)
    BY <1>2 DEF Elsewhere
  <1>3. d.links = s.links /\ Shape(d)
    BY DEF DecConcurrentDials, Good, Shape
  <1> HIDE DEF d
  <1>4. f.links = s.links /\ Shape(f)
    BY <1>2, <1>3, BookElsewhere
  <1> HIDE DEF f
  <1>5. b.links = s.links /\ Shape(b) /\ n.links = s.links /\ Shape(n)
    BY <1>2, <1>4, BookElsewhere
  <1> HIDE DEF b, n
  <1>6. z.links = s.links /\ Shape(z) /\ g.links = s.links /\ Shape(g)
    BY <1>2, <1>5, BookElsewhere
  <1> HIDE DEF z, g
  <1>7. y.links = s.links /\ Shape(y)
    BY <1>2, <1>6, BookElsewhere
  <1> HIDE DEF y
  <1>8. a.links = s.links
    BY <1>2, <1>7, BookElsewhere
  <1>9. h.links = s.links
    BY <1>6 DEF Shape
  <1> QED
    BY <1>1, <1>8, <1>9

\* A link whose handshake fails stays in the table until its drop.
LEMMA FailAssociationDomain ==
    ASSUME NEW s, Good(s), NEW id, NEW aborted
    PROVE  DOMAIN FailAssociation(s, id, aborted).links = DOMAIN s.links
  <1> DEFINE v == [s EXCEPT !.links[id].phase = "Backoff"]
             t == [v EXCEPT !.links[id].cb = FALSE]
             key == v.links[id].key
             e == EstablishCb(v, id, FALSE, aborted)
             w == [t EXCEPT !.nestw = @ \ {id}]
  <1>1. Good(v)
    BY LinkFieldGood
  <1>2. DOMAIN v.links = DOMAIN s.links
    BY DEF Good, Shape
  <1> HIDE DEF v
  <1>4. \/ e = v
        \/ e = FinishNestedCarrier(t, id, FALSE)
        \/ e = FinishDial(t, key, id, FALSE, aborted)
        \/ e = ScheduleDropLink(t, id)
    BY DEF EstablishCb
  <1>5. DOMAIN t.links = DOMAIN s.links /\ Good(t)
    <2>1. Good(t)
      BY <1>1, LinkFieldGood
    <2>2. DOMAIN t.links = DOMAIN s.links
      BY <1>1, <1>2 DEF Good, Shape
    <2> QED
      BY <2>1, <2>2
  <1> HIDE DEF t, e, key
  <1>6. FinishNestedCarrier(t, id, FALSE) = ScheduleDropLink(w, id)
    BY DEF FinishNestedCarrier
  <1>7. w.links = t.links /\ Good(w)
    BY <1>5, PutsGood, ZenonT(60) DEF Good, Shape
  <1> HIDE DEF w
  <1>8. Elsewhere(w, ScheduleDropLink(w, id)) /\ Elsewhere(t, ScheduleDropLink(t, id))
    <2>1. Shape(w) /\ Shape(t)
      BY <1>5, <1>7 DEF Good
    <2> QED
      BY <2>1, BookElsewhere
  <1>9. DOMAIN e.links = DOMAIN s.links
    <2>1. ScheduleDropLink(w, id).links = t.links /\ ScheduleDropLink(t, id).links = t.links
      BY <1>7, <1>8 DEF Elsewhere
    <2>2. FinishDial(t, key, id, FALSE, aborted).links = t.links
      BY <1>5, FailedDialKeepsLinks
    <2> QED
      BY <1>2, <1>4, <1>5, <1>6, <2>1, <2>2
  <1> QED
    BY <1>9 DEF FailAssociation, e, v

\* A handshake that fails is counted down once if it was a dial.
LEMMA FailAssociationSound ==
    ASSUME NEW s, Good(s), NEW id \in DOMAIN s.links, NEW aborted, NEW nested, Sound(s, nested)
    PROVE  /\ Sound(FailAssociation(s, id, aborted), nested)
           /\ DOMAIN FailAssociation(s, id, aborted).links = DOMAIN s.links
  <1> DEFINE v == [s EXCEPT !.links[id].phase = "Backoff"]
  <1>1. Good(v) /\ Mild(s, v)
    BY LinkFieldGood, LinkFieldMild
  <1>2. DOMAIN v.links = DOMAIN s.links
    BY DEF Good, Shape
  <1> HIDE DEF v
  <1>3. Sound(EstablishCb(v, id, FALSE, aborted), nested)
    BY <1>1, <1>2, MildSound, EstablishCbSound
  <1> QED
    BY <1>3, FailAssociationDomain DEF FailAssociation, v

LEMMA FirstOfIn ==
    ASSUME NEW s, NEW S, NEW N \in Nat, S \subseteq 1..N
    PROVE  /\ S = {} => FirstOf(s, S) = NoLink
           /\ S # {} => FirstOf(s, S) \in S /\ FirstOf(s, S) # NoLink
  <1>1. S = {} => FirstOf(s, S) = NoLink
    BY DEF FirstOf
  <1>2. ASSUME S # {}
        PROVE  FirstOf(s, S) \in S
    <2>1. \E x \in S : \A y \in S : x <= y
      <3>1. S \subseteq Nat
        OBVIOUS
      <3> QED
        BY <1>2, <3>1, LeastNumber
    <2>2. Min(S) \in S
      BY <2>1 DEF Min
    <2> DEFINE T == {x \in Nat : N - x \in S}
    <2>3. T \subseteq Nat /\ T # {}
      <3>1. PICK x \in S : TRUE
        BY <1>2
      <3>2. N - x \in Nat /\ N - (N - x) = x
        BY <3>1
      <3>3. N - x \in T
        BY <3>1, <3>2
      <3> QED
        BY <3>3
    <2>4. PICK x \in T : \A y \in T : x <= y
      BY <2>3, LeastNumber
    <2>5. ASSUME NEW y \in S
          PROVE  N - x >= y
      <3>1. N - y \in Nat /\ N - (N - y) = y
        BY <2>5
      <3>2. N - y \in T
        BY <2>5, <3>1
      <3> QED
        BY <2>4, <3>1, <3>2
    <2>6. \E z \in S : \A y \in S : z >= y
      BY <2>4, <2>5
    <2>7. Max(S) \in S
      BY <2>6 DEF Max
    <2> QED
      BY <1>2, <2>2, <2>7 DEF FirstOf
  <1> QED
    BY <1>1, <1>2 DEF NoLink

LEMMA FirstOfLinks ==
    ASSUME NEW s, Good(s), NEW t, NEW S \in SUBSET DOMAIN s.links
    PROVE  /\ S = {} => FirstOf(t, S) = NoLink
           /\ S # {} => FirstOf(t, S) \in S /\ FirstOf(t, S) # NoLink
  <1>1. s.next - 1 \in Nat /\ S \subseteq 1..(s.next - 1)
    BY DEF Good, LinksInv
  <1> QED
    BY <1>1, FirstOfIn

LEMMA AdoptAliasMild ==
    ASSUME NEW s, Good(s), NEW id
    PROVE  /\ Mild(s, AdoptAlias(s, id))
           /\ id \in DOMAIN s.links => id \in DOMAIN AdoptAlias(s, id).links
  <1>1. ASSUME NEW key
        PROVE  /\ Mild(s, BindDialAlias(s, id, key))
               /\ id \in DOMAIN s.links => id \in DOMAIN BindDialAlias(s, id, key).links
    BY BindDialAliasMild
  <1>2. Mild(s, s)
    BY BookMild
  <1>3. AdoptAlias(s, id) = s \/ \E key : AdoptAlias(s, id) = BindDialAlias(s, id, key)
    BY Zenon DEF AdoptAlias
  <1> QED
    BY <1>1, <1>2, <1>3

LEMMA DemoteLoserMild ==
    ASSUME NEW s, Good(s), NEW id
    PROVE  /\ Mild(s, DemoteLoser(s, id))
           /\ DOMAIN DemoteLoser(s, id).links = DOMAIN s.links
           /\ id \in DOMAIN s.links => DemoteLoser(s, id).links[id].phase = "Backoff"
  <1> DEFINE t == [s EXCEPT !.links[id].phase = "Backoff"]
             key == s.links[id].key
             u == ScheduleDropByKey(t, key)
  <1>1. DemoteLoser(s, id) = u
    BY DEF DemoteLoser
  <1>2. Good(t) /\ Mild(s, t)
    BY LinkFieldGood, LinkFieldMild
  <1>3. /\ DOMAIN t.links = DOMAIN s.links
        /\ id \in DOMAIN s.links => t.links[id].phase = "Backoff"
    BY DEF Good, Shape, LinksInv, LinkShape
  <1> HIDE DEF t, key
  <1>4. Mild(t, u) /\ Elsewhere(t, u)
    BY <1>2, BookMild, BookElsewhere DEF Good
  <1>5. Mild(s, u)
    BY <1>2, <1>4, MildThen
  <1> QED
    BY <1>1, <1>3, <1>4, <1>5 DEF Elsewhere

LEMMA StartCapabilityExchangeMild ==
    ASSUME NEW s, Good(s), NEW id
    PROVE  /\ Mild(s, StartCapabilityExchange(s, id))
           /\ DOMAIN StartCapabilityExchange(s, id).links = DOMAIN s.links
  <1>1. ASSUME NEW x
        PROVE  DOMAIN [s EXCEPT !.links[id].ch0 = x].links = DOMAIN s.links
    BY DEF Good, Shape
  <1> QED
    BY <1>1, LinkFieldMild, BookMild DEF StartCapabilityExchange

\* The link that comes up takes the presence, then its callback runs.
LEMMA ComesUpSound ==
    ASSUME NEW s, Good(s), NEW id \in DOMAIN s.links, NEW p, NEW nested,
           Counted(s), nested \/ HeldBut(s, id, p),
           Connected(s, id) => s.links[id].peer = p
    PROVE  Sound(EstablishCb(StartCapabilityExchange(RefreshPresence(s, id), id), id, TRUE, FALSE), nested)
  <1> DEFINE r == RefreshPresence(s, id)
             t == StartCapabilityExchange(r, id)
  <1>1. Good(r) /\ r.links = s.links /\ r.dials = s.dials
    BY RefreshPresenceGood, RefreshLeaves
  <1>2. nested \/ Held(r)
    BY RefreshHeld
  <1> HIDE DEF r
  <1>3. Sound(r, nested)
    BY <1>1, <1>2 DEF Sound, Counted, DialsOf
  <1>4. Good(t) /\ Mild(r, t) /\ DOMAIN t.links = DOMAIN s.links
    BY <1>1, StartCapabilityExchangeGood, StartCapabilityExchangeMild
  <1> HIDE DEF t
  <1>5. Sound(t, nested)
    BY <1>1, <1>3, <1>4, MildSound
  <1>6. Sound(EstablishCb(t, id, TRUE, FALSE), nested)
    BY <1>4, <1>5, EstablishCbSound
  <1> QED
    BY <1>6 DEF t, r

LEMMA OnLinkEstablishedSound ==
    ASSUME NEW s, Good(s), NEW id \in InHandshake(s), NEW p, NEW nested, Sound(s, nested)
    PROVE  Sound(OnLinkEstablished(s, id, p), nested)
  <1> DEFINE k == [[[s.links[id] EXCEPT !.phase = "Connected"] EXCEPT !.peer = p] EXCEPT !.cap = "none"]
             t == [s EXCEPT !.links[id].phase = "Connected", !.links[id].peer = p,
                            !.links[id].cap = "none"]
             S == ConnectedTo(s, p) \ {id}
             other == FirstOf(s, S)
             up(u) == EstablishCb(StartCapabilityExchange(RefreshPresence(u, id), id), id, TRUE, FALSE)
             b == [t EXCEPT !.links[id].phase = "Backoff"]
             c == ScheduleDropLink(b, id)
             x == <<p, t.links[id].key>>
             lost == [c EXCEPT !.adopt = IF t.links[id].out THEN Append(@, x) ELSE @]
             a == AdoptAlias(t, id)
             v == DemoteLoser(t, other)
             w == AdoptAlias(v, id)
  <1>1. \/ OnLinkEstablished(s, id, p) = up(a) /\ other = NoLink
        \/ /\ OnLinkEstablished(s, id, p) = up(t)
           /\ other # NoLink /\ s.links[other].car # t.links[id].car
        \/ OnLinkEstablished(s, id, p) = up(w) /\ other # NoLink
        \/ OnLinkEstablished(s, id, p) = EstablishCb(lost, id, TRUE, FALSE)
    BY DEF OnLinkEstablished
  <1>2. id \in DOMAIN s.links /\ s.links[id].phase = "Handshaking" /\ LinkShape(s.links[id])
    BY DEF InHandshake, Good, LinksInv
  <1>3. t = [s EXCEPT !.links[id] = k]
    BY DEF Good, Shape
  <1>4. /\ LinkShape(k) /\ k.key = s.links[id].key /\ k.car = s.links[id].car
        /\ k.out = s.links[id].out /\ k.cb = s.links[id].cb /\ k.phase = "Connected" /\ k.peer = p
    BY <1>2 DEF LinkShape
  <1> HIDE DEF k
  <1>5. Good(t)
    BY <1>2, <1>3, <1>4, LinkPutGood
  <1>6. /\ t.pres = s.pres /\ t.dials = s.dials /\ DOMAIN t.links = DOMAIN s.links
        /\ \A i \in DOMAIN s.links : t.links[i] = IF i = id THEN k ELSE s.links[i]
    <2> DEFINE L == [s.links EXCEPT ![id] = k]
               u == [s EXCEPT !.links = L]
    <2>1. /\ DOMAIN L = DOMAIN s.links
          /\ \A i \in DOMAIN s.links : L[i] = IF i = id THEN k ELSE s.links[i]
      OBVIOUS
    <2>2. t = u
      BY <1>3
    <2> HIDE DEF L, t
    <2>3. u.links = L /\ u.pres = s.pres /\ u.dials = s.dials
      BY DEF Good, Shape
    <2> HIDE DEF u
    <2> QED
      BY <2>1, <2>2, <2>3
  <1>7. S \in SUBSET DOMAIN s.links /\ \A i \in S : s.links[i].phase = "Connected" /\ s.links[i].peer = p /\ i # id
    BY DEF ConnectedTo, Connected
  <1>8. (S = {} => other = NoLink) /\ (S # {} => other \in S /\ other # NoLink)
    BY <1>7, FirstOfLinks
  <1>9. \A i \in DOMAIN s.links : i # id /\ s.links[i].phase = "Connected" /\ s.links[i].peer = p => i \in S
    BY DEF ConnectedTo, Connected
  <1> HIDE DEF t, other, up, S
  <1>10. Counted(t)
    <2>1. DialsOf(t) = DialsOf(s)
      BY <1>4, <1>6 DEF DialsOf
    <2> QED
      BY <1>6, <2>1 DEF Sound, Counted
  <1>11. ASSUME NEW u, Good(u), Mild(t, u), id \in DOMAIN u.links, nested \/ HeldBut(u, id, p)
         PROVE  Sound(up(u), nested)
    <2>1. Sound(u, TRUE)
      BY <1>5, <1>10, <1>11, MildSound DEF Sound
    <2>2. Connected(u, id) => u.links[id].peer = p
      BY <1>2, <1>4, <1>6, <1>11 DEF Connected, Mild
    <2>3. Counted(u)
      BY <2>1 DEF Sound
    <2> QED
      BY <1>11, <2>2, <2>3, ComesUpSound DEF up
  <1>12. CASE OnLinkEstablished(s, id, p) = up(a) /\ other = NoLink
    <2>1. Good(a) /\ Mild(t, a) /\ id \in DOMAIN a.links
      BY <1>2, <1>5, <1>6, AdoptAliasGood, AdoptAliasMild
    <2>2. S = {}
      BY <1>8, <1>12
    <2>3. nested \/ HeldBut(t, id, p)
      <3>1. ASSUME Held(s) PROVE HeldBut(t, id, p)
        <4> SUFFICES ASSUME NEW i \in DOMAIN t.links
                     PROVE  /\ t.links[i].car = FALSE
                            /\ i # id /\ t.links[i].phase = "Connected" =>
                                  /\ t.links[i].peer # p
                                  /\ <<t.links[i].peer, "adp">> \in DOMAIN t.pres
                                  /\ t.pres[<<t.links[i].peer, "adp">>] = i
          BY DEF HeldBut
        <4>1. i \in DOMAIN s.links /\ s.links[i].car = FALSE
          BY <1>6, <3>1 DEF Held
        <4>2. CASE i = id
          BY <1>4, <1>6, <4>1, <4>2
        <4>3. CASE i # id
          <5>1. t.links[i] = s.links[i]
            BY <1>6, <4>1, <4>3
          <5>2. s.links[i].phase = "Connected" => s.links[i].peer # p
            BY <1>9, <2>2, <4>1, <4>3
          <5> QED
            BY <1>6, <3>1, <4>1, <5>1, <5>2 DEF Held
        <4> QED
          BY <4>2, <4>3
      <3>2. nested \/ Held(s)
        BY Zenon DEF Sound
      <3> QED
        BY <3>1, <3>2
    <2>4. nested \/ HeldBut(a, id, p)
      BY <2>1, <2>3, MildHeldBut
    <2> QED
      BY <1>11, <1>12, <2>1, <2>4
  <1>13. CASE /\ OnLinkEstablished(s, id, p) = up(t)
              /\ other # NoLink /\ s.links[other].car # t.links[id].car
    <2>1. other \in DOMAIN s.links
      BY <1>7, <1>8, <1>13
    <2>2. nested \/ HeldBut(t, id, p)
      <3>1. t.links[id].car = s.links[id].car
        BY <1>2, <1>4, <1>6
      <3>2. ~Held(s)
        BY <1>2, <1>13, <2>1, <3>1 DEF Held
      <3> QED
        BY <3>2, Zenon DEF Sound
    <2>3. Mild(t, t)
      BY <1>5, BookMild
    <2> QED
      BY <1>2, <1>5, <1>6, <1>11, <1>13, <2>2, <2>3
  <1>14. CASE OnLinkEstablished(s, id, p) = up(w) /\ other # NoLink
    <2>1. other \in S
      BY <1>8, <1>14
    <2>2. /\ Good(v) /\ Mild(t, v) /\ DOMAIN v.links = DOMAIN t.links
          /\ v.links[other].phase = "Backoff"
      BY <1>5, <1>6, <1>7, <2>1, DemoteLoserGood, DemoteLoserMild
    <2>3. ASSUME Held(s)
          PROVE  HeldBut(v, id, p)
      <3> SUFFICES ASSUME NEW i \in DOMAIN v.links
                   PROVE  /\ v.links[i].car = FALSE
                          /\ i # id /\ v.links[i].phase = "Connected" =>
                                /\ v.links[i].peer # p
                                /\ <<v.links[i].peer, "adp">> \in DOMAIN v.pres
                                /\ v.pres[<<v.links[i].peer, "adp">>] = i
        BY DEF HeldBut
      <3>1. i \in DOMAIN s.links /\ s.links[i].car = FALSE /\ v.links[i].car = t.links[i].car
        BY <1>6, <2>2, <2>3 DEF Mild, Held
      <3>2. v.links[i].car = FALSE
        BY <1>4, <1>6, <3>1
      <3>3. ASSUME i # id, v.links[i].phase = "Connected"
            PROVE  /\ v.links[i].peer # p
                   /\ <<v.links[i].peer, "adp">> \in DOMAIN v.pres
                   /\ v.pres[<<v.links[i].peer, "adp">>] = i
        <4> DEFINE q == <<v.links[i].peer, "adp">>
        <4>1. t.links[i] = s.links[i]
          BY <1>6, <3>1, <3>3
        <4>2. s.links[i].phase = "Connected" /\ v.links[i].peer = s.links[i].peer
          BY <2>2, <3>3, <4>1 DEF Mild
        <4>3. q \in DOMAIN s.pres /\ s.pres[q] = i
          BY <2>3, <3>1, <4>2 DEF Held
        <4>4. other \in DOMAIN s.links /\ s.links[other].phase = "Connected" /\ s.links[other].peer = p
          BY <1>7, <2>1
        <4>5. s.pres[<<p, "adp">>] = other
          BY <2>3, <4>4 DEF Held
        <4>6. i # other
          BY <2>2, <3>3
        <4>7. v.links[i].peer # p
          BY <4>3, <4>5, <4>6
        <4> HIDE DEF q
        <4>8. q \in DOMAIN v.pres /\ v.pres[q] = i
          BY <1>6, <2>2, <4>3 DEF Mild
        <4> QED
          BY <4>7, <4>8 DEF q
      <3> QED
        BY <3>2, <3>3
    <2> HIDE DEF v
    <2>4. Good(w) /\ Mild(v, w) /\ id \in DOMAIN w.links
      BY <1>2, <1>6, <2>2, AdoptAliasGood, AdoptAliasMild
    <2> HIDE DEF w
    <2>5. Mild(t, w)
      BY <2>2, <2>4, MildThen
    <2>6. nested \/ HeldBut(w, id, p)
      BY <2>3, <2>4, MildHeldBut DEF Sound
    <2> QED
      BY <1>11, <1>14, <2>4, <2>5, <2>6
  <1>15. CASE OnLinkEstablished(s, id, p) = EstablishCb(lost, id, TRUE, FALSE)
    <2> DEFINE j == [k EXCEPT !.phase = "Backoff"]
    <2>1. b = [s EXCEPT !.links[id] = j]
      <3>1. b = [t EXCEPT !.links[id] = [t.links[id] EXCEPT !.phase = "Backoff"]]
        OBVIOUS
      <3>2. t.links[id] = k
        BY <1>2, <1>6
      <3> QED
        BY <1>3, <3>1, <3>2 DEF Good, Shape
    <2>2. /\ j.out = s.links[id].out /\ j.car = s.links[id].car /\ j.cb = s.links[id].cb
          /\ j.phase = "Backoff"
      BY <1>4 DEF LinkShape
    <2> HIDE DEF j
    <2>3. Mild(s, b) /\ DOMAIN b.links = DOMAIN s.links
      <3>1. PICK i : i = j
        OBVIOUS
      <3>2. id \in DOMAIN s.links =>
               /\ i.out = s.links[id].out /\ i.car = s.links[id].car
               /\ i.cb = s.links[id].cb \/ i.cb = FALSE
               /\ i.phase = "Connected" =>
                     s.links[id].phase = "Connected" /\ i.peer = s.links[id].peer
        BY <2>2, <3>1
      <3>3. Mild(s, [s EXCEPT !.links[id] = i])
        BY <3>2, LinkPutMild
      <3>5. DOMAIN [s EXCEPT !.links[id] = i].links = DOMAIN s.links
        BY DEF Good, Shape
      <3> HIDE DEF b
      <3>4. b = [s EXCEPT !.links[id] = i]
        BY <2>1, <3>1
      <3> QED
        BY <3>3, <3>4, <3>5
    <2>4. Good(b)
      BY <1>5, LinkFieldGood
    <2> HIDE DEF b
    <2>5. Good(c) /\ Mild(b, c) /\ Elsewhere(b, c)
      BY <2>4, BookGood, BookMild, BookElsewhere DEF Good
    <2> HIDE DEF c, x
    <2>6. Good(lost) /\ Mild(c, lost) /\ lost.links = c.links
      <3>1. Good([c EXCEPT !.adopt = Append(@, x)]) /\ Mild(c, [c EXCEPT !.adopt = Append(@, x)])
        BY <2>5, QueueGood, PutsMild
      <3>2. [c EXCEPT !.adopt = @] = c
        BY <2>5 DEF Good, Shape
      <3>3. Mild(c, c)
        BY <2>5, BookMild
      <3>4. lost.links = c.links
        BY <2>5 DEF Good, Shape
      <3> QED
        BY <2>5, <3>1, <3>2, <3>3, <3>4
    <2> HIDE DEF lost
    <2>7. Sound(lost, nested)
      <3>1. Sound(b, nested)
        BY <2>3, MildSound
      <3>2. Sound(c, nested)
        BY <2>4, <2>5, <3>1, MildSound
      <3> QED
        BY <2>5, <2>6, <3>2, MildSound
    <2>8. id \in DOMAIN lost.links
      BY <1>2, <2>3, <2>5, <2>6 DEF Elsewhere
    <2> QED
      BY <1>15, <2>6, <2>7, <2>8, EstablishCbSound
  <1> QED
    BY <1>1, <1>12, <1>13, <1>14, <1>15

\* A dial that authenticates as another peer keeps its phase until it fails.
LEMMA FinishEstablishmentSound ==
    ASSUME NEW s, Good(s), NEW id \in InHandshake(s), NEW p, NEW nested, Sound(s, nested)
    PROVE  Sound(FinishEstablishment(s, id, p), nested)
  <1> DEFINE k == [s.links[id] EXCEPT !.peer = p]
             t == [s EXCEPT !.links[id] = k]
  <1>1. [s EXCEPT !.links[id].peer = p] = t
    OBVIOUS
  <1>2. /\ id \in DOMAIN s.links
        /\ LinkShape(k) /\ k.key = s.links[id].key /\ k.car = s.links[id].car
        /\ k.out = s.links[id].out /\ k.cb = s.links[id].cb
        /\ k.phase = "Handshaking" /\ s.links[id].phase = "Handshaking"
    BY DEF Good, LinksInv, LinkShape, InHandshake
  <1>3. \/ FinishEstablishment(s, id, p) = FailAssociation(t, id, FALSE)
        \/ FinishEstablishment(s, id, p) = OnLinkEstablished(s, id, p)
    BY <1>1 DEF FinishEstablishment
  <1>4. PICK j : j = k
    OBVIOUS
  <1> HIDE DEF k
  <1>5. Good([s EXCEPT !.links[id] = j])
    BY <1>2, <1>4, LinkPutGood
  <1>6. id \in DOMAIN s.links =>
           /\ j.out = s.links[id].out /\ j.car = s.links[id].car
           /\ j.cb = s.links[id].cb \/ j.cb = FALSE
           /\ j.phase = "Connected" =>
                 s.links[id].phase = "Connected" /\ j.peer = s.links[id].peer
    BY <1>2, <1>4
  <1>7. Mild(s, [s EXCEPT !.links[id] = j])
    BY <1>6, LinkPutMild
  <1>8. DOMAIN [s EXCEPT !.links[id] = j].links = DOMAIN s.links
    BY DEF Good, Shape
  <1>9. t = [s EXCEPT !.links[id] = j]
    BY <1>4
  <1> HIDE DEF t
  <1>10. Good(t) /\ Mild(s, t) /\ DOMAIN t.links = DOMAIN s.links
    BY <1>5, <1>7, <1>8, <1>9, Zenon
  <1>11. Sound(t, nested)
    BY <1>10, MildSound
  <1>12. Sound(FailAssociation(t, id, FALSE), nested)
    BY <1>2, <1>10, <1>11, FailAssociationSound
  <1>13. Sound(OnLinkEstablished(s, id, p), nested)
    BY OnLinkEstablishedSound
  <1> QED
    BY <1>3, <1>12, <1>13

-----------------------------------------------------------------------------
(* A new link is in its handshake, so nobody's presence is touched, and a  *)
(* new dial is counted in the same step.                                   *)

\* A new link under the next id.
Added(s, l) == Insert([s EXCEPT !.next = @ + 1], s.next, l)

LEMMA InsertFacts ==
    ASSUME NEW s, Good(s), NEW l, NEW u, u = Added(s, l)
    PROVE  /\ u.dials = s.dials /\ u.pres = s.pres
           /\ DOMAIN u.links = DOMAIN s.links \cup {s.next}
           /\ s.next \notin DOMAIN s.links /\ u.links[s.next] = l
           /\ \A i \in DOMAIN s.links : u.links[i] = s.links[i]
  <1> DEFINE n == s.next
             n1 == s.next + 1
             L == Assign(s.links, n, l)
             X == Assign(s.index, l.key, n)
             v == [s EXCEPT !.next = n1, !.links = L, !.index = X]
  <1>1. Insert([s EXCEPT !.next = @ + 1], s.next, l) = v
    BY DEF Insert, Good, Shape
  <1>2. n \notin DOMAIN s.links
    BY DEF Good, LinksInv
  <1>3. /\ DOMAIN L = DOMAIN s.links \cup {n} /\ L[n] = l
        /\ \A i \in DOMAIN s.links : i # n => L[i] = s.links[i]
    BY DEF Assign
  <1> HIDE DEF L, X, n1
  <1>4. v.dials = s.dials /\ v.pres = s.pres /\ v.links = L
    BY DEF Good, Shape
  <1> HIDE DEF v
  <1>5. u = v
    BY <1>1, Zenon DEF Added
  <1> QED
    BY <1>2, <1>3, <1>4, <1>5

LEMMA InsertSound ==
    ASSUME NEW s, Good(s), NEW l, LinkShape(l), l.phase = "Handshaking",
           Counted(s), NEW u, u = Added(s, l)
    PROVE  /\ Held(s) /\ l.car = FALSE => Held(u)
           /\ u.dials = s.dials /\ u.dials \in Nat
           /\ Cardinality(DialsOf(u)) <= u.dials + 1
           /\ l.out = FALSE \/ l.car = TRUE => Counted(u)
           /\ s.next \in DOMAIN u.links
  <1> DEFINE n == s.next
  <1>1. /\ u.dials = s.dials /\ u.pres = s.pres
        /\ DOMAIN u.links = DOMAIN s.links \cup {n}
        /\ n \notin DOMAIN s.links /\ u.links[n] = l
        /\ \A i \in DOMAIN s.links : u.links[i] = s.links[i]
    BY InsertFacts
  <1> HIDE DEF n
  <1>2. Held(s) /\ l.car = FALSE => Held(u)
    BY <1>1 DEF Held
  <1>3. IsFiniteSet(DialsOf(s)) /\ Cardinality(DialsOf(s)) \in Nat /\ s.dials \in Nat
    BY DialsFinite DEF Counted
  <1>4. DialsOf(u) \subseteq DialsOf(s) \cup {n}
    BY <1>1 DEF DialsOf
  <1>5. /\ IsFiniteSet(DialsOf(s) \cup {n})
        /\ Cardinality(DialsOf(s) \cup {n}) = Cardinality(DialsOf(s)) + 1
    <2>1. n \notin DialsOf(s)
      BY <1>1 DEF DialsOf
    <2> QED
      BY <1>3, <2>1, FS_AddElement
  <1>6. IsFiniteSet(DialsOf(u)) /\ Cardinality(DialsOf(u)) <= Cardinality(DialsOf(s)) + 1
    BY <1>4, <1>5, FS_Subset
  <1>7. Cardinality(DialsOf(u)) \in Nat
    BY <1>6, FS_CardinalityType
  <1>8. Cardinality(DialsOf(u)) <= u.dials + 1
    BY <1>1, <1>3, <1>6, <1>7 DEF Counted
  <1>9. ASSUME l.out = FALSE \/ l.car = TRUE
        PROVE  Counted(u)
    <2>1. DialsOf(u) = DialsOf(s)
      BY <1>1, <1>9 DEF DialsOf
    <2> QED
      BY <1>1, <2>1 DEF Counted
  <1> QED
    BY <1>1, <1>2, <1>3, <1>8, <1>9 DEF n

LEMMA BeginOutboundDialSound ==
    ASSUME NEW s, Good(s), NEW key, NEW outcome \in Outcomes, NEW nested, Sound(s, nested)
    PROVE  Sound(BeginOutboundDial(s, key, outcome), nested)
  <1> DEFINE l == NewLink(key, s.eps[key].peer, TRUE, FALSE, NoLink)
             i == Insert([s EXCEPT !.next = @ + 1], s.next, l)
             dialed == IncConcurrentDials(i)
             r == ResetDialIndex(s, key)
             n == s.next
             v == [s EXCEPT !.resolving = @ \cup {key}]
  <1>1. \/ BeginOutboundDial(s, key, outcome) = Answer(r, key)
        \/ BeginOutboundDial(s, key, outcome) = Answer(s, key)
        \/ BeginOutboundDial(s, key, outcome) = v
        \/ BeginOutboundDial(s, key, outcome) = dialed
        \/ BeginOutboundDial(s, key, outcome) = FailAssociation(dialed, n, FALSE)
    BY DEF BeginOutboundDial, Outcomes
  <1>2. LinkShape(l) /\ l.phase = "Handshaking" /\ l.car = FALSE
    BY NewLinkShape DEF NewLink
  <1> HIDE DEF l
  <1>3. Good(i) /\ Good(r)
    BY <1>2, InsertGood, BookGood
  <1>4. /\ nested \/ Held(i)
        /\ i.dials \in Nat /\ Cardinality(DialsOf(i)) <= i.dials + 1 /\ n \in DOMAIN i.links
    <2>1. i = Added(s, l)
      BY Zenon DEF Added
    <2>2. Counted(s) /\ (nested \/ Held(s))
      BY DEF Sound
    <2>3. ASSUME NEW u, u = Added(s, l)
          PROVE  /\ Held(s) => Held(u)
                 /\ u.dials \in Nat /\ Cardinality(DialsOf(u)) <= u.dials + 1
                 /\ s.next \in DOMAIN u.links
      BY <1>2, <2>2, <2>3, InsertSound
    <2> HIDE DEF i
    <2> QED
      BY <2>1, <2>2, <2>3
  <1> HIDE DEF i, n
  <1>5. Good(dialed)
    BY <1>3, BookGood
  <1>6. dialed.links = i.links /\ dialed.pres = i.pres /\ dialed.dials = i.dials + 1
    BY <1>3 DEF IncConcurrentDials, Good, Shape
  <1> HIDE DEF dialed
  <1>7. Sound(dialed, nested)
    <2>1. DialsOf(dialed) = DialsOf(i)
      BY <1>6 DEF DialsOf
    <2>2. Held(i) => Held(dialed)
      BY <1>6 DEF Held
    <2>3. Counted(dialed)
      BY <1>4, <1>6, <2>1 DEF Counted
    <2> QED
      BY <1>4, <2>2, <2>3 DEF Sound
  <1>8. Sound(r, nested) /\ Sound(Answer(s, key), nested) /\ Sound(v, nested)
    <2>1. Mild(s, r) /\ Mild(s, Answer(s, key)) /\ Mild(s, v)
      BY BookMild, PutsMild
    <2> HIDE DEF r, v
    <2> QED
      BY <2>1, MildSound
  <1> HIDE DEF r, v
  <1>9. Sound(Answer(r, key), nested)
    BY <1>3, <1>8, BookMild, MildSound
  <1>10. Sound(FailAssociation(dialed, n, FALSE), nested)
    BY <1>4, <1>5, <1>6, <1>7, FailAssociationSound
  <1> QED
    BY <1>1, <1>7, <1>8, <1>9, <1>10

LEMMA FailCandidateSound ==
    ASSUME NEW s, Good(s), NEW key, NEW outcome \in Outcomes, NEW nested, Sound(s, nested)
    PROVE  Sound(FailCandidate(s, key, outcome), nested)
  <1> DEFINE n == AdvanceDialCandidate(s, key)
             r == ResetDialIndex(s, key)
             b == ArmBackoff(r, key)
  <1>1. \/ FailCandidate(s, key, outcome) = BeginOutboundDial(n, key, outcome)
        \/ FailCandidate(s, key, outcome) = Answer(b, key)
    BY DEF FailCandidate
  <1>2. Good(n) /\ Good(r) /\ Mild(s, n) /\ Mild(s, r)
    BY BookGood, BookMild
  <1> HIDE DEF n, r
  <1>3. Sound(n, nested) /\ Sound(r, nested)
    BY <1>2, MildSound
  <1>4. Good(b) /\ Mild(r, b)
    BY <1>2, BookGood, BookMild
  <1> HIDE DEF b
  <1>5. Sound(b, nested)
    BY <1>2, <1>3, <1>4, MildSound
  <1>6. Mild(b, Answer(b, key))
    BY <1>4, BookMild
  <1>7. Sound(Answer(b, key), nested)
    BY <1>4, <1>5, <1>6, MildSound
  <1> QED
    BY <1>1, <1>2, <1>3, <1>7, BeginOutboundDialSound

LEMMA OnHostResolvedSound ==
    ASSUME NEW s, Good(s), NEW key, NEW ok, NEW outcome \in Outcomes, NEW nested, Sound(s, nested)
    PROVE  Sound(OnHostResolved(s, key, ok, outcome), nested)
  <1> DEFINE r == IF ok THEN SetResolution(s) ELSE s
             t == [r EXCEPT !.resolving = @ \ {key}]
  <1>1. \/ OnHostResolved(s, key, ok, outcome) = t
        \/ OnHostResolved(s, key, ok, outcome) = FailCandidate(t, key, outcome)
        \/ OnHostResolved(s, key, ok, outcome) = BeginOutboundDial(t, key, outcome)
    BY DEF OnHostResolved
  <1>2. Good(r) /\ Mild(s, r)
    BY BookGood, BookMild
  <1> HIDE DEF r
  <1>3. Good(t) /\ Mild(r, t)
    BY <1>2, PutsGood, PutsMild
  <1> HIDE DEF t
  <1>4. Sound(t, nested)
    BY <1>2, <1>3, MildThen, MildSound
  <1> QED
    BY <1>1, <1>3, <1>4, FailCandidateSound, BeginOutboundDialSound

LEMMA EnsureAssociationSound ==
    ASSUME NEW s, Good(s), NEW key, NEW over, NEW outcome \in Outcomes, NEW nested, Sound(s, nested)
    PROVE  Sound(EnsureAssociation(s, key, over, outcome), nested)
  <1> DEFINE byPeer == IF key \in DOMAIN s.eps THEN FindByPeerId(s, s.eps[key].peer) ELSE NoLink
             adp == FindAdpLinkForKey(s, key)
             clear == IF adp # NoLink /\ ~Connected(s, adp) THEN DropLinks(s, {adp}) ELSE s
             erased == IF over THEN ClearBackoff(clear, {key}) ELSE clear
             join(t) == [t EXCEPT !.inflight = @ \cup {key}]
             r == ResetDialIndex(erased, key)
             j == join(r)
             y == join(s)
  <1>1. \/ EnsureAssociation(s, key, over, outcome) = s
        \/ EnsureAssociation(s, key, over, outcome) = BindDialAlias(s, byPeer, key)
        \/ EnsureAssociation(s, key, over, outcome) = y
        \/ EnsureAssociation(s, key, over, outcome) = erased
        \/ EnsureAssociation(s, key, over, outcome) = clear
        \/ EnsureAssociation(s, key, over, outcome) = BeginOutboundDial(j, key, outcome)
    BY DEF EnsureAssociation
  <1>2. Good(clear) /\ Mild(s, clear)
    BY DropLinksGood, DropLinksMild, BookMild
  <1> HIDE DEF clear, byPeer
  <1>3. Good(erased) /\ Mild(clear, erased)
    BY <1>2, BookGood, BookMild
  <1> HIDE DEF erased
  <1>4. Good(r) /\ Mild(erased, r)
    BY <1>3, BookGood, BookMild
  <1> HIDE DEF r
  <1>5. Mild(s, y) /\ Good(j) /\ Mild(r, j)
    BY <1>4, PutsGood, PutsMild
  <1> HIDE DEF join, j, y
  <1>6. Sound(clear, nested) /\ Sound(y, nested)
    BY <1>2, <1>5, MildSound
  <1>7. Sound(erased, nested)
    BY <1>2, <1>3, <1>6, MildSound
  <1>8. Sound(r, nested)
    BY <1>3, <1>4, <1>7, MildSound
  <1>9. Sound(j, nested)
    BY <1>4, <1>5, <1>8, MildSound
  <1>10. Sound(BeginOutboundDial(j, key, outcome), nested)
    BY <1>5, <1>9, BeginOutboundDialSound
  <1>11. Sound(BindDialAlias(s, byPeer, key), nested)
    BY BindDialAliasMild, MildSound
  <1> QED
    BY <1>1, <1>6, <1>7, <1>10, <1>11

LEMMA OnInboundConnectionSound ==
    ASSUME NEW s, Good(s), NEW idle, NEW nested, Sound(s, nested)
    PROVE  Sound(OnInboundConnection(s, idle), nested)
  <1> DEFINE e == [s EXCEPT !.links[idle].conn = "closed"]
             d == ScheduleDropLink(e, idle)
             t == IF AtLinkCapacity(s) /\ idle # NoLink THEN d ELSE s
             l == NewLink(<<"inbound", t.next>>, NoPeer, FALSE, FALSE, NoLink)
             i == Insert([t EXCEPT !.next = @ + 1], t.next, l)
  <1>1. \/ OnInboundConnection(s, idle) = s
        \/ OnInboundConnection(s, idle) = t
        \/ OnInboundConnection(s, idle) = i
    BY DEF OnInboundConnection
  <1>2. Good(e) /\ Mild(s, e)
    BY LinkFieldGood, LinkFieldMild
  <1> HIDE DEF e
  <1>3. Good(d) /\ Mild(e, d)
    BY <1>2, BookGood, BookMild
  <1> HIDE DEF d
  <1>4. Sound(e, nested)
    BY <1>2, MildSound
  <1>5. Sound(d, nested)
    BY <1>2, <1>3, <1>4, MildSound
  <1>6. Good(t) /\ Sound(t, nested)
    BY <1>3, <1>5
  <1> HIDE DEF t
  <1>7. LinkShape(l) /\ l.phase = "Handshaking" /\ l.car = FALSE /\ l.out = FALSE
    BY NewLinkShape DEF NewLink
  <1>8. i = Added(t, l)
    BY Zenon DEF Added
  <1> HIDE DEF l, i
  <1>9. Counted(t) /\ (nested \/ Held(t))
    BY <1>6 DEF Sound
  <1>10. ASSUME NEW u, u = Added(t, l)
         PROVE  Counted(u) /\ (Held(t) => Held(u))
    BY <1>6, <1>7, <1>9, <1>10, InsertSound
  <1>11. Sound(i, nested)
    BY <1>8, <1>9, <1>10 DEF Sound
  <1> QED
    BY <1>1, <1>6, <1>11

\* Only the dials are counted beside nested links.
LEMMA EstablishNestedOverCarrierSound ==
    ASSUME NEW s, Good(s), NEW key, NEW initiator, NEW via, NEW unsent, Counted(s)
    PROVE  Counted(EstablishNestedOverCarrier(s, key, initiator, via, unsent))
  <1> DEFINE l == FindNestedLinkForKey(s, key)
             n == s.next
             j == [s EXCEPT !.nestw = @ \cup {l}]
             link == NewLink(key, PeerNamed(key), initiator, TRUE, via)
             first == [s EXCEPT !.next = @ + 1, !.nestw = @ \cup {s.next}]
             started == Insert(first, s.next, link)
             w == [s EXCEPT !.nestw = @ \cup {n}]
             result == EstablishNestedOverCarrier(s, key, initiator, via, unsent)
             last == FailAssociation(started, n, FALSE)
  <1>1. result = j \/ result = s \/ result = last \/ result = started
    <2> DEFINE joins == l # NoLink /\ s.links[l].phase = "Handshaking"
               done == l # NoLink /\ Connected(s, l)
               stays == done \/ (~joins /\ AtLinkCapacity(s))
               starts == IF initiator /\ unsent THEN FailAssociation(started, s.next, FALSE) ELSE started
    <2>1. result = CASE joins -> j [] stays -> s [] OTHER -> starts
      BY Zenon DEF EstablishNestedOverCarrier
    <2>2. starts = last \/ starts = started
      BY Zenon
    <2> HIDE DEF joins, stays, j, started, first, result, starts, last
    <2> QED
      BY <2>1, <2>2
  <1>2. w.next = s.next /\ first = [w EXCEPT !.next = @ + 1]
    BY DEF Good, Shape
  <1>3. LinkShape(link) /\ link.phase = "Handshaking" /\ link.car = TRUE
    BY NewLinkShape DEF NewLink
  <1> HIDE DEF l, n, link, first
  <1>4. Good(j) /\ Good(w) /\ Mild(s, j) /\ Mild(s, w)
    BY PutsGood, PutsMild
  <1>5. Sound(s, TRUE)
    BY DEF Sound
  <1> HIDE DEF j, w
  <1>6. Sound(j, TRUE) /\ Sound(w, TRUE)
    BY <1>4, <1>5, MildSound
  <1>7. Counted(j) /\ Counted(w)
    BY <1>6 DEF Sound
  <1>8. ASSUME NEW u, u = Added(w, link)
        PROVE  Good(u) /\ Counted(u) /\ w.next \in DOMAIN u.links
    <2>1. Good(Insert([w EXCEPT !.next = @ + 1], w.next, link))
      BY <1>3, <1>4, InsertGood
    <2>2. Good(u)
      BY <1>8, <2>1, Zenon DEF Added
    <2> QED
      BY <1>3, <1>4, <1>7, <1>8, <2>2, InsertSound
  <1>9. started = Added(w, link)
    BY <1>2, Zenon DEF Added
  <1> HIDE DEF started
  <1>10. Good(started) /\ Counted(started) /\ n \in DOMAIN started.links
    BY <1>2, <1>8, <1>9 DEF n
  <1>11. Sound(started, TRUE)
    BY <1>10 DEF Sound
  <1>12. Sound(last, TRUE)
    BY <1>10, <1>11, FailAssociationSound
  <1> HIDE DEF last, result
  <1>13. Counted(last)
    BY <1>12 DEF Sound
  <1>14. Counted(result)
    BY <1>1, <1>7, <1>10, <1>13
  <1> QED
    BY <1>14 DEF result

LEMMA FindAdpLinkForKeyIn ==
    ASSUME NEW s, Good(s), NEW key, FindAdpLinkForKey(s, key) # NoLink
    PROVE  FindAdpLinkForKey(s, key) \in DOMAIN s.links
  <1> DEFINE l == FindByDialKey(s, key)
             same == {id \in DOMAIN s.links : s.links[id].car = FALSE /\ s.links[id].key = key}
             first == FirstOf(s, same)
  <1>1. \/ FindAdpLinkForKey(s, key) = l /\ l # NoLink
        \/ FindAdpLinkForKey(s, key) = first
    BY DEF FindAdpLinkForKey, FindOfTransport
  <1>2. l # NoLink => l \in DOMAIN s.links
    BY DEF FindByDialKey
  <1>3. same \in SUBSET DOMAIN s.links
    OBVIOUS
  <1> HIDE DEF same
  <1>4. first # NoLink => first \in DOMAIN s.links
    BY <1>3, FirstOfLinks
  <1> QED
    BY <1>1, <1>2, <1>4

LEMMA AbortInflightDialSound ==
    ASSUME NEW s, Good(s), NEW key, NEW nested, Sound(s, nested)
    PROVE  Sound(AbortInflightDial(s, key), nested)
  <1> DEFINE c == ClearBackoff(s, {key})
             a == Answer(c, key)
             q == Without(a.retry, key)
             t == [a EXCEPT !.retry = q]
             l == FindAdpLinkForKey(t, key)
  <1>1. \/ AbortInflightDial(s, key) = t
        \/ AbortInflightDial(s, key) = FailAssociation(t, l, TRUE) /\ l # NoLink
        \/ AbortInflightDial(s, key) = DropStale(t, l)
    BY DEF AbortInflightDial
  <1>2. Good(c) /\ Mild(s, c)
    BY BookGood, BookMild
  <1> HIDE DEF c
  <1>3. Good(a) /\ Mild(c, a)
    BY <1>2, BookGood, BookMild
  <1> HIDE DEF a
  <1>4. IsSeq(q)
    BY <1>3, WithoutIsSeq DEF Good
  <1> HIDE DEF q
  <1>5. Good(t) /\ Mild(a, t)
    BY <1>3, <1>4, QueuePutGood, PutsMild
  <1> HIDE DEF t
  <1>6. Sound(a, nested)
    BY <1>2, <1>3, MildThen, MildSound
  <1>7. Sound(t, nested)
    BY <1>3, <1>5, <1>6, MildSound
  <1>8. l # NoLink => l \in DOMAIN t.links
    BY <1>5, FindAdpLinkForKeyIn
  <1> HIDE DEF l
  <1>9. l # NoLink => Sound(FailAssociation(t, l, TRUE), nested)
    BY <1>5, <1>7, <1>8, FailAssociationSound
  <1>10. Mild(t, DropStale(t, l))
    BY <1>5, BookMild DEF DropStale
  <1>11. Sound(DropStale(t, l), nested)
    BY <1>5, <1>7, <1>10, MildSound
  <1> QED
    BY <1>1, <1>7, <1>9, <1>11

LEMMA DropsMild ==
    ASSUME NEW s, Good(s), NEW key
    PROVE  /\ Mild(s, CloseAllLinks(s)) /\ Mild(s, TickDrops(s))
           /\ Mild(s, RequestDropLink(s, key))
  <1> DEFINE t == [s EXCEPT !.pend = {}]
  <1>1. Good(t) /\ Mild(s, t)
    BY PutsGood, PutsMild
  <1>2. CloseAllLinks(s) = DropLinks(t, DOMAIN s.links) /\ TickDrops(s) = DropLinks(t, s.pend)
    BY DEF CloseAllLinks, TickDrops
  <1> HIDE DEF t
  <1>3. Mild(s, CloseAllLinks(s)) /\ Mild(s, TickDrops(s))
    BY <1>1, <1>2, DropLinksMild, MildThen
  <1>4. ASSUME NEW x
        PROVE  Mild(s, [s EXCEPT !.pend = x])
    BY PutsMild
  <1>5. Mild(s, RequestDropLink(s, key))
    BY <1>4, Zenon DEF RequestDropLink
  <1> QED
    BY <1>3, <1>5

LEMMA OnNetworkChangedMild ==
    ASSUME NEW s, Good(s)
    PROVE  Mild(s, OnNetworkChanged(s))
  <1> DEFINE probe(l) == IF l.phase = "Connected" /\ ~l.car THEN [l EXCEPT !.sus = "asked"] ELSE l
             t == [s EXCEPT !.backoff = {}]
             L == [id \in DOMAIN s.links |-> probe(s.links[id])]
  <1>1. OnNetworkChanged(s) = [s EXCEPT !.backoff = {}, !.links = L]
    BY DEF OnNetworkChanged
  <1>2. Good(t) /\ Mild(s, t)
    BY PutsGood, PutsMild
  <1>3. /\ DOMAIN L = DOMAIN s.links
        /\ \A i \in DOMAIN L :
              /\ L[i].out = s.links[i].out /\ L[i].car = s.links[i].car /\ L[i].cb = s.links[i].cb
              /\ L[i].peer = s.links[i].peer /\ L[i].phase = s.links[i].phase
    BY DEF Good, LinksInv, LinkShape
  <1> HIDE DEF L
  <1>4. t.links = s.links /\ [s EXCEPT !.backoff = {}, !.links = L] = [t EXCEPT !.links = L]
    BY DEF Good, Shape
  <1> HIDE DEF t
  <1>5. Mild(t, [t EXCEPT !.links = L])
    BY <1>2, <1>3, <1>4, MapLinksMild
  <1>6. Mild(s, [t EXCEPT !.links = L])
    BY <1>2, <1>5, MildThen
  <1> QED
    BY <1>1, <1>4, <1>6

LEMMA VerifyLinkMild ==
    ASSUME NEW s, Good(s), NEW key
    PROVE  Mild(s, VerifyLink(s, key))
  <1> DEFINE l == ResolveConnectedLink(s, key)
             x == IF s.links[l].sus = "no" THEN "asked" ELSE s.links[l].sus
             v == s.verify \cup {l}
             t == [s EXCEPT !.verify = v]
  <1>1. \/ VerifyLink(s, key) = s
        \/ VerifyLink(s, key) = [s EXCEPT !.verify = v, !.links[l].sus = x]
    BY DEF VerifyLink
  <1> HIDE DEF l, v, x
  <1>2. Good(t) /\ Mild(s, t) /\ Mild(s, s)
    BY PutsGood, PutsMild, BookMild
  <1>3. [s EXCEPT !.verify = v, !.links[l].sus = x] = [t EXCEPT !.links[l].sus = x]
    OBVIOUS
  <1> HIDE DEF t
  <1>4. Mild(t, [t EXCEPT !.links[l].sus = x])
    BY <1>2, LinkFieldMild
  <1>5. Mild(s, [t EXCEPT !.links[l].sus = x])
    BY <1>2, <1>4, MildThen
  <1> QED
    BY <1>1, <1>2, <1>3, <1>5

LEMMA TickEvictsMild ==
    ASSUME NEW s, Good(s)
    PROVE  Mild(s, TickEvicts(s))
  <1> DEFINE asked(l) == ~l.car /\ l.phase = "Connected" /\ l.conn # "closed"
             heard == {id \in DOMAIN s.links : asked(s.links[id]) /\ s.links[id].sus = "heard"}
             L == [id \in DOMAIN s.links |->
                     IF id \in heard THEN [s.links[id] EXCEPT !.sus = "no"] ELSE s.links[id]]
             v == s.verify \ heard
             u == [s EXCEPT !.links = L]
             w == [u EXCEPT !.verify = v]
  <1>1. \E ids : TickEvicts(s) = DropLinks([s EXCEPT !.links = L, !.verify = v], ids)
    BY Zenon DEF TickEvicts
  <1> HIDE DEF heard
  <1>2. /\ DOMAIN L = DOMAIN s.links
        /\ \A i \in DOMAIN L :
              /\ LinkShape(L[i]) /\ L[i].key = s.links[i].key /\ L[i].car = s.links[i].car
              /\ L[i].out = s.links[i].out /\ L[i].cb = s.links[i].cb
              /\ L[i].peer = s.links[i].peer /\ L[i].phase = s.links[i].phase
    BY DEF Good, LinksInv, LinkShape
  <1> HIDE DEF L, v
  <1>3. Good(u) /\ Mild(s, u)
    BY <1>2, MapLinksGood, MapLinksMild
  <1>4. [s EXCEPT !.links = L, !.verify = v] = w
    OBVIOUS
  <1> HIDE DEF u
  <1>5. Good(w) /\ Mild(u, w)
    BY <1>3, PutsGood, PutsMild
  <1>6. Mild(s, w)
    BY <1>3, <1>5, MildThen
  <1>7. PICK ids : TickEvicts(s) = DropLinks(w, ids)
    BY <1>1, <1>4, Zenon
  <1> HIDE DEF w
  <1>8. Mild(w, DropLinks(w, ids))
    BY <1>5, DropLinksMild
  <1> QED
    BY <1>6, <1>7, <1>8, MildThen

LEMMA TickRetriesSound ==
    ASSUME NEW s, Good(s), NEW outcome \in Outcomes, NEW nested, Sound(s, nested)
    PROVE  Sound(TickRetries(s, outcome), nested)
  <1> DEFINE N == Len(s.retry)
             base == [s EXCEPT !.retry = <<>>]
  <1>1. N \in Nat
    BY DEF Good, IsSeq
  <1>2. PICK f : /\ TickRetries(s, outcome) = f[N]
                 /\ f[0] = base
                 /\ \A n \in 1..N : f[n] = Redialed(f[n - 1], s.retry[n], outcome)
    BY <1>1, TickRetriesRuns, ZenonT(60)
  <1> DEFINE V == {n \in 0..N : Good(f[n]) /\ Sound(f[n], nested)}
  <1>3. Good(base) /\ Mild(s, base)
    BY QueueGood, PutsMild
  <1> HIDE DEF N, base
  <1>4. 0 \in V
    <2>1. Sound(base, nested)
      BY <1>3, MildSound
    <2> QED
      BY <1>1, <1>2, <1>3, <2>1
  <1>5. ASSUME NEW n \in 1..N, n - 1 \in V
        PROVE  n \in V
    <2>1. /\ n \in 0..N /\ Good(f[n - 1]) /\ Sound(f[n - 1], nested)
          /\ f[n] = Redialed(f[n - 1], s.retry[n], outcome)
      BY <1>1, <1>2, <1>5
    <2>2. Good(f[n])
      BY <2>1, BeginOutboundDialGood DEF Redialed
    <2>3. Sound(f[n], nested)
      BY <2>1, BeginOutboundDialSound DEF Redialed
    <2> QED
      BY <2>1, <2>2, <2>3
  <1>6. N \in V
    <2> HIDE DEF V
    <2> QED
      BY <1>1, <1>4, <1>5, Rounds
  <1> QED
    BY <1>2, <1>6

LEMMA TickAdoptsSound ==
    ASSUME NEW s, Good(s), NEW nested, Sound(s, nested)
    PROVE  Sound(TickAdopts(s), nested)
  <1> DEFINE N == Len(s.adopt)
             base == [s EXCEPT !.adopt = <<>>]
             link(t, n) == FirstOf(t, ConnectedTo(t, s.adopt[n][1]))
  <1>1. N \in Nat
    BY DEF Good, IsSeq
  <1>2. PICK f : /\ TickAdopts(s) = f[N]
                 /\ f[0] = base
                 /\ \A n \in 1..N : f[n] = BindDialAlias(f[n - 1], link(f[n - 1], n), s.adopt[n][2])
    BY <1>1, TickAdoptsRuns
  <1> DEFINE V == {n \in 0..N : Good(f[n]) /\ Sound(f[n], nested)}
  <1>3. Good(base) /\ Mild(s, base)
    BY QueueGood, PutsMild
  <1> HIDE DEF N, base, link
  <1>4. 0 \in V
    <2>1. Sound(base, nested)
      BY <1>3, MildSound
    <2> QED
      BY <1>1, <1>2, <1>3, <2>1
  <1>5. ASSUME NEW n \in 1..N, n - 1 \in V
        PROVE  n \in V
    <2>1. /\ n \in 0..N /\ Good(f[n - 1]) /\ Sound(f[n - 1], nested)
          /\ f[n] = BindDialAlias(f[n - 1], link(f[n - 1], n), s.adopt[n][2])
      BY <1>1, <1>2, <1>5
    <2>2. Good(f[n]) /\ Mild(f[n - 1], f[n])
      BY <2>1, BindDialAliasGood, BindDialAliasMild
    <2>3. Sound(f[n], nested)
      BY <2>1, <2>2, MildSound
    <2> QED
      BY <2>1, <2>2, <2>3
  <1>6. N \in V
    <2> HIDE DEF V
    <2> QED
      BY <1>1, <1>4, <1>5, Rounds
  <1> QED
    BY <1>2, <1>6

\* No link goes while the handshakes fail one after the other.
LEMMA TickHandshakesSound ==
    ASSUME NEW s, Good(s), NEW ids \in Seq(DOMAIN s.links), NEW nested, Sound(s, nested)
    PROVE  Sound(TickHandshakes(s, ids), nested)
  <1> DEFINE N == Len(ids)
  <1>1. N \in Nat /\ \A n \in 1..N : ids[n] \in DOMAIN s.links
    OBVIOUS
  <1>2. PICK f : /\ TickHandshakes(s, ids) = f[N]
                 /\ f[0] = s
                 /\ \A n \in 1..N : f[n] = Failed(f[n - 1], ids[n])
    BY <1>1, TickHandshakesRuns
  <1> DEFINE V == {n \in 0..N : /\ Good(f[n]) /\ Sound(f[n], nested)
                                /\ DOMAIN f[n].links = DOMAIN s.links}
  <1> HIDE DEF N
  <1>3. 0 \in V
    BY <1>1, <1>2
  <1>4. ASSUME NEW n \in 1..N, n - 1 \in V
        PROVE  n \in V
    <2>1. /\ n \in 0..N /\ Good(f[n - 1]) /\ Sound(f[n - 1], nested)
          /\ DOMAIN f[n - 1].links = DOMAIN s.links
          /\ f[n] = Failed(f[n - 1], ids[n]) /\ ids[n] \in DOMAIN s.links
      BY <1>1, <1>2, <1>4
    <2>2. Good(f[n])
      BY <2>1, FailedGood
    <2>3. Sound(f[n], nested) /\ DOMAIN f[n].links = DOMAIN s.links
      <3>1. ids[n] \in DOMAIN f[n - 1].links
        BY <2>1
      <3>2. /\ Sound(FailAssociation(f[n - 1], ids[n], FALSE), nested)
            /\ DOMAIN FailAssociation(f[n - 1], ids[n], FALSE).links = DOMAIN f[n - 1].links
        BY <2>1, <3>1, FailAssociationSound
      <3> QED
        BY <2>1, <3>2 DEF Failed
    <2> QED
      BY <2>1, <2>2, <2>3
  <1>5. N \in V
    <2> HIDE DEF V
    <2> QED
      BY <1>1, <1>3, <1>4, Rounds
  <1> QED
    BY <1>2, <1>5

LEMMA OrdersWalkHandshakes ==
    ASSUME NEW s, Good(s), NEW S \in SUBSET InHandshake(s), NEW q \in Orders(s, S)
    PROVE  q \in Seq(InHandshake(s))
  <1>1. s.next \in Nat \ {0} /\ S \subseteq 1..(s.next - 1)
    BY DEF Good, LinksInv, InHandshake
  <1>2. IsFiniteSet(S)
    <2>1. IsFiniteSet(1..(s.next - 1))
      BY <1>1, FS_Interval
    <2> QED
      BY <1>1, <2>1, FS_Subset
  <1>3. Cardinality(S) \in Nat
    BY <1>2, FS_CardinalityType
  <1>4. q \in [1..Cardinality(S) -> S]
    BY DEF Orders, SetToSeqs
  <1>5. q \in [1..Cardinality(S) -> InHandshake(s)]
    BY <1>4
  <1> QED
    BY <1>3, <1>5

LEMMA OrdersWalkLinks ==
    ASSUME NEW s, Good(s), NEW S \in SUBSET InHandshake(s), NEW q \in Orders(s, S)
    PROVE  q \in Seq(DOMAIN s.links)
  <1>1. q \in Seq(InHandshake(s))
    BY OrdersWalkHandshakes
  <1>2. InHandshake(s) \subseteq DOMAIN s.links
    BY DEF InHandshake
  <1> QED
    BY <1>1, <1>2

-----------------------------------------------------------------------------
(* The node, once more.                                                    *)

LEMMA WalksSound ==
    ASSUME TableInv, NEW nested, Sound(m, nested), NEW s \in Walks
    PROVE  Good(s) /\ s.links = m.links /\ Sound(s, nested)
  <1>1. PICK x : s = [m EXCEPT !.asc = x]
    BY DEF Walks
  <1>2. Good(m) /\ Good(s) /\ s.links = m.links
    BY WalksGood DEF TableInv
  <1>3. Mild(m, s)
    BY <1>1, <1>2, PutsMild
  <1> QED
    BY <1>2, <1>3, MildSound

LEMMA LeavesSound ==
    ASSUME NEW s, Good(s), NEW nested, Sound(s, nested), Leaves(s)
    PROVE  Sound(m', nested)
  <1> DEFINE t == [s EXCEPT !.asc = TRUE]
  <1>1. Mild(s, t)
    BY PutsMild
  <1>2. m' = t
    BY Zenon DEF Leaves
  <1> HIDE DEF t
  <1>3. Sound(t, nested)
    BY <1>1, MildSound
  <1> QED
    BY <1>2, <1>3

LEMMA MildStep ==
    ASSUME Good(m), NEW nested, Sound(m, nested), Mild(m, m')
    PROVE  Sound(m', nested)
  BY MildSound

LEMMA EmptySound ==
    ASSUME NEW local, NEW c, NEW cands, NEW nested
    PROVE  Sound(Empty(local, c, cands), nested)
  <1> DEFINE s == Empty(local, c, cands)
  <1>1. s.links = <<>> /\ s.dials = 0
    BY DEF Empty
  <1> HIDE DEF s
  <1>2. DOMAIN s.links = {}
    BY <1>1
  <1>3. DialsOf(s) = {} /\ Held(s)
    BY <1>2 DEF DialsOf, Held
  <1>4. Cardinality(DialsOf(s)) = 0
    BY <1>3, FS_EmptySet
  <1>5. Sound(s, nested)
    BY <1>1, <1>3, <1>4 DEF Sound, Counted
  <1> QED
    BY <1>5 DEF s

LEMMA AcceptedSound ==
    ASSUME NEW s, Good(s), NEW p, NEW nested, Sound(s, nested)
    PROVE  Sound(Accepted(s, p), nested)
  <1> DEFINE l == NewLink(<<"inbound", s.next>>, NoPeer, FALSE, FALSE, NoLink)
             i == Insert([s EXCEPT !.next = @ + 1], s.next, l)
             u == OnInboundConnection(s, NoLink)
             n == s.next
  <1>1. u = s \/ u = i
    BY DEF OnInboundConnection
  <1>2. Good(u) /\ Sound(u, nested)
    BY OnInboundConnectionGood, OnInboundConnectionSound
  <1>3. n \notin DOMAIN s.links
    BY DEF Good, LinksInv
  <1>4. l.phase = "Handshaking" /\ i = Added(s, l)
    BY Zenon DEF NewLink, Added
  <1>5. ASSUME NEW v, v = Added(s, l)
        PROVE  v.links[n] = l
    <2> HIDE DEF l
    <2> QED
      BY <1>5, InsertFacts
  <1>6. \/ Accepted(s, p) = FinishEstablishment(u, n, p) /\ n \in DOMAIN u.links
        \/ Accepted(s, p) = u
    BY DEF Accepted
  <1> HIDE DEF u, i, n, l
  <1>7. n \in DOMAIN u.links => n \in InHandshake(u)
    BY <1>1, <1>3, <1>4, <1>5 DEF InHandshake
  <1>8. n \in DOMAIN u.links => Sound(FinishEstablishment(u, n, p), nested)
    BY <1>2, <1>7, FinishEstablishmentSound
  <1> QED
    BY <1>2, <1>6, <1>8

LEMMA InitSound ==
    ASSUME Init, NEW nested
    PROVE  Sound(m, nested)
  <1>1. PICK local \in Locals, cands \in Candidates(class) :
           LET s == Empty(local, class, cands)
           IN  m = CASE class = "nested" -> Accepted(s, Relay)
                     [] class = "probe"  -> Accepted(s, Far)
                     [] OTHER -> s
    BY DEF Init
  <1> DEFINE s == Empty(local, class, cands)
  <1>2. m = Accepted(s, Relay) \/ m = Accepted(s, Far) \/ m = s
    BY <1>1
  <1>3. Good(s) /\ Sound(s, nested)
    BY EmptyGood, EmptySound
  <1> HIDE DEF s
  <1>4. Sound(Accepted(s, Relay), nested) /\ Sound(Accepted(s, Far), nested)
    BY <1>3, AcceptedSound
  <1> QED
    BY <1>2, <1>3, <1>4

LEMMA TickSound ==
    ASSUME TableInv, NEW nested, Sound(m, nested), Tick
    PROVE  Sound(m', nested)
  <1>1. {"sent"} \subseteq Outcomes
    BY DEF Outcomes
  <1>2. PICK s \in Walks, o \in Outcomes :
           \E c \in {TickAdopts(TickRetries(TickDrops(s), o))} :
           \E late \in SUBSET InHandshake(c) :
           \E q \in Orders(c, Refused(c, "closed")), v \in Orders(c, Refused(c, "version")),
              l \in Orders(c, late) :
              Leaves(TickEvicts(TickHandshakes(c, q \o v \o l)))
    BY <1>1, Zenon DEF Tick
  <1> DEFINE a == TickDrops(s)
             b == TickRetries(a, o)
             c == TickAdopts(b)
  <1>3. PICK late \in SUBSET InHandshake(c), q \in Orders(c, Refused(c, "closed")),
             v \in Orders(c, Refused(c, "version")) :
        \E l \in Orders(c, late) : Leaves(TickEvicts(TickHandshakes(c, q \o v \o l)))
    BY <1>2, Zenon
  <1>4. PICK l \in Orders(c, late) : Leaves(TickEvicts(TickHandshakes(c, q \o v \o l)))
    BY <1>3
  <1>5. Good(a) /\ Sound(a, nested)
    <2>1. Good(s) /\ Sound(s, nested)
      BY WalksSound
    <2> QED
      BY <2>1, DropsGood, DropsMild, MildSound
  <1> HIDE DEF a
  <1>6. Good(b) /\ Sound(b, nested)
    BY <1>5, TickRetriesGood, TickRetriesSound
  <1> HIDE DEF b
  <1>7. Good(c) /\ Sound(c, nested)
    BY <1>6, TickAdoptsGood, TickAdoptsSound
  <1> HIDE DEF c
  <1> DEFINE ids == q \o v \o l
             d == TickHandshakes(c, ids)
  <1>8. ids \in Seq(DOMAIN c.links)
    <2>1. Refused(c, "closed") \in SUBSET InHandshake(c) /\ Refused(c, "version") \in SUBSET InHandshake(c)
      BY DEF Refused
    <2>2. q \in Seq(DOMAIN c.links) /\ v \in Seq(DOMAIN c.links) /\ l \in Seq(DOMAIN c.links)
      BY <1>7, <2>1, OrdersWalkLinks
    <2> QED
      BY <2>2
  <1>9. Len(ids) \in Nat
    BY <1>8
  <1> HIDE DEF ids
  <1>10. Good(d)
    BY <1>7, <1>9, TickHandshakesGood
  <1>11. Sound(d, nested)
    BY <1>7, <1>8, TickHandshakesSound
  <1> HIDE DEF d
  <1>12. Good(TickEvicts(d)) /\ Mild(d, TickEvicts(d))
    BY <1>10, TickEvictsGood, TickEvictsMild
  <1>13. Sound(TickEvicts(d), nested)
    BY <1>10, <1>11, <1>12, MildSound
  <1>14. Leaves(TickEvicts(d))
    BY <1>4 DEF d, ids
  <1> QED
    BY <1>12, <1>13, <1>14, LeavesSound

LEMMA CapabilityArrivesSound ==
    ASSUME TableInv, NEW nested, Sound(m, nested), CapabilityArrives
    PROVE  Sound(m', nested)
  <1>0. PICK s \in Walks : \E on, k, a, peer :
           Leaves(IngestRemoteAddrs([s EXCEPT !.links[on].cap = "known"], k, peer, a))
    BY Zenon DEF CapabilityArrives
  <1>1. PICK on : \E k, a, peer :
           Leaves(IngestRemoteAddrs([s EXCEPT !.links[on].cap = "known"], k, peer, a))
    BY <1>0, Zenon
  <1> DEFINE t == [s EXCEPT !.links[on].cap = "known"]
  <1>2. PICK k, a, peer : Leaves(IngestRemoteAddrs(t, k, peer, a))
    BY <1>1
  <1>3. Good(s) /\ Sound(s, nested)
    BY WalksSound
  <1>4. Good(t) /\ Mild(s, t)
    BY <1>3, LinkFieldGood, LinkFieldMild
  <1> HIDE DEF t
  <1> DEFINE u == IngestRemoteAddrs(t, k, peer, a)
  <1>5. Elsewhere(t, u)
    BY <1>4, RegisterElsewhere DEF Good
  <1> HIDE DEF u
  <1>6. Good(u) /\ Mild(t, u)
    BY <1>4, <1>5, ElsewhereGood, ElsewhereMild
  <1>7. Sound(t, nested)
    BY <1>3, <1>4, MildSound
  <1>8. Sound(u, nested)
    BY <1>4, <1>6, <1>7, MildSound
  <1>9. Leaves(u)
    BY <1>2 DEF u
  <1> QED
    BY <1>6, <1>8, <1>9, LeavesSound

\* Nested links are only made where nested is TRUE.
LEMMA NextSound ==
    ASSUME TableInv, NEW nested \in BOOLEAN, Sound(m, nested), class \in Classes,
           class = "nested" => nested = TRUE, [Next]_vars
    PROVE  Sound(m', nested)
  <1>1. Good(m)
    BY DEF TableInv
  <1>2. ASSUME NEW s \in Walks
        PROVE  Good(s) /\ s.links = m.links /\ Sound(s, nested)
    BY WalksSound
  <1>3. CASE CallEnsure
    <2>1. PICK s \in Walks, k \in Keys(class), o \in Outcomes, over \in BOOLEAN :
             Leaves(EnsureAssociation(s, k, over, o))
      BY <1>3 DEF CallEnsure
    <2>2. Good(EnsureAssociation(s, k, over, o)) /\ Sound(EnsureAssociation(s, k, over, o), nested)
      BY <1>2, EnsureAssociationGood, EnsureAssociationSound
    <2> QED
      BY <2>1, <2>2, LeavesSound
  <1>4. CASE CallAbort
    <2>1. PICK s \in Walks, k \in Keys(class) : Leaves(AbortInflightDial(s, k))
      BY <1>4 DEF CallAbort
    <2>2. Good(AbortInflightDial(s, k)) /\ Sound(AbortInflightDial(s, k), nested)
      BY <1>2, AbortInflightDialGood, AbortInflightDialSound
    <2> QED
      BY <2>1, <2>2, LeavesSound
  <1>5. CASE CallRegister
    <2>1. PICK k, c : \/ Leaves(RegisterEndpoints(m, k, Far, c))
                      \/ Leaves(RegisterEndpoint(m, k, Far, c[1]))
      BY <1>5 DEF CallRegister
    <2>2. Elsewhere(m, RegisterEndpoints(m, k, Far, c)) /\ Elsewhere(m, RegisterEndpoint(m, k, Far, c[1]))
      BY <1>1, RegisterElsewhere DEF Good
    <2>3. ASSUME NEW u, Elsewhere(m, u)
          PROVE  Good(u) /\ Sound(u, nested)
      BY <1>1, <2>3, ElsewhereGood, ElsewhereMild, MildSound
    <2> QED
      BY <2>1, <2>2, <2>3, LeavesSound
  <1>6. CASE CallUnregister
    <2>1. PICK k \in Keys(class) : Leaves(UnregisterEndpoint(m, k))
      BY <1>6 DEF CallUnregister
    <2>2. Elsewhere(m, UnregisterEndpoint(m, k))
      BY <1>1, RegisterElsewhere DEF Good
    <2>3. Good(UnregisterEndpoint(m, k)) /\ Sound(UnregisterEndpoint(m, k), nested)
      BY <1>1, <2>2, ElsewhereGood, ElsewhereMild, MildSound
    <2> QED
      BY <2>1, <2>3, LeavesSound
  <1>7. CASE CallRequestDrop
    <2>1. PICK s \in Walks, k \in Keys(class) : Leaves(RequestDropLink(s, k))
      BY <1>7 DEF CallRequestDrop
    <2>2. Good(RequestDropLink(s, k)) /\ Mild(s, RequestDropLink(s, k))
      BY <1>2, RequestDropLinkGood, DropsMild
    <2>3. Sound(RequestDropLink(s, k), nested)
      BY <1>2, <2>2, MildSound
    <2> QED
      BY <2>1, <2>2, <2>3, LeavesSound
  <1>8. ASSUME NEW s \in Walks, NEW key, NEW initiator, NEW via, NEW unsent, class = "nested"
        PROVE  /\ Good(EstablishNestedOverCarrier(s, key, initiator, via, unsent))
               /\ Sound(EstablishNestedOverCarrier(s, key, initiator, via, unsent), nested)
    <2> DEFINE u == EstablishNestedOverCarrier(s, key, initiator, via, unsent)
    <2>1. Good(s) /\ Counted(s)
      BY <1>2 DEF Sound
    <2>2. Good(u) /\ Counted(u)
      BY <2>1, EstablishNestedOverCarrierGood, EstablishNestedOverCarrierSound
    <2> HIDE DEF u
    <2>3. Sound(u, nested)
      BY <1>8, <2>2 DEF Sound
    <2> QED
      BY <2>2, <2>3 DEF u
  <1>9. ASSUME Call("Nest") \/ Call("InboundCarrier")
        PROVE  class = "nested"
    <2>1. class \in {"dial", "names", "nested", "probe"}
      BY ConstantsOK
    <2>2. "Nest" \in Offers(class) \/ "InboundCarrier" \in Offers(class)
      BY <1>9 DEF Call
    <2> QED
      BY <2>1, <2>2 DEF Offers
  <1>10. CASE CallNest
    <2>1. PICK s \in Walks, via \in Relays, initiator \in BOOLEAN, unsent \in BOOLEAN :
             Leaves(EstablishNestedOverCarrier(s, PeerKey(Far), initiator, via, unsent))
      BY <1>10 DEF CallNest
    <2>2. class = "nested"
      BY <1>9, <1>10 DEF CallNest
    <2> DEFINE u == EstablishNestedOverCarrier(s, PeerKey(Far), initiator, via, unsent)
    <2>3. Good(u) /\ Sound(u, nested)
      BY <1>8, <2>2
    <2>4. Leaves(u)
      BY <2>1
    <2> HIDE DEF u
    <2> QED
      BY <2>3, <2>4, LeavesSound
  <1>11. CASE CarrierArrives
    <2> DEFINE key == <<"carrier", m.next>>
    <2>1. PICK s \in Walks, via \in Relays :
             Leaves(EstablishNestedOverCarrier(s, key, FALSE, via, FALSE))
      BY <1>11 DEF CarrierArrives
    <2>2. class = "nested"
      BY <1>9, <1>11 DEF CarrierArrives
    <2> HIDE DEF key
    <2> DEFINE u == EstablishNestedOverCarrier(s, key, FALSE, via, FALSE)
    <2>3. Good(u) /\ Sound(u, nested)
      BY <1>8, <2>2
    <2>4. Leaves(u)
      BY <2>1
    <2> HIDE DEF u
    <2> QED
      BY <2>3, <2>4, LeavesSound
  <1>12. CASE CallVerify
    <2>1. PICK s \in Walks, k \in Keys(class) : Leaves(VerifyLink(s, k))
      BY <1>12 DEF CallVerify
    <2>2. Good(VerifyLink(s, k)) /\ Mild(s, VerifyLink(s, k))
      BY <1>2, VerifyLinkGood, VerifyLinkMild
    <2>3. Sound(VerifyLink(s, k), nested)
      BY <1>2, <2>2, MildSound
    <2> QED
      BY <2>1, <2>2, <2>3, LeavesSound
  <1>13. CASE CallNetworkChanged
    <2>1. Good(OnNetworkChanged(m)) /\ Mild(m, OnNetworkChanged(m))
      BY <1>1, OnNetworkChangedGood, OnNetworkChangedMild
    <2>2. Sound(OnNetworkChanged(m), nested)
      BY <1>1, <2>1, MildSound
    <2> QED
      BY <1>13, <2>1, <2>2, LeavesSound DEF CallNetworkChanged
  <1>14. CASE CallCloseAll
    <2>1. Good(CloseAllLinks(m)) /\ Mild(m, CloseAllLinks(m))
      BY <1>1, DropsGood, DropsMild
    <2>2. Sound(CloseAllLinks(m), nested)
      BY <1>1, <2>1, MildSound
    <2> QED
      BY <1>14, <2>1, <2>2, LeavesSound DEF CallCloseAll
  <1>15. CASE Arrives
    <2>1. PICK idle \in IdleInbound(m) \cup {NoLink} : Leaves(OnInboundConnection(m, idle))
      BY <1>15 DEF Arrives
    <2>2. Good(OnInboundConnection(m, idle)) /\ Sound(OnInboundConnection(m, idle), nested)
      BY <1>1, OnInboundConnectionGood, OnInboundConnectionSound
    <2> QED
      BY <2>1, <2>2, LeavesSound
  <1>16. CASE CapabilityArrives
    BY <1>16, CapabilityArrivesSound
  <1>17. CASE HandshakeEnds
    <2>1. PICK s \in Walks, id \in InHandshake(m) :
             \/ \E p : Leaves(FinishEstablishment(s, id, p))
             \/ Leaves(FailAssociation(s, id, FALSE))
      BY <1>17, Zenon DEF HandshakeEnds
    <2>2. id \in InHandshake(s) /\ id \in DOMAIN s.links
      BY <1>2 DEF InHandshake
    <2>3. ASSUME NEW p
          PROVE  Good(FinishEstablishment(s, id, p)) /\ Sound(FinishEstablishment(s, id, p), nested)
      BY <1>2, <2>2, FinishEstablishmentGood, FinishEstablishmentSound
    <2>4. Good(FailAssociation(s, id, FALSE)) /\ Sound(FailAssociation(s, id, FALSE), nested)
      BY <1>2, <2>2, FailAssociationGood, FailAssociationSound
    <2> QED
      BY <2>1, <2>3, <2>4, LeavesSound
  <1>18. CASE Resolves
    <2>1. PICK s \in Walks, k \in m.resolving, ok \in BOOLEAN, o \in Outcomes :
             Leaves(OnHostResolved(s, k, ok, o))
      BY <1>18 DEF Resolves
    <2>2. Good(OnHostResolved(s, k, ok, o)) /\ Sound(OnHostResolved(s, k, ok, o), nested)
      BY <1>2, OnHostResolvedGood, OnHostResolvedSound
    <2> QED
      BY <2>1, <2>2, LeavesSound
  <1>19. CASE Expires
    <2>1. Mild(m, m')
      BY <1>1, <1>19, PutsMild DEF Expires
    <2> QED
      BY <1>1, <2>1, MildStep
  <1>20. CASE ProbeEnds
    <2>1. PICK id, x : m' = [m EXCEPT !.links[id].sus = x]
      BY <1>20, Zenon DEF ProbeEnds
    <2>2. Mild(m, m')
      BY <1>1, <2>1, LinkFieldMild
    <2> QED
      BY <1>1, <2>2, MildStep
  <1>21. CASE ConnectionFails
    <2>1. PICK id, c : m' = [m EXCEPT !.links[id].conn = c]
      BY <1>21, Zenon DEF ConnectionFails
    <2>2. Mild(m, m')
      BY <1>1, <2>1, LinkFieldMild
    <2> QED
      BY <1>1, <2>2, MildStep
  <1>22. CASE CarrierFails
    <2>1. PICK s \in Walks, id \in DOMAIN m.links :
             \/ Leaves([[s EXCEPT !.links[id].conn = "closed"] EXCEPT !.links[id].phase = "Backoff"])
             \/ Leaves(FailAssociation([s EXCEPT !.links[id].conn = "closed"], id, FALSE))
             \/ Leaves([s EXCEPT !.links[id].conn = "dead"])
      BY <1>22, Zenon DEF CarrierFails
    <2> DEFINE t == [s EXCEPT !.links[id].conn = "closed"]
               v == [s EXCEPT !.links[id].conn = "dead"]
               b == [t EXCEPT !.links[id].phase = "Backoff"]
               f == FailAssociation(t, id, FALSE)
    <2>2. Good(t) /\ Good(v) /\ Mild(s, t) /\ Mild(s, v)
      BY <1>2, LinkFieldGood, LinkFieldMild
    <2>3. DOMAIN t.links = DOMAIN m.links
      <3>1. Good(s) /\ s.links = m.links
        BY <1>2
      <3> QED
        BY <3>1 DEF Good, Shape
    <2>4. Leaves(b) \/ Leaves(f) \/ Leaves(v)
      BY <2>1, Zenon
    <2> HIDE DEF t, v
    <2>5. Sound(t, nested) /\ Sound(v, nested)
      BY <1>2, <2>2, MildSound
    <2>6. Good(b) /\ Good(f) /\ Mild(t, b)
      BY <2>2, LinkFieldGood, LinkFieldMild, FailAssociationGood
    <2>7. Sound(f, nested)
      BY <2>2, <2>3, <2>5, FailAssociationSound
    <2> HIDE DEF b, f
    <2>8. Sound(b, nested)
      BY <2>2, <2>5, <2>6, MildSound
    <2> QED
      BY <2>2, <2>4, <2>5, <2>6, <2>7, <2>8, LeavesSound
  <1>23. CASE Tick
    BY <1>23, TickSound
  <1>24. CASE UNCHANGED vars
    BY <1>24 DEF vars
  <1> QED
    BY <1>3, <1>4, <1>5, <1>6, <1>7, <1>10, <1>11, <1>12, <1>13, <1>14, <1>15,
       <1>16, <1>17, <1>18, <1>19, <1>20, <1>21, <1>22, <1>23, <1>24 DEF Next

\* The table is consistent, every dial that is not over is counted, and where
\* nothing is nested each Connected link has its peer's presence.
THEOREM IndInvHolds == Spec => []IndInv
  <1>1. Init => IndInv
    <2> SUFFICES ASSUME Init PROVE IndInv
      OBVIOUS
    <2>1. TableInv /\ class \in Classes
      BY InitGood DEF Init
    <2>2. Sound(m, FALSE)
      BY InitSound
    <2> QED
      BY <2>1, <2>2 DEF IndInv, Sound
  <1>2. IndInv /\ [Next]_vars => IndInv'
    <2> SUFFICES ASSUME IndInv, [Next]_vars PROVE IndInv'
      OBVIOUS
    <2>1. TableInv /\ class \in Classes /\ Counted(m) /\ (class = "nested" \/ Held(m))
      BY DEF IndInv, Sound
    <2>2. TableInv'
      BY <2>1, NextGood, Zenon
    <2>3. class' = class
      BY DEF Next, vars, CallEnsure, CallAbort, CallRegister, CallUnregister, CallRequestDrop,
             CallNest, CallVerify, CallNetworkChanged, CallCloseAll, Arrives, CarrierArrives,
             CapabilityArrives, HandshakeEnds, Resolves, Expires, ProbeEnds, ConnectionFails,
             CarrierFails, Tick, Call, Env, Fault
    <2>4. CASE class = "nested"
      <3>1. Sound(m, TRUE)
        BY <2>1 DEF Sound
      <3>2. Sound(m', TRUE)
        BY <2>1, <2>4, <3>1, NextSound
      <3> QED
        BY <2>1, <2>2, <2>3, <2>4, <3>2 DEF IndInv, Sound
    <2>5. CASE class # "nested"
      <3>1. Sound(m, FALSE)
        BY <2>1, <2>5 DEF Sound
      <3>2. Sound(m', FALSE)
        BY <2>1, <2>5, <3>1, NextSound
      <3> QED
        BY <2>1, <2>2, <2>3, <2>5, <3>2 DEF IndInv, Sound
    <2> QED
      BY <2>4, <2>5
  <1> QED
    BY <1>1, <1>2, PTL DEF Spec

\* No dial is counted down twice: however dials are aborted, refused, late,
\* displaced or lose the election, the counter that limits concurrent dials
\* is at least the number of dials that still run, for any number of them.
THEOREM DialsAreCountedHolds == Spec => []DialsAreCounted
  <1>1. IndInv => DialsAreCounted
    <2> SUFFICES ASSUME IndInv PROVE DialsAreCounted
      OBVIOUS
    <2>1. Good(m) /\ Counted(m)
      BY DEF IndInv, TableInv, Sound
    <2>2. Cardinality(DialsOf(m)) \in Nat
      BY <2>1, DialsFinite
    <2> QED
      BY <2>1, <2>2 DEF Counted, DialsAreCounted, LostDials, Dials
  <1> QED
    BY <1>1, IndInvHolds, PTL

\* Where nothing is nested at most one session to a peer is Connected at any
\* time, and the peer's presence names it: the dual-dial election demotes the
\* loser in the step that brings the winner up, for any number of dials,
\* accepts, drops and retries.
THEOREM OneSessionPerPeerHolds == Spec => []OneSessionPerPeer
  <1>1. IndInv => OneSessionPerPeer
    <2> SUFFICES ASSUME IndInv, class # "nested", NEW p \in {Far, Relay}
                 PROVE  /\ Cardinality(ConnectedAdp(p)) <= 1
                        /\ \A id \in ConnectedAdp(p) : Presence(m, p, "adp") = id
      BY DEF OneSessionPerPeer
    <2>1. Held(m)
      BY DEF IndInv, Sound
    <2> DEFINE x == Presence(m, p, "adp")
    <2>2. \A id \in ConnectedAdp(p) : x = id
      BY <2>1 DEF Held, ConnectedAdp, ConnectedTo, Connected, Presence
    <2> HIDE DEF x
    <2>3. ConnectedAdp(p) \subseteq {x}
      BY <2>2
    <2>4. IsFiniteSet({x}) /\ Cardinality({x}) = 1
      BY FS_Singleton
    <2>5. Cardinality(ConnectedAdp(p)) <= 1
      BY <2>3, <2>4, FS_Subset
    <2> QED
      BY <2>2, <2>5 DEF x
  <1> QED
    BY <1>1, IndInvHolds, PTL

-----------------------------------------------------------------------------
(* Calm changes: no link comes, none enters or leaves its handshake, and   *)
(* nobody new waits.                                                       *)

Calm(s, u) ==
    /\ DOMAIN u.links \subseteq DOMAIN s.links
    /\ \A id \in DOMAIN u.links :
         /\ u.links[id].car = s.links[id].car /\ u.links[id].cb = s.links[id].cb
         /\ u.links[id].phase = "Handshaking" <=> s.links[id].phase = "Handshaking"
    /\ \A id \in u.nestw : id \in s.nestw /\ (id \in DOMAIN s.links => id \in DOMAIN u.links)
    /\ u.verify \subseteq s.verify

LEMMA CalmThen ==
    ASSUME NEW s, NEW t, NEW u, Calm(s, t), Calm(t, u)
    PROVE  Calm(s, u)
  <1>1. DOMAIN u.links \subseteq DOMAIN s.links /\ u.verify \subseteq s.verify
    BY DEF Calm
  <1>2. ASSUME NEW id \in DOMAIN u.links
        PROVE  /\ u.links[id].car = s.links[id].car /\ u.links[id].cb = s.links[id].cb
               /\ u.links[id].phase = "Handshaking" <=> s.links[id].phase = "Handshaking"
    BY DEF Calm
  <1>3. ASSUME NEW id \in u.nestw
        PROVE  id \in s.nestw /\ (id \in DOMAIN s.links => id \in DOMAIN u.links)
    BY DEF Calm
  <1> QED
    BY <1>1, <1>2, <1>3 DEF Calm

LEMMA CalmWaiting ==
    ASSUME NEW s, NEW u, Calm(s, u), NEW X, Nesting(s, X)
    PROVE  Nesting(u, X)
  <1>1. ASSUME NEW id \in u.nestw \ X
        PROVE  /\ id \in DOMAIN u.links
               /\ u.links[id].car = TRUE /\ u.links[id].cb = TRUE /\ u.links[id].phase = "Handshaking"
    BY DEF Calm, Nesting
  <1>2. ASSUME NEW id \in DOMAIN u.links, u.links[id].phase = "Handshaking"
        PROVE  u.links[id].cb = TRUE
    BY <1>2 DEF Calm, Nesting
  <1> QED
    BY <1>1, <1>2 DEF Nesting

\* Operations on the dial book and the queues touch no link and no waiter.
Aside(s, u) ==
    /\ Shape(u)
    /\ u.links = s.links /\ u.nestw = s.nestw /\ u.verify = s.verify

LEMMA AsideCalm ==
    ASSUME NEW s, NEW u, Aside(s, u)
    PROVE  Calm(s, u)
  BY DEF Aside, Calm

LEMMA AsideThen ==
    ASSUME NEW s, NEW t, NEW u, Aside(s, t), Aside(t, u)
    PROVE  Aside(s, u)
  BY DEF Aside

LEMMA PutsAside ==
    ASSUME NEW s, Shape(s), NEW x
    PROVE  /\ Aside(s, s)
           /\ Aside(s, [s EXCEPT !.asc = x])
           /\ Aside(s, [s EXCEPT !.eps = x])
           /\ Aside(s, [s EXCEPT !.backoff = x])
           /\ Aside(s, [s EXCEPT !.resolved = x])
           /\ Aside(s, [s EXCEPT !.pend = x])
           /\ Aside(s, [s EXCEPT !.inflight = x])
           /\ Aside(s, [s EXCEPT !.resolving = x])
           /\ Aside(s, [s EXCEPT !.retry = x])
           /\ Aside(s, [s EXCEPT !.adopt = x])
           /\ Aside(s, [s EXCEPT !.dials = x])
           /\ Aside(s, [s EXCEPT !.pres = x])
  <1>1. Aside(s, s)
    BY DEF Aside
  <1>2. Aside(s, [s EXCEPT !.asc = x])
    BY DEF Aside, Shape
  <1>3. Aside(s, [s EXCEPT !.eps = x])
    BY DEF Aside, Shape
  <1>4. Aside(s, [s EXCEPT !.backoff = x])
    BY DEF Aside, Shape
  <1>5. Aside(s, [s EXCEPT !.resolved = x])
    BY DEF Aside, Shape
  <1>6. Aside(s, [s EXCEPT !.pend = x])
    BY DEF Aside, Shape
  <1>7. Aside(s, [s EXCEPT !.inflight = x])
    BY DEF Aside, Shape
  <1>8. Aside(s, [s EXCEPT !.resolving = x])
    BY DEF Aside, Shape
  <1>9. Aside(s, [s EXCEPT !.retry = x])
    BY DEF Aside, Shape
  <1>10. Aside(s, [s EXCEPT !.adopt = x])
    BY DEF Aside, Shape
  <1>11. Aside(s, [s EXCEPT !.dials = x])
    BY DEF Aside, Shape
  <1>12. Aside(s, [s EXCEPT !.pres = x])
    BY DEF Aside, Shape
  <1> QED
    BY <1>1, <1>2, <1>3, <1>4, <1>5, <1>6, <1>7, <1>8, <1>9, <1>10, <1>11, <1>12

LEMMA BookAside ==
    ASSUME NEW s, Shape(s), NEW key, NEW keys
    PROVE  /\ Aside(s, Answer(s, key))
           /\ Aside(s, ScheduleDropLink(s, key))
           /\ Aside(s, ScheduleDropByKey(s, key))
           /\ Aside(s, SetResolution(s))
           /\ Aside(s, ForgetResolution(s, key))
           /\ Aside(s, AdvanceDialCandidate(s, key))
           /\ Aside(s, ResetDialIndex(s, key))
           /\ Aside(s, ArmBackoff(s, key))
           /\ Aside(s, ClearBackoff(s, keys))
           /\ Aside(s, IncConcurrentDials(s))
           /\ Aside(s, DecConcurrentDials(s))
           /\ Aside(s, SetPresence(s, key))
           /\ Aside(s, RefreshPresence(s, key))
  <1>1. Aside(s, Answer(s, key)) /\ Aside(s, ScheduleDropLink(s, key))
    BY PutsAside DEF Answer, ScheduleDropLink
  <1>2. Aside(s, ScheduleDropByKey(s, key))
    BY PutsAside DEF ScheduleDropByKey, ScheduleDropLink
  <1>3. Aside(s, SetResolution(s)) /\ Aside(s, ForgetResolution(s, key))
    BY PutsAside DEF SetResolution, ForgetResolution
  <1>4. Aside(s, AdvanceDialCandidate(s, key))
    BY DEF Aside, Shape, AdvanceDialCandidate
  <1>5. Aside(s, ResetDialIndex(s, key))
    <2>1. Aside(s, [s EXCEPT !.eps[key].index = 1])
      BY DEF Aside, Shape
    <2> QED
      BY <2>1, PutsAside DEF ResetDialIndex
  <1>6. Aside(s, ArmBackoff(s, key)) /\ Aside(s, ClearBackoff(s, keys))
    BY PutsAside DEF ArmBackoff, ClearBackoff
  <1>7. Aside(s, IncConcurrentDials(s)) /\ Aside(s, DecConcurrentDials(s))
    BY PutsAside DEF IncConcurrentDials, DecConcurrentDials
  <1>8. Aside(s, SetPresence(s, key))
    BY PutsAside DEF SetPresence
  <1>9. Aside(s, RefreshPresence(s, key))
    BY <1>8, PutsAside DEF RefreshPresence
  <1> QED
    BY <1>1, <1>2, <1>3, <1>4, <1>5, <1>6, <1>7, <1>8, <1>9

LEMMA RegisterAside ==
    ASSUME NEW s, Shape(s), NEW key, NEW peer, NEW c
    PROVE  /\ Aside(s, RegisterEndpoints(s, key, peer, c))
           /\ Aside(s, RegisterEndpoint(s, key, peer, c))
           /\ Aside(s, IngestRemoteAddrs(s, key, peer, c))
           /\ Aside(s, UnregisterEndpoint(s, key))
           /\ Aside(s, PromoteDialWinner(s, key))
  <1>1. ASSUME NEW d
        PROVE  Aside(s, RegisterEndpoints(s, key, peer, d))
    BY DEF Aside, Shape, RegisterEndpoints
  <1>2. Aside(s, UnregisterEndpoint(s, key))
    BY DEF Aside, Shape, UnregisterEndpoint
  <1>3. Aside(s, PromoteDialWinner(s, key))
    <2> DEFINE won == Active(s, key)
               others == SelectSeq(s.eps[key].cands, LAMBDA a : a # won)
               u == [s EXCEPT !.eps[key].cands = <<won>> \o others, !.eps[key].index = 1]
    <2>1. PromoteDialWinner(s, key) = s \/ PromoteDialWinner(s, key) = u
      BY DEF PromoteDialWinner
    <2> HIDE DEF won, others
    <2>2. Aside(s, u)
      BY DEF Aside, Shape
    <2> HIDE DEF u
    <2> QED
      BY <2>1, <2>2, PutsAside
  <1> QED
    BY <1>1, <1>2, <1>3 DEF RegisterEndpoint, IngestRemoteAddrs

LEMMA LinkPutCalm ==
    ASSUME NEW s, Good(s), NEW id, NEW l,
           id \in DOMAIN s.links =>
              /\ l.car = s.links[id].car /\ l.cb = s.links[id].cb
              /\ l.phase = "Handshaking" <=> s.links[id].phase = "Handshaking"
    PROVE  Calm(s, [s EXCEPT !.links[id] = l])
  <1> DEFINE L == [s.links EXCEPT ![id] = l]
             u == [s EXCEPT !.links = L]
  <1>1. /\ DOMAIN L = DOMAIN s.links
        /\ \A i \in DOMAIN s.links : L[i] = IF i = id THEN l ELSE s.links[i]
    OBVIOUS
  <1>2. [s EXCEPT !.links[id] = l] = u
    OBVIOUS
  <1> HIDE DEF L
  <1>3. u.links = L /\ u.nestw = s.nestw /\ u.verify = s.verify
    BY DEF Good, Shape
  <1> HIDE DEF u
  <1>4. Calm(s, u)
    BY <1>1, <1>3 DEF Calm
  <1> QED
    BY <1>2, <1>4

LEMMA LinkFieldCalm ==
    ASSUME NEW s, Good(s), NEW id, NEW x
    PROVE  /\ Calm(s, [s EXCEPT !.links[id].conn = x])
           /\ Calm(s, [s EXCEPT !.links[id].sus = x])
           /\ Calm(s, [s EXCEPT !.links[id].ch0 = x])
           /\ Calm(s, [s EXCEPT !.links[id].cap = x])
           /\ Calm(s, [s EXCEPT !.links[id].peer = x])
           /\ (id \in DOMAIN s.links => s.links[id].phase # "Handshaking")
                 => Calm(s, [s EXCEPT !.links[id].phase = "Backoff"])
  <1> DEFINE l == s.links[id]
  <1>1. ASSUME NEW k,
               id \in DOMAIN s.links =>
                  /\ k.car = l.car /\ k.cb = l.cb
                  /\ k.phase = "Handshaking" <=> l.phase = "Handshaking"
        PROVE  Calm(s, [s EXCEPT !.links[id] = k])
    BY <1>1, LinkPutCalm
  <1>2. id \in DOMAIN s.links => LinkShape(l)
    BY DEF Good, LinksInv
  <1>3. /\ [s EXCEPT !.links[id].conn = x] = [s EXCEPT !.links[id] = [l EXCEPT !.conn = x]]
        /\ [s EXCEPT !.links[id].sus = x] = [s EXCEPT !.links[id] = [l EXCEPT !.sus = x]]
        /\ [s EXCEPT !.links[id].ch0 = x] = [s EXCEPT !.links[id] = [l EXCEPT !.ch0 = x]]
        /\ [s EXCEPT !.links[id].cap = x] = [s EXCEPT !.links[id] = [l EXCEPT !.cap = x]]
        /\ [s EXCEPT !.links[id].peer = x] = [s EXCEPT !.links[id] = [l EXCEPT !.peer = x]]
        /\ [s EXCEPT !.links[id].phase = "Backoff"]
              = [s EXCEPT !.links[id] = [l EXCEPT !.phase = "Backoff"]]
    OBVIOUS
  <1>0. s.links[id].phase = l.phase
    OBVIOUS
  <1> HIDE DEF l
  <1>4. Calm(s, [s EXCEPT !.links[id] = [l EXCEPT !.conn = x]])
    BY <1>1, <1>2 DEF LinkShape
  <1>5. Calm(s, [s EXCEPT !.links[id] = [l EXCEPT !.sus = x]])
    BY <1>1, <1>2 DEF LinkShape
  <1>6. Calm(s, [s EXCEPT !.links[id] = [l EXCEPT !.ch0 = x]])
    BY <1>1, <1>2 DEF LinkShape
  <1>7. Calm(s, [s EXCEPT !.links[id] = [l EXCEPT !.cap = x]])
    BY <1>1, <1>2 DEF LinkShape
  <1>8. Calm(s, [s EXCEPT !.links[id] = [l EXCEPT !.peer = x]])
    BY <1>1, <1>2 DEF LinkShape
  <1>9. ASSUME id \in DOMAIN s.links => l.phase # "Handshaking"
        PROVE  Calm(s, [s EXCEPT !.links[id] = [l EXCEPT !.phase = "Backoff"]])
    BY <1>1, <1>2, <1>9 DEF LinkShape
  <1> QED
    BY <1>0, <1>3, <1>4, <1>5, <1>6, <1>7, <1>8, <1>9

LEMMA MapLinksCalm ==
    ASSUME NEW s, Good(s), NEW L, DOMAIN L = DOMAIN s.links,
           \A i \in DOMAIN L :
              /\ L[i].car = s.links[i].car /\ L[i].cb = s.links[i].cb
              /\ L[i].phase = s.links[i].phase
    PROVE  Calm(s, [s EXCEPT !.links = L])
  <1> DEFINE u == [s EXCEPT !.links = L]
  <1>1. u.links = L /\ u.nestw = s.nestw /\ u.verify = s.verify
    BY DEF Good, Shape
  <1> HIDE DEF u
  <1>2. Calm(s, u)
    BY <1>1 DEF Calm
  <1> QED
    BY <1>2 DEF u

\* A dropped link's waiters are answered.
LEMMA DropLinksCalm ==
    ASSUME NEW s, Good(s), NEW ids
    PROVE  /\ Calm(s, DropLinks(s, ids))
           /\ DropLinks(s, ids).verify = s.verify \ (ids \cap DOMAIN s.links)
           /\ \A i \in DOMAIN DropLinks(s, ids).links :
                 /\ i \in DOMAIN s.links
                 /\ DropLinks(s, ids).links[i].phase = s.links[i].phase
                 /\ DropLinks(s, ids).links[i].sus = s.links[i].sus
  <1> DEFINE gone == ids \cap DOMAIN s.links
             orphan(l) == IF l.via \in gone THEN [l EXCEPT !.conn = "closed"] ELSE l
             t == EraseById(s, gone)
             L == [id \in DOMAIN t.links |-> orphan(t.links[id])]
             nw == t.nestw \ gone
             vf == t.verify \ gone
             u == [t EXCEPT !.links = L, !.nestw = nw, !.verify = vf]
  <1>1. DropLinks(s, ids) = u
    BY DEF DropLinks
  <1>2. /\ t.links = Restrict(s.links, DOMAIN s.links \ gone)
        /\ t.nestw = s.nestw /\ t.verify = s.verify
    <2> HIDE DEF gone
    <2> QED
      BY EraseByIdFields
  <1>3. Good(t)
    <2> HIDE DEF gone
    <2> QED
      BY EraseByIdGood
  <1>0. gone = ids \cap DOMAIN s.links
    OBVIOUS
  <1> HIDE DEF t, gone
  <1>4. DOMAIN t.links = DOMAIN s.links \ gone /\ \A i \in DOMAIN t.links : t.links[i] = s.links[i]
    BY <1>2 DEF Restrict
  <1>5. /\ DOMAIN L = DOMAIN t.links
        /\ \A i \in DOMAIN L :
              /\ L[i].car = t.links[i].car /\ L[i].cb = t.links[i].cb
              /\ L[i].phase = t.links[i].phase /\ L[i].sus = t.links[i].sus
    BY <1>3 DEF Good, LinksInv, LinkShape
  <1>6. nw = s.nestw \ gone /\ vf = s.verify \ gone
    BY <1>2
  <1> HIDE DEF L, nw, vf
  <1>7. u.links = L /\ u.nestw = nw /\ u.verify = vf
    BY <1>3 DEF Good, Shape
  <1> HIDE DEF u
  <1>8. Calm(s, u)
    BY <1>4, <1>5, <1>6, <1>7 DEF Calm
  <1>9. /\ u.verify = s.verify \ gone
        /\ \A i \in DOMAIN u.links :
              /\ i \in DOMAIN s.links
              /\ u.links[i].phase = s.links[i].phase /\ u.links[i].sus = s.links[i].sus
    BY <1>4, <1>5, <1>6, <1>7
  <1> QED
    BY <1>0, <1>1, <1>8, <1>9

LEMMA BindDialKeyCalm ==
    ASSUME NEW s, Good(s), NEW id \in DOMAIN s.links, NEW key
    PROVE  Calm(s, BindDialKey(s, id, key))
  <1> DEFINE l == [s.links[id] EXCEPT !.key = key]
             L == [s.links EXCEPT ![id] = l]
             K == {k \in DOMAIN s.index : ~(k = s.links[id].key /\ s.index[k] = id)}
             X == Assign(Restrict(s.index, K), key, id)
             u == [s EXCEPT !.links = L, !.index = X]
  <1>1. BindDialKey(s, id, key) = s \/ BindDialKey(s, id, key) = u
    BY DEF BindDialKey
  <1>2. l.car = s.links[id].car /\ l.phase = s.links[id].phase /\ l.cb = s.links[id].cb
    BY DEF Good, LinksInv, LinkShape
  <1>3. DOMAIN L = DOMAIN s.links /\ \A i \in DOMAIN L : L[i] = IF i = id THEN l ELSE s.links[i]
    OBVIOUS
  <1> HIDE DEF l, L, X
  <1>4. u.links = L /\ u.nestw = s.nestw /\ u.verify = s.verify
    BY DEF Good, Shape
  <1> HIDE DEF u
  <1>5. Calm(s, u) /\ Calm(s, s)
    BY <1>2, <1>3, <1>4 DEF Calm
  <1> QED
    BY <1>1, <1>5

LEMMA BindDialAliasCalm ==
    ASSUME NEW s, Good(s), NEW id, NEW key
    PROVE  Calm(s, BindDialAlias(s, id, key))
  <1> DEFINE other == FindByDialKey(s, key)
             taken == other \notin {NoLink, id}
             ids == IF taken THEN {other} ELSE {}
             t == DropLinks(s, ids)
             v == BindDialKey(t, id, key)
  <1>1. \/ BindDialAlias(s, id, key) = s
        \/ id \in DOMAIN s.links /\ BindDialAlias(s, id, key) = v
    BY DEF BindDialAlias
  <1>2. id \notin ids
    OBVIOUS
  <1> HIDE DEF ids
  <1>3. Good(t) /\ DOMAIN t.links = DOMAIN s.links \ ids /\ Calm(s, t)
    BY DropLinksGood, DropLinksCalm
  <1> HIDE DEF t
  <1>4. id \in DOMAIN s.links => Calm(t, v)
    BY <1>2, <1>3, BindDialKeyCalm
  <1> HIDE DEF v
  <1>5. id \in DOMAIN s.links => Calm(s, v)
    BY <1>3, <1>4, CalmThen
  <1>6. Calm(s, s)
    BY DEF Calm
  <1> QED
    BY <1>1, <1>5, <1>6

LEMMA AdoptAliasCalm ==
    ASSUME NEW s, Good(s), NEW id
    PROVE  Calm(s, AdoptAlias(s, id))
  <1>1. ASSUME NEW key
        PROVE  Calm(s, BindDialAlias(s, id, key))
    BY BindDialAliasCalm
  <1>2. Calm(s, s)
    BY DEF Calm
  <1> QED
    BY <1>1, <1>2, Zenon DEF AdoptAlias

LEMMA DemoteLoserCalm ==
    ASSUME NEW s, Good(s), NEW id, id \in DOMAIN s.links => s.links[id].phase # "Handshaking"
    PROVE  Calm(s, DemoteLoser(s, id))
  <1> DEFINE t == [s EXCEPT !.links[id].phase = "Backoff"]
             key == s.links[id].key
  <1>1. Good(t) /\ Calm(s, t)
    BY LinkFieldGood, LinkFieldCalm
  <1>2. DemoteLoser(s, id) = ScheduleDropByKey(t, key)
    BY DEF DemoteLoser
  <1> HIDE DEF t, key
  <1>3. Calm(t, ScheduleDropByKey(t, key))
    BY <1>1, BookAside, AsideCalm DEF Good
  <1> QED
    BY <1>1, <1>2, <1>3, CalmThen

LEMMA StartCapabilityExchangeCalm ==
    ASSUME NEW s, Good(s), NEW id
    PROVE  Calm(s, StartCapabilityExchange(s, id))
  <1>1. Calm(s, s)
    BY DEF Calm
  <1> QED
    BY <1>1, LinkFieldCalm DEF StartCapabilityExchange

LEMMA FinishDialAside ==
    ASSUME NEW s, Shape(s), NEW key, NEW id, NEW ok, NEW aborted
    PROVE  Aside(s, FinishDial(s, key, id, ok, aborted))
  <1> DEFINE d == DecConcurrentDials(s)
             f == ForgetResolution(d, key)
             b == IF aborted THEN f ELSE ArmBackoff(f, key)
             c == ClearBackoff(d, {key})
             w == PromoteDialWinner(c, key)
             r == RefreshPresence(w, id)
             n == AdvanceDialCandidate(f, key)
             g == ScheduleDropLink(n, id)
             h == [g EXCEPT !.retry = Append(@, key)]
             z == ResetDialIndex(b, key)
             y == ScheduleDropLink(z, id)
  <1>1. \/ FinishDial(s, key, id, ok, aborted) = Answer(r, key)
        \/ FinishDial(s, key, id, ok, aborted) = h
        \/ FinishDial(s, key, id, ok, aborted) = Answer(y, key)
    BY DEF FinishDial
  <1>2. ASSUME NEW t, Aside(s, t)
        PROVE  Shape(t) /\ \A u : Aside(t, u) => Aside(s, u)
    BY <1>2, AsideThen DEF Aside
  <1>3. Aside(s, d)
    BY BookAside
  <1> HIDE DEF d
  <1>4. Aside(s, f) /\ Aside(s, c)
    BY <1>2, <1>3, BookAside
  <1> HIDE DEF f, c
  <1>5. Aside(s, b) /\ Aside(s, w) /\ Aside(s, n)
    BY <1>2, <1>4, BookAside, RegisterAside
  <1> HIDE DEF b, w, n
  <1>6. Aside(s, r) /\ Aside(s, g) /\ Aside(s, z)
    BY <1>2, <1>5, BookAside
  <1> HIDE DEF r, g, z
  <1>7. Aside(s, y) /\ Aside(s, h) /\ Aside(s, Answer(r, key))
    BY <1>2, <1>6, BookAside, PutsAside
  <1> HIDE DEF y, h
  <1>8. Aside(s, Answer(y, key))
    BY <1>2, <1>7, BookAside
  <1> QED
    BY <1>1, <1>7, <1>8

\* A link leaves its handshake, or has left it.
LEMMA LinkEndsWaiting ==
    ASSUME NEW s, Good(s), NEW id \in DOMAIN s.links, NEW l, l.phase # "Handshaking",
           Nesting(s, {}) \/ Nesting(s, {id})
    PROVE  Nesting([s EXCEPT !.links[id] = l], {id})
  <1> DEFINE L == [s.links EXCEPT ![id] = l]
             u == [s EXCEPT !.links = L]
  <1>1. /\ DOMAIN L = DOMAIN s.links
        /\ \A i \in DOMAIN s.links : L[i] = IF i = id THEN l ELSE s.links[i]
    OBVIOUS
  <1>2. [s EXCEPT !.links[id] = l] = u
    OBVIOUS
  <1> HIDE DEF L
  <1>3. u.links = L /\ u.nestw = s.nestw /\ u.verify = s.verify
    BY DEF Good, Shape
  <1> HIDE DEF u
  <1>4. Nesting(u, {id})
    BY <1>1, <1>3 DEF Nesting
  <1> QED
    BY <1>2, <1>4

LEMMA FinishNestedCarrierWaiting ==
    ASSUME NEW s, Good(s), NEW id, NEW ok, Nesting(s, {id})
    PROVE  Nesting(FinishNestedCarrier(s, id, ok), {})
  <1> DEFINE p == s.links[id].peer
             adp == {o \in ConnectedTo(s, p) \ {id} : ~s.links[o].car}
             bind == ok /\ p # NoPeer /\ adp = {} /\ PeerKey(p) \notin DOMAIN s.index
             t == IF bind THEN BindDialAlias(s, id, PeerKey(p)) ELSE s
             u == [t EXCEPT !.nestw = @ \ {id}]
             v == ScheduleDropLink(u, id)
  <1>1. FinishNestedCarrier(s, id, ok) = u \/ FinishNestedCarrier(s, id, ok) = v
    BY DEF FinishNestedCarrier
  <1>2. Good(t) /\ Nesting(t, {id})
    BY BindDialAliasGood, BindDialAliasCalm, CalmWaiting
  <1> HIDE DEF t
  <1>3. Good(u) /\ u.links = t.links /\ u.nestw = t.nestw \ {id} /\ u.verify = t.verify
    <2> DEFINE n == t.nestw \ {id}
    <2>1. u = [t EXCEPT !.nestw = n]
      OBVIOUS
    <2>2. Shape(t)
      BY <1>2 DEF Good
    <2> HIDE DEF n, u
    <2>3. Good(u)
      BY <1>2, <2>1, PutsGood
    <2>4. u.links = t.links /\ u.nestw = n /\ u.verify = t.verify
      BY <2>1, <2>2 DEF Shape
    <2> QED
      BY <2>3, <2>4 DEF n
  <1> HIDE DEF u
  <1>4. Nesting(u, {})
    BY <1>2, <1>3 DEF Nesting
  <1>5. Nesting(v, {})
    <2>1. Calm(u, v)
      BY <1>3, BookAside, AsideCalm DEF Good
    <2> QED
      BY <1>4, <2>1, CalmWaiting
  <1> QED
    BY <1>1, <1>4, <1>5

\* The handshake of a link is over and its callback has yet to run.
Ending(s, id) ==
    /\ id \in DOMAIN s.links /\ s.links[id].phase # "Handshaking"
    /\ id \in s.nestw => s.links[id].car = TRUE /\ s.links[id].cb = TRUE
    /\ Nesting(s, {id})

LEMMA CalmEnding ==
    ASSUME NEW s, NEW u, Calm(s, u), NEW id \in DOMAIN u.links, Ending(s, id)
    PROVE  Ending(u, id)
  <1>1. Nesting(u, {id})
    BY CalmWaiting DEF Ending
  <1>2. u.links[id].phase # "Handshaking"
    BY DEF Calm, Ending
  <1>3. ASSUME id \in u.nestw
        PROVE  u.links[id].car = TRUE /\ u.links[id].cb = TRUE
    BY <1>3 DEF Calm, Ending
  <1> QED
    BY <1>1, <1>2, <1>3 DEF Ending

\* The callback of a link whose handshake is over answers those who wait for it.
LEMMA EstablishCbWaiting ==
    ASSUME NEW s, Good(s), NEW id, NEW ok, NEW aborted, Ending(s, id)
    PROVE  Nesting(EstablishCb(s, id, ok, aborted), {})
  <1> DEFINE l == s.links[id]
             t == [s EXCEPT !.links[id].cb = FALSE]
             k == [s.links[id] EXCEPT !.cb = FALSE]
             key == s.links[id].key
  <1>1. \/ EstablishCb(s, id, ok, aborted) = s /\ ~l.cb
        \/ EstablishCb(s, id, ok, aborted) = FinishNestedCarrier(t, id, ok)
        \/ EstablishCb(s, id, ok, aborted) = FinishDial(t, key, id, ok, aborted) /\ ~l.car
        \/ EstablishCb(s, id, ok, aborted) = t /\ ~l.car
        \/ EstablishCb(s, id, ok, aborted) = ScheduleDropLink(t, id) /\ ~l.car
    BY DEF EstablishCb
  <1>0. id \in DOMAIN s.links /\ Nesting(s, {id}) /\ s.links[id].phase # "Handshaking"
    BY DEF Ending
  <1>2. ~l.cb \/ ~l.car => id \notin s.nestw
    BY DEF Ending
  <1>3. Good(t)
    BY LinkFieldGood
  <1>4. t = [s EXCEPT !.links[id] = k] /\ k.phase # "Handshaking"
    BY <1>0 DEF Good, LinksInv, LinkShape
  <1>5. Nesting(t, {id}) /\ t.nestw = s.nestw
    <2>1. t.nestw = s.nestw
      BY DEF Good, Shape
    <2> HIDE DEF t, k
    <2> QED
      BY <1>0, <1>4, <2>1, LinkEndsWaiting
  <1>6. ASSUME NEW u, Nesting(u, {id}), id \notin u.nestw
        PROVE  Nesting(u, {})
    BY <1>6 DEF Nesting
  <1> HIDE DEF t
  <1>7. CASE ~l.cb
    <2>1. Nesting(s, {})
      BY <1>0, <1>2, <1>6, <1>7
    <2>2. EstablishCb(s, id, ok, aborted) = s
      BY <1>7 DEF EstablishCb
    <2> QED
      BY <2>1, <2>2
  <1>8. Nesting(FinishNestedCarrier(t, id, ok), {})
    BY <1>3, <1>5, FinishNestedCarrierWaiting
  <1>9. ASSUME ~l.car
        PROVE  /\ Nesting(t, {})
               /\ Nesting(FinishDial(t, key, id, ok, aborted), {})
               /\ Nesting(ScheduleDropLink(t, id), {})
    <2>1. Nesting(t, {})
      BY <1>2, <1>5, <1>6, <1>9
    <2>2. Shape(t)
      BY <1>3 DEF Good
    <2>3. Calm(t, FinishDial(t, key, id, ok, aborted)) /\ Calm(t, ScheduleDropLink(t, id))
      BY <2>2, FinishDialAside, BookAside, AsideCalm
    <2> QED
      BY <2>1, <2>3, CalmWaiting
  <1> HIDE DEF l
  <1> QED
    BY <1>1, <1>7, <1>8, <1>9

LEMMA FailAssociationWaiting ==
    ASSUME NEW s, Good(s), NEW id \in DOMAIN s.links, NEW aborted, Nesting(s, {})
    PROVE  Nesting(FailAssociation(s, id, aborted), {})
  <1> DEFINE k == [s.links[id] EXCEPT !.phase = "Backoff"]
             t == [s EXCEPT !.links[id].phase = "Backoff"]
  <1>1. Good(t)
    BY LinkFieldGood
  <1>2. /\ t = [s EXCEPT !.links[id] = k] /\ k.phase = "Backoff"
        /\ k.car = s.links[id].car /\ k.cb = s.links[id].cb
    BY DEF Good, LinksInv, LinkShape
  <1>3. t.links = [s.links EXCEPT ![id] = k] /\ t.nestw = s.nestw
    BY <1>2 DEF Good, Shape
  <1>4. FailAssociation(s, id, aborted) = EstablishCb(t, id, FALSE, aborted)
    BY DEF FailAssociation
  <1> HIDE DEF t, k
  <1>5. t.links[id] = k /\ id \in DOMAIN t.links
    BY <1>3
  <1>6. Nesting(t, {id})
    BY <1>2, LinkEndsWaiting
  <1>7. id \in t.nestw => k.car = TRUE /\ k.cb = TRUE
    BY <1>2, <1>3 DEF Nesting
  <1>8. Ending(t, id)
    BY <1>2, <1>5, <1>6, <1>7 DEF Ending
  <1> QED
    BY <1>1, <1>4, <1>8, EstablishCbWaiting

LEMMA OnLinkEstablishedWaiting ==
    ASSUME NEW s, Good(s), NEW id \in InHandshake(s), NEW p, Nesting(s, {})
    PROVE  Nesting(OnLinkEstablished(s, id, p), {})
  <1> DEFINE k == [[[s.links[id] EXCEPT !.phase = "Connected"] EXCEPT !.peer = p] EXCEPT !.cap = "none"]
             t == [s EXCEPT !.links[id].phase = "Connected", !.links[id].peer = p,
                            !.links[id].cap = "none"]
             S == ConnectedTo(s, p) \ {id}
             other == FirstOf(s, S)
             up(u) == EstablishCb(StartCapabilityExchange(RefreshPresence(u, id), id), id, TRUE, FALSE)
             b == [t EXCEPT !.links[id].phase = "Backoff"]
             c == ScheduleDropLink(b, id)
             x == <<p, t.links[id].key>>
             lost == [c EXCEPT !.adopt = IF t.links[id].out THEN Append(@, x) ELSE @]
             a == AdoptAlias(t, id)
             v == DemoteLoser(t, other)
             w == AdoptAlias(v, id)
  <1>1. \/ OnLinkEstablished(s, id, p) = up(a)
        \/ OnLinkEstablished(s, id, p) = up(t)
        \/ OnLinkEstablished(s, id, p) = up(w) /\ other # NoLink
        \/ OnLinkEstablished(s, id, p) = EstablishCb(lost, id, TRUE, FALSE)
    BY DEF OnLinkEstablished
  <1>2. id \in DOMAIN s.links /\ s.links[id].phase = "Handshaking" /\ LinkShape(s.links[id])
    BY DEF InHandshake, Good, LinksInv
  <1>3. t = [s EXCEPT !.links[id] = k]
    BY DEF Good, Shape
  <1>4. /\ LinkShape(k) /\ k.key = s.links[id].key /\ k.car = s.links[id].car
        /\ k.cb = s.links[id].cb /\ k.phase = "Connected"
    BY <1>2 DEF LinkShape
  <1> HIDE DEF k
  <1>5. Good(t)
    BY <1>2, <1>3, <1>4, LinkPutGood
  <1>6. /\ t.nestw = s.nestw /\ DOMAIN t.links = DOMAIN s.links
        /\ \A i \in DOMAIN s.links : t.links[i] = IF i = id THEN k ELSE s.links[i]
    <2> DEFINE L == [s.links EXCEPT ![id] = k]
               u == [s EXCEPT !.links = L]
    <2>1. /\ DOMAIN L = DOMAIN s.links
          /\ \A i \in DOMAIN s.links : L[i] = IF i = id THEN k ELSE s.links[i]
      OBVIOUS
    <2>2. t = u
      BY <1>3
    <2> HIDE DEF L, t
    <2>3. u.links = L /\ u.nestw = s.nestw
      BY DEF Good, Shape
    <2> HIDE DEF u
    <2> QED
      BY <2>1, <2>2, <2>3
  <1>7. S \in SUBSET DOMAIN s.links /\ \A i \in S : s.links[i].phase = "Connected" /\ i # id
    BY DEF ConnectedTo, Connected
  <1>8. (S = {} => other = NoLink) /\ (S # {} => other \in S /\ other # NoLink)
    BY <1>7, FirstOfLinks
  <1> HIDE DEF t, other, up, S
  <1>9. Ending(t, id)
    <2>1. Nesting(t, {id})
      BY <1>2, <1>3, <1>4, LinkEndsWaiting
    <2>2. t.links[id] = k
      BY <1>2, <1>6
    <2>3. id \in t.nestw => k.car = TRUE /\ k.cb = TRUE
      BY <1>4, <1>6 DEF Nesting
    <2> QED
      BY <1>2, <1>4, <1>6, <2>1, <2>2, <2>3 DEF Ending
  <1>10. ASSUME NEW u, Good(u), Ending(u, id)
         PROVE  Nesting(up(u), {})
    <2> DEFINE r == RefreshPresence(u, id)
               q == StartCapabilityExchange(r, id)
    <2>1. Good(r) /\ Aside(u, r)
      BY <1>10, RefreshPresenceGood, BookAside DEF Good
    <2>2. Ending(r, id)
      BY <1>10, <2>1, AsideCalm, CalmEnding DEF Aside, Ending
    <2> HIDE DEF r
    <2>3. Good(q) /\ Calm(r, q) /\ DOMAIN q.links = DOMAIN r.links
      BY <2>1, StartCapabilityExchangeGood, StartCapabilityExchangeCalm, StartCapabilityExchangeMild
    <2> HIDE DEF q
    <2>4. Ending(q, id)
      BY <2>2, <2>3, CalmEnding DEF Ending
    <2>5. Nesting(EstablishCb(q, id, TRUE, FALSE), {})
      BY <2>3, <2>4, EstablishCbWaiting
    <2> QED
      BY <2>5 DEF up, q, r
  <1>11. Nesting(up(a), {})
    <2>1. Good(a) /\ Calm(t, a) /\ id \in DOMAIN a.links
      BY <1>2, <1>5, <1>6, AdoptAliasGood, AdoptAliasMild, AdoptAliasCalm
    <2> HIDE DEF a
    <2> QED
      BY <1>9, <1>10, <2>1, CalmEnding
  <1>12. Nesting(up(t), {})
    BY <1>5, <1>9, <1>10
  <1>13. ASSUME other # NoLink
         PROVE  Nesting(up(w), {})
    <2>1. other \in S
      BY <1>8, <1>13
    <2>2. t.links[other].phase = "Connected"
      BY <1>6, <1>7, <2>1
    <2>3. Good(v) /\ Calm(t, v) /\ DOMAIN v.links = DOMAIN t.links
      BY <1>5, <2>2, DemoteLoserGood, DemoteLoserMild, DemoteLoserCalm
    <2> HIDE DEF v
    <2>4. Ending(v, id)
      BY <1>2, <1>6, <1>9, <2>3, CalmEnding
    <2>5. Good(w) /\ Calm(v, w) /\ id \in DOMAIN w.links
      BY <1>2, <1>6, <2>3, AdoptAliasGood, AdoptAliasMild, AdoptAliasCalm
    <2> HIDE DEF w
    <2> QED
      BY <1>10, <2>4, <2>5, CalmEnding
  <1>14. Nesting(EstablishCb(lost, id, TRUE, FALSE), {})
    <2>1. Good(b) /\ Calm(t, b)
      BY <1>5, <1>9, LinkFieldGood, LinkFieldCalm DEF Ending
    <2>2. DOMAIN b.links = DOMAIN s.links
      BY <1>5, <1>6 DEF Good, Shape
    <2> HIDE DEF b
    <2>3. Ending(b, id)
      BY <1>2, <1>9, <2>1, <2>2, CalmEnding
    <2>4. Good(c) /\ Aside(b, c)
      BY <2>1, BookGood, BookAside DEF Good
    <2> HIDE DEF c, x
    <2>5. Good(lost) /\ Aside(c, lost)
      <3>1. Good([c EXCEPT !.adopt = Append(@, x)])
        BY <2>4, QueueGood
      <3>2. [c EXCEPT !.adopt = @] = c
        BY <2>4 DEF Good, Shape
      <3>3. Aside(c, [c EXCEPT !.adopt = Append(@, x)]) /\ Aside(c, c)
        BY <2>4, PutsAside DEF Good
      <3> QED
        BY <2>4, <3>1, <3>2, <3>3
    <2> HIDE DEF lost
    <2>6. Aside(b, lost)
      BY <2>4, <2>5, AsideThen
    <2>7. Ending(lost, id)
      BY <2>3, <2>6, AsideCalm, CalmEnding DEF Aside, Ending
    <2> QED
      BY <2>5, <2>7, EstablishCbWaiting
  <1> QED
    BY <1>1, <1>11, <1>12, <1>13, <1>14

LEMMA FinishEstablishmentWaiting ==
    ASSUME NEW s, Good(s), NEW id \in InHandshake(s), NEW p, Nesting(s, {})
    PROVE  Nesting(FinishEstablishment(s, id, p), {})
  <1> DEFINE k == [s.links[id] EXCEPT !.peer = p]
             t == [s EXCEPT !.links[id].peer = p]
  <1>1. [s EXCEPT !.links[id].peer = p] = [s EXCEPT !.links[id] = k]
    OBVIOUS
  <1>2. /\ id \in DOMAIN s.links
        /\ LinkShape(k) /\ k.key = s.links[id].key /\ k.car = s.links[id].car
        /\ s.links[id].phase = "Handshaking"
    BY DEF Good, LinksInv, LinkShape, InHandshake
  <1>3. \/ FinishEstablishment(s, id, p) = FailAssociation(t, id, FALSE)
        \/ FinishEstablishment(s, id, p) = OnLinkEstablished(s, id, p)
    BY DEF FinishEstablishment
  <1>4. DOMAIN t.links = DOMAIN s.links
    BY DEF Good, Shape
  <1>5. Calm(s, t)
    BY LinkFieldCalm
  <1> HIDE DEF k
  <1>6. Good(t)
    BY <1>1, <1>2, LinkPutGood
  <1> HIDE DEF t
  <1>7. Nesting(t, {})
    BY <1>5, CalmWaiting
  <1> QED
    BY <1>2, <1>3, <1>4, <1>6, <1>7, FailAssociationWaiting, OnLinkEstablishedWaiting

LEMMA InsertRest ==
    ASSUME NEW s, Good(s), NEW l, NEW u, u = Added(s, l)
    PROVE  /\ u.nestw = s.nestw /\ u.verify = s.verify /\ u.pend = s.pend
           /\ u.eps = s.eps /\ u.retry = s.retry /\ u.adopt = s.adopt /\ u.resolving = s.resolving
           /\ u.next = s.next + 1 /\ u.index = Assign(s.index, l.key, s.next)
  <1> DEFINE n1 == s.next + 1
             L == Assign(s.links, s.next, l)
             Y == Assign(s.index, l.key, s.next)
             v == [s EXCEPT !.next = n1, !.links = L, !.index = Y]
  <1>1. Insert([s EXCEPT !.next = @ + 1], s.next, l) = v
    BY DEF Insert, Good, Shape
  <1>2. n1 = s.next + 1 /\ Y = Assign(s.index, l.key, s.next)
    OBVIOUS
  <1> HIDE DEF L, Y, n1
  <1>3. /\ v.nestw = s.nestw /\ v.verify = s.verify /\ v.pend = s.pend
        /\ v.eps = s.eps /\ v.retry = s.retry /\ v.adopt = s.adopt /\ v.resolving = s.resolving
        /\ v.next = n1 /\ v.index = Y
    BY DEF Good, Shape
  <1> HIDE DEF v
  <1>4. u = v
    BY <1>1, Zenon DEF Added
  <1> QED
    BY <1>2, <1>3, <1>4

\* A new link has its callback.
LEMMA InsertWaiting ==
    ASSUME NEW s, Good(s), NEW l, l.cb = TRUE, NEW X, Nesting(s, X),
           NEW u, u = Added(s, l)
    PROVE  Nesting(u, X)
  <1> DEFINE n == s.next
  <1>1. /\ DOMAIN u.links = DOMAIN s.links \cup {n}
        /\ u.links[n] = l
        /\ \A i \in DOMAIN s.links : u.links[i] = s.links[i]
    BY InsertFacts
  <1>2. u.nestw = s.nestw /\ u.verify = s.verify
    BY InsertRest
  <1> HIDE DEF n
  <1> QED
    BY <1>1, <1>2 DEF Nesting

LEMMA BeginOutboundDialWaiting ==
    ASSUME NEW s, Good(s), NEW key, NEW outcome \in Outcomes, Nesting(s, {})
    PROVE  Nesting(BeginOutboundDial(s, key, outcome), {})
  <1> DEFINE l == NewLink(key, s.eps[key].peer, TRUE, FALSE, NoLink)
             i == Insert([s EXCEPT !.next = @ + 1], s.next, l)
             dialed == IncConcurrentDials(i)
             r == ResetDialIndex(s, key)
             a == Answer(r, key)
             n == s.next
             v == [s EXCEPT !.resolving = @ \cup {key}]
  <1>1. \/ BeginOutboundDial(s, key, outcome) = a
        \/ BeginOutboundDial(s, key, outcome) = Answer(s, key)
        \/ BeginOutboundDial(s, key, outcome) = v
        \/ BeginOutboundDial(s, key, outcome) = dialed
        \/ BeginOutboundDial(s, key, outcome) = FailAssociation(dialed, n, FALSE)
    BY DEF BeginOutboundDial, Outcomes
  <1>2. LinkShape(l) /\ l.cb = TRUE
    BY NewLinkShape DEF NewLink
  <1> HIDE DEF l
  <1>3. Good(i)
    BY <1>2, InsertGood
  <1>4. Nesting(i, {}) /\ n \in DOMAIN i.links
    <2>1. i = Added(s, l)
      BY Zenon DEF Added
    <2>2. ASSUME NEW u, u = Added(s, l)
          PROVE  Nesting(u, {}) /\ s.next \in DOMAIN u.links
      <3>1. Nesting(u, {})
        BY <1>2, <2>2, InsertWaiting
      <3>2. DOMAIN u.links = DOMAIN s.links \cup {s.next}
        BY <2>2, InsertFacts
      <3> QED
        BY <3>1, <3>2
    <2> HIDE DEF i
    <2> QED
      BY <2>1, <2>2
  <1> HIDE DEF i, n
  <1>5. Good(dialed) /\ Aside(i, dialed)
    BY <1>3, BookGood, BookAside DEF Good
  <1> HIDE DEF dialed
  <1>6. Nesting(dialed, {}) /\ n \in DOMAIN dialed.links
    BY <1>4, <1>5, AsideCalm, CalmWaiting DEF Aside
  <1>7. Aside(s, r) /\ Aside(s, Answer(s, key)) /\ Aside(s, v)
    BY BookAside, PutsAside DEF Good
  <1> HIDE DEF r, v
  <1>8. Aside(s, a)
    <2>1. Shape(r)
      BY <1>7 DEF Aside
    <2> QED
      BY <1>7, <2>1, BookAside, AsideThen
  <1> HIDE DEF a
  <1>9. Nesting(a, {}) /\ Nesting(Answer(s, key), {}) /\ Nesting(v, {})
    BY <1>7, <1>8, AsideCalm, CalmWaiting
  <1>10. Nesting(FailAssociation(dialed, n, FALSE), {})
    BY <1>5, <1>6, FailAssociationWaiting
  <1> QED
    BY <1>1, <1>6, <1>9, <1>10

LEMMA FailCandidateWaiting ==
    ASSUME NEW s, Good(s), NEW key, NEW outcome \in Outcomes, Nesting(s, {})
    PROVE  Nesting(FailCandidate(s, key, outcome), {})
  <1> DEFINE n == AdvanceDialCandidate(s, key)
             r == ResetDialIndex(s, key)
             b == ArmBackoff(r, key)
             a == Answer(b, key)
  <1>1. \/ FailCandidate(s, key, outcome) = BeginOutboundDial(n, key, outcome)
        \/ FailCandidate(s, key, outcome) = a
    BY DEF FailCandidate
  <1>2. Good(n) /\ Good(r) /\ Aside(s, n) /\ Aside(s, r)
    BY BookGood, BookAside DEF Good
  <1> HIDE DEF n, r
  <1>3. Good(b) /\ Aside(r, b)
    BY <1>2, BookGood, BookAside DEF Good
  <1> HIDE DEF b
  <1>4. Aside(b, a)
    BY <1>3, BookAside DEF Good
  <1> HIDE DEF a
  <1>5. Aside(s, a)
    BY <1>2, <1>3, <1>4, AsideThen
  <1>6. Nesting(n, {}) /\ Nesting(a, {})
    BY <1>2, <1>5, AsideCalm, CalmWaiting
  <1> QED
    BY <1>1, <1>2, <1>6, BeginOutboundDialWaiting

LEMMA OnHostResolvedWaiting ==
    ASSUME NEW s, Good(s), NEW key, NEW ok, NEW outcome \in Outcomes, Nesting(s, {})
    PROVE  Nesting(OnHostResolved(s, key, ok, outcome), {})
  <1> DEFINE r == IF ok THEN SetResolution(s) ELSE s
             t == [r EXCEPT !.resolving = @ \ {key}]
  <1>1. \/ OnHostResolved(s, key, ok, outcome) = t
        \/ OnHostResolved(s, key, ok, outcome) = FailCandidate(t, key, outcome)
        \/ OnHostResolved(s, key, ok, outcome) = BeginOutboundDial(t, key, outcome)
    BY DEF OnHostResolved
  <1>2. Good(r) /\ Aside(s, r)
    BY BookGood, BookAside, PutsAside DEF Good
  <1> HIDE DEF r
  <1>3. Good(t) /\ Aside(r, t)
    BY <1>2, PutsGood, PutsAside DEF Good
  <1> HIDE DEF t
  <1>4. Nesting(t, {})
    BY <1>2, <1>3, AsideThen, AsideCalm, CalmWaiting
  <1> QED
    BY <1>1, <1>3, <1>4, FailCandidateWaiting, BeginOutboundDialWaiting

LEMMA EnsureAssociationWaiting ==
    ASSUME NEW s, Good(s), NEW key, NEW over, NEW outcome \in Outcomes, Nesting(s, {})
    PROVE  Nesting(EnsureAssociation(s, key, over, outcome), {})
  <1> DEFINE byPeer == IF key \in DOMAIN s.eps THEN FindByPeerId(s, s.eps[key].peer) ELSE NoLink
             adp == FindAdpLinkForKey(s, key)
             clear == IF adp # NoLink /\ ~Connected(s, adp) THEN DropLinks(s, {adp}) ELSE s
             erased == IF over THEN ClearBackoff(clear, {key}) ELSE clear
             join(t) == [t EXCEPT !.inflight = @ \cup {key}]
             r == ResetDialIndex(erased, key)
             j == join(r)
             y == join(s)
  <1>1. \/ EnsureAssociation(s, key, over, outcome) = s
        \/ EnsureAssociation(s, key, over, outcome) = BindDialAlias(s, byPeer, key)
        \/ EnsureAssociation(s, key, over, outcome) = y
        \/ EnsureAssociation(s, key, over, outcome) = erased
        \/ EnsureAssociation(s, key, over, outcome) = clear
        \/ EnsureAssociation(s, key, over, outcome) = BeginOutboundDial(j, key, outcome)
    BY DEF EnsureAssociation
  <1>2. Good(clear) /\ Calm(s, clear)
    <2>1. Calm(s, s)
      BY DEF Calm
    <2> QED
      BY <2>1, DropLinksGood, DropLinksCalm
  <1> HIDE DEF clear, byPeer
  <1>3. Good(erased) /\ Aside(clear, erased)
    BY <1>2, BookGood, BookAside, PutsAside DEF Good
  <1> HIDE DEF erased
  <1>4. Good(r) /\ Aside(erased, r)
    BY <1>3, BookGood, BookAside DEF Good
  <1> HIDE DEF r
  <1>5. Aside(s, y) /\ Good(j) /\ Aside(r, j)
    BY <1>4, PutsGood, PutsAside DEF Good
  <1> HIDE DEF join, j, y
  <1>6. Nesting(clear, {}) /\ Nesting(y, {})
    BY <1>2, <1>5, AsideCalm, CalmWaiting
  <1>7. Nesting(erased, {})
    BY <1>3, <1>6, AsideCalm, CalmWaiting
  <1>8. Nesting(j, {})
    BY <1>4, <1>5, <1>7, AsideThen, AsideCalm, CalmWaiting
  <1>9. Nesting(BeginOutboundDial(j, key, outcome), {})
    BY <1>5, <1>8, BeginOutboundDialWaiting
  <1>10. Nesting(BindDialAlias(s, byPeer, key), {})
    BY BindDialAliasCalm, CalmWaiting
  <1> QED
    BY <1>1, <1>6, <1>7, <1>9, <1>10, Zenon

LEMMA OnInboundConnectionWaiting ==
    ASSUME NEW s, Good(s), NEW idle, Nesting(s, {})
    PROVE  Nesting(OnInboundConnection(s, idle), {})
  <1> DEFINE e == [s EXCEPT !.links[idle].conn = "closed"]
             d == ScheduleDropLink(e, idle)
             t == IF AtLinkCapacity(s) /\ idle # NoLink THEN d ELSE s
             l == NewLink(<<"inbound", t.next>>, NoPeer, FALSE, FALSE, NoLink)
             i == Insert([t EXCEPT !.next = @ + 1], t.next, l)
  <1>1. \/ OnInboundConnection(s, idle) = s
        \/ OnInboundConnection(s, idle) = t
        \/ OnInboundConnection(s, idle) = i
    BY DEF OnInboundConnection
  <1>2. Good(e) /\ Calm(s, e)
    BY LinkFieldGood, LinkFieldCalm
  <1> HIDE DEF e
  <1>3. Good(d) /\ Aside(e, d)
    BY <1>2, BookGood, BookAside DEF Good
  <1> HIDE DEF d
  <1>4. Calm(s, d)
    BY <1>2, <1>3, AsideCalm, CalmThen
  <1>5. Nesting(d, {})
    BY <1>4, CalmWaiting
  <1>6. Good(t) /\ Nesting(t, {})
    BY <1>3, <1>5
  <1> HIDE DEF t
  <1>7. l.cb = TRUE
    BY DEF NewLink
  <1>8. i = Added(t, l)
    BY Zenon DEF Added
  <1> HIDE DEF l, i
  <1>9. ASSUME NEW u, u = Added(t, l)
        PROVE  Nesting(u, {})
    BY <1>6, <1>7, <1>9, InsertWaiting
  <1> QED
    BY <1>1, <1>6, <1>8, <1>9

LEMMA FindNestedLinkForKeyIn ==
    ASSUME NEW s, Good(s), NEW key, FindNestedLinkForKey(s, key) # NoLink
    PROVE  /\ FindNestedLinkForKey(s, key) \in DOMAIN s.links
           /\ s.links[FindNestedLinkForKey(s, key)].car = TRUE
  <1> DEFINE l == FindByDialKey(s, key)
             same == {id \in DOMAIN s.links : s.links[id].car = TRUE /\ s.links[id].key = key}
             first == FirstOf(s, same)
  <1>1. \/ FindNestedLinkForKey(s, key) = l /\ l # NoLink /\ s.links[l].car = TRUE
        \/ FindNestedLinkForKey(s, key) = first
    BY DEF FindNestedLinkForKey, FindOfTransport
  <1>2. l # NoLink => l \in DOMAIN s.links
    BY DEF FindByDialKey
  <1>3. same \in SUBSET DOMAIN s.links /\ \A i \in same : s.links[i].car = TRUE
    OBVIOUS
  <1> HIDE DEF same
  <1>4. first # NoLink => first \in same
    BY <1>3, FirstOfLinks
  <1> QED
    BY <1>1, <1>2, <1>3, <1>4

\* Whoever joins a nested handshake, or starts one, has a link to wait on.
LEMMA EstablishNestedOverCarrierWaiting ==
    ASSUME NEW s, Good(s), NEW key, NEW initiator, NEW via, NEW unsent,
           Nesting(s, {})
    PROVE  Nesting(EstablishNestedOverCarrier(s, key, initiator, via, unsent), {})
  <1> DEFINE l == FindNestedLinkForKey(s, key)
             n == s.next
             j == [s EXCEPT !.nestw = @ \cup {l}]
             link == NewLink(key, PeerNamed(key), initiator, TRUE, via)
             first == [s EXCEPT !.next = @ + 1, !.nestw = @ \cup {s.next}]
             started == Insert(first, s.next, link)
             w == [s EXCEPT !.nestw = @ \cup {n}]
             result == EstablishNestedOverCarrier(s, key, initiator, via, unsent)
             last == FailAssociation(started, n, FALSE)
             joins == l # NoLink /\ s.links[l].phase = "Handshaking"
  <1>1. (result = j /\ joins) \/ result = s \/ result = last \/ result = started
    <2> DEFINE done == l # NoLink /\ Connected(s, l)
               stays == done \/ (~joins /\ AtLinkCapacity(s))
               starts == IF initiator /\ unsent THEN FailAssociation(started, s.next, FALSE) ELSE started
    <2>1. result = CASE joins -> j [] stays -> s [] OTHER -> starts
      BY Zenon DEF EstablishNestedOverCarrier
    <2>2. starts = last \/ starts = started
      BY Zenon
    <2>3. ~(joins /\ stays)
      BY DEF Connected
    <2> HIDE DEF joins, stays, j, started, first, result, starts, last
    <2> QED
      BY <2>1, <2>2, <2>3
  <1>2. w.next = s.next /\ first = [w EXCEPT !.next = @ + 1]
    BY DEF Good, Shape
  <1>3. LinkShape(link) /\ link.phase = "Handshaking" /\ link.car = TRUE /\ link.cb = TRUE
    BY NewLinkShape DEF NewLink
  <1>4. joins => l \in DOMAIN s.links /\ s.links[l].car = TRUE /\ s.links[l].phase = "Handshaking"
    BY FindNestedLinkForKeyIn
  <1> HIDE DEF l, n, link, first
  <1>5. Good(w) /\ w.links = s.links /\ w.nestw = s.nestw \cup {n} /\ w.verify = s.verify
    BY PutsGood, ZenonT(60) DEF Good, Shape
  <1>6. j.links = s.links /\ j.nestw = s.nestw \cup {l} /\ j.verify = s.verify
    BY DEF Good, Shape
  <1> HIDE DEF j, w, joins
  <1>7. joins => Nesting(j, {})
    BY <1>4, <1>6 DEF Nesting
  <1>8. Nesting(w, {n})
    BY <1>5 DEF Nesting
  <1>9. ASSUME NEW u, u = Added(w, link)
        PROVE  Good(u) /\ Nesting(u, {}) /\ w.next \in DOMAIN u.links
    <2>1. Good(Insert([w EXCEPT !.next = @ + 1], w.next, link))
      BY <1>3, <1>5, InsertGood
    <2>2. Good(u)
      BY <1>9, <2>1, Zenon DEF Added
    <2>3. Nesting(u, {n})
      BY <1>3, <1>5, <1>8, <1>9, InsertWaiting
    <2>4. w.next \in DOMAIN u.links /\ u.links[w.next] = link
      BY <1>5, <1>9, InsertFacts
    <2>5. Nesting(u, {})
      BY <1>2, <1>3, <2>3, <2>4 DEF Nesting, n
    <2> QED
      BY <2>2, <2>4, <2>5
  <1>10. started = Added(w, link)
    BY <1>2, Zenon DEF Added
  <1> HIDE DEF started
  <1>11. Good(started) /\ Nesting(started, {}) /\ n \in DOMAIN started.links
    BY <1>2, <1>9, <1>10 DEF n
  <1>12. Nesting(last, {})
    BY <1>11, FailAssociationWaiting
  <1> HIDE DEF last, result
  <1>13. Nesting(result, {})
    BY <1>1, <1>7, <1>11, <1>12
  <1> QED
    BY <1>13 DEF result

LEMMA AbortInflightDialWaiting ==
    ASSUME NEW s, Good(s), NEW key, Nesting(s, {})
    PROVE  Nesting(AbortInflightDial(s, key), {})
  <1> DEFINE c == ClearBackoff(s, {key})
             a == Answer(c, key)
             q == Without(a.retry, key)
             t == [a EXCEPT !.retry = q]
             l == FindAdpLinkForKey(t, key)
  <1>1. \/ AbortInflightDial(s, key) = t
        \/ AbortInflightDial(s, key) = FailAssociation(t, l, TRUE) /\ l # NoLink
        \/ AbortInflightDial(s, key) = DropStale(t, l)
    BY DEF AbortInflightDial
  <1>2. Good(c) /\ Aside(s, c)
    BY BookGood, BookAside DEF Good
  <1> HIDE DEF c
  <1>3. Good(a) /\ Aside(c, a)
    BY <1>2, BookGood, BookAside DEF Good
  <1> HIDE DEF a
  <1>4. IsSeq(q)
    BY <1>3, WithoutIsSeq DEF Good
  <1> HIDE DEF q
  <1>5. Good(t) /\ Aside(a, t)
    BY <1>3, <1>4, QueuePutGood, PutsAside DEF Good
  <1> HIDE DEF t
  <1>6. Aside(s, t)
    BY <1>2, <1>3, <1>5, AsideThen
  <1>7. Nesting(t, {})
    BY <1>6, AsideCalm, CalmWaiting
  <1>8. l # NoLink => l \in DOMAIN t.links
    BY <1>5, FindAdpLinkForKeyIn
  <1> HIDE DEF l
  <1>9. l # NoLink => Nesting(FailAssociation(t, l, TRUE), {})
    BY <1>5, <1>7, <1>8, FailAssociationWaiting
  <1>10. Aside(t, DropStale(t, l))
    BY <1>5, BookAside, PutsAside DEF DropStale, Good
  <1>11. Nesting(DropStale(t, l), {})
    BY <1>7, <1>10, AsideCalm, CalmWaiting
  <1> QED
    BY <1>1, <1>7, <1>9, <1>11

LEMMA DropsCalm ==
    ASSUME NEW s, Good(s), NEW key
    PROVE  /\ Calm(s, CloseAllLinks(s)) /\ Calm(s, TickDrops(s))
           /\ Calm(s, RequestDropLink(s, key))
  <1> DEFINE t == [s EXCEPT !.pend = {}]
  <1>1. Good(t) /\ Calm(s, t)
    BY PutsGood, PutsAside, AsideCalm DEF Good
  <1>2. CloseAllLinks(s) = DropLinks(t, DOMAIN s.links) /\ TickDrops(s) = DropLinks(t, s.pend)
    BY DEF CloseAllLinks, TickDrops
  <1> HIDE DEF t
  <1>3. Calm(s, CloseAllLinks(s)) /\ Calm(s, TickDrops(s))
    BY <1>1, <1>2, DropLinksCalm, CalmThen
  <1>4. ASSUME NEW x
        PROVE  Calm(s, [s EXCEPT !.pend = x])
    BY PutsAside, AsideCalm DEF Good
  <1>5. Calm(s, RequestDropLink(s, key))
    BY <1>4, Zenon DEF RequestDropLink
  <1> QED
    BY <1>3, <1>5

LEMMA OnNetworkChangedCalm ==
    ASSUME NEW s, Good(s)
    PROVE  Calm(s, OnNetworkChanged(s))
  <1> DEFINE probe(l) == IF l.phase = "Connected" /\ ~l.car THEN [l EXCEPT !.sus = "asked"] ELSE l
             t == [s EXCEPT !.backoff = {}]
             L == [id \in DOMAIN s.links |-> probe(s.links[id])]
  <1>1. OnNetworkChanged(s) = [s EXCEPT !.backoff = {}, !.links = L]
    BY DEF OnNetworkChanged
  <1>2. Good(t) /\ Calm(s, t)
    BY PutsGood, PutsAside, AsideCalm DEF Good
  <1>3. /\ DOMAIN L = DOMAIN s.links
        /\ \A i \in DOMAIN L :
              /\ L[i].car = s.links[i].car /\ L[i].cb = s.links[i].cb
              /\ L[i].phase = s.links[i].phase
    BY DEF Good, LinksInv, LinkShape
  <1> HIDE DEF L
  <1>4. t.links = s.links /\ [s EXCEPT !.backoff = {}, !.links = L] = [t EXCEPT !.links = L]
    BY DEF Good, Shape
  <1> HIDE DEF t
  <1>5. Calm(t, [t EXCEPT !.links = L])
    BY <1>2, <1>3, <1>4, MapLinksCalm
  <1>6. Calm(s, [t EXCEPT !.links = L])
    BY <1>2, <1>5, CalmThen
  <1> QED
    BY <1>1, <1>4, <1>6

\* Only where links are probed is anyone told of a verdict.
LEMMA VerifyLinkWaiting ==
    ASSUME NEW s, Good(s), NEW key, Nesting(s, {})
    PROVE  Nesting(VerifyLink(s, key), {})
  <1> DEFINE l == ResolveConnectedLink(s, key)
             x == IF s.links[l].sus = "no" THEN "asked" ELSE s.links[l].sus
             v == s.verify \cup {l}
             t == [s EXCEPT !.verify = v]
             u == [t EXCEPT !.links[l].sus = x]
  <1>1. \/ VerifyLink(s, key) = s
        \/ VerifyLink(s, key) = [s EXCEPT !.verify = v, !.links[l].sus = x]
    BY DEF VerifyLink
  <1> HIDE DEF l, v, x
  <1>2. Good(t) /\ t.links = s.links /\ t.nestw = s.nestw
    BY PutsGood, ZenonT(60) DEF Good, Shape
  <1>3. [s EXCEPT !.verify = v, !.links[l].sus = x] = u
    OBVIOUS
  <1> HIDE DEF t
  <1>4. Nesting(t, {})
    BY <1>2 DEF Nesting
  <1>5. Calm(t, u)
    BY <1>2, LinkFieldCalm
  <1> HIDE DEF u
  <1>6. Nesting(u, {})
    BY <1>4, <1>5, CalmWaiting
  <1> QED
    BY <1>1, <1>3, <1>6

LEMMA TickEvictsCalm ==
    ASSUME NEW s, Good(s)
    PROVE  Calm(s, TickEvicts(s))
  <1> DEFINE asked(l) == ~l.car /\ l.phase = "Connected" /\ l.conn # "closed"
             heard == {id \in DOMAIN s.links : asked(s.links[id]) /\ s.links[id].sus = "heard"}
             L == [id \in DOMAIN s.links |->
                     IF id \in heard THEN [s.links[id] EXCEPT !.sus = "no"] ELSE s.links[id]]
             v == s.verify \ heard
             u == [s EXCEPT !.links = L]
             w == [u EXCEPT !.verify = v]
  <1>1. \E ids : TickEvicts(s) = DropLinks([s EXCEPT !.links = L, !.verify = v], ids)
    BY Zenon DEF TickEvicts
  <1>0. v \subseteq s.verify
    OBVIOUS
  <1> HIDE DEF heard
  <1>2. /\ DOMAIN L = DOMAIN s.links
        /\ \A i \in DOMAIN L :
              /\ LinkShape(L[i]) /\ L[i].key = s.links[i].key /\ L[i].car = s.links[i].car
              /\ L[i].cb = s.links[i].cb
              /\ L[i].peer = s.links[i].peer /\ L[i].phase = s.links[i].phase
    BY DEF Good, LinksInv, LinkShape
  <1> HIDE DEF L, v
  <1>3. Good(u) /\ Calm(s, u) /\ u.verify = s.verify
    <2>1. u.verify = s.verify
      BY DEF Good, Shape
    <2> QED
      BY <1>2, <2>1, MapLinksGood, MapLinksCalm
  <1>4. [s EXCEPT !.links = L, !.verify = v] = w
    OBVIOUS
  <1> HIDE DEF u
  <1>5. Good(w) /\ w.links = u.links /\ w.nestw = u.nestw /\ w.verify = v
    BY <1>3, PutsGood, ZenonT(60) DEF Good, Shape
  <1>6. PICK ids : TickEvicts(s) = DropLinks(w, ids)
    BY <1>1, <1>4, Zenon
  <1> HIDE DEF w
  <1>7. Calm(s, w)
    BY <1>0, <1>3, <1>5 DEF Calm
  <1>8. Calm(w, DropLinks(w, ids))
    BY <1>5, DropLinksCalm
  <1> QED
    BY <1>6, <1>7, <1>8, CalmThen

LEMMA TickRetriesWaiting ==
    ASSUME NEW s, Good(s), NEW outcome \in Outcomes, Nesting(s, {})
    PROVE  Nesting(TickRetries(s, outcome), {})
  <1> DEFINE N == Len(s.retry)
             base == [s EXCEPT !.retry = <<>>]
  <1>1. N \in Nat
    BY DEF Good, IsSeq
  <1>2. PICK f : /\ TickRetries(s, outcome) = f[N]
                 /\ f[0] = base
                 /\ \A n \in 1..N : f[n] = Redialed(f[n - 1], s.retry[n], outcome)
    BY <1>1, TickRetriesRuns, ZenonT(60)
  <1> DEFINE V == {n \in 0..N : Good(f[n]) /\ Nesting(f[n], {})}
  <1>3. Good(base) /\ Aside(s, base)
    BY QueueGood, PutsAside DEF Good
  <1> HIDE DEF N, base
  <1>4. 0 \in V
    <2>1. Nesting(base, {})
      BY <1>3, AsideCalm, CalmWaiting
    <2> QED
      BY <1>1, <1>2, <1>3, <2>1
  <1>5. ASSUME NEW n \in 1..N, n - 1 \in V
        PROVE  n \in V
    <2>1. /\ n \in 0..N /\ Good(f[n - 1]) /\ Nesting(f[n - 1], {})
          /\ f[n] = Redialed(f[n - 1], s.retry[n], outcome)
      BY <1>1, <1>2, <1>5
    <2>2. Good(f[n])
      BY <2>1, BeginOutboundDialGood DEF Redialed
    <2>3. Nesting(f[n], {})
      BY <2>1, BeginOutboundDialWaiting DEF Redialed
    <2> QED
      BY <2>1, <2>2, <2>3
  <1>6. N \in V
    <2> HIDE DEF V
    <2> QED
      BY <1>1, <1>4, <1>5, Rounds
  <1> QED
    BY <1>2, <1>6

LEMMA TickAdoptsWaiting ==
    ASSUME NEW s, Good(s), Nesting(s, {})
    PROVE  Nesting(TickAdopts(s), {})
  <1> DEFINE N == Len(s.adopt)
             base == [s EXCEPT !.adopt = <<>>]
             link(t, n) == FirstOf(t, ConnectedTo(t, s.adopt[n][1]))
  <1>1. N \in Nat
    BY DEF Good, IsSeq
  <1>2. PICK f : /\ TickAdopts(s) = f[N]
                 /\ f[0] = base
                 /\ \A n \in 1..N : f[n] = BindDialAlias(f[n - 1], link(f[n - 1], n), s.adopt[n][2])
    BY <1>1, TickAdoptsRuns
  <1> DEFINE V == {n \in 0..N : Good(f[n]) /\ Nesting(f[n], {})}
  <1>3. Good(base) /\ Aside(s, base)
    BY QueueGood, PutsAside DEF Good
  <1> HIDE DEF N, base, link
  <1>4. 0 \in V
    <2>1. Nesting(base, {})
      BY <1>3, AsideCalm, CalmWaiting
    <2> QED
      BY <1>1, <1>2, <1>3, <2>1
  <1>5. ASSUME NEW n \in 1..N, n - 1 \in V
        PROVE  n \in V
    <2>1. /\ n \in 0..N /\ Good(f[n - 1]) /\ Nesting(f[n - 1], {})
          /\ f[n] = BindDialAlias(f[n - 1], link(f[n - 1], n), s.adopt[n][2])
      BY <1>1, <1>2, <1>5
    <2>2. Good(f[n]) /\ Calm(f[n - 1], f[n])
      BY <2>1, BindDialAliasGood, BindDialAliasCalm
    <2>3. Nesting(f[n], {})
      BY <2>1, <2>2, CalmWaiting
    <2> QED
      BY <2>1, <2>2, <2>3
  <1>6. N \in V
    <2> HIDE DEF V
    <2> QED
      BY <1>1, <1>4, <1>5, Rounds
  <1> QED
    BY <1>2, <1>6

LEMMA TickHandshakesWaiting ==
    ASSUME NEW s, Good(s), NEW ids \in Seq(DOMAIN s.links), Nesting(s, {})
    PROVE  Nesting(TickHandshakes(s, ids), {})
  <1> DEFINE N == Len(ids)
  <1>1. N \in Nat /\ \A n \in 1..N : ids[n] \in DOMAIN s.links
    OBVIOUS
  <1>2. PICK f : /\ TickHandshakes(s, ids) = f[N]
                 /\ f[0] = s
                 /\ \A n \in 1..N : f[n] = Failed(f[n - 1], ids[n])
    BY <1>1, TickHandshakesRuns
  <1> DEFINE V == {n \in 0..N : /\ Good(f[n]) /\ Nesting(f[n], {})
                                /\ DOMAIN f[n].links = DOMAIN s.links}
  <1> HIDE DEF N
  <1>3. 0 \in V
    BY <1>1, <1>2
  <1>4. ASSUME NEW n \in 1..N, n - 1 \in V
        PROVE  n \in V
    <2>1. /\ n \in 0..N /\ Good(f[n - 1]) /\ Nesting(f[n - 1], {})
          /\ DOMAIN f[n - 1].links = DOMAIN s.links
          /\ f[n] = Failed(f[n - 1], ids[n]) /\ ids[n] \in DOMAIN s.links
      BY <1>1, <1>2, <1>4
    <2>2. Good(f[n])
      BY <2>1, FailedGood
    <2>3. Nesting(f[n], {}) /\ DOMAIN f[n].links = DOMAIN s.links
      <3>1. ids[n] \in DOMAIN f[n - 1].links
        BY <2>1
      <3>2. /\ Nesting(FailAssociation(f[n - 1], ids[n], FALSE), {})
            /\ DOMAIN FailAssociation(f[n - 1], ids[n], FALSE).links = DOMAIN f[n - 1].links
        BY <2>1, <3>1, FailAssociationWaiting, FailAssociationDomain
      <3> QED
        BY <2>1, <3>2 DEF Failed
    <2> QED
      BY <2>1, <2>2, <2>3
  <1>5. N \in V
    <2> HIDE DEF V
    <2> QED
      BY <1>1, <1>3, <1>4, Rounds
  <1> QED
    BY <1>2, <1>5

-----------------------------------------------------------------------------
(* Where links are only accepted and probed.                               *)

Probed(s) == Verified(s) /\ Keyed(s)

\* No key, queue or link comes or goes, and whoever waits for a verdict is no worse off.
Steady(s, u) ==
    /\ u.index = s.index /\ u.eps = s.eps /\ u.next = s.next
    /\ u.retry = s.retry /\ u.adopt = s.adopt /\ u.resolving = s.resolving
    /\ DOMAIN u.links = DOMAIN s.links
    /\ u.verify \subseteq s.verify /\ s.pend \subseteq u.pend
    /\ \A id \in DOMAIN s.links :
         /\ u.links[id].out = s.links[id].out /\ u.links[id].car = s.links[id].car
         /\ u.links[id].key = s.links[id].key
         /\ id \in u.verify /\ s.links[id].phase = "Connected" /\ s.links[id].sus # "no" =>
               \/ u.links[id].phase = "Connected" /\ u.links[id].sus # "no"
               \/ id \in u.pend

LEMMA SteadyProbed ==
    ASSUME NEW s, NEW u, Probed(s), Steady(s, u)
    PROVE  Probed(u)
  <1>1. Verified(u)
    BY DEF Probed, Verified, Steady
  <1>2. ASSUME NEW id \in DOMAIN u.links
        PROVE  /\ u.links[id].out = FALSE /\ u.links[id].car = FALSE
               /\ u.links[id].key \in DOMAIN u.index /\ u.index[u.links[id].key] = id
               /\ \A n \in Nat : n >= u.next => u.links[id].key # <<"inbound", n>>
    BY DEF Probed, Keyed, Steady
  <1>3. /\ \A k \in DOMAIN u.eps, n \in Nat : k # <<"inbound", n>>
        /\ u.retry = <<>> /\ u.adopt = <<>> /\ u.resolving = {}
    BY DEF Probed, Keyed, Steady
  <1> QED
    BY <1>1, <1>2, <1>3 DEF Probed, Keyed

LEMMA PutsSteady ==
    ASSUME NEW s, Good(s), NEW x
    PROVE  /\ Steady(s, s)
           /\ Steady(s, [s EXCEPT !.asc = x])
           /\ Steady(s, [s EXCEPT !.backoff = x])
           /\ Steady(s, [s EXCEPT !.resolved = x])
           /\ Steady(s, [s EXCEPT !.pres = x])
           /\ Steady(s, ScheduleDropLink(s, x))
           /\ Steady(s, RefreshPresence(s, x))
  <1>1. Steady(s, s)
    BY DEF Steady
  <1>2. Steady(s, [s EXCEPT !.asc = x])
    BY DEF Steady, Good, Shape
  <1>3. Steady(s, [s EXCEPT !.backoff = x])
    BY DEF Steady, Good, Shape
  <1>4. Steady(s, [s EXCEPT !.resolved = x])
    BY DEF Steady, Good, Shape
  <1>5. ASSUME NEW y
        PROVE  Steady(s, [s EXCEPT !.pres = y])
    BY DEF Steady, Good, Shape
  <1>6. Steady(s, ScheduleDropLink(s, x))
    BY DEF Steady, ScheduleDropLink, Good, Shape
  <1>7. Steady(s, RefreshPresence(s, x))
    BY <1>1, <1>5, Zenon DEF RefreshPresence, SetPresence
  <1> QED
    BY <1>1, <1>2, <1>3, <1>4, <1>5, <1>6, <1>7

LEMMA LinkPutSteady ==
    ASSUME NEW s, Good(s), NEW id, NEW l,
           id \in DOMAIN s.links =>
              /\ l.key = s.links[id].key /\ l.out = s.links[id].out /\ l.car = s.links[id].car
              /\ s.links[id].phase = "Connected" /\ s.links[id].sus # "no" =>
                    l.phase = "Connected" /\ l.sus # "no"
    PROVE  Steady(s, [s EXCEPT !.links[id] = l])
  <1> DEFINE L == [s.links EXCEPT ![id] = l]
             u == [s EXCEPT !.links = L]
  <1>1. /\ DOMAIN L = DOMAIN s.links
        /\ \A i \in DOMAIN s.links : L[i] = IF i = id THEN l ELSE s.links[i]
    OBVIOUS
  <1>2. [s EXCEPT !.links[id] = l] = u
    OBVIOUS
  <1> HIDE DEF L
  <1>3. /\ u.links = L /\ u.verify = s.verify /\ u.pend = s.pend /\ u.index = s.index
        /\ u.eps = s.eps /\ u.next = s.next
        /\ u.retry = s.retry /\ u.adopt = s.adopt /\ u.resolving = s.resolving
    BY DEF Good, Shape
  <1> HIDE DEF u
  <1>4. Steady(s, u)
    BY <1>1, <1>3 DEF Steady
  <1> QED
    BY <1>2, <1>4

LEMMA LinkFieldSteady ==
    ASSUME NEW s, Good(s), NEW id, NEW x
    PROVE  /\ Steady(s, [s EXCEPT !.links[id].conn = x])
           /\ Steady(s, [s EXCEPT !.links[id].ch0 = x])
           /\ Steady(s, [s EXCEPT !.links[id].cb = x])
           /\ x # "no" => Steady(s, [s EXCEPT !.links[id].sus = x])
           /\ (id \in DOMAIN s.links => s.links[id].phase # "Connected")
                 => Steady(s, [s EXCEPT !.links[id].phase = "Backoff"])
  <1> DEFINE l == s.links[id]
  <1>1. ASSUME NEW k,
               id \in DOMAIN s.links =>
                  /\ k.key = l.key /\ k.out = l.out /\ k.car = l.car
                  /\ l.phase = "Connected" /\ l.sus # "no" =>
                        k.phase = "Connected" /\ k.sus # "no"
        PROVE  Steady(s, [s EXCEPT !.links[id] = k])
    BY <1>1, LinkPutSteady
  <1>2. id \in DOMAIN s.links => LinkShape(l)
    BY DEF Good, LinksInv
  <1>3. /\ [s EXCEPT !.links[id].conn = x] = [s EXCEPT !.links[id] = [l EXCEPT !.conn = x]]
        /\ [s EXCEPT !.links[id].ch0 = x] = [s EXCEPT !.links[id] = [l EXCEPT !.ch0 = x]]
        /\ [s EXCEPT !.links[id].cb = x] = [s EXCEPT !.links[id] = [l EXCEPT !.cb = x]]
        /\ [s EXCEPT !.links[id].sus = x] = [s EXCEPT !.links[id] = [l EXCEPT !.sus = x]]
        /\ [s EXCEPT !.links[id].phase = "Backoff"]
              = [s EXCEPT !.links[id] = [l EXCEPT !.phase = "Backoff"]]
    OBVIOUS
  <1>0. s.links[id].phase = l.phase
    OBVIOUS
  <1> HIDE DEF l
  <1>4. Steady(s, [s EXCEPT !.links[id] = [l EXCEPT !.conn = x]])
    BY <1>1, <1>2 DEF LinkShape
  <1>5. Steady(s, [s EXCEPT !.links[id] = [l EXCEPT !.ch0 = x]])
    BY <1>1, <1>2 DEF LinkShape
  <1>6. Steady(s, [s EXCEPT !.links[id] = [l EXCEPT !.cb = x]])
    BY <1>1, <1>2 DEF LinkShape
  <1>7. ASSUME x # "no"
        PROVE  Steady(s, [s EXCEPT !.links[id] = [l EXCEPT !.sus = x]])
    BY <1>1, <1>2, <1>7 DEF LinkShape
  <1>8. ASSUME id \in DOMAIN s.links => l.phase # "Connected"
        PROVE  Steady(s, [s EXCEPT !.links[id] = [l EXCEPT !.phase = "Backoff"]])
    BY <1>1, <1>2, <1>8 DEF LinkShape
  <1> QED
    BY <1>0, <1>3, <1>4, <1>5, <1>6, <1>7, <1>8

\* An accepted link's callback counts nothing down and nests nothing.
LEMMA EstablishCbProbed ==
    ASSUME NEW s, Good(s), NEW id \in DOMAIN s.links, NEW ok, NEW aborted, Probed(s)
    PROVE  Probed(EstablishCb(s, id, ok, aborted))
  <1> DEFINE l == s.links[id]
             t == [s EXCEPT !.links[id].cb = FALSE]
  <1>1. l.car = FALSE /\ l.out = FALSE
    BY DEF Probed, Keyed
  <1>2. \/ EstablishCb(s, id, ok, aborted) = s
        \/ EstablishCb(s, id, ok, aborted) = t
        \/ EstablishCb(s, id, ok, aborted) = ScheduleDropLink(t, id)
    BY <1>1 DEF EstablishCb
  <1>3. Good(t) /\ Steady(s, t)
    BY LinkFieldGood, LinkFieldSteady
  <1> HIDE DEF t
  <1>4. Probed(t)
    BY <1>3, SteadyProbed
  <1>5. Probed(ScheduleDropLink(t, id))
    BY <1>3, <1>4, PutsSteady, SteadyProbed
  <1> QED
    BY <1>2, <1>4, <1>5

\* Nobody is told a verdict on a link that is not Connected: if one waits, its drop is due.
LEMMA FailAssociationProbed ==
    ASSUME NEW s, Good(s), NEW id \in DOMAIN s.links, NEW aborted, Probed(s),
           s.links[id].phase # "Connected"
    PROVE  Probed(FailAssociation(s, id, aborted))
  <1> DEFINE t == [s EXCEPT !.links[id].phase = "Backoff"]
  <1>1. FailAssociation(s, id, aborted) = EstablishCb(t, id, FALSE, aborted)
    BY DEF FailAssociation
  <1>2. Good(t) /\ Steady(s, t)
    BY LinkFieldGood, LinkFieldSteady
  <1> HIDE DEF t
  <1>3. Probed(t) /\ id \in DOMAIN t.links
    BY <1>2, SteadyProbed DEF Steady
  <1> QED
    BY <1>1, <1>2, <1>3, EstablishCbProbed

\* No handshake that fails brings a link up.
LEMMA FailAssociationMild ==
    ASSUME NEW s, Good(s), NEW id \in DOMAIN s.links, NEW aborted, Probed(s),
           s.links[id].phase # "Connected"
    PROVE  Mild(s, FailAssociation(s, id, aborted))
  <1> DEFINE v == [s EXCEPT !.links[id].phase = "Backoff"]
             t == [v EXCEPT !.links[id].cb = FALSE]
  <1>1. FailAssociation(s, id, aborted) = EstablishCb(v, id, FALSE, aborted)
    BY DEF FailAssociation
  <1>2. Good(v) /\ Mild(s, v) /\ Steady(s, v)
    BY LinkFieldGood, LinkFieldMild, LinkFieldSteady
  <1> HIDE DEF v
  <1>3. v.links[id].car = FALSE /\ v.links[id].out = FALSE
    BY <1>2, SteadyProbed DEF Steady, Probed, Keyed
  <1>4. \/ EstablishCb(v, id, FALSE, aborted) = v
        \/ EstablishCb(v, id, FALSE, aborted) = ScheduleDropLink(t, id)
    BY <1>3 DEF EstablishCb
  <1>5. Good(t) /\ Mild(v, t)
    BY <1>2, LinkFieldGood, LinkFieldMild
  <1> HIDE DEF t
  <1>6. Mild(t, ScheduleDropLink(t, id))
    BY <1>5, BookMild
  <1>7. Mild(s, t)
    BY <1>2, <1>5, MildThen
  <1>8. Mild(s, ScheduleDropLink(t, id))
    BY <1>6, <1>7, MildThen
  <1> QED
    BY <1>1, <1>2, <1>4, <1>8

\* Only those who wait for one of the links in ids need not be on Tick's way.
VerifiedBut(s, ids) ==
    \A id \in s.verify :
        /\ id \in DOMAIN s.links
        /\ \/ s.links[id].phase = "Connected" /\ s.links[id].sus # "no"
           \/ id \in s.pend \cup ids

\* The drop of a link takes its key and answers those who wait for its verdict.
LEMMA DropLinksProbed ==
    ASSUME NEW s, Good(s), NEW ids, Keyed(s), VerifiedBut(s, ids)
    PROVE  Probed(DropLinks(s, ids))
  <1> DEFINE gone == ids \cap DOMAIN s.links
             orphan(l) == IF l.via \in gone THEN [l EXCEPT !.conn = "closed"] ELSE l
             t == EraseById(s, gone)
             L == [id \in DOMAIN t.links |-> orphan(t.links[id])]
             nw == t.nestw \ gone
             vf == t.verify \ gone
             u == [t EXCEPT !.links = L, !.nestw = nw, !.verify = vf]
  <1>1. DropLinks(s, ids) = u
    BY DEF DropLinks
  <1>2. /\ t.links = Restrict(s.links, DOMAIN s.links \ gone)
        /\ t.index = Restrict(s.index, KeysLeft(s, gone))
        /\ t.verify = s.verify /\ t.pend = s.pend
        /\ t.eps = s.eps /\ t.next = s.next
        /\ t.retry = s.retry /\ t.adopt = s.adopt /\ t.resolving = s.resolving
    <2> HIDE DEF gone
    <2> QED
      BY EraseByIdFields
  <1>3. Good(t)
    <2> HIDE DEF gone
    <2> QED
      BY EraseByIdGood
  <1>0. gone = ids \cap DOMAIN s.links
    OBVIOUS
  <1> HIDE DEF t, gone
  <1>4. DOMAIN t.links = DOMAIN s.links \ gone /\ \A i \in DOMAIN t.links : t.links[i] = s.links[i]
    BY <1>2 DEF Restrict
  <1>5. \A k \in DOMAIN s.index : s.index[k] \notin gone => k \in DOMAIN t.index /\ t.index[k] = s.index[k]
    BY <1>2 DEF Restrict, KeysLeft
  <1>6. /\ DOMAIN L = DOMAIN t.links
        /\ \A i \in DOMAIN L :
              /\ L[i].out = t.links[i].out /\ L[i].car = t.links[i].car /\ L[i].key = t.links[i].key
              /\ L[i].phase = t.links[i].phase /\ L[i].sus = t.links[i].sus
    BY <1>3 DEF Good, LinksInv, LinkShape
  <1>7. vf = s.verify \ gone
    BY <1>2
  <1> HIDE DEF L, nw, vf
  <1>8. /\ u.links = L /\ u.verify = vf /\ u.pend = t.pend /\ u.index = t.index
        /\ u.eps = t.eps /\ u.next = t.next
        /\ u.retry = t.retry /\ u.adopt = t.adopt /\ u.resolving = t.resolving
    BY <1>3 DEF Good, Shape
  <1> HIDE DEF u
  <1>9. Verified(u)
    <2> SUFFICES ASSUME NEW id \in s.verify \ gone
                 PROVE  /\ id \in DOMAIN u.links
                        /\ \/ u.links[id].phase = "Connected" /\ u.links[id].sus # "no"
                           \/ id \in u.pend
      BY <1>7, <1>8 DEF Verified
    <2>1. /\ id \in DOMAIN s.links
          /\ \/ s.links[id].phase = "Connected" /\ s.links[id].sus # "no"
             \/ id \in s.pend
      BY <1>0 DEF VerifiedBut
    <2> QED
      BY <1>2, <1>4, <1>6, <1>8, <2>1, ZenonT(60)
  <1>10. ASSUME NEW id \in DOMAIN u.links
         PROVE  /\ u.links[id].out = FALSE /\ u.links[id].car = FALSE
                /\ u.links[id].key \in DOMAIN u.index /\ u.index[u.links[id].key] = id
                /\ \A n \in Nat : n >= u.next => u.links[id].key # <<"inbound", n>>
    <2>1. id \in DOMAIN s.links /\ id \notin gone /\ u.links[id].key = s.links[id].key
      BY <1>4, <1>6, <1>8
    <2>2. s.links[id].key \in DOMAIN s.index /\ s.index[s.links[id].key] = id
      BY <2>1 DEF Keyed
    <2>3. u.links[id].key \in DOMAIN u.index /\ u.index[u.links[id].key] = id
      BY <1>5, <1>8, <2>1, <2>2
    <2>4. u.links[id].out = FALSE /\ u.links[id].car = FALSE
      BY <1>4, <1>6, <1>8, <2>1 DEF Keyed
    <2>5. \A n \in Nat : n >= u.next => u.links[id].key # <<"inbound", n>>
      BY <1>2, <1>8, <2>1 DEF Keyed
    <2> QED
      BY <2>3, <2>4, <2>5
  <1>11. /\ \A k \in DOMAIN u.eps, n \in Nat : k # <<"inbound", n>>
         /\ u.retry = <<>> /\ u.adopt = <<>> /\ u.resolving = {}
    BY <1>2, <1>8 DEF Keyed
  <1>12. Probed(u)
    BY <1>9, <1>10, <1>11 DEF Probed, Keyed
  <1> QED
    BY <1>1, <1>12

\* A link that takes a free registered key keeps no other.
LEMMA BindDialKeyProbed ==
    ASSUME NEW s, Good(s), NEW id \in DOMAIN s.links, NEW key \in DOMAIN s.eps, Probed(s),
           key \notin DOMAIN s.index
    PROVE  Probed(BindDialKey(s, id, key))
  <1> DEFINE from == s.links[id].key
             l == [s.links[id] EXCEPT !.key = key]
             L == [s.links EXCEPT ![id] = l]
             K == {k \in DOMAIN s.index : ~(k = from /\ s.index[k] = id)}
             X == Assign(Restrict(s.index, K), key, id)
             u == [s EXCEPT !.links = L, !.index = X]
  <1>1. BindDialKey(s, id, key) = u
    BY DEF BindDialKey
  <1>2. /\ l.key = key /\ l.out = s.links[id].out /\ l.car = s.links[id].car
        /\ l.phase = s.links[id].phase /\ l.sus = s.links[id].sus
    BY DEF Good, LinksInv, LinkShape
  <1>3. DOMAIN L = DOMAIN s.links /\ \A i \in DOMAIN L : L[i] = IF i = id THEN l ELSE s.links[i]
    OBVIOUS
  <1>4. /\ DOMAIN X = {key} \cup K /\ X[key] = id
        /\ \A k \in K : k # key => X[k] = s.index[k]
    BY DEF Restrict, Assign
  <1>5. \A k \in DOMAIN s.index : s.index[k] # id => k \in K
    OBVIOUS
  <1> HIDE DEF l, L, K, X
  <1>6. /\ u.links = L /\ u.verify = s.verify /\ u.pend = s.pend /\ u.index = X
        /\ u.eps = s.eps /\ u.next = s.next
        /\ u.retry = s.retry /\ u.adopt = s.adopt /\ u.resolving = s.resolving
    BY DEF Good, Shape
  <1> HIDE DEF u
  <1>7. Verified(u)
    BY <1>2, <1>3, <1>6 DEF Probed, Verified
  <1>8. ASSUME NEW i \in DOMAIN u.links
        PROVE  /\ u.links[i].out = FALSE /\ u.links[i].car = FALSE
               /\ u.links[i].key \in DOMAIN u.index /\ u.index[u.links[i].key] = i
               /\ \A n \in Nat : n >= u.next => u.links[i].key # <<"inbound", n>>
    <2>1. i \in DOMAIN s.links
      BY <1>3, <1>6
    <2>2. CASE i = id
      <3>1. u.links[i].key = key
        BY <1>2, <1>3, <1>6, <2>1, <2>2
      <3>2. \A n \in Nat : key # <<"inbound", n>>
        BY DEF Probed, Keyed
      <3>3. u.links[i].out = FALSE /\ u.links[i].car = FALSE
        BY <1>2, <1>3, <1>6, <2>1, <2>2 DEF Probed, Keyed
      <3> QED
        BY <1>4, <1>6, <2>2, <3>1, <3>2, <3>3
    <2>3. CASE i # id
      <3>1. u.links[i] = s.links[i]
        BY <1>3, <1>6, <2>1, <2>3
      <3>2. s.links[i].key \in DOMAIN s.index /\ s.index[s.links[i].key] = i
        BY <2>1 DEF Probed, Keyed
      <3>3. s.links[i].key \in K /\ s.links[i].key # key
        BY <1>5, <2>3, <3>2
      <3>4. u.links[i].key \in DOMAIN u.index /\ u.index[u.links[i].key] = i
        BY <1>4, <1>6, <3>1, <3>2, <3>3
      <3> QED
        BY <1>6, <2>1, <3>1, <3>4 DEF Probed, Keyed
    <2> QED
      BY <2>2, <2>3
  <1>9. /\ \A k \in DOMAIN u.eps, n \in Nat : k # <<"inbound", n>>
        /\ u.retry = <<>> /\ u.adopt = <<>> /\ u.resolving = {}
    BY <1>6 DEF Probed, Keyed
  <1>10. Probed(u)
    BY <1>7, <1>8, <1>9 DEF Probed, Keyed
  <1> QED
    BY <1>1, <1>10

\* Nobody gives way to an alias that is free.
LEMMA AdoptAliasProbed ==
    ASSUME NEW s, Good(s), NEW id \in DOMAIN s.links, Probed(s)
    PROVE  Probed(AdoptAlias(s, id))
  <1> DEFINE free == {k \in DOMAIN s.eps : s.eps[k].peer = s.links[id].peer /\ k \notin DOMAIN s.index}
             first == IF s.asc THEN Alias ELSE PeerKey(s.links[id].peer)
             key == IF first \in free THEN first ELSE CHOOSE k \in free : TRUE
             t == DropLinks(s, {})
  <1>1. AdoptAlias(s, id) = s \/ (free # {} /\ AdoptAlias(s, id) = BindDialAlias(s, id, key))
    <2> DEFINE bound == BindDialAlias(s, id, key)
    <2>1. AdoptAlias(s, id) = IF s.links[id].out \/ free = {} THEN s ELSE bound
      BY Zenon DEF AdoptAlias
    <2> HIDE DEF bound, free
    <2>2. AdoptAlias(s, id) = s \/ (free # {} /\ AdoptAlias(s, id) = bound)
      BY <2>1
    <2> QED
      BY <2>2 DEF bound
  <1>2. free # {} => key \in free
    <2> HIDE DEF free, first
    <2> QED
      OBVIOUS
  <1>3. key \in free => key \in DOMAIN s.eps /\ key \notin DOMAIN s.index
    OBVIOUS
  <1> HIDE DEF free, key, first
  <1>4. Good(t) /\ DOMAIN t.links = DOMAIN s.links
    BY DropLinksGood
  <1>5. Probed(t)
    <2>1. Keyed(s) /\ VerifiedBut(s, {})
      BY DEF Probed, Verified, VerifiedBut
    <2> QED
      BY <2>1, DropLinksProbed
  <1>6. t.eps = s.eps /\ DOMAIN t.index \subseteq DOMAIN s.index
    <2> DEFINE gone == {} \cap DOMAIN s.links
               e == EraseById(s, gone)
    <2>1. \E L, nw, vf : t = [e EXCEPT !.links = L, !.nestw = nw, !.verify = vf]
      BY Zenon DEF DropLinks
    <2>2. Good(e)
      BY EraseByIdGood
    <2>3. /\ e.links = Restrict(s.links, DOMAIN s.links \ gone)
          /\ e.eps = s.eps /\ e.index = Restrict(s.index, KeysLeft(s, gone))
      <3> HIDE DEF gone, t
      <3> QED
        BY EraseByIdFields
    <2>4. DOMAIN e.index \subseteq DOMAIN s.index
      BY <2>3 DEF Restrict, KeysLeft
    <2> HIDE DEF e, t
    <2>5. t.eps = e.eps /\ t.index = e.index
      BY <2>1, <2>2 DEF Good, Shape
    <2> QED
      BY <2>3, <2>4, <2>5
  <1>7. ASSUME key \in DOMAIN s.eps, key \notin DOMAIN s.index
        PROVE  Probed(BindDialAlias(s, id, key))
    <2>1. FindByDialKey(s, key) = NoLink
      BY <1>7 DEF FindByDialKey
    <2>2. BindDialAlias(s, id, key) = s \/ BindDialAlias(s, id, key) = BindDialKey(t, id, key)
      <3> DEFINE other == FindByDialKey(s, key)
                 ids == IF other \notin {NoLink, id} THEN {other} ELSE {}
      <3>1. BindDialAlias(s, id, key) = s \/ BindDialAlias(s, id, key) = BindDialKey(DropLinks(s, ids), id, key)
        BY DEF BindDialAlias
      <3>2. ids = {}
        BY <2>1
      <3> HIDE DEF ids, other
      <3> QED
        BY <3>1, <3>2
    <2> HIDE DEF t
    <2>3. Probed(BindDialKey(t, id, key))
      BY <1>4, <1>5, <1>6, <1>7, BindDialKeyProbed
    <2> QED
      BY <2>2, <2>3
  <1> QED
    BY <1>1, <1>2, <1>3, <1>7

\* The loser of an election still has its key, so that its drop is due from the step that demotes it.
LEMMA DemoteLoserProbed ==
    ASSUME NEW s, Good(s), NEW id \in DOMAIN s.links, Probed(s)
    PROVE  Probed(DemoteLoser(s, id))
  <1> DEFINE k == [s.links[id] EXCEPT !.phase = "Backoff"]
             L == [s.links EXCEPT ![id] = k]
             t == [s EXCEPT !.links = L]
             key == s.links[id].key
             u == [t EXCEPT !.pend = @ \cup {id}]
  <1>1. DemoteLoser(s, id) = ScheduleDropByKey(t, key)
    <2>1. [s EXCEPT !.links[id].phase = "Backoff"] = t
      OBVIOUS
    <2> QED
      BY <2>1, Zenon DEF DemoteLoser
  <1>2. k.key = key /\ k.out = s.links[id].out /\ k.car = s.links[id].car
    BY DEF Good, LinksInv, LinkShape
  <1>3. DOMAIN L = DOMAIN s.links /\ \A i \in DOMAIN L : L[i] = IF i = id THEN k ELSE s.links[i]
    OBVIOUS
  <1>0. s.links[id].key = key
    OBVIOUS
  <1> HIDE DEF k, L, key
  <1>4. /\ Shape(t)
        /\ t.links = L /\ t.verify = s.verify /\ t.pend = s.pend /\ t.index = s.index
        /\ t.eps = s.eps /\ t.next = s.next
        /\ t.retry = s.retry /\ t.adopt = s.adopt /\ t.resolving = s.resolving
    BY DEF Good, Shape
  <1> HIDE DEF t
  <1>5. FindByDialKey(t, key) = id /\ id # NoLink
    <2>1. key \in DOMAIN s.index /\ s.index[key] = id
      BY <1>0 DEF Probed, Keyed
    <2>2. id # NoLink
      BY DEF Good, LinksInv, NoLink
    <2> QED
      BY <1>3, <1>4, <2>1, <2>2 DEF FindByDialKey
  <1>6. ScheduleDropByKey(t, key) = u
    BY <1>5 DEF ScheduleDropByKey, ScheduleDropLink
  <1>7. /\ u.links = t.links /\ u.verify = t.verify /\ u.pend = t.pend \cup {id} /\ u.index = t.index
        /\ u.eps = t.eps /\ u.next = t.next
        /\ u.retry = t.retry /\ u.adopt = t.adopt /\ u.resolving = t.resolving
    BY <1>4 DEF Shape
  <1> HIDE DEF u
  <1>8. Steady(s, u)
    BY <1>0, <1>2, <1>3, <1>4, <1>7 DEF Steady
  <1>9. Probed(u)
    BY <1>8, SteadyProbed
  <1> QED
    BY <1>1, <1>6, <1>9

LEMMA OnLinkEstablishedProbed ==
    ASSUME NEW s, Good(s), NEW id \in InHandshake(s), NEW p, Probed(s)
    PROVE  Probed(OnLinkEstablished(s, id, p))
  <1> DEFINE k == [[[s.links[id] EXCEPT !.phase = "Connected"] EXCEPT !.peer = p] EXCEPT !.cap = "none"]
             t == [s EXCEPT !.links[id].phase = "Connected", !.links[id].peer = p,
                            !.links[id].cap = "none"]
             S == ConnectedTo(s, p) \ {id}
             other == FirstOf(s, S)
             up(u) == EstablishCb(StartCapabilityExchange(RefreshPresence(u, id), id), id, TRUE, FALSE)
             b == [t EXCEPT !.links[id].phase = "Backoff"]
             c == ScheduleDropLink(b, id)
             x == <<p, t.links[id].key>>
             lost == [c EXCEPT !.adopt = IF t.links[id].out THEN Append(@, x) ELSE @]
             a == AdoptAlias(t, id)
             v == DemoteLoser(t, other)
             w == AdoptAlias(v, id)
  <1>1. \/ OnLinkEstablished(s, id, p) = up(a)
        \/ OnLinkEstablished(s, id, p) = up(t)
        \/ OnLinkEstablished(s, id, p) = up(w) /\ other # NoLink
        \/ OnLinkEstablished(s, id, p) = EstablishCb(lost, id, TRUE, FALSE)
    BY DEF OnLinkEstablished
  <1>2. id \in DOMAIN s.links /\ s.links[id].phase = "Handshaking" /\ LinkShape(s.links[id])
    BY DEF InHandshake, Good, LinksInv
  <1>3. t = [s EXCEPT !.links[id] = k]
    BY DEF Good, Shape
  <1>4. /\ LinkShape(k) /\ k.key = s.links[id].key /\ k.car = s.links[id].car
        /\ k.out = s.links[id].out
    BY <1>2 DEF LinkShape
  <1>5. S \in SUBSET DOMAIN s.links
    BY DEF ConnectedTo
  <1>6. other # NoLink => other \in DOMAIN s.links
    <2> HIDE DEF S
    <2> QED
      BY <1>5, FirstOfLinks
  <1> HIDE DEF k, t, other, up, S
  <1>7. Good(t) /\ Steady(s, t)
    BY <1>2, <1>3, <1>4, LinkPutGood, LinkPutSteady
  <1>8. Probed(t) /\ DOMAIN t.links = DOMAIN s.links
    BY <1>7, SteadyProbed DEF Steady
  <1>9. ASSUME NEW u, Good(u), id \in DOMAIN u.links, Probed(u)
        PROVE  Probed(up(u))
    <2> DEFINE r == RefreshPresence(u, id)
               q == StartCapabilityExchange(r, id)
    <2>1. Good(r) /\ Steady(u, r)
      BY <1>9, RefreshPresenceGood, PutsSteady
    <2> HIDE DEF r
    <2>2. Good(q) /\ Steady(r, q)
      BY <2>1, StartCapabilityExchangeGood, LinkFieldSteady, PutsSteady DEF StartCapabilityExchange
    <2> HIDE DEF q
    <2>3. Probed(r) /\ id \in DOMAIN r.links
      BY <1>9, <2>1, SteadyProbed DEF Steady
    <2>4. Probed(q) /\ id \in DOMAIN q.links
      BY <2>2, <2>3, SteadyProbed DEF Steady
    <2>5. Probed(EstablishCb(q, id, TRUE, FALSE))
      BY <2>2, <2>4, EstablishCbProbed
    <2> QED
      BY <2>5 DEF up, q, r
  <1>10. Probed(up(a))
    <2>1. Good(a) /\ Probed(a) /\ id \in DOMAIN a.links
      BY <1>2, <1>7, <1>8, AdoptAliasGood, AdoptAliasMild, AdoptAliasProbed
    <2> HIDE DEF a
    <2> QED
      BY <1>9, <2>1
  <1>11. Probed(up(t))
    BY <1>2, <1>7, <1>8, <1>9
  <1>12. ASSUME other # NoLink
         PROVE  Probed(up(w))
    <2>1. other \in DOMAIN t.links
      BY <1>6, <1>8, <1>12
    <2>2. Good(v) /\ Probed(v) /\ DOMAIN v.links = DOMAIN t.links
      BY <1>7, <1>8, <2>1, DemoteLoserGood, DemoteLoserMild, DemoteLoserProbed
    <2> HIDE DEF v
    <2>3. Good(w) /\ Probed(w) /\ id \in DOMAIN w.links
      BY <1>2, <1>8, <2>2, AdoptAliasGood, AdoptAliasMild, AdoptAliasProbed
    <2> HIDE DEF w
    <2> QED
      BY <1>9, <2>3
  <1>13. Probed(EstablishCb(lost, id, TRUE, FALSE))
    <2> DEFINE j == [k EXCEPT !.phase = "Backoff"]
    <2>1. b = [s EXCEPT !.links[id] = j]
      <3>1. b = [t EXCEPT !.links[id] = [t.links[id] EXCEPT !.phase = "Backoff"]]
        OBVIOUS
      <3>2. t.links[id] = k
        BY <1>2, <1>3 DEF Good, Shape
      <3> QED
        BY <1>3, <3>1, <3>2 DEF Good, Shape
    <2>2. j.key = s.links[id].key /\ j.out = s.links[id].out /\ j.car = s.links[id].car
      BY <1>4 DEF LinkShape
    <2>3. Good(b)
      BY <1>7, LinkFieldGood
    <2>5. t.links[id].out = FALSE
      BY <1>2, <1>8 DEF Probed, Keyed
    <2> HIDE DEF j, b
    <2>4. Steady(s, b)
      BY <1>2, <2>1, <2>2, LinkPutSteady
    <2>6. Probed(b) /\ id \in DOMAIN b.links
      BY <1>2, <2>4, SteadyProbed DEF Steady
    <2>7. Good(c) /\ Steady(b, c)
      BY <2>3, BookGood, PutsSteady
    <2>8. lost = c
      BY <2>5, <2>7 DEF Good, Shape
    <2> HIDE DEF c, lost
    <2>9. Probed(c) /\ id \in DOMAIN c.links
      BY <2>6, <2>7, SteadyProbed DEF Steady
    <2> QED
      BY <2>7, <2>8, <2>9, EstablishCbProbed
  <1> QED
    BY <1>1, <1>10, <1>11, <1>12, <1>13

LEMMA FinishEstablishmentProbed ==
    ASSUME NEW s, Good(s), NEW id \in InHandshake(s), NEW p, Probed(s)
    PROVE  Probed(FinishEstablishment(s, id, p))
  <1>1. s.links[id].out = FALSE
    BY DEF InHandshake, Probed, Keyed
  <1>2. FinishEstablishment(s, id, p) = OnLinkEstablished(s, id, p)
    BY <1>1 DEF FinishEstablishment
  <1> QED
    BY <1>2, OnLinkEstablishedProbed

\* A provisional key is fresh.
LEMMA InsertProbed ==
    ASSUME NEW s, Good(s), NEW l, l.out = FALSE, l.car = FALSE, l.key = <<"inbound", s.next>>,
           Probed(s), NEW u, u = Added(s, l)
    PROVE  Probed(u)
  <1> DEFINE n == s.next
             fresh == <<"inbound", n>>
  <1>1. /\ DOMAIN u.links = DOMAIN s.links \cup {n}
        /\ n \notin DOMAIN s.links /\ u.links[n] = l
        /\ \A i \in DOMAIN s.links : u.links[i] = s.links[i]
    BY InsertFacts
  <1>2. /\ u.verify = s.verify /\ u.pend = s.pend
        /\ u.eps = s.eps /\ u.retry = s.retry /\ u.adopt = s.adopt /\ u.resolving = s.resolving
        /\ u.next = n + 1 /\ u.index = Assign(s.index, fresh, n)
    BY InsertRest
  <1>3. n \in Nat
    BY DEF Good, LinksInv
  <1>4. \A j \in Nat : j >= n + 1 => fresh # <<"inbound", j>>
    BY <1>3
  <1>5. \A i \in DOMAIN s.links : s.links[i].key # fresh
    BY <1>3 DEF Probed, Keyed
  <1>6. l.key = fresh
    OBVIOUS
  <1> HIDE DEF n, fresh
  <1>7. /\ fresh \in DOMAIN u.index /\ u.index[fresh] = n
        /\ \A k \in DOMAIN s.index : k # fresh => k \in DOMAIN u.index /\ u.index[k] = s.index[k]
    BY <1>2 DEF Assign
  <1>8. Verified(u)
    BY <1>1, <1>2 DEF Probed, Verified
  <1>9. ASSUME NEW i \in DOMAIN u.links
        PROVE  /\ u.links[i].out = FALSE /\ u.links[i].car = FALSE
               /\ u.links[i].key \in DOMAIN u.index /\ u.index[u.links[i].key] = i
               /\ \A j \in Nat : j >= u.next => u.links[i].key # <<"inbound", j>>
    <2>1. CASE i = n
      BY <1>1, <1>2, <1>4, <1>6, <1>7, <2>1
    <2>2. CASE i # n
      <3>1. i \in DOMAIN s.links /\ u.links[i] = s.links[i]
        BY <1>1, <2>2
      <3>2. /\ s.links[i].out = FALSE /\ s.links[i].car = FALSE
            /\ s.links[i].key \in DOMAIN s.index /\ s.index[s.links[i].key] = i
            /\ \A j \in Nat : j >= n => s.links[i].key # <<"inbound", j>>
        BY <3>1 DEF Probed, Keyed, n
      <3>3. u.links[i].key \in DOMAIN u.index /\ u.index[u.links[i].key] = i
        BY <1>5, <1>7, <3>1, <3>2
      <3>4. \A j \in Nat : j >= u.next => s.links[i].key # <<"inbound", j>>
        BY <1>2, <1>3, <3>2
      <3> QED
        BY <3>1, <3>2, <3>3, <3>4
    <2> QED
      BY <2>1, <2>2
  <1>10. /\ \A k \in DOMAIN u.eps, j \in Nat : k # <<"inbound", j>>
         /\ u.retry = <<>> /\ u.adopt = <<>> /\ u.resolving = {}
    BY <1>2 DEF Probed, Keyed
  <1> QED
    BY <1>8, <1>9, <1>10 DEF Probed, Keyed

LEMMA OnInboundConnectionProbed ==
    ASSUME NEW s, Good(s), NEW idle, Probed(s)
    PROVE  Probed(OnInboundConnection(s, idle))
  <1> DEFINE e == [s EXCEPT !.links[idle].conn = "closed"]
             d == ScheduleDropLink(e, idle)
             t == IF AtLinkCapacity(s) /\ idle # NoLink THEN d ELSE s
             key == <<"inbound", t.next>>
             l == NewLink(key, NoPeer, FALSE, FALSE, NoLink)
             i == Insert([t EXCEPT !.next = @ + 1], t.next, l)
  <1>1. \/ OnInboundConnection(s, idle) = s
        \/ OnInboundConnection(s, idle) = t
        \/ OnInboundConnection(s, idle) = i
    BY DEF OnInboundConnection
  <1>2. Good(e) /\ Steady(s, e)
    BY LinkFieldGood, LinkFieldSteady
  <1> HIDE DEF e
  <1>3. Good(d) /\ Steady(e, d)
    BY <1>2, BookGood, PutsSteady
  <1> HIDE DEF d
  <1>4. Probed(e)
    BY <1>2, SteadyProbed
  <1>5. Probed(d)
    BY <1>3, <1>4, SteadyProbed
  <1>6. Good(t) /\ Probed(t)
    BY <1>3, <1>5
  <1> HIDE DEF t
  <1>7. l.out = FALSE /\ l.car = FALSE /\ l.key = key
    BY DEF NewLink
  <1>8. i = Added(t, l)
    BY Zenon DEF Added
  <1> HIDE DEF l, i
  <1>9. ASSUME NEW u, u = Added(t, l)
        PROVE  Probed(u)
    BY <1>6, <1>7, <1>9, InsertProbed
  <1> QED
    BY <1>1, <1>6, <1>8, <1>9

LEMMA ResolveConnectedLinkIn ==
    ASSUME NEW s, Good(s), NEW key, ResolveConnectedLink(s, key) # NoLink
    PROVE  /\ ResolveConnectedLink(s, key) \in DOMAIN s.links
           /\ s.links[ResolveConnectedLink(s, key)].phase = "Connected"
  <1> DEFINE l == FindByDialKey(s, key)
             to == ConnectedTo(s, PeerIdForKey(s, key))
             adp == {id \in to : ~s.links[id].car}
  <1>1. \/ ResolveConnectedLink(s, key) = l /\ l # NoLink /\ Connected(s, l)
        \/ ResolveConnectedLink(s, key) = FirstOf(s, adp)
        \/ ResolveConnectedLink(s, key) = FirstOf(s, to)
    BY DEF ResolveConnectedLink
  <1>2. l # NoLink => l \in DOMAIN s.links
    BY DEF FindByDialKey
  <1>3. /\ to \in SUBSET DOMAIN s.links /\ adp \in SUBSET DOMAIN s.links
        /\ \A i \in to \cup adp : s.links[i].phase = "Connected"
    BY DEF ConnectedTo, Connected
  <1> HIDE DEF l, to, adp
  <1>4. FirstOf(s, to) # NoLink => FirstOf(s, to) \in to
    BY <1>3, FirstOfLinks
  <1>5. FirstOf(s, adp) # NoLink => FirstOf(s, adp) \in adp
    BY <1>3, FirstOfLinks
  <1> QED
    BY <1>1, <1>2, <1>3, <1>4, <1>5 DEF Connected

\* Whoever asks for a verdict gets a link that is being probed.
LEMMA VerifyLinkProbed ==
    ASSUME NEW s, Good(s), NEW key, Probed(s)
    PROVE  Probed(VerifyLink(s, key))
  <1> DEFINE l == ResolveConnectedLink(s, key)
             x == IF s.links[l].sus = "no" THEN "asked" ELSE s.links[l].sus
             k == [s.links[l] EXCEPT !.sus = x]
             v == s.verify \cup {l}
             t == [s EXCEPT !.links[l].sus = x]
             u == [t EXCEPT !.verify = v]
  <1>1. \/ VerifyLink(s, key) = s
        \/ l # NoLink /\ VerifyLink(s, key) = [s EXCEPT !.verify = v, !.links[l].sus = x]
    BY DEF VerifyLink
  <1>2. l # NoLink => l \in DOMAIN s.links /\ s.links[l].phase = "Connected"
    BY ResolveConnectedLinkIn
  <1>3. x # "no"
    OBVIOUS
  <1>0. v = s.verify \cup {l}
    OBVIOUS
  <1> HIDE DEF l, v, x
  <1>4. Good(t) /\ Steady(s, t)
    BY <1>3, LinkFieldGood, LinkFieldSteady
  <1>5. [s EXCEPT !.verify = v, !.links[l].sus = x] = u
    OBVIOUS
  <1>6. l \in DOMAIN s.links => t.links[l].phase = s.links[l].phase /\ t.links[l].sus = x
    <2>1. ASSUME l \in DOMAIN s.links
          PROVE  t.links[l] = k /\ k.phase = s.links[l].phase /\ k.sus = x
      BY <2>1 DEF Good, Shape, LinksInv, LinkShape
    <2> QED
      BY <2>1
  <1>7. t.verify = s.verify
    BY DEF Good, Shape
  <1> HIDE DEF t
  <1>8. Probed(t) /\ DOMAIN t.links = DOMAIN s.links
    BY <1>4, SteadyProbed DEF Steady
  <1>9. /\ u.links = t.links /\ u.verify = v /\ u.pend = t.pend /\ u.index = t.index
        /\ u.eps = t.eps /\ u.next = t.next
        /\ u.retry = t.retry /\ u.adopt = t.adopt /\ u.resolving = t.resolving
    BY <1>4 DEF Good, Shape
  <1> HIDE DEF u
  <1>10. ASSUME l # NoLink
         PROVE  Probed(u)
    <2>1. Verified(u)
      BY <1>0, <1>2, <1>3, <1>6, <1>7, <1>8, <1>9, <1>10 DEF Probed, Verified
    <2>2. Keyed(u)
      <3>1. Keyed(t)
        BY <1>8 DEF Probed
      <3> QED
        BY <1>9, <3>1 DEF Keyed
    <2> QED
      BY <2>1, <2>2 DEF Probed
  <1> QED
    BY <1>1, <1>5, <1>10

LEMMA MapLinksSteady ==
    ASSUME NEW s, Good(s), NEW L, DOMAIN L = DOMAIN s.links, NEW v, v \subseteq s.verify,
           \A i \in DOMAIN L :
              /\ L[i].key = s.links[i].key /\ L[i].out = s.links[i].out /\ L[i].car = s.links[i].car
              /\ i \in v /\ s.links[i].phase = "Connected" /\ s.links[i].sus # "no" =>
                    L[i].phase = "Connected" /\ L[i].sus # "no"
    PROVE  Steady(s, [s EXCEPT !.links = L, !.verify = v])
  <1> DEFINE u == [s EXCEPT !.links = L, !.verify = v]
  <1>1. /\ u.links = L /\ u.verify = v /\ u.pend = s.pend /\ u.index = s.index
        /\ u.eps = s.eps /\ u.next = s.next
        /\ u.retry = s.retry /\ u.adopt = s.adopt /\ u.resolving = s.resolving
    BY DEF Good, Shape
  <1> HIDE DEF u
  <1>2. Steady(s, u)
    BY <1>1 DEF Steady
  <1> QED
    BY <1>2 DEF u

LEMMA OnNetworkChangedProbed ==
    ASSUME NEW s, Good(s), Probed(s)
    PROVE  Probed(OnNetworkChanged(s))
  <1> DEFINE probe(l) == IF l.phase = "Connected" /\ ~l.car THEN [l EXCEPT !.sus = "asked"] ELSE l
             t == [s EXCEPT !.backoff = {}]
             L == [id \in DOMAIN s.links |-> probe(s.links[id])]
             v == t.verify
             u == [t EXCEPT !.links = L, !.verify = v]
  <1>1. OnNetworkChanged(s) = [s EXCEPT !.backoff = {}, !.links = L]
    BY DEF OnNetworkChanged
  <1>2. Good(t) /\ Steady(s, t)
    BY PutsGood, PutsSteady
  <1>3. /\ DOMAIN L = DOMAIN s.links
        /\ \A i \in DOMAIN L :
              /\ L[i].key = s.links[i].key /\ L[i].out = s.links[i].out /\ L[i].car = s.links[i].car
              /\ s.links[i].phase = "Connected" /\ s.links[i].sus # "no" =>
                    L[i].phase = "Connected" /\ L[i].sus # "no"
    BY DEF Good, LinksInv, LinkShape
  <1> HIDE DEF L
  <1>4. t.links = s.links /\ [s EXCEPT !.backoff = {}, !.links = L] = u
    BY DEF Good, Shape
  <1>5. v \subseteq t.verify
    OBVIOUS
  <1>9. \A i \in DOMAIN L :
              /\ L[i].key = t.links[i].key /\ L[i].out = t.links[i].out /\ L[i].car = t.links[i].car
              /\ i \in v /\ t.links[i].phase = "Connected" /\ t.links[i].sus # "no" =>
                    L[i].phase = "Connected" /\ L[i].sus # "no"
    BY <1>3, <1>4
  <1> HIDE DEF t, v
  <1>6. Steady(t, u)
    BY <1>2, <1>3, <1>4, <1>5, <1>9, MapLinksSteady
  <1> HIDE DEF u
  <1>7. Probed(t)
    BY <1>2, SteadyProbed
  <1>8. Probed(u)
    BY <1>6, <1>7, SteadyProbed
  <1> QED
    BY <1>1, <1>4, <1>8

\* All that were due are dropped, so nobody who waits needs the list any more.
LEMMA DropsProbed ==
    ASSUME NEW s, Good(s), Probed(s)
    PROVE  Probed(CloseAllLinks(s)) /\ Probed(TickDrops(s))
  <1> DEFINE t == [s EXCEPT !.pend = {}]
  <1>1. Good(t)
    BY PutsGood
  <1>2. CloseAllLinks(s) = DropLinks(t, DOMAIN s.links) /\ TickDrops(s) = DropLinks(t, s.pend)
    BY DEF CloseAllLinks, TickDrops
  <1>3. /\ t.links = s.links /\ t.verify = s.verify /\ t.index = s.index
        /\ t.eps = s.eps /\ t.next = s.next
        /\ t.retry = s.retry /\ t.adopt = s.adopt /\ t.resolving = s.resolving
    BY DEF Good, Shape
  <1> HIDE DEF t
  <1>4. Keyed(t)
    BY <1>3 DEF Probed, Keyed
  <1>5. VerifiedBut(t, DOMAIN s.links) /\ VerifiedBut(t, s.pend)
    BY <1>3 DEF Probed, Verified, VerifiedBut
  <1> QED
    BY <1>1, <1>2, <1>4, <1>5, DropLinksProbed

LEMMA TickEvictsProbed ==
    ASSUME NEW s, Good(s), Probed(s)
    PROVE  Probed(TickEvicts(s))
  <1> DEFINE asked(l) == ~l.car /\ l.phase = "Connected" /\ l.conn # "closed"
             heard == {id \in DOMAIN s.links : asked(s.links[id]) /\ s.links[id].sus = "heard"}
             L == [id \in DOMAIN s.links |->
                     IF id \in heard THEN [s.links[id] EXCEPT !.sus = "no"] ELSE s.links[id]]
             v == s.verify \ heard
             u == [s EXCEPT !.links = L]
             w == [s EXCEPT !.links = L, !.verify = v]
  <1>1. \E ids : TickEvicts(s) = DropLinks(w, ids)
    BY Zenon DEF TickEvicts
  <1>0. v \subseteq s.verify /\ \A i \in v : i \notin heard
    OBVIOUS
  <1> HIDE DEF heard, v
  <1>2. /\ DOMAIN L = DOMAIN s.links
        /\ \A i \in DOMAIN L :
              /\ LinkShape(L[i]) /\ L[i].key = s.links[i].key /\ L[i].car = s.links[i].car
              /\ L[i].out = s.links[i].out /\ L[i].peer = s.links[i].peer
              /\ L[i].phase = s.links[i].phase
              /\ i \in v => L[i] = s.links[i]
    BY <1>0 DEF Good, LinksInv, LinkShape
  <1> HIDE DEF L
  <1>3. \A i \in DOMAIN L :
              /\ L[i].key = s.links[i].key /\ L[i].out = s.links[i].out /\ L[i].car = s.links[i].car
              /\ i \in v /\ s.links[i].phase = "Connected" /\ s.links[i].sus # "no" =>
                    L[i].phase = "Connected" /\ L[i].sus # "no"
    BY <1>2
  <1>4. Steady(s, w)
    BY <1>0, <1>2, <1>3, MapLinksSteady
  <1>5. Good(u)
    BY <1>2, MapLinksGood
  <1>6. Good(w)
    <2>1. w = [u EXCEPT !.verify = v]
      OBVIOUS
    <2> HIDE DEF u, w
    <2> QED
      BY <1>5, <2>1, PutsGood
  <1>7. PICK ids : TickEvicts(s) = DropLinks(w, ids)
    BY <1>1
  <1> HIDE DEF w
  <1>8. Probed(w)
    BY <1>4, SteadyProbed
  <1>9. Keyed(w) /\ VerifiedBut(w, ids)
    BY <1>8 DEF Probed, Verified, VerifiedBut
  <1> QED
    BY <1>6, <1>7, <1>9, DropLinksProbed

\* Nothing is queued where nothing is dialed.
LEMMA TickQueuesProbed ==
    ASSUME NEW s, Good(s), Probed(s), NEW outcome
    PROVE  TickRetries(s, outcome) = s /\ TickAdopts(s) = s
  <1>1. s.retry = <<>> /\ s.adopt = <<>>
    BY DEF Probed, Keyed
  <1>2. Len(s.retry) = 0 /\ Len(s.adopt) = 0
    BY <1>1
  <1>3. [s EXCEPT !.retry = <<>>] = s /\ [s EXCEPT !.adopt = <<>>] = s
    BY <1>1 DEF Good, Shape
  <1>4. Len(s.retry) \in Nat /\ Len(s.adopt) \in Nat
    BY <1>2
  <1> DEFINE N == Len(s.retry)
             M == Len(s.adopt)
             link(t, n) == FirstOf(t, ConnectedTo(t, s.adopt[n][1]))
  <1>5. TickRetries(s, outcome) = s
    <2> DEFINE base == [s EXCEPT !.retry = <<>>]
    <2>1. PICK f : /\ TickRetries(s, outcome) = f[N]
                   /\ f[0] = base
                   /\ \A n \in 1..N : f[n] = Redialed(f[n - 1], s.retry[n], outcome)
      BY <1>4, TickRetriesRuns, ZenonT(60)
    <2> QED
      BY <1>2, <1>3, <2>1
  <1>6. TickAdopts(s) = s
    <2> DEFINE base == [s EXCEPT !.adopt = <<>>]
    <2>1. PICK f : /\ TickAdopts(s) = f[M]
                   /\ f[0] = base
                   /\ \A n \in 1..M : f[n] = BindDialAlias(f[n - 1], link(f[n - 1], n), s.adopt[n][2])
      BY <1>4, TickAdoptsRuns
    <2> QED
      BY <1>2, <1>3, <2>1
  <1> QED
    BY <1>5, <1>6

LEMMA TickHandshakesProbed ==
    ASSUME NEW s, Good(s), NEW ids \in Seq(InHandshake(s)), Probed(s)
    PROVE  Probed(TickHandshakes(s, ids))
  <1> DEFINE N == Len(ids)
  <1>1. N \in Nat /\ \A n \in 1..N : ids[n] \in InHandshake(s)
    OBVIOUS
  <1>2. PICK f : /\ TickHandshakes(s, ids) = f[N]
                 /\ f[0] = s
                 /\ \A n \in 1..N : f[n] = Failed(f[n - 1], ids[n])
    BY <1>1, TickHandshakesRuns
  <1> DEFINE Down(t) == /\ DOMAIN t.links = DOMAIN s.links
                        /\ \A i \in InHandshake(s) : t.links[i].phase # "Connected"
             V == {n \in 0..N : Good(f[n]) /\ Probed(f[n]) /\ Down(f[n])}
  <1>3. \A i \in InHandshake(s) : i \in DOMAIN s.links /\ s.links[i].phase # "Connected"
    BY DEF InHandshake
  <1> HIDE DEF N
  <1>4. 0 \in V
    BY <1>1, <1>2, <1>3
  <1>5. ASSUME NEW n \in 1..N, n - 1 \in V
        PROVE  n \in V
    <2> DEFINE t == f[n - 1]
               id == ids[n]
               u == FailAssociation(t, id, FALSE)
    <2>1. n \in 0..N /\ Good(t) /\ Probed(t) /\ Down(t) /\ f[n] = Failed(t, id) /\ id \in InHandshake(s)
      BY <1>1, <1>2, <1>5
    <2>2. f[n] = u
      BY <2>1 DEF Failed
    <2>3. id \in DOMAIN t.links /\ t.links[id].phase # "Connected"
      BY <1>3, <2>1
    <2> HIDE DEF t, id
    <2>4. Good(u) /\ Probed(u) /\ Mild(t, u) /\ DOMAIN u.links = DOMAIN t.links
      BY <2>1, <2>3, FailAssociationGood, FailAssociationProbed, FailAssociationMild, FailAssociationDomain
    <2> HIDE DEF u
    <2>5. Down(u)
      BY <1>3, <2>1, <2>4 DEF Mild
    <2> QED
      BY <2>1, <2>2, <2>4, <2>5
  <1>6. N \in V
    <2> HIDE DEF V
    <2> QED
      BY <1>1, <1>4, <1>5, Rounds
  <1> QED
    BY <1>2, <1>6

-----------------------------------------------------------------------------
(* Nobody who waits is forgotten.                                          *)

LEMMA WalksWaiting ==
    ASSUME TableInv, Nesting(m, {}), NEW s \in Walks
    PROVE  /\ Good(s) /\ s.links = m.links /\ Nesting(s, {})
           /\ Probed(m) => Probed(s)
  <1>1. PICK x : s = [m EXCEPT !.asc = x]
    BY DEF Walks
  <1>2. Good(m) /\ Good(s) /\ s.links = m.links
    BY WalksGood DEF TableInv
  <1>3. Aside(m, s) /\ Steady(m, s)
    BY <1>1, <1>2, PutsAside, PutsSteady DEF Good
  <1>4. Nesting(s, {})
    BY <1>3, AsideCalm, CalmWaiting
  <1>5. Probed(m) => Probed(s)
    BY <1>3, SteadyProbed
  <1> QED
    BY <1>2, <1>4, <1>5

LEMMA LeavesWaiting ==
    ASSUME NEW s, Good(s), Leaves(s)
    PROVE  /\ Nesting(s, {}) => Nesting(m', {})
           /\ Probed(s) => Probed(m')
  <1> DEFINE t == [s EXCEPT !.asc = TRUE]
  <1>1. Aside(s, t) /\ Steady(s, t)
    BY PutsAside, PutsSteady DEF Good
  <1>2. m' = t
    BY Zenon DEF Leaves
  <1> HIDE DEF t
  <1>3. Probed(s) => Probed(t)
    BY <1>1, SteadyProbed
  <1>4. ASSUME Nesting(s, {})
        PROVE  Nesting(t, {})
    BY <1>1, <1>4, AsideCalm, CalmWaiting
  <1> QED
    BY <1>2, <1>3, <1>4

LEMMA CalmStep ==
    ASSUME Nesting(m, {}), Calm(m, m')
    PROVE  Nesting(m', {})
  BY CalmWaiting

LEMMA EmptyWaiting ==
    ASSUME NEW local, NEW c, NEW cands
    PROVE  /\ Nesting(Empty(local, c, cands), {})
           /\ c = "probe" => Probed(Empty(local, c, cands))
  <1> DEFINE s == Empty(local, c, cands)
  <1>1. /\ s.links = <<>> /\ s.nestw = {} /\ s.verify = {}
        /\ s.retry = <<>> /\ s.adopt = <<>> /\ s.resolving = {}
        /\ DOMAIN s.eps = Keys(c)
    BY DEF Empty
  <1> HIDE DEF s
  <1>2. DOMAIN s.links = {}
    BY <1>1
  <1>3. Nesting(s, {})
    BY <1>1, <1>2 DEF Nesting
  <1>4. ASSUME c = "probe"
        PROVE  Probed(s)
    <2>1. DOMAIN s.eps = {Alias}
      BY <1>1, <1>4 DEF Keys
    <2>2. \A k \in DOMAIN s.eps, n \in Nat : k # <<"inbound", n>>
      BY <2>1 DEF Alias
    <2> QED
      BY <1>1, <1>2, <2>2 DEF Probed, Verified, Keyed
  <1> QED
    BY <1>3, <1>4 DEF s

LEMMA AcceptedWaiting ==
    ASSUME NEW s, Good(s), NEW p, Nesting(s, {})
    PROVE  /\ Nesting(Accepted(s, p), {})
           /\ Probed(s) => Probed(Accepted(s, p))
  <1> DEFINE l == NewLink(<<"inbound", s.next>>, NoPeer, FALSE, FALSE, NoLink)
             i == Insert([s EXCEPT !.next = @ + 1], s.next, l)
             u == OnInboundConnection(s, NoLink)
             n == s.next
  <1>1. u = s \/ u = i
    BY DEF OnInboundConnection
  <1>2. Good(u) /\ Nesting(u, {}) /\ (Probed(s) => Probed(u))
    BY OnInboundConnectionGood, OnInboundConnectionWaiting, OnInboundConnectionProbed
  <1>3. n \notin DOMAIN s.links
    BY DEF Good, LinksInv
  <1>4. l.phase = "Handshaking" /\ i = Added(s, l)
    BY Zenon DEF NewLink, Added
  <1>5. ASSUME NEW v, v = Added(s, l)
        PROVE  v.links[n] = l
    <2> HIDE DEF l
    <2> QED
      BY <1>5, InsertFacts
  <1>6. \/ Accepted(s, p) = FinishEstablishment(u, n, p) /\ n \in DOMAIN u.links
        \/ Accepted(s, p) = u
    BY DEF Accepted
  <1> HIDE DEF u, i, n, l
  <1>7. n \in DOMAIN u.links => n \in InHandshake(u)
    BY <1>1, <1>3, <1>4, <1>5 DEF InHandshake
  <1>8. n \in DOMAIN u.links => Nesting(FinishEstablishment(u, n, p), {})
    BY <1>2, <1>7, FinishEstablishmentWaiting
  <1>9. n \in DOMAIN u.links /\ Probed(s) => Probed(FinishEstablishment(u, n, p))
    BY <1>2, <1>7, FinishEstablishmentProbed
  <1> QED
    BY <1>2, <1>6, <1>8, <1>9

LEMMA InitWaiting ==
    ASSUME Init
    PROVE  Nesting(m, {}) /\ (class = "probe" => Probed(m))
  <1>1. PICK local \in Locals, cands \in Candidates(class) :
           LET s == Empty(local, class, cands)
           IN  m = CASE class = "nested" -> Accepted(s, Relay)
                     [] class = "probe"  -> Accepted(s, Far)
                     [] OTHER -> s
    BY DEF Init
  <1> DEFINE s == Empty(local, class, cands)
  <1>2. \/ m = Accepted(s, Relay) /\ class = "nested"
        \/ m = Accepted(s, Far)
        \/ m = s
    BY <1>1
  <1>3. Good(s) /\ Nesting(s, {}) /\ (class = "probe" => Probed(s))
    BY EmptyGood, EmptyWaiting
  <1> HIDE DEF s
  <1>4. /\ Nesting(Accepted(s, Relay), {}) /\ Nesting(Accepted(s, Far), {})
        /\ Probed(s) => Probed(Accepted(s, Far))
    BY <1>3, AcceptedWaiting
  <1> QED
    BY <1>2, <1>3, <1>4

\* The stages of Tick, one after the other.
LEMMA TickRounds ==
    ASSUME TableInv, Tick
    PROVE  \E s \in Walks, o \in Outcomes : \E c, ids :
              /\ Good(c) /\ c = TickAdopts(TickRetries(TickDrops(s), o))
              /\ ids \in Seq(InHandshake(c))
              /\ Good(TickHandshakes(c, ids)) /\ Good(TickEvicts(TickHandshakes(c, ids)))
              /\ Leaves(TickEvicts(TickHandshakes(c, ids)))
  <1>1. {"sent"} \subseteq Outcomes
    BY DEF Outcomes
  <1>2. PICK s \in Walks, o \in Outcomes :
           \E c \in {TickAdopts(TickRetries(TickDrops(s), o))} :
           \E late \in SUBSET InHandshake(c) :
           \E q \in Orders(c, Refused(c, "closed")), v \in Orders(c, Refused(c, "version")),
              l \in Orders(c, late) :
              Leaves(TickEvicts(TickHandshakes(c, q \o v \o l)))
    BY <1>1, Zenon DEF Tick
  <1> DEFINE a == TickDrops(s)
             b == TickRetries(a, o)
             c == TickAdopts(b)
  <1>3. PICK late \in SUBSET InHandshake(c), q \in Orders(c, Refused(c, "closed")),
             v \in Orders(c, Refused(c, "version")) :
        \E l \in Orders(c, late) : Leaves(TickEvicts(TickHandshakes(c, q \o v \o l)))
    BY <1>2, Zenon
  <1>4. PICK l \in Orders(c, late) : Leaves(TickEvicts(TickHandshakes(c, q \o v \o l)))
    BY <1>3
  <1>5. Good(a)
    BY WalksGood, DropsGood
  <1> HIDE DEF a
  <1>6. Good(b)
    BY <1>5, TickRetriesGood
  <1> HIDE DEF b
  <1>7. Good(c)
    BY <1>6, TickAdoptsGood
  <1> HIDE DEF c
  <1> DEFINE ids == q \o v \o l
             d == TickHandshakes(c, ids)
  <1>8. ids \in Seq(InHandshake(c))
    <2>1. Refused(c, "closed") \in SUBSET InHandshake(c) /\ Refused(c, "version") \in SUBSET InHandshake(c)
      BY DEF Refused
    <2>2. q \in Seq(InHandshake(c)) /\ v \in Seq(InHandshake(c)) /\ l \in Seq(InHandshake(c))
      BY <1>7, <2>1, OrdersWalkHandshakes
    <2> QED
      BY <2>2
  <1>9. Len(ids) \in Nat
    BY <1>8
  <1>10. Leaves(TickEvicts(d))
    BY <1>4
  <1> HIDE DEF ids
  <1>11. Good(d)
    BY <1>7, <1>9, TickHandshakesGood
  <1>12. Good(TickEvicts(d))
    <2> HIDE DEF d
    <2> QED
      BY <1>11, TickEvictsGood
  <1>13. c = TickAdopts(TickRetries(TickDrops(s), o))
    BY DEF c, b, a
  <1> QED
    BY <1>7, <1>8, <1>10, <1>11, <1>12, <1>13

LEMMA TickWaiting ==
    ASSUME TableInv, Nesting(m, {}), Tick
    PROVE  Nesting(m', {}) /\ (Probed(m) => Probed(m'))
  <1>0. PICK s \in Walks, o \in Outcomes : \E c, ids :
              /\ Good(c) /\ c = TickAdopts(TickRetries(TickDrops(s), o))
              /\ ids \in Seq(InHandshake(c))
              /\ Good(TickHandshakes(c, ids)) /\ Good(TickEvicts(TickHandshakes(c, ids)))
              /\ Leaves(TickEvicts(TickHandshakes(c, ids)))
    BY TickRounds
  <1>1. PICK c, ids :
              /\ Good(c) /\ c = TickAdopts(TickRetries(TickDrops(s), o))
              /\ ids \in Seq(InHandshake(c))
              /\ Good(TickHandshakes(c, ids)) /\ Good(TickEvicts(TickHandshakes(c, ids)))
              /\ Leaves(TickEvicts(TickHandshakes(c, ids)))
    BY <1>0
  <1> DEFINE a == TickDrops(s)
             b == TickRetries(a, o)
             d == TickHandshakes(c, ids)
             e == TickEvicts(d)
  <1>2. Good(a) /\ Nesting(a, {}) /\ (Probed(m) => Probed(a))
    <2>1. Good(s) /\ Nesting(s, {}) /\ (Probed(m) => Probed(s))
      BY WalksWaiting
    <2>2. Calm(s, a)
      BY <2>1, DropsCalm
    <2> QED
      BY <2>1, <2>2, DropsGood, DropsProbed, CalmWaiting
  <1>3. c = TickAdopts(b)
    BY <1>1
  <1> HIDE DEF a
  <1>4. Good(b) /\ Nesting(b, {}) /\ (Probed(m) => Probed(b))
    BY <1>2, TickRetriesGood, TickRetriesWaiting, TickQueuesProbed
  <1> HIDE DEF b
  <1>5. Nesting(c, {}) /\ (Probed(m) => Probed(c))
    BY <1>3, <1>4, TickAdoptsWaiting, TickQueuesProbed
  <1>6. Good(d) /\ Good(e) /\ Leaves(e)
    BY <1>1
  <1>7. ids \in Seq(DOMAIN c.links)
    <2>1. InHandshake(c) \subseteq DOMAIN c.links
      BY DEF InHandshake
    <2> QED
      BY <1>1, <2>1
  <1>8. Nesting(d, {}) /\ (Probed(m) => Probed(d))
    BY <1>1, <1>5, <1>7, TickHandshakesWaiting, TickHandshakesProbed
  <1> HIDE DEF d
  <1>9. Nesting(e, {}) /\ (Probed(m) => Probed(e))
    BY <1>6, <1>8, TickEvictsCalm, CalmWaiting, TickEvictsProbed
  <1> HIDE DEF e
  <1> QED
    BY <1>6, <1>9, LeavesWaiting

LEMMA CapabilityArrivesWaiting ==
    ASSUME TableInv, Nesting(m, {}), CapabilityArrives
    PROVE  Nesting(m', {})
  <1>0. PICK s \in Walks : \E on, k, a, peer :
           Leaves(IngestRemoteAddrs([s EXCEPT !.links[on].cap = "known"], k, peer, a))
    BY Zenon DEF CapabilityArrives
  <1>1. PICK on : \E k, a, peer :
           Leaves(IngestRemoteAddrs([s EXCEPT !.links[on].cap = "known"], k, peer, a))
    BY <1>0, Zenon
  <1> DEFINE t == [s EXCEPT !.links[on].cap = "known"]
  <1>2. PICK k, a, peer : Leaves(IngestRemoteAddrs(t, k, peer, a))
    BY <1>1
  <1>3. Good(s) /\ Nesting(s, {})
    BY WalksWaiting
  <1>4. Good(t) /\ Calm(s, t)
    BY <1>3, LinkFieldGood, LinkFieldCalm
  <1> HIDE DEF t
  <1> DEFINE u == IngestRemoteAddrs(t, k, peer, a)
  <1>5. Elsewhere(t, u) /\ Aside(t, u)
    BY <1>4, RegisterElsewhere, RegisterAside DEF Good
  <1> HIDE DEF u
  <1>6. Good(u) /\ Calm(t, u)
    BY <1>4, <1>5, ElsewhereGood, AsideCalm
  <1>7. Nesting(t, {})
    BY <1>3, <1>4, CalmWaiting
  <1>8. Nesting(u, {})
    BY <1>6, <1>7, CalmWaiting
  <1>9. Leaves(u)
    BY <1>2 DEF u
  <1> QED
    BY <1>6, <1>8, <1>9, LeavesWaiting

LEMMA NextWaiting ==
    ASSUME TableInv, Nesting(m, {}), class \in Classes, [Next]_vars
    PROVE  Nesting(m', {})
  <1>1. Good(m)
    BY DEF TableInv
  <1>2. ASSUME NEW s \in Walks
        PROVE  Good(s) /\ s.links = m.links /\ Nesting(s, {})
    BY WalksWaiting
  <1>0. ASSUME NEW u, Good(u), Nesting(u, {}), Leaves(u)
        PROVE  Nesting(m', {})
    BY <1>0, LeavesWaiting
  <1>3. CASE CallEnsure
    <2>1. PICK s \in Walks, k \in Keys(class), o \in Outcomes, over \in BOOLEAN :
             Leaves(EnsureAssociation(s, k, over, o))
      BY <1>3 DEF CallEnsure
    <2>2. Good(EnsureAssociation(s, k, over, o)) /\ Nesting(EnsureAssociation(s, k, over, o), {})
      BY <1>2, EnsureAssociationGood, EnsureAssociationWaiting
    <2> QED
      BY <1>0, <2>1, <2>2
  <1>4. CASE CallAbort
    <2>1. PICK s \in Walks, k \in Keys(class) : Leaves(AbortInflightDial(s, k))
      BY <1>4 DEF CallAbort
    <2>2. Good(AbortInflightDial(s, k)) /\ Nesting(AbortInflightDial(s, k), {})
      BY <1>2, AbortInflightDialGood, AbortInflightDialWaiting
    <2> QED
      BY <1>0, <2>1, <2>2
  <1>5. CASE CallRegister
    <2>1. PICK k, c : \/ Leaves(RegisterEndpoints(m, k, Far, c))
                      \/ Leaves(RegisterEndpoint(m, k, Far, c[1]))
      BY <1>5 DEF CallRegister
    <2>2. /\ Elsewhere(m, RegisterEndpoints(m, k, Far, c)) /\ Elsewhere(m, RegisterEndpoint(m, k, Far, c[1]))
          /\ Aside(m, RegisterEndpoints(m, k, Far, c)) /\ Aside(m, RegisterEndpoint(m, k, Far, c[1]))
      BY <1>1, RegisterElsewhere, RegisterAside DEF Good
    <2>3. ASSUME NEW u, Elsewhere(m, u), Aside(m, u)
          PROVE  Good(u) /\ Nesting(u, {})
      BY <1>1, <2>3, ElsewhereGood, AsideCalm, CalmWaiting
    <2> QED
      BY <1>0, <2>1, <2>2, <2>3
  <1>6. CASE CallUnregister
    <2>1. PICK k \in Keys(class) : Leaves(UnregisterEndpoint(m, k))
      BY <1>6 DEF CallUnregister
    <2>2. Elsewhere(m, UnregisterEndpoint(m, k)) /\ Aside(m, UnregisterEndpoint(m, k))
      BY <1>1, RegisterElsewhere, RegisterAside DEF Good
    <2>3. Good(UnregisterEndpoint(m, k)) /\ Nesting(UnregisterEndpoint(m, k), {})
      BY <1>1, <2>2, ElsewhereGood, AsideCalm, CalmWaiting
    <2> QED
      BY <1>0, <2>1, <2>3
  <1>7. CASE CallRequestDrop
    <2>1. PICK s \in Walks, k \in Keys(class) : Leaves(RequestDropLink(s, k))
      BY <1>7 DEF CallRequestDrop
    <2>2. Good(RequestDropLink(s, k)) /\ Calm(s, RequestDropLink(s, k))
      BY <1>2, RequestDropLinkGood, DropsCalm
    <2>3. Nesting(RequestDropLink(s, k), {})
      BY <1>2, <2>2, CalmWaiting
    <2> QED
      BY <1>0, <2>1, <2>2, <2>3
  <1>8. ASSUME NEW s \in Walks, NEW key, NEW initiator, NEW via, NEW unsent
        PROVE  /\ Good(EstablishNestedOverCarrier(s, key, initiator, via, unsent))
               /\ Nesting(EstablishNestedOverCarrier(s, key, initiator, via, unsent), {})
    BY <1>2, EstablishNestedOverCarrierGood, EstablishNestedOverCarrierWaiting
  <1>10. CASE CallNest
    <2>1. PICK s \in Walks, via \in Relays, initiator \in BOOLEAN, unsent \in BOOLEAN :
             Leaves(EstablishNestedOverCarrier(s, PeerKey(Far), initiator, via, unsent))
      BY <1>10 DEF CallNest
    <2> DEFINE u == EstablishNestedOverCarrier(s, PeerKey(Far), initiator, via, unsent)
    <2>3. Good(u) /\ Nesting(u, {})
      BY <1>8
    <2>4. Leaves(u)
      BY <2>1
    <2> HIDE DEF u
    <2> QED
      BY <1>0, <2>3, <2>4
  <1>11. CASE CarrierArrives
    <2> DEFINE key == <<"carrier", m.next>>
    <2>1. PICK s \in Walks, via \in Relays :
             Leaves(EstablishNestedOverCarrier(s, key, FALSE, via, FALSE))
      BY <1>11 DEF CarrierArrives
    <2> HIDE DEF key
    <2> DEFINE u == EstablishNestedOverCarrier(s, key, FALSE, via, FALSE)
    <2>3. Good(u) /\ Nesting(u, {})
      BY <1>8
    <2>4. Leaves(u)
      BY <2>1
    <2> HIDE DEF u
    <2> QED
      BY <1>0, <2>3, <2>4
  <1>12. CASE CallVerify
    <2>1. PICK s \in Walks, k \in Keys(class) : Leaves(VerifyLink(s, k))
      BY <1>12 DEF CallVerify
    <2>2. Good(VerifyLink(s, k)) /\ Nesting(VerifyLink(s, k), {})
      BY <1>2, VerifyLinkGood, VerifyLinkWaiting
    <2> QED
      BY <1>0, <2>1, <2>2
  <1>13. CASE CallNetworkChanged
    <2>1. Good(OnNetworkChanged(m)) /\ Calm(m, OnNetworkChanged(m))
      BY <1>1, OnNetworkChangedGood, OnNetworkChangedCalm
    <2>2. Nesting(OnNetworkChanged(m), {})
      BY <2>1, CalmWaiting
    <2> QED
      BY <1>0, <1>13, <2>1, <2>2 DEF CallNetworkChanged
  <1>14. CASE CallCloseAll
    <2>1. Good(CloseAllLinks(m)) /\ Calm(m, CloseAllLinks(m))
      BY <1>1, DropsGood, DropsCalm
    <2>2. Nesting(CloseAllLinks(m), {})
      BY <2>1, CalmWaiting
    <2> QED
      BY <1>0, <1>14, <2>1, <2>2 DEF CallCloseAll
  <1>15. CASE Arrives
    <2>1. PICK idle \in IdleInbound(m) \cup {NoLink} : Leaves(OnInboundConnection(m, idle))
      BY <1>15 DEF Arrives
    <2>2. Good(OnInboundConnection(m, idle)) /\ Nesting(OnInboundConnection(m, idle), {})
      BY <1>1, OnInboundConnectionGood, OnInboundConnectionWaiting
    <2> QED
      BY <1>0, <2>1, <2>2
  <1>16. CASE CapabilityArrives
    BY <1>16, CapabilityArrivesWaiting
  <1>17. CASE HandshakeEnds
    <2>1. PICK s \in Walks, id \in InHandshake(m) :
             \/ \E p : Leaves(FinishEstablishment(s, id, p))
             \/ Leaves(FailAssociation(s, id, FALSE))
      BY <1>17, Zenon DEF HandshakeEnds
    <2>2. id \in InHandshake(s) /\ id \in DOMAIN s.links
      BY <1>2 DEF InHandshake
    <2>3. ASSUME NEW p
          PROVE  Good(FinishEstablishment(s, id, p)) /\ Nesting(FinishEstablishment(s, id, p), {})
      BY <1>2, <2>2, FinishEstablishmentGood, FinishEstablishmentWaiting
    <2>4. Good(FailAssociation(s, id, FALSE)) /\ Nesting(FailAssociation(s, id, FALSE), {})
      BY <1>2, <2>2, FailAssociationGood, FailAssociationWaiting
    <2> QED
      BY <1>0, <2>1, <2>3, <2>4
  <1>18. CASE Resolves
    <2>1. PICK s \in Walks, k \in m.resolving, ok \in BOOLEAN, o \in Outcomes :
             Leaves(OnHostResolved(s, k, ok, o))
      BY <1>18 DEF Resolves
    <2>2. Good(OnHostResolved(s, k, ok, o)) /\ Nesting(OnHostResolved(s, k, ok, o), {})
      BY <1>2, OnHostResolvedGood, OnHostResolvedWaiting
    <2> QED
      BY <1>0, <2>1, <2>2
  <1>19. CASE Expires
    <2>1. Calm(m, m')
      BY <1>1, <1>19, PutsAside, AsideCalm DEF Expires, Good
    <2> QED
      BY <2>1, CalmStep
  <1>20. CASE ProbeEnds
    <2>1. PICK id, x : m' = [m EXCEPT !.links[id].sus = x]
      BY <1>20, Zenon DEF ProbeEnds
    <2>2. Calm(m, m')
      BY <1>1, <2>1, LinkFieldCalm
    <2> QED
      BY <2>2, CalmStep
  <1>21. CASE ConnectionFails
    <2>1. PICK id, c : m' = [m EXCEPT !.links[id].conn = c]
      BY <1>21, Zenon DEF ConnectionFails
    <2>2. Calm(m, m')
      BY <1>1, <2>1, LinkFieldCalm
    <2> QED
      BY <2>2, CalmStep
  <1>22. CASE CarrierFails
    <2>1. PICK s \in Walks, id \in DOMAIN m.links :
             \/ /\ Connected(m, id)
                /\ Leaves([[s EXCEPT !.links[id].conn = "closed"] EXCEPT !.links[id].phase = "Backoff"])
             \/ Leaves(FailAssociation([s EXCEPT !.links[id].conn = "closed"], id, FALSE))
             \/ Leaves([s EXCEPT !.links[id].conn = "dead"])
      BY <1>22, Zenon DEF CarrierFails
    <2> DEFINE t == [s EXCEPT !.links[id].conn = "closed"]
               v == [s EXCEPT !.links[id].conn = "dead"]
               b == [t EXCEPT !.links[id].phase = "Backoff"]
               f == FailAssociation(t, id, FALSE)
    <2>2. Good(t) /\ Good(v) /\ Calm(s, t) /\ Calm(s, v)
      BY <1>2, LinkFieldGood, LinkFieldCalm
    <2>3. DOMAIN t.links = DOMAIN m.links
      <3>1. Good(s) /\ s.links = m.links
        BY <1>2
      <3> QED
        BY <3>1 DEF Good, Shape
    <2>4. (Connected(m, id) /\ Leaves(b)) \/ Leaves(f) \/ Leaves(v)
      BY <2>1, Zenon
    <2> HIDE DEF t, v
    <2>5. Nesting(t, {}) /\ Nesting(v, {})
      BY <1>2, <2>2, CalmWaiting
    <2>6. Good(b) /\ Good(f)
      BY <2>2, LinkFieldGood, FailAssociationGood
    <2>7. Nesting(f, {})
      BY <2>2, <2>3, <2>5, FailAssociationWaiting
    <2>8. ASSUME Connected(m, id)
          PROVE  Nesting(b, {})
      <3>1. t.links[id].phase # "Handshaking"
        BY <1>2, <2>2, <2>3, <2>8 DEF Calm, Connected
      <3>2. Calm(t, b)
        BY <2>2, <3>1, LinkFieldCalm
      <3> HIDE DEF b
      <3> QED
        BY <2>5, <3>2, CalmWaiting
    <2> HIDE DEF b, f
    <2> QED
      BY <1>0, <2>2, <2>4, <2>5, <2>6, <2>7, <2>8
  <1>23. CASE Tick
    BY <1>23, TickWaiting
  <1>24. CASE UNCHANGED vars
    BY <1>24 DEF vars
  <1> QED
    BY <1>3, <1>4, <1>5, <1>6, <1>7, <1>10, <1>11, <1>12, <1>13, <1>14, <1>15,
       <1>16, <1>17, <1>18, <1>19, <1>20, <1>21, <1>22, <1>23, <1>24 DEF Next

\* A node that probes dials nothing, nests nothing and resolves nothing.
LEMMA NextProbed ==
    ASSUME TableInv, class = "probe", Nesting(m, {}), Probed(m), [Next]_vars
    PROVE  Probed(m')
  <1>1. Good(m)
    BY DEF TableInv
  <1>2. ASSUME NEW s \in Walks
        PROVE  Good(s) /\ s.links = m.links /\ Probed(s)
    BY WalksWaiting
  <1>0. ASSUME NEW u, Good(u), Probed(u), Leaves(u)
        PROVE  Probed(m')
    BY <1>0, LeavesWaiting
  <1>3. ASSUME NEW name, Call(name)
        PROVE  name \in {"Verify", "NetworkChanged", "Inbound", "CloseAll"}
    BY <1>3 DEF Call, Offers
  <1>4. /\ ~CallEnsure /\ ~CallAbort /\ ~CallRegister /\ ~CallUnregister /\ ~CallRequestDrop
        /\ ~CallNest /\ ~CarrierArrives /\ ~CapabilityArrives
    <2>1. /\ ~Call("Ensure") /\ ~Call("Abort") /\ ~Call("Register") /\ ~Call("Unregister")
          /\ ~Call("RequestDrop") /\ ~Call("Nest") /\ ~Call("InboundCarrier") /\ ~Call("Capability")
      BY <1>3
    <2> QED
      BY <2>1 DEF CallEnsure, CallAbort, CallRegister, CallUnregister, CallRequestDrop,
                  CallNest, CarrierArrives, CapabilityArrives
  <1>5. ~Resolves
    BY DEF Resolves, Probed, Keyed
  <1>6. ~CarrierFails
    BY Zenon DEF CarrierFails, Probed, Keyed
  <1>7. CASE CallVerify
    <2>1. PICK s \in Walks, k \in Keys(class) : Leaves(VerifyLink(s, k))
      BY <1>7 DEF CallVerify
    <2>2. Good(VerifyLink(s, k)) /\ Probed(VerifyLink(s, k))
      BY <1>2, VerifyLinkGood, VerifyLinkProbed
    <2> QED
      BY <1>0, <2>1, <2>2
  <1>8. CASE CallNetworkChanged
    <2>1. Good(OnNetworkChanged(m)) /\ Probed(OnNetworkChanged(m))
      BY <1>1, OnNetworkChangedGood, OnNetworkChangedProbed
    <2> QED
      BY <1>0, <1>8, <2>1 DEF CallNetworkChanged
  <1>9. CASE CallCloseAll
    <2>1. Good(CloseAllLinks(m)) /\ Probed(CloseAllLinks(m))
      BY <1>1, DropsGood, DropsProbed
    <2> QED
      BY <1>0, <1>9, <2>1 DEF CallCloseAll
  <1>10. CASE Arrives
    <2>1. PICK idle \in IdleInbound(m) \cup {NoLink} : Leaves(OnInboundConnection(m, idle))
      BY <1>10 DEF Arrives
    <2>2. Good(OnInboundConnection(m, idle)) /\ Probed(OnInboundConnection(m, idle))
      BY <1>1, OnInboundConnectionGood, OnInboundConnectionProbed
    <2> QED
      BY <1>0, <2>1, <2>2
  <1>11. CASE HandshakeEnds
    <2>1. PICK s \in Walks, id \in InHandshake(m) :
             \/ \E p : Leaves(FinishEstablishment(s, id, p))
             \/ Leaves(FailAssociation(s, id, FALSE))
      BY <1>11, Zenon DEF HandshakeEnds
    <2>2. id \in InHandshake(s) /\ id \in DOMAIN s.links /\ s.links[id].phase # "Connected"
      BY <1>2 DEF InHandshake
    <2>3. ASSUME NEW p
          PROVE  Good(FinishEstablishment(s, id, p)) /\ Probed(FinishEstablishment(s, id, p))
      BY <1>2, <2>2, FinishEstablishmentGood, FinishEstablishmentProbed
    <2>4. Good(FailAssociation(s, id, FALSE)) /\ Probed(FailAssociation(s, id, FALSE))
      BY <1>2, <2>2, FailAssociationGood, FailAssociationProbed
    <2> QED
      BY <1>0, <2>1, <2>3, <2>4
  <1>12. CASE Expires
    <2>1. Steady(m, m')
      BY <1>1, <1>12, PutsSteady DEF Expires
    <2> QED
      BY <2>1, SteadyProbed
  <1>13. CASE ProbeEnds
    <2>1. PICK id, x : x # "no" /\ m' = [m EXCEPT !.links[id].sus = x]
      <3>1. \E id : \/ m' = [m EXCEPT !.links[id].sus = "heard"]
                    \/ m' = [m EXCEPT !.links[id].sus = "silent"]
        BY <1>13, Zenon DEF ProbeEnds
      <3> QED
        BY <3>1
    <2>2. Steady(m, m')
      BY <1>1, <2>1, LinkFieldSteady
    <2> QED
      BY <2>2, SteadyProbed
  <1>14. CASE ConnectionFails
    <2>1. PICK id, c : m' = [m EXCEPT !.links[id].conn = c]
      BY <1>14, Zenon DEF ConnectionFails
    <2>2. Steady(m, m')
      BY <1>1, <2>1, LinkFieldSteady
    <2> QED
      BY <2>2, SteadyProbed
  <1>15. CASE Tick
    BY <1>15, TickWaiting
  <1>16. CASE UNCHANGED vars
    BY <1>16 DEF vars
  <1> QED
    BY <1>4, <1>5, <1>6, <1>7, <1>8, <1>9, <1>10, <1>11, <1>12, <1>13, <1>14, <1>15, <1>16 DEF Next

LEMMA ClassStays == [Next]_vars => class' = class
  BY DEF Next, vars, CallEnsure, CallAbort, CallRegister, CallUnregister, CallRequestDrop,
         CallNest, CallVerify, CallNetworkChanged, CallCloseAll, Arrives, CarrierArrives,
         CapabilityArrives, HandshakeEnds, Resolves, Expires, ProbeEnds, ConnectionFails,
         CarrierFails, Tick, Call, Env, Fault

\* Whoever waits for a nested handshake waits on a link that still has its callback, and
\* where links are probed each keeps the key through which an election drops its loser.
THEOREM WaitInvHolds == Spec => []WaitInv
  <1> DEFINE Inv == class \in Classes /\ WaitInv
  <1>1. Init => Inv
    <2> SUFFICES ASSUME Init PROVE Inv
      OBVIOUS
    <2>1. class \in Classes
      BY DEF Init
    <2>2. Nesting(m, {}) /\ (class = "probe" => Probed(m))
      BY InitWaiting
    <2> QED
      BY <2>1, <2>2 DEF WaitInv, Probed
  <1>2. TableInv /\ Inv /\ [Next]_vars => Inv'
    <2> SUFFICES ASSUME TableInv, Inv, [Next]_vars PROVE Inv'
      OBVIOUS
    <2>1. class' = class /\ class \in Classes
      BY ClassStays
    <2>2. Nesting(m', {})
      BY NextWaiting DEF WaitInv
    <2>3. class = "probe" => Probed(m')
      BY NextProbed DEF WaitInv, Probed
    <2> QED
      BY <2>1, <2>2, <2>3 DEF WaitInv, Probed
  <1>3. Inv => WaitInv
    OBVIOUS
  <1> QED
    BY <1>1, <1>2, <1>3, TableInvHolds, PTL DEF Spec

\* Nobody who waits for a nested handshake is forgotten: one that is joined, fails, is orphaned by the drop
\* of its carrier's link or is dropped has answered its waiters when the step ends, for any number of links,
\* elections and drops.
THEOREM NoWaiterForgottenHolds == Spec => []NoWaiterForgotten
  <1>1. WaitInv => NoWaiterForgotten
    BY DEF WaitInv, Nesting, NoWaiterForgotten
  <1> QED
    BY <1>1, WaitInvHolds, PTL

\* Where links are only accepted no election misses its loser, so that whoever asked to verify a link waits on
\* one that is being probed or whose drop is due, for any number of links, elections and drops.
THEOREM VerdictsWhereAccepted ==
    Spec => [](class = "probe" => VerdictsAreDue /\ \A id \in m.verify : ~Missed(id))
  <1>1. WaitInv => (class = "probe" => VerdictsAreDue /\ \A id \in m.verify : ~Missed(id))
    <2> SUFFICES ASSUME WaitInv, class = "probe"
                 PROVE  VerdictsAreDue /\ \A id \in m.verify : ~Missed(id)
      OBVIOUS
    <2>1. Verified(m) /\ Keyed(m)
      BY DEF WaitInv
    <2>2. VerdictsAreDue
      BY <2>1 DEF Verified, VerdictsAreDue, Connected
    <2>3. ASSUME NEW id \in m.verify
          PROVE  ~Missed(id)
      <3>1. id \in DOMAIN m.links
        BY <2>1 DEF Verified
      <3>2. m.links[id].key \in DOMAIN m.index /\ m.index[m.links[id].key] = id
        BY <2>1, <3>1 DEF Keyed
      <3> QED
        BY <3>1, <3>2 DEF Missed, FindByDialKey
    <2> QED
      BY <2>2, <2>3
  <1> QED
    BY <1>1, WaitInvHolds, PTL

-----------------------------------------------------------------------------
(* Lasting changes: a Connected link stays as it is.                       *)

Lasting(s, u, c) ==
    /\ Staying(u, c)
    /\ \A id \in DOMAIN s.links : s.links[id].phase = "Connected" =>
         /\ id \in DOMAIN u.links
         /\ u.links[id].phase = "Connected" /\ u.links[id].peer = s.links[id].peer
         /\ u.links[id].conn = s.links[id].conn /\ u.links[id].sus = s.links[id].sus

LEMMA LastingThen ==
    ASSUME NEW c, NEW s, NEW t, NEW u, Lasting(s, t, c), Lasting(t, u, c)
    PROVE  Lasting(s, u, c)
  <1>1. ASSUME NEW id \in DOMAIN s.links, s.links[id].phase = "Connected"
        PROVE  /\ id \in DOMAIN u.links
               /\ u.links[id].phase = "Connected" /\ u.links[id].peer = s.links[id].peer
               /\ u.links[id].conn = s.links[id].conn /\ u.links[id].sus = s.links[id].sus
    BY <1>1 DEF Lasting
  <1> QED
    BY <1>1 DEF Lasting

\* Operations on the dial book and the queues touch no link and no drop.
Still(s, u) ==
    /\ Shape(u)
    /\ u.links = s.links /\ u.pend = s.pend /\ u.next = s.next

LEMMA StillLasting ==
    ASSUME NEW c, NEW s, NEW u, Still(s, u), Staying(s, c)
    PROVE  Lasting(s, u, c)
  BY DEF Still, Lasting, Staying, Direct, Dialed, Fading

LEMMA StillThen ==
    ASSUME NEW s, NEW t, NEW u, Still(s, t), Still(t, u)
    PROVE  Still(s, u)
  BY DEF Still

LEMMA PutsStill ==
    ASSUME NEW s, Shape(s), NEW x
    PROVE  /\ Still(s, s)
           /\ Still(s, [s EXCEPT !.asc = x])
           /\ Still(s, [s EXCEPT !.eps = x])
           /\ Still(s, [s EXCEPT !.backoff = x])
           /\ Still(s, [s EXCEPT !.resolved = x])
           /\ Still(s, [s EXCEPT !.inflight = x])
           /\ Still(s, [s EXCEPT !.resolving = x])
           /\ Still(s, [s EXCEPT !.retry = x])
           /\ Still(s, [s EXCEPT !.adopt = x])
           /\ Still(s, [s EXCEPT !.dials = x])
           /\ Still(s, [s EXCEPT !.pres = x])
           /\ Still(s, [s EXCEPT !.verify = x])
  <1>1. Still(s, s)
    BY DEF Still
  <1>2. Still(s, [s EXCEPT !.asc = x])
    BY DEF Still, Shape
  <1>3. Still(s, [s EXCEPT !.eps = x])
    BY DEF Still, Shape
  <1>4. Still(s, [s EXCEPT !.backoff = x])
    BY DEF Still, Shape
  <1>5. Still(s, [s EXCEPT !.resolved = x])
    BY DEF Still, Shape
  <1>6. Still(s, [s EXCEPT !.verify = x])
    BY DEF Still, Shape
  <1>7. Still(s, [s EXCEPT !.inflight = x])
    BY DEF Still, Shape
  <1>8. Still(s, [s EXCEPT !.resolving = x])
    BY DEF Still, Shape
  <1>9. Still(s, [s EXCEPT !.retry = x])
    BY DEF Still, Shape
  <1>10. Still(s, [s EXCEPT !.adopt = x])
    BY DEF Still, Shape
  <1>11. Still(s, [s EXCEPT !.dials = x])
    BY DEF Still, Shape
  <1>12. Still(s, [s EXCEPT !.pres = x])
    BY DEF Still, Shape
  <1> QED
    BY <1>1, <1>2, <1>3, <1>4, <1>5, <1>6, <1>7, <1>8, <1>9, <1>10, <1>11, <1>12

LEMMA BookStill ==
    ASSUME NEW s, Shape(s), NEW key, NEW keys
    PROVE  /\ Still(s, Answer(s, key))
           /\ Still(s, SetResolution(s))
           /\ Still(s, ForgetResolution(s, key))
           /\ Still(s, AdvanceDialCandidate(s, key))
           /\ Still(s, ResetDialIndex(s, key))
           /\ Still(s, ArmBackoff(s, key))
           /\ Still(s, ClearBackoff(s, keys))
           /\ Still(s, IncConcurrentDials(s))
           /\ Still(s, DecConcurrentDials(s))
           /\ Still(s, RefreshPresence(s, key))
  <1>1. Still(s, Answer(s, key))
    BY PutsStill DEF Answer
  <1>2. Still(s, SetResolution(s)) /\ Still(s, ForgetResolution(s, key))
    BY PutsStill DEF SetResolution, ForgetResolution
  <1>3. Still(s, AdvanceDialCandidate(s, key))
    BY DEF Still, Shape, AdvanceDialCandidate
  <1>4. Still(s, ResetDialIndex(s, key))
    <2>1. Still(s, [s EXCEPT !.eps[key].index = 1])
      BY DEF Still, Shape
    <2> QED
      BY <2>1, PutsStill DEF ResetDialIndex
  <1>5. Still(s, ArmBackoff(s, key)) /\ Still(s, ClearBackoff(s, keys))
    BY PutsStill DEF ArmBackoff, ClearBackoff
  <1>6. Still(s, IncConcurrentDials(s)) /\ Still(s, DecConcurrentDials(s))
    BY PutsStill DEF IncConcurrentDials, DecConcurrentDials
  <1>7. Still(s, RefreshPresence(s, key))
    BY PutsStill DEF RefreshPresence, SetPresence
  <1> QED
    BY <1>1, <1>2, <1>3, <1>4, <1>5, <1>6, <1>7

LEMMA RegisterStill ==
    ASSUME NEW s, Shape(s), NEW key, NEW peer, NEW c
    PROVE  /\ Still(s, RegisterEndpoints(s, key, peer, c))
           /\ Still(s, RegisterEndpoint(s, key, peer, c))
           /\ Still(s, IngestRemoteAddrs(s, key, peer, c))
           /\ Still(s, UnregisterEndpoint(s, key))
           /\ Still(s, PromoteDialWinner(s, key))
  <1>1. ASSUME NEW d
        PROVE  Still(s, RegisterEndpoints(s, key, peer, d))
    BY DEF Still, Shape, RegisterEndpoints
  <1>2. Still(s, UnregisterEndpoint(s, key))
    BY DEF Still, Shape, UnregisterEndpoint
  <1>3. Still(s, PromoteDialWinner(s, key))
    <2> DEFINE won == Active(s, key)
               others == SelectSeq(s.eps[key].cands, LAMBDA a : a # won)
               u == [s EXCEPT !.eps[key].cands = <<won>> \o others, !.eps[key].index = 1]
    <2>1. PromoteDialWinner(s, key) = s \/ PromoteDialWinner(s, key) = u
      BY DEF PromoteDialWinner
    <2> HIDE DEF won, others
    <2>2. Still(s, u)
      BY DEF Still, Shape
    <2> HIDE DEF u
    <2> QED
      BY <2>1, <2>2, PutsStill
  <1> QED
    BY <1>1, <1>2, <1>3 DEF RegisterEndpoint, IngestRemoteAddrs

LEMMA ScheduleDropLinkLasting ==
    ASSUME NEW c, NEW s, Good(s), NEW id \in DOMAIN s.links, Spent(s.links[id]) \/ c = "dial",
           Staying(s, c)
    PROVE  Lasting(s, ScheduleDropLink(s, id), c)
  <1> DEFINE u == [s EXCEPT !.pend = @ \cup {id}]
  <1>1. u.links = s.links /\ u.pend = s.pend \cup {id} /\ u.next = s.next
    BY DEF Good, Shape
  <1>2. id \in 1..(s.next - 1)
    BY DEF Good, LinksInv
  <1>3. ScheduleDropLink(s, id) = u
    BY DEF ScheduleDropLink
  <1> HIDE DEF u
  <1>4. Direct(u) /\ (c = "names" => Dialed(u))
    BY <1>1 DEF Staying, Direct, Dialed
  <1>5. ASSUME c \in {"names", "probe"}
        PROVE  Fading(u)
    BY <1>1, <1>2, <1>5 DEF Staying, Fading
  <1> QED
    BY <1>1, <1>3, <1>4, <1>5 DEF Lasting, Staying

\* A link changes in what a session and its drop do not depend on.
LEMMA LinkPutLasting ==
    ASSUME NEW c, NEW s, Good(s), Staying(s, c), NEW id, NEW l,
           id \in DOMAIN s.links =>
              /\ l.car = FALSE /\ l.via = NoLink /\ l.out = s.links[id].out
              /\ l.conn = s.links[id].conn
              /\ s.links[id].phase \notin {"Handshaking", "Connected"} =>
                    l.phase \notin {"Handshaking", "Connected"}
              /\ s.links[id].phase = "Connected" =>
                    /\ l.phase = "Connected" /\ l.peer = s.links[id].peer
                    /\ l.sus = s.links[id].sus
    PROVE  Lasting(s, [s EXCEPT !.links[id] = l], c)
  <1> DEFINE L == [s.links EXCEPT ![id] = l]
             u == [s EXCEPT !.links = L]
  <1>1. /\ DOMAIN L = DOMAIN s.links
        /\ \A i \in DOMAIN s.links : L[i] = IF i = id THEN l ELSE s.links[i]
    OBVIOUS
  <1>2. [s EXCEPT !.links[id] = l] = u
    OBVIOUS
  <1> HIDE DEF L
  <1>3. u.links = L /\ u.pend = s.pend /\ u.next = s.next
    BY DEF Good, Shape
  <1> HIDE DEF u
  <1>4. Direct(u) /\ (c = "names" => Dialed(u))
    BY <1>1, <1>3 DEF Staying, Direct, Dialed
  <1>5. ASSUME c \in {"names", "probe"}
        PROVE  Fading(u)
    BY <1>1, <1>3, <1>5 DEF Staying, Fading, Spent
  <1>6. Lasting(s, u, c)
    BY <1>1, <1>3, <1>4, <1>5 DEF Lasting, Staying
  <1> QED
    BY <1>2, <1>6

LEMMA LinkFieldLasting ==
    ASSUME NEW c, NEW s, Good(s), Staying(s, c), NEW id, NEW x
    PROVE  /\ Lasting(s, [s EXCEPT !.links[id].cb = x], c)
           /\ Lasting(s, [s EXCEPT !.links[id].ch0 = x], c)
           /\ Lasting(s, [s EXCEPT !.links[id].cap = x], c)
           /\ (id \in DOMAIN s.links => s.links[id].phase # "Connected")
                 => /\ Lasting(s, [s EXCEPT !.links[id].phase = "Backoff"], c)
                    /\ Lasting(s, [s EXCEPT !.links[id].peer = x], c)
  <1> DEFINE l == s.links[id]
  <1>1. ASSUME NEW k,
               id \in DOMAIN s.links =>
                  /\ k.car = FALSE /\ k.via = NoLink /\ k.out = l.out /\ k.conn = l.conn
                  /\ l.phase \notin {"Handshaking", "Connected"} =>
                        k.phase \notin {"Handshaking", "Connected"}
                  /\ l.phase = "Connected" =>
                        k.phase = "Connected" /\ k.peer = l.peer /\ k.sus = l.sus
        PROVE  Lasting(s, [s EXCEPT !.links[id] = k], c)
    BY <1>1, LinkPutLasting
  <1>2. id \in DOMAIN s.links => LinkShape(l) /\ l.car = FALSE /\ l.via = NoLink
    BY DEF Good, LinksInv, Staying, Direct
  <1>3. /\ [s EXCEPT !.links[id].cb = x] = [s EXCEPT !.links[id] = [l EXCEPT !.cb = x]]
        /\ [s EXCEPT !.links[id].ch0 = x] = [s EXCEPT !.links[id] = [l EXCEPT !.ch0 = x]]
        /\ [s EXCEPT !.links[id].cap = x] = [s EXCEPT !.links[id] = [l EXCEPT !.cap = x]]
        /\ [s EXCEPT !.links[id].peer = x] = [s EXCEPT !.links[id] = [l EXCEPT !.peer = x]]
        /\ [s EXCEPT !.links[id].phase = "Backoff"]
              = [s EXCEPT !.links[id] = [l EXCEPT !.phase = "Backoff"]]
    OBVIOUS
  <1>0. s.links[id].phase = l.phase
    OBVIOUS
  <1> HIDE DEF l
  <1>4. Lasting(s, [s EXCEPT !.links[id] = [l EXCEPT !.cb = x]], c)
    BY <1>1, <1>2 DEF LinkShape
  <1>5. Lasting(s, [s EXCEPT !.links[id] = [l EXCEPT !.ch0 = x]], c)
    BY <1>1, <1>2 DEF LinkShape
  <1>6. Lasting(s, [s EXCEPT !.links[id] = [l EXCEPT !.cap = x]], c)
    BY <1>1, <1>2 DEF LinkShape
  <1>7. ASSUME id \in DOMAIN s.links => l.phase # "Connected"
        PROVE  /\ Lasting(s, [s EXCEPT !.links[id] = [l EXCEPT !.phase = "Backoff"]], c)
               /\ Lasting(s, [s EXCEPT !.links[id] = [l EXCEPT !.peer = x]], c)
    <2>1. Lasting(s, [s EXCEPT !.links[id] = [l EXCEPT !.phase = "Backoff"]], c)
      BY <1>1, <1>2, <1>7 DEF LinkShape
    <2>2. Lasting(s, [s EXCEPT !.links[id] = [l EXCEPT !.peer = x]], c)
      BY <1>1, <1>2, <1>7 DEF LinkShape
    <2> QED
      BY <2>1, <2>2
  <1> QED
    BY <1>0, <1>3, <1>4, <1>5, <1>6, <1>7

\* The drop of links leaves the others as they are.
LEMMA DropLinksLeaves ==
    ASSUME NEW s, Good(s), Direct(s), NEW ids
    PROVE  LET u == DropLinks(s, ids)
           IN  /\ DOMAIN u.links = DOMAIN s.links \ ids
               /\ \A i \in DOMAIN u.links : u.links[i] = s.links[i]
               /\ u.pend = s.pend /\ u.next = s.next
  <1> DEFINE gone == ids \cap DOMAIN s.links
             orphan(l) == IF l.via \in gone THEN [l EXCEPT !.conn = "closed"] ELSE l
             t == EraseById(s, gone)
             L == [id \in DOMAIN t.links |-> orphan(t.links[id])]
             nw == t.nestw \ gone
             vf == t.verify \ gone
             u == [t EXCEPT !.links = L, !.nestw = nw, !.verify = vf]
  <1>1. DropLinks(s, ids) = u
    BY DEF DropLinks
  <1>2. /\ t.links = Restrict(s.links, DOMAIN s.links \ gone)
        /\ t.pend = s.pend /\ t.next = s.next
    <2> HIDE DEF gone
    <2> QED
      BY EraseByIdFields
  <1>3. Good(t)
    <2> HIDE DEF gone
    <2> QED
      BY EraseByIdGood
  <1>4. NoLink \notin gone
    BY DEF Good, LinksInv, NoLink
  <1>5. DOMAIN s.links \ gone = DOMAIN s.links \ ids
    OBVIOUS
  <1> HIDE DEF t, gone
  <1>6. DOMAIN t.links = DOMAIN s.links \ gone /\ \A i \in DOMAIN t.links : t.links[i] = s.links[i]
    BY <1>2 DEF Restrict
  <1>7. DOMAIN L = DOMAIN t.links /\ \A i \in DOMAIN L : L[i] = s.links[i]
    BY <1>4, <1>6 DEF Direct
  <1> HIDE DEF L, nw, vf
  <1>8. u.links = L /\ u.pend = s.pend /\ u.next = s.next
    BY <1>2, <1>3 DEF Good, Shape
  <1> HIDE DEF u
  <1> QED
    BY <1>1, <1>5, <1>6, <1>7, <1>8

LEMMA DropLinksStaying ==
    ASSUME NEW c, NEW s, Good(s), Staying(s, c), NEW ids
    PROVE  Staying(DropLinks(s, ids), c)
  <1> DEFINE u == DropLinks(s, ids)
  <1>1. /\ DOMAIN u.links = DOMAIN s.links \ ids
        /\ \A i \in DOMAIN u.links : u.links[i] = s.links[i]
        /\ u.pend = s.pend /\ u.next = s.next
    BY DropLinksLeaves DEF Staying
  <1> HIDE DEF u
  <1>2. Direct(u) /\ (c = "names" => Dialed(u))
    BY <1>1 DEF Staying, Direct, Dialed
  <1>3. ASSUME c \in {"names", "probe"}
        PROVE  Fading(u)
    BY <1>1, <1>3 DEF Staying, Fading
  <1>4. Staying(u, c)
    BY <1>2, <1>3 DEF Staying
  <1> QED
    BY <1>4 DEF u

LEMMA DropLinksLasting ==
    ASSUME NEW c, NEW s, Good(s), Staying(s, c), NEW ids,
           \A id \in ids \cap DOMAIN s.links : s.links[id].phase # "Connected"
    PROVE  Lasting(s, DropLinks(s, ids), c)
  <1> DEFINE u == DropLinks(s, ids)
  <1>1. /\ DOMAIN u.links = DOMAIN s.links \ ids
        /\ \A i \in DOMAIN u.links : u.links[i] = s.links[i]
    BY DropLinksLeaves DEF Staying
  <1>2. Staying(u, c)
    BY DropLinksStaying
  <1> HIDE DEF u
  <1>3. Lasting(s, u, c)
    BY <1>1, <1>2 DEF Lasting
  <1> QED
    BY <1>3 DEF u

LEMMA BindDialKeyLasting ==
    ASSUME NEW c, NEW s, Good(s), Staying(s, c), NEW id \in DOMAIN s.links, NEW key
    PROVE  Lasting(s, BindDialKey(s, id, key), c)
  <1> DEFINE l == [s.links[id] EXCEPT !.key = key]
             L == [s.links EXCEPT ![id] = l]
             K == {k \in DOMAIN s.index : ~(k = s.links[id].key /\ s.index[k] = id)}
             X == Assign(Restrict(s.index, K), key, id)
             u == [s EXCEPT !.links = L, !.index = X]
  <1>1. BindDialKey(s, id, key) = s \/ BindDialKey(s, id, key) = u
    BY DEF BindDialKey
  <1>2. /\ l.car = s.links[id].car /\ l.phase = s.links[id].phase /\ l.via = s.links[id].via
        /\ l.out = s.links[id].out /\ l.conn = s.links[id].conn /\ l.sus = s.links[id].sus
        /\ l.peer = s.links[id].peer
    BY DEF Good, LinksInv, LinkShape
  <1>3. DOMAIN L = DOMAIN s.links /\ \A i \in DOMAIN L : L[i] = IF i = id THEN l ELSE s.links[i]
    OBVIOUS
  <1> HIDE DEF l, L, X
  <1>4. u.links = L /\ u.pend = s.pend /\ u.next = s.next
    BY DEF Good, Shape
  <1> HIDE DEF u
  <1>5. Direct(u) /\ (c = "names" => Dialed(u))
    BY <1>2, <1>3, <1>4 DEF Staying, Direct, Dialed
  <1>6. ASSUME c \in {"names", "probe"}
        PROVE  Fading(u)
    BY <1>2, <1>3, <1>4, <1>6 DEF Staying, Fading, Spent
  <1>7. Lasting(s, u, c)
    BY <1>2, <1>3, <1>4, <1>5, <1>6 DEF Lasting, Staying
  <1>8. Lasting(s, s, c)
    BY DEF Lasting
  <1> QED
    BY <1>1, <1>7, <1>8

LEMMA BindDialAliasLasting ==
    ASSUME NEW c, NEW s, Good(s), Staying(s, c), NEW id, NEW key
    PROVE  Lasting(s, BindDialAlias(s, id, key), c)
  <1> DEFINE other == FindByDialKey(s, key)
             taken == other \notin {NoLink, id}
             ids == IF taken THEN {other} ELSE {}
             t == DropLinks(s, ids)
             v == BindDialKey(t, id, key)
  <1>1. \/ BindDialAlias(s, id, key) = s
        \/ /\ id \in DOMAIN s.links /\ BindDialAlias(s, id, key) = v
           /\ taken => s.links[other].phase # "Connected"
    BY DEF BindDialAlias, Connected
  <1>2. id \notin ids
    OBVIOUS
  <1>3. (taken => s.links[other].phase # "Connected")
           => \A i \in ids \cap DOMAIN s.links : s.links[i].phase # "Connected"
    OBVIOUS
  <1> HIDE DEF ids, taken
  <1>4. Good(t) /\ DOMAIN t.links = DOMAIN s.links \ ids
    BY DropLinksGood
  <1>5. (taken => s.links[other].phase # "Connected") => Lasting(s, t, c)
    BY <1>3, DropLinksLasting
  <1> HIDE DEF t
  <1>6. id \in DOMAIN s.links /\ (taken => s.links[other].phase # "Connected") => Lasting(s, v, c)
    <2> SUFFICES ASSUME id \in DOMAIN s.links, taken => s.links[other].phase # "Connected"
                 PROVE  Lasting(s, v, c)
      OBVIOUS
    <2>1. Lasting(s, t, c) /\ Staying(t, c) /\ id \in DOMAIN t.links
      BY <1>2, <1>4, <1>5 DEF Lasting
    <2>2. Lasting(t, v, c)
      BY <1>4, <2>1, BindDialKeyLasting
    <2> QED
      BY <2>1, <2>2, LastingThen
  <1>7. Lasting(s, s, c)
    BY DEF Lasting
  <1> HIDE DEF v
  <1> QED
    BY <1>1, <1>6, <1>7

LEMMA FinishDialLasting ==
    ASSUME NEW c, NEW s, Good(s), Staying(s, c), NEW key, NEW id \in DOMAIN s.links, NEW ok, NEW aborted,
           ok \/ s.links[id].phase = "Backoff"
    PROVE  /\ Lasting(s, FinishDial(s, key, id, ok, aborted), c)
           /\ FinishDial(s, key, id, ok, aborted).links = s.links
  <1> DEFINE d == DecConcurrentDials(s)
             f == ForgetResolution(d, key)
             b == IF aborted THEN f ELSE ArmBackoff(f, key)
             e == ClearBackoff(d, {key})
             w == PromoteDialWinner(e, key)
             r == RefreshPresence(w, id)
             n == AdvanceDialCandidate(f, key)
             g == ScheduleDropLink(n, id)
             h == [g EXCEPT !.retry = Append(@, key)]
             z == ResetDialIndex(b, key)
             y == ScheduleDropLink(z, id)
  <1>1. \/ FinishDial(s, key, id, ok, aborted) = Answer(r, key)
        \/ FinishDial(s, key, id, ok, aborted) = h /\ ~ok
        \/ FinishDial(s, key, id, ok, aborted) = Answer(y, key) /\ ~ok
    BY DEF FinishDial
  <1>2. ASSUME NEW t, Still(s, t)
        PROVE  Shape(t) /\ \A u : Still(t, u) => Still(s, u)
    BY <1>2, StillThen DEF Still
  <1>3. Still(s, d) /\ Good(d)
    BY BookStill, BookGood DEF Good
  <1> HIDE DEF d
  <1>4. Still(s, f) /\ Still(s, e) /\ Good(f)
    BY <1>2, <1>3, BookStill, BookGood
  <1> HIDE DEF f, e
  <1>5. Still(s, b) /\ Still(s, w) /\ Still(s, n) /\ Good(b) /\ Good(n)
    BY <1>2, <1>4, BookStill, BookGood, RegisterStill
  <1> HIDE DEF b, w, n
  <1>6. Still(s, r) /\ Still(s, z) /\ Good(z)
    BY <1>2, <1>5, BookStill, BookGood
  <1> HIDE DEF r, z
  <1>7. Still(s, Answer(r, key))
    BY <1>2, <1>6, BookStill
  <1>8. ASSUME NEW t, Still(s, t), Good(t), ~ok
        PROVE  LET v == ScheduleDropLink(t, id)
               IN  Lasting(s, v, c) /\ Good(v) /\ v.links = s.links
    <2> DEFINE v == ScheduleDropLink(t, id)
    <2>1. Lasting(s, t, c) /\ t.links = s.links
      BY <1>8, StillLasting DEF Still
    <2>2. id \in DOMAIN t.links /\ Spent(t.links[id]) /\ Staying(t, c)
      BY <1>8, <2>1 DEF Spent, Lasting
    <2>3. Lasting(t, v, c) /\ Good(v)
      BY <1>8, <2>2, ScheduleDropLinkLasting, BookGood
    <2>4. v.links = t.links
      BY <1>8, BookElsewhere DEF Good, Elsewhere
    <2> HIDE DEF v
    <2>5. Lasting(s, v, c)
      BY <2>1, <2>3, LastingThen
    <2> QED
      BY <2>1, <2>3, <2>4, <2>5 DEF v
  <1>9. ASSUME ~ok
        PROVE  /\ Lasting(s, h, c) /\ Lasting(s, Answer(y, key), c)
               /\ h.links = s.links /\ Answer(y, key).links = s.links
    <2>1. Lasting(s, g, c) /\ Good(g) /\ g.links = s.links
      BY <1>5, <1>8, <1>9
    <2>2. Lasting(s, y, c) /\ Good(y) /\ y.links = s.links
      BY <1>6, <1>8, <1>9
    <2> HIDE DEF g, y
    <2>3. Still(g, h) /\ Still(y, Answer(y, key))
      BY <2>1, <2>2, PutsStill, BookStill DEF Good
    <2> HIDE DEF h
    <2>4. Lasting(g, h, c) /\ Lasting(y, Answer(y, key), c)
      BY <2>1, <2>2, <2>3, StillLasting DEF Lasting
    <2>5. Lasting(s, h, c) /\ Lasting(s, Answer(y, key), c)
      BY <2>1, <2>2, <2>4, LastingThen
    <2> QED
      BY <2>1, <2>2, <2>3, <2>5 DEF Still
  <1>10. Lasting(s, Answer(r, key), c) /\ Answer(r, key).links = s.links
    BY <1>7, StillLasting DEF Still
  <1> HIDE DEF h, y
  <1> QED
    BY <1>1, <1>9, <1>10

\* The callback of a handshake that has ended: a dial, or an accepted link.
LEMMA EstablishCbLasting ==
    ASSUME NEW c, NEW s, Good(s), Staying(s, c), NEW id \in DOMAIN s.links, NEW ok, NEW aborted,
           ok \/ s.links[id].phase = "Backoff"
    PROVE  LET u == EstablishCb(s, id, ok, aborted)
           IN  /\ Lasting(s, u, c) /\ DOMAIN u.links = DOMAIN s.links
               /\ \A i \in DOMAIN s.links : u.links[i].phase = s.links[i].phase
  <1> DEFINE k == [s.links[id] EXCEPT !.cb = FALSE]
             t == [s EXCEPT !.links[id].cb = FALSE]
             key == s.links[id].key
             u == EstablishCb(s, id, ok, aborted)
  <1>1. s.links[id].car = FALSE /\ LinkShape(s.links[id])
    BY DEF Staying, Direct, Good, LinksInv
  <1>2. \/ u = s
        \/ u = FinishDial(t, key, id, ok, aborted)
        \/ u = t
        \/ u = ScheduleDropLink(t, id) /\ ~ok
    BY <1>1 DEF EstablishCb
  <1>3. Good(t) /\ Lasting(s, t, c)
    BY LinkFieldGood, LinkFieldLasting
  <1>4. /\ DOMAIN t.links = DOMAIN s.links
        /\ \A i \in DOMAIN s.links : t.links[i].phase = s.links[i].phase
    <2> DEFINE L == [s.links EXCEPT ![id] = k]
               v == [s EXCEPT !.links = L]
    <2>1. k.phase = s.links[id].phase
      BY <1>1 DEF LinkShape
    <2>2. t = v
      OBVIOUS
    <2>3. DOMAIN L = DOMAIN s.links /\ \A i \in DOMAIN s.links : L[i] = IF i = id THEN k ELSE s.links[i]
      OBVIOUS
    <2> HIDE DEF L, k, t
    <2>4. v.links = L
      BY DEF Good, Shape
    <2> HIDE DEF v
    <2> QED
      BY <2>1, <2>2, <2>3, <2>4
  <1> HIDE DEF t, u
  <1>5. Staying(t, c) /\ id \in DOMAIN t.links /\ (ok \/ t.links[id].phase = "Backoff")
    BY <1>3, <1>4 DEF Lasting
  <1>6. LET v == FinishDial(t, key, id, ok, aborted) IN Lasting(s, v, c) /\ v.links = t.links
    <2> DEFINE v == FinishDial(t, key, id, ok, aborted)
    <2>1. Lasting(t, v, c) /\ v.links = t.links
      BY <1>3, <1>5, FinishDialLasting
    <2> HIDE DEF v
    <2>2. Lasting(s, v, c)
      BY <1>3, <2>1, LastingThen
    <2> QED
      BY <2>1, <2>2 DEF v
  <1>7. ~ok => LET v == ScheduleDropLink(t, id) IN Lasting(s, v, c) /\ v.links = t.links
    <2>1. ~ok => Lasting(t, ScheduleDropLink(t, id), c)
      BY <1>3, <1>5, ScheduleDropLinkLasting DEF Spent
    <2>2. ScheduleDropLink(t, id).links = t.links
      BY <1>3, BookElsewhere DEF Good, Elsewhere
    <2> QED
      BY <1>3, <2>1, <2>2, LastingThen
  <1>8. Lasting(s, s, c)
    BY DEF Lasting
  <1>9. /\ Lasting(s, u, c) /\ DOMAIN u.links = DOMAIN s.links
        /\ \A i \in DOMAIN s.links : u.links[i].phase = s.links[i].phase
    BY <1>2, <1>3, <1>4, <1>6, <1>7, <1>8
  <1> QED
    BY <1>9 DEF u

LEMMA FailAssociationLasting ==
    ASSUME NEW c, NEW s, Good(s), Staying(s, c), NEW id \in DOMAIN s.links, NEW aborted,
           s.links[id].phase # "Connected"
    PROVE  LET u == FailAssociation(s, id, aborted)
           IN  /\ Lasting(s, u, c) /\ DOMAIN u.links = DOMAIN s.links
               /\ \A i \in DOMAIN s.links :
                     u.links[i].phase = "Connected" => s.links[i].phase = "Connected"
  <1> DEFINE k == [s.links[id] EXCEPT !.phase = "Backoff"]
             t == [s EXCEPT !.links[id].phase = "Backoff"]
             u == EstablishCb(t, id, FALSE, aborted)
  <1>1. FailAssociation(s, id, aborted) = u
    BY DEF FailAssociation
  <1>2. Good(t) /\ Lasting(s, t, c)
    BY LinkFieldGood, LinkFieldLasting
  <1>3. /\ DOMAIN t.links = DOMAIN s.links /\ t.links[id].phase = "Backoff"
        /\ \A i \in DOMAIN s.links : i # id => t.links[i] = s.links[i]
    <2> DEFINE L == [s.links EXCEPT ![id] = k]
               v == [s EXCEPT !.links = L]
    <2>1. k.phase = "Backoff"
      BY DEF Good, LinksInv, LinkShape
    <2>2. t = v
      OBVIOUS
    <2>3. DOMAIN L = DOMAIN s.links /\ \A i \in DOMAIN s.links : L[i] = IF i = id THEN k ELSE s.links[i]
      OBVIOUS
    <2> HIDE DEF L, k, t
    <2>4. v.links = L
      BY DEF Good, Shape
    <2> HIDE DEF v
    <2> QED
      BY <2>1, <2>2, <2>3, <2>4
  <1> HIDE DEF t
  <1>4. /\ Lasting(t, u, c) /\ DOMAIN u.links = DOMAIN t.links
        /\ \A i \in DOMAIN t.links : u.links[i].phase = t.links[i].phase
    <2>1. Staying(t, c) /\ id \in DOMAIN t.links
      BY <1>2, <1>3 DEF Lasting
    <2>2. ASSUME NEW no
          PROVE  LET v == EstablishCb(t, id, no, aborted)
                 IN  /\ Lasting(t, v, c) /\ DOMAIN v.links = DOMAIN t.links
                     /\ \A i \in DOMAIN t.links : v.links[i].phase = t.links[i].phase
      <3>1. no \/ t.links[id].phase = "Backoff"
        BY <1>3
      <3> HIDE DEF u
      <3> QED
        BY <1>2, <2>1, <3>1, EstablishCbLasting
    <2> QED
      BY <2>2, Zenon
  <1> HIDE DEF u
  <1>5. Lasting(s, u, c)
    BY <1>2, <1>4, LastingThen
  <1>6. \A i \in DOMAIN s.links : u.links[i].phase = "Connected" => s.links[i].phase = "Connected"
    BY <1>3, <1>4
  <1> QED
    BY <1>1, <1>3, <1>4, <1>5, <1>6

LEMMA AdoptAliasLasting ==
    ASSUME NEW c, NEW s, Good(s), Staying(s, c), NEW id
    PROVE  Lasting(s, AdoptAlias(s, id), c)
  <1>1. ASSUME NEW key
        PROVE  Lasting(s, BindDialAlias(s, id, key), c)
    BY BindDialAliasLasting
  <1>2. Lasting(s, s, c)
    BY DEF Lasting
  <1> QED
    BY <1>1, <1>2, Zenon DEF AdoptAlias

LEMMA StartCapabilityExchangeLasting ==
    ASSUME NEW c, NEW s, Good(s), Staying(s, c), NEW id
    PROVE  Lasting(s, StartCapabilityExchange(s, id), c)
  <1>1. Lasting(s, s, c)
    BY DEF Lasting
  <1> QED
    BY <1>1, LinkFieldLasting DEF StartCapabilityExchange

\* A demoted link is spent, and where drops matter it is the one that its key names.
LEMMA DemoteLoserStays ==
    ASSUME NEW c, NEW s, Good(s), Staying(s, c), NEW id \in DOMAIN s.links, NEW u, u = DemoteLoser(s, id),
           c = "probe" => Keyed(s), c # "names"
    PROVE  /\ Staying(u, c) /\ DOMAIN u.links = DOMAIN s.links
           /\ \A i \in DOMAIN s.links : i # id => u.links[i] = s.links[i]
  <1> DEFINE k == [s.links[id] EXCEPT !.phase = "Backoff"]
             L == [s.links EXCEPT ![id] = k]
             t == [s EXCEPT !.links = L]
             key == s.links[id].key
             x == FindByDialKey(t, key)
             v == [t EXCEPT !.pend = @ \cup {x}]
  <1>1. u = t \/ u = v
    <2>1. [s EXCEPT !.links[id].phase = "Backoff"] = t
      OBVIOUS
    <2>2. DemoteLoser(s, id) = ScheduleDropByKey(t, key)
      BY <2>1, Zenon DEF DemoteLoser
    <2> HIDE DEF t, key
    <2> QED
      BY <2>2, Zenon DEF ScheduleDropByKey, ScheduleDropLink
  <1>2. k.out = s.links[id].out /\ k.car = FALSE /\ k.via = NoLink /\ k.phase = "Backoff"
    BY DEF Good, LinksInv, LinkShape, Staying, Direct
  <1>3. DOMAIN L = DOMAIN s.links /\ \A i \in DOMAIN L : L[i] = IF i = id THEN k ELSE s.links[i]
    OBVIOUS
  <1> HIDE DEF L, k
  <1>4. t.links = L /\ t.pend = s.pend /\ t.next = s.next /\ t.index = s.index /\ Shape(t)
    BY DEF Good, Shape
  <1>5. c = "probe" => x = id
    <2>1. c = "probe" => key \in DOMAIN s.index /\ s.index[key] = id
      BY DEF Keyed
    <2> HIDE DEF key, t
    <2> QED
      BY <1>3, <1>4, <2>1 DEF FindByDialKey
  <1> HIDE DEF t, x
  <1>6. v.links = L /\ v.pend = s.pend \cup {x} /\ v.next = s.next
    BY <1>4 DEF Shape
  <1> HIDE DEF v
  <1>7. Direct(t) /\ Direct(v)
    BY <1>2, <1>3, <1>4, <1>6 DEF Staying, Direct
  <1>8. id \in 1..(s.next - 1)
    BY DEF Good, LinksInv
  <1>9. ASSUME c = "probe"
        PROVE  Fading(t) /\ Fading(v)
    BY <1>2, <1>3, <1>4, <1>5, <1>6, <1>8, <1>9 DEF Staying, Fading, Spent
  <1> QED
    BY <1>1, <1>3, <1>4, <1>6, <1>7, <1>9 DEF Staying

\* Of two dialed links the older one stays.
LEMMA DialedElection ==
    ASSUME NEW e, NEW l, NEW local, e.out = TRUE, l.out = TRUE
    PROVE  ~CandidateWins(e, l, local)
  BY DEF CandidateWins

\* A session stays, or another one to its peer has taken its place.
Heirs(s, u, c) ==
    /\ Staying(u, c)
    /\ \A id \in DOMAIN s.links : s.links[id].phase = "Connected" =>
          \E j \in DOMAIN u.links :
             u.links[j].phase = "Connected" /\ u.links[j].peer = s.links[id].peer

LEMMA LastingHeirs ==
    ASSUME NEW c, NEW s, NEW u, Lasting(s, u, c)
    PROVE  Heirs(s, u, c)
  BY DEF Lasting, Heirs

LEMMA HeirsThen ==
    ASSUME NEW c, NEW s, NEW t, NEW u, Heirs(s, t, c), Lasting(t, u, c)
    PROVE  Heirs(s, u, c)
  <1>1. ASSUME NEW id \in DOMAIN s.links, s.links[id].phase = "Connected"
        PROVE  \E j \in DOMAIN u.links :
                  u.links[j].phase = "Connected" /\ u.links[j].peer = s.links[id].peer
    <2>1. PICK j \in DOMAIN t.links :
             t.links[j].phase = "Connected" /\ t.links[j].peer = s.links[id].peer
      BY <1>1 DEF Heirs
    <2> QED
      BY <2>1 DEF Lasting
  <1> QED
    BY <1>1 DEF Heirs, Lasting

\* The election demotes a session only when the new one is Connected, and the link that loses
\* its handshake was no session.
LEMMA OnLinkEstablishedHeirs ==
    ASSUME NEW c, NEW s, Good(s), Staying(s, c), NEW id \in InHandshake(s), NEW p, c = "probe" => Keyed(s)
    PROVE  Heirs(s, OnLinkEstablished(s, id, p), c)
  <1> DEFINE k == [[[s.links[id] EXCEPT !.phase = "Connected"] EXCEPT !.peer = p] EXCEPT !.cap = "none"]
             h == [k EXCEPT !.phase = "Backoff"]
             t == [s EXCEPT !.links[id].phase = "Connected", !.links[id].peer = p,
                            !.links[id].cap = "none"]
             S == ConnectedTo(s, p) \ {id}
             other == FirstOf(s, S)
             up(u) == EstablishCb(StartCapabilityExchange(RefreshPresence(u, id), id), id, TRUE, FALSE)
             b == [t EXCEPT !.links[id].phase = "Backoff"]
             d == ScheduleDropLink(b, id)
             x == <<p, t.links[id].key>>
             lost == [d EXCEPT !.adopt = IF t.links[id].out THEN Append(@, x) ELSE @]
             a == AdoptAlias(t, id)
             v == DemoteLoser(t, other)
             w == AdoptAlias(v, id)
  <1>1. \/ OnLinkEstablished(s, id, p) = up(a)
        \/ OnLinkEstablished(s, id, p) = up(t)
        \/ /\ OnLinkEstablished(s, id, p) = up(w) /\ other # NoLink
           /\ CandidateWins(s.links[other], t.links[id], s.local)
        \/ OnLinkEstablished(s, id, p) = EstablishCb(lost, id, TRUE, FALSE)
    BY DEF OnLinkEstablished
  <1>2. id \in DOMAIN s.links /\ s.links[id].phase = "Handshaking" /\ LinkShape(s.links[id])
    BY DEF InHandshake, Good, LinksInv
  <1>3. t = [s EXCEPT !.links[id] = k] /\ b = [s EXCEPT !.links[id] = h]
    <2>1. t = [s EXCEPT !.links[id] = k]
      BY DEF Good, Shape
    <2> DEFINE L == [s.links EXCEPT ![id] = k]
    <2>2. L[id] = k /\ [L EXCEPT ![id] = h] = [s.links EXCEPT ![id] = h] /\ t = [s EXCEPT !.links = L]
      BY <1>2, <2>1
    <2> HIDE DEF L, t, k
    <2>3. t.links = L
      BY <2>2 DEF Good, Shape
    <2>4. b = [t EXCEPT !.links = [L EXCEPT ![id] = h]]
      BY <2>2, <2>3
    <2> HIDE DEF h
    <2>5. b = [s EXCEPT !.links = [L EXCEPT ![id] = h]]
      BY <2>2, <2>4 DEF Good, Shape
    <2> QED
      BY <2>1, <2>2, <2>5
  <1>4. /\ LinkShape(k) /\ k.key = s.links[id].key /\ k.car = FALSE /\ k.via = NoLink
        /\ k.out = s.links[id].out /\ k.conn = s.links[id].conn
        /\ k.phase = "Connected" /\ k.peer = p
    BY <1>2 DEF LinkShape, Staying, Direct
  <1>5. /\ LinkShape(h) /\ h.key = s.links[id].key /\ h.car = FALSE /\ h.via = NoLink
        /\ h.out = s.links[id].out /\ h.conn = s.links[id].conn /\ h.phase = "Backoff"
    BY <1>2 DEF LinkShape, Staying, Direct
  <1>6. s.links[id].car = FALSE
    BY <1>2 DEF Staying, Direct
  <1> HIDE DEF k, h
  <1>7. Good(t) /\ Lasting(s, t, c) /\ Good(b) /\ Lasting(s, b, c)
    <2>1. Good(t) /\ Good(b)
      <3>1. Good([s EXCEPT !.links[id] = k])
        BY <1>2, <1>4, <1>6, LinkPutGood
      <3>2. Good([s EXCEPT !.links[id] = h])
        BY <1>2, <1>5, <1>6, LinkPutGood
      <3> QED
        BY <1>3, <3>1, <3>2
    <2>2. Lasting(s, [s EXCEPT !.links[id] = k], c)
      BY <1>2, <1>4, LinkPutLasting
    <2>3. Lasting(s, [s EXCEPT !.links[id] = h], c)
      BY <1>2, <1>5, LinkPutLasting
    <2> QED
      BY <1>3, <2>1, <2>2, <2>3
  <1>8. /\ DOMAIN t.links = DOMAIN s.links /\ t.links[id] = k
        /\ \A i \in DOMAIN s.links : i # id => t.links[i] = s.links[i]
        /\ DOMAIN b.links = DOMAIN s.links /\ b.links[id] = h
    <2>1. ASSUME NEW l, NEW u, u = [s EXCEPT !.links[id] = l]
          PROVE  /\ DOMAIN u.links = DOMAIN s.links /\ u.links[id] = l
                 /\ \A i \in DOMAIN s.links : i # id => u.links[i] = s.links[i]
      <3> DEFINE L == [s.links EXCEPT ![id] = l]
      <3>1. DOMAIN L = DOMAIN s.links /\ \A i \in DOMAIN s.links : L[i] = IF i = id THEN l ELSE s.links[i]
        OBVIOUS
      <3>2. u = [s EXCEPT !.links = L]
        BY <2>1
      <3> HIDE DEF L
      <3>3. u.links = L
        BY <3>2 DEF Good, Shape
      <3> QED
        BY <1>2, <3>1, <3>3
    <2> HIDE DEF t, b
    <2> QED
      BY <1>3, <2>1
  <1>9. /\ S \in SUBSET DOMAIN s.links
        /\ \A i \in S : s.links[i].phase = "Connected" /\ s.links[i].peer = p /\ i # id
    BY DEF ConnectedTo, Connected
  <1>10. (S = {} => other = NoLink) /\ (S # {} => other \in S /\ other # NoLink)
    BY <1>9, FirstOfLinks
  <1>11. \/ OnLinkEstablished(s, id, p) = up(a)
         \/ OnLinkEstablished(s, id, p) = up(t)
         \/ /\ OnLinkEstablished(s, id, p) = up(w) /\ other \in S
            /\ CandidateWins(s.links[other], k, s.local)
         \/ OnLinkEstablished(s, id, p) = EstablishCb(lost, id, TRUE, FALSE)
    <2> HIDE DEF t, other, up, S, a, w, lost
    <2> QED
      BY <1>1, <1>8, <1>10
  <1> HIDE DEF t, b, other, up, S
  <1>12. ASSUME NEW u, Good(u), Staying(u, c), id \in DOMAIN u.links
         PROVE  Lasting(u, up(u), c)
    <2> DEFINE r == RefreshPresence(u, id)
               q == StartCapabilityExchange(r, id)
    <2>1. Good(r) /\ Still(u, r)
      BY <1>12, RefreshPresenceGood, BookStill DEF Good
    <2>2. Lasting(u, r, c) /\ id \in DOMAIN r.links
      BY <1>12, <2>1, StillLasting DEF Still
    <2>3. Staying(r, c)
      BY <2>2 DEF Lasting
    <2> HIDE DEF r
    <2>4. Good(q) /\ Lasting(r, q, c) /\ DOMAIN q.links = DOMAIN r.links
      BY <2>1, <2>3, StartCapabilityExchangeGood, StartCapabilityExchangeLasting, StartCapabilityExchangeMild
    <2>5. Staying(q, c)
      BY <2>4 DEF Lasting
    <2> HIDE DEF q
    <2>6. Lasting(q, EstablishCb(q, id, TRUE, FALSE), c)
      BY <2>2, <2>4, <2>5, EstablishCbLasting
    <2>7. Lasting(u, EstablishCb(q, id, TRUE, FALSE), c)
      BY <2>2, <2>4, <2>6, LastingThen
    <2> QED
      BY <2>7 DEF up, q, r
  <1>13. Staying(t, c) /\ Staying(b, c)
    BY <1>7 DEF Lasting
  <1>14. Heirs(s, up(a), c)
    <2>1. Good(a) /\ Lasting(t, a, c) /\ id \in DOMAIN a.links
      BY <1>2, <1>7, <1>8, <1>13, AdoptAliasGood, AdoptAliasMild, AdoptAliasLasting
    <2> HIDE DEF a
    <2>2. Lasting(a, up(a), c)
      BY <1>12, <2>1 DEF Lasting
    <2> QED
      BY <1>7, <2>1, <2>2, LastingThen, LastingHeirs
  <1>15. Heirs(s, up(t), c)
    BY <1>2, <1>7, <1>8, <1>12, <1>13, LastingThen, LastingHeirs
  <1>16. ASSUME other \in S, CandidateWins(s.links[other], k, s.local)
         PROVE  Heirs(s, up(w), c)
    <2>1. other \in DOMAIN s.links /\ other # id /\ s.links[other].peer = p
      BY <1>9, <1>16
    <2>2. c # "names"
      <3>1. c = "names" => s.links[other].out = TRUE /\ k.out = TRUE
        BY <1>2, <1>4, <2>1 DEF Staying, Dialed
      <3> QED
        BY <1>16, <3>1, DialedElection
    <2>3. c = "probe" => Keyed(t)
      <3> SUFFICES ASSUME Keyed(s) PROVE Keyed(t)
        OBVIOUS
      <3>1. /\ t.index = s.index /\ t.next = s.next /\ t.eps = s.eps /\ t.retry = s.retry
            /\ t.adopt = s.adopt /\ t.resolving = s.resolving
        BY <1>3 DEF Good, Shape
      <3>2. \A i \in DOMAIN s.links : t.links[i].key = s.links[i].key /\ t.links[i].out = s.links[i].out
                                      /\ t.links[i].car = s.links[i].car
        BY <1>4, <1>6, <1>8
      <3> QED
        BY <1>8, <3>1, <3>2 DEF Keyed
    <2>4. /\ Staying(v, c) /\ DOMAIN v.links = DOMAIN t.links
          /\ \A i \in DOMAIN t.links : i # other => v.links[i] = t.links[i]
      BY <1>7, <1>8, <1>13, <2>1, <2>2, <2>3, DemoteLoserStays
    <2>5. Good(v)
      BY <1>7, DemoteLoserGood
    <2> HIDE DEF v
    <2>6. Heirs(s, v, c)
      <3>1. ASSUME NEW i \in DOMAIN s.links, s.links[i].phase = "Connected"
            PROVE  \E j \in DOMAIN v.links :
                      v.links[j].phase = "Connected" /\ v.links[j].peer = s.links[i].peer
        <4>1. CASE i = other
          BY <1>2, <1>4, <1>8, <2>1, <2>4, <4>1
        <4>2. CASE i # other
          BY <1>2, <1>8, <2>4, <3>1, <4>2
        <4> QED
          BY <4>1, <4>2
      <3> QED
        BY <2>4, <3>1 DEF Heirs
    <2>7. Good(w) /\ Lasting(v, w, c) /\ id \in DOMAIN w.links
      BY <1>2, <1>8, <2>4, <2>5, AdoptAliasGood, AdoptAliasMild, AdoptAliasLasting
    <2> HIDE DEF w
    <2>8. Lasting(w, up(w), c)
      BY <1>12, <2>7 DEF Lasting
    <2> QED
      BY <2>6, <2>7, <2>8, HeirsThen
  <1>17. Heirs(s, EstablishCb(lost, id, TRUE, FALSE), c)
    <2>1. Good(d) /\ Lasting(b, d, c) /\ d.links = b.links
      <3>1. Lasting(b, d, c)
        BY <1>2, <1>5, <1>7, <1>8, <1>13, ScheduleDropLinkLasting DEF Spent
      <3>2. Good(d) /\ d.links = b.links
        BY <1>7, BookGood, BookElsewhere DEF Good, Elsewhere
      <3> QED
        BY <3>1, <3>2
    <2> HIDE DEF d, x
    <2>2. Good(lost) /\ Still(d, lost)
      <3>1. Good([d EXCEPT !.adopt = Append(@, x)])
        BY <2>1, QueueGood
      <3>2. [d EXCEPT !.adopt = @] = d
        BY <2>1 DEF Good, Shape
      <3>3. Still(d, [d EXCEPT !.adopt = Append(@, x)]) /\ Still(d, d)
        BY <2>1, PutsStill DEF Good
      <3> QED
        BY <2>1, <3>1, <3>2, <3>3
    <2> HIDE DEF lost
    <2>3. Lasting(d, lost, c)
      BY <2>1, <2>2, StillLasting DEF Lasting
    <2>4. Staying(lost, c) /\ id \in DOMAIN lost.links
      BY <1>2, <1>8, <2>1, <2>2, <2>3 DEF Lasting, Still
    <2>5. Lasting(lost, EstablishCb(lost, id, TRUE, FALSE), c)
      BY <2>2, <2>4, EstablishCbLasting
    <2> QED
      BY <1>7, <2>1, <2>3, <2>5, LastingThen, LastingHeirs
  <1> HIDE DEF a, w, lost
  <1> QED
    BY <1>11, <1>14, <1>15, <1>16, <1>17

LEMMA FinishEstablishmentHeirs ==
    ASSUME NEW c, NEW s, Good(s), Staying(s, c), NEW id \in InHandshake(s), NEW p, c = "probe" => Keyed(s)
    PROVE  Heirs(s, FinishEstablishment(s, id, p), c)
  <1> DEFINE k == [s.links[id] EXCEPT !.peer = p]
             t == [s EXCEPT !.links[id].peer = p]
  <1>1. [s EXCEPT !.links[id].peer = p] = [s EXCEPT !.links[id] = k]
    OBVIOUS
  <1>2. /\ id \in DOMAIN s.links
        /\ LinkShape(k) /\ k.key = s.links[id].key /\ k.car = s.links[id].car
        /\ s.links[id].phase = "Handshaking" /\ k.phase = "Handshaking"
    BY DEF Good, LinksInv, LinkShape, InHandshake
  <1>3. \/ FinishEstablishment(s, id, p) = FailAssociation(t, id, FALSE)
        \/ FinishEstablishment(s, id, p) = OnLinkEstablished(s, id, p)
    BY DEF FinishEstablishment
  <1>4. DOMAIN t.links = DOMAIN s.links /\ t.links[id] = k
    BY <1>2 DEF Good, Shape
  <1>5. Lasting(s, t, c)
    BY <1>2, LinkFieldLasting
  <1> HIDE DEF k
  <1>6. Good(t)
    BY <1>1, <1>2, LinkPutGood
  <1> HIDE DEF t
  <1>7. Staying(t, c) /\ id \in DOMAIN t.links /\ t.links[id].phase # "Connected"
    BY <1>2, <1>4, <1>5 DEF Lasting
  <1>8. Lasting(t, FailAssociation(t, id, FALSE), c)
    BY <1>6, <1>7, FailAssociationLasting
  <1>9. Heirs(s, FailAssociation(t, id, FALSE), c)
    BY <1>5, <1>8, LastingThen, LastingHeirs
  <1> QED
    BY <1>3, <1>9, OnLinkEstablishedHeirs

\* The id of a new link is on no list of drops.
LEMMA InsertLasting ==
    ASSUME NEW c, NEW s, Good(s), Staying(s, c), NEW l, l.car = FALSE, l.via = NoLink,
           c = "names" => l.out = TRUE, NEW u, u = Added(s, l)
    PROVE  Lasting(s, u, c)
  <1> DEFINE n == s.next
  <1>1. /\ DOMAIN u.links = DOMAIN s.links \cup {n}
        /\ u.links[n] = l /\ n \notin DOMAIN s.links
        /\ \A i \in DOMAIN s.links : u.links[i] = s.links[i]
    BY InsertFacts
  <1>2. u.pend = s.pend /\ u.next = n + 1
    BY InsertRest
  <1>3. n \in Nat
    BY DEF Good, LinksInv
  <1>4. c \in {"names", "probe"} => \A i \in s.pend : i \in 1..(n - 1) /\ (i \in DOMAIN s.links => Spent(s.links[i]))
    BY DEF Staying, Fading
  <1> HIDE DEF n
  <1>5. Direct(u) /\ (c = "names" => Dialed(u))
    BY <1>1 DEF Staying, Direct, Dialed
  <1>6. ASSUME c \in {"names", "probe"}
        PROVE  Fading(u)
    <2>1. ASSUME NEW i \in u.pend
          PROVE  i \in 1..(u.next - 1) /\ (i \in DOMAIN u.links => Spent(u.links[i]))
      <3>1. i \in 1..(n - 1) /\ (i \in DOMAIN s.links => Spent(s.links[i]))
        BY <1>2, <1>4, <1>6
      <3>2. i \in 1..(u.next - 1) /\ i # n
        BY <1>2, <1>3, <3>1
      <3> QED
        BY <1>1, <3>1, <3>2
    <2> QED
      BY <2>1 DEF Fading
  <1> QED
    BY <1>1, <1>5, <1>6 DEF Lasting, Staying

LEMMA BeginOutboundDialLasting ==
    ASSUME NEW c, NEW s, Good(s), Staying(s, c), NEW key, NEW outcome \in Outcomes
    PROVE  Lasting(s, BeginOutboundDial(s, key, outcome), c)
  <1> DEFINE l == NewLink(key, s.eps[key].peer, TRUE, FALSE, NoLink)
             i == Insert([s EXCEPT !.next = @ + 1], s.next, l)
             dialed == IncConcurrentDials(i)
             r == ResetDialIndex(s, key)
             a == Answer(r, key)
             n == s.next
             v == [s EXCEPT !.resolving = @ \cup {key}]
  <1>1. \/ BeginOutboundDial(s, key, outcome) = a
        \/ BeginOutboundDial(s, key, outcome) = Answer(s, key)
        \/ BeginOutboundDial(s, key, outcome) = v
        \/ BeginOutboundDial(s, key, outcome) = dialed
        \/ BeginOutboundDial(s, key, outcome) = FailAssociation(dialed, n, FALSE)
    BY DEF BeginOutboundDial, Outcomes
  <1>2. /\ LinkShape(l) /\ l.car = FALSE /\ l.via = NoLink /\ l.out = TRUE
        /\ l.phase = "Handshaking"
    BY NewLinkShape DEF NewLink
  <1> HIDE DEF l
  <1>3. Good(i)
    BY <1>2, InsertGood
  <1>4. Lasting(s, i, c) /\ n \in DOMAIN i.links /\ i.links[n] = l
    <2>1. i = Added(s, l)
      BY Zenon DEF Added
    <2>2. ASSUME NEW u, u = Added(s, l)
          PROVE  Lasting(s, u, c) /\ s.next \in DOMAIN u.links /\ u.links[s.next] = l
      <3>1. Lasting(s, u, c)
        BY <1>2, <2>2, InsertLasting
      <3>2. DOMAIN u.links = DOMAIN s.links \cup {s.next} /\ u.links[s.next] = l
        BY <2>2, InsertFacts
      <3> QED
        BY <3>1, <3>2
    <2> HIDE DEF i
    <2> QED
      BY <2>1, <2>2
  <1> HIDE DEF i, n
  <1>5. Good(dialed) /\ Still(i, dialed)
    BY <1>3, BookGood, BookStill DEF Good
  <1> HIDE DEF dialed
  <1>6. Lasting(s, dialed, c) /\ n \in DOMAIN dialed.links /\ dialed.links[n] = l
    <2>1. Lasting(i, dialed, c)
      BY <1>4, <1>5, StillLasting DEF Lasting
    <2> QED
      BY <1>4, <1>5, <2>1, LastingThen DEF Still
  <1>7. Still(s, r) /\ Still(s, Answer(s, key)) /\ Still(s, v)
    BY BookStill, PutsStill DEF Good
  <1> HIDE DEF r, v
  <1>8. Still(s, a)
    <2>1. Shape(r)
      BY <1>7 DEF Still
    <2> QED
      BY <1>7, <2>1, BookStill, StillThen
  <1> HIDE DEF a
  <1>9. Lasting(s, a, c) /\ Lasting(s, Answer(s, key), c) /\ Lasting(s, v, c)
    BY <1>7, <1>8, StillLasting
  <1>10. Lasting(s, FailAssociation(dialed, n, FALSE), c)
    <2>1. Staying(dialed, c) /\ dialed.links[n].phase # "Connected"
      BY <1>2, <1>6 DEF Lasting
    <2>2. Lasting(dialed, FailAssociation(dialed, n, FALSE), c)
      BY <1>5, <1>6, <2>1, FailAssociationLasting
    <2> QED
      BY <1>6, <2>2, LastingThen
  <1> QED
    BY <1>1, <1>6, <1>9, <1>10

LEMMA FailCandidateLasting ==
    ASSUME NEW c, NEW s, Good(s), Staying(s, c), NEW key, NEW outcome \in Outcomes
    PROVE  Lasting(s, FailCandidate(s, key, outcome), c)
  <1> DEFINE n == AdvanceDialCandidate(s, key)
             r == ResetDialIndex(s, key)
             b == ArmBackoff(r, key)
             a == Answer(b, key)
  <1>1. \/ FailCandidate(s, key, outcome) = BeginOutboundDial(n, key, outcome)
        \/ FailCandidate(s, key, outcome) = a
    BY DEF FailCandidate
  <1>2. Good(n) /\ Good(r) /\ Still(s, n) /\ Still(s, r)
    BY BookGood, BookStill DEF Good
  <1> HIDE DEF n, r
  <1>3. Good(b) /\ Still(r, b)
    BY <1>2, BookGood, BookStill DEF Good
  <1> HIDE DEF b
  <1>4. Still(b, a)
    BY <1>3, BookStill DEF Good
  <1> HIDE DEF a
  <1>5. Still(s, a)
    BY <1>2, <1>3, <1>4, StillThen
  <1>6. Lasting(s, n, c) /\ Lasting(s, a, c)
    BY <1>2, <1>5, StillLasting
  <1>7. Lasting(n, BeginOutboundDial(n, key, outcome), c)
    BY <1>2, <1>6, BeginOutboundDialLasting DEF Lasting
  <1> QED
    BY <1>1, <1>6, <1>7, LastingThen

LEMMA OnHostResolvedLasting ==
    ASSUME NEW c, NEW s, Good(s), Staying(s, c), NEW key, NEW ok, NEW outcome \in Outcomes
    PROVE  Lasting(s, OnHostResolved(s, key, ok, outcome), c)
  <1> DEFINE r == IF ok THEN SetResolution(s) ELSE s
             t == [r EXCEPT !.resolving = @ \ {key}]
  <1>1. \/ OnHostResolved(s, key, ok, outcome) = t
        \/ OnHostResolved(s, key, ok, outcome) = FailCandidate(t, key, outcome)
        \/ OnHostResolved(s, key, ok, outcome) = BeginOutboundDial(t, key, outcome)
    BY DEF OnHostResolved
  <1>2. Good(r) /\ Still(s, r)
    BY BookGood, BookStill, PutsStill DEF Good
  <1> HIDE DEF r
  <1>3. Good(t) /\ Still(r, t)
    BY <1>2, PutsGood, PutsStill DEF Good
  <1> HIDE DEF t
  <1>4. Lasting(s, t, c)
    BY <1>2, <1>3, StillThen, StillLasting
  <1>5. Staying(t, c)
    BY <1>4 DEF Lasting
  <1> QED
    BY <1>1, <1>3, <1>4, <1>5, FailCandidateLasting, BeginOutboundDialLasting, LastingThen

LEMMA EnsureAssociationLasting ==
    ASSUME NEW c, NEW s, Good(s), Staying(s, c), NEW key, NEW over, NEW outcome \in Outcomes
    PROVE  Lasting(s, EnsureAssociation(s, key, over, outcome), c)
  <1> DEFINE byPeer == IF key \in DOMAIN s.eps THEN FindByPeerId(s, s.eps[key].peer) ELSE NoLink
             adp == FindAdpLinkForKey(s, key)
             clear == IF adp # NoLink /\ ~Connected(s, adp) THEN DropLinks(s, {adp}) ELSE s
             erased == IF over THEN ClearBackoff(clear, {key}) ELSE clear
             join(t) == [t EXCEPT !.inflight = @ \cup {key}]
             r == ResetDialIndex(erased, key)
             j == join(r)
             y == join(s)
  <1>1. \/ EnsureAssociation(s, key, over, outcome) = s
        \/ EnsureAssociation(s, key, over, outcome) = BindDialAlias(s, byPeer, key)
        \/ EnsureAssociation(s, key, over, outcome) = y
        \/ EnsureAssociation(s, key, over, outcome) = erased
        \/ EnsureAssociation(s, key, over, outcome) = clear
        \/ EnsureAssociation(s, key, over, outcome) = BeginOutboundDial(j, key, outcome)
    BY DEF EnsureAssociation
  <1>2. Good(clear) /\ Lasting(s, clear, c)
    <2>1. Lasting(s, s, c)
      BY DEF Lasting
    <2> HIDE DEF adp
    <2>2. ~Connected(s, adp) => Lasting(s, DropLinks(s, {adp}), c)
      <3>1. ~Connected(s, adp) => \A i \in {adp} \cap DOMAIN s.links : s.links[i].phase # "Connected"
        BY DEF Connected
      <3> QED
        BY <3>1, DropLinksLasting
    <2> QED
      BY <2>1, <2>2, DropLinksGood
  <1> HIDE DEF clear, byPeer
  <1>3. Good(erased) /\ Still(clear, erased)
    BY <1>2, BookGood, BookStill, PutsStill DEF Good
  <1> HIDE DEF erased
  <1>4. Good(r) /\ Still(erased, r)
    BY <1>3, BookGood, BookStill DEF Good
  <1> HIDE DEF r
  <1>5. Still(s, y) /\ Good(j) /\ Still(r, j)
    BY <1>4, PutsGood, PutsStill DEF Good
  <1> HIDE DEF join, j, y
  <1>6. Staying(clear, c) /\ Lasting(s, y, c)
    BY <1>2, <1>5, StillLasting DEF Lasting
  <1>7. Lasting(s, erased, c)
    BY <1>2, <1>3, <1>6, StillLasting, LastingThen
  <1>8. Lasting(s, j, c) /\ Staying(j, c)
    <2>1. Still(erased, j) /\ Staying(erased, c)
      BY <1>4, <1>5, <1>7, StillThen DEF Lasting
    <2>2. Lasting(s, j, c)
      BY <1>7, <2>1, StillLasting, LastingThen
    <2> QED
      BY <2>2 DEF Lasting
  <1>9. Lasting(s, BeginOutboundDial(j, key, outcome), c)
    BY <1>5, <1>8, BeginOutboundDialLasting, LastingThen
  <1>10. Lasting(s, BindDialAlias(s, byPeer, key), c) /\ Lasting(s, s, c)
    BY BindDialAliasLasting DEF Lasting
  <1> QED
    BY <1>1, <1>2, <1>6, <1>7, <1>9, <1>10, Zenon

\* Only a dial is aborted; where an accepted link may have the key, its drop does not matter.
LEMMA AbortInflightDialLasting ==
    ASSUME NEW c \in {"dial", "names"}, NEW s, Good(s), Staying(s, c), NEW key
    PROVE  Lasting(s, AbortInflightDial(s, key), c)
  <1> DEFINE b == ClearBackoff(s, {key})
             a == Answer(b, key)
             q == Without(a.retry, key)
             t == [a EXCEPT !.retry = q]
             l == FindAdpLinkForKey(t, key)
             u == ScheduleDropLink(t, l)
  <1>1. \/ AbortInflightDial(s, key) = t
        \/ /\ l # NoLink
           /\ \/ AbortInflightDial(s, key) = FailAssociation(t, l, TRUE)
                    /\ t.links[l].phase = "Handshaking"
              \/ /\ AbortInflightDial(s, key) = u /\ t.links[l].phase # "Connected"
                 /\ t.links[l].phase = "Handshaking" => ~t.links[l].out
    BY DEF AbortInflightDial, DropStale, Connected
  <1>2. Good(b) /\ Still(s, b)
    BY BookGood, BookStill DEF Good
  <1> HIDE DEF b
  <1>3. Good(a) /\ Still(b, a)
    BY <1>2, BookGood, BookStill DEF Good
  <1> HIDE DEF a
  <1>4. IsSeq(q)
    BY <1>3, WithoutIsSeq DEF Good
  <1> HIDE DEF q
  <1>5. Good(t) /\ Still(a, t)
    BY <1>3, <1>4, QueuePutGood, PutsStill DEF Good
  <1> HIDE DEF t
  <1>6. Still(s, t)
    BY <1>2, <1>3, <1>5, StillThen
  <1>7. Lasting(s, t, c) /\ Staying(t, c) /\ t.links = s.links
    BY <1>6, StillLasting DEF Still, Lasting
  <1>8. l # NoLink => l \in DOMAIN t.links
    BY <1>5, FindAdpLinkForKeyIn
  <1> HIDE DEF l
  <1>9. l # NoLink /\ t.links[l].phase = "Handshaking" => Lasting(s, FailAssociation(t, l, TRUE), c)
    <2> SUFFICES ASSUME l # NoLink, t.links[l].phase = "Handshaking"
                 PROVE  Lasting(s, FailAssociation(t, l, TRUE), c)
      OBVIOUS
    <2>1. ASSUME NEW aborted
          PROVE  Lasting(t, FailAssociation(t, l, aborted), c)
      BY <1>5, <1>7, <1>8, FailAssociationLasting
    <2> QED
      BY <1>7, <2>1, LastingThen
  <1>10. ASSUME l # NoLink, t.links[l].phase # "Connected", t.links[l].phase = "Handshaking" => ~t.links[l].out
         PROVE  Lasting(s, u, c)
    <2>1. l \in DOMAIN t.links /\ (c = "names" => t.links[l].phase # "Handshaking")
      BY <1>7, <1>8, <1>10 DEF Staying, Dialed
    <2>2. Spent(t.links[l]) \/ c = "dial"
      BY <1>7, <1>10, <2>1 DEF Spent
    <2>3. Lasting(t, u, c)
      BY <1>5, <1>7, <2>1, <2>2, ScheduleDropLinkLasting
    <2> QED
      BY <1>7, <2>3, LastingThen
  <1> HIDE DEF u
  <1> QED
    BY <1>1, <1>7, <1>9, <1>10

\* Of some links no more than the connection, unless it is closed, and the probe change.
LEMMA MapLinksHeirs ==
    ASSUME NEW c, NEW s, Good(s), Staying(s, c), NEW L, DOMAIN L = DOMAIN s.links,
           \A i \in DOMAIN L :
              /\ L[i].car = s.links[i].car /\ L[i].via = s.links[i].via /\ L[i].out = s.links[i].out
              /\ L[i].phase = s.links[i].phase /\ L[i].peer = s.links[i].peer
              /\ s.links[i].conn = "closed" => L[i].conn = "closed"
    PROVE  Heirs(s, [s EXCEPT !.links = L], c)
  <1> DEFINE u == [s EXCEPT !.links = L]
  <1>1. u.links = L /\ u.pend = s.pend /\ u.next = s.next
    BY DEF Good, Shape
  <1> HIDE DEF u
  <1>2. Direct(u) /\ (c = "names" => Dialed(u))
    BY <1>1 DEF Staying, Direct, Dialed
  <1>3. ASSUME c \in {"names", "probe"}
        PROVE  Fading(u)
    BY <1>1, <1>3 DEF Staying, Fading, Spent
  <1>4. Heirs(s, u, c)
    BY <1>1, <1>2, <1>3 DEF Heirs, Staying
  <1> QED
    BY <1>4 DEF u

LEMMA LinkPutHeirs ==
    ASSUME NEW c, NEW s, Good(s), Staying(s, c), NEW id, NEW x
    PROVE  /\ Heirs(s, [s EXCEPT !.links[id].sus = x], c)
           /\ (id \in DOMAIN s.links /\ s.links[id].conn = "closed" => x = "closed")
                 => Heirs(s, [s EXCEPT !.links[id].conn = x], c)
  <1> DEFINE l == s.links[id]
             L == [s.links EXCEPT ![id] = [l EXCEPT !.sus = x]]
             M == [s.links EXCEPT ![id] = [l EXCEPT !.conn = x]]
  <1>1. [s EXCEPT !.links[id].sus = x] = [s EXCEPT !.links = L]
    OBVIOUS
  <1>2. [s EXCEPT !.links[id].conn = x] = [s EXCEPT !.links = M]
    OBVIOUS
  <1>3. \A i \in DOMAIN s.links : LinkShape(s.links[i])
    BY DEF Good, LinksInv
  <1>4. /\ DOMAIN L = DOMAIN s.links
        /\ \A i \in DOMAIN L :
              /\ L[i].car = s.links[i].car /\ L[i].via = s.links[i].via /\ L[i].out = s.links[i].out
              /\ L[i].phase = s.links[i].phase /\ L[i].peer = s.links[i].peer
              /\ L[i].conn = s.links[i].conn
    BY <1>3 DEF LinkShape
  <1>5. /\ DOMAIN M = DOMAIN s.links
        /\ \A i \in DOMAIN M :
              /\ M[i].car = s.links[i].car /\ M[i].via = s.links[i].via /\ M[i].out = s.links[i].out
              /\ M[i].phase = s.links[i].phase /\ M[i].peer = s.links[i].peer
              /\ M[i].conn = IF i = id THEN x ELSE s.links[i].conn
    BY <1>3 DEF LinkShape
  <1> HIDE DEF L, M
  <1>6. Heirs(s, [s EXCEPT !.links = L], c)
    BY <1>4, MapLinksHeirs
  <1>7. ASSUME id \in DOMAIN s.links /\ s.links[id].conn = "closed" => x = "closed"
        PROVE  Heirs(s, [s EXCEPT !.links = M], c)
    BY <1>5, <1>7, MapLinksHeirs
  <1> QED
    BY <1>1, <1>2, <1>6, <1>7

LEMMA OnInboundConnectionHeirs ==
    ASSUME NEW c, NEW s, Good(s), Staying(s, c), NEW idle \in DOMAIN s.links \cup {NoLink}, c # "names"
    PROVE  Heirs(s, OnInboundConnection(s, idle), c)
  <1> DEFINE e == [s EXCEPT !.links[idle].conn = "closed"]
             d == ScheduleDropLink(e, idle)
             t == IF AtLinkCapacity(s) /\ idle # NoLink THEN d ELSE s
             l == NewLink(<<"inbound", t.next>>, NoPeer, FALSE, FALSE, NoLink)
             i == Insert([t EXCEPT !.next = @ + 1], t.next, l)
  <1>1. \/ OnInboundConnection(s, idle) = s
        \/ OnInboundConnection(s, idle) = t
        \/ OnInboundConnection(s, idle) = i
    BY DEF OnInboundConnection
  <1>2. Good(e) /\ Heirs(s, e, c)
    BY LinkFieldGood, LinkPutHeirs
  <1>3. idle # NoLink => idle \in DOMAIN e.links /\ e.links[idle].conn = "closed"
    <2> DEFINE k == [s.links[idle] EXCEPT !.conn = "closed"]
               L == [s.links EXCEPT ![idle] = k]
    <2>1. idle # NoLink => idle \in DOMAIN L /\ L[idle] = k /\ k.conn = "closed"
      BY DEF Good, LinksInv, LinkShape
    <2>2. e = [s EXCEPT !.links = L]
      OBVIOUS
    <2> HIDE DEF L, k, e
    <2>3. e.links = L
      BY <2>2 DEF Good, Shape
    <2> QED
      BY <2>1, <2>3
  <1> HIDE DEF e
  <1>4. Good(d)
    BY <1>2, BookGood
  <1>5. idle # NoLink => Heirs(s, d, c)
    <2> SUFFICES ASSUME idle # NoLink PROVE Heirs(s, d, c)
      OBVIOUS
    <2>1. Staying(e, c) /\ Spent(e.links[idle])
      BY <1>2, <1>3 DEF Heirs, Spent
    <2>2. Lasting(e, d, c)
      BY <1>2, <1>3, <2>1, ScheduleDropLinkLasting
    <2> QED
      BY <1>2, <2>2, HeirsThen
  <1>6. Heirs(s, s, c)
    BY DEF Heirs
  <1> HIDE DEF d
  <1>7. Good(t) /\ Heirs(s, t, c) /\ Staying(t, c)
    BY <1>4, <1>5, <1>6 DEF Heirs
  <1> HIDE DEF t
  <1>8. l.car = FALSE /\ l.via = NoLink
    BY DEF NewLink
  <1>9. i = Added(t, l)
    BY Zenon DEF Added
  <1> HIDE DEF l, i
  <1>10. ASSUME NEW u, u = Added(t, l)
         PROVE  Heirs(s, u, c)
    <2>1. Lasting(t, u, c)
      BY <1>7, <1>8, <1>10, InsertLasting
    <2> QED
      BY <1>7, <2>1, HeirsThen
  <1> QED
    BY <1>1, <1>6, <1>7, <1>9, <1>10

LEMMA RequestDropLinkHeirs ==
    ASSUME NEW s, Good(s), Staying(s, "dial"), NEW key
    PROVE  Heirs(s, RequestDropLink(s, key), "dial")
  <1>1. ASSUME NEW x
        PROVE  Heirs(s, [s EXCEPT !.pend = x], "dial")
    <2> DEFINE u == [s EXCEPT !.pend = x]
    <2>1. u.links = s.links
      BY DEF Good, Shape
    <2> HIDE DEF u
    <2>2. Heirs(s, u, "dial")
      BY <2>1 DEF Heirs, Staying, Direct
    <2> QED
      BY <2>2 DEF u
  <1> QED
    BY <1>1, Zenon DEF RequestDropLink

LEMMA OnNetworkChangedHeirs ==
    ASSUME NEW c, NEW s, Good(s), Staying(s, c)
    PROVE  Heirs(s, OnNetworkChanged(s), c)
  <1> DEFINE probe(l) == IF l.phase = "Connected" /\ ~l.car THEN [l EXCEPT !.sus = "asked"] ELSE l
             t == [s EXCEPT !.backoff = {}]
             L == [id \in DOMAIN s.links |-> probe(s.links[id])]
  <1>1. OnNetworkChanged(s) = [s EXCEPT !.backoff = {}, !.links = L]
    BY DEF OnNetworkChanged
  <1>2. Good(t) /\ Still(s, t)
    BY PutsGood, PutsStill DEF Good
  <1>3. /\ DOMAIN L = DOMAIN s.links
        /\ \A i \in DOMAIN L :
              /\ L[i].car = s.links[i].car /\ L[i].via = s.links[i].via /\ L[i].out = s.links[i].out
              /\ L[i].phase = s.links[i].phase /\ L[i].peer = s.links[i].peer
              /\ L[i].conn = s.links[i].conn
    BY DEF Good, LinksInv, LinkShape
  <1> HIDE DEF L
  <1>4. t.links = s.links /\ [s EXCEPT !.backoff = {}, !.links = L] = [t EXCEPT !.links = L]
    BY DEF Good, Shape
  <1> HIDE DEF t
  <1>5. Staying(t, c)
    BY <1>2, StillLasting DEF Lasting
  <1>6. Heirs(t, [t EXCEPT !.links = L], c)
    BY <1>2, <1>3, <1>4, <1>5, MapLinksHeirs
  <1>7. Heirs(s, [t EXCEPT !.links = L], c)
    BY <1>4, <1>6 DEF Heirs
  <1> QED
    BY <1>1, <1>4, <1>7

LEMMA VerifyLinkHeirs ==
    ASSUME NEW c, NEW s, Good(s), Staying(s, c), NEW key
    PROVE  Heirs(s, VerifyLink(s, key), c)
  <1> DEFINE l == ResolveConnectedLink(s, key)
             x == IF s.links[l].sus = "no" THEN "asked" ELSE s.links[l].sus
             v == s.verify \cup {l}
             t == [s EXCEPT !.verify = v]
             u == [t EXCEPT !.links[l].sus = x]
  <1>1. \/ VerifyLink(s, key) = s
        \/ VerifyLink(s, key) = [s EXCEPT !.verify = v, !.links[l].sus = x]
    BY DEF VerifyLink
  <1> HIDE DEF l, v, x
  <1>2. Good(t) /\ Still(s, t)
    BY PutsGood, PutsStill DEF Good
  <1>3. [s EXCEPT !.verify = v, !.links[l].sus = x] = u
    OBVIOUS
  <1> HIDE DEF t
  <1>4. Staying(t, c) /\ t.links = s.links
    BY <1>2, StillLasting DEF Lasting, Still
  <1>5. Heirs(t, u, c)
    BY <1>2, <1>4, LinkPutHeirs
  <1> HIDE DEF u
  <1>6. Heirs(s, u, c) /\ Heirs(s, s, c)
    BY <1>4, <1>5 DEF Heirs
  <1> QED
    BY <1>1, <1>3, <1>6

-----------------------------------------------------------------------------
(* Tick spares a healthy session.                                          *)

\* A session that is up and has not failed a probe.
Fit(s, id) ==
    /\ id \in DOMAIN s.links
    /\ s.links[id].phase = "Connected" /\ s.links[id].conn = "up" /\ s.links[id].sus # "silent"

LEMMA TickDropsStays ==
    ASSUME NEW c, NEW s, Good(s), Staying(s, c)
    PROVE  /\ Staying(TickDrops(s), c)
           /\ \A id : Fit(s, id) /\ id \notin s.pend =>
                 Fit(TickDrops(s), id) /\ TickDrops(s).links[id].peer = s.links[id].peer
  <1> DEFINE t == [s EXCEPT !.pend = {}]
             u == DropLinks(t, s.pend)
  <1>1. TickDrops(s) = u
    BY DEF TickDrops
  <1>2. Good(t) /\ t.links = s.links /\ t.pend = {}
    BY PutsGood, ZenonT(60) DEF Good, Shape
  <1> HIDE DEF t
  <1>3. Staying(t, c)
    BY <1>2 DEF Staying, Direct, Dialed, Fading
  <1>4. Staying(u, c)
    BY <1>2, <1>3, DropLinksStaying
  <1>5. DOMAIN u.links = DOMAIN t.links \ s.pend /\ \A i \in DOMAIN u.links : u.links[i] = t.links[i]
    BY <1>2, <1>3, DropLinksLeaves DEF Staying
  <1> HIDE DEF u
  <1>6. ASSUME NEW id, Fit(s, id), id \notin s.pend
        PROVE  Fit(u, id) /\ u.links[id].peer = s.links[id].peer
    BY <1>2, <1>5, <1>6 DEF Fit
  <1> QED
    BY <1>1, <1>4, <1>6

LEMMA CloseAllLinksStays ==
    ASSUME NEW c, NEW s, Good(s), Staying(s, c)
    PROVE  Staying(CloseAllLinks(s), c) /\ DOMAIN CloseAllLinks(s).links = {}
  <1> DEFINE t == [s EXCEPT !.pend = {}]
             u == DropLinks(t, DOMAIN s.links)
  <1>1. CloseAllLinks(s) = u
    BY DEF CloseAllLinks
  <1>2. Good(t) /\ t.links = s.links /\ t.pend = {}
    BY PutsGood, ZenonT(60) DEF Good, Shape
  <1> HIDE DEF t
  <1>3. Staying(t, c)
    BY <1>2 DEF Staying, Direct, Dialed, Fading
  <1>4. Staying(u, c)
    BY <1>2, <1>3, DropLinksStaying
  <1>5. DOMAIN u.links = DOMAIN t.links \ DOMAIN s.links
    BY <1>2, <1>3, DropLinksLeaves DEF Staying
  <1> HIDE DEF u
  <1> QED
    BY <1>1, <1>2, <1>4, <1>5

LEMMA TickEvictsStays ==
    ASSUME NEW c, NEW s, Good(s), Staying(s, c)
    PROVE  /\ Staying(TickEvicts(s), c)
           /\ \A id : Fit(s, id) =>
                 LET u == TickEvicts(s)
                 IN  /\ id \in DOMAIN u.links
                     /\ u.links[id].phase = "Connected" /\ u.links[id].peer = s.links[id].peer
  <1> DEFINE nested(l) == \/ l.conn = "closed" /\ l.phase # "Handshaking"
                          \/ l.conn = "dead" /\ l.phase = "Connected"
             asked(l) == ~l.car /\ l.phase = "Connected" /\ l.conn # "closed"
             adp(l) == \/ asked(l) /\ l.sus = "silent"
                       \/ l.phase = "Connected" /\ l.conn \in {"closed", "dead"}
                       \/ l.conn = "unreach"
             heard == {id \in DOMAIN s.links : asked(s.links[id]) /\ s.links[id].sus = "heard"}
             evict == {id \in DOMAIN s.links :
                         IF s.links[id].car THEN nested(s.links[id]) ELSE adp(s.links[id])}
             L == [id \in DOMAIN s.links |->
                     IF id \in heard THEN [s.links[id] EXCEPT !.sus = "no"] ELSE s.links[id]]
             v == s.verify \ heard
             u == [s EXCEPT !.links = L]
             w == [u EXCEPT !.verify = v]
             z == DropLinks(w, evict)
  <1>1. TickEvicts(s) = DropLinks([s EXCEPT !.links = L, !.verify = v], evict)
    BY Zenon DEF TickEvicts
  <1>2. \A id : Fit(s, id) => id \notin evict
    BY DEF Fit, Staying, Direct
  <1> HIDE DEF heard, evict
  <1>3. /\ DOMAIN L = DOMAIN s.links
        /\ \A i \in DOMAIN L :
              /\ LinkShape(L[i]) /\ L[i].key = s.links[i].key /\ L[i].car = s.links[i].car
              /\ L[i].via = s.links[i].via /\ L[i].out = s.links[i].out /\ L[i].conn = s.links[i].conn
              /\ L[i].peer = s.links[i].peer /\ L[i].phase = s.links[i].phase
    BY DEF Good, LinksInv, LinkShape
  <1> HIDE DEF L, v
  <1>4. Good(u) /\ Heirs(s, u, c) /\ u.links = L
    <2>1. u.links = L
      BY DEF Good, Shape
    <2> QED
      BY <1>3, <2>1, MapLinksGood, MapLinksHeirs
  <1>5. [s EXCEPT !.links = L, !.verify = v] = w
    OBVIOUS
  <1> HIDE DEF u
  <1>6. Good(w) /\ Still(u, w)
    BY <1>4, PutsGood, PutsStill DEF Good
  <1>7. TickEvicts(s) = z
    BY <1>1, <1>5, Zenon
  <1> HIDE DEF w
  <1>8. Staying(w, c) /\ w.links = L
    BY <1>4, <1>6, StillLasting DEF Lasting, Heirs, Still
  <1>9. Staying(z, c)
    BY <1>6, <1>8, DropLinksStaying
  <1>10. DOMAIN z.links = DOMAIN w.links \ evict /\ \A i \in DOMAIN z.links : z.links[i] = w.links[i]
    BY <1>6, <1>8, DropLinksLeaves DEF Staying
  <1> HIDE DEF z
  <1>11. ASSUME NEW id, Fit(s, id)
         PROVE  /\ id \in DOMAIN z.links
                /\ z.links[id].phase = "Connected" /\ z.links[id].peer = s.links[id].peer
    BY <1>2, <1>3, <1>8, <1>10, <1>11 DEF Fit
  <1> QED
    BY <1>7, <1>9, <1>11

LEMMA TickRetriesLasting ==
    ASSUME NEW c, NEW s, Good(s), Staying(s, c), NEW outcome \in Outcomes
    PROVE  Lasting(s, TickRetries(s, outcome), c)
  <1> DEFINE N == Len(s.retry)
             base == [s EXCEPT !.retry = <<>>]
  <1>1. N \in Nat
    BY DEF Good, IsSeq
  <1>2. PICK f : /\ TickRetries(s, outcome) = f[N]
                 /\ f[0] = base
                 /\ \A n \in 1..N : f[n] = Redialed(f[n - 1], s.retry[n], outcome)
    BY <1>1, TickRetriesRuns, ZenonT(60)
  <1> DEFINE V == {n \in 0..N : Good(f[n]) /\ Lasting(s, f[n], c)}
  <1>3. Good(base) /\ Still(s, base)
    BY QueueGood, PutsStill DEF Good
  <1> HIDE DEF N, base
  <1>4. 0 \in V
    <2>1. Lasting(s, base, c)
      BY <1>3, StillLasting
    <2> QED
      BY <1>1, <1>2, <1>3, <2>1
  <1>5. ASSUME NEW n \in 1..N, n - 1 \in V
        PROVE  n \in V
    <2>1. /\ n \in 0..N /\ Good(f[n - 1]) /\ Lasting(s, f[n - 1], c)
          /\ f[n] = Redialed(f[n - 1], s.retry[n], outcome)
      BY <1>1, <1>2, <1>5
    <2>2. Good(f[n])
      BY <2>1, BeginOutboundDialGood DEF Redialed
    <2>3. Staying(f[n - 1], c)
      BY <2>1 DEF Lasting
    <2>4. Lasting(s, f[n], c)
      BY <2>1, <2>3, BeginOutboundDialLasting, LastingThen DEF Redialed
    <2> QED
      BY <2>1, <2>2, <2>4
  <1>6. N \in V
    <2> HIDE DEF V
    <2> QED
      BY <1>1, <1>4, <1>5, Rounds
  <1> QED
    BY <1>2, <1>6

LEMMA TickAdoptsLasting ==
    ASSUME NEW c, NEW s, Good(s), Staying(s, c)
    PROVE  Lasting(s, TickAdopts(s), c)
  <1> DEFINE N == Len(s.adopt)
             base == [s EXCEPT !.adopt = <<>>]
             link(t, n) == FirstOf(t, ConnectedTo(t, s.adopt[n][1]))
  <1>1. N \in Nat
    BY DEF Good, IsSeq
  <1>2. PICK f : /\ TickAdopts(s) = f[N]
                 /\ f[0] = base
                 /\ \A n \in 1..N : f[n] = BindDialAlias(f[n - 1], link(f[n - 1], n), s.adopt[n][2])
    BY <1>1, TickAdoptsRuns
  <1> DEFINE V == {n \in 0..N : Good(f[n]) /\ Lasting(s, f[n], c)}
  <1>3. Good(base) /\ Still(s, base)
    BY QueueGood, PutsStill DEF Good
  <1> HIDE DEF N, base, link
  <1>4. 0 \in V
    <2>1. Lasting(s, base, c)
      BY <1>3, StillLasting
    <2> QED
      BY <1>1, <1>2, <1>3, <2>1
  <1>5. ASSUME NEW n \in 1..N, n - 1 \in V
        PROVE  n \in V
    <2>1. /\ n \in 0..N /\ Good(f[n - 1]) /\ Lasting(s, f[n - 1], c)
          /\ f[n] = BindDialAlias(f[n - 1], link(f[n - 1], n), s.adopt[n][2])
      BY <1>1, <1>2, <1>5
    <2>2. Staying(f[n - 1], c)
      BY <2>1 DEF Lasting
    <2>3. Good(f[n]) /\ Lasting(f[n - 1], f[n], c)
      BY <2>1, <2>2, BindDialAliasGood, BindDialAliasLasting
    <2>4. Lasting(s, f[n], c)
      BY <2>1, <2>3, LastingThen
    <2> QED
      BY <2>1, <2>3, <2>4
  <1>6. N \in V
    <2> HIDE DEF V
    <2> QED
      BY <1>1, <1>4, <1>5, Rounds
  <1> QED
    BY <1>2, <1>6

\* The same link may fail twice: it has left its handshake by then, but is no session.
LEMMA TickHandshakesLasting ==
    ASSUME NEW c, NEW s, Good(s), Staying(s, c), NEW ids \in Seq(InHandshake(s))
    PROVE  Lasting(s, TickHandshakes(s, ids), c)
  <1> DEFINE N == Len(ids)
             K == {i \in DOMAIN s.links : s.links[i].phase # "Connected"}
  <1>1. N \in Nat /\ \A n \in 1..N : ids[n] \in K
    BY DEF InHandshake
  <1>2. PICK f : /\ TickHandshakes(s, ids) = f[N]
                 /\ f[0] = s
                 /\ \A n \in 1..N : f[n] = Failed(f[n - 1], ids[n])
    BY <1>1, TickHandshakesRuns
  <1> DEFINE V == {n \in 0..N : /\ Good(f[n]) /\ Lasting(s, f[n], c)
                                /\ \A i \in K : i \in DOMAIN f[n].links /\ f[n].links[i].phase # "Connected"}
  <1> HIDE DEF N
  <1>3. 0 \in V
    <2>1. Lasting(s, s, c)
      BY DEF Lasting
    <2> QED
      BY <1>1, <1>2, <2>1
  <1> HIDE DEF K
  <1>4. ASSUME NEW n \in 1..N, n - 1 \in V
        PROVE  n \in V
    <2> DEFINE g == f[n - 1]
               i == ids[n]
    <2>1. /\ n \in 0..N /\ Good(g) /\ Lasting(s, g, c)
          /\ \A k \in K : k \in DOMAIN g.links /\ g.links[k].phase # "Connected"
          /\ f[n] = Failed(g, i) /\ i \in K
      BY <1>1, <1>2, <1>4
    <2> HIDE DEF g, i
    <2>2. Staying(g, c) /\ i \in DOMAIN g.links /\ g.links[i].phase # "Connected"
      BY <2>1 DEF Lasting
    <2>3. Good(f[n])
      BY <1>1, <1>2, <1>4, <2>1, FailedGood
    <2>4. ASSUME NEW aborted
          PROVE  LET u == FailAssociation(g, i, aborted)
                 IN  /\ Lasting(g, u, c) /\ DOMAIN u.links = DOMAIN g.links
                     /\ \A k \in DOMAIN g.links :
                           u.links[k].phase = "Connected" => g.links[k].phase = "Connected"
      BY <2>1, <2>2, FailAssociationLasting
    <2>5. /\ Lasting(g, f[n], c) /\ DOMAIN f[n].links = DOMAIN g.links
          /\ \A k \in DOMAIN g.links : f[n].links[k].phase = "Connected" => g.links[k].phase = "Connected"
      <3>1. f[n] = FailAssociation(g, i, FALSE)
        BY <2>1 DEF Failed
      <3> QED
        BY <2>4, <3>1, Zenon
    <2>6. Lasting(s, f[n], c)
      BY <2>1, <2>5, LastingThen
    <2> QED
      BY <2>1, <2>3, <2>5, <2>6
  <1>5. N \in V
    <2> HIDE DEF V
    <2> QED
      BY <1>1, <1>3, <1>4, Rounds
  <1> QED
    BY <1>2, <1>5

-----------------------------------------------------------------------------
(* A healthy session stays.                                                *)

\* Of the links to one peer that are fit and whose drop is not due one is left, unless none is.
Kept(s, u, c) ==
    /\ Staying(u, c)
    /\ \/ DOMAIN u.links = {}
       \/ \A id : Fit(s, id) /\ id \notin s.pend =>
             \E j \in DOMAIN u.links :
                u.links[j].phase = "Connected" /\ u.links[j].peer = s.links[id].peer

LEMMA HeirsKept ==
    ASSUME NEW c, NEW s, NEW u, Heirs(s, u, c)
    PROVE  Kept(s, u, c)
  BY DEF Heirs, Kept, Fit

LEMMA WalksStaying ==
    ASSUME TableInv, NEW c, Staying(m, c), NEW s \in Walks
    PROVE  Good(s) /\ s.links = m.links /\ s.pend = m.pend /\ Staying(s, c)
  <1>1. PICK x : s = [m EXCEPT !.asc = x]
    BY DEF Walks
  <1>2. Good(m) /\ Good(s)
    BY WalksGood DEF TableInv
  <1>3. Still(m, s)
    BY <1>1, <1>2, PutsStill DEF Good
  <1>4. Lasting(m, s, c)
    BY <1>3, StillLasting
  <1> QED
    BY <1>2, <1>3, <1>4 DEF Still, Lasting

LEMMA LeavesStaying ==
    ASSUME NEW u, Good(u), Leaves(u), NEW c, Staying(u, c)
    PROVE  Staying(m', c) /\ m'.links = u.links
  <1> DEFINE t == [u EXCEPT !.asc = TRUE]
  <1>1. Still(u, t)
    BY PutsStill DEF Good
  <1>2. m' = t
    BY Zenon DEF Leaves
  <1> HIDE DEF t
  <1>3. Lasting(u, t, c) /\ t.links = u.links
    BY <1>1, StillLasting DEF Still
  <1>4. Staying(t, c)
    BY <1>3 DEF Lasting
  <1> QED
    BY <1>2, <1>3, <1>4

LEMMA LeavesKept ==
    ASSUME NEW u, Good(u), Leaves(u), NEW c, NEW s, s.links = m.links, Heirs(s, u, c)
    PROVE  Kept(m, m', c)
  <1>1. Staying(u, c)
    BY DEF Heirs
  <1>2. Staying(m', c) /\ m'.links = u.links
    BY <1>1, LeavesStaying
  <1>3. Heirs(m, m', c)
    BY <1>2 DEF Heirs
  <1> QED
    BY <1>3, HeirsKept

LEMMA EmptyStaying ==
    ASSUME NEW local, NEW c, NEW d, NEW cands
    PROVE  Staying(Empty(local, d, cands), c)
  <1> DEFINE s == Empty(local, d, cands)
  <1>1. s.links = <<>> /\ s.pend = {}
    BY DEF Empty
  <1> HIDE DEF s
  <1>2. DOMAIN s.links = {}
    BY <1>1
  <1>3. Staying(s, c)
    BY <1>1, <1>2 DEF Staying, Direct, Dialed, Fading
  <1> QED
    BY <1>3 DEF s

LEMMA AcceptedStaying ==
    ASSUME NEW c, c # "names", NEW s, Good(s), Staying(s, c), NEW p, Probed(s)
    PROVE  Staying(Accepted(s, p), c)
  <1> DEFINE l == NewLink(<<"inbound", s.next>>, NoPeer, FALSE, FALSE, NoLink)
             i == Insert([s EXCEPT !.next = @ + 1], s.next, l)
             u == OnInboundConnection(s, NoLink)
             n == s.next
  <1>1. u = s \/ u = i
    BY DEF OnInboundConnection
  <1>2. Good(u) /\ Probed(u) /\ Heirs(s, u, c)
    BY OnInboundConnectionGood, OnInboundConnectionProbed, OnInboundConnectionHeirs
  <1>3. n \notin DOMAIN s.links
    BY DEF Good, LinksInv
  <1>4. l.phase = "Handshaking" /\ i = Added(s, l)
    BY Zenon DEF NewLink, Added
  <1>5. ASSUME NEW v, v = Added(s, l)
        PROVE  v.links[n] = l
    <2> HIDE DEF l
    <2> QED
      BY <1>5, InsertFacts
  <1>6. \/ Accepted(s, p) = FinishEstablishment(u, n, p) /\ n \in DOMAIN u.links
        \/ Accepted(s, p) = u
    BY DEF Accepted
  <1> HIDE DEF u, i, n, l
  <1>7. n \in DOMAIN u.links => n \in InHandshake(u)
    BY <1>1, <1>3, <1>4, <1>5 DEF InHandshake
  <1>8. Staying(u, c) /\ Keyed(u)
    BY <1>2 DEF Heirs, Probed
  <1>9. n \in DOMAIN u.links => Heirs(u, FinishEstablishment(u, n, p), c)
    BY <1>2, <1>7, <1>8, FinishEstablishmentHeirs
  <1> QED
    BY <1>6, <1>8, <1>9 DEF Heirs

LEMMA InitStaying == Init => StayInv
  <1> SUFFICES ASSUME Init, class # "nested"
               PROVE  Staying(m, class)
    BY DEF StayInv
  <1>1. PICK local \in Locals, cands \in Candidates(class) :
           LET s == Empty(local, class, cands)
           IN  m = CASE class = "nested" -> Accepted(s, Relay)
                     [] class = "probe"  -> Accepted(s, Far)
                     [] OTHER -> s
    BY DEF Init
  <1> DEFINE s == Empty(local, class, cands)
  <1>2. m = s \/ (m = Accepted(s, Far) /\ class = "probe")
    BY <1>1
  <1>3. Good(s) /\ Staying(s, class) /\ (class = "probe" => Probed(s))
    BY EmptyGood, EmptyStaying, EmptyWaiting
  <1> HIDE DEF s
  <1>4. class = "probe" => Staying(Accepted(s, Far), class)
    BY <1>3, AcceptedStaying
  <1> QED
    BY <1>2, <1>3, <1>4

\* What Tick drops at its start is no session or was asked for, and it evicts no link that
\* is up and has not failed its probe.
LEMMA TickKept ==
    ASSUME TableInv, NEW c, Staying(m, c), Tick
    PROVE  Kept(m, m', c)
  <1>0. PICK s \in Walks, o \in Outcomes : \E w, ids :
              /\ Good(w) /\ w = TickAdopts(TickRetries(TickDrops(s), o))
              /\ ids \in Seq(InHandshake(w))
              /\ Good(TickHandshakes(w, ids)) /\ Good(TickEvicts(TickHandshakes(w, ids)))
              /\ Leaves(TickEvicts(TickHandshakes(w, ids)))
    BY TickRounds
  <1>1. PICK w, ids :
              /\ Good(w) /\ w = TickAdopts(TickRetries(TickDrops(s), o))
              /\ ids \in Seq(InHandshake(w))
              /\ Good(TickHandshakes(w, ids)) /\ Good(TickEvicts(TickHandshakes(w, ids)))
              /\ Leaves(TickEvicts(TickHandshakes(w, ids)))
    BY <1>0
  <1> DEFINE a == TickDrops(s)
             b == TickRetries(a, o)
             d == TickHandshakes(w, ids)
             e == TickEvicts(d)
  <1>2. Good(s) /\ s.links = m.links /\ s.pend = m.pend /\ Staying(s, c)
    BY WalksStaying
  <1>3. /\ Good(a) /\ Staying(a, c)
        /\ \A id : Fit(s, id) /\ id \notin s.pend => Fit(a, id) /\ a.links[id].peer = s.links[id].peer
    BY <1>2, DropsGood, TickDropsStays
  <1>4. w = TickAdopts(b)
    BY <1>1
  <1> HIDE DEF a
  <1>5. Good(b) /\ Lasting(a, b, c)
    BY <1>3, TickRetriesGood, TickRetriesLasting
  <1> HIDE DEF b
  <1>6. Staying(b, c)
    BY <1>5 DEF Lasting
  <1>7. Lasting(b, w, c)
    BY <1>4, <1>5, <1>6, TickAdoptsLasting
  <1>8. Staying(w, c)
    BY <1>7 DEF Lasting
  <1>9. Good(d) /\ Good(e) /\ Leaves(e)
    BY <1>1
  <1>10. Lasting(w, d, c)
    BY <1>1, <1>8, TickHandshakesLasting
  <1> HIDE DEF d
  <1>11. Lasting(a, d, c)
    <2>1. Lasting(a, w, c)
      BY <1>5, <1>7, LastingThen
    <2> QED
      BY <1>10, <2>1, LastingThen
  <1>12. Staying(d, c)
    BY <1>11 DEF Lasting
  <1>13. /\ Staying(e, c)
         /\ \A id : Fit(d, id) =>
               id \in DOMAIN e.links /\ e.links[id].phase = "Connected" /\ e.links[id].peer = d.links[id].peer
    BY <1>9, <1>12, TickEvictsStays
  <1> HIDE DEF e
  <1>14. Staying(m', c) /\ m'.links = e.links
    BY <1>9, <1>13, LeavesStaying
  <1>15. ASSUME NEW id, Fit(m, id), id \notin m.pend
         PROVE  /\ id \in DOMAIN e.links
                /\ e.links[id].phase = "Connected" /\ e.links[id].peer = m.links[id].peer
    <2>1. Fit(s, id) /\ id \notin s.pend
      BY <1>2, <1>15 DEF Fit
    <2>2. Fit(a, id) /\ a.links[id].peer = m.links[id].peer
      BY <1>2, <1>3, <2>1
    <2>3. Fit(d, id) /\ d.links[id].peer = a.links[id].peer
      BY <1>11, <2>2 DEF Lasting, Fit
    <2> QED
      BY <1>13, <2>2, <2>3
  <1> QED
    BY <1>14, <1>15 DEF Kept

LEMMA CapabilityArrivesKept ==
    ASSUME TableInv, NEW c, Staying(m, c), CapabilityArrives
    PROVE  Kept(m, m', c)
  <1>0. PICK s \in Walks : \E on, k, a, peer :
           Leaves(IngestRemoteAddrs([s EXCEPT !.links[on].cap = "known"], k, peer, a))
    BY Zenon DEF CapabilityArrives
  <1>1. PICK on : \E k, a, peer :
           Leaves(IngestRemoteAddrs([s EXCEPT !.links[on].cap = "known"], k, peer, a))
    BY <1>0, Zenon
  <1> DEFINE t == [s EXCEPT !.links[on].cap = "known"]
  <1>2. PICK k, a, peer : Leaves(IngestRemoteAddrs(t, k, peer, a))
    BY <1>1
  <1>3. Good(s) /\ s.links = m.links /\ Staying(s, c)
    BY WalksStaying
  <1>4. Good(t) /\ Lasting(s, t, c)
    BY <1>3, LinkFieldGood, LinkFieldLasting
  <1> HIDE DEF t
  <1>5. Staying(t, c)
    BY <1>4 DEF Lasting
  <1> DEFINE u == IngestRemoteAddrs(t, k, peer, a)
  <1>6. Elsewhere(t, u) /\ Still(t, u)
    BY <1>4, RegisterElsewhere, RegisterStill DEF Good
  <1>7. Leaves(u)
    BY <1>2
  <1> HIDE DEF u
  <1>8. Good(u) /\ Lasting(t, u, c)
    BY <1>4, <1>5, <1>6, ElsewhereGood, StillLasting
  <1>9. Lasting(s, u, c)
    BY <1>4, <1>8, LastingThen
  <1>10. Heirs(s, u, c)
    BY <1>9, LastingHeirs
  <1> QED
    BY <1>3, <1>7, <1>8, <1>10, LeavesKept

LEMMA NextKept ==
    ASSUME TableInv, WaitInv, class \in Classes, class # "nested", Staying(m, class), [Next]_vars
    PROVE  Kept(m, m', class)
  <1>1. Good(m) /\ class \in {"dial", "names", "probe"}
    BY ConstantsOK DEF TableInv
  <1>2. ASSUME NEW s \in Walks
        PROVE  Good(s) /\ s.links = m.links /\ Staying(s, class) /\ (class = "probe" => Keyed(s))
    <2>1. Nesting(m, {}) /\ (class = "probe" => Probed(m))
      BY DEF WaitInv, Probed
    <2>2. class = "probe" => Probed(s)
      BY <2>1, WalksWaiting
    <2> QED
      BY <2>2, WalksStaying DEF Probed
  <1>0. ASSUME NEW u, Good(u), Leaves(u), NEW s, s.links = m.links, Heirs(s, u, class)
        PROVE  Kept(m, m', class)
    BY <1>0, LeavesKept
  <1>3. ASSUME NEW u, Good(u), Leaves(u), NEW s, s.links = m.links, Lasting(s, u, class)
        PROVE  Kept(m, m', class)
    <2>1. Heirs(s, u, class)
      BY <1>3, LastingHeirs
    <2> QED
      BY <1>0, <1>3, <2>1
  <1>4. ASSUME NEW name, Call(name)
        PROVE  name \in Offers(class)
    BY <1>4 DEF Call
  <1>5. /\ "Nest" \notin Offers(class) /\ "InboundCarrier" \notin Offers(class)
        /\ "Abort" \in Offers(class) => class \in {"dial", "names"}
        /\ "RequestDrop" \in Offers(class) => class = "dial"
        /\ "Inbound" \in Offers(class) => class # "names"
    BY <1>1 DEF Offers
  <1>6. ~CallNest /\ ~CarrierArrives
    BY <1>4, <1>5 DEF CallNest, CarrierArrives
  <1>7. ~CarrierFails
    <2>1. \A id \in DOMAIN m.links : ~m.links[id].car
      BY DEF Staying, Direct
    <2> QED
      BY <2>1, Zenon DEF CarrierFails
  <1>8. CASE CallEnsure
    <2>1. PICK s \in Walks, k \in Keys(class), o \in Outcomes, over \in BOOLEAN :
             Leaves(EnsureAssociation(s, k, over, o))
      BY <1>8 DEF CallEnsure
    <2>2. Good(EnsureAssociation(s, k, over, o)) /\ Lasting(s, EnsureAssociation(s, k, over, o), class)
      BY <1>2, EnsureAssociationGood, EnsureAssociationLasting
    <2> QED
      BY <1>2, <1>3, <2>1, <2>2
  <1>9. CASE CallAbort
    <2>1. PICK s \in Walks, k \in Keys(class) : Leaves(AbortInflightDial(s, k))
      BY <1>9 DEF CallAbort
    <2>2. class \in {"dial", "names"}
      BY <1>4, <1>5, <1>9 DEF CallAbort
    <2>3. Good(AbortInflightDial(s, k)) /\ Lasting(s, AbortInflightDial(s, k), class)
      BY <1>2, <2>2, AbortInflightDialGood, AbortInflightDialLasting
    <2> QED
      BY <1>2, <1>3, <2>1, <2>3
  <1>10. ASSUME NEW u, Leaves(u), Elsewhere(m, u), Still(m, u)
         PROVE  Kept(m, m', class)
    <2>1. Good(u) /\ Lasting(m, u, class)
      BY <1>1, <1>10, ElsewhereGood, StillLasting
    <2> QED
      BY <1>3, <1>10, <2>1
  <1>11. CASE CallRegister
    <2>1. PICK k, c : \/ Leaves(RegisterEndpoints(m, k, Far, c))
                      \/ Leaves(RegisterEndpoint(m, k, Far, c[1]))
      BY <1>11 DEF CallRegister
    <2>2. /\ Elsewhere(m, RegisterEndpoints(m, k, Far, c)) /\ Elsewhere(m, RegisterEndpoint(m, k, Far, c[1]))
          /\ Still(m, RegisterEndpoints(m, k, Far, c)) /\ Still(m, RegisterEndpoint(m, k, Far, c[1]))
      BY <1>1, RegisterElsewhere, RegisterStill DEF Good
    <2> QED
      BY <1>10, <2>1, <2>2
  <1>12. CASE CallUnregister
    <2>1. PICK k \in Keys(class) : Leaves(UnregisterEndpoint(m, k))
      BY <1>12 DEF CallUnregister
    <2>2. Elsewhere(m, UnregisterEndpoint(m, k)) /\ Still(m, UnregisterEndpoint(m, k))
      BY <1>1, RegisterElsewhere, RegisterStill DEF Good
    <2> QED
      BY <1>10, <2>1, <2>2
  <1>13. CASE CallRequestDrop
    <2>1. PICK s \in Walks, k \in Keys(class) : Leaves(RequestDropLink(s, k))
      BY <1>13 DEF CallRequestDrop
    <2>2. class = "dial"
      BY <1>4, <1>5, <1>13 DEF CallRequestDrop
    <2>3. Good(RequestDropLink(s, k)) /\ Heirs(s, RequestDropLink(s, k), class)
      BY <1>2, <2>2, RequestDropLinkGood, RequestDropLinkHeirs
    <2> QED
      BY <1>0, <1>2, <2>1, <2>3
  <1>14. CASE CallVerify
    <2>1. PICK s \in Walks, k \in Keys(class) : Leaves(VerifyLink(s, k))
      BY <1>14 DEF CallVerify
    <2>2. Good(VerifyLink(s, k)) /\ Heirs(s, VerifyLink(s, k), class)
      BY <1>2, VerifyLinkGood, VerifyLinkHeirs
    <2> QED
      BY <1>0, <1>2, <2>1, <2>2
  <1>15. CASE CallNetworkChanged
    <2>1. Good(OnNetworkChanged(m)) /\ Heirs(m, OnNetworkChanged(m), class)
      BY <1>1, OnNetworkChangedGood, OnNetworkChangedHeirs
    <2> QED
      BY <1>0, <1>15, <2>1 DEF CallNetworkChanged
  <1>16. CASE CallCloseAll
    <2> DEFINE u == CloseAllLinks(m)
    <2>1. Good(u) /\ Staying(u, class) /\ DOMAIN u.links = {}
      BY <1>1, DropsGood, CloseAllLinksStays
    <2>2. Leaves(u)
      BY <1>16 DEF CallCloseAll
    <2> HIDE DEF u
    <2>3. Staying(m', class) /\ m'.links = u.links
      BY <2>1, <2>2, LeavesStaying
    <2> QED
      BY <2>1, <2>3 DEF Kept
  <1>17. CASE Arrives
    <2>1. PICK idle \in IdleInbound(m) \cup {NoLink} : Leaves(OnInboundConnection(m, idle))
      BY <1>17 DEF Arrives
    <2>2. idle \in DOMAIN m.links \cup {NoLink} /\ class # "names"
      BY <1>4, <1>5, <1>17 DEF Arrives, IdleInbound
    <2>3. Good(OnInboundConnection(m, idle)) /\ Heirs(m, OnInboundConnection(m, idle), class)
      BY <1>1, <2>2, OnInboundConnectionGood, OnInboundConnectionHeirs
    <2> QED
      BY <1>0, <2>1, <2>3
  <1>18. CASE CapabilityArrives
    BY <1>18, CapabilityArrivesKept
  <1>19. CASE HandshakeEnds
    <2>1. PICK s \in Walks, id \in InHandshake(m) :
             \/ \E p : Leaves(FinishEstablishment(s, id, p))
             \/ Leaves(FailAssociation(s, id, FALSE))
      BY <1>19, Zenon DEF HandshakeEnds
    <2>2. id \in InHandshake(s) /\ id \in DOMAIN s.links /\ s.links[id].phase # "Connected"
      BY <1>2 DEF InHandshake
    <2>3. ASSUME NEW p
          PROVE  Good(FinishEstablishment(s, id, p)) /\ Heirs(s, FinishEstablishment(s, id, p), class)
      BY <1>2, <2>2, FinishEstablishmentGood, FinishEstablishmentHeirs
    <2>4. ASSUME NEW aborted
          PROVE  /\ Good(FailAssociation(s, id, aborted))
                 /\ Lasting(s, FailAssociation(s, id, aborted), class)
      BY <1>2, <2>2, FailAssociationGood, FailAssociationLasting
    <2>5. ASSUME NEW p, Leaves(FinishEstablishment(s, id, p))
          PROVE  Kept(m, m', class)
      BY <1>0, <1>2, <2>3, <2>5
    <2>6. ASSUME NEW aborted, Leaves(FailAssociation(s, id, aborted))
          PROVE  Kept(m, m', class)
      BY <1>2, <1>3, <2>4, <2>6
    <2> QED
      BY <2>1, <2>5, <2>6, Zenon
  <1>20. CASE Resolves
    <2>1. PICK s \in Walks, k \in m.resolving, ok \in BOOLEAN, o \in Outcomes :
             Leaves(OnHostResolved(s, k, ok, o))
      BY <1>20 DEF Resolves
    <2>2. Good(OnHostResolved(s, k, ok, o)) /\ Lasting(s, OnHostResolved(s, k, ok, o), class)
      BY <1>2, OnHostResolvedGood, OnHostResolvedLasting
    <2> QED
      BY <1>2, <1>3, <2>1, <2>2
  <1>21. CASE Expires
    <2>1. Lasting(m, m', class)
      BY <1>1, <1>21, PutsStill, StillLasting DEF Expires, Good
    <2> QED
      BY <2>1, LastingHeirs, HeirsKept
  <1>22. CASE ProbeEnds
    <2>1. PICK id, x : m' = [m EXCEPT !.links[id].sus = x]
      BY <1>22, Zenon DEF ProbeEnds
    <2>2. Heirs(m, m', class)
      BY <1>1, <2>1, LinkPutHeirs
    <2> QED
      BY <2>2, HeirsKept
  <1>23. CASE ConnectionFails
    <2>1. PICK id, c : m.links[id].conn = "up" /\ m' = [m EXCEPT !.links[id].conn = c]
      BY <1>23, Zenon DEF ConnectionFails
    <2>2. Heirs(m, m', class)
      BY <1>1, <2>1, LinkPutHeirs
    <2> QED
      BY <2>2, HeirsKept
  <1>24. CASE Tick
    BY <1>24, TickKept
  <1>25. CASE UNCHANGED vars
    <2>1. Lasting(m, m', class)
      BY <1>25 DEF vars, Lasting
    <2> QED
      BY <2>1, LastingHeirs, HeirsKept
  <1> QED
    BY <1>6, <1>7, <1>8, <1>9, <1>11, <1>12, <1>13, <1>14, <1>15, <1>16, <1>17, <1>18, <1>19,
       <1>20, <1>21, <1>22, <1>23, <1>24, <1>25 DEF Next

\* Where nothing is nested, no link hangs on another; where links are only dialed no election
\* demotes a session; and where the drop of a session cannot be asked for, whatever is due to
\* be dropped is no session any more.
THEOREM StayInvHolds == Spec => []StayInv
  <1>1. Init => StayInv
    BY InitStaying
  <1>2. IndInv /\ WaitInv /\ StayInv /\ [Next]_vars => StayInv'
    <2> SUFFICES ASSUME IndInv, WaitInv, StayInv, [Next]_vars, class' # "nested"
                 PROVE  Staying(m', class')
      BY DEF StayInv
    <2>1. class' = class /\ class # "nested" /\ Staying(m, class)
      BY ClassStays DEF StayInv
    <2>2. Kept(m, m', class)
      BY <2>1, NextKept DEF IndInv
    <2> QED
      BY <2>1, <2>2 DEF Kept
  <1> QED
    BY <1>1, <1>2, IndInvHolds, WaitInvHolds, PTL DEF Spec

\* A healthy session is not lost: whatever the manager does with a Connected ADP link that is
\* up, has not failed a probe and whose drop nobody asked for (retries, aborts, elections, an
\* accepted connection's eviction, Tick's drops and evictions), a session to the same peer is
\* there after the step, unless all links were closed.
THEOREM HealthySessionStaysHolds == Spec => HealthySessionStays
  <1> DEFINE Step == \A p \in {Far, Relay} :
                        (\E id \in DOMAIN m.links : Healthy(id) /\ m.links[id].peer = p)
                           => ConnectedAdp(p)' # {} \/ DOMAIN m'.links = {}
  <1>1. IndInv /\ WaitInv /\ StayInv /\ [Next]_vars => Step
    <2> SUFFICES ASSUME IndInv, WaitInv, StayInv, [Next]_vars, NEW p \in {Far, Relay},
                        NEW id \in DOMAIN m.links, Healthy(id), m.links[id].peer = p
                 PROVE  ConnectedAdp(p)' # {} \/ DOMAIN m'.links = {}
      OBVIOUS
    <2>1. /\ class # "nested" /\ class \in {"dial", "names", "probe"} /\ Staying(m, class)
          /\ Fit(m, id) /\ (class = "dial" => id \notin m.pend)
      BY ConstantsOK DEF Healthy, StayInv, IndInv, Fit
    <2>2. id \notin m.pend
      BY <2>1 DEF Staying, Fading, Spent, Fit
    <2>3. Kept(m, m', class)
      BY <2>1, NextKept DEF IndInv
    <2>4. CASE DOMAIN m'.links # {}
      <3>1. PICK j \in DOMAIN m'.links : m'.links[j].phase = "Connected" /\ m'.links[j].peer = p
        BY <2>1, <2>2, <2>3, <2>4 DEF Kept
      <3>2. ~m'.links[j].car
        BY <2>3, <3>1 DEF Kept, Staying, Direct
      <3>3. j \in ConnectedAdp(p)'
        BY <3>1, <3>2 DEF ConnectedAdp, ConnectedTo, Connected
      <3> QED
        BY <3>3
    <2> QED
      BY <2>4
  <1> QED
    BY <1>1, IndInvHolds, WaitInvHolds, StayInvHolds, PTL DEF Spec, HealthySessionStays

-----------------------------------------------------------------------------
(* Two nodes that dial each other: what DualDial makes of the election the *)
(* manager calls, for any two ids, any set of connections and any number   *)
(* of dials at once.                                                       *)

\* An end that has met a connection knows who dialed it.
DialedEnds == \A n \in Nodes : \A c \in Conns : ph[n][c] # "none" => dialer[c] \in Nodes

\* So do the two sides of every election.
BeatDialed ==
    \A n \in Nodes : \A c, d \in Conns :
        <<c, d>> \in beat[n] => dialer[c] \in Nodes /\ dialer[d] \in Nodes

DialsInv == BothTyped /\ DialedEnds /\ BeatDialed /\ GreaterDialerWins

\* Which of two links from either side wins at node n does not depend on
\* which came first: the existing one does if and only if the candidate's
\* dialer is the lower id (DualDialElector::Elect).
LEMMA CandidateWinsCrossing ==
    ASSUME NEW n \in Nodes, NEW c \in Conns, NEW d \in Conns,
           dialer[c] \in Nodes, dialer[d] \in Nodes, dialer[c] # dialer[d]
    PROVE  CandidateWins(End(n, d), End(n, c), n) <=> dialer[c] = High
<1> DEFINE keeps(e) == End(n, e).out /\ n > Peer(n)
<1>1. Peer(n) # NoPeer /\ (n > Peer(n) <=> n = High)
  BY NodesOK DEF Peer, Nodes, NoPeer
<1>2. /\ End(n, c).peer = Peer(n)
      /\ End(n, c).out <=> dialer[c] = n
      /\ End(n, d).out <=> dialer[d] = n
  BY DEF End
<1>3. CandidateWins(End(n, d), End(n, c), n) <=>
         \/ keeps(c) /\ ~keeps(d)
         \/ ~keeps(d) /\ ~keeps(c) /\ ~End(n, c).out
  BY <1>1, <1>2, Zenon DEF CandidateWins
<1> QED BY <1>1, <1>2, <1>3 DEF Nodes

LEMMA DialsInvInit ==
    ASSUME BothInit
    PROVE  DialsInv
PROOF BY NodesOK DEF BothInit, DialsInv, BothTyped, DialedEnds, BeatDialed,
         GreaterDialerWins, Opposite, Phases, Nodes, NoPeer

\* A step that only moves ends between phases after none, elects nothing.
LEMMA PhaseStep ==
    ASSUME DialsInv, NEW n \in Nodes, NEW f \in [Conns -> Phases],
           ph' = [ph EXCEPT ![n] = f],
           \A c \in Conns : f[c] # "none" => dialer[c] \in Nodes,
           est' \subseteq Conns, givenUp' \in Nat,
           dialer' = dialer, beat' = beat
    PROVE  DialsInv'
PROOF BY DEF DialsInv, BothTyped, DialedEnds, BeatDialed, GreaterDialerWins, Opposite

\* An election keeps the invariant: its winner over a link from the other
\* side is the one High dialed.
LEMMA EstablishStep ==
    ASSUME DialsInv, NEW n \in Nodes, NEW c \in Conns,
           Establish(n, c), dialer[c] \in Nodes, est' \subseteq Conns
    PROVE  DialsInv'
<1> USE DEF DialsInv, BothTyped
<1>1. dialer' = dialer /\ givenUp' = givenUp
  BY DEF Establish
<1>2. CASE ph' = [ph EXCEPT ![n][c] = "Connected"] /\ beat' = beat
  <2> DEFINE f == [ph[n] EXCEPT ![c] = "Connected"]
  <2>1. f \in [Conns -> Phases] /\ ph' = [ph EXCEPT ![n] = f]
    BY <1>2 DEF Phases
  <2>2. \A e \in Conns : f[e] # "none" => dialer[e] \in Nodes
    BY DEF DialedEnds
  <2> QED BY <1>1, <1>2, <2>1, <2>2, PhaseStep
<1>3. CASE \E d \in Up(n) :
            /\ CandidateWins(End(n, d), End(n, c), n)
            /\ ph' = [ph EXCEPT ![n] = [@ EXCEPT ![c] = "Connected", ![d] = "Backoff"]]
            /\ beat' = [beat EXCEPT ![n] = @ \cup {<<c, d>>}]
  <2>1. PICK d \in Up(n) :
            /\ CandidateWins(End(n, d), End(n, c), n)
            /\ ph' = [ph EXCEPT ![n] = [@ EXCEPT ![c] = "Connected", ![d] = "Backoff"]]
            /\ beat' = [beat EXCEPT ![n] = @ \cup {<<c, d>>}]
    BY <1>3
  <2>2. d \in Conns /\ dialer[d] \in Nodes
    BY DEF Up, DialedEnds
  <2>3. dialer[c] # dialer[d] => dialer[c] = High /\ dialer[d] = Low
    BY <2>1, <2>2, CandidateWinsCrossing DEF Nodes
  <2>4. BothTyped'
    BY <1>1, <2>1, <2>2 DEF Phases
  <2>5. DialedEnds'
    BY <1>1, <2>1, <2>2 DEF DialedEnds
  <2>6. BeatDialed'
    BY <1>1, <2>1, <2>2 DEF BeatDialed
  <2>7. GreaterDialerWins'
    BY <1>1, <2>1, <2>2, <2>3 DEF GreaterDialerWins, Opposite
  <2> QED BY <2>4, <2>5, <2>6, <2>7
<1>4. CASE \E d \in Up(n) :
            /\ ~CandidateWins(End(n, d), End(n, c), n)
            /\ ph' = [ph EXCEPT ![n][c] = "Backoff"]
            /\ beat' = [beat EXCEPT ![n] = @ \cup {<<d, c>>}]
  <2>1. PICK d \in Up(n) :
            /\ ~CandidateWins(End(n, d), End(n, c), n)
            /\ ph' = [ph EXCEPT ![n][c] = "Backoff"]
            /\ beat' = [beat EXCEPT ![n] = @ \cup {<<d, c>>}]
    BY <1>4
  <2>2. d \in Conns /\ dialer[d] \in Nodes
    BY DEF Up, DialedEnds
  <2>3. dialer[c] # dialer[d] => dialer[d] = High /\ dialer[c] = Low
    BY <2>1, <2>2, CandidateWinsCrossing DEF Nodes
  <2>4. BothTyped'
    BY <1>1, <2>1, <2>2 DEF Phases
  <2>5. DialedEnds'
    BY <1>1, <2>1, <2>2 DEF DialedEnds
  <2>6. BeatDialed'
    BY <1>1, <2>1, <2>2 DEF BeatDialed
  <2>7. GreaterDialerWins'
    BY <1>1, <2>1, <2>2, <2>3 DEF GreaterDialerWins, Opposite
  <2> QED BY <2>4, <2>5, <2>6, <2>7
<1> QED BY <1>2, <1>3, <1>4 DEF Establish

LEMMA DialsInvNext ==
    ASSUME DialsInv, [BothNext]_(bothVars)
    PROVE  DialsInv'
<1> USE DEF DialsInv, BothTyped
<1>1. CASE UNCHANGED bothVars
  BY <1>1 DEF bothVars, DialedEnds, BeatDialed, GreaterDialerWins, Opposite
<1>2. ASSUME NEW n \in Nodes, NEW c \in Conns, Dial(n, c) PROVE DialsInv'
  <2>1. dialer[c] \notin Nodes
    BY <1>2, NodesOK DEF Dial, Nodes, NoPeer
  <2>2. BothTyped'
    BY <1>2 DEF Dial, Phases
  <2>3. DialedEnds'
    BY <1>2 DEF Dial, DialedEnds
  <2>4. BeatDialed'
    BY <1>2 DEF Dial, BeatDialed
  <2>5. GreaterDialerWins'
    BY <1>2, <2>1 DEF Dial, GreaterDialerWins, BeatDialed, Opposite
  <2> QED BY <2>2, <2>3, <2>4, <2>5
<1>3. ASSUME NEW n \in Nodes, NEW c \in Conns, NEW p \in Phases,
             ph' = [ph EXCEPT ![n][c] = p], dialer[c] \in Nodes,
             dialer' = dialer, beat' = beat, est' = est, givenUp' \in Nat
      PROVE  DialsInv'
  <2> DEFINE f == [ph[n] EXCEPT ![c] = p]
  <2>1. f \in [Conns -> Phases] /\ ph' = [ph EXCEPT ![n] = f]
    BY <1>3
  <2>2. \A e \in Conns : f[e] # "none" => dialer[e] \in Nodes
    BY <1>3 DEF DialedEnds
  <2> QED BY <1>3, <2>1, <2>2, PhaseStep
<1>4. ASSUME NEW n \in Nodes, NEW c \in Conns, Accept(n, c) PROVE DialsInv'
  <2>1. dialer[c] \in Nodes /\ "Handshaking" \in Phases
    BY <1>4 DEF Accept, Peer, Nodes, Phases
  <2> QED BY <1>3, <1>4, <2>1 DEF Accept
<1>5. ASSUME NEW n \in Nodes, NEW c \in Conns, EstablishIn(n, c) PROVE DialsInv'
  <2>1. dialer[c] \in Nodes /\ est' \subseteq Conns /\ Establish(n, c)
    BY <1>5 DEF EstablishIn, DialedEnds
  <2> QED BY <2>1, EstablishStep
<1>6. ASSUME NEW n \in Nodes, NEW c \in Conns, EstablishOut(n, c) PROVE DialsInv'
  <2>1. dialer[c] \in Nodes /\ est' \subseteq Conns /\ Establish(n, c)
    BY <1>6 DEF EstablishOut
  <2> QED BY <2>1, EstablishStep
<1>7. ASSUME NEW n \in Nodes, NEW c \in Conns, Notices(n, c) PROVE DialsInv'
  <2>1. dialer[c] \in Nodes /\ "gone" \in Phases
    BY <1>7 DEF Notices, DialedEnds, Phases
  <2> QED BY <1>3, <1>7, <2>1 DEF Notices
<1>8. ASSUME NEW n \in Nodes, NEW c \in Conns, GivesUp(n, c) PROVE DialsInv'
  <2>1. dialer[c] \in Nodes /\ "gone" \in Phases /\ givenUp' \in Nat
    BY <1>8 DEF GivesUp, DialedEnds, Phases
  <2> QED BY <1>3, <1>8, <2>1 DEF GivesUp
<1>9. ASSUME NEW n \in Nodes, TickEnd(n) PROVE DialsInv'
  <2> DEFINE f == [c \in Conns |-> IF ph[n][c] = "Backoff" THEN "gone" ELSE ph[n][c]]
  <2>1. f \in [Conns -> Phases] /\ ph' = [ph EXCEPT ![n] = f]
    BY <1>9 DEF TickEnd, Phases
  <2>2. \A e \in Conns : f[e] # "none" => dialer[e] \in Nodes
    BY DEF DialedEnds
  <2>3. dialer' = dialer /\ beat' = beat /\ est' \subseteq Conns /\ givenUp' \in Nat
    BY <1>9 DEF TickEnd
  <2> QED BY <2>1, <2>2, <2>3, PhaseStep
<1> QED
  BY <1>1, <1>2, <1>4, <1>5, <1>6, <1>7, <1>8, <1>9 DEF BothNext, EndStep

\* For all ids and any number of connections, dials and faults: of two links
\* dialed from either side, no end drops the one the other end kept in its
\* favour (DualDialElector::Elect, AdoptInboundOrDropDuplicate).
THEOREM DualDialAgreement ==
    BothSpec => []ElectionAgrees
<1>1. DialsInv => ElectionAgrees
  BY NodesOK DEF DialsInv, GreaterDialerWins, ElectionAgrees, Opposite, Nodes
<1>2. BothInit => DialsInv
  BY DialsInvInit
<1>3. DialsInv /\ [BothNext]_(bothVars) => DialsInv'
  BY DialsInvNext
<1> QED BY <1>1, <1>2, <1>3, PTL DEF BothSpec
=============================================================================
