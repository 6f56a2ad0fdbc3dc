------------------------------- MODULE DialBook -------------------------------
(***************************************************************************)
(* The dial book of a node (amp/link/DialBook), as operators on a record b *)
(* with the fields                                                         *)
(*   b.eps       endpoints_: per dial key the peer it is for, its          *)
(*               candidate addresses best first, and dial_index (from 1),  *)
(*   b.backoff   the keys in backoff (dial_failed_until_ in the future),   *)
(*   b.resolved  resolutions_: the host names resolved within their TTL,   *)
(*   b.dials     concurrent_dials_.                                        *)
(* An address is "host" (a name to resolve first) or anything else; how    *)
(* long a backoff lasts is left to the clock.                              *)
(***************************************************************************)
EXTENDS Integers, Sequences, SequencesExt

HostName == "host"

\* multiaddr: the active candidate.
Active(b, key) == b.eps[key].cands[b.eps[key].index]

\* RegisterEndpoints replaces the candidates and starts from the first; a
\* new preferred address clears the backoff.
RegisterEndpoints(b, key, peer, cands) ==
    LET fresh == key \notin DOMAIN b.eps \/ Active(b, key) # cands[1]
    IN  [b EXCEPT !.eps = (key :> [peer |-> peer, cands |-> cands, index |-> 1]) @@ @,
                  !.backoff = IF fresh THEN @ \ {key} ELSE @]

\* RegisterEndpoint puts one address in front of those the key has.
RegisterEndpoint(b, key, peer, a) ==
    LET had == IF key \in DOMAIN b.eps THEN b.eps[key].cands ELSE <<>>
    IN  RegisterEndpoints(b, key, peer, <<a>> \o SelectSeq(had, LAMBDA c : c # a))

\* The keys IngestRemoteAddrs may meet first, or the peer's own.
IngestTargets(b, peer, own) ==
    LET of == {k \in DOMAIN b.eps : b.eps[k].peer = peer} IN IF of = {} THEN {own} ELSE of

\* An address the peer told is added last; the index starts again.
IngestRemoteAddrs(b, key, peer, a) ==
    LET had == IF key \in DOMAIN b.eps THEN b.eps[key].cands ELSE <<>>
    IN  RegisterEndpoints(b, key, peer, IF a \in ToSet(had) THEN had ELSE Append(had, a))

UnregisterEndpoint(b, key) ==
    [b EXCEPT !.eps = Restrict(@, DOMAIN @ \ {key}), !.backoff = @ \ {key}]

\* The active candidate is a host name with no fresh address.
NeedsResolution(b, key) ==
    /\ key \in DOMAIN b.eps
    /\ Active(b, key) = HostName
    /\ HostName \notin b.resolved

SetResolution(b) == [b EXCEPT !.resolved = @ \cup {HostName}]

ForgetResolution(b, key) ==
    IF key \in DOMAIN b.eps /\ Active(b, key) = HostName
    THEN [b EXCEPT !.resolved = @ \ {HostName}] ELSE b

\* Mutant: one past the last candidate.
CanAdvancePast(b, key) ==
    key \in DOMAIN b.eps /\ b.eps[key].index <= Len(b.eps[key].cands)

CanAdvance(b, key) ==
    key \in DOMAIN b.eps /\ b.eps[key].index < Len(b.eps[key].cands)

AdvanceDialCandidate(b, key) == [b EXCEPT !.eps[key].index = @ + 1]

ResetDialIndex(b, key) ==
    IF key \in DOMAIN b.eps THEN [b EXCEPT !.eps[key].index = 1] ELSE b

\* The active address moves to the front; the index goes back to it.
PromoteDialWinner(b, key) ==
    IF key \notin DOMAIN b.eps THEN b
    ELSE LET won    == Active(b, key)
             others == SelectSeq(b.eps[key].cands, LAMBDA a : a # won)
         IN  [b EXCEPT !.eps[key].cands = <<won>> \o others,
                       !.eps[key].index = 1]

ArmBackoff(b, key) == [b EXCEPT !.backoff = @ \cup {key}]

ClearBackoff(b, keys) == [b EXCEPT !.backoff = @ \ keys]

IncConcurrentDials(b) == [b EXCEPT !.dials = @ + 1]

DecConcurrentDials(b) == [b EXCEPT !.dials = IF @ > 0 THEN @ - 1 ELSE 0]
=============================================================================
