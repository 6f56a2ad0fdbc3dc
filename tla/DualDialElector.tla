--------------------------- MODULE DualDialElector ---------------------------
(***************************************************************************)
(* The dual-dial election (amp/link/DualDialElector): of two links to one  *)
(* peer, which does this end keep? A link is a record with out (we dialed  *)
(* it) and peer, the id of the far end; ids are numbers, compared as the   *)
(* code compares strings.                                                  *)
(***************************************************************************)
EXTENDS Integers

NoPeer == 0

\* Mutant: each end keeps the link it dialed itself.
CandidateWinsIfDialed(existing, candidate, local) == candidate.out /\ ~existing.out

\* Elect: does the candidate win over the existing link? The end with the
\* greater id keeps the link it dialed, so the other end keeps the one it
\* accepted; of two alike in direction, two accepted ones leave the newer,
\* two dialed ones the older.
CandidateWins(existing, candidate, local) ==
    LET keepOut(l) == l.out /\ candidate.peer # NoPeer /\ local > candidate.peer
    IN  \/ keepOut(candidate) /\ ~keepOut(existing)
        \/ ~keepOut(existing) /\ ~keepOut(candidate) /\ ~candidate.out
=============================================================================
