---------------------------- MODULE ReplayWindow ----------------------------
(***************************************************************************)
(* class ReplayWindow (L1): which sequence numbers of a direction have     *)
(* been taken.  A window is a record of the members of the class: its size *)
(* and whether it slides over a gap, fixed when a Connection is made (the  *)
(* reliable window is strict, the best-effort one slides), last_contiguous_*)
(* (everything up to it is taken or was slid past) and pending_ (taken     *)
(* beyond it).  Numbers are uint64 here and at most 2^32 - 1 on the wire,  *)
(* so last_contiguous_ + window_size_ does not wrap.                       *)
(***************************************************************************)
EXTENDS Naturals

NewWindow(size, slide) == [size |-> size, slide |-> slide, last |-> 0, pending |-> {}]

\* The largest m with n+1 .. m all in S: where the loops that take the next number while it is there stop.
EndOfRun(n, S) ==
    CHOOSE m \in {n} \cup S : m >= n /\ (n + 1) .. m \subseteq S /\ m + 1 \notin S

\* Every number the window counts as seen.
Seen(w, seq) == seq = 0 \/ seq <= w.last \/ seq \in w.pending

Classify(w, seq) ==
    IF Seen(w, seq) THEN "Duplicate"
    ELSE IF seq > w.last + w.size /\ ~w.slide THEN "TooFar"
    ELSE "Fresh"

\* The value Accept(seq) returns ...
Accepts(w, seq) ==
    /\ seq > w.last
    /\ \/ seq = w.last + 1
       \/ seq > w.last + w.size /\ w.slide
       \/ seq <= w.last + w.size /\ seq \notin w.pending

\* ... and the window it leaves.
Accept(w, seq) ==
    IF ~Accepts(w, seq) THEN w
    ELSE IF seq = w.last + 1
         THEN LET end == EndOfRun(seq, w.pending)
              IN  [w EXCEPT !.last = end, !.pending = w.pending \ (seq .. end)]
    ELSE IF seq > w.last + w.size THEN [w EXCEPT !.last = seq, !.pending = {}]
    ELSE [w EXCEPT !.pending = w.pending \cup {seq}]

\* A window as Accept leaves it: what is pending lies beyond the next number, within size of the last contiguous one.
WindowOK(w) ==
    /\ w \in [size : Nat \ {0}, slide : BOOLEAN, last : Nat, pending : SUBSET Nat]
    /\ \A p \in w.pending : p > w.last + 1 /\ p <= w.last + w.size
=============================================================================
