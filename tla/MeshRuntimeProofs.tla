-------------------------- MODULE MeshRuntimeProofs --------------------------
(***************************************************************************)
(* MeshRuntime: a burst is answered at most once, and a key is registered  *)
(* for as long as a burst that has it is not answered.                     *)
(*                                                                         *)
(* A lemma for each field an operation writes, then one for each operation *)
(* that Good is kept, then the steps. What is run has been taken off its   *)
(* queue first: for the end of a burst that is all there was of it.        *)
(***************************************************************************)
EXTENDS MeshRuntime, TLAPS

LEMMA PutIo ==
    ASSUME NEW s, Typed(s), NEW q \in Seq(IoTasks)
    PROVE  LET u == [s EXCEPT !.io = q]
           IN  /\ Typed(u) /\ u.io = q
               /\ u.turn = s.turn /\ u.deferred = s.deferred /\ u.job = s.job
               /\ u.book = s.book /\ u.timers = s.timers
  BY DEF Typed

LEMMA PutDeferred ==
    ASSUME NEW s, Typed(s), NEW q \in Seq(DeferredTasks)
    PROVE  LET u == [s EXCEPT !.deferred = q]
           IN  /\ Typed(u) /\ u.deferred = q
               /\ u.turn = s.turn /\ u.io = s.io /\ u.job = s.job
               /\ u.book = s.book /\ u.timers = s.timers
  BY DEF Typed

LEMMA PutTurn ==
    ASSUME NEW s, Typed(s), NEW t, TypedTurn(t)
    PROVE  LET u == [s EXCEPT !.turn = t]
           IN  /\ Typed(u) /\ u.turn = t
               /\ u.deferred = s.deferred /\ u.io = s.io /\ u.job = s.job
               /\ u.book = s.book /\ u.timers = s.timers
  BY DEF Typed

LEMMA PutTimers ==
    ASSUME NEW s, Typed(s), NEW T \in SUBSET Timers
    PROVE  LET u == [s EXCEPT !.timers = T]
           IN  /\ Typed(u) /\ u.timers = T
               /\ u.turn = s.turn /\ u.io = s.io /\ u.job = s.job
               /\ u.book = s.book /\ u.deferred = s.deferred
  BY DEF Typed

LEMMA PutJob ==
    ASSUME NEW s, Typed(s), NEW j \in Jobs, NEW g \in Job
    PROVE  LET u == [s EXCEPT !.job[j] = g]
           IN  /\ Typed(u)
               /\ u.job[j] = g /\ \A k \in Jobs : k # j => u.job[k] = s.job[k]
               /\ u.turn = s.turn /\ u.deferred = s.deferred /\ u.io = s.io
               /\ u.book = s.book /\ u.timers = s.timers
  BY DEF Typed

-----------------------------------------------------------------------------
(* The ends of bursts in a queue.                                          *)

LEMMA EndsAppend ==
    ASSUME NEW S, NEW q \in Seq(S), NEW x, NEW j
    PROVE  /\ SettlesJob(x, j) => Ends(Append(q, x), j) = Ends(q, j) \cup {Len(q) + 1}
           /\ ~SettlesJob(x, j) => Ends(Append(q, x), j) = Ends(q, j)
  <1>1. /\ DOMAIN q = 1..Len(q) /\ Len(q) \in Nat
        /\ DOMAIN Append(q, x) = 1..(Len(q) + 1)
        /\ Append(q, x)[Len(q) + 1] = x
        /\ \A i \in 1..Len(q) : Append(q, x)[i] = q[i]
    OBVIOUS
  <1>2. \A i : i \in 1..(Len(q) + 1) <=> i \in 1..Len(q) \/ i = Len(q) + 1
    BY <1>1
  <1> QED
    BY <1>1, <1>2 DEF Ends

LEMMA EndsTail ==
    ASSUME NEW S, NEW q \in Seq(S), q # <<>>, NEW j, \A i, k \in Ends(q, j) : i = k
    PROVE  /\ \A i, k \in Ends(Tail(q), j) : i = k
           /\ Ends(Tail(q), j) # {} => Ends(q, j) # {} /\ ~SettlesJob(Head(q), j)
           /\ SettlesJob(Head(q), j) => Ends(q, j) # {}
           /\ Head(q) \in S /\ Tail(q) \in Seq(S)
  <1>1. /\ DOMAIN q = 1..Len(q) /\ Len(q) \in Nat /\ Len(q) >= 1
        /\ DOMAIN Tail(q) = 1..(Len(q) - 1)
        /\ Head(q) = q[1] /\ Head(q) \in S /\ Tail(q) \in Seq(S)
        /\ \A i \in 1..(Len(q) - 1) : Tail(q)[i] = q[i + 1]
    OBVIOUS
  <1>2. \A i \in Ends(Tail(q), j) : i \in 1..(Len(q) - 1) /\ i + 1 \in Ends(q, j)
    BY <1>1 DEF Ends
  <1>3. SettlesJob(Head(q), j) => 1 \in Ends(q, j)
    BY <1>1 DEF Ends
  <1>4. \A i \in Ends(Tail(q), j) : i \in Nat /\ i >= 1
    BY <1>1, <1>2
  <1>5. \A i, k \in Ends(Tail(q), j) : i + 1 = k + 1
    BY <1>2
  <1>6. \A i, k \in Ends(Tail(q), j) : i = k
    BY <1>4, <1>5
  <1>7. ASSUME NEW i \in Ends(Tail(q), j), SettlesJob(Head(q), j) PROVE FALSE
    <2>1. i + 1 = 1
      BY <1>2, <1>3, <1>7
    <2> QED
      BY <1>4, <2>1
  <1> QED
    BY <1>1, <1>2, <1>3, <1>6, <1>7

LEMMA EndsNone ==
    ASSUME NEW j
    PROVE  Ends(<<>>, j) = {}
  BY DEF Ends

LEMMA UsersDoNotSettle ==
    ASSUME NEW x \in Users, NEW j
    PROVE  ~SettlesJob(x, j)
  BY DEF Users, SettlesJob

-----------------------------------------------------------------------------
(* Steps that post no end.                                                 *)

\* What an operation leaves of the queues and bursts, or takes away.
LEMMA FewerGood ==
    ASSUME NEW s, NEW u, Good(s), Typed(u), StartedInv(u),
           Batch(u) \in Seq(DeferredTasks), u.job = s.job, u.book = s.book,
           \A j \in Jobs : /\ Ends(u.deferred, j) \subseteq Ends(s.deferred, j)
                           /\ Ends(Batch(u), j) \subseteq Ends(Batch(s), j)
    PROVE  Good(u)
  <1>1. ASSUME NEW j \in Jobs PROVE EndInv(u, j)
    <2>1. EndInv(s, j)
      BY <1>1 DEF Good
    <2> QED
      BY <1>1, <2>1 DEF EndInv
  <1>2. BookInv(u)
    BY DEF Good, BookInv
  <1> QED
    BY <1>1, <1>2 DEF Good

LEMMA SameGood ==
    ASSUME NEW s, NEW u, Good(s), Typed(u), StartedInv(u),
           u.turn = s.turn, u.deferred = s.deferred, u.job = s.job, u.book = s.book
    PROVE  Good(u)
  <1>1. Batch(u) = Batch(s)
    BY DEF Batch
  <1>2. Batch(u) \in Seq(DeferredTasks)
    BY <1>1 DEF Good
  <1>3. \A j \in Jobs : /\ Ends(u.deferred, j) \subseteq Ends(s.deferred, j)
                        /\ Ends(Batch(u), j) \subseteq Ends(Batch(s), j)
    BY <1>1
  <1> QED
    BY <1>2, <1>3, FewerGood

\* The fields the invariant does not look at.
LEMMA ElsewhereGood ==
    ASSUME NEW s, NEW u, Good(s), Typed(u), u.io = s.io, u.timers = s.timers,
           u.turn = s.turn, u.deferred = s.deferred, u.job = s.job, u.book = s.book
    PROVE  Good(u)
  <1>1. StartedInv(u)
    BY DEF Good, StartedInv
  <1> QED
    BY <1>1, SameGood

LEMMA PostToIoGood ==
    ASSUME NEW s, Good(s), NEW x \in IoTasks,
           x \in Users \/ s.job[x[2]].stage # "none"
    PROVE  Good(PostToIo(s, x))
  <1> DEFINE u == [s EXCEPT !.io = Append(s.io, x)]
  <1>1. PostToIo(s, x) = u
    BY DEF PostToIo
  <1>2. Typed(s) /\ s.io \in Seq(IoTasks) /\ StartedInv(s)
    BY DEF Good, Typed
  <1>3. Append(s.io, x) \in Seq(IoTasks)
    BY <1>2
  <1>4. /\ Typed(u) /\ u.io = Append(s.io, x)
        /\ u.turn = s.turn /\ u.deferred = s.deferred /\ u.job = s.job
        /\ u.book = s.book /\ u.timers = s.timers
    BY <1>2, <1>3, PutIo
  <1> HIDE DEF u
  <1>5. \A i \in DOMAIN u.io : u.io[i] = x \/ (i \in DOMAIN s.io /\ u.io[i] = s.io[i])
    BY <1>2, <1>4
  <1>6. StartedInv(u)
    BY <1>2, <1>4, <1>5 DEF StartedInv
  <1>7. Good(u)
    BY <1>4, <1>6, SameGood
  <1> QED
    BY <1>1, <1>7

LEMMA PostUserGood ==
    ASSUME NEW s, Good(s), NEW x \in Users
    PROVE  Good(PostDeferred(s, x))
  <1> DEFINE q == Append(s.deferred, x)
             u == [s EXCEPT !.deferred = q]
  <1>1. PostDeferred(s, x) = u
    BY DEF PostDeferred
  <1>2. Typed(s) /\ s.deferred \in Seq(DeferredTasks) /\ StartedInv(s)
        /\ Batch(s) \in Seq(DeferredTasks)
    BY DEF Good, Typed
  <1>3. q \in Seq(DeferredTasks)
    BY <1>2 DEF DeferredTasks
  <1>4. \A j \in Jobs : Ends(q, j) = Ends(s.deferred, j)
    BY <1>2, EndsAppend, UsersDoNotSettle
  <1> HIDE DEF q
  <1>5. /\ Typed(u) /\ u.io = s.io /\ u.deferred = q
        /\ u.turn = s.turn /\ u.job = s.job
        /\ u.book = s.book /\ u.timers = s.timers
    BY <1>2, <1>3, PutDeferred
  <1> HIDE DEF u
  <1>6. StartedInv(u) /\ Batch(u) = Batch(s)
    BY <1>2, <1>5 DEF StartedInv, Batch
  <1>7. Good(u)
    BY <1>2, <1>4, <1>5, <1>6, FewerGood
  <1> QED
    BY <1>1, <1>7

LEMMA PostAtGood ==
    ASSUME NEW s, Good(s), NEW at \in Nat, NEW x \in Users \cup {"window"} \X Jobs,
           x \in Users \/ s.job[x[2]].stage # "none"
    PROVE  Good(PostAt(s, at, x)) /\ PostAt(s, at, x).job = s.job
  <1> DEFINE t == [id |-> s.nextTimer, at |-> at, task |-> x]
             T == s.timers \cup {t}
             u == PostAt(s, at, x)
  <1>1. Typed(s) /\ s.timers \in SUBSET Timers /\ s.nextTimer \in Nat /\ StartedInv(s)
    BY DEF Good, Typed
  <1>2. t \in Timers /\ t.task = x
    BY <1>1 DEF Timers
  <1>3. u = [s EXCEPT !.timers = T, !.nextTimer = s.nextTimer + 1]
    BY DEF PostAt
  <1> HIDE DEF t
  <1>4. T \in SUBSET Timers /\ s.nextTimer + 1 \in Nat
    BY <1>1, <1>2
  <1> HIDE DEF T, u
  <1>5. /\ Typed(u) /\ u.timers = T /\ u.io = s.io
        /\ u.turn = s.turn /\ u.deferred = s.deferred /\ u.job = s.job /\ u.book = s.book
    BY <1>1, <1>3, <1>4 DEF Typed
  <1>6. StartedInv(u)
    BY <1>1, <1>2, <1>5 DEF StartedInv, T
  <1>7. Good(u)
    BY <1>5, <1>6, SameGood
  <1> QED
    BY <1>5, <1>7 DEF u

LEMMA PostAfterGood ==
    ASSUME NEW s, Good(s), NEW delay \in Nat, NEW x \in Users \cup {"window"} \X Jobs,
           x \in Users \/ s.job[x[2]].stage # "none"
    PROVE  Good(PostAfter(s, delay, x)) /\ PostAfter(s, delay, x).job = s.job
  <1>1. s.now + delay \in Nat
    BY DEF Good, Typed
  <1> QED
    BY <1>1, PostAtGood DEF PostAfter

LEMMA CancelTimerGood ==
    ASSUME NEW s, Good(s), NEW t
    PROVE  Good(CancelTimer(s, t))
  <1> DEFINE T == s.timers \ {t}
             g == s.gone \cup {t.task}
             u == CancelTimer(s, t)
  <1>1. Typed(s) /\ T \in SUBSET Timers /\ StartedInv(s)
    BY DEF Good, Typed
  <1>2. u = [s EXCEPT !.timers = T, !.gone = g]
    BY DEF CancelTimer
  <1> HIDE DEF T, g, u
  <1>3. /\ Typed(u) /\ u.timers = T /\ u.io = s.io
        /\ u.turn = s.turn /\ u.deferred = s.deferred /\ u.job = s.job /\ u.book = s.book
    BY <1>1, <1>2 DEF Typed
  <1>4. StartedInv(u)
    BY <1>1, <1>3 DEF StartedInv, T
  <1>5. Good(u)
    BY <1>3, <1>4, SameGood
  <1> QED
    BY <1>5 DEF u

LEMMA AddIoTickGood ==
    ASSUME NEW s, Good(s)
    PROVE  Good(AddIoTick(s))
  <1> DEFINE q == Append(s.ticks, s.nextTick)
             n == s.nextTick + 1
             u == AddIoTick(s)
  <1>1. Typed(s)
    BY DEF Good
  <1>2. u = [s EXCEPT !.ticks = q, !.nextTick = n]
    BY DEF AddIoTick
  <1> HIDE DEF q, n, u
  <1>3. /\ Typed(u) /\ u.timers = s.timers /\ u.io = s.io
        /\ u.turn = s.turn /\ u.deferred = s.deferred /\ u.job = s.job /\ u.book = s.book
    BY <1>1, <1>2 DEF Typed
  <1>4. Good(u)
    BY <1>3, ElsewhereGood
  <1> QED
    BY <1>4 DEF u

LEMMA RemoveIoTickGood ==
    ASSUME NEW s, Good(s), NEW id
    PROVE  Good(RemoveIoTick(s, id))
  <1> DEFINE q == SelectSeq(s.ticks, LAMBDA k : k # id)
             u == [s EXCEPT !.ticks = q]
  <1>1. Typed(s)
    BY DEF Good
  <1>2. u = RemoveIoTick(s, id)
    BY DEF RemoveIoTick
  <1> HIDE DEF q
  <1>3. /\ Typed(u) /\ u.timers = s.timers /\ u.io = s.io
        /\ u.turn = s.turn /\ u.deferred = s.deferred /\ u.job = s.job /\ u.book = s.book
    BY <1>1 DEF Typed
  <1> HIDE DEF u
  <1>4. Good(u)
    BY <1>3, ElsewhereGood
  <1> QED
    BY <1>2, <1>4

\* Stop drops the ends that are queued: their bursts are never answered.
LEMMA StopGood ==
    ASSUME NEW s, Good(s), s.stops > 0
    PROVE  Good(Stop([s EXCEPT !.stops = @ - 1]))
  <1> DEFINE v == [s EXCEPT !.stops = s.stops - 1]
             c == [v EXCEPT !.up = {}, !.dialing = {}, !.claimed = None]
             g == c.gone \cup ToSet(v.io) \cup ToSet(v.deferred) \cup {t.task : t \in v.timers}
             u == [c EXCEPT !.gone = g, !.io = <<>>, !.deferred = <<>>, !.timers = {},
                            !.ticks = <<>>]
  <1>1. Typed(s) /\ s.stops - 1 \in Nat /\ StartedInv(s) /\ Batch(s) \in Seq(DeferredTasks)
    BY DEF Good, Typed
  <1>2. Stop([s EXCEPT !.stops = @ - 1]) = u
    BY DEF Stop
  <1>3. Typed(v) /\ v.turn = s.turn /\ v.job = s.job /\ v.book = s.book
    BY <1>1 DEF Typed
  <1> HIDE DEF v
  <1>c. Typed(c) /\ c.turn = s.turn /\ c.job = s.job /\ c.book = s.book
    BY <1>3 DEF Typed
  <1> HIDE DEF c, g
  <1>4. /\ Typed(u) /\ u.io = <<>> /\ u.timers = {} /\ u.deferred = <<>>
        /\ u.turn = c.turn /\ u.job = c.job /\ u.book = c.book
    <2>1. <<>> \in Seq(IoTasks) /\ <<>> \in Seq(DeferredTasks) /\ {} \in SUBSET Timers
      OBVIOUS
    <2> QED
      BY <1>c, <2>1 DEF Typed
  <1> HIDE DEF u
  <1>5. StartedInv(u) /\ Batch(u) = Batch(s)
    BY <1>1, <1>c, <1>4 DEF StartedInv, Batch
  <1>6. \A j \in Jobs : /\ Ends(u.deferred, j) \subseteq Ends(s.deferred, j)
                        /\ Ends(Batch(u), j) \subseteq Ends(Batch(s), j)
    BY <1>4, <1>5, EndsNone
  <1>7. Good(u)
    BY <1>1, <1>c, <1>4, <1>5, <1>6, FewerGood
  <1> QED
    BY <1>2, <1>7

-----------------------------------------------------------------------------
(* Bursts.                                                                 *)

\* A burst goes from stage to stage.
LEMMA StageGood ==
    ASSUME NEW s, Good(s), NEW j \in Jobs, s.job[j].stage # "none",
           NEW x \in {"armed", "called"}
    PROVE  LET u == [s EXCEPT !.job[j].stage = x]
           IN  Good(u) /\ u.job[j].stage = x /\ u.job[j].settled = s.job[j].settled
  <1> DEFINE g == [s.job[j] EXCEPT !.stage = x]
             u == [s EXCEPT !.job[j] = g]
  <1>1. Typed(s) /\ s.job[j] \in Job /\ StartedInv(s) /\ Batch(s) \in Seq(DeferredTasks)
    BY DEF Good, Typed
  <1>2. /\ g \in Job /\ g.stage = x /\ g.keys = s.job[j].keys
        /\ g.settled = s.job[j].settled /\ g.answers = s.job[j].answers
    BY <1>1 DEF Job
  <1>3. [s EXCEPT !.job[j].stage = x] = u
    OBVIOUS
  <1> HIDE DEF g
  <1>4. /\ Typed(u)
        /\ u.job[j] = g /\ (\A k \in Jobs : k # j => u.job[k] = s.job[k])
        /\ u.turn = s.turn /\ u.deferred = s.deferred /\ u.io = s.io
        /\ u.book = s.book /\ u.timers = s.timers
    BY <1>1, <1>2, PutJob
  <1> HIDE DEF u
  <1>5. Batch(u) = Batch(s)
    BY <1>4 DEF Batch
  <1>6. ASSUME NEW k \in Jobs PROVE EndInv(u, k)
    <2>1. EndInv(s, k)
      BY <1>6 DEF Good
    <2> QED
      BY <1>2, <1>4, <1>5, <2>1 DEF EndInv
  <1>7. \A k \in Jobs : s.job[k].stage # "none" => u.job[k].stage # "none"
    BY <1>2, <1>4
  <1>8. StartedInv(u)
    <2>1. \A i \in DOMAIN s.io : s.io[i] \in Users \/ s.io[i][2] \in Jobs
      BY <1>1 DEF Typed, IoTasks
    <2>2. \A t \in s.timers \cup s.turn.due : t.task \in Users \/ t.task[2] \in Jobs
      BY <1>1 DEF Typed, TypedTurn, Timers
    <2> QED
      BY <1>1, <1>4, <1>7, <2>1, <2>2 DEF StartedInv
  <1>9. BookInv(u)
    BY <1>2, <1>4 DEF Good, BookInv
  <1>10. Good(u)
    BY <1>1, <1>4, <1>5, <1>6, <1>8, <1>9 DEF Good
  <1> QED
    BY <1>2, <1>3, <1>4, <1>10

\* The first to finish posts the end of the burst: there was none.
LEMMA FinishGood ==
    ASSUME NEW s, Good(s), NEW j \in Jobs, s.job[j].stage # "none", NEW ok \in BOOLEAN
    PROVE  Good(Finish(s, j, ok)) /\ Finish(s, j, ok).job[j].stage = s.job[j].stage
  <1>1. CASE s.job[j].settled
    BY <1>1 DEF Finish
  <1>2. CASE ~s.job[j].settled
    <2> DEFINE g == [s.job[j] EXCEPT !.settled = TRUE]
               v == [s EXCEPT !.job[j] = g]
               x == SettleOf(j, ok)
               q == Append(s.deferred, x)
               u == [v EXCEPT !.deferred = q]
    <2>1. /\ Typed(s) /\ s.job[j] \in Job /\ s.deferred \in Seq(DeferredTasks)
          /\ Batch(s) \in Seq(DeferredTasks) /\ StartedInv(s)
      BY DEF Good, Typed
    <2>2. /\ g \in Job /\ g.stage = s.job[j].stage /\ g.keys = s.job[j].keys
          /\ g.settled = TRUE /\ g.answers = s.job[j].answers
      BY <2>1 DEF Job
    <2> HIDE DEF g
    <2>3. /\ Typed(v)
          /\ v.job[j] = g /\ (\A k \in Jobs : k # j => v.job[k] = s.job[k])
          /\ v.turn = s.turn /\ v.deferred = s.deferred /\ v.io = s.io
          /\ v.book = s.book /\ v.timers = s.timers
      BY <2>1, <2>2, PutJob
    <2>4. Finish(s, j, ok) = u
      BY <1>2, <2>3 DEF Finish, PostDeferred, g
    <2> HIDE DEF v
    <2>5. x \in DeferredTasks /\ SettlesJob(x, j) /\ \A k \in Jobs : k # j => ~SettlesJob(x, k)
      BY DEF DeferredTasks, Settles, SettleOf, SettlesJob
    <2> HIDE DEF x
    <2>6. /\ q \in Seq(DeferredTasks)
          /\ Ends(q, j) = Ends(s.deferred, j) \cup {Len(s.deferred) + 1}
          /\ \A k \in Jobs : k # j => Ends(q, k) = Ends(s.deferred, k)
      BY <2>1, <2>5, EndsAppend
    <2> HIDE DEF q
    <2>7. /\ Typed(u) /\ u.deferred = q /\ u.turn = v.turn /\ u.io = v.io /\ u.job = v.job
          /\ u.book = v.book /\ u.timers = v.timers
      BY <2>3, <2>6, PutDeferred
    <2> HIDE DEF u
    <2>8. Batch(u) = Batch(s)
      BY <2>3, <2>7 DEF Batch
    <2>9. EndInv(u, j)
      <3>1. EndInv(s, j)
        BY DEF Good
      <3>2. Ends(s.deferred, j) = {} /\ Ends(Batch(s), j) = {} /\ s.job[j].answers = 0
        BY <1>2, <3>1 DEF EndInv
      <3> QED
        BY <2>2, <2>3, <2>6, <2>7, <2>8, <3>1, <3>2 DEF EndInv
    <2>10. ASSUME NEW k \in Jobs, k # j PROVE EndInv(u, k)
      <3>1. EndInv(s, k)
        BY DEF Good
      <3> QED
        BY <2>3, <2>6, <2>7, <2>8, <2>10, <3>1 DEF EndInv
    <2>11. \A k \in Jobs : u.job[k].stage = s.job[k].stage
      BY <2>2, <2>3, <2>7
    <2>12. StartedInv(u)
      <3>1. \A i \in DOMAIN s.io : s.io[i] \in Users \/ s.io[i][2] \in Jobs
        BY <2>1 DEF Typed, IoTasks
      <3>2. \A t \in s.timers \cup s.turn.due : t.task \in Users \/ t.task[2] \in Jobs
        BY <2>1 DEF Typed, TypedTurn, Timers
      <3> QED
        BY <2>1, <2>3, <2>7, <2>11, <3>1, <3>2 DEF StartedInv
    <2>13. BookInv(u)
      BY <2>2, <2>3, <2>7 DEF Good, BookInv
    <2>14. Good(u)
      BY <2>1, <2>7, <2>8, <2>9, <2>10, <2>12, <2>13 DEF Good
    <2> QED
      BY <2>4, <2>11, <2>14
  <1> QED
    BY <1>1, <1>2

\* The end of a burst that has been taken off its queue: the only one there was.
LEMMA SettleGood ==
    ASSUME NEW s, Good(s), NEW j \in Jobs, NEW ok \in BOOLEAN,
           s.job[j].settled, s.job[j].answers = 0,
           Ends(s.deferred, j) = {}, Ends(Batch(s), j) = {}
    PROVE  Good(Settle(s, j, ok))
  <1> DEFINE keys == s.job[j].keys
             lost == {k \in keys : ~(ok /\ KeyPeer(k) \in s.up)}
             D == s.dialing \ lost
             B == s.book \ keys
             g == [s.job[j] EXCEPT !.answers = 1]
             f == [s.job EXCEPT ![j] = g]
             u == [s EXCEPT !.dialing = D, !.book = B, !.job = f]
  <1>1. /\ Typed(s) /\ s.job[j] \in Job /\ s.job \in [Jobs -> Job]
        /\ Batch(s) \in Seq(DeferredTasks) /\ StartedInv(s)
    BY DEF Good, Typed
  <1>2. /\ g \in Job /\ g.stage = s.job[j].stage /\ g.keys = s.job[j].keys
        /\ g.settled = s.job[j].settled /\ g.answers = 1
    BY <1>1 DEF Job
  <1>3. Settle(s, j, ok) = u
    <2>1. s.job[j].answers + 1 = 1
      OBVIOUS
    <2> QED
      BY <2>1 DEF Settle
  <1> HIDE DEF g
  <1>4. f \in [Jobs -> Job] /\ f[j] = g /\ \A k \in Jobs : k # j => f[k] = s.job[k]
    BY <1>1, <1>2
  <1> HIDE DEF f, D, B
  <1>5. /\ Typed(u) /\ u.io = s.io /\ u.timers = s.timers /\ u.turn = s.turn
        /\ u.deferred = s.deferred /\ u.job = f /\ u.book = B
    BY <1>1, <1>4 DEF Typed
  <1> HIDE DEF u
  <1>6. Batch(u) = Batch(s)
    BY <1>5 DEF Batch
  <1>7. EndInv(u, j)
    <2>1. s.job[j].stage # "none"
      BY DEF Good, EndInv
    <2> QED
      <3>1. /\ u.job[j].settled /\ u.job[j].answers = 1 /\ u.job[j].stage # "none"
            /\ Ends(u.deferred, j) = {} /\ Ends(Batch(u), j) = {}
        BY <1>2, <1>4, <1>5, <1>6, <2>1
      <3> QED
        BY <3>1 DEF EndInv
  <1>8. ASSUME NEW k \in Jobs, k # j PROVE EndInv(u, k)
    <2>1. EndInv(s, k)
      BY DEF Good
    <2> QED
      BY <1>4, <1>5, <1>6, <1>8, <2>1 DEF EndInv
  <1>9. \A k \in Jobs : u.job[k].stage = s.job[k].stage
    BY <1>2, <1>4, <1>5
  <1>10. StartedInv(u)
    <2>1. \A i \in DOMAIN s.io : s.io[i] \in Users \/ s.io[i][2] \in Jobs
      BY <1>1 DEF Typed, IoTasks
    <2>2. \A t \in s.timers \cup s.turn.due : t.task \in Users \/ t.task[2] \in Jobs
      BY <1>1 DEF Typed, TypedTurn, Timers
    <2> QED
      BY <1>1, <1>5, <1>9, <2>1, <2>2 DEF StartedInv
  <1>11. BookInv(u)
    <2>1. ASSUME NEW k \in u.book
          PROVE  \E i \in Jobs : k \in u.job[i].keys /\ u.job[i].answers = 0
      <3>1. k \in s.book /\ k \notin s.job[j].keys
        BY <1>5, <2>1 DEF B
      <3>2. PICK i \in Jobs : k \in s.job[i].keys /\ s.job[i].answers = 0
        BY <3>1 DEF Good, BookInv
      <3>3. i # j
        BY <3>1, <3>2
      <3> QED
        BY <1>4, <1>5, <3>2, <3>3
    <2> QED
      BY <2>1 DEF BookInv
  <1>12. Good(u)
    BY <1>1, <1>5, <1>6, <1>7, <1>8, <1>10, <1>11 DEF Good
  <1> QED
    BY <1>3, <1>12

\* Registering takes keys for a burst that had none.
LEMMA BurstRegisterGood ==
    ASSUME NEW s, Good(s), NEW j \in Jobs, s.job[j].stage = "none", NEW peers \in AddrLists
    PROVE  LET u == BurstRegister(s, j, peers)
           IN  Good(u) /\ u.job[j].stage = "dialed"
  <1> DEFINE won == {i \in DOMAIN peers : peers[i] \in s.up}
             before == {i \in DOMAIN peers : \A w \in won : i < w}
             keys == {BurstKey(i, peers[i]) : i \in before}
             D == s.dialing \cup keys
             B == s.book \cup keys
             g == [s.job[j] EXCEPT !.keys = keys, !.stage = "dialed"]
             f == [s.job EXCEPT ![j] = g]
             u == [s EXCEPT !.book = B, !.dialing = D, !.job = f]
             ended == peers = <<>> \/ won # {}
             ok == won # {}
  <1>1. /\ Typed(s) /\ s.job[j] \in Job /\ s.job \in [Jobs -> Job]
        /\ Batch(s) \in Seq(DeferredTasks) /\ StartedInv(s) /\ EndInv(s, j)
    BY DEF Good, Typed
  <1>2. keys \in SUBSET (Nat \X Peers)
    <2>1. PICK n \in 0..MaxAddrs : peers \in [1..n -> Peers]
      BY DEF AddrLists
    <2>2. \A i \in DOMAIN peers : i \in Nat /\ peers[i] \in Peers
      BY <2>1
    <2>3. before \subseteq DOMAIN peers
      OBVIOUS
    <2> HIDE DEF before
    <2> QED
      BY <2>2, <2>3 DEF BurstKey
  <1>3. BurstRegister(s, j, peers) = IF ended THEN Finish(u, j, ok) ELSE u
    <2>1. [s EXCEPT !.book = @ \cup keys, !.dialing = @ \cup keys,
                    !.job[j].keys = keys, !.job[j].stage = "dialed"] = u
      <3> HIDE DEF keys
      <3> QED
        BY <1>1 DEF Typed, Job
    <2> HIDE DEF u
    <2> QED
      BY <2>1 DEF BurstRegister
  <1> HIDE DEF keys
  <1>4. /\ g \in Job /\ g.stage = "dialed" /\ g.keys = keys
        /\ g.settled = s.job[j].settled /\ g.answers = s.job[j].answers
    BY <1>1, <1>2 DEF Job
  <1> HIDE DEF g
  <1>5. f \in [Jobs -> Job] /\ f[j] = g /\ \A k \in Jobs : k # j => f[k] = s.job[k]
    BY <1>1, <1>4
  <1> HIDE DEF f, D, B
  <1>6. /\ Typed(u) /\ u.io = s.io /\ u.timers = s.timers /\ u.turn = s.turn
        /\ u.deferred = s.deferred /\ u.job = f /\ u.book = B
    BY <1>1, <1>5 DEF Typed
  <1> HIDE DEF u
  <1>7. Batch(u) = Batch(s)
    BY <1>6 DEF Batch
  <1>8. EndInv(u, j)
    BY <1>1, <1>4, <1>5, <1>6, <1>7 DEF EndInv
  <1>9. ASSUME NEW k \in Jobs, k # j PROVE EndInv(u, k)
    <2>1. EndInv(s, k)
      BY DEF Good
    <2> QED
      BY <1>5, <1>6, <1>7, <1>9, <2>1 DEF EndInv
  <1>10. \A k \in Jobs : s.job[k].stage # "none" => u.job[k].stage # "none"
    BY <1>4, <1>5, <1>6
  <1>11. StartedInv(u)
    <2>1. \A i \in DOMAIN s.io : s.io[i] \in Users \/ s.io[i][2] \in Jobs
      BY <1>1 DEF Typed, IoTasks
    <2>2. \A t \in s.timers \cup s.turn.due : t.task \in Users \/ t.task[2] \in Jobs
      BY <1>1 DEF Typed, TypedTurn, Timers
    <2> QED
      BY <1>1, <1>6, <1>10, <2>1, <2>2 DEF StartedInv
  <1>12. BookInv(u)
    <2>1. ASSUME NEW k \in u.book
          PROVE  \E i \in Jobs : k \in u.job[i].keys /\ u.job[i].answers = 0
      <3>1. CASE k \in keys
        <4>1. s.job[j].answers = 0
          BY <1>1 DEF EndInv
        <4> QED
          BY <1>4, <1>5, <1>6, <3>1, <4>1
      <3>2. CASE k \notin keys
        <4>1. k \in s.book
          BY <1>6, <2>1, <3>2 DEF B
        <4>2. PICK i \in Jobs : k \in s.job[i].keys /\ s.job[i].answers = 0
          BY <4>1 DEF Good, BookInv
        <4>3. i # j
          BY <1>1, <4>2 DEF EndInv
        <4> QED
          BY <1>5, <1>6, <4>2, <4>3
      <3> QED
        BY <3>1, <3>2
    <2> QED
      BY <2>1 DEF BookInv
  <1>13. Good(u) /\ u.job[j].stage = "dialed"
    BY <1>1, <1>4, <1>5, <1>6, <1>7, <1>8, <1>9, <1>11, <1>12 DEF Good
  <1>14. ok \in BOOLEAN
    OBVIOUS
  <1> HIDE DEF ok, ended
  <1>15. Good(Finish(u, j, ok)) /\ Finish(u, j, ok).job[j].stage = "dialed"
    BY <1>13, <1>14, FinishGood
  <1> QED
    BY <1>3, <1>13, <1>15

LEMMA BurstArmGood ==
    ASSUME NEW s, Good(s), NEW j \in Jobs, s.job[j].stage # "none"
    PROVE  Good(BurstArm(s, j)) /\ BurstArm(s, j).job[j].stage = "armed"
  <1> DEFINE u == PostAfter(s, Window, WindowOf(j))
  <1>1. /\ WindowOf(j) \in Users \cup {"window"} \X Jobs
        /\ s.job[WindowOf(j)[2]].stage # "none"
        /\ Window \in Nat
    BY ConstantsOK DEF WindowOf
  <1>2. Good(u) /\ u.job = s.job
    BY <1>1, PostAfterGood
  <1>3. BurstArm(s, j) = [u EXCEPT !.job[j].stage = "armed"]
    BY DEF BurstArm
  <1> HIDE DEF u
  <1>4. Good(u) /\ u.job[j].stage # "none" /\ "armed" \in {"armed", "called"}
    BY <1>2
  <1>5. LET z == [u EXCEPT !.job[j].stage = "armed"]
        IN  Good(z) /\ z.job[j].stage = "armed"
    BY <1>4, StageGood
  <1> QED
    BY <1>3, <1>5

LEMMA BurstPollGood ==
    ASSUME NEW s, Good(s), NEW j \in Jobs, s.job[j].stage # "none"
    PROVE  Good(BurstPoll(s, j))
  <1> DEFINE u == PostToIo(s, PollOf(j))
  <1>1. PollOf(j) \in IoTasks /\ s.job[PollOf(j)[2]].stage # "none"
    BY DEF PollOf, IoTasks
  <1>2. Good(u)
    BY <1>1, PostToIoGood
  <1>3. u.job = s.job
    BY DEF PostToIo, Good, Typed
  <1>4. BurstPoll(s, j) = [u EXCEPT !.job[j].stage = "called"]
    BY DEF BurstPoll
  <1> HIDE DEF u
  <1>5. Good(u) /\ u.job[j].stage # "none" /\ "called" \in {"armed", "called"}
    BY <1>2, <1>3
  <1>6. Good([u EXCEPT !.job[j].stage = "called"])
    BY <1>5, StageGood
  <1> QED
    BY <1>4, <1>6

LEMMA BurstDialRestGood ==
    ASSUME NEW s, Good(s), NEW j \in Jobs, s.job[j].stage # "none"
    PROVE  Good(BurstDialRest(s, j))
  <1>1. CASE s.job[j].settled
    BY <1>1, StageGood DEF BurstDialRest
  <1>2. CASE ~s.job[j].settled
    <2> DEFINE u == BurstArm(s, j)
    <2>1. Good(u) /\ u.job[j].stage = "armed"
      BY BurstArmGood
    <2>2. BurstDialRest(s, j) = BurstPoll(u, j)
      BY <1>2 DEF BurstDialRest
    <2> HIDE DEF u
    <2> QED
      BY <2>1, <2>2, BurstPollGood
  <1> QED
    BY <1>1, <1>2

LEMMA BurstDialGood ==
    ASSUME NEW s, Good(s), NEW j \in Jobs, s.job[j].stage = "none", NEW peers \in AddrLists
    PROVE  Good(BurstDial(s, j, peers))
  <1> DEFINE u == BurstRegister(s, j, peers)
  <1>1. Good(u) /\ u.job[j].stage = "dialed"
    BY BurstRegisterGood
  <1>2. BurstDial(s, j, peers) = BurstDialRest(u, j)
    BY DEF BurstDial
  <1> HIDE DEF u
  <1> QED
    BY <1>1, <1>2, BurstDialRestGood

LEMMA PollGood ==
    ASSUME NEW s, Good(s), NEW j \in Jobs, s.job[j].stage # "none"
    PROVE  Good(Poll(s, j))
  <1>1. Good(Finish(s, j, TRUE))
    BY FinishGood
  <1>2. PollOf(j) \in IoTasks /\ s.job[PollOf(j)[2]].stage # "none"
    BY DEF PollOf, IoTasks
  <1>3. Good(PostToIo(s, PollOf(j)))
    BY <1>2, PostToIoGood
  <1> QED
    BY <1>1, <1>3 DEF Poll

-----------------------------------------------------------------------------
(* Tasks.                                                                  *)

LEMMA CallsGood ==
    ASSUME NEW s, Good(s), NEW u \in Calls(s)
    PROVE  Good(u)
  <1> DEFINE x == User(s.made + 1)
             more == [s EXCEPT !.made = s.made + 1]
  <1>1. Typed(s) /\ s.made + 1 \in Nat
    BY DEF Good, Typed
  <1>2. x \in Users
    BY <1>1 DEF User, Users
  <1>3. Good(more)
    <2>1. /\ Typed(more) /\ more.io = s.io /\ more.timers = s.timers
          /\ more.turn = s.turn /\ more.deferred = s.deferred /\ more.job = s.job
          /\ more.book = s.book
      BY <1>1 DEF Typed
    <2> HIDE DEF more
    <2> QED
      BY <2>1, ElsewhereGood
  <1>4. \/ u \in {PostToIo(more, x), PostDeferred(more, x), PostAfter(more, 1, x)}
        \/ u = AddIoTick(s)
        \/ \E t \in s.timers : u = CancelTimer(s, t)
        \/ s.stops > 0 /\ u = Stop([s EXCEPT !.stops = @ - 1])
    BY DEF Calls
  <1> HIDE DEF x, more
  <1>5. CASE u = PostToIo(more, x)
    BY <1>2, <1>3, <1>5, PostToIoGood DEF IoTasks
  <1>6. CASE u = PostDeferred(more, x)
    BY <1>2, <1>3, <1>6, PostUserGood
  <1>7. CASE u = PostAfter(more, 1, x)
    BY <1>2, <1>3, <1>7, PostAfterGood
  <1>8. CASE u = AddIoTick(s)
    BY <1>8, AddIoTickGood
  <1>9. CASE \E t \in s.timers : u = CancelTimer(s, t)
    BY <1>9, CancelTimerGood
  <1>10. CASE s.stops > 0 /\ u = Stop([s EXCEPT !.stops = @ - 1])
    BY <1>10, StopGood
  <1> QED
    BY <1>4, <1>5, <1>6, <1>7, <1>8, <1>9, <1>10

LEMMA BurstsGood ==
    ASSUME NEW s, Good(s), NEW u \in Bursts(s)
    PROVE  Good(u)
  <1>1. PICK j \in Jobs, peers \in AddrLists :
            s.job[j].stage = "none" /\ u = BurstDial(s, j, peers)
    BY DEF Bursts
  <1> QED
    BY <1>1, BurstDialGood

LEMMA RunUserGood ==
    ASSUME NEW s, Good(s), NEW x, NEW u \in RunUser(s, x)
    PROVE  Good(u)
  <1>1. PICK t \in {s} \cup Calls(s) \cup Bursts(s) : u = [t EXCEPT !.ran = @ \cup {x}]
    BY DEF RunUser
  <1>2. Good(t)
    BY <1>1, CallsGood, BurstsGood
  <1> DEFINE R == t.ran \cup {x}
  <1>3. u = [t EXCEPT !.ran = R]
    BY <1>1
  <1> HIDE DEF R
  <1>4. /\ Typed(u) /\ u.io = t.io /\ u.timers = t.timers /\ u.turn = t.turn
        /\ u.deferred = t.deferred /\ u.job = t.job /\ u.book = t.book
    BY <1>2, <1>3 DEF Good, Typed
  <1> QED
    BY <1>2, <1>4, ElsewhereGood

LEMMA RunIoGood ==
    ASSUME NEW s, Good(s), NEW x \in IoTasks,
           x \in Users \/ s.job[x[2]].stage # "none", NEW u \in Run(s, x)
    PROVE  Good(u)
  <1>1. CASE x \in Users
    <2>1. u \in RunUser(s, x)
      BY <1>1 DEF Run, Users
    <2> QED
      BY <2>1, RunUserGood
  <1>2. CASE x \notin Users
    <2>1. x[1] = "poll" /\ x[2] \in Jobs
      BY <1>2 DEF IoTasks
    <2>2. u = Poll(s, x[2])
      BY <2>1 DEF Run
    <2> QED
      BY <1>2, <2>1, <2>2, PollGood
  <1> QED
    BY <1>1, <1>2

LEMMA RunTimerGood ==
    ASSUME NEW s, Good(s), NEW x \in Users \cup {"window"} \X Jobs,
           x \in Users \/ s.job[x[2]].stage # "none", NEW u \in Run(s, x)
    PROVE  Good(u)
  <1>1. CASE x \in Users
    <2>1. u \in RunUser(s, x)
      BY <1>1 DEF Run, Users
    <2> QED
      BY <2>1, RunUserGood
  <1>2. CASE x \notin Users
    <2>1. x[1] = "window" /\ x[2] \in Jobs
      BY <1>2
    <2>2. u = Finish(s, x[2], FALSE)
      BY <2>1 DEF Run, WindowEnds
    <2> QED
      BY <1>2, <2>1, <2>2, FinishGood
  <1> QED
    BY <1>1, <1>2

LEMMA RunDeferredGood ==
    ASSUME NEW s, Good(s), NEW x \in DeferredTasks,
           \A j \in Jobs : SettlesJob(x, j) =>
                /\ s.job[j].settled /\ s.job[j].answers = 0
                /\ Ends(s.deferred, j) = {} /\ Ends(Batch(s), j) = {},
           NEW u \in Run(s, x)
    PROVE  Good(u)
  <1>1. CASE x \in Users
    <2>1. u \in RunUser(s, x)
      BY <1>1 DEF Run, Users
    <2> QED
      BY <2>1, RunUserGood
  <1>2. CASE x \notin Users
    <2>1. x[1] = "settle" /\ x[2] \in Jobs /\ x[3] \in BOOLEAN
      BY <1>2 DEF DeferredTasks, Settles
    <2>2. u = Settle(s, x[2], x[3])
      BY <2>1 DEF Run
    <2>3. SettlesJob(x, x[2])
      BY <2>1 DEF SettlesJob
    <2> QED
      BY <2>1, <2>2, <2>3, SettleGood
  <1> QED
    BY <1>1, <1>2

-----------------------------------------------------------------------------
(* Turns.                                                                  *)

LEMMA MakeTurn ==
    ASSUME NEW todo, NEW left, NEW due \in SUBSET Timers, NEW budget
    PROVE  LET t == [todo |-> todo, left |-> left, due |-> due, budget |-> budget]
           IN  TypedTurn(t) /\ t.todo = todo /\ t.left = left /\ t.due = due
  BY DEF TypedTurn

\* A turn that changes, but not in what it holds of the teardown tasks.
LEMMA TurnGood ==
    ASSUME NEW s, Good(s), NEW t, TypedTurn(t),
           \A d \in t.due : d.task \in Users \/ s.job[d.task[2]].stage # "none",
           \/ t.todo # <<>> /\ Head(t.todo) = "deferred" => t.left = <<>>
           \/ t.todo = s.turn.todo /\ t.left = s.turn.left
    PROVE  Good([s EXCEPT !.turn = t])
  <1> DEFINE u == [s EXCEPT !.turn = t]
  <1>1. Typed(s) /\ StartedInv(s) /\ Batch(s) \in Seq(DeferredTasks)
    BY DEF Good
  <1>2. /\ Typed(u) /\ u.turn = t /\ u.deferred = s.deferred /\ u.io = s.io
        /\ u.job = s.job /\ u.book = s.book /\ u.timers = s.timers
    BY <1>1, PutTurn
  <1> HIDE DEF u
  <1>4. StartedInv(u)
    BY <1>1, <1>2 DEF StartedInv
  <1>5. Batch(u) = <<>> \/ Batch(u) = Batch(s)
    BY <1>2 DEF Batch
  <1>6. Batch(u) \in Seq(DeferredTasks)
    <2>1. <<>> \in Seq(DeferredTasks)
      OBVIOUS
    <2> QED
      BY <1>1, <1>5, <2>1
  <1>7. ASSUME NEW j \in Jobs
        PROVE  /\ Ends(u.deferred, j) \subseteq Ends(s.deferred, j)
               /\ Ends(Batch(u), j) \subseteq Ends(Batch(s), j)
    <2>1. Ends(<<>>, j) = {}
      BY EndsNone
    <2> QED
      BY <1>2, <1>5, <2>1
  <1>8. Good(u)
    BY <1>2, <1>4, <1>6, <1>7, FewerGood
  <1> QED
    BY <1>8 DEF u

LEMMA EnterGood ==
    ASSUME NEW s, Good(s), NEW todo
    PROVE  Good(Enter(s, todo))
  <1> DEFINE due == {u \in s.timers : u.at <= s.now}
             Turn(left, d) == [todo |-> todo, left |-> left, due |-> d, budget |-> IoBudget]
  <1>1. Typed(s) /\ s.timers \in SUBSET Timers /\ StartedInv(s)
    BY DEF Good, Typed
  <1>2. \A d \in s.timers : d.task \in Users \/ s.job[d.task[2]].stage # "none"
    BY <1>1 DEF StartedInv
  <1>3. CASE todo = <<>>
    <2>1. TypedTurn(NoTurn) /\ NoTurn.due = {} /\ NoTurn.left = <<>>
      BY DEF TypedTurn, NoTurn
    <2>2. Good([s EXCEPT !.turn = NoTurn])
      BY <2>1, TurnGood
    <2> QED
      BY <1>3, <2>2 DEF Enter
  <1>4. CASE todo # <<>> /\ Head(todo) = "ticks"
    <2> DEFINE t == Turn(s.ticks, {})
    <2>1. TypedTurn(t) /\ t.todo = todo /\ t.due = {}
      BY MakeTurn
    <2>2. Enter(s, todo) = [s EXCEPT !.turn = t]
      <3>1. [Turn(<<>>, {}) EXCEPT !.left = s.ticks] = t
        <4> DEFINE e == <<>>
                   k == s.ticks
        <4>1. [Turn(e, {}) EXCEPT !.left = k] = Turn(k, {})
          <5> HIDE DEF e, k
          <5> QED OBVIOUS
        <4> QED
          BY <4>1, Zenon
      <3>2. Enter(s, todo) = [s EXCEPT !.turn = [Turn(<<>>, {}) EXCEPT !.left = s.ticks]]
        BY <1>4, Zenon DEF Enter
      <3> QED
        BY <3>1, <3>2, Zenon
    <2> HIDE DEF t
    <2>3. Good([s EXCEPT !.turn = t])
      BY <1>4, <2>1, TurnGood
    <2> QED
      BY <2>2, <2>3
  <1>5. CASE todo # <<>> /\ Head(todo) = "timers"
    <2> DEFINE t == Turn(<<>>, due)
               rest == s.timers \ due
               v == [s EXCEPT !.turn = t]
               u == [v EXCEPT !.timers = rest]
    <2>1. due \in SUBSET Timers /\ rest \in SUBSET Timers /\ rest \subseteq s.timers
      BY <1>1
    <2>2. TypedTurn(t) /\ t.todo = todo /\ t.due = due /\ t.left = <<>>
      BY <2>1, MakeTurn
    <2>3. Enter(s, todo) = [s EXCEPT !.turn = t, !.timers = rest]
      <3>1. [Turn(<<>>, {}) EXCEPT !.due = due] = t
        <4> HIDE DEF due
        <4> QED OBVIOUS
      <3>2. Enter(s, todo) = [s EXCEPT !.turn = [Turn(<<>>, {}) EXCEPT !.due = due],
                                       !.timers = rest]
        BY <1>5, Zenon DEF Enter
      <3> QED
        BY <3>1, <3>2, Zenon
    <2>4. \A d \in t.due : d.task \in Users \/ s.job[d.task[2]].stage # "none"
      BY <1>2, <2>2
    <2> HIDE DEF t, rest
    <2>5. [s EXCEPT !.turn = t, !.timers = rest] = u
      BY <1>1 DEF Typed
    <2>6. Good(v)
      BY <2>2, <2>4, TurnGood
    <2>7. v.timers = s.timers /\ v.job = s.job
      BY <1>1 DEF Typed
    <2> HIDE DEF v
    <2>8. /\ Typed(u) /\ u.timers = rest /\ u.turn = v.turn /\ u.io = v.io /\ u.job = v.job
          /\ u.book = v.book /\ u.deferred = v.deferred
      BY <2>1, <2>6, PutTimers DEF Good
    <2> HIDE DEF u
    <2>9. StartedInv(u)
      BY <2>1, <2>6, <2>7, <2>8 DEF Good, StartedInv
    <2>10. Good(u)
      BY <2>6, <2>8, <2>9, SameGood
    <2> QED
      BY <2>3, <2>5, <2>10
  <1>6. CASE todo # <<>> /\ Head(todo) # "ticks" /\ Head(todo) # "timers"
    <2> DEFINE t == Turn(<<>>, {})
    <2>1. TypedTurn(t) /\ t.todo = todo /\ t.due = {} /\ t.left = <<>>
      BY MakeTurn
    <2>2. Enter(s, todo) = [s EXCEPT !.turn = t]
      BY <1>6 DEF Enter
    <2> HIDE DEF t
    <2>3. Good([s EXCEPT !.turn = t])
      BY <2>1, TurnGood
    <2> QED
      BY <2>2, <2>3
  <1> QED
    BY <1>3, <1>4, <1>5, <1>6

LEMMA NextPhaseGood ==
    ASSUME NEW s, Good(s)
    PROVE  Good(NextPhase(s))
  BY EnterGood DEF NextPhase

LEMMA RunIoTickGood ==
    ASSUME IndInv, RunIoTick
    PROVE  IndInv'
  <1> DEFINE q == Tail(r.turn.left)
             t == [r.turn EXCEPT !.left = q]
             rest == [r EXCEPT !.turn = t]
  <1>1. /\ Good(r) /\ Typed(r) /\ StartedInv(r) /\ TypedTurn(r.turn)
        /\ r.turn.todo # <<>> /\ Head(r.turn.todo) = "ticks"
    BY DEF IndInv, Good, Typed, RunIoTick, InPhase
  <1>2. [r EXCEPT !.turn.left = Tail(@)] = rest
    OBVIOUS
  <1> HIDE DEF q
  <1>3. TypedTurn(t) /\ t.todo = r.turn.todo /\ t.due = r.turn.due
    BY <1>1 DEF TypedTurn
  <1> HIDE DEF t
  <1>4. \A d \in t.due : d.task \in Users \/ r.job[d.task[2]].stage # "none"
    BY <1>1, <1>3 DEF StartedInv
  <1>5. Good(rest)
    BY <1>1, <1>3, <1>4, TurnGood
  <1>6. r' = NextPhase(r) \/ r' \in {rest} \cup Calls(rest) \cup Bursts(rest)
    <2> HIDE DEF rest
    <2> QED
      BY <1>2 DEF RunIoTick
  <1> HIDE DEF rest
  <1>7. Good(r')
    BY <1>1, <1>5, <1>6, NextPhaseGood, CallsGood, BurstsGood
  <1> QED
    BY <1>7 DEF IndInv

LEMMA DrainPostedIoGood ==
    ASSUME IndInv, DrainPostedIo
    PROVE  IndInv'
  <1>1. /\ Good(r) /\ Typed(r) /\ StartedInv(r) /\ TypedTurn(r.turn)
        /\ r.io \in Seq(IoTasks)
    BY DEF IndInv, Good, Typed
  <1>2. CASE r' = NextPhase(r)
    BY <1>1, <1>2, NextPhaseGood DEF IndInv
  <1>3. CASE /\ r.io # <<>>
             /\ r' \in Run([r EXCEPT !.io = Tail(@), !.turn.budget = Spend(@)], Head(r.io))
    <2> DEFINE b == Spend(r.turn.budget)
               q == Tail(r.io)
               x == Head(r.io)
               t == [r.turn EXCEPT !.budget = b]
               u == [r EXCEPT !.io = q, !.turn = t]
    <2>1. /\ q \in Seq(IoTasks) /\ x \in IoTasks /\ 1 \in DOMAIN r.io /\ x = r.io[1]
          /\ \A i \in DOMAIN q : i + 1 \in DOMAIN r.io /\ q[i] = r.io[i + 1]
      BY <1>1, <1>3
    <2>2. [r EXCEPT !.io = Tail(@), !.turn.budget = Spend(@)] = u
      OBVIOUS
    <2> HIDE DEF b, q
    <2>3. /\ TypedTurn(t) /\ t.todo = r.turn.todo /\ t.left = r.turn.left
          /\ t.due = r.turn.due
      BY <1>1 DEF TypedTurn
    <2>4. x \in Users \/ r.job[x[2]].stage # "none"
      BY <1>1, <2>1 DEF StartedInv
    <2> HIDE DEF x, t
    <2>5. /\ Typed(u) /\ u.io = q /\ u.turn = t /\ u.timers = r.timers
          /\ u.job = r.job /\ u.book = r.book /\ u.deferred = r.deferred
      BY <1>1, <2>1, <2>3 DEF Typed
    <2>6. r' \in Run(u, x)
      BY <1>3, <2>2 DEF x
    <2> HIDE DEF u
    <2>7. StartedInv(u)
      BY <1>1, <2>1, <2>3, <2>5 DEF StartedInv
    <2>8. Batch(u) = Batch(r)
      BY <2>3, <2>5 DEF Batch
    <2>9. Good(u)
      <3>1. /\ Batch(u) \in Seq(DeferredTasks)
            /\ \A j \in Jobs : /\ Ends(u.deferred, j) \subseteq Ends(r.deferred, j)
                               /\ Ends(Batch(u), j) \subseteq Ends(Batch(r), j)
        BY <1>1, <2>5, <2>8 DEF Good
      <3> QED
        BY <1>1, <2>5, <2>7, <3>1, FewerGood
    <2>10. Good(r')
      BY <2>1, <2>4, <2>5, <2>6, <2>9, RunIoGood
    <2> QED
      BY <2>10 DEF IndInv
  <1> QED
    BY <1>2, <1>3 DEF DrainPostedIo

\* endpoint_ and links_ touch dials and peers only.
LEMMA PeersGood ==
    ASSUME NEW s, Good(s), NEW D, NEW U
    PROVE  Good(NextPhase([s EXCEPT !.dialing = D, !.up = U]))
  <1> DEFINE u == [s EXCEPT !.dialing = D, !.up = U]
  <1>1. /\ Typed(u) /\ u.io = s.io /\ u.timers = s.timers /\ u.turn = s.turn
        /\ u.deferred = s.deferred /\ u.job = s.job /\ u.book = s.book
    BY DEF Good, Typed
  <1> HIDE DEF u
  <1>2. Good(u)
    BY <1>1, ElsewhereGood
  <1>3. Good(NextPhase(u))
    BY <1>2, NextPhaseGood
  <1> QED
    BY <1>3 DEF u

LEMMA PumpEndpointGood ==
    ASSUME IndInv, PumpEndpoint
    PROVE  IndInv'
  <1>1. PICK done \in SUBSET r.dialing, in \in SUBSET Peers :
          r' = NextPhase([r EXCEPT !.dialing = r.dialing \ done,
                                   !.up = r.up \cup in \cup {KeyPeer(k) : k \in done}])
    BY DEF PumpEndpoint
  <1>2. Good(NextPhase([r EXCEPT !.dialing = r.dialing \ done,
                                 !.up = r.up \cup in \cup {KeyPeer(k) : k \in done}]))
    BY PeersGood DEF IndInv
  <1> QED
    BY <1>1, <1>2 DEF IndInv

LEMMA TickLinksGood ==
    ASSUME IndInv, TickLinks
    PROVE  IndInv'
  <1>1. PICK failed \in SUBSET r.dialing, lost \in SUBSET r.up :
          r' = NextPhase([r EXCEPT !.dialing = r.dialing \ failed, !.up = r.up \ lost])
    BY DEF TickLinks
  <1>2. Good(NextPhase([r EXCEPT !.dialing = r.dialing \ failed, !.up = r.up \ lost]))
    BY PeersGood DEF IndInv
  <1> QED
    BY <1>1, <1>2 DEF IndInv

\* A teardown task is taken off the batch and run.
LEMMA BatchTaskGood ==
    ASSUME IndInv, InPhase("deferred"), r.turn.left # <<>>,
           NEW u \in Run([r EXCEPT !.turn.left = Tail(@)], Head(r.turn.left))
    PROVE  Good(u)
  <1> DEFINE q == Tail(r.turn.left)
             x == Head(r.turn.left)
             t == [r.turn EXCEPT !.left = q]
             v == [r EXCEPT !.turn = t]
  <1>1. /\ Good(r) /\ Typed(r) /\ StartedInv(r) /\ TypedTurn(r.turn)
        /\ r.turn.todo # <<>> /\ Head(r.turn.todo) = "deferred"
        /\ Batch(r) = r.turn.left /\ r.turn.left \in Seq(DeferredTasks)
    BY DEF IndInv, Good, Typed, InPhase, Batch
  <1>2. u \in Run(v, x)
    <2>1. [r EXCEPT !.turn.left = Tail(@)] = v
      OBVIOUS
    <2> QED
      BY <2>1
  <1>3. ASSUME NEW j \in Jobs
        PROVE  /\ \A i, k \in Ends(q, j) : i = k
               /\ Ends(q, j) # {} => Ends(Batch(r), j) # {} /\ ~SettlesJob(x, j)
               /\ SettlesJob(x, j) => Ends(Batch(r), j) # {}
    <2>1. EndInv(r, j)
      BY <1>1, <1>3 DEF Good
    <2>2. \A i, k \in Ends(r.turn.left, j) : i = k
      BY <1>1, <2>1 DEF EndInv
    <2> QED
      <3> DEFINE L == r.turn.left
      <3>1. L \in Seq(DeferredTasks) /\ L # <<>> /\ Batch(r) = L /\ q = Tail(L) /\ x = Head(L)
        BY <1>1
      <3>2. \A i, k \in Ends(L, j) : i = k
        BY <2>2
      <3> HIDE DEF L, q, x
      <3> QED
        BY <3>1, <3>2, EndsTail
  <1>4. x \in DeferredTasks /\ q \in Seq(DeferredTasks)
    BY <1>1
  <1> HIDE DEF q, x
  <1>5. TypedTurn(t) /\ t.todo = r.turn.todo /\ t.due = r.turn.due /\ t.left = q
    BY <1>1 DEF TypedTurn
  <1> HIDE DEF t
  <1>6. /\ Typed(v) /\ v.turn = t /\ v.deferred = r.deferred /\ v.io = r.io
        /\ v.job = r.job /\ v.book = r.book /\ v.timers = r.timers
    BY <1>1, <1>5, PutTurn
  <1> HIDE DEF v
  <1>7. Batch(v) = q
    BY <1>1, <1>5, <1>6 DEF Batch
  <1>8. StartedInv(v) /\ BookInv(v)
    BY <1>1, <1>5, <1>6 DEF Good, StartedInv, BookInv
  <1>9. ASSUME NEW j \in Jobs
        PROVE  /\ EndInv(v, j)
               /\ SettlesJob(x, j) =>
                    /\ v.job[j].settled /\ v.job[j].answers = 0
                    /\ Ends(v.deferred, j) = {} /\ Ends(Batch(v), j) = {}
    <2>1. EndInv(r, j)
      BY <1>1, <1>9 DEF Good
    <2> QED
      BY <1>3, <1>6, <1>7, <1>9, <2>1 DEF EndInv
  <1>10. Good(v)
    BY <1>4, <1>6, <1>7, <1>8, <1>9 DEF Good
  <1> QED
    BY <1>2, <1>4, <1>9, <1>10, RunDeferredGood

\* The queue becomes the batch.
LEMMA BatchTakenGood ==
    ASSUME IndInv, InPhase("deferred"), r.turn.left = <<>>
    PROVE  Good([r EXCEPT !.turn.left = r.deferred, !.deferred = <<>>])
  <1> DEFINE q == r.deferred
             e == <<>>
             t == [r.turn EXCEPT !.left = q]
             u == [r EXCEPT !.turn = t, !.deferred = e]
  <1>1. /\ Good(r) /\ Typed(r) /\ StartedInv(r) /\ TypedTurn(r.turn)
        /\ r.turn.todo # <<>> /\ Head(r.turn.todo) = "deferred"
        /\ Batch(r) = <<>> /\ q \in Seq(DeferredTasks) /\ e \in Seq(DeferredTasks)
    BY DEF IndInv, Good, Typed, InPhase, Batch
  <1>2. [r EXCEPT !.turn.left = r.deferred, !.deferred = <<>>] = u
    OBVIOUS
  <1>3. TypedTurn(t) /\ t.todo = r.turn.todo /\ t.due = r.turn.due /\ t.left = q
    BY <1>1 DEF TypedTurn
  <1>e. e = <<>>
    OBVIOUS
  <1> HIDE DEF t, e
  <1>4. /\ Typed(u) /\ u.turn = t /\ u.deferred = e /\ u.io = r.io
        /\ u.job = r.job /\ u.book = r.book /\ u.timers = r.timers
    BY <1>1, <1>3 DEF Typed
  <1> HIDE DEF u
  <1>5. Batch(u) = r.deferred
    BY <1>1, <1>3, <1>4 DEF Batch
  <1>6. StartedInv(u) /\ BookInv(u)
    BY <1>1, <1>3, <1>4 DEF Good, StartedInv, BookInv
  <1>7. ASSUME NEW j \in Jobs PROVE EndInv(u, j)
    <2>1. EndInv(r, j) /\ Ends(<<>>, j) = {}
      BY <1>1, <1>7, EndsNone DEF Good
    <2> QED
      BY <1>1, <1>4, <1>5, <1>e, <2>1 DEF EndInv
  <1>8. Good(u)
    BY <1>1, <1>4, <1>5, <1>6, <1>7 DEF Good
  <1> QED
    BY <1>2, <1>8

LEMMA DrainDeferredGood ==
    ASSUME IndInv, DrainDeferred
    PROVE  IndInv'
  <1>1. Good(r) /\ InPhase("deferred")
    BY DEF IndInv, DrainDeferred
  <1>2. CASE r.turn.left # <<>>
    <2>1. r' \in Run([r EXCEPT !.turn.left = Tail(@)], Head(r.turn.left))
      BY <1>2 DEF DrainDeferred
    <2>2. Good(r')
      BY <1>1, <1>2, <2>1, BatchTaskGood
    <2> QED
      BY <2>2 DEF IndInv
  <1>3. CASE r.turn.left = <<>> /\ r.deferred # <<>>
    <2>1. r' = [r EXCEPT !.turn.left = r.deferred, !.deferred = <<>>]
      BY <1>3 DEF DrainDeferred
    <2>2. Good(r')
      BY <1>1, <1>3, <2>1, BatchTakenGood
    <2> QED
      BY <2>2 DEF IndInv
  <1>4. CASE r.turn.left = <<>> /\ r.deferred = <<>>
    <2>1. r' = NextPhase(r)
      BY <1>4 DEF DrainDeferred
    <2>2. Good(r')
      BY <1>1, <2>1, NextPhaseGood
    <2> QED
      BY <2>2 DEF IndInv
  <1> QED
    BY <1>2, <1>3, <1>4

LEMMA FireTimersGood ==
    ASSUME IndInv, FireTimers
    PROVE  IndInv'
  <1>1. Good(r) /\ Typed(r) /\ StartedInv(r) /\ TypedTurn(r.turn)
    BY DEF IndInv, Good, Typed
  <1>2. CASE r' = NextPhase(r)
    BY <1>1, <1>2, NextPhaseGood DEF IndInv
  <1>3. ASSUME NEW d \in r.turn.due,
               r' \in Run([r EXCEPT !.turn.due = @ \ {d}], d.task)
        PROVE  IndInv'
    <2> DEFINE D == r.turn.due \ {d}
               t == [r.turn EXCEPT !.due = D]
               u == [r EXCEPT !.turn = t]
    <2>1. [r EXCEPT !.turn.due = @ \ {d}] = u
      OBVIOUS
    <2>2. d \in Timers /\ D \in SUBSET Timers /\ D \subseteq r.turn.due
      BY <1>1, <1>3 DEF TypedTurn
    <2>3. d.task \in Users \cup {"window"} \X Jobs
      BY <2>2 DEF Timers
    <2>4. d.task \in Users \/ r.job[d.task[2]].stage # "none"
      BY <1>1, <1>3 DEF StartedInv
    <2> HIDE DEF D
    <2>5. TypedTurn(t) /\ t.todo = r.turn.todo /\ t.left = r.turn.left /\ t.due = D
      BY <1>1, <2>2 DEF TypedTurn
    <2>6. r' \in Run(u, d.task)
      BY <1>3, <2>1
    <2> HIDE DEF t
    <2>7. \A e \in t.due : e.task \in Users \/ r.job[e.task[2]].stage # "none"
      BY <1>1, <2>2, <2>5 DEF StartedInv
    <2>8. Good(u)
      BY <1>1, <2>5, <2>7, TurnGood
    <2>9. u.job = r.job
      BY <1>1, <2>5, PutTurn
    <2> HIDE DEF u
    <2>10. Good(r')
      BY <2>3, <2>4, <2>6, <2>8, <2>9, RunTimerGood
    <2> QED
      BY <2>10 DEF IndInv
  <1> QED
    BY <1>2, <1>3 DEF FireTimers

-----------------------------------------------------------------------------
(* The threads.                                                            *)

LEMMA InitGood ==
    ASSUME Init
    PROVE  IndInv
  <1>1. NoTurn.due = {} /\ TypedTurn(NoTurn)
    BY DEF NoTurn, TypedTurn
  <1>2. NoJob \in Job
    BY DEF NoJob, Job
  <1>3. [j \in Jobs |-> NoJob] \in [Jobs -> Job]
    BY <1>2
  <1>4. /\ r.io = <<>> /\ r.deferred = <<>> /\ r.timers = {} /\ r.turn = NoTurn
        /\ r.book = {} /\ r.job = [j \in Jobs |-> NoJob]
    BY DEF Init
  <1>5. Typed(r)
    <2>1. <<>> \in Seq(IoTasks) /\ <<>> \in Seq(DeferredTasks) /\ {} \in SUBSET Timers
      OBVIOUS
    <2> HIDE DEF Job, NoTurn
    <2> QED
      BY <1>1, <1>3, <2>1 DEF Init, Typed
  <1>6. Batch(r) = <<>>
    BY <1>4 DEF Batch, NoTurn
  <1>7. StartedInv(r) /\ BookInv(r)
    BY <1>1, <1>4 DEF StartedInv, BookInv
  <1>8. ASSUME NEW j \in Jobs PROVE EndInv(r, j)
    <2>1. r.job[j] = NoJob /\ Ends(r.deferred, j) = {} /\ Ends(Batch(r), j) = {}
      BY <1>4, <1>6, <1>8, EndsNone
    <2> QED
      BY <2>1 DEF EndInv, NoJob
  <1>9. Batch(r) \in Seq(DeferredTasks)
    BY <1>6
  <1> QED
    BY <1>5, <1>7, <1>8, <1>9 DEF IndInv, Good

LEMMA BurstStepGood ==
    ASSUME IndInv, NEW j \in Jobs, BurstStarts(j) \/ BurstArms(j) \/ BurstPolls(j)
    PROVE  IndInv'
  <1>1. Good(r)
    BY DEF IndInv
  <1>2. CASE BurstStarts(j)
    <2>1. PICK peers \in AddrLists :
              r.job[j].stage = "none" /\ r' = BurstRegister(r, j, peers)
      BY <1>2 DEF BurstStarts
    <2>2. Good(r')
      BY <1>1, <2>1, BurstRegisterGood
    <2> QED
      BY <2>2 DEF IndInv
  <1>3. CASE BurstArms(j)
    <2>1. r.job[j].stage # "none" /\ (r' = BurstDialRest(r, j) \/ r' = BurstArm(r, j))
      BY <1>3 DEF BurstArms
    <2>2. Good(r')
      BY <1>1, <2>1, BurstDialRestGood, BurstArmGood
    <2> QED
      BY <2>2 DEF IndInv
  <1>4. CASE BurstPolls(j)
    <2>1. r.job[j].stage # "none" /\ r' = BurstPoll(r, j)
      BY <1>4 DEF BurstPolls
    <2>2. Good(r')
      BY <1>1, <2>1, BurstPollGood
    <2> QED
      BY <2>2 DEF IndInv
  <1> QED
    BY <1>2, <1>3, <1>4

\* The claim and the clock.
LEMMA OtherStepGood ==
    ASSUME IndInv, Claims \/ Releases \/ TimePasses
    PROVE  IndInv'
  <1>1. Good(r) /\ Typed(r) /\ r.now + 1 \in Nat
    BY DEF IndInv, Good, Typed
  <1>2. /\ Typed(r') /\ r'.io = r.io /\ r'.timers = r.timers /\ r'.turn = r.turn
        /\ r'.deferred = r.deferred /\ r'.job = r.job /\ r'.book = r.book
    <2>1. CASE \E c : r' = [r EXCEPT !.claimed = c]
      BY <1>1, <2>1 DEF Typed
    <2>2. CASE r' = [r EXCEPT !.now = r.now + 1]
      BY <1>1, <2>2 DEF Typed
    <2> QED
      BY <2>1, <2>2 DEF Claims, Releases, ClaimDriver, ReleaseDriver, TimePasses
  <1>3. Good(r')
    BY <1>1, <1>2, ElsewhereGood
  <1> QED
    BY <1>3 DEF IndInv

LEMMA NextGood ==
    ASSUME IndInv, [Next]_r
    PROVE  IndInv'
  <1>1. Good(r)
    BY DEF IndInv
  <1>2. CASE UNCHANGED r
    BY <1>1, <1>2 DEF IndInv
  <1>3. ASSUME NEW t \in Threads, NEW kind, Begin(t, kind) PROVE IndInv'
    <2>1. r' = Enter(r, Phases(kind))
      BY <1>3 DEF Begin
    <2>2. Good(r')
      BY <1>1, <2>1, EnterGood
    <2> QED
      BY <2>2 DEF IndInv
  <1>4. CASE TurnStep
    BY <1>4, RunIoTickGood, DrainPostedIoGood, PumpEndpointGood, TickLinksGood,
       DrainDeferredGood, FireTimersGood DEF TurnStep
  <1>5. CASE CallIn
    <2>1. Good(r')
      BY <1>1, <1>5, CallsGood DEF CallIn
    <2> QED
      BY <2>1 DEF IndInv
  <1>6. CASE DropIoTick
    <2>1. PICK k \in ToSet(r.ticks) : r' = RemoveIoTick(r, k)
      BY <1>6 DEF DropIoTick
    <2>2. Good(r')
      BY <1>1, <2>1, RemoveIoTickGood
    <2> QED
      BY <2>2 DEF IndInv
  <1>7. ASSUME NEW j \in Jobs, BurstStarts(j) \/ BurstArms(j) \/ BurstPolls(j)
        PROVE  IndInv'
    BY <1>7, BurstStepGood
  <1>8. CASE Claims \/ Releases \/ TimePasses
    BY <1>8, OtherStepGood
  <1> QED
    BY <1>2, <1>3, <1>4, <1>5, <1>6, <1>7, <1>8 DEF Next

\* Every end of a burst that was posted and not dropped waits in one place, and
\* for a burst that has settled and was not answered, for any threads, bursts
\* and peers.
THEOREM IndInvHolds == Spec => []IndInv
  <1>1. Init => IndInv
    BY InitGood
  <1>2. IndInv /\ [Next]_r => IndInv'
    BY NextGood
  <1> QED
    BY <1>1, <1>2, PTL DEF Spec

\* on_done of a burst is called once at most, whichever of the poll, the window
\* and the call settles it, and no key stays registered once every burst that
\* has it is answered, with or without a Stop in between.
THEOREM BurstsEndOnceHolds == Spec => []BurstsEndOnce
  <1>1. IndInv => BurstsEndOnce
    BY DEF IndInv, Good, EndInv, BookInv, BurstsEndOnce
  <1> QED
    BY <1>1, IndInvHolds, PTL
=============================================================================
