----------------------------- MODULE MeshRuntime -----------------------------
(***************************************************************************)
(* The io lane of a node (amp/link/MeshRuntime): the work, teardown and    *)
(* timer queues, the turns that drain them, who may drive, and BurstDial,  *)
(* which runs on all three queues at once.                                 *)
(*                                                                         *)
(* io_mu_ is recursive and held for a whole turn. The model cuts a turn at *)
(* the tasks it runs: between two of them only the thread inside the turn  *)
(* moves, apart from ClaimDriver and ReleaseDriver, which take no lock. A  *)
(* call from outside a turn is one step, taken when no turn is on; a       *)
(* BurstDial from outside is three, since it takes the lock piece by piece.*)
(*                                                                         *)
(*   io, deferred   io_queue_, deferred_queue_                             *)
(*   timers         timers_: its id, its deadline and the task; they are   *)
(*                  in the order of their ids                              *)
(*   ticks          io_ticks_                                              *)
(*   claimed        claimed_driver_                                        *)
(*   turn           the turn on the stack (driving_): the phases still to  *)
(*                  come, what the first of them has moved out of its      *)
(*                  queue (left, of the timers due), and its budget        *)
(*   now            the Amp clock                                          *)
(*   book, dialing  the burst keys registered, and those being dialed      *)
(*   up             the peers IsConnectedToPeerId holds for                *)
(*   job            the State that BurstDial's closures share              *)
(*   made, ran, gone   the product's tasks so far: posted, run, dropped    *)
(*   nextTick, nextTimer   next_io_tick_id_, next_timer_id_                *)
(*   stops          the calls of Stop to come                              *)
(*                                                                         *)
(* A product's task makes at most one call. The links are seen through the *)
(* peers they connect: PeerLinkManager models them. started_ guards        *)
(* nothing and refused_drives_ only counts, so both are left out.          *)
(***************************************************************************)
EXTENDS Integers, Sequences, FiniteSets, SequencesExt

CONSTANTS
    Threads,    \* those that drive and call in
    Owner,      \* the one of them that claims the runtime, as it owns the loop
    Peers,      \* the peers a burst may dial
    Jobs,       \* bursts
    Window,     \* the window of a burst, on the clock
    IoBudget,   \* tasks one drain of the work lane runs (32)
    MaxAddrs,   \* kMaxAddrs
    MaxMade,    \* bound: tasks the product posts
    MaxTicks,   \* bound: io ticks it adds
    MaxNow      \* bound: see Starting

ASSUME ConstantsOK ==
    /\ Owner \in Threads
    /\ {Window, IoBudget} \subseteq Nat \ {0}
    /\ {MaxAddrs, MaxMade, MaxTicks, MaxNow} \subseteq Nat

VARIABLE r      \* the runtime

None == "none"
NoTurn == [todo |-> <<>>, left |-> <<>>, due |-> {}, budget |-> 0]

\* What the queues hold: the product's n-th task, and the closures of a burst.
User(n) == <<"user", n>>
PollOf(j) == <<"poll", j>>
WindowOf(j) == <<"window", j>>
SettleOf(j, ok) == <<"settle", j, ok>>

-----------------------------------------------------------------------------
(* The calls.                                                              *)

PostToIo(s, x) == [s EXCEPT !.io = Append(@, x)]

PostDeferred(s, x) == [s EXCEPT !.deferred = Append(@, x)]

PostAt(s, at, x) ==
    [s EXCEPT !.timers = @ \cup {[id |-> s.nextTimer, at |-> at, task |-> x]},
              !.nextTimer = @ + 1]

PostAfter(s, delay, x) == PostAt(s, s.now + delay, x)

CancelTimer(s, t) == [s EXCEPT !.timers = @ \ {t}, !.gone = @ \cup {t.task}]

AddIoTick(s) == [s EXCEPT !.ticks = Append(@, s.nextTick), !.nextTick = @ + 1]

RemoveIoTick(s, id) == [s EXCEPT !.ticks = SelectSeq(@, LAMBDA k : k # id)]

ClaimDriver(s, t) == [s EXCEPT !.claimed = t]

ReleaseDriver(s) == [s EXCEPT !.claimed = None]

\* The links are closed, and what was queued is dropped; what a turn has already
\* moved out of its queue stays with the turn.
Stop(s) ==
    LET closed == [s EXCEPT !.up = {}, !.dialing = {}, !.claimed = None]
    IN  [closed EXCEPT !.gone = @ \cup ToSet(s.io) \cup ToSet(s.deferred)
                                  \cup {t.task : t \in s.timers},
                       !.io = <<>>, !.deferred = <<>>, !.timers = {}, !.ticks = <<>>]

-----------------------------------------------------------------------------
(* BurstDial.                                                              *)

\* The i-th address of a burst, of a peer p, is dialed under amp:burst:<i>:<p>,
\* whichever burst it is of.
BurstKey(i, p) == <<i, p>>

KeyPeer(key) == key[2]

\* Mutant: neither finish nor the window's closure looks at settled; whoever comes second answers again.
FinishUnchecked(s, j, ok) ==
    PostDeferred([s EXCEPT !.job[j].settled = TRUE], SettleOf(j, ok))

\* The first to come settles; on_done waits for the teardown lane.
Finish(s, j, ok) ==
    IF s.job[j].settled THEN s
    ELSE PostDeferred([s EXCEPT !.job[j].settled = TRUE], SettleOf(j, ok))

\* Ends the dials of the burst, but for those to a peer that is connected when
\* the burst has won; drops all its keys; calls on_done.
Settle(s, j, ok) ==
    LET keys == s.job[j].keys
        lost == {k \in keys : ~(ok /\ KeyPeer(k) \in s.up)}
    IN  [s EXCEPT !.dialing = @ \ lost, !.book = @ \ keys, !.job[j].answers = @ + 1]

\* The loop over the addresses: each is registered and dialed, up to the first
\* whose peer is connected already. No address at all is a failure.
BurstRegister(s, j, peers) ==
    LET won == {i \in DOMAIN peers : peers[i] \in s.up}
        before == {i \in DOMAIN peers : \A w \in won : i < w}
        keys == {BurstKey(i, peers[i]) : i \in before}
        dialed == [s EXCEPT !.book = @ \cup keys, !.dialing = @ \cup keys,
                            !.job[j].keys = keys, !.job[j].stage = "dialed"]
    IN  IF peers = <<>> \/ won # {} THEN Finish(dialed, j, won # {}) ELSE dialed

BurstArm(s, j) ==
    [PostAfter(s, Window, WindowOf(j)) EXCEPT !.job[j].stage = "armed"]

BurstPoll(s, j) == [PostToIo(s, PollOf(j)) EXCEPT !.job[j].stage = "called"]

\* The rest of the call, unless it has settled at once.
BurstDialRest(s, j) ==
    IF s.job[j].settled THEN [s EXCEPT !.job[j].stage = "called"]
    ELSE BurstPoll(BurstArm(s, j), j)

\* Made from a task the whole call is one step.
BurstDial(s, j, peers) == BurstDialRest(BurstRegister(s, j, peers), j)

\* One look at the peers; it comes back to the end of the work lane.
Poll(s, j) ==
    IF s.job[j].settled THEN s
    ELSE IF \E k \in s.job[j].keys : KeyPeer(k) \in s.up THEN Finish(s, j, TRUE)
    ELSE PostToIo(s, PollOf(j))

\* The closure of the window timer; its own look at settled is Finish's.
WindowEnds(s, j) == Finish(s, j, FALSE)

-----------------------------------------------------------------------------
(* Tasks.                                                                  *)

AddrLists == UNION {[1..n -> Peers] : n \in 0..MaxAddrs}

\* Bound: nothing is started late, or after Stop.
Starting(s) == s.now < MaxNow /\ s.stops > 0

\* What a product's code may do next, in a task or holding io_mu_ for the call.
Calls(s) ==
    LET x == User(s.made + 1)
        more == [s EXCEPT !.made = @ + 1]
    IN  (IF Starting(s) /\ s.made < MaxMade
         THEN {PostToIo(more, x), PostDeferred(more, x), PostAfter(more, 1, x)}
         ELSE {})
        \cup (IF Starting(s) /\ s.nextTick <= MaxTicks THEN {AddIoTick(s)} ELSE {})
        \cup {CancelTimer(s, t) : t \in {u \in s.timers : u.task[1] = "user"}}
        \cup (IF s.stops > 0 THEN {Stop([s EXCEPT !.stops = @ - 1])} ELSE {})

Bursts(s) ==
    {BurstDial(s, j, peers) :
        j \in {i \in Jobs : s.job[i].stage = "none" /\ Starting(s)}, peers \in AddrLists}

\* A task of the product ends, having made a call or none. A drive it asks for
\* is refused, as one is on already.
RunUser(s, x) == {[t EXCEPT !.ran = @ \cup {x}] : t \in {s} \cup Calls(s) \cup Bursts(s)}

Run(s, x) ==
    CASE x[1] = "user"   -> RunUser(s, x)
      [] x[1] = "poll"   -> {Poll(s, x[2])}
      [] x[1] = "window" -> {WindowEnds(s, x[2])}
      [] x[1] = "settle" -> {Settle(s, x[2], x[3])}

-----------------------------------------------------------------------------
(* Turns.                                                                  *)

Phases(kind) ==
    CASE kind = "pump"  -> <<"ticks", "io", "pump", "deferred">>
      [] kind = "tick"  -> <<"tick", "io", "deferred", "timers", "deferred">>
      [] kind = "drive" -> <<"ticks", "io", "pump", "tick", "io", "deferred",
                             "timers", "deferred">>

\* A phase begins with what it moves out of its queue: the ids of the io ticks,
\* or every timer that is due. With no phase left the turn ends.
Enter(s, todo) ==
    LET turn == [todo |-> todo, left |-> <<>>, due |-> {}, budget |-> IoBudget]
        due == {u \in s.timers : u.at <= s.now}
    IN  IF todo = <<>> THEN [s EXCEPT !.turn = NoTurn]
        ELSE CASE Head(todo) = "ticks"  -> [s EXCEPT !.turn = [turn EXCEPT !.left = s.ticks]]
               [] Head(todo) = "timers" -> [s EXCEPT !.turn = [turn EXCEPT !.due = due],
                                                     !.timers = @ \ due]
               [] OTHER -> [s EXCEPT !.turn = turn]

InPhase(p) == r.turn.todo # <<>> /\ Head(r.turn.todo) = p

NextPhase(s) == Enter(s, Tail(s.turn.todo))

\* One task at a turn only: whoever else drives waits for io_mu_ and finds
\* driving_ clear; a thread that has not the claim is sent away.
Begin(t, kind) ==
    /\ r.turn = NoTurn
    /\ r.claimed \in {None, t}
    /\ r' = Enter(r, Phases(kind))

\* Mutant: the drain does not count.
SpendNothing(budget) == budget

Spend(budget) == budget - 1

RunIoTick ==
    /\ InPhase("ticks")
    /\ IF r.turn.left = <<>> THEN r' = NextPhase(r)
       ELSE LET id == Head(r.turn.left)
                rest == [r EXCEPT !.turn.left = Tail(@)]
            IN  r' \in IF id \in ToSet(r.ticks) THEN {rest} \cup Calls(rest) \cup Bursts(rest)
                       ELSE {rest}

DrainPostedIo ==
    /\ InPhase("io")
    /\ IF r.turn.budget > 0 /\ r.io # <<>>
       THEN r' \in Run([r EXCEPT !.io = Tail(@), !.turn.budget = Spend(@)], Head(r.io))
       ELSE r' = NextPhase(r)

\* endpoint_.Pump: dials come through, and peers dial in.
PumpEndpoint ==
    /\ InPhase("pump")
    /\ \E done \in SUBSET r.dialing, in \in SUBSET Peers :
          r' = NextPhase([r EXCEPT !.dialing = @ \ done,
                                   !.up = @ \cup in \cup {KeyPeer(k) : k \in done}])

\* endpoint_.Tick and links_.Tick: dials fail, and links go.
TickLinks ==
    /\ InPhase("tick")
    /\ \E failed \in SUBSET r.dialing, lost \in SUBSET r.up :
          r' = NextPhase([r EXCEPT !.dialing = @ \ failed, !.up = @ \ lost])

\* Mutant: the queue is cleared when the batch is done, not when it is taken.
DrainDeferredLate ==
    /\ InPhase("deferred")
    /\ CASE r.turn.left # <<>> ->
              \E s \in Run([r EXCEPT !.turn.left = Tail(@)], Head(r.turn.left)) :
                 r' = IF s.turn.left = <<>> THEN [s EXCEPT !.deferred = <<>>] ELSE s
         [] r.turn.left = <<>> /\ r.deferred # <<>> ->
              r' = [r EXCEPT !.turn.left = r.deferred, !.deferred = <<>>]
         [] OTHER -> r' = NextPhase(r)

\* A batch at a time, moved out first, until none is left.
DrainDeferred ==
    /\ InPhase("deferred")
    /\ CASE r.turn.left # <<>> ->
              r' \in Run([r EXCEPT !.turn.left = Tail(@)], Head(r.turn.left))
         [] r.turn.left = <<>> /\ r.deferred # <<>> ->
              r' = [r EXCEPT !.turn.left = r.deferred, !.deferred = <<>>]
         [] OTHER -> r' = NextPhase(r)

FireTimers ==
    /\ InPhase("timers")
    /\ \/ r.turn.due = {} /\ r' = NextPhase(r)
       \/ \E t \in r.turn.due :
            /\ \A u \in r.turn.due : t.id <= u.id
            /\ r' \in Run([r EXCEPT !.turn.due = @ \ {t}], t.task)

TurnStep ==
    \/ RunIoTick
    \/ DrainPostedIo
    \/ PumpEndpoint
    \/ TickLinks
    \/ DrainDeferred
    \/ FireTimers

-----------------------------------------------------------------------------
(* The threads.                                                            *)

NoJob == [stage |-> "none", keys |-> {}, settled |-> FALSE, answers |-> 0]

Init ==
    r = [io |-> <<>>, deferred |-> <<>>, timers |-> {}, ticks |-> <<>>, claimed |-> None,
         turn |-> NoTurn, now |-> 0, book |-> {}, dialing |-> {}, up |-> {},
         job |-> [j \in Jobs |-> NoJob], made |-> 0, ran |-> {}, gone |-> {}, stops |-> 1, nextTick |-> 1,
         nextTimer |-> 1]

\* A call from a thread that is not in a turn.
CallIn == r.turn = NoTurn /\ r' \in Calls(r)

DropIoTick == r.turn = NoTurn /\ \E k \in ToSet(r.ticks) : r' = RemoveIoTick(r, k)

BurstStarts(j) ==
    /\ r.turn = NoTurn
    /\ Starting(r)
    /\ r.job[j].stage = "none"
    /\ \E peers \in AddrLists : r' = BurstRegister(r, j, peers)

BurstArms(j) ==
    /\ r.turn = NoTurn
    /\ r.job[j].stage = "dialed"
    /\ r' = IF r.job[j].settled THEN BurstDialRest(r, j) ELSE BurstArm(r, j)

BurstPolls(j) ==
    /\ r.turn = NoTurn
    /\ r.job[j].stage = "armed"
    /\ r' = BurstPoll(r, j)

Claims == r.claimed = None /\ r' = ClaimDriver(r, Owner)

Releases == r.claimed # None /\ r' = ReleaseDriver(r)

\* Bound: at the end the clock runs only for a timer that waits for it.
TimePasses ==
    /\ r.now < MaxNow \/ \E t \in r.timers : t.at > r.now
    /\ r' = [r EXCEPT !.now = @ + 1]

Next ==
    \/ \E t \in Threads, kind \in {"pump", "tick", "drive"} : Begin(t, kind)
    \/ TurnStep
    \/ CallIn
    \/ DropIoTick
    \/ \E j \in Jobs : BurstStarts(j)
    \/ \E j \in Jobs : BurstArms(j)
    \/ \E j \in Jobs : BurstPolls(j)
    \/ Claims
    \/ Releases
    \/ TimePasses

\* A turn goes on, the clock runs, and a thread that waits for io_mu_ between
\* the turns gets it some time: the one that owns the loop to drive, one inside
\* BurstDial to go on.
Fairness ==
    /\ SF_r(\E t \in Threads : Begin(t, "drive"))
    /\ WF_r(TurnStep)
    /\ \A j \in Jobs : SF_r(BurstArms(j)) /\ SF_r(BurstPolls(j))
    /\ WF_r(TimePasses)

Spec == Init /\ [][Next]_r /\ Fairness

-----------------------------------------------------------------------------
(* Properties.                                                             *)

\* The window's timer, the poll and the call itself race to settle a burst,
\* each from another queue and with turns of other threads in between: on_done
\* is called once at most, and from then on no key of the burst is registered
\* but one that a burst not yet answered has taken as well (MeshRuntime.cpp:507).
BurstsEndOnce ==
    /\ \A j \in Jobs : r.job[j].answers <= 1
    /\ \A k \in r.book : \E j \in Jobs : k \in r.job[j].keys /\ r.job[j].answers = 0

\* A burst is answered, with a poll that keeps the work lane from ever being
\* empty, unless the runtime is stopped (MeshRuntime.cpp:598, 611).
EveryBurstAnswered ==
    \A j \in Jobs :
        r.job[j].stage # "none" ~> r.job[j].answers > 0 \/ r.stops = 0

\* A task that has been posted on any of the queues, from a thread or from
\* another task, is run, or was dropped by CancelTimer or Stop.
PostedRuns ==
    \A n \in 1..MaxMade :
        r.made >= n ~> User(n) \in r.ran \cup r.gone

-----------------------------------------------------------------------------
(* The inductive invariant behind BurstsEndOnce. What the rest of the      *)
(* state holds is nothing to it.                                           *)

Users == {"user"} \X Nat
Settles == {"settle"} \X Jobs \X BOOLEAN
IoTasks == Users \cup {"poll"} \X Jobs
DeferredTasks == Users \cup Settles
Timers == [id : Nat, at : Nat, task : Users \cup {"window"} \X Jobs]

Job ==
    [stage : {"none", "dialed", "armed", "called"}, keys : SUBSET (Nat \X Peers),
     settled : BOOLEAN, answers : Nat]

TypedTurn(t) ==
    t \in [todo : {t.todo}, left : {t.left}, due : SUBSET Timers, budget : {t.budget}]

\* Only a teardown task settles a burst, and no other queue holds one.
Typed(s) ==
    /\ s \in [io : Seq(IoTasks), deferred : Seq(DeferredTasks), timers : SUBSET Timers,
              ticks : {s.ticks}, claimed : {s.claimed}, turn : {s.turn}, now : Nat,
              book : {s.book}, dialing : {s.dialing}, up : {s.up}, job : [Jobs -> Job],
              made : Nat, ran : {s.ran}, gone : {s.gone}, stops : Nat,
              nextTick : {s.nextTick}, nextTimer : Nat]
    /\ TypedTurn(s.turn)

\* The teardown tasks a turn has moved out of their queue and not yet run.
Batch(s) ==
    IF s.turn.todo # <<>> /\ Head(s.turn.todo) = "deferred" THEN s.turn.left ELSE <<>>

SettlesJob(x, j) == x[1] = "settle" /\ x[2] = j

\* The positions where a queue holds the end of burst j.
Ends(q, j) == {i \in DOMAIN q : SettlesJob(q[i], j)}

\* Of each burst one end is posted at most, when it settles, and it is in the
\* queue or in the batch until on_done is called.
EndInv(s, j) ==
    /\ \A i, k \in Ends(s.deferred, j) : i = k
    /\ \A i, k \in Ends(Batch(s), j) : i = k
    /\ Ends(s.deferred, j) = {} \/ Ends(Batch(s), j) = {}
    /\ Ends(s.deferred, j) # {} \/ Ends(Batch(s), j) # {}
          => s.job[j].settled /\ s.job[j].answers = 0
    /\ s.job[j].answers <= 1
    /\ ~s.job[j].settled => s.job[j].answers = 0
    /\ s.job[j].stage = "none" => ~s.job[j].settled /\ s.job[j].keys = {}

\* A poll or a window waits, or is due, only for a burst that has been called.
StartedInv(s) ==
    /\ \A i \in DOMAIN s.io : s.io[i] \in Users \/ s.job[s.io[i][2]].stage # "none"
    /\ \A t \in s.timers \cup s.turn.due :
          t.task \in Users \/ s.job[t.task[2]].stage # "none"

\* A key is registered for a burst that has not been answered.
BookInv(s) ==
    \A k \in s.book : \E j \in Jobs : k \in s.job[j].keys /\ s.job[j].answers = 0

Good(s) ==
    /\ Typed(s)
    /\ Batch(s) \in Seq(DeferredTasks)
    /\ \A j \in Jobs : EndInv(s, j)
    /\ StartedInv(s)
    /\ BookInv(s)

IndInv == Good(r)
=============================================================================
