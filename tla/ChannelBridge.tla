---------------------------- MODULE ChannelBridge ----------------------------
(***************************************************************************)
(* Channel sessions and the bridge that splices two of them (amp/L3/       *)
(* ChannelSession, ChannelBridge), at the node between: a session on each  *)
(* side, each on a channel of the mux of a link.                           *)
(*                                                                         *)
(* All of it runs on the io thread, so a call or an event is one step; but *)
(* handlers run inside it, and call back into the sessions. Every          *)
(* operation is an operator from one state w to the next:                  *)
(*                                                                         *)
(*   s[x]    the session of side x: closed_, mux (mux_ is set), frame and  *)
(*           cb (on_frame_ and on_closed_: none, the owner's own, or the   *)
(*           bridge's), hooked (the mux has its handlers), once            *)
(*           (policy_.read_once), quiet (its owner closed it quietly or    *)
(*           took its handlers away), told (calls of the owner's own       *)
(*           on_closed)                                                    *)
(*   chan[x], up[x]   the state of the channel, and whether the mux lives  *)
(*   b       the bridge: on, live (both sessions were open when it was     *)
(*           attached), cancelled_ and closed_fired_, user (user_cancel_   *)
(*           says so), calls (of its on_closed)                            *)
(*   gone    a session called into a mux that was no more                  *)
(*   frames  data frames so far                                            *)
(*                                                                         *)
(* SendData returns at once, so outbound_ is empty between calls and its   *)
(* bound, met only by a handler that writes from inside SendData, is left  *)
(* out. Two sides on one mux are left to the constant OneMux.              *)
(***************************************************************************)
EXTENDS Integers, Sequences, FiniteSets

CONSTANTS
    OneMux,     \* the two channels are of one link
    MaxFrames   \* bound: data frames that arrive

ASSUME ConstantsOK == OneMux \in BOOLEAN /\ MaxFrames \in Nat

VARIABLE w

Sides == {"left", "right"}
Other(x) == IF x = "left" THEN "right" ELSE "left"
SharesMux(x) == IF OneMux THEN Sides ELSE {x}

-----------------------------------------------------------------------------
(* Sessions.                                                               *)

\* A call into the mux of side x, which has to be alive.
Touch(v, x) == [v EXCEPT !.gone = @ \/ ~v.up[x]]

Bound(once) ==
    [closed |-> FALSE, mux |-> TRUE, frame |-> "own", cb |-> "own", hooked |-> TRUE,
     once |-> once, quiet |-> FALSE, told |-> 0]

\* Mutant: the handlers go, the pointer to the mux stays.
ForgetHandlers(v, x) == [v EXCEPT !.s[x].frame = "none", !.s[x].cb = "none"]

\* A session that has closed lets go of its mux and of both handlers.
Forget(v, x) ==
    [v EXCEPT !.s[x].mux = FALSE, !.s[x].frame = "none", !.s[x].cb = "none"]

\* The mux's CloseChannel and ResetChannel: nothing, if it has no such channel.
CloseChannel(v, x) ==
    [Touch(v, x) EXCEPT !.chan[x] = IF @ = "Closed" THEN @ ELSE "Closing"]

ResetChannel(v, x) == [Touch(v, x) EXCEPT !.chan[x] = "Closed"]

Ended(v, x) == v.s[x].closed \/ ~v.s[x].mux

CloseQuiet(v, x) ==
    IF Ended(v, x) THEN v
    ELSE Forget(CloseChannel([v EXCEPT !.s[x].closed = TRUE], x), x)

-----------------------------------------------------------------------------
(* The bridge.                                                             *)

\* Mutant: only the other side is left to close, as this one has closed.
FinishKeepsRight(v) ==
    IF v.b.fired THEN [v EXCEPT !.b.cancelled = TRUE]
    ELSE [CloseQuiet(v, "left") EXCEPT !.b.cancelled = TRUE, !.b.fired = TRUE,
                                       !.b.calls = @ + 1]

\* The first of all that end the bridge closes what is open and calls on_closed.
Finish(v) ==
    IF v.b.fired THEN [v EXCEPT !.b.cancelled = TRUE]
    ELSE [CloseQuiet(CloseQuiet(v, "left"), "right")
            EXCEPT !.b.cancelled = TRUE, !.b.fired = TRUE, !.b.calls = @ + 1]

Stop(v) == IF v.b.on THEN [Finish(v) EXCEPT !.b.stopped = TRUE] ELSE v

\* Both sessions get the bridge's handlers, closed or not.
Attach(v) ==
    [v EXCEPT !.b.on = TRUE, !.b.live = \A x \in Sides : ~v.s[x].closed,
              !.s = [x \in Sides |-> [v.s[x] EXCEPT !.frame = "bridge", !.cb = "bridge"]]]

-----------------------------------------------------------------------------
(* Sessions and their handlers.                                            *)

\* Mutant: the frame handler is kept.
FinishClosedKeeps(v, x) ==
    LET u == [v EXCEPT !.s[x].mux = FALSE, !.s[x].cb = "none"]
    IN  CASE v.s[x].cb = "own"    -> [u EXCEPT !.s[x].told = @ + 1]
          [] v.s[x].cb = "bridge" -> Finish(u)
          [] OTHER                -> u

\* FinishClosed with a reason: the closed callback runs when the session has
\* let go of everything.
FinishClosed(v, x) ==
    LET u == Forget(v, x)
    IN  CASE v.s[x].cb = "own"    -> [u EXCEPT !.s[x].told = @ + 1]
          [] v.s[x].cb = "bridge" -> Finish(u)
          [] OTHER                -> u

Closed(v, x) == [v EXCEPT !.s[x].closed = TRUE]

Close(v, x) ==
    IF Ended(v, x) THEN v ELSE FinishClosed(CloseChannel(Closed(v, x), x), x)

Reset(v, x) ==
    IF Ended(v, x) THEN v ELSE FinishClosed(ResetChannel(Closed(v, x), x), x)

NotifyRemoteTerminal(v, x) == IF v.s[x].closed THEN v ELSE FinishClosed(Closed(v, x), x)

\* The channel is left as it is.
FailOutbound(v, x) == FinishClosed(Closed(v, x), x)

\* PumpWrite sends at once; the mux has no room, or has not the channel open.
Enqueue(v, x, room) ==
    IF room /\ v.chan[x] = "Open" THEN Touch(v, x) ELSE FailOutbound(Touch(v, x), x)

ReleaseHandlers(v, x) ==
    LET u == Forget(v, x)
    IN  IF v.s[x].mux THEN [Touch(u, x) EXCEPT !.s[x].hooked = FALSE] ELSE u

\* What the bridge's frame handler makes of a frame from side x, and whether x
\* stays open. EnqueueOutbound is true even if the write has failed.
Forward(v, x, room) ==
    LET to == Other(x)
    IN  IF v.b.cancelled \/ v.b.user
        THEN [v |-> [v EXCEPT !.b.cancelled = TRUE], keep |-> FALSE]
        ELSE IF Ended(v, to) THEN [v |-> Finish(v), keep |-> FALSE]
        ELSE [v |-> Enqueue(v, to, room), keep |-> TRUE]

\* The handler the mux has: a session closed by its own frame handler is not
\* closed again.
OnData(v, x, owner, room) ==
    IF v.s[x].closed \/ v.s[x].frame = "none" THEN v
    ELSE LET done == IF v.s[x].frame = "bridge" THEN Forward(v, x, room)
                     ELSE [v |-> v, keep |-> owner]
         IN  IF ~done.v.s[x].closed /\ (~done.keep \/ v.s[x].once)
             THEN Close(done.v, x) ELSE done.v

\* The handler the mux has for the end of the channel; with the link the mux
\* goes too.
OnTerminal(v, x, dropped) ==
    IF ~v.s[x].hooked THEN v
    ELSE NotifyRemoteTerminal(IF dropped THEN [v EXCEPT !.s[x].mux = FALSE] ELSE v, x)

-----------------------------------------------------------------------------
(* What happens.                                                           *)

Init ==
    \E once \in [Sides -> BOOLEAN] :
        w = [s |-> [x \in Sides |-> Bound(once[x])],
             chan |-> [x \in Sides |-> "Open"], up |-> [x \in Sides |-> TRUE],
             b |-> [on |-> FALSE, live |-> FALSE, cancelled |-> FALSE, fired |-> FALSE,
                    user |-> FALSE, stopped |-> FALSE, calls |-> 0],
             gone |-> FALSE, frames |-> 0]

Live(x) == w.up[x] /\ w.chan[x] # "Closed"

DataArrives(x) ==
    /\ Live(x) /\ w.chan[x] = "Open" /\ w.s[x].hooked
    /\ w.frames < MaxFrames
    /\ \E owner, room \in BOOLEAN :
          w' = OnData([w EXCEPT !.frames = @ + 1], x, owner, room)

\* The peer's CLOSE or RESET, or nothing read for too long.
ChannelEnds(x) ==
    /\ Live(x)
    /\ w' = OnTerminal([w EXCEPT !.chan[x] = "Closed"], x, FALSE)

\* DropLinkNow: the link is erased, with its mux, and then the channels it had
\* are told one by one, in the order of a hash table.
LinkDrops(x) ==
    /\ w.up[x]
    /\ LET on == SharesMux(x)
           v == [w EXCEPT !.up = [y \in Sides |-> @[y] /\ y \notin on],
                          !.chan = [y \in Sides |-> IF y \in on THEN "Closed" ELSE @[y]]]
           Tell(u, y) == IF y \in on /\ w.chan[y] # "Closed" THEN OnTerminal(u, y, TRUE) ELSE u
       IN  \E y \in Sides : w' = Tell(Tell(v, y), Other(y))

OwnerCloses(x) == ~w.s[x].closed /\ w' \in {Close(w, x), Reset(w, x)}

OwnerLeaves(x) ==
    /\ ~w.s[x].closed
    /\ w' \in {[u EXCEPT !.s[x].quiet = TRUE] : u \in {CloseQuiet(w, x), ReleaseHandlers(w, x)}}

\* A session that has closed is destroyed; its owner holds it no more.
Destroyed(x) == w.s[x].closed /\ w' = ReleaseHandlers(w, x)

Attaches == ~w.b.on /\ w' = Attach(w)

Stops == w.b.on /\ ~w.b.stopped /\ w' = Stop(w)

Cancels == w.b.on /\ ~w.b.user /\ w' = [w EXCEPT !.b.user = TRUE]

Next ==
    \/ \E x \in Sides : DataArrives(x)
    \/ \E x \in Sides : ChannelEnds(x)
    \/ \E x \in Sides : LinkDrops(x)
    \/ \E x \in Sides : OwnerCloses(x)
    \/ \E x \in Sides : OwnerLeaves(x)
    \/ \E x \in Sides : Destroyed(x)
    \/ Attaches
    \/ Stops
    \/ Cancels

Spec == Init /\ [][Next]_w

-----------------------------------------------------------------------------
(* Properties.                                                             *)

Handlers == {"none", "own", "bridge"}

Session ==
    [closed : BOOLEAN, mux : BOOLEAN, frame : Handlers, cb : Handlers, hooked : BOOLEAN,
     once : BOOLEAN, quiet : BOOLEAN, told : Nat]

Bridge ==
    [on : BOOLEAN, live : BOOLEAN, cancelled : BOOLEAN, fired : BOOLEAN, user : BOOLEAN,
     stopped : BOOLEAN, calls : Nat]

State ==
    [s : [Sides -> Session], chan : [Sides -> {"Open", "Closing", "Closed"}],
     up : [Sides -> BOOLEAN], b : Bridge, gone : BOOLEAN, frames : 0..MaxFrames]

TypeOK == w \in State

\* "Either side close / cancel stops both. `on_closed` runs at most once."
\* (ChannelBridge.h): when a session of a bridge ends, by its peer, its owner, a
\* link, a failed write or a cancel, and from inside whichever handler, so has
\* the other, and on_closed has run once (ChannelBridge.cpp:30). Not so if the
\* owner left a session quietly, or attached one that had closed before.
OneEndsBoth ==
    /\ w.b.calls <= 1
    /\ w.b.live /\ (\A x \in Sides : ~w.s[x].quiet) /\ (\E x \in Sides : w.s[x].closed)
          => w.b.calls = 1 /\ \A x \in Sides : w.s[x].closed

\* A session that has closed, however it did, has let go of its handlers, and
\* told its owner once at most (ChannelSession.cpp:137): a handler that holds
\* the session does not keep it alive. Not so the handlers of a bridge that was
\* stopped, or attached to a session that had closed before.
ClosedLetsGo ==
    /\ TypeOK
    /\ \A x \in Sides :
        /\ w.s[x].told <= 1
        /\ w.s[x].closed /\ (w.b.on => w.b.live) => w.s[x].cb = "none" /\ w.s[x].frame = "none"

\* No session calls into the mux of a link that has been dropped, though it
\* learns of the drop only after the link is erased (ChannelSession.cpp:43, 138).
MuxAliveWhenCalled == ~w.gone

-----------------------------------------------------------------------------
(* The inductive invariant: what holds between two steps, and, but for the *)
(* session a handler is at, whenever a handler runs.                       *)

\* The handlers of session x: both are of one kind, its owner's own until the
\* bridge is attached; the owner's, once called, are gone.
HandlersInv(v, x) ==
    /\ v.s[x].frame = v.s[x].cb
    /\ v.s[x].cb = "bridge" => v.b.on
    /\ v.s[x].cb = "own" => ~v.b.on /\ v.s[x].told = 0
    /\ v.s[x].told <= 1

\* A session that holds its mux is open, and the mux has its handlers; it lets go
\* by closing or through its owner. A session that has closed gets handlers back
\* only from a late Attach.
SessionInv(v, x) ==
    /\ HandlersInv(v, x)
    /\ v.s[x].mux => ~v.s[x].closed /\ v.s[x].hooked /\ v.s[x].cb # "none"
    /\ ~v.s[x].mux => v.s[x].closed \/ v.s[x].quiet
    /\ v.s[x].closed /\ (v.b.on => v.b.live) => v.s[x].cb = "none"

\* With a link of its own, the mux a session holds lives and has the channel
\* open. (Of two channels of one link, the second is told of the drop after the
\* handlers of the first have run.)
MuxInv(v, x) == ~OneMux /\ v.s[x].mux => v.up[x] /\ v.chan[x] = "Open"

\* on_closed runs when closed_fired_ is set, of a bridge that was attached.
CallsInv(v) ==
    /\ v.b.calls = IF v.b.fired THEN 1 ELSE 0
    /\ v.b.fired \/ v.b.live => v.b.on
    /\ ~OneMux => ~v.gone

NobodyLeft(v) == \A x \in Sides : ~v.s[x].quiet

\* A bridge that has fired has let go of both sessions; one whose sessions nobody
\* left has fired when either has been let go of.
FiredInv(v) ==
    /\ v.b.fired => \A x \in Sides : ~v.s[x].mux
    /\ v.b.live /\ NobodyLeft(v) /\ (\E x \in Sides : ~v.s[x].mux) => v.b.fired

Good(v) ==
    /\ v \in State
    /\ \A x \in Sides : SessionInv(v, x) /\ MuxInv(v, x)
    /\ CallsInv(v)
    /\ FiredInv(v)

IndInv == Good(w)
=============================================================================
